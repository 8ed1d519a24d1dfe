---------------------------- MODULE ExponentCoding ----------------------------
(***************************************************************************)
(* Exponents between the encoder and the decoder.  ac3enc.cpp decides in   *)
(* which blocks a channel sends exponents and how finely, replaces them by *)
(* some that the format can express (neighbours differ by at most two) and *)
(* sends the differences, three to a code; parse_exponents adds them up.   *)
(* Exponents are tuples here: element k + 1 is the exponent of coefficient *)
(* k.                                                                      *)
(***************************************************************************)
EXTENDS Loops, SequencesExt

NB_BLOCKS == 6
Coefficients == 256            \* MDCT_N / 2
EXP_REUSE == 0
EXP_NEW   == 1
EXP_D15   == 1
EXP_D25   == 2
EXP_D45   == 3
EXP_DIFF_THRESHOLD == 1000

group_size(exp_strategy) == <<1, 2, 4>>[exp_strategy]
nb_groups(nb_coefs, size) == (nb_coefs + 3 * size - 4) \div (3 * size)
------------------------------------------------------------------------------
\* When to send exponents.

Abs(x) == IF x < 0 THEN -x ELSE x
calc_exp_diff(a, b) ==
  Loop(Nat, [x \in Nat \X (1..Coefficients) |-> x[1] + Abs(a[x[2]] - b[x[2]])],
       0, 1, Coefficients)

\* If the blocks of New send exponents: the one whose exponents block b uses, and
\* the first one after b.
Owner(New, b) == Max({i \in New : i <= b})
After(New, b) == Min({i \in New \union {NB_BLOCKS + 1} : i > b})

Finely(blocks) == CASE blocks = 1 -> EXP_D45
                    [] blocks \in {2, 3} -> EXP_D25
                    [] OTHER -> EXP_D15

\* The strategies of the six blocks with the exponents exp.
compute_exp_strategy(exp, is_lfe) ==
  LET New == {1} \union
        {b \in 2..NB_BLOCKS : calc_exp_diff(exp[b], exp[b - 1]) > EXP_DIFF_THRESHOLD}
  IN [b \in 1..NB_BLOCKS |->
        IF b \notin New THEN EXP_REUSE
        ELSE IF is_lfe THEN EXP_NEW ELSE Finely(After(New, b) - b)]
------------------------------------------------------------------------------
\* Which exponents to send.

\* exponent_min, of block first with each of the users, which reuse its
\* exponents.  Those beyond the channel's coefficients stay the block's own.
exponent_min(exp, first, users, nb_coefs) ==
  [k \in 1..Coefficients |->
     IF k > nb_coefs THEN exp[first][k] ELSE Min({exp[b][k] : b \in users})]

\* The DC exponent and those of the groups.
Grouped(exp, nb_coefs, size) ==
  <<Min({exp[1], 15})>> \o
  [i \in 1..(3 * nb_groups(nb_coefs, size)) |->
     Min({exp[2 + (i - 1) * size + j] : j \in 0..(size - 1)})]

\* The step of a pass at group i: it may exceed the one before it by two, and if
\* it is below it by more, that one is lowered, which calls for another pass.
Limited(s, i) ==
  LET delta == s.exp1[i] - s.exp1[i - 1] IN
  IF delta > 2 THEN [s EXCEPT !.exp1[i] = s.exp1[i - 1] + 2]
  ELSE IF delta < -2 THEN [exp1 |-> [s.exp1 EXCEPT ![i - 1] = s.exp1[i] + 2], recurse |-> TRUE]
  ELSE s

Pass(exp1) ==
  LET n == Len(exp1)
      S == [exp1 : [1..n -> 0..24], recurse : BOOLEAN]
  IN Loop(S, [x \in S \X (2..n) |-> Limited(x[1], x[2])],
          [exp1 |-> exp1, recurse |-> FALSE], 2, n)

\* The passes are repeated until one lowers nothing that is behind it.
Constrain(exp1) ==
  LET settled[e \in [1..Len(exp1) -> 0..24]] ==
        LET pass == Pass(e) IN IF pass.recurse THEN settled[pass.exp1] ELSE pass.exp1
  IN settled[exp1]

\* The DC exponent, then each group's for all of its coefficients.
Spread(exp1, size) ==
  [k \in 1..(1 + (Len(exp1) - 1) * size) |->
     IF k = 1 THEN exp1[1] ELSE exp1[2 + (k - 2) \div size]]

encode_exp(exp, nb_coefs, exp_strategy) ==
  LET size == group_size(exp_strategy)
  IN Spread(Constrain(Grouped(exp, nb_coefs, size)), size)
------------------------------------------------------------------------------
\* Mutant: the groups are not skipped over.
CodesUngrouped(encoded, nb_coefs, exp_strategy) ==
  LET delta(i) == encoded[i + 1] - encoded[i] + 2
  IN [g \in 1..nb_groups(nb_coefs, group_size(exp_strategy)) |->
        (delta(3 * g - 2) * 5 + delta(3 * g - 1)) * 5 + delta(3 * g)]
\* What is sent: output_audio_block's first exponent and codes.
Codes(encoded, nb_coefs, exp_strategy) ==
  LET size == group_size(exp_strategy)
      e(i) == IF i = 0 THEN encoded[1] ELSE encoded[2 + (i - 1) * size]
      delta(i) == e(i) - e(i - 1) + 2
  IN [g \in 1..nb_groups(nb_coefs, size) |->
        (delta(3 * g - 2) * 5 + delta(3 * g - 1)) * 5 + delta(3 * g)]

\* And what is made of it: the tables of the decoder.  25 is for codes that no
\* three differences have.
exp_1(code) == IF code < 125 THEN (code \div 25) - 2 ELSE 25
exp_2(code) == IF code < 125 THEN ((code \div 5) % 5) - 2 ELSE 25
exp_3(code) == IF code < 125 THEN (code % 5) - 2 ELSE 25

\* <<>> for the return value 1.  exponent is a uint8_t; in front of what is parsed
\* is the one that the caller has stored.
parse_exponents(expstr, codes, exponent) ==
  LET n == 3 * Len(codes)
      S == [0..n -> 0..255]
      change(i) == LET code == codes[((i - 1) \div 3) + 1]
                   IN <<exp_1(code), exp_2(code), exp_3(code)>>[((i - 1) % 3) + 1]
      body == [x \in S \X (1..n) |->
                 [x[1] EXCEPT ![x[2]] = (x[1][x[2] - 1] + change(x[2])) % 256]]
      after == Loop(S, body, [i \in 0..n |-> exponent], 1, n)
  IN IF \E i \in 1..n : after[i] > 24 THEN <<>>
     ELSE Spread([i \in 1..(n + 1) |-> after[i - 1]], group_size(expstr))
==============================================================================
