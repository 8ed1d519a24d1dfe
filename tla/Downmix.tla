-------------------------------- MODULE Downmix -------------------------------
(***************************************************************************)
(* downmix.c of liba52: which output mode a decoder gets, the gains of the  *)
(* coded channels in it, and the mixing of the planes of 256 samples.       *)
(*                                                                         *)
(* Gains.  Every gain in the file is a product of powers of the fourth     *)
(* root of 1/2: it is written as an attenuation in steps of 1.5 dB, which  *)
(* makes MUL_L and MUL_C additions, and exact.  Mute is the gain 0.        *)
(*                                                                         *)
(* Planes.  A plane is what it holds: how often, and with what sign, the   *)
(* signal of each speaker is in it, of the block being decoded (age 0), of *)
(* the one before (1) or of an older one (2), and how often the bias.      *)
(***************************************************************************)
EXTENDS Integers, Sequences

Speakers == {"C1", "C2", "FL", "FC", "FR", "BC", "BL", "BR", "LF"}

\* A52_CHANNEL to A52_3F2R, in the order of their numbers, and the others.
Coded == <<"CHANNEL", "MONO", "STEREO", "3F", "2F1R", "3F1R", "2F2R", "3F2R">>
Modes == {Coded[i] : i \in 1..8} \union {"CHANNEL1", "CHANNEL2", "DOLBY"}

\* nfchans_tbl: the planes of a mode, its LFE left aside.
nfchans_tbl ==
  [m \in Modes |->
     CASE m \in {"MONO", "CHANNEL1", "CHANNEL2"} -> 1
       [] m \in {"CHANNEL", "STEREO", "DOLBY"}   -> 2
       [] m \in {"3F", "2F1R"}                   -> 3
       [] m \in {"3F1R", "2F2R"}                 -> 4
       [] m = "3F2R"                             -> 5]

\* Attenuations in steps of 1.5 dB.
LEVEL_3DB      == 2
LEVEL_45DB     == 3
LEVEL_6DB      == 4
LEVEL_PLUS6DB  == -4
Mute           == 99
MUL_L(a, b)    == IF Mute \in {a, b} THEN Mute ELSE a + b

\* The clev and slev that a frame may announce.
CentreLevels   == {LEVEL_3DB, LEVEL_45DB, LEVEL_6DB}
SurroundLevels == {LEVEL_3DB, LEVEL_6DB, Mute}
------------------------------------------------------------------------------
\* table[output][input & 7] of a52_downmix_init.
Table(want) ==
  CASE want \in {"CHANNEL", "STEREO"} ->
         <<"CHANNEL", "DOLBY", "STEREO", "STEREO",
           "STEREO", "STEREO", "STEREO", "STEREO">>
    [] want = "MONO" -> [i \in 1..8 |-> "MONO"]
    [] want = "3F"   -> <<"CHANNEL", "DOLBY", "STEREO", "3F",
                          "STEREO", "3F", "STEREO", "3F">>
    [] want = "2F1R" -> <<"CHANNEL", "DOLBY", "STEREO", "STEREO",
                          "2F1R", "2F1R", "2F1R", "2F1R">>
    [] want = "3F1R" -> <<"CHANNEL", "DOLBY", "STEREO", "STEREO",
                          "2F1R", "3F1R", "2F1R", "3F1R">>
    [] want = "2F2R" -> <<"CHANNEL", "DOLBY", "STEREO", "3F",
                          "2F2R", "2F2R", "2F2R", "2F2R">>
    [] want = "3F2R" -> <<"CHANNEL", "DOLBY", "STEREO", "3F",
                          "2F2R", "3F2R", "2F2R", "3F2R">>
    [] want \in {"CHANNEL1", "CHANNEL2"} ->
         [i \in 1..8 |-> IF i = 1 THEN want ELSE "MONO"]
    [] want = "DOLBY" -> <<"CHANNEL", "DOLBY", "STEREO", "DOLBY",
                           "DOLBY", "DOLBY", "DOLBY", "DOLBY">>

\* The coded mode of an input: a Dolby Surround stream is a stereo one.
acmod(input) == IF input = "DOLBY" THEN "STEREO" ELSE input

\* The mode a52_downmix_init grants to who wants a mode.
Granted(input, want, clev) ==
  LET i == CHOOSE k \in 1..8 : Coded[k] = acmod(input)
      o == Table(want)[i]
  IN  IF o = "STEREO" /\ (input = "DOLBY" \/ (input = "3F" /\ clev = LEVEL_3DB))
      THEN "DOLBY" ELSE o

\* Gains as numbers, for what has to be added: in units of 1/Unit.
Unit == 10000
Linear(g) ==
  CASE g = Mute -> 0 [] g = -4 -> 20000 [] g = -2 -> 14142
    [] g = 0 -> 10000 [] g = 1 -> 8409 [] g = 2 -> 7071 [] g = 3 -> 5946
    [] g = 4 -> 5000 [] g = 5 -> 4204 [] g = 6 -> 3536 [] g = 7 -> 2973
    [] g = 8 -> 2500
DIV(a, b) == (a * Unit) \div b

\* Mutant: the level is not adjusted.
AdjustNever(input, output, clev, slev) == Unit
\* What a52_downmix_init multiplies *level with under A52_ADJUST_LEVEL.
Adjust(input, output, clev, slev) ==
  LET to   == <<acmod(input), output>>
      c    == Linear(clev)
      s    == Linear(slev)
      s3   == Linear(MUL_L(slev, LEVEL_3DB))
      half == Linear(LEVEL_3DB)
  IN CASE to = <<"3F", "MONO">> -> DIV(half, Unit + c)
       [] to \in {<<"STEREO", "MONO">>, <<"2F2R", "2F1R">>, <<"3F2R", "3F1R">>}
            -> half
       [] to = <<"3F2R", "2F1R">> ->
            IF c < 4142 THEN half ELSE DIV(Unit, Unit + c)
       [] to \in {<<"3F", "STEREO">>, <<"3F1R", "2F1R">>, <<"3F1R", "2F2R">>,
                  <<"3F2R", "2F2R">>} -> DIV(Unit, Unit + c)
       [] to = <<"2F1R", "MONO">> -> DIV(14142, 2 * Unit + s)
       [] to \in {<<"2F1R", "STEREO">>, <<"3F1R", "3F">>} -> DIV(Unit, Unit + s3)
       [] to = <<"3F1R", "MONO">> -> DIV(half, Unit + c + s \div 2)
       [] to = <<"3F1R", "STEREO">> -> DIV(Unit, Unit + c + s3)
       [] to = <<"2F2R", "MONO">> -> DIV(half, Unit + s)
       [] to \in {<<"2F2R", "STEREO">>, <<"3F2R", "3F">>} -> DIV(Unit, Unit + s)
       [] to = <<"3F2R", "MONO">> -> DIV(half, Unit + c + s)
       [] to = <<"3F2R", "STEREO">> -> DIV(Unit, Unit + c + s)
       [] to = <<"MONO", "DOLBY">> -> 14142
       [] to \in {<<"3F", "DOLBY">>, <<"2F1R", "DOLBY">>} -> DIV(Unit, Unit + half)
       [] to \in {<<"3F1R", "DOLBY">>, <<"2F2R", "DOLBY">>}
            -> DIV(Unit, Unit + 2 * half)
       [] to = <<"3F2R", "DOLBY">> -> DIV(Unit, Unit + 3 * half)
       [] OTHER -> Unit
------------------------------------------------------------------------------
\* a52_downmix_coeff: the gains of the coded channels, relative to level, and
\* the channels that a52_downmix gives their bias (chanbias).
a52_downmix_coeff(mode, output, clev, slev) ==
  LET to == <<mode, output>>
      d3 == LEVEL_3DB
      c  == clev
      c3 == MUL_L(MUL_L(d3, clev), LEVEL_PLUS6DB)
      s3 == MUL_L(d3, slev)
      Row(g, b) == [gain |-> g, chanbias |-> b]
  IN CASE mode = output \/ to = <<"STEREO", "DOLBY">> -> Row(<<0, 0, 0, 0, 0>>, {})
       [] to = <<"CHANNEL", "MONO">> -> Row(<<LEVEL_6DB, LEVEL_6DB>>, {1, 2})
       [] to = <<"STEREO", "MONO">>  -> Row(<<d3, d3>>, {1, 2})
       [] to = <<"3F", "MONO">>      -> Row(<<d3, c3, d3>>, 1..3)
       [] to = <<"2F1R", "MONO">>    -> Row(<<d3, d3, s3>>, 1..3)
       [] to = <<"2F2R", "MONO">>    -> Row(<<d3, d3, s3, s3>>, 1..4)
       [] to = <<"3F1R", "MONO">>    -> Row(<<d3, c3, d3, s3>>, 1..4)
       [] to = <<"3F2R", "MONO">>    -> Row(<<d3, c3, d3, s3, s3>>, 1..5)
       [] to = <<"MONO", "DOLBY">>   -> Row(<<d3>>, {})
       [] to = <<"3F", "DOLBY">>     -> Row(<<0, d3, 0, 0, 0>>, 1..3)
       [] to \in {<<"3F", "STEREO">>, <<"3F1R", "2F1R">>, <<"3F2R", "2F2R">>}
            -> Row(<<0, c, 0, 0, 0>>, 1..3)
       [] to = <<"2F1R", "DOLBY">>   -> Row(<<0, 0, d3>>, 1..3)
       [] to = <<"2F1R", "STEREO">>  -> Row(<<0, 0, s3>>, 1..3)
       [] to = <<"3F1R", "DOLBY">>   -> Row(<<0, d3, 0, d3>>, 1..4)
       [] to = <<"3F1R", "STEREO">>  -> Row(<<0, c, 0, s3>>, 1..4)
       [] to = <<"2F2R", "DOLBY">>   -> Row(<<0, 0, d3, d3>>, 1..4)
       [] to = <<"2F2R", "STEREO">>  -> Row(<<0, 0, slev, slev>>, 1..4)
       [] to = <<"3F2R", "DOLBY">>   -> Row(<<0, d3, 0, d3, d3>>, 1..5)
       [] to = <<"3F2R", "2F1R">>    -> Row(<<0, c, 0, d3, d3>>, 1..5)
       [] to = <<"3F2R", "STEREO">>  -> Row(<<0, c, 0, slev, slev>>, 1..5)
       [] to = <<"3F1R", "3F">>      -> Row(<<0, 0, 0, s3>>, {1, 3, 4})
       [] to = <<"3F2R", "3F">>      -> Row(<<0, 0, 0, slev, slev>>, {1, 3, 4, 5})
       [] to = <<"2F2R", "2F1R">>    -> Row(<<0, 0, d3, d3>>, {3, 4})
       [] to = <<"3F2R", "3F1R">>    -> Row(<<0, 0, 0, d3, d3>>, {4, 5})
       [] to = <<"2F1R", "2F2R">>    -> Row(<<0, 0, d3>>, {})
       [] to = <<"3F1R", "2F2R">>    -> Row(<<0, c, 0, d3>>, 1..3)
       [] to = <<"3F1R", "3F2R">>    -> Row(<<0, 0, 0, d3>>, {})
       [] to = <<"CHANNEL", "CHANNEL1">> -> Row(<<0, Mute>>, {})
       [] to = <<"CHANNEL", "CHANNEL2">> -> Row(<<Mute, 0>>, {})
------------------------------------------------------------------------------
\* A signal: how often each term is in a sum.  The bias has no age.
Terms    == (Speakers \X (0..2)) \union {<<"bias", 0>>}
Silence  == [t \in Terms |-> 0]
Signal(s)  == [Silence EXCEPT ![<<s, 0>>] = 1]
Plus(a, b)  == [t \in Terms |-> a[t] + b[t]]
Minus(a, b) == [t \in Terms |-> a[t] - b[t]]
BIAS(bias, a) == [a EXCEPT ![<<"bias", 0>>] = @ + bias]

\* One block later.
Older(a) == [t \in Terms |->
               CASE t[1] = "bias" \/ t[2] = 0 -> 0
                 [] t[2] = 1 -> a[<<t[1], 0>>]
                 [] OTHER    -> a[<<t[1], 1>>] + a[<<t[1], 2>>]]

\* The five planes behind samples (with the LFE plane left aside).
Planes == 0..4

\* Mutant: the bias is left out.
mix3to2Unbiased(p, bias) ==
  [p EXCEPT ![0] = Plus(@, p[1]), ![1] = Plus(p[2], p[1])]
mix3to2(p, bias) ==
  LET common == BIAS(bias, p[1])
  IN  [p EXCEPT ![0] = Plus(@, common), ![1] = Plus(p[2], common)]

mixToMono(p, n, bias) ==
  LET rest == CASE n = 2 -> p[1]
                [] n = 3 -> Plus(p[1], p[2])
                [] n = 4 -> Plus(Plus(p[1], p[2]), p[3])
                [] n = 5 -> Plus(Plus(Plus(p[1], p[2]), p[3]), p[4])
  IN  [p EXCEPT ![0] = Plus(@, BIAS(bias, rest))]

mix2to1(p, dest, src, bias) == [p EXCEPT ![dest] = Plus(@, BIAS(bias, p[src]))]

mix21to2(p, left, right, bias) ==
  LET common == BIAS(bias, p[right + 1])
  IN  [p EXCEPT ![left] = Plus(@, common), ![right] = Plus(@, common)]

\* mix21toS and mix22toS: the surround is in the left plane with a minus sign.
mixSurround(p, surround, bias) ==
  [p EXCEPT ![0] = Plus(@, BIAS(bias, Minus(Silence, surround))),
            ![1] = Plus(@, BIAS(bias, surround))]

\* mix31to2, mix31toS, mix32to2 and mix32toS: what the centre and the
\* surrounds add to the left and to the right.
mixAround(p, left, right) == [p EXCEPT ![0] = Plus(@, left), ![1] = Plus(p[2], right)]

a52_downmix(p, mode, output, bias, slev) ==
  LET to      == <<mode, output>>
      muted   == slev = Mute
      stereo  == output \in {"STEREO", "DOLBY"}
      common  == BIAS(bias, p[1])
      both    == Plus(p[3], p[4])
  IN CASE to = <<"CHANNEL", "CHANNEL2">> -> [p EXCEPT ![0] = p[1]]
       [] to \in {<<"CHANNEL", "MONO">>, <<"STEREO", "MONO">>} -> mixToMono(p, 2, bias)
       [] to = <<"2F1R", "MONO">> -> mixToMono(p, IF muted THEN 2 ELSE 3, bias)
       [] to = <<"3F", "MONO">>   -> mixToMono(p, 3, bias)
       [] to = <<"3F1R", "MONO">> -> mixToMono(p, IF muted THEN 3 ELSE 4, bias)
       [] to = <<"2F2R", "MONO">> -> mixToMono(p, IF muted THEN 2 ELSE 4, bias)
       [] to = <<"3F2R", "MONO">> -> mixToMono(p, IF muted THEN 3 ELSE 5, bias)
       [] to = <<"MONO", "DOLBY">> -> [p EXCEPT ![1] = p[0]]
       [] mode = "3F" /\ stereo -> mix3to2(p, bias)
       [] to = <<"2F1R", "STEREO">> -> IF muted THEN p ELSE mix21to2(p, 0, 1, bias)
       [] to = <<"2F1R", "DOLBY">>  -> mixSurround(p, p[2], bias)
       [] to = <<"3F1R", "STEREO">> ->
            IF muted THEN mix3to2(p, bias)
            ELSE mixAround(p, Plus(common, p[3]), Plus(common, p[3]))
       [] to = <<"3F1R", "DOLBY">>  ->
            mixAround(p, Minus(common, p[3]), Plus(common, p[3]))
       [] to = <<"2F2R", "STEREO">> ->
            IF muted THEN p ELSE mix2to1(mix2to1(p, 0, 2, bias), 1, 3, bias)
       [] to = <<"2F2R", "DOLBY">>  -> mixSurround(p, Plus(p[2], p[3]), bias)
       [] to = <<"3F2R", "STEREO">> ->
            IF muted THEN mix3to2(p, bias)
            ELSE mixAround(p, Plus(common, p[3]), Plus(common, p[4]))
       [] to = <<"3F2R", "DOLBY">>  ->
            mixAround(p, Minus(common, both), Plus(common, both))
       [] to = <<"3F1R", "3F">> -> IF muted THEN p ELSE mix21to2(p, 0, 2, bias)
       [] to = <<"3F2R", "3F">> ->
            IF muted THEN p ELSE mix2to1(mix2to1(p, 0, 3, bias), 2, 4, bias)
       [] to \in {<<"3F1R", "2F1R">>, <<"3F1R", "2F2R">>}
            -> [mix3to2(p, bias) EXCEPT ![2] = p[3]]
       [] to = <<"2F2R", "2F1R">> -> mix2to1(p, 2, 3, bias)
       [] to = <<"3F2R", "2F1R">> -> [mix3to2(p, bias) EXCEPT ![2] = BIAS(bias, both)]
       [] to = <<"3F2R", "3F1R">> -> mix2to1(p, 3, 4, bias)
       [] to = <<"2F1R", "2F2R">> -> [p EXCEPT ![3] = p[2]]
       [] to = <<"3F2R", "2F2R">> -> [mix3to2(p, bias) EXCEPT ![2] = p[3], ![3] = p[4]]
       [] to = <<"3F1R", "3F2R">> -> [p EXCEPT ![4] = p[3]]
       [] OTHER -> p

\* Mutant: the planes stay mixed.
a52_upmixNot(p, mode, output) == p
\* a52_upmix: planes that were mixed are taken apart again, so that mixing them
\* gives what they were: the centre and the surrounds of the sum are silent.
a52_upmix(p, mode, output) ==
  LET to     == <<mode, output>>
      stereo == output \in {"STEREO", "DOLBY"}
      Zero(from) == [k \in Planes |-> IF k >= from THEN Silence ELSE p[k]]
      Apart(q)   == [q EXCEPT ![2] = q[1], ![1] = Silence]
  IN CASE to = <<"CHANNEL", "CHANNEL2">> -> [p EXCEPT ![1] = p[0]]
       [] output = "MONO" /\ mode # "MONO" ->
            [k \in Planes |-> IF k \in 1..(nfchans_tbl[mode] - 1) THEN Silence ELSE p[k]]
       [] mode = "3F2R" /\ stereo -> Apart(Zero(3))
       [] mode = "3F1R" /\ stereo -> Apart([p EXCEPT ![3] = Silence])
       [] mode = "3F" /\ stereo   -> Apart(p)
       [] mode = "2F2R" /\ stereo -> [p EXCEPT ![2] = Silence, ![3] = Silence]
       [] mode = "2F1R" /\ stereo -> [p EXCEPT ![2] = Silence]
       [] to = <<"3F2R", "3F">> -> Zero(3)
       [] to \in {<<"3F1R", "3F">>, <<"2F2R", "2F1R">>} -> [p EXCEPT ![3] = Silence]
       [] to = <<"3F2R", "3F1R">> -> Zero(4)
       [] to = <<"3F2R", "2F1R">> -> Apart([Zero(4) EXCEPT ![3] = p[2]])
       [] to = <<"3F1R", "2F1R">> -> Apart([p EXCEPT ![3] = p[2]])
       [] to = <<"3F2R", "2F2R">> -> Apart([p EXCEPT ![4] = p[3], ![3] = p[2]])
       [] OTHER -> p
==============================================================================
