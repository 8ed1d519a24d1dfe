----------------------------- MODULE BitAllocation -----------------------------
(***************************************************************************)
(* The bit allocation, twice.  How many bits a mantissa has is not sent:   *)
(* ac3_parametric_bit_allocation of the encoder and a52_bit_allocate of    *)
(* the decoder compute it, each in its own way, from the exponents and a   *)
(* few parameters.  The encoder takes the power of the coefficients        *)
(* (3072 - 128 * exponent) and goes over arrays of 50 bands; the decoder   *)
(* takes the attenuation (128 * exponent), turns the signs of everything   *)
(* round, and goes over the coefficients once.                             *)
(*                                                                         *)
(* Exponents and allocations are tuples: element k + 1 is that of          *)
(* coefficient k.  Of the tables, the entries that the encoder's           *)
(* parameters choose are here; halfratecod is 0 at the rates of the codec. *)
(***************************************************************************)
EXTENDS Integers, SequencesExt

\* A table by its runs: v, of which there are times[1], then v + step, and so on.
RECURSIVE Runs(_, _, _)
Runs(times, v, step) ==
  IF times = <<>> THEN <<>>
  ELSE [i \in 1..Head(times) |-> v] \o Runs(Tail(times), v + step, step)

latab == Runs(
  <<1, 1, 1, 1, 1, 1, 1, 1, 1, 1, 1, 1, 2, 1, 1, 1, 1, 2, 1, 1, 2, 1, 1, 2, 1, 1, 2,
    1, 2, 2, 1, 2, 2, 1, 2, 2, 2, 2, 2, 2, 2, 2, 2, 3, 2, 3, 3, 3, 3, 3, 3, 4, 4, 4,
    5, 5, 6, 6, 8, 8, 11, 14, 19, 32, 50>>,
  64, -1)

\* By fscod, in units of 16.
hth == <<
  <<77, 77, 68, 64, 62, 60, 59, 59, 58, 58, 58, 58, 58, 57, 57, 57, 56, 56, 55, 55,
    54, 54, 53, 53, 52, 52, 51, 50, 49, 48, 47, 47, 47, 47, 48, 49, 52, 57, 62, 66,
    70, 73, 74, 70, 68, 68, 82, 128, 132, 132>>,
  <<79, 79, 70, 65, 62, 61, 60, 59, 59, 58, 58, 58, 58, 58, 57, 57, 57, 56, 56, 56,
    55, 55, 54, 54, 53, 53, 52, 52, 50, 49, 48, 47, 47, 47, 47, 48, 50, 53, 57, 62,
    66, 69, 74, 73, 70, 68, 72, 99, 132, 132>>,
  <<88, 88, 75, 69, 66, 63, 62, 61, 60, 59, 59, 59, 58, 58, 58, 58, 58, 58, 58, 58,
    57, 57, 57, 57, 56, 56, 56, 55, 54, 53, 52, 51, 50, 49, 48, 47, 47, 47, 48, 49,
    51, 53, 60, 65, 71, 74, 70, 68, 69, 78>> >>

baptab == Runs(<<1, 5, 2, 3, 2, 2, 4, 4, 4, 4, 4, 4, 4, 4, 8, 9>>, 0, 1)
bndsz  == [k \in 1..50 |-> IF k <= 28 THEN 1 ELSE IF k <= 35 THEN 3
                           ELSE IF k <= 41 THEN 6 ELSE IF k <= 45 THEN 12 ELSE 24]

\* compute_bit_allocation: the parameters' codes, and what ac3tab.h makes of them.
sdecaycod == 2
fdecaycod == 1
sgaincod  == 1
dbkneecod == 2
floorcod  == 4
fgaincod  == 4
sdecay == <<15, 17, 19, 21>>[sdecaycod + 1]
fdecay == <<63, 83, 103, 123>>[fdecaycod + 1]
sgain  == <<1344, 1240, 1144, 1040>>[sgaincod + 1]
dbknee == <<0, 1792, 2304, 2816>>[dbkneecod + 1]
floor  == <<752, 688, 624, 560, 496, 368, 240>>[floorcod + 1]
fgain  == <<128, 256, 384, 512, 640, 768, 896, 1024>>[fgaincod + 1]
\* What output_audio_block sends of them, with the offsets of the frame.
sent_bai(coarse, fine) ==
  [sdcycod |-> sdecaycod, fdcycod |-> fdecaycod, sgaincod |-> sgaincod, dbpbcod |-> dbkneecod,
   floorcod |-> floorcod, csnroffst |-> coarse, fsnroffst |-> fine, fgaincod |-> fgaincod]

\* ac3_common_init: the first coefficient of band k, of 0..50, and the band of
\* coefficient bin.  The last is 0: the encoder's channels end before band 49.
bndtab  == [k \in 0..50 |-> IF k = 50 THEN 0 ELSE FoldLeft(+, 0, SubSeq(bndsz, 1, k))]
masktab == [bin \in 0..252 |-> Max({k \in 0..49 : bndtab[k] <= bin})]
------------------------------------------------------------------------------
\* ac3_parametric_bit_allocation, for a channel with the coefficients
\* 0..end - 1.

psd(e) == 3072 - 128 * e
LogAdd(v, v1) ==
  LET adr == Min({(IF v < v1 THEN v1 - v ELSE v - v1) \div 2, 255})
  IN Max({v, v1}) + latab[adr + 1]

\* bndpsd: the power of band k.
RECURSIVE Integrated(_, _)
Integrated(exp, v) == IF exp = <<>> THEN v ELSE Integrated(Tail(exp), LogAdd(v, psd(Head(exp))))
Band(exp, end, k) == SubSeq(exp, bndtab[k] + 1, Min({bndtab[k + 1], end}))
RECURSIVE bndpsd(_, _, _)
bndpsd(exp, end, k) ==
  IF k >= 50 \/ bndtab[k] >= end THEN <<>>
  ELSE LET band == Band(exp, end, k)
       IN <<Integrated(Tail(band), psd(Head(band)))>> \o bndpsd(exp, end, k + 1)

calc_lowcomp1(a, b0, b1) ==
  IF b0 + 256 = b1 THEN 384 ELSE IF b0 > b1 THEN Max({a - 64, 0}) ELSE a
\* Mutant: the compensation is 384 below bin 20, too.
SameBelow20(a, b0, b1, bin) ==
  IF bin < 20 THEN calc_lowcomp1(a, b0, b1) ELSE Max({a - 128, 0})
calc_lowcomp(a, b0, b1, bin) ==
  IF bin < 7 THEN calc_lowcomp1(a, b0, b1)
  ELSE IF bin < 20
  THEN IF b0 + 256 = b1 THEN 320 ELSE IF b0 > b1 THEN Max({a - 64, 0}) ELSE a
  ELSE Max({a - 128, 0})

\* The excitation of band bin, of those with the powers p, and what is kept for
\* the next: s.rising until the power no longer falls (begin).
Excited(s, p, bin, is_lfe) ==
  LET b == p[bin + 1]
      last == is_lfe /\ bin = 6
      low == IF last \/ bin >= 22 THEN s.lowcomp
             ELSE calc_lowcomp(s.lowcomp, b, p[bin + 2], bin)
      begun == bin >= 7 \/ s.begun
      fast == IF begun THEN Max({s.fastleak - fdecay, b - fgain}) ELSE b - fgain
      slow == IF begun THEN Max({s.slowleak - sdecay, b - sgain}) ELSE b - sgain
  IN [lowcomp |-> low, fastleak |-> fast, slowleak |-> slow,
      begun |-> begun \/ (bin >= 2 /\ ~last /\ b <= p[bin + 2]),
      excite |-> IF bin >= 22 THEN Max({fast, slow})
                 ELSE IF begun THEN Max({fast - low, slow}) ELSE fast - low]

\* The masking curve, from band bin.
RECURSIVE mask(_, _, _, _, _)
mask(s, p, bin, is_lfe, fscod) ==
  IF bin = Len(p) THEN <<>>
  ELSE LET next == Excited(s, p, bin, is_lfe)
           knee == Max({dbknee - p[bin + 1], 0}) \div 4
       IN <<Max({next.excite + knee, 16 * hth[fscod + 1][bin + 1]})>>
            \o mask(next, p, bin + 1, is_lfe, fscod)

Address(power, m, snroffset) ==
  LET v == (Max({m - snroffset - floor, 0}) \div 32) % 256
  IN Max({0, Min({(power - 32 * v - floor) \div 32, 63})})

ac3_parametric_bit_allocation(exp, end, coarse, fine, is_lfe, fscod) ==
  LET m == mask([lowcomp |-> 0, fastleak |-> 0, slowleak |-> 0, begun |-> FALSE],
                bndpsd(exp, end, 0), 0, is_lfe, fscod)
  IN [i \in 1..end |->
        baptab[1 + Address(psd(exp[i]), m[masktab[i - 1] + 1],
                           4 * (16 * (coarse - 15) + fine))]]

------------------------------------------------------------------------------
\* a52_bit_allocate, for a channel that is not the coupling channel, with
\* halfrate 0 and no delta bit allocation.

\* By fscod, in units of 16.
hthtab == <<
  <<115, 115, 124, 128, 130, 132, 133, 133, 134, 134, 134, 134, 134, 135, 135, 135,
    136, 136, 137, 137, 138, 138, 139, 139, 140, 140, 141, 142, 143, 144, 145, 145,
    145, 145, 144, 143, 140, 135, 130, 126, 122, 119, 118, 122, 124, 124, 110, 64,
    60, 60>>,
  <<113, 113, 122, 127, 130, 131, 132, 133, 133, 134, 134, 134, 134, 134, 135, 135,
    135, 136, 136, 136, 137, 137, 138, 138, 139, 139, 140, 140, 142, 143, 144, 145,
    145, 145, 145, 144, 142, 139, 135, 130, 126, 123, 118, 119, 122, 124, 120, 93,
    60, 60>>,
  <<104, 104, 117, 123, 126, 129, 130, 131, 132, 133, 133, 133, 134, 134, 134, 134,
    134, 134, 134, 134, 135, 135, 135, 135, 136, 136, 136, 137, 138, 139, 140, 141,
    142, 143, 144, 145, 145, 145, 144, 143, 141, 139, 132, 127, 121, 118, 122, 124,
    123, 114>> >>

\* baptab + 156: a52_baptab[x + 157] is the entry for x, of -156..148.
a52_baptab ==
  Runs(<<102>>, 16, 0) \o Runs(<<8>>, 14, 0) \o Runs(<<4, 4, 4, 4, 4, 4, 4, 4>>, 12, -1)
    \o <<4, 4, -3, -3, 3, 3, 3, -2, -2, -1, -1, -1, -1, -1>> \o Runs(<<149>>, 0, 0)
a52_latab == Runs(
  <<1, 1, 1, 1, 1, 1, 1, 1, 1, 1, 1, 1, 2, 1, 1, 1, 1, 2, 1, 1, 2, 1, 1, 2, 1, 1, 2,
    1, 2, 2, 1, 2, 2, 1, 2, 2, 2, 2, 2, 2, 2, 2, 2, 3, 2, 3, 3, 3, 3, 3, 3, 4, 4, 4,
    5, 5, 6, 6, 8, 8, 11, 14, 19, 32, 46>>,
  -64, 1)
\* Where the bands from the 21st end.
a52_bndtab == <<21, 22, 23, 24, 25, 26, 27, 28, 31, 34, 37, 40, 43, 46, 49, 55, 61, 67,
                73, 79, 85, 97, 109, 121, 133, 157, 181, 205, 229, 253>>

\* What is computed from the fields of state->bai, ba->bai and csnroffst.
Parameters(bai) ==
  LET raw == <<2320, 2384, 2448, 2512, 2576, 2704, 2832, 5120>>[bai.floorcod + 1]
  IN [fdecay |-> 63 + 20 * bai.fdcycod,
      fgain  |-> 128 + 128 * bai.fgaincod,
      sdecay |-> 15 + 2 * bai.sdcycod,
      sgain  |-> <<1344, 1240, 1144, 1040>>[bai.sgaincod + 1],
      dbknee |-> <<3072, 1280, 768, 256>>[bai.dbpbcod + 1],
      floor  |-> raw \div 32,
      snroffset |-> 960 - 64 * bai.csnroffst - 4 * bai.fsnroffst + raw]

\* UPDATE_LEAK and COMPUTE_MASK.
Leak(prm, s, power) ==
  [s EXCEPT !.fastleak = Min({@ + prm.fdecay, power + prm.fgain}),
            !.slowleak = Min({@ + prm.sdecay, power + prm.sgain})]
ComputeMask(prm, power, m, i, fscod) ==
  LET knee == m - (IF power > prm.dbknee THEN (power - prm.dbknee) \div 4 ELSE 0)
      full == Min({knee, 16 * hthtab[fscod + 1][i + 1]}) - prm.snroffset
  IN (IF full > 0 THEN 0 ELSE (-full) \div 32) - prm.floor
bapOf(m, e) == a52_baptab[m + 4 * e + 157]

\* The low-frequency compensation: compensation at a step of two exponents down,
\* and less by 64 at one up.
Compensated(lowcomp, e, next, compensation) ==
  IF next = e - 2 THEN compensation
  ELSE IF lowcomp # 0 /\ next > e THEN lowcomp - 64 ELSE lowcomp

\* The coefficients below 20, or a few more, each a band of its own.  s.rising
\* holds in the first loop, which has no leaks; end = 7 is the LFE.
RECURSIVE Low(_, _, _, _, _)
Low(prm, exp, s, bap, fscod) ==
  LET i == Len(bap)
      end == Len(exp)
      power == 128 * exp[i + 1]
      low == IF i >= 20 THEN s.lowcomp - 128
             ELSE IF i = end - 1 THEN s.lowcomp
             ELSE Compensated(s.lowcomp, exp[i + 1], exp[i + 2], IF i < 7 THEN 384 ELSE 320)
      leaks == IF s.rising
               THEN [s EXCEPT !.fastleak = power + prm.fgain, !.slowleak = power + prm.sgain]
               ELSE Leak(prm, s, power)
      m == IF s.rising THEN power + prm.fgain + low
           ELSE Min({leaks.fastleak + low, leaks.slowleak})
      rising == s.rising /\ (i < 2 \/ (i < 6 /\ exp[i + 2] > exp[i + 1]))
  IN IF (end = 7 /\ i = 7) \/ (i >= 20 /\ s.lowcomp <= 128)
     THEN [leaks |-> s, bap |-> bap]
     ELSE Low(prm, exp, [leaks EXCEPT !.lowcomp = low, !.rising = rising],
              Append(bap, bapOf(ComputeMask(prm, power, m, i, fscod), exp[i + 1])), fscod)

\* The attenuation of a band: the cases of delta >> 9.
RECURSIVE Attenuation(_, _)
Attenuation(exp, power) ==
  IF exp = <<>> THEN power
  ELSE LET next == 128 * Head(exp)
           delta == next - power
       IN Attenuation(Tail(exp),
            CASE delta \div 512 \in -6..-2 -> next
              [] delta \div 512 = -1 -> next + a52_latab[((-delta) \div 2) + 1]
              [] delta \div 512 = 0 -> power + a52_latab[(delta \div 2) + 1]
              [] OTHER -> power)

\* The bands from band i.
RECURSIVE High(_, _, _, _, _, _)
High(prm, exp, s, bap, i, fscod) ==
  LET j == Len(bap)
      band == SubSeq(exp, j + 1, Min({a52_bndtab[i - 19], Len(exp)}))
      power == Attenuation(Tail(band), 128 * Head(band))
      leaks == Leak(prm, s, power)
      m == ComputeMask(prm, power, Min({leaks.fastleak, leaks.slowleak}), i, fscod)
  IN IF j >= Len(exp) THEN bap
     ELSE High(prm, exp, leaks, bap \o [k \in 1..Len(band) |-> bapOf(m, band[k])], i + 1, fscod)

a52_bit_allocate(bai, exp, fscod) ==
  LET prm == Parameters(bai)
      low == Low(prm, exp, [lowcomp |-> 0, fastleak |-> 0, slowleak |-> 0, rising |-> TRUE],
                 <<>>, fscod)
  IN IF Len(exp) = 7 THEN low.bap
     ELSE High(prm, exp, low.leaks, low.bap, Len(low.bap), fscod)
==============================================================================
