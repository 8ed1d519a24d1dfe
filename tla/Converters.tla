------------------------------ MODULE Converters ------------------------------
(***************************************************************************)
(* The interleaving of decoded planes into 16-bit PCM: the converters of   *)
(* AC3ASM.asm, in both versions, and convert2s16.c of liba52's libao.  One *)
(* round of a converter's loop is the sequence of samples it stores, each  *)
(* a pair <<plane, time>>: which of the planes behind a52_samples it is    *)
(* from, and which of the samples that the round reads.  The addition that *)
(* takes the bias off a sample, and its saturation, are left out.          *)
(***************************************************************************)
EXTENDS Integers, Sequences

\* A slot that is stored as zero.
None == -1

\* Mutant: the coded order is kept.
AsmOrderCoded(n, mode, lfe) == [i \in 1..n |-> i - 1]
\* The planes in the order the converter for n channels stores them: convert
\* as chosen by MapTab, and by flags inside the routine.
AsmOrder(n, mode, lfe) ==
  CASE n = 1 -> <<0>>
    [] n = 2 -> IF lfe THEN <<1, 0>> ELSE <<0, 1>>
    [] n = 3 -> IF lfe THEN <<1, 2, 0>>
                ELSE IF mode = "3F" THEN <<0, 2, 1>> ELSE <<0, 1, 2>>
    [] n = 4 -> IF mode = "2F1R" /\ lfe THEN <<1, 2, 0, 3>>
                ELSE IF mode = "3F" /\ lfe THEN <<1, 3, 2, 0>>
                ELSE IF mode = "2F2R" /\ ~lfe THEN <<0, 1, 2, 3>>
                ELSE <<0, 2, 1, 3>>
    [] n = 5 -> IF mode = "2F2R" /\ lfe THEN <<1, 2, 0, 3, 4>>
                ELSE IF mode = "3F1R" /\ lfe THEN <<1, 3, 2, 0, 4>>
                ELSE <<0, 2, 1, 3, 4>>
    [] n = 6 -> <<1, 3, 2, 0, 4, 5>>

\* The asm_ routines store sample after sample.
At(order, time) == [i \in DOMAIN order |-> <<order[i], time>>]
AsmRound(n, mode, lfe) ==
  LET order == AsmOrder(n, mode, lfe)
  IN  IF n % 2 = 0 THEN At(order, 0) ELSE At(order, 0) \o At(order, 1)

\* The MMX registers, as two samples <<low, high>>.
punpckldq(a, b) == <<a[1], b[1]>>
punpckhdq(a, b) == <<a[2], b[2]>>
psllq32(a)      == <<<<None, 0>>, a[1]>>
psrlq32(a)      == <<a[2], <<None, 0>>>>
packssdw(a, b)  == a \o b

\* The mmx_ routines store four samples at a time.
MmxRound(n, mode, lfe) ==
  LET order    == AsmOrder(n, mode, lfe)
      Q(i, t)  == <<<<order[i], t>>, <<order[i], t + 1>>>>
      Lo(a, b) == punpckldq(a, b)
      Hi(a, b) == punpckhdq(a, b)
  IN CASE n = 1 -> packssdw(Q(1, 0), Q(1, 2)) \o packssdw(Q(1, 4), Q(1, 6))
       [] n = 2 ->
            packssdw(Lo(Q(1, 0), Q(2, 0)), Hi(Q(1, 0), Q(2, 0))) \o
            packssdw(Lo(Q(1, 2), Q(2, 2)), Hi(Q(1, 2), Q(2, 2)))
       [] n = 3 ->
            packssdw(Lo(Q(1, 0), Q(2, 0)), Hi(psllq32(Q(3, 0)), Q(1, 0))) \o
            packssdw(Hi(Q(2, 0), Q(3, 0)), Lo(Q(1, 2), Q(2, 2))) \o
            packssdw(Hi(psllq32(Q(3, 2)), Q(1, 2)), Hi(Q(2, 2), Q(3, 2)))
       [] n = 4 ->
            packssdw(Lo(Q(1, 0), Q(2, 0)), Lo(Q(3, 0), Q(4, 0))) \o
            packssdw(Hi(Q(1, 0), Q(2, 0)), Hi(Q(3, 0), Q(4, 0)))
       [] n = 5 ->
            packssdw(Lo(Q(1, 0), Q(2, 0)), Lo(Q(3, 0), Q(4, 0))) \o
            packssdw(Lo(Q(5, 0), psrlq32(Q(1, 0))), Hi(Q(2, 0), Q(3, 0))) \o
            packssdw(Hi(Q(4, 0), Q(5, 0)), Lo(Q(1, 2), Q(2, 2))) \o
            packssdw(Lo(Q(3, 2), Q(4, 2)), Lo(Q(5, 2), psrlq32(Q(1, 2)))) \o
            packssdw(Hi(Q(2, 2), Q(3, 2)), Hi(Q(4, 2), Q(5, 2)))
       [] n = 6 ->
            packssdw(Lo(Q(1, 0), Q(2, 0)), Lo(Q(3, 0), Q(4, 0))) \o
            packssdw(Lo(Q(5, 0), Q(6, 0)), Hi(Q(1, 0), Q(2, 0))) \o
            packssdw(Hi(Q(3, 0), Q(4, 0)), Hi(Q(5, 0), Q(6, 0)))
------------------------------------------------------------------------------
\* channels_multi: the channels of a multichannel device.
channels_multi(mode, lfe) ==
  IF lfe THEN 6
  ELSE IF mode \in {"MONO", "3F", "3F1R", "3F2R", "CHANNEL2"} THEN 5
  ELSE IF mode = "2F2R" THEN 4 ELSE 2

\* convert2s16_multi; it stores nothing for a mode with one rear channel.
MultiOrder(mode, lfe) ==
  CASE mode \in {"MONO", "CHANNEL1", "CHANNEL2"} ->
         IF lfe THEN <<None, None, None, None, 1, 0>>
         ELSE <<None, None, None, None, 0>>
    [] mode \in {"CHANNEL", "STEREO", "DOLBY"} ->
         IF lfe THEN <<1, 2, None, None, None, 0>> ELSE <<0, 1>>
    [] mode = "3F" ->
         IF lfe THEN <<1, 3, None, None, 2, 0>> ELSE <<0, 2, None, None, 1>>
    [] mode = "2F2R" ->
         IF lfe THEN <<1, 2, 3, 4, None, 0>> ELSE <<0, 1, 2, 3>>
    [] mode = "3F2R" ->
         IF lfe THEN <<1, 3, 4, 5, 2, 0>> ELSE <<0, 1, 2, 3, 4>>
    [] OTHER -> << >>

\* convert2s16_wav.  The case 2/1 with LFE runs into the next one, which stores
\* five samples per time where the file has four.
WavRound(mode, lfe) ==
  CASE mode \in {"MONO", "CHANNEL1", "CHANNEL2"} -> At(IF lfe THEN <<1, 0>> ELSE <<0>>, 0)
    [] mode \in {"CHANNEL", "STEREO", "DOLBY"} ->
         At(IF lfe THEN <<1, 2, 0>> ELSE <<0, 1>>, 0)
    [] mode = "3F"   -> At(IF lfe THEN <<1, 3, 2, 0>> ELSE <<0, 2, 1>>, 0)
    [] mode = "2F1R" -> IF lfe THEN At(<<1, 3, 2, 0, 4>>, 0) \o At(<<1, 3, 2, 0, 4>>, 1)
                        ELSE At(<<0, 1, 2>>, 0)
    [] mode = "3F1R" -> At(IF lfe THEN <<1, 3, 2, 0, 4>> ELSE <<0, 2, 1, 3>>, 0)
    [] mode = "2F2R" -> At(IF lfe THEN <<1, 2, 0, 3, 4>> ELSE <<0, 1, 2, 3>>, 0)
    [] mode = "3F2R" -> At(IF lfe THEN <<1, 3, 2, 0, 4, 5>> ELSE <<0, 2, 1, 3, 4>>, 0)
==============================================================================
