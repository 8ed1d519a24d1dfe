------------------------------ MODULE EncodeFrame ------------------------------
(***************************************************************************)
(* How ac3enc.cpp makes a frame fit its size.  compute_bit_allocation adds  *)
(* up the bits of everything but the mantissas and searches for the SNR    *)
(* offset with which the mantissas fill the rest; output_frame_header and   *)
(* output_audio_block then write the frame, and output_frame_end pads it.  *)
(* The offset found is where the search for the next frame begins.         *)
(*                                                                         *)
(* The samples of a frame are abstracted to what the bits depend on: the    *)
(* blocks at which a channel's exponents change, and the size of the       *)
(* mantissas for each pair of offsets, which compute_mantissa_size and      *)
(* output_audio_block count alike.  That size need not grow with the        *)
(* offset: a mantissa that leaves one group for another can free a group.  *)
(***************************************************************************)
EXTENDS Integers, FiniteSetsExt

CONSTANTS
  ChannelCounts,        \* the nChannels that streams are opened with
  frame_size,           \* s->frame_size, in words of 16 bits
  Contents,             \* what the samples of a frame may be
  Renewed(_, _),        \* Renewed(x, ch): blocks with new exponents
  MantissaBits(_, _, _) \* MantissaBits(x, c, f): bits of all mantissas

NB_BLOCKS == 6
MaxCoarse == 63
MaxFine   == 15
SNR_INC1  == 4
Offsets   == (0..MaxCoarse) \X (0..MaxFine)

ASSUME ChannelsAssumption == ChannelCounts \subseteq 1..6
ASSUME FrameAssumption == frame_size \in Nat \ {0}
ASSUME ContentsAssumption ==
  \A x \in Contents :
    /\ \A ch \in 0..5 : Renewed(x, ch) \subseteq 1..(NB_BLOCKS - 1)
    /\ \A o \in Offsets : MantissaBits(x, o[1], o[2]) \in Nat

VARIABLES
  nb_all_channels,      \* s->nb_all_channels
  csnroffst, fsnroffst, \* s->csnroffst, s->fsnroffst (alike in all channels)
  content,              \* the frame being coded
  pc,                   \* "idle", a loop of the search, or "write"
  c, f,                 \* the locals csnroffst and fsnroffst
  bap,                  \* the offsets the mantissas are allocated for
  found,                \* compute_bit_allocation returned 0
  n                     \* output_frame_end: bytes of padding

vars == <<nb_all_channels, csnroffst, fsnroffst, content, pc, c, f, bap,
          found, n>>
------------------------------------------------------------------------------
\* AC3_encode_init: the channel mode for nc channels; they are numbered from
\* 0, and channel 5 is the LFE.
acmod(nc) == <<1, 2, 3, 6, 7, 7>>[nc]
lfe(nc) == IF nc = 6 THEN 1 ELSE 0
nb_channels(nc) == IF nc > 5 THEN 5 ELSE nc
nb_coefs(ch) == IF ch = 5 THEN 7 ELSE (50 + 12) * 3 + 37

\* compute_exp_strategy: a channel sends its exponents in the blocks where they
\* change, the more finely the longer they are then reused.
Sends(x, ch, b) == b = 0 \/ b \in Renewed(x, ch)
Reused(x, ch, b) ==
  Min({j \in (b + 1)..NB_BLOCKS : j = NB_BLOCKS \/ Sends(x, ch, j)}) - b
GroupSize(x, ch, b) == IF ch = 5 \/ Reused(x, ch, b) >= 4 THEN 1
                       ELSE IF Reused(x, ch, b) = 1 THEN 4 ELSE 2
ExponentBits(x, ch, b) ==
  LET g == GroupSize(x, ch, b) IN
  4 + 7 * ((nb_coefs(ch) + 3 * g - 4) \div (3 * g))

\* A sum over six blocks, or over channels; and the sum of size(ch, b) over
\* the exponents that the nc channels send.
Six(term(_)) == term(0) + term(1) + term(2) + term(3) + term(4) + term(5)
Total(nc, x, size(_, _)) ==
  Six(LAMBDA ch :
        IF ch < nc
        THEN Six(LAMBDA b : IF Sends(x, ch, b) THEN size(ch, b) ELSE 0)
        ELSE 0)

\* The exponents; chbwcod and gainrng, counted with the exponents of the full
\* bandwidth channels; and both, as output_audio_block writes them.
ExponentTotal(nc, x) == Total(nc, x, LAMBDA ch, b : ExponentBits(x, ch, b))
BesideTotal(nc, x) ==
  Total(nc, x, LAMBDA ch, b : IF ch < nb_channels(nc) THEN 6 + 2 ELSE 0)
WrittenTotal(nc, x) ==
  Total(nc, x, LAMBDA ch, b :
                 ExponentBits(x, ch, b) + (IF ch # 5 THEN 6 + 2 ELSE 0))

\* Mutant: the mix levels are not counted.
frame_bits_incNone(m) == 0

\* What compute_bit_allocation counts before the mantissas: the exponents,
\* the header, the audio blocks, cplinu, the bit allocation, auxdatae and
\* crcrsv, and the CRC.
frame_bits_inc(m) == <<0, 0, 2, 2, 2, 4, 2, 4>>[m + 1]
frame_bits(nc, x) ==
  ExponentTotal(nc, x)
  + 65 + frame_bits_inc(acmod(nc))
  + NB_BLOCKS * ((nb_channels(nc) * 2 + 2)
                 + (IF acmod(nc) = 2 THEN 1 ELSE 0)
                 + 2 * nb_channels(nc) + lfe(nc) + 1 + 1 + 2)
  + BesideTotal(nc, x)
  + 1
  + (2 * 4 + 3 + 6 + nc * (4 + 3))
  + 2 + 16

\* bit_alloc (...) >= 0 for the offsets cs and fs.
Fits(nc, x, cs, fs) ==
  frame_bits(nc, x) + MantissaBits(x, cs, fs) <= 16 * frame_size

\* What the frame takes when it is written with the mantissas allocated for
\* the offsets o: output_frame_header, then six times output_audio_block.
HeaderBits(nc) ==
  16 + 16 + 2 + 6 + 5 + 3 + 3
  + (IF acmod(nc) \in {3, 5, 7} THEN 2 ELSE 0)
  + (IF acmod(nc) \in {4, 5, 6, 7} THEN 2 ELSE 0)
  + (IF acmod(nc) = 2 THEN 2 ELSE 0)
  + 1 + 5 + 8
RematrixBits(nc, b) ==
  IF acmod(nc) # 2 THEN 0 ELSE IF b = 0 THEN 1 + 4 ELSE 1
BlockBits(nc, b) ==
  nb_channels(nc) + nb_channels(nc) + 1
  + (IF b = 0 THEN 2 ELSE 1)
  + RematrixBits(nc, b)
  + 2 * nb_channels(nc) + lfe(nc)
  + 1 + (IF b = 0 THEN 2 + 2 + 2 + 2 + 3 ELSE 0)
  + 1 + (IF b = 0 THEN 6 + nc * (4 + 3) ELSE 0)
  + 1 + 1
WrittenBits(nc, x, o) ==
  HeaderBits(nc)
  + Six(LAMBDA b : BlockBits(nc, b))
  + WrittenTotal(nc, x)
  + MantissaBits(x, o[1], o[2])
------------------------------------------------------------------------------
\* AC3_encode_init for a stream of the given channels.
Configured(channels) == nb_all_channels' = channels /\ csnroffst' = 40

Init ==
  /\ nb_all_channels \in ChannelCounts /\ csnroffst = 40
  /\ fsnroffst = 0
  /\ content \in Contents
  /\ pc = "idle"
  /\ c = 0 /\ f = 0 /\ bap = <<0, 0>>
  /\ found = TRUE
  /\ n = 0

AC3_encode_init(channels) ==
  /\ pc = "idle"
  /\ Configured(channels)
  /\ UNCHANGED <<fsnroffst, content, pc, c, f, bap, found, n>>

\* AC3_encode_frame up to the search, which begins at the last frame's offset.
AC3_encode_frame(x) ==
  /\ pc = "idle"
  /\ content' = x
  /\ c' = csnroffst /\ f' = 0
  /\ found' = TRUE /\ n' = 0
  /\ pc' = "lower"
  /\ UNCHANGED <<nb_all_channels, csnroffst, fsnroffst, bap>>

\* Mutant: the offset does not go down.
LowerStays ==
  /\ pc = "lower"
  /\ bap' = <<c, 0>>
  /\ pc' = IF Fits(nb_all_channels, content, c, 0) THEN "coarse" ELSE pc
  /\ UNCHANGED <<nb_all_channels, csnroffst, fsnroffst, content, c, f, found, n>>

\* The first loop: the offset goes down until the frame fits.  Should it run
\* out of offsets, compute_bit_allocation returns -1 and stores none; the
\* caller does not look at what it returns.
Lower ==
  /\ pc = "lower"
  /\ bap' = <<c, 0>>
  /\ IF Fits(nb_all_channels, content, c, 0)
     THEN pc' = "coarse" /\ UNCHANGED <<c, found>>
     ELSE /\ c' = c - SNR_INC1
          /\ IF c - SNR_INC1 < 0 THEN pc' = "write" /\ found' = FALSE
                                 ELSE UNCHANGED <<pc, found>>
  /\ UNCHANGED <<nb_all_channels, csnroffst, fsnroffst, content, f, n>>

\* Mutant: the offset goes up by four only.
AscentByFour == [coarse |-> [dc |-> SNR_INC1, df |-> 0, next |-> "fine"],
                 fine   |-> [dc |-> 0, df |-> SNR_INC1, next |-> "fine1"],
                 fine1  |-> [dc |-> 0, df |-> 1, next |-> "write"]]

\* The four loops that go up again, one after the other.
Ascent == [coarse  |-> [dc |-> SNR_INC1, df |-> 0, next |-> "coarse1"],
           coarse1 |-> [dc |-> 1, df |-> 0, next |-> "fine"],
           fine    |-> [dc |-> 0, df |-> SNR_INC1, next |-> "fine1"],
           fine1   |-> [dc |-> 0, df |-> 1, next |-> "write"]]

CanRaise(cs, fs) == /\ cs <= MaxCoarse /\ fs <= MaxFine
                    /\ Fits(nb_all_channels, content, cs, fs)

\* Mutant: bap1 is not copied.
RaiseWithoutCopy ==
  /\ pc \in DOMAIN Ascent
  /\ CanRaise(c + Ascent[pc].dc, f + Ascent[pc].df)
  /\ c' = c + Ascent[pc].dc /\ f' = f + Ascent[pc].df
  /\ UNCHANGED <<nb_all_channels, csnroffst, fsnroffst, content, pc, bap,
                 found, n>>

\* One iteration: bap1 is allocated, and copied to bap if the frame fits.
Raise ==
  /\ pc \in DOMAIN Ascent
  /\ CanRaise(c + Ascent[pc].dc, f + Ascent[pc].df)
  /\ c' = c + Ascent[pc].dc /\ f' = f + Ascent[pc].df
  /\ bap' = <<c', f'>>
  /\ UNCHANGED <<nb_all_channels, csnroffst, fsnroffst, content, pc, found, n>>

\* The end of a loop; the end of the last stores the offsets.
Settle ==
  /\ pc \in DOMAIN Ascent
  /\ ~CanRaise(c + Ascent[pc].dc, f + Ascent[pc].df)
  /\ pc' = Ascent[pc].next
  /\ IF pc' = "write" THEN csnroffst' = c /\ fsnroffst' = f
                      ELSE UNCHANGED <<csnroffst, fsnroffst>>
  /\ UNCHANGED <<nb_all_channels, content, c, f, bap, found, n>>

\* The frame is written, flushed to a byte, padded, and closed by two bytes
\* of CRC.  The locals are gone, and nothing reads bap again.
Write ==
  /\ pc = "write"
  /\ n' = 2 * frame_size - ((WrittenBits(nb_all_channels, content, bap) + 7) \div 8) - 2
  /\ pc' = "idle"
  /\ c' = 0 /\ f' = 0 /\ bap' = <<0, 0>>
  /\ UNCHANGED <<nb_all_channels, csnroffst, fsnroffst, content, found>>

Step == Lower \/ Raise \/ Settle \/ Write

Next ==
  \/ \E channels \in ChannelCounts : AC3_encode_init(channels)
  \/ \E x \in Contents : AC3_encode_frame(x)
  \/ Step

Spec == Init /\ [][Next]_vars

\* The code of AC3_encode_frame runs to its end.
FairSpec == Spec /\ WF_vars(Step)
------------------------------------------------------------------------------
\* Every variable keeps its type.
TypeOK ==
  /\ nb_all_channels \in ChannelCounts
  /\ csnroffst \in 0..MaxCoarse /\ fsnroffst \in 0..MaxFine
  /\ content \in Contents
  /\ pc \in {"idle", "lower", "write"} \union DOMAIN Ascent
  /\ c \in (0 - SNR_INC1)..MaxCoarse /\ f \in 0..MaxFine
  /\ bap \in Offsets
  /\ found \in BOOLEAN

\* The offsets that the frame announces are those its mantissas were
\* allocated for, and with them the frame fits: a decoder derives the
\* allocation from the announced offsets alone.
AllocationMatchesHeader ==
  pc = "write" /\ found =>
    /\ bap = <<csnroffst, fsnroffst>>
    /\ Fits(nb_all_channels, content, csnroffst, fsnroffst)

\* If the mantissas grow with the offset, the search ends at the highest
\* offset that fits, wherever the frame before it left the search to begin.
Below(o, p) == o[1] < p[1] \/ (o[1] = p[1] /\ o[2] <= p[2])
Growing == {x \in Contents : \A o, p \in Offsets :
              Below(o, p) => MantissaBits(x, o[1], o[2])
                               <= MantissaBits(x, p[1], p[2])}
BestOffset ==
  pc = "write" /\ found /\ content \in Growing =>
    \A o \in Offsets :
      Fits(nb_all_channels, content, o[1], o[2])
        => Below(o, <<csnroffst, fsnroffst>>)

\* A frame that was found to fit is written within its size, the bytes of the
\* second CRC left free: what compute_bit_allocation counts before the frame
\* is written is what writing it then takes.
FrameFits == pc = "idle" /\ found => n >= 0

\* The search comes to an end, whatever the mantissas take.
FrameIsWritten == (pc = "lower") ~> (pc = "idle")
==============================================================================
