---------------------------- MODULE ChannelRouting ----------------------------
(***************************************************************************)
(* Which channel of an AC-3 stream is heard where.  A frame names a mode,  *)
(* the player asks liba52 for one (stream_convert_ac3 of AC3ACM.cpp from   *)
(* the format of the destination, the output drivers of a52dec from their  *)
(* device), a52_frame grants one, a52_block mixes the channels down either *)
(* after the inverse transform or, when all of them have the same block    *)
(* length and there are fewer planes than channels, before it, and then    *)
(* keeps the overlap of the last block mixed down too; a converter of the  *)
(* player stores the planes in the order of the PCM channels.              *)
(*                                                                         *)
(* The coefficients of channel i of a block are a signal of their own (a   *)
(* stereo block's rematrixing only restores them).  A block may be short   *)
(* for some channels and long for others: mixed.                           *)
(***************************************************************************)
EXTENDS Downmix, Converters, FiniteSets, FiniteSetsExt

CONSTANT
  Streams  \* the streams to play: records [input, lfe, clev, slev, player]

(***************************************************************************)
(* input is a mode of a52_syncinfo, player a record [kind, dst, dolby,     *)
(* mmx]: kind "acm", with the channels of the destination format, the flag *)
(* AC3ACM_DOLBYSURROUND and the processor's, or the name of a driver of    *)
(* libao.                                                                  *)
(***************************************************************************)

VARIABLES
  stream,     \* the stream being played
  output,     \* state->output: [mode, lfe], mode "none" before a52_frame
  downmixed,  \* state->downmixed
  samples,    \* what a52_samples holds: the planes 0..4, and the LFE's
  delay,      \* the overlap of the same planes
  blocks      \* the blocks decoded, at most 3 being told apart
vars == <<stream, output, downmixed, samples, delay, blocks>>

Channels(mode) == nfchans_tbl[mode]
SourceChannels == Channels(stream.input) + (IF stream.lfe THEN 1 ELSE 0)

\* The speaker of coded channel i of a mode.
Speaker ==
  [m \in Modes |->
     CASE m = "CHANNEL" -> <<"C1", "C2">> [] m = "CHANNEL1" -> <<"C1">>
       [] m = "CHANNEL2" -> <<"C2">>      [] m = "MONO" -> <<"FC">>
       [] m \in {"STEREO", "DOLBY"} -> <<"FL", "FR">>
       [] m = "3F"   -> <<"FL", "FC", "FR">>
       [] m = "2F1R" -> <<"FL", "FR", "BC">>
       [] m = "3F1R" -> <<"FL", "FC", "FR", "BC">>
       [] m = "2F2R" -> <<"FL", "FR", "BL", "BR">>
       [] m = "3F2R" -> <<"FL", "FC", "FR", "BL", "BR">>]
------------------------------------------------------------------------------
\* What stream_convert_ac3 asks for: the flags of the frame, LFE and all,
\* unless the destination has another number of channels.
Ask(mode, lfe) == [mode |-> mode, lfe |-> lfe]
AcmAsks ==
  IF stream.player.dst = SourceChannels THEN Ask(stream.input, stream.lfe)
  ELSE IF stream.player.dst > SourceChannels THEN Ask("STEREO", FALSE)
  ELSE IF stream.player.dst = 1 THEN Ask("MONO", FALSE)
  ELSE IF stream.input = "DOLBY" THEN Ask(stream.input, stream.lfe)
  ELSE Ask(IF stream.player.dolby THEN "DOLBY" ELSE "STEREO", FALSE)

\* What the open functions of libao's drivers ask for; wav6 takes what comes.
DriverAsks ==
  LET k == stream.player.kind
  IN CASE k \in {"oss", "al", "solaris", "win", "wav", "aif", "float"} ->
            Ask("STEREO", FALSE)
       [] k \in {"ossdolby", "aldolby", "wavdolby", "aifdolby"} -> Ask("DOLBY", FALSE)
       [] k \in {"oss4", "al4"} -> Ask("2F2R", FALSE)
       [] k \in {"oss6", "al6"} -> Ask("3F2R", TRUE)
       [] k = "wav6" -> Ask(stream.input, stream.lfe)

Asked == IF stream.player.kind = "acm" THEN AcmAsks ELSE DriverAsks

\* a52_frame: the mode that is granted.
Grants == [mode |-> Granted(stream.input, Asked.mode, stream.clev),
           lfe  |-> stream.lfe /\ Asked.lfe]
------------------------------------------------------------------------------
Row   == a52_downmix_coeff(acmod(stream.input), output.mode, stream.clev, stream.slev)
Coded1(i) == Speaker[stream.input][i + 1]
Gain(i)   == Row.gain[i + 1]
\* A channel that is not mixed keeps its gain, whatever the row says of more.
Coefficients ==
  [k \in Planes |-> IF k < Channels(stream.input) /\ Gain(k) # Mute
                    THEN Signal(Coded1(k)) ELSE Silence]

\* The inverse transform of one plane: the overlap of the last block is added,
\* that of this block is kept.
Transformed(data, overlap, bias) == BIAS(bias, Plus(data, overlap))

Silent == [main |-> [k \in Planes |-> Silence], lfe |-> Silence]
Aged(p) == [main |-> [k \in Planes |-> Older(p.main[k])], lfe |-> Older(p.lfe)]

\* All channels are transformed, and then mixed.
ThenMixed(overlap, late) ==
  LET apart == IF downmixed
               THEN a52_upmix(overlap, acmod(stream.input), output.mode) ELSE overlap
      n     == Channels(stream.input)
      Bias(k) == IF (k + 1) \in Row.chanbias THEN 0 ELSE 1
      planes == [k \in Planes |->
                   IF k >= n THEN late[k]
                   ELSE IF Gain(k) = Mute THEN BIAS(Bias(k), Silence)
                   ELSE Transformed(Coefficients[k], apart[k], Bias(k))]
  IN  [samples |-> a52_downmix(planes, acmod(stream.input), output.mode, 1, stream.slev),
       delay   |-> [k \in Planes |->
                      IF k < n /\ Gain(k) # Mute THEN Coefficients[k] ELSE apart[k]],
       downmixed |-> FALSE]

\* The coefficients are mixed, and the planes that remain are transformed.
MixedFirst(overlap, late) ==
  LET Mix(p)  == a52_downmix(p, acmod(stream.input), output.mode, 0, stream.slev)
      n       == Channels(output.mode)
      data    == Mix([k \in Planes |->
                        IF k < Channels(stream.input) THEN Coefficients[k] ELSE late[k]])
      held    == IF downmixed THEN overlap ELSE Mix(overlap)
  IN  [samples |-> [k \in Planes |->
                      IF k < n THEN Transformed(data[k], held[k], 1) ELSE data[k]],
       delay   |-> [k \in Planes |-> IF k < n THEN data[k] ELSE held[k]],
       downmixed |-> TRUE]
------------------------------------------------------------------------------
\* stream_open (or a52_init of a52dec) for one of the streams.
Init ==
  /\ stream \in Streams
  /\ output = Ask("none", FALSE)
  /\ downmixed = TRUE
  /\ samples = Silent
  /\ delay = Silent
  /\ blocks = 0

a52_frame ==
  /\ output' = Grants
  /\ UNCHANGED <<stream, downmixed, samples, delay, blocks>>

\* The end of a52_block; mixed: the channels' blksw differ.
a52_block(mixed) ==
  /\ output.mode # "none"
  /\ mixed => Channels(stream.input) > 1
  /\ LET overlap == Aged(delay)
         late    == Aged(samples)
         fewer   == Channels(output.mode) < Channels(stream.input)
         tail    == IF mixed \/ ~fewer THEN ThenMixed(overlap.main, late.main)
                    ELSE MixedFirst(overlap.main, late.main)
     IN  /\ downmixed' = tail.downmixed
         /\ samples' = [main |-> tail.samples,
                        lfe  |-> IF output.lfe
                                 THEN Transformed(Signal("LF"), overlap.lfe, 1)
                                 ELSE late.lfe]
         /\ delay' = [main |-> tail.delay,
                      lfe  |-> IF output.lfe THEN Signal("LF") ELSE overlap.lfe]
  /\ blocks' = IF blocks = 3 THEN 3 ELSE blocks + 1
  /\ UNCHANGED <<stream, output>>

Next == a52_frame \/ \E mixed \in BOOLEAN : a52_block(mixed)
Spec == Init /\ [][Next]_vars
------------------------------------------------------------------------------
\* The plane k behind a52_samples: the LFE's comes first.
Plane(k) == IF output.lfe THEN IF k = 0 THEN samples.lfe ELSE samples.main[k - 1]
            ELSE samples.main[k]

\* One round of the converter the player has chosen.
Round ==
  LET k == stream.player.kind
      n == stream.player.dst
  IN CASE k = "acm" /\ stream.player.mmx -> MmxRound(n, Asked.mode, Asked.lfe)
       [] k = "acm" -> AsmRound(n, Asked.mode, Asked.lfe)
       [] k \in {"wav", "wavdolby", "wav6"} -> WavRound(output.mode, output.lfe)
       [] k \in {"oss", "ossdolby", "oss4", "oss6", "al", "aldolby", "al4", "al6"} ->
            At(MultiOrder(output.mode, output.lfe), 0)
       [] OTHER -> At(<<0, 1>>, 0)
------------------------------------------------------------------------------
(***************************************************************************)
(* What a listener expects.  PCM channels in the order of the channel      *)
(* masks of WAVEFORMATEXTENSIBLE, for the multichannel devices of OSS and  *)
(* of AL in theirs.                                                        *)
(***************************************************************************)
WaveOrder == <<"C1", "C2", "FL", "FR", "FC", "LF", "BL", "BR", "BC">>
HasLfe(lfe) == IF lfe THEN {"LF"} ELSE {}
Layout(mode, lfe) ==
  SelectSeq(WaveOrder, LAMBDA s : s \in Range(Speaker[mode]) \union HasLfe(lfe))
DeviceOrder == (IF output.mode = "CHANNEL" THEN <<"C1", "C2">> ELSE <<"FL", "FR">>)
               \o <<"BL", "BR", "FC", "LF">>

Slots ==
  LET k == stream.player.kind
  IN IF k = "acm" /\ stream.player.dst = SourceChannels
     THEN Layout(stream.input, stream.lfe)
     ELSE IF k \in {"oss4", "oss6", "al4", "al6"}
             /\ channels_multi(output.mode, output.lfe) > 2
     THEN SubSeq(DeviceOrder, 1, channels_multi(output.mode, output.lfe))
     ELSE Layout(output.mode, k = "wav6" /\ output.lfe)

\* create_channel_map of the encoder: the PCM channel, from 0, that is coded as
\* channel i; and what AC3_encode_init makes of n channels, the LFE coded last.
\* Mutant: the channels are coded in the order of the PCM.
create_channel_mapStraight(n) == [i \in 1..n |-> i - 1]
create_channel_map(n) ==
  CASE n \in {1, 2, 4} -> [i \in 1..n |-> i - 1]
    [] n \in {3, 5} -> SubSeq(<<0, 2, 1, 3, 4>>, 1, n)
    [] n = 6 -> <<0, 2, 1, 4, 5, 3>>
EncodedAs(n) ==
  Ask(<<"MONO", "STEREO", "3F", "2F2R", "3F2R", "3F2R">>[n], n = 6)
CodedSpeakers(n) ==
  Speaker[EncodedAs(n).mode] \o (IF n = 6 THEN <<"LF">> ELSE << >>)

Front  == {"FL", "FR"}
Left   == {"FL", "BL"}
Rear   == {"BL", "BR", "BC"}

\* How much of a speaker's channel belongs in a slot, as an attenuation: the
\* mixes of the AC-3 standard, for the speakers that the granted mode lacks.
Share(s, slot) ==
  LET has   == Range(Speaker[output.mode])
      sameSide == (s \in Left) = (slot \in Left)
      whole == IF s = slot THEN 0 ELSE Mute
      s3    == MUL_L(stream.slev, LEVEL_3DB)
  IN CASE acmod(stream.input) = acmod(output.mode) -> whole
       [] output.mode = "MONO" ->
            CASE slot # "FC"        -> Mute
              [] s \in {"C1", "C2"} -> LEVEL_6DB
              [] s = "FC"           -> stream.clev - LEVEL_3DB
              [] s \in Front        -> LEVEL_3DB
              [] s \in Rear         -> s3
              [] OTHER              -> Mute
       [] s = "LF" \/ slot = "LF" \/ s \in has -> whole
       [] output.mode = "DOLBY" -> IF slot \in Front THEN LEVEL_3DB ELSE Mute
       [] s = "FC" -> IF slot \in Front THEN stream.clev ELSE Mute
       [] s = "BC" /\ "BL" \in has -> IF slot \in Rear THEN LEVEL_3DB ELSE Mute
       [] s \in Rear /\ "BC" \in has -> IF slot = "BC" THEN LEVEL_3DB ELSE Mute
       [] s = "BC" -> IF slot \in Front THEN s3 ELSE Mute
       [] OTHER    -> IF slot \in Front /\ sameSide THEN stream.slev ELSE Mute

\* Surround is in the left channel of a Dolby mix with a minus sign.
Sign(s, slot) == IF output.mode = "DOLBY" /\ s \in Rear /\ slot = "FL" THEN -1 ELSE 1

Sources == {i \in 0..5 : i < Channels(stream.input)}
\* The signal of slot j is the share of each channel that belongs there.
Holds(signal, slot, age) ==
  /\ \A i \in Sources :
       LET s == Coded1(i)
       IN  signal[<<s, age>>] =
             IF Share(s, slot) = Mute THEN 0 ELSE Sign(s, slot)
  /\ signal[<<"LF", age>>] = IF slot = "LF" /\ stream.lfe /\ output.lfe THEN 1 ELSE 0

Played == IF blocks = 0 THEN {} ELSE DOMAIN Round
SlotOf(i) == Slots[((i - 1) % Len(Slots)) + 1]
TimeOf(i) == (i - 1) \div Len(Slots)
Heard(i)  == IF Round[i][1] = None THEN Silence ELSE Plane(Round[i][1])
------------------------------------------------------------------------------
\* Every sample a converter stores is of the time it stands for, and holds
\* exactly the channels that belong to its slot, each with its gain and its
\* sign: the mixing of a52_block, before or after the transform, together with
\* the orders and the packing of the converters.
ChannelsInPlace ==
  /\ Played # {} => Len(Round) % Len(Slots) = 0
  /\ \A i \in Played :
       /\ Round[i] # <<None, 0>> => Round[i][2] = TimeOf(i)
       /\ Holds(Heard(i), SlotOf(i), 0)
       /\ \A k \in Sources :
            Heard(i)[<<Coded1(k), 0>>] # 0 => Gain(k) = Share(Coded1(k), SlotOf(i))

\* In every slot the overlap added is that of the same mix, one block old: of
\* the channels kept apart by ThenMixed, of the mix kept by MixedFirst, and of
\* either taken over by the other when the kind of the blocks changes.
OverlapMatches ==
  \A i \in Played :
    /\ Holds(Heard(i), SlotOf(i), 0)
         => IF blocks > 1 THEN Holds(Heard(i), SlotOf(i), 1)
            ELSE \A s \in Speakers : Heard(i)[<<s, 1>>] = 0
    /\ \A s \in Speakers : Heard(i)[<<s, 2>>] = 0

\* Every sample has the bias exactly once, which is what the converters take off
\* it again; without it a sample is far below their range.
BiasOnce ==
  \A i \in Played : Round[i][1] # None => Heard(i)[<<"bias", 0>>] = 1

\* What was PCM channel j when this codec coded a stream is PCM channel j again
\* when it decodes the stream to as many channels: the encoder's channel map and
\* the decoder's converters are inverses.
RoundTrip ==
  LET n == SourceChannels
  IN  stream.player.kind = "acm" /\ stream.player.dst = n
      /\ Ask(stream.input, stream.lfe) = EncodedAs(n)
      => \A i \in Played, ch \in 1..n :
           create_channel_map(n)[ch] = (i - 1) % n
           => Heard(i)[<<CodedSpeakers(n)[ch], 0>>] = 1

\* With A52_ADJUST_LEVEL no main channel exceeds full scale, and the loudest
\* reaches it: the sum of its gains is 1, up to the rounding of Linear.
Loudness(slot) ==
  FoldSet(LAMBDA k, sum : sum + Linear(Gain(k)), 0,
          {k \in Sources : samples.main[slot][<<Coded1(k), 0>>] # 0})
FullScale ==
  blocks > 0 =>
    LET level == Adjust(stream.input, output.mode, stream.clev, stream.slev)
        peak  == Max({Loudness(k) : k \in 0..(Channels(output.mode) - 1)})
    IN  (peak * level) \div Unit \in (Unit - 5)..(Unit + 5)
==============================================================================
