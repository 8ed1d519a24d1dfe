------------------------------- MODULE AudioOut -------------------------------
(***************************************************************************)
(* The output drivers of libao, as a52_decode_data uses them: a driver is  *)
(* opened once, asked by setup before every frame which mode it wants, and *)
(* given the blocks one by one.  The first block played fixes the format   *)
(* of the device or of the file; frames of a stream may differ in rate and *)
(* in mode, and a driver refuses what its format cannot take, upon which   *)
(* the rest of the frame is dropped.                                       *)
(***************************************************************************)
EXTENDS Downmix, Converters, FiniteSets

CONSTANTS
  Kinds,     \* the drivers
  Frames     \* the frames that arrive: records [mode, lfe, clev, rate]

\* What the header of a frame can say.
InputModes == {Coded[i] : i \in 1..8} \union {"DOLBY"}
ASSUME FramesAssumption ==
  Frames \subseteq [mode : InputModes, lfe : BOOLEAN, clev : CentreLevels \union {Mute},
                    rate : Nat]

VARIABLES
  kind,      \* the driver that is open
  instance,  \* its set_params, sample_rate and flags (and speaker_flags)
  device,    \* the format the device or the file got: [channels, rate, speakers]
  frame,     \* the frame being decoded
  flags,     \* the flags a52_frame granted for it
  left,      \* the blocks of it still to be played
  wrote,     \* the last block written: [width, rate, speakers]
  error,     \* why a52_decode_data is at error with this frame, or "none"
  first      \* history: the frame of the first block written
vars == <<kind, instance, device, frame, flags, left, wrote, error, first>>

Nothing == [none |-> TRUE]
Flags(mode, lfe) == [mode |-> mode, lfe |-> lfe]
Own     == Flags("own", TRUE)   \* instance->flags = -1

\* What each open function gives instance->flags.
oss_open == [oss |-> Flags("STEREO", FALSE), ossdolby |-> Flags("DOLBY", FALSE),
             oss4 |-> Flags("2F2R", FALSE), oss6 |-> Flags("3F2R", TRUE)]
al_open  == [al |-> Flags("STEREO", FALSE), aldolby |-> Flags("DOLBY", FALSE),
             al4 |-> Flags("2F2R", FALSE), al6 |-> Flags("3F2R", TRUE)]
solaris_open == [solaris |-> Flags("STEREO", FALSE), solarisdolby |-> Flags("DOLBY", FALSE)]
win_open == [win |-> Flags("STEREO", FALSE), windolby |-> Flags("DOLBY", FALSE)]
wav_open == [wav |-> Flags("STEREO", FALSE), wavdolby |-> Flags("DOLBY", FALSE), wav6 |-> Own]
aif_open == [aif |-> Flags("STEREO", FALSE), aifdolby |-> Flags("DOLBY", FALSE)]
Open ==
  [k \in DOMAIN oss_open \union DOMAIN al_open \union DOMAIN solaris_open
        \union DOMAIN win_open \union DOMAIN wav_open \union DOMAIN aif_open |->
     CASE k \in DOMAIN oss_open     -> oss_open[k]
       [] k \in DOMAIN al_open      -> al_open[k]
       [] k \in DOMAIN solaris_open -> solaris_open[k]
       [] k \in DOMAIN win_open     -> win_open[k]
       [] k \in DOMAIN wav_open     -> wav_open[k]
       [] k \in DOMAIN aif_open     -> aif_open[k]]
ASSUME KindsAssumption == Kinds \subseteq DOMAIN Open

\* wav_channels: the speakers of a file, and how many channels they are.
speaker_tbl(mode) ==
  CASE mode \in {"CHANNEL", "STEREO", "DOLBY"} -> {"FL", "FR"}
    [] mode \in {"MONO", "CHANNEL1", "CHANNEL2"} -> {"FC"}
    [] mode = "3F"   -> {"FL", "FR", "FC"}
    [] mode = "2F1R" -> {"FL", "FR", "BC"}
    [] mode = "3F1R" -> {"FL", "FR", "FC", "BC"}
    [] mode = "2F2R" -> {"FL", "FR", "BL", "BR"}
    [] mode = "3F2R" -> {"FL", "FR", "FC", "BL", "BR"}
speaker_flags(f) == speaker_tbl(f.mode) \union (IF f.lfe THEN {"LF"} ELSE {})
wav_channels(f)  == nfchans_tbl[f.mode] + (IF f.lfe THEN 1 ELSE 0)

\* The samples per time that convert2s16_multi and convert2s16_wav store.
MultiWidth(f) == Len(MultiOrder(f.mode, f.lfe))
WavWidth(f) ==
  LET round == WavRound(f.mode, f.lfe)
  IN  Cardinality({i \in DOMAIN round : round[i][2] = 0})
------------------------------------------------------------------------------
Init ==
  /\ kind \in Kinds
  /\ instance = [set_params |-> TRUE, sample_rate |-> 0,
                 flags |-> Open[kind], speakers |-> {}]
  /\ device = Nothing /\ frame = Nothing /\ wrote = Nothing /\ first = Nothing
  /\ flags = Flags("none", FALSE)
  /\ left = 0
  /\ error = "none"

\* A frame is complete: setup, then a52_frame with what the driver wants.  The
\* drivers of files set the rate of the instance too, but compare it only once
\* the header is written.
Setup(f) ==
  /\ left = 0
  /\ frame' = f
  /\ IF ~instance.set_params /\ instance.sample_rate # f.rate
     THEN /\ error' = "format"
          /\ UNCHANGED <<instance, flags, left>>
     ELSE LET want == IF instance.flags = Own THEN Flags(f.mode, f.lfe)
                      ELSE instance.flags
          IN  /\ instance' = [instance EXCEPT !.sample_rate = f.rate]
              /\ flags' = Flags(Granted(f.mode, want.mode, f.clev), f.lfe /\ want.lfe)
              /\ left' = 6
              /\ error' = "none"
  /\ UNCHANGED <<kind, device, wrote, first>>

\* The block goes out, with so many samples per time.
Write(width) ==
  /\ wrote' = [width |-> width, rate |-> frame.rate, speakers |-> speaker_flags(flags)]
  /\ left' = left - 1
  /\ UNCHANGED error

\* It does not, and a52_decode_data drops the rest of the frame.
Refused(why) ==
  /\ error' = why
  /\ left' = 0
  /\ UNCHANGED wrote

\* The first block: the device is configured.
Configure(channels) ==
  /\ instance.set_params
  /\ device' = [channels |-> channels, rate |-> instance.sample_rate,
                speakers |-> speaker_flags(flags)]
  /\ instance' = [instance EXCEPT !.set_params = FALSE, !.flags = flags]
  /\ first' = frame

\* A later one: a device goes from stereo to Dolby Surround and back, nothing
\* else.
\* Mutant: from stereo to Dolby Surround only.
SwitchesOneWay == instance.flags = Flags("STEREO", FALSE) /\ flags = Flags("DOLBY", FALSE)
Switches == {instance.flags, flags} = {Flags("STEREO", FALSE), Flags("DOLBY", FALSE)}
\* Mutant: the flags of the instance are not looked at.
AcceptedAlways == ~instance.set_params
Accepted == ~instance.set_params /\ (Switches \/ flags = instance.flags)
Follow ==
  /\ Accepted
  /\ instance' = [instance EXCEPT !.flags = flags]
  /\ UNCHANGED <<device, first>>

\* The play function of a device; its system may refuse the configuration.
DevicePlay(channels, width) ==
  /\ left > 0
  /\ \/ (Configure(channels) \/ Follow) /\ Write(width)
     \/ /\ ~Accepted
        /\ Refused(IF instance.set_params THEN "device" ELSE "format")
        /\ UNCHANGED <<device, instance, first>>
  /\ UNCHANGED <<kind, frame, flags>>

oss_play ==
  /\ kind \in DOMAIN oss_open
  /\ DevicePlay(channels_multi(flags.mode, flags.lfe), MultiWidth(flags))
al_play ==
  /\ kind \in DOMAIN al_open
  /\ DevicePlay(channels_multi(flags.mode, flags.lfe), MultiWidth(flags))
solaris_play == kind \in DOMAIN solaris_open /\ DevicePlay(2, 2)

\* waveOutOpen comes before the instance is changed, and the calls that hand a
\* buffer to the device after it: they may fail too.
win_play ==
  /\ kind \in DOMAIN win_open
  /\ \/ DevicePlay(2, 2)
     \/ /\ left > 0
        /\ Configure(2) \/ Follow
        /\ Refused("device")
        /\ UNCHANGED <<kind, frame, flags>>

\* A WAVE file has the speakers of its header.
wav_play ==
  /\ kind \in DOMAIN wav_open /\ left > 0
  /\ \/ /\ instance.set_params
        /\ device' = [channels |-> wav_channels(flags), rate |-> instance.sample_rate,
                      speakers |-> speaker_flags(flags)]
        /\ instance' = [instance EXCEPT !.set_params = FALSE,
                                        !.speakers = speaker_flags(flags)]
        /\ first' = frame
        /\ Write(WavWidth(flags))
     \/ /\ ~instance.set_params
        /\ IF speaker_flags(flags) = instance.speakers
           THEN Write(WavWidth(flags)) ELSE Refused("format")
        /\ UNCHANGED <<instance, device, first>>
  /\ UNCHANGED <<kind, frame, flags>>

\* An AIFF file has any two channels.
aif_play ==
  /\ kind \in DOMAIN aif_open /\ left > 0
  /\ IF instance.set_params
     THEN /\ device' = [channels |-> 2, rate |-> instance.sample_rate,
                        speakers |-> speaker_flags(flags)]
          /\ instance' = [instance EXCEPT !.set_params = FALSE]
          /\ first' = frame
     ELSE UNCHANGED <<instance, device, first>>
  /\ Write(2)
  /\ UNCHANGED <<kind, frame, flags>>

Next == \/ \E f \in Frames : Setup(f)
        \/ oss_play \/ al_play \/ solaris_play \/ win_play \/ wav_play \/ aif_play
Spec == Init /\ [][Next]_vars
------------------------------------------------------------------------------
\* Every block goes out with as many samples, at the rate, and for the speakers
\* that the device was configured for or the header names, however the modes
\* and the rates of the frames change after the first block.
AnnouncedFormat ==
  wrote # Nothing =>
    /\ wrote.width = device.channels
    /\ wrote.rate = device.rate
    /\ wrote.speakers = device.speakers

\* A frame like the one that configured the output is never refused: what was
\* granted once, and is asked for from then on, is granted again, though the
\* device has been switched between stereo and Dolby Surround meanwhile.
SameFrameAccepted ==
  first # Nothing /\ frame.mode = first.mode /\ frame.lfe = first.lfe
    /\ frame.rate = first.rate => error # "format"
==============================================================================
