---------------------------- MODULE AudioOut_proofs ----------------------------
(***************************************************************************)
(* The output drivers refuse no frame like the one they were configured    *)
(* with, and keep to the format they announced, for any set of drivers and *)
(* any frames (the latter but for those that convert2s16_wav stores        *)
(* wrongly).  What makes it true is in the tables: what a52_frame granted  *)
(* once it grants again when asked for it, up to the change from stereo to *)
(* Dolby Surround that a device follows, and the converters store as many  *)
(* samples as the functions that count channels say.                       *)
(***************************************************************************)
EXTENDS AudioOut, FiniteSetTheorems, TLAPS

Devices == DOMAIN oss_open \union DOMAIN al_open \union DOMAIN solaris_open
             \union DOMAIN win_open
Files   == DOMAIN wav_open \union DOMAIN aif_open
Multi   == DOMAIN oss_open \union DOMAIN al_open

\* What is granted to an instance with these flags.
Asked(f, own) == IF own = Own THEN Flags(f.mode, f.lfe) ELSE own
Grant(f, own) ==
  Flags(Granted(f.mode, Asked(f, own).mode, f.clev), f.lfe /\ Asked(f, own).lfe)

\* What the output was configured with, and what it may have been switched to.
Original == Grant(first, Open[kind])
Stereo   == {Flags("STEREO", FALSE), Flags("DOLBY", FALSE)}
Alike(a, b) == a = b \/ (a \in Stereo /\ b \in Stereo)
Like(f, g)  == f.mode = g.mode /\ f.lfe = g.lfe

\* The modes that two, and up to six, channels are played in.
TwoModes == {"CHANNEL", "STEREO", "DOLBY"}
SixModes == TwoModes \union {"3F", "2F2R", "3F2R"}

PlayFlags   == [mode : Modes, lfe : BOOLEAN]
DeviceFlags == [mode : SixModes, lfe : BOOLEAN]

\* The centre levels of a header.
Levels == CentreLevels \union {Mute}

\* No file that takes the mode of the stream gets the frames that convert2s16_wav
\* falls through with.
NoFallThrough == "wav6" \in Kinds => \A f \in Frames : ~ (f.mode = "2F1R" /\ f.lfe)

\* The modes that go with a driver.
Fits(fl) ==
  /\ fl \in PlayFlags
  /\ kind \in Devices => fl \in DeviceFlags
  /\ NoFallThrough /\ kind \in DOMAIN wav_open => ~ (fl.mode = "2F1R" /\ fl.lfe)
  /\ kind \in DOMAIN aif_open => fl.mode \in TwoModes /\ ~ fl.lfe

ChannelsOf(fl) ==
  IF kind \in Multi THEN channels_multi(fl.mode, fl.lfe)
  ELSE IF kind \in DOMAIN wav_open THEN wav_channels(fl) ELSE 2

TypeOK ==
  /\ kind \in Kinds /\ left \in 0..6
  /\ instance \in [set_params : BOOLEAN, sample_rate : Nat,
                   flags : [mode : Modes \union {"own"}, lfe : BOOLEAN],
                   speakers : SUBSET Speakers]
  /\ kind \in Devices => instance.flags \in DeviceFlags

\* Before the first block nothing has been fixed.
Fresh == instance.set_params =>
  /\ first = Nothing /\ wrote = Nothing
  /\ instance.flags = Open[kind]
  /\ left > 0 => flags = Grant(frame, Open[kind])
  /\ error # "format"

\* From then on the output is what it was configured for.
Configured == ~instance.set_params =>
  /\ first \in Frames /\ frame \in Frames
  /\ instance.sample_rate = first.rate
  /\ device = [channels |-> ChannelsOf(Original), rate |-> first.rate,
               speakers |-> speaker_flags(Original)]
  /\ IF kind \in Devices THEN Alike(instance.flags, Original)
     ELSE instance.flags = Open[kind]
  /\ kind \in DOMAIN wav_open => instance.speakers = speaker_flags(Original)

\* The frame that is being played.
Playing == left > 0 =>
  /\ frame \in Frames /\ instance.sample_rate = frame.rate
  /\ Fits(flags)
  /\ ~instance.set_params /\ Like(frame, first) => Alike(flags, Original)

AInv == /\ TypeOK /\ Fresh /\ Configured /\ Playing /\ SameFrameAccepted
        /\ NoFallThrough => AnnouncedFormat

USE KindsAssumption, FramesAssumption
------------------------------------------------------------------------------
LEMMA ModesAre ==
  /\ Modes = {"CHANNEL", "MONO", "STEREO", "3F", "2F1R", "3F1R", "2F2R", "3F2R",
              "CHANNEL1", "CHANNEL2", "DOLBY"}
  /\ InputModes = {"CHANNEL", "MONO", "STEREO", "3F", "2F1R", "3F1R", "2F2R", "3F2R",
                   "DOLBY"}
<1>1. 1..8 = {1, 2, 3, 4, 5, 6, 7, 8}
  OBVIOUS
<1>2. {Coded[i] : i \in 1..8} = {"CHANNEL", "MONO", "STEREO", "3F", "2F1R", "3F1R",
                                 "2F2R", "3F2R"}
  BY <1>1 DEF Coded
<1> QED
  BY <1>2 DEF Modes, InputModes

\* Granted without its CHOOSE: the place of each mode in the tables.
LEMMA GrantedIs ==
  ASSUME NEW m \in InputModes, NEW w, NEW c \in Levels
  PROVE  \E i \in {1, 2, 3, 4, 5, 6, 7, 8} :
           /\ i = CASE m = "CHANNEL" -> 1 [] m = "MONO" -> 2
                    [] m \in {"STEREO", "DOLBY"} -> 3 [] m = "3F" -> 4
                    [] m = "2F1R" -> 5 [] m = "3F1R" -> 6
                    [] m = "2F2R" -> 7 [] m = "3F2R" -> 8
           /\ Granted(m, w, c) =
                IF /\ Table(w)[i] = "STEREO"
                   /\ m = "DOLBY" \/ (m = "3F" /\ c = LEVEL_3DB)
                THEN "DOLBY" ELSE Table(w)[i]
<1> DEFINE i == CHOOSE k \in 1..8 : Coded[k] = acmod(m)
<1>1. \E k \in 1..8 : Coded[k] = acmod(m)
  <2>1. /\ Coded[1] = "CHANNEL" /\ Coded[2] = "MONO" /\ Coded[3] = "STEREO"
        /\ Coded[4] = "3F" /\ Coded[5] = "2F1R" /\ Coded[6] = "3F1R"
        /\ Coded[7] = "2F2R" /\ Coded[8] = "3F2R"
    BY DEF Coded
  <2> QED
    BY <2>1, ModesAre DEF acmod
<1>2. i \in 1..8 /\ Coded[i] = acmod(m)
  BY <1>1, Zenon
<1>3. i \in {1, 2, 3, 4, 5, 6, 7, 8}
  BY <1>2
<1>4. Granted(m, w, c) =
        IF Table(w)[i] = "STEREO" /\ (m = "DOLBY" \/ (m = "3F" /\ c = LEVEL_3DB))
        THEN "DOLBY" ELSE Table(w)[i]
  BY Zenon DEF Granted
<1> HIDE DEF i
<1>5. i = CASE m = "CHANNEL" -> 1 [] m = "MONO" -> 2
            [] m \in {"STEREO", "DOLBY"} -> 3 [] m = "3F" -> 4
            [] m = "2F1R" -> 5 [] m = "3F1R" -> 6
            [] m = "2F2R" -> 7 [] m = "3F2R" -> 8
  BY <1>2, <1>3, ModesAre DEF acmod, Coded
<1> QED
  BY <1>3, <1>4, <1>5

\* What is granted to who wants one of the modes that drivers ask for.
LEMMA GrantedRows ==
  ASSUME NEW m \in InputModes, NEW c \in Levels
  PROVE  /\ \A w \in {"CHANNEL", "STEREO"} :
              Granted(m, w, c) = IF m = "CHANNEL" THEN m
                                 ELSE IF m \in {"MONO", "DOLBY"}
                                         \/ (m = "3F" /\ c = LEVEL_3DB)
                                 THEN "DOLBY" ELSE "STEREO"
         /\ Granted(m, "DOLBY", c) = IF m \in {"CHANNEL", "STEREO"} THEN m ELSE "DOLBY"
         /\ Granted(m, "3F", c) = IF m = "CHANNEL" THEN m
                                  ELSE IF m \in {"MONO", "DOLBY"} THEN "DOLBY"
                                  ELSE IF m \in {"3F", "3F1R", "3F2R"} THEN "3F"
                                  ELSE "STEREO"
         /\ Granted(m, "2F2R", c) = IF m \in {"CHANNEL", "STEREO", "3F"} THEN m
                                    ELSE IF m \in {"MONO", "DOLBY"} THEN "DOLBY"
                                    ELSE "2F2R"
         /\ Granted(m, "3F2R", c) = IF m \in {"CHANNEL", "STEREO", "3F"} THEN m
                                    ELSE IF m \in {"MONO", "DOLBY"} THEN "DOLBY"
                                    ELSE IF m \in {"3F1R", "3F2R"} THEN "3F2R"
                                    ELSE "2F2R"
<1>1. \A w \in {"CHANNEL", "STEREO"} :
        Granted(m, w, c) = IF m = "CHANNEL" THEN m
                           ELSE IF m \in {"MONO", "DOLBY"} \/ (m = "3F" /\ c = LEVEL_3DB)
                           THEN "DOLBY" ELSE "STEREO"
  BY GrantedIs, ModesAre DEF Table
<1>2. Granted(m, "DOLBY", c) = IF m \in {"CHANNEL", "STEREO"} THEN m ELSE "DOLBY"
  BY GrantedIs, ModesAre DEF Table
<1>3. Granted(m, "3F", c) = IF m = "CHANNEL" THEN m
                            ELSE IF m \in {"MONO", "DOLBY"} THEN "DOLBY"
                            ELSE IF m \in {"3F", "3F1R", "3F2R"} THEN "3F"
                            ELSE "STEREO"
  BY GrantedIs, ModesAre DEF Table
<1>4. Granted(m, "2F2R", c) = IF m \in {"CHANNEL", "STEREO", "3F"} THEN m
                              ELSE IF m \in {"MONO", "DOLBY"} THEN "DOLBY"
                              ELSE "2F2R"
  BY GrantedIs, ModesAre DEF Table
<1>5. Granted(m, "3F2R", c) = IF m \in {"CHANNEL", "STEREO", "3F"} THEN m
                              ELSE IF m \in {"MONO", "DOLBY"} THEN "DOLBY"
                              ELSE IF m \in {"3F1R", "3F2R"} THEN "3F2R"
                              ELSE "2F2R"
  BY GrantedIs, ModesAre DEF Table
<1> QED
  BY <1>1, <1>2, <1>3, <1>4, <1>5

\* A driver that asks for each frame's own mode gets it.
LEMMA GrantedOwn ==
  ASSUME NEW m \in InputModes, NEW c \in Levels
  PROVE  Granted(m, m, c) = m
<1>1. m \in {"CHANNEL", "MONO", "STEREO", "3F", "2F1R", "3F1R", "2F2R", "3F2R", "DOLBY"}
  BY ModesAre
<1>2. m \in {"CHANNEL", "STEREO", "3F", "2F2R", "3F2R", "DOLBY"} => Granted(m, m, c) = m
  BY GrantedRows
<1>3. Granted("MONO", "MONO", c) = "MONO"
  BY GrantedIs, ModesAre DEF Table
<1>4. Granted("2F1R", "2F1R", c) = "2F1R"
  BY GrantedIs, ModesAre DEF Table
<1>5. Granted("3F1R", "3F1R", c) = "3F1R"
  BY GrantedIs, ModesAre DEF Table
<1> QED
  BY <1>1, <1>2, <1>3, <1>4, <1>5

\* The drivers, and what their instances ask for.
LEMMA Drivers ==
  /\ DOMAIN oss_open = {"oss", "ossdolby", "oss4", "oss6"}
  /\ DOMAIN al_open = {"al", "aldolby", "al4", "al6"}
  /\ DOMAIN solaris_open = {"solaris", "solarisdolby"}
  /\ DOMAIN win_open = {"win", "windolby"}
  /\ DOMAIN wav_open = {"wav", "wavdolby", "wav6"}
  /\ DOMAIN aif_open = {"aif", "aifdolby"}
  BY DEF oss_open, al_open, solaris_open, win_open, wav_open, aif_open

LEMMA OpenIs ==
  /\ \A k \in DOMAIN Open :
       \/ Open[k] \in Stereo
       \/ Open[k] = Flags("2F2R", FALSE) /\ k \in Multi
       \/ Open[k] = Flags("3F2R", TRUE) /\ k \in Multi
       \/ Open[k] = Own /\ k = "wav6"
  /\ DOMAIN Open = Devices \union Files
<1>1. DOMAIN Open = Devices \union Files
  BY DEF Open, Devices, Files
<1>2. \A k \in DOMAIN oss_open : Open[k] = oss_open[k]
  BY Drivers DEF Open
<1>3. \A k \in DOMAIN al_open : Open[k] = al_open[k]
  BY Drivers DEF Open
<1>4. \A k \in DOMAIN solaris_open : Open[k] = solaris_open[k]
  BY Drivers DEF Open
<1>5. \A k \in DOMAIN win_open : Open[k] = win_open[k]
  BY Drivers DEF Open
<1>6. \A k \in DOMAIN wav_open : Open[k] = wav_open[k]
  BY Drivers DEF Open
<1>7. \A k \in DOMAIN aif_open : Open[k] = aif_open[k]
  BY Drivers DEF Open
<1>8. ASSUME NEW k \in DOMAIN Open
      PROVE  \/ Open[k] \in Stereo
             \/ Open[k] = Flags("2F2R", FALSE) /\ k \in Multi
             \/ Open[k] = Flags("3F2R", TRUE) /\ k \in Multi
             \/ Open[k] = Own /\ k = "wav6"
  <2>1. k \in Devices \union Files
    BY <1>1
  <2>2. CASE k \in DOMAIN oss_open
    BY <1>2, <2>2, Drivers DEF oss_open, Stereo, Multi
  <2>3. CASE k \in DOMAIN al_open
    BY <1>3, <2>3, Drivers DEF al_open, Stereo, Multi
  <2>4. CASE k \in DOMAIN solaris_open
    BY <1>4, <2>4, Drivers DEF solaris_open, Stereo
  <2>5. CASE k \in DOMAIN win_open
    BY <1>5, <2>5, Drivers DEF win_open, Stereo
  <2>6. CASE k \in DOMAIN wav_open
    BY <1>6, <2>6, Drivers DEF wav_open, Stereo
  <2>7. CASE k \in DOMAIN aif_open
    BY <1>7, <2>7, Drivers DEF aif_open, Stereo
  <2> QED
    BY <2>1, <2>2, <2>3, <2>4, <2>5, <2>6, <2>7 DEF Devices, Files
<1> QED
  BY <1>1, <1>8

\* A device may be switched between these, and has no low frequency channel then.
LEMMA StereoIs ==
  ASSUME NEW m \in Modes
  PROVE  /\ Flags(m, FALSE) \in Stereo <=> m \in {"STEREO", "DOLBY"}
         /\ Flags(m, TRUE) \notin Stereo
<1>1. \A l \in BOOLEAN : Flags(m, l).mode = m /\ Flags(m, l).lfe = l
  BY DEF Flags
<1>2. /\ Flags("STEREO", FALSE).mode = "STEREO" /\ Flags("STEREO", FALSE).lfe = FALSE
      /\ Flags("DOLBY", FALSE).mode = "DOLBY" /\ Flags("DOLBY", FALSE).lfe = FALSE
  BY DEF Flags
<1>3. /\ Flags(m, FALSE).mode = m /\ Flags(m, TRUE).lfe = TRUE
  BY DEF Flags
<1> QED
  BY <1>2, <1>3 DEF Stereo

\* What a frame gets, for each of the requests that occur.
LEMMA GrantIs ==
  ASSUME NEW f \in Frames
  PROVE  /\ f.mode \in InputModes /\ f.lfe \in BOOLEAN
         /\ Grant(f, Own) = Flags(f.mode, f.lfe)
         /\ \A m \in Modes :
              /\ Grant(f, Flags(m, FALSE)) = Flags(Granted(f.mode, m, f.clev), FALSE)
              /\ Grant(f, Flags(m, TRUE)) =
                   IF f.lfe THEN Flags(Granted(f.mode, m, f.clev), TRUE)
                   ELSE Flags(Granted(f.mode, m, f.clev), FALSE)
<1>1. f.mode \in InputModes /\ f.lfe \in BOOLEAN
  OBVIOUS
<1>2. Grant(f, Own) = Flags(f.mode, f.lfe)
  <2>1. Asked(f, Own) = Flags(f.mode, f.lfe)
    BY DEF Asked
  <2>2. Granted(f.mode, f.mode, f.clev) = f.mode
    BY <1>1, GrantedOwn DEF Levels
  <2>3. Flags(f.mode, f.lfe).mode = f.mode /\ Flags(f.mode, f.lfe).lfe = f.lfe
    BY DEF Flags
  <2> QED
    BY <1>1, <2>1, <2>2, <2>3 DEF Grant
<1>3. ASSUME NEW m \in Modes
      PROVE  /\ Grant(f, Flags(m, FALSE)) = Flags(Granted(f.mode, m, f.clev), FALSE)
             /\ Grant(f, Flags(m, TRUE)) =
                  IF f.lfe THEN Flags(Granted(f.mode, m, f.clev), TRUE)
                  ELSE Flags(Granted(f.mode, m, f.clev), FALSE)
  <2>1. m # "own"
    BY ModesAre
  <2>2. /\ Own.mode = "own"
        /\ Flags(m, FALSE).mode = m /\ Flags(m, FALSE).lfe = FALSE
        /\ Flags(m, TRUE).mode = m /\ Flags(m, TRUE).lfe = TRUE
    BY DEF Flags, Own
  <2>3. Asked(f, Flags(m, FALSE)) = Flags(m, FALSE)
        /\ Asked(f, Flags(m, TRUE)) = Flags(m, TRUE)
    BY <2>1, <2>2 DEF Asked
  <2> QED
    BY <1>1, <2>2, <2>3 DEF Grant
<1> QED
  BY <1>1, <1>2, <1>3

\* Whom to ask for what was granted: the same again, up to the change between
\* stereo and Dolby Surround that a device follows.
LEMMA GrantedAgain ==
  ASSUME NEW f \in Frames, NEW g \in Frames, Like(f, g),
         NEW k \in Devices, NEW w, Alike(w, Grant(g, Open[k]))
  PROVE  Alike(Grant(f, w), Grant(g, Open[k]))
<1> DEFINE m == f.mode
           l == f.lfe
<1>1. /\ m \in InputModes /\ l \in BOOLEAN
      /\ f.clev \in Levels /\ g.clev \in Levels
      /\ \A n \in Modes :
           /\ Grant(f, Flags(n, FALSE)) = Flags(Granted(m, n, f.clev), FALSE)
           /\ Grant(f, Flags(n, TRUE)) = IF l THEN Flags(Granted(m, n, f.clev), TRUE)
                                         ELSE Flags(Granted(m, n, f.clev), FALSE)
           /\ Grant(g, Flags(n, FALSE)) = Flags(Granted(m, n, g.clev), FALSE)
           /\ Grant(g, Flags(n, TRUE)) = IF l THEN Flags(Granted(m, n, g.clev), TRUE)
                                         ELSE Flags(Granted(m, n, g.clev), FALSE)
  BY GrantIs DEF Like, Levels
<1>2. /\ "STEREO" \in Modes /\ "DOLBY" \in Modes /\ "CHANNEL" \in Modes
      /\ "3F" \in Modes /\ "2F2R" \in Modes /\ "3F2R" \in Modes
  BY ModesAre
<1> HIDE DEF m, l
<1>3. \/ Open[k] \in Stereo \/ Open[k] = Flags("2F2R", FALSE)
      \/ Open[k] = Flags("3F2R", TRUE)
  BY OpenIs, Drivers DEF Devices
<1> DEFINE Two == {"STEREO", "DOLBY"}
<1>4. \A c \in Levels, n \in Two :
        IF m = "CHANNEL" THEN Granted(m, n, c) = "CHANNEL" ELSE Granted(m, n, c) \in Two
  BY <1>1, GrantedRows
<1>5. \A n \in Two : n \in Modes /\ Flags(n, FALSE) \in Stereo
  BY <1>2 DEF Stereo
<1>6. \A x \in Stereo : \E n \in Two : x = Flags(n, FALSE)
  BY DEF Stereo
\* Of those that may be switched, each is granted one of them.
<1>7. ASSUME m # "CHANNEL", Grant(g, Open[k]) \in Stereo
      PROVE  Alike(Grant(f, w), Grant(g, Open[k]))
  <2>1. w \in Stereo
    BY <1>7 DEF Alike
  <2>2. PICK n \in Two : w = Flags(n, FALSE)
    BY <1>6, <2>1
  <2>3. Grant(f, w) = Flags(Granted(m, n, f.clev), FALSE)
    BY <1>1, <1>5, <2>2
  <2>4. Granted(m, n, f.clev) \in Two
    BY <1>1, <1>4, <1>7
  <2>5. Grant(f, w) \in Stereo
    BY <1>5, <2>3, <2>4
  <2> QED
    BY <1>7, <2>5 DEF Alike
\* The others are granted themselves.
<1>8. ASSUME NEW n \in Modes, Grant(g, Open[k]) = Flags(n, FALSE), n \notin Two,
             Granted(m, n, f.clev) = n
      PROVE  Alike(Grant(f, w), Grant(g, Open[k]))
  <2>1. Flags(n, FALSE) \notin Stereo
    BY <1>8, StereoIs
  <2>2. w = Flags(n, FALSE)
    BY <1>8, <2>1 DEF Alike
  <2>3. Grant(f, w) = Flags(n, FALSE)
    BY <1>1, <1>8, <2>2
  <2> QED
    BY <1>8, <2>3 DEF Alike
<1>9. CASE Open[k] \in Stereo
  <2>1. PICK n \in Two : Open[k] = Flags(n, FALSE)
    BY <1>6, <1>9
  <2>2. Grant(g, Open[k]) = Flags(Granted(m, n, g.clev), FALSE)
    BY <1>1, <1>5, <2>1
  <2>3. CASE m = "CHANNEL"
    <3>1. Granted(m, n, g.clev) = "CHANNEL" /\ Granted(m, "CHANNEL", f.clev) = "CHANNEL"
      BY <1>1, <2>3, GrantedRows
    <3>2. Grant(g, Open[k]) = Flags("CHANNEL", FALSE)
      BY <2>2, <3>1
    <3> QED
      BY <1>2, <1>8, <3>1, <3>2
  <2>4. CASE m # "CHANNEL"
    <3>1. Granted(m, n, g.clev) \in Two
      BY <1>1, <1>4, <2>4
    <3> QED
      BY <1>5, <1>7, <2>2, <2>4, <3>1
  <2> QED
    BY <2>3, <2>4
<1>10. CASE Open[k] = Flags("2F2R", FALSE)
  <2>1. Grant(g, Open[k]) = Flags(Granted(m, "2F2R", g.clev), FALSE)
    BY <1>1, <1>2, <1>10
  <2>2. CASE m \in {"MONO", "DOLBY", "STEREO"}
    <3>1. Granted(m, "2F2R", g.clev) \in Two
      BY <1>1, <2>2, GrantedRows
    <3> QED
      BY <1>5, <1>7, <2>1, <2>2, <3>1
  <2>3. CASE m \notin {"MONO", "DOLBY", "STEREO"}
    <3>1. PICK n \in {"CHANNEL", "3F", "2F2R"} : n = Granted(m, "2F2R", g.clev)
      BY <1>1, <2>3, GrantedRows, ModesAre
    <3>2. Granted(m, n, f.clev) = n
      BY <1>1, <2>3, <3>1, GrantedRows
    <3>3. n \in Modes /\ n \notin Two
      BY <1>2
    <3> QED
      BY <1>8, <2>1, <3>1, <3>2, <3>3
  <2> QED
    BY <2>2, <2>3
<1>11. CASE Open[k] = Flags("3F2R", TRUE)
  <2>1. PICK n \in SixModes : n = Granted(m, "3F2R", g.clev)
    BY <1>1, GrantedRows, ModesAre DEF SixModes, TwoModes
  <2>2. Granted(m, n, f.clev) = n
    BY <1>1, <2>1, GrantedRows, ModesAre DEF SixModes, TwoModes
  <2>3. n \in Modes
    BY <1>2 DEF SixModes, TwoModes
  <2>4. CASE ~l
    <3>1. Grant(g, Open[k]) = Flags(n, FALSE)
      BY <1>1, <1>2, <1>11, <2>1, <2>4
    <3>2. n \in Two => m # "CHANNEL"
      BY <1>1, <2>1, GrantedRows
    <3> QED
      BY <1>5, <1>7, <1>8, <2>2, <2>3, <3>1, <3>2
  <2>5. CASE l
    <3>1. Grant(g, Open[k]) = Flags(n, TRUE)
      BY <1>1, <1>2, <1>11, <2>1, <2>5
    <3>2. w = Flags(n, TRUE)
      BY <2>3, <3>1, StereoIs DEF Alike
    <3>3. Grant(f, w) = Flags(n, TRUE)
      BY <1>1, <2>2, <2>3, <2>5, <3>2
    <3> QED
      BY <3>1, <3>3 DEF Alike
  <2> QED
    BY <2>4, <2>5
<1> QED
  BY <1>3, <1>9, <1>10, <1>11

\* A file asks for the same with each frame.
LEMMA GrantedFile ==
  ASSUME NEW f \in Frames, NEW g \in Frames, Like(f, g), NEW k \in Files
  PROVE  Alike(Grant(f, Open[k]), Grant(g, Open[k]))
<1>1. Open[k] \in Stereo \/ Open[k] = Own
  BY OpenIs, Drivers DEF Files, Multi
<1>2. CASE Open[k] = Own
  BY <1>2, GrantIs DEF Like, Alike
<1>3. CASE Open[k] \in Stereo
  <2> DEFINE Two == {"STEREO", "DOLBY"}
             m   == f.mode
  <2>1. /\ m \in InputModes /\ f.clev \in Levels /\ g.clev \in Levels
        /\ \A n \in Modes :
             /\ Grant(f, Flags(n, FALSE)) = Flags(Granted(m, n, f.clev), FALSE)
             /\ Grant(g, Flags(n, FALSE)) = Flags(Granted(m, n, g.clev), FALSE)
    BY GrantIs DEF Like, Levels
  <2> HIDE DEF m
  <2>2. \A n \in Two : n \in Modes /\ Flags(n, FALSE) \in Stereo
    BY ModesAre DEF Stereo
  <2>3. PICK n \in Two : Open[k] = Flags(n, FALSE)
    BY <1>3 DEF Stereo
  <2>4. /\ Grant(f, Open[k]) = Flags(Granted(m, n, f.clev), FALSE)
        /\ Grant(g, Open[k]) = Flags(Granted(m, n, g.clev), FALSE)
    BY <2>1, <2>2, <2>3
  <2>5. CASE m = "CHANNEL"
    <3>1. Granted(m, n, f.clev) = "CHANNEL" /\ Granted(m, n, g.clev) = "CHANNEL"
      BY <2>1, <2>5, GrantedRows
    <3> QED
      BY <2>4, <3>1 DEF Alike
  <2>6. CASE m # "CHANNEL"
    <3>1. Granted(m, n, f.clev) \in Two /\ Granted(m, n, g.clev) \in Two
      BY <2>1, <2>6, GrantedRows
    <3> QED
      BY <2>2, <2>4, <3>1 DEF Alike
  <2> QED
    BY <2>5, <2>6
<1> QED
  BY <1>1, <1>2, <1>3

\* What is granted goes with the driver.
LEMMA GrantedDevice ==
  ASSUME NEW f \in Frames, NEW w \in DeviceFlags
  PROVE  Grant(f, w) \in DeviceFlags
<1>1. w.mode \in SixModes /\ w.lfe \in BOOLEAN /\ w.mode # "own"
  BY DEF DeviceFlags, SixModes, TwoModes
<1>2. w # Own
  <2>1. Own.mode = "own"
    BY DEF Own, Flags
  <2> QED
    BY <1>1, <2>1
<1>3. f.mode \in InputModes /\ f.clev \in Levels /\ f.lfe \in BOOLEAN
  BY DEF Levels
<1>4. Granted(f.mode, w.mode, f.clev) \in SixModes
  BY <1>1, <1>3, GrantedRows, GrantedOwn, ModesAre DEF SixModes, TwoModes
<1> QED
  BY <1>1, <1>2, <1>3, <1>4 DEF Grant, Asked, Flags, DeviceFlags

LEMMA OpenDevice == ASSUME NEW k \in Devices PROVE Open[k] \in DeviceFlags
<1>1. \/ Open[k] \in Stereo \/ Open[k] = Flags("2F2R", FALSE)
      \/ Open[k] = Flags("3F2R", TRUE)
  BY OpenIs, Drivers DEF Devices
<1>2. /\ Flags("STEREO", FALSE) \in DeviceFlags /\ Flags("DOLBY", FALSE) \in DeviceFlags
      /\ Flags("2F2R", FALSE) \in DeviceFlags /\ Flags("3F2R", TRUE) \in DeviceFlags
  BY DEF Flags, DeviceFlags, SixModes, TwoModes
<1> QED
  BY <1>1, <1>2 DEF Stereo

LEMMA FitsGrant ==
  ASSUME NEW f \in Frames, kind \in Kinds, NEW w,
         kind \in Devices => w \in DeviceFlags,
         kind \in Files => w = Open[kind]
  PROVE  Fits(Grant(f, w))
<1>1. kind \in Devices \union Files
  BY OpenIs
<1>2. CASE kind \in Devices
  <2>1. Grant(f, w) \in DeviceFlags
    BY <1>2, GrantedDevice
  <2>2. Grant(f, w) \in PlayFlags
    BY <2>1, ModesAre DEF DeviceFlags, PlayFlags, SixModes, TwoModes
  <2> QED
    BY <1>2, <2>1, <2>2, Drivers DEF Fits, Devices, Files
<1>3. CASE kind \in Files /\ Open[kind] = Own
  <2>1. kind = "wav6" /\ kind \notin Devices
    <3>1. /\ Own.mode = "own"
          /\ Flags("STEREO", FALSE).mode = "STEREO" /\ Flags("DOLBY", FALSE).mode = "DOLBY"
      BY DEF Flags, Own
    <3>2. Own \notin Stereo
      BY <3>1 DEF Stereo
    <3> QED
      BY <1>3, <3>2, OpenIs, Drivers DEF Files, Multi, Devices
  <2>2. f.mode \in Modes /\ f.lfe \in BOOLEAN
    BY GrantIs, ModesAre
  <2>3. Grant(f, w) = Flags(f.mode, f.lfe)
    BY <1>3, GrantIs
  <2> QED
    BY <2>1, <2>2, <2>3, Drivers DEF NoFallThrough, Fits, Flags, PlayFlags
<1>4. CASE kind \in Files /\ Open[kind] \in Stereo
  <2>1. PICK n \in {"STEREO", "DOLBY"} : w = Flags(n, FALSE)
    BY <1>4 DEF Stereo
  <2>2. Grant(f, w) = Flags(Granted(f.mode, n, f.clev), FALSE)
    BY <2>1, GrantIs, ModesAre
  <2>3. f.mode \in InputModes /\ f.clev \in Levels
    BY DEF Levels
  <2>4. Granted(f.mode, n, f.clev) \in TwoModes
    BY <2>3, GrantedRows DEF TwoModes
  <2>5. kind \notin Devices
    BY <1>4, Drivers DEF Files, Devices
  <2> QED
    BY <2>2, <2>4, <2>5, ModesAre DEF Fits, Flags, PlayFlags, TwoModes
<1>5. kind \in Files => Open[kind] = Own \/ Open[kind] \in Stereo
  BY OpenIs, Drivers DEF Files, Multi
<1> QED
  BY <1>1, <1>2, <1>3, <1>4, <1>5
------------------------------------------------------------------------------
\* The converters store as many samples as are counted.
LEMMA MultiWidthIs ==
  ASSUME NEW fl \in DeviceFlags
  PROVE  MultiWidth(fl) = channels_multi(fl.mode, fl.lfe)
<1>1. fl.mode \in SixModes /\ fl.lfe \in BOOLEAN
  BY DEF DeviceFlags
<1>2. CASE fl.mode \in TwoModes
  BY <1>1, <1>2 DEF MultiWidth, MultiOrder, channels_multi, TwoModes
<1>3. CASE fl.mode = "3F"
  BY <1>1, <1>3 DEF MultiWidth, MultiOrder, channels_multi
<1>4. CASE fl.mode = "2F2R"
  BY <1>1, <1>4 DEF MultiWidth, MultiOrder, channels_multi
<1>5. CASE fl.mode = "3F2R"
  BY <1>1, <1>5 DEF MultiWidth, MultiOrder, channels_multi
<1> QED
  BY <1>1, <1>2, <1>3, <1>4, <1>5 DEF SixModes

LEMMA ChannelsOfMode ==
  /\ \A m \in {"MONO", "CHANNEL1", "CHANNEL2"} : nfchans_tbl[m] = 1
  /\ \A m \in TwoModes : nfchans_tbl[m] = 2
  /\ nfchans_tbl["3F"] = 3 /\ nfchans_tbl["2F1R"] = 3 /\ nfchans_tbl["3F1R"] = 4
  /\ nfchans_tbl["2F2R"] = 4 /\ nfchans_tbl["3F2R"] = 5
  BY ModesAre DEF nfchans_tbl, TwoModes

\* A round of n samples of one time.
LEMMA OneTime ==
  ASSUME NEW n \in Nat, NEW order, DOMAIN order = 1..n, NEW fl,
         WavRound(fl.mode, fl.lfe) = At(order, 0)
  PROVE  WavWidth(fl) = n
<1> DEFINE round == At(order, 0)
<1>1. DOMAIN round = 1..n /\ \A i \in 1..n : round[i][2] = 0
  BY DEF At
<1>2. {i \in DOMAIN round : round[i][2] = 0} = 1..n
  BY <1>1
<1>3. Cardinality(1..n) = n
  BY FS_Interval
<1> QED
  BY <1>2, <1>3 DEF WavWidth

\* In every mode but the one that falls through, the file gets what it counted.
LEMMA WavWidthIs ==
  ASSUME NEW fl \in PlayFlags, ~ (fl.mode = "2F1R" /\ fl.lfe)
  PROVE  WavWidth(fl) = wav_channels(fl)
<1>1. fl.mode \in Modes /\ fl.lfe \in BOOLEAN
  BY DEF PlayFlags
<1>2. \A n \in Nat : \A order : /\ DOMAIN order = 1..n
                                /\ WavRound(fl.mode, fl.lfe) = At(order, 0)
                                => WavWidth(fl) = n
  BY OneTime
<1>3. CASE fl.mode \in {"MONO", "CHANNEL1", "CHANNEL2"}
  <2>1. WavRound(fl.mode, fl.lfe) = At(IF fl.lfe THEN <<1, 0>> ELSE <<0>>, 0)
    BY <1>1, <1>3 DEF WavRound, TwoModes
  <2>2. DOMAIN <<1, 0>> = 1..2 /\ DOMAIN <<0>> = 1..1
    OBVIOUS
  <2>3. WavWidth(fl) = IF fl.lfe THEN 2 ELSE 1
    BY <1>1, <1>2, <2>1, <2>2
  <2> QED
    BY <1>1, <1>3, <2>3, ChannelsOfMode DEF wav_channels
<1>4. CASE fl.mode \in TwoModes
  <2>1. WavRound(fl.mode, fl.lfe) = At(IF fl.lfe THEN <<1, 2, 0>> ELSE <<0, 1>>, 0)
    BY <1>1, <1>4 DEF WavRound, TwoModes
  <2>2. DOMAIN <<1, 2, 0>> = 1..3 /\ DOMAIN <<0, 1>> = 1..2
    OBVIOUS
  <2>3. WavWidth(fl) = IF fl.lfe THEN 3 ELSE 2
    BY <1>1, <1>2, <2>1, <2>2
  <2> QED
    BY <1>1, <1>4, <2>3, ChannelsOfMode DEF wav_channels
<1>5. CASE fl.mode = "3F"
  <2>1. WavRound(fl.mode, fl.lfe) = At(IF fl.lfe THEN <<1, 3, 2, 0>> ELSE <<0, 2, 1>>, 0)
    BY <1>1, <1>5 DEF WavRound, TwoModes
  <2>2. DOMAIN <<1, 3, 2, 0>> = 1..4 /\ DOMAIN <<0, 2, 1>> = 1..3
    OBVIOUS
  <2>3. WavWidth(fl) = IF fl.lfe THEN 4 ELSE 3
    BY <1>1, <1>2, <2>1, <2>2
  <2> QED
    BY <1>1, <1>5, <2>3, ChannelsOfMode DEF wav_channels
<1>6. CASE fl.mode = "3F1R"
  <2>1. WavRound(fl.mode, fl.lfe) = At(IF fl.lfe THEN <<1, 3, 2, 0, 4>> ELSE <<0, 2, 1, 3>>, 0)
    BY <1>1, <1>6 DEF WavRound, TwoModes
  <2>2. DOMAIN <<1, 3, 2, 0, 4>> = 1..5 /\ DOMAIN <<0, 2, 1, 3>> = 1..4
    OBVIOUS
  <2>3. WavWidth(fl) = IF fl.lfe THEN 5 ELSE 4
    BY <1>1, <1>2, <2>1, <2>2
  <2> QED
    BY <1>1, <1>6, <2>3, ChannelsOfMode DEF wav_channels
<1>7. CASE fl.mode = "2F2R"
  <2>1. WavRound(fl.mode, fl.lfe) = At(IF fl.lfe THEN <<1, 2, 0, 3, 4>> ELSE <<0, 1, 2, 3>>, 0)
    BY <1>1, <1>7 DEF WavRound, TwoModes
  <2>2. DOMAIN <<1, 2, 0, 3, 4>> = 1..5 /\ DOMAIN <<0, 1, 2, 3>> = 1..4
    OBVIOUS
  <2>3. WavWidth(fl) = IF fl.lfe THEN 5 ELSE 4
    BY <1>1, <1>2, <2>1, <2>2
  <2> QED
    BY <1>1, <1>7, <2>3, ChannelsOfMode DEF wav_channels
<1>8. CASE fl.mode = "3F2R"
  <2>1. WavRound(fl.mode, fl.lfe) = At(IF fl.lfe THEN <<1, 3, 2, 0, 4, 5>> ELSE <<0, 2, 1, 3, 4>>, 0)
    BY <1>1, <1>8 DEF WavRound, TwoModes
  <2>2. DOMAIN <<1, 3, 2, 0, 4, 5>> = 1..6 /\ DOMAIN <<0, 2, 1, 3, 4>> = 1..5
    OBVIOUS
  <2>3. WavWidth(fl) = IF fl.lfe THEN 6 ELSE 5
    BY <1>1, <1>2, <2>1, <2>2
  <2> QED
    BY <1>1, <1>8, <2>3, ChannelsOfMode DEF wav_channels
<1>9. CASE fl.mode = "2F1R" /\ ~ fl.lfe
  <2>1. WavRound(fl.mode, fl.lfe) = At(<<0, 1, 2>>, 0)
    BY <1>1, <1>9 DEF WavRound
  <2>2. DOMAIN <<0, 1, 2>> = 1..3
    OBVIOUS
  <2>3. WavWidth(fl) = 3
    BY <1>1, <1>2, <2>1, <2>2
  <2> QED
    BY <1>1, <1>9, <2>3, ChannelsOfMode DEF wav_channels
<1> QED
  BY <1>1, <1>3, <1>4, <1>5, <1>6, <1>7, <1>8, <1>9, ModesAre DEF TwoModes

\* The speakers of a file tell how many channels it has.
LEMMA SpeakersCount ==
  ASSUME NEW a \in PlayFlags, NEW b \in PlayFlags, speaker_flags(a) = speaker_flags(b)
  PROVE  wav_channels(a) = wav_channels(b)
<1> DEFINE Has(S, s) == IF s \in S THEN 1 ELSE 0
           Count(S) == Has(S, "FL") + Has(S, "FR") + Has(S, "FC") + Has(S, "BL")
                         + Has(S, "BR") + Has(S, "BC") + Has(S, "LF")
<1>1. ASSUME NEW m \in Modes
      PROVE  /\ Count(speaker_tbl(m)) = nfchans_tbl[m]
             /\ "LF" \notin speaker_tbl(m)
  <2>1. CASE m \in {"MONO", "CHANNEL1", "CHANNEL2"}
    BY <2>1, ChannelsOfMode DEF speaker_tbl
  <2>2. CASE m \in TwoModes
    BY <2>2, ChannelsOfMode DEF speaker_tbl, TwoModes
  <2>3. CASE m = "3F" \/ m = "2F1R"
    BY <2>3, ChannelsOfMode DEF speaker_tbl
  <2>4. CASE m = "3F1R" \/ m = "2F2R"
    BY <2>4, ChannelsOfMode DEF speaker_tbl
  <2>5. CASE m = "3F2R"
    BY <2>5, ChannelsOfMode DEF speaker_tbl
  <2> QED
    BY <2>1, <2>2, <2>3, <2>4, <2>5, ModesAre DEF TwoModes
<1>2. ASSUME NEW f \in PlayFlags
      PROVE  wav_channels(f) = Count(speaker_flags(f))
  <2>1. f.mode \in Modes /\ f.lfe \in BOOLEAN
    BY DEF PlayFlags
  <2> DEFINE S == speaker_tbl(f.mode)
  <2>2. Count(S) = nfchans_tbl[f.mode] /\ "LF" \notin S
    BY <1>1, <2>1
  <2>3. wav_channels(f) = Count(S) + (IF f.lfe THEN 1 ELSE 0)
    BY <2>2 DEF wav_channels
  <2>4. speaker_flags(f) = S \union (IF f.lfe THEN {"LF"} ELSE {})
    BY DEF speaker_flags
  <2> HIDE DEF S
  <2> QED
    BY <2>1, <2>2, <2>3, <2>4
<1> QED
  BY <1>2
------------------------------------------------------------------------------
Wrote(width, fl) == [width |-> width, rate |-> frame.rate, speakers |-> speaker_flags(fl)]

\* Speakers and channels do not tell stereo from Dolby Surround.
LEMMA AlikeSame ==
  ASSUME NEW a, NEW b, Alike(a, b)
  PROVE  speaker_flags(a) = speaker_flags(b) /\ ChannelsOf(a) = ChannelsOf(b)
<1>1. CASE a = b
  BY <1>1
<1>2. ASSUME NEW x \in Stereo
      PROVE  /\ speaker_flags(x) = {"FL", "FR"}
             /\ channels_multi(x.mode, x.lfe) = 2 /\ wav_channels(x) = 2
  <2>1. x.mode \in {"STEREO", "DOLBY"} /\ x.lfe = FALSE
    BY DEF Stereo, Flags
  <2> QED
    BY <2>1, ChannelsOfMode
       DEF speaker_flags, speaker_tbl, channels_multi, wav_channels, TwoModes
<1> QED
  BY <1>1, <1>2 DEF Alike, ChannelsOf

LEMMA InitAInv == ASSUME Init PROVE AInv
<1>1. /\ kind \in Kinds /\ left = 0 /\ error = "none"
      /\ instance = [set_params |-> TRUE, sample_rate |-> 0,
                     flags |-> Open[kind], speakers |-> {}]
      /\ wrote = Nothing /\ first = Nothing
  BY DEF Init
<1>2. kind \in Devices => Open[kind] \in DeviceFlags
  BY OpenDevice
<1>3. Open[kind] \in [mode : Modes \union {"own"}, lfe : BOOLEAN]
  <2>1. /\ Flags("STEREO", FALSE) \in [mode : Modes \union {"own"}, lfe : BOOLEAN]
        /\ Flags("DOLBY", FALSE) \in [mode : Modes \union {"own"}, lfe : BOOLEAN]
        /\ Flags("2F2R", FALSE) \in [mode : Modes \union {"own"}, lfe : BOOLEAN]
        /\ Flags("3F2R", TRUE) \in [mode : Modes \union {"own"}, lfe : BOOLEAN]
        /\ Own \in [mode : Modes \union {"own"}, lfe : BOOLEAN]
    BY ModesAre DEF Flags, Own
  <2> QED
    BY <1>1, <2>1, OpenIs DEF Stereo
<1>4. TypeOK
  BY <1>1, <1>2, <1>3 DEF TypeOK
<1>5. Fresh /\ Configured /\ Playing
  BY <1>1 DEF Fresh, Configured, Playing
<1>6. (NoFallThrough => AnnouncedFormat) /\ SameFrameAccepted
  BY <1>1 DEF AnnouncedFormat, SameFrameAccepted
<1> QED
  BY <1>4, <1>5, <1>6 DEF AInv

\* A frame arrives.
LEMMA SetupAInv ==
  ASSUME AInv, NEW f \in Frames, Setup(f) PROVE AInv'
<1>1. /\ left = 0 /\ frame' = f /\ kind \in Kinds
      /\ UNCHANGED <<kind, device, wrote, first>>
      /\ instance.set_params \in BOOLEAN /\ f.rate \in Nat
      /\ instance \in [set_params : BOOLEAN, sample_rate : Nat,
                       flags : [mode : Modes \union {"own"}, lfe : BOOLEAN],
                       speakers : SUBSET Speakers]
  BY DEF Setup, AInv, TypeOK
<1>2. ChannelsOf(Original)' = ChannelsOf(Original) /\ Original' = Original
  BY <1>1 DEF ChannelsOf, Original
<1>3. NoFallThrough => AnnouncedFormat'
  BY <1>1 DEF AInv, AnnouncedFormat
<1>4. CASE /\ ~instance.set_params /\ instance.sample_rate # f.rate
           /\ error' = "format" /\ UNCHANGED <<instance, flags, left>>
  <2>1. TypeOK' /\ Fresh' /\ Playing'
    BY <1>1, <1>4 DEF AInv, TypeOK, Fresh, Playing
  <2>2. Configured'
    BY <1>1, <1>2, <1>4 DEF AInv, Configured
  <2>3. SameFrameAccepted'
    BY <1>1, <1>4 DEF AInv, Configured, SameFrameAccepted
  <2> QED
    BY <1>3, <2>1, <2>2, <2>3 DEF AInv
<1>5. CASE /\ instance.set_params \/ instance.sample_rate = f.rate
           /\ instance' = [instance EXCEPT !.sample_rate = f.rate]
           /\ flags' = Grant(f, instance.flags)
           /\ left' = 6 /\ error' = "none"
  <2>1. /\ instance'.set_params = instance.set_params
        /\ instance'.flags = instance.flags /\ instance'.speakers = instance.speakers
        /\ instance'.sample_rate = f.rate
    BY <1>1, <1>5
  <2>2. TypeOK'
    BY <1>1, <1>5, <2>1 DEF AInv, TypeOK
  <2>3. Fresh'
    BY <1>1, <1>5, <2>1 DEF AInv, Fresh
  <2>4. Configured'
    BY <1>1, <1>2, <1>5, <2>1 DEF AInv, Configured
  <2>5. SameFrameAccepted'
    BY <1>5 DEF SameFrameAccepted
  <2>6. /\ kind \in Devices => instance.flags \in DeviceFlags
        /\ kind \in Files => instance.flags = Open[kind]
    BY <1>1, Drivers DEF AInv, TypeOK, Fresh, Configured, Devices, Files
  <2>7. Fits(flags)'
    <3>1. Fits(Grant(f, instance.flags))
      BY <1>1, <2>6, FitsGrant
    <3> QED
      BY <1>1, <1>5, <3>1 DEF Fits
  <2>8. ASSUME ~instance.set_params, Like(f, first)
        PROVE  Alike(flags', Original)
    <3>1. first \in Frames /\ kind \in Devices \union Files
      BY <1>1, <2>8, OpenIs DEF AInv, Configured
    <3>2. CASE kind \in Devices
      <4>1. Alike(instance.flags, Grant(first, Open[kind]))
        BY <2>8, <3>2 DEF AInv, Configured, Original
      <4> QED
        BY <1>5, <2>8, <3>1, <3>2, <4>1, GrantedAgain DEF Original
    <3>3. CASE kind \in Files
      BY <1>5, <2>6, <2>8, <3>1, <3>3, GrantedFile DEF Original
    <3> QED
      BY <3>1, <3>2, <3>3
  <2>9. Playing'
    BY <1>1, <1>2, <1>5, <2>1, <2>7, <2>8 DEF Playing
  <2> QED
    BY <1>3, <2>2, <2>3, <2>4, <2>5, <2>9 DEF AInv
<1> QED
  BY <1>1, <1>4, <1>5 DEF Setup, Grant, Asked

\* How the first block leaves the output, played or refused by the device.
LEMMA Begins ==
  ASSUME AInv, left > 0, instance.set_params, UNCHANGED <<kind, frame, flags>>,
         device' = [channels |-> ChannelsOf(flags), rate |-> instance.sample_rate,
                    speakers |-> speaker_flags(flags)],
         instance' \in [set_params : {FALSE}, sample_rate : {instance.sample_rate},
                        flags : {IF kind \in Devices THEN flags ELSE instance.flags},
                        speakers : SUBSET Speakers],
         kind \in DOMAIN wav_open => instance'.speakers = speaker_flags(flags),
         first' = frame,
         \/ /\ NoFallThrough => wrote' = Wrote(ChannelsOf(flags), flags)
            /\ left' = left - 1 /\ UNCHANGED error
         \/ wrote' = wrote /\ left' = 0 /\ error' = "device"
  PROVE  AInv'
<1>1. /\ kind \in Kinds /\ left \in 1..6 /\ left' \in 0..6
      /\ instance.sample_rate \in Nat /\ instance.flags = Open[kind]
      /\ instance.flags \in [mode : Modes \union {"own"}, lfe : BOOLEAN]
      /\ frame \in Frames /\ instance.sample_rate = frame.rate
      /\ Fits(flags) /\ flags = Grant(frame, Open[kind])
      /\ wrote = Nothing /\ error # "format"
  BY DEF AInv, TypeOK, Fresh, Playing
<1>2. /\ instance'.set_params = FALSE /\ instance'.sample_rate = frame.rate
      /\ instance'.flags = (IF kind \in Devices THEN flags ELSE instance.flags)
  BY <1>1
<1>3. Original' = flags /\ ChannelsOf(Original)' = ChannelsOf(flags) /\ error' # "format"
  BY <1>1 DEF Original, ChannelsOf
<1>4. TypeOK'
  <2>1. flags \in PlayFlags /\ (kind \in Devices => flags \in DeviceFlags)
    BY <1>1 DEF Fits
  <2>2. instance'.flags \in [mode : Modes \union {"own"}, lfe : BOOLEAN]
    BY <1>1, <1>2, <2>1 DEF PlayFlags
  <2> QED
    BY <1>1, <1>2, <2>1, <2>2 DEF TypeOK
<1>5. Fresh'
  BY <1>2 DEF Fresh
<1>6. Configured'
  BY <1>1, <1>2, <1>3 DEF Configured, Alike
<1>7. Playing'
  <2>1. Fits(flags)'
    BY <1>1 DEF Fits
  <2> QED
    BY <1>1, <1>2, <1>3, <2>1 DEF Playing, Alike
<1>8. NoFallThrough => AnnouncedFormat'
  BY <1>1 DEF AnnouncedFormat, Wrote
<1>9. SameFrameAccepted'
  BY <1>3 DEF SameFrameAccepted
<1> QED
  BY <1>4, <1>5, <1>6, <1>7, <1>8, <1>9 DEF AInv

\* How a later block leaves it: written for the speakers of the first one, or
\* refused, for its format only when the frame is not like the first.
LEMMA GoesOn ==
  ASSUME AInv, left > 0, ~instance.set_params, UNCHANGED <<kind, frame, flags, device, first>>,
         instance' \in [set_params : {FALSE}, sample_rate : {instance.sample_rate},
                        flags : {flags, instance.flags}, speakers : {instance.speakers}],
         kind \in Devices => Alike(instance'.flags, instance.flags),
         kind \in Files => instance'.flags = instance.flags,
         \/ /\ NoFallThrough => wrote' = Wrote(ChannelsOf(Original), Original)
            /\ left' = left - 1 /\ UNCHANGED error
         \/ wrote' = wrote /\ left' = 0 /\ error' = "device"
         \/ wrote' = wrote /\ left' = 0 /\ ~Alike(flags, Original)
  PROVE  AInv'
<1>1. /\ kind \in Kinds /\ left \in 1..6 /\ left' \in 0..6
      /\ instance.sample_rate \in Nat /\ instance.speakers \in SUBSET Speakers
      /\ instance.flags \in [mode : Modes \union {"own"}, lfe : BOOLEAN]
      /\ kind \in Devices => instance.flags \in DeviceFlags
      /\ first \in Frames /\ frame \in Frames
      /\ instance.sample_rate = first.rate /\ instance.sample_rate = frame.rate
      /\ Fits(flags)
      /\ Like(frame, first) => Alike(flags, Original)
  BY DEF AInv, TypeOK, Configured, Playing
<1>2. /\ instance'.set_params = FALSE /\ instance'.sample_rate = instance.sample_rate
      /\ instance'.flags \in {flags, instance.flags}
      /\ instance'.speakers = instance.speakers
  OBVIOUS
<1>3. Original' = Original /\ ChannelsOf(Original)' = ChannelsOf(Original)
  BY DEF Original, ChannelsOf
<1>4. kind \in Devices \union Files /\ (kind \in Files => kind \notin Devices)
  BY <1>1, OpenIs, Drivers DEF Devices, Files
<1>5. TypeOK'
  <2>1. flags \in PlayFlags /\ (kind \in Devices => flags \in DeviceFlags)
    BY <1>1 DEF Fits
  <2>2. instance'.flags \in [mode : Modes \union {"own"}, lfe : BOOLEAN]
    BY <1>1, <1>2, <2>1 DEF PlayFlags
  <2>3. kind \in Devices => instance'.flags \in DeviceFlags
    BY <1>1, <1>2, <2>1
  <2> QED
    BY <1>1, <1>2, <2>2, <2>3 DEF TypeOK
<1>6. Fresh'
  BY <1>2 DEF Fresh
<1>7. Configured'
  <2>1. kind \in Devices => Alike(instance'.flags, Original)
    BY <1>1 DEF AInv, Configured, Alike
  <2>2. kind \notin Devices => instance'.flags = Open[kind]
    BY <1>4 DEF AInv, Configured
  <2> QED
    BY <1>1, <1>2, <1>3, <2>1, <2>2 DEF AInv, Configured
<1>8. Playing'
  <2>1. Fits(flags)'
    BY <1>1 DEF Fits
  <2> QED
    BY <1>1, <1>2, <1>3, <2>1 DEF Playing, Like
<1>9. NoFallThrough => AnnouncedFormat'
  <2>1. device = [channels |-> ChannelsOf(Original), rate |-> first.rate,
                  speakers |-> speaker_flags(Original)]
    BY DEF AInv, Configured
  <2>2. CASE wrote' = wrote
    BY <2>2 DEF AInv, AnnouncedFormat
  <2>3. CASE wrote' = Wrote(ChannelsOf(Original), Original)
    <3>1. /\ wrote'.width = ChannelsOf(Original) /\ wrote'.rate = frame.rate
          /\ wrote'.speakers = speaker_flags(Original)
      BY <2>3, Zenon DEF Wrote
    <3>2. /\ device'.channels = ChannelsOf(Original) /\ device'.rate = first.rate
          /\ device'.speakers = speaker_flags(Original)
      BY <2>1
    <3> QED
      BY <1>1, <3>1, <3>2 DEF AnnouncedFormat
  <2> QED
    BY <2>2, <2>3 DEF AInv
<1>10. SameFrameAccepted'
  BY <1>1 DEF AInv, SameFrameAccepted, Like
<1> QED
  BY <1>5, <1>6, <1>7, <1>8, <1>9, <1>10 DEF AInv
------------------------------------------------------------------------------
\* A device that is configured, follows or is left alone.
LEMMA DeviceAInv ==
  ASSUME AInv, kind \in Devices, left > 0, UNCHANGED <<kind, frame, flags>>,
         \/ /\ Configure(ChannelsOf(flags)) \/ Follow
            /\ Write(ChannelsOf(flags)) \/ Refused("device")
         \/ /\ ~Accepted
            /\ Refused(IF instance.set_params THEN "device" ELSE "format")
            /\ UNCHANGED <<device, instance, first>>
  PROVE  AInv'
<1>1. /\ kind \notin Files
      /\ instance \in [set_params : BOOLEAN, sample_rate : Nat,
                       flags : [mode : Modes \union {"own"}, lfe : BOOLEAN],
                       speakers : SUBSET Speakers]
  BY Drivers DEF AInv, TypeOK, Devices, Files
<1>2. CASE /\ Configure(ChannelsOf(flags))
           /\ Write(ChannelsOf(flags)) \/ Refused("device")
  <2>1. /\ instance.set_params /\ first' = frame
        /\ device' = [channels |-> ChannelsOf(flags), rate |-> instance.sample_rate,
                      speakers |-> speaker_flags(flags)]
        /\ instance' = [instance EXCEPT !.set_params = FALSE, !.flags = flags]
    BY <1>2 DEF Configure
  <2>2. instance' \in [set_params : {FALSE}, sample_rate : {instance.sample_rate},
                       flags : {IF kind \in Devices THEN flags ELSE instance.flags},
                       speakers : SUBSET Speakers]
    BY <1>1, <2>1
  <2>3. \/ wrote' = Wrote(ChannelsOf(flags), flags) /\ left' = left - 1 /\ UNCHANGED error
        \/ wrote' = wrote /\ left' = 0 /\ error' = "device"
    BY <1>2 DEF Write, Refused, Wrote
  <2>4. kind \notin DOMAIN wav_open
    BY <1>1 DEF Files
  <2> QED
    BY <2>1, <2>2, <2>3, <2>4, Begins
<1>3. CASE Follow /\ (Write(ChannelsOf(flags)) \/ Refused("device"))
  <2>1. /\ ~instance.set_params /\ UNCHANGED <<device, first>>
        /\ Alike(flags, instance.flags)
        /\ instance' = [instance EXCEPT !.flags = flags]
    BY <1>3 DEF Follow, Accepted, Switches, Alike, Stereo
  <2>2. /\ instance' \in [set_params : {FALSE}, sample_rate : {instance.sample_rate},
                          flags : {flags, instance.flags}, speakers : {instance.speakers}]
        /\ instance'.flags = flags
    BY <1>1, <2>1
  <2>3. Alike(flags, Original)
    BY <2>1 DEF AInv, Configured, Alike
  <2>4. Write(ChannelsOf(flags)) => wrote' = Wrote(ChannelsOf(Original), Original)
    BY <2>3, AlikeSame DEF Write, Wrote
  <2> QED
    BY <1>1, <1>3, <2>1, <2>2, <2>4, GoesOn DEF Write, Refused
<1>4. CASE /\ ~Accepted /\ ~instance.set_params /\ Refused("format")
           /\ UNCHANGED <<device, instance, first>>
  <2>1. ~Alike(flags, instance.flags)
    BY <1>4 DEF Accepted, Switches, Alike, Stereo
  <2>2. ~Alike(flags, Original)
    BY <1>4, <2>1 DEF AInv, Configured, Alike
  <2>3. instance' \in [set_params : {FALSE}, sample_rate : {instance.sample_rate},
                       flags : {flags, instance.flags}, speakers : {instance.speakers}]
    BY <1>1, <1>4
  <2>4. Alike(instance'.flags, instance.flags)
    BY <1>4 DEF Alike
  <2> QED
    BY <1>1, <1>4, <2>2, <2>3, <2>4, GoesOn DEF Refused
<1>5. CASE /\ instance.set_params /\ Refused("device")
           /\ UNCHANGED <<device, instance, first>>
  <2>1. TypeOK' /\ Fresh'
    BY <1>5 DEF AInv, TypeOK, Fresh, Refused
  <2>2. Configured' /\ Playing'
    BY <1>5 DEF Configured, Playing, Refused
  <2>3. (NoFallThrough => AnnouncedFormat') /\ SameFrameAccepted'
    BY <1>5 DEF AInv, Fresh, AnnouncedFormat, SameFrameAccepted, Refused
  <2> QED
    BY <2>1, <2>2, <2>3 DEF AInv
<1> QED
  BY <1>1, <1>2, <1>3, <1>4, <1>5

LEMMA DevicesAInv ==
  ASSUME AInv, oss_play \/ al_play \/ solaris_play \/ win_play PROVE AInv'
<1>1. left > 0 => Fits(flags)
  BY DEF AInv, Playing
<1>2. CASE oss_play \/ al_play
  <2>1. /\ kind \in Devices /\ kind \in Multi /\ left > 0
        /\ DevicePlay(channels_multi(flags.mode, flags.lfe), MultiWidth(flags))
    BY <1>2 DEF oss_play, al_play, DevicePlay, Devices, Multi
  <2>2. /\ channels_multi(flags.mode, flags.lfe) = ChannelsOf(flags)
        /\ MultiWidth(flags) = ChannelsOf(flags)
    BY <1>1, <2>1, MultiWidthIs DEF ChannelsOf, Fits
  <2>3. DevicePlay(ChannelsOf(flags), ChannelsOf(flags))
    BY <2>1, <2>2
  <2> QED
    BY <2>1, <2>3, DeviceAInv DEF DevicePlay
<1>3. CASE solaris_play \/ win_play
  <2>1. kind \in Devices /\ kind \notin Multi /\ kind \notin DOMAIN wav_open
    BY <1>3, Drivers DEF solaris_play, win_play, Devices, Multi
  <2>2. ChannelsOf(flags) = 2
    BY <2>1 DEF ChannelsOf
  <2>3. \/ DevicePlay(2, 2)
        \/ /\ left > 0 /\ (Configure(2) \/ Follow)
           /\ Refused("device") /\ UNCHANGED <<kind, frame, flags>>
    BY <1>3 DEF solaris_play, win_play
  <2> QED
    BY <2>1, <2>2, <2>3, DeviceAInv DEF DevicePlay
<1> QED
  BY <1>2, <1>3

\* The speakers and channels of a file are those of its first frame.
LEMMA FilesAInv ==
  ASSUME AInv, wav_play \/ aif_play PROVE AInv'
<1>1. /\ kind \in Files /\ kind \notin Devices /\ kind \in Kinds /\ left > 0
      /\ (kind \in DOMAIN wav_open => kind \notin DOMAIN aif_open)
      /\ kind \notin Multi /\ Fits(flags)
      /\ UNCHANGED <<kind, frame, flags>>
      /\ instance \in [set_params : BOOLEAN, sample_rate : Nat,
                       flags : [mode : Modes \union {"own"}, lfe : BOOLEAN],
                       speakers : SUBSET Speakers]
  BY Drivers DEF wav_play, aif_play, AInv, TypeOK, Playing, Files, Devices, Multi
<1>2. ~instance.set_params => Fits(Original)
  BY <1>1, FitsGrant, Drivers DEF AInv, Configured, Original
<1>3. speaker_flags(flags) \in SUBSET Speakers
  BY <1>1, ModesAre DEF Fits, PlayFlags, speaker_flags, speaker_tbl, Speakers
<1>4. CASE wav_play
  <2>1. kind \in DOMAIN wav_open
    BY <1>4 DEF wav_play
  <2>2. \A fl : Fits(fl) => /\ ChannelsOf(fl) = wav_channels(fl) /\ fl \in PlayFlags
                            /\ NoFallThrough => WavWidth(fl) = wav_channels(fl)
    BY <1>1, <2>1, WavWidthIs DEF Fits, ChannelsOf
  <2>3. CASE /\ instance.set_params
             /\ device' = [channels |-> wav_channels(flags), rate |-> instance.sample_rate,
                           speakers |-> speaker_flags(flags)]
             /\ instance' = [instance EXCEPT !.set_params = FALSE,
                                             !.speakers = speaker_flags(flags)]
             /\ first' = frame
             /\ Write(WavWidth(flags))
    <3>1. /\ instance' \in [set_params : {FALSE}, sample_rate : {instance.sample_rate},
                            flags : {IF kind \in Devices THEN flags ELSE instance.flags},
                            speakers : SUBSET Speakers]
          /\ instance'.speakers = speaker_flags(flags)
      BY <1>1, <1>3, <2>3
    <3>2. /\ NoFallThrough => wrote' = Wrote(ChannelsOf(flags), flags)
          /\ left' = left - 1 /\ UNCHANGED error
      BY <1>1, <2>2, <2>3 DEF Write, Wrote
    <3> QED
      BY <1>1, <2>2, <2>3, <3>1, <3>2, Begins
  <2>4. CASE /\ ~instance.set_params
             /\ IF speaker_flags(flags) = instance.speakers
                THEN Write(WavWidth(flags)) ELSE Refused("format")
             /\ UNCHANGED <<instance, device, first>>
    <3>1. instance.speakers = speaker_flags(Original)
      BY <2>1, <2>4 DEF AInv, Configured
    <3>2. instance' \in [set_params : {FALSE}, sample_rate : {instance.sample_rate},
                         flags : {flags, instance.flags}, speakers : {instance.speakers}]
      BY <1>1, <2>4
    <3>3. CASE speaker_flags(flags) = instance.speakers
      <4>1. NoFallThrough => WavWidth(flags) = ChannelsOf(Original)
        BY <1>1, <1>2, <2>2, <2>4, <3>1, <3>3, SpeakersCount
      <4>2. /\ NoFallThrough => wrote' = Wrote(ChannelsOf(Original), Original)
            /\ left' = left - 1 /\ UNCHANGED error
        BY <2>4, <3>1, <3>3, <4>1 DEF Write, Wrote
      <4> QED
        BY <1>1, <2>4, <3>2, <4>2, GoesOn
    <3>4. CASE speaker_flags(flags) # instance.speakers
      <4>1. ~Alike(flags, Original)
        BY <3>1, <3>4, AlikeSame
      <4> QED
        BY <1>1, <2>4, <3>2, <3>4, <4>1, GoesOn DEF Refused
    <3> QED
      BY <3>3, <3>4
  <2> QED
    BY <1>4, <2>3, <2>4 DEF wav_play
<1>5. CASE aif_play
  <2>1. kind \in DOMAIN aif_open /\ kind \notin DOMAIN wav_open /\ Write(2)
    BY <1>1, <1>5 DEF aif_play
  <2>2. \A fl : Fits(fl) => ChannelsOf(fl) = 2 /\ speaker_flags(fl) = {"FL", "FR"}
    BY <1>1, <2>1 DEF Fits, ChannelsOf, speaker_flags, speaker_tbl, TwoModes
  <2>3. CASE instance.set_params
    <3>1. /\ device' = [channels |-> ChannelsOf(flags), rate |-> instance.sample_rate,
                        speakers |-> speaker_flags(flags)]
          /\ instance' = [instance EXCEPT !.set_params = FALSE]
          /\ first' = frame
      BY <1>1, <1>5, <2>2, <2>3 DEF aif_play
    <3>2. instance' \in [set_params : {FALSE}, sample_rate : {instance.sample_rate},
                         flags : {IF kind \in Devices THEN flags ELSE instance.flags},
                         speakers : SUBSET Speakers]
      BY <1>1, <3>1
    <3>3. wrote' = Wrote(ChannelsOf(flags), flags) /\ left' = left - 1 /\ UNCHANGED error
      BY <1>1, <2>1, <2>2 DEF Write, Wrote
    <3> QED
      BY <1>1, <2>1, <2>3, <3>1, <3>2, <3>3, Begins
  <2>4. CASE ~instance.set_params
    <3>1. UNCHANGED <<instance, device, first>>
      BY <1>5, <2>4 DEF aif_play
    <3>2. instance' \in [set_params : {FALSE}, sample_rate : {instance.sample_rate},
                         flags : {flags, instance.flags}, speakers : {instance.speakers}]
      BY <1>1, <2>4, <3>1
    <3>3. wrote' = Wrote(ChannelsOf(Original), Original)
          /\ left' = left - 1 /\ UNCHANGED error
      BY <1>1, <1>2, <2>1, <2>2, <2>4 DEF Write, Wrote
    <3> QED
      BY <1>1, <2>4, <3>1, <3>2, <3>3, GoesOn
  <2> QED
    BY <2>3, <2>4
<1> QED
  BY <1>4, <1>5

LEMMA NextAInv == ASSUME AInv, [Next]_vars PROVE AInv'
<1>1. CASE UNCHANGED vars
  BY <1>1 DEF vars, AInv, TypeOK, Fresh, Configured, Playing, AnnouncedFormat,
     SameFrameAccepted, Original, ChannelsOf, Fits
<1>2. CASE Next
  BY <1>2, SetupAInv, DevicesAInv, FilesAInv DEF Next
<1> QED
  BY <1>1, <1>2

\* Every block goes out in the format the output announced with the first: with
\* as many samples per time, at the rate and for the speakers that oss_play,
\* al_play, solaris_play and win_play configured, or that wav_play and aif_play
\* wrote to the header, for any drivers and any frames, in any order.  The
\* frames excluded are those convert2s16_wav falls through with: 2F1R with a low
\* frequency channel, in a file that takes the mode of the stream.
THEOREM OutputAsAnnounced == ASSUME NoFallThrough PROVE Spec => []AnnouncedFormat
<1>1. Init => AInv
  BY InitAInv
<1>2. AInv /\ [Next]_vars => AInv'
  BY NextAInv
<1>3. AInv => AnnouncedFormat
  BY DEF AInv
<1> QED
  BY <1>1, <1>2, <1>3, PTL DEF Spec

\* A frame of the mode and rate of the first one played is never refused for
\* its format, whatever was played between them: the instance asks for what it
\* was granted, a52_frame grants that again, and a device that went from stereo
\* to Dolby Surround goes back.
THEOREM SameFramesAccepted == Spec => []SameFrameAccepted
<1>1. Init => AInv
  BY InitAInv
<1>2. AInv /\ [Next]_vars => AInv'
  BY NextAInv
<1>3. AInv => SameFrameAccepted
  BY DEF AInv
<1> QED
  BY <1>1, <1>2, <1>3, PTL DEF Spec
==============================================================================
