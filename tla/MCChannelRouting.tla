--------------------------- MODULE MCChannelRouting ---------------------------
(***************************************************************************)
(* Every mode with its mixing levels, with and without LFE, on the players *)
(* that can be asked to play it.                                           *)
(***************************************************************************)
EXTENDS ChannelRouting

CentreOf(m) == IF m \in {"3F", "3F1R", "3F2R"} THEN CentreLevels ELSE {Mute}
RearOf(m) == IF m \in {"2F1R", "3F1R", "2F2R", "3F2R"} THEN SurroundLevels ELSE {Mute}

Acm(m, lfe) ==
  LET n == Channels(m) + (IF lfe THEN 1 ELSE 0)
  IN  [kind : {"acm"}, dst : {1, 2, n}, dolby : BOOLEAN, mmx : BOOLEAN]
Driver(names) == [kind : names, dst : {0}, dolby : {FALSE}, mmx : {FALSE}]

AllStreams ==
  UNION {[input : {m}, lfe : {lfe}, clev : CentreOf(m), slev : RearOf(m),
          player : Acm(m, lfe) \union
                   Driver({"oss", "oss4", "oss6", "aif", "wavdolby", "wav6"})]
         : m \in Modes \ {"CHANNEL1", "CHANNEL2"}, lfe \in BOOLEAN}

\* The streams that come out wrong.
Two(st) == \/ st.player.kind \in {"oss", "aif"}
           \/ st.player.kind = "acm" /\ ~st.player.dolby /\ st.player.dst = 2
NoBias(st)   == st.input \in {"2F1R", "2F2R"} /\ st.slev = Mute /\ Two(st)
DolbyLfe(st) == st.input = "DOLBY" /\ st.lfe /\ st.player.kind = "acm" /\ st.player.dst = 2
Wav6Rear(st) == st.input = "2F1R" /\ st.lfe /\ st.player.kind = "wav6"
Oss5(st)     == st.player.kind = "oss6" /\ ~st.lfe /\ st.input \in {"3F1R", "3F2R"}
Flaws(st)    == NoBias(st) \/ DolbyLfe(st) \/ Wav6Rear(st) \/ Oss5(st)

GoodStreams == {st \in AllStreams : ~Flaws(st)}
==============================================================================
