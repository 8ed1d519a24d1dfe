------------------------------ MODULE MCAudioOut ------------------------------
(***************************************************************************)
(* Frames of every kind of mode at two rates, on a driver of each kind.    *)
(***************************************************************************)
EXTENDS AudioOut

SomeKinds == {"oss", "ossdolby", "oss4", "oss6", "al6", "solaris", "win",
              "wav", "wav6", "aif"}

Mode(m, clevs) == [mode : {m}, lfe : BOOLEAN, clev : clevs, rate : {44100, 48000}]
SomeFrames ==
  Mode("CHANNEL", {Mute}) \union Mode("MONO", {Mute}) \union Mode("STEREO", {Mute})
  \union Mode("DOLBY", {Mute}) \union Mode("3F", {LEVEL_3DB, LEVEL_45DB})
  \union {f \in Mode("2F1R", {Mute}) : ~f.lfe}
  \union Mode("2F2R", {Mute}) \union Mode("3F2R", {LEVEL_3DB})
==============================================================================
