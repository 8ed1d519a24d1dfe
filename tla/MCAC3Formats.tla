----------------------------- MODULE MCAC3Formats -----------------------------
(***************************************************************************)
(* An instance of AC3Formats.  For the formats: all listed ones as sources, *)
(* and to convert to, those of PCM and of three bit rates.  For buffers:    *)
(* decoding from every bit rate at every sampling rate, encoding to three   *)
(* bit rates of each, and buffers around a block, a frame and two.          *)
(***************************************************************************)
EXTENDS AC3Formats

MCSettings == {{}, {"MULTICHANNEL", "USE64"}, {"MULTICHANNEL", "NOEXTENSIBLE"}}

MCSources ==
  ({"PCM"} \X (0..17)) \union ({"AC3"} \X (0..341)) \union ({"EXTENSIBLE"} \X (0..40))

MCDestinations ==
  ({"PCM"} \X (0..17)) \union ({"EXTENSIBLE"} \X (0..18))
    \union ({"AC3"} \X {i \in 0..341 : i % 19 \in {0, 6, 18}})

MCWishes ==
  [tag : {"none", "PCM", "AC3", "EXTENSIBLE"}, ch : {0, 2, 5, 6}, rate : {0, 48000},
   large : BOOLEAN]

MCBuffers == {<<1, -1>>, <<1, 0>>, <<5, 0>>, <<6, -1>>, <<6, 0>>, <<12, 1>>}

\* Buffers matter by the lengths of frames and blocks only: TLC goes on with them for
\* the listed stereo formats, and the default settings.
ConvertsInStereo ==
  size # <<>> \/ calls > 0 =>
    /\ dwFlags = {} /\ wish = <<>> /\ src.ch = 2 /\ dst.ch = 2
    /\ {src.tag, dst.tag} = {"PCM", "AC3"}
==============================================================================
