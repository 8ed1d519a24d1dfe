------------------------------ MODULE MCAC3Driver -----------------------------
(***************************************************************************)
(* Small instances of AC3Driver: stereo and six-channel formats of both     *)
(* kinds, plain and extensible, a low sampling rate, and bit rates that    *)
(* are in the table and that are not.                                      *)
(***************************************************************************)
EXTENDS AC3Driver, TLC

Format(tag, sub, ch, rate, kbps) ==
  [tag |-> tag, sub |-> sub, ch |-> ch, rate |-> rate, kbps |-> kbps]

MCBitrates == {32, 40, 48, 56, 64, 80, 96, 112, 128, 160, 192, 224, 256, 320,
               384, 448, 512, 576, 640}

MCFormats == {Format("PCM", "none", 6, 48000, 0),
              Format("EXTENSIBLE", "PCM", 6, 48000, 0),
              Format("AC3", "none", 6, 48000, 640),
              Format("AC3", "none", 6, 48000, 448),
              Format("EXTENSIBLE", "AC3", 6, 48000, 448),
              Format("PCM", "none", 2, 24000, 0),
              Format("AC3", "none", 2, 24000, 640)}

MCSettings == {{}, {"MULTICHANNEL"}, {"MULTICHANNEL", "NOEXTENSIBLE"}}

\* Streams are alike, and so are addresses.
Alike == Permutations(Streams) \union Permutations(Blocks)
==============================================================================
