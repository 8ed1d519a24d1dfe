---------------------------- MODULE MCDecodeStream ---------------------------
(***************************************************************************)
(* Small instances of DecodeStream.  The window of 128 bytes is scaled to  *)
(* 6, the eight header bytes to 4, frames of 128..3840 bytes to 6..14, and  *)
(* a block's PCM to 2; a frame keeps its six blocks.                       *)
(***************************************************************************)
EXTENDS DecodeStream

Hdr(size, used, mode) == [size |-> size, used |-> used, mode |-> mode]

ShortHdr  == Hdr(6, 6, "STEREO")
LongHdr   == Hdr(8, 8, "MULTI")
DolbyHdr  == Hdr(8, 8, "DOLBY")
PaddedHdr == Hdr(14, 6, "MULTI")  \* a quiet frame, filled up to its size
MCHeaders == {ShortHdr, LongHdr, DolbyHdr, PaddedHdr}

\* A frame; its payload imitates the start of a frame.
Frame(h) ==
  <<SYNC, DATA, h>> \o
  [i \in 1..(h.size - 3) |-> IF i % 2 = 0 THEN SYNC ELSE DATA]

Junk(n) == [i \in 1..n |-> DATA]

\* Streams of frames of one size, nothing before or between them.
AlignedInputs == {Frame(LongHdr) \o Frame(DolbyHdr) \o Frame(LongHdr),
                  Frame(ShortHdr) \o Frame(ShortHdr)}

\* Streams whose frames need less than their size.
PaddedInputs == {Frame(PaddedHdr) \o Frame(PaddedHdr)}

\* Streams entered in the middle of a frame, and cut short in the next.
DirtyInputs == {Junk(1) \o Frame(ShortHdr) \o <<SYNC, DATA>>,
                Junk(4) \o Frame(ShortHdr),
                Junk(2) \o Frame(LongHdr)}
==============================================================================
