---------------------------- MODULE DecodeStream -----------------------------
(***************************************************************************)
(* stream_convert_ac3 of AC3ACM.cpp: one open AC-3 to PCM conversion       *)
(* stream, driven by a client that hands it the input in source buffers of *)
(* any size and takes the PCM in destination buffers of any size.          *)
(*                                                                         *)
(* A byte is abstracted to what a52_syncinfo tells apart: SYNC, a header   *)
(* code (an element of Headers, standing for the bytes that give the size  *)
(* and the speaker mode), or DATA.  msd->buf holds for every byte its      *)
(* position in the input (0 for a byte never written), so that the model   *)
(* can say where each byte the decoder reads came from.  Pointers into     *)
(* msd->buf are offsets from it.                                           *)
(***************************************************************************)
EXTENDS Integers, Sequences

CONSTANTS
  Window,         \* 128: what is collected before a sync word is sought
  Lookahead,      \* 8: what must be buffered to look at a header
  BufSize,        \* 4096: bytes allocated for msd->buf
  BlocksPerFrame, \* 6
  Stride,         \* 512 * nChannels: the PCM bytes of one block
  Headers,        \* the valid headers: [size, used, mode]
  SYNC, DATA,     \* the two other kinds of byte
  NSrc, NDst,     \* channels of the source and of the destination format
  Inputs,         \* the inputs a client may have
  SrcSizes,       \* the source buffer sizes a client uses
  DstSizes        \* the destination buffer sizes a client uses

Modes == {"MULTI", "MONO", "STEREO", "DOLBY"}

ASSUME WindowAssumption ==
  /\ Window \in Nat /\ Lookahead \in Nat /\ BufSize \in Nat
  /\ 2 <= Lookahead /\ Lookahead < Window /\ Window < BufSize
ASSUME HeadersAssumption ==
  /\ Headers \subseteq [size : Nat, used : Nat, mode : Modes]
  /\ \A h \in Headers :
       /\ h.size >= Window /\ h.used <= h.size
       /\ Window - Lookahead + h.size < BufSize
  /\ SYNC \notin Headers /\ DATA \notin Headers /\ SYNC # DATA
ASSUME BlockAssumption ==
  BlocksPerFrame \in Nat \ {0, 1} /\ Stride \in Nat \ {0}
ASSUME ClientAssumption ==
  /\ Inputs \subseteq Seq(Headers \union {SYNC, DATA})
  /\ SrcSizes \subseteq Nat /\ DstSizes \subseteq Nat
  /\ NSrc \in 1..6 /\ NDst \in 1..6

VARIABLES
  input,            \* the client's input
  fed,              \* bytes of it the stream has taken (sum of cbSrcLengthUsed)
  pc,               \* where stream_convert_ac3 is; "idle" between two calls
  buf,              \* msd->buf: [0..BufSize-1 -> position in input, or 0]
  bufptr, bufend,   \* msd->bufptr, msd->bufend
  blocks,           \* msd->blocks: blocks of the current frame still to decode
  flags,            \* msd->flags: the speaker mode handed to msd->convert
  a52,              \* msd->a52state: the frame a52_frame was given
  cbSrcLength, cbSrcLengthUsed, cbDstLengthUsed, \* of the call's header
  cbDstLength,
  dstLen,           \* room left in the destination; negative once refused
  fs,               \* the local fs
  dolbySurround,    \* md->dwFlags & AC3ACM_DOLBYSURROUND
  out               \* history: the blocks delivered since the last START

msd  == <<buf, bufptr, bufend, blocks, flags, a52>>
call == <<cbSrcLength, cbSrcLengthUsed, cbDstLength, cbDstLengthUsed, dstLen>>
vars == <<input, fed, pc, msd, call, fs, dolbySurround, out>>

srcLen == cbSrcLength - cbSrcLengthUsed

\* The last byte a52_syncinfo looks at (buf[6] of eight) decides the header.
CodeOffset == Lookahead - 2
Byte(k) == IF buf[k] = 0 THEN DATA ELSE input[buf[k]]

\* a52_syncinfo: a header is found at offset k of msd->buf.
a52_syncinfo(k) == Byte(k) = SYNC /\ Byte(k + CodeOffset) \in Headers
Header(k) == Byte(k + CodeOffset)

\* The speaker mode requested for a frame of mode m.
OutputMode(m) ==
  CASE NDst = NSrc -> m
    [] NDst < NSrc /\ NDst = 1 -> "MONO"
    [] NDst < NSrc /\ NDst # 1 -> IF m = "DOLBY" \/ dolbySurround
                                  THEN "DOLBY" ELSE "STEREO"
    [] OTHER -> "STEREO"

\* The bytes of a frame that block b (1, 2, ...) is read from: a52_block takes
\* them from msd->buf only when the block is decoded.  The stream itself says
\* where a block ends; even shares of the used bytes stand for it, and what
\* is left of the frame is padding.
BlockBytes(used, b) ==
  {k \in 0..(used - 1) : /\ k * BlocksPerFrame >= (b - 1) * used
                         /\ k * BlocksPerFrame < b * used}

\* Mutant: the mode is settled anew when a block is converted.
DecodedBlockLateFlags(n) ==
  LET b == BlocksPerFrame + 1 - n IN
  [start  |-> a52.start, blk |-> b, mode |-> OutputMode(flags),
   intact |-> \A k \in BlockBytes(a52.used, b) :
                buf[a52.base + k] = a52.start + k]

\* The block a52_block decodes, and msd->convert converts, when n blocks of
\* the frame are left.
DecodedBlock(n) ==
  LET b == BlocksPerFrame + 1 - n IN
  [start  |-> a52.start,
   blk    |-> b,
   mode   |-> flags,
   intact |-> \A k \in BlockBytes(a52.used, b) :
                buf[a52.base + k] = a52.start + k]
------------------------------------------------------------------------------
Init ==
  /\ input \in Inputs
  /\ fed = 0
  /\ pc = "idle"
  /\ buf = [k \in 0..(BufSize - 1) |-> 0]
  /\ bufptr = 0 /\ bufend = 0 /\ blocks = 0
  /\ flags = "MULTI"
  /\ a52 = [start |-> 0, used |-> 0, base |-> 0]
  /\ cbSrcLength = 0 /\ cbSrcLengthUsed = 0
  /\ cbDstLength = 0 /\ cbDstLengthUsed = 0 /\ dstLen = 0
  /\ fs = 0
  /\ dolbySurround \in BOOLEAN
  /\ out = <<>>

\* The client converts its next n bytes into a buffer of d bytes.
Enter(n, d) ==
  /\ pc = "idle"
  /\ cbSrcLength' = n /\ cbSrcLengthUsed' = 0
  /\ cbDstLength' = d /\ cbDstLengthUsed' = 0 /\ dstLen' = d

\* Mutant: left-over blocks are forgotten.
ConvertForgetsLeftover(n, d) ==
  /\ fed + n <= Len(input)
  /\ Enter(n, d)
  /\ pc' = "top"
  /\ UNCHANGED <<input, fed, msd, fs, dolbySurround, out>>

\* ACMDM_STREAM_CONVERT without START: left-over blocks come first.
Convert(n, d) ==
  /\ fed + n <= Len(input)
  /\ Enter(n, d)
  /\ pc' = IF blocks > 0 THEN "leftover" ELSE "top"
  /\ UNCHANGED <<input, fed, msd, fs, dolbySurround, out>>

\* Mutant: START leaves the pending blocks.
ConvertStartKeepsBlocks(n, d) ==
  /\ n <= Len(input)
  /\ Enter(n, d)
  /\ fed' = 0 /\ out' = <<>> /\ bufptr' = 0 /\ bufend' = 0
  /\ pc' = "top"
  /\ UNCHANGED <<input, buf, blocks, flags, a52, fs, dolbySurround>>

\* ... with ACM_STREAMCONVERTF_START: the client begins its input again.
ConvertStart(n, d) ==
  /\ n <= Len(input)
  /\ Enter(n, d)
  /\ fed' = 0 /\ out' = <<>>
  /\ bufptr' = 0 /\ bufend' = 0 /\ blocks' = 0
  /\ pc' = "top"
  /\ UNCHANGED <<input, buf, flags, a52, fs, dolbySurround>>

\* if ((dstLen -= sr) < 0) goto Abort;
OutOfSpace ==
  /\ dstLen - Stride < 0
  /\ dstLen' = dstLen - Stride
  /\ pc' = "idle"
  /\ UNCHANGED <<blocks, cbDstLengthUsed, out>>

\* Mutant: any room at all is taken for enough.
DeliverBlockUnchecked ==
  /\ dstLen > 0
  /\ dstLen' = dstLen - Stride
  /\ cbDstLengthUsed' = cbDstLengthUsed + Stride
  /\ out' = Append(out, DecodedBlock(blocks))
  /\ blocks' = blocks - 1

\* One block is decoded and converted into the destination.
DeliverBlock ==
  /\ dstLen - Stride >= 0
  /\ dstLen' = dstLen - Stride
  /\ cbDstLengthUsed' = cbDstLengthUsed + Stride
  /\ out' = Append(out, DecodedBlock(blocks))
  /\ blocks' = blocks - 1

\* One iteration of the do-while over the blocks left by the last call.
Leftover ==
  /\ pc = "leftover"
  /\ \/ OutOfSpace
     \/ DeliverBlock /\ pc' = IF blocks = 1 THEN "top" ELSE pc
  /\ UNCHANGED <<input, fed, buf, bufptr, bufend, flags, a52,
                 cbSrcLength, cbSrcLengthUsed, cbDstLength, fs, dolbySurround>>

\* The head of the outer loop.
Top ==
  /\ pc = "top"
  /\ IF bufend - bufptr >= Lookahead
     THEN pc' = "scan" /\ fs' = fs
     ELSE pc' = "fetch" /\ fs' = Window - bufend
  /\ UNCHANGED <<input, fed, msd, call, dolbySurround, out>>

\* Mutant: what is buffered already is asked for again.
ScanPartialWhole ==
  /\ a52_syncinfo(bufptr)
  /\ bufend - bufptr < Header(bufptr).size
  /\ fs' = Header(bufptr).size
  /\ pc' = "fetch"
  /\ UNCHANGED msd

\* A header, but not yet the whole frame.
ScanPartial ==
  /\ a52_syncinfo(bufptr)
  /\ bufend - bufptr < Header(bufptr).size
  /\ fs' = Header(bufptr).size - (bufend - bufptr)
  /\ pc' = "fetch"
  /\ UNCHANGED msd

\* Mutant: a small source leaves all blocks but one for later.
ScanFrameKeepsMore ==
  /\ a52_syncinfo(bufptr)
  /\ bufend - bufptr >= Header(bufptr).size
  /\ flags' = OutputMode(Header(bufptr).mode)
  /\ a52' = [start |-> buf[bufptr], used |-> Header(bufptr).used,
             base |-> bufptr]
  /\ bufptr' = 0 /\ bufend' = 0
  /\ blocks' = BlocksPerFrame
  /\ fs' = IF cbSrcLength * 2 - cbSrcLengthUsed < Header(bufptr).size
           THEN BlocksPerFrame - 1 ELSE 0
  /\ pc' = "decode"
  /\ UNCHANGED buf

\* The whole frame: a52_frame begins it and the buffer is emptied, though
\* the decoder goes on reading the frame's bytes from it.
ScanFrame ==
  /\ a52_syncinfo(bufptr)
  /\ bufend - bufptr >= Header(bufptr).size
  /\ flags' = OutputMode(Header(bufptr).mode)
  /\ a52' = [start |-> buf[bufptr], used |-> Header(bufptr).used,
             base |-> bufptr]
  /\ bufptr' = 0 /\ bufend' = 0
  /\ blocks' = BlocksPerFrame
  /\ fs' = IF cbSrcLength * 2 - cbSrcLengthUsed < Header(bufptr).size
           THEN 1 ELSE 0
  /\ pc' = "decode"
  /\ UNCHANGED buf

\* No header here: try one byte further while enough bytes are left.
ScanNext ==
  /\ ~a52_syncinfo(bufptr)
  /\ bufend - bufptr - 1 >= Lookahead
  /\ bufptr' = bufptr + 1
  /\ UNCHANGED <<buf, bufend, blocks, flags, a52, fs, pc>>

\* Mutants: the pointers do not follow the bytes that move, or no more bytes
\* are asked for.
ScanLostInPlace ==
  /\ ~a52_syncinfo(bufptr)
  /\ bufend - bufptr - 1 < Lookahead
  /\ bufptr' = bufptr + 1
  /\ fs' = Window - bufend
  /\ pc' = "fetch"
  /\ UNCHANGED <<buf, bufend, blocks, flags, a52>>
ScanLostNoMore ==
  /\ ~a52_syncinfo(bufptr)
  /\ bufend - bufptr - 1 < Lookahead
  /\ buf' = [k \in DOMAIN buf |->
               IF k < Lookahead THEN buf[bufptr + 1 + k] ELSE buf[k]]
  /\ bufptr' = 0 /\ bufend' = Lookahead
  /\ fs' = 0
  /\ pc' = "fetch"
  /\ UNCHANGED <<blocks, flags, a52>>

\* No header in the window: the last bytes move to the front of the buffer.
ScanLost ==
  /\ ~a52_syncinfo(bufptr)
  /\ bufend - bufptr - 1 < Lookahead
  /\ buf' = [k \in DOMAIN buf |->
               IF k < Lookahead THEN buf[bufptr + 1 + k] ELSE buf[k]]
  /\ bufptr' = 0 /\ bufend' = Lookahead
  /\ fs' = Window - Lookahead
  /\ pc' = "fetch"
  /\ UNCHANGED <<blocks, flags, a52>>

Scan ==
  /\ pc = "scan"
  /\ ScanPartial \/ ScanFrame \/ ScanNext \/ ScanLost
  /\ UNCHANGED <<input, fed, call, dolbySurround, out>>

\* One iteration of the loop that decodes a frame's blocks; fs = 1 keeps the
\* last of them for the next call.
Decode ==
  /\ pc = "decode"
  /\ \/ /\ blocks > fs
        /\ OutOfSpace \/ (DeliverBlock /\ pc' = pc)
        /\ UNCHANGED fs
     \/ /\ blocks <= fs
        /\ fs' = Window /\ pc' = "fetch"
        /\ UNCHANGED <<blocks, dstLen, cbDstLengthUsed, out>>
  /\ UNCHANGED <<input, fed, buf, bufptr, bufend, flags, a52,
                 cbSrcLength, cbSrcLengthUsed, cbDstLength, dolbySurround>>

\* Mutant: a source that does not hold all that is asked for is left alone.
FetchAllOrNothing ==
  /\ pc = "fetch"
  /\ IF srcLen < fs \/ srcLen = 0
     THEN /\ pc' = "idle"
          /\ UNCHANGED <<fed, buf, bufend, cbSrcLengthUsed>>
     ELSE /\ buf' = [k \in DOMAIN buf |->
                       IF k \in bufend..(bufend + fs - 1)
                       THEN fed + 1 + k - bufend ELSE buf[k]]
          /\ bufend' = bufend + fs
          /\ cbSrcLengthUsed' = cbSrcLengthUsed + fs
          /\ fed' = fed + fs
          /\ pc' = "top"
  /\ UNCHANGED <<input, bufptr, blocks, flags, a52, cbSrcLength, cbDstLength,
                 cbDstLengthUsed, dstLen, fs, dolbySurround, out>>

\* The tail of the outer loop: up to fs bytes of the source are appended.
Fetch ==
  /\ pc = "fetch"
  /\ IF srcLen <= 0
     THEN /\ pc' = "idle"
          /\ UNCHANGED <<fed, buf, bufend, cbSrcLengthUsed>>
     ELSE LET n == IF fs > srcLen THEN srcLen ELSE fs IN
          /\ buf' = [k \in DOMAIN buf |->
                       IF k \in bufend..(bufend + n - 1)
                       THEN fed + 1 + k - bufend ELSE buf[k]]
          /\ bufend' = bufend + n
          /\ cbSrcLengthUsed' = cbSrcLengthUsed + n
          /\ fed' = fed + n
          /\ pc' = "top"
  /\ UNCHANGED <<input, bufptr, blocks, flags, a52, cbSrcLength, cbDstLength,
                 cbDstLengthUsed, dstLen, fs, dolbySurround, out>>

\* The configuration dialog stores a new AC3ACM_DOLBYSURROUND at any time.
Configure ==
  /\ NDst < NSrc
  /\ dolbySurround' = ~dolbySurround
  /\ UNCHANGED <<input, fed, pc, msd, call, fs, out>>

Step == Leftover \/ Top \/ Scan \/ Decode \/ Fetch

Next ==
  \/ \E n \in SrcSizes, d \in DstSizes : Convert(n, d) \/ ConvertStart(n, d)
  \/ Step
  \/ Configure

Spec == Init /\ [][Next]_vars

\* The code of a call runs to its end.
FairSpec == Spec /\ WF_vars(Step)

\* The client, whenever it is its turn often enough, offers room for a block
\* and more of its input, or the last call with nothing left to convert.
Feed ==
  \E n \in SrcSizes, d \in DstSizes :
    /\ d >= Stride
    /\ n > 0 \/ fed = Len(input)
    /\ Convert(n, d)

LiveSpec == FairSpec /\ SF_vars(Feed)
------------------------------------------------------------------------------
\* Every variable keeps its type.
TypeOK ==
  /\ input \in Inputs
  /\ fed \in Nat /\ fed <= Len(input)
  /\ pc \in {"idle", "leftover", "top", "scan", "decode", "fetch"}
  /\ buf \in [0..(BufSize - 1) -> 0..Len(input)]
  /\ bufptr \in 0..BufSize /\ bufend \in 0..BufSize
  /\ blocks \in 0..BlocksPerFrame
  /\ flags \in Modes
  /\ a52 \in [start : 0..Len(input), used : Nat, base : 0..BufSize]
  /\ cbSrcLength \in Nat /\ cbSrcLengthUsed \in Nat
  /\ cbDstLength \in Nat /\ cbDstLengthUsed \in Nat /\ dstLen \in Int
  /\ fs \in Int
  /\ dolbySurround \in BOOLEAN
  /\ out \in Seq([start : 0..Len(input), blk : 1..BlocksPerFrame,
                  mode : Modes, intact : BOOLEAN])

\* No copy leaves msd->buf, whatever bytes arrive in whatever portions: the
\* memcpy of the source at its tail, and the move of the window's last bytes
\* to its front, which reads one byte past bufend.  Room asked for is never
\* negative, so each pass of the loop that copies takes at least a byte.
BufferSafe ==
  /\ bufptr <= bufend
  /\ pc = "fetch" => fs > 0 /\ bufend + fs <= BufSize
  /\ pc = "scan" => bufptr + Lookahead < BufSize

\* When a frame is complete the buffer ends with it: emptying the buffer
\* drops no byte of the frame that follows.
FrameFillsBuffer ==
  pc = "scan" /\ a52_syncinfo(bufptr) =>
    bufend - bufptr <= Header(bufptr).size

\* a52_frame is never given a new frame while blocks of the last one have
\* still to be decoded: six blocks come out of every frame.
NoBlockDropped ==
  pc = "scan" /\ a52_syncinfo(bufptr)
              /\ bufend - bufptr >= Header(bufptr).size
    => blocks = 0

\* Every block is decoded from its frame's bytes, although a52_block reads
\* them late, when the buffer is in use again.
BlocksIntact == \A i \in DOMAIN out : out[i].intact

\* All blocks of a frame are converted for one speaker mode, whatever the
\* configuration dialog stores between them.
OneModePerFrame ==
  \A i \in 2..Len(out) : out[i].blk > 1 => out[i].mode = out[i - 1].mode

\* A call never writes more than the destination holds, and it returns only
\* when the source is used up, or when a block that is still due finds no
\* room: there is then something left for the next call.
ReturnsWhenDone ==
  [][pc # "idle" /\ pc' = "idle" =>
       /\ cbDstLengthUsed' <= cbDstLength'
       /\ \/ cbSrcLengthUsed' = cbSrcLength'
          \/ dstLen' < 0 /\ blocks' > 0]_vars

\* Every call returns: no sequence of bytes keeps the loops going.
CallReturns == (pc # "idle") ~> (pc = "idle")

\* The stream implements FrameStream, the frames in turn whatever the
\* buffers: what it owes next is the pending block, or the first buffered
\* byte when no block is pending.
Frames == INSTANCE FrameStream WITH
  pos <- IF blocks > 0 THEN a52.start ELSE fed - (bufend - bufptr) + 1,
  blk <- IF blocks > 0 THEN BlocksPerFrame + 1 - blocks ELSE 1,
  out <- [i \in DOMAIN out |-> [start |-> out[i].start, blk |-> out[i].blk,
                                intact |-> out[i].intact]]
ImplementsFrameStream == Frames!Spec

\* A client that stops restarting gets every block of its input, the last
\* frame's included, if it goes on calling.
AllDelivered ==
  <>[][~ \E n \in SrcSizes, d \in DstSizes : ConvertStart(n, d)]_vars
    => <>(blocks = 0 /\ fed = Len(input) /\ bufptr = bufend)
==============================================================================
