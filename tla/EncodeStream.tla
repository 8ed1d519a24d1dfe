---------------------------- MODULE EncodeStream -----------------------------
(***************************************************************************)
(* stream_convert_pcm of AC3ACM.cpp: one open PCM to AC-3 conversion       *)
(* stream, driven by a client that hands it PCM in source buffers of any   *)
(* size and takes the coded frames in destination buffers of any size.     *)
(*                                                                         *)
(* A PCM byte is its position in the client's input.  A coded byte is the  *)
(* number of its frame and its offset there.  Pointers into msd->buf and   *)
(* msd->frame are offsets from these.                                      *)
(***************************************************************************)
EXTENDS Integers, Sequences

CONSTANTS
  Needed,     \* 1536 * nChannels * 2: the PCM bytes of one frame
  FrameSize,  \* what AC3_encode_frame returns, 2 * frame_size of the encoder
  PcmLength,  \* length of the client's input
  SrcSizes,   \* the source buffer sizes a client uses
  DstSizes    \* the destination buffer sizes a client uses

ASSUME SizeAssumption ==
  /\ Needed \in Nat \ {0} /\ FrameSize \in Nat \ {0} /\ PcmLength \in Nat
  /\ SrcSizes \subseteq Nat /\ DstSizes \subseteq Nat

VARIABLES
  fed,            \* PCM bytes the stream has taken since START
  pc,             \* where stream_convert_pcm is; "idle" between two calls
  buf,            \* msd->buf: [0..Needed-1 -> PCM byte, or 0]
  bufptr,         \* msd->bufptr, an offset into msd->buf
  frame,          \* msd->frame: the number of the frame it holds
  bufend,         \* msd->bufend, an offset into msd->frame
  blocks,         \* msd->blocks: bytes of the frame still to deliver
  cbSrcLength, cbSrcLengthUsed, cbDstLength, cbDstLengthUsed,
  dstLen,         \* room left in the destination
  pcmEnd,         \* history: the last PCM byte that went into a frame
  out             \* history: the coded bytes delivered since START

msd  == <<buf, bufptr, frame, bufend, blocks>>
vars == <<fed, pc, msd, cbSrcLength, cbSrcLengthUsed, cbDstLength,
          cbDstLengthUsed, dstLen, pcmEnd, out>>

srcLen == cbSrcLength - cbSrcLengthUsed

Smaller(a, b) == IF a < b THEN a ELSE b

Init ==
  /\ fed = 0
  /\ pc = "idle"
  /\ buf = [k \in 0..(Needed - 1) |-> 0]
  /\ bufptr = 0 /\ frame = 0 /\ bufend = 0 /\ blocks = 0
  /\ cbSrcLength = 0 /\ cbSrcLengthUsed = 0
  /\ cbDstLength = 0 /\ cbDstLengthUsed = 0 /\ dstLen = 0
  /\ pcmEnd = 0
  /\ out = <<>>

\* The client converts its next n bytes into a buffer of d bytes.
Enter(n, d) ==
  /\ pc = "idle"
  /\ cbSrcLength' = n /\ cbSrcLengthUsed' = 0
  /\ cbDstLength' = d /\ cbDstLengthUsed' = 0 /\ dstLen' = d

\* Mutant: bytes are carried over only into a call that brings a source.
ConvertNeedsSource(n, d) ==
  /\ fed + n <= PcmLength
  /\ Enter(n, d)
  /\ pc' = IF blocks > 0 /\ n > 0 THEN "leftover" ELSE "fill"
  /\ UNCHANGED <<fed, msd, pcmEnd, out>>

\* ACMDM_STREAM_CONVERT without START: bytes carried over come first.
Convert(n, d) ==
  /\ fed + n <= PcmLength
  /\ Enter(n, d)
  /\ pc' = IF blocks > 0 THEN "leftover" ELSE "fill"
  /\ UNCHANGED <<fed, msd, pcmEnd, out>>

\* ... with ACM_STREAMCONVERTF_START: the client begins its input again.
ConvertStart(n, d) ==
  /\ n <= PcmLength
  /\ Enter(n, d)
  /\ bufptr' = 0 /\ bufend' = 0 /\ blocks' = 0
  /\ fed' = 0 /\ pcmEnd' = 0 /\ frame' = 0 /\ out' = <<>>
  /\ pc' = "fill"
  /\ UNCHANGED buf

\* tc coded bytes of frame f, from offset o on.
Bytes(f, o, tc) == [i \in 1..tc |-> [frame |-> f, offset |-> o + i - 1]]

\* Mutant: the pointer into the frame does not move.
DeliverInPlace(f, o, tc) ==
  /\ out' = out \o Bytes(f, o, tc)
  /\ cbDstLengthUsed' = cbDstLengthUsed + tc
  /\ dstLen' = dstLen - tc
  /\ bufend' = o

\* memcpy of those bytes into the destination.
Deliver(f, o, tc) ==
  /\ out' = out \o Bytes(f, o, tc)
  /\ cbDstLengthUsed' = cbDstLengthUsed + tc
  /\ dstLen' = dstLen - tc
  /\ bufend' = o + tc

\* The bytes carried over; the call goes on only if there is room left.
Leftover ==
  /\ pc = "leftover"
  /\ LET tc == Smaller(blocks, dstLen) IN
     /\ Deliver(frame, bufend, tc)
     /\ blocks' = blocks - tc
  /\ pc' = IF dstLen' <= 0 THEN "idle" ELSE "fill"
  /\ UNCHANGED <<fed, buf, bufptr, frame, cbSrcLength, cbSrcLengthUsed,
                 cbDstLength, pcmEnd>>

\* The head of the loop: PCM is collected until there is a frame's worth.
Fill ==
  /\ pc = "fill"
  /\ IF srcLen <= 0
     THEN /\ pc' = "idle"
          /\ UNCHANGED <<fed, buf, bufptr, cbSrcLengthUsed>>
     ELSE LET tc == Smaller(Needed - bufptr, srcLen) IN
          /\ buf' = [k \in DOMAIN buf |->
                       IF k \in bufptr..(bufptr + tc - 1)
                       THEN fed + 1 + k - bufptr ELSE buf[k]]
          /\ bufptr' = bufptr + tc
          /\ cbSrcLengthUsed' = cbSrcLengthUsed + tc
          /\ fed' = fed + tc
          /\ pc' = IF bufptr + tc >= Needed THEN "encode" ELSE "fill"
  /\ UNCHANGED <<frame, bufend, blocks, cbSrcLength, cbDstLength,
                 cbDstLengthUsed, dstLen, pcmEnd, out>>

\* Mutants: the PCM stays in the buffer; what was delivered is still owed.
EncodeKeepsBuffer ==
  /\ pc = "encode"
  /\ frame' = frame + 1
  /\ pcmEnd' = buf[Needed - 1]
  /\ bufptr' = bufptr
  /\ LET tc == Smaller(FrameSize, dstLen) IN
     /\ Deliver(frame + 1, 0, tc)
     /\ blocks' = FrameSize - tc
  /\ pc' = IF dstLen' <= 0 THEN "idle" ELSE "fill"
  /\ UNCHANGED <<fed, buf, cbSrcLength, cbSrcLengthUsed, cbDstLength>>
EncodeOwesAll ==
  /\ pc = "encode"
  /\ frame' = frame + 1
  /\ pcmEnd' = buf[Needed - 1]
  /\ bufptr' = 0
  /\ Deliver(frame + 1, 0, Smaller(FrameSize, dstLen))
  /\ blocks' = FrameSize
  /\ pc' = IF dstLen' <= 0 THEN "idle" ELSE "fill"
  /\ UNCHANGED <<fed, buf, cbSrcLength, cbSrcLengthUsed, cbDstLength>>

\* The frame is coded into msd->frame, and what there is room for delivered.
Encode ==
  /\ pc = "encode"
  /\ frame' = frame + 1
  /\ pcmEnd' = buf[Needed - 1]
  /\ bufptr' = 0
  /\ LET tc == Smaller(FrameSize, dstLen) IN
     /\ Deliver(frame + 1, 0, tc)
     /\ blocks' = FrameSize - tc
  /\ pc' = IF dstLen' <= 0 THEN "idle" ELSE "fill"
  /\ UNCHANGED <<fed, buf, cbSrcLength, cbSrcLengthUsed, cbDstLength>>

Step == Leftover \/ Fill \/ Encode

Next ==
  \/ \E n \in SrcSizes, d \in DstSizes : Convert(n, d) \/ ConvertStart(n, d)
  \/ Step

Spec == Init /\ [][Next]_vars

\* The code of a call runs to its end, and a client that is often enough its
\* turn offers some room, with more of its input if there is any.
Feed ==
  \E n \in SrcSizes, d \in DstSizes :
    /\ d > 0
    /\ n > 0 \/ fed = PcmLength
    /\ Convert(n, d)

LiveSpec == Spec /\ WF_vars(Step) /\ SF_vars(Feed)
------------------------------------------------------------------------------
\* Every variable keeps its type.
TypeOK ==
  /\ fed \in 0..PcmLength
  /\ pc \in {"idle", "leftover", "fill", "encode"}
  /\ buf \in [0..(Needed - 1) -> 0..PcmLength]
  /\ bufptr \in 0..Needed
  /\ frame \in Nat
  /\ bufend \in 0..FrameSize /\ blocks \in 0..FrameSize
  /\ cbSrcLength \in Nat /\ cbSrcLengthUsed \in Nat
  /\ cbDstLength \in Nat /\ cbDstLengthUsed \in Nat /\ dstLen \in Nat
  /\ pcmEnd \in 0..PcmLength
  /\ out \in Seq([frame : Nat, offset : 0..(FrameSize - 1)])

\* A frame is coded over msd->frame only when the frame before it has been
\* delivered to its last byte.
EncodeWhenDrained == pc = "encode" => blocks = 0

\* The PCM of a frame follows the PCM of the frame before it: no sample is
\* lost, repeated or coded out of its place, whatever the buffers.
PcmInOrder ==
  pc = "encode" => \A k \in 0..(Needed - 1) : buf[k] = pcmEnd + 1 + k

\* The coded bytes come out in order, each frame's bytes from its first to its
\* last, then the next frame's.
Successor(b) ==
  IF b.offset = FrameSize - 1 THEN [frame |-> b.frame + 1, offset |-> 0]
                              ELSE [b EXCEPT !.offset = @ + 1]
InOrder(s) ==
  /\ s # <<>> => s[1] = [frame |-> 1, offset |-> 0]
  /\ \A i \in 2..Len(s) : s[i] = Successor(s[i - 1])
OutInOrder == InOrder(out)

\* The stream owes exactly what it has not delivered of the frames that the
\* PCM taken so far fills; between two calls no more than one frame is owed.
Ledger ==
  pc # "encode" => Len(out) + blocks = (fed \div Needed) * FrameSize

\* A call returns when the source is used up or the destination is full.
ReturnsWhenDone ==
  [][pc # "idle" /\ pc' = "idle" =>
       /\ cbDstLengthUsed' <= cbDstLength'
       /\ cbSrcLengthUsed' = cbSrcLength' \/ dstLen' = 0]_vars

\* A client that stops restarting gets every frame its input fills.
AllDelivered ==
  <>[][~ \E n \in SrcSizes, d \in DstSizes : ConvertStart(n, d)]_vars
    => <>(Len(out) = (PcmLength \div Needed) * FrameSize)
==============================================================================
