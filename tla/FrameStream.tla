----------------------------- MODULE FrameStream -----------------------------
(***************************************************************************)
(* What an AC-3 to PCM stream promises its client: the input is a sequence *)
(* of frames, and the PCM delivered since the stream was last started is   *)
(* block 1, 2, ..., BlocksPerFrame of each frame in turn, every block      *)
(* decoded from the frame's own bytes.  How the client cuts the input into *)
(* source buffers, and how small its destination buffers are, must not     *)
(* show.                                                                   *)
(***************************************************************************)
EXTENDS Integers, Sequences

CONSTANTS
  Headers,        \* frame headers: records with a field size
  SYNC,           \* the byte a frame starts with
  CodeOffset,     \* where in a frame its header code is found
  BlocksPerFrame

VARIABLES
  input,  \* the bytes of the stream, a header code standing for one byte
  pos,    \* position of the first frame that is not delivered completely
  blk,    \* the block of that frame that is due
  out     \* the blocks delivered since the stream was started

vars == <<input, pos, blk, out>>

\* The complete frame at position p of the input, or no frame.
FrameAt(p) ==
  /\ p + CodeOffset <= Len(input)
  /\ input[p] = SYNC
  /\ input[p + CodeOffset] \in Headers
  /\ p + input[p + CodeOffset].size - 1 <= Len(input)

Init == pos = 1 /\ blk = 1 /\ out = <<>>

\* The due block is delivered, decoded from the bytes of its frame.
Deliver ==
  /\ FrameAt(pos)
  /\ out' = Append(out, [start |-> pos, blk |-> blk, intact |-> TRUE])
  /\ IF blk < BlocksPerFrame
     THEN blk' = blk + 1 /\ pos' = pos
     ELSE blk' = 1 /\ pos' = pos + input[pos + CodeOffset].size
  /\ UNCHANGED input

\* A byte where no frame starts is passed over.
Skip ==
  /\ blk = 1
  /\ pos <= Len(input)
  /\ ~FrameAt(pos)
  /\ pos' = pos + 1
  /\ UNCHANGED <<input, blk, out>>

\* The client starts the stream again from the beginning of the input.
Restart == pos' = 1 /\ blk' = 1 /\ out' = <<>> /\ UNCHANGED input

Next == Deliver \/ Skip \/ Restart

Spec == Init /\ [][Next]_vars
==============================================================================
