------------------------------- MODULE A52Demux -------------------------------
(***************************************************************************)
(* The demultiplexer of a52dec and extract_a52, and the assembly of frames *)
(* in a52_decode_data.  A file is read BUFFER_SIZE bytes at a time, demux  *)
(* parses what is there and keeps, between its calls, the part of a header *)
(* it has seen (head_buf) or the bytes of a packet still to be passed on   *)
(* or skipped; a52_decode_data collects seven bytes, then a frame.         *)
(*                                                                         *)
(* The buffer is a window [buf, end) on the file: positions count from 1,  *)
(* and head_buf and the frame buffer hold bytes.                           *)
(***************************************************************************)
EXTENDS Integers, Sequences, SequencesExt, FiniteSetsExt

CONSTANTS
  Files,        \* the files: records [bytes, track, pes, pid, payload, ends]
  BufferSizes,  \* BUFFER_SIZE
  PacketSize,   \* of a transport stream packet: 188
  HeadSize      \* sizeof head_buf: 268

ASSUME PacketSizeAssumption == PacketSize \in Nat /\ PacketSize > 4
\* Sequences of bytes; a track of 0 is none, and so is a pid of 0.
ASSUME FilesAssumption ==
  \A f \in Files : f.bytes \in Seq(0..255)
ASSUME BufferSizesAssumption == BufferSizes \subseteq Nat \ {0}
ASSUME HeadSizeAssumption == HeadSize \in Nat /\ HeadSize >= 268

VARIABLES
  file, size,             \* the file that is read, and BUFFER_SIZE
  pc,                     \* "read", "packet", "demux", "loop", "header", "data", "done", "exit"
  buf, end, full,         \* the window on the file; whether fread filled it
  last,                   \* the end of what demux may look at
  state, state_bytes,     \* demux's static variables
  inHead, head_buf,       \* header points to head_buf, else to buf; head_buf
  dataEnd, loops,         \* where a52_decode_data ends, and what comes after it
  frame, bufpos,          \* a52_decode_data: the bytes in its buffer; its goal
  out, frames             \* history: the bytes and the frames decoded
demuxVars == <<state, state_bytes, inHead, head_buf>>
dataVars  == <<dataEnd, loops>>
esVars    == <<frame, bufpos, out, frames>>
vars == <<file, size, pc, buf, end, full, last, demuxVars, dataVars, esVars>>

Byte(p)   == file.bytes[p]
Eof       == Len(file.bytes) + 1
Smaller(a, b) == IF a < b THEN a ELSE b
Transport == file.pid # 0
Bit(byte, weight) == (byte \div weight) % 2 = 1

\* The bytes of the header that are there.
Header == IF inHead THEN head_buf ELSE SubSeq(file.bytes, buf, last - 1)
PacketLength(h) == 6 + 256 * h[5] + h[6]
------------------------------------------------------------------------------
(***************************************************************************)
(* How long a header of file f is if it begins with the bytes h, or how    *)
(* many bytes have to be there to tell more: what the next NEEDBYTES asks  *)
(* for.                                                                    *)
(***************************************************************************)
StartCode(h) == h[1] = 0 /\ h[2] = 0 /\ h[3] = 1

Mpeg2(byte) == byte \div 64 = 2

\* The MPEG-2 header of a packet, of which extra more bytes are wanted.
PesNeeds(h, extra) == IF Len(h) < 9 THEN 9 ELSE 9 + extra + h[9]

mpeg1_skip_table(byte) ==
  CASE byte \div 16 = 2 -> 4 [] byte \div 16 = 3 -> 9 [] OTHER -> 0

\* The MPEG-1 header of a packet up to its last byte, the substream: stuffing,
\* a buffer size, time stamps.
Mpeg1Needs(h) ==
  LET n      == Len(h)
      stuff  == Min({k \in 7..23 : k = 23 \/ k > n \/ h[k] # 255})
      after  == IF h[stuff] \div 64 = 1 THEN stuff + 2 ELSE stuff
  IN  IF stuff > n THEN stuff
      ELSE IF after > n THEN after
      ELSE after + mpeg1_skip_table(h[after]) + 1

PackNeeds(h) ==
  IF Len(h) < 5 THEN 5
  ELSE IF h[5] \div 64 = 1 THEN IF Len(h) < 14 THEN 14 ELSE 14 + (h[14] % 8)
  ELSE IF h[5] \div 16 = 2 THEN 12
  ELSE 5

\* The private stream, up to its substream.
SubstreamNeeds(h) ==
  IF Mpeg2(h[7]) THEN PesNeeds(h, 1) ELSE Mpeg1Needs(h)
Ours(f, h) == Len(h) >= SubstreamNeeds(h) /\ h[SubstreamNeeds(h)] = f.track

Elementary(f) == f.pid # 0 \/ f.pes

Needs(f, h) ==
  IF Len(h) < 4 \/ ~StartCode(h) THEN 4
  ELSE IF Elementary(f)
  THEN IF h[4] # 189 THEN 4 ELSE IF Len(h) >= 9 /\ ~Mpeg2(h[7]) THEN 9 ELSE PesNeeds(h, 0)
  ELSE CASE h[4] <= 185 -> 4
         [] h[4] = 186  -> PackNeeds(h)
         [] h[4] = 189  -> IF Len(h) < 7 THEN 7
                           ELSE SubstreamNeeds(h) + (IF Ours(f, h) THEN 3 ELSE 0)
         [] OTHER       -> 6
------------------------------------------------------------------------------
\* The static variables as they are initialised, and nothing read.
Init ==
  /\ file \in Files /\ size \in BufferSizes
  /\ file.pid # 0 => size >= PacketSize
  /\ pc = "read"
  /\ buf = 1 /\ end = 1 /\ full = TRUE /\ last = 1
  /\ state = "skip" /\ state_bytes = 0
  /\ inHead = FALSE /\ head_buf = << >>
  /\ dataEnd = 1 /\ loops = FALSE
  /\ frame = << >> /\ bufpos = 7
  /\ out = << >> /\ frames = << >>

\* The loops of ps_loop, es_loop and ts_loop: the rest of a packet is moved to
\* the start of the buffer, and the buffer filled.
Read ==
  /\ pc = "read"
  /\ IF ~full
     THEN pc' = "done" /\ UNCHANGED <<end, full, last, dataVars>>
     ELSE /\ end' = Smaller(buf + size, Eof)
          /\ full' = (buf + size <= Eof)
          /\ last' = end'
          /\ dataEnd' = end' /\ loops' = FALSE
          /\ pc' = IF Transport THEN "packet"
                   ELSE IF file.track = 0 /\ ~file.pes THEN "data" ELSE "demux"
  /\ UNCHANGED <<file, size, buf, demuxVars, esVars>>

\* demux is left: for the next packet, or to read on.
Return == pc' = IF Transport THEN "packet" ELSE "read"

\* One packet of ts_loop.
Packet ==
  /\ pc = "packet"
  /\ UNCHANGED <<file, size, end, full, state, state_bytes, head_buf, dataVars, esVars>>
  /\ LET next    == buf + PacketSize
         pid     == (256 * Byte(buf + 1) + Byte(buf + 2)) % 8192
         adapted == Bit(Byte(buf + 3), 32)
         payload == IF adapted THEN buf + 5 + Byte(buf + 4) ELSE buf + 4
     IN IF next > end
        THEN pc' = "read" /\ UNCHANGED <<buf, last, inHead>>
        ELSE IF Byte(buf) # 71
        THEN buf' = buf + 1 /\ UNCHANGED <<pc, last, inHead>>
        ELSE IF pid # file.pid \/ payload > next \/ ~Bit(Byte(buf + 3), 16)
        THEN buf' = next /\ UNCHANGED <<pc, last, inHead>>
        ELSE /\ buf' = payload
             /\ last' = next
             /\ IF Bit(Byte(buf + 1), 64)
                THEN pc' = "header" /\ inHead' = FALSE
                ELSE pc' = "demux" /\ UNCHANGED inHead

\* What demux does first: it goes on where it was.
Resume ==
  /\ pc = "demux"
  /\ \/ /\ state = "header" /\ state_bytes > 0
        /\ inHead' = TRUE
        /\ pc' = "header"
        /\ UNCHANGED <<buf, state, state_bytes, head_buf, dataVars>>
     \/ /\ state = "header" /\ state_bytes <= 0
        /\ pc' = "loop"
        /\ UNCHANGED <<buf, demuxVars, dataVars>>
     \/ /\ state = "data"
        /\ pc' = "data"
        /\ IF Transport \/ state_bytes > last - buf
           THEN /\ dataEnd' = last /\ loops' = FALSE
                /\ state_bytes' = state_bytes - (last - buf)
           ELSE /\ dataEnd' = buf + state_bytes /\ loops' = TRUE
                /\ UNCHANGED state_bytes
        /\ UNCHANGED <<buf, state, inHead, head_buf>>
     \/ /\ state = "skip"
        /\ IF Transport \/ state_bytes > last - buf
           THEN /\ state_bytes' = state_bytes - (last - buf)
                /\ buf' = last
                /\ Return
           ELSE /\ buf' = buf + state_bytes
                /\ pc' = "loop"
                /\ UNCHANGED state_bytes
        /\ UNCHANGED <<state, inHead, head_buf, dataVars>>
  /\ UNCHANGED <<file, size, end, full, last, esVars>>

\* The head of demux's loop: a transport packet has one header at most.
Loop ==
  /\ pc = "loop"
  /\ IF Transport
     THEN /\ state' = "skip" /\ buf' = last
          /\ Return
          /\ UNCHANGED inHead
     ELSE /\ inHead' = FALSE
          /\ pc' = "header"
          /\ UNCHANGED <<buf, state>>
  /\ UNCHANGED <<file, size, end, full, last, state_bytes, head_buf, dataVars, esVars>>
------------------------------------------------------------------------------
\* What NEEDBYTES copies to head_buf behind what it holds.
\* Mutant: all that there is.
TakenAll == last - buf
Taken == Smaller(Needs(file, Header) - Len(Header), last - buf)

\* NEEDBYTES, when the header is not there in full: the missing bytes are taken
\* into head_buf, or what there is of them is, and demux waits for more.
NeedBytes ==
  /\ pc = "header" /\ Len(Header) < Needs(file, Header)
  /\ IF ~inHead
     THEN /\ head_buf' = Header
          /\ state' = "header" /\ state_bytes' = Len(Header)
          /\ buf' = last
          /\ Return
     ELSE /\ head_buf' = head_buf \o SubSeq(file.bytes, buf, buf + Taken - 1)
          /\ buf' = buf + Taken
          /\ IF Needs(file, Header) - Len(Header) <= last - buf
             THEN UNCHANGED <<pc, state_bytes>>
             ELSE state_bytes' = Len(head_buf') /\ Return
          /\ UNCHANGED state
  /\ UNCHANGED <<file, size, end, full, last, inHead, dataVars, esVars>>

\* The four bytes of head_buf, moved down by one.
\* Mutant: they are left as they are.
ShiftedNot == head_buf
Shifted == SubSeq(head_buf, 2, 4)

\* No start code: one byte on, or, in a transport packet, the next packet.
Resync ==
  /\ pc = "header" /\ Len(Header) >= 4 /\ ~StartCode(Header)
  /\ IF Transport
     THEN /\ state' = "skip" /\ buf' = last
          /\ Return
          /\ UNCHANGED head_buf
     ELSE /\ IF inHead
             THEN head_buf' = Shifted /\ UNCHANGED buf
             ELSE buf' = buf + 1 /\ UNCHANGED head_buf
          /\ UNCHANGED <<pc, state>>
  /\ UNCHANGED <<file, size, end, full, last, state_bytes, inHead, dataVars, esVars>>

\* Mutant of DONEBYTES: without its test of header.
BehindAlways(len) == buf + len

\* DONEBYTES: where the packet goes on behind a header of length len.
Behind(len) == IF inHead THEN buf ELSE buf + len

\* The payload of a packet, of which bytes are left, for a52_decode_data.
Payload(from, bytes) ==
  /\ buf' = from
  /\ IF bytes > last - from
     THEN /\ state' = "data" /\ state_bytes' = bytes - (last - from)
          /\ dataEnd' = last /\ loops' = FALSE
          /\ pc' = "data"
     ELSE /\ IF bytes > 0
             THEN dataEnd' = from + bytes /\ loops' = TRUE /\ pc' = "data"
             ELSE pc' = "loop" /\ UNCHANGED dataVars
          /\ UNCHANGED <<state, state_bytes>>

Skip(from, bytes) ==
  /\ IF bytes > last - from
     THEN /\ state' = "skip" /\ state_bytes' = bytes - (last - from)
          /\ buf' = last
          /\ Return
     ELSE /\ buf' = IF bytes > 0 THEN from + bytes ELSE from
          /\ pc' = "loop"
          /\ UNCHANGED <<state, state_bytes>>
  /\ UNCHANGED dataVars

\* A whole header is there: what is behind it is decoded or skipped.
Parsed ==
  LET h   == Header
      len == Needs(file, h)
  IN /\ pc = "header" /\ Len(h) >= len /\ StartCode(h)
     /\ IF Elementary(file)
        THEN IF h[4] # 189 \/ ~Mpeg2(h[7])
             THEN pc' = "exit" /\ UNCHANGED <<buf, state, state_bytes, dataVars>>
             ELSE Payload(Behind(len), PacketLength(h) - len)
        ELSE CASE h[4] = 185 ->
                    pc' = "done" /\ UNCHANGED <<buf, state, state_bytes, dataVars>>
               [] h[4] < 185 ->
                    pc' = "exit" /\ UNCHANGED <<buf, state, state_bytes, dataVars>>
               [] h[4] = 186 -> Skip(Behind(len), 0)
               [] h[4] = 189 ->
                    IF Ours(file, h)
                    THEN Payload(Behind(len), PacketLength(h) - len)
                    ELSE Skip(Behind(len), PacketLength(h) - len)
               [] OTHER -> Skip(Behind(len), 256 * h[5] + h[6])
     /\ UNCHANGED <<file, size, end, full, last, inHead, head_buf, esVars>>
------------------------------------------------------------------------------
\* The bytes up to dataEnd are through.
DataDone ==
  /\ pc = "data" /\ buf = dataEnd
  /\ IF loops THEN pc' = "loop" ELSE Return
  /\ UNCHANGED <<file, size, buf, end, full, last, demuxVars, dataVars, esVars>>

\* a52_syncinfo of seven bytes: the length of the frame, of which one byte of
\* its rate and size codes stands for all.
Syncinfo(b) == IF b[1] = 11 /\ b[2] = 119 /\ b[5] > 7 THEN b[5] ELSE 0

\* One turn of a52_decode_data: bytes are copied to its buffer; seven of them
\* are looked at for a header, or moved down by one; a frame is decoded (or
\* dropped at an error of the output, which leaves the same state).
Decode ==
  /\ pc = "data" /\ buf < dataEnd
  /\ LET len  == Smaller(dataEnd - buf, bufpos - Len(frame))
         got  == frame \o SubSeq(file.bytes, buf, buf + len - 1)
     IN /\ buf' = buf + len
        /\ out' = out \o [i \in 1..len |-> buf + i - 1]
        /\ IF Len(got) < bufpos
           THEN frame' = got /\ UNCHANGED <<bufpos, frames>>
           ELSE IF bufpos = 7
           THEN IF Syncinfo(got) = 0
                THEN frame' = Tail(got) /\ UNCHANGED <<bufpos, frames>>
                ELSE frame' = got /\ bufpos' = Syncinfo(got) /\ UNCHANGED frames
           ELSE /\ frames' = Append(frames, got)
                /\ frame' = << >> /\ bufpos' = 7
  /\ UNCHANGED <<file, size, pc, end, full, last, demuxVars, dataVars>>

Next == Read \/ Packet \/ Resume \/ Loop \/ NeedBytes \/ Resync \/ Parsed
          \/ DataDone \/ Decode
Spec == Init /\ [][Next]_vars
\* The program runs on, and reads from a file.
FairSpec == Spec /\ WF_vars(Next)
------------------------------------------------------------------------------
\* The frames in a sequence of bytes, from each place on, and from the first.
FramesAfter(bytes) ==
  LET next[i \in 1..(Len(bytes) + 1)] ==
        IF i + 6 > Len(bytes) THEN << >>
        ELSE LET n == Syncinfo(SubSeq(bytes, i, i + 6))
             IN  IF n = 0 THEN next[i + 1]
                 ELSE IF i + n > Len(bytes) + 1 THEN << >>
                 ELSE <<SubSeq(bytes, i, i + n - 1)>> \o next[i + n]
  IN  next
FramesFrom(bytes) == FramesAfter(bytes)[1]

(***************************************************************************)
(* What a reader of the whole file f finds in it, if f is not a transport  *)
(* stream: he has no buffer that cuts headers, and nothing to keep.        *)
(***************************************************************************)
Rest(f, p)  == SubSeq(f.bytes, p, Len(f.bytes))
Whole(f, p) == Len(Rest(f, p)) >= Needs(f, Rest(f, p))

\* What the header h says of its packet: that nothing is read after it; that the
\* packet is one of the stream; how many bytes of it are behind the header.
Stops(f, h)  == IF Elementary(f) THEN h[4] # 189 \/ ~Mpeg2(h[7]) ELSE h[4] <= 185
Chosen(f, h) == Elementary(f) \/ (h[4] = 189 /\ Ours(f, h))
Left(f, h) ==
  IF Elementary(f) \/ h[4] = 189 THEN PacketLength(h) - Needs(f, h)
  ELSE IF h[4] = 186 THEN 0
  ELSE 256 * h[5] + h[6]

\* He goes on from place p, where he looks for a header: behind the packet, or by
\* one byte.
Goes(f, p) == Whole(f, p) /\ (StartCode(Rest(f, p)) => ~Stops(f, Rest(f, p)))
From(f, p) == p + Needs(f, Rest(f, p))
Following(f, p) ==
  IF ~StartCode(Rest(f, p)) THEN p + 1
  ELSE From(f, p) + (IF Left(f, Rest(f, p)) > 0 THEN Left(f, Rest(f, p)) ELSE 0)

\* The places where he looks for a header are H: the first, what follows each of
\* them, and no other.
HeadersAt(f, H) ==
  /\ H \subseteq Nat \ {0} /\ 1 \in H
  /\ \A p \in H : Goes(f, p) => Following(f, p) \in H
  /\ \A p, q \in H : p < q => Goes(f, p) /\ Following(f, p) <= q

\* A byte of the stream, which is all of a file without packets.
Raw(f) == f.pid = 0 /\ f.track = 0 /\ ~f.pes
Belongs(f, H, q) ==
  \/ Raw(f)
  \/ \E p \in H : /\ Goes(f, p) /\ StartCode(Rest(f, p)) /\ Chosen(f, Rest(f, p))
                 /\ From(f, p) <= q /\ q < Following(f, p)

\* What he finds is the payload of f.
Carries(f, H) ==
  /\ HeadersAt(f, H)
  /\ \A i, j \in DOMAIN f.payload : i < j => f.payload[i] < f.payload[j]
  /\ Range(f.payload) = {q \in DOMAIN f.bytes : Belongs(f, H, q)}
------------------------------------------------------------------------------
\* Wherever the buffer happens to cut the file, even inside a header, demux
\* passes on the payload of the chosen stream, every byte of it once and in
\* order, and nothing of what is around it; and the frames decoded are those of
\* the payload.
PayloadInOrder ==
  /\ IsPrefix(out, file.payload)
  /\ IsPrefix(frames, FramesFrom([i \in DOMAIN file.payload |-> Byte(file.payload[i])]))

\* No header, whatever its fields say and wherever it is cut, is longer than
\* head_buf, of 268 bytes.
HeadBufSafe == Len(head_buf) <= HeadSize

\* The whole file is read, and what was asked for is decoded.
AllDecoded ==
  <>(/\ pc = file.ends /\ out = file.payload
     /\ frames = FramesFrom([i \in DOMAIN file.payload |-> Byte(file.payload[i])]))
==============================================================================
