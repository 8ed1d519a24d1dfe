---------------------------- MODULE A52Demux_proofs ----------------------------
(***************************************************************************)
(* That head_buf is long enough, for every file and every way of reading   *)
(* it: a header is at most 268 bytes long.  That demux passes on what it   *)
(* does once and in order, and the frames are cut from that alone.  And    *)
(* that what it passes on, of a file that is not a transport stream, is    *)
(* what a reader of the whole file finds, wherever the buffer cuts it.     *)
(***************************************************************************)
EXTENDS A52Demux, SequenceTheorems, WellFoundedInduction, TLAPS

TypeOK ==
  /\ file \in Files
  /\ size \in Nat \ {0}
  /\ pc \in {"read", "packet", "demux", "loop", "header", "data", "done", "exit"}
  /\ buf \in Nat \ {0} /\ end \in Nat /\ last \in Nat /\ dataEnd \in Nat
  /\ state \in {"header", "data", "skip"} /\ state_bytes \in Int
  /\ inHead \in BOOLEAN
  /\ head_buf \in Seq(0..255) /\ frame \in Seq(0..255)
  /\ bufpos \in Nat

\* The window lies in the file, and what demux looks at in the window.
Window ==
  /\ buf <= end /\ last <= end /\ end <= Eof
  /\ pc \in {"demux", "loop", "header", "data"} => buf <= last
  /\ pc = "data" => buf <= dataEnd /\ dataEnd <= last

\* What is left of a packet is not negative, where it may go on in the window;
\* a52_decode_data always waits for more.
Rests ==
  /\ ~Transport /\ state # "header" => state_bytes >= 0
  /\ Len(frame) < bufpos

IInv == TypeOK /\ Window /\ Rests /\ HeadBufSafe
------------------------------------------------------------------------------
\* What is at a place of a sequence of bytes.
LEMMA ByteAt ==
  ASSUME NEW h \in Seq(0..255)
  PROVE  Len(h) \in Nat /\ \A i \in 1..Len(h) : h[i] \in 0..255
  BY LenProperties, ElementOfSeq

\* A set of numbers that is not empty has a least one.
LEMMA MinIsLeast ==
  ASSUME NEW T \in SUBSET Nat, T # {}
  PROVE  Min(T) \in T /\ \A j \in T : Min(T) <= j
<1>1. PICK k \in T : \A j \in T : ~(<<j, k>> \in OpToRel(<, Nat))
  BY NatLessThanWellFounded, WFMin
<1>2. \A j \in T : k <= j
  <2> SUFFICES ASSUME NEW j \in T, j < k PROVE FALSE
    OBVIOUS
  <2>1. <<j, k>> \in OpToRel(<, Nat)
    BY DEF OpToRel
  <2> QED BY <1>1, <2>1
<1> QED BY <1>2 DEF Min

\* An MPEG-1 header up to its substream has at most 35 bytes: its stuffing ends
\* at byte 23.
LEMMA Mpeg1Short ==
  ASSUME NEW h \in Seq(0..255), Len(h) >= 7
  PROVE  Mpeg1Needs(h) \in 7..35
<1> DEFINE n     == Len(h)
           T     == {k \in 7..23 : k = 23 \/ k > n \/ h[k] # 255}
           stuff == Min(T)
           after == IF h[stuff] \div 64 = 1 THEN stuff + 2 ELSE stuff
           skip  == mpeg1_skip_table(h[after])
<1>1. stuff \in 7..23
  <2>1. T \in SUBSET Nat /\ T \subseteq 7..23 /\ 23 \in T
    OBVIOUS
  <2> HIDE DEF T
  <2> QED BY <2>1, MinIsLeast
<1>2. Mpeg1Needs(h) = IF stuff > n THEN stuff ELSE IF after > n THEN after
                      ELSE after + skip + 1
  BY DEF Mpeg1Needs
<1>3. skip \in {0, 4, 9}
  BY DEF mpeg1_skip_table
<1> HIDE DEF stuff, skip
<1>4. after \in 7..25
  BY <1>1
<1> HIDE DEF after
<1>5. n \in Nat
  BY ByteAt
<1> QED BY <1>1, <1>2, <1>3, <1>4, <1>5

\* An MPEG-2 header has at most 9 + 255 bytes before those of the substream.
LEMMA PesShort ==
  ASSUME NEW h \in Seq(0..255), NEW extra \in {0, 1}
  PROVE  PesNeeds(h, extra) \in 9..265
<1>1. CASE Len(h) < 9
  BY <1>1 DEF PesNeeds
<1>2. CASE Len(h) >= 9
  <2>1. PICK b \in 0..255 : h[9] = b
    BY <1>2, ByteAt
  <2>2. PesNeeds(h, extra) = 9 + extra + b
    BY <1>2, <2>1, ByteAt DEF PesNeeds
  <2> QED BY <2>2
<1> QED BY <1>1, <1>2, ByteAt

\* A pack header has at most 21.
LEMMA PackShort ==
  ASSUME NEW h \in Seq(0..255)
  PROVE  PackNeeds(h) \in 5..21
<1>1. CASE Len(h) >= 14
  <2>1. PICK b \in 0..255 : h[14] = b
    BY <1>1, ByteAt
  <2>2. PackNeeds(h) \in {12, 5, 14 + (b % 8)}
    BY <1>1, <2>1, ByteAt DEF PackNeeds
  <2> QED BY <2>2
<1>2. CASE Len(h) < 14
  BY <1>2, ByteAt DEF PackNeeds
<1> QED BY <1>1, <1>2, ByteAt

\* No header has more than 268 bytes, those of a private stream of an MPEG-2
\* multiplex with 255 bytes of optional fields; the length of a packet is in
\* the first six.
LEMMA HeaderFits ==
  ASSUME NEW f, NEW h \in Seq(0..255)
  PROVE  /\ Needs(f, h) \in 4..268
         /\ /\ Len(h) >= Needs(f, h) /\ StartCode(h)
            /\ IF Elementary(f) THEN h[4] = 189 ELSE h[4] > 186
            => Needs(f, h) >= 6
<1>1. Len(h) \in Nat
  BY ByteAt
<1>2. CASE Len(h) < 4 \/ ~StartCode(h)
  BY <1>1, <1>2 DEF Needs
<1>3. CASE Len(h) >= 4 /\ StartCode(h) /\ Elementary(f)
  <2> DEFINE pes == PesNeeds(h, 0)
  <2>1. pes \in 9..265
    BY PesShort
  <2>2. Needs(f, h) = IF h[4] # 189 THEN 4
                   ELSE IF Len(h) >= 9 /\ ~Mpeg2(h[7]) THEN 9 ELSE pes
    BY <1>1, <1>3 DEF Needs
  <2> HIDE DEF pes
  <2> QED BY <1>3, <2>1, <2>2
<1>4. CASE Len(h) >= 4 /\ StartCode(h) /\ ~Elementary(f)
  <2>1. PICK id \in 0..255 : h[4] = id
    BY <1>4, ByteAt
  <2>2. CASE id <= 185
    <3>1. h[4] <= 185 /\ h[4] # 186 /\ h[4] # 189 /\ ~(h[4] > 186)
      BY <2>1, <2>2
    <3>2. Needs(f, h) = 4
      BY <1>1, <1>4, <3>1 DEF Needs
    <3> QED BY <1>4, <3>1, <3>2
  <2>3. CASE id = 186
    BY <1>1, <1>4, <2>1, <2>3, PackShort DEF Needs
  <2>4. CASE id = 189
    <3> DEFINE sub   == SubstreamNeeds(h)
               three == IF Ours(f, h) THEN 3 ELSE 0
    <3>1. Len(h) >= 7 => sub \in 7..265
      BY PesShort, Mpeg1Short DEF SubstreamNeeds
    <3>2. Needs(f, h) = IF Len(h) < 7 THEN 7 ELSE sub + three
      BY <1>1, <1>4, <2>1, <2>4 DEF Needs
    <3> HIDE DEF sub
    <3>3. three \in {0, 3}
      OBVIOUS
    <3> HIDE DEF three
    <3>4. CASE Len(h) < 7
      BY <3>2, <3>4
    <3>5. CASE Len(h) >= 7
      <4>1. sub \in 7..265
        BY <3>1, <3>5
      <4>2. Needs(f, h) = sub + three
        BY <1>1, <3>2, <3>5
      <4>3. Needs(f, h) \in 7..268
        BY <3>3, <4>1, <4>2
      <4>4. \A x \in 7..268 : x \in 4..268 /\ x >= 6
        OBVIOUS
      <4> QED BY <4>3, <4>4, Zenon
    <3> QED BY <1>1, <3>4, <3>5
  <2>5. CASE id > 186 /\ id # 189
    <3>1. ~(h[4] <= 185) /\ h[4] # 186 /\ h[4] # 189
      BY <2>1, <2>5
    <3>2. Needs(f, h) = 6
      BY <1>1, <1>4, <3>1 DEF Needs
    <3> QED BY <3>2
  <2> QED BY <2>2, <2>3, <2>4, <2>5
<1> QED BY <1>1, <1>2, <1>3, <1>4
------------------------------------------------------------------------------
\* A stretch of the file is a sequence of bytes.
LEMMA BytesOfFile ==
  ASSUME file \in Files, NEW a \in Nat \ {0}, NEW b \in Int, b <= Len(file.bytes), a <= b + 1
  PROVE  /\ SubSeq(file.bytes, a, b) \in Seq(0..255)
         /\ Len(SubSeq(file.bytes, a, b)) = b - a + 1
<1>1. file.bytes \in Seq(0..255)
  BY FilesAssumption
<1> DEFINE s == file.bytes
<1>2. \A i \in 1..Len(s) : s[i] \in 0..255
  BY <1>1, ByteAt
<1> HIDE DEF s
<1>3. a \in Nat \ {0} /\ b \in Int /\ b <= Len(s) /\ Len(s) \in Nat /\ a <= b + 1
  BY <1>1, ByteAt DEF s
<1>4. /\ SubSeq(s, a, b) \in Seq(0..255)
      /\ Len(SubSeq(s, a, b)) = IF a <= b THEN b - a + 1 ELSE 0
  <2>1. \A i \in a..b : s[i] \in 0..255
    BY <1>2, <1>3
  <2> QED BY <2>1, SubSeqProperties
<1> QED BY <1>3, <1>4 DEF s

\* The header is a sequence of bytes, and the rest of the window when it is not
\* in head_buf.
LEMMA HeaderBytes ==
  ASSUME TypeOK, Window, pc = "header"
  PROVE  /\ Header \in Seq(0..255)
         /\ ~inHead => Len(Header) = last - buf
<1>1. /\ buf \in Nat \ {0} /\ last - 1 \in Int
      /\ last - 1 <= Len(file.bytes) /\ (~inHead => buf <= last - 1 + 1)
  BY FilesAssumption, ByteAt DEF TypeOK, Window, Eof
<1>2. CASE inHead
  BY <1>2 DEF Header, TypeOK
<1>3. CASE ~inHead
  <2>1. file \in Files
    BY DEF TypeOK
  <2>2. /\ SubSeq(file.bytes, buf, last - 1) \in Seq(0..255)
        /\ Len(SubSeq(file.bytes, buf, last - 1)) = last - 1 - buf + 1
    BY <1>1, <1>3, <2>1, BytesOfFile
  <2>3. last - 1 - buf + 1 = last - buf
    BY DEF TypeOK
  <2> QED BY <1>3, <2>2, <2>3 DEF Header
<1> QED BY <1>2, <1>3

\* Where the program starts, the invariant holds.
LEMMA InitIInv == Init => IInv
<1> SUFFICES ASSUME Init PROVE IInv
  OBVIOUS
<1>1. Eof \in Nat \ {0}
  BY FilesAssumption, ByteAt DEF Init, Eof
<1>2. << >> \in Seq(0..255) /\ Len(<< >>) = 0
  BY EmptySeq
<1>3. TypeOK
  <2>1. size \in Nat \ {0}
    BY BufferSizesAssumption DEF Init
  <2>2. head_buf \in Seq(0..255) /\ frame \in Seq(0..255)
    BY <1>2 DEF Init
  <2>3. inHead \in BOOLEAN
    BY Zenon DEF Init
  <2> QED BY <2>1, <2>2, <2>3 DEF Init, TypeOK
<1>4. Window
  BY <1>1 DEF Init, Window
<1>5. Rests
  BY <1>2 DEF Init, Rests
<1>6. HeadBufSafe
  BY <1>2, HeadSizeAssumption DEF Init, HeadBufSafe
<1> QED BY <1>3, <1>4, <1>5, <1>6 DEF IInv
------------------------------------------------------------------------------
\* Reading moves neither the start of the window nor what demux keeps.
LEMMA ReadIInv ==
  ASSUME IInv, Read
  PROVE  IInv'
<1>1. Eof \in Nat \ {0} /\ Eof' = Eof /\ Transport' = Transport
  BY FilesAssumption, ByteAt DEF IInv, TypeOK, Read, Eof, Transport
<1>2. CASE ~full
  BY <1>1, <1>2 DEF IInv, TypeOK, Window, Rests, HeadBufSafe, Read, demuxVars, dataVars, esVars
<1>3. CASE full
  <2>1. end' \in Nat /\ last' = end' /\ dataEnd' = end' /\ buf <= end' /\ end' <= Eof
    BY <1>1, <1>3 DEF IInv, TypeOK, Window, Read, Smaller
  <2>2. /\ pc' \in {"packet", "demux", "data"}
        /\ UNCHANGED <<file, size, buf, demuxVars, esVars>>
    BY <1>3 DEF Read
  <2> QED BY <1>1, <2>1, <2>2 DEF IInv, TypeOK, Window, Rests, HeadBufSafe, demuxVars, esVars
<1> QED BY <1>2, <1>3

\* A transport packet lies in the window, and its payload in the packet.
LEMMA PacketIInv ==
  ASSUME IInv, Packet
  PROVE  IInv'
<1> DEFINE next    == buf + PacketSize
           adapted == Bit(Byte(buf + 3), 32)
           payload == IF adapted THEN buf + 5 + Byte(buf + 4) ELSE buf + 4
<1>1. Eof \in Nat \ {0} /\ Eof' = Eof /\ Transport' = Transport
  BY FilesAssumption, ByteAt DEF IInv, TypeOK, Packet, Eof, Transport
<1>2. next \in Nat /\ next > buf + 4
  BY PacketSizeAssumption DEF IInv, TypeOK
<1>3. UNCHANGED <<file, size, end, full, state, state_bytes, head_buf, dataVars, esVars>>
  BY DEF Packet
<1>4. CASE next > end
  <2>1. pc' = "read" /\ UNCHANGED <<buf, last, inHead>>
    BY <1>4 DEF Packet
  <2> QED BY <1>1, <1>3, <2>1 DEF IInv, TypeOK, Window, Rests, HeadBufSafe, dataVars, esVars
<1>5. CASE next <= end /\ UNCHANGED <<pc, last, inHead>> /\ buf' \in {buf + 1, next}
  <2>1. pc' = "packet"
    BY <1>5 DEF Packet
  <2>2. buf' \in Nat \ {0} /\ buf' <= end
    BY <1>2, <1>5 DEF IInv, TypeOK
  <2> QED BY <1>1, <1>3, <1>5, <2>1, <2>2
          DEF IInv, TypeOK, Window, Rests, HeadBufSafe, dataVars, esVars
<1>6. CASE next <= end /\ payload <= next /\ buf' = payload /\ last' = next
           /\ pc' \in {"header", "demux"} /\ inHead' \in {FALSE, inHead}
  <2>1. PICK b \in 0..255 : Byte(buf + 4) = b
    <3>1. file.bytes \in Seq(0..255) /\ buf + 4 \in 1..Len(file.bytes)
      BY <1>2, <1>6, FilesAssumption, ByteAt DEF IInv, TypeOK, Window, Eof
    <3> QED BY <3>1, ByteAt DEF Byte
  <2>2. payload \in {buf + 5 + b, buf + 4}
    BY <2>1
  <2>3. payload \in Nat \ {0}
    <3> HIDE DEF payload
    <3> QED BY <2>2 DEF IInv, TypeOK
  <2>4. buf' \in Nat \ {0} /\ last' \in Nat /\ buf' <= last' /\ last' <= end'
    BY <1>2, <1>3, <1>6, <2>3
  <2>5. inHead' \in BOOLEAN
    BY <1>6, Zenon DEF IInv, TypeOK
  <2>6. end \in Nat /\ end' = end
    BY <1>3 DEF IInv, TypeOK
  <2>7. TypeOK'
    BY <1>3, <1>6, <2>4, <2>5 DEF IInv, TypeOK, dataVars, esVars
  <2>8. Window'
    BY <1>1, <1>6, <2>4, <2>6 DEF IInv, TypeOK, Window
  <2> QED BY <1>1, <1>3, <2>7, <2>8 DEF IInv, Rests, HeadBufSafe, dataVars, esVars
<1>7. \/ next > end
      \/ next <= end /\ UNCHANGED <<pc, last, inHead>> /\ buf' \in {buf + 1, next}
      \/ next <= end /\ payload <= next /\ buf' = payload /\ last' = next
         /\ pc' \in {"header", "demux"} /\ inHead' \in {FALSE, inHead}
  <2>1. next <= end \/ next > end
    BY <1>2 DEF IInv, TypeOK
  <2>2. ASSUME next <= end, ~(payload > next) PROVE payload <= next
    <3>1. PICK b \in 0..255 : Byte(buf + 4) = b
      <4>1. file.bytes \in Seq(0..255) /\ buf + 4 \in 1..Len(file.bytes)
        BY <1>2, <2>2, FilesAssumption, ByteAt DEF IInv, TypeOK, Window, Eof
      <4> QED BY <4>1, ByteAt DEF Byte
    <3>2. payload \in {buf + 5 + b, buf + 4}
      BY <3>1
    <3>3. payload \in Int
      <4> HIDE DEF payload
      <4> QED BY <3>2 DEF IInv, TypeOK
    <3> QED BY <1>2, <2>2, <3>3
  <2>3. CASE next > end
    BY <2>3
  <2>4. CASE next <= end
    <3>1. ~(next > end)
      BY <1>2, <2>4 DEF IInv, TypeOK
    <3>2. \/ buf' = buf + 1 /\ UNCHANGED <<pc, last, inHead>>
          \/ buf' = next /\ UNCHANGED <<pc, last, inHead>>
          \/ /\ ~(payload > next) /\ buf' = payload /\ last' = next
             /\ \/ pc' = "header" /\ inHead' = FALSE
                \/ pc' = "demux" /\ UNCHANGED inHead
      <4>1. CASE Byte(buf) # 71
        BY <3>1, <4>1 DEF Packet
      <4>2. CASE Byte(buf) = 71
        BY <3>1, <4>2 DEF Packet
      <4> QED BY <4>1, <4>2
    <3> QED BY <2>2, <2>4, <3>2
  <2> QED BY <2>1, <2>3, <2>4
<1> QED BY <1>4, <1>5, <1>6, <1>7

\* What is left of a packet ends in the window, or goes on behind it.
LEMMA ResumeIInv ==
  ASSUME IInv, Resume
  PROVE  IInv'
<1>1. Eof \in Nat \ {0} /\ Eof' = Eof /\ Transport' = Transport
  BY FilesAssumption, ByteAt DEF IInv, TypeOK, Resume, Eof, Transport
<1>2. /\ UNCHANGED <<file, size, end, full, last, esVars>>
      /\ buf <= last
  BY DEF Resume, IInv, Window
<1>3. CASE state = "header" /\ state_bytes > 0
  <2>1. /\ inHead' = TRUE /\ pc' = "header"
        /\ UNCHANGED <<buf, state, state_bytes, head_buf, dataVars>>
    BY <1>3 DEF Resume, IInv, TypeOK
  <2>2. inHead' \in BOOLEAN
    BY <2>1
  <2> QED BY <1>1, <1>2, <2>1, <2>2
          DEF IInv, TypeOK, Window, Rests, HeadBufSafe, esVars, dataVars
<1>4. CASE state = "header" /\ ~(state_bytes > 0)
  <2>1. pc' = "loop" /\ UNCHANGED <<buf, demuxVars, dataVars>>
    BY <1>4 DEF Resume, IInv, TypeOK
  <2> QED BY <1>1, <1>2, <2>1
          DEF IInv, TypeOK, Window, Rests, HeadBufSafe, esVars, demuxVars, dataVars
<1>5. CASE state = "data"
  <2>1. /\ pc' = "data" /\ UNCHANGED <<buf, state, inHead, head_buf>>
        /\ IF Transport \/ state_bytes > last - buf
           THEN dataEnd' = last /\ state_bytes' = state_bytes - (last - buf)
           ELSE dataEnd' = buf + state_bytes /\ UNCHANGED state_bytes
    BY <1>5 DEF Resume
  <2>2. /\ dataEnd' \in Nat /\ buf <= dataEnd' /\ dataEnd' <= last
        /\ state_bytes' \in Int /\ (~Transport => state_bytes' >= 0)
    BY <1>2, <1>5, <2>1 DEF IInv, TypeOK, Rests
  <2> QED BY <1>1, <1>2, <1>5, <2>1, <2>2
          DEF IInv, TypeOK, Window, Rests, HeadBufSafe, esVars
<1>6. CASE state = "skip"
  <2>1. /\ UNCHANGED <<state, inHead, head_buf, dataVars>>
        /\ IF Transport \/ state_bytes > last - buf
           THEN state_bytes' = state_bytes - (last - buf) /\ buf' = last /\ Return
           ELSE buf' = buf + state_bytes /\ pc' = "loop" /\ UNCHANGED state_bytes
    BY <1>6 DEF Resume
  <2>2. /\ buf' \in Nat \ {0} /\ buf <= buf' /\ buf' <= last
        /\ state_bytes' \in Int /\ (~Transport => state_bytes' >= 0)
        /\ pc' \in {"read", "packet", "loop"}
    BY <1>2, <1>6, <2>1 DEF IInv, TypeOK, Rests, Return
  <2>3. buf' <= end
    BY <1>2, <2>2 DEF IInv, TypeOK, Window
  <2> QED BY <1>1, <1>2, <1>6, <2>1, <2>2, <2>3
          DEF IInv, TypeOK, Window, Rests, HeadBufSafe, esVars, dataVars
<1> QED BY <1>3, <1>4, <1>5, <1>6 DEF IInv, TypeOK

\* The head of the loop leaves demux, or begins with a header.
LEMMA LoopIInv ==
  ASSUME IInv, Loop
  PROVE  IInv'
<1>1. Eof \in Nat \ {0} /\ Eof' = Eof /\ Transport' = Transport
  BY FilesAssumption, ByteAt DEF IInv, TypeOK, Loop, Eof, Transport
<1>2. /\ UNCHANGED <<file, size, end, full, last, state_bytes, head_buf, dataVars, esVars>>
      /\ buf <= last
  BY DEF Loop, IInv, Window
<1>3. CASE Transport
  <2>1. state' = "skip" /\ buf' = last /\ pc' = "packet" /\ UNCHANGED inHead
    BY <1>3 DEF Loop, Return
  <2> QED BY <1>1, <1>2, <1>3, <2>1
          DEF IInv, TypeOK, Window, Rests, HeadBufSafe, esVars, dataVars
<1>4. CASE ~Transport
  <2>1. inHead' = FALSE /\ pc' = "header" /\ UNCHANGED <<buf, state>>
    BY <1>4 DEF Loop
  <2>2. inHead' \in BOOLEAN
    BY <2>1
  <2> QED BY <1>1, <1>2, <2>1, <2>2
          DEF IInv, TypeOK, Window, Rests, HeadBufSafe, esVars, dataVars
<1> QED BY <1>3, <1>4

\* What is taken into head_buf makes the header no longer than it has to be.
LEMMA NeedBytesIInv ==
  ASSUME IInv, NeedBytes
  PROVE  IInv'
<1>1. Eof \in Nat \ {0} /\ Eof' = Eof /\ Transport' = Transport
  BY FilesAssumption, ByteAt DEF IInv, TypeOK, NeedBytes, Eof, Transport
<1>2. /\ UNCHANGED <<file, size, end, full, last, inHead, dataVars, esVars>>
      /\ pc = "header" /\ buf <= last /\ Len(Header) < Needs(file, Header)
  BY DEF NeedBytes, IInv, Window
<1>3. /\ Header \in Seq(0..255) /\ (~inHead => Len(Header) = last - buf)
      /\ Len(Header) \in Nat
  BY <1>2, HeaderBytes, ByteAt DEF IInv
<1>4. PICK n \in 4..268 : Needs(file, Header) = n
  BY <1>3, HeaderFits
<1>5. CASE ~inHead
  <2>1. /\ head_buf' = Header /\ state' = "header" /\ state_bytes' = Len(Header)
        /\ buf' = last /\ Return
    BY <1>5 DEF NeedBytes
  <2>2. pc' \in {"packet", "read"}
    BY <2>1 DEF Return
  <2>3. Len(head_buf') <= HeadSize
    BY <1>2, <1>3, <1>4, <2>1, HeadSizeAssumption
  <2> QED BY <1>1, <1>2, <1>3, <2>1, <2>2, <2>3
          DEF IInv, TypeOK, Window, Rests, HeadBufSafe, esVars, dataVars
<1>6. CASE inHead
  <2> DEFINE bytes == SubSeq(file.bytes, buf, buf + Taken - 1)
  <2>1. Header = head_buf
    BY <1>6 DEF Header
  <2>2. PICK t \in Nat : Taken = t /\ t <= last - buf /\ t <= n - Len(head_buf)
    <3> DEFINE a == n - Len(head_buf)
               b == last - buf
    <3>1. a \in Nat /\ b \in Nat
      BY <1>2, <1>3, <1>4, <2>1 DEF IInv, TypeOK
    <3>2. Taken = IF a < b THEN a ELSE b
      BY <1>4, <2>1 DEF Taken, Smaller
    <3> HIDE DEF a, b
    <3>3. \E t \in Nat : Taken = t /\ t <= b /\ t <= a
      BY <3>1, <3>2
    <3> QED BY <3>3 DEF a, b
  <2>3. bytes \in Seq(0..255) /\ Len(bytes) = t
    <3>1. file \in Files /\ buf \in Nat \ {0}
      BY DEF IInv, TypeOK
    <3> DEFINE to == buf + t - 1
    <3>2. to \in Int /\ to <= Len(file.bytes) /\ buf <= to + 1 /\ to - buf + 1 = t
      BY <1>1, <2>2, <3>1, FilesAssumption, ByteAt DEF IInv, TypeOK, Window, Eof
    <3>3. bytes = SubSeq(file.bytes, buf, to)
      BY <2>2
    <3> HIDE DEF to, bytes
    <3>4. /\ SubSeq(file.bytes, buf, to) \in Seq(0..255)
          /\ Len(SubSeq(file.bytes, buf, to)) = to - buf + 1
      BY <3>1, <3>2, BytesOfFile
    <3> QED BY <3>2, <3>3, <3>4
  <2>4. /\ head_buf' = head_buf \o bytes /\ buf' = buf + t /\ UNCHANGED state
        /\ \/ UNCHANGED <<pc, state_bytes>>
           \/ state_bytes' = Len(head_buf') /\ Return
    BY <1>6, <2>2 DEF NeedBytes
  <2> HIDE DEF bytes
  <2>5. /\ head_buf' \in Seq(0..255)
        /\ Len(head_buf') = Len(head_buf) + t
    BY <2>3, <2>4, ConcatProperties DEF IInv, TypeOK
  <2>6. Len(head_buf') <= HeadSize /\ Len(head_buf') \in Nat
    BY <1>3, <2>1, <2>2, <2>5, HeadSizeAssumption
  <2>7. buf' \in Nat \ {0} /\ buf' <= last
    BY <2>2, <2>4 DEF IInv, TypeOK
  <2>8. buf' <= end
    BY <2>7 DEF IInv, TypeOK, Window
  <2>9. /\ pc' \in {"packet", "read", "header"}
        /\ state_bytes' \in Int /\ (state_bytes' = state_bytes \/ state_bytes' >= 0)
    BY <1>2, <2>4, <2>6 DEF Return, IInv, TypeOK
  <2> QED BY <1>1, <1>2, <2>4, <2>5, <2>6, <2>7, <2>8, <2>9
          DEF IInv, TypeOK, Window, Rests, HeadBufSafe, esVars, dataVars
<1> QED BY <1>5, <1>6

\* Three bytes of head_buf are kept.
LEMMA ResyncIInv ==
  ASSUME IInv, Resync
  PROVE  IInv'
<1>1. Eof \in Nat \ {0} /\ Eof' = Eof /\ Transport' = Transport
  BY FilesAssumption, ByteAt DEF IInv, TypeOK, Resync, Eof, Transport
<1>2. /\ UNCHANGED <<file, size, end, full, last, state_bytes, inHead, dataVars, esVars>>
      /\ pc = "header" /\ buf <= last /\ Len(Header) >= 4
  BY DEF Resync, IInv, Window
<1>3. /\ Header \in Seq(0..255) /\ (~inHead => Len(Header) = last - buf)
      /\ Len(Header) \in Nat
  BY <1>2, HeaderBytes, ByteAt DEF IInv
<1>4. CASE Transport
  <2>1. state' = "skip" /\ buf' = last /\ pc' = "packet" /\ UNCHANGED head_buf
    BY <1>4 DEF Resync, Return
  <2> QED BY <1>1, <1>2, <1>4, <2>1
          DEF IInv, TypeOK, Window, Rests, HeadBufSafe, esVars, dataVars
<1>5. CASE ~Transport /\ inHead
  <2>1. head_buf' = SubSeq(head_buf, 2, 4) /\ UNCHANGED <<buf, pc, state>>
    BY <1>5 DEF Resync, Shifted
  <2>2. \A i \in 2..4 : head_buf[i] \in 0..255
    BY <1>2, <1>3, <1>5, ByteAt DEF Header
  <2>3. head_buf' \in Seq(0..255) /\ Len(head_buf') = 3
    BY <2>1, <2>2, SubSeqProperties
  <2> QED BY <1>1, <1>2, <2>1, <2>3, HeadSizeAssumption
          DEF IInv, TypeOK, Window, Rests, HeadBufSafe, esVars, dataVars
<1>6. CASE ~Transport /\ ~inHead
  <2>1. buf' = buf + 1 /\ UNCHANGED <<head_buf, pc, state>>
    BY <1>6 DEF Resync
  <2>2. buf' \in Nat \ {0} /\ buf' <= last
    BY <1>2, <1>3, <1>6, <2>1 DEF IInv, TypeOK
  <2>3. buf' <= end
    BY <2>2 DEF IInv, TypeOK, Window
  <2> QED BY <1>1, <1>2, <2>1, <2>2, <2>3
          DEF IInv, TypeOK, Window, Rests, HeadBufSafe, esVars, dataVars
<1> QED BY <1>4, <1>5, <1>6

\* What is behind a header is decoded as far as it is in the window.
LEMMA PayloadIInv ==
  ASSUME IInv, NEW from \in Nat, from > 0, from <= last, NEW bytes \in Int,
         Payload(from, bytes),
         UNCHANGED <<file, size, end, full, last, inHead, head_buf, esVars>>
  PROVE  IInv'
<1>1. Eof \in Nat \ {0} /\ Eof' = Eof /\ Transport' = Transport
  BY FilesAssumption, ByteAt DEF IInv, TypeOK, Eof, Transport
<1>2. buf' = from /\ from <= end
  BY DEF Payload, IInv, TypeOK, Window
<1>3. CASE bytes > last - from
  <2>1. /\ state' = "data" /\ state_bytes' = bytes - (last - from)
        /\ dataEnd' = last /\ pc' = "data"
    BY <1>3 DEF Payload
  <2>2. state_bytes' \in Int /\ state_bytes' >= 0
    BY <1>3, <2>1 DEF IInv, TypeOK
  <2> QED BY <1>1, <1>2, <2>1, <2>2 DEF IInv, TypeOK, Window, Rests, HeadBufSafe, esVars
<1>4. CASE ~(bytes > last - from)
  <2>1. UNCHANGED <<state, state_bytes>>
    BY <1>4 DEF Payload
  <2>2. CASE bytes > 0
    <3>1. dataEnd' = from + bytes /\ pc' = "data"
      BY <1>4, <2>2 DEF Payload
    <3>2. dataEnd' \in Nat /\ from <= dataEnd' /\ dataEnd' <= last
      BY <1>4, <2>2, <3>1 DEF IInv, TypeOK
    <3> QED BY <1>1, <1>2, <2>1, <3>1, <3>2 DEF IInv, TypeOK, Window, Rests, HeadBufSafe, esVars
  <2>3. CASE ~(bytes > 0)
    <3>1. pc' = "loop" /\ UNCHANGED dataVars
      BY <1>4, <2>3 DEF Payload
    <3> QED BY <1>1, <1>2, <2>1, <3>1
            DEF IInv, TypeOK, Window, Rests, HeadBufSafe, esVars, dataVars
  <2> QED BY <2>2, <2>3
<1> QED BY <1>3, <1>4

\* Or skipped.
LEMMA SkipIInv ==
  ASSUME IInv, NEW from \in Nat, from > 0, from <= last, NEW bytes \in Int,
         Skip(from, bytes),
         UNCHANGED <<file, size, end, full, last, inHead, head_buf, esVars>>
  PROVE  IInv'
<1>1. Eof \in Nat \ {0} /\ Eof' = Eof /\ Transport' = Transport
  BY FilesAssumption, ByteAt DEF IInv, TypeOK, Eof, Transport
<1>2. UNCHANGED dataVars
  BY DEF Skip
<1>3. CASE bytes > last - from
  <2>1. /\ state' = "skip" /\ state_bytes' = bytes - (last - from)
        /\ buf' = last /\ Return
    BY <1>3 DEF Skip
  <2>2. state_bytes' \in Int /\ state_bytes' >= 0 /\ pc' \in {"read", "packet"}
    BY <1>3, <2>1 DEF IInv, TypeOK, Return
  <2>3. buf' \in Nat \ {0} /\ buf' <= end
    BY <2>1 DEF IInv, TypeOK, Window
  <2> QED BY <1>1, <1>2, <2>1, <2>2, <2>3
          DEF IInv, TypeOK, Window, Rests, HeadBufSafe, esVars, dataVars
<1>4. CASE ~(bytes > last - from)
  <2>1. /\ buf' = IF bytes > 0 THEN from + bytes ELSE from
        /\ pc' = "loop" /\ UNCHANGED <<state, state_bytes>>
    BY <1>4 DEF Skip
  <2>2. buf' \in Nat \ {0} /\ buf' <= last
    BY <1>4, <2>1 DEF IInv, TypeOK
  <2>3. buf' <= end
    BY <2>2 DEF IInv, TypeOK, Window
  <2> QED BY <1>1, <1>2, <2>1, <2>2, <2>3
          DEF IInv, TypeOK, Window, Rests, HeadBufSafe, esVars, dataVars
<1> QED BY <1>3, <1>4

\* A whole header lies in head_buf or in the window.
LEMMA ParsedStep ==
  ASSUME IInv, Parsed
  PROVE  /\ UNCHANGED <<file, size, end, full, last, inHead, head_buf, esVars>>
         /\ \/ pc' \in {"exit", "done"} /\ UNCHANGED <<buf, state, state_bytes, dataVars>>
            \/ \E from \in Nat, bytes \in Int :
                 /\ from > 0 /\ buf <= from /\ from <= last
                 /\ Payload(from, bytes) \/ Skip(from, bytes)
<1> DEFINE h == Header  len == Needs(file, h)  from == Behind(len)
<1>1. /\ pc = "header" /\ Len(h) >= len /\ StartCode(h)
      /\ UNCHANGED <<file, size, end, full, last, inHead, head_buf, esVars>>
  BY DEF Parsed
<1>2. h \in Seq(0..255) /\ (~inHead => Len(h) = last - buf) /\ Len(h) \in Nat
  BY <1>1, HeaderBytes, ByteAt DEF IInv
<1>3. /\ len \in 4..268
      /\ (IF Elementary(file) THEN h[4] = 189 ELSE h[4] > 186) => len >= 6
  BY <1>1, <1>2, HeaderFits
<1> HIDE DEF h
<1>4. from \in Nat /\ from > 0 /\ buf <= from /\ from <= last
  <2> HIDE DEF len
  <2>1. buf \in Nat \ {0} /\ last \in Nat /\ buf <= last
    BY <1>1 DEF IInv, TypeOK, Window
  <2>2. CASE inHead
    BY <2>1, <2>2 DEF Behind
  <2>3. CASE ~inHead
    BY <1>1, <1>2, <1>3, <2>1, <2>3 DEF Behind
  <2> QED BY <2>2, <2>3
<1>5. len >= 6 => /\ PacketLength(h) - len \in Int
                  /\ 256 * h[5] + h[6] \in Int
  <2> SUFFICES ASSUME len >= 6 PROVE /\ PacketLength(h) - len \in Int
                                     /\ 256 * h[5] + h[6] \in Int
    OBVIOUS
  <2> HIDE DEF len
  <2>1. 5 \in 1..Len(h) /\ 6 \in 1..Len(h)
    BY <1>1, <1>2, <1>3
  <2>2. PICK a \in 0..255, b \in 0..255 : h[5] = a /\ h[6] = b
    BY <1>2, <2>1, ByteAt
  <2>3. PacketLength(h) = 6 + 256 * a + b /\ 256 * h[5] + h[6] = 256 * a + b
    BY <2>2 DEF PacketLength
  <2> QED BY <1>3, <2>3
<1>6. \/ pc' \in {"exit", "done"} /\ UNCHANGED <<buf, state, state_bytes, dataVars>>
      \/ \E bytes \in Int : Payload(from, bytes) \/ Skip(from, bytes)
  <2>1. CASE Elementary(file)
    <3>1. CASE h[4] # 189 \/ ~Mpeg2(h[7])
      BY <2>1, <3>1 DEF Parsed, h
    <3>2. CASE ~(h[4] # 189 \/ ~Mpeg2(h[7]))
      <4>1. Payload(from, PacketLength(h) - len)
        BY <2>1, <3>2 DEF Parsed, h
      <4>2. PacketLength(h) - len \in Int
        BY <1>3, <1>5, <2>1, <3>2
      <4> QED BY <4>1, <4>2
    <3> QED BY <3>1, <3>2
  <2>2. CASE ~Elementary(file)
    <3>1. PICK id \in 0..255 : h[4] = id
      <4>1. \A n \in 4..268, k \in Nat : k >= n => 4 \in 1..k
        OBVIOUS
      <4> HIDE DEF len
      <4>2. 4 \in 1..Len(h)
        BY <1>1, <1>2, <1>3, <4>1
      <4> QED BY <1>2, <4>2, ByteAt
    <3>2. CASE id <= 185
      <4>1. h[4] = 185 \/ (h[4] < 185 /\ h[4] # 185)
        <5>1. id = 185 \/ (id < 185 /\ id # 185)
          BY <3>2
        <5> QED BY <3>1, <5>1
      <4> QED BY <2>2, <4>1 DEF Parsed, h
    <3>3. CASE id = 186
      <4>1. h[4] # 185 /\ ~(h[4] < 185) /\ h[4] = 186
        BY <3>1, <3>3
      <4>2. Skip(from, 0)
        BY <2>2, <4>1 DEF Parsed, h
      <4> QED BY <4>2
    <3>4. CASE id = 189
      <4>1. h[4] # 185 /\ ~(h[4] < 185) /\ h[4] # 186 /\ h[4] = 189 /\ h[4] > 186
        BY <3>1, <3>4
      <4>2. Payload(from, PacketLength(h) - len) \/ Skip(from, PacketLength(h) - len)
        BY <2>2, <4>1 DEF Parsed, h
      <4>3. PacketLength(h) - len \in Int
        BY <1>3, <1>5, <2>2, <4>1
      <4> QED BY <4>2, <4>3
    <3>5. CASE id > 186 /\ id # 189
      <4>1. h[4] # 185 /\ ~(h[4] < 185) /\ h[4] # 186 /\ h[4] # 189 /\ h[4] > 186
        BY <3>1, <3>5
      <4>2. Skip(from, 256 * h[5] + h[6])
        BY <2>2, <4>1 DEF Parsed, h
      <4>3. 256 * h[5] + h[6] \in Int
        BY <1>3, <1>5, <2>2, <4>1
      <4> QED BY <4>2, <4>3
    <3> QED BY <3>2, <3>3, <3>4, <3>5
  <2> QED BY <2>1, <2>2
<1> HIDE DEF from, len
<1> QED BY <1>1, <1>4, <1>6

\* Decoding it or skipping it keeps the invariant, and so does the end.
LEMMA ParsedIInv ==
  ASSUME IInv, Parsed
  PROVE  IInv'
<1>1. UNCHANGED <<file, size, end, full, last, inHead, head_buf, esVars>>
  BY ParsedStep
<1>7. CASE pc' \in {"exit", "done"} /\ UNCHANGED <<buf, state, state_bytes, dataVars>>
  <2>1. Eof' = Eof /\ Transport' = Transport
    BY <1>1 DEF Eof, Transport
  <2> QED BY <1>1, <1>7, <2>1
          DEF IInv, TypeOK, Window, Rests, HeadBufSafe, esVars, dataVars
<1>8. CASE \E from \in Nat, bytes \in Int :
           /\ from > 0 /\ buf <= from /\ from <= last
           /\ Payload(from, bytes) \/ Skip(from, bytes)
  <2>1. PICK from \in Nat, bytes \in Int :
          from > 0 /\ from <= last /\ (Payload(from, bytes) \/ Skip(from, bytes))
    BY <1>8
  <2> QED BY <1>1, <2>1, PayloadIInv, SkipIInv
<1> QED BY <1>7, <1>8, ParsedStep

\* Where the bytes are through, demux goes on.
LEMMA DataDoneIInv ==
  ASSUME IInv, DataDone
  PROVE  IInv'
<1>1. Eof' = Eof /\ Transport' = Transport
  BY DEF DataDone, Eof, Transport
<1>2. /\ pc' \in {"loop", "read", "packet"} /\ pc = "data"
      /\ UNCHANGED <<file, size, buf, end, full, last, demuxVars, dataVars, esVars>>
  BY DEF DataDone, Return
<1>3. buf <= last
  BY <1>2 DEF IInv, TypeOK, Window
<1> QED BY <1>1, <1>2, <1>3
        DEF IInv, TypeOK, Window, Rests, HeadBufSafe, demuxVars, dataVars, esVars

\* The decoder takes no more than it waits for, and waits for more.
LEMMA DecodeIInv ==
  ASSUME IInv, Decode
  PROVE  IInv'
<1> DEFINE len == Smaller(dataEnd - buf, bufpos - Len(frame))
           to  == buf + len - 1
           got == frame \o SubSeq(file.bytes, buf, to)
<1>1. Eof \in Nat \ {0} /\ Eof' = Eof /\ Transport' = Transport
  BY FilesAssumption, ByteAt DEF IInv, TypeOK, Decode, Eof, Transport
<1>2. /\ UNCHANGED <<file, size, pc, end, full, last, demuxVars, dataVars>>
      /\ pc = "data" /\ buf < dataEnd /\ buf' = buf + len
  BY DEF Decode
<1>3. /\ len \in Nat /\ len > 0 /\ len <= dataEnd - buf /\ len <= bufpos - Len(frame)
      /\ Len(frame) \in Nat
  BY <1>2, ByteAt DEF IInv, TypeOK, Rests, Smaller
<1> HIDE DEF len
<1>4. got \in Seq(0..255) /\ Len(got) = Len(frame) + len
  <2>1. file \in Files /\ buf \in Nat \ {0} /\ frame \in Seq(0..255)
    BY DEF IInv, TypeOK
  <2>2. to \in Int /\ to <= Len(file.bytes) /\ buf <= to + 1 /\ to - buf + 1 = len
    BY <1>1, <1>2, <1>3, <2>1, FilesAssumption, ByteAt DEF IInv, TypeOK, Window, Eof
  <2> HIDE DEF to
  <2>3. /\ SubSeq(file.bytes, buf, to) \in Seq(0..255)
        /\ Len(SubSeq(file.bytes, buf, to)) = to - buf + 1
    BY <2>1, <2>2, BytesOfFile
  <2> QED BY <2>1, <2>2, <2>3, ConcatProperties
<1>5. frame' \in Seq(0..255) /\ bufpos' \in Nat /\ Len(frame') < bufpos'
  <2>1. \/ Len(got) < bufpos /\ frame' = got /\ bufpos' = bufpos
        \/ /\ ~(Len(got) < bufpos) /\ bufpos = 7 /\ Syncinfo(got) = 0
           /\ frame' = Tail(got) /\ bufpos' = bufpos
        \/ /\ ~(Len(got) < bufpos) /\ bufpos = 7 /\ Syncinfo(got) # 0
           /\ frame' = got /\ bufpos' = Syncinfo(got)
        \/ frame' = << >> /\ bufpos' = 7
    BY DEF Decode, len
  <2> HIDE DEF got
  <2>2. Len(got) <= bufpos /\ bufpos \in Nat
    BY <1>3, <1>4 DEF IInv, TypeOK
  <2>3. CASE Len(got) < bufpos /\ frame' = got /\ bufpos' = bufpos
    BY <1>4, <2>2, <2>3
  <2>4. ASSUME ~(Len(got) < bufpos), bufpos = 7 PROVE Len(got) = 7
    <3>1. \A n \in Nat : ~(n < 7) /\ n <= 7 => n = 7
      OBVIOUS
    <3>2. Len(got) \in Nat /\ ~(Len(got) < 7) /\ Len(got) <= 7
      BY <1>4, <2>2, <2>4, ByteAt
    <3> QED BY <3>1, <3>2
  <2>5. CASE /\ ~(Len(got) < bufpos) /\ bufpos = 7 /\ Syncinfo(got) = 0
             /\ frame' = Tail(got) /\ bufpos' = bufpos
    <3>1. got # << >>
      BY <2>4, <2>5, EmptySeq
    <3>2. Tail(got) \in Seq(0..255) /\ Len(Tail(got)) = 6
      BY <1>4, <2>4, <2>5, <3>1, HeadTailProperties
    <3> QED BY <2>5, <3>2
  <2>7. CASE /\ ~(Len(got) < bufpos) /\ bufpos = 7 /\ Syncinfo(got) # 0
             /\ frame' = got /\ bufpos' = Syncinfo(got)
    <3>1. Len(got) = 7
      BY <2>4, <2>7
    <3>2. 5 \in 1..Len(got)
      BY <3>1
    <3>3. PICK b \in 0..255 : got[5] = b
      BY <1>4, <3>2, ByteAt
    <3>4. Syncinfo(got) = b /\ b > 7
      BY <2>7, <3>3 DEF Syncinfo
    <3>5. frame' \in Seq(0..255) /\ Len(frame') = 7 /\ bufpos' = b
      BY <1>4, <2>7, <3>1, <3>4
    <3> QED BY <3>4, <3>5
  <2>6. CASE frame' = << >> /\ bufpos' = 7
    BY <2>6, EmptySeq
  <2> QED BY <2>1, <2>3, <2>5, <2>6, <2>7
<1>6. buf' \in Nat \ {0} /\ buf' <= dataEnd
  BY <1>2, <1>3 DEF IInv, TypeOK
<1>7. buf' <= end
  BY <1>2, <1>6 DEF IInv, TypeOK, Window
<1> QED BY <1>1, <1>2, <1>5, <1>6, <1>7
        DEF IInv, TypeOK, Window, Rests, HeadBufSafe, demuxVars, dataVars
------------------------------------------------------------------------------
\* Every step keeps the invariant.
LEMMA NextIInv ==
  ASSUME IInv, [Next]_vars
  PROVE  IInv'
<1>1. CASE UNCHANGED vars
  <2>1. Eof' = Eof /\ Transport' = Transport
    BY <1>1 DEF vars, Eof, Transport
  <2> QED BY <1>1, <2>1 DEF vars, IInv, TypeOK, Window, Rests, HeadBufSafe,
                            demuxVars, dataVars, esVars
<1> QED BY <1>1, ReadIInv, PacketIInv, ResumeIInv, LoopIInv, NeedBytesIInv,
           ResyncIInv, ParsedIInv, DataDoneIInv, DecodeIInv DEF Next

\* The types, and the place of the window, are invariant; head_buf never
\* overflows, however long the headers of the file say they are (NEEDBYTES
\* in demux).
THEOREM SpecHeadBufSafe == Spec => [](TypeOK /\ HeadBufSafe)
<1>1. IInv => TypeOK /\ HeadBufSafe
  BY DEF IInv
<1> QED BY InitIInv, NextIInv, <1>1, PTL DEF Spec
------------------------------------------------------------------------------
(***************************************************************************)
(* What demux passes on, and what a52_decode_data makes of it.             *)
(***************************************************************************)

\* Bytes are passed on once and in the order of the file.
OnceInOrder ==
  /\ \A i, j \in 1..Len(out) : i < j => out[i] < out[j]
  /\ \A i \in 1..Len(out) : out[i] < buf
Passed == out \in Seq(Nat) /\ OnceInOrder

\* The length that a header at place p of the bytes b, those at the positions o,
\* gives; 0 if there is none.
SizeAt(b, o, p) ==
  IF b[o[p]] = 11 /\ b[o[p + 1]] = 119 /\ b[o[p + 4]] > 7 THEN b[o[p + 4]] ELSE 0

\* The frames fs are what a parser of these bytes finds before place s: they begin
\* at the places at, each is as long as its header says, and every other
\* place has no header.
Framed(b, o, fs, at, s) ==
  \A k \in 1..Len(fs) :
    /\ at[k] \in Nat \ {0} /\ at[k] + Len(fs[k]) <= s
    /\ Len(fs[k]) > 7 /\ Len(fs[k]) = SizeAt(b, o, at[k])
    /\ \A i \in 1..Len(fs[k]) : fs[k][i] = b[o[at[k] + i - 1]]
Apart(fs, at) == \A j, k \in 1..Len(fs) : j < k => at[j] + Len(fs[j]) <= at[k]
Seen(b, o, fs, at, p) ==
  \/ p + 6 <= Len(o) /\ SizeAt(b, o, p) = 0
  \/ \E k \in 1..Len(fs) : at[k] <= p /\ p < at[k] + Len(fs[k])
NoneMissed(b, o, fs, at, s) == \A p \in 1..(s - 1) : Seen(b, o, fs, at, p)
Found(b, o, fs, at, s) ==
  /\ s \in 1..(Len(o) + 1)
  /\ Framed(b, o, fs, at, s) /\ Apart(fs, at) /\ NoneMissed(b, o, fs, at, s)

\* The frames decoded are found before the bytes that are being collected.
Start == Len(out) - Len(frame) + 1
FramesCut ==
  /\ \E at \in [1..Len(frames) -> Nat] : Found(file.bytes, out, frames, at, Start)
  /\ \A i \in 1..Len(frame) : frame[i] = Byte(out[Start + i - 1])
Goal ==
  bufpos # 7 => bufpos > 7 /\ Len(frame) >= 7 /\ SizeAt(file.bytes, out, Start) = bufpos

PInv == IInv /\ Passed /\ frames \in Seq(Seq(0..255)) /\ FramesCut /\ Goal

\* More bytes, the ones before being the same, change nothing of what is found.
LEMMA FoundKept ==
  ASSUME NEW b, NEW o, NEW u, Len(o) \in Nat, Len(u) \in Nat, Len(o) <= Len(u),
         \A i \in 1..Len(o) : u[i] = o[i],
         NEW fs \in Seq(Seq(0..255)), NEW at, NEW s, Found(b, o, fs, at, s)
  PROVE  Found(b, u, fs, at, s)
<1> DEFINE n == Len(o)
           m == Len(u)
<1>1. n \in Nat /\ m \in Nat /\ n <= m /\ s \in 1..(n + 1) /\ s \in 1..(m + 1)
  BY DEF Found, Framed, Apart, NoneMissed, Seen
<1>2. \A p \in 1..n : p + 4 <= n => SizeAt(b, u, p) = SizeAt(b, o, p)
  <2> TAKE p \in 1..n
  <2> HAVE p + 4 <= n
  <2>1. p \in 1..n /\ p + 1 \in 1..n /\ p + 4 \in 1..n
    BY <1>1
  <2>2. u[p] = o[p] /\ u[p + 1] = o[p + 1] /\ u[p + 4] = o[p + 4]
    BY <2>1
  <2> QED
    BY <2>2 DEF SizeAt
<1>3. Len(fs) \in Nat /\ \A k \in 1..Len(fs) : Len(fs[k]) \in Nat
  <2>1. \A k \in 1..Len(fs) : fs[k] \in Seq(0..255)
    BY ElementOfSeq
  <2> QED
    BY <2>1, LenProperties
<1>4. ASSUME NEW k \in 1..Len(fs)
      PROVE  /\ at[k] \in Nat \ {0} /\ at[k] + Len(fs[k]) <= s
             /\ Len(fs[k]) > 7 /\ Len(fs[k]) = SizeAt(b, u, at[k])
             /\ \A i \in 1..Len(fs[k]) : fs[k][i] = b[u[at[k] + i - 1]]
  <2> DEFINE l == Len(fs[k])
             a == at[k]
  <2>1. /\ a \in Nat \ {0} /\ l \in Nat /\ a + l <= s /\ l > 7 /\ l = SizeAt(b, o, a)
        /\ \A i \in 1..l : fs[k][i] = b[o[a + i - 1]]
    BY <1>3, <1>4 DEF Found, Framed, Apart, NoneMissed, Seen
  <2> HIDE DEF l, a, n, m
  <2>2. a \in 1..n /\ a + 4 <= n /\ \A i \in 1..l : a + i - 1 \in 1..n
    <3>1. a \in Nat \ {0} /\ l \in Nat /\ a + l <= n + 1 /\ l > 7 /\ n \in Nat
      BY <1>1, <2>1
    <3>2. a \in 1..n /\ a + 4 <= n
      BY <3>1
    <3>3. \A i \in 1..l : a + i - 1 \in 1..n
      BY <3>1
    <3> QED
      BY <3>2, <3>3
  <2>3. l = SizeAt(b, u, a)
    BY <1>2, <2>1, <2>2
  <2>4. \A i \in 1..l : u[a + i - 1] = o[a + i - 1]
    BY <2>2 DEF n
  <2>5. \A i \in 1..l : fs[k][i] = b[u[a + i - 1]]
    BY <2>1, <2>4
  <2> QED
    BY <2>1, <2>3, <2>5 DEF l, a
<1>5. ASSUME NEW p \in 1..(s - 1)
      PROVE  \/ p + 6 <= Len(u) /\ SizeAt(b, u, p) = 0
             \/ \E k \in 1..Len(fs) : at[k] <= p /\ p < at[k] + Len(fs[k])
  <2>1. \/ p + 6 <= n /\ SizeAt(b, o, p) = 0
        \/ \E k \in 1..Len(fs) : at[k] <= p /\ p < at[k] + Len(fs[k])
    BY <1>5 DEF Found, Framed, Apart, NoneMissed, Seen
  <2> SUFFICES ASSUME p + 6 <= n, SizeAt(b, o, p) = 0
               PROVE  p + 6 <= m /\ SizeAt(b, u, p) = 0
    BY <2>1
  <2> HIDE DEF n, m
  <2>2. p \in 1..n /\ p + 4 <= n /\ p + 6 <= m
    BY <1>1
  <2> QED
    BY <1>2, <2>2
<1>6. \A j, k \in 1..Len(fs) : j < k => at[j] + Len(fs[j]) <= at[k]
  BY DEF Found, Framed, Apart, NoneMissed, Seen
<1> QED
  BY <1>1, <1>4, <1>5, <1>6 DEF Found, Framed, Apart, NoneMissed, Seen

\* A place without a header is passed.
LEMMA FoundNext ==
  ASSUME NEW b, NEW o, Len(o) \in Nat, NEW fs, NEW at, NEW s, Found(b, o, fs, at, s),
         s + 6 <= Len(o), SizeAt(b, o, s) = 0, Len(fs) \in Nat,
         \A k \in 1..Len(fs) : Len(fs[k]) \in Nat
  PROVE  Found(b, o, fs, at, s + 1)
<1>1. s \in 1..(Len(o) + 1) /\ s + 1 \in 1..(Len(o) + 1)
  BY DEF Found, Framed, Apart, NoneMissed, Seen
<1>2. \A k \in 1..Len(fs) : at[k] + Len(fs[k]) <= s + 1
  BY <1>1 DEF Found, Framed, Apart, NoneMissed, Seen
<1>3. \A p \in 1..(s + 1 - 1) : p = s \/ p \in 1..(s - 1)
  BY <1>1
<1> QED
  BY <1>1, <1>2, <1>3 DEF Found, Framed, Apart, NoneMissed, Seen

\* A frame that begins at place s is found.
LEMMA FoundFrame ==
  ASSUME NEW b, NEW o, Len(o) \in Nat, NEW fs \in Seq(Seq(0..255)),
         NEW at \in [1..Len(fs) -> Nat], NEW s, Found(b, o, fs, at, s),
         NEW f \in Seq(0..255), Len(f) > 7, Len(f) = SizeAt(b, o, s), s + Len(f) <= Len(o) + 1,
         \A i \in 1..Len(f) : f[i] = b[o[s + i - 1]]
  PROVE  \E a \in [1..Len(Append(fs, f)) -> Nat] : Found(b, o, Append(fs, f), a, s + Len(f))
<1> DEFINE n  == Len(fs)
           l  == Len(f)
           gs == Append(fs, f)
           a  == [k \in 1..(n + 1) |-> IF k = n + 1 THEN s ELSE at[k]]
<1>1. n \in Nat /\ l \in Nat /\ s \in 1..(Len(o) + 1) /\ l > 7
  BY LenProperties DEF Found, Framed, Apart, NoneMissed, Seen
<1>2. Len(gs) = n + 1 /\ gs[n + 1] = f /\ \A k \in 1..n : gs[k] = fs[k]
  BY AppendProperties
<1>3. \A k \in 1..n : Len(fs[k]) \in Nat
  BY ElementOfSeq, LenProperties
<1> HIDE DEF n, l, gs
<1>4. a \in [1..(n + 1) -> Nat] /\ a[n + 1] = s /\ \A k \in 1..n : a[k] = at[k]
  <2>1. s \in Nat
    BY <1>1
  <2>2. \A k \in 1..(n + 1) : k = n + 1 \/ k \in 1..n
    BY <1>1
  <2>3. \A k \in 1..n : k # n + 1 /\ k \in 1..(n + 1)
    BY <1>1
  <2>4. n + 1 \in 1..(n + 1)
    BY <1>1
  <2>5. \A k \in 1..n : at[k] \in Nat
    BY DEF n
  <2> QED
    BY <2>1, <2>2, <2>3, <2>4, <2>5
<1> HIDE DEF a
<1>5. \A k \in 1..(n + 1) : k = n + 1 \/ (k \in 1..n /\ k # n + 1)
  BY <1>1
<1>6. /\ \A k \in 1..n :
           /\ at[k] \in Nat \ {0} /\ at[k] + Len(fs[k]) <= s
           /\ Len(fs[k]) > 7 /\ Len(fs[k]) = SizeAt(b, o, at[k])
           /\ \A i \in 1..Len(fs[k]) : fs[k][i] = b[o[at[k] + i - 1]]
      /\ \A j, k \in 1..n : j < k => at[j] + Len(fs[j]) <= at[k]
      /\ \A p \in 1..(s - 1) :
           \/ p + 6 <= Len(o) /\ SizeAt(b, o, p) = 0
           \/ \E k \in 1..n : at[k] <= p /\ p < at[k] + Len(fs[k])
  BY DEF Found, Framed, Apart, NoneMissed, Seen, n
<1>7. ASSUME NEW k \in 1..(n + 1)
      PROVE  /\ a[k] \in Nat \ {0} /\ a[k] + Len(gs[k]) <= s + l
             /\ Len(gs[k]) > 7 /\ Len(gs[k]) = SizeAt(b, o, a[k])
             /\ \A i \in 1..Len(gs[k]) : gs[k][i] = b[o[a[k] + i - 1]]
  <2>1. CASE k = n + 1
    <3>1. Len(gs[k]) = l /\ a[k] = s /\ gs[k] = f
      BY <1>2, <1>4, <2>1 DEF l
    <3>2. \A i \in 1..l : f[i] = b[o[s + i - 1]]
      BY DEF l
    <3>3. l = SizeAt(b, o, s)
      BY DEF l
    <3>4. s \in Nat \ {0} /\ s + l <= s + l
      BY <1>1
    <3> QED
      BY <1>1, <3>1, <3>2, <3>3, <3>4
  <2>2. CASE k \in 1..n
    <3>1. gs[k] = fs[k] /\ a[k] = at[k]
      BY <1>2, <1>4, <2>2
    <3>2. /\ at[k] \in Nat \ {0} /\ at[k] + Len(fs[k]) <= s
          /\ Len(fs[k]) > 7 /\ Len(fs[k]) = SizeAt(b, o, at[k])
          /\ \A i \in 1..Len(fs[k]) : fs[k][i] = b[o[at[k] + i - 1]]
      BY <2>2 DEF Found, Framed, n
    <3>3. at[k] + Len(fs[k]) <= s + l
      <4>1. s \in Nat /\ l \in Nat /\ Len(fs[k]) \in Nat
        BY <1>1, <1>3, <2>2
      <4>2. \A x, y, u, v \in Nat : x + y <= u => x + y <= u + v
        OBVIOUS
      <4> QED
        BY <3>2, <4>1, <4>2
    <3> QED
      BY <3>1, <3>2, <3>3
  <2> QED
    BY <1>5, <2>1, <2>2
<1>8. ASSUME NEW j \in 1..(n + 1), NEW k \in 1..(n + 1), j < k
      PROVE  a[j] + Len(gs[j]) <= a[k]
  <2>1. j \in 1..n
    BY <1>1, <1>8
  <2>2. a[j] = at[j] /\ gs[j] = fs[j]
    BY <1>2, <1>4, <2>1
  <2>3. CASE k = n + 1
    BY <1>4, <1>6, <2>1, <2>2, <2>3
  <2>4. CASE k \in 1..n
    BY <1>4, <1>6, <1>8, <2>1, <2>2, <2>4
  <2> QED
    BY <1>5, <2>3, <2>4
<1>9. ASSUME NEW p \in 1..((s + l) - 1)
      PROVE  \/ p + 6 <= Len(o) /\ SizeAt(b, o, p) = 0
             \/ \E k \in 1..(n + 1) : a[k] <= p /\ p < a[k] + Len(gs[k])
  <2>1. CASE p \in 1..(s - 1)
    <3>1. CASE p + 6 <= Len(o) /\ SizeAt(b, o, p) = 0
      BY <3>1
    <3>2. CASE \E k \in 1..n : at[k] <= p /\ p < at[k] + Len(fs[k])
      <4>1. PICK k \in 1..n : at[k] <= p /\ p < at[k] + Len(fs[k])
        BY <3>2
      <4>2. k \in 1..(n + 1) /\ a[k] <= p /\ p < a[k] + Len(gs[k])
        BY <1>1, <1>2, <1>4, <4>1
      <4> QED
        BY <4>2
    <3> QED
      BY <1>6, <2>1, <3>1, <3>2
  <2>2. CASE s <= p
    <3>1. n + 1 \in 1..(n + 1) /\ a[n + 1] = s /\ Len(gs[n + 1]) = l
      BY <1>1, <1>2, <1>4 DEF l
    <3>2. s <= p /\ p < s + l
      BY <1>1, <2>2
    <3> QED
      BY <3>1, <3>2
  <2> QED
    BY <1>1, <2>1, <2>2
<1>10. s + l \in 1..(Len(o) + 1)
  <2>1. s + l <= Len(o) + 1
    BY DEF l
  <2> QED
    BY <1>1, <2>1
<1>11. Found(b, o, gs, a, s + l)
  <2>1. Len(gs) = n + 1
    BY <1>2
  <2>2. Framed(b, o, gs, a, s + l)
    BY <1>7, <2>1, Zenon DEF Framed
  <2>3. Apart(gs, a)
    BY <1>8, <2>1, Zenon DEF Apart
  <2>4. NoneMissed(b, o, gs, a, s + l)
    <3>1. ASSUME NEW p \in 1..((s + l) - 1)
          PROVE  Seen(b, o, gs, a, p)
      BY <1>9, <2>1 DEF Seen
    <3> QED
      BY <3>1 DEF NoneMissed
  <2> QED
    BY <1>10, <2>2, <2>3, <2>4 DEF Found
<1> QED
  BY <1>2, <1>4, <1>11 DEF gs, l
------------------------------------------------------------------------------
\* Whatever demux does, it goes on in the file, and what was decoded stays.
LEMMA Onward ==
  ASSUME IInv, Next, ~Decode
  PROVE  buf <= buf' /\ UNCHANGED <<file, esVars>>
<1>1. buf \in Nat /\ last \in Nat /\ (pc \in {"demux", "loop", "header", "data"} => buf <= last)
  BY DEF IInv, TypeOK, Window
<1>2. CASE Read
  BY <1>1, <1>2 DEF Read
<1>3. CASE Packet
  <2> DEFINE next    == buf + PacketSize
             adapted == Bit(Byte(buf + 3), 32)
             payload == IF adapted THEN buf + 5 + Byte(buf + 4) ELSE buf + 4
  <2>1. next \in Nat /\ buf <= next /\ next > buf + 4
    BY <1>1, PacketSizeAssumption
  <2>2. CASE next > end
    BY <1>1, <1>3, <2>2 DEF Packet
  <2>3. CASE ~(next > end)
    <3>1. PICK b \in 0..255 : Byte(buf + 4) = b
      <4>1. file.bytes \in Seq(0..255) /\ Len(file.bytes) \in Nat
        BY FilesAssumption, ByteAt DEF IInv, TypeOK
      <4>2. buf + 4 \in 1..Len(file.bytes)
        BY <1>1, <2>1, <2>3, <4>1 DEF IInv, TypeOK, Window, Eof
      <4> QED
        BY <4>1, <4>2, ByteAt DEF Byte
    <3>2. payload \in {buf + 5 + b, buf + 4}
      BY <3>1
    <3>3. buf' \in {buf + 1, next, payload} /\ UNCHANGED <<file, esVars>>
      BY <1>3, <2>3 DEF Packet
    <3> HIDE DEF payload
    <3> QED
      BY <1>1, <2>1, <3>2, <3>3
  <2> QED
    BY <2>2, <2>3
<1>4. CASE Resume
  <2>1. CASE state = "skip"
    <3>1. /\ UNCHANGED <<file, esVars>>
          /\ buf' = IF Transport \/ state_bytes > last - buf THEN last ELSE buf + state_bytes
      BY <1>4, <2>1 DEF Resume
    <3>2. state_bytes \in Int /\ (Transport \/ state_bytes >= 0) /\ buf <= last
      BY <1>1, <1>4, <2>1 DEF IInv, TypeOK, Rests, Resume
    <3> QED
      BY <1>1, <3>1, <3>2
  <2>2. CASE state # "skip"
    BY <1>1, <1>4, <2>2 DEF Resume
  <2> QED
    BY <2>1, <2>2
<1>5. CASE Loop
  <2>1. UNCHANGED <<file, esVars>> /\ buf' \in {buf, last} /\ buf <= last
    BY <1>1, <1>5 DEF Loop
  <2> QED
    BY <1>1, <2>1
<1>6. CASE pc = "header" /\ NeedBytes
  <2>1. /\ Header \in Seq(0..255) /\ Len(Header) \in Nat
        /\ Needs(file, Header) \in 4..268 /\ Len(Header) < Needs(file, Header)
    BY <1>6, HeaderBytes, HeaderFits, ByteAt DEF IInv, NeedBytes
  <2>2. Taken \in Nat
    <3> DEFINE k == Needs(file, Header) - Len(Header)
    <3>1. k \in Nat
      <4>1. \A x \in 4..268, y \in Nat : y < x => x - y \in Nat
        OBVIOUS
      <4> QED
        BY <2>1, <4>1
    <3>2. last - buf \in Nat
      BY <1>1, <1>6
    <3> HIDE DEF k
    <3> QED
      BY <3>1, <3>2 DEF Taken, Smaller, k
  <2>3. UNCHANGED <<file, esVars>> /\ buf' \in {last, buf + Taken} /\ buf <= last
    BY <1>1, <1>6 DEF NeedBytes
  <2> HIDE DEF Taken
  <2> QED
    BY <1>1, <2>2, <2>3
<1>7. CASE Resync
  <2>1. UNCHANGED <<file, esVars>> /\ buf' \in {last, buf, buf + 1} /\ buf <= last
    BY <1>1, <1>7 DEF Resync
  <2> QED
    BY <1>1, <2>1
<1>8. CASE Parsed
  <2>1. CASE buf' = buf
    BY <1>1, <1>8, <2>1, ParsedStep
  <2>2. CASE \E from \in Nat, bytes \in Int :
               buf <= from /\ from <= last /\ (Payload(from, bytes) \/ Skip(from, bytes))
    <3>1. PICK from \in Nat, bytes \in Int :
            buf <= from /\ from <= last /\ (Payload(from, bytes) \/ Skip(from, bytes))
      BY <2>2
    <3>2. buf' \in {from, last} \/ (bytes > 0 /\ buf' = from + bytes)
      BY <3>1 DEF Payload, Skip
    <3>3. buf <= buf'
      BY <1>1, <3>1, <3>2
    <3> QED
      BY <1>8, <3>3, ParsedStep
  <2> QED
    BY <1>8, <2>1, <2>2, ParsedStep
<1>9. CASE DataDone
  BY <1>1, <1>9 DEF DataDone
<1>10. NeedBytes => pc = "header"
  BY DEF NeedBytes
<1> QED
  BY <1>2, <1>3, <1>4, <1>5, <1>6, <1>7, <1>8, <1>9, <1>10 DEF Next

\* What is in two sequences that are joined.
LEMMA Joined ==
  ASSUME NEW S, NEW s \in Seq(S), NEW t \in Seq(S)
  PROVE  /\ s \o t \in Seq(S) /\ Len(s \o t) = Len(s) + Len(t)
         /\ \A i \in 1..Len(s) : (s \o t)[i] = s[i]
         /\ \A i \in 1..Len(t) : (s \o t)[Len(s) + i] = t[i]
<1> DEFINE m == Len(s)  n == Len(t)  u == s \o t
<1>1. m \in Nat /\ n \in Nat
  BY LenProperties
<1>2. /\ u \in Seq(S) /\ Len(u) = m + n
      /\ \A i \in 1..(m + n) : u[i] = IF i <= m THEN s[i] ELSE t[i - m]
  BY ConcatProperties
<1> HIDE DEF u, m, n
<1>3. \A i \in 1..m : i \in 1..(m + n) /\ i <= m
  BY <1>1
<1>4. \A i \in 1..n : m + i \in 1..(m + n) /\ ~(m + i <= m) /\ (m + i) - m = i
  BY <1>1
<1>5. \A i \in 1..n : u[m + i] = t[i]
  BY <1>2, <1>4
<1>6. \A i \in 1..m : u[i] = s[i]
  BY <1>2, <1>3
<1> QED
  BY <1>2, <1>5, <1>6 DEF u, m, n

\* What is decoded is passed on once, and what is cut from it are frames.
LEMMA DecodeCuts ==
  ASSUME PInv, Decode
  PROVE  Passed' /\ (frames \in Seq(Seq(0..255)))' /\ FramesCut' /\ Goal'
<1> DEFINE n     == Len(frame)
           m     == Len(out)
           len   == Smaller(dataEnd - buf, bufpos - n)
           to    == buf + len - 1
           piece == SubSeq(file.bytes, buf, to)
           got   == frame \o piece
           chunk == [i \in 1..len |-> buf + i - 1]
           st    == Start
           o     == out'
<1>1. /\ file' = file /\ buf' = buf + len /\ out' = out \o chunk
      /\ pc = "data" /\ buf < dataEnd
  BY DEF Decode
<1>2. /\ file \in Files /\ buf \in Nat \ {0} /\ dataEnd \in Nat /\ bufpos \in Nat
      /\ frame \in Seq(0..255) /\ out \in Seq(Nat) /\ frames \in Seq(Seq(0..255))
      /\ n \in Nat /\ m \in Nat /\ n < bufpos
  <2>1. frame \in Seq(0..255) /\ out \in Seq(Nat)
    BY DEF PInv, IInv, TypeOK, Passed
  <2> QED
    BY <2>1, LenProperties DEF PInv, IInv, TypeOK, Rests
<1>3. len \in Nat /\ len > 0 /\ len <= dataEnd - buf /\ len <= bufpos - n
  BY <1>1, <1>2 DEF Smaller
<1> HIDE DEF len, n, m
<1>4. /\ to \in Int /\ to <= Len(file.bytes) /\ buf <= to + 1 /\ to - buf + 1 = len
      /\ file.bytes \in Seq(0..255) /\ Len(file.bytes) \in Nat
  <2>1. file.bytes \in Seq(0..255) /\ Len(file.bytes) \in Nat
    BY <1>2, FilesAssumption, ByteAt
  <2>2. dataEnd <= Len(file.bytes) + 1
    BY <1>1, <1>2, <2>1 DEF PInv, IInv, TypeOK, Window, Eof
  <2> QED
    BY <1>2, <1>3, <2>1, <2>2
<1>5. /\ piece \in Seq(0..255) /\ Len(piece) = len
      /\ \A i \in 1..len : piece[i] = file.bytes[buf + i - 1]
  <2> HIDE DEF to
  <2>1. piece \in Seq(0..255) /\ Len(piece) = len
    BY <1>2, <1>4, BytesOfFile
  <2>2. \A i \in buf..to : file.bytes[i] \in 0..255
    BY <1>2, <1>4, ByteAt
  <2>3. \A i \in 1..(to - buf + 1) : piece[i] = file.bytes[buf + i - 1]
    BY <1>2, <1>4, <2>2, SubSeqProperties
  <2> QED
    BY <1>4, <2>1, <2>3
<1>6. chunk \in Seq(Nat) /\ Len(chunk) = len /\ \A i \in 1..len : chunk[i] = buf + i - 1
  <2>1. \A i \in 1..len : buf + i - 1 \in Nat
    BY <1>2, <1>3
  <2> QED
    BY <1>3, <2>1
<1> HIDE DEF piece, chunk, to
<1>7. /\ got \in Seq(0..255) /\ Len(got) = n + len
      /\ \A i \in 1..n : got[i] = frame[i]
      /\ \A i \in 1..len : got[n + i] = file.bytes[buf + i - 1]
  <2>1. /\ got \in Seq(0..255) /\ Len(got) = Len(frame) + Len(piece)
        /\ \A i \in 1..Len(frame) : got[i] = frame[i]
        /\ \A i \in 1..Len(piece) : got[Len(frame) + i] = piece[i]
    <3>1. frame \in Seq(0..255) /\ piece \in Seq(0..255)
      BY <1>2, <1>5
    <3>2. got \in Seq(0..255) /\ Len(got) = Len(frame) + Len(piece)
      BY <3>1, Joined
    <3>3. \A i \in 1..Len(frame) : got[i] = frame[i]
      BY <3>1, Joined
    <3>4. \A i \in 1..Len(piece) : got[Len(frame) + i] = piece[i]
      BY <3>1, Joined
    <3> QED
      BY <3>2, <3>3, <3>4
  <2> HIDE DEF got
  <2>2. Len(frame) = n /\ Len(piece) = len
    BY <1>5 DEF n
  <2>3. /\ Len(got) = n + len
        /\ \A i \in 1..n : got[i] = frame[i]
        /\ \A i \in 1..len : got[n + i] = piece[i]
    BY <2>1, <2>2
  <2> QED
    BY <1>5, <2>1, <2>3
<1>8. /\ o \in Seq(Nat) /\ Len(o) = m + len
      /\ \A i \in 1..m : o[i] = out[i]
      /\ \A i \in 1..len : o[m + i] = buf + i - 1
  <2>1. o = out \o chunk
    BY <1>1
  <2> HIDE DEF o
  <2>2. /\ o \in Seq(Nat) /\ Len(o) = Len(out) + Len(chunk)
        /\ \A i \in 1..Len(out) : o[i] = out[i]
        /\ \A i \in 1..Len(chunk) : o[Len(out) + i] = chunk[i]
    <3>1. out \in Seq(Nat) /\ chunk \in Seq(Nat)
      BY <1>2, <1>6
    <3>2. out \o chunk \in Seq(Nat) /\ Len(out \o chunk) = Len(out) + Len(chunk)
      BY <3>1, Joined
    <3>3. \A i \in 1..Len(out) : (out \o chunk)[i] = out[i]
      BY <3>1, Joined
    <3>4. \A i \in 1..Len(chunk) : (out \o chunk)[Len(out) + i] = chunk[i]
      BY <3>1, Joined
    <3> QED
      BY <2>1, <3>2, <3>3, <3>4, Zenon
  <2>3. Len(out) = m /\ Len(chunk) = len
    BY <1>6 DEF m
  <2>4. /\ Len(o) = m + len
        /\ \A i \in 1..m : o[i] = out[i]
        /\ \A i \in 1..len : o[m + i] = chunk[i]
    BY <2>2, <2>3
  <2> QED
    BY <1>6, <2>2, <2>4
<1> HIDE DEF got, o
<1>9. Passed'
  <2>1. /\ \A i, j \in 1..m : i < j => out[i] < out[j]
        /\ \A i \in 1..m : out[i] < buf /\ out[i] \in Nat
    BY <1>2, ElementOfSeq DEF PInv, Passed, OnceInOrder, m
  <2>2. \A i \in 1..(m + len) : i \in 1..m \/ (i - m \in 1..len /\ i = m + (i - m) /\ i > m)
    BY <1>2, <1>3
  <2>3. ASSUME NEW i \in 1..(m + len), ~(i \in 1..m) PROVE o[i] = buf + (i - m) - 1
    BY <1>8, <2>2, <2>3
  <2>4. ASSUME NEW i \in 1..(m + len) PROVE o[i] < buf + len
    <3>1. CASE i \in 1..m
      <4>1. o[i] = out[i] /\ out[i] < buf /\ out[i] \in Nat
        BY <1>8, <2>1, <3>1
      <4> QED
        BY <1>2, <1>3, <4>1
    <3>2. CASE ~(i \in 1..m)
      BY <1>2, <1>3, <2>2, <2>3, <3>2
    <3> QED
      BY <3>1, <3>2
  <2>5. ASSUME NEW i \in 1..(m + len), NEW j \in 1..(m + len), i < j PROVE o[i] < o[j]
    <3>1. CASE j \in 1..m
      <4>1. i \in 1..m
        BY <1>2, <2>5, <3>1
      <4> QED
        BY <1>8, <2>1, <2>5, <3>1, <4>1
    <3>2. CASE ~(j \in 1..m) /\ i \in 1..m
      <4>1. o[i] = out[i] /\ out[i] < buf /\ out[i] \in Nat
        BY <1>8, <2>1, <3>2
      <4>2. o[j] = buf + (j - m) - 1 /\ j - m \in 1..len
        BY <2>2, <2>3, <3>2
      <4> QED
        BY <1>2, <1>3, <4>1, <4>2
    <3>3. CASE ~(j \in 1..m) /\ ~(i \in 1..m)
      BY <1>2, <1>3, <2>3, <2>5, <3>3
    <3> QED
      BY <3>1, <3>2, <3>3
  <2>6. Len(o) = m + len /\ o \in Seq(Nat)
    BY <1>8
  <2>7. OnceInOrder'
    BY <1>1, <2>4, <2>5, <2>6 DEF OnceInOrder, o
  <2> QED
    BY <2>6, <2>7 DEF Passed, o
<1>10. st = m - n + 1 /\ st \in 1..(m + 1)
  BY DEF Start, m, n, PInv, FramesCut, Found
<1>11. \A i \in 1..(n + len) : got[i] = file.bytes[o[st + i - 1]]
  <2> TAKE i \in 1..(n + len)
  <2>1. CASE i <= n
    <3>1. i \in 1..n /\ st + i - 1 \in 1..m
      BY <1>2, <1>10, <2>1
    <3>2. frame[i] = file.bytes[out[st + i - 1]]
      BY <3>1 DEF PInv, FramesCut, Byte, n
    <3> QED
      BY <1>7, <1>8, <3>1, <3>2
  <2>2. CASE ~(i <= n)
    <3>1. i - n \in 1..len /\ n + (i - n) = i /\ m + (i - n) = st + i - 1
      BY <1>2, <1>3, <1>10, <2>2
    <3>2. got[n + (i - n)] = file.bytes[buf + (i - n) - 1]
      BY <1>7, <3>1
    <3>3. o[m + (i - n)] = buf + (i - n) - 1
      BY <1>8, <3>1
    <3> QED
      BY <3>1, <3>2, <3>3
  <2> QED
    BY <2>1, <2>2
<1>12. PICK at \in [1..Len(frames) -> Nat] : Found(file.bytes, out, frames, at, st)
  BY DEF PInv, FramesCut
<1>13. Found(file.bytes, o, frames, at, st)
  <2>1. Len(out) \in Nat /\ Len(o) \in Nat /\ Len(out) <= Len(o) /\ \A i \in 1..Len(out) : o[i] = out[i]
    BY <1>2, <1>3, <1>8 DEF m
  <2> QED
    BY <1>2, <1>12, <2>1, FoundKept
<1>14. n + len >= 5 => SizeAt(file.bytes, o, st) = Syncinfo(got)
  <2> HAVE n + len >= 5
  <2>1. 1 \in 1..(n + len) /\ 2 \in 1..(n + len) /\ 5 \in 1..(n + len)
    BY <1>2, <1>3
  <2>2. st + 1 - 1 = st /\ st + 2 - 1 = st + 1 /\ st + 5 - 1 = st + 4
    BY <1>10
  <2>3. /\ got[1] = file.bytes[o[st]] /\ got[2] = file.bytes[o[st + 1]]
        /\ got[5] = file.bytes[o[st + 4]]
    BY <1>11, <2>1, <2>2
  <2> QED
    BY <2>3 DEF SizeAt, Syncinfo
<1>15. bufpos # 7 => bufpos > 7 /\ n >= 7 /\ SizeAt(file.bytes, o, st) = bufpos
  <2> HAVE bufpos # 7
  <2>1. bufpos > 7 /\ n >= 7 /\ SizeAt(file.bytes, out, st) = bufpos
    BY DEF PInv, Goal, n
  <2>2. st \in 1..m /\ st + 1 \in 1..m /\ st + 4 \in 1..m
    BY <1>2, <1>10, <2>1
  <2>3. o[st] = out[st] /\ o[st + 1] = out[st + 1] /\ o[st + 4] = out[st + 4]
    BY <1>8, <2>2
  <2> QED
    BY <2>1, <2>3 DEF SizeAt
<1>16. Len(got) = n + len /\ n + len <= bufpos /\ n + len \in Nat
  BY <1>2, <1>3, <1>7
\* Where the bytes that are kept begin, however many come in.
<1>17. (m + len) - (n + len) + 1 = st /\ \A k \in Nat : n + len = k => (m + len) - k + 1 = st
  BY <1>2, <1>3, <1>10
<1>18. frame' = got => Len(o) - Len(frame') + 1 = st
  BY <1>8, <1>16, <1>17
<1> HIDE DEF st
\* Where the bytes that are kept begin is where the next frame is looked for.
<1>19. ASSUME Len(o) - Len(frame') + 1 = st, frame' = got, frames' = frames
       PROVE  FramesCut'
  <2>1. Start' = st
    BY <1>19 DEF Start, o
  <2>2. Found(file'.bytes, o, frames', at, st) /\ at \in [1..Len(frames') -> Nat]
    BY <1>1, <1>12, <1>13, <1>19
  <2>3. \A i \in 1..Len(frame') : frame'[i] = file'.bytes[o[st + i - 1]]
    BY <1>1, <1>11, <1>16, <1>19
  <2> QED
    BY <2>1, <2>2, <2>3 DEF FramesCut, Byte, o
<1>20. CASE Len(got) < bufpos
  <2>1. frame' = got /\ UNCHANGED <<bufpos, frames>>
    BY <1>20 DEF Decode, got, piece, to, len, n
  <2>2. Len(o) - Len(frame') + 1 = st
    BY <1>18, <2>1
  <2>3. Goal'
    <3>1. Start' = st
      BY <2>2 DEF Start, o
    <3>2. bufpos # 7 => Len(frame') >= 7
      BY <1>2, <1>3, <1>15, <1>16, <2>1
    <3> QED
      BY <1>1, <1>15, <2>1, <3>1, <3>2 DEF Goal, o
  <2> QED
    BY <1>2, <1>9, <1>19, <2>1, <2>2, <2>3
<1>21. CASE Len(got) = bufpos /\ bufpos = 7 /\ Syncinfo(got) = 0
  <2>1. frame' = Tail(got) /\ UNCHANGED <<bufpos, frames>>
    <3>1. ~(Len(got) < bufpos)
      BY <1>21
    <3> QED
      BY <1>21, <3>1 DEF Decode, got, piece, to, len, n
  <2>2. got # << >>
    BY <1>21, EmptySeq
  <2>3. Len(frame') = 6 /\ \A i \in 1..6 : frame'[i] = got[i + 1]
    <3>1. Len(Tail(got)) = Len(got) - 1 /\ \A i \in 1..Len(Tail(got)) : Tail(got)[i] = got[i + 1]
      BY <1>7, <2>2, HeadTailProperties
    <3>2. Len(got) = 7
      BY <1>21
    <3>3. Len(Tail(got)) = 6
      BY <3>1, <3>2
    <3> QED
      BY <2>1, <3>1, <3>3
  <2>4. Len(o) - Len(frame') + 1 = st + 1 /\ st + 6 <= Len(o) /\ Len(o) \in Nat /\ n + len = 7
    <3>1. n + len = 7
      BY <1>16, <1>21
    <3>2. (m + len) - 7 + 1 = st /\ m + len \in Nat /\ st \in Nat
      BY <1>2, <1>3, <1>10, <1>17, <3>1
    <3>3. (m + len) - 6 + 1 = st + 1 /\ st + 6 <= m + len
      BY <3>2
    <3> QED
      BY <1>8, <2>3, <3>1, <3>2, <3>3
  <2>5. Start' = st + 1
    BY <2>4 DEF Start, o
  <2>6. Len(frames) \in Nat /\ \A k \in 1..Len(frames) : Len(frames[k]) \in Nat
    <3>1. \A k \in 1..Len(frames) : frames[k] \in Seq(0..255)
      BY <1>2, ElementOfSeq
    <3> QED
      BY <1>2, <3>1, LenProperties
  <2>7. SizeAt(file.bytes, o, st) = 0
    BY <1>14, <1>21, <2>4
  <2>8. Found(file.bytes, o, frames, at, st + 1)
    BY <1>13, <2>4, <2>6, <2>7, FoundNext
  <2>9. \A i \in 1..6 : frame'[i] = file.bytes[o[st + 1 + i - 1]]
    <3> TAKE i \in 1..6
    <3>1. i + 1 \in 1..(n + len) /\ st + (i + 1) - 1 = st + 1 + i - 1
      BY <1>10, <2>4
    <3> QED
      BY <1>11, <2>3, <3>1
  <2>10. FramesCut'
    BY <1>1, <1>12, <2>1, <2>3, <2>5, <2>8, <2>9 DEF FramesCut, Byte, o
  <2>11. Goal'
    BY <1>21, <2>1 DEF Goal
  <2> QED
    BY <1>2, <1>9, <2>1, <2>10, <2>11
<1>22. CASE Len(got) = bufpos /\ bufpos = 7 /\ Syncinfo(got) # 0
  <2>1. frame' = got /\ bufpos' = Syncinfo(got) /\ frames' = frames
    <3>1. ~(Len(got) < bufpos)
      BY <1>22
    <3> QED
      BY <1>22, <3>1 DEF Decode, got, piece, to, len, n
  <2>2. Len(o) - Len(frame') + 1 = st
    BY <1>18, <2>1
  <2>3. Start' = st
    BY <2>2 DEF Start, o
  <2>4. SizeAt(file.bytes, o, st) = Syncinfo(got)
    <3>1. n + len = 7
      BY <1>16, <1>22
    <3> QED
      BY <1>14, <3>1
  <2>5. Syncinfo(got) > 7
    BY <1>22 DEF Syncinfo
  <2>6. Len(frame') >= 7
    <3>1. Len(got) = 7
      BY <1>22
    <3> QED
      BY <2>1, <3>1
  <2>7. Goal'
    BY <1>1, <2>1, <2>3, <2>4, <2>5, <2>6 DEF Goal, o
  <2> QED
    BY <1>2, <1>9, <1>19, <2>1, <2>2, <2>7
<1>23. CASE Len(got) = bufpos /\ bufpos # 7
  <2>1. frames' = Append(frames, got) /\ frame' = << >> /\ bufpos' = 7
    <3>1. ~(Len(got) < bufpos)
      BY <1>2, <1>23
    <3> QED
      BY <1>23, <3>1 DEF Decode, got, piece, to, len, n
  <2>2. frames' \in Seq(Seq(0..255))
    BY <1>2, <1>7, <2>1, AppendProperties
  <2>3. Len(got) > 7 /\ Len(got) = SizeAt(file.bytes, o, st)
    BY <1>15, <1>23
  <2>4. st + Len(got) <= Len(o) + 1 /\ Len(o) \in Nat /\ Len(o) - 0 + 1 = st + Len(got)
    BY <1>2, <1>3, <1>8, <1>10, <1>16
  <2>5. \A i \in 1..Len(got) : got[i] = file.bytes[o[st + i - 1]]
    BY <1>11, <1>16
  <2>6. \E a \in [1..Len(Append(frames, got)) -> Nat] :
          Found(file.bytes, o, Append(frames, got), a, st + Len(got))
    BY <1>2, <1>7, <1>12, <1>13, <2>3, <2>4, <2>5, FoundFrame
  <2>7. Len(frame') = 0
    BY <2>1, EmptySeq
  <2>8. Start' = st + Len(got)
    BY <2>4, <2>7 DEF Start, o
  <2>9. \A i \in 1..Len(frame') : FALSE
    BY <2>7
  <2>10. FramesCut'
    BY <1>1, <2>1, <2>6, <2>8, <2>9 DEF FramesCut, o
  <2>11. Goal'
    BY <2>1 DEF Goal
  <2> QED
    BY <1>9, <2>2, <2>10, <2>11
<1>24. Len(got) < bufpos \/ Len(got) = bufpos
  BY <1>2, <1>16
<1> QED
  BY <1>20, <1>21, <1>22, <1>23, <1>24
------------------------------------------------------------------------------
\* At the start nothing is decoded, and what demux parses is not.
LEMMA InitPInv == Init => PInv
<1> SUFFICES ASSUME Init PROVE PInv
  OBVIOUS
<1>1. out = << >> /\ frames = << >> /\ frame = << >> /\ bufpos = 7
  BY DEF Init
<1>2. out \in Seq(Nat) /\ Len(out) = 0 /\ Len(frame) = 0 /\ Len(frames) = 0
  BY <1>1, EmptySeq
<1>3. Passed
  BY <1>2 DEF Passed, OnceInOrder
<1>4. frames \in Seq(Seq(0..255))
  BY <1>1, EmptySeq
<1>5. FramesCut
  <2>1. Start = 1
    BY <1>2 DEF Start
  <2> DEFINE at == [k \in 1..0 |-> 0]
  <2>2. at \in [1..Len(frames) -> Nat]
    BY <1>2
  <2> HIDE DEF at
  <2>3. Found(file.bytes, out, frames, at, 1)
    BY <1>2 DEF Found, Framed, Apart, NoneMissed
  <2>4. \A i \in 1..Len(frame) : FALSE
    BY <1>2
  <2> QED
    BY <2>1, <2>2, <2>3, <2>4 DEF FramesCut
<1>6. Goal
  BY <1>1 DEF Goal
<1> QED
  BY InitIInv, <1>3, <1>4, <1>5, <1>6 DEF PInv

\* Every step keeps what was passed on and cut, or adds to it.
LEMMA NextPInv ==
  ASSUME PInv, [Next]_vars
  PROVE  PInv'
<1>1. IInv'
  BY NextIInv DEF PInv
<1>2. CASE Decode
  BY <1>1, <1>2, DecodeCuts DEF PInv
<1>3. CASE ~Decode
  <2>1. buf <= buf' /\ UNCHANGED <<file, esVars>>
    <3>1. CASE UNCHANGED vars
      BY <3>1 DEF vars, esVars, PInv, IInv, TypeOK
    <3> QED
      BY <1>3, <3>1, Onward DEF PInv
  <2>2. out \in Seq(Nat) /\ buf \in Nat /\ buf' \in Nat
    BY <1>1 DEF PInv, Passed, IInv, TypeOK
  <2>3. Passed'
    <3>1. \A i \in 1..Len(out) : out[i] \in Nat
      BY <2>2, ElementOfSeq
    <3> QED
      BY <2>1, <2>2, <3>1 DEF PInv, Passed, OnceInOrder, esVars
  <2>4. (frames \in Seq(Seq(0..255)))' /\ FramesCut' /\ Goal'
    BY <2>1 DEF PInv, FramesCut, Goal, Start, Byte, esVars
  <2> QED
    BY <1>1, <2>3, <2>4 DEF PInv
<1> QED
  BY <1>2, <1>3

\* However the buffer cuts the file, and whatever the file says: demux passes no
\* byte on twice and none before one that it passed on earlier.
THEOREM BytesPassOnce == Spec => []OnceInOrder
<1>1. PInv => OnceInOrder
  BY DEF PInv, Passed
<1> QED
  BY InitPInv, NextPInv, <1>1, PTL DEF Spec

\* The frames that a52_decode_data decodes are cut from the bytes passed on as a
\* parser of all of them would cut them: each begins at a header and is as long
\* as that says, they do not overlap, and between them there is no header.  Where
\* demux is called, and with how many bytes, makes no difference.
THEOREM FramesAreCut == Spec => []FramesCut
<1>1. PInv => FramesCut
  BY DEF PInv
<1> QED
  BY InitPInv, NextPInv, <1>1, PTL DEF Spec
------------------------------------------------------------------------------
(***************************************************************************)
(* How much of a header has to be there is asked for step by step.  What   *)
(* is asked for never is more than the header has, and once that is there  *)
(* the bytes behind it change nothing.                                     *)
(***************************************************************************)
Begins(h, g) == Len(h) <= Len(g) /\ \A i \in 1..Len(h) : h[i] = g[i]

\* The fields of an MPEG-2 header.
LEMMA PesGrows ==
  ASSUME NEW h \in Seq(0..255), NEW g \in Seq(0..255), Begins(h, g), NEW extra \in {0, 1}
  PROVE  /\ PesNeeds(h, extra) <= PesNeeds(g, extra)
         /\ Len(h) >= PesNeeds(h, extra) => PesNeeds(g, extra) = PesNeeds(h, extra)
<1>1. Len(h) \in Nat /\ Len(g) \in Nat /\ Len(h) <= Len(g)
  BY ByteAt DEF Begins
<1>2. CASE Len(h) < 9
  <2>1. PesNeeds(h, extra) = 9
    BY <1>2 DEF PesNeeds
  <2>2. PICK n \in 9..265 : PesNeeds(g, extra) = n
    BY PesShort
  <2> QED
    BY <1>1, <1>2, <2>1, <2>2
<1>3. CASE Len(h) >= 9
  <2>1. h[9] = g[9] /\ ~(Len(h) < 9) /\ ~(Len(g) < 9)
    BY <1>1, <1>3 DEF Begins
  <2>2. PesNeeds(g, extra) = PesNeeds(h, extra)
    BY <2>1 DEF PesNeeds
  <2>3. PICK n \in 9..265 : PesNeeds(h, extra) = n
    BY PesShort
  <2> QED
    BY <2>2, <2>3
<1> QED
  BY <1>1, <1>2, <1>3

\* The stuffing of an MPEG-1 header, and what is behind it.
LEMMA Mpeg1Grows ==
  ASSUME NEW h \in Seq(0..255), NEW g \in Seq(0..255), Begins(h, g), Len(h) >= 7
  PROVE  /\ Mpeg1Needs(h) <= Mpeg1Needs(g)
         /\ Len(h) >= Mpeg1Needs(h) => Mpeg1Needs(g) = Mpeg1Needs(h)
<1> DEFINE n    == Len(h)
           m    == Len(g)
           S    == {k \in 7..23 : k = 23 \/ k > n \/ h[k] # 255}
           T    == {k \in 7..23 : k = 23 \/ k > m \/ g[k] # 255}
           s    == Min(S)
           t    == Min(T)
           hafter == IF h[s] \div 64 = 1 THEN s + 2 ELSE s
           gafter == IF g[t] \div 64 = 1 THEN t + 2 ELSE t
           hskip  == mpeg1_skip_table(h[hafter])
           gskip  == mpeg1_skip_table(g[gafter])
<1>1. n \in Nat /\ m \in Nat /\ n <= m /\ \A i \in 1..n : h[i] = g[i]
  BY ByteAt DEF Begins
<1>2. /\ Mpeg1Needs(h) = IF s > n THEN s ELSE IF hafter > n THEN hafter ELSE hafter + hskip + 1
      /\ Mpeg1Needs(g) = IF t > m THEN t ELSE IF gafter > m THEN gafter ELSE gafter + gskip + 1
  BY DEF Mpeg1Needs
<1>3. hskip \in {0, 4, 9} /\ gskip \in {0, 4, 9}
  BY DEF mpeg1_skip_table
<1>4. S \subseteq 7..23 /\ T \subseteq 7..23 /\ 23 \in S /\ 23 \in T
  <2>1. S \subseteq 7..23 /\ T \subseteq 7..23
    OBVIOUS
  <2>2. 23 \in 7..23
    OBVIOUS
  <2>3. 23 \in S
    BY <2>2
  <2>4. 23 \in T
    BY <2>2
  <2> QED
    BY <2>1, <2>3, <2>4
<1>5. T \subseteq S
  <2> SUFFICES ASSUME NEW k \in T PROVE k \in S
    OBVIOUS
  <2>1. k \in 7..23 /\ (k = 23 \/ k > m \/ g[k] # 255)
    OBVIOUS
  <2>2. k \in 1..n \/ k > n
    BY <1>1, <2>1
  <2>3. k > m => k > n
    BY <1>1, <2>1
  <2> QED
    BY <1>1, <2>1, <2>2, <2>3
<1>6. \A k \in S : k <= n => k \in T
  <2> SUFFICES ASSUME NEW k \in S, k <= n PROVE k \in T
    OBVIOUS
  <2>1. k \in 7..23 /\ (k = 23 \/ k > n \/ h[k] # 255)
    OBVIOUS
  <2>2. k \in 1..n /\ ~(k > n)
    BY <1>1, <2>1
  <2> QED
    BY <1>1, <2>1, <2>2
<1>7. s \in S /\ t \in T /\ s \in 7..23 /\ t \in 7..23
      /\ (\A j \in S : s <= j) /\ (\A j \in T : t <= j)
  <2> HIDE DEF S, T
  <2>1. S \in SUBSET Nat /\ T \in SUBSET Nat /\ S # {} /\ T # {}
    BY <1>4
  <2> QED
    BY <1>4, <2>1, MinIsLeast
<1> HIDE DEF S, T, s, t
<1>8. s <= t /\ (s <= n => s = t)
  <2>1. s <= t
    BY <1>5, <1>7
  <2>2. s <= n => t <= s
    BY <1>6, <1>7
  <2> QED
    BY <1>7, <2>1, <2>2
<1>9. hafter \in {s, s + 2} /\ gafter \in {t, t + 2}
  OBVIOUS
<1>10. s = t /\ h[s] = g[s] => hafter = gafter
  OBVIOUS
<1> HIDE DEF hafter, gafter
<1>11. hafter = gafter /\ h[hafter] = g[hafter] => hskip = gskip
  OBVIOUS
<1> HIDE DEF hskip, gskip, n, m
<1>12. hafter \in 7..25 /\ gafter \in 7..25 /\ s <= hafter /\ t <= gafter
  BY <1>7, <1>9
<1>13. gafter <= Mpeg1Needs(g) \/ (t > m /\ t <= Mpeg1Needs(g))
  BY <1>1, <1>2, <1>3, <1>7, <1>12
<1>14. CASE s > n
  <2>1. Mpeg1Needs(h) = s
    BY <1>2, <1>14
  <2>2. s <= Mpeg1Needs(g)
    <3>1. Mpeg1Needs(g) \in Nat
      BY <1>2, <1>3, <1>7, <1>12
    <3> QED
      BY <1>7, <1>8, <1>12, <1>13, <3>1
  <2>3. ~(n >= s)
    BY <1>1, <1>7, <1>14
  <2> QED
    BY <2>1, <2>2, <2>3 DEF n
<1>15. CASE s <= n
  <2>1. s = t /\ s \in 1..n
    BY <1>1, <1>7, <1>8, <1>15
  <2>2. hafter = gafter
    BY <1>1, <1>10, <2>1
  <2>3. ~(s > n) /\ ~(t > m)
    BY <1>1, <1>7, <1>15, <2>1
  <2>4. CASE hafter > n
    <3>1. Mpeg1Needs(h) = hafter
      BY <1>2, <2>3, <2>4
    <3>2. hafter <= Mpeg1Needs(g)
      BY <1>13, <2>2, <2>3
    <3>3. ~(n >= hafter)
      BY <1>1, <1>12, <2>4
    <3> QED
      BY <3>1, <3>2, <3>3 DEF n
  <2>5. CASE hafter <= n
    <3>1. hafter \in 1..n /\ ~(hafter > n) /\ ~(gafter > m)
      BY <1>1, <1>12, <2>2, <2>5
    <3>2. hskip = gskip
      BY <1>1, <1>11, <2>2, <3>1
    <3>3. Mpeg1Needs(h) = hafter + hskip + 1 /\ Mpeg1Needs(g) = gafter + gskip + 1
      BY <1>2, <2>3, <3>1
    <3>4. Mpeg1Needs(h) = Mpeg1Needs(g) /\ Mpeg1Needs(h) \in Nat
      BY <1>3, <1>12, <2>2, <3>2, <3>3
    <3> QED
      BY <3>4
  <2> QED
    BY <1>1, <1>12, <2>4, <2>5
<1> QED
  BY <1>1, <1>7, <1>14, <1>15

\* A pack header.
LEMMA PackGrows ==
  ASSUME NEW h \in Seq(0..255), NEW g \in Seq(0..255), Begins(h, g)
  PROVE  /\ PackNeeds(h) <= PackNeeds(g)
         /\ Len(h) >= PackNeeds(h) => PackNeeds(g) = PackNeeds(h)
<1>1. Len(h) \in Nat /\ Len(g) \in Nat /\ Len(h) <= Len(g)
  BY ByteAt DEF Begins
<1>2. PackNeeds(h) \in 5..21 /\ PackNeeds(g) \in 5..21
  BY PackShort
<1>3. CASE Len(h) < 5
  <2>1. PackNeeds(h) = 5
    BY <1>3 DEF PackNeeds
  <2> QED
    BY <1>1, <1>2, <1>3, <2>1
<1>4. CASE Len(h) >= 5
  <2>1. h[5] = g[5] /\ ~(Len(h) < 5) /\ ~(Len(g) < 5)
    BY <1>1, <1>4 DEF Begins
  <2>2. CASE h[5] \div 64 # 1
    <3>1. PackNeeds(h) = PackNeeds(g)
      BY <2>1, <2>2 DEF PackNeeds
    <3> QED
      BY <1>2, <3>1
  <2>3. CASE h[5] \div 64 = 1 /\ Len(h) >= 14
    <3>1. h[14] = g[14] /\ ~(Len(h) < 14) /\ ~(Len(g) < 14)
      BY <1>1, <2>3 DEF Begins
    <3>2. PackNeeds(h) = PackNeeds(g)
      BY <2>1, <3>1 DEF PackNeeds
    <3> QED
      BY <1>2, <3>2
  <2>4. CASE h[5] \div 64 = 1 /\ Len(h) < 14
    <3>1. PackNeeds(h) = 14
      BY <2>1, <2>4 DEF PackNeeds
    <3>2. PackNeeds(g) >= 14
      <4>1. CASE Len(g) < 14
        BY <2>1, <2>4, <4>1 DEF PackNeeds
      <4>2. CASE Len(g) >= 14
        <5>1. PICK b \in 0..255 : g[14] = b
          BY <4>2, ByteAt
        <5>2. PackNeeds(g) = 14 + (b % 8)
          BY <1>1, <2>1, <2>4, <4>2, <5>1 DEF PackNeeds
        <5> QED
          BY <5>2
      <4> QED
        BY <1>1, <4>1, <4>2
    <3> QED
      BY <1>1, <1>2, <2>4, <3>1, <3>2
  <2> QED
    BY <1>1, <2>2, <2>3, <2>4
<1> QED
  BY <1>1, <1>3, <1>4

\* The private stream up to its substream, and whether that is the one to decode.
LEMMA SubstreamGrows ==
  ASSUME NEW f, NEW h \in Seq(0..255), NEW g \in Seq(0..255), Begins(h, g), Len(h) >= 7
  PROVE  /\ SubstreamNeeds(h) \in 7..265 /\ SubstreamNeeds(g) \in 7..265
         /\ SubstreamNeeds(h) <= SubstreamNeeds(g)
         /\ Len(h) >= SubstreamNeeds(h) =>
              SubstreamNeeds(g) = SubstreamNeeds(h) /\ (Ours(f, g) <=> Ours(f, h))
<1>1. /\ Len(h) \in Nat /\ Len(g) \in Nat /\ Len(h) <= Len(g) /\ Len(g) >= 7
      /\ \A i \in 1..Len(h) : h[i] = g[i]
  BY ByteAt DEF Begins
<1>2. h[7] = g[7]
  BY <1>1
<1>3. /\ PesNeeds(h, 1) \in 7..265 /\ PesNeeds(g, 1) \in 7..265
      /\ Mpeg1Needs(h) \in 7..265 /\ Mpeg1Needs(g) \in 7..265
  <2>1. PesNeeds(h, 1) \in 9..265 /\ PesNeeds(g, 1) \in 9..265
    BY PesShort
  <2>2. Mpeg1Needs(h) \in 7..35 /\ Mpeg1Needs(g) \in 7..35
    BY <1>1, Mpeg1Short
  <2> QED
    BY <2>1, <2>2
<1>4. /\ PesNeeds(h, 1) <= PesNeeds(g, 1)
      /\ Len(h) >= PesNeeds(h, 1) => PesNeeds(g, 1) = PesNeeds(h, 1)
  BY PesGrows
<1>5. /\ Mpeg1Needs(h) <= Mpeg1Needs(g)
      /\ Len(h) >= Mpeg1Needs(h) => Mpeg1Needs(g) = Mpeg1Needs(h)
  BY Mpeg1Grows
<1>6. /\ SubstreamNeeds(h) \in 7..265 /\ SubstreamNeeds(g) \in 7..265
      /\ SubstreamNeeds(h) <= SubstreamNeeds(g)
      /\ Len(h) >= SubstreamNeeds(h) => SubstreamNeeds(g) = SubstreamNeeds(h)
  BY <1>2, <1>3, <1>4, <1>5, Zenon DEF SubstreamNeeds
<1>7. ASSUME Len(h) >= SubstreamNeeds(h) PROVE Ours(f, g) <=> Ours(f, h)
  <2>1. PICK n \in 7..265 : SubstreamNeeds(h) = n
    BY <1>6
  <2>2. n \in 1..Len(h) /\ Len(g) >= n /\ SubstreamNeeds(g) = n
    BY <1>1, <1>6, <1>7, <2>1
  <2>3. h[n] = g[n]
    BY <1>1, <2>2
  <2> QED
    BY <1>7, <2>1, <2>2, <2>3 DEF Ours
<1> QED
  BY <1>6, <1>7

\* The bytes of a header that are there, h, and the whole of it, g: a start code
\* is seen in the first four.
LEMMA StartGrows ==
  ASSUME NEW h \in Seq(0..255), NEW g \in Seq(0..255), Begins(h, g), Len(h) >= 4
  PROVE  /\ Len(h) \in Nat /\ Len(g) \in Nat /\ Len(g) >= 4
         /\ StartCode(g) <=> StartCode(h)
         /\ h[4] = g[4] /\ h[4] \in Nat
<1>1. /\ Len(h) \in Nat /\ Len(g) \in Nat /\ Len(h) <= Len(g)
      /\ \A i \in 1..Len(h) : h[i] = g[i] /\ h[i] \in 0..255
  BY ByteAt DEF Begins
<1>2. 1 \in 1..Len(h) /\ 2 \in 1..Len(h) /\ 3 \in 1..Len(h) /\ 4 \in 1..Len(h) /\ Len(g) >= 4
  BY <1>1
<1>3. h[1] = g[1] /\ h[2] = g[2] /\ h[3] = g[3] /\ h[4] = g[4] /\ h[4] \in Nat
  <2>1. PICK id \in 0..255 : h[4] = id
    BY <1>1, <1>2
  <2> QED
    BY <1>1, <1>2, <2>1
<1> QED
  BY <1>1, <1>2, <1>3 DEF StartCode

\* Four bytes are wanted at least.
LEMMA NeedsFour ==
  ASSUME NEW f, NEW h \in Seq(0..255)
  PROVE  Needs(f, h) \in Nat /\ Needs(f, h) >= 4
<1>1. PICK a \in 4..268 : Needs(f, h) = a
  BY HeaderFits
<1> QED
  BY <1>1

\* What is wanted of a header, by the kind of the packet.
LEMMA NeedsOfKind ==
  ASSUME NEW f, NEW h \in Seq(0..255), Len(h) >= 4, StartCode(h)
  PROVE  /\ Elementary(f) /\ h[4] # 189 => Needs(f, h) = 4
         /\ Elementary(f) /\ h[4] = 189 =>
              Needs(f, h) = IF Len(h) >= 9 /\ ~Mpeg2(h[7]) THEN 9 ELSE PesNeeds(h, 0)
         /\ ~Elementary(f) /\ h[4] <= 185 => Needs(f, h) = 4
         /\ ~Elementary(f) /\ h[4] = 186 => Needs(f, h) = PackNeeds(h)
         /\ ~Elementary(f) /\ h[4] = 189 =>
              Needs(f, h) = IF Len(h) < 7 THEN 7
                            ELSE SubstreamNeeds(h) + (IF Ours(f, h) THEN 3 ELSE 0)
         /\ ~Elementary(f) /\ h[4] > 186 /\ h[4] # 189 => Needs(f, h) = 6
<1>1. Len(h) \in Nat /\ ~(Len(h) < 4 \/ ~StartCode(h))
  BY ByteAt
<1>2. PICK id \in 0..255 : h[4] = id
  <2>1. 4 \in 1..Len(h)
    BY <1>1
  <2> QED
    BY <2>1, ByteAt
<1>3. Elementary(f) /\ h[4] # 189 => Needs(f, h) = 4
  BY <1>1 DEF Needs
<1>4. Elementary(f) /\ h[4] = 189 =>
        Needs(f, h) = IF Len(h) >= 9 /\ ~Mpeg2(h[7]) THEN 9 ELSE PesNeeds(h, 0)
  BY <1>1 DEF Needs
<1>5. ASSUME ~Elementary(f), id <= 185 PROVE Needs(f, h) = 4
  <2>1. h[4] <= 185 /\ h[4] # 186 /\ h[4] # 189
    BY <1>2, <1>5
  <2> QED
    BY <1>1, <1>5, <2>1 DEF Needs
<1>6. ASSUME ~Elementary(f), id = 186 PROVE Needs(f, h) = PackNeeds(h)
  <2>1. ~(h[4] <= 185) /\ h[4] = 186 /\ h[4] # 189
    BY <1>2, <1>6
  <2> QED
    BY <1>1, <1>6, <2>1 DEF Needs
<1>7. ASSUME ~Elementary(f), id = 189
      PROVE  Needs(f, h) = IF Len(h) < 7 THEN 7
                           ELSE SubstreamNeeds(h) + (IF Ours(f, h) THEN 3 ELSE 0)
  <2>1. ~(h[4] <= 185) /\ h[4] # 186 /\ h[4] = 189
    BY <1>2, <1>7
  <2> QED
    BY <1>1, <1>7, <2>1 DEF Needs
<1>8. ASSUME ~Elementary(f), id > 186, id # 189 PROVE Needs(f, h) = 6
  <2>1. ~(h[4] <= 185) /\ h[4] # 186 /\ h[4] # 189
    BY <1>2, <1>8
  <2> QED
    BY <1>1, <1>8, <2>1 DEF Needs
<1> QED
  BY <1>2, <1>3, <1>4, <1>5, <1>6, <1>7, <1>8

\* The shortest that these headers may be.
LEMMA PesNine ==
  ASSUME NEW h \in Seq(0..255), NEW extra \in {0, 1}
  PROVE  PesNeeds(h, extra) \in Nat /\ PesNeeds(h, extra) >= 9
<1>1. PICK a \in 9..265 : PesNeeds(h, extra) = a
  BY PesShort
<1> QED
  BY <1>1

\* The shortest that a header up to its substream may be.
LEMMA SubstreamSeven ==
  ASSUME NEW h \in Seq(0..255), Len(h) >= 7
  PROVE  SubstreamNeeds(h) \in Nat /\ SubstreamNeeds(h) >= 7
<1>1. Begins(h, h)
  BY ByteAt DEF Begins
<1>2. PICK a \in 7..265 : SubstreamNeeds(h) = a
  BY <1>1, SubstreamGrows
<1> QED
  BY <1>2

\* No more is asked for than the header has, and once all of it is there, what is
\* behind it does not change it.
LEMMA NeedsGrows ==
  ASSUME NEW f, NEW h \in Seq(0..255), NEW g \in Seq(0..255), Begins(h, g)
  PROVE  /\ Needs(f, h) <= Needs(f, g)
         /\ Len(h) >= Needs(f, h) => Needs(f, g) = Needs(f, h)
<1>1. Len(h) \in Nat /\ Len(g) \in Nat /\ Len(h) <= Len(g)
  BY ByteAt DEF Begins
<1>2. /\ Needs(f, h) \in Nat /\ Needs(f, h) >= 4
      /\ Needs(f, g) \in Nat /\ Needs(f, g) >= 4
  BY NeedsFour
<1>3. CASE Len(h) < 4
  BY <1>1, <1>2, <1>3 DEF Needs
<1>4. CASE Len(h) >= 4 /\ ~StartCode(h)
  <2>1. ~StartCode(g)
    BY <1>4, StartGrows
  <2>2. Needs(f, h) = 4 /\ Needs(f, g) = 4
    BY <1>4, <2>1 DEF Needs
  <2> QED
    BY <2>2
<1>5. CASE Len(h) >= 4 /\ StartCode(h)
  <2>1. StartCode(g) /\ h[4] = g[4] /\ h[4] \in Nat /\ Len(g) >= 4
    BY <1>5, StartGrows
  <2>2. CASE \/ Elementary(f) /\ h[4] # 189
             \/ ~Elementary(f) /\ h[4] <= 185
             \/ ~Elementary(f) /\ h[4] > 186 /\ h[4] # 189
    <3>1. g[4] = h[4] /\ (StartCode(g) /\ Len(g) >= 4) /\ (StartCode(h) /\ Len(h) >= 4)
      BY <1>5, <2>1
    <3>2. Needs(f, g) = Needs(f, h)
      <4>1. CASE Elementary(f) /\ h[4] # 189
        <5>1. Needs(f, h) = 4
          BY <3>1, <4>1, NeedsOfKind
        <5>2. Needs(f, g) = 4
          BY <3>1, <4>1, NeedsOfKind
        <5> QED
          BY <5>1, <5>2
      <4>2. CASE ~Elementary(f) /\ h[4] <= 185
        <5>1. Needs(f, h) = 4
          BY <3>1, <4>2, NeedsOfKind
        <5>2. Needs(f, g) = 4
          BY <3>1, <4>2, NeedsOfKind
        <5> QED
          BY <5>1, <5>2
      <4>3. CASE ~Elementary(f) /\ h[4] > 186 /\ h[4] # 189
        <5>1. Needs(f, h) = 6
          BY <3>1, <4>3, NeedsOfKind
        <5>2. Needs(f, g) = 6
          BY <3>1, <4>3, NeedsOfKind
        <5> QED
          BY <5>1, <5>2
      <4> QED
        BY <2>2, <4>1, <4>2, <4>3
    <3> QED
      BY <1>2, <3>2
  <2>3. CASE Elementary(f) /\ h[4] = 189
    <3>0. Needs(f, h) = IF Len(h) >= 9 /\ ~Mpeg2(h[7]) THEN 9 ELSE PesNeeds(h, 0)
      BY <1>5, <2>1, <2>3, NeedsOfKind
    <3>1. Needs(f, g) = IF Len(g) >= 9 /\ ~Mpeg2(g[7]) THEN 9 ELSE PesNeeds(g, 0)
      <4>1. StartCode(g) /\ Len(g) >= 4 /\ Elementary(f) /\ g[4] = 189
        BY <2>1, <2>3
      <4> QED
        BY <4>1, NeedsOfKind
    <3>2. /\ PesNeeds(h, 0) <= PesNeeds(g, 0)
          /\ Len(h) >= PesNeeds(h, 0) => PesNeeds(g, 0) = PesNeeds(h, 0)
      BY PesGrows
    <3>3. /\ PesNeeds(h, 0) \in Nat /\ PesNeeds(h, 0) >= 9
          /\ PesNeeds(g, 0) \in Nat /\ PesNeeds(g, 0) >= 9
      BY PesNine
    <3>4. CASE Len(h) >= 9
      <4>1. h[7] = g[7] /\ Len(g) >= 9
        BY <1>1, <3>4 DEF Begins
      <4> QED
        BY <1>1, <3>0, <3>1, <3>2, <3>3, <3>4, <4>1
    <3>5. CASE Len(h) < 9
      <4>1. Needs(f, h) = 9
        BY <1>1, <3>0, <3>5 DEF PesNeeds
      <4>2. Needs(f, g) >= 9
        BY <3>1, <3>3
      <4> QED
        BY <1>1, <3>5, <4>1, <4>2
    <3> QED
      BY <1>1, <3>4, <3>5
  <2>4. CASE ~Elementary(f) /\ h[4] = 186
    <3>1. Needs(f, h) = PackNeeds(h)
      BY <1>5, <2>1, <2>4, NeedsOfKind
    <3>2. Needs(f, g) = PackNeeds(g)
      <4>1. StartCode(g) /\ Len(g) >= 4 /\ ~Elementary(f) /\ g[4] = 186
        BY <2>1, <2>4
      <4> QED
        BY <4>1, NeedsOfKind
    <3> QED
      BY <3>1, <3>2, PackGrows
  <2>5. CASE ~Elementary(f) /\ h[4] = 189
    <3>0. Needs(f, h) = IF Len(h) < 7 THEN 7
                        ELSE SubstreamNeeds(h) + (IF Ours(f, h) THEN 3 ELSE 0)
      BY <1>5, <2>1, <2>5, NeedsOfKind
    <3>1. Needs(f, g) = IF Len(g) < 7 THEN 7
                        ELSE SubstreamNeeds(g) + (IF Ours(f, g) THEN 3 ELSE 0)
      <4>1. StartCode(g) /\ Len(g) >= 4 /\ ~Elementary(f) /\ g[4] = 189
        BY <2>1, <2>5
      <4> QED
        BY <4>1, NeedsOfKind
    <3>2. CASE Len(h) < 7
      <4>1. Needs(f, h) = 7
        BY <3>0, <3>2
      <4>2. Needs(f, g) >= 7
        <5>1. CASE Len(g) < 7
          BY <3>1, <5>1
        <5>2. CASE Len(g) >= 7
          <6>1. SubstreamNeeds(g) \in Nat /\ SubstreamNeeds(g) >= 7
            BY <5>2, SubstreamSeven
          <6> QED
            BY <1>1, <3>1, <5>2, <6>1
        <5> QED
          BY <1>1, <5>1, <5>2
      <4> QED
        BY <1>1, <3>2, <4>1, <4>2
    <3>3. CASE Len(h) >= 7
      <4>1. /\ SubstreamNeeds(h) \in Nat /\ SubstreamNeeds(g) \in Nat
            /\ SubstreamNeeds(h) <= SubstreamNeeds(g)
            /\ Len(h) >= SubstreamNeeds(h) =>
                 SubstreamNeeds(g) = SubstreamNeeds(h) /\ (Ours(f, g) <=> Ours(f, h))
        <5>1. Len(g) >= 7
          BY <1>1, <3>3
        <5>2. SubstreamNeeds(h) \in Nat /\ SubstreamNeeds(g) \in Nat
          BY <3>3, <5>1, SubstreamSeven
        <5>3. SubstreamNeeds(h) <= SubstreamNeeds(g)
          BY <3>3, SubstreamGrows
        <5>4. Len(h) >= SubstreamNeeds(h) =>
                SubstreamNeeds(g) = SubstreamNeeds(h) /\ (Ours(f, g) <=> Ours(f, h))
          BY <3>3, SubstreamGrows
        <5> QED
          BY <5>2, <5>3, <5>4
      <4>2. Len(g) >= 7 /\ ~(Len(g) < 7) /\ ~(Len(h) < 7)
        BY <1>1, <3>3
      <4>3. CASE Len(h) >= SubstreamNeeds(h)
        <5>1. Needs(f, h) = Needs(f, g)
          BY <3>0, <3>1, <4>1, <4>2, <4>3
        <5> QED
          BY <1>2, <5>1
      <4>4. CASE Len(h) < SubstreamNeeds(h)
        <5>1. ~Ours(f, h)
          BY <1>1, <4>1, <4>4 DEF Ours
        <5>2. Needs(f, h) = SubstreamNeeds(h) /\ Needs(f, g) >= SubstreamNeeds(g)
          BY <3>0, <3>1, <4>1, <4>2, <5>1
        <5> QED
          BY <1>1, <1>2, <4>1, <4>4, <5>2
      <4> QED
        BY <1>1, <4>1, <4>3, <4>4
    <3> QED
      BY <1>1, <3>2, <3>3
  <2>6. h[4] <= 185 \/ h[4] = 186 \/ h[4] = 189 \/ (h[4] > 186 /\ h[4] # 189)
    BY <2>1
  <2> QED
    BY <2>2, <2>3, <2>4, <2>5, <2>6, Zenon
<1> QED
  BY <1>1, <1>3, <1>4, <1>5

\* What the whole header says of its packet.
LEMMA SameHeader ==
  ASSUME NEW f, NEW h \in Seq(0..255), NEW g \in Seq(0..255), Begins(h, g),
         Len(h) >= Needs(f, h)
  PROVE  /\ Needs(f, g) = Needs(f, h) /\ Len(g) >= Needs(f, g)
         /\ StartCode(g) <=> StartCode(h)
         /\ StartCode(h) => /\ Stops(f, g) <=> Stops(f, h)
                            /\ Chosen(f, g) <=> Chosen(f, h)
                            /\ ~Stops(f, h) => Left(f, g) = Left(f, h)
<1>1. /\ Len(h) \in Nat /\ Len(g) \in Nat /\ Len(h) <= Len(g)
      /\ \A i \in 1..Len(h) : h[i] = g[i] /\ h[i] \in 0..255
  BY ByteAt DEF Begins
<1>2. PICK n \in Nat : Needs(f, h) = n /\ n >= 4
  BY NeedsFour
<1>3. Needs(f, g) = n /\ Len(h) >= n /\ Len(h) >= 4 /\ Len(g) >= n
  BY <1>1, <1>2, NeedsGrows
<1>4. (StartCode(g) <=> StartCode(h)) /\ h[4] = g[4] /\ h[4] \in Nat
  BY <1>3, StartGrows
<1>5. ASSUME StartCode(h)
      PROVE  /\ Stops(f, g) <=> Stops(f, h)
             /\ Chosen(f, g) <=> Chosen(f, h)
             /\ ~Stops(f, h) => Left(f, g) = Left(f, h)
  <2>1. CASE Elementary(f)
    <3>1. CASE h[4] # 189
      BY <1>4, <2>1, <3>1 DEF Stops, Chosen
    <3>2. CASE h[4] = 189
      <4>1. Needs(f, h) = IF Len(h) >= 9 /\ ~Mpeg2(h[7]) THEN 9 ELSE PesNeeds(h, 0)
        BY <1>3, <1>5, <2>1, <3>2, NeedsOfKind
      <4>2. PesNeeds(h, 0) \in Nat /\ PesNeeds(h, 0) >= 9
        BY PesNine
      <4>3. 5 \in 1..Len(h) /\ 6 \in 1..Len(h) /\ 7 \in 1..Len(h)
        BY <1>1, <1>2, <1>3, <4>1, <4>2
      <4>4. h[5] = g[5] /\ h[6] = g[6] /\ h[7] = g[7]
        BY <1>1, <4>3
      <4> QED
        BY <1>2, <1>3, <1>4, <2>1, <4>4 DEF Stops, Chosen, Left, PacketLength
    <3> QED
      BY <3>1, <3>2
  <2>2. CASE ~Elementary(f)
    <3>1. Stops(f, g) <=> Stops(f, h)
      BY <1>4, <2>2 DEF Stops
    <3>2. CASE h[4] <= 186
      <4>1. h[4] # 189
        BY <1>4, <3>2
      <4>2. ~Stops(f, h) => h[4] = 186
        BY <1>4, <2>2, <3>2 DEF Stops
      <4> QED
        BY <1>4, <2>2, <3>1, <4>1, <4>2 DEF Chosen, Left
    <3>3. CASE h[4] > 186
      <4>1. n >= 6
        <5>1. Needs(f, h) >= 6
          BY <1>2, <1>3, <1>5, <2>2, <3>3, HeaderFits
        <5> QED
          BY <1>2, <5>1
      <4>2. 5 \in 1..Len(h) /\ 6 \in 1..Len(h)
        BY <1>1, <1>3, <4>1
      <4>3. h[5] = g[5] /\ h[6] = g[6]
        BY <1>1, <4>2
      <4>4. Left(f, g) = Left(f, h)
        BY <1>2, <1>3, <1>4, <2>2, <4>3 DEF Left, PacketLength
      <4>5. ASSUME h[4] = 189 PROVE Ours(f, g) <=> Ours(f, h)
        <5>1. Needs(f, h) = IF Len(h) < 7 THEN 7
                            ELSE SubstreamNeeds(h) + (IF Ours(f, h) THEN 3 ELSE 0)
          BY <1>3, <1>5, <2>2, <4>5, NeedsOfKind
        <5>2. Len(h) >= 7
          BY <1>1, <1>2, <1>3, <5>1
        <5>3. SubstreamNeeds(h) \in Nat /\ SubstreamNeeds(h) >= 7
          BY <5>2, SubstreamSeven
        <5>4. Len(h) >= SubstreamNeeds(h)
          BY <1>1, <1>2, <1>3, <5>1, <5>2, <5>3
        <5> QED
          BY <5>2, <5>4, SubstreamGrows
      <4>6. Chosen(f, g) <=> Chosen(f, h)
        BY <1>4, <2>2, <4>5 DEF Chosen
      <4> QED
        BY <3>1, <4>4, <4>6
    <3> QED
      BY <1>4, <3>2, <3>3
  <2> QED
    BY <2>1, <2>2
<1> QED
  BY <1>1, <1>2, <1>3, <1>4, <1>5
------------------------------------------------------------------------------
(***************************************************************************)
(* What a reader of the whole file finds.                                  *)
(***************************************************************************)

\* The rest of the file from a place on, and the bytes it begins with.
LEMMA RestBytes ==
  ASSUME NEW f \in Files, NEW p \in Nat \ {0}
  PROVE  /\ Rest(f, p) \in Seq(0..255)
         /\ Len(Rest(f, p)) = IF p <= Len(f.bytes) THEN Len(f.bytes) - p + 1 ELSE 0
         /\ \A i \in 1..Len(Rest(f, p)) : Rest(f, p)[i] = f.bytes[p + i - 1]
<1> DEFINE s == f.bytes
           n == Len(s)
<1>1. s \in Seq(0..255) /\ n \in Nat /\ \A i \in 1..n : s[i] \in 0..255
  BY FilesAssumption, ByteAt
<1>2. \A i \in p..n : s[i] \in 0..255
  <2> HIDE DEF s, n
  <2> QED
    BY <1>1
<1>3. /\ SubSeq(s, p, n) \in Seq(0..255)
      /\ Len(SubSeq(s, p, n)) = IF p <= n THEN n - p + 1 ELSE 0
      /\ \A i \in 1..(n - p + 1) : SubSeq(s, p, n)[i] = s[p + i - 1]
  <2> HIDE DEF s, n
  <2>1. p \in Int /\ n \in Int
    BY <1>1
  <2> QED
    BY <1>2, <2>1, SubSeqProperties
<1> DEFINE r == SubSeq(s, p, n)
<1> HIDE DEF s, n, r
<1>4. \A i \in 1..Len(r) : r[i] = s[p + i - 1]
  <2>1. \A i \in 1..Len(r) : i \in 1..(n - p + 1)
    BY <1>1, <1>3 DEF r
  <2> QED
    BY <1>3, <2>1 DEF r
<1> QED
  BY <1>3, <1>4 DEF Rest, s, n, r

\* A stretch of the file begins as the rest of the file from there does.
LEMMA Stretch ==
  ASSUME NEW f \in Files, NEW p \in Nat \ {0}, NEW b \in Int, p <= b + 1, b <= Len(f.bytes)
  PROVE  /\ SubSeq(f.bytes, p, b) \in Seq(0..255)
         /\ Len(SubSeq(f.bytes, p, b)) = b - p + 1
         /\ Begins(SubSeq(f.bytes, p, b), Rest(f, p))
<1> DEFINE s == f.bytes
           h == SubSeq(s, p, b)
           g == Rest(f, p)
           n == Len(s)
<1>1. s \in Seq(0..255) /\ n \in Nat /\ \A i \in 1..n : s[i] \in 0..255
  BY FilesAssumption, ByteAt
<1>2. /\ Len(g) = IF p <= n THEN n - p + 1 ELSE 0
      /\ \A i \in 1..Len(g) : g[i] = s[p + i - 1]
  BY RestBytes
<1>3. b <= n
  OBVIOUS
<1> HIDE DEF s, g, n
<1>4. \A i \in p..b : s[i] \in 0..255
  BY <1>1, <1>3
<1>5. /\ h \in Seq(0..255)
      /\ Len(h) = IF p <= b THEN b - p + 1 ELSE 0
      /\ \A i \in 1..(b - p + 1) : h[i] = s[p + i - 1]
  BY <1>4, SubSeqProperties
<1> HIDE DEF h
<1>6. Len(h) = b - p + 1 /\ Len(h) \in Nat /\ Len(h) <= Len(g) /\ Len(g) \in Nat
  BY <1>1, <1>2, <1>3, <1>5
<1>7. \A i \in 1..Len(h) : h[i] = g[i]
  BY <1>2, <1>5, <1>6
<1>8. Begins(h, g)
  BY <1>6, <1>7 DEF Begins
<1> QED
  BY <1>5, <1>6, <1>8 DEF h, g, s

\* A reader with a buffer who has the bytes from p to b sees of the header at p
\* what is there: he asks for no more than it has, and when he has all of it, it is
\* the header that is there.
LEMMA HeaderSeen ==
  ASSUME NEW f \in Files, NEW p \in Nat \ {0}, NEW h \in Seq(0..255), Begins(h, Rest(f, p))
  PROVE  /\ p + Needs(f, h) <= From(f, p)
         /\ From(f, p) \in Nat /\ p + 4 <= From(f, p)
         /\ Len(h) >= Needs(f, h) =>
              /\ Whole(f, p) /\ From(f, p) = p + Needs(f, h)
              /\ StartCode(Rest(f, p)) <=> StartCode(h)
              /\ StartCode(h) =>
                   /\ Stops(f, Rest(f, p)) <=> Stops(f, h)
                   /\ Chosen(f, Rest(f, p)) <=> Chosen(f, h)
                   /\ ~Stops(f, h) => Left(f, Rest(f, p)) = Left(f, h)
<1> DEFINE g == Rest(f, p)
<1>1. g \in Seq(0..255)
  BY RestBytes
<1>2. From(f, p) = p + Needs(f, g)
  BY DEF From
<1> HIDE DEF g
<1>3. /\ Needs(f, g) \in Nat /\ Needs(f, g) >= 4 /\ Needs(f, h) \in Nat
  BY <1>1, NeedsFour
<1>4. Needs(f, h) <= Needs(f, g)
  BY <1>1, NeedsGrows DEF g
<1>5. ASSUME Len(h) >= Needs(f, h)
      PROVE  /\ Needs(f, g) = Needs(f, h) /\ Len(g) >= Needs(f, g)
             /\ StartCode(g) <=> StartCode(h)
             /\ StartCode(h) => /\ Stops(f, g) <=> Stops(f, h)
                                /\ Chosen(f, g) <=> Chosen(f, h)
                                /\ ~Stops(f, h) => Left(f, g) = Left(f, h)
  BY <1>1, <1>5, SameHeader, Zenon DEF g
<1>6. p + Needs(f, h) <= From(f, p) /\ From(f, p) \in Nat /\ p + 4 <= From(f, p)
  BY <1>2, <1>3, <1>4
<1>7. ASSUME Len(h) >= Needs(f, h) PROVE Whole(f, p) /\ From(f, p) = p + Needs(f, h)
  BY <1>2, <1>5, <1>7 DEF Whole, g
<1> QED
  BY <1>5, <1>6, <1>7, Zenon DEF g

\* How long a packet is.
LEMMA LeftIsInt ==
  ASSUME NEW f, NEW h \in Seq(0..255), Len(h) >= Needs(f, h), StartCode(h), ~Stops(f, h)
  PROVE  Left(f, h) \in Int
<1>1. Len(h) \in Nat /\ \A i \in 1..Len(h) : h[i] \in 0..255
  BY ByteAt
<1>2. Needs(f, h) \in Nat /\ Needs(f, h) >= 4
  BY NeedsFour
<1>3. PICK id \in 0..255 : h[4] = id
  <2>1. 4 \in 1..Len(h)
    BY <1>1, <1>2
  <2> QED
    BY <1>1, <2>1
<1>4. CASE ~Elementary(f) /\ h[4] = 186
  <2>1. h[4] # 189
    BY <1>4
  <2> QED
    BY <1>4, <2>1 DEF Left
<1>5. CASE IF Elementary(f) THEN h[4] = 189 ELSE h[4] > 186
  <2>1. Needs(f, h) >= 6
    BY <1>5, HeaderFits
  <2>2. 5 \in 1..Len(h) /\ 6 \in 1..Len(h)
    BY <1>1, <1>2, <2>1
  <2>3. PICK a \in 0..255 : h[5] = a
    BY <1>1, <2>2
  <2>4. PICK b \in 0..255 : h[6] = b
    BY <1>1, <2>2
  <2>5. PacketLength(h) \in Int /\ 256 * h[5] + h[6] \in Int
    BY <2>3, <2>4 DEF PacketLength
  <2> QED
    BY <1>2, <2>5 DEF Left
<1>6. (~Elementary(f) /\ h[4] = 186) \/ (IF Elementary(f) THEN h[4] = 189 ELSE h[4] > 186)
  BY <1>3 DEF Stops
<1> QED
  BY <1>4, <1>5, <1>6

\* Where he goes on.
LEMMA FollowingIs ==
  ASSUME NEW f \in Files, NEW p \in Nat \ {0}
  PROVE  /\ From(f, p) \in Nat /\ p + 4 <= From(f, p)
         /\ ~StartCode(Rest(f, p)) => Following(f, p) = p + 1 /\ From(f, p) = p + 4
         /\ Goes(f, p) /\ StartCode(Rest(f, p)) =>
              /\ Left(f, Rest(f, p)) \in Int
              /\ Following(f, p) = From(f, p) + (IF Left(f, Rest(f, p)) > 0
                                                 THEN Left(f, Rest(f, p)) ELSE 0)
              /\ Following(f, p) \in Nat /\ From(f, p) <= Following(f, p)
<1> DEFINE g == Rest(f, p)
<1>1. g \in Seq(0..255)
  BY RestBytes
<1>2. Needs(f, g) \in Nat /\ Needs(f, g) >= 4
  BY <1>1, NeedsFour
<1>3. From(f, p) = p + Needs(f, g)
  BY DEF From
<1>4. From(f, p) \in Nat /\ p + 4 <= From(f, p)
  <2> HIDE DEF g
  <2> QED
    BY <1>2, <1>3
<1>5. ASSUME ~StartCode(g) PROVE Following(f, p) = p + 1 /\ From(f, p) = p + 4
  <2>1. Needs(f, g) = 4
    BY <1>5 DEF Needs
  <2> QED
    BY <1>3, <1>5, <2>1 DEF Following
<1>6. ASSUME Goes(f, p), StartCode(g)
      PROVE  /\ Left(f, g) \in Int
             /\ Following(f, p) = From(f, p) + (IF Left(f, g) > 0 THEN Left(f, g) ELSE 0)
             /\ Following(f, p) \in Nat /\ From(f, p) <= Following(f, p)
  <2>1. Len(g) >= Needs(f, g) /\ ~Stops(f, g)
    BY <1>6 DEF Goes, Whole
  <2>2. Left(f, g) \in Int
    BY <1>1, <1>6, <2>1, LeftIsInt
  <2>3. Following(f, p) = From(f, p) + (IF Left(f, g) > 0 THEN Left(f, g) ELSE 0)
    BY <1>6 DEF Following
  <2> HIDE DEF g
  <2> QED
    BY <1>4, <2>2, <2>3
<1> QED
  BY <1>4, <1>5, <1>6

\* No byte of a header belongs to the stream, as far as there is one.
LEMMA NoneInHeader ==
  ASSUME NEW f \in Files, ~Raw(f), NEW H, HeadersAt(f, H), NEW p \in H,
         NEW q \in Nat, p <= q, q < From(f, p)
  PROVE  ~Belongs(f, H, q)
<1> SUFFICES ASSUME Belongs(f, H, q) PROVE FALSE
  OBVIOUS
<1>1. PICK r \in H : /\ Goes(f, r) /\ StartCode(Rest(f, r))
                     /\ From(f, r) <= q /\ q < Following(f, r)
  BY DEF Belongs
<1>2. /\ p \in Nat \ {0} /\ r \in Nat \ {0}
      /\ r < p => Following(f, r) <= p
      /\ p < r => Goes(f, p) /\ Following(f, p) <= r
  BY DEF HeadersAt
<1>3. From(f, p) \in Nat /\ From(f, r) \in Nat /\ r + 4 <= From(f, r)
  BY <1>2, FollowingIs
<1>4. Following(f, r) \in Nat
  BY <1>1, <1>2, FollowingIs
<1>5. CASE r < p
  BY <1>1, <1>2, <1>4, <1>5
<1>6. CASE r = p
  BY <1>1, <1>3, <1>6
<1>7. CASE p < r
  <2>1. CASE StartCode(Rest(f, p))
    <3>1. Following(f, p) \in Nat /\ From(f, p) <= Following(f, p)
      BY <1>2, <1>7, <2>1, FollowingIs
    <3> QED
      BY <1>1, <1>2, <1>3, <1>7, <3>1
  <2>2. CASE ~StartCode(Rest(f, p))
    <3>1. From(f, p) = p + 4
      BY <1>2, <2>2, FollowingIs
    <3> QED
      BY <1>1, <1>2, <1>3, <1>7, <3>1
  <2> QED
    BY <2>1, <2>2
<1> QED
  BY <1>2, <1>5, <1>6, <1>7

\* Nor one of a packet that is not of the stream, and all the others do.
LEMMA OfPacket ==
  ASSUME NEW f \in Files, ~Raw(f), NEW H, HeadersAt(f, H), NEW p \in H,
         Goes(f, p), StartCode(Rest(f, p)),
         NEW q \in Nat, From(f, p) <= q, q < Following(f, p)
  PROVE  Belongs(f, H, q) <=> Chosen(f, Rest(f, p))
<1>1. Chosen(f, Rest(f, p)) => Belongs(f, H, q)
  BY DEF Belongs
<1>2. ASSUME Belongs(f, H, q) PROVE Chosen(f, Rest(f, p))
  <2>1. PICK r \in H : /\ Goes(f, r) /\ StartCode(Rest(f, r)) /\ Chosen(f, Rest(f, r))
                       /\ From(f, r) <= q /\ q < Following(f, r)
    BY <1>2 DEF Belongs
  <2>2. /\ p \in Nat \ {0} /\ r \in Nat \ {0}
        /\ r < p => Following(f, r) <= p
        /\ p < r => Following(f, p) <= r
    BY DEF HeadersAt
  <2>3. /\ From(f, p) \in Nat /\ p + 4 <= From(f, p)
        /\ From(f, r) \in Nat /\ r + 4 <= From(f, r)
    BY <2>2, FollowingIs
  <2>4. Following(f, r) \in Nat /\ Following(f, p) \in Nat
    <3>1. Following(f, r) \in Nat
      BY <2>1, <2>2, FollowingIs
    <3>2. Following(f, p) \in Nat
      BY <2>2, FollowingIs
    <3> QED
      BY <3>1, <3>2
  <2>5. ~(r < p)
    BY <2>1, <2>2, <2>3, <2>4
  <2>6. ~(p < r)
    BY <2>1, <2>2, <2>3, <2>4
  <2>7. r = p
    BY <2>2, <2>5, <2>6
  <2> QED
    BY <2>1, <2>7
<1> QED
  BY <1>1, <1>2
------------------------------------------------------------------------------
(***************************************************************************)
(* Where demux is, in terms of the places H where that reader looks for    *)
(* headers.                                                                *)
(***************************************************************************)

\* head_buf holds the bytes before buf, from a place in H, and no more of them
\* than belong to the header.
Partly(H) ==
  /\ buf - Len(head_buf) \in H
  /\ head_buf = SubSeq(file.bytes, buf - Len(head_buf), buf - 1)
  /\ Len(head_buf) <= Needs(file, head_buf)

\* All bytes from a place to before another belong to the stream, or none.
AllOf(H, a, b)  == \A q \in a..(b - 1) : Belongs(file, H, q)
NoneOf(H, a, b) == \A q \in a..(b - 1) : ~Belongs(file, H, q)

\* Between the calls of demux: what it keeps says what it will see next.
Waits(H) ==
  pc \in {"read", "demux"} =>
    /\ state = "header" => Partly(H) /\ state_bytes = Len(head_buf)
    /\ state = "skip" => buf + state_bytes \in H /\ NoneOf(H, buf, buf + state_bytes)
    /\ state = "data" => buf + state_bytes \in H /\ AllOf(H, buf, buf + state_bytes)

\* In its loop: it is at a header, of which head_buf may have the first bytes.
Parses(H) ==
  /\ pc = "loop" => buf \in H
  /\ pc = "header" => IF inHead THEN Partly(H) /\ state = "header" ELSE buf \in H

\* In a52_decode_data: what it is given belongs to the stream, and so does what is
\* left of the packet behind it.
Passes(H) ==
  pc = "data" =>
    /\ AllOf(H, buf, dataEnd)
    /\ IF loops THEN dataEnd \in H
       ELSE /\ state = "data" /\ dataEnd + state_bytes \in H
            /\ AllOf(H, dataEnd, dataEnd + state_bytes)

Placed(H) == pc # "packet" /\ Waits(H) /\ Parses(H) /\ Passes(H)
InPackets(H) ==
  /\ ~Transport /\ ~Raw(file) /\ HeadersAt(file, H)
  /\ IInv /\ Placed(H)

\* The place of a header is one of a byte.
LEMMA PlaceIs ==
  ASSUME NEW H, HeadersAt(file, H), NEW p \in H
  PROVE  p \in Nat \ {0}
BY DEF HeadersAt

\* The buffer is filled, and nothing moved.
LEMMA ReadPlaced ==
  ASSUME NEW H, InPackets(H), Read
  PROVE  Placed(H)' /\ NoneOf(H, buf, buf')
<1>1. /\ pc = "read" /\ UNCHANGED <<file, buf, demuxVars>>
      /\ pc' \in {"done", "demux"}
  <2>1. ~Transport /\ ~(file.track = 0 /\ ~file.pes)
    BY DEF InPackets, Raw, Transport
  <2> QED
    BY <2>1 DEF Read
<1>2. Waits(H)'
  BY <1>1 DEF InPackets, Placed, Waits, Partly, AllOf, NoneOf, demuxVars
<1>3. Parses(H)' /\ Passes(H)' /\ pc' # "packet"
  BY <1>1 DEF Parses, Passes
<1>4. NoneOf(H, buf, buf')
  BY <1>1 DEF NoneOf, InPackets, IInv, TypeOK
<1> QED
  BY <1>2, <1>3, <1>4 DEF Placed

\* demux goes on where it was.
LEMMA ResumePlaced ==
  ASSUME NEW H, InPackets(H), Resume
  PROVE  Placed(H)' /\ NoneOf(H, buf, buf')
<1>1. /\ pc = "demux" /\ file' = file /\ last' = last
      /\ buf \in Nat /\ buf <= last /\ last \in Nat /\ state_bytes \in Int
      /\ ~Transport /\ (state # "header" => state_bytes >= 0)
  BY DEF Resume, InPackets, IInv, TypeOK, Window, Rests
<1>2. Waits(H)
  BY DEF InPackets, Placed
<1>3. CASE state = "header" /\ state_bytes > 0
  <2>1. inHead' = TRUE /\ pc' = "header" /\ UNCHANGED <<buf, state, head_buf>>
    BY <1>1, <1>3 DEF Resume
  <2>2. Partly(H)'
    BY <1>1, <1>2, <1>3, <2>1 DEF Waits, Partly
  <2>3. NoneOf(H, buf, buf')
    BY <1>1, <2>1 DEF NoneOf
  <2> QED
    BY <1>3, <2>1, <2>2, <2>3 DEF Placed, Waits, Parses, Passes
<1>4. CASE state = "header" /\ ~(state_bytes > 0)
  <2>1. pc' = "loop" /\ buf' = buf
    BY <1>1, <1>4 DEF Resume
  <2>2. Len(head_buf) = state_bytes /\ buf - Len(head_buf) \in H /\ Len(head_buf) \in Nat
    BY <1>1, <1>2, <1>4, LenProperties DEF Waits, Partly, InPackets, IInv, TypeOK
  <2>3. buf - Len(head_buf) = buf
    BY <1>1, <1>4, <2>2
  <2>4. NoneOf(H, buf, buf')
    BY <1>1, <2>1 DEF NoneOf
  <2> QED
    BY <2>1, <2>2, <2>3, <2>4 DEF Placed, Waits, Parses, Passes
<1>5. CASE state = "data"
  <2>1. /\ pc' = "data" /\ UNCHANGED <<buf, state>>
        /\ IF state_bytes > last - buf
           THEN dataEnd' = last /\ loops' = FALSE /\ state_bytes' = state_bytes - (last - buf)
           ELSE dataEnd' = buf + state_bytes /\ loops' = TRUE
    BY <1>1, <1>5 DEF Resume
  <2>2. buf + state_bytes \in H /\ AllOf(H, buf, buf + state_bytes)
    BY <1>1, <1>2, <1>5 DEF Waits
  <2>3. NoneOf(H, buf, buf')
    BY <1>1, <2>1 DEF NoneOf
  <2>4. CASE state_bytes > last - buf
    <3>1. dataEnd' = last /\ loops' = FALSE /\ state_bytes' = state_bytes - (last - buf)
      BY <2>1, <2>4
    <3>2. dataEnd' + state_bytes' = buf + state_bytes
      BY <1>1, <3>1
    <3>3. AllOf(H, buf, last) /\ AllOf(H, last, buf + state_bytes)
      BY <1>1, <2>2, <2>4 DEF AllOf
    <3>4. AllOf(H, buf, dataEnd)' /\ AllOf(H, dataEnd, dataEnd + state_bytes)'
      BY <1>1, <2>1, <3>1, <3>2, <3>3 DEF AllOf
    <3>5. Passes(H)'
      BY <1>5, <2>1, <2>2, <3>1, <3>2, <3>4 DEF Passes
    <3> QED
      BY <2>1, <2>3, <3>5 DEF Placed, Waits, Parses
  <2>5. CASE ~(state_bytes > last - buf)
    <3>1. dataEnd' = buf + state_bytes /\ loops' = TRUE
      BY <2>1, <2>5
    <3>2. AllOf(H, buf, dataEnd)'
      BY <1>1, <2>1, <2>2, <3>1 DEF AllOf
    <3>3. Passes(H)'
      BY <2>2, <3>1, <3>2 DEF Passes
    <3> QED
      BY <2>1, <2>3, <3>3 DEF Placed, Waits, Parses
  <2> QED
    BY <2>4, <2>5
<1>6. CASE state = "skip"
  <2>1. buf + state_bytes \in H /\ NoneOf(H, buf, buf + state_bytes) /\ state_bytes >= 0
    BY <1>1, <1>2, <1>6 DEF Waits
  <2>2. CASE state_bytes > last - buf
    <3>1. state_bytes' = state_bytes - (last - buf) /\ buf' = last /\ pc' = "read" /\ state' = "skip"
      BY <1>1, <1>6, <2>2 DEF Resume, Return
    <3>2. buf' + state_bytes' = buf + state_bytes
      BY <1>1, <3>1
    <3>3. NoneOf(H, buf, last) /\ NoneOf(H, last, buf + state_bytes)
      BY <1>1, <2>1, <2>2 DEF NoneOf
    <3>4. NoneOf(H, buf, buf + state_bytes)'
      BY <1>1, <3>1, <3>2, <3>3 DEF NoneOf
    <3>5. Waits(H)'
      BY <2>1, <3>1, <3>2, <3>4 DEF Waits
    <3> QED
      BY <3>1, <3>3, <3>5 DEF Placed, Parses, Passes
  <2>3. CASE ~(state_bytes > last - buf)
    <3>1. buf' = buf + state_bytes /\ pc' = "loop"
      BY <1>1, <1>6, <2>3 DEF Resume
    <3> QED
      BY <2>1, <3>1 DEF Placed, Waits, Parses, Passes
  <2> QED
    BY <2>2, <2>3
<1> QED
  BY <1>3, <1>4, <1>5, <1>6 DEF InPackets, IInv, TypeOK

\* A header begins where the loop does.
LEMMA LoopPlaced ==
  ASSUME NEW H, InPackets(H), Loop
  PROVE  Placed(H)' /\ NoneOf(H, buf, buf')
<1>1. pc = "loop" /\ inHead' = FALSE /\ pc' = "header" /\ buf' = buf /\ buf \in Nat
  BY DEF Loop, InPackets, IInv, TypeOK
<1>2. buf \in H
  BY <1>1 DEF InPackets, Placed, Parses
<1>3. NoneOf(H, buf, buf')
  BY <1>1 DEF NoneOf
<1> QED
  BY <1>1, <1>2, <1>3 DEF Placed, Waits, Parses, Passes

\* The bytes that a52_decode_data was given are through.
LEMMA DataDonePlaced ==
  ASSUME NEW H, InPackets(H), DataDone
  PROVE  Placed(H)' /\ NoneOf(H, buf, buf')
<1>1. /\ pc = "data" /\ buf = dataEnd /\ UNCHANGED <<file, buf, state, state_bytes, head_buf>>
      /\ pc' = (IF loops THEN "loop" ELSE "read") /\ buf \in Nat
  BY DEF DataDone, Return, InPackets, IInv, TypeOK, demuxVars
<1>2. NoneOf(H, buf, buf')
  BY <1>1 DEF NoneOf
<1>3. CASE loops
  BY <1>1, <1>2, <1>3 DEF InPackets, Placed, Waits, Parses, Passes
<1>4. CASE ~loops
  <2>1. pc' = "read" /\ state' = "data" /\ buf' + state_bytes' \in H
        /\ AllOf(H, buf, buf + state_bytes)
    BY <1>1, <1>4 DEF InPackets, Placed, Passes
  <2>2. AllOf(H, buf, buf + state_bytes)'
    BY <1>1, <2>1 DEF AllOf
  <2> QED
    BY <1>2, <2>1, <2>2 DEF Placed, Waits, Parses, Passes
<1> QED
  BY <1>3, <1>4

\* Some of them are.
LEMMA DecodePlaced ==
  ASSUME NEW H, InPackets(H), Decode
  PROVE  Placed(H)' /\ AllOf(H, buf, buf') /\ buf <= buf'
<1> DEFINE len == Smaller(dataEnd - buf, bufpos - Len(frame))
<1>1. /\ pc = "data" /\ pc' = pc /\ buf < dataEnd /\ buf' = buf + len
      /\ UNCHANGED <<file, state, state_bytes, dataEnd, loops>>
  BY DEF Decode, demuxVars, dataVars
<1>2. /\ buf \in Nat /\ dataEnd \in Nat /\ state_bytes \in Int
      /\ bufpos \in Nat /\ Len(frame) \in Nat /\ Len(frame) < bufpos
  BY LenProperties DEF InPackets, IInv, TypeOK, Rests
<1>3. len \in Nat /\ len <= dataEnd - buf
  BY <1>1, <1>2 DEF Smaller
<1> HIDE DEF len
<1>4. Passes(H)
  BY DEF InPackets, Placed
<1>5. AllOf(H, buf, dataEnd)
  BY <1>1, <1>4 DEF Passes
<1>6. AllOf(H, buf, buf') /\ AllOf(H, buf', dataEnd)
  BY <1>1, <1>2, <1>3, <1>5 DEF AllOf
<1>7. AllOf(H, buf, dataEnd)'
  BY <1>1, <1>6 DEF AllOf
<1>8. ~loops => /\ state' = "data" /\ dataEnd' + state_bytes' \in H
                /\ AllOf(H, dataEnd, dataEnd + state_bytes)'
  BY <1>1, <1>4 DEF Passes, AllOf
<1>9. Passes(H)'
  BY <1>1, <1>4, <1>7, <1>8 DEF Passes
<1> QED
  BY <1>1, <1>2, <1>3, <1>6, <1>9 DEF Placed, Waits, Parses

\* What is in a stretch of the file; and stretches that meet, or begin one later.
LEMMA InStretch ==
  ASSUME NEW f \in Files, NEW p \in Nat \ {0}, NEW b \in Int, p <= b + 1, b <= Len(f.bytes)
  PROVE  /\ SubSeq(f.bytes, p, b) \in Seq(0..255)
         /\ Len(SubSeq(f.bytes, p, b)) = b - p + 1
         /\ \A i \in 1..(b - p + 1) : SubSeq(f.bytes, p, b)[i] = f.bytes[p + i - 1]
<1> DEFINE s == f.bytes
<1>1. s \in Seq(0..255) /\ Len(s) \in Nat /\ (\A i \in 1..Len(s) : s[i] \in 0..255) /\ b <= Len(s)
  BY FilesAssumption, ByteAt
<1> HIDE DEF s
<1>2. \A i \in p..b : s[i] \in 0..255
  BY <1>1
<1>3. /\ SubSeq(s, p, b) \in Seq(0..255)
      /\ Len(SubSeq(s, p, b)) = IF p <= b THEN b - p + 1 ELSE 0
      /\ \A i \in 1..(b - p + 1) : SubSeq(s, p, b)[i] = s[p + i - 1]
  BY <1>2, SubSeqProperties
<1> QED
  BY <1>1, <1>3 DEF s

\* Two stretches of the file that meet are one.
LEMMA StretchesMeet ==
  ASSUME NEW f \in Files, NEW p \in Nat \ {0}, NEW m \in Nat \ {0}, NEW b \in Int,
         p <= m, m <= b + 1, b <= Len(f.bytes)
  PROVE  SubSeq(f.bytes, p, m - 1) \o SubSeq(f.bytes, m, b) = SubSeq(f.bytes, p, b)
<1> DEFINE s == f.bytes
           x == SubSeq(s, p, m - 1)
           y == SubSeq(s, m, b)
           z == SubSeq(s, p, b)
           u == x \o y
           k == m - p
<1>1. k \in Nat /\ k <= b - p + 1 /\ b - p + 1 \in Nat
  OBVIOUS
<1>2. x \in Seq(0..255) /\ Len(x) = k /\ \A i \in 1..k : x[i] = s[p + i - 1]
  <2>1. m - 1 \in Int /\ p <= m - 1 + 1 /\ m - 1 <= Len(f.bytes) /\ m - 1 - p + 1 = k
    <3>1. Len(f.bytes) \in Nat
      BY FilesAssumption, ByteAt
    <3> QED
      BY <3>1
  <2>2. /\ x \in Seq(0..255) /\ Len(x) = m - 1 - p + 1
        /\ \A i \in 1..(m - 1 - p + 1) : x[i] = s[p + i - 1]
    BY <2>1, InStretch
  <2> HIDE DEF x, k, s
  <2> QED
    BY <2>1, <2>2
<1>3. y \in Seq(0..255) /\ Len(y) = b - m + 1 /\ \A i \in 1..(b - m + 1) : y[i] = s[m + i - 1]
  BY InStretch
<1>4. z \in Seq(0..255) /\ Len(z) = b - p + 1 /\ \A i \in 1..(b - p + 1) : z[i] = s[p + i - 1]
  <2>1. p <= b + 1
    OBVIOUS
  <2> QED
    BY <2>1, InStretch
<1> HIDE DEF x, y, z, s
<1>5. u \in Seq(0..255) /\ Len(u) = Len(x) + Len(y)
  BY <1>2, <1>3, Joined
<1>6. \A i \in 1..Len(x) : u[i] = x[i]
  BY <1>2, <1>3, Joined
<1>7. \A i \in 1..Len(y) : u[Len(x) + i] = y[i]
  BY <1>2, <1>3, Joined
<1> HIDE DEF u
<1>8. Len(u) = Len(z)
  BY <1>2, <1>3, <1>4, <1>5
<1>9. ASSUME NEW i \in 1..Len(u) PROVE u[i] = z[i]
  <2>1. i \in 1..(b - p + 1)
    BY <1>4, <1>8
  <2>2. CASE i <= k
    <3>1. i \in 1..k
      BY <1>1, <2>1, <2>2
    <3> QED
      BY <1>2, <1>4, <1>6, <2>1, <3>1
  <2>3. CASE ~(i <= k)
    <3> DEFINE j == i - k
    <3>1. j \in 1..(b - m + 1) /\ k + j = i /\ m + j - 1 = p + i - 1
      BY <2>1, <2>3
    <3> HIDE DEF j, k
    <3>2. u[k + j] = y[j]
      BY <1>2, <1>3, <1>7, <3>1
    <3>3. y[j] = s[m + j - 1]
      BY <1>3, <3>1
    <3>4. z[i] = s[p + i - 1]
      BY <1>4, <2>1
    <3> QED
      BY <3>1, <3>2, <3>3, <3>4
  <2> QED
    BY <2>2, <2>3
<1>10. u = z
  BY <1>4, <1>5, <1>8, <1>9, SeqEqual
<1> QED
  BY <1>10 DEF u, x, y, z, s

\* Four bytes moved down by one are the three that follow the first.
LEMMA StretchMoved ==
  ASSUME NEW f \in Files, NEW p \in Nat \ {0}, NEW a \in Nat \ {0}, NEW b \in Int,
         a = p + 1, b = p + 3, b <= Len(f.bytes)
  PROVE  SubSeq(SubSeq(f.bytes, p, b), 2, 4) = SubSeq(f.bytes, a, b)
<1> DEFINE s == f.bytes
           x == SubSeq(s, p, b)
           y == SubSeq(x, 2, 4)
           z == SubSeq(s, a, b)
<1>1. x \in Seq(0..255) /\ Len(x) = 4 /\ \A i \in 1..4 : x[i] = s[p + i - 1]
  <2>1. p <= b + 1 /\ b - p + 1 = 4
    OBVIOUS
  <2>2. /\ SubSeq(f.bytes, p, b) \in Seq(0..255)
        /\ Len(SubSeq(f.bytes, p, b)) = b - p + 1
        /\ \A i \in 1..(b - p + 1) : SubSeq(f.bytes, p, b)[i] = f.bytes[p + i - 1]
    <3> HIDE DEF x, y, z, s
    <3> QED
      BY <2>1, InStretch
  <2>3. /\ x \in Seq(0..255) /\ Len(x) = b - p + 1
        /\ \A i \in 1..(b - p + 1) : x[i] = s[p + i - 1]
    BY <2>2, Zenon
  <2> HIDE DEF x, s
  <2> QED
    BY <2>1, <2>3
<1>2. z \in Seq(0..255) /\ Len(z) = 3 /\ \A i \in 1..3 : z[i] = s[a + i - 1]
  <2>1. a <= b + 1 /\ b - a + 1 = 3
    OBVIOUS
  <2>2. /\ SubSeq(f.bytes, a, b) \in Seq(0..255)
        /\ Len(SubSeq(f.bytes, a, b)) = b - a + 1
        /\ \A i \in 1..(b - a + 1) : SubSeq(f.bytes, a, b)[i] = f.bytes[a + i - 1]
    <3> HIDE DEF x, y, z, s
    <3> QED
      BY <2>1, InStretch
  <2>3. /\ z \in Seq(0..255) /\ Len(z) = b - a + 1
        /\ \A i \in 1..(b - a + 1) : z[i] = s[a + i - 1]
    BY <2>2, Zenon
  <2> HIDE DEF z, s
  <2> QED
    BY <2>1, <2>3
<1> HIDE DEF x, z, s
<1>3. y \in Seq(0..255) /\ Len(y) = 3 /\ \A i \in 1..3 : y[i] = x[i + 1]
  <2>1. \A i \in 2..4 : x[i] \in 0..255
    <3>1. \A i \in 2..4 : i \in 1..4
      OBVIOUS
    <3> QED
      BY <1>1, <3>1, ByteAt
  <2>2. /\ y \in Seq(0..255) /\ Len(y) = 3
        /\ \A i \in 1..(4 - 2 + 1) : y[i] = x[2 + i - 1]
    BY <2>1, SubSeqProperties
  <2> HIDE DEF y
  <2> QED
    BY <2>2
<1> HIDE DEF y
<1>4. ASSUME NEW i \in 1..3 PROVE y[i] = z[i]
  <2>1. i + 1 \in 1..4 /\ p + (i + 1) - 1 = a + i - 1
    OBVIOUS
  <2>2. y[i] = x[i + 1] /\ z[i] = s[a + i - 1]
    BY <1>2, <1>3
  <2>3. x[i + 1] = s[p + (i + 1) - 1]
    BY <1>1, <2>1
  <2> QED
    BY <2>1, <2>2, <2>3
<1>5. y = z
  BY <1>2, <1>3, <1>4, SeqEqual
<1> QED
  BY <1>5 DEF y, x, z, s

\* The header that demux parses, wherever it has its bytes from: it begins at a
\* place p in H and has no bytes but those of the file from there on.
LEMMA HeaderPlace ==
  ASSUME NEW H, InPackets(H), pc = "header"
  PROVE  \E p \in H :
           /\ p = (IF inHead THEN buf - Len(head_buf) ELSE buf)
           /\ p <= buf
           /\ Header \in Seq(0..255) /\ Begins(Header, Rest(file, p))
           /\ inHead => /\ Len(Header) = buf - p /\ Len(Header) <= Needs(file, Header)
                        /\ Header = SubSeq(file.bytes, p, buf - 1)
                        /\ state = "header"
           /\ ~inHead => Len(Header) = last - buf /\ Header = SubSeq(file.bytes, buf, last - 1)
<1>1. /\ file \in Files /\ file.bytes \in Seq(0..255) /\ Len(file.bytes) \in Nat
      /\ buf \in Nat \ {0} /\ last \in Nat /\ buf <= last /\ last <= Len(file.bytes) + 1
      /\ Len(head_buf) \in Nat
  BY FilesAssumption, LenProperties DEF InPackets, IInv, TypeOK, Window, Eof
<1>2. Header \in Seq(0..255) /\ (~inHead => Len(Header) = last - buf)
  BY HeaderBytes DEF InPackets, IInv
<1>3. Parses(H) /\ HeadersAt(file, H)
  BY DEF InPackets, Placed
<1>4. CASE inHead
  <2> DEFINE p == buf - Len(head_buf)
  <2>1. /\ p \in H /\ Header = head_buf /\ head_buf = SubSeq(file.bytes, p, buf - 1)
        /\ Len(head_buf) <= Needs(file, head_buf) /\ state = "header"
    BY <1>3, <1>4 DEF Parses, Partly, Header
  <2>2. p \in Nat \ {0}
    BY <1>3, <2>1, PlaceIs
  <2>3. p <= buf /\ Len(head_buf) = buf - p /\ buf - 1 \in Int /\ p <= buf - 1 + 1
        /\ buf - 1 <= Len(file.bytes)
    BY <1>1
  <2> HIDE DEF p
  <2>4. Begins(SubSeq(file.bytes, p, buf - 1), Rest(file, p))
    BY <1>1, <2>2, <2>3, Stretch
  <2>5. p = buf - Len(head_buf)
    BY DEF p
  <2> QED
    BY <1>2, <1>4, <2>1, <2>3, <2>4, <2>5
<1>5. CASE ~inHead
  <2>1. buf \in H /\ Header = SubSeq(file.bytes, buf, last - 1)
    BY <1>3, <1>5 DEF Parses, Header
  <2>2. last - 1 \in Int /\ buf <= last - 1 + 1 /\ last - 1 <= Len(file.bytes)
    BY <1>1
  <2>3. Begins(SubSeq(file.bytes, buf, last - 1), Rest(file, buf))
    BY <1>1, <2>2, Stretch
  <2> QED
    BY <1>1, <1>2, <1>5, <2>1, <2>3
<1> QED
  BY <1>4, <1>5

\* More of a header is taken, or all that there is.
LEMMA NeedBytesPlaced ==
  ASSUME NEW H, InPackets(H), NeedBytes
  PROVE  Placed(H)' /\ NoneOf(H, buf, buf')
<1>1. /\ pc = "header" /\ Len(Header) < Needs(file, Header)
      /\ UNCHANGED <<file, last, inHead>> /\ ~Transport
  BY DEF NeedBytes, InPackets
<1>2. /\ file \in Files /\ file.bytes \in Seq(0..255) /\ Len(file.bytes) \in Nat
      /\ buf \in Nat \ {0} /\ last \in Nat /\ buf <= last /\ last <= Len(file.bytes) + 1
      /\ HeadersAt(file, H) /\ ~Raw(file)
  BY <1>1, FilesAssumption, LenProperties DEF InPackets, IInv, TypeOK, Window, Eof
<1>3. PICK p \in H :
        /\ p = (IF inHead THEN buf - Len(head_buf) ELSE buf)
        /\ p <= buf
        /\ Header \in Seq(0..255) /\ Begins(Header, Rest(file, p))
        /\ inHead => /\ Len(Header) = buf - p /\ Len(Header) <= Needs(file, Header)
                     /\ Header = SubSeq(file.bytes, p, buf - 1)
                     /\ state = "header"
        /\ ~inHead => Len(Header) = last - buf /\ Header = SubSeq(file.bytes, buf, last - 1)
  BY <1>1, HeaderPlace
<1>4. p \in Nat \ {0}
  BY <1>2, PlaceIs
<1>5. PICK n \in Nat : Needs(file, Header) = n /\ n >= 4
  BY <1>3, NeedsFour
<1>6. p + n <= From(file, p) /\ From(file, p) \in Nat
  BY <1>2, <1>3, <1>4, <1>5, HeaderSeen
<1>7. ASSUME NEW to \in Nat, to <= p + n PROVE NoneOf(H, buf, to)
  <2>1. ASSUME NEW q \in buf..(to - 1) PROVE ~Belongs(file, H, q)
    <3>1. q \in Nat /\ p <= q /\ q < From(file, p)
      BY <1>2, <1>3, <1>4, <1>6, <1>7
    <3> QED
      BY <1>2, <3>1, NoneInHeader
  <2> QED
    BY <2>1 DEF NoneOf
<1>8. Len(Header) \in Nat /\ Len(Header) < n
  BY <1>1, <1>3, <1>5, LenProperties
<1>9. CASE ~inHead
  <2>1. /\ head_buf' = Header /\ state' = "header" /\ state_bytes' = Len(Header)
        /\ buf' = last /\ pc' = "read"
    BY <1>1, <1>9 DEF NeedBytes, Return
  <2>2. last <= p + n /\ last - Len(Header) = p /\ p = buf
    BY <1>2, <1>3, <1>5, <1>8, <1>9
  <2>3. NoneOf(H, buf, buf')
    BY <1>2, <1>7, <2>1, <2>2
  <2>4. Partly(H)'
    <3>1. (buf - Len(head_buf))' = p
      BY <2>1, <2>2
    <3>2. head_buf' = SubSeq(file'.bytes, p, buf' - 1)
      BY <1>1, <1>3, <1>9, <2>1, <2>2
    <3>3. Len(head_buf') <= Needs(file', head_buf')
      BY <1>1, <1>5, <1>8, <2>1
    <3> QED
      BY <3>1, <3>2, <3>3 DEF Partly
  <2> QED
    BY <2>1, <2>3, <2>4 DEF Placed, Waits, Parses, Passes
<1>10. CASE inHead
  <2> DEFINE piece == SubSeq(file.bytes, buf, buf + Taken - 1)
  <2>1. /\ Header = head_buf /\ Len(head_buf) = buf - p /\ Len(head_buf) \in Nat
        /\ head_buf = SubSeq(file.bytes, p, buf - 1) /\ state = "header"
        /\ head_buf \in Seq(0..255)
    BY <1>3, <1>8, <1>10 DEF Header
  <2>2. PICK t \in Nat : Taken = t /\ t <= last - buf /\ t <= n - Len(head_buf)
    <3> DEFINE a == n - Len(head_buf)
               b == last - buf
    <3>1. a \in Nat /\ b \in Nat
      BY <1>2, <1>8, <2>1
    <3>2. Taken = IF a < b THEN a ELSE b
      BY <1>5, <2>1 DEF Taken, Smaller
    <3> HIDE DEF a, b
    <3>3. \E t \in Nat : Taken = t /\ t <= b /\ t <= a
      BY <3>1, <3>2
    <3> QED BY <3>3 DEF a, b
  <2> DEFINE to == buf + t - 1
  <2>3. /\ to \in Int /\ to <= Len(file.bytes) /\ buf <= to + 1 /\ p <= to + 1
        /\ to - p + 1 = Len(head_buf) + t /\ to = (buf + t) - 1
    BY <1>2, <1>3, <1>4, <2>1, <2>2
  <2>4. piece = SubSeq(file.bytes, buf, to)
    BY <2>2
  <2>5. /\ head_buf' = head_buf \o piece /\ buf' = buf + t /\ state' = state
        /\ \/ pc' = "header"
           \/ state_bytes' = Len(head_buf') /\ pc' = "read"
    BY <1>1, <1>10, <2>2 DEF NeedBytes, Return
  <2> HIDE DEF piece, to
  <2>6. head_buf' = SubSeq(file.bytes, p, to)
    <3>1. SubSeq(file.bytes, p, buf - 1) \o SubSeq(file.bytes, buf, to)
            = SubSeq(file.bytes, p, to)
      BY <1>2, <1>3, <1>4, <2>3, StretchesMeet
    <3> QED
      BY <2>1, <2>4, <2>5, <3>1
  <2>7. /\ head_buf' \in Seq(0..255) /\ Len(head_buf') = Len(head_buf) + t
        /\ Begins(head_buf', Rest(file, p))
    <3>1. /\ SubSeq(file.bytes, p, to) \in Seq(0..255)
          /\ Len(SubSeq(file.bytes, p, to)) = to - p + 1
          /\ Begins(SubSeq(file.bytes, p, to), Rest(file, p))
      BY <1>2, <1>4, <2>3, Stretch
    <3> QED
      BY <2>3, <2>6, <3>1
  <2>8. buf' - Len(head_buf') = p /\ buf' \in Nat /\ buf' <= p + n
        /\ Len(head_buf') <= n
    BY <1>2, <1>4, <2>1, <2>2, <2>5, <2>7
  <2>9. NoneOf(H, buf, buf')
    BY <1>7, <2>8
  <2>10. Needs(file, head_buf) <= Needs(file, head_buf')
    <3>1. Begins(head_buf, head_buf')
      <4>1. Len(Rest(file, p)) \in Nat
        BY <1>2, <1>4, RestBytes, LenProperties
      <4>2. Begins(head_buf, Rest(file, p))
        BY <1>3, <2>1
      <4>3. \A i \in 1..Len(head_buf) : i \in 1..Len(head_buf')
        BY <2>1, <2>2, <2>7
      <4>4. Len(head_buf) <= Len(head_buf')
        BY <2>1, <2>2, <2>7
      <4> QED
        BY <2>7, <4>2, <4>3, <4>4 DEF Begins
    <3> QED
      BY <2>1, <2>7, <3>1, NeedsGrows
  <2>11. Partly(H)'
    <3>1. Len(head_buf') <= Needs(file, head_buf')
      <4>1. Needs(file, head_buf') \in Nat
        BY <2>7, NeedsFour
      <4>2. Len(head_buf') \in Nat
        BY <2>7, LenProperties
      <4> QED
        BY <1>5, <2>1, <2>8, <2>10, <4>1, <4>2
    <3>2. head_buf' = SubSeq(file.bytes, p, buf' - 1)
      <4>1. buf' - 1 = to
        BY <2>3, <2>5
      <4> QED
        BY <2>6, <4>1
    <3> QED
      BY <1>1, <2>8, <3>1, <3>2 DEF Partly
  <2>12. inHead' = inHead /\ state' = "header"
    BY <1>1, <2>1, <2>5
  <2>13. CASE pc' = "header"
    BY <1>10, <2>9, <2>11, <2>12, <2>13 DEF Placed, Waits, Parses, Passes
  <2>14. CASE state_bytes' = Len(head_buf') /\ pc' = "read"
    BY <2>9, <2>11, <2>12, <2>14 DEF Placed, Waits, Parses, Passes
  <2> QED
    BY <2>5, <2>13, <2>14
<1> QED
  BY <1>9, <1>10

\* By one byte from a place without a start code.
LEMMA ResyncPlaced ==
  ASSUME NEW H, InPackets(H), Resync
  PROVE  Placed(H)' /\ NoneOf(H, buf, buf')
<1>1. /\ pc = "header" /\ Len(Header) >= 4 /\ ~StartCode(Header)
      /\ UNCHANGED <<file, pc, state, inHead>> /\ ~Transport
  BY DEF Resync, InPackets
<1>2. /\ file \in Files /\ file.bytes \in Seq(0..255) /\ Len(file.bytes) \in Nat
      /\ buf \in Nat \ {0} /\ last \in Nat /\ buf <= last /\ last <= Len(file.bytes) + 1
      /\ HeadersAt(file, H) /\ ~Raw(file)
  BY <1>1, FilesAssumption, LenProperties DEF InPackets, IInv, TypeOK, Window, Eof
<1>3. PICK p \in H :
        /\ p = (IF inHead THEN buf - Len(head_buf) ELSE buf)
        /\ p <= buf
        /\ Header \in Seq(0..255) /\ Begins(Header, Rest(file, p))
        /\ inHead => /\ Len(Header) = buf - p /\ Len(Header) <= Needs(file, Header)
                     /\ Header = SubSeq(file.bytes, p, buf - 1)
                     /\ state = "header"
        /\ ~inHead => Len(Header) = last - buf /\ Header = SubSeq(file.bytes, buf, last - 1)
  BY <1>1, HeaderPlace
<1>4. p \in Nat \ {0}
  BY <1>2, PlaceIs
<1>5. Needs(file, Header) = 4
  BY <1>1 DEF Needs
<1>6. /\ Whole(file, p) /\ From(file, p) = p + 4 /\ ~StartCode(Rest(file, p))
  BY <1>1, <1>2, <1>3, <1>4, <1>5, HeaderSeen
<1>7. p + 1 \in H
  <2>1. Goes(file, p) /\ Following(file, p) = p + 1
    BY <1>6 DEF Goes, Following
  <2> QED
    BY <1>2, <2>1 DEF HeadersAt
<1>8. CASE ~inHead
  <2>1. buf' = buf + 1 /\ buf = p
    BY <1>1, <1>3, <1>8 DEF Resync
  <2>2. ASSUME NEW q \in buf..(buf' - 1) PROVE ~Belongs(file, H, q)
    <3>1. q \in Nat /\ p <= q /\ q < From(file, p)
      BY <1>2, <1>4, <1>6, <2>1
    <3> QED
      BY <1>2, <3>1, NoneInHeader
  <2>3. NoneOf(H, buf, buf')
    BY <2>2 DEF NoneOf
  <2>4. buf' \in H
    BY <1>7, <2>1
  <2> QED
    BY <1>1, <1>8, <2>3, <2>4 DEF Placed, Waits, Parses, Passes
<1>9. CASE inHead
  <2>1. /\ head_buf' = SubSeq(head_buf, 2, 4) /\ buf' = buf
        /\ Header = head_buf /\ Len(head_buf) = buf - p /\ state = "header"
        /\ head_buf \in Seq(0..255) /\ Len(head_buf) \in Nat
    BY <1>1, <1>3, <1>9, LenProperties DEF Resync, Shifted, Header
  <2>2. Len(head_buf) = 4 /\ p = buf - 4
    <3>1. Len(head_buf) >= 4 /\ Len(head_buf) <= 4
      BY <1>1, <1>3, <1>5, <1>9, <2>1
    <3> QED
      BY <1>2, <1>4, <2>1, <3>1
  <2> DEFINE to == buf - 1
  <2>3. to \in Int /\ to = p + 3 /\ to <= Len(file.bytes)
    <3>1. \A x, y, n, l \in Int : y = x - 4 /\ x <= l /\ l <= n + 1 => x - 1 = y + 3 /\ x - 1 <= n
      OBVIOUS
    <3> QED
      BY <1>2, <1>4, <2>2, <3>1
  <2>4. head_buf = SubSeq(file.bytes, p, to)
    BY <1>3, <1>9, <2>1
  <2>5. buf' - 1 = to
    BY <2>1
  <2> HIDE DEF to
  <2>6. /\ head_buf' = SubSeq(file.bytes, p + 1, buf' - 1)
        /\ head_buf' \in Seq(0..255) /\ Len(head_buf') = 3 /\ buf' - Len(head_buf') = p + 1
    <3> DEFINE a == p + 1
    <3>1. a \in Nat \ {0} /\ a = p + 1 /\ a <= to + 1 /\ to - a + 1 = 3
      BY <1>4, <2>3
    <3> HIDE DEF a
    <3>2. SubSeq(SubSeq(file.bytes, p, to), 2, 4) = SubSeq(file.bytes, a, to)
      BY <1>2, <1>4, <2>3, <3>1, StretchMoved
    <3>3. /\ SubSeq(file.bytes, a, to) \in Seq(0..255)
          /\ Len(SubSeq(file.bytes, a, to)) = to - a + 1
      BY <1>2, <2>3, <3>1, InStretch
    <3>4. head_buf' = SubSeq(file.bytes, a, to)
      BY <2>1, <2>4, <3>2
    <3>5. Len(head_buf') = 3 /\ head_buf' \in Seq(0..255)
      BY <3>1, <3>3, <3>4
    <3>6. buf' - 3 = a
      BY <1>2, <1>4, <2>1, <2>2, <3>1
    <3> QED
      BY <2>5, <3>1, <3>4, <3>5, <3>6
  <2>7. Needs(file, head_buf') \in Nat /\ Needs(file, head_buf') >= 4
    BY <2>6, NeedsFour
  <2>8. Len(head_buf') <= Needs(file, head_buf')
    BY <2>6, <2>7
  <2>10. Partly(H)'
    BY <1>1, <1>7, <2>6, <2>8 DEF Partly
  <2>11. NoneOf(H, buf, buf')
    BY <1>2, <2>1 DEF NoneOf
  <2> QED
    BY <1>1, <1>9, <2>1, <2>10, <2>11 DEF Placed, Waits, Parses, Passes
<1> QED
  BY <1>8, <1>9

\* What is behind a header is decoded if it is of the stream, and skipped if not;
\* how much that is, is in the header.
LEMMA ParsedKind ==
  ASSUME IInv, Parsed
  PROVE  \/ pc' \in {"exit", "done"} /\ buf' = buf
         \/ /\ ~Stops(file, Header)
            /\ Chosen(file, Header) =>
                 Payload(Behind(Needs(file, Header)), Left(file, Header))
            /\ ~Chosen(file, Header) =>
                 Skip(Behind(Needs(file, Header)), Left(file, Header))
<1> DEFINE h == Header  len == Needs(file, h)  from == Behind(len)
<1>1. /\ pc = "header" /\ Len(h) >= len /\ StartCode(h)
  BY DEF Parsed
<1>2. h \in Seq(0..255) /\ Len(h) \in Nat
  BY <1>1, HeaderBytes, ByteAt DEF IInv
<1>3. len \in Nat /\ len >= 4
  BY <1>2, NeedsFour
<1>4. PICK id \in 0..255 : h[4] = id
  <2> HIDE DEF h, len
  <2>1. 4 \in 1..Len(h)
    BY <1>1, <1>2, <1>3
  <2> QED
    BY <1>2, <2>1, ByteAt
<1> HIDE DEF h
<1>5. CASE Elementary(file)
  <2>1. CASE h[4] # 189 \/ ~Mpeg2(h[7])
    BY <1>5, <2>1 DEF Parsed, h
  <2>2. CASE ~(h[4] # 189 \/ ~Mpeg2(h[7]))
    <3>1. Payload(from, PacketLength(h) - len)
      BY <1>5, <2>2 DEF Parsed, h
    <3>2. ~Stops(file, h) /\ Chosen(file, h) /\ Left(file, h) = PacketLength(h) - len
      BY <1>5, <2>2 DEF Stops, Chosen, Left
    <3> QED
      BY <3>1, <3>2 DEF h
  <2> QED
    BY <2>1, <2>2
<1>6. CASE ~Elementary(file)
  <2>1. CASE id <= 185
    <3>1. h[4] = 185 \/ (h[4] < 185 /\ h[4] # 185)
      <4>1. id = 185 \/ (id < 185 /\ id # 185)
        BY <2>1
      <4> QED
        BY <1>4, <4>1
    <3> QED
      BY <1>6, <3>1 DEF Parsed, h
  <2>2. CASE id = 186
    <3>1. h[4] # 185 /\ ~(h[4] < 185) /\ h[4] = 186 /\ h[4] # 189 /\ ~(h[4] <= 185)
      BY <1>4, <2>2
    <3>2. Skip(from, 0)
      BY <1>6, <3>1 DEF Parsed, h
    <3>3. ~Stops(file, h) /\ ~Chosen(file, h) /\ Left(file, h) = 0
      BY <1>6, <3>1 DEF Stops, Chosen, Left
    <3> QED
      BY <3>2, <3>3 DEF h
  <2>3. CASE id = 189
    <3>1. h[4] # 185 /\ ~(h[4] < 185) /\ h[4] # 186 /\ h[4] = 189 /\ ~(h[4] <= 185)
      BY <1>4, <2>3
    <3>2. IF Ours(file, h) THEN Payload(from, PacketLength(h) - len)
          ELSE Skip(from, PacketLength(h) - len)
      BY <1>6, <3>1 DEF Parsed, h
    <3>3. /\ ~Stops(file, h) /\ (Chosen(file, h) <=> Ours(file, h))
          /\ Left(file, h) = PacketLength(h) - len
      BY <1>6, <3>1 DEF Stops, Chosen, Left
    <3> QED
      BY <3>2, <3>3 DEF h
  <2>4. CASE id > 186 /\ id # 189
    <3>1. h[4] # 185 /\ ~(h[4] < 185) /\ h[4] # 186 /\ h[4] # 189 /\ ~(h[4] <= 185)
      BY <1>4, <2>4
    <3>2. Skip(from, 256 * h[5] + h[6])
      BY <1>6, <3>1 DEF Parsed, h
    <3>3. ~Stops(file, h) /\ ~Chosen(file, h) /\ Left(file, h) = 256 * h[5] + h[6]
      BY <1>6, <3>1 DEF Stops, Chosen, Left
    <3> QED
      BY <3>2, <3>3 DEF h
  <2> QED
    BY <2>1, <2>2, <2>3, <2>4
<1> QED
  BY <1>5, <1>6

\* The payload of a packet goes to a52_decode_data, now or as it comes.
LEMMA PayloadPlaced ==
  ASSUME NEW H, InPackets(H), file' = file, NEW p \in H, Goes(file, p), StartCode(Rest(file, p)),
         Chosen(file, Rest(file, p)), From(file, p) <= last,
         Payload(From(file, p), Left(file, Rest(file, p)))
  PROVE  Placed(H)' /\ buf' = From(file, p)
<1> DEFINE from == From(file, p)
           len  == Left(file, Rest(file, p))
           next == Following(file, p)
<1>1. /\ file \in Files /\ ~Raw(file) /\ HeadersAt(file, H) /\ last \in Nat
      /\ p \in Nat \ {0}
  BY PlaceIs DEF InPackets, IInv, TypeOK
<1>2. /\ from \in Nat /\ len \in Int /\ from <= last
      /\ next = from + (IF len > 0 THEN len ELSE 0)
  BY <1>1, FollowingIs
<1>3. next \in H
  BY <1>1 DEF HeadersAt
<1>4. \A q \in Nat : from <= q /\ q < next => Belongs(file, H, q)
  BY <1>1, OfPacket
<1>5. Payload(from, len)
  OBVIOUS
<1> HIDE DEF from, len, next
<1>6. \A a, b \in Nat : from <= a /\ b <= next => AllOf(H, a, b)
  BY <1>2, <1>4 DEF AllOf
<1>7. CASE len > last - from
  <2>1. /\ buf' = from /\ state' = "data" /\ state_bytes' = len - (last - from)
        /\ dataEnd' = last /\ loops' = FALSE /\ pc' = "data"
    BY <1>5, <1>7 DEF Payload
  <2>2. next = from + len /\ next \in Nat /\ last <= next /\ dataEnd' + state_bytes' = next
    BY <1>1, <1>2, <1>7, <2>1
  <2>3. AllOf(H, from, last) /\ AllOf(H, last, next)
    BY <1>1, <1>2, <1>6, <2>2
  <2>4. AllOf(H, buf, dataEnd)' /\ AllOf(H, dataEnd, dataEnd + state_bytes)'
    BY <2>1, <2>2, <2>3 DEF AllOf
  <2>5. Passes(H)'
    BY <1>3, <2>1, <2>2, <2>4 DEF Passes
  <2> QED
    BY <2>1, <2>5 DEF Placed, Waits, Parses, from
<1>8. CASE ~(len > last - from) /\ len > 0
  <2>1. buf' = from /\ dataEnd' = from + len /\ loops' = TRUE /\ pc' = "data"
    BY <1>5, <1>8 DEF Payload
  <2>2. next = from + len /\ next \in Nat
    BY <1>2, <1>8
  <2>3. AllOf(H, from, next)
    BY <1>2, <1>6, <2>2
  <2>4. AllOf(H, buf, dataEnd)'
    BY <2>1, <2>2, <2>3 DEF AllOf
  <2>5. Passes(H)'
    BY <1>3, <2>1, <2>2, <2>4 DEF Passes
  <2> QED
    BY <2>1, <2>5 DEF Placed, Waits, Parses, from
<1>9. CASE ~(len > last - from) /\ ~(len > 0)
  <2>1. buf' = from /\ pc' = "loop"
    BY <1>5, <1>9 DEF Payload
  <2>2. next = from
    BY <1>2, <1>9
  <2> QED
    BY <1>3, <2>1, <2>2 DEF Placed, Waits, Parses, Passes, from
<1> QED
  BY <1>7, <1>8, <1>9

\* What is not of the stream is skipped.
LEMMA SkipPlaced ==
  ASSUME NEW H, InPackets(H), file' = file, NEW p \in H, Goes(file, p), StartCode(Rest(file, p)),
         ~Chosen(file, Rest(file, p)), From(file, p) <= last,
         Skip(From(file, p), Left(file, Rest(file, p)))
  PROVE  /\ Placed(H)' /\ buf' \in Nat /\ From(file, p) <= buf'
         /\ NoneOf(H, From(file, p), buf')
<1> DEFINE from == From(file, p)
           len  == Left(file, Rest(file, p))
           next == Following(file, p)
<1>1. /\ file \in Files /\ ~Raw(file) /\ HeadersAt(file, H) /\ last \in Nat
      /\ p \in Nat \ {0} /\ ~Transport
  BY PlaceIs DEF InPackets, IInv, TypeOK
<1>2. /\ from \in Nat /\ len \in Int /\ from <= last
      /\ next = from + (IF len > 0 THEN len ELSE 0)
  BY <1>1, FollowingIs
<1>3. next \in H
  BY <1>1 DEF HeadersAt
<1>4. \A q \in Nat : from <= q /\ q < next => ~Belongs(file, H, q)
  BY <1>1, OfPacket
<1>5. Skip(from, len)
  OBVIOUS
<1> HIDE DEF from, len, next
<1>6. \A a, b \in Nat : from <= a /\ b <= next => NoneOf(H, a, b)
  BY <1>2, <1>4 DEF NoneOf
<1>7. CASE len > last - from
  <2>1. /\ buf' = last /\ state' = "skip" /\ state_bytes' = len - (last - from) /\ pc' = "read"
    BY <1>1, <1>5, <1>7 DEF Skip, Return
  <2>2. next = from + len /\ next \in Nat /\ last <= next /\ buf' + state_bytes' = next
    BY <1>1, <1>2, <1>7, <2>1
  <2>3. NoneOf(H, from, last) /\ NoneOf(H, last, next)
    BY <1>1, <1>2, <1>6, <2>2
  <2>4. NoneOf(H, buf, buf + state_bytes)'
    BY <2>1, <2>2, <2>3 DEF NoneOf
  <2>5. Waits(H)'
    BY <1>3, <2>1, <2>2, <2>4 DEF Waits
  <2> QED
    BY <1>1, <1>2, <2>1, <2>3, <2>5 DEF Placed, Parses, Passes, from
<1>8. CASE ~(len > last - from)
  <2>1. buf' = (IF len > 0 THEN from + len ELSE from) /\ pc' = "loop"
    BY <1>5, <1>8 DEF Skip
  <2>2. buf' = next /\ next \in Nat /\ from <= next
    BY <1>2, <2>1
  <2>3. NoneOf(H, from, next)
    BY <1>2, <1>6, <2>2
  <2> QED
    BY <1>3, <2>1, <2>2, <2>3 DEF Placed, Waits, Parses, Passes, from
<1> QED
  BY <1>7, <1>8

\* A header is parsed: its packet is what the reader of the whole file finds there.
LEMMA ParsedPlaced ==
  ASSUME NEW H, InPackets(H), Parsed
  PROVE  Placed(H)' /\ NoneOf(H, buf, buf')
<1>1. /\ pc = "header" /\ Len(Header) >= Needs(file, Header) /\ StartCode(Header)
      /\ file' = file
  BY DEF Parsed
<1>2. /\ file \in Files /\ buf \in Nat \ {0} /\ last \in Nat /\ buf <= last
      /\ HeadersAt(file, H) /\ ~Raw(file)
  BY <1>1 DEF InPackets, IInv, TypeOK, Window
<1>3. PICK p \in H :
        /\ p = (IF inHead THEN buf - Len(head_buf) ELSE buf)
        /\ p <= buf
        /\ Header \in Seq(0..255) /\ Begins(Header, Rest(file, p))
        /\ inHead => /\ Len(Header) = buf - p /\ Len(Header) <= Needs(file, Header)
                     /\ Header = SubSeq(file.bytes, p, buf - 1)
                     /\ state = "header"
        /\ ~inHead => Len(Header) = last - buf /\ Header = SubSeq(file.bytes, buf, last - 1)
  BY <1>1, HeaderPlace
<1>4. p \in Nat \ {0} /\ Len(Header) \in Nat
  BY <1>2, <1>3, PlaceIs, LenProperties
<1>5. PICK n \in Nat : Needs(file, Header) = n /\ n >= 4
  BY <1>3, NeedsFour
<1>6. /\ Whole(file, p) /\ From(file, p) = p + n /\ StartCode(Rest(file, p))
      /\ Stops(file, Rest(file, p)) <=> Stops(file, Header)
      /\ Chosen(file, Rest(file, p)) <=> Chosen(file, Header)
      /\ ~Stops(file, Header) => Left(file, Rest(file, p)) = Left(file, Header)
  BY <1>1, <1>2, <1>3, <1>4, <1>5, HeaderSeen
<1>7. Behind(n) = p + n /\ buf <= p + n /\ p + n <= last
  <2>1. CASE inHead
    <3>1. Len(Header) = n
      BY <1>1, <1>3, <1>4, <1>5, <2>1
    <3> QED
      BY <1>2, <1>3, <1>4, <2>1, <3>1 DEF Behind
  <2>2. CASE ~inHead
    BY <1>1, <1>2, <1>3, <1>4, <1>5, <2>2 DEF Behind
  <2> QED
    BY <2>1, <2>2
<1>8. NoneOf(H, buf, p + n)
  <2>1. ASSUME NEW q \in buf..((p + n) - 1) PROVE ~Belongs(file, H, q)
    <3>1. q \in Nat /\ p <= q /\ q < From(file, p)
      BY <1>2, <1>3, <1>4, <1>6
    <3> QED
      BY <1>2, <3>1, NoneInHeader
  <2> QED
    BY <2>1 DEF NoneOf
<1>9. CASE pc' \in {"exit", "done"} /\ buf' = buf
  <2>1. NoneOf(H, buf, buf')
    BY <1>2, <1>9 DEF NoneOf
  <2> QED
    BY <1>9, <2>1 DEF Placed, Waits, Parses, Passes
<1>10. CASE /\ ~Stops(file, Header)
            /\ Chosen(file, Header) => Payload(Behind(n), Left(file, Header))
            /\ ~Chosen(file, Header) => Skip(Behind(n), Left(file, Header))
  <2>1. Goes(file, p)
    BY <1>6, <1>10 DEF Goes
  <2>2. CASE Chosen(file, Header)
    <3>1. Placed(H)' /\ buf' = From(file, p)
      BY <1>1, <1>6, <1>7, <1>10, <2>1, <2>2, PayloadPlaced
    <3> QED
      BY <1>6, <1>8, <3>1
  <2>3. CASE ~Chosen(file, Header)
    <3>1. /\ Placed(H)' /\ buf' \in Nat /\ From(file, p) <= buf'
          /\ NoneOf(H, From(file, p), buf')
      BY <1>1, <1>6, <1>7, <1>10, <2>1, <2>3, SkipPlaced
    <3>2. ASSUME NEW q \in buf..(buf' - 1) PROVE ~Belongs(file, H, q)
      <4>1. CASE q < p + n
        <5>1. q \in buf..((p + n) - 1)
          BY <1>2, <1>4, <1>7, <3>1, <4>1
        <5> QED
          BY <1>8, <5>1 DEF NoneOf
      <4>2. CASE ~(q < p + n)
        <5> DEFINE to == buf' - 1
        <5>1. buf \in Nat /\ to \in Int /\ p \in Nat
          BY <1>2, <1>4, <3>1
        <5>2. q \in buf..to
          OBVIOUS
        <5> HIDE DEF to
        <5>3. q \in (p + n)..to
          BY <4>2, <5>1, <5>2
        <5>4. NoneOf(H, p + n, buf')
          BY <1>6, <3>1
        <5> QED
          BY <5>3, <5>4 DEF NoneOf, to
      <4> QED
        BY <4>1, <4>2
    <3>3. NoneOf(H, buf, buf')
      BY <3>2 DEF NoneOf
    <3> QED
      BY <3>1, <3>3
  <2> QED
    BY <2>2, <2>3
<1> QED
  BY <1>5, <1>9, <1>10, ParsedKind DEF InPackets
------------------------------------------------------------------------------
(***************************************************************************)
(* What is passed on is what that reader finds before buf.                 *)
(***************************************************************************)
PassedOn(H) ==
  /\ \A i \in 1..Len(out) : out[i] # 0 /\ Belongs(file, H, out[i])
  /\ \A q \in 1..(buf - 1) : Belongs(file, H, q) => \E i \in 1..Len(out) : out[i] = q

\* A file without packets goes to a52_decode_data as it is.
Plain == Raw(file) /\ pc \in {"read", "data", "done"} /\ ~loops

OnCourse(H) ==
  /\ ~Transport /\ HeadersAt(file, H) /\ PassedOn(H)
  /\ IF Raw(file) THEN Plain ELSE Placed(H)

\* He starts where demux does.
LEMMA InitOnCourse ==
  ASSUME Init, ~Transport, NEW H, HeadersAt(file, H)
  PROVE  OnCourse(H)
<1>1. out = << >> /\ Len(out) = 0 /\ buf = 1 /\ pc = "read" /\ loops = FALSE
      /\ state = "skip" /\ state_bytes = 0 /\ 1 \in H
  BY EmptySeq DEF Init, HeadersAt
<1>2. PassedOn(H)
  BY <1>1 DEF PassedOn
<1>3. Placed(H)
  BY <1>1 DEF Placed, Waits, Parses, Passes, NoneOf
<1>4. Raw(file) => Plain
  BY <1>1 DEF Plain
<1> QED
  BY <1>2, <1>3, <1>4 DEF OnCourse

\* Nothing is passed on, and nothing that belongs to the stream is left out.
LEMMA PassedOver ==
  ASSUME NEW H, PassedOn(H), IInv, file' = file, out' = out, buf' \in Nat,
         NoneOf(H, buf, buf')
  PROVE  PassedOn(H)'
<1>1. buf \in Nat
  BY DEF IInv, TypeOK
<1>2. \A i \in 1..Len(out') : out'[i] # 0 /\ Belongs(file', H, out'[i])
  BY DEF PassedOn
<1> DEFINE to == buf' - 1
<1>3. to \in Int
  OBVIOUS
<1> HIDE DEF to
<1>4. ASSUME NEW q \in 1..to, Belongs(file, H, q)
      PROVE  \E i \in 1..Len(out) : out[i] = q
  <2>1. q \in Nat /\ q >= 1 /\ q <= to
    BY <1>3
  <2>2. q < buf
    <3> SUFFICES ASSUME ~(q < buf) PROVE FALSE
      OBVIOUS
    <3>1. q \in buf..to
      BY <1>1, <1>3, <2>1
    <3> QED
      BY <1>4, <3>1 DEF NoneOf, to
  <2>3. q \in 1..(buf - 1)
    BY <1>1, <2>1, <2>2
  <2> QED
    BY <1>4, <2>3 DEF PassedOn
<1> QED
  BY <1>2, <1>4 DEF PassedOn, to

\* What a52_decode_data takes is passed on.
LEMMA PassedFurther ==
  ASSUME NEW H, PassedOn(H), PInv, Decode, AllOf(H, buf, buf')
  PROVE  PassedOn(H)'
<1> DEFINE len   == Smaller(dataEnd - buf, bufpos - Len(frame))
           chunk == [i \in 1..len |-> buf + i - 1]
           m     == Len(out)
           o     == out'
<1>1. /\ file' = file /\ buf' = buf + len /\ out' = out \o chunk
      /\ pc = "data" /\ buf < dataEnd
  BY DEF Decode
<1>2. /\ buf \in Nat \ {0} /\ dataEnd \in Nat /\ bufpos \in Nat
      /\ Len(frame) \in Nat /\ Len(frame) < bufpos
      /\ out \in Seq(Nat) /\ m \in Nat
  BY LenProperties DEF PInv, IInv, TypeOK, Rests, Passed
<1>3. len \in Nat
  BY <1>1, <1>2 DEF Smaller
<1> HIDE DEF len, m
<1>4. chunk \in Seq(Nat) /\ Len(chunk) = len /\ \A i \in 1..len : chunk[i] = buf + i - 1
  BY <1>2, <1>3
<1> HIDE DEF chunk
<1>5. /\ Len(o) = m + len
      /\ \A i \in 1..m : o[i] = out[i]
      /\ \A i \in 1..len : o[m + i] = buf + i - 1
  <2>1. o = out \o chunk
    BY <1>1
  <2> HIDE DEF o
  <2>2. Len(out \o chunk) = Len(out) + Len(chunk)
    BY <1>2, <1>4, Joined
  <2>3. \A i \in 1..Len(out) : (out \o chunk)[i] = out[i]
    BY <1>2, <1>4, Joined
  <2>4. \A i \in 1..Len(chunk) : (out \o chunk)[Len(out) + i] = chunk[i]
    BY <1>2, <1>4, Joined
  <2> QED
    BY <1>4, <2>1, <2>2, <2>3, <2>4 DEF m
<1> HIDE DEF o
<1>6. ASSUME NEW i \in 1..(m + len) PROVE o[i] # 0 /\ Belongs(file, H, o[i])
  <2>1. CASE i \in 1..m
    BY <1>5, <2>1 DEF PassedOn, m
  <2>2. CASE ~(i \in 1..m)
    <3>1. i - m \in 1..len /\ m + (i - m) = i
      BY <1>2, <1>3, <2>2
    <3>2. o[i] = buf + (i - m) - 1
      BY <1>5, <3>1
    <3>3. o[i] \in buf..(buf' - 1) /\ o[i] # 0
      BY <1>1, <1>2, <1>3, <3>1, <3>2
    <3> QED
      BY <3>3 DEF AllOf
  <2> QED
    BY <2>1, <2>2
<1>7. ASSUME NEW q \in 1..(buf' - 1), Belongs(file, H, q)
      PROVE  \E i \in 1..(m + len) : o[i] = q
  <2>1. CASE q < buf
    <3>1. q \in 1..(buf - 1)
      BY <1>2, <2>1
    <3>2. PICK i \in 1..m : out[i] = q
      BY <1>7, <3>1 DEF PassedOn, m
    <3>3. i \in 1..(m + len) /\ o[i] = q
      BY <1>2, <1>3, <1>5, <3>2
    <3> QED
      BY <3>3
  <2>2. CASE ~(q < buf)
    <3> DEFINE i == q - buf + 1
    <3>1. i \in 1..len /\ buf + i - 1 = q /\ m + i \in 1..(m + len)
      BY <1>1, <1>2, <1>3, <2>2
    <3>2. o[m + i] = q
      BY <1>5, <3>1
    <3> QED
      BY <3>1, <3>2
  <2> QED
    BY <2>1, <2>2
<1>8. file' = file /\ Len(out') = m + len
  BY <1>1, <1>5 DEF o
<1> QED
  BY <1>6, <1>7, <1>8 DEF PassedOn, o

\* In packets, demux goes where the reader of the whole file goes.
LEMMA NextPlaced ==
  ASSUME NEW H, InPackets(H), Next, ~Decode
  PROVE  Placed(H)' /\ NoneOf(H, buf, buf')
<1>1. ~Packet
  BY DEF InPackets, Placed, Packet
<1> QED
  BY <1>1, ReadPlaced, ResumePlaced, LoopPlaced, NeedBytesPlaced, ResyncPlaced,
     ParsedPlaced, DataDonePlaced DEF Next

\* Without packets, only a52_decode_data takes bytes.
LEMMA PlainOn ==
  ASSUME IInv, ~Transport, Plain, Next
  PROVE  Plain' /\ (~Decode => buf' = buf)
<1>1. Raw(file) /\ pc \in {"read", "data", "done"} /\ loops = FALSE
  BY DEF Plain, IInv, TypeOK
<1>2. Read \/ DataDone \/ Decode
  BY <1>1 DEF Next, Packet, Resume, Loop, NeedBytes, Resync, Parsed
<1>3. CASE Read
  <2>1. file' = file /\ buf' = buf /\ pc' \in {"data", "done"} /\ loops' = FALSE
    BY <1>1, <1>3 DEF Read, Raw, dataVars, Transport
  <2> QED
    BY <1>1, <2>1 DEF Plain, Raw
<1>4. CASE DataDone
  <2>1. file' = file /\ buf' = buf /\ pc' = "read" /\ loops' = FALSE
    BY <1>1, <1>4 DEF DataDone, Return, dataVars
  <2> QED
    BY <1>1, <2>1 DEF Plain, Raw
<1>5. CASE Decode
  <2>1. file' = file /\ pc' = pc /\ loops' = loops
    BY <1>5 DEF Decode, dataVars
  <2> QED
    BY <1>1, <1>5, <2>1 DEF Plain, Raw
<1> QED
  BY <1>2, <1>3, <1>4, <1>5

\* Every step keeps to what the reader finds.
LEMMA NextOnCourse ==
  ASSUME NEW H, PInv, OnCourse(H), [Next]_vars
  PROVE  OnCourse(H)'
<1>1. IInv /\ IInv' /\ buf' \in Nat
  <2>1. IInv'
    BY NextIInv DEF PInv
  <2> QED
    BY <2>1 DEF PInv, IInv, TypeOK
<1>2. CASE UNCHANGED vars
  BY <1>2 DEF vars, demuxVars, dataVars, esVars, OnCourse, PassedOn, Plain, Placed, Waits,
              Parses, Passes, Partly, AllOf, NoneOf, Transport
<1>3. CASE Next
  <2>1. file' = file
    <3>1. CASE Decode
      BY <3>1 DEF Decode
    <3> QED
      BY <1>1, <1>3, <3>1, Onward
  <2>2. ~Decode => out' = out
    BY <1>1, <1>3, Onward DEF esVars
  <2>3. ~Transport /\ HeadersAt(file, H) /\ PassedOn(H)
    BY DEF OnCourse
  <2>4. (~Transport)' /\ HeadersAt(file, H)'
    BY <2>1, <2>3 DEF Transport
  <2>5. CASE Raw(file)
    <3>1. Plain' /\ (~Decode => buf' = buf)
      BY <1>1, <1>3, <2>3, <2>5, PlainOn DEF OnCourse
    <3>2. PassedOn(H)'
      <4>1. CASE Decode
        <5>1. AllOf(H, buf, buf')
          BY <2>5 DEF AllOf, Belongs
        <5> QED
          BY <2>3, <4>1, <5>1, PassedFurther
      <4>2. CASE ~Decode
        <5>1. NoneOf(H, buf, buf')
          BY <1>1, <3>1, <4>2 DEF NoneOf, IInv, TypeOK
        <5> QED
          BY <1>1, <2>1, <2>2, <2>3, <4>2, <5>1, PassedOver
      <4> QED
        BY <4>1, <4>2
    <3>3. Raw(file)'
      BY <2>1, <2>5
    <3> QED
      BY <2>4, <3>1, <3>2, <3>3 DEF OnCourse
  <2>6. CASE ~Raw(file)
    <3>1. InPackets(H)
      BY <1>1, <2>3, <2>6 DEF InPackets, OnCourse
    <3>2. Placed(H)' /\ PassedOn(H)'
      <4>1. CASE Decode
        BY <2>3, <3>1, <4>1, DecodePlaced, PassedFurther
      <4>2. CASE ~Decode
        <5>1. Placed(H)' /\ NoneOf(H, buf, buf')
          BY <1>3, <3>1, <4>2, NextPlaced
        <5> QED
          BY <1>1, <2>1, <2>2, <2>3, <4>2, <5>1, PassedOver
      <4> QED
        BY <4>1, <4>2
    <3>3. ~Raw(file)'
      BY <2>1, <2>6
    <3> QED
      BY <2>4, <3>2, <3>3 DEF OnCourse
  <2> QED
    BY <2>5, <2>6
<1> QED
  BY <1>2, <1>3

\* Of two increasing sequences, one that has, up to its last number, all numbers of
\* the other and no more is where the other begins.
LEMMA SameBeginning ==
  ASSUME NEW s \in Seq(Nat), NEW t \in Seq(Nat),
         \A i, j \in 1..Len(s) : i < j => s[i] < s[j],
         \A i, j \in 1..Len(t) : i < j => t[i] < t[j],
         \A i \in 1..Len(s) : \E k \in 1..Len(t) : t[k] = s[i],
         \A i \in 1..Len(s), k \in 1..Len(t) :
           t[k] < s[i] => \E j \in 1..Len(s) : s[j] = t[k]
  PROVE  \A i \in 1..Len(s) : i <= Len(t) /\ t[i] = s[i]
<1> DEFINE m   == Len(s)
           n   == Len(t)
           bad == {i \in 1..m : ~(i <= n /\ t[i] = s[i])}
<1>1. m \in Nat /\ n \in Nat /\ (\A i \in 1..m : s[i] \in Nat) /\ (\A k \in 1..n : t[k] \in Nat)
  BY LenProperties, ElementOfSeq
<1>2. /\ \A i, j \in 1..m : i < j => s[i] < s[j]
      /\ \A i, j \in 1..n : i < j => t[i] < t[j]
      /\ \A i \in 1..m : \E k \in 1..n : t[k] = s[i]
      /\ \A i \in 1..m, k \in 1..n : t[k] < s[i] => \E j \in 1..m : s[j] = t[k]
  OBVIOUS
<1> HIDE DEF m, n
<1> SUFFICES ASSUME bad # {} PROVE FALSE
  BY DEF m, n
<1> DEFINE i == Min(bad)
<1>3. i \in 1..m /\ ~(i <= n /\ t[i] = s[i]) /\ \A j \in 1..m : j < i => j <= n /\ t[j] = s[j]
  <2>1. bad \in SUBSET Nat
    BY <1>1
  <2>2. i \in bad /\ \A j \in bad : i <= j
    BY <2>1, MinIsLeast
  <2> HIDE DEF i
  <2>3. i \in 1..m /\ ~(i <= n /\ t[i] = s[i])
    BY <2>2
  <2>4. ASSUME NEW j \in 1..m, j < i PROVE j <= n /\ t[j] = s[j]
    BY <1>1, <2>2, <2>3, <2>4
  <2> QED
    BY <2>3, <2>4
<1> HIDE DEF i, bad
<1>4. PICK k \in 1..n : t[k] = s[i]
  BY <1>2, <1>3
<1>5. i <= k
  <2> SUFFICES ASSUME k < i PROVE FALSE
    BY <1>1, <1>3
  <2>1. k \in 1..m
    BY <1>1, <1>3
  <2>2. s[k] = s[i] /\ s[k] < s[i]
    BY <1>2, <1>3, <1>4, <2>1
  <2> QED
    BY <1>1, <2>1, <2>2
<1>6. i \in 1..n
  BY <1>1, <1>3, <1>5
<1>7. t[i] # t[k]
  BY <1>3, <1>4, <1>6
<1>8. i < k
  BY <1>1, <1>5, <1>6, <1>7
<1>9. t[i] < s[i]
  BY <1>2, <1>4, <1>6, <1>8
<1>10. PICK j \in 1..m : s[j] = t[i]
  BY <1>2, <1>3, <1>6, <1>9
<1>11. j < i
  <2>1. s[j] < s[i]
    BY <1>9, <1>10
  <2> SUFFICES ASSUME ~(j < i) PROVE FALSE
    OBVIOUS
  <2>2. j = i \/ i < j
    BY <1>3, <1>10
  <2>3. s[i] = s[j] \/ s[i] < s[j]
    BY <1>2, <1>3, <1>10, <2>2
  <2>4. s[i] \in Nat /\ s[j] \in Nat
    BY <1>1, <1>3, <1>10
  <2> QED
    BY <2>1, <2>3, <2>4
<1>12. j \in 1..n /\ t[j] = s[j]
  BY <1>1, <1>3, <1>6, <1>11
<1>13. t[j] < t[i]
  BY <1>2, <1>6, <1>11, <1>12
<1> QED
  BY <1>1, <1>6, <1>10, <1>12, <1>13

\* It is a prefix.
LEMMA Prefix ==
  ASSUME NEW S, NEW s \in Seq(S), NEW t \in Seq(S),
         \A i \in 1..Len(s) : i <= Len(t) /\ t[i] = s[i]
  PROVE  IsPrefix(s, t)
<1> DEFINE m == Len(s)
<1>1. m \in Nat /\ Len(t) \in Nat /\ \A i \in 1..m : s[i] \in S /\ t[i] \in S
  BY LenProperties, ElementOfSeq
<1>2. m <= Len(t)
  <2>1. CASE m = 0
    BY <1>1, <2>1
  <2>2. CASE m # 0
    BY <1>1, <2>2
  <2> QED
    BY <2>1, <2>2
<1> DEFINE u == SubSeq(s, 1, m)
           v == SubSeq(t, 1, m)
<1>3. \A i \in 1..m : t[i] = s[i]
  OBVIOUS
<1> HIDE DEF m
<1>4. /\ u \in Seq(S) /\ Len(u) = m /\ \A i \in 1..m : u[i] = s[i]
      /\ v \in Seq(S) /\ Len(v) = m /\ \A i \in 1..m : v[i] = t[i]
  <2>1. m - 1 + 1 = m /\ (IF 1 <= m THEN m - 1 + 1 ELSE 0) = m /\ \A i \in 1..m : 1 + i - 1 = i
    BY <1>1
  <2>2. /\ u \in Seq(S) /\ Len(u) = IF 1 <= m THEN m - 1 + 1 ELSE 0
        /\ \A i \in 1..(m - 1 + 1) : u[i] = s[1 + i - 1]
    BY <1>1, SubSeqProperties
  <2>3. /\ v \in Seq(S) /\ Len(v) = IF 1 <= m THEN m - 1 + 1 ELSE 0
        /\ \A i \in 1..(m - 1 + 1) : v[i] = t[1 + i - 1]
    BY <1>1, SubSeqProperties
  <2> HIDE DEF u, v
  <2> QED
    BY <2>1, <2>2, <2>3
<1> HIDE DEF u, v
<1>5. u = v
  BY <1>3, <1>4, SeqEqual
<1> QED
  BY <1>2, <1>5 DEF IsPrefix, u, v, m
------------------------------------------------------------------------------
(***************************************************************************)
(* What FramesFrom finds, and what is cut from the bytes passed on.        *)
(***************************************************************************)

\* The frames from place i on, if after has those from later places on.
Cut(bytes, after, i) ==
  IF i + 6 > Len(bytes) THEN << >>
  ELSE LET n == Syncinfo(SubSeq(bytes, i, i + 6))
       IN  IF n = 0 THEN after[i + 1]
           ELSE IF i + n > Len(bytes) + 1 THEN << >>
           ELSE <<SubSeq(bytes, i, i + n - 1)>> \o after[i + n]

\* The length of a frame is that of its header.
LEMMA SizeOf ==
  ASSUME NEW P \in Seq(0..255), NEW i \in 1..Len(P), i + 6 <= Len(P)
  PROVE  /\ Syncinfo(SubSeq(P, i, i + 6)) \in Nat
         /\ Syncinfo(SubSeq(P, i, i + 6)) =
              IF P[i] = 11 /\ P[i + 1] = 119 /\ P[i + 4] > 7 THEN P[i + 4] ELSE 0
         /\ Syncinfo(SubSeq(P, i, i + 6)) # 0 => Syncinfo(SubSeq(P, i, i + 6)) > 7
<1> DEFINE L == Len(P)
           w == SubSeq(P, i, i + 6)
<1>1. L \in Nat /\ \A j \in 1..L : P[j] \in 0..255
  BY ByteAt
<1> HIDE DEF L
<1>2. i \in Nat /\ i >= 1 /\ i + 6 <= L
  BY <1>1 DEF L
<1>3. \A j \in 1..7 : w[j] = P[i + j - 1]
  <2> DEFINE to == i + 6
  <2>1. to \in Int /\ i \in Int /\ to - i + 1 = 7 /\ \A j \in i..to : P[j] \in 0..255
    BY <1>1, <1>2
  <2> HIDE DEF to
  <2>2. \A j \in 1..(to - i + 1) : SubSeq(P, i, to)[j] = P[i + j - 1]
    BY <2>1, SubSeqProperties
  <2> QED
    BY <2>1, <2>2 DEF to
<1> HIDE DEF w
<1>4. w[1] = P[i] /\ w[2] = P[i + 1] /\ w[5] = P[i + 4] /\ P[i + 4] \in 0..255
  <2>1. i + 1 - 1 = i /\ i + 2 - 1 = i + 1 /\ i + 5 - 1 = i + 4 /\ i + 4 \in 1..L
    BY <1>1, <1>2
  <2>2. 1 \in 1..7 /\ 2 \in 1..7 /\ 5 \in 1..7
    OBVIOUS
  <2> QED
    BY <1>1, <1>3, <2>1, <2>2
<1>5. Syncinfo(w) = IF P[i] = 11 /\ P[i + 1] = 119 /\ P[i + 4] > 7 THEN P[i + 4] ELSE 0
  BY <1>4 DEF Syncinfo
<1>6. Syncinfo(w) \in Nat /\ (Syncinfo(w) # 0 => Syncinfo(w) > 7)
  <2>1. PICK x \in 0..255 : P[i + 4] = x
    BY <1>4
  <2>2. Syncinfo(w) = 0 \/ (Syncinfo(w) = x /\ x > 7)
    BY <1>5, <2>1
  <2> QED
    BY <2>2
<1> QED
  BY <1>5, <1>6 DEF w

\* Only later places matter.
LEMMA CutLater ==
  ASSUME NEW P \in Seq(0..255), NEW g, NEW h, NEW i \in 1..(Len(P) + 1),
         \A j \in 1..(Len(P) + 1) : i < j => g[j] = h[j]
  PROVE  Cut(P, g, i) = Cut(P, h, i)
<1> DEFINE L == Len(P)
           n == Syncinfo(SubSeq(P, i, i + 6))
<1>1. L \in Nat
  BY ByteAt
<1>2. CASE i + 6 > L
  BY <1>2 DEF Cut
<1>3. CASE ~(i + 6 > L)
  <2>1. n \in Nat /\ (n # 0 => n > 7)
    <3>1. i \in 1..L /\ i + 6 <= L
      BY <1>1, <1>3
    <3> QED
      BY <3>1, SizeOf
  <2>2. \A f : Cut(P, f, i) = IF n = 0 THEN f[i + 1]
                             ELSE IF i + n > L + 1 THEN << >>
                             ELSE <<SubSeq(P, i, i + n - 1)>> \o f[i + n]
    BY <1>3 DEF Cut
  <2> HIDE DEF n
  <2>3. g[i + 1] = h[i + 1]
    <3>1. i + 1 \in 1..(L + 1) /\ i < i + 1
      BY <1>1, <1>3
    <3> QED
      BY <3>1
  <2>4. n # 0 /\ ~(i + n > L + 1) => g[i + n] = h[i + n]
    <3> HAVE n # 0 /\ ~(i + n > L + 1)
    <3>1. i + n \in 1..(L + 1) /\ i < i + n
      BY <1>1, <2>1
    <3> QED
      BY <3>1
  <2> QED
    BY <2>2, <2>3, <2>4
<1> QED
  BY <1>2, <1>3

\* There are frames from each place on: those from the last place on are none, and
\* those from a place are told by the later ones.
LEMMA CutAll ==
  ASSUME NEW P \in Seq(0..255)
  PROVE  \E g : g = [i \in 1..(Len(P) + 1) |-> Cut(P, g, i)]
<1> DEFINE M   == Len(P) + 1
           Good(g, k) == \A i \in 1..M : i > M - k => g[i] = Cut(P, g, i)
           bad == {k \in 0..M : ~ \E g : Good(g, k)}
<1>1. M \in Nat
  BY ByteAt
<1>2. \A g, h, i : i \in 1..M /\ (\A j \in 1..M : i < j => g[j] = h[j])
                     => Cut(P, g, i) = Cut(P, h, i)
  BY CutLater
<1> HIDE DEF M
<1>3. bad = {}
  <2> SUFFICES ASSUME bad # {} PROVE FALSE
    OBVIOUS
  <2> DEFINE k == Min(bad)
  <2>1. bad \in SUBSET Nat
    BY <1>1
  <2>2. k \in bad /\ \A j \in bad : k <= j
    BY <2>1, MinIsLeast
  <2> HIDE DEF k
  <2>3. k \in 0..M /\ ~ \E g : Good(g, k)
    BY <2>2
  <2>4. Good(<< >>, 0)
    BY <1>1
  <2>5. k # 0
    BY <2>3, <2>4
  <2>6. k - 1 \in 0..M /\ ~(k - 1 \in bad)
    <3>1. k - 1 \in 0..M /\ ~(k <= k - 1)
      BY <1>1, <2>3, <2>5
    <3> QED
      BY <2>2, <3>1
  <2>7. PICK g : Good(g, k - 1)
    BY <2>6
  <2> DEFINE c == M - k + 1
             h == [i \in 1..M |-> IF i = c THEN Cut(P, g, c) ELSE g[i]]
  <2>8. c \in 1..M /\ c = M - (k - 1) /\ M - k = c - 1
    BY <1>1, <2>3, <2>5
  <2> HIDE DEF c
  <2>9. \A i \in 1..M : i >= c => Cut(P, h, i) = Cut(P, g, i)
    <3> TAKE i \in 1..M
    <3> HAVE i >= c
    <3>1. \A j \in 1..M : i < j => h[j] = g[j]
      BY <1>1, <2>8
    <3> HIDE DEF h
    <3>2. i \in 1..M /\ (\A j \in 1..M : i < j => h[j] = g[j]) => Cut(P, h, i) = Cut(P, g, i)
      BY <1>2
    <3> QED
      BY <3>1, <3>2
  <2>10. Good(h, k)
    <3> SUFFICES ASSUME NEW i \in 1..M, i > M - k PROVE h[i] = Cut(P, h, i)
      OBVIOUS
    <3>1. i >= c
      BY <1>1, <2>8
    <3>2. CASE i = c
      BY <2>8, <2>9, <3>1, <3>2
    <3>3. CASE i # c
      <4>1. h[i] = g[i] /\ i > M - (k - 1)
        BY <1>1, <2>8, <3>1, <3>3
      <4>2. g[i] = Cut(P, g, i)
        BY <2>7, <4>1
      <4> QED
        BY <2>9, <3>1, <4>1, <4>2
    <3> QED
      BY <3>2, <3>3
  <2> QED
    BY <2>3, <2>10
<1>4. PICK g : Good(g, M)
  <2>1. M \in 0..M
    BY <1>1
  <2> QED
    BY <1>3, <2>1
<1> DEFINE h == [i \in 1..M |-> g[i]]
<1>5. h = [i \in 1..M |-> Cut(P, h, i)]
  <2>1. \A i \in 1..M : h[i] = Cut(P, h, i)
    <3> TAKE i \in 1..M
    <3>1. i > M - M
      BY <1>1
    <3>2. g[i] = Cut(P, g, i)
      BY <1>4, <3>1
    <3>3. Cut(P, h, i) = Cut(P, g, i)
      BY <1>2
    <3> QED
      BY <3>2, <3>3
  <2> QED
    BY <2>1
<1> QED
  BY <1>5 DEF M

\* So FramesAfter is what its definition says.
LEMMA FramesAfterIs ==
  ASSUME NEW P \in Seq(0..255), NEW i \in 1..(Len(P) + 1)
  PROVE  FramesAfter(P)[i] = Cut(P, FramesAfter(P), i)
<1> DEFINE M == Len(P) + 1
<1>1. FramesAfter(P) = CHOOSE g : g = [j \in 1..M |-> Cut(P, g, j)]
  BY DEF FramesAfter, Cut
<1>2. FramesAfter(P) = [j \in 1..M |-> Cut(P, FramesAfter(P), j)]
  BY <1>1, CutAll
<1> QED
  BY <1>2

\* They are sequences of frames.
LEMMA FramesAfterSeq ==
  ASSUME NEW P \in Seq(0..255), NEW i \in 1..(Len(P) + 1)
  PROVE  FramesAfter(P)[i] \in Seq(Seq(0..255))
<1> DEFINE M   == Len(P) + 1
           F   == FramesAfter(P)
           S   == Seq(Seq(0..255))
           bad == {k \in 0..M : \E j \in 1..M : j = M - k /\ ~(F[j] \in S)}
<1>1. M \in Nat /\ \A j \in 1..Len(P) : P[j] \in 0..255
  BY ByteAt
<1>2. \A j \in 1..M : F[j] = Cut(P, F, j)
  BY FramesAfterIs
<1> HIDE DEF F
<1>3. bad = {}
  <2> SUFFICES ASSUME bad # {} PROVE FALSE
    OBVIOUS
  <2> DEFINE k == Min(bad)
  <2>1. bad \in SUBSET Nat
    BY <1>1
  <2>2. k \in bad /\ \A j \in bad : k <= j
    BY <2>1, MinIsLeast
  <2> HIDE DEF k
  <2>3. PICK c \in 1..M : c = M - k /\ ~(F[c] \in S) /\ k \in 0..M
    BY <2>2
  <2>4. \A j \in 1..M : c < j => F[j] \in S
    <3> TAKE j \in 1..M
    <3> HAVE c < j
    <3> SUFFICES ASSUME ~(F[j] \in S) PROVE FALSE
      OBVIOUS
    <3>1. M - j \in 0..M /\ j = M - (M - j) /\ ~(k <= M - j)
      BY <1>1, <2>3
    <3>2. M - j \in bad
      BY <3>1
    <3> QED
      BY <2>2, <3>1, <3>2
  <2>5. F[c] = Cut(P, F, c)
    BY <1>2
  <2>6. << >> \in S
    BY EmptySeq
  <2>7. CASE c + 6 > Len(P)
    BY <2>3, <2>5, <2>6, <2>7 DEF Cut
  <2>8. CASE ~(c + 6 > Len(P))
    <3> DEFINE n == Syncinfo(SubSeq(P, c, c + 6))
               w == SubSeq(P, c, c + n - 1)
    <3>1. Len(P) \in Nat /\ c \in 1..Len(P) /\ c + 6 <= Len(P)
      BY <1>1, <2>8, ByteAt
    <3>2. n \in Nat /\ (n # 0 => n > 7)
      BY <3>1, SizeOf
    <3>3. F[c] = IF n = 0 THEN F[c + 1]
                 ELSE IF c + n > Len(P) + 1 THEN << >> ELSE <<w>> \o F[c + n]
      BY <2>5, <2>8 DEF Cut
    <3> HIDE DEF n, w
    <3>4. c + 1 \in 1..M /\ c < c + 1
      BY <3>1
    <3>5. CASE n = 0
      BY <2>3, <2>4, <3>3, <3>4, <3>5
    <3>6. CASE n # 0 /\ c + n > Len(P) + 1
      BY <2>3, <2>6, <3>3, <3>6
    <3>7. CASE n # 0 /\ ~(c + n > Len(P) + 1)
      <4>1. c + n \in 1..M /\ c < c + n
        BY <3>1, <3>2, <3>7
      <4>2. F[c + n] \in S
        BY <2>4, <4>1
      <4>3. w \in Seq(0..255)
        <5> DEFINE to == c + n - 1
        <5>1. to \in Int /\ c \in Int /\ to <= Len(P)
          BY <3>1, <3>2, <3>7
        <5> HIDE DEF to
        <5>2. \A j \in c..to : P[j] \in 0..255
          <6>1. \A j \in c..to : j \in 1..Len(P)
            BY <3>1, <5>1
          <6> QED
            BY <1>1, <6>1
        <5>3. SubSeq(P, c, to) \in Seq(0..255)
          BY <5>1, <5>2, SubSeqProperties
        <5> QED
          BY <5>3 DEF w, to
      <4>4. <<w>> \in S
        BY <4>3
      <4>5. <<w>> \o F[c + n] \in S
        BY <4>2, <4>4, ConcatProperties
      <4> QED
        BY <2>3, <3>3, <3>7, <4>5
    <3> QED
      BY <3>5, <3>6, <3>7
  <2> QED
    BY <2>7, <2>8
<1>4. M - i \in 0..M /\ i = M - (M - i) /\ i \in 1..M
  BY <1>1
<1>5. F[i] \in S
  BY <1>3, <1>4
<1> QED
  BY <1>5 DEF F

\* Places without a header are passed over.
LEMMA PassedBy ==
  ASSUME NEW P \in Seq(0..255), NEW a \in Nat \ {0}, NEW c \in Nat, a <= c,
         \A p \in a..(c - 1) :
           p + 6 <= Len(P) /\ ~(P[p] = 11 /\ P[p + 1] = 119 /\ P[p + 4] > 7)
  PROVE  FramesAfter(P)[a] = FramesAfter(P)[c]
<1> DEFINE F   == FramesAfter(P)
           bad == {k \in 0..(c - a) : F[a] # F[a + k]}
<1>1. Len(P) \in Nat /\ a \in Nat /\ c \in Nat /\ a > 0
  BY ByteAt
<1>2. ASSUME NEW p \in a..(c - 1) PROVE F[p] = F[p + 1]
  <2>1. p \in 1..Len(P) /\ p \in 1..(Len(P) + 1) /\ p + 6 <= Len(P)
        /\ ~(P[p] = 11 /\ P[p + 1] = 119 /\ P[p + 4] > 7)
    BY <1>1
  <2>2. F[p] = Cut(P, F, p)
    BY <2>1, FramesAfterIs
  <2>3. Syncinfo(SubSeq(P, p, p + 6)) = 0
    BY <2>1, SizeOf
  <2>4. ~(p + 6 > Len(P))
    BY <1>1, <2>1
  <2> HIDE DEF F
  <2> QED
    BY <2>2, <2>3, <2>4 DEF Cut
<1> HIDE DEF F
<1>3. bad = {}
  <2> SUFFICES ASSUME bad # {} PROVE FALSE
    OBVIOUS
  <2> DEFINE k == Min(bad)
  <2>1. bad \in SUBSET Nat
    BY <1>1
  <2>2. k \in bad /\ \A j \in bad : k <= j
    BY <2>1, MinIsLeast
  <2> HIDE DEF k
  <2>3. k \in 0..(c - a) /\ F[a] # F[a + k]
    BY <2>2
  <2>4. k # 0
    BY <1>1, <2>3
  <2>5. k - 1 \in 0..(c - a) /\ ~(k <= k - 1)
    BY <1>1, <2>3, <2>4
  <2>6. F[a] = F[a + (k - 1)]
    BY <2>2, <2>5
  <2>7. a + (k - 1) \in a..(c - 1) /\ a + (k - 1) + 1 = a + k
    BY <1>1, <2>3, <2>4
  <2> QED
    BY <1>2, <2>3, <2>6, <2>7
<1> DEFINE k == c - a
<1>4. k \in 0..k /\ a + k = c
  BY <1>1
<1> HIDE DEF k
<1>5. F[a] = F[c]
  <2>1. F[a] = F[a + k]
    BY <1>3, <1>4 DEF k
  <2> QED
    BY <1>4, <2>1
<1> QED
  BY <1>5 DEF F

\* A frame, and what is behind it.
LEMMA FrameFirst ==
  ASSUME NEW P \in Seq(0..255), NEW c \in Nat \ {0}, NEW w \in Seq(0..255),
         Len(w) > 7, c + Len(w) <= Len(P) + 1,
         Len(w) = IF P[c] = 11 /\ P[c + 1] = 119 /\ P[c + 4] > 7 THEN P[c + 4] ELSE 0,
         \A i \in 1..Len(w) : w[i] = P[c + i - 1]
  PROVE  FramesAfter(P)[c] = <<w>> \o FramesAfter(P)[c + Len(w)]
<1> DEFINE n == Len(w)
           L == Len(P)
           F == FramesAfter(P)
           v == SubSeq(P, c, c + n - 1)
<1>1. L \in Nat /\ (\A j \in 1..L : P[j] \in 0..255) /\ n \in Nat /\ c \in Nat /\ c > 0
  BY ByteAt
<1>2. n > 7 /\ c + n <= L + 1 /\ \A i \in 1..n : w[i] = P[c + i - 1]
  OBVIOUS
<1>3. c \in 1..L /\ c \in 1..(L + 1) /\ c + 6 <= L /\ ~(c + 6 > L) /\ ~(c + n > L + 1)
  BY <1>1, <1>2
<1>4. Syncinfo(SubSeq(P, c, c + 6)) = n
  BY <1>3, SizeOf
<1>5. F[c] = Cut(P, F, c)
  BY <1>3, FramesAfterIs
<1> HIDE DEF F
<1>6. v = w
  <2> HIDE DEF L, n
  <2> DEFINE to == c + n - 1
  <2>1. to \in Int /\ c \in Int /\ to <= L /\ c <= to /\ to - c + 1 = n
    BY <1>1, <1>2
  <2> HIDE DEF to
  <2>2. \A j \in c..to : P[j] \in 0..255
    BY <1>1, <2>1
  <2>3. /\ SubSeq(P, c, to) \in Seq(0..255) /\ Len(SubSeq(P, c, to)) = to - c + 1
        /\ \A i \in 1..(to - c + 1) : SubSeq(P, c, to)[i] = P[c + i - 1]
    BY <2>1, <2>2, SubSeqProperties
  <2> DEFINE u == SubSeq(P, c, to)
  <2> HIDE DEF u
  <2>4. u \in Seq(0..255) /\ Len(u) = Len(w) /\ \A i \in 1..Len(u) : u[i] = w[i]
    BY <1>2, <2>1, <2>3 DEF u, n
  <2>5. u = w
    BY <2>4, SeqEqual
  <2> QED
    BY <2>5 DEF u, to, n
<1> HIDE DEF v
<1>7. n # 0
  BY <1>2
<1>8. Cut(P, F, c) = <<v>> \o F[c + n]
  <2> HIDE DEF n
  <2> QED
    BY <1>3, <1>4, <1>7 DEF Cut, L, v
<1> QED
  BY <1>5, <1>6, <1>8 DEF F

\* A sequence with one more element before it.
LEMMA Ahead ==
  ASSUME NEW S, NEW x \in S, NEW v \in Seq(S)
  PROVE  /\ Len(<<x>> \o v) = 1 + Len(v) /\ (<<x>> \o v)[1] = x
         /\ \A i \in 1..Len(v) : (<<x>> \o v)[1 + i] = v[i]
<1> DEFINE y == <<x>>
<1>1. y \in Seq(S) /\ Len(y) = 1 /\ y[1] = x
  OBVIOUS
<1> HIDE DEF y
<1>2. Len(y \o v) = Len(y) + Len(v)
  BY <1>1, Joined
<1>3. \A i \in 1..Len(y) : (y \o v)[i] = y[i]
  BY <1>1, Joined
<1>4. \A i \in 1..Len(v) : (y \o v)[Len(y) + i] = v[i]
  <2>1. y \in Seq(S)
    BY <1>1
  <2> QED
    BY <2>1, Joined
<1>5. Len(y \o v) = 1 + Len(v) /\ (y \o v)[1] = x
  BY <1>1, <1>2, <1>3
<1>6. \A i \in 1..Len(v) : (y \o v)[1 + i] = v[i]
  BY <1>1, <1>4
<1> QED
  BY <1>5, <1>6 DEF y

\* Where a frame ends that is found, or nothing is yet; and that the frames from there
\* on are the next one that is found and those behind it.
Ended(fs, at, j) == IF j = 0 THEN 1 ELSE at[j] + Len(fs[j])
OneMore(P, fs, at, j) ==
  /\ Ended(fs, at, j - 1) \in 1..(Len(P) + 1) /\ Ended(fs, at, j) \in 1..(Len(P) + 1)
  /\ FramesAfter(P)[Ended(fs, at, j - 1)] = <<fs[j]>> \o FramesAfter(P)[Ended(fs, at, j)]

\* Between the frames found there are no headers, so FramesFrom finds them too.
LEMMA FrameNext ==
  ASSUME NEW P \in Seq(0..255), NEW b, NEW o, NEW fs \in Seq(Seq(0..255)), NEW at, NEW s,
         Len(o) \in Nat, Len(o) <= Len(P), \A i \in 1..Len(o) : P[i] = b[o[i]],
         Found(b, o, fs, at, s), NEW j \in 1..Len(fs)
  PROVE  OneMore(P, fs, at, j)
<1> DEFINE m == Len(fs)
           n == Len(o)
           L == Len(P)
           a == Ended(fs, at, j - 1)
           c == at[j]
           w == fs[j]
           l(k) == Len(fs[k])
<1>1. /\ m \in Nat /\ n \in Nat /\ L \in Nat /\ n <= L
      /\ \A i \in 1..n : P[i] = b[o[i]]
  BY ByteAt, LenProperties
<1>2. \A k \in 1..m : fs[k] \in Seq(0..255) /\ l(k) \in Nat
  <2>1. \A k \in 1..m : fs[k] \in Seq(0..255)
    BY ElementOfSeq
  <2> QED
    BY <2>1, LenProperties
<1>3. /\ s \in 1..(n + 1)
      /\ \A k \in 1..m : /\ at[k] \in Nat \ {0} /\ at[k] + l(k) <= s
                         /\ l(k) > 7 /\ l(k) = SizeAt(b, o, at[k])
                         /\ \A i \in 1..l(k) : fs[k][i] = b[o[at[k] + i - 1]]
  BY DEF Found, Framed
<1>4. \A h, k \in 1..m : h < k => at[h] + l(h) <= at[k]
  BY DEF Found, Apart
<1>5. \A p \in 1..(s - 1) : Seen(b, o, fs, at, p)
  BY DEF Found, NoneMissed
<1>6. j \in 1..m /\ j \in Nat /\ j >= 1
  OBVIOUS
<1> HIDE DEF m, n, L, l
<1>7. /\ c \in Nat \ {0} /\ c + l(j) <= s /\ l(j) > 7 /\ l(j) = SizeAt(b, o, c)
      /\ \A i \in 1..l(j) : w[i] = b[o[c + i - 1]]
      /\ w \in Seq(0..255) /\ l(j) \in Nat
  BY <1>2, <1>3, <1>6
<1>8. a \in Nat /\ 1 <= a /\ a <= c
  <2>1. CASE j = 1
    <3>1. a = 1
      BY <2>1 DEF Ended
    <3> QED
      BY <1>7, <3>1
  <2>2. CASE j # 1
    <3>1. j - 1 \in 1..m /\ j - 1 < j /\ j - 1 # 0
      BY <1>1, <1>6, <2>2
    <3>2. a = at[j - 1] + l(j - 1)
      BY <3>1 DEF Ended, l
    <3>3. at[j - 1] + l(j - 1) <= at[j]
      BY <1>4, <1>6, <3>1
    <3>4. at[j - 1] \in Nat \ {0} /\ l(j - 1) \in Nat
      BY <1>2, <1>3, <3>1
    <3> QED
      BY <3>2, <3>3, <3>4
  <2> QED
    BY <2>1, <2>2
\* Between the frames no place has a header.
<1>9. ASSUME NEW p \in a..(c - 1)
      PROVE  p + 6 <= n /\ SizeAt(b, o, p) = 0
  <2>1. p \in Nat /\ a <= p /\ p < c
    BY <1>7, <1>8
  <2>2. p \in 1..(s - 1)
    BY <1>1, <1>3, <1>7, <1>8, <2>1
  <2>3. Seen(b, o, fs, at, p)
    BY <1>5, <2>2
  <2>4. ASSUME NEW k \in 1..m, at[k] <= p, p < at[k] + l(k) PROVE FALSE
    <3>1. at[k] \in Nat /\ l(k) \in Nat /\ k \in Nat
      BY <1>1, <1>2, <1>3
    <3>2. CASE k < j
      <4>1. j - 1 # 0 /\ j - 1 \in 1..m /\ j - 1 \in Nat
        BY <1>1, <1>6, <3>1, <3>2
      <4>2. a = at[j - 1] + l(j - 1)
        BY <4>1 DEF Ended, l
      <4>3. at[k] + l(k) <= a
        <5>1. CASE k = j - 1
          BY <3>1, <4>2, <5>1
        <5>2. CASE k # j - 1
          <6>1. k < j - 1
            BY <1>6, <3>1, <3>2, <5>2
          <6>2. at[k] + l(k) <= at[j - 1]
            BY <1>4, <4>1, <6>1
          <6>3. at[j - 1] \in Nat /\ l(j - 1) \in Nat
            BY <1>2, <1>3, <4>1
          <6>4. \A q \in Int, r \in Nat, t \in Nat : q <= r => q <= r + t
            OBVIOUS
          <6>5. at[k] + l(k) \in Int
            BY <3>1
          <6>6. at[k] + l(k) <= at[j - 1] + l(j - 1)
            BY <6>2, <6>3, <6>4, <6>5
          <6> HIDE DEF a, l
          <6> QED
            BY <4>2, <6>6
        <5> QED
          BY <5>1, <5>2
      <4> QED
        BY <1>8, <2>1, <2>4, <3>1, <4>3
    <3>3. CASE k = j
      BY <2>1, <2>4, <3>1, <3>3
    <3>4. CASE k > j
      <4>1. c + l(j) <= at[k]
        BY <1>4, <1>6, <3>4
      <4>2. c \in Nat /\ l(j) \in Nat /\ p \in Nat /\ p < c /\ at[k] <= p /\ at[k] \in Nat
        BY <1>7, <2>1, <2>4, <3>1
      <4> HIDE DEF c
      <4> QED
        BY <4>1, <4>2
    <3> QED
      BY <1>6, <3>1, <3>2, <3>3, <3>4
  <2> QED
    BY <2>3, <2>4 DEF Seen, m, n, l
<1>10. \A p \in a..(c - 1) :
         p + 6 <= L /\ ~(P[p] = 11 /\ P[p + 1] = 119 /\ P[p + 4] > 7)
  <2> TAKE p \in a..(c - 1)
  <2>1. p + 6 <= n /\ SizeAt(b, o, p) = 0
    BY <1>9
  <2>2. p \in 1..n /\ p + 1 \in 1..n /\ p + 4 \in 1..n
    BY <1>1, <1>7, <1>8, <2>1
  <2>3. P[p] = b[o[p]] /\ P[p + 1] = b[o[p + 1]] /\ P[p + 4] = b[o[p + 4]]
    BY <1>1, <2>2
  <2>4. p + 6 <= L
    BY <1>1, <1>7, <1>8, <2>1
  <2>5. ~(P[p] = 11 /\ P[p + 1] = 119 /\ P[p + 4] > 7)
    <3> SUFFICES ASSUME P[p] = 11, P[p + 1] = 119, P[p + 4] > 7 PROVE FALSE
      OBVIOUS
    <3>1. SizeAt(b, o, p) = P[p + 4]
      BY <2>3 DEF SizeAt
    <3> QED
      BY <2>1, <3>1
  <2> QED
    BY <2>4, <2>5
<1>11. FramesAfter(P)[a] = FramesAfter(P)[c]
  <2>1. a \in Nat \ {0} /\ c \in Nat /\ a <= c
    BY <1>7, <1>8
  <2> HIDE DEF a, c
  <2> QED
    BY <1>10, <2>1, PassedBy DEF L
<1>12. /\ \A i \in 1..l(j) : c + i - 1 \in 1..n
       /\ c + l(j) <= L + 1
       /\ c \in 1..n /\ c + 1 \in 1..n /\ c + 4 \in 1..n
  <2>1. /\ c \in Nat /\ 1 <= c /\ l(j) \in Nat /\ l(j) > 7 /\ c + l(j) <= s
        /\ s \in Nat /\ s <= n + 1 /\ n \in Nat /\ L \in Nat /\ n <= L
    <3>1. s \in Nat /\ s <= n + 1
      BY <1>1, <1>3
    <3> QED
      BY <1>1, <1>7, <3>1
  <2> HIDE DEF c
  <2> QED
    BY <2>1
<1>13. \A i \in 1..l(j) : w[i] = P[c + i - 1]
  BY <1>1, <1>7, <1>12
<1>14. l(j) = IF P[c] = 11 /\ P[c + 1] = 119 /\ P[c + 4] > 7 THEN P[c + 4] ELSE 0
  <2>1. P[c] = b[o[c]] /\ P[c + 1] = b[o[c + 1]] /\ P[c + 4] = b[o[c + 4]]
    BY <1>1, <1>12
  <2> QED
    BY <1>7, <2>1 DEF SizeAt
<1>15. FramesAfter(P)[c] = <<w>> \o FramesAfter(P)[c + l(j)]
  <2>1. /\ c \in Nat \ {0} /\ w \in Seq(0..255) /\ Len(w) > 7 /\ c + Len(w) <= Len(P) + 1
        /\ Len(w) = IF P[c] = 11 /\ P[c + 1] = 119 /\ P[c + 4] > 7 THEN P[c + 4] ELSE 0
        /\ \A i \in 1..Len(w) : w[i] = P[c + i - 1]
    BY <1>7, <1>12, <1>13, <1>14 DEF l, L
  <2> HIDE DEF c, w
  <2>2. FramesAfter(P)[c] = <<w>> \o FramesAfter(P)[c + Len(w)]
    BY <2>1, FrameFirst
  <2> QED
    BY <2>2 DEF l, w
<1>16. Ended(fs, at, j) = c + l(j)
  BY <1>6 DEF Ended, l
<1>17. a \in 1..(L + 1) /\ c + l(j) \in 1..(L + 1)
  <2>1. /\ c \in Nat /\ l(j) \in Nat /\ l(j) > 7 /\ c + l(j) <= L + 1
        /\ a \in Nat /\ 1 <= a /\ a <= c /\ L \in Nat
    BY <1>1, <1>7, <1>8, <1>12
  <2> HIDE DEF a, c
  <2> QED
    BY <2>1
<1> QED
  BY <1>11, <1>15, <1>16, <1>17 DEF OneMore, L

\* The frames found are the first ones of all frames.
LEMMA FramesBegin ==
  ASSUME NEW P \in Seq(0..255), NEW b, NEW o, NEW fs \in Seq(Seq(0..255)), NEW at, NEW s,
         Len(o) \in Nat, Len(o) <= Len(P), \A i \in 1..Len(o) : P[i] = b[o[i]],
         Found(b, o, fs, at, s)
  PROVE  IsPrefix(fs, FramesFrom(P))
<1> DEFINE m        == Len(fs)
           F        == FramesAfter(P)
           t        == F[1]
           e(j)     == Ended(fs, at, j)
           Agree(j) == /\ e(j) \in 1..(Len(P) + 1)
                       /\ Len(t) = j + Len(F[e(j)])
                       /\ \A i \in 1..j : t[i] = fs[i]
                       /\ \A i \in 1..Len(F[e(j)]) : t[j + i] = F[e(j)][i]
           bad      == {j \in 0..m : ~Agree(j)}
<1>1. m \in Nat /\ Len(P) \in Nat
  BY ByteAt, LenProperties
<1>2. \A i \in 1..(Len(P) + 1) : F[i] \in Seq(Seq(0..255)) /\ Len(F[i]) \in Nat
  <2>1. \A i \in 1..(Len(P) + 1) : F[i] \in Seq(Seq(0..255))
    BY FramesAfterSeq
  <2> HIDE DEF F
  <2> QED
    BY <2>1, LenProperties
<1>3. \A j \in 1..m : /\ e(j - 1) \in 1..(Len(P) + 1) /\ e(j) \in 1..(Len(P) + 1)
                      /\ F[e(j - 1)] = <<fs[j]>> \o F[e(j)]
  <2> SUFFICES ASSUME NEW j \in 1..Len(fs)
               PROVE  /\ e(j - 1) \in 1..(Len(P) + 1) /\ e(j) \in 1..(Len(P) + 1)
                      /\ F[e(j - 1)] = <<fs[j]>> \o F[e(j)]
    OBVIOUS
  <2>1. OneMore(P, fs, at, j)
    BY FrameNext
  <2> QED
    BY <2>1 DEF OneMore
<1> HIDE DEF F
<1>4. Agree(0)
  <2>1. e(0) = 1 /\ 1 \in 1..(Len(P) + 1) /\ Len(t) \in Nat
    BY <1>1, <1>2 DEF Ended
  <2> HIDE DEF t
  <2> QED
    BY <2>1 DEF t
<1> HIDE DEF e
<1>5. ASSUME NEW j \in 1..m, Agree(j - 1)
      PROVE  Agree(j)
  <2> DEFINE u == F[e(j - 1)]
             v == F[e(j)]
             x == fs[j]
  <2>1. e(j) \in 1..(Len(P) + 1) /\ u = <<x>> \o v
    BY <1>3
  <2>2. v \in Seq(Seq(0..255)) /\ Len(v) \in Nat /\ x \in Seq(0..255)
    BY <1>2, <2>1, ElementOfSeq
  <2>3. Len(t) = (j - 1) + Len(u) /\ (\A i \in 1..(j - 1) : t[i] = fs[i])
        /\ (\A i \in 1..Len(u) : t[(j - 1) + i] = u[i])
    BY <1>5
  <2> HIDE DEF u, v, x, t
  <2>4. Len(u) = 1 + Len(v) /\ u[1] = x /\ \A i \in 1..Len(v) : u[1 + i] = v[i]
    <3>1. /\ Len(<<x>> \o v) = 1 + Len(v) /\ (<<x>> \o v)[1] = x
          /\ \A i \in 1..Len(v) : (<<x>> \o v)[1 + i] = v[i]
      BY <2>2, Ahead
    <3> QED
      BY <2>1, <3>1
  <2>5. Len(t) = j + Len(v)
    BY <2>2, <2>3, <2>4
  <2>6. \A i \in 1..j : t[i] = fs[i]
    <3> TAKE i \in 1..j
    <3>1. CASE i # j
      BY <2>3, <3>1
    <3>2. CASE i = j
      <4>1. 1 \in 1..Len(u) /\ (j - 1) + 1 = i
        BY <2>2, <2>4, <3>2
      <4> QED
        BY <2>3, <2>4, <3>2, <4>1 DEF x
    <3> QED
      BY <3>1, <3>2
  <2>7. \A i \in 1..Len(v) : t[j + i] = v[i]
    <3> TAKE i \in 1..Len(v)
    <3>1. 1 + i \in 1..Len(u) /\ (j - 1) + (1 + i) = j + i
      BY <2>2, <2>4
    <3> QED
      BY <2>3, <2>4, <3>1
  <2> QED
    BY <2>1, <2>5, <2>6, <2>7 DEF v
<1> HIDE DEF Agree
<1>6. bad = {}
  <2> SUFFICES ASSUME bad # {} PROVE FALSE
    OBVIOUS
  <2> DEFINE k == Min(bad)
  <2>1. bad \in SUBSET Nat
    BY <1>1
  <2>2. k \in bad /\ \A j \in bad : k <= j
    BY <2>1, MinIsLeast
  <2> HIDE DEF k
  <2>3. k \in 0..m /\ ~Agree(k)
    BY <2>2
  <2>4. k # 0
    BY <1>4, <2>3
  <2>5. k - 1 \in 0..m /\ ~(k <= k - 1) /\ k \in 1..m
    BY <1>1, <2>3, <2>4
  <2>6. Agree(k - 1)
    BY <2>2, <2>5
  <2> QED
    BY <1>5, <2>3, <2>5, <2>6
<1>7. Agree(m)
  <2>1. m \in 0..m
    BY <1>1
  <2> QED
    BY <1>6, <2>1
<1>8. /\ e(m) \in 1..(Len(P) + 1) /\ Len(t) = m + Len(F[e(m)])
      /\ \A i \in 1..m : t[i] = fs[i]
  BY <1>7 DEF Agree
<1>9. \A i \in 1..m : i <= Len(t) /\ t[i] = fs[i]
  <2>1. Len(F[e(m)]) \in Nat
    BY <1>2, <1>8
  <2> HIDE DEF t, m
  <2> QED
    BY <1>1, <1>8, <2>1
<1>10. t \in Seq(Seq(0..255)) /\ t = FramesFrom(P)
  BY <1>1, <1>2 DEF FramesFrom, F
<1> HIDE DEF t
<1> QED
  BY <1>9, <1>10, Prefix
------------------------------------------------------------------------------
(***************************************************************************)
(* The reader of the whole file has one way to go.                         *)
(***************************************************************************)

\* The reader goes forward.
LEMMA Forward ==
  ASSUME NEW f \in Files, NEW p \in Nat \ {0}, Goes(f, p)
  PROVE  Following(f, p) \in Nat /\ p < Following(f, p)
<1>1. CASE ~StartCode(Rest(f, p))
  BY <1>1, FollowingIs
<1>2. CASE StartCode(Rest(f, p))
  <2>1. From(f, p) \in Nat /\ p + 4 <= From(f, p)
    BY FollowingIs
  <2>2. Following(f, p) \in Nat /\ From(f, p) <= Following(f, p)
    BY <1>2, FollowingIs
  <2> QED
    BY <2>1, <2>2
<1> QED
  BY <1>1, <1>2

\* The places that he comes to: those in every set of places that has the first and,
\* with each, the one that follows.
Closed(f, K) ==
  K \subseteq Nat \ {0} /\ 1 \in K /\ \A p \in K : Goes(f, p) => Following(f, p) \in K
ComesTo(f) == {p \in Nat \ {0} : \A K \in SUBSET Nat : Closed(f, K) => p \in K}

\* They are the least such set.
LEMMA ComesToClosed ==
  ASSUME NEW f \in Files
  PROVE  Closed(f, ComesTo(f)) /\ \A K \in SUBSET Nat : Closed(f, K) => ComesTo(f) \subseteq K
<1>1. ASSUME NEW p \in ComesTo(f), Goes(f, p) PROVE Following(f, p) \in ComesTo(f)
  <2>1. Following(f, p) \in Nat /\ Following(f, p) # 0
    BY <1>1, Forward DEF ComesTo
  <2>2. ASSUME NEW K \in SUBSET Nat, Closed(f, K) PROVE Following(f, p) \in K
    BY <1>1, <2>2 DEF ComesTo, Closed
  <2> QED
    BY <2>1, <2>2 DEF ComesTo
<1> QED
  BY <1>1 DEF ComesTo, Closed

\* A place that lies between no other and what follows that one lies, with what
\* follows it, on either side of every other.
LEMMA ComesToInOrder ==
  ASSUME NEW f \in Files
  PROVE  HeadersAt(f, ComesTo(f))
<1> DEFINE C    == ComesTo(f)
           A(p) == \A q \in C : q < p => Goes(f, q) /\ Following(f, q) <= p
           B(p) == \A q \in C : q <= p \/ (Goes(f, p) /\ Following(f, p) <= q)
<1>1. /\ C \subseteq Nat \ {0} /\ 1 \in C
      /\ \A p \in C : Goes(f, p) => Following(f, p) \in C
      /\ \A K \in SUBSET Nat : Closed(f, K) => C \subseteq K
  BY ComesToClosed DEF Closed
<1>2. \A p \in C : Goes(f, p) => Following(f, p) \in Nat /\ p < Following(f, p)
  BY <1>1, Forward
<1> HIDE DEF C
<1>3. \A p \in C : p \in Nat /\ p # 0 /\ 1 <= p /\ ~(p < 1)
  BY <1>1
<1>4. ASSUME NEW p \in C, A(p) PROVE B(p)
  <2> DEFINE K == {q \in C : q <= p \/ (Goes(f, p) /\ Following(f, p) <= q)}
  <2>1. K \subseteq Nat \ {0} /\ 1 \in K
    BY <1>3, <1>1
  <2>2. ASSUME NEW q \in K, Goes(f, q) PROVE Following(f, q) \in K
    <3>1. q \in C /\ q \in Nat /\ p \in Nat
          /\ Following(f, q) \in C /\ Following(f, q) \in Nat /\ q < Following(f, q)
      BY <1>1, <1>2, <2>2
    <3>2. CASE q < p
      BY <1>4, <3>1, <3>2
    <3>3. CASE q = p
      BY <2>2, <3>1, <3>3
    <3>4. CASE p < q
      <4>1. Goes(f, p) /\ Following(f, p) <= q
        BY <2>2, <3>1, <3>4
      <4>2. Following(f, p) \in Nat
        BY <1>2, <4>1
      <4>3. Following(f, p) <= Following(f, q)
        BY <3>1, <4>1, <4>2
      <4> QED
        BY <3>1, <4>1, <4>3
    <3> QED
      BY <3>1, <3>2, <3>3, <3>4
  <2>3. K \in SUBSET Nat /\ Closed(f, K)
    BY <2>1, <2>2 DEF Closed
  <2> QED
    BY <1>1, <2>3
<1>5. \A p \in C : A(p)
  <2> DEFINE K == {p \in C : A(p)}
  <2>1. K \subseteq Nat \ {0} /\ 1 \in K
    BY <1>3, <1>1
  <2>2. ASSUME NEW p \in K, Goes(f, p) PROVE Following(f, p) \in K
    <3>1. p \in C /\ p \in Nat /\ A(p)
          /\ Following(f, p) \in C /\ Following(f, p) \in Nat /\ p < Following(f, p)
      BY <1>1, <1>2, <2>2
    <3>2. B(p)
      BY <1>4, <3>1
    <3>3. ASSUME NEW q \in C, q < Following(f, p)
          PROVE  Goes(f, q) /\ Following(f, q) <= Following(f, p)
      <4>1. q \in Nat
        BY <1>1
      <4>2. q <= p
        BY <3>1, <3>2, <3>3, <4>1
      <4>3. CASE q = p
        BY <2>2, <3>1, <4>3
      <4>4. CASE q < p
        <5>1. Goes(f, q) /\ Following(f, q) <= p
          BY <3>1, <4>4
        <5>2. Following(f, q) \in Nat
          BY <1>2, <5>1
        <5> QED
          BY <3>1, <5>1, <5>2
      <4> QED
        BY <3>1, <4>1, <4>2, <4>3, <4>4
    <3> QED
      BY <3>1, <3>3
  <2>3. K \in SUBSET Nat /\ Closed(f, K)
    BY <2>1, <2>2 DEF Closed
  <2> QED
    BY <1>1, <2>3
<1>6. \A p, q \in C : p < q => Goes(f, p) /\ Following(f, p) <= q
  BY <1>5
<1> QED
  BY <1>1, <1>6 DEF HeadersAt, C

\* There is no other set of places where he looks for headers.
LEMMA NoOtherPlaces ==
  ASSUME NEW f \in Files, NEW H, HeadersAt(f, H)
  PROVE  H = ComesTo(f)
<1> DEFINE C == ComesTo(f)
<1>1. /\ C \subseteq Nat \ {0} /\ 1 \in C
      /\ \A p \in C : Goes(f, p) => Following(f, p) \in C
      /\ \A K \in SUBSET Nat : Closed(f, K) => C \subseteq K
  BY ComesToClosed DEF Closed
<1>2. \A p \in C : Goes(f, p) => Following(f, p) \in Nat /\ p < Following(f, p)
  BY <1>1, Forward
<1> HIDE DEF C
<1>3. H \subseteq Nat \ {0} /\ 1 \in H /\ C \subseteq H
      /\ \A p, q \in H : p < q => Goes(f, p) /\ Following(f, p) <= q
  <2>1. H \in SUBSET Nat /\ Closed(f, H)
    BY DEF HeadersAt, Closed
  <2> QED
    BY <1>1, <2>1 DEF HeadersAt
<1>4. ASSUME NEW q \in H, ~(q \in C) PROVE FALSE
  <2> DEFINE K == {p \in C : p < q}
             T == {q - p : p \in C}
  <2>1. q \in Nat \ {0} /\ q # 1
    BY <1>1, <1>3, <1>4
  <2>2. ASSUME NEW p \in K, Goes(f, p) PROVE Following(f, p) \in K
    <3>1. p \in C /\ p \in H /\ p < q /\ Following(f, p) \in C /\ Following(f, p) \in Nat
      BY <1>1, <1>2, <1>3, <2>2
    <3>2. Following(f, p) <= q /\ Following(f, p) # q
      BY <1>3, <1>4, <3>1
    <3> QED
      BY <2>1, <3>1, <3>2
  <2>3. K \in SUBSET Nat /\ Closed(f, K)
    <3>1. 1 \in K /\ K \subseteq C
      BY <1>1, <2>1
    <3> HIDE DEF K
    <3>2. K \subseteq Nat \ {0}
      BY <1>1, <3>1
    <3> QED
      BY <2>2, <3>1, <3>2 DEF Closed
  <2>4. \A p \in C : p < q /\ p \in Nat
    BY <1>1, <2>3
  <2>5. T \in SUBSET Nat /\ T # {}
    BY <1>1, <2>1, <2>4
  <2> DEFINE k == Min(T)
  <2>6. k \in T /\ \A j \in T : k <= j
    BY <2>5, MinIsLeast
  <2> HIDE DEF k
  <2>7. PICK p \in C : k = q - p
    BY <2>6
  <2>8. Goes(f, p)
    BY <1>3, <2>4
  <2>9. Following(f, p) \in C /\ Following(f, p) \in Nat /\ p < Following(f, p)
    BY <1>1, <1>2, <2>8
  <2>10. k <= q - Following(f, p)
    BY <2>6, <2>9
  <2> QED
    BY <2>1, <2>4, <2>7, <2>9, <2>10
<1> QED
  BY <1>3, <1>4 DEF C

\* Every file can be read in one way: the places where its headers are looked for
\* exist, and no others do, so what belongs to the stream is settled.
THEOREM OneReading ==
  \A f \in Files : \E H \in SUBSET Nat :
    HeadersAt(f, H) /\ \A K : HeadersAt(f, K) => K = H
<1> TAKE f \in Files
<1>1. ComesTo(f) \in SUBSET Nat /\ HeadersAt(f, ComesTo(f))
  BY ComesToInOrder DEF ComesTo
<1>2. \A K : HeadersAt(f, K) => K = ComesTo(f)
  BY NoOtherPlaces
<1> QED
  BY <1>1, <1>2
------------------------------------------------------------------------------
(***************************************************************************)
(* The theorem.                                                            *)
(***************************************************************************)
ReadOn ==
  /\ PInv
  /\ \A H \in SUBSET Nat : ~Transport /\ HeadersAt(file, H) => OnCourse(H)

\* The inductive invariant: what was proved before, and that demux is on course for
\* whatever places the reader may look for headers at.  It holds at the start,
LEMMA InitReadOn == Init => ReadOn
  BY InitPInv, InitOnCourse DEF ReadOn

\* and every step keeps it.
LEMMA NextReadOn ==
  ASSUME ReadOn, [Next]_vars
  PROVE  ReadOn'
<1>1. PInv'
  BY NextPInv DEF ReadOn
<1>2. file' = file
  <2>1. CASE UNCHANGED vars
    BY <2>1 DEF vars
  <2>2. CASE Decode
    BY <2>2 DEF Decode
  <2>3. CASE Next /\ ~Decode
    BY <2>3, Onward DEF ReadOn, PInv
  <2> QED
    BY <2>1, <2>2, <2>3
<1>3. ASSUME NEW H \in SUBSET Nat, (~Transport)', HeadersAt(file', H)
      PROVE  OnCourse(H)'
  <2>1. ~Transport /\ HeadersAt(file, H)
    BY <1>2, <1>3 DEF Transport
  <2>2. PInv /\ OnCourse(H)
    BY <2>1 DEF ReadOn
  <2> QED
    BY <2>2, NextOnCourse
<1> QED
  BY <1>1, <1>3 DEF ReadOn

\* The bytes of the payload.
LEMMA PayloadBytes ==
  ASSUME file \in Files, file.payload \in Seq(Nat), NEW H, Carries(file, H)
  PROVE  /\ [i \in DOMAIN file.payload |-> Byte(file.payload[i])] \in Seq(0..255)
         /\ Len([i \in DOMAIN file.payload |-> Byte(file.payload[i])]) = Len(file.payload)
         /\ \A i \in 1..Len(file.payload) :
              [j \in DOMAIN file.payload |-> Byte(file.payload[j])][i] = file.bytes[file.payload[i]]
<1> DEFINE s == file.payload
           n == Len(s)
           f == file.bytes
<1>1. n \in Nat /\ DOMAIN s = 1..n /\ f \in Seq(0..255)
  BY FilesAssumption, LenProperties
<1>2. \A i \in 1..n : f[s[i]] \in 0..255
  <2> TAKE i \in 1..n
  <2>1. s[i] \in Range(s)
    BY <1>1 DEF Range
  <2>2. s[i] \in DOMAIN f
    BY <2>1 DEF Carries
  <2>3. s[i] \in 1..Len(f)
    BY <1>1, <2>2, LenProperties
  <2> QED
    BY <1>1, <2>3, ByteAt
<1> HIDE DEF s, n, f
<1> DEFINE t == [i \in 1..n |-> f[s[i]]]
<1>3. t \in Seq(0..255) /\ Len(t) = n /\ \A i \in 1..n : t[i] = f[s[i]]
  BY <1>1, <1>2
<1>4. [i \in DOMAIN s |-> f[s[i]]] = t
  BY <1>1
<1> HIDE DEF t
<1> QED
  BY <1>3, <1>4 DEF Byte, s, n, f

\* The layout of the file is known, and its payload is what a reader of the whole
\* file finds.
KnownLayout ==
  ~Transport /\ file.payload \in Seq(Nat) /\ \E H \in SUBSET Nat : Carries(file, H)

\* What demux passed on is where the payload begins: both are increasing, and up to
\* buf the one has the bytes that the other has.
LEMMA ReadOnInOrder == ReadOn /\ KnownLayout => PayloadInOrder
<1> SUFFICES ASSUME ReadOn, KnownLayout PROVE PayloadInOrder
  OBVIOUS
<1> DEFINE t == file.payload
           P == [i \in DOMAIN t |-> Byte(t[i])]
<1>1. PICK H \in SUBSET Nat : Carries(file, H)
  BY DEF KnownLayout
<1>2. PInv /\ PassedOn(H) /\ file \in Files /\ t \in Seq(Nat) /\ out \in Seq(Nat)
      /\ frames \in Seq(Seq(0..255)) /\ OnceInOrder /\ buf \in Nat /\ FramesCut
      /\ buf <= Len(file.bytes) + 1 /\ file.bytes \in Seq(0..255) /\ Len(file.bytes) \in Nat
  <2>1. HeadersAt(file, H)
    BY <1>1 DEF Carries
  <2>2. PassedOn(H) /\ PInv
    BY <2>1 DEF ReadOn, KnownLayout, OnCourse
  <2>3. file.bytes \in Seq(0..255) /\ Len(file.bytes) \in Nat
    BY <2>2, FilesAssumption, ByteAt DEF PInv, IInv, TypeOK
  <2>4. buf <= Len(file.bytes) + 1
    BY <2>2, <2>3 DEF PInv, IInv, TypeOK, Window, Eof
  <2> QED
    BY <2>2, <2>3, <2>4 DEF KnownLayout, PInv, IInv, TypeOK, Passed
<1>3. /\ DOMAIN t = 1..Len(t) /\ DOMAIN file.bytes = 1..Len(file.bytes)
      /\ Len(t) \in Nat /\ Len(out) \in Nat
      /\ (\A i \in 1..Len(out) : out[i] \in Nat) /\ (\A i \in 1..Len(t) : t[i] \in Nat)
  BY <1>2, LenProperties, ElementOfSeq
<1>4. /\ \A i, j \in 1..Len(t) : i < j => t[i] < t[j]
      /\ Range(t) = {q \in 1..Len(file.bytes) : Belongs(file, H, q)}
  BY <1>1, <1>3 DEF Carries
<1> HIDE DEF t
<1>5. \A q \in 1..Len(file.bytes) : Belongs(file, H, q) => \E k \in 1..Len(t) : t[k] = q
  <2> TAKE q \in 1..Len(file.bytes)
  <2> HAVE Belongs(file, H, q)
  <2>1. q \in Range(t)
    BY <1>4
  <2> QED
    BY <1>3, <2>1 DEF Range
<1>6. \A k \in 1..Len(t) : t[k] \in 1..Len(file.bytes) /\ Belongs(file, H, t[k])
  <2> TAKE k \in 1..Len(t)
  <2>1. t[k] \in Range(t)
    BY <1>3 DEF Range
  <2> QED
    BY <1>4, <2>1
<1>7. \A i \in 1..Len(out) : out[i] \in 1..Len(file.bytes) /\ Belongs(file, H, out[i]) /\ out[i] < buf
  <2> TAKE i \in 1..Len(out)
  <2>1. out[i] # 0 /\ Belongs(file, H, out[i]) /\ out[i] < buf /\ out[i] \in Nat
    BY <1>2, <1>3 DEF PassedOn, OnceInOrder
  <2> QED
    BY <1>2, <2>1
<1>8. \A i \in 1..Len(out) : i <= Len(t) /\ t[i] = out[i]
  <2>1. \A i, j \in 1..Len(out) : i < j => out[i] < out[j]
    BY <1>2 DEF OnceInOrder
  <2>2. \A i \in 1..Len(out) : \E k \in 1..Len(t) : t[k] = out[i]
    BY <1>5, <1>7
  <2>3. ASSUME NEW i \in 1..Len(out), NEW k \in 1..Len(t), t[k] < out[i]
        PROVE  \E j \in 1..Len(out) : out[j] = t[k]
    <3>1. t[k] \in 1..Len(file.bytes) /\ Belongs(file, H, t[k]) /\ out[i] \in Nat /\ out[i] < buf
      BY <1>3, <1>6, <1>7
    <3>2. t[k] \in 1..(buf - 1)
      BY <1>2, <2>3, <3>1
    <3> QED
      BY <1>2, <3>1, <3>2 DEF PassedOn
  <2> QED
    BY <1>2, <1>4, <2>1, <2>2, <2>3, SameBeginning
<1>9. IsPrefix(out, t)
  BY <1>2, <1>8, Prefix
<1>10. P \in Seq(0..255) /\ Len(P) = Len(t) /\ \A i \in 1..Len(t) : P[i] = file.bytes[t[i]]
  BY <1>1, <1>2, PayloadBytes DEF t
<1> HIDE DEF P
<1>11. Len(out) <= Len(P) /\ \A i \in 1..Len(out) : P[i] = file.bytes[out[i]]
  <2>1. Len(out) <= Len(t)
    BY <1>9 DEF IsPrefix
  <2>2. ASSUME NEW i \in 1..Len(out) PROVE P[i] = file.bytes[out[i]]
    <3>1. i \in 1..Len(t) /\ t[i] = out[i]
      BY <1>3, <1>8
    <3> QED
      BY <1>10, <3>1
  <2> QED
    BY <1>10, <2>1, <2>2
<1>12. PICK at \in [1..Len(frames) -> Nat] : Found(file.bytes, out, frames, at, Start)
  BY <1>2 DEF FramesCut
<1>13. IsPrefix(frames, FramesFrom(P))
  <2>1. P \in Seq(0..255) /\ frames \in Seq(Seq(0..255)) /\ Len(out) \in Nat
    BY <1>2, <1>3, <1>10
  <2> QED
    BY <1>11, <1>12, <2>1, FramesBegin
<1> QED
  BY <1>9, <1>13 DEF PayloadInOrder, P, t

\* Wherever reads of BUFFER_SIZE bytes cut a program stream, an elementary stream or
\* a file without packets, even inside a header: demux passes on what a reader of the
\* whole file finds, in order, and a52_decode_data decodes the frames of that.
THEOREM PayloadIsInOrder == Spec => [](KnownLayout => PayloadInOrder)
  BY InitReadOn, NextReadOn, ReadOnInOrder, PTL DEF Spec
==============================================================================
