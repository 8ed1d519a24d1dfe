------------------------------ MODULE MCA52Demux ------------------------------
(***************************************************************************)
(* Files of each kind that the options select, and buffers that cut them   *)
(* at every place.  A file is made of parts [front, data, own]: data that   *)
(* is own belongs to the stream to decode.                                 *)
(***************************************************************************)
EXTENDS A52Demux

Part(front, data, own) == [front |-> front, data |-> data, own |-> own]
Bytes(part)  == part.front \o part.data
Length(part) == Len(Bytes(part))

File(parts, track, pes, pid, ends) ==
  [bytes   |-> FlattenSeq([i \in DOMAIN parts |-> Bytes(parts[i])]),
   payload |-> FlattenSeq([i \in DOMAIN parts |->
                 LET before == FoldLeft(LAMBDA n, p : n + Length(p), 0, SubSeq(parts, 1, i - 1))
                             + Len(parts[i].front)
                 IN  IF parts[i].own THEN [j \in DOMAIN parts[i].data |-> before + j]
                     ELSE << >>]),
   track |-> track, pes |-> pes, pid |-> pid, ends |-> ends]

Fill(n, byte) == [i \in 1..n |-> byte]

\* A frame of n bytes, and bytes that begin like one.
Frame(n, byte) == <<11, 119, 0, 0, n>> \o Fill(n - 5, byte)
Noise == <<11, 119, 0, 0, 3, 11>>

Start(id) == <<0, 0, 1, id>>
Size(n)   == <<n \div 256, n % 256>>
Pack2(stuffing) == Part(Start(186) \o <<68>> \o Fill(8, 1) \o <<stuffing>> \o Fill(stuffing, 255), << >>, FALSE)
Pack1     == Part(Start(186) \o <<33>> \o Fill(7, 1), << >>, FALSE)
PackWeird == Part(Start(186) \o <<0>>, << >>, FALSE)
Junk      == Part(<<0, 0>>, << >>, FALSE)
End       == Part(Start(185), Frame(8, 7), FALSE)
Video     == Part(Start(179) \o <<1, 1>>, << >>, FALSE)
\* Padding that holds what looks like a packet of the stream.
Padding   == Part(Start(190) \o Size(14), Start(189) \o Size(6) \o <<128, 0, 0, 128, 9, 9, 9, 9>>, FALSE)

\* Private streams, with an MPEG-2 or an MPEG-1 header.
Packet2(extra, track, data) ==
  Part(Start(189) \o Size(7 + extra + Len(data)) \o <<129, 0, extra>> \o Fill(extra, 1)
       \o <<track, 1, 2, 3>>, data, track = 128)
Packet1(stuffing, tail, track, data) ==
  Part(Start(189) \o Size(stuffing + Len(tail) + 4 + Len(data)) \o Fill(stuffing, 255) \o tail
       \o <<track, 1, 2, 3>>, data, track = 128)
\* Without the four bytes of a substream.
Pes(extra, data) ==
  Part(Start(189) \o Size(3 + extra + Len(data)) \o <<129, 0, extra>> \o Fill(extra, 1), data, TRUE)

Stream == Noise \o Frame(9, 1) \o Frame(12, 2)
Cut(from, to) == SubSeq(Stream, from, to)

ProgramStream2 ==
  File(<<Pack2(2), Packet2(3, 128, Cut(1, 10)), Padding, Junk, Packet2(0, 129, Frame(8, 3)),
         Packet2(0, 128, Cut(11, 14)), Packet2(0, 128, << >>), Pack2(0),
         Packet2(1, 128, Cut(15, 27)), End>>, 128, FALSE, 0, "done")
ProgramStream1 ==
  File(<<Pack1, Packet1(2, <<64, 9, 15>>, 128, Cut(1, 8)), Packet1(0, <<33, 1, 1, 1, 1>>, 128, Cut(9, 13)),
         PackWeird, Packet1(0, <<15>>, 129, << >>), Packet1(1, <<49>> \o Fill(9, 1), 128, Cut(14, 27))>>,
       128, FALSE, 0, "done")
Stuffed ==
  File(<<Packet1(16, <<15>>, 128, Cut(1, 12)), Packet1(20, <<15>>, 129, Frame(8, 3)),
         Packet1(0, <<15>>, 128, Cut(13, 27)), Video>>, 128, FALSE, 0, "exit")
LongHeader ==
  File(<<Packet2(255, 128, Cut(1, 20)), Packet2(2, 128, Cut(21, 27))>>, 128, FALSE, 0, "done")
PesFile ==
  File(<<Junk, Pes(3, Cut(1, 13)), Pes(0, Cut(14, 27))>>, 0, TRUE, 0, "done")
PesOther ==
  File(<<Pes(1, Cut(1, 14)), Padding>>, 0, TRUE, 0, "exit")
PesMpeg1 ==
  File(<<Pes(1, Cut(1, 14)), Packet1(0, <<15>>, 129, Frame(8, 3))>>, 0, TRUE, 0, "exit")
Elementary27 ==
  File(<<Part(<< >>, Stream, TRUE)>>, 0, FALSE, 0, "done")

\* Transport packets of 24 bytes: the first part of a PES packet, its rest, and
\* packets of other streams; without payload; whose adaptation field is the
\* whole packet or longer; and bytes between packets.
Ts(unit, pid, field, front, data) ==
  LET control == (IF field = 0 THEN 16 ELSE 48)
      adapt   == IF field = 0 THEN << >> ELSE <<field - 1>> \o Fill(field - 1, 0)
  IN Part(<<71, unit, pid, control>> \o adapt \o front, data, pid = 2)
PesHead(extra, n) == Start(189) \o Size(3 + extra + n) \o <<129, 0, extra>>
TransportStream ==
  File(<<Ts(64, 2, 0, PesHead(2, 24) \o <<1, 1>>, Cut(1, 9)),
         Ts(0, 3, 0, Start(189), Frame(16, 4)),
         Part(<<0, 70>>, << >>, FALSE),
         Ts(0, 2, 5, << >>, Cut(10, 24)),
         Part(<<71, 0, 2, 32, 19>> \o Fill(19, 9), << >>, FALSE),
         Part(<<71, 0, 2, 48, 40>> \o Fill(19, 9), << >>, FALSE),
         Part(<<71, 0, 2, 48, 19>> \o Fill(19, 9), << >>, FALSE),
         Ts(64, 2, 16, Start(189), << >>),
         Ts(0, 2, 12, <<0, 6, 129, 0, 0>>, Cut(25, 27)),
         Ts(64, 2, 0, Fill(20, 5), << >>),
         Ts(0, 2, 0, Fill(20, 5), << >>)>>, 0, FALSE, 2, "done")
TransportMpeg1 ==
  File(<<Ts(64, 2, 0, PesHead(0, 11), Cut(1, 11)),
         Ts(64, 2, 0, Start(189) \o Size(20) \o <<15>> \o Fill(13, 5), << >>)>>, 0, FALSE, 2, "exit")

SomeFiles == {ProgramStream2, ProgramStream1, Stuffed, PesFile, PesOther, PesMpeg1,
              Elementary27, TransportStream, TransportMpeg1, LongHeader}
\* The payload of a file is what is found in it header by header, from the first.
RECURSIVE HeadersFrom(_, _)
HeadersFrom(f, p) ==
  {p} \union IF Goes(f, p) THEN HeadersFrom(f, Following(f, p)) ELSE {}
ASSUME PayloadsAssumption ==
  \A f \in SomeFiles : f.pid = 0 => f.payload \in Seq(Nat) /\ Carries(f, HeadersFrom(f, 1))

SomeSizes == 1..25 \union {47, 48, 280, 1000}
==============================================================================
