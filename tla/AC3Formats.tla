------------------------------ MODULE AC3Formats -------------------------------
(***************************************************************************)
(* The formats of AC3ACM.cpp, as a client of the ACM meets them: it lists   *)
(* the driver's formats or has one suggested, opens a stream from one to    *)
(* another, asks how large its buffers have to be, and converts.            *)
(*                                                                         *)
(* Each of these messages computes for itself what a frame is: the lists    *)
(* and stream_size by the table framesizes, stream_open by the average      *)
(* bytes per second, the encoder by a division, a decoding stream by a      *)
(* guess from the format, and liba52 by the header of the frame.            *)
(*                                                                         *)
(* Here the streams count: how many bytes of a frame they hold, and how     *)
(* much of the last one the client has not got yet.  Which bytes these are  *)
(* is in DecodeStream and EncodeStream.  AC3Driver has the messages in all  *)
(* orders, with formats of which only the bit rate is left.                 *)
(***************************************************************************)
EXTENDS Integers, Sequences, FiniteSetsExt

CONSTANTS
  Settings,       \* the values of dwFlags that occur, sets of flag names
  Sources,        \* what clients list to convert from: pairs of a format tag
  Destinations,   \* and an index; and to convert to
  Wishes,         \* what clients prescribe of a format to be suggested
  Buffers,        \* the sizes that clients ask about: sixths of a frame, and
                  \* bytes more or less
  MaxCalls        \* bound: stream_convert calls of a session

Tags == <<"PCM", "AC3", "EXTENSIBLE">>
Flags == {"MULTICHANNEL", "USE64", "NOEXTENSIBLE"}

ASSUME SettingsAssumption == Settings \subseteq SUBSET Flags
ASSUME ListsAssumption ==
  Sources \union Destinations \subseteq {Tags[i] : i \in 1..3} \X Nat
\* "none" and 0: not prescribed.  large: there is room for a
\* WAVEFORMATEXTENSIBLE.
ASSUME WishesAssumption ==
  Wishes \subseteq [tag : {"none", "PCM", "AC3", "EXTENSIBLE"}, ch : Nat, rate : Nat,
                    large : BOOLEAN]
ASSUME BuffersAssumption == Buffers \subseteq Nat \X Int
ASSUME MaxCallsAssumption == MaxCalls \in Nat

VARIABLES
  dwFlags,  \* of the instance
  src, dst, \* the formats; NoFormat at first
  wish,     \* that dst was suggested for; <<>> if it was listed
  stream,   \* what stream_open made of them
  size,     \* the last answer of stream_size; <<>> if there is none to use
  held,     \* bytes of the source that the stream holds, less than a frame
  blocks,   \* msd->blocks, what the next call delivers first: when decoding,
            \* blocks of PCM; when encoding, bytes of the coded frame
  least,    \* history: the smallest source of the calls since START
  kept,     \* history: the buffers of all these calls were Promised to do
  calls
held_vars == <<held, blocks, least, kept>>
vars == <<dwFlags, src, dst, wish, stream, size, held_vars, calls>>

\* A WAVEFORMATEX(TENSIBLE).  mask: the channel count that channel_masks has
\* dwChannelMask for.
Format(tag, sub, ch, rate, avg, align, bits) ==
  [tag |-> tag, sub |-> sub, ch |-> ch, rate |-> rate, avg |-> avg, align |-> align,
   bits |-> bits, mask |-> IF tag = "EXTENSIBLE" THEN ch ELSE 0]
NoFormat == Format("none", "none", 0, 0, 0, 0, 0)
Closed   == [kind |-> "closed", framelen |-> 0]

Init ==
  /\ dwFlags \in Settings
  /\ src = NoFormat /\ dst = NoFormat /\ wish = <<>>
  /\ stream = Closed /\ size = <<>> /\ calls = 0
  /\ held = 0 /\ blocks = 0 /\ least = 0 /\ kept = TRUE
------------------------------------------------------------------------------
\* The tables.  A frame's words at 32, 44.1 and 48 kHz, and the kbit/s.
framesizes == <<
  <<96, 69, 64, 32>>, <<120, 87, 80, 40>>, <<144, 104, 96, 48>>, <<168, 121, 112, 56>>,
  <<192, 139, 128, 64>>, <<240, 174, 160, 80>>, <<288, 208, 192, 96>>,
  <<336, 243, 224, 112>>, <<384, 278, 256, 128>>, <<480, 348, 320, 160>>,
  <<576, 417, 384, 192>>, <<672, 487, 448, 224>>, <<768, 557, 512, 256>>,
  <<960, 696, 640, 320>>, <<1152, 835, 768, 384>>, <<1344, 975, 896, 448>>,
  <<1536, 1114, 1024, 512>>, <<1728, 1253, 1152, 576>>, <<1920, 1393, 1280, 640>> >>
Rows == 1..19
kbps(i) == framesizes[i][4]
srates == <<32000, 44100, 48000>>
LowRates == {24000, 22050, 16000, 12000, 11025, 8000}

\* The bytes of row i at a rate, as (nSamplesPerSec >> 6) & 3 finds the column.
FrameBytes(i, rate) == 2 * framesizes[i][((rate \div 64) % 4) + 1]
\* nAvgBytesPerSec of 44100 Hz frames, which are shorter than the bit rate says.
Refined(align) == (align * 44100 + 768) \div 1536

PcmFormat(tag, ch, rate) ==
  Format(tag, IF tag = "PCM" THEN "none" ELSE "PCM", ch, rate, 2 * ch * rate, 2 * ch, 16)
AC3Format(tag, ch, rate, i) ==
  LET align == FrameBytes(i, rate) IN
  Format(tag, IF tag = "AC3" THEN "none" ELSE "AC3", ch, rate,
         IF rate = 44100 THEN Refined(align) ELSE 125 * kbps(i), align, 0)

\* formattag_details: how many formats a tag has.
cStandardFormats(tag) ==
  CASE tag = "PCM" -> 3 * (IF "MULTICHANNEL" \in dwFlags THEN 6 ELSE 2)
    [] tag = "AC3" -> 3 * 6 * 19
    [] tag = "EXTENSIBLE" -> (3 * 6) + (3 * 6 * 19)
\* driver_details: the tags that the ACM asks for.
cFormatTags == IF "NOEXTENSIBLE" \in dwFlags THEN 2 ELSE 3
Listed(tag, index) ==
  /\ \E i \in 1..cFormatTags : Tags[i] = tag
  /\ index < cStandardFormats(tag)

PcmOfIndex(tag, n) == PcmFormat(tag, (n \div 3) + 1, srates[(n % 3) + 1])
AC3OfIndex(tag, n) ==
  AC3Format(tag, (n \div 57) + 1, srates[((n % 57) \div 19) + 1], (n % 19) + 1)
format_details(tag, index) ==
  CASE tag = "PCM" -> PcmOfIndex(tag, index)
    [] tag = "AC3" -> AC3OfIndex(tag, index)
    [] tag = "EXTENSIBLE" -> IF index < 18 THEN PcmOfIndex(tag, index)
                             ELSE AC3OfIndex(tag, index - 18)
------------------------------------------------------------------------------
\* Which formats are the driver's own.

Extensible == "NOEXTENSIBLE" \notin dwFlags
SoundsRight(f) == f.ch \in 1..6 /\ f.rate \in {srates[i] : i \in 1..3} \union LowRates
IsPcm16(f) ==
  SoundsRight(f) /\ f.bits = 16 /\ f.align = 2 * f.ch /\ f.avg = f.align * f.rate
IsValidPCMEX(f) == f.tag = "EXTENSIBLE" /\ IsPcm16(f) /\ f.mask = f.ch /\ f.sub = "PCM"
IsValidPCM(f) == (f.tag = "PCM" /\ IsPcm16(f)) \/ (Extensible /\ IsValidPCMEX(f))
IsAC3Sized(f) == SoundsRight(f) /\ f.avg >= 3000 /\ f.avg <= 81000 /\ f.align # 0
\* SubFormat has to equal both GUIDs.
IsValidAC3EX(f) ==
  f.tag = "EXTENSIBLE" /\ IsAC3Sized(f) /\ f.mask = f.ch /\ f.sub = "AC3_AUDIO" /\ f.sub = "AC3"
IsValidAC3(f) == (f.tag = "AC3" /\ IsAC3Sized(f)) \/ (Extensible /\ IsValidAC3EX(f))

\* Mutant: an average that is no row's has to be the largest frame's.
ac3_framesizeExact(f) ==
  IF f.align > 1 /\ \E i \in Rows : f.align = FrameBytes(i, f.rate) THEN f.align
  ELSE LET exact == {i \in Rows : f.avg = 125 * kbps(i)}
       IN FrameBytes(Min(exact \union {19}), f.rate)
\* The frame size a format means: nBlockAlign if a frame has that size, else that
\* of the bit rate next to nAvgBytesPerSec.
ac3_framesize(f) ==
  LET diff(i) == IF f.avg < 125 * kbps(i) THEN 125 * kbps(i) - f.avg
                                          ELSE f.avg - 125 * kbps(i)
      nearest == {i \in Rows : \A j \in Rows : diff(i) <= diff(j)}
  IN IF f.align > 1 /\ \E i \in Rows : f.align = FrameBytes(i, f.rate) THEN f.align
     ELSE FrameBytes(IF f.avg <= 81000 THEN Min(nearest) ELSE 19, f.rate)

\* Mutant: the average is that of the bit rate, whatever the sampling rate.
BitrateRowsExact(f) == {i \in Rows : kbps(i) = f.avg \div 125}
\* The rows of framesizes whose bit rate stream_open takes a format to have.
BitrateRows(f) ==
  LET exact == {i \in Rows : kbps(i) = f.avg \div 125} IN
  IF exact = {} /\ f.rate = 44100
  THEN {i \in Rows : Refined(FrameBytes(i, 44100)) = f.avg} ELSE exact

\* AC3_encode_init, for a rate that is not halved: the bytes of a frame.
EncoderFrame(rate, bitrate) == 2 * ((bitrate * 1000 * 1536) \div (rate * 16))
\* a52_syncinfo: the bytes of a frame whose header has the rate and row i, without
\* the padding that frmsizecod & 1 adds.
HeaderFrame(rate, i) ==
  CASE rate = 48000 -> 4 * kbps(i)
    [] rate = 44100 -> 2 * ((320 * kbps(i)) \div 147)
    [] rate = 32000 -> 6 * kbps(i)

MapTab(from, to) == to \in {1, 2, from}
MultichannelAllowed == "MULTICHANNEL" \in dwFlags \/ dst.tag # "PCM" \/ dst.ch <= 2

Encodes == /\ ~IsValidAC3(src) /\ IsValidPCM(src) /\ IsValidAC3(dst)
           /\ src.rate >= 32000 /\ src.ch = dst.ch /\ src.rate = dst.rate
           /\ BitrateRows(dst) # {}
Decodes == /\ IsValidAC3(src) /\ IsValidPCM(dst)
           /\ MultichannelAllowed /\ src.rate = dst.rate /\ MapTab(src.ch, dst.ch)
Copies  == /\ \/ IsValidAC3(src) /\ ~IsValidPCM(dst) /\ IsValidAC3(dst)
              \/ /\ ~IsValidAC3(src) /\ IsValidPCM(src) /\ ~IsValidAC3(dst) /\ IsValidPCM(dst)
                 /\ MultichannelAllowed
           /\ src.ch = dst.ch /\ src.rate = dst.rate
------------------------------------------------------------------------------
\* format_suggest, for a wish w.

\* Mutant: extensible formats are offered where they are switched off.
SuggestedTagAlways(w) ==
  IF ~IsValidAC3(src) THEN "AC3"
  ELSE IF src.ch > 2 /\ w.large THEN "EXTENSIBLE" ELSE "PCM"
SuggestedTag(w) ==
  IF ~IsValidAC3(src) THEN "AC3"
  ELSE IF Extensible /\ src.ch > 2 /\ w.large THEN "EXTENSIBLE" ELSE "PCM"
TagOf(w) == IF w.tag = "none" THEN SuggestedTag(w) ELSE w.tag
TagAllowed(w) ==
  \/ w.tag = "EXTENSIBLE" /\ w.large
  \/ w.tag \in {"none", IF IsValidAC3(src) THEN "PCM" ELSE "AC3"}

\* The PCM for an AC-3 source.  The mask is that of the source's channels.
SuggestedPcm(w) ==
  LET multi == "MULTICHANNEL" \in dwFlags
      ch == IF w.ch # 0 THEN w.ch
            ELSE IF TagOf(w) = "EXTENSIBLE" \/ multi THEN src.ch ELSE Min({src.ch, 2})
  IN IF w.ch \notin {0, 1, 2} /\ (w.ch # src.ch \/ (~multi /\ TagOf(w) = "PCM")) THEN {}
     ELSE {[PcmFormat(TagOf(w), ch, src.rate) EXCEPT
              !.mask = IF TagOf(w) = "EXTENSIBLE" THEN src.ch ELSE 0]}

\* The AC-3 for a PCM source, by the channels.  If no row has that bit rate,
\* nBlockAlign stays what the client has in it: here 0.
SuggestedAC3(w) ==
  LET rate == (IF "USE64" \in dwFlags THEN 64 ELSE 96) * src.ch
      rows == {i \in Rows : kbps(i) = rate}
      unsized == Format(TagOf(w), IF TagOf(w) = "AC3" THEN "none" ELSE "AC3", src.ch, src.rate,
                        IF src.rate = 44100 THEN Refined(0) ELSE 125 * rate, 0, 0)
  IN IF w.ch \notin {0, src.ch} \/ src.rate < 32000 THEN {}
     ELSE IF rows = {} THEN {unsized}
     ELSE {AC3Format(TagOf(w), src.ch, src.rate, i) : i \in rows}

format_suggest(w) ==
  IF ~TagAllowed(w) \/ w.rate \notin {0, src.rate} THEN {}
  ELSE IF IsValidAC3(src) THEN SuggestedPcm(w)
  ELSE IF IsValidPCM(src) THEN SuggestedAC3(w) ELSE {}
------------------------------------------------------------------------------
\* stream_size, of an open stream that encodes or decodes.

\* The bytes of a frame on either side of the stream.
Unit == IF stream.kind = "encode" THEN 1536 * src.align ELSE stream.framelen
Out  == IF stream.kind = "encode" THEN stream.framelen ELSE 1536 * dst.align

\* What an encoding stream takes a coded frame to have: {} when no row has the
\* average, as at 44100 Hz, where the formats have the refined one.
CodedFrame ==
  {FrameBytes(i, dst.rate) + (IF dst.rate = 44100 THEN 2 ELSE 0) :
     i \in {j \in Rows : kbps(j) = dst.avg \div 125}}

\* Mutant: a part of a frame is not counted.
FramesOfWhole(n) == Max({n \div Unit, 1})
\* The frames that n bytes of the source are counted as.
FramesOf(n) == Max({(n + Unit - 1) \div Unit, 1})

\* ACM_STREAMSIZEF_SOURCE: the room for what n bytes become.
DestinationFor(n) ==
  IF stream.kind = "decode" THEN FramesOf(n) * Out
  ELSE IF CodedFrame = {} THEN 3840
  ELSE FramesOf(n) * Max(CodedFrame)
\* Mutant: rooms for less than a block are answered too.
SourceForAny(n) ==
  IF stream.kind = "encode"
  THEN {Unit * (IF CodedFrame = {} THEN 1 ELSE Max({n \div Max(CodedFrame), 1}))}
  ELSE {Max({n \div Out, 1}) * (stream.framelen + 2)}
\* ACM_STREAMSIZEF_DESTINATION: the bytes that may become n, for a room of less
\* than a frame those of a whole one; {}: "can't be done".
SourceFor(n) ==
  IF stream.kind = "encode"
  THEN {Unit * (IF CodedFrame = {} THEN 1 ELSE Max({n \div Max(CodedFrame), 1}))}
  ELSE IF n < 256 * dst.align THEN {}
  ELSE {Max({n \div Out, 1}) * (stream.framelen + 2)}
------------------------------------------------------------------------------
\* stream_convert_ac3 and stream_convert_pcm, with the buffers of size.  The frames
\* of a decoding stream are back to back and have the length the format says: at
\* 44100 Hz the shorter one, of which most go into a buffer.  h and b stand for
\* held and blocks.

\* What is delivered at once, a block of PCM or a byte, and how often for a frame.
Piece  == IF stream.kind = "encode" THEN 1 ELSE 256 * dst.align
Pieces == IF stream.kind = "encode" THEN stream.framelen ELSE 6
Room   == size.dst \div Piece

\* The frames that are complete with this source.
Completed(h) == (h + size.src) \div Unit

\* "If it is impossible for a complete frame to follow this one", neither in this
\* source nor in another one of its size, its sixth block is put off.  A frame that
\* another one follows in this source is not the last complete one.
PutOff(h) ==
  /\ stream.kind = "decode" /\ Completed(h) > 0
  /\ 2 * size.src - (Completed(h) * Unit - h) < Unit

\* What a call would deliver if there were room for it: what was left over, then
\* the frames.
Wanted(h, b) == b + Completed(h) * Pieces - (IF PutOff(h) THEN 1 ELSE 0)

\* A decoding call stops at a block that finds no room; an encoding one as soon as
\* there is no room any more.
Limit == IF stream.kind = "encode" THEN Room - 1 ELSE Room

\* What a call leaves, takes of the source and delivers: it may have no room beyond
\* what was left over; or stop at the j-th frame, where the source is left; or take
\* all of the source.
Converted(h, b) ==
  LET j == ((Limit - b) \div Pieces) + 1 IN
  CASE b > Limit ->
         [held |-> h, blocks |-> b - Room, used |-> 0, given |-> Room]
    [] b <= Limit /\ Wanted(h, b) > Limit ->
         [held |-> 0, blocks |-> b + j * Pieces - Room, used |-> j * Unit - h, given |-> Room]
    [] Wanted(h, b) <= Limit ->
         [held |-> (h + size.src) % Unit, blocks |-> IF PutOff(h) THEN 1 ELSE 0,
          used |-> size.src, given |-> Wanted(h, b)]

\* ACM_STREAMCONVERTF_START drops what the stream has.
Held(start)    == IF start THEN 0 ELSE held
Pending(start) == IF start THEN 0 ELSE blocks

\* The buffers of which stream_size says that they suffice.  Not for encoding at
\* 44100 Hz, where it knows no size of the frame, nor to a destination that cannot
\* hold a frame, for which it names the source of a whole one all the same; nor
\* for the source of a decoding stream, which it sizes for padded frames.
Promised ==
  /\ stream.kind = "encode" => dst.rate # 44100 /\ size.dst >= stream.framelen
  /\ stream.kind = "decode" => size.query = "SOURCE"
------------------------------------------------------------------------------
ListSource ==
  /\ src = NoFormat
  /\ \E s \in Sources : Listed(s[1], s[2]) /\ src' = format_details(s[1], s[2])
  /\ UNCHANGED <<dwFlags, dst, wish, stream, size, held_vars, calls>>

ListDestination ==
  /\ src # NoFormat /\ dst = NoFormat
  /\ \E d \in Destinations : Listed(d[1], d[2]) /\ dst' = format_details(d[1], d[2])
  /\ UNCHANGED <<dwFlags, src, wish, stream, size, held_vars, calls>>

Suggest ==
  /\ src # NoFormat /\ dst = NoFormat
  /\ \E w \in Wishes : dst' \in format_suggest(w) /\ wish' = w
  /\ UNCHANGED <<dwFlags, src, stream, size, held_vars, calls>>

stream_open ==
  /\ dst # NoFormat /\ stream = Closed
  /\ stream' =
       CASE Encodes -> [kind |-> "encode",
                        framelen |-> EncoderFrame(src.rate, kbps(Min(BitrateRows(dst))))]
         [] Decodes -> [kind |-> "decode", framelen |-> ac3_framesize(src)]
         [] Copies  -> [kind |-> "copy", framelen |-> 0]
         [] OTHER   -> [kind |-> "refused", framelen |-> 0]
  /\ UNCHANGED <<dwFlags, src, dst, wish, size, held_vars, calls>>

\* A client asks about a buffer of n bytes; the ACM passes on no question about 0.
stream_size ==
  /\ stream.kind \in {"encode", "decode"} /\ size = <<>> /\ calls < MaxCalls
  /\ \E p \in Buffers :
       LET Bytes(frame) == ((p[1] * frame) \div 6) + p[2] IN
       \/ /\ Bytes(Unit) > 0
          /\ size' = [query |-> "SOURCE", src |-> Bytes(Unit), dst |-> DestinationFor(Bytes(Unit))]
       \/ /\ Bytes(Out) > 0
          /\ \E m \in SourceFor(Bytes(Out)) :
               size' = [query |-> "DESTINATION", src |-> m, dst |-> Bytes(Out)]
  /\ UNCHANGED <<dwFlags, src, dst, wish, stream, held_vars, calls>>

\* It converts with buffers of these sizes.  What is not taken of the source it passes
\* on again, with the source of the next call.
stream_convert ==
  /\ size # <<>>
  /\ \E start \in BOOLEAN :
       LET c == Converted(Held(start), Pending(start)) IN
       /\ held' = c.held /\ blocks' = c.blocks
       /\ least' = IF start \/ calls = 0 THEN size.src ELSE Min({least, size.src})
       /\ kept' = (Promised /\ (start \/ kept))
  /\ size' = <<>> /\ calls' = calls + 1
  /\ UNCHANGED <<dwFlags, src, dst, wish, stream>>

Next == ListSource \/ ListDestination \/ Suggest \/ stream_open \/ stream_size \/ stream_convert
Spec == Init /\ [][Next]_vars
------------------------------------------------------------------------------
\* All who say what a frame of a listed format is agree: the list's nBlockAlign,
\* what a decoding stream makes of the format, with or without nBlockAlign, what
\* an encoding stream produces, and what a52_syncinfo reads from its header.
FrameLengthsAgree ==
  /\ stream.kind = "decode" =>
       LET i == Min(BitrateRows(src)) IN
       /\ stream.framelen = src.align
       /\ stream.framelen = ac3_framesize([src EXCEPT !.align = 0])
       /\ stream.framelen = EncoderFrame(src.rate, kbps(i))
       /\ stream.framelen = HeaderFrame(src.rate, i)
  /\ stream.kind = "encode" => stream.framelen = ac3_framesize(dst)

\* stream_open refuses no two listed formats but those that the driver does not
\* claim to convert: between rates, or between channel counts, except for "We can
\* downmix 3+ AC3 channels to stereo or mono PCM" (AC3ACM.cpp:119) and the upmix
\* of mono (120).  The extensible AC-3 formats it lists are not among them, as
\* IsValidAC3EX accepts none.
ListedOpens ==
  stream # Closed /\ wish = <<>> /\ "AC3" \notin {src.sub, dst.sub} =>
    (stream.kind # "refused" <=>
       /\ src.rate = dst.rate
       /\ src.ch = dst.ch \/ (src.tag = "AC3" /\ dst.tag # "AC3" /\ dst.ch <= 2))

\* A format that is suggested for a listed source can be opened.  Excepted are
\* what the driver gets wrong: bit rates of no row (96 kbit/s for each of three or
\* five channels), extensible AC-3, extensible PCM of prescribed channels, whose
\* mask is the source's, and of a prescribed tag, where it is switched off.
SuggestedOpens ==
  stream.kind = "refused" /\ wish # <<>> =>
    \/ dst.align = 0
    \/ dst.sub = "AC3"
    \/ dst.tag = "EXTENSIBLE" /\ dst.mask # dst.ch
    \/ wish.tag = "EXTENSIBLE" /\ ~Extensible

\* The room that stream_size recommends is enough for all that a call delivers, as
\* long as the buffers before it were recommended as well.  "How large does a
\* destination buffer need to be in order to hold all of the converted data?"
\* (AC3ACM.cpp:2159-2161): when decoding, a block may be wanted more, one that was put
\* off (1571) in the call before; not so if the source is no larger than any since
\* START, as then no frame is completed along with it.
RoomSuffices ==
  size # <<>> /\ Promised =>
    \A start \in BOOLEAN :
      start \/ kept =>
        LET wanted == Wanted(Held(start), Pending(start)) IN
        /\ stream.kind = "encode" => wanted <= Room
        /\ stream.kind = "decode" => wanted <= Room + 1
        /\ stream.kind = "decode" /\ (start \/ size.src <= least) => wanted <= Room

\* Whatever the stream is left with, by buffers too small or by those of other
\* queries, a call with the buffers of an answer takes all its source or delivers
\* something: a client that passes on the rest again comes to an end.  For decoding
\* this is what rooms below a block are refused for (AC3ACM.cpp:2240).
CallsProgress ==
  size # <<>> =>
    \A start \in BOOLEAN :
      LET c == Converted(Held(start), Pending(start)) IN
      c.used = size.src \/ c.given > 0
==============================================================================
