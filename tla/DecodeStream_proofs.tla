------------------------- MODULE DecodeStream_proofs -------------------------
(***************************************************************************)
(* What holds of stream_convert_ac3 for every window, buffer and frame     *)
(* size, every input and every way a client cuts it up.                    *)
(*                                                                         *)
(* The second part is about when it keeps FrameStream's promise.  Three    *)
(* things are needed of the input, and each is a limit of the code: that   *)
(* frame follows frame without other bytes (ScanLost takes over a byte     *)
(* that was never read), that a frame's data fill enough of it (the last   *)
(* block may be decoded when the buffer is in use again), and, for the     *)
(* whole promise, that all frames are equally long (a frame may begin      *)
(* before the last block of the one before it has been decoded).           *)
(***************************************************************************)
EXTENDS DecodeStream, TLAPS, SequenceTheorems

\* The window and its lookahead bound what is buffered before a header has
\* been found; afterwards the frame's size does.  A header, once found at
\* bufptr, stays there until the frame is complete.
Buffered ==
  /\ bufptr <= bufend
  /\ bufptr <= Window - Lookahead
  /\ bufend - bufptr < Lookahead => bufptr = 0
  /\ \/ bufend <= Window
     \/ /\ bufend - bufptr >= Lookahead
        /\ a52_syncinfo(bufptr)
        /\ bufend - bufptr <= Header(bufptr).size

\* What the next memcpy may append.
Requested ==
  pc = "fetch" =>
    /\ fs > 0
    /\ \/ bufend + fs <= Window
       \/ /\ bufend - bufptr >= Lookahead
          /\ a52_syncinfo(bufptr)
          /\ bufend - bufptr + fs <= Header(bufptr).size

\* What each place in the code knows.
Places ==
  /\ pc = "scan" => bufend - bufptr >= Lookahead
  /\ pc = "decode" => bufptr = 0 /\ bufend = 0 /\ fs \in {0, 1}
  /\ pc = "leftover" => blocks > 0

\* The call's accounts of its two buffers.
Accounts ==
  /\ cbSrcLengthUsed <= cbSrcLength
  /\ pc # "idle" => fed + srcLen <= Len(input)
  /\ cbDstLengthUsed <= cbDstLength
  /\ pc # "idle" => dstLen = cbDstLength - cbDstLengthUsed

IInv == TypeOK /\ Buffered /\ Requested /\ Places /\ Accounts

USE WindowAssumption, HeadersAssumption, BlockAssumption, ClientAssumption

\* The initial state satisfies the invariant.
LEMMA InitIInv == Init => IInv
  BY DEF Init, IInv, TypeOK, Buffered, Requested, Places, Accounts, Modes

\* What a found header tells: its size and mode are those of a valid header.
LEMMA HeaderType ==
  ASSUME NEW k, a52_syncinfo(k)
  PROVE  /\ Header(k) \in Headers
         /\ Header(k).size \in Nat /\ Header(k).used \in Nat
         /\ Header(k).mode \in Modes
         /\ Header(k).size >= Window
         /\ Window - Lookahead + Header(k).size < BufSize
  BY DEF a52_syncinfo, Header

\* The mode asked of the decoder is a mode.
LEMMA OutputModeType ==
  ASSUME NEW m \in Modes PROVE OutputMode(m) \in Modes
  BY DEF OutputMode, Modes

\* A decoded block is a well-formed entry of the history.
LEMMA DecodedBlockType ==
  ASSUME TypeOK, blocks > 0
  PROVE  DecodedBlock(blocks) \in
           [start : 0..Len(input), blk : 1..BlocksPerFrame,
            mode : Modes, intact : BOOLEAN]
  BY DEF TypeOK, DecodedBlock

\* The header at bufptr depends on the buffer's bytes before bufend only.
LEMMA HeaderKept ==
  ASSUME TypeOK, bufend - bufptr >= Lookahead, bufend <= BufSize,
         buf' \in [0..(BufSize - 1) -> 0..Len(input)],
         \A k \in 0..(BufSize - 1) : k < bufend => buf'[k] = buf[k],
         UNCHANGED <<input, bufptr>>
  PROVE  /\ a52_syncinfo(bufptr)' <=> a52_syncinfo(bufptr)
         /\ Header(bufptr)' = Header(bufptr)
<1>1. /\ bufptr \in 0..(BufSize - 1) /\ bufptr < bufend
      /\ bufptr + CodeOffset \in 0..(BufSize - 1)
      /\ bufptr + CodeOffset < bufend
  BY DEF TypeOK, CodeOffset
<1>2. buf'[bufptr] = buf[bufptr]
      /\ buf'[bufptr + CodeOffset] = buf[bufptr + CodeOffset]
  BY <1>1
<1> QED
  BY <1>2 DEF a52_syncinfo, Header, Byte, CodeOffset

\* Entering a call, with or without START.
LEMMA ConvertIInv ==
  ASSUME IInv, NEW n \in SrcSizes, NEW d \in DstSizes, Convert(n, d)
  PROVE  IInv'
<1>1. TypeOK'
  BY DEF IInv, TypeOK, Convert, Enter, msd
<1>2. Buffered'
  BY DEF IInv, Buffered, Convert, msd, a52_syncinfo, Header, Byte
<1>3. Requested' /\ Places'
  BY DEF IInv, TypeOK, Requested, Places, Convert, Enter, msd
<1>4. Accounts'
  BY DEF IInv, TypeOK, Accounts, Convert, Enter, srcLen
<1> QED
  BY <1>1, <1>2, <1>3, <1>4 DEF IInv

\* START empties the buffer and forgets the pending blocks.
LEMMA ConvertStartIInv ==
  ASSUME IInv, NEW n \in SrcSizes, NEW d \in DstSizes, ConvertStart(n, d)
  PROVE  IInv'
<1>1. TypeOK'
  BY DEF IInv, TypeOK, ConvertStart, Enter
<1>2. Buffered'
  BY DEF IInv, Buffered, ConvertStart
<1>3. Requested' /\ Places'
  BY DEF Requested, Places, ConvertStart, Enter
<1>4. Accounts'
  BY DEF IInv, TypeOK, Accounts, ConvertStart, Enter, srcLen
<1> QED
  BY <1>1, <1>2, <1>3, <1>4 DEF IInv

\* Refusing a block, and delivering one, shared by two loops.
LEMMA OutOfSpaceAccounts ==
  ASSUME IInv, pc # "idle", OutOfSpace, UNCHANGED <<input, fed, cbSrcLength,
         cbSrcLengthUsed, cbDstLength>>
  PROVE  Accounts' /\ dstLen' \in Int
  BY DEF IInv, TypeOK, Accounts, OutOfSpace, srcLen

\* A delivered block takes from the room exactly what it adds to the output.
LEMMA DeliverBlockAccounts ==
  ASSUME IInv, pc # "idle", blocks > 0, DeliverBlock,
         UNCHANGED <<input, fed, cbSrcLength, cbSrcLengthUsed, cbDstLength>>
  PROVE  /\ Accounts'
         /\ dstLen' \in Int /\ cbDstLengthUsed' \in Nat
         /\ blocks' \in 0..BlocksPerFrame /\ blocks' = blocks - 1
         /\ out' \in Seq([start : 0..Len(input'), blk : 1..BlocksPerFrame,
                          mode : Modes, intact : BOOLEAN])
<1>1. DecodedBlock(blocks) \in
        [start : 0..Len(input), blk : 1..BlocksPerFrame,
         mode : Modes, intact : BOOLEAN]
  BY DecodedBlockType DEF IInv
<1>2. out' \in Seq([start : 0..Len(input), blk : 1..BlocksPerFrame,
                    mode : Modes, intact : BOOLEAN])
  BY <1>1 DEF IInv, TypeOK, DeliverBlock
<1>3. Accounts'
  BY DEF IInv, TypeOK, Accounts, DeliverBlock, srcLen
<1> QED
  BY <1>2, <1>3 DEF IInv, TypeOK, DeliverBlock

\* One iteration over the blocks left by the last call keeps the invariant.
LEMMA LeftoverIInv ==
  ASSUME IInv, Leftover PROVE IInv'
<1>1. pc = "leftover" /\ blocks > 0 /\ blocks \in Nat
  BY DEF IInv, TypeOK, Places, Leftover
<1>2. CASE OutOfSpace
  <2>1. Accounts' /\ dstLen' \in Int
    BY <1>1, <1>2, OutOfSpaceAccounts DEF Leftover
  <2>2. TypeOK'
    BY <1>2, <2>1 DEF IInv, TypeOK, Leftover, OutOfSpace
  <2>3. Buffered' /\ Requested' /\ Places'
    BY <1>2 DEF IInv, Buffered, Requested, Places, Leftover, OutOfSpace,
                a52_syncinfo, Header, Byte
  <2> QED
    BY <2>1, <2>2, <2>3 DEF IInv
<1>3. CASE DeliverBlock /\ pc' = IF blocks = 1 THEN "top" ELSE pc
  <2>1. /\ Accounts'
        /\ dstLen' \in Int /\ cbDstLengthUsed' \in Nat
        /\ blocks' \in 0..BlocksPerFrame /\ blocks' = blocks - 1
        /\ out' \in Seq([start : 0..Len(input'), blk : 1..BlocksPerFrame,
                         mode : Modes, intact : BOOLEAN])
    BY <1>1, <1>3, DeliverBlockAccounts DEF Leftover
  <2>2. TypeOK'
    BY <1>1, <1>3, <2>1 DEF IInv, TypeOK, Leftover
  <2>3. Buffered' /\ Requested' /\ Places'
    BY <1>1, <1>3, <2>1 DEF IInv, Buffered, Requested, Places, Leftover,
                            a52_syncinfo, Header, Byte
  <2> QED
    BY <2>1, <2>2, <2>3 DEF IInv
<1> QED
  BY <1>2, <1>3 DEF Leftover

\* So does the choice at the head of the loop,
LEMMA TopIInv ==
  ASSUME IInv, Top PROVE IInv'
<1>1. TypeOK' /\ Accounts'
  BY DEF IInv, TypeOK, Accounts, Top, msd, call, srcLen
<1>2. Buffered'
  BY DEF IInv, Buffered, Top, msd, a52_syncinfo, Header, Byte
<1>3. Requested' /\ Places'
  BY DEF IInv, TypeOK, Buffered, Requested, Places, Top, msd
<1> QED
  BY <1>1, <1>2, <1>3 DEF IInv

\* and a look at one offset, with each of its four outcomes,
LEMMA ScanIInv ==
  ASSUME IInv, Scan PROVE IInv'
<1>1. /\ pc = "scan" /\ bufend - bufptr >= Lookahead
      /\ bufptr \in Nat /\ bufend \in Nat /\ bufend <= BufSize
      /\ UNCHANGED <<input, fed, cbSrcLength, cbSrcLengthUsed, cbDstLength,
                     cbDstLengthUsed, dstLen, dolbySurround, out>>
  BY DEF IInv, TypeOK, Places, Scan, call
<1>2. pc' # "idle" => Accounts'
  BY <1>1 DEF IInv, Accounts, srcLen
<1>3. CASE ScanPartial
  <2>1. Header(bufptr).size \in Nat
    BY <1>3, HeaderType DEF ScanPartial
  <2>2. TypeOK'
    BY <1>1, <1>3, <2>1 DEF IInv, TypeOK, ScanPartial, msd
  <2>3. /\ a52_syncinfo(bufptr)' /\ Header(bufptr)' = Header(bufptr)
        /\ a52_syncinfo(bufptr) /\ UNCHANGED <<bufptr, bufend, blocks>>
        /\ bufend - bufptr < Header(bufptr).size
        /\ fs' = Header(bufptr).size - (bufend - bufptr) /\ pc' = "fetch"
    BY <1>1, <1>3 DEF ScanPartial, msd, a52_syncinfo, Header, Byte
  <2>4. Buffered'
    BY <2>3 DEF IInv, Buffered
  <2>5. Requested' /\ Places'
    BY <1>1, <2>1, <2>3 DEF Requested, Places
  <2> QED
    BY <1>2, <2>2, <2>3, <2>4, <2>5 DEF IInv
<1>4. CASE ScanFrame
  <2>1. /\ Header(bufptr).used \in Nat
        /\ OutputMode(Header(bufptr).mode) \in Modes
    BY <1>4, HeaderType, OutputModeType DEF ScanFrame
  <2>2. bufptr \in 0..(BufSize - 1) /\ buf[bufptr] \in 0..Len(input)
    BY <1>1 DEF IInv, TypeOK
  <2>3. a52' \in [start : 0..Len(input), used : Nat, base : 0..BufSize]
    BY <1>4, <2>1, <2>2 DEF ScanFrame
  <2>4. TypeOK'
    BY <1>1, <1>4, <2>1, <2>3 DEF IInv, TypeOK, ScanFrame
  <2>5. Buffered' /\ Requested' /\ Places'
    BY <1>4 DEF Buffered, Requested, Places, ScanFrame
  <2> QED
    BY <1>2, <1>4, <2>5, <2>4 DEF IInv, ScanFrame
<1>5. CASE ScanNext
  <2>1. TypeOK'
    BY <1>1, <1>5 DEF IInv, TypeOK, ScanNext
  <2>2. bufend <= Window
    BY <1>5 DEF IInv, Buffered, ScanNext
  <2>3. Buffered' /\ Requested' /\ Places'
    BY <1>1, <1>5, <2>2 DEF IInv, Buffered, Requested, Places, ScanNext
  <2> QED
    BY <1>1, <1>2, <1>5, <2>1, <2>3 DEF IInv, ScanNext
<1>6. CASE ScanLost
  <2>1. bufptr + Lookahead < BufSize
    BY <1>1 DEF IInv, Buffered
  <2>2. buf' \in [0..(BufSize - 1) -> 0..Len(input)]
    BY <1>1, <1>6, <2>1 DEF IInv, TypeOK, ScanLost
  <2>3. bufptr' \in 0..BufSize /\ bufend' \in 0..BufSize /\ fs' \in Int
    BY <1>6 DEF ScanLost
  <2>4. TypeOK'
    BY <1>1, <1>6, <2>2, <2>3 DEF IInv, TypeOK, ScanLost
  <2>5. Buffered' /\ Requested' /\ Places'
    BY <1>6 DEF Buffered, Requested, Places, ScanLost
  <2> QED
    BY <1>2, <1>6, <2>4, <2>5 DEF IInv, ScanLost
<1> QED
  BY <1>3, <1>4, <1>5, <1>6 DEF Scan

\* and one iteration of the loop that decodes a frame's blocks,
LEMMA DecodeIInv ==
  ASSUME IInv, Decode PROVE IInv'
<1>1. /\ pc = "decode" /\ bufptr = 0 /\ bufend = 0 /\ fs \in {0, 1}
      /\ UNCHANGED <<input, fed, buf, bufptr, bufend, flags, a52,
                     cbSrcLength, cbSrcLengthUsed, cbDstLength, dolbySurround>>
  BY DEF IInv, Places, Decode
<1>2. CASE blocks > fs /\ OutOfSpace /\ UNCHANGED fs
  <2>1. Accounts' /\ dstLen' \in Int
    BY <1>1, <1>2, OutOfSpaceAccounts
  <2>2. TypeOK'
    BY <1>1, <1>2, <2>1 DEF IInv, TypeOK, OutOfSpace
  <2>3. Buffered' /\ Requested' /\ Places'
    BY <1>1, <1>2 DEF Buffered, Requested, Places, OutOfSpace
  <2> QED
    BY <2>1, <2>2, <2>3 DEF IInv
<1>3. CASE blocks > fs /\ DeliverBlock /\ pc' = pc /\ UNCHANGED fs
  <2>1. blocks > 0
    BY <1>1, <1>3 DEF IInv, TypeOK
  <2>2. /\ Accounts'
        /\ dstLen' \in Int /\ cbDstLengthUsed' \in Nat
        /\ blocks' \in 0..BlocksPerFrame /\ blocks' = blocks - 1
        /\ out' \in Seq([start : 0..Len(input'), blk : 1..BlocksPerFrame,
                         mode : Modes, intact : BOOLEAN])
    BY <1>1, <1>3, <2>1, DeliverBlockAccounts
  <2>3. TypeOK'
    BY <1>1, <1>3, <2>2 DEF IInv, TypeOK
  <2>4. Buffered' /\ Requested' /\ Places'
    BY <1>1, <1>3 DEF Buffered, Requested, Places
  <2> QED
    BY <2>2, <2>3, <2>4 DEF IInv
<1>4. CASE /\ blocks <= fs /\ fs' = Window /\ pc' = "fetch"
           /\ UNCHANGED <<blocks, dstLen, cbDstLengthUsed, out>>
  <2>1. TypeOK' /\ Accounts'
    BY <1>1, <1>4 DEF IInv, TypeOK, Accounts, srcLen
  <2>2. Buffered' /\ Requested' /\ Places'
    BY <1>1, <1>4 DEF Buffered, Requested, Places
  <2> QED
    BY <2>1, <2>2 DEF IInv
<1> QED
  BY <1>2, <1>3, <1>4 DEF Decode

\* and the copy of source bytes to the tail of the buffer,
LEMMA FetchIInv ==
  ASSUME IInv, Fetch PROVE IInv'
<1>1. /\ pc = "fetch"
      /\ UNCHANGED <<input, bufptr, blocks, flags, a52, cbSrcLength,
                     cbDstLength, cbDstLengthUsed, dstLen, fs,
                     dolbySurround, out>>
  BY DEF Fetch
<1>2. CASE /\ srcLen <= 0 /\ pc' = "idle"
           /\ UNCHANGED <<fed, buf, bufend, cbSrcLengthUsed>>
  <2>1. TypeOK' /\ Accounts'
    BY <1>1, <1>2 DEF IInv, TypeOK, Accounts
  <2>2. Buffered'
    BY <1>1, <1>2 DEF IInv, Buffered, a52_syncinfo, Header, Byte
  <2>3. Requested' /\ Places'
    BY <1>2 DEF Requested, Places
  <2> QED
    BY <2>1, <2>2, <2>3 DEF IInv
<1>3. CASE srcLen > 0
  <2> DEFINE n == IF fs > srcLen THEN srcLen ELSE fs
  <2>1. /\ buf' = [k \in DOMAIN buf |-> IF k \in bufend..(bufend + n - 1)
                                       THEN fed + 1 + k - bufend ELSE buf[k]]
        /\ bufend' = bufend + n
        /\ cbSrcLengthUsed' = cbSrcLengthUsed + n
        /\ fed' = fed + n
        /\ pc' = "top"
    BY <1>3 DEF Fetch, srcLen, IInv, TypeOK
  <2>2. /\ n \in Nat /\ n > 0 /\ n <= fs /\ n <= srcLen
        /\ fed \in Nat /\ bufptr \in Nat /\ bufend \in Nat
        /\ Len(input) \in Nat /\ srcLen \in Nat
        /\ fed + srcLen <= Len(input)
    BY <1>1, <1>3 DEF IInv, TypeOK, Requested, Accounts, srcLen
  <2>3. bufend + n <= BufSize
    <3>1. CASE bufend + fs <= Window
      BY <2>2, <3>1 DEF IInv, TypeOK
    <3>2. CASE /\ a52_syncinfo(bufptr)
               /\ bufend - bufptr + fs <= Header(bufptr).size
      <4>1. /\ Header(bufptr).size \in Nat
            /\ Window - Lookahead + Header(bufptr).size < BufSize
        BY <3>2, HeaderType
      <4>2. bufptr <= Window - Lookahead /\ fs \in Int
        BY DEF IInv, TypeOK, Buffered
      <4> HIDE DEF n
      <4> QED
        BY <2>2, <3>2, <4>1, <4>2
    <3> QED
      BY <1>1, <3>1, <3>2 DEF IInv, Requested
  <2>4. buf' \in [0..(BufSize - 1) -> 0..Len(input)]
    <3>1. DOMAIN buf = 0..(BufSize - 1)
      BY DEF IInv, TypeOK
    <3>2. \A k \in 0..(BufSize - 1) : k \in bufend..(bufend + n - 1) =>
            fed + 1 + k - bufend \in 0..Len(input)
      BY <2>2
    <3>3. \A k \in 0..(BufSize - 1) : buf[k] \in 0..Len(input)
      BY DEF IInv, TypeOK
    <3> HIDE DEF n
    <3> QED
      BY <2>1, <3>1, <3>2, <3>3
  <2>5. \A k \in 0..(BufSize - 1) : k < bufend => buf'[k] = buf[k]
    BY <2>1, <2>2 DEF IInv, TypeOK
  <2>6. TypeOK'
    <3> HIDE DEF n
    <3>1. /\ bufend' \in 0..BufSize /\ fed' \in Nat /\ fed' <= Len(input)
          /\ cbSrcLengthUsed' \in Nat
      BY <2>1, <2>2, <2>3 DEF IInv, TypeOK
    <3> QED
      BY <1>1, <2>1, <2>4, <3>1 DEF IInv, TypeOK
  <2>7. Accounts'
    BY <1>1, <2>1, <2>2 DEF IInv, TypeOK, Accounts, srcLen
  <2>8. bufend - bufptr >= Lookahead =>
          /\ a52_syncinfo(bufptr)' <=> a52_syncinfo(bufptr)
          /\ Header(bufptr)' = Header(bufptr)
    BY <1>1, <2>4, <2>5, HeaderKept DEF IInv, TypeOK
  <2>9. Buffered'
    <3> HIDE DEF n
    <3>1. CASE bufend + fs <= Window
      BY <1>1, <2>1, <2>2, <3>1 DEF IInv, TypeOK, Buffered
    <3>2. CASE /\ bufend - bufptr >= Lookahead
               /\ a52_syncinfo(bufptr)
               /\ bufend - bufptr + fs <= Header(bufptr).size
      <4>1. Header(bufptr).size \in Nat
        BY <3>2, HeaderType
      <4> QED
        BY <1>1, <2>1, <2>2, <2>8, <3>2, <4>1 DEF IInv, TypeOK, Buffered
    <3> QED
      BY <1>1, <3>1, <3>2 DEF IInv, Requested
  <2>10. Requested' /\ Places'
    BY <2>1 DEF Requested, Places
  <2> QED
    BY <2>6, <2>7, <2>9, <2>10 DEF IInv
<1> QED
  BY <1>1, <1>2, <1>3 DEF Fetch, IInv, TypeOK, srcLen

\* and the dialog, and a step that changes nothing.
LEMMA UnchangedIInv ==
  ASSUME IInv, UNCHANGED <<input, fed, pc, msd, call, fs, out>>,
         dolbySurround' \in BOOLEAN
  PROVE  IInv'
<1>1. TypeOK' /\ Accounts'
  BY DEF IInv, TypeOK, Accounts, msd, call, srcLen
<1>2. Buffered' /\ Requested' /\ Places'
  BY DEF IInv, Buffered, Requested, Places, msd, a52_syncinfo, Header, Byte
<1> QED
  BY <1>1, <1>2 DEF IInv

\* Every step preserves the invariant.
LEMMA NextIInv == IInv /\ [Next]_vars => IInv'
<1> SUFFICES ASSUME IInv, [Next]_vars PROVE IInv'
  OBVIOUS
<1>1. ASSUME NEW n \in SrcSizes, NEW d \in DstSizes,
             Convert(n, d) \/ ConvertStart(n, d)
      PROVE  IInv'
  BY <1>1, ConvertIInv, ConvertStartIInv
<1>2. CASE Step
  BY <1>2, LeftoverIInv, TopIInv, ScanIInv, DecodeIInv, FetchIInv DEF Step
<1>3. CASE Configure
  BY <1>3, UnchangedIInv DEF Configure, IInv, TypeOK
<1>4. CASE UNCHANGED vars
  BY <1>4, UnchangedIInv DEF vars, IInv, TypeOK
<1> QED
  BY <1>1, <1>2, <1>3, <1>4 DEF Next

\* The invariant holds in every reachable state.
THEOREM Invariance == Spec => []IInv
  BY InitIInv, NextIInv, PTL DEF Spec

\* Every variable of the conversion keeps its type, for every input and
\* every sequence of calls.
THEOREM TypeCorrect == Spec => []TypeOK
  BY Invariance, PTL DEF IInv

\* No copy leaves msd->buf.
LEMMA IInvBufferSafe == IInv => BufferSafe
<1> SUFFICES ASSUME IInv PROVE BufferSafe
  OBVIOUS
<1>1. /\ bufptr <= bufend /\ bufptr <= Window - Lookahead
      /\ bufptr \in Nat /\ bufend \in Nat /\ fs \in Int
  BY DEF IInv, TypeOK, Buffered
<1>2. ASSUME pc = "fetch" PROVE fs > 0 /\ bufend + fs <= BufSize
  <2>1. CASE bufend + fs <= Window
    BY <1>1, <1>2, <2>1 DEF IInv, Requested
  <2>2. CASE /\ a52_syncinfo(bufptr)
             /\ bufend - bufptr + fs <= Header(bufptr).size
    <3>1. /\ Header(bufptr).size \in Nat
          /\ Window - Lookahead + Header(bufptr).size < BufSize
      BY <2>2, HeaderType
    <3>2. fs > 0
      BY <1>2 DEF IInv, Requested
    <3> QED
      BY <1>1, <2>2, <3>1, <3>2
  <2> QED
    BY <1>2, <2>1, <2>2 DEF IInv, Requested
<1> QED
  BY <1>1, <1>2 DEF BufferSafe

\* The two copies of stream_convert_ac3 stay inside msd->buf: for every window,
\* lookahead and buffer size that satisfy the assumptions, and every input.
THEOREM BufferIsSafe == Spec => []BufferSafe
  BY Invariance, IInvBufferSafe, PTL

\* A complete frame ends the buffer.
LEMMA IInvFrameFills == IInv => FrameFillsBuffer
<1> SUFFICES ASSUME IInv, a52_syncinfo(bufptr)
             PROVE  bufend - bufptr <= Header(bufptr).size
  BY DEF FrameFillsBuffer
<1>1. Header(bufptr).size \in Nat /\ Header(bufptr).size >= Window
  BY HeaderType
<1>2. bufptr \in Nat /\ bufend \in Nat
  BY DEF IInv, TypeOK
<1> QED
  BY <1>1, <1>2 DEF IInv, Buffered

\* When stream_convert_ac3 hands a frame to a52_frame, nothing of the next frame
\* is in the buffer that it then empties.
THEOREM FramesFillTheBuffer == Spec => []FrameFillsBuffer
  BY Invariance, IInvFrameFills, PTL

\* A call returns with its source used up, or because a due block finds no
\* room, and never writes beyond the destination.
LEMMA StepReturns ==
  ASSUME IInv, [Next]_vars, pc # "idle", pc' = "idle"
  PROVE  /\ cbDstLengthUsed' <= cbDstLength'
         /\ \/ cbSrcLengthUsed' = cbSrcLength'
            \/ dstLen' < 0 /\ blocks' > 0
<1>1. IInv'
  BY NextIInv
<1>2. cbDstLengthUsed' <= cbDstLength'
  BY <1>1 DEF IInv, Accounts
<1>3. CASE Leftover
  <2>1. blocks > 0
    BY <1>3 DEF IInv, Places, Leftover
  <2> QED
    BY <1>2, <1>3, <2>1 DEF Leftover, OutOfSpace, DeliverBlock, IInv, TypeOK
<1>4. CASE Decode
  BY <1>2, <1>4 DEF Decode, OutOfSpace, DeliverBlock, IInv, TypeOK, Places
<1>5. CASE Fetch
  BY <1>2, <1>5 DEF Fetch, IInv, TypeOK, Accounts, srcLen
<1>6. pc' # "idle" \/ pc' = pc
      \/ Leftover \/ Decode \/ Fetch
  BY DEF Next, Step, Convert, ConvertStart, Enter, Top, Scan, ScanPartial,
         ScanFrame, ScanNext, ScanLost, Configure, vars
<1> QED
  BY <1>3, <1>4, <1>5, <1>6

\* stream_convert_ac3 never overruns the destination, and leaves source bytes
\* unread only with a block still due.
THEOREM CallsReturnWhenDone == Spec => ReturnsWhenDone
<1>1. IInv /\ [Next]_vars =>
        [pc # "idle" /\ pc' = "idle" =>
           /\ cbDstLengthUsed' <= cbDstLength'
           /\ \/ cbSrcLengthUsed' = cbSrcLength'
              \/ dstLen' < 0 /\ blocks' > 0]_vars
  BY StepReturns
<1> QED
  BY <1>1, Invariance, PTL DEF Spec, ReturnsWhenDone

------------------------------------------------------------------------------
\* The last block of a frame is kept for the next call only when no complete
\* frame can follow in this one: that is so when all frames of an input are
\* equally long.
HeadersIn(in) == {in[i] : i \in DOMAIN in} \intersect Headers
Uniform == \A in \in Inputs : \A g, h \in HeadersIn(in) : g.size = h.size

Deferral ==
  /\ pc \in {"top", "scan", "fetch"} /\ blocks > 0 =>
       \A h \in HeadersIn(input) : bufend - bufptr + srcLen < h.size
  /\ pc = "decode" /\ fs = 1 =>
       \A h \in HeadersIn(input) : cbSrcLength * 2 - cbSrcLengthUsed < h.size

\* A header that is found is one of the input's.
LEMMA HeaderOfInput ==
  ASSUME IInv, NEW k \in Nat, k + CodeOffset < BufSize, a52_syncinfo(k)
  PROVE  Header(k) \in HeadersIn(input)
<1> DEFINE c == k + CodeOffset
<1>1. c \in 0..(BufSize - 1) /\ buf[c] \in 0..Len(input)
  BY DEF IInv, TypeOK, CodeOffset
<1>2. Byte(c) \in Headers /\ Header(k) = Byte(c)
  BY DEF a52_syncinfo, Header
<1> HIDE DEF c
<1>3. buf[c] # 0 /\ Byte(c) = input[buf[c]]
  BY <1>1, <1>2 DEF Byte
<1>4. DOMAIN input = 1..Len(input) /\ Len(input) \in Nat
  BY DEF IInv, TypeOK
<1>5. buf[c] \in DOMAIN input
  BY <1>1, <1>3, <1>4
<1> QED
  BY <1>2, <1>3, <1>5 DEF HeadersIn

\* At the place where stream_convert_ac3 looks for one.
LEMMA HeaderAtPointer ==
  ASSUME IInv, pc = "scan", a52_syncinfo(bufptr)
  PROVE  Header(bufptr) \in HeadersIn(input)
<1>1. bufptr \in Nat /\ bufptr + CodeOffset < BufSize
  BY DEF IInv, TypeOK, Buffered, CodeOffset
<1> QED
  BY <1>1, HeaderOfInput

\* The strengthening for NoBlockDropped: a block that is kept for the next call
\* is kept only while the source cannot complete the frame that follows.
LEMMA InitDeferral == Init => Deferral
  BY DEF Init, Deferral

\* Every step keeps it, if all frames are of one size.
LEMMA NextDeferral ==
  ASSUME Uniform, IInv, Deferral, [Next]_vars
  PROVE  Deferral'
<1>1. /\ bufptr \in Nat /\ bufend \in Nat /\ blocks \in Nat
      /\ cbSrcLength \in Nat /\ cbSrcLengthUsed \in Nat
      /\ cbSrcLengthUsed <= cbSrcLength /\ fs \in Int
      /\ \A h \in HeadersIn(input) : h.size \in Nat
      /\ input \in Inputs
  BY DEF IInv, TypeOK, Accounts, HeadersIn
<1>2. ASSUME NEW n \in SrcSizes, NEW d \in DstSizes,
             Convert(n, d) \/ ConvertStart(n, d)
      PROVE  Deferral'
  BY <1>1, <1>2 DEF Deferral, Convert, ConvertStart, Enter, msd
<1>3. CASE Leftover
  BY <1>1, <1>3 DEF IInv, Places, Deferral, Leftover, OutOfSpace, DeliverBlock
<1>4. CASE Top
  BY <1>1, <1>4 DEF Deferral, Top, msd, call, srcLen
<1>5. CASE Scan
  <2>1. pc = "scan" /\ UNCHANGED <<input, cbSrcLength, cbSrcLengthUsed>>
        /\ bufend - bufptr >= Lookahead
    BY <1>5 DEF Scan, call, IInv, Places
  <2>2. CASE ScanPartial
    BY <1>1, <2>1, <2>2 DEF Deferral, ScanPartial, msd, srcLen
  <2>3. CASE ScanFrame
    <3>1. Header(bufptr) \in HeadersIn(input)
      BY <2>1, <2>3, HeaderAtPointer DEF ScanFrame
    <3>2. fs' = 1 => cbSrcLength * 2 - cbSrcLengthUsed < Header(bufptr).size
      BY <2>3 DEF ScanFrame
    <3> QED
      BY <1>1, <1>5, <2>1, <2>3, <3>1, <3>2
         DEF Uniform, Deferral, Scan, ScanFrame
  <2>4. CASE ScanNext
    BY <1>1, <2>1, <2>4 DEF Deferral, ScanNext, srcLen
  <2>5. CASE ScanLost
    BY <1>1, <2>1, <2>5 DEF Deferral, ScanLost, srcLen
  <2> QED
    BY <1>5, <2>2, <2>3, <2>4, <2>5 DEF Scan
<1>6. CASE Decode
  BY <1>1, <1>6 DEF IInv, Places, Deferral, Decode, OutOfSpace, DeliverBlock,
                    srcLen
<1>7. CASE Fetch
  <2>1. /\ pc' # "scan" /\ blocks' = blocks /\ fs' = fs /\ bufptr' = bufptr
        /\ input' = input /\ cbSrcLength' = cbSrcLength
    BY <1>7 DEF Fetch
  <2>2. HeadersIn(input') = HeadersIn(input)
    BY <2>1
  <2>3. srcLen \in Int
    BY <1>1 DEF srcLen
  <2>4. CASE srcLen <= 0
    BY <1>7, <2>1, <2>2, <2>4 DEF Deferral, Fetch
  <2>5. CASE srcLen > 0
    <3> DEFINE n == IF fs > srcLen THEN srcLen ELSE fs
    <3>1. /\ bufend' = bufend + n /\ cbSrcLengthUsed' = cbSrcLengthUsed + n
          /\ pc = "fetch" /\ pc' = "top"
      <4>1. ~(srcLen <= 0)
        BY <2>3, <2>5
      <4> QED
        BY <1>7, <4>1, Zenon DEF Fetch
    <3>2. n \in Int
      BY <1>1, <2>3
    <3> HIDE DEF n
    <3>3. bufend' - bufptr' = bufend - bufptr + n
      BY <1>1, <2>1, <3>1, <3>2
    <3>4. srcLen' = srcLen - n
      BY <1>1, <2>1, <3>1, <3>2 DEF srcLen
    <3>5. bufend' - bufptr' + srcLen' = bufend - bufptr + srcLen
      BY <1>1, <2>3, <3>2, <3>3, <3>4
    <3> QED
      BY <2>1, <2>2, <3>1, <3>5 DEF Deferral
  <2> QED
    BY <2>4, <2>5, <2>3
<1>8. CASE Configure \/ UNCHANGED vars
  BY <1>8 DEF Deferral, Configure, vars, msd, call, srcLen
<1> QED
  BY <1>2, <1>3, <1>4, <1>5, <1>6, <1>7, <1>8 DEF Next, Step

\* When all frames of an input are equally long, no frame is begun before
\* the blocks of the one before have been decoded, whatever bytes lie between
\* the frames.
THEOREM NoBlockIsDropped ==
  ASSUME Uniform PROVE Spec => []NoBlockDropped
<1>1. Init => IInv /\ Deferral
  BY InitIInv, InitDeferral
<1>2. IInv /\ Deferral /\ [Next]_vars => (IInv /\ Deferral)'
  BY NextIInv, NextDeferral
<1>3. ASSUME IInv, Deferral PROVE NoBlockDropped
  <2> SUFFICES ASSUME pc = "scan", a52_syncinfo(bufptr), blocks > 0,
                      bufend - bufptr >= Header(bufptr).size
               PROVE  FALSE
    BY <1>3 DEF NoBlockDropped, IInv, TypeOK
  <2>1. Header(bufptr) \in HeadersIn(input) /\ Header(bufptr).size \in Nat
    BY <1>3, HeaderType, HeaderAtPointer
  <2>2. bufend - bufptr + srcLen < Header(bufptr).size
    BY <1>3, <2>1 DEF Deferral
  <2> QED
    BY <1>3, <2>1, <2>2 DEF IInv, TypeOK, Accounts, srcLen
<1> QED
  BY <1>1, <1>2, <1>3, PTL DEF Spec

------------------------------------------------------------------------------
\* Between two blocks of a frame msd->flags holds the mode of the block delivered
\* last: only a52_frame's result is stored there, and with it the count of blocks
\* is set anew.
ModeHeld ==
  blocks \in 1..(BlocksPerFrame - 1) =>
    out # <<>> /\ out[Len(out)].mode = flags

\* A block that is delivered has the mode of the one before it, but for the first
\* of a frame.
LEMMA DeliverMode ==
  ASSUME IInv, OneModePerFrame, ModeHeld, blocks > 0, DeliverBlock,
         UNCHANGED flags
  PROVE  (OneModePerFrame /\ ModeHeld)'
<1> DEFINE b == DecodedBlock(blocks)
           Entries == [start : 0..Len(input), blk : 1..BlocksPerFrame,
                       mode : Modes, intact : BOOLEAN]
<1>1. out \in Seq(Entries) /\ b \in Entries /\ blocks \in 1..BlocksPerFrame
  BY DecodedBlockType DEF IInv, TypeOK
<1>2. b.mode = flags /\ b.blk = BlocksPerFrame + 1 - blocks
  BY DEF DecodedBlock
<1> HIDE DEF b, Entries
<1>3. /\ Len(out) \in Nat /\ Len(out') = Len(out) + 1 /\ out' # <<>>
      /\ \A i \in 1..Len(out) : out'[i] = out[i]
      /\ out'[Len(out) + 1] = b
  <2>1. out' = Append(out, b)
    BY DEF DeliverBlock, b
  <2> QED
    BY <1>1, <2>1
<1>4. ModeHeld'
  BY <1>2, <1>3 DEF ModeHeld
<1>5. ASSUME NEW i \in 2..Len(out'), out'[i].blk > 1
      PROVE  out'[i].mode = out'[i - 1].mode
  <2>1. CASE i <= Len(out)
    BY <1>3, <1>5, <2>1 DEF OneModePerFrame
  <2>2. CASE i = Len(out) + 1
    <3>1. blocks \in 1..(BlocksPerFrame - 1)
      BY <1>1, <1>2, <1>3, <1>5, <2>2
    <3>2. out'[i - 1] = out[Len(out)]
      BY <1>3, <2>2
    <3> QED
      BY <1>2, <1>3, <2>2, <3>1, <3>2 DEF ModeHeld
  <2> QED
    BY <1>3, <2>1, <2>2
<1> QED
  BY <1>4, <1>5 DEF OneModePerFrame

\* Every step keeps the mode of the frame in progress.
LEMMA NextMode ==
  ASSUME IInv, OneModePerFrame, ModeHeld, [Next]_vars
  PROVE  (OneModePerFrame /\ ModeHeld)'
<1>1. CASE UNCHANGED <<blocks, flags, out>>
  BY <1>1 DEF OneModePerFrame, ModeHeld
<1>2. ASSUME NEW n \in SrcSizes, NEW d \in DstSizes, ConvertStart(n, d)
      PROVE  (OneModePerFrame /\ ModeHeld)'
  BY <1>2 DEF OneModePerFrame, ModeHeld, ConvertStart
<1>3. CASE Leftover
  BY <1>1, <1>3, DeliverMode DEF Leftover, OutOfSpace, IInv, Places
<1>4. CASE Decode
  <2>1. blocks > fs => blocks > 0
    BY <1>4 DEF Decode, IInv, TypeOK, Places
  <2> QED
    BY <1>1, <1>4, <2>1, DeliverMode DEF Decode, OutOfSpace
<1>5. CASE pc = "scan" /\ ScanFrame /\ UNCHANGED out
  BY <1>5 DEF OneModePerFrame, ModeHeld, ScanFrame
<1> QED
  BY <1>1, <1>2, <1>3, <1>4, <1>5
     DEF Next, Step, Convert, Top, Scan, ScanPartial, ScanNext, ScanLost, Fetch,
         Configure, vars, msd

\* All blocks of a frame are converted for one speaker mode, at whatever moment
\* the dialog stores another setting.
THEOREM FramesHaveOneMode == Spec => []OneModePerFrame
<1>1. Init => OneModePerFrame /\ ModeHeld
  BY DEF Init, OneModePerFrame, ModeHeld
<1>2. IInv /\ OneModePerFrame /\ ModeHeld /\ [Next]_vars
        => (OneModePerFrame /\ ModeHeld)'
  BY NextMode
<1> QED
  BY <1>1, <1>2, Invariance, PTL DEF Spec
------------------------------------------------------------------------------
\* The positions where the frames of in begin, the first after its end included.
IsFraming(in, S) ==
  /\ 1 \in S
  /\ \A p \in S : p + CodeOffset <= Len(in) =>
       /\ in[p] = SYNC
       /\ in[p + CodeOffset] \in Headers
       /\ p + in[p + CodeOffset].size \in S
Aligned == \A in \in Inputs : \E S \in SUBSET (Nat \ {0}) : IsFraming(in, S)
Framing(in) == CHOOSE S \in SUBSET (Nat \ {0}) : IsFraming(in, S)

\* The last block's bytes begin in the second half of the frame.  (With six
\* blocks: a frame's data are at least three fifths of it.)
Dense ==
  \A in \in Inputs : \A h \in HeadersIn(in) :
    BlocksPerFrame * h.size <= 2 * ((BlocksPerFrame - 1) * h.used)

\* The buffer holds consecutive bytes from the start of a frame on.
First == fed - (bufend - bufptr) + 1
InFrames ==
  /\ First \in Framing(input)
  /\ bufptr = 0
  /\ \A k \in 0..(bufend - 1) : buf[k] = First + k

\* While blocks are pending, their frame ends where the buffered bytes start,
\* and the bytes of these blocks are still where the decoder will look for them.
Current == input[a52.start + CodeOffset]
Held ==
  blocks > 0 =>
    /\ a52.start \in Framing(input)
    /\ a52.start + CodeOffset <= Len(input)
    /\ a52.used = Current.used
    /\ First = a52.start + Current.size
    /\ a52.base = 0
    /\ \A k \in 0..(a52.used - 1) :
         k * BlocksPerFrame >= (BlocksPerFrame - blocks) * a52.used =>
           buf[k] = a52.start + k

\* A block kept for the next call is the last, and what this call can still
\* copy is less than half of its frame.
Waiting ==
  /\ blocks > 0 /\ pc \in {"top", "scan", "fetch"} =>
       blocks = 1 /\ 2 * (bufend + srcLen) < Current.size
  /\ pc = "decode" /\ fs = 1 =>
       blocks > 0 /\ cbSrcLength * 2 - cbSrcLengthUsed < Current.size

FInv == IInv /\ InFrames /\ Held /\ Waiting /\ BlocksIntact

USE WindowAssumption, HeadersAssumption, BlockAssumption, ClientAssumption
------------------------------------------------------------------------------
\* What is known of a position where a frame begins.
LEMMA FramingFacts ==
  ASSUME Aligned, input \in Inputs
  PROVE  /\ Framing(input) \subseteq Nat \ {0}
         /\ 1 \in Framing(input)
         /\ \A p \in Framing(input) : p + CodeOffset <= Len(input) =>
              /\ input[p] = SYNC
              /\ input[p + CodeOffset] \in Headers
              /\ p + input[p + CodeOffset].size \in Framing(input)
<1>1. \E S \in SUBSET (Nat \ {0}) : IsFraming(input, S)
  BY DEF Aligned
<1>2. /\ Framing(input) \in SUBSET (Nat \ {0})
      /\ IsFraming(input, Framing(input))
  BY <1>1, Zenon DEF Framing
<1> QED
  BY <1>2 DEF IsFraming

\* A stream that was just opened stands before its first frame.
LEMMA InitFInv == ASSUME Aligned, Init PROVE FInv
<1>1. IInv
  BY InitIInv
<1>2. 1 \in Framing(input)
  BY <1>1, FramingFacts DEF IInv, TypeOK
<1>3. InFrames
  BY <1>2 DEF Init, InFrames, First
<1>4. Held /\ Waiting /\ BlocksIntact
  BY DEF Init, Held, Waiting, BlocksIntact
<1> QED
  BY <1>1, <1>3, <1>4 DEF FInv

\* The header of the frame that pending blocks are of.
LEMMA CurrentType ==
  ASSUME Aligned, FInv, blocks > 0
  PROVE  /\ Current \in Headers /\ Current \in HeadersIn(input)
         /\ Current.size \in Nat /\ Current.used \in Nat
         /\ Current.used <= Current.size
         /\ a52.start \in Nat \ {0} /\ input[a52.start] = SYNC
<1>1. /\ a52.start \in Framing(input) /\ a52.start + CodeOffset <= Len(input)
      /\ input \in Inputs
  BY DEF FInv, Held, IInv, TypeOK
<1>2. /\ Current \in Headers /\ input[a52.start] = SYNC
      /\ a52.start \in Nat \ {0}
  BY <1>1, FramingFacts DEF Current
<1>3. a52.start + CodeOffset \in DOMAIN input
  BY <1>1, <1>2 DEF CodeOffset
<1> QED
  BY <1>2, <1>3 DEF Current, HeadersIn

\* A look at a whole window finds a header: ScanNext and ScanLost are not taken.
LEMMA HeaderFound ==
  ASSUME Aligned, FInv, pc = "scan"
  PROVE  /\ a52_syncinfo(bufptr) /\ bufptr = 0
         /\ First \in Nat \ {0} /\ buf[0] = First
         /\ First + CodeOffset <= Len(input)
         /\ Header(bufptr) = input[First + CodeOffset]
         /\ First + Header(bufptr).size \in Framing(input)
         /\ bufend - bufptr <= Header(bufptr).size
<1>1. /\ bufptr = 0 /\ bufend \in Nat /\ bufend >= Lookahead
      /\ fed \in Nat /\ fed <= Len(input) /\ input \in Inputs
      /\ Len(input) \in Nat /\ CodeOffset \in 0..(Lookahead - 1)
  BY DEF FInv, InFrames, IInv, TypeOK, Places, CodeOffset
<1>2. First \in Framing(input) /\ First \in Nat \ {0}
  BY <1>1, FramingFacts DEF FInv, InFrames
<1>3. buf[0] = First + 0 /\ buf[CodeOffset] = First + CodeOffset
  BY <1>1 DEF FInv, InFrames
<1>4. First + CodeOffset <= Len(input) /\ First + CodeOffset # 0
  BY <1>1, <1>2 DEF First
<1>5. 0 + CodeOffset = CodeOffset /\ First + 0 = First
  BY <1>1, <1>2
<1>6. Byte(0) = input[First] /\ Byte(CodeOffset) = input[First + CodeOffset]
  BY <1>2, <1>3, <1>4, <1>5 DEF Byte
<1>7. /\ input[First] = SYNC /\ input[First + CodeOffset] \in Headers
      /\ First + input[First + CodeOffset].size \in Framing(input)
  BY <1>1, <1>2, <1>4, FramingFacts
<1>8. a52_syncinfo(bufptr) /\ Header(bufptr) = input[First + CodeOffset]
  BY <1>1, <1>5, <1>6, <1>7 DEF a52_syncinfo, Header
<1>9. FrameFillsBuffer
  BY IInvFrameFills DEF FInv
<1> QED
  BY <1>1, <1>2, <1>3, <1>4, <1>5, <1>7, <1>8, <1>9 DEF FrameFillsBuffer

\* A block that is delivered is decoded from the bytes of its frame.
LEMMA BlockIntact ==
  ASSUME Aligned, FInv, blocks > 0
  PROVE  DecodedBlock(blocks) = [start |-> a52.start,
                                 blk |-> BlocksPerFrame + 1 - blocks,
                                 mode |-> flags, intact |-> TRUE]
<1> DEFINE b == BlocksPerFrame + 1 - blocks
<1>1. blocks \in Nat /\ b - 1 = BlocksPerFrame - blocks
  BY DEF FInv, IInv, TypeOK
<1>2. ASSUME NEW k \in BlockBytes(a52.used, b)
      PROVE  buf[a52.base + k] = a52.start + k
  <2>1. /\ k \in 0..(a52.used - 1)
        /\ k * BlocksPerFrame >= (b - 1) * a52.used
    BY <1>2 DEF BlockBytes
  <2>2. a52.base + k = k
    BY <2>1 DEF FInv, Held
  <2> HIDE DEF b
  <2> QED
    BY <1>1, <2>1, <2>2 DEF FInv, Held
<1> QED
  BY <1>2 DEF DecodedBlock

\* Delivering a block keeps what was delivered intact, and leaves of the pending
\* blocks' bytes what they were.
LEMMA DeliverKeeps ==
  ASSUME Aligned, FInv, blocks > 0, DeliverBlock,
         UNCHANGED <<input, fed, buf, bufptr, bufend, a52>>
  PROVE  /\ InFrames' /\ Held' /\ BlocksIntact'
         /\ blocks' = blocks - 1
         /\ out' = Append(out, DecodedBlock(blocks))
<1>1. /\ blocks' = blocks - 1 /\ out' = Append(out, DecodedBlock(blocks))
      /\ blocks \in 1..BlocksPerFrame
  BY DEF DeliverBlock, FInv, IInv, TypeOK
<1>2. InFrames'
  BY DEF FInv, InFrames, First
<1>3. Held'
  <2>1. /\ First' = First /\ Current' = Current
    BY DEF First, Current
  <2>2. ASSUME NEW k \in 0..(a52.used - 1),
               k * BlocksPerFrame >= (BlocksPerFrame - (blocks - 1)) * a52.used
        PROVE  buf[k] = a52.start + k
    <3>1. a52.used \in Nat
      BY DEF FInv, IInv, TypeOK
    <3>2. /\ (BlocksPerFrame - (blocks - 1)) * a52.used
               = (BlocksPerFrame - blocks) * a52.used + a52.used
          /\ (BlocksPerFrame - blocks) * a52.used \in Int
          /\ k * BlocksPerFrame \in Int
      BY <1>1, <3>1
    <3>3. k * BlocksPerFrame >= (BlocksPerFrame - blocks) * a52.used
      BY <2>2, <3>1, <3>2
    <3> QED
      BY <1>1, <3>3 DEF FInv, Held
  <2>3. a52' = a52 /\ buf' = buf /\ input' = input
    OBVIOUS
  <2> HIDE DEF Current, First
  <2> QED
    BY <1>1, <2>1, <2>2, <2>3 DEF FInv, Held
<1>4. BlocksIntact'
  <2>1. DecodedBlock(blocks).intact = TRUE
    BY BlockIntact
  <2>2. out \in Seq([start : 0..Len(input), blk : 1..BlocksPerFrame,
                     mode : Modes, intact : BOOLEAN])
    BY DEF FInv, IInv, TypeOK
  <2>3. \A i \in 1..Len(out) : out[i].intact
    BY <2>2 DEF FInv, BlocksIntact
  <2> QED
    BY <1>1, <2>1, <2>2, <2>3 DEF BlocksIntact
<1> QED
  BY <1>1, <1>2, <1>3, <1>4

\* Steps that leave the buffer and the decoder alone.
LEMMA BufferKept ==
  ASSUME FInv, UNCHANGED <<input, fed, buf, bufptr, bufend, blocks, a52, out>>
  PROVE  InFrames' /\ Held' /\ BlocksIntact' /\ Current' = Current
<1>1. First' = First /\ Current' = Current
  BY DEF First, Current
<1> QED
  BY <1>1 DEF FInv, InFrames, Held, BlocksIntact

\* A call begins: what is pending is decoded before anything is copied.
LEMMA ConvertFInv ==
  ASSUME Aligned, FInv, NEW n \in SrcSizes, NEW d \in DstSizes, Convert(n, d)
  PROVE  FInv'
<1>1. IInv'
  BY ConvertIInv DEF FInv
<1>2. InFrames' /\ Held' /\ BlocksIntact'
  BY BufferKept DEF Convert, msd
<1>3. Waiting'
  BY DEF Waiting, Convert, msd
<1> QED
  BY <1>1, <1>2, <1>3 DEF FInv

\* START: the input begins again.
LEMMA ConvertStartFInv ==
  ASSUME Aligned, FInv, NEW n \in SrcSizes, NEW d \in DstSizes,
         ConvertStart(n, d)
  PROVE  FInv'
<1>1. IInv'
  BY ConvertStartIInv DEF FInv
<1>2. 1 \in Framing(input)
  BY FramingFacts DEF FInv, IInv, TypeOK
<1>3. InFrames' /\ Held' /\ BlocksIntact' /\ Waiting'
  BY <1>2 DEF ConvertStart, InFrames, First, Held, BlocksIntact, Waiting
<1> QED
  BY <1>1, <1>3 DEF FInv

\* A block left by the last call is refused again or delivered.
LEMMA LeftoverFInv ==
  ASSUME Aligned, FInv, Leftover PROVE FInv'
<1>1. IInv' /\ blocks > 0 /\ pc = "leftover"
  BY LeftoverIInv DEF FInv, IInv, Places, Leftover
<1>2. CASE OutOfSpace
  <2>1. InFrames' /\ Held' /\ BlocksIntact'
    BY <1>2, BufferKept DEF Leftover, OutOfSpace
  <2>2. Waiting'
    BY <1>2 DEF OutOfSpace, Waiting
  <2> QED
    BY <1>1, <2>1, <2>2 DEF FInv
<1>3. CASE DeliverBlock /\ pc' = IF blocks = 1 THEN "top" ELSE pc
  <2>1. InFrames' /\ Held' /\ BlocksIntact' /\ blocks' = blocks - 1
    BY <1>1, <1>3, DeliverKeeps DEF Leftover
  <2>2. Waiting'
    BY <1>1, <1>3, <2>1 DEF Waiting
  <2> QED
    BY <1>1, <2>1, <2>2 DEF FInv
<1> QED
  BY <1>2, <1>3 DEF Leftover

\* The head of the loop only chooses.
LEMMA TopFInv ==
  ASSUME Aligned, FInv, Top PROVE FInv'
<1>1. IInv'
  BY TopIInv DEF FInv
<1>2. InFrames' /\ Held' /\ BlocksIntact' /\ Current' = Current
  BY BufferKept DEF Top, msd
<1>3. Waiting'
  BY <1>2 DEF FInv, Waiting, Top, msd, call, srcLen
<1> QED
  BY <1>1, <1>2, <1>3 DEF FInv

\* A look at the buffer finds a header, and waits for its frame or begins it.
LEMMA ScanFInv ==
  ASSUME Aligned, FInv, Scan PROVE FInv'
<1>1. /\ IInv' /\ pc = "scan"
      /\ UNCHANGED <<input, fed, cbSrcLength, cbSrcLengthUsed, out>>
  BY ScanIInv DEF FInv, Scan, call
<1>2. /\ a52_syncinfo(bufptr) /\ bufptr = 0
      /\ First \in Nat \ {0} /\ buf[0] = First
      /\ First + CodeOffset <= Len(input)
      /\ Header(bufptr) = input[First + CodeOffset]
      /\ First + Header(bufptr).size \in Framing(input)
      /\ bufend - bufptr <= Header(bufptr).size
  BY <1>1, HeaderFound
<1>3. CASE ScanPartial
  <2>1. InFrames' /\ Held' /\ BlocksIntact' /\ Current' = Current
    BY <1>1, <1>3, BufferKept DEF ScanPartial, msd
  <2>2. Waiting'
    BY <1>1, <1>3, <2>1 DEF FInv, Waiting, ScanPartial, msd, srcLen
  <2> QED
    BY <1>1, <2>1, <2>2 DEF FInv
<1>4. CASE ScanFrame
  <2>1. /\ Header(0) \in Headers /\ Header(0).size \in Nat
        /\ Header(0).used \in Nat /\ Header(0).used <= Header(0).size
    BY <1>2, HeaderType
  <2>2. bufend = Header(0).size /\ bufend \in Nat /\ fed \in Nat
    BY <1>2, <1>4, <2>1 DEF ScanFrame, FInv, IInv, TypeOK
  <2>3. /\ bufptr' = 0 /\ bufend' = 0 /\ blocks' = BlocksPerFrame
        /\ a52' = [start |-> First, used |-> Header(0).used, base |-> 0]
        /\ pc' = "decode" /\ buf' = buf
        /\ fs' = IF cbSrcLength * 2 - cbSrcLengthUsed < Header(0).size
                 THEN 1 ELSE 0
    BY <1>2, <1>4 DEF ScanFrame
  <2>4. First' = First + Header(0).size /\ First = fed - bufend + 1
    BY <1>1, <1>2, <2>2, <2>3 DEF First
  <2>5. Current' = Header(0)
    BY <1>1, <1>2, <2>3 DEF Current
  <2>6. First \in Framing(input)
    BY DEF FInv, InFrames
  <2>7. InFrames'
    BY <1>1, <1>2, <2>3, <2>4 DEF InFrames
  <2>8. Held'
    <3>1. ASSUME NEW k \in 0..(Header(0).used - 1)
          PROVE  buf[k] = First + k
      BY <2>1, <2>2, <3>1 DEF FInv, InFrames
    <3> HIDE DEF First, Current
    <3> QED
      BY <1>1, <1>2, <2>3, <2>4, <2>5, <2>6, <3>1 DEF Held
  <2>9. Waiting' /\ BlocksIntact'
    BY <1>1, <2>3, <2>5 DEF FInv, BlocksIntact, Waiting
  <2> QED
    BY <1>1, <2>7, <2>8, <2>9 DEF FInv
<1> QED
  BY <1>2, <1>3, <1>4 DEF Scan, ScanNext, ScanLost

\* The blocks of a frame are delivered one after the other; the last may be
\* kept, and then the rest of the source is less than half of the frame.
LEMMA DecodeFInv ==
  ASSUME Aligned, FInv, Decode PROVE FInv'
<1>1. /\ IInv' /\ pc = "decode" /\ bufend = 0 /\ fs \in {0, 1}
      /\ blocks \in Nat
      /\ UNCHANGED <<input, fed, buf, bufptr, bufend, a52,
                     cbSrcLength, cbSrcLengthUsed>>
  <2>1. IInv'
    BY DecodeIInv DEF FInv
  <2>2. pc = "decode" /\ UNCHANGED <<input, fed, buf, bufptr, bufend, a52,
                                   cbSrcLength, cbSrcLengthUsed>>
    BY DEF Decode
  <2>3. blocks \in Nat
    BY DEF FInv, IInv, TypeOK
  <2>4. bufend = 0 /\ fs \in {0, 1}
    BY <2>2 DEF FInv, IInv, Places
  <2> QED
    BY <2>1, <2>2, <2>3, <2>4
<1>2. CASE blocks > fs /\ OutOfSpace /\ UNCHANGED fs
  <2>1. InFrames' /\ Held' /\ BlocksIntact'
    BY <1>1, <1>2, BufferKept DEF OutOfSpace
  <2>2. Waiting'
    BY <1>2 DEF OutOfSpace, Waiting
  <2> QED
    BY <1>1, <2>1, <2>2 DEF FInv
<1>3. CASE blocks > fs /\ DeliverBlock /\ pc' = pc /\ UNCHANGED fs
  <2>1. InFrames' /\ Held' /\ BlocksIntact' /\ blocks' = blocks - 1
    BY <1>1, <1>3, DeliverKeeps
  <2>2. Current' = Current
    BY <1>1 DEF Current
  <2>3. Waiting'
    BY <1>1, <1>3, <2>1, <2>2 DEF FInv, Waiting
  <2> QED
    BY <1>1, <2>1, <2>3 DEF FInv
<1>4. CASE /\ blocks <= fs /\ fs' = Window /\ pc' = "fetch"
           /\ UNCHANGED <<blocks, dstLen, cbDstLengthUsed, out>>
  <2>1. InFrames' /\ Held' /\ BlocksIntact' /\ Current' = Current
    BY <1>1, <1>4, BufferKept
  <2>2. ASSUME blocks > 0
        PROVE  blocks = 1 /\ 2 * (bufend + srcLen) < Current.size
    <3>1. fs = 1 /\ blocks = 1
      BY <1>1, <1>4, <2>2
    <3>2. cbSrcLength * 2 - cbSrcLengthUsed < Current.size
      BY <1>1, <3>1 DEF FInv, Waiting
    <3>3. /\ cbSrcLength \in Nat /\ cbSrcLengthUsed \in Nat
          /\ cbSrcLengthUsed <= cbSrcLength /\ Current.size \in Nat
      BY <2>2, CurrentType DEF FInv, IInv, TypeOK, Accounts
    <3> QED
      BY <1>1, <3>1, <3>2, <3>3 DEF srcLen
  <2>3. Waiting'
    BY <1>1, <1>4, <2>1, <2>2 DEF Waiting, srcLen
  <2> QED
    BY <1>1, <2>1, <2>3 DEF FInv
<1> QED
  BY <1>2, <1>3, <1>4 DEF Decode

\* The bytes of the last block, in a frame that is dense, are in its second half.
LEMMA SecondHalf ==
  ASSUME Dense, input \in Inputs, NEW h \in HeadersIn(input), NEW k \in Nat,
         k * BlocksPerFrame >= (BlocksPerFrame - 1) * h.used
  PROVE  2 * k >= h.size
<1> DEFINE u == (BlocksPerFrame - 1) * h.used
<1>1. h.size \in Nat /\ h.used \in Nat /\ u \in Nat
  BY DEF HeadersIn
<1>2. BlocksPerFrame * h.size <= 2 * u
  BY DEF Dense
<1>3. k * BlocksPerFrame >= u /\ k * BlocksPerFrame \in Nat
  OBVIOUS
<1> HIDE DEF u
<1>4. BlocksPerFrame * h.size <= 2 * (k * BlocksPerFrame)
  <2> DEFINE b == BlocksPerFrame * h.size
             c == k * BlocksPerFrame
  <2>1. b \in Int /\ c \in Nat /\ c >= u /\ b <= 2 * u
    BY <1>1, <1>2, <1>3
  <2> HIDE DEF b, c
  <2>2. b <= 2 * c
    BY <1>1, <2>1
  <2> QED
    BY <2>2 DEF b, c
<1>5. ASSUME 2 * k < h.size PROVE FALSE
  <2> DEFINE m == h.size - 2 * k - 1
  <2>1. m \in Nat /\ h.size = 2 * k + 1 + m
    BY <1>1, <1>5
  <2> HIDE DEF m
  <2>2. BlocksPerFrame * (2 * k + 1 + m)
          = 2 * (k * BlocksPerFrame) + BlocksPerFrame + BlocksPerFrame * m
    BY <2>1
  <2>3. BlocksPerFrame * m \in Nat
    BY <2>1
  <2> QED
    BY <1>3, <1>4, <2>1, <2>2, <2>3
<1> QED
  BY <1>1, <1>5

\* Source bytes are appended; those of a pending block are not overwritten.
LEMMA FetchFInv ==
  ASSUME Aligned, Dense, FInv, Fetch PROVE FInv'
<1>1. /\ IInv' /\ pc = "fetch" /\ fs > 0 /\ bufptr = 0
      /\ UNCHANGED <<input, bufptr, blocks, a52, cbSrcLength, fs, out>>
  BY FetchIInv DEF FInv, IInv, Requested, InFrames, Fetch
<1>2. CASE /\ srcLen <= 0 /\ pc' = "idle"
           /\ UNCHANGED <<fed, buf, bufend, cbSrcLengthUsed>>
  <2>1. InFrames' /\ Held' /\ BlocksIntact'
    BY <1>1, <1>2, BufferKept
  <2>2. Waiting'
    BY <1>2 DEF Waiting
  <2> QED
    BY <1>1, <2>1, <2>2 DEF FInv
<1>3. CASE srcLen > 0
  <2> DEFINE n == IF fs > srcLen THEN srcLen ELSE fs
  <2>1. /\ buf' = [k \in DOMAIN buf |-> IF k \in bufend..(bufend + n - 1)
                                       THEN fed + 1 + k - bufend ELSE buf[k]]
        /\ bufend' = bufend + n
        /\ cbSrcLengthUsed' = cbSrcLengthUsed + n
        /\ fed' = fed + n
        /\ pc' = "top"
    BY <1>3 DEF Fetch, srcLen, FInv, IInv, TypeOK
  <2>2. /\ n \in Nat /\ n > 0 /\ n <= srcLen /\ srcLen \in Nat
        /\ fed \in Nat /\ bufend \in Nat
        /\ cbSrcLength \in Nat /\ cbSrcLengthUsed \in Nat
    BY <1>1, <1>3 DEF FInv, IInv, TypeOK, srcLen
  <2> HIDE DEF n
  <2>3. First' = First /\ First = fed - bufend + 1 /\ Current' = Current
        /\ bufend' + srcLen' = bufend + srcLen
    BY <1>1, <2>1, <2>2 DEF First, Current, srcLen
  <2>4. /\ bufend + n <= BufSize /\ DOMAIN buf = 0..(BufSize - 1)
    BY <1>1, <2>1 DEF FInv, IInv, TypeOK
  <2>5. InFrames'
    <3>1. ASSUME NEW k \in 0..(bufend + n - 1) PROVE buf'[k] = First + k
      <4>1. CASE k < bufend
        <5>1. buf[k] = First + k
          BY <2>2, <4>1 DEF FInv, InFrames
        <5> QED
          BY <2>1, <2>2, <2>4, <4>1, <5>1
      <4>2. CASE k >= bufend
        BY <2>1, <2>2, <2>3, <2>4, <4>2
      <4> QED
        BY <2>2, <4>1, <4>2
    <3>2. First \in Framing(input)
      BY DEF FInv, InFrames
    <3>3. bufptr' = 0 /\ input' = input /\ bufend' = bufend + n
      BY <1>1, <2>1
    <3>4. \A k \in 0..(bufend + n - 1) : buf'[k] = First + k
      BY <3>1
    <3>5. (First \in Framing(input))'
      BY <2>3, <3>2, <3>3
    <3>6. (\A k \in 0..(bufend - 1) : buf[k] = First + k)'
      BY <2>2, <2>3, <3>3, <3>4
    <3> QED
      BY <3>3, <3>5, <3>6 DEF InFrames
  <2>6. ASSUME blocks > 0
        PROVE  blocks = 1 /\ 2 * (bufend + srcLen) < Current.size
    BY <1>1, <2>6 DEF FInv, Waiting
  <2>7. Held'
    <3>1. ASSUME blocks > 0, NEW k \in 0..(a52.used - 1),
                 k * BlocksPerFrame >= (BlocksPerFrame - blocks) * a52.used
          PROVE  buf'[k] = a52.start + k
      <4>1. /\ Current \in Headers /\ Current \in HeadersIn(input)
            /\ input \in Inputs /\ Current.size \in Nat /\ Current.used \in Nat
            /\ Current.used <= Current.size /\ a52.used = Current.used
        BY <3>1, CurrentType DEF FInv, Held, IInv, TypeOK
      <4>2. 2 * k >= Current.size
        BY <2>6, <3>1, <4>1, SecondHalf
      <4>3. k >= bufend + n
        BY <2>2, <2>6, <3>1, <4>1, <4>2
      <4>4. a52.used <= BufSize
        BY <4>1
      <4>5. k \in DOMAIN buf
        BY <2>4, <3>1, <4>1, <4>4
      <4>6. buf'[k] = buf[k]
        BY <2>1, <2>2, <4>3, <4>5
      <4> QED
        BY <3>1, <4>6 DEF FInv, Held
    <3> HIDE DEF Current, First
    <3> QED
      BY <1>1, <2>3, <3>1 DEF FInv, Held
  <2>8. Waiting' /\ BlocksIntact'
    BY <1>1, <2>1, <2>3, <2>6 DEF FInv, BlocksIntact, Waiting
  <2> QED
    BY <1>1, <2>5, <2>7, <2>8 DEF FInv
<1> QED
  BY <1>2, <1>3 DEF Fetch, FInv, IInv, TypeOK, srcLen

\* Every step keeps the invariant, if frame follows frame and all are dense.
LEMMA NextFInv ==
  ASSUME Aligned, Dense, FInv, [Next]_vars PROVE FInv'
<1>1. CASE Step
  BY <1>1, LeftoverFInv, TopFInv, ScanFInv, DecodeFInv, FetchFInv DEF Step
<1>2. CASE Configure \/ UNCHANGED vars
  <2>1. IInv'
    BY NextIInv DEF FInv
  <2>2. InFrames' /\ Held' /\ BlocksIntact' /\ Current' = Current
    BY <1>2, BufferKept DEF Configure, vars, msd
  <2>3. Waiting'
    BY <1>2, <2>2 DEF FInv, Waiting, Configure, vars, msd, call, srcLen
  <2> QED
    BY <2>1, <2>2, <2>3 DEF FInv
<1> QED
  BY <1>1, <1>2, ConvertFInv, ConvertStartFInv DEF Next

\* Although a52_block reads a frame's bytes from a buffer that has been emptied,
\* and that the next call may be filling, it reads what was there when the frame
\* began: a frame's last block is kept only if what is then copied cannot reach
\* it.  A frame of which less than three fifths are used has no such luck.
THEOREM BlocksAreIntact ==
  ASSUME Aligned, Dense
  PROVE  Spec => []BlocksIntact
<1>1. Init => FInv
  BY InitFInv
<1>2. FInv /\ [Next]_vars => FInv'
  BY NextFInv
<1>3. FInv => BlocksIntact
  BY DEF FInv
<1> QED
  BY <1>1, <1>2, <1>3, PTL DEF Spec

------------------------------------------------------------------------------
\* The state of FrameStream that a state of the stream stands for.
Due == IF blocks > 0 THEN a52.start ELSE First
DueBlock == IF blocks > 0 THEN BlocksPerFrame + 1 - blocks ELSE 1
Delivered == [i \in DOMAIN out |-> [start |-> out[i].start, blk |-> out[i].blk,
                                    intact |-> out[i].intact]]

\* One more block for the client is one more for the abstract stream.
LEMMA DeliveredAppend ==
  ASSUME NEW E, out \in Seq(E), NEW b \in E, out' = Append(out, b)
  PROVE  Delivered' = Append(Delivered, [start |-> b.start, blk |-> b.blk,
                                         intact |-> b.intact])
<1> DEFINE r == [start |-> b.start, blk |-> b.blk, intact |-> b.intact]
           R == {r} \union {Delivered[i] : i \in 1..Len(out)}
<1>1. /\ Len(out) \in Nat /\ DOMAIN out = 1..Len(out)
      /\ DOMAIN out' = 1..(Len(out) + 1)
      /\ out'[Len(out) + 1] = b
      /\ \A i \in 1..Len(out) : out'[i] = out[i]
  OBVIOUS
<1>2. /\ Delivered \in [1..Len(out) -> R]
      /\ \A i \in 1..Len(out) :
           Delivered[i] = [start |-> out[i].start, blk |-> out[i].blk,
                           intact |-> out[i].intact]
  BY <1>1 DEF Delivered
<1>3. /\ DOMAIN Delivered' = 1..(Len(out) + 1)
      /\ Delivered' = [i \in 1..(Len(out) + 1) |-> Delivered'[i]]
      /\ Delivered'[Len(out) + 1] = r
      /\ \A i \in 1..Len(out) : Delivered'[i] = Delivered[i]
  BY <1>1, <1>2 DEF Delivered
<1> HIDE DEF r, R, Delivered
<1>4. Delivered \in Seq(R) /\ Len(Delivered) = Len(out)
  BY <1>1, <1>2
<1>5. r \in R
  BY DEF R
<1>6. /\ Append(Delivered, r) \in Seq(R)
      /\ Len(Append(Delivered, r)) = Len(out) + 1
      /\ Append(Delivered, r)[Len(out) + 1] = r
      /\ \A i \in 1..Len(out) : Append(Delivered, r)[i] = Delivered[i]
  BY <1>1, <1>4, <1>5
<1>7. Append(Delivered, r) = [i \in 1..(Len(out) + 1) |-> Append(Delivered, r)[i]]
  <2> DEFINE a == Append(Delivered, r)
  <2>1. a \in Seq(R) /\ Len(a) = Len(out) + 1
    BY <1>6
  <2> HIDE DEF a
  <2>2. a \in [1..(Len(out) + 1) -> R]
    BY <2>1, LenProperties
  <2>3. a = [i \in 1..(Len(out) + 1) |-> a[i]]
    BY <2>2
  <2> QED
    BY <2>3 DEF a
<1>8. \A i \in 1..(Len(out) + 1) : Delivered'[i] = Append(Delivered, r)[i]
  BY <1>1, <1>3, <1>6
<1>9. Delivered' = Append(Delivered, r)
  BY <1>3, <1>7, <1>8
<1> QED
  BY <1>9 DEF r

\* The decoding of a block is FrameStream's delivery of the block that is due.
LEMMA DeliverRefines ==
  ASSUME Aligned, FInv, blocks > 0, DeliverBlock,
         UNCHANGED <<input, fed, bufptr, bufend, a52>>
  PROVE  Frames!Next
<1>1. /\ blocks \in 1..BlocksPerFrame /\ blocks' = blocks - 1
      /\ out' = Append(out, DecodedBlock(blocks))
  BY DEF DeliverBlock, FInv, IInv, TypeOK
<1>2. /\ Current \in Headers /\ Current.size \in Nat
      /\ a52.start \in Nat \ {0} /\ input[a52.start] = SYNC
      /\ a52.start + CodeOffset <= Len(input)
      /\ First = a52.start + Current.size /\ First' = First
      /\ Current' = Current
  BY CurrentType DEF FInv, Held, First, Current
<1>3. First <= Len(input) + 1 /\ Len(input) \in Nat
  BY DEF FInv, IInv, TypeOK, InFrames, First
<1>4. Frames!FrameAt(a52.start)
  <2>1. a52.start + Current.size - 1 <= Len(input)
    BY <1>2, <1>3
  <2> QED
    BY <1>2, <2>1 DEF Frames!FrameAt, Current
<1>5. Delivered' = Append(Delivered, [start |-> a52.start, blk |-> DueBlock,
                                      intact |-> TRUE])
  <2>1. /\ DecodedBlock(blocks).start = a52.start
        /\ DecodedBlock(blocks).blk = DueBlock
        /\ DecodedBlock(blocks).intact = TRUE
    BY BlockIntact DEF DueBlock
  <2>2. DecodedBlock(blocks) \in
          [start : 0..Len(input), blk : 1..BlocksPerFrame,
           mode : Modes, intact : BOOLEAN]
    BY DecodedBlockType DEF FInv, IInv
  <2>3. out \in Seq([start : 0..Len(input), blk : 1..BlocksPerFrame,
                     mode : Modes, intact : BOOLEAN])
    BY DEF FInv, IInv, TypeOK
  <2> QED
    BY <1>1, <2>1, <2>2, <2>3, DeliveredAppend
<1>6. Due = a52.start /\ DueBlock = BlocksPerFrame + 1 - blocks
  BY <1>1 DEF Due, DueBlock
<1>7. CASE blocks > 1
  <2>1. Due' = Due /\ DueBlock' = DueBlock + 1 /\ DueBlock < BlocksPerFrame
    BY <1>1, <1>6, <1>7 DEF Due, DueBlock
  <2> QED
    BY <1>4, <1>5, <1>6, <2>1
       DEF Frames!Next, Frames!Deliver, Due, DueBlock, First, Delivered
<1>8. CASE blocks = 1
  <2>1. /\ Due' = Due + input[Due + CodeOffset].size /\ DueBlock' = 1
        /\ ~(DueBlock < BlocksPerFrame)
    BY <1>1, <1>2, <1>6, <1>8 DEF Due, DueBlock, Current
  <2> QED
    BY <1>4, <1>5, <1>6, <2>1
       DEF Frames!Next, Frames!Deliver, Due, DueBlock, First, Delivered
<1> QED
  BY <1>1, <1>7, <1>8

\* Every step of the stream is a step of FrameStream, or is not seen there.
LEMMA NextRefines ==
  ASSUME Aligned, FInv, NoBlockDropped, [Next]_vars
  PROVE  [Frames!Next]_(Frames!vars)
<1> DEFINE Stutters == UNCHANGED <<input, Due, DueBlock, Delivered>>
<1>1. Stutters => UNCHANGED Frames!vars
  BY DEF Frames!vars, Due, DueBlock, First, Delivered
<1>2. ASSUME UNCHANGED <<input, fed, bufptr, bufend, blocks, a52, out>>
      PROVE  Stutters
  BY <1>2 DEF Due, DueBlock, First, Delivered
<1>3. ASSUME NEW n \in SrcSizes, NEW d \in DstSizes, ConvertStart(n, d)
      PROVE  Frames!Next
  <2>1. /\ Due' = 1 /\ DueBlock' = 1 /\ Delivered' = <<>> /\ input' = input
    BY <1>3 DEF ConvertStart, Due, DueBlock, First, Delivered
  <2> QED
    BY <2>1 DEF Frames!Next, Frames!Restart, Due, DueBlock, First, Delivered
<1>4. CASE Leftover
  <2>1. blocks > 0
    BY <1>4 DEF FInv, IInv, Places, Leftover
  <2> QED
    BY <1>1, <1>2, <1>4, <2>1, DeliverRefines DEF Leftover, OutOfSpace
<1>5. CASE Decode
  <2>1. blocks > fs => blocks > 0
    BY <1>5 DEF Decode, FInv, IInv, TypeOK, Places
  <2> QED
    BY <1>1, <1>2, <1>5, <2>1, DeliverRefines DEF Decode, OutOfSpace
<1>6. CASE Scan
  <2>1. /\ a52_syncinfo(bufptr) /\ bufptr = 0 /\ buf[0] = First
        /\ bufend - bufptr <= Header(bufptr).size
    BY <1>6, HeaderFound DEF Scan
  <2>2. CASE ScanPartial
    BY <1>1, <1>2, <1>6, <2>2 DEF Scan, ScanPartial, msd
  <2>3. CASE ScanFrame
    <3>1. blocks = 0
      BY <1>6, <2>1, <2>3 DEF NoBlockDropped, Scan, ScanFrame
    <3>2. /\ blocks' = BlocksPerFrame /\ a52'.start = First
          /\ UNCHANGED <<input, out>>
      BY <1>6, <2>1, <2>3 DEF Scan, ScanFrame
    <3>3. Due = First /\ Due' = First /\ DueBlock = 1 /\ DueBlock' = 1
      BY <3>1, <3>2 DEF Due, DueBlock
    <3>4. Delivered' = Delivered
      BY <3>2 DEF Delivered
    <3> QED
      BY <1>1, <3>2, <3>3, <3>4
  <2> QED
    BY <1>6, <2>1, <2>2, <2>3 DEF Scan, ScanNext, ScanLost
<1>7. CASE Fetch
  <2>1. /\ fed' - (bufend' - bufptr') = fed - (bufend - bufptr)
        /\ UNCHANGED <<input, blocks, a52, out>>
    BY <1>7 DEF Fetch, FInv, IInv, TypeOK, srcLen
  <2> QED
    BY <1>1, <2>1 DEF Due, DueBlock, First, Delivered
<1>8. CASE (\E n \in SrcSizes, d \in DstSizes : Convert(n, d)) \/ Top
           \/ Configure \/ UNCHANGED vars
  BY <1>1, <1>2, <1>8 DEF Convert, Top, Configure, vars, msd
<1> QED
  BY <1>3, <1>4, <1>5, <1>6, <1>7, <1>8 DEF Next, Step

\* The stream implements FrameStream, if its frames follow each other, are dense
\* and equally long: how the client cuts up the input, and how small its
\* destination buffers are, does not show.
THEOREM Implements ==
  ASSUME Aligned, Dense, Uniform
  PROVE  Spec => ImplementsFrameStream
<1>1. Init => FInv /\ Frames!Init
  <2>1. Init => Due = 1 /\ DueBlock = 1 /\ Delivered = <<>>
    BY DEF Init, Due, DueBlock, First, Delivered
  <2>2. Init => Frames!Init
    BY <2>1 DEF Frames!Init, Due, DueBlock, First, Delivered
  <2> QED
    BY <2>2, InitFInv
<1>2. FInv /\ [Next]_vars => FInv'
  BY NextFInv
<1>3. FInv /\ NoBlockDropped /\ [Next]_vars => [Frames!Next]_(Frames!vars)
  BY NextRefines
<1>4. Spec => []NoBlockDropped
  BY NoBlockIsDropped
<1> QED
  BY <1>1, <1>2, <1>3, <1>4, PTL DEF Spec, ImplementsFrameStream, Frames!Spec
==============================================================================
