--------------------------- MODULE AC3Driver_proofs ---------------------------
(***************************************************************************)
(* What holds of driver instances and their streams for any number of      *)
(* instances, streams and blocks of memory, and any formats and settings.  *)
(***************************************************************************)
EXTENDS AC3Driver, FiniteSetTheorems, TLAPS

\* The conversion that stream s was opened for.
Purpose(s) == Conversion(si[s].src, si[s].dst, si[s].asked)

\* A stream has the data its purpose needs; a closed one has none.
DataFits ==
  \A s \in Streams :
    LET b == si[s].dwDriver IN
    IF si[s].open
    THEN \/ Purpose(s) = "copy" /\ b = NULL
         \/ Purpose(s) = "decode" /\ b # NULL /\ memory[b].kind = "decoder"
         \/ Purpose(s) = "encode" /\ b # NULL /\ memory[b].kind = "encoder"
    ELSE b = NULL

\* No two streams have the same block, and a block in use has an owner.
OneOwner ==
  /\ \A s, t \in Streams :
       si[s].dwDriver = si[t].dwDriver /\ si[s].dwDriver # NULL => s = t
  /\ \A b \in Blocks :
       /\ memory[b].kind = "none" <=> ~memory[b].used
       /\ memory[b].kind \in {"encoder", "decoder"} =>
            \E s \in Streams : si[s].dwDriver = b

\* TypeOK without latest and the reply.
Types ==
  /\ registry \in SUBSET Flags
  /\ md \in [Drivers -> [open : BOOLEAN, dwFlags : SUBSET Flags]]
  /\ si \in [Streams -> [open : BOOLEAN, driver : Drivers, src : Formats,
                         dst : Formats, dwDriver : Blocks \union {NULL},
                         asked : SUBSET Flags]]
  /\ memory \in [Blocks -> [used : BOOLEAN,
                            kind : {"none", "encoder", "decoder", "failed"}]]
  /\ enc \in [ch : 0..6, rate : Nat, kbps : Nat]

IInv == Types /\ DataFits /\ OneOwner

USE FormatsAssumption, SettingsAssumption, NullAssumption, InstancesAssumption

\* Whatever the flags, a pair of formats has one conversion, or none.
LEMMA ConversionAgrees ==
  ASSUME NEW src, NEW dst, NEW a, NEW b,
         Conversion(src, dst, a) # "none", Conversion(src, dst, b) # "none"
  PROVE  Conversion(src, dst, a) = Conversion(src, dst, b)
  BY DEF Conversion, IsValidPCM, IsValidPCMEX, IsValidAC3, IsValidAC3EX

\* The kinds of conversion.
LEMMA ConversionType ==
  ASSUME NEW src, NEW dst, NEW a
  PROVE  Conversion(src, dst, a) \in {"encode", "decode", "copy", "none"}
  BY DEF Conversion

\* The initial state satisfies the invariant.
LEMMA InitIInv == Init => IInv
<1> SUFFICES ASSUME Init PROVE IInv
  OBVIOUS
<1>1. AnyDriver \in Drivers /\ AnyFormat \in Formats
  BY DEF AnyDriver, AnyFormat
<1>2. Types
  BY <1>1 DEF Init, Types, Closed, Free
<1>3. DataFits
  BY DEF Init, DataFits, Closed
<1>4. OneOwner
  BY DEF Init, OneOwner, Closed, Free
<1> QED
  BY <1>2, <1>3, <1>4 DEF IInv

\* A stream_open that is refused, for whatever reason, without memory.
LEMMA RefuseIInv ==
  ASSUME IInv, NEW rc, Refuse(rc), UNCHANGED <<registry, md, memory>>,
         enc' \in [ch : 0..6, rate : Nat, kbps : Nat]
  PROVE  IInv'
  BY DEF IInv, Types, DataFits, OneOwner, Refuse, Purpose

\* What AC3_encode_init stores has the type of its settings.
LEMMA StoredType ==
  ASSUME Types, NEW src \in Formats, NEW dst \in Formats
  PROVE  Stored(src.rate, dst.kbps, src.ch) \in [ch : 0..6, rate : Nat, kbps : Nat]
<1>1. Rates \subseteq Nat
  BY DEF Rates, Freqs
<1>2. src.ch \in 1..6 /\ src.rate \in Rates /\ dst.kbps \in Nat
  OBVIOUS
<1>3. src.ch \in 0..6 /\ src.rate \in Nat
  <2>1. \A i \in 1..6 : i \in 0..6
    OBVIOUS
  <2> QED
    BY <1>1, <1>2, <2>1
<1>4. enc.kbps \in Nat
  BY DEF Types
<1> QED
  BY <1>2, <1>3, <1>4 DEF Stored

\* A stream that was closed is opened on a block that was free.
LEMMA EstablishIInv ==
  ASSUME IInv, NEW s \in Streams, NEW d \in Drivers,
         NEW src \in Formats, NEW dst \in Formats,
         ~si[s].open, NEW b \in Blocks, ~memory[b].used,
         NEW kind \in {"encoder", "decoder"},
         \/ kind = "encoder" /\ Conversion(src, dst, md[d].dwFlags) = "encode"
         \/ kind = "decoder" /\ Conversion(src, dst, md[d].dwFlags) = "decode",
         Allocate(b, kind), Establish(s, d, src, dst, b),
         UNCHANGED <<registry, md>>,
         enc' \in [ch : 0..6, rate : Nat, kbps : Nat]
  PROVE  IInv'
<1> DEFINE opened == [open |-> TRUE, driver |-> d, src |-> src, dst |-> dst,
                      dwDriver |-> b, asked |-> md[d].dwFlags]
           given == [used |-> TRUE, kind |-> kind]
<1>1. /\ si' = [si EXCEPT ![s] = opened]
      /\ memory' = [memory EXCEPT ![b] = given]
  BY DEF Allocate, Establish
<1>2. /\ opened \in [open : BOOLEAN, driver : Drivers, src : Formats,
                     dst : Formats, dwDriver : Blocks \union {NULL},
                     asked : SUBSET Flags]
      /\ given \in [used : BOOLEAN,
                    kind : {"none", "encoder", "decoder", "failed"}]
  <2>1. md[d].dwFlags \in SUBSET Flags
    BY DEF IInv, Types
  <2> QED
    BY <2>1
<1>3. Types'
  <2> HIDE DEF opened, given
  <2> QED
    BY <1>1, <1>2 DEF IInv, Types
<1>4. /\ si'[s] = opened /\ memory'[b] = given
      /\ \A t \in Streams \ {s} : si'[t] = si[t]
      /\ \A e \in Blocks \ {b} : memory'[e] = memory[e]
  BY <1>1 DEF IInv, Types
<1>5. \A t \in Streams : si[t].dwDriver # b
  BY DEF IInv, DataFits, OneOwner
<1>6. b # NULL
  OBVIOUS
<1>7. DataFits'
  <2> SUFFICES ASSUME NEW t \in Streams
               PROVE  LET e == si'[t].dwDriver IN
                      IF si'[t].open
                      THEN \/ Purpose(t)' = "copy" /\ e = NULL
                           \/ /\ Purpose(t)' = "decode" /\ e # NULL
                              /\ memory'[e].kind = "decoder"
                           \/ /\ Purpose(t)' = "encode" /\ e # NULL
                              /\ memory'[e].kind = "encoder"
                      ELSE e = NULL
    BY DEF DataFits
  <2>1. CASE t = s
    BY <2>1, <1>4, <1>6 DEF Purpose
  <2>2. CASE t # s
    <3>1. si'[t] = si[t] /\ Purpose(t)' = Purpose(t)
      BY <2>2, <1>4 DEF Purpose
    <3>2. si[t].dwDriver # NULL =>
            memory'[si[t].dwDriver] = memory[si[t].dwDriver]
      BY <1>4, <1>5 DEF IInv, Types
    <3> QED
      BY <3>1, <3>2 DEF IInv, DataFits
  <2> QED
    BY <2>1, <2>2
<1>8. OneOwner'
  <2>1. \A t, u \in Streams :
          si'[t].dwDriver = si'[u].dwDriver /\ si'[t].dwDriver # NULL => t = u
    BY <1>4, <1>5 DEF IInv, OneOwner
  <2>2. \A e \in Blocks : memory'[e].kind = "none" <=> ~memory'[e].used
    BY <1>4 DEF IInv, OneOwner
  <2>3. ASSUME NEW e \in Blocks, memory'[e].kind \in {"encoder", "decoder"}
        PROVE  \E t \in Streams : si'[t].dwDriver = e
    <3>1. CASE e = b
      BY <3>1, <1>4
    <3>2. CASE e # b
      <4>1. PICK t \in Streams : si[t].dwDriver = e
        BY <3>2, <2>3, <1>4 DEF IInv, OneOwner
      <4>2. t # s
        BY <4>1 DEF IInv, DataFits
      <4> QED
        BY <4>1, <4>2, <1>4
    <3> QED
      BY <3>1, <3>2
  <2> QED
    BY <2>1, <2>2, <2>3 DEF OneOwner
<1> QED
  BY <1>3, <1>7, <1>8 DEF IInv

\* stream_open keeps the invariant: it fails, with its memory allocated or
\* not, or a stream is opened with its block or, a copier, without one.
LEMMA OpenIInv ==
  ASSUME IInv, NEW s \in Streams, NEW d \in Drivers,
         NEW src \in Formats, NEW dst \in Formats, stream_open(s, d, src, dst)
  PROVE  IInv'
<1> USE DEF stream_open
<1>1. ~si[s].open
  OBVIOUS
<1>2. enc \in [ch : 0..6, rate : Nat, kbps : Nat]
  BY DEF IInv, Types
<1>3. CASE ~Accepts(src, dst, md[d].dwFlags)
  BY <1>2, <1>3, RefuseIInv
<1>4. CASE OpenEncoder(s, d, src, dst)
  <2>1. enc' \in [ch : 0..6, rate : Nat, kbps : Nat]
    BY <1>4, StoredType DEF OpenEncoder, IInv
  <2>2. CASE \E rc : Refuse(rc) /\ UNCHANGED memory
    BY <2>1, <2>2, RefuseIInv
  <2>3. CASE \E b \in Blocks : /\ ~memory[b].used
                              /\ Allocate(b, "encoder")
                              /\ Establish(s, d, src, dst, b)
    <3>1. PICK b \in Blocks : /\ ~memory[b].used
                             /\ Allocate(b, "encoder")
                             /\ Establish(s, d, src, dst, b)
      BY <2>3
    <3>2. Conversion(src, dst, md[d].dwFlags) = "encode"
      BY <1>4 DEF OpenEncoder
    <3> QED
      BY <1>1, <2>1, <3>1, <3>2, EstablishIInv
  <2> QED
    BY <1>4, <2>2, <2>3 DEF OpenEncoder
<1>5. CASE OpenDecoder(s, d, src, dst)
  <2>1. CASE \E rc : Refuse(rc) /\ UNCHANGED memory
    BY <1>2, <1>5, <2>1, RefuseIInv DEF OpenDecoder
  <2>2. CASE \E b \in Blocks : /\ ~memory[b].used
                              /\ Allocate(b, "decoder")
                              /\ Establish(s, d, src, dst, b)
    <3>1. PICK b \in Blocks : /\ ~memory[b].used
                             /\ Allocate(b, "decoder")
                             /\ Establish(s, d, src, dst, b)
      BY <2>2
    <3>2. /\ Conversion(src, dst, md[d].dwFlags) = "decode"
          /\ enc' \in [ch : 0..6, rate : Nat, kbps : Nat]
      BY <1>2, <1>5 DEF OpenDecoder
    <3> QED
      BY <1>1, <3>1, <3>2, EstablishIInv
  <2>3. ASSUME NEW b \in Blocks, ~memory[b].used,
               Allocate(b, "failed"), NEW rc, Refuse(rc)
        PROVE  IInv'
    <3>1. \A t \in Streams : si[t].dwDriver # b
      BY <2>3 DEF IInv, DataFits, OneOwner
    <3>2. /\ memory' \in [Blocks -> [used : BOOLEAN,
                          kind : {"none", "encoder", "decoder", "failed"}]]
          /\ memory'[b].used /\ memory'[b].kind = "failed"
          /\ \A e \in Blocks \ {b} : memory'[e] = memory[e]
      BY <2>3 DEF Allocate, IInv, Types
    <3>3. UNCHANGED <<registry, md, si, enc>>
      BY <1>5, <2>3 DEF OpenDecoder, Refuse
    <3>4. Types'
      BY <3>2, <3>3 DEF IInv, Types
    <3>5. DataFits'
      <4>1. \A t \in Streams : si[t].dwDriver # NULL =>
              memory'[si[t].dwDriver] = memory[si[t].dwDriver]
        BY <3>1, <3>2 DEF IInv, Types
      <4> QED
        BY <3>3, <4>1 DEF IInv, DataFits, Purpose
    <3>6. OneOwner'
      BY <3>2, <3>3 DEF IInv, OneOwner
    <3> QED
      BY <3>4, <3>5, <3>6 DEF IInv
  <2> QED
    BY <1>5, <2>1, <2>2, <2>3 DEF OpenDecoder
<1>6. CASE OpenCopier(s, d, src, dst)
  <2> DEFINE opened == [open |-> TRUE, driver |-> d, src |-> src, dst |-> dst,
                        dwDriver |-> NULL, asked |-> md[d].dwFlags]
  <2>1. /\ si' = [si EXCEPT ![s] = opened]
        /\ UNCHANGED <<registry, md, memory, enc>>
    BY <1>6 DEF OpenCopier, Establish
  <2>2. opened \in [open : BOOLEAN, driver : Drivers, src : Formats,
                    dst : Formats, dwDriver : Blocks \union {NULL},
                    asked : SUBSET Flags]
    BY DEF IInv, Types
  <2>3. Types'
    <3> HIDE DEF opened
    <3> QED
      BY <2>1, <2>2 DEF IInv, Types
  <2>4. /\ si'[s] = opened
        /\ \A t \in Streams \ {s} : si'[t] = si[t]
    BY <2>1 DEF IInv, Types
  <2>5. DataFits'
    BY <1>6, <2>1, <2>4 DEF IInv, DataFits, Purpose, OpenCopier
  <2>6. OneOwner'
    <3>1. si[s].dwDriver = NULL
      BY <1>1 DEF IInv, DataFits
    <3> QED
      BY <2>1, <2>4, <3>1 DEF IInv, OneOwner
  <2> QED
    BY <2>3, <2>5, <2>6 DEF IInv
<1> QED
  BY <1>3, <1>4, <1>5, <1>6

\* stream_convert changes nothing of the driver's.
LEMMA StreamConvertIInv ==
  ASSUME IInv, NEW s \in Streams, stream_convert(s)
  PROVE  IInv'
<1>1. UNCHANGED <<registry, md, si, memory, enc>>
  BY DEF stream_convert
<1> QED
  BY <1>1 DEF IInv, Types, DataFits, OneOwner, Purpose

\* stream_close frees the stream's block, which no other stream has.
LEMMA CloseIInv ==
  ASSUME IInv, NEW s \in Streams, stream_close(s)
  PROVE  IInv'
<1> USE DEF stream_close
<1>1. AnyDriver \in Drivers /\ AnyFormat \in Formats
  BY DEF AnyDriver, AnyFormat
<1>2. Closed \in [open : BOOLEAN, driver : Drivers, src : Formats,
                  dst : Formats, dwDriver : Blocks \union {NULL},
                  asked : SUBSET Flags]
  BY <1>1 DEF Closed
<1>3. /\ si'[s] = Closed
      /\ \A t \in Streams \ {s} : si'[t] = si[t]
      /\ si' \in [Streams -> [open : BOOLEAN, driver : Drivers, src : Formats,
                  dst : Formats, dwDriver : Blocks \union {NULL},
                  asked : SUBSET Flags]]
  <2> HIDE DEF Closed
  <2> QED
    BY <1>2 DEF IInv, Types
<1>4. /\ memory' \in [Blocks -> [used : BOOLEAN,
                        kind : {"none", "encoder", "decoder", "failed"}]]
      /\ \A b \in Blocks : memory'[b] = IF b = si[s].dwDriver THEN Free
                                        ELSE memory[b]
  BY DEF IInv, Types, Free
<1>5. Types'
  BY <1>3, <1>4 DEF IInv, Types
<1>6. ASSUME NEW t \in Streams, t # s, si[t].dwDriver # NULL
      PROVE  si[t].dwDriver # si[s].dwDriver
  BY <1>6 DEF IInv, OneOwner
<1>7. DataFits'
  <2>1. ASSUME NEW t \in Streams, t # s, si[t].dwDriver # NULL
        PROVE  memory'[si[t].dwDriver] = memory[si[t].dwDriver]
    BY <1>4, <1>6, <2>1 DEF IInv, Types
  <2>2. si'[s].open = FALSE /\ si'[s].dwDriver = NULL
    BY <1>3 DEF Closed
  <2> QED
    BY <1>3, <2>1, <2>2 DEF IInv, DataFits, Purpose
<1>8. OneOwner'
  <2>1. si'[s].dwDriver = NULL
    BY <1>3 DEF Closed
  <2>2. Free.kind = "none" /\ Free.used = FALSE
    BY DEF Free
  <2> HIDE DEF stream_close
  <2>3. \A t, u \in Streams :
          si'[t].dwDriver = si'[u].dwDriver /\ si'[t].dwDriver # NULL => t = u
    <3>1. \A v \in Streams : v # s => si'[v] = si[v]
      BY <1>3
    <3>2. \A t, u \in Streams :
            si[t].dwDriver = si[u].dwDriver /\ si[t].dwDriver # NULL => t = u
      BY DEF IInv, OneOwner
    <3> QED
      BY <2>1, <3>1, <3>2
  <2>4. \A e \in Blocks : memory'[e].kind = "none" <=> ~memory'[e].used
    BY <1>4, <2>2 DEF IInv, OneOwner
  <2>5. ASSUME NEW e \in Blocks, memory'[e].kind \in {"encoder", "decoder"}
        PROVE  \E t \in Streams : si'[t].dwDriver = e
    <3>1. e # si[s].dwDriver /\ memory'[e] = memory[e]
      BY <1>4, <2>2, <2>5
    <3>2. PICK t \in Streams : si[t].dwDriver = e
      BY <2>5, <3>1 DEF IInv, OneOwner
    <3> QED
      BY <1>3, <3>1, <3>2
  <2> QED
    BY <2>3, <2>4, <2>5 DEF OneOwner
<1> QED
  BY <1>5, <1>7, <1>8 DEF IInv

\* The messages that leave streams and memory alone.
LEMMA DriverIInv ==
  ASSUME IInv, UNCHANGED <<si, memory, enc>>,
         registry' \in SUBSET Flags,
         md' \in [Drivers -> [open : BOOLEAN, dwFlags : SUBSET Flags]]
  PROVE  IInv'
  BY DEF IInv, Types, DataFits, OneOwner, Purpose

\* Every step keeps the invariant.
LEMMA NextIInv == IInv /\ [Next]_vars => IInv'
<1> SUFFICES ASSUME IInv, [Next]_vars PROVE IInv'
  OBVIOUS
<1>1. /\ registry \in SUBSET Flags
      /\ md \in [Drivers -> [open : BOOLEAN, dwFlags : SUBSET Flags]]
  BY DEF IInv, Types
<1>2. CASE UNCHANGED vars
  BY <1>1, <1>2, DriverIInv DEF vars
<1>3. ASSUME NEW d \in Drivers, drv_open(d) PROVE IInv'
  BY <1>1, <1>3, DriverIInv DEF drv_open
<1>4. ASSUME NEW d \in Drivers, drv_close(d) PROVE IInv'
  BY <1>1, <1>4, DriverIInv DEF drv_close
<1>5. ASSUME NEW d \in Drivers, NEW flags \in Settings, drv_configure(d, flags)
      PROVE  IInv'
  BY <1>1, <1>5, DriverIInv DEF drv_configure
<1>6. ASSUME NEW d \in Drivers, NEW src \in Formats, NEW dst \in Formats,
             stream_query(d, src, dst)
      PROVE  IInv'
  BY <1>1, <1>6, DriverIInv DEF stream_query
<1>7. ASSUME NEW s \in Streams, stream_size(s) PROVE IInv'
  BY <1>1, <1>7, DriverIInv DEF stream_size
<1> QED
  BY <1>2, <1>3, <1>4, <1>5, <1>6, <1>7, OpenIInv, StreamConvertIInv, CloseIInv
     DEF Next

\* The strengthening holds in every reachable state.
THEOREM Invariance == Spec => []IInv
  BY InitIInv, NextIInv, PTL DEF Spec

\* Every message is answered by a code.
LEMMA ReplyType ==
  ASSUME Next PROVE reply'.rc \in Codes
<1>1. \A msg, rc : Answer(msg, rc).rc = rc
  BY DEF Answer
<1>2. ASSUME NEW s \in Streams, stream_convert(s)
      PROVE  reply'.rc \in Codes
  BY <1>1, <1>2 DEF stream_convert, Codes
<1>3. ASSUME NEW s \in Streams, NEW d \in Drivers, NEW src \in Formats,
             NEW dst \in Formats, stream_open(s, d, src, dst)
      PROVE  reply'.rc \in Codes
  <2>1. (\E rc \in Codes : Refuse(rc)) \/ (\E b : Establish(s, d, src, dst, b))
    BY <1>3 DEF stream_open, OpenEncoder, OpenDecoder, OpenCopier, Codes
  <2>2. "OK" \in Codes
    BY DEF Codes
  <2> QED
    BY <1>1, <2>1, <2>2 DEF Refuse, Establish
<1> QED
  BY <1>1, <1>2, <1>3
     DEF Codes, Next, drv_open, drv_close, drv_configure, stream_query, stream_size,
         stream_close

\* AC3_encode_init is called for a stream, or for none that is opened.
LEMMA LatestType ==
  ASSUME latest \in Streams \union {NULL}, Next
  PROVE  latest' \in Streams \union {NULL}
<1>1. ASSUME NEW s \in Streams, NEW d \in Drivers, NEW src \in Formats,
             NEW dst \in Formats, stream_open(s, d, src, dst)
      PROVE  latest' \in Streams \union {NULL}
  BY <1>1 DEF stream_open, OpenEncoder, OpenDecoder, OpenCopier
<1>2. ASSUME NEW s \in Streams, stream_close(s)
      PROVE  latest' \in Streams \union {NULL}
  BY <1>2 DEF stream_close
<1> QED
  BY <1>1, <1>2 DEF Next, drv_open, drv_close, drv_configure, stream_query, stream_size,
                    stream_convert

\* Every variable keeps its type.
THEOREM TypeCorrect == Spec => []TypeOK
<1>1. Init => TypeOK
  <2>1. Init => reply.rc \in Codes /\ latest \in Streams \union {NULL}
    BY DEF Init, Answer, Codes
  <2> QED
    BY <2>1, InitIInv DEF IInv, Types, TypeOK
<1>2. IInv /\ TypeOK /\ [Next]_vars => TypeOK'
  <2> SUFFICES ASSUME IInv, TypeOK, [Next]_vars PROVE TypeOK'
    OBVIOUS
  <2>1. reply'.rc \in Codes /\ latest' \in Streams \union {NULL}
    BY ReplyType, LatestType DEF TypeOK, vars
  <2>2. Types'
    BY NextIInv DEF IInv
  <2> QED
    BY <2>1, <2>2 DEF Types, TypeOK
<1> QED
  BY <1>1, <1>2, Invariance, PTL DEF Spec

\* stream_convert never hands a routine the data of another, although the
\* dialog may change the flags it chooses by: a pair of formats has one
\* conversion, and the dialog can only take it away.
THEOREM DispatchMatches == Spec => []DispatchMatchesOpen
<1>1. IInv => DispatchMatchesOpen
  <2> SUFFICES ASSUME IInv, NEW s \in Opened
               PROVE  LET b == si[s].dwDriver IN
                      CASE Routine(s) = "decode" ->
                             b # NULL /\ memory[b].kind = "decoder"
                        [] Routine(s) = "encode" ->
                             b # NULL /\ memory[b].kind = "encoder"
                        [] Routine(s) = "copy"   -> b = NULL
                        [] Routine(s) = "none"   -> TRUE
    BY DEF DispatchMatchesOpen
  <2>1. s \in Streams /\ si[s].open
    BY DEF Opened
  <2>2. \/ Purpose(s) = "copy" /\ si[s].dwDriver = NULL
        \/ /\ Purpose(s) = "decode" /\ si[s].dwDriver # NULL
           /\ memory[si[s].dwDriver].kind = "decoder"
        \/ /\ Purpose(s) = "encode" /\ si[s].dwDriver # NULL
           /\ memory[si[s].dwDriver].kind = "encoder"
    BY <2>1 DEF IInv, DataFits
  <2>3. Routine(s) # "none" => Routine(s) = Purpose(s)
    BY <2>2, ConversionAgrees DEF Routine, Purpose
  <2>4. Routine(s) \in {"encode", "decode", "copy", "none"}
    BY ConversionType DEF Routine
  <2> QED
    BY <2>2, <2>3, <2>4
<1> QED
  BY <1>1, Invariance, PTL

\* Blocks of memory and open streams belong to each other one to one, but for
\* copiers, which have none, and for what a failing a52_init leaves behind.
THEOREM BlocksAreOwned == Spec => []BlocksOwned
<1>1. IInv => BlocksOwned
  <2> SUFFICES ASSUME IInv, NEW b \in Blocks
               PROVE  LET owners == {s \in Streams : si[s].dwDriver = b} IN
                      /\ owners \subseteq Opened
                      /\ IF memory[b].used /\ memory[b].kind # "failed"
                         THEN Cardinality(owners) = 1 ELSE owners = {}
    BY DEF BlocksOwned
  <2> DEFINE owners == {s \in Streams : si[s].dwDriver = b}
  <2>1. b # NULL
    OBVIOUS
  <2>2. \A s \in owners : /\ si[s].open
                          /\ memory[b].kind \in {"encoder", "decoder"}
    BY <2>1 DEF IInv, DataFits
  <2>3. owners \subseteq Opened
    BY <2>2 DEF Opened
  <2>4. memory[b].kind = "none" <=> ~memory[b].used
    BY DEF IInv, OneOwner
  <2>5. CASE memory[b].used /\ memory[b].kind # "failed"
    <3>1. memory[b].kind \in {"encoder", "decoder"}
      BY <2>4, <2>5 DEF IInv, Types
    <3>2. PICK s \in Streams : si[s].dwDriver = b
      BY <3>1 DEF IInv, OneOwner
    <3>3. owners = {s}
      BY <2>1, <3>2 DEF IInv, OneOwner
    <3>4. Cardinality(owners) = 1
      BY <3>3, FS_Singleton
    <3> QED
      BY <2>3, <2>5, <3>4
  <2>6. CASE ~(memory[b].used /\ memory[b].kind # "failed")
    <3>1. memory[b].kind \notin {"encoder", "decoder"}
      BY <2>4, <2>6
    <3> QED
      BY <2>2, <2>3, <2>6, <3>1
  <2> QED
    BY <2>5, <2>6
<1> QED
  BY <1>1, Invariance, PTL

\* An open stream that is refused its conversion was opened with other flags.
THEOREM RefusalNeedsConfigure == Spec => []RefusedOnlyAfterConfigure
<1>1. IInv => RefusedOnlyAfterConfigure
  BY DEF IInv, DataFits, RefusedOnlyAfterConfigure, Opened, Purpose, Routine
<1> QED
  BY <1>1, Invariance, PTL

\* Only a stream_open configures the encoder, and then it is for no other stream.
LEMMA EncoderKept ==
  ASSUME IInv, EncoderSetForStream, [Next]_vars
  PROVE  EncoderSetForStream'
<1>1. ASSUME UNCHANGED enc,
             \A t \in Encoders' : latest' = t => latest = t /\ t \in Encoders /\ si'[t] = si[t]
      PROVE  EncoderSetForStream'
  BY <1>1 DEF EncoderSetForStream
<1>2. ASSUME UNCHANGED <<enc, latest, si>>
      PROVE  EncoderSetForStream'
  BY <1>2 DEF EncoderSetForStream, Encoders, Opened
<1>3. ASSUME NEW s \in Streams, NEW d \in Drivers, NEW src \in Formats,
             NEW dst \in Formats, stream_open(s, d, src, dst)
      PROVE  EncoderSetForStream'
  <2>1. CASE ~Accepts(src, dst, md[d].dwFlags)
    BY <1>2, <1>3, <2>1 DEF stream_open, Refuse
  <2>2. CASE OpenEncoder(s, d, src, dst)
    <3>1. \A t \in Encoders' : t \in Streams
      BY DEF Encoders, Opened
    <3>2. CASE latest' = NULL
      BY <3>1, <3>2 DEF EncoderSetForStream
    <3>3. CASE /\ EncodeInitOK(src.rate, dst.kbps) /\ latest' = s
               /\ \E b \in Blocks : Establish(s, d, src, dst, b)
      <4>1. PICK b \in Blocks :
              si' = [si EXCEPT ![s] =
                       [open |-> TRUE, driver |-> d, src |-> src, dst |-> dst,
                        dwDriver |-> b, asked |-> md[d].dwFlags]]
        BY <3>3 DEF Establish
      <4>2. si'[s].src = src /\ si'[s].dst = dst
        BY <4>1 DEF IInv, Types
      <4>3. enc' = [ch |-> src.ch, rate |-> src.rate, kbps |-> dst.kbps]
        <5>1. enc' = Stored(src.rate, dst.kbps, src.ch)
          BY <2>2 DEF OpenEncoder
        <5>2. Halvings(src.rate) # {}
          BY <3>3 DEF EncodeInitOK
        <5> QED
          BY <3>3, <5>1, <5>2 DEF Stored
      <4> QED
        BY <3>3, <4>2, <4>3 DEF EncoderSetForStream
    <3> QED
      BY <2>2, <3>2, <3>3 DEF OpenEncoder
  <2>3. ASSUME UNCHANGED <<enc, latest>>, NEW b,
               Conversion(src, dst, md[d].dwFlags) # "encode",
               Establish(s, d, src, dst, b)
        PROVE  EncoderSetForStream'
    <3>1. /\ si'[s].src = src /\ si'[s].dst = dst
          /\ si'[s].asked = md[d].dwFlags
          /\ \A t \in Streams \ {s} : si'[t] = si[t]
      BY <2>3 DEF Establish, IInv, Types
    <3>2. \A t \in Encoders' : t # s /\ t \in Encoders
      BY <2>3, <3>1 DEF Encoders, Opened
    <3>3. \A t \in Encoders' : t \in Streams
      BY DEF Encoders, Opened
    <3> QED
      BY <1>1, <2>3, <3>1, <3>2, <3>3
  <2>4. CASE OpenDecoder(s, d, src, dst)
    BY <1>2, <2>3, <2>4 DEF OpenDecoder, Refuse
  <2>5. CASE OpenCopier(s, d, src, dst)
    BY <2>3, <2>5 DEF OpenCopier
  <2> QED
    BY <1>3, <2>1, <2>2, <2>4, <2>5 DEF stream_open
<1>4. ASSUME NEW s \in Streams, stream_close(s)
      PROVE  EncoderSetForStream'
  <2>1. /\ si'[s] = Closed
        /\ \A t \in Streams \ {s} : si'[t] = si[t]
    BY <1>4 DEF stream_close, IInv, Types
  <2>2. ~Closed.open
    BY DEF Closed
  <2>3. \A t \in Encoders' : t \in Streams /\ t # s
    BY <2>1, <2>2 DEF Encoders, Opened
  <2>4. \A t \in Encoders' : t \in Encoders
    BY <2>1, <2>3 DEF Encoders, Opened
  <2>5. \A t \in Encoders' : latest' = t => latest = t
    BY <1>4, <2>3 DEF stream_close
  <2> QED
    BY <1>1, <1>4, <2>1, <2>3, <2>4, <2>5 DEF stream_close
<1>5. CASE \A s \in Streams, d \in Drivers, src, dst \in Formats :
             ~stream_open(s, d, src, dst) /\ ~stream_close(s)
  <2>1. UNCHANGED <<enc, latest, si>>
    BY <1>5 DEF Next, vars, drv_open, drv_close, drv_configure, stream_query,
                stream_size, stream_convert
  <2> QED
    BY <1>2, <2>1
<1> QED
  BY <1>3, <1>4, <1>5

\* With any number of encoding streams, the encoder of the process is configured for
\* the one that was opened last, whatever other streams and instances do meanwhile
\* short of having it configured themselves.
THEOREM EncoderIsSet == Spec => []EncoderSetForStream
<1>1. Init => EncoderSetForStream
  BY DEF Init, EncoderSetForStream, Encoders, Opened, Closed
<1>2. IInv /\ EncoderSetForStream /\ [Next]_vars => EncoderSetForStream'
  BY EncoderKept
<1> QED
  BY <1>1, <1>2, Invariance, PTL DEF Spec

\* AC3_encode_init has a row for every rate and bit rate stream_open lets pass:
\* the rate is one of Freqs itself, so that neither is halved.
LEMMA AcceptedIsInitialised ==
  ASSUME NEW src \in Formats, NEW dst \in Formats, NEW flags,
         Accepts(src, dst, flags), Conversion(src, dst, flags) = "encode"
  PROVE  EncodeInitOK(src.rate, dst.kbps)
<1>1. src.rate >= 32000 /\ dst.kbps \in Bitrates
  BY DEF Accepts
<1>2. src.rate \in Freqs
  <2>1. src.rate \in Rates
    BY FormatsAssumption
  <2> QED
    BY <1>1, <2>1 DEF Rates, Freqs
<1>3. 1 \in Halvings(src.rate) /\ \A m \in Halvings(src.rate) : 1 <= m
  <2>1. src.rate \div 1 = src.rate
    BY <1>2 DEF Freqs
  <2> QED
    BY <1>2, <2>1 DEF Halvings
<1>4. ASSUME NEW n \in Halvings(src.rate),
             \A m \in Halvings(src.rate) : n <= m
      PROVE  n = 1
  BY <1>3, <1>4 DEF Halvings
<1>5. Halving(src.rate) = 1
  BY <1>3, <1>4 DEF Halving
<1>6. dst.kbps \div 1 = dst.kbps
  BY <1>1, BitratesAssumption
<1>7. HasBitrate(src.rate, dst.kbps)
  BY <1>1, <1>5, <1>6 DEF HasBitrate
<1> QED
  BY <1>3, <1>7 DEF EncodeInitOK

\* No message answers an opening with AC3_encode_init's failure.
LEMMA OpenAnswers ==
  ASSUME QueryPredictsOpen, [Next]_vars PROVE QueryPredictsOpen'
<1>1. ASSUME NEW s \in Streams, NEW d \in Drivers,
             NEW src \in Formats, NEW dst \in Formats,
             stream_open(s, d, src, dst)
      PROVE  reply'.rc # "NOTPOSSIBLE"
  <2>1. CASE ~Accepts(src, dst, md[d].dwFlags)
    BY <1>1, <2>1 DEF stream_open, Refuse, Answer
  <2>2. CASE Accepts(src, dst, md[d].dwFlags) /\ OpenEncoder(s, d, src, dst)
    <3>1. EncodeInitOK(src.rate, dst.kbps)
      BY <2>2, AcceptedIsInitialised DEF OpenEncoder
    <3>2. \/ \E b \in Blocks : Establish(s, d, src, dst, b)
          \/ Refuse("NOMEM")
      BY <2>2, <3>1 DEF OpenEncoder
    <3> QED
      BY <3>2 DEF Establish, Refuse, Answer
  <2>3. CASE OpenDecoder(s, d, src, dst)
    BY <2>3 DEF OpenDecoder, Establish, Refuse, Answer
  <2>4. CASE OpenCopier(s, d, src, dst)
    BY <2>4 DEF OpenCopier, Establish, Answer
  <2> QED
    BY <1>1, <2>1, <2>2, <2>3, <2>4 DEF stream_open
<1>2. CASE UNCHANGED reply
  BY <1>2 DEF QueryPredictsOpen
<1>3. CASE reply'.msg # "open"
  BY <1>3 DEF QueryPredictsOpen
<1>4. ASSUME NEW d \in Drivers,
             \/ drv_open(d) \/ drv_close(d)
             \/ \E flags \in Settings : drv_configure(d, flags)
             \/ \E src, dst \in Formats : stream_query(d, src, dst)
      PROVE  reply'.msg # "open"
  BY <1>4 DEF drv_open, drv_close, drv_configure, stream_query, Answer
<1>5. ASSUME NEW s \in Streams,
             stream_size(s) \/ stream_convert(s) \/ stream_close(s)
      PROVE  reply'.msg # "open"
  BY <1>5 DEF stream_size, stream_convert, stream_close, Answer
<1> QED
  BY <1>1, <1>2, <1>3, <1>4, <1>5 DEF Next, vars, QueryPredictsOpen

\* A client that asks first and is told that a conversion is possible is later
\* refused it for want of memory at most, whatever the formats.
THEOREM QueriesAreHonoured == Spec => []QueryPredictsOpen
<1>1. Init => QueryPredictsOpen
  BY DEF Init, QueryPredictsOpen, Answer
<1>2. QueryPredictsOpen /\ [Next]_vars => QueryPredictsOpen'
  BY OpenAnswers
<1> QED
  BY <1>1, <1>2, PTL DEF Spec
==============================================================================
