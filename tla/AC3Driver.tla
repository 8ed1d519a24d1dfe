------------------------------ MODULE AC3Driver -------------------------------
(***************************************************************************)
(* The driver half of AC3ACM.cpp: instances of the driver (drv_open,       *)
(* drv_close, the configuration dialog), the conversion streams opened on   *)
(* them (stream_open, stream_size, stream_convert, stream_close), and what *)
(* they share: the registry key, the process heap, and ac3enc_state, the    *)
(* one encoder of the process, which stream_open configures.               *)
(*                                                                         *)
(* What a conversion does to its bytes is in DecodeStream and EncodeStream; *)
(* here a call is only sent to the routine that stream_convert chooses from *)
(* the formats and from the flags of the moment.                           *)
(***************************************************************************)
EXTENDS Integers, FiniteSets

CONSTANTS
  Drivers,      \* driver instances
  Streams,      \* stream instances of the client (ACMDRVSTREAMINSTANCE)
  Blocks,       \* addresses VirtualAlloc may return
  NULL,         \* no block, or no stream
  Formats,      \* the formats clients ask for
  Bitrates,     \* the fourth column of framesizes, in kbit/s
  Settings      \* the values of dwFlags that occur, sets of flag names

Flags == {"MULTICHANNEL", "DYNAMICRANGE", "NOEXTENSIBLE"}
Freqs == {32000, 44100, 48000}
Rates == Freqs \union {16000, 22050, 24000} \union {8000, 11025, 12000}

\* sub: SubFormat, if tag is "EXTENSIBLE"; "AC3" is the driver's own GUID and
\* "AC3_AUDIO" is KSDATAFORMAT_SUBTYPE_AC3_AUDIO.  kbps: for AC-3, the bit
\* rate nAvgBytesPerSec stands for; 0 if no row of framesizes has it.
ASSUME FormatsAssumption ==
  /\ Formats \subseteq [tag : {"PCM", "AC3", "EXTENSIBLE"},
                        sub : {"none", "PCM", "AC3", "AC3_AUDIO"},
                        ch : 1..6, rate : Rates, kbps : Nat]
  /\ Formats # {}
ASSUME BitratesAssumption == Bitrates \subseteq Nat \ {0}
ASSUME SettingsAssumption == Settings \subseteq SUBSET Flags
ASSUME NullAssumption == NULL \notin Blocks \union Streams
ASSUME InstancesAssumption == Drivers # {} /\ IsFiniteSet(Streams)

VARIABLES
  registry, \* the Flags value of the registry key
  md,       \* [Drivers -> [open, dwFlags]]
  si,       \* [Streams -> [open, driver, src, dst, dwDriver, asked]];
            \* asked (history): the instance's flags when it was opened
  memory,   \* [Blocks -> [used, kind]]: the allocated MyStreamData; kind
            \* "decoder" once a52_init has succeeded
  enc,      \* ac3enc_state: the settings AC3_encode_init stored
  latest,   \* (history) the stream for which it stored them, while that is open;
            \* NULL if it has been closed, or its stream_open failed
  reply     \* what the last message returned

vars == <<registry, md, si, memory, enc, latest, reply>>

Free == [used |-> FALSE, kind |-> "none"]
------------------------------------------------------------------------------
Extensible(flags) == "NOEXTENSIBLE" \notin flags
IsValidPCMEX(f) == f.tag = "EXTENSIBLE" /\ f.sub = "PCM"
IsValidPCM(f, flags) == f.tag = "PCM" \/ (Extensible(flags) /\ IsValidPCMEX(f))

\* SubFormat is compared with both GUIDs, and has to equal both.
IsValidAC3EX(f) == f.tag = "EXTENSIBLE" /\ f.sub = "AC3_AUDIO" /\ f.sub = "AC3"
IsValidAC3(f, flags) == f.tag = "AC3" \/ (Extensible(flags) /\ IsValidAC3EX(f))

\* stream_convert's choice of routine, and stream_open's of what to set up.
Conversion(src, dst, flags) ==
  IF IsValidPCM(src, flags)
  THEN IF IsValidAC3(dst, flags) THEN "encode"
       ELSE IF IsValidPCM(dst, flags) THEN "copy" ELSE "none"
  ELSE IF IsValidAC3(src, flags)
  THEN IF IsValidPCM(dst, flags) THEN "decode"
       ELSE IF IsValidAC3(dst, flags) THEN "copy" ELSE "none"
  ELSE "none"

\* MapTab holds a converter for these channel counts.
MapTab(from, to) == to \in {1, 2, from}

MultichannelAllowed(dst, flags) ==
  "MULTICHANNEL" \in flags \/ dst.tag # "PCM" \/ dst.ch <= 2

\* Mutant: low sampling rates are let pass.
AcceptsLowRates(src, dst, flags) ==
  LET c == Conversion(src, dst, flags) IN
  /\ c # "none"
  /\ src.rate = dst.rate
  /\ c = "encode" => src.ch = dst.ch /\ dst.kbps \in Bitrates
  /\ c = "copy"   => /\ src.ch = dst.ch
                     /\ IsValidPCM(dst, flags) => MultichannelAllowed(dst, flags)
  /\ c = "decode" => MultichannelAllowed(dst, flags) /\ MapTab(src.ch, dst.ch)

\* stream_open's tests, which are all that a query gets.
Accepts(src, dst, flags) ==
  LET c == Conversion(src, dst, flags) IN
  /\ c # "none"
  /\ src.rate = dst.rate
  /\ c = "encode" => /\ src.rate >= 32000 /\ src.ch = dst.ch
                     /\ dst.kbps \in Bitrates
  /\ c = "copy"   => /\ src.ch = dst.ch
                     /\ IsValidPCM(dst, flags) => MultichannelAllowed(dst, flags)
  /\ c = "decode" => MultichannelAllowed(dst, flags) /\ MapTab(src.ch, dst.ch)

\* AC3_encode_init: what it divides a rate of Freqs by to get this one (its
\* shifts by 0, 1 and 2, of which the smallest that fits is taken), and what it
\* has stored of its arguments when it returns, with or without success.
Halvings(rate) == {n \in {1, 2, 4} : \E f \in Freqs : f \div n = rate}
Halving(rate) ==
  CHOOSE n \in Halvings(rate) : \A m \in Halvings(rate) : n <= m
HasBitrate(rate, kbps) == \E b \in Bitrates : b \div Halving(rate) = kbps
EncodeInitOK(rate, kbps) == Halvings(rate) # {} /\ HasBitrate(rate, kbps)

Stored(rate, kbps, ch) ==
  [ch   |-> ch,
   rate |-> IF Halvings(rate) = {} THEN 0 ELSE rate,
   kbps |-> IF EncodeInitOK(rate, kbps) THEN kbps ELSE enc.kbps]

Opened == {s \in Streams : si[s].open}

\* The routine a stream_convert on s would run now.
Routine(s) == Conversion(si[s].src, si[s].dst, md[si[s].driver].dwFlags)
Encoders == {s \in Opened :
               Conversion(si[s].src, si[s].dst, si[s].asked) = "encode"}
------------------------------------------------------------------------------
Codes == {"OK", "NOTSUPPORTED", "NOTPOSSIBLE", "NOMEM", "FAULT"}
Answer(msg, rc) == [msg |-> msg, rc |-> rc]

AnyFormat == CHOOSE f \in Formats : TRUE
AnyDriver == CHOOSE d \in Drivers : TRUE

Closed == [open |-> FALSE, driver |-> AnyDriver, src |-> AnyFormat,
           dst |-> AnyFormat, dwDriver |-> NULL, asked |-> {}]

Init ==
  /\ registry \in Settings
  /\ md = [d \in Drivers |-> [open |-> FALSE, dwFlags |-> {}]]
  /\ si = [s \in Streams |-> Closed]
  /\ memory = [b \in Blocks |-> Free]
  /\ enc = [ch |-> 0, rate |-> 0, kbps |-> 0] /\ latest = NULL
  /\ reply = Answer("none", "OK")

\* DRV_OPEN: the new instance reads its flags from the registry.
drv_open(d) ==
  /\ ~md[d].open
  /\ md' = [md EXCEPT ![d] = [open |-> TRUE, dwFlags |-> registry]]
  /\ reply' = Answer("drv_open", "OK")
  /\ UNCHANGED <<registry, si, memory, enc, latest>>

\* DRV_CLOSE: the ACM closes an instance's streams first.
drv_close(d) ==
  /\ md[d].open
  /\ \A s \in Opened : si[s].driver # d
  /\ md' = [md EXCEPT ![d] = [open |-> FALSE, dwFlags |-> {}]]
  /\ reply' = Answer("drv_close", "OK")
  /\ UNCHANGED <<registry, si, memory, enc, latest>>

\* IDOK of the dialog: the boxes replace the instance's flags and the
\* registry's; the dialog has no box for DYNAMICRANGE.
drv_configure(d, flags) ==
  /\ md[d].open
  /\ "DYNAMICRANGE" \in flags <=> "DYNAMICRANGE" \in md[d].dwFlags
  /\ md' = [md EXCEPT ![d].dwFlags = flags]
  /\ registry' = flags
  /\ reply' = Answer("configure", "OK")
  /\ UNCHANGED <<si, memory, enc, latest>>

\* A stream_open that succeeds with dwDriver = b.
Establish(s, d, src, dst, b) ==
  /\ si' = [si EXCEPT ![s] =
              [open |-> TRUE, driver |-> d, src |-> src, dst |-> dst,
               dwDriver |-> b, asked |-> md[d].dwFlags]]
  /\ reply' = Answer("open", "OK")

\* A stream_open that fails.  The tests' two codes are one here,
\* "NOTSUPPORTED"; "NOTPOSSIBLE" is kept for AC3_encode_init.
Refuse(rc) == reply' = Answer("open", rc) /\ UNCHANGED si

Allocate(b, kind) == memory' = [memory EXCEPT ![b] = [used |-> TRUE, kind |-> kind]]

\* PCM to AC-3: the encoder of the process is configured, whatever other stream
\* is encoding, then memory is allocated, or is not to be had.
OpenEncoder(s, d, src, dst) ==
  /\ Conversion(src, dst, md[d].dwFlags) = "encode"
  /\ enc' = Stored(src.rate, dst.kbps, src.ch)
  /\ \/ /\ ~EncodeInitOK(src.rate, dst.kbps)
        /\ Refuse("NOTPOSSIBLE")
        /\ UNCHANGED memory /\ latest' = NULL
     \/ /\ EncodeInitOK(src.rate, dst.kbps)
        /\ \/ \E b \in Blocks :
                /\ ~memory[b].used
                /\ Allocate(b, "encoder")
                /\ Establish(s, d, src, dst, b)
                /\ latest' = s
           \/ Refuse("NOMEM") /\ UNCHANGED memory /\ latest' = NULL

\* Mutant: what a52_init returns is not looked at.
OpenDecoderUnchecked(s, d, src, dst) ==
  /\ Conversion(src, dst, md[d].dwFlags) = "decode"
  /\ \/ \E b \in Blocks :
          /\ ~memory[b].used
          /\ \E kind \in {"decoder", "failed"} : Allocate(b, kind)
          /\ Establish(s, d, src, dst, b)
     \/ Refuse("NOMEM") /\ UNCHANGED memory
  /\ UNCHANGED <<enc, latest>>

\* AC-3 to PCM: memory, then a decoder; if a52_init fails, the memory has
\* been allocated and stays so.
OpenDecoder(s, d, src, dst) ==
  /\ Conversion(src, dst, md[d].dwFlags) = "decode"
  /\ \/ \E b \in Blocks :
          /\ ~memory[b].used
          /\ \/ /\ Allocate(b, "decoder")
                /\ Establish(s, d, src, dst, b)
             \/ Allocate(b, "failed") /\ Refuse("NOMEM")
     \/ Refuse("NOMEM") /\ UNCHANGED memory
  /\ UNCHANGED <<enc, latest>>

\* PCM to PCM and AC-3 to AC-3 need no state.
OpenCopier(s, d, src, dst) ==
  /\ Conversion(src, dst, md[d].dwFlags) = "copy"
  /\ Establish(s, d, src, dst, NULL)
  /\ UNCHANGED <<memory, enc, latest>>

\* ACMDM_STREAM_OPEN.
stream_open(s, d, src, dst) ==
  /\ md[d].open /\ ~si[s].open
  /\ IF Accepts(src, dst, md[d].dwFlags)
     THEN \/ OpenEncoder(s, d, src, dst)
          \/ OpenDecoder(s, d, src, dst)
          \/ OpenCopier(s, d, src, dst)
     ELSE Refuse("NOTSUPPORTED") /\ UNCHANGED <<memory, enc, latest>>
  /\ UNCHANGED <<registry, md>>

\* Mutant: a query configures the encoder like any stream_open.
stream_queryEncodes(d, src, dst) ==
  /\ md[d].open
  /\ reply' = Answer("query", IF Accepts(src, dst, md[d].dwFlags)
                             THEN "OK" ELSE "NOTSUPPORTED")
  /\ enc' = IF /\ Accepts(src, dst, md[d].dwFlags)
               /\ Conversion(src, dst, md[d].dwFlags) = "encode"
            THEN Stored(src.rate, dst.kbps, src.ch) ELSE enc
  /\ UNCHANGED <<registry, md, si, memory, latest>>

\* ... with ACM_STREAMOPENF_QUERY: the tests only.
stream_query(d, src, dst) ==
  /\ md[d].open
  /\ reply' = Answer("query", IF Accepts(src, dst, md[d].dwFlags)
                             THEN "OK" ELSE "NOTSUPPORTED")
  /\ UNCHANGED <<registry, md, si, memory, enc, latest>>

\* ACMDM_STREAM_SIZE: for the tag AC3 the frame length is read from the
\* stream's data, wherever dwDriver points.
stream_size(s) ==
  /\ si[s].open
  /\ reply' = Answer("size", IF si[s].src.tag = "AC3" /\ si[s].dwDriver = NULL
                            THEN "FAULT" ELSE "OK")
  /\ UNCHANGED <<registry, md, si, memory, enc, latest>>

\* ACMDM_STREAM_CONVERT: the routine changes only the stream's own data, and that
\* of the encoder; with formats that the present flags no longer allow, there is
\* none.
stream_convert(s) ==
  /\ si[s].open
  /\ \/ Routine(s) # "none" /\ reply' = Answer("convert", "OK")
     \/ Routine(s) = "none" /\ reply' = Answer("convert", "NOTSUPPORTED")
  /\ UNCHANGED <<registry, md, si, memory, enc, latest>>

\* Mutant: the memory is not released.
stream_closeLeaks(s) ==
  /\ si[s].open
  /\ si' = [si EXCEPT ![s] = Closed]
  /\ reply' = Answer("close", "OK")
  /\ latest' = IF latest = s THEN NULL ELSE latest
  /\ UNCHANGED <<registry, md, memory, enc>>

\* ACMDM_STREAM_CLOSE.
stream_close(s) ==
  /\ si[s].open
  /\ memory' = IF si[s].dwDriver = NULL THEN memory
               ELSE [memory EXCEPT ![si[s].dwDriver] = Free]
  /\ si' = [si EXCEPT ![s] = Closed]
  /\ latest' = IF latest = s THEN NULL ELSE latest
  /\ reply' = Answer("close", "OK")
  /\ UNCHANGED <<registry, md, enc>>

Next ==
  \/ \E d \in Drivers :
       \/ drv_open(d) \/ drv_close(d)
       \/ \E flags \in Settings : drv_configure(d, flags)
       \/ \E src, dst \in Formats :
            stream_query(d, src, dst) \/ \E s \in Streams :
                                           stream_open(s, d, src, dst)
  \/ \E s \in Streams : stream_size(s) \/ stream_convert(s) \/ stream_close(s)

Spec == Init /\ [][Next]_vars
------------------------------------------------------------------------------
\* Every variable keeps its type.
TypeOK ==
  /\ registry \in SUBSET Flags
  /\ md \in [Drivers -> [open : BOOLEAN, dwFlags : SUBSET Flags]]
  /\ si \in [Streams -> [open : BOOLEAN, driver : Drivers, src : Formats,
                         dst : Formats, dwDriver : Blocks \union {NULL},
                         asked : SUBSET Flags]]
  /\ memory \in [Blocks -> [used : BOOLEAN,
                            kind : {"none", "encoder", "decoder", "failed"}]]
  /\ enc \in [ch : 0..6, rate : Nat, kbps : Nat]
  /\ latest \in Streams \union {NULL}
  /\ reply.rc \in Codes

\* stream_convert chooses its routine anew at each call, from flags that the
\* dialog may have changed since stream_open: it never hands a routine the
\* data of another, only refuses.
DispatchMatchesOpen ==
  \A s \in Opened :
    LET b == si[s].dwDriver IN
    CASE Routine(s) = "decode" -> b # NULL /\ memory[b].kind = "decoder"
      [] Routine(s) = "encode" -> b # NULL /\ memory[b].kind = "encoder"
      [] Routine(s) = "copy"   -> b = NULL
      [] Routine(s) = "none"   -> TRUE

\* A block of memory serves one open stream and no closed one, and every
\* block in use serves one, but those a failing a52_init left behind.
BlocksOwned ==
  \A b \in Blocks :
    LET owners == {s \in Streams : si[s].dwDriver = b} IN
    /\ owners \subseteq Opened
    /\ IF memory[b].used /\ memory[b].kind # "failed"
       THEN Cardinality(owners) = 1 ELSE owners = {}

\* However many streams are encoding, the encoder of the process is configured for
\* the one among them that was opened last, unless a later stream_open configured
\* it and failed, or its stream is closed by now; whatever else is queried, refused
\* or opened meanwhile.  The others, opened before, encode with settings that are
\* not theirs.
EncoderSetForStream ==
  \A s \in Encoders :
    latest = s => enc = [ch |-> si[s].src.ch, rate |-> si[s].src.rate,
                         kbps |-> si[s].dst.kbps]

\* An encoder stream that passes the tests a query makes is opened, or fails
\* for want of memory: AC3_encode_init accepts whatever stream_open lets pass.
QueryPredictsOpen == reply.msg = "open" => reply.rc # "NOTPOSSIBLE"

\* An open stream is refused its conversion only if its instance has been
\* configured otherwise since.
RefusedOnlyAfterConfigure ==
  \A s \in Opened :
    Routine(s) = "none" => md[si[s].driver].dwFlags # si[s].asked
==============================================================================
