------------------------------- MODULE A52Block -------------------------------
(***************************************************************************)
(* The side information of liba52's a52_block.  A block of a frame sends   *)
(* what changes, and the rest is taken from a52_state_t: the coupling, its *)
(* coordinates, the exponents, the parameters of the bit allocation, and   *)
(* the bit allocation (bap) itself, which is computed anew only for the    *)
(* channels of do_bit_alloc.  Between frames a52_frame resets little of    *)
(* it; and a52_block may return an error anywhere, upon which the codec    *)
(* goes on with the next block and a52dec with the next frame.             *)
(*                                                                         *)
(* The bits of a block are anything.  Values are left out: what counts is  *)
(* which frame sent them and what was computed from them.                  *)
(***************************************************************************)
EXTENDS Integers

CONSTANTS
  Headers,  \* the acmod, of 0..7, and lfeon of the frames
  Offsets,  \* the SNR offsets a block may send: is the coarse one not zero, and
            \* for which channels is the fine one not zero
  Deltas    \* the deltbae a block may send

ASSUME HeadersAssumption == Headers \subseteq (0..7) \X BOOLEAN

\* The bits of do_bit_alloc: the full bandwidth channels, the LFE and the
\* coupling channel.
lfe == 5
cpl == 6
Everything == 0..6
DeltaBits  == {"reuse", "new", "none"}
ASSUME OffsetsAssumption == Offsets \subseteq BOOLEAN \X SUBSET Everything
ASSUME DeltasAssumption == Deltas \subseteq [Everything -> DeltaBits]

VARIABLES
  acmod, lfeon,  \* of the frame; -1: no frame yet
  pc,            \* "idle", or the part of a52_block that comes next
  chincpl,       \* the coupled channels
  csnroffst,     \* the coarse SNR offset is not zero
  fine,          \* the channels whose fine SNR offset is not zero
  deltbae,       \* of ba[] and cplba: "reuse", "new" or "none"
  bap,           \* "zero" by memset, or "set" by a52_bit_allocate
  do_bit_alloc,  \* local to a52_block
  first,         \* history: no block of the frame has been decoded
  due,           \* history: the channels of which this block has to send exponents
  sound,         \* history: the frame's blocks sent so far what they have to
  old,           \* history: the fields that hold what an earlier frame sent
  changed        \* history: the channels whose bap is older than what it is made of
header  == <<acmod, lfeon>>
offsets == <<csnroffst, fine>>
vars == <<header, pc, chincpl, offsets, deltbae, bap, do_bit_alloc, first, due, sound,
          old, changed>>

nfchans_tbl == <<2, 1, 2, 3, 3, 4, 4, 5>>
nfchans  == nfchans_tbl[acmod + 1]
Channels == 0..(nfchans - 1)

\* The channels that the block has mantissas for.
CodedWith(coupled) ==
  Channels \union (IF lfeon THEN {lfe} ELSE {})
           \union (IF coupled # {} THEN {cpl} ELSE {})
Coded == CodedWith(chincpl)

\* The fields that blocks send; endmant goes with the exponents.  bands stands
\* for cplstrtmant, cplendmant, cplbndstrc and what is derived from them.
Of(kind, channels) == {<<kind, x>> : x \in channels}
Kinds  == {"chincpl", "bands", "cplco", "rematflg", "exp", "bai", "csnroffst",
           "ba", "leak", "deltba"}
Fields == Kinds \X Everything
------------------------------------------------------------------------------
\* a52_init does not clear the state; other contents than these zeros are what
\* frames that send anything leave.
Init ==
  /\ acmod = -1 /\ lfeon = FALSE
  /\ pc = "idle"
  /\ chincpl = {} /\ csnroffst = FALSE /\ fine = {}
  /\ deltbae = [x \in Everything |-> "reuse"]
  /\ bap = [x \in Everything |-> "zero"]
  /\ do_bit_alloc = {}
  /\ first = FALSE /\ due = {} /\ sound = FALSE
  /\ old = Fields /\ changed = Everything

\* Mutant: the frame before decides whether there is delta bit allocation.
ResetNone == deltbae
\* What a52_frame resets; lfeba is not among it.
Reset == [x \in Everything |-> IF x = lfe THEN deltbae[lfe] ELSE "none"]

\* A frame: the rate, too, may be another one.
a52_frame ==
  /\ pc = "idle"
  /\ \E h \in Headers : acmod' = h[1] /\ lfeon' = h[2]
  /\ deltbae' = Reset
  /\ first' = TRUE /\ sound' = TRUE
  /\ old' = Fields /\ changed' = Everything
  /\ UNCHANGED <<pc, chincpl, offsets, bap, do_bit_alloc, due>>

\* The block sends these fields, and changes what these channels' allocation is
\* made of; ok: it sends what it has to.  Of a frame that does not, nothing is
\* known until the next one.
Sends(ok, fields, channels) ==
  /\ sound' = (sound /\ ok)
  /\ old' = IF sound' THEN old \ fields ELSE Fields
  /\ changed' = IF sound' THEN changed \union channels ELSE Everything

\* return 1: what follows is read from the wrong place.
Error ==
  /\ pc' = "idle"
  /\ do_bit_alloc' = {}
  /\ first' = FALSE /\ due' = {}
  /\ Sends(FALSE, {}, {})

\* The channels that have to get new exponents in a block that sends a coupling
\* strategy: those that were coupled, or are now, and in a first block all.
Due(coupled) ==
  IF first THEN CodedWith(coupled)
  ELSE (chincpl \union coupled \union {cpl}) \intersect CodedWith(coupled)

\* The coupling strategy (after blksw, dithflag and dynrng).
Coupling ==
  /\ pc = "idle" /\ acmod >= 0
  /\ \/ \* cplstre = 0
        /\ due' = {}
        /\ Sends(~first, {}, {})
        /\ pc' = "coordinates"
        /\ UNCHANGED <<chincpl, do_bit_alloc, first>>
     \/ \* cplinu = 0
        /\ chincpl' = {}
        /\ due' = Due({})
        /\ Sends(TRUE, Of("chincpl", {cpl}), {})
        /\ pc' = "coordinates"
        /\ UNCHANGED <<do_bit_alloc, first>>
     \/ \* cplinu = 1
        /\ acmod > 1
        /\ chincpl' \in SUBSET Channels
        /\ due' = Due(chincpl')
        /\ Sends(TRUE, Of("chincpl", {cpl}) \union Of("bands", {cpl}), {cpl})
        /\ pc' = "coordinates"
        /\ UNCHANGED <<do_bit_alloc, first>>
     \/ \* coupling of less than two channels, or cplendf + 3 < cplbegf
        /\ chincpl' \in SUBSET Channels
        /\ Error
  /\ UNCHANGED <<header, offsets, deltbae, bap>>

\* The coupling coordinates of the channels in cplcoe, and the rematrixing.
Coordinates ==
  /\ pc = "coordinates"
  /\ \E cplcoe \in SUBSET chincpl, rematstr \in IF acmod = 2 THEN BOOLEAN ELSE {FALSE} :
       Sends((cpl \in due => cplcoe = chincpl) /\ (first /\ acmod = 2 => rematstr),
             Of("cplco", cplcoe) \union (IF rematstr THEN Of("rematflg", {0}) ELSE {}), {})
  /\ pc' = "exponents"
  /\ UNCHANGED <<header, chincpl, offsets, deltbae, bap, do_bit_alloc, first, due>>

\* The exponents: expstr are the channels whose strategy is not EXP_REUSE.
Exponents ==
  /\ pc = "exponents"
  /\ \E expstr \in SUBSET Coded :
       \/ /\ do_bit_alloc' = expstr
          /\ Sends(due \subseteq expstr, Of("exp", expstr), expstr)
          /\ pc' = "parameters"
          /\ UNCHANGED <<first, due>>
       \/ \* chbwcod > 60, or an exponent above 24
          /\ expstr # {}
          /\ Error
  /\ UNCHANGED <<header, chincpl, offsets, deltbae, bap>>

\* baie, snroffste and cplleake.
Parameters ==
  /\ pc = "parameters"
  /\ \E baie, snroffste \in BOOLEAN,
        cplleake \in IF chincpl # {} THEN BOOLEAN ELSE {FALSE} :
       /\ IF snroffste
          THEN \E sent \in Offsets :
                 /\ csnroffst' = sent[1]
                 /\ fine' = (fine \ Coded) \union (sent[2] \intersect Coded)
          ELSE UNCHANGED offsets
       /\ do_bit_alloc' = IF baie \/ snroffste THEN Everything
                          ELSE IF cplleake THEN do_bit_alloc \union {cpl} ELSE do_bit_alloc
       /\ Sends((first => baie /\ snroffste) /\ (cpl \in due => snroffste /\ cplleake),
                (IF baie THEN Of("bai", {0}) ELSE {}) \union
                (IF snroffste THEN Of("csnroffst", {0}) \union Of("ba", Coded) ELSE {})
                  \union (IF cplleake THEN Of("leak", {cpl}) ELSE {}),
                {x \in Everything : \/ baie
                                    \/ snroffste /\ x \in Coded
                                    \/ cplleake /\ x = cpl})
  /\ pc' = "delta" /\ due' = {}
  /\ UNCHANGED <<header, chincpl, deltbae, bap, first>>

\* deltbaie: a channel that has none cannot go on with it.
Delta ==
  /\ pc = "delta"
  /\ \/ /\ pc' = "allocation"
        /\ UNCHANGED <<deltbae, do_bit_alloc, first, due, sound, old, changed>>
     \/ \E sent \in Deltas :
          LET Given == Coded \ {lfe}
              New   == {x \in Given : sent[x] = "new"}
          IN  /\ deltbae' = [x \in Everything |->
                               IF x \in Given THEN sent[x] ELSE deltbae[x]]
              /\ \/ /\ do_bit_alloc' = Everything
                    /\ Sends(\A x \in Given : sent[x] = "reuse" => deltbae[x] # "none",
                             Of("deltba", New), Everything)
                    /\ pc' = "allocation"
                    /\ UNCHANGED <<first, due>>
                 \/ \* parse_deltba goes beyond 50 bands
                    /\ New # {}
                    /\ Error
  /\ UNCHANGED <<header, chincpl, offsets, bap>>

zero_snr_offsets == ~csnroffst /\ fine \intersect Coded = {}

\* a52_bit_allocate for the channels of do_bit_alloc, or none for all.
Allocation ==
  /\ pc = "allocation"
  /\ IF do_bit_alloc = {} THEN UNCHANGED <<bap, changed>>
     ELSE IF zero_snr_offsets
     THEN /\ bap' = [x \in Everything |->
                       IF x \in Channels \union {lfe, cpl} THEN "zero" ELSE bap[x]]
          /\ UNCHANGED changed
     ELSE LET computed == do_bit_alloc \intersect Coded
          IN  /\ bap' = [x \in Everything |-> IF x \in computed THEN "set" ELSE bap[x]]
              /\ changed' = IF sound THEN changed \ computed ELSE changed
  /\ pc' = "coefficients"
  /\ do_bit_alloc' = {}
  /\ UNCHANGED <<header, chincpl, offsets, deltbae, first, due, sound, old>>

\* The mantissas are read, and the block is transformed.
Coefficients ==
  /\ pc = "coefficients"
  /\ pc' = "idle"
  /\ first' = FALSE
  /\ UNCHANGED <<header, chincpl, offsets, deltbae, bap, do_bit_alloc, due, sound, old,
                 changed>>

a52_block == \/ Coupling \/ Coordinates \/ Exponents \/ Parameters \/ Delta
             \/ Allocation \/ Coefficients
Next == a52_frame \/ a52_block
Spec == Init /\ [][Next]_vars
------------------------------------------------------------------------------
\* What a52_bit_allocate, for one channel, and the reading of the mantissas take
\* from the state; a52_bit_allocate looks at deltba unless there is none.
AllocationReads(x) ==
  Of("bai", {0}) \union Of("csnroffst", {0}) \union Of("ba", {x})
    \union Of("exp", {x})
    \union (IF x # lfe /\ deltbae[x] # "none" THEN Of("deltba", {x}) ELSE {})
CouplingReads ==
  Of("chincpl", {cpl}) \union
  (IF chincpl # {} THEN Of("bands", {cpl}) \union Of("leak", {cpl})
                          \union Of("cplco", chincpl \intersect Channels)
   ELSE {})
RematrixReads == IF acmod = 2 THEN Of("rematflg", {0}) ELSE {}
Reads == CouplingReads \union RematrixReads
           \union UNION {AllocationReads(x) : x \in Coded}

\* The bit allocation of a channel is the one that its present inputs give: all
\* zero if all the offsets are, else computed since the last of them changed.
Fresh(x) ==
  IF zero_snr_offsets THEN bap[x] = "zero" ELSE bap[x] = "set" /\ x \notin changed

\* The mantissas of a block are read with nothing left over from another frame,
\* and with an allocation that is not out of date, though it is computed only
\* for the channels of do_bit_alloc: whatever happened before the frame, a failed
\* block included, if the blocks of the frame so far sent what they have to.
OwnSideInformation ==
  pc = "coefficients" /\ sound =>
    /\ Reads \intersect old = {}
    /\ \A x \in Coded : Fresh(x)
==============================================================================
