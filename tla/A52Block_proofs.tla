---------------------------- MODULE A52Block_proofs ----------------------------
(***************************************************************************)
(* A sound frame's blocks are decoded from what the frame itself sent, for *)
(* every mode and everything a block may send.  The invariant says, for    *)
(* each part of a52_block that may come next, which fields are known to be *)
(* the frame's own, which channels still owe their exponents, and that a   *)
(* channel whose allocation is out of date is among those it will be       *)
(* computed for.                                                           *)
(***************************************************************************)
EXTENDS A52Block, TLAPS

Parts == {"idle", "coordinates", "exponents", "parameters", "delta", "allocation",
          "coefficients"}
Early == {"coordinates", "exponents", "parameters"}

TypeOK ==
  /\ acmod \in -1..7 /\ lfeon \in BOOLEAN
  /\ pc \in Parts /\ (pc # "idle" \/ first => acmod >= 0)
  /\ chincpl \subseteq Everything
  /\ csnroffst \in BOOLEAN /\ fine \subseteq Everything
  /\ deltbae \in [Everything -> DeltaBits]
  /\ bap \in [Everything -> {"zero", "set"}]
  /\ do_bit_alloc \subseteq Everything
  /\ first \in BOOLEAN /\ sound \in BOOLEAN
  /\ due \subseteq Everything /\ changed \subseteq Everything

\* The frame has sent this field.
Known(kind, x) == <<kind, x>> \notin old

\* The frame has sent what is sent once: in a block before, or in this one by the
\* time it gets to one of these parts.
By(parts) == ~first \/ pc \in parts

\* Which channels owe exponents, and which wait for their allocation.
Debts ==
  /\ pc \notin Early => due = {}
  /\ pc \in {"idle", "coordinates", "exponents", "coefficients"} => do_bit_alloc = {}
  /\ sound =>
       /\ acmod >= 0
       /\ pc \in Early => due \subseteq Coded /\ (first => due = Coded)
       /\ pc = "parameters" => due \subseteq do_bit_alloc

CouplingKnown ==
  By(Parts \ {"idle"}) =>
    /\ chincpl \subseteq Channels
    /\ Known("chincpl", cpl)
    /\ chincpl # {} => Known("bands", cpl)

CoordinatesKnown ==
  /\ By(Parts \ {"idle", "coordinates"}) /\ (pc = "coordinates" => cpl \notin due) =>
       \A x \in chincpl : Known("cplco", x)
  /\ By(Parts \ {"idle", "coordinates"}) /\ acmod = 2 => Known("rematflg", 0)

ExponentsKnown ==
  By(Parts \ {"idle"}) =>
    \A x \in Coded :
      (pc \in {"coordinates", "exponents"} => x \notin due) => Known("exp", x)

ParametersKnown ==
  By(Parts \ ({"idle"} \union Early)) =>
    /\ Known("bai", 0) /\ Known("csnroffst", 0)
    /\ \A x \in Coded : (x = cpl /\ cpl \in due) \/ Known("ba", x)
    /\ chincpl # {} => cpl \in due \/ Known("leak", cpl)

DeltaKnown ==
  \A x \in Everything \ {lfe} : deltbae[x] # "none" => Known("deltba", x)

\* The allocation of a channel is up to date, or will be computed in this block.
\* When the coupling channel is due, all of them will.
Pending == due \union do_bit_alloc
Allocated ==
  By(Parts \ ({"idle"} \union Early)) /\ cpl \notin due =>
    IF zero_snr_offsets
    THEN Pending # {} \/ \A x \in Coded : bap[x] = "zero"
    ELSE \A x \in Coded : x \in Pending \/ (bap[x] = "set" /\ x \notin changed)

Own == /\ CouplingKnown /\ CoordinatesKnown /\ ExponentsKnown /\ ParametersKnown
       /\ DeltaKnown /\ Allocated
BInv == TypeOK /\ Debts /\ (sound => Own)

USE HeadersAssumption, OffsetsAssumption, DeltasAssumption
------------------------------------------------------------------------------
\* The channels of a mode, and what the coupling channel adds to them.
LEMMA ChannelsType ==
  ASSUME acmod \in 0..7, lfeon \in BOOLEAN
  PROVE  /\ nfchans \in 1..5
         /\ Channels \subseteq 0..4
         /\ \A c : /\ CodedWith(c) \subseteq Everything
                   /\ cpl \in CodedWith(c) <=> c # {}
                   /\ Channels \subseteq CodedWith(c)
                   /\ \A x : x # cpl => (x \in CodedWith(c) <=> x \in CodedWith({}))
<1>1. acmod \in {0, 1, 2, 3, 4, 5, 6, 7}
  OBVIOUS
<1>2. nfchans \in 1..5
  BY <1>1 DEF nfchans, nfchans_tbl
<1>3. Channels \subseteq 0..4
  BY <1>2 DEF Channels
<1> QED
  BY <1>2, <1>3 DEF CodedWith, Everything, lfe, cpl

\* The three ways of a block that is not at error with its coupling strategy.
LEMMA CouplingCases ==
  ASSUME Coupling, pc' # "idle"
  PROVE  /\ pc = "idle" /\ acmod >= 0 /\ pc' = "coordinates"
         /\ UNCHANGED <<acmod, lfeon, csnroffst, fine, deltbae, bap, do_bit_alloc, first>>
         /\ \/ chincpl' = chincpl /\ due' = {} /\ Sends(~first, {}, {})
            \/ chincpl' = {} /\ due' = Due({}) /\ Sends(TRUE, Of("chincpl", {cpl}), {})
            \/ /\ chincpl' \in SUBSET Channels /\ due' = Due(chincpl')
               /\ Sends(TRUE, Of("chincpl", {cpl}) \union Of("bands", {cpl}), {cpl})
  BY DEF Coupling, Error, header, offsets

\* The types.
LEMMA InitTypeOK == ASSUME Init PROVE TypeOK
<1>1. /\ acmod \in -1..7 /\ lfeon \in BOOLEAN
      /\ pc \in Parts /\ (pc # "idle" \/ first => acmod >= 0)
  <2>1. acmod = -1 /\ lfeon = FALSE /\ pc = "idle" /\ first = FALSE
    BY DEF Init
  <2>2. -1 \in -1..7
    OBVIOUS
  <2> QED
    BY <2>1, <2>2 DEF Parts
<1>2. /\ chincpl \subseteq Everything
      /\ csnroffst \in BOOLEAN /\ fine \subseteq Everything
      /\ deltbae \in [Everything -> DeltaBits]
  BY DEF Init, DeltaBits
<1>3. /\ bap \in [Everything -> {"zero", "set"}]
      /\ do_bit_alloc \subseteq Everything
      /\ first \in BOOLEAN /\ sound \in BOOLEAN
      /\ due \subseteq Everything /\ changed \subseteq Everything
  BY DEF Init
<1> QED
  BY <1>1, <1>2, <1>3 DEF TypeOK

LEMMA NextTypeOK == ASSUME TypeOK, [Next]_vars PROVE TypeOK'
<1>1. CASE a52_frame
  <2>1. acmod' \in 0..7 /\ lfeon' \in BOOLEAN
    BY <1>1 DEF a52_frame
  <2>2. deltbae' \in [Everything -> DeltaBits]
    BY <1>1 DEF a52_frame, TypeOK, Reset, DeltaBits, Everything, lfe
  <2> QED
    BY <1>1, <2>1, <2>2 DEF a52_frame, TypeOK, offsets
<1>2. ASSUME Error, UNCHANGED <<header, offsets, deltbae, bap>>,
             chincpl' \subseteq Everything
      PROVE  TypeOK'
  <2>1. changed' \subseteq Everything /\ sound' \in BOOLEAN
    BY <1>2 DEF Sends, Error, TypeOK
  <2> QED
    BY <1>2, <2>1 DEF Error, TypeOK, Parts, header, offsets
<1>3. CASE Coupling
  <2>1. acmod \in 0..7
    BY <1>3 DEF Coupling, TypeOK
  <2>2. /\ Channels \subseteq Everything
        /\ \A c : CodedWith(c) \subseteq Everything
    BY <2>1, ChannelsType DEF TypeOK, Everything
  <2>3. \A c : Due(c) \subseteq Everything
    BY <2>2 DEF Due
  <2>4. CASE pc' = "idle"
    BY <1>2, <1>3, <2>2, <2>4 DEF Coupling, TypeOK
  <2>5. CASE pc' # "idle"
    <3>1. cpl \in Everything
      BY DEF cpl, Everything
    <3>2. changed' \subseteq Everything /\ sound' \in BOOLEAN
      BY <1>3, <2>5, <3>1, CouplingCases DEF Sends, TypeOK
    <3>3. /\ due' \subseteq Everything /\ chincpl' \subseteq Everything
          /\ pc' \in Parts
      BY <1>3, <2>2, <2>3, <2>5, CouplingCases DEF TypeOK, Parts
    <3> QED
      BY <1>3, <2>1, <2>5, <3>2, <3>3, CouplingCases DEF TypeOK
  <2> QED
    BY <2>4, <2>5
<1>4. CASE Coordinates
  <2>1. changed' \subseteq Everything /\ sound' \in BOOLEAN
    BY <1>4 DEF Sends, Coordinates, TypeOK
  <2> QED
    BY <1>4, <2>1 DEF Coordinates, TypeOK, Parts, header, offsets
<1>5. CASE Exponents
  <2>1. CASE pc' = "idle"
    BY <1>2, <1>5, <2>1 DEF Exponents, TypeOK
  <2>2. CASE pc' # "idle"
    <3>1. PICK expstr \in SUBSET Coded :
            /\ do_bit_alloc' = expstr
            /\ Sends(due \subseteq expstr, Of("exp", expstr), expstr)
            /\ pc' = "parameters"
            /\ UNCHANGED <<first, due>>
      BY <1>5, <2>2 DEF Exponents, Error
    <3>2. Coded \subseteq Everything
      BY <1>5, ChannelsType DEF Exponents, TypeOK, Coded
    <3>3. changed' \subseteq Everything /\ sound' \in BOOLEAN
      BY <3>1, <3>2 DEF Sends, TypeOK
    <3> QED
      BY <1>5, <3>1, <3>2, <3>3 DEF Exponents, TypeOK, Parts, header, offsets
  <2> QED
    BY <2>1, <2>2
<1>6. CASE Parameters
  <2>1. changed' \subseteq Everything /\ sound' \in BOOLEAN
    BY <1>6 DEF Sends, Parameters, TypeOK
  <2>2. /\ csnroffst' \in BOOLEAN /\ fine' \subseteq Everything
        /\ do_bit_alloc' \subseteq Everything
    <3>1. csnroffst' \in BOOLEAN /\ fine' \subseteq Everything
      BY <1>6 DEF Parameters, TypeOK, offsets
    <3>2. do_bit_alloc' \subseteq Everything
      BY <1>6 DEF Parameters, TypeOK, Everything, cpl
    <3> QED
      BY <3>1, <3>2
  <2> QED
    BY <1>6, <2>1, <2>2 DEF Parameters, TypeOK, Parts, header
<1>7. CASE Delta
  <2>1. changed' \subseteq Everything /\ sound' \in BOOLEAN
    BY <1>7 DEF Sends, Delta, TypeOK, Error
  <2>2. deltbae' \in [Everything -> DeltaBits]
    BY <1>7 DEF Delta, TypeOK
  <2> QED
    BY <1>7, <2>1, <2>2 DEF Delta, Error, TypeOK, Parts, header, offsets
<1>8. CASE Allocation
  BY <1>8 DEF Allocation, TypeOK, Parts, header, offsets
<1>9. CASE Coefficients
  BY <1>9 DEF Coefficients, TypeOK, Parts, header, offsets
<1>10. CASE UNCHANGED vars
  BY <1>10 DEF vars, TypeOK, header, offsets
<1> QED
  BY <1>1, <1>3, <1>4, <1>5, <1>6, <1>7, <1>8, <1>9, <1>10 DEF Next, a52_block
------------------------------------------------------------------------------
\* What a new coupling strategy makes due.
LEMMA DueFacts ==
  ASSUME acmod \in 0..7, lfeon \in BOOLEAN, NEW C
  PROVE  /\ Due(C) \subseteq CodedWith(C)
         /\ first => Due(C) = CodedWith(C)
         /\ C # {} => cpl \in Due(C)
         /\ chincpl \subseteq Channels /\ chincpl # {} => Due(C) # {}
<1>1. /\ cpl \in CodedWith(C) <=> C # {}
      /\ Channels \subseteq CodedWith(C)
  BY ChannelsType
<1> QED
  BY <1>1 DEF Due

\* The channels stay the same while the frame and its coupling do.
LEMMA CodedKept ==
  ASSUME acmod' = acmod, lfeon' = lfeon
  PROVE  /\ Channels' = Channels /\ Coded' = CodedWith(chincpl')
         /\ chincpl' = chincpl => Coded' = Coded
  BY DEF Coded, CodedWith, Channels, nfchans

\* Nothing is claimed of the state liba52 begins with.
LEMMA InitBInv == ASSUME Init PROVE BInv
<1>1. pc = "idle" /\ due = {} /\ do_bit_alloc = {} /\ sound = FALSE
  BY DEF Init
<1> QED
  BY <1>1, InitTypeOK DEF BInv, Debts, Early

\* Nor of a new frame, but that it has no delta bit allocation.
LEMMA FrameBInv == ASSUME BInv, a52_frame PROVE BInv'
<1>1. TypeOK'
  BY NextTypeOK DEF BInv, Next
<1>2. /\ pc = "idle" /\ pc' = "idle" /\ first' = TRUE /\ acmod' \in 0..7
      /\ due' = due /\ do_bit_alloc' = do_bit_alloc
  BY DEF a52_frame
<1>3. Debts'
  BY <1>2 DEF BInv, Debts, Early
<1>4. DeltaKnown'
  BY DEF a52_frame, Reset, DeltaKnown
<1>5. (CouplingKnown /\ CoordinatesKnown /\ ExponentsKnown /\ ParametersKnown
         /\ Allocated)'
  BY <1>2 DEF CouplingKnown, CoordinatesKnown, ExponentsKnown, ParametersKnown,
              Allocated, By, Parts, Early
<1> QED
  BY <1>1, <1>3, <1>4, <1>5 DEF BInv, Own

\* Nor of what follows an error.
LEMMA ErrorBInv == ASSUME BInv, a52_block, Error PROVE BInv'
<1>1. TypeOK'
  BY NextTypeOK DEF BInv, Next
<1>2. pc' = "idle" /\ due' = {} /\ do_bit_alloc' = {} /\ ~sound'
  BY DEF Error, Sends
<1> QED
  BY <1>1, <1>2 DEF BInv, Debts, Early

\* The coupling strategy: the channels that lose or gain the coupling become due.
LEMMA CouplingBInv ==
  ASSUME BInv, Coupling, pc' # "idle" PROVE BInv'
<1>1. TypeOK'
  BY NextTypeOK DEF BInv, Next, a52_block
<1>2. /\ pc = "idle" /\ acmod \in 0..7 /\ lfeon \in BOOLEAN /\ pc' = "coordinates"
      /\ UNCHANGED <<acmod, lfeon, csnroffst, fine, deltbae, bap, do_bit_alloc, first>>
      /\ due = {} /\ do_bit_alloc = {} /\ sound \in BOOLEAN
  BY CouplingCases DEF BInv, TypeOK, Debts, Early
<1>3. Channels' = Channels /\ Coded' = CodedWith(chincpl')
  BY <1>2, CodedKept
<1>4. CASE ~ sound'
  <2>1. Debts'
    BY <1>2, <1>4 DEF Debts, Early
  <2> QED
    BY <1>1, <1>4, <2>1 DEF BInv
<1>5. CASE /\ chincpl' = chincpl /\ due' = {} /\ Sends(~first, {}, {})
           /\ sound'
  <2>1. /\ sound /\ ~first
        /\ \A f : f \notin old => f \notin old'
        /\ changed' = changed
    BY <1>2, <1>5 DEF Sends
  <2>2. Coded' = Coded /\ (zero_snr_offsets' <=> zero_snr_offsets)
    BY <1>2, <1>5, CodedKept DEF zero_snr_offsets
  <2>3. Debts'
    BY <1>2, <1>5, <2>1 DEF Debts, Early
  <2>4. CouplingKnown' /\ CoordinatesKnown' /\ DeltaKnown'
    BY <1>2, <1>3, <1>5, <2>1 DEF BInv, Own, CouplingKnown, CoordinatesKnown,
                                  DeltaKnown, Known, By
  <2>5. ExponentsKnown' /\ ParametersKnown'
    BY <1>2, <1>5, <2>1, <2>2 DEF BInv, Own, ExponentsKnown, ParametersKnown, Known, By
  <2>6. Allocated'
    BY <1>2, <1>5, <2>1, <2>2 DEF BInv, Own, Allocated, Pending, By
  <2> QED
    BY <1>1, <2>3, <2>4, <2>5, <2>6 DEF BInv, Own
<1>6. ASSUME chincpl' \in SUBSET Channels, due' = Due(chincpl'),
             Known("chincpl", cpl)', chincpl' # {} => Known("bands", cpl)',
             sound, \A f : f \notin old => f \notin old',
             \A x \in changed' : x \in changed \/ x = cpl
      PROVE  BInv'
  <2>1. sound /\ \A f : f \notin old => f \notin old'
    BY <1>6
  <2>2. /\ due' \subseteq Coded' /\ (first => due' = Coded')
        /\ chincpl' # {} => cpl \in due'
        /\ chincpl \subseteq Channels /\ chincpl # {} => due' # {}
    BY <1>2, <1>3, <1>6, DueFacts
  <2>3. \A x \in Coded' : x # cpl => x \in Coded
    BY <1>2, <1>3, ChannelsType DEF Coded
  <2>4. cpl \in Coded' <=> chincpl' # {}
    BY <1>2, <1>3, ChannelsType
  <2>5. Debts'
    BY <1>2, <1>6, <2>2 DEF Debts, Early
  <2>6. CouplingKnown'
    BY <1>3, <1>6 DEF CouplingKnown
  <2>7. CoordinatesKnown'
    BY <1>2, <2>1, <2>2 DEF BInv, Own, CoordinatesKnown, Known, By
  <2>8. ExponentsKnown'
    BY <1>2, <2>1, <2>2, <2>3, <2>4 DEF BInv, Own, ExponentsKnown, Known, By
  <2>9. ParametersKnown'
    BY <1>2, <2>1, <2>2, <2>3, <2>4 DEF BInv, Own, ParametersKnown, Known, By, Early
  <2>10. DeltaKnown'
    BY <1>2, <2>1 DEF BInv, Own, DeltaKnown, Known
  <2>11. ASSUME ~first, cpl \notin due'
         PROVE  IF zero_snr_offsets'
                THEN due' # {} \/ \A x \in Coded' : bap'[x] = "zero"
                ELSE \A x \in Coded' : bap'[x] = "set" /\ x \notin changed'
    <3>1. /\ chincpl' = {} /\ chincpl \subseteq Channels
          /\ \A x \in Coded' : x # cpl /\ x \in Coded
      BY <1>2, <2>1, <2>2, <2>3, <2>4, <2>11 DEF BInv, Own, CouplingKnown, By
    <3>2. IF zero_snr_offsets
          THEN \A x \in Coded : bap[x] = "zero"
          ELSE \A x \in Coded : bap[x] = "set" /\ x \notin changed
      BY <1>2, <2>1, <2>11 DEF BInv, Own, Allocated, Pending, By
    <3>3. CASE zero_snr_offsets
      <4>1. zero_snr_offsets'
        BY <1>2, <3>1, <3>3 DEF zero_snr_offsets
      <4> QED
        BY <1>2, <3>1, <3>2, <3>3, <4>1
    <3>4. CASE ~zero_snr_offsets /\ ~zero_snr_offsets'
      BY <1>2, <1>6, <2>1, <3>1, <3>2, <3>4
    <3>5. CASE ~zero_snr_offsets /\ zero_snr_offsets'
      <4>1. Coded' # Coded
        BY <1>2, <3>5 DEF zero_snr_offsets
      <4>2. chincpl # {}
        BY <1>2, <1>3, <3>1, <4>1, CodedKept
      <4> QED
        BY <2>2, <3>1, <3>5, <4>2
    <3> QED
      BY <3>3, <3>4, <3>5
  <2>12. Allocated'
    BY <1>2, <2>11 DEF Allocated, Pending, By, Early
  <2> QED
    BY <1>1, <2>5, <2>6, <2>7, <2>8, <2>9, <2>10, <2>12 DEF BInv, Own
<1>7. CASE /\ chincpl' = {} /\ due' = Due({}) /\ Sends(TRUE, Of("chincpl", {cpl}), {})
           /\ sound'
  <2>1. /\ sound /\ \A f : f \notin old => f \notin old'
        /\ Known("chincpl", cpl)' /\ changed' = changed
    BY <1>2, <1>7 DEF Sends, Known, Of
  <2> QED
    BY <1>6, <1>7, <2>1
<1>8. CASE /\ chincpl' \in SUBSET Channels /\ due' = Due(chincpl')
           /\ Sends(TRUE, Of("chincpl", {cpl}) \union Of("bands", {cpl}), {cpl})
           /\ sound'
  <2>1. /\ sound /\ \A f : f \notin old => f \notin old'
        /\ Known("chincpl", cpl)' /\ Known("bands", cpl)'
        /\ changed' = changed \union {cpl}
    BY <1>2, <1>8 DEF Sends, Known, Of
  <2> QED
    BY <1>6, <1>8, <2>1
<1> QED
  BY <1>4, <1>5, <1>7, <1>8, CouplingCases

\* A block that is not in order: only the bookkeeping of debts is left.
LEMMA UnsoundBInv == ASSUME TypeOK', Debts', ~ sound' PROVE BInv'
  BY DEF BInv

\* The coordinates: a coupling that has just begun is sent with all of them.
LEMMA CoordinatesBInv == ASSUME BInv, Coordinates PROVE BInv'
<1>1. TypeOK'
  BY NextTypeOK DEF BInv, Next, a52_block
<1>2. /\ pc = "coordinates" /\ pc' = "exponents" /\ acmod \in 0..7
      /\ UNCHANGED <<acmod, lfeon, chincpl, csnroffst, fine, deltbae, bap,
                     do_bit_alloc, first, due>>
      /\ lfeon \in BOOLEAN /\ first \in BOOLEAN /\ sound \in BOOLEAN
  BY DEF BInv, TypeOK, Coordinates, header, offsets
<1>3. PICK cplcoe \in SUBSET chincpl,
           rematstr \in IF acmod = 2 THEN BOOLEAN ELSE {FALSE} :
        Sends((cpl \in due => cplcoe = chincpl) /\ (first /\ acmod = 2 => rematstr),
              Of("cplco", cplcoe) \union (IF rematstr THEN Of("rematflg", {0}) ELSE {}), {})
  BY DEF Coordinates
<1>4. sound' =>
        /\ sound /\ changed' = changed
        /\ \A f : f \notin old => f \notin old'
        /\ cpl \in due => \A x \in chincpl : Known("cplco", x)'
        /\ first /\ acmod = 2 => Known("rematflg", 0)'
  <2>1. sound' =>
          /\ sound /\ (cpl \in due => cplcoe = chincpl)
          /\ (first /\ acmod = 2 => rematstr)
          /\ old' = old \ (Of("cplco", cplcoe) \union
                            (IF rematstr THEN Of("rematflg", {0}) ELSE {}))
          /\ changed' = changed
    BY <1>2, <1>3 DEF Sends
  <2> QED
    BY <2>1 DEF Known, Of
<1>5. /\ Channels' = Channels /\ Coded' = Coded
      /\ zero_snr_offsets' <=> zero_snr_offsets
  BY <1>2, CodedKept DEF zero_snr_offsets
<1>6. Debts'
  BY <1>2, <1>4, <1>5 DEF BInv, Debts, Early
<1>7. CASE sound'
  <2>1. CouplingKnown' /\ DeltaKnown'
    BY <1>2, <1>4, <1>5, <1>7 DEF BInv, Own, CouplingKnown, DeltaKnown, Known, By, Parts
  <2>2. CoordinatesKnown'
    <3>1. ASSUME cpl \notin due, first PROVE chincpl = {}
      BY <1>2, <1>4, <1>7, <3>1, ChannelsType DEF BInv, Debts, Early, Coded
    <3>2. /\ ~first /\ cpl \notin due => \A x \in chincpl : Known("cplco", x)'
          /\ ~first /\ acmod = 2 => Known("rematflg", 0)'
      BY <1>2, <1>4, <1>7 DEF BInv, Own, CoordinatesKnown, Known, By
    <3> QED
      BY <1>2, <1>4, <1>7, <3>1, <3>2 DEF CoordinatesKnown
  <2>3. ExponentsKnown' /\ ParametersKnown'
    BY <1>2, <1>4, <1>5, <1>7
       DEF BInv, Own, ExponentsKnown, ParametersKnown, Known, By, Parts, Early
  <2>4. Allocated'
    BY <1>2, <1>4, <1>5, <1>7 DEF BInv, Own, Allocated, Pending, By, Early
  <2> QED
    BY <1>1, <1>6, <2>1, <2>2, <2>3, <2>4 DEF BInv, Own
<1> QED
  BY <1>1, <1>6, <1>7, UnsoundBInv

\* The exponents: those that were due are sent, and change the allocation.
LEMMA ExponentsBInv == ASSUME BInv, Exponents, pc' # "idle" PROVE BInv'
<1>1. TypeOK'
  BY NextTypeOK DEF BInv, Next, a52_block
<1>2. PICK expstr \in SUBSET Coded :
        /\ do_bit_alloc' = expstr
        /\ Sends(due \subseteq expstr, Of("exp", expstr), expstr)
        /\ pc' = "parameters"
        /\ UNCHANGED <<first, due>>
  BY DEF Exponents, Error
<1>3. /\ pc = "exponents" /\ pc' = "parameters" /\ acmod \in 0..7
      /\ UNCHANGED <<acmod, lfeon, chincpl, csnroffst, fine, deltbae, bap, first, due>>
      /\ lfeon \in BOOLEAN /\ first \in BOOLEAN /\ sound \in BOOLEAN
      /\ do_bit_alloc = {}
  BY <1>2 DEF BInv, Debts, TypeOK, Exponents, header, offsets
<1>4. sound' =>
        /\ sound /\ due \subseteq expstr
        /\ changed' = changed \union expstr
        /\ \A f : f \notin old => f \notin old'
        /\ \A x \in expstr : Known("exp", x)'
  <2>1. sound' =>
          /\ sound /\ due \subseteq expstr
          /\ old' = old \ Of("exp", expstr)
          /\ changed' = changed \union expstr
    BY <1>2, <1>3 DEF Sends
  <2> QED
    BY <2>1 DEF Known, Of
<1>5. /\ Channels' = Channels /\ Coded' = Coded
      /\ zero_snr_offsets' <=> zero_snr_offsets
  BY <1>3, CodedKept DEF zero_snr_offsets
<1>6. Debts'
  BY <1>2, <1>3, <1>4, <1>5 DEF BInv, Debts, Early
<1>7. CASE sound'
  <2>1. CouplingKnown' /\ DeltaKnown'
    BY <1>3, <1>4, <1>5, <1>7 DEF BInv, Own, CouplingKnown, DeltaKnown, Known, By, Parts
  <2>2. CoordinatesKnown'
    BY <1>3, <1>4, <1>7 DEF BInv, Own, CoordinatesKnown, Known, By, Parts
  <2>3. ExponentsKnown'
    BY <1>3, <1>4, <1>5, <1>7 DEF BInv, Own, ExponentsKnown, Known, By, Parts
  <2>4. ParametersKnown'
    BY <1>3, <1>4, <1>5, <1>7 DEF BInv, Own, ParametersKnown, Known, By, Early
  <2>5. Allocated'
    <3>1. Pending = due /\ due \subseteq Pending' /\ expstr \subseteq Pending'
      BY <1>2, <1>3 DEF Pending
    <3> QED
      BY <1>3, <1>4, <1>5, <1>7, <3>1 DEF BInv, Own, Allocated, By, Early
  <2> QED
    BY <1>1, <1>6, <2>1, <2>2, <2>3, <2>4, <2>5 DEF BInv, Own
<1> QED
  BY <1>1, <1>6, <1>7, UnsoundBInv

\* The parameters: new ones are for all channels, and a first block and one in
\* which the coupling begins have to send them.
LEMMA ParametersBInv == ASSUME BInv, Parameters PROVE BInv'
<1>1. TypeOK'
  BY NextTypeOK DEF BInv, Next, a52_block
<1>2. /\ pc = "parameters" /\ pc' = "delta" /\ acmod \in 0..7 /\ due' = {}
      /\ UNCHANGED <<acmod, lfeon, chincpl, deltbae, bap, first>>
      /\ lfeon \in BOOLEAN /\ first \in BOOLEAN /\ sound \in BOOLEAN
  BY DEF BInv, TypeOK, Parameters, header
<1>3. Channels' = Channels /\ Coded' = Coded /\ Coded \subseteq Everything
  BY <1>2, CodedKept, ChannelsType DEF Coded
<1>4. Debts'
  BY <1>2 DEF Parameters, Sends, BInv, Debts, Early
<1>5. CASE sound'
  <2> DEFINE Sent(baie, snroffste, cplleake) ==
               (IF baie THEN Of("bai", {0}) ELSE {}) \union
               (IF snroffste THEN Of("csnroffst", {0}) \union Of("ba", Coded) ELSE {})
                 \union (IF cplleake THEN Of("leak", {cpl}) ELSE {})
             Touched(baie, snroffste, cplleake) ==
               {x \in Everything : \/ baie
                                   \/ snroffste /\ x \in Coded
                                   \/ cplleake /\ x = cpl}
  <2>0. PICK baie, snroffste \in BOOLEAN,
             cplleake \in IF chincpl # {} THEN BOOLEAN ELSE {FALSE} :
          /\ IF snroffste
             THEN \E sent \in Offsets :
                    /\ csnroffst' = sent[1]
                    /\ fine' = (fine \ Coded) \union (sent[2] \intersect Coded)
             ELSE UNCHANGED offsets
          /\ do_bit_alloc' = IF baie \/ snroffste THEN Everything
                             ELSE IF cplleake THEN do_bit_alloc \union {cpl}
                             ELSE do_bit_alloc
          /\ Sends((first => baie /\ snroffste) /\ (cpl \in due => snroffste /\ cplleake),
                   Sent(baie, snroffste, cplleake), Touched(baie, snroffste, cplleake))
    BY Zenon DEF Parameters
  <2>1. /\ ~ snroffste => UNCHANGED offsets
        /\ do_bit_alloc' = IF baie \/ snroffste THEN Everything
                           ELSE IF cplleake THEN do_bit_alloc \union {cpl}
                           ELSE do_bit_alloc
        /\ sound /\ (first => baie /\ snroffste)
        /\ cpl \in due => snroffste /\ cplleake
        /\ old' = old \ Sent(baie, snroffste, cplleake)
        /\ changed' = changed \union Touched(baie, snroffste, cplleake)
    BY <1>2, <1>5, <2>0 DEF Sends
  <2>2. \A f : f \notin old => f \notin old'
    BY <2>1
  <2>3. CouplingKnown' /\ DeltaKnown'
    BY <1>2, <1>3, <2>1, <2>2
       DEF BInv, Own, CouplingKnown, DeltaKnown, Known, By, Parts
  <2>4. CoordinatesKnown' /\ ExponentsKnown'
    BY <1>2, <1>3, <2>1, <2>2
       DEF BInv, Own, CoordinatesKnown, ExponentsKnown, Known, By, Parts
  <2>5. /\ ~ (baie \/ snroffste) => ~ first /\ cpl \notin due
        /\ first /\ chincpl # {} => cpl \in due
    BY <1>2, <1>3, <2>1, ChannelsType DEF BInv, Debts, Early, Coded
  <2>6. ParametersKnown'
    <3>1. /\ baie => Known("bai", 0)'
          /\ snroffste => Known("csnroffst", 0)' /\ \A x \in Coded : Known("ba", x)'
          /\ cplleake => Known("leak", cpl)'
      BY <2>1 DEF Known, Of
    <3>2. ~first =>
            /\ Known("bai", 0)' /\ Known("csnroffst", 0)'
            /\ \A x \in Coded : (x = cpl /\ cpl \in due) \/ Known("ba", x)'
            /\ chincpl # {} => cpl \in due \/ Known("leak", cpl)'
      BY <2>1, <2>2 DEF BInv, Own, ParametersKnown, Known, By
    <3> QED
      BY <1>2, <1>3, <2>1, <2>5, <3>1, <3>2 DEF ParametersKnown
  <2>7. Allocated'
    <3>1. CASE baie \/ snroffste
      <4>1. Pending' = Everything /\ Everything # {}
        BY <1>2, <2>1, <3>1 DEF Pending, Everything
      <4> QED
        BY <1>3, <4>1 DEF Allocated
    <3>2. CASE ~ (baie \/ snroffste)
      <4>1. /\ ~first /\ cpl \notin due /\ UNCHANGED offsets
            /\ due \subseteq do_bit_alloc
        BY <1>2, <2>1, <2>5, <3>2 DEF BInv, Debts
      <4>2. zero_snr_offsets' <=> zero_snr_offsets
        BY <1>3, <4>1 DEF zero_snr_offsets, offsets
      <4>3. IF zero_snr_offsets
            THEN do_bit_alloc # {} \/ \A x \in Coded : bap[x] = "zero"
            ELSE \A x \in Coded : x \in do_bit_alloc
                                    \/ (bap[x] = "set" /\ x \notin changed)
        BY <1>2, <2>1, <4>1 DEF BInv, Own, Allocated, Pending, By
      <4>4. /\ Pending' = do_bit_alloc' /\ do_bit_alloc \subseteq do_bit_alloc'
            /\ \A x : x \notin changed => x \notin changed' \/ x \in do_bit_alloc'
        BY <1>2, <2>1, <3>2 DEF Pending
      <4> QED
        BY <1>2, <1>3, <4>2, <4>3, <4>4 DEF Allocated
    <3> QED
      BY <3>1, <3>2
  <2> QED
    BY <1>1, <1>4, <2>3, <2>4, <2>6, <2>7 DEF BInv, Own
<1> QED
  BY <1>1, <1>4, <1>5, UnsoundBInv

\* The two ways of a block that is not at error with its delta bit allocation.
LEMMA DeltaCases ==
  ASSUME Delta, pc' # "idle"
  PROVE  /\ pc = "delta" /\ pc' = "allocation"
         /\ UNCHANGED <<acmod, lfeon, chincpl, csnroffst, fine, bap, first, due>>
         /\ \/ UNCHANGED <<deltbae, do_bit_alloc, sound, old, changed>>
            \/ \E sent \in Deltas :
                 /\ deltbae' = [x \in Everything |->
                                  IF x \in Coded \ {lfe} THEN sent[x] ELSE deltbae[x]]
                 /\ do_bit_alloc' = Everything
                 /\ Sends(\A x \in Coded \ {lfe} :
                            sent[x] = "reuse" => deltbae[x] # "none",
                          Of("deltba", {x \in Coded \ {lfe} : sent[x] = "new"}),
                          Everything)
<1> DEFINE Given == Coded \ {lfe}
<1>1. /\ pc = "delta"
      /\ UNCHANGED <<header, chincpl, offsets, bap>>
      /\ \/ pc' = "allocation"
            /\ UNCHANGED <<deltbae, do_bit_alloc, first, due, sound, old, changed>>
         \/ \E sent \in Deltas :
              /\ deltbae' = [x \in Everything |->
                               IF x \in Given THEN sent[x] ELSE deltbae[x]]
              /\ do_bit_alloc' = Everything
              /\ Sends(\A x \in Given : sent[x] = "reuse" => deltbae[x] # "none",
                       Of("deltba", {x \in Given : sent[x] = "new"}), Everything)
              /\ pc' = "allocation" /\ UNCHANGED <<first, due>>
  BY Zenon DEF Delta, Error
<1> QED
  BY <1>1, Zenon DEF header, offsets

\* The delta bit allocation: what goes on was begun in this frame.
LEMMA DeltaBInv == ASSUME BInv, Delta, pc' # "idle" PROVE BInv'
<1>1. TypeOK'
  BY NextTypeOK DEF BInv, Next, a52_block
<1>2. /\ pc = "delta" /\ pc' = "allocation" /\ acmod \in 0..7 /\ due = {} /\ due' = {}
      /\ UNCHANGED <<acmod, lfeon, chincpl, csnroffst, fine, bap, first>>
      /\ lfeon \in BOOLEAN /\ first \in BOOLEAN /\ sound \in BOOLEAN
  BY DeltaCases DEF BInv, Debts, Early, TypeOK
<1>3. /\ Channels' = Channels /\ Coded' = Coded /\ Coded \subseteq Everything
      /\ zero_snr_offsets' <=> zero_snr_offsets
  BY <1>2, CodedKept, ChannelsType DEF Coded, zero_snr_offsets
<1>4. Debts'
  BY <1>2 DEF Delta, Error, Sends, BInv, Debts, Early
<1>5. ASSUME sound', sound, DeltaKnown', Allocated', \A f : f \notin old => f \notin old'
      PROVE  BInv'
  <2>1. CouplingKnown' /\ CoordinatesKnown'
    BY <1>2, <1>3, <1>5 DEF BInv, Own, CouplingKnown, CoordinatesKnown, Known, By, Parts
  <2>2. ExponentsKnown' /\ ParametersKnown'
    BY <1>2, <1>3, <1>5
       DEF BInv, Own, ExponentsKnown, ParametersKnown, Known, By, Parts, Early
  <2> QED
    BY <1>1, <1>4, <1>5, <2>1, <2>2 DEF BInv, Own
<1>6. CASE sound' /\ UNCHANGED <<deltbae, do_bit_alloc, sound, old, changed>>
  <2>1. DeltaKnown'
    BY <1>6 DEF BInv, Own, DeltaKnown, Known
  <2>2. Allocated'
    BY <1>2, <1>3, <1>6 DEF BInv, Own, Allocated, Pending, By, Parts, Early
  <2> QED
    BY <1>5, <1>6, <2>1, <2>2
<1>7. CASE sound' /\ ~ UNCHANGED <<deltbae, do_bit_alloc, sound, old, changed>>
  <2>1. PICK sent \in Deltas :
          /\ deltbae' = [x \in Everything |->
                           IF x \in Coded \ {lfe} THEN sent[x] ELSE deltbae[x]]
          /\ do_bit_alloc' = Everything
          /\ Sends(\A x \in Coded \ {lfe} : sent[x] = "reuse" => deltbae[x] # "none",
                   Of("deltba", {x \in Coded \ {lfe} : sent[x] = "new"}), Everything)
    BY <1>7, DeltaCases
  <2>2. /\ sound /\ \A x \in Coded \ {lfe} : sent[x] = "reuse" => deltbae[x] # "none"
        /\ old' = old \ Of("deltba", {x \in Coded \ {lfe} : sent[x] = "new"})
    BY <1>2, <1>7, <2>1 DEF Sends
  <2>3. \A f : f \notin old => f \notin old'
    BY <2>2
  <2>4. DeltaKnown'
    <3> SUFFICES ASSUME NEW x \in Everything \ {lfe}, deltbae'[x] # "none"
                 PROVE  Known("deltba", x)'
      BY DEF DeltaKnown
    <3>1. deltbae[x] # "none" => Known("deltba", x)
      BY <2>2 DEF BInv, Own, DeltaKnown
    <3>2. CASE x \in Coded /\ sent[x] = "new"
      BY <2>2, <3>2 DEF Known, Of
    <3>3. CASE ~ (x \in Coded /\ sent[x] = "new")
      <4>1. sent[x] \in DeltaBits
        BY <2>1
      <4>2. deltbae[x] # "none"
        BY <2>1, <2>2, <3>3, <4>1 DEF DeltaBits
      <4> QED
        BY <2>3, <3>1, <4>2 DEF Known
    <3> QED
      BY <3>2, <3>3
  <2>5. Allocated'
    <3>1. Pending' = Everything /\ Everything # {}
      BY <1>2, <2>1 DEF Pending, Everything
    <3> QED
      BY <1>3, <3>1 DEF Allocated
  <2> QED
    BY <1>5, <1>7, <2>2, <2>3, <2>4, <2>5
<1> QED
  BY <1>1, <1>4, <1>6, <1>7, UnsoundBInv

\* The bit allocation: no coded channel waits any longer.
LEMMA AllocationBInv == ASSUME BInv, Allocation PROVE BInv'
<1>1. TypeOK'
  BY NextTypeOK DEF BInv, Next, a52_block
<1>2. /\ pc = "allocation" /\ pc' = "coefficients" /\ acmod \in 0..7
      /\ due = {} /\ due' = {} /\ do_bit_alloc' = {}
      /\ UNCHANGED <<acmod, lfeon, chincpl, csnroffst, fine, deltbae, first, sound, old>>
      /\ lfeon \in BOOLEAN /\ bap \in [Everything -> {"zero", "set"}]
  BY DEF BInv, Debts, Early, TypeOK, Allocation, header, offsets
<1>3. /\ Channels' = Channels /\ Coded' = Coded /\ Coded \subseteq Everything
      /\ Coded \subseteq Channels \union {lfe, cpl}
      /\ zero_snr_offsets' <=> zero_snr_offsets
  BY <1>2, CodedKept, ChannelsType DEF Coded, CodedWith, zero_snr_offsets
<1>4. Debts'
  BY <1>2 DEF BInv, Debts, Early
<1>5. CASE sound'
  <2>1. CouplingKnown' /\ CoordinatesKnown' /\ DeltaKnown'
    BY <1>2, <1>3, <1>5 DEF BInv, Own, CouplingKnown, CoordinatesKnown, DeltaKnown,
                            Known, By, Parts
  <2>2. ExponentsKnown' /\ ParametersKnown'
    BY <1>2, <1>3, <1>5
       DEF BInv, Own, ExponentsKnown, ParametersKnown, Known, By, Parts, Early
  <2>3. IF zero_snr_offsets
        THEN do_bit_alloc # {} \/ \A x \in Coded : bap[x] = "zero"
        ELSE \A x \in Coded : x \in do_bit_alloc \/ (bap[x] = "set" /\ x \notin changed)
    BY <1>2, <1>5 DEF BInv, Own, Allocated, Pending, By, Parts, Early
  <2>4. IF zero_snr_offsets
        THEN \A x \in Coded : bap'[x] = "zero"
        ELSE \A x \in Coded : bap'[x] = "set" /\ x \notin changed'
    <3>1. CASE do_bit_alloc = {}
      BY <2>3, <3>1 DEF Allocation
    <3>2. CASE do_bit_alloc # {} /\ zero_snr_offsets
      BY <1>2, <1>3, <3>2 DEF Allocation
    <3>3. CASE do_bit_alloc # {} /\ ~ zero_snr_offsets
      <4> DEFINE computed == do_bit_alloc \intersect Coded
      <4>1. /\ bap' = [x \in Everything |-> IF x \in computed THEN "set" ELSE bap[x]]
            /\ changed' = changed \ computed
        BY <1>2, <1>5, <3>3 DEF Allocation
      <4> QED
        BY <1>3, <2>3, <3>3, <4>1
    <3> QED
      BY <3>1, <3>2, <3>3
  <2>5. Allocated'
    BY <1>3, <2>4 DEF Allocated
  <2> QED
    BY <1>1, <1>4, <2>1, <2>2, <2>5 DEF BInv, Own
<1> QED
  BY <1>1, <1>4, <1>5, UnsoundBInv

\* The mantissas: what this block knew is what the next one starts with.
LEMMA CoefficientsBInv == ASSUME BInv, Coefficients PROVE BInv'
<1>1. TypeOK'
  BY NextTypeOK DEF BInv, Next, a52_block
<1>2. /\ pc = "coefficients" /\ pc' = "idle" /\ ~ first' /\ acmod \in 0..7
      /\ due = {} /\ do_bit_alloc = {}
      /\ UNCHANGED <<acmod, lfeon, chincpl, csnroffst, fine, deltbae, bap,
                     do_bit_alloc, due, sound, old, changed>>
  BY DEF BInv, Debts, Early, TypeOK, Coefficients, header, offsets
<1>3. /\ Channels' = Channels /\ Coded' = Coded
      /\ zero_snr_offsets' <=> zero_snr_offsets
  BY <1>2, CodedKept DEF zero_snr_offsets
<1>4. Debts'
  BY <1>2 DEF BInv, Debts, Early
<1>5. CASE sound'
  <2>1. CouplingKnown' /\ CoordinatesKnown' /\ DeltaKnown'
    BY <1>2, <1>3, <1>5 DEF BInv, Own, CouplingKnown, CoordinatesKnown, DeltaKnown,
                            Known, By, Parts
  <2>2. ExponentsKnown' /\ ParametersKnown' /\ Allocated'
    BY <1>2, <1>3, <1>5
       DEF BInv, Own, ExponentsKnown, ParametersKnown, Allocated, Pending, Known, By,
           Parts, Early
  <2> QED
    BY <1>1, <1>4, <2>1, <2>2 DEF BInv, Own
<1> QED
  BY <1>1, <1>4, <1>5, UnsoundBInv

LEMMA NextBInv == ASSUME BInv, [Next]_vars PROVE BInv'
<1>1. CASE a52_frame
  BY <1>1, FrameBInv
<1>2. CASE a52_block
  <2>1. CASE pc' = "idle"
    <3>1. Error \/ Coefficients
      BY <1>2, <2>1 DEF a52_block, Coupling, Coordinates, Exponents, Parameters, Delta,
                        Allocation
    <3> QED
      BY <1>2, <3>1, ErrorBInv, CoefficientsBInv
  <2>2. CASE pc' # "idle"
    BY <1>2, <2>2, CouplingBInv, CoordinatesBInv, ExponentsBInv, ParametersBInv,
       DeltaBInv, AllocationBInv, CoefficientsBInv DEF a52_block
  <2> QED
    BY <2>1, <2>2
<1>3. CASE UNCHANGED vars
  <2>1. /\ UNCHANGED <<acmod, lfeon, pc, chincpl, csnroffst, fine, deltbae, bap,
                       do_bit_alloc, first, due, sound, old, changed>>
    BY <1>3 DEF vars, header, offsets
  <2> QED
    BY <2>1 DEF BInv, TypeOK, Debts, Own, CouplingKnown, CoordinatesKnown,
                ExponentsKnown, ParametersKnown, DeltaKnown, Allocated, Pending, Known,
                By, Coded, CodedWith, Channels, nfchans, zero_snr_offsets
<1> QED
  BY <1>1, <1>2, <1>3 DEF Next

\* The types of the decoder's side information.
THEOREM TypeCorrect == Spec => []TypeOK
<1>1. Init => TypeOK
  BY InitTypeOK
<1>2. TypeOK /\ [Next]_vars => TypeOK'
  BY NextTypeOK
<1> QED
  BY <1>1, <1>2, PTL DEF Spec

\* Whatever a stream did before, and whatever fields its blocks leave out: when
\* the mantissas of a sound frame are read, everything that is read was sent by
\* this frame, and each channel's bit allocation is the one of its last inputs.
THEOREM BlocksUseOwnSideInformation == Spec => []OwnSideInformation
<1>1. Init => BInv
  BY InitBInv
<1>2. BInv /\ [Next]_vars => BInv'
  BY NextBInv
<1>3. ASSUME BInv PROVE OwnSideInformation
  <2> SUFFICES ASSUME pc = "coefficients", sound
               PROVE  Reads \intersect old = {} /\ \A x \in Coded : Fresh(x)
    BY DEF OwnSideInformation
  <2>1. /\ acmod \in 0..7 /\ lfeon \in BOOLEAN /\ due = {} /\ do_bit_alloc = {}
        /\ CouplingKnown /\ CoordinatesKnown /\ ExponentsKnown /\ ParametersKnown
        /\ DeltaKnown /\ Allocated
    BY <1>3 DEF BInv, TypeOK, Debts, Early, Own
  <2>2. \A x \in Coded : Fresh(x)
    BY <2>1 DEF Allocated, Pending, By, Parts, Early, Fresh
  <2>3. CouplingReads \intersect old = {}
    BY <2>1 DEF CouplingReads, CouplingKnown, CoordinatesKnown, ParametersKnown, Known,
                By, Parts, Early, Of
  <2>4. RematrixReads \intersect old = {}
    BY <2>1 DEF RematrixReads, CoordinatesKnown, Known, By, Parts, Of
  <2>5. ASSUME NEW x \in Coded PROVE AllocationReads(x) \intersect old = {}
    <3>1. x \in Everything
      BY <2>1, ChannelsType DEF Coded
    <3>2. /\ Known("bai", 0) /\ Known("csnroffst", 0) /\ Known("ba", x)
      BY <2>1 DEF ParametersKnown, By, Parts, Early
    <3>3. Known("exp", x)
      BY <2>1 DEF ExponentsKnown, By, Parts
    <3>4. x # lfe /\ deltbae[x] # "none" => Known("deltba", x)
      BY <2>1, <3>1 DEF DeltaKnown
    <3> QED
      BY <3>2, <3>3, <3>4 DEF AllocationReads, Known, Of
  <2>6. \A x \in Coded : AllocationReads(x) \intersect old = {}
    BY <2>5
  <2> QED
    BY <2>2, <2>3, <2>4, <2>6 DEF Reads
<1> QED
  BY <1>1, <1>2, <1>3, PTL DEF Spec
==============================================================================
