-------------------------- MODULE EncodeFrame_proofs --------------------------
(***************************************************************************)
(* Proofs about EncodeFrame: that the bits counted beforehand are the bits  *)
(* written, except in stereo; that the search ends at an offset that fits  *)
(* and whose allocation is the one in force; and that it is the best one.   *)
(***************************************************************************)
EXTENDS EncodeFrame, TLAPS

\* The exponents of a channel take a whole number of bits.
LEMMA ExponentsTyped ==
  ASSUME NEW x, NEW ch \in 0..5, NEW b \in 0..5
  PROVE  ExponentBits(x, ch, b) \in Nat
<1> DEFINE g == GroupSize(x, ch, b)
<1>1. g \in {1, 2, 4}
  BY DEF GroupSize
<1>2. nb_coefs(ch) \in {7, 223}
  BY DEF nb_coefs
<1>3. (nb_coefs(ch) + 3 * g - 4) \div (3 * g) \in Nat
  <2>1. CASE nb_coefs(ch) = 7 /\ g = 1 BY <2>1
  <2>2. CASE nb_coefs(ch) = 7 /\ g = 2 BY <2>2
  <2>3. CASE nb_coefs(ch) = 7 /\ g = 4 BY <2>3
  <2>4. CASE nb_coefs(ch) = 223 /\ g = 1 BY <2>4
  <2>5. CASE nb_coefs(ch) = 223 /\ g = 2 BY <2>5
  <2>6. CASE nb_coefs(ch) = 223 /\ g = 4 BY <2>6
  <2>7. QED BY <1>1, <1>2, <2>1, <2>2, <2>3, <2>4, <2>5, <2>6
<1>4. QED
  BY <1>3 DEF ExponentBits

\* What a channel sends: its exponents, what goes with them, and both.
Exponents(x, ch) ==
  Six(LAMBDA b : IF Sends(x, ch, b) THEN ExponentBits(x, ch, b) ELSE 0)
Beside(x, ch, w) == Six(LAMBDA b : IF Sends(x, ch, b) THEN w ELSE 0)
Both(x, ch, w) ==
  Six(LAMBDA b : IF Sends(x, ch, b) THEN ExponentBits(x, ch, b) + w ELSE 0)

\* The bits of a channel are its exponents and what goes with each of them.
LEMMA ChannelSplits ==
  ASSUME NEW x, NEW ch \in 0..5
  PROVE  /\ Exponents(x, ch) \in Nat
         /\ Beside(x, ch, 8) \in Nat /\ Beside(x, ch, 0) = 0
         /\ \A w \in {0, 8} :
              Both(x, ch, w) = Exponents(x, ch) + Beside(x, ch, w)
<1>1. \A b \in 0..5 : ExponentBits(x, ch, b) \in Nat
  BY ExponentsTyped
<1>2. /\ ExponentBits(x, ch, 0) \in Nat /\ ExponentBits(x, ch, 1) \in Nat
      /\ ExponentBits(x, ch, 2) \in Nat /\ ExponentBits(x, ch, 3) \in Nat
      /\ ExponentBits(x, ch, 4) \in Nat /\ ExponentBits(x, ch, 5) \in Nat
  BY <1>1
<1>3. QED
  BY <1>2 DEF Exponents, Both, Beside, Six

\* The three totals, channel by channel.
AllExponents(nc, x) == Six(LAMBDA ch : IF ch < nc THEN Exponents(x, ch) ELSE 0)
AllBeside(nc, x) ==
  Six(LAMBDA ch : IF ch < nc
                  THEN Beside(x, ch, IF ch < nb_channels(nc) THEN 8 ELSE 0)
                  ELSE 0)
AllBoth(nc, x) ==
  Six(LAMBDA ch : IF ch < nc THEN Both(x, ch, IF ch # 5 THEN 8 ELSE 0) ELSE 0)

\* The totals may be taken over the blocks first, then over the channels.
LEMMA Totals ==
  ASSUME NEW nc \in 1..6, NEW x
  PROVE  /\ ExponentTotal(nc, x) = AllExponents(nc, x)
         /\ BesideTotal(nc, x) = AllBeside(nc, x)
         /\ WrittenTotal(nc, x) = AllBoth(nc, x)
  BY DEF Total, ExponentTotal, BesideTotal, WrittenTotal, AllExponents,
         AllBeside, AllBoth, Exponents, Beside, Both, Six

\* What is written with the exponents is what was counted with them.
LEMMA ExponentsAccount ==
  ASSUME NEW nc \in 1..6, NEW x
  PROVE  /\ ExponentTotal(nc, x) \in Nat /\ BesideTotal(nc, x) \in Nat
         /\ WrittenTotal(nc, x) = ExponentTotal(nc, x) + BesideTotal(nc, x)
<1> DEFINE e(ch) == Exponents(x, ch)
           w(ch) == Beside(x, ch, IF ch < nb_channels(nc) THEN 8 ELSE 0)
           v(ch) == Both(x, ch, IF ch # 5 THEN 8 ELSE 0)
<1>1. \A ch \in 0..5 : ch < nc => /\ e(ch) \in Nat /\ w(ch) \in Nat
                                 /\ v(ch) = e(ch) + w(ch)
  <2> SUFFICES ASSUME NEW ch \in 0..5, ch < nc
               PROVE  /\ e(ch) \in Nat /\ w(ch) \in Nat
                      /\ v(ch) = e(ch) + w(ch)
    OBVIOUS
  <2>1. (ch < nb_channels(nc)) <=> (ch # 5)
    BY DEF nb_channels
  <2>2. CASE ch = 5
    BY <2>1, <2>2, ChannelSplits
  <2>3. CASE ch # 5
    BY <2>1, <2>3, ChannelSplits
  <2>4. QED
    BY <2>2, <2>3
<1>2. /\ 0 < nc => e(0) \in Nat /\ w(0) \in Nat /\ v(0) = e(0) + w(0)
      /\ 1 < nc => e(1) \in Nat /\ w(1) \in Nat /\ v(1) = e(1) + w(1)
      /\ 2 < nc => e(2) \in Nat /\ w(2) \in Nat /\ v(2) = e(2) + w(2)
      /\ 3 < nc => e(3) \in Nat /\ w(3) \in Nat /\ v(3) = e(3) + w(3)
      /\ 4 < nc => e(4) \in Nat /\ w(4) \in Nat /\ v(4) = e(4) + w(4)
      /\ 5 < nc => e(5) \in Nat /\ w(5) \in Nat /\ v(5) = e(5) + w(5)
  <2> HIDE DEF e, w, v
  <2>1. QED
    BY <1>1
<1>3. /\ AllExponents(nc, x) \in Nat /\ AllBeside(nc, x) \in Nat
      /\ AllBoth(nc, x) = AllExponents(nc, x) + AllBeside(nc, x)
  BY <1>2 DEF AllExponents, AllBeside, AllBoth, Six
<1>4. QED
  BY <1>3, Totals

\* The bits written are the bits counted but for auxdatae, crcrsv and the CRC,
\* which are not written with the blocks, and but for the four rematrixing
\* flags of stereo, which are written and not counted.
LEMMA Accounting ==
  ASSUME NEW nc \in 1..6, NEW x \in Contents, NEW o \in Offsets
  PROVE  /\ frame_bits(nc, x) \in Nat
         /\ WrittenBits(nc, x, o)
              = frame_bits(nc, x) + MantissaBits(x, o[1], o[2]) - 18
                + (IF nc = 2 THEN 4 ELSE 0)
<1> DEFINE mant == MantissaBits(x, o[1], o[2])
           fixed == 65 + frame_bits_inc(acmod(nc))
                    + NB_BLOCKS * ((nb_channels(nc) * 2 + 2)
                                   + (IF acmod(nc) = 2 THEN 1 ELSE 0)
                                   + 2 * nb_channels(nc) + lfe(nc) + 1 + 1 + 2)
           plain == HeaderBits(nc) + Six(LAMBDA b : BlockBits(nc, b))
<1>1. /\ ExponentTotal(nc, x) \in Nat /\ BesideTotal(nc, x) \in Nat
      /\ WrittenTotal(nc, x) = ExponentTotal(nc, x) + BesideTotal(nc, x)
  BY ExponentsAccount
<1>2. mant \in Nat
  BY ContentsAssumption
<1>3. /\ fixed \in Nat
      /\ plain = fixed + 1 + (2 * 4 + 3 + 6 + nc * (4 + 3))
                 + (IF nc = 2 THEN 4 ELSE 0)
  <2> USE DEF HeaderBits, BlockBits, RematrixBits, Six, acmod,
              lfe, nb_channels, frame_bits_inc, NB_BLOCKS
  <2>1. CASE nc = 1 BY <2>1
  <2>2. CASE nc = 2 BY <2>2
  <2>3. CASE nc = 3 BY <2>3
  <2>4. CASE nc = 4 BY <2>4
  <2>5. CASE nc = 5 BY <2>5
  <2>6. CASE nc = 6 BY <2>6
  <2>7. QED BY <2>1, <2>2, <2>3, <2>4, <2>5, <2>6
<1>4. frame_bits(nc, x) = ExponentTotal(nc, x) + fixed + BesideTotal(nc, x) + 1
                          + (2 * 4 + 3 + 6 + nc * (4 + 3)) + 2 + 16
  <2>1. PICK blocks \in Nat :
          blocks = NB_BLOCKS * ((nb_channels(nc) * 2 + 2)
                                + (IF acmod(nc) = 2 THEN 1 ELSE 0)
                                + 2 * nb_channels(nc) + lfe(nc) + 1 + 1 + 2)
    BY DEF nb_channels, lfe, NB_BLOCKS
  <2>2. /\ frame_bits_inc(acmod(nc)) \in Nat
        /\ fixed = 65 + frame_bits_inc(acmod(nc)) + blocks
    BY <2>1 DEF frame_bits_inc, acmod
  <2>3. frame_bits(nc, x) = ExponentTotal(nc, x) + 65 + frame_bits_inc(acmod(nc))
                            + blocks + BesideTotal(nc, x) + 1
                            + (2 * 4 + 3 + 6 + nc * (4 + 3)) + 2 + 16
    BY <2>1 DEF frame_bits
  <2> HIDE DEF fixed
  <2>4. QED
    BY <1>1, <2>2, <2>3
<1>5. WrittenBits(nc, x, o) = plain + WrittenTotal(nc, x) + mant
  BY DEF WrittenBits
<1> HIDE DEF mant, fixed, plain
<1>6. QED
  BY <1>1, <1>2, <1>3, <1>4, <1>5 DEF mant

-------------------------------------------------------------------------------
\* What holds in each loop of the search, and of a frame once it is written.
Found == Fits(nb_all_channels, content, c, f)
Stuck(cs, fs) == ~Fits(nb_all_channels, content, cs, fs)

InLower  == pc = "lower" => found /\ c >= 0 /\ f = 0
InAscent == pc \in DOMAIN Ascent => found /\ c >= 0 /\ bap = <<c, f>> /\ Found
Coarse   == pc \in {"coarse", "coarse1"} => f = 0
Fine     == pc \in {"fine", "fine1"} => c = MaxCoarse \/ Stuck(c + 1, 0)
Top == pc = "write" /\ found =>
         /\ csnroffst = MaxCoarse \/ Stuck(csnroffst + 1, 0)
         /\ fsnroffst = MaxFine \/ Stuck(csnroffst, fsnroffst + 1)
Padded == 2 \notin ChannelCounts => FrameFits

IInv == /\ TypeOK /\ InLower /\ InAscent /\ Coarse /\ Fine
        /\ AllocationMatchesHeader /\ Top /\ Padded

\* The loops of the ascent.
LEMMA Loops ==
  /\ DOMAIN Ascent = {"coarse", "coarse1", "fine", "fine1"}
  /\ Ascent["coarse"]  = [dc |-> 4, df |-> 0, next |-> "coarse1"]
  /\ Ascent["coarse1"] = [dc |-> 1, df |-> 0, next |-> "fine"]
  /\ Ascent["fine"]    = [dc |-> 0, df |-> 4, next |-> "fine1"]
  /\ Ascent["fine1"]   = [dc |-> 0, df |-> 1, next |-> "write"]
  BY DEF Ascent, SNR_INC1

\* The invariant holds at the start.
LEMMA InitIInv == Init => IInv
  BY Loops DEF Init, IInv, TypeOK, InLower, InAscent, Coarse, Fine, Top,
     AllocationMatchesHeader, Padded, FrameFits, Offsets, MaxCoarse, MaxFine,
     SNR_INC1

\* A frame that fits, but for stereo, leaves room for the padding.
LEMMA RoomForPadding ==
  ASSUME TypeOK, 2 \notin ChannelCounts,
         Fits(nb_all_channels, content, bap[1], bap[2])
  PROVE  2 * frame_size
           - ((WrittenBits(nb_all_channels, content, bap) + 7) \div 8) - 2 >= 0
<1> DEFINE W == WrittenBits(nb_all_channels, content, bap)
           F == frame_bits(nb_all_channels, content)
           M == MantissaBits(content, bap[1], bap[2])
<1>1. nb_all_channels \in 1..6 /\ nb_all_channels # 2 /\ content \in Contents
      /\ bap \in Offsets
  BY ChannelsAssumption DEF TypeOK
<1>2. F \in Nat /\ W = F + M - 18
  <2>1. M \in Nat
    BY <1>1, ContentsAssumption
  <2> HIDE DEF M
  <2>2. QED
    BY <1>1, <2>1, Accounting DEF M
<1>3. M \in Nat
  BY <1>1, ContentsAssumption
<1>4. F + M <= 16 * frame_size
  BY DEF Fits
<1> HIDE DEF W, F, M
<1>5. W \in Int /\ W <= 16 * frame_size - 18 /\ frame_size \in Nat
  BY <1>2, <1>3, <1>4, FrameAssumption
<1>6. (W + 7) \div 8 <= 2 * frame_size - 2
  BY <1>5
<1>7. (W + 7) \div 8 \in Int
  BY <1>5
<1>8. QED
  BY <1>5, <1>6, <1>7 DEF W

\* Every step of the code keeps the invariant.
LEMMA NextIInv == IInv /\ [Next]_vars => IInv'
<1> SUFFICES ASSUME IInv, [Next]_vars PROVE IInv'
  OBVIOUS
<1> USE DEF IInv, InLower, InAscent, Coarse, Fine, Top, Padded, FrameFits,
            AllocationMatchesHeader, Found, Stuck
<1>1. ASSUME NEW channels \in ChannelCounts, AC3_encode_init(channels)
      PROVE  IInv'
  BY <1>1, Loops DEF AC3_encode_init, Configured, TypeOK, MaxCoarse
<1>2. ASSUME NEW x \in Contents, AC3_encode_frame(x)
      PROVE  IInv'
  BY <1>2, Loops DEF AC3_encode_frame, TypeOK, MaxFine, MaxCoarse, SNR_INC1
<1>3. CASE Lower
  <2> USE DEF Lower, TypeOK, MaxFine, MaxCoarse, SNR_INC1, Offsets
  <2>1. CASE Fits(nb_all_channels, content, c, 0)
    BY <1>3, <2>1, Loops
  <2>2. CASE Stuck(c, 0) /\ c - 4 < 0
    <3>1. pc' = "write" /\ found' = FALSE /\ c' = c - 4
      BY <1>3, <2>2
    <3>2. c \in 0..MaxCoarse /\ bap' = <<c, 0>> /\ f' = f
          /\ UNCHANGED <<nb_all_channels, csnroffst, fsnroffst, content, n>>
      BY <1>3, <2>2
    <3>4. c' \in (0 - SNR_INC1)..MaxCoarse /\ bap' \in Offsets
      BY <3>1, <3>2
    <3>5. TypeOK'
      BY <3>1, <3>2, <3>4
    <3>3. QED
      BY <1>3, <3>1, <3>5, Loops
  <2>3. CASE Stuck(c, 0) /\ ~(c - 4 < 0)
    BY <1>3, <2>3, Loops
  <2>4. QED
    BY <2>1, <2>2, <2>3
<1>4. CASE Raise
  <2>1. pc \in {"coarse", "coarse1", "fine", "fine1"}
    BY <1>4, Loops DEF Raise
  <2> USE DEF Raise, CanRaise, TypeOK, MaxFine, MaxCoarse, SNR_INC1, Offsets
  <2>2. CASE pc = "coarse"  BY <1>4, <2>2, Loops
  <2>3. CASE pc = "coarse1" BY <1>4, <2>3, Loops
  <2>4. CASE pc = "fine"    BY <1>4, <2>4, Loops
  <2>5. CASE pc = "fine1"   BY <1>4, <2>5, Loops
  <2>6. QED
    BY <2>1, <2>2, <2>3, <2>4, <2>5
<1>5. CASE Settle
  <2>1. pc \in {"coarse", "coarse1", "fine", "fine1"}
    BY <1>5, Loops DEF Settle
  <2> USE DEF Settle, CanRaise, TypeOK, MaxFine, MaxCoarse, SNR_INC1, Offsets
  <2>2. CASE pc = "coarse"  BY <1>5, <2>2, Loops
  <2>3. CASE pc = "coarse1" BY <1>5, <2>3, Loops
  <2>4. CASE pc = "fine"    BY <1>5, <2>4, Loops
  <2>5. CASE pc = "fine1"   BY <1>5, <2>5, Loops
  <2>6. QED
    BY <2>1, <2>2, <2>3, <2>4, <2>5
<1>6. CASE Write
  <2>1. TypeOK'
    BY <1>6 DEF Write, TypeOK, MaxCoarse, MaxFine, SNR_INC1, Offsets
  <2>2. ASSUME 2 \notin ChannelCounts, found PROVE n' >= 0
    <3>1. Fits(nb_all_channels, content, bap[1], bap[2])
      BY <1>6, <2>2 DEF Write
    <3>2. QED
      BY <1>6, <2>2, <3>1, RoomForPadding DEF Write
  <2>3. QED
    BY <1>6, <2>1, <2>2, Loops DEF Write
<1>7. CASE UNCHANGED vars
  BY <1>7, Loops DEF vars, TypeOK
<1>8. QED
  BY <1>1, <1>2, <1>3, <1>4, <1>5, <1>6, <1>7 DEF Next, Step

\* The inductive invariant holds in every reachable state.
THEOREM Invariance == Spec => []IInv
  BY InitIInv, NextIInv, PTL DEF Spec

\* Every variable keeps its type.
THEOREM TypeCorrect == Spec => []TypeOK
  BY Invariance, PTL DEF IInv

\* The mantissas are allocated for the offsets that the frame announces.
THEOREM AllocationIsAnnounced == Spec => []AllocationMatchesHeader
  BY Invariance, PTL DEF IInv

\* But for stereo, the assertion of output_frame_end holds of every frame that
\* the search found an offset for, whatever the samples and the frame size.
THEOREM FramesFit ==
  ASSUME 2 \notin ChannelCounts
  PROVE  Spec => []FrameFits
<1>1. IInv => FrameFits
  BY DEF IInv, Padded
<1>2. QED
  BY <1>1, Invariance, PTL

\* The search finds the best offset there is, if the mantissas grow with it,
\* wherever it begins.
THEOREM OffsetIsBest == Spec => []BestOffset
<1>1. IInv => BestOffset
  <2> SUFFICES ASSUME IInv, pc = "write", found, content \in Growing,
                      NEW o \in Offsets,
                      Fits(nb_all_channels, content, o[1], o[2])
               PROVE  Below(o, <<csnroffst, fsnroffst>>)
    BY DEF BestOffset
  <2> DEFINE F == frame_bits(nb_all_channels, content)
  <2>1. F \in Nat /\ frame_size \in Nat /\ content \in Contents
    BY ChannelsAssumption, FrameAssumption, Accounting DEF IInv, TypeOK
  <2>2. o[1] \in 0..63 /\ o[2] \in 0..15
        /\ csnroffst \in 0..63 /\ fsnroffst \in 0..15
    BY DEF IInv, TypeOK, Offsets, MaxCoarse, MaxFine
  <2>3. ASSUME NEW p \in Offsets, Below(p, o)
        PROVE  Fits(nb_all_channels, content, p[1], p[2])
    <3>1. MantissaBits(content, p[1], p[2]) <= MantissaBits(content, o[1], o[2])
      BY <2>3 DEF Growing
    <3>2. /\ MantissaBits(content, p[1], p[2]) \in Nat
          /\ MantissaBits(content, o[1], o[2]) \in Nat
      BY <2>1, <2>3, ContentsAssumption
    <3>3. F + MantissaBits(content, o[1], o[2]) <= 16 * frame_size
      BY DEF Fits
    <3> HIDE DEF F
    <3>4. F + MantissaBits(content, p[1], p[2]) <= 16 * frame_size
      BY <2>1, <3>1, <3>2, <3>3
    <3>5. QED
      BY <3>4 DEF Fits, F
  <2>4. CASE o[1] > csnroffst
    <3>1. <<csnroffst + 1, 0>> \in Offsets /\ Below(<<csnroffst + 1, 0>>, o)
      BY <2>2, <2>4 DEF Offsets, MaxCoarse, MaxFine, Below
    <3>2. Fits(nb_all_channels, content, csnroffst + 1, 0)
      BY <2>3, <3>1
    <3>3. csnroffst # MaxCoarse
      BY <2>2, <2>4 DEF MaxCoarse
    <3>4. QED
      BY <3>2, <3>3 DEF IInv, Top, Stuck
  <2>5. CASE o[1] = csnroffst /\ o[2] > fsnroffst
    <3>1. <<csnroffst, fsnroffst + 1>> \in Offsets
          /\ Below(<<csnroffst, fsnroffst + 1>>, o)
      BY <2>2, <2>5 DEF Offsets, MaxCoarse, MaxFine, Below
    <3>2. Fits(nb_all_channels, content, csnroffst, fsnroffst + 1)
      BY <2>3, <3>1
    <3>3. fsnroffst # MaxFine
      BY <2>2, <2>5 DEF MaxFine
    <3>4. QED
      BY <3>2, <3>3 DEF IInv, Top, Stuck
  <2>6. QED
    BY <2>2, <2>4, <2>5 DEF Below
<1>2. QED
  BY <1>1, Invariance, PTL
===============================================================================
