----------------------------- MODULE CodedChannel -----------------------------
(***************************************************************************)
(* A channel from AC3_encode_frame to a52_block.  The encoder chooses the   *)
(* exponents of the six blocks, allocates the bits of the mantissas and     *)
(* writes the blocks; the decoder reads them one by one, and has to find    *)
(* the same exponents and the same allocation: where it does not, it reads  *)
(* the rest of the frame from the wrong place.                              *)
(*                                                                         *)
(* The samples are abstracted to the exponents that the transform gives    *)
(* them.  The offsets, which the search of EncodeFrame finds for all       *)
(* channels, are any.  What the decoder keeps of an earlier frame is        *)
(* forgotten at a new one: a block that would use it finds nothing.         *)
(***************************************************************************)
EXTENDS ExponentCoding

CONSTANTS
  Sounds,           \* what a block of a channel may hold
  Exponents,        \* Exponents[x]: the 256 exponents of such a block
  FrameContents(_), \* the frames, as six sounds, that a full bandwidth channel
                    \* (FALSE) and the LFE channel (TRUE) may have
  Offsets,          \* the csnroffst and fsnroffst of the frames
  SentParameters(_, _),             \* what is sent with two offsets, and the two
  EncoderAllocation(_, _, _, _, _, _), \* allocations: those of BitAllocation, where
  DecoderAllocation(_, _, _)           \* sent_bai and the functions of the code are

ASSUME ExponentsAssumption ==
  Exponents \in [Sounds -> [1..Coefficients -> 0..24]]
ASSUME FramesAssumption ==
  \A is_lfe \in BOOLEAN : FrameContents(is_lfe) \subseteq [1..NB_BLOCKS -> Sounds]
ASSUME OffsetsAssumption == Offsets \subseteq (0..63) \X (0..15)

VARIABLES
  is_lfe,       \* which kind of channel it is
  fscod,        \* the rate
  sounds,       \* the frame: its six sounds
  encoded_exp,  \* the encoder's arrays, of the blocks that send exponents; those
  enc_bap,      \* of the blocks that reuse them are the same
  written,      \* the blocks that are not yet decoded
  exp, bap,     \* the decoder's expbap_t; <<>>: nothing
  bai           \* what state->bai, csnroffst and ba->bai hold
channel == <<is_lfe, fscod, sounds, encoded_exp, enc_bap, written, exp, bap, bai>>

nb_coefs == IF is_lfe THEN 7 ELSE 223

ChannelInit ==
  /\ is_lfe \in BOOLEAN
  /\ fscod \in 0..2
  /\ sounds = <<>> /\ encoded_exp = <<>> /\ enc_bap = <<>> /\ written = <<>>
  /\ exp = <<>> /\ bap = <<>> /\ bai = <<>>
------------------------------------------------------------------------------
\* The blocks that send exponents, by their strategies.
New(strategy) == {b \in 1..NB_BLOCKS : strategy[b] # EXP_REUSE}

\* Mutant: the exponents of the block that sends them are taken for all.
OfTheFirst(exponent, strategy, first) ==
  encode_exp(exponent[first], nb_coefs, strategy[first])
\* The exponents that block first sends: made of those of all the blocks that will
\* use them.
Encoded(exponent, strategy, first) ==
  LET users == first..(After(New(strategy), first) - 1)
  IN encode_exp(exponent_min(exponent, first, users, nb_coefs), nb_coefs, strategy[first])

\* What output_audio_block writes of the channel into block b; the first exponent
\* has four bits.
Block(strategy, encoded, o, b) ==
  [expstr |-> strategy[b],
   first  |-> IF strategy[b] = EXP_REUSE THEN 0 ELSE encoded[b][1] % 16,
   codes  |-> IF strategy[b] = EXP_REUSE THEN <<>> ELSE Codes(encoded[b], nb_coefs, strategy[b]),
   baie   |-> b = 1,
   bai    |-> SentParameters(o[1], o[2])]

AC3_encode_frame ==
  /\ sounds = <<>>
  /\ \E x \in FrameContents(is_lfe), o \in Offsets :
       LET exponent == [b \in 1..NB_BLOCKS |-> Exponents[x[b]]]
           strategy == compute_exp_strategy(exponent, is_lfe)
       IN /\ sounds' = x
          /\ encoded_exp' = [first \in New(strategy) |-> Encoded(exponent, strategy, first)]
          /\ enc_bap' = [first \in New(strategy) |->
               EncoderAllocation(SubSeq(encoded_exp'[first], 1, nb_coefs), nb_coefs,
                                 o[1], o[2], is_lfe, fscod)]
          /\ written' = [b \in 1..NB_BLOCKS |-> Block(strategy, encoded_exp', o, b)]
  /\ UNCHANGED <<is_lfe, fscod, exp, bap, bai>>

\* The exponents that a block sends.
Parsed(block) == parse_exponents(block.expstr, block.codes, block.first)

do_bit_alloc(block) == block.baie \/ block.expstr # EXP_REUSE

\* a52_bit_allocate with the parameters ba and the exponents e, except for the
\* offsets that mean that no mantissa is sent.
zero_snr_offsets(ba) == ba.csnroffst = 0 /\ ba.fsnroffst = 0
Allocation(ba, e) ==
  IF zero_snr_offsets(ba) THEN [i \in 1..nb_coefs |-> 0]
  ELSE DecoderAllocation(ba, SubSeq(e, 1, nb_coefs), fscod)

a52_block ==
  /\ written # <<>>
  /\ UNCHANGED <<is_lfe, fscod, sounds, encoded_exp, enc_bap>>
  /\ LET block == Head(written) IN
     /\ exp' = IF block.expstr = EXP_REUSE THEN exp ELSE Parsed(block)
     /\ bai' = IF block.baie THEN block.bai ELSE bai
     /\ bap' = IF exp' # <<>> /\ do_bit_alloc(block) THEN Allocation(bai', exp') ELSE bap
  /\ written' = Tail(written)

\* The frame is decoded; the next one finds nothing of it.
NextFrame ==
  /\ sounds # <<>> /\ written = <<>>
  /\ sounds' = <<>> /\ encoded_exp' = <<>> /\ enc_bap' = <<>>
  /\ exp' = <<>> /\ bap' = <<>> /\ bai' = <<>>
  /\ UNCHANGED <<is_lfe, fscod, written>>

ChannelNext == AC3_encode_frame \/ a52_block \/ NextFrame
ChannelSpec == ChannelInit /\ [][ChannelNext]_channel
------------------------------------------------------------------------------
\* The block decoded last, and the one whose exponents it uses.
Decoded == NB_BLOCKS - Len(written)
Sender  == Owner(DOMAIN encoded_exp, Decoded)

\* Whatever the exponents were and however they are grouped, sent or reused, in
\* each block the decoder has those that the encoder coded the mantissas with:
\* "now we have the exponent values the decoder will see" (ac3enc.cpp:749).
ExponentsAgree ==
  sounds # <<>> /\ Decoded > 0 =>
    SubSeq(exp, 1, nb_coefs) = SubSeq(encoded_exp[Sender], 1, nb_coefs)

\* The bits of a mantissa and the number of mantissas that share them, as
\* output_audio_block writes and as coeff_get reads them.
Written(b) ==
  CASE b = 0 -> <<0, 1>> [] b = 1 -> <<5, 3>> [] b = 2 -> <<7, 3>> [] b = 3 -> <<3, 1>>
    [] b = 4 -> <<7, 2>> [] b = 14 -> <<14, 1>> [] b = 15 -> <<16, 1>>
    [] OTHER -> <<b - 1, 1>>
Read(bapi) ==
  CASE bapi = 0 -> <<0, 1>> [] bapi = -1 -> <<5, 3>> [] bapi = -2 -> <<7, 3>>
    [] bapi = -3 -> <<7, 2>> [] OTHER -> <<bapi, 1>>

\* In each block the decoder reads as many bits, grouped alike, for every
\* mantissa as the encoder has written: the two allocations, which are computed
\* apart and never sent, are the same.
MantissasAgree ==
  sounds # <<>> /\ Decoded > 0 =>
    \A k \in 1..nb_coefs : Read(bap[k]) = Written(enc_bap[Sender][k])

\* The exponents coded for a run of blocks are the largest that fit: none is above
\* that of a coefficient it stands for in any of the blocks, so that no mantissa
\* overflows, and none is lower than the steps of the format ask for ("I'm sure
\* it is possible to find a better algorithm", ac3enc.cpp:728): between groups,
\* two at most.  Groups more than twelve apart do not constrain each other, and
\* the coefficients that only fill the last groups count in the first block.
LargestThatFit ==
  sounds # <<>> /\ Decoded = 0 =>
    \A b \in DOMAIN encoded_exp :
         LET size == group_size(written[b].expstr)
             last == 3 * nb_groups(nb_coefs, size)
             first(g) == IF g = 0 THEN 1 ELSE 2 + (g - 1) * size
             group(g) == first(g)..(first(g + 1) - 1)
             users(k) == IF k > nb_coefs THEN {b} ELSE b..(After(DOMAIN encoded_exp, b) - 1)
             least == [g \in 0..last |->
               Min((UNION {{Exponents[sounds[i]][k] : i \in users(k)} : k \in group(g)})
                   \union (IF g = 0 THEN {15} ELSE {}))]
         IN \A g \in 0..last :
              encoded_exp[b][first(g)] =
                Min({least[h] + 2 * Abs(g - h) : h \in (0..last) \intersect ((g - 12)..(g + 12))})
==============================================================================
