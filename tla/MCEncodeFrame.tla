---------------------------- MODULE MCEncodeFrame ----------------------------
(***************************************************************************)
(* Instances of EncodeFrame with the offsets and the bit counts of the     *)
(* code.  What samples may be is given by a few kinds of frame.            *)
(***************************************************************************)
EXTENDS EncodeFrame

MCContents == {"silence", "tones", "speech", "noise", "grouping", "dense",
               "excess"}

\* Steady sounds reuse their exponents, others send them more often; one
\* channel may differ from the others.
MCRenewed(x, ch) ==
  CASE x = "silence"  -> {}
    [] x = "tones"    -> IF ch = 1 THEN {4} ELSE {}
    [] x = "speech"   -> IF ch = 0 THEN {2, 5} ELSE {3}
    [] x = "grouping" -> {3}
    [] OTHER          -> {1, 2, 3, 4, 5}

\* The mantissas grow with the offset, at most so that no offset of those
\* that are tried fits; in "grouping" they shrink at times.
MCMantissaBits(x, cs, fs) ==
  LET offset == 16 * cs + fs IN
  CASE x = "silence"  -> 0
    [] x = "tones"    -> 3 * offset
    [] x = "speech"   -> 11 * offset
    [] x = "noise"    -> 40 * offset
    [] x = "grouping" -> 9 * offset + (IF cs % 3 = 1 THEN 900 ELSE 0)
    [] x = "dense"    -> 7000 + 900 * offset
    [] x = "excess"   -> 15000
==============================================================================
