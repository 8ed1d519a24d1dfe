---------------------------- MODULE MCCodedChannel ----------------------------
(***************************************************************************)
(* Instances of CodedChannel: a few sounds, in frames that keep one, go    *)
(* from one to another, or change in every block.                          *)
(***************************************************************************)
EXTENDS CodedChannel, BitAllocation

MCSounds == {"silence", "loud", "fading", "rising", "comb", "noise", "quiet", "steps"}

MCExponents == [x \in MCSounds |-> [k \in 1..Coefficients |->
  CASE x = "silence" -> 24
    [] x = "loud"    -> k % 3
    [] x = "fading"  -> Min({2 * (k \div 2), 24})
    [] x = "rising"  -> Max({22 - 2 * k, 3})
    [] x = "comb"    -> IF k % 7 = 0 THEN 0 ELSE 20
    [] x = "noise"   -> (k * k + 5 * (k \div 7)) % 20
    [] x = "quiet"   -> 14 + (((k * k * k) + (k \div 11)) % 9)
    [] x = "steps"   -> (2 * (k % 9)) + (k \div 32)]]

\* x up to block n, then y; and x and y in turns.
Changes(x, y, n) == [b \in 1..NB_BLOCKS |-> IF b <= n THEN x ELSE y]
Turns(x, y)      == [b \in 1..NB_BLOCKS |-> IF b % 2 = 1 THEN x ELSE y]

MCFrameContents(lfe) ==
  {Changes(x, y, 3) : x \in MCSounds, y \in {"silence", "loud", "comb", "quiet"}}
    \union {Turns(x, "loud") : x \in MCSounds}

MCOffsets == {<<0, 1>>, <<20, 3>>, <<39, 14>>}
==============================================================================
