--------------------------------- MODULE Loops ---------------------------------
(***************************************************************************)
(* Loops of C over an index, as an operator of their body.                 *)
(***************************************************************************)
EXTENDS Integers

\* What "for (i = first; i <= last; i++) s = body[<<s, i>>]" makes of s, an element
\* of S.  A loop is taken in halves, so that a long one is not a deep one.
Loop(S, body, s, first, last) ==
  LET run[x \in S \X (first..last) \X (first..last)] ==
        LET half == (x[2] + x[3]) \div 2
        IN IF x[2] >= x[3] THEN body[<<x[1], x[2]>>]
           ELSE run[<<run[<<x[1], x[2], half>>], half + 1, x[3]>>]
  IN IF first > last THEN s ELSE run[<<s, first, last>>]
================================================================================
