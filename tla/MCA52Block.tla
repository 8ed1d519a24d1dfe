------------------------------ MODULE MCA52Block ------------------------------
(***************************************************************************)
(* Mono and stereo frames, the latter with coupling and rematrixing.  Fine *)
(* offsets are all zero, none is, or the coupling channel's only is not.   *)
(***************************************************************************)
EXTENDS A52Block

SomeHeaders == {<<1, FALSE>>, <<2, TRUE>>}
SomeOffsets == {<<FALSE, {}>>, <<FALSE, {cpl}>>, <<TRUE, Everything>>}

\* Delta bit allocation is begun, for one channel or for all, kept and ended.
Delta1(first0, others) == [x \in Everything |-> IF x = 0 THEN first0 ELSE others]
SomeDeltas  == {Delta1("new", "none"), Delta1("reuse", "new"), Delta1("reuse", "none")}
==============================================================================
