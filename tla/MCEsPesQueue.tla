---------------------------- MODULE MCEsPesQueue ----------------------------
(* Scripts of zero to MaxLen numbered frames: shorter, equal to and longer  *)
(* than each batch, and than both batches together.                         *)
EXTENDS EsPesQueue

CONSTANT MaxLen

Numbered == {[k \in 1..n |-> k] : n \in 0..MaxLen}
Numbers == 1..MaxLen
=============================================================================
