---------------------------- MODULE MCStreamHeap ----------------------------
(* Five streams, three of them (elementary streams) without priority: two   *)
(* levels under the root, and a last parent with one or two children.       *)
EXTENDS StreamHeap, TLC

CONSTANTS s1, s2, s3, s4, s5

MCStreams == {s1, s2, s3, s4, s5}
MCPriority == s1 :> 0 @@ s2 :> 0 @@ s3 :> 0 @@ s4 :> 1 @@ s5 :> 2
Symmetry == Permutations({s1, s2, s3})
=============================================================================
