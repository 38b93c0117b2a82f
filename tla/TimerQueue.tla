----------------------------- MODULE TimerQueue -----------------------------
(***************************************************************************)
(* What streamHeap.h promises the muxer: a set of timed streams, each in   *)
(* it at most once, from which one extracts a stream with the smallest     *)
(* time stamp, the higher priority first among those with the same one.    *)
(***************************************************************************)
EXTENDS Integers

CONSTANTS Streams,  \* the streams of one heap
          Times,    \* time stamps
          Priority  \* Priority[s]: tsPriority the muxer gives to stream s

VARIABLES pending,    \* the timed streams
          extracted   \* the last one extracted, or None

vars == <<pending, extracted>>

Timed(s, t) == [tsPt |-> t, tsPriority |-> Priority[s], stream |-> s]
Nodes == {Timed(s, t) : s \in Streams, t \in Times}
None  == [tsPt |-> -1, tsPriority |-> 0, stream |-> "none"]

\* n is to be served before m.
Before(n, m) == \/ n.tsPt < m.tsPt
                \/ n.tsPt = m.tsPt /\ n.tsPriority > m.tsPriority

IsFirst(n) == n \in pending /\ \A m \in pending : ~Before(m, n)

Init == pending = {} /\ extracted = None

Add(n) == /\ \A m \in pending : m.stream # n.stream
          /\ pending' = pending \cup {n}
          /\ UNCHANGED extracted

Extract == \E n \in pending : /\ IsFirst(n)
                              /\ pending' = pending \ {n}
                              /\ extracted' = n

Next == Extract \/ \E n \in Nodes : Add(n)

Spec == Init /\ [][Next]_vars
=============================================================================
