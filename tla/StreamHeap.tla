----------------------------- MODULE StreamHeap -----------------------------
(***************************************************************************)
(* streamHeap.c: the binary heap that orders the streams of the muxer by   *)
(* the time of their next packet.  Indexes are the C ones, from 0.  Cells  *)
(* past usedSize are never read and are left out of content.               *)
(***************************************************************************)
EXTENDS Integers, Functions

CONSTANTS Streams, Times, Priority,  \* as in TimerQueue
          DefaultSize   \* STREAM_HEAP_DEFAULT_SIZE

ASSUME NodesAssumption == Priority \in [Streams -> Int] /\ Times \subseteq Nat
ASSUME DefaultSizeAssumption == DefaultSize \in Nat \ {0}

VARIABLES content,        \* 0..usedSize-1 -> node
          usedSize,
          allocatedSize,
          extracted       \* node given to the last caller

vars == <<content, usedSize, allocatedSize, extracted>>

IsQueue == INSTANCE TimerQueue WITH pending <- Range(content)

\* Time alone decides.
PrecedesInTime(left, right) == left.tsPt < right.tsPt

\* cmpNodesStreamHeap() < 0
Precedes(left, right) ==
  IF left.tsPt = right.tsPt THEN left.tsPriority > right.tsPriority
                            ELSE left.tsPt < right.tsPt

Parent(idx) == (idx - 1) \div 2

\* The right child is forgotten.
LeftChild(h, n, idx) == IF n <= 2 * idx + 1 THEN -1 ELSE 2 * idx + 1

\* childStreamHeap() in a heap h of n nodes: the right child wins ties.
Child(h, n, idx) ==
  LET left == 2 * idx + 1
      right == 2 * idx + 2
  IN  CASE n <= left -> -1
        [] left < n /\ n <= right -> left
        [] OTHER -> IF Precedes(h[left], h[right]) THEN left ELSE right

\* The positions that a node goes through from start, when it moves from position p to next[p]:
\* the least set that is closed under next.
Route(positions, start, next) ==
  {c \in positions : \A S \in SUBSET positions :
     start \in S /\ (\A p \in S \cap DOMAIN next : next[p] \in S) => c \in S}

\* Each node on the route takes the place before its own, the node at start that of the last.
Shifted(h, start, next) ==
  LET route == Route(DOMAIN h, start, next)
  IN  [k \in DOMAIN h |-> CASE k \notin route -> h[k]
                            [] k \in route \cap DOMAIN next -> h[next[k]]
                            [] OTHER -> h[start]]

\* shiftUpStreamHeap(): the node at idx takes the place of each ancestor that
\* it precedes; these go one level down.
Rising(h, idx) == {c \in DOMAIN h \ {0} : Precedes(h[idx], h[Parent(c)])}
ShiftUp(h, idx) == Shifted(h, idx, [c \in Rising(h, idx) |-> Parent(c)])

\* shiftDownStreamHeap(): the node at idx goes below each first child that
\* precedes it; these go one level up.
Sinking(h, n, idx) == {p \in DOMAIN h : Child(h, n, p) # -1 /\ Precedes(h[Child(h, n, p)], h[idx])}
ShiftDown(h, n, idx) == Shifted(h, idx, [p \in Sinking(h, n, idx) |-> Child(h, n, p)])

\* streamIsReadyStreamHeap()
IsReady(currentStcTs) == 0 < usedSize /\ content[0].tsPt <= currentStcTs

Init == /\ content = [k \in {} |-> IsQueue!None]
        /\ usedSize = 0 /\ allocatedSize = 0
        /\ extracted = IsQueue!None

\* increaseAllocationStreamHeap(), when the array is full.
IncreasedTo(size) == IF size < DefaultSize THEN DefaultSize ELSE 2 * size

Allocation == IF usedSize < allocatedSize THEN allocatedSize
                                          ELSE IncreasedTo(allocatedSize)

\* addStreamHeap(); the muxer only adds a stream that it took out before.
Add(n) ==
  /\ \A k \in DOMAIN content : content[k].stream # n.stream
  /\ allocatedSize' = Allocation
  /\ content' = ShiftUp([k \in 0..usedSize |-> IF k = usedSize THEN n ELSE content[k]],
                        usedSize)
  /\ usedSize' = usedSize + 1
  /\ UNCHANGED extracted

\* extractStreamHeap() with its editStreamHeap(): the last node replaces the
\* root.  Callers ask streamIsReadyStreamHeap() first.
Extract(currentStcTs) ==
  /\ IsReady(currentStcTs)
  /\ extracted' = content[0]
  /\ usedSize' = usedSize - 1
  /\ content' =
       LET moved == [k \in 0..usedSize - 2 |->
                       IF k = 0 THEN content[usedSize - 1] ELSE content[k]]
       IN  IF usedSize = 1 THEN moved ELSE ShiftDown(moved, usedSize - 1, 0)
  /\ UNCHANGED allocatedSize

Next == \/ \E s \in Streams, t \in Times : Add(IsQueue!Timed(s, t))
        \/ \E t \in Times : Extract(t)

Spec == Init /\ [][Next]_vars
-----------------------------------------------------------------------------
TypeOK == /\ usedSize \in 0..allocatedSize
          /\ allocatedSize \in Nat
          /\ content \in [0..usedSize - 1 -> IsQueue!Nodes]
          /\ extracted \in IsQueue!Nodes \cup {IsQueue!None}

(* No child is to be served before its parent, also along the right-hand    *)
(* branches that win ties and at the last, incomplete level.                *)
HeapOrder == \A k \in 1..usedSize - 1 : ~Precedes(content[k], content[Parent(k)])

(* The readiness test of the muxer looks at the root only, yet it misses no *)
(* stream whose time came.                                                  *)
ReadyIsComplete ==
  \A t \in Times : IsReady(t) <=> \E k \in DOMAIN content : content[k].tsPt <= t

(* The heap implements the timer queue: sifting never loses, doubles or     *)
(* reorders a stream, whatever the sequence of insertions and extractions.  *)
RefinesTimerQueue == IsQueue!Spec
=============================================================================
