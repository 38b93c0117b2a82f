--------------------------- MODULE CircularBuffer ---------------------------
(***************************************************************************)
(* util/circularBuffer.c: the growable ring that stores the frames of      *)
(* every buffer of the T-STD model and the pending frames of the DTS XLL   *)
(* parser.  One action per call; the caller writes a new entry as soon as  *)
(* newEntryCircularBuffer() returns its address, so a push is one step.    *)
(* Names with ring or Ring are also those of the read-ahead queues, which  *)
(* Queues_proofs has beside it.                                            *)
(***************************************************************************)
EXTENDS Integers, Sequences

CONSTANTS Entry,        \* the values an entry can hold
          Garbage,      \* content of memory that was never written
          DefaultSize,  \* CIRCULAR_BUFFER_DEFAULT_SIZE
          SizeLimit     \* size_t arithmetic is modulo this (2^64)

ASSUME SizeAssumption ==
  /\ DefaultSize \in Nat \ {0}
  /\ SizeLimit \in Nat
  /\ DefaultSize < SizeLimit
ASSUME GarbageAssumption == Garbage \notin Entry

VARIABLES buffer,        \* the array: 0..allocatedSize-1 -> entry
          allocatedSize,
          usedSize,
          top,           \* index of the oldest entry
          ret            \* result of the last call: 0 success, -1 failure

ringVars == <<buffer, allocatedSize, usedSize, top, ret>>

\* Index in the array of the i-th stored entry, i = 0 for the oldest.
Slot(i) == (top + i) % allocatedSize

\* GROW_CIRCULAR_BUFFER_SIZE: the left shift wraps.
Grow(size) == IF size < DefaultSize THEN DefaultSize
                                    ELSE (2 * size) % SizeLimit

\* realloc(): keeps the old entries, the others are not initialised.
Reallocated(newLength) ==
  [i \in 0..newLength - 1 |-> IF i < allocatedSize THEN buffer[i] ELSE Garbage]

\* A growth that forgets to move the wrapped entries.
UnwrappedNever(newLength) == Reallocated(newLength)

\* The loop that moves the wrapped entries behind the old end of the array:
\* the bI-th entry goes to index top + bI = dI.
Unwrapped(newLength) ==
  [d \in 0..newLength - 1 |->
     IF d \in allocatedSize..top + usedSize - 1
       THEN buffer[d % allocatedSize]
       ELSE Reallocated(newLength)[d]]

RingInit == /\ buffer = [i \in {} |-> Garbage]
            /\ allocatedSize = 0 /\ usedSize = 0 /\ top = 0
            /\ ret = 0

\* newEntryCircularBuffer() with room left, and the caller's write.
NewEntry(v) ==
  /\ usedSize < allocatedSize
  /\ buffer' = [buffer EXCEPT ![Slot(usedSize)] = v]
  /\ usedSize' = usedSize + 1
  /\ ret' = 0
  /\ UNCHANGED <<allocatedSize, top>>

\* newEntryCircularBuffer() on a full array: it grows first.
NewEntryGrow(v) ==
  LET newLength == Grow(allocatedSize) IN
  /\ allocatedSize <= usedSize
  /\ newLength > usedSize
  /\ buffer' = [Unwrapped(newLength) EXCEPT ![(top + usedSize) % newLength] = v]
  /\ allocatedSize' = newLength
  /\ usedSize' = usedSize + 1
  /\ ret' = 0
  /\ UNCHANGED top

\* newEntryCircularBuffer() returns NULL: the doubled size wrapped around,
\* or realloc() failed; the ring is as it was.
NewEntryFails ==
  /\ allocatedSize <= usedSize
  /\ ret' = -1
  /\ UNCHANGED <<buffer, allocatedSize, usedSize, top>>

\* getEntryCircularBuffer(i) and a write through the pointer it returns.
EditEntry(i, v) ==
  /\ i < usedSize
  /\ buffer' = [buffer EXCEPT ![Slot(i)] = v]
  /\ ret' = 0
  /\ UNCHANGED <<allocatedSize, usedSize, top>>

\* getEntryCircularBuffer(i) out of the used range returns NULL.
GetEntryFails(i) ==
  /\ usedSize <= i
  /\ ret' = -1
  /\ UNCHANGED <<buffer, allocatedSize, usedSize, top>>

\* A pop that keeps the oldest entry.
PopNewest ==
  /\ usedSize > 0
  /\ usedSize' = usedSize - 1
  /\ ret' = 0
  /\ UNCHANGED <<buffer, allocatedSize, top>>

PopEntry ==
  /\ usedSize > 0
  /\ top' = (top + 1) % allocatedSize
  /\ usedSize' = usedSize - 1
  /\ ret' = 0
  /\ UNCHANGED <<buffer, allocatedSize>>

PopEmpty ==
  /\ usedSize = 0
  /\ ret' = -1
  /\ UNCHANGED <<buffer, allocatedSize, usedSize, top>>

RingNext == \/ \E v \in Entry : NewEntry(v) \/ NewEntryGrow(v)
            \/ NewEntryFails
            \/ \E i \in 0..usedSize - 1, v \in Entry : EditEntry(i, v)
            \/ GetEntryFails(usedSize)
            \/ PopEntry
            \/ PopEmpty

RingSpec == RingInit /\ [][RingNext]_ringVars
-----------------------------------------------------------------------------
RingTypeOK == /\ allocatedSize \in 0..SizeLimit - 1
              /\ usedSize \in 0..allocatedSize
              /\ top \in Nat
              /\ buffer \in [0..allocatedSize - 1 -> Entry \cup {Garbage}]
              /\ ret \in {0, -1}

\* The first element stays inside the array; once allocated, the array never
\* is smaller than its default size.
RingOK == /\ allocatedSize = 0 => top = 0
          /\ allocatedSize > 0 => top < allocatedSize
          /\ allocatedSize = 0 \/ DefaultSize <= allocatedSize

\* The stored entries in FIFO order, as getEntryCircularBuffer() reads them.
Contents == [k \in 1..usedSize |-> buffer[Slot(k - 1)]]

(* No stored entry is memory the ring never wrote: growth moves the wrapped *)
(* entries of newEntryCircularBuffer() before anything reads them.          *)
NoGarbage == \A k \in 1..usedSize : Contents[k] \in Entry

IsFifo == INSTANCE Fifo WITH queue <- Contents

(* The ring implements the FIFO the header promises: wrapped indexes and    *)
(* the relocation when it grows neither lose, duplicate nor reorder entries.*)
RefinesFifo == IsFifo!Spec
=============================================================================
