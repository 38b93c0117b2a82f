---------------------------- MODULE Queues_proofs ----------------------------
(***************************************************************************)
(* The two queues of the program.  The ring of util/circularBuffer.c, for  *)
(* every entry set, default size and word size: its types, that no stored  *)
(* entry is unwritten memory, and that it implements the FIFO.  And the    *)
(* read-ahead queues of an elementary stream, for every script and every   *)
(* size of the batches: they deliver the script in order and to its end.   *)
(***************************************************************************)
EXTENDS CircularBuffer, EsPesQueue, SequenceTheorems, TLAPS

(* Modulo of an index that went past the end of the ring at most once, the *)
(* only case circularBuffer.c meets.                                       *)
LEMMA ModOnce ==
  ASSUME NEW n \in Nat \ {0}, NEW x \in 0..2 * n - 1
  PROVE  /\ x % n = IF x < n THEN x ELSE x - n
         /\ x % n \in 0..n - 1
<1>1. CASE x < n
  BY <1>1, SMT
<1>2. CASE x >= n
  BY <1>2, SMT
<1> QED
  BY <1>1, <1>2, SMT

(* Append and Tail, entry by entry. *)
LEMMA AppendValue ==
  ASSUME NEW S, NEW s \in Seq(S), NEW v \in S
  PROVE  Append(s, v) =
           [k \in 1..Len(s) + 1 |-> IF k <= Len(s) THEN s[k] ELSE v]
<1>1. Append(s, v) \in Seq(S) /\ Len(Append(s, v)) = Len(s) + 1
  BY AppendProperties
<1>2. Len(s) \in Nat /\ Append(s, v) \in [1..Len(s) + 1 -> S]
  BY <1>1, LenProperties
<1>3. ASSUME NEW k \in 1..Len(s) + 1
      PROVE  Append(s, v)[k] = IF k <= Len(s) THEN s[k] ELSE v
  <2>1. k \in 1..Len(s) \/ k = Len(s) + 1
    BY <1>2
  <2> QED
    BY <1>2, <2>1, AppendProperties
<1> QED
  BY <1>2, <1>3

LEMMA TailValue ==
  ASSUME NEW S, NEW s \in Seq(S), s # <<>>
  PROVE  Tail(s) = [k \in 1..Len(s) - 1 |-> s[k + 1]]
BY HeadTailProperties, LenProperties

RingInv == RingTypeOK /\ RingOK /\ NoGarbage

(* The array index of every stored entry, and of the next one if there is  *)
(* room, without the modulo.                                               *)
LEMMA SlotValue ==
  ASSUME RingTypeOK, RingOK, NEW e \in Nat, e <= usedSize, e < allocatedSize
  PROVE  /\ Slot(e) = IF top + e < allocatedSize THEN top + e
                                                 ELSE top + e - allocatedSize
         /\ Slot(e) \in 0..allocatedSize - 1
<1>1. /\ allocatedSize \in Nat \ {0} /\ top \in Nat
      /\ top + e \in 0..2 * allocatedSize - 1
  BY DEF RingTypeOK, RingOK
<1> DEFINE index == top + e
<1>2. index \in 0..2 * allocatedSize - 1
  BY <1>1
<1> HIDE DEF index
<1>3. /\ index % allocatedSize = IF index < allocatedSize
                                   THEN index ELSE index - allocatedSize
      /\ index % allocatedSize \in 0..allocatedSize - 1
  BY <1>1, <1>2, ModOnce
<1>4. Slot(e) = index % allocatedSize
  BY DEF Slot, index
<1>5. /\ Slot(e) = IF index < allocatedSize THEN index ELSE index - allocatedSize
      /\ Slot(e) \in 0..allocatedSize - 1
  BY <1>3, <1>4
<1> QED
  BY <1>1, <1>5 DEF index

(* Two stored entries never share a slot of the array.                     *)
LEMMA SlotInjective ==
  ASSUME RingTypeOK, RingOK,
         NEW e \in Nat, e <= usedSize, e < allocatedSize,
         NEW j \in Nat, j <= usedSize, j < allocatedSize, e # j
  PROVE  Slot(e) # Slot(j)
<1>1. top \in Nat /\ top < allocatedSize /\ allocatedSize \in Nat
  BY DEF RingTypeOK, RingOK
<1> QED
  BY <1>1, SlotValue

(* What Contents holds, entry by entry. *)
LEMMA ContentsValue ==
  ASSUME RingInv
  PROVE  /\ Contents \in Seq(Entry)
         /\ Len(Contents) = usedSize
         /\ usedSize \in Nat
         /\ \A k \in 1..usedSize : Contents[k] = buffer[Slot(k - 1)]
<1>1. usedSize \in Nat
  BY DEF RingInv, RingTypeOK
<1>2. Contents \in [1..usedSize -> Entry]
  BY DEF RingInv, NoGarbage, Contents
<1> QED
  BY <1>1, <1>2 DEF Contents

\* The array after a write to the i-th entry.
Written(e, v) == [buffer EXCEPT ![Slot(e)] = v]

(* A write to one slot changes the entry that owns it and no other. *)
LEMMA WriteSlot ==
  ASSUME RingInv, NEW v \in Entry, NEW e \in Nat, e <= usedSize,
         e < allocatedSize
  PROVE  /\ Written(e, v) \in [0..allocatedSize - 1 -> Entry \cup {Garbage}]
         /\ Written(e, v)[Slot(e)] = v
         /\ \A j \in 0..usedSize - 1 :
              j # e => Written(e, v)[Slot(j)] = buffer[Slot(j)]
<1>1. Slot(e) \in 0..allocatedSize - 1
  BY SlotValue DEF RingInv
<1>2. buffer \in [0..allocatedSize - 1 -> Entry \cup {Garbage}]
  BY DEF RingInv, RingTypeOK
<1>3. ASSUME NEW j \in 0..usedSize - 1, j # e
      PROVE  Slot(j) \in 0..allocatedSize - 1 /\ Slot(j) # Slot(e)
  <2>1. j \in Nat /\ j <= usedSize /\ j < allocatedSize
    BY DEF RingInv, RingTypeOK
  <2>2. RingTypeOK /\ RingOK
    BY DEF RingInv
  <2>3. Slot(j) \in 0..allocatedSize - 1
    BY <2>1, <2>2, SlotValue
  <2>4. Slot(j) # Slot(e)
    BY <1>3, <2>1, <2>2, SlotInjective
  <2> QED
    BY <2>3, <2>4
<1> QED
  BY <1>1, <1>2, <1>3 DEF Written

\* The array after newEntryCircularBuffer() grew it and the caller wrote.
Grown(newLength, v) ==
  [Unwrapped(newLength) EXCEPT ![(top + usedSize) % newLength] = v]

(* The grown array holds the old entries, in order and without a wrap.     *)
LEMMA GrowKeeps ==
  ASSUME RingInv, NEW v \in Entry, allocatedSize <= usedSize,
         NEW newLength \in Nat, newLength = Grow(allocatedSize),
         newLength > usedSize
  PROVE  /\ newLength \in 0..SizeLimit - 1
         /\ top < newLength /\ DefaultSize <= newLength
         /\ Grown(newLength, v) \in [0..newLength - 1 -> Entry \cup {Garbage}]
         /\ Grown(newLength, v)[(top + usedSize) % newLength] = v
         /\ \A j \in 0..usedSize - 1 :
              Grown(newLength, v)[(top + j) % newLength] = buffer[Slot(j)]
<1>1. /\ allocatedSize \in Nat /\ usedSize = allocatedSize /\ top \in Nat
      /\ allocatedSize < SizeLimit /\ SizeLimit \in Nat
      /\ DefaultSize \in Nat \ {0} /\ DefaultSize < SizeLimit
      /\ buffer \in [0..allocatedSize - 1 -> Entry \cup {Garbage}]
  BY SizeAssumption DEF RingInv, RingTypeOK
<1>2. CASE allocatedSize = 0
  <2>1. newLength = DefaultSize /\ top = 0 /\ usedSize = 0
    BY <1>1, <1>2 DEF Grow, RingInv, RingOK
  <2>2. (top + usedSize) % newLength = 0
    BY <1>1, <2>1
  <2>3. Grown(newLength, v) \in [0..newLength - 1 -> Entry \cup {Garbage}] /\ Grown(newLength, v)[0] = v
    BY <1>1, <1>2, <2>1, <2>2 DEF Grown, Unwrapped, Reallocated
  <2> QED
    BY <1>1, <2>1, <2>2, <2>3
<1>3. CASE allocatedSize > 0
  <2>1. top < allocatedSize /\ DefaultSize <= allocatedSize
    BY <1>1, <1>3 DEF RingInv, RingOK
  <2>2. newLength = 2 * allocatedSize /\ newLength < SizeLimit
    <3>1. newLength = (2 * allocatedSize) % SizeLimit
      BY <1>1, <2>1 DEF Grow
    <3>2. 2 * allocatedSize \in 0..2 * SizeLimit - 1 /\ SizeLimit \in Nat \ {0}
      BY <1>1
    <3>3. newLength = IF 2 * allocatedSize < SizeLimit
                        THEN 2 * allocatedSize
                        ELSE 2 * allocatedSize - SizeLimit
      <4> DEFINE doubled == 2 * allocatedSize
      <4>1. doubled \in 0..2 * SizeLimit - 1 /\ SizeLimit \in Nat \ {0}
        BY <3>2
      <4> HIDE DEF doubled
      <4>2. doubled % SizeLimit = IF doubled < SizeLimit THEN doubled
                                                         ELSE doubled - SizeLimit
        BY <4>1, ModOnce
      <4> QED
        BY <3>1, <4>2 DEF doubled
    <3> QED
      BY <1>1, <3>3
  <2>3. ASSUME NEW j \in 0..usedSize
        PROVE  (top + j) % newLength = top + j
    <3> DEFINE index == top + j
    <3>1. newLength \in Nat \ {0} /\ index \in 0..newLength - 1
      BY <1>1, <1>3, <2>1, <2>2
    <3> HIDE DEF index
    <3>2. index % newLength = index
      BY <3>1
    <3> QED
      BY <3>2 DEF index
  <2>4. \A j \in 0..usedSize - 1 :
          Unwrapped(newLength)[top + j] = buffer[Slot(j)]
    <3> SUFFICES ASSUME NEW j \in 0..usedSize - 1
                 PROVE  Unwrapped(newLength)[top + j] = buffer[Slot(j)]
      OBVIOUS
    <3>1. top + j \in 0..newLength - 1
      BY <1>1, <2>1, <2>2
    <3>2. CASE top + j < allocatedSize
      <4>1. Unwrapped(newLength)[top + j] = buffer[top + j]
        BY <1>1, <3>1, <3>2 DEF Unwrapped, Reallocated
      <4> QED
        BY <1>1, <3>2, <4>1, SlotValue DEF RingInv
    <3>3. CASE top + j >= allocatedSize
      <4>1. Unwrapped(newLength)[top + j] = buffer[(top + j) % allocatedSize]
        BY <1>1, <3>1, <3>3 DEF Unwrapped
      <4> QED
        BY <4>1 DEF Slot
    <3> QED
      BY <1>1, <3>2, <3>3
  <2>5. Unwrapped(newLength) \in [0..newLength - 1 -> Entry \cup {Garbage}]
    <3> SUFFICES ASSUME NEW d \in 0..newLength - 1
                 PROVE  Unwrapped(newLength)[d] \in Entry \cup {Garbage}
      BY DEF Unwrapped
    <3>1. d % allocatedSize \in 0..allocatedSize - 1
      <4>1. allocatedSize \in Nat \ {0} /\ d \in 0..2 * allocatedSize - 1
        BY <1>1, <1>3, <2>2
      <4> QED
        BY <4>1, ModOnce
    <3> QED
      BY <1>1, <3>1 DEF Unwrapped, Reallocated
  <2>6. (top + usedSize) % newLength = top + usedSize
    BY <1>1, <2>3
  <2>7. Grown(newLength, v) \in [0..newLength - 1 -> Entry \cup {Garbage}]
    BY <2>5 DEF Grown
  <2>8. Grown(newLength, v)[top + usedSize] = v
    BY <1>1, <1>3, <2>1, <2>2, <2>5, <2>6 DEF Grown
  <2>9. ASSUME NEW j \in 0..usedSize - 1
        PROVE  Grown(newLength, v)[(top + j) % newLength] = buffer[Slot(j)]
    <3>1. j \in 0..usedSize /\ top + j # top + usedSize
      BY <1>1
    <3>3. (top + j) % newLength = top + j
      BY <2>3, <3>1
    <3>2. top + j \in 0..newLength - 1
      BY <1>1, <2>1, <2>2
    <3> QED
      BY <2>4, <2>5, <2>6, <3>1, <3>2, <3>3 DEF Grown
  <2> QED
    BY <1>1, <2>1, <2>2, <2>6, <2>7, <2>8, <2>9
<1>4. allocatedSize = 0 \/ allocatedSize > 0
  BY <1>1
<1> QED
  BY <1>2, <1>3, <1>4

(* Every call keeps the type, the ring's shape and the absence of garbage, *)
(* and is a step (or a stutter) of the FIFO.                               *)
LEMMA StepCorrect ==
  ASSUME RingInv, [RingNext]_ringVars
  PROVE  RingInv' /\ [IsFifo!Next]_<<Contents, ret>>
<1>1. ASSUME NEW v \in Entry, NewEntry(v)
      PROVE  RingInv' /\ IsFifo!Push(v)
  <2>1. usedSize \in Nat /\ usedSize <= usedSize /\ usedSize < allocatedSize
    BY <1>1 DEF NewEntry, RingInv, RingTypeOK
  <2>2. /\ buffer' \in [0..allocatedSize - 1 -> Entry \cup {Garbage}]
        /\ buffer'[Slot(usedSize)] = v
        /\ \A j \in 0..usedSize - 1 : buffer'[Slot(j)] = buffer[Slot(j)]
    <3>1. buffer' = Written(usedSize, v)
      BY <1>1 DEF NewEntry, Written
    <3>2. \A j \in 0..usedSize - 1 : j # usedSize
      BY <2>1
    <3> QED
      BY <2>1, <3>1, <3>2, WriteSlot
  <2>3. \A j \in Nat : Slot(j)' = Slot(j)
    BY <1>1 DEF NewEntry, Slot
  <2>4. Contents' = Append(Contents, v)
    BY <1>1, <2>1, <2>2, <2>3, ContentsValue DEF NewEntry, Contents
  <2>5. RingTypeOK' /\ RingOK'
    BY <1>1, <2>1, <2>2 DEF NewEntry, RingInv, RingTypeOK, RingOK
  <2>6. NoGarbage'
    BY <1>1, <2>1, <2>4, ContentsValue DEF NewEntry, NoGarbage
  <2> QED
    BY <1>1, <2>4, <2>5, <2>6 DEF RingInv, NewEntry, IsFifo!Push
<1>2. ASSUME NEW v \in Entry, NewEntryGrow(v)
      PROVE  RingInv' /\ IsFifo!Push(v)
  <2> DEFINE newLength == Grow(allocatedSize)
  <2>1. /\ allocatedSize <= usedSize /\ newLength > usedSize
        /\ usedSize \in Nat /\ DefaultSize \in Nat \ {0}
        /\ allocatedSize' = newLength /\ usedSize' = usedSize + 1
        /\ top' = top /\ ret' = 0 /\ top \in Nat
    BY <1>2, SizeAssumption DEF NewEntryGrow, RingInv, RingTypeOK
  <2>2. /\ newLength \in 0..SizeLimit - 1
        /\ top < newLength /\ DefaultSize <= newLength
        /\ buffer' \in [0..newLength - 1 -> Entry \cup {Garbage}]
        /\ buffer'[(top + usedSize) % newLength] = v
        /\ \A j \in 0..usedSize - 1 :
             buffer'[(top + j) % newLength] = buffer[Slot(j)]
    <3>1. buffer' = Grown(newLength, v)
      BY <1>2 DEF NewEntryGrow, Grown
    <3>2. newLength \in Nat
      BY SizeAssumption DEF Grow, RingInv, RingTypeOK
    <3> HIDE DEF newLength
    <3>3. newLength = Grow(allocatedSize)
      BY DEF newLength
    <3>4. /\ newLength \in 0..SizeLimit - 1
          /\ top < newLength /\ DefaultSize <= newLength
          /\ Grown(newLength, v) \in [0..newLength - 1 -> Entry \cup {Garbage}]
          /\ Grown(newLength, v)[(top + usedSize) % newLength] = v
          /\ \A j \in 0..usedSize - 1 :
               Grown(newLength, v)[(top + j) % newLength] = buffer[Slot(j)]
      BY <2>1, <3>2, <3>3, GrowKeeps
    <3> QED
      BY <3>1, <3>4
  <2> HIDE DEF newLength
  <2>3. \A j \in Nat : Slot(j)' = (top + j) % newLength
    BY <2>1 DEF Slot
  <2>4. Contents' = Append(Contents, v)
    <3>1. Contents' = [k \in 1..usedSize + 1 |-> buffer'[Slot(k - 1)']]
      BY <2>1 DEF Contents
    <3>2. \A k \in 1..usedSize + 1 :
            buffer'[Slot(k - 1)'] = IF k <= usedSize THEN Contents[k] ELSE v
      <4> SUFFICES ASSUME NEW k \in 1..usedSize + 1
                   PROVE  buffer'[Slot(k - 1)'] =
                            IF k <= usedSize THEN Contents[k] ELSE v
        OBVIOUS
      <4>1. Slot(k - 1)' = (top + (k - 1)) % newLength
        BY <2>1, <2>3
      <4>2. CASE k <= usedSize
        <5>1. k - 1 \in 0..usedSize - 1 BY <4>2, ContentsValue
        <5>2. buffer'[(top + (k - 1)) % newLength] = buffer[Slot(k - 1)]
          BY <2>2, <5>1
        <5>3. Contents[k] = buffer[Slot(k - 1)] BY <4>2, ContentsValue
        <5>4. buffer'[Slot(k - 1)'] = Contents[k]
          BY <4>1, <5>2, <5>3, Zenon
        <5> QED BY <4>2, <5>4, Zenon
      <4>3. CASE k > usedSize
        <5>1. k - 1 = usedSize
          BY <2>1, <4>3
        <5> QED
          BY <2>1, <2>2, <4>1, <4>3, <5>1
      <4> QED
        BY <2>1, <4>2, <4>3
    <3>3. Contents' = [k \in 1..usedSize + 1 |->
                         IF k <= usedSize THEN Contents[k] ELSE v]
      BY <3>1, <3>2
    <3> QED
      BY <3>3, ContentsValue, AppendValue
  <2>5. RingTypeOK' /\ RingOK'
    BY <2>1, <2>2 DEF RingInv, RingTypeOK, RingOK
  <2>6. NoGarbage'
    BY <2>1, <2>4, ContentsValue DEF NoGarbage
  <2> QED
    BY <2>1, <2>4, <2>5, <2>6 DEF RingInv, IsFifo!Push
<1>3. ASSUME \/ NewEntryFails \/ GetEntryFails(usedSize) \/ PopEmpty
      PROVE  RingInv' /\ IsFifo!Fail
  <2>1. ret' = -1 /\ UNCHANGED <<buffer, allocatedSize, usedSize, top>>
    BY <1>3 DEF NewEntryFails, GetEntryFails, PopEmpty
  <2>2. Contents' = Contents
    BY <2>1 DEF Contents, Slot
  <2> QED
    BY <2>1, <2>2 DEF RingInv, RingTypeOK, RingOK, NoGarbage, IsFifo!Fail
<1>4. ASSUME NEW e \in 0..usedSize - 1, NEW v \in Entry, EditEntry(e, v)
      PROVE  RingInv' /\ IsFifo!Edit(e + 1, v)
  <2>1. /\ usedSize \in Nat /\ e \in Nat /\ e <= usedSize
        /\ e < allocatedSize /\ e + 1 \in 1..usedSize
    BY DEF RingInv, RingTypeOK
  <2>2. /\ buffer' \in [0..allocatedSize - 1 -> Entry \cup {Garbage}]
        /\ buffer'[Slot(e)] = v
        /\ \A j \in 0..usedSize - 1 :
             j # e => buffer'[Slot(j)] = buffer[Slot(j)]
    <3>1. buffer' = Written(e, v)
      BY <1>4 DEF EditEntry, Written
    <3> QED
      BY <2>1, <3>1, WriteSlot
  <2>3. \A j \in Nat : Slot(j)' = Slot(j)
    BY <1>4 DEF EditEntry, Slot
  <2>4. Contents' = [Contents EXCEPT ![e + 1] = v]
    <3>1. Contents' = [k \in 1..usedSize |-> buffer'[Slot(k - 1)]]
      BY <1>4, <2>1, <2>3 DEF EditEntry, Contents
    <3>2. \A k \in 1..usedSize :
            buffer'[Slot(k - 1)] = IF k = e + 1 THEN v ELSE Contents[k]
      <4> SUFFICES ASSUME NEW k \in 1..usedSize
                   PROVE  buffer'[Slot(k - 1)] =
                            IF k = e + 1 THEN v ELSE Contents[k]
        OBVIOUS
      <4>1. k - 1 \in 0..usedSize - 1 /\ (k = e + 1 <=> k - 1 = e)
        BY <2>1
      <4>2. Contents[k] = buffer[Slot(k - 1)]
        BY ContentsValue
      <4> QED
        BY <2>2, <4>1, <4>2
    <3> QED
      BY <2>1, <3>1, <3>2 DEF Contents
  <2>5. RingTypeOK' /\ RingOK'
    BY <1>4, <2>2 DEF EditEntry, RingInv, RingTypeOK, RingOK
  <2>6. NoGarbage'
    BY <1>4, <2>1, <2>4, ContentsValue DEF EditEntry, NoGarbage
  <2> QED
    BY <1>4, <2>1, <2>4, <2>5, <2>6, ContentsValue DEF RingInv, EditEntry, IsFifo!Edit
<1>5. ASSUME PopEntry
      PROVE  RingInv' /\ IsFifo!Pop
  <2>1. /\ usedSize \in Nat /\ usedSize > 0 /\ allocatedSize \in Nat
        /\ allocatedSize >= usedSize /\ top \in Nat /\ top < allocatedSize
        /\ buffer' = buffer /\ allocatedSize' = allocatedSize
        /\ usedSize' = usedSize - 1 /\ ret' = 0
        /\ top' = (top + 1) % allocatedSize
    BY <1>5 DEF PopEntry, RingInv, RingTypeOK, RingOK
  <2>2. top' = IF top + 1 < allocatedSize THEN top + 1 ELSE 0
    <3> DEFINE index == top + 1
    <3>1. index \in 0..2 * allocatedSize - 1 /\ index <= allocatedSize
      BY <2>1
    <3>2. top' = index % allocatedSize
      BY <2>1
    <3> HIDE DEF index
    <3>3. top' = IF index < allocatedSize THEN index ELSE index - allocatedSize
      <4>1. allocatedSize \in Nat \ {0}
        BY <2>1
      <4> QED
        BY <3>1, <3>2, <4>1, ModOnce
    <3>4. top' = IF index < allocatedSize THEN index ELSE 0
      BY <2>1, <3>1, <3>3
    <3> QED
      BY <3>4 DEF index
  <2>3. RingTypeOK' /\ RingOK'
    BY <2>1, <2>2 DEF RingInv, RingTypeOK, RingOK
  <2>4. \A j \in 0..usedSize - 2 : Slot(j)' = Slot(j + 1)
    <3> SUFFICES ASSUME NEW j \in 0..usedSize - 2
                 PROVE  Slot(j)' = Slot(j + 1)
      OBVIOUS
    <3>1. Slot(j + 1) = IF top + (j + 1) < allocatedSize
                          THEN top + (j + 1)
                          ELSE top + (j + 1) - allocatedSize
      BY <2>1, SlotValue DEF RingInv
    <3> DEFINE index == top' + j
    <3>2. index \in 0..2 * allocatedSize - 1 /\ allocatedSize \in Nat \ {0}
      BY <2>1, <2>2
    <3>3. Slot(j)' = index % allocatedSize
      BY <2>1 DEF Slot
    <3> HIDE DEF index
    <3>4. Slot(j)' = IF index < allocatedSize THEN index ELSE index - allocatedSize
      BY <3>2, <3>3, ModOnce
    <3> QED
      BY <2>1, <2>2, <3>1, <3>4 DEF index
  <2>5. Contents' = Tail(Contents)
    <3>1. Contents' = [k \in 1..usedSize - 1 |-> buffer[Slot(k - 1)']]
      BY <2>1 DEF Contents
    <3>2. \A k \in 1..usedSize - 1 : buffer[Slot(k - 1)'] = Contents[k + 1]
      <4> SUFFICES ASSUME NEW k \in 1..usedSize - 1
                   PROVE  buffer[Slot(k - 1)'] = Contents[k + 1]
        OBVIOUS
      <4>1. Slot(k - 1)' = Slot((k - 1) + 1)
        BY <2>1, <2>4
      <4>2. (k - 1) + 1 = k /\ (k + 1) - 1 = k /\ k + 1 \in 1..usedSize
        BY <2>1
      <4>3. Contents[k + 1] = buffer[Slot((k + 1) - 1)]
        BY <4>2, ContentsValue
      <4> QED
        BY <4>1, <4>2, <4>3
    <3>3. Contents' = [k \in 1..usedSize - 1 |-> Contents[k + 1]]
      BY <3>1, <3>2
    <3>4. Contents # <<>>
      BY <2>1, ContentsValue
    <3> QED
      BY <3>3, <3>4, ContentsValue, TailValue
  <2>6. NoGarbage'
    BY <2>1, <2>5, ContentsValue DEF NoGarbage
  <2>7. Contents # <<>>
    BY <2>1, ContentsValue
  <2> QED
    BY <2>1, <2>3, <2>5, <2>6, <2>7 DEF RingInv, IsFifo!Pop
<1>6. ASSUME UNCHANGED ringVars
      PROVE  RingInv' /\ UNCHANGED <<Contents, ret>>
  BY <1>6 DEF ringVars, RingInv, RingTypeOK, RingOK, NoGarbage, Contents, Slot
<1>7. \A e \in 0..usedSize - 1 : e + 1 \in 1..Len(Contents)
  BY ContentsValue
<1> QED
  BY <1>1, <1>2, <1>3, <1>4, <1>5, <1>6, <1>7 DEF RingNext, IsFifo!Next

(* The inductive invariant of the ring. *)
LEMMA RingInvariance == RingSpec => []RingInv
<1>1. RingInit => RingInv
  BY SizeAssumption DEF RingInit, RingInv, RingTypeOK, RingOK, NoGarbage
<1>2. RingInv /\ [RingNext]_ringVars => RingInv'
  BY StepCorrect
<1> QED
  BY <1>1, <1>2, PTL DEF RingSpec

(* Type correctness of circularBuffer.c's ring. *)
THEOREM RingTypeCorrect == RingSpec => []RingTypeOK
BY RingInvariance, PTL DEF RingInv

(* A stored entry always is one the caller wrote: the realloc() of a growth *)
(* never exposes uninitialised memory.                                      *)
THEOREM EntriesWritten == RingSpec => []NoGarbage
BY RingInvariance, PTL DEF RingInv

(* The ring implements the FIFO its header promises. *)
THEOREM RingRefinement == RingSpec => RefinesFifo
<1>1. RingInit => IsFifo!Init
  BY DEF RingInit, IsFifo!Init, Contents
<1>2. RingInv /\ [RingNext]_ringVars => [IsFifo!Next]_<<Contents, ret>>
  BY StepCorrect
<1> QED
  BY <1>1, <1>2, RingInvariance, PTL DEF RingSpec, RefinesFifo, IsFifo!Spec, IsFifo!vars
-----------------------------------------------------------------------------
(* Taking the head of a queue and putting it at the end of the one before   *)
(* leaves their concatenation as it was.                                    *)
LEMMA HeadMoves ==
  ASSUME NEW S, NEW s \in Seq(S), NEW t \in Seq(S), t # <<>>
  PROVE  Append(s, Head(t)) \o Tail(t) = s \o t
<1>1. /\ Head(t) \in S /\ Tail(t) \in Seq(S) /\ Len(Tail(t)) = Len(t) - 1
      /\ \A k \in 1..Len(Tail(t)) : Tail(t)[k] = t[k + 1]
  BY HeadTailProperties
<1>2. /\ Append(s, Head(t)) \in Seq(S)
      /\ Len(Append(s, Head(t))) = Len(s) + 1
      /\ \A k \in 1..Len(s) : Append(s, Head(t))[k] = s[k]
      /\ Append(s, Head(t))[Len(s) + 1] = Head(t)
  BY <1>1, AppendProperties
<1>3. Head(t) = t[1] /\ Len(s) \in Nat /\ Len(t) \in Nat \ {0}
  BY EmptySeq, LenProperties
<1> DEFINE left == Append(s, Head(t)) \o Tail(t)
           right == s \o t
<1>4. /\ left \in Seq(S) /\ Len(left) = Len(s) + 1 + (Len(t) - 1)
      /\ \A k \in 1..Len(s) + 1 + (Len(t) - 1) :
           left[k] = IF k <= Len(s) + 1 THEN Append(s, Head(t))[k]
                                        ELSE Tail(t)[k - (Len(s) + 1)]
  BY <1>1, <1>2, ConcatProperties
<1>5. /\ right \in Seq(S) /\ Len(right) = Len(s) + Len(t)
      /\ \A k \in 1..Len(s) + Len(t) :
           right[k] = IF k <= Len(s) THEN s[k] ELSE t[k - Len(s)]
  BY ConcatProperties
<1> HIDE DEF left, right
<1>6. ASSUME NEW k \in 1..Len(left) PROVE left[k] = right[k]
  <2>0. k \in 1..Len(s) + Len(t) /\ k \in 1..Len(s) + 1 + (Len(t) - 1)
    BY <1>3, <1>4
  <2>1. CASE k <= Len(s)
    <3>1. left[k] = Append(s, Head(t))[k] BY <2>0, <2>1, <1>3, <1>4
    <3>2. right[k] = s[k] BY <2>0, <2>1, <1>5
    <3>3. k \in 1..Len(s) BY <2>0, <2>1, <1>3
    <3> QED BY <3>1, <3>2, <3>3, <1>2
  <2>2. CASE k = Len(s) + 1
    BY <2>2, <1>2, <1>3, <1>4, <1>5
  <2>3. CASE k > Len(s) + 1
    <3>1. left[k] = Tail(t)[k - (Len(s) + 1)]
      BY <2>3, <1>3, <1>4
    <3>2. k - (Len(s) + 1) \in 1..Len(Tail(t))
      BY <2>3, <1>1, <1>3, <1>4
    <3>3. Tail(t)[k - (Len(s) + 1)] = t[(k - (Len(s) + 1)) + 1]
      BY <3>2, <1>1
    <3>4. (k - (Len(s) + 1)) + 1 = k - Len(s)
      BY <1>3, <1>4
    <3> QED BY <3>1, <3>3, <3>4, <2>3, <1>3, <1>4, <1>5
  <2> QED BY <2>1, <2>2, <2>3, <1>3, <1>4
<1>7. Len(left) = Len(right) BY <1>3, <1>4, <1>5
<1>8. left = right BY <1>4, <1>5, <1>6, <1>7, SeqEqual
<1> QED BY <1>8 DEF left, right

\* Concatenation under a name of its own: where only associativity matters,
\* the provers need not look at the elements.
Cat(s, t) == s \o t

LEMMA CatProperties ==
  ASSUME NEW S
  PROVE  /\ \A s, t \in Seq(S) : Cat(s, t) \in Seq(S)
         /\ \A s, t, u \in Seq(S) : Cat(Cat(s, t), u) = Cat(s, Cat(t, u))
<1>1. \A s, t \in Seq(S) : Cat(s, t) \in Seq(S)
  BY ConcatProperties DEF Cat
<1>2. ASSUME NEW s \in Seq(S), NEW t \in Seq(S), NEW u \in Seq(S)
      PROVE  Cat(Cat(s, t), u) = Cat(s, Cat(t, u))
  BY ConcatAssociative, SMTT(60) DEF Cat
<1> QED BY <1>1, <1>2

LEMMA Regroup ==
  ASSUME NEW S, NEW a \in Seq(S), NEW b \in Seq(S), NEW c \in Seq(S), NEW w \in Seq(S)
  PROVE  Cat(Cat(a, b), Cat(c, w)) = Cat(Cat(a, Cat(b, c)), w)
<1>1. Cat(a, b) \in Seq(S) BY CatProperties
<1>2. Cat(Cat(a, b), Cat(c, w)) = Cat(Cat(Cat(a, b), c), w) BY <1>1, CatProperties
<1>3. Cat(Cat(a, b), c) = Cat(a, Cat(b, c)) BY CatProperties
<1> QED BY <1>2, <1>3

LEMMA AppendAfterCat ==
  ASSUME NEW S, NEW a \in Seq(S), NEW b \in Seq(S), NEW e \in S
  PROVE  Append(Cat(a, b), e) = Cat(a, Append(b, e))
<1>1. Cat(a, b) \in Seq(S) BY CatProperties
<1>2. <<e>> \in Seq(S) OBVIOUS
<1>3. Append(Cat(a, b), e) = Cat(Cat(a, b), <<e>>) BY <1>1, AppendIsConcat DEF Cat
<1>4. Append(b, e) = Cat(b, <<e>>) BY AppendIsConcat DEF Cat
<1>5. Cat(Cat(a, b), <<e>>) = Cat(a, Cat(b, <<e>>))
  <2> DEFINE u == <<e>>
  <2> HIDE DEF u
  <2>1. u \in Seq(S) BY <1>2 DEF u
  <2>2. Cat(Cat(a, b), u) = Cat(a, Cat(b, u)) BY <2>1, CatProperties
  <2> QED BY <2>2 DEF u
<1> QED BY <1>3, <1>4, <1>5

(* The batch read from the file is a prefix of it.                          *)
LEMMA BatchSplits ==
  ASSUME TypeOK
  PROVE  /\ Batch \in 0..Len(file)
         /\ SubSeq(file, 1, Batch) \in Seq(Frame)
         /\ Len(SubSeq(file, 1, Batch)) = Batch
         /\ SubSeq(file, Batch + 1, Len(file)) \in Seq(Frame)
         /\ Len(SubSeq(file, Batch + 1, Len(file))) = Len(file) - Batch
         /\ SubSeq(file, 1, Batch) \o SubSeq(file, Batch + 1, Len(file)) = file
<1>1. Len(file) \in Nat /\ file \in Seq(Frame)
  BY LenProperties DEF TypeOK
<1>2. Batch \in 0..Len(file)
  BY <1>1, BatchAssumption DEF Batch
<1>3. /\ SubSeq(file, 1, Batch) \in Seq(Frame)
      /\ Len(SubSeq(file, 1, Batch)) = Batch
  <2>1. \A k \in 1..Batch : file[k] \in Frame BY <1>1, <1>2, ElementOfSeq
  <2> QED BY <1>1, <1>2, <2>1, SubSeqProperties
<1>4. /\ SubSeq(file, Batch + 1, Len(file)) \in Seq(Frame)
      /\ Len(SubSeq(file, Batch + 1, Len(file))) = Len(file) - Batch
  <2>1. \A k \in Batch + 1..Len(file) : file[k] \in Frame BY <1>1, <1>2, ElementOfSeq
  <2>2. /\ SubSeq(file, Batch + 1, Len(file)) \in Seq(Frame)
        /\ Len(SubSeq(file, Batch + 1, Len(file))) =
             IF Batch + 1 <= Len(file) THEN Len(file) - (Batch + 1) + 1 ELSE 0
    BY <1>1, <1>2, <2>1, SubSeqProperties
  <2> QED BY <1>1, <1>2, <2>2
<1>5. SubSeq(file, 1, Batch) \o SubSeq(file, Batch + 1, Len(file))
        = SubSeq(file, 1, Len(file))
  <2>1. /\ 1 \in 1..Len(file) + 1 /\ Batch \in 1 - 1..Len(file)
        /\ Len(file) \in Batch..Len(file)
    BY <1>1, <1>2
  <2> QED BY <1>1, <2>1, ConcatAdjacentSubSeq
<1>6. SubSeq(file, 1, Len(file)) = file BY <1>1, SubSeqFull
<1> QED BY <1>2, <1>3, <1>4, <1>5, <1>6

-----------------------------------------------------------------------------
\* What the loop has achieved when it goes on, and when it is over.
Progress ==
  /\ endOfScriptReached => file = <<>>
  /\ pc = "fill" => i <= Len(pesQueue) /\ Len(pesQueue) < MinPes + i
  /\ pc = "take" => pesQueue # <<>> \/ EndOfScripts

IInv == /\ TypeOK /\ SizesExact /\ InScriptOrder
        /\ Progress
        /\ EndIsTheEnd /\ NeverStarved /\ ReadAheadBounded

LEMMA InitCorrect == Init => IInv
<1> SUFFICES ASSUME Init PROVE IInv
  OBVIOUS
<1> USE DEF Init
<1>1. script \in Seq(Frame) /\ <<>> \in Seq(Frame) /\ Len(<<>>) = 0
  BY ScriptsAssumption, EmptySeq
<1>2. TypeOK
  <2>1. i \in 0..IncPes /\ scriptsQueueSize \in Int /\ pesQueueSize \in Int
    BY BatchAssumption
  <2> QED BY <1>1, <2>1 DEF TypeOK
<1>3. SizesExact BY <1>1 DEF SizesExact
<1>4. InScriptOrder
  <2>1. <<>> \o <<>> = <<>> BY <1>1, ConcatEmptySeq
  <2>2. <<>> \o script = script BY <1>1, ConcatEmptySeq
  <2> QED BY <2>1, <2>2 DEF InScriptOrder
<1>5. Progress /\ EndIsTheEnd /\ NeverStarved
  BY DEF Progress, EndIsTheEnd, NeverStarved
<1>6. ReadAheadBounded BY <1>1, BatchAssumption DEF ReadAheadBounded
<1> QED BY <1>2, <1>3, <1>4, <1>5, <1>6 DEF IInv

(* A fill that goes on has a frame to queue: the file is not at its end, so  *)
(* a low queue is refilled, or there is one in the queue already.           *)
LEMMA SomethingQueued ==
  ASSUME IInv, ~EndOfScripts
  PROVE  /\ Queued # <<>> /\ Queued \in Seq(Frame)
         /\ Len(Queued) = Len(scriptsQueue) + Batch
<1> USE DEF IInv
<1>1. /\ Queued \in Seq(Frame)
      /\ Len(Queued) = Len(scriptsQueue) + Batch
  BY BatchSplits, ConcatProperties DEF Queued, TypeOK
<1>2. Len(scriptsQueue) \in Nat /\ Batch \in Nat /\ Len(file) \in Nat
  BY LenProperties, BatchSplits DEF TypeOK
<1>3. CASE scriptsQueueSize # 0
  <2>1. Len(Queued) # 0 BY <1>1, <1>2, <1>3 DEF SizesExact
  <2> QED BY <1>1, <2>1, EmptySeq
<1>4. CASE scriptsQueueSize = 0
  <2>1. file # <<>> BY <1>4 DEF EndOfScripts
  <2>2. Len(file) > 0 BY <2>1, EmptySeq DEF TypeOK
  <2>3. NeedsScripts BY <1>4, <2>1, BatchAssumption DEF NeedsScripts, Progress
  <2>4. Batch > 0 BY <1>2, <2>2, <2>3, BatchAssumption DEF Batch
  <2>5. Len(Queued) # 0 BY <1>1, <1>2, <2>4
  <2> QED BY <1>1, <2>5, EmptySeq
<1> QED BY <1>1, <1>3, <1>4

LEMMA BuildAndQueueCorrect == IInv /\ BuildAndQueue => IInv'
<1> SUFFICES ASSUME IInv, BuildAndQueue PROVE IInv'
  OBVIOUS
<1> USE DEF IInv
<1>1. /\ pc = "fill" /\ i < IncPes /\ ~EndOfScripts
      /\ file' = SubSeq(file, Batch + 1, Len(file))
      /\ endOfScriptReached' = (endOfScriptReached \/ (NeedsScripts /\ file' = <<>>))
      /\ UNCHANGED <<script, built>>
  BY DEF BuildAndQueue, MoreToQueue
<1>2. /\ Queued # <<>> /\ Queued \in Seq(Frame)
      /\ Len(Queued) = Len(scriptsQueue) + Batch
  BY <1>1, SomethingQueued
<1>3. /\ scriptsQueue' = Tail(Queued)
      /\ scriptsQueueSize' = scriptsQueueSize + Batch - 1
      /\ pesQueue' = Append(pesQueue, Head(Queued))
      /\ pesQueueSize' = pesQueueSize + 1
      /\ i' = i + 1
      /\ pc' = pc
  BY <1>2 DEF BuildAndQueue, MoreToQueue
<1>4. /\ Head(Queued) \in Frame /\ Tail(Queued) \in Seq(Frame)
      /\ Len(Tail(Queued)) = Len(Queued) - 1
  BY <1>2, HeadTailProperties
<1>5. /\ Append(pesQueue, Head(Queued)) \in Seq(Frame)
      /\ Len(Append(pesQueue, Head(Queued))) = Len(pesQueue) + 1
  BY <1>4, AppendProperties DEF TypeOK
<1>6. /\ Len(file) \in Nat /\ Len(scriptsQueue) \in Nat /\ Len(pesQueue) \in Nat
      /\ Batch \in Nat
  BY LenProperties, BatchSplits DEF TypeOK
<1>7. TypeOK'
  <2>1. i' \in 0..IncPes BY <1>1, <1>3, BatchAssumption DEF TypeOK
  <2>2. scriptsQueueSize' \in Int /\ pesQueueSize' \in Int
    BY <1>3, <1>6 DEF TypeOK
  <2>3. file' \in Seq(Frame) BY <1>1, BatchSplits
  <2>4. endOfScriptReached' \in BOOLEAN BY <1>1 DEF TypeOK
  <2> QED BY <1>1, <1>3, <1>4, <1>5, <2>1, <2>2, <2>3, <2>4 DEF TypeOK
<1>8. SizesExact'
  BY <1>2, <1>3, <1>4, <1>5, <1>6 DEF SizesExact
<1>9. InScriptOrder'
  <2> DEFINE batch == SubSeq(file, 1, Batch)
             rest == SubSeq(file, Batch + 1, Len(file))
             done == Cat(built, pesQueue)
             longer == Append(pesQueue, Head(Queued))
  <2>1. batch \in Seq(Frame) /\ rest \in Seq(Frame) /\ Cat(batch, rest) = file
    BY BatchSplits DEF Cat
  <2>2. built \in Seq(Frame) /\ pesQueue \in Seq(Frame) /\ scriptsQueue \in Seq(Frame)
    BY DEF TypeOK
  <2>3. script = Cat(Cat(done, scriptsQueue), file) BY DEF InScriptOrder, Cat
  <2>4. Queued = Cat(scriptsQueue, batch) BY DEF Queued, Cat
  <2>5. done \in Seq(Frame) BY <2>2, CatProperties
  <2> HIDE DEF rest, batch
  <2>6. Cat(Cat(done, scriptsQueue), file) = Cat(Cat(done, Queued), rest)
    <3> HIDE DEF done
    <3> QED BY <2>1, <2>2, <2>4, <2>5, Regroup
  <2>7. Cat(done, Queued) = Cat(Append(done, Head(Queued)), Tail(Queued))
    <3> HIDE DEF done
    <3> QED BY <1>2, <2>5, HeadMoves DEF Cat
  <2>8. Append(done, Head(Queued)) = Cat(built, longer)
    <3> DEFINE next == Head(Queued)
    <3>1. next \in Frame BY <1>4
    <3> HIDE DEF next
    <3>2. Append(Cat(built, pesQueue), next) = Cat(built, Append(pesQueue, next))
      BY <2>2, <3>1, AppendAfterCat
    <3> QED BY <3>2 DEF next
  <2> HIDE DEF done, longer
  <2>9. script = Cat(Cat(Cat(built, longer), Tail(Queued)), rest)
    BY <2>3, <2>6, <2>7, <2>8
  <2>10. script = ((built \o longer) \o Tail(Queued)) \o rest BY <2>9 DEF Cat
  <2> QED BY <1>1, <1>3, <2>10 DEF InScriptOrder, longer, rest
<1>10. Progress'
  <2>1. endOfScriptReached' => file' = <<>>
    <3>1. CASE endOfScriptReached
      <4>1. Len(file) = 0 /\ file = <<>> BY <3>1, EmptySeq DEF Progress
      <4>2. Len(file') = 0 /\ file' \in Seq(Frame) BY <1>1, <1>6, <4>1, BatchSplits
      <4> QED BY <4>2, EmptySeq
    <3>2. CASE ~endOfScriptReached
      BY <3>2, <1>1
    <3> QED BY <3>1, <3>2
  <2>2. i' <= Len(pesQueue') /\ Len(pesQueue') < MinPes + i'
    BY <1>1, <1>3, <1>5, <1>6, BatchAssumption DEF Progress, TypeOK
  <2> QED BY <1>1, <1>3, <2>1, <2>2 DEF Progress
<1>11. EndIsTheEnd' /\ NeverStarved'
  BY <1>1, <1>3 DEF EndIsTheEnd, NeverStarved
<1>12. ReadAheadBounded'
  <2>1. Len(scriptsQueue') < MinScripts + IncScripts
    <3>1. Len(scriptsQueue') = Len(scriptsQueue) + Batch - 1
      BY <1>2, <1>3, <1>4, <1>6
    <3>2. CASE NeedsScripts
      <4>1. Batch <= IncScripts BY <1>6, BatchAssumption DEF Batch
      <4> QED BY <3>1, <3>2, <4>1, <1>6, BatchAssumption DEF NeedsScripts, SizesExact
    <3>3. CASE ~NeedsScripts
      <4>1. Batch = 0 BY <3>3 DEF Batch
      <4> QED BY <3>1, <4>1, <1>6, BatchAssumption DEF ReadAheadBounded
    <3> QED BY <3>2, <3>3
  <2>2. Len(pesQueue') < MinPes + IncPes
    BY <1>1, <1>3, <1>5, <1>6, BatchAssumption DEF Progress, TypeOK
  <2> QED BY <2>1, <2>2 DEF ReadAheadBounded
<1> QED BY <1>7, <1>8, <1>9, <1>10, <1>11, <1>12

LEMMA CallCorrect == IInv /\ Call => IInv'
<1> SUFFICES ASSUME IInv, Call PROVE IInv'
  OBVIOUS
<1> USE DEF IInv, Call
<1>1. Len(pesQueue) \in Nat BY LenProperties DEF TypeOK
<1>2. TypeOK'
  <2>1. 0 \in 0..IncPes BY BatchAssumption
  <2> QED BY <2>1 DEF TypeOK
<1>3. SizesExact' /\ InScriptOrder' /\ ReadAheadBounded'
  BY DEF SizesExact, InScriptOrder, ReadAheadBounded
<1>4. Progress'
  <2>1. endOfScriptReached' => file' = <<>> BY DEF Progress
  <2>2. pc' = "fill" => i' <= Len(pesQueue') /\ Len(pesQueue') < MinPes + i'
    BY <1>1, BatchAssumption DEF SizesExact
  <2>3. pc' = "take" => pesQueue' # <<>>
    <3>1. CASE pesQueueSize < MinPes BY <3>1
    <3>2. CASE ~(pesQueueSize < MinPes)
      <4>1. Len(pesQueue) # 0 BY <1>1, <3>2, BatchAssumption DEF SizesExact
      <4>2. pesQueue # <<>> BY <4>1, EmptySeq
      <4> QED BY <4>2
    <3> QED BY <3>1, <3>2
  <2> QED BY <2>1, <2>2, <2>3 DEF Progress
<1>5. EndIsTheEnd' /\ NeverStarved'
  BY DEF EndIsTheEnd, NeverStarved
<1> QED BY <1>2, <1>3, <1>4, <1>5

LEMMA FilledCorrect == IInv /\ Filled => IInv'
<1> SUFFICES ASSUME IInv, Filled PROVE IInv'
  OBVIOUS
<1> USE DEF IInv, Filled, MoreToQueue
<1>1. TypeOK' /\ SizesExact' /\ InScriptOrder' /\ ReadAheadBounded'
  BY DEF TypeOK, SizesExact, InScriptOrder, ReadAheadBounded
<1>2. Progress'
  <2>1. ASSUME i = IncPes PROVE pesQueue # <<>>
    <3>1. Len(pesQueue) \in Nat BY LenProperties DEF TypeOK
    <3>2. Len(pesQueue) # 0 BY <2>1, <3>1, BatchAssumption DEF Progress
    <3> QED BY <3>2, EmptySeq
  <2>2. i = IncPes \/ EndOfScripts BY BatchAssumption DEF TypeOK
  <2>3. EndOfScripts' = EndOfScripts BY DEF EndOfScripts
  <2>4. pesQueue' # <<>> \/ EndOfScripts' BY <2>1, <2>2, <2>3
  <2> QED BY <2>4 DEF Progress
<1>3. EndIsTheEnd' /\ NeverStarved'
  BY DEF EndIsTheEnd, NeverStarved
<1> QED BY <1>1, <1>2, <1>3

LEMMA TakeCorrect == IInv /\ Take => IInv'
<1> SUFFICES ASSUME IInv, Take PROVE IInv'
  OBVIOUS
<1> USE DEF IInv
<1>1. /\ pc = "take"
      /\ UNCHANGED <<script, file, scriptsQueue, scriptsQueueSize,
                     endOfScriptReached, i>>
  BY DEF Take
<1>2. Len(pesQueue) \in Nat BY LenProperties DEF TypeOK
<1>3. CASE pesQueue # <<>>
  <2>1. /\ built' = Append(built, Head(pesQueue))
        /\ pesQueue' = Tail(pesQueue)
        /\ pesQueueSize' = pesQueueSize - 1
        /\ pc' = "ready"
    BY <1>3 DEF Take
  <2>2. /\ Head(pesQueue) \in Frame /\ Tail(pesQueue) \in Seq(Frame)
        /\ Len(Tail(pesQueue)) = Len(pesQueue) - 1
    BY <1>3, HeadTailProperties DEF TypeOK
  <2>3. Append(built, Head(pesQueue)) \in Seq(Frame)
    BY <2>2, AppendProperties DEF TypeOK
  <2>4. TypeOK' BY <1>1, <2>1, <2>2, <2>3 DEF TypeOK
  <2>5. SizesExact' BY <1>1, <1>2, <2>1, <2>2 DEF SizesExact
  <2>6. InScriptOrder'
    <3>1. Append(built, Head(pesQueue)) \o Tail(pesQueue) = built \o pesQueue
      BY <1>3, HeadMoves DEF TypeOK
    <3> QED BY <1>1, <2>1, <3>1 DEF InScriptOrder
  <2>7. Progress' /\ EndIsTheEnd' /\ NeverStarved'
    BY <1>1, <2>1 DEF Progress, EndIsTheEnd, NeverStarved
  <2>8. ReadAheadBounded' BY <1>1, <1>2, <2>1, <2>2, BatchAssumption DEF ReadAheadBounded
  <2> QED BY <2>4, <2>5, <2>6, <2>7, <2>8
<1>4. CASE pesQueue = <<>>
  <2>1. pc' = "end" /\ UNCHANGED <<built, pesQueue, pesQueueSize>>
    BY <1>4 DEF Take
  <2>2. TypeOK' /\ SizesExact' /\ InScriptOrder' /\ ReadAheadBounded'
    BY <1>1, <2>1 DEF TypeOK, SizesExact, InScriptOrder, ReadAheadBounded
  <2>3. Progress' /\ NeverStarved' BY <1>1, <2>1 DEF Progress, NeverStarved
  <2>4. built = script
    <3>1. file = <<>> /\ scriptsQueueSize = 0
      BY <1>1, <1>4 DEF Progress, EndOfScripts
    <3>2. scriptsQueue = <<>> BY <3>1, EmptySeq DEF SizesExact, TypeOK
    <3>3. built \o <<>> = built BY ConcatEmptySeq DEF TypeOK
    <3> QED BY <1>4, <3>1, <3>2, <3>3 DEF InScriptOrder
  <2>5. EndIsTheEnd' BY <1>1, <2>1, <2>4 DEF EndIsTheEnd
  <2> QED BY <2>2, <2>3, <2>5
<1> QED BY <1>3, <1>4

LEMMA FailCorrect == IInv /\ Fail => IInv'
BY DEF IInv, Fail, TypeOK, SizesExact, InScriptOrder, ReadAheadBounded,
       Progress, EndIsTheEnd, NeverStarved

LEMMA Invariance == IInv /\ [Next]_vars => IInv'
<1> SUFFICES ASSUME IInv, [Next]_vars PROVE IInv'
  OBVIOUS
<1>1. CASE Call BY <1>1, CallCorrect
<1>2. CASE BuildAndQueue BY <1>2, BuildAndQueueCorrect
<1>3. CASE Filled BY <1>3, FilledCorrect
<1>4. CASE Take BY <1>4, TakeCorrect
<1>5. CASE Fail BY <1>5, FailCorrect
<1>6. CASE UNCHANGED vars
  BY <1>6 DEF vars, IInv, TypeOK, SizesExact, InScriptOrder, ReadAheadBounded,
              Progress, EndOfScripts, EndIsTheEnd, NeverStarved
<1> QED BY <1>1, <1>2, <1>3, <1>4, <1>5, <1>6 DEF Next

LEMMA Inductive == Spec => []IInv
<1>1. Init => IInv BY InitCorrect
<1>2. IInv /\ [Next]_vars => IInv' BY Invariance
<1> QED BY <1>1, <1>2, PTL DEF Spec

-----------------------------------------------------------------------------
(* Every variable stays in its type.                                        *)
THEOREM TypeCorrect == Spec => []TypeOK
<1>1. IInv => TypeOK BY DEF IInv
<1> QED BY <1>1, Inductive, PTL

(* The counters both refills are driven by are the lengths of the lists.    *)
THEOREM SizesCorrect == Spec => []SizesExact
<1>1. IInv => SizesExact BY DEF IInv
<1> QED BY <1>1, Inductive, PTL

(* Whatever the batches are, no frame is lost, doubled or overtaken between *)
(* the script file and the muxer.                                           *)
THEOREM DeliveredInOrder == Spec => []InScriptOrder
<1>1. IInv => InScriptOrder BY DEF IInv
<1> QED BY <1>1, Inductive, PTL

(* The muxer is only told that there is no more packet when it got them all.*)
THEOREM EndIsComplete == Spec => []EndIsTheEnd
<1>1. IInv => EndIsTheEnd BY DEF IInv
<1> QED BY <1>1, Inductive, PTL

(* The error of a fill that finds no frame cannot be reached.               *)
THEOREM FillFindsAFrame == Spec => []NeverStarved
<1>1. IInv => NeverStarved BY DEF IInv
<1> QED BY <1>1, Inductive, PTL

(* Memory: neither list ever holds a batch more than its low mark.          *)
THEOREM ReadAheadIsBounded == Spec => []ReadAheadBounded
<1>1. IInv => ReadAheadBounded BY DEF IInv
<1> QED BY <1>1, Inductive, PTL
=============================================================================
