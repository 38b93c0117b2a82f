------------------------ MODULE PidAllocation_proofs ------------------------
(* For any types, ranges and requests: PIDs are distinct, are none of the   *)
(* system streams, and tell the type.  The value that is registered is the  *)
(* base PID of the type, so that a type gets one PID at most: what makes    *)
(* PIDs distinct is that the walk of the list then finds the base again.    *)
EXTENDS PidAllocation, TLAPS

\* Where the walk of insertLibbluRegisteredPIDValues() stops for a value.
Stop(list, pid, k) ==
  /\ k \in 1..Len(list) + 1
  /\ k <= Len(list) => list[k] < pid
  /\ \A j \in 1..k - 1 : pid <= list[j]

\* The walk always stops, and the values after the stop are smaller.
Walkable(list) == \A pid \in Int : \E k \in 1..Len(list) + 1 :
  Stop(list, pid, k) /\ \A j \in k..Len(list) : list[j] < pid

StreamPids == [type : Types, pid : Pids]
Types_OK ==
  /\ requests \in Seq(StreamPids)
  /\ assigned \in Seq(StreamPids)
  /\ registered \in Seq(Int)
  /\ pc \in {"request", "select", "done", "error"}
  /\ pc = "select" => requests # <<>> /\ selectedPid \in Nat /\ BasePid[Type] <= selectedPid

\* Each stream with a PID has had the base of its type registered.
BaseRegistered ==
  \A i \in DOMAIN assigned : \E k \in DOMAIN registered : registered[k] = BasePid[assigned[i].type]

\* Hence no two streams of a type have a PID.
OneOfEachType ==
  \A i, j \in DOMAIN assigned : i # j => assigned[i].type # assigned[j].type

IInv == Types_OK /\ Walkable(registered) /\ BaseRegistered /\ OneOfEachType /\ PidsInRange

LEMMA RangesOK ==
  ASSUME NEW t \in Types
  PROVE  /\ BasePid[t] \in Nat /\ Limit[t] \in Nat /\ Limit[t] > 0
         /\ BasePid[t] \in PidRange(t)
         /\ \A pid \in PidRange(t) : 16 <= pid /\ pid <= 8190 /\ pid \notin SystemPids
<1>1. BasePid[t] \in Nat /\ Limit[t] \in Nat /\ Limit[t] > 0 BY PidAssumption
<1>2. BasePid[t] \in PidRange(t) BY <1>1 DEF PidRange
<1>3. \A pid \in PidRange(t) : ~Reserved(pid) /\ pid \notin SystemPids BY PidAssumption
<1>4. \A pid \in PidRange(t) : pid \in Int BY <1>1 DEF PidRange
<1> QED BY <1>1, <1>2, <1>3, <1>4 DEF Reserved

\* What StopsAt() chooses is a stop, and the only values before it that can be equal are there.
LEMMA StopsOK ==
  ASSUME Types_OK, Walkable(registered), NEW pid \in Int
  PROVE  /\ Stop(registered, pid, StopsAt(pid))
         /\ AlreadyExists(pid) <=> \E k \in DOMAIN registered : registered[k] = pid
<1> DEFINE s == StopsAt(pid)
<1>1. registered \in Seq(Int) BY DEF Types_OK
<1>2. PICK k \in 1..Len(registered) + 1 :
        Stop(registered, pid, k) /\ \A j \in k..Len(registered) : registered[j] < pid
  BY DEF Walkable
<1>3. Stop(registered, pid, s)
  BY <1>2 DEF StopsAt, Stop
<1>4. s = k
  <2> HIDE DEF s
  <2>1. ~(s < k) 
    BY <1>1, <1>2, <1>3 DEF Stop
  <2>2. ~(k < s)
    BY <1>1, <1>2, <1>3 DEF Stop
  <2> QED BY <1>3, <2>1, <2>2 DEF Stop
<1>5. AlreadyExists(pid) <=> \E i \in 1..s - 1 : registered[i] = pid BY DEF AlreadyExists
<1> HIDE DEF s
<1>6. \A i \in DOMAIN registered : registered[i] = pid => i < s
  BY <1>1, <1>2, <1>4
<1>7. s - 1 <= Len(registered) BY <1>1, <1>3 DEF Stop
<1>8. AlreadyExists(pid) <=> \E i \in DOMAIN registered : registered[i] = pid
  BY <1>1, <1>3, <1>5, <1>6, <1>7 DEF Stop
<1> QED BY <1>3, <1>8 DEF s

LEMMA HeadOK ==
  ASSUME requests \in Seq(StreamPids), requests # <<>>
  PROVE  /\ Head(requests) \in StreamPids /\ Tail(requests) \in Seq(StreamPids)
         /\ Type \in Types /\ Head(requests).pid \in Pids
<1>1. Head(requests) \in StreamPids /\ Tail(requests) \in Seq(StreamPids) OBVIOUS
<1>2. Head(requests).type \in Types /\ Head(requests).pid \in Pids
  <2> DEFINE x == Head(requests)
  <2> HIDE DEF x
  <2>1. x \in StreamPids BY <1>1 DEF x
  <2>2. x.type \in Types /\ x.pid \in Pids BY <2>1 DEF StreamPids
  <2> QED BY <2>2 DEF x
<1> QED BY <1>1, <1>2, Zenon DEF Type

LEMMA ConcatOK ==
  ASSUME NEW c \in Seq(Int), NEW b \in Seq(Int)
  PROVE  /\ c \o b \in Seq(Int) /\ Len(c \o b) = Len(c) + Len(b)
         /\ \A j \in 1..Len(c) : (c \o b)[j] = c[j]
         /\ \A j \in 1..Len(b) : (c \o b)[Len(c) + j] = b[j]
OBVIOUS

\* The list with a value inserted at the stop.
LEMMA InsertedOK ==
  ASSUME Types_OK, Walkable(registered), NEW pid \in Int
  PROVE  /\ Inserted(pid) \in Seq(Int)
         /\ Len(Inserted(pid)) = Len(registered) + 1
         /\ Inserted(pid)[StopsAt(pid)] = pid
         /\ \A j \in 1..StopsAt(pid) - 1 : Inserted(pid)[j] = registered[j]
         /\ \A j \in StopsAt(pid)..Len(registered) : Inserted(pid)[j + 1] = registered[j]
<1> DEFINE s == StopsAt(pid)
<1>1. registered \in Seq(Int) BY DEF Types_OK
<1>2. s \in 1..Len(registered) + 1 BY StopsOK DEF Stop
<1>3. Inserted(pid) = SubSeq(registered, 1, s - 1) \o <<pid>> \o SubSeq(registered, s, Len(registered))
  BY DEF Inserted
<1> HIDE DEF s
<1>4. SubSeq(registered, 1, s - 1) \in Seq(Int) /\ Len(SubSeq(registered, 1, s - 1)) = s - 1
      /\ \A j \in 1..s - 1 : SubSeq(registered, 1, s - 1)[j] = registered[j]
  BY <1>1, <1>2
<1>5. SubSeq(registered, s, Len(registered)) \in Seq(Int)
      /\ Len(SubSeq(registered, s, Len(registered))) = Len(registered) + 1 - s
      /\ \A j \in 1..Len(registered) + 1 - s : SubSeq(registered, s, Len(registered))[j] = registered[s + j - 1]
  BY <1>1, <1>2, SMTT(20)
<1> DEFINE a == SubSeq(registered, 1, s - 1)
           b == SubSeq(registered, s, Len(registered))
           c == a \o <<pid>>
<1>6. c \in Seq(Int) /\ Len(c) = s /\ c[s] = pid /\ \A j \in 1..s - 1 : c[j] = registered[j]
  <2> HIDE DEF a
  <2> QED BY <1>1, <1>2, <1>4 DEF a
<1>7. /\ c \o b \in Seq(Int) /\ Len(c \o b) = s + Len(b)
      /\ \A j \in 1..s : (c \o b)[j] = c[j]
      /\ \A j \in 1..Len(b) : (c \o b)[s + j] = b[j]
  <2>1. b \in Seq(Int) BY <1>5
  <2> HIDE DEF b, c
  <2> QED BY <1>6, <2>1, ConcatOK
<1>8. Len(c \o b) = Len(registered) + 1 /\ \A j \in s..Len(registered) : (c \o b)[j + 1] = registered[j]
  <2>1. Len(b) = Len(registered) + 1 - s
        /\ \A j \in 1..Len(registered) + 1 - s : b[j] = registered[s + j - 1]
    BY <1>5
  <2> HIDE DEF b, c
  <2>2. Len(c \o b) = Len(registered) + 1 BY <1>1, <1>2, <1>7, <2>1
  <2> SUFFICES ASSUME NEW j \in s..Len(registered) PROVE (c \o b)[j + 1] = registered[j] BY <2>2
  <2>3. /\ j + 1 - s \in 1..Len(registered) + 1 - s
        /\ s + (j + 1 - s) = j + 1 /\ s + (j + 1 - s) - 1 = j
    BY <1>1, <1>2
  <2>4. (c \o b)[s + (j + 1 - s)] = b[j + 1 - s] BY <1>7, <2>1, <2>3
  <2>5. b[j + 1 - s] = registered[s + (j + 1 - s) - 1] BY <2>1, <2>3
  <2> QED BY <2>3, <2>4, <2>5
<1>9. /\ (c \o b)[s] = pid
      /\ \A j \in 1..s - 1 : (c \o b)[j] = registered[j]
  <2> HIDE DEF b, c
  <2> QED BY <1>2, <1>6, <1>7
<1> QED BY <1>3, <1>7, <1>8, <1>9 DEF s

LEMMA StaysWalkable ==
  ASSUME Types_OK, Walkable(registered), NEW pid \in Int
  PROVE  Walkable(Inserted(pid))
<1> DEFINE s == StopsAt(pid)
           r == Inserted(pid)
           n == Len(registered)
<1>1. n \in Nat /\ \A j \in 1..n : registered[j] \in Int BY DEF Types_OK
<1>2. /\ s \in 1..n + 1
      /\ s <= n => registered[s] < pid
      /\ \A j \in 1..s - 1 : pid <= registered[j]
  BY StopsOK DEF Stop
<1>3. /\ Len(r) = n + 1 /\ r[s] = pid
      /\ \A j \in 1..s - 1 : r[j] = registered[j]
      /\ \A j \in s..n : r[j + 1] = registered[j]
  BY InsertedOK
<1>4. \A j \in s + 1..n + 1 : r[j] = registered[j - 1]
  <2> HIDE DEF r, s
  <2> SUFFICES ASSUME NEW j \in s + 1..n + 1 PROVE r[j] = registered[j - 1] OBVIOUS
  <2>1. j - 1 \in s..n /\ (j - 1) + 1 = j BY <1>1, <1>2
  <2> QED BY <1>3, <2>1
<1> SUFFICES ASSUME NEW q \in Int
             PROVE  \E k \in 1..n + 2 : Stop(r, q, k) /\ \A j \in k..n + 1 : r[j] < q
  <2>1. (n + 1) + 1 = n + 2 BY <1>1
  <2> HIDE DEF r, n
  <2> QED BY <1>3, <2>1 DEF Walkable, r
<1>5. PICK k \in 1..n + 1 : Stop(registered, q, k) /\ \A j \in k..n : registered[j] < q
  BY DEF Walkable
<1>6. /\ k <= n => registered[k] < q
      /\ \A j \in 1..k - 1 : q <= registered[j]
  BY <1>5 DEF Stop
<1> HIDE DEF r, s, n
<1>7. CASE pid < q
  <2>1. k <= s BY <1>1, <1>2, <1>5, <1>6, <1>7
  <2>2. \A j \in 1..k - 1 : q <= r[j] BY <1>1, <1>2, <1>3, <1>6, <2>1
  <2>3. \A j \in k..n + 1 : r[j] < q
    <3> SUFFICES ASSUME NEW j \in k..n + 1 PROVE r[j] < q OBVIOUS
    <3>1. CASE j < s BY <1>1, <1>2, <1>3, <1>5, <3>1
    <3>2. CASE j = s BY <1>3, <1>7, <3>2
    <3>3. CASE j > s
      <4>1. r[j] = registered[j - 1] BY <1>1, <1>2, <1>4, <3>3
      <4>2. j - 1 \in k..n BY <1>1, <1>2, <2>1, <3>3
      <4> QED BY <1>5, <4>1, <4>2
    <3> QED BY <1>1, <1>2, <3>1, <3>2, <3>3
  <2>4. k \in 1..n + 2 /\ (k <= n + 1 => r[k] < q) BY <1>1, <2>3
  <2> QED BY <1>3, <2>2, <2>3, <2>4 DEF Stop, n
<1>8. CASE q <= pid
  <2>1. s <= k BY <1>1, <1>2, <1>5, <1>6, <1>8
  <2>2. \A j \in 1..k : q <= r[j]
    <3> SUFFICES ASSUME NEW j \in 1..k PROVE q <= r[j] OBVIOUS
    <3>1. CASE j < s BY <1>1, <1>2, <1>3, <1>6, <2>1, <3>1
    <3>2. CASE j = s BY <1>3, <1>8, <3>2
    <3>3. CASE j > s
      <4>1. r[j] = registered[j - 1] BY <1>1, <1>2, <1>4, <1>5, <3>3
      <4>2. j - 1 \in 1..k - 1 BY <1>1, <1>2, <3>3
      <4> QED BY <1>6, <4>1, <4>2
    <3> QED BY <1>1, <1>2, <3>1, <3>2, <3>3
  <2>3. \A j \in k + 1..n + 1 : r[j] < q
    <3> SUFFICES ASSUME NEW j \in k + 1..n + 1 PROVE r[j] < q OBVIOUS
    <3>1. r[j] = registered[j - 1] BY <1>1, <1>2, <1>4, <2>1
    <3>2. j - 1 \in k..n BY <1>1, <1>5
    <3> QED BY <1>5, <3>1, <3>2
  <2>4. k + 1 \in 1..n + 2 /\ (k + 1 <= n + 1 => r[k + 1] < q) BY <1>1, <1>5, <2>3
  <2>5. Stop(r, q, k + 1)
    <3>1. (k + 1) - 1 = k BY <1>1, <1>5
    <3> QED BY <1>1, <1>3, <2>2, <2>4, <3>1 DEF Stop, n
  <2> QED BY <2>3, <2>4, <2>5
<1> QED BY <1>7, <1>8, <1>1, <1>2 DEF Types_OK

-----------------------------------------------------------------------------
LEMMA InitCorrect == Init => IInv
<1> SUFFICES ASSUME Init PROVE IInv OBVIOUS
<1>1. Types_OK
  <2>1. requests \in Seq(StreamPids)
    <3>1. Inputs \subseteq Seq(StreamPids) BY PidAssumption, Zenon DEF StreamPids
    <3> QED BY <3>1 DEF Init
  <2> QED BY <2>1 DEF Init, Types_OK
<1>2. Walkable(registered) BY DEF Init, Walkable, Stop
<1>3. BaseRegistered /\ OneOfEachType /\ PidsInRange
  BY DEF Init, BaseRegistered, OneOfEachType, PidsInRange
<1> QED BY <1>1, <1>2, <1>3 DEF IInv

\* A PID is given: the base of its type was not registered, so no stream of the type had one.
LEMMA AssignKeeps ==
  ASSUME IInv, Assign
  PROVE  IInv'
<1> DEFINE t == Type
           base == BasePid[t]
           s == StopsAt(base)
<1>0. Types_OK /\ Walkable(registered) BY DEF IInv
<1>1. /\ pc = "select" /\ selectedPid < BasePid[t] + Limit[t]
      /\ ~AlreadyExists(base)
      /\ registered' = Inserted(base)
      /\ assigned' = Append(assigned, [type |-> t, pid |-> selectedPid])
      /\ requests' = Tail(requests)
      /\ pc' = "request"
  BY DEF Assign, RegisteredFor
<1>2. /\ requests \in Seq(StreamPids) /\ requests # <<>>
      /\ assigned \in Seq(StreamPids)
      /\ selectedPid \in Nat /\ base <= selectedPid
  BY <1>1 DEF IInv, Types_OK
<1>3. t \in Types BY <1>2, HeadOK
<1>4. base \in Nat /\ Limit[t] \in Nat /\ base \in Int BY <1>3, RangesOK
<1>5. selectedPid \in PidRange(t)
  <2> HIDE DEF t
  <2> QED BY <1>1, <1>2, <1>4 DEF PidRange
<1>6. selectedPid \in Pids BY <1>2, <1>3, <1>5, RangesOK, SMTT(20) DEF Pids
<1>7. Types_OK'
  <2>1. requests' \in Seq(StreamPids) BY <1>1, <1>2
  <2>2. [type |-> t, pid |-> selectedPid] \in StreamPids BY <1>3, <1>6 DEF StreamPids
  <2>3. assigned' \in Seq(StreamPids) BY <1>1, <1>2, <2>2
  <2>4. registered' \in Seq(Int) BY <1>0, <1>1, <1>4, InsertedOK
  <2> QED BY <1>1, <2>1, <2>3, <2>4 DEF Types_OK
<1>8. Walkable(registered)' BY <1>0, <1>1, <1>4, StaysWalkable
<1> DEFINE n == Len(assigned)
<1>9. /\ n \in Nat /\ DOMAIN assigned = 1..n /\ DOMAIN assigned' = 1..n + 1
      /\ \A i \in 1..n : assigned'[i] = assigned[i]
      /\ assigned'[n + 1] = [type |-> t, pid |-> selectedPid]
  <2> HIDE DEF t
  <2> QED BY <1>1, <1>2
<1>10. \A k \in DOMAIN registered : \E l \in DOMAIN registered' : registered'[l] = registered[k]
  <2>1. /\ Len(registered) \in Nat /\ DOMAIN registered = 1..Len(registered)
        /\ s \in 1..Len(registered) + 1
    <3>1. Stop(registered, base, s) BY <1>0, <1>4, StopsOK
    <3> QED BY <1>0, <3>1 DEF Types_OK, Stop
  <2>2. /\ DOMAIN registered' = 1..Len(registered) + 1
        /\ \A j \in 1..s - 1 : registered'[j] = registered[j]
        /\ \A j \in s..Len(registered) : registered'[j + 1] = registered[j]
    <3>1. registered' \in Seq(Int) BY <1>7 DEF Types_OK
    <3>2. DOMAIN registered' = 1..Len(registered') BY <3>1
    <3> QED BY <1>0, <1>1, <1>4, <3>2, InsertedOK
  <2> HIDE DEF s
  <2> SUFFICES ASSUME NEW k \in 1..Len(registered)
               PROVE  \E l \in 1..Len(registered) + 1 : registered'[l] = registered[k]
    BY <2>1, <2>2
  <2>3. CASE k < s BY <2>1, <2>2, <2>3
  <2>4. CASE k >= s
    <3>1. k + 1 \in 1..Len(registered) + 1 /\ registered'[k + 1] = registered[k] BY <2>1, <2>2, <2>4
    <3> QED BY <3>1
  <2> QED BY <2>1, <2>3, <2>4
<1>11. s \in DOMAIN registered' /\ registered'[s] = base
  <2>1. /\ Len(registered) \in Nat /\ s \in 1..Len(registered) + 1
    <3>1. Stop(registered, base, s) BY <1>0, <1>4, StopsOK
    <3> QED BY <1>0, <3>1 DEF Types_OK, Stop
  <2>2. DOMAIN registered' = 1..Len(registered) + 1 /\ registered'[s] = base
    <3>1. registered' \in Seq(Int) BY <1>7 DEF Types_OK
    <3>2. DOMAIN registered' = 1..Len(registered') BY <3>1
    <3> QED BY <1>0, <1>1, <1>4, <3>2, InsertedOK
  <2> QED BY <2>1, <2>2
<1>12. BaseRegistered'
  <2> SUFFICES ASSUME NEW i \in 1..n + 1
               PROVE  \E k \in DOMAIN registered' : registered'[k] = BasePid[assigned'[i].type]
    BY <1>9 DEF BaseRegistered
  <2>1. CASE i \in 1..n
    <3>1. PICK k \in DOMAIN registered : registered[k] = BasePid[assigned[i].type]
      BY <1>9, <2>1 DEF IInv, BaseRegistered
    <3> HIDE DEF n
    <3> QED BY <1>9, <1>10, <2>1, <3>1
  <2>2. CASE i = n + 1
    <3>1. assigned'[i].type = t BY <1>9, <2>2
    <3> QED BY <1>11, <3>1
  <2> QED BY <1>9, <2>1, <2>2
<1>13. \A i \in 1..n : assigned[i].type # t
  <2>1. ~\E k \in DOMAIN registered : registered[k] = base BY <1>0, <1>1, <1>4, StopsOK
  <2> QED BY <1>9, <2>1 DEF IInv, BaseRegistered
<1>14. OneOfEachType'
  <2>1. \A i, j \in 1..n : i # j => assigned[i].type # assigned[j].type BY <1>9 DEF IInv, OneOfEachType
  <2>2. assigned'[n + 1].type = t BY <1>9
  <2> HIDE DEF t, n
  <2> QED BY <1>9, <1>13, <2>1, <2>2 DEF OneOfEachType
<1>15. PidsInRange'
  <2>1. \A i \in 1..n : assigned[i].pid \in PidRange(assigned[i].type) BY <1>9 DEF IInv, PidsInRange
  <2>2. assigned'[n + 1].type = t /\ assigned'[n + 1].pid = selectedPid BY <1>9
  <2>3. \A i \in 1..n + 1 : assigned'[i].pid \in PidRange(assigned'[i].type)
    <3> HIDE DEF t, n
    <3> QED BY <1>5, <1>9, <2>1, <2>2
  <2> QED BY <1>9, <2>3 DEF PidsInRange, PidRange
<1> QED BY <1>7, <1>8, <1>12, <1>14, <1>15 DEF IInv

LEMMA NextKeeps == IInv /\ [Next]_vars => IInv'
<1> SUFFICES ASSUME IInv, [Next]_vars PROVE IInv' OBVIOUS
<1> DEFINE Same == UNCHANGED <<assigned, registered>>
<1>1. Same => (Walkable(registered) /\ BaseRegistered /\ OneOfEachType /\ PidsInRange)'
  BY DEF IInv, Walkable, BaseRegistered, OneOfEachType, PidsInRange, PidRange
<1>2. CASE Request
  <2>1. requests # <<>> /\ selectedPid' = FirstChoice(Type, Head(requests).pid) /\ pc' = "select"
        /\ UNCHANGED <<requests, assigned, registered>>
    BY <1>2 DEF Request
  <2>2. Type \in Types /\ Head(requests).pid \in Pids 
    <3>1. requests \in Seq(StreamPids) BY DEF IInv, Types_OK
    <3> QED BY <2>1, <3>1, HeadOK, Zenon
  <2>3. selectedPid' \in Nat /\ BasePid[Type] <= selectedPid'
    <3> DEFINE t == Type
               p == Head(requests).pid
    <3>1. /\ t \in Types /\ p \in Int
          /\ (selectedPid' = p /\ p \in PidRange(t)) \/ selectedPid' = BasePid[t]
      <4>1. t \in Types /\ p \in Pids /\ selectedPid' = FirstChoice(t, p) BY <2>1, <2>2, Zenon
      <4> HIDE DEF t, p
      <4> QED BY <4>1 DEF FirstChoice, Pids
    <3> HIDE DEF t, p
    <3>2. selectedPid' \in Nat /\ BasePid[t] <= selectedPid'
      BY <3>1, RangesOK DEF PidRange
    <3> QED BY <3>2 DEF t
  <2>4. Type' = Type BY <2>1 DEF Type
  <2>5. Types_OK' BY <2>1, <2>3, <2>4 DEF IInv, Types_OK
  <2> QED BY <1>1, <2>1, <2>5 DEF IInv
<1>3. CASE TooMany
  BY <1>1, <1>3 DEF TooMany, IInv, Types_OK
<1>4. CASE AllServed
  BY <1>1, <1>4 DEF AllServed, IInv, Types_OK
<1>5. CASE TryNext
  <2>1. pc = "select" /\ selectedPid' = selectedPid + 1 /\ UNCHANGED <<requests, assigned, registered, pc>>
    BY <1>5 DEF TryNext
  <2>2. requests # <<>> /\ Type \in Types /\ Type' = Type
    <3>1. requests # <<>> BY <2>1 DEF IInv, Types_OK
    <3>2. requests \in Seq(StreamPids) BY DEF IInv, Types_OK
    <3>3. Type \in Types BY <3>1, <3>2, HeadOK
    <3> QED BY <2>1, <3>1, <3>3 DEF Type
  <2>3. BasePid[Type] \in Nat BY <2>2, RangesOK
  <2>4. selectedPid' \in Nat /\ BasePid[Type] <= selectedPid' BY <2>1, <2>3 DEF IInv, Types_OK
  <2>5. Types_OK' BY <2>1, <2>2, <2>4 DEF IInv, Types_OK
  <2> QED BY <1>1, <2>1, <2>5 DEF IInv
<1>6. CASE Assign BY <1>6, AssignKeeps
<1>7. CASE NoneLeft
  BY <1>1, <1>7 DEF NoneLeft, IInv, Types_OK
<1>8. CASE UNCHANGED vars
  BY <1>1, <1>8 DEF vars, IInv, Types_OK, Type
<1> QED BY <1>2, <1>3, <1>4, <1>5, <1>6, <1>7, <1>8 DEF Next

LEMMA Invariant == Spec => []IInv
BY InitCorrect, NextKeeps, PTL DEF Spec

-----------------------------------------------------------------------------
\* The PID that requestESPIDLibbluStream() gives tells the type of the stream.
THEOREM InRange == Spec => []PidsInRange
<1>1. IInv => PidsInRange BY DEF IInv
<1> QED BY <1>1, Invariant, PTL

\* No two streams get the same PID, nor that of a system stream, whatever is asked for.
THEOREM Distinct == Spec => []PidsDistinct
<1>1. IInv => PidsDistinct
  <2> SUFFICES ASSUME IInv PROVE PidsDistinct OBVIOUS
  <2>1. \A i \in DOMAIN assigned :
          assigned[i].type \in Types /\ assigned[i].pid \in PidRange(assigned[i].type)
    <3>1. \A i \in DOMAIN assigned : assigned[i] \in StreamPids BY DEF IInv, Types_OK
    <3> QED BY <3>1 DEF IInv, PidsInRange, StreamPids
  <2>2. \A i, j \in DOMAIN assigned : i # j => assigned[i].pid # assigned[j].pid
    <3> SUFFICES ASSUME NEW i \in DOMAIN assigned, NEW j \in DOMAIN assigned, i # j
                 PROVE  assigned[i].pid # assigned[j].pid
      OBVIOUS
    <3>1. assigned[i].type # assigned[j].type BY DEF IInv, OneOfEachType
    <3>2. PidRange(assigned[i].type) \cap PidRange(assigned[j].type) = {} BY <2>1, <3>1, PidAssumption
    <3> QED BY <2>1, <3>2
  <2>3. \A i \in DOMAIN assigned : assigned[i].pid \notin SystemPids BY <2>1, PidAssumption
  <2> QED BY <2>2, <2>3 DEF PidsDistinct
<1> QED BY <1>1, Invariant, PTL
=============================================================================
