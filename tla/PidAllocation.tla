---------------------------- MODULE PidAllocation ----------------------------
(***************************************************************************)
(* The PID of each elementary stream (requestESPIDLibbluStream() of        *)
(* stream.c, the registered values of packetIdentifier.c), as              *)
(* createLibbluMuxingContext() asks for them, stream after stream.         *)
(***************************************************************************)
EXTENDS Integers, Sequences, FiniteSets

CONSTANTS Types,      \* types of elementary streams: primary video, ...
          BasePid,    \* BasePid[t]: the first PID of type t
          Limit,      \* Limit[t]: the number of streams of type t
          SystemPids, \* PIDs of the system streams
          Inputs      \* sequences of requests [type, pid]; pid 0: any

\* Values of 13 bits.
Pids == 0..8191
Reserved(pid) == pid < 16 \/ 8190 < pid
PidRange(t) == BasePid[t]..BasePid[t] + Limit[t] - 1

ASSUME PidAssumption ==
  /\ BasePid \in [Types -> Nat] /\ Limit \in [Types -> Nat \ {0}]
  /\ \A t \in Types : \A pid \in PidRange(t) : ~Reserved(pid) /\ pid \notin SystemPids
  /\ \A t, u \in Types : t # u => PidRange(t) \cap PidRange(u) = {}
  /\ Inputs \subseteq Seq([type : Types, pid : Pids])

VARIABLES requests,     \* the streams without PID yet
          assigned,     \* the others: [type, pid]
          registered,   \* the list of registered values
          nbStreams,    \* streams of each type with a PID
          selectedPid,  \* the value being tried for the first request
          pc            \* "request", "select", "done" or "error"

vars == <<requests, assigned, registered, nbStreams, selectedPid, pc>>

Init == /\ requests \in Inputs
        /\ assigned = <<>>
        /\ registered = <<>>
        /\ nbStreams = [t \in Types |-> 0]
        /\ selectedPid = 0
        /\ pc = "request"

Type == Head(requests).type

\* The walk goes on while values are smaller.
StopsAtGreater(pid) ==
  CHOOSE k \in 1..Len(registered) + 1 :
    /\ k <= Len(registered) => registered[k] > pid
    /\ \A j \in 1..k - 1 : pid >= registered[j]

\* insertLibbluRegisteredPIDValues(): the walk of the list stops at the first
\* smaller value, and fails on an equal one before.
StopsAt(pid) ==
  CHOOSE k \in 1..Len(registered) + 1 :
    /\ k <= Len(registered) => registered[k] < pid
    /\ \A j \in 1..k - 1 : pid <= registered[j]

\* The value just before the stop is not compared.
AlreadyExistsBefore(pid) == \E k \in 1..StopsAt(pid) - 2 : registered[k] = pid

AlreadyExists(pid) == \E k \in 1..StopsAt(pid) - 1 : registered[k] = pid

Inserted(pid) ==
  SubSeq(registered, 1, StopsAt(pid) - 1) \o <<pid>>
    \o SubSeq(registered, StopsAt(pid), Len(registered))

\* A custom PID is compared with one end of the range, or with none.
ChoiceBelowEnd(t, pid) ==
  IF pid < BasePid[t] + Limit[t] /\ ~Reserved(pid) THEN pid ELSE BasePid[t]
AnyChoice(t, pid) == IF pid # 0 THEN pid ELSE BasePid[t]

\* A custom PID is taken when it is in the range of the type
\* (errorOnInvalidPIDRequest is always off).
FirstChoice(t, pid) == IF pid \in PidRange(t) /\ ~Reserved(pid) THEN pid ELSE BasePid[t]

Request == /\ pc = "request" /\ requests # <<>>
           /\ nbStreams[Type] < Limit[Type]
           /\ selectedPid' = FirstChoice(Type, Head(requests).pid)
           /\ pc' = "select"
           /\ UNCHANGED <<requests, assigned, registered, nbStreams>>

TooMany == /\ pc = "request" /\ requests # <<>>
           /\ nbStreams[Type] >= Limit[Type]
           /\ pc' = "error"
           /\ UNCHANGED <<requests, assigned, registered, nbStreams, selectedPid>>

AllServed == /\ pc = "request" /\ requests = <<>>
             /\ pc' = "done"
             /\ UNCHANGED <<requests, assigned, registered, nbStreams, selectedPid>>

\* The value given to insertLibbluRegisteredPIDValues() for the selected PID.
RegisteredFor(pid) == BasePid[Type]

\* The same value is tried again.
TrySame == /\ pc = "select" /\ selectedPid < BasePid[Type] + Limit[Type]
           /\ AlreadyExists(RegisteredFor(selectedPid))
           /\ UNCHANGED vars

TryNext == /\ pc = "select" /\ selectedPid < BasePid[Type] + Limit[Type]
           /\ AlreadyExists(RegisteredFor(selectedPid))
           /\ selectedPid' = selectedPid + 1
           /\ UNCHANGED <<requests, assigned, registered, nbStreams, pc>>

Assign == /\ pc = "select" /\ selectedPid < BasePid[Type] + Limit[Type]
          /\ ~AlreadyExists(RegisteredFor(selectedPid))
          /\ registered' = Inserted(RegisteredFor(selectedPid))
          /\ assigned' = Append(assigned, [type |-> Type, pid |-> selectedPid])
          /\ nbStreams' = [nbStreams EXCEPT ![Type] = @ + 1]
          /\ requests' = Tail(requests)
          /\ pc' = "request"
          /\ UNCHANGED selectedPid

NoneLeft == /\ pc = "select" /\ selectedPid >= BasePid[Type] + Limit[Type]
            /\ pc' = "error"
            /\ UNCHANGED <<requests, assigned, registered, nbStreams, selectedPid>>

Next == Request \/ TooMany \/ AllServed \/ TryNext \/ Assign \/ NoneLeft

Spec == Init /\ [][Next]_vars
FairSpec == Spec /\ WF_vars(Next)
-----------------------------------------------------------------------------
TypeOK == /\ requests \in Seq([type : Types, pid : Pids])
          /\ assigned \in Seq([type : Types, pid : Pids])
          /\ registered \in Seq(Pids)
          /\ \A t \in Types : nbStreams[t] \in 0..Limit[t]
          /\ selectedPid = 0 \/ selectedPid \in 16..8190
          /\ pc \in {"request", "select", "done", "error"}

(* Two streams never share a PID, nor one with a system stream: what the    *)
(* demuxer and the routes of the buffering model rest on.                   *)
PidsDistinct ==
  /\ \A i, j \in DOMAIN assigned : i # j => assigned[i].pid # assigned[j].pid
  /\ \A i \in DOMAIN assigned : assigned[i].pid \notin SystemPids

(* The PID tells the type of the stream, as players expect of this format.  *)
PidsInRange == \A i \in DOMAIN assigned : assigned[i].pid \in PidRange(assigned[i].type)

(* The list stays sorted and without a value twice, whatever the order of   *)
(* the requests: the walk of an insertion relies on it.                     *)
ListSorted == \A i, j \in DOMAIN registered : i < j => registered[i] > registered[j]

(* Every request is answered: the search of a free value ends.              *)
Answered == <>(pc \in {"done", "error"})

(* The limits of setBDAVStdLibbluNumberOfESTypes() are numbers of streams   *)
(* that can be muxed together: 32 PG streams, of which a test has seven.    *)
LimitsUsable ==
  pc = "error" => nbStreams[Type] >= Limit[Type]
=============================================================================
