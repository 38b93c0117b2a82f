---------------------------- MODULE MuxingContext ----------------------------
(***************************************************************************)
(* The scheduler of the muxer (muxingContext.c, mainMuxer.c): one slot of  *)
(* the output at a time, it sends a packet of a system table that is due,  *)
(* else of an elementary stream that is due, else stuffing.  The two heaps *)
(* of timed streams are the queues of TimerQueue; whether the buffering    *)
(* model (T-STD) has room is left open here, for the streams it manages.   *)
(***************************************************************************)
EXTENDS Integers, FiniteSets, FiniteSetsExt, Sequences

CONSTANTS ES,                       \* the elementary streams
          MainClock,                \* MAIN_CLOCK_27MHZ: ticks per second
          SubTicks,                 \* ticks of a 90 kHz clock tick: 300
          TpPayload,                \* TP_SIZE - TP_HEADER_SIZE: 184
          PacketShift,              \* ticks per packet a PES packet is ahead of its DTS: 846
          StdBufDelay,              \* initialTStdBufDuration, in ticks
          RefPts,                   \* RefPts[e]: time of e's first picture in its script
          Bitrate,                  \* of a stream, bits per second
          PesNb, PesNbSec,          \* PES packets per second, of its (extension) frames
          Alternative               \* streams with bitRateBasedDurationAlternativeMode

ASSUME TimingAssumption ==
  /\ MainClock \in Nat \ {0} /\ SubTicks \in Nat \ {0}
  /\ TpPayload \in Nat \ {0} /\ PacketShift \in Nat
  /\ StdBufDelay \in Nat /\ StdBufDelay % SubTicks = 0
  /\ RefPts \in [ES -> Nat]
  /\ Bitrate \in [ES -> Nat \ {0}]
  /\ PesNb \in [ES -> Nat \ {0}] /\ PesNbSec \in [ES -> Nat \ {0}]
  /\ Alternative \subseteq ES

CONSTANTS System, Pcr,        \* the system streams; the one of the PCR packets
          Priority,           \* Priority[s]: tsPriority of system stream s
          TableSize, Delay,   \* bytes of its table (none for the PCR), its period
          Inputs,             \* the settings and streams to try (see input)
          PcrFieldSize,       \* bytes a PCR takes from a payload: 8
          Managed,            \* streams that the buffering model manages
          TpDuration,         \* a slot, in fractions of a tick:
          ClockScale,         \*   so many to a tick
          UnitSize            \* packets in an aligned unit: 32

ASSUME ContextAssumption ==
  /\ IsFiniteSet(ES) /\ IsFiniteSet(System) /\ Pcr \in System
  /\ Priority \in [System -> Nat]
  /\ TableSize \in [System -> Nat] /\ Delay \in [System -> Nat]
  /\ \A in \in Inputs :
       /\ in.cbrMuxing \in BOOLEAN
       /\ in.initialPresentationTime \in Nat /\ in.blockedUntil \in Nat
       /\ \A e \in ES :
            /\ in.script[e] \in Seq([dts : Nat, size : Nat \ {0}, extensionFrame : BOOLEAN])
            /\ in.script[e] # <<>>
       \* A longer PES packet leaves the PCR no place (see TsPacket).
       /\ in.pcrPID \in ES =>
            \A k \in 1..Len(in.script[in.pcrPID]) :
              in.script[in.pcrPID][k].size <= TpPayload - PcrFieldSize
  /\ Managed \subseteq System \cup ES
  /\ TpDuration \in Nat \ {0} /\ ClockScale \in Nat \ {0}
  /\ UnitSize \in Nat \ {0}

VARIABLES pc,         \* where the loop of mainMux() is: "system", "es", "null",
                      \*   "tick", "pad", or over: "done", "failed"
          stc,        \* currentStc, in fractions of a tick
          nbPackets,  \* nbTsPacketsMuxed
          full,       \* streams whose buffers have no room in this slot
          sysTsPt,    \* the system heap: when s is due
          tableLeft,  \* bytes of the table of s still to send
          supplied,   \* firstFullTableSupplied
          injectionRequired,
          input,      \* what the user gave, a record of
                      \*   cbrMuxing   slots without packet are stuffed
                      \*   pcrPID      the ES with the PCR, or no stream
                      \*   initialPresentationTime
                      \*   script      for every ES its PES packets
                      \*   blockedUntil  bound: until then the buffering model
                      \*               may refuse packets
          esTimer,    \* the ES heap: the timing of the streams with data left
          pesLeft,    \* bytes of the current PES packet still to send
          nextPes     \* PES packets built

sysVars == <<sysTsPt, tableLeft, supplied, injectionRequired>>
esVars  == <<input, esTimer, pesLeft, nextPes>>
vars    == <<pc, stc, nbPackets, full, sysVars, esVars>>

-----------------------------------------------------------------------------
(* The time stamps, in ticks of the main clock: where the system time clock *)
(* starts, and when each transport packet of a PES packet is due.  Rates    *)
(* are whole numbers here; the code computes with doubles and rounds down   *)
(* where these operators divide.                                            *)

MIN(a, b) == IF a < b THEN a ELSE b
MAX(a, b) == IF a < b THEN b ELSE a
DivRoundUp(a, b) == (a + b - 1) \div b
Round90kHz(t) == (t \div SubTicks) * SubTicks

\* getMinInitialDelay()
InitialDelay == Max({0} \cup {RefPts[e] : e \in ES})

\* A start that leaves the buffers no time to fill.
StartPcrWithoutDelay(initialPresentationTime) ==
  MAX(initialPresentationTime, InitialDelay)

\* computeInitialTimings(): the start PCR, also the referential STC, for the
\* start time that the user asks.
StartPcr(initialPresentationTime) ==
  MAX(initialPresentationTime, InitialDelay + StdBufDelay)
InitialStc(startPcr) == Round90kHz(startPcr - InitialDelay) - StdBufDelay

\* prepareLibbluESPesPacketProperties(): time of the output for time t of a script.
OutputTime(referentialStc, e, t) == t + referentialStc - RefPts[e]

\* calcPesTiming(), for a PES packet none of which is sent.
PesPerSecond(e, pes) == IF pes.extensionFrame THEN PesNbSec[e] ELSE PesNb[e]
PesDuration(e, pes) ==
  IF e \in Alternative THEN (MainClock * pes.size * 8) \div Bitrate[e]
                       ELSE MainClock \div PesPerSecond(e, pes)
NominalSize(e, pes) ==
  IF e \in Alternative THEN pes.size
                       ELSE Bitrate[e] \div (PesPerSecond(e, pes) * 8)
PesTsNb(e, pes) == DivRoundUp(MAX(NominalSize(e, pes), pes.size), TpPayload)
TsDuration(e, pes) == PesDuration(e, pes) \div MAX(1, PesTsNb(e, pes))

\* A PES packet is sent when it is decoded.
FirstTsPtAtDts(referentialStc, e, pes) ==
  OutputTime(referentialStc, e, pes.dts) - PesTsNb(e, pes) * PacketShift

FirstTsPt(referentialStc, e, pes) ==
  LET dts   == OutputTime(referentialStc, e, pes.dts) - StdBufDelay
      shift == PesTsNb(e, pes) * PacketShift
  IN  IF shift < dts THEN dts - shift ELSE dts

PesTiming(referentialStc, e, pes) ==
  [tsPt |-> FirstTsPt(referentialStc, e, pes), tsDuration |-> TsDuration(e, pes)]
-----------------------------------------------------------------------------
ReferentialStc == StartPcr(input.initialPresentationTime)

CurrentStcTs == MAX(0, stc) \div ClockScale

\* checkBufferingModelAvailability() answers alike all through a slot.
Verdicts(time) == IF time < input.blockedUntil THEN SUBSET Managed ELSE {{}}

\* createLibbluMuxingContext() and addSystemStreamToContext()
Init == /\ pc = "system"
        /\ input \in Inputs
        /\ stc = InitialStc(ReferentialStc) * ClockScale
        /\ nbPackets = 0
        /\ full \in Verdicts(stc)
        /\ sysTsPt = [s \in System |-> CurrentStcTs]
        /\ tableLeft = TableSize
        /\ supplied = [s \in System |-> FALSE]
        /\ injectionRequired = FALSE
        /\ esTimer = [e \in ES |-> PesTiming(ReferentialStc, e, input.script[e][1])]
        /\ pesLeft = [e \in ES |-> input.script[e][1].size]
        /\ nextPes = [e \in ES |-> 1]

\* A packet takes the slot.
Sent == /\ nbPackets' = nbPackets + 1
        /\ pc' = "tick"
        /\ UNCHANGED <<stc, full>>
-----------------------------------------------------------------------------
\* muxNextSystemStreamPacket()

NbTablePackets(bytes) == MAX(1, DivRoundUp(bytes, TpPayload))
SysPeriod(s) == Delay[s] \div NbTablePackets(TableSize[s])

\* All tables, once, fit in the period of any of them: slots of microseconds
\* against periods of tens of milliseconds.
FirstPackets == UNION {{s} \X (1..NbTablePackets(TableSize[s])) : s \in System}
ASSUME RoomAssumption ==
  \A s \in System : Cardinality(FirstPackets) * TpDuration < SysPeriod(s) * ClockScale

\* addSystemStreamToContext() gives the PCR the lowest priority.
ASSUME PriorityAssumption == \A s \in System \ {Pcr} : Priority[Pcr] < Priority[s]

SystemDue(s) ==
  /\ sysTsPt[s] <= CurrentStcTs
  /\ \A r \in System : \/ sysTsPt[s] < sysTsPt[r]
                       \/ sysTsPt[s] = sysTsPt[r] /\ Priority[s] >= Priority[r]

\* The elementary streams go first.
SystemIgnored == /\ pc = "system"
                 /\ pc' = "es"
                 /\ UNCHANGED <<stc, nbPackets, full, sysVars, esVars>>

NoSystemDue == /\ pc = "system"
               /\ \A s \in System : sysTsPt[s] > CurrentStcTs
               /\ pc' = "es"
               /\ UNCHANGED <<stc, nbPackets, full, sysVars, esVars>>

\* The PCR is carried by an elementary stream.
SkipPcr == /\ pc = "system"
           /\ SystemDue(Pcr)
           /\ input.pcrPID \in ES
           /\ injectionRequired' = TRUE
           /\ sysTsPt' = [sysTsPt EXCEPT ![Pcr] = @ + SysPeriod(Pcr)]
           /\ pc' = "es"
           /\ UNCHANGED <<stc, nbPackets, full, tableLeft, supplied, esVars>>

HasOwnPackets(s) == s # Pcr \/ input.pcrPID \notin ES

\* No room: the stream goes back in the heap as it was.
SystemBlocked(s) == /\ pc = "system"
                    /\ SystemDue(s) /\ HasOwnPackets(s)
                    /\ s \in full
                    /\ pc' = "es"
                    /\ UNCHANGED <<stc, nbPackets, full, sysVars, esVars>>

\* A table of several packets is spread over as many periods from the start.
AdvancedAlways(s, sent) == sysTsPt[s] + SysPeriod(s)

\* The time stamp only advances once the table was sent in full.
Advanced(s, sent) == IF sent THEN sysTsPt[s] + SysPeriod(s) ELSE sysTsPt[s]

MuxSystemPacket(s) ==
  /\ pc = "system"
  /\ SystemDue(s) /\ HasOwnPackets(s)
  /\ s \notin full
  /\ LET rest == tableLeft[s] - MIN(tableLeft[s], TpPayload) IN
       /\ tableLeft' = [tableLeft EXCEPT ![s] = IF rest = 0 THEN TableSize[s] ELSE rest]
       /\ supplied' = [supplied EXCEPT ![s] = @ \/ rest = 0]
       /\ sysTsPt' = [sysTsPt EXCEPT ![s] = Advanced(s, supplied'[s])]
  /\ Sent
  /\ UNCHANGED <<injectionRequired, esVars>>
-----------------------------------------------------------------------------
\* muxNextESPacket()

EsDue(e) == /\ e \in DOMAIN esTimer
            /\ esTimer[e].tsPt <= CurrentStcTs
            /\ \A f \in DOMAIN esTimer : esTimer[e].tsPt <= esTimer[f].tsPt

\* A stream without room is tried again and again in the same slot.
NotLater(timer) == timer

Later(timer) == [timer EXCEPT !.tsPt = @ + timer.tsDuration]

NoEsDue == /\ pc = "es"
           /\ \A e \in DOMAIN esTimer : esTimer[e].tsPt > CurrentStcTs
           /\ pc' = IF input.cbrMuxing THEN "null" ELSE "tick"
           /\ UNCHANGED <<stc, nbPackets, full, sysVars, esVars>>

\* No room: the stream is forgotten.
EsBlockedLost(e) ==
  /\ pc = "es"
  /\ EsDue(e)
  /\ e \in full
  /\ esTimer' = [f \in DOMAIN esTimer \ {e} |-> esTimer[f]]
  /\ UNCHANGED <<pc, stc, nbPackets, full, sysVars, input, pesLeft, nextPes>>

\* No room: the stream is put off, and the loop tries another one.
EsBlocked(e) == /\ pc = "es"
                /\ EsDue(e)
                /\ e \in full
                /\ esTimer' = [esTimer EXCEPT ![e] = Later(@)]
                /\ UNCHANGED <<pc, stc, nbPackets, full, sysVars, input, pesLeft, nextPes>>

Payload(e) == MIN(pesLeft[e], TpPayload)

ContinuePes(e) == /\ Payload(e) < pesLeft[e]
                  /\ pesLeft' = [pesLeft EXCEPT ![e] = @ - Payload(e)]
                  /\ esTimer' = [esTimer EXCEPT ![e] = Later(@)]
                  /\ UNCHANGED nextPes

\* buildNextPesPacketLibbluES() returns 1, then calcPesTiming().
StartNextPes(e) ==
  /\ Payload(e) = pesLeft[e]
  /\ nextPes[e] < Len(input.script[e])
  /\ LET pes == input.script[e][nextPes[e] + 1] IN
       /\ pesLeft' = [pesLeft EXCEPT ![e] = pes.size]
       /\ esTimer' = [esTimer EXCEPT ![e] = PesTiming(ReferentialStc, e, pes)]
  /\ nextPes' = [nextPes EXCEPT ![e] = @ + 1]

\* At the end a packet too many is counted.
EndOfStreamCounted(e) == /\ Payload(e) = pesLeft[e]
                         /\ nextPes[e] = Len(input.script[e])
                         /\ pesLeft' = [pesLeft EXCEPT ![e] = 0]
                         /\ esTimer' = [f \in DOMAIN esTimer \ {e} |-> esTimer[f]]
                         /\ nextPes' = [nextPes EXCEPT ![e] = @ + 1]

\* It returns 0: the stream is not put back in the heap.
EndOfStream(e) == /\ Payload(e) = pesLeft[e]
                  /\ nextPes[e] = Len(input.script[e])
                  /\ pesLeft' = [pesLeft EXCEPT ![e] = 0]
                  /\ esTimer' = [f \in DOMAIN esTimer \ {e} |-> esTimer[f]]
                  /\ UNCHANGED nextPes

MuxEsPacket(e) == /\ pc = "es"
                  /\ EsDue(e) /\ e \notin full
                  /\ ContinuePes(e) \/ StartNextPes(e) \/ EndOfStream(e)
                  /\ Sent
                  /\ UNCHANGED <<sysVars, input>>
-----------------------------------------------------------------------------
NullPacket == /\ pc = "null"
              /\ Sent
              /\ UNCHANGED <<sysVars, esVars>>

\* The clock only counts whole ticks.
TickRounded == /\ pc = "tick"
               /\ stc' = stc + (TpDuration \div ClockScale) * ClockScale
               /\ full' \in Verdicts(stc')
               /\ pc' = IF DOMAIN esTimer # {} THEN "system" ELSE "pad"
               /\ UNCHANGED <<nbPackets, sysVars, esVars>>

\* increaseCurrentStc(), then dataRemaining() of mainMux()'s loop.
Tick == /\ pc = "tick"
        /\ stc' = stc + TpDuration
        /\ full' \in Verdicts(stc')
        /\ pc' = IF DOMAIN esTimer # {} THEN "system" ELSE "pad"
        /\ UNCHANGED <<nbPackets, sysVars, esVars>>

\* padAlignedUnit()
Pad == /\ pc = "pad"
       /\ nbPackets % UnitSize # 0
       /\ nbPackets' = nbPackets + 1
       /\ stc' = stc + TpDuration
       /\ UNCHANGED <<pc, full, sysVars, esVars>>

\* The output may end inside a unit.
FinishAnywhere == /\ pc = "pad"
                  /\ pc' = "done"
                  /\ UNCHANGED <<stc, nbPackets, full, sysVars, esVars>>

Finish == /\ pc = "pad"
          /\ nbPackets % UnitSize = 0
          /\ pc' = "done"
          /\ UNCHANGED <<stc, nbPackets, full, sysVars, esVars>>

\* An error of writing, of a script or of the buffering model ends mainMux().
Fail == /\ pc \in {"system", "es", "null", "pad"}
        /\ pc' = "failed"
        /\ UNCHANGED <<stc, nbPackets, full, sysVars, esVars>>

Run == \/ NoSystemDue \/ SkipPcr
       \/ \E s \in System : SystemBlocked(s) \/ MuxSystemPacket(s)
       \/ NoEsDue
       \/ \E e \in ES : EsBlocked(e) \/ MuxEsPacket(e)
       \/ NullPacket \/ Tick \/ Pad \/ Finish

Next == Run \/ Fail

Spec == Init /\ [][Next]_vars

\* One thread runs the loop, and nothing in it waits.
FairSpec == Spec /\ WF_vars(Run)
-----------------------------------------------------------------------------
TypeOK == /\ pc \in {"system", "es", "null", "tick", "pad", "done", "failed"}
          /\ stc \in Int /\ nbPackets \in Nat
          /\ full \subseteq Managed
          /\ sysTsPt \in [System -> Nat]
          /\ tableLeft \in [System -> Nat]
          /\ supplied \in [System -> BOOLEAN] /\ injectionRequired \in BOOLEAN
          /\ input \in Inputs
          /\ DOMAIN esTimer \subseteq ES
          /\ \A e \in DOMAIN esTimer : esTimer[e] \in [tsPt : Int, tsDuration : Nat]
          /\ pesLeft \in [ES -> Nat]
          /\ \A e \in ES : nextPes[e] \in 1..Len(input.script[e])

(* The heap of elementary streams, whose emptiness ends the muxing, holds   *)
(* exactly the streams with data left to send.                              *)
HeapHasTheRest == DOMAIN esTimer = {e \in ES : pesLeft[e] > 0}

(* At a constant rate the clock advances by one slot for each packet, so    *)
(* that PCR values and packet positions agree; else by at least that.       *)
RateKept ==
  LET elapsed == stc - InitialStc(ReferentialStc) * ClockScale
                     + IF pc = "tick" THEN TpDuration ELSE 0
  IN  /\ nbPackets * TpDuration <= elapsed
      /\ input.cbrMuxing => nbPackets * TpDuration = elapsed

(* calcPesTiming() asserts that no DTS comes before the buffering delay.    *)
CurrentDts(e) == OutputTime(ReferentialStc, e, input.script[e][nextPes[e]].dts)
DtsCoversDelay == \A e \in ES : StdBufDelay <= CurrentDts(e)

\* Where the buffering model refuses nothing, and the streams together need
\* less than the rate:
NothingRefused == input.blockedUntil = 0

(* no elementary stream has a packet before all tables were sent in full,   *)
Begun(e) == nextPes[e] > 1 \/ pesLeft[e] < input.script[e][1].size
TablesFirst ==
  NothingRefused /\ (\E e \in ES : Begun(e)) =>
    \A s \in System : HasOwnPackets(s) => supplied[s]

(* a table that is due is late by at most one slot for each system stream,  *)
(* as long as there is data to mux,                                         *)
SystemInTime ==
  NothingRefused /\ pc \in {"system", "es", "null", "tick"} =>
    \A s \in System : supplied[s] =>
      stc <= sysTsPt[s] * ClockScale + Cardinality(System) * TpDuration

(* and a PES packet is complete before its decoding time.                   *)
CompleteBeforeDts ==
  NothingRefused => \A e \in DOMAIN esTimer : CurrentStcTs <= CurrentDts(e)

(* Every PES packet is in the output, in order, before it is closed on a    *)
(* whole aligned unit.                                                      *)
Output == INSTANCE TransportStream WITH
            Streams   <- ES,
            total     <- [e \in ES |-> Len(input.script[e])],
            completed <- [e \in ES |-> IF pesLeft[e] = 0 THEN nextPes[e] ELSE nextPes[e] - 1],
            packets   <- nbPackets,
            state     <- CASE pc = "done" -> "closed" [] pc = "failed" -> "broken"
                           [] OTHER -> "open"
IsTransportStream == Output!Spec

(* Muxing ends: the loop that puts off the streams without room leaves each *)
(* slot, and slots without a packet take time.                              *)
Terminates == <>(pc \in {"done", "failed"})
=============================================================================
