------------------------ MODULE MuxingContext_proofs ------------------------
(* For any streams, scripts, rates and periods, whatever the buffering      *)
(* model answers: the heap of elementary streams holds those with data      *)
(* left, the clock and the packets agree, decoding times leave the          *)
(* buffering delay, and the output is a complete transport stream.  If it   *)
(* refuses nothing, the tables come first and each one when it is due.      *)
EXTENDS MuxingContext, FiniteSetTheorems, WellFoundedInduction, TLAPS

PesPackets == [dts : Nat, size : Nat \ {0}, extensionFrame : BOOLEAN]

TypesOK ==
  /\ pc \in {"system", "es", "null", "tick", "pad", "done", "failed"}
  /\ stc \in Int /\ nbPackets \in Nat
  /\ input \in Inputs
  /\ DOMAIN esTimer \subseteq ES
  /\ pesLeft \in [ES -> Nat] /\ nextPes \in [ES -> Nat]
  /\ \A e \in ES : nextPes[e] \in 1..Len(input.script[e])

\* A stream without data left has built its last PES packet.
EndOK == \A e \in ES : pesLeft[e] = 0 => nextPes[e] = Len(input.script[e])

\* Padding starts when the heap is empty.
PadOK == pc \in {"pad", "done"} => DOMAIN esTimer = {}

IInv == TypesOK /\ HeapHasTheRest /\ EndOK /\ PadOK /\ RateKept

LEMMA ScriptOK ==
  ASSUME NEW in \in Inputs, NEW e \in ES
  PROVE  /\ in.script[e] \in Seq(PesPackets) /\ Len(in.script[e]) \in Nat \ {0}
         /\ \A k \in 1..Len(in.script[e]) :
              in.script[e][k].dts \in Nat /\ in.script[e][k].size \in Nat \ {0}
         /\ in.initialPresentationTime \in Nat
<1>1. in.script[e] \in Seq(PesPackets) /\ in.script[e] # <<>> /\ in.initialPresentationTime \in Nat
  BY ContextAssumption, Zenon DEF PesPackets
<1>2. \A x \in PesPackets : x.dts \in Nat /\ x.size \in Nat \ {0} BY DEF PesPackets
<1> DEFINE s == in.script[e]
<1>3. s \in Seq(PesPackets) /\ s # <<>> BY <1>1
<1> HIDE DEF s
<1>4. Len(s) \in Nat \ {0} /\ \A k \in 1..Len(s) : s[k] \in PesPackets BY <1>3
<1>5. \A k \in 1..Len(s) : s[k].dts \in Nat /\ s[k].size \in Nat \ {0} BY <1>2, <1>4
<1> QED BY <1>1, <1>4, <1>5, Zenon DEF s

\* Products by the duration of a slot.
LEMMA OneMore == ASSUME NEW n \in Nat PROVE /\ n * TpDuration \in Nat
                                            /\ (n + 1) * TpDuration = n * TpDuration + TpDuration
<1>1. TpDuration \in Nat BY ContextAssumption
<1> QED BY <1>1

\* Where the clock starts is some whole number.
Start == InitialStc(ReferentialStc) * ClockScale
LEMMA RateKeptIs ==
  RateKept <=>
    /\ nbPackets * TpDuration <= stc - Start + (IF pc = "tick" THEN TpDuration ELSE 0)
    /\ input.cbrMuxing => nbPackets * TpDuration = stc - Start + (IF pc = "tick" THEN TpDuration ELSE 0)
BY Zenon DEF RateKept, Start

-----------------------------------------------------------------------------
\* The greatest reference time exists: the streams are finitely many.
LEMMA Smallest ==
  ASSUME NEW S \in SUBSET Nat, S # {}
  PROVE  \E n \in S : \A m \in S : n <= m
<1> DEFINE R == OpToRel(<, Nat)
<1>1. IsWellFoundedOn(R, Nat) BY NatLessThanWellFounded
<1>2. PICK x \in S : \A y \in S : ~(<<y, x>> \in R)
  <2> HIDE DEF R
  <2> QED BY <1>1, WFMin
<1>3. \A y \in S : ~(y < x) BY <1>2 DEF OpToRel
<1> QED BY <1>3

\* The first n elements of a sequence have a bound.
Bounded(seq, n) == \E b \in Nat : \A i \in 1..n : seq[i] <= b

LEMMA BoundedNext ==
  ASSUME NEW seq, NEW n \in Nat, Bounded(seq, n), seq[n + 1] \in Nat, \A i \in 1..n : seq[i] \in Nat
  PROVE  Bounded(seq, n + 1)
<1>1. PICK b \in Nat : \A i \in 1..n : seq[i] <= b BY DEF Bounded
<1> DEFINE c == IF seq[n + 1] <= b THEN b ELSE seq[n + 1]
<1>2. c \in Nat /\ b <= c /\ seq[n + 1] <= c OBVIOUS
<1> HIDE DEF c
<1>3. \A i \in 1..n + 1 : seq[i] <= c
  <2> SUFFICES ASSUME NEW i \in 1..n + 1 PROVE seq[i] <= c OBVIOUS
  <2>1. CASE i = n + 1 BY <1>2, <2>1
  <2>2. CASE i # n + 1
    <3>1. i \in 1..n BY <2>2
    <3>2. seq[i] <= b /\ seq[i] \in Nat BY <1>1, <3>1
    <3> QED BY <1>2, <3>2
  <2> QED BY <2>1, <2>2
<1> QED BY <1>2, <1>3 DEF Bounded

LEMMA FiniteMax ==
  ASSUME NEW S \in SUBSET Nat, S # {}, IsFiniteSet(S)
  PROVE  Max(S) \in S /\ \A m \in S : m <= Max(S)
<1>1. PICK seq \in Seq(S) : \A x \in S : \E i \in 1..Len(seq) : seq[i] = x
  BY DEF IsFiniteSet
<1>2. Len(seq) \in Nat /\ \A i \in 1..Len(seq) : seq[i] \in Nat
  <2>1. Len(seq) \in Nat /\ \A i \in 1..Len(seq) : seq[i] \in S OBVIOUS
  <2> QED BY <2>1
<1>3. Bounded(seq, Len(seq))
  <2> DEFINE Un == {n \in 0..Len(seq) : ~Bounded(seq, n)}
  <2> SUFFICES ASSUME Un # {} PROVE FALSE BY <1>2
  <2>1. PICK n \in Un : \A m \in Un : n <= m
    <3>1. Un \in SUBSET Nat BY <1>2
    <3> HIDE DEF Un
    <3> QED BY <3>1, Smallest
  <2>2. n # 0
    <3>1. 0 \in Nat /\ \A i \in 1..0 : seq[i] <= 0 OBVIOUS
    <3>2. Bounded(seq, 0) BY <3>1 DEF Bounded
    <3> QED BY <2>1, <3>2
  <2>3. n - 1 \in 0..Len(seq) /\ n \in 1..Len(seq) /\ (n - 1) + 1 = n /\ n - 1 < n BY <1>2, <2>1, <2>2
  <2>4. n - 1 \notin Un BY <1>2, <2>1, <2>3
  <2>5. Bounded(seq, n - 1) BY <2>3, <2>4
  <2>6. seq[n] \in Nat /\ \A i \in 1..n - 1 : seq[i] \in Nat BY <1>2, <2>3
  <2>7. Bounded(seq, n) BY <2>3, <2>5, <2>6, BoundedNext
  <2> QED BY <2>1, <2>7
<1>4. PICK b \in Nat : \A i \in 1..Len(seq) : seq[i] <= b BY <1>3 DEF Bounded
<1> DEFINE Gaps == {g \in Nat : \E x \in S : x + g = b}
<1>5. \A x \in S : x <= b /\ b - x \in Gaps
  <2> SUFFICES ASSUME NEW x \in S PROVE x <= b /\ b - x \in Gaps OBVIOUS
  <2>1. x <= b
    <3>1. PICK i \in 1..Len(seq) : seq[i] = x BY <1>1
    <3> QED BY <1>4, <3>1
  <2>2. b - x \in Nat /\ x + (b - x) = b BY <2>1
  <2> QED BY <2>1, <2>2
<1>6. PICK g \in Gaps : \A h \in Gaps : g <= h
  <2>1. Gaps \in SUBSET Nat /\ Gaps # {} BY <1>5
  <2> HIDE DEF Gaps
  <2> QED BY <2>1, Smallest
<1>7. PICK x \in S : x + g = b BY <1>6
<1>8. \A m \in S : x >= m
  <2> SUFFICES ASSUME NEW m \in S PROVE x >= m OBVIOUS
  <2>1. g <= b - m /\ g \in Nat BY <1>5, <1>6
  <2> QED BY <1>7, <2>1
<1>9. Max(S) \in S /\ \A m \in S : Max(S) >= m BY <1>8 DEF Max
<1> QED BY <1>9

LEMMA ReferenceTimes ==
  InitialDelay \in Nat /\ \A e \in ES : RefPts[e] \in Nat /\ RefPts[e] <= InitialDelay
<1> DEFINE R == {RefPts[e] : e \in ES}
           S == {0} \cup R
<1>1. \A e \in ES : RefPts[e] \in Nat BY TimingAssumption
<1>2. S \in SUBSET Nat /\ S # {} /\ \A e \in ES : RefPts[e] \in S BY <1>1
<1>3. IsFiniteSet(S)
  <2>1. PICK seq \in Seq(ES) : \A e \in ES : \E i \in 1..Len(seq) : seq[i] = e
    BY ContextAssumption DEF IsFiniteSet
  <2> DEFINE all == [i \in 1..Len(seq) + 1 |-> IF i = Len(seq) + 1 THEN 0 ELSE RefPts[seq[i]]]
  <2>2. Len(seq) \in Nat /\ \A i \in 1..Len(seq) : seq[i] \in ES BY <2>1
  <2>3. all \in Seq(S) /\ Len(all) = Len(seq) + 1
    <3>1. \A i \in 1..Len(seq) + 1 : all[i] \in S BY <1>2, <2>2
    <3> QED BY <2>2, <3>1
  <2>4. \A x \in S : \E i \in 1..Len(all) : all[i] = x
    <3> SUFFICES ASSUME NEW x \in S PROVE \E i \in 1..Len(seq) + 1 : all[i] = x BY <2>3
    <3>1. CASE x = 0
      <4>1. Len(seq) + 1 \in 1..Len(seq) + 1 /\ all[Len(seq) + 1] = 0 BY <2>2
      <4> QED BY <3>1, <4>1
    <3>2. CASE x \in R
      <4>1. PICK e \in ES : x = RefPts[e] BY <3>2
      <4>2. PICK i \in 1..Len(seq) : seq[i] = e BY <2>1, <4>1
      <4>3. i \in 1..Len(seq) + 1 /\ all[i] = x BY <2>2, <4>1, <4>2
      <4> QED BY <4>3
    <3> QED BY <3>1, <3>2
  <2> HIDE DEF all, S
  <2> QED BY <2>3, <2>4 DEF IsFiniteSet
<1>4. InitialDelay = Max(S) BY DEF InitialDelay
<1>5. Max(S) \in S /\ \A m \in S : m <= Max(S)
  <2> HIDE DEF S
  <2> QED BY <1>2, <1>3, FiniteMax
<1> HIDE DEF S
<1> QED BY <1>1, <1>2, <1>4, <1>5

LEMMA StartInt == ASSUME input \in Inputs PROVE Start \in Int /\ ReferentialStc \in Int
<1> DEFINE t == input.initialPresentationTime
<1>1. t \in Nat BY ContextAssumption
<1>2. ReferentialStc \in Int
  <2> HIDE DEF t
  <2>1. MAX(t, InitialDelay + StdBufDelay) \in Int BY <1>1, ReferenceTimes, TimingAssumption DEF MAX
  <2> QED BY <2>1 DEF ReferentialStc, StartPcr, t
<1>3. \A x \in Int : x \div SubTicks \in Int BY TimingAssumption
<1>4. InitialStc(ReferentialStc) \in Int
  <2> DEFINE x == ReferentialStc - InitialDelay
             y == x \div SubTicks
  <2>1. x \in Int BY <1>2, ReferenceTimes
  <2>2. y \in Int BY <1>3, <2>1
  <2>3. InitialStc(ReferentialStc) = y * SubTicks - StdBufDelay BY DEF InitialStc, Round90kHz
  <2> HIDE DEF x, y
  <2> QED BY <2>2, <2>3, TimingAssumption
<1>5. ClockScale \in Nat BY ContextAssumption
<1> QED BY <1>2, <1>4, <1>5 DEF Start

-----------------------------------------------------------------------------
LEMMA InitCorrect == Init => IInv
<1> SUFFICES ASSUME Init PROVE IInv OBVIOUS
<1>1. /\ pc = "system" /\ input \in Inputs /\ nbPackets = 0
      /\ stc = Start
      /\ DOMAIN esTimer = ES
      /\ pesLeft = [e \in ES |-> input.script[e][1].size]
      /\ nextPes = [e \in ES |-> 1]
  BY DEF Init, Start
<1>2. \A e \in ES : /\ Len(input.script[e]) \in Nat \ {0}
                    /\ input.script[e][1].size \in Nat \ {0}
  <2> SUFFICES ASSUME NEW e \in ES
               PROVE  /\ Len(input.script[e]) \in Nat \ {0}
                      /\ input.script[e][1].size \in Nat \ {0}
    OBVIOUS
  <2>1. Len(input.script[e]) \in Nat \ {0} BY <1>1, ScriptOK
  <2>2. 1 \in 1..Len(input.script[e]) BY <2>1
  <2> QED BY <1>1, <2>1, <2>2, ScriptOK
<1>3. TypesOK BY <1>1, <1>2, StartInt DEF TypesOK
<1>4. \A e \in ES : pesLeft[e] > 0 BY <1>1, <1>2
<1>5. HeapHasTheRest BY <1>1, <1>4 DEF HeapHasTheRest
<1>6. EndOK BY <1>4 DEF EndOK
<1>7. PadOK BY <1>1 DEF PadOK
<1>8. RateKept
  <2>1. 0 * TpDuration = 0 BY ContextAssumption
  <2> QED BY <1>1, <2>1, StartInt, RateKeptIs
<1> QED BY <1>3, <1>5, <1>6, <1>7, <1>8 DEF IInv

\* What a step does to a stream: nothing, or it takes data and keeps its invariant.
LEMMA StreamStep ==
  ASSUME IInv, NEW e \in ES, e \in DOMAIN esTimer, input' = input,
         ContinuePes(e) \/ StartNextPes(e) \/ EndOfStream(e)
  PROVE  /\ pesLeft' \in [ES -> Nat] /\ nextPes' \in [ES -> Nat]
         /\ \A f \in ES : nextPes'[f] \in 1..Len(input.script[f])
         /\ DOMAIN esTimer' = {f \in ES : pesLeft'[f] > 0}
         /\ EndOK'
<1> DEFINE n == Len(input.script[e])
<1>1. /\ input \in Inputs /\ pesLeft \in [ES -> Nat] /\ nextPes \in [ES -> Nat]
      /\ \A f \in ES : nextPes[f] \in 1..Len(input.script[f])
      /\ DOMAIN esTimer = {f \in ES : pesLeft[f] > 0}
      /\ \A f \in ES : pesLeft[f] = 0 => nextPes[f] = Len(input.script[f])
  BY DEF IInv, TypesOK, HeapHasTheRest, EndOK
<1>2. pesLeft[e] \in Nat /\ pesLeft[e] > 0 BY <1>1
<1>3. Payload(e) \in Nat /\ Payload(e) <= pesLeft[e] BY <1>2, TimingAssumption DEF Payload, MIN
<1>4. n \in Nat /\ nextPes[e] \in 1..n BY <1>1, ScriptOK
<1>5. CASE ContinuePes(e)
  <2>1. /\ Payload(e) < pesLeft[e]
        /\ pesLeft' = [pesLeft EXCEPT ![e] = @ - Payload(e)]
        /\ DOMAIN esTimer' = DOMAIN esTimer
        /\ nextPes' = nextPes
    BY <1>5 DEF ContinuePes
  <2>2. pesLeft[e] - Payload(e) \in Nat /\ pesLeft[e] - Payload(e) > 0 BY <1>2, <1>3, <2>1
  <2>3. /\ pesLeft' \in [ES -> Nat] /\ pesLeft'[e] > 0
        /\ \A f \in ES : f # e => pesLeft'[f] = pesLeft[f]
    BY <1>1, <2>1, <2>2
  <2> QED BY <1>1, <1>2, <2>1, <2>3 DEF EndOK
<1>6. CASE StartNextPes(e)
  <2> DEFINE s == input.script[e][nextPes[e] + 1].size
  <2>1. /\ nextPes[e] < n
        /\ pesLeft' = [pesLeft EXCEPT ![e] = s]
        /\ DOMAIN esTimer' = DOMAIN esTimer
        /\ nextPes' = [nextPes EXCEPT ![e] = @ + 1]
    BY <1>6 DEF StartNextPes
  <2>2. nextPes[e] + 1 \in 1..n BY <1>4, <2>1
  <2>3. s \in Nat \ {0} BY <1>1, <2>2, ScriptOK
  <2> HIDE DEF s, n
  <2>4. /\ pesLeft' \in [ES -> Nat] /\ pesLeft'[e] > 0
        /\ \A f \in ES : f # e => pesLeft'[f] = pesLeft[f]
    BY <1>1, <2>1, <2>3
  <2>5. /\ nextPes' \in [ES -> Nat] /\ nextPes'[e] \in 1..n
        /\ \A f \in ES : f # e => nextPes'[f] = nextPes[f]
    BY <1>1, <1>4, <2>1, <2>2
  <2>6. \A f \in ES : nextPes'[f] \in 1..Len(input.script[f]) BY <1>1, <2>5 DEF n
  <2>7. DOMAIN esTimer' = {f \in ES : pesLeft'[f] > 0} BY <1>1, <1>2, <2>1, <2>4
  <2>8. EndOK' BY <1>1, <2>4, <2>5 DEF EndOK
  <2> QED BY <2>4, <2>5, <2>6, <2>7, <2>8
<1>7. CASE EndOfStream(e)
  <2>1. /\ nextPes[e] = n
        /\ pesLeft' = [pesLeft EXCEPT ![e] = 0]
        /\ DOMAIN esTimer' = DOMAIN esTimer \ {e}
        /\ nextPes' = nextPes
    BY <1>7 DEF EndOfStream
  <2>2. /\ pesLeft' \in [ES -> Nat] /\ pesLeft'[e] = 0
        /\ \A f \in ES : f # e => pesLeft'[f] = pesLeft[f]
    BY <1>1, <2>1
  <2> QED BY <1>1, <2>1, <2>2 DEF EndOK
<1> QED BY <1>5, <1>6, <1>7

\* The clock and the packets, by what a step adds to each.
Rate(n, t, slot) ==
  /\ n * TpDuration <= t - Start + slot
  /\ input.cbrMuxing => n * TpDuration = t - Start + slot
LEMMA RateSteps ==
  ASSUME NEW n \in Nat, NEW t \in Int, input \in Inputs
  PROVE  /\ Rate(n, t, 0) => Rate(n + 1, t, TpDuration) /\ Rate(n + 1, t + TpDuration, 0)
         /\ Rate(n, t, TpDuration) => Rate(n, t + TpDuration, 0)
         /\ Rate(n, t, 0) /\ ~input.cbrMuxing => Rate(n, t, TpDuration)
<1>1. TpDuration \in Nat BY ContextAssumption
<1>2. Start \in Int BY StartInt
<1>3. n * TpDuration \in Nat /\ (n + 1) * TpDuration = n * TpDuration + TpDuration BY OneMore
<1> DEFINE p == n * TpDuration
           q == (n + 1) * TpDuration
<1>4. Rate(n, t, 0) => /\ p <= t - Start /\ (input.cbrMuxing => p = t - Start)
  <2> HIDE DEF p
  <2> QED BY <1>2 DEF Rate, p
<1>5. Rate(n, t, TpDuration) => /\ p <= t - Start + TpDuration
                                /\ (input.cbrMuxing => p = t - Start + TpDuration)
  BY DEF Rate
<1>6. (p <= t - Start + TpDuration /\ (input.cbrMuxing => p = t - Start + TpDuration)) => Rate(n, t, TpDuration)
  BY DEF Rate
<1>7. (/\ p <= t + TpDuration - Start /\ (input.cbrMuxing => p = t + TpDuration - Start))
         => Rate(n, t + TpDuration, 0)
  BY <1>1, <1>2 DEF Rate
<1>8. (/\ q <= t - Start + TpDuration /\ (input.cbrMuxing => q = t - Start + TpDuration))
         => Rate(n + 1, t, TpDuration)
  BY DEF Rate
<1>9. (/\ q <= t + TpDuration - Start /\ (input.cbrMuxing => q = t + TpDuration - Start))
         => Rate(n + 1, t + TpDuration, 0)
  BY <1>1, <1>2 DEF Rate
<1>10. p \in Nat /\ q = p + TpDuration BY <1>3
<1> HIDE DEF p, q
<1> QED BY <1>1, <1>2, <1>4, <1>5, <1>6, <1>7, <1>8, <1>9, <1>10

LEMMA NextKeeps == IInv /\ [Next]_vars => IInv'
<1> SUFFICES ASSUME IInv, [Next]_vars PROVE IInv' OBVIOUS
<1>1. /\ stc \in Int /\ nbPackets \in Nat /\ input \in Inputs /\ TpDuration \in Nat
      /\ Rate(nbPackets, stc, IF pc = "tick" THEN TpDuration ELSE 0)
  <2>1. TpDuration \in Nat BY ContextAssumption
  <2> QED BY <2>1, RateKeptIs DEF IInv, TypesOK, Rate
<1> DEFINE Streams == UNCHANGED <<input, pesLeft, nextPes>> /\ DOMAIN esTimer' = DOMAIN esTimer
           Clock(t, n, p) == stc' = t /\ nbPackets' = n /\ pc' = p
\* It is enough to know the streams, the clock and where the loop goes.
<1>2. ASSUME Streams, pc' \in {"system", "es", "null", "tick", "pad", "done", "failed"},
             stc' \in Int, nbPackets' \in Nat,
             Rate(nbPackets', stc', IF pc' = "tick" THEN TpDuration ELSE 0),
             pc' \in {"pad", "done"} => DOMAIN esTimer = {}
      PROVE  IInv'
  <2>1. TypesOK' BY <1>2 DEF IInv, TypesOK
  <2>2. HeapHasTheRest' /\ EndOK' /\ PadOK' BY <1>2 DEF IInv, HeapHasTheRest, EndOK, PadOK
  <2>3. Start' = Start /\ input' = input BY <1>2 DEF Start, ReferentialStc, StartPcr, InitialStc
  <2>4. RateKept'
    <3>1. RateKept' <=>
            /\ nbPackets' * TpDuration <= stc' - Start' + (IF pc' = "tick" THEN TpDuration ELSE 0)
            /\ input'.cbrMuxing =>
                 nbPackets' * TpDuration = stc' - Start' + (IF pc' = "tick" THEN TpDuration ELSE 0)
      BY Zenon DEF RateKept, Start
    <3> QED BY <1>2, <2>3, <3>1 DEF Rate
  <2> QED BY <2>1, <2>2, <2>4 DEF IInv
<1>3. CASE \/ NoSystemDue \/ SkipPcr \/ \E s \in System : SystemBlocked(s)
  <2>1. /\ pc = "system" /\ pc' = "es" /\ stc' = stc /\ nbPackets' = nbPackets /\ Streams
    BY <1>3 DEF NoSystemDue, SkipPcr, SystemBlocked, esVars
  <2> QED BY <1>1, <1>2, <2>1
<1>4. CASE NullPacket \/ \E s \in System : MuxSystemPacket(s)
  <2>1. /\ pc \in {"system", "null"} /\ pc' = "tick" /\ stc' = stc /\ nbPackets' = nbPackets + 1 /\ Streams
    BY <1>4 DEF NullPacket, MuxSystemPacket, Sent, esVars
  <2> QED BY <1>1, <1>2, <2>1, RateSteps
<1>5. CASE NoEsDue
  <2>1. /\ pc = "es" /\ stc' = stc /\ nbPackets' = nbPackets /\ Streams
        /\ pc' = IF input.cbrMuxing THEN "null" ELSE "tick"
    BY <1>5 DEF NoEsDue, esVars
  <2> QED BY <1>1, <1>2, <2>1, RateSteps
<1>6. CASE \E e \in ES : EsBlocked(e)
  <2>1. /\ pc = "es" /\ pc' = pc /\ stc' = stc /\ nbPackets' = nbPackets /\ Streams
    BY <1>6 DEF EsBlocked
  <2> QED BY <1>1, <1>2, <2>1
<1>7. CASE \E e \in ES : MuxEsPacket(e)
  <2>1. PICK e \in ES : MuxEsPacket(e) BY <1>7
  <2>2. /\ pc = "es" /\ e \in DOMAIN esTimer /\ input' = input
        /\ ContinuePes(e) \/ StartNextPes(e) \/ EndOfStream(e)
        /\ pc' = "tick" /\ stc' = stc /\ nbPackets' = nbPackets + 1
    BY <2>1 DEF MuxEsPacket, EsDue, Sent
  <2>3. /\ pesLeft' \in [ES -> Nat] /\ nextPes' \in [ES -> Nat]
        /\ \A f \in ES : nextPes'[f] \in 1..Len(input.script[f])
        /\ DOMAIN esTimer' = {f \in ES : pesLeft'[f] > 0}
        /\ EndOK'
    BY <2>2, StreamStep
  <2>4. TypesOK' BY <1>1, <2>2, <2>3 DEF TypesOK
  <2>5. HeapHasTheRest' /\ PadOK' BY <2>2, <2>3 DEF HeapHasTheRest, PadOK
  <2>6. RateKept'
    <3>1. Rate(nbPackets', stc', TpDuration) BY <1>1, <2>2, RateSteps
    <3>2. Start' = Start BY <2>2 DEF Start, ReferentialStc, StartPcr, InitialStc
    <3>3. RateKept' <=>
            /\ nbPackets' * TpDuration <= stc' - Start' + (IF pc' = "tick" THEN TpDuration ELSE 0)
            /\ input'.cbrMuxing =>
                 nbPackets' * TpDuration = stc' - Start' + (IF pc' = "tick" THEN TpDuration ELSE 0)
      BY Zenon DEF RateKept, Start
    <3> QED BY <2>2, <3>1, <3>2, <3>3 DEF Rate
  <2> QED BY <2>3, <2>4, <2>5, <2>6 DEF IInv
<1>8. CASE Tick
  <2>1. /\ pc = "tick" /\ stc' = stc + TpDuration /\ nbPackets' = nbPackets /\ Streams
        /\ pc' = IF DOMAIN esTimer # {} THEN "system" ELSE "pad"
    BY <1>8 DEF Tick, esVars
  <2>2. Rate(nbPackets, stc, TpDuration) BY <1>1, <2>1
  <2>3. Rate(nbPackets, stc + TpDuration, 0) BY <1>1, <2>2, RateSteps
  <2>4. Rate(nbPackets', stc', IF pc' = "tick" THEN TpDuration ELSE 0) BY <2>1, <2>3
  <2>5. stc' \in Int /\ nbPackets' \in Nat BY <1>1, <2>1
  <2> QED BY <1>2, <2>1, <2>4, <2>5
<1>9. CASE Pad
  <2>1. /\ pc = "pad" /\ pc' = pc /\ stc' = stc + TpDuration /\ nbPackets' = nbPackets + 1 /\ Streams
    BY <1>9 DEF Pad, esVars
  <2>2. DOMAIN esTimer = {} BY <2>1 DEF IInv, PadOK
  <2>3. Rate(nbPackets, stc, 0) BY <1>1, <2>1
  <2>4. Rate(nbPackets + 1, stc + TpDuration, 0) BY <1>1, <2>3, RateSteps
  <2>5. Rate(nbPackets', stc', IF pc' = "tick" THEN TpDuration ELSE 0) BY <2>1, <2>4
  <2>6. stc' \in Int /\ nbPackets' \in Nat BY <1>1, <2>1
  <2> QED BY <1>2, <2>1, <2>2, <2>5, <2>6
<1>10. CASE Finish
  <2>1. /\ pc = "pad" /\ pc' = "done" /\ stc' = stc /\ nbPackets' = nbPackets /\ Streams
    BY <1>10 DEF Finish, esVars
  <2>2. DOMAIN esTimer = {} BY <2>1 DEF IInv, PadOK
  <2> QED BY <1>1, <1>2, <2>1, <2>2
<1>11. CASE Fail
  <2>1. /\ pc # "tick" /\ pc' = "failed" /\ stc' = stc /\ nbPackets' = nbPackets /\ Streams
    BY <1>11 DEF Fail, esVars
  <2> QED BY <1>1, <1>2, <2>1
<1>12. CASE UNCHANGED vars
  <2>1. /\ pc' = pc /\ stc' = stc /\ nbPackets' = nbPackets /\ Streams
    BY <1>12 DEF vars, esVars
  <2>2. pc \in {"pad", "done"} => DOMAIN esTimer = {} BY DEF IInv, PadOK
  <2>3. pc \in {"system", "es", "null", "tick", "pad", "done", "failed"} BY DEF IInv, TypesOK
  <2> QED BY <1>1, <1>2, <2>1, <2>2, <2>3
<1> QED BY <1>3, <1>4, <1>5, <1>6, <1>7, <1>8, <1>9, <1>10, <1>11, <1>12 DEF Next, Run

LEMMA Invariant == Spec => []IInv
BY InitCorrect, NextKeeps, PTL DEF Spec

-----------------------------------------------------------------------------
(* The heap of muxNextESPacket() holds exactly the streams with data left,  *)
(* so the loop of mainMux() leaves when, and only when, all is sent.        *)
THEOREM HeapComplete == Spec => []HeapHasTheRest
<1>1. IInv => HeapHasTheRest BY DEF IInv
<1> QED BY <1>1, Invariant, PTL

(* increaseCurrentStc() never lets packets outrun the clock, and at a       *)
(* constant rate never lets them fall behind, padding included.             *)
THEOREM ClockAgrees == Spec => []RateKept
<1>1. IInv => RateKept BY DEF IInv
<1> QED BY <1>1, Invariant, PTL

(* computeInitialTimings() starts late enough that no decoding time comes   *)
(* before the buffering delay: calcPesTiming() can subtract it.             *)
THEOREM DtsLateEnough == Spec => []DtsCoversDelay
<1>1. IInv => DtsCoversDelay
  <2> SUFFICES ASSUME IInv, NEW e \in ES
               PROVE  StdBufDelay <= OutputTime(ReferentialStc, e, input.script[e][nextPes[e]].dts)
    BY DEF DtsCoversDelay, CurrentDts
  <2> DEFINE dts == input.script[e][nextPes[e]].dts
             t   == input.initialPresentationTime
  <2>1. input \in Inputs /\ nextPes[e] \in 1..Len(input.script[e]) BY DEF IInv, TypesOK
  <2>2. dts \in Nat /\ t \in Nat BY <2>1, ScriptOK
  <2> HIDE DEF dts, t
  <2>3. ReferentialStc \in Int /\ InitialDelay + StdBufDelay <= ReferentialStc
    <3>1. ReferentialStc = MAX(t, InitialDelay + StdBufDelay) BY DEF ReferentialStc, StartPcr, t
    <3> QED BY <2>2, <3>1, ReferenceTimes, TimingAssumption DEF MAX
  <2>4. RefPts[e] \in Nat /\ RefPts[e] <= InitialDelay BY ReferenceTimes
  <2>5. StdBufDelay <= dts + ReferentialStc - RefPts[e]
    BY <2>2, <2>3, <2>4, ReferenceTimes, TimingAssumption
  <2> QED BY <2>5 DEF OutputTime, dts
<1> QED BY <1>1, Invariant, PTL

-----------------------------------------------------------------------------
\* The output as TransportStream sees it.
Total == [e \in ES |-> Len(input.script[e])]
Completed == [e \in ES |-> IF pesLeft[e] = 0 THEN nextPes[e] ELSE nextPes[e] - 1]
State == CASE pc = "done" -> "closed" [] pc = "failed" -> "broken" [] OTHER -> "open"

LEMMA OutputInit == Init => Output!Init
<1> SUFFICES ASSUME Init PROVE Output!Init OBVIOUS
<1>1. IInv BY InitCorrect
<1>2. /\ pc = "system" /\ nbPackets = 0 /\ nextPes = [e \in ES |-> 1]
      /\ pesLeft = [e \in ES |-> input.script[e][1].size] /\ DOMAIN esTimer = ES
  BY DEF Init
<1>3. Total \in [ES -> Nat]
  <2>1. \A e \in ES : Len(input.script[e]) \in Nat BY <1>1, ScriptOK DEF IInv, TypesOK
  <2> QED BY <2>1 DEF Total
<1>4. Completed = [e \in ES |-> 0]
  <2>1. ES = {e \in ES : pesLeft[e] > 0} BY <1>1, <1>2 DEF IInv, HeapHasTheRest
  <2>2. \A e \in ES : pesLeft[e] > 0 BY <2>1
  <2>3. \A e \in ES : pesLeft[e] # 0 BY <2>2
  <2>4. Completed = [e \in ES |-> IF pesLeft[e] = 0 THEN 1 ELSE 1 - 1] BY <1>2 DEF Completed
  <2> QED BY <2>3, <2>4
<1>5. State = "open" BY <1>2 DEF State
<1> QED BY <1>2, <1>3, <1>4, <1>5 DEF Output!Init, Total, Completed, State

\* A function with one more at e.
LEMMA OneMoreAt ==
  ASSUME NEW f, NEW g, NEW e \in ES,
         f = [x \in ES |-> f[x]], g = [x \in ES |-> g[x]],
         g[e] = f[e] + 1, \A x \in ES : x # e => g[x] = f[x]
  PROVE  g = [f EXCEPT ![e] = @ + 1]
<1> DEFINE h == [f EXCEPT ![e] = @ + 1]
<1>1. h = [x \in ES |-> h[x]] OBVIOUS
<1>2. \A x \in ES : g[x] = h[x] OBVIOUS
<1> HIDE DEF h
<1>3. g = h BY <1>1, <1>2
<1> QED BY <1>3 DEF h

LEMMA CompletedAt ==
  ASSUME NEW e \in ES, Completed[e] + 1 = Completed'[e],
         \A f \in ES : f # e => Completed'[f] = Completed[f]
  PROVE  Completed' = [Completed EXCEPT ![e] = @ + 1]
<1>1. Completed = [x \in ES |-> Completed[x]] BY DEF Completed
<1>2. Completed' = [x \in ES |-> Completed'[x]] BY DEF Completed
<1> DEFINE f == Completed
           g == Completed'
<1>3. f = [x \in ES |-> f[x]] /\ g = [x \in ES |-> g[x]] /\ g[e] = f[e] + 1
      /\ \A x \in ES : x # e => g[x] = f[x]
  BY <1>1, <1>2
<1> HIDE DEF f, g
<1>4. g = [f EXCEPT ![e] = @ + 1] BY <1>3, OneMoreAt
<1> QED BY <1>4 DEF f, g

\* A packet that completes no PES packet.
LEMMA Carried ==
  ASSUME pc \in {"system", "es", "null", "pad"}, pc' \in {"tick", "pad"},
         nbPackets' = nbPackets + 1, input' = input, Completed' = Completed
  PROVE  Output!Next
<1>1. State = "open" /\ State' = "open" BY DEF State
<1>2. Total' = Total BY DEF Total
<1>3. Output!Carry BY <1>1, <1>2 DEF Output!Carry, Total, Completed, State
<1> QED BY <1>3 DEF Output!Next

LEMMA StepImplements == IInv /\ [Next]_vars => [Output!Next]_(Output!vars)
<1> SUFFICES ASSUME IInv, [Next]_vars PROVE Output!Next \/ UNCHANGED Output!vars
  BY DEF Output!vars
<1> DEFINE Still == UNCHANGED <<nbPackets, input, pesLeft, nextPes>>
<1>1. ASSUME Still, State' = State PROVE UNCHANGED Output!vars
  <2>1. Total' = Total /\ Completed' = Completed /\ nbPackets' = nbPackets
    BY <1>1 DEF Total, Completed
  <2> QED BY <1>1, <2>1 DEF Output!vars, Total, Completed, State
<1>2. CASE \/ NoSystemDue \/ SkipPcr \/ NoEsDue \/ Tick
           \/ (\E s \in System : SystemBlocked(s)) \/ (\E e \in ES : EsBlocked(e))
  <2>1. /\ pc \in {"system", "es", "tick"} /\ pc' \in {"system", "es", "null", "tick", "pad"}
        /\ Still
    BY <1>2 DEF NoSystemDue, SkipPcr, NoEsDue, Tick, SystemBlocked, EsBlocked, esVars
  <2>2. State' = State BY <2>1 DEF State
  <2> QED BY <1>1, <2>1, <2>2
<1>3. CASE NullPacket \/ Pad \/ \E s \in System : MuxSystemPacket(s)
  <2>1. /\ pc \in {"system", "es", "null", "pad"} /\ pc' \in {"tick", "pad"}
        /\ nbPackets' = nbPackets + 1 /\ UNCHANGED <<input, pesLeft, nextPes>>
    BY <1>3 DEF NullPacket, Pad, MuxSystemPacket, Sent, esVars
  <2>2. Completed' = Completed BY <2>1 DEF Completed
  <2> QED BY <2>1, <2>2, Carried
<1>4. CASE \E e \in ES : MuxEsPacket(e)
  <2>1. PICK e \in ES : MuxEsPacket(e) BY <1>4
  <2>2. /\ pc = "es" /\ pc' = "tick" /\ nbPackets' = nbPackets + 1 /\ input' = input
        /\ e \in DOMAIN esTimer
        /\ ContinuePes(e) \/ StartNextPes(e) \/ EndOfStream(e)
    BY <2>1 DEF MuxEsPacket, EsDue, Sent
  <2>3. /\ pesLeft \in [ES -> Nat] /\ pesLeft[e] > 0 /\ nextPes \in [ES -> Nat]
        /\ input \in Inputs /\ nextPes[e] \in 1..Len(input.script[e])
    BY <2>2 DEF IInv, TypesOK, HeapHasTheRest
  <2>4. Len(input.script[e]) \in Nat BY <2>3, ScriptOK
  <2>5. CASE ContinuePes(e)
    <3>1. Payload(e) \in Nat /\ Payload(e) < pesLeft[e] /\ nextPes' = nextPes
      BY <2>3, <2>5, TimingAssumption DEF ContinuePes, Payload, MIN
    <3>2. pesLeft' = [pesLeft EXCEPT ![e] = pesLeft[e] - Payload(e)] BY <2>5 DEF ContinuePes
    <3>3. pesLeft[e] - Payload(e) # 0 BY <2>3, <3>1
    <3>4. Completed' = Completed BY <2>3, <3>1, <3>2, <3>3 DEF Completed
    <3> QED BY <2>2, <3>4, Carried
  <2>6. CASE StartNextPes(e) \/ EndOfStream(e)
    <3>1. Completed' = [Completed EXCEPT ![e] = @ + 1] /\ Completed[e] < Total[e]
      <4>1. CASE StartNextPes(e)
        <5> DEFINE s == input.script[e][nextPes[e] + 1].size
        <5>1. /\ nextPes[e] < Len(input.script[e])
              /\ pesLeft' = [pesLeft EXCEPT ![e] = s]
              /\ nextPes' = [nextPes EXCEPT ![e] = nextPes[e] + 1]
          BY <4>1 DEF StartNextPes
        <5>2. nextPes[e] + 1 \in 1..Len(input.script[e]) BY <2>3, <2>4, <5>1
        <5>3. s \in Nat \ {0} BY <2>3, <5>2, ScriptOK
        <5> HIDE DEF s
        <5>4. Completed[e] = nextPes[e] - 1 BY <2>3 DEF Completed
        <5>5. Completed'[e] = nextPes[e] BY <2>3, <5>1, <5>3 DEF Completed
        <5>6. \A f \in ES : f # e => Completed'[f] = Completed[f]
          BY <2>3, <5>1 DEF Completed
        <5>7. Total[e] = Len(input.script[e]) BY DEF Total
        <5>8. Completed[e] + 1 = Completed'[e] /\ Completed[e] < Total[e]
          BY <2>3, <2>4, <5>1, <5>4, <5>5, <5>7
        <5> QED BY <2>2, <5>6, <5>8, CompletedAt
      <4>2. CASE EndOfStream(e)
        <5>1. /\ nextPes[e] = Len(input.script[e])
              /\ pesLeft' = [pesLeft EXCEPT ![e] = 0]
              /\ nextPes' = nextPes
          BY <4>2 DEF EndOfStream
        <5>2. Completed[e] = nextPes[e] - 1 BY <2>3 DEF Completed
        <5>3. Completed'[e] = nextPes[e] BY <2>3, <5>1 DEF Completed
        <5>4. \A f \in ES : f # e => Completed'[f] = Completed[f]
          BY <2>3, <5>1 DEF Completed
        <5>5. Total[e] = Len(input.script[e]) BY DEF Total
        <5>6. Completed[e] + 1 = Completed'[e] /\ Completed[e] < Total[e]
          BY <2>3, <2>4, <5>1, <5>2, <5>3, <5>5
        <5> QED BY <2>2, <5>4, <5>6, CompletedAt
      <4> QED BY <2>6, <4>1, <4>2
    <3>2. State = "open" /\ State' = "open" BY <2>2 DEF State
    <3>3. Total' = Total BY <2>2 DEF Total
    <3>4. Output!Complete(e)
      BY <2>2, <3>1, <3>2, <3>3 DEF Output!Complete, Total, Completed, State
    <3> QED BY <3>4 DEF Output!Next
  <2> QED BY <2>2, <2>5, <2>6
<1>5. CASE Finish
  <2>1. pc = "pad" /\ pc' = "done" /\ nbPackets % UnitSize = 0 /\ Still
    BY <1>5 DEF Finish, esVars
  <2>2. Completed = Total
    <3>1. DOMAIN esTimer = {} BY <2>1 DEF IInv, PadOK
    <3>2. \A e \in ES : pesLeft[e] = 0
      BY <3>1 DEF IInv, TypesOK, HeapHasTheRest
    <3>3. \A e \in ES : nextPes[e] = Len(input.script[e]) BY <3>2 DEF IInv, EndOK
    <3> QED BY <3>2, <3>3 DEF Completed, Total
  <2>3. State = "open" /\ State' = "closed" BY <2>1 DEF State
  <2>4. Completed' = Completed /\ Total' = Total BY <2>1 DEF Completed, Total
  <2>5. Output!Close
    BY <2>1, <2>2, <2>3, <2>4 DEF Output!Close, Total, Completed, State
  <2> QED BY <2>5 DEF Output!Next
<1>6. CASE Fail
  <2>1. pc \in {"system", "es", "null", "pad"} /\ pc' = "failed" /\ Still
    BY <1>6 DEF Fail, esVars
  <2>2. State = "open" /\ State' = "broken" BY <2>1 DEF State
  <2>3. Completed' = Completed /\ Total' = Total BY <2>1 DEF Completed, Total
  <2>4. Output!Break
    BY <2>1, <2>2, <2>3 DEF Output!Break, Total, Completed, State
  <2> QED BY <2>4 DEF Output!Next
<1>7. CASE UNCHANGED vars
  <2>1. Still /\ State' = State BY <1>7 DEF vars, esVars, State
  <2> QED BY <1>1, <2>1
<1> QED BY <1>2, <1>3, <1>4, <1>5, <1>6, <1>7 DEF Next, Run

(* Whatever the streams, their number and their sizes, mainMux() writes a   *)
(* transport stream in which each PES packet is completed once, in order,   *)
(* and that is closed with all of them on a whole aligned unit.             *)
THEOREM Implementation == Spec => IsTransportStream
BY OutputInit, StepImplements, Invariant, PTL DEF Spec, IsTransportStream, Output!Spec
-----------------------------------------------------------------------------
(* The system streams, where the buffering model refuses nothing.  First    *)
(* every table is sent once: each slot takes one of the packets of          *)
(* FirstPackets, and no period ends before they are all sent.  From then    *)
(* on, a stream that is served is due again only after all that are due     *)
(* now, so one slot for each stream that comes before it is all it waits.   *)

Slots(n) == n * TpDuration
Release(s) == sysTsPt[s] * ClockScale
Origin == InitialStc(ReferentialStc)
Muxing == pc \in {"system", "es", "null", "tick"}

\* What is left of the slot in progress, once a packet took it.
Turn == IF pc = "system" THEN 0 ELSE TpDuration

\* The packets of these streams with this much left; the first ones not sent.
Packets(S, left) == UNION {{s} \X (1..NbTablePackets(left[s])) : s \in S}
FirstLeft == Packets({s \in System : sysTsPt[s] = Origin}, tableLeft)

\* The streams that go before s.
AheadBy(time, s) == {r \in System \ {s} : time[r] <= time[s]}
Ahead(s) == AheadBy(sysTsPt, s)

SystemTypesOK ==
  /\ stc \in Nat /\ Start <= stc /\ full = {}
  /\ sysTsPt \in [System -> Nat] /\ tableLeft \in [System -> Nat]

FirstTurnOK == \A s \in System :
  /\ sysTsPt[s] = Origin \/ Origin + SysPeriod(s) <= sysTsPt[s]
  /\ supplied[s] => sysTsPt[s] # Origin
  /\ HasOwnPackets(s) /\ ~supplied[s] => sysTsPt[s] = Origin

FirstInTime ==
  stc + Turn + Slots(Cardinality(FirstLeft)) <= Start + Slots(Cardinality(FirstPackets))

ThenInTime(s) ==
  stc + Turn + Slots(Cardinality(Ahead(s))) < Release(s) + Slots(Cardinality(System))

SuppliedOK == \A s \in System : HasOwnPackets(s) => supplied[s]

InTimeOK ==
  /\ SystemTypesOK /\ FirstTurnOK
  /\ FirstLeft # {} => FirstInTime
  /\ FirstLeft = {} => \A s \in System : ThenInTime(s)

SystemInv ==
  NothingRefused =>
    /\ supplied \in [System -> BOOLEAN]
    /\ pc = "es" \/ (\E e \in ES : Begun(e)) => SuppliedOK
    /\ Muxing => InTimeOK

LEMMA Constants ==
  /\ TpDuration \in Nat \ {0} /\ ClockScale \in Nat \ {0} /\ TpPayload \in Nat \ {0}
  /\ IsFiniteSet(System) /\ Pcr \in System
  /\ TableSize \in [System -> Nat] /\ Delay \in [System -> Nat] /\ Priority \in [System -> Nat]
BY TimingAssumption, ContextAssumption

LEMMA SlotsOK ==
  /\ \A n \in Nat : Slots(n) \in Nat /\ Slots(n + 1) = Slots(n) + TpDuration
  /\ \A m, n \in Nat : m <= n => Slots(m) <= Slots(n)
<1>1. TpDuration \in Nat BY Constants
<1>2. \A n \in Nat : n * TpDuration \in Nat /\ (n + 1) * TpDuration = n * TpDuration + TpDuration
  BY <1>1
<1>3. ASSUME NEW m \in Nat, NEW n \in Nat, m <= n PROVE m * TpDuration <= n * TpDuration
  <2>1. n - m \in Nat /\ n = m + (n - m) BY <1>3
  <2>2. \A d \in Nat : (m + d) * TpDuration = m * TpDuration + d * TpDuration /\ d * TpDuration \in Nat
    BY <1>1
  <2>3. n * TpDuration = m * TpDuration + (n - m) * TpDuration /\ (n - m) * TpDuration \in Nat
    BY <2>1, <2>2
  <2>4. m * TpDuration \in Nat BY <1>1
  <2> QED BY <2>3, <2>4
<1> QED BY <1>2, <1>3 DEF Slots

\* Division: what the quotient reaches.
LEMMA QuotientReaches ==
  ASSUME NEW x \in Nat, NEW c \in Nat \ {0}
  PROVE  x \div c \in Nat /\ \A t \in Nat : t <= x \div c <=> t * c <= x
<1> DEFINE q == x \div c
           r == x % c
<1>1. q \in Nat /\ r \in Nat /\ r < c /\ x = q * c + r OBVIOUS
<1> HIDE DEF q, r
<1>2. ASSUME NEW t \in Nat PROVE t <= q <=> t * c <= x
  <2>1. CASE t <= q
    <3>1. q - t \in Nat /\ (q - t) * c \in Nat /\ q * c = t * c + (q - t) * c BY <1>1, <2>1
    <3>2. t * c \in Nat OBVIOUS
    <3> DEFINE a == t * c
               b == (q - t) * c
    <3>3. a \in Nat /\ b \in Nat /\ x = a + b + r BY <1>1, <3>1, <3>2
    <3> HIDE DEF a, b
    <3>4. a <= x BY <1>1, <3>3
    <3> QED BY <2>1, <3>4 DEF a
  <2>2. CASE t > q
    <3> DEFINE d == t - q - 1
    <3>1. d \in Nat /\ t = q + 1 + d BY <1>1, <2>2
    <3> HIDE DEF d
    <3>2. (q + 1 + d) * c = q * c + c + d * c /\ d * c \in Nat BY <1>1, <3>1
    <3> DEFINE a == q * c
               b == d * c
    <3>3. a \in Nat /\ b \in Nat /\ t * c = a + c + b /\ x = a + r BY <1>1, <3>1, <3>2
    <3> HIDE DEF a, b
    <3>4. t * c > x BY <1>1, <3>3
    <3> QED BY <1>1, <2>2, <3>4
  <2> QED BY <1>1, <2>1, <2>2
<1> QED BY <1>1, <1>2 DEF q

LEMMA QuotientNext ==
  ASSUME NEW x \in Nat, NEW c \in Nat \ {0}
  PROVE  (x + c) \div c = (x \div c) + 1
<1> DEFINE q == x \div c
           p == (x + c) \div c
<1>1. q \in Nat /\ \A t \in Nat : t <= q <=> t * c <= x BY QuotientReaches
<1>2. p \in Nat /\ \A t \in Nat : t <= p <=> t * c <= x + c
  <2>1. x + c \in Nat OBVIOUS
  <2> QED BY <2>1, QuotientReaches
<1> HIDE DEF q, p
<1>3. \A t \in Nat : t * c \in Nat /\ (t + 1) * c = t * c + c OBVIOUS
<1>4. \A t \in Nat : t + 1 <= p <=> t <= q
  <2> SUFFICES ASSUME NEW t \in Nat PROVE t + 1 <= p <=> t <= q OBVIOUS
  <2> DEFINE a == t * c
  <2>1. a \in Nat /\ (t + 1) * c = a + c BY <1>3
  <2>2. (t + 1 <= p <=> a + c <= x + c) /\ (t <= q <=> a <= x) BY <1>1, <1>2, <2>1
  <2> HIDE DEF a
  <2> QED BY <2>1, <2>2
<1>5. q + 1 <= p BY <1>1, <1>4
<1>6. p - 1 <= q
  <2>1. p - 1 \in Nat BY <1>1, <1>2, <1>5
  <2> QED BY <1>2, <1>4, <2>1
<1>7. p = q + 1 BY <1>1, <1>2, <1>5, <1>6
<1> QED BY <1>7 DEF p, q

LEMMA TablePackets ==
  ASSUME NEW b \in Nat
  PROVE  /\ NbTablePackets(b) \in Nat \ {0}
         /\ b > TpPayload => NbTablePackets(b) = NbTablePackets(b - TpPayload) + 1
<1>1. TpPayload \in Nat \ {0} BY Constants
<1> DEFINE q == (b + TpPayload - 1) \div TpPayload
<1>2. q \in Nat
  <2>1. b + TpPayload - 1 \in Nat BY <1>1
  <2> QED BY <1>1, <2>1, QuotientReaches
<1>3. NbTablePackets(b) = MAX(1, q) BY DEF NbTablePackets, DivRoundUp
<1>4. ASSUME b > TpPayload PROVE NbTablePackets(b) = NbTablePackets(b - TpPayload) + 1
  <2> DEFINE x == b - TpPayload + TpPayload - 1
             p == x \div TpPayload
  <2>1. x \in Nat /\ x + TpPayload = b + TpPayload - 1 /\ 1 * TpPayload <= x BY <1>1, <1>4
  <2>2. p \in Nat /\ 1 <= p
    <3> HIDE DEF x
    <3> QED BY <1>1, <2>1, QuotientReaches
  <2>3. q = p + 1
    <3>1. q = (x + TpPayload) \div TpPayload BY <2>1
    <3> HIDE DEF x, q
    <3> QED BY <1>1, <2>1, <3>1, QuotientNext
  <2>4. NbTablePackets(b - TpPayload) = MAX(1, p) BY DEF NbTablePackets, DivRoundUp
  <2> HIDE DEF p, q, x
  <2> QED BY <1>2, <1>3, <2>2, <2>3, <2>4 DEF MAX
<1>5. MAX(1, q) \in Nat \ {0}
  <2> HIDE DEF q
  <2> QED BY <1>2 DEF MAX
<1> QED BY <1>3, <1>4, <1>5

\* Products by the number of fractions to a tick.
LEMMA TicksOK ==
  ASSUME NEW t \in Nat, NEW u \in Nat
  PROVE  /\ t * ClockScale \in Nat /\ (t + u) * ClockScale = t * ClockScale + u * ClockScale
         /\ t <= u <=> t * ClockScale <= u * ClockScale
<1>1. ClockScale \in Nat \ {0} BY Constants
<1>2. \A x, y \in Nat : x * ClockScale \in Nat /\ (x + y) * ClockScale = x * ClockScale + y * ClockScale
  BY <1>1
<1>3. ASSUME NEW x \in Nat, NEW y \in Nat, x <= y PROVE x * ClockScale <= y * ClockScale
  <2>1. y - x \in Nat /\ y = x + (y - x) BY <1>3
  <2>2. y * ClockScale = x * ClockScale + (y - x) * ClockScale /\ (y - x) * ClockScale \in Nat BY <1>2, <2>1
  <2>3. x * ClockScale \in Nat BY <1>2
  <2> QED BY <2>2, <2>3
<1>4. ASSUME u < t PROVE u * ClockScale < t * ClockScale
  <2>1. u + 1 \in Nat /\ u + 1 <= t BY <1>4
  <2>2. (u + 1) * ClockScale <= t * ClockScale BY <1>3, <2>1
  <2>3. (u + 1) * ClockScale = u * ClockScale + ClockScale BY <1>1
  <2>4. u * ClockScale \in Nat /\ t * ClockScale \in Nat BY <1>2
  <2> DEFINE a == u * ClockScale
             b == t * ClockScale
  <2>5. a \in Nat /\ b \in Nat /\ a + ClockScale <= b BY <2>2, <2>3, <2>4
  <2> HIDE DEF a, b
  <2>6. a < b BY <1>1, <2>5
  <2> QED BY <2>6 DEF a, b
<1>5. t * ClockScale \in Nat /\ u * ClockScale \in Nat BY <1>2
<1>6. t <= u \/ u < t OBVIOUS
<1> DEFINE a == t * ClockScale
           b == u * ClockScale
<1>7. a \in Nat /\ b \in Nat /\ (t <= u => a <= b) /\ (u < t => b < a) BY <1>3, <1>4, <1>5
<1> HIDE DEF a, b
<1>8. t <= u <=> a <= b BY <1>6, <1>7
<1> QED BY <1>2, <1>8 DEF a, b

LEMMA DueIs ==
  ASSUME stc \in Nat
  PROVE  \A t \in Nat : t <= CurrentStcTs <=> t * ClockScale <= stc
<1>1. CurrentStcTs = stc \div ClockScale BY DEF CurrentStcTs, MAX
<1> QED BY <1>1, Constants, QuotientReaches

LEMMA StartNat ==
  ASSUME input \in Inputs
  PROVE  Origin \in Nat /\ Start = Origin * ClockScale /\ Start \in Nat
<1> DEFINE t == input.initialPresentationTime
           x == ReferentialStc - InitialDelay
<1>1. t \in Nat BY ContextAssumption
<1>2. SubTicks \in Nat \ {0} /\ StdBufDelay \in Nat /\ StdBufDelay % SubTicks = 0 BY TimingAssumption
<1>3. x \in Nat /\ StdBufDelay <= x
  <2> HIDE DEF t
  <2>1. ReferentialStc = MAX(t, InitialDelay + StdBufDelay) BY DEF ReferentialStc, StartPcr, t
  <2>2. MAX(t, InitialDelay + StdBufDelay) >= InitialDelay + StdBufDelay
        /\ MAX(t, InitialDelay + StdBufDelay) \in Nat
    BY <1>1, <1>2, ReferenceTimes DEF MAX
  <2> QED BY <1>2, <2>1, <2>2, ReferenceTimes
<1> HIDE DEF x
<1> DEFINE b == StdBufDelay \div SubTicks
           q == x \div SubTicks
<1>4. StdBufDelay = b * SubTicks /\ b \in Nat BY <1>2
<1>5. q \in Nat /\ b <= q
  <2> HIDE DEF b
  <2>1. q \in Nat /\ \A n \in Nat : n <= q <=> n * SubTicks <= x BY <1>2, <1>3, QuotientReaches
  <2> HIDE DEF q
  <2> QED BY <1>3, <1>4, <2>1
<1>6. Origin = q * SubTicks - b * SubTicks
  <2>1. Origin = q * SubTicks - StdBufDelay BY DEF Origin, InitialStc, Round90kHz, x
  <2> HIDE DEF b, q
  <2> QED BY <1>4, <2>1
<1> HIDE DEF b, q
<1>7. q * SubTicks - b * SubTicks = (q - b) * SubTicks /\ q - b \in Nat BY <1>2, <1>4, <1>5
<1>8. Origin \in Nat BY <1>2, <1>6, <1>7
<1>9. Start = Origin * ClockScale BY DEF Start, Origin
<1> QED BY <1>8, <1>9, TicksOK

LEMMA PacketsFinite ==
  ASSUME NEW S \in SUBSET System, NEW left \in [System -> Nat]
  PROVE  IsFiniteSet(Packets(S, left)) /\ \A s \in S : <<s, 1>> \in Packets(S, left)
<1> DEFINE Of(s) == {s} \X (1..NbTablePackets(left[s]))
           All == {Of(s) : s \in S}
           g == [s \in S |-> Of(s)]
<1>1. \A s \in S : IsFiniteSet(Of(s)) /\ <<s, 1>> \in Of(s)
  <2> SUFFICES ASSUME NEW s \in S PROVE IsFiniteSet(Of(s)) /\ <<s, 1>> \in Of(s) OBVIOUS
  <2> DEFINE n == NbTablePackets(left[s])
  <2>1. n \in Nat \ {0}
    <3>1. left[s] \in Nat OBVIOUS
    <3> QED BY <3>1, TablePackets
  <2> HIDE DEF n
  <2>2. IsFiniteSet(1..n) /\ 1 \in 1..n
    <3>1. 1 \in Int /\ n \in Int BY <2>1
    <3>2. IsFiniteSet(1..n) BY <3>1, FS_Interval
    <3> QED BY <2>1, <3>2
  <2>3. IsFiniteSet({s}) BY FS_Singleton
  <2>4. IsFiniteSet({s} \X (1..n)) BY <2>2, <2>3, FS_Product
  <2> QED BY <2>2, <2>4 DEF n
<1>2. Packets(S, left) = UNION All BY DEF Packets
<1>3. IsFiniteSet(All)
  <2>1. g \in Surjection(S, All)
    <3> HIDE DEF Of
    <3> QED BY DEF Surjection
  <2>2. IsFiniteSet(S) BY Constants, FS_Subset
  <2> HIDE DEF g, All
  <2> QED BY <2>1, <2>2, FS_Surjection
<1>4. \A T \in All : IsFiniteSet(T)
  <2> HIDE DEF Of
  <2> QED BY <1>1
<1>5. IsFiniteSet(UNION All)
  <2> HIDE DEF All
  <2> QED BY <1>3, <1>4, FS_UNION
<1>6. \A s \in S : <<s, 1>> \in UNION All
  <2> HIDE DEF Of
  <2> QED BY <1>1
<1> HIDE DEF All
<1> QED BY <1>2, <1>5, <1>6

LEMMA FirstFinite ==
  /\ IsFiniteSet(FirstPackets) /\ Cardinality(FirstPackets) \in Nat
  /\ Cardinality(System) \in Nat /\ Cardinality(System) <= Cardinality(FirstPackets)
<1> DEFINE f == [s \in System |-> <<s, 1>>]
<1>1. FirstPackets = Packets(System, TableSize) BY DEF FirstPackets, Packets
<1>2. IsFiniteSet(FirstPackets) /\ \A s \in System : <<s, 1>> \in FirstPackets
  BY <1>1, Constants, PacketsFinite
<1>3. f \in Injection(System, FirstPackets)
  <2>1. f \in [System -> FirstPackets] BY <1>2
  <2>2. \A a, b \in System : f[a] = f[b] => a = b
    <3>1. \A a, b \in System : <<a, 1>> = <<b, 1>> => a = b OBVIOUS
    <3> QED BY <3>1
  <2> HIDE DEF f
  <2> QED BY <2>1, <2>2 DEF Injection, IsInjective
<1> HIDE DEF f
<1>4. Cardinality(System) <= Cardinality(FirstPackets) BY <1>2, <1>3, FS_Injection
<1> QED BY <1>2, <1>4, Constants, FS_CardinalityType

LEMMA PeriodIs ==
  ASSUME NEW s \in System
  PROVE  /\ SysPeriod(s) \in Nat \ {0}
         /\ Slots(Cardinality(FirstPackets)) < SysPeriod(s) * ClockScale
         /\ Slots(Cardinality(System)) < SysPeriod(s) * ClockScale
<1>1. SysPeriod(s) \in Nat
  <2> DEFINE n == NbTablePackets(TableSize[s])
  <2>1. n \in Nat \ {0} /\ Delay[s] \in Nat BY Constants, TablePackets
  <2> HIDE DEF n
  <2>2. Delay[s] \div n \in Nat BY <2>1, QuotientReaches
  <2> QED BY <2>2 DEF SysPeriod, n
<1> DEFINE p == SysPeriod(s) * ClockScale
           f == Slots(Cardinality(FirstPackets))
           y == Slots(Cardinality(System))
<1>2. f < p BY RoomAssumption DEF Slots
<1>3. f \in Nat /\ y \in Nat /\ y <= f BY FirstFinite, SlotsOK
<1>4. p \in Nat BY <1>1, TicksOK
<1>5. SysPeriod(s) # 0
  <2>1. SysPeriod(s) = 0 => p = 0 BY Constants
  <2> HIDE DEF p, f
  <2> QED BY <1>2, <1>3, <2>1
<1> HIDE DEF p, f, y
<1>6. y < p BY <1>2, <1>3, <1>4
<1> QED BY <1>1, <1>2, <1>5, <1>6 DEF p, f, y

LEMMA AheadBound ==
  ASSUME NEW time \in [System -> Nat], NEW s \in System
  PROVE  /\ IsFiniteSet(AheadBy(time, s)) /\ Cardinality(AheadBy(time, s)) \in Nat
         /\ Slots(Cardinality(AheadBy(time, s))) \in Nat
         /\ Slots(Cardinality(AheadBy(time, s))) + TpDuration <= Slots(Cardinality(System))
<1> DEFINE A == AheadBy(time, s)
           B == System \ {s}
<1>1. IsFiniteSet(B) /\ Cardinality(B) = Cardinality(System) - 1 BY Constants, FS_RemoveElement
<1>2. A \in SUBSET B BY DEF AheadBy
<1> HIDE DEF A, B
<1>3. IsFiniteSet(A) /\ Cardinality(A) <= Cardinality(B) /\ Cardinality(A) \in Nat
  <2>1. IsFiniteSet(A) /\ Cardinality(A) <= Cardinality(B) BY <1>1, <1>2, FS_Subset
  <2> QED BY <2>1, FS_CardinalityType
<1>4. Cardinality(System) \in Nat BY FirstFinite
<1>5. Cardinality(A) + 1 \in Nat /\ Cardinality(A) + 1 <= Cardinality(System) BY <1>1, <1>3, <1>4
<1>6. Slots(Cardinality(A)) \in Nat /\ Slots(Cardinality(A) + 1) = Slots(Cardinality(A)) + TpDuration
  BY <1>3, SlotsOK
<1>7. Slots(Cardinality(A) + 1) <= Slots(Cardinality(System)) BY <1>4, <1>5, SlotsOK
<1> QED BY <1>3, <1>6, <1>7 DEF A

\* One stream fewer goes before s once m, which did, is due after it.
LEMMA AheadLess ==
  ASSUME NEW time \in [System -> Nat], NEW later \in [System -> Nat], NEW s \in System, NEW m \in System,
         m # s, time[m] <= time[s], later[m] > later[s], \A r \in System \ {m} : later[r] = time[r]
  PROVE  Slots(Cardinality(AheadBy(later, s))) + TpDuration = Slots(Cardinality(AheadBy(time, s)))
<1> DEFINE A == AheadBy(time, s)
           B == AheadBy(later, s)
<1>1. m \in A /\ B = A \ {m}
  <2>1. m \in A BY DEF AheadBy
  <2>2. m \notin B BY DEF AheadBy
  <2>3. \A r \in System \ {m} : r \in A <=> r \in B BY DEF AheadBy
  <2>4. A \subseteq System /\ B \subseteq System BY DEF AheadBy
  <2> HIDE DEF A, B
  <2> QED BY <2>1, <2>2, <2>3, <2>4
<1>2. IsFiniteSet(A) /\ Cardinality(A) \in Nat /\ Cardinality(B) \in Nat BY AheadBound
<1> HIDE DEF A, B
<1>3. Cardinality(B) = Cardinality(A) - 1 BY <1>1, <1>2, FS_RemoveElement
<1>4. Cardinality(A) = Cardinality(B) + 1 BY <1>2, <1>3
<1>5. Slots(Cardinality(B) + 1) = Slots(Cardinality(B)) + TpDuration BY <1>2, SlotsOK
<1> QED BY <1>4, <1>5 DEF A, B

\* A first packet of m is sent, or m is due later.
LEMMA PacketsLess ==
  ASSUME NEW S \in SUBSET System, NEW R \in SUBSET S, NEW m \in S,
         NEW left \in [System -> Nat], NEW rest \in [System -> Nat],
         \A r \in System \ {m} : rest[r] = left[r],
         m \in R => NbTablePackets(rest[m]) + 1 = NbTablePackets(left[m])
  PROVE  /\ Slots(Cardinality(Packets(R, rest))) \in Nat
         /\ Slots(Cardinality(Packets(R, rest))) + TpDuration <= Slots(Cardinality(Packets(S, left)))
<1> DEFINE n == NbTablePackets(left[m])
           p == <<m, n>>
           A == Packets(S, left)
           B == Packets(R, rest)
<1>1. n \in Nat \ {0}
  <2>1. left[m] \in Nat OBVIOUS
  <2> QED BY <2>1, TablePackets
<1>2. p \in A BY <1>1 DEF Packets
<1>3. B \subseteq A \ {p}
  <2> SUFFICES ASSUME NEW x \in B PROVE x \in A /\ x # p OBVIOUS
  <2>1. PICK s \in R : x \in {s} \X (1..NbTablePackets(rest[s])) BY DEF Packets
  <2>2. PICK k \in 1..NbTablePackets(rest[s]) : x = <<s, k>> BY <2>1
  <2>3. CASE s = m
    <3> DEFINE q == NbTablePackets(rest[m])
    <3>1. q \in Nat
      <4>1. rest[m] \in Nat OBVIOUS
      <4> QED BY <4>1, TablePackets
    <3>2. q + 1 = n /\ k \in 1..q BY <2>2, <2>3
    <3> HIDE DEF q, n
    <3>3. k \in 1..n /\ k # n BY <1>1, <3>1, <3>2
    <3>4. x = <<m, k>> BY <2>2, <2>3
    <3>5. x # p BY <3>3, <3>4
    <3>6. x \in {m} \X (1..n) BY <3>3, <3>4
    <3> QED BY <3>5, <3>6 DEF Packets, n
  <2>4. CASE s # m
    <3>1. rest[s] = left[s] /\ s \in S BY <2>4
    <3>2. x \in A BY <2>1, <3>1 DEF Packets
    <3>3. x # p BY <2>2, <2>4
    <3> QED BY <3>2, <3>3
  <2> QED BY <2>3, <2>4
<1>4. IsFiniteSet(A) /\ Cardinality(A) \in Nat
  <2>1. IsFiniteSet(A) BY PacketsFinite
  <2> HIDE DEF A
  <2> QED BY <2>1, FS_CardinalityType
<1> HIDE DEF A, B, p
<1>5. IsFiniteSet(A \ {p}) /\ Cardinality(A \ {p}) = Cardinality(A) - 1 BY <1>2, <1>4, FS_RemoveElement
<1>6. IsFiniteSet(B) /\ Cardinality(B) <= Cardinality(A \ {p}) BY <1>3, <1>5, FS_Subset
<1>7. Cardinality(B) \in Nat BY <1>6, FS_CardinalityType
<1>8. Cardinality(B) + 1 \in Nat /\ Cardinality(B) + 1 <= Cardinality(A) BY <1>4, <1>5, <1>6, <1>7
<1>9. Slots(Cardinality(B) + 1) <= Slots(Cardinality(A)) BY <1>4, <1>8, SlotsOK
<1>10. Slots(Cardinality(B)) \in Nat /\ Slots(Cardinality(B) + 1) = Slots(Cardinality(B)) + TpDuration
  BY <1>7, SlotsOK
<1> QED BY <1>9, <1>10 DEF A, B

LEMMA PacketsEmpty ==
  ASSUME NEW S \in SUBSET System, NEW left \in [System -> Nat]
  PROVE  Packets(S, left) = {} <=> S = {}
<1>1. S = {} => Packets(S, left) = {} BY DEF Packets
<1>2. \A s \in S : <<s, 1>> \in Packets(S, left) BY PacketsFinite
<1> QED BY <1>1, <1>2

\* The turn of m, the first of the streams that are due: a packet of its
\* table, which may be the last one.
LEMMA Serve ==
  ASSUME InTimeOK, input \in Inputs, pc = "system",
         NEW m \in System, \A r \in System : sysTsPt[m] <= sysTsPt[r], sysTsPt[m] <= CurrentStcTs,
         pc' \in {"tick", "es"}, UNCHANGED <<stc, full, input>>,
         NEW t \in Nat, sysTsPt' = [sysTsPt EXCEPT ![m] = t],
         tableLeft' \in [System -> Nat], \A r \in System \ {m} : tableLeft'[r] = tableLeft[r],
         \A r \in System \ {m} : supplied'[r] = supplied[r],
         \/ t = sysTsPt[m] + SysPeriod(m) /\ (HasOwnPackets(m) => supplied'[m])
         \/ /\ t = sysTsPt[m] /\ HasOwnPackets(m) /\ ~supplied[m] /\ ~supplied'[m]
            /\ NbTablePackets(tableLeft'[m]) + 1 = NbTablePackets(tableLeft[m])
  PROVE  InTimeOK'
<1> DEFINE P == SysPeriod(m)
           First == {s \in System : sysTsPt[s] = Origin}
           First2 == {s \in System : sysTsPt'[s] = Origin}
<1>1. /\ stc \in Nat /\ Start <= stc /\ full = {}
      /\ sysTsPt \in [System -> Nat] /\ tableLeft \in [System -> Nat]
      /\ sysTsPt' \in [System -> Nat] /\ sysTsPt'[m] = t
      /\ \A r \in System \ {m} : sysTsPt'[r] = sysTsPt[r]
  BY DEF InTimeOK, SystemTypesOK
<1>2. Origin \in Nat /\ Start = Origin * ClockScale /\ Start \in Nat BY StartNat
<1>3. Origin' = Origin /\ Start' = Start /\ \A s \in System : HasOwnPackets(s)' = HasOwnPackets(s)
  BY DEF Origin, Start, ReferentialStc, StartPcr, InitialStc, HasOwnPackets
<1>4. Turn = 0 /\ Turn' = TpDuration BY DEF Turn
<1>5. TpDuration \in Nat \ {0} BY Constants
<1>6. \A s \in System :
        /\ SysPeriod(s) \in Nat \ {0}
        /\ sysTsPt[s] = Origin \/ Origin + SysPeriod(s) <= sysTsPt[s]
        /\ supplied[s] => sysTsPt[s] # Origin
        /\ HasOwnPackets(s) /\ ~supplied[s] => sysTsPt[s] = Origin
  BY PeriodIs DEF InTimeOK, FirstTurnOK
<1>7. \A s \in System : sysTsPt[s] \in Nat /\ Origin <= sysTsPt[s] BY <1>1, <1>2, <1>6
<1>8. SystemTypesOK' BY <1>1, <1>3 DEF SystemTypesOK
<1>9. /\ t = Origin \/ Origin + P <= t
      /\ supplied'[m] => t # Origin
      /\ HasOwnPackets(m) /\ ~supplied'[m] => t = Origin
  <2>1. P \in Nat \ {0} /\ sysTsPt[m] \in Nat /\ Origin <= sysTsPt[m] BY <1>6, <1>7
  <2> HIDE DEF P
  <2>2. CASE t = sysTsPt[m] + P /\ (HasOwnPackets(m) => supplied'[m])
    BY <1>2, <2>1, <2>2
  <2>3. CASE t = sysTsPt[m] /\ HasOwnPackets(m) /\ ~supplied[m] /\ ~supplied'[m]
    BY <1>6, <2>3
  <2> QED BY <2>2, <2>3 DEF P
<1>10. FirstTurnOK'
  <2> SUFFICES ASSUME NEW s \in System
               PROVE  /\ sysTsPt'[s] = Origin \/ Origin + SysPeriod(s) <= sysTsPt'[s]
                      /\ supplied'[s] => sysTsPt'[s] # Origin
                      /\ HasOwnPackets(s) /\ ~supplied'[s] => sysTsPt'[s] = Origin
    BY <1>3 DEF FirstTurnOK, SysPeriod
  <2>1. CASE s = m BY <1>1, <1>9, <2>1
  <2>2. CASE s # m
    <3>1. sysTsPt'[s] = sysTsPt[s] /\ supplied'[s] = supplied[s] BY <1>1, <2>2
    <3> QED BY <1>6, <3>1
  <2> QED BY <2>1, <2>2
<1>11. FirstLeft = Packets(First, tableLeft) /\ FirstLeft' = Packets(First2, tableLeft')
  BY <1>3 DEF FirstLeft, Packets
<1>12. /\ FirstLeft = {} <=> First = {}
       /\ FirstLeft' = {} <=> First2 = {}
  <2>1. First \in SUBSET System /\ First2 \in SUBSET System OBVIOUS
  <2> HIDE DEF First, First2
  <2> QED BY <1>1, <1>11, <2>1, PacketsEmpty
<1>13. Slots(Cardinality(FirstPackets)) \in Nat /\ Slots(Cardinality(System)) \in Nat
  BY FirstFinite, SlotsOK
<1>14. \A s \in System :
         /\ Cardinality(AheadBy(sysTsPt, s)) \in Nat /\ Slots(Cardinality(AheadBy(sysTsPt, s))) \in Nat
         /\ Slots(Cardinality(AheadBy(sysTsPt', s))) \in Nat
         /\ Slots(Cardinality(AheadBy(sysTsPt', s))) + TpDuration <= Slots(Cardinality(System))
  BY <1>1, AheadBound
\* What is to show, with the names of the next state replaced.
<1>15. /\ FirstInTime' <=> stc + TpDuration + Slots(Cardinality(FirstLeft'))
                             <= Start + Slots(Cardinality(FirstPackets))
       /\ \A s \in System :
            ThenInTime(s)' <=> stc + TpDuration + Slots(Cardinality(AheadBy(sysTsPt', s)))
                                 < sysTsPt'[s] * ClockScale + Slots(Cardinality(System))
  BY <1>3, <1>4 DEF FirstInTime, ThenInTime, Ahead, AheadBy, Release, Slots, FirstPackets
<1>16. CASE FirstLeft # {}
  <2>1. sysTsPt[m] = Origin
    <3>1. PICK s \in System : sysTsPt[s] = Origin BY <1>12, <1>16
    <3> QED BY <1>2, <1>7, <3>1
  <2>2. First2 \in SUBSET First /\ First \in SUBSET System /\ m \in First BY <1>1, <2>1
  <2>3. m \in First2 => NbTablePackets(tableLeft'[m]) + 1 = NbTablePackets(tableLeft[m])
    <3>1. m \in First2 => t = Origin BY <1>1
    <3>2. P \in Nat \ {0} BY <1>6
    <3> HIDE DEF P, First2
    <3>3. Origin + P # Origin BY <1>2, <3>2
    <3> QED BY <2>1, <3>1, <3>3 DEF P
  <2>4. /\ Slots(Cardinality(FirstLeft')) \in Nat
        /\ Slots(Cardinality(FirstLeft')) + TpDuration <= Slots(Cardinality(FirstLeft))
    <3> HIDE DEF First, First2
    <3> QED BY <1>1, <1>11, <2>2, <2>3, PacketsLess
  <2>5. stc + Slots(Cardinality(FirstLeft)) <= Start + Slots(Cardinality(FirstPackets))
        /\ Slots(Cardinality(FirstLeft)) \in Nat
    <3>1. stc + Turn + Slots(Cardinality(FirstLeft)) <= Start + Slots(Cardinality(FirstPackets))
      BY <1>16 DEF InTimeOK, FirstInTime
    <3>2. IsFiniteSet(FirstLeft)
      <4>1. First \in SUBSET System OBVIOUS
      <4> HIDE DEF First
      <4> QED BY <1>1, <1>11, <4>1, PacketsFinite
    <3>3. Cardinality(FirstLeft) \in Nat BY <3>2, FS_CardinalityType
    <3>4. Slots(Cardinality(FirstLeft)) \in Nat BY <3>3, SlotsOK
    <3> QED BY <1>1, <1>4, <3>1, <3>4
  <2>6. stc + TpDuration + Slots(Cardinality(FirstLeft')) <= Start + Slots(Cardinality(FirstPackets))
    BY <1>1, <1>2, <1>5, <1>13, <2>4, <2>5
  <2>7. FirstInTime' BY <1>15, <2>6
  <2>8. ASSUME FirstLeft' = {}, NEW s \in System PROVE ThenInTime(s)'
    <3>1. SysPeriod(s) \in Nat \ {0} /\ Slots(Cardinality(FirstPackets)) < SysPeriod(s) * ClockScale
      BY PeriodIs
    <3>2. sysTsPt'[s] # Origin BY <1>12, <2>8
    <3>3. Origin + SysPeriod(s) <= sysTsPt'[s] /\ sysTsPt'[s] \in Nat
      <4>1. sysTsPt'[s] = Origin \/ Origin + SysPeriod(s) <= sysTsPt'[s]
        BY <1>3, <1>10 DEF FirstTurnOK, SysPeriod
      <4> QED BY <1>1, <3>2, <4>1
    <3>4. /\ (Origin + SysPeriod(s)) * ClockScale <= sysTsPt'[s] * ClockScale
          /\ (Origin + SysPeriod(s)) * ClockScale = Start + SysPeriod(s) * ClockScale
          /\ SysPeriod(s) * ClockScale \in Nat /\ sysTsPt'[s] * ClockScale \in Nat
      <4>1. Origin + SysPeriod(s) \in Nat BY <1>2, <3>1
      <4> QED BY <1>2, <3>1, <3>3, <4>1, TicksOK
    <3> DEFINE a == SysPeriod(s) * ClockScale
               b == sysTsPt'[s] * ClockScale
               f == Slots(Cardinality(FirstPackets))
               y == Slots(Cardinality(System))
               h == Slots(Cardinality(AheadBy(sysTsPt', s)))
               l == Slots(Cardinality(FirstLeft'))
    <3>5. /\ a \in Nat /\ b \in Nat /\ f \in Nat /\ y \in Nat /\ h \in Nat /\ l \in Nat
          /\ f < a /\ Start + a <= b /\ h + TpDuration <= y /\ stc + TpDuration + l <= Start + f
      BY <1>13, <1>14, <2>4, <2>6, <3>1, <3>4
    <3> HIDE DEF a, b, f, y, h, l
    <3>6. stc + TpDuration + h < b + y BY <1>1, <1>2, <1>5, <3>5
    <3> QED BY <1>15, <3>6 DEF b, y, h
  <2> QED BY <1>8, <1>10, <2>7, <2>8 DEF InTimeOK
<1>17. CASE FirstLeft = {}
  <2>1. sysTsPt[m] # Origin BY <1>12, <1>17
  <2>2. t = sysTsPt[m] + P BY <1>6, <2>1
  <2>3. FirstLeft' = {}
    <3>1. \A s \in System : sysTsPt[s] # Origin BY <1>12, <1>17
    <3>2. P \in Nat \ {0} /\ Origin <= sysTsPt[m] /\ sysTsPt[m] \in Nat BY <1>6, <1>7
    <3> HIDE DEF P
    <3>3. t # Origin BY <1>2, <2>2, <3>2
    <3>4. \A s \in System : sysTsPt'[s] # Origin BY <1>1, <3>1, <3>3
    <3> QED BY <1>12, <3>4
  <2>4. ASSUME NEW s \in System PROVE ThenInTime(s)'
    <3> DEFINE u == sysTsPt[m] * ClockScale
               p == P * ClockScale
               v == sysTsPt[s] * ClockScale
               b == sysTsPt'[s] * ClockScale
               y == Slots(Cardinality(System))
               g == Slots(Cardinality(AheadBy(sysTsPt, s)))
               gm == Slots(Cardinality(AheadBy(sysTsPt, m)))
               h == Slots(Cardinality(AheadBy(sysTsPt', s)))
    <3>1. /\ u \in Nat /\ p \in Nat /\ v \in Nat /\ b \in Nat /\ t * ClockScale = u + p
          /\ sysTsPt[s] < t <=> v < u + p
      <4>1. P \in Nat /\ sysTsPt[m] \in Nat /\ sysTsPt[s] \in Nat /\ sysTsPt'[s] \in Nat BY <1>1, <1>6
      <4> HIDE DEF P
      <4>2. t * ClockScale = u + p /\ u \in Nat /\ p \in Nat BY <2>2, <4>1, TicksOK
      <4>3. v \in Nat /\ b \in Nat BY <4>1, TicksOK
      <4>4. t <= sysTsPt[s] <=> t * ClockScale <= v BY <4>1, TicksOK
      <4> HIDE DEF u, p, v, b
      <4>5. sysTsPt[s] < t <=> ~(t <= sysTsPt[s]) BY <4>1
      <4> QED BY <4>2, <4>3, <4>4, <4>5
    <3>2. u <= stc BY <1>1, DueIs
    <3>3. /\ y \in Nat /\ g \in Nat /\ gm \in Nat /\ h \in Nat /\ h + TpDuration <= y
      BY <1>13, <1>14
    <3>4. stc + g < v + y /\ stc + gm < u + y
      <4>1. /\ stc + Turn + Slots(Cardinality(Ahead(s))) < Release(s) + Slots(Cardinality(System))
            /\ stc + Turn + Slots(Cardinality(Ahead(m))) < Release(m) + Slots(Cardinality(System))
        BY <1>17 DEF InTimeOK, ThenInTime
      <4>2. stc + 0 + g < v + y /\ stc + 0 + gm < u + y BY <1>4, <4>1 DEF Ahead, Release
      <4> HIDE DEF g, gm, u, v, y
      <4> QED BY <1>1, <3>1, <3>3, <4>2
    <3>5. y < p BY PeriodIs
    <3>6. s # m => b = v BY <1>1
    <3>7. s = m => b = u + p BY <1>1, <3>1
    <3>8. s # m /\ v <= stc => h + TpDuration = g
      <4> SUFFICES ASSUME s # m, v <= stc PROVE h + TpDuration = g OBVIOUS
      <4>1. v < u + p
        <5> HIDE DEF u, p, v, y, gm
        <5> QED BY <1>1, <3>1, <3>3, <3>4, <3>5
      <4>2. sysTsPt'[m] > sysTsPt'[s] BY <1>1, <3>1, <4>1
      <4> QED BY <1>1, <4>2, AheadLess
    <3> HIDE DEF u, p, v, b, y, g, gm, h
    <3>9. stc + TpDuration + h < b + y
      <4>1. CASE s = m BY <1>1, <1>5, <3>1, <3>3, <3>4, <3>5, <3>7, <4>1
      <4>2. CASE s # m /\ v <= stc BY <1>1, <1>5, <3>1, <3>3, <3>4, <3>6, <3>8, <4>2
      <4>3. CASE s # m /\ v > stc BY <1>1, <1>5, <3>1, <3>3, <3>6, <4>3
      <4> QED BY <1>1, <3>1, <4>1, <4>2, <4>3
    <3> QED BY <1>15, <3>9 DEF b, y, h
  <2> QED BY <1>8, <1>10, <2>3, <2>4 DEF InTimeOK
<1> QED BY <1>16, <1>17

LEMMA SystemInit == Init => SystemInv
<1> SUFFICES ASSUME Init, NothingRefused PROVE /\ supplied \in [System -> BOOLEAN]
                                               /\ ~(pc = "es" \/ \E e \in ES : Begun(e))
                                               /\ InTimeOK
  BY DEF SystemInv
<1>1. /\ pc = "system" /\ input \in Inputs /\ stc = Start /\ full \in Verdicts(stc)
      /\ sysTsPt = [s \in System |-> CurrentStcTs] /\ tableLeft = TableSize
      /\ supplied = [s \in System |-> FALSE]
      /\ pesLeft = [e \in ES |-> input.script[e][1].size] /\ nextPes = [e \in ES |-> 1]
  BY DEF Init, Start
<1>2. Origin \in Nat /\ Start = Origin * ClockScale /\ Start \in Nat BY <1>1, StartNat
<1>3. CurrentStcTs = Origin
  <2>1. \A t \in Nat : t <= CurrentStcTs <=> t <= Origin
    <3> SUFFICES ASSUME NEW t \in Nat PROVE t <= CurrentStcTs <=> t <= Origin OBVIOUS
    <3>1. t <= CurrentStcTs <=> t * ClockScale <= Origin * ClockScale BY <1>1, <1>2, DueIs
    <3> QED BY <1>2, <3>1, TicksOK
  <2>2. CurrentStcTs \in Nat
    <3>1. CurrentStcTs = stc \div ClockScale BY <1>1, <1>2 DEF CurrentStcTs, MAX
    <3> QED BY <1>1, <1>2, <3>1, Constants, QuotientReaches
  <2>3. CurrentStcTs <= Origin /\ Origin <= CurrentStcTs BY <1>2, <2>1, <2>2
  <2> QED BY <1>2, <2>2, <2>3
<1>4. full = {}
  <2>1. ~(stc < input.blockedUntil) BY <1>1, <1>2 DEF NothingRefused
  <2> QED BY <1>1, <2>1 DEF Verdicts
<1>5. SystemTypesOK BY <1>1, <1>2, <1>3, <1>4, Constants DEF SystemTypesOK
<1>6. FirstTurnOK BY <1>1, <1>3 DEF FirstTurnOK
<1>7. FirstLeft = FirstPackets
  <2>1. {s \in System : sysTsPt[s] = Origin} = System BY <1>1, <1>3
  <2> QED BY <1>1, <2>1 DEF FirstLeft, FirstPackets, Packets
<1>8. Turn = 0 BY <1>1 DEF Turn
<1>9. FirstInTime
  <2>1. Slots(Cardinality(FirstPackets)) \in Nat BY FirstFinite, SlotsOK
  <2> DEFINE f == Slots(Cardinality(FirstPackets))
  <2>2. FirstInTime <=> stc + Turn + f <= Start + f BY <1>7 DEF FirstInTime
  <2> HIDE DEF f
  <2> QED BY <1>1, <1>2, <1>8, <2>1, <2>2 DEF f
<1>10. FirstLeft # {}
  <2>1. <<Pcr, 1>> \in Packets(System, TableSize) BY Constants, PacketsFinite
  <2> QED BY <1>7, <2>1 DEF FirstPackets, Packets
<1>11. \A e \in ES : ~Begun(e)
  <2> SUFFICES ASSUME NEW e \in ES PROVE ~Begun(e) OBVIOUS
  <2>1. nextPes[e] = 1 /\ pesLeft[e] = input.script[e][1].size BY <1>1
  <2>2. input.script[e][1].size \in Nat
    <3>1. 1 \in 1..Len(input.script[e]) BY <1>1, ScriptOK
    <3> QED BY <1>1, <3>1, ScriptOK
  <2> DEFINE z == input.script[e][1].size
  <2>3. Begun(e) <=> nextPes[e] > 1 \/ pesLeft[e] < z BY DEF Begun
  <2> HIDE DEF z
  <2> QED BY <2>1, <2>2, <2>3 DEF z
<1> QED BY <1>1, <1>5, <1>6, <1>9, <1>10, <1>11 DEF InTimeOK

\* A step that leaves the system streams and what is left of the slot.
LEMMA OthersKeep ==
  ASSUME InTimeOK, input \in Inputs, stc' + Turn' = stc + Turn, stc' \in Nat, stc <= stc', full' = {},
         UNCHANGED <<sysTsPt, tableLeft, supplied, input>>
  PROVE  InTimeOK'
<1>1. Origin' = Origin /\ Start' = Start /\ \A s \in System : HasOwnPackets(s)' = HasOwnPackets(s)
  BY DEF Origin, Start, ReferentialStc, StartPcr, InitialStc, HasOwnPackets
<1>2. SystemTypesOK'
  <2>1. stc \in Nat /\ Start <= stc /\ sysTsPt \in [System -> Nat] /\ tableLeft \in [System -> Nat]
    BY DEF InTimeOK, SystemTypesOK
  <2>2. Start \in Nat BY StartNat
  <2>3. Start <= stc' BY <2>1, <2>2
  <2> QED BY <1>1, <2>1, <2>3 DEF SystemTypesOK
<1>3. FirstTurnOK' BY <1>1 DEF InTimeOK, FirstTurnOK, SysPeriod
<1>4. FirstLeft' = FirstLeft BY <1>1 DEF FirstLeft, Packets
<1>5. FirstInTime' = FirstInTime BY <1>1, <1>4 DEF FirstInTime, Slots, FirstPackets
<1>6. \A s \in System : ThenInTime(s)' = ThenInTime(s)
  BY DEF ThenInTime, Ahead, AheadBy, Release, Slots
<1> QED BY <1>2, <1>3, <1>4, <1>5, <1>6 DEF InTimeOK

\* All tables were sent once no stream is at its first time.
LEMMA NoneFirst ==
  ASSUME InTimeOK, \A s \in System : HasOwnPackets(s) => sysTsPt[s] # Origin
  PROVE  SuppliedOK
BY DEF InTimeOK, FirstTurnOK, SuppliedOK

LEMMA TableServed ==
  ASSUME InTimeOK, input \in Inputs, supplied \in [System -> BOOLEAN],
         NEW m \in System, MuxSystemPacket(m)
  PROVE  /\ InTimeOK' /\ supplied' \in [System -> BOOLEAN]
         /\ \A s \in System : supplied[s] => supplied'[s]
<1> DEFINE n == tableLeft[m]
           rest == n - MIN(n, TpPayload)
           l == IF rest = 0 THEN TableSize[m] ELSE rest
           t == Advanced(m, supplied'[m])
<1>1. /\ pc = "system" /\ SystemDue(m) /\ HasOwnPackets(m)
      /\ tableLeft' = [tableLeft EXCEPT ![m] = l]
      /\ supplied' = [supplied EXCEPT ![m] = @ \/ rest = 0]
      /\ sysTsPt' = [sysTsPt EXCEPT ![m] = t]
      /\ pc' = "tick" /\ UNCHANGED <<stc, full, input>>
  BY DEF MuxSystemPacket, Sent, esVars
<1>2. /\ sysTsPt \in [System -> Nat] /\ tableLeft \in [System -> Nat]
  BY DEF InTimeOK, SystemTypesOK
<1>3. n \in Nat /\ TpPayload \in Nat \ {0} /\ TableSize[m] \in Nat BY <1>2, Constants
<1>4. rest \in Nat /\ l \in Nat /\ (rest # 0 => n > TpPayload /\ l = n - TpPayload)
  <2> HIDE DEF n
  <2> QED BY <1>3 DEF MIN
<1> HIDE DEF l, rest
<1>5. /\ supplied' \in [System -> BOOLEAN]
      /\ supplied'[m] <=> supplied[m] \/ rest = 0
      /\ \A s \in System \ {m} : supplied'[s] = supplied[s]
  BY <1>1
<1>6. tableLeft' \in [System -> Nat] /\ tableLeft'[m] = l
      /\ \A s \in System \ {m} : tableLeft'[s] = tableLeft[s]
  BY <1>1, <1>2, <1>4
<1>7. \/ t = sysTsPt[m] + SysPeriod(m) /\ (HasOwnPackets(m) => supplied'[m])
      \/ /\ t = sysTsPt[m] /\ HasOwnPackets(m) /\ ~supplied[m] /\ ~supplied'[m]
         /\ NbTablePackets(tableLeft'[m]) + 1 = NbTablePackets(tableLeft[m])
  <2>1. CASE supplied'[m] BY <2>1 DEF Advanced
  <2>2. CASE ~supplied'[m]
    <3>1. t = sysTsPt[m] BY <2>2 DEF Advanced
    <3>2. rest # 0 /\ ~supplied[m] BY <1>5, <2>2
    <3>3. NbTablePackets(l) + 1 = NbTablePackets(n) BY <1>3, <1>4, <3>2, TablePackets
    <3> QED BY <1>1, <1>6, <2>2, <3>1, <3>2, <3>3
  <2> QED BY <2>1, <2>2
<1>8. sysTsPt[m] <= CurrentStcTs /\ \A r \in System : sysTsPt[m] <= sysTsPt[r]
  BY <1>1, <1>2 DEF SystemDue
<1>9. t \in Nat
  <2>1. sysTsPt[m] \in Nat /\ SysPeriod(m) \in Nat BY <1>2, PeriodIs
  <2> QED BY <1>7, <2>1
<1> HIDE DEF t
<1>10. InTimeOK' BY <1>1, <1>5, <1>6, <1>7, <1>8, <1>9, Serve
<1> QED BY <1>5, <1>10

LEMMA PcrSkipped ==
  ASSUME InTimeOK, input \in Inputs, supplied \in [System -> BOOLEAN], SkipPcr
  PROVE  InTimeOK' /\ SuppliedOK /\ supplied' = supplied
<1> DEFINE t == sysTsPt[Pcr] + SysPeriod(Pcr)
<1>1. /\ pc = "system" /\ SystemDue(Pcr) /\ ~HasOwnPackets(Pcr) /\ Pcr \in System
      /\ tableLeft' = tableLeft /\ supplied' = supplied
      /\ sysTsPt' = [sysTsPt EXCEPT ![Pcr] = t]
      /\ pc' = "es" /\ UNCHANGED <<stc, full, input>>
  BY Constants DEF SkipPcr, HasOwnPackets, esVars
<1>2. /\ sysTsPt \in [System -> Nat] /\ tableLeft \in [System -> Nat]
  BY DEF InTimeOK, SystemTypesOK
<1>3. sysTsPt[Pcr] <= CurrentStcTs /\ \A r \in System : sysTsPt[Pcr] <= sysTsPt[r]
  BY <1>1, <1>2 DEF SystemDue
<1>4. sysTsPt[Pcr] \in Nat /\ t \in Nat
  <2>1. sysTsPt[Pcr] \in Nat /\ SysPeriod(Pcr) \in Nat BY <1>1, <1>2, PeriodIs
  <2> QED BY <2>1
<1>5. t = sysTsPt[Pcr] + SysPeriod(Pcr) /\ (HasOwnPackets(Pcr) => supplied'[Pcr]) BY <1>1
<1> HIDE DEF t
<1>6. InTimeOK' BY <1>1, <1>2, <1>3, <1>4, <1>5, Serve
\* The PCR comes last of the streams with one time.
<1>7. \A s \in System : HasOwnPackets(s) => sysTsPt[s] # Origin
  <2> SUFFICES ASSUME NEW s \in System, HasOwnPackets(s), sysTsPt[s] = Origin PROVE FALSE OBVIOUS
  <2>1. s # Pcr BY <1>1
  <2>2. Origin \in Nat BY StartNat
  <2>3. sysTsPt[Pcr] = Origin \/ Origin + SysPeriod(Pcr) <= sysTsPt[Pcr]
    BY <1>1 DEF InTimeOK, FirstTurnOK
  <2>4. sysTsPt[Pcr] = sysTsPt[s]
    <3>1. SysPeriod(Pcr) \in Nat /\ sysTsPt[Pcr] <= Origin BY <1>1, <1>3, PeriodIs
    <3> QED BY <1>4, <2>2, <2>3, <3>1
  <2>5. Priority[Pcr] >= Priority[s] BY <1>1, <1>4, <2>4 DEF SystemDue
  <2>6. Priority[Pcr] < Priority[s] BY <2>1, PriorityAssumption
  <2>7. Priority[Pcr] \in Nat /\ Priority[s] \in Nat BY Constants
  <2> QED BY <2>5, <2>6, <2>7
<1>8. SuppliedOK BY <1>7, NoneFirst
<1> QED BY <1>1, <1>6, <1>8

\* Once no stream is due, the slot goes to the others.
LEMMA SlotLeft ==
  ASSUME InTimeOK, input \in Inputs, supplied \in [System -> BOOLEAN], NoSystemDue
  PROVE  InTimeOK' /\ SuppliedOK
<1>1. /\ pc = "system" /\ pc' = "es" /\ \A s \in System : sysTsPt[s] > CurrentStcTs
      /\ UNCHANGED <<stc, full, sysTsPt, tableLeft, supplied, input>>
  BY DEF NoSystemDue, sysVars, esVars
<1>2. /\ stc \in Nat /\ Start <= stc /\ full = {}
      /\ sysTsPt \in [System -> Nat] /\ tableLeft \in [System -> Nat]
  BY DEF InTimeOK, SystemTypesOK
<1>3. CurrentStcTs \in Nat
  <2>1. CurrentStcTs = stc \div ClockScale BY <1>2 DEF CurrentStcTs, MAX
  <2> QED BY <1>2, <2>1, Constants, QuotientReaches
<1>4. \A s \in System : sysTsPt[s] * ClockScale > stc /\ sysTsPt[s] # Origin
  <2> SUFFICES ASSUME NEW s \in System
               PROVE  sysTsPt[s] * ClockScale > stc /\ sysTsPt[s] # Origin
    OBVIOUS
  <2>1. sysTsPt[s] \in Nat /\ ~(sysTsPt[s] <= CurrentStcTs) BY <1>1, <1>2, <1>3
  <2>2. ~(sysTsPt[s] * ClockScale <= stc) BY <1>2, <2>1, DueIs
  <2>3. sysTsPt[s] * ClockScale \in Nat BY <2>1, TicksOK
  <2>4. Start = Origin * ClockScale /\ Start \in Nat BY StartNat
  <2> DEFINE x == sysTsPt[s] * ClockScale
  <2>5. x > stc
    <3> HIDE DEF x
    <3> QED BY <1>2, <2>2, <2>3 DEF x
  <2>6. sysTsPt[s] # Origin BY <1>2, <2>2, <2>4
  <2> QED BY <2>5, <2>6
<1>5. SuppliedOK BY <1>4, NoneFirst
<1>6. Origin' = Origin /\ Start' = Start /\ \A s \in System : HasOwnPackets(s)' = HasOwnPackets(s)
  BY <1>1 DEF Origin, Start, ReferentialStc, StartPcr, InitialStc, HasOwnPackets
<1>7. SystemTypesOK' BY <1>1, <1>2, <1>6 DEF SystemTypesOK
<1>8. FirstTurnOK' BY <1>1, <1>6 DEF InTimeOK, FirstTurnOK, SysPeriod
<1>9. FirstLeft' = {}
  <2>1. {s \in System : sysTsPt'[s] = Origin'} = {} BY <1>1, <1>4, <1>6
  <2> QED BY <2>1 DEF FirstLeft, Packets
<1>10. ASSUME NEW s \in System PROVE ThenInTime(s)'
  <2> DEFINE h == Slots(Cardinality(AheadBy(sysTsPt, s)))
             y == Slots(Cardinality(System))
             x == sysTsPt[s] * ClockScale
  <2>1. Turn' = TpDuration BY <1>1 DEF Turn
  <2>2. ThenInTime(s)' <=> stc + TpDuration + h < x + y
    BY <1>1, <2>1 DEF ThenInTime, Ahead, AheadBy, Release, Slots
  <2>3. h \in Nat /\ h + TpDuration <= y BY <1>2, AheadBound
  <2>4. y \in Nat BY FirstFinite, SlotsOK
  <2>5. x > stc /\ x \in Nat
    <3>1. sysTsPt[s] \in Nat BY <1>2
    <3> QED BY <1>4, <3>1, TicksOK
  <2> HIDE DEF h, x, y
  <2>6. stc + TpDuration + h < x + y BY <1>2, <2>3, <2>4, <2>5, Constants
  <2> QED BY <2>2, <2>6
<1> QED BY <1>5, <1>7, <1>8, <1>9, <1>10 DEF InTimeOK

LEMMA SystemStep == IInv /\ SystemInv /\ [Next]_vars => SystemInv'
<1> SUFFICES ASSUME IInv, SystemInv, [Next]_vars, NothingRefused'
             PROVE  /\ supplied' \in [System -> BOOLEAN]
                    /\ pc' = "es" \/ (\E e \in ES : Begun(e)') => SuppliedOK'
                    /\ Muxing' => InTimeOK'
  BY DEF SystemInv
<1>1. input' = input
  BY DEF Next, Run, NoSystemDue, SkipPcr, SystemBlocked, MuxSystemPacket, NoEsDue, EsBlocked,
         MuxEsPacket, NullPacket, Tick, Pad, Finish, Fail, vars, esVars
<1>2. NothingRefused BY <1>1 DEF NothingRefused
<1>3. /\ input \in Inputs /\ supplied \in [System -> BOOLEAN]
      /\ pc = "es" \/ (\E e \in ES : Begun(e)) => SuppliedOK
      /\ Muxing => InTimeOK
  BY <1>2 DEF IInv, TypesOK, SystemInv
<1>4. InTimeOK => stc \in Nat /\ full = {} BY DEF InTimeOK, SystemTypesOK
<1>5. ASSUME supplied' = supplied PROVE SuppliedOK => SuppliedOK'
  BY <1>1, <1>5 DEF SuppliedOK, HasOwnPackets
<1>6. ASSUME UNCHANGED <<pesLeft, nextPes>> PROVE \A e \in ES : Begun(e)' <=> Begun(e)
  BY <1>1, <1>6 DEF Begun
\* The steps that leave the system streams and what is left of the slot.
<1>7. ASSUME UNCHANGED <<stc, full, sysVars>>,
             Muxing' => Muxing /\ Turn' = Turn,
             pc' = "es" => pc = "es",
             UNCHANGED <<pesLeft, nextPes>> \/ pc = "es"
      PROVE  /\ supplied' \in [System -> BOOLEAN]
             /\ pc' = "es" \/ (\E e \in ES : Begun(e)') => SuppliedOK'
             /\ Muxing' => InTimeOK'
  <2>1. UNCHANGED <<sysTsPt, tableLeft, supplied>> BY <1>7 DEF sysVars
  <2>2. supplied' \in [System -> BOOLEAN] BY <1>3, <2>1
  <2>3. pc' = "es" \/ (\E e \in ES : Begun(e)') => SuppliedOK' BY <1>3, <1>5, <1>6, <1>7, <2>1
  <2>4. ASSUME Muxing' PROVE InTimeOK'
    <3>1. InTimeOK /\ stc' + Turn' = stc + Turn BY <1>3, <1>7, <2>4
    <3>2. stc' \in Nat /\ stc <= stc' /\ full' = {} BY <1>4, <1>7, <3>1
    <3> QED BY <1>1, <1>3, <2>1, <3>1, <3>2, OthersKeep
  <2> QED BY <2>2, <2>3, <2>4
<1>8. CASE NoSystemDue
  <2>1. /\ pc = "system" /\ pc' = "es" /\ supplied' = supplied BY <1>8 DEF NoSystemDue, sysVars
  <2>2. InTimeOK BY <1>3, <2>1 DEF Muxing
  <2>3. InTimeOK' /\ SuppliedOK BY <1>3, <1>8, <2>2, SlotLeft
  <2> QED BY <1>3, <1>5, <2>1, <2>3
<1>9. CASE SkipPcr
  <2>1. pc = "system" BY <1>9 DEF SkipPcr
  <2>2. InTimeOK BY <1>3, <2>1 DEF Muxing
  <2>3. InTimeOK' /\ SuppliedOK /\ supplied' = supplied BY <1>3, <1>9, <2>2, PcrSkipped
  <2> QED BY <1>3, <1>5, <2>3
<1>10. CASE \E s \in System : SystemBlocked(s)
  <2>1. pc = "system" /\ full # {} BY <1>10 DEF SystemBlocked
  <2>2. InTimeOK BY <1>3, <2>1 DEF Muxing
  <2> QED BY <1>4, <2>1, <2>2
<1>11. CASE \E s \in System : MuxSystemPacket(s)
  <2>1. PICK s \in System : MuxSystemPacket(s) BY <1>11
  <2>2. pc = "system" /\ pc' = "tick" /\ UNCHANGED <<pesLeft, nextPes>>
    BY <2>1 DEF MuxSystemPacket, Sent, esVars
  <2>3. InTimeOK BY <1>3, <2>2 DEF Muxing
  <2>4. InTimeOK' /\ supplied' \in [System -> BOOLEAN] /\ \A r \in System : supplied[r] => supplied'[r]
    BY <1>3, <2>1, <2>3, TableServed
  <2>5. SuppliedOK => SuppliedOK' BY <1>1, <2>4 DEF SuppliedOK, HasOwnPackets
  <2>6. (\E e \in ES : Begun(e)') => SuppliedOK' BY <1>3, <1>6, <2>2, <2>5
  <2> QED BY <2>2, <2>4, <2>6
<1>12. CASE NoEsDue
  <2>1. pc = "es" /\ pc' \in {"null", "tick"} /\ UNCHANGED <<stc, full, sysVars, pesLeft, nextPes>>
    BY <1>12 DEF NoEsDue, esVars
  <2>2. Muxing /\ Turn' = Turn BY <2>1 DEF Muxing, Turn
  <2> QED BY <1>7, <2>1, <2>2
<1>13. CASE \E e \in ES : EsBlocked(e)
  <2>1. pc = "es" /\ pc' = pc /\ UNCHANGED <<stc, full, sysVars>> BY <1>13 DEF EsBlocked
  <2>2. Muxing /\ Turn' = Turn BY <2>1 DEF Muxing, Turn
  <2> QED BY <1>7, <2>1, <2>2
<1>14. CASE \E e \in ES : MuxEsPacket(e)
  <2>1. pc = "es" /\ pc' = "tick" /\ UNCHANGED <<stc, full, sysVars>>
    BY <1>14 DEF MuxEsPacket, Sent
  <2>2. Muxing /\ Turn' = Turn BY <2>1 DEF Muxing, Turn
  <2> QED BY <1>7, <2>1, <2>2
<1>15. CASE NullPacket
  <2>1. pc = "null" /\ pc' = "tick" /\ UNCHANGED <<stc, full, sysVars, pesLeft, nextPes>>
    BY <1>15 DEF NullPacket, Sent, esVars
  <2>2. Muxing /\ Turn' = Turn BY <2>1 DEF Muxing, Turn
  <2> QED BY <1>7, <2>1, <2>2
<1>16. CASE Tick
  <2>1. /\ pc = "tick" /\ stc' = stc + TpDuration /\ full' \in Verdicts(stc')
        /\ pc' \in {"system", "pad"}
        /\ UNCHANGED <<sysTsPt, tableLeft, supplied, pesLeft, nextPes>>
    BY <1>16 DEF Tick, sysVars, esVars
  <2>2. (\E e \in ES : Begun(e)') => SuppliedOK' BY <1>3, <1>5, <1>6, <2>1
  <2>3. ASSUME Muxing' PROVE InTimeOK'
    <3>1. InTimeOK /\ stc \in Nat BY <1>3, <1>4, <2>1 DEF Muxing
    <3>2. TpDuration \in Nat BY Constants
    <3>3. pc' = "system" BY <2>1, <2>3 DEF Muxing
    <3>4. Turn = TpDuration /\ Turn' = 0 BY <2>1, <3>3 DEF Turn
    <3>5. stc' \in Nat /\ stc <= stc' /\ stc' + Turn' = stc + Turn BY <2>1, <3>1, <3>2, <3>4
    <3>6. full' = {}
      <4>1. ~(stc' < input.blockedUntil) BY <1>2, <3>5 DEF NothingRefused
      <4> QED BY <2>1, <4>1 DEF Verdicts
    <3> QED BY <1>1, <1>3, <2>1, <3>1, <3>5, <3>6, OthersKeep
  <2> QED BY <1>3, <2>1, <2>2, <2>3
<1>17. CASE Pad \/ Finish \/ Fail
  <2>1. /\ pc' \in {"pad", "done", "failed"} /\ UNCHANGED <<supplied, pesLeft, nextPes>>
    BY <1>17 DEF Pad, Finish, Fail, sysVars, esVars
  <2> QED BY <1>3, <1>5, <1>6, <2>1 DEF Muxing
<1>18. CASE UNCHANGED vars
  <2>1. /\ pc' = pc /\ UNCHANGED <<stc, full, sysVars, pesLeft, nextPes>>
    BY <1>18 DEF vars, sysVars, esVars
  <2>2. (Muxing' <=> Muxing) /\ Turn' = Turn BY <2>1 DEF Muxing, Turn
  <2> QED BY <1>7, <2>1, <2>2
<1> QED BY <1>8, <1>9, <1>10, <1>11, <1>12, <1>13, <1>14, <1>15, <1>16, <1>17, <1>18 DEF Next, Run

LEMMA SystemInvariant == Spec => []SystemInv
<1>1. Init => SystemInv BY SystemInit
<1>2. IInv /\ SystemInv /\ [Next]_vars => SystemInv' BY SystemStep
<1> QED BY <1>1, <1>2, Invariant, PTL DEF Spec

(* Where the buffering model refuses nothing, no packet of an elementary    *)
(* stream is in the output before every system table was sent once in full, *)
(* however the tables are spread over their first packets.                  *)
THEOREM TablesComeFirst == Spec => []TablesFirst
<1>1. SystemInv => TablesFirst BY DEF SystemInv, TablesFirst, SuppliedOK
<1> QED BY <1>1, SystemInvariant, PTL

(* A system table is late by at most one slot for each system stream: the   *)
(* heap of muxNextSystemStreamPacket() starves none of them.                *)
THEOREM TablesInTime == Spec => []SystemInTime
<1>1. IInv /\ SystemInv => SystemInTime
  <2> SUFFICES ASSUME IInv, SystemInv, NothingRefused, Muxing, NEW s \in System, supplied[s]
               PROVE  stc <= sysTsPt[s] * ClockScale + Cardinality(System) * TpDuration
    BY DEF SystemInTime, Muxing
  <2>1. InTimeOK /\ input \in Inputs BY DEF SystemInv, IInv, TypesOK
  <2>2. stc \in Nat /\ sysTsPt \in [System -> Nat] BY <2>1 DEF InTimeOK, SystemTypesOK
  <2>3. Turn \in Nat BY Constants DEF Turn
  <2> DEFINE x == sysTsPt[s] * ClockScale
             y == Slots(Cardinality(System))
             f == Slots(Cardinality(FirstPackets))
  <2>4. x \in Nat
    <3>1. sysTsPt[s] \in Nat BY <2>2
    <3> QED BY <3>1, TicksOK
  <2>5. y \in Nat /\ f \in Nat BY FirstFinite, SlotsOK
  <2>6. CASE FirstLeft = {}
    <3> DEFINE h == Slots(Cardinality(AheadBy(sysTsPt, s)))
    <3>1. stc + Turn + h < x + y BY <2>1, <2>6 DEF InTimeOK, ThenInTime, Ahead, Release
    <3>2. h \in Nat BY <2>2, AheadBound
    <3> HIDE DEF h, x, y
    <3>3. stc <= x + y BY <2>2, <2>3, <2>4, <2>5, <3>1, <3>2
    <3> QED BY <3>3 DEF x, y, Slots
  <2>7. CASE FirstLeft # {}
    <3> DEFINE l == Slots(Cardinality(FirstLeft))
               p == SysPeriod(s) * ClockScale
    <3>1. stc + Turn + l <= Start + f BY <2>1, <2>7 DEF InTimeOK, FirstInTime
    <3>2. l \in Nat
      <4>1. IsFiniteSet(FirstLeft)
        <5>1. {r \in System : sysTsPt[r] = Origin} \in SUBSET System OBVIOUS
        <5>2. tableLeft \in [System -> Nat] BY <2>1 DEF InTimeOK, SystemTypesOK
        <5> QED BY <5>1, <5>2, PacketsFinite DEF FirstLeft
      <4> QED BY <4>1, FS_CardinalityType, SlotsOK
    <3>3. f < p /\ SysPeriod(s) \in Nat BY PeriodIs
    <3>4. Start + p <= x /\ p \in Nat /\ Start \in Nat
      <4>1. Origin + SysPeriod(s) <= sysTsPt[s] BY <2>1 DEF InTimeOK, FirstTurnOK
      <4>2. Origin \in Nat /\ Start = Origin * ClockScale /\ Start \in Nat BY <2>1, StartNat
      <4>3. Origin + SysPeriod(s) \in Nat /\ sysTsPt[s] \in Nat BY <2>2, <3>3, <4>2
      <4> DEFINE o == Origin + SysPeriod(s)
      <4>4. o * ClockScale <= x BY <4>1, <4>3, TicksOK
      <4>5. o * ClockScale = Start + p /\ p \in Nat BY <3>3, <4>2, TicksOK
      <4> QED BY <4>2, <4>4, <4>5
    <3> HIDE DEF f, l, p, x, y
    <3>5. stc <= x + y BY <2>2, <2>3, <2>4, <2>5, <3>1, <3>2, <3>3, <3>4
    <3> QED BY <3>5 DEF x, y, Slots
  <2> QED BY <2>6, <2>7
<1> QED BY <1>1, Invariant, SystemInvariant, PTL
=============================================================================
