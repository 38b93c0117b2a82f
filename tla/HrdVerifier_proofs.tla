-------------------------- MODULE HrdVerifier_proofs --------------------------
(***************************************************************************)
(* What holds of the verifier of H.264 streams for every bit rate, buffer  *)
(* size, limit and access unit: a stream that it accepts overflows an      *)
(* ideal coded picture buffer at no instant, and the decoded picture       *)
(* buffer holds the pictures whose output is to come.                      *)
(*                                                                         *)
(* The verifier compares with the size of the buffer only at the removals  *)
(* during the arrival of the access unit in hand, and at its end.  Checked *)
(* is why that is enough: an instant of the arrival is either proved good, *)
(* or all that was decoded so far left before it, so that no more than the *)
(* access units still in the CPB can be in the ideal one.  The first       *)
(* removal that is not before it, or the end, then proves it good.         *)
(* Removal times need not increase for that.                               *)
(***************************************************************************)
EXTENDS HrdVerifier, WellFoundedInduction, TLAPS

Period == [delay : Nat, offset : Nat]
Timed == [au : AccessUnits, arrival : Nat, final : Nat, removal : Nat]
Cell == [AUIdx : Nat, au : AccessUnits, removalTime : Nat]

\* The CPB has the last of the access units that arrived.
CpbMatches ==
  /\ Len(cpb) <= Len(arrived)
  /\ \A k \in 1..Len(cpb) :
       cpb[k] = [AUIdx |-> NbDecoded + k - 1, au |-> arrived[NbDecoded + k].au,
                 removalTime |-> arrived[NbDecoded + k].removal]

PeriodKnown == Running /\ (~First \/ pc = "remove") => period \in Period

\* What was decoded left before that time.
DecodedBefore(time) == \A k \in 1..NbDecoded : arrived[k].removal < time

BetweenUnits ==
  pc = "next" => \A k \in 1..NbDecoded : arrived[k].removal <= clockTime

InHand ==
  pc = "remove" =>
    /\ current \in Timed
    /\ current.arrival <= current.final /\ current.final <= current.removal
    /\ clockTime <= current.final /\ Len(arrived) < MaxAUs
    /\ \A k \in 1..NbDecoded : arrived[k].removal <= current.final

Checked ==
  pc = "remove" =>
    \A time \in 0..current.final :
      \/ Fullness(time) + BitsAt(current, time) <= CpbSize
      \/ DecodedBefore(time)

IInv == /\ TypeOK /\ CpbMatches /\ PeriodKnown /\ OccupancyExact
        /\ BetweenUnits /\ InHand /\ Checked /\ CpbSound /\ DpbExact

-----------------------------------------------------------------------------
(* Sums.                                                                    *)

\* A non-empty set of naturals has a least element.
LEMMA Smallest ==
  ASSUME NEW S \in SUBSET Nat, S # {}
  PROVE  \E n \in S : \A m \in S : n <= m
<1> DEFINE R == OpToRel(<, Nat)
<1>1. IsWellFoundedOn(R, Nat) BY NatLessThanWellFounded
<1>2. PICK x \in S : \A y \in S : ~(<<y, x>> \in R)
  <2> HIDE DEF R
  <2> QED BY <1>1, WFMin
<1>3. \A y \in S : ~(y < x) BY <1>2 DEF OpToRel
<1> QED BY <1>3

\* Induction on the membership in a set.
LEMMA Induct ==
  ASSUME NEW S, 0 \in S, \A n \in Nat : n \in S => n + 1 \in S
  PROVE  \A n \in Nat : n \in S
<1> DEFINE Rest == {n \in Nat : n \notin S}
<1> SUFFICES ASSUME Rest # {} PROVE FALSE OBVIOUS
<1> HIDE DEF Rest
<1>1. PICK m \in Rest : \A n \in Rest : m <= n
  <2>1. Rest \in SUBSET Nat BY DEF Rest
  <2> QED BY <2>1, Smallest
<1>2. m \in Nat /\ m \notin S /\ m # 0 BY <1>1 DEF Rest
<1>3. m - 1 \in Nat /\ m = (m - 1) + 1 BY <1>2
<1>4. m - 1 \notin S BY <1>2, <1>3
<1>5. m - 1 \in Rest BY <1>3, <1>4 DEF Rest
<1> QED BY <1>1, <1>2, <1>3, <1>5

\* What SumOf computes, element after element.
LEMMA SumSteps ==
  ASSUME NEW s, Len(s) \in Nat
  PROVE  /\ SumOf(s, 0) = 0
         /\ \A n \in 1..Len(s) : SumOf(s, n) = SumOf(s, n - 1) + s[n]
<1> DEFINE Right(n, g) == g = [k \in 0..n |-> IF k = 0 THEN 0 ELSE g[k - 1] + s[k]]
           S == {n \in Nat : \E g : Right(n, g)}
<1>1. \A n \in Nat : n \in S
  <2>1. 0 \in S
    <3>1. Right(0, [k \in 0..0 |-> 0]) OBVIOUS
    <3> QED BY <3>1
  <2>2. ASSUME NEW n \in Nat, n \in S PROVE n + 1 \in S
    <3>1. PICK g : Right(n, g) BY <2>2
    <3> DEFINE e == [k \in 0..(n + 1) |-> IF k = n + 1 THEN g[n] + s[n + 1] ELSE g[k]]
    <3>2. ASSUME NEW k \in 0..(n + 1) PROVE e[k] = IF k = 0 THEN 0 ELSE e[k - 1] + s[k]
      <4>1. CASE k = n + 1
        <5>1. n \in 0..(n + 1) /\ n # n + 1 /\ k # 0 /\ k - 1 = n BY <4>1
        <5>2. e[n] = g[n] BY <5>1
        <5>3. e[k] = g[n] + s[n + 1] BY <4>1
        <5> QED BY <4>1, <5>1, <5>2, <5>3
      <4>2. CASE k = 0
        <5>1. 0 \in 0..n /\ 0 # n + 1 OBVIOUS
        <5>2. g[0] = 0 BY <3>1, <5>1
        <5> QED BY <4>2, <5>1, <5>2
      <4>3. CASE k # 0 /\ k # n + 1
        <5>1. k \in 0..n /\ k - 1 \in 0..(n + 1) /\ k - 1 # n + 1 BY <4>3
        <5>2. g[k] = g[k - 1] + s[k] BY <3>1, <4>3, <5>1
        <5>3. e[k] = g[k] /\ e[k - 1] = g[k - 1] BY <4>3, <5>1
        <5> QED BY <4>3, <5>2, <5>3
      <4> QED BY <4>1, <4>2, <4>3
    <3>3. e = [k \in 0..(n + 1) |-> e[k]] OBVIOUS
    <3> HIDE DEF e
    <3>4. Right(n + 1, e) BY <3>2, <3>3
    <3> QED BY <3>4
  <2> HIDE DEF S
  <2> QED BY <2>1, <2>2, Induct
<1> DEFINE sum == CHOOSE g : Right(Len(s), g)
<1>2. Right(Len(s), sum)
  <2>1. \E g : Right(Len(s), g) BY <1>1
  <2> HIDE DEF Right
  <2> QED BY <2>1
<1>3. \A n : SumOf(s, n) = sum[n] BY DEF SumOf
<1> HIDE DEF sum
<1>4. sum[0] = 0
  <2>1. 0 \in 0..Len(s) OBVIOUS
  <2> QED BY <1>2, <2>1
<1>5. ASSUME NEW n \in 1..Len(s) PROVE sum[n] = sum[n - 1] + s[n]
  <2>1. n \in 0..Len(s) /\ n # 0 OBVIOUS
  <2> QED BY <1>2, <2>1
<1> QED BY <1>3, <1>4, <1>5

\* A sum of naturals is one.
LEMMA SumNat ==
  ASSUME NEW s \in Seq(Nat)
  PROVE  \A n \in 0..Len(s) : SumOf(s, n) \in Nat
<1> DEFINE S == {n \in Nat : n <= Len(s) => SumOf(s, n) \in Nat}
<1>1. 0 \in S BY SumSteps
<1>2. ASSUME NEW n \in Nat, n \in S PROVE n + 1 \in S
  <2> SUFFICES ASSUME n + 1 <= Len(s) PROVE SumOf(s, n + 1) \in Nat OBVIOUS
  <2>1. n + 1 \in 1..Len(s) /\ (n + 1) - 1 = n OBVIOUS
  <2>2. SumOf(s, n + 1) = SumOf(s, n) + s[n + 1] BY <2>1, SumSteps
  <2>3. SumOf(s, n) \in Nat BY <1>2
  <2>4. s[n + 1] \in Nat BY <2>1
  <2> QED BY <2>2, <2>3, <2>4
<1> HIDE DEF S
<1>3. \A n \in Nat : n \in S BY <1>1, <1>2, Induct
<1> QED BY <1>3 DEF S

\* Sums of sequences that agree as far as the sum goes.
LEMMA SumPrefix ==
  ASSUME NEW s \in Seq(Nat), NEW t \in Seq(Nat), NEW m \in Nat,
         m <= Len(s), m <= Len(t), \A k \in 1..m : s[k] = t[k]
  PROVE  SumOf(s, m) = SumOf(t, m)
<1> DEFINE S == {n \in Nat : n <= m => SumOf(s, n) = SumOf(t, n)}
<1>1. 0 \in S BY SumSteps
<1>2. ASSUME NEW n \in Nat, n \in S PROVE n + 1 \in S
  <2> SUFFICES ASSUME n + 1 <= m PROVE SumOf(s, n + 1) = SumOf(t, n + 1) OBVIOUS
  <2>1. n + 1 \in 1..Len(s) /\ n + 1 \in 1..Len(t) /\ n + 1 \in 1..m /\ (n + 1) - 1 = n OBVIOUS
  <2>2. SumOf(s, n + 1) = SumOf(s, n) + s[n + 1] /\ SumOf(t, n + 1) = SumOf(t, n) + t[n + 1]
    <3>1. Len(s) \in Nat /\ Len(t) \in Nat /\ n + 1 \in 1..Len(s) /\ n + 1 \in 1..Len(t) BY <2>1
    <3>2. SumOf(s, n + 1) = SumOf(s, (n + 1) - 1) + s[n + 1] BY <3>1, SumSteps
    <3>3. SumOf(t, n + 1) = SumOf(t, (n + 1) - 1) + t[n + 1] BY <3>1, SumSteps
    <3> QED BY <2>1, <3>2, <3>3
  <2>3. SumOf(s, n) = SumOf(t, n) /\ s[n + 1] = t[n + 1] BY <1>2, <2>1
  <2> QED BY <2>2, <2>3
<1> HIDE DEF S
<1>3. \A n \in Nat : n \in S BY <1>1, <1>2, Induct
<1> QED BY <1>3 DEF S

\* One element more.
LEMMA SumAppended ==
  ASSUME NEW N \in Nat, NEW s \in Seq(Nat), NEW t \in Seq(Nat),
         Len(s) = N, Len(t) = N + 1, \A k \in 1..N : s[k] = t[k]
  PROVE  SumOf(t, N + 1) = SumOf(s, N) + t[N + 1]
<1>1. N <= Len(s) /\ N <= Len(t) /\ N + 1 \in 1..Len(t) /\ (N + 1) - 1 = N OBVIOUS
<1>2. SumOf(s, N) = SumOf(t, N) BY <1>1, SumPrefix
<1>3. SumOf(t, N + 1) = SumOf(t, N) + t[N + 1] BY <1>1, SumSteps
<1> QED BY <1>2, <1>3

\* Elements that are no larger, sums that are no larger.
LEMMA SumBelow ==
  ASSUME NEW N \in Nat, NEW s \in Seq(Nat), NEW t \in Seq(Nat),
         Len(s) = N, Len(t) = N, \A k \in 1..N : s[k] <= t[k]
  PROVE  SumOf(s, N) <= SumOf(t, N)
<1> DEFINE S == {n \in Nat : n <= N => SumOf(s, n) <= SumOf(t, n)}
<1>1. 0 \in S
  <2>1. SumOf(s, 0) = 0 /\ SumOf(t, 0) = 0 BY SumSteps
  <2> QED BY <2>1
<1>2. ASSUME NEW n \in Nat, n \in S PROVE n + 1 \in S
  <2> SUFFICES ASSUME n + 1 <= N PROVE SumOf(s, n + 1) <= SumOf(t, n + 1) OBVIOUS
  <2>1. n + 1 \in 1..N /\ (n + 1) - 1 = n OBVIOUS
  <2>2. SumOf(s, n + 1) = SumOf(s, n) + s[n + 1] /\ SumOf(t, n + 1) = SumOf(t, n) + t[n + 1]
    <3>1. Len(s) \in Nat /\ Len(t) \in Nat /\ n + 1 \in 1..Len(s) /\ n + 1 \in 1..Len(t) BY <2>1
    <3>2. SumOf(s, n + 1) = SumOf(s, (n + 1) - 1) + s[n + 1] BY <3>1, SumSteps
    <3>3. SumOf(t, n + 1) = SumOf(t, (n + 1) - 1) + t[n + 1] BY <3>1, SumSteps
    <3> QED BY <2>1, <3>2, <3>3
  <2>3. SumOf(s, n) \in Nat /\ SumOf(t, n) \in Nat BY SumNat
  <2>4. s[n + 1] \in Nat /\ t[n + 1] \in Nat /\ s[n + 1] <= t[n + 1] BY <2>1
  <2>5. SumOf(s, n) <= SumOf(t, n) BY <1>2
  <2> QED BY <2>2, <2>3, <2>4, <2>5
<1> HIDE DEF S
<1>3. \A n \in Nat : n \in S BY <1>1, <1>2, Induct
<1> QED BY <1>3 DEF S

\* One element less.
LEMMA SumWithout ==
  ASSUME NEW N \in Nat, NEW s \in Seq(Nat), NEW t \in Seq(Nat), NEW d \in 1..N,
         Len(s) = N, Len(t) = N, t[d] = 0, \A k \in 1..N \ {d} : s[k] = t[k]
  PROVE  SumOf(s, N) = SumOf(t, N) + s[d]
<1> DEFINE S == {n \in Nat : d <= n /\ n <= N => SumOf(s, n) = SumOf(t, n) + s[d]}
<1>1. 0 \in S OBVIOUS
<1>2. ASSUME NEW n \in Nat, n \in S PROVE n + 1 \in S
  <2> SUFFICES ASSUME d <= n + 1, n + 1 <= N
               PROVE  SumOf(s, n + 1) = SumOf(t, n + 1) + s[d] OBVIOUS
  <2>1. n + 1 \in 1..N /\ (n + 1) - 1 = n OBVIOUS
  <2>2. SumOf(s, n + 1) = SumOf(s, n) + s[n + 1] /\ SumOf(t, n + 1) = SumOf(t, n) + t[n + 1]
    <3>1. Len(s) \in Nat /\ Len(t) \in Nat /\ n + 1 \in 1..Len(s) /\ n + 1 \in 1..Len(t) BY <2>1
    <3>2. SumOf(s, n + 1) = SumOf(s, (n + 1) - 1) + s[n + 1] BY <3>1, SumSteps
    <3>3. SumOf(t, n + 1) = SumOf(t, (n + 1) - 1) + t[n + 1] BY <3>1, SumSteps
    <3> QED BY <2>1, <3>2, <3>3
  <2>3. SumOf(s, n) \in Nat /\ SumOf(t, n) \in Nat BY SumNat
  <2>4. s[d] \in Nat /\ s[n + 1] \in Nat BY <2>1
  <2>5. CASE d = n + 1
    <3>1. \A k \in 1..n : s[k] = t[k] BY <2>5
    <3>2. n <= Len(s) /\ n <= Len(t) OBVIOUS
    <3>3. SumOf(s, n) = SumOf(t, n) BY <3>1, <3>2, SumPrefix
    <3> QED BY <2>2, <2>3, <2>4, <2>5, <3>3
  <2>6. CASE d # n + 1
    <3>1. d <= n /\ n + 1 \in 1..N \ {d} BY <2>1, <2>6
    <3>2. SumOf(s, n) = SumOf(t, n) + s[d] /\ s[n + 1] = t[n + 1] BY <1>2, <3>1
    <3> DEFINE a == SumOf(t, n)
               b == s[d]
               c == s[n + 1]
    <3>3. a \in Nat /\ b \in Nat /\ c \in Nat BY <2>3, <2>4
    <3>4. SumOf(s, n + 1) = (a + b) + c /\ SumOf(t, n + 1) = a + c BY <2>2, <3>2
    <3> HIDE DEF a, b, c
    <3>5. SumOf(s, n + 1) = SumOf(t, n + 1) + b BY <3>3, <3>4
    <3> QED BY <3>5 DEF b
  <2> QED BY <2>5, <2>6
<1> HIDE DEF S
<1>3. \A n \in Nat : n \in S BY <1>1, <1>2, Induct
<1> QED BY <1>3 DEF S

-----------------------------------------------------------------------------
(* Constants and times.                                                     *)

LEMMA ConstantsOK ==
  /\ Tick90 \in Nat \ {0} /\ ClockTick \in Nat \ {0} /\ Bitrate \in Nat \ {0}
  /\ CpbSize \in Nat \ {0} /\ MaxAUInCpb \in Nat \ {0} /\ MaxAUs \in Nat
BY HrdAssumption

LEMMA AuFacts ==
  ASSUME NEW au \in AccessUnits
  PROVE  /\ au.length \in Nat /\ au.cpbRemovalDelay \in Nat /\ au.dpbOutputDelay \in Nat
         /\ au.period # NoPeriod => au.period \in Period
BY HrdAssumption DEF Period

LEMMA ProductNat == \A a, b : a \in Nat /\ b \in Nat => a * b \in Nat
OBVIOUS

LEMMA QuotientNat == \A a, b : a \in Nat /\ b \in Nat \ {0} => a \div b \in Nat
OBVIOUS

\* The times of an access unit: its arrival starts where the one before ended
\* or later.
LEMMA TimesOK ==
  ASSUME TypeOK, PeriodKnown, pc = "next",
         NEW au \in AccessUnits, First => au.period # NoPeriod
  PROVE  /\ PeriodOf(au) \in Period
         /\ RemovalTime(au) \in Nat /\ ArrivalTime(au) \in Nat /\ FinalTime(au) \in Nat
         /\ clockTime <= ArrivalTime(au) /\ ArrivalTime(au) <= FinalTime(au)
<1>1. PeriodOf(au) \in Period BY AuFacts DEF PeriodOf, PeriodKnown, Running
<1>2. PeriodOf(au).delay \in Nat /\ PeriodOf(au).offset \in Nat BY <1>1 DEF Period
<1>3. RemovalTime(au) \in Nat
  <2>1. nominalRemovalTimeFirstAU \in Nat BY DEF TypeOK
  <2>2. PeriodOf(au).delay * Tick90 \in Nat BY <1>2, ConstantsOK, ProductNat
  <2>3. ClockTick * au.cpbRemovalDelay \in Nat BY AuFacts, ConstantsOK, ProductNat
  <2> QED BY <2>1, <2>2, <2>3 DEF RemovalTime
<1>4. ArrivalTime(au) \in Nat /\ clockTime <= ArrivalTime(au)
  <2> DEFINE n == PeriodOf(au).delay + IF au.period = NoPeriod THEN PeriodOf(au).offset ELSE 0
  <2>1. n \in Nat BY <1>2
  <2>2. ArrivalTime(au) = IF cbr THEN clockTime ELSE MAX(clockTime, RemovalTime(au) - Tick90 * n)
    BY DEF ArrivalTime
  <2>3. Tick90 * n \in Nat BY <2>1, ConstantsOK, ProductNat
  <2>4. clockTime \in Nat BY DEF TypeOK
  <2> HIDE DEF n
  <2> DEFINE ahead == Tick90 * n
  <2>5. ahead \in Nat BY <2>3
  <2> HIDE DEF ahead
  <2>6. ArrivalTime(au) = IF cbr THEN clockTime ELSE MAX(clockTime, RemovalTime(au) - ahead)
    BY <2>2 DEF ahead
  <2> QED BY <1>3, <2>4, <2>5, <2>6 DEF MAX
<1>5. au.length \div Bitrate \in Nat BY AuFacts, ConstantsOK, QuotientNat
<1>6. FinalTime(au) \in Nat /\ ArrivalTime(au) <= FinalTime(au) BY <1>4, <1>5 DEF FinalTime
<1> QED BY <1>1, <1>3, <1>4, <1>6

\* Bits in the buffer of an access unit that no removal touches.
LEMMA BitsFacts ==
  ASSUME NEW a \in Timed, NEW time \in Nat
  PROVE  /\ BitsAt(a, time) \in Nat /\ BitsAt(a, time) <= a.au.length
         /\ time <= a.arrival => BitsAt(a, time) = 0
         /\ a.arrival < time => BitsAt(a, time) <= Bitrate * (time - a.arrival)
<1>1. a.arrival \in Nat /\ a.au \in AccessUnits BY DEF Timed
<1>2. a.au.length \in Nat BY <1>1, AuFacts
<1>3. CASE time <= a.arrival BY <1>1, <1>2, <1>3 DEF BitsAt
<1>4. CASE a.arrival < time
  <2> DEFINE bits == Bitrate * (time - a.arrival)
  <2>1. time - a.arrival \in Nat BY <1>1, <1>4
  <2>2. bits \in Nat BY <2>1, ConstantsOK, ProductNat
  <2>3. BitsAt(a, time) = IF a.au.length <= bits THEN a.au.length ELSE bits
    BY <1>1, <1>4 DEF BitsAt
  <2>4. ~(time <= a.arrival) BY <1>1, <1>4
  <2> HIDE DEF bits
  <2>5. BitsAt(a, time) \in Nat /\ BitsAt(a, time) <= a.au.length /\ BitsAt(a, time) <= bits
    BY <1>2, <2>2, <2>3
  <2> QED BY <2>4, <2>5 DEF bits
<1> QED BY <1>1, <1>3, <1>4

\* More bits of it are there later.
LEMMA BitsGrow ==
  ASSUME NEW a \in Timed, NEW time \in Nat, NEW later \in Nat, time <= later, a.arrival < later
  PROVE  BitsAt(a, time) <= Bitrate * (later - a.arrival)
<1>1. a.arrival \in Nat BY DEF Timed
<1>2. later - a.arrival \in Nat BY <1>1
<1>3. Bitrate * (later - a.arrival) \in Nat BY <1>2, ConstantsOK, ProductNat
<1>4. CASE time <= a.arrival BY <1>3, <1>4, BitsFacts
<1>5. CASE a.arrival < time
  <2> DEFINE x == time - a.arrival
             y == later - a.arrival
  <2>1. x \in Nat /\ y \in Nat /\ x <= y BY <1>1, <1>5
  <2> HIDE DEF x, y
  <2>2. Bitrate * x \in Nat /\ Bitrate * y \in Nat /\ Bitrate * x <= Bitrate * y
    BY <2>1, ConstantsOK, SMTT(20)
  <2>3. BitsAt(a, time) <= Bitrate * x /\ BitsAt(a, time) \in Nat BY <1>5, BitsFacts DEF x
  <2>4. BitsAt(a, time) <= Bitrate * y BY <2>2, <2>3
  <2> QED BY <2>4 DEF y
<1> QED BY <1>1, <1>4, <1>5

\* The summands of the two fullnesses are naturals.
LEMMA Summands ==
  ASSUME arrived \in Seq(Timed)
  PROVE  /\ Waiting \in Seq(Nat) /\ Len(Waiting) = Len(arrived)
         /\ \A time \in Nat : Held(time) \in Seq(Nat) /\ Len(Held(time)) = Len(arrived)
         /\ SumOf(Waiting, Len(arrived)) \in Nat
         /\ \A time \in Nat : Fullness(time) \in Nat
<1>1. ASSUME NEW k \in 1..Len(arrived) PROVE arrived[k] \in Timed /\ arrived[k].au.length \in Nat
  <2>1. arrived[k] \in Timed OBVIOUS
  <2>2. arrived[k].au \in AccessUnits BY <2>1 DEF Timed
  <2> QED BY <2>1, <2>2, AuFacts
<1>2. Waiting \in Seq(Nat) /\ Len(Waiting) = Len(arrived) BY <1>1 DEF Waiting
<1>3. ASSUME NEW time \in Nat PROVE Held(time) \in Seq(Nat) /\ Len(Held(time)) = Len(arrived)
  <2>1. \A k \in 1..Len(arrived) : BitsAt(arrived[k], time) \in Nat BY <1>1, BitsFacts
  <2> QED BY <2>1 DEF Held
<1>4. SumOf(Waiting, Len(arrived)) \in Nat
  <2>1. Len(arrived) \in 0..Len(Waiting) BY <1>2
  <2> QED BY <1>2, <2>1, SumNat
<1>5. ASSUME NEW time \in Nat PROVE Fullness(time) \in Nat
  <2>1. Len(arrived) \in 0..Len(Held(time)) BY <1>3
  <2>2. SumOf(Held(time), Len(arrived)) \in Nat BY <1>3, <2>1, SumNat
  <2> QED BY <2>2 DEF Fullness
<1> QED BY <1>2, <1>3, <1>4, <1>5

\* Where nothing decoded is still there, the ideal buffer has no more than the
\* verifier's.
LEMMA HeldIsWaiting ==
  ASSUME arrived \in Seq(Timed), cpb \in Seq(Cell), NEW time \in Nat, DecodedBefore(time)
  PROVE  Fullness(time) <= SumOf(Waiting, Len(arrived))
<1> DEFINE h == Held(time)
           N == Len(arrived)
<1>1. /\ h \in Seq(Nat) /\ Waiting \in Seq(Nat) /\ Len(h) = N /\ Len(Waiting) = N
      /\ N \in Nat /\ NbDecoded \in Int
  BY Summands DEF NbDecoded
<1>2. ASSUME NEW k \in 1..N PROVE h[k] <= Waiting[k]
  <2>1. /\ h[k] = IF arrived[k].removal < time THEN 0 ELSE BitsAt(arrived[k], time)
        /\ Waiting[k] = IF k <= NbDecoded THEN 0 ELSE arrived[k].au.length
    BY DEF Held, Waiting
  <2>2. arrived[k] \in Timed OBVIOUS
  <2>3. BitsAt(arrived[k], time) \in Nat /\ BitsAt(arrived[k], time) <= arrived[k].au.length
    BY <2>2, BitsFacts
  <2>4. arrived[k].au \in AccessUnits /\ arrived[k].removal \in Nat BY <2>2 DEF Timed
  <2>5. arrived[k].au.length \in Nat BY <2>4, AuFacts
  <2>6. k <= NbDecoded => arrived[k].removal < time BY <1>1 DEF DecodedBefore
  <2> QED BY <1>1, <2>1, <2>3, <2>5, <2>6
<1> HIDE DEF h, N
<1>3. SumOf(h, N) <= SumOf(Waiting, N) BY <1>1, <1>2, SumBelow
<1> QED BY <1>3 DEF Fullness, h, N

-----------------------------------------------------------------------------
(* The loop over the DPB.                                                   *)

Output == [AUIdx : Nat, outputTime : Nat]
Later(S, time) == {picture \in S : time < picture.outputTime}

\* The loop after some turns: those before its place stay, those from it on are
\* the ones it has still to look at, and no picture to come is lost or moved
\* before another.
InLoop(d, s, n, time) ==
  /\ d.pics \in Seq(Output) /\ d.i \in Nat \ {0} /\ d.i + Len(s) = Len(d.pics) + 1 + n
  /\ \A k \in 1..Len(d.pics) : k < d.i => time < d.pics[k].outputTime
  /\ Later(InDpb(d.pics), time) = Later(InDpb(s), time)
  /\ InDecodingOrder(s) => InDecodingOrder(d.pics)

\* A picture that leaves, leaves the others in their order.
LEMMA Popped ==
  ASSUME NEW pics \in Seq(Output), NEW i \in 1..Len(pics), NEW r, r = PopDecodedPicture(pics, i)
  PROVE  /\ r \in Seq(Output) /\ Len(r) = Len(pics) - 1
         /\ \A k \in 1..Len(r) : r[k] = pics[IF k < i THEN k ELSE k + 1]
         /\ InDpb(pics) = InDpb(r) \cup {pics[i]}
         /\ InDecodingOrder(pics) => InDecodingOrder(r)
<1> DEFINE from(k) == IF k < i THEN k ELSE k + 1
<1>1. Len(pics) \in Nat /\ Len(pics) - 1 \in Nat /\ i \in Nat OBVIOUS
<1>2. r = [k \in 1..(Len(pics) - 1) |-> pics[from(k)]] BY DEF PopDecodedPicture
<1>3. \A k \in 1..(Len(pics) - 1) : from(k) \in 1..Len(pics) BY <1>1
<1>4. \A k \in 1..(Len(pics) - 1) : pics[from(k)] \in Output BY <1>3
<1>5. \A j, k \in 1..(Len(pics) - 1) : j < k => from(j) < from(k) BY <1>1
<1>6. \A k \in 1..Len(pics) : k # i => \E j \in 1..(Len(pics) - 1) : from(j) = k
  <2> SUFFICES ASSUME NEW k \in 1..Len(pics), k # i
               PROVE  \E j \in 1..(Len(pics) - 1) : from(j) = k OBVIOUS
  <2>1. CASE k < i
    <3>1. k \in 1..(Len(pics) - 1) BY <1>1, <2>1
    <3> QED BY <2>1, <3>1
  <2>2. CASE i < k
    <3>1. k - 1 \in 1..(Len(pics) - 1) /\ ~(k - 1 < i) /\ (k - 1) + 1 = k BY <1>1, <2>2
    <3> QED BY <3>1
  <2> QED BY <1>1, <2>1, <2>2
<1> HIDE DEF from
<1>7. r \in Seq(Output) /\ Len(r) = Len(pics) - 1 BY <1>1, <1>2, <1>4
<1>8. \A k \in 1..Len(r) : r[k] = pics[from(k)] BY <1>2, <1>7
<1>9. InDpb(pics) = InDpb(r) \cup {pics[i]}
  <2>1. ASSUME NEW k \in 1..Len(r) PROVE r[k] \in InDpb(pics) BY <1>3, <1>7, <1>8 DEF InDpb
  <2>2. ASSUME NEW k \in 1..Len(pics), k # i PROVE pics[k] \in InDpb(r)
    <3>1. PICK j \in 1..Len(r) : from(j) = k BY <1>6, <1>7, <2>2
    <3> QED BY <1>8, <3>1 DEF InDpb
  <2> QED BY <2>1, <2>2, Zenon DEF InDpb
<1>10. ASSUME InDecodingOrder(pics) PROVE InDecodingOrder(r)
  <2> SUFFICES ASSUME NEW j \in 1..Len(r), NEW k \in 1..Len(r), j < k
               PROVE  r[j].AUIdx < r[k].AUIdx BY DEF InDecodingOrder
  <2>1. from(j) \in 1..Len(pics) /\ from(k) \in 1..Len(pics) /\ from(j) < from(k)
    BY <1>3, <1>5, <1>7
  <2> QED BY <1>8, <1>10, <2>1 DEF InDecodingOrder
<1> QED BY <1>7, <1>8, <1>9, <1>10 DEF from

\* A turn looks at one picture more.
LEMMA TurnInLoop ==
  ASSUME NEW s \in Seq(Output), NEW time \in Nat, NEW n \in Nat, n < Len(s),
         NEW d, InLoop(d, s, n, time)
  PROVE  InLoop(Turn(d, time), s, n + 1, time)
<1> DEFINE pics == d.pics
           i == d.i
<1>1. /\ pics \in Seq(Output) /\ i \in Nat \ {0} /\ i + Len(s) = Len(pics) + 1 + n
      /\ \A k \in 1..Len(pics) : k < i => time < pics[k].outputTime
      /\ Later(InDpb(pics), time) = Later(InDpb(s), time)
      /\ InDecodingOrder(s) => InDecodingOrder(pics)
  BY DEF InLoop
<1> HIDE DEF pics, i
<1>2. Len(s) \in Nat /\ Len(pics) \in Nat BY <1>1
<1> DEFINE all == Len(s)
           left == Len(pics)
<1> HIDE DEF all, left
<1>0. /\ all \in Nat /\ left \in Nat /\ i \in Nat \ {0} /\ n < all
      /\ i + all = left + 1 + n
  BY <1>1, <1>2 DEF all, left
<1>3. i \in 1..Len(pics)
  <2>1. i \in 1..left BY <1>0
  <2> QED BY <2>1 DEF left
<1>4. pics[i] \in Output BY <1>1, <1>3
<1>5. pics[i].outputTime \in Nat BY <1>4 DEF Output
<1>6. Turn(d, time) = IF pics[i].outputTime <= time
                        THEN [i |-> i, pics |-> PopDecodedPicture(pics, i)]
                        ELSE [i |-> i + 1, pics |-> pics]
  <2>1. i <= Len(pics) BY <1>2, <1>3
  <2> QED BY <2>1 DEF Turn, pics, i
<1>7. CASE pics[i].outputTime <= time
  <2> DEFINE r == PopDecodedPicture(pics, i)
  <2>1. /\ r \in Seq(Output) /\ Len(r) = Len(pics) - 1
        /\ \A k \in 1..Len(r) : r[k] = pics[IF k < i THEN k ELSE k + 1]
        /\ InDpb(pics) = InDpb(r) \cup {pics[i]}
        /\ InDecodingOrder(pics) => InDecodingOrder(r)
    BY <1>1, <1>3, Popped
  <2> HIDE DEF r
  <2>2. i + Len(s) = Len(r) + 1 + (n + 1)
    <3>1. i + all = (left - 1) + 1 + (n + 1) BY <1>0
    <3> QED BY <2>1, <3>1 DEF all, left
  <2>3. ASSUME NEW k \in 1..Len(r), k < i PROVE time < r[k].outputTime
    <3>1. k \in 1..Len(pics) /\ r[k] = pics[k] BY <1>2, <2>1, <2>3
    <3> QED BY <1>1, <2>3, <3>1
  <2>4. ~(time < pics[i].outputTime) BY <1>5, <1>7
  <2>5. Later(InDpb(r), time) = Later(InDpb(s), time) BY <1>1, <2>1, <2>4 DEF Later
  <2> DEFINE e == Turn(d, time)
  <2>6. e = [i |-> i, pics |-> r] BY <1>6, <1>7 DEF r
  <2>7. e.i = i /\ e.pics = r BY <2>6
  <2>8. InDecodingOrder(s) => InDecodingOrder(r) BY <1>1, <2>1
  <2> HIDE DEF e
  <2>9. InLoop(e, s, n + 1, time) BY <1>1, <2>1, <2>2, <2>3, <2>5, <2>7, <2>8 DEF InLoop
  <2> QED BY <2>9 DEF e
<1>8. CASE ~(pics[i].outputTime <= time)
  <2>1. Turn(d, time) = [i |-> i + 1, pics |-> pics] BY <1>6, <1>8
  <2>2. i + 1 \in Nat \ {0} /\ (i + 1) + Len(s) = Len(pics) + 1 + (n + 1)
    <3>1. i + 1 \in Nat \ {0} /\ (i + 1) + all = left + 1 + (n + 1) BY <1>0
    <3> QED BY <3>1 DEF all, left
  <2>3. ASSUME NEW k \in 1..Len(pics), k < i + 1 PROVE time < pics[k].outputTime
    <3>1. CASE k = i BY <1>5, <1>8, <3>1
    <3>2. CASE k # i
      <4>1. k < i BY <1>1, <2>3, <3>2
      <4> QED BY <1>1, <4>1
    <3> QED BY <3>1, <3>2
  <2> QED BY <1>1, <2>1, <2>2, <2>3 DEF InLoop
<1> QED BY <1>7, <1>8

\* What the loop computes, turn after turn.
LEMMA LoopSteps ==
  ASSUME NEW s \in Seq(Output), NEW time
  PROVE  /\ AfterTurns(s, time, 0) = [i |-> 1, pics |-> s]
         /\ \A n \in 1..Len(s) : AfterTurns(s, time, n) = Turn(AfterTurns(s, time, n - 1), time)
<1> DEFINE start == [i |-> 1, pics |-> s]
           Right(n, g) == g = [k \in 0..n |-> IF k = 0 THEN start ELSE Turn(g[k - 1], time)]
           S == {n \in Nat : \E g : Right(n, g)}
<1> HIDE DEF start
<1>1. \A n \in Nat : n \in S
  <2>1. 0 \in S
    <3>1. Right(0, [k \in 0..0 |-> start]) OBVIOUS
    <3> QED BY <3>1
  <2>2. ASSUME NEW n \in Nat, n \in S PROVE n + 1 \in S
    <3>1. PICK g : Right(n, g) BY <2>2
    <3> DEFINE e == [k \in 0..(n + 1) |-> IF k = n + 1 THEN Turn(g[n], time) ELSE g[k]]
    <3>2. ASSUME NEW k \in 0..(n + 1) PROVE e[k] = IF k = 0 THEN start ELSE Turn(e[k - 1], time)
      <4>1. CASE k = n + 1
        <5>1. n \in 0..(n + 1) /\ n # n + 1 /\ k # 0 /\ k - 1 = n BY <4>1
        <5>2. e[n] = g[n] BY <5>1
        <5>3. e[k] = Turn(g[n], time) BY <4>1
        <5> QED BY <4>1, <5>1, <5>2, <5>3
      <4>2. CASE k = 0
        <5>1. 0 \in 0..n /\ 0 # n + 1 OBVIOUS
        <5>2. g[0] = start BY <3>1, <5>1
        <5> QED BY <4>2, <5>1, <5>2
      <4>3. CASE k # 0 /\ k # n + 1
        <5>1. k \in 0..n /\ k - 1 \in 0..(n + 1) /\ k - 1 # n + 1 BY <4>3
        <5>2. g[k] = Turn(g[k - 1], time) BY <3>1, <4>3, <5>1
        <5>3. e[k] = g[k] /\ e[k - 1] = g[k - 1] BY <4>3, <5>1
        <5> QED BY <4>3, <5>2, <5>3
      <4> QED BY <4>1, <4>2, <4>3
    <3>3. e = [k \in 0..(n + 1) |-> e[k]] OBVIOUS
    <3> HIDE DEF e
    <3>4. Right(n + 1, e) BY <3>2, <3>3
    <3> QED BY <3>4
  <2> HIDE DEF S
  <2> QED BY <2>1, <2>2, Induct
<1>2. Len(s) \in Nat OBVIOUS
<1> DEFINE loop == CHOOSE g : Right(Len(s), g)
<1>3. Right(Len(s), loop)
  <2>1. \E g : Right(Len(s), g) BY <1>1, <1>2
  <2> HIDE DEF Right
  <2> QED BY <2>1
<1>4. \A n : AfterTurns(s, time, n) = loop[n] BY DEF AfterTurns, start
<1> HIDE DEF loop
<1>5. loop[0] = start
  <2>1. 0 \in 0..Len(s) BY <1>2
  <2> QED BY <1>3, <2>1
<1>6. ASSUME NEW n \in 1..Len(s) PROVE loop[n] = Turn(loop[n - 1], time)
  <2>1. n \in 0..Len(s) /\ n # 0 BY <1>2
  <2> QED BY <1>3, <2>1
<1> QED BY <1>4, <1>5, <1>6 DEF start

\* What is left when the loop ends: the pictures whose output is to come.
LEMMA Updated ==
  ASSUME NEW s \in Seq(Output), NEW time \in Nat, NEW r, r = UpdateDpb(s, time)
  PROVE  /\ r \in Seq(Output) /\ InDpb(r) = Later(InDpb(s), time)
         /\ InDecodingOrder(s) => InDecodingOrder(r)
<1> DEFINE S == {n \in Nat : n <= Len(s) => InLoop(AfterTurns(s, time, n), s, n, time)}
<1>1. 0 \in S
  <2>1. AfterTurns(s, time, 0) = [i |-> 1, pics |-> s] BY LoopSteps
  <2>2. Len(s) \in Nat OBVIOUS
  <2> QED BY <2>1, <2>2 DEF InLoop
<1>2. ASSUME NEW n \in Nat, n \in S PROVE n + 1 \in S
  <2> SUFFICES ASSUME n + 1 <= Len(s)
               PROVE  InLoop(AfterTurns(s, time, n + 1), s, n + 1, time) OBVIOUS
  <2>1. Len(s) \in Nat /\ n < Len(s) /\ n + 1 \in 1..Len(s) /\ (n + 1) - 1 = n OBVIOUS
  <2>2. InLoop(AfterTurns(s, time, n), s, n, time) BY <1>2, <2>1
  <2>3. AfterTurns(s, time, n + 1) = Turn(AfterTurns(s, time, n), time)
    <3>1. AfterTurns(s, time, n + 1) = Turn(AfterTurns(s, time, (n + 1) - 1), time)
      BY <2>1, LoopSteps
    <3> QED BY <2>1, <3>1
  <2> QED BY <2>1, <2>2, <2>3, TurnInLoop
<1> HIDE DEF S
<1>3. \A n \in Nat : n \in S BY <1>1, <1>2, Induct
<1>4. Len(s) \in Nat OBVIOUS
<1> DEFINE d == AfterTurns(s, time, Len(s))
<1>5. InLoop(d, s, Len(s), time) BY <1>3, <1>4 DEF S
<1>6. r = d.pics BY DEF UpdateDpb
<1> HIDE DEF d
<1>7. /\ r \in Seq(Output) /\ Len(r) \in Nat /\ d.i = Len(r) + 1
      /\ \A k \in 1..Len(r) : k < d.i => time < r[k].outputTime
      /\ Later(InDpb(r), time) = Later(InDpb(s), time)
      /\ InDecodingOrder(s) => InDecodingOrder(r)
  <2>1. r \in Seq(Output) /\ d.i \in Nat /\ d.i + Len(s) = Len(r) + 1 + Len(s)
    BY <1>5, <1>6 DEF InLoop
  <2>2. Len(r) \in Nat BY <2>1
  <2>3. d.i = Len(r) + 1 BY <1>4, <2>1, <2>2
  <2> QED BY <1>5, <1>6, <2>1, <2>2, <2>3 DEF InLoop
<1>8. Later(InDpb(r), time) = InDpb(r)
  <2>1. \A k \in 1..Len(r) : time < r[k].outputTime BY <1>7
  <2> QED BY <2>1 DEF Later, InDpb
<1> QED BY <1>7, <1>8

\* A picture decoded after the others is stored behind them.
LEMMA AppendedToDpb ==
  ASSUME NEW s \in Seq(Output), NEW e \in Output, InDecodingOrder(s),
         \A picture \in InDpb(s) : picture.AUIdx < e.AUIdx
  PROVE  InDpb(Append(s, e)) = InDpb(s) \cup {e} /\ InDecodingOrder(Append(s, e))
<1> DEFINE r == Append(s, e)
           n == Len(s)
<1>1. n \in Nat /\ Len(r) = n + 1 /\ r[n + 1] = e /\ \A k \in 1..n : r[k] = s[k] OBVIOUS
<1> HIDE DEF r
<1>2. 1..Len(r) = 1..n \cup {n + 1} BY <1>1
<1>3. InDpb(r) = InDpb(s) \cup {e} BY <1>1, <1>2 DEF InDpb
<1>4. ASSUME NEW j \in 1..Len(r), NEW k \in 1..Len(r), j < k PROVE r[j].AUIdx < r[k].AUIdx
  <2>1. j \in 1..n BY <1>1, <1>4
  <2>2. CASE k = n + 1
    <3>1. s[j] \in InDpb(s) BY <2>1 DEF InDpb
    <3> QED BY <1>1, <2>1, <2>2, <3>1
  <2>3. CASE k # n + 1
    <3>1. k \in 1..n BY <1>1, <2>3
    <3> QED BY <1>1, <1>4, <2>1, <3>1 DEF InDecodingOrder
  <2> QED BY <2>2, <2>3
<1> QED BY <1>3, <1>4 DEF InDecodingOrder, r

-----------------------------------------------------------------------------
(* The steps.                                                               *)

LEMMA InitCorrect == Init => IInv
<1> SUFFICES ASSUME Init PROVE IInv OBVIOUS
<1>1. arrived = <<>> /\ cpb = <<>> /\ dpb = <<>> /\ pc = "next" /\ clockTime = 0
      /\ cpbBitsOccupancy = 0 /\ nominalRemovalTimeFirstAU = 0 /\ build \in Builds /\ cbr \in BOOLEAN
  BY DEF Init
<1>2. Len(arrived) = 0 /\ Len(cpb) = 0 /\ NbDecoded = 0 /\ arrived \in Seq(Timed) /\ cpb \in Seq(Cell)
  BY <1>1 DEF NbDecoded
<1>3. TypeOK BY <1>1, <1>2, ConstantsOK DEF TypeOK, Timed, Cell
<1>4. Len(Waiting) = 0 /\ \A time \in Nat : Len(Held(time)) = 0 BY <1>2 DEF Waiting, Held
<1>5. OccupancyExact BY <1>1, <1>2, <1>4, SumSteps DEF OccupancyExact
<1>6. CpbSound
  <2>1. \A time \in Nat : Fullness(time) = 0 BY <1>2, <1>4, SumSteps DEF Fullness
  <2> QED BY <1>1, <2>1, ConstantsOK DEF CpbSound
<1>7. DpbExact
  <2>1. OutputToCome(0) = {} BY DEF OutputToCome
  <2>2. InDpb(dpb) = {} /\ InDecodingOrder(dpb) BY <1>1 DEF InDpb, InDecodingOrder
  <2> QED BY <1>1, <1>2, <2>1, <2>2 DEF DpbExact
<1> QED BY <1>1, <1>2, <1>3, <1>5, <1>6, <1>7
        DEF IInv, CpbMatches, PeriodKnown, First, BetweenUnits, InHand, Checked

\* What a step that leaves the past and the CPB alone keeps.
LEMMA SamePast ==
  ASSUME arrived' = arrived, cpb' = cpb
  PROVE  /\ NbDecoded' = NbDecoded /\ Waiting' = Waiting
         /\ \A time : Fullness(time)' = Fullness(time)
         /\ \A time : DecodedBefore(time)' = DecodedBefore(time)
         /\ InOrder' = InOrder
         /\ CpbMatches => CpbMatches'
<1>1. NbDecoded' = NbDecoded BY DEF NbDecoded
<1>2. Waiting' = Waiting BY <1>1 DEF Waiting
<1>3. \A time : Fullness(time)' = Fullness(time) BY DEF Fullness, Held
<1>4. \A time : DecodedBefore(time)' = DecodedBefore(time) BY <1>1 DEF DecodedBefore
<1>5. InOrder' = InOrder BY DEF InOrder
<1>6. CpbMatches => CpbMatches' BY <1>1 DEF CpbMatches
<1> QED BY <1>1, <1>2, <1>3, <1>4, <1>5, <1>6

LEMMA ArriveCorrect == ASSUME IInv, NEW au \in AccessUnits, Arrive(au) PROVE IInv'
<1> USE DEF IInv
<1>1. pc = "next" /\ (First => au.period # NoPeriod) BY DEF Arrive
<1>2. /\ UNCHANGED <<build, cbr, clockTime, cpbBitsOccupancy, cpb, dpb, last, arrived>>
      /\ pc' \in {"remove", "rejected"}
      /\ pc' = "remove" => FinalTime(au) <= RemovalTime(au)
      /\ period' = PeriodOf(au)
      /\ nominalRemovalTimeFirstAU' \in {nominalRemovalTimeFirstAU, RemovalTime(au)}
      /\ current' = [au |-> au, arrival |-> ArrivalTime(au), final |-> FinalTime(au),
                     removal |-> RemovalTime(au)]
  BY DEF Arrive
<1>3. /\ PeriodOf(au) \in Period
      /\ RemovalTime(au) \in Nat /\ ArrivalTime(au) \in Nat /\ FinalTime(au) \in Nat
      /\ clockTime <= ArrivalTime(au) /\ ArrivalTime(au) <= FinalTime(au)
  BY <1>1, TimesOK
<1>4. current' \in Timed /\ current'.arrival = ArrivalTime(au) /\ current'.final = FinalTime(au)
      /\ current'.removal = RemovalTime(au)
  BY <1>2, <1>3 DEF Timed
<1>5. /\ NbDecoded' = NbDecoded /\ Waiting' = Waiting
      /\ \A time : Fullness(time)' = Fullness(time)
      /\ \A time : DecodedBefore(time)' = DecodedBefore(time)
      /\ InOrder' = InOrder /\ CpbMatches'
  BY <1>2, SamePast
<1>6. clockTime \in Nat /\ NbDecoded \in Int /\ arrived \in Seq(Timed)
  BY DEF TypeOK, NbDecoded, Timed
<1>7. TypeOK' BY <1>2, <1>3 DEF TypeOK
<1>8. PeriodKnown' BY <1>2, <1>3 DEF PeriodKnown
<1>9. OccupancyExact' BY <1>1, <1>2, <1>5 DEF OccupancyExact, Running
<1>10. BetweenUnits' BY <1>2 DEF BetweenUnits
<1>11. ASSUME NEW k \in 1..NbDecoded
       PROVE  arrived[k] \in Timed /\ arrived[k].removal \in Nat /\ arrived[k].removal <= clockTime
  <2>1. k \in 1..Len(arrived)
    BY <1>6 DEF NbDecoded, CpbMatches, TypeOK
  <2>2. arrived[k] \in Timed BY <1>6, <2>1
  <2> QED BY <1>1, <2>2 DEF BetweenUnits, Timed
<1>12. InHand'
  <2>1. \A k \in 1..NbDecoded : arrived[k].removal <= FinalTime(au)
    BY <1>3, <1>6, <1>11
  <2>2. \A k \in 1..NbDecoded' : arrived'[k].removal <= FinalTime(au) BY <1>2, <1>5, <2>1
  <2>3. clockTime' <= FinalTime(au) BY <1>2, <1>3, <1>6
  <2>4. pc' = "remove" => FinalTime(au) <= RemovalTime(au) BY <1>2
  <2>5. current' \in Timed /\ current'.arrival <= current'.final BY <1>3, <1>4
  <2>6. Len(arrived') < MaxAUs BY <1>2 DEF Arrive
  <2> QED BY <1>4, <2>2, <2>3, <2>4, <2>5, <2>6 DEF InHand
<1>13. Checked'
  <2> SUFFICES ASSUME pc' = "remove", NEW time \in 0..current'.final
               PROVE  \/ Fullness(time)' + BitsAt(current', time) <= CpbSize
                      \/ DecodedBefore(time)'
    BY DEF Checked
  <2>1. time \in Nat BY <1>3, <1>4
  <2>2. CASE time <= clockTime
    <3>1. Fullness(time) <= CpbSize BY <1>1, <1>6, <2>1, <2>2 DEF CpbSound
    <3>2. BitsAt(current', time) = 0
      <4> DEFINE c == current'
      <4>1. c \in Timed /\ time <= c.arrival BY <1>3, <1>4, <1>6, <2>1, <2>2
      <4> HIDE DEF c
      <4>2. BitsAt(c, time) = 0 BY <2>1, <4>1, BitsFacts
      <4> QED BY <4>2 DEF c
    <3>3. Fullness(time) \in Nat BY <1>6, <2>1, Summands
    <3> QED BY <1>5, <3>1, <3>2, <3>3, ConstantsOK
  <2>3. CASE clockTime < time
    <3>1. DecodedBefore(time) BY <1>6, <1>11, <2>1, <2>3 DEF DecodedBefore
    <3> QED BY <1>5, <3>1
  <2> QED BY <1>6, <2>1, <2>2, <2>3
<1>14. CpbSound' BY <1>2 DEF CpbSound
<1>15. DpbExact'
  <2>1. \A n : OutputToCome(n)' = OutputToCome(n) BY <1>2 DEF OutputToCome
  <2> QED BY <1>1, <1>2, <1>5, <2>1 DEF DpbExact, Running
<1> QED BY <1>5, <1>7, <1>8, <1>9, <1>10, <1>12, <1>13, <1>14, <1>15


\* A stream that is over keeps its past.
LEMMA OverCorrect ==
  ASSUME IInv, TypeOK', arrived' = arrived, cpb' = cpb, pc' \in {"rejected", "aborted"}
  PROVE  IInv'
<1>1. CpbMatches' BY SamePast DEF IInv
<1>2. pc' # "next" /\ pc' # "remove" OBVIOUS
<1> QED BY <1>1, <1>2 DEF IInv, PeriodKnown, OccupancyExact, BetweenUnits, InHand, Checked,
                          CpbSound, DpbExact, Running

\* The access unit at the head of the CPB is the first one not decoded.
LEMMA HeadFacts ==
  ASSUME TypeOK, CpbMatches, cpb # <<>>, NEW d, d = NbDecoded + 1
  PROVE  /\ d \in 1..Len(arrived) /\ NbDecoded \in Nat
         /\ arrived[d] \in Timed /\ arrived[d].au \in AccessUnits /\ arrived[d].removal \in Nat
         /\ Head(cpb) = [AUIdx |-> NbDecoded, au |-> arrived[d].au,
                         removalTime |-> arrived[d].removal]
<1>1. cpb \in Seq(Cell) /\ arrived \in Seq(Timed) BY DEF TypeOK, Cell, Timed
<1>2. Len(cpb) \in Nat \ {0} /\ Len(arrived) \in Nat /\ Len(cpb) <= Len(arrived)
  BY <1>1 DEF CpbMatches
<1>3. d \in 1..Len(arrived) /\ NbDecoded \in Nat BY <1>2 DEF NbDecoded
<1>4. arrived[d] \in Timed BY <1>1, <1>3
<1>5. Head(cpb) = cpb[1] BY <1>1
<1>6. 1 \in 1..Len(cpb) /\ NbDecoded + 1 - 1 = NbDecoded BY <1>2, <1>3
<1>7. cpb[1] = [AUIdx |-> NbDecoded, au |-> arrived[d].au, removalTime |-> arrived[d].removal]
  BY <1>6 DEF CpbMatches
<1> QED BY <1>3, <1>4, <1>5, <1>7 DEF Timed

\* What a turn of the loop of removals does with the head.
LEMMA DecodeFacts ==
  ASSUME IInv, Decode, NEW d, d = NbDecoded + 1
  PROVE  /\ pc = "remove" /\ arrived' = arrived /\ current' = current
         /\ period' = period
         /\ clockTime' = arrived[d].removal /\ arrived[d].removal <= current.final
         /\ \/ pc' \in {"rejected", "aborted"} /\ cpb' = cpb
            \/ /\ pc' = "remove"
               /\ cpbBitsOccupancy + InTransfer(arrived[d].removal) <= CpbSize
               /\ cpbBitsOccupancy' = cpbBitsOccupancy - Removed(arrived[d].au)
               /\ cpb' = Tail(cpb)
               /\ dpb' = IF Stores(arrived[d].au)
                           THEN Append(UpdateDpb(dpb, arrived[d].removal),
                                       [AUIdx |-> NbDecoded,
                                        outputTime |-> OutputTime(arrived[d].removal,
                                                                  arrived[d].au)])
                           ELSE UpdateDpb(dpb, arrived[d].removal)
<1>1. pc = "remove" /\ cpb # <<>> /\ Head(cpb).removalTime <= current.final
  BY DEF Decode, Removable
<1>2. Head(cpb) = [AUIdx |-> NbDecoded, au |-> arrived[d].au,
                   removalTime |-> arrived[d].removal]
      /\ arrived[d].removal \in Nat /\ arrived[d].au \in AccessUnits
  BY <1>1, HeadFacts DEF IInv
<1> DEFINE t == arrived[d].removal
           a == arrived[d].au
           n == NbDecoded
<1>3. Head(cpb).AUIdx = n /\ Head(cpb).au = a /\ Head(cpb).removalTime = t BY <1>2
<1>4. t \in Nat BY <1>2
<1> HIDE DEF t, a, n
<1>5. /\ clockTime' = t /\ UNCHANGED <<arrived, current, period>> /\ t <= current.final
      /\ \/ CpbSize < cpbBitsOccupancy + InTransfer(t) /\ pc' = "rejected" /\ cpb' = cpb
         \/ pc' = "aborted" /\ cpb' = cpb
         \/ pc' = "rejected" /\ cpb' = cpb
         \/ /\ pc' = pc /\ ~(CpbSize < cpbBitsOccupancy + InTransfer(t))
            /\ cpbBitsOccupancy' = cpbBitsOccupancy - Removed(a)
            /\ cpb' = Tail(cpb)
            /\ dpb' = IF Stores(a)
                        THEN Append(UpdateDpb(dpb, t),
                                    [AUIdx |-> n, outputTime |-> OutputTime(t, a)])
                        ELSE UpdateDpb(dpb, t)
  BY <1>1, <1>3 DEF Decode
<1>6. InTransfer(t) \in Nat
  <2>1. current.arrival \in Nat BY <1>1 DEF IInv, InHand, Timed
  <2>2. CASE current.arrival < t
    <3>1. t - current.arrival \in Nat BY <1>4, <2>1, <2>2
    <3>2. Bitrate * (t - current.arrival) \in Nat BY <3>1, ConstantsOK, ProductNat
    <3> QED BY <2>2, <3>2 DEF InTransfer
  <2>3. CASE ~(current.arrival < t) BY <2>3 DEF InTransfer
  <2> QED BY <2>2, <2>3
<1>7. ~(CpbSize < cpbBitsOccupancy + InTransfer(t)) => cpbBitsOccupancy + InTransfer(t) <= CpbSize
  BY <1>6, ConstantsOK DEF IInv, TypeOK
<1> QED BY <1>1, <1>5, <1>7 DEF t, a, n


LEMMA DecodeTypeOK == ASSUME IInv, Decode PROVE TypeOK'
<1> DEFINE d == NbDecoded + 1
           t == arrived[d].removal
           a == arrived[d].au
<1>1. cpb # <<>> BY DEF Decode, Removable
<1>2. t \in Nat /\ a \in AccessUnits /\ NbDecoded \in Nat
      /\ Head(cpb) = [AUIdx |-> NbDecoded, au |-> a, removalTime |-> t]
  BY <1>1, HeadFacts DEF IInv
<1>3. a.length \in Nat /\ a.dpbOutputDelay \in Nat BY <1>2, AuFacts
<1>4. OutputTime(t, a) \in Nat
  <2>1. ClockTick * a.dpbOutputDelay \in Nat BY <1>3, ConstantsOK, ProductNat
  <2> QED BY <1>2, <2>1 DEF OutputTime
<1> HIDE DEF d, t, a
<1>5. cpbBitsOccupancy \in Nat BY DEF IInv, TypeOK
<1>6. cpbBitsOccupancy - Removed(a) \in Nat BY <1>3, <1>5 DEF Removed
<1>7. UpdateDpb(dpb, t) \in Seq(Output)
      /\ [AUIdx |-> NbDecoded, outputTime |-> OutputTime(t, a)] \in Output
  <2>1. dpb \in Seq(Output) BY DEF IInv, TypeOK, Output
  <2> QED BY <1>2, <1>4, <2>1, Updated DEF Output
<1>8. /\ clockTime' = t
      /\ pc' \in {"remove", "rejected", "aborted"}
      /\ cpbBitsOccupancy' \in {cpbBitsOccupancy, cpbBitsOccupancy - Removed(a)}
      /\ cpb' \in {cpb, Tail(cpb)}
      /\ dpb' \in Seq(Output)
  <2>1. Head(cpb).AUIdx = NbDecoded /\ Head(cpb).au = a /\ Head(cpb).removalTime = t BY <1>2
  <2>2. dpb \in Seq(Output) BY DEF IInv, TypeOK, Output
  <2> DEFINE kept == UpdateDpb(dpb, t)
             e == [AUIdx |-> NbDecoded, outputTime |-> OutputTime(t, a)]
  <2>3. Append(kept, e) \in Seq(Output) BY <1>7
  <2>4. dpb' \in {dpb, kept, Append(kept, e)} BY <2>1 DEF Decode
  <2>5. dpb' \in Seq(Output) BY <1>7, <2>2, <2>3, <2>4
  <2> QED BY <2>1, <2>5 DEF Decode
<1>9. cpb' \in Seq(Cell) /\ Len(cpb') <= MaxAUInCpb
  <2>1. cpb \in Seq(Cell) /\ Len(cpb) <= MaxAUInCpb BY DEF IInv, TypeOK, Cell
  <2>2. Tail(cpb) \in Seq(Cell) /\ Len(Tail(cpb)) = Len(cpb) - 1 /\ Len(cpb) \in Nat
    BY <1>1, <2>1
  <2> QED BY <1>8, <2>1, <2>2, ConstantsOK
<1>10. UNCHANGED <<build, cbr, nominalRemovalTimeFirstAU, arrived>> BY DEF Decode
<1> QED BY <1>2, <1>5, <1>6, <1>8, <1>9, <1>10 DEF TypeOK, IInv, Cell, Output

\* The records of the DPB for pictures of the stream.
Picture(k) == [AUIdx |-> k - 1, outputTime |-> OutputTime(arrived[k].removal, arrived[k].au)]
Pictures(S) == {Picture(k) : k \in S}

\* What the DPB should hold when one more picture is decoded.
LEMMA DpbAdvances ==
  ASSUME TypeOK, CpbMatches, cpb # <<>>, InOrder, NEW d, d = NbDecoded + 1,
         NEW t, t = arrived[d].removal, NEW a, a = arrived[d].au,
         NEW S, S = Pictures(OutputToCome(NbDecoded))
  PROVE  Pictures(OutputToCome(d))
           = IF Stores(a) THEN Later(S, t) \cup {Picture(d)} ELSE Later(S, t)
<1>1. d \in 1..Len(arrived) /\ NbDecoded \in Nat /\ t \in Nat /\ a \in AccessUnits
      /\ arrived \in Seq(Timed)
  BY HeadFacts DEF TypeOK, Timed
<1>2. ASSUME NEW k \in 1..d PROVE k \in 1..Len(arrived) /\ arrived[k].removal \in Nat
                                  /\ Picture(k).outputTime \in Nat
                                  /\ Picture(k).outputTime
                                       = OutputTime(arrived[k].removal, arrived[k].au)
  <2>1. k \in 1..Len(arrived) BY <1>1
  <2>2. arrived[k] \in Timed BY <1>1, <2>1
  <2>3. arrived[k].removal \in Nat /\ arrived[k].au \in AccessUnits BY <2>2 DEF Timed
  <2>4. ClockTick * arrived[k].au.dpbOutputDelay \in Nat
    BY <2>3, AuFacts, ConstantsOK, ProductNat
  <2> QED BY <2>1, <2>3, <2>4 DEF OutputTime, Picture
<1>3. ASSUME NbDecoded # 0 PROVE arrived[NbDecoded].removal < t
  <2>1. d \in 2..Len(arrived) /\ d - 1 = NbDecoded BY <1>1, <1>3
  <2> QED BY <2>1 DEF InOrder
<1>4. ASSUME NEW k \in 1..NbDecoded
      PROVE  k \in OutputToCome(d) <=> k \in OutputToCome(NbDecoded)
                                       /\ t < Picture(k).outputTime
  <2>1. k \in 1..d /\ NbDecoded \in 1..d /\ NbDecoded # 0 BY <1>1
  <2>2. arrived[NbDecoded].removal < t BY <1>3, <2>1
  <2>3. arrived[NbDecoded].removal \in Nat BY <1>2, <2>1
  <2>4. Picture(k).outputTime = OutputTime(arrived[k].removal, arrived[k].au)
        /\ Picture(k).outputTime \in Nat BY <1>2, <2>1
  <2>5. k \in OutputToCome(d) <=> Stores(arrived[k].au) /\ t < Picture(k).outputTime
    BY <2>1, <2>4 DEF OutputToCome
  <2>6. k \in OutputToCome(NbDecoded) <=>
          Stores(arrived[k].au) /\ arrived[NbDecoded].removal < Picture(k).outputTime
    BY <2>4 DEF OutputToCome
  <2> QED BY <1>1, <2>2, <2>3, <2>4, <2>5, <2>6
<1>5. d \in OutputToCome(d) <=> Stores(a)
  <2>1. d \in 1..d BY <1>1
  <2>2. Stores(a) => t < OutputTime(t, a)
    <3>1. a.dpbOutputDelay \in Nat BY <1>1, AuFacts
    <3>2. ASSUME a.dpbOutputDelay > 0 PROVE ClockTick * a.dpbOutputDelay > 0
      BY <3>1, <3>2, ConstantsOK, SMTT(20)
    <3>3. ClockTick * a.dpbOutputDelay \in Nat BY <3>1, ConstantsOK, ProductNat
    <3> QED BY <1>1, <3>2, <3>3 DEF Stores, OutputTime
  <2> QED BY <2>1, <2>2 DEF OutputToCome
<1>6. OutputToCome(d) = {k \in OutputToCome(NbDecoded) : t < Picture(k).outputTime}
                          \cup IF Stores(a) THEN {d} ELSE {}
  <2>1. OutputToCome(d) \subseteq 1..d /\ OutputToCome(NbDecoded) \subseteq 1..NbDecoded
    BY DEF OutputToCome
  <2>2. 1..d = 1..NbDecoded \cup {d} BY <1>1
  <2>3. d \notin 1..NbDecoded BY <1>1
  <2> QED BY <1>4, <1>5, <2>1, <2>2, <2>3
<1> DEFINE Left == {k \in OutputToCome(NbDecoded) : t < Picture(k).outputTime}
<1>7. Later(S, t) = Pictures(Left) BY DEF Later, Pictures
<1>8. OutputToCome(d) = Left \cup IF Stores(a) THEN {d} ELSE {} BY <1>6
<1> HIDE DEF Left
<1>9. CASE Stores(a)
  <2>1. OutputToCome(d) = Left \cup {d} BY <1>8, <1>9
  <2>2. Pictures(Left \cup {d}) = Pictures(Left) \cup {Picture(d)} BY DEF Pictures
  <2> QED BY <1>7, <1>9, <2>1, <2>2
<1>10. CASE ~Stores(a) BY <1>7, <1>8, <1>10
<1> QED BY <1>9, <1>10

\* The bits of the access unit in hand that the test at a removal adds are no
\* fewer than those of any instant up to it.
LEMMA TestCovers ==
  ASSUME current \in Timed, NEW t \in Nat, NEW time \in Nat, time <= t
  PROVE  BitsAt(current, time) <= InTransfer(t) /\ InTransfer(t) \in Nat
<1>1. current.arrival \in Nat BY DEF Timed
<1>2. CASE current.arrival < t
  <2>1. InTransfer(t) = Bitrate * (t - current.arrival) BY <1>2 DEF InTransfer
  <2>2. t - current.arrival \in Nat BY <1>1, <1>2
  <2>3. Bitrate * (t - current.arrival) \in Nat BY <2>2, ConstantsOK, ProductNat
  <2>4. BitsAt(current, time) <= Bitrate * (t - current.arrival) BY <1>2, BitsGrow
  <2> QED BY <2>1, <2>3, <2>4
<1>3. CASE ~(current.arrival < t)
  <2>1. InTransfer(t) = 0 BY <1>3 DEF InTransfer
  <2>2. time <= current.arrival BY <1>1, <1>3
  <2>3. BitsAt(current, time) = 0 BY <2>2, BitsFacts
  <2> QED BY <2>1, <2>3
<1> QED BY <1>2, <1>3

LEMMA DecodeCorrect == ASSUME IInv, Decode PROVE IInv'
<1> DEFINE d == NbDecoded + 1
           t == arrived[d].removal
           a == arrived[d].au
           N == Len(arrived)
<1>1. TypeOK' BY DecodeTypeOK
<1>2. cpb # <<>> BY DEF Decode, Removable
<1>3. /\ d \in 1..N /\ NbDecoded \in Nat /\ t \in Nat /\ a \in AccessUnits
      /\ arrived \in Seq(Timed) /\ cpb \in Seq(Cell) /\ N \in Nat
  <2>1. arrived \in Seq(Timed) /\ cpb \in Seq(Cell) BY DEF IInv, TypeOK, Timed, Cell
  <2>2. TypeOK /\ CpbMatches BY DEF IInv
  <2> QED BY <1>2, <2>1, <2>2, HeadFacts
<1>4. /\ pc = "remove" /\ arrived' = arrived /\ current' = current /\ period' = period
      /\ clockTime' = t /\ t <= current.final
      /\ \/ pc' \in {"rejected", "aborted"} /\ cpb' = cpb
         \/ /\ pc' = "remove"
            /\ cpbBitsOccupancy + InTransfer(t) <= CpbSize
            /\ cpbBitsOccupancy' = cpbBitsOccupancy - Removed(a)
            /\ cpb' = Tail(cpb)
            /\ dpb' = IF Stores(a)
                        THEN Append(UpdateDpb(dpb, t), [AUIdx |-> NbDecoded,
                                                        outputTime |-> OutputTime(t, a)])
                        ELSE UpdateDpb(dpb, t)
  BY DecodeFacts
<1>5. CASE pc' \in {"rejected", "aborted"} /\ cpb' = cpb BY <1>1, <1>4, <1>5, OverCorrect
<1>6. CASE /\ pc' = "remove"
           /\ cpbBitsOccupancy + InTransfer(t) <= CpbSize
           /\ cpbBitsOccupancy' = cpbBitsOccupancy - Removed(a)
           /\ cpb' = Tail(cpb)
           /\ dpb' = IF Stores(a)
                       THEN Append(UpdateDpb(dpb, t), [AUIdx |-> NbDecoded,
                                                       outputTime |-> OutputTime(t, a)])
                       ELSE UpdateDpb(dpb, t)
  <2>1. Len(cpb) \in Nat \ {0} /\ Len(cpb') = Len(cpb) - 1 /\ cpb' \in Seq(Cell)
        /\ Len(cpb) <= N
    BY <1>2, <1>3, <1>6 DEF IInv, CpbMatches
  <2>2. NbDecoded' = d /\ NbDecoded = N - Len(cpb) BY <1>3, <1>4, <2>1 DEF NbDecoded
  <2>3. \A time : Fullness(time)' = Fullness(time) BY <1>4 DEF Fullness, Held
  <2>4. current \in Timed /\ current.final \in Nat /\ current.arrival <= current.final
        /\ current.final <= current.removal
        /\ \A k \in 1..NbDecoded : arrived[k].removal <= current.final
    BY <1>4 DEF IInv, InHand, Timed
  <2>5. cpbBitsOccupancy = SumOf(Waiting, N) BY <1>4 DEF IInv, OccupancyExact, Running
  <2>6. CpbMatches'
    <3>1. ASSUME NEW k \in 1..Len(cpb')
          PROVE  cpb'[k] = [AUIdx |-> d + k - 1, au |-> arrived[d + k].au,
                            removalTime |-> arrived[d + k].removal]
      <4>1. k + 1 \in 1..Len(cpb) /\ cpb'[k] = cpb[k + 1] BY <1>3, <1>6, <2>1
      <4>2. cpb[k + 1] = [AUIdx |-> NbDecoded + (k + 1) - 1,
                          au |-> arrived[NbDecoded + (k + 1)].au,
                          removalTime |-> arrived[NbDecoded + (k + 1)].removal]
        BY <4>1 DEF IInv, CpbMatches
      <4>3. NbDecoded + (k + 1) - 1 = d + k - 1 /\ NbDecoded + (k + 1) = d + k BY <1>3
      <4> QED BY <4>1, <4>2, <4>3
    <3>2. Len(cpb') <= Len(arrived') BY <1>4, <2>1, <1>3
    <3> HIDE DEF d
    <3> QED BY <1>4, <2>2, <3>1, <3>2 DEF CpbMatches
  <2>7. OccupancyExact'
    <3>1. Waiting \in Seq(Nat) /\ Len(Waiting) = N /\ SumOf(Waiting, N) \in Nat
      BY <1>3, Summands
    <3> DEFINE w == [k \in 1..N |-> IF k <= d THEN 0 ELSE arrived[k].au.length]
    <3>2. Waiting' = w BY <1>4, <2>2 DEF Waiting
    <3>3. \A k \in 1..N : arrived[k].au.length \in Nat
      <4>1. ASSUME NEW k \in 1..N PROVE arrived[k].au \in AccessUnits
        <5>1. arrived[k] \in Timed BY <1>3
        <5> QED BY <5>1 DEF Timed
      <4> QED BY <4>1, AuFacts
    <3>4. w \in Seq(Nat) /\ Len(w) = N BY <1>3, <3>3
    <3>5. w[d] = 0 /\ Waiting[d] = a.length BY <1>3 DEF Waiting
    <3>6. \A k \in 1..N \ {d} : Waiting[k] = w[k]
      <4> SUFFICES ASSUME NEW k \in 1..N \ {d} PROVE Waiting[k] = w[k] OBVIOUS
      <4>1. k <= NbDecoded <=> k <= d BY <1>3
      <4> QED BY <4>1 DEF Waiting
    <3> HIDE DEF w, d, a
    <3>7. SumOf(Waiting, N) = SumOf(w, N) + Waiting[d]
      BY <1>3, <3>1, <3>4, <3>5, <3>6, SumWithout
    <3>8. SumOf(w, N) \in Nat
      <4>1. N \in 0..Len(w) BY <1>3, <3>4
      <4> QED BY <3>4, <4>1, SumNat
    <3>9. a.length \in Nat BY <1>3, AuFacts
    <3>10. Removed(a) = a.length BY <2>5, <3>5, <3>7, <3>8, <3>9 DEF Removed
    <3>11. cpbBitsOccupancy' = SumOf(w, N) BY <1>6, <2>5, <3>5, <3>7, <3>8, <3>9, <3>10
    <3> QED BY <1>4, <3>2, <3>11 DEF OccupancyExact
  <2>8. InHand'
    <3>1. \A k \in 1..d : arrived[k].removal <= current.final
      <4>1. \A k \in 1..d : k \in 1..NbDecoded \/ k = d BY <1>3
      <4> QED BY <1>4, <2>4, <4>1
    <3> HIDE DEF d
    <3>2. \A k \in 1..NbDecoded' : arrived'[k].removal <= current'.final
      BY <1>4, <2>2, <3>1
    <3>3. Len(arrived') < MaxAUs BY <1>4 DEF IInv, InHand
    <3> QED BY <1>4, <2>4, <3>2, <3>3 DEF InHand
  <2>9. Checked'
    <3> SUFFICES ASSUME NEW time \in 0..current.final
                 PROVE  \/ Fullness(time)' + BitsAt(current', time) <= CpbSize
                        \/ DecodedBefore(time)'
      BY <1>4 DEF Checked
    <3>1. time \in Nat BY <2>4
    <3>2. Fullness(time) + BitsAt(current, time) <= CpbSize \/ DecodedBefore(time)
      BY <1>4 DEF IInv, Checked
    <3>3. CASE Fullness(time) + BitsAt(current, time) <= CpbSize BY <1>4, <2>3, <3>3
    <3>4. CASE DecodedBefore(time) /\ t < time
      <4>1. \A k \in 1..d : arrived[k].removal < time
        <5>1. \A k \in 1..d : k \in 1..NbDecoded \/ k = d BY <1>3
        <5> QED BY <3>4, <5>1 DEF DecodedBefore
      <4> HIDE DEF d
      <4>2. DecodedBefore(time)' BY <1>4, <2>2, <4>1 DEF DecodedBefore
      <4> QED BY <4>2
    <3>5. CASE DecodedBefore(time) /\ time <= t
      <4> HIDE DEF t
      <4>1. Fullness(time) <= SumOf(Waiting, N) BY <1>3, <3>1, <3>5, HeldIsWaiting
      <4>2. BitsAt(current, time) <= InTransfer(t) /\ InTransfer(t) \in Nat
        BY <1>3, <2>4, <3>1, <3>5, TestCovers
      <4>3. Fullness(time) \in Nat /\ SumOf(Waiting, N) \in Nat BY <1>3, <3>1, Summands
      <4>4. BitsAt(current, time) \in Nat BY <2>4, <3>1, BitsFacts
      <4>5. SumOf(Waiting, N) + InTransfer(t) <= CpbSize BY <1>6, <2>5
      <4>6. Fullness(time) + BitsAt(current, time) <= CpbSize
        BY <4>1, <4>2, <4>3, <4>4, <4>5, ConstantsOK
      <4> QED BY <1>4, <2>3, <4>6
    <3> QED BY <1>3, <3>1, <3>2, <3>3, <3>4, <3>5
  <2>10. DpbExact'
    <3> SUFFICES ASSUME InOrder'
                 PROVE  InDpb(dpb') = Pictures(OutputToCome(NbDecoded)') /\ InDecodingOrder(dpb')
      BY <1>4 DEF DpbExact, Pictures, Picture, InDpb, InDecodingOrder
    <3>1. InOrder BY <1>4 DEF InOrder
    <3>2. InDpb(dpb) = Pictures(OutputToCome(NbDecoded)) /\ InDecodingOrder(dpb)
      BY <1>4, <3>1 DEF IInv, DpbExact, Running, Pictures, Picture
    <3>3. Picture(d) = [AUIdx |-> NbDecoded, outputTime |-> OutputTime(t, a)]
      BY <1>3 DEF Picture
    <3>4. d = NbDecoded + 1 /\ t = arrived[d].removal /\ a = arrived[d].au OBVIOUS
    <3>5. dpb \in Seq(Output) BY DEF IInv, TypeOK, Output
    <3>6. Picture(d) \in Output
      <4>1. a.dpbOutputDelay \in Nat BY <1>3, AuFacts
      <4>2. ClockTick * a.dpbOutputDelay \in Nat BY <4>1, ConstantsOK, ProductNat
      <4> QED BY <1>3, <3>3, <4>2 DEF OutputTime, Output
    <3>7. OutputToCome(NbDecoded)' = OutputToCome(d) BY <1>4, <2>2 DEF OutputToCome
    <3>8. dpb' = IF Stores(a) THEN Append(UpdateDpb(dpb, t), Picture(d)) ELSE UpdateDpb(dpb, t)
      BY <1>6, <3>3
    <3> DEFINE kept == UpdateDpb(dpb, t)
    <3>9. /\ kept \in Seq(Output) /\ InDpb(kept) = Later(InDpb(dpb), t) /\ InDecodingOrder(kept)
      <4>1. t \in Nat BY <1>3
      <4> HIDE DEF t
      <4>2. /\ kept \in Seq(Output) /\ InDpb(kept) = Later(InDpb(dpb), t)
            /\ InDecodingOrder(dpb) => InDecodingOrder(kept)
        BY <3>5, <4>1, Updated
      <4> QED BY <3>2, <4>2
    <3>10. \A picture \in InDpb(kept) : picture.AUIdx < Picture(d).AUIdx
      <4>1. ASSUME NEW k \in OutputToCome(NbDecoded) PROVE Picture(k).AUIdx < NbDecoded
        BY <1>3 DEF OutputToCome, Picture
      <4>2. InDpb(kept) \subseteq Pictures(OutputToCome(NbDecoded)) BY <3>2, <3>9 DEF Later
      <4>3. Picture(d).AUIdx = NbDecoded BY <3>3
      <4> QED BY <4>1, <4>2, <4>3 DEF Pictures
    <3> HIDE DEF d, t, a, kept
    <3>11. Pictures(OutputToCome(d))
             = IF Stores(a) THEN InDpb(kept) \cup {Picture(d)} ELSE InDpb(kept)
      <4> DEFINE S == Pictures(OutputToCome(NbDecoded))
      <4>1. TypeOK /\ CpbMatches BY DEF IInv
      <4> HIDE DEF S
      <4>2. Pictures(OutputToCome(d))
              = IF Stores(a) THEN Later(S, t) \cup {Picture(d)} ELSE Later(S, t)
        BY <1>2, <3>1, <3>4, <4>1, DpbAdvances DEF S
      <4>3. InDpb(kept) = Later(S, t) BY <3>2, <3>9 DEF S
      <4> QED BY <4>2, <4>3
    <3>12. CASE Stores(a)
      <4>1. dpb' = Append(kept, Picture(d)) BY <3>8, <3>12 DEF kept
      <4> QED BY <3>6, <3>7, <3>9, <3>10, <3>11, <3>12, <4>1, AppendedToDpb
    <3>13. CASE ~Stores(a)
      <4>1. dpb' = kept BY <3>8, <3>13 DEF kept
      <4> QED BY <3>7, <3>9, <3>11, <3>13, <4>1
    <3> QED BY <3>12, <3>13
  <2>11. PeriodKnown' BY <1>4 DEF IInv, PeriodKnown, Running
  <2>12. BetweenUnits' /\ CpbSound' BY <1>6 DEF BetweenUnits, CpbSound
  <2> QED BY <1>1, <2>6, <2>7, <2>8, <2>9, <2>10, <2>11, <2>12 DEF IInv
<1> QED BY <1>4, <1>5, <1>6

LEMMA AcceptCorrect == ASSUME IInv, Accept PROVE IInv'
<1> DEFINE N == Len(arrived)
           bits == current.au.length
<1>1. /\ pc = "remove" /\ dpb' = dpb /\ period' = period
      /\ UNCHANGED <<build, cbr, nominalRemovalTimeFirstAU>>
      /\ clockTime' = MAX(clockTime, current.final)
      /\ cpbBitsOccupancy' = cpbBitsOccupancy + bits
      /\ \/ pc' = "rejected" /\ cpb' = cpb /\ arrived' = arrived
         \/ /\ Len(cpb) < MaxAUInCpb /\ cpbBitsOccupancy' <= CpbSize /\ pc' = "next"
            /\ cpb' = Append(cpb, [AUIdx |-> N, au |-> current.au,
                                   removalTime |-> current.removal])
            /\ arrived' = Append(arrived, current)
  BY DEF Accept
<1>2. /\ arrived \in Seq(Timed) /\ cpb \in Seq(Cell) /\ N \in Nat /\ Len(cpb) \in Nat
      /\ clockTime \in Nat /\ cpbBitsOccupancy \in Nat
  BY DEF IInv, TypeOK, Timed, Cell
<1>3. /\ current \in Timed /\ current.au \in AccessUnits
      /\ current.final \in Nat /\ current.removal \in Nat
      /\ current.final <= current.removal /\ clockTime <= current.final
      /\ \A k \in 1..NbDecoded : arrived[k].removal <= current.final
  BY <1>1 DEF IInv, InHand, Timed
<1>4. bits \in Nat BY <1>3, AuFacts
<1>5. clockTime' = current.final BY <1>1, <1>2, <1>3 DEF MAX
<1>6. Len(cpb) <= N /\ NbDecoded = N - Len(cpb) /\ NbDecoded \in Nat
  BY <1>2 DEF IInv, CpbMatches, NbDecoded
<1>7. CASE pc' = "rejected" /\ cpb' = cpb /\ arrived' = arrived
  <2>1. TypeOK' BY <1>1, <1>2, <1>3, <1>4, <1>5, <1>7 DEF IInv, TypeOK
  <2> QED BY <1>7, <2>1, OverCorrect
<1>8. CASE /\ Len(cpb) < MaxAUInCpb /\ cpbBitsOccupancy' <= CpbSize /\ pc' = "next"
           /\ cpb' = Append(cpb, [AUIdx |-> N, au |-> current.au,
                                  removalTime |-> current.removal])
           /\ arrived' = Append(arrived, current)
  <2> HIDE DEF bits
  <2>1. /\ arrived' \in Seq(Timed) /\ Len(arrived') = N + 1
        /\ arrived'[N + 1] = current /\ \A k \in 1..N : arrived'[k] = arrived[k]
    BY <1>2, <1>3, <1>8
  <2>2. /\ cpb' \in Seq(Cell) /\ Len(cpb') = Len(cpb) + 1
        /\ cpb'[Len(cpb) + 1] = [AUIdx |-> N, au |-> current.au,
                                 removalTime |-> current.removal]
        /\ \A k \in 1..Len(cpb) : cpb'[k] = cpb[k]
    <3>1. [AUIdx |-> N, au |-> current.au, removalTime |-> current.removal] \in Cell
      BY <1>2, <1>3 DEF Cell
    <3> QED BY <1>2, <1>8, <3>1
  <2>3. NbDecoded' = NbDecoded BY <1>2, <1>6, <2>1, <2>2 DEF NbDecoded
  <2>4. TypeOK'
    <3>1. Len(arrived') <= MaxAUs BY <1>1, <1>2, <2>1, ConstantsOK DEF IInv, InHand
    <3> QED BY <1>1, <1>2, <1>3, <1>4, <1>5, <1>8, <2>1, <2>2, <3>1, ConstantsOK DEF IInv, TypeOK, Timed, Cell
  <2>5. CpbMatches'
    <3>1. Len(cpb') <= Len(arrived') BY <1>2, <1>6, <2>1, <2>2
    <3>2. ASSUME NEW k \in 1..Len(cpb')
          PROVE  cpb'[k] = [AUIdx |-> NbDecoded + k - 1, au |-> arrived'[NbDecoded + k].au,
                            removalTime |-> arrived'[NbDecoded + k].removal]
      <4>1. CASE k = Len(cpb) + 1
        <5>1. NbDecoded + k = N + 1 /\ NbDecoded + k - 1 = N BY <1>2, <1>6, <4>1
        <5> QED BY <2>1, <2>2, <4>1, <5>1
      <4>2. CASE k # Len(cpb) + 1
        <5>1. k \in 1..Len(cpb) /\ NbDecoded + k \in 1..N BY <1>2, <1>6, <2>2, <4>2
        <5>2. cpb[k] = [AUIdx |-> NbDecoded + k - 1, au |-> arrived[NbDecoded + k].au,
                        removalTime |-> arrived[NbDecoded + k].removal]
          BY <5>1 DEF IInv, CpbMatches
        <5> QED BY <2>1, <2>2, <5>1, <5>2
      <4> QED BY <4>1, <4>2
    <3> QED BY <2>3, <3>1, <3>2 DEF CpbMatches
  <2>6. /\ Waiting \in Seq(Nat) /\ Len(Waiting) = N /\ SumOf(Waiting, N) \in Nat
        /\ \A time \in Nat : /\ Held(time) \in Seq(Nat) /\ Len(Held(time)) = N
                             /\ Fullness(time) \in Nat
    BY <1>2, Summands
  <2>7. cpbBitsOccupancy = SumOf(Waiting, N) BY <1>1 DEF IInv, OccupancyExact, Running
  <2>8. OccupancyExact'
    <3> DEFINE w == [k \in 1..(N + 1) |-> IF k <= NbDecoded THEN 0 ELSE arrived'[k].au.length]
    <3>1. Waiting' = w BY <2>1, <2>3 DEF Waiting
    <3>2. \A k \in 1..(N + 1) : arrived'[k].au.length \in Nat
      <4>1. ASSUME NEW k \in 1..(N + 1) PROVE arrived'[k].au \in AccessUnits
        <5>1. arrived'[k] \in Timed BY <2>1
        <5> QED BY <5>1 DEF Timed
      <4> QED BY <4>1, AuFacts
    <3>3. w \in Seq(Nat) /\ Len(w) = N + 1 BY <1>2, <3>2
    <3>4. w[N + 1] = bits
      <4>1. N + 1 \in 1..(N + 1) /\ ~(N + 1 <= NbDecoded) BY <1>2, <1>6
      <4> QED BY <2>1, <4>1 DEF bits
    <3>5. \A k \in 1..N : Waiting[k] = w[k]
      <4> SUFFICES ASSUME NEW k \in 1..N PROVE Waiting[k] = w[k] OBVIOUS
      <4>1. k \in 1..(N + 1) /\ arrived'[k] = arrived[k] BY <1>2, <2>1
      <4> QED BY <4>1 DEF Waiting
    <3> HIDE DEF w, N
    <3>6. SumOf(w, N + 1) = SumOf(Waiting, N) + w[N + 1]
      BY <1>2, <2>6, <3>3, <3>5, SumAppended
    <3> QED BY <1>1, <2>1, <2>7, <3>1, <3>4, <3>6 DEF OccupancyExact
  <2>9. BetweenUnits' 
    <3>1. \A k \in 1..NbDecoded : arrived'[k].removal <= current.final
      <4>1. \A k \in 1..NbDecoded : k \in 1..N BY <1>2, <1>6
      <4> QED BY <1>3, <2>1, <4>1
    <3> QED BY <1>5, <2>3, <3>1 DEF BetweenUnits
  <2>10. CpbSound'
    <3> SUFFICES ASSUME NEW time \in 0..current.final PROVE Fullness(time)' <= CpbSize
      BY <1>5 DEF CpbSound
    <3>1. time \in Nat /\ time <= current.removal BY <1>3
    <3> DEFINE h == [k \in 1..(N + 1) |-> IF arrived'[k].removal < time THEN 0
                                          ELSE BitsAt(arrived'[k], time)]
    <3>2. Held(time)' = h BY <2>1 DEF Held
    <3>3. h \in Seq(Nat) /\ Len(h) = N + 1
      <4>1. ASSUME NEW k \in 1..(N + 1) PROVE BitsAt(arrived'[k], time) \in Nat
        <5> DEFINE b == arrived'[k]
        <5>1. b \in Timed BY <2>1
        <5> HIDE DEF b
        <5>2. BitsAt(b, time) \in Nat BY <3>1, <5>1, BitsFacts
        <5> QED BY <5>2 DEF b
      <4> QED BY <1>2, <4>1
    <3>4. h[N + 1] = BitsAt(current, time)
      <4>1. N + 1 \in 1..(N + 1) /\ ~(current.removal < time) BY <1>2, <1>3, <3>1
      <4> QED BY <2>1, <4>1
    <3>5. \A k \in 1..N : Held(time)[k] = h[k]
      <4> SUFFICES ASSUME NEW k \in 1..N PROVE Held(time)[k] = h[k] OBVIOUS
      <4>1. k \in 1..(N + 1) /\ arrived'[k] = arrived[k] BY <1>2, <2>1
      <4> QED BY <4>1 DEF Held
    <3> HIDE DEF h
    <3>6. SumOf(h, N + 1) = SumOf(Held(time), N) + h[N + 1]
      <4> DEFINE g == Held(time)
      <4>1. g \in Seq(Nat) /\ Len(g) = N BY <2>6, <3>1
      <4>2. \A k \in 1..N : g[k] = h[k] BY <3>5
      <4> HIDE DEF N, g
      <4>3. SumOf(h, N + 1) = SumOf(g, N) + h[N + 1] BY <1>2, <3>3, <4>1, <4>2, SumAppended
      <4> QED BY <4>3 DEF g
    <3>7. Fullness(time)' = Fullness(time) + BitsAt(current, time)
      BY <2>1, <3>2, <3>4, <3>6 DEF Fullness
    <3>8. BitsAt(current, time) \in Nat /\ BitsAt(current, time) <= bits
      BY <1>3, <3>1, BitsFacts DEF bits
    <3>9. Fullness(time) + BitsAt(current, time) <= CpbSize \/ DecodedBefore(time)
      BY <1>1 DEF IInv, Checked
    <3>10. CASE DecodedBefore(time)
      <4>1. Fullness(time) <= cpbBitsOccupancy
        BY <1>2, <2>7, <3>1, <3>10, HeldIsWaiting
      <4>2. Fullness(time) \in Nat BY <2>6, <3>1
      <4> QED BY <1>1, <1>2, <1>4, <1>8, <3>7, <3>8, <4>1, <4>2, ConstantsOK
    <3> QED BY <3>7, <3>9, <3>10
  <2>11. DpbExact'
    <3> SUFFICES ASSUME InOrder'
                 PROVE  InDpb(dpb) = {[AUIdx |-> k - 1,
                                       outputTime |-> OutputTime(arrived'[k].removal,
                                                                 arrived'[k].au)] :
                                      k \in OutputToCome(NbDecoded)'} /\ InDecodingOrder(dpb)
      BY <1>1 DEF DpbExact, InDpb, InDecodingOrder
    <3>1. InOrder
      <4>1. ASSUME NEW k \in 2..N PROVE arrived[k - 1].removal < arrived[k].removal
        <5>1. k \in 2..(N + 1) /\ k \in 1..N /\ k - 1 \in 1..N BY <1>2
        <5>2. arrived'[k - 1].removal < arrived'[k].removal BY <2>1, <5>1 DEF InOrder
        <5> QED BY <2>1, <5>1, <5>2
      <4> QED BY <4>1 DEF InOrder
    <3>2. \A k \in 1..NbDecoded : arrived'[k] = arrived[k] BY <1>2, <1>6, <2>1
    <3>3. OutputToCome(NbDecoded)' = OutputToCome(NbDecoded)
      <4>1. \A k \in 1..NbDecoded : NbDecoded \in 1..NbDecoded BY <1>6
      <4> QED BY <2>3, <3>2, <4>1 DEF OutputToCome
    <3>4. InDpb(dpb) = {[AUIdx |-> k - 1,
                         outputTime |-> OutputTime(arrived[k].removal, arrived[k].au)] :
                        k \in OutputToCome(NbDecoded)} /\ InDecodingOrder(dpb)
      BY <1>1, <3>1 DEF IInv, DpbExact, Running
    <3>5. \A k \in OutputToCome(NbDecoded) : arrived'[k] = arrived[k]
      BY <3>2 DEF OutputToCome
    <3> QED BY <1>1, <3>3, <3>4, <3>5
  <2>12. PeriodKnown' BY <1>1 DEF IInv, PeriodKnown, Running
  <2>13. InHand' /\ Checked' BY <1>8 DEF InHand, Checked
  <2> QED BY <2>4, <2>5, <2>8, <2>9, <2>10, <2>11, <2>12, <2>13 DEF IInv
<1> QED BY <1>1, <1>7, <1>8

LEMMA NextCorrect == ASSUME IInv, [Next]_vars PROVE IInv'
<1>1. CASE \E au \in AccessUnits : Arrive(au) BY <1>1, ArriveCorrect
<1>2. CASE Decode BY <1>2, DecodeCorrect
<1>3. CASE Accept BY <1>3, AcceptCorrect
<1>4. CASE UNCHANGED vars
  <2>1. UNCHANGED <<build, cbr, clockTime, cpbBitsOccupancy, cpb, dpb, period,
                    nominalRemovalTimeFirstAU, last, current, arrived, pc>>
    BY <1>4 DEF vars
  <2>2. /\ NbDecoded' = NbDecoded /\ Waiting' = Waiting
        /\ \A time : Fullness(time)' = Fullness(time)
        /\ \A time : DecodedBefore(time)' = DecodedBefore(time)
        /\ InOrder' = InOrder /\ CpbMatches'
    BY <2>1, SamePast DEF IInv
  <2>3. TypeOK' BY <2>1 DEF IInv, TypeOK
  <2>4. PeriodKnown' BY <2>1 DEF IInv, PeriodKnown, Running, First
  <2>5. OccupancyExact' BY <2>1, <2>2 DEF IInv, OccupancyExact, Running
  <2>6. BetweenUnits' /\ InHand' BY <2>1, <2>2 DEF IInv, BetweenUnits, InHand
  <2>7. Checked' BY <2>1, <2>2 DEF IInv, Checked
  <2>8. CpbSound' BY <2>1, <2>2 DEF IInv, CpbSound
  <2>9. DpbExact'
    <3>1. \A n : OutputToCome(n)' = OutputToCome(n) BY <2>1 DEF OutputToCome
    <3> QED BY <2>1, <2>2, <3>1 DEF IInv, DpbExact, Running
  <2> QED BY <2>2, <2>3, <2>4, <2>5, <2>6, <2>7, <2>8, <2>9 DEF IInv
<1> QED BY <1>1, <1>2, <1>3, <1>4 DEF Next

-----------------------------------------------------------------------------
(* The theorems.                                                            *)

LEMMA Invariant == Spec => []IInv
BY InitCorrect, NextCorrect, PTL DEF Spec

\* Times and occupancies are naturals: no time of an access unit is negative
\* before the code makes it unsigned, and no more bits leave than are there.
THEOREM TypeCorrect == Spec => []TypeOK
<1>1. IInv => TypeOK BY DEF IInv
<1> QED BY <1>1, Invariant, PTL

\* cpbBitsOccupancy of processAUH264HrdContext() is the sum of the lengths of
\* the access units that wait in the CPB.
THEOREM OccupancyIsExact == Spec => []OccupancyExact
<1>1. IInv => OccupancyExact BY DEF IInv
<1> QED BY <1>1, Invariant, PTL

\* A stream whose access units processAUH264HrdContext() all let pass overflows
\* an ideal CPB at no instant.
THEOREM CpbIsSound == Spec => []CpbSound
<1>1. IInv => CpbSound BY DEF IInv
<1> QED BY <1>1, Invariant, PTL

\* After any number of removals and outputs picInDpb holds the pictures stored
\* and not output, no other and each at its time.
THEOREM DpbIsExact == Spec => []DpbExact
<1>1. IInv => DpbExact BY DEF IInv
<1> QED BY <1>1, Invariant, PTL

=============================================================================
