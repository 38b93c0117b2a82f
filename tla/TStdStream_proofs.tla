-------------------------- MODULE TStdStream_proofs --------------------------
(***************************************************************************)
(* What holds of a branch of the T-STD model whatever its buffers' sizes   *)
(* and rates, the PES packets that are registered, the size of a transport *)
(* packet and the times at which the muxer comes back to it, for a chain   *)
(* of one of the three shapes that the code builds (ChainAssumption).      *)
(*                                                                         *)
(* IInv says of each buffer (Sound) that its level is within its size, that *)
(* its empty frames come first and, of a removal buffer, that the head of  *)
(* its frames is to come unless it holds nothing; and of the chain         *)
(* (ChainSound) that what a buffer's frames announce and it does not hold  *)
(* is exactly the data that is upstream.                                   *)
(* This is what makes "unexpected data" impossible: what comes has frames. *)
(* No overflow follows from FitsStill: the check asks for a packet with    *)
(* its headers, the update passes the data only, finds a buffer before it  *)
(* with the same level, and lets at least as much out.                     *)
(* Sums are recursive functions: Smallest and Induct give the induction.   *)
(***************************************************************************)
EXTENDS TStdStream, WellFoundedInduction, TLAPS

\* A non-empty set of naturals has a least element.
LEMMA Smallest ==
  ASSUME NEW S \in SUBSET Nat, S # {}
  PROVE  \E n \in S : \A m \in S : n <= m
<1> DEFINE R == OpToRel(<, Nat)
<1>1. IsWellFoundedOn(R, Nat) BY NatLessThanWellFounded
<1>2. PICK x \in S : \A y \in S : ~(<<y, x>> \in R)
  <2> HIDE DEF R
  <2> QED BY <1>1, WFMin
<1>3. \A y \in S : ~(y < x) BY <1>2 DEF OpToRel
<1> QED BY <1>3

\* Induction on the membership in a set.
LEMMA Induct ==
  ASSUME NEW S, 0 \in S, \A n \in Nat : n \in S => n + 1 \in S
  PROVE  \A n \in Nat : n \in S
<1> DEFINE Rest == {n \in Nat : n \notin S}
<1> SUFFICES ASSUME Rest # {} PROVE FALSE OBVIOUS
<1> HIDE DEF Rest
<1>1. PICK m \in Rest : \A n \in Rest : m <= n
  <2>1. Rest \in SUBSET Nat BY DEF Rest
  <2> QED BY <2>1, Smallest
<1>2. m \in Nat /\ m \notin S /\ m # 0 BY <1>1 DEF Rest
<1>3. m - 1 \in Nat /\ m = (m - 1) + 1 BY <1>2
<1>4. m - 1 \notin S BY <1>2, <1>3
<1>5. m - 1 \in Rest BY <1>3, <1>4 DEF Rest
<1> QED BY <1>1, <1>2, <1>3, <1>5

-----------------------------------------------------------------------------
(* Sums.                                                                    *)

\* What SumOf computes, element after element.
LEMMA SumSteps ==
  ASSUME NEW s, Len(s) \in Nat
  PROVE  /\ SumOf(s, 0) = 0
         /\ \A n \in 1..Len(s) : SumOf(s, n) = SumOf(s, n - 1) + s[n]
<1> DEFINE Right(n, g) == g = [k \in 0..n |-> IF k = 0 THEN 0 ELSE g[k - 1] + s[k]]
           S == {n \in Nat : \E g : Right(n, g)}
<1>1. \A n \in Nat : n \in S
  <2>1. 0 \in S
    <3>1. Right(0, [k \in 0..0 |-> 0]) OBVIOUS
    <3> QED BY <3>1
  <2>2. ASSUME NEW n \in Nat, n \in S PROVE n + 1 \in S
    <3>1. PICK g : Right(n, g) BY <2>2
    <3> DEFINE e == [k \in 0..(n + 1) |-> IF k = n + 1 THEN g[n] + s[n + 1] ELSE g[k]]
    <3>2. ASSUME NEW k \in 0..(n + 1) PROVE e[k] = IF k = 0 THEN 0 ELSE e[k - 1] + s[k]
      <4>1. CASE k = n + 1
        <5>1. n \in 0..(n + 1) /\ n # n + 1 /\ k # 0 /\ k - 1 = n BY <4>1
        <5>2. e[n] = g[n] BY <5>1
        <5>3. e[k] = g[n] + s[n + 1] BY <4>1
        <5> QED BY <4>1, <5>1, <5>2, <5>3
      <4>2. CASE k = 0
        <5>1. 0 \in 0..n /\ 0 # n + 1 OBVIOUS
        <5>2. g[0] = 0 BY <3>1, <5>1
        <5> QED BY <4>2, <5>1, <5>2
      <4>3. CASE k # 0 /\ k # n + 1
        <5>1. k \in 0..n /\ k - 1 \in 0..(n + 1) /\ k - 1 # n + 1 BY <4>3
        <5>2. g[k] = g[k - 1] + s[k] BY <3>1, <4>3, <5>1
        <5>3. e[k] = g[k] /\ e[k - 1] = g[k - 1] BY <4>3, <5>1
        <5> QED BY <4>3, <5>2, <5>3
      <4> QED BY <4>1, <4>2, <4>3
    <3>3. e = [k \in 0..(n + 1) |-> e[k]] OBVIOUS
    <3> HIDE DEF e
    <3>4. Right(n + 1, e) BY <3>2, <3>3
    <3> QED BY <3>4
  <2> HIDE DEF S
  <2> QED BY <2>1, <2>2, Induct
<1> DEFINE sum == CHOOSE g : Right(Len(s), g)
<1>2. Right(Len(s), sum)
  <2>1. \E g : Right(Len(s), g) BY <1>1
  <2> HIDE DEF Right
  <2> QED BY <2>1
<1>3. \A n : SumOf(s, n) = sum[n] BY DEF SumOf
<1> HIDE DEF sum
<1>4. sum[0] = 0
  <2>1. 0 \in 0..Len(s) OBVIOUS
  <2> QED BY <1>2, <2>1
<1>5. ASSUME NEW n \in 1..Len(s) PROVE sum[n] = sum[n - 1] + s[n]
  <2>1. n \in 0..Len(s) /\ n # 0 OBVIOUS
  <2> QED BY <1>2, <2>1
<1> QED BY <1>3, <1>4, <1>5

\* A sum of naturals is one.
LEMMA SumNat ==
  ASSUME NEW s \in Seq(Nat)
  PROVE  \A n \in 0..Len(s) : SumOf(s, n) \in Nat
<1> DEFINE S == {n \in Nat : n <= Len(s) => SumOf(s, n) \in Nat}
<1>1. 0 \in S BY SumSteps
<1>2. ASSUME NEW n \in Nat, n \in S PROVE n + 1 \in S
  <2> SUFFICES ASSUME n + 1 <= Len(s) PROVE SumOf(s, n + 1) \in Nat OBVIOUS
  <2>1. n + 1 \in 1..Len(s) /\ (n + 1) - 1 = n OBVIOUS
  <2>2. SumOf(s, n + 1) = SumOf(s, n) + s[n + 1] BY <2>1, SumSteps
  <2>3. SumOf(s, n) \in Nat BY <1>2
  <2>4. s[n + 1] \in Nat BY <2>1
  <2> QED BY <2>2, <2>3, <2>4
<1> HIDE DEF S
<1>3. \A n \in Nat : n \in S BY <1>1, <1>2, Induct
<1> QED BY <1>3 DEF S

\* More elements make no smaller a sum.
LEMMA SumGrows ==
  ASSUME NEW s \in Seq(Nat), NEW m \in Nat
  PROVE  \A n \in Nat : m <= n /\ n <= Len(s) => SumOf(s, m) <= SumOf(s, n)
<1> DEFINE S == {n \in Nat : m <= n /\ n <= Len(s) => SumOf(s, m) <= SumOf(s, n)}
<1>1. 0 \in S
  <2>1. m <= 0 => m = 0 OBVIOUS
  <2>2. SumOf(s, 0) <= SumOf(s, 0) BY SumSteps
  <2> QED BY <2>1, <2>2
<1>2. ASSUME NEW n \in Nat, n \in S PROVE n + 1 \in S
  <2> SUFFICES ASSUME m <= n + 1, n + 1 <= Len(s) PROVE SumOf(s, m) <= SumOf(s, n + 1) OBVIOUS
  <2>1. n + 1 \in 1..Len(s) /\ (n + 1) - 1 = n OBVIOUS
  <2>2. SumOf(s, n + 1) = SumOf(s, n) + s[n + 1] BY <2>1, SumSteps
  <2>3. SumOf(s, n) \in Nat /\ SumOf(s, m) \in Nat /\ SumOf(s, n + 1) \in Nat BY SumNat
  <2>4. s[n + 1] \in Nat BY <2>1
  <2>5. CASE m = n + 1 BY <2>3, <2>5
  <2>6. CASE m <= n BY <1>2, <2>2, <2>3, <2>4, <2>6
  <2> QED BY <2>5, <2>6
<1> HIDE DEF S
<1>3. \A n \in Nat : n \in S BY <1>1, <1>2, Induct
<1> QED BY <1>3 DEF S

\* The sum of two sequences added element by element.
LEMMA SumPlus ==
  ASSUME NEW s \in Seq(Nat), NEW t \in Seq(Nat), NEW u \in Seq(Nat),
         Len(t) = Len(s), Len(u) = Len(s), \A i \in 1..Len(s) : s[i] = t[i] + u[i]
  PROVE  \A n \in 0..Len(s) : SumOf(s, n) = SumOf(t, n) + SumOf(u, n)
<1> DEFINE S == {n \in Nat : n <= Len(s) => SumOf(s, n) = SumOf(t, n) + SumOf(u, n)}
<1>1. 0 \in S BY SumSteps
<1>2. ASSUME NEW n \in Nat, n \in S PROVE n + 1 \in S
  <2> SUFFICES ASSUME n + 1 <= Len(s)
               PROVE  SumOf(s, n + 1) = SumOf(t, n + 1) + SumOf(u, n + 1) OBVIOUS
  <2>1. n + 1 \in 1..Len(s) /\ (n + 1) - 1 = n OBVIOUS
  <2>2. /\ SumOf(s, n + 1) = SumOf(s, n) + s[n + 1]
        /\ SumOf(t, n + 1) = SumOf(t, n) + t[n + 1]
        /\ SumOf(u, n + 1) = SumOf(u, n) + u[n + 1]
    BY <2>1, SumSteps
  <2>3. SumOf(t, n) \in Nat /\ SumOf(u, n) \in Nat BY SumNat, SMTT(20)
  <2>4. t[n + 1] \in Nat /\ u[n + 1] \in Nat BY <2>1, SMTT(20)
  <2>5. SumOf(s, n) = SumOf(t, n) + SumOf(u, n) /\ s[n + 1] = t[n + 1] + u[n + 1] BY <1>2, <2>1
  <2> DEFINE a == SumOf(t, n)
             b == SumOf(u, n)
             c == t[n + 1]
             e == u[n + 1]
  <2>6. a \in Nat /\ b \in Nat /\ c \in Nat /\ e \in Nat BY <2>3, <2>4
  <2>7. /\ SumOf(s, n + 1) = (a + b) + (c + e)
        /\ SumOf(t, n + 1) = a + c /\ SumOf(u, n + 1) = b + e BY <2>2, <2>5
  <2> HIDE DEF a, b, c, e
  <2> QED BY <2>6, <2>7
<1> HIDE DEF S
<1>3. \A n \in Nat : n \in S BY <1>1, <1>2, Induct
<1> QED BY <1>3 DEF S

\* The same for the whole sequences.
LEMMA SumSplit ==
  ASSUME NEW N \in Nat, NEW s \in Seq(Nat), NEW t \in Seq(Nat), NEW u \in Seq(Nat),
         Len(s) = N, Len(t) = N, Len(u) = N, \A i \in 1..N : s[i] = t[i] + u[i]
  PROVE  SumOf(s, N) = SumOf(t, N) + SumOf(u, N)
<1>1. \A i \in 1..Len(s) : s[i] = t[i] + u[i] OBVIOUS
<1>2. Len(t) = Len(s) /\ Len(u) = Len(s) OBVIOUS
<1>3. \A n \in 0..Len(s) : SumOf(s, n) = SumOf(t, n) + SumOf(u, n) BY <1>1, <1>2, SumPlus
<1> QED BY <1>3

\* A part of s, from element d + 1 on.
LEMMA SumShift ==
  ASSUME NEW s \in Seq(Nat), NEW t \in Seq(Nat), NEW d \in Nat, NEW m \in Nat,
         m <= Len(t), m + d <= Len(s), \A i \in 1..m : t[i] = s[i + d]
  PROVE  SumOf(s, m + d) = SumOf(s, d) + SumOf(t, m)
<1> DEFINE S == {n \in Nat : n <= m => SumOf(s, n + d) = SumOf(s, d) + SumOf(t, n)}
<1>1. 0 \in S
  <2>1. SumOf(t, 0) = 0 /\ SumOf(s, d) \in Nat /\ 0 + d = d BY SumSteps, SumNat
  <2> QED BY <2>1
<1>2. ASSUME NEW n \in Nat, n \in S PROVE n + 1 \in S
  <2> SUFFICES ASSUME n + 1 <= m
               PROVE  SumOf(s, (n + 1) + d) = SumOf(s, d) + SumOf(t, n + 1) OBVIOUS
  <2>1. /\ n + 1 \in 1..Len(t) /\ (n + 1) - 1 = n /\ n + 1 \in 1..m
        /\ n + 1 + d \in 1..Len(s) /\ (n + 1 + d) - 1 = n + d OBVIOUS
  <2> DEFINE j == n + 1 + d
  <2>2. SumOf(s, j) = SumOf(s, n + d) + s[j] /\ SumOf(t, n + 1) = SumOf(t, n) + t[n + 1]
    <3>1. Len(s) \in Nat /\ Len(t) \in Nat /\ j \in 1..Len(s) /\ j - 1 = n + d BY <2>1
    <3> HIDE DEF j
    <3>2. SumOf(s, j) = SumOf(s, j - 1) + s[j] BY <3>1, SumSteps
    <3>3. SumOf(t, n + 1) = SumOf(t, (n + 1) - 1) + t[n + 1] BY <2>1, <3>1, SumSteps
    <3> QED BY <2>1, <3>1, <3>2, <3>3
  <2>3. SumOf(t, n) \in Nat /\ SumOf(s, d) \in Nat BY SumNat
  <2>4. t[n + 1] \in Nat /\ s[j] = t[n + 1] BY <2>1, SMTT(20)
  <2>5. SumOf(s, n + d) = SumOf(s, d) + SumOf(t, n) BY <1>2
  <2> DEFINE a == SumOf(s, d)
             b == SumOf(t, n)
             c == t[n + 1]
  <2>6. a \in Nat /\ b \in Nat /\ c \in Nat BY <2>3, <2>4
  <2>7. SumOf(s, j) = (a + b) + c /\ SumOf(t, n + 1) = b + c BY <2>2, <2>4, <2>5
  <2> HIDE DEF a, b, c
  <2>8. SumOf(s, j) = a + SumOf(t, n + 1) BY <2>6, <2>7
  <2> QED BY <2>8 DEF a
<1> HIDE DEF S
<1>3. \A n \in Nat : n \in S BY <1>1, <1>2, Induct
<1> QED BY <1>3 DEF S

\* Elements that are all zero add up to zero.
LEMMA SumZero ==
  ASSUME NEW s \in Seq(Nat), NEW m \in Nat, m <= Len(s), \A i \in 1..m : s[i] = 0
  PROVE  SumOf(s, m) = 0
<1> DEFINE S == {n \in Nat : n <= m => SumOf(s, n) = 0}
<1>1. 0 \in S BY SumSteps
<1>2. ASSUME NEW n \in Nat, n \in S PROVE n + 1 \in S
  <2> SUFFICES ASSUME n + 1 <= m PROVE SumOf(s, n + 1) = 0 OBVIOUS
  <2>1. n + 1 \in 1..Len(s) /\ n + 1 \in 1..m /\ (n + 1) - 1 = n OBVIOUS
  <2>2. SumOf(s, n + 1) = SumOf(s, n) + s[n + 1] BY <2>1, SumSteps
  <2>3. SumOf(s, n) = 0 /\ s[n + 1] = 0 BY <1>2, <2>1
  <2> QED BY <2>2, <2>3
<1> HIDE DEF S
<1>3. \A n \in Nat : n \in S BY <1>1, <1>2, Induct
<1> QED BY <1>3 DEF S

-----------------------------------------------------------------------------
(* Frames.                                                                  *)

Frame == [header : Nat, data : Nat, removal : Nat]
DataOf(frames) == [i \in 1..Len(frames) |-> frames[i].data]

\* The sums of bits and of data of frames, which are naturals.
LEMMA FrameSums ==
  ASSUME NEW f \in Seq(Frame)
  PROVE  /\ BitsOf(f) \in Seq(Nat) /\ Len(BitsOf(f)) = Len(f)
         /\ DataOf(f) \in Seq(Nat) /\ Len(DataOf(f)) = Len(f)
         /\ \A i \in 1..Len(f) : /\ BitsOf(f)[i] = FrameBits(f[i]) /\ FrameBits(f[i]) \in Nat
                                 /\ DataOf(f)[i] = f[i].data
         /\ FramesBits(f) = SumOf(BitsOf(f), Len(f)) /\ FramesBits(f) \in Nat
         /\ FramesData(f) = SumOf(DataOf(f), Len(f)) /\ FramesData(f) \in Nat
<1>1. ASSUME NEW i \in 1..Len(f) PROVE FrameBits(f[i]) \in Nat /\ f[i].data \in Nat
  <2>1. f[i] \in Frame OBVIOUS
  <2>2. f[i].header \in Nat /\ f[i].data \in Nat BY <2>1 DEF Frame
  <2> QED BY <2>2 DEF FrameBits
<1>2. BitsOf(f) \in Seq(Nat) /\ Len(BitsOf(f)) = Len(f) BY <1>1 DEF BitsOf
<1>3. DataOf(f) \in Seq(Nat) /\ Len(DataOf(f)) = Len(f) BY <1>1 DEF DataOf
<1>4. FramesBits(f) = SumOf(BitsOf(f), Len(f)) /\ FramesData(f) = SumOf(DataOf(f), Len(f))
  BY DEF FramesBits, FramesData, DataOf
<1>5. FramesBits(f) \in Nat
  <2>1. Len(f) \in 0..Len(BitsOf(f)) BY <1>2
  <2> QED BY <1>2, <1>4, <2>1, SumNat
<1>6. FramesData(f) \in Nat
  <2>1. Len(f) \in 0..Len(DataOf(f)) BY <1>3
  <2> QED BY <1>3, <1>4, <2>1, SumNat
<1> QED BY <1>1, <1>2, <1>3, <1>4, <1>5, <1>6 DEF BitsOf, DataOf

\* A new buffer has nothing registered.
LEMMA NoFrames == FramesBits(<<>>) = 0 /\ FramesData(<<>>) = 0
<1>1. Len(<<>>) = 0 OBVIOUS
<1>2. FramesBits(<<>>) = SumOf(BitsOf(<<>>), 0) /\ FramesData(<<>>) = SumOf(DataOf(<<>>), 0)
  BY <1>1 DEF FramesBits, FramesData, DataOf
<1>3. Len(BitsOf(<<>>)) \in Nat /\ Len(DataOf(<<>>)) \in Nat
  <2>1. <<>> \in Seq(Frame) OBVIOUS
  <2> QED BY <1>1, <2>1, FrameSums
<1> QED BY <1>2, <1>3, SumSteps

\* What addFrameToBuffer() adds to the sums.
LEMMA FrameAdded ==
  ASSUME NEW f \in Seq(Frame), NEW x \in Frame
  PROVE  /\ Append(f, x) \in Seq(Frame)
         /\ FramesBits(Append(f, x)) = FramesBits(f) + FrameBits(x)
         /\ FramesData(Append(f, x)) = FramesData(f) + x.data
<1> DEFINE g == Append(f, x)
           n == Len(f)
<1>1. g \in Seq(Frame) /\ Len(g) = n + 1 /\ g[n + 1] = x /\ \A i \in 1..n : g[i] = f[i] OBVIOUS
<1> HIDE DEF g
<1>2. n \in Nat OBVIOUS
<1>3. FramesBits(g) = FramesBits(f) + FrameBits(x)
  <2>1. ASSUME NEW i \in 1..n PROVE BitsOf(f)[i] = BitsOf(g)[i]
    <3>1. i \in 1..Len(f) /\ i \in 1..Len(g) /\ f[i] = g[i] BY <1>1, <1>2
    <3> QED BY <1>1, <3>1, FrameSums
  <2>2. SumOf(BitsOf(g), n) = SumOf(BitsOf(g), 0) + SumOf(BitsOf(f), n)
    <3>1. /\ BitsOf(g) \in Seq(Nat) /\ BitsOf(f) \in Seq(Nat)
          /\ Len(BitsOf(g)) = n + 1 /\ Len(BitsOf(f)) = n BY <1>1, FrameSums
    <3>2. \A i \in 1..n : i + 0 = i OBVIOUS
    <3> DEFINE b == BitsOf(g)
               c == BitsOf(f)
    <3>3. \A i \in 1..n : c[i] = b[i + 0] BY <2>1, <3>2
    <3>4. 0 \in Nat /\ n + 0 = n /\ n <= Len(c) /\ n + 0 <= Len(b) BY <1>2, <3>1
    <3>5. b \in Seq(Nat) /\ c \in Seq(Nat) BY <3>1
    <3> HIDE DEF b, c
    <3>6. SumOf(b, n + 0) = SumOf(b, 0) + SumOf(c, n)
      BY <1>2, <3>3, <3>4, <3>5, SumShift
    <3> QED BY <3>4, <3>6 DEF b, c
  <2>3. /\ SumOf(BitsOf(g), 0) = 0
        /\ SumOf(BitsOf(g), n + 1) = SumOf(BitsOf(g), (n + 1) - 1) + BitsOf(g)[n + 1]
    <3>1. Len(BitsOf(g)) \in Nat /\ n + 1 \in 1..Len(BitsOf(g)) BY <1>1, <1>2, FrameSums
    <3> QED BY <3>1, SumSteps
  <2>4. BitsOf(g)[n + 1] = FrameBits(x) /\ FrameBits(x) \in Nat
    <3>1. n + 1 \in 1..Len(g) BY <1>1, <1>2
    <3> QED BY <1>1, <3>1, FrameSums
  <2>5. FramesBits(f) = SumOf(BitsOf(f), n) /\ FramesBits(g) = SumOf(BitsOf(g), n + 1) /\ FramesBits(f) \in Nat
    BY <1>1, FrameSums
  <2> QED BY <1>2, <2>2, <2>3, <2>4, <2>5
<1>4. FramesData(g) = FramesData(f) + x.data
  <2>1. ASSUME NEW i \in 1..n PROVE DataOf(f)[i] = DataOf(g)[i]
    <3>1. i \in 1..Len(f) /\ i \in 1..Len(g) /\ f[i] = g[i] BY <1>1, <1>2
    <3> QED BY <1>1, <3>1, FrameSums
  <2>2. SumOf(DataOf(g), n) = SumOf(DataOf(g), 0) + SumOf(DataOf(f), n)
    <3>1. /\ DataOf(g) \in Seq(Nat) /\ DataOf(f) \in Seq(Nat)
          /\ Len(DataOf(g)) = n + 1 /\ Len(DataOf(f)) = n BY <1>1, FrameSums
    <3>2. \A i \in 1..n : i + 0 = i OBVIOUS
    <3> DEFINE b == DataOf(g)
               c == DataOf(f)
    <3>3. \A i \in 1..n : c[i] = b[i + 0] BY <2>1, <3>2
    <3>4. 0 \in Nat /\ n + 0 = n /\ n <= Len(c) /\ n + 0 <= Len(b) BY <1>2, <3>1
    <3>5. b \in Seq(Nat) /\ c \in Seq(Nat) BY <3>1
    <3> HIDE DEF b, c
    <3>6. SumOf(b, n + 0) = SumOf(b, 0) + SumOf(c, n)
      BY <1>2, <3>3, <3>4, <3>5, SumShift
    <3> QED BY <3>4, <3>6 DEF b, c
  <2>3. /\ SumOf(DataOf(g), 0) = 0
        /\ SumOf(DataOf(g), n + 1) = SumOf(DataOf(g), (n + 1) - 1) + DataOf(g)[n + 1]
    <3>1. Len(DataOf(g)) \in Nat /\ n + 1 \in 1..Len(DataOf(g)) BY <1>1, <1>2, FrameSums
    <3> QED BY <3>1, SumSteps
  <2>4. DataOf(g)[n + 1] = x.data /\ x.data \in Nat
    <3>1. n + 1 \in 1..Len(g) BY <1>1, <1>2
    <3> QED BY <1>1, <3>1, FrameSums DEF Frame
  <2>5. FramesData(f) = SumOf(DataOf(f), n) /\ FramesData(g) = SumOf(DataOf(g), n + 1) /\ FramesData(f) \in Nat
    BY <1>1, FrameSums
  <2> QED BY <1>2, <2>2, <2>3, <2>4, <2>5
<1> QED BY <1>1, <1>3, <1>4 DEF g

EmptyFirst(f) == \A i, j \in 1..Len(f) : i < j /\ FrameBits(f[j]) = 0 => FrameBits(f[i]) = 0

\* MIN() of naturals is the lower bound of both.
LEMMA MinNat ==
  \A a, b : a \in Nat /\ b \in Nat => /\ MIN(a, b) \in Nat /\ MIN(a, b) <= a /\ MIN(a, b) <= b
                                      /\ a - MIN(a, b) \in Nat /\ b - MIN(a, b) \in Nat
                                      /\ (MIN(a, b) = a \/ MIN(a, b) = b)
BY DEF MIN

\* What is left for a frame, and what the frame keeps.
LEMMA FrameTakes ==
  ASSUME NEW f \in Seq(Frame), NEW w \in Nat, NEW n \in 1..Len(f)
  PROVE  LET b == FrameBits(f[n])
             l == Left(f, w, n)
             h == HeaderTaken(f, w, n)
             d == DataTaken(f, w, n)
         IN  /\ l \in Nat /\ h \in Nat /\ d \in Nat
             /\ f[n].header - h \in Nat /\ f[n].data - d \in Nat
             /\ h + d = MIN(b, l)
             /\ l = w - MIN(w, SumOf(BitsOf(f), n - 1))
             /\ Left(f, w, n + 1) = l - MIN(b, l)
<1> DEFINE b == FrameBits(f[n])
           l == Left(f, w, n)
           h == HeaderTaken(f, w, n)
           d == DataTaken(f, w, n)
           x == SumOf(BitsOf(f), n - 1)
           y == SumOf(BitsOf(f), n)
           fh == f[n].header
           fd == f[n].data
<1>1. /\ fh \in Nat /\ fd \in Nat /\ b = fh + fd
  <2>1. f[n] \in Frame OBVIOUS
  <2> QED BY <2>1 DEF Frame, FrameBits
<1>2. x \in Nat /\ y = x + b
  <2>1. BitsOf(f) \in Seq(Nat) /\ Len(BitsOf(f)) = Len(f) /\ BitsOf(f)[n] = b BY FrameSums
  <2>2. n - 1 \in 0..Len(BitsOf(f)) /\ n \in 1..Len(BitsOf(f)) /\ Len(BitsOf(f)) \in Nat BY <2>1
  <2>3. x \in Nat BY <2>1, <2>2, SumNat
  <2>4. y = x + BitsOf(f)[n] BY <2>2, SumSteps
  <2> QED BY <2>1, <2>3, <2>4
<1>3. l = w - MIN(w, x) BY DEF Left
<1>4. h = MIN(fh, l) /\ d = MIN(fd, l - h) BY DEF HeaderTaken, DataTaken
<1>5. Left(f, w, n + 1) = w - MIN(w, y)
  <2>1. (n + 1) - 1 = n OBVIOUS
  <2> QED BY <2>1 DEF Left
<1> HIDE DEF b, l, h, d, x, y, fh, fd
<1>6. l \in Nat BY <1>2, <1>3, MinNat
<1>7. h \in Nat /\ fh - h \in Nat /\ l - h \in Nat BY <1>1, <1>4, <1>6, MinNat
<1>8. d \in Nat /\ fd - d \in Nat BY <1>1, <1>4, <1>7, MinNat
<1>9. h + d = MIN(b, l) BY <1>1, <1>4, <1>6, <1>7, <1>8 DEF MIN
<1>10. w - MIN(w, y) = l - MIN(b, l) BY <1>1, <1>2, <1>3 DEF MIN
<1> QED BY <1>3, <1>5, <1>6, <1>7, <1>8, <1>9, <1>10 DEF b, l, h, d, x, fh, fd

Kept(f, w) == Consumed(f, w).frames

\* A frame whose turn came loses what is left of the bandwidth, the others nothing.
LEMMA KeptFrames ==
  ASSUME NEW f \in Seq(Frame), NEW w \in Nat
  PROVE  /\ Kept(f, w) \in Seq(Frame) /\ Len(Kept(f, w)) = Len(f)
         /\ \A n \in 1..Len(f) :
              /\ Kept(f, w)[n].removal = f[n].removal
              /\ Kept(f, w)[n].data = f[n].data - DataTaken(f, w, n)
              /\ FrameBits(Kept(f, w)[n]) = FrameBits(f[n]) - MIN(FrameBits(f[n]), Left(f, w, n))
<1> DEFINE g == Kept(f, w)
           e(n) == [f[n] EXCEPT !.header = @ - HeaderTaken(f, w, n), !.data = @ - DataTaken(f, w, n)]
<1>1. g = [n \in 1..Len(f) |-> e(n)] BY DEF Kept, Consumed
<1>2. ASSUME NEW n \in 1..Len(f)
      PROVE  /\ e(n) \in Frame /\ e(n).removal = f[n].removal
             /\ e(n).data = f[n].data - DataTaken(f, w, n)
             /\ FrameBits(e(n)) = FrameBits(f[n]) - MIN(FrameBits(f[n]), Left(f, w, n))
  <2>1. f[n] \in Frame OBVIOUS
  <2>2. /\ f[n].header - HeaderTaken(f, w, n) \in Nat /\ f[n].data - DataTaken(f, w, n) \in Nat
        /\ HeaderTaken(f, w, n) \in Nat /\ DataTaken(f, w, n) \in Nat
        /\ HeaderTaken(f, w, n) + DataTaken(f, w, n) = MIN(FrameBits(f[n]), Left(f, w, n))
    BY FrameTakes
  <2>3. /\ e(n).header = f[n].header - HeaderTaken(f, w, n)
        /\ e(n).data = f[n].data - DataTaken(f, w, n)
        /\ e(n).removal = f[n].removal
        /\ e(n) \in Frame BY <2>1, <2>2 DEF Frame
  <2>4. f[n].header \in Nat /\ f[n].data \in Nat BY <2>1 DEF Frame
  <2>5. FrameBits(e(n)) = (f[n].header - HeaderTaken(f, w, n)) + (f[n].data - DataTaken(f, w, n))
    BY <2>3 DEF FrameBits
  <2>6. FrameBits(f[n]) = f[n].header + f[n].data BY DEF FrameBits
  <2>7. FrameBits(e(n)) = FrameBits(f[n]) - MIN(FrameBits(f[n]), Left(f, w, n))
    <3> DEFINE a == f[n].header
               b == f[n].data
               h == HeaderTaken(f, w, n)
               d == DataTaken(f, w, n)
    <3>1. a \in Nat /\ b \in Nat /\ h \in Nat /\ d \in Nat BY <2>2, <2>4
    <3>2. MIN(FrameBits(f[n]), Left(f, w, n)) = h + d /\ FrameBits(f[n]) = a + b
          /\ FrameBits(e(n)) = (a - h) + (b - d) BY <2>2, <2>5, <2>6
    <3> HIDE DEF a, b, h, d, e
    <3> QED BY <3>1, <3>2
  <2> QED BY <2>3, <2>7
<1> HIDE DEF e
<1>3. g \in Seq(Frame) /\ Len(g) = Len(f) BY <1>1, <1>2
<1> QED BY <1>1, <1>2, <1>3 DEF g

\* The bits that leave the frames, and the data that they emit.
LEMMA ConsumedSums ==
  ASSUME NEW f \in Seq(Frame), NEW w \in Nat
  PROVE  LET c == Consumed(f, w)
         IN  /\ c.left = w - MIN(w, FramesBits(f))
             /\ FramesBits(c.frames) = FramesBits(f) - MIN(w, FramesBits(f))
             /\ c.emitted \in Nat /\ c.emitted <= MIN(w, FramesBits(f))
             /\ FramesData(c.frames) = FramesData(f) - c.emitted
<1> DEFINE N == Len(f)
           g == Kept(f, w)
           taken == [n \in 1..N |-> MIN(FrameBits(f[n]), Left(f, w, n))]
           data == [n \in 1..N |-> DataTaken(f, w, n)]
           header == [n \in 1..N |-> HeaderTaken(f, w, n)]
           F(n) == MIN(w, SumOf(BitsOf(f), n))
<1>1. ASSUME NEW n \in 1..N
      PROVE  /\ taken[n] \in Nat /\ data[n] \in Nat /\ header[n] \in Nat
             /\ taken[n] = data[n] + header[n]
             /\ F(n) = F(n - 1) + taken[n]
             /\ FrameBits(f[n]) = FrameBits(g[n]) + taken[n]
             /\ f[n].data = g[n].data + data[n]
  <2>1. /\ Left(f, w, n) \in Nat /\ HeaderTaken(f, w, n) \in Nat /\ DataTaken(f, w, n) \in Nat
        /\ HeaderTaken(f, w, n) + DataTaken(f, w, n) = MIN(FrameBits(f[n]), Left(f, w, n))
        /\ Left(f, w, n) = w - MIN(w, SumOf(BitsOf(f), n - 1))
        /\ Left(f, w, n + 1) = Left(f, w, n) - MIN(FrameBits(f[n]), Left(f, w, n))
    BY FrameTakes
  <2>2. FrameBits(f[n]) \in Nat BY FrameSums
  <2>3. MIN(FrameBits(f[n]), Left(f, w, n)) \in Nat BY <2>1, <2>2, MinNat
  <2>4. Left(f, w, n + 1) = w - F(n)
    <3>1. (n + 1) - 1 = n OBVIOUS
    <3> QED BY <3>1 DEF Left
  <2>5. F(n) \in Nat /\ F(n - 1) \in Nat
    <3>1. /\ BitsOf(f) \in Seq(Nat) /\ n \in 0..Len(BitsOf(f)) /\ n - 1 \in 0..Len(BitsOf(f)) BY FrameSums
    <3>2. SumOf(BitsOf(f), n) \in Nat /\ SumOf(BitsOf(f), n - 1) \in Nat BY <3>1, SumNat
    <3> QED BY <3>2, MinNat
  <2>6. F(n) = F(n - 1) + MIN(FrameBits(f[n]), Left(f, w, n))
    <3> HIDE DEF F
    <3>1. Left(f, w, n) = w - F(n - 1) BY <2>1 DEF F
    <3> DEFINE x == F(n)
               y == F(n - 1)
               z == MIN(FrameBits(f[n]), Left(f, w, n))
    <3>2. w - x = (w - y) - z BY <2>1, <2>4, <3>1
    <3>3. x \in Nat /\ y \in Nat /\ z \in Nat BY <2>3, <2>5
    <3> HIDE DEF x, y, z
    <3>4. x = y + z BY <3>2, <3>3
    <3> QED BY <3>4 DEF x, y, z
  <2>7. /\ FrameBits(g[n]) = FrameBits(f[n]) - taken[n] /\ g[n].data = f[n].data - data[n]
    BY KeptFrames
  <2>8. g[n] \in Frame /\ f[n] \in Frame BY KeptFrames
  <2>9. g[n].data \in Nat /\ f[n].data \in Nat BY <2>8 DEF Frame
  <2>10. taken[n] = MIN(FrameBits(f[n]), Left(f, w, n)) /\ data[n] = DataTaken(f, w, n) /\ header[n] = HeaderTaken(f, w, n)
    OBVIOUS
  <2> HIDE DEF F, g, taken, data, header
  <2>11. taken[n] \in Nat /\ data[n] \in Nat /\ header[n] \in Nat /\ taken[n] = data[n] + header[n]
    BY <2>1, <2>3, <2>10
  <2>12. FrameBits(f[n]) = FrameBits(g[n]) + taken[n] BY <2>2, <2>7, <2>11
  <2>13. f[n].data = g[n].data + data[n] BY <2>7, <2>9, <2>11
  <2> QED BY <2>6, <2>10, <2>11, <2>12, <2>13
<1>2. /\ taken \in Seq(Nat) /\ data \in Seq(Nat) /\ header \in Seq(Nat) /\ N \in Nat
      /\ Len(taken) = N /\ Len(data) = N /\ Len(header) = N
  <2> HIDE DEF F, g
  <2>1. /\ \A n \in 1..N : taken[n] \in Nat /\ data[n] \in Nat /\ header[n] \in Nat BY <1>1
  <2>2. taken \in [1..N -> Nat] /\ data \in [1..N -> Nat] /\ header \in [1..N -> Nat] BY <2>1
  <2> QED BY <2>2
<1>3. g \in Seq(Frame) /\ Len(g) = N BY KeptFrames
<1>4. /\ Consumed(f, w).left = w - F(N)
      /\ Consumed(f, w).emitted = SumOf(data, N)
      /\ Consumed(f, w).frames = g
  <2>1. (N + 1) - 1 = N OBVIOUS
  <2> QED BY <2>1 DEF Consumed, Left, Kept
<1>5. F(N) = MIN(w, FramesBits(f)) BY FrameSums
<1> HIDE DEF g, taken, data, header
<1>6. SumOf(taken, N) = F(N)
  <2> DEFINE S == {n \in Nat : n <= N => SumOf(taken, n) = F(n)}
  <2>1. 0 \in S
    <3>1. SumOf(taken, 0) = 0 BY <1>2, SumSteps
    <3>2. SumOf(BitsOf(f), 0) = 0
      <4>1. Len(BitsOf(f)) \in Nat BY FrameSums
      <4> QED BY <4>1, SumSteps
    <3>3. MIN(w, 0) = 0 BY DEF MIN
    <3> QED BY <3>1, <3>2, <3>3
  <2>2. ASSUME NEW n \in Nat, n \in S PROVE n + 1 \in S
    <3> SUFFICES ASSUME n + 1 <= N PROVE SumOf(taken, n + 1) = F(n + 1) OBVIOUS
    <3> HIDE DEF F
    <3>1. n + 1 \in 1..N /\ (n + 1) - 1 = n BY <1>2
    <3>2. SumOf(taken, n + 1) = SumOf(taken, n) + taken[n + 1] BY <1>2, <3>1, SumSteps
    <3>3. F(n + 1) = F(n) + taken[n + 1] BY <1>1, <3>1
    <3>4. SumOf(taken, n) = F(n) BY <2>2, <1>2, <3>1
    <3> QED BY <3>2, <3>3, <3>4
  <2> HIDE DEF S, F
  <2>3. \A n \in Nat : n \in S BY <2>1, <2>2, Induct
  <2> QED BY <1>2, <2>3 DEF S
<1> HIDE DEF F
<1>7. N \in 0..N BY <1>2
<1>8. SumOf(taken, N) = SumOf(data, N) + SumOf(header, N)
  <2>1. \A n \in 1..N : taken[n] = data[n] + header[n] BY <1>1
  <2> QED BY <1>2, <2>1, SumSplit
<1>9. SumOf(data, N) \in Nat /\ SumOf(header, N) \in Nat /\ SumOf(taken, N) \in Nat
  BY <1>2, <1>7, SumNat
<1>10. FramesBits(f) = FramesBits(g) + SumOf(taken, N)
  <2>1. /\ BitsOf(f) \in Seq(Nat) /\ BitsOf(g) \in Seq(Nat) /\ Len(BitsOf(f)) = N /\ Len(BitsOf(g)) = N
        /\ FramesBits(f) = SumOf(BitsOf(f), N) /\ FramesBits(g) = SumOf(BitsOf(g), N)
    BY <1>3, FrameSums
  <2>2. \A n \in 1..N : BitsOf(f)[n] = BitsOf(g)[n] + taken[n]
    <3>1. \A n \in 1..N : BitsOf(f)[n] = FrameBits(f[n]) /\ BitsOf(g)[n] = FrameBits(g[n]) BY <1>3, FrameSums
    <3> QED BY <1>1, <3>1
  <2>3. SumOf(BitsOf(f), N) = SumOf(BitsOf(g), N) + SumOf(taken, N)
    BY <1>2, <2>1, <2>2, SumSplit
  <2> QED BY <2>1, <2>3
<1>11. FramesData(f) = FramesData(g) + SumOf(data, N)
  <2>1. /\ DataOf(f) \in Seq(Nat) /\ DataOf(g) \in Seq(Nat) /\ Len(DataOf(f)) = N /\ Len(DataOf(g)) = N
        /\ FramesData(f) = SumOf(DataOf(f), N) /\ FramesData(g) = SumOf(DataOf(g), N)
    BY <1>3, FrameSums
  <2>2. \A n \in 1..N : DataOf(f)[n] = DataOf(g)[n] + data[n]
    <3>1. \A n \in 1..N : DataOf(f)[n] = f[n].data /\ DataOf(g)[n] = g[n].data BY <1>3, FrameSums
    <3> QED BY <1>1, <3>1
  <2>3. SumOf(DataOf(f), N) = SumOf(DataOf(g), N) + SumOf(data, N)
    BY <1>2, <2>1, <2>2, SumSplit
  <2> QED BY <2>1, <2>3
<1>12. /\ FramesBits(f) \in Nat /\ FramesBits(g) \in Nat /\ FramesData(f) \in Nat /\ FramesData(g) \in Nat
  BY <1>3, FrameSums
<1>13. FramesBits(g) = FramesBits(f) - F(N) BY <1>6, <1>9, <1>10, <1>12
<1>14. FramesData(g) = FramesData(f) - SumOf(data, N) BY <1>9, <1>11, <1>12
<1>15. SumOf(data, N) <= F(N) BY <1>6, <1>8, <1>9
<1> QED BY <1>4, <1>5, <1>9, <1>13, <1>14, <1>15

\* A frame loses bits only after those before it have lost all of theirs.
LEMMA KeptInOrder ==
  ASSUME NEW f \in Seq(Frame), NEW w \in Nat, EmptyFirst(f)
  PROVE  EmptyFirst(Kept(f, w))
<1> DEFINE g == Kept(f, w)
<1>1. /\ Len(g) = Len(f)
      /\ \A n \in 1..Len(f) : FrameBits(g[n]) = FrameBits(f[n]) - MIN(FrameBits(f[n]), Left(f, w, n))
  BY KeptFrames
<1>2. \A n \in 1..Len(f) : FrameBits(f[n]) \in Nat /\ Left(f, w, n) \in Nat BY FrameSums, FrameTakes
<1> HIDE DEF g
<1> SUFFICES ASSUME NEW i \in 1..Len(f), NEW j \in 1..Len(f), i < j, FrameBits(g[j]) = 0
             PROVE  FrameBits(g[i]) = 0
  BY <1>1 DEF EmptyFirst, g
<1> DEFINE bi == FrameBits(f[i])
           bj == FrameBits(f[j])
           li == Left(f, w, i)
           lj == Left(f, w, j)
           x == SumOf(BitsOf(f), i - 1)
           y == SumOf(BitsOf(f), j - 1)
<1>3. bi \in Nat /\ bj \in Nat /\ li \in Nat /\ lj \in Nat BY <1>2
<1>4. FrameBits(g[i]) = bi - MIN(bi, li) /\ bj - MIN(bj, lj) = 0 BY <1>1
<1>5. li = w - MIN(w, x) /\ lj = w - MIN(w, y) BY DEF Left
<1>6. x \in Nat /\ y \in Nat /\ x + bi <= y
  <2>1. BitsOf(f) \in Seq(Nat) /\ Len(BitsOf(f)) = Len(f) /\ BitsOf(f)[i] = bi BY FrameSums
  <2>2. /\ i \in 1..Len(BitsOf(f)) /\ i - 1 \in 0..Len(BitsOf(f)) /\ j - 1 \in 0..Len(BitsOf(f))
        /\ i \in Nat /\ j - 1 \in Nat /\ i <= j - 1 /\ j - 1 <= Len(BitsOf(f))
        /\ Len(BitsOf(f)) \in Nat BY <2>1
  <2>3. x \in Nat /\ y \in Nat BY <2>1, <2>2, SumNat
  <2>4. SumOf(BitsOf(f), i) = x + BitsOf(f)[i] BY <2>2, SumSteps
  <2>5. SumOf(BitsOf(f), i) <= y BY <2>1, <2>2, SumGrows
  <2> QED BY <2>1, <2>3, <2>4, <2>5
<1>7. bj = 0 => bi = 0 BY DEF EmptyFirst
<1> HIDE DEF bi, bj, li, lj, x, y
<1>8. bi - MIN(bi, li) = 0 BY <1>3, <1>4, <1>5, <1>6, <1>7 DEF MIN
<1> QED BY <1>4, <1>8

\* The frames that are popped are empty: the index that advances twice as fast as it pops stops
\* at a frame that is not, after which none is.
LEMMA DroppedEmpty ==
  ASSUME NEW f \in Seq(Frame), EmptyFirst(f)
  PROVE  \E d \in 0..Len(f) : /\ WithoutEmptyFrames(f) = SubSeq(f, d + 1, Len(f))
                              /\ \A i \in 1..d : FrameBits(f[i]) = 0
<1> DEFINE stop == {k \in 1..Len(f) + 1 : \/ 2 * k - 1 > Len(f)
                                          \/ FrameBits(f[2 * k - 1]) > 0}
           first == CHOOSE k \in stop : \A l \in stop : k <= l
<1>1. Len(f) \in Nat OBVIOUS
<1>2. stop \in SUBSET Nat /\ Len(f) + 1 \in stop BY <1>1
<1>3. \E k \in stop : \A l \in stop : k <= l
  <2> HIDE DEF stop
  <2> QED BY <1>2, Smallest
<1>4. first \in stop /\ \A l \in stop : first <= l
  <2> HIDE DEF stop
  <2> QED BY <1>3
<1>5. WithoutEmptyFrames(f) = SubSeq(f, first, Len(f)) BY DEF WithoutEmptyFrames
<1> HIDE DEF first
<1>6. first \in 1..Len(f) + 1 BY <1>4
<1>7. ASSUME NEW i \in 1..(first - 1) PROVE FrameBits(f[i]) = 0
  <2> DEFINE k == first - 1
             j == 2 * k - 1
  <2>1. k \in 1..Len(f) + 1 /\ k < first /\ i <= k /\ k \in Nat BY <1>1, <1>6
  <2>2. k \notin stop
    <3>1. k \in Nat /\ first \in Nat BY <1>6, <2>1
    <3> HIDE DEF stop, k
    <3> QED BY <1>4, <2>1, <3>1
  <2>3. ~(j > Len(f)) /\ ~(FrameBits(f[j]) > 0) BY <2>1, <2>2
  <2>4. j \in 1..Len(f) /\ i \in 1..Len(f) /\ i <= j BY <1>1, <2>1, <2>3
  <2>5. FrameBits(f[j]) = 0
    <3>1. FrameBits(f[j]) \in Nat BY <2>4, FrameSums
    <3> QED BY <2>3, <3>1
  <2> HIDE DEF j
  <2> QED BY <2>4, <2>5 DEF EmptyFirst
<1>8. first - 1 \in 0..Len(f) /\ (first - 1) + 1 = first BY <1>1, <1>6
<1> QED BY <1>5, <1>7, <1>8

\* Popping empty frames changes no sum.
LEMMA DroppedSums ==
  ASSUME NEW f \in Seq(Frame), NEW d \in 0..Len(f), \A i \in 1..d : FrameBits(f[i]) = 0
  PROVE  LET g == SubSeq(f, d + 1, Len(f))
         IN  /\ g \in Seq(Frame) /\ Len(g) = Len(f) - d
             /\ \A i \in 1..Len(g) : i + d \in 1..Len(f) /\ g[i] = f[i + d]
             /\ FramesBits(g) = FramesBits(f) /\ FramesData(g) = FramesData(f)
<1> DEFINE g == SubSeq(f, d + 1, Len(f))
           m == Len(f) - d
<1>1. g \in Seq(Frame) /\ Len(g) = m /\ \A i \in 1..m : g[i] = f[i + d] OBVIOUS
<1>2. m \in Nat /\ d \in Nat /\ m + d = Len(f) /\ \A i \in 1..m : i + d \in 1..Len(f) OBVIOUS
<1> HIDE DEF g, m
<1>3. FramesBits(g) = FramesBits(f)
  <2> DEFINE b == BitsOf(f)
             c == BitsOf(g)
  <2>1. /\ b \in Seq(Nat) /\ c \in Seq(Nat) /\ Len(b) = m + d /\ Len(c) = m
        /\ FramesBits(f) = SumOf(b, m + d) /\ FramesBits(g) = SumOf(c, m) BY <1>1, <1>2, FrameSums
  <2>2. \A i \in 1..m : c[i] = b[i + d]
    <3>1. \A i \in 1..m : c[i] = FrameBits(g[i]) BY <1>1, FrameSums
    <3>2. \A i \in 1..m : b[i + d] = FrameBits(f[i + d]) BY <1>2, FrameSums
    <3> QED BY <1>1, <3>1, <3>2
  <2>3. \A i \in 1..d : b[i] = 0
    <3>1. \A i \in 1..d : b[i] = FrameBits(f[i])
      <4>1. \A i \in 1..d : i \in 1..Len(f) OBVIOUS
      <4> QED BY <4>1, FrameSums
    <3> QED BY <3>1
  <2> HIDE DEF b, c
  <2>4. SumOf(b, m + d) = SumOf(b, d) + SumOf(c, m)
    <3>1. m \in Nat /\ d \in Nat BY <1>2
    <3>2. m <= Len(c) /\ m + d <= Len(b) BY <2>1, <3>1
    <3>3. b \in Seq(Nat) /\ c \in Seq(Nat) BY <2>1
    <3> QED BY <2>2, <3>1, <3>2, <3>3, SumShift
  <2>5. SumOf(b, d) = 0 BY <1>2, <2>1, <2>3, SumZero
  <2>6. SumOf(c, m) \in Nat
    <3>1. m \in 0..Len(c) BY <1>2, <2>1
    <3> QED BY <2>1, <3>1, SumNat
  <2> QED BY <2>1, <2>4, <2>5, <2>6
<1>4. FramesData(g) = FramesData(f)
  <2> DEFINE b == DataOf(f)
             c == DataOf(g)
  <2>1. /\ b \in Seq(Nat) /\ c \in Seq(Nat) /\ Len(b) = m + d /\ Len(c) = m
        /\ FramesData(f) = SumOf(b, m + d) /\ FramesData(g) = SumOf(c, m) BY <1>1, <1>2, FrameSums
  <2>2. \A i \in 1..m : c[i] = b[i + d]
    <3>1. \A i \in 1..m : c[i] = g[i].data BY <1>1, FrameSums
    <3>2. \A i \in 1..m : b[i + d] = f[i + d].data BY <1>2, FrameSums
    <3> QED BY <1>1, <3>1, <3>2
  <2>3. \A i \in 1..d : b[i] = 0
    <3> SUFFICES ASSUME NEW i \in 1..d PROVE b[i] = 0 OBVIOUS
    <3>1. i \in 1..Len(f) /\ FrameBits(f[i]) = 0 OBVIOUS
    <3>2. f[i] \in Frame BY <3>1
    <3>3. f[i].header \in Nat /\ f[i].data \in Nat BY <3>2 DEF Frame
    <3>4. f[i].data = 0 BY <3>1, <3>3 DEF FrameBits
    <3> QED BY <3>1, <3>4, FrameSums
  <2> HIDE DEF b, c
  <2>4. SumOf(b, m + d) = SumOf(b, d) + SumOf(c, m)
    <3>1. m \in Nat /\ d \in Nat BY <1>2
    <3>2. m <= Len(c) /\ m + d <= Len(b) BY <2>1, <3>1
    <3>3. b \in Seq(Nat) /\ c \in Seq(Nat) BY <2>1
    <3> QED BY <2>2, <3>1, <3>2, <3>3, SumShift
  <2>5. SumOf(b, d) = 0 BY <1>2, <2>1, <2>3, SumZero
  <2>6. SumOf(c, m) \in Nat
    <3>1. m \in 0..Len(c) BY <1>2, <2>1
    <3> QED BY <2>1, <3>1, SumNat
  <2> QED BY <2>1, <2>4, <2>5, <2>6
<1> QED BY <1>1, <1>2, <1>3, <1>4 DEF g, m

\* The removal stops at the first frame whose time did not come.
LEMMA ReachedRight ==
  ASSUME NEW f \in Seq(Frame), NEW t \in Nat
  PROVE  /\ Reached(f, t) \in 0..Len(f)
         /\ \A i \in 1..Reached(f, t) : f[i].removal <= t
         /\ Reached(f, t) < Len(f) => f[Reached(f, t) + 1].removal > t
<1> DEFINE Right(n) == /\ \A i \in 1..n : f[i].removal <= t
                       /\ n < Len(f) => f[n + 1].removal > t
           S == {n \in Nat : n = Len(f) \/ (n < Len(f) /\ f[n + 1].removal > t)}
<1>1. S \in SUBSET Nat /\ Len(f) \in S OBVIOUS
<1>2. PICK n \in S : \A m \in S : n <= m
  <2> HIDE DEF S
  <2> QED BY <1>1, Smallest
<1>3. n \in 0..Len(f) BY <1>2
<1>4. ASSUME NEW i \in 1..n PROVE f[i].removal <= t
  <2>1. i - 1 \in Nat /\ i - 1 < n /\ i - 1 < Len(f) /\ (i - 1) + 1 = i /\ i \in 1..Len(f) BY <1>3
  <2>2. i - 1 \notin S
    <3> HIDE DEF S
    <3> QED BY <1>2, <1>3, <2>1
  <2>3. ~(f[i].removal > t) BY <2>1, <2>2
  <2>4. f[i] \in Frame BY <2>1
  <2>5. f[i].removal \in Nat BY <2>4 DEF Frame
  <2> QED BY <2>3, <2>5
<1>5. Right(n) BY <1>2, <1>4
<1>6. Reached(f, t) = CHOOSE k \in 0..Len(f) : Right(k) BY DEF Reached
<1>7. Reached(f, t) \in 0..Len(f) /\ Right(Reached(f, t))
  <2> HIDE DEF Right
  <2> QED BY <1>3, <1>5, <1>6
<1> QED BY <1>7

\* What a removal takes: all the bits of the frames that are reached, none of the others.
LEMMA RemovalTakes ==
  ASSUME NEW f \in Seq(Frame), NEW t \in Nat
  PROVE  LET r == Reached(f, t)
             w == SumOf(BitsOf(f), r)
         IN  /\ w \in Nat /\ w <= FramesBits(f)
             /\ \A n \in 1..Len(f) : FrameBits(Kept(f, w)[n]) = IF n <= r THEN 0 ELSE FrameBits(f[n])
<1> DEFINE r == Reached(f, t)
           b == BitsOf(f)
           w == SumOf(b, r)
<1>1. r \in 0..Len(f) /\ r \in Nat BY ReachedRight
<1>2. b \in Seq(Nat) /\ Len(b) = Len(f) /\ \A i \in 1..Len(f) : b[i] = FrameBits(f[i]) BY FrameSums
<1> HIDE DEF r, b
<1>3. w \in Nat BY <1>1, <1>2, SumNat
<1>4. w <= FramesBits(f)
  <2>1. FramesBits(f) = SumOf(b, Len(f)) BY FrameSums DEF b
  <2>2. r <= Len(f) /\ Len(f) <= Len(b) /\ Len(f) \in Nat BY <1>1, <1>2
  <2> QED BY <1>1, <1>2, <2>1, <2>2, SumGrows
<1>5. ASSUME NEW n \in 1..Len(f)
      PROVE  FrameBits(Kept(f, w)[n]) = IF n <= r THEN 0 ELSE FrameBits(f[n])
  <2> DEFINE x == SumOf(b, n - 1)
             y == FrameBits(f[n])
  <2>1. FrameBits(Kept(f, w)[n]) = y - MIN(y, Left(f, w, n))
    <3> HIDE DEF w
    <3> QED BY <1>3, KeptFrames
  <2>2. Left(f, w, n) = w - MIN(w, x) BY DEF Left, b
  <2>3. x \in Nat /\ y \in Nat
    <3>1. n - 1 \in 0..Len(b) BY <1>2
    <3> QED BY <1>2, <3>1, SumNat, FrameSums
  <2>4. CASE n <= r
    <3>1. n \in 1..Len(b) /\ n \in Nat /\ Len(b) \in Nat /\ r <= Len(b) BY <1>1, <1>2
    <3>2. SumOf(b, n) = x + y
      <4>1. SumOf(b, n) = x + b[n] BY <3>1, SumSteps
      <4> QED BY <1>2, <4>1
    <3>3. SumOf(b, n) <= w BY <1>1, <1>2, <2>4, <3>1, SumGrows
    <3> HIDE DEF x, y, w
    <3>4. y - MIN(y, w - MIN(w, x)) = 0 BY <1>3, <2>3, <3>2, <3>3 DEF MIN
    <3> QED BY <2>1, <2>2, <2>4, <3>4
  <2>5. CASE ~(n <= r)
    <3>1. n - 1 \in Nat /\ r <= n - 1 /\ n - 1 <= Len(b) BY <1>1, <1>2, <2>5
    <3>2. w <= x BY <1>1, <1>2, <3>1, SumGrows
    <3> HIDE DEF x, y, w
    <3>3. y - MIN(y, w - MIN(w, x)) = y BY <1>3, <2>3, <3>2 DEF MIN
    <3> QED BY <2>1, <2>2, <2>5, <3>3 DEF y
  <2> QED BY <2>4, <2>5
<1> QED BY <1>3, <1>4, <1>5 DEF r, b

-----------------------------------------------------------------------------
(* A buffer.                                                                *)

\* An access unit that is empty was over; one at the head is to come, or has nothing in the buffer.
RemovedSound(b) ==
  \A n \in 1..Len(b.storedFrames) :
    /\ FrameBits(b.storedFrames[n]) = 0 => b.storedFrames[n].removal <= b.lastUpdate
    /\ IsHead(b.storedFrames, n) => \/ b.storedFrames[n].removal > b.lastUpdate
                                    \/ b.bufferFillingLevel = 0
BuffersAt(t) == [bufferInputData : Nat, bufferFillingLevel : Nat, lastUpdate : 0..t,
                 storedFrames : Seq(Frame)]
Sound(param, b, t) ==
  /\ b \in BuffersAt(t)
  /\ b.bufferFillingLevel <= param.bufferSize
  /\ param.instantFilling => b.bufferInputData = 0
  /\ EmptyFirst(b.storedFrames)
  /\ param.type = "removal" => RemovedSound(b)

\* Bits that are announced to a buffer and did not come to it yet.
Announced(b) == FramesBits(b.storedFrames) - b.bufferFillingLevel - b.bufferInputData

\* Kept apart from the rest, since the solvers multiply constants only.
LEMMA ProductNat == \A a, b : a \in Nat /\ b \in Nat => a * b \in Nat
OBVIOUS

\* Likewise for the division.
LEMMA QuotientNat == \A a, b : a \in Nat /\ b \in Nat \ {0} => a \div b \in Nat
OBVIOUS

\* What enters is no more than what waits, and all of it when filling is instant.
LEMMA InputRight ==
  ASSUME NEW param \in Parameters, NEW t \in Nat, NEW b \in BuffersAt(t), NEW input \in Nat, NEW rate \in Nat
  PROVE  /\ DataInput(param, b, t, input, rate) \in Nat
         /\ DataInput(param, b, t, input, rate) <= b.bufferInputData + input
         /\ param.instantFilling => DataInput(param, b, t, input, rate) = b.bufferInputData + input
<1> DEFINE i == b.bufferInputData
           p == (t - b.lastUpdate) * rate
<1>1. i \in Nat /\ t - b.lastUpdate \in Nat /\ i + input \in Nat BY DEF BuffersAt
<1>2. p \in Nat BY <1>1, ProductNat
<1>3. param.instantFilling \in BOOLEAN BY DEF Parameters
<1>4. DataInput(param, b, t, input, rate) = IF param.instantFilling THEN i + input ELSE MIN(i + input, p)
  BY DEF DataInput
<1> HIDE DEF i, p
<1>5. MIN(i + input, p) \in Nat /\ MIN(i + input, p) <= i + input BY <1>1, <1>2, MinNat
<1> QED BY <1>1, <1>3, <1>4, <1>5 DEF i

\* Bits that leak, whatever the level.
Leaks(param, b, t) == ((t - b.lastUpdate) * param.num + param.den - 1) \div param.den

\* A buffer that is updated at its time or later leaks a natural number of bits.
LEMMA LeaksNat ==
  ASSUME NEW param \in Parameters, NEW t \in Nat, NEW b \in BuffersAt(t)
  PROVE  Leaks(param, b, t) \in Nat
<1>1. param.num \in Nat /\ param.den \in Nat \ {0} BY DEF Parameters
<1>2. t - b.lastUpdate \in Nat BY DEF BuffersAt
<1>3. (t - b.lastUpdate) * param.num \in Nat BY <1>1, <1>2, ProductNat
<1> DEFINE p == (t - b.lastUpdate) * param.num
<1> HIDE DEF p
<1>4. p + param.den - 1 \in Nat BY <1>1, <1>3 DEF p
<1>5. (p + param.den - 1) \div param.den \in Nat BY <1>1, <1>4, QuotientNat
<1> QED BY <1>5 DEF Leaks, p

\* What leaves, by the type of the buffer.
LEMMA OutputRight ==
  ASSUME NEW param \in Parameters, NEW t \in Nat, NEW b \in BuffersAt(t), NEW level \in Nat, NEW room \in Nat
  PROVE  /\ DataOutput(param, b, level, t, room) \in Nat
         /\ param.type = "leak" => DataOutput(param, b, level, t, room) =
              IF param.dontOverflowOutput THEN MIN(MIN(level, Leaks(param, b, t)), room)
                                          ELSE MIN(level, Leaks(param, b, t))
         /\ param.type = "removal" /\ ~param.dontOverflowOutput
              => DataOutput(param, b, level, t, room)
                   = SumOf(BitsOf(b.storedFrames), Reached(b.storedFrames, t))
<1> DEFINE w == SumOf(BitsOf(b.storedFrames), Reached(b.storedFrames, t))
           k == MIN(level, Leaks(param, b, t))
<1>1. param.type \in {"leak", "removal"} /\ param.dontOverflowOutput \in BOOLEAN BY DEF Parameters
<1>2. DataOutput(param, b, level, t, room)
        = IF param.dontOverflowOutput THEN MIN(IF param.type = "leak" THEN k ELSE w, room)
                                      ELSE IF param.type = "leak" THEN k ELSE w
  BY DEF DataOutput, LeakingBandwidth, Leaks, RemovalBandwidth
<1>3. w \in Nat
  <2>1. b.storedFrames \in Seq(Frame) BY DEF BuffersAt
  <2> QED BY <2>1, RemovalTakes
<1>4. k \in Nat BY LeaksNat, MinNat
<1> HIDE DEF w, k
<1>5. MIN(w, room) \in Nat /\ MIN(k, room) \in Nat BY <1>3, <1>4, MinNat
<1> QED BY <1>1, <1>2, <1>3, <1>4, <1>5 DEF w, k

\* After a removal at time t, an empty frame was over, and the head is to come.
LEMMA RemovalSound ==
  ASSUME NEW f \in Seq(Frame), NEW t \in Nat, NEW last \in 0..t, NEW d \in 0..Len(f), NEW b,
         \A n \in 1..Len(f) : FrameBits(f[n]) = 0 => f[n].removal <= last,
         LET w == SumOf(BitsOf(f), Reached(f, t))
         IN  /\ \A i \in 1..d : FrameBits(Kept(f, w)[i]) = 0
             /\ b.storedFrames = SubSeq(Kept(f, w), d + 1, Len(f)),
         b.lastUpdate = t
  PROVE  RemovedSound(b)
<1> DEFINE r == Reached(f, t)
           w == SumOf(BitsOf(f), r)
           g == Kept(f, w)
           h == SubSeq(g, d + 1, Len(f))
<1>1. /\ r \in 0..Len(f) /\ \A i \in 1..r : f[i].removal <= t
      /\ r < Len(f) => f[r + 1].removal > t BY ReachedRight
<1>2. w \in Nat /\ \A n \in 1..Len(f) : FrameBits(g[n]) = IF n <= r THEN 0 ELSE FrameBits(f[n])
  BY RemovalTakes
<1>3. g \in Seq(Frame) /\ Len(g) = Len(f) /\ \A n \in 1..Len(f) : g[n].removal = f[n].removal
  <2> HIDE DEF w
  <2> QED BY <1>2, KeptFrames
<1>4. \A i \in 1..d : FrameBits(g[i]) = 0 OBVIOUS
<1>5. b.storedFrames = h OBVIOUS
<1> HIDE DEF r, w, g
<1>6. /\ h \in Seq(Frame) /\ Len(h) = Len(f) - d
      /\ \A i \in 1..Len(h) : i + d \in 1..Len(f) /\ h[i] = g[i + d]
  <2>1. d \in 0..Len(g) BY <1>3
  <2> QED BY <1>3, <1>4, <2>1, DroppedSums
<1> HIDE DEF h
<1> SUFFICES ASSUME NEW n \in 1..Len(h)
             PROVE  /\ FrameBits(h[n]) = 0 => h[n].removal <= t
                    /\ IsHead(h, n) => h[n].removal > t
  BY <1>5 DEF RemovedSound
<1> DEFINE m == n + d
<1>7. m \in 1..Len(f) /\ h[n] = g[m] /\ g[m].removal = f[m].removal /\ f[m].removal \in Nat
  <2>1. m \in 1..Len(f) /\ h[n] = g[m] BY <1>6
  <2>2. f[m] \in Frame BY <2>1
  <2> QED BY <1>3, <2>1, <2>2 DEF Frame
<1>8. ASSUME FrameBits(h[n]) = 0 PROVE h[n].removal <= t
  <2>1. CASE m <= r
    <3>1. m \in 1..r BY <1>1, <1>7, <2>1
    <3> QED BY <1>1, <1>7, <3>1
  <2>2. CASE ~(m <= r)
    <3>1. FrameBits(f[m]) = 0 BY <1>2, <1>7, <1>8, <2>2
    <3>2. f[m].removal <= last BY <1>7, <3>1
    <3> QED BY <1>7, <3>2
  <2> QED BY <2>1, <2>2
<1>9. ASSUME IsHead(h, n) PROVE h[n].removal > t
  <2>1. FrameBits(g[m]) > 0 BY <1>7, <1>9 DEF IsHead
  <2>2. ~(m <= r) BY <1>2, <1>7, <2>1
  <2>3. r + 1 \in 1..Len(f) /\ r + 1 <= m /\ r < Len(f) /\ ~(r + 1 <= r) BY <1>1, <1>7, <2>2
  <2>4. f[r + 1].removal > t BY <1>1, <2>3
  <2>5. CASE m = r + 1
    <3> HIDE DEF m
    <3> QED BY <1>7, <2>4, <2>5
  <2>6. CASE m # r + 1
    <3>1. FrameBits(g[r + 1]) = 0
      <4>1. CASE r + 1 <= d
        <5>1. r + 1 \in 1..d BY <2>3, <4>1
        <5> QED BY <1>4, <5>1
      <4>2. CASE ~(r + 1 <= d)
        <5> DEFINE i == r + 1 - d
        <5>1. i \in 1..(n - 1) /\ i + d = r + 1 /\ i \in 1..Len(h) BY <1>1, <2>3, <2>6, <4>2
        <5>2. FrameBits(h[i]) = 0 BY <1>9, <5>1 DEF IsHead
        <5> HIDE DEF i
        <5> QED BY <1>6, <5>1, <5>2
      <4> QED BY <4>1, <4>2
    <3>2. FrameBits(f[r + 1]) = 0 BY <1>2, <2>3, <3>1
    <3>3. f[r + 1].removal <= last BY <2>3, <3>2
    <3>4. f[r + 1].removal \in Nat
      <4>1. f[r + 1] \in Frame BY <2>3
      <4> QED BY <4>1 DEF Frame
    <3> QED BY <2>4, <3>3, <3>4
  <2> QED BY <2>5, <2>6
<1> QED BY <1>8, <1>9

\* One update.
LEMMA UpdatedSound ==
  ASSUME NEW param \in Parameters, NEW t \in Nat, NEW b, NEW input \in Nat, NEW rate \in Nat, NEW room \in Nat,
         Sound(param, b, t), input <= Announced(b), param.type = "removal" => ~param.dontOverflowOutput
  PROVE  LET u == Updated(param, b, t, input, rate, room)
             e == DataInput(param, b, t, input, rate)
             level == b.bufferFillingLevel + e
             leaving == DataOutput(param, b, level, t, room)
         IN  /\ level \in Nat /\ leaving \in Nat
             /\ u.emitted \in Nat /\ u.emitted <= leaving
             /\ u.err \in {"none", "underflow", "overflow"}
             /\ u.err # "underflow" => leaving <= level
             /\ u.err = "overflow" => level - leaving > param.bufferSize
             /\ u.err = "none" => /\ Sound(param, u.buf, t)
                                  /\ Announced(u.buf) = Announced(b) - input
                                  /\ FramesData(u.buf.storedFrames)
                                       = FramesData(b.storedFrames) - u.emitted
                                  /\ u.buf.bufferFillingLevel = level - leaving
                                  /\ u.buf.lastUpdate = t
<1> DEFINE u == Updated(param, b, t, input, rate, room)
           f == b.storedFrames
           I == b.bufferInputData
           L == b.bufferFillingLevel
           e == DataInput(param, b, t, input, rate)
           level == L + e
           leaving == DataOutput(param, b, level, t, room)
           c == Consumed(f, leaving)
           B == FramesBits(f)
<1>1. /\ b \in BuffersAt(t) /\ I \in Nat /\ L \in Nat /\ f \in Seq(Frame) /\ b.lastUpdate \in 0..t
      /\ param.bufferSize \in Nat /\ param.type \in {"leak", "removal"}
  BY DEF Sound, BuffersAt, Parameters
<1>2. e \in Nat /\ e <= I + input /\ (param.instantFilling => e = I + input)
  <2>1. b \in BuffersAt(t) BY DEF Sound
  <2>2. /\ DataInput(param, b, t, input, rate) \in Nat
        /\ DataInput(param, b, t, input, rate) <= b.bufferInputData + input
        /\ param.instantFilling => DataInput(param, b, t, input, rate) = b.bufferInputData + input
    BY <2>1, InputRight
  <2> QED BY <2>2
<1>3. level \in Nat BY <1>1, <1>2
<1>4. leaving \in Nat
  <2> HIDE DEF level
  <2> QED BY <1>1, <1>3, OutputRight
<1>5. /\ c.left = leaving - MIN(leaving, B)
      /\ FramesBits(c.frames) = B - MIN(leaving, B)
      /\ c.emitted \in Nat /\ c.emitted <= MIN(leaving, B)
      /\ FramesData(c.frames) = FramesData(f) - c.emitted
  <2> HIDE DEF leaving
  <2> QED BY <1>1, <1>4, ConsumedSums
<1>6. B \in Nat BY <1>1, FrameSums
<1>7. input + L + I <= B BY <1>1, <1>6 DEF Announced
<1>8. /\ u.err = CASE level < leaving -> "underflow"
                   [] level - leaving > param.bufferSize -> "overflow"
                   [] level - leaving \in 0..param.bufferSize /\ c.left > 0 -> "unexpected data"
                   [] OTHER -> "none"
      /\ u.emitted = c.emitted
      /\ u.buf = [bufferInputData |-> I + input - e, bufferFillingLevel |-> level - leaving,
                  lastUpdate |-> t, storedFrames |-> WithoutEmptyFrames(c.frames)]
  BY DEF Updated
<1> HIDE DEF u, e, level, leaving, c, B
<1>9. u.emitted \in Nat /\ u.emitted <= leaving
  <2>1. MIN(leaving, B) <= leaving /\ MIN(leaving, B) \in Nat BY <1>4, <1>6, MinNat
  <2>2. c.emitted \in Nat /\ c.emitted <= leaving BY <1>4, <1>5, <2>1
  <2>3. u.emitted = c.emitted BY <1>8, Zenon
  <2> QED BY <2>2, <2>3
<1>10. leaving <= level => leaving <= B /\ c.left = 0
  <2>1. level <= B BY <1>1, <1>2, <1>6, <1>7 DEF level
  <2> QED BY <1>3, <1>4, <1>5, <1>6, <2>1 DEF MIN
<1>11. CASE level < leaving
  <2>1. u.err = "underflow"
    <3>1. ~(level - leaving > param.bufferSize) /\ ~(level - leaving \in 0..param.bufferSize)
      BY <1>1, <1>3, <1>4, <1>11
    <3> QED BY <1>8, <1>11, <3>1, Zenon
  <2> QED BY <1>3, <1>4, <1>9, <2>1 DEF u, e, level, leaving
<1>12. CASE ~(level < leaving) /\ level - leaving > param.bufferSize
  <2>1. u.err = "overflow"
    <3>1. ~(level - leaving \in 0..param.bufferSize) BY <1>1, <1>3, <1>4, <1>12
    <3> QED BY <1>8, <1>12, <3>1, Zenon
  <2>2. leaving <= level BY <1>3, <1>4, <1>12
  <2> QED BY <1>3, <1>4, <1>9, <1>12, <2>1, <2>2 DEF u, e, level, leaving
<1>13. CASE ~(level < leaving) /\ ~(level - leaving > param.bufferSize)
  <2>1. leaving <= level /\ leaving <= B /\ c.left = 0 BY <1>3, <1>4, <1>10, <1>13
  <2>2. u.err = "none"
    <3>1. ~(c.left > 0) BY <2>1
    <3> QED BY <1>8, <1>13, <3>1
  <2>3. c.frames \in Seq(Frame) /\ Len(c.frames) = Len(f) /\ EmptyFirst(c.frames)
    <3>1. EmptyFirst(f) BY DEF Sound
    <3>2. c.frames = Kept(f, leaving) BY DEF Kept, c
    <3> QED BY <1>1, <1>4, <3>1, <3>2, KeptFrames, KeptInOrder
  <2>4. PICK d \in 0..Len(c.frames) : /\ WithoutEmptyFrames(c.frames) = SubSeq(c.frames, d + 1, Len(c.frames))
                                      /\ \A i \in 1..d : FrameBits(c.frames[i]) = 0
    BY <2>3, DroppedEmpty
  <2> DEFINE g == WithoutEmptyFrames(c.frames)
  <2>5. /\ g \in Seq(Frame) /\ Len(g) = Len(f) - d
        /\ \A i \in 1..Len(g) : i + d \in 1..Len(f) /\ g[i] = c.frames[i + d]
        /\ FramesBits(g) = FramesBits(c.frames) /\ FramesData(g) = FramesData(c.frames)
    <3> DEFINE k == c.frames
    <3>1. k \in Seq(Frame) /\ Len(k) = Len(f) /\ d \in 0..Len(k) /\ \A i \in 1..d : FrameBits(k[i]) = 0
      BY <2>3, <2>4
    <3>2. g = SubSeq(k, d + 1, Len(k)) BY <2>4
    <3> HIDE DEF k, g
    <3>3. /\ g \in Seq(Frame) /\ Len(g) = Len(k) - d
          /\ \A i \in 1..Len(g) : i + d \in 1..Len(k) /\ g[i] = k[i + d]
          /\ FramesBits(g) = FramesBits(k) /\ FramesData(g) = FramesData(k)
      BY <3>1, <3>2, DroppedSums
    <3>4. k = c.frames BY DEF k
    <3> QED BY <3>1, <3>3, <3>4
  <2>6. /\ u.buf.storedFrames = g /\ u.buf.bufferInputData = I + input - e
        /\ u.buf.bufferFillingLevel = level - leaving /\ u.buf.lastUpdate = t
    <3>1. u.buf = [bufferInputData |-> I + input - e, bufferFillingLevel |-> level - leaving,
                   lastUpdate |-> t, storedFrames |-> g] BY <1>8, Zenon
    <3> HIDE DEF g, I
    <3> QED BY <3>1
  <2> HIDE DEF g
  <2>7. EmptyFirst(g)
    <3> SUFFICES ASSUME NEW i \in 1..Len(g), NEW j \in 1..Len(g), i < j, FrameBits(g[j]) = 0
                 PROVE  FrameBits(g[i]) = 0
      BY DEF EmptyFirst
    <3>1. /\ i + d \in 1..Len(c.frames) /\ j + d \in 1..Len(c.frames) /\ i + d < j + d
          /\ g[i] = c.frames[i + d] /\ g[j] = c.frames[j + d] BY <2>3, <2>4, <2>5
    <3> QED BY <2>3, <3>1, SMTT(20) DEF EmptyFirst
  <2>8. /\ u.buf \in BuffersAt(t) /\ u.buf.bufferFillingLevel <= param.bufferSize
        /\ param.instantFilling => u.buf.bufferInputData = 0
    <3>1. I + input - e \in Nat /\ level - leaving \in Nat /\ level - leaving <= param.bufferSize
      BY <1>1, <1>2, <1>3, <1>4, <1>13, <2>1, SMTT(20)
    <3>2. t \in 0..t OBVIOUS
    <3>3. u.buf \in BuffersAt(t)
      <4>1. u.buf = [bufferInputData |-> I + input - e, bufferFillingLevel |-> level - leaving,
                     lastUpdate |-> t, storedFrames |-> g] BY <1>8 DEF g
      <4> QED BY <2>5, <3>1, <3>2, <4>1 DEF BuffersAt
    <3> QED BY <1>1, <1>2, <2>6, <3>1, <3>3
  <2>9. ASSUME param.type = "removal" PROVE RemovedSound(u.buf)
    <3>1. leaving = SumOf(BitsOf(f), Reached(f, t))
      <4>1. ~param.dontOverflowOutput BY <2>9
      <4> HIDE DEF I, L, f
      <4>2. DataOutput(param, b, level, t, room) = SumOf(BitsOf(b.storedFrames), Reached(b.storedFrames, t))
        <5>1. b \in BuffersAt(t) BY DEF Sound
        <5>2. param.type = "removal" /\ ~param.dontOverflowOutput
                => DataOutput(param, b, level, t, room)
                     = SumOf(BitsOf(b.storedFrames), Reached(b.storedFrames, t))
          BY <1>3, <5>1, OutputRight, ZenonT(30)
        <5> QED BY <2>9, <4>1, <5>2
      <4> QED BY <4>2 DEF leaving, f
    <3>2. \A n \in 1..Len(f) : FrameBits(f[n]) = 0 => f[n].removal <= b.lastUpdate
      BY <2>9 DEF Sound, RemovedSound
    <3>3. c.frames = Kept(f, SumOf(BitsOf(f), Reached(f, t))) BY <3>1 DEF Kept, c
    <3>4. d \in 0..Len(f) BY <2>3
    <3>5. \A i \in 1..d : FrameBits(Kept(f, SumOf(BitsOf(f), Reached(f, t)))[i]) = 0 BY <2>4, <3>3
    <3>6. u.buf.storedFrames = SubSeq(Kept(f, SumOf(BitsOf(f), Reached(f, t))), d + 1, Len(f))
      BY <2>3, <2>4, <2>6, <3>3 DEF g
    <3> HIDE DEF f
    <3> QED BY <1>1, <2>6, <3>2, <3>4, <3>5, <3>6, RemovalSound
  <2>10. Sound(param, u.buf, t) BY <2>6, <2>7, <2>8, <2>9 DEF Sound
  <2>11. FramesBits(g) = B - leaving
    <3>1. MIN(leaving, B) = leaving BY <1>4, <1>6, <2>1 DEF MIN
    <3> QED BY <1>5, <2>5, <3>1
  <2>12. Announced(u.buf) = Announced(b) - input
    <3>1. Announced(u.buf) = (B - leaving) - (level - leaving) - (I + input - e)
      BY <2>6, <2>11 DEF Announced
    <3>2. Announced(b) = B - L - I BY DEF Announced, B
    <3>3. level = L + e BY DEF level
    <3> HIDE DEF f, I, L
    <3> QED BY <1>1, <1>2, <1>4, <1>6, <3>1, <3>2, <3>3, SMTT(20)
  <2>13. FramesData(u.buf.storedFrames) = FramesData(f) - u.emitted BY <1>5, <1>8, <2>5, <2>6
  <2> QED BY <1>3, <1>4, <1>9, <2>1, <2>2, <2>6, <2>10, <2>12, <2>13 DEF u, e, level, leaving
<1> QED BY <1>3, <1>4, <1>11, <1>12, <1>13

\* What the registration of a frame x in a buffer b does.
Framed(param, t, b, x) ==
  /\ Sound(param, WithFrame(b, x), t)
  /\ Announced(WithFrame(b, x)) = Announced(b) + FrameBits(x)
  /\ FramesData(WithFrame(b, x).storedFrames) = FramesData(b.storedFrames) + x.data
  /\ WithFrame(b, x).bufferFillingLevel = b.bufferFillingLevel
  /\ WithFrame(b, x).bufferInputData = b.bufferInputData
  /\ WithFrame(b, x).lastUpdate = b.lastUpdate

\* A frame is registered.
LEMMA FrameSound ==
  ASSUME NEW param, NEW t \in Nat, NEW b, NEW x \in Frame,
         Sound(param, b, t), FrameBits(x) > 0, 0 <= Announced(b)
  PROVE  Framed(param, t, b, x)
<1> DEFINE f == b.storedFrames
           g == Append(f, x)
           c == WithFrame(b, x)
           N == Len(f)
<1>1. /\ b \in BuffersAt(t) /\ f \in Seq(Frame) /\ b.bufferFillingLevel \in Nat /\ b.bufferInputData \in Nat
      /\ b.lastUpdate \in 0..t
  BY DEF Sound, BuffersAt
<1>2. /\ g \in Seq(Frame) /\ FramesBits(g) = FramesBits(f) + FrameBits(x)
      /\ FramesData(g) = FramesData(f) + x.data
  BY <1>1, FrameAdded
<1>3. Len(g) = N + 1 /\ N \in Nat /\ g[N + 1] = x /\ \A i \in 1..N : g[i] = f[i] BY <1>1
<1>4. c = [b EXCEPT !.storedFrames = g] BY DEF WithFrame
<1> HIDE DEF g, c
<1>5. /\ c \in BuffersAt(t) /\ c.storedFrames = g /\ c.bufferFillingLevel = b.bufferFillingLevel
      /\ c.bufferInputData = b.bufferInputData /\ c.lastUpdate = b.lastUpdate
  BY <1>1, <1>2, <1>4 DEF BuffersAt
<1>6. FramesBits(f) \in Nat /\ FrameBits(x) \in Nat
  <2>1. x.header \in Nat /\ x.data \in Nat BY DEF Frame
  <2> QED BY <1>1, <2>1, FrameSums DEF FrameBits
<1>7. Announced(c) = Announced(b) + FrameBits(x)
  <2> HIDE DEF f
  <2>1. Announced(c) = FramesBits(f) + FrameBits(x) - b.bufferFillingLevel - b.bufferInputData
    <3>1. Announced(c) = FramesBits(g) - b.bufferFillingLevel - b.bufferInputData
      BY <1>5 DEF Announced
    <3> QED BY <1>1, <1>2, <1>6, <3>1
  <2>2. Announced(b) = FramesBits(f) - b.bufferFillingLevel - b.bufferInputData BY DEF Announced, f
  <2> QED BY <1>1, <1>6, <2>1, <2>2
<1>8. EmptyFirst(g)
  <2> SUFFICES ASSUME NEW i \in 1..Len(g), NEW j \in 1..Len(g), i < j, FrameBits(g[j]) = 0
               PROVE  FrameBits(g[i]) = 0
    BY DEF EmptyFirst
  <2>1. j # N + 1 BY <1>3, <1>6
  <2>2. i \in 1..N /\ j \in 1..N BY <1>3, <2>1
  <2>3. FrameBits(f[j]) = 0 BY <1>3, <2>2
  <2>4. FrameBits(f[i]) = 0 BY <2>2, <2>3 DEF Sound, EmptyFirst
  <2> QED BY <1>3, <2>2, <2>4
<1>9. ASSUME param.type = "removal" PROVE RemovedSound(c)
  <2>1. RemovedSound(b) BY <1>9 DEF Sound
  <2> SUFFICES ASSUME NEW n \in 1..Len(g)
               PROVE  /\ FrameBits(g[n]) = 0 => g[n].removal <= b.lastUpdate
                      /\ IsHead(g, n) => g[n].removal > b.lastUpdate \/ b.bufferFillingLevel = 0
    BY <1>5 DEF RemovedSound
  <2>2. CASE n \in 1..N
    <3>1. g[n] = f[n] /\ \A i \in 1..(n - 1) : g[i] = f[i] BY <1>3, <2>2
    <3>2. IsHead(g, n) => IsHead(f, n) BY <3>1 DEF IsHead
    <3> QED BY <2>1, <2>2, <3>1, <3>2 DEF RemovedSound
  <2>3. CASE n = N + 1
    <3>1. FrameBits(g[n]) # 0 BY <1>3, <1>6, <2>3
    <3>2. ASSUME IsHead(g, n) PROVE b.bufferFillingLevel = 0
      <4>1. \A i \in 1..N : FrameBits(f[i]) = 0
        <5>1. \A i \in 1..N : i \in 1..(n - 1) BY <1>3, <2>3
        <5> QED BY <1>3, <3>2, <5>1 DEF IsHead
      <4>2. FramesBits(f) = 0
        <5> DEFINE s == BitsOf(f)
        <5>1. s \in Seq(Nat) /\ Len(s) = N /\ FramesBits(f) = SumOf(s, N) BY <1>1, FrameSums
        <5>2. \A i \in 1..N : s[i] = 0 BY <1>1, <4>1, FrameSums
        <5> HIDE DEF s, N
        <5> QED BY <1>3, <5>1, <5>2, SumZero
      <4>3. 0 <= 0 - b.bufferFillingLevel - b.bufferInputData BY <4>2 DEF Announced
      <4> QED BY <1>1, <4>3
    <3> QED BY <3>1, <3>2
  <2> QED BY <1>3, <2>2, <2>3
<1>10. Sound(param, c, t) BY <1>5, <1>8, <1>9 DEF Sound
<1> QED BY <1>2, <1>5, <1>7, <1>10 DEF c, Framed

-----------------------------------------------------------------------------
(* A check and the update that follows it, on one buffer.                   *)

LevelAt(param, b, t, input, rate) == b.bufferFillingLevel + DataInput(param, b, t, input, rate)
LeavingAt(param, b, t, input, rate, room) ==
  DataOutput(param, b, LevelAt(param, b, t, input, rate), t, room)
Fits(param, b, t, input, rate, room) ==
  \/ LeavingAt(param, b, t, input, rate, room) > LevelAt(param, b, t, input, rate)
  \/ LevelAt(param, b, t, input, rate) - LeavingAt(param, b, t, input, rate, room) <= param.bufferSize

LeakOf(param, b, t, level, room) ==
  IF param.dontOverflowOutput THEN MIN(MIN(level, Leaks(param, b, t)), room)
                              ELSE MIN(level, Leaks(param, b, t))
RemovalOf(b, t) == SumOf(BitsOf(b.storedFrames), Reached(b.storedFrames, t))

\* The level that an update reaches before anything leaves.
LEMMA LevelRight ==
  ASSUME NEW param \in Parameters, NEW t \in Nat, NEW rate \in Nat
  PROVE  \A b, i : b \in BuffersAt(t) /\ i \in Nat =>
           /\ LevelAt(param, b, t, i, rate) \in Nat
           /\ param.instantFilling
                => LevelAt(param, b, t, i, rate) = b.bufferFillingLevel + (b.bufferInputData + i)
<1> SUFFICES ASSUME NEW b, NEW i, b \in BuffersAt(t), i \in Nat
             PROVE  /\ LevelAt(param, b, t, i, rate) \in Nat
                    /\ param.instantFilling
                         => LevelAt(param, b, t, i, rate) = b.bufferFillingLevel + (b.bufferInputData + i)
  OBVIOUS
<1>1. /\ DataInput(param, b, t, i, rate) \in Nat
      /\ DataInput(param, b, t, i, rate) <= b.bufferInputData + i
      /\ param.instantFilling => DataInput(param, b, t, i, rate) = b.bufferInputData + i
  BY InputRight
<1>2. b.bufferFillingLevel \in Nat BY DEF BuffersAt
<1> QED BY <1>1, <1>2 DEF LevelAt

\* What leaves at that level.
LEMMA LeavingRight ==
  ASSUME NEW param \in Parameters, NEW t \in Nat, NEW rate \in Nat
  PROVE  \A b, i, room : b \in BuffersAt(t) /\ i \in Nat /\ room \in Nat =>
           /\ LeavingAt(param, b, t, i, rate, room) \in Nat
           /\ param.type = "leak" => LeavingAt(param, b, t, i, rate, room)
                                      = LeakOf(param, b, t, LevelAt(param, b, t, i, rate), room)
           /\ param.type = "removal" /\ ~param.dontOverflowOutput
                => LeavingAt(param, b, t, i, rate, room) = RemovalOf(b, t)
<1> SUFFICES ASSUME NEW b, NEW i, NEW room, b \in BuffersAt(t), i \in Nat, room \in Nat
             PROVE  /\ LeavingAt(param, b, t, i, rate, room) \in Nat
                    /\ param.type = "leak" => LeavingAt(param, b, t, i, rate, room)
                                      = LeakOf(param, b, t, LevelAt(param, b, t, i, rate), room)
                    /\ param.type = "removal" /\ ~param.dontOverflowOutput
                         => LeavingAt(param, b, t, i, rate, room) = RemovalOf(b, t)
  OBVIOUS
<1> DEFINE level == LevelAt(param, b, t, i, rate)
<1>1. level \in Nat BY LevelRight
<1> HIDE DEF level
<1>2. /\ DataOutput(param, b, level, t, room) \in Nat
      /\ param.type = "leak" => DataOutput(param, b, level, t, room) =
              IF param.dontOverflowOutput THEN MIN(MIN(level, Leaks(param, b, t)), room)
                                          ELSE MIN(level, Leaks(param, b, t))
      /\ param.type = "removal" /\ ~param.dontOverflowOutput
              => DataOutput(param, b, level, t, room)
                   = SumOf(BitsOf(b.storedFrames), Reached(b.storedFrames, t))
  BY <1>1, OutputRight
<1>3. LeavingAt(param, b, t, i, rate, room) = DataOutput(param, b, level, t, room)
  BY DEF LeavingAt, level
<1> QED BY <1>2, <1>3 DEF LeakOf, RemovalOf, level

Outcome(param, b, t, i, rate, room) ==
  LET level == LevelAt(param, b, t, i, rate)
      leaving == LeavingAt(param, b, t, i, rate, room)
      u == Updated(param, b, t, i, rate, room)
  IN  /\ level \in Nat /\ leaving \in Nat
      /\ param.instantFilling => level = b.bufferFillingLevel + (b.bufferInputData + i)
      /\ param.type = "leak" => leaving = LeakOf(param, b, t, level, room)
      /\ u.emitted \in Nat /\ u.emitted <= leaving
      /\ u.err \in {"none", "underflow", "overflow"}
      /\ u.err # "underflow" => leaving <= level
      /\ u.err = "overflow" => level - leaving > param.bufferSize
      /\ u.err = "none" => /\ Sound(param, u.buf, t)
                           /\ Announced(u.buf) = Announced(b) - i
                           /\ FramesData(u.buf.storedFrames) = FramesData(b.storedFrames) - u.emitted
                           /\ u.buf.bufferFillingLevel = level - leaving

\* All that the chain needs of one update: sums, level, and the errors that it may end with.
LEMMA OutcomeRight ==
  ASSUME NEW t \in Nat, NEW rate \in Nat
  PROVE  \A param, b, i, room :
           /\ param \in Parameters /\ i \in Nat /\ room \in Nat
           /\ Sound(param, b, t) /\ i <= Announced(b)
           /\ param.type = "removal" => ~param.dontOverflowOutput
           => Outcome(param, b, t, i, rate, room)
<1> SUFFICES ASSUME NEW param \in Parameters, NEW b, NEW i \in Nat, NEW room \in Nat,
                    Sound(param, b, t), i <= Announced(b),
                    param.type = "removal" => ~param.dontOverflowOutput
             PROVE  Outcome(param, b, t, i, rate, room)
  OBVIOUS
<1>1. b \in BuffersAt(t) BY DEF Sound
<1>2. /\ LevelAt(param, b, t, i, rate) \in Nat
      /\ param.instantFilling
           => LevelAt(param, b, t, i, rate) = b.bufferFillingLevel + (b.bufferInputData + i)
  BY <1>1, LevelRight
<1>3. /\ LeavingAt(param, b, t, i, rate, room) \in Nat
      /\ param.type = "leak" => LeavingAt(param, b, t, i, rate, room)
                                   = LeakOf(param, b, t, LevelAt(param, b, t, i, rate), room)
  BY <1>1, LeavingRight
<1> DEFINE u == Updated(param, b, t, i, rate, room)
           level == LevelAt(param, b, t, i, rate)
           leaving == LeavingAt(param, b, t, i, rate, room)
<1>4. /\ u.emitted \in Nat /\ u.emitted <= leaving
      /\ u.err \in {"none", "underflow", "overflow"}
      /\ u.err # "underflow" => leaving <= level
      /\ u.err = "overflow" => level - leaving > param.bufferSize
      /\ u.err = "none" => /\ Sound(param, u.buf, t)
                           /\ Announced(u.buf) = Announced(b) - i
                           /\ FramesData(u.buf.storedFrames) = FramesData(b.storedFrames) - u.emitted
                           /\ u.buf.bufferFillingLevel = level - leaving
  BY UpdatedSound DEF LevelAt, LeavingAt
<1> QED BY <1>2, <1>3, <1>4, Zenon DEF Outcome

\* The same buffer but for frames that were registered since.
Alike(param, b, c, t) ==
  /\ Sound(param, b, t) /\ Sound(param, c, t)
  /\ c.bufferFillingLevel = b.bufferFillingLevel /\ c.bufferInputData = b.bufferInputData
  /\ c.lastUpdate = b.lastUpdate
  /\ param.type = "removal" => ~param.dontOverflowOutput /\ c.storedFrames = b.storedFrames

\* What the check of this buffer lets through, with at least as much, does not overflow it.
LEMMA FitsStill ==
  \A param, t, b, c, i, j, room, more :
    /\ param \in Parameters /\ t \in Nat /\ i \in Nat /\ j \in Nat /\ room \in Nat /\ more \in Nat
    /\ Alike(param, b, c, t) /\ j <= i /\ (j = i \/ param.instantFilling) /\ room <= more
    /\ j <= Announced(c) /\ Fits(param, b, t, i, FillingBitrate, room)
    => Updated(param, c, t, j, FillingBitrate, more).err # "overflow"
<1> SUFFICES ASSUME NEW param \in Parameters, NEW t \in Nat, NEW b, NEW c,
                    NEW i \in Nat, NEW j \in Nat, NEW room \in Nat, NEW more \in Nat,
                    Alike(param, b, c, t), j <= i, j = i \/ param.instantFilling, room <= more,
                    j <= Announced(c), Fits(param, b, t, i, FillingBitrate, room)
             PROVE  Updated(param, c, t, j, FillingBitrate, more).err # "overflow"
  OBVIOUS
<1> DEFINE rate == FillingBitrate
<1>1. rate \in Nat /\ Fits(param, b, t, i, rate, room) BY ChainAssumption
<1>2. /\ Sound(param, b, t) /\ Sound(param, c, t)
      /\ c.bufferFillingLevel = b.bufferFillingLevel /\ c.bufferInputData = b.bufferInputData
      /\ c.lastUpdate = b.lastUpdate
      /\ param.type = "removal" => ~param.dontOverflowOutput /\ c.storedFrames = b.storedFrames
  BY DEF Alike
<1> SUFFICES Updated(param, c, t, j, rate, more).err # "overflow" OBVIOUS
<1> HIDE DEF rate
<1> DEFINE x == LevelAt(param, b, t, i, rate)
           y == LevelAt(param, c, t, j, rate)
           w == LeavingAt(param, b, t, i, rate, room)
           v == LeavingAt(param, c, t, j, rate, more)
           u == Updated(param, c, t, j, rate, more)
           size == param.bufferSize
<1>3. b \in BuffersAt(t) /\ c \in BuffersAt(t) BY <1>2 DEF Sound
<1>4. b.bufferFillingLevel \in Nat /\ b.bufferInputData \in Nat BY <1>3 DEF BuffersAt
<1>5. x \in Nat /\ y \in Nat /\ y <= x
  <2>1. x \in Nat /\ (param.instantFilling => x = b.bufferFillingLevel + (b.bufferInputData + i))
    BY <1>1, <1>3, LevelRight
  <2>2. y \in Nat /\ (param.instantFilling => y = c.bufferFillingLevel + (c.bufferInputData + j))
    BY <1>1, <1>3, LevelRight
  <2>3. CASE j = i
    <3>1. x = y BY <1>2, <2>3 DEF LevelAt, DataInput
    <3> QED BY <2>1, <2>2, <3>1
  <2>4. CASE param.instantFilling
    <3> HIDE DEF x, y
    <3> QED BY <1>2, <1>4, <2>1, <2>2, <2>4
  <2> QED BY <2>3, <2>4
<1>6. /\ w \in Nat
      /\ param.type = "leak" => w = LeakOf(param, b, t, x, room)
      /\ param.type = "removal" /\ ~param.dontOverflowOutput => w = RemovalOf(b, t)
  BY <1>1, <1>3, LeavingRight
<1>7. /\ v \in Nat
      /\ param.type = "leak" => v = LeakOf(param, c, t, y, more)
      /\ param.type = "removal" /\ ~param.dontOverflowOutput => v = RemovalOf(c, t)
  BY <1>1, <1>3, LeavingRight
<1>8. /\ w \in Nat /\ v \in Nat
      /\ u.err = "overflow" => v <= y /\ y - v > size
  <2>1. w \in Nat BY <1>6
  <2>2. /\ v \in Nat
        /\ u.err # "underflow" => v <= y
        /\ u.err = "overflow" => y - v > size
    BY <1>1, <1>2, UpdatedSound, ZenonT(30) DEF LevelAt, LeavingAt
  <2> QED BY <2>1, <2>2
<1>9. w > x \/ x - w <= size BY <1>1 DEF Fits
<1>10. size \in Nat /\ param.type \in {"leak", "removal"} /\ param.dontOverflowOutput \in BOOLEAN
  BY DEF Parameters
<1> SUFFICES ASSUME u.err = "overflow" PROVE FALSE OBVIOUS
<1>11. CASE param.type = "removal"
  <2>1. w = v
    <3>1. ~param.dontOverflowOutput /\ c.storedFrames = b.storedFrames BY <1>2, <1>11
    <3> HIDE DEF x, y, w, v
    <3>2. w = SumOf(BitsOf(b.storedFrames), Reached(b.storedFrames, t)) BY <1>6, <1>11, <3>1 DEF RemovalOf
    <3>3. v = SumOf(BitsOf(c.storedFrames), Reached(c.storedFrames, t)) BY <1>7, <1>11, <3>1 DEF RemovalOf
    <3> QED BY <3>1, <3>2, <3>3
  <2> HIDE DEF x, y, w, v, u, size
  <2> QED BY <1>5, <1>8, <1>9, <1>10, <2>1
<1>12. CASE param.type = "leak"
  <2> DEFINE k == Leaks(param, b, t)
  <2>1. k \in Nat BY <1>3, LeaksNat
  <2>2. Leaks(param, c, t) = k BY <1>2 DEF Leaks
  <2> HIDE DEF x, y, w, v, u, size, k
  <2>3. CASE param.dontOverflowOutput
    <3>1. w = MIN(MIN(x, k), room) /\ v = MIN(MIN(y, k), more) BY <1>6, <1>7, <1>12, <2>2, <2>3 DEF k, LeakOf
    <3> QED BY <1>5, <1>8, <1>9, <1>10, <2>1, <3>1 DEF MIN
  <2>4. CASE ~param.dontOverflowOutput
    <3>1. w = MIN(x, k) /\ v = MIN(y, k) BY <1>6, <1>7, <1>12, <2>2, <2>4 DEF k, LeakOf
    <3> QED BY <1>5, <1>8, <1>9, <1>10, <2>1, <3>1 DEF MIN
  <2> QED BY <1>10, <2>3, <2>4
<1> QED BY <1>10, <1>11, <1>12

-----------------------------------------------------------------------------
(* Chains.                                                                  *)

\* One buffer of a chain is replaced.
LEMMA Replaced ==
  \A N, C, D, i, x :
    C = [k \in 1..N |-> C[k]] /\ i \in 1..N /\ D = [C EXCEPT ![i] = x] =>
      D = [k \in 1..N |-> D[k]] /\ D[i] = x /\ \A k \in 1..N : k # i => D[k] = C[k]
<1> SUFFICES ASSUME NEW N, NEW C, NEW D, NEW i \in 1..N, NEW x,
                    C = [k \in 1..N |-> C[k]], D = [C EXCEPT ![i] = x]
             PROVE  D = [k \in 1..N |-> D[k]] /\ D[i] = x /\ \A k \in 1..N : k # i => D[k] = C[k]
  BY ZenonT(30)
<1>1. DOMAIN C = 1..N OBVIOUS
<1>2. D = [k \in 1..N |-> IF k = i THEN x ELSE C[k]] BY <1>1
<1>3. DOMAIN D = 1..N /\ \A k \in 1..N : D[k] = IF k = i THEN x ELSE C[k] BY <1>2
<1> QED BY <1>2, <1>3

UpdateStep(params, acc, k, t, rate) ==
  IF acc.err # "none" THEN acc
  ELSE UpdateNode(params, LookAhead(params, acc.bufs, k, t, rate), k, t, acc.input, rate)
CheckStep(params, acc, k, t, rate) ==
  IF acc.stop THEN acc
  ELSE CheckNode(params[k], acc, LookAhead(params, acc.bufs, k, t, rate), k, t, rate)

\* updateBufModelNode() on a chain, step after step.
LEMMA UpdateUnfolded ==
  ASSUME NEW P, NEW C, NEW t, NEW input, NEW rate, Len(P) \in {2, 3}
  PROVE  LET a0 == [bufs |-> C, err |-> "none", input |-> input]
             a2 == UpdateStep(P, UpdateStep(P, a0, 1, t, rate), 2, t, rate)
         IN  UpdateChain(P, C, t, input, rate)
               = IF Len(P) = 2 THEN a2 ELSE UpdateStep(P, a2, 3, t, rate)
<1> DEFINE N == Len(P)
<1>1. N = 2 \/ N = 3 OBVIOUS
<1> HIDE DEF N
<1> DEFINE a0 == [bufs |-> C, err |-> "none", input |-> input]
           a1 == UpdateStep(P, a0, 1, t, rate)
           a2 == UpdateStep(P, a1, 2, t, rate)
           a3 == UpdateStep(P, a2, 3, t, rate)
           Right(g) == g = [k \in 0..N |->
                              IF k = 0 THEN a0
                              ELSE IF g[k - 1].err # "none" THEN g[k - 1]
                              ELSE UpdateNode(P, LookAhead(P, g[k - 1].bufs, k, t, rate),
                                              k, t, g[k - 1].input, rate)]
           g0 == [k \in 0..N |-> CASE k = 0 -> a0 [] k = 1 -> a1 [] k = 2 -> a2 [] OTHER -> a3]
<1>2. /\ g0[0] = a0 /\ g0[1] = a1 /\ g0[2] = a2
      /\ N = 3 => g0[3] = a3
  <2> HIDE DEF a0, a1, a2, a3
  <2>1. CASE N = 2 BY <2>1
  <2>2. CASE N = 3 BY <2>2
  <2> QED BY <1>1, <2>1, <2>2
<1>3. ASSUME NEW k \in 0..N, k # 0 PROVE g0[k] = UpdateStep(P, g0[k - 1], k, t, rate)
  <2>1. k = 1 \/ k = 2 \/ (k = 3 /\ N = 3) BY <1>1, <1>3
  <2>2. a1 = UpdateStep(P, a0, 1, t, rate) /\ a2 = UpdateStep(P, a1, 2, t, rate)
        /\ a3 = UpdateStep(P, a2, 3, t, rate) OBVIOUS
  <2> HIDE DEF a0, a1, a2, a3, g0
  <2>3. CASE k = 1 BY <1>2, <2>2, <2>3
  <2>4. CASE k = 2 BY <1>2, <2>2, <2>4
  <2>5. CASE k = 3 /\ N = 3 BY <1>2, <2>2, <2>5
  <2> QED BY <2>1, <2>3, <2>4, <2>5
<1>4. Right(g0)
  <2>1. g0 = [k \in 0..N |-> g0[k]] OBVIOUS
  <2> HIDE DEF g0, a0, a1, a2, a3
  <2>2. \A k \in 0..N :
          g0[k] = IF k = 0 THEN a0
                  ELSE IF g0[k - 1].err # "none" THEN g0[k - 1]
                  ELSE UpdateNode(P, LookAhead(P, g0[k - 1].bufs, k, t, rate),
                                  k, t, g0[k - 1].input, rate)
    BY <1>2, <1>3 DEF UpdateStep
  <2> QED BY <2>1, <2>2
<1> HIDE DEF g0
<1>5. \A g : Right(g) => g[0] = a0 /\ \A k \in 0..N : k # 0 => g[k] = UpdateStep(P, g[k - 1], k, t, rate)
  <2> SUFFICES ASSUME NEW g, Right(g)
               PROVE  g[0] = a0 /\ \A k \in 0..N : k # 0 => g[k] = UpdateStep(P, g[k - 1], k, t, rate)
    OBVIOUS
  <2> HIDE DEF a0, a1, a2, a3
  <2>1. 0 \in 0..N BY <1>1
  <2>2. g[0] = a0 BY <2>1
  <2> QED BY <2>2 DEF UpdateStep
<1> DEFINE h == CHOOSE g : Right(g)
<1>6. Right(h)
  <2> HIDE DEF Right
  <2> QED BY <1>4
<1>7. UpdateChain(P, C, t, input, rate) = h[N] BY DEF UpdateChain, N
<1>8. h[0] = a0 /\ \A k \in 0..N : k # 0 => h[k] = UpdateStep(P, h[k - 1], k, t, rate)
  <2> HIDE DEF h, Right, a0
  <2> QED BY <1>5, <1>6
<1> HIDE DEF h, Right, a0
<1>9. h[1] = a1 /\ h[2] = a2
  <2>1. 1 \in 0..N /\ 2 \in 0..N /\ 1 - 1 = 0 /\ 2 - 1 = 1 BY <1>1
  <2>2. h[1] = UpdateStep(P, h[1 - 1], 1, t, rate) /\ h[2] = UpdateStep(P, h[2 - 1], 2, t, rate)
    BY <1>8, <2>1
  <2> QED BY <1>8, <2>1, <2>2
<1>10. CASE N = 2 BY <1>7, <1>9, <1>10 DEF a0, N
<1>11. CASE N = 3
  <2>1. 3 \in 0..N /\ 3 - 1 = 2 BY <1>11
  <2>2. h[3] = UpdateStep(P, h[3 - 1], 3, t, rate) BY <1>8, <2>1
  <2> QED BY <1>7, <1>9, <1>11, <2>1, <2>2 DEF a0, N
<1> QED BY <1>1, <1>10, <1>11

\* checkBufModelNode() on a chain, step after step.
LEMMA CheckUnfolded ==
  ASSUME NEW P, NEW C, NEW t, NEW input, NEW rate, Len(P) \in {2, 3}
  PROVE  LET a0 == [bufs |-> C, ok |-> TRUE, stop |-> FALSE, input |-> input]
             a2 == CheckStep(P, CheckStep(P, a0, 1, t, rate), 2, t, rate)
         IN  CheckChain(P, C, t, input, rate)
               = IF Len(P) = 2 THEN a2 ELSE CheckStep(P, a2, 3, t, rate)
<1> DEFINE N == Len(P)
<1>1. N = 2 \/ N = 3 OBVIOUS
<1> HIDE DEF N
<1> DEFINE a0 == [bufs |-> C, ok |-> TRUE, stop |-> FALSE, input |-> input]
           a1 == CheckStep(P, a0, 1, t, rate)
           a2 == CheckStep(P, a1, 2, t, rate)
           a3 == CheckStep(P, a2, 3, t, rate)
           Right(g) == g = [k \in 0..N |->
                              IF k = 0 THEN a0
                              ELSE IF g[k - 1].stop THEN g[k - 1]
                              ELSE CheckNode(P[k], g[k - 1], LookAhead(P, g[k - 1].bufs, k, t, rate),
                                             k, t, rate)]
           g0 == [k \in 0..N |-> CASE k = 0 -> a0 [] k = 1 -> a1 [] k = 2 -> a2 [] OTHER -> a3]
<1>2. /\ g0[0] = a0 /\ g0[1] = a1 /\ g0[2] = a2
      /\ N = 3 => g0[3] = a3
  <2> HIDE DEF a0, a1, a2, a3
  <2>1. CASE N = 2 BY <2>1
  <2>2. CASE N = 3 BY <2>2
  <2> QED BY <1>1, <2>1, <2>2
<1>3. ASSUME NEW k \in 0..N, k # 0 PROVE g0[k] = CheckStep(P, g0[k - 1], k, t, rate)
  <2>1. k = 1 \/ k = 2 \/ (k = 3 /\ N = 3) BY <1>1, <1>3
  <2>2. a1 = CheckStep(P, a0, 1, t, rate) /\ a2 = CheckStep(P, a1, 2, t, rate)
        /\ a3 = CheckStep(P, a2, 3, t, rate) OBVIOUS
  <2> HIDE DEF a0, a1, a2, a3, g0
  <2>3. CASE k = 1 BY <1>2, <2>2, <2>3
  <2>4. CASE k = 2 BY <1>2, <2>2, <2>4
  <2>5. CASE k = 3 /\ N = 3 BY <1>2, <2>2, <2>5
  <2> QED BY <2>1, <2>3, <2>4, <2>5
<1>4. Right(g0)
  <2>1. g0 = [k \in 0..N |-> g0[k]] OBVIOUS
  <2> HIDE DEF g0, a0, a1, a2, a3
  <2>2. \A k \in 0..N :
          g0[k] = IF k = 0 THEN a0
                  ELSE IF g0[k - 1].stop THEN g0[k - 1]
                  ELSE CheckNode(P[k], g0[k - 1], LookAhead(P, g0[k - 1].bufs, k, t, rate), k, t, rate)
    BY <1>2, <1>3 DEF CheckStep
  <2> QED BY <2>1, <2>2
<1> HIDE DEF g0
<1>5. \A g : Right(g) => g[0] = a0 /\ \A k \in 0..N : k # 0 => g[k] = CheckStep(P, g[k - 1], k, t, rate)
  <2> SUFFICES ASSUME NEW g, Right(g)
               PROVE  g[0] = a0 /\ \A k \in 0..N : k # 0 => g[k] = CheckStep(P, g[k - 1], k, t, rate)
    OBVIOUS
  <2> HIDE DEF a0, a1, a2, a3
  <2>1. 0 \in 0..N BY <1>1
  <2>2. g[0] = a0 BY <2>1
  <2> QED BY <2>2 DEF CheckStep
<1> DEFINE h == CHOOSE g : Right(g)
<1>6. Right(h)
  <2> HIDE DEF Right
  <2> QED BY <1>4
<1>7. CheckChain(P, C, t, input, rate) = h[N] BY DEF CheckChain, N
<1>8. h[0] = a0 /\ \A k \in 0..N : k # 0 => h[k] = CheckStep(P, h[k - 1], k, t, rate)
  <2> HIDE DEF h, Right, a0
  <2> QED BY <1>5, <1>6
<1> HIDE DEF h, Right, a0
<1>9. h[1] = a1 /\ h[2] = a2
  <2>1. 1 \in 0..N /\ 2 \in 0..N /\ 1 - 1 = 0 /\ 2 - 1 = 1 BY <1>1
  <2>2. h[1] = CheckStep(P, h[1 - 1], 1, t, rate) /\ h[2] = CheckStep(P, h[2 - 1], 2, t, rate)
    BY <1>8, <2>1
  <2> QED BY <1>8, <2>1, <2>2
<1>10. CASE N = 2 BY <1>7, <1>9, <1>10 DEF a0, N
<1>11. CASE N = 3
  <2>1. 3 \in 0..N /\ 3 - 1 = 2 BY <1>11
  <2>2. h[3] = CheckStep(P, h[3 - 1], 3, t, rate) BY <1>8, <2>1
  <2> QED BY <1>7, <1>9, <1>11, <2>1, <2>2 DEF a0, N
<1> QED BY <1>1, <1>10, <1>11

Kinds == {"audio", "video", "system"}
\* The three shapes of ChainAssumption, buffer by buffer.
LEMMA ChainFacts ==
  /\ DOMAIN Chain = Kinds
  /\ \A K \in Kinds :
       /\ Len(Chain[K]) = IF K = "video" THEN 3 ELSE 2
       /\ Chain[K][1] \in Parameters /\ Chain[K][2] \in Parameters
       /\ Chain[K][1].type = "leak" /\ ~Chain[K][1].dontOverflowOutput
       /\ Chain[K][2].instantFilling
       /\ Chain[K][2].dontOverflowOutput <=> K = "video"
       /\ Chain[K][2].type = IF K = "audio" THEN "removal" ELSE "leak"
  /\ /\ Chain["video"][3] \in Parameters /\ Chain["video"][3].instantFilling
     /\ ~Chain["video"][3].dontOverflowOutput /\ Chain["video"][3].type = "removal"
<1>1. DOMAIN Chain = Kinds BY ChainAssumption DEF Kinds
<1>2. ASSUME NEW K \in Kinds
      PROVE  /\ Len(Chain[K]) = IF K = "video" THEN 3 ELSE 2
             /\ Chain[K] \in Seq(Parameters)
             /\ \A n \in 1..Len(Chain[K]) : /\ n > 1 => Chain[K][n].instantFilling
                                            /\ Chain[K][n].dontOverflowOutput <=> K = "video" /\ n = 2
             /\ Chain[K][1].type = "leak"
             /\ Chain[K][2].type = IF K = "audio" THEN "removal" ELSE "leak"
  BY <1>1, ChainAssumption DEF Kinds
<1>3. ASSUME NEW K \in Kinds
      PROVE  /\ Chain[K][1] \in Parameters /\ Chain[K][2] \in Parameters
             /\ ~Chain[K][1].dontOverflowOutput /\ Chain[K][2].instantFilling
             /\ Chain[K][2].dontOverflowOutput <=> K = "video"
  <2>1. 1 \in 1..Len(Chain[K]) /\ 2 \in 1..Len(Chain[K]) /\ 2 > 1 /\ ~(1 = 2) BY <1>2
  <2> QED BY <1>2, <2>1
<1>4. /\ Chain["video"][3] \in Parameters /\ Chain["video"][3].instantFilling
      /\ ~Chain["video"][3].dontOverflowOutput /\ Chain["video"][3].type = "removal"
  <2>1. "video" \in Kinds BY DEF Kinds
  <2>2. 3 \in 1..Len(Chain["video"]) /\ 3 > 1 /\ ~(3 = 2) BY <1>2, <2>1
  <2> QED BY <1>2, <2>1, <2>2, ChainAssumption
<1> QED BY <1>1, <1>2, <1>3, <1>4

\* The buffers of a chain and what is announced to them, remaining being the data of the PES packet
\* that is in no transport packet yet.
ChainSound(K, C, rest, t) ==
  /\ C = [k \in 1..Len(Chain[K]) |-> C[k]]
  /\ \A k \in 1..Len(Chain[K]) : Sound(Chain[K][k], C[k], t)
  /\ Announced(C[1]) = 0
  /\ Announced(C[2]) = FramesData(C[1].storedFrames) + IF K = "system" THEN 0 ELSE rest
  /\ K = "video" => Announced(C[3]) = FramesData(C[2].storedFrames)

\* What a sound buffer is made of.
LEMMA SoundTypes ==
  ASSUME NEW param, NEW t \in Nat, NEW b, Sound(param, b, t)
  PROVE  /\ b \in BuffersAt(t) /\ b.storedFrames \in Seq(Frame) /\ b.lastUpdate \in 0..t
         /\ b.bufferFillingLevel \in Nat /\ b.bufferInputData \in Nat
         /\ b.bufferFillingLevel <= param.bufferSize
         /\ FramesData(b.storedFrames) \in Nat /\ FramesBits(b.storedFrames) \in Nat
         /\ Announced(b) \in Int
<1>1. /\ b \in BuffersAt(t) /\ b.storedFrames \in Seq(Frame) /\ b.lastUpdate \in 0..t
      /\ b.bufferFillingLevel \in Nat /\ b.bufferInputData \in Nat
      /\ b.bufferFillingLevel <= param.bufferSize
  BY DEF Sound, BuffersAt
<1>2. FramesData(b.storedFrames) \in Nat /\ FramesBits(b.storedFrames) \in Nat BY <1>1, FrameSums
<1> QED BY <1>1, <1>2 DEF Announced

\* The room of the elementary buffer of a video, that the buffer before it asks for.
Settled(C, t) == Updated(Chain["video"][3], C[3], t, 0, FillingBitrate, 0)
Room(C, t) == RoomIn(Chain["video"][3], Settled(C, t).buf)

\* Settling a sound elementary buffer keeps it sound, or it lacks bits of an access unit.
LEMMA SettledBuffer ==
  ASSUME NEW t \in Nat, NEW C, Sound(Chain["video"][3], C[3], t), 0 <= Announced(C[3])
  PROVE  /\ Settled(C, t).err \in {"none", "underflow"}
         /\ Settled(C, t).err = "none" =>
              /\ Sound(Chain["video"][3], Settled(C, t).buf, t)
              /\ Announced(Settled(C, t).buf) = Announced(C[3])
              /\ Settled(C, t).buf.bufferFillingLevel <= C[3].bufferFillingLevel
              /\ Room(C, t) \in Nat
<1> DEFINE P == Chain["video"][3]
           b == C[3]
           s == Settled(C, t)
<1>1. P \in Parameters /\ P.instantFilling /\ ~P.dontOverflowOutput /\ P.type = "removal"
  BY ChainFacts
<1>2. /\ b.bufferFillingLevel \in Nat /\ b.bufferInputData = 0 /\ b.bufferFillingLevel <= P.bufferSize
      /\ b \in BuffersAt(t) /\ FramesData(b.storedFrames) \in Nat /\ P.bufferSize \in Nat
      /\ Announced(b) \in Int
  BY <1>1, SoundTypes DEF Sound, Parameters
<1> DEFINE w == LeavingAt(P, b, t, 0, FillingBitrate, 0)
           x == LevelAt(P, b, t, 0, FillingBitrate)
<1>3. Outcome(P, b, t, 0, FillingBitrate, 0)
  <2>1. 0 <= Announced(b) /\ 0 \in Nat /\ FillingBitrate \in Nat BY ChainAssumption
  <2>2. P.type = "removal" => ~P.dontOverflowOutput BY <1>1
  <2> HIDE DEF P, b
  <2>3. Sound(P, b, t) BY DEF P, b
  <2> QED BY <1>1, <2>1, <2>2, <2>3, OutcomeRight
<1>4. /\ w \in Nat /\ x \in Nat
      /\ P.instantFilling => x = b.bufferFillingLevel + (b.bufferInputData + 0)
      /\ s.err \in {"none", "underflow", "overflow"}
      /\ s.err # "underflow" => w <= x
      /\ s.err = "overflow" => x - w > P.bufferSize
      /\ s.err = "none" => /\ Sound(P, s.buf, t)
                           /\ Announced(s.buf) = Announced(b) - 0
                           /\ s.buf.bufferFillingLevel = x - w
  BY <1>3 DEF Outcome, Settled
<1>5. x = b.bufferFillingLevel BY <1>1, <1>2, <1>4
<1> HIDE DEF P, b, s, w, x
<1>6. s.err # "overflow" BY <1>2, <1>4, <1>5
<1>7. ASSUME s.err = "none"
      PROVE  /\ Sound(P, s.buf, t) /\ Announced(s.buf) = Announced(b)
             /\ s.buf.bufferFillingLevel <= b.bufferFillingLevel
             /\ Room(C, t) \in Nat
  <2>1. s.buf.bufferFillingLevel = b.bufferFillingLevel - w /\ Sound(P, s.buf, t)
        /\ Announced(s.buf) = Announced(b)
    BY <1>2, <1>4, <1>5, <1>7
  <2>2. s.buf.bufferFillingLevel \in Nat /\ s.buf.bufferFillingLevel <= P.bufferSize
    BY <2>1, SoundTypes
  <2>3. Room(C, t) = P.bufferSize - s.buf.bufferFillingLevel BY DEF Room, RoomIn, P, s
  <2> QED BY <1>2, <1>4, <2>1, <2>2, <2>3
<1> QED BY <1>4, <1>6, <1>7 DEF s, b, P

\* The chain with the elementary buffer that was settled is as sound as before.
LEMMA SettledSound ==
  ASSUME NEW t \in Nat, NEW C, NEW rest \in Nat, ChainSound("video", C, rest, t)
  PROVE  /\ C = [k \in 1..3 |-> C[k]]
         /\ Sound(Chain["video"][3], C[3], t) /\ Announced(C[3]) \in Nat
         /\ Settled(C, t).err = "none"
              => ChainSound("video", [C EXCEPT ![3] = Settled(C, t).buf], rest, t)
<1> DEFINE P == Chain["video"][3]
           b == C[3]
           s == Settled(C, t)
           D == [C EXCEPT ![3] = s.buf]
<1>1. Len(Chain["video"]) = 3
  <2>1. "video" \in Kinds BY DEF Kinds
  <2> QED BY <2>1, ChainFacts
<1>2. /\ C = [k \in 1..3 |-> C[k]]
      /\ \A k \in 1..3 : Sound(Chain["video"][k], C[k], t)
      /\ Announced(C[1]) = 0
      /\ Announced(C[2]) = FramesData(C[1].storedFrames) + rest
      /\ Announced(C[3]) = FramesData(C[2].storedFrames)
  BY <1>1 DEF ChainSound
<1>3. Sound(P, b, t) /\ Announced(b) \in Nat
  <2>1. 3 \in 1..3 /\ 2 \in 1..3 OBVIOUS
  <2>2. Sound(P, b, t) /\ Sound(Chain["video"][2], C[2], t) BY <1>2, <2>1
  <2>3. FramesData(C[2].storedFrames) \in Nat BY <2>2, SoundTypes
  <2> QED BY <1>2, <2>2, <2>3
<1>4. ASSUME s.err = "none" PROVE ChainSound("video", D, rest, t)
  <2>1. Sound(P, s.buf, t) /\ Announced(s.buf) = Announced(b)
    <3>1. 0 <= Announced(b) BY <1>3
    <3> QED BY <1>3, <1>4, <3>1, SettledBuffer
  <2> HIDE DEF P, b, s
  <2>2. /\ D = [k \in 1..3 |-> D[k]] /\ D[1] = C[1] /\ D[2] = C[2] /\ D[3] = s.buf
    BY <1>2
  <2>3. \A k \in 1..3 : Sound(Chain["video"][k], D[k], t)
    <3>1. \A k \in 1..3 : k = 1 \/ k = 2 \/ k = 3 OBVIOUS
    <3> HIDE DEF D
    <3> QED BY <1>2, <2>1, <2>2, <3>1 DEF P
  <2> HIDE DEF D
  <2> QED BY <1>1, <1>2, <2>1, <2>2, <2>3 DEF ChainSound, b
<1> QED BY <1>2, <1>3, <1>4

Ahead0(C, room) == [bufs |-> C, err |-> "none", room |-> room]
Asked(C, ok, stop, input) == [bufs |-> C, ok |-> ok, stop |-> stop, input |-> input]
Given(C, e, input) == [bufs |-> C, err |-> e, input |-> input]

\* Only the second buffer of a video looks at the next one.
LEMMA PlainAhead ==
  ASSUME NEW K \in Kinds, NEW C, NEW k, NEW t,
         k = 1 \/ (k = 2 /\ K # "video") \/ (k = 3 /\ K = "video")
  PROVE  LookAhead(Chain[K], C, k, t, FillingBitrate) = Ahead0(C, 0)
<1>1. /\ ~Chain[K][1].dontOverflowOutput /\ (Chain[K][2].dontOverflowOutput <=> K = "video")
      /\ ~Chain["video"][3].dontOverflowOutput
  BY ChainFacts
<1>2. ~NeedsRoom(Chain[K], k) BY <1>1 DEF NeedsRoom
<1> QED BY <1>2 DEF LookAhead, Ahead0

\* The failure is that of the settling, or the room is what the settling leaves.
LEMMA VideoAhead ==
  ASSUME NEW C, NEW t
  PROVE  LET ahead == LookAhead(Chain["video"], C, 2, t, FillingBitrate)
         IN  /\ Settled(C, t).err # "none" => ahead.err = Settled(C, t).err /\ ahead.bufs = C
             /\ Settled(C, t).err = "none"
                  => ahead = Ahead0([C EXCEPT ![3] = Settled(C, t).buf], Room(C, t))
<1>1. "video" \in Kinds /\ 2 + 1 = 3 /\ 2 < 3 BY DEF Kinds
<1>2. NeedsRoom(Chain["video"], 2) BY <1>1, ChainFacts DEF NeedsRoom
<1>3. LookAhead(Chain["video"], C, 2, t, FillingBitrate)
        = Ahead(Chain["video"][2 + 1], C, 2, OutputSettled(Chain["video"], C, 2, t, FillingBitrate))
  BY <1>2 DEF LookAhead
<1>4. OutputSettled(Chain["video"], C, 2, t, FillingBitrate) = Settled(C, t)
  BY <1>1 DEF OutputSettled, Settled
<1> QED BY <1>1, <1>3, <1>4 DEF Ahead, Ahead0, Room

\* What the check does at buffer k, whatever it said before.
Asks(P, C, k, t, D, room) ==
  \A ok \in BOOLEAN : \A input :
    CheckStep(P, Asked(C, ok, FALSE, input), k, t, FillingBitrate)
      = Asked(D, ok /\ Fits(P[k], D[k], t, input, FillingBitrate, room), FALSE,
              LeavingAt(P[k], D[k], t, input, FillingBitrate, room))
\* One buffer of the check, when the settling did not fail.
LEMMA NodeChecked ==
  \A P, C, k, t, D, room :
    LookAhead(P, C, k, t, FillingBitrate) = Ahead0(D, room) => Asks(P, C, k, t, D, room)
<1> SUFFICES ASSUME NEW P, NEW C, NEW k, NEW t, NEW D, NEW room,
                    LookAhead(P, C, k, t, FillingBitrate) = Ahead0(D, room),
                    NEW ok \in BOOLEAN, NEW input
             PROVE  CheckStep(P, Asked(C, ok, FALSE, input), k, t, FillingBitrate)
                      = Asked(D, ok /\ Fits(P[k], D[k], t, input, FillingBitrate, room), FALSE,
                              LeavingAt(P[k], D[k], t, input, FillingBitrate, room))
  BY DEF Asks
<1> DEFINE acc == Asked(C, ok, FALSE, input)
           level == LevelAt(P[k], D[k], t, input, FillingBitrate)
           leaving == LeavingAt(P[k], D[k], t, input, FillingBitrate, room)
<1>1. acc.stop = FALSE /\ acc.bufs = C /\ acc.input = input /\ acc.ok = ok BY DEF Asked
<1>2. Ahead0(D, room).bufs = D /\ Ahead0(D, room).err = "none" /\ Ahead0(D, room).room = room
  BY DEF Ahead0
<1>3. CheckStep(P, acc, k, t, FillingBitrate)
        = CheckNode(P[k], acc, Ahead0(D, room), k, t, FillingBitrate)
  BY <1>1 DEF CheckStep
<1>4. CheckNode(P[k], acc, Ahead0(D, room), k, t, FillingBitrate) = Tested(P[k], acc, D, level, leaving)
  BY <1>1, <1>2 DEF CheckNode, LevelAt, LeavingAt
<1>5. Tested(P[k], acc, D, level, leaving)
        = Asked(D, ok /\ (leaving > level \/ level - leaving <= P[k].bufferSize), FALSE, leaving)
  <2> HIDE DEF level, leaving, acc
  <2> QED BY <1>1 DEF Tested, Asked
<1> QED BY <1>3, <1>4, <1>5 DEF Fits

\* What an update does at buffer k.
Runs(P, C, k, t, D, room) ==
  \A input :
    LET u == Updated(P[k], D[k], t, input, FillingBitrate, room)
    IN  UpdateStep(P, Given(C, "none", input), k, t, FillingBitrate)
          = Given([D EXCEPT ![k] = u.buf], u.err, u.emitted)
\* One buffer of the update, when the settling did not fail.
LEMMA NodeUpdated ==
  \A P, C, k, t, D, room :
    LookAhead(P, C, k, t, FillingBitrate) = Ahead0(D, room) => Runs(P, C, k, t, D, room)
<1> SUFFICES ASSUME NEW P, NEW C, NEW k, NEW t, NEW D, NEW room,
                    LookAhead(P, C, k, t, FillingBitrate) = Ahead0(D, room), NEW input
             PROVE  LET u == Updated(P[k], D[k], t, input, FillingBitrate, room)
                    IN  UpdateStep(P, Given(C, "none", input), k, t, FillingBitrate)
                          = Given([D EXCEPT ![k] = u.buf], u.err, u.emitted)
  BY DEF Runs
<1> DEFINE acc == Given(C, "none", input)
           u == Updated(P[k], D[k], t, input, FillingBitrate, room)
<1>1. acc.err = "none" /\ acc.bufs = C /\ acc.input = input BY DEF Given
<1>2. Ahead0(D, room).bufs = D /\ Ahead0(D, room).err = "none" /\ Ahead0(D, room).room = room
  BY DEF Ahead0
<1>3. UpdateStep(P, acc, k, t, FillingBitrate)
        = UpdateNode(P, Ahead0(D, room), k, t, input, FillingBitrate)
  BY <1>1 DEF UpdateStep
<1> QED BY <1>2, <1>3 DEF UpdateNode, Passed, Given

\* After an error the update of the next buffers does nothing.
LEMMA NodeSkipped ==
  \A P, C, k, t, e, input :
    e # "none" => UpdateStep(P, Given(C, e, input), k, t, FillingBitrate) = Given(C, e, input)
BY DEF UpdateStep, Given

Stops(P, C, k, t) ==
  \A ok \in BOOLEAN : \A input :
    CheckStep(P, Asked(C, ok, FALSE, input), k, t, FillingBitrate) = Asked(C, ok, TRUE, input)
\* A failure of the settling stops the check, which answers for the buffers before.
LEMMA NodeStopped ==
  \A P, C, k, t : LookAhead(P, C, k, t, FillingBitrate).err # "none" => Stops(P, C, k, t)
<1> SUFFICES ASSUME NEW P, NEW C, NEW k, NEW t, LookAhead(P, C, k, t, FillingBitrate).err # "none",
                    NEW ok \in BOOLEAN, NEW input
             PROVE  CheckStep(P, Asked(C, ok, FALSE, input), k, t, FillingBitrate)
                      = Asked(C, ok, TRUE, input)
  BY DEF Stops
<1> DEFINE acc == Asked(C, ok, FALSE, input)
<1>1. acc.stop = FALSE /\ acc.bufs = C /\ acc.ok = ok /\ acc.input = input BY DEF Asked
<1> HIDE DEF acc
<1>2. CheckStep(P, acc, k, t, FillingBitrate)
        = [bufs |-> C, stop |-> TRUE, input |-> input, ok |-> ok]
  BY <1>1 DEF CheckStep, CheckNode
<1> QED BY <1>2 DEF Asked, acc

\* A failure of the settling is that of the update.
LEMMA NodeRefused ==
  \A P, C, k, t, input :
    LookAhead(P, C, k, t, FillingBitrate).err # "none"
    => UpdateStep(P, Given(C, "none", input), k, t, FillingBitrate)
         = Given(LookAhead(P, C, k, t, FillingBitrate).bufs,
                 LookAhead(P, C, k, t, FillingBitrate).err, 0)
BY DEF UpdateStep, UpdateNode, Given

\* What the check says of the first two buffers, and the buffers it leaves.
Fits1(K, C, t) == Fits(Chain[K][1], C[1], t, TpSize, FillingBitrate, 0)
Leaving1(K, C, t) == LeavingAt(Chain[K][1], C[1], t, TpSize, FillingBitrate, 0)
Fits2(K, C, t, room) == Fits(Chain[K][2], C[2], t, Leaving1(K, C, t), FillingBitrate, room)

\* The check of an audio or system chain is a pure question, to both buffers.
LEMMA TwoChecked ==
  ASSUME NEW K \in Kinds, K # "video", NEW C, NEW t
  PROVE  LET checked == CheckChain(Chain[K], C, t, TpSize, FillingBitrate)
         IN  checked.bufs = C /\ (checked.ok => Fits1(K, C, t) /\ Fits2(K, C, t, 0))
<1> DEFINE P == Chain[K]
           R == FillingBitrate
           ok1 == TRUE /\ Fits1(K, C, t)
           w2 == LeavingAt(P[2], C[2], t, Leaving1(K, C, t), R, 0)
           ok2 == ok1 /\ Fits2(K, C, t, 0)
           checked == CheckChain(P, C, t, TpSize, R)
<1>1. LookAhead(P, C, 1, t, R) = Ahead0(C, 0) /\ LookAhead(P, C, 2, t, R) = Ahead0(C, 0)
  BY PlainAhead
<1>2. Len(P) = 2 BY ChainFacts
<1>3. Asks(P, C, 1, t, C, 0) /\ Asks(P, C, 2, t, C, 0) BY <1>1, NodeChecked
<1>4. CheckStep(P, Asked(C, TRUE, FALSE, TpSize), 1, t, R) = Asked(C, ok1, FALSE, Leaving1(K, C, t))
  BY <1>3, Zenon DEF Asks, Fits1, Leaving1
<1>5. CheckStep(P, Asked(C, ok1, FALSE, Leaving1(K, C, t)), 2, t, R) = Asked(C, ok2, FALSE, w2)
  <2>1. ok1 \in BOOLEAN OBVIOUS
  <2> HIDE DEF ok1
  <2> QED BY <1>3, <2>1, Zenon DEF Asks, Fits2
<1>6. checked = CheckStep(P, CheckStep(P, Asked(C, TRUE, FALSE, TpSize), 1, t, R), 2, t, R)
  BY <1>2, CheckUnfolded DEF Asked
<1>7. checked = Asked(C, ok2, FALSE, w2)
  <2> HIDE DEF P, R, ok1, ok2, w2, checked
  <2> QED BY <1>4, <1>5, <1>6
<1>8. checked.bufs = C /\ checked.ok = ok2
  <2> HIDE DEF P, R, ok1, ok2, w2, checked
  <2> QED BY <1>7 DEF Asked
<1> QED BY <1>8

\* That of a video settles its third buffer on the way, unless this fails.
LEMMA VideoChecked ==
  ASSUME NEW C, NEW t, C = [k \in 1..3 |-> C[k]]
  PROVE  LET checked == CheckChain(Chain["video"], C, t, TpSize, FillingBitrate)
         IN  IF Settled(C, t).err # "none"
               THEN checked.bufs = C /\ (checked.ok => Fits1("video", C, t))
               ELSE LET D == [C EXCEPT ![3] = Settled(C, t).buf]
                    IN  /\ checked.bufs = D
                        /\ checked.ok => Fits1("video", C, t) /\ Fits2("video", D, t, Room(C, t))
<1> DEFINE K == "video"
           P == Chain[K]
           R == FillingBitrate
           ok1 == TRUE /\ Fits1(K, C, t)
           w1 == Leaving1(K, C, t)
           D == [C EXCEPT ![3] = Settled(C, t).buf]
           checked == CheckChain(P, C, t, TpSize, R)
           after1 == CheckStep(P, Asked(C, TRUE, FALSE, TpSize), 1, t, R)
<1>1. K \in Kinds BY DEF Kinds
<1>2. LookAhead(P, C, 1, t, R) = Ahead0(C, 0) BY <1>1, PlainAhead
<1>3. Len(P) = 3 BY <1>1, ChainFacts
<1>4. after1 = Asked(C, ok1, FALSE, w1)
  <2>1. Asks(P, C, 1, t, C, 0) BY <1>2, NodeChecked
  <2> QED BY <2>1, Zenon DEF Asks, Fits1, Leaving1
<1>5. checked = CheckStep(P, CheckStep(P, after1, 2, t, R), 3, t, R)
  BY <1>3, CheckUnfolded DEF Asked
<1>6. CASE Settled(C, t).err # "none"
  <2>1. LookAhead(P, C, 2, t, R).err # "none"
    <3>1. LookAhead(P, C, 2, t, R).err = Settled(C, t).err BY <1>6, VideoAhead
    <3> HIDE DEF P, R
    <3> QED BY <1>6, <3>1
  <2>2. Stops(P, C, 2, t) BY <2>1, NodeStopped
  <2>3. ok1 \in BOOLEAN OBVIOUS
  <2> HIDE DEF ok1, w1, P, after1, checked
  <2>4. CheckStep(P, Asked(C, ok1, FALSE, w1), 2, t, R) = Asked(C, ok1, TRUE, w1)
    BY <2>2, <2>3, Zenon DEF Stops
  <2>5. CheckStep(P, Asked(C, ok1, TRUE, w1), 3, t, R) = Asked(C, ok1, TRUE, w1)
    BY DEF CheckStep, Asked
  <2>6. checked = Asked(C, ok1, TRUE, w1) BY <1>4, <1>5, <2>4, <2>5
  <2>7. checked.bufs = C /\ checked.ok = ok1 BY <2>6 DEF Asked
  <2> QED BY <1>6, <2>7 DEF checked, P, ok1
<1>7. CASE Settled(C, t).err = "none"
  <2> DEFINE room == Room(C, t)
             ok2 == ok1 /\ Fits(P[2], D[2], t, w1, R, room)
             w2 == LeavingAt(P[2], D[2], t, w1, R, room)
             ok3 == ok2 /\ Fits(P[3], D[3], t, w2, R, 0)
             w3 == LeavingAt(P[3], D[3], t, w2, R, 0)
  <2>1. LookAhead(P, C, 2, t, R) = Ahead0(D, room) BY <1>7, VideoAhead
  <2>2. LookAhead(P, D, 3, t, R) = Ahead0(D, 0)
    <3> HIDE DEF D
    <3> QED BY <1>1, PlainAhead
  <2>3. D[1] = C[1] BY 1 \in 1..3
  <2>4. Leaving1(K, D, t) = w1 BY <2>3 DEF Leaving1
  <2> HIDE DEF D, room
  <2>5. Asks(P, C, 2, t, D, room) /\ Asks(P, D, 3, t, D, 0) BY <2>1, <2>2, NodeChecked
  <2>6. ok1 \in BOOLEAN /\ ok2 \in BOOLEAN OBVIOUS
  <2> HIDE DEF ok1, w1, after1, checked
  <2>7. CheckStep(P, Asked(C, ok1, FALSE, w1), 2, t, R) = Asked(D, ok2, FALSE, w2)
    BY <2>5, <2>6, Zenon DEF Asks
  <2> HIDE DEF ok2, w2
  <2>8. CheckStep(P, Asked(D, ok2, FALSE, w2), 3, t, R) = Asked(D, ok3, FALSE, w3)
    BY <2>5, <2>6, Zenon DEF Asks
  <2> HIDE DEF ok3, w3
  <2>9. checked = Asked(D, ok3, FALSE, w3) BY <1>4, <1>5, <2>7, <2>8
  <2>10. checked.bufs = D /\ checked.ok = ok3 BY <2>9 DEF Asked
  <2>11. ok3 => Fits1(K, C, t) /\ Fits2(K, D, t, room) BY <2>4 DEF ok3, ok2, ok1, Fits2
  <2> QED BY <1>7, <2>10, <2>11 DEF checked, D, room
<1> QED BY <1>6, <1>7

\* The check keeps a chain sound, whatever it answers.
LEMMA CheckedSound ==
  ASSUME NEW K \in Kinds, NEW t \in Nat, NEW C, NEW rest \in Nat, ChainSound(K, C, rest, t)
  PROVE  ChainSound(K, CheckChain(Chain[K], C, t, TpSize, FillingBitrate).bufs, rest, t)
<1>1. CASE K # "video" BY <1>1, TwoChecked
<1>2. CASE K = "video"
  <2>1. C = [k \in 1..3 |-> C[k]] BY <1>2, SettledSound
  <2>2. CASE Settled(C, t).err # "none" BY <1>2, <2>1, <2>2, VideoChecked
  <2>3. CASE Settled(C, t).err = "none"
    <3>1. ChainSound("video", [C EXCEPT ![3] = Settled(C, t).buf], rest, t)
      BY <1>2, <2>3, SettledSound
    <3> QED BY <1>2, <2>1, <2>3, <3>1, VideoChecked
  <2> QED BY <2>2, <2>3
<1> QED BY <1>1, <1>2

-----------------------------------------------------------------------------
(* A packet enters.                                                         *)

\* The chain with the frames of a transport packet that is not put in it yet.
Loaded(K, C, D, rest, t) ==
  /\ D = [k \in 1..Len(Chain[K]) |-> D[k]]
  /\ \A k \in 1..Len(Chain[K]) : Sound(Chain[K][k], D[k], t)
  /\ \A k \in {1, 2} : /\ D[k].bufferFillingLevel = C[k].bufferFillingLevel
                       /\ D[k].bufferInputData = C[k].bufferInputData
                       /\ D[k].lastUpdate = C[k].lastUpdate
  /\ K # "system" => D[2] = C[2]
  /\ Announced(D[1]) = TpSize
  /\ Announced(D[2]) = FramesData(D[1].storedFrames) + IF K = "system" THEN 0 ELSE rest
  /\ K = "video" => D[3] = C[3] /\ Announced(D[3]) = FramesData(D[2].storedFrames)

\* Registering a packet announces it to the transport buffer, and its data stays announced.
LEMMA LoadedRight ==
  ASSUME kind \in Kinds, NEW t \in Nat, NEW C, NEW rest \in Nat, NEW payload \in Nat \ {0},
         payload <= rest, payload <= TpSize, ChainSound(kind, C, rest, t)
  PROVE  Loaded(kind, C, WithTsFrame(C, TpSize - payload, payload), rest - payload, t)
<1> DEFINE packet == [header |-> TpSize - payload, data |-> payload, removal |-> 0]
           table == [header |-> 0, data |-> payload, removal |-> 0]
           D == WithTsFrame(C, TpSize - payload, payload)
           N == Len(Chain[kind])
           b == WithFrame(C[1], packet)
           c == WithFrame(C[2], table)
<1>1. TpSize \in Nat BY ChainAssumption
<1>2. /\ packet \in Frame /\ FrameBits(packet) = TpSize /\ FrameBits(packet) > 0 /\ packet.data = payload
      /\ table \in Frame /\ FrameBits(table) = payload /\ FrameBits(table) > 0 /\ table.data = payload
  BY <1>1 DEF Frame, FrameBits
<1>3. N = (IF kind = "video" THEN 3 ELSE 2) BY ChainFacts
<1>4. 1 \in 1..N /\ 2 \in 1..N /\ (kind = "video" => 3 \in 1..N) BY <1>3
<1> HIDE DEF N, packet, table
<1>5. /\ C = [k \in 1..N |-> C[k]]
      /\ \A k \in 1..N : Sound(Chain[kind][k], C[k], t)
      /\ Announced(C[1]) = 0
      /\ Announced(C[2]) = FramesData(C[1].storedFrames) + IF kind = "system" THEN 0 ELSE rest
      /\ kind = "video" => Announced(C[3]) = FramesData(C[2].storedFrames)
  BY DEF ChainSound, N
<1>6. D = IF kind = "system" THEN [C EXCEPT ![1] = b, ![2] = c] ELSE [C EXCEPT ![1] = b]
  BY DEF WithTsFrame, packet, table
<1> HIDE DEF D
<1>7. /\ D = [k \in 1..N |-> D[k]] /\ D[1] = b
      /\ D[2] = IF kind = "system" THEN c ELSE C[2]
      /\ \A k \in 1..N : k # 1 /\ k # 2 => D[k] = C[k]
  <2> HIDE DEF b, c
  <2>1. CASE kind = "system"
    <3> DEFINE E == [C EXCEPT ![1] = b]
    <3>1. D = [E EXCEPT ![2] = c] BY <1>6, <2>1
    <3>2. /\ E = [k \in 1..N |-> E[k]] /\ E[1] = b /\ \A k \in 1..N : k # 1 => E[k] = C[k]
      BY <1>4, <1>5, Replaced
    <3> HIDE DEF E
    <3>3. /\ D = [k \in 1..N |-> D[k]] /\ D[2] = c /\ \A k \in 1..N : k # 2 => D[k] = E[k]
      BY <1>4, <3>1, <3>2, Replaced
    <3> QED BY <1>4, <2>1, <3>2, <3>3
  <2>2. CASE kind # "system"
    <3>1. D = [C EXCEPT ![1] = b] BY <1>6, <2>2
    <3>2. /\ D = [k \in 1..N |-> D[k]] /\ D[1] = b /\ \A k \in 1..N : k # 1 => D[k] = C[k]
      BY <1>4, <1>5, <3>1, Replaced
    <3> QED BY <1>4, <2>2, <3>2
  <2> QED BY <2>1, <2>2
<1>8. /\ Sound(Chain[kind][1], b, t)
      /\ Announced(b) = TpSize
      /\ FramesData(b.storedFrames) = FramesData(C[1].storedFrames) + payload
      /\ b.bufferFillingLevel = C[1].bufferFillingLevel
      /\ b.bufferInputData = C[1].bufferInputData /\ b.lastUpdate = C[1].lastUpdate
  <2>1. Sound(Chain[kind][1], C[1], t) /\ 0 <= Announced(C[1]) BY <1>4, <1>5
  <2> DEFINE P == Chain[kind][1]
             a == C[1]
  <2> HIDE DEF P, a
  <2>2. Sound(P, a, t) /\ 0 <= Announced(a) BY <2>1 DEF P, a
  <2>3. Framed(P, t, a, packet) BY <1>2, <2>2, FrameSound
  <2> QED BY <1>1, <1>2, <1>5, <2>3 DEF P, a, Framed
<1>9. FramesData(C[1].storedFrames) \in Nat /\ Announced(C[2]) \in Nat
  <2>1. Sound(Chain[kind][1], C[1], t) BY <1>4, <1>5
  <2>2. FramesData(C[1].storedFrames) \in Nat BY <2>1, SoundTypes
  <2> QED BY <1>5, <2>2
<1>10. ASSUME kind = "system"
       PROVE  /\ Sound(Chain[kind][2], c, t)
              /\ Announced(c) = Announced(C[2]) + payload
              /\ c.bufferFillingLevel = C[2].bufferFillingLevel
              /\ c.bufferInputData = C[2].bufferInputData /\ c.lastUpdate = C[2].lastUpdate
  <2>1. Sound(Chain[kind][2], C[2], t) /\ 0 <= Announced(C[2]) BY <1>4, <1>5, <1>9
  <2> DEFINE P == Chain[kind][2]
             a == C[2]
  <2> HIDE DEF P, a
  <2>2. Sound(P, a, t) /\ 0 <= Announced(a) BY <2>1 DEF P, a
  <2>3. Framed(P, t, a, table) BY <1>2, <2>2, FrameSound
  <2> QED BY <1>2, <2>3 DEF P, a, Framed
<1> HIDE DEF b, c
<1>11. \A k \in 1..N : Sound(Chain[kind][k], D[k], t)
  <2> SUFFICES ASSUME NEW k \in 1..N PROVE Sound(Chain[kind][k], D[k], t) OBVIOUS
  <2>1. CASE k = 1 BY <1>7, <1>8, <2>1
  <2>2. CASE k = 2 BY <1>5, <1>7, <1>10, <2>2
  <2>3. CASE k # 1 /\ k # 2 BY <1>5, <1>7, <2>3
  <2> QED BY <2>1, <2>2, <2>3
<1>12. Announced(D[2]) = FramesData(D[1].storedFrames) + IF kind = "system" THEN 0 ELSE rest - payload
  <2>1. CASE kind = "system" BY <1>5, <1>7, <1>8, <1>9, <1>10, <2>1
  <2>2. CASE kind # "system" BY <1>5, <1>7, <1>8, <1>9, <2>2
  <2> QED BY <2>1, <2>2
<1>13. \A k \in {1, 2} : /\ D[k].bufferFillingLevel = C[k].bufferFillingLevel
                        /\ D[k].bufferInputData = C[k].bufferInputData
                        /\ D[k].lastUpdate = C[k].lastUpdate
  BY <1>7, <1>8, <1>10
<1>14. kind = "video" => D[3] = C[3] /\ D[2] = C[2] /\ Announced(D[3]) = FramesData(D[2].storedFrames)
  BY <1>4, <1>5, <1>7
<1> QED BY <1>7, <1>8, <1>11, <1>12, <1>13, <1>14 DEF Loaded, N, D

First(K, D, t) == Updated(Chain[K][1], D[1], t, TpSize, FillingBitrate, 0)
Second(K, D, t, j, room) == Updated(Chain[K][2], D[2], t, j, FillingBitrate, room)
Third(b, t, j) == Updated(Chain["video"][3], b, t, j, FillingBitrate, 0)

\* The transport buffer takes the packet that fitted before it was registered.
LEMMA FirstRight ==
  ASSUME NEW K \in Kinds, NEW t \in Nat, NEW C, NEW D, NEW rest \in Nat,
         Sound(Chain[K][1], C[1], t), Loaded(K, C, D, rest, t), Fits1(K, C, t)
  PROVE  LET u == First(K, D, t)
         IN  /\ u.err \in {"none", "underflow"}
             /\ u.emitted \in Nat /\ u.emitted <= Leaving1(K, C, t)
             /\ u.err = "none" =>
                  /\ Sound(Chain[K][1], u.buf, t) /\ Announced(u.buf) = 0
                  /\ FramesData(u.buf.storedFrames) = FramesData(D[1].storedFrames) - u.emitted
                  /\ u.emitted <= FramesData(D[1].storedFrames)
<1> DEFINE P == Chain[K][1]
           b == C[1]
           d == D[1]
           u == First(K, D, t)
           R == FillingBitrate
<1>1. P \in Parameters /\ P.type = "leak" /\ ~P.dontOverflowOutput BY ChainFacts
<1>2. /\ d.bufferFillingLevel = b.bufferFillingLevel /\ d.bufferInputData = b.bufferInputData
      /\ d.lastUpdate = b.lastUpdate /\ Announced(d) = TpSize
  BY DEF Loaded
<1>3. Sound(P, d, t)
  <2>1. 1 \in 1..Len(Chain[K]) BY ChainFacts
  <2> QED BY <2>1 DEF Loaded
<1>4. TpSize \in Nat /\ R \in Nat BY ChainAssumption
<1>5. Sound(P, b, t) OBVIOUS
<1>6. Fits(P, b, t, TpSize, R, 0) BY DEF Fits1
<1>7. FramesData(d.storedFrames) \in Nat BY <1>3, SoundTypes
<1>8. Leaving1(K, C, t) = LeavingAt(P, b, t, TpSize, R, 0) BY DEF Leaving1
<1>9. u = Updated(P, d, t, TpSize, R, 0) BY DEF First
<1> HIDE DEF P, b, d, u, R
<1>10. Outcome(P, d, t, TpSize, R, 0)
  <2>1. TpSize <= Announced(d) /\ 0 \in Nat BY <1>2, <1>4
  <2>2. P.type = "removal" => ~P.dontOverflowOutput BY <1>1
  <2> QED BY <1>1, <1>3, <1>4, <2>1, <2>2, OutcomeRight
<1>11. u.err # "overflow"
  <2>1. P.type = "removal" => ~P.dontOverflowOutput /\ d.storedFrames = b.storedFrames BY <1>1
  <2>2. Alike(P, b, d, t) BY <1>2, <1>3, <1>5, <2>1 DEF Alike
  <2>3. TpSize <= TpSize /\ 0 <= 0 /\ 0 \in Nat /\ TpSize <= Announced(d) BY <1>2, <1>4
  <2>4. Updated(P, d, t, TpSize, FillingBitrate, 0).err # "overflow"
    BY <1>1, <1>4, <1>6, <2>2, <2>3, FitsStill DEF R
  <2> QED BY <1>9, <2>4 DEF R
<1>12. /\ u.emitted \in Nat /\ u.emitted <= LeavingAt(P, d, t, TpSize, R, 0)
       /\ u.err \in {"none", "underflow", "overflow"}
       /\ u.err = "none" => /\ Sound(P, u.buf, t) /\ Announced(u.buf) = Announced(d) - TpSize
                            /\ FramesData(u.buf.storedFrames) = FramesData(d.storedFrames) - u.emitted
  BY <1>9, <1>10 DEF Outcome
<1>13. LeavingAt(P, d, t, TpSize, R, 0) = LeavingAt(P, b, t, TpSize, R, 0)
  <2>1. LevelAt(P, d, t, TpSize, R) = LevelAt(P, b, t, TpSize, R) BY <1>2 DEF LevelAt, DataInput
  <2> QED BY <1>1, <1>2, <2>1 DEF LeavingAt, DataOutput, LeakingBandwidth
<1>14. ASSUME u.err = "none" PROVE u.emitted <= FramesData(d.storedFrames)
  <2>1. FramesData(u.buf.storedFrames) \in Nat
    <3>1. Sound(P, u.buf, t) BY <1>12, <1>14
    <3> QED BY <3>1, SoundTypes
  <2>2. FramesData(u.buf.storedFrames) = FramesData(d.storedFrames) - u.emitted BY <1>12, <1>14
  <2> QED BY <1>7, <1>12, <2>1, <2>2
<1>15. TpSize - TpSize = 0 BY <1>4
<1>16. u.emitted <= Leaving1(K, C, t) BY <1>8, <1>12, <1>13
<1>17. u.err = "none" => Announced(u.buf) = 0 BY <1>2, <1>12, <1>15
<1>18. u.err \in {"none", "underflow"} BY <1>11, <1>12
<1> QED BY <1>12, <1>14, <1>16, <1>17, <1>18 DEF P, d, u

\* The second buffer takes the data that the first emits.
LEMMA SecondRight ==
  ASSUME NEW K \in Kinds, NEW t \in Nat, NEW C, NEW D, NEW rest \in Nat, NEW j \in Nat,
         NEW room \in Nat, NEW more \in Nat,
         Sound(Chain[K][1], C[1], t), Sound(Chain[K][2], C[2], t), Loaded(K, C, D, rest, t),
         j <= Leaving1(K, C, t), j <= Announced(D[2]), room <= more, Fits2(K, C, t, room)
  PROVE  LET u == Second(K, D, t, j, more)
         IN  /\ u.err \in {"none", "underflow"}
             /\ u.emitted \in Nat /\ (K = "video" => u.emitted <= more)
             /\ u.err = "none" =>
                  /\ Sound(Chain[K][2], u.buf, t) /\ Announced(u.buf) = Announced(D[2]) - j
                  /\ FramesData(u.buf.storedFrames) = FramesData(D[2].storedFrames) - u.emitted
                  /\ u.emitted <= FramesData(D[2].storedFrames)
<1> DEFINE P == Chain[K][2]
           b == C[2]
           d == D[2]
           u == Second(K, D, t, j, more)
           R == FillingBitrate
           i == Leaving1(K, C, t)
<1>1. /\ P \in Parameters /\ P.instantFilling /\ (P.dontOverflowOutput <=> K = "video")
      /\ P.type = IF K = "audio" THEN "removal" ELSE "leak"
  BY ChainFacts
<1>2. /\ d.bufferFillingLevel = b.bufferFillingLevel /\ d.bufferInputData = b.bufferInputData
      /\ d.lastUpdate = b.lastUpdate /\ (K # "system" => d = b)
  BY DEF Loaded
<1>3. Sound(P, d, t)
  <2>1. 2 \in 1..Len(Chain[K]) BY ChainFacts
  <2> QED BY <2>1 DEF Loaded
<1>4. R \in Nat /\ TpSize \in Nat BY ChainAssumption
<1>5. Sound(P, b, t) /\ j <= Announced(d) OBVIOUS
<1>6. Fits(P, b, t, i, R, room) BY DEF Fits2
<1>7. FramesData(d.storedFrames) \in Nat BY <1>3, SoundTypes
<1>8. i \in Nat
  <2>1. C[1] \in BuffersAt(t) BY SoundTypes
  <2>2. Chain[K][1] \in Parameters BY ChainFacts
  <2>3. LeavingAt(Chain[K][1], C[1], t, TpSize, R, 0) \in Nat
    <3>1. 0 \in Nat OBVIOUS
    <3> HIDE DEF R
    <3> QED BY <1>4, <2>1, <2>2, <3>1, LeavingRight
  <2> QED BY <2>3 DEF Leaving1
<1>9. u = Updated(P, d, t, j, R, more) BY DEF Second
<1>10. j <= i OBVIOUS
<1> HIDE DEF P, b, d, u, R, i
<1>11. P.type = "removal" => ~P.dontOverflowOutput /\ d.storedFrames = b.storedFrames BY <1>1, <1>2
<1>12. Outcome(P, d, t, j, R, more)
  <2>1. P.type = "removal" => ~P.dontOverflowOutput BY <1>11
  <2> QED BY <1>1, <1>3, <1>4, <1>5, <2>1, OutcomeRight
<1>13. u.err # "overflow"
  <2>1. j = i \/ P.instantFilling BY <1>1
  <2>2. Alike(P, b, d, t) BY <1>2, <1>3, <1>5, <1>11 DEF Alike
  <2>3. Updated(P, d, t, j, FillingBitrate, more).err # "overflow"
    BY <1>1, <1>4, <1>5, <1>6, <1>8, <1>10, <2>1, <2>2, FitsStill DEF R
  <2> QED BY <1>9, <2>3 DEF R
<1> DEFINE w == LeavingAt(P, d, t, j, R, more)
           x == LevelAt(P, d, t, j, R)
<1>14. /\ u.emitted \in Nat /\ u.emitted <= w /\ w \in Nat /\ x \in Nat
       /\ P.type = "leak" => w = LeakOf(P, d, t, x, more)
       /\ u.err \in {"none", "underflow", "overflow"}
       /\ u.err = "none" => /\ Sound(P, u.buf, t) /\ Announced(u.buf) = Announced(d) - j
                            /\ FramesData(u.buf.storedFrames) = FramesData(d.storedFrames) - u.emitted
  BY <1>9, <1>12 DEF Outcome
<1> HIDE DEF w, x
<1>15. ASSUME K = "video" PROVE u.emitted <= more
  <2>1. P.type = "leak" /\ P.dontOverflowOutput BY <1>1, <1>15
  <2>2. w = MIN(MIN(x, Leaks(P, d, t)), more) BY <1>14, <2>1 DEF LeakOf
  <2>3. Leaks(P, d, t) \in Nat
    <3>1. d \in BuffersAt(t) BY <1>3, SoundTypes
    <3> QED BY <1>1, <3>1, LeaksNat
  <2>4. MIN(x, Leaks(P, d, t)) \in Nat BY <1>14, <2>3, MinNat
  <2>5. w <= more BY <2>2, <2>4, MinNat
  <2> QED BY <1>14, <2>5
<1>16. ASSUME u.err = "none" PROVE u.emitted <= FramesData(d.storedFrames)
  <2>1. FramesData(u.buf.storedFrames) \in Nat
    <3>1. Sound(P, u.buf, t) BY <1>14, <1>16
    <3> QED BY <3>1, SoundTypes
  <2>2. FramesData(u.buf.storedFrames) = FramesData(d.storedFrames) - u.emitted BY <1>14, <1>16
  <2> QED BY <1>7, <1>14, <2>1, <2>2
<1>17. u.err \in {"none", "underflow"} BY <1>13, <1>14
<1> QED BY <1>14, <1>15, <1>16, <1>17 DEF P, d, u

\* What the second buffer emits is at most the room in the third.
LEMMA ThirdRight ==
  ASSUME NEW t \in Nat, NEW b, NEW j \in Nat,
         Sound(Chain["video"][3], b, t), j <= Announced(b), j <= RoomIn(Chain["video"][3], b)
  PROVE  LET u == Third(b, t, j)
         IN  /\ u.err \in {"none", "underflow"}
             /\ u.err = "none" => /\ Sound(Chain["video"][3], u.buf, t)
                                  /\ Announced(u.buf) = Announced(b) - j
<1> DEFINE P == Chain["video"][3]
           u == Third(b, t, j)
           R == FillingBitrate
<1>1. P \in Parameters /\ P.instantFilling /\ ~P.dontOverflowOutput /\ P.type = "removal"
  BY ChainFacts
<1>2. R \in Nat BY ChainAssumption
<1>3. Sound(P, b, t) /\ j <= RoomIn(P, b) OBVIOUS
<1>4. u = Updated(P, b, t, j, R, 0) BY DEF Third
<1> HIDE DEF P, u, R
<1>5. Outcome(P, b, t, j, R, 0) BY <1>1, <1>2, <1>3, OutcomeRight
<1> DEFINE w == LeavingAt(P, b, t, j, R, 0)
           x == LevelAt(P, b, t, j, R)
<1>6. /\ w \in Nat /\ x \in Nat
      /\ P.instantFilling => x = b.bufferFillingLevel + (b.bufferInputData + j)
      /\ u.err \in {"none", "underflow", "overflow"}
      /\ u.err = "overflow" => x - w > P.bufferSize
      /\ u.err = "none" => Sound(P, u.buf, t) /\ Announced(u.buf) = Announced(b) - j
  BY <1>4, <1>5 DEF Outcome
<1> HIDE DEF w, x
<1>7. /\ b.bufferInputData = 0 /\ b.bufferFillingLevel \in Nat /\ P.bufferSize \in Nat
      /\ b.bufferFillingLevel + j <= P.bufferSize
  <2>1. b.bufferInputData = 0 BY <1>1, <1>3 DEF Sound
  <2>2. b.bufferFillingLevel \in Nat /\ P.bufferSize \in Nat BY <1>1, <1>3, SoundTypes DEF Parameters
  <2>3. j <= P.bufferSize - b.bufferFillingLevel BY <1>3 DEF RoomIn
  <2> QED BY <2>1, <2>2, <2>3
<1>8. u.err # "overflow"
  <2>1. x = b.bufferFillingLevel + (b.bufferInputData + j) BY <1>1, <1>6
  <2> QED BY <1>6, <1>7, <2>1
<1> QED BY <1>6, <1>8 DEF P, u

\* The chain after the first buffer.
After1(K, D, t) == [D EXCEPT ![1] = First(K, D, t).buf]

\* The update of the first buffer as a step of the chain.
LEMMA FirstPassed ==
  ASSUME NEW K \in Kinds, NEW t \in Nat, NEW C, NEW D, NEW rest \in Nat, Loaded(K, C, D, rest, t)
  PROVE  /\ UpdateStep(Chain[K], Given(D, "none", TpSize), 1, t, FillingBitrate)
              = Given(After1(K, D, t), First(K, D, t).err, First(K, D, t).emitted)
         /\ After1(K, D, t) = [k \in 1..Len(Chain[K]) |-> After1(K, D, t)[k]]
         /\ After1(K, D, t)[1] = First(K, D, t).buf
         /\ \A k \in 1..Len(Chain[K]) : k # 1 => After1(K, D, t)[k] = D[k]
         /\ 1 \in 1..Len(Chain[K]) /\ 2 \in 1..Len(Chain[K])
         /\ After1(K, D, t)[2] = D[2]
<1> DEFINE u == First(K, D, t)
           E == After1(K, D, t)
           N == Len(Chain[K])
<1>1. LookAhead(Chain[K], D, 1, t, FillingBitrate) = Ahead0(D, 0) BY PlainAhead
<1>2. Runs(Chain[K], D, 1, t, D, 0) BY <1>1, NodeUpdated
<1>3. UpdateStep(Chain[K], Given(D, "none", TpSize), 1, t, FillingBitrate) = Given(E, u.err, u.emitted)
  BY <1>2, Zenon DEF Runs, First, After1
<1>4. 1 \in 1..N /\ 2 \in 1..N BY ChainFacts
<1>5. D = [k \in 1..N |-> D[k]] /\ E = [D EXCEPT ![1] = u.buf] BY DEF Loaded, After1
<1> HIDE DEF u, E, N
<1>6. E = [k \in 1..N |-> E[k]] /\ E[1] = u.buf /\ \A k \in 1..N : k # 1 => E[k] = D[k]
  BY <1>4, <1>5, Replaced
<1>7. E[2] = D[2] BY <1>4, <1>6
<1> QED BY <1>3, <1>4, <1>6, <1>7, Zenon DEF u, E, N

\* An audio or system chain, its packet registered, takes what fitted before it was.
LEMMA TwoUpdated ==
  ASSUME NEW K \in Kinds, K # "video", NEW t \in Nat, NEW C, NEW D, NEW rest \in Nat,
         Sound(Chain[K][1], C[1], t), Sound(Chain[K][2], C[2], t), Loaded(K, C, D, rest, t),
         Fits1(K, C, t), Fits2(K, C, t, 0)
  PROVE  LET put == UpdateChain(Chain[K], D, t, TpSize, FillingBitrate)
         IN  /\ put.err \in {"none", "underflow"}
             /\ put.err = "none" => ChainSound(K, put.bufs, rest, t)
<1> DEFINE P == Chain[K]
           R == FillingBitrate
           put == UpdateChain(P, D, t, TpSize, R)
           u == First(K, D, t)
           E == After1(K, D, t)
           v == Second(K, D, t, u.emitted, 0)
           F == [E EXCEPT ![2] = v.buf]
           more == IF K = "system" THEN 0 ELSE rest
<1>1. Len(P) = 2 BY ChainFacts
<1>2. put = UpdateStep(P, UpdateStep(P, Given(D, "none", TpSize), 1, t, R), 2, t, R)
  BY <1>1, UpdateUnfolded DEF Given
<1>3. /\ UpdateStep(P, Given(D, "none", TpSize), 1, t, R) = Given(E, u.err, u.emitted)
      /\ E = [k \in 1..2 |-> E[k]] /\ E[1] = u.buf /\ E[2] = D[2]
  BY <1>1, FirstPassed
<1>4. /\ u.err \in {"none", "underflow"}
      /\ u.emitted \in Nat /\ u.emitted <= Leaving1(K, C, t)
      /\ u.err = "none" => /\ Sound(P[1], u.buf, t) /\ Announced(u.buf) = 0
                           /\ FramesData(u.buf.storedFrames) = FramesData(D[1].storedFrames) - u.emitted
                           /\ u.emitted <= FramesData(D[1].storedFrames)
  BY FirstRight
<1>5. CASE u.err # "none"
  <2>1. put = Given(E, u.err, u.emitted)
    <3> HIDE DEF put, u, E, P
    <3> QED BY <1>2, <1>3, <1>5, NodeSkipped
  <2>2. put.err = u.err
    <3> HIDE DEF put, u, E
    <3> QED BY <2>1 DEF Given
  <2> HIDE DEF put, u
  <2> QED BY <1>4, <1>5, <2>2 DEF put
<1>6. CASE u.err = "none"
  <2>1. LookAhead(P, E, 2, t, R) = Ahead0(E, 0)
    <3> HIDE DEF E
    <3> QED BY PlainAhead
  <2>2. Runs(P, E, 2, t, E, 0) BY <2>1, NodeUpdated
  <2>3. UpdateStep(P, Given(E, "none", u.emitted), 2, t, R) = Given(F, v.err, v.emitted)
    <3>1. Updated(P[2], E[2], t, u.emitted, R, 0) = v BY <1>3 DEF Second
    <3> HIDE DEF E, u, v, P
    <3> QED BY <2>2, <3>1, Zenon DEF Runs
  <2>4. put = Given(F, v.err, v.emitted)
    <3> HIDE DEF put, u, E, P, v, F
    <3> QED BY <1>2, <1>3, <1>6, <2>3
  <2>5. put.err = v.err /\ put.bufs = F
    <3> HIDE DEF put, v, F
    <3> QED BY <2>4 DEF Given
  <2>6. /\ Announced(D[2]) = FramesData(D[1].storedFrames) + more
        /\ Sound(P[1], D[1], t)
    BY <1>1 DEF Loaded
  <2>7. FramesData(D[1].storedFrames) \in Nat /\ more \in Nat BY <2>6, SoundTypes
  <2>8. u.emitted <= Announced(D[2])
    <3> HIDE DEF u, more
    <3> QED BY <1>4, <1>6, <2>6, <2>7
  <2>9. /\ v.err \in {"none", "underflow"}
        /\ v.err = "none" => Sound(P[2], v.buf, t) /\ Announced(v.buf) = Announced(D[2]) - u.emitted
    <3>1. 0 \in Nat /\ 0 <= 0 OBVIOUS
    <3> DEFINE j == u.emitted
    <3>2. j \in Nat /\ j <= Leaving1(K, C, t) /\ j <= Announced(D[2]) BY <1>4, <2>8
    <3>3. v = Second(K, D, t, j, 0) OBVIOUS
    <3> HIDE DEF j, u, v
    <3> QED BY <3>1, <3>2, <3>3, SecondRight DEF j
  <2>10. ASSUME v.err = "none" PROVE ChainSound(K, F, rest, t)
    <3>1. /\ F = [k \in 1..2 |-> F[k]] /\ F[1] = u.buf /\ F[2] = v.buf
      <4>1. 2 \in 1..2 /\ 1 \in 1..2 OBVIOUS
      <4> HIDE DEF E, u, v
      <4>2. F = [k \in 1..2 |-> F[k]] /\ F[2] = v.buf /\ \A k \in 1..2 : k # 2 => F[k] = E[k]
        BY <1>3, <4>1, Replaced
      <4> QED BY <1>3, <4>1, <4>2
    <3>2. /\ Sound(P[1], u.buf, t) /\ Announced(u.buf) = 0
          /\ Sound(P[2], v.buf, t)
          /\ Announced(v.buf) = FramesData(u.buf.storedFrames) + more
      <4>1. FramesData(u.buf.storedFrames) = FramesData(D[1].storedFrames) - u.emitted BY <1>4, <1>6
      <4>2. Announced(v.buf) = Announced(D[2]) - u.emitted BY <2>9, <2>10
      <4>3. Sound(P[1], u.buf, t) /\ Announced(u.buf) = 0 /\ Sound(P[2], v.buf, t)
        BY <1>4, <1>6, <2>9, <2>10
      <4> HIDE DEF u, v, more
      <4> QED BY <1>4, <2>6, <2>7, <4>1, <4>2, <4>3
    <3> HIDE DEF F, u, v, P
    <3>3. \A k \in 1..2 : Sound(P[k], F[k], t)
      <4>1. \A k \in 1..2 : k = 1 \/ k = 2 OBVIOUS
      <4> QED BY <3>1, <3>2, <4>1
    <3> QED BY <1>1, <3>1, <3>2, <3>3 DEF ChainSound, P, more
  <2> HIDE DEF put, v, F
  <2> QED BY <2>5, <2>9, <2>10 DEF put
<1> HIDE DEF u
<1> QED BY <1>4, <1>5, <1>6

\* What the check left of a video, with the room that it found or the failure that it met.
LEMMA VideoUpdated ==
  ASSUME NEW t \in Nat, NEW C, NEW D, NEW rest \in Nat,
         \A k \in 1..3 : Sound(Chain["video"][k], C[k], t), Announced(C[3]) \in Nat,
         Loaded("video", C, D, rest, t), Fits1("video", C, t),
         \/ Settled(C, t).err = "underflow"
         \/ \E room \in Nat : /\ room = RoomIn(Chain["video"][3], C[3])
                             /\ Fits2("video", C, t, room)
  PROVE  LET put == UpdateChain(Chain["video"], D, t, TpSize, FillingBitrate)
         IN  /\ put.err \in {"none", "underflow"}
             /\ put.err = "none" => ChainSound("video", put.bufs, rest, t)
<1> DEFINE K == "video"
           P == Chain[K]
           R == FillingBitrate
           put == UpdateChain(P, D, t, TpSize, R)
           u == First(K, D, t)
           E == After1(K, D, t)
           s == Settled(E, t)
           H == [E EXCEPT ![3] = s.buf]
           room == Room(E, t)
           v == Second(K, D, t, u.emitted, room)
           F == [H EXCEPT ![2] = v.buf]
           w == Third(s.buf, t, v.emitted)
           G == [F EXCEPT ![3] = w.buf]
           a1 == UpdateStep(P, Given(D, "none", TpSize), 1, t, R)
           a2 == UpdateStep(P, a1, 2, t, R)
<1>1. K \in Kinds BY DEF Kinds
<1>2. Len(P) = 3 BY <1>1, ChainFacts
<1>3. put = UpdateStep(P, a2, 3, t, R) BY <1>2, UpdateUnfolded DEF Given
<1>4. /\ a1 = Given(E, u.err, u.emitted)
      /\ E = [k \in 1..3 |-> E[k]] /\ E[1] = u.buf /\ E[2] = D[2] /\ E[3] = D[3]
  <2>1. 3 \in 1..3 /\ 3 # 1 OBVIOUS
  <2> QED BY <1>1, <1>2, <2>1, FirstPassed
<1>5. /\ u.err \in {"none", "underflow"}
      /\ u.emitted \in Nat /\ u.emitted <= Leaving1(K, C, t)
      /\ u.err = "none" => /\ Sound(P[1], u.buf, t) /\ Announced(u.buf) = 0
                           /\ FramesData(u.buf.storedFrames) = FramesData(D[1].storedFrames) - u.emitted
                           /\ u.emitted <= FramesData(D[1].storedFrames)
  <2>1. 1 \in 1..3 OBVIOUS
  <2> QED BY <1>1, <2>1, FirstRight
<1>6. /\ D[3] = C[3] /\ Announced(D[3]) = FramesData(D[2].storedFrames)
      /\ Announced(D[2]) = FramesData(D[1].storedFrames) + rest
      /\ Sound(P[1], D[1], t) /\ Sound(P[2], D[2], t) /\ Sound(P[3], D[3], t)
  <2>1. /\ D[3] = C[3] /\ Announced(D[3]) = FramesData(D[2].storedFrames)
        /\ Announced(D[2]) = FramesData(D[1].storedFrames) + IF K = "system" THEN 0 ELSE rest
        /\ \A k \in 1..3 : Sound(P[k], D[k], t)
    BY <1>2 DEF Loaded
  <2>2. 1 \in 1..3 /\ 2 \in 1..3 /\ 3 \in 1..3 /\ K # "system" OBVIOUS
  <2> QED BY <2>1, <2>2
<1>7. FramesData(D[1].storedFrames) \in Nat /\ FramesData(D[2].storedFrames) \in Nat
  BY <1>6, SoundTypes
<1>8. CASE u.err # "none"
  <2> HIDE DEF put, u, E, P
  <2>1. a2 = Given(E, u.err, u.emitted) BY <1>4, <1>8, NodeSkipped
  <2> HIDE DEF a2
  <2>2. put = Given(E, u.err, u.emitted) BY <1>3, <1>8, <2>1, NodeSkipped
  <2>3. put.err = u.err BY <2>2 DEF Given
  <2> QED BY <1>5, <1>8, <2>3 DEF put, P
<1>9. CASE u.err = "none"
  <2>1. /\ s.err \in {"none", "underflow"}
        /\ s.err = "none" => /\ Sound(P[3], s.buf, t) /\ Announced(s.buf) = Announced(D[3])
                             /\ s.buf.bufferFillingLevel <= D[3].bufferFillingLevel
                             /\ room \in Nat
    <3>1. Sound(P[3], E[3], t) /\ 0 <= Announced(E[3]) BY <1>4, <1>6, <1>7
    <3> HIDE DEF E
    <3> QED BY <1>4, <3>1, SettledBuffer
  <2>2. s = Settled(C, t) BY <1>4, <1>6 DEF Settled
  <2>3. CASE s.err # "none"
    <3>1. LookAhead(P, E, 2, t, R).err = s.err BY <2>3, VideoAhead
    <3> HIDE DEF put, u, E, P, s, a1
    <3>2. a2 = Given(LookAhead(P, E, 2, t, R).bufs, s.err, 0)
      BY <1>4, <1>9, <2>3, <3>1, NodeRefused
    <3> HIDE DEF a2
    <3>3. put = Given(LookAhead(P, E, 2, t, R).bufs, s.err, 0) BY <1>3, <2>3, <3>2, NodeSkipped
    <3>4. put.err = s.err BY <3>3 DEF Given
    <3> QED BY <2>1, <2>3, <3>4 DEF put, P
  <2>4. CASE s.err = "none"
    <3>1. PICK less \in Nat : less = RoomIn(P[3], C[3]) /\ Fits2(K, C, t, less)
      BY <2>2, <2>4
    <3>2. /\ room \in Nat /\ less <= room
      <4>1. room = P[3].bufferSize - s.buf.bufferFillingLevel BY DEF Room, RoomIn
      <4>2. less = P[3].bufferSize - C[3].bufferFillingLevel BY <3>1 DEF RoomIn
      <4>3. s.buf.bufferFillingLevel <= C[3].bufferFillingLevel /\ room \in Nat BY <1>6, <2>1, <2>4
      <4>4. s.buf.bufferFillingLevel \in Nat /\ C[3].bufferFillingLevel \in Nat
        <5>1. Sound(P[3], s.buf, t) /\ Sound(P[3], C[3], t) BY <1>6, <2>1, <2>4
        <5> HIDE DEF s, P
        <5> QED BY <5>1, SoundTypes
      <4>5. P[3].bufferSize \in Nat BY ChainFacts DEF Parameters
      <4> HIDE DEF room, s, P
      <4> QED BY <4>1, <4>2, <4>3, <4>4, <4>5
    <3>3. LookAhead(P, E, 2, t, R) = Ahead0(H, room) BY <2>4, VideoAhead
    <3>4. /\ H = [k \in 1..3 |-> H[k]] /\ H[1] = u.buf /\ H[2] = D[2] /\ H[3] = s.buf
      <4>1. 3 \in 1..3 /\ 1 \in 1..3 /\ 2 \in 1..3 OBVIOUS
      <4> HIDE DEF E, s, u
      <4>2. H = [k \in 1..3 |-> H[k]] /\ H[3] = s.buf /\ \A k \in 1..3 : k # 3 => H[k] = E[k]
        BY <1>4, <4>1, Replaced
      <4> QED BY <1>4, <4>1, <4>2
    <3>5. a2 = Given(F, v.err, v.emitted)
      <4>1. Updated(P[2], H[2], t, u.emitted, R, room) = v BY <3>4 DEF Second
      <4> HIDE DEF E, u, v, P, H, room, a1
      <4>2. Runs(P, E, 2, t, H, room) BY <3>3, NodeUpdated
      <4>3. UpdateStep(P, Given(E, "none", u.emitted), 2, t, R) = Given(F, v.err, v.emitted)
        BY <4>1, <4>2, Zenon DEF Runs
      <4> QED BY <1>4, <1>9, <4>3
    <3>6. u.emitted <= Announced(D[2])
      <4> HIDE DEF u
      <4> QED BY <1>5, <1>6, <1>7, <1>9
    <3>7. /\ v.err \in {"none", "underflow"} /\ v.emitted \in Nat /\ v.emitted <= room
          /\ v.err = "none" =>
               /\ Sound(P[2], v.buf, t) /\ Announced(v.buf) = Announced(D[2]) - u.emitted
               /\ FramesData(v.buf.storedFrames) = FramesData(D[2].storedFrames) - v.emitted
               /\ v.emitted <= FramesData(D[2].storedFrames)
      <4>1. Sound(P[1], C[1], t) /\ Sound(P[2], C[2], t)
        <5>1. 1 \in 1..3 /\ 2 \in 1..3 OBVIOUS
        <5> QED BY <5>1
      <4> DEFINE j == u.emitted
      <4>2. j \in Nat /\ j <= Leaving1(K, C, t) /\ j <= Announced(D[2]) BY <1>5, <3>6
      <4>3. v = Second(K, D, t, j, room) OBVIOUS
      <4> HIDE DEF j, u, v, room, P, K
      <4>4. Loaded(K, C, D, rest, t) BY DEF K
      <4> QED BY <1>1, <3>1, <3>2, <4>1, <4>2, <4>3, <4>4, SecondRight DEF j, P, K
    <3>8. CASE v.err # "none"
      <4> HIDE DEF put, v, F, P, a2
      <4>1. put = Given(F, v.err, v.emitted) BY <1>3, <3>5, <3>8, NodeSkipped
      <4>2. put.err = v.err BY <4>1 DEF Given
      <4> QED BY <3>7, <3>8, <4>2 DEF put, P
    <3>9. CASE v.err = "none"
      <4>1. /\ F = [k \in 1..3 |-> F[k]] /\ F[1] = u.buf /\ F[2] = v.buf /\ F[3] = s.buf
        <5>1. 3 \in 1..3 /\ 1 \in 1..3 /\ 2 \in 1..3 OBVIOUS
        <5> HIDE DEF H, v, s, u
        <5>2. F = [k \in 1..3 |-> F[k]] /\ F[2] = v.buf /\ \A k \in 1..3 : k # 2 => F[k] = H[k]
          BY <3>4, <5>1, Replaced
        <5> QED BY <3>4, <5>1, <5>2
      <4>2. put = Given(G, w.err, w.emitted)
        <5>1. LookAhead(P, F, 3, t, R) = Ahead0(F, 0)
          <6> HIDE DEF F
          <6> QED BY <1>1, PlainAhead
        <5>2. Runs(P, F, 3, t, F, 0)
          <6> HIDE DEF P, F
          <6> QED BY <5>1, NodeUpdated
        <5>3. Updated(P[3], F[3], t, v.emitted, R, 0) = w BY <4>1 DEF Third
        <5> HIDE DEF P, F, v, w, put, a2
        <5>4. UpdateStep(P, Given(F, "none", v.emitted), 3, t, R) = Given(G, w.err, w.emitted)
          BY <5>2, <5>3, Zenon DEF Runs
        <5> QED BY <1>3, <3>5, <3>9, <5>4
      <4>3. put.err = w.err /\ put.bufs = G
        <5> HIDE DEF put, w, G
        <5> QED BY <4>2 DEF Given
      <4>4. v.emitted <= Announced(s.buf) /\ v.emitted <= RoomIn(P[3], s.buf)
        <5>1. v.emitted <= Announced(s.buf) BY <1>6, <2>1, <2>4, <3>7, <3>9
        <5>2. RoomIn(P[3], s.buf) = room BY DEF Room
        <5> HIDE DEF v, s, room, P
        <5> QED BY <3>7, <5>1, <5>2
      <4>5. /\ w.err \in {"none", "underflow"}
            /\ w.err = "none" => Sound(P[3], w.buf, t) /\ Announced(w.buf) = Announced(s.buf) - v.emitted
        <5> DEFINE j == v.emitted
                   b == s.buf
        <5>1. j \in Nat /\ j <= Announced(b) /\ j <= RoomIn(Chain["video"][3], b)
              /\ Sound(Chain["video"][3], b, t) BY <2>1, <2>4, <3>7, <4>4
        <5>2. w = Third(b, t, j) OBVIOUS
        <5> HIDE DEF j, b, w
        <5>3. /\ w.err \in {"none", "underflow"}
              /\ w.err = "none" => Sound(Chain["video"][3], w.buf, t) /\ Announced(w.buf) = Announced(b) - j
          BY <5>1, <5>2, ThirdRight
        <5> QED BY <5>3 DEF j, b
      <4>6. ASSUME w.err = "none" PROVE ChainSound(K, G, rest, t)
        <5>1. /\ G = [k \in 1..3 |-> G[k]] /\ G[1] = u.buf /\ G[2] = v.buf /\ G[3] = w.buf
          <6>1. 3 \in 1..3 /\ 1 \in 1..3 /\ 2 \in 1..3 OBVIOUS
          <6> HIDE DEF F, v, u, w
          <6>2. G = [k \in 1..3 |-> G[k]] /\ G[3] = w.buf /\ \A k \in 1..3 : k # 3 => G[k] = F[k]
            BY <4>1, <6>1, Replaced
          <6> QED BY <4>1, <6>1, <6>2
        <5>2. /\ Sound(P[1], u.buf, t) /\ Announced(u.buf) = 0
              /\ Sound(P[2], v.buf, t) /\ Sound(P[3], w.buf, t)
          BY <1>5, <1>9, <3>7, <3>9, <4>5, <4>6
        <5>3. Announced(v.buf) = FramesData(u.buf.storedFrames) + rest
          <6>1. FramesData(u.buf.storedFrames) = FramesData(D[1].storedFrames) - u.emitted BY <1>5, <1>9
          <6>2. Announced(v.buf) = Announced(D[2]) - u.emitted BY <3>7, <3>9
          <6> HIDE DEF u, v
          <6> QED BY <1>5, <1>6, <1>7, <6>1, <6>2
        <5>4. Announced(w.buf) = FramesData(v.buf.storedFrames)
          <6>1. Announced(w.buf) = Announced(s.buf) - v.emitted BY <4>5, <4>6
          <6>2. Announced(s.buf) = FramesData(D[2].storedFrames) BY <1>6, <2>1, <2>4
          <6>3. FramesData(v.buf.storedFrames) = FramesData(D[2].storedFrames) - v.emitted BY <3>7, <3>9
          <6> HIDE DEF u, v, w, s
          <6> QED BY <6>1, <6>2, <6>3
        <5> HIDE DEF G, u, v, w, P
        <5>5. \A k \in 1..3 : Sound(P[k], G[k], t)
          <6>1. \A k \in 1..3 : k = 1 \/ k = 2 \/ k = 3 OBVIOUS
          <6> QED BY <5>1, <5>2, <6>1
        <5>6. K # "system" OBVIOUS
        <5> QED BY <1>2, <5>1, <5>2, <5>3, <5>4, <5>5, <5>6 DEF ChainSound, P
      <4> HIDE DEF put, w, G
      <4> QED BY <4>3, <4>5, <4>6 DEF put
    <3> HIDE DEF v
    <3> QED BY <3>7, <3>8, <3>9
  <2> HIDE DEF s
  <2> QED BY <2>1, <2>3, <2>4
<1> HIDE DEF u
<1> QED BY <1>5, <1>8, <1>9

\* A packet that the check lets through.
LEMMA Injected ==
  ASSUME kind \in Kinds, NEW t \in Nat, NEW C, NEW rest \in Nat, NEW payload \in Nat \ {0},
         payload <= rest, payload <= TpSize, ChainSound(kind, C, rest, t),
         CheckChain(Chain[kind], C, t, TpSize, FillingBitrate).ok
  PROVE  LET E == CheckChain(Chain[kind], C, t, TpSize, FillingBitrate).bufs
             put == UpdateChain(Chain[kind], WithTsFrame(E, TpSize - payload, payload),
                                t, TpSize, FillingBitrate)
         IN  /\ put.err \in {"none", "underflow"}
             /\ put.err = "none" => ChainSound(kind, put.bufs, rest - payload, t)
<1> DEFINE checked == CheckChain(Chain[kind], C, t, TpSize, FillingBitrate)
           E == checked.bufs
           D == WithTsFrame(E, TpSize - payload, payload)
           left == rest - payload
<1>1. ChainSound(kind, E, rest, t)
  <2> HIDE DEF checked
  <2> QED BY CheckedSound DEF checked
<1> HIDE DEF checked
<1>2. Loaded(kind, E, D, left, t) /\ left \in Nat
  <2> HIDE DEF E
  <2>1. Loaded(kind, E, WithTsFrame(E, TpSize - payload, payload), rest - payload, t)
    BY <1>1, LoadedRight
  <2> QED BY <2>1
<1>3. \A k \in 1..Len(Chain[kind]) : Sound(Chain[kind][k], E[k], t)
  BY <1>1 DEF ChainSound
<1>4. checked.ok BY DEF checked
<1> HIDE DEF D, left, E
<1>5. CASE kind # "video"
  <2>1. E = C /\ Fits1(kind, C, t) /\ Fits2(kind, C, t, 0) BY <1>4, <1>5, TwoChecked DEF checked, E
  <2>2. 1 \in 1..Len(Chain[kind]) /\ 2 \in 1..Len(Chain[kind]) BY ChainFacts
  <2>3. Sound(Chain[kind][1], E[1], t) /\ Sound(Chain[kind][2], E[2], t) BY <1>3, <2>2
  <2>4. Fits1(kind, E, t) /\ Fits2(kind, E, t, 0) BY <2>1
  <2> DEFINE put == UpdateChain(Chain[kind], D, t, TpSize, FillingBitrate)
  <2>5. /\ put.err \in {"none", "underflow"}
        /\ put.err = "none" => ChainSound(kind, put.bufs, left, t)
    BY <1>2, <1>5, <2>3, <2>4, TwoUpdated
  <2> QED BY <2>5 DEF D, E, checked, left
<1>6. CASE kind = "video"
  <2>1. C = [k \in 1..3 |-> C[k]] /\ Sound(Chain["video"][3], C[3], t) /\ Announced(C[3]) \in Nat
    BY <1>6, SettledSound
  <2>2. 0 <= Announced(C[3]) BY <2>1
  <2>3. /\ Settled(C, t).err \in {"none", "underflow"}
        /\ Settled(C, t).err = "none" => Room(C, t) \in Nat
    BY <2>1, <2>2, SettledBuffer
  <2>4. /\ Fits1("video", E, t)
        /\ \/ Settled(E, t).err = "underflow"
           \/ \E room \in Nat : /\ room = RoomIn(Chain["video"][3], E[3])
                               /\ Fits2("video", E, t, room)
    <3>1. CASE Settled(C, t).err # "none"
      <4>1. E = C /\ Fits1("video", C, t) BY <1>4, <1>6, <2>1, <3>1, VideoChecked DEF checked, E
      <4> QED BY <2>3, <3>1, <4>1
    <3>2. CASE Settled(C, t).err = "none"
      <4>1. /\ E = [C EXCEPT ![3] = Settled(C, t).buf]
            /\ Fits1("video", C, t) /\ Fits2("video", E, t, Room(C, t))
        BY <1>4, <1>6, <2>1, <3>2, VideoChecked DEF checked, E
      <4>2. E[1] = C[1] /\ E[3] = Settled(C, t).buf
        <5>1. 1 \in 1..3 /\ 3 \in 1..3 OBVIOUS
        <5> QED BY <2>1, <4>1, <5>1, Replaced
      <4>3. Fits1("video", E, t) BY <4>1, <4>2 DEF Fits1
      <4>4. Room(C, t) = RoomIn(Chain["video"][3], E[3]) BY <4>2 DEF Room
      <4> QED BY <2>3, <3>2, <4>1, <4>3, <4>4
    <3> QED BY <3>1, <3>2
  <2>5. Announced(E[3]) \in Nat BY <1>1, <1>6, SettledSound
  <2>6. \A k \in 1..3 : Sound(Chain["video"][k], E[k], t)
    <3>1. Len(Chain[kind]) = 3 BY <1>6, ChainFacts
    <3> QED BY <1>3, <1>6, <3>1
  <2> DEFINE put == UpdateChain(Chain["video"], D, t, TpSize, FillingBitrate)
  <2>7. Loaded("video", E, D, left, t) /\ left \in Nat BY <1>2, <1>6
  <2>8. /\ put.err \in {"none", "underflow"}
        /\ put.err = "none" => ChainSound("video", put.bufs, left, t)
    BY <2>4, <2>5, <2>6, <2>7, VideoUpdated
  <2> QED BY <1>6, <2>8 DEF D, E, checked, left
<1> QED BY <1>5, <1>6

-----------------------------------------------------------------------------
(* A PES packet is built, and time passes.                                  *)

\* A PES packet is registered when nothing remains of the one before.
LEMMA PesAdded ==
  ASSUME kind \in Kinds, NEW t \in Nat, NEW C, NEW pes \in PesPackets, ChainSound(kind, C, 0, t)
  PROVE  ChainSound(kind, WithPesFrames(C, pes), PesSize(pes), t) /\ PesSize(pes) \in Nat
<1> DEFINE coded == [header |-> pes.header, data |-> pes.payload, removal |-> pes.dts]
           output == [header |-> 0, data |-> pes.payload, removal |-> pes.pts]
           N == Len(Chain[kind])
           b == WithFrame(C[2], coded)
           c == WithFrame(C[3], output)
           D == WithPesFrames(C, pes)
           size == PesSize(pes)
<1>1. pes.header \in Nat /\ pes.payload \in Nat \ {0} /\ pes.dts \in Nat /\ pes.pts \in Nat
  BY DEF PesPackets
<1>2. /\ coded \in Frame /\ FrameBits(coded) = size /\ FrameBits(coded) > 0 /\ coded.data = pes.payload
      /\ output \in Frame /\ FrameBits(output) = pes.payload /\ FrameBits(output) > 0 /\ size \in Nat
  BY <1>1 DEF Frame, FrameBits, PesSize
<1>3. N = (IF kind = "video" THEN 3 ELSE 2) BY ChainFacts
<1>4. 1 \in 1..N /\ 2 \in 1..N /\ (kind = "video" => 3 \in 1..N) BY <1>3
<1> HIDE DEF N, coded, output, size
<1>5. /\ C = [k \in 1..N |-> C[k]]
      /\ \A k \in 1..N : Sound(Chain[kind][k], C[k], t)
      /\ Announced(C[1]) = 0
      /\ Announced(C[2]) = FramesData(C[1].storedFrames) + IF kind = "system" THEN 0 ELSE 0
      /\ kind = "video" => Announced(C[3]) = FramesData(C[2].storedFrames)
  BY DEF ChainSound, N
<1>6. /\ FramesData(C[1].storedFrames) \in Nat /\ Announced(C[2]) = FramesData(C[1].storedFrames)
      /\ FramesData(C[2].storedFrames) \in Nat
  <2>1. Sound(Chain[kind][1], C[1], t) /\ Sound(Chain[kind][2], C[2], t) BY <1>4, <1>5
  <2>2. FramesData(C[1].storedFrames) \in Nat /\ FramesData(C[2].storedFrames) \in Nat
    BY <2>1, SoundTypes
  <2> QED BY <1>5, <2>2
<1>7. CASE kind = "system"
  <2>1. D = C BY <1>7 DEF WithPesFrames
  <2> QED BY <1>2, <1>7, <2>1 DEF ChainSound, size
<1>8. ASSUME kind # "system"
      PROVE  /\ Sound(Chain[kind][2], b, t)
             /\ Announced(b) = FramesData(C[1].storedFrames) + size
             /\ FramesData(b.storedFrames) = FramesData(C[2].storedFrames) + pes.payload
  <2> DEFINE P == Chain[kind][2]
             a == C[2]
  <2>1. Sound(P, a, t) /\ 0 <= Announced(a) /\ Announced(a) = FramesData(C[1].storedFrames)
    BY <1>4, <1>5, <1>6
  <2> HIDE DEF P, a
  <2>2. Framed(P, t, a, coded) BY <1>2, <2>1, FrameSound
  <2> QED BY <1>2, <2>1, <2>2 DEF P, a, Framed
<1>9. ASSUME kind = "video"
      PROVE  /\ Sound(Chain[kind][3], c, t)
             /\ Announced(c) = FramesData(C[2].storedFrames) + pes.payload
  <2> DEFINE P == Chain[kind][3]
             a == C[3]
  <2>1. Sound(P, a, t) /\ 0 <= Announced(a) /\ Announced(a) = FramesData(C[2].storedFrames)
    BY <1>4, <1>5, <1>6, <1>9
  <2> HIDE DEF P, a
  <2>2. Framed(P, t, a, output) BY <1>2, <2>1, FrameSound
  <2> QED BY <1>2, <2>1, <2>2 DEF P, a, Framed
<1>10. CASE kind = "audio"
  <2>1. D = [C EXCEPT ![2] = b] BY <1>10 DEF WithPesFrames, coded
  <2> HIDE DEF D, b
  <2>2. D = [k \in 1..N |-> D[k]] /\ D[2] = b /\ \A k \in 1..N : k # 2 => D[k] = C[k]
    BY <1>4, <1>5, <2>1, Replaced
  <2>3. D[1] = C[1] BY <1>4, <2>2
  <2>4. \A k \in 1..N : Sound(Chain[kind][k], D[k], t) BY <1>5, <1>8, <1>10, <2>2
  <2>5. ChainSound(kind, D, size, t) BY <1>5, <1>8, <1>10, <2>2, <2>3, <2>4 DEF ChainSound, N
  <2> QED BY <1>2, <2>5 DEF D, size
<1>11. CASE kind = "video"
  <2> DEFINE E == [C EXCEPT ![2] = b]
  <2>1. D = [E EXCEPT ![3] = c] BY <1>11 DEF WithPesFrames, coded, output
  <2>2. E = [k \in 1..N |-> E[k]] /\ E[2] = b /\ \A k \in 1..N : k # 2 => E[k] = C[k]
    <3> HIDE DEF b
    <3> QED BY <1>4, <1>5, Replaced
  <2> HIDE DEF D, b, c, E
  <2>3. D = [k \in 1..N |-> D[k]] /\ D[3] = c /\ \A k \in 1..N : k # 3 => D[k] = E[k]
    BY <1>4, <1>11, <2>1, <2>2, Replaced
  <2>4. D[1] = C[1] /\ D[2] = b BY <1>4, <2>2, <2>3
  <2>5. \A k \in 1..N : Sound(Chain[kind][k], D[k], t) BY <1>5, <1>8, <1>9, <1>11, <2>2, <2>3
  <2>6. ChainSound(kind, D, size, t)
    BY <1>5, <1>8, <1>9, <1>11, <2>3, <2>4, <2>5 DEF ChainSound, N
  <2> QED BY <1>2, <2>6 DEF D, size
<1> QED BY <1>7, <1>10, <1>11 DEF Kinds

\* A new chain is sound.
LEMMA EmptySound ==
  ASSUME kind \in Kinds
  PROVE  ChainSound(kind, [k \in 1..Len(Params) |-> EmptyBuffer(0)], 0, 0)
<1> DEFINE N == Len(Chain[kind])
           C == [k \in 1..N |-> EmptyBuffer(0)]
           b == EmptyBuffer(0)
<1>1. /\ b.bufferInputData = 0 /\ b.bufferFillingLevel = 0 /\ b.lastUpdate = 0
      /\ b.storedFrames = <<>> /\ b \in BuffersAt(0)
  BY DEF EmptyBuffer, BuffersAt
<1> HIDE DEF b
<1>2. N = (IF kind = "video" THEN 3 ELSE 2) BY ChainFacts
<1>3. \A k \in 1..N : Chain[kind][k] \in Parameters
  <2>1. Chain[kind][1] \in Parameters /\ Chain[kind][2] \in Parameters
        /\ (kind = "video" => Chain[kind][3] \in Parameters) BY ChainFacts
  <2>2. \A k \in 1..N : k = 1 \/ k = 2 \/ (k = 3 /\ kind = "video") BY <1>2
  <2> QED BY <2>1, <2>2
<1>4. \A k \in 1..N : Sound(Chain[kind][k], b, 0)
  <2> SUFFICES ASSUME NEW k \in 1..N PROVE Sound(Chain[kind][k], b, 0) OBVIOUS
  <2>1. Chain[kind][k].bufferSize \in Nat BY <1>3 DEF Parameters
  <2>2. Len(b.storedFrames) = 0 BY <1>1
  <2>3. EmptyFirst(b.storedFrames) /\ RemovedSound(b) BY <2>2 DEF EmptyFirst, RemovedSound
  <2> QED BY <1>1, <2>1, <2>3 DEF Sound
<1>5. Announced(b) = 0 /\ FramesData(b.storedFrames) = 0
  <2>1. FramesBits(b.storedFrames) = 0 /\ FramesData(b.storedFrames) = 0 BY <1>1, NoFrames
  <2> QED BY <1>1, <2>1 DEF Announced
<1>6. /\ C = [k \in 1..N |-> C[k]] /\ \A k \in 1..N : C[k] = b
      /\ C[1] = b /\ C[2] = b /\ (kind = "video" => C[3] = b)
  BY <1>2 DEF b
<1> HIDE DEF C
<1>7. \A k \in 1..N : Sound(Chain[kind][k], C[k], 0) BY <1>4, <1>6
<1>8. /\ Announced(C[1]) = 0
      /\ Announced(C[2]) = FramesData(C[1].storedFrames) + IF kind = "system" THEN 0 ELSE 0
      /\ kind = "video" => Announced(C[3]) = FramesData(C[2].storedFrames)
  BY <1>5, <1>6
<1>9. C = [k \in 1..N |-> C[k]] BY <1>6
<1>10. ChainSound(kind, C, 0, 0)
  <2> HIDE DEF N
  <2> QED BY <1>7, <1>8, <1>9 DEF ChainSound, N
<1> QED BY <1>10 DEF C, b, Params

\* Time makes nothing unsound: buffers are updated only when they are used.
LEMMA Later ==
  ASSUME NEW K \in Kinds, NEW t \in Nat, NEW C, NEW rest \in Nat, ChainSound(K, C, rest, t)
  PROVE  ChainSound(K, C, rest, t + 1)
<1>1. 0..t \subseteq 0..(t + 1) OBVIOUS
<1>2. BuffersAt(t) \subseteq BuffersAt(t + 1) BY <1>1 DEF BuffersAt
<1>3. \A param, b : Sound(param, b, t) => Sound(param, b, t + 1) BY <1>2 DEF Sound
<1> QED BY <1>3 DEF ChainSound

-----------------------------------------------------------------------------
(* The invariant.                                                           *)

\* The inductive invariant.
IInv ==
  /\ kind \in Kinds
  /\ now \in 0..MaxTime /\ remaining \in Nat /\ script \in Seq(PesPackets) /\ tried \in BOOLEAN
  /\ err \in {"none", "underflow"}
  /\ err = "none" => ChainSound(kind, bufs, remaining, now)

\* The first PES packet is registered in an empty chain.
LEMMA InitSound == Init => IInv
<1> SUFFICES ASSUME Init PROVE IInv OBVIOUS
<1>1. PICK input \in Inputs :
        /\ kind = input.kind
        /\ bufs = WithPesFrames([k \in 1..Len(Params) |-> EmptyBuffer(0)], input.script[1])
        /\ script = Tail(input.script) /\ remaining = PesSize(input.script[1])
        /\ now = 0 /\ tried = FALSE /\ err = "none"
  BY DEF Init
<1>2. kind \in Kinds /\ input.script \in Seq(PesPackets) /\ input.script # <<>> /\ MaxTime \in Nat
  BY <1>1, ChainAssumption DEF Kinds
<1> DEFINE pes == input.script[1]
           C == [k \in 1..Len(Params) |-> EmptyBuffer(0)]
<1>3. pes \in PesPackets /\ script \in Seq(PesPackets) BY <1>1, <1>2
<1>4. ChainSound(kind, C, 0, 0) BY <1>2, EmptySound
<1> HIDE DEF C, pes
<1>5. ChainSound(kind, WithPesFrames(C, pes), PesSize(pes), 0) /\ PesSize(pes) \in Nat
  BY <1>2, <1>3, <1>4, PesAdded
<1>6. ChainSound(kind, bufs, remaining, now) /\ remaining \in Nat BY <1>1, <1>5 DEF C, pes
<1>7. now \in 0..MaxTime
  <2>1. 0 \in 0..MaxTime BY <1>2
  <2> QED BY <1>1, <2>1
<1>8. tried \in BOOLEAN /\ err = "none" BY <1>1
<1> HIDE DEF C, pes
<1> QED BY <1>2, <1>3, <1>6, <1>7, <1>8 DEF IInv

\* Each action keeps the invariant.
LEMMA NextSound == IInv /\ [Next]_vars => IInv'
<1> SUFFICES ASSUME IInv, [Next]_vars PROVE IInv' OBVIOUS
<1>1. /\ kind \in Kinds /\ now \in 0..MaxTime /\ remaining \in Nat /\ script \in Seq(PesPackets)
      /\ tried \in BOOLEAN /\ err \in {"none", "underflow"} /\ MaxTime \in Nat /\ now \in Nat
      /\ err = "none" => ChainSound(kind, bufs, remaining, now)
  BY ChainAssumption DEF IInv
<1>2. CASE AdvanceTime
  <2>1. /\ err = "none" /\ now < MaxTime /\ now' = now + 1 /\ tried' = FALSE
        /\ kind' = kind /\ bufs' = bufs /\ script' = script /\ remaining' = remaining /\ err' = err
    BY <1>2 DEF AdvanceTime
  <2>2. ChainSound(kind, bufs, remaining, now + 1) BY <1>1, <2>1, Later
  <2>3. now + 1 \in 0..MaxTime BY <1>1, <2>1
  <2>4. ChainSound(kind, bufs, remaining, now)' BY <2>1, <2>2 DEF ChainSound
  <2> QED BY <1>1, <2>1, <2>3, <2>4 DEF IInv
<1>3. CASE Blocked
  <2>1. /\ err = "none" /\ bufs' = Checked.bufs /\ tried' = TRUE
        /\ kind' = kind /\ now' = now /\ script' = script /\ remaining' = remaining /\ err' = err
    BY <1>3 DEF Blocked, CanTry
  <2>2. ChainSound(kind, Checked.bufs, remaining, now)
    BY <1>1, <2>1, CheckedSound DEF Checked, Params
  <2>3. ChainSound(kind, bufs, remaining, now)' BY <2>1, <2>2 DEF ChainSound
  <2> QED BY <1>1, <2>1, <2>3 DEF IInv
<1>4. CASE InjectPacket
  <2> DEFINE payload == MIN(remaining, TpSize - TpHeader)
             put == UpdateChain(Params, WithTsFrame(Checked.bufs, TpSize - payload, payload),
                                now, TpSize, FillingBitrate)
             left == remaining - payload
             next == put.err = "none" /\ remaining = payload /\ script # <<>>
  <2>1. /\ err = "none" /\ remaining > 0 /\ Checked.ok /\ tried' = TRUE /\ kind' = kind /\ now' = now
        /\ err' = put.err
        /\ bufs' = IF next THEN WithPesFrames(put.bufs, Head(script)) ELSE put.bufs
        /\ script' = IF next THEN Tail(script) ELSE script
        /\ remaining' = IF next THEN PesSize(Head(script)) ELSE left
    BY <1>4 DEF InjectPacket, CanTry, Put
  <2>2. payload \in Nat \ {0} /\ payload <= remaining /\ payload <= TpSize /\ left \in Nat
    <3>1. TpSize \in Nat /\ TpHeader \in Nat /\ TpHeader < TpSize BY ChainAssumption
    <3> QED BY <1>1, <2>1, <3>1 DEF MIN
  <2>3. /\ put.err \in {"none", "underflow"}
        /\ put.err = "none" => ChainSound(kind, put.bufs, left, now)
    <3>1. ChainSound(kind, bufs, remaining, now) BY <1>1, <2>1
    <3>2. CheckChain(Chain[kind], bufs, now, TpSize, FillingBitrate).ok BY <2>1 DEF Checked, Params
    <3> HIDE DEF payload
    <3>3. LET E == CheckChain(Chain[kind], bufs, now, TpSize, FillingBitrate).bufs
              u == UpdateChain(Chain[kind], WithTsFrame(E, TpSize - payload, payload),
                               now, TpSize, FillingBitrate)
          IN  /\ u.err \in {"none", "underflow"}
              /\ u.err = "none" => ChainSound(kind, u.bufs, remaining - payload, now)
      BY <1>1, <2>2, <3>1, <3>2, Injected
    <3> QED BY <3>3 DEF Checked, Params
  <2> HIDE DEF put, payload
  <2>4. CASE next
    <3> DEFINE pes == Head(script)
               C == put.bufs
    <3>1. pes \in PesPackets /\ Tail(script) \in Seq(PesPackets) BY <1>1, <2>4
    <3>2. left = 0 /\ put.err = "none" BY <1>1, <2>2, <2>4
    <3>3. ChainSound(kind, C, 0, now) BY <2>3, <3>2
    <3> HIDE DEF pes, C
    <3>4. ChainSound(kind, WithPesFrames(C, pes), PesSize(pes), now) /\ PesSize(pes) \in Nat
      BY <1>1, <3>1, <3>3, PesAdded
    <3>5. bufs' = WithPesFrames(C, pes) /\ script' = Tail(script) /\ remaining' = PesSize(pes)
      BY <2>1, <2>4 DEF C, pes
    <3>6. ChainSound(kind, bufs, remaining, now)' BY <2>1, <3>4, <3>5 DEF ChainSound
    <3> QED BY <1>1, <2>1, <2>3, <3>1, <3>4, <3>5, <3>6 DEF IInv
  <2>5. CASE ~next
    <3>1. bufs' = put.bufs /\ script' = script /\ remaining' = left BY <2>1, <2>5
    <3>2. put.err = "none" => ChainSound(kind, bufs, remaining, now)'
      BY <2>1, <2>3, <3>1 DEF ChainSound
    <3> QED BY <1>1, <2>1, <2>2, <2>3, <3>1, <3>2 DEF IInv
  <2> QED BY <2>4, <2>5
<1>5. CASE UNCHANGED vars
  <2>1. /\ kind' = kind /\ now' = now /\ remaining' = remaining /\ script' = script /\ tried' = tried
        /\ err' = err /\ bufs' = bufs
    BY <1>5 DEF vars
  <2>2. ChainSound(kind, bufs, remaining, now) => ChainSound(kind, bufs, remaining, now)'
    BY <2>1 DEF ChainSound
  <2> QED BY <1>1, <2>1, <2>2 DEF IInv
<1> QED BY <1>2, <1>3, <1>4, <1>5 DEF Next

\* The inductive invariant holds in every state that the muxer may drive a branch to.
THEOREM Inductive == Spec => []IInv
BY InitSound, NextSound, PTL DEF Spec

\* Without an error, each buffer of the chain is sound.
LEMMA ChainOfInv ==
  ASSUME IInv, err = "none"
  PROVE  /\ Nodes = 1..Len(Chain[kind]) /\ 1 \in Nodes /\ 2 \in Nodes /\ (kind = "video" => 3 \in Nodes)
         /\ now \in Nat /\ kind \in Kinds /\ ChainSound(kind, bufs, remaining, now)
         /\ \A k \in Nodes : Sound(Params[k], bufs[k], now)
<1>1. kind \in Kinds /\ now \in Nat /\ ChainSound(kind, bufs, remaining, now)
  BY ChainAssumption DEF IInv
<1>2. Nodes = 1..Len(Chain[kind]) BY DEF Nodes, Params
<1>3. Len(Chain[kind]) = IF kind = "video" THEN 3 ELSE 2 BY <1>1, ChainFacts
<1>4. 1 \in Nodes /\ 2 \in Nodes /\ (kind = "video" => 3 \in Nodes) BY <1>2, <1>3
<1> QED BY <1>1, <1>2, <1>4 DEF ChainSound, Params

\* The invariant implies the properties.
LEMMA SafeOfInv == IInv => TypeOK /\ CheckSound /\ FramesAccounted /\ RemovedOnTime
<1> SUFFICES ASSUME IInv PROVE TypeOK /\ CheckSound /\ FramesAccounted /\ RemovedOnTime OBVIOUS
<1>1. CheckSound BY DEF IInv, CheckSound
<1>2. TypeOK
  <2>1. ASSUME err = "none"
        PROVE  bufs \in [Nodes -> Buffers] /\ \A k \in Nodes : Level(k) <= Params[k].bufferSize
    <3>1. \A k \in Nodes : Sound(Params[k], bufs[k], now) BY <2>1, ChainOfInv
    <3>2. BuffersAt(now) = Buffers BY DEF BuffersAt, Buffers, Frame
    <3>3. \A k \in Nodes : bufs[k] \in Buffers /\ bufs[k].bufferFillingLevel <= Params[k].bufferSize
      BY <3>1, <3>2 DEF Sound
    <3>4. bufs = [k \in Nodes |-> bufs[k]] BY <2>1, ChainOfInv DEF ChainSound
    <3> QED BY <3>3, <3>4 DEF Level
  <2>2. kind \in DOMAIN Chain BY ChainFacts DEF IInv
  <2> QED BY <2>1, <2>2 DEF IInv, TypeOK
<1>3. FramesAccounted
  <2> SUFFICES ASSUME err = "none"
               PROVE  /\ FramesBits(Frames(1)) = Level(1) + bufs[1].bufferInputData
                      /\ FramesBits(Frames(2)) = Level(2) + FramesData(Frames(1))
                                                 + IF kind = "system" THEN 0 ELSE remaining
                      /\ kind = "video" => FramesBits(Frames(3)) = Level(3) + FramesData(Frames(2))
    BY DEF FramesAccounted
  <2> DEFINE more == IF kind = "system" THEN 0 ELSE remaining
  <2>1. /\ now \in Nat /\ kind \in Kinds
        /\ Sound(Params[1], bufs[1], now) /\ Sound(Params[2], bufs[2], now)
        /\ kind = "video" => Sound(Params[3], bufs[3], now)
    BY ChainOfInv
  <2>2. /\ Announced(bufs[1]) = 0
        /\ Announced(bufs[2]) = FramesData(Frames(1)) + more
        /\ kind = "video" => Announced(bufs[3]) = FramesData(Frames(2))
    BY ChainOfInv DEF ChainSound, Frames
  <2>3. more \in Nat BY DEF IInv
  <2>4. /\ Params[2].instantFilling /\ (kind = "video" => Params[3].instantFilling)
    BY <2>1, ChainFacts DEF Params
  <2>5. /\ Level(1) \in Nat /\ bufs[1].bufferInputData \in Nat /\ FramesBits(Frames(1)) \in Nat
        /\ FramesData(Frames(1)) \in Nat
        /\ Level(2) \in Nat /\ bufs[2].bufferInputData = 0 /\ FramesBits(Frames(2)) \in Nat
        /\ FramesData(Frames(2)) \in Nat
    BY <2>1, <2>4, SoundTypes DEF Sound, Level, Frames
  <2>6. kind = "video" => /\ Level(3) \in Nat /\ bufs[3].bufferInputData = 0
                          /\ FramesBits(Frames(3)) \in Nat
    BY <2>1, <2>4, SoundTypes DEF Sound, Level, Frames
  <2>7. \A k : Announced(bufs[k]) = FramesBits(Frames(k)) - Level(k) - bufs[k].bufferInputData
    BY DEF Announced, Frames, Level
  <2> HIDE DEF more
  <2>8. FramesBits(Frames(1)) = Level(1) + bufs[1].bufferInputData BY <2>2, <2>5, <2>7
  <2>9. FramesBits(Frames(2)) = Level(2) + FramesData(Frames(1)) + more
    BY <2>2, <2>3, <2>5, <2>7
  <2>10. kind = "video" => FramesBits(Frames(3)) = Level(3) + FramesData(Frames(2))
    BY <2>2, <2>5, <2>6, <2>7
  <2> QED BY <2>8, <2>9, <2>10 DEF more
<1>4. RemovedOnTime
  <2> SUFFICES ASSUME err = "none", NEW k \in Nodes, Params[k].type = "removal",
                      NEW n \in 1..Len(Frames(k)), IsHead(Frames(k), n)
               PROVE  Frames(k)[n].removal > bufs[k].lastUpdate \/ Level(k) = 0
    BY DEF RemovedOnTime
  <2>1. Sound(Params[k], bufs[k], now) BY ChainOfInv
  <2>2. RemovedSound(bufs[k]) BY <2>1 DEF Sound
  <2> QED BY <2>2 DEF RemovedSound, Frames, Level
<1> QED BY <1>1, <1>2, <1>3, <1>4

\* Without an error every buffer is a buffer and within its size (bufferSize), at any time
\* that the muxer updates it.
THEOREM TypeCorrect == Spec => []TypeOK
BY Inductive, SafeOfInv, PTL

\* A packet that checkBufModelBuffer() let through makes updateBufModelBuffer() neither
\* overflow a buffer nor find data that no frame announces.
THEOREM CheckIsSound == Spec => []CheckSound
BY Inductive, SafeOfInv, PTL

\* Every bit that addFrameToBuffer() registers is in its buffer, upstream of it or not in a
\* transport packet yet: partial transfers and the popping of empty frames lose nothing.
THEOREM Accounted == Spec => []FramesAccounted
BY Inductive, SafeOfInv, PTL

\* After an update a removal buffer holds nothing of an access unit whose time came: it left in one
\* piece (computeRemovalBufferDataBandwidth), even when the update came late.
THEOREM OnTime == Spec => []RemovedOnTime
BY Inductive, SafeOfInv, PTL
=============================================================================
