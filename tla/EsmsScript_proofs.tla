-------------------------- MODULE EsmsScript_proofs --------------------------
(* For any sources, runs and findings of the analysers: the fields of a     *)
(* script are written in the bytes they have, a script that a stream of the *)
(* run reads is not written for another one, and a script has the marker of *)
(* completion only after all that it holds was written, whenever the run    *)
(* stops: such a script is byte for byte what one analysis writes that      *)
(* nothing interrupts, and what the parser reads in it is, value by value,  *)
(* what that analysis found.                                                *)
EXTENDS EsmsScript, FiniteSetTheorems, SequenceTheorems, WellFoundedInduction, TLAPS

LEMMA Smallest ==
  ASSUME NEW S \in SUBSET Nat, S # {}
  PROVE  \E n \in S : \A m \in S : n <= m
<1> DEFINE R == OpToRel(<, Nat)
<1>1. IsWellFoundedOn(R, Nat) BY NatLessThanWellFounded
<1>2. PICK x \in S : \A y \in S : ~(<<y, x>> \in R)
  <2> HIDE DEF R
  <2> QED BY <1>1, WFMin
<1>3. \A y \in S : ~(y < x) BY <1>2 DEF OpToRel
<1> QED BY <1>3

-----------------------------------------------------------------------------
(* What is written is made of bytes.                                        *)

\* The powers of a number, by their definition.
LEMMA PowerSteps ==
  ASSUME NEW b \in Nat \ {0}
  PROVE  /\ PowersOf(b)[0] = 1
         /\ \A k \in 1..5 : PowersOf(b)[k] = b * PowersOf(b)[k - 1]
<1> DEFINE c2 == b * b
           c3 == b * c2
           c4 == b * c3
           c5 == b * c4
           g0 == [k \in 0..5 |-> CASE k = 0 -> 1 [] k = 1 -> b [] k = 2 -> c2
                                   [] k = 3 -> c3 [] k = 4 -> c4 [] k = 5 -> c5]
           Right(g) == g = [k \in 0..5 |-> IF k = 0 THEN 1 ELSE b * g[k - 1]]
<1>1. Right(g0)
  <2>1. /\ g0[0] = 1 /\ g0[1] = b /\ g0[2] = c2 /\ g0[3] = c3 /\ g0[4] = c4 /\ g0[5] = c5
    OBVIOUS
  <2>2. \A k \in 0..5 : k \in {0, 1, 2, 3, 4, 5} OBVIOUS
  <2>3. b * 1 = b /\ c2 = b * b /\ c3 = b * c2 /\ c4 = b * c3 /\ c5 = b * c4 OBVIOUS
  <2>4. g0 = [k \in 0..5 |-> g0[k]] OBVIOUS
  <2> HIDE DEF g0, c2, c3, c4, c5
  <2>5. \A k \in 0..5 : g0[k] = IF k = 0 THEN 1 ELSE b * g0[k - 1]
    <3> SUFFICES ASSUME NEW k \in 0..5 PROVE g0[k] = IF k = 0 THEN 1 ELSE b * g0[k - 1]
      OBVIOUS
    <3>1. CASE k = 0 BY <2>1, <3>1
    <3>2. CASE k = 1 BY <2>1, <2>3, <3>2
    <3>3. CASE k = 2 BY <2>1, <2>3, <3>3
    <3>4. CASE k = 3 BY <2>1, <2>3, <3>4
    <3>5. CASE k = 4 BY <2>1, <2>3, <3>5
    <3>6. CASE k = 5 BY <2>1, <2>3, <3>6
    <3> QED BY <2>2, <3>1, <3>2, <3>3, <3>4, <3>5, <3>6
  <2> QED BY <2>4, <2>5
<1>2. PowersOf(b) = CHOOSE g : Right(g) BY DEF PowersOf
<1> HIDE DEF g0
<1>3. Right(PowersOf(b))
  <2> HIDE DEF Right
  <2> QED BY <1>1, <1>2
<1> QED BY <1>3

LEMMA Product == ASSUME NEW m \in Nat \ {0}, NEW n \in Nat \ {0} PROVE m * n \in Nat \ {0}
OBVIOUS

LEMMA Powers ==
  ASSUME NEW b \in Nat \ {0}
  PROVE  \A k \in 0..5 : PowersOf(b)[k] \in Nat \ {0}
<1> DEFINE p == PowersOf(b)
<1>1. p[0] = 1 /\ \A k \in 1..5 : p[k] = b * p[k - 1] BY PowerSteps
<1> HIDE DEF p
<1>2. p[0] \in Nat \ {0} /\ p[1] = b * p[0] BY <1>1
<1>3. p[1] \in Nat \ {0} /\ p[2] = b * p[1] BY <1>1, <1>2, Product
<1>4. p[2] \in Nat \ {0} /\ p[3] = b * p[2] BY <1>1, <1>3, Product
<1>5. p[3] \in Nat \ {0} /\ p[4] = b * p[3] BY <1>1, <1>4, Product
<1>6. p[4] \in Nat \ {0} /\ p[5] = b * p[4] BY <1>1, <1>5, Product
<1>7. p[5] \in Nat \ {0} BY <1>6, Product
<1> QED BY <1>2, <1>3, <1>4, <1>5, <1>6, <1>7 DEF p

LEMMA Weights == \A k \in 0..5 : Weight[k] \in Nat \ {0}
BY FormatAssumption, Powers DEF Weight

LEMMA BitRanges == \A k \in 0..5 : BitsRange[k] \in 1..32
<1>1. BitsRange[0] = 1 /\ \A k \in 1..5 : BitsRange[k] = 2 * BitsRange[k - 1]
  BY PowerSteps DEF BitsRange
<1>2. BitsRange[1] = 2 /\ BitsRange[2] = 4 BY <1>1
<1>3. BitsRange[3] = 8 /\ BitsRange[4] = 16 BY <1>1, <1>2
<1>4. BitsRange[5] = 32 BY <1>1, <1>3
<1> QED BY <1>1, <1>2, <1>3, <1>4

LEMMA UBytes ==
  ASSUME NEW w \in Nat, NEW v \in Int
  PROVE  U(w, v) \in Seq(Byte) /\ Len(U(w, v)) = w
<1>1. ByteRange \in Nat \ {0} BY FormatAssumption
<1>2. ASSUME NEW i \in 1..w
      PROVE  (IF w - i > 5 THEN 0 ELSE (v \div Weight[w - i]) % ByteRange) \in Byte
  <2>1. CASE w - i > 5 BY <1>1, <2>1 DEF Byte
  <2>2. CASE w - i <= 5
    <3>1. Weight[w - i] \in Nat \ {0} BY <2>2, Weights
    <3>2. v \div Weight[w - i] \in Int BY <3>1
    <3>3. (v \div Weight[w - i]) % ByteRange \in Byte
      <4> DEFINE x == v \div Weight[w - i]
      <4> HIDE DEF x
      <4>1. x % ByteRange \in 0..(ByteRange - 1) BY <1>1, <3>2 DEF x
      <4> QED BY <4>1 DEF x, Byte
    <3> QED BY <2>2, <3>3
  <2> QED BY <2>1, <2>2
<1> QED BY <1>2 DEF U

LEMMA BitsBytes ==
  ASSUME NEW n \in 0..5, NEW v \in Int
  PROVE  Bits(n, v) \in Seq(Byte)
<1> DEFINE r == BitsRange[n]
<1>1. r \in 1..32 BY BitRanges
<1> HIDE DEF r
<1>2. v % r \in 0..(r - 1) BY <1>1
<1>3. v % r \in Byte BY <1>1, <1>2, FormatAssumption DEF Byte
<1> QED BY <1>3 DEF Bits, r

\* The definition of flatten in FlattenSeq has a solution.
Flattens(g, seqs) == g = [i \in 1..Len(seqs) |-> IF i = 1 THEN seqs[i] ELSE g[i - 1] \o seqs[i]]
LEMMA Flattening ==
  ASSUME NEW V, NEW seqs \in Seq(Seq(V)), Len(seqs) # 0
  PROVE  \E g : Flattens(g, seqs) /\ FlattenSeq(seqs) = g[Len(seqs)]
<1> DEFINE N == Len(seqs)
           Right(g, n) == g = [i \in 1..n |-> IF i = 1 THEN seqs[i] ELSE g[i - 1] \o seqs[i]]
           flatten == CHOOSE g : Right(g, N)
<1>1. N \in Nat /\ \A i \in 1..N : seqs[i] \in Seq(V) OBVIOUS
<1>2. N # 0 OBVIOUS
<1>3. FlattenSeq(seqs) = flatten[N] BY <1>2 DEF FlattenSeq
<1>4. \A n \in 1..N : \E g : Right(g, n)
  <2> DEFINE Bad == {n \in 1..N : ~\E g : Right(g, n)}
  <2>1. SUFFICES ASSUME Bad # {} PROVE FALSE OBVIOUS
  <2>2. Bad \in SUBSET Nat
    <3> HIDE DEF Right, N
    <3> QED BY <1>1
  <2>3. PICK n \in Bad : \A m \in Bad : n <= m
    <3> HIDE DEF Bad
    <3> QED BY <2>1, <2>2, Smallest
  <2>4. n \in 1..N /\ ~\E g : Right(g, n) OBVIOUS
  <2>5. CASE n = 1
    <3> DEFINE g0 == [i \in 1..1 |-> seqs[i]]
    <3>1. Right(g0, 1) OBVIOUS
    <3> QED BY <2>4, <2>5, <3>1
  <2>6. CASE n # 1
    <3>1. n - 1 \in 1..N /\ ~(n <= n - 1) BY <1>1, <2>4, <2>6
    <3>2. PICK g : Right(g, n - 1) BY <2>3, <3>1
    <3> DEFINE g1 == [i \in 1..n |-> IF i = n THEN g[n - 1] \o seqs[n] ELSE g[i]]
    <3>3. \A i \in 1..n - 1 : g[i] = IF i = 1 THEN seqs[i] ELSE g[i - 1] \o seqs[i]
      BY <3>2
    <3>4. \A i \in 1..n : g1[i] = IF i = 1 THEN seqs[i] ELSE g1[i - 1] \o seqs[i]
      <4> SUFFICES ASSUME NEW i \in 1..n
                   PROVE  g1[i] = IF i = 1 THEN seqs[i] ELSE g1[i - 1] \o seqs[i]
        OBVIOUS
      <4>1. CASE i = n
        <5>1. n - 1 \in 1..n /\ g1[n - 1] = g[n - 1] BY <2>4, <2>6
        <5> QED BY <2>6, <4>1, <5>1
      <4>2. CASE i # n /\ i # 1
        <5>1. i \in 1..n - 1 /\ i - 1 \in 1..n /\ i - 1 # n BY <2>4, <4>2
        <5>2. g1[i] = g[i] /\ g1[i - 1] = g[i - 1] BY <4>2, <5>1
        <5> QED BY <3>3, <4>2, <5>1, <5>2
      <4>3. CASE i # n /\ i = 1
        <5>1. i \in 1..n - 1 /\ g1[i] = g[i] BY <2>4, <4>3
        <5> QED BY <3>3, <4>3, <5>1
      <4> QED BY <4>1, <4>2, <4>3
    <3>5. g1 = [i \in 1..n |-> g1[i]] OBVIOUS
    <3> HIDE DEF g1
    <3>6. Right(g1, n) BY <3>4, <3>5
    <3> QED BY <2>4, <3>6
  <2> QED BY <2>5, <2>6
<1>5. Right(flatten, N)
  <2> HIDE DEF Right, N
  <2>1. N \in 1..N BY <1>1, <1>2
  <2>2. \E g : Right(g, N) BY <1>4, <2>1, Zenon
  <2> QED BY <2>2
<1>6. Flattens(flatten, seqs)
  <2> HIDE DEF flatten
  <2> QED BY <1>5 DEF Flattens
<1> QED BY <1>3, <1>6

\* Its values are sequences.
LEMMA FlattenSeqs ==
  ASSUME NEW V, NEW seqs \in Seq(Seq(V))
  PROVE  FlattenSeq(seqs) \in Seq(V)
<1> DEFINE N == Len(seqs)
<1>1. N \in Nat /\ \A i \in 1..N : seqs[i] \in Seq(V) OBVIOUS
<1>2. CASE N = 0
  <2>1. seqs = <<>> BY <1>2, EmptySeq
  <2> QED BY <1>2, <2>1, EmptySeq DEF FlattenSeq
<1>3. CASE N # 0
  <2>1. PICK g : Flattens(g, seqs) /\ FlattenSeq(seqs) = g[N] BY <1>3, Flattening
  <2>2. \A i \in 1..N : g[i] = IF i = 1 THEN seqs[i] ELSE g[i - 1] \o seqs[i]
    BY <2>1 DEF Flattens
  <2> DEFINE Bad == {i \in 1..N : g[i] \notin Seq(V)}
  <2>3. Bad = {}
    <3>1. SUFFICES ASSUME Bad # {} PROVE FALSE OBVIOUS
    <3>2. Bad \in SUBSET Nat OBVIOUS
    <3>3. PICK i \in Bad : \A m \in Bad : i <= m
      <4> HIDE DEF Bad
      <4> QED BY <3>1, <3>2, Smallest
    <3>4. i \in 1..N /\ g[i] \notin Seq(V) OBVIOUS
    <3>5. i # 1 BY <1>1, <2>2, <3>4
    <3>6. i - 1 \in 1..N /\ ~(i <= i - 1) BY <1>1, <3>4, <3>5
    <3>7. g[i - 1] \in Seq(V) BY <3>3, <3>6
    <3>8. g[i] = g[i - 1] \o seqs[i] /\ seqs[i] \in Seq(V) BY <1>1, <2>2, <3>4, <3>5
    <3> QED BY <3>4, <3>7, <3>8, ConcatProperties
  <2> QED BY <1>1, <1>3, <2>1, <2>3, SMTT(20)
<1> QED BY <1>2, <1>3

\* One more sequence is appended to those before.
LEMMA FlattenOne ==
  ASSUME NEW V, NEW seqs \in Seq(Seq(V)), Len(seqs) = 1
  PROVE  FlattenSeq(seqs) = seqs[1]
<1>1. Len(seqs) # 0 /\ 1 \in 1..Len(seqs) OBVIOUS
<1>2. PICK g : Flattens(g, seqs) /\ FlattenSeq(seqs) = g[Len(seqs)] BY <1>1, Flattening
<1> QED BY <1>1, <1>2 DEF Flattens
LEMMA FlattenMore ==
  ASSUME NEW V, NEW seqs \in Seq(Seq(V)), NEW more \in Seq(Seq(V)), Len(seqs) # 0,
         Len(more) = Len(seqs) + 1, \A i \in 1..Len(seqs) : more[i] = seqs[i]
  PROVE  FlattenSeq(more) = FlattenSeq(seqs) \o more[Len(seqs) + 1]
<1> DEFINE N == Len(seqs)
<1>1. N \in Nat \ {0} OBVIOUS
<1>2. PICK g : Flattens(g, seqs) /\ FlattenSeq(seqs) = g[N] BY Flattening
<1>3. Len(more) # 0 BY <1>1
<1>4. PICK k : Flattens(k, more) /\ FlattenSeq(more) = k[N + 1] BY <1>3, Flattening
<1>5. \A i \in 1..N : g[i] = IF i = 1 THEN seqs[i] ELSE g[i - 1] \o seqs[i] BY <1>2 DEF Flattens
<1>6. \A i \in 1..(N + 1) : k[i] = IF i = 1 THEN more[i] ELSE k[i - 1] \o more[i] BY <1>4 DEF Flattens
<1> DEFINE Bad == {i \in 1..N : g[i] # k[i]}
<1>7. Bad = {}
  <2>1. SUFFICES ASSUME Bad # {} PROVE FALSE OBVIOUS
  <2>2. Bad \in SUBSET Nat OBVIOUS
  <2>3. PICK i \in Bad : \A m \in Bad : i <= m
    <3> HIDE DEF Bad
    <3> QED BY <2>1, <2>2, Smallest
  <2>4. i \in 1..N /\ g[i] # k[i] OBVIOUS
  <2>5. i \in 1..(N + 1) /\ more[i] = seqs[i] BY <1>1, <2>4
  <2>6. i # 1 BY <1>5, <1>6, <2>4, <2>5
  <2>7. i - 1 \in 1..N /\ ~(i <= i - 1) BY <1>1, <2>4, <2>6
  <2>8. g[i - 1] = k[i - 1] BY <2>3, <2>7
  <2> QED BY <1>5, <1>6, <2>4, <2>5, <2>6, <2>8
<1>8. N \in 1..N /\ N + 1 \in 1..(N + 1) /\ N + 1 # 1 /\ N + 1 - 1 = N BY <1>1
<1>9. g[N] = k[N] BY <1>7, <1>8
<1>10. k[N + 1] = k[N] \o more[N + 1]
  <2> HIDE DEF N
  <2> DEFINE j == N + 1
  <2>1. j \in 1..(N + 1) /\ j # 1 /\ j - 1 = N BY <1>8
  <2> HIDE DEF j
  <2>2. k[j] = k[j - 1] \o more[j] BY <1>6, <2>1
  <2>3. k[j] = k[N] \o more[j] BY <2>1, <2>2
  <2> QED BY <2>3 DEF j
<1> QED BY <1>2, <1>4, <1>9, <1>10

LEMMA Joined == \A s, t \in Seq(Byte) : s \o t \in Seq(Byte)
BY ConcatProperties

LEMMA Associated == \A s, t, u \in Seq(Byte) : s \o (t \o u) = (s \o t) \o u
BY ConcatAssociative, SMTT(30)

LEMMA JoinedParts ==
  ASSUME NEW s \in Seq(Byte), NEW t \in Seq(Byte)
  PROVE  /\ Len(s \o t) = Len(s) + Len(t)
         /\ \A i \in 1..Len(s) : (s \o t)[i] = s[i]
         /\ \A i \in 1..Len(t) : (s \o t)[Len(s) + i] = t[i]
<1>1. /\ Len(s \o t) = Len(s) + Len(t)
      /\ \A i \in 1..Len(s) + Len(t) : (s \o t)[i] = IF i <= Len(s) THEN s[i] ELSE t[i - Len(s)]
  BY ConcatProperties
<1> QED BY <1>1

\* The constants of the format.
LEMMA Small == \A n \in 0..31 : n \in Byte /\ <<n>> \in Seq(Byte)
BY FormatAssumption DEF Byte

LEMMA Flags == \A b : Flag(b) \in 0..1
BY DEF Flag

\* A length is the largest of the ends of commands, of which there is one.
LEMMA LengthInt ==
  ASSUME NEW cmds, cmds \in Seq(ToSet(cmds)), NEW blocks,
         \A i \in DOMAIN cmds : EndOf(cmds[i], blocks) \in Int
  PROVE  ComputePesFrameLength(cmds, blocks) \in Int
<1> DEFINE N == Len(cmds)
           E(n) == {0} \union {EndOf(cmds[i], blocks) : i \in 1..n}
           HasMax(n) == \E x \in E(n) : x \in Int /\ \A y \in E(n) : x >= y
<1>1. N \in Nat /\ DOMAIN cmds = 1..N OBVIOUS
<1>2. \A i \in 1..N : EndOf(cmds[i], blocks) \in Int BY <1>1
<1>3. HasMax(N)
  <2> DEFINE Bad == {n \in 0..N : ~HasMax(n)}
  <2>1. SUFFICES ASSUME Bad # {} PROVE FALSE
    <3> HIDE DEF HasMax, N
    <3> QED BY <1>1
  <2>2. Bad \in SUBSET Nat
    <3> HIDE DEF HasMax, N
    <3> QED BY <1>1
  <2>3. PICK n \in Bad : \A m \in Bad : n <= m
    <3> HIDE DEF Bad
    <3> QED BY <2>1, <2>2, Smallest
  <2>4. n \in 0..N /\ ~HasMax(n) OBVIOUS
  <2>5. CASE n = 0
    <3>1. E(0) = {0} OBVIOUS
    <3> QED BY <2>4, <2>5, <3>1
  <2>6. CASE n # 0
    <3>1. n - 1 \in 0..N /\ ~(n <= n - 1) BY <1>1, <2>4, <2>6
    <3>2. HasMax(n - 1) BY <2>3, <3>1
    <3>3. PICK x \in E(n - 1) : x \in Int /\ \A y \in E(n - 1) : x >= y BY <3>2
    <3> DEFINE e == EndOf(cmds[n], blocks)
    <3>4. e \in Int /\ n \in 1..N BY <1>2, <2>4, <2>6
    <3>5. E(n) = E(n - 1) \union {e}
      <4>1. 1..n = 1..n - 1 \union {n} BY <3>4
      <4> QED BY <4>1
    <3> HIDE DEF e, E
    <3>6. \A y \in E(n - 1) : x >= y BY <3>3
    <3>7. \A y \in E(n - 1) : y \in Int
      <4> SUFFICES ASSUME NEW y \in E(n - 1) PROVE y \in Int OBVIOUS
      <4>1. \A i \in 1..n - 1 : EndOf(cmds[i], blocks) \in Int BY <1>1, <1>2, <3>4
      <4> QED BY <4>1 DEF E
    <3>8. CASE x >= e
      <4>1. x \in E(n) /\ \A y \in E(n) : x >= y BY <3>3, <3>5, <3>6, <3>8
      <4> QED BY <2>4, <3>3, <4>1
    <3>9. CASE ~(x >= e)
      <4>1. e \in E(n) /\ \A y \in E(n) : e >= y BY <3>3, <3>4, <3>5, <3>6, <3>7, <3>9
      <4> QED BY <2>4, <3>4, <4>1
    <3> QED BY <3>8, <3>9
  <2> QED BY <2>5, <2>6
<1>4. ComputePesFrameLength(cmds, blocks) = Max(E(N))
  BY <1>1 DEF ComputePesFrameLength
<1>5. \A y \in E(N) : y \in Int BY <1>2
<1> HIDE DEF E
<1> QED BY <1>3, <1>4, <1>5 DEF Max

\* The end of a command is a number.
LEMMA EndInt ==
  ASSUME NEW blocks \in Seq(Seq(Byte)), NEW c, IsCommand(c),
         c.type = "addDataBlock" => c.block \in DOMAIN blocks
  PROVE  EndOf(c, blocks) \in Int
<1>1. c.offset \in Int BY DEF IsCommand
<1>2. CASE c.type = "addData" /\ c.data \in Seq(Byte) BY <1>1, <1>2 DEF EndOf
<1>3. CASE c.type = "changeByteOrder" BY <1>3 DEF EndOf
<1>4. CASE c.type = "addPesPayload" /\ c.size \in Int BY <1>1, <1>4 DEF EndOf
<1>5. CASE c.type = "addPadding" /\ c.length \in Int BY <1>1, <1>5 DEF EndOf
<1>6. CASE c.type = "addDataBlock"
  <2>1. Len(blocks[c.block]) \in Nat BY <1>6
  <2> QED BY <1>1, <1>6, <2>1 DEF EndOf
<1> QED BY <1>2, <1>3, <1>4, <1>5, <1>6 DEF IsCommand

LEMMA CommandBytes ==
  ASSUME NEW c, IsCommand(c)
  PROVE  WriteCommand(c) \in Seq(Byte)
<1>1. \A w, v : w \in Nat /\ v \in Int => U(w, v) \in Seq(Byte) BY UBytes
<1>2. c.offset \in Int BY DEF IsCommand
<1>3. U(4, c.offset) \in Seq(Byte) BY <1>1, <1>2
<1>4. <<0>> \in Seq(Byte) /\ <<1>> \in Seq(Byte) /\ <<2>> \in Seq(Byte)
      /\ <<3>> \in Seq(Byte) /\ <<4>> \in Seq(Byte) /\ <<5>> \in Seq(Byte)
  BY Small
<1>5. CASE c.type = "addData" /\ c.data \in Seq(Byte)
  <2>1. U(2, 5 + Len(c.data)) \in Seq(Byte) BY <1>1, <1>5
  <2>2. WriteCommand(c) = <<1>> \o U(2, 5 + Len(c.data)) \o U(4, c.offset) \o <<0>> \o c.data
    BY <1>5 DEF WriteCommand
  <2> QED BY <1>3, <1>4, <1>5, <2>1, <2>2, Joined
<1>6. CASE c.type = "changeByteOrder" /\ c.unit \in Int /\ c.length \in Int
  <2>1. U(2, 9) \in Seq(Byte) /\ U(1, c.unit) \in Seq(Byte) /\ U(4, c.length) \in Seq(Byte)
    BY <1>1, <1>6
  <2>2. WriteCommand(c) = <<2>> \o U(2, 9) \o U(1, c.unit) \o U(4, c.offset) \o U(4, c.length)
    BY <1>6 DEF WriteCommand
  <2> QED BY <1>3, <1>4, <2>1, <2>2, Joined
<1>7. CASE c.type = "addPesPayload" /\ c.file \in Int /\ c.src \in Int /\ c.size \in Int
  <2> DEFINE longSrc == IsLong(c.src, 4)
             longSize == IsLong(c.size, 2)
             size == U(2, 12 + 4 * Flag(longSrc) + 2 * Flag(longSize))
             kind == Bits(2, 2 * Flag(longSrc) + Flag(longSize))
             highSrc == IF longSrc THEN U(4, c.src \div Weight[4]) ELSE <<>>
             highSize == IF longSize THEN U(2, c.size \div Weight[2]) ELSE <<>>
  <2>1. WriteCommand(c) = <<3>> \o size \o kind \o U(1, c.file) \o U(4, c.offset)
                            \o U(4, c.src) \o highSrc \o U(2, c.size) \o highSize
    BY <1>7 DEF WriteCommand
  <2> DEFINE fSrc == Flag(longSrc)
             fSize == Flag(longSize)
             n == 12 + 4 * fSrc + 2 * fSize
             k == 2 * fSrc + fSize
  <2>2. fSrc \in 0..1 /\ fSize \in 0..1 BY Flags
  <2> HIDE DEF longSrc, longSize, fSrc, fSize
  <2>3. size \in Seq(Byte) /\ kind \in Seq(Byte)
    <3>1. n \in Int /\ k \in Int /\ 2 \in Nat /\ 2 \in 0..5 BY <2>2
    <3> HIDE DEF n, k
    <3>2. U(2, n) \in Seq(Byte) /\ Bits(2, k) \in Seq(Byte) BY <1>1, <3>1, BitsBytes, Zenon
    <3> QED BY <3>2 DEF n, k, fSrc, fSize
  <2>4. Weight[4] \in Nat \ {0} /\ Weight[2] \in Nat \ {0} BY Weights
  <2>5. c.src \div Weight[4] \in Int /\ c.size \div Weight[2] \in Int BY <1>7, <2>4
  <2>6. highSrc \in Seq(Byte) /\ highSize \in Seq(Byte) BY <1>1, <2>5
  <2>7. U(1, c.file) \in Seq(Byte) /\ U(4, c.src) \in Seq(Byte) /\ U(2, c.size) \in Seq(Byte)
    BY <1>1, <1>7
  <2> HIDE DEF size, kind, highSrc, highSize
  <2> QED BY <1>3, <1>4, <2>1, <2>3, <2>6, <2>7, Joined, SMTT(30)
<1>8. CASE c.type = "addPadding" /\ c.length \in Int
  <2>1. U(2, 10) \in Seq(Byte) /\ U(4, c.length) \in Seq(Byte) BY <1>1, <1>8
  <2>2. WriteCommand(c) = <<4>> \o U(2, 10) \o U(4, c.offset) \o <<0>> \o U(4, c.length) \o <<0>>
    BY <1>8 DEF WriteCommand
  <2> QED BY <1>3, <1>4, <2>1, <2>2, Joined
<1>9. CASE c.type = "addDataBlock" /\ c.block \in Int
  <2>1. U(2, 6) \in Seq(Byte) /\ U(1, c.block - 1) \in Seq(Byte) BY <1>1, <1>9
  <2>2. WriteCommand(c) = <<5>> \o U(2, 6) \o U(4, c.offset) \o <<0>> \o U(1, c.block - 1)
    BY <1>9 DEF WriteCommand
  <2> QED BY <1>3, <1>4, <2>1, <2>2, Joined
<1> QED BY <1>5, <1>6, <1>7, <1>8, <1>9 DEF IsCommand

Codings == {H262, AVC, LPCM, AC3, PG, IG}

LEMMA PacketBytes ==
  ASSUME NEW blocks \in Seq(Seq(Byte)), NEW p, IsPacket(p, blocks), NEW coding \in Codings
  PROVE  WritePesPacket(coding, p, blocks) \in Seq(Byte)
<1> DEFINE length == ComputePesFrameLength(p.cmds, blocks)
           longPts == IsLong(p.pts, 4)
           longDts == IsLong(p.dts, 4)
           longLength == IsLong(length, 2)
           large == IsLong(p.ext.cpb, 4) \/ IsLong(p.ext.dpb, 4)
           kind == CASE DetermineType(coding) = ES_VIDEO -> Bits(2, p.picture)
                     [] DetermineType(coding) = ES_AUDIO -> Bits(1, Flag(p.extension))
                     [] OTHER -> <<0>>
           flags == 16 * Flag(longPts) + 8 * Flag(p.dtsPresent) + 4 * Flag(longDts)
                      + 2 * Flag(longLength) + Flag(p.ext # NoExt)
           pts == U(IF longPts THEN 2 * 4 ELSE 4, p.pts)
           dts == IF p.dtsPresent THEN U(IF longDts THEN 2 * 4 ELSE 4, p.dts) ELSE <<>>
           ext == IF p.ext # NoExt THEN ExtensionData(coding, p.ext) ELSE <<>>
           size == U(IF longLength THEN 2 * 2 ELSE 2, length)
           cmds == [i \in DOMAIN p.cmds |-> WriteCommand(p.cmds[i])]
<1>1. WritePesPacket(coding, p, blocks)
        = kind \o <<flags>> \o pts \o dts \o ext \o size \o U(1, Len(p.cmds)) \o FlattenSeq(cmds)
  BY DEF WritePesPacket
<1>2. /\ p.pts \in Int /\ p.dts \in Int /\ p.picture \in Int
      /\ p.ext.cpb \in Int /\ p.ext.dpb \in Int
      /\ p.cmds \in Seq(ToSet(p.cmds))
      /\ \A i \in DOMAIN p.cmds : /\ IsCommand(p.cmds[i])
                                  /\ p.cmds[i].type = "addDataBlock" => p.cmds[i].block \in DOMAIN blocks
  BY DEF IsPacket
<1>3. \A w, v : w \in Nat /\ v \in Int => U(w, v) \in Seq(Byte) BY UBytes
<1>4. length \in Int BY <1>2, EndInt, LengthInt
<1>5. kind \in Seq(Byte)
  <2>1. 1 \in 0..5 /\ 2 \in 0..5 /\ Flag(p.extension) \in Int BY Flags
  <2>2. Bits(2, p.picture) \in Seq(Byte) /\ Bits(1, Flag(p.extension)) \in Seq(Byte)
    BY <1>2, <2>1, BitsBytes, Zenon
  <2> QED BY <2>2, Small
<1>6. <<flags>> \in Seq(Byte)
  <2> DEFINE f1 == Flag(longPts)
             f2 == Flag(p.dtsPresent)
             f3 == Flag(longDts)
             f4 == Flag(longLength)
             f5 == Flag(p.ext # NoExt)
             sum == 16 * f1 + 8 * f2 + 4 * f3 + 2 * f4 + f5
  <2>1. f1 \in 0..1 /\ f2 \in 0..1 /\ f3 \in 0..1 /\ f4 \in 0..1 /\ f5 \in 0..1 BY Flags
  <2> HIDE DEF f1, f2, f3, f4, f5
  <2>2. sum \in 0..31 BY <2>1
  <2>3. flags = sum BY DEF f1, f2, f3, f4, f5
  <2> HIDE DEF sum, flags
  <2> QED BY <2>2, <2>3, Small
<1> HIDE DEF length, longLength
<1>7. pts \in Seq(Byte) /\ dts \in Seq(Byte) /\ size \in Seq(Byte)
  <2>1. \A b, w, v : w \in Nat /\ v \in Int => U(IF b THEN 2 * w ELSE w, v) \in Seq(Byte)
    BY <1>3
  <2>2. 2 \in Nat /\ 4 \in Nat OBVIOUS
  <2>3. pts \in Seq(Byte) /\ size \in Seq(Byte) BY <1>2, <1>4, <2>1, <2>2, Zenon
  <2>4. U(IF longDts THEN 2 * 4 ELSE 4, p.dts) \in Seq(Byte) BY <1>2, <2>1, <2>2, Zenon
  <2> HIDE DEF longDts
  <2> QED BY <2>3, <2>4
<1>8. ext \in Seq(Byte)
  <2>1. ExtensionData(coding, p.ext) \in Seq(Byte)
    <3>1. U(2, 0) \in Seq(Byte) BY <1>3
    <3> DEFINE w == IF large THEN 8 ELSE 4
    <3>2. coding = AVC => ExtensionData(coding, p.ext)
            = U(2, 1 + 2 * w) \o Bits(1, Flag(large)) \o U(w, p.ext.cpb) \o U(w, p.ext.dpb)
      BY DEF ExtensionData
    <3>3. w \in Nat OBVIOUS
    <3>4. U(2, 1 + 2 * w) \in Seq(Byte) /\ U(w, p.ext.cpb) \in Seq(Byte) /\ U(w, p.ext.dpb) \in Seq(Byte)
      <4> HIDE DEF w
      <4>1. 2 \in Nat /\ 1 + 2 * w \in Int BY <3>3
      <4> QED BY <1>2, <1>3, <3>3, <4>1, Zenon
    <3>5. Bits(1, Flag(large)) \in Seq(Byte)
      <4>1. 1 \in 0..5 /\ Flag(large) \in Int BY Flags
      <4> QED BY <4>1, BitsBytes, Zenon
    <3> HIDE DEF w, large
    <3>6. CASE coding = AVC BY <3>2, <3>4, <3>5, <3>6, Joined, ZenonT(30)
    <3>7. CASE coding # AVC BY <3>1, <3>7 DEF ExtensionData
    <3> QED BY <3>6, <3>7
  <2> QED BY <2>1
<1>9. U(1, Len(p.cmds)) \in Seq(Byte)
  <2>1. 1 \in Nat /\ Len(p.cmds) \in Int BY <1>2
  <2> QED BY <1>3, <2>1, Zenon
<1>10. FlattenSeq(cmds) \in Seq(Byte)
  <2>1. DOMAIN p.cmds = 1..Len(p.cmds) /\ Len(p.cmds) \in Nat BY <1>2
  <2>2. \A i \in DOMAIN p.cmds : WriteCommand(p.cmds[i]) \in Seq(Byte) BY <1>2, CommandBytes
  <2>3. cmds \in Seq(Seq(Byte)) BY <2>1, <2>2
  <2> HIDE DEF cmds
  <2> QED BY <2>3, FlattenSeqs
<1> HIDE DEF kind, flags, pts, dts, ext, size, cmds
<1> QED BY <1>1, <1>5, <1>6, <1>7, <1>8, <1>9, <1>10, Joined

\* What is appended to a script does not change its marker.
LEMMA Extended ==
  ASSUME NEW s \in Seq(Byte), Len(s) >= 3, NEW t \in Seq(Byte)
  PROVE  s \o t \in Seq(Byte) /\ Len(s \o t) >= Len(s) /\ (s \o t)[3] = s[3]
<1>1. s \o t \in Seq(Byte) /\ Len(s \o t) = Len(s) + Len(t) BY Joined, JoinedParts
<1>2. 3 \in 1..Len(s) OBVIOUS
<1>3. (s \o t)[3] = s[3] BY <1>2, JoinedParts, Zenon
<1> QED BY <1>1, <1>3

LEMMA HeaderBytes ==
  /\ HeaderLength \in Nat /\ HeaderLength >= 40
  /\ WriteEsmsHeader \in Seq(Byte) /\ Len(WriteEsmsHeader) = HeaderLength /\ WriteEsmsHeader[3] = 0
<1> DEFINE n == 9 * MaxDir
           zeros == [i \in 1..n |-> 0]
           start == <<FileMagic, Version, 0, 0>>
<1>1. n \in Nat /\ n >= 36 /\ HeaderLength = 4 + n BY FormatAssumption DEF HeaderLength
<1> HIDE DEF n
<1>2. zeros \in Seq(Byte) /\ Len(zeros) = n BY <1>1, Small
<1>3. start \in Seq(Byte) /\ Len(start) = 4 /\ start[3] = 0 BY Small DEF FileMagic, Version
<1>4. WriteEsmsHeader = start \o zeros BY DEF WriteEsmsHeader, n
<1> HIDE DEF zeros, start
<1>5. start \o zeros \in Seq(Byte) /\ Len(start \o zeros) = 4 + n /\ (start \o zeros)[3] = 0
  <2>1. start \o zeros \in Seq(Byte) BY <1>2, <1>3, Joined
  <2>2. Len(start \o zeros) = Len(start) + Len(zeros) BY <1>2, <1>3, JoinedParts
  <2>3. 3 \in 1..Len(start) BY <1>3
  <2>4. (start \o zeros)[3] = start[3] BY <1>2, <1>3, <2>3, JoinedParts, Zenon
  <2> QED BY <1>1, <1>2, <1>3, <2>1, <2>2, <2>4
<1> QED BY <1>1, <1>4, <1>5

\* What the sections are written from.
SourceRecords == [name : Byte, crc : Int]
IsHeader(x) ==
  /\ x.coding \in Codings
  /\ x.ptsRef \in Int /\ x.endPts \in Int /\ x.bitrate \in Int /\ x.flags \in Int
  /\ x.sources \in Seq(SourceRecords)
  /\ x.blocks \in Seq(Seq(Byte))
  /\ IsFormat(x.fmt, x.coding)

LEMMA PropertiesBytes ==
  ASSUME NEW x, IsHeader(x)
  PROVE  WriteEsPropertiesSection(x) \in Seq(Byte)
<1> DEFINE head == <<PropMagic, DetermineType(x.coding), x.coding>>
           Entry(i) == U(2, 1) \o <<x.sources[i].name>> \o U(2, CRC32_USED_BYTES) \o U(4, x.sources[i].crc)
           entries == [i \in DOMAIN x.sources |-> Entry(i)]
           n == Len(x.sources)
<1>1. \A w, v : w \in Nat /\ v \in Int => U(w, v) \in Seq(Byte) BY UBytes
<1>2. /\ x.ptsRef \in Int /\ x.bitrate \in Int /\ x.endPts \in Int /\ x.flags \in Int
      /\ x.sources \in Seq(SourceRecords) /\ n \in Nat /\ DOMAIN x.sources = 1..n
  BY DEF IsHeader
<1>3. head \in Seq(Byte)
  <2>1. x.coding \in 0..31 /\ PropMagic \in 0..31 /\ DetermineType(x.coding) \in 0..31
    BY DEF IsHeader, Codings, DetermineType, PropMagic, H262, AVC, LPCM, AC3, PG, IG, ES_VIDEO, ES_AUDIO, ES_HDMV
  <2>2. x.coding \in Byte /\ PropMagic \in Byte /\ DetermineType(x.coding) \in Byte BY <2>1, Small
  <2> QED BY <2>2
<1>4. \A i \in 1..n : Entry(i) \in Seq(Byte)
  <2> SUFFICES ASSUME NEW i \in 1..n PROVE Entry(i) \in Seq(Byte) OBVIOUS
  <2>1. x.sources[i] \in SourceRecords BY <1>2
  <2>2. x.sources[i].name \in Byte /\ x.sources[i].crc \in Int BY <2>1 DEF SourceRecords
  <2>3. 1 \in Int /\ 2 \in Nat /\ 4 \in Nat /\ CRC32_USED_BYTES \in Int BY DEF CRC32_USED_BYTES
  <2>4. U(2, 1) \in Seq(Byte) /\ U(2, CRC32_USED_BYTES) \in Seq(Byte) /\ U(4, x.sources[i].crc) \in Seq(Byte)
    BY <1>1, <2>2, <2>3, Zenon
  <2>5. <<x.sources[i].name>> \in Seq(Byte) BY <2>2
  <2> QED BY <2>4, <2>5, Joined
<1>5. FlattenSeq(entries) \in Seq(Byte)
  <2> HIDE DEF Entry
  <2>1. entries \in Seq(Seq(Byte)) BY <1>2, <1>4
  <2> HIDE DEF entries
  <2> QED BY <2>1, FlattenSeqs
<1>6. /\ U(8, x.ptsRef) \in Seq(Byte) /\ U(4, x.bitrate) \in Seq(Byte) /\ U(8, x.endPts) \in Seq(Byte)
      /\ U(8, x.flags) \in Seq(Byte) /\ U(1, n) \in Seq(Byte)
  <2>1. 1 \in Nat /\ 4 \in Nat /\ 8 \in Nat /\ n \in Int BY <1>2
  <2> HIDE DEF n
  <2> QED BY <1>1, <1>2, <2>1, Zenon
<1>7. WriteEsPropertiesSection(x) = head \o U(8, x.ptsRef) \o U(4, x.bitrate) \o U(8, x.endPts) \o U(8, x.flags)
                                      \o U(1, n) \o FlattenSeq(entries)
  BY DEF WriteEsPropertiesSection
<1> HIDE DEF head, entries, n
<1> QED BY <1>3, <1>5, <1>6, <1>7, Joined

LEMMA FormatBytes ==
  ASSUME NEW x, IsHeader(x)
  PROVE  WriteEsCodecSpecParametersSection(x) \in Seq(Byte)
<1>1. \A w, v : w \in Nat /\ v \in Int => U(w, v) \in Seq(Byte) BY UBytes
<1>2. \A n, v : n \in 0..5 /\ v \in Int => Bits(n, v) \in Seq(Byte) BY BitsBytes
<1>3. /\ 1 \in Nat /\ 4 \in Nat /\ 1 \in 0..5 /\ 2 \in 0..5 /\ 3 \in 0..5 /\ 4 \in 0..5 /\ 5 \in 0..5
      /\ <<FmtMagic>> \in Seq(Byte) /\ <<0>> \in Seq(Byte) /\ <<>> \in Seq(Byte)
  BY Small DEF FmtMagic
<1>4. IsFormat(x.fmt, x.coding) BY DEF IsHeader
<1>5. CASE x.coding \in {H262, AVC}
  <2>1. Flag(x.fmt.stillPicture) \in Int BY Flags
  <2>2. /\ x.fmt.videoFormat \in Int /\ x.fmt.frameRate \in Int /\ x.fmt.profileIDC \in Int /\ x.fmt.levelIDC \in Int
        /\ Flag(x.fmt.stillPicture) \in Int
    BY <1>4, <1>5, <2>1 DEF IsFormat
  <2>3. /\ Bits(4, x.fmt.videoFormat) \in Seq(Byte) /\ Bits(4, x.fmt.frameRate) \in Seq(Byte)
        /\ U(1, x.fmt.profileIDC) \in Seq(Byte) /\ U(1, x.fmt.levelIDC) \in Seq(Byte)
        /\ Bits(1, Flag(x.fmt.stillPicture)) \in Seq(Byte)
    BY <1>1, <1>2, <1>3, <2>2, Zenon
  <2> DEFINE avc == IF x.coding = AVC THEN U(1, x.fmt.constraintFlags) \o U(4, x.fmt.cpbSize) \o U(4, x.fmt.cpbBitrate)
                                      ELSE <<>>
  <2>4. avc \in Seq(Byte)
    <3>1. CASE x.coding = AVC
      <4>1. x.fmt.constraintFlags \in Int /\ x.fmt.cpbSize \in Int /\ x.fmt.cpbBitrate \in Int
        BY <1>4, <3>1 DEF IsFormat
      <4>2. /\ U(1, x.fmt.constraintFlags) \in Seq(Byte) /\ U(4, x.fmt.cpbSize) \in Seq(Byte)
            /\ U(4, x.fmt.cpbBitrate) \in Seq(Byte)
        BY <1>1, <1>3, <4>1, Zenon
      <4> QED BY <3>1, <4>2, Joined
    <3>2. CASE x.coding # AVC BY <1>3, <3>2
    <3> QED BY <3>1, <3>2
  <2>5. WriteEsCodecSpecParametersSection(x)
          = <<FmtMagic>> \o Bits(4, x.fmt.videoFormat) \o Bits(4, x.fmt.frameRate) \o U(1, x.fmt.profileIDC)
              \o U(1, x.fmt.levelIDC) \o Bits(1, Flag(x.fmt.stillPicture)) \o avc
    <3>1. DetermineType(x.coding) = ES_VIDEO
      BY <1>5 DEF DetermineType, H262, AVC, LPCM, AC3, ES_VIDEO, ES_AUDIO, ES_HDMV
    <3>2. ES_AUDIO # ES_VIDEO BY DEF ES_AUDIO, ES_VIDEO
    <3> QED BY <3>1, <3>2, Zenon DEF WriteEsCodecSpecParametersSection
  <2> HIDE DEF avc
  <2> QED BY <1>3, <2>3, <2>4, <2>5, Joined
<1>6. CASE x.coding \in {LPCM, AC3}
  <2>2. x.fmt.audioFormat \in Int /\ x.fmt.sampleRate \in Int /\ x.fmt.bitDepth \in Int
    BY <1>4, <1>6 DEF IsFormat
  <2>3. /\ Bits(4, x.fmt.audioFormat) \in Seq(Byte) /\ Bits(4, x.fmt.sampleRate) \in Seq(Byte)
        /\ U(1, x.fmt.bitDepth) \in Seq(Byte)
    BY <1>1, <1>2, <1>3, <2>2, Zenon
  <2> DEFINE ac3 == IF x.coding = AC3 THEN WriteAc3FmtSpecificInfos(x.fmt) ELSE <<>>
  <2>4. ac3 \in Seq(Byte)
    <3>1. CASE x.coding = AC3
      <4>2. /\ x.fmt.subSampleRate \in Int /\ x.fmt.bsid \in Int /\ x.fmt.bitrateMode \in Int
            /\ x.fmt.bitrateCode \in Int /\ x.fmt.surroundCode \in Int /\ x.fmt.numChannels \in Int
            /\ x.fmt.fullSVC \in Int
        BY <1>4, <3>1 DEF IsFormat
      <4>3. /\ Bits(3, x.fmt.subSampleRate) \in Seq(Byte) /\ Bits(5, x.fmt.bsid) \in Seq(Byte)
            /\ Bits(1, x.fmt.bitrateMode) \in Seq(Byte) /\ Bits(5, x.fmt.bitrateCode) \in Seq(Byte)
            /\ Bits(2, x.fmt.surroundCode) \in Seq(Byte) /\ Bits(3, x.fmt.bitrateMode) \in Seq(Byte)
            /\ Bits(4, x.fmt.numChannels) \in Seq(Byte) /\ Bits(1, x.fmt.fullSVC) \in Seq(Byte)
        BY <1>2, <1>3, <4>2, Zenon
      <4>4. WriteAc3FmtSpecificInfos(x.fmt) \in Seq(Byte) BY <4>3, Joined DEF WriteAc3FmtSpecificInfos
      <4> QED BY <3>1, <4>4
    <3>2. CASE x.coding # AC3 BY <1>3, <3>2
    <3> QED BY <3>1, <3>2
  <2>5. WriteEsCodecSpecParametersSection(x)
          = <<FmtMagic>> \o Bits(4, x.fmt.audioFormat) \o Bits(4, x.fmt.sampleRate) \o U(1, x.fmt.bitDepth) \o <<0>>
              \o ac3
    <3>1. DetermineType(x.coding) = ES_AUDIO
      BY <1>6 DEF DetermineType, H262, AVC, LPCM, AC3, ES_VIDEO, ES_AUDIO, ES_HDMV
    <3>2. ES_AUDIO # ES_VIDEO BY DEF ES_AUDIO, ES_VIDEO
    <3> QED BY <3>1, <3>2, Zenon DEF WriteEsCodecSpecParametersSection
  <2> HIDE DEF ac3
  <2> QED BY <1>3, <2>3, <2>4, <2>5, Joined
<1>7. CASE x.coding \in {PG, IG}
  <2>1. WriteEsCodecSpecParametersSection(x) = <<>>
    BY <1>7 DEF WriteEsCodecSpecParametersSection, DetermineType, H262, AVC, LPCM, AC3, PG, IG, ES_VIDEO, ES_AUDIO, ES_HDMV
  <2> QED BY <1>3, <2>1
<1> QED BY <1>5, <1>6, <1>7 DEF IsHeader, Codings

LEMMA BlocksBytes ==
  ASSUME NEW blocks \in Seq(Seq(Byte))
  PROVE  WriteDataBlocksDefSection(blocks) \in Seq(Byte)
<1> DEFINE entries == [i \in DOMAIN blocks |-> U(4, Len(blocks[i])) \o blocks[i]]
<1>1. \A w, v : w \in Nat /\ v \in Int => U(w, v) \in Seq(Byte) BY UBytes
<1>2. \A i \in DOMAIN blocks : U(4, Len(blocks[i])) \o blocks[i] \in Seq(Byte)
  <2> SUFFICES ASSUME NEW i \in DOMAIN blocks PROVE U(4, Len(blocks[i])) \o blocks[i] \in Seq(Byte) OBVIOUS
  <2>1. blocks[i] \in Seq(Byte) /\ Len(blocks[i]) \in Int /\ 4 \in Nat OBVIOUS
  <2>2. U(4, Len(blocks[i])) \in Seq(Byte) BY <1>1, <2>1, Zenon
  <2> QED BY <2>1, <2>2, Joined
<1>3. entries \in Seq(Seq(Byte))
  <2>1. DOMAIN blocks = 1..Len(blocks) /\ Len(blocks) \in Nat OBVIOUS
  <2> QED BY <1>2, <2>1
<1> HIDE DEF entries
<1>4. FlattenSeq(entries) \in Seq(Byte) BY <1>3, FlattenSeqs
<1>5. 1 \in Nat /\ Len(blocks) \in Int OBVIOUS
<1>6. U(1, Len(blocks)) \in Seq(Byte) BY <1>1, <1>5, Zenon
<1>7. <<BlkMagic>> \in Seq(Byte) BY Small DEF BlkMagic
<1> QED BY <1>4, <1>6, <1>7, Joined DEF WriteDataBlocksDefSection, entries

Directories == [id : 1..4, offset : Nat]

\* The update of the header marks a script.
LEMMA UpdatedBytes ==
  ASSUME NEW f \in Seq(Byte), Len(f) >= HeaderLength,
         NEW dirs \in Seq(Directories), Len(dirs) <= 4
  PROVE  /\ UpdateEsmsHeader(f, dirs) \in Seq(Byte)
         /\ Len(UpdateEsmsHeader(f, dirs)) >= 4
         /\ UpdateEsmsHeader(f, dirs)[3] = 1
<1> DEFINE Entry(i) == <<dirs[i].id>> \o U(8, dirs[i].offset)
           entries == [i \in DOMAIN dirs |-> Entry(i)]
           start == SubSeq(f, 1, 2)
           marker == <<1, Len(dirs)>>
           rest == SubSeq(f, 5 + 9 * Len(dirs), Len(f))
<1>1. \A i \in DOMAIN dirs : Entry(i) \in Seq(Byte)
  <2> SUFFICES ASSUME NEW i \in DOMAIN dirs PROVE Entry(i) \in Seq(Byte) OBVIOUS
  <2>1. dirs[i] \in Directories OBVIOUS
  <2>2. dirs[i].id \in 0..31 /\ dirs[i].offset \in Int BY <2>1 DEF Directories
  <2>3. <<dirs[i].id>> \in Seq(Byte) BY <2>2, Small
  <2>4. 8 \in Nat OBVIOUS
  <2>5. U(8, dirs[i].offset) \in Seq(Byte) BY <2>2, <2>4, UBytes, Zenon
  <2> QED BY <2>3, <2>5, Joined
<1>2. FlattenSeq(entries) \in Seq(Byte)
  <2> HIDE DEF Entry
  <2>1. entries \in Seq(Seq(Byte)) BY <1>1
  <2> HIDE DEF entries
  <2> QED BY <2>1, FlattenSeqs
<1>3. start \in Seq(Byte) /\ Len(start) = 2 BY HeaderBytes
<1>4. marker \in Seq(Byte) /\ Len(marker) = 2 /\ marker[1] = 1
  <2>1. 1 \in Byte /\ Len(dirs) \in Byte
    <3> DEFINE n == Len(dirs)
    <3>1. n \in Nat /\ n <= 4 OBVIOUS
    <3> HIDE DEF n
    <3>2. n \in 0..31 /\ 1 \in 0..31 BY <3>1
    <3>3. n \in Byte /\ 1 \in Byte BY <3>2, Small, Zenon
    <3> QED BY <3>3 DEF n
  <2> QED BY <2>1
<1>5. rest \in Seq(Byte) OBVIOUS
<1>6. UpdateEsmsHeader(f, dirs) = start \o marker \o FlattenSeq(entries) \o rest BY DEF UpdateEsmsHeader
<1> DEFINE tail == FlattenSeq(entries)
<1> HIDE DEF start, marker, rest, entries, tail
<1>7. start \o marker \in Seq(Byte) /\ Len(start \o marker) = 4 /\ (start \o marker)[3] = 1
  <2>1. start \o marker \in Seq(Byte) /\ Len(start \o marker) = Len(start) + Len(marker)
    BY <1>3, <1>4, Joined, JoinedParts
  <2>2. 1 \in 1..Len(marker) BY <1>4
  <2>3. (start \o marker)[Len(start) + 1] = marker[1] BY <1>3, <1>4, <2>2, JoinedParts, Zenon
  <2> QED BY <1>3, <1>4, <2>1, <2>3
<1>8. /\ (start \o marker) \o tail \in Seq(Byte) /\ Len((start \o marker) \o tail) >= 4
      /\ ((start \o marker) \o tail)[3] = 1
  <2> DEFINE s == start \o marker
  <2> HIDE DEF s
  <2>1. s \in Seq(Byte) /\ Len(s) >= 4 /\ s[3] = 1 BY <1>7 DEF s
  <2>2. tail \in Seq(Byte) BY <1>2 DEF tail
  <2>3. s \o tail \in Seq(Byte) /\ Len(s \o tail) >= 4 /\ (s \o tail)[3] = 1 BY <2>1, <2>2, Extended
  <2> QED BY <2>3 DEF s
<1>9. /\ ((start \o marker) \o tail) \o rest \in Seq(Byte) /\ Len(((start \o marker) \o tail) \o rest) >= 4
      /\ (((start \o marker) \o tail) \o rest)[3] = 1
  <2> DEFINE s == (start \o marker) \o tail
  <2> HIDE DEF s
  <2>1. s \in Seq(Byte) /\ Len(s) >= 4 /\ s[3] = 1 BY <1>8 DEF s
  <2>2. s \o rest \in Seq(Byte) /\ Len(s \o rest) >= 4 /\ (s \o rest)[3] = 1 BY <1>5, <2>1, Extended
  <2> QED BY <2>2 DEF s
<1> QED BY <1>6, <1>9 DEF tail

-----------------------------------------------------------------------------
(* The inductive invariant.                                                 *)

IsASequence(s) == s \in Seq(ToSet(s))
Writing == {"packets", "mark"}
Working == {"check", "create", "parse"} \union Writing

\* Streams are registered and parsed in their order.
Streams ==
  /\ pc \in {"idle", "search", "muxing", "failed"} \union Working
  /\ IsASequence(names) /\ used \in Seq(Seq(Byte))
  /\ run \in Runs \/ (run.jobs = NoJobs /\ pc = "idle")
  /\ pc = "idle" => names = <<>> /\ used = <<>>
  /\ pc = "search" => Len(names) = Len(used) /\ Len(used) < Len(run.jobs)
  /\ pc \in Working => Len(names) = Len(used) + 1 /\ Len(used) < Len(run.jobs)
  /\ pc = "muxing" => Len(names) = Len(used)
  /\ pc = "failed" => Len(names) \in {Len(used), Len(used) + 1}

Contents == /\ disk \in [Sources -> UNION {Editions[s] : s \in Sources}]
            /\ \A s \in Sources : disk[s] \in Editions[s]
            /\ \A n \in DOMAIN files : files[n] \in Seq(Byte)

\* A script that was parsed has the marker, and is on the disk under its name.
Marked(f) == Len(f) >= 4 /\ f[3] = 1
Parsed == \A i \in 1..Len(used) : /\ Marked(used[i])
                                  /\ names[i] \in DOMAIN files
                                  /\ ~run.force => files[names[i]] = used[i]

\* The header comes from what the analyser finds.
FromFinding ==
  LET found == Finding(h.options)
  IN  /\ DOMAIN h = {"coding", "options", "flags", "ptsRef", "endPts", "bitrate", "sources", "blocks", "fmt", "dirs",
                     "nbFrames"}
      /\ h.options \in OptionsTried(Job.options)
      /\ h.coding = found.coding /\ h.fmt = found.fmt /\ h.blocks = found.blocks
      /\ IsHeader(h)
      /\ h.nbFrames \in Nat /\ h.dirs \in Seq(Directories)
Header ==
  /\ pc \in {"idle", "search", "check", "muxing"} => h = NoHeader
  /\ pc = "create" => Options \in OptionsTried(Job.options)
  /\ pc \in Writing => FromFinding
  /\ pc = "packets" => Len(h.dirs) <= 1 /\ (h.nbFrames = 0 => h.dirs = <<>>)
  /\ pc = "mark" => Len(h.dirs) <= 4

\* A script under construction has no marker yet, and no stream of the run reads it.
NotYetMarked(f) == Len(f) >= HeaderLength /\ f[3] = 0
UnderConstruction ==
  /\ pc \in {"create"} \union Writing => Job.source \in Sources
  /\ pc \in Writing => Name \in DOMAIN files /\ NotYetMarked(files[Name])
  /\ pc = "parse" => Name \in DOMAIN files /\ Marked(files[Name])
IsFree(name) == \A i \in 1..Len(used) : names[i] # name
Reserved ==
  ~run.force => /\ pc = "check" => IsFree(Name) \/ IsAValidEsmsFile(Name, ComputeFlags(Job.options))
                /\ pc \in {"create"} \union Writing => IsFree(Name)

Inv == Streams /\ Contents /\ Parsed /\ Header /\ UnderConstruction /\ Reserved

LEMMA AsSequence == ASSUME NEW S, NEW s \in Seq(S) PROVE IsASequence(s)
<1>1. Len(s) \in Nat /\ DOMAIN s = 1..Len(s) /\ s = [i \in 1..Len(s) |-> s[i]] OBVIOUS
<1>2. \A i \in 1..Len(s) : s[i] \in ToSet(s) BY <1>1 DEF ToSet
<1> QED BY <1>1, <1>2 DEF IsASequence

\* There are more names to try than streams: the one that is found is free, or its script valid.
LEMMA FindsAcceptable ==
  ASSUME IsASequence(names), Len(names) < MaxIncrement, NEW job
  PROVE  IsAcceptable(FindValidEsScript(job), job)
<1> DEFINE tried == Candidates(job)
           n == Len(tried)
           given == IF job.script = NoScript THEN <<>> ELSE <<job.script>>
           own == [i \in 1..MaxIncrement |-> GenEsmsFilename(job.source, i - 1)]
           Good == {i \in 1..n : IsAcceptable(tried[i], job)}
           First(i) == /\ i = n \/ IsAcceptable(tried[i], job)
                       /\ \A j \in 1..(i - 1) : ~IsAcceptable(tried[j], job)
<1>1. MaxIncrement \in Nat BY RunsAssumption
<1>2. /\ DOMAIN tried = 1..n /\ n \in Nat /\ n >= MaxIncrement
      /\ \A k \in 1..MaxIncrement : \E i \in 1..n : tried[i] = GenEsmsFilename(job.source, k - 1)
  <2> DEFINE S == {job.script} \union {GenEsmsFilename(job.source, i - 1) : i \in 1..MaxIncrement}
             g == Len(given)
  <2>1. given \in Seq(S) /\ g \in Nat
    <3>1. job.script \in S OBVIOUS
    <3> HIDE DEF S
    <3>2. <<>> \in Seq(S) /\ <<job.script>> \in Seq(S) BY <3>1
    <3>3. given \in Seq(S) BY <3>2
    <3> QED BY <3>3
  <2>2. own \in Seq(S) /\ Len(own) = MaxIncrement
    <3>1. \A i \in 1..MaxIncrement : GenEsmsFilename(job.source, i - 1) \in S OBVIOUS
    <3> HIDE DEF S
    <3> QED BY <1>1, <3>1
  <2>3. \A i \in 1..MaxIncrement : own[i] = GenEsmsFilename(job.source, i - 1) OBVIOUS
  <2>4. tried = given \o own BY DEF Candidates
  <2> HIDE DEF given, own, tried, S
  <2>5. /\ given \o own \in Seq(S) /\ Len(given \o own) = g + Len(own)
        /\ \A i \in 1..g + Len(own) : (given \o own)[i] = IF i <= g THEN given[i] ELSE own[i - g]
    BY <2>1, <2>2, ConcatProperties
  <2>6. tried \in Seq(S) /\ n = g + MaxIncrement
        /\ \A i \in 1..n : tried[i] = IF i <= g THEN given[i] ELSE own[i - g]
    BY <2>2, <2>4, <2>5
  <2> HIDE DEF n, g
  <2>7. DOMAIN tried = 1..n /\ n \in Nat /\ n >= MaxIncrement
    <3>1. DOMAIN tried = 1..Len(tried) /\ Len(tried) \in Nat BY <2>6
    <3> QED BY <1>1, <2>1, <2>6, <3>1 DEF n
  <2>8. ASSUME NEW k \in 1..MaxIncrement
        PROVE  \E i \in 1..n : tried[i] = GenEsmsFilename(job.source, k - 1)
    <3>1. g + k \in 1..n /\ ~(g + k <= g) /\ (g + k) - g = k BY <1>1, <2>1, <2>6
    <3>2. tried[g + k] = own[k] BY <2>6, <3>1
    <3> QED BY <2>3, <3>1, <3>2
  <2> QED BY <2>7, <2>8
<1> HIDE DEF tried, n, given, own
<1>3. Good # {}
  <2>1. SUFFICES ASSUME \A i \in 1..n : \E j \in DOMAIN names : names[j] = tried[i]
                 PROVE  FALSE
    BY DEF IsAcceptable, IsSharedUsedScript
  <2>2. \A k \in 1..MaxIncrement : \E j \in DOMAIN names : names[j] = GenEsmsFilename(job.source, k - 1)
    BY <1>2, <2>1
  <2> DEFINE f == [k \in 1..MaxIncrement |-> CHOOSE j \in DOMAIN names : names[j] = GenEsmsFilename(job.source, k - 1)]
             m == Len(names)
  <2>3. m \in Nat /\ DOMAIN names = 1..m BY DEF IsASequence
  <2>4. \A k \in 1..MaxIncrement : f[k] \in 1..m /\ names[f[k]] = GenEsmsFilename(job.source, k - 1)
    BY <2>2, <2>3
  <2>5. f \in [1..MaxIncrement -> 1..m] BY <2>4
  <2>6. /\ IsFiniteSet(1..MaxIncrement) /\ Cardinality(1..MaxIncrement) = MaxIncrement
        /\ IsFiniteSet(1..m) /\ Cardinality(1..m) = m
    <3>1. \A b \in Nat : IsFiniteSet(1..b) /\ Cardinality(1..b) = b BY FS_Interval
    <3> QED BY <1>1, <2>3, <3>1
  <2> HIDE DEF f
  <2>7. m < MaxIncrement OBVIOUS
  <2> HIDE DEF m
  <2>8. PICK x, y \in 1..MaxIncrement : x # y /\ f[x] = f[y]
    BY <2>5, <2>6, <2>7, FS_PigeonHole
  <2>9. GenEsmsFilename(job.source, x - 1) = GenEsmsFilename(job.source, y - 1) BY <2>4, <2>8
  <2>10. x - 1 = y - 1 BY <2>9 DEF GenEsmsFilename
  <2> QED BY <1>1, <2>8, <2>10
<1>4. PICK i \in Good : \A j \in Good : i <= j
  <2>1. Good \in SUBSET Nat OBVIOUS
  <2> HIDE DEF Good
  <2> QED BY <1>3, <2>1, Smallest
<1>5. i \in 1..n /\ IsAcceptable(tried[i], job) OBVIOUS
<1>6. \A j \in 1..(i - 1) : ~IsAcceptable(tried[j], job)
  <2> SUFFICES ASSUME NEW j \in 1..(i - 1), IsAcceptable(tried[j], job) PROVE FALSE OBVIOUS
  <2>1. j \in 1..n /\ ~(i <= j) BY <1>2, <1>5
  <2> QED BY <1>4, <2>1
<1> DEFINE c == CHOOSE k \in DOMAIN tried : First(k)
<1>7. c \in 1..n /\ First(c)
  <2>1. i \in DOMAIN tried /\ First(i) BY <1>2, <1>5, <1>6
  <2> HIDE DEF First
  <2> QED BY <1>2, <2>1
<1>8. FindValidEsScript(job) = tried[c] BY DEF FindValidEsScript, tried, n
<1> HIDE DEF c
<1>9. IsAcceptable(tried[c], job)
  <2>1. CASE c = n
    <3>1. i = c \/ i \in 1..(c - 1) BY <1>2, <1>5, <1>7, <2>1
    <3> QED BY <1>5, <1>7, <3>1
  <2>2. CASE c # n BY <1>7, <2>2
  <2> QED BY <2>1, <2>2
<1> QED BY <1>8, <1>9

LEMMA StartsRight == Init => Inv
<1> SUFFICES ASSUME Init PROVE Inv OBVIOUS
<1>1. Streams
  <2>1. IsASequence(<<>>) /\ <<>> \in Seq(Seq(Byte)) BY DEF IsASequence
  <2>2. run.jobs = NoJobs BY DEF Init
  <2> QED BY <2>1, <2>2 DEF Streams, Init, Working, Writing
<1>2. Contents
  <2>1. ASSUME NEW s \in Sources PROVE disk[s] \in Editions[s]
    <3>1. \E c \in Editions[s] : c # NoFile BY SourcesAssumption DEF NoFile
    <3> QED BY <3>1 DEF Init
  <2>2. disk = [s \in Sources |-> disk[s]] BY DEF Init
  <2>3. disk \in [Sources -> UNION {Editions[s] : s \in Sources}] BY <2>1, <2>2
  <2> QED BY <2>1, <2>3 DEF Contents, Init
<1>3. Parsed BY DEF Parsed, Init
<1>4. Header BY DEF Header, Init, Writing
<1>5. UnderConstruction BY DEF UnderConstruction, Init, Writing
<1>6. Reserved BY DEF Reserved, Init, Writing
<1> QED BY <1>1, <1>2, <1>3, <1>4, <1>5, <1>6 DEF Inv

\* While a run works, its current stream is one of its jobs, and what the analyser finds is sound.
LEMMA CurrentJob ==
  ASSUME Inv, pc \in {"search"} \union Working
  PROVE  /\ run \in Runs /\ Len(run.jobs) <= MaxIncrement
         /\ Len(used) \in Nat /\ Cur = Len(used) + 1 /\ Cur \in 1..Len(run.jobs)
         /\ Job \in {run.jobs[i] : i \in 1..Len(run.jobs)}
         /\ Job.source \in Sources \union {0}
<1>1. run \in Runs /\ Len(used) < Len(run.jobs) /\ Len(used) \in Nat
  BY DEF Inv, Streams, Working, Writing
<1>2. Len(run.jobs) \in 1..MaxIncrement /\ MaxIncrement \in Nat BY <1>1, RunsAssumption
<1>3. Cur = Len(used) + 1 /\ Cur \in 1..Len(run.jobs) BY <1>1, <1>2 DEF Cur
<1>4. run.jobs[Cur].source \in Sources \union {0} BY <1>1, <1>3, RunsAssumption
<1> QED BY <1>1, <1>2, <1>3, <1>4 DEF Job

LEMMA FoundSound ==
  ASSUME Inv, pc \in Working, Job.source \in Sources, NEW o \in OptionsTried(Job.options)
  PROVE  IsFinding(Finding(o))
<1>1. run \in Runs /\ Job \in {run.jobs[i] : i \in 1..Len(run.jobs)} BY CurrentJob
<1>2. Job.source # 0 BY SourcesAssumption
<1>3. disk[Job.source] \in Editions[Job.source] BY DEF Inv, Contents
<1> QED BY <1>1, <1>2, <1>3, AnalysisAssumption DEF Finding

-----------------------------------------------------------------------------
(* Each action keeps the invariant.                                         *)

\* The current stream is what it was as long as no stream is registered or parsed.
Same == run' = run /\ names' = names /\ used' = used
LEMMA SameStream ==
  ASSUME Same
  PROVE  /\ Cur' = Cur /\ Job' = Job /\ Name' = Name
         /\ IsFree(Name)' <=> IsFree(Name)
BY DEF Same, Cur, Job, Name, IsFree

\* Nothing happens to the scripts of other streams.
OnlyThisScript == /\ DOMAIN files \subseteq DOMAIN files'
                  /\ \A n \in DOMAIN files : n # Name => files'[n] = files[n]
LEMMA ParsedKept ==
  ASSUME Inv, Same, OnlyThisScript, ~run.force => IsFree(Name)
  PROVE  Parsed'
<1>1. Parsed BY DEF Inv
<1>2. ASSUME NEW i \in 1..Len(used)
      PROVE  /\ Marked(used[i]) /\ names[i] \in DOMAIN files'
             /\ ~run.force => files'[names[i]] = used[i]
  BY <1>1, <1>2 DEF Parsed, OnlyThisScript, IsFree
<1> QED BY <1>2 DEF Parsed, Same, Marked

LEMMA ParsedSame ==
  ASSUME Inv, Same, files' = files
  PROVE  Parsed'
<1>1. Parsed BY DEF Inv
<1> QED BY <1>1 DEF Parsed, Same, Marked

LEMMA EditKeeps == ASSUME Inv, NEW s \in Sources, EditSource(s) PROVE Inv'
<1>1. Streams /\ Contents /\ Header BY DEF Inv
<1>2. pc = "idle" /\ pc' = pc /\ files' = files /\ Same /\ h' = h BY DEF EditSource, Same
<1>3. PICK c \in Editions[s] : disk' = [disk EXCEPT ![s] = c] BY DEF EditSource
<1>4. Streams' BY <1>1, <1>2 DEF Streams, Same, IsASequence
<1>5. Contents'
  <2>1. disk' = [t \in Sources |-> IF t = s THEN c ELSE disk[t]] BY <1>1, <1>3 DEF Contents
  <2>2. \A t \in Sources : disk'[t] \in Editions[t] BY <1>1, <2>1 DEF Contents
  <2>3. disk' \in [Sources -> UNION {Editions[t] : t \in Sources}] BY <2>1, <2>2
  <2> QED BY <1>1, <1>2, <2>2, <2>3 DEF Contents
<1>6. Parsed' BY <1>2, ParsedSame
<1>7. Header' BY <1>1, <1>2 DEF Header, Writing
<1>8. UnderConstruction' /\ Reserved' BY <1>2 DEF UnderConstruction, Reserved, Writing
<1> QED BY <1>4, <1>5, <1>6, <1>7, <1>8 DEF Inv

LEMMA StartKeeps == ASSUME Inv, NEW r \in Runs, StartRun(r) PROVE Inv'
<1>1. Streams /\ Contents /\ Header BY DEF Inv
<1>2. /\ pc = "idle" /\ pc' = "search" /\ run' = r /\ names' = <<>> /\ used' = <<>>
      /\ files' = files /\ disk' = disk /\ h' = h
  BY DEF StartRun
<1>3. Streams'
  <2>1. IsASequence(<<>>) /\ <<>> \in Seq(Seq(Byte)) BY DEF IsASequence
  <2>2. Len(r.jobs) \in 1..MaxIncrement /\ MaxIncrement \in Nat BY RunsAssumption
  <2> QED BY <1>2, <2>1, <2>2 DEF Streams, Working, Writing
<1>4. Contents' BY <1>1, <1>2 DEF Contents
<1>5. Parsed' BY <1>2 DEF Parsed
<1>6. Header' BY <1>1, <1>2 DEF Header, Writing
<1>7. UnderConstruction' /\ Reserved' BY <1>2 DEF UnderConstruction, Reserved, Writing
<1> QED BY <1>3, <1>4, <1>5, <1>6, <1>7 DEF Inv

LEMMA SearchKeeps == ASSUME Inv, Search PROVE Inv'
<1> DEFINE x == FindValidEsScript(Job)
<1>1. Streams /\ Contents /\ Header /\ Parsed BY DEF Inv
<1>2. /\ pc = "search" /\ pc' = "check" /\ run' = run /\ names' = Append(names, x) /\ used' = used
      /\ files' = files /\ disk' = disk /\ h' = h
  BY DEF Search
<1>3. /\ IsASequence(names) /\ Len(names) = Len(used) /\ Len(used) \in Nat /\ Len(names) \in Nat
      /\ Len(used) < Len(run.jobs) /\ Len(run.jobs) <= MaxIncrement /\ Cur = Len(used) + 1
      /\ Len(run.jobs) \in Nat /\ MaxIncrement \in Nat
  <2>1. run \in Runs /\ Cur = Len(used) + 1 /\ Len(used) \in Nat BY <1>2, CurrentJob
  <2>2. Len(run.jobs) \in 1..MaxIncrement /\ MaxIncrement \in Nat BY <2>1, RunsAssumption
  <2> QED BY <1>1, <1>2, <2>1, <2>2 DEF Streams
<1>4. IsAcceptable(x, Job) BY <1>3, FindsAcceptable
<1> HIDE DEF x
<1>5. /\ Len(names') = Len(names) + 1 /\ names'[Len(names) + 1] = x
      /\ \A i \in 1..Len(names) : names'[i] = names[i]
      /\ IsASequence(names')
  <2> DEFINE S == ToSet(names) \union {x}
  <2>1. names \in Seq(ToSet(names)) BY <1>3 DEF IsASequence
  <2>2. names \in Seq(S) /\ x \in S BY <2>1
  <2> HIDE DEF S
  <2>3. Append(names, x) \in Seq(S) BY <2>2
  <2>4. IsASequence(names') BY <1>2, <2>3, AsSequence
  <2> QED BY <1>2, <2>2, <2>4
<1>6. Cur' = Cur /\ Job' = Job /\ Name' = x BY <1>2, <1>3, <1>5 DEF Cur, Job, Name
<1>7. Streams'
  <2>1. run \in Runs BY <1>2, CurrentJob
  <2> QED BY <1>1, <1>2, <1>3, <1>5, <2>1 DEF Streams, Working, Writing
<1>8. Contents' BY <1>1, <1>2 DEF Contents
<1>9. Parsed'
  <2>1. \A i \in 1..Len(used) : names'[i] = names[i] BY <1>3, <1>5
  <2> QED BY <1>1, <1>2, <2>1 DEF Parsed, Marked
<1>10. Header' BY <1>1, <1>2 DEF Header, Writing
<1>11. UnderConstruction' BY <1>2 DEF UnderConstruction, Writing
<1>12. Reserved'
  <2>1. CASE ~IsSharedUsedScript(x)
    <3>1. \A i \in 1..Len(used) : names'[i] # x
      <4>1. DOMAIN names = 1..Len(used) BY <1>3 DEF IsASequence
      <4> QED BY <1>3, <1>5, <2>1, <4>1 DEF IsSharedUsedScript
    <3> QED BY <1>2, <1>6, <3>1 DEF Reserved, IsFree, Writing
  <2>2. CASE IsAValidEsmsFile(x, ComputeFlags(Job.options))
    <3>1. IsAValidEsmsFile(Name, ComputeFlags(Job.options))'
      BY <1>2, <1>6, <2>2 DEF IsAValidEsmsFile, IsValidSourceFile
    <3> QED BY <1>2, <3>1 DEF Reserved, Writing
  <2> QED BY <1>4, <2>1, <2>2 DEF IsAcceptable
<1> QED BY <1>7, <1>8, <1>9, <1>10, <1>11, <1>12 DEF Inv

LEMMA CheckKeeps == ASSUME Inv, CheckScriptFile PROVE Inv'
<1>1. Streams /\ Contents /\ Header /\ Parsed /\ Reserved BY DEF Inv
<1>2. /\ pc = "check" /\ Same /\ files' = files /\ disk' = disk /\ h' = h
      /\ pc' = IF ~MustGenerate THEN "parse" ELSE IF Job.source = 0 THEN "failed" ELSE "create"
  BY DEF CheckScriptFile, Same
<1>3. Cur' = Cur /\ Job' = Job /\ Name' = Name /\ (IsFree(Name)' <=> IsFree(Name)) BY <1>2, SameStream
<1>4. pc' \in {"parse", "failed", "create"} BY <1>2
<1>5. Streams'
  <2>1. Len(names) = Len(used) + 1 /\ Len(used) < Len(run.jobs) BY <1>1, <1>2 DEF Streams, Working
  <2> QED BY <1>1, <1>2, <1>4, <2>1 DEF Streams, Same, IsASequence, Working, Writing
<1>6. Contents' BY <1>1, <1>2 DEF Contents
<1>7. Parsed' BY <1>2, ParsedSame
<1>8. Header'
  <2>1. h = NoHeader BY <1>1, <1>2 DEF Header
  <2>2. (Options \in OptionsTried(Job.options))' BY <1>2, <1>3, <2>1 DEF Options, OptionsTried
  <2> QED BY <1>4, <2>2 DEF Header, Writing
<1>9. UnderConstruction'
  <2>1. pc' = "create" => Job.source \in Sources
    <3>1. Job.source \in Sources \union {0} BY <1>2, CurrentJob DEF Working
    <3> QED BY <1>2, <3>1
  <2>2. pc' = "parse" => Name \in DOMAIN files /\ Marked(files[Name])
    BY <1>2, HeaderBytes DEF MustGenerate, IsAValidEsmsFile, Marked
  <2> QED BY <1>2, <1>3, <1>4, <2>1, <2>2 DEF UnderConstruction, Writing
<1>10. Reserved'
  <2>1. ~run.force /\ pc' = "create" => IsFree(Name) BY <1>1, <1>2 DEF Reserved, MustGenerate
  <2> QED BY <1>2, <1>3, <1>4, <2>1 DEF Reserved, Writing, Same
<1> QED BY <1>5, <1>6, <1>7, <1>8, <1>9, <1>10 DEF Inv

LEMMA CreateKeeps == ASSUME Inv, CreateScript PROVE Inv'
<1> DEFINE found == Finding(Options)
           paths == Paths(Options)
           sources == [i \in DOMAIN paths |-> [name |-> paths[i], crc |-> disk[paths[i]].head]]
<1>1. Streams /\ Contents /\ Header /\ Parsed /\ UnderConstruction /\ Reserved BY DEF Inv
<1>2. /\ pc = "create" /\ pc' = "packets" /\ Same /\ disk' = disk
      /\ h' = [coding |-> found.coding, options |-> Options, flags |-> ComputeFlags(Options),
               ptsRef |-> found.ptsRef, endPts |-> found.endPts, bitrate |-> found.bitrate,
               sources |-> sources, blocks |-> found.blocks, fmt |-> found.fmt, dirs |-> <<>>, nbFrames |-> 0]
      /\ files' = [n \in DOMAIN files \union {Name} |-> IF n = Name THEN WriteEsmsHeader ELSE files[n]]
  BY DEF CreateScript, Same
<1>3. Cur' = Cur /\ Job' = Job /\ Name' = Name /\ (IsFree(Name)' <=> IsFree(Name)) BY <1>2, SameStream
<1>4. pc \in Working BY <1>2 DEF Working
<1>5. Job.source \in Sources /\ Options \in OptionsTried(Job.options)
  BY <1>1, <1>2 DEF Header, UnderConstruction
<1>6. IsFinding(found) BY <1>4, <1>5, FoundSound
<1>7. Finding(h.options)' = found
  <2>1. h'.options = Options BY <1>2
  <2> QED BY <1>2, <1>3, <2>1 DEF Finding
<1>8. sources \in Seq(SourceRecords)
  <2>1. found.pictures \in Seq(Sources) BY <1>6 DEF IsFinding
  <2>2. paths \in Seq(Sources)
    <3>1. <<Job.source>> \in Seq(Sources) BY <1>5
    <3> QED BY <2>1, <3>1, ConcatProperties DEF Paths
  <2> HIDE DEF paths
  <2>3. DOMAIN paths = 1..Len(paths) /\ Len(paths) \in Nat BY <2>2
  <2>4. \A i \in DOMAIN paths : [name |-> paths[i], crc |-> disk[paths[i]].head] \in SourceRecords
    <3> SUFFICES ASSUME NEW i \in DOMAIN paths
                 PROVE  [name |-> paths[i], crc |-> disk[paths[i]].head] \in SourceRecords
      OBVIOUS
    <3>1. paths[i] \in Sources BY <2>2
    <3>2. paths[i] \in Byte BY <3>1, SourcesAssumption
    <3>3. disk[paths[i]] \in Editions[paths[i]] BY <1>1, <3>1 DEF Contents
    <3>4. disk[paths[i]].head \in Int BY <3>1, <3>3, SourcesAssumption
    <3> QED BY <3>2, <3>4 DEF SourceRecords
  <2> QED BY <2>3, <2>4
<1>9. ComputeFlags(Options) \in Int
  <2> DEFINE a == Flag(Options.secondary)
             b == Flag(Options.fpsChange # 0)
  <2>1. a \in 0..1 /\ b \in 0..1 BY Flags
  <2>2. ComputeFlags(Options) = a + 2 * b BY DEF ComputeFlags
  <2> HIDE DEF a, b
  <2> QED BY <2>1, <2>2
<1> HIDE DEF found, sources
<1>10. Streams'
  <2>1. Len(names) = Len(used) + 1 /\ Len(used) < Len(run.jobs) BY <1>1, <1>4 DEF Streams
  <2> QED BY <1>1, <1>2, <2>1 DEF Streams, Same, IsASequence, Working, Writing
<1>11. Contents' BY <1>1, <1>2, HeaderBytes DEF Contents
<1>12. Parsed'
  <2>1. OnlyThisScript BY <1>2 DEF OnlyThisScript
  <2>2. ~run.force => IsFree(Name) BY <1>1, <1>2 DEF Reserved
  <2> QED BY <1>2, <2>1, <2>2, ParsedKept
<1>13. FromFinding'
  <2>1. /\ h'.coding = found.coding /\ h'.fmt = found.fmt /\ h'.blocks = found.blocks /\ h'.options = Options
        /\ h'.nbFrames = 0 /\ h'.dirs = <<>> /\ h'.sources = sources /\ h'.flags = ComputeFlags(Options)
        /\ h'.ptsRef = found.ptsRef /\ h'.endPts = found.endPts /\ h'.bitrate = found.bitrate
        /\ DOMAIN h' = {"coding", "options", "flags", "ptsRef", "endPts", "bitrate", "sources", "blocks", "fmt", "dirs",
                        "nbFrames"}
    BY <1>2
  <2>2. h'.nbFrames \in Nat /\ h'.dirs \in Seq(Directories) BY <2>1
  <2>3. IsHeader(h')
    <3>1. /\ found.coding \in Codings /\ found.blocks \in Seq(Seq(Byte)) /\ IsFormat(found.fmt, found.coding)
          /\ found.ptsRef \in Int /\ found.endPts \in Int /\ found.bitrate \in Int
      BY <1>6 DEF IsFinding, Codings
    <3> QED BY <1>8, <1>9, <2>1, <3>1 DEF IsHeader
  <2>4. h'.options \in OptionsTried(Job'.options) BY <1>3, <1>5, <2>1
  <2> QED BY <1>7, <2>1, <2>2, <2>3, <2>4 DEF FromFinding
<1>14. Header'
  <2>1. h'.dirs = <<>> /\ Len(<<>>) = 0 BY <1>2
  <2> QED BY <1>2, <1>13, <2>1 DEF Header, Writing
<1>15. UnderConstruction'
  <2>1. Name \in DOMAIN files' /\ files'[Name] = WriteEsmsHeader BY <1>2
  <2>2. NotYetMarked(WriteEsmsHeader) BY HeaderBytes DEF NotYetMarked
  <2> QED BY <1>2, <1>3, <1>5, <2>1, <2>2 DEF UnderConstruction, Writing, NotYetMarked
<1>16. Reserved' BY <1>1, <1>2, <1>3 DEF Reserved, Writing, Same
<1> QED BY <1>10, <1>11, <1>12, <1>14, <1>15, <1>16 DEF Inv

\* A run that fails leaves the scripts as they are.
LEMMA FailingKeeps ==
  ASSUME Inv, pc \in Working, pc' = "failed", Same, disk' = disk, files' = files
  PROVE  Inv'
<1>1. Streams /\ Contents BY DEF Inv
<1>2. Streams'
  <2>1. Len(names) = Len(used) + 1 BY <1>1 DEF Streams
  <2>2. run \in Runs BY CurrentJob
  <2> QED BY <1>1, <2>1, <2>2 DEF Streams, Same, IsASequence, Working, Writing
<1>3. Contents' BY <1>1 DEF Contents
<1>4. Parsed' BY ParsedSame
<1>5. Header' /\ UnderConstruction' /\ Reserved' BY DEF Header, UnderConstruction, Reserved, Writing
<1> QED BY <1>2, <1>3, <1>4, <1>5 DEF Inv

\* What is appended to the script under construction.
LEMMA AppendingKeeps ==
  ASSUME Inv, pc \in Writing, pc' \in Writing, Same, disk' = disk, NEW t \in Seq(Byte),
         files' = [files EXCEPT ![Name] = files[Name] \o t]
  PROVE  Streams' /\ Contents' /\ Parsed' /\ UnderConstruction' /\ Reserved'
<1>1. Streams /\ Contents /\ Parsed /\ UnderConstruction /\ Reserved BY DEF Inv
<1>2. Cur' = Cur /\ Job' = Job /\ Name' = Name /\ (IsFree(Name)' <=> IsFree(Name)) BY SameStream
<1>3. pc \in Working /\ pc' \in Working BY DEF Working
<1>4. Name \in DOMAIN files /\ NotYetMarked(files[Name]) /\ files[Name] \in Seq(Byte)
  BY <1>1 DEF UnderConstruction, Contents
<1>5. /\ DOMAIN files' = DOMAIN files /\ files'[Name] = files[Name] \o t
      /\ \A n \in DOMAIN files : n # Name => files'[n] = files[n]
  BY <1>4
<1>6. files'[Name] \in Seq(Byte) /\ NotYetMarked(files'[Name])
  <2>1. Len(files[Name]) >= 3 /\ Len(files[Name]) \in Nat BY <1>4, HeaderBytes DEF NotYetMarked
  <2>2. /\ files[Name] \o t \in Seq(Byte) /\ Len(files[Name] \o t) >= Len(files[Name])
        /\ (files[Name] \o t)[3] = files[Name][3]
    BY <1>4, <2>1, Extended
  <2>3. Len(files[Name] \o t) \in Nat BY <2>2
  <2> QED BY <1>4, <1>5, <2>1, <2>2, <2>3, HeaderBytes DEF NotYetMarked
<1>7. Streams'
  <2>1. Len(names) = Len(used) + 1 /\ Len(used) < Len(run.jobs) /\ run \in Runs
    BY <1>1, <1>3, CurrentJob DEF Streams
  <2> QED BY <1>1, <1>3, <2>1 DEF Streams, Same, IsASequence, Working, Writing
<1>8. Contents'
  <2>1. \A n \in DOMAIN files' : files'[n] \in Seq(Byte) BY <1>1, <1>5, <1>6 DEF Contents
  <2> QED BY <1>1, <2>1 DEF Contents
<1>9. Parsed'
  <2>1. OnlyThisScript BY <1>5 DEF OnlyThisScript
  <2>2. ~run.force => IsFree(Name) BY <1>1 DEF Reserved
  <2> QED BY <2>1, <2>2, ParsedKept
<1>10. UnderConstruction'
  <2>1. pc' # "parse" /\ Job.source \in Sources BY <1>1 DEF UnderConstruction, Writing
  <2>2. NotYetMarked(files[Name])' BY <1>2, <1>6 DEF NotYetMarked
  <2> QED BY <1>2, <1>4, <1>5, <2>1, <2>2 DEF UnderConstruction
<1>11. Reserved'
  <2>1. ~run.force => IsFree(Name) BY <1>1 DEF Reserved
  <2>2. run' = run /\ pc' # "check" BY DEF Same, Writing
  <2> QED BY <1>2, <2>1, <2>2 DEF Reserved
<1> QED BY <1>7, <1>8, <1>9, <1>10, <1>11

\* A directory is added to those of the header.
LEMMA DirectoryAdded ==
  ASSUME NEW dirs \in Seq(Directories), NEW id \in 1..4, NEW f \in Seq(Byte)
  PROVE  AppendDir(dirs, id, f) \in Seq(Directories) /\ Len(AppendDir(dirs, id, f)) = Len(dirs) + 1
<1>1. [id |-> id, offset |-> Len(f)] \in Directories BY DEF Directories
<1> QED BY <1>1 DEF AppendDir

LEMMA PacketKeeps == ASSUME Inv, WritePacket PROVE Inv'
<1> DEFINE found == Finding(h.options)
           p == found.packets[h.nbFrames + 1]
           first == h.nbFrames = 0
           packet == WritePesPacket(h.coding, p, h.blocks)
           start == IF first THEN <<PesMagic>> ELSE <<>>
           newDirs == IF first THEN AppendDir(h.dirs, DirPesCutting, files[Name]) ELSE h.dirs
<1>1. Contents /\ Header /\ UnderConstruction BY DEF Inv
<1>2. /\ pc = "packets" /\ pc' = pc /\ Same /\ disk' = disk
      /\ h.nbFrames < Len(found.packets)
      /\ h' = [h EXCEPT !.nbFrames = h.nbFrames + 1, !.dirs = newDirs]
      /\ files' = [files EXCEPT ![Name] = files[Name] \o start \o packet]
  BY DEF WritePacket, Same
<1>3. Cur' = Cur /\ Job' = Job /\ Name' = Name BY <1>2, SameStream
<1>4. pc \in Writing /\ pc \in Working BY <1>2 DEF Writing, Working
<1>5. FromFinding /\ Job.source \in Sources /\ Name \in DOMAIN files /\ files[Name] \in Seq(Byte)
  BY <1>1, <1>4 DEF Header, UnderConstruction, Contents, Writing
<1>6. IsFinding(found) BY <1>4, <1>5, FoundSound DEF FromFinding
<1>7. packet \in Seq(Byte)
  <2>1. found.packets \in Seq(ToSet(found.packets)) BY <1>6 DEF IsFinding
  <2>2. h.nbFrames \in Nat BY <1>5 DEF FromFinding
  <2>3. h.nbFrames + 1 \in DOMAIN found.packets BY <1>2, <2>1, <2>2
  <2>4. IsPacket(p, found.blocks) BY <1>6, <2>3 DEF IsFinding
  <2>5. h.blocks = found.blocks /\ h.blocks \in Seq(Seq(Byte)) /\ h.coding \in Codings
    BY <1>5 DEF FromFinding, IsHeader
  <2> HIDE DEF p, found
  <2> QED BY <2>4, <2>5, PacketBytes
<1>8. start \in Seq(Byte)
  <2>1. <<PesMagic>> \in Seq(Byte) BY Small DEF PesMagic
  <2> QED BY <2>1
<1> HIDE DEF packet, start, p, found
<1>9. Streams' /\ Contents' /\ Parsed' /\ UnderConstruction' /\ Reserved'
  <2>1. start \o packet \in Seq(Byte) BY <1>7, <1>8, Joined
  <2>2. (files[Name] \o start) \o packet = files[Name] \o (start \o packet)
    BY <1>5, <1>7, <1>8, Associated
  <2>3. files' = [files EXCEPT ![Name] = files[Name] \o (start \o packet)] BY <1>2, <2>2
  <2> QED BY <1>2, <1>4, <2>1, <2>3, AppendingKeeps
<1>10. newDirs \in Seq(Directories) /\ Len(newDirs) <= 1
  <2>1. h.dirs \in Seq(Directories) /\ Len(h.dirs) <= 1 /\ (first => h.dirs = <<>>)
    BY <1>1, <1>2, <1>5 DEF Header, FromFinding
  <2>2. CASE ~first BY <2>1, <2>2
  <2>3. CASE first
    <3>1. DirPesCutting \in 1..4 BY DEF DirPesCutting
    <3>2. /\ AppendDir(h.dirs, DirPesCutting, files[Name]) \in Seq(Directories)
          /\ Len(AppendDir(h.dirs, DirPesCutting, files[Name])) = Len(h.dirs) + 1
      BY <1>5, <2>1, <3>1, DirectoryAdded
    <3>3. Len(h.dirs) = 0 BY <2>1, <2>3
    <3>4. newDirs = AppendDir(h.dirs, DirPesCutting, files[Name]) BY <2>3
    <3> HIDE DEF newDirs
    <3>5. newDirs \in Seq(Directories) BY <3>2, <3>4, Zenon
    <3>6. Len(newDirs) = 0 + 1 BY <3>2, <3>3, <3>4, Zenon
    <3> QED BY <3>5, <3>6
  <2> QED BY <2>2, <2>3
<1> HIDE DEF newDirs
<1>11. FromFinding' /\ h'.dirs = newDirs /\ h'.nbFrames \in Nat \ {0}
  <2>1. /\ DOMAIN h' = DOMAIN h /\ h'.dirs = newDirs /\ h'.nbFrames = h.nbFrames + 1
        /\ h'.coding = h.coding /\ h'.options = h.options /\ h'.flags = h.flags /\ h'.ptsRef = h.ptsRef
        /\ h'.endPts = h.endPts /\ h'.bitrate = h.bitrate /\ h'.sources = h.sources /\ h'.blocks = h.blocks
        /\ h'.fmt = h.fmt
    BY <1>2, <1>5 DEF FromFinding
  <2>2. h'.nbFrames \in Nat \ {0} /\ h'.dirs \in Seq(Directories) BY <1>5, <1>10, <2>1 DEF FromFinding
  <2>3. IsHeader(h') BY <1>5, <2>1 DEF FromFinding, IsHeader
  <2>4. Finding(h.options)' = found BY <1>2, <1>3, <2>1 DEF Finding, found
  <2>5. h'.options \in OptionsTried(Job'.options) BY <1>3, <1>5, <2>1 DEF FromFinding
  <2> QED BY <1>5, <2>1, <2>2, <2>3, <2>4, <2>5 DEF FromFinding, found
<1>12. Header' BY <1>2, <1>10, <1>11 DEF Header, Writing
<1> QED BY <1>9, <1>12 DEF Inv

LEMMA RestartKeeps == ASSUME Inv, Restart PROVE Inv'
<1>1. Streams /\ Contents /\ Header /\ UnderConstruction /\ Reserved BY DEF Inv
<1>2. /\ pc = "packets" /\ pc' = "create" /\ Same /\ disk' = disk /\ files' = files
      /\ h' = [h EXCEPT !.options.double = TRUE]
  BY DEF Restart, Same
<1>3. Cur' = Cur /\ Job' = Job /\ Name' = Name /\ (IsFree(Name)' <=> IsFree(Name)) BY <1>2, SameStream
<1>4. FromFinding /\ pc \in Working BY <1>1, <1>2 DEF Header, Writing, Working
<1>5. Streams'
  <2>1. Len(names) = Len(used) + 1 /\ Len(used) < Len(run.jobs) /\ run \in Runs
    BY <1>1, <1>4, CurrentJob DEF Streams
  <2> QED BY <1>1, <1>2, <2>1 DEF Streams, Same, IsASequence, Working, Writing
<1>6. Contents' BY <1>1, <1>2 DEF Contents
<1>7. Parsed' BY <1>2, ParsedSame
<1>8. Header'
  <2>1. h'.options = [h.options EXCEPT !.double = TRUE] BY <1>2, <1>4 DEF FromFinding
  <2>2. h.options \in OptionsTried(Job.options) BY <1>4 DEF FromFinding
  <2>3. [h.options EXCEPT !.double = TRUE] \in OptionsTried(Job.options)
    <3>1. CASE h.options = Job.options BY <3>1 DEF OptionsTried
    <3>2. CASE h.options = [Job.options EXCEPT !.double = TRUE]
      <4>1. [h.options EXCEPT !.double = TRUE] = h.options BY <3>2
      <4> QED BY <2>2, <4>1
    <3> QED BY <2>2, <3>1, <3>2 DEF OptionsTried
  <2>4. Job.options \in OptionsTried(Job.options) BY DEF OptionsTried
  <2>5. (Options \in OptionsTried(Job.options))'
    <3>1. (OptionsTried(Job.options))' = OptionsTried(Job.options) BY <1>3 DEF OptionsTried
    <3>2. Options' = Job.options \/ Options' = h'.options BY <1>3 DEF Options
    <3> QED BY <2>1, <2>3, <2>4, <3>1, <3>2
  <2> QED BY <1>2, <2>5 DEF Header, Writing
<1>9. UnderConstruction' BY <1>1, <1>2, <1>3 DEF UnderConstruction, Writing
<1>10. Reserved' BY <1>1, <1>2, <1>3 DEF Reserved, Writing, Same
<1> QED BY <1>5, <1>6, <1>7, <1>8, <1>9, <1>10 DEF Inv

LEMMA EndKeeps == ASSUME Inv, AddEsmsFileEnd PROVE Inv'
<1> DEFINE properties == WriteEsPropertiesSection(h)
           format == WriteEsCodecSpecParametersSection(h)
           blocks == IF h.blocks # <<>> THEN WriteDataBlocksDefSection(h.blocks) ELSE <<>>
           f0 == Append(files[Name], EndMarker)
           f1 == f0 \o properties
           f2 == f1 \o blocks
           d1 == AppendDir(h.dirs, DirProp, f0)
           d2 == IF h.blocks # <<>> THEN AppendDir(d1, DirDataBlk, f1) ELSE d1
           d3 == AppendDir(d2, DirFmtProp, f2)
<1>1. Contents /\ Header /\ UnderConstruction BY DEF Inv
<1>2. /\ pc = "packets" /\ pc' = "mark" /\ Same /\ disk' = disk
      /\ h' = [h EXCEPT !.dirs = d3]
      /\ files' = [files EXCEPT ![Name] = f2 \o format]
  BY DEF AddEsmsFileEnd, Same
<1>3. Cur' = Cur /\ Job' = Job /\ Name' = Name BY <1>2, SameStream
<1>4. pc \in Writing /\ pc' \in Writing BY <1>2 DEF Writing
<1>5. FromFinding /\ Name \in DOMAIN files /\ files[Name] \in Seq(Byte) /\ IsHeader(h)
  BY <1>1, <1>4 DEF Header, UnderConstruction, Contents, Writing, FromFinding
<1>6. properties \in Seq(Byte) /\ format \in Seq(Byte) BY <1>5, PropertiesBytes, FormatBytes
<1>7. blocks \in Seq(Byte)
  <2>1. WriteDataBlocksDefSection(h.blocks) \in Seq(Byte) BY <1>5, BlocksBytes DEF IsHeader
  <2> QED BY <2>1
<1>8. <<EndMarker>> \in Seq(Byte) /\ EndMarker \in Byte BY Small DEF EndMarker
<1> HIDE DEF properties, format, blocks
<1>9. f0 = files[Name] \o <<EndMarker>> /\ f0 \in Seq(Byte)
  BY <1>5, <1>8
<1> HIDE DEF f0
<1>10. f1 \in Seq(Byte) /\ f2 \in Seq(Byte) BY <1>6, <1>7, <1>9, Joined
<1>11. Streams' /\ Contents' /\ Parsed' /\ UnderConstruction' /\ Reserved'
  <2> DEFINE t == <<EndMarker>> \o (properties \o (blocks \o format))
  <2>1. t \in Seq(Byte) BY <1>6, <1>7, <1>8, Joined
  <2>2. f2 \o format = files[Name] \o t
    <3>1. f2 \o format = f1 \o (blocks \o format)
      BY <1>6, <1>7, <1>10, Associated, SMTT(30)
    <3>2. blocks \o format \in Seq(Byte) /\ properties \o (blocks \o format) \in Seq(Byte) BY <1>6, <1>7, Joined
    <3>3. f1 \o (blocks \o format) = f0 \o (properties \o (blocks \o format))
      <4> DEFINE rest == blocks \o format
      <4> HIDE DEF rest
      <4>1. rest \in Seq(Byte) BY <3>2 DEF rest
      <4>2. f0 \in Seq(Byte) /\ properties \in Seq(Byte) BY <1>6, <1>9
      <4>3. (f0 \o properties) \o rest = f0 \o (properties \o rest) BY <4>1, <4>2, Associated
      <4> QED BY <4>3 DEF rest
    <3>4. f0 \o (properties \o (blocks \o format)) = files[Name] \o t
      <4> DEFINE rest == properties \o (blocks \o format)
      <4> HIDE DEF rest
      <4>1. rest \in Seq(Byte) BY <3>2 DEF rest
      <4>2. (files[Name] \o <<EndMarker>>) \o rest = files[Name] \o (<<EndMarker>> \o rest)
        BY <1>5, <1>8, <4>1, Associated
      <4> QED BY <1>9, <4>2 DEF rest
    <3> QED BY <3>1, <3>3, <3>4
  <2> HIDE DEF t, f2
  <2>3. files' = [files EXCEPT ![Name] = files[Name] \o t] BY <1>2, <2>2
  <2> QED BY <1>2, <1>4, <2>1, <2>3, AppendingKeeps
<1>12. d3 \in Seq(Directories) /\ Len(d3) <= 4
  <2>1. h.dirs \in Seq(Directories) /\ Len(h.dirs) <= 1 /\ Len(h.dirs) \in Nat
    BY <1>1, <1>2, <1>5 DEF Header, FromFinding
  <2>2. DirProp \in 1..4 /\ DirDataBlk \in 1..4 /\ DirFmtProp \in 1..4 BY DEF DirProp, DirDataBlk, DirFmtProp
  <2> HIDE DEF f1, f2
  <2>3. d1 \in Seq(Directories) /\ Len(d1) = Len(h.dirs) + 1 BY <1>9, <2>1, <2>2, DirectoryAdded
  <2> HIDE DEF d1
  <2>4. AppendDir(d1, DirDataBlk, f1) \in Seq(Directories) /\ Len(AppendDir(d1, DirDataBlk, f1)) = Len(d1) + 1
    BY <1>10, <2>2, <2>3, DirectoryAdded
  <2>5. d2 \in Seq(Directories) /\ Len(d2) \in {Len(d1), Len(d1) + 1}
    <3>1. d2 = d1 \/ d2 = AppendDir(d1, DirDataBlk, f1) OBVIOUS
    <3> HIDE DEF d2
    <3> QED BY <2>3, <2>4, <3>1, Zenon
  <2> HIDE DEF d2
  <2>6. d3 \in Seq(Directories) /\ Len(d3) = Len(d2) + 1 BY <1>10, <2>2, <2>5, DirectoryAdded
  <2> HIDE DEF d3
  <2> QED BY <2>1, <2>3, <2>5, <2>6
<1> HIDE DEF d3
<1>13. FromFinding' /\ h'.dirs = d3
  <2>1. /\ DOMAIN h' = DOMAIN h /\ h'.dirs = d3 /\ h'.nbFrames = h.nbFrames
        /\ h'.coding = h.coding /\ h'.options = h.options /\ h'.flags = h.flags /\ h'.ptsRef = h.ptsRef
        /\ h'.endPts = h.endPts /\ h'.bitrate = h.bitrate /\ h'.sources = h.sources /\ h'.blocks = h.blocks
        /\ h'.fmt = h.fmt
    BY <1>2, <1>5 DEF FromFinding
  <2>2. h'.nbFrames \in Nat /\ h'.dirs \in Seq(Directories) BY <1>5, <1>12, <2>1 DEF FromFinding
  <2>3. IsHeader(h') BY <1>5, <2>1 DEF FromFinding, IsHeader
  <2>4. Finding(h.options)' = Finding(h.options) BY <1>2, <1>3, <2>1 DEF Finding
  <2>5. h'.options \in OptionsTried(Job'.options) BY <1>3, <1>5, <2>1 DEF FromFinding
  <2> QED BY <1>5, <2>1, <2>2, <2>3, <2>4, <2>5 DEF FromFinding
<1>14. Header' BY <1>2, <1>12, <1>13 DEF Header, Writing
<1> QED BY <1>11, <1>14 DEF Inv

LEMMA MarkKeeps == ASSUME Inv, MarkCompleted PROVE Inv'
<1>1. Streams /\ Contents /\ Header /\ UnderConstruction /\ Reserved BY DEF Inv
<1>2. /\ pc = "mark" /\ pc' = "parse" /\ Same /\ disk' = disk /\ h' = h
      /\ files' = [files EXCEPT ![Name] = UpdateEsmsHeader(files[Name], h.dirs)]
  BY DEF MarkCompleted, Same
<1>3. Cur' = Cur /\ Job' = Job /\ Name' = Name BY <1>2, SameStream
<1>4. pc \in Writing /\ pc \in Working BY <1>2 DEF Writing, Working
<1>5. Name \in DOMAIN files /\ files[Name] \in Seq(Byte) /\ Len(files[Name]) >= HeaderLength
  BY <1>1, <1>4 DEF UnderConstruction, Contents, NotYetMarked
<1>6. h.dirs \in Seq(Directories) /\ Len(h.dirs) <= 4 BY <1>1, <1>2, <1>4 DEF Header, FromFinding
<1>7. UpdateEsmsHeader(files[Name], h.dirs) \in Seq(Byte) /\ Marked(UpdateEsmsHeader(files[Name], h.dirs))
  BY <1>5, <1>6, UpdatedBytes DEF Marked
<1>8. /\ DOMAIN files' = DOMAIN files /\ files'[Name] = UpdateEsmsHeader(files[Name], h.dirs)
      /\ \A n \in DOMAIN files : n # Name => files'[n] = files[n]
  BY <1>2, <1>5
<1>9. Streams'
  <2>1. Len(names) = Len(used) + 1 /\ Len(used) < Len(run.jobs) /\ run \in Runs
    BY <1>1, <1>4, CurrentJob DEF Streams
  <2> QED BY <1>1, <1>2, <2>1 DEF Streams, Same, IsASequence, Working, Writing
<1>10. Contents'
  <2>1. \A n \in DOMAIN files' : files'[n] \in Seq(Byte) BY <1>1, <1>7, <1>8 DEF Contents
  <2> QED BY <1>1, <1>2, <2>1 DEF Contents
<1>11. Parsed'
  <2>1. OnlyThisScript BY <1>8 DEF OnlyThisScript
  <2>2. ~run.force => IsFree(Name) BY <1>1, <1>4 DEF Reserved
  <2> QED BY <1>2, <2>1, <2>2, ParsedKept
<1>12. Header' BY <1>2 DEF Header, Writing
<1>13. UnderConstruction'
  <2>1. Marked(files[Name])' BY <1>3, <1>7, <1>8 DEF Marked
  <2> QED BY <1>2, <1>3, <1>5, <1>8, <2>1 DEF UnderConstruction, Writing
<1>14. Reserved' BY <1>2 DEF Reserved, Writing
<1> QED BY <1>9, <1>10, <1>11, <1>12, <1>13, <1>14 DEF Inv

LEMMA UseKeeps == ASSUME Inv, UseScript PROVE Inv'
<1>1. Streams /\ Contents /\ Parsed /\ UnderConstruction BY DEF Inv
<1>2. /\ pc = "parse" /\ used' = Append(used, files[Name])
      /\ pc' = IF Cur = Len(run.jobs) THEN "muxing" ELSE "search"
      /\ h' = NoHeader /\ disk' = disk /\ files' = files /\ run' = run /\ names' = names
  BY DEF UseScript
<1>3. Name \in DOMAIN files /\ Marked(files[Name]) /\ files[Name] \in Seq(Byte)
  BY <1>1, <1>2 DEF UnderConstruction, Contents
<1>4. /\ used \in Seq(Seq(Byte)) /\ Len(used) \in Nat /\ Len(names) = Len(used) + 1
      /\ Len(used) < Len(run.jobs) /\ run \in Runs /\ Cur = Len(used) + 1 /\ Len(run.jobs) \in Nat
  <2>1. pc \in Working BY <1>2 DEF Working
  <2>2. run \in Runs /\ Cur = Len(used) + 1 /\ Len(used) \in Nat BY <2>1, CurrentJob
  <2>3. Len(run.jobs) \in Nat BY <2>2, RunsAssumption
  <2> QED BY <1>1, <2>1, <2>2, <2>3 DEF Streams
<1>5. /\ used' \in Seq(Seq(Byte)) /\ Len(used') = Len(used) + 1 /\ used'[Len(used) + 1] = files[Name]
      /\ \A i \in 1..Len(used) : used'[i] = used[i]
  BY <1>2, <1>3, <1>4
<1>6. Streams' BY <1>1, <1>2, <1>4, <1>5 DEF Streams, IsASequence, Working, Writing
<1>7. Contents' BY <1>1, <1>2 DEF Contents
<1>8. Parsed'
  <2>1. Name = names[Len(used) + 1] BY <1>4 DEF Name
  <2>2. \A i \in 1..Len(used') : i \in 1..Len(used) \/ i = Len(used) + 1 BY <1>4, <1>5
  <2>3. ASSUME NEW i \in 1..Len(used')
        PROVE  /\ Marked(used'[i]) /\ names[i] \in DOMAIN files
               /\ ~run.force => files[names[i]] = used'[i]
    <3>1. CASE i \in 1..Len(used) BY <1>1, <1>5, <3>1 DEF Parsed
    <3>2. CASE i = Len(used) + 1 BY <1>3, <1>5, <2>1, <3>2
    <3> QED BY <2>2, <3>1, <3>2
  <2> QED BY <1>2, <2>3 DEF Parsed, Marked
<1>9. Header' BY <1>2 DEF Header, Writing
<1>10. UnderConstruction' /\ Reserved' BY <1>2 DEF UnderConstruction, Reserved, Writing
<1> QED BY <1>6, <1>7, <1>8, <1>9, <1>10 DEF Inv

\* The end of a run.
LEMMA IdleKeeps ==
  ASSUME Inv, pc' = "idle", names' = <<>>, used' = <<>>, h' = NoHeader,
         disk' = disk, files' = files, run' = run
  PROVE  Inv'
<1>1. Streams /\ Contents BY DEF Inv
<1>2. Streams'
  <2>1. IsASequence(<<>>) /\ <<>> \in Seq(Seq(Byte)) BY DEF IsASequence
  <2> QED BY <1>1, <2>1 DEF Streams, Working, Writing
<1>3. Contents' BY <1>1 DEF Contents
<1>4. Parsed' BY DEF Parsed
<1>5. Header' /\ UnderConstruction' /\ Reserved' BY DEF Header, UnderConstruction, Reserved, Writing
<1> QED BY <1>2, <1>3, <1>4, <1>5 DEF Inv

LEMMA InterruptedKeeps == ASSUME Inv, Interrupted PROVE Inv'
<1>1. Streams /\ Contents /\ UnderConstruction /\ Reserved BY DEF Inv
<1>2. /\ pc \notin {"idle", "failed"} /\ pc' = "failed" /\ Same /\ disk' = disk
      /\ IF pc = "packets"
           THEN \E n \in {0, HeaderLength, Len(files[Name])} :
                  files' = [files EXCEPT ![Name] = SubSeq(files[Name], 1, n)]
           ELSE files' = files
  BY DEF Interrupted, Same
<1>3. Streams'
  <2>1. Len(names) \in {Len(used), Len(used) + 1} BY <1>1, <1>2 DEF Streams
  <2> QED BY <1>1, <1>2, <2>1 DEF Streams, Same, IsASequence, Working, Writing
<1>4. Contents' /\ Parsed'
  <2>1. CASE pc = "packets"
    <3>1. PICK n \in {0, HeaderLength, Len(files[Name])} :
            files' = [files EXCEPT ![Name] = SubSeq(files[Name], 1, n)]
      BY <1>2, <2>1
    <3>2. Name \in DOMAIN files /\ files[Name] \in Seq(Byte) /\ Len(files[Name]) >= HeaderLength
      BY <1>1, <2>1 DEF UnderConstruction, Contents, Writing, NotYetMarked
    <3>3. n \in Nat /\ n <= Len(files[Name]) BY <3>2, HeaderBytes
    <3>4. SubSeq(files[Name], 1, n) \in Seq(Byte) BY <3>2, <3>3
    <3>5. \A m \in DOMAIN files' : files'[m] \in Seq(Byte) BY <1>1, <3>1, <3>2, <3>4 DEF Contents
    <3>6. OnlyThisScript BY <3>1 DEF OnlyThisScript
    <3>7. ~run.force => IsFree(Name) BY <1>1, <2>1 DEF Reserved, Writing
    <3>8. Contents' BY <1>1, <1>2, <3>5 DEF Contents
    <3>9. Parsed' BY <1>2, <3>6, <3>7, ParsedKept
    <3> QED BY <3>8, <3>9
  <2>2. CASE pc # "packets"
    <3>1. files' = files BY <1>2, <2>2
    <3> QED BY <1>1, <1>2, <3>1, ParsedSame DEF Contents
  <2> QED BY <2>1, <2>2
<1>5. Header' /\ UnderConstruction' /\ Reserved' BY <1>2 DEF Header, UnderConstruction, Reserved, Writing
<1> QED BY <1>3, <1>4, <1>5 DEF Inv

LEMMA StepsRight == Inv /\ [Next]_vars => Inv'
<1> SUFFICES ASSUME Inv, [Next]_vars PROVE Inv' OBVIOUS
<1>1. ASSUME NEW s \in Sources, EditSource(s) PROVE Inv' BY <1>1, EditKeeps
<1>2. ASSUME NEW r \in Runs, StartRun(r) PROVE Inv' BY <1>2, StartKeeps
<1>3. CASE Search BY <1>3, SearchKeeps
<1>4. CASE CheckScriptFile BY <1>4, CheckKeeps
<1>5. CASE CreateScript BY <1>5, CreateKeeps
<1>6. CASE CreateScriptFails BY <1>6, FailingKeeps DEF CreateScriptFails, Same, Working
<1>7. CASE WritePacket BY <1>7, PacketKeeps
<1>8. CASE TooManyCommands BY <1>8, FailingKeeps DEF TooManyCommands, Same, Working, Writing
<1>9. CASE Restart BY <1>9, RestartKeeps
<1>10. CASE AddEsmsFileEnd BY <1>10, EndKeeps
<1>11. CASE MarkCompleted BY <1>11, MarkKeeps
<1>12. CASE UseScript BY <1>12, UseKeeps
<1>13. CASE BrokenScript BY <1>13, FailingKeeps DEF BrokenScript, Same, Working
<1>14. CASE FinishRun
  <2>1. h = NoHeader BY <1>14 DEF Inv, Header, FinishRun
  <2> QED BY <1>14, <2>1, IdleKeeps DEF FinishRun
<1>15. CASE FailRun BY <1>15, IdleKeeps DEF FailRun
<1>16. CASE Interrupted BY <1>16, InterruptedKeeps
<1>17. CASE UNCHANGED vars
  <2>1. /\ disk' = disk /\ files' = files /\ run' = run /\ names' = names /\ used' = used /\ h' = h /\ pc' = pc
    BY <1>17 DEF vars
  <2>2. Same BY <2>1 DEF Same
  <2>3. Cur' = Cur /\ Job' = Job /\ Name' = Name /\ (IsFree(Name)' <=> IsFree(Name)) BY <2>2, SameStream
  <2>4. Streams /\ Contents /\ Header /\ UnderConstruction /\ Reserved BY DEF Inv
  <2>5. Streams' BY <2>1, <2>4 DEF Streams, IsASequence
  <2>6. Contents' BY <2>1, <2>4 DEF Contents
  <2>7. Parsed' BY <2>1, <2>2, ParsedSame
  <2>8. Header'
    <3>1. (FromFinding' <=> FromFinding) /\ Options' = Options
      BY <2>1, <2>3 DEF FromFinding, Options, Finding, IsHeader
    <3> QED BY <2>1, <2>3, <2>4, <3>1 DEF Header
  <2>9. UnderConstruction' BY <2>1, <2>3, <2>4 DEF UnderConstruction, Marked, NotYetMarked
  <2>10. Reserved'
    <3>1. IsAValidEsmsFile(Name, ComputeFlags(Job.options))' <=> IsAValidEsmsFile(Name, ComputeFlags(Job.options))
      BY <2>1, <2>3 DEF IsAValidEsmsFile, IsValidSourceFile
    <3> QED BY <2>1, <2>3, <2>4, <3>1 DEF Reserved
  <2> QED BY <2>5, <2>6, <2>7, <2>8, <2>9, <2>10 DEF Inv
<1> QED BY <1>1, <1>2, <1>3, <1>4, <1>5, <1>6, <1>7, <1>8, <1>9, <1>10, <1>11, <1>12, <1>13, <1>14, <1>15, <1>16,
           <1>17 DEF Next, Step, Generate

\* The inductive invariant holds in every state of a run.
THEOREM Inductive == Spec => []Inv
BY StartsRight, StepsRight, PTL DEF Spec

-----------------------------------------------------------------------------
\* Types: scripts are made of bytes, whatever the analysers find, and the streams of a run are
\* registered and parsed in the order of its jobs.
THEOREM TypeCorrect == Spec => []TypeOK
<1>1. Inv => TypeOK
  <2> SUFFICES ASSUME Inv PROVE TypeOK OBVIOUS
  <2>1. Streams /\ Contents BY DEF Inv
  <2>2. \A n \in DOMAIN files : \A i \in DOMAIN files[n] : files[n][i] \in 0..(ByteRange - 1)
    <3> SUFFICES ASSUME NEW n \in DOMAIN files, NEW i \in DOMAIN files[n]
                 PROVE  files[n][i] \in Byte
      BY DEF Byte
    <3>1. files[n] \in Seq(Byte) BY <2>1, SMTT(30) DEF Contents
    <3> QED BY <3>1
  <2>3. DOMAIN names \in {DOMAIN used, 1..Cur}
    <3>1. DOMAIN names = 1..Len(names) /\ DOMAIN used = 1..Len(used) /\ Len(used) \in Nat
      BY <2>1 DEF Streams, IsASequence
    <3>2. Len(names) = Len(used) \/ Len(names) = Len(used) + 1
      <4>1. CASE pc = "idle" BY <2>1, <4>1 DEF Streams
      <4>2. CASE pc # "idle" BY <2>1, <4>2 DEF Streams, Working, Writing
      <4> QED BY <4>1, <4>2
    <3> QED BY <3>1, <3>2 DEF Cur
  <2>4. run.jobs # NoJobs => run \in Runs BY <2>1 DEF Streams
  <2> QED BY <2>1, <2>2, <2>3, <2>4 DEF TypeOK, Streams, Contents, Working, Writing
<1> QED BY <1>1, Inductive, PTL

\* A script that a stream of the run reads is not written again for another stream of the run,
\* unless scripts are rebuilt by force: findValidESScript() tries more names than a run has
\* streams, so that a script that is generated is not one in use.
THEOREM NeverRewritten == Spec => NotRewritten
<1>1. Inv /\ Inv' /\ [Next]_vars
        => [~run.force => \A i \in DOMAIN used : files'[names[i]] = files[names[i]]]_vars
  <2> SUFFICES ASSUME Inv, Next, ~run.force, NEW i \in DOMAIN used
               PROVE  files'[names[i]] = files[names[i]]
    BY DEF NotRewritten
  <2>1. /\ i \in 1..Len(used) /\ names[i] \in DOMAIN files
        /\ (pc \in Writing \union {"create"} => names[i] # Name)
        /\ (pc \in Writing => Name \in DOMAIN files)
    <3>1. i \in 1..Len(used) BY DEF Inv, Streams
    <3> QED BY <3>1 DEF Inv, Parsed, Reserved, IsFree, UnderConstruction
  <2>2. CASE CreateScript BY <2>1, <2>2 DEF CreateScript
  <2>3. CASE WritePacket BY <2>1, <2>3 DEF WritePacket, Writing
  <2>4. CASE AddEsmsFileEnd
    <3>1. PICK f : files' = [files EXCEPT ![Name] = f] BY <2>4 DEF AddEsmsFileEnd
    <3> QED BY <2>1, <2>4, <3>1 DEF AddEsmsFileEnd, Writing
  <2>5. CASE MarkCompleted BY <2>1, <2>5 DEF MarkCompleted, Writing
  <2>6. CASE Interrupted BY <2>1, <2>6 DEF Interrupted, Writing
  <2>7. CASE files' = files BY <2>7
  <2>8. \/ CreateScript \/ WritePacket \/ AddEsmsFileEnd \/ MarkCompleted \/ Interrupted \/ files' = files
    BY DEF Next, Step, Generate, EditSource, StartRun, Search, CheckScriptFile, CreateScriptFails, TooManyCommands,
           Restart, UseScript, BrokenScript, FinishRun, FailRun
  <2> QED BY <2>2, <2>3, <2>4, <2>5, <2>6, <2>7, <2>8
<1> QED BY <1>1, Inductive, PTL DEF Spec, NotRewritten

\* The scripts that a run uses have the marker of completion, and they are on the disk as they
\* were when they were parsed.
UsedAreComplete == \A i \in DOMAIN used : /\ Len(used[i]) >= 4 /\ used[i][3] = 1
                                          /\ ~run.force => files[names[i]] = used[i]
THEOREM OnlyCompleteUsed == Spec => []UsedAreComplete
<1>1. Inv => UsedAreComplete
  <2> SUFFICES ASSUME Inv PROVE UsedAreComplete OBVIOUS
  <2>1. DOMAIN used = 1..Len(used) BY DEF Inv, Streams
  <2> QED BY <2>1 DEF Inv, Parsed, Marked, UsedAreComplete
<1> QED BY <1>1, Inductive, PTL

\* The marker is the last thing that is written: in any step, interruptions included, a file that
\* has the marker afterwards is as it was, or is the complete script that updateEsmsHeader() marks.
LEMMA NewlyMarked ==
  ASSUME Inv, Inv', Next, NEW n \in DOMAIN files', Len(files'[n]) >= 3, files'[n][3] = 1
  PROVE  \/ n \in DOMAIN files /\ files'[n] = files[n]
         \/ pc = "mark" /\ n = Name /\ files'[n] = UpdateEsmsHeader(files[n], h.dirs)
<1>1. /\ pc \in Writing => Name \in DOMAIN files /\ NotYetMarked(files[Name]) /\ files[Name] \in Seq(Byte)
      /\ pc' \in Writing => NotYetMarked(files[Name])'
  BY DEF Inv, UnderConstruction, Contents
<1>2. ASSUME Same, pc' \in Writing, OnlyThisScript, DOMAIN files' \subseteq DOMAIN files \union {Name}
      PROVE  n \in DOMAIN files /\ files'[n] = files[n]
  <2>1. Name' = Name BY <1>2, SameStream
  <2>2. files'[Name][3] = 0 BY <1>1, <1>2, <2>1 DEF NotYetMarked
  <2>3. n # Name BY <2>2
  <2> QED BY <1>2, <2>3 DEF OnlyThisScript
<1>3. CASE CreateScript
  <2>1. Same /\ pc' \in Writing BY <1>3 DEF CreateScript, Same, Writing
  <2>2. OnlyThisScript /\ DOMAIN files' \subseteq DOMAIN files \union {Name}
    BY <1>3 DEF CreateScript, OnlyThisScript
  <2> QED BY <1>2, <2>1, <2>2
<1>4. CASE WritePacket
  <2>1. Same /\ pc \in Writing /\ pc' \in Writing BY <1>4 DEF WritePacket, Same, Writing
  <2>2. PICK f : files' = [files EXCEPT ![Name] = f] BY <1>4 DEF WritePacket
  <2>3. OnlyThisScript /\ DOMAIN files' \subseteq DOMAIN files \union {Name} BY <2>2 DEF OnlyThisScript
  <2> QED BY <1>2, <2>1, <2>3
<1>5. CASE AddEsmsFileEnd
  <2>1. Same /\ pc \in Writing /\ pc' \in Writing BY <1>5 DEF AddEsmsFileEnd, Same, Writing
  <2>2. PICK f : files' = [files EXCEPT ![Name] = f] BY <1>5 DEF AddEsmsFileEnd
  <2>3. OnlyThisScript /\ DOMAIN files' \subseteq DOMAIN files \union {Name} BY <2>2 DEF OnlyThisScript
  <2> QED BY <1>2, <2>1, <2>3
<1>6. CASE MarkCompleted
  <2>1. pc = "mark" /\ files' = [files EXCEPT ![Name] = UpdateEsmsHeader(files[Name], h.dirs)]
    BY <1>6 DEF MarkCompleted
  <2> QED BY <1>1, <2>1 DEF Writing
<1>7. CASE Interrupted /\ pc = "packets"
  <2>1. PICK k \in {0, HeaderLength, Len(files[Name])} :
          files' = [files EXCEPT ![Name] = SubSeq(files[Name], 1, k)]
    BY <1>7 DEF Interrupted
  <2>2. Name \in DOMAIN files /\ NotYetMarked(files[Name]) /\ files[Name] \in Seq(Byte)
    BY <1>1, <1>7 DEF Writing
  <2>3. CASE n = Name
    <3>1. files'[n] = SubSeq(files[Name], 1, k) BY <2>1, <2>2, <2>3
    <3>2. k \in Nat /\ k <= Len(files[Name]) BY <2>1, <2>2, HeaderBytes DEF NotYetMarked
    <3>3. Len(files'[n]) = k BY <2>2, <3>1, <3>2
    <3>4. 3 <= k BY <3>3
    <3>5. files'[n][3] = files[Name][3] BY <2>2, <3>1, <3>2, <3>4
    <3> QED BY <2>2, <3>5 DEF NotYetMarked
  <2>4. CASE n # Name BY <2>1, <2>4
  <2> QED BY <2>3, <2>4
<1>8. CASE files' = files BY <1>8
<1>9. \/ CreateScript \/ WritePacket \/ AddEsmsFileEnd \/ MarkCompleted \/ (Interrupted /\ pc = "packets")
      \/ files' = files
  BY DEF Next, Step, Generate, EditSource, StartRun, Search, CheckScriptFile, CreateScriptFails, TooManyCommands,
         Restart, UseScript, BrokenScript, FinishRun, FailRun, Interrupted
<1> QED BY <1>3, <1>4, <1>5, <1>6, <1>7, <1>8, <1>9

MarkerIsLast ==
  [][\A n \in DOMAIN files' : Len(files'[n]) >= 3 /\ files'[n][3] = 1 =>
       \/ n \in DOMAIN files /\ files'[n] = files[n]
       \/ pc = "mark" /\ n = Name /\ files'[n] = UpdateEsmsHeader(files[n], h.dirs)]_vars
\* Only the last step of the writing of a script marks it.
THEOREM MarkedAtTheEnd == Spec => MarkerIsLast
<1>1. Inv /\ Inv' /\ [Next]_vars
        => [\A n \in DOMAIN files' : Len(files'[n]) >= 3 /\ files'[n][3] = 1 =>
              \/ n \in DOMAIN files /\ files'[n] = files[n]
              \/ pc = "mark" /\ n = Name /\ files'[n] = UpdateEsmsHeader(files[n], h.dirs)]_vars
  BY NewlyMarked
<1> QED BY <1>1, Inductive, PTL DEF Spec, MarkerIsLast
-----------------------------------------------------------------------------
(* A script with the marker is the work of one analysis from its beginning   *)
(* to its end.                                                               *)

\* The source files and the header of the script of the source s, from the contents d of the
\* sources and under the options o.
SourcesOf(s, d, o) ==
  LET paths == <<s>> \o Analysis[s][d[s]][o].pictures
  IN  [i \in DOMAIN paths |-> [name |-> paths[i], crc |-> d[paths[i]].head]]
HeaderOf(s, d, o) ==
  LET found == Analysis[s][d[s]][o]
  IN  [coding |-> found.coding, flags |-> ComputeFlags(o), ptsRef |-> found.ptsRef, endPts |-> found.endPts,
       bitrate |-> found.bitrate, sources |-> SourcesOf(s, d, o), blocks |-> found.blocks, fmt |-> found.fmt]

\* The file after n packets, then with each of the sections that follow.
PacketOf(found, i) == WritePesPacket(found.coding, found.packets[i], found.blocks)
Cutting(found, n) ==
  IF n = 0 THEN WriteEsmsHeader
           ELSE WriteEsmsHeader \o (<<PesMagic>> \o FlattenSeq([i \in 1..n |-> PacketOf(found, i)]))
Ended(f) == Append(f, EndMarker)
Described(f, x) == Ended(f) \o WriteEsPropertiesSection(x)
WithBlocks(f, x) == Described(f, x) \o (IF x.blocks # <<>> THEN WriteDataBlocksDefSection(x.blocks) ELSE <<>>)
Complete(f, x) == WithBlocks(f, x) \o WriteEsCodecSpecParametersSection(x)

\* The directories: where each section starts in that file.
FirstDir(n) == IF n = 0 THEN <<>> ELSE AppendDir(<<>>, DirPesCutting, WriteEsmsHeader)
DirectoriesOf(f, x, n) ==
  LET upToProp == AppendDir(FirstDir(n), DirProp, Ended(f))
  IN  AppendDir(IF x.blocks # <<>> THEN AppendDir(upToProp, DirDataBlk, Described(f, x)) ELSE upToProp,
                DirFmtProp, WithBlocks(f, x))

\* The script that one analysis writes, all its packets and sections, when nothing stops it.
Image(s, d, o) ==
  LET found == Analysis[s][d[s]][o]
      n == Len(found.packets)
      x == HeaderOf(s, d, o)
  IN  UpdateEsmsHeader(Complete(Cutting(found, n), x), DirectoriesOf(Cutting(found, n), x, n))

\* Of a stream of some run, with such contents as its sources may have, and with the analysis
\* made again when the analyser asks for it.
Disks == {d \in [Sources -> UNION {Editions[s] : s \in Sources}] : \A s \in Sources : d[s] \in Editions[s]}
Jobs == UNION {{r.jobs[i] : i \in 1..Len(r.jobs)} : r \in Runs}
GoesToItsEnd(s, d, o) ==
  LET found == Analysis[s][d[s]][o]
  IN  /\ d[s] # NoFile
      /\ o.double = found.doubled
      /\ \A i \in 1..Len(found.packets) : Len(found.packets[i].cmds) <= MaxCommands
IsAnImage(f) ==
  \E job \in Jobs :
    /\ job.source \in Sources
    /\ \E d \in Disks, o \in OptionsTried(job.options) :
         GoesToItsEnd(job.source, d, o) /\ f = Image(job.source, d, o)
MarkedAreImages == \A n \in DOMAIN files : Marked(files[n]) => IsAnImage(files[n])
UsedAreImages == \A i \in DOMAIN used : IsAnImage(used[i])

\* A script under construction is the beginning of that of its header.
SameHeader(x, y) ==
  /\ x.coding = y.coding /\ x.flags = y.flags /\ x.ptsRef = y.ptsRef /\ x.endPts = y.endPts
  /\ x.bitrate = y.bitrate /\ x.sources = y.sources /\ x.blocks = y.blocks /\ x.fmt = y.fmt
Begun ==
  LET found == Finding(h.options)
      x == HeaderOf(Job.source, disk, h.options)
      f == Cutting(found, h.nbFrames)
  IN  /\ disk[Job.source] # NoFile
      /\ SameHeader(h, x)
      /\ h.nbFrames <= Len(found.packets)
      /\ \A i \in 1..h.nbFrames : Len(found.packets[i].cmds) <= MaxCommands
      /\ pc = "packets" => h.dirs = FirstDir(h.nbFrames) /\ files[Name] = f
      /\ pc = "mark" => /\ h.nbFrames = Len(found.packets)
                        /\ found.doubled => h.options.double
                        /\ h.dirs = DirectoriesOf(f, x, h.nbFrames)
                        /\ files[Name] = Complete(f, x)
Doubling == Options.double => Finding(Options).doubled
Images == /\ pc \in Writing => Begun
          /\ pc \in {"create"} \union Writing => Doubling
          /\ MarkedAreImages /\ UsedAreImages

\* The options that are tried, as those that are given but for the timing.
LEMMA TimingOptions ==
  ASSUME NEW job \in Jobs, NEW o \in OptionsTried(job.options)
  PROVE  /\ job.options.double = FALSE
         /\ [job.options EXCEPT !.double = TRUE].double = TRUE
         /\ o.double \in BOOLEAN /\ ComputeFlags(o) = ComputeFlags(job.options)
<1>1. job.options \in [secondary : BOOLEAN, fpsChange : Nat, double : {FALSE}] BY FieldsAssumption DEF Jobs
<1>2. job.options.double = FALSE BY <1>1
<1>3. [job.options EXCEPT !.double = TRUE].double = TRUE BY <1>1
<1>4. CASE o = job.options BY <1>1, <1>2, <1>3, <1>4
<1>5. CASE o = [job.options EXCEPT !.double = TRUE]
  <2>1. o.double = TRUE /\ o.secondary = job.options.secondary /\ o.fpsChange = job.options.fpsChange
    BY <1>1, <1>5
  <2> QED BY <1>2, <1>3, <2>1 DEF ComputeFlags
<1> QED BY <1>4, <1>5 DEF OptionsTried

\* Whether the timing is doubled is known from the first analysis.
LEMMA DoublingAlike ==
  ASSUME NEW job \in Jobs, job.source \in Sources, NEW d \in Disks, NEW o \in OptionsTried(job.options)
  PROVE  /\ Analysis[job.source][d[job.source]][o].doubled \in BOOLEAN
         /\ Analysis[job.source][d[job.source]][o].doubled
              = Analysis[job.source][d[job.source]][job.options].doubled
<1>1. d[job.source] \in Editions[job.source] BY DEF Disks
<1>2. job.source # 0 BY SourcesAssumption
<1> QED BY <1>1, <1>2, FieldsAssumption DEF Jobs

\* The stream at work.
LEMMA WorkingJob ==
  ASSUME Inv, pc \in Working
  PROVE  Job \in Jobs /\ disk \in Disks
<1>1. run \in Runs /\ Job \in {run.jobs[i] : i \in 1..Len(run.jobs)} BY CurrentJob
<1>2. Job \in Jobs BY <1>1 DEF Jobs
<1> QED BY <1>2 DEF Inv, Contents, Disks

LEMMA HeaderSet == ASSUME "options" \in DOMAIN h PROVE h # NoHeader /\ Options = h.options
<1>1. "options" \notin DOMAIN NoHeader BY DEF NoHeader
<1>2. h # NoHeader BY <1>1
<1> QED BY <1>2 DEF Options

\* What is written only depends on those members of the header.
LEMMA SectionsAlike ==
  ASSUME NEW x, NEW y, SameHeader(x, y), NEW f, NEW n
  PROVE  /\ WriteEsPropertiesSection(x) = WriteEsPropertiesSection(y)
         /\ WriteEsCodecSpecParametersSection(x) = WriteEsCodecSpecParametersSection(y)
         /\ Complete(f, x) = Complete(f, y) /\ DirectoriesOf(f, x, n) = DirectoriesOf(f, y, n)
<1>1. /\ x.coding = y.coding /\ x.flags = y.flags /\ x.ptsRef = y.ptsRef /\ x.endPts = y.endPts
      /\ x.bitrate = y.bitrate /\ x.sources = y.sources /\ x.blocks = y.blocks /\ x.fmt = y.fmt
  BY DEF SameHeader
<1>2. WriteEsPropertiesSection(x) = WriteEsPropertiesSection(y) BY <1>1 DEF WriteEsPropertiesSection
<1>3. WriteEsCodecSpecParametersSection(x) = WriteEsCodecSpecParametersSection(y)
  BY <1>1 DEF WriteEsCodecSpecParametersSection
<1>4. Described(f, x) = Described(f, y) BY <1>2 DEF Described
<1>5. WithBlocks(f, x) = WithBlocks(f, y) BY <1>1, <1>4 DEF WithBlocks
<1>6. Complete(f, x) = Complete(f, y) BY <1>3, <1>5 DEF Complete
<1>7. DirectoriesOf(f, x, n) = DirectoriesOf(f, y, n) BY <1>1, <1>4, <1>5 DEF DirectoriesOf
<1> QED BY <1>2, <1>3, <1>6, <1>7

\* One more packet.
LEMMA CuttingMore ==
  ASSUME NEW found, IsFinding(found), NEW n \in Nat, n < Len(found.packets)
  PROVE  Cutting(found, n + 1)
           = Cutting(found, n) \o (IF n = 0 THEN <<PesMagic>> ELSE <<>>) \o PacketOf(found, n + 1)
<1> DEFINE seqs == [i \in 1..n |-> PacketOf(found, i)]
           more == [i \in 1..(n + 1) |-> PacketOf(found, i)]
           p == PacketOf(found, n + 1)
<1>1. \A i \in 1..(n + 1) : PacketOf(found, i) \in Seq(Byte)
  <2> SUFFICES ASSUME NEW i \in 1..(n + 1) PROVE PacketOf(found, i) \in Seq(Byte) OBVIOUS
  <2>1. found.packets \in Seq(ToSet(found.packets)) BY DEF IsFinding
  <2>2. i \in DOMAIN found.packets BY <2>1
  <2>3. IsPacket(found.packets[i], found.blocks) BY <2>2 DEF IsFinding
  <2>4. found.blocks \in Seq(Seq(Byte)) /\ found.coding \in Codings BY DEF IsFinding, Codings
  <2> QED BY <2>3, <2>4, PacketBytes DEF PacketOf
<1>2. seqs \in Seq(Seq(Byte)) /\ Len(seqs) = n /\ more \in Seq(Seq(Byte)) /\ Len(more) = n + 1
  <2>1. \A i \in 1..n : i \in 1..(n + 1) OBVIOUS
  <2> QED BY <1>1, <2>1
<1>3. p \in Seq(Byte) /\ n + 1 \in 1..(n + 1) /\ more[n + 1] = p BY <1>1
<1>4. \A i \in 1..n : more[i] = seqs[i] OBVIOUS
<1>5. <<PesMagic>> \in Seq(Byte) BY Small DEF PesMagic
<1>6. WriteEsmsHeader \in Seq(Byte) BY HeaderBytes
<1>7. /\ Cutting(found, n + 1) = WriteEsmsHeader \o (<<PesMagic>> \o FlattenSeq(more))
      /\ n # 0 => Cutting(found, n) = WriteEsmsHeader \o (<<PesMagic>> \o FlattenSeq(seqs))
      /\ n = 0 => Cutting(found, n) = WriteEsmsHeader
  <2>1. n + 1 # 0 OBVIOUS
  <2> QED BY <2>1 DEF Cutting
<1> HIDE DEF seqs, more, p
<1>8. CASE n = 0
  <2>1. FlattenSeq(more) = p
    <3>1. Len(more) = 1 /\ more[1] = p BY <1>2, <1>3, <1>8
    <3>2. FlattenSeq(more) = more[1] BY <1>2, <3>1, FlattenOne
    <3> QED BY <3>1, <3>2
  <2>2. (WriteEsmsHeader \o <<PesMagic>>) \o p = WriteEsmsHeader \o (<<PesMagic>> \o p)
    BY <1>3, <1>5, <1>6, Associated
  <2> QED BY <1>7, <1>8, <2>1, <2>2 DEF p
<1>9. CASE n # 0
  <2> DEFINE before == FlattenSeq(seqs)
  <2>1. before \in Seq(Byte) BY <1>2, FlattenSeqs
  <2>2. FlattenSeq(more) = before \o p
    <3>1. Len(seqs) # 0 /\ Len(more) = Len(seqs) + 1 /\ \A i \in 1..Len(seqs) : more[i] = seqs[i]
      BY <1>2, <1>4, <1>9
    <3>2. FlattenSeq(more) = FlattenSeq(seqs) \o more[Len(seqs) + 1] BY <1>2, <3>1, FlattenMore
    <3> QED BY <1>2, <1>3, <3>2
  <2> HIDE DEF before
  <2>3. <<PesMagic>> \o (before \o p) = (<<PesMagic>> \o before) \o p BY <1>3, <1>5, <2>1, Associated
  <2>4. <<PesMagic>> \o before \in Seq(Byte) BY <1>5, <2>1, Joined
  <2>5. WriteEsmsHeader \o ((<<PesMagic>> \o before) \o p) = (WriteEsmsHeader \o (<<PesMagic>> \o before)) \o p
    BY <1>3, <1>6, <2>4, Associated
  <2>6. WriteEsmsHeader \o (<<PesMagic>> \o before) \in Seq(Byte) BY <1>6, <2>4, Joined
  <2>7. (WriteEsmsHeader \o (<<PesMagic>> \o before)) \o <<>> = WriteEsmsHeader \o (<<PesMagic>> \o before)
    BY <2>6, ConcatEmptySeq
  <2>8. Cutting(found, n) = WriteEsmsHeader \o (<<PesMagic>> \o before) BY <1>7, <1>9 DEF before
  <2>9. Cutting(found, n + 1) = Cutting(found, n) \o p BY <1>7, <2>2, <2>3, <2>5, <2>8
  <2> QED BY <1>9, <2>7, <2>8, <2>9 DEF p
<1> QED BY <1>8, <1>9

\* The analysis does not change under way.
LEMMA AnalysisKept ==
  ASSUME Same, disk' = disk, h'.options = h.options
  PROVE  /\ Finding(h.options)' = Finding(h.options)
         /\ HeaderOf(Job.source, disk, h.options)' = HeaderOf(Job.source, disk, h.options)
<1>1. Job' = Job BY SameStream
<1> QED BY <1>1 DEF Finding, HeaderOf, SourcesOf

LEMMA CreateBegins == ASSUME Inv, CreateScript PROVE Begun'
<1> DEFINE found == Finding(Options)
           sources == SourcesOf(Job.source, disk, Options)
           x == HeaderOf(Job.source, disk, Options)
<1>14. disk[Job.source] # NoFile BY SMTT(30) DEF CreateScript, CanOpenSources
<1>1. /\ pc = "create" /\ pc' = "packets" /\ Same /\ disk' = disk
      /\ h' = [coding |-> found.coding, options |-> Options, flags |-> ComputeFlags(Options),
               ptsRef |-> found.ptsRef, endPts |-> found.endPts, bitrate |-> found.bitrate,
               sources |-> sources, blocks |-> found.blocks, fmt |-> found.fmt, dirs |-> <<>>, nbFrames |-> 0]
      /\ files' = [n \in DOMAIN files \union {Name} |-> IF n = Name THEN WriteEsmsHeader ELSE files[n]]
  BY DEF CreateScript, Same, SourcesOf, Paths, Finding
<1>2. Job' = Job /\ Name' = Name BY <1>1, SameStream
<1>3. h'.options = Options BY <1>1
<1>4. Finding(h.options)' = found BY <1>1, <1>2, <1>3, SMTT(30) DEF Finding
<1>5. HeaderOf(Job.source, disk, h.options)' = x BY <1>1, <1>2, <1>3 DEF HeaderOf, SourcesOf
<1>6. SameHeader(h', x)
  <2>1. x = [coding |-> found.coding, flags |-> ComputeFlags(Options), ptsRef |-> found.ptsRef,
             endPts |-> found.endPts, bitrate |-> found.bitrate, sources |-> sources, blocks |-> found.blocks,
             fmt |-> found.fmt]
    BY DEF HeaderOf, Finding
  <2> HIDE DEF x, found, sources
  <2> QED BY <1>1, <2>1 DEF SameHeader
<1>7. h'.nbFrames = 0 /\ h'.dirs = <<>> /\ files'[Name] = WriteEsmsHeader BY <1>1
<1>8. 0 <= Len(found.packets)
  <2>1. Job.source \in Sources /\ Options \in OptionsTried(Job.options) /\ pc \in Working
    BY <1>1 DEF Inv, Header, UnderConstruction, Working
  <2>2. IsFinding(found) BY <2>1, FoundSound
  <2>3. found.packets \in Seq(ToSet(found.packets)) BY <2>2 DEF IsFinding
  <2> HIDE DEF found
  <2> QED BY <2>3
<1>9. Cutting(found, 0) = WriteEsmsHeader /\ FirstDir(0) = <<>> BY DEF Cutting, FirstDir
<1> HIDE DEF x, found, sources
<1>10. SameHeader(h, HeaderOf(Job.source, disk, h.options))' BY <1>5, <1>6 DEF SameHeader
<1>11. h'.nbFrames <= Len(Finding(h.options)'.packets) BY <1>4, <1>7, <1>8
<1>12. Cutting(Finding(h.options)', h'.nbFrames) = WriteEsmsHeader /\ FirstDir(h'.nbFrames) = <<>>
  BY <1>4, <1>7, <1>9
<1>13. files'[Name'] = WriteEsmsHeader /\ pc' # "mark" BY <1>1, <1>2, <1>7
<1>15. disk'[Job'.source] # NoFile BY <1>1, <1>2, <1>14
<1>16. \A i \in 1..h'.nbFrames : FALSE BY <1>7
<1> QED BY <1>7, <1>10, <1>11, <1>12, <1>13, <1>15, <1>16 DEF Begun

\* What the writing steps know.
LEMMA WhileWriting ==
  ASSUME Inv, pc \in Writing
  PROVE  /\ IsFinding(Finding(h.options)) /\ h.nbFrames \in Nat
         /\ Finding(h.options).packets \in Seq(ToSet(Finding(h.options).packets))
         /\ Name \in DOMAIN files /\ files[Name] \in Seq(Byte)
         /\ h.coding = Finding(h.options).coding /\ h.blocks = Finding(h.options).blocks
         /\ DOMAIN h = {"coding", "options", "flags", "ptsRef", "endPts", "bitrate", "sources", "blocks", "fmt",
                        "dirs", "nbFrames"}
         /\ Job.source \in Sources /\ Job \in Jobs /\ h.options \in OptionsTried(Job.options) /\ disk \in Disks
<1>1. FromFinding /\ Job.source \in Sources /\ pc \in Working
  BY DEF Inv, Header, UnderConstruction, Working
<1>2. h.options \in OptionsTried(Job.options) BY <1>1 DEF FromFinding
<1>3. IsFinding(Finding(h.options)) BY <1>1, <1>2, FoundSound
<1>4. run \in Runs /\ Job \in {run.jobs[i] : i \in 1..Len(run.jobs)} BY <1>1, CurrentJob
<1>5. Job \in Jobs BY <1>4 DEF Jobs
<1>6. disk \in Disks BY DEF Inv, Contents, Disks
<1>7. Name \in DOMAIN files /\ files[Name] \in Seq(Byte) BY DEF Inv, UnderConstruction, Contents
<1>8. Finding(h.options).packets \in Seq(ToSet(Finding(h.options).packets)) BY <1>3 DEF IsFinding
<1> QED BY <1>1, <1>2, <1>3, <1>5, <1>6, <1>7, <1>8 DEF FromFinding

LEMMA PacketContinues == ASSUME Inv, Begun, WritePacket PROVE Begun'
<1> DEFINE found == Finding(h.options)
           n == h.nbFrames
           x == HeaderOf(Job.source, disk, h.options)
           first == IF n = 0 THEN <<PesMagic>> ELSE <<>>
           newDirs == IF n = 0 THEN AppendDir(h.dirs, DirPesCutting, files[Name]) ELSE h.dirs
<1>1. /\ pc = "packets" /\ pc' = pc /\ Same /\ disk' = disk /\ n < Len(found.packets)
      /\ h' = [h EXCEPT !.nbFrames = n + 1, !.dirs = newDirs]
      /\ files' = [files EXCEPT ![Name] = files[Name] \o first
                                            \o WritePesPacket(h.coding, found.packets[n + 1], h.blocks)]
  BY DEF WritePacket, Same
<1>2. Job' = Job /\ Name' = Name BY <1>1, SameStream
<1>3. pc \in Writing BY <1>1 DEF Writing
<1>4. /\ IsFinding(found) /\ n \in Nat /\ found.packets \in Seq(ToSet(found.packets))
      /\ Name \in DOMAIN files /\ h.coding = found.coding /\ h.blocks = found.blocks
      /\ DOMAIN h = {"coding", "options", "flags", "ptsRef", "endPts", "bitrate", "sources", "blocks", "fmt",
                     "dirs", "nbFrames"}
  BY <1>3, WhileWriting
<1>5. h.dirs = FirstDir(n) /\ files[Name] = Cutting(found, n) /\ SameHeader(h, x)
  BY <1>1 DEF Begun
<1> HIDE DEF found, x, first, newDirs
<1>6. /\ h'.nbFrames = n + 1 /\ h'.dirs = newDirs /\ h'.options = h.options
      /\ h'.coding = h.coding /\ h'.flags = h.flags /\ h'.ptsRef = h.ptsRef /\ h'.endPts = h.endPts
      /\ h'.bitrate = h.bitrate /\ h'.sources = h.sources /\ h'.blocks = h.blocks /\ h'.fmt = h.fmt
  BY <1>1, <1>4
<1>7. Finding(h.options)' = found /\ HeaderOf(Job.source, disk, h.options)' = x
  BY <1>1, <1>6, AnalysisKept DEF found, x
<1>8. SameHeader(h', x) BY <1>5, <1>6 DEF SameHeader
<1>9. files'[Name] = Cutting(found, n + 1)
  <2>1. files'[Name] = files[Name] \o first \o WritePesPacket(h.coding, found.packets[n + 1], h.blocks)
    BY <1>1, <1>4
  <2>2. WritePesPacket(h.coding, found.packets[n + 1], h.blocks) = PacketOf(found, n + 1)
    BY <1>4 DEF PacketOf
  <2>3. Cutting(found, n + 1) = Cutting(found, n) \o first \o PacketOf(found, n + 1)
    BY <1>1, <1>4, CuttingMore DEF first
  <2> QED BY <1>5, <2>1, <2>2, <2>3
<1>10. newDirs = FirstDir(n + 1)
  <2>1. n + 1 # 0 BY <1>4
  <2>2. CASE n = 0
    <3>1. Cutting(found, n) = WriteEsmsHeader /\ FirstDir(n) = <<>> BY <2>2 DEF Cutting, FirstDir
    <3> QED BY <1>5, <2>1, <2>2, <3>1 DEF newDirs, FirstDir
  <2>3. CASE n # 0 BY <1>5, <2>1, <2>3 DEF newDirs, FirstDir
  <2> QED BY <2>2, <2>3
<1>11. n + 1 <= Len(found.packets) BY <1>1, <1>4
<1>12. SameHeader(h, HeaderOf(Job.source, disk, h.options))' BY <1>7, <1>8 DEF SameHeader
<1>13. h'.nbFrames <= Len(Finding(h.options)'.packets) BY <1>6, <1>7, <1>11
<1>14. Cutting(Finding(h.options)', h'.nbFrames) = files'[Name'] /\ FirstDir(h'.nbFrames) = h'.dirs
  BY <1>2, <1>6, <1>7, <1>9, <1>10
<1>15. pc' # "mark" BY <1>1
<1>16. disk'[Job'.source] # NoFile BY <1>1, <1>2 DEF Begun
<1>17. \A i \in 1..h'.nbFrames : Len(Finding(h.options)'.packets[i].cmds) <= MaxCommands
  <2>1. Len(found.packets[n + 1].cmds) <= MaxCommands BY DEF WritePacket, found
  <2>2. \A i \in 1..n : Len(found.packets[i].cmds) <= MaxCommands BY DEF Begun, found
  <2>3. \A i \in 1..(n + 1) : i \in 1..n \/ i = n + 1 BY <1>4
  <2> QED BY <1>6, <1>7, <2>1, <2>2, <2>3
<1> QED BY <1>12, <1>13, <1>14, <1>15, <1>16, <1>17 DEF Begun

LEMMA EndCompletes == ASSUME Inv, Begun, AddEsmsFileEnd PROVE Begun'
<1> DEFINE found == Finding(h.options)
           n == h.nbFrames
           x == HeaderOf(Job.source, disk, h.options)
           f == files[Name]
<1>1. /\ pc = "packets" /\ pc' = "mark" /\ Same /\ disk' = disk /\ n = Len(found.packets)
      /\ found.doubled => h.options.double
      /\ files' = [files EXCEPT ![Name] = Complete(f, h)]
  BY DEF AddEsmsFileEnd, AsksForRestart, Same, Complete, WithBlocks, Described, Ended
<1>2. f = Cutting(found, n) /\ h.dirs = FirstDir(n) /\ SameHeader(h, x) BY <1>1 DEF Begun
<1>3. h' = [h EXCEPT !.dirs = DirectoriesOf(f, h, n)]
  BY <1>2 DEF AddEsmsFileEnd, DirectoriesOf, WithBlocks, Described, Ended
<1>4. Job' = Job /\ Name' = Name BY <1>1, SameStream
<1>5. pc \in Writing BY <1>1 DEF Writing
<1>6. /\ Name \in DOMAIN files
      /\ DOMAIN h = {"coding", "options", "flags", "ptsRef", "endPts", "bitrate", "sources", "blocks", "fmt",
                     "dirs", "nbFrames"}
  BY <1>5, WhileWriting
<1>7. Complete(f, h) = Complete(f, x) /\ DirectoriesOf(f, h, n) = DirectoriesOf(f, x, n)
  BY <1>2, SectionsAlike
<1> HIDE DEF found, x, f
<1>8. /\ h'.nbFrames = n /\ h'.dirs = DirectoriesOf(f, h, n) /\ h'.options = h.options
      /\ h'.coding = h.coding /\ h'.flags = h.flags /\ h'.ptsRef = h.ptsRef /\ h'.endPts = h.endPts
      /\ h'.bitrate = h.bitrate /\ h'.sources = h.sources /\ h'.blocks = h.blocks /\ h'.fmt = h.fmt
  BY <1>3, <1>6
<1>9. Finding(h.options)' = found /\ HeaderOf(Job.source, disk, h.options)' = x
  BY <1>1, <1>8, AnalysisKept DEF found, x
<1>10. SameHeader(h, HeaderOf(Job.source, disk, h.options))' BY <1>2, <1>8, <1>9 DEF SameHeader
<1>11. h'.nbFrames = Len(Finding(h.options)'.packets) BY <1>1, <1>8, <1>9
<1>12. Cutting(Finding(h.options)', h'.nbFrames) = f BY <1>2, <1>8, <1>9
<1>13. files'[Name'] = Complete(f, x) BY <1>1, <1>4, <1>6, <1>7
<1>14. h'.dirs = DirectoriesOf(f, x, h'.nbFrames) BY <1>7, <1>8
<1>15. h'.nbFrames <= Len(Finding(h.options)'.packets)
  <2>1. n \in Nat BY <1>5, WhileWriting
  <2> QED BY <1>8, <1>11, <2>1
<1>16. pc' = "mark" /\ (Finding(h.options)'.doubled => h'.options.double) BY <1>1, <1>8, <1>9
<1>17. disk'[Job'.source] # NoFile BY <1>1, <1>4 DEF Begun
<1>18. \A i \in 1..h'.nbFrames : Len(Finding(h.options)'.packets[i].cmds) <= MaxCommands
  BY <1>8, <1>9 DEF Begun, found
<1> QED BY <1>9, <1>10, <1>11, <1>12, <1>13, <1>14, <1>15, <1>16, <1>17, <1>18 DEF Begun

\* The last step makes the image.
LEMMA MarkMakesImage ==
  ASSUME Inv, Begun, Doubling, pc = "mark"
  PROVE  /\ Job \in Jobs /\ Job.source \in Sources /\ disk \in Disks /\ h.options \in OptionsTried(Job.options)
         /\ GoesToItsEnd(Job.source, disk, h.options)
         /\ UpdateEsmsHeader(files[Name], h.dirs) = Image(Job.source, disk, h.options)
<1> DEFINE found == Finding(h.options)
           x == HeaderOf(Job.source, disk, h.options)
           f == Cutting(found, h.nbFrames)
<1>1. pc \in Writing BY DEF Writing
<1>2. /\ Job.source \in Sources /\ Job \in Jobs /\ h.options \in OptionsTried(Job.options) /\ disk \in Disks
      /\ "options" \in DOMAIN h
  BY <1>1, WhileWriting
<1>3. /\ h.nbFrames = Len(found.packets) /\ disk[Job.source] # NoFile
      /\ found.doubled => h.options.double
      /\ h.dirs = DirectoriesOf(f, x, h.nbFrames) /\ files[Name] = Complete(f, x)
      /\ \A i \in 1..h.nbFrames : Len(found.packets[i].cmds) <= MaxCommands
  BY DEF Begun
<1>4. found = Analysis[Job.source][disk[Job.source]][h.options] BY SMTT(30) DEF Finding
<1>5. UpdateEsmsHeader(files[Name], h.dirs) = Image(Job.source, disk, h.options)
  BY <1>3, <1>4 DEF Image
<1>6. h.options.double = found.doubled
  <2>1. h.options.double => found.doubled BY <1>2, HeaderSet DEF Doubling
  <2>2. h.options.double \in BOOLEAN BY <1>2, TimingOptions
  <2>3. found.doubled \in BOOLEAN BY <1>2, <1>4, DoublingAlike
  <2> QED BY <1>3, <2>1, <2>2, <2>3
<1>7. GoesToItsEnd(Job.source, disk, h.options) BY <1>3, <1>4, <1>6 DEF GoesToItsEnd
<1> QED BY <1>2, <1>5, <1>7

\* The analysis is made again only if its source asks for it.
LEMMA DoublingKept ==
  ASSUME Inv, Inv', Next, pc \in {"create"} \union Writing => Doubling, pc' \in {"create"} \union Writing
  PROVE  Doubling'
<1>1. CASE CheckScriptFile
  <2>1. pc = "check" /\ pc' = "create" /\ h' = h /\ Same /\ disk' = disk
    BY <1>1 DEF CheckScriptFile, Same, Writing
  <2>2. h = NoHeader /\ Job' = Job BY <2>1, SameStream DEF Inv, Header
  <2>3. Options' = Job.options BY <2>1, <2>2 DEF Options
  <2>4. Job \in Jobs /\ Job.options \in OptionsTried(Job.options)
    BY <2>1, WorkingJob DEF Working, OptionsTried
  <2>5. Job.options.double = FALSE BY <2>4, TimingOptions
  <2> QED BY <2>3, <2>5 DEF Doubling
<1>2. CASE Restart
  <2>1. /\ pc = "packets" /\ h' = [h EXCEPT !.options.double = TRUE] /\ Same /\ disk' = disk
        /\ Finding(h.options).doubled
    BY <1>2 DEF Restart, AsksForRestart, Same
  <2>2. /\ Job.source \in Sources /\ Job \in Jobs /\ h.options \in OptionsTried(Job.options) /\ disk \in Disks
        /\ "options" \in DOMAIN h
    BY <2>1, WhileWriting DEF Writing
  <2>3. Job' = Job /\ DOMAIN h' = DOMAIN h BY <2>1, SameStream
  <2>4. h'.options = [h.options EXCEPT !.double = TRUE] BY <2>1, <2>2
  <2>5. Options' = h'.options
    <3>1. "options" \in DOMAIN h' BY <2>2, <2>3
    <3>2. "options" \notin DOMAIN NoHeader BY DEF NoHeader
    <3> QED BY <3>1, <3>2 DEF Options
  <2>6. Finding(Options)' = Analysis[Job.source][disk[Job.source]][h'.options]
    BY <2>1, <2>3, <2>5 DEF Finding
  <2>7. h'.options \in OptionsTried(Job.options)
    <3>1. CASE h.options = Job.options BY <2>4, <3>1 DEF OptionsTried
    <3>2. CASE h.options = [Job.options EXCEPT !.double = TRUE]
      <4>1. [h.options EXCEPT !.double = TRUE] = h.options BY <3>2
      <4> QED BY <2>2, <2>4, <4>1
    <3> QED BY <2>2, <3>1, <3>2 DEF OptionsTried
  <2>8. /\ Analysis[Job.source][disk[Job.source]][h'.options].doubled
           = Analysis[Job.source][disk[Job.source]][Job.options].doubled
        /\ Analysis[Job.source][disk[Job.source]][h.options].doubled
           = Analysis[Job.source][disk[Job.source]][Job.options].doubled
    BY <2>2, <2>7, DoublingAlike, SMTT(30)
  <2> QED BY <2>1, <2>6, <2>8 DEF Doubling, Finding
<1>3. CASE CreateScript \/ WritePacket \/ AddEsmsFileEnd
  <2>1. /\ pc \in {"create"} \union Writing /\ pc' \in Writing /\ Same /\ disk' = disk
    BY <1>3 DEF CreateScript, WritePacket, AddEsmsFileEnd, Same, Writing
  <2>2. Job' = Job BY <2>1, SameStream
  <2>3. Options' = h'.options
    <3>1. "options" \in DOMAIN h' BY <2>1 DEF Inv, Header, FromFinding
    <3>2. "options" \notin DOMAIN NoHeader BY DEF NoHeader
    <3> QED BY <3>1, <3>2 DEF Options
  <2>4. h'.options = Options
    <3>1. CASE CreateScript BY <3>1 DEF CreateScript
    <3>2. CASE WritePacket \/ AddEsmsFileEnd
      <4>1. pc \in Writing BY <3>2 DEF WritePacket, AddEsmsFileEnd, Writing
      <4>2. "options" \in DOMAIN h BY <4>1, WhileWriting
      <4>3. h'.options = h.options BY <3>2, <4>2 DEF WritePacket, AddEsmsFileEnd
      <4> QED BY <4>2, <4>3, HeaderSet, SMTT(30)
    <3> QED BY <1>3, <3>1, <3>2
  <2>5. Finding(Options)' = Finding(Options) BY <2>1, <2>2, <2>3, <2>4 DEF Finding
  <2> QED BY <2>1, <2>3, <2>4, <2>5 DEF Doubling
<1>4. CheckScriptFile \/ Restart \/ CreateScript \/ WritePacket \/ AddEsmsFileEnd
  BY DEF Next, Step, Generate, EditSource, StartRun, Search, CreateScriptFails, TooManyCommands, MarkCompleted,
         UseScript, BrokenScript, FinishRun, FailRun, Interrupted, Writing
<1> QED BY <1>1, <1>2, <1>3, <1>4

LEMMA ImagesStep == Inv /\ Inv' /\ Images /\ [Next]_vars => Images'
<1> SUFFICES ASSUME Inv, Inv', Images, [Next]_vars PROVE Images' OBVIOUS
<1>1. CASE UNCHANGED vars
  <2>1. /\ disk' = disk /\ files' = files /\ run' = run /\ names' = names /\ used' = used /\ h' = h /\ pc' = pc
    BY <1>1 DEF vars
  <2>2. Job' = Job /\ Name' = Name BY <2>1, SameStream DEF Same
  <2>3. Begun' <=> Begun BY <2>1, <2>2 DEF Begun, Finding, HeaderOf, SourcesOf, SameHeader
  <2>4. Doubling' <=> Doubling BY <2>1, <2>2 DEF Doubling, Finding, Options
  <2> QED BY <2>1, <2>3, <2>4 DEF Images, MarkedAreImages, UsedAreImages, Writing
<1>2. CASE Next
  <2>1. pc' \in Writing => Begun'
    <3>1. CASE CreateScript BY <3>1, CreateBegins
    <3>2. CASE WritePacket BY <3>2, PacketContinues DEF Images, WritePacket, Writing
    <3>3. CASE AddEsmsFileEnd BY <3>3, EndCompletes DEF Images, AddEsmsFileEnd, Writing
    <3>4. CASE ~(CreateScript \/ WritePacket \/ AddEsmsFileEnd)
      <4>1. pc' \notin Writing
        BY <1>2, <3>4 DEF Next, Step, Generate, EditSource, StartRun, Search, CheckScriptFile, CreateScriptFails,
           TooManyCommands, Restart, MarkCompleted, UseScript, BrokenScript, FinishRun, FailRun, Interrupted, Writing
      <4> QED BY <4>1
    <3> QED BY <3>1, <3>2, <3>3, <3>4
  <2>2. MarkedAreImages'
    <3> SUFFICES ASSUME NEW n \in DOMAIN files', Marked(files'[n]) PROVE IsAnImage(files'[n])
      BY DEF MarkedAreImages, Marked, IsAnImage
    <3>1. Len(files'[n]) >= 3 /\ files'[n][3] = 1
      <4>1. files'[n] \in Seq(Byte) BY DEF Inv, Contents
      <4> QED BY <4>1 DEF Marked
    <3>2. \/ n \in DOMAIN files /\ files'[n] = files[n]
          \/ pc = "mark" /\ n = Name /\ files'[n] = UpdateEsmsHeader(files[n], h.dirs)
      BY <1>2, <3>1, NewlyMarked
    <3>3. CASE n \in DOMAIN files /\ files'[n] = files[n] BY <3>3 DEF Images, MarkedAreImages
    <3>4. CASE pc = "mark" /\ n = Name /\ files'[n] = UpdateEsmsHeader(files[n], h.dirs)
      <4>1. Begun /\ Doubling BY <3>4 DEF Images, Writing
      <4> QED BY <3>4, <4>1, MarkMakesImage DEF IsAnImage
    <3> QED BY <3>2, <3>3, <3>4
  <2>3. UsedAreImages'
    <3>1. CASE UseScript
      <4>1. used' = Append(used, files[Name]) /\ pc = "parse" BY <3>1 DEF UseScript
      <4>2. Name \in DOMAIN files /\ Marked(files[Name]) BY <4>1 DEF Inv, UnderConstruction
      <4>3. IsAnImage(files[Name]) BY <4>2 DEF Images, MarkedAreImages
      <4>4. used \in Seq(Seq(Byte)) /\ files[Name] \in Seq(Byte) BY <4>2 DEF Inv, Streams, Contents
      <4>5. \A i \in DOMAIN used' : (i \in DOMAIN used /\ used'[i] = used[i]) \/ used'[i] = files[Name]
        BY <4>1, <4>4
      <4> QED BY <4>3, <4>5 DEF Images, UsedAreImages
    <3>2. CASE ~UseScript
      <4>1. used' = used \/ used' = <<>>
        BY <1>2, <3>2 DEF Next, Step, Generate, EditSource, StartRun, Search, CheckScriptFile, CreateScript,
           CreateScriptFails, WritePacket, TooManyCommands, Restart, AddEsmsFileEnd, MarkCompleted, BrokenScript,
           FinishRun, FailRun, Interrupted
      <4> QED BY <4>1, SMTT(30) DEF Images, UsedAreImages
    <3> QED BY <3>1, <3>2
  <2>4. pc' \in {"create"} \union Writing => Doubling' BY <1>2, DoublingKept DEF Images
  <2> QED BY <2>1, <2>2, <2>3, <2>4 DEF Images
<1> QED BY <1>1, <1>2

\* Every file with the marker of completion, at any time, whatever was interrupted, edited or
\* written over before, is byte for byte the script of one analysis of one state of the sources.
THEOREM MarkedAreWhole == Spec => []MarkedAreImages
<1>1. Init => Images
  BY DEF Init, Images, MarkedAreImages, UsedAreImages, Writing
<1>2. Images => MarkedAreImages BY DEF Images
<1> QED BY <1>1, <1>2, ImagesStep, Inductive, PTL DEF Spec

\* So is every script that a stream of a run reads.
THEOREM UsedAreWhole == Spec => []UsedAreImages
<1>1. Init => Images
  BY DEF Init, Images, MarkedAreImages, UsedAreImages, Writing
<1>2. Images => UsedAreImages BY DEF Images
<1> QED BY <1>1, <1>2, ImagesStep, Inductive, PTL DEF Spec

-----------------------------------------------------------------------------
(* What is read of a number is what was written.                             *)

\* A number is divided in one way.
LEMMA Divided ==
  ASSUME NEW v \in Nat, NEW n \in Nat \ {0}
  PROVE  /\ v \div n \in Nat /\ v % n \in Nat /\ v % n < n
         /\ v = (v \div n) * n + (v % n)
<1> DEFINE q == v \div n
           r == v % n
<1>1. q \in Nat /\ r \in Nat /\ r < n /\ v = q * n + r OBVIOUS
<1> HIDE DEF q, r
<1>2. q \in Nat /\ r \in Nat /\ r < n /\ v = q * n + r BY <1>1
<1> QED BY <1>2, Zenon DEF q, r

LEMMA DividedOnce ==
  ASSUME NEW n \in Nat \ {0}, NEW q \in Nat, NEW r \in Nat, r < n, NEW v \in Nat, v = q * n + r
  PROVE  v \div n = q /\ v % n = r
<1> DEFINE a == v \div n
           b == v % n
<1>1. a \in Nat /\ b \in Nat /\ b < n /\ v = a * n + b BY Divided
<1> HIDE DEF a, b
<1>2. a = q
  <2>1. CASE a < q
    <3>1. a + 1 <= q BY <1>1, <2>1
    <3>2. (a + 1) * n <= q * n BY <1>1, <3>1
    <3>3. (a + 1) * n = a * n + n BY <1>1
    <3>4. a * n \in Nat /\ q * n \in Nat BY <1>1
    <3> QED BY <1>1, <3>2, <3>3, <3>4
  <2>2. CASE q < a
    <3>1. q + 1 <= a BY <1>1, <2>2
    <3>2. (q + 1) * n <= a * n BY <1>1, <3>1
    <3>3. (q + 1) * n = q * n + n BY <1>1
    <3>4. a * n \in Nat /\ q * n \in Nat BY <1>1
    <3> QED BY <1>1, <3>2, <3>3, <3>4
  <2> QED BY <1>1, <2>1, <2>2
<1>3. a * n \in Nat BY <1>1
<1> QED BY <1>1, <1>2, <1>3 DEF a, b

\* The remainder by m * b has one more digit than the remainder by m.
LEMMA NextDigit ==
  ASSUME NEW v \in Nat, NEW m \in Nat \ {0}, NEW b \in Nat \ {0}
  PROVE  v % (b * m) = (v % m) + ((v \div m) % b) * m
<1> DEFINE q == v \div m
           r == v % m
           s == q \div b
           d == q % b
<1>1. q \in Nat /\ r \in Nat /\ r < m /\ v = q * m + r BY Divided
<1> HIDE DEF q, r
<1>2. s \in Nat /\ d \in Nat /\ d < b /\ q = s * b + d BY <1>1, Divided
<1> HIDE DEF s, d
<1>3. v = s * (b * m) + (r + d * m)
  <2>1. q * m = (s * b) * m + d * m BY <1>1, <1>2
  <2>2. (s * b) * m = s * (b * m) BY <1>2
  <2>3. (s * b) * m \in Nat /\ d * m \in Nat BY <1>2
  <2> QED BY <1>1, <2>1, <2>2, <2>3
<1>4. r + d * m \in Nat /\ r + d * m < b * m
  <2>1. d + 1 <= b BY <1>2
  <2>2. (d + 1) * m <= b * m BY <1>2, <2>1
  <2>3. (d + 1) * m = d * m + m BY <1>2
  <2>4. d * m \in Nat /\ b * m \in Nat BY <1>2
  <2> QED BY <1>1, <2>2, <2>3, <2>4
<1>5. b * m \in Nat \ {0} BY Product
<1> DEFINE n == b * m
           x == r + d * m
<1>6. n \in Nat \ {0} /\ x \in Nat /\ x < n /\ v = s * n + x /\ s \in Nat BY <1>2, <1>3, <1>4, <1>5
<1> HIDE DEF n, x
<1>7. v % n = x BY <1>6, DividedOnce
<1> QED BY <1>7, Zenon DEF q, r, s, d, n, x

LEMMA SmallRemainder ==
  ASSUME NEW v \in Nat, NEW n \in Nat \ {0}, v < n
  PROVE  v % n = v /\ v \div n = 0
<1>1. v = 0 * n + v OBVIOUS
<1> QED BY <1>1, DividedOnce

\* A number is the sum of its digits.
Digit(v, i) == ((v \div Weight[i]) % ByteRange) * Weight[i]
LEMMA DigitNat == ASSUME NEW v \in Nat, NEW i \in 0..5 PROVE Digit(v, i) \in Nat
<1>1. Weight[i] \in Nat \ {0} BY Weights
<1>2. v \div Weight[i] \in Nat BY <1>1, Divided
<1>3. (v \div Weight[i]) % ByteRange \in Nat BY <1>2, Divided, FormatAssumption
<1> QED BY <1>1, <1>3 DEF Digit
LEMMA NextWeight ==
  /\ Weight[0] = 1
  /\ Weight[1] = ByteRange * Weight[0] /\ Weight[2] = ByteRange * Weight[1] /\ Weight[3] = ByteRange * Weight[2]
  /\ Weight[4] = ByteRange * Weight[3] /\ Weight[5] = ByteRange * Weight[4]
BY PowerSteps, FormatAssumption DEF Weight
LEMMA Digits ==
  ASSUME NEW v \in Nat
  PROVE  /\ Digit(v, 0) = v % Weight[1]
         /\ Digit(v, 0) + Digit(v, 1) = v % Weight[2]
         /\ Digit(v, 0) + Digit(v, 1) + Digit(v, 2) + Digit(v, 3) = v % Weight[4]
         /\ v \div Weight[5] < ByteRange =>
              Digit(v, 0) + Digit(v, 1) + Digit(v, 2) + Digit(v, 3) + Digit(v, 4) + Digit(v, 5) = v
<1>1. \A i \in 0..5 : Weight[i] \in Nat \ {0} BY Weights
<1>2. ByteRange \in Nat \ {0} BY FormatAssumption
<1>3. \A i \in 0..5 : v % (ByteRange * Weight[i]) = (v % Weight[i]) + Digit(v, i)
  BY <1>1, <1>2, NextDigit DEF Digit
<1>4. v % Weight[0] = 0
  <2>1. v % 1 = 0 OBVIOUS
  <2> QED BY <2>1, NextWeight
<1>5. \A i \in 0..5 : Digit(v, i) \in Nat /\ v % Weight[i] \in Nat BY <1>1, DigitNat, Divided
<1>6. v % Weight[1] = (v % Weight[0]) + Digit(v, 0) BY <1>3, NextWeight
<1>7. v % Weight[2] = (v % Weight[1]) + Digit(v, 1) BY <1>3, NextWeight
<1>8. v % Weight[3] = (v % Weight[2]) + Digit(v, 2) BY <1>3, NextWeight
<1>9. v % Weight[4] = (v % Weight[3]) + Digit(v, 3) BY <1>3, NextWeight
<1>10. v % Weight[5] = (v % Weight[4]) + Digit(v, 4) BY <1>3, NextWeight
<1>11. ASSUME v \div Weight[5] < ByteRange PROVE v = (v % Weight[5]) + Digit(v, 5)
  <2>1. v \div Weight[5] \in Nat /\ v = (v \div Weight[5]) * Weight[5] + (v % Weight[5])
    <3> DEFINE n == Weight[5]
    <3>1. n \in Nat \ {0} BY <1>1
    <3> HIDE DEF n
    <3>2. v \div n \in Nat /\ v = (v \div n) * n + (v % n) BY <3>1, Divided
    <3> QED BY <3>2 DEF n
  <2>2. (v \div Weight[5]) % ByteRange = v \div Weight[5] BY <1>2, <1>11, <2>1, SmallRemainder
  <2>3. Digit(v, 5) = (v \div Weight[5]) * Weight[5] BY <2>2 DEF Digit
  <2>4. Digit(v, 5) \in Nat /\ v % Weight[5] \in Nat BY <1>5
  <2> DEFINE x == (v \div Weight[5]) * Weight[5]
             y == v % Weight[5]
             z == Digit(v, 5)
  <2>5. v = x + y /\ z = x /\ y \in Nat /\ z \in Nat BY <2>1, <2>3, <2>4
  <2> HIDE DEF x, y, z
  <2>6. v = y + z BY <2>5
  <2> QED BY <2>6 DEF y, z
<1> DEFINE d(i) == Digit(v, i)
           m(i) == v % Weight[i]
<1>12. /\ d(0) \in Nat /\ d(1) \in Nat /\ d(2) \in Nat /\ d(3) \in Nat /\ d(4) \in Nat /\ d(5) \in Nat
       /\ m(1) = d(0) /\ m(2) = m(1) + d(1) /\ m(3) = m(2) + d(2) /\ m(4) = m(3) + d(3) /\ m(5) = m(4) + d(4)
       /\ v \div Weight[5] < ByteRange => v = m(5) + d(5)
  BY <1>4, <1>5, <1>6, <1>7, <1>8, <1>9, <1>10, <1>11
<1> HIDE DEF d, m
<1>13. /\ d(0) = m(1) /\ d(0) + d(1) = m(2) /\ d(0) + d(1) + d(2) + d(3) = m(4)
       /\ v \div Weight[5] < ByteRange => d(0) + d(1) + d(2) + d(3) + d(4) + d(5) = v
  BY <1>12
<1> QED BY <1>13 DEF d, m

-----------------------------------------------------------------------------
(* Where what was written is in a file.                                     *)

\* These bytes stand after position p of a file.
At(f, p, s) == p + Len(s) <= Len(f) /\ \A i \in 1..Len(s) : f[p + i] = s[i]

LEMMA AtItself == ASSUME NEW s \in Seq(Byte) PROVE At(s, 0, s)
BY DEF At

LEMMA AtParts ==
  ASSUME NEW f \in Seq(Byte), NEW p \in Nat, NEW s \in Seq(Byte), NEW t \in Seq(Byte), At(f, p, s \o t)
  PROVE  At(f, p, s) /\ At(f, p + Len(s), t)
<1> DEFINE m == Len(s)
           n == Len(t)
<1>1. m \in Nat /\ n \in Nat /\ Len(f) \in Nat /\ Len(s \o t) = m + n OBVIOUS
<1>2. \A i \in 1..(m + n) : (s \o t)[i] = IF i <= m THEN s[i] ELSE t[i - m] OBVIOUS
<1>3. p + (m + n) <= Len(f) /\ \A i \in 1..(m + n) : f[p + i] = (s \o t)[i] BY <1>1 DEF At
<1> HIDE DEF m, n
<1>4. p + m <= Len(f) /\ (p + m) + n <= Len(f) BY <1>1, <1>3
<1>5. ASSUME NEW i \in 1..m PROVE f[p + i] = s[i]
  <2>1. i \in 1..(m + n) /\ i <= m BY <1>1
  <2> QED BY <1>2, <1>3, <2>1
<1>6. ASSUME NEW i \in 1..n PROVE f[(p + m) + i] = t[i]
  <2>1. m + i \in 1..(m + n) /\ ~(m + i <= m) /\ (m + i) - m = i /\ (p + m) + i = p + (m + i) BY <1>1
  <2> QED BY <1>2, <1>3, <2>1
<1> QED BY <1>4, <1>5, <1>6 DEF At, m, n

\* More bytes after it move nothing.
LEMMA AtExtended ==
  ASSUME NEW f \in Seq(Byte), NEW g \in Seq(Byte), NEW p \in Nat, NEW s \in Seq(Byte)
  PROVE  At(f, p, s) => At(f \o g, p, s)
<1> SUFFICES ASSUME At(f, p, s) PROVE At(f \o g, p, s) OBVIOUS
<1>1. Len(f) \in Nat /\ Len(g) \in Nat /\ Len(s) \in Nat /\ Len(f \o g) = Len(f) + Len(g) OBVIOUS
<1>2. \A i \in 1..Len(f) : (f \o g)[i] = f[i] OBVIOUS
<1>3. ASSUME NEW i \in 1..Len(s) PROVE (f \o g)[p + i] = s[i]
  <2>1. p + i \in 1..Len(f) BY <1>1 DEF At
  <2> QED BY <1>2, <2>1 DEF At
<1>4. p + Len(s) <= Len(f) + Len(g) BY <1>1 DEF At
<1> QED BY <1>1, <1>3, <1>4 DEF At

LEMMA AtEnd ==
  ASSUME NEW f \in Seq(Byte), NEW s \in Seq(Byte)
  PROVE  At(f \o s, Len(f), s)
<1>1. Len(f) \in Nat /\ Len(s) \in Nat /\ Len(f \o s) = Len(f) + Len(s) OBVIOUS
<1>2. \A i \in 1..Len(s) : (f \o s)[Len(f) + i] = s[i] OBVIOUS
<1> QED BY <1>1, <1>2 DEF At

\* Numbers.
LEMMA NumSum ==
  \A f, p, w :
    LET Low(i) == IF i < w /\ p + w - i <= Len(f) THEN f[p + w - i] * Weight[i] ELSE 0
    IN  Num(f, p, w) = Low(0) + Low(1) + Low(2) + Low(3) + Low(4) + Low(5)
<1> TAKE f, p, w
<1> DEFINE Low(i) == IF i < w /\ p + w - i <= Len(f) THEN f[p + w - i] * Weight[i] ELSE 0
           low == [i \in 0..5 |-> Low(i)]
<1>1. Num(f, p, w) = Total(low) BY DEF Num
<1> HIDE DEF Low
<1>2. /\ low[0] = Low(0) /\ low[1] = Low(1) /\ low[2] = Low(2)
      /\ low[3] = Low(3) /\ low[4] = Low(4) /\ low[5] = Low(5)
  OBVIOUS
<1> HIDE DEF low
<1>3. Num(f, p, w) = Low(0) + Low(1) + Low(2) + Low(3) + Low(4) + Low(5) BY <1>1, <1>2 DEF Total
<1> QED BY <1>3 DEF Low

LEMMA NumAt ==
  ASSUME NEW f \in Seq(Byte), NEW p \in Nat, NEW v \in Nat
  PROVE  /\ At(f, p, U(1, v)) => Num(f, p, 1) = v % Weight[1]
         /\ At(f, p, U(2, v)) => Num(f, p, 2) = v % Weight[2]
         /\ At(f, p, U(4, v)) => Num(f, p, 4) = v % Weight[4]
         /\ At(f, p, U(8, v)) /\ v \div Weight[5] < ByteRange => Num(f, p, 8) = v
<1> DEFINE Low(w, i) == IF i < w /\ p + w - i <= Len(f) THEN f[p + w - i] * Weight[i] ELSE 0
<1>1. \A w : Num(f, p, w) = Low(w, 0) + Low(w, 1) + Low(w, 2) + Low(w, 3) + Low(w, 4) + Low(w, 5)
  BY NumSum
<1>2. ASSUME NEW w \in {1, 2, 4, 8}, At(f, p, U(w, v)), NEW i \in 0..5
      PROVE  Low(w, i) = IF i < w THEN Digit(v, i) ELSE 0
  <2>1. CASE i < w
    <3>1. w - i \in 1..w /\ w - (w - i) = i /\ ~(i > 5) /\ Len(f) \in Nat BY <2>1
    <3>2. U(w, v)[w - i] = (v \div Weight[i]) % ByteRange BY <3>1 DEF U
    <3>3. Len(U(w, v)) = w BY UBytes
    <3>4. p + (w - i) <= Len(f) /\ f[p + (w - i)] = U(w, v)[w - i] BY <1>2, <3>1, <3>3 DEF At
    <3>5. p + w - i = p + (w - i) BY <2>1
    <3> QED BY <2>1, <3>2, <3>4, <3>5 DEF Digit
  <2>2. CASE ~(i < w) BY <2>2
  <2> QED BY <2>1, <2>2
<1> HIDE DEF Low
<1>3. \A i \in 0..5 : Digit(v, i) \in Nat BY DigitNat
<1>4. ASSUME At(f, p, U(1, v)) PROVE Num(f, p, 1) = v % Weight[1]
  <2>1. /\ Low(1, 0) = Digit(v, 0) /\ Low(1, 1) = 0 /\ Low(1, 2) = 0 /\ Low(1, 3) = 0
        /\ Low(1, 4) = 0 /\ Low(1, 5) = 0 BY <1>2, <1>4
  <2> QED BY <1>1, <1>3, <2>1, Digits
<1>5. ASSUME At(f, p, U(2, v)) PROVE Num(f, p, 2) = v % Weight[2]
  <2>1. /\ Low(2, 0) = Digit(v, 0) /\ Low(2, 1) = Digit(v, 1) /\ Low(2, 2) = 0 /\ Low(2, 3) = 0
        /\ Low(2, 4) = 0 /\ Low(2, 5) = 0 BY <1>2, <1>5
  <2> QED BY <1>1, <1>3, <2>1, Digits
<1>6. ASSUME At(f, p, U(4, v)) PROVE Num(f, p, 4) = v % Weight[4]
  <2>1. /\ Low(4, 0) = Digit(v, 0) /\ Low(4, 1) = Digit(v, 1) /\ Low(4, 2) = Digit(v, 2)
        /\ Low(4, 3) = Digit(v, 3) /\ Low(4, 4) = 0 /\ Low(4, 5) = 0 BY <1>2, <1>6
  <2> QED BY <1>1, <1>3, <2>1, Digits
<1>7. ASSUME At(f, p, U(8, v)), v \div Weight[5] < ByteRange PROVE Num(f, p, 8) = v
  <2>1. /\ Low(8, 0) = Digit(v, 0) /\ Low(8, 1) = Digit(v, 1) /\ Low(8, 2) = Digit(v, 2)
        /\ Low(8, 3) = Digit(v, 3) /\ Low(8, 4) = Digit(v, 4) /\ Low(8, 5) = Digit(v, 5) BY <1>2, <1>7
  <2> QED BY <1>1, <1>7, <2>1, Digits
<1> QED BY <1>4, <1>5, <1>6, <1>7

\* A number that fits its field is read as it was.
LEMMA FittingAt ==
  ASSUME NEW f \in Seq(Byte), NEW p \in Nat, NEW v
  PROVE  /\ At(f, p, U(1, v)) /\ Fits(v, 1) => Num(f, p, 1) = v
         /\ At(f, p, U(2, v)) /\ Fits(v, 2) => Num(f, p, 2) = v
         /\ At(f, p, U(4, v)) /\ Fits(v, 4) => Num(f, p, 4) = v
         /\ At(f, p, U(8, v)) /\ Wide(v) => Num(f, p, 8) = v
<1>1. \A k \in 0..5 : Weight[k] \in Nat \ {0} BY Weights
<1>2. \A k \in 0..5 : Fits(v, k) => v \in Nat /\ v % Weight[k] = v BY <1>1, SmallRemainder DEF Fits
<1>3. Wide(v) => v \in Nat /\ v \div Weight[5] < ByteRange BY DEF Wide
<1> QED BY <1>2, <1>3, NumAt

LEMMA ByteAt ==
  ASSUME NEW f \in Seq(Byte), NEW p \in Nat, NEW b \in Byte, At(f, p, <<b>>)
  PROVE  Num(f, p, 1) = b
<1>1. ByteRange \in Nat /\ Weight[0] = 1 BY FormatAssumption, NextWeight
<1>2. p + 1 <= Len(f) /\ f[p + 1] = b BY DEF At
<1>3. b \in Int BY <1>1 DEF Byte
<1>4. Num(f, p, 1) = f[p + 1] * Weight[0] + 0 + 0 + 0 + 0 + 0
  <2> DEFINE Low(i) == IF i < 1 /\ p + 1 - i <= Len(f) THEN f[p + 1 - i] * Weight[i] ELSE 0
  <2>1. Num(f, p, 1) = Low(0) + Low(1) + Low(2) + Low(3) + Low(4) + Low(5) BY NumSum
  <2>2. Low(1) = 0 /\ Low(2) = 0 /\ Low(3) = 0 /\ Low(4) = 0 /\ Low(5) = 0 OBVIOUS
  <2>3. p + 1 - 0 = p + 1 OBVIOUS
  <2>4. Low(0) = f[p + 1] * Weight[0] BY <1>2, <2>3
  <2> HIDE DEF Low
  <2> QED BY <2>1, <2>2, <2>4
<1> QED BY <1>1, <1>2, <1>3, <1>4

LEMMA ReadAt ==
  ASSUME NEW f \in Seq(Byte), NEW p \in Nat, NEW s \in Seq(Byte), At(f, p, s)
  PROVE  Read(f, p, Len(s)) = s
<1>1. Len(s) \in Nat /\ Len(f) \in Nat OBVIOUS
<1>2. \A i \in 1..Len(s) : p + i <= Len(f) /\ f[p + i] = s[i] BY <1>1 DEF At
<1>3. s = [i \in 1..Len(s) |-> s[i]] OBVIOUS
<1> QED BY <1>2, <1>3 DEF Read

\* From a number to another, one by one.
LEMMA OneByOne ==
  ASSUME NEW m \in Nat, NEW n \in Nat, NEW S, m \in S,
         \A i \in m..n : i \in S /\ i # n => i + 1 \in S
  PROVE  \A i \in m..n : i \in S
<1> DEFINE Bad == {i \in m..n : i \notin S}
<1>1. SUFFICES ASSUME Bad # {} PROVE FALSE OBVIOUS
<1>2. Bad \in SUBSET Nat OBVIOUS
<1>3. PICK i \in Bad : \A j \in Bad : i <= j
  <2> HIDE DEF Bad
  <2> QED BY <1>1, <1>2, Smallest
<1>4. i \in m..n /\ i \notin S /\ i # m OBVIOUS
<1>5. i - 1 \in m..n /\ ~(i <= i - 1) /\ i - 1 # n /\ (i - 1) + 1 = i BY <1>4
<1>6. i - 1 \in S BY <1>3, <1>5
<1> DEFINE k == i - 1
<1> HIDE DEF k
<1>7. k \in m..n /\ k # n /\ k + 1 = i /\ k \in S BY <1>5, <1>6 DEF k
<1>8. k + 1 \in S BY <1>7
<1> QED BY <1>4, <1>7, <1>8

\* The places of sequences put one after the other.
Starts(st, seqs) ==
  /\ st \in [1..(Len(seqs) + 1) -> Nat]
  /\ st[1] = 0 /\ \A i \in 1..Len(seqs) : st[i + 1] = st[i] + Len(seqs[i])
  /\ st[Len(seqs) + 1] = Len(FlattenSeq(seqs))
LEMMA FlattenAt ==
  ASSUME NEW seqs \in Seq(Seq(Byte))
  PROVE  \E st : /\ Starts(st, seqs)
                 /\ \A f \in Seq(Byte), p \in Nat : At(f, p, FlattenSeq(seqs)) =>
                      \A i \in 1..Len(seqs) : At(f, p + st[i], seqs[i])
<1> DEFINE N == Len(seqs)
<1>1. N \in Nat /\ \A i \in 1..N : seqs[i] \in Seq(Byte) OBVIOUS
<1>2. CASE N = 0
  <2>1. seqs = <<>> BY <1>2, EmptySeq
  <2>2. FlattenSeq(seqs) = <<>> BY <2>1 DEF FlattenSeq
  <2> DEFINE st == [i \in 1..1 |-> 0]
  <2>3. Starts(st, seqs) BY <1>2, <2>2 DEF Starts
  <2> QED BY <1>2, <2>3
<1>3. CASE N # 0
  <2>1. PICK g : Flattens(g, seqs) /\ FlattenSeq(seqs) = g[N] BY <1>3, Flattening
  <2>2. \A i \in 1..N : g[i] = IF i = 1 THEN seqs[i] ELSE g[i - 1] \o seqs[i]
    BY <2>1 DEF Flattens
  <2>3. \A i \in 1..N : g[i] \in Seq(Byte)
    <3> DEFINE Bad == {i \in 1..N : g[i] \notin Seq(Byte)}
    <3>1. SUFFICES ASSUME Bad # {} PROVE FALSE OBVIOUS
    <3>2. Bad \in SUBSET Nat BY <1>1
    <3>3. PICK i \in Bad : \A j \in Bad : i <= j
      <4> HIDE DEF Bad
      <4> QED BY <3>1, <3>2, Smallest
    <3> HIDE DEF N
    <3>4. i \in 1..N /\ g[i] \notin Seq(Byte) OBVIOUS
    <3>5. i # 1 BY <1>1, <2>2, <3>4
    <3>6. i - 1 \in 1..N /\ ~(i <= i - 1) BY <1>1, <3>4, <3>5
    <3>7. g[i - 1] \in Seq(Byte) BY <3>3, <3>6
    <3>8. g[i] = g[i - 1] \o seqs[i] /\ seqs[i] \in Seq(Byte) BY <1>1, <2>2, <3>4, <3>5
    <3> QED BY <3>4, <3>7, <3>8, Joined
  <2> DEFINE st == [i \in 1..(N + 1) |-> IF i = 1 THEN 0 ELSE Len(g[i - 1])]
  <2>4. \A i \in 1..N : Len(g[i]) \in Nat BY <2>3
  <2>5. st \in [1..(N + 1) -> Nat]
    <3> SUFFICES ASSUME NEW i \in 1..(N + 1), i # 1 PROVE Len(g[i - 1]) \in Nat OBVIOUS
    <3>1. i - 1 \in 1..N BY <1>1
    <3> QED BY <2>4, <3>1
  <2>6. ASSUME NEW i \in 1..N PROVE st[i + 1] = st[i] + Len(seqs[i])
    <3> HIDE DEF N
    <3>1. i \in 1..(N + 1) /\ i + 1 \in 1..(N + 1) /\ i + 1 # 1 /\ (i + 1) - 1 = i BY <1>1
    <3>2. st[i + 1] = Len(g[i]) BY <3>1
    <3>3. CASE i = 1 BY <1>1, <2>2, <3>1, <3>2, <3>3
    <3>4. CASE i # 1
      <4>1. i - 1 \in 1..N BY <1>1, <3>4
      <4>2. st[i] = Len(g[i - 1]) /\ g[i] = g[i - 1] \o seqs[i] BY <2>2, <3>1, <3>4
      <4>3. g[i - 1] \in Seq(Byte) /\ seqs[i] \in Seq(Byte) BY <1>1, <2>3, <4>1
      <4>4. Len(g[i - 1] \o seqs[i]) = Len(g[i - 1]) + Len(seqs[i])
        <5> DEFINE a == g[i - 1]
                   b == seqs[i]
        <5> HIDE DEF a, b
        <5>1. a \in Seq(Byte) /\ b \in Seq(Byte) BY <4>3 DEF a, b
        <5>2. Len(a \o b) = Len(a) + Len(b) BY <5>1
        <5> QED BY <5>2 DEF a, b
      <4> HIDE DEF st
      <4> QED BY <3>2, <4>2, <4>4
    <3> QED BY <3>3, <3>4
  <2>7. st[1] = 0 /\ st[N + 1] = Len(FlattenSeq(seqs))
    <3> HIDE DEF N
    <3>1. 1 \in 1..(N + 1) /\ N + 1 \in 1..(N + 1) /\ N + 1 # 1 /\ (N + 1) - 1 = N BY <1>1, <1>3
    <3> QED BY <2>1, <3>1
  <2>8. Starts(st, seqs) BY <2>5, <2>6, <2>7 DEF Starts
  <2>9. ASSUME NEW f \in Seq(Byte), NEW p \in Nat, At(f, p, FlattenSeq(seqs)), NEW i \in 1..N
        PROVE  At(f, p + st[i], seqs[i])
    <3> DEFINE Bad == {j \in 0..(N - 1) : ~At(f, p, g[N - j])}
    <3> HIDE DEF N, st
    <3>1. Bad = {}
      <4>1. SUFFICES ASSUME Bad # {} PROVE FALSE OBVIOUS
      <4>2. Bad \in SUBSET Nat BY <1>1
      <4>3. PICK j \in Bad : \A k \in Bad : j <= k
        <5> HIDE DEF Bad
        <5> QED BY <4>1, <4>2, Smallest
      <4>4. j \in 0..(N - 1) /\ ~At(f, p, g[N - j]) OBVIOUS
      <4>5. j # 0 BY <1>1, <2>1, <2>9, <4>4
      <4>6. j - 1 \in 0..(N - 1) /\ ~(j <= j - 1) /\ N - (j - 1) = (N - j) + 1 BY <1>1, <4>4, <4>5
      <4>7. At(f, p, g[(N - j) + 1]) BY <4>3, <4>6
      <4>8. N - j \in 1..N /\ (N - j) + 1 \in 1..N /\ (N - j) + 1 # 1 /\ ((N - j) + 1) - 1 = N - j
        BY <1>1, <4>4, <4>5
      <4> DEFINE m == N - j
      <4> HIDE DEF m
      <4>9. m \in 1..N /\ m + 1 \in 1..N /\ m + 1 # 1 /\ (m + 1) - 1 = m /\ At(f, p, g[m + 1]) /\ ~At(f, p, g[m])
        BY <4>4, <4>7, <4>8 DEF m
      <4>10. g[m + 1] = g[m] \o seqs[m + 1] BY <2>2, <4>9
      <4>11. g[m] \in Seq(Byte) /\ seqs[m + 1] \in Seq(Byte) BY <1>1, <2>3, <4>9
      <4> QED BY <4>9, <4>10, <4>11, AtParts
    <3>2. \A k \in 1..N : At(f, p, g[k])
      <4> SUFFICES ASSUME NEW k \in 1..N PROVE At(f, p, g[k]) OBVIOUS
      <4>1. N - k \in 0..(N - 1) /\ N - (N - k) = k BY <1>1
      <4> QED BY <3>1, <4>1
    <3>3. CASE i = 1
      <4>1. st[i] = 0 /\ g[i] = seqs[i] /\ p + 0 = p BY <2>2, <2>7, <3>3
      <4> QED BY <3>2, <4>1
    <3>4. CASE i # 1
      <4>1. i - 1 \in 1..N /\ i \in 1..(N + 1) BY <1>1, <3>4
      <4>2. st[i] = Len(g[i - 1]) /\ g[i] = g[i - 1] \o seqs[i] BY <2>2, <3>4, <4>1 DEF st
      <4>3. g[i - 1] \in Seq(Byte) /\ seqs[i] \in Seq(Byte) BY <1>1, <2>3, <4>1
      <4>4. At(f, p, g[i - 1] \o seqs[i]) BY <3>2, <4>2
      <4> QED BY <4>2, <4>3, <4>4, AtParts
    <3> QED BY <3>3, <3>4
  <2> QED BY <2>8, <2>9
<1> QED BY <1>2, <1>3

\* The parts of what is written one after the other, each after those before it.
LEMMA TwoTogether ==
  ASSUME NEW a \in Seq(Byte), NEW b \in Seq(Byte)
  PROVE  a \o b \in Seq(Byte) /\ Len(a \o b) = Len(a) + Len(b)
BY Joined, JoinedParts

LEMMA ThreeTogether ==
  ASSUME NEW a \in Seq(Byte), NEW b \in Seq(Byte), NEW c \in Seq(Byte)
  PROVE  /\ a \o b \o c \in Seq(Byte)
         /\ Len(a \o b \o c) = Len(a) + Len(b) + Len(c)
<1> DEFINE s == a \o b
<1>1. s \in Seq(Byte) /\ Len(s) = Len(a) + Len(b) BY TwoTogether
<1> HIDE DEF s
<1>2. s \o c \in Seq(Byte) /\ Len(s \o c) = Len(s) + Len(c) BY <1>1, TwoTogether
<1> QED BY <1>1, <1>2 DEF s

LEMMA FourTogether ==
  ASSUME NEW a \in Seq(Byte), NEW b \in Seq(Byte), NEW c \in Seq(Byte), NEW d \in Seq(Byte)
  PROVE  /\ a \o b \o c \o d \in Seq(Byte)
         /\ Len(a \o b \o c \o d) = Len(a) + Len(b) + Len(c) + Len(d)
<1> DEFINE s == a \o b \o c
<1>1. s \in Seq(Byte) /\ Len(s) = Len(a) + Len(b) + Len(c) BY ThreeTogether
<1> HIDE DEF s
<1>2. s \o d \in Seq(Byte) /\ Len(s \o d) = Len(s) + Len(d) BY <1>1, TwoTogether
<1> QED BY <1>1, <1>2 DEF s

LEMMA FiveTogether ==
  ASSUME NEW a \in Seq(Byte), NEW b \in Seq(Byte), NEW c \in Seq(Byte), NEW d \in Seq(Byte),
         NEW e \in Seq(Byte)
  PROVE  /\ a \o b \o c \o d \o e \in Seq(Byte)
         /\ Len(a \o b \o c \o d \o e) = Len(a) + Len(b) + Len(c) + Len(d) + Len(e)
<1> DEFINE s == a \o b \o c \o d
<1>1. s \in Seq(Byte) /\ Len(s) = Len(a) + Len(b) + Len(c) + Len(d) BY FourTogether
<1> HIDE DEF s
<1>2. s \o e \in Seq(Byte) /\ Len(s \o e) = Len(s) + Len(e) BY <1>1, TwoTogether
<1> QED BY <1>1, <1>2 DEF s

LEMMA SixTogether ==
  ASSUME NEW a \in Seq(Byte), NEW b \in Seq(Byte), NEW c \in Seq(Byte), NEW d \in Seq(Byte),
         NEW e \in Seq(Byte), NEW g \in Seq(Byte)
  PROVE  /\ a \o b \o c \o d \o e \o g \in Seq(Byte)
         /\ Len(a \o b \o c \o d \o e \o g) = Len(a) + Len(b) + Len(c) + Len(d) + Len(e) + Len(g)
<1> DEFINE s == a \o b \o c \o d \o e
<1>1. s \in Seq(Byte) /\ Len(s) = Len(a) + Len(b) + Len(c) + Len(d) + Len(e) BY FiveTogether
<1> HIDE DEF s
<1>2. s \o g \in Seq(Byte) /\ Len(s \o g) = Len(s) + Len(g) BY <1>1, TwoTogether
<1> QED BY <1>1, <1>2 DEF s

LEMMA SevenTogether ==
  ASSUME NEW a \in Seq(Byte), NEW b \in Seq(Byte), NEW c \in Seq(Byte), NEW d \in Seq(Byte),
         NEW e \in Seq(Byte), NEW g \in Seq(Byte), NEW j \in Seq(Byte)
  PROVE  /\ a \o b \o c \o d \o e \o g \o j \in Seq(Byte)
         /\ Len(a \o b \o c \o d \o e \o g \o j) = Len(a) + Len(b) + Len(c) + Len(d) + Len(e) + Len(g) + Len(j)
<1> DEFINE s == a \o b \o c \o d \o e \o g
<1>1. s \in Seq(Byte) /\ Len(s) = Len(a) + Len(b) + Len(c) + Len(d) + Len(e) + Len(g) BY SixTogether
<1> HIDE DEF s
<1>2. s \o j \in Seq(Byte) /\ Len(s \o j) = Len(s) + Len(j) BY <1>1, TwoTogether
<1> QED BY <1>1, <1>2 DEF s

LEMMA EightTogether ==
  ASSUME NEW a \in Seq(Byte), NEW b \in Seq(Byte), NEW c \in Seq(Byte), NEW d \in Seq(Byte),
         NEW e \in Seq(Byte), NEW g \in Seq(Byte), NEW j \in Seq(Byte), NEW k \in Seq(Byte)
  PROVE  /\ a \o b \o c \o d \o e \o g \o j \o k \in Seq(Byte)
         /\ Len(a \o b \o c \o d \o e \o g \o j \o k)
                                    = Len(a) + Len(b) + Len(c) + Len(d) + Len(e) + Len(g) + Len(j) + Len(k)
<1> DEFINE s == a \o b \o c \o d \o e \o g \o j
<1>1. s \in Seq(Byte) /\ Len(s) = Len(a) + Len(b) + Len(c) + Len(d) + Len(e) + Len(g) + Len(j) BY SevenTogether
<1> HIDE DEF s
<1>2. s \o k \in Seq(Byte) /\ Len(s \o k) = Len(s) + Len(k) BY <1>1, TwoTogether
<1> QED BY <1>1, <1>2 DEF s

LEMMA NineTogether ==
  ASSUME NEW a \in Seq(Byte), NEW b \in Seq(Byte), NEW c \in Seq(Byte), NEW d \in Seq(Byte),
         NEW e \in Seq(Byte), NEW g \in Seq(Byte), NEW j \in Seq(Byte), NEW k \in Seq(Byte),
         NEW l \in Seq(Byte)
  PROVE  /\ a \o b \o c \o d \o e \o g \o j \o k \o l \in Seq(Byte)
         /\ Len(a \o b \o c \o d \o e \o g \o j \o k \o l)
              = Len(a) + Len(b) + Len(c) + Len(d) + Len(e) + Len(g) + Len(j) + Len(k) + Len(l)
<1> DEFINE s == a \o b \o c \o d \o e \o g \o j \o k
<1>1. s \in Seq(Byte) /\ Len(s) = Len(a) + Len(b) + Len(c) + Len(d) + Len(e) + Len(g) + Len(j) + Len(k) BY EightTogether
<1> HIDE DEF s
<1>2. s \o l \in Seq(Byte) /\ Len(s \o l) = Len(s) + Len(l) BY <1>1, TwoTogether
<1> QED BY <1>1, <1>2 DEF s

LEMMA ThreeParts ==
  ASSUME NEW f \in Seq(Byte), NEW p \in Nat,
         NEW a \in Seq(Byte), NEW b \in Seq(Byte), NEW c \in Seq(Byte),
         At(f, p, a \o b \o c)
  PROVE  /\ At(f, p, a)
         /\ At(f, p + Len(a), b)
         /\ At(f, p + Len(a) + Len(b), c)
<1> DEFINE s == a \o b
<1>1. Len(a) \in Nat /\ Len(b) \in Nat /\ Len(c) \in Nat OBVIOUS
<1>2. s \in Seq(Byte) /\ Len(s) = Len(a) + Len(b) BY TwoTogether
<1> HIDE DEF s
<1>3. At(f, p, s \o c) BY DEF s
<1>4. /\ At(f, p, s)
      /\ At(f, p + Len(s), c)
  BY <1>2, <1>3, AtParts
<1>5. p + Len(s) = p + Len(a) + Len(b) BY <1>1, <1>2
<1>6. At(f, p, a \o b) BY <1>4 DEF s
<1>7. /\ At(f, p, a)
      /\ At(f, p + Len(a), b)
  BY <1>6, AtParts
<1> QED BY <1>4, <1>5, <1>7

LEMMA FourParts ==
  ASSUME NEW f \in Seq(Byte), NEW p \in Nat,
         NEW a \in Seq(Byte), NEW b \in Seq(Byte), NEW c \in Seq(Byte), NEW d \in Seq(Byte),
         At(f, p, a \o b \o c \o d)
  PROVE  /\ At(f, p, a)
         /\ At(f, p + Len(a), b)
         /\ At(f, p + Len(a) + Len(b), c)
         /\ At(f, p + Len(a) + Len(b) + Len(c), d)
<1> DEFINE s == a \o b \o c
<1>1. Len(a) \in Nat /\ Len(b) \in Nat /\ Len(c) \in Nat /\ Len(d) \in Nat OBVIOUS
<1>2. s \in Seq(Byte) /\ Len(s) = Len(a) + Len(b) + Len(c) BY ThreeTogether
<1> HIDE DEF s
<1>3. At(f, p, s \o d) BY DEF s
<1>4. /\ At(f, p, s)
      /\ At(f, p + Len(s), d)
  BY <1>2, <1>3, AtParts
<1>5. p + Len(s) = p + Len(a) + Len(b) + Len(c) BY <1>1, <1>2
<1>6. At(f, p, a \o b \o c) BY <1>4 DEF s
<1>7. /\ At(f, p, a)
      /\ At(f, p + Len(a), b)
      /\ At(f, p + Len(a) + Len(b), c)
  BY <1>6, ThreeParts
<1> QED BY <1>4, <1>5, <1>7

LEMMA FiveParts ==
  ASSUME NEW f \in Seq(Byte), NEW p \in Nat,
         NEW a \in Seq(Byte), NEW b \in Seq(Byte), NEW c \in Seq(Byte), NEW d \in Seq(Byte),
         NEW e \in Seq(Byte),
         At(f, p, a \o b \o c \o d \o e)
  PROVE  /\ At(f, p, a)
         /\ At(f, p + Len(a), b)
         /\ At(f, p + Len(a) + Len(b), c)
         /\ At(f, p + Len(a) + Len(b) + Len(c), d)
         /\ At(f, p + Len(a) + Len(b) + Len(c) + Len(d), e)
<1> DEFINE s == a \o b \o c \o d
<1>1. Len(a) \in Nat /\ Len(b) \in Nat /\ Len(c) \in Nat /\ Len(d) \in Nat /\ Len(e) \in Nat OBVIOUS
<1>2. s \in Seq(Byte) /\ Len(s) = Len(a) + Len(b) + Len(c) + Len(d) BY FourTogether
<1> HIDE DEF s
<1>3. At(f, p, s \o e) BY DEF s
<1>4. /\ At(f, p, s)
      /\ At(f, p + Len(s), e)
  BY <1>2, <1>3, AtParts
<1>5. p + Len(s) = p + Len(a) + Len(b) + Len(c) + Len(d) BY <1>1, <1>2
<1>6. At(f, p, a \o b \o c \o d) BY <1>4 DEF s
<1>7. /\ At(f, p, a)
      /\ At(f, p + Len(a), b)
      /\ At(f, p + Len(a) + Len(b), c)
      /\ At(f, p + Len(a) + Len(b) + Len(c), d)
  BY <1>6, FourParts
<1> QED BY <1>4, <1>5, <1>7

-----------------------------------------------------------------------------
(* What is read of a command is what was written.                           *)

LEMMA SmallFits == \A n \in 0..31 : Fits(n, 1) /\ Fits(n, 2)
<1>1. ByteRange \in Nat /\ ByteRange >= 32 BY FormatAssumption
<1>2. Weight[1] = ByteRange /\ Weight[2] = ByteRange * ByteRange BY <1>1, NextWeight
<1>3. ByteRange <= ByteRange * ByteRange
  <2>1. 1 * ByteRange <= ByteRange * ByteRange BY <1>1
  <2> QED BY <1>1, <2>1
<1> DEFINE q == ByteRange * ByteRange
<1>4. q \in Nat BY <1>1
<1> HIDE DEF q
<1> QED BY <1>1, <1>2, <1>3, <1>4 DEF Fits, q

LEMMA FitsInt == \A v, w : (Fits(v, w) => v \in Int) /\ (Wide(v) => v \in Int)
BY DEF Fits, Wide

\* The two halves of a number above a field of w bytes.
LEMMA Halves ==
  ASSUME NEW v \in Nat, NEW w \in {2, 4}
  PROVE  /\ v \div Weight[w] \in Nat /\ v = (v % Weight[w]) + (v \div Weight[w]) * Weight[w]
         /\ v < Weight[w] => v % Weight[w] = v
<1>1. Weight[w] \in Nat \ {0} BY Weights
<1> DEFINE n == Weight[w]
           q == v \div n
           r == v % n
<1>2. n \in Nat \ {0} BY <1>1
<1> HIDE DEF n
<1>3. q \in Nat /\ r \in Nat /\ v = q * n + r BY <1>2, Divided
<1>4. v < n => r = v BY <1>2, SmallRemainder
<1> HIDE DEF q, r
<1>5. q * n \in Nat BY <1>2, <1>3
<1>6. v = r + q * n BY <1>3, <1>5
<1> QED BY <1>3, <1>4, <1>6 DEF q, r, n

\* The upper half of a number that fits twice the field fits the field.
LEMMA UpperHalf ==
  /\ \A v : Fits(v, 4) => Fits(v \div Weight[2], 2)
  /\ \A v : Wide(v) => Fits(v \div Weight[4], 4)
<1> DEFINE b == ByteRange
           w2 == b * b
           w4 == b * (b * w2)
<1>1. b \in Nat \ {0} /\ w2 \in Nat \ {0} /\ b * w2 \in Nat \ {0} /\ w4 \in Nat \ {0}
  BY FormatAssumption, Product
<1>2. /\ Weight[2] = w2 /\ Weight[4] = w4 /\ Weight[5] = b * w4
  BY <1>1, NextWeight
<1> HIDE DEF w4
<1>3. ASSUME NEW v, Fits(v, 4) PROVE Fits(v \div Weight[2], 2)
  <2> DEFINE q == v \div w2
  <2>1. v \in Nat /\ v < w4 BY <1>2, <1>3 DEF Fits
  <2>2. w4 = w2 * w2 BY <1>1 DEF w4
  <2>3. q \in Nat /\ q * w2 <= v
    <3> HIDE DEF w2
    <3> DEFINE r == v % w2
    <3>1. q \in Nat /\ r \in Nat /\ v = q * w2 + r BY <1>1, <2>1, Divided
    <3> HIDE DEF q, r
    <3>2. q * w2 \in Nat BY <1>1, <3>1
    <3> QED BY <3>1, <3>2
  <2> HIDE DEF q, w2
  <2>4. q < w2
    <3>1. SUFFICES ASSUME w2 <= q PROVE FALSE BY <1>1, <2>3
    <3>2. w2 * w2 <= q * w2
      <4>1. q - w2 \in Nat /\ (q - w2) * w2 \in Nat /\ q * w2 = w2 * w2 + (q - w2) * w2 BY <1>1, <2>3, <3>1
      <4>2. w2 * w2 \in Nat BY <1>1
      <4> QED BY <4>1, <4>2
    <3>3. q * w2 \in Nat BY <1>1, <2>3
    <3> QED BY <1>1, <2>1, <2>2, <2>3, <3>2, <3>3
  <2> QED BY <1>2, <2>3, <2>4 DEF Fits, q
<1>4. ASSUME NEW v, Wide(v) PROVE Fits(v \div Weight[4], 4)
  <2> DEFINE q == v \div w4
             n == b * w4
             t == v \div n
  <2>1. v \in Nat /\ t < b BY <1>2, <1>4 DEF Wide
  <2>2. n \in Nat \ {0} BY <1>1, Product
  <2> HIDE DEF w2
  <2>3. q \in Nat /\ q * w4 <= v
    <3> DEFINE r == v % w4
    <3>1. q \in Nat /\ r \in Nat /\ v = q * w4 + r BY <1>1, <2>1, Divided
    <3> HIDE DEF q, r
    <3>2. q * w4 \in Nat BY <1>1, <3>1
    <3> QED BY <3>1, <3>2
  <2>4. t \in Nat /\ v < (t + 1) * n
    <3> HIDE DEF n
    <3> DEFINE r == v % n
    <3>1. t \in Nat /\ r \in Nat /\ r < n /\ v = t * n + r BY <2>1, <2>2, Divided
    <3> HIDE DEF t, r
    <3>2. t * n \in Nat /\ (t + 1) * n = t * n + n BY <2>2, <3>1
    <3> QED BY <2>2, <3>1, <3>2
  <2> HIDE DEF t
  <2>5. (t + 1) * n <= w2 * w4
    <3>1. t + 1 <= b BY <1>1, <2>1, <2>4
    <3>2. (t + 1) * n <= b * n
      <4> HIDE DEF n
      <4>1. b - (t + 1) \in Nat BY <1>1, <2>4, <3>1
      <4>2. (b - (t + 1)) * n \in Nat /\ b * n = (t + 1) * n + (b - (t + 1)) * n
        BY <1>1, <2>2, <2>4, <4>1
      <4>3. (t + 1) * n \in Nat BY <2>2, <2>4
      <4> QED BY <4>2, <4>3
    <3>3. b * n = w2 * w4 BY <1>1 DEF w2
    <3> QED BY <3>2, <3>3
  <2> HIDE DEF n, q
  <2>6. q * w4 < w2 * w4
    <3>1. q * w4 \in Nat /\ w2 * w4 \in Nat /\ (t + 1) * n \in Nat BY <1>1, <2>2, <2>3, <2>4
    <3> QED BY <2>1, <2>3, <2>4, <2>5, <3>1
  <2>7. q < w2
    <3>1. SUFFICES ASSUME w2 <= q PROVE FALSE BY <1>1, <2>3
    <3>2. q - w2 \in Nat /\ (q - w2) * w4 \in Nat /\ q * w4 = w2 * w4 + (q - w2) * w4 BY <1>1, <2>3, <3>1
    <3>3. w2 * w4 \in Nat BY <1>1
    <3> QED BY <2>6, <3>2, <3>3
  <2>8. w2 <= w4
    <3>1. w4 = b * (b * w2) BY DEF w4
    <3>2. b * w2 >= w2 /\ b * (b * w2) >= b * w2
      <4>1. \A x \in Nat : b * x >= x
        <5> SUFFICES ASSUME NEW x \in Nat PROVE b * x >= x OBVIOUS
        <5>1. (b - 1) * x \in Nat /\ b * x = x + (b - 1) * x BY <1>1
        <5> QED BY <5>1
      <4> QED BY <1>1, <4>1
    <3> QED BY <1>1, <3>1, <3>2
  <2> QED BY <1>1, <1>2, <2>3, <2>7, <2>8 DEF Fits, q
<1> QED BY <1>3, <1>4

\* The bytes of a field.
LEMMA Widths == \A v : v \in Int =>
  /\ U(1, v) \in Seq(Byte) /\ Len(U(1, v)) = 1
  /\ U(2, v) \in Seq(Byte) /\ Len(U(2, v)) = 2
  /\ U(4, v) \in Seq(Byte) /\ Len(U(4, v)) = 4
  /\ U(8, v) \in Seq(Byte) /\ Len(U(8, v)) = 8
BY UBytes
LEMMA CodeAt ==
  ASSUME NEW f \in Seq(Byte), NEW p \in Nat, NEW n \in 0..31
  PROVE  /\ At(f, p, <<n>>) => Num(f, p, 1) = n
         /\ At(f, p, U(2, n)) => Num(f, p, 2) = n
BY ByteAt, FittingAt, SmallFits, Small
LEMMA OneByte == \A n \in 0..31 : <<n>> \in Seq(Byte) /\ Len(<<n>>) = 1
BY Small

\* A command is read as it was written, and the next one starts where it ends.
ReadsAs(f, p, c) ==
  /\ ParseCommand(f, p) = c
  /\ Len(WriteCommand(c)) \in Nat
  /\ p + 3 + Num(f, p + 1, 2) = p + Len(WriteCommand(c))

LEMMA AddDataRead ==
  ASSUME NEW f \in Seq(Byte), NEW p \in Nat, NEW c, At(f, p, WriteCommand(c)),
         IsCommand(c), Fits(c.offset, 4), c.type = "addData", c = AddData(c.offset, c.data),
         Fits(5 + Len(c.data), 2)
  PROVE  ReadsAs(f, p, c)
<1> DEFINE a == <<1>>
           b == U(2, 5 + Len(c.data))
           d == U(4, c.offset)
           e == <<0>>
           g == c.data
<1> DEFINE n == Len(g)
<1>1. g \in Seq(Byte) /\ n \in Nat /\ 5 + n \in Int /\ (5 + n) - 5 = n /\ c.offset \in Int
  <2>1. g \in Seq(Byte) /\ c.offset \in Int BY DEF IsCommand
  <2> QED BY <2>1
<1>2. WriteCommand(c) = a \o b \o d \o e \o g BY DEF WriteCommand
<1>3. a \in Seq(Byte) /\ b \in Seq(Byte) /\ d \in Seq(Byte) /\ e \in Seq(Byte) /\ g \in Seq(Byte)
  <2>1. a \in Seq(Byte) BY OneByte
  <2>2. b \in Seq(Byte) BY <1>1, Widths
  <2>3. d \in Seq(Byte) BY <1>1, Widths
  <2>4. e \in Seq(Byte) BY OneByte
  <2>5. g \in Seq(Byte) BY <1>1
  <2> QED BY <2>1, <2>2, <2>3, <2>4, <2>5
<1>4. Len(a) = 1 /\ Len(b) = 2 /\ Len(d) = 4 /\ Len(e) = 1 /\ Len(g) = n
  <2>1. Len(a) = 1 BY OneByte
  <2>2. Len(b) = 2 BY <1>1, Widths
  <2>3. Len(d) = 4 BY <1>1, Widths
  <2>4. Len(e) = 1 BY OneByte
  <2>5. Len(g) = n BY <1>1
  <2> QED BY <2>1, <2>2, <2>3, <2>4, <2>5
<1> HIDE DEF a, b, d, e, g
<1>5. At(f, p, a \o b \o d \o e \o g) BY <1>2
<1>6. /\ At(f, p, a)
      /\ At(f, p + Len(a), b)
      /\ At(f, p + Len(a) + Len(b), d)
      /\ At(f, p + Len(a) + Len(b) + Len(d), e)
      /\ At(f, p + Len(a) + Len(b) + Len(d) + Len(e), g)
  BY <1>3, <1>5, FiveParts, ZenonT(30)
<1>7. /\ p + Len(a) = p + 1
      /\ p + Len(a) + Len(b) = p + 3
      /\ p + Len(a) + Len(b) + Len(d) = (p + 3) + 4
      /\ p + Len(a) + Len(b) + Len(d) + Len(e) = (p + 3) + 5
  BY <1>4
<1>8. /\ At(f, p, a)
      /\ At(f, p + 1, b)
      /\ At(f, p + 3, d)
      /\ At(f, (p + 3) + 4, e)
      /\ At(f, (p + 3) + 5, g)
  BY <1>6, <1>7
<1>9. (p + 3) + 4 \in Nat /\ (p + 3) + 5 \in Nat /\ p + 1 \in Nat /\ p + 3 \in Nat OBVIOUS
<1>10. /\ Num(f, p, 1) = 1
      /\ Num(f, p + 1, 2) = 5 + n
      /\ Num(f, p + 3, 4) = c.offset
      /\ Read(f, (p + 3) + 5, n) = g
  <2>1. Num(f, p, 1) = 1
    <3>1. 1 \in 0..31 OBVIOUS
    <3>2. At(f, p, <<1>>) BY <1>8 DEF a
    <3> QED BY <1>9, <3>1, <3>2, CodeAt, Zenon
  <2>2. Num(f, p + 1, 2) = 5 + n BY <1>8, <1>9, FittingAt DEF b, g
  <2>3. Num(f, p + 3, 4) = c.offset BY <1>8, <1>9, FittingAt DEF d
  <2>4. Read(f, (p + 3) + 5, n) = g BY <1>1, <1>3, <1>8, <1>9, ReadAt
  <2> QED BY <2>1, <2>2, <2>3, <2>4
<1>11. ParseCommand(f, p) = AddData(c.offset, g) BY <1>1, <1>10, SMTT(30) DEF ParseCommand
<1>12. Len(WriteCommand(c)) = 8 + n
  <2>1. Len(a \o b \o d \o e \o g) = Len(a) + Len(b) + Len(d) + Len(e) + Len(g) BY <1>3, FiveTogether
  <2> QED BY <1>1, <1>2, <1>4, <2>1
<1>13. ParseCommand(f, p) = c BY <1>11 DEF g
<1>14. p + 3 + (5 + n) = p + (8 + n) /\ 8 + n \in Nat BY <1>1
<1> QED BY <1>10, <1>12, <1>13, <1>14 DEF ReadsAs

LEMMA ChangeByteOrderRead ==
  ASSUME NEW f \in Seq(Byte), NEW p \in Nat, NEW c, At(f, p, WriteCommand(c)),
         Fits(c.offset, 4), c.type = "changeByteOrder", c = ChangeByteOrder(c.unit, c.offset, c.length),
         Fits(c.unit, 1), Fits(c.length, 4)
  PROVE  ReadsAs(f, p, c)
<1> DEFINE a == <<2>>
           b == U(2, 9)
           d == U(1, c.unit)
           e == U(4, c.offset)
           g == U(4, c.length)
<1>1. c.unit \in Int /\ c.offset \in Int /\ c.length \in Int BY FitsInt
<1>2. WriteCommand(c) = a \o b \o d \o e \o g BY DEF WriteCommand
<1>3. a \in Seq(Byte) /\ b \in Seq(Byte) /\ d \in Seq(Byte) /\ e \in Seq(Byte) /\ g \in Seq(Byte)
  <2>1. a \in Seq(Byte) BY OneByte
  <2>2. b \in Seq(Byte) BY <1>1, Widths
  <2>3. d \in Seq(Byte) BY <1>1, Widths
  <2>4. e \in Seq(Byte) BY <1>1, Widths
  <2>5. g \in Seq(Byte) BY <1>1, Widths
  <2> QED BY <2>1, <2>2, <2>3, <2>4, <2>5
<1>4. Len(a) = 1 /\ Len(b) = 2 /\ Len(d) = 1 /\ Len(e) = 4 /\ Len(g) = 4
  <2>1. Len(a) = 1 BY OneByte
  <2>2. Len(b) = 2 BY <1>1, Widths
  <2>3. Len(d) = 1 BY <1>1, Widths
  <2>4. Len(e) = 4 BY <1>1, Widths
  <2>5. Len(g) = 4 BY <1>1, Widths
  <2> QED BY <2>1, <2>2, <2>3, <2>4, <2>5
<1> HIDE DEF a, b, d, e, g
<1>5. At(f, p, a \o b \o d \o e \o g) BY <1>2
<1>6. /\ At(f, p, a)
      /\ At(f, p + Len(a), b)
      /\ At(f, p + Len(a) + Len(b), d)
      /\ At(f, p + Len(a) + Len(b) + Len(d), e)
      /\ At(f, p + Len(a) + Len(b) + Len(d) + Len(e), g)
  BY <1>3, <1>5, FiveParts, ZenonT(30)
<1>7. /\ p + Len(a) = p + 1
      /\ p + Len(a) + Len(b) = p + 3
      /\ p + Len(a) + Len(b) + Len(d) = (p + 3) + 1
      /\ p + Len(a) + Len(b) + Len(d) + Len(e) = (p + 3) + 5
  BY <1>4
<1>8. /\ At(f, p, a)
      /\ At(f, p + 1, b)
      /\ At(f, p + 3, d)
      /\ At(f, (p + 3) + 1, e)
      /\ At(f, (p + 3) + 5, g)
  BY <1>6, <1>7
<1>9. (p + 3) + 1 \in Nat /\ (p + 3) + 5 \in Nat /\ p + 1 \in Nat /\ p + 3 \in Nat OBVIOUS
<1>10. /\ Num(f, p, 1) = 2
      /\ Num(f, p + 1, 2) = 9
      /\ Num(f, p + 3, 1) = c.unit
      /\ Num(f, (p + 3) + 1, 4) = c.offset
      /\ Num(f, (p + 3) + 5, 4) = c.length
  <2>1. Num(f, p, 1) = 2
    <3>1. 2 \in 0..31 OBVIOUS
    <3>2. At(f, p, <<2>>) BY <1>8 DEF a
    <3> QED BY <1>9, <3>1, <3>2, CodeAt, Zenon
  <2>2. Num(f, p + 1, 2) = 9
    <3>1. 9 \in 0..31 OBVIOUS
    <3>2. At(f, p + 1, U(2, 9)) BY <1>8 DEF b
    <3> QED BY <1>9, <3>1, <3>2, CodeAt, Zenon
  <2>3. Num(f, p + 3, 1) = c.unit BY <1>8, <1>9, FittingAt DEF d
  <2>4. Num(f, (p + 3) + 1, 4) = c.offset BY <1>8, <1>9, FittingAt DEF e
  <2>5. Num(f, (p + 3) + 5, 4) = c.length BY <1>8, <1>9, FittingAt DEF g
  <2> QED BY <2>1, <2>2, <2>3, <2>4, <2>5
<1>11. ParseCommand(f, p) = ChangeByteOrder(c.unit, c.offset, c.length)
  BY <1>1, <1>10 DEF ParseCommand
<1>12. Len(WriteCommand(c)) = 12
  <2>1. Len(a \o b \o d \o e \o g) = Len(a) + Len(b) + Len(d) + Len(e) + Len(g) BY <1>3, FiveTogether
  <2> QED BY <1>1, <1>2, <1>4, <2>1
<1> QED BY <1>1, <1>10, <1>11, <1>12 DEF ReadsAs

LEMMA AddPaddingRead ==
  ASSUME NEW f \in Seq(Byte), NEW p \in Nat, NEW c, At(f, p, WriteCommand(c)),
         Fits(c.offset, 4), c.type = "addPadding", c = AddPadding(c.offset, c.length), Fits(c.length, 4)
  PROVE  ReadsAs(f, p, c)
<1> DEFINE a == <<4>>
           b == U(2, 10)
           d == U(4, c.offset)
           e == <<0>>
           g == U(4, c.length)
           j == <<0>>
<1>1. c.offset \in Int /\ c.length \in Int BY FitsInt
<1>2. WriteCommand(c) = a \o b \o d \o e \o g \o j BY DEF WriteCommand
<1>3. a \in Seq(Byte) /\ b \in Seq(Byte) /\ d \in Seq(Byte) /\ e \in Seq(Byte) /\ g \in Seq(Byte) /\ j \in Seq(Byte)
  <2>1. a \in Seq(Byte) BY OneByte
  <2>2. b \in Seq(Byte) BY <1>1, Widths
  <2>3. d \in Seq(Byte) BY <1>1, Widths
  <2>4. e \in Seq(Byte) BY OneByte
  <2>5. g \in Seq(Byte) BY <1>1, Widths
  <2>6. j \in Seq(Byte) BY OneByte
  <2> QED BY <2>1, <2>2, <2>3, <2>4, <2>5, <2>6
<1>4. Len(a) = 1 /\ Len(b) = 2 /\ Len(d) = 4 /\ Len(e) = 1 /\ Len(g) = 4 /\ Len(j) = 1
  <2>1. Len(a) = 1 BY OneByte
  <2>2. Len(b) = 2 BY <1>1, Widths
  <2>3. Len(d) = 4 BY <1>1, Widths
  <2>4. Len(e) = 1 BY OneByte
  <2>5. Len(g) = 4 BY <1>1, Widths
  <2>6. Len(j) = 1 BY OneByte
  <2> QED BY <2>1, <2>2, <2>3, <2>4, <2>5, <2>6
<1> HIDE DEF a, b, d, e, g, j
<1>5. At(f, p, a \o b \o d \o e \o g \o j) BY <1>2
<1>6. /\ At(f, p, a)
      /\ At(f, p + Len(a), b)
      /\ At(f, p + Len(a) + Len(b), d)
      /\ At(f, p + Len(a) + Len(b) + Len(d), e)
      /\ At(f, p + Len(a) + Len(b) + Len(d) + Len(e), g)
  <2> DEFINE s == a \o b \o d \o e \o g
  <2>1. s \in Seq(Byte) BY <1>3, FiveTogether
  <2>2. At(f, p, s \o j) BY <1>5
  <2>3. At(f, p, s) BY <1>3, <2>1, <2>2, AtParts
  <2>4. At(f, p, a \o b \o d \o e \o g) BY <2>3
  <2> QED BY <1>3, <2>4, FiveParts, ZenonT(30)
<1>7. /\ p + Len(a) = p + 1
      /\ p + Len(a) + Len(b) = p + 3
      /\ p + Len(a) + Len(b) + Len(d) = (p + 3) + 4
      /\ p + Len(a) + Len(b) + Len(d) + Len(e) = (p + 3) + 5
  BY <1>4
<1>8. /\ At(f, p, a)
      /\ At(f, p + 1, b)
      /\ At(f, p + 3, d)
      /\ At(f, (p + 3) + 4, e)
      /\ At(f, (p + 3) + 5, g)
  BY <1>6, <1>7
<1>9. (p + 3) + 4 \in Nat /\ (p + 3) + 5 \in Nat /\ p + 1 \in Nat /\ p + 3 \in Nat OBVIOUS
<1>10. /\ Num(f, p, 1) = 4
      /\ Num(f, p + 1, 2) = 10
      /\ Num(f, p + 3, 4) = c.offset
      /\ Num(f, (p + 3) + 5, 4) = c.length
  <2>1. Num(f, p, 1) = 4
    <3>1. 4 \in 0..31 OBVIOUS
    <3>2. At(f, p, <<4>>) BY <1>8 DEF a
    <3> QED BY <1>9, <3>1, <3>2, CodeAt, Zenon
  <2>2. Num(f, p + 1, 2) = 10
    <3>1. 10 \in 0..31 OBVIOUS
    <3>2. At(f, p + 1, U(2, 10)) BY <1>8 DEF b
    <3> QED BY <1>9, <3>1, <3>2, CodeAt, Zenon
  <2>3. Num(f, p + 3, 4) = c.offset BY <1>8, <1>9, FittingAt DEF d
  <2>4. Num(f, (p + 3) + 5, 4) = c.length BY <1>8, <1>9, FittingAt DEF g
  <2> QED BY <2>1, <2>2, <2>3, <2>4
<1>11. ParseCommand(f, p) = AddPadding(c.offset, c.length)
  BY <1>1, <1>10 DEF ParseCommand
<1>12. Len(WriteCommand(c)) = 13
  <2>1. Len(a \o b \o d \o e \o g \o j) = Len(a) + Len(b) + Len(d) + Len(e) + Len(g) + Len(j) BY <1>3, SixTogether
  <2> QED BY <1>1, <1>2, <1>4, <2>1
<1> QED BY <1>1, <1>10, <1>11, <1>12 DEF ReadsAs

LEMMA AddDataBlockRead ==
  ASSUME NEW f \in Seq(Byte), NEW p \in Nat, NEW c, At(f, p, WriteCommand(c)),
         Fits(c.offset, 4), c.type = "addDataBlock", c = AddDataBlock(c.offset, c.block),
         c.block \in Int, Fits(c.block - 1, 1)
  PROVE  ReadsAs(f, p, c)
<1> DEFINE a == <<5>>
           b == U(2, 6)
           d == U(4, c.offset)
           e == <<0>>
           g == U(1, c.block - 1)
<1>1. c.offset \in Int /\ c.block - 1 \in Int /\ (c.block - 1) + 1 = c.block BY FitsInt
<1>2. WriteCommand(c) = a \o b \o d \o e \o g BY DEF WriteCommand
<1>3. a \in Seq(Byte) /\ b \in Seq(Byte) /\ d \in Seq(Byte) /\ e \in Seq(Byte) /\ g \in Seq(Byte)
  <2>1. a \in Seq(Byte) BY OneByte
  <2>2. b \in Seq(Byte) BY <1>1, Widths
  <2>3. d \in Seq(Byte) BY <1>1, Widths
  <2>4. e \in Seq(Byte) BY OneByte
  <2>5. g \in Seq(Byte) BY <1>1, Widths
  <2> QED BY <2>1, <2>2, <2>3, <2>4, <2>5
<1>4. Len(a) = 1 /\ Len(b) = 2 /\ Len(d) = 4 /\ Len(e) = 1 /\ Len(g) = 1
  <2>1. Len(a) = 1 BY OneByte
  <2>2. Len(b) = 2 BY <1>1, Widths
  <2>3. Len(d) = 4 BY <1>1, Widths
  <2>4. Len(e) = 1 BY OneByte
  <2>5. Len(g) = 1 BY <1>1, Widths
  <2> QED BY <2>1, <2>2, <2>3, <2>4, <2>5
<1> HIDE DEF a, b, d, e, g
<1>5. At(f, p, a \o b \o d \o e \o g) BY <1>2
<1>6. /\ At(f, p, a)
      /\ At(f, p + Len(a), b)
      /\ At(f, p + Len(a) + Len(b), d)
      /\ At(f, p + Len(a) + Len(b) + Len(d), e)
      /\ At(f, p + Len(a) + Len(b) + Len(d) + Len(e), g)
  BY <1>3, <1>5, FiveParts, ZenonT(30)
<1>7. /\ p + Len(a) = p + 1
      /\ p + Len(a) + Len(b) = p + 3
      /\ p + Len(a) + Len(b) + Len(d) = (p + 3) + 4
      /\ p + Len(a) + Len(b) + Len(d) + Len(e) = (p + 3) + 5
  BY <1>4
<1>8. /\ At(f, p, a)
      /\ At(f, p + 1, b)
      /\ At(f, p + 3, d)
      /\ At(f, (p + 3) + 4, e)
      /\ At(f, (p + 3) + 5, g)
  BY <1>6, <1>7
<1>9. (p + 3) + 4 \in Nat /\ (p + 3) + 5 \in Nat /\ p + 1 \in Nat /\ p + 3 \in Nat OBVIOUS
<1>10. /\ Num(f, p, 1) = 5
      /\ Num(f, p + 1, 2) = 6
      /\ Num(f, p + 3, 4) = c.offset
      /\ Num(f, (p + 3) + 5, 1) = c.block - 1
  <2>1. Num(f, p, 1) = 5
    <3>1. 5 \in 0..31 OBVIOUS
    <3>2. At(f, p, <<5>>) BY <1>8 DEF a
    <3> QED BY <1>9, <3>1, <3>2, CodeAt, Zenon
  <2>2. Num(f, p + 1, 2) = 6
    <3>1. 6 \in 0..31 OBVIOUS
    <3>2. At(f, p + 1, U(2, 6)) BY <1>8 DEF b
    <3> QED BY <1>9, <3>1, <3>2, CodeAt, Zenon
  <2>3. Num(f, p + 3, 4) = c.offset BY <1>8, <1>9, FittingAt DEF d
  <2>4. Num(f, (p + 3) + 5, 1) = c.block - 1 BY <1>8, <1>9, FittingAt DEF g
  <2> QED BY <2>1, <2>2, <2>3, <2>4
<1>11. ParseCommand(f, p) = AddDataBlock(c.offset, c.block)
  BY <1>1, <1>10, SMTT(30) DEF ParseCommand
<1>12. Len(WriteCommand(c)) = 9
  <2>1. Len(a \o b \o d \o e \o g) = Len(a) + Len(b) + Len(d) + Len(e) + Len(g) BY <1>3, FiveTogether
  <2> QED BY <1>1, <1>2, <1>4, <2>1
<1> QED BY <1>1, <1>10, <1>11, <1>12 DEF ReadsAs

LEMMA KindBits ==
  ASSUME NEW a \in 0..1, NEW b \in 0..1
  PROVE  /\ Bits(2, 2 * a + b) = <<2 * a + b>> /\ 2 * a + b \in 0..31
         /\ ((2 * a + b) \div 2 = 1 <=> a = 1) /\ ((2 * a + b) % 2 = 1 <=> b = 1)
<1>1. BitsRange[2] = 4
  <2>1. /\ BitsRange[0] = 1 /\ BitsRange[1] = 2 * BitsRange[0] /\ BitsRange[2] = 2 * BitsRange[1]
    BY PowerSteps DEF BitsRange
  <2> QED BY <2>1
<1>2. /\ (2 * a + b) % 4 = 2 * a + b /\ 2 * a + b \in 0..31
      /\ ((2 * a + b) \div 2 = 1 <=> a = 1) /\ ((2 * a + b) % 2 = 1 <=> b = 1)
  <2>1. CASE a = 0 /\ b = 0 BY <2>1
  <2>2. CASE a = 0 /\ b = 1 BY <2>2
  <2>3. CASE a = 1 /\ b = 0 BY <2>3
  <2>4. CASE a = 1 /\ b = 1 BY <2>4
  <2> QED BY <2>1, <2>2, <2>3, <2>4
<1> QED BY <1>1, <1>2 DEF Bits

LEMMA AddPesPayloadRead ==
  ASSUME NEW f \in Seq(Byte), NEW p \in Nat, NEW c, At(f, p, WriteCommand(c)), Fits(c.offset, 4),
         c.type = "addPesPayload", c = FromFile(c.file, AddPesPayload(c.offset, c.src, c.size)),
         Fits(c.file, 1), Wide(c.src), Fits(c.size, 4)
  PROVE  ReadsAs(f, p, c)
<1> DEFINE longSrc == IsLong(c.src, 4)
           longSize == IsLong(c.size, 2)
           x == Flag(longSrc)
           y == Flag(longSize)
           a == <<3>>
           b == U(2, 12 + 4 * x + 2 * y)
           d == Bits(2, 2 * x + y)
           e == U(1, c.file)
           g == U(4, c.offset)
           j == U(4, c.src)
           k == IF longSrc THEN U(4, c.src \div Weight[4]) ELSE <<>>
           l == U(2, c.size)
           m == IF longSize THEN U(2, c.size \div Weight[2]) ELSE <<>>
<1>1. /\ c.file \in Int /\ c.offset \in Int /\ c.src \in Nat /\ c.size \in Nat BY DEF Fits, Wide
<1>2. Fits(c.src \div Weight[4], 4) /\ Fits(c.size \div Weight[2], 2) BY UpperHalf
<1>3. c.src \div Weight[4] \in Int /\ c.size \div Weight[2] \in Int BY <1>2, FitsInt
<1>4. WriteCommand(c) = a \o b \o d \o e \o g \o j \o k \o l \o m BY DEF WriteCommand
<1>5. x \in 0..1 /\ y \in 0..1 /\ (x = 1 <=> longSrc) /\ (y = 1 <=> longSize) BY DEF Flag
<1> HIDE DEF longSrc, longSize, x, y
<1>6. 12 + 4 * x + 2 * y \in 0..31 /\ 12 + 4 * x + 2 * y \in Int BY <1>5
<1>61. /\ b \in Seq(Byte) /\ Len(b) = 2
  <2> DEFINE n == 12 + 4 * x + 2 * y
  <2>1. n \in Int BY <1>6
  <2> HIDE DEF n
  <2>2. U(2, n) \in Seq(Byte) /\ Len(U(2, n)) = 2 BY <2>1, Widths
  <2> QED BY <2>2 DEF n
<1>62. d \in Seq(Byte) /\ Len(d) = 1
  <2> DEFINE n == 2 * x + y
  <2>1. n \in 0..31 /\ Bits(2, n) = <<n>> BY <1>5, KindBits
  <2> HIDE DEF n
  <2>2. Bits(2, n) \in Seq(Byte) /\ Len(Bits(2, n)) = 1 BY <2>1, OneByte
  <2> QED BY <2>2 DEF n
<1>7. /\ a \in Seq(Byte) /\ b \in Seq(Byte) /\ d \in Seq(Byte) /\ e \in Seq(Byte) /\ g \in Seq(Byte)
      /\ j \in Seq(Byte) /\ k \in Seq(Byte) /\ l \in Seq(Byte) /\ m \in Seq(Byte)
  <2>1. a \in Seq(Byte) BY OneByte
  <2>2. b \in Seq(Byte) BY <1>61
  <2>3. d \in Seq(Byte) BY <1>62
  <2>4. e \in Seq(Byte) /\ g \in Seq(Byte) /\ j \in Seq(Byte) /\ l \in Seq(Byte) BY <1>1, Widths, SMTT(30)
  <2>5. k \in Seq(Byte) /\ m \in Seq(Byte) BY <1>3, Widths
  <2> QED BY <2>1, <2>2, <2>3, <2>4, <2>5
<1>8. /\ Len(a) = 1 /\ Len(b) = 2 /\ Len(d) = 1 /\ Len(e) = 1 /\ Len(g) = 4
      /\ Len(j) = 4 /\ Len(k) = 4 * x /\ Len(l) = 2 /\ Len(m) = 2 * y
  <2>1. Len(a) = 1 BY OneByte
  <2>2. Len(b) = 2 BY <1>61
  <2>3. Len(d) = 1 BY <1>62
  <2>4. Len(e) = 1 /\ Len(g) = 4 /\ Len(j) = 4 /\ Len(l) = 2 BY <1>1, Widths, SMTT(30)
  <2>5. Len(k) = 4 * x
    <3>1. CASE longSrc BY <1>3, <1>5, <3>1, Widths
    <3>2. CASE ~longSrc
      <4>1. x = 0 /\ k = <<>> BY <1>5, <3>2
      <4> QED BY <4>1
    <3> QED BY <3>1, <3>2
  <2>6. Len(m) = 2 * y
    <3>1. CASE longSize BY <1>3, <1>5, <3>1, Widths
    <3>2. CASE ~longSize
      <4>1. y = 0 /\ m = <<>> BY <1>5, <3>2
      <4> QED BY <4>1
    <3> QED BY <3>1, <3>2
  <2> QED BY <2>1, <2>2, <2>3, <2>4, <2>5, <2>6
<1> HIDE DEF a, b, d, e, g, j, k, l, m
<1>9. At(f, p, a \o b \o d \o e \o g \o j \o k \o l \o m) BY <1>4
<1>10. /\ At(f, p, a)
       /\ At(f, p + Len(a), b)
       /\ At(f, p + Len(a) + Len(b), d)
       /\ At(f, p + Len(a) + Len(b) + Len(d), e)
       /\ At(f, p + Len(a) + Len(b) + Len(d) + Len(e), g)
       /\ At(f, p + Len(a) + Len(b) + Len(d) + Len(e) + Len(g), j)
       /\ At(f, p + Len(a) + Len(b) + Len(d) + Len(e) + Len(g) + Len(j), k)
       /\ At(f, p + Len(a) + Len(b) + Len(d) + Len(e) + Len(g) + Len(j) + Len(k), l)
       /\ At(f, p + Len(a) + Len(b) + Len(d) + Len(e) + Len(g) + Len(j) + Len(k) + Len(l), m)
  <2> DEFINE r == a \o b \o d \o e \o g
  <2>1. /\ Len(a) \in Nat /\ Len(b) \in Nat /\ Len(d) \in Nat /\ Len(e) \in Nat /\ Len(g) \in Nat
        /\ Len(j) \in Nat /\ Len(k) \in Nat /\ Len(l) \in Nat
    BY <1>7
  <2>2. r \in Seq(Byte) /\ Len(r) = Len(a) + Len(b) + Len(d) + Len(e) + Len(g) BY <1>7, FiveTogether
  <2> HIDE DEF r
  <2>3. At(f, p, r \o j \o k \o l \o m) BY <1>9 DEF r
  <2>4. /\ At(f, p, r)
        /\ At(f, p + Len(r), j)
        /\ At(f, p + Len(r) + Len(j), k)
        /\ At(f, p + Len(r) + Len(j) + Len(k), l)
        /\ At(f, p + Len(r) + Len(j) + Len(k) + Len(l), m)
    BY <1>7, <2>2, <2>3, FiveParts
  <2>5. p + Len(r) = p + Len(a) + Len(b) + Len(d) + Len(e) + Len(g) BY <2>1, <2>2
  <2>6. At(f, p, a \o b \o d \o e \o g) BY <2>4 DEF r
  <2>7. /\ At(f, p, a)
        /\ At(f, p + Len(a), b)
        /\ At(f, p + Len(a) + Len(b), d)
        /\ At(f, p + Len(a) + Len(b) + Len(d), e)
        /\ At(f, p + Len(a) + Len(b) + Len(d) + Len(e), g)
    BY <1>7, <2>6, FiveParts
  <2> QED BY <2>4, <2>5, <2>7
<1> DEFINE q == p + 3
           s == q + 10 + 4 * x
<1>11. /\ p + Len(a) = p + 1 /\ p + Len(a) + Len(b) = q
       /\ p + Len(a) + Len(b) + Len(d) = q + 1
       /\ p + Len(a) + Len(b) + Len(d) + Len(e) = q + 2
       /\ p + Len(a) + Len(b) + Len(d) + Len(e) + Len(g) = q + 6
       /\ p + Len(a) + Len(b) + Len(d) + Len(e) + Len(g) + Len(j) = q + 10
       /\ p + Len(a) + Len(b) + Len(d) + Len(e) + Len(g) + Len(j) + Len(k) = s
       /\ p + Len(a) + Len(b) + Len(d) + Len(e) + Len(g) + Len(j) + Len(k) + Len(l) = s + 2
  BY <1>5, <1>8
<1>12. /\ p + 1 \in Nat /\ q \in Nat /\ q + 1 \in Nat /\ q + 2 \in Nat /\ q + 6 \in Nat /\ q + 10 \in Nat
       /\ s \in Nat /\ s + 2 \in Nat
  BY <1>5
<1>13. /\ At(f, p, a) /\ At(f, p + 1, b) /\ At(f, q, d) /\ At(f, q + 1, e) /\ At(f, q + 2, g)
       /\ At(f, q + 6, j) /\ At(f, q + 10, k) /\ At(f, s, l) /\ At(f, s + 2, m)
  BY <1>10, <1>11
<1> HIDE DEF q, s
<1>14. Num(f, p, 1) = 3
  <2>1. 3 \in 0..31 OBVIOUS
  <2>2. At(f, p, <<3>>) BY <1>13 DEF a
  <2> QED BY <2>1, <2>2, CodeAt, Zenon
<1>15. Num(f, p + 1, 2) = 12 + 4 * x + 2 * y BY <1>6, <1>12, <1>13, CodeAt DEF b
<1>16. Num(f, q, 1) = 2 * x + y
  <2>1. At(f, q, <<2 * x + y>>) /\ 2 * x + y \in 0..31 BY <1>5, <1>13, KindBits DEF d
  <2> DEFINE n == 2 * x + y
  <2>2. At(f, q, <<n>>) /\ n \in 0..31 BY <2>1
  <2> HIDE DEF n
  <2>3. Num(f, q, 1) = n BY <1>12, <2>2, CodeAt
  <2> QED BY <2>3 DEF n
<1>17. (Num(f, q, 1) \div 2 = 1 <=> longSrc) /\ (Num(f, q, 1) % 2 = 1 <=> longSize)
  BY <1>5, <1>16, KindBits, SMTT(30)
<1>18. Num(f, q + 1, 1) = c.file /\ Num(f, q + 2, 4) = c.offset
  BY <1>12, <1>13, FittingAt DEF e, g
<1>19. Num(f, q + 6, 4) = c.src % Weight[4] /\ Num(f, s, 2) = c.size % Weight[2]
  BY <1>1, <1>12, <1>13, NumAt, SMTT(30) DEF j, l
<1>20. longSrc => Num(f, q + 10, 4) = c.src \div Weight[4]
  <2> SUFFICES ASSUME longSrc PROVE Num(f, q + 10, 4) = c.src \div Weight[4] OBVIOUS
  <2>1. At(f, q + 10, U(4, c.src \div Weight[4])) BY <1>13 DEF k
  <2> QED BY <1>2, <1>12, <2>1, FittingAt
<1>21. longSize => Num(f, s + 2, 2) = c.size \div Weight[2]
  <2> SUFFICES ASSUME longSize PROVE Num(f, s + 2, 2) = c.size \div Weight[2] OBVIOUS
  <2>1. At(f, s + 2, U(2, c.size \div Weight[2])) BY <1>13 DEF m
  <2> QED BY <1>2, <1>12, <2>1, FittingAt
<1> DEFINE high == IF longSrc THEN Num(f, q + 10, 4) * Weight[4] ELSE 0
           more == IF longSize THEN Num(f, s + 2, 2) * Weight[2] ELSE 0
<1>22. Num(f, q + 6, 4) + high = c.src
  <2>1. CASE longSrc BY <1>1, <1>19, <1>20, <2>1, Halves
  <2>2. CASE ~longSrc
    <3>1. Weight[4] \in Nat /\ c.src < Weight[4] BY <1>1, <2>2, Weights, SMTT(30) DEF longSrc, IsLong
    <3>2. c.src % Weight[4] = c.src BY <1>1, <3>1, Halves
    <3> QED BY <1>1, <1>19, <2>2, <3>2
  <2> QED BY <2>1, <2>2
<1>23. Num(f, s, 2) + more = c.size
  <2>1. CASE longSize BY <1>1, <1>19, <1>21, <2>1, Halves
  <2>2. CASE ~longSize
    <3>1. Weight[2] \in Nat /\ c.size < Weight[2] BY <1>1, <2>2, Weights, SMTT(30) DEF longSize, IsLong
    <3>2. c.size % Weight[2] = c.size BY <1>1, <3>1, Halves
    <3> QED BY <1>1, <1>19, <2>2, <3>2
  <2> QED BY <2>1, <2>2
<1>24. ParseCommand(f, p) = FromFile(c.file, AddPesPayload(c.offset, c.src, c.size))
  <2> DEFINE isSrc == Num(f, q, 1) \div 2 = 1
             isSize == Num(f, q, 1) % 2 = 1
             t == q + 10 + 4 * Flag(isSrc)
             up == IF isSrc THEN Num(f, q + 10, 4) * Weight[4] ELSE 0
             on == IF isSize THEN Num(f, t + 2, 2) * Weight[2] ELSE 0
  <2>1. t = s
    <3>1. Flag(isSrc) = x BY <1>17 DEF Flag, x
    <3> QED BY <3>1 DEF s
  <2>2. up = high /\ on = more BY <1>17, <2>1
  <2>3. ParseCommand(f, p)
          = FromFile(Num(f, q + 1, 1), AddPesPayload(Num(f, q + 2, 4), Num(f, q + 6, 4) + up, Num(f, t, 2) + on))
    BY <1>14 DEF ParseCommand, q
  <2> HIDE DEF t, up, on, high, more
  <2> QED BY <1>18, <1>22, <1>23, <2>1, <2>2, <2>3
<1>25. Len(WriteCommand(c)) = 15 + 4 * x + 2 * y
  <2>1. Len(a \o b \o d \o e \o g \o j \o k \o l \o m)
          = Len(a) + Len(b) + Len(d) + Len(e) + Len(g) + Len(j) + Len(k) + Len(l) + Len(m)
    BY <1>7, NineTogether
  <2> QED BY <1>4, <1>5, <1>8, <2>1
<1>26. p + 3 + (12 + 4 * x + 2 * y) = p + (15 + 4 * x + 2 * y) /\ 15 + 4 * x + 2 * y \in Nat BY <1>5
<1>27. ParseCommand(f, p) = c BY <1>24
<1> QED BY <1>15, <1>25, <1>26, <1>27 DEF ReadsAs

LEMMA CommandRead ==
  ASSUME NEW f \in Seq(Byte), NEW p \in Nat, NEW c, IsCommand(c), CommandFits(c), At(f, p, WriteCommand(c))
  PROVE  ReadsAs(f, p, c)
<1>1. Fits(c.offset, 4) BY DEF CommandFits
<1>2. CASE c.type = "addData" BY <1>1, <1>2, AddDataRead DEF CommandFits
<1>3. CASE c.type = "changeByteOrder" BY <1>1, <1>3, ChangeByteOrderRead DEF CommandFits
<1>4. CASE c.type = "addPesPayload" BY <1>1, <1>4, AddPesPayloadRead DEF CommandFits
<1>5. CASE c.type = "addPadding" BY <1>1, <1>5, AddPaddingRead DEF CommandFits
<1>6. CASE c.type = "addDataBlock"
  <2>1. c.block \in Int BY <1>6 DEF IsCommand
  <2> QED BY <1>1, <1>6, <2>1, AddDataBlockRead DEF CommandFits
<1> QED BY <1>2, <1>3, <1>4, <1>5, <1>6 DEF CommandFits

\* The commands of a packet, their number in front.
WrittenCommands(cmds) == FlattenSeq([i \in DOMAIN cmds |-> WriteCommand(cmds[i])])
LEMMA WrittenBytes ==
  ASSUME NEW cmds, IsASequence(cmds), \A i \in DOMAIN cmds : IsCommand(cmds[i])
  PROVE  WrittenCommands(cmds) \in Seq(Byte)
<1> DEFINE n == Len(cmds)
           seqs == [i \in DOMAIN cmds |-> WriteCommand(cmds[i])]
<1>1. n \in Nat /\ DOMAIN cmds = 1..n BY DEF IsASequence
<1>2. \A i \in 1..n : seqs[i] \in Seq(Byte) BY <1>1, CommandBytes
<1>3. seqs = [i \in 1..n |-> seqs[i]] BY <1>1
<1> HIDE DEF seqs, n
<1>4. seqs \in Seq(Seq(Byte)) BY <1>1, <1>2, <1>3
<1>5. FlattenSeq(seqs) \in Seq(Byte) BY <1>4, FlattenSeqs
<1> QED BY <1>5 DEF WrittenCommands, seqs
LEMMA CommandsRead ==
  ASSUME NEW f \in Seq(Byte), NEW p \in Nat, NEW cmds, IsASequence(cmds), Fits(Len(cmds), 1),
         \A i \in DOMAIN cmds : IsCommand(cmds[i]) /\ CommandFits(cmds[i]),
         At(f, p, U(1, Len(cmds)) \o WrittenCommands(cmds))
  PROVE  /\ WrittenCommands(cmds) \in Seq(Byte)
         /\ ParseCommands(f, p) = [cmds |-> cmds, end |-> p + 1 + Len(WrittenCommands(cmds))]
<1> DEFINE n == Len(cmds)
           seqs == [i \in DOMAIN cmds |-> WriteCommand(cmds[i])]
           Next3(q) == q + 3 + Num(f, q + 1, 2)
           Right(s) == s = [i \in 1..(Num(f, p, 1) + 1) |-> IF i = 1 THEN p + 1 ELSE Next3(s[i - 1])]
           start == CHOOSE s : Right(s)
<1>14. ParseCommands(f, p)
         = [cmds |-> [i \in 1..Num(f, p, 1) |-> ParseCommand(f, start[i])], end |-> start[Num(f, p, 1) + 1]]
  BY DEF ParseCommands
<1> HIDE DEF start
<1>1. n \in Nat /\ DOMAIN cmds = 1..n /\ cmds = [i \in 1..n |-> cmds[i]] BY DEF IsASequence
<1>2. \A i \in 1..n : /\ IsCommand(cmds[i]) /\ CommandFits(cmds[i])
                      /\ seqs[i] = WriteCommand(cmds[i]) /\ seqs[i] \in Seq(Byte)
  <2> SUFFICES ASSUME NEW i \in 1..n
               PROVE  /\ IsCommand(cmds[i]) /\ CommandFits(cmds[i])
                      /\ seqs[i] = WriteCommand(cmds[i]) /\ seqs[i] \in Seq(Byte)
    OBVIOUS
  <2>1. i \in DOMAIN cmds BY <1>1
  <2>2. IsCommand(cmds[i]) /\ CommandFits(cmds[i]) BY <2>1
  <2>3. WriteCommand(cmds[i]) \in Seq(Byte) BY <2>2, CommandBytes
  <2> QED BY <2>1, <2>2, <2>3
<1>3. seqs \in Seq(Seq(Byte)) /\ Len(seqs) = n
  <2>1. seqs = [i \in 1..n |-> seqs[i]] BY <1>1
  <2>2. \A i \in 1..n : seqs[i] \in Seq(Byte) BY <1>2
  <2> HIDE DEF seqs, n
  <2> QED BY <1>1, <2>1, <2>2, SMTT(30)
<1>4. WrittenCommands(cmds) = FlattenSeq(seqs) BY DEF WrittenCommands
<1>5. FlattenSeq(seqs) \in Seq(Byte) BY <1>3, FlattenSeqs
<1>6. Num(f, p, 1) = n /\ At(f, p + 1, FlattenSeq(seqs))
  <2>1. U(1, n) \in Seq(Byte) /\ Len(U(1, n)) = 1 BY <1>1, Widths
  <2>2. At(f, p, U(1, n) \o FlattenSeq(seqs)) BY <1>4
  <2> HIDE DEF n, seqs
  <2>3. At(f, p, U(1, n)) /\ At(f, p + 1, FlattenSeq(seqs)) BY <1>5, <2>1, <2>2, AtParts
  <2>4. Num(f, p, 1) = n BY <2>3, FittingAt DEF n
  <2> QED BY <2>3, <2>4
<1>7. PICK st : /\ Starts(st, seqs)
                /\ \A g \in Seq(Byte), q \in Nat : At(g, q, FlattenSeq(seqs)) =>
                     \A i \in 1..Len(seqs) : At(g, q + st[i], seqs[i])
  BY <1>3, FlattenAt
<1>8. /\ \A i \in 1..(n + 1) : st[i] \in Nat
      /\ st[1] = 0 /\ \A i \in 1..n : st[i + 1] = st[i] + Len(seqs[i])
      /\ st[n + 1] = Len(FlattenSeq(seqs))
  <2> HIDE DEF n, seqs
  <2> QED BY <1>3, <1>7 DEF Starts
<1>9. \A i \in 1..n : At(f, p + 1 + st[i], seqs[i])
  <2> HIDE DEF n, seqs
  <2>1. p + 1 \in Nat OBVIOUS
  <2> QED BY <1>3, <1>6, <1>7, <2>1
<1>10. \A i \in 1..n : /\ ParseCommand(f, p + 1 + st[i]) = cmds[i]
                       /\ Next3(p + 1 + st[i]) = p + 1 + st[i + 1]
  <2> SUFFICES ASSUME NEW i \in 1..n
               PROVE  /\ ParseCommand(f, p + 1 + st[i]) = cmds[i]
                      /\ Next3(p + 1 + st[i]) = p + 1 + st[i + 1]
    OBVIOUS
  <2> DEFINE q == p + 1 + st[i]
  <2> HIDE DEF n, seqs
  <2>1. i \in 1..(n + 1) /\ st[i] \in Nat /\ q \in Nat BY <1>1, <1>8
  <2>2. At(f, q, WriteCommand(cmds[i])) BY <1>2, <1>9
  <2> HIDE DEF q
  <2>3. ReadsAs(f, q, cmds[i]) BY <1>2, <2>1, <2>2, CommandRead
  <2>4. Len(seqs[i]) = Len(WriteCommand(cmds[i])) BY <1>2
  <2>5. st[i + 1] = st[i] + Len(WriteCommand(cmds[i])) BY <1>8, <2>4
  <2>6. p + 1 + (st[i] + Len(WriteCommand(cmds[i]))) = q + Len(WriteCommand(cmds[i]))
    BY <2>1, <2>3 DEF ReadsAs, q
  <2>7. Next3(q) = q + Len(WriteCommand(cmds[i])) BY <2>3 DEF ReadsAs
  <2>8. ParseCommand(f, q) = cmds[i] BY <2>3 DEF ReadsAs
  <2> QED BY <2>5, <2>6, <2>7, <2>8 DEF q
<1> DEFINE s0 == [i \in 1..(n + 1) |-> p + 1 + st[i]]
<1>11. Right(s0)
  <2>1. \A i \in 1..(n + 1) : s0[i] = IF i = 1 THEN p + 1 ELSE Next3(s0[i - 1])
    <3> SUFFICES ASSUME NEW i \in 1..(n + 1) PROVE s0[i] = IF i = 1 THEN p + 1 ELSE Next3(s0[i - 1])
      OBVIOUS
    <3> HIDE DEF n, seqs, Next3
    <3>1. CASE i = 1 BY <1>8, <3>1
    <3>2. CASE i # 1
      <4>1. i - 1 \in 1..n /\ i - 1 \in 1..(n + 1) /\ (i - 1) + 1 = i BY <1>1, <3>2
      <4>2. s0[i - 1] = p + 1 + st[i - 1] BY <4>1
      <4>3. Next3(p + 1 + st[i - 1]) = p + 1 + st[i] BY <1>10, <4>1
      <4> QED BY <3>2, <4>2, <4>3
    <3> QED BY <3>1, <3>2
  <2>2. s0 = [i \in 1..(n + 1) |-> s0[i]] OBVIOUS
  <2> HIDE DEF s0, Next3, n
  <2> QED BY <1>6, <2>1, <2>2
<1>12. Right(start)
  <2> HIDE DEF Right, s0
  <2> QED BY <1>11 DEF start
<1>13. \A i \in 1..(n + 1) : start[i] = s0[i]
  <2> HIDE DEF start, s0, Next3
  <2>1. \A i \in 1..(n + 1) : /\ start[i] = IF i = 1 THEN p + 1 ELSE Next3(start[i - 1])
                              /\ s0[i] = IF i = 1 THEN p + 1 ELSE Next3(s0[i - 1])
    BY <1>6, <1>11, <1>12
  <2> HIDE DEF n, Right
  <2> DEFINE S == {i \in 1..(n + 1) : start[i] = s0[i]}
             m == n + 1
  <2>2. 1 \in S /\ m \in Nat BY <1>1, <2>1
  <2>3. \A i \in 1..m : i \in S /\ i # m => i + 1 \in S
    <3> SUFFICES ASSUME NEW i \in 1..m, i \in S, i # m PROVE i + 1 \in S OBVIOUS
    <3> DEFINE j == i + 1
    <3>1. j \in 1..(n + 1) /\ j # 1 /\ j - 1 = i /\ start[i] = s0[i] BY <1>1
    <3> HIDE DEF j
    <3>2. start[j] = s0[j] BY <2>1, <3>1
    <3> QED BY <3>1, <3>2 DEF j
  <2> HIDE DEF S, m
  <2>4. \A i \in 1..m : i \in S BY <2>2, <2>3, OneByOne
  <2> QED BY <2>4 DEF S, m
<1> HIDE DEF n, seqs, Next3, Right
<1>15. [i \in 1..n |-> ParseCommand(f, start[i])] = cmds
  <2>1. \A i \in 1..n : ParseCommand(f, start[i]) = cmds[i]
    <3> SUFFICES ASSUME NEW i \in 1..n PROVE ParseCommand(f, start[i]) = cmds[i] OBVIOUS
    <3>1. i \in 1..(n + 1) BY <1>1
    <3>2. start[i] = p + 1 + st[i] BY <1>13, <3>1
    <3> QED BY <1>10, <3>2
  <2> QED BY <1>1, <2>1
<1>16. start[n + 1] = p + 1 + Len(FlattenSeq(seqs))
  <2>1. n + 1 \in 1..(n + 1) BY <1>1
  <2> QED BY <1>8, <1>13, <2>1
<1> QED BY <1>4, <1>5, <1>6, <1>14, <1>15, <1>16

\* A number in a field that is wide enough.
Field(w, v) ==
  /\ w \in Nat /\ U(w, v) \in Seq(Byte) /\ Len(U(w, v)) = w
  /\ \A f \in Seq(Byte), q \in Nat : At(f, q, U(w, v)) => Num(f, q, w) = v
LEMMA Fields == \A v : /\ Fits(v, 1) => Field(1, v)
                       /\ Fits(v, 2) => Field(2, v)
                       /\ Fits(v, 4) => Field(4, v)
                       /\ Wide(v) => Field(8, v)
<1> SUFFICES ASSUME NEW v
             PROVE  /\ Fits(v, 1) => Field(1, v)
                    /\ Fits(v, 2) => Field(2, v)
                    /\ Fits(v, 4) => Field(4, v)
                    /\ Wide(v) => Field(8, v)
  OBVIOUS
<1>1. \A f \in Seq(Byte), q \in Nat : /\ At(f, q, U(1, v)) /\ Fits(v, 1) => Num(f, q, 1) = v
                                      /\ At(f, q, U(2, v)) /\ Fits(v, 2) => Num(f, q, 2) = v
                                      /\ At(f, q, U(4, v)) /\ Fits(v, 4) => Num(f, q, 4) = v
                                      /\ At(f, q, U(8, v)) /\ Wide(v) => Num(f, q, 8) = v
  BY FittingAt
<1>2. v \in Int => /\ U(1, v) \in Seq(Byte) /\ Len(U(1, v)) = 1
                   /\ U(2, v) \in Seq(Byte) /\ Len(U(2, v)) = 2
                   /\ U(4, v) \in Seq(Byte) /\ Len(U(4, v)) = 4
                   /\ U(8, v) \in Seq(Byte) /\ Len(U(8, v)) = 8
  BY Widths
<1>3. ASSUME Fits(v, 1) PROVE Field(1, v)
  <2>1. v \in Int BY <1>3, FitsInt
  <2> QED BY <1>1, <1>2, <1>3, <2>1 DEF Field
<1>4. ASSUME Fits(v, 2) PROVE Field(2, v)
  <2>1. v \in Int BY <1>4, FitsInt
  <2> QED BY <1>1, <1>2, <1>4, <2>1 DEF Field
<1>5. ASSUME Fits(v, 4) PROVE Field(4, v)
  <2>1. v \in Int BY <1>5, FitsInt
  <2> QED BY <1>1, <1>2, <1>5, <2>1 DEF Field
<1>6. ASSUME Wide(v) PROVE Field(8, v)
  <2>1. v \in Int BY <1>6, FitsInt
  <2> QED BY <1>1, <1>2, <1>6, <2>1 DEF Field
<1> QED BY <1>3, <1>4, <1>5, <1>6

\* In a long field, or in a short one when it is not long.
LEMMA LongFields == \A v : /\ Wide(v) /\ ~IsLong(v, 4) => Fits(v, 4)
                           /\ Fits(v, 4) /\ ~IsLong(v, 2) => Fits(v, 2)
BY Weights DEF Wide, Fits, IsLong

\* The five flags of a packet share a byte.
FlagByte(a, b, c, d, e) == 16 * a + 8 * b + 4 * c + 2 * d + e
FlagsOf(n, a, b, c, d, e) ==
  /\ n \in 0..31
  /\ n \div 16 = 1 <=> a = 1
  /\ (n \div 8) % 2 = 1 <=> b = 1
  /\ (n \div 4) % 2 = 1 <=> c = 1
  /\ (n \div 2) % 2 = 1 <=> d = 1
  /\ n % 2 = 1 <=> e = 1
LEMMA FlagBits ==
  ASSUME NEW a \in 0..1, NEW b \in 0..1, NEW c \in 0..1, NEW d \in 0..1, NEW e \in 0..1
  PROVE  FlagsOf(FlagByte(a, b, c, d, e), a, b, c, d, e)
BY DEF FlagByte, FlagsOf

\* What precedes the flags.
KindOf(coding, p) == CASE DetermineType(coding) = ES_VIDEO -> Bits(2, p.picture)
                       [] DetermineType(coding) = ES_AUDIO -> Bits(1, Flag(p.extension))
                       [] OTHER -> <<0>>
LEMMA KindRead ==
  ASSUME NEW coding \in Codings, NEW p, p.picture \in Int, p.extension \in BOOLEAN
  PROVE  \E n \in 0..3 : /\ KindOf(coding, p) = <<n>>
                         /\ DetermineType(coding) = ES_AUDIO => (n = 1 <=> p.extension)
<1>1. BitsRange[1] = 2 /\ BitsRange[2] = 4
  <2>1. /\ BitsRange[0] = 1 /\ BitsRange[1] = 2 * BitsRange[0] /\ BitsRange[2] = 2 * BitsRange[1]
    BY PowerSteps DEF BitsRange
  <2> QED BY <2>1
<1>2. CASE DetermineType(coding) = ES_VIDEO
  <2>1. DetermineType(coding) # ES_AUDIO BY <1>2 DEF ES_VIDEO, ES_AUDIO
  <2>2. KindOf(coding, p) = <<p.picture % 4>> BY <1>1, <1>2, <2>1 DEF KindOf, Bits
  <2>3. p.picture % 4 \in 0..3 OBVIOUS
  <2> QED BY <2>1, <2>2, <2>3
<1>3. CASE DetermineType(coding) = ES_AUDIO
  <2>1. DetermineType(coding) # ES_VIDEO BY <1>3 DEF ES_VIDEO, ES_AUDIO
  <2>2. KindOf(coding, p) = <<Flag(p.extension) % 2>> BY <1>1, <1>3, <2>1 DEF KindOf, Bits
  <2>3. Flag(p.extension) % 2 = Flag(p.extension) /\ Flag(p.extension) \in 0..3 BY DEF Flag
  <2>4. Flag(p.extension) = 1 <=> p.extension BY DEF Flag
  <2> QED BY <2>2, <2>3, <2>4
<1>4. CASE DetermineType(coding) # ES_VIDEO /\ DetermineType(coding) # ES_AUDIO
  <2>1. KindOf(coding, p) = <<0>> BY <1>4 DEF KindOf
  <2> QED BY <1>4, <2>1
<1> QED BY <1>2, <1>3, <1>4

\* The extension data, and how long they say they are.
LEMMA ExtensionRead ==
  ASSUME NEW ext, ext = [cpb |-> ext.cpb, dpb |-> ext.dpb], Wide(ext.cpb), Wide(ext.dpb)
  PROVE  \E w \in {4, 8} :
           /\ ExtensionData(AVC, ext) \in Seq(Byte) /\ Len(ExtensionData(AVC, ext)) = 3 + 2 * w
           /\ \A f \in Seq(Byte), q \in Nat : At(f, q, ExtensionData(AVC, ext)) =>
                /\ Num(f, q, 2) = 1 + 2 * w
                /\ Num(f, q + 2, 1) = 1 <=> w = 8
                /\ Num(f, q + 3, w) = ext.cpb /\ Num(f, q + 3 + w, w) = ext.dpb
<1> DEFINE large == IsLong(ext.cpb, 4) \/ IsLong(ext.dpb, 4)
           w == IF large THEN 8 ELSE 4
           x == Flag(large)
           a == U(2, 1 + 2 * w)
           b == Bits(1, x)
           c == U(w, ext.cpb)
           d == U(w, ext.dpb)
<1>1. ExtensionData(AVC, ext) = a \o b \o c \o d BY DEF ExtensionData
<1>2. Field(w, ext.cpb) /\ Field(w, ext.dpb)
  <2>1. CASE large BY <2>1, Fields
  <2>2. CASE ~large BY <2>2, Fields, LongFields
  <2> QED BY <2>1, <2>2
<1>3. x \in 0..1 /\ (x = 1 <=> w = 8) /\ w \in {4, 8} BY DEF Flag
<1> HIDE DEF large, w, x
<1>4. 1 + 2 * w \in 0..31 BY <1>3
<1>5. Field(2, 1 + 2 * w)
  <2> DEFINE n == 1 + 2 * w
  <2>1. n \in 0..31 BY <1>4
  <2> HIDE DEF n
  <2>2. Field(2, n) BY <2>1, SmallFits, Fields
  <2> QED BY <2>2 DEF n
<1>6. b = <<x>> /\ x \in 0..31
  <2>1. BitsRange[1] = 2
    <3>1. /\ BitsRange[0] = 1 /\ BitsRange[1] = 2 * BitsRange[0]
      BY PowerSteps DEF BitsRange
    <3> QED BY <3>1
  <2>2. x % 2 = x BY <1>3
  <2> QED BY <1>3, <2>1, <2>2 DEF Bits
<1>7. /\ a \in Seq(Byte) /\ b \in Seq(Byte) /\ c \in Seq(Byte) /\ d \in Seq(Byte)
  BY <1>2, <1>5, <1>6, OneByte DEF Field
<1>8. Len(a) = 2 /\ Len(b) = 1 /\ Len(c) = w /\ Len(d) = w
  BY <1>2, <1>5, <1>6, OneByte DEF Field
<1> HIDE DEF a, b, c, d
<1>9. a \o b \o c \o d \in Seq(Byte) /\ Len(a \o b \o c \o d) = Len(a) + Len(b) + Len(c) + Len(d)
  BY <1>7, FourTogether
<1>10. Len(a \o b \o c \o d) = 3 + 2 * w BY <1>3, <1>8, <1>9
<1>11. ASSUME NEW f \in Seq(Byte), NEW q \in Nat, At(f, q, a \o b \o c \o d)
       PROVE  /\ Num(f, q, 2) = 1 + 2 * w
              /\ Num(f, q + 2, 1) = 1 <=> w = 8
              /\ Num(f, q + 3, w) = ext.cpb /\ Num(f, q + 3 + w, w) = ext.dpb
  <2>1. /\ At(f, q, a) /\ At(f, q + Len(a), b) /\ At(f, q + Len(a) + Len(b), c)
        /\ At(f, q + Len(a) + Len(b) + Len(c), d)
    BY <1>7, <1>11, FourParts
  <2>2. q + Len(a) = q + 2 /\ q + Len(a) + Len(b) = q + 3 /\ q + Len(a) + Len(b) + Len(c) = q + 3 + w
    BY <1>8
  <2>3. At(f, q, a) /\ At(f, q + 2, b) /\ At(f, q + 3, c) /\ At(f, q + 3 + w, d) BY <2>1, <2>2
  <2>4. q + 2 \in Nat /\ q + 3 \in Nat /\ q + 3 + w \in Nat BY <1>3
  <2>5. Num(f, q, 2) = 1 + 2 * w BY <1>5, <2>3 DEF Field, a
  <2>6. Num(f, q + 3, w) = ext.cpb /\ Num(f, q + 3 + w, w) = ext.dpb BY <1>2, <2>3, <2>4 DEF Field, c, d
  <2>7. Num(f, q + 2, 1) = x BY <1>6, <2>3, <2>4, CodeAt
  <2> QED BY <1>3, <2>5, <2>6, <2>7
<1> QED BY <1>1, <1>3, <1>9, <1>10, <1>11

-----------------------------------------------------------------------------
(* What is read of a packet, and of all of them.                            *)

\* A packet is read as it was written, and does not start like the end marker.
PacketReadsAs(f, p, coding, pk, blocks) ==
  /\ SamePacket(ParsePesPacket(f, p, coding).packet, pk, blocks)
  /\ ParsePesPacket(f, p, coding).end = p + Len(WritePesPacket(coding, pk, blocks))
  /\ Num(f, p, 1) # EndMarker
LEMMA PacketRead ==
  ASSUME NEW f \in Seq(Byte), NEW p \in Nat, NEW coding \in Codings, NEW blocks \in Seq(Seq(Byte)),
         NEW pk, IsPacket(pk, blocks), PacketFits(pk, coding, blocks), Fits(Len(pk.cmds), 1),
         At(f, p, WritePesPacket(coding, pk, blocks))
  PROVE  PacketReadsAs(f, p, coding, pk, blocks)
<1> DEFINE length == ComputePesFrameLength(pk.cmds, blocks)
           longPts == IsLong(pk.pts, 4)
           longDts == IsLong(pk.dts, 4)
           longLength == IsLong(length, 2)
           hasExt == pk.ext # NoExt
           v == IF longPts THEN 8 ELSE 4
           w == IF pk.dtsPresent THEN IF longDts THEN 8 ELSE 4 ELSE 0
           y == IF longLength THEN 4 ELSE 2
           flags == 16 * Flag(longPts) + 8 * Flag(pk.dtsPresent) + 4 * Flag(longDts)
                      + 2 * Flag(longLength) + Flag(hasExt)
           a == KindOf(coding, pk)
           b == <<flags>>
           c == U(v, pk.pts)
           d == IF pk.dtsPresent THEN U(w, pk.dts) ELSE <<>>
           e == IF hasExt THEN ExtensionData(coding, pk.ext) ELSE <<>>
           g == U(y, length)
           j == U(1, Len(pk.cmds))
           k == WrittenCommands(pk.cmds)
           x == Len(e)
<1>1. WritePesPacket(coding, pk, blocks) = a \o b \o c \o d \o e \o g \o j \o k
  <2> DEFINE W(long, n) == IF long THEN 2 * n ELSE n
             written == KindOf(coding, pk) \o <<flags>>
                          \o U(W(longPts, 4), pk.pts)
                          \o (IF pk.dtsPresent THEN U(W(longDts, 4), pk.dts) ELSE <<>>)
                          \o (IF pk.ext # NoExt THEN ExtensionData(coding, pk.ext) ELSE <<>>)
                          \o U(W(longLength, 2), length)
                          \o U(1, Len(pk.cmds)) \o WrittenCommands(pk.cmds)
  <2>1. WritePesPacket(coding, pk, blocks) = written BY DEF WritePesPacket, KindOf, WrittenCommands
  <2>2. W(longPts, 4) = v /\ (pk.dtsPresent => W(longDts, 4) = w) /\ W(longLength, 2) = y OBVIOUS
  <2> HIDE DEF v, w, y, flags, longPts, longDts, longLength, length, W
  <2> QED BY <2>1, <2>2
<1>2. /\ Wide(pk.pts) /\ Wide(pk.dts) /\ Fits(length, 4) /\ (pk.extension => DetermineType(coding) = ES_AUDIO)
      /\ hasExt => /\ coding = AVC /\ pk.ext = [cpb |-> pk.ext.cpb, dpb |-> pk.ext.dpb]
                   /\ Wide(pk.ext.cpb) /\ Wide(pk.ext.dpb)
  BY DEF PacketFits
<1>3. pk.picture \in Int /\ pk.extension \in BOOLEAN /\ pk.dtsPresent \in BOOLEAN BY DEF IsPacket
<1>4. Field(v, pk.pts) /\ v \in Nat
  <2>1. CASE longPts BY <1>2, <2>1, Fields
  <2>2. CASE ~longPts BY <1>2, <2>2, Fields, LongFields
  <2> QED BY <2>1, <2>2
<1>5. (pk.dtsPresent => Field(w, pk.dts)) /\ w \in Nat /\ (~pk.dtsPresent => w = 0)
  <2>1. CASE pk.dtsPresent /\ longDts BY <1>2, <2>1, Fields
  <2>2. CASE pk.dtsPresent /\ ~longDts BY <1>2, <2>2, Fields, LongFields
  <2>3. CASE ~pk.dtsPresent BY <2>3
  <2> QED BY <2>1, <2>2, <2>3
<1>6. Field(y, length) /\ y \in Nat
  <2>1. CASE longLength BY <1>2, <2>1, Fields
  <2>2. CASE ~longLength BY <1>2, <2>2, Fields, LongFields
  <2> QED BY <2>1, <2>2
<1>7. /\ flags \in 0..31
      /\ flags \div 16 = 1 <=> longPts
      /\ (flags \div 8) % 2 = 1 <=> pk.dtsPresent
      /\ (flags \div 4) % 2 = 1 <=> longDts
      /\ (flags \div 2) % 2 = 1 <=> longLength
      /\ flags % 2 = 1 <=> hasExt
  <2> HIDE DEF longPts, longDts, longLength, hasExt
  <2> DEFINE a1 == Flag(longPts)
             a2 == Flag(pk.dtsPresent)
             a3 == Flag(longDts)
             a4 == Flag(longLength)
             a5 == Flag(hasExt)
  <2>1. /\ a1 \in 0..1 /\ a2 \in 0..1 /\ a3 \in 0..1 /\ a4 \in 0..1 /\ a5 \in 0..1
        /\ a1 = 1 <=> longPts
        /\ a2 = 1 <=> pk.dtsPresent
        /\ a3 = 1 <=> longDts
        /\ a4 = 1 <=> longLength
        /\ a5 = 1 <=> hasExt
    BY DEF Flag
  <2>2. flags = 16 * a1 + 8 * a2 + 4 * a3 + 2 * a4 + a5 OBVIOUS
  <2> HIDE DEF a1, a2, a3, a4, a5, flags
  <2>3. /\ flags \in 0..31
        /\ flags \div 16 = 1 <=> a1 = 1
        /\ (flags \div 8) % 2 = 1 <=> a2 = 1
        /\ (flags \div 4) % 2 = 1 <=> a3 = 1
        /\ (flags \div 2) % 2 = 1 <=> a4 = 1
        /\ flags % 2 = 1 <=> a5 = 1
    <3>1. a1 \in 0..1 /\ a2 \in 0..1 /\ a3 \in 0..1 /\ a4 \in 0..1 /\ a5 \in 0..1 BY <2>1
    <3>2. FlagsOf(FlagByte(a1, a2, a3, a4, a5), a1, a2, a3, a4, a5) BY <3>1, FlagBits
    <3>3. flags = FlagByte(a1, a2, a3, a4, a5) BY <2>2 DEF FlagByte
    <3>4. FlagsOf(flags, a1, a2, a3, a4, a5) BY <3>2, <3>3
    <3> QED BY <3>4 DEF FlagsOf
  <2> QED BY <2>1, <2>3
<1>8. PICK kind \in 0..3 : /\ KindOf(coding, pk) = <<kind>>
                           /\ DetermineType(coding) = ES_AUDIO => (kind = 1 <=> pk.extension)
  BY <1>3, KindRead
<1>9. PICK u \in {4, 8} : hasExt =>
           /\ ExtensionData(AVC, pk.ext) \in Seq(Byte) /\ Len(ExtensionData(AVC, pk.ext)) = 3 + 2 * u
           /\ \A f1 \in Seq(Byte), q \in Nat : At(f1, q, ExtensionData(AVC, pk.ext)) =>
                /\ Num(f1, q, 2) = 1 + 2 * u
                /\ Num(f1, q + 2, 1) = 1 <=> u = 8
                /\ Num(f1, q + 3, u) = pk.ext.cpb /\ Num(f1, q + 3 + u, u) = pk.ext.dpb
  <2>1. CASE hasExt BY <1>2, <2>1, ExtensionRead
  <2>2. CASE ~hasExt
    <3>1. 4 \in {4, 8} OBVIOUS
    <3> HIDE DEF hasExt
    <3> QED BY <2>2, <3>1
  <2> QED BY <2>1, <2>2
<1>10. /\ IsASequence(pk.cmds)
       /\ \A i \in DOMAIN pk.cmds : IsCommand(pk.cmds[i]) /\ CommandFits(pk.cmds[i])
  BY DEF IsPacket, PacketFits, IsASequence
<1>11. Field(1, Len(pk.cmds)) BY Fields
<1> HIDE DEF length, longPts, longDts, longLength, hasExt, v, w, y, flags
<1>12. /\ a \in Seq(Byte) /\ Len(a) = 1 /\ b \in Seq(Byte) /\ Len(b) = 1
       /\ c \in Seq(Byte) /\ Len(c) = v /\ d \in Seq(Byte) /\ Len(d) = w
       /\ e \in Seq(Byte) /\ x \in Nat /\ (hasExt => x = 3 + 2 * u) /\ (~hasExt => x = 0)
       /\ g \in Seq(Byte) /\ Len(g) = y /\ j \in Seq(Byte) /\ Len(j) = 1
  <2>1. a \in Seq(Byte) /\ Len(a) = 1
    <3>1. kind \in 0..31 OBVIOUS
    <3> QED BY <1>8, <3>1, OneByte
  <2>2. b \in Seq(Byte) /\ Len(b) = 1 BY <1>7, OneByte
  <2>3. c \in Seq(Byte) /\ Len(c) = v BY <1>4 DEF Field
  <2>4. d \in Seq(Byte) /\ Len(d) = w
    <3>1. CASE pk.dtsPresent BY <1>5, <3>1 DEF Field
    <3>2. CASE ~pk.dtsPresent
      <4>1. d = <<>> /\ w = 0 BY <1>5, <3>2
      <4> HIDE DEF d
      <4> QED BY <4>1
    <3> QED BY <3>1, <3>2
  <2>5. e \in Seq(Byte) /\ x \in Nat /\ (hasExt => x = 3 + 2 * u) /\ (~hasExt => x = 0)
    <3>1. CASE hasExt BY <1>2, <1>9, <3>1
    <3>2. CASE ~hasExt
      <4>1. e = <<>> BY <3>2
      <4> QED BY <3>2, <4>1
    <3> QED BY <3>1, <3>2
  <2>6. g \in Seq(Byte) /\ Len(g) = y BY <1>6 DEF Field
  <2>7. j \in Seq(Byte) /\ Len(j) = 1 BY <1>11 DEF Field
  <2> QED BY <2>1, <2>2, <2>3, <2>4, <2>5, <2>6, <2>7
<1>13. k \in Seq(Byte)
  <2>1. \A i \in DOMAIN pk.cmds : IsCommand(pk.cmds[i]) BY <1>10
  <2> QED BY <1>10, WrittenBytes
<1> HIDE DEF a, b, c, d, e, g, j, k, x
<1> DEFINE r == a \o b \o c \o d \o e \o g
<1>34. /\ a \in Seq(Byte) /\ b \in Seq(Byte) /\ c \in Seq(Byte) /\ d \in Seq(Byte) /\ e \in Seq(Byte)
       /\ g \in Seq(Byte)
  BY <1>12
<1>35. j \in Seq(Byte) /\ Len(j) = 1 BY <1>12
<1>14. r \in Seq(Byte) /\ Len(r) = Len(a) + Len(b) + Len(c) + Len(d) + Len(e) + Len(g) BY <1>34, SixTogether
<1>15. Len(r) = 2 + v + w + x + y BY <1>4, <1>5, <1>6, <1>12, <1>14 DEF x
<1>16. j \o k \in Seq(Byte) BY <1>13, <1>35, Joined
<1> HIDE DEF r
<1>17. WritePesPacket(coding, pk, blocks) = r \o (j \o k)
  <2>1. WritePesPacket(coding, pk, blocks) = (r \o j) \o k BY <1>1 DEF r
  <2>2. r \in Seq(Byte) BY <1>14
  <2>3. r \o (j \o k) = (r \o j) \o k BY <1>13, <1>35, <2>2, Associated, ZenonT(30)
  <2> QED BY <2>1, <2>3
<1>18. At(f, p, r) /\ At(f, p + Len(r), j \o k) BY <1>14, <1>16, <1>17, AtParts
<1>19. /\ At(f, p, a)
       /\ At(f, p + Len(a), b)
       /\ At(f, p + Len(a) + Len(b), c)
       /\ At(f, p + Len(a) + Len(b) + Len(c), d)
       /\ At(f, p + Len(a) + Len(b) + Len(c) + Len(d), e)
       /\ At(f, p + Len(a) + Len(b) + Len(c) + Len(d) + Len(e), g)
  <2>1. At(f, p, a \o b \o c \o d \o e \o g) BY <1>18 DEF r
  <2> DEFINE s == a \o b \o c
  <2>2. Len(a) \in Nat /\ Len(b) \in Nat /\ Len(c) \in Nat /\ Len(d) \in Nat /\ Len(e) \in Nat BY <1>34
  <2>3. s \in Seq(Byte) /\ Len(s) = Len(a) + Len(b) + Len(c) BY <1>34, ThreeTogether
  <2> HIDE DEF s
  <2>4. At(f, p, s \o d \o e \o g) BY <2>1 DEF s
  <2>5. /\ At(f, p, s)
        /\ At(f, p + Len(s), d)
        /\ At(f, p + Len(s) + Len(d), e)
        /\ At(f, p + Len(s) + Len(d) + Len(e), g)
    BY <1>34, <2>3, <2>4, FourParts
  <2>6. p + Len(s) = p + Len(a) + Len(b) + Len(c) BY <2>2, <2>3
  <2>7. At(f, p, a \o b \o c) BY <2>5 DEF s
  <2>8. /\ At(f, p, a)
        /\ At(f, p + Len(a), b)
        /\ At(f, p + Len(a) + Len(b), c)
    BY <1>34, <2>7, ThreeParts
  <2> QED BY <2>5, <2>6, <2>8
<1> DEFINE t == p + 2 + v + w
           l == t + x
<1>20. /\ p + Len(a) = p + 1 /\ p + Len(a) + Len(b) = p + 2
       /\ p + Len(a) + Len(b) + Len(c) = p + 2 + v
       /\ p + Len(a) + Len(b) + Len(c) + Len(d) = t
       /\ p + Len(a) + Len(b) + Len(c) + Len(d) + Len(e) = l
       /\ p + Len(r) = l + y
  BY <1>4, <1>5, <1>6, <1>12, <1>15 DEF x
<1>21. p + 1 \in Nat /\ p + 2 \in Nat /\ p + 2 + v \in Nat /\ t \in Nat /\ l \in Nat /\ l + y \in Nat
  BY <1>4, <1>5, <1>6, <1>12
<1>22. /\ At(f, p, a) /\ At(f, p + 1, b) /\ At(f, p + 2, c) /\ At(f, p + 2 + v, d)
       /\ At(f, t, e) /\ At(f, l, g) /\ At(f, l + y, j \o k)
  BY <1>18, <1>19, <1>20
<1>23. Num(f, p, 1) = kind
  <2>1. kind \in 0..31 OBVIOUS
  <2> QED BY <1>8, <1>22, <2>1, CodeAt DEF a
<1>24. Num(f, p + 1, 1) = flags BY <1>7, <1>21, <1>22, CodeAt DEF b
<1>25. Num(f, p + 2, v) = pk.pts BY <1>4, <1>21, <1>22 DEF Field, c
<1>26. pk.dtsPresent => Num(f, p + 2 + v, w) = pk.dts BY <1>5, <1>21, <1>22 DEF Field, d
<1>27. Num(f, l, y) = length BY <1>6, <1>21, <1>22 DEF Field, g
<1>28. hasExt => /\ Num(f, t, 2) = 1 + 2 * u /\ (Num(f, t + 2, 1) = 1 <=> u = 8)
                 /\ Num(f, t + 3, u) = pk.ext.cpb /\ Num(f, t + 3 + u, u) = pk.ext.dpb
  BY <1>2, <1>9, <1>21, <1>22 DEF e
<1>29. ParseCommands(f, l + y) = [cmds |-> pk.cmds, end |-> l + y + 1 + Len(k)]
  <2> DEFINE q == l + y
  <2>1. q \in Nat BY <1>21
  <2>2. At(f, q, U(1, Len(pk.cmds)) \o WrittenCommands(pk.cmds)) BY <1>22 DEF j, k
  <2> HIDE DEF q
  <2>3. ParseCommands(f, q) = [cmds |-> pk.cmds, end |-> q + 1 + Len(WrittenCommands(pk.cmds))]
    BY <1>10, <2>1, <2>2, CommandsRead
  <2> QED BY <2>3 DEF q, k
<1>30. l + y + 1 + Len(k) = p + Len(WritePesPacket(coding, pk, blocks))
  <2> HIDE DEF v, w, y
  <2>1. r \in Seq(Byte) BY <1>14
  <2>2. Len(r \o (j \o k)) = Len(r) + Len(j \o k) BY <1>16, <2>1, TwoTogether
  <2>3. Len(j \o k) = Len(j) + Len(k) /\ Len(k) \in Nat
    <3>1. j \in Seq(Byte) /\ k \in Seq(Byte) BY <1>13, <1>35
    <3> QED BY <3>1, TwoTogether
  <2>4. Len(WritePesPacket(coding, pk, blocks)) = (2 + v + w + x + y) + (1 + Len(k))
    BY <1>15, <1>17, <1>35, <2>2, <2>3
  <2> DEFINE after == Len(k)
             all == Len(WritePesPacket(coding, pk, blocks))
  <2>5. all = (2 + v + w + x + y) + (1 + after) BY <2>4
  <2>6. v \in Nat /\ w \in Nat /\ x \in Nat /\ y \in Nat /\ after \in Nat BY <1>4, <1>5, <1>6, <1>12, <2>3
  <2> HIDE DEF after, all
  <2>7. l + y + 1 + after = p + all BY <2>5, <2>6
  <2> QED BY <2>7 DEF after, all
<1> HIDE DEF t, l
<1>31. /\ ParsePesPacket(f, p, coding).packet
            = [extension |-> pk.extension, pts |-> pk.pts, dts |-> IF pk.dtsPresent THEN pk.dts ELSE pk.pts,
               ext |-> pk.ext, length |-> length, cmds |-> pk.cmds]
       /\ ParsePesPacket(f, p, coding).end = l + y + 1 + Len(k)
  <2> DEFINE flags1 == Num(f, p + 1, 1)
             dtsPresent1 == (flags1 \div 8) % 2 = 1
             hasExt1 == flags1 % 2 = 1
             v1 == IF flags1 \div 16 = 1 THEN 8 ELSE 4
             w1 == IF ~dtsPresent1 THEN 0 ELSE IF (flags1 \div 4) % 2 = 1 THEN 8 ELSE 4
             y1 == IF (flags1 \div 2) % 2 = 1 THEN 4 ELSE 2
             t1 == p + 2 + v1 + w1
             u1 == IF Num(f, t1 + 2, 1) = 1 THEN 8 ELSE 4
             l1 == IF hasExt1 THEN t1 + 2 + Num(f, t1, 2) ELSE t1
             commands == ParseCommands(f, l1 + y1)
             extension1 == DetermineType(coding) = ES_AUDIO /\ Num(f, p, 1) = 1
             dts1 == IF dtsPresent1 THEN Num(f, p + 2 + v1, w1) ELSE Num(f, p + 2, v1)
             ext1 == IF hasExt1 /\ coding = AVC THEN [cpb |-> Num(f, t1 + 3, u1), dpb |-> Num(f, t1 + 3 + u1, u1)]
                                                ELSE NoExt
  <2>1. ParsePesPacket(f, p, coding)
          = [packet |-> [extension |-> extension1, pts |-> Num(f, p + 2, v1), dts |-> dts1, ext |-> ext1,
                         length |-> Num(f, l1, y1), cmds |-> commands.cmds],
             end |-> commands.end]
    BY DEF ParsePesPacket
  <2>2. (dtsPresent1 <=> pk.dtsPresent) /\ (hasExt1 <=> hasExt) BY <1>7, <1>24
  <2>3. v1 = v BY <1>7, <1>24 DEF v
  <2>4. w1 = w BY <1>7, <1>24 DEF w
  <2>5. y1 = y BY <1>7, <1>24 DEF y
  <2>6. t1 = t BY <2>3, <2>4 DEF t
  <2>7. l1 = l
    <3> HIDE DEF t1, hasExt1
    <3>1. CASE hasExt
      <4>1. l1 = t + 2 + (1 + 2 * u) BY <1>28, <2>2, <2>6, <3>1
      <4>2. l = t + (3 + 2 * u) BY <1>12, <3>1 DEF l
      <4> QED BY <1>21, <4>1, <4>2
    <3>2. CASE ~hasExt
      <4>1. l1 = t BY <2>2, <2>6, <3>2
      <4>2. l = t + 0 BY <1>12, <3>2 DEF l
      <4> QED BY <1>21, <4>1, <4>2
    <3> QED BY <3>1, <3>2
  <2> HIDE DEF flags1, dtsPresent1, hasExt1, v1, w1, y1, t1, l1
  <2>8. commands = [cmds |-> pk.cmds, end |-> l + y + 1 + Len(k)] BY <1>29, <2>5, <2>7
  <2>9. extension1 = pk.extension
    <3>1. extension1 <=> pk.extension BY <1>2, <1>8, <1>23
    <3> QED BY <1>3, <3>1, Zenon
  <2>10. dts1 = IF pk.dtsPresent THEN pk.dts ELSE pk.pts BY <1>25, <1>26, <2>2, <2>3, <2>4
  <2>11. ext1 = pk.ext
    <3>1. CASE hasExt
      <4>1. u1 = u BY <1>28, <2>6, <3>1
      <4> HIDE DEF u1
      <4>2. coding = AVC /\ pk.ext = [cpb |-> pk.ext.cpb, dpb |-> pk.ext.dpb] BY <1>2, <3>1
      <4>3. Num(f, t + 3, u) = pk.ext.cpb /\ Num(f, t + 3 + u, u) = pk.ext.dpb BY <1>28, <3>1
      <4>4. ext1 = [cpb |-> Num(f, t1 + 3, u1), dpb |-> Num(f, t1 + 3 + u1, u1)] BY <2>2, <3>1, <4>2
      <4>5. ext1 = [cpb |-> pk.ext.cpb, dpb |-> pk.ext.dpb] BY <2>6, <4>1, <4>3, <4>4
      <4> HIDE DEF ext1
      <4> QED BY <4>2, <4>5
    <3>2. CASE ~hasExt BY <2>2, <3>2 DEF hasExt
    <3> QED BY <3>1, <3>2
  <2>12. Num(f, p + 2, v1) = pk.pts /\ Num(f, l1, y1) = length BY <1>25, <1>27, <2>3, <2>5, <2>7
  <2> HIDE DEF commands, extension1, dts1, ext1
  <2>13. commands.cmds = pk.cmds /\ commands.end = l + y + 1 + Len(k) BY <2>8
  <2> QED BY <2>1, <2>9, <2>10, <2>11, <2>12, <2>13
<1>32. SamePacket(ParsePesPacket(f, p, coding).packet, pk, blocks) BY <1>31 DEF SamePacket, length
<1>33. Num(f, p, 1) # EndMarker
  <2>1. kind # 31 OBVIOUS
  <2> QED BY <1>23, <2>1 DEF EndMarker
<1> QED BY <1>30, <1>31, <1>32, <1>33 DEF PacketReadsAs

LEMMA AsList ==
  ASSUME NEW n \in Nat, NEW s, s = [i \in 1..n |-> s[i]], NEW V, \A i \in 1..n : s[i] \in V
  PROVE  s \in Seq(V) /\ Len(s) = n
<1>1. s \in [1..n -> V] OBVIOUS
<1>2. s \in Seq(V) BY <1>1
<1>3. DOMAIN s = 1..n OBVIOUS
<1> QED BY <1>2, <1>3

LEMMA Appended ==
  ASSUME NEW n \in Nat, NEW g
  PROVE  Append([j \in 1..n |-> g[j]], g[n + 1]) = [j \in 1..(n + 1) |-> g[j]]
<1> DEFINE s == [j \in 1..n |-> g[j]]
           V == {g[j] : j \in 1..(n + 1)}
           t == Append(s, g[n + 1])
<1>1. s \in Seq(V) /\ Len(s) = n /\ g[n + 1] \in V OBVIOUS
<1> HIDE DEF V, s
<1>2. t \in Seq(V) /\ Len(t) = n + 1 /\ t[n + 1] = g[n + 1] /\ \A j \in 1..n : t[j] = s[j] BY <1>1
<1> HIDE DEF t
<1>3. t = [j \in 1..(n + 1) |-> t[j]] BY <1>2
<1>4. \A j \in 1..(n + 1) : t[j] = g[j]
  <2> SUFFICES ASSUME NEW j \in 1..(n + 1) PROVE t[j] = g[j] OBVIOUS
  <2>1. CASE j = n + 1 BY <1>2, <2>1
  <2>2. CASE j # n + 1
    <3>1. j \in 1..n BY <2>2
    <3> QED BY <1>2, <3>1 DEF s
  <2> QED BY <2>1, <2>2
<1>5. t = [j \in 1..(n + 1) |-> g[j]] BY <1>3, <1>4
<1> QED BY <1>5 DEF t, s

\* The packets are read up to the end marker, and no further.
WrittenPackets(coding, packets, blocks) ==
  FlattenSeq([i \in 1..Len(packets) |-> WritePesPacket(coding, packets[i], blocks)])
AllPackets(coding, packets, blocks) ==
  /\ IsASequence(packets) /\ Len(packets) <= MaxPackets
  /\ \A i \in 1..Len(packets) : /\ IsPacket(packets[i], blocks) /\ PacketFits(packets[i], coding, blocks)
                                /\ Fits(Len(packets[i].cmds), 1)
LEMMA PacketsRead ==
  ASSUME NEW f \in Seq(Byte), NEW coding \in Codings, NEW blocks \in Seq(Seq(Byte)),
         NEW packets, AllPackets(coding, packets, blocks), GetDirectoryOffset(f, DirPesCutting) \in Nat,
         At(f, GetDirectoryOffset(f, DirPesCutting) + 1,
            WrittenPackets(coding, packets, blocks) \o <<EndMarker>>)
  PROVE  /\ Len(ParsePesPackets(f, coding)) = Len(packets)
         /\ \A i \in 1..Len(packets) : SamePacket(ParsePesPackets(f, coding)[i], packets[i], blocks)
<1> DEFINE n == Len(packets)
           p == GetDirectoryOffset(f, DirPesCutting) + 1
           seqs == [i \in 1..n |-> WritePesPacket(coding, packets[i], blocks)]
           NextOf(before) == IF Num(f, before.end, 1) = EndMarker THEN before
                             ELSE LET next == ParsePesPacket(f, before.end, coding)
                                  IN  [packets |-> Append(before.packets, next.packet), end |-> next.end]
           Right(s) == s = [i \in 0..MaxPackets |-> IF i = 0 THEN [packets |-> <<>>, end |-> p]
                                                    ELSE NextOf(s[i - 1])]
           after == CHOOSE s : Right(s)
<1>1. ParsePesPackets(f, coding) = after[MaxPackets].packets BY DEF ParsePesPackets
<1> HIDE DEF after
<1>2. n \in Nat /\ n <= MaxPackets /\ MaxPackets \in Nat /\ p \in Nat
  BY FormatAssumption DEF AllPackets, IsASequence
<1>3. \A i \in 1..n : /\ IsPacket(packets[i], blocks) /\ PacketFits(packets[i], coding, blocks)
                      /\ Fits(Len(packets[i].cmds), 1)
  BY DEF AllPackets
<1>4. \A i \in 1..n : seqs[i] \in Seq(Byte) /\ seqs[i] = WritePesPacket(coding, packets[i], blocks)
  BY <1>3, PacketBytes
<1>5. seqs \in Seq(Seq(Byte)) /\ Len(seqs) = n
  <2>1. n \in Nat /\ \A i \in 1..n : seqs[i] \in Seq(Byte) BY <1>2, <1>4
  <2>2. seqs = [i \in 1..n |-> seqs[i]] OBVIOUS
  <2> HIDE DEF seqs, n
  <2> QED BY <2>1, <2>2, AsList
<1>6. FlattenSeq(seqs) \in Seq(Byte) BY <1>5, FlattenSeqs
<1>7. At(f, p, FlattenSeq(seqs)) /\ At(f, p + Len(FlattenSeq(seqs)), <<EndMarker>>)
  <2> DEFINE s == FlattenSeq(seqs)
  <2>1. <<EndMarker>> \in Seq(Byte) BY Small DEF EndMarker
  <2>2. At(f, p, s \o <<EndMarker>>) BY DEF WrittenPackets
  <2>3. s \in Seq(Byte) BY <1>6
  <2> HIDE DEF p, s
  <2>4. At(f, p, s) /\ At(f, p + Len(s), <<EndMarker>>) BY <1>2, <2>1, <2>2, <2>3, AtParts
  <2> QED BY <2>4 DEF s
<1>8. PICK st : /\ Starts(st, seqs)
                /\ \A g \in Seq(Byte), q \in Nat : At(g, q, FlattenSeq(seqs)) =>
                     \A i \in 1..Len(seqs) : At(g, q + st[i], seqs[i])
  BY <1>5, FlattenAt
<1>9. /\ \A i \in 1..(n + 1) : st[i] \in Nat
      /\ st[1] = 0 /\ \A i \in 1..n : st[i + 1] = st[i] + Len(seqs[i])
      /\ st[n + 1] = Len(FlattenSeq(seqs))
  <2> HIDE DEF n, seqs
  <2> QED BY <1>5, <1>8 DEF Starts
<1>10. \A i \in 1..n : At(f, p + st[i], seqs[i])
  <2> HIDE DEF n, seqs, p
  <2> QED BY <1>2, <1>5, <1>7, <1>8
<1> DEFINE got == [j \in 1..n |-> ParsePesPacket(f, p + st[j], coding).packet]
<1>11. \A i \in 1..n : /\ SamePacket(got[i], packets[i], blocks)
                       /\ got[i] = ParsePesPacket(f, p + st[i], coding).packet
                       /\ ParsePesPacket(f, p + st[i], coding).end = p + st[i + 1]
                       /\ Num(f, p + st[i], 1) # EndMarker
  <2> SUFFICES ASSUME NEW i \in 1..n
               PROVE  /\ SamePacket(got[i], packets[i], blocks)
                      /\ got[i] = ParsePesPacket(f, p + st[i], coding).packet
                      /\ ParsePesPacket(f, p + st[i], coding).end = p + st[i + 1]
                      /\ Num(f, p + st[i], 1) # EndMarker
    OBVIOUS
  <2>1. got[i] = ParsePesPacket(f, p + st[i], coding).packet OBVIOUS
  <2> DEFINE q == p + st[i]
  <2> HIDE DEF n, p, seqs, got
  <2>2. i \in 1..(n + 1) /\ st[i] \in Nat /\ q \in Nat BY <1>2, <1>9
  <2>3. At(f, q, WritePesPacket(coding, packets[i], blocks)) BY <1>4, <1>10
  <2> HIDE DEF q
  <2>4. PacketReadsAs(f, q, coding, packets[i], blocks) BY <1>3, <2>2, <2>3, PacketRead
  <2>5. st[i + 1] = st[i] + Len(seqs[i]) /\ Len(seqs[i]) \in Nat BY <1>4, <1>9
  <2>6. q + Len(seqs[i]) = p + st[i + 1] BY <1>2, <2>2, <2>5 DEF q
  <2>7. Len(WritePesPacket(coding, packets[i], blocks)) = Len(seqs[i]) BY <1>4
  <2>8. ParsePesPacket(f, q, coding).end = p + st[i + 1] BY <2>4, <2>6, <2>7 DEF PacketReadsAs
  <2> QED BY <2>1, <2>4, <2>8 DEF PacketReadsAs, q
<1>12. Num(f, p + st[n + 1], 1) = EndMarker
  <2> DEFINE q == p + st[n + 1]
  <2> HIDE DEF n, p, seqs
  <2>1. n + 1 \in 1..(n + 1) BY <1>2
  <2>2. q \in Nat /\ At(f, q, <<EndMarker>>) BY <1>2, <1>7, <1>9, <2>1
  <2> HIDE DEF q
  <2>3. EndMarker \in 0..31 BY DEF EndMarker
  <2>4. Num(f, q, 1) = EndMarker BY <2>2, <2>3, CodeAt
  <2> QED BY <2>4 DEF q
<1> DEFINE m(i) == IF i <= n THEN i ELSE n
           s0 == [i \in 0..MaxPackets |-> [packets |-> [j \in 1..m(i) |-> got[j]], end |-> p + st[m(i) + 1]]]
<1> HIDE DEF p, got, seqs
<1>13. ASSUME NEW i \in 0..MaxPackets, i # 0
       PROVE  i - 1 \in 0..MaxPackets /\ s0[i] = NextOf(s0[i - 1])
  <2>1. i - 1 \in 0..MaxPackets BY <1>2, <1>13
  <2>2. s0[i - 1] = [packets |-> [j \in 1..m(i - 1) |-> got[j]], end |-> p + st[m(i - 1) + 1]] BY <2>1
  <2>3. s0[i] = [packets |-> [j \in 1..m(i) |-> got[j]], end |-> p + st[m(i) + 1]] OBVIOUS
  <2> HIDE DEF s0, n
  <2>4. CASE i <= n
    <3>1. m(i - 1) = i - 1 /\ (i - 1) + 1 = i /\ m(i) = i /\ i \in 1..n /\ i - 1 \in Nat BY <1>2, <1>13, <2>4
    <3> HIDE DEF m
    <3>2. s0[i - 1] = [packets |-> [j \in 1..(i - 1) |-> got[j]], end |-> p + st[i]] BY <2>2, <3>1
    <3>3. s0[i] = [packets |-> [j \in 1..i |-> got[j]], end |-> p + st[i + 1]] BY <2>3, <3>1
    <3>4. s0[i - 1].end = p + st[i] /\ s0[i - 1].packets = [j \in 1..(i - 1) |-> got[j]] BY <3>2
    <3> DEFINE k == i - 1
               before == s0[i - 1]
    <3>5. k \in Nat /\ k + 1 = i BY <3>1
    <3>6. before.end = p + st[i] /\ before.packets = [j \in 1..k |-> got[j]] BY <3>4
    <3> HIDE DEF k, before
    <3>7. Append(before.packets, got[k + 1]) = [j \in 1..(k + 1) |-> got[j]] BY <3>5, <3>6, Appended
    <3>8. NextOf(before) = [packets |-> Append(before.packets, ParsePesPacket(f, before.end, coding).packet),
                            end |-> ParsePesPacket(f, before.end, coding).end]
      BY <1>11, <3>1, <3>6
    <3> HIDE DEF NextOf
    <3>9. NextOf(before) = [packets |-> Append(before.packets, got[i]), end |-> p + st[i + 1]]
      BY <1>11, <3>1, <3>6, <3>8
    <3>10. NextOf(before) = s0[i] BY <3>3, <3>5, <3>7, <3>9
    <3> QED BY <2>1, <3>10 DEF before
  <2>5. CASE ~(i <= n)
    <3>1. m(i - 1) = n /\ m(i) = n BY <1>2, <1>13, <2>5
    <3> HIDE DEF m
    <3>2. s0[i - 1] = s0[i] BY <2>2, <2>3, <3>1
    <3>3. s0[i - 1].end = p + st[n + 1] BY <2>2, <3>1
    <3>4. Num(f, s0[i - 1].end, 1) = EndMarker BY <1>12, <3>3
    <3>5. NextOf(s0[i - 1]) = s0[i - 1] BY <3>4
    <3> HIDE DEF NextOf
    <3> QED BY <2>1, <3>2, <3>5
  <2> QED BY <2>4, <2>5
<1>14. s0[0] = [packets |-> <<>>, end |-> p]
  <2>1. 0 \in 0..MaxPackets /\ 0 <= n BY <1>2
  <2>2. m(0) = 0 /\ 1..0 = {} /\ p + st[0 + 1] = p BY <1>2, <1>9, <2>1
  <2>3. s0[0] = [packets |-> [j \in 1..0 |-> got[j]], end |-> p + st[0 + 1]] BY <2>1, <2>2
  <2>4. [j \in 1..0 |-> got[j]] = <<>> OBVIOUS
  <2> QED BY <2>2, <2>3, <2>4
<1> HIDE DEF NextOf
<1>15. Right(s0)
  <2>1. \A i \in 0..MaxPackets : s0[i] = IF i = 0 THEN [packets |-> <<>>, end |-> p] ELSE NextOf(s0[i - 1])
    <3> HIDE DEF s0
    <3> QED BY <1>13, <1>14
  <2>2. s0 = [i \in 0..MaxPackets |-> s0[i]] OBVIOUS
  <2> HIDE DEF s0
  <2> QED BY <2>1, <2>2
<1>16. Right(after)
  <2> HIDE DEF Right, s0
  <2> QED BY <1>15 DEF after
<1>17. after[MaxPackets] = s0[MaxPackets]
  <2> HIDE DEF s0
  <2>1. \A i \in 0..MaxPackets :
          /\ after[i] = IF i = 0 THEN [packets |-> <<>>, end |-> p] ELSE NextOf(after[i - 1])
          /\ s0[i] = IF i = 0 THEN [packets |-> <<>>, end |-> p] ELSE NextOf(s0[i - 1])
    BY <1>15, <1>16
  <2> HIDE DEF n, Right
  <2> DEFINE S == {i \in 0..MaxPackets : after[i] = s0[i]}
  <2>2. 0 \in S
    <3>1. 0 \in 0..MaxPackets BY <1>2
    <3> QED BY <2>1, <3>1
  <2>3. \A i \in 0..MaxPackets : i \in S /\ i # MaxPackets => i + 1 \in S
    <3> SUFFICES ASSUME NEW i \in 0..MaxPackets, i \in S, i # MaxPackets PROVE i + 1 \in S OBVIOUS
    <3> DEFINE j == i + 1
    <3>1. j \in 0..MaxPackets /\ j # 0 /\ j - 1 = i /\ after[i] = s0[i] BY <1>2
    <3> HIDE DEF j
    <3>2. after[j] = s0[j] BY <2>1, <3>1
    <3> QED BY <3>1, <3>2 DEF j
  <2> HIDE DEF S
  <2>4. \A i \in 0..MaxPackets : i \in S BY <1>2, <2>2, <2>3, OneByOne
  <2>5. MaxPackets \in 0..MaxPackets BY <1>2
  <2> QED BY <2>4, <2>5 DEF S
<1>18. s0[MaxPackets].packets = [j \in 1..n |-> got[j]]
  <2>1. MaxPackets \in 0..MaxPackets BY <1>2
  <2>2. m(MaxPackets) = n BY <1>2
  <2>3. s0[MaxPackets].packets = [j \in 1..m(MaxPackets) |-> got[j]] BY <2>1
  <2> HIDE DEF s0, m
  <2> QED BY <2>2, <2>3
<1> HIDE DEF s0, n
<1>19. ParsePesPackets(f, coding) = [j \in 1..n |-> got[j]] BY <1>1, <1>17, <1>18
<1>20. Len([j \in 1..n |-> got[j]]) = n BY <1>2
<1> QED BY <1>11, <1>19, <1>20 DEF n

-----------------------------------------------------------------------------
(* The directories and the sections.                                        *)

\* Entries of nine bytes, one after the other.
LEMMA NineEach ==
  ASSUME NEW seqs \in Seq(Seq(Byte)), \A i \in 1..Len(seqs) : Len(seqs[i]) = 9
  PROVE  /\ FlattenSeq(seqs) \in Seq(Byte) /\ Len(FlattenSeq(seqs)) = 9 * Len(seqs)
         /\ \A f \in Seq(Byte), q \in Nat : At(f, q, FlattenSeq(seqs)) =>
              \A i \in 1..Len(seqs) : At(f, q + 9 * (i - 1), seqs[i])
<1> DEFINE n == Len(seqs)
<1>1. n \in Nat /\ FlattenSeq(seqs) \in Seq(Byte) BY FlattenSeqs
<1>2. PICK st : /\ Starts(st, seqs)
                /\ \A f \in Seq(Byte), q \in Nat : At(f, q, FlattenSeq(seqs)) =>
                     \A i \in 1..Len(seqs) : At(f, q + st[i], seqs[i])
  BY FlattenAt
<1>3. /\ st[1] = 0 /\ \A i \in 1..n : st[i + 1] = st[i] + 9
      /\ st[n + 1] = Len(FlattenSeq(seqs))
  BY <1>2 DEF Starts
<1> DEFINE S == {i \in 1..(n + 1) : st[i] = 9 * (i - 1)}
           m == n + 1
<1>4. m \in Nat /\ 1 \in S BY <1>1, <1>3
<1>5. \A i \in 1..m : i \in S /\ i # m => i + 1 \in S
  <2> SUFFICES ASSUME NEW i \in 1..m, i \in S, i # m PROVE i + 1 \in S OBVIOUS
  <2> HIDE DEF n
  <2>1. i \in 1..n /\ i + 1 \in 1..(n + 1) /\ st[i] = 9 * (i - 1) BY <1>1
  <2>2. st[i + 1] = 9 * (i - 1) + 9 BY <1>3, <2>1
  <2>3. 9 * (i - 1) + 9 = 9 * ((i + 1) - 1) BY <2>1
  <2> QED BY <2>1, <2>2, <2>3
<1> HIDE DEF S, m
<1>6. \A i \in 1..m : i \in S BY <1>4, <1>5, OneByOne
<1>7. \A i \in 1..(n + 1) : st[i] = 9 * (i - 1) BY <1>6 DEF S, m
<1> HIDE DEF n
<1>8. n + 1 \in 1..(n + 1) /\ (n + 1) - 1 = n /\ \A i \in 1..n : i \in 1..(n + 1) BY <1>1
<1>9. Len(FlattenSeq(seqs)) = 9 * n BY <1>3, <1>7, <1>8
<1>10. \A i \in 1..n : st[i] = 9 * (i - 1) BY <1>7, <1>8
<1> QED BY <1>1, <1>2, <1>9, <1>10 DEF n

\* What the update of the header leaves in the file: its directories, and the sections.
UpdatesAs(f, dirs, g) ==
  /\ g \in Seq(Byte) /\ Len(g) = Len(f)
  /\ Num(g, 3, 1) = Len(dirs)
  /\ \A i \in 1..Len(dirs) : /\ Num(g, 4 + 9 * (i - 1), 1) = dirs[i].id
                             /\ Num(g, 5 + 9 * (i - 1), 8) = dirs[i].offset
  /\ \A p \in Nat, s \in Seq(Byte) : p >= HeaderLength /\ At(f, p, s) => At(g, p, s)
LEMMA HeaderUpdated ==
  ASSUME NEW f \in Seq(Byte), Len(f) >= HeaderLength, NEW dirs \in Seq(Directories), Len(dirs) <= 4,
         \A i \in 1..Len(dirs) : Wide(dirs[i].offset)
  PROVE  UpdatesAs(f, dirs, UpdateEsmsHeader(f, dirs))
<1> DEFINE n == Len(dirs)
           Entry(i) == <<dirs[i].id>> \o U(8, dirs[i].offset)
           entries == [i \in DOMAIN dirs |-> Entry(i)]
           start == SubSeq(f, 1, 2)
           marker == <<1, n>>
           k == 5 + 9 * n
           rest == SubSeq(f, k, Len(f))
           tail == FlattenSeq(entries)
           g == UpdateEsmsHeader(f, dirs)
<1>1. /\ n \in Nat /\ n <= 4 /\ DOMAIN dirs = 1..n /\ Len(f) \in Nat /\ k \in Nat
      /\ k - 1 <= HeaderLength /\ HeaderLength \in Nat
  <2>1. MaxDir \in Nat /\ MaxDir >= 4 BY FormatAssumption
  <2>2. n \in Nat /\ n <= 4 OBVIOUS
  <2> HIDE DEF n
  <2>3. 4 + 9 * n <= 4 + 9 * MaxDir BY <2>1, <2>2
  <2> QED BY <2>1, <2>2, <2>3 DEF HeaderLength, n
<1>2. \A i \in 1..n : /\ dirs[i].id \in 0..31 /\ Wide(dirs[i].offset)
                      /\ entries[i] = <<dirs[i].id>> \o U(8, dirs[i].offset)
  <2> SUFFICES ASSUME NEW i \in 1..n
               PROVE  /\ dirs[i].id \in 0..31 /\ Wide(dirs[i].offset)
                      /\ entries[i] = <<dirs[i].id>> \o U(8, dirs[i].offset)
    OBVIOUS
  <2>1. dirs[i] \in Directories OBVIOUS
  <2>2. dirs[i].id \in 0..31 BY <2>1 DEF Directories
  <2> QED BY <2>2
<1>3. entries = [i \in 1..n |-> entries[i]] BY <1>1
<1>4. /\ rest \in Seq(Byte) /\ Len(rest) = Len(f) - (k - 1) /\ start \in Seq(Byte) /\ Len(start) = 2
      /\ \A i \in 1..Len(rest) : rest[i] = f[(k - 1) + i]
  <2>1. k \in 1..(Len(f) + 1) /\ 2 <= Len(f) BY <1>1, HeaderBytes
  <2>2. start \in Seq(Byte) /\ Len(start) = 2 BY <1>1, <2>1
  <2> HIDE DEF k
  <2>3. rest \in Seq(Byte) /\ Len(rest) = Len(f) - k + 1 BY <1>1, <2>1
  <2>4. \A i \in 1..(Len(f) - k + 1) : rest[i] = f[k + i - 1] BY <1>1, <2>1
  <2>5. \A i \in 1..(Len(f) - k + 1) : k + i - 1 = (k - 1) + i BY <1>1
  <2>6. Len(f) - k + 1 = Len(f) - (k - 1) BY <1>1
  <2> QED BY <2>2, <2>3, <2>4, <2>5, <2>6
<1>5. g = start \o marker \o tail \o rest BY DEF UpdateEsmsHeader
<1>6. g \in Seq(Byte) BY UpdatedBytes
<1> HIDE DEF entries, start, rest, g, k
<1>7. \A i \in 1..n : entries[i] \in Seq(Byte) /\ Len(entries[i]) = 9
  <2> SUFFICES ASSUME NEW i \in 1..n PROVE entries[i] \in Seq(Byte) /\ Len(entries[i]) = 9 OBVIOUS
  <2>1. <<dirs[i].id>> \in Seq(Byte) /\ Len(<<dirs[i].id>>) = 1 BY <1>2, OneByte
  <2>2. Field(8, dirs[i].offset) BY <1>2, Fields
  <2>3. U(8, dirs[i].offset) \in Seq(Byte) /\ Len(U(8, dirs[i].offset)) = 8 BY <2>2 DEF Field
  <2> DEFINE a == <<dirs[i].id>>
             b == U(8, dirs[i].offset)
  <2> HIDE DEF a, b
  <2>4. Len(a \o b) = Len(a) + Len(b) /\ a \o b \in Seq(Byte)
    <3>1. a \in Seq(Byte) /\ b \in Seq(Byte) BY <2>1, <2>3 DEF a, b
    <3> QED BY <3>1, TwoTogether
  <2>5. entries[i] = a \o b BY <1>2 DEF a, b
  <2>6. Len(a) = 1 /\ Len(b) = 8 BY <2>1, <2>3 DEF a, b
  <2> QED BY <2>4, <2>5, <2>6
<1>8. entries \in Seq(Seq(Byte)) /\ Len(entries) = n
  <2>1. n \in Nat /\ \A i \in 1..n : entries[i] \in Seq(Byte) BY <1>1, <1>7
  <2> HIDE DEF n
  <2> QED BY <1>3, <2>1, AsList
<1>12. /\ tail \in Seq(Byte) /\ Len(tail) = 9 * n
       /\ \A x \in Seq(Byte), q \in Nat : At(x, q, tail) =>
            \A i \in 1..n : At(x, q + 9 * (i - 1), entries[i])
  <2> HIDE DEF n
  <2> QED BY <1>7, <1>8, NineEach
<1>13. marker \in Seq(Byte) /\ Len(marker) = 2 /\ marker[1] = 1 /\ marker[2] = n
  <2> HIDE DEF n
  <2>1. 1 \in 0..31 /\ n \in 0..31 BY <1>1
  <2>2. 1 \in Byte /\ n \in Byte BY <2>1, Small
  <2> QED BY <2>2
<1> HIDE DEF marker, tail
<1> DEFINE s == start \o marker
<1>14. s \in Seq(Byte) /\ Len(s) = 4 /\ s[4] = n
  <2>1. start \in Seq(Byte) /\ marker \in Seq(Byte) BY <1>4, <1>13
  <2>2. s \in Seq(Byte) /\ Len(s) = Len(start) + Len(marker) BY <2>1, TwoTogether
  <2>3. 2 \in 1..Len(marker) BY <1>13
  <2>4. s[Len(start) + 2] = marker[2] BY <2>1, <2>3, JoinedParts
  <2>5. Len(start) + 2 = 4 BY <1>4
  <2> QED BY <1>4, <1>13, <2>2, <2>4, <2>5
<1> HIDE DEF s
<1>15. At(g, 0, s) /\ At(g, 4, tail) /\ At(g, 4 + 9 * n, rest)
  <2>1. s \in Seq(Byte) /\ tail \in Seq(Byte) /\ rest \in Seq(Byte) BY <1>4, <1>12, <1>14
  <2>2. At(g, 0, s \o tail \o rest)
    <3>1. At(g, 0, g) BY <1>6, AtItself
    <3> QED BY <1>5, <3>1 DEF s
  <2>3. /\ At(g, 0, s)
        /\ At(g, 0 + Len(s), tail)
        /\ At(g, 0 + Len(s) + Len(tail), rest)
    BY <1>6, <2>1, <2>2, ThreeParts
  <2>4. 0 + Len(s) = 4 /\ 0 + Len(s) + Len(tail) = 4 + 9 * n BY <1>1, <1>12, <1>14
  <2> QED BY <2>3, <2>4
<1>16. Len(g) = Len(f)
  <2>1. s \in Seq(Byte) /\ tail \in Seq(Byte) /\ rest \in Seq(Byte) BY <1>4, <1>12, <1>14
  <2>2. Len(s \o tail \o rest) = Len(s) + Len(tail) + Len(rest) BY <2>1, ThreeTogether
  <2>3. Len(g) = Len(s) + Len(tail) + Len(rest) BY <1>5, <2>2 DEF s
  <2>4. Len(s) = 4 /\ Len(tail) = 9 * n /\ Len(rest) = Len(f) - (k - 1) BY <1>4, <1>12, <1>14
  <2>5. k = 5 + 9 * n BY DEF k
  <2> HIDE DEF n
  <2> QED BY <1>1, <2>3, <2>4, <2>5
<1>17. Num(g, 3, 1) = n
  <2>1. g[4] = n /\ 4 <= Len(g) /\ Len(g) \in Nat
    <3>1. At(g, 0, s) /\ Len(s) = 4 /\ s[4] = n BY <1>14, <1>15
    <3>2. 4 \in 1..Len(s) /\ 0 + 4 = 4 BY <3>1
    <3>3. g[0 + 4] = s[4] /\ 0 + Len(s) <= Len(g) BY <3>1, <3>2 DEF At
    <3>4. Len(g) \in Nat BY <1>6
    <3> QED BY <3>1, <3>2, <3>3, <3>4
  <2>2. At(g, 3, <<n>>)
    <3>1. Len(<<n>>) = 1 /\ <<n>>[1] = n /\ 3 + 1 = 4 OBVIOUS
    <3> HIDE DEF n
    <3> QED BY <2>1, <3>1 DEF At
  <2> HIDE DEF n
  <2>3. n \in 0..31 BY <1>1
  <2> QED BY <1>6, <2>2, <2>3, CodeAt
<1>18. ASSUME NEW i \in 1..n
       PROVE  /\ Num(g, 4 + 9 * (i - 1), 1) = dirs[i].id
              /\ Num(g, 5 + 9 * (i - 1), 8) = dirs[i].offset
  <2> DEFINE q == 4 + 9 * (i - 1)
             a == <<dirs[i].id>>
             b == U(8, dirs[i].offset)
  <2>1. q \in Nat /\ 5 + 9 * (i - 1) = q + 1 BY <1>1
  <2>2. At(g, 4 + 9 * (i - 1), entries[i])
    <3> HIDE DEF n
    <3> QED BY <1>6, <1>12, <1>15
  <2>3. At(g, q, a \o b) BY <1>2, <2>2
  <2>4. dirs[i].id \in 0..31 /\ Field(8, dirs[i].offset) BY <1>2, Fields
  <2>5. a \in Seq(Byte) /\ Len(a) = 1 BY <2>4, OneByte
  <2>6. b \in Seq(Byte) BY <2>4 DEF Field
  <2>9. a \in Seq(Byte) BY <2>5
  <2> HIDE DEF a, b, q
  <2>7. At(g, q, a) /\ At(g, q + Len(a), b) BY <1>6, <2>1, <2>3, <2>6, <2>9, AtParts
  <2>8. At(g, q, <<dirs[i].id>>) /\ At(g, q + 1, U(8, dirs[i].offset)) BY <2>5, <2>7 DEF a, b
  <2>10. Num(g, q, 1) = dirs[i].id BY <1>6, <2>1, <2>4, <2>8, CodeAt
  <2>11. q + 1 \in Nat BY <2>1
  <2>12. Num(g, q + 1, 8) = dirs[i].offset BY <1>6, <2>4, <2>8, <2>11 DEF Field
  <2> QED BY <2>1, <2>10, <2>12 DEF q
<1>19. ASSUME NEW p \in Nat, NEW x \in Seq(Byte), p >= HeaderLength, At(f, p, x)
       PROVE  At(g, p, x)
  <2>1. p + Len(x) <= Len(g) BY <1>16, <1>19 DEF At
  <2>2. ASSUME NEW i \in 1..Len(x) PROVE g[p + i] = x[i]
    <3>1. f[p + i] = x[i] /\ p + Len(x) <= Len(f) BY <1>19 DEF At
    <3> DEFINE j == p + i - (k - 1)
    <3>2. k - 1 = 4 + 9 * n BY DEF k
    <3> HIDE DEF n
    <3>3. j \in 1..Len(rest) /\ (k - 1) + j = p + i BY <1>1, <1>4, <1>19, <3>1, SMTT(30)
    <3> HIDE DEF j
    <3>4. rest[j] = f[p + i] BY <1>4, <3>3
    <3>5. g[(4 + 9 * n) + j] = rest[j] BY <1>15, <3>3 DEF At
    <3> QED BY <3>1, <3>2, <3>3, <3>4, <3>5
  <2> QED BY <2>1, <2>2 DEF At
<1> QED BY <1>6, <1>16, <1>17, <1>18, <1>19 DEF UpdatesAs, g

\* A directory is found by its identifier, that no other one has.
LEMMA DirectoryFound ==
  ASSUME NEW f, NEW dirs \in Seq(Directories), NEW g, UpdatesAs(f, dirs, g)
  PROVE  /\ \A id : (\A i \in 1..Len(dirs) : dirs[i].id # id) => GetDirectoryOffset(g, id) = 0
         /\ \A i \in 1..Len(dirs) : (\A j \in 1..Len(dirs) : dirs[j].id = dirs[i].id => j = i)
              => GetDirectoryOffset(g, dirs[i].id) = dirs[i].offset
<1> DEFINE n == Len(dirs)
           Found(id) == {i \in 0..(n - 1) : Num(g, 4 + 9 * i, 1) = id}
<1>1. /\ n \in Nat /\ Num(g, 3, 1) = n
      /\ \A i \in 1..n : /\ Num(g, 4 + 9 * (i - 1), 1) = dirs[i].id
                         /\ Num(g, 5 + 9 * (i - 1), 8) = dirs[i].offset
  BY DEF UpdatesAs
<1> HIDE DEF n
<1>2. \A i \in 0..(n - 1) : i + 1 \in 1..n /\ (i + 1) - 1 = i BY <1>1
<1>3. \A i \in 0..(n - 1) : /\ Num(g, 4 + 9 * i, 1) = dirs[i + 1].id
                            /\ Num(g, 5 + 9 * i, 8) = dirs[i + 1].offset
  <2> SUFFICES ASSUME NEW i \in 0..(n - 1)
               PROVE  Num(g, 4 + 9 * i, 1) = dirs[i + 1].id /\ Num(g, 5 + 9 * i, 8) = dirs[i + 1].offset
    OBVIOUS
  <2> DEFINE j == i + 1
  <2>1. j \in 1..n /\ j - 1 = i BY <1>2
  <2> HIDE DEF j
  <2>2. Num(g, 4 + 9 * (j - 1), 1) = dirs[j].id /\ Num(g, 5 + 9 * (j - 1), 8) = dirs[j].offset BY <1>1, <2>1
  <2> QED BY <2>1, <2>2 DEF j
<1>4. \A id : GetDirectoryOffset(g, id)
                = IF Found(id) = {} THEN 0
                  ELSE Num(g, 5 + 9 * (CHOOSE i \in Found(id) : \A j \in Found(id) : i <= j), 8)
  <2> SUFFICES ASSUME NEW id
               PROVE  GetDirectoryOffset(g, id)
                        = IF Found(id) = {} THEN 0
                          ELSE Num(g, 5 + 9 * (CHOOSE i \in Found(id) : \A j \in Found(id) : i <= j), 8)
    OBVIOUS
  <2> DEFINE found == {i \in 0..(Num(g, 3, 1) - 1) : Num(g, 4 + 9 * i, 1) = id}
  <2>1. found = Found(id) BY <1>1
  <2>2. GetDirectoryOffset(g, id)
          = IF found = {} THEN 0 ELSE Num(g, 5 + 9 * (CHOOSE i \in found : \A j \in found : i <= j), 8)
    BY DEF GetDirectoryOffset
  <2> HIDE DEF found, Found
  <2> QED BY <2>1, <2>2
<1>5. ASSUME NEW id, \A i \in 1..n : dirs[i].id # id PROVE GetDirectoryOffset(g, id) = 0
  <2>1. Found(id) = {} BY <1>2, <1>3, <1>5
  <2> QED BY <1>4, <2>1
<1>6. ASSUME NEW i \in 1..n, \A j \in 1..n : dirs[j].id = dirs[i].id => j = i
      PROVE  GetDirectoryOffset(g, dirs[i].id) = dirs[i].offset
  <2> DEFINE k == i - 1
             F == Found(dirs[i].id)
  <2>1. k \in 0..(n - 1) /\ k + 1 = i BY <1>1
  <2> HIDE DEF k
  <2>2. F = {k}
    <3>1. k \in F BY <1>3, <2>1
    <3>2. ASSUME NEW j \in F PROVE j = k
      <4>1. j \in 0..(n - 1) /\ dirs[j + 1].id = dirs[i].id BY <1>3
      <4>2. j + 1 = i BY <1>2, <1>6, <4>1
      <4> QED BY <2>1, <4>1, <4>2
    <3> QED BY <3>1, <3>2
  <2>3. GetDirectoryOffset(g, dirs[i].id)
          = IF F = {} THEN 0 ELSE Num(g, 5 + 9 * (CHOOSE j \in F : \A m \in F : j <= m), 8)
    BY <1>4
  <2> HIDE DEF F
  <2>4. (CHOOSE j \in F : \A m \in F : j <= m) = k
    <3>1. \E j \in F : \A m \in F : j <= m BY <2>1, <2>2
    <3> QED BY <2>2, <3>1
  <2> QED BY <1>3, <2>1, <2>2, <2>3, <2>4
<1> QED BY <1>5, <1>6 DEF n

\* The section of properties is read as it was written.
PropertiesFit(x) ==
  /\ IsHeader(x)
  /\ Wide(x.ptsRef) /\ Wide(x.endPts) /\ Wide(x.flags) /\ Fits(x.bitrate, 4) /\ Fits(Len(x.sources), 1)
  /\ \A i \in 1..Len(x.sources) : Fits(x.sources[i].crc, 4)
PropertiesReadAs(f, p, x) ==
  /\ Num(f, p, 1) = PropMagic
  /\ ParseCoding(f, p) = x.coding /\ ParseFlags(f, p) = x.flags /\ ParseSources(f, p) = x.sources
  /\ Num(f, p + 3, 8) = x.ptsRef /\ Num(f, p + 11, 4) = x.bitrate /\ Num(f, p + 15, 8) = x.endPts
SourceEntry(source) == U(2, 1) \o <<source.name>> \o U(2, CRC32_USED_BYTES) \o U(4, source.crc)
LEMMA SourceRead ==
  ASSUME NEW source \in SourceRecords, Fits(source.crc, 4)
  PROVE  /\ SourceEntry(source) \in Seq(Byte) /\ Len(SourceEntry(source)) = 9
         /\ \A f \in Seq(Byte), q \in Nat : At(f, q, SourceEntry(source)) =>
              Num(f, q + 2, 1) = source.name /\ Num(f, q + 5, 4) = source.crc
<1> DEFINE a == U(2, 1)
           b == <<source.name>>
           c == U(2, CRC32_USED_BYTES)
           d == U(4, source.crc)
<1>1. source.name \in Byte /\ Field(4, source.crc) BY Fields DEF SourceRecords
<1>2. a \in Seq(Byte) /\ Len(a) = 2 /\ c \in Seq(Byte) /\ Len(c) = 2
  <2>1. 1 \in Int /\ CRC32_USED_BYTES \in Int BY DEF CRC32_USED_BYTES
  <2> QED BY <2>1, Widths
<1>3. b \in Seq(Byte) /\ Len(b) = 1 BY <1>1
<1>4. d \in Seq(Byte) /\ Len(d) = 4 BY <1>1 DEF Field
<1>5. SourceEntry(source) = a \o b \o c \o d BY DEF SourceEntry
<1> HIDE DEF a, b, c, d
<1>6. a \in Seq(Byte) /\ b \in Seq(Byte) /\ c \in Seq(Byte) /\ d \in Seq(Byte) BY <1>2, <1>3, <1>4
<1>7. /\ a \o b \o c \o d \in Seq(Byte)
      /\ Len(a \o b \o c \o d) = Len(a) + Len(b) + Len(c) + Len(d)
  BY <1>6, FourTogether
<1>8. ASSUME NEW f \in Seq(Byte), NEW q \in Nat, At(f, q, SourceEntry(source))
      PROVE  Num(f, q + 2, 1) = source.name /\ Num(f, q + 5, 4) = source.crc
  <2>1. At(f, q, a \o b \o c \o d) BY <1>5, <1>8
  <2>2. /\ At(f, q + Len(a), b)
        /\ At(f, q + Len(a) + Len(b) + Len(c), d)
    BY <1>6, <2>1, FourParts
  <2>3. q + Len(a) = q + 2 /\ q + Len(a) + Len(b) + Len(c) = q + 5 BY <1>2, <1>3
  <2>4. q + 2 \in Nat /\ q + 5 \in Nat OBVIOUS
  <2>5. At(f, q + 2, <<source.name>>) /\ At(f, q + 5, U(4, source.crc)) BY <2>2, <2>3 DEF b, d
  <2>6. Num(f, q + 2, 1) = source.name BY <1>1, <2>4, <2>5, ByteAt
  <2> QED BY <1>1, <2>4, <2>5, <2>6 DEF Field
<1> QED BY <1>2, <1>3, <1>4, <1>5, <1>7, <1>8

LEMMA PropertiesRead ==
  ASSUME NEW x, PropertiesFit(x)
  PROVE  /\ WriteEsPropertiesSection(x) \in Seq(Byte)
         /\ Len(WriteEsPropertiesSection(x)) = 32 + 9 * Len(x.sources)
         /\ \A f \in Seq(Byte), p \in Nat : At(f, p, WriteEsPropertiesSection(x)) => PropertiesReadAs(f, p, x)
<1> DEFINE n == Len(x.sources)
           entries == [i \in DOMAIN x.sources |-> SourceEntry(x.sources[i])]
           a == <<PropMagic, DetermineType(x.coding), x.coding>>
           b == U(8, x.ptsRef)
           c == U(4, x.bitrate)
           d == U(8, x.endPts)
           e == U(8, x.flags)
           g == U(1, n)
           j == FlattenSeq(entries)
           s == a \o b \o c \o d
<1>1. WriteEsPropertiesSection(x) = a \o b \o c \o d \o e \o g \o j
  BY DEF WriteEsPropertiesSection, SourceEntry
<1>2. /\ Field(8, x.ptsRef) /\ Field(4, x.bitrate) /\ Field(8, x.endPts) /\ Field(8, x.flags) /\ Field(1, n)
  BY Fields DEF PropertiesFit
<1>3. x.sources \in Seq(SourceRecords) /\ x.coding \in Codings BY DEF PropertiesFit, IsHeader
<1>4. n \in Nat /\ DOMAIN x.sources = 1..n /\ x.sources = [i \in 1..n |-> x.sources[i]] BY <1>3
<1>5. \A i \in 1..n : x.sources[i] \in SourceRecords /\ Fits(x.sources[i].crc, 4)
  BY <1>3, <1>4 DEF PropertiesFit
<1>6. entries \in Seq(Seq(Byte)) /\ Len(entries) = n /\ \A i \in 1..n : Len(entries[i]) = 9
  <2>1. \A i \in 1..n : /\ entries[i] \in Seq(Byte) /\ Len(entries[i]) = 9
    BY <1>4, <1>5, SourceRead
  <2>2. entries = [i \in 1..n |-> entries[i]] BY <1>4
  <2> HIDE DEF entries, n
  <2> QED BY <1>4, <2>1, <2>2, AsList
<1>7. \A i \in 1..n : entries[i] = SourceEntry(x.sources[i]) BY <1>4
<1> HIDE DEF entries
<1>8. /\ j \in Seq(Byte) /\ Len(j) = 9 * n
      /\ \A f \in Seq(Byte), q \in Nat : At(f, q, j) => \A i \in 1..n : At(f, q + 9 * (i - 1), entries[i])
  <2> HIDE DEF n
  <2> QED BY <1>6, NineEach
<1>9. a \in Seq(Byte) /\ Len(a) = 3 /\ a[1] = PropMagic /\ a[3] = x.coding
      /\ PropMagic \in 0..31 /\ x.coding \in 0..31
  <2>1. x.coding \in 0..31 /\ PropMagic \in 0..31 /\ DetermineType(x.coding) \in 0..31
    BY <1>3 DEF Codings, DetermineType, PropMagic, H262, AVC, LPCM, AC3, PG, IG, ES_VIDEO, ES_AUDIO, ES_HDMV
  <2>2. x.coding \in Byte /\ PropMagic \in Byte /\ DetermineType(x.coding) \in Byte BY <2>1, Small
  <2> QED BY <2>1, <2>2
<1>10. /\ b \in Seq(Byte) /\ c \in Seq(Byte) /\ d \in Seq(Byte) /\ e \in Seq(Byte) /\ g \in Seq(Byte)
       /\ Len(b) = 8 /\ Len(c) = 4 /\ Len(d) = 8 /\ Len(e) = 8 /\ Len(g) = 1
  BY <1>2 DEF Field
<1> HIDE DEF a, b, c, d, e, g, j
<1>11. /\ a \in Seq(Byte) /\ b \in Seq(Byte) /\ c \in Seq(Byte) /\ d \in Seq(Byte) /\ e \in Seq(Byte)
       /\ g \in Seq(Byte) /\ j \in Seq(Byte)
  BY <1>8, <1>9, <1>10
<1>12. s \in Seq(Byte) /\ Len(s) = Len(a) + Len(b) + Len(c) + Len(d) BY <1>11, FourTogether
<1>13. Len(s) = 23 BY <1>9, <1>10, <1>12
<1>20. s \in Seq(Byte) BY <1>12
<1> HIDE DEF s
<1>14. /\ s \o e \o g \o j \in Seq(Byte)
       /\ Len(s \o e \o g \o j) = Len(s) + Len(e) + Len(g) + Len(j)
  BY <1>11, <1>20, FourTogether
<1>15. WriteEsPropertiesSection(x) = s \o e \o g \o j BY <1>1 DEF s
<1>16. Len(WriteEsPropertiesSection(x)) = 32 + 9 * n
  <2> HIDE DEF n
  <2> QED BY <1>4, <1>8, <1>10, <1>13, <1>14, <1>15
<1>17. ASSUME NEW f \in Seq(Byte), NEW p \in Nat, At(f, p, WriteEsPropertiesSection(x))
       PROVE  PropertiesReadAs(f, p, x)
  <2>1. At(f, p, s \o e \o g \o j) BY <1>15, <1>17
  <2>2. /\ At(f, p, s)
        /\ At(f, p + Len(s), e)
        /\ At(f, p + Len(s) + Len(e), g)
        /\ At(f, p + Len(s) + Len(e) + Len(g), j)
    BY <1>11, <1>20, <2>1, FourParts
  <2>3. At(f, p, a \o b \o c \o d) BY <2>2 DEF s
  <2>4. /\ At(f, p, a)
        /\ At(f, p + Len(a), b)
        /\ At(f, p + Len(a) + Len(b), c)
        /\ At(f, p + Len(a) + Len(b) + Len(c), d)
    BY <1>11, <2>3, FourParts
  <2>5. /\ p + Len(a) = p + 3 /\ p + Len(a) + Len(b) = p + 11 /\ p + Len(a) + Len(b) + Len(c) = p + 15
        /\ p + Len(s) = p + 23 /\ p + Len(s) + Len(e) = p + 31 /\ p + Len(s) + Len(e) + Len(g) = p + 32
    BY <1>9, <1>10, <1>13
  <2>6. /\ p + 3 \in Nat /\ p + 11 \in Nat /\ p + 15 \in Nat /\ p + 23 \in Nat /\ p + 31 \in Nat /\ p + 32 \in Nat
        /\ p + 2 \in Nat
    OBVIOUS
  <2>7. /\ At(f, p + 3, b) /\ At(f, p + 11, c) /\ At(f, p + 15, d) /\ At(f, p + 23, e) /\ At(f, p + 31, g)
        /\ At(f, p + 32, j)
    BY <2>2, <2>4, <2>5
  <2>8. Num(f, p + 3, 8) = x.ptsRef BY <1>2, <2>6, <2>7 DEF Field, b
  <2>9. Num(f, p + 11, 4) = x.bitrate BY <1>2, <2>6, <2>7 DEF Field, c
  <2>10. Num(f, p + 15, 8) = x.endPts BY <1>2, <2>6, <2>7 DEF Field, d
  <2>11. ParseFlags(f, p) = x.flags BY <1>2, <2>6, <2>7 DEF Field, e, ParseFlags
  <2>12. Num(f, p + 31, 1) = n BY <1>2, <2>6, <2>7 DEF Field, g
  <2>13. Num(f, p, 1) = PropMagic /\ Num(f, p + 2, 1) = x.coding
    <3>1. /\ p + 3 <= Len(f) /\ f[p + 1] = PropMagic /\ f[p + 3] = x.coding BY <1>9, <2>4 DEF At
    <3>2. At(f, p, <<PropMagic>>)
      <4>1. Len(<<PropMagic>>) = 1 /\ <<PropMagic>>[1] = PropMagic /\ Len(f) \in Nat OBVIOUS
      <4> QED BY <3>1, <4>1 DEF At
    <3>3. At(f, p + 2, <<x.coding>>)
      <4>1. /\ Len(<<x.coding>>) = 1 /\ <<x.coding>>[1] = x.coding /\ Len(f) \in Nat
            /\ (p + 2) + 1 = p + 3
        OBVIOUS
      <4> QED BY <3>1, <4>1 DEF At
    <3> QED BY <1>9, <2>6, <3>2, <3>3, CodeAt
  <2>14. ParseSources(f, p) = x.sources
    <3>1. ASSUME NEW i \in 1..n
          PROVE  [name |-> Num(f, p + 25 + 9 * i, 1), crc |-> Num(f, p + 28 + 9 * i, 4)] = x.sources[i]
      <4> DEFINE q == p + 32 + 9 * (i - 1)
      <4> HIDE DEF n
      <4>1. q \in Nat /\ q + 2 = p + 25 + 9 * i /\ q + 5 = p + 28 + 9 * i BY <1>4
      <4>2. At(f, q, SourceEntry(x.sources[i]))
        <5>1. At(f, q, entries[i]) BY <1>8, <2>6, <2>7
        <5> QED BY <1>7, <5>1
      <4> HIDE DEF q
      <4>3. Num(f, q + 2, 1) = x.sources[i].name /\ Num(f, q + 5, 4) = x.sources[i].crc
        BY <1>5, <4>1, <4>2, SourceRead
      <4>4. x.sources[i] \in SourceRecords BY <1>5
      <4>5. x.sources[i] = [name |-> x.sources[i].name, crc |-> x.sources[i].crc] BY <4>4 DEF SourceRecords
      <4> QED BY <4>1, <4>3, <4>5
    <3>2. ParseSources(f, p)
            = [i \in 1..n |-> [name |-> Num(f, p + 25 + 9 * i, 1), crc |-> Num(f, p + 28 + 9 * i, 4)]]
      BY <2>12 DEF ParseSources
    <3> QED BY <1>4, <3>1, <3>2
  <2>15. ParseCoding(f, p) = x.coding BY <2>13 DEF ParseCoding
  <2> QED BY <2>8, <2>9, <2>10, <2>11, <2>13, <2>14, <2>15 DEF PropertiesReadAs
<1>18. WriteEsPropertiesSection(x) \in Seq(Byte) BY <1>14, <1>15
<1> QED BY <1>16, <1>17, <1>18

\* Fields of one byte, and what they are read as.
ByteField(s, v) ==
  /\ s \in Seq(Byte) /\ Len(s) = 1
  /\ \A f \in Seq(Byte), q \in Nat : At(f, q, s) => Num(f, q, 1) = v
LEMMA ByteFields == \A v : /\ v \in 0..31 => ByteField(<<v>>, v)
                           /\ v \in 0..1 => ByteField(Bits(1, v), v)
                           /\ v \in 0..3 => ByteField(Bits(2, v), v)
                           /\ v \in 0..7 => ByteField(Bits(3, v), v)
                           /\ v \in 0..15 => ByteField(Bits(4, v), v)
                           /\ v \in 0..31 => ByteField(Bits(5, v), v)
                           /\ v \in Byte => ByteField(U(1, v), v)
<1>1. \A v \in 0..31 : ByteField(<<v>>, v) BY OneByte, CodeAt DEF ByteField
<1>2. BitsRange[1] = 2 /\ BitsRange[2] = 4 /\ BitsRange[3] = 8 /\ BitsRange[4] = 16 /\ BitsRange[5] = 32
  <2>1. /\ BitsRange[0] = 1 /\ BitsRange[1] = 2 * BitsRange[0] /\ BitsRange[2] = 2 * BitsRange[1]
        /\ BitsRange[3] = 2 * BitsRange[2] /\ BitsRange[4] = 2 * BitsRange[3] /\ BitsRange[5] = 2 * BitsRange[4]
    BY PowerSteps DEF BitsRange
  <2> QED BY <2>1
<1>3. \A v : /\ v \in 0..1 => v % BitsRange[1] = v /\ v \in 0..31
             /\ v \in 0..3 => v % BitsRange[2] = v /\ v \in 0..31
             /\ v \in 0..7 => v % BitsRange[3] = v /\ v \in 0..31
             /\ v \in 0..15 => v % BitsRange[4] = v /\ v \in 0..31
             /\ v \in 0..31 => v % BitsRange[5] = v
  BY <1>2
<1>4. ASSUME NEW v \in Byte PROVE ByteField(U(1, v), v)
  <2>1. Weight[1] = ByteRange /\ ByteRange \in Nat BY NextWeight, FormatAssumption
  <2>2. Fits(v, 1) BY <2>1 DEF Fits, Byte
  <2>3. Field(1, v) BY <2>2, Fields
  <2> QED BY <2>3 DEF Field, ByteField
<1> QED BY <1>1, <1>3, <1>4 DEF Bits

\* One more such field, after n bytes.
Follows(s, n, b, v) ==
  /\ s \o b \in Seq(Byte) /\ Len(s \o b) = n + 1
  /\ \A f \in Seq(Byte), q \in Nat : At(f, q, s \o b) => At(f, q, s) /\ Num(f, q + n, 1) = v
LEMMA Following ==
  ASSUME NEW s \in Seq(Byte), NEW b, NEW v, ByteField(b, v)
  PROVE  Follows(s, Len(s), b, v)
<1>1. b \in Seq(Byte) /\ Len(b) = 1 /\ Len(s) \in Nat BY DEF ByteField
<1>2. b \in Seq(Byte) BY <1>1
<1>3. s \o b \in Seq(Byte) /\ Len(s \o b) = Len(s) + Len(b) BY <1>2, TwoTogether
<1>4. ASSUME NEW f \in Seq(Byte), NEW q \in Nat, At(f, q, s \o b)
      PROVE  At(f, q, s) /\ Num(f, q + Len(s), 1) = v
  <2>1. At(f, q, s) /\ At(f, q + Len(s), b) BY <1>2, <1>4, AtParts
  <2>2. q + Len(s) \in Nat BY <1>1
  <2> QED BY <2>1, <2>2 DEF ByteField
<1> QED BY <1>1, <1>3, <1>4 DEF Follows

\* The first five fields of each format.
FiveBytes(s, va, vb, vc, vd, ve) ==
  /\ s \in Seq(Byte) /\ Len(s) = 5
  /\ \A f \in Seq(Byte), q \in Nat : At(f, q, s) =>
       /\ Num(f, q, 1) = va /\ Num(f, q + 1, 1) = vb /\ Num(f, q + 2, 1) = vc
       /\ Num(f, q + 3, 1) = vd /\ Num(f, q + 4, 1) = ve
LEMMA FiveInARow ==
  ASSUME NEW a, NEW b, NEW c, NEW d, NEW e, NEW va, NEW vb, NEW vc, NEW vd, NEW ve,
         ByteField(a, va), ByteField(b, vb), ByteField(c, vc), ByteField(d, vd), ByteField(e, ve)
  PROVE  FiveBytes(a \o b \o c \o d \o e, va, vb, vc, vd, ve)
<1>1. a \in Seq(Byte) /\ Len(a) = 1 BY DEF ByteField
<1> DEFINE s2 == a \o b
           s3 == s2 \o c
           s4 == s3 \o d
           s5 == s4 \o e
<1>2. Follows(a, 1, b, vb) BY <1>1, Following
<1>3. s2 \in Seq(Byte) /\ Len(s2) = 2 BY <1>2 DEF Follows
<1>4. \A f \in Seq(Byte), q \in Nat : At(f, q, s2) => At(f, q, a) /\ Num(f, q + 1, 1) = vb BY <1>2 DEF Follows
<1> HIDE DEF s2
<1>5. Follows(s2, 2, c, vc) BY <1>3, Following
<1>6. s3 \in Seq(Byte) /\ Len(s3) = 3 BY <1>5 DEF Follows
<1>7. \A f \in Seq(Byte), q \in Nat : At(f, q, s3) => At(f, q, s2) /\ Num(f, q + 2, 1) = vc BY <1>5 DEF Follows
<1> HIDE DEF s3
<1>8. Follows(s3, 3, d, vd) BY <1>6, Following
<1>9. s4 \in Seq(Byte) /\ Len(s4) = 4 BY <1>8 DEF Follows
<1>10. \A f \in Seq(Byte), q \in Nat : At(f, q, s4) => At(f, q, s3) /\ Num(f, q + 3, 1) = vd BY <1>8 DEF Follows
<1> HIDE DEF s4
<1>11. Follows(s4, 4, e, ve) BY <1>9, Following
<1>12. s5 \in Seq(Byte) /\ Len(s5) = 5 BY <1>11 DEF Follows
<1>13. \A f \in Seq(Byte), q \in Nat : At(f, q, s5) => At(f, q, s4) /\ Num(f, q + 4, 1) = ve BY <1>11 DEF Follows
<1> HIDE DEF s5
<1>14. \A f \in Seq(Byte), q \in Nat : At(f, q, a) => Num(f, q, 1) = va BY DEF ByteField
<1>15. FiveBytes(s5, va, vb, vc, vd, ve) BY <1>4, <1>7, <1>10, <1>12, <1>13, <1>14 DEF FiveBytes
<1> QED BY <1>15 DEF s5, s4, s3, s2

\* The formats.
VideoBytes(fmt) == <<FmtMagic>> \o Bits(4, fmt.videoFormat) \o Bits(4, fmt.frameRate) \o U(1, fmt.profileIDC)
                     \o U(1, fmt.levelIDC)
StillByte(fmt) == Bits(1, Flag(fmt.stillPicture))
AudioBytes(fmt) == <<FmtMagic>> \o Bits(4, fmt.audioFormat) \o Bits(4, fmt.sampleRate) \o U(1, fmt.bitDepth) \o <<0>>
LEMMA FormatParts ==
  ASSUME NEW x
  PROVE  /\ x.coding = AVC => WriteEsCodecSpecParametersSection(x)
              = VideoBytes(x.fmt) \o StillByte(x.fmt)
                  \o (U(1, x.fmt.constraintFlags) \o U(4, x.fmt.cpbSize) \o U(4, x.fmt.cpbBitrate))
         /\ x.coding = H262 => WriteEsCodecSpecParametersSection(x) = VideoBytes(x.fmt) \o StillByte(x.fmt) \o <<>>
         /\ x.coding = AC3 => WriteEsCodecSpecParametersSection(x)
              = AudioBytes(x.fmt) \o WriteAc3FmtSpecificInfos(x.fmt)
         /\ x.coding = LPCM => WriteEsCodecSpecParametersSection(x) = AudioBytes(x.fmt) \o <<>>
<1>1. /\ H262 # AVC /\ LPCM # AC3 /\ ES_VIDEO # ES_AUDIO
      /\ DetermineType(H262) = ES_VIDEO /\ DetermineType(AVC) = ES_VIDEO
      /\ DetermineType(LPCM) = ES_AUDIO /\ DetermineType(AC3) = ES_AUDIO
  BY DEF DetermineType, H262, AVC, LPCM, AC3, ES_VIDEO, ES_AUDIO, ES_HDMV
<1>2. CASE x.coding = AVC
  BY <1>1, <1>2, Zenon DEF WriteEsCodecSpecParametersSection, VideoBytes, StillByte
<1>3. CASE x.coding = H262
  BY <1>1, <1>3, Zenon DEF WriteEsCodecSpecParametersSection, VideoBytes, StillByte
<1>4. CASE x.coding = AC3
  BY <1>1, <1>4, Zenon DEF WriteEsCodecSpecParametersSection, AudioBytes
<1>5. CASE x.coding = LPCM
  BY <1>1, <1>5, Zenon DEF WriteEsCodecSpecParametersSection, AudioBytes
<1> QED BY <1>2, <1>3, <1>4, <1>5

\* The part that all video formats have, and the one of audio formats.
VideoRead(f, p, fmt) ==
  /\ Num(f, p, 1) = FmtMagic /\ Num(f, p + 1, 1) = fmt.videoFormat /\ Num(f, p + 2, 1) = fmt.frameRate
  /\ Num(f, p + 3, 1) = fmt.profileIDC /\ Num(f, p + 4, 1) = fmt.levelIDC
  /\ (Num(f, p + 5, 1) = 1) = fmt.stillPicture
LEMMA VideoBytesRead ==
  ASSUME NEW fmt, fmt.videoFormat \in 0..15, fmt.frameRate \in 0..15, fmt.profileIDC \in Byte,
         fmt.levelIDC \in Byte, fmt.stillPicture \in BOOLEAN
  PROVE  /\ VideoBytes(fmt) \o StillByte(fmt) \in Seq(Byte) /\ Len(VideoBytes(fmt) \o StillByte(fmt)) = 6
         /\ \A f \in Seq(Byte), p \in Nat : At(f, p, VideoBytes(fmt) \o StillByte(fmt)) => VideoRead(f, p, fmt)
<1> DEFINE s == VideoBytes(fmt)
           b == StillByte(fmt)
           v == Flag(fmt.stillPicture)
<1>1. FmtMagic \in 0..31 BY DEF FmtMagic
<1>2. /\ ByteField(<<FmtMagic>>, FmtMagic) /\ ByteField(Bits(4, fmt.videoFormat), fmt.videoFormat)
      /\ ByteField(Bits(4, fmt.frameRate), fmt.frameRate) /\ ByteField(U(1, fmt.profileIDC), fmt.profileIDC)
      /\ ByteField(U(1, fmt.levelIDC), fmt.levelIDC)
  BY <1>1, ByteFields
<1>3. FiveBytes(s, FmtMagic, fmt.videoFormat, fmt.frameRate, fmt.profileIDC, fmt.levelIDC)
  BY <1>2, FiveInARow DEF VideoBytes
<1>4. s \in Seq(Byte) /\ Len(s) = 5 BY <1>3 DEF FiveBytes
<1>5. v \in 0..1 BY Flags
<1>6. ByteField(b, v) BY <1>5, ByteFields DEF StillByte
<1> HIDE DEF s, b
<1>7. Follows(s, 5, b, v) BY <1>4, <1>6, Following
<1>8. (v = 1) = fmt.stillPicture
  <2>1. v = 1 <=> fmt.stillPicture BY DEF Flag
  <2> HIDE DEF v
  <2> QED BY <2>1, Zenon
<1> HIDE DEF v
<1>9. ASSUME NEW f \in Seq(Byte), NEW p \in Nat, At(f, p, s \o b) PROVE VideoRead(f, p, fmt)
  <2>1. At(f, p, s) /\ Num(f, p + 5, 1) = v BY <1>7, <1>9 DEF Follows
  <2>2. (Num(f, p + 5, 1) = 1) = fmt.stillPicture BY <1>8, <2>1
  <2>3. /\ Num(f, p, 1) = FmtMagic /\ Num(f, p + 1, 1) = fmt.videoFormat /\ Num(f, p + 2, 1) = fmt.frameRate
        /\ Num(f, p + 3, 1) = fmt.profileIDC /\ Num(f, p + 4, 1) = fmt.levelIDC
    BY <1>3, <2>1 DEF FiveBytes
  <2> QED BY <2>2, <2>3, Zenon DEF VideoRead
<1>10. s \o b \in Seq(Byte) /\ Len(s \o b) = 6 BY <1>7 DEF Follows
<1> QED BY <1>9, <1>10 DEF s, b

LEMMA AudioBytesRead ==
  ASSUME NEW fmt, fmt.audioFormat \in 0..15, fmt.sampleRate \in 0..15, fmt.bitDepth \in Byte
  PROVE  FiveBytes(AudioBytes(fmt), FmtMagic, fmt.audioFormat, fmt.sampleRate, fmt.bitDepth, 0)
<1>1. FmtMagic \in 0..31 /\ 0 \in 0..31 BY DEF FmtMagic
<1>2. /\ ByteField(<<FmtMagic>>, FmtMagic) /\ ByteField(Bits(4, fmt.audioFormat), fmt.audioFormat)
      /\ ByteField(Bits(4, fmt.sampleRate), fmt.sampleRate) /\ ByteField(U(1, fmt.bitDepth), fmt.bitDepth)
      /\ ByteField(<<0>>, 0)
  BY <1>1, ByteFields
<1> QED BY <1>2, FiveInARow DEF AudioBytes

\* What is read of a video format.
ReadOfAvc(f, q) ==
  [videoFormat |-> Num(f, q, 1), frameRate |-> Num(f, q + 1, 1), profileIDC |-> Num(f, q + 2, 1),
   levelIDC |-> Num(f, q + 3, 1), stillPicture |-> Num(f, q + 4, 1) = 1,
   constraintFlags |-> Num(f, q + 5, 1), cpbSize |-> Num(f, q + 6, 4), cpbBitrate |-> Num(f, q + 10, 4)]
ReadOfH262(f, q) ==
  [videoFormat |-> Num(f, q, 1), frameRate |-> Num(f, q + 1, 1), profileIDC |-> Num(f, q + 2, 1),
   levelIDC |-> Num(f, q + 3, 1), stillPicture |-> Num(f, q + 4, 1) = 1]
LEMMA VideoFormats ==
  ASSUME NEW f
  PROVE  LET q == GetDirectoryOffset(f, DirFmtProp) + 1
         IN  /\ ParseEsFmtProperties(f, AVC) = ReadOfAvc(f, q)
             /\ ParseEsFmtProperties(f, H262) = ReadOfH262(f, q)
<1> DEFINE q == GetDirectoryOffset(f, DirFmtProp) + 1
           ac3 == [audioFormat |-> Num(f, q, 1), sampleRate |-> Num(f, q + 1, 1), bitDepth |-> Num(f, q + 2, 1),
             subSampleRate |-> Num(f, q + 4, 1), bsid |-> Num(f, q + 5, 1), bitrateMode |-> Num(f, q + 6, 1),
             bitrateCode |-> Num(f, q + 7, 1), surroundCode |-> Num(f, q + 8, 1), bsmod |-> Num(f, q + 9, 1),
             numChannels |-> Num(f, q + 10, 1), fullSVC |-> Num(f, q + 11, 1)]
           lpcm == [audioFormat |-> Num(f, q, 1), sampleRate |-> Num(f, q + 1, 1), bitDepth |-> Num(f, q + 2, 1)]
           avc == ReadOfAvc(f, q)
           h262 == ReadOfH262(f, q)
<1>1. \A coding : ParseEsFmtProperties(f, coding)
                    = CASE coding = AVC -> avc
                        [] coding = H262 -> h262
                        [] coding = AC3 -> ac3
                        [] coding = LPCM -> lpcm
                        [] OTHER -> [none |-> TRUE]
  BY DEF ParseEsFmtProperties, ReadOfAvc, ReadOfH262
<1>2. AVC \notin {H262, AC3, LPCM} /\ H262 \notin {AVC, AC3, LPCM} BY DEF AVC, H262, AC3, LPCM
<1> HIDE DEF avc, h262, ac3, lpcm
<1>3. ParseEsFmtProperties(f, AVC) = avc BY <1>1, <1>2
<1>4. ParseEsFmtProperties(f, H262) = h262 BY <1>1, <1>2
<1> QED BY <1>3, <1>4 DEF avc, h262

\* The properties of the format are read as they were written, but for the bitstream mode of AC-3.
LEMMA AvcRead ==
  ASSUME NEW x, x.coding = AVC, FormatFits(x.fmt, x.coding), NEW f \in Seq(Byte), NEW p \in Nat,
         At(f, p, WriteEsCodecSpecParametersSection(x)), GetDirectoryOffset(f, DirFmtProp) = p
  PROVE  Num(f, p, 1) = FmtMagic /\ ParseEsFmtProperties(f, AVC) = x.fmt
<1> DEFINE fmt == x.fmt
           s == VideoBytes(fmt) \o StillByte(fmt)
           a == U(1, fmt.constraintFlags)
           b == U(4, fmt.cpbSize)
           c == U(4, fmt.cpbBitrate)
<1>1. AVC # H262 BY DEF AVC, H262
<1>2. /\ fmt \in [videoFormat : 0..15, frameRate : 0..15, profileIDC : Byte, levelIDC : Byte,
                  stillPicture : BOOLEAN, constraintFlags : Byte, cpbSize : Nat, cpbBitrate : Nat]
      /\ Fits(fmt.cpbSize, 4) /\ Fits(fmt.cpbBitrate, 4)
  BY DEF FormatFits
<1>3. /\ fmt.videoFormat \in 0..15 /\ fmt.frameRate \in 0..15 /\ fmt.profileIDC \in Byte /\ fmt.levelIDC \in Byte
      /\ fmt.stillPicture \in BOOLEAN /\ fmt.constraintFlags \in Byte
  BY <1>2
<1>4. fmt = [videoFormat |-> fmt.videoFormat, frameRate |-> fmt.frameRate, profileIDC |-> fmt.profileIDC,
             levelIDC |-> fmt.levelIDC, stillPicture |-> fmt.stillPicture,
             constraintFlags |-> fmt.constraintFlags, cpbSize |-> fmt.cpbSize, cpbBitrate |-> fmt.cpbBitrate]
  BY <1>2
<1>5. Field(4, fmt.cpbSize) /\ Field(4, fmt.cpbBitrate) BY <1>2, Fields
<1>6. ByteField(a, fmt.constraintFlags) BY <1>3, ByteFields
<1>7. At(f, p, s \o (a \o b \o c)) BY FormatParts
<1> HIDE DEF fmt
<1>8. /\ s \in Seq(Byte) /\ Len(s) = 6 /\ (At(f, p, s) => VideoRead(f, p, fmt)) BY <1>3, VideoBytesRead
<1>9. a \in Seq(Byte) /\ Len(a) = 1 BY <1>6 DEF ByteField
<1>10. b \in Seq(Byte) /\ Len(b) = 4 /\ c \in Seq(Byte) BY <1>5 DEF Field
<1> HIDE DEF s, a, b, c
<1>11. a \in Seq(Byte) /\ b \in Seq(Byte) /\ c \in Seq(Byte) /\ s \in Seq(Byte) BY <1>8, <1>9, <1>10
<1>12. a \o b \o c \in Seq(Byte) BY <1>11, ThreeTogether
<1>13. At(f, p, s) /\ At(f, p + Len(s), a \o b \o c) BY <1>7, <1>11, <1>12, AtParts
<1>14. p + Len(s) = p + 6 /\ p + 6 \in Nat BY <1>8
<1>15. At(f, p + 6, a \o b \o c) BY <1>13, <1>14
<1>16. At(f, p + 6, a) /\ At(f, p + 6 + Len(a), b) /\ At(f, p + 6 + Len(a) + Len(b), c)
  BY <1>11, <1>14, <1>15, ThreeParts
<1>17. p + 6 + Len(a) = p + 7 /\ p + 6 + Len(a) + Len(b) = p + 11 /\ p + 7 \in Nat /\ p + 11 \in Nat
  BY <1>9, <1>10
<1>18. Num(f, p + 6, 1) = fmt.constraintFlags BY <1>6, <1>14, <1>16 DEF ByteField
<1>19. Num(f, p + 7, 4) = fmt.cpbSize BY <1>5, <1>16, <1>17 DEF Field, b
<1>20. Num(f, p + 11, 4) = fmt.cpbBitrate BY <1>5, <1>16, <1>17 DEF Field, c
<1>21. VideoRead(f, p, fmt) BY <1>8, <1>13
<1> DEFINE q == GetDirectoryOffset(f, DirFmtProp) + 1
<1>22. /\ q = p + 1 /\ q + 1 = p + 2 /\ q + 2 = p + 3 /\ q + 3 = p + 4 /\ q + 4 = p + 5 /\ q + 5 = p + 6
       /\ q + 6 = p + 7 /\ q + 10 = p + 11
  OBVIOUS
<1>23. ParseEsFmtProperties(f, AVC)
         = [videoFormat |-> Num(f, q, 1), frameRate |-> Num(f, q + 1, 1), profileIDC |-> Num(f, q + 2, 1),
            levelIDC |-> Num(f, q + 3, 1), stillPicture |-> Num(f, q + 4, 1) = 1,
            constraintFlags |-> Num(f, q + 5, 1), cpbSize |-> Num(f, q + 6, 4), cpbBitrate |-> Num(f, q + 10, 4)]
  BY VideoFormats, Zenon DEF ReadOfAvc
<1> HIDE DEF q
<1>24. /\ Num(f, q, 1) = fmt.videoFormat /\ Num(f, q + 1, 1) = fmt.frameRate
       /\ Num(f, q + 2, 1) = fmt.profileIDC /\ Num(f, q + 3, 1) = fmt.levelIDC
       /\ Num(f, q + 5, 1) = fmt.constraintFlags /\ Num(f, q + 6, 4) = fmt.cpbSize
       /\ Num(f, q + 10, 4) = fmt.cpbBitrate
  BY <1>18, <1>19, <1>20, <1>21, <1>22 DEF VideoRead
<1>25. (Num(f, q + 4, 1) = 1) = fmt.stillPicture BY <1>21, <1>22, Zenon DEF VideoRead
<1>26. ParseEsFmtProperties(f, AVC) = fmt BY <1>4, <1>23, <1>24, <1>25, Zenon
<1>27. Num(f, p, 1) = FmtMagic BY <1>21, Zenon DEF VideoRead
<1> QED BY <1>26, <1>27 DEF fmt

LEMMA H262Read ==
  ASSUME NEW x, x.coding = H262, FormatFits(x.fmt, x.coding), NEW f \in Seq(Byte), NEW p \in Nat,
         At(f, p, WriteEsCodecSpecParametersSection(x)), GetDirectoryOffset(f, DirFmtProp) = p
  PROVE  Num(f, p, 1) = FmtMagic /\ ParseEsFmtProperties(f, H262) = x.fmt
<1> DEFINE fmt == x.fmt
           s == VideoBytes(fmt) \o StillByte(fmt)
<1>1. H262 # AVC BY DEF AVC, H262
<1>2. fmt \in [videoFormat : 0..15, frameRate : 0..15, profileIDC : Byte, levelIDC : Byte, stillPicture : BOOLEAN]
  BY DEF FormatFits
<1>3. /\ fmt.videoFormat \in 0..15 /\ fmt.frameRate \in 0..15 /\ fmt.profileIDC \in Byte /\ fmt.levelIDC \in Byte
      /\ fmt.stillPicture \in BOOLEAN
  BY <1>2
<1>4. fmt = [videoFormat |-> fmt.videoFormat, frameRate |-> fmt.frameRate, profileIDC |-> fmt.profileIDC,
             levelIDC |-> fmt.levelIDC, stillPicture |-> fmt.stillPicture]
  BY <1>2
<1>7. At(f, p, s \o <<>>) BY FormatParts
<1> HIDE DEF fmt
<1>8. /\ s \in Seq(Byte) /\ Len(s) = 6 /\ (At(f, p, s) => VideoRead(f, p, fmt)) BY <1>3, VideoBytesRead
<1> HIDE DEF s
<1>13. At(f, p, s) /\ <<>> \in Seq(Byte) BY <1>7, <1>8, AtParts
<1>21. VideoRead(f, p, fmt) BY <1>8, <1>13
<1> DEFINE q == GetDirectoryOffset(f, DirFmtProp) + 1
<1>22. q = p + 1 /\ q + 1 = p + 2 /\ q + 2 = p + 3 /\ q + 3 = p + 4 /\ q + 4 = p + 5 OBVIOUS
<1>23. ParseEsFmtProperties(f, H262)
         = [videoFormat |-> Num(f, q, 1), frameRate |-> Num(f, q + 1, 1), profileIDC |-> Num(f, q + 2, 1),
            levelIDC |-> Num(f, q + 3, 1), stillPicture |-> Num(f, q + 4, 1) = 1]
  BY VideoFormats, Zenon DEF ReadOfH262
<1> HIDE DEF q
<1>24. /\ Num(f, q, 1) = fmt.videoFormat /\ Num(f, q + 1, 1) = fmt.frameRate
       /\ Num(f, q + 2, 1) = fmt.profileIDC /\ Num(f, q + 3, 1) = fmt.levelIDC
  BY <1>21, <1>22 DEF VideoRead
<1>25. (Num(f, q + 4, 1) = 1) = fmt.stillPicture BY <1>21, <1>22, Zenon DEF VideoRead
<1>26. ParseEsFmtProperties(f, H262) = fmt BY <1>4, <1>23, <1>24, <1>25, Zenon
<1>27. Num(f, p, 1) = FmtMagic BY <1>21, Zenon DEF VideoRead
<1> QED BY <1>26, <1>27 DEF fmt

LEMMA LpcmRead ==
  ASSUME NEW x, x.coding = LPCM, FormatFits(x.fmt, x.coding), NEW f \in Seq(Byte), NEW p \in Nat,
         At(f, p, WriteEsCodecSpecParametersSection(x)), GetDirectoryOffset(f, DirFmtProp) = p
  PROVE  Num(f, p, 1) = FmtMagic /\ ParseEsFmtProperties(f, LPCM) = x.fmt
<1> DEFINE fmt == x.fmt
           s == AudioBytes(fmt)
<1>1. LPCM \notin {H262, AVC, AC3} BY DEF LPCM, H262, AVC, AC3
<1>2. fmt \in [audioFormat : 0..15, sampleRate : 0..15, bitDepth : Byte] BY <1>1 DEF FormatFits
<1>3. fmt.audioFormat \in 0..15 /\ fmt.sampleRate \in 0..15 /\ fmt.bitDepth \in Byte BY <1>2
<1>4. fmt = [audioFormat |-> fmt.audioFormat, sampleRate |-> fmt.sampleRate, bitDepth |-> fmt.bitDepth] BY <1>2
<1>7. At(f, p, s \o <<>>) BY FormatParts
<1> HIDE DEF fmt
<1>8. FiveBytes(s, FmtMagic, fmt.audioFormat, fmt.sampleRate, fmt.bitDepth, 0) BY <1>3, AudioBytesRead
<1> HIDE DEF s
<1>9. s \in Seq(Byte) BY <1>8 DEF FiveBytes
<1>13. At(f, p, s) /\ <<>> \in Seq(Byte) BY <1>7, <1>9, AtParts
<1> DEFINE q == p + 1
<1>22. q = p + 1 /\ q + 1 = p + 2 /\ q + 2 = p + 3 OBVIOUS
<1>23. ParseEsFmtProperties(f, LPCM)
         = [audioFormat |-> Num(f, q, 1), sampleRate |-> Num(f, q + 1, 1), bitDepth |-> Num(f, q + 2, 1)]
  BY <1>1 DEF ParseEsFmtProperties
<1> HIDE DEF q
<1>24. /\ Num(f, q, 1) = fmt.audioFormat /\ Num(f, q + 1, 1) = fmt.sampleRate
       /\ Num(f, q + 2, 1) = fmt.bitDepth /\ Num(f, p, 1) = FmtMagic
  BY <1>8, <1>13, <1>22 DEF FiveBytes
<1>26. ParseEsFmtProperties(f, LPCM) = fmt BY <1>4, <1>23, <1>24, Zenon
<1> QED BY <1>24, <1>26 DEF fmt

LEMMA Ac3Read ==
  ASSUME NEW x, x.coding = AC3, FormatFits(x.fmt, x.coding), NEW f \in Seq(Byte), NEW p \in Nat,
         At(f, p, WriteEsCodecSpecParametersSection(x)), GetDirectoryOffset(f, DirFmtProp) = p
  PROVE  /\ Num(f, p, 1) = FmtMagic
         /\ [ParseEsFmtProperties(f, AC3) EXCEPT !.bsmod = 0] = [x.fmt EXCEPT !.bsmod = 0]
<1> DEFINE fmt == x.fmt
           s == AudioBytes(fmt)
           s5 == Bits(3, fmt.subSampleRate) \o Bits(5, fmt.bsid) \o Bits(1, fmt.bitrateMode)
                   \o Bits(5, fmt.bitrateCode) \o Bits(2, fmt.surroundCode)
           b6 == Bits(3, fmt.bitrateMode)
           b7 == Bits(4, fmt.numChannels)
           b8 == Bits(1, fmt.fullSVC)
           s6 == s5 \o b6
           s7 == s6 \o b7
           s8 == s7 \o b8
<1>1. AC3 \notin {H262, AVC, LPCM} BY DEF LPCM, H262, AVC, AC3
<1>2. fmt \in [audioFormat : 0..15, sampleRate : 0..15, bitDepth : Byte, subSampleRate : 0..7, bsid : 0..31,
               bitrateMode : 0..1, bitrateCode : 0..31, surroundCode : 0..3, bsmod : 0..7, numChannels : 0..15,
               fullSVC : 0..1]
  BY <1>1 DEF FormatFits
<1>3. /\ fmt.audioFormat \in 0..15 /\ fmt.sampleRate \in 0..15 /\ fmt.bitDepth \in Byte
      /\ fmt.subSampleRate \in 0..7 /\ fmt.bsid \in 0..31 /\ fmt.bitrateMode \in 0..1 /\ fmt.bitrateMode \in 0..7
      /\ fmt.bitrateCode \in 0..31 /\ fmt.surroundCode \in 0..3 /\ fmt.numChannels \in 0..15
      /\ fmt.fullSVC \in 0..1
  BY <1>2
<1>4. [fmt EXCEPT !.bsmod = 0]
        = [audioFormat |-> fmt.audioFormat, sampleRate |-> fmt.sampleRate, bitDepth |-> fmt.bitDepth,
           subSampleRate |-> fmt.subSampleRate, bsid |-> fmt.bsid, bitrateMode |-> fmt.bitrateMode,
           bitrateCode |-> fmt.bitrateCode, surroundCode |-> fmt.surroundCode, bsmod |-> 0,
           numChannels |-> fmt.numChannels, fullSVC |-> fmt.fullSVC]
  BY <1>2
<1>5. At(f, p, s \o s8) BY FormatParts DEF WriteAc3FmtSpecificInfos
<1> HIDE DEF fmt
<1>6. FiveBytes(s, FmtMagic, fmt.audioFormat, fmt.sampleRate, fmt.bitDepth, 0) BY <1>3, AudioBytesRead
<1>7. s \in Seq(Byte) /\ Len(s) = 5 BY <1>6 DEF FiveBytes
<1>8. /\ ByteField(Bits(3, fmt.subSampleRate), fmt.subSampleRate) /\ ByteField(Bits(5, fmt.bsid), fmt.bsid)
      /\ ByteField(Bits(1, fmt.bitrateMode), fmt.bitrateMode) /\ ByteField(Bits(5, fmt.bitrateCode), fmt.bitrateCode)
      /\ ByteField(Bits(2, fmt.surroundCode), fmt.surroundCode)
      /\ ByteField(b6, fmt.bitrateMode) /\ ByteField(b7, fmt.numChannels) /\ ByteField(b8, fmt.fullSVC)
  BY <1>3, ByteFields
<1>9. FiveBytes(s5, fmt.subSampleRate, fmt.bsid, fmt.bitrateMode, fmt.bitrateCode, fmt.surroundCode)
  BY <1>8, FiveInARow
<1>10. s5 \in Seq(Byte) /\ Len(s5) = 5 BY <1>9 DEF FiveBytes
<1> HIDE DEF s, s5, b6, b7, b8
<1>11. Follows(s5, 5, b6, fmt.bitrateMode) BY <1>8, <1>10, Following
<1>12. s6 \in Seq(Byte) /\ Len(s6) = 6 BY <1>11 DEF Follows
<1>13. \A q \in Nat : At(f, q, s6) => At(f, q, s5) /\ Num(f, q + 5, 1) = fmt.bitrateMode BY <1>11 DEF Follows
<1> HIDE DEF s6
<1>14. Follows(s6, 6, b7, fmt.numChannels) BY <1>8, <1>12, Following
<1>15. s7 \in Seq(Byte) /\ Len(s7) = 7 BY <1>14 DEF Follows
<1>16. \A q \in Nat : At(f, q, s7) => At(f, q, s6) /\ Num(f, q + 6, 1) = fmt.numChannels BY <1>14 DEF Follows
<1> HIDE DEF s7
<1>17. Follows(s7, 7, b8, fmt.fullSVC) BY <1>8, <1>15, Following
<1>18. s8 \in Seq(Byte) BY <1>17 DEF Follows
<1>19. \A q \in Nat : At(f, q, s8) => At(f, q, s7) /\ Num(f, q + 7, 1) = fmt.fullSVC BY <1>17 DEF Follows
<1> HIDE DEF s8
<1>20. At(f, p, s) /\ At(f, p + Len(s), s8)
  <2>1. s \in Seq(Byte) BY <1>7
  <2> QED BY <1>5, <1>18, <2>1, AtParts
<1> DEFINE t == p + 5
<1>21. t \in Nat /\ At(f, t, s8) BY <1>7, <1>20
<1> HIDE DEF t
<1>22. At(f, t, s7) /\ Num(f, t + 7, 1) = fmt.fullSVC BY <1>19, <1>21
<1>23. At(f, t, s6) /\ Num(f, t + 6, 1) = fmt.numChannels BY <1>16, <1>21, <1>22
<1>24. At(f, t, s5) /\ Num(f, t + 5, 1) = fmt.bitrateMode BY <1>13, <1>21, <1>23
<1>25. /\ Num(f, t, 1) = fmt.subSampleRate /\ Num(f, t + 1, 1) = fmt.bsid /\ Num(f, t + 2, 1) = fmt.bitrateMode
       /\ Num(f, t + 3, 1) = fmt.bitrateCode /\ Num(f, t + 4, 1) = fmt.surroundCode
  BY <1>9, <1>21, <1>24 DEF FiveBytes
<1>26. /\ Num(f, p, 1) = FmtMagic /\ Num(f, p + 1, 1) = fmt.audioFormat /\ Num(f, p + 2, 1) = fmt.sampleRate
       /\ Num(f, p + 3, 1) = fmt.bitDepth
  BY <1>6, <1>20 DEF FiveBytes
<1> DEFINE q == p + 1
<1>27. /\ q = p + 1 /\ q + 1 = p + 2 /\ q + 2 = p + 3 /\ q + 4 = t /\ q + 5 = t + 1 /\ q + 6 = t + 2
       /\ q + 7 = t + 3 /\ q + 8 = t + 4 /\ q + 10 = t + 6 /\ q + 11 = t + 7
  BY DEF t
<1>28. ParseEsFmtProperties(f, AC3)
         = [audioFormat |-> Num(f, q, 1), sampleRate |-> Num(f, q + 1, 1), bitDepth |-> Num(f, q + 2, 1),
            subSampleRate |-> Num(f, q + 4, 1), bsid |-> Num(f, q + 5, 1), bitrateMode |-> Num(f, q + 6, 1),
            bitrateCode |-> Num(f, q + 7, 1), surroundCode |-> Num(f, q + 8, 1), bsmod |-> Num(f, q + 9, 1),
            numChannels |-> Num(f, q + 10, 1), fullSVC |-> Num(f, q + 11, 1)]
  BY <1>1 DEF ParseEsFmtProperties
<1> HIDE DEF q
<1>29. [ParseEsFmtProperties(f, AC3) EXCEPT !.bsmod = 0]
         = [audioFormat |-> Num(f, q, 1), sampleRate |-> Num(f, q + 1, 1), bitDepth |-> Num(f, q + 2, 1),
            subSampleRate |-> Num(f, q + 4, 1), bsid |-> Num(f, q + 5, 1), bitrateMode |-> Num(f, q + 6, 1),
            bitrateCode |-> Num(f, q + 7, 1), surroundCode |-> Num(f, q + 8, 1), bsmod |-> 0,
            numChannels |-> Num(f, q + 10, 1), fullSVC |-> Num(f, q + 11, 1)]
  BY <1>28
<1>30. /\ Num(f, q, 1) = fmt.audioFormat /\ Num(f, q + 1, 1) = fmt.sampleRate /\ Num(f, q + 2, 1) = fmt.bitDepth
       /\ Num(f, q + 4, 1) = fmt.subSampleRate /\ Num(f, q + 5, 1) = fmt.bsid
       /\ Num(f, q + 6, 1) = fmt.bitrateMode /\ Num(f, q + 7, 1) = fmt.bitrateCode
       /\ Num(f, q + 8, 1) = fmt.surroundCode /\ Num(f, q + 10, 1) = fmt.numChannels
       /\ Num(f, q + 11, 1) = fmt.fullSVC
  BY <1>22, <1>23, <1>25, <1>26, <1>27
<1>31. [ParseEsFmtProperties(f, AC3) EXCEPT !.bsmod = 0] = [fmt EXCEPT !.bsmod = 0]
  BY <1>4, <1>29, <1>30, Zenon
<1> QED BY <1>26, <1>31 DEF fmt

LEMMA FormatRead ==
  ASSUME NEW x, x.coding \in Codings, FormatFits(x.fmt, x.coding), NEW f \in Seq(Byte), NEW p \in Nat,
         At(f, p, WriteEsCodecSpecParametersSection(x)), GetDirectoryOffset(f, DirFmtProp) = p
  PROVE  /\ DetermineType(x.coding) # ES_HDMV => Num(f, p, 1) = FmtMagic
         /\ SameFormat(ParseEsFmtProperties(f, x.coding), x.fmt, x.coding)
<1>1. CASE x.coding \in {AVC, H262, LPCM}
  <2>1. x.coding # AC3 BY <1>1 DEF AVC, H262, LPCM, AC3
  <2>2. Num(f, p, 1) = FmtMagic /\ ParseEsFmtProperties(f, x.coding) = x.fmt
    BY <1>1, AvcRead, H262Read, LpcmRead
  <2> QED BY <2>1, <2>2 DEF SameFormat
<1>2. CASE x.coding = AC3 BY <1>2, Ac3Read DEF SameFormat
<1>3. CASE x.coding \in {PG, IG}
  <2>1. x.coding \notin {AVC, H262, LPCM, AC3} /\ DetermineType(x.coding) = ES_HDMV
    BY <1>3 DEF AVC, H262, LPCM, AC3, PG, IG, DetermineType, ES_HDMV, ES_VIDEO, ES_AUDIO
  <2>2. x.fmt = [none |-> TRUE] BY <1>3 DEF FormatFits
  <2>3. ParseEsFmtProperties(f, x.coding) = [none |-> TRUE] BY <2>1 DEF ParseEsFmtProperties
  <2> QED BY <2>1, <2>2, <2>3 DEF SameFormat
<1> QED BY <1>1, <1>2, <1>3 DEF Codings

\* The data blocks are read as they were written.
BlockEntry(block) == U(4, Len(block)) \o block
LEMMA BlockRead ==
  ASSUME NEW block \in Seq(Byte), Fits(Len(block), 4)
  PROVE  /\ BlockEntry(block) \in Seq(Byte) /\ Len(BlockEntry(block)) = 4 + Len(block)
         /\ \A f \in Seq(Byte), q \in Nat : At(f, q, BlockEntry(block)) =>
              Num(f, q, 4) = Len(block) /\ Read(f, q + 4, Len(block)) = block
<1> DEFINE a == U(4, Len(block))
<1>1. Field(4, Len(block)) BY Fields
<1>2. a \in Seq(Byte) /\ Len(a) = 4 BY <1>1 DEF Field
<1>3. a \in Seq(Byte) BY <1>2
<1> HIDE DEF a
<1>4. a \o block \in Seq(Byte) /\ Len(a \o block) = Len(a) + Len(block) BY <1>3, TwoTogether
<1>5. ASSUME NEW f \in Seq(Byte), NEW q \in Nat, At(f, q, a \o block)
      PROVE  Num(f, q, 4) = Len(block) /\ Read(f, q + 4, Len(block)) = block
  <2>1. At(f, q, a) /\ At(f, q + Len(a), block) BY <1>3, <1>5, AtParts
  <2>2. At(f, q + 4, block) /\ q + 4 \in Nat BY <1>2, <2>1
  <2>3. Read(f, q + 4, Len(block)) = block BY <2>2, ReadAt
  <2> QED BY <1>1, <2>1, <2>3 DEF Field, a
<1> QED BY <1>2, <1>4, <1>5 DEF BlockEntry, a

LEMMA BlocksRead ==
  ASSUME NEW blocks \in Seq(Seq(Byte)), Fits(Len(blocks), 1), \A i \in 1..Len(blocks) : Fits(Len(blocks[i]), 4),
         NEW f \in Seq(Byte), NEW p \in Nat \ {0}, At(f, p, WriteDataBlocksDefSection(blocks)),
         GetDirectoryOffset(f, DirDataBlk) = p
  PROVE  Num(f, p, 1) = BlkMagic /\ ParseEsDataBlocksDefinition(f) = blocks
<1> DEFINE n == Len(blocks)
           seqs == [i \in DOMAIN blocks |-> BlockEntry(blocks[i])]
           NextOf(q) == q + 4 + Num(f, q, 4)
           Right(s) == s = [i \in 1..(Num(f, p + 1, 1) + 1) |-> IF i = 1 THEN p + 2 ELSE NextOf(s[i - 1])]
           start == CHOOSE s : Right(s)
           magic == <<BlkMagic>>
           number == U(1, n)
<1>1. ParseEsDataBlocksDefinition(f)
        = [i \in 1..Num(f, p + 1, 1) |-> Read(f, start[i] + 4, Num(f, start[i], 4))]
  BY DEF ParseEsDataBlocksDefinition
<1> HIDE DEF start
<1>2. n \in Nat /\ DOMAIN blocks = 1..n /\ blocks = [i \in 1..n |-> blocks[i]] OBVIOUS
<1>3. \A i \in 1..n : /\ blocks[i] \in Seq(Byte) /\ Fits(Len(blocks[i]), 4) /\ Len(blocks[i]) \in Nat
                      /\ seqs[i] = BlockEntry(blocks[i])
  OBVIOUS
<1>4. \A i \in 1..n : seqs[i] \in Seq(Byte) /\ Len(seqs[i]) = 4 + Len(blocks[i]) BY <1>3, BlockRead
<1>5. WriteDataBlocksDefSection(blocks) = magic \o number \o FlattenSeq(seqs)
  BY DEF WriteDataBlocksDefSection, BlockEntry
<1>6. seqs \in Seq(Seq(Byte)) /\ Len(seqs) = n
  <2>1. seqs = [i \in 1..n |-> seqs[i]] BY <1>2
  <2> HIDE DEF seqs, n
  <2> QED BY <1>2, <1>4, <2>1, AsList
<1>7. FlattenSeq(seqs) \in Seq(Byte) BY <1>6, FlattenSeqs
<1>8. BlkMagic \in 0..31 /\ magic \in Seq(Byte) /\ Len(magic) = 1
  <2>1. BlkMagic \in 0..31 BY DEF BlkMagic
  <2> QED BY <2>1, OneByte
<1>9. Field(1, n) /\ number \in Seq(Byte) /\ Len(number) = 1
  <2>1. Field(1, n) BY Fields
  <2> QED BY <2>1 DEF Field
<1>10. Num(f, p, 1) = BlkMagic /\ Num(f, p + 1, 1) = n /\ At(f, p + 2, FlattenSeq(seqs))
  <2> DEFINE flat == FlattenSeq(seqs)
  <2>1. At(f, p, magic \o number \o flat) BY <1>5
  <2>2. magic \in Seq(Byte) /\ number \in Seq(Byte) /\ flat \in Seq(Byte) BY <1>7, <1>8, <1>9
  <2> HIDE DEF magic, number, flat
  <2>3. At(f, p, magic) /\ At(f, p + Len(magic), number) /\ At(f, p + Len(magic) + Len(number), flat)
    BY <2>1, <2>2, ThreeParts
  <2>4. p + Len(magic) = p + 1 /\ p + Len(magic) + Len(number) = p + 2 /\ p + 1 \in Nat BY <1>8, <1>9
  <2>5. Num(f, p, 1) = BlkMagic BY <1>8, <2>3, CodeAt DEF magic
  <2>6. At(f, p + 1, U(1, n)) BY <2>3, <2>4 DEF number
  <2>7. Num(f, p + 1, 1) = n BY <1>9, <2>4, <2>6 DEF Field
  <2> QED BY <2>3, <2>4, <2>5, <2>7 DEF flat
<1> HIDE DEF magic, number
<1>11. PICK st : /\ Starts(st, seqs)
                 /\ \A g \in Seq(Byte), q \in Nat : At(g, q, FlattenSeq(seqs)) =>
                      \A i \in 1..Len(seqs) : At(g, q + st[i], seqs[i])
  BY <1>6, FlattenAt
<1>12. /\ \A i \in 1..(n + 1) : st[i] \in Nat
       /\ st[1] = 0 /\ \A i \in 1..n : st[i + 1] = st[i] + Len(seqs[i])
  <2> HIDE DEF n, seqs
  <2> QED BY <1>6, <1>11 DEF Starts
<1>13. \A i \in 1..n : At(f, p + 2 + st[i], seqs[i])
  <2> HIDE DEF n, seqs
  <2>1. p + 2 \in Nat OBVIOUS
  <2> QED BY <1>6, <1>10, <1>11, <2>1
<1>14. \A i \in 1..n : /\ Read(f, p + 2 + st[i] + 4, Num(f, p + 2 + st[i], 4)) = blocks[i]
                       /\ NextOf(p + 2 + st[i]) = p + 2 + st[i + 1]
  <2> SUFFICES ASSUME NEW i \in 1..n
               PROVE  /\ Read(f, p + 2 + st[i] + 4, Num(f, p + 2 + st[i], 4)) = blocks[i]
                      /\ NextOf(p + 2 + st[i]) = p + 2 + st[i + 1]
    OBVIOUS
  <2> DEFINE q == p + 2 + st[i]
  <2> HIDE DEF n, seqs
  <2>1. i \in 1..(n + 1) /\ st[i] \in Nat /\ q \in Nat BY <1>2, <1>12, SMTT(30)
  <2>2. At(f, q, BlockEntry(blocks[i])) BY <1>3, <1>13
  <2> HIDE DEF q
  <2>3. Num(f, q, 4) = Len(blocks[i]) /\ Read(f, q + 4, Len(blocks[i])) = blocks[i]
    BY <1>3, <2>1, <2>2, BlockRead
  <2>4. st[i + 1] = st[i] + (4 + Len(blocks[i])) BY <1>4, <1>12
  <2>5. Len(blocks[i]) \in Nat BY <1>3
  <2>6. q = p + 2 + st[i] /\ p \in Nat BY DEF q
  <2>7. q + 4 + Len(blocks[i]) = p + 2 + st[i + 1]
    <3> DEFINE l == Len(blocks[i])
               a == st[i]
               b == st[i + 1]
    <3>1. l \in Nat /\ a \in Nat /\ b = a + (4 + l) /\ q = p + 2 + a BY <2>1, <2>4, <2>5, <2>6
    <3> HIDE DEF l, a, b
    <3>2. q + 4 + l = p + 2 + b BY <2>6, <3>1, SMTT(30)
    <3> QED BY <3>2 DEF l, b
  <2> QED BY <2>3, <2>7 DEF q
<1> DEFINE s0 == [i \in 1..(n + 1) |-> p + 2 + st[i]]
<1>15. Right(s0)
  <2>1. \A i \in 1..(n + 1) : s0[i] = IF i = 1 THEN p + 2 ELSE NextOf(s0[i - 1])
    <3> SUFFICES ASSUME NEW i \in 1..(n + 1) PROVE s0[i] = IF i = 1 THEN p + 2 ELSE NextOf(s0[i - 1])
      OBVIOUS
    <3> HIDE DEF n, seqs, NextOf
    <3>1. CASE i = 1 BY <1>12, <3>1
    <3>2. CASE i # 1
      <4>1. i - 1 \in 1..n /\ i - 1 \in 1..(n + 1) /\ (i - 1) + 1 = i BY <1>2, <3>2
      <4>2. s0[i - 1] = p + 2 + st[i - 1] BY <4>1
      <4>3. NextOf(p + 2 + st[i - 1]) = p + 2 + st[i] BY <1>14, <4>1
      <4> QED BY <3>2, <4>2, <4>3
    <3> QED BY <3>1, <3>2
  <2>2. s0 = [i \in 1..(n + 1) |-> s0[i]] OBVIOUS
  <2> HIDE DEF s0, NextOf, n
  <2> QED BY <1>10, <2>1, <2>2
<1>16. Right(start)
  <2> HIDE DEF Right, s0
  <2> QED BY <1>15 DEF start
<1>17. \A i \in 1..(n + 1) : start[i] = s0[i]
  <2> HIDE DEF start, s0, NextOf
  <2>1. \A i \in 1..(n + 1) : /\ start[i] = IF i = 1 THEN p + 2 ELSE NextOf(start[i - 1])
                              /\ s0[i] = IF i = 1 THEN p + 2 ELSE NextOf(s0[i - 1])
    BY <1>10, <1>15, <1>16
  <2> HIDE DEF n, Right
  <2> DEFINE S == {i \in 1..(n + 1) : start[i] = s0[i]}
             m == n + 1
  <2>2. 1 \in S /\ m \in Nat
    <3>1. 1 \in 1..(n + 1) /\ n + 1 \in Nat BY <1>2
    <3>2. start[1] = p + 2 /\ s0[1] = p + 2 BY <2>1, <3>1
    <3> QED BY <3>1, <3>2
  <2>3. \A i \in 1..m : i \in S /\ i # m => i + 1 \in S
    <3> SUFFICES ASSUME NEW i \in 1..m, i \in S, i # m PROVE i + 1 \in S OBVIOUS
    <3> DEFINE j == i + 1
    <3>1. j \in 1..(n + 1) /\ j # 1 /\ j - 1 = i /\ start[i] = s0[i] BY <1>2
    <3> HIDE DEF j
    <3>2. start[j] = s0[j] BY <2>1, <3>1
    <3> QED BY <3>1, <3>2 DEF j
  <2> HIDE DEF S, m
  <2>4. \A i \in 1..m : i \in S BY <2>2, <2>3, OneByOne
  <2> QED BY <2>4 DEF S, m
<1> HIDE DEF n, seqs, NextOf, Right
<1>18. \A i \in 1..n : Read(f, start[i] + 4, Num(f, start[i], 4)) = blocks[i]
  <2> SUFFICES ASSUME NEW i \in 1..n PROVE Read(f, start[i] + 4, Num(f, start[i], 4)) = blocks[i] OBVIOUS
  <2>1. i \in 1..(n + 1) BY <1>2
  <2>2. start[i] = p + 2 + st[i] BY <1>17, <2>1
  <2> QED BY <1>14, <2>2
<1>19. ParseEsDataBlocksDefinition(f) = [i \in 1..n |-> Read(f, start[i] + 4, Num(f, start[i], 4))]
  BY <1>1, <1>10
<1>20. ParseEsDataBlocksDefinition(f) = blocks BY <1>2, <1>18, <1>19
<1> QED BY <1>10, <1>20

\* A number below one that fits, fits.
LEMMA WideBelow == ASSUME NEW a \in Nat, NEW b, a <= b, Wide(b) PROVE Wide(a)
<1> DEFINE w == Weight[5]
           q == a \div w
           r == a % w
           k == b \div w
           l == b % w
<1>1. w \in Nat \ {0} /\ b \in Nat /\ k < ByteRange /\ ByteRange \in Nat BY Weights, FormatAssumption DEF Wide
<1> HIDE DEF w
<1>2. q \in Nat /\ r \in Nat /\ a = q * w + r BY <1>1, Divided
<1>3. k \in Nat /\ l \in Nat /\ l < w /\ b = k * w + l BY <1>1, Divided
<1> HIDE DEF q, r, k, l
<1>4. q <= k
  <2>1. SUFFICES ASSUME q > k PROVE FALSE BY <1>2, <1>3
  <2> DEFINE j == q - (k + 1)
  <2>2. j \in Nat /\ q = (k + 1) + j BY <1>2, <1>3, <2>1
  <2> HIDE DEF j
  <2>3. q * w = k * w + w + j * w BY <1>1, <1>3, <2>2
  <2>4. j * w \in Nat /\ k * w \in Nat BY <1>1, <1>3, <2>2
  <2> DEFINE jw == j * w
             kw == k * w
             qw == q * w
  <2>5. qw = kw + w + jw /\ jw \in Nat /\ kw \in Nat /\ a = qw + r /\ b = kw + l BY <1>2, <1>3, <2>3, <2>4
  <2> HIDE DEF jw, kw, qw
  <2> QED BY <1>1, <1>2, <1>3, <2>5
<1> QED BY <1>1, <1>2, <1>3, <1>4 DEF Wide, q, k, w

-----------------------------------------------------------------------------
(* The script of one analysis is read as what that analysis found.          *)

\* The header of the script of a source.
LEMMA HeaderFits ==
  ASSUME NEW s \in Sources, NEW d \in Disks, NEW o, IsFinding(Analysis[s][d[s]][o]),
         FindingFits(Analysis[s][d[s]][o])
  PROVE  /\ PropertiesFit(HeaderOf(s, d, o))
         /\ Len(HeaderOf(s, d, o).sources) = 1 + Len(Analysis[s][d[s]][o].pictures)
         /\ HeaderOf(s, d, o).sources[1] = [name |-> s, crc |-> d[s].head]
<1> DEFINE found == Analysis[s][d[s]][o]
           x == HeaderOf(s, d, o)
           paths == <<s>> \o found.pictures
           n == 1 + Len(found.pictures)
           Entry(i) == [name |-> paths[i], crc |-> d[paths[i]].head]
           sources == [i \in DOMAIN paths |-> Entry(i)]
<1>1. found.pictures \in Seq(Sources) BY SMTT(30) DEF IsFinding
<1>2. /\ x.coding = found.coding /\ x.flags = ComputeFlags(o) /\ x.ptsRef = found.ptsRef
      /\ x.endPts = found.endPts /\ x.bitrate = found.bitrate /\ x.sources = sources
      /\ x.blocks = found.blocks /\ x.fmt = found.fmt
  BY DEF HeaderOf, SourcesOf
<1>3. n \in Nat /\ n \in Nat \ {0} /\ DOMAIN paths = 1..n /\ paths[1] = s /\ \A i \in 1..n : paths[i] \in Sources
  <2> DEFINE pictures == found.pictures
  <2>1. pictures \in Seq(Sources) BY <1>1
  <2> HIDE DEF pictures
  <2>2. <<s>> \in Seq(Sources) /\ Len(<<s>>) = 1 OBVIOUS
  <2>3. <<s>> \o pictures \in Seq(Sources) /\ Len(<<s>> \o pictures) = 1 + Len(pictures)
        /\ (<<s>> \o pictures)[1] = s
    BY <2>1, <2>2
  <2> DEFINE t == <<s>> \o pictures
             m == 1 + Len(pictures)
  <2>4. t \in Seq(Sources) /\ Len(t) = m /\ t[1] = s /\ m \in Nat \ {0} BY <2>1, <2>3
  <2> HIDE DEF t, m
  <2>5. DOMAIN t = 1..m /\ \A i \in 1..m : t[i] \in Sources BY <2>4
  <2>6. paths = t /\ n = m BY DEF t, m, pictures
  <2> HIDE DEF paths, n
  <2> QED BY <2>4, <2>5, <2>6
<1> HIDE DEF paths, found, x, n
<1>4. \A p \in Sources : p \in Byte /\ Fits(d[p].head, 4)
  BY SourcesAssumption, FieldsAssumption DEF Disks
<1>5. \A i \in 1..n : Entry(i) \in SourceRecords /\ Fits(Entry(i).crc, 4)
  <2> SUFFICES ASSUME NEW i \in 1..n PROVE Entry(i) \in SourceRecords /\ Fits(Entry(i).crc, 4) OBVIOUS
  <2>1. paths[i] \in Sources BY <1>3
  <2>2. paths[i] \in Byte /\ Fits(d[paths[i]].head, 4) BY <1>4, <2>1
  <2>3. d[paths[i]].head \in Int BY <2>2, FitsInt
  <2> QED BY <2>2, <2>3 DEF SourceRecords
<1>6. \A i \in 1..n : sources[i] = Entry(i) BY <1>3
<1>7. sources \in Seq(SourceRecords) /\ Len(sources) = n
  <2>1. sources = [i \in 1..n |-> sources[i]] BY <1>3
  <2>2. \A i \in 1..n : sources[i] \in SourceRecords BY <1>5, <1>6
  <2> HIDE DEF sources, Entry
  <2> QED BY <1>3, <2>1, <2>2, AsList
<1>8. sources[1] = [name |-> s, crc |-> d[s].head]
  <2>1. 1 \in 1..n BY <1>3
  <2> QED BY <1>3, <1>6, <2>1
<1>9. \A i \in 1..n : Fits(sources[i].crc, 4) BY <1>5, <1>6
<1> HIDE DEF sources, Entry
<1>10. Wide(x.flags) /\ x.flags \in Int
  <2> DEFINE a == Flag(o.secondary)
             b == Flag(o.fpsChange # 0)
  <2>1. a \in 0..1 /\ b \in 0..1 BY Flags
  <2>2. x.flags = a + 2 * b BY <1>2 DEF ComputeFlags
  <2> HIDE DEF a, b
  <2>3. x.flags \in 0..31 BY <2>1, <2>2
  <2>4. Weight[5] \in Nat \ {0} /\ ByteRange >= 32 /\ ByteRange \in Nat BY Weights, FormatAssumption
  <2> DEFINE v == x.flags
             w == Weight[5]
  <2>5. v \in 0..31 /\ w \in Nat \ {0} BY <2>3, <2>4
  <2> HIDE DEF v, w
  <2>6. v \div w <= v
    <3>1. v \div w \in Nat /\ v % w \in Nat /\ v = (v \div w) * w + (v % w) BY <2>5, Divided
    <3> DEFINE q == v \div w
               r == v % w
               t == q * (w - 1)
    <3>2. q \in Nat /\ r \in Nat /\ w - 1 \in Nat /\ v = q * w + r BY <2>5, <3>1
    <3> HIDE DEF q, r
    <3>3. t \in Nat /\ q * w = q + t BY <2>5, <3>2
    <3> HIDE DEF t
    <3>4. v = q + t + r BY <3>2, <3>3
    <3>5. q <= v BY <3>2, <3>3, <3>4
    <3> QED BY <3>5 DEF q
  <2>7. v \div w \in Nat BY <2>5, Divided
  <2>8. v \div w < ByteRange BY <2>4, <2>5, <2>6, <2>7
  <2> QED BY <2>3, <2>5, <2>8 DEF Wide, v, w
<1>11. IsHeader(x)
  <2>1. x.coding \in Codings BY <1>2, SMTT(30) DEF IsFinding, Codings, found
  <2>2. x.ptsRef \in Int /\ x.endPts \in Int /\ x.bitrate \in Int /\ x.blocks \in Seq(Seq(Byte))
    BY <1>2, ZenonT(30) DEF IsFinding, found
  <2>3. IsFormat(x.fmt, x.coding) BY <1>2, SMTT(30) DEF IsFinding, found
  <2> QED BY <1>2, <1>7, <1>10, <2>1, <2>2, <2>3, SMTT(30) DEF IsHeader
<1>12. Wide(x.ptsRef) /\ Wide(x.endPts) /\ Fits(x.bitrate, 4) /\ Fits(n, 1)
  BY <1>2 DEF FindingFits, found, n
<1>13. PropertiesFit(x) BY <1>2, <1>7, <1>9, <1>10, <1>11, <1>12 DEF PropertiesFit
<1> QED BY <1>2, <1>7, <1>8, <1>13, SMTT(30) DEF found, x, n

\* The packets are between the header and the end marker.
CuttingPlaced(found) ==
  LET n == Len(found.packets)
      flat == WrittenPackets(found.coding, found.packets, found.blocks)
      e == Ended(Cutting(found, n))
  IN  /\ flat \in Seq(Byte)
      /\ Cutting(found, n) \in Seq(Byte) /\ e \in Seq(Byte)
      /\ HeaderLength <= Len(e) /\ Len(e) <= HeaderLength + 2 + Len(flat)
      /\ n # 0 => At(e, HeaderLength, <<PesMagic>>) /\ At(e, HeaderLength + 1, flat \o <<EndMarker>>)
LEMMA CuttingHolds == ASSUME NEW found, IsFinding(found) PROVE CuttingPlaced(found)
<1> DEFINE n == Len(found.packets)
           seqs == [i \in 1..n |-> PacketOf(found, i)]
           flat == WrittenPackets(found.coding, found.packets, found.blocks)
           c == Cutting(found, n)
           e == Ended(c)
           a == WriteEsmsHeader
           b == <<PesMagic>>
           z == <<EndMarker>>
<1>1. found.packets \in Seq(ToSet(found.packets)) BY DEF IsFinding
<1>2. n \in Nat /\ DOMAIN found.packets = 1..n BY <1>1
<1>3. \A i \in 1..n : seqs[i] \in Seq(Byte)
  <2> SUFFICES ASSUME NEW i \in 1..n PROVE PacketOf(found, i) \in Seq(Byte) OBVIOUS
  <2>1. IsPacket(found.packets[i], found.blocks) BY <1>2 DEF IsFinding
  <2>2. found.blocks \in Seq(Seq(Byte)) /\ found.coding \in Codings BY DEF IsFinding, Codings
  <2> QED BY <2>1, <2>2, PacketBytes DEF PacketOf
<1>4. flat = FlattenSeq(seqs) BY DEF WrittenPackets, PacketOf
<1>5. flat \in Seq(Byte) /\ Len(flat) \in Nat
  <2>1. seqs = [i \in 1..n |-> seqs[i]] OBVIOUS
  <2> HIDE DEF seqs, n
  <2>2. seqs \in Seq(Seq(Byte)) BY <1>2, <1>3, <2>1, AsList
  <2>3. flat \in Seq(Byte) BY <1>4, <2>2, FlattenSeqs
  <2> QED BY <2>3
<1>6. c = IF n = 0 THEN a ELSE a \o (b \o flat) BY <1>4 DEF Cutting
<1>7. /\ b \in Seq(Byte) /\ Len(b) = 1 /\ z \in Seq(Byte) /\ Len(z) = 1 /\ EndMarker \in Byte
  <2>1. PesMagic \in 0..31 /\ EndMarker \in 0..31 BY DEF PesMagic, EndMarker
  <2> QED BY <2>1, OneByte, Small
<1>8. a \in Seq(Byte) /\ Len(a) = HeaderLength /\ HeaderLength \in Nat BY HeaderBytes
<1> HIDE DEF n, seqs, flat, a, b
<1>9. b \o flat \in Seq(Byte) /\ Len(b \o flat) = 1 + Len(flat)
  <2>1. b \in Seq(Byte) /\ flat \in Seq(Byte) BY <1>5, <1>7
  <2> QED BY <1>7, <2>1, TwoTogether
<1> DEFINE p == b \o flat
<1>10. p \in Seq(Byte) /\ Len(p) = 1 + Len(flat) BY <1>9
<1> HIDE DEF p
<1>11. a \o p \in Seq(Byte) /\ Len(a \o p) = HeaderLength + 1 + Len(flat)
  <2>1. a \in Seq(Byte) /\ p \in Seq(Byte) BY <1>8, <1>10
  <2>2. a \o p \in Seq(Byte) /\ Len(a \o p) = Len(a) + Len(p) BY <2>1, TwoTogether
  <2> QED BY <1>5, <1>8, <1>10, <2>2
<1>12. c \in Seq(Byte) /\ HeaderLength <= Len(c) /\ Len(c) <= HeaderLength + 1 + Len(flat)
  <2>1. CASE n = 0
    <3>1. c = a BY <1>6, <2>1
    <3> HIDE DEF c
    <3> QED BY <1>5, <1>8, <3>1
  <2>2. CASE n # 0
    <3>1. c = a \o p BY <1>6, <2>2 DEF p
    <3> HIDE DEF c
    <3> QED BY <1>5, <1>8, <1>11, <3>1
  <2> QED BY <2>1, <2>2
<1> HIDE DEF c
<1>13. e = c \o z /\ e \in Seq(Byte) /\ Len(e) = Len(c) + 1
  <2>1. e = c \o z BY <1>7, <1>12 DEF Ended
  <2> HIDE DEF e, z
  <2>2. c \in Seq(Byte) /\ z \in Seq(Byte) BY <1>7, <1>12
  <2>3. c \o z \in Seq(Byte) /\ Len(c \o z) = Len(c) + Len(z) BY <2>2, TwoTogether
  <2> QED BY <1>7, <2>1, <2>3
<1>14. ASSUME n # 0 PROVE At(e, HeaderLength, b) /\ At(e, HeaderLength + 1, flat \o z)
  <2> HIDE DEF z
  <2>1. c = a \o p BY <1>6, <1>14 DEF p
  <2>2. a \in Seq(Byte) /\ b \in Seq(Byte) /\ flat \in Seq(Byte) /\ z \in Seq(Byte) /\ p \in Seq(Byte)
    BY <1>5, <1>7, <1>8, <1>10
  <2>3. e = a \o (p \o z) BY <1>13, <2>1, <2>2, Associated, SMTT(30)
  <2>4. p \o z \in Seq(Byte) BY <2>2, Joined
  <2>5. At(e, Len(a), p \o z) BY <2>2, <2>3, <2>4, AtEnd
  <2>6. flat \o z \in Seq(Byte) BY <2>2, Joined
  <2>7. p \o z = b \o (flat \o z) BY <2>2, Associated, ZenonT(30) DEF p
  <2> DEFINE t == flat \o z
  <2>8. t \in Seq(Byte) /\ At(e, HeaderLength, b \o t) BY <1>8, <2>5, <2>6, <2>7
  <2> HIDE DEF t, e
  <2>9. At(e, HeaderLength, b) /\ At(e, HeaderLength + Len(b), t) BY <1>8, <1>13, <2>2, <2>8, AtParts
  <2> QED BY <1>7, <2>9 DEF t
<1>15. HeaderLength <= Len(e) /\ Len(e) <= HeaderLength + 2 + Len(flat)
  <2>1. Len(c) \in Nat BY <1>12
  <2> HIDE DEF e
  <2> QED BY <1>5, <1>8, <1>12, <1>13, <2>1
<1> QED BY <1>5, <1>12, <1>13, <1>14, <1>15 DEF CuttingPlaced, n, flat, c, b

\* The sections follow.
Placed(f, x, body) ==
  /\ body \in Seq(Byte) /\ Len(Ended(f)) \in Nat /\ Len(Described(f, x)) \in Nat /\ Len(WithBlocks(f, x)) \in Nat
  /\ Len(Ended(f)) <= Len(Described(f, x)) /\ Len(Described(f, x)) <= Len(WithBlocks(f, x))
  /\ Len(WithBlocks(f, x)) <= Len(body)
  /\ Len(WithBlocks(f, x)) <= Len(Ended(f)) + Len(WriteEsPropertiesSection(x)) + Len(WriteDataBlocksDefSection(x.blocks))
  /\ At(body, Len(Ended(f)), WriteEsPropertiesSection(x))
  /\ x.blocks # <<>> => At(body, Len(Described(f, x)), WriteDataBlocksDefSection(x.blocks))
  /\ At(body, Len(WithBlocks(f, x)), WriteEsCodecSpecParametersSection(x))
  /\ \A p \in Nat, s \in Seq(Byte) : At(Ended(f), p, s) => At(body, p, s)
LEMMA SectionsPlaced ==
  ASSUME NEW f, Ended(f) \in Seq(Byte), NEW x, IsHeader(x)
  PROVE  Placed(f, x, Complete(f, x))
<1> DEFINE e == Ended(f)
           p == WriteEsPropertiesSection(x)
           w == WriteDataBlocksDefSection(x.blocks)
           b == IF x.blocks # <<>> THEN w ELSE <<>>
           m == WriteEsCodecSpecParametersSection(x)
           y == e \o p
           z == y \o b
           body == z \o m
<1>1. Described(f, x) = y /\ WithBlocks(f, x) = z /\ Complete(f, x) = body
  BY DEF Described, WithBlocks, Complete
<1>2. e \in Seq(Byte) /\ p \in Seq(Byte) /\ m \in Seq(Byte) BY PropertiesBytes, FormatBytes
<1>3. w \in Seq(Byte) BY BlocksBytes DEF IsHeader
<1>4. b \in Seq(Byte) /\ Len(b) <= Len(w) /\ Len(b) \in Nat /\ Len(w) \in Nat BY <1>3
<1>5. b \in Seq(Byte) /\ (x.blocks # <<>> => b = w) BY <1>4
<1> HIDE DEF e, p, w, b, m
<1>6. y \in Seq(Byte) /\ Len(y) = Len(e) + Len(p) BY <1>2, TwoTogether
<1>7. y \in Seq(Byte) BY <1>6
<1>8. At(y, Len(e), p) BY <1>2, AtEnd
<1>9. \A q \in Nat, s \in Seq(Byte) : At(e, q, s) => At(y, q, s) BY <1>2, AtExtended
<1> HIDE DEF y
<1>10. z \in Seq(Byte) /\ Len(z) = Len(y) + Len(b) BY <1>5, <1>7, TwoTogether
<1>11. z \in Seq(Byte) BY <1>10
<1>12. At(z, Len(y), b) BY <1>5, <1>7, AtEnd
<1>13. \A q \in Nat, s \in Seq(Byte) : At(y, q, s) => At(z, q, s) BY <1>5, <1>7, AtExtended
<1> HIDE DEF z
<1>14. body \in Seq(Byte) /\ Len(body) = Len(z) + Len(m) BY <1>2, <1>11, TwoTogether
<1>15. At(body, Len(z), m) BY <1>2, <1>11, AtEnd
<1>16. \A q \in Nat, s \in Seq(Byte) : At(z, q, s) => At(body, q, s) BY <1>2, <1>11, AtExtended
<1> HIDE DEF body
<1>17. /\ Len(e) \in Nat /\ Len(p) \in Nat /\ Len(m) \in Nat /\ Len(y) \in Nat /\ Len(z) \in Nat /\ Len(body) \in Nat
  BY <1>2, <1>7, <1>11, <1>14
<1>18. /\ Len(e) <= Len(y) /\ Len(y) <= Len(z) /\ Len(z) <= Len(body) /\ Len(z) <= Len(e) + Len(p) + Len(w)
  BY <1>4, <1>6, <1>10, <1>14, <1>17
<1>19. At(body, Len(e), p) /\ At(body, Len(y), b) BY <1>2, <1>5, <1>8, <1>12, <1>13, <1>16, <1>17
<1>20. \A q \in Nat, s \in Seq(Byte) : At(e, q, s) => At(body, q, s) BY <1>9, <1>13, <1>16
<1>21. x.blocks # <<>> => At(body, Len(y), w) BY <1>5, <1>19
<1> QED BY <1>1, <1>14, <1>15, <1>17, <1>18, <1>19, <1>20, <1>21 DEF Placed, e, p, w, m

\* The directories of the four sections.
DirAt(id, offset) == [id |-> id, offset |-> offset]
LEMMA UpToFour ==
  ASSUME NEW S, NEW p \in S, NEW e \in S, NEW b \in S, NEW w \in S
  PROVE  /\ Append(<<>>, p) = <<p>> /\ Append(<<p>>, e) = <<p, e>> /\ Append(<<p, e>>, b) = <<p, e, b>>
         /\ Append(<<p, e, b>>, w) = <<p, e, b, w>>
<1>1. Append(<<>>, p) = <<p>> OBVIOUS
<1>2. Append(<<p>>, e) = <<p, e>>
  <2>1. Append(<<p>>, e) \in Seq(S) /\ <<p, e>> \in Seq(S) /\ Len(Append(<<p>>, e)) = 2 /\ Len(<<p, e>>) = 2 OBVIOUS
  <2>2. \A i \in 1..2 : Append(<<p>>, e)[i] = <<p, e>>[i] OBVIOUS
  <2> QED BY <2>1, <2>2, SeqEqual
<1>3. Append(<<p, e>>, b) = <<p, e, b>>
  <2>1. /\ Append(<<p, e>>, b) \in Seq(S) /\ <<p, e, b>> \in Seq(S)
        /\ Len(Append(<<p, e>>, b)) = 3 /\ Len(<<p, e, b>>) = 3
    OBVIOUS
  <2>2. \A i \in 1..3 : Append(<<p, e>>, b)[i] = <<p, e, b>>[i] OBVIOUS
  <2> QED BY <2>1, <2>2, SeqEqual
<1>4. Append(<<p, e, b>>, w) = <<p, e, b, w>>
  <2>1. /\ Append(<<p, e, b>>, w) \in Seq(S) /\ <<p, e, b, w>> \in Seq(S)
        /\ Len(Append(<<p, e, b>>, w)) = 4 /\ Len(<<p, e, b, w>>) = 4
    OBVIOUS
  <2>2. \A i \in 1..4 : Append(<<p, e, b>>, w)[i] = <<p, e, b, w>>[i] OBVIOUS
  <2> QED BY <2>1, <2>2, SeqEqual
<1> QED BY <1>1, <1>2, <1>3, <1>4
LEMMA Lists ==
  \A p, e, b, w : /\ Append(<<>>, p) = <<p>> /\ Append(<<p>>, e) = <<p, e>>
                  /\ Append(<<p, e>>, b) = <<p, e, b>> /\ Append(<<p, e, b>>, w) = <<p, e, b, w>>
<1> TAKE p, e, b, w
<1> DEFINE S == {p, e, b, w}
<1>1. p \in S /\ e \in S /\ b \in S /\ w \in S OBVIOUS
<1> HIDE DEF S
<1> QED BY <1>1, UpToFour

LEMMA DirectoryLists ==
  ASSUME NEW f, NEW x, NEW n
  PROVE  LET p == DirAt(DirPesCutting, HeaderLength)
             e == DirAt(DirProp, Len(Ended(f)))
             b == DirAt(DirDataBlk, Len(Described(f, x)))
             w == DirAt(DirFmtProp, Len(WithBlocks(f, x)))
         IN  /\ n = 0 /\ x.blocks = <<>> => DirectoriesOf(f, x, n) = <<e, w>>
             /\ n = 0 /\ x.blocks # <<>> => DirectoriesOf(f, x, n) = <<e, b, w>>
             /\ n # 0 /\ x.blocks = <<>> => DirectoriesOf(f, x, n) = <<p, e, w>>
             /\ n # 0 /\ x.blocks # <<>> => DirectoriesOf(f, x, n) = <<p, e, b, w>>
<1> DEFINE p == DirAt(DirPesCutting, HeaderLength)
           e == DirAt(DirProp, Len(Ended(f)))
           b == DirAt(DirDataBlk, Len(Described(f, x)))
           w == DirAt(DirFmtProp, Len(WithBlocks(f, x)))
           first == IF n = 0 THEN <<>> ELSE Append(<<>>, p)
           more == Append(first, e)
           blocks == IF x.blocks # <<>> THEN Append(more, b) ELSE more
<1>1. Len(WriteEsmsHeader) = HeaderLength BY HeaderBytes
<1>2. DirectoriesOf(f, x, n) = Append(blocks, w) BY <1>1 DEF DirectoriesOf, FirstDir, AppendDir, DirAt
<1> HIDE DEF p, e, b, w
<1>3. CASE n = 0 /\ x.blocks = <<>>
  <2>1. DirectoriesOf(f, x, n) = Append(Append(<<>>, e), w) BY <1>2, <1>3
  <2>2. Append(<<>>, e) = <<e>> /\ Append(<<e>>, w) = <<e, w>> BY Lists, Zenon
  <2> QED BY <1>3, <2>1, <2>2 DEF p, e, b, w
<1>4. CASE n = 0 /\ x.blocks # <<>>
  <2>1. DirectoriesOf(f, x, n) = Append(Append(Append(<<>>, e), b), w) BY <1>2, <1>4
  <2>2. Append(<<>>, e) = <<e>> /\ Append(<<e>>, b) = <<e, b>> /\ Append(<<e, b>>, w) = <<e, b, w>>
    BY Lists, Zenon
  <2> QED BY <1>4, <2>1, <2>2 DEF p, e, b, w
<1>5. CASE n # 0 /\ x.blocks = <<>>
  <2>1. DirectoriesOf(f, x, n) = Append(Append(Append(<<>>, p), e), w) BY <1>2, <1>5
  <2>2. Append(<<>>, p) = <<p>> /\ Append(<<p>>, e) = <<p, e>> /\ Append(<<p, e>>, w) = <<p, e, w>>
    BY Lists, Zenon
  <2> QED BY <1>5, <2>1, <2>2 DEF p, e, b, w
<1>6. CASE n # 0 /\ x.blocks # <<>>
  <2>1. DirectoriesOf(f, x, n) = Append(Append(Append(Append(<<>>, p), e), b), w) BY <1>2, <1>6
  <2>2. /\ Append(<<>>, p) = <<p>> /\ Append(<<p>>, e) = <<p, e>> /\ Append(<<p, e>>, b) = <<p, e, b>>
        /\ Append(<<p, e, b>>, w) = <<p, e, b, w>>
    <3>1. Append(<<>>, p) = <<p>> /\ Append(<<p>>, e) = <<p, e>> BY Lists, Zenon
    <3>2. Append(<<p, e>>, b) = <<p, e, b>> BY Lists, Zenon
    <3>3. Append(<<p, e, b>>, w) = <<p, e, b, w>> BY Lists, ZenonT(30)
    <3> QED BY <3>1, <3>2, <3>3
  <2> QED BY <1>6, <2>1, <2>2 DEF p, e, b, w
<1> QED BY <1>3, <1>4, <1>5, <1>6 DEF p, e, b, w

\* The first directory of each kind is the only one.
OffsetsAs(dirs, p, e, b, w) ==
  /\ dirs \in Seq(Directories) /\ Len(dirs) <= 4
  /\ \A i, j \in 1..Len(dirs) : dirs[j].id = dirs[i].id => j = i
  /\ \A i \in 1..Len(dirs) : dirs[i].offset \in {p, e, b, w}
  /\ \E i \in 1..Len(dirs) : dirs[i].id = DirProp /\ dirs[i].offset = e
  /\ \E i \in 1..Len(dirs) : dirs[i].id = DirFmtProp /\ dirs[i].offset = w
  /\ IF p = 0 THEN \A i \in 1..Len(dirs) : dirs[i].id # DirPesCutting
              ELSE \E i \in 1..Len(dirs) : dirs[i].id = DirPesCutting /\ dirs[i].offset = p
  /\ IF b = 0 THEN \A i \in 1..Len(dirs) : dirs[i].id # DirDataBlk
              ELSE \E i \in 1..Len(dirs) : dirs[i].id = DirDataBlk /\ dirs[i].offset = b
LEMMA DirectoryOffsets ==
  ASSUME NEW f, NEW x, NEW n, Len(Ended(f)) \in Nat, Len(Described(f, x)) \in Nat \ {0}, Len(WithBlocks(f, x)) \in Nat
  PROVE  OffsetsAs(DirectoriesOf(f, x, n), IF n = 0 THEN 0 ELSE HeaderLength, Len(Ended(f)),
                   IF x.blocks = <<>> THEN 0 ELSE Len(Described(f, x)), Len(WithBlocks(f, x)))
<1> DEFINE p0 == HeaderLength
           e0 == Len(Ended(f))
           b0 == Len(Described(f, x))
           w0 == Len(WithBlocks(f, x))
           p == DirAt(DirPesCutting, p0)
           e == DirAt(DirProp, e0)
           b == DirAt(DirDataBlk, b0)
           w == DirAt(DirFmtProp, w0)
           dirs == DirectoriesOf(f, x, n)
<1>1. p0 \in Nat \ {0} /\ e0 \in Nat /\ b0 \in Nat \ {0} /\ w0 \in Nat BY HeaderBytes
<1>2. /\ n = 0 /\ x.blocks = <<>> => dirs = <<e, w>>
      /\ n = 0 /\ x.blocks # <<>> => dirs = <<e, b, w>>
      /\ n # 0 /\ x.blocks = <<>> => dirs = <<p, e, w>>
      /\ n # 0 /\ x.blocks # <<>> => dirs = <<p, e, b, w>>
  BY DirectoryLists
<1> HIDE DEF p0, e0, b0, w0, dirs
<1>3. /\ DirProp = 1 /\ DirPesCutting = 2 /\ DirFmtProp = 3 /\ DirDataBlk = 4
  BY DEF DirProp, DirPesCutting, DirFmtProp, DirDataBlk
<1>4. /\ p.id = 2 /\ p.offset = p0 /\ e.id = 1 /\ e.offset = e0
      /\ b.id = 4 /\ b.offset = b0 /\ w.id = 3 /\ w.offset = w0
  BY <1>3 DEF DirAt
<1>5. p \in Directories /\ e \in Directories /\ b \in Directories /\ w \in Directories
  BY <1>1, <1>3 DEF DirAt, Directories
<1> HIDE DEF p, e, b, w
<1>6. CASE n = 0 /\ x.blocks = <<>>
  <2>3. dirs = <<e, w>> BY <1>2, <1>6
  <2>1. dirs \in Seq(Directories) /\ Len(dirs) = 2 /\ dirs[1] = e /\ dirs[2] = w BY <1>5, <2>3
  <2>2. OffsetsAs(dirs, 0, e0, 0, w0) BY <1>3, <1>4, <2>1 DEF OffsetsAs
  <2> QED BY <1>6, <2>2 DEF dirs, e0, w0
<1>7. CASE n = 0 /\ x.blocks # <<>>
  <2>3. dirs = <<e, b, w>> BY <1>2, <1>7
  <2>1. dirs \in Seq(Directories) /\ Len(dirs) = 3 /\ dirs[1] = e /\ dirs[2] = b /\ dirs[3] = w BY <1>5, <2>3
  <2>2. OffsetsAs(dirs, 0, e0, b0, w0) BY <1>1, <1>3, <1>4, <2>1 DEF OffsetsAs
  <2> QED BY <1>7, <2>2 DEF dirs, e0, b0, w0
<1>8. CASE n # 0 /\ x.blocks = <<>>
  <2>3. dirs = <<p, e, w>> BY <1>2, <1>8
  <2>1. dirs \in Seq(Directories) /\ Len(dirs) = 3 /\ dirs[1] = p /\ dirs[2] = e /\ dirs[3] = w BY <1>5, <2>3
  <2>2. OffsetsAs(dirs, p0, e0, 0, w0) BY <1>1, <1>3, <1>4, <2>1 DEF OffsetsAs
  <2> QED BY <1>8, <2>2 DEF dirs, p0, e0, w0
<1>9. CASE n # 0 /\ x.blocks # <<>>
  <2>3. dirs = <<p, e, b, w>> BY <1>2, <1>9
  <2>1. /\ dirs \in Seq(Directories) /\ Len(dirs) = 4
        /\ dirs[1] = p /\ dirs[2] = e /\ dirs[3] = b /\ dirs[4] = w
    BY <1>5, <2>3
  <2>2. OffsetsAs(dirs, p0, e0, b0, w0) BY <1>1, <1>3, <1>4, <2>1 DEF OffsetsAs
  <2> QED BY <1>9, <2>2 DEF dirs, p0, e0, b0, w0
<1> QED BY <1>6, <1>7, <1>8, <1>9

\* They are read back.
LEMMA OffsetsRead ==
  ASSUME NEW body \in Seq(Byte), Len(body) >= HeaderLength, NEW dirs, NEW p, NEW e, NEW b, NEW w,
         OffsetsAs(dirs, p, e, b, w), p = 0 \/ Wide(p), Wide(e), b = 0 \/ Wide(b), Wide(w)
  PROVE  LET g == UpdateEsmsHeader(body, dirs)
         IN  /\ g \in Seq(Byte)
             /\ \A q \in Nat, s \in Seq(Byte) : q >= HeaderLength /\ At(body, q, s) => At(g, q, s)
             /\ GetDirectoryOffset(g, DirPesCutting) = p /\ GetDirectoryOffset(g, DirProp) = e
             /\ GetDirectoryOffset(g, DirDataBlk) = b /\ GetDirectoryOffset(g, DirFmtProp) = w
<1> DEFINE g == UpdateEsmsHeader(body, dirs)
<1>1. dirs \in Seq(Directories) /\ Len(dirs) <= 4 BY DEF OffsetsAs
<1>2. Wide(0)
  <2>1. Wide(e) /\ e \in Nat BY DEF Wide
  <2> QED BY <2>1, WideBelow
<1>3. \A i \in 1..Len(dirs) : Wide(dirs[i].offset) BY <1>2 DEF OffsetsAs
<1>4. UpdatesAs(body, dirs, g) BY <1>1, <1>3, HeaderUpdated
<1> HIDE DEF g
<1>5. /\ \A id : (\A i \in 1..Len(dirs) : dirs[i].id # id) => GetDirectoryOffset(g, id) = 0
      /\ \A i \in 1..Len(dirs) : (\A j \in 1..Len(dirs) : dirs[j].id = dirs[i].id => j = i)
              => GetDirectoryOffset(g, dirs[i].id) = dirs[i].offset
  BY <1>1, <1>4, DirectoryFound
<1>6. \A i \in 1..Len(dirs) : GetDirectoryOffset(g, dirs[i].id) = dirs[i].offset BY <1>5 DEF OffsetsAs
<1>7. GetDirectoryOffset(g, DirProp) = e BY <1>6 DEF OffsetsAs
<1>8. GetDirectoryOffset(g, DirFmtProp) = w BY <1>6 DEF OffsetsAs
<1>9. GetDirectoryOffset(g, DirPesCutting) = p BY <1>5, <1>6 DEF OffsetsAs
<1>10. GetDirectoryOffset(g, DirDataBlk) = b BY <1>5, <1>6 DEF OffsetsAs
<1> QED BY <1>4, <1>7, <1>8, <1>9, <1>10 DEF UpdatesAs, g

\* What an analyser found is what is read in its script, but for a script without packets, that
\* is refused.
ReadAsFound(f, s, d, o) ==
  LET found == Analysis[s][d[s]][o]
      q == GetDirectoryOffset(f, DirProp)
  IN  /\ HasSection(f, DirProp, PropMagic)
      /\ ParseFlags(f, q) = ComputeFlags(o)
      /\ 1 \in DOMAIN ParseSources(f, q) /\ ParseSources(f, q)[1] = [name |-> s, crc |-> d[s].head]
      /\ IF found.packets = <<>> THEN ~Parsable(f) ELSE Parsable(f) /\ SameScript(ParseScript(f), found)
Sound(s, d, o) ==
  LET found == Analysis[s][d[s]][o]
  IN  /\ IsFinding(found) /\ FindingFits(found)
      /\ \A i \in 1..Len(found.packets) : Len(found.packets[i].cmds) <= MaxCommands
LEMMA ImageRead ==
  ASSUME NEW s \in Sources, NEW d \in Disks, NEW o, Sound(s, d, o)
  PROVE  ReadAsFound(Image(s, d, o), s, d, o)
<1> DEFINE found == Analysis[s][d[s]][o]
           n == Len(found.packets)
           x == HeaderOf(s, d, o)
           c == Cutting(found, n)
           body == Complete(c, x)
           dirs == DirectoriesOf(c, x, n)
           f == Image(s, d, o)
           flat == WrittenPackets(found.coding, found.packets, found.blocks)
           blk == WriteDataBlocksDefSection(x.blocks)
           prop == WriteEsPropertiesSection(x)
           p0 == IF n = 0 THEN 0 ELSE HeaderLength
           e0 == Len(Ended(c))
           b0 == IF x.blocks = <<>> THEN 0 ELSE Len(Described(c, x))
           w0 == Len(WithBlocks(c, x))
<1>1. /\ IsFinding(found) /\ FindingFits(found)
      /\ \A i \in 1..n : Len(found.packets[i].cmds) <= MaxCommands
  BY DEF Sound
<1>2. /\ PropertiesFit(x) /\ Len(x.sources) = 1 + Len(found.pictures)
      /\ x.sources[1] = [name |-> s, crc |-> d[s].head]
  BY <1>1, HeaderFits
<1>3. /\ x.coding = found.coding /\ x.flags = ComputeFlags(o) /\ x.ptsRef = found.ptsRef
      /\ x.endPts = found.endPts /\ x.bitrate = found.bitrate /\ x.blocks = found.blocks /\ x.fmt = found.fmt
  BY DEF HeaderOf
<1>4. f = UpdateEsmsHeader(body, dirs) BY DEF Image
<1> HIDE DEF found, x, f
<1>5. CuttingPlaced(found) BY <1>1, CuttingHolds
<1>6. /\ flat \in Seq(Byte) /\ c \in Seq(Byte) /\ Ended(c) \in Seq(Byte)
      /\ HeaderLength <= e0 /\ e0 <= HeaderLength + 2 + Len(flat)
      /\ n # 0 => /\ At(Ended(c), HeaderLength, <<PesMagic>>)
                  /\ At(Ended(c), HeaderLength + 1, flat \o <<EndMarker>>)
  BY <1>5 DEF CuttingPlaced
<1>7. IsHeader(x) BY <1>2 DEF PropertiesFit
<1> HIDE DEF c
<1>8. Placed(c, x, body) BY <1>6, <1>7, SectionsPlaced
<1>9. /\ body \in Seq(Byte) /\ e0 \in Nat /\ Len(Described(c, x)) \in Nat /\ w0 \in Nat
      /\ e0 <= Len(Described(c, x)) /\ Len(Described(c, x)) <= w0 /\ w0 <= Len(body)
      /\ w0 <= e0 + Len(prop) + Len(blk)
      /\ At(body, e0, prop)
      /\ x.blocks # <<>> => At(body, Len(Described(c, x)), blk)
      /\ At(body, w0, WriteEsCodecSpecParametersSection(x))
      /\ \A p \in Nat, t \in Seq(Byte) : At(Ended(c), p, t) => At(body, p, t)
  BY <1>8 DEF Placed
<1>10. found.packets \in Seq(ToSet(found.packets)) /\ n \in Nat /\ DOMAIN found.packets = 1..n
  <2>1. found.packets \in Seq(ToSet(found.packets)) BY <1>1 DEF IsFinding
  <2> QED BY <2>1
<1>11. Wide(w0)
  <2>1. Wide(LengthOf(found)) BY <1>1 DEF FindingFits
  <2>2. LengthOf(found) = HeaderLength + 34 + 9 * (1 + Len(found.pictures)) + Len(blk) + Len(flat)
    BY <1>3, <1>10 DEF LengthOf, WrittenPackets
  <2>3. prop \in Seq(Byte) /\ Len(prop) = 32 + 9 * Len(x.sources) BY <1>2, PropertiesRead
  <2>4. found.pictures \in Seq(Sources) BY <1>1 DEF IsFinding
  <2>5. Len(found.pictures) \in Nat /\ Len(flat) \in Nat /\ HeaderLength \in Nat BY <1>6, <2>4, HeaderBytes
  <2>6. blk \in Seq(Byte) BY <1>7, BlocksBytes DEF IsHeader
  <2>7. Len(blk) \in Nat BY <2>6
  <2> DEFINE l == Len(found.pictures)
             k == Len(flat)
             b == Len(blk)
             r == Len(prop)
  <2>8. l \in Nat /\ k \in Nat /\ b \in Nat /\ r = 32 + 9 * (1 + l) /\ w0 <= e0 + r + b /\ e0 <= HeaderLength + 2 + k
        /\ LengthOf(found) = HeaderLength + 34 + 9 * (1 + l) + b + k
    BY <1>2, <1>6, <1>9, <2>2, <2>3, <2>5, <2>7
  <2> HIDE DEF l, k, b, r, w0, e0
  <2>9. w0 <= LengthOf(found) BY <1>9, <2>5, <2>8
  <2> QED BY <1>9, <2>1, <2>9, WideBelow
<1> DEFINE y0 == Len(Described(c, x))
<1>12. HeaderLength \in Nat \ {0} /\ y0 \in Nat \ {0} /\ HeaderLength <= y0 /\ HeaderLength <= w0
       /\ HeaderLength <= Len(body)
  <2>1. HeaderLength \in Nat \ {0} /\ Len(body) \in Nat BY <1>9, HeaderBytes
  <2> HIDE DEF e0, w0, y0, body
  <2> QED BY <1>6, <1>9, <2>1 DEF y0
<1>13. Wide(HeaderLength) /\ Wide(e0) /\ Wide(y0)
  <2>1. e0 <= w0 BY <1>9
  <2> HIDE DEF e0, w0, y0
  <2> QED BY <1>9, <1>11, <1>12, <2>1, WideBelow DEF y0
<1>14. OffsetsAs(dirs, p0, e0, b0, w0)
  <2> HIDE DEF n
  <2> QED BY <1>9, <1>12, DirectoryOffsets
<1> HIDE DEF body, dirs
<1>15. /\ f \in Seq(Byte)
       /\ \A q \in Nat, t \in Seq(Byte) : q >= HeaderLength /\ At(body, q, t) => At(f, q, t)
       /\ GetDirectoryOffset(f, DirPesCutting) = p0 /\ GetDirectoryOffset(f, DirProp) = e0
       /\ GetDirectoryOffset(f, DirDataBlk) = b0 /\ GetDirectoryOffset(f, DirFmtProp) = w0
  <2>1. p0 = 0 \/ Wide(p0) BY <1>13
  <2>2. b0 = 0 \/ Wide(b0) BY <1>13
  <2> HIDE DEF p0, e0, b0, w0
  <2> QED BY <1>4, <1>9, <1>11, <1>12, <1>13, <1>14, <2>1, <2>2, OffsetsRead
<1>16. At(f, e0, prop) /\ At(f, w0, WriteEsCodecSpecParametersSection(x))
  <2>1. prop \in Seq(Byte) /\ WriteEsCodecSpecParametersSection(x) \in Seq(Byte)
    BY <1>7, PropertiesBytes, FormatBytes
  <2> HIDE DEF prop, e0, w0
  <2> QED BY <1>6, <1>9, <1>12, <1>15, <2>1
<1>17. /\ Num(f, e0, 1) = PropMagic
       /\ ParseCoding(f, e0) = x.coding /\ ParseFlags(f, e0) = x.flags /\ ParseSources(f, e0) = x.sources
       /\ Num(f, e0 + 3, 8) = x.ptsRef /\ Num(f, e0 + 11, 4) = x.bitrate /\ Num(f, e0 + 15, 8) = x.endPts
  <2> HIDE DEF e0
  <2>1. PropertiesReadAs(f, e0, x) BY <1>2, <1>9, <1>15, <1>16, PropertiesRead DEF prop
  <2> QED BY <2>1 DEF PropertiesReadAs
<1>18. e0 # 0
  <2> HIDE DEF e0
  <2> QED BY <1>6, <1>9, <1>12
<1>19. ParseEsDataBlocksDefinition(f) = x.blocks /\ (b0 # 0 => Num(f, b0, 1) = BlkMagic)
  <2>1. CASE x.blocks = <<>>
    <3>1. GetDirectoryOffset(f, DirDataBlk) = 0 /\ b0 = 0 BY <1>15, <2>1
    <3>2. ParseEsDataBlocksDefinition(f) = <<>> BY <3>1 DEF ParseEsDataBlocksDefinition
    <3> QED BY <2>1, <3>1, <3>2
  <2>2. CASE x.blocks # <<>>
    <3>1. b0 = y0 BY <2>2
    <3>2. x.blocks \in Seq(Seq(Byte)) BY <1>7 DEF IsHeader
    <3>3. blk \in Seq(Byte) BY <3>2, BlocksBytes
    <3>4. Fits(Len(x.blocks), 1) /\ \A i \in 1..Len(x.blocks) : Fits(Len(x.blocks[i]), 4)
      <4>1. Fits(Len(found.blocks), 1) /\ \A i \in DOMAIN found.blocks : Fits(Len(found.blocks[i]), 4)
        BY <1>1 DEF FindingFits
      <4>2. DOMAIN found.blocks = 1..Len(found.blocks) BY <1>3, <3>2
      <4> QED BY <1>3, <4>1, <4>2
    <3>5. At(f, y0, WriteDataBlocksDefSection(x.blocks))
      <4>1. At(body, y0, blk) BY <1>9, <2>2
      <4> HIDE DEF y0
      <4>2. At(f, y0, blk) BY <1>12, <1>15, <3>3, <4>1
      <4> QED BY <4>2
    <3>6. GetDirectoryOffset(f, DirDataBlk) = y0 BY <1>15, <3>1
    <3> HIDE DEF y0, b0
    <3> QED BY <1>12, <1>15, <3>1, <3>2, <3>4, <3>5, <3>6, BlocksRead
  <2> QED BY <2>1, <2>2
<1>20. /\ DetermineType(x.coding) # ES_HDMV => Num(f, w0, 1) = FmtMagic
       /\ SameFormat(ParseEsFmtProperties(f, x.coding), x.fmt, x.coding)
  <2>1. x.coding \in Codings /\ FormatFits(x.fmt, x.coding) BY <1>1, <1>3, <1>7 DEF IsHeader, FindingFits
  <2> HIDE DEF w0
  <2> QED BY <1>9, <1>15, <1>16, <2>1, FormatRead
<1>21. found.packets = <<>> <=> n = 0 BY <1>10, EmptySeq
<1>22. ASSUME n # 0
       PROVE  /\ p0 # 0 /\ Num(f, p0, 1) = PesMagic
              /\ Len(ParsePesPackets(f, x.coding)) = n
              /\ \A i \in 1..n : SamePacket(ParsePesPackets(f, x.coding)[i], found.packets[i], found.blocks)
  <2>1. p0 = HeaderLength BY <1>22
  <2>2. PesMagic \in 0..31 /\ EndMarker \in 0..31 BY DEF PesMagic, EndMarker
  <2>3. <<PesMagic>> \in Seq(Byte) /\ <<EndMarker>> \in Seq(Byte) BY <2>2, OneByte
  <2>4. flat \o <<EndMarker>> \in Seq(Byte)
    <3> DEFINE z == <<EndMarker>>
    <3>1. flat \in Seq(Byte) /\ z \in Seq(Byte) BY <1>6, <2>3
    <3> HIDE DEF z
    <3>2. flat \o z \in Seq(Byte) BY <3>1, Joined
    <3> QED BY <3>2 DEF z
  <2>5. HeaderLength + 1 \in Nat /\ HeaderLength + 1 >= HeaderLength BY <1>12
  <2> DEFINE t == flat \o <<EndMarker>>
             m == <<PesMagic>>
             k == HeaderLength + 1
  <2>6. At(Ended(c), HeaderLength, m) /\ At(Ended(c), k, t) BY <1>6, <1>22
  <2>7. m \in Seq(Byte) /\ t \in Seq(Byte) /\ k \in Nat /\ k >= HeaderLength BY <2>3, <2>4, <2>5
  <2> HIDE DEF t, m, k
  <2>8. At(body, HeaderLength, m) /\ At(body, k, t) BY <1>9, <1>12, <2>6, <2>7
  <2>9. HeaderLength \in Nat /\ HeaderLength >= HeaderLength BY <1>12
  <2>10. At(f, HeaderLength, m) /\ At(f, k, t) BY <1>15, <2>7, <2>8, <2>9
  <2>11. Num(f, HeaderLength, 1) = PesMagic BY <1>15, <2>2, <2>9, <2>10, CodeAt DEF m
  <2>12. AllPackets(found.coding, found.packets, found.blocks)
    <3>1. Len(found.packets) <= MaxPackets /\ \A i \in DOMAIN found.packets :
            PacketFits(found.packets[i], found.coding, found.blocks)
      BY <1>1 DEF FindingFits
    <3>2. \A i \in DOMAIN found.packets : IsPacket(found.packets[i], found.blocks) BY <1>1 DEF IsFinding
    <3>3. \A i \in 1..n : Fits(Len(found.packets[i].cmds), 1)
      <4> SUFFICES ASSUME NEW i \in 1..n PROVE Fits(Len(found.packets[i].cmds), 1) OBVIOUS
      <4>1. IsPacket(found.packets[i], found.blocks) /\ Len(found.packets[i].cmds) <= MaxCommands
        BY <1>1, <1>10, <3>2
      <4> DEFINE cmds == found.packets[i].cmds
      <4>2. cmds \in Seq(ToSet(cmds)) BY <4>1 DEF IsPacket
      <4>3. Len(cmds) \in Nat /\ Len(cmds) <= MaxCommands BY <4>1, <4>2
      <4> HIDE DEF cmds
      <4>4. Fits(MaxCommands, 1) /\ Weight[1] \in Nat BY FieldsAssumption, Weights
      <4>5. Fits(Len(cmds), 1) BY <4>3, <4>4 DEF Fits
      <4> QED BY <4>5 DEF cmds
    <3> QED BY <1>10, <3>1, <3>2, <3>3 DEF AllPackets, IsASequence
  <2>13. found.coding \in Codings /\ found.blocks \in Seq(Seq(Byte)) BY <1>3, <1>7 DEF IsHeader
  <2>14. GetDirectoryOffset(f, DirPesCutting) = HeaderLength BY <1>15, <2>1
  <2>15. At(f, GetDirectoryOffset(f, DirPesCutting) + 1,
            WrittenPackets(found.coding, found.packets, found.blocks) \o <<EndMarker>>)
    BY <2>10, <2>14 DEF t, k
  <2> DEFINE packets == found.packets
  <2>17. AllPackets(found.coding, packets, found.blocks) BY <2>12
  <2>18. GetDirectoryOffset(f, DirPesCutting) \in Nat BY <2>9, <2>14
  <2>16. /\ Len(ParsePesPackets(f, found.coding)) = Len(packets)
         /\ \A i \in 1..Len(packets) : SamePacket(ParsePesPackets(f, found.coding)[i], packets[i], found.blocks)
    <3> HIDE DEF packets
    <3> QED BY <1>15, <2>13, <2>15, <2>17, <2>18, PacketsRead DEF packets
  <2> QED BY <1>3, <1>12, <2>1, <2>11, <2>16
<1> HIDE DEF p0, e0, b0, w0, n
<1>26. 1 \in DOMAIN x.sources
  <2> DEFINE sources == x.sources
             l == Len(found.pictures)
  <2>1. sources \in Seq(SourceRecords) BY <1>7 DEF IsHeader
  <2>2. found.pictures \in Seq(Sources) BY <1>1 DEF IsFinding
  <2>3. l \in Nat /\ Len(sources) = 1 + l BY <1>2, <2>2
  <2> HIDE DEF sources, l
  <2>4. 1 \in DOMAIN sources BY <2>1, <2>3
  <2> QED BY <2>4 DEF sources
<1>23. HasSection(f, DirProp, PropMagic) BY <1>15, <1>17, <1>18 DEF HasSection
<1>24. CASE n = 0
  <2>1. GetDirectoryOffset(f, DirPesCutting) = 0 BY <1>15, <1>24 DEF p0
  <2>2. ~Parsable(f) BY <2>1 DEF Parsable, HasSection
  <2> QED BY <1>2, <1>3, <1>15, <1>17, <1>21, <1>23, <1>24, <1>26, <2>2 DEF ReadAsFound, found, f
<1>25. CASE n # 0
  <2>1. HasSection(f, DirPesCutting, PesMagic) BY <1>15, <1>22, <1>25 DEF HasSection
  <2>2. IsPresentDirectory(f, DirDataBlk) => HasSection(f, DirDataBlk, BlkMagic)
    BY <1>15, <1>19 DEF IsPresentDirectory, HasSection
  <2>3. DetermineType(x.coding) # ES_HDMV => HasSection(f, DirFmtProp, FmtMagic)
    <3>1. w0 # 0 BY <1>9, <1>12
    <3> QED BY <1>15, <1>20, <3>1 DEF HasSection
  <2>4. Parsable(f) BY <1>15, <1>17, <1>23, <2>1, <2>2, <2>3 DEF Parsable
  <2>5. SameScript(ParseScript(f), found)
    <3> DEFINE r == ParseScript(f)
    <3>1. /\ r.coding = x.coding /\ r.bitrate = x.bitrate /\ r.ptsRef = x.ptsRef /\ r.endPts = x.endPts
          /\ r.fmt = ParseEsFmtProperties(f, x.coding) /\ r.blocks = ParseEsDataBlocksDefinition(f)
          /\ r.packets = ParsePesPackets(f, x.coding)
      BY <1>15, <1>17 DEF ParseScript, ParseEsProperties
    <3> HIDE DEF r
    <3>2. SameFormat(r.fmt, found.fmt, found.coding) BY <1>3, <1>20, <3>1
    <3>3. Len(r.packets) = n BY <1>22, <1>25, <3>1
    <3>4. \A i \in DOMAIN found.packets : SamePacket(r.packets[i], found.packets[i], found.blocks)
      BY <1>10, <1>22, <1>25, <3>1
    <3>5. r.coding = found.coding /\ r.bitrate = found.bitrate /\ r.ptsRef = found.ptsRef /\ r.endPts = found.endPts
      BY <1>3, <3>1
    <3>6. r.blocks = found.blocks BY <1>3, <1>19, <3>1
    <3> QED BY <3>2, <3>3, <3>4, <3>5, <3>6, SMTT(30) DEF SameScript, r, n
  <2> QED BY <1>2, <1>3, <1>15, <1>17, <1>21, <1>23, <1>25, <1>26, <2>4, <2>5 DEF ReadAsFound, found, f
<1> QED BY <1>24, <1>25

-----------------------------------------------------------------------------
(* What runs read, and what they leave behind.                              *)

\* What comes to its end is sound, and among the findings of its source.
LEMMA Ends ==
  ASSUME NEW job \in Jobs, job.source \in Sources, NEW d \in Disks, NEW o \in OptionsTried(job.options),
         GoesToItsEnd(job.source, d, o)
  PROVE  /\ Sound(job.source, d, o)
         /\ Analysis[job.source][d[job.source]][o] \in Findings(job.source, d[job.source].head, ComputeFlags(o))
<1> DEFINE s == job.source
           c == d[s]
           found == Analysis[s][c][o]
<1>1. c \in Editions[s] BY DEF Disks
<1>2. s # 0 BY SourcesAssumption
<1>3. IsFinding(found) BY <1>1, <1>2, AnalysisAssumption DEF Jobs
<1>4. o \in DOMAIN Analysis[s][c] /\ FindingFits(found) BY <1>1, <1>2, FieldsAssumption, ZenonT(30) DEF Jobs
<1>5. c # NoFile /\ o.double = found.doubled
      /\ \A i \in 1..Len(found.packets) : Len(found.packets[i].cmds) <= MaxCommands
  BY DEF GoesToItsEnd
<1>6. Sound(s, d, o) BY <1>3, <1>4, <1>5, ZenonT(30) DEF Sound
<1>7. found \in {Analysis[s][c][q] : q \in {q \in DOMAIN Analysis[s][c] :
                                              /\ ComputeFlags(q) = ComputeFlags(o)
                                              /\ q.double = Analysis[s][c][q].doubled}}
  BY <1>4, <1>5
<1>8. c \in {e \in Editions[s] : e # NoFile /\ e.head = c.head} BY <1>1, <1>5
<1> HIDE DEF c, s
<1>9. found \in Findings(s, c.head, ComputeFlags(o)) BY <1>7, <1>8 DEF Findings
<1> QED BY <1>6, <1>9 DEF c, s

\* An image is read as what was found in some state of its source.
LEMMA ImageFaithful ==
  ASSUME NEW f, IsAnImage(f)
  PROVE  \E s \in Sources, d \in Disks : \E o :
           /\ d[s] # NoFile /\ ReadAsFound(f, s, d, o)
           /\ Analysis[s][d[s]][o] \in Findings(s, d[s].head, ComputeFlags(o))
<1>1. PICK job \in Jobs : /\ job.source \in Sources
                          /\ \E d \in Disks, o \in OptionsTried(job.options) :
                               GoesToItsEnd(job.source, d, o) /\ f = Image(job.source, d, o)
  BY DEF IsAnImage
<1>2. PICK d \in Disks, o \in OptionsTried(job.options) :
        GoesToItsEnd(job.source, d, o) /\ f = Image(job.source, d, o)
  BY <1>1
<1>3. /\ Sound(job.source, d, o)
      /\ Analysis[job.source][d[job.source]][o] \in Findings(job.source, d[job.source].head, ComputeFlags(o))
  BY <1>1, <1>2, Ends
<1>4. ReadAsFound(f, job.source, d, o) BY <1>1, <1>2, <1>3, ImageRead
<1>5. d[job.source] # NoFile BY <1>2 DEF GoesToItsEnd
<1> QED BY <1>1, <1>2, <1>3, <1>4, <1>5

\* A script that is parsed was made under options that look like those of its stream, and its
\* sources have not changed since.
Accepted(f, job) == ParseFlags(f, GetDirectoryOffset(f, DirProp)) = ComputeFlags(job.options)
Readings == /\ pc = "parse" => Accepted(files[Name], Job)
            /\ \A i \in 1..Len(used) : Accepted(used[i], run.jobs[i]) /\ CanParse(used[i])

LEMMA AcceptedToParse ==
  ASSUME Inv, Inv', Images, Readings, [Next]_vars, pc' = "parse"
  PROVE  Accepted(files[Name], Job)'
<1>1. CASE UNCHANGED vars
  <2>1. files' = files /\ pc' = pc /\ Same BY <1>1 DEF vars, Same
  <2>2. Job' = Job /\ Name' = Name BY <2>1, SameStream
  <2>3. Accepted(files[Name], Job) BY <2>1 DEF Readings
  <2> QED BY <2>1, <2>2, <2>3 DEF Accepted
<1>2. CASE CheckScriptFile
  <2>1. pc = "check" /\ ~MustGenerate /\ files' = files /\ Same BY <1>2 DEF CheckScriptFile, Same
  <2>2. Job' = Job /\ Name' = Name BY <2>1, SameStream
  <2>3. IsAValidEsmsFile(Name, ComputeFlags(Job.options)) BY <2>1 DEF MustGenerate
  <2>4. Accepted(files[Name], Job) BY <2>3 DEF IsAValidEsmsFile, Accepted
  <2> QED BY <2>1, <2>2, <2>4 DEF Accepted
<1>3. CASE MarkCompleted
  <2>1. /\ pc = "mark" /\ Same
        /\ files' = [files EXCEPT ![Name] = UpdateEsmsHeader(files[Name], h.dirs)]
    BY <1>3 DEF MarkCompleted, Same
  <2>2. Job' = Job /\ Name' = Name BY <2>1, SameStream
  <2>3. Begun /\ Doubling BY <2>1 DEF Images, Writing
  <2>4. /\ Job \in Jobs /\ Job.source \in Sources /\ disk \in Disks /\ h.options \in OptionsTried(Job.options)
        /\ GoesToItsEnd(Job.source, disk, h.options)
        /\ UpdateEsmsHeader(files[Name], h.dirs) = Image(Job.source, disk, h.options)
    BY <2>1, <2>3, MarkMakesImage
  <2>5. Name \in DOMAIN files BY <2>1 DEF Inv, UnderConstruction, Writing
  <2> DEFINE f == Image(Job.source, disk, h.options)
  <2>6. files'[Name] = f BY <2>1, <2>4, <2>5
  <2>7. Sound(Job.source, disk, h.options) BY <2>4, Ends
  <2>8. ReadAsFound(f, Job.source, disk, h.options) BY <2>4, <2>7, ImageRead
  <2>9. ComputeFlags(h.options) = ComputeFlags(Job.options) BY <2>4, TimingOptions
  <2> HIDE DEF f
  <2>10. Accepted(f, Job) BY <2>8, <2>9 DEF ReadAsFound, Accepted
  <2> QED BY <2>2, <2>6, <2>10 DEF Accepted
<1> QED BY <1>1, <1>2, <1>3 DEF Next, Step, Generate, EditSource, StartRun, Search, CreateScript,
      CreateScriptFails, WritePacket, TooManyCommands, Restart, AddEsmsFileEnd, UseScript, BrokenScript, FinishRun,
      FailRun, Interrupted

LEMMA ReadingsStep == Inv /\ Inv' /\ Images /\ Readings /\ [Next]_vars => Readings'
<1> SUFFICES ASSUME Inv, Inv', Images, Readings, [Next]_vars PROVE Readings' OBVIOUS
<1>1. pc' = "parse" => Accepted(files[Name], Job)' BY AcceptedToParse
<1>2. ASSUME NEW i \in 1..Len(used') PROVE Accepted(used'[i], run'.jobs[i]) /\ CanParse(used[i])'
  <2>1. CASE UseScript
    <3>1. /\ used' = Append(used, files[Name]) /\ pc = "parse" /\ CanParse(files[Name])
          /\ disk' = disk /\ run' = run
      BY <2>1 DEF UseScript
    <3>2. used \in Seq(Seq(Byte)) /\ files[Name] \in Seq(Byte) BY <3>1 DEF Inv, Streams, Contents, UnderConstruction
    <3>3. (i \in 1..Len(used) /\ used'[i] = used[i]) \/ (i = Len(used) + 1 /\ used'[i] = files[Name])
      BY <3>1, <3>2
    <3>4. CASE i \in 1..Len(used) /\ used'[i] = used[i]
      BY <3>1, <3>4, SMTT(30) DEF Readings, CanParse, IsValidSourceFile
    <3>5. CASE i = Len(used) + 1 /\ used'[i] = files[Name]
      <4>1. Accepted(files[Name], run.jobs[i]) BY <3>1, <3>5 DEF Readings, Job, Cur
      <4> QED BY <3>1, <3>5, <4>1 DEF CanParse, IsValidSourceFile
    <3> QED BY <3>3, <3>4, <3>5
  <2>2. CASE ~UseScript
    <3>1. (used' = used /\ disk' = disk /\ run' = run) \/ used' = <<>> \/ (pc = "idle" /\ used' = used)
      BY <2>2 DEF Next, Step, Generate, EditSource, StartRun, Search, CheckScriptFile, CreateScript,
         CreateScriptFails, WritePacket, TooManyCommands, Restart, AddEsmsFileEnd, MarkCompleted, BrokenScript,
         FinishRun, FailRun, Interrupted, vars
    <3>2. pc = "idle" => used = <<>> BY DEF Inv, Streams
    <3>3. used' # <<>> BY <1>2
    <3>4. used' = used /\ disk' = disk /\ run' = run BY <3>1, <3>2, <3>3
    <3> QED BY <3>4, SMTT(30) DEF Readings, CanParse, IsValidSourceFile
  <2> QED BY <2>1, <2>2
<1> QED BY <1>1, <1>2 DEF Readings, Accepted, CanParse, IsValidSourceFile

\* The source that a script tells first.  A script that is found under a name of its own for a
\* source, on the disk or by a stream of the run, tells that source: whoever wrote it had that
\* name from genEsmsFilename() or from the user.
SourceTold(f) == ParseSources(f, GetDirectoryOffset(f, DirProp))[1].name
NamedFor(name, job) == name = job.script \/ \E k \in 1..MaxIncrement : name = GenEsmsFilename(job.source, k - 1)
Owned ==
  /\ \A i \in 1..Len(used) : run \in Runs /\ i \in 1..Len(run.jobs)
  /\ \A i \in 1..Len(names) : NamedFor(names[i], run.jobs[i])
  /\ \A n \in DOMAIN files, s \in Sources : IsOwnName(n, s) /\ Marked(files[n]) => SourceTold(files[n]) = s
  /\ \A i \in 1..Len(used), s \in Sources : IsOwnName(names[i], s) => SourceTold(used[i]) = s

LEMMA FoundName == ASSUME NEW job, MaxIncrement \in Nat \ {0} PROVE NamedFor(FindValidEsScript(job), job)
<1> DEFINE tried == Candidates(job)
           n == Len(tried)
           given == IF job.script = NoScript THEN <<>> ELSE <<job.script>>
           own == [i \in 1..MaxIncrement |-> GenEsmsFilename(job.source, i - 1)]
           S == {job.script} \union {GenEsmsFilename(job.source, i - 1) : i \in 1..MaxIncrement}
           Chosen(i) == /\ i = n \/ IsAcceptable(tried[i], job)
                        /\ \A j \in 1..(i - 1) : ~IsAcceptable(tried[j], job)
<1>1. tried \in Seq(S) /\ n \in Nat \ {0} /\ DOMAIN tried = 1..n
  <2>1. given \in Seq(S)
    <3>1. job.script \in S OBVIOUS
    <3> HIDE DEF S
    <3>2. <<>> \in Seq(S) /\ <<job.script>> \in Seq(S) BY <3>1
    <3> QED BY <3>2
  <2>2. own \in Seq(S) /\ Len(own) = MaxIncrement
    <3>1. \A i \in 1..MaxIncrement : GenEsmsFilename(job.source, i - 1) \in S OBVIOUS
    <3> HIDE DEF S
    <3> QED BY <3>1
  <2>3. tried = given \o own BY DEF Candidates
  <2> HIDE DEF given, own, tried, S
  <2>4. tried \in Seq(S) /\ Len(tried) = Len(given) + Len(own) BY <2>1, <2>2, <2>3, ConcatProperties
  <2> QED BY <2>1, <2>2, <2>4
<1> HIDE DEF tried, n, given, own
<1>2. \A i \in 1..n : NamedFor(tried[i], job)
  <2>1. \A x \in S : NamedFor(x, job) BY DEF NamedFor
  <2> HIDE DEF S
  <2> QED BY <1>1, <2>1
<1>3. \E i \in 1..n : Chosen(i)
  <2> DEFINE Good == {i \in 1..n : i = n \/ IsAcceptable(tried[i], job)}
  <2>1. n \in Good BY <1>1
  <2>2. Good \in SUBSET Nat OBVIOUS
  <2> HIDE DEF Good
  <2>3. PICK i \in Good : \A j \in Good : i <= j BY <2>1, <2>2, Smallest
  <2> USE DEF Good
  <2>4. i \in 1..n /\ (i = n \/ IsAcceptable(tried[i], job)) OBVIOUS
  <2>5. \A j \in 1..(i - 1) : ~IsAcceptable(tried[j], job) BY <1>1, <2>3, <2>4
  <2> QED BY <2>4, <2>5
<1>4. FindValidEsScript(job) = tried[CHOOSE i \in 1..n : Chosen(i)]
  BY <1>1 DEF FindValidEsScript, tried, n
<1> HIDE DEF Chosen
<1> QED BY <1>2, <1>3, <1>4

\* Only a stream of the source writes under its own name.
LEMMA Owner ==
  ASSUME NEW r \in Runs, NEW i \in 1..Len(r.jobs), NEW name, NamedFor(name, r.jobs[i]),
         NEW s \in Sources, IsOwnName(name, s), r.jobs[i].source \in Sources
  PROVE  r.jobs[i].source = s
<1>1. r.jobs[i].source # 0 BY SourcesAssumption
<1>2. CASE name = r.jobs[i].script BY <1>1, <1>2 DEF IsOwnName
<1>3. CASE \E k \in 1..MaxIncrement : name = GenEsmsFilename(r.jobs[i].source, k - 1)
  BY <1>3 DEF IsOwnName, GenEsmsFilename
<1> QED BY <1>2, <1>3 DEF NamedFor

LEMMA MarkOwns ==
  ASSUME Inv, Images, Owned, pc = "mark", NEW s \in Sources, IsOwnName(Name, s)
  PROVE  SourceTold(UpdateEsmsHeader(files[Name], h.dirs)) = s
<1>1. pc = "mark" OBVIOUS
<1>2. Begun /\ Doubling BY <1>1 DEF Images, Writing
<1>3. /\ Job \in Jobs /\ Job.source \in Sources /\ disk \in Disks /\ h.options \in OptionsTried(Job.options)
      /\ GoesToItsEnd(Job.source, disk, h.options)
      /\ UpdateEsmsHeader(files[Name], h.dirs) = Image(Job.source, disk, h.options)
  BY <1>1, <1>2, MarkMakesImage
<1> DEFINE f == Image(Job.source, disk, h.options)
<1>4. Sound(Job.source, disk, h.options) BY <1>3, Ends
<1>5. ReadAsFound(f, Job.source, disk, h.options) BY <1>3, <1>4, ImageRead
<1> HIDE DEF f
<1>6. SourceTold(f) = Job.source BY <1>5 DEF ReadAsFound, SourceTold
<1>7. Cur \in 1..Len(names) /\ run \in Runs /\ Cur \in 1..Len(run.jobs)
  BY <1>1 DEF Inv, Streams, Working, Writing, Cur
<1>8. NamedFor(Name, run.jobs[Cur]) BY <1>7 DEF Owned, Name
<1>9. Job.source = s BY <1>3, <1>7, <1>8, Owner DEF Job
<1> QED BY <1>3, <1>6, <1>9 DEF f

LEMMA OwnedStep == Inv /\ Inv' /\ Images /\ Owned /\ [Next]_vars => Owned'
<1> SUFFICES ASSUME Inv, Inv', Images, Owned, [Next]_vars PROVE Owned' OBVIOUS
<1>1. CASE UNCHANGED vars
  BY <1>1 DEF vars, Owned, NamedFor, IsOwnName, SourceTold, Marked
<1>2. CASE Next
  <2>1. ASSUME NEW i \in 1..Len(names') PROVE NamedFor(names'[i], run'.jobs[i])
    <3>1. CASE Search
      <4>1. names' = Append(names, FindValidEsScript(Job)) /\ run' = run /\ pc = "search" BY <3>1 DEF Search
      <4>2. IsASequence(names) /\ Len(names) + 1 = Cur BY <4>1 DEF Inv, Streams, Cur
      <4>3. (i \in 1..Len(names) /\ names'[i] = names[i]) \/ (i = Cur /\ names'[i] = FindValidEsScript(Job))
        BY <4>1, <4>2 DEF IsASequence
      <4>4. MaxIncrement \in Nat \ {0}
        <5>1. run \in Runs /\ Len(run.jobs) \in 1..MaxIncrement BY <4>1, RunsAssumption DEF Inv, Streams
        <5> QED BY <5>1, RunsAssumption
      <4> QED BY <4>1, <4>3, <4>4, FoundName DEF Owned, Job
    <3>2. CASE ~Search
      <4>1. (names' = names /\ run' = run) \/ names' = <<>> \/ (names' = names /\ pc = "idle")
        BY <1>2, <3>2 DEF Next, Step, Generate, EditSource, StartRun, CheckScriptFile, CreateScript,
           CreateScriptFails, WritePacket, TooManyCommands, Restart, AddEsmsFileEnd, MarkCompleted, UseScript,
           BrokenScript, FinishRun, FailRun, Interrupted
      <4>2. pc = "idle" => names = <<>> BY DEF Inv, Streams
      <4>3. names' # <<>> BY <2>1
      <4> QED BY <4>1, <4>2, <4>3 DEF Owned
    <3> QED BY <3>1, <3>2
  <2>2. ASSUME NEW n \in DOMAIN files', NEW s \in Sources, IsOwnName(n, s), Marked(files'[n])
        PROVE  SourceTold(files'[n]) = s
    <3>1. Len(files'[n]) >= 3 /\ files'[n][3] = 1
      <4>1. files'[n] \in Seq(Byte) BY DEF Inv, Contents
      <4> QED BY <2>2, <4>1 DEF Marked
    <3>2. \/ n \in DOMAIN files /\ files'[n] = files[n]
          \/ pc = "mark" /\ n = Name /\ files'[n] = UpdateEsmsHeader(files[n], h.dirs)
      BY <1>2, <3>1, NewlyMarked
    <3>3. CASE n \in DOMAIN files /\ files'[n] = files[n] BY <2>2, <3>3 DEF Owned
    <3>4. CASE pc = "mark" /\ n = Name /\ files'[n] = UpdateEsmsHeader(files[n], h.dirs)
      BY <2>2, <3>4, MarkOwns
    <3> QED BY <3>2, <3>3, <3>4
  <2>3. ASSUME NEW i \in 1..Len(used'), NEW s \in Sources, IsOwnName(names'[i], s)
        PROVE  SourceTold(used'[i]) = s
    <3>1. CASE UseScript
      <4>1. used' = Append(used, files[Name]) /\ pc = "parse" /\ names' = names BY <3>1 DEF UseScript
      <4>2. Name \in DOMAIN files /\ Marked(files[Name]) BY <4>1 DEF Inv, UnderConstruction
      <4>3. used \in Seq(Seq(Byte)) /\ files[Name] \in Seq(Byte) BY <4>2 DEF Inv, Streams, Contents
      <4>4. (i \in 1..Len(used) /\ used'[i] = used[i]) \/ (i = Cur /\ used'[i] = files[Name])
        BY <4>1, <4>3 DEF Cur
      <4>5. IsOwnName(names[i], s) BY <2>3, <4>1
      <4>6. CASE i \in 1..Len(used) /\ used'[i] = used[i] BY <4>5, <4>6 DEF Owned
      <4>7. CASE i = Cur /\ used'[i] = files[Name] BY <4>2, <4>5, <4>7 DEF Owned, Name
      <4> QED BY <4>4, <4>6, <4>7
    <3>2. CASE ~UseScript
      <4>1. (used' = used /\ names' = names) \/ used' = <<>> \/ (used' = used /\ Search)
        BY <1>2, <3>2 DEF Next, Step, Generate, EditSource, StartRun, Search, CheckScriptFile, CreateScript,
           CreateScriptFails, WritePacket, TooManyCommands, Restart, AddEsmsFileEnd, MarkCompleted, BrokenScript,
           FinishRun, FailRun, Interrupted
      <4>2. CASE used' = used /\ names' = names BY <2>3, <4>2 DEF Owned
      <4>3. CASE used' = <<>> BY <2>3, <4>3
      <4>4. CASE used' = used /\ Search
        <5>1. names' = Append(names, FindValidEsScript(Job)) /\ IsASequence(names) /\ Len(names) = Len(used)
          BY <4>4 DEF Search, Inv, Streams
        <5>2. i \in 1..Len(used) BY <4>4
        <5>3. names'[i] = names[i] BY <5>1, <5>2 DEF IsASequence
        <5> QED BY <2>3, <4>4, <5>2, <5>3 DEF Owned
      <4> QED BY <4>1, <4>2, <4>3, <4>4
    <3> QED BY <3>1, <3>2
  <2>4. ASSUME NEW i \in 1..Len(used') PROVE run' \in Runs /\ i \in 1..Len(run'.jobs)
    <3>1. CASE UseScript
      <4>1. used' = Append(used, files[Name]) /\ pc = "parse" /\ run' = run BY <3>1 DEF UseScript
      <4>2. run \in Runs /\ Len(used) < Len(run.jobs) /\ used \in Seq(Seq(Byte))
        BY <4>1 DEF Inv, Streams, Working
      <4>3. Len(run.jobs) \in Nat BY <4>2, RunsAssumption
      <4> QED BY <4>1, <4>2, <4>3
    <3>2. CASE ~UseScript
      <4>1. (used' = used /\ run' = run) \/ used' = <<>> \/ (used' = used /\ pc = "idle")
        BY <1>2, <3>2 DEF Next, Step, Generate, EditSource, StartRun, Search, CheckScriptFile, CreateScript,
           CreateScriptFails, WritePacket, TooManyCommands, Restart, AddEsmsFileEnd, MarkCompleted, BrokenScript,
           FinishRun, FailRun, Interrupted
      <4>2. pc = "idle" => used = <<>> BY DEF Inv, Streams
      <4>3. used' # <<>> BY <2>4
      <4> QED BY <2>4, <4>1, <4>2, <4>3 DEF Owned
    <3> QED BY <3>1, <3>2
  <2> QED BY <2>1, <2>2, <2>3, <2>4 DEF Owned, NamedFor, SourceTold, Marked
<1> QED BY <1>1, <1>2

LEMMA UsedFaithful == Inv /\ Images /\ Readings /\ Owned => UsedIsFaithful
<1> SUFFICES ASSUME Inv, Images, Readings, Owned, NEW i \in DOMAIN used
             PROVE  LET job == run.jobs[i]
                        read == ParseScript(used[i])
                        sources == read.sources
                    IN  /\ \A j \in DOMAIN sources : disk[sources[j].name].head = sources[j].crc
                        /\ job.source # 0 /\ IsOwnName(names[i], job.source) => sources[1].name = job.source
                        /\ \E found \in Findings(sources[1].name, disk[sources[1].name].head,
                                                  ComputeFlags(job.options)) : SameScript(read, found)
  BY DEF UsedIsFaithful
<1> DEFINE f == used[i]
           p == GetDirectoryOffset(f, DirProp)
           read == ParseScript(f)
           sources == ParseSources(f, p)
<1>1. i \in 1..Len(used) BY DEF Inv, Streams
<1>2. Accepted(f, run.jobs[i]) /\ CanParse(f) BY <1>1 DEF Readings
<1>3. IsAnImage(f) BY DEF Images, UsedAreImages
<1>12. PICK s \in Sources, d \in Disks :
        \E o : /\ d[s] # NoFile /\ ReadAsFound(f, s, d, o)
               /\ Analysis[s][d[s]][o] \in Findings(s, d[s].head, ComputeFlags(o))
  BY <1>3, ImageFaithful
<1>4. PICK o : /\ d[s] # NoFile /\ ReadAsFound(f, s, d, o)
                /\ Analysis[s][d[s]][o] \in Findings(s, d[s].head, ComputeFlags(o))
  BY <1>12
<1>5. read.sources = sources BY DEF ParseScript, ParseEsProperties
<1>6. Parsable(f) /\ \A j \in DOMAIN sources : disk[sources[j].name].head = sources[j].crc
  BY <1>2 DEF CanParse, IsValidSourceFile
<1>7. ParseFlags(f, p) = ComputeFlags(run.jobs[i].options) BY <1>2 DEF Accepted
<1> DEFINE found == Analysis[s][d[s]][o]
<1> HIDE DEF f, p, read, sources
<1>8. /\ ParseFlags(f, p) = ComputeFlags(o)
      /\ 1 \in DOMAIN sources /\ sources[1] = [name |-> s, crc |-> d[s].head]
      /\ IF found.packets = <<>> THEN ~Parsable(f) ELSE Parsable(f) /\ SameScript(read, found)
  BY <1>4 DEF ReadAsFound, p, sources, read
<1>9. SameScript(read, found) BY <1>6, <1>8
<1>10. sources[1].name = s /\ disk[s].head = d[s].head BY <1>6, <1>8
<1>11. found \in Findings(sources[1].name, disk[sources[1].name].head, ComputeFlags(run.jobs[i].options))
  BY <1>4, <1>7, <1>8, <1>10
<1>13. ASSUME run.jobs[i].source # 0, IsOwnName(names[i], run.jobs[i].source)
       PROVE  sources[1].name = run.jobs[i].source
  <2>1. run \in Runs /\ i \in 1..Len(run.jobs) BY <1>1 DEF Owned
  <2>2. run.jobs[i].source \in Sources BY <1>13, <2>1, RunsAssumption
  <2> QED BY <1>1, <1>13, <2>2 DEF Owned, SourceTold, sources, p, f
<1> QED BY <1>5, <1>6, <1>9, <1>11, <1>13 DEF read, f

LEMMA MarkedFaithful == Inv /\ Images => MarkedIsWhole
<1> SUFFICES ASSUME Inv, Images, NEW n \in DOMAIN files, Len(files[n]) >= HeaderLength, files[n][3] = 1
             PROVE  LET f == files[n]
                        properties == ParseEsProperties(f, GetDirectoryOffset(f, DirProp))
                        source == properties.sources[1]
                        found == Findings(source.name, source.crc, properties.flags)
                    IN  /\ HasSection(f, DirProp, PropMagic)
                        /\ IF Parsable(f) THEN \E x \in found : SameScript(ParseScript(f), x)
                                          ELSE \E x \in found : x.packets = <<>>
  BY DEF MarkedIsWhole
<1> DEFINE f == files[n]
           p == GetDirectoryOffset(f, DirProp)
           properties == ParseEsProperties(f, p)
<1>1. IsAnImage(f)
  <2>1. f \in Seq(Byte) BY DEF Inv, Contents
  <2> HIDE DEF f
  <2>3. HeaderLength \in Nat /\ HeaderLength >= 40 /\ Len(f) >= HeaderLength BY HeaderBytes DEF f
  <2>4. Len(f) >= 4 /\ f[3] = 1 BY <2>1, <2>3 DEF f
  <2>2. Marked(f) BY <2>4 DEF Marked
  <2> QED BY <2>2 DEF Images, MarkedAreImages, f
<1>6. PICK s \in Sources, d \in Disks :
        \E o : /\ d[s] # NoFile /\ ReadAsFound(f, s, d, o)
               /\ Analysis[s][d[s]][o] \in Findings(s, d[s].head, ComputeFlags(o))
  BY <1>1, ImageFaithful
<1>2. PICK o : /\ d[s] # NoFile /\ ReadAsFound(f, s, d, o)
                /\ Analysis[s][d[s]][o] \in Findings(s, d[s].head, ComputeFlags(o))
  BY <1>6
<1>3. properties.sources = ParseSources(f, p) /\ properties.flags = ParseFlags(f, p) BY DEF ParseEsProperties
<1> DEFINE found == Analysis[s][d[s]][o]
<1> HIDE DEF f, p, properties
<1>4. /\ HasSection(f, DirProp, PropMagic)
      /\ properties.flags = ComputeFlags(o) /\ properties.sources[1] = [name |-> s, crc |-> d[s].head]
      /\ IF found.packets = <<>> THEN ~Parsable(f) ELSE Parsable(f) /\ SameScript(ParseScript(f), found)
  BY <1>2, <1>3 DEF ReadAsFound, p
<1>5. found \in Findings(properties.sources[1].name, properties.sources[1].crc, properties.flags) BY <1>2, <1>4
<1> HIDE DEF found
<1> QED BY <1>4, <1>5 DEF properties, p, f

\* What a stream of a run reads in its script is all that the analyser found, up to each value of
\* each field, in a state of the source with the same first bytes and under options that look
\* the same, whatever was interrupted or edited before: what isAValidESMSFile() lets through and
\* the parser accepts.
THEOREM UsedAreFaithful == Spec => []UsedIsFaithful
<1>1. Init => Images /\ Readings /\ Owned
  BY DEF Init, Images, MarkedAreImages, UsedAreImages, Writing, Readings, Owned
<1>2. Inv /\ Images /\ Readings /\ Owned => UsedIsFaithful BY UsedFaithful
<1> QED BY <1>1, <1>2, ImagesStep, ReadingsStep, OwnedStep, Inductive, PTL DEF Spec

\* When no run is in progress, however the last one ended, a file with the marker of completion is
\* read as all that an analyser found in a state of its source, or is a script without packets,
\* that the parser refuses.
THEOREM MarkedAreFaithful == Spec => []MarkedIsWhole
<1>1. Init => Images
  BY DEF Init, Images, MarkedAreImages, UsedAreImages, Writing
<1>2. Inv /\ Images => MarkedIsWhole BY MarkedFaithful
<1> QED BY <1>1, <1>2, ImagesStep, Inductive, PTL DEF Spec
=============================================================================
