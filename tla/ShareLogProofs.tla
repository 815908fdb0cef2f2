--------------------------- MODULE ShareLogProofs ---------------------------
(***************************************************************************)
(* Proofs about ShareLog: the shape of files and counters, what a restart  *)
(* may leave out, that nothing counts twice, that the windows lose nothing *)
(* as long as the log is in order, and that the ring of one-second buckets *)
(* adds up to what the windows were given, for all values of the           *)
(* constants.                                                              *)
(***************************************************************************)
EXTENDS ShareLog, FiniteSetTheorems, WellFoundedInduction, NaturalsInduction, TLAPS

-----------------------------------------------------------------------------
(* Induction, as instances of well-foundedness *)

\* A set of numbers has a least one.
LEMMA LeastNumber ==
  ASSUME NEW S, S \subseteq Nat, S # {}
  PROVE  \E m \in S : \A n \in S : m <= n
<1> DEFINE R == {ss \in Nat \X Nat : ss[1] < ss[2]}
<1>1. IsWellFoundedOn(R, Nat)
  BY NatLessThanWellFounded DEF OpToRel
<1>2. PICK m \in S : \A n \in S : ~(<<n, m>> \in R)
  <2> HIDE DEF R
  <2> QED BY <1>1, WFMin
<1>3. ASSUME NEW n \in S PROVE m <= n
  <2>1. <<n, m>> \in Nat \X Nat /\ <<n, m>>[1] = n /\ <<n, m>>[2] = m
    BY <1>3
  <2>2. ~(n < m)
    BY <1>2, <2>1
  <2> QED BY <2>2
<1> QED BY <1>3

\* What holds of 0 and of the successor holds of every number.
LEMMA NumberInduction ==
  ASSUME NEW G, 0 \in G, \A n \in Nat : n \in G => n + 1 \in G
  PROVE  Nat \subseteq G
<1> SUFFICES ASSUME Nat \ G # {} PROVE FALSE
  OBVIOUS
<1>1. PICK m \in Nat \ G : \A n \in Nat \ G : m <= n
  BY LeastNumber
<1>2. m # 0 /\ m - 1 \in Nat /\ m - 1 + 1 = m /\ ~(m <= m - 1)
  OBVIOUS
<1> QED BY <1>1, <1>2

\* A recursion over numbers has a solution.
Steps(step, n, V) == step \in [1 .. n -> [V -> V]]
Solution(f, base, step, n, V) ==
  f \in [0 .. n -> V] /\ f[0] = base /\ \A i \in 1 .. n : f[i] = step[i][f[i - 1]]

LEMMA Recursion ==
  ASSUME NEW n \in Nat, NEW V, NEW base \in V, NEW step, Steps(step, n, V)
  PROVE  \E f : Solution(f, base, step, n, V)
<1>0. step \in [1 .. n -> [V -> V]]
  BY DEF Steps
<1> DEFINE G == {m \in Nat : m <= n =>
                   \E f \in [0 .. m -> V] : f[0] = base
                                            /\ \A i \in 1 .. m : f[i] = step[i][f[i - 1]]}
<1>1. 0 \in G
  <2> DEFINE f == [i \in 0 .. 0 |-> base]
  <2>1. f \in [0 .. 0 -> V] /\ f[0] = base /\ \A i \in 1 .. 0 : FALSE
    OBVIOUS
  <2> HIDE DEF f
  <2> QED BY <2>1
<1>2. ASSUME NEW m \in Nat, m \in G PROVE m + 1 \in G
  <2> SUFFICES ASSUME m + 1 <= n
               PROVE  \E f \in [0 .. m + 1 -> V] :
                        f[0] = base /\ \A i \in 1 .. m + 1 : f[i] = step[i][f[i - 1]]
    OBVIOUS
  <2>1. PICK f \in [0 .. m -> V] : f[0] = base /\ \A i \in 1 .. m : f[i] = step[i][f[i - 1]]
    BY <1>2
  <2>2. step[m + 1][f[m]] \in V
    <3>1. m + 1 \in 1 .. n /\ f[m] \in V
      OBVIOUS
    <3> QED BY <1>0, <3>1
  <2>3. PICK v : v = step[m + 1][f[m]]
    OBVIOUS
  <2> DEFINE g == [i \in 0 .. m + 1 |-> IF i = m + 1 THEN v ELSE f[i]]
  <2>4. g \in [0 .. m + 1 -> V] /\ g[0] = base
    BY <2>1, <2>2, <2>3
  <2>5. ASSUME NEW i \in 1 .. m + 1 PROVE g[i] = step[i][g[i - 1]]
    <3>1. g[i - 1] = f[i - 1] /\ i - 1 \in 0 .. m
      OBVIOUS
    <3>2. CASE i = m + 1
      <4>1. i - 1 = m /\ g[i] = v
        BY <3>2
      <4> QED BY <3>1, <3>2, <4>1, <2>3
    <3>3. CASE i # m + 1
      <4>1. i \in 1 .. m /\ g[i] = f[i]
        BY <3>3
      <4> HIDE DEF g
      <4> QED BY <2>1, <3>1, <4>1
    <3> QED BY <3>2, <3>3
  <2> HIDE DEF g
  <2> QED BY <2>4, <2>5
<1>3. n \in G
  <2> HIDE DEF G
  <2> QED BY <1>1, <1>2, NumberInduction
<1> QED BY <1>3 DEF Solution

\* A recursion whose every step leads from good to good.
Leads(step, good, n, V) ==
  good \in [0 .. n -> SUBSET V] /\ \A i \in 1 .. n : \A x \in good[i - 1] : step[i][x] \in good[i]

LEMMA Iteration ==
  ASSUME NEW n \in Nat, NEW V, NEW good, NEW base \in good[0], NEW step, Leads(step, good, n, V)
  PROVE  \E f : Solution(f, base, step, n, V) /\ \A i \in 0 .. n : f[i] \in good[i]
<1> /\ good \in [0 .. n -> SUBSET V]
    /\ \A i \in 1 .. n : \A x \in good[i - 1] : step[i][x] \in good[i]
  BY DEF Leads
<1>0. 0 \in 0 .. n /\ base \in V /\ \A i \in 1 .. n : i - 1 \in 0 .. n /\ i \in 0 .. n
  OBVIOUS
<1> DEFINE kept == [i \in 1 .. n |-> [x \in V |-> IF step[i][x] \in V THEN step[i][x] ELSE x]]
<1>1. \A i \in 1 .. n : \A x \in V : kept[i][x] = IF step[i][x] \in V THEN step[i][x] ELSE x
  OBVIOUS
<1>2. Steps(kept, n, V)
  BY DEF Steps
<1> HIDE DEF kept
<1>3. PICK f \in [0 .. n -> V] : f[0] = base /\ \A i \in 1 .. n : f[i] = kept[i][f[i - 1]]
  <2>1. \E f : Solution(f, base, kept, n, V)
    BY <1>0, <1>2, Recursion
  <2> QED BY <2>1 DEF Solution
<1> DEFINE G == {m \in Nat : m <= n => f[m] \in good[m]}
<1>4. 0 \in G
  BY <1>3
<1>5. ASSUME NEW i \in 1 .. n, f[i - 1] \in good[i - 1]
      PROVE  f[i] = step[i][f[i - 1]] /\ f[i] \in good[i]
  <2>1. step[i][f[i - 1]] \in good[i] /\ good[i] \subseteq V /\ f[i - 1] \in V
    BY <1>0, <1>5
  <2> QED BY <1>1, <1>3, <2>1
<1>6. ASSUME NEW m \in Nat, m \in G PROVE m + 1 \in G
  <2> SUFFICES ASSUME m + 1 <= n PROVE f[m + 1] \in good[m + 1]
    OBVIOUS
  <2>1. PICK i \in 1 .. n : i = m + 1 /\ i - 1 = m
    OBVIOUS
  <2>2. f[i - 1] \in good[i - 1]
    BY <1>6, <2>1
  <2> QED BY <1>5, <2>1, <2>2
<1>7. Nat \subseteq G
  <2> HIDE DEF G
  <2> QED BY <1>4, <1>6, NumberInduction
<1>8. \A i \in 0 .. n : f[i] \in good[i]
  BY <1>7
<1>9. \A i \in 1 .. n : f[i] = step[i][f[i - 1]]
  BY <1>0, <1>5, <1>8
<1> QED BY <1>3, <1>8, <1>9 DEF Solution

-----------------------------------------------------------------------------
(* Flattening *)

\* Prefix by prefix.
Flattens(f, seqs) ==
  f[0] = <<>> /\ \A i \in 1 .. Len(seqs) : f[i] = f[i - 1] \o seqs[i]

LEMMA EmptyIs == ASSUME NEW V, NEW s \in Seq(V), Len(s) = 0 PROVE s = <<>>
  OBVIOUS

LEMMA FlattenIs ==
  ASSUME NEW V, NEW seqs \in Seq(Seq(V))
  PROVE  \E f \in [0 .. Len(seqs) -> Seq(V)] :
           Flattens(f, seqs) /\ FlattenSeq(seqs) = f[Len(seqs)]
<1>0. PICK n \in Nat : n = Len(seqs) /\ \A i \in 1 .. n : seqs[i] \in Seq(V)
  OBVIOUS
<1> DEFINE step == [i \in 1 .. n |-> [s \in Seq(V) |-> s \o seqs[i]]]
<1>1. step \in [1 .. n -> [Seq(V) -> Seq(V)]]
  BY <1>0
<1>2. PICK f \in [0 .. n -> Seq(V)] :
        f[0] = <<>> /\ \A i \in 1 .. n : f[i] = step[i][f[i - 1]]
  <2>1. <<>> \in Seq(V) /\ n \in Nat
    OBVIOUS
  <2> HIDE DEF step
  <2>2. Steps(step, n, Seq(V))
    BY <1>1 DEF Steps
  <2>3. \E f : Solution(f, <<>>, step, n, Seq(V))
    BY <2>1, <2>2, Recursion
  <2> QED BY <2>3 DEF Solution
<1>3. ASSUME NEW i \in 1 .. n PROVE f[i] = f[i - 1] \o seqs[i]
  <2>1. f[i - 1] \in Seq(V)
    <3>1. i - 1 \in 0 .. n
      BY <1>0
    <3> QED BY <3>1
  <2>3. step[i][f[i - 1]] = f[i - 1] \o seqs[i]
    BY <2>1
  <2> HIDE DEF step
  <2> QED BY <1>2, <2>3
<1>4. Flattens(f, seqs)
  BY <1>0, <1>2, <1>3 DEF Flattens
<1>5. FlattenSeq(seqs) = f[n]
  <2>1. CASE n = 0
    <3>1. seqs = <<>>
      BY <1>0, <2>1, EmptyIs, Zenon
    <3>2. FlattenSeq(seqs) = seqs
      BY <1>0, <2>1 DEF FlattenSeq
    <3> QED BY <1>2, <2>1, <3>1, <3>2
  <2>2. CASE n # 0
    <3> DEFINE Solves(g) == g = [i \in 1 .. n |-> IF i = 1 THEN seqs[i] ELSE g[i - 1] \o seqs[i]]
    <3>1. FlattenSeq(seqs) = (CHOOSE g : Solves(g))[n]
      BY <1>0, <2>2 DEF FlattenSeq
    <3>2. \E g : Solves(g)
      <4> DEFINE h == [i \in 1 .. n |-> f[i]]
      <4>1. ASSUME NEW i \in 1 .. n
            PROVE  h[i] = IF i = 1 THEN seqs[i] ELSE h[i - 1] \o seqs[i]
        <5>1. h[i] = f[i - 1] \o seqs[i]
          BY <1>3
        <5>2. CASE i = 1
          <6>1. f[i - 1] = <<>> /\ seqs[i] \in Seq(V)
            BY <1>0, <1>2, <5>2
          <6>2. <<>> \o seqs[i] = seqs[i]
            BY <6>1
          <6> QED BY <5>1, <5>2, <6>1, <6>2
        <5>3. CASE i # 1
          <6>1. h[i - 1] = f[i - 1]
            BY <1>0, <5>3
          <6> QED BY <5>1, <5>3, <6>1
        <5> QED BY <5>2, <5>3
      <4>2. h = [i \in 1 .. n |-> h[i]]
        OBVIOUS
      <4> HIDE DEF h
      <4>3. Solves(h)
        BY <4>1, <4>2
      <4> QED BY <4>3
    <3>3. PICK g : g = (CHOOSE x : Solves(x))
      OBVIOUS
    <3>4. Solves(g)
      <4> HIDE DEF Solves
      <4> QED BY <3>2, <3>3
    <3> DEFINE G == {m \in Nat : m \in 1 .. n => g[m] = f[m]}
    <3>5. 0 \in G
      OBVIOUS
    <3>6. ASSUME NEW m \in Nat, m \in G PROVE m + 1 \in G
      <4> SUFFICES ASSUME m + 1 \in 1 .. n PROVE g[m + 1] = f[m + 1]
        OBVIOUS
      <4>1. g[m + 1] = IF m + 1 = 1 THEN seqs[m + 1] ELSE g[m] \o seqs[m + 1]
        <5>1. PICK i \in 1 .. n : i = m + 1 /\ i - 1 = m
          OBVIOUS
        <5>2. g[i] = IF i = 1 THEN seqs[i] ELSE g[i - 1] \o seqs[i]
          BY <3>4
        <5> QED BY <5>1, <5>2
      <4>2. f[m + 1] = f[m] \o seqs[m + 1]
        <5>1. PICK i \in 1 .. n : i = m + 1 /\ i - 1 = m
          OBVIOUS
        <5> QED BY <1>3, <5>1
      <4>3. CASE m = 0
        <5>1. f[m] = <<>> /\ seqs[m + 1] \in Seq(V)
          BY <1>0, <1>2, <4>3
        <5>2. <<>> \o seqs[m + 1] = seqs[m + 1]
          BY <5>1
        <5> QED BY <4>1, <4>2, <4>3, <5>1, <5>2
      <4>4. CASE m # 0
        <5>1. m \in 1 .. n /\ m + 1 # 1
          BY <4>4, <1>0
        <5>2. g[m] = f[m]
          BY <3>6, <5>1
        <5> QED BY <4>1, <4>2, <5>1, <5>2
      <4> QED BY <4>3, <4>4
    <3>7. n \in G
      <4> HIDE DEF G
      <4> QED BY <3>5, <3>6, NumberInduction
    <3>8. g[n] = f[n]
      BY <3>7, <2>2, <1>0
    <3> QED BY <3>1, <3>3, <3>8
  <2> QED BY <2>1, <2>2
<1> QED BY <1>0, <1>4, <1>5

\* Any two records, the earlier first, are in the relation E.
Chain(l, E) == \A i, j \in DOMAIN l : i < j => <<l[i], l[j]>> \in E

LEMMA Concatenation ==
  ASSUME NEW V, NEW s \in Seq(V), NEW t \in Seq(V)
  PROVE  /\ s \o t \in Seq(V) /\ Len(s \o t) = Len(s) + Len(t)
         /\ \A i \in 1 .. Len(s) : (s \o t)[i] = s[i]
         /\ \A i \in 1 .. Len(t) : (s \o t)[Len(s) + i] = t[i]
         /\ ToSet(s \o t) = ToSet(s) \cup ToSet(t)
<1>1. /\ s \o t \in Seq(V) /\ Len(s \o t) = Len(s) + Len(t)
      /\ \A i \in 1 .. Len(s) : (s \o t)[i] = s[i]
      /\ \A i \in 1 .. Len(t) : (s \o t)[Len(s) + i] = t[i]
  OBVIOUS
<1>2. \A x \in ToSet(s \o t) : x \in ToSet(s) \cup ToSet(t)
  <2> SUFFICES ASSUME NEW i \in 1 .. Len(s) + Len(t)
               PROVE  (s \o t)[i] \in ToSet(s) \cup ToSet(t)
    BY <1>1 DEF ToSet
  <2>1. CASE i <= Len(s)
    BY <2>1, <1>1 DEF ToSet
  <2>2. CASE ~(i <= Len(s))
    <3>1. i - Len(s) \in 1 .. Len(t) /\ Len(s) + (i - Len(s)) = i
      BY <2>2
    <3>2. (s \o t)[i] = t[i - Len(s)]
      BY <3>1, <1>1
    <3> QED BY <3>1, <3>2 DEF ToSet
  <2> QED BY <2>1, <2>2
<1>3. \A x \in ToSet(s) \cup ToSet(t) : x \in ToSet(s \o t)
  <2>0. \A j \in 1 .. Len(s \o t) : (s \o t)[j] \in ToSet(s \o t)
    <3>1. DOMAIN (s \o t) = 1 .. Len(s \o t)
      BY <1>1
    <3> QED BY ONLY <3>1, Zenon DEF ToSet
  <2>1. ASSUME NEW i \in 1 .. Len(s) PROVE s[i] \in ToSet(s \o t)
    <3>1. i \in 1 .. Len(s \o t) /\ (s \o t)[i] = s[i]
      BY <1>1
    <3> QED BY <2>0, <3>1
  <2>2. ASSUME NEW i \in 1 .. Len(t) PROVE t[i] \in ToSet(s \o t)
    <3>1. PICK j \in 1 .. Len(s \o t) : j = Len(s) + i
      BY <1>1
    <3>2. (s \o t)[j] = t[i]
      BY <1>1, <3>1
    <3> QED BY <2>0, <3>1, <3>2
  <2>3. DOMAIN s = 1 .. Len(s) /\ DOMAIN t = 1 .. Len(t)
    OBVIOUS
  <2>4. \A x \in ToSet(s) : x \in ToSet(s \o t)
    BY ONLY <2>1, <2>3, Zenon DEF ToSet
  <2>5. \A x \in ToSet(t) : x \in ToSet(s \o t)
    BY ONLY <2>2, <2>3, Zenon DEF ToSet
  <2> QED BY <2>4, <2>5
<1> QED BY <1>1, <1>2, <1>3

LEMMA ChainOfTwo ==
  ASSUME NEW V, NEW s \in Seq(V), NEW t \in Seq(V), NEW E, Chain(s, E), Chain(t, E),
         \A x \in ToSet(s), y \in ToSet(t) : <<x, y>> \in E
  PROVE  Chain(s \o t, E)
<1> SUFFICES ASSUME NEW i \in 1 .. Len(s) + Len(t), NEW j \in 1 .. Len(s) + Len(t), i < j
             PROVE  <<(s \o t)[i], (s \o t)[j]>> \in E
  BY Concatenation DEF Chain
<1>1. CASE j <= Len(s)
  <2>1. i \in 1 .. Len(s) /\ j \in 1 .. Len(s)
    BY <1>1
  <2>2. (s \o t)[i] = s[i] /\ (s \o t)[j] = s[j]
    BY <2>1, Concatenation
  <2> QED BY <2>1, <2>2 DEF Chain
<1>2. CASE Len(s) < i
  <2>1. PICK p \in 1 .. Len(t), q \in 1 .. Len(t) : i = Len(s) + p /\ j = Len(s) + q /\ p < q
    <3>1. Len(s) \in Nat /\ Len(t) \in Nat
      OBVIOUS
    <3>2. i - Len(s) \in 1 .. Len(t) /\ j - Len(s) \in 1 .. Len(t)
      BY <1>2, <3>1
    <3>3. i = Len(s) + (i - Len(s)) /\ j = Len(s) + (j - Len(s)) /\ i - Len(s) < j - Len(s)
      BY <1>2, <3>1
    <3> QED BY <3>2, <3>3
  <2>2. (s \o t)[i] = t[p] /\ (s \o t)[j] = t[q]
    BY <2>1, Concatenation
  <2> QED BY <2>1, <2>2 DEF Chain
<1>3. CASE i <= Len(s) /\ Len(s) < j
  <2>1. PICK q \in 1 .. Len(t) : j = Len(s) + q
    <3>1. Len(s) \in Nat /\ Len(t) \in Nat
      OBVIOUS
    <3>2. j - Len(s) \in 1 .. Len(t) /\ j = Len(s) + (j - Len(s))
      BY <1>3, <3>1
    <3> QED BY <3>2
  <2>2. (s \o t)[i] = s[i] /\ (s \o t)[j] = t[q] /\ i \in 1 .. Len(s)
    BY <1>3, <2>1, Concatenation
  <2>3. s[i] \in ToSet(s) /\ t[q] \in ToSet(t)
    <3>1. i \in DOMAIN s /\ q \in DOMAIN t
      BY <2>2
    <3> QED BY <3>1 DEF ToSet
  <2>4. <<s[i], t[q]>> \in E
    BY <2>3, Zenon
  <2> QED BY <2>2, <2>4
<1>4. j <= Len(s) \/ Len(s) < i \/ (i <= Len(s) /\ Len(s) < j)
  <2>1. Len(s) \in Nat /\ i \in Int /\ j \in Int
    OBVIOUS
  <2> QED BY ONLY <2>1
<1> QED BY ONLY <1>1, <1>2, <1>3, <1>4

\* What flattening keeps: the elements, and a relation of each pair.
LEMMA FlattenKeeps ==
  ASSUME NEW V, NEW seqs \in Seq(Seq(V)), NEW E,
         \A i \in DOMAIN seqs : Chain(seqs[i], E),
         \A i, j \in DOMAIN seqs : i < j =>
           \A x \in ToSet(seqs[i]), y \in ToSet(seqs[j]) : <<x, y>> \in E
  PROVE  /\ FlattenSeq(seqs) \in Seq(V)
         /\ ToSet(FlattenSeq(seqs)) = UNION {ToSet(seqs[i]) : i \in DOMAIN seqs}
         /\ Chain(FlattenSeq(seqs), E)
<1>1. PICK f \in [0 .. Len(seqs) -> Seq(V)] :
        Flattens(f, seqs) /\ FlattenSeq(seqs) = f[Len(seqs)]
  BY FlattenIs
<1>2. PICK n \in Nat : n = Len(seqs) /\ DOMAIN seqs = 1 .. n
  OBVIOUS
<1> DEFINE G == {m \in Nat : m <= n =>
                   /\ ToSet(f[m]) = UNION {ToSet(seqs[i]) : i \in 1 .. m}
                   /\ Chain(f[m], E)}
<1>3. 0 \in G
  <2>1. f[0] = <<>> /\ ToSet(f[0]) = {} /\ Chain(f[0], E)
    BY <1>1 DEF Flattens, ToSet, Chain
  <2>2. UNION {ToSet(seqs[i]) : i \in 1 .. 0} = {}
    OBVIOUS
  <2> QED BY <2>1, <2>2
<1>4. ASSUME NEW m \in Nat, m \in G PROVE m + 1 \in G
  <2> SUFFICES ASSUME m + 1 <= n
               PROVE  /\ ToSet(f[m + 1]) = UNION {ToSet(seqs[i]) : i \in 1 .. m + 1}
                      /\ Chain(f[m + 1], E)
    OBVIOUS
  <2>1. /\ m + 1 \in 1 .. n /\ m + 1 - 1 = m /\ m \in 0 .. n
        /\ f[m] \in Seq(V) /\ seqs[m + 1] \in Seq(V)
    BY <1>2
  <2>2. f[m + 1] = f[m] \o seqs[m + 1]
    <3>1. PICK i \in 1 .. n : i = m + 1 /\ i - 1 = m
      BY <2>1
    <3>2. f[i] = f[i - 1] \o seqs[i]
      BY <1>1, <1>2 DEF Flattens
    <3> QED BY <3>1, <3>2
  <2>3. /\ ToSet(f[m]) = UNION {ToSet(seqs[i]) : i \in 1 .. m}
        /\ Chain(f[m], E)
    BY <1>4
  <2>4. ToSet(f[m + 1]) = ToSet(f[m]) \cup ToSet(seqs[m + 1])
    BY <2>1, <2>2, Concatenation
  <2>5. 1 .. m + 1 = (1 .. m) \cup {m + 1}
    OBVIOUS
  <2>6. ToSet(f[m + 1]) = UNION {ToSet(seqs[i]) : i \in 1 .. m + 1}
    BY <2>3, <2>4, <2>5, Zenon
  <2>7. \A x \in ToSet(f[m]), y \in ToSet(seqs[m + 1]) : <<x, y>> \in E
    <3> SUFFICES ASSUME NEW i \in 1 .. m, NEW x \in ToSet(seqs[i]), NEW y \in ToSet(seqs[m + 1])
                 PROVE  <<x, y>> \in E
      BY <2>3
    <3>1. i \in DOMAIN seqs /\ m + 1 \in DOMAIN seqs /\ i < m + 1
      BY <1>2, <2>1
    <3> QED BY <3>1
  <2>8. Chain(seqs[m + 1], E)
    BY <1>2, <2>1
  <2>9. Chain(f[m + 1], E)
    BY <2>1, <2>2, <2>3, <2>7, <2>8, ChainOfTwo
  <2> QED BY <2>6, <2>9
<1>5. n \in G
  <2> HIDE DEF G
  <2> QED BY <1>3, <1>4, NumberInduction
<1> QED BY <1>1, <1>2, <1>5

-----------------------------------------------------------------------------
(* Least and greatest numbers *)

LEMMA MinIs ==
  ASSUME NEW S, S \subseteq Nat, S # {}
  PROVE  Min(S) \in S /\ \A x \in S : Min(S) <= x
BY LeastNumber DEF Min

LEMMA MaxIs ==
  ASSUME NEW S, S \subseteq Nat, S # {}, NEW b \in Nat, \A x \in S : x <= b
  PROVE  Max(S) \in S /\ \A x \in S : x <= Max(S)
<1> DEFINE D == {b - x : x \in S}
<1>1. D \subseteq Nat /\ D # {}
  <2>1. \A x \in S : b - x \in Nat
    OBVIOUS
  <2> QED BY <2>1
<1>2. PICK m \in D : \A n \in D : m <= n
  <2> HIDE DEF D
  <2> QED BY <1>1, LeastNumber
<1>3. PICK x \in S : m = b - x
  BY <1>2
<1>4. \A y \in S : y <= x
  <2> SUFFICES ASSUME NEW y \in S PROVE y <= x
    OBVIOUS
  <2>1. b - x <= b - y
    BY <1>2, <1>3
  <2> QED BY <2>1
<1>5. \E z \in S : \A y \in S : z >= y
  BY <1>4
<1>6. Max(S) \in S /\ \A y \in S : Max(S) >= y
  BY <1>5 DEF Max
<1> QED BY <1>6

-----------------------------------------------------------------------------
(* Rotated files in the order of their names *)

\* No two files have one name, as in a directory.
Files(S) ==
  /\ S \subseteq Segment /\ IsFiniteSet(S)
  /\ \A a, b \in S : a.first = b.first /\ a.last = b.last => a = b

LEMMA NamesAreOrdered ==
  ASSUME NEW S, Files(S)
  PROVE  /\ \A a \in S : ~Before(a, a)
         /\ \A a, b \in S : a = b \/ Before(a, b) \/ Before(b, a)
         /\ \A a, b, c \in S : Before(a, b) /\ Before(b, c) => Before(a, c)
<1>1. \A a \in S : a.first \in Nat /\ a.last \in Nat
  BY DEF Files, Segment
<1> QED BY <1>1 DEF Files, Before

LEMMA SomeFiles == ASSUME NEW S, Files(S), NEW T \in SUBSET S PROVE Files(T)
<1>1. IsFiniteSet(T)
  BY FS_Subset DEF Files
<1> QED BY <1>1 DEF Files

\* What holds of a set once it holds of its proper subsets holds of every finite set.
LEMMA SetInduction ==
  ASSUME NEW S, IsFiniteSet(S), NEW G,
         \A T \in SUBSET S : (\A U \in SUBSET T : U # T => U \in G) => T \in G
  PROVE  SUBSET S \subseteq G
<1> DEFINE B == (SUBSET S) \ G
<1> SUFFICES ASSUME B # {} PROVE FALSE
  OBVIOUS
<1>1. IsWellFoundedOn(StrictSubsetOrdering(S), SUBSET S)
  <2>1. IsWellFoundedOn(StrictSubsetOrdering(S), FiniteSubsetsOf(S))
    BY ONLY FS_StrictSubsetOrderingWellFounded
  <2>2. FiniteSubsetsOf(S) = SUBSET S
    BY FS_FiniteSubsetsOfFinite
  <2> QED BY ONLY <2>1, <2>2
<1>2. PICK T \in B : \A U \in B : ~(<<U, T>> \in StrictSubsetOrdering(S))
  <2>1. B \subseteq SUBSET S
    OBVIOUS
  <2> HIDE DEF B
  <2> QED BY <1>1, <2>1, WFMin
<1>3. ASSUME NEW U \in SUBSET T, U # T PROVE U \in G
  <2>1. U \in SUBSET S /\ T \in SUBSET S
    OBVIOUS
  <2>2. <<U, T>> \in StrictSubsetOrdering(S)
    BY <1>3, <2>1 DEF StrictSubsetOrdering
  <2> QED BY <1>2, <2>1, <2>2
<1> QED BY <1>3

LastByName(m, T) == m \in T /\ \A b \in T : b = m \/ Before(b, m)

LEMMA LastExists ==
  ASSUME NEW S, Files(S), S # {}
  PROVE  \E m : LastByName(m, S)
<1> DEFINE G == {T \in SUBSET S : T # {} => \E m : LastByName(m, T)}
<1>1. ASSUME NEW T \in SUBSET S, \A U \in SUBSET T : U # T => U \in G PROVE T \in G
  <2> SUFFICES ASSUME T # {} PROVE \E m : LastByName(m, T)
    OBVIOUS
  <2>1. PICK x \in T : TRUE
    OBVIOUS
  <2>2. CASE T = {x}
    <3>1. LastByName(x, T)
      BY <2>2 DEF LastByName
    <3> QED BY <3>1
  <2>3. CASE T # {x}
    <3>1. T \ {x} \in SUBSET T /\ T \ {x} # T /\ T \ {x} # {}
      BY <2>3
    <3>2. PICK m : LastByName(m, T \ {x})
      BY <1>1, <3>1
    <3>3. m \in T /\ m \in S /\ x \in S
      BY <3>2 DEF LastByName
    <3>4. LastByName(m, T) \/ LastByName(x, T)
      <4>1. x = m \/ Before(x, m) \/ Before(m, x)
        BY <3>3, NamesAreOrdered
      <4>2. CASE x = m \/ Before(x, m)
        BY <3>2, <3>3, <4>2 DEF LastByName
      <4>3. CASE Before(m, x)
        <5>1. ASSUME NEW b \in T PROVE b = x \/ Before(b, x)
          <6>1. b = x \/ b = m \/ Before(b, m)
            BY <3>2 DEF LastByName
          <6>2. b \in S
            OBVIOUS
          <6> QED BY <6>1, <6>2, <3>3, <4>3, NamesAreOrdered
        <5> QED BY <5>1 DEF LastByName
      <4> QED BY <4>1, <4>2, <4>3
    <3> QED BY <3>4
  <2> QED BY <2>2, <2>3
<1>2. SUBSET S \subseteq G
  <2>1. IsFiniteSet(S)
    BY DEF Files
  <2> HIDE DEF G
  <2> QED BY <1>1, <2>1, SetInduction
<1>3. S \in G
  BY <1>2
<1> QED BY <1>3

\* f lists S by name.
Lists(f, S) ==
  /\ f \in [1 .. Cardinality(S) -> S]
  /\ \A i, j \in 1 .. Cardinality(S) : i < j => Before(f[i], f[j])

LEMMA ListExists ==
  ASSUME NEW S, Files(S)
  PROVE  \E f : Lists(f, S)
<1> DEFINE G == {T \in SUBSET S : \E f : Lists(f, T)}
<1>1. ASSUME NEW T \in SUBSET S, \A U \in SUBSET T : U # T => U \in G PROVE T \in G
  <2>0. Files(T) /\ IsFiniteSet(T)
    BY SomeFiles DEF Files
  <2>1. CASE T = {}
    <3>1. Cardinality(T) = 0
      BY <2>1, FS_EmptySet
    <3> DEFINE f == [i \in 1 .. 0 |-> i]
    <3>2. f \in [1 .. 0 -> T]
      OBVIOUS
    <3>3. Lists(f, T)
      BY <3>1, <3>2 DEF Lists
    <3> QED BY <3>3
  <2>2. CASE T # {}
    <3>1. PICK m : LastByName(m, T)
      BY <2>0, <2>2, LastExists
    <3>2. m \in T
      BY <3>1 DEF LastByName
    <3>3. T \ {m} \in SUBSET T /\ T \ {m} # T
      BY <3>2
    <3>4. PICK f : Lists(f, T \ {m})
      BY <1>1, <3>3
    <3>5. PICK n \in Nat : Cardinality(T) = n + 1 /\ Cardinality(T \ {m}) = n
      <4>1. Cardinality(T) \in Nat /\ Cardinality(T) # 0
        BY <2>0, <2>2, FS_CardinalityType, FS_EmptySet
      <4>2. Cardinality(T \ {m}) = Cardinality(T) - 1
        BY <2>0, <3>2, FS_RemoveElement
      <4> QED BY <4>1, <4>2
    <3> DEFINE g == [i \in 1 .. n + 1 |-> IF i = n + 1 THEN m ELSE f[i]]
    <3>6. f \in [1 .. n -> T \ {m}] /\ \A i, j \in 1 .. n : i < j => Before(f[i], f[j])
      BY <3>4, <3>5 DEF Lists
    <3>7. g \in [1 .. n + 1 -> T]
      BY <3>2, <3>6
    <3>8. ASSUME NEW i \in 1 .. n + 1, NEW j \in 1 .. n + 1, i < j PROVE Before(g[i], g[j])
      <4>1. i \in 1 .. n /\ g[i] = f[i] /\ f[i] \in T \ {m}
        BY <3>6, <3>8
      <4>2. CASE j = n + 1
        <5>1. g[j] = m /\ Before(f[i], m)
          BY <3>1, <4>1, <4>2 DEF LastByName
        <5> QED BY <4>1, <5>1
      <4>3. CASE j # n + 1
        <5>1. j \in 1 .. n /\ g[j] = f[j]
          BY <4>3
        <5>2. Before(f[i], f[j])
          BY <3>6, <3>8, <4>1, <5>1
        <5> QED BY <4>1, <5>1, <5>2
      <4> QED BY <4>2, <4>3
    <3> HIDE DEF g
    <3>9. Lists(g, T)
      BY <3>5, <3>7, <3>8 DEF Lists
    <3> QED BY <3>9
  <2> QED BY <2>1, <2>2
<1>2. SUBSET S \subseteq G
  <2>1. IsFiniteSet(S)
    BY DEF Files
  <2> HIDE DEF G
  <2> QED BY <1>1, <2>1, SetInduction
<1>3. S \in G
  BY <1>2
<1> QED BY <1>3

\* Discovered lists every file once, by name.
LEMMA DiscoveredIs ==
  ASSUME NEW S, Files(S)
  PROVE  /\ Cardinality(S) \in Nat /\ Lists(Discovered(S), S)
         /\ \A i, j \in 1 .. Cardinality(S) : i # j => Discovered(S)[i] # Discovered(S)[j]
         /\ S = {Discovered(S)[i] : i \in 1 .. Cardinality(S)}
<1>0. IsFiniteSet(S) /\ Cardinality(S) \in Nat
  BY FS_CardinalityType DEF Files
<1>1. Lists(Discovered(S), S)
  <2>1. PICK f : Lists(f, S)
    BY ListExists
  <2>2. \E g \in [1 .. Cardinality(S) -> S] :
          \A i, j \in DOMAIN g : i < j => Before(g[i], g[j])
    BY <2>1 DEF Lists
  <2>3. PICK d : d = Discovered(S)
    OBVIOUS
  <2>4. d \in [1 .. Cardinality(S) -> S] /\ \A i, j \in DOMAIN d : i < j => Before(d[i], d[j])
    BY <2>2, <2>3 DEF Discovered
  <2> QED BY <2>3, <2>4 DEF Lists
<1>2. PICK d : d = Discovered(S)
  OBVIOUS
<1>3. PICK n \in Nat : n = Cardinality(S)
  BY <1>0
<1>4. d \in [1 .. n -> S] /\ \A i, j \in 1 .. n : i < j => Before(d[i], d[j])
  BY <1>1, <1>2, <1>3 DEF Lists
<1>5. ASSUME NEW i \in 1 .. n, NEW j \in 1 .. n, i # j PROVE d[i] # d[j]
  <2>1. Before(d[i], d[j]) \/ Before(d[j], d[i])
    <3>1. i < j \/ j < i
      BY <1>5
    <3> QED BY <1>4, <3>1
  <2>2. d[i] \in S /\ d[j] \in S
    BY <1>4
  <2> QED BY <2>1, <2>2, NamesAreOrdered
<1>6. S = {d[i] : i \in 1 .. n}
  <2>1. d \in Injection(1 .. n, S)
    BY <1>4, <1>5 DEF Injection, IsInjective
  <2>2. Cardinality(1 .. n) = n
    BY FS_Interval
  <2>3. d \in Surjection(1 .. n, S)
    BY <1>0, <1>3, <2>1, <2>2, FS_Injection
  <2> QED BY <1>4, <2>3 DEF Surjection
<1> QED BY <1>0, <1>1, <1>2, <1>3, <1>5, <1>6

\* No more files are kept than the retention allows.
LEMMA PruneKeeps ==
  ASSUME NEW S, Files(S), Retention \in Nat \ {0}
  PROVE  Files(Prune(S)) /\ Prune(S) \subseteq S /\ Cardinality(Prune(S)) <= Retention
<1>1. Prune(S) \subseteq S /\ IsFiniteSet(S)
  BY DEF Prune, Files
<1>2. Files(Prune(S))
  BY <1>1, SomeFiles
<1> DEFINE After(a) == {b \in S : Before(a, b)}
<1>3. \A a \in S : IsFiniteSet(After(a)) /\ Cardinality(After(a)) \in Nat
  BY <1>1, FS_Subset, FS_CardinalityType
<1>4. ASSUME NEW a \in S, NEW b \in S, Before(a, b)
      PROVE  Cardinality(After(b)) < Cardinality(After(a))
  <2>1. After(b) \in SUBSET After(a)
    BY <1>4, NamesAreOrdered
  <2>2. After(b) # After(a)
    <3>1. b \in After(a) /\ b \notin After(b)
      BY <1>4, NamesAreOrdered
    <3> QED BY <3>1
  <2>3. IsFiniteSet(After(a)) /\ Cardinality(After(a)) \in Nat /\ Cardinality(After(b)) \in Nat
    BY <1>3
  <2>4. Cardinality(After(b)) <= Cardinality(After(a)) /\ Cardinality(After(b)) # Cardinality(After(a))
    <3> HIDE DEF After
    <3> QED BY <2>1, <2>2, <2>3, FS_Subset
  <2> QED BY <2>3, <2>4
<1> DEFINE rank == [a \in Prune(S) |-> Cardinality(After(a))]
<1>5. \A a \in Prune(S) : rank[a] \in 0 .. Retention - 1
  <2> SUFFICES ASSUME NEW a \in Prune(S) PROVE Cardinality(After(a)) \in 0 .. Retention - 1
    OBVIOUS
  <2>1. Cardinality(After(a)) < Retention /\ a \in S
    BY DEF Prune
  <2>2. Cardinality(After(a)) \in Nat
    BY <1>3, <2>1
  <2> QED BY <2>1, <2>2
<1>6. ASSUME NEW a \in Prune(S), NEW b \in Prune(S), a # b PROVE rank[a] # rank[b]
  <2>1. a \in S /\ b \in S
    BY <1>1
  <2>2. Cardinality(After(a)) \in Nat /\ Cardinality(After(b)) \in Nat
    BY <1>3, <2>1
  <2>3. Before(a, b) \/ Before(b, a)
    BY <1>6, <2>1, NamesAreOrdered
  <2>4. Cardinality(After(a)) # Cardinality(After(b))
    <3> HIDE DEF After
    <3> QED BY <1>4, <2>1, <2>2, <2>3
  <2> QED BY <2>4
<1>7. rank \in [Prune(S) -> 0 .. Retention - 1]
  BY <1>5
<1>8. rank \in Injection(Prune(S), 0 .. Retention - 1)
  <2> HIDE DEF rank
  <2> QED BY <1>6, <1>7 DEF Injection, IsInjective
<1>9. IsFiniteSet(0 .. Retention - 1) /\ Cardinality(0 .. Retention - 1) = Retention
  BY FS_Interval
<1>10. Cardinality(Prune(S)) <= Cardinality(0 .. Retention - 1)
  <2> HIDE DEF rank
  <2> QED BY <1>8, <1>9, FS_Injection
<1> QED BY <1>1, <1>2, <1>9, <1>10

-----------------------------------------------------------------------------
(* What a restart reads *)

\* Files a replay takes.
Reach == {a \in rotated : snapshot.floor = 0 \/ a.last >= snapshot.floor}
InReach == UNION {ToSet(a.records) : a \in Reach}

LEMMA ReadIs ==
  ASSUME Files(rotated), NEW disk \in Seq(Record), NEW E,
         Chain(disk, E), \A a \in Reach : Chain(a.records, E),
         \A a \in Reach : \A x \in ToSet(a.records), y \in ToSet(disk) : <<x, y>> \in E,
         \A a, b \in Reach : Before(a, b) =>
           \A x \in ToSet(a.records), y \in ToSet(b.records) : <<x, y>> \in E
  PROVE  /\ Selected(disk) \in Seq(Record)
         /\ ToSet(Selected(disk)) = InReach \cup ToSet(disk)
         /\ Chain(Selected(disk), E)
         /\ Replay(disk) \in Seq(Record)
         /\ ToSet(Replay(disk)) = {r \in InReach \cup ToSet(disk) :
                                    snapshot.floor = 0 \/ r.seq >= snapshot.floor}
         /\ Chain(Replay(disk), E)
<1>1. Files(Reach)
  BY SomeFiles DEF Reach
<1>2. PICK n \in Nat : n = Cardinality(Reach)
  BY <1>1, DiscoveredIs
<1>3. PICK d : d = Discovered(Reach)
  OBVIOUS
<1>4. /\ d \in [1 .. n -> Reach] /\ Reach = {d[i] : i \in 1 .. n}
      /\ \A i, j \in 1 .. n : i < j => Before(d[i], d[j])
  BY <1>1, <1>2, <1>3, DiscoveredIs DEF Lists
<1>5. \A a \in Reach : a.records \in Seq(Record)
  BY <1>1 DEF Files, Segment
<1>6. PICK read : read = [i \in 1 .. n |-> d[i].records]
  OBVIOUS
<1>7. read \in Seq(Seq(Record)) /\ DOMAIN read = 1 .. n
  <2>1. read \in [1 .. n -> Seq(Record)]
    BY <1>4, <1>5, <1>6
  <2> QED BY <2>1
<1>8. PICK sel : sel = FlattenSeq(read)
  OBVIOUS
<1>9. sel \in Seq(Record) /\ ToSet(sel) = InReach /\ Chain(sel, E)
  <2>1. \A i \in DOMAIN read : Chain(read[i], E)
    BY <1>4, <1>6
  <2>2. ASSUME NEW i \in DOMAIN read, NEW j \in DOMAIN read, i < j,
               NEW x \in ToSet(read[i]), NEW y \in ToSet(read[j])
        PROVE  <<x, y>> \in E
    <3>1. read[i] = d[i].records /\ read[j] = d[j].records /\ d[i] \in Reach /\ d[j] \in Reach
      BY <1>4, <1>6, <1>7
    <3>2. Before(d[i], d[j])
      BY <1>4, <1>7, <2>2
    <3> QED BY <3>1, <3>2
  <2>3. UNION {ToSet(read[i]) : i \in DOMAIN read} = InReach
    <3>1. \A i \in 1 .. n : read[i] = d[i].records
      BY <1>6
    <3>2. \A x : (\E i \in 1 .. n : x \in ToSet(read[i])) <=> (\E a \in Reach : x \in ToSet(a.records))
      BY ONLY <3>1, <1>4, Zenon
    <3> QED BY <3>2, <1>7 DEF InReach
  <2>4. /\ FlattenSeq(read) \in Seq(Record)
        /\ ToSet(FlattenSeq(read)) = UNION {ToSet(read[i]) : i \in DOMAIN read}
        /\ Chain(FlattenSeq(read), E)
    BY ONLY <1>7, <2>1, <2>2, FlattenKeeps
  <2> QED BY ONLY <2>3, <2>4, <1>8
<1>10. Selected(disk) = sel \o disk
  <2>1. Selected(disk) = RecordsOf(Reach) \o disk
    BY DEF Selected, Reach
  <2>2. RecordsOf(Reach) = FlattenSeq(read)
    BY <1>2, <1>3, <1>6 DEF RecordsOf
  <2> QED BY <2>1, <2>2, <1>8
<1>11. PICK all : all = Selected(disk)
  OBVIOUS
<1>12. all \in Seq(Record) /\ ToSet(all) = InReach \cup ToSet(disk)
  BY <1>9, <1>10, <1>11, Concatenation
<1>13. Chain(all, E)
  <2>1. \A x \in ToSet(sel), y \in ToSet(disk) : <<x, y>> \in E
    BY <1>9 DEF InReach
  <2> QED BY <1>9, <1>10, <1>11, <2>1, ChainOfTwo
<1> DEFINE In(r) == snapshot.floor = 0 \/ r.seq >= snapshot.floor
<1>14. PICK parts : parts = [i \in DOMAIN all |-> IF In(all[i]) THEN <<all[i]>> ELSE <<>>]
  OBVIOUS
<1>15. DOMAIN all = 1 .. Len(all) /\ Len(all) \in Nat /\ \A i \in DOMAIN all : all[i] \in Record
  BY <1>12
<1>16. DOMAIN parts = DOMAIN all
  BY <1>14
<1> HIDE DEF In
<1>17. \A i \in DOMAIN all : /\ parts[i] \in Seq(Record) /\ Chain(parts[i], E)
                            /\ ToSet(parts[i]) = IF In(all[i]) THEN {all[i]} ELSE {}
  <2> SUFFICES ASSUME NEW i \in DOMAIN all
               PROVE  /\ parts[i] \in Seq(Record) /\ Chain(parts[i], E)
                      /\ ToSet(parts[i]) = IF In(all[i]) THEN {all[i]} ELSE {}
    OBVIOUS
  <2>0. PICK x \in Record : x = all[i]
    BY <1>15
  <2>1. CASE In(all[i])
    <3>1. parts[i] = <<x>>
      BY <1>14, <2>0, <2>1
    <3>2. <<x>> \in Seq(Record) /\ DOMAIN <<x>> = {1} /\ <<x>>[1] = x
      OBVIOUS
    <3>3. Chain(<<x>>, E) /\ ToSet(<<x>>) = {x}
      BY <3>2 DEF Chain, ToSet
    <3> QED BY <2>0, <2>1, <3>1, <3>2, <3>3
  <2>2. CASE ~In(all[i])
    <3>1. parts[i] = <<>>
      BY <1>14, <2>2
    <3>2. Chain(<<>>, E) /\ ToSet(<<>>) = {} /\ <<>> \in Seq(Record)
      BY DEF Chain, ToSet
    <3> QED BY <2>2, <3>1, <3>2
  <2> QED BY <2>1, <2>2
<1>18. parts \in Seq(Seq(Record))
  <2>1. parts \in [1 .. Len(all) -> Seq(Record)]
    BY <1>14, <1>15, <1>16, <1>17
  <2> QED BY <1>15, <2>1
<1>19. /\ FlattenSeq(parts) \in Seq(Record)
       /\ ToSet(FlattenSeq(parts)) = UNION {ToSet(parts[i]) : i \in DOMAIN parts}
       /\ Chain(FlattenSeq(parts), E)
  <2>1. \A i \in DOMAIN parts : Chain(parts[i], E)
    BY <1>16, <1>17
  <2>2. ASSUME NEW i \in DOMAIN parts, NEW j \in DOMAIN parts, i < j,
               NEW x \in ToSet(parts[i]), NEW y \in ToSet(parts[j])
        PROVE  <<x, y>> \in E
    <3>1. x = all[i] /\ y = all[j] /\ i \in DOMAIN all /\ j \in DOMAIN all
      BY <1>16, <1>17
    <3>2. <<all[i], all[j]>> \in E
      BY <1>13, <2>2, <3>1 DEF Chain
    <3> QED BY <3>1, <3>2
  <2> QED BY ONLY <1>18, <2>1, <2>2, FlattenKeeps
<1>20. ToSet(FlattenSeq(parts)) = {r \in ToSet(all) : In(r)}
  <2>1. \A x : (\E i \in DOMAIN all : x \in ToSet(parts[i])) <=> (x \in ToSet(all) /\ In(x))
    <3>1. ASSUME NEW x, NEW i \in DOMAIN all, x \in ToSet(parts[i]) PROVE x \in ToSet(all) /\ In(x)
      <4>1. In(all[i]) /\ x = all[i]
        BY <1>17, <3>1
      <4> QED BY <4>1 DEF ToSet
    <3>2. ASSUME NEW i \in DOMAIN all, In(all[i]) PROVE all[i] \in ToSet(parts[i])
      BY <1>17, <3>2
    <3> QED BY <3>1, <3>2, Zenon DEF ToSet
  <2> QED BY <1>16, <1>19, <2>1
<1>21. Replay(disk) = FlattenSeq(parts)
  BY <1>11, <1>14 DEF Replay, FromFloor, In
<1> QED BY <1>10, <1>11, <1>12, <1>13, <1>19, <1>20, <1>21 DEF In

\* The files and records, whatever their order.
LEMMA ReadSets ==
  ASSUME Files(rotated), NEW disk \in Seq(Record)
  PROVE  /\ Selected(disk) \in Seq(Record)
         /\ ToSet(Selected(disk)) = InReach \cup ToSet(disk)
         /\ Replay(disk) \in Seq(Record)
         /\ ToSet(Replay(disk)) = {r \in InReach \cup ToSet(disk) :
                                    snapshot.floor = 0 \/ r.seq >= snapshot.floor}
<1> DEFINE E == Record \X Record
<1>1. \A l \in Seq(Record) : ToSet(l) \subseteq Record /\ Chain(l, E)
  <2> SUFFICES ASSUME NEW l \in Seq(Record) PROVE ToSet(l) \subseteq Record /\ Chain(l, E)
    OBVIOUS
  <2>1. \A i \in DOMAIN l : l[i] \in Record
    OBVIOUS
  <2> QED BY <2>1 DEF ToSet, Chain
<1>2. \A a \in Reach : a.records \in Seq(Record)
  BY DEF Reach, Files, Segment
<1>3. \A a \in Reach : Chain(a.records, E)
  BY <1>1, <1>2
<1>4. \A a \in Reach : \A x \in ToSet(a.records), y \in ToSet(disk) : <<x, y>> \in E
  BY <1>1, <1>2
<1>5. \A a, b \in Reach : \A x \in ToSet(a.records), y \in ToSet(b.records) : <<x, y>> \in E
  BY <1>1, <1>2
<1>6. Chain(disk, E)
  BY <1>1
<1> HIDE DEF E
<1> QED BY <1>3, <1>4, <1>5, <1>6, ReadIs

-----------------------------------------------------------------------------
(* The invariant *)

Live == ToSet(active) \cup InReach     \* what a replay could read
Given == ToSet(recorded)               \* what the windows were given
Current == Live \cup InFlight \cup Given

Snapshot == [seq : Nat, floor : Nat, life : [Share -> Nat], flying : SUBSET Share]

TypeInv == TypeOK /\ Files(rotated) /\ snapshot \in Snapshot

\* Numbers are claimed in the order of time, and the floor of the snapshot is none
\* that is still to be claimed.
Numbers ==
  /\ \A r \in Current : r.seq <= seq /\ r.at <= clock
  /\ \A r \in Given : r.seq <= curSeq
  /\ \A r, q \in Current : r.seq <= q.seq => r.at <= q.at
  /\ snapshot.seq <= seq
  /\ snapshot.floor <= snapshot.seq + 1 /\ snapshot.floor <= curSeq + 1
  /\ snapshot.floor > 0 => snapshot.seq > 0 /\ curSeq > 0

\* What was overtaken leaves the windows before what has overtaken it.
Passed ==
  /\ \A r \in InFlight : r.seq <= curSeq => \E q \in Given : r.at <= q.at
  /\ \A i \in DOMAIN recorded : recorded[i].seq < snapshot.floor =>
       ~Recent(recorded[i]) \/ \E j \in 1 .. i - 1 : recorded[i].at <= recorded[j].at

-----------------------------------------------------------------------------
(* Numbers *)

LEMMA Constants ==
  /\ Window \in Nat \ {0} /\ QueueSize \in Nat \ {0} /\ BatchSize \in Nat \ {0}
  /\ RotateAt \in Nat \ {0} /\ Retention \in Nat \ {0}
  /\ MaxShares \in Nat /\ MaxTime \in Nat /\ MaxRestarts \in Nat /\ MaxFaults \in Nat
  BY ShareLogAssumption

LEMMA RecordIs ==
  ASSUME NEW r \in Record
  PROVE  r.seq \in Nat /\ r.seq > 0 /\ r.at \in Nat /\ r.at <= MaxTime /\ r.share \in Share
  BY Constants DEF Record

LEMMA ElementsAre ==
  ASSUME NEW V, NEW l \in Seq(V) PROVE ToSet(l) = {l[i] : i \in 1 .. Len(l)} /\ ToSet(l) \subseteq V
  BY DEF ToSet

LEMMA CurrentAreRecords == ASSUME TypeInv PROVE Current \subseteq Record /\ Live \subseteq Record
<1>1. ToSet(active) \subseteq Record /\ ToSet(queue) \subseteq Record /\ ToSet(recorded) \subseteq Record
  BY ElementsAre DEF TypeInv, TypeOK
<1>2. \A a \in Reach : ToSet(a.records) \subseteq Record
  <2> SUFFICES ASSUME NEW a \in Reach PROVE ToSet(a.records) \subseteq Record
    OBVIOUS
  <2>1. a.records \in Seq(Record)
    BY DEF Reach, TypeInv, TypeOK, Segment
  <2> QED BY <2>1, ElementsAre
<1> QED BY <1>1, <1>2 DEF Current, Live, InReach, Given, InFlight, TypeInv, TypeOK

\* The floor is the number of the first record that is still in the window.
LEMMA FloorIs ==
  ASSUME NEW log \in Seq(Record), NEW current \in Nat, clock \in Nat
  PROVE  /\ FloorOf(log, current) \in Nat
         /\ \/ \E m \in DOMAIN log : /\ Recent(log[m]) /\ FloorOf(log, current) = log[m].seq
                                     /\ \A i \in 1 .. m - 1 : ~Recent(log[i])
            \/ /\ \A i \in DOMAIN log : ~Recent(log[i])
               /\ FloorOf(log, current) = IF current > 0 THEN current + 1 ELSE 0
<1> DEFINE marks == {i \in DOMAIN log : (i = 1 \/ log[i - 1].at # log[i].at) /\ Recent(log[i])}
<1>0. DOMAIN log = 1 .. Len(log) /\ Len(log) \in Nat
  OBVIOUS
<1>1. FloorOf(log, current) = IF marks # {} THEN log[Min(marks)].seq
                              ELSE IF current > 0 THEN current + 1 ELSE 0
  BY DEF FloorOf
<1>2. CASE \A i \in DOMAIN log : ~Recent(log[i])
  <2>1. marks = {}
    BY <1>2
  <2>2. FloorOf(log, current) = IF current > 0 THEN current + 1 ELSE 0
    <3> HIDE DEF marks
    <3> QED BY <1>1, <2>1
  <2> QED BY <1>2, <2>2
<1>3. CASE \E i \in DOMAIN log : Recent(log[i])
  <2> DEFINE R == {i \in DOMAIN log : Recent(log[i])}
  <2>1. R \subseteq Nat /\ R # {}
    BY <1>0, <1>3
  <2>2. PICK m \in R : \A i \in R : m <= i
    <3> HIDE DEF R
    <3> QED BY <2>1, LeastNumber
  <2>3. m \in 1 .. Len(log) /\ Recent(log[m])
    BY <1>0
  <2>4. \A i \in 1 .. m - 1 : ~Recent(log[i])
    <3> SUFFICES ASSUME NEW i \in 1 .. m - 1, Recent(log[i]) PROVE FALSE
      OBVIOUS
    <3>1. i \in R
      BY <1>0, <2>3
    <3> QED BY <2>2, <2>3, <3>1
  <2>5. m = 1 \/ log[m - 1].at # log[m].at
    <3> SUFFICES ASSUME m # 1, log[m - 1].at = log[m].at PROVE FALSE
      OBVIOUS
    <3>1. m - 1 \in 1 .. m - 1
      BY <2>3
    <3>2. Recent(log[m - 1])
      BY <2>3 DEF Recent
    <3> QED BY <2>4, <3>1, <3>2
  <2>6. m \in marks /\ marks \subseteq R /\ marks \subseteq Nat
    BY <1>0, <2>3, <2>5
  <2>7. Min(marks) = m
    <3>1. Min(marks) \in marks /\ Min(marks) <= m
      <4> HIDE DEF marks
      <4> QED BY <2>6, MinIs
    <3>2. m <= Min(marks) /\ Min(marks) \in Nat
      <4> HIDE DEF marks, R
      <4> QED BY <2>2, <2>6, <3>1
    <3>3. m \in Nat
      BY <2>3
    <3> QED BY ONLY <3>1, <3>2, <3>3
  <2>8. FloorOf(log, current) = log[m].seq
    <3> HIDE DEF marks
    <3> QED BY <1>1, <2>6, <2>7
  <2>9. log[m].seq \in Nat
    <3>1. log[m] \in Record
      BY <1>0, <2>3
    <3> QED BY <3>1, RecordIs
  <2> QED BY <1>0, <2>3, <2>4, <2>8, <2>9
<1> QED BY <1>2, <1>3

\* A snapshot's floor is at least that of the snapshot before.
LEMMA FloorGrows ==
  ASSUME TypeInv, Numbers, Passed
  PROVE  /\ FloorOf(recorded, curSeq) \in Nat
         /\ snapshot.floor <= FloorOf(recorded, curSeq)
         /\ FloorOf(recorded, curSeq) <= curSeq + 1
         /\ FloorOf(recorded, curSeq) > 0 => curSeq > 0
<1>0. /\ recorded \in Seq(Record) /\ clock \in Nat /\ seq \in Nat /\ curSeq \in Nat
      /\ snapshot.floor \in Nat
  BY Constants DEF TypeInv, TypeOK, Snapshot
<1>1. PICK f : f = FloorOf(recorded, curSeq)
  OBVIOUS
<1>2. CASE \E m \in DOMAIN recorded : /\ Recent(recorded[m]) /\ f = recorded[m].seq
                                     /\ \A i \in 1 .. m - 1 : ~Recent(recorded[i])
  <2>1. PICK m \in DOMAIN recorded : /\ Recent(recorded[m]) /\ f = recorded[m].seq
                                     /\ \A i \in 1 .. m - 1 : ~Recent(recorded[i])
    BY <1>2
  <2>2. recorded[m] \in Given /\ recorded[m] \in Record
    BY <1>0 DEF Given, ToSet
  <2>3. f <= curSeq /\ f > 0 /\ f \in Nat
    BY <2>1, <2>2, RecordIs DEF Numbers
  <2>4. ASSUME f < snapshot.floor PROVE FALSE
    <3>1. PICK j \in 1 .. m - 1 : recorded[m].at <= recorded[j].at
      BY <2>1, <2>4 DEF Passed
    <3>2. j \in DOMAIN recorded
      BY <1>0
    <3>3. recorded[j] \in Record
      BY <1>0, <3>2
    <3>4. Recent(recorded[j])
      <4>1. recorded[m].at \in Nat /\ recorded[j].at \in Nat
        BY <2>2, <3>3, RecordIs
      <4>2. recorded[m].at + Window > clock
        BY <2>1 DEF Recent
      <4>3. recorded[j].at + Window > clock
        BY ONLY <4>1, <4>2, <3>1, <1>0, Constants
      <4> QED BY <4>3 DEF Recent
    <3> QED BY <2>1, <3>4
  <2> QED BY <1>0, <1>1, <2>3, <2>4
<1>3. CASE f = IF curSeq > 0 THEN curSeq + 1 ELSE 0
  <2>1. snapshot.floor <= curSeq + 1 /\ (snapshot.floor > 0 => curSeq > 0)
    BY DEF Numbers
  <2> QED BY <1>0, <1>1, <1>3, <2>1
<1> QED BY <1>0, <1>1, <1>2, <1>3, FloorIs

-----------------------------------------------------------------------------
(* The steps, as far as the proofs look *)

Rest(n) == SubSeq(queue, n + 1, Len(queue))

LEMMA Cut ==
  ASSUME queue \in Seq(Record), NEW n \in 0 .. Len(queue)
  PROVE  /\ Taken(n) \in Seq(Record) /\ Len(Taken(n)) = n
         /\ \A i \in 1 .. n : Taken(n)[i] = queue[i]
         /\ Rest(n) \in Seq(Record) /\ Len(Rest(n)) = Len(queue) - n
         /\ \A i \in 1 .. Len(queue) - n : Rest(n)[i] = queue[n + i]
         /\ ToSet(queue) = ToSet(Taken(n)) \cup ToSet(Rest(n))
<1>0. Len(queue) \in Nat /\ n \in Nat /\ n <= Len(queue)
  OBVIOUS
<1>1. /\ Taken(n) \in Seq(Record) /\ Len(Taken(n)) = n
      /\ \A i \in 1 .. n : Taken(n)[i] = queue[i]
  BY DEF Taken
<1>2. /\ Rest(n) \in Seq(Record) /\ Len(Rest(n)) = Len(queue) - n
      /\ \A i \in 1 .. Len(queue) - n : Rest(n)[i] = queue[n + i]
  BY DEF Rest
<1>3. ASSUME NEW i \in 1 .. Len(queue) PROVE queue[i] \in ToSet(Taken(n)) \cup ToSet(Rest(n))
  <2>1. CASE i <= n
    <3>1. i \in 1 .. Len(Taken(n)) /\ Taken(n)[i] = queue[i]
      BY <1>1, <2>1
    <3> QED BY <3>1, <1>1, ElementsAre
  <2>2. CASE ~(i <= n)
    <3>1. PICK j \in 1 .. Len(queue) - n : i = n + j
      <4>1. i - n \in 1 .. Len(queue) - n /\ i = n + (i - n)
        BY <1>0, <2>2
      <4> QED BY <4>1
    <3>2. j \in 1 .. Len(Rest(n)) /\ Rest(n)[j] = queue[i]
      BY <1>2, <3>1
    <3> QED BY <3>2, <1>2, ElementsAre
  <2> QED BY <2>1, <2>2
<1>4. ASSUME NEW i \in 1 .. n PROVE Taken(n)[i] \in ToSet(queue)
  <2>1. i \in 1 .. Len(queue)
    BY <1>0
  <2> QED BY <1>1, <2>1, ElementsAre
<1>5. ASSUME NEW i \in 1 .. Len(queue) - n PROVE Rest(n)[i] \in ToSet(queue)
  <2>1. PICK j \in 1 .. Len(queue) : j = n + i
    BY <1>0
  <2>2. Rest(n)[i] = queue[j]
    BY <1>2, <2>1
  <2> QED BY <2>1, <2>2, ElementsAre
<1>6. ToSet(Taken(n)) \subseteq ToSet(queue)
  BY <1>1, <1>4, ElementsAre
<1>7. ToSet(Rest(n)) \subseteq ToSet(queue)
  BY <1>2, <1>5, ElementsAre
<1>8. ToSet(queue) \subseteq ToSet(Taken(n)) \cup ToSet(Rest(n))
  BY <1>3, ElementsAre
<1> QED BY <1>1, <1>2, <1>6, <1>7, <1>8

\* A new rotated file, with the batch at its end.
Rotates(n) ==
  /\ active' = <<>> /\ span' = <<0, 0>>
  /\ \E a \in Segment :
       /\ a.records = active \o Taken(n) /\ <<a.first, a.last>> = SpanWith(Taken(n))
       /\ rotated' \subseteq {b \in rotated : ~(b.first = a.first /\ b.last = a.last)} \cup {a}
  /\ Files(rotated') /\ Cardinality(rotated') <= Retention

\* The number the active file's name begins with once the queue's first is in it.
Begin == IF span = <<0, 0>> THEN queue[1].seq ELSE span[1]

\* n records leave the queue, of which k, or all, reach the log.
Appends(n, k) ==
  /\ n \in 1 .. Len(queue) /\ k \in 0 .. n
  /\ queue' = Rest(n) /\ Ingest(Taken(n))
  /\ \/ /\ active' = active \o Taken(k) /\ rotated' = rotated
        /\ span' \in Nat \X Nat /\ (span' = <<0, 0>> \/ span'[1] = Begin)
     \/ Rotates(n)
  /\ faults' \in 0 .. MaxFaults
  /\ UNCHANGED <<clock, shares, seq, waiting, snapshot, excused, inOrder, restarts>>

LEMMA SpanIs ==
  ASSUME span \in Nat \X Nat, queue \in Seq(Record), NEW n \in 1 .. Len(queue)
  PROVE  /\ SpanWith(Taken(n)) \in Nat \X Nat
         /\ SpanWith(Taken(n))[1] = Begin
         /\ SpanWith(Taken(n))[2] = queue[n].seq
<1>1. n \in 0 .. Len(queue) /\ 1 \in 1 .. n /\ n \in 1 .. n /\ n \in Nat
  OBVIOUS
<1>2. PICK t : t = Taken(n)
  OBVIOUS
<1>3. t \in Seq(Record) /\ Len(t) = n /\ t[1] = queue[1] /\ t[n] = queue[n]
  BY <1>1, <1>2, Cut
<1>4. Head(t) = queue[1] /\ Last(t) = queue[n]
  BY <1>1, <1>3 DEF Last
<1>5. queue[1].seq \in Nat /\ queue[n].seq \in Nat
  <2>1. queue[1] \in Record /\ queue[n] \in Record
    BY <1>1
  <2> QED BY <2>1, RecordIs
<1> QED BY <1>2, <1>4, <1>5 DEF SpanWith, Begin

LEMMA AppendSteps ==
  ASSUME TypeInv, NEW n \in 1 .. BatchSize,
         AppendBatch(n) \/ \E k \in 0 .. n : AppendFails(n, k)
  PROVE  \E k \in 0 .. n : Appends(n, k)
<1>0. /\ queue \in Seq(Record) /\ active \in Seq(Record) /\ Files(rotated)
      /\ span \in Nat \X Nat /\ faults \in 0 .. MaxFaults /\ faults \in Nat
  BY DEF TypeInv, TypeOK
<1>1. CASE AppendBatch(n)
  <2>0. n \in 1 .. Len(queue) /\ n \in 0 .. Len(queue) /\ n \in 0 .. n
    BY <1>1 DEF AppendBatch
  <2>1. PICK log : log = active \o Taken(n)
    OBVIOUS
  <2>2. log \in Seq(Record)
    BY <1>0, <2>0, <2>1, Cut, Concatenation
  <2>3. CASE Len(log) >= RotateAt
    <3>1. PICK name : name = SpanWith(Taken(n))
      OBVIOUS
    <3>2. name \in Nat \X Nat
      BY <1>0, <2>0, <3>1, SpanIs
    <3>3. PICK a : a = [first |-> name[1], last |-> name[2], records |-> log]
      OBVIOUS
    <3>4. a \in Segment /\ a.records = log /\ a.first = name[1] /\ a.last = name[2]
      BY <2>2, <3>2, <3>3 DEF Segment
    <3>5. PICK S : S = {b \in rotated : <<b.first, b.last>> # name} \cup {a}
      OBVIOUS
    <3>6. rotated' = Prune(S) /\ active' = <<>> /\ span' = <<0, 0>>
      BY <1>1, <2>1, <2>3, <3>1, <3>3, <3>5 DEF AppendBatch, Rotate
    <3>7. S \subseteq {b \in rotated : ~(b.first = a.first /\ b.last = a.last)} \cup {a}
      BY <3>2, <3>4, <3>5
    <3>8. Files(S)
      <4>1. IsFiniteSet({b \in rotated : <<b.first, b.last>> # name})
        BY <1>0, FS_Subset DEF Files
      <4>2. IsFiniteSet(S)
        BY <3>5, <4>1, FS_AddElement
      <4>3. \A b, c \in S : b.first = c.first /\ b.last = c.last => b = c
        BY <1>0, <3>7 DEF Files
      <4>4. S \subseteq Segment
        BY <1>0, <3>4, <3>5 DEF Files
      <4> QED BY <4>2, <4>3, <4>4 DEF Files
    <3>9. Files(rotated') /\ rotated' \subseteq S /\ Cardinality(rotated') <= Retention
      BY <3>6, <3>8, PruneKeeps, Constants
    <3>10. <<a.first, a.last>> = SpanWith(Taken(n))
      BY <3>1, <3>2, <3>4
    <3>11. Rotates(n)
      BY <2>1, <3>4, <3>6, <3>7, <3>9, <3>10 DEF Rotates
    <3> QED BY <1>0, <1>1, <2>0, <3>11 DEF AppendBatch, Appends, Rest
  <2>4. CASE ~(Len(log) >= RotateAt)
    <3>1. active' = active \o Taken(n) /\ rotated' = rotated /\ span' = SpanWith(Taken(n))
      BY <1>1, <2>1, <2>4 DEF AppendBatch
    <3>2. span' \in Nat \X Nat /\ span'[1] = Begin
      BY <1>0, <2>0, <3>1, SpanIs
    <3> QED BY <1>0, <1>1, <2>0, <3>1, <3>2 DEF AppendBatch, Appends, Rest
  <2> QED BY <2>3, <2>4
<1>2. ASSUME NEW k \in 0 .. n, AppendFails(n, k) PROVE Appends(n, k)
  <2>0. n \in 1 .. Len(queue)
    BY <1>2 DEF AppendFails
  <2>1. span' \in Nat \X Nat /\ (span' = <<0, 0>> \/ span'[1] = Begin)
    <3>1. \A m \in 1 .. Len(queue) : SpanWith(Taken(m)) \in Nat \X Nat /\ SpanWith(Taken(m))[1] = Begin
      BY <1>0, SpanIs
    <3>4. span = <<0, 0>> \/ span[1] = Begin
      BY DEF Begin
    <3>2. k < n => k + 1 \in 1 .. Len(queue)
      BY <2>0
    <3>3. <<0, 0>> \in Nat \X Nat
      OBVIOUS
    <3> QED BY <1>0, <1>2, <2>0, <3>1, <3>2, <3>3, <3>4 DEF AppendFails
  <2>2. faults' \in 0 .. MaxFaults
    BY <1>0, <1>2, Constants DEF AppendFails
  <2> QED BY <1>2, <2>0, <2>1, <2>2 DEF AppendFails, Appends, Rest
<1> QED BY <1>1, <1>2

\* The process starts again with the log it has read, and the numbers go on at m.
Restarts(disk, log, m) ==
  /\ \E k \in 0 .. Len(queue) : disk = active \o Taken(k) /\ ToSet(disk) \subseteq ToSet(active) \cup ToSet(queue)
  /\ disk \in Seq(Record) /\ log \in Seq(Record) /\ log = Replay(disk)
  /\ ToSet(log) = {r \in InReach \cup ToSet(disk) : snapshot.floor = 0 \/ r.seq >= snapshot.floor}
  /\ m = SeqAfter(log)
  /\ active' = disk /\ rotated' = rotated /\ span' = Ends(disk)
  /\ queue' = <<>> /\ waiting' = {} /\ seq' = m /\ curSeq' = m
  /\ recorded' = log /\ life' = LifeAfter(log) /\ ring' = Incremented(Windows!Empty(-1), log)
  /\ excused' = excused \cup snapshot.flying
  /\ \/ snapshot' = snapshot /\ InReach \cup ToSet(disk) = {}
     \/ snapshot' = [seq |-> m, floor |-> FloorOf(log, m), life |-> LifeAfter(log), flying |-> {}]
  /\ restarts' \in 0 .. MaxRestarts
  /\ UNCHANGED <<clock, shares, inOrder, faults>>

LEMMA RestartSteps ==
  ASSUME TypeInv, NEW k \in 0 .. BatchSize, Restart(k)
  PROVE  \E disk, log, m : Restarts(disk, log, m)
<1>0. /\ queue \in Seq(Record) /\ active \in Seq(Record) /\ Files(rotated)
      /\ restarts \in 0 .. MaxRestarts
  BY DEF TypeInv, TypeOK
<1>1. PICK disk : disk = active \o Taken(k)
  OBVIOUS
<1>2. PICK log : log = Replay(disk)
  OBVIOUS
<1>3. PICK m : m = SeqAfter(log)
  OBVIOUS
<1>4. k \in 0 .. Len(queue)
  BY <1>0, Constants DEF Restart
<1>5. disk \in Seq(Record) /\ ToSet(disk) \subseteq ToSet(active) \cup ToSet(queue)
  <2>1. Taken(k) \in Seq(Record) /\ ToSet(Taken(k)) \subseteq ToSet(queue)
    BY <1>0, <1>4, Cut
  <2> QED BY <1>0, <1>1, <2>1, Concatenation
<1>6. /\ Selected(disk) \in Seq(Record)
      /\ ToSet(Selected(disk)) = InReach \cup ToSet(disk)
      /\ log \in Seq(Record)
      /\ ToSet(log) = {r \in InReach \cup ToSet(disk) : snapshot.floor = 0 \/ r.seq >= snapshot.floor}
  BY <1>0, <1>2, <1>5, ReadSets
<1>7. Selected(disk) = <<>> => InReach \cup ToSet(disk) = {}
  <2>1. ToSet(<<>>) = {}
    BY DEF ToSet
  <2> QED BY <1>6, <2>1
<1>8. snapshot' = IF Selected(disk) = <<>> THEN snapshot
                  ELSE [seq |-> m, floor |-> FloorOf(log, m), life |-> LifeAfter(log), flying |-> {}]
  BY <1>1, <1>2, <1>3 DEF Restart, SnapshotOf
<1>9. restarts' \in 0 .. MaxRestarts
  BY <1>0, Constants DEF Restart
<1>10. /\ active' = disk /\ rotated' = rotated /\ span' = Ends(disk)
       /\ queue' = <<>> /\ waiting' = {} /\ seq' = m /\ curSeq' = m
       /\ recorded' = log /\ life' = LifeAfter(log) /\ ring' = Incremented(Windows!Empty(-1), log)
       /\ excused' = excused \cup snapshot.flying
       /\ UNCHANGED <<clock, shares, inOrder, faults>>
  BY <1>1, <1>2, <1>3 DEF Restart
<1>11. Restarts(disk, log, m)
  BY <1>1, <1>2, <1>3, <1>4, <1>5, <1>6, <1>7, <1>8, <1>9, <1>10 DEF Restarts
<1> QED BY <1>11

-----------------------------------------------------------------------------
(* Counts *)

LEMMA CountIs ==
  ASSUME NEW log \in Seq(Record), NEW T \in SUBSET DOMAIN log
  PROVE  /\ Cardinality(T) \in Nat /\ (Cardinality(T) = 0 <=> T = {})
         /\ (\A i, j \in T : i = j) => Cardinality(T) <= 1
<1>1. IsFiniteSet(T)
  <2>1. IsFiniteSet(1 .. Len(log)) /\ DOMAIN log = 1 .. Len(log)
    BY FS_Interval
  <2> QED BY <2>1, FS_Subset
<1>2. Cardinality(T) \in Nat /\ (Cardinality(T) = 0 <=> T = {})
  BY <1>1, FS_CardinalityType, FS_EmptySet
<1>3. ASSUME \A i, j \in T : i = j, T # {} PROVE Cardinality(T) = 1
  <2>1. PICK i \in T : TRUE
    BY <1>3
  <2>2. T = {i}
    BY <1>3
  <2> QED BY <2>2, FS_Singleton
<1> QED BY <1>2, <1>3

LEMMA TimesIs ==
  ASSUME NEW log \in Seq(Record), NEW s
  PROVE  /\ Times(s, log) \in Nat
         /\ Times(s, log) > 0 <=> s \in SharesOf(ToSet(log))
<1> DEFINE T == {i \in DOMAIN log : log[i].share = s}
<1>1. T \in SUBSET DOMAIN log /\ Times(s, log) = Cardinality(T)
  BY DEF Times
<1>2. Times(s, log) \in Nat /\ (Times(s, log) = 0 <=> T = {})
  <2> HIDE DEF T
  <2> QED BY <1>1, CountIs
<1>3. T # {} <=> s \in SharesOf(ToSet(log))
  BY DEF SharesOf, ToSet
<1> QED BY <1>2, <1>3

\* What the windows, the counters and the tracker make of a batch.
LEMMA Ingested ==
  ASSUME TypeInv, Numbers, NEW n \in 1 .. Len(queue), NEW k, Appends(n, k)
  PROVE  /\ recorded' \in Seq(Record) /\ Given' = Given \cup ToSet(Taken(n))
         /\ life' \in [Share -> Nat]
         /\ \A s \in Share : life'[s] = life[s] + Times(s, Taken(n))
         /\ curSeq' \in 0 .. seq /\ curSeq <= curSeq'
         /\ \A r \in ToSet(Taken(n)) : r.seq <= curSeq'
         /\ curSeq' = curSeq \/ \E r \in ToSet(Taken(n)) : curSeq' = r.seq
<1>0. /\ queue \in Seq(Record) /\ n \in 0 .. Len(queue) /\ recorded \in Seq(Record)
      /\ life \in [Share -> Nat] /\ curSeq \in 0 .. seq /\ seq \in Nat
  BY DEF TypeInv, TypeOK
<1>1. PICK batch : batch = Taken(n)
  OBVIOUS
<1>2. batch \in Seq(Record) /\ ToSet(batch) \subseteq ToSet(queue)
  BY <1>0, <1>1, Cut
<1>3. /\ recorded' = recorded \o batch
      /\ life' = [s \in Share |-> life[s] + Times(s, batch)]
      /\ curSeq' = Max({curSeq} \cup {r.seq : r \in ToSet(batch)})
  BY <1>1 DEF Appends, Ingest
<1>4. recorded' \in Seq(Record) /\ Given' = Given \cup ToSet(batch)
  BY <1>0, <1>2, <1>3, Concatenation DEF Given
<1>5. life' \in [Share -> Nat] /\ \A s \in Share : life'[s] = life[s] + Times(s, batch)
  <2>1. \A s \in Share : Times(s, batch) \in Nat
    BY <1>2, TimesIs
  <2> QED BY <1>0, <1>3, <2>1
<1>6. PICK S : S = {curSeq} \cup {r.seq : r \in ToSet(batch)}
  OBVIOUS
<1>7. S \subseteq Nat /\ S # {} /\ \A x \in S : x <= seq
  <2>1. \A r \in ToSet(batch) : r.seq \in Nat /\ r.seq <= seq
    <3> SUFFICES ASSUME NEW r \in ToSet(batch) PROVE r.seq \in Nat /\ r.seq <= seq
      OBVIOUS
    <3>1. r \in Current /\ r \in Record
      BY <1>2, ElementsAre DEF Current, InFlight
    <3> QED BY <3>1, RecordIs DEF Numbers
  <2> QED BY <1>0, <1>6, <2>1
<1>8. Max(S) \in S /\ \A x \in S : x <= Max(S)
  BY <1>0, <1>7, MaxIs
<1>9. curSeq' = Max(S)
  BY <1>3, <1>6
<1>10. /\ curSeq' \in 0 .. seq /\ curSeq <= curSeq'
       /\ \A r \in ToSet(batch) : r.seq <= curSeq'
       /\ curSeq' = curSeq \/ \E r \in ToSet(batch) : curSeq' = r.seq
  <2>1. curSeq \in S /\ \A r \in ToSet(batch) : r.seq \in S
    BY <1>6
  <2>2. PICK x : x = Max(S)
    OBVIOUS
  <2>3. x \in S /\ \A y \in S : y <= x
    BY <1>8, <2>2
  <2>4. x = curSeq \/ \E r \in ToSet(batch) : x = r.seq
    BY <1>6, <2>3
  <2>5. x \in 0 .. seq
    BY <1>0, <1>7, <2>3
  <2> QED BY <1>9, <2>1, <2>2, <2>3, <2>4, <2>5
<1> QED BY <1>1, <1>4, <1>5, <1>10

\* Where the records of a batch go.
LEMMA AppendMoves ==
  ASSUME TypeInv, NEW n \in 1 .. Len(queue), NEW k \in 0 .. n, Appends(n, k)
  PROVE  /\ ToSet(Taken(n)) \subseteq InFlight /\ InFlight' \subseteq InFlight
         /\ Live' \subseteq Live \cup ToSet(Taken(n))
         /\ Logged' \subseteq Logged \cup ToSet(Taken(n))
         /\ Reached' \subseteq Reached \cup ToSet(Taken(n))
<1>0. /\ queue \in Seq(Record) /\ n \in 0 .. Len(queue) /\ k \in 0 .. Len(queue)
      /\ active \in Seq(Record)
  BY DEF TypeInv, TypeOK
<1>1. /\ Taken(n) \in Seq(Record) /\ Taken(k) \in Seq(Record)
      /\ ToSet(queue) = ToSet(Taken(n)) \cup ToSet(Rest(n))
  BY <1>0, Cut
<1>2. ToSet(Taken(k)) \subseteq ToSet(Taken(n))
  <2>0. Len(Taken(k)) = k /\ Len(Taken(n)) = n
    BY <1>0, Cut
  <2> SUFFICES ASSUME NEW i \in 1 .. k PROVE Taken(k)[i] \in ToSet(Taken(n))
    BY <1>1, <2>0, ElementsAre
  <2>1. i \in 1 .. n /\ Taken(k)[i] = queue[i] /\ Taken(n)[i] = queue[i]
    BY <1>0, Cut
  <2>2. i \in 1 .. Len(Taken(n))
    BY <2>0, <2>1
  <2> QED BY <1>1, <2>1, <2>2, ElementsAre
<1>3. queue' = Rest(n) /\ waiting' = waiting /\ snapshot' = snapshot
  BY DEF Appends
<1>4. ToSet(Taken(n)) \subseteq InFlight /\ InFlight' \subseteq InFlight
  BY <1>1, <1>3 DEF InFlight
<1>5. CASE active' = active \o Taken(k) /\ rotated' = rotated
  <2>1. ToSet(active') = ToSet(active) \cup ToSet(Taken(k))
    BY <1>0, <1>1, <1>5, Concatenation
  <2>2. InReach' = InReach
    BY <1>3, <1>5 DEF InReach, Reach
  <2> QED BY <1>2, <1>4, <1>5, <2>1, <2>2 DEF Live, Logged, Reached
<1>6. CASE Rotates(n)
  <2>1. PICK a \in Segment :
          /\ a.records = active \o Taken(n) /\ rotated' \subseteq rotated \cup {a}
    BY <1>6 DEF Rotates
  <2>2. ToSet(a.records) = ToSet(active) \cup ToSet(Taken(n))
    BY <1>0, <1>1, <2>1, Concatenation
  <2>3. ToSet(active') = {}
    BY <1>6 DEF Rotates, ToSet
  <2>4. Reach' \subseteq Reach \cup {a}
    BY <1>3, <2>1 DEF Reach
  <2>5. Live' \subseteq Live \cup ToSet(Taken(n))
    <3>1. InReach' \subseteq InReach \cup ToSet(a.records)
      BY <2>4 DEF InReach
    <3> QED BY <2>2, <2>3, <3>1 DEF Live
  <2>6. Logged' \subseteq Logged \cup ToSet(Taken(n))
    <3>1. \A b \in rotated' : ToSet(b.records) \subseteq Logged \cup ToSet(Taken(n))
      BY <2>1, <2>2 DEF Logged
    <3> QED BY <2>3, <3>1 DEF Logged
  <2>7. Reached' \subseteq Reached \cup ToSet(Taken(n))
    <3>1. \A b \in rotated' : {r \in ToSet(b.records) : r.seq <= b.last} \subseteq Reached \cup ToSet(Taken(n))
      BY <2>1, <2>2 DEF Reached
    <3> QED BY <2>3, <3>1 DEF Reached
  <2> QED BY <1>4, <2>5, <2>6, <2>7
<1> QED BY <1>5, <1>6 DEF Appends

\* The numbers after a restart go on behind all that was read, or could have been.
LEMMA RestartNumbers ==
  ASSUME TypeInv, Numbers, NEW disk, NEW log, NEW m, Restarts(disk, log, m)
  PROVE  /\ m \in Nat /\ m <= seq /\ snapshot.seq <= m
         /\ InReach \cup ToSet(disk) \subseteq Current
         /\ ToSet(log) \subseteq InReach \cup ToSet(disk)
         /\ \A r \in InReach \cup ToSet(disk) : r.seq <= m
         /\ \A r \in ToSet(log) : snapshot.floor <= r.seq
<1>0. seq \in Nat /\ snapshot.seq \in Nat /\ snapshot.floor \in Nat
  BY DEF TypeInv, TypeOK, Snapshot
<1>1. /\ ToSet(log) = {r \in InReach \cup ToSet(disk) : snapshot.floor = 0 \/ r.seq >= snapshot.floor}
      /\ ToSet(disk) \subseteq ToSet(active) \cup ToSet(queue) /\ m = SeqAfter(log)
  BY DEF Restarts
<1>2. InReach \cup ToSet(disk) \subseteq Current
  BY <1>1 DEF Current, Live, InFlight
<1>3. \A r \in Current : r.seq \in Nat /\ r.seq <= seq
  BY CurrentAreRecords, RecordIs DEF Numbers
<1>4. PICK S : S = {snapshot.seq} \cup {r.seq : r \in ToSet(log)}
  OBVIOUS
<1>5. S \subseteq Nat /\ S # {} /\ \A x \in S : x <= seq
  BY <1>0, <1>1, <1>2, <1>3, <1>4 DEF Numbers
<1>6. Max(S) \in S /\ \A x \in S : x <= Max(S)
  BY <1>0, <1>5, MaxIs
<1>7. m = Max(S)
  BY <1>1, <1>4 DEF SeqAfter
<1>8. m \in Nat /\ m <= seq /\ snapshot.seq <= m /\ \A r \in ToSet(log) : r.seq <= m
  BY <1>4, <1>5, <1>6, <1>7
<1>9. ASSUME NEW r \in InReach \cup ToSet(disk) PROVE r.seq <= m
  <2>1. r.seq \in Nat
    BY <1>2, <1>3
  <2>2. CASE r \in ToSet(log)
    BY <1>8, <2>2
  <2>3. CASE r \notin ToSet(log)
    <3>1. r.seq < snapshot.floor
      BY <1>0, <1>1, <2>1, <2>3
    <3>2. snapshot.floor <= snapshot.seq + 1
      BY DEF Numbers
    <3> QED BY <1>0, <1>8, <2>1, <3>1, <3>2
  <2> QED BY <2>2, <2>3
<1>10. \A r \in ToSet(log) : snapshot.floor <= r.seq
  BY <1>0, <1>1, <1>2, <1>3
<1> QED BY <1>1, <1>2, <1>8, <1>9, <1>10

LEMMA AppendOne ==
  ASSUME NEW V, NEW s \in Seq(V), NEW e \in V
  PROVE  ToSet(Append(s, e)) = ToSet(s) \cup {e}
<1>1. PICK t : t = Append(s, e)
  OBVIOUS
<1>2. /\ t \in Seq(V) /\ Len(t) = Len(s) + 1 /\ t[Len(s) + 1] = e
      /\ \A i \in 1 .. Len(s) : t[i] = s[i]
  BY <1>1
<1>3. ToSet(t) = {t[i] : i \in 1 .. Len(s) + 1} /\ ToSet(s) = {s[i] : i \in 1 .. Len(s)}
  BY <1>2, ElementsAre
<1>4. 1 .. Len(s) + 1 = (1 .. Len(s)) \cup {Len(s) + 1}
  <2>1. Len(s) \in Nat
    OBVIOUS
  <2> QED BY ONLY <2>1
<1>5. ToSet(t) = ToSet(s) \cup {e}
  <2>1. ASSUME NEW i \in 1 .. Len(s) + 1 PROVE t[i] \in ToSet(s) \cup {e}
    <3>1. i \in 1 .. Len(s) \/ i = Len(s) + 1
      BY ONLY <1>4
    <3>2. i \in 1 .. Len(s) => t[i] \in ToSet(s)
      BY ONLY <1>2, <1>3
    <3> QED BY ONLY <3>1, <3>2, <1>2
  <2>2. ASSUME NEW i \in 1 .. Len(s) PROVE s[i] \in ToSet(t)
    <3>1. i \in 1 .. Len(s) + 1 /\ t[i] = s[i]
      BY ONLY <1>2, <1>4
    <3> QED BY ONLY <3>1, <1>3
  <2>3. e \in ToSet(t)
    <3>1. Len(s) + 1 \in 1 .. Len(s) + 1
      BY ONLY <1>4
    <3> QED BY ONLY <3>1, <1>2, <1>3
  <2>4. ToSet(t) \subseteq ToSet(s) \cup {e}
    BY ONLY <2>1, <1>3
  <2>5. ToSet(s) \subseteq ToSet(t)
    BY ONLY <2>2, <1>3
  <2> QED BY ONLY <2>3, <2>4, <2>5
<1> QED BY <1>1, <1>5

LEMMA SubmitMoves ==
  ASSUME TypeInv, Submit
  PROVE  /\ Envelope \in Record /\ InFlight' = InFlight \cup {Envelope}
         /\ queue' \in Seq(Record) /\ Len(queue') <= QueueSize /\ waiting' \subseteq Record
         /\ \/ queue' = Append(queue, Envelope) /\ waiting' = waiting
            \/ queue' = queue /\ waiting' = waiting \cup {Envelope}
         /\ Live' = Live /\ Given' = Given
<1>0. /\ queue \in Seq(Record) /\ Len(queue) \in Nat /\ Len(queue) <= QueueSize
      /\ waiting \subseteq Record /\ seq \in Nat /\ clock \in 0 .. MaxTime /\ shares \in 0 .. MaxShares
  BY DEF TypeInv, TypeOK
<1>1. Envelope \in Record
  <2>1. seq + 1 \in Nat \ {0} /\ shares + 1 \in Share
    BY <1>0, Constants DEF Submit, Share
  <2> QED BY <1>0, <2>1 DEF Envelope, Record
<1>2. PICK e \in Record : e = Envelope
  BY <1>1
<1>3. \/ Len(queue) < QueueSize /\ queue' = Append(queue, e) /\ waiting' = waiting
      \/ queue' = queue /\ waiting' = waiting \cup {e}
  BY <1>2 DEF Submit
<1>4. Append(queue, e) \in Seq(Record) /\ Len(Append(queue, e)) = Len(queue) + 1
  BY <1>0
<1>5. ToSet(Append(queue, e)) = ToSet(queue) \cup {e}
  BY <1>0, AppendOne
<1>6. InFlight' = InFlight \cup {e}
  BY <1>3, <1>5 DEF InFlight
<1>7. Live' = Live /\ Given' = Given
  BY DEF Submit, files, counts, Live, InReach, Reach, Given
<1> QED BY <1>0, <1>1, <1>2, <1>3, <1>4, <1>6, <1>7, Constants

LEMMA AdmitMoves ==
  ASSUME TypeInv, NEW e \in waiting, Admit(e)
  PROVE  /\ InFlight' = InFlight /\ queue' = Append(queue, e) /\ waiting' = waiting \ {e}
         /\ queue' \in Seq(Record) /\ Len(queue') <= QueueSize
         /\ Live' = Live /\ Given' = Given
<1>0. /\ queue \in Seq(Record) /\ Len(queue) \in Nat /\ e \in Record
  BY DEF TypeInv, TypeOK
<1>1. queue' = Append(queue, e) /\ waiting' = waiting \ {e} /\ Len(queue) < QueueSize
  BY DEF Admit
<1>2. Append(queue, e) \in Seq(Record) /\ Len(Append(queue, e)) = Len(queue) + 1
  BY <1>0
<1>3. ToSet(Append(queue, e)) = ToSet(queue) \cup {e}
  BY <1>0, AppendOne
<1>4. InFlight' = InFlight
  BY <1>1, <1>3 DEF InFlight
<1>5. Live' = Live /\ Given' = Given
  BY DEF Admit, files, counts, Live, InReach, Reach, Given
<1> QED BY <1>0, <1>1, <1>2, <1>4, <1>5, Constants

LEMMA SnapshotMoves ==
  ASSUME TypeInv, Numbers, Passed, WriteSnapshot
  PROVE  /\ snapshot' \in Snapshot /\ snapshot'.seq = seq /\ snapshot'.life = life
         /\ snapshot'.floor = FloorOf(recorded, curSeq) /\ snapshot.floor <= snapshot'.floor
         /\ snapshot'.floor <= curSeq + 1 /\ (snapshot'.floor > 0 => curSeq > 0)
         /\ snapshot'.flying = SharesOf(InFlight)
         /\ Live' \subseteq Live /\ InFlight' = InFlight /\ Given' = Given
<1>0. /\ seq \in Nat /\ life \in [Share -> Nat] /\ snapshot.floor \in Nat
      /\ \A a \in rotated : a.last \in Nat
  BY DEF TypeInv, TypeOK, Snapshot, Segment
<1>1. PICK f : f = FloorOf(recorded, curSeq)
  OBVIOUS
<1>2. f \in Nat /\ snapshot.floor <= f /\ f <= curSeq + 1 /\ (f > 0 => curSeq > 0)
  BY <1>1, FloorGrows
<1>3. snapshot' = [seq |-> seq, floor |-> f, life |-> life, flying |-> SharesOf(InFlight)]
  BY <1>1 DEF WriteSnapshot, SnapshotOf
<1>4. SharesOf(InFlight) \subseteq Share
  <2>1. \A r \in InFlight : r.share \in Share
    BY CurrentAreRecords, RecordIs DEF Current
  <2> QED BY <2>1 DEF SharesOf
<1>5. /\ snapshot' \in Snapshot /\ snapshot'.seq = seq /\ snapshot'.life = life
      /\ snapshot'.floor = f /\ snapshot'.flying = SharesOf(InFlight)
  BY <1>0, <1>2, <1>3, <1>4 DEF Snapshot
<1>6. Reach' \subseteq Reach
  <2> SUFFICES ASSUME NEW a \in rotated, f = 0 \/ a.last >= f
               PROVE  snapshot.floor = 0 \/ a.last >= snapshot.floor
    BY <1>5 DEF WriteSnapshot, files, Reach
  <2> QED BY <1>0, <1>2
<1>7. InReach' \subseteq InReach
  BY <1>6 DEF InReach
<1>8. Live' \subseteq Live /\ InFlight' = InFlight /\ Given' = Given
  BY <1>7 DEF WriteSnapshot, files, Live, InFlight, Given
<1> QED BY <1>1, <1>2, <1>5, <1>8

LEMMA LifeIs ==
  ASSUME snapshot \in Snapshot, NEW log \in Seq(Record)
  PROVE  /\ LifeAfter(log) \in [Share -> Nat]
         /\ \A s \in Share :
              /\ LifeAfter(log)[s] = snapshot.life[s] + TimesFrom(snapshot.seq + 1, s, log)
              /\ TimesFrom(snapshot.seq + 1, s, log) \in Nat
              /\ TimesFrom(snapshot.seq + 1, s, log) > 0
                   <=> \E r \in ToSet(log) : r.share = s /\ r.seq > snapshot.seq
<1>0. snapshot.seq \in Nat /\ snapshot.life \in [Share -> Nat]
  BY DEF Snapshot
<1>1. ASSUME NEW s \in Share
      PROVE  /\ TimesFrom(snapshot.seq + 1, s, log) \in Nat
             /\ TimesFrom(snapshot.seq + 1, s, log) > 0
                  <=> \E r \in ToSet(log) : r.share = s /\ r.seq > snapshot.seq
  <2> DEFINE T == {i \in DOMAIN log : log[i].share = s /\ log[i].seq >= snapshot.seq + 1}
  <2>1. T \in SUBSET DOMAIN log /\ TimesFrom(snapshot.seq + 1, s, log) = Cardinality(T)
    BY DEF TimesFrom
  <2>2. Cardinality(T) \in Nat /\ (Cardinality(T) = 0 <=> T = {})
    <3> HIDE DEF T
    <3> QED BY <2>1, CountIs
  <2>3. T # {} <=> \E r \in ToSet(log) : r.share = s /\ r.seq > snapshot.seq
    <3>1. \A i \in DOMAIN log : log[i] \in Record /\ log[i].seq \in Nat
      BY RecordIs
    <3>2. \A i \in DOMAIN log : log[i].seq >= snapshot.seq + 1 <=> log[i].seq > snapshot.seq
      BY <1>0, <3>1
    <3> QED BY <3>2 DEF ToSet
  <2> QED BY <2>1, <2>2, <2>3
<1> QED BY <1>0, <1>1 DEF LifeAfter

\* After a restart, all there is has been read.
LEMMA RestartMoves ==
  ASSUME TypeInv, Numbers, NEW disk, NEW log, NEW m, Restarts(disk, log, m)
  PROVE  /\ snapshot' \in Snapshot /\ life' \in [Share -> Nat]
         /\ snapshot.floor <= snapshot'.floor /\ snapshot.seq <= snapshot'.seq
         /\ snapshot'.seq <= m /\ snapshot'.floor <= m + 1
         /\ snapshot'.floor <= snapshot'.seq + 1 /\ (snapshot'.floor > 0 => snapshot'.seq > 0)
         /\ InFlight' = {} /\ Given' = ToSet(log)
         /\ Live' \subseteq InReach \cup ToSet(disk) /\ Current' \subseteq InReach \cup ToSet(disk)
<1>0. /\ snapshot \in Snapshot /\ snapshot.seq \in Nat /\ snapshot.floor \in Nat
      /\ clock \in Nat /\ \A a \in rotated : a.last \in Nat
  BY Constants DEF TypeInv, TypeOK, Snapshot, Segment
<1>1. log \in Seq(Record) /\ disk \in Seq(Record)
  BY DEF Restarts
<1>2. LifeAfter(log) \in [Share -> Nat]
  BY <1>0, <1>1, LifeIs
<1>3. PICK f : f = FloorOf(log, m)
  OBVIOUS
<1>4. /\ m \in Nat /\ snapshot.seq <= m /\ ToSet(log) \subseteq InReach \cup ToSet(disk)
      /\ \A r \in InReach \cup ToSet(disk) : r.seq <= m
      /\ \A r \in ToSet(log) : snapshot.floor <= r.seq
  BY RestartNumbers
<1>5. f \in Nat /\ snapshot.floor <= f /\ f <= m + 1 /\ (f > 0 => m > 0)
  <2>0. snapshot.floor <= snapshot.seq + 1 /\ (snapshot.floor > 0 => snapshot.seq > 0)
    BY DEF Numbers
  <2>1. CASE \E j \in DOMAIN log : f = log[j].seq
    <3>1. PICK j \in DOMAIN log : f = log[j].seq
      BY <2>1
    <3>2. log[j] \in ToSet(log) /\ log[j] \in Record
      BY <1>1 DEF ToSet
    <3> QED BY <1>0, <1>4, <3>1, <3>2, RecordIs
  <2>2. CASE f = IF m > 0 THEN m + 1 ELSE 0
    BY <1>0, <1>4, <2>0, <2>2
  <2> QED BY <1>0, <1>1, <1>3, <1>4, <2>1, <2>2, FloorIs
<1>6. \/ snapshot' = snapshot
      \/ snapshot' = [seq |-> m, floor |-> f, life |-> LifeAfter(log), flying |-> {}]
  BY <1>3 DEF Restarts
<1>7. /\ snapshot' \in Snapshot /\ snapshot.floor <= snapshot'.floor /\ snapshot.seq <= snapshot'.seq
      /\ snapshot'.seq <= m /\ snapshot'.floor <= m + 1
      /\ snapshot'.floor <= snapshot'.seq + 1 /\ (snapshot'.floor > 0 => snapshot'.seq > 0)
  <2>1. CASE snapshot' = snapshot
    <3>1. snapshot.floor <= snapshot.seq + 1 /\ (snapshot.floor > 0 => snapshot.seq > 0)
      BY DEF Numbers
    <3> QED BY <1>0, <1>4, <2>1, <3>1
  <2>2. CASE snapshot' = [seq |-> m, floor |-> f, life |-> LifeAfter(log), flying |-> {}]
    <3>1. /\ snapshot' \in Snapshot /\ snapshot'.seq = m /\ snapshot'.floor = f
      BY <1>2, <1>4, <1>5, <2>2 DEF Snapshot
    <3> QED BY <1>0, <1>4, <1>5, <3>1
  <2> QED BY <1>6, <2>1, <2>2
<1>8. Reach' \subseteq Reach
  <2>1. snapshot'.floor \in Nat /\ rotated' = rotated
    BY <1>7 DEF Snapshot, Restarts
  <2> SUFFICES ASSUME NEW a \in rotated, snapshot'.floor = 0 \/ a.last >= snapshot'.floor
               PROVE  snapshot.floor = 0 \/ a.last >= snapshot.floor
    BY <2>1 DEF Reach
  <2> QED BY <1>0, <1>7, <2>1
<1>9. InReach' \subseteq InReach
  BY <1>8 DEF InReach
<1>10. InFlight' = {} /\ Given' = ToSet(log) /\ ToSet(active') = ToSet(disk) /\ life' = LifeAfter(log)
  BY DEF Restarts, InFlight, Given, ToSet
<1> QED BY <1>2, <1>4, <1>7, <1>9, <1>10 DEF Live, Current

LEMMA TypeStep ==
  ASSUME TypeInv, Numbers, Passed, [Next]_vars PROVE TypeInv'
<1>0. /\ clock \in 0 .. MaxTime /\ shares \in 0 .. MaxShares /\ seq \in Nat
      /\ queue \in Seq(Record) /\ Len(queue) <= QueueSize
      /\ waiting \subseteq Record /\ active \in Seq(Record) /\ rotated \subseteq Segment
      /\ span \in Nat \X Nat /\ life \in [Share -> Nat] /\ recorded \in Seq(Record)
      /\ curSeq \in 0 .. seq /\ Cardinality(rotated) <= Retention
      /\ excused \subseteq Share /\ inOrder \in BOOLEAN
      /\ restarts \in 0 .. MaxRestarts /\ faults \in 0 .. MaxFaults
      /\ Files(rotated) /\ snapshot \in Snapshot
  BY DEF TypeInv, TypeOK
<1>1. CASE Tick
  BY <1>0, <1>1, Constants DEF Tick, files, counts, TypeInv, TypeOK
<1>2. CASE Submit
  <2>1. /\ queue' \in Seq(Record) /\ Len(queue') <= QueueSize /\ waiting' \subseteq Record
    BY <1>2, SubmitMoves
  <2>2. seq' \in Nat /\ curSeq \in 0 .. seq' /\ shares' \in 0 .. MaxShares
    <3>1. seq' = seq + 1 /\ shares' = shares + 1 /\ shares < MaxShares
      BY <1>2 DEF Submit
    <3> QED BY <1>0, <3>1, Constants
  <2>3. inOrder' \in BOOLEAN
    <3>1. inOrder' = (inOrder /\ waiting = {}) \/ inOrder' = inOrder
      BY <1>2, Zenon DEF Submit
    <3> QED BY <1>0, <3>1
  <2> QED BY <1>0, <1>2, <2>1, <2>2, <2>3 DEF Submit, files, counts, TypeInv, TypeOK
<1>3. CASE WriteSnapshot
  <2>1. snapshot' \in Snapshot
    BY <1>3, SnapshotMoves
  <2> QED BY <1>0, <1>3, <2>1 DEF WriteSnapshot, files, TypeInv, TypeOK
<1>4. ASSUME NEW e \in waiting, Admit(e) PROVE TypeInv'
  <2>1. queue' \in Seq(Record) /\ Len(queue') <= QueueSize /\ waiting' \subseteq Record
    BY <1>0, <1>4, AdmitMoves
  <2>2. inOrder' \in BOOLEAN
    BY <1>0, <1>4 DEF Admit
  <2> QED BY <1>0, <1>4, <2>1, <2>2 DEF Admit, files, counts, TypeInv, TypeOK
<1>5. ASSUME NEW n \in 1 .. BatchSize, AppendBatch(n) \/ \E k \in 0 .. n : AppendFails(n, k)
      PROVE  TypeInv'
  <2>1. PICK k \in 0 .. n : Appends(n, k)
    BY <1>5, AppendSteps
  <2>2. n \in 1 .. Len(queue) /\ n \in 0 .. Len(queue) /\ k \in 0 .. Len(queue) /\ Len(queue) \in Nat
    BY <1>0, <2>1 DEF Appends
  <2>3. recorded' \in Seq(Record) /\ life' \in [Share -> Nat] /\ curSeq' \in 0 .. seq
    BY <2>1, <2>2, Ingested
  <2>4. queue' \in Seq(Record) /\ Len(queue') <= QueueSize
    <3>1. Rest(n) \in Seq(Record) /\ Len(Rest(n)) = Len(queue) - n /\ queue' = Rest(n)
      BY <1>0, <2>1, <2>2, Cut DEF Appends
    <3> QED BY <1>0, <2>2, <3>1, Constants
  <2>5. /\ active' \in Seq(Record) /\ rotated' \subseteq Segment /\ span' \in Nat \X Nat
        /\ Cardinality(rotated') <= Retention /\ Files(rotated')
    <3>1. CASE /\ active' = active \o Taken(k) /\ rotated' = rotated
               /\ span' \in Nat \X Nat /\ (span' = <<0, 0>> \/ span'[1] = Begin)
      BY <1>0, <2>2, <3>1, Cut, Concatenation
    <3>2. CASE Rotates(n)
      BY <3>2 DEF Rotates, Files
    <3> QED BY <2>1, <3>1, <3>2 DEF Appends
  <2> QED BY <1>0, <2>1, <2>3, <2>4, <2>5 DEF Appends, TypeInv, TypeOK
<1>6. ASSUME NEW k \in 0 .. BatchSize, Restart(k) PROVE TypeInv'
  <2>1. PICK disk, log, m : Restarts(disk, log, m)
    BY <1>6, RestartSteps
  <2>2. m \in Nat /\ snapshot' \in Snapshot /\ life' \in [Share -> Nat]
    BY <2>1, RestartNumbers, RestartMoves
  <2>3. disk \in Seq(Record) /\ log \in Seq(Record) /\ span' = Ends(disk)
    BY <2>1 DEF Restarts
  <2>4. span' \in Nat \X Nat
    <3>1. CASE disk = <<>>
      BY <2>3, <3>1 DEF Ends
    <3>2. CASE disk # <<>>
      <4>1. Head(disk) \in Record /\ Last(disk) \in Record
        BY <2>3, <3>2 DEF Last
      <4> QED BY <2>3, <3>2, <4>1, RecordIs DEF Ends
    <3> QED BY <3>1, <3>2
  <2>5. excused' \subseteq Share
    BY <1>0, <2>1 DEF Restarts, Snapshot
  <2>6. queue' \in Seq(Record) /\ Len(queue') <= QueueSize
    BY <2>1, Constants DEF Restarts
  <2> QED BY <1>0, <2>1, <2>2, <2>3, <2>4, <2>5, <2>6 DEF Restarts, TypeInv, TypeOK
<1>7. CASE UNCHANGED vars
  BY <1>0, <1>7 DEF vars, TypeInv, TypeOK
<1> QED BY <1>1, <1>2, <1>3, <1>4, <1>5, <1>6, <1>7 DEF Next

LEMMA NumbersStep ==
  ASSUME TypeInv, Numbers, Passed, [Next]_vars PROVE Numbers'
<1>0. /\ clock \in Nat /\ seq \in Nat /\ curSeq \in Nat /\ curSeq <= seq
      /\ snapshot.seq \in Nat /\ snapshot.floor \in Nat
  BY DEF TypeInv, TypeOK, Snapshot
<1>1. \A r \in Current : r.seq \in Nat /\ r.at \in Nat
  BY CurrentAreRecords, RecordIs
<1>2. CASE Tick
  <2>1. Current' = Current /\ Given' = Given
    BY <1>2 DEF Tick, files, counts, Current, Live, InReach, Reach, InFlight, Given
  <2> QED BY <1>0, <1>1, <1>2, <2>1 DEF Tick, counts, Numbers
<1>3. CASE Submit
  <2>0. PICK e : e = Envelope
    OBVIOUS
  <2>1. /\ Current' = Current \cup {e} /\ Given' = Given
        /\ e.seq = seq + 1 /\ e.at = clock /\ seq' = seq + 1
        /\ UNCHANGED <<clock, curSeq, snapshot>>
    <3>1. InFlight' = InFlight \cup {e} /\ Live' = Live /\ Given' = Given
      BY <1>3, <2>0, SubmitMoves
    <3> QED BY <1>3, <2>0, <3>1 DEF Submit, counts, Current, Envelope
  <2>2. \A r \in Current' : r.seq <= seq' /\ r.at <= clock'
    BY <1>0, <1>1, <2>1 DEF Numbers
  <2>3. \A r, q \in Current' : r.seq <= q.seq => r.at <= q.at
    <3> SUFFICES ASSUME NEW r \in Current \cup {e}, NEW q \in Current \cup {e}, r.seq <= q.seq
                 PROVE  r.at <= q.at
      BY <2>1
    <3>1. CASE r = e /\ q # e
      BY <1>0, <1>1, <2>1, <3>1 DEF Numbers
    <3>2. CASE q = e
      BY <1>0, <1>1, <2>1, <3>2 DEF Numbers
    <3>3. CASE r # e /\ q # e
      BY <3>3 DEF Numbers
    <3> QED BY <3>1, <3>2, <3>3
  <2> QED BY <1>0, <2>1, <2>2, <2>3 DEF Numbers
<1>4. CASE WriteSnapshot
  <2>1. /\ snapshot'.seq = seq /\ snapshot'.floor <= curSeq + 1 /\ (snapshot'.floor > 0 => curSeq > 0)
        /\ Live' \subseteq Live /\ InFlight' = InFlight /\ Given' = Given /\ snapshot'.floor \in Nat
    BY <1>4, SnapshotMoves DEF Snapshot
  <2>2. Current' \subseteq Current
    BY <2>1 DEF Current
  <2>3. UNCHANGED <<clock, seq, curSeq>>
    BY <1>4 DEF WriteSnapshot
  <2>4. snapshot'.floor <= snapshot'.seq + 1 /\ (snapshot'.floor > 0 => snapshot'.seq > 0)
    BY <1>0, <2>1
  <2> QED BY <1>0, <2>1, <2>2, <2>3, <2>4 DEF Numbers
<1>5. ASSUME NEW e \in waiting, Admit(e) PROVE Numbers'
  <2>1. Current' = Current /\ Given' = Given
    BY <1>5, AdmitMoves DEF Current
  <2> QED BY <1>5, <2>1 DEF Admit, counts, Numbers
<1>6. ASSUME NEW n \in 1 .. BatchSize, AppendBatch(n) \/ \E k \in 0 .. n : AppendFails(n, k)
      PROVE  Numbers'
  <2>1. PICK k \in 0 .. n : Appends(n, k)
    BY <1>6, AppendSteps
  <2>2. n \in 1 .. Len(queue)
    BY <2>1 DEF Appends
  <2>3. /\ Given' = Given \cup ToSet(Taken(n)) /\ curSeq' \in 0 .. seq /\ curSeq <= curSeq'
        /\ \A r \in ToSet(Taken(n)) : r.seq <= curSeq'
    BY <2>1, <2>2, Ingested
  <2>4. Current' \subseteq Current /\ Given \subseteq Current
    BY <2>1, <2>2, <2>3, AppendMoves DEF Current
  <2>5. UNCHANGED <<clock, seq, snapshot>>
    BY <2>1 DEF Appends
  <2>6. \A r \in Given' : r.seq <= curSeq'
    BY <1>0, <1>1, <2>3, <2>4 DEF Numbers
  <2>7. snapshot.floor <= curSeq' + 1 /\ (snapshot.floor > 0 => curSeq' > 0)
    BY <1>0, <2>3 DEF Numbers
  <2> QED BY <1>0, <2>4, <2>5, <2>6, <2>7 DEF Numbers
<1>7. ASSUME NEW k \in 0 .. BatchSize, Restart(k) PROVE Numbers'
  <2>1. PICK disk, log, m : Restarts(disk, log, m)
    BY <1>7, RestartSteps
  <2>2. /\ m \in Nat /\ InReach \cup ToSet(disk) \subseteq Current
        /\ ToSet(log) \subseteq InReach \cup ToSet(disk)
        /\ \A r \in InReach \cup ToSet(disk) : r.seq <= m
    BY <2>1, RestartNumbers
  <2>3. /\ snapshot'.seq <= m /\ snapshot'.floor <= m + 1
        /\ snapshot'.floor <= snapshot'.seq + 1 /\ (snapshot'.floor > 0 => snapshot'.seq > 0)
        /\ Given' = ToSet(log) /\ Current' \subseteq InReach \cup ToSet(disk)
        /\ snapshot'.seq \in Nat /\ snapshot'.floor \in Nat
    BY <2>1, RestartMoves DEF Snapshot
  <2>4. seq' = m /\ curSeq' = m /\ clock' = clock
    BY <2>1 DEF Restarts
  <2>5. snapshot'.floor > 0 => curSeq' > 0
    BY <2>2, <2>3, <2>4
  <2>6. \A r \in Current' : r.seq <= seq' /\ r.at <= clock'
    BY <2>2, <2>3, <2>4 DEF Numbers
  <2>7. \A r, q \in Current' : r.seq <= q.seq => r.at <= q.at
    BY <2>2, <2>3 DEF Numbers
  <2>8. \A r \in Given' : r.seq <= curSeq'
    BY <2>2, <2>3, <2>4
  <2> QED BY <2>3, <2>4, <2>5, <2>6, <2>7, <2>8 DEF Numbers
<1>8. CASE UNCHANGED vars
  <2>1. Current' = Current /\ Given' = Given
    BY <1>8 DEF vars, Current, Live, InReach, Reach, InFlight, Given
  <2> QED BY <1>8, <2>1 DEF vars, Numbers
<1> QED BY <1>2, <1>3, <1>4, <1>5, <1>6, <1>7, <1>8 DEF Next

\* Where records are numbered in the order of time, what comes after the record of
\* the floor and has a smaller number leaves the window before it.
LEMMA PassedNow ==
  ASSUME NEW log \in Seq(Record), NEW current \in Nat, clock \in Nat,
         \A r, q \in ToSet(log) : r.seq <= q.seq => r.at <= q.at
  PROVE  \A i \in DOMAIN log : log[i].seq < FloorOf(log, current) =>
           ~Recent(log[i]) \/ \E j \in 1 .. i - 1 : log[i].at <= log[j].at
<1> SUFFICES ASSUME NEW i \in DOMAIN log, log[i].seq < FloorOf(log, current), Recent(log[i])
             PROVE  \E j \in 1 .. i - 1 : log[i].at <= log[j].at
  OBVIOUS
<1>1. PICK m \in DOMAIN log : /\ FloorOf(log, current) = log[m].seq
                              /\ \A j \in 1 .. m - 1 : ~Recent(log[j])
  BY FloorIs
<1>2. i \in Nat /\ m \in Nat /\ i > 0 /\ m > 0 /\ log[i] \in Record /\ log[m] \in Record
  OBVIOUS
<1>3. log[i].seq \in Nat /\ log[m].seq \in Nat /\ log[i].seq < log[m].seq
  BY <1>1, <1>2, RecordIs
<1>4. ~(i <= m - 1)
  BY <1>1, <1>2
<1>5. i # m
  BY <1>3
<1>6. m \in 1 .. i - 1
  BY <1>2, <1>4, <1>5
<1>7. log[i].at <= log[m].at
  <2>1. log[i] \in ToSet(log) /\ log[m] \in ToSet(log)
    BY DEF ToSet
  <2> QED BY <1>3, <2>1
<1> QED BY <1>6, <1>7

LEMMA PassedStep ==
  ASSUME TypeInv, Numbers, Passed, [Next]_vars PROVE Passed'
<1>0. /\ clock \in Nat /\ seq \in Nat /\ curSeq \in Nat /\ curSeq <= seq
      /\ snapshot.seq \in Nat /\ snapshot.floor \in Nat /\ recorded \in Seq(Record)
      /\ queue \in Seq(Record)
  BY DEF TypeInv, TypeOK, Snapshot
<1>1. \A r \in Current : r.seq \in Nat /\ r.at \in Nat /\ r \in Record
  BY CurrentAreRecords, RecordIs
<1>2. CASE Tick
  <2>1. InFlight' = InFlight /\ Given' = Given /\ UNCHANGED <<recorded, curSeq, snapshot>>
    BY <1>2 DEF Tick, files, counts, InFlight, Given
  <2>2. ASSUME NEW i \in DOMAIN recorded, ~Recent(recorded[i]) PROVE ~Recent(recorded[i])'
    <3>1. recorded[i] \in Record
      BY <1>0
    <3>2. recorded[i].at \in Nat
      BY <3>1, RecordIs
    <3>3. clock' = clock + 1 /\ recorded'[i] = recorded[i]
      BY <1>2, <2>1 DEF Tick
    <3> QED BY <1>0, <2>2, <3>2, <3>3, Constants DEF Recent
  <2> QED BY <2>1, <2>2 DEF Passed
<1>3. CASE Submit
  <2>0. PICK e : e = Envelope
    OBVIOUS
  <2>1. InFlight' = InFlight \cup {e} /\ Given' = Given /\ e.seq = seq + 1
    BY <1>3, <2>0, SubmitMoves DEF Envelope
  <2>2. UNCHANGED <<recorded, curSeq, snapshot, clock>>
    BY <1>3 DEF Submit, counts
  <2>3. ~(e.seq <= curSeq)
    BY <1>0, <2>1
  <2>4. \A r \in InFlight' : r.seq <= curSeq' => \E q \in Given' : r.at <= q.at
    BY <2>1, <2>2, <2>3 DEF Passed
  <2> QED BY <2>2, <2>4 DEF Passed, Recent
<1>4. CASE WriteSnapshot
  <2>1. /\ snapshot'.floor = FloorOf(recorded, curSeq)
        /\ InFlight' = InFlight /\ Given' = Given
    BY <1>4, SnapshotMoves
  <2>2. UNCHANGED <<recorded, curSeq, clock>>
    BY <1>4 DEF WriteSnapshot
  <2>3. \A r, q \in ToSet(recorded) : r.seq <= q.seq => r.at <= q.at
    BY DEF Numbers, Current, Given
  <2>4. \A i \in DOMAIN recorded : recorded[i].seq < FloorOf(recorded, curSeq) =>
          ~Recent(recorded[i]) \/ \E j \in 1 .. i - 1 : recorded[i].at <= recorded[j].at
    BY <1>0, <2>3, PassedNow
  <2> QED BY <2>1, <2>2, <2>4 DEF Passed, Recent
<1>5. ASSUME NEW e \in waiting, Admit(e) PROVE Passed'
  <2>1. InFlight' = InFlight /\ Given' = Given
    BY <1>5, AdmitMoves
  <2>2. UNCHANGED <<recorded, curSeq, snapshot, clock>>
    BY <1>5 DEF Admit, counts
  <2> QED BY <2>1, <2>2 DEF Passed, Recent
<1>6. ASSUME NEW n \in 1 .. BatchSize, AppendBatch(n) \/ \E k \in 0 .. n : AppendFails(n, k)
      PROVE  Passed'
  <2>1. PICK k \in 0 .. n : Appends(n, k)
    BY <1>6, AppendSteps
  <2>2. n \in 1 .. Len(queue) /\ n \in 0 .. Len(queue)
    BY <2>1 DEF Appends
  <2>3. /\ Given' = Given \cup ToSet(Taken(n)) /\ curSeq' \in 0 .. seq
        /\ (curSeq' = curSeq \/ \E r \in ToSet(Taken(n)) : curSeq' = r.seq)
    BY <2>1, <2>2, Ingested
  <2>4. ToSet(Taken(n)) \subseteq InFlight /\ InFlight' \subseteq InFlight /\ InFlight \subseteq Current
    BY <2>1, <2>2, AppendMoves DEF Current
  <2>5. UNCHANGED <<clock, snapshot>> /\ recorded' = recorded \o Taken(n)
    BY <2>1 DEF Appends, Ingest
  <2>6. ASSUME NEW r \in InFlight', r.seq <= curSeq' PROVE \E q \in Given' : r.at <= q.at
    <3>1. CASE curSeq' = curSeq
      BY <2>3, <2>4, <2>6, <3>1 DEF Passed
    <3>2. ASSUME NEW b \in ToSet(Taken(n)), curSeq' = b.seq PROVE \E q \in Given' : r.at <= q.at
      <4>1. r.at <= b.at
        BY <2>4, <2>6, <3>2 DEF Numbers
      <4> QED BY <2>3, <4>1
    <3> QED BY <2>3, <3>1, <3>2
  <2>7. ASSUME NEW i \in DOMAIN recorded', recorded'[i].seq < snapshot.floor
        PROVE  ~Recent(recorded'[i]) \/ \E j \in 1 .. i - 1 : recorded'[i].at <= recorded'[j].at
    <3>0. PICK t \in Seq(Record) : t = Taken(n) /\ Len(t) = n
      BY <1>0, <2>2, Cut
    <3>1. PICK N \in Nat : N = Len(recorded)
      BY <1>0
    <3>2. /\ recorded' \in Seq(Record) /\ Len(recorded') = N + n
          /\ \A j \in 1 .. N : recorded'[j] = recorded[j]
          /\ \A j \in 1 .. n : recorded'[N + j] = t[j]
      <4>1. recorded' = recorded \o t
        BY <2>5, <3>0
      <4>2. /\ recorded \o t \in Seq(Record) /\ Len(recorded \o t) = Len(recorded) + Len(t)
            /\ \A j \in 1 .. Len(recorded) : (recorded \o t)[j] = recorded[j]
            /\ \A j \in 1 .. Len(t) : (recorded \o t)[Len(recorded) + j] = t[j]
        <5>1. recorded \in Seq(Record) /\ t \in Seq(Record)
          BY <1>0
        <5> QED BY ONLY <5>1, Concatenation
      <4> QED BY ONLY <3>0, <3>1, <4>1, <4>2
    <3>3. i \in 1 .. N + n /\ n \in Nat
      BY <3>2
    <3>4. CASE i <= N
      <4>1. i \in DOMAIN recorded /\ recorded'[i] = recorded[i] /\ i \in 1 .. N
        BY <1>0, <3>1, <3>2, <3>3, <3>4
      <4>2. ~Recent(recorded[i]) \/ \E j \in 1 .. i - 1 : recorded[i].at <= recorded[j].at
        BY <2>7, <4>1 DEF Passed
      <4>3. \A j \in 1 .. i - 1 : recorded'[j] = recorded[j]
        BY <3>2, <4>1
      <4> QED BY <4>1, <4>2, <4>3
    <3>5. CASE ~(i <= N)
      <4>1. PICK p \in 1 .. n : i = N + p
        <5>1. i - N \in 1 .. n /\ i = N + (i - N)
          BY <3>3, <3>5
        <5> QED BY <5>1
      <4>2. PICK b : b = recorded'[i]
        OBVIOUS
      <4>3. b \in ToSet(Taken(n))
        <5>1. b = t[p] /\ p \in 1 .. Len(t)
          BY <3>0, <3>2, <4>1, <4>2
        <5> QED BY <3>0, <5>1, ElementsAre
      <4>4. b \in InFlight /\ b.seq \in Nat
        BY <1>1, <2>4, <4>3
      <4>5. b.seq <= curSeq
        BY <1>0, <2>7, <4>2, <4>4 DEF Numbers
      <4>6. PICK q \in Given : b.at <= q.at
        BY <4>4, <4>5 DEF Passed
      <4>7. PICK j \in 1 .. N : q = recorded[j]
        BY <1>0, <3>1, ElementsAre DEF Given
      <4>8. j \in 1 .. i - 1
        BY <3>1, <4>1
      <4>9. recorded'[j] = q
        BY <3>2, <4>7
      <4> QED BY <4>2, <4>6, <4>8, <4>9
    <3> QED BY <3>4, <3>5
  <2> QED BY <2>5, <2>6, <2>7 DEF Passed, Recent
<1>7. ASSUME NEW k \in 0 .. BatchSize, Restart(k) PROVE Passed'
  <2>1. PICK disk, log, m : Restarts(disk, log, m)
    BY <1>7, RestartSteps
  <2>2. /\ m \in Nat /\ InReach \cup ToSet(disk) \subseteq Current
        /\ ToSet(log) \subseteq InReach \cup ToSet(disk)
        /\ \A r \in ToSet(log) : snapshot.floor <= r.seq
    BY <2>1, RestartNumbers
  <2>3. InFlight' = {}
    BY <2>1, RestartMoves
  <2>4. log \in Seq(Record) /\ recorded' = log /\ clock' = clock
    BY <2>1 DEF Restarts
  <2>5. \A i \in DOMAIN log : log[i].seq < FloorOf(log, m) =>
          ~Recent(log[i]) \/ \E j \in 1 .. i - 1 : log[i].at <= log[j].at
    <3>1. \A r, q \in ToSet(log) : r.seq <= q.seq => r.at <= q.at
      BY <2>2 DEF Numbers
    <3> QED BY <1>0, <2>2, <2>4, <3>1, PassedNow
  <2>6. \A i \in DOMAIN log : ~(log[i].seq < snapshot.floor)
    <3> SUFFICES ASSUME NEW i \in DOMAIN log PROVE ~(log[i].seq < snapshot.floor)
      OBVIOUS
    <3>1. log[i] \in ToSet(log) /\ log[i] \in Record
      BY <2>4 DEF ToSet
    <3>2. log[i].seq \in Nat /\ snapshot.floor <= log[i].seq
      BY <2>2, <3>1, RecordIs
    <3> QED BY <1>0, <3>2
  <2>7. snapshot' = snapshot \/ snapshot'.floor = FloorOf(log, m)
    BY <2>1 DEF Restarts
  <2> QED BY <2>3, <2>4, <2>5, <2>6, <2>7 DEF Passed, Recent
<1>8. CASE UNCHANGED vars
  BY <1>8 DEF vars, Passed, Recent, InFlight, Given
<1> QED BY <1>2, <1>3, <1>4, <1>5, <1>6, <1>7, <1>8 DEF Next

LEMMA InitNumbers == ASSUME Init PROVE TypeInv /\ Numbers /\ Passed
<1>1. <<>> \in Seq(Record) /\ Len(<<>>) = 0 /\ ToSet(<<>>) = {}
  BY DEF ToSet
<1>2. FloorOf(<<>>, 0) = 0
  <2>1. clock \in Nat /\ DOMAIN <<>> = {}
    BY DEF Init
  <2>2. PICK log \in Seq(Record) : log = <<>> /\ DOMAIN log = {}
    BY <1>1, <2>1
  <2>3. FloorOf(log, 0) = IF 0 > 0 THEN 0 + 1 ELSE 0
    BY <2>1, <2>2, FloorIs
  <2> QED BY <2>2, <2>3
<1>3. /\ snapshot \in Snapshot /\ snapshot.seq = 0 /\ snapshot.floor = 0
      /\ snapshot.life = [s \in Share |-> 0] /\ snapshot.flying = {}
  BY <1>2 DEF Init, SnapshotOf, Snapshot
<1>4. IsFiniteSet(rotated) /\ Cardinality(rotated) = 0
  BY FS_EmptySet DEF Init
<1>5. Files(rotated)
  BY <1>4 DEF Init, Files
<1>6. TypeOK
  BY <1>1, <1>4, Constants DEF Init, TypeOK
<1>7. Current = {} /\ Given = {} /\ InFlight = {}
  BY <1>1 DEF Init, Current, Live, InReach, Reach, InFlight, Given
<1>8. Numbers
  BY <1>3, <1>7 DEF Init, Numbers
<1>9. Passed
  BY <1>7 DEF Init, Passed
<1> QED BY <1>3, <1>5, <1>6, <1>8, <1>9 DEF TypeInv

-----------------------------------------------------------------------------
(* What a restart may leave out of the lifetime counters *)

\* A share the snapshot's number is beyond and its counters are without was in
\* flight when it was taken, or has been left out before.
Missed ==
  \A r \in Reached \cup InFlight :
    r.seq <= snapshot.seq /\ snapshot.life[r.share] = 0 => r.share \in snapshot.flying \cup excused

LEMMA LoggedAreRecords == ASSUME TypeInv PROVE Logged \subseteq Record /\ Reached \subseteq Logged
<1>1. ToSet(active) \subseteq Record
  BY ElementsAre DEF TypeInv, TypeOK
<1>2. ASSUME NEW a \in rotated PROVE ToSet(a.records) \subseteq Record
  <2>1. a.records \in Seq(Record)
    BY DEF TypeInv, TypeOK, Segment
  <2> QED BY <2>1, ElementsAre
<1> QED BY <1>1, <1>2 DEF Logged, Reached

LEMMA RestartReaches ==
  ASSUME NEW disk, NEW log, NEW m, Restarts(disk, log, m)
  PROVE  Reached' \subseteq Reached \cup InFlight /\ Logged' \subseteq Logged \cup InFlight
<1>1. active' = disk /\ rotated' = rotated /\ ToSet(disk) \subseteq ToSet(active) \cup ToSet(queue)
  BY DEF Restarts
<1> QED BY <1>1 DEF Reached, Logged, InFlight

\* A restart reads every record that the name of its file reaches and that is newer
\* than the snapshot.
LEMMA NewIsRead ==
  ASSUME TypeInv, Numbers, NEW disk, NEW log, NEW m, Restarts(disk, log, m),
         NEW r \in Reached', snapshot.seq < r.seq
  PROVE  r \in ToSet(log)
<1>0. snapshot.seq \in Nat /\ snapshot.floor \in Nat /\ \A a \in rotated : a.last \in Nat
  BY DEF TypeInv, TypeOK, Snapshot, Segment
<1>1. r \in Record /\ r.seq \in Nat
  <2>1. r \in Reached \cup InFlight
    BY RestartReaches
  <2>2. r \in Record
    BY <2>1, LoggedAreRecords, CurrentAreRecords DEF Current
  <2> QED BY <2>2, RecordIs
<1>2. snapshot.floor <= r.seq
  BY <1>0, <1>1 DEF Numbers
<1>3. active' = disk /\ rotated' = rotated
  BY DEF Restarts
<1>4. r \in InReach \cup ToSet(disk)
  <2>1. CASE r \in ToSet(disk)
    BY <2>1
  <2>2. ASSUME NEW a \in rotated, r \in ToSet(a.records), r.seq <= a.last PROVE r \in InReach
    <3>1. a.last >= snapshot.floor
      BY <1>0, <1>1, <1>2, <2>2
    <3> QED BY <2>2, <3>1 DEF InReach, Reach
  <2> QED BY <1>3, <2>1, <2>2 DEF Reached
<1> QED BY <1>0, <1>1, <1>2, <1>4 DEF Restarts

LEMMA MissedStep ==
  ASSUME TypeInv, Numbers, Passed, Missed, MissedWereInFlight, [Next]_vars
  PROVE  Missed' /\ MissedWereInFlight'
<1>0. /\ seq \in Nat /\ snapshot.seq \in Nat /\ snapshot.seq <= seq
      /\ life \in [Share -> Nat] /\ snapshot.life \in [Share -> Nat] /\ snapshot \in Snapshot
  BY DEF TypeInv, TypeOK, Snapshot, Numbers
<1>1. \A r \in Reached \cup InFlight : r.seq \in Nat /\ r.share \in Share
  BY LoggedAreRecords, CurrentAreRecords, RecordIs DEF Current
<1>2. CASE Tick
  <2>1. Reached' = Reached /\ InFlight' = InFlight /\ UNCHANGED <<life, snapshot, excused>>
    BY <1>2 DEF Tick, files, counts, Reached, InFlight
  <2> QED BY <2>1 DEF Missed, MissedWereInFlight
<1>3. CASE Submit
  <2>0. PICK e : e = Envelope
    OBVIOUS
  <2>1. InFlight' = InFlight \cup {e} /\ e.seq = seq + 1
    BY <1>3, <2>0, SubmitMoves DEF Envelope
  <2>2. Reached' = Reached /\ UNCHANGED <<life, snapshot, excused>>
    BY <1>3 DEF Submit, files, counts, Reached
  <2>3. ~(e.seq <= snapshot.seq)
    BY <1>0, <2>1
  <2> QED BY <2>1, <2>2, <2>3 DEF Missed, MissedWereInFlight
<1>4. CASE WriteSnapshot
  <2>1. snapshot'.life = life /\ snapshot'.flying = SharesOf(InFlight) /\ InFlight' = InFlight
    BY <1>4, SnapshotMoves
  <2>2. Reached' = Reached /\ UNCHANGED <<life, excused>>
    BY <1>4 DEF WriteSnapshot, files, Reached
  <2>3. \A r \in InFlight : r.share \in SharesOf(InFlight)
    BY DEF SharesOf
  <2> QED BY <2>1, <2>2, <2>3 DEF Missed, MissedWereInFlight
<1>5. ASSUME NEW e \in waiting, Admit(e) PROVE Missed' /\ MissedWereInFlight'
  <2>1. InFlight' = InFlight
    BY <1>5, AdmitMoves
  <2>2. Reached' = Reached /\ UNCHANGED <<life, snapshot, excused>>
    BY <1>5 DEF Admit, files, counts, Reached
  <2> QED BY <2>1, <2>2 DEF Missed, MissedWereInFlight
<1>6. ASSUME NEW n \in 1 .. BatchSize, AppendBatch(n) \/ \E k \in 0 .. n : AppendFails(n, k)
      PROVE  Missed' /\ MissedWereInFlight'
  <2>1. PICK k \in 0 .. n : Appends(n, k)
    BY <1>6, AppendSteps
  <2>2. n \in 1 .. Len(queue) /\ n \in 0 .. Len(queue)
    BY <2>1 DEF Appends
  <2>3. PICK t \in Seq(Record) : t = Taken(n)
    BY <2>2, Cut DEF TypeInv, TypeOK
  <2>4. life' \in [Share -> Nat] /\ \A s \in Share : life'[s] = life[s] + Times(s, t)
    BY <2>1, <2>2, <2>3, Ingested
  <2>5. /\ ToSet(t) \subseteq InFlight /\ InFlight' \subseteq InFlight
        /\ Reached' \subseteq Reached \cup ToSet(t)
    BY <2>1, <2>2, <2>3, AppendMoves
  <2>6. UNCHANGED <<snapshot, excused>>
    BY <2>1 DEF Appends
  <2>7. Missed'
    BY <2>5, <2>6 DEF Missed
  <2>8. ASSUME NEW r \in Reached', life'[r.share] = 0 PROVE r.share \in excused
    <3>1. r.share \in Share
      BY <1>1, <2>5
    <3>2. Times(r.share, t) \in Nat /\ (Times(r.share, t) > 0 <=> r.share \in SharesOf(ToSet(t)))
      BY TimesIs
    <3>3. life[r.share] = 0 /\ Times(r.share, t) = 0
      BY <1>0, <2>4, <2>8, <3>1, <3>2
    <3>4. r \notin ToSet(t)
      BY <3>2, <3>3 DEF SharesOf
    <3> QED BY <2>5, <3>3, <3>4 DEF MissedWereInFlight
  <2> QED BY <2>6, <2>7, <2>8 DEF MissedWereInFlight
<1>7. ASSUME NEW k \in 0 .. BatchSize, Restart(k) PROVE Missed' /\ MissedWereInFlight'
  <2>1. PICK disk, log, m : Restarts(disk, log, m)
    BY <1>7, RestartSteps
  <2>2. Reached' \subseteq Reached \cup InFlight /\ InFlight' = {}
    BY <2>1, RestartReaches, RestartMoves
  <2>3. life' = LifeAfter(log) /\ excused' = excused \cup snapshot.flying /\ log \in Seq(Record)
    BY <2>1 DEF Restarts
  <2>4. ASSUME NEW r \in Reached', life'[r.share] = 0 PROVE r.share \in excused'
    <3>1. r.share \in Share /\ r.seq \in Nat
      BY <1>1, <2>2
    <3>2. PICK c : c = TimesFrom(snapshot.seq + 1, r.share, log)
      OBVIOUS
    <3>3. /\ life'[r.share] = snapshot.life[r.share] + c /\ c \in Nat
          /\ c > 0 <=> \E q \in ToSet(log) : q.share = r.share /\ q.seq > snapshot.seq
      BY <1>0, <2>3, <3>1, <3>2, LifeIs
    <3>4. snapshot.life[r.share] = 0 /\ ~(c > 0)
      BY <1>0, <2>4, <3>1, <3>3
    <3>5. ~(snapshot.seq < r.seq)
      BY <1>0, <2>1, <3>1, <3>3, <3>4, NewIsRead
    <3>6. r.seq <= snapshot.seq
      BY <1>0, <3>1, <3>5
    <3> QED BY <2>2, <2>3, <3>4, <3>6 DEF Missed
  <2>5. snapshot' = snapshot \/ snapshot'.life = life'
    BY <2>1 DEF Restarts
  <2>6. Missed'
    <3>1. CASE snapshot' = snapshot
      BY <2>2, <2>3, <3>1 DEF Missed
    <3>2. CASE snapshot'.life = life'
      BY <2>2, <2>4, <3>2 DEF Missed
    <3> QED BY <2>5, <3>1, <3>2
  <2> QED BY <2>4, <2>6 DEF MissedWereInFlight
<1>8. CASE UNCHANGED vars
  <2>1. Reached' = Reached /\ InFlight' = InFlight /\ UNCHANGED <<life, snapshot, excused>>
    BY <1>8 DEF vars, Reached, InFlight
  <2> QED BY <2>1 DEF Missed, MissedWereInFlight
<1> QED BY <1>2, <1>3, <1>4, <1>5, <1>6, <1>7, <1>8 DEF Next

-----------------------------------------------------------------------------
(* No share is in two places *)

Apart == {p \in Record \X Record : p[1].share # p[2].share}
NoneShared(S, T) == \A r \in S, q \in T : r.share # q.share

Unique ==
  /\ Chain(queue, Apart) /\ Chain(active, Apart) /\ Chain(recorded, Apart)
  /\ \A a \in rotated : Chain(a.records, Apart)
  /\ \A e, f \in waiting : e.share = f.share => e = f
  /\ NoneShared(ToSet(queue), waiting) /\ NoneShared(InFlight, Logged)
  /\ \A a \in rotated : NoneShared(ToSet(a.records), ToSet(active))
  /\ \A a, b \in rotated : a # b => NoneShared(ToSet(a.records), ToSet(b.records))
  /\ \A r \in Logged \cup InFlight : r.share <= shares

\* What is in flight has not been counted, and the snapshot counts no record that
\* a restart would take for newer.
Once ==
  /\ NoneShared(InFlight, Given)
  /\ \A r \in InFlight : life[r.share] = 0 /\ snapshot.life[r.share] = 0
  /\ \A r \in Given : r.share <= shares
  /\ \A s \in Share : s > shares => life[s] = 0 /\ snapshot.life[s] = 0
  /\ \A s \in Share : life[s] <= 1 /\ snapshot.life[s] <= 1
  /\ \A r \in Live : snapshot.life[r.share] > 0 => r.seq <= snapshot.seq

LEMMA AreApart ==
  ASSUME NEW S \in SUBSET Record, NEW T \in SUBSET Record, NoneShared(S, T)
  PROVE  \A x \in S, y \in T : <<x, y>> \in Apart /\ <<y, x>> \in Apart
BY DEF NoneShared, Apart

\* The two parts of a queue keep what holds of any two of its records.
LEMMA CutKeeps ==
  ASSUME queue \in Seq(Record), NEW n \in 0 .. Len(queue), NEW E, Chain(queue, E)
  PROVE  /\ Chain(Taken(n), E) /\ Chain(Rest(n), E)
         /\ \A x \in ToSet(Taken(n)), y \in ToSet(Rest(n)) : <<x, y>> \in E
<1>0. PICK N \in Nat : N = Len(queue) /\ DOMAIN queue = 1 .. N /\ n \in 0 .. N /\ n \in Nat
  OBVIOUS
<1>1. PICK t \in Seq(Record) : t = Taken(n) /\ Len(t) = n /\ \A i \in 1 .. n : t[i] = queue[i]
  BY Cut
<1>2. PICK u \in Seq(Record) : /\ u = Rest(n) /\ Len(u) = N - n
                               /\ \A i \in 1 .. N - n : u[i] = queue[n + i]
  BY <1>0, Cut
<1>3. Chain(t, E)
  <2> SUFFICES ASSUME NEW i \in 1 .. n, NEW j \in 1 .. n, i < j PROVE <<t[i], t[j]>> \in E
    BY <1>1 DEF Chain
  <2>1. i \in 1 .. N /\ j \in 1 .. N
    BY <1>0
  <2> QED BY <1>0, <1>1, <2>1 DEF Chain
<1>4. Chain(u, E)
  <2> SUFFICES ASSUME NEW i \in 1 .. N - n, NEW j \in 1 .. N - n, i < j PROVE <<u[i], u[j]>> \in E
    BY <1>2 DEF Chain
  <2>1. n + i \in 1 .. N /\ n + j \in 1 .. N /\ n + i < n + j
    BY <1>0
  <2> QED BY <1>0, <1>2, <2>1 DEF Chain
<1>5. ASSUME NEW x \in ToSet(t), NEW y \in ToSet(u) PROVE <<x, y>> \in E
  <2>1. PICK i \in 1 .. n : x = t[i]
    BY <1>1, ElementsAre
  <2>2. PICK j \in 1 .. N - n : y = u[j]
    BY <1>2, ElementsAre
  <2>3. i \in 1 .. N /\ n + j \in 1 .. N /\ i < n + j
    BY <1>0
  <2>4. x = queue[i] /\ y = queue[n + j]
    BY <1>1, <1>2, <2>1, <2>2
  <2> QED BY <1>0, <2>3, <2>4 DEF Chain
<1> QED BY <1>1, <1>2, <1>3, <1>4, <1>5

LEMMA AppendKeeps ==
  ASSUME NEW s \in Seq(Record), NEW e \in Record, NEW E, Chain(s, E),
         \A x \in ToSet(s) : <<x, e>> \in E
  PROVE  Chain(Append(s, e), E)
<1>1. PICK N \in Nat : N = Len(s) /\ DOMAIN s = 1 .. N
  OBVIOUS
<1>2. PICK t : t = Append(s, e)
  OBVIOUS
<1>3. t \in Seq(Record) /\ Len(t) = N + 1 /\ t[N + 1] = e /\ \A i \in 1 .. N : t[i] = s[i]
  BY <1>1, <1>2
<1> SUFFICES ASSUME NEW i \in 1 .. N + 1, NEW j \in 1 .. N + 1, i < j PROVE <<t[i], t[j]>> \in E
  BY <1>2, <1>3 DEF Chain
<1>4. i \in 1 .. N /\ t[i] = s[i] /\ s[i] \in ToSet(s)
  BY <1>1, <1>3, ElementsAre
<1>5. CASE j = N + 1
  BY <1>3, <1>4, <1>5
<1>6. CASE j \in 1 .. N
  BY <1>1, <1>3, <1>4, <1>6 DEF Chain
<1> QED BY <1>5, <1>6

LEMMA OnceInChain ==
  ASSUME NEW log \in Seq(Record), Chain(log, Apart), NEW s, NEW n \in Nat
  PROVE  Times(s, log) <= 1 /\ TimesFrom(n, s, log) <= 1
<1>1. ASSUME NEW i \in DOMAIN log, NEW j \in DOMAIN log, log[i].share = log[j].share PROVE i = j
  <2>1. ~(i < j) /\ ~(j < i)
    BY <1>1 DEF Chain, Apart
  <2>2. i \in Nat /\ j \in Nat
    OBVIOUS
  <2> QED BY <2>1, <2>2
<1> DEFINE T == {i \in DOMAIN log : log[i].share = s}
           U == {i \in DOMAIN log : log[i].share = s /\ log[i].seq >= n}
<1>2. /\ T \in SUBSET DOMAIN log /\ \A i, j \in T : i = j
      /\ U \in SUBSET DOMAIN log /\ \A i, j \in U : i = j
  BY <1>1
<1>3. Cardinality(T) <= 1 /\ Cardinality(U) <= 1
  <2> HIDE DEF T, U
  <2> QED BY <1>2, CountIs
<1> QED BY <1>3 DEF Times, TimesFrom

LEMMA PlacesAre ==
  ASSUME TypeInv
  PROVE  /\ ToSet(queue) \subseteq InFlight /\ waiting \subseteq InFlight /\ InFlight \subseteq Record
         /\ ToSet(active) \subseteq Logged /\ Logged \subseteq Record
         /\ \A a \in rotated : /\ a.records \in Seq(Record) /\ ToSet(a.records) \subseteq Logged
         /\ Live \subseteq Logged /\ Given \subseteq Record
<1>1. InFlight \subseteq Record /\ Given \subseteq Record
  BY CurrentAreRecords DEF Current
<1>2. \A a \in rotated : a.records \in Seq(Record) /\ ToSet(a.records) \subseteq Logged
  BY DEF TypeInv, TypeOK, Segment, Logged
<1>3. Live \subseteq Logged
  BY <1>2 DEF Live, InReach, Reach, Logged
<1> QED BY <1>1, <1>2, <1>3, LoggedAreRecords DEF InFlight, Logged

\* What leaves the queue shares nothing with what stays in flight.
LEMMA TakenShareNothing ==
  ASSUME TypeInv, Unique, NEW n \in 0 .. Len(queue)
  PROVE  /\ Taken(n) \in Seq(Record) /\ Chain(Taken(n), Apart) /\ ToSet(Taken(n)) \subseteq ToSet(queue)
         /\ Rest(n) \in Seq(Record) /\ Chain(Rest(n), Apart) /\ ToSet(Rest(n)) \subseteq ToSet(queue)
         /\ NoneShared(ToSet(Taken(n)), ToSet(Rest(n)) \cup waiting)
         /\ NoneShared(ToSet(Taken(n)), Logged)
         /\ Chain(active \o Taken(n), Apart) /\ active \o Taken(n) \in Seq(Record)
         /\ ToSet(active \o Taken(n)) = ToSet(active) \cup ToSet(Taken(n))
         /\ \A a \in rotated : NoneShared(ToSet(a.records), ToSet(active \o Taken(n)))
<1>0. queue \in Seq(Record) /\ active \in Seq(Record)
  BY DEF TypeInv, TypeOK
<1>1. PICK t \in Seq(Record), u \in Seq(Record) :
        /\ t = Taken(n) /\ ToSet(t) \subseteq ToSet(queue)
        /\ u = Rest(n) /\ ToSet(u) \subseteq ToSet(queue)
  BY <1>0, Cut
<1>2. /\ Chain(t, Apart) /\ Chain(u, Apart)
      /\ \A x \in ToSet(t), y \in ToSet(u) : <<x, y>> \in Apart
  BY <1>0, <1>1, CutKeeps DEF Unique
<1>3. NoneShared(ToSet(t), ToSet(u) \cup waiting)
  <2>1. \A x \in ToSet(t), y \in ToSet(u) : x.share # y.share
    BY <1>2 DEF Apart
  <2>2. \A x \in ToSet(queue), y \in waiting : x.share # y.share
    BY DEF Unique, NoneShared
  <2> QED BY <1>1, <2>1, <2>2 DEF NoneShared
<1>4. NoneShared(ToSet(t), Logged)
  BY <1>1, PlacesAre DEF Unique, NoneShared
<1>5. NoneShared(ToSet(active), ToSet(t)) /\ ToSet(active) \subseteq Record /\ ToSet(t) \subseteq Record
  BY <1>1, <1>4, PlacesAre DEF NoneShared
<1>6. \A x \in ToSet(active), y \in ToSet(t) : <<x, y>> \in Apart
  BY <1>5, AreApart
<1>7. Chain(active \o t, Apart)
  BY <1>0, <1>2, <1>6, ChainOfTwo DEF Unique
<1>8. active \o t \in Seq(Record) /\ ToSet(active \o t) = ToSet(active) \cup ToSet(t)
  BY <1>0, Concatenation
<1>9. \A a \in rotated : NoneShared(ToSet(a.records), ToSet(active \o t))
  BY <1>4, <1>8, PlacesAre DEF Unique, NoneShared
<1> QED BY <1>1, <1>2, <1>3, <1>4, <1>7, <1>8, <1>9

\* A replay reads no share twice.
LEMMA ReadApart ==
  ASSUME TypeInv, Unique, NEW disk, NEW log, NEW m, Restarts(disk, log, m)
  PROVE  Chain(disk, Apart) /\ Chain(log, Apart)
<1>0. disk \in Seq(Record) /\ log = Replay(disk) /\ Files(rotated)
  BY DEF TypeInv, Restarts
<1>1. PICK k \in 0 .. Len(queue) : disk = active \o Taken(k)
  BY DEF Restarts
<1>2. Chain(disk, Apart) /\ \A a \in rotated : NoneShared(ToSet(a.records), ToSet(disk))
  BY <1>1, TakenShareNothing
<1>3. ToSet(disk) \subseteq Record /\ \A a \in rotated : ToSet(a.records) \subseteq Record
  BY <1>0, ElementsAre, PlacesAre
<1>4. \A a \in rotated : \A x \in ToSet(a.records), y \in ToSet(disk) : <<x, y>> \in Apart
  BY <1>2, <1>3, AreApart
<1>5. ASSUME NEW a \in rotated, NEW b \in rotated, Before(a, b)
      PROVE  \A x \in ToSet(a.records), y \in ToSet(b.records) : <<x, y>> \in Apart
  <2>1. a # b
    BY <1>0, <1>5, NamesAreOrdered
  <2>2. NoneShared(ToSet(a.records), ToSet(b.records))
    BY <2>1 DEF Unique
  <2> QED BY <1>3, <2>2, AreApart
<1>6. Reach \subseteq rotated /\ \A a \in rotated : Chain(a.records, Apart)
  BY DEF Reach, Unique
<1>7. /\ \A a \in Reach : Chain(a.records, Apart)
      /\ \A a \in Reach : \A x \in ToSet(a.records), y \in ToSet(disk) : <<x, y>> \in Apart
      /\ \A a, b \in Reach : Before(a, b) =>
           \A x \in ToSet(a.records), y \in ToSet(b.records) : <<x, y>> \in Apart
  BY <1>4, <1>5, <1>6
<1> QED BY <1>0, <1>2, <1>7, ReadIs

LEMMA UniqueStep ==
  ASSUME TypeInv, Numbers, Unique, Once, [Next]_vars PROVE Unique'
<1>0. /\ queue \in Seq(Record) /\ active \in Seq(Record) /\ recorded \in Seq(Record)
      /\ shares \in Nat /\ Files(rotated)
      /\ \A r \in Logged \cup InFlight : r.share \in Nat
  <2>1. \A r \in Record : r.share \in Nat
    BY RecordIs DEF Share
  <2> QED BY <2>1, PlacesAre, Constants DEF TypeInv, TypeOK
<1>1. Chain(<<>>, Apart) /\ ToSet(<<>>) = {}
  BY DEF Chain, ToSet
<1>2. CASE Submit
  <2>0. PICK e \in Record : e = Envelope
    BY <1>2, SubmitMoves
  <2>1. e.share = shares + 1 /\ shares' = shares + 1
    BY <1>2, <2>0 DEF Submit, Envelope
  <2>2. /\ InFlight' = InFlight \cup {e}
        /\ \/ queue' = Append(queue, e) /\ waiting' = waiting
           \/ queue' = queue /\ waiting' = waiting \cup {e}
    BY <1>2, <2>0, SubmitMoves
  <2>3. Logged' = Logged /\ UNCHANGED <<active, rotated, recorded>>
    BY <1>2 DEF Submit, files, counts, Logged
  <2>4. \A r \in Logged \cup InFlight : r.share # e.share
    BY <1>0, <2>1 DEF Unique
  <2>5. NoneShared(InFlight', Logged') /\ \A r \in Logged' \cup InFlight' : r.share <= shares'
    BY <1>0, <2>1, <2>2, <2>3, <2>4 DEF Unique, NoneShared
  <2>6. /\ Chain(queue', Apart) /\ NoneShared(ToSet(queue'), waiting')
        /\ \A f, g \in waiting' : f.share = g.share => f = g
    <3>1. CASE queue' = Append(queue, e) /\ waiting' = waiting
      <4>1. \A x \in ToSet(queue) : <<x, e>> \in Apart
        BY <2>4, PlacesAre DEF Apart
      <4>2. Chain(queue', Apart)
        BY <1>0, <3>1, <4>1, AppendKeeps DEF Unique
      <4>3. ToSet(queue') = ToSet(queue) \cup {e}
        BY <1>0, <3>1, AppendOne
      <4>4. NoneShared(ToSet(queue'), waiting')
        BY <2>4, <3>1, <4>3, PlacesAre DEF Unique, NoneShared
      <4> QED BY <3>1, <4>2, <4>4 DEF Unique
    <3>2. CASE queue' = queue /\ waiting' = waiting \cup {e}
      <4>1. NoneShared(ToSet(queue'), waiting')
        BY <2>4, <3>2, PlacesAre DEF Unique, NoneShared
      <4>2. \A f, g \in waiting' : f.share = g.share => f = g
        BY <2>4, <3>2, PlacesAre DEF Unique
      <4> QED BY <3>2, <4>1, <4>2 DEF Unique
    <3> QED BY <2>2, <3>1, <3>2
  <2> QED BY <2>3, <2>5, <2>6 DEF Unique
<1>3. ASSUME NEW e \in waiting, Admit(e) PROVE Unique'
  <2>1. InFlight' = InFlight /\ queue' = Append(queue, e) /\ waiting' = waiting \ {e} /\ e \in Record
    BY <1>3, AdmitMoves, PlacesAre
  <2>2. Logged' = Logged /\ UNCHANGED <<active, rotated, recorded, shares>>
    BY <1>3 DEF Admit, files, counts, Logged
  <2>3. \A x \in ToSet(queue) : <<x, e>> \in Apart
    BY <2>1, PlacesAre DEF Unique, NoneShared, Apart
  <2>4. Chain(queue', Apart)
    BY <1>0, <2>1, <2>3, AppendKeeps DEF Unique
  <2>5. ToSet(queue') = ToSet(queue) \cup {e}
    BY <1>0, <2>1, AppendOne
  <2>6. NoneShared(ToSet(queue'), waiting') /\ \A f, g \in waiting' : f.share = g.share => f = g
    BY <2>1, <2>5 DEF Unique, NoneShared
  <2> QED BY <2>1, <2>2, <2>4, <2>6 DEF Unique
<1>4. ASSUME NEW n \in 1 .. BatchSize, AppendBatch(n) \/ \E k \in 0 .. n : AppendFails(n, k)
      PROVE  Unique'
  <2>1. PICK k \in 0 .. n : Appends(n, k)
    BY <1>4, AppendSteps
  <2>2. n \in 1 .. Len(queue) /\ n \in 0 .. Len(queue) /\ k \in 0 .. Len(queue)
    BY <1>0, <2>1 DEF Appends
  <2>3. /\ queue' = Rest(n) /\ waiting' = waiting /\ recorded' = recorded \o Taken(n)
        /\ shares' = shares
    BY <2>1 DEF Appends, Ingest
  <2>4. PICK t \in Seq(Record), u \in Seq(Record) : t = Taken(n) /\ u = Rest(n)
    BY <2>2, TakenShareNothing
  <2>5. /\ Chain(t, Apart) /\ ToSet(t) \subseteq ToSet(queue)
        /\ Chain(u, Apart) /\ ToSet(u) \subseteq ToSet(queue)
        /\ NoneShared(ToSet(t), ToSet(u) \cup waiting) /\ NoneShared(ToSet(t), Logged)
    BY <2>2, <2>4, TakenShareNothing
  <2>6. Chain(queue', Apart) /\ NoneShared(ToSet(queue'), waiting')
    BY <2>3, <2>4, <2>5 DEF Unique, NoneShared
  <2>7. Logged' \subseteq Logged \cup ToSet(t) /\ InFlight' = ToSet(u) \cup waiting
    BY <2>1, <2>2, <2>3, <2>4, AppendMoves DEF InFlight
  <2>8. InFlight' \subseteq InFlight /\ ToSet(t) \subseteq InFlight
    BY <2>5, <2>7 DEF InFlight
  <2>9. NoneShared(InFlight', Logged')
    BY <2>5, <2>7, <2>8 DEF Unique, NoneShared
  <2>10. \A r \in Logged' \cup InFlight' : r.share <= shares'
    BY <2>3, <2>7, <2>8 DEF Unique
  <2>11. Chain(recorded', Apart)
    <3>1. NoneShared(ToSet(recorded), ToSet(t)) /\ ToSet(recorded) \subseteq Record /\ ToSet(t) \subseteq Record
      BY <2>8, PlacesAre DEF Once, NoneShared, Given
    <3>2. \A x \in ToSet(recorded), y \in ToSet(t) : <<x, y>> \in Apart
      BY <3>1, AreApart
    <3> QED BY <1>0, <2>3, <2>4, <2>5, <3>2, ChainOfTwo DEF Unique
  <2>12. /\ Chain(active', Apart) /\ \A a \in rotated' : Chain(a.records, Apart)
         /\ \A a \in rotated' : NoneShared(ToSet(a.records), ToSet(active'))
         /\ \A a, b \in rotated' : a # b => NoneShared(ToSet(a.records), ToSet(b.records))
    <3>1. CASE active' = active \o Taken(k) /\ rotated' = rotated
      BY <2>2, <3>1, TakenShareNothing DEF Unique
    <3>2. CASE Rotates(n)
      <4>1. PICK a \in Segment :
              /\ a.records = active \o Taken(n)
              /\ rotated' \subseteq {b \in rotated : ~(b.first = a.first /\ b.last = a.last)} \cup {a}
        BY <3>2 DEF Rotates
      <4>2. Chain(a.records, Apart) /\ \A b \in rotated : NoneShared(ToSet(b.records), ToSet(a.records))
        BY <2>2, <4>1, TakenShareNothing
      <4>3. \A b \in rotated' : b \in rotated \/ b = a
        BY <4>1
      <4>4. active' = <<>>
        BY <3>2 DEF Rotates
      <4>5. \A b \in rotated' : Chain(b.records, Apart) /\ NoneShared(ToSet(b.records), ToSet(active'))
        BY <1>1, <4>2, <4>3, <4>4 DEF Unique, NoneShared
      <4>6. \A b, c \in rotated' : b # c => NoneShared(ToSet(b.records), ToSet(c.records))
        BY <4>2, <4>3 DEF Unique, NoneShared
      <4> QED BY <1>1, <4>4, <4>5, <4>6
    <3> QED BY <2>1, <3>1, <3>2 DEF Appends
  <2> QED BY <2>3, <2>6, <2>9, <2>10, <2>11, <2>12 DEF Unique
<1>5. ASSUME NEW k \in 0 .. BatchSize, Restart(k) PROVE Unique'
  <2>1. PICK disk, log, m : Restarts(disk, log, m)
    BY <1>5, RestartSteps
  <2>2. PICK j \in 0 .. Len(queue) : disk = active \o Taken(j)
    BY <2>1 DEF Restarts
  <2>3. /\ active' = disk /\ rotated' = rotated /\ recorded' = log /\ queue' = <<>> /\ waiting' = {}
        /\ shares' = shares
    BY <2>1 DEF Restarts
  <2>4. InFlight' = {} /\ Logged' \subseteq Logged \cup InFlight
    BY <2>1, RestartMoves, RestartReaches
  <2>5. Chain(active', Apart) /\ Chain(recorded', Apart)
    BY <2>1, <2>3, ReadApart
  <2>6. \A a \in rotated' : NoneShared(ToSet(a.records), ToSet(active'))
    BY <2>2, <2>3, TakenShareNothing
  <2>7. \A a, b \in rotated' : a # b => NoneShared(ToSet(a.records), ToSet(b.records))
    BY <2>3 DEF Unique
  <2>8. NoneShared(ToSet(queue'), waiting') /\ NoneShared(InFlight', Logged')
    BY <2>3, <2>4 DEF NoneShared
  <2>9. \A r \in Logged' \cup InFlight' : r.share <= shares'
    BY <2>3, <2>4 DEF Unique
  <2>10. /\ \A a \in rotated' : Chain(a.records, Apart)
         /\ Chain(queue', Apart) /\ \A e, f \in waiting' : e.share = f.share => e = f
    BY <1>1, <2>3 DEF Unique
  <2> QED BY <2>5, <2>6, <2>7, <2>8, <2>9, <2>10 DEF Unique
<1>6. CASE Tick \/ WriteSnapshot \/ UNCHANGED vars
  <2>1. UNCHANGED <<queue, waiting, active, rotated, recorded, shares>>
    BY <1>6 DEF Tick, WriteSnapshot, vars, files, counts
  <2>2. Logged' = Logged /\ InFlight' = InFlight
    BY <2>1 DEF Logged, InFlight
  <2> QED BY <2>1, <2>2 DEF Unique
<1> QED BY <1>2, <1>3, <1>4, <1>5, <1>6 DEF Next

LEMMA OnceStep ==
  ASSUME TypeInv, Numbers, Passed, Unique, Once, [Next]_vars PROVE Once'
<1>0. /\ shares \in Nat /\ seq \in Nat /\ life \in [Share -> Nat]
      /\ snapshot \in Snapshot /\ snapshot.seq \in Nat /\ snapshot.life \in [Share -> Nat]
      /\ \A s \in Share : s \in Nat
      /\ \A r \in Record : r.share \in Share /\ r.seq \in Nat
  <2>1. \A r \in Record : r.share \in Share /\ r.seq \in Nat
    BY RecordIs
  <2>2. \A s \in Share : s \in Nat
    BY DEF Share
  <2> QED BY <2>1, <2>2, Constants DEF TypeInv, TypeOK, Snapshot
<1>1. CASE Submit
  <2>0. PICK e \in Record : e = Envelope
    BY <1>1, SubmitMoves
  <2>1. e.share = shares + 1 /\ shares' = shares + 1 /\ e.share \in Share
    BY <1>0, <1>1, <2>0 DEF Submit, Envelope
  <2>2. InFlight' = InFlight \cup {e} /\ Live' = Live /\ Given' = Given /\ UNCHANGED <<life, snapshot>>
    BY <1>1, <2>0, SubmitMoves DEF Submit, counts
  <2>3. life[e.share] = 0 /\ snapshot.life[e.share] = 0
    BY <1>0, <2>1 DEF Once
  <2>4. \A r \in Given : r.share # e.share
    BY <1>0, <2>1, PlacesAre DEF Once
  <2>5. NoneShared(InFlight', Given')
    BY <2>2, <2>4 DEF Once, NoneShared
  <2>6. /\ \A r \in Given' : r.share <= shares'
        /\ \A s \in Share : s > shares' => life[s] = 0 /\ snapshot.life[s] = 0
    BY <1>0, <2>1, <2>2, PlacesAre DEF Once
  <2> QED BY <2>2, <2>3, <2>5, <2>6 DEF Once
<1>2. CASE WriteSnapshot
  <2>1. /\ snapshot'.seq = seq /\ snapshot'.life = life
        /\ Live' \subseteq Live /\ InFlight' = InFlight /\ Given' = Given
    BY <1>2, SnapshotMoves
  <2>2. life' = life /\ shares' = shares
    BY <1>2 DEF WriteSnapshot
  <2>3. \A r \in Live' : r.seq <= snapshot'.seq
    BY <2>1 DEF Numbers, Current
  <2> QED BY <2>1, <2>2, <2>3 DEF Once
<1>3. ASSUME NEW e \in waiting, Admit(e) PROVE Once'
  <2>1. InFlight' = InFlight /\ Live' = Live /\ Given' = Given /\ UNCHANGED <<life, snapshot, shares>>
    BY <1>3, AdmitMoves DEF Admit, counts
  <2> QED BY <2>1 DEF Once
<1>4. ASSUME NEW n \in 1 .. BatchSize, AppendBatch(n) \/ \E k \in 0 .. n : AppendFails(n, k)
      PROVE  Once'
  <2>1. PICK k \in 0 .. n : Appends(n, k)
    BY <1>4, AppendSteps
  <2>2. n \in 1 .. Len(queue) /\ n \in 0 .. Len(queue)
    BY <2>1 DEF Appends
  <2>3. PICK t \in Seq(Record) : t = Taken(n)
    BY <2>2, TakenShareNothing
  <2>4. PICK u : u = Rest(n)
    OBVIOUS
  <2>5. /\ Chain(t, Apart) /\ NoneShared(ToSet(t), ToSet(u) \cup waiting)
        /\ ToSet(t) \subseteq ToSet(queue)
    BY <2>2, <2>3, <2>4, TakenShareNothing
  <2>6. /\ ToSet(t) \subseteq InFlight /\ InFlight' \subseteq InFlight
        /\ Live' \subseteq Live \cup ToSet(t)
    BY <2>1, <2>2, <2>3, AppendMoves
  <2>7. InFlight' = ToSet(u) \cup waiting /\ UNCHANGED <<snapshot, shares>>
    BY <2>1, <2>4 DEF Appends, InFlight
  <2>8. /\ Given' = Given \cup ToSet(t) /\ life' \in [Share -> Nat]
        /\ \A s \in Share : life'[s] = life[s] + Times(s, t)
    BY <2>1, <2>2, <2>3, Ingested
  <2>9. NoneShared(InFlight', Given')
    BY <2>5, <2>6, <2>7, <2>8 DEF Once, NoneShared
  <2>10. ASSUME NEW s \in Share
         PROVE  /\ Times(s, t) \in Nat /\ Times(s, t) <= 1
                /\ (\A r \in ToSet(t) : r.share # s) => Times(s, t) = 0
                /\ Times(s, t) > 0 => life[s] = 0 /\ s <= shares
    <3>1. Times(s, t) \in Nat /\ (Times(s, t) > 0 <=> s \in SharesOf(ToSet(t)))
      BY TimesIs
    <3>2. Times(s, t) <= 1
      BY <2>5, OnceInChain
    <3>3. s \in SharesOf(ToSet(t)) => life[s] = 0 /\ s <= shares
      BY <2>6 DEF SharesOf, Once, Unique
    <3>4. (\A r \in ToSet(t) : r.share # s) => s \notin SharesOf(ToSet(t))
      BY DEF SharesOf
    <3> QED BY <3>1, <3>2, <3>3, <3>4
  <2>11. \A r \in InFlight' : life'[r.share] = 0 /\ snapshot'.life[r.share] = 0
    <3> SUFFICES ASSUME NEW r \in InFlight' PROVE life'[r.share] = 0 /\ snapshot'.life[r.share] = 0
      OBVIOUS
    <3>1. r \in InFlight /\ r.share \in Share
      BY <1>0, <2>6, PlacesAre
    <3>2. \A q \in ToSet(t) : q.share # r.share
      BY <2>5, <2>7 DEF NoneShared
    <3>3. Times(r.share, t) = 0
      BY <2>10, <3>1, <3>2
    <3> QED BY <1>0, <2>7, <2>8, <3>1, <3>3 DEF Once
  <2>12. \A r \in Given' : r.share <= shares'
    BY <2>6, <2>7, <2>8 DEF Once, Unique
  <2>13. /\ \A s \in Share : s > shares' => life'[s] = 0 /\ snapshot'.life[s] = 0
         /\ \A s \in Share : life'[s] <= 1 /\ snapshot'.life[s] <= 1
    <3> SUFFICES ASSUME NEW s \in Share
                 PROVE  /\ s > shares => life'[s] = 0 /\ snapshot.life[s] = 0
                        /\ life'[s] <= 1 /\ snapshot.life[s] <= 1
      BY <2>7
    <3>1. life'[s] = life[s] + Times(s, t) /\ life[s] \in Nat /\ s \in Nat
      BY <1>0, <2>8
    <3>2. life[s] <= 1 /\ snapshot.life[s] <= 1 /\ (s > shares => life[s] = 0 /\ snapshot.life[s] = 0)
      BY DEF Once
    <3> QED BY <1>0, <2>10, <3>1, <3>2
  <2>14. \A r \in Live' : snapshot'.life[r.share] > 0 => r.seq <= snapshot'.seq
    <3> SUFFICES ASSUME NEW r \in Live', snapshot.life[r.share] > 0 PROVE r.seq <= snapshot.seq
      BY <2>7
    <3>1. r \notin ToSet(t)
      BY <2>6 DEF Once
    <3> QED BY <2>6, <3>1 DEF Once
  <2> QED BY <2>9, <2>11, <2>12, <2>13, <2>14 DEF Once
<1>5. ASSUME NEW k \in 0 .. BatchSize, Restart(k) PROVE Once'
  <2>1. PICK disk, log, m : Restarts(disk, log, m)
    BY <1>5, RestartSteps
  <2>2. /\ InFlight' = {} /\ Given' = ToSet(log) /\ Live' \subseteq InReach \cup ToSet(disk)
    BY <2>1, RestartMoves
  <2>3. /\ ToSet(log) \subseteq InReach \cup ToSet(disk) /\ \A r \in InReach \cup ToSet(disk) : r.seq <= m
    BY <2>1, RestartNumbers
  <2>4. InReach \cup ToSet(disk) \subseteq Live \cup InFlight
    BY <2>1 DEF Restarts, Live, InFlight
  <2>5. /\ life' = LifeAfter(log) /\ log \in Seq(Record) /\ shares' = shares
        /\ snapshot' = snapshot \/ (snapshot'.seq = m /\ snapshot'.life = LifeAfter(log))
    BY <2>1 DEF Restarts
  <2>6. Chain(log, Apart)
    BY <2>1, ReadApart
  <2>7. ASSUME NEW r \in ToSet(log), r.seq > snapshot.seq
        PROVE  snapshot.life[r.share] = 0 /\ r.share <= shares
    <3>1. r \in Live \cup InFlight /\ r \in Record
      BY <2>3, <2>4, PlacesAre
    <3>2. r.share \in Share /\ snapshot.life[r.share] \in Nat /\ r.seq \in Nat
      BY <1>0, <3>1
    <3>3. snapshot.life[r.share] = 0
      <4>1. CASE r \in InFlight
        BY <4>1 DEF Once
      <4>2. CASE r \in Live
        <5>1. snapshot.life[r.share] > 0 => r.seq <= snapshot.seq
          BY <4>2 DEF Once
        <5> QED BY <1>0, <2>7, <3>2, <5>1
      <4> QED BY <3>1, <4>1, <4>2
    <3>4. r.share <= shares
      BY <3>1, PlacesAre DEF Unique
    <3> QED BY <3>3, <3>4
  <2>8. ASSUME NEW s \in Share
        PROVE  life'[s] <= 1 /\ life'[s] \in Nat /\ (s > shares => life'[s] = 0)
    <3>1. PICK c : c = TimesFrom(snapshot.seq + 1, s, log)
      OBVIOUS
    <3>2. /\ life'[s] = snapshot.life[s] + c /\ c \in Nat
          /\ c > 0 <=> \E r \in ToSet(log) : r.share = s /\ r.seq > snapshot.seq
      BY <1>0, <2>5, <3>1, LifeIs
    <3>3. c <= 1
      BY <1>0, <2>5, <2>6, <3>1, OnceInChain
    <3>4. c > 0 => snapshot.life[s] = 0 /\ s <= shares
      BY <2>7, <3>2
    <3>5. /\ snapshot.life[s] \in Nat /\ snapshot.life[s] <= 1 /\ s \in Nat
          /\ s > shares => snapshot.life[s] = 0
      BY <1>0 DEF Once
    <3> QED BY <1>0, <3>2, <3>3, <3>4, <3>5
  <2>9. NoneShared(InFlight', Given') /\ \A r \in InFlight' : life'[r.share] = 0 /\ snapshot'.life[r.share] = 0
    BY <2>2 DEF NoneShared
  <2>10. \A r \in Given' : r.share <= shares'
    BY <2>2, <2>3, <2>4, <2>5, PlacesAre DEF Unique
  <2>11. /\ \A s \in Share : s > shares' => life'[s] = 0 /\ snapshot'.life[s] = 0
         /\ \A s \in Share : life'[s] <= 1 /\ snapshot'.life[s] <= 1
    BY <2>5, <2>8 DEF Once
  <2>12. \A r \in Live' : snapshot'.life[r.share] > 0 => r.seq <= snapshot'.seq
    <3>1. CASE snapshot' = snapshot
      BY <2>2, <2>4, <3>1 DEF Once
    <3>2. CASE snapshot'.seq = m
      BY <2>2, <2>3, <3>2
    <3> QED BY <2>5, <3>1, <3>2
  <2> QED BY <2>9, <2>10, <2>11, <2>12 DEF Once
<1>6. CASE Tick \/ UNCHANGED vars
  <2>1. UNCHANGED <<queue, waiting, active, rotated, recorded, shares, life, snapshot>>
    BY <1>6 DEF Tick, vars, files, counts
  <2>2. Live' = Live /\ InFlight' = InFlight /\ Given' = Given
    BY <2>1 DEF Live, InReach, Reach, InFlight, Given
  <2> QED BY <2>1, <2>2 DEF Once
<1> QED BY <1>1, <1>2, <1>3, <1>4, <1>5, <1>6 DEF Next

-----------------------------------------------------------------------------
(* As long as no share is overtaken *)

Rising == {p \in Record \X Record : p[1].seq < p[2].seq}

\* A file is named after its last record, and lies before the next file.
FileInOrder(a) ==
  /\ Chain(a.records, Rising) /\ a.first <= a.last /\ a.last <= curSeq
  /\ \A r \in ToSet(a.records) : r.seq <= a.last
  /\ \E r \in ToSet(a.records) : r.seq = a.last
  /\ \A r \in ToSet(active) : a.last < r.seq
  /\ span # <<0, 0>> => a.last < span[1]

\* What is in the window and logged was given to the windows, and a replay goes
\* back to it.
Covered == \A r \in Logged : Recent(r) => r \in Given /\ snapshot.floor <= r.seq

LogInOrder ==
  /\ Chain(active, Rising) /\ \A a \in rotated : FileInOrder(a)
  /\ \A a, b \in rotated : a.last < b.first => \A r \in ToSet(b.records) : a.last < r.seq
  /\ \A a, b \in rotated : a = b \/ a.last < b.first \/ b.last < a.first
  /\ span[1] <= curSeq /\ \A r \in ToSet(active) : r.seq <= curSeq

QueueInOrder ==
  /\ Chain(queue, Rising) /\ \A r \in InFlight : curSeq < r.seq
  /\ \A r \in ToSet(queue), e \in waiting : r.seq < e.seq
  /\ \A e, f \in waiting : e.seq = f.seq => e = f

InOrder == LogInOrder /\ QueueInOrder /\ Chain(recorded, Rising) /\ Covered

LEMMA AreRising ==
  ASSUME NEW S \in SUBSET Record, NEW T \in SUBSET Record, NEW n \in Int,
         \A x \in S : x.seq <= n, \A y \in T : n < y.seq
  PROVE  \A x \in S, y \in T : <<x, y>> \in Rising
<1> SUFFICES ASSUME NEW x \in S, NEW y \in T PROVE x.seq < y.seq
  BY DEF Rising
<1>1. x.seq \in Nat /\ y.seq \in Nat /\ x.seq <= n /\ n < y.seq
  BY RecordIs
<1> QED BY <1>1

\* In a rising log nothing of the window is before the floor.
LEMMA FloorBelow ==
  ASSUME NEW log \in Seq(Record), NEW current \in Nat, clock \in Nat, Chain(log, Rising),
         NEW r \in ToSet(log), Recent(r)
  PROVE  FloorOf(log, current) <= r.seq
<1>1. PICK i \in DOMAIN log : r = log[i]
  BY DEF ToSet
<1>2. PICK m \in DOMAIN log : /\ FloorOf(log, current) = log[m].seq
                              /\ \A j \in 1 .. m - 1 : ~Recent(log[j])
  BY <1>1, FloorIs
<1>3. i \in Nat /\ m \in Nat /\ i > 0 /\ m > 0 /\ log[i] \in Record /\ log[m] \in Record
  OBVIOUS
<1>4. ~(i <= m - 1)
  BY <1>1, <1>2, <1>3
<1>5. i = m \/ m < i
  BY <1>3, <1>4
<1>6. m < i => log[m].seq < log[i].seq
  BY DEF Chain, Rising
<1>7. log[i].seq \in Nat /\ log[m].seq \in Nat
  BY <1>3, RecordIs
<1> QED BY <1>1, <1>2, <1>5, <1>6, <1>7

\* What leaves the queue comes after all that is in the log.
LEMMA TakenRise ==
  ASSUME TypeInv, InOrder, NEW n \in 0 .. Len(queue)
  PROVE  /\ Taken(n) \in Seq(Record) /\ Chain(Taken(n), Rising) /\ ToSet(Taken(n)) \subseteq ToSet(queue)
         /\ Rest(n) \in Seq(Record) /\ Chain(Rest(n), Rising) /\ ToSet(Rest(n)) \subseteq ToSet(queue)
         /\ \A x \in ToSet(Taken(n)), y \in ToSet(Rest(n)) \cup waiting : x.seq < y.seq
         /\ \A x \in ToSet(Taken(n)) : curSeq < x.seq
         /\ Chain(active \o Taken(n), Rising) /\ active \o Taken(n) \in Seq(Record)
         /\ ToSet(active \o Taken(n)) = ToSet(active) \cup ToSet(Taken(n))
         /\ \A a \in rotated : \A x \in ToSet(active \o Taken(n)) : a.last < x.seq
<1>0. queue \in Seq(Record) /\ active \in Seq(Record) /\ curSeq \in Int
  BY DEF TypeInv, TypeOK
<1>1. PICK t \in Seq(Record), u \in Seq(Record) :
        /\ t = Taken(n) /\ ToSet(t) \subseteq ToSet(queue)
        /\ u = Rest(n) /\ ToSet(u) \subseteq ToSet(queue)
  BY <1>0, Cut
<1>2. /\ Chain(t, Rising) /\ Chain(u, Rising)
      /\ \A x \in ToSet(t), y \in ToSet(u) : <<x, y>> \in Rising
  BY <1>0, <1>1, CutKeeps DEF InOrder, LogInOrder, QueueInOrder
<1>3. \A x \in ToSet(t), y \in ToSet(u) \cup waiting : x.seq < y.seq
  <2>1. \A x \in ToSet(t), y \in ToSet(u) : x.seq < y.seq
    BY <1>2 DEF Rising
  <2>2. \A x \in ToSet(queue), y \in waiting : x.seq < y.seq
    BY DEF InOrder, LogInOrder, QueueInOrder
  <2> QED BY <1>1, <2>1, <2>2
<1>4. \A x \in ToSet(t) : curSeq < x.seq
  BY <1>1, PlacesAre DEF InOrder, LogInOrder, QueueInOrder
<1>5. ToSet(active) \subseteq Record /\ ToSet(t) \subseteq Record /\ \A x \in ToSet(active) : x.seq <= curSeq
  BY <1>1, PlacesAre, ElementsAre DEF InOrder, LogInOrder, QueueInOrder
<1>6. \A x \in ToSet(active), y \in ToSet(t) : <<x, y>> \in Rising
  BY <1>0, <1>4, <1>5, AreRising
<1>7. Chain(active \o t, Rising)
  BY <1>0, <1>2, <1>6, ChainOfTwo DEF InOrder, LogInOrder, QueueInOrder
<1>8. active \o t \in Seq(Record) /\ ToSet(active \o t) = ToSet(active) \cup ToSet(t)
  BY <1>0, Concatenation
<1>9. \A a \in rotated : \A x \in ToSet(active \o t) : a.last < x.seq
  <2> SUFFICES ASSUME NEW a \in rotated, NEW x \in ToSet(active) \cup ToSet(t) PROVE a.last < x.seq
    BY <1>8
  <2>1. a.last \in Nat /\ a.last <= curSeq /\ \A r \in ToSet(active) : a.last < r.seq
    BY DEF InOrder, LogInOrder, QueueInOrder, FileInOrder, TypeInv, TypeOK, Segment
  <2>2. x \in Record /\ x.seq \in Nat
    BY <1>5, RecordIs
  <2> QED BY <1>0, <1>4, <2>1, <2>2
<1> QED BY <1>1, <1>2, <1>3, <1>4, <1>7, <1>8, <1>9

\* A replay reads in the order of the numbers.
LEMMA ReadRises ==
  ASSUME TypeInv, InOrder, NEW disk, NEW log, NEW m, Restarts(disk, log, m)
  PROVE  Chain(disk, Rising) /\ Chain(log, Rising)
<1>0. disk \in Seq(Record) /\ log = Replay(disk) /\ Files(rotated)
  BY DEF TypeInv, Restarts
<1>1. PICK k \in 0 .. Len(queue) : disk = active \o Taken(k)
  BY DEF Restarts
<1>2. Chain(disk, Rising) /\ \A a \in rotated : \A x \in ToSet(disk) : a.last < x.seq
  BY <1>1, TakenRise
<1>3. /\ ToSet(disk) \subseteq Record
      /\ \A a \in rotated : ToSet(a.records) \subseteq Record /\ a.last \in Int /\ a.first \in Int
  BY <1>0, ElementsAre, PlacesAre DEF TypeInv, TypeOK, Segment
<1>4. \A a \in rotated : FileInOrder(a)
  BY DEF InOrder, LogInOrder, QueueInOrder
<1>5. \A a \in rotated : \A x \in ToSet(a.records), y \in ToSet(disk) : <<x, y>> \in Rising
  BY <1>2, <1>3, <1>4, AreRising DEF FileInOrder
<1>6. ASSUME NEW a \in rotated, NEW b \in rotated, Before(a, b)
      PROVE  \A x \in ToSet(a.records), y \in ToSet(b.records) : <<x, y>> \in Rising
  <2>1. a # b
    BY <1>0, <1>6, NamesAreOrdered
  <2>2. a.first <= b.first /\ a.first <= a.last /\ b.first <= b.last
    BY <1>3, <1>4, <1>6 DEF Before, FileInOrder
  <2>3. a.last < b.first
    <3>1. a.last < b.first \/ b.last < a.first
      BY <2>1 DEF InOrder, LogInOrder, QueueInOrder
    <3> QED BY <1>3, <2>2, <3>1
  <2>4. \A r \in ToSet(b.records) : a.last < r.seq
    BY <2>3 DEF InOrder, LogInOrder, QueueInOrder
  <2> QED BY <1>3, <1>4, <2>4, AreRising DEF FileInOrder
<1>7. Reach \subseteq rotated
  BY DEF Reach
<1>8. /\ \A a \in Reach : Chain(a.records, Rising)
      /\ \A a \in Reach : \A x \in ToSet(a.records), y \in ToSet(disk) : <<x, y>> \in Rising
      /\ \A a, b \in Reach : Before(a, b) =>
           \A x \in ToSet(a.records), y \in ToSet(b.records) : <<x, y>> \in Rising
  BY <1>4, <1>5, <1>6, <1>7 DEF FileInOrder
<1> QED BY <1>0, <1>2, <1>8, ReadIs

LEMMA QueueStep ==
  ASSUME TypeInv, Numbers, InOrder, [Next]_vars, inOrder'
  PROVE  QueueInOrder'
<1>0. /\ queue \in Seq(Record) /\ curSeq \in Nat /\ seq \in Nat /\ curSeq <= seq
      /\ \A r \in InFlight : r \in Record /\ r.seq \in Nat /\ r.seq <= seq
  BY CurrentAreRecords, RecordIs DEF TypeInv, TypeOK, Numbers, Current
<1>1. CASE Submit
  <2>0. PICK e \in Record : e = Envelope
    BY <1>1, SubmitMoves
  <2>1. e.seq = seq + 1 /\ curSeq' = curSeq
    BY <1>1, <2>0 DEF Submit, Envelope, counts
  <2>2. /\ InFlight' = InFlight \cup {e}
        /\ \/ queue' = Append(queue, e) /\ waiting' = waiting /\ waiting = {}
           \/ queue' = queue /\ waiting' = waiting \cup {e}
    BY <1>1, <2>0, SubmitMoves DEF Submit
  <2>3. \A r \in InFlight : r.seq < e.seq /\ r.seq # e.seq
    BY <1>0, <2>1
  <2>4. \A r \in InFlight' : curSeq' < r.seq
    BY <1>0, <2>1, <2>2 DEF InOrder, QueueInOrder
  <2>5. CASE queue' = Append(queue, e) /\ waiting' = {}
    <3>1. \A x \in ToSet(queue) : <<x, e>> \in Rising
      BY <2>3, PlacesAre DEF Rising
    <3>2. Chain(queue', Rising)
      BY <1>0, <2>5, <3>1, AppendKeeps DEF InOrder, QueueInOrder
    <3> QED BY <2>4, <2>5, <3>2 DEF QueueInOrder
  <2>6. CASE queue' = queue /\ waiting' = waiting \cup {e}
    <3>1. \A r \in ToSet(queue'), f \in waiting' : r.seq < f.seq
      BY <2>3, <2>6, PlacesAre DEF InOrder, QueueInOrder
    <3>2. \A f, g \in waiting' : f.seq = g.seq => f = g
      BY <2>3, <2>6, PlacesAre DEF InOrder, QueueInOrder
    <3> QED BY <2>4, <2>6, <3>1, <3>2 DEF InOrder, QueueInOrder
  <2> QED BY <2>2, <2>5, <2>6
<1>2. ASSUME NEW e \in waiting, Admit(e) PROVE QueueInOrder'
  <2>1. /\ InFlight' = InFlight /\ queue' = Append(queue, e) /\ waiting' = waiting \ {e}
        /\ curSeq' = curSeq /\ e \in InFlight
    BY <1>2, AdmitMoves, PlacesAre DEF Admit, counts
  <2>2. \A f \in waiting : e.seq <= f.seq
    BY <1>2 DEF Admit
  <2>3. \A f \in waiting : f # e => e.seq < f.seq
    <3> SUFFICES ASSUME NEW f \in waiting, f # e PROVE e.seq < f.seq
      OBVIOUS
    <3>1. e.seq # f.seq /\ f \in InFlight
      BY PlacesAre DEF InOrder, QueueInOrder
    <3> QED BY <1>0, <2>1, <2>2, <3>1
  <2>4. \A x \in ToSet(queue) : <<x, e>> \in Rising
    BY <1>0, <2>1, PlacesAre DEF Rising, InOrder, QueueInOrder
  <2>5. Chain(queue', Rising)
    BY <1>0, <2>1, <2>4, AppendKeeps DEF InOrder, QueueInOrder
  <2>6. ToSet(queue') = ToSet(queue) \cup {e}
    BY <1>0, <2>1, AppendOne
  <2>7. \A r \in ToSet(queue'), f \in waiting' : r.seq < f.seq
    BY <2>1, <2>3, <2>6 DEF InOrder, QueueInOrder
  <2> QED BY <2>1, <2>5, <2>7 DEF InOrder, QueueInOrder
<1>3. ASSUME NEW n \in 1 .. BatchSize, AppendBatch(n) \/ \E k \in 0 .. n : AppendFails(n, k)
      PROVE  QueueInOrder'
  <2>1. PICK k \in 0 .. n : Appends(n, k)
    BY <1>3, AppendSteps
  <2>2. n \in 1 .. Len(queue) /\ n \in 0 .. Len(queue)
    BY <1>0, <2>1 DEF Appends
  <2>3. queue' = Rest(n) /\ waiting' = waiting
    BY <2>1 DEF Appends
  <2>4. curSeq' = curSeq \/ \E r \in ToSet(Taken(n)) : curSeq' = r.seq
    BY <2>1, <2>2, Ingested
  <2>5. InFlight' = ToSet(Rest(n)) \cup waiting
    BY <2>3 DEF InFlight
  <2>6. /\ Chain(Rest(n), Rising) /\ ToSet(Rest(n)) \subseteq ToSet(queue)
        /\ \A x \in ToSet(Taken(n)), y \in ToSet(Rest(n)) \cup waiting : x.seq < y.seq
    BY <2>2, TakenRise
  <2>7. \A r \in InFlight' : curSeq' < r.seq
    BY <2>4, <2>5, <2>6, PlacesAre DEF InOrder, QueueInOrder
  <2> QED BY <2>3, <2>6, <2>7 DEF InOrder, QueueInOrder
<1>4. ASSUME NEW k \in 0 .. BatchSize, Restart(k) PROVE QueueInOrder'
  <2>1. queue' = <<>> /\ waiting' = {}
    BY <1>4 DEF Restart
  <2>2. ToSet(queue') = {} /\ InFlight' = {} /\ Chain(queue', Rising)
    BY <2>1 DEF ToSet, InFlight, Chain
  <2> QED BY <2>1, <2>2 DEF QueueInOrder
<1>5. CASE Tick \/ WriteSnapshot \/ UNCHANGED vars
  <2>1. UNCHANGED <<queue, waiting, curSeq>>
    BY <1>5 DEF Tick, WriteSnapshot, vars, counts
  <2> QED BY <2>1 DEF InOrder, QueueInOrder, InFlight
<1> QED BY <1>1, <1>2, <1>3, <1>4, <1>5 DEF Next

LEMMA TakenGrow ==
  ASSUME queue \in Seq(Record), NEW n \in 0 .. Len(queue), NEW k \in 0 .. n
  PROVE  ToSet(Taken(k)) \subseteq ToSet(Taken(n))
<1>0. k \in 0 .. Len(queue)
  OBVIOUS
<1>1. PICK t \in Seq(Record) : t = Taken(n) /\ Len(t) = n /\ \A i \in 1 .. n : t[i] = queue[i]
  BY Cut
<1>2. PICK v \in Seq(Record) : v = Taken(k) /\ Len(v) = k /\ \A i \in 1 .. k : v[i] = queue[i]
  BY <1>0, Cut
<1>3. ASSUME NEW i \in 1 .. k PROVE v[i] \in ToSet(t)
  <2>1. i \in 1 .. n
    OBVIOUS
  <2> QED BY <1>1, <1>2, <2>1, ElementsAre
<1> QED BY <1>1, <1>2, <1>3, ElementsAre

LEMMA TakenEnds ==
  ASSUME TypeInv, InOrder, NEW n \in 1 .. Len(queue)
  PROVE  /\ queue[1] \in ToSet(Taken(n)) /\ queue[n] \in ToSet(Taken(n))
         /\ queue[1].seq \in Nat /\ queue[n].seq \in Nat
         /\ \A r \in ToSet(Taken(n)) : queue[1].seq <= r.seq /\ r.seq <= queue[n].seq
<1>0. queue \in Seq(Record) /\ n \in 0 .. Len(queue) /\ 1 \in 1 .. n /\ n \in 1 .. n /\ n \in Nat
  BY DEF TypeInv, TypeOK
<1>1. PICK t \in Seq(Record) : t = Taken(n) /\ Len(t) = n /\ \A i \in 1 .. n : t[i] = queue[i]
  BY <1>0, Cut
<1>2. queue[1] \in ToSet(t) /\ queue[n] \in ToSet(t)
  BY <1>0, <1>1, ElementsAre
<1>3. \A i \in 1 .. n : queue[i].seq \in Nat
  <2> SUFFICES ASSUME NEW i \in 1 .. n PROVE queue[i].seq \in Nat
    OBVIOUS
  <2>1. i \in 1 .. Len(queue)
    BY <1>0
  <2>2. queue[i] \in Record
    BY <1>0, <2>1
  <2> QED BY <2>2, RecordIs
<1>4. ASSUME NEW i \in 1 .. n PROVE queue[1].seq <= queue[i].seq /\ queue[i].seq <= queue[n].seq
  <2>0. 1 \in DOMAIN queue /\ i \in DOMAIN queue /\ n \in DOMAIN queue
    BY <1>0
  <2>1. 1 < i => queue[1].seq < queue[i].seq
    BY <2>0 DEF InOrder, QueueInOrder, Chain, Rising
  <2>2. i < n => queue[i].seq < queue[n].seq
    BY <2>0 DEF InOrder, QueueInOrder, Chain, Rising
  <2>3. (1 = i \/ 1 < i) /\ (i = n \/ i < n)
    BY <1>0
  <2> QED BY <1>0, <1>3, <2>1, <2>2, <2>3
<1>5. \A r \in ToSet(t) : \E i \in 1 .. n : r = queue[i]
  BY <1>1, ElementsAre
<1> QED BY <1>0, <1>1, <1>2, <1>3, <1>4, <1>5

LEMMA LogStep ==
  ASSUME TypeInv, Numbers, InOrder, [Next]_vars PROVE LogInOrder'
<1>0. /\ queue \in Seq(Record) /\ active \in Seq(Record) /\ curSeq \in Nat /\ span \in Nat \X Nat
      /\ \A r \in Logged \cup InFlight : r \in Record /\ r.seq \in Nat
      /\ \A a \in rotated : a.first \in Nat /\ a.last \in Nat
      /\ snapshot.seq \in Nat /\ snapshot.floor \in Nat
  BY PlacesAre, RecordIs DEF TypeInv, TypeOK, Segment, Snapshot
<1>1. \A a \in rotated : FileInOrder(a)
  BY DEF InOrder, LogInOrder
<1>2. ASSUME NEW n \in 1 .. BatchSize, AppendBatch(n) \/ \E k \in 0 .. n : AppendFails(n, k)
      PROVE  LogInOrder'
  <2>1. PICK k \in 0 .. n : Appends(n, k)
    BY <1>2, AppendSteps
  <2>2. n \in 1 .. Len(queue) /\ n \in 0 .. Len(queue) /\ k \in 0 .. Len(queue)
    BY <1>0, <2>1 DEF Appends
  <2>3. PICK c : c = curSeq'
    OBVIOUS
  <2>4. c \in Nat /\ curSeq <= c /\ \A r \in ToSet(Taken(n)) : r.seq <= c
    BY <2>1, <2>2, <2>3, Ingested
  <2>5. /\ queue[1] \in ToSet(Taken(n)) /\ queue[n] \in ToSet(Taken(n))
        /\ queue[1].seq \in Nat /\ queue[n].seq \in Nat
        /\ \A r \in ToSet(Taken(n)) : queue[1].seq <= r.seq /\ r.seq <= queue[n].seq
        /\ \A r \in ToSet(Taken(n)) : curSeq < r.seq
    BY <2>2, TakenEnds, TakenRise
  <2>6. PICK b \in Nat : b = Begin
    BY <1>0, <2>5 DEF Begin
  <2>7. b <= c /\ b <= queue[n].seq /\ \A a \in rotated : a.last < b
    <3>1. CASE span = <<0, 0>>
      <4>1. b = queue[1].seq
        BY <2>6, <3>1 DEF Begin
      <4> QED BY <1>0, <1>1, <2>4, <2>5, <4>1 DEF FileInOrder
    <3>2. CASE span # <<0, 0>>
      <4>1. b = span[1] /\ span[1] <= curSeq
        BY <2>6, <3>2 DEF Begin, InOrder, LogInOrder
      <4> QED BY <1>0, <1>1, <2>4, <2>5, <3>2, <4>1 DEF FileInOrder
    <3> QED BY <3>1, <3>2
  <2>8. CASE /\ active' = active \o Taken(k) /\ rotated' = rotated
             /\ span' \in Nat \X Nat /\ (span' = <<0, 0>> \/ span'[1] = Begin)
    <3>1. /\ Chain(active', Rising) /\ ToSet(active') = ToSet(active) \cup ToSet(Taken(k))
          /\ \A a \in rotated : \A x \in ToSet(active') : a.last < x.seq
      BY <2>2, <2>8, TakenRise
    <3>2. ToSet(Taken(k)) \subseteq ToSet(Taken(n))
      BY <1>0, <2>2, TakenGrow
    <3>3. \A r \in ToSet(active') : r.seq <= c
      <4>1. \A r \in ToSet(active) : r.seq <= curSeq /\ r.seq \in Nat
        BY <1>0, PlacesAre DEF InOrder, LogInOrder
      <4>2. \A r \in ToSet(active) : r.seq <= c
        BY <1>0, <2>4, <4>1
      <4> QED BY <2>4, <3>1, <3>2, <4>2
    <3>4. span'[1] <= c /\ \A a \in rotated : span' # <<0, 0>> => a.last < span'[1]
      <4>1. CASE span' = <<0, 0>>
        BY <2>4, <4>1
      <4>2. CASE span'[1] = b
        BY <2>7, <4>2
      <4> QED BY <2>6, <2>8, <4>1, <4>2
    <3>5. \A a \in rotated : a.last <= c
      BY <1>0, <1>1, <2>4 DEF FileInOrder
    <3>6. \A a \in rotated' : FileInOrder(a)'
      BY <1>1, <2>3, <2>8, <3>1, <3>4, <3>5 DEF FileInOrder
    <3> QED BY <2>3, <2>8, <3>1, <3>3, <3>4, <3>6 DEF InOrder, LogInOrder
  <2>9. CASE Rotates(n)
    <3>1. PICK a \in Segment :
            /\ a.records = active \o Taken(n) /\ <<a.first, a.last>> = SpanWith(Taken(n))
            /\ rotated' \subseteq {d \in rotated : ~(d.first = a.first /\ d.last = a.last)} \cup {a}
      BY <2>9 DEF Rotates
    <3>2. a.first = b /\ a.last = queue[n].seq
      BY <1>0, <2>2, <2>6, <3>1, SpanIs
    <3>3. active' = <<>> /\ span' = <<0, 0>> /\ ToSet(active') = {} /\ Chain(active', Rising)
      BY <2>9 DEF Rotates, ToSet, Chain
    <3>4. /\ Chain(a.records, Rising) /\ ToSet(a.records) = ToSet(active) \cup ToSet(Taken(n))
          /\ \A d \in rotated : \A x \in ToSet(a.records) : d.last < x.seq
      BY <2>2, <3>1, TakenRise
    <3>5. \A r \in ToSet(a.records) : r.seq <= a.last
      <4>1. \A r \in ToSet(active) : r.seq <= curSeq /\ r.seq \in Nat
        BY <1>0, PlacesAre DEF InOrder, LogInOrder
      <4>2. curSeq < queue[n].seq
        BY <2>5
      <4>3. \A r \in ToSet(active) : r.seq <= queue[n].seq
        BY <1>0, <2>5, <4>1, <4>2
      <4> QED BY <2>5, <3>2, <3>4, <4>3
    <3>6. \E r \in ToSet(a.records) : r.seq = a.last
      BY <2>5, <3>2, <3>4
    <3>7. a.first <= a.last /\ a.last <= c
      BY <2>4, <2>5, <2>7, <3>2
    <3>8. FileInOrder(a)'
      BY <2>3, <3>3, <3>4, <3>5, <3>6, <3>7 DEF FileInOrder
    <3>9. \A d \in rotated' : d \in rotated \/ d = a
      BY <3>1
    <3>10. \A d \in rotated : FileInOrder(d)'
      <4>1. \A d \in rotated : d.last <= c
        BY <1>0, <1>1, <2>4 DEF FileInOrder
      <4> QED BY <1>1, <2>3, <3>3, <4>1 DEF FileInOrder
    <3>11. \A d \in rotated : d.last < a.first /\ ~(a.last < d.first)
      <4> SUFFICES ASSUME NEW d \in rotated PROVE d.last < a.first /\ ~(a.last < d.first)
        OBVIOUS
      <4>1. d.last < b /\ d.first <= d.last
        BY <1>1, <2>7 DEF FileInOrder
      <4> QED BY <1>0, <2>5, <2>7, <3>2, <4>1
    <3>12. \A d, e \in rotated' : d = e \/ d.last < e.first \/ e.last < d.first
      BY <3>9, <3>11 DEF InOrder, LogInOrder
    <3>13. \A d, e \in rotated' : d.last < e.first => \A r \in ToSet(e.records) : d.last < r.seq
      <4> SUFFICES ASSUME NEW d \in rotated', NEW e \in rotated', d.last < e.first,
                          NEW r \in ToSet(e.records)
                   PROVE  d.last < r.seq
        OBVIOUS
      <4>1. CASE d \in rotated /\ e \in rotated
        BY <4>1 DEF InOrder, LogInOrder
      <4>2. CASE d \in rotated /\ e = a
        BY <3>4, <4>2
      <4>3. ~(d = a /\ e \in rotated)
        BY <3>11
      <4>4. ~(d = a /\ e = a)
        BY <2>5, <2>7, <3>2
      <4> QED BY <3>9, <4>1, <4>2, <4>3, <4>4
    <3>14. \A d \in rotated' : FileInOrder(d)'
      BY <3>8, <3>9, <3>10
    <3>15. span'[1] <= curSeq'
      BY <2>3, <2>4, <3>3
    <3> QED BY <3>3, <3>12, <3>13, <3>14, <3>15 DEF LogInOrder
  <2> QED BY <2>1, <2>8, <2>9 DEF Appends
<1>3. ASSUME NEW k \in 0 .. BatchSize, Restart(k) PROVE LogInOrder'
  <2>1. PICK disk, log, m : Restarts(disk, log, m)
    BY <1>3, RestartSteps
  <2>2. PICK j \in 0 .. Len(queue) : disk = active \o Taken(j)
    BY <2>1 DEF Restarts
  <2>3. /\ active' = disk /\ rotated' = rotated /\ span' = Ends(disk) /\ curSeq' = m
        /\ disk \in Seq(Record)
    BY <2>1 DEF Restarts
  <2>4. /\ m \in Nat /\ snapshot.seq <= m /\ \A r \in InReach \cup ToSet(disk) : r.seq <= m
    BY <2>1, RestartNumbers
  <2>5. Chain(disk, Rising) /\ \A a \in rotated : \A x \in ToSet(disk) : a.last < x.seq
    BY <2>2, TakenRise
  <2>6. span' = <<0, 0>> \/ \E x \in ToSet(disk) : span'[1] = x.seq
    <3>1. CASE disk = <<>>
      BY <2>3, <3>1 DEF Ends
    <3>2. CASE disk # <<>>
      <4>1. Head(disk) = disk[1] /\ 1 \in DOMAIN disk
        BY <2>3, <3>2
      <4>2. Head(disk) \in ToSet(disk)
        BY <4>1 DEF ToSet
      <4>3. span' = <<Head(disk).seq, Last(disk).seq>>
        BY <2>3, <3>2 DEF Ends
      <4> QED BY <4>2, <4>3
    <3> QED BY <3>1, <3>2
  <2>7. span'[1] <= m
    BY <2>4, <2>6
  <2>8. ASSUME NEW a \in rotated PROVE a.last <= m
    <3>1. CASE a \in Reach
      <4>1. PICK r \in ToSet(a.records) : r.seq = a.last
        BY <1>1 DEF FileInOrder
      <4> QED BY <2>4, <3>1, <4>1 DEF InReach
    <3>2. CASE a \notin Reach
      <4>1. ~(a.last >= snapshot.floor) /\ snapshot.floor <= snapshot.seq + 1
        BY <3>2 DEF Reach, Numbers
      <4> QED BY <1>0, <2>4, <4>1
    <3> QED BY <3>1, <3>2
  <2>9. \A a \in rotated' : FileInOrder(a)'
    BY <1>1, <2>3, <2>5, <2>6, <2>8 DEF FileInOrder
  <2> QED BY <2>3, <2>4, <2>5, <2>7, <2>9 DEF InOrder, LogInOrder
<1>4. CASE Tick \/ Submit \/ WriteSnapshot \/ (\E e \in waiting : Admit(e)) \/ UNCHANGED vars
  <2>1. UNCHANGED <<active, rotated, span, curSeq>>
    BY <1>4 DEF Tick, Submit, WriteSnapshot, Admit, vars, files, counts
  <2>2. \A a \in rotated' : FileInOrder(a)'
    BY <1>1, <2>1 DEF FileInOrder
  <2> QED BY <2>1, <2>2 DEF InOrder, LogInOrder
<1> QED BY <1>2, <1>3, <1>4 DEF Next

LEMMA CoverStep ==
  ASSUME TypeInv, Numbers, Passed, InOrder, [Next]_vars
  PROVE  Chain(recorded', Rising) /\ Covered'
<1>0. /\ recorded \in Seq(Record) /\ clock \in Nat /\ curSeq \in Nat
      /\ snapshot.seq \in Nat /\ snapshot.floor \in Nat
      /\ \A a \in rotated : a.last \in Nat
      /\ \A r \in Logged \cup InFlight \cup Given : r \in Record /\ r.seq \in Nat /\ r.at \in Nat
  BY PlacesAre, RecordIs, Constants DEF TypeInv, TypeOK, Snapshot, Segment
<1>1. CASE Tick
  <2>1. UNCHANGED <<recorded, snapshot, active, rotated>> /\ clock' = clock + 1
    BY <1>1 DEF Tick, files, counts
  <2>2. Logged' = Logged /\ Given' = Given
    BY <2>1 DEF Logged, Given
  <2>3. \A r \in Logged : Recent(r)' => Recent(r)
    <3> SUFFICES ASSUME NEW r \in Logged, r.at + Window > clock + 1 PROVE r.at + Window > clock
      BY <2>1 DEF Recent
    <3> QED BY <1>0, Constants
  <2> QED BY <2>1, <2>2, <2>3 DEF InOrder, Covered
<1>2. CASE WriteSnapshot
  <2>1. snapshot'.floor = FloorOf(recorded, curSeq) /\ Given' = Given
    BY <1>2, SnapshotMoves
  <2>2. UNCHANGED <<recorded, active, rotated, clock>>
    BY <1>2 DEF WriteSnapshot, files
  <2>3. Logged' = Logged
    BY <2>2 DEF Logged
  <2>4. \A r \in Given : Recent(r) => FloorOf(recorded, curSeq) <= r.seq
    BY <1>0, FloorBelow DEF Given, InOrder
  <2> QED BY <2>1, <2>2, <2>3, <2>4 DEF InOrder, Covered, Recent
<1>3. ASSUME NEW n \in 1 .. BatchSize, AppendBatch(n) \/ \E k \in 0 .. n : AppendFails(n, k)
      PROVE  Chain(recorded', Rising) /\ Covered'
  <2>1. PICK k \in 0 .. n : Appends(n, k)
    BY <1>3, AppendSteps
  <2>2. n \in 1 .. Len(queue) /\ n \in 0 .. Len(queue)
    BY <2>1 DEF Appends, TypeInv, TypeOK
  <2>3. PICK t \in Seq(Record) : t = Taken(n)
    BY <2>2, TakenRise
  <2>4. /\ recorded' = recorded \o t /\ UNCHANGED <<clock, snapshot>>
    BY <2>1, <2>3 DEF Appends, Ingest
  <2>5. Chain(t, Rising) /\ \A x \in ToSet(t) : curSeq < x.seq
    BY <2>2, <2>3, TakenRise
  <2>6. Given' = Given \cup ToSet(t)
    BY <2>1, <2>2, <2>3, Ingested
  <2>7. Logged' \subseteq Logged \cup ToSet(t) /\ ToSet(t) \subseteq InFlight
    BY <2>1, <2>2, <2>3, AppendMoves
  <2>8. \A x \in ToSet(recorded), y \in ToSet(t) : <<x, y>> \in Rising
    <3>1. \A x \in ToSet(recorded) : x.seq <= curSeq
      BY DEF Numbers, Given
    <3>2. ToSet(recorded) \subseteq Record /\ ToSet(t) \subseteq Record
      BY <1>0, <2>7 DEF Given
    <3>3. \A y \in ToSet(t) : curSeq < y.seq
      BY <2>5
    <3>4. curSeq \in Int
      BY <1>0
    <3> QED BY ONLY <3>1, <3>2, <3>3, <3>4, AreRising
  <2>9. Chain(recorded', Rising)
    BY <1>0, <2>3, <2>4, <2>5, <2>8, ChainOfTwo DEF InOrder
  <2>10. \A r \in ToSet(t) : snapshot.floor <= r.seq
    <3> SUFFICES ASSUME NEW r \in ToSet(t) PROVE snapshot.floor <= r.seq
      OBVIOUS
    <3>1. r.seq \in Nat /\ curSeq < r.seq /\ snapshot.floor <= curSeq + 1
      BY <1>0, <2>5, <2>7 DEF Numbers
    <3> QED BY <1>0, <3>1
  <2> QED BY <2>4, <2>6, <2>7, <2>9, <2>10 DEF InOrder, Covered, Recent
<1>4. ASSUME NEW k \in 0 .. BatchSize, Restart(k) PROVE Chain(recorded', Rising) /\ Covered'
  <2>1. PICK disk, log, m : Restarts(disk, log, m)
    BY <1>4, RestartSteps
  <2>2. /\ active' = disk /\ rotated' = rotated /\ recorded' = log /\ clock' = clock
        /\ log \in Seq(Record)
        /\ ToSet(log) = {r \in InReach \cup ToSet(disk) : snapshot.floor = 0 \/ r.seq >= snapshot.floor}
        /\ ToSet(disk) \subseteq ToSet(active) \cup ToSet(queue)
        /\ snapshot' = snapshot \/ snapshot'.floor = FloorOf(log, m)
    BY <2>1 DEF Restarts
  <2>3. m \in Nat /\ Given' = ToSet(log)
    BY <2>1, RestartNumbers, RestartMoves
  <2>4. Chain(log, Rising)
    BY <2>1, ReadRises
  <2>5. ASSUME NEW r \in Logged', Recent(r) PROVE r \in ToSet(log) /\ snapshot.floor <= r.seq
    <3>1. r \in Logged \cup InFlight
      BY <2>1, RestartReaches
    <3>2. snapshot.floor <= r.seq
      <4>1. CASE r \in Logged
        BY <2>5, <4>1 DEF InOrder, Covered
      <4>2. CASE r \in InFlight
        <5>1. r.seq \in Nat /\ curSeq < r.seq /\ snapshot.floor <= curSeq + 1
          BY <1>0, <4>2 DEF Numbers, InOrder, QueueInOrder
        <5> QED BY <1>0, <5>1
      <4> QED BY <3>1, <4>1, <4>2
    <3>3. r \in InReach \cup ToSet(disk)
      <4>1. CASE r \in ToSet(disk)
        BY <4>1
      <4>2. ASSUME NEW a \in rotated, r \in ToSet(a.records) PROVE r \in InReach
        <5>1. r.seq <= a.last /\ r.seq \in Nat /\ a.last \in Nat
          BY <1>0, <3>1, <4>2 DEF InOrder, LogInOrder, FileInOrder
        <5>2. a.last >= snapshot.floor
          BY <1>0, <3>2, <5>1
        <5> QED BY <4>2, <5>2 DEF InReach, Reach
      <4> QED BY <2>2, <4>1, <4>2 DEF Logged
    <3>4. r.seq \in Nat
      BY <1>0, <3>1
    <3> QED BY <1>0, <2>2, <3>2, <3>3, <3>4
  <2>6. ASSUME NEW r \in Logged', Recent(r) PROVE FloorOf(log, m) <= r.seq
    BY <1>0, <2>2, <2>3, <2>4, <2>5, <2>6, FloorBelow
  <2>7. \A r \in Logged' : Recent(r) => r \in Given' /\ snapshot'.floor <= r.seq
    BY <2>2, <2>3, <2>5, <2>6
  <2> QED BY <2>2, <2>4, <2>7 DEF Covered, Recent
<1>5. CASE Submit \/ (\E e \in waiting : Admit(e)) \/ UNCHANGED vars
  <2>1. UNCHANGED <<recorded, snapshot, active, rotated, clock>>
    BY <1>5 DEF Submit, Admit, vars, files, counts
  <2>2. Logged' = Logged /\ Given' = Given
    BY <2>1 DEF Logged, Given
  <2> QED BY <2>1, <2>2 DEF InOrder, Covered, Recent
<1> QED BY <1>1, <1>2, <1>3, <1>4, <1>5 DEF Next

LEMMA OrderStays == ASSUME [Next]_vars, inOrder \in BOOLEAN, inOrder' PROVE inOrder
<1>1. CASE Submit
  BY <1>1, Zenon DEF Submit
<1>2. ASSUME NEW e \in waiting, Admit(e) PROVE inOrder
  BY <1>2 DEF Admit
<1>3. CASE Tick \/ WriteSnapshot \/ UNCHANGED vars
  BY <1>3 DEF Tick, WriteSnapshot, vars
<1>4. ASSUME NEW n \in 1 .. BatchSize, AppendBatch(n) PROVE inOrder
  BY <1>4 DEF AppendBatch
<1>5. ASSUME NEW n \in 1 .. BatchSize, NEW k \in 0 .. n, AppendFails(n, k) PROVE inOrder
  BY <1>5 DEF AppendFails
<1>6. ASSUME NEW k \in 0 .. BatchSize, Restart(k) PROVE inOrder
  BY <1>6 DEF Restart
<1> QED BY <1>1, <1>2, <1>3, <1>4, <1>5, <1>6 DEF Next

-----------------------------------------------------------------------------
(* The ring of one-second buckets *)

LEMMA DivisionIs ==
  ASSUME NEW w \in Nat \ {0}, NEW t \in Int
  PROVE  \E d \in Int, m \in 0 .. w - 1 : t = w * d + m /\ t % w = m
<1>1. t % w \in 0 .. w - 1 /\ t = w * (t \div w) + (t % w) /\ t \div w \in Int
  OBVIOUS
<1> QED BY <1>1

LEMMA NoMultiple == ASSUME NEW w \in Nat \ {0}, NEW p \in Int, -w < w * p, w * p < w PROVE p = 0
  OBVIOUS

\* Seconds that share a slot are at least a window apart.
LEMMA SameSlot ==
  ASSUME NEW w \in Nat \ {0}, NEW p \in Int, NEW q \in Int, p % w = q % w, q - w < p, p < q + w
  PROVE  p = q
<1>1. PICK d \in Int, m \in 0 .. w - 1 : p = w * d + m /\ p % w = m
  BY DivisionIs
<1>2. PICK e \in Int, n \in 0 .. w - 1 : q = w * e + n /\ q % w = n
  BY DivisionIs
<1>3. PICK k \in Int : k = d - e
  OBVIOUS
<1>4. p - q = w * k
  BY <1>1, <1>2, <1>3
<1>5. k = 0
  BY <1>4, NoMultiple
<1> QED BY <1>4, <1>5

LEMMA SlotBack ==
  ASSUME NEW w \in Nat \ {0}, NEW t \in Int PROVE (t - w) % w = t % w
<1>1. PICK d \in Int, m \in 0 .. w - 1 : t = w * d + m /\ t % w = m
  BY DivisionIs
<1>2. PICK e \in Int, n \in 0 .. w - 1 : t - w = w * e + n /\ (t - w) % w = n
  BY DivisionIs
<1>3. PICK k \in Int : k = d - e - 1
  OBVIOUS
<1>4. n - m = w * k
  BY <1>1, <1>2, <1>3
<1>5. k = 0
  BY <1>4, NoMultiple
<1> QED BY <1>1, <1>2, <1>4, <1>5

Slot == 0 .. Window - 1
Ring == [buckets : [Slot -> Int], stamps : [Slot -> Int], total : Int, last : Int]

\* Of the first m records of a log, those of a second, and those after one.
At(log, m, t) == {i \in 1 .. m : log[i].at = t}
After(log, m, t) == {i \in 1 .. m : log[i].at > t}

\* The ring r stands for the first m records of the log, at the second l: a slot is
\* empty or holds the count of a second of the window, none of whose seconds lacks its
\* slot, and the total is that of the window.
Holds(r, log, m, l) ==
  /\ r \in Ring /\ r.total = Cardinality(After(log, m, l - Window))
  /\ \A i \in 1 .. m : log[i].at <= l
  /\ \A s \in Slot :
       \/ r.stamps[s] = -1 /\ r.buckets[s] = 0
       \/ /\ l - Window < r.stamps[s] /\ r.stamps[s] <= l /\ 0 <= r.stamps[s]
          /\ r.stamps[s] % Window = s
          /\ r.buckets[s] = Cardinality(At(log, m, r.stamps[s]))
  /\ \A i \in After(log, m, l - Window) : r.stamps[log[i].at % Window] = log[i].at

LEMMA SlotIs == ASSUME NEW t \in Int PROVE t % Window \in Slot
  BY Constants DEF Slot

LEMMA CountsAre ==
  ASSUME NEW m \in Nat, NEW log, NEW t
  PROVE  /\ IsFiniteSet(At(log, m, t)) /\ Cardinality(At(log, m, t)) \in Nat
         /\ IsFiniteSet(After(log, m, t)) /\ Cardinality(After(log, m, t)) \in Nat
         /\ (At(log, m, t) = {} => Cardinality(At(log, m, t)) = 0)
         /\ (After(log, m, t) = {} => Cardinality(After(log, m, t)) = 0)
<1>1. IsFiniteSet(1 .. m)
  BY FS_Interval
<1>2. IsFiniteSet(At(log, m, t)) /\ IsFiniteSet(After(log, m, t))
  BY <1>1, FS_Subset DEF At, After
<1> QED BY <1>2, FS_CardinalityType, FS_EmptySet

\* The next second takes the slot of the one that leaves the window.
LEMMA PrepareNext ==
  ASSUME NEW log \in Seq(Record), NEW m \in 0 .. Len(log), NEW l \in Nat, NEW r, Holds(r, log, m, l)
  PROVE  Holds(Windows!Prepare(r, l + 1), log, m, l + 1) /\ Windows!Prepare(r, l + 1).last = r.last
<1>0. m \in Nat /\ Window \in Nat \ {0} /\ \A i \in 1 .. m : log[i].at \in Nat
  <2>1. \A i \in 1 .. m : i \in DOMAIN log
    OBVIOUS
  <2>2. \A i \in 1 .. m : log[i] \in Record
    BY <2>1
  <2> QED BY <2>2, RecordIs, Constants
<1>1. PICK t \in Int : t = l + 1
  OBVIOUS
<1>2. PICK s \in Slot : s = t % Window
  BY SlotIs
<1>3. /\ r \in Ring /\ r.stamps \in [Slot -> Int] /\ r.buckets \in [Slot -> Int] /\ r.total \in Int
      /\ \A i \in 1 .. m : log[i].at <= l
  BY DEF Holds, Ring
<1>4. r.stamps[s] # t
  <2>1. r.stamps[s] = -1 \/ r.stamps[s] <= l
    BY DEF Holds
  <2> QED BY <1>1, <1>3, <2>1
<1>5. PICK p : p = Windows!Prepare(r, t)
  OBVIOUS
<1>6. p = [r EXCEPT !.total = @ - r.buckets[s], !.buckets[s] = 0, !.stamps[s] = t]
  BY <1>2, <1>4, <1>5 DEF Windows!Prepare
<1>7. /\ p \in Ring /\ p.total = r.total - r.buckets[s] /\ p.last = r.last
      /\ p.buckets = [r.buckets EXCEPT ![s] = 0] /\ p.stamps = [r.stamps EXCEPT ![s] = t]
  <2>1. p.total = r.total - r.buckets[s] /\ p.last = r.last
    BY <1>3, <1>6 DEF Ring
  <2>2. p.buckets = [r.buckets EXCEPT ![s] = 0]
    BY <1>3, <1>6 DEF Ring
  <2>3. p.stamps = [r.stamps EXCEPT ![s] = t]
    BY <1>3, <1>6 DEF Ring
  <2>4. p = [buckets |-> p.buckets, stamps |-> p.stamps, total |-> p.total, last |-> p.last]
    BY <1>3, <1>6 DEF Ring
  <2>5. /\ [r.buckets EXCEPT ![s] = 0] \in [Slot -> Int] /\ [r.stamps EXCEPT ![s] = t] \in [Slot -> Int]
        /\ r.buckets[s] \in Int
    BY <1>3
  <2>6. p.total \in Int /\ p.last \in Int
    BY <1>3, <2>1, <2>5 DEF Ring
  <2>7. p \in Ring
    BY <2>2, <2>3, <2>4, <2>5, <2>6 DEF Ring
  <2> QED BY <2>1, <2>2, <2>3, <2>7
<1>8. PICK old \in Int : old = t - Window
  BY <1>0
<1>9. r.buckets[s] = Cardinality(At(log, m, old))
  <2>0. old % Window = s
    BY <1>0, <1>2, <1>8, SlotBack
  <2>1. CASE r.stamps[s] = -1 /\ r.buckets[s] = 0
    <3>1. ASSUME NEW i \in At(log, m, old) PROVE FALSE
      <4>1. i \in 1 .. m /\ log[i].at = old
        BY DEF At
      <4>2. i \in After(log, m, l - Window)
        BY <1>0, <1>1, <1>8, <4>1 DEF After
      <4>3. r.stamps[log[i].at % Window] = log[i].at
        BY <4>2 DEF Holds
      <4> QED BY <1>0, <2>0, <2>1, <4>1, <4>3
    <3>2. At(log, m, old) = {}
      BY <3>1
    <3> QED BY <1>0, <2>1, <3>2, CountsAre
  <2>2. CASE /\ l - Window < r.stamps[s] /\ r.stamps[s] <= l /\ 0 <= r.stamps[s]
             /\ r.stamps[s] % Window = s
             /\ r.buckets[s] = Cardinality(At(log, m, r.stamps[s]))
    <3>1. PICK q \in Int : q = r.stamps[s]
      BY <1>3
    <3>2. q % Window = old % Window /\ old - Window < q /\ q < old + Window
      BY <1>0, <1>1, <1>8, <2>0, <2>2, <3>1
    <3>3. q = old
      BY <1>0, <3>2, SameSlot
    <3> QED BY <2>2, <3>1, <3>3
  <2> QED BY <2>1, <2>2 DEF Holds
<1>10. p.total = Cardinality(After(log, m, t - Window))
  <2>1. After(log, m, l - Window) = At(log, m, old) \cup After(log, m, t - Window)
    <3>1. \A i \in 1 .. m : log[i].at > l - Window <=> (log[i].at = old \/ log[i].at > t - Window)
      BY <1>0, <1>1, <1>8
    <3> QED BY <3>1 DEF After, At
  <2>2. At(log, m, old) \cap After(log, m, t - Window) = {}
    BY <1>8 DEF After, At
  <2>3. PICK a \in Nat, b \in Nat : /\ a = Cardinality(At(log, m, old))
                                    /\ b = Cardinality(After(log, m, t - Window))
    BY <1>0, CountsAre
  <2>4. IsFiniteSet(At(log, m, old)) /\ IsFiniteSet(After(log, m, t - Window))
    BY <1>0, CountsAre
  <2>5. Cardinality(At(log, m, old) \cap After(log, m, t - Window)) = 0
    BY <2>2, FS_EmptySet
  <2>6. Cardinality(After(log, m, l - Window)) = a + b - 0
    BY <2>1, <2>3, <2>4, <2>5, FS_Union
  <2>7. r.total = a + b /\ r.buckets[s] = a
    BY <1>9, <2>3, <2>6 DEF Holds
  <2> QED BY <1>7, <2>3, <2>7
<1>11. ASSUME NEW u \in Slot
       PROVE  \/ p.stamps[u] = -1 /\ p.buckets[u] = 0
              \/ /\ t - Window < p.stamps[u] /\ p.stamps[u] <= t /\ 0 <= p.stamps[u]
                 /\ p.stamps[u] % Window = u
                 /\ p.buckets[u] = Cardinality(At(log, m, p.stamps[u]))
  <2>1. CASE u = s
    <3>1. p.stamps[u] = t /\ p.buckets[u] = 0
      BY <1>3, <1>7, <2>1
    <3>2. At(log, m, t) = {}
      BY <1>0, <1>1, <1>3 DEF At
    <3>3. Cardinality(At(log, m, t)) = 0
      BY <1>0, <3>2, CountsAre
    <3> QED BY <1>0, <1>1, <1>2, <2>1, <3>1, <3>3
  <2>2. CASE u # s
    <3>1. p.stamps[u] = r.stamps[u] /\ p.buckets[u] = r.buckets[u] /\ r.stamps[u] \in Int
      BY <1>3, <1>7, <2>2
    <3>2. CASE r.stamps[u] = -1 /\ r.buckets[u] = 0
      BY <3>1, <3>2
    <3>3. CASE /\ l - Window < r.stamps[u] /\ r.stamps[u] <= l /\ 0 <= r.stamps[u]
               /\ r.stamps[u] % Window = u
               /\ r.buckets[u] = Cardinality(At(log, m, r.stamps[u]))
      <4>1. r.stamps[u] # old
        BY <1>0, <1>2, <1>8, <2>2, <3>3, SlotBack
      <4>2. t - Window < r.stamps[u] /\ r.stamps[u] <= t
        BY <1>0, <1>1, <1>8, <3>1, <3>3, <4>1
      <4> QED BY <3>1, <3>3, <4>2
    <3> QED BY <3>2, <3>3 DEF Holds
  <2> QED BY <2>1, <2>2
<1>12. ASSUME NEW i \in After(log, m, t - Window) PROVE p.stamps[log[i].at % Window] = log[i].at
  <2>1. i \in 1 .. m /\ log[i].at > t - Window
    BY DEF After
  <2>2. PICK a \in Nat : a = log[i].at
    BY <1>0, <2>1
  <2>3. a <= l /\ i \in After(log, m, l - Window)
    BY <1>0, <1>1, <1>3, <2>1, <2>2 DEF After
  <2>4. r.stamps[a % Window] = a
    BY <2>2, <2>3 DEF Holds
  <2>5. a % Window # s
    <3>1. ASSUME a % Window = t % Window PROVE FALSE
      <4>1. t - Window < a /\ a < t + Window
        BY <1>0, <1>1, <2>1, <2>2, <2>3
      <4>2. a = t
        <5>1. a \in Int /\ t \in Int /\ Window \in Nat \ {0}
          BY <1>0
        <5> QED BY ONLY <3>1, <4>1, <5>1, SameSlot
      <4> QED BY <1>1, <2>3, <4>2
    <3> QED BY <1>2, <3>1
  <2>6. a % Window \in Slot
    BY SlotIs
  <2> QED BY <1>3, <1>7, <2>2, <2>4, <2>5, <2>6
<1>13. \A i \in 1 .. m : log[i].at <= t
  BY <1>0, <1>1, <1>3
<1>14. Holds(p, log, m, t)
  BY <1>7, <1>10, <1>11, <1>12, <1>13 DEF Holds
<1> QED BY <1>1, <1>5, <1>7, <1>14

\* The next n seconds, one after the other.
LEMMA PreparedHolds ==
  ASSUME NEW log \in Seq(Record), NEW m \in 0 .. Len(log), NEW r, r.last \in Nat,
         Holds(r, log, m, r.last), NEW n \in Nat
  PROVE  Holds(Windows!Prepared(r, n), log, m, r.last + n) /\ Windows!Prepared(r, n).last = r.last
<1>1. PICK l \in Nat : l = r.last
  OBVIOUS
<1> DEFINE good == [k \in 0 .. n |-> {x \in Ring : Holds(x, log, m, l + k) /\ x.last = l}]
           step == [k \in 1 .. n |-> [x \in Ring |-> Windows!Prepare(x, l + k)]]
           Solves(g) == g = [k \in 0 .. n |-> IF k = 0 THEN r ELSE Windows!Prepare(g[k - 1], l + k)]
<1>2. good \in [0 .. n -> SUBSET Ring] /\ r \in good[0]
  <2>1. r \in Ring /\ Holds(r, log, m, l + 0)
    BY <1>1 DEF Holds
  <2> QED BY <1>1, <2>1
<1>3. ASSUME NEW k \in 1 .. n, NEW x \in good[k - 1]
      PROVE  step[k][x] \in good[k] /\ step[k][x] = Windows!Prepare(x, l + k)
  <2>1. PICK q \in 0 .. n : q = k - 1 /\ k = q + 1
    OBVIOUS
  <2>2. x \in Ring /\ Holds(x, log, m, l + q) /\ x.last = l
    BY <2>1
  <2>3. l + q \in Nat /\ (l + q) + 1 = l + k
    BY <2>1
  <2>4. Holds(Windows!Prepare(x, l + k), log, m, l + k) /\ Windows!Prepare(x, l + k).last = l
    BY <2>2, <2>3, PrepareNext
  <2>5. Windows!Prepare(x, l + k) \in Ring
    BY <2>4 DEF Holds
  <2> QED BY <2>2, <2>4, <2>5
<1>4. \A k \in 0 .. n : \A x \in good[k] : Holds(x, log, m, l + k) /\ x.last = l
  OBVIOUS
<1> HIDE DEF good, step
<1>5. PICK f \in [0 .. n -> Ring] : /\ f[0] = r /\ \A k \in 1 .. n : f[k] = step[k][f[k - 1]]
                                    /\ \A k \in 0 .. n : f[k] \in good[k]
  <2>1. Leads(step, good, n, Ring)
    BY <1>2, <1>3 DEF Leads
  <2>2. \E h : Solution(h, r, step, n, Ring) /\ \A k \in 0 .. n : h[k] \in good[k]
    BY <1>2, <2>1, Iteration
  <2> QED BY <2>2 DEF Solution
<1>6. ASSUME NEW k \in 0 .. n PROVE f[k] = IF k = 0 THEN r ELSE Windows!Prepare(f[k - 1], l + k)
  <2>1. CASE k = 0
    BY <1>5, <2>1
  <2>2. CASE k # 0
    <3>1. k \in 1 .. n /\ k - 1 \in 0 .. n
      BY <2>2
    <3> QED BY <1>3, <1>5, <2>2, <3>1
  <2> QED BY <2>1, <2>2
<1>7. Solves(f)
  <2>1. f = [k \in 0 .. n |-> f[k]]
    OBVIOUS
  <2> QED BY <1>6, <2>1
<1>8. PICK g : Solves(g) /\ Windows!Prepared(r, n) = g[n]
  <2>1. Windows!Prepared(r, n) = (CHOOSE g : Solves(g))[n]
    BY <1>1 DEF Windows!Prepared
  <2> HIDE DEF Solves
  <2> QED BY <1>7, <2>1
<1> DEFINE G == {k \in Nat : k <= n => g[k] \in good[k]}
<1>9. 0 \in G
  BY <1>2, <1>8
<1>10. ASSUME NEW k \in Nat, k \in G PROVE k + 1 \in G
  <2> SUFFICES ASSUME k + 1 <= n PROVE g[k + 1] \in good[k + 1]
    OBVIOUS
  <2>1. PICK i \in 1 .. n : i = k + 1 /\ i - 1 = k
    OBVIOUS
  <2>2. g[i - 1] \in good[i - 1]
    BY <1>10, <2>1
  <2>3. g[i] = Windows!Prepare(g[i - 1], l + i)
    BY <1>8
  <2> QED BY <1>3, <2>1, <2>2, <2>3
<1>11. n \in G
  <2> HIDE DEF G, Solves
  <2> QED BY <1>9, <1>10, NumberInduction
<1> QED BY <1>1, <1>4, <1>8, <1>11

\* A ring started anew at a second that leaves the window behind.
LEMMA AnewHolds ==
  ASSUME NEW log \in Seq(Record), NEW m \in 0 .. Len(log), NEW l \in Nat, NEW r \in Ring,
         r.last = l, r.total = 0, \A s \in Slot : r.stamps[s] = -1 /\ r.buckets[s] = 0,
         \A i \in 1 .. m : log[i].at <= l - Window
  PROVE  Holds(Windows!Prepare(r, l), log, m, l) /\ Windows!Prepare(r, l).last = l
<1>0. m \in Nat /\ Window \in Nat \ {0} /\ \A i \in 1 .. m : log[i].at \in Nat
  <2>1. \A i \in 1 .. m : i \in DOMAIN log
    OBVIOUS
  <2>2. \A i \in 1 .. m : log[i] \in Record
    BY <2>1
  <2> QED BY <2>2, RecordIs, Constants
<1>1. PICK s \in Slot : s = l % Window
  BY SlotIs
<1>2. r.stamps[s] # l
  OBVIOUS
<1>3. PICK p : p = Windows!Prepare(r, l)
  OBVIOUS
<1>4. p = [r EXCEPT !.total = @ - r.buckets[s], !.buckets[s] = 0, !.stamps[s] = l]
  BY <1>1, <1>2, <1>3 DEF Windows!Prepare
<1>5. r.stamps \in [Slot -> Int] /\ r.buckets \in [Slot -> Int]
  BY DEF Ring
<1>6. p \in Ring /\ p.total = 0 /\ p.last = l /\ p.stamps = [r.stamps EXCEPT ![s] = l]
      /\ p.buckets = [r.buckets EXCEPT ![s] = 0]
  <2>1. p.total = 0 /\ p.last = l
    BY <1>4 DEF Ring
  <2>2. p.buckets = [r.buckets EXCEPT ![s] = 0]
    BY <1>4 DEF Ring
  <2>3. p.stamps = [r.stamps EXCEPT ![s] = l]
    BY <1>4 DEF Ring
  <2>4. p = [buckets |-> p.buckets, stamps |-> p.stamps, total |-> p.total, last |-> p.last]
    BY <1>4 DEF Ring
  <2>5. [r.buckets EXCEPT ![s] = 0] \in [Slot -> Int] /\ [r.stamps EXCEPT ![s] = l] \in [Slot -> Int]
    BY <1>5
  <2> QED BY <2>1, <2>2, <2>3, <2>4, <2>5 DEF Ring
<1>7. After(log, m, l - Window) = {} /\ At(log, m, l) = {}
  BY <1>0 DEF After, At
<1>8. Cardinality(After(log, m, l - Window)) = 0 /\ Cardinality(At(log, m, l)) = 0
  BY ONLY <1>0, <1>7, CountsAre
<1>9. ASSUME NEW u \in Slot
      PROVE  \/ p.stamps[u] = -1 /\ p.buckets[u] = 0
             \/ /\ l - Window < p.stamps[u] /\ p.stamps[u] <= l /\ 0 <= p.stamps[u]
                /\ p.stamps[u] % Window = u
                /\ p.buckets[u] = Cardinality(At(log, m, p.stamps[u]))
  <2>1. CASE u = s
    <3>1. p.stamps[u] = l /\ p.buckets[u] = 0
      BY <1>5, <1>6, <2>1
    <3> QED BY <1>0, <1>1, <1>8, <2>1, <3>1
  <2>2. CASE u # s
    BY <1>5, <1>6, <2>2
  <2> QED BY <2>1, <2>2
<1>10. \A i \in 1 .. m : log[i].at <= l
  BY <1>0
<1> QED BY <1>3, <1>6, <1>7, <1>8, <1>9, <1>10 DEF Holds

Rings(r, log, m) == Holds(r, log, m, r.last) /\ r.last \in Nat \cup {-1}

LEMMA EmptyRing ==
  ASSUME NEW second \in Int
  PROVE  /\ Windows!Empty(second) \in Ring /\ Windows!Empty(second).last = second
         /\ Windows!Empty(second).total = 0
         /\ \A s \in Slot : /\ Windows!Empty(second).stamps[s] = -1
                            /\ Windows!Empty(second).buckets[s] = 0
BY DEF Windows!Empty, Windows!Slot, Windows!None, Ring, Slot

LEMMA StartHolds ==
  ASSUME NEW log \in Seq(Record) PROVE Rings(Windows!Empty(-1), log, 0)
<1>1. PICK r \in Ring : /\ r = Windows!Empty(-1) /\ r.last = -1 /\ r.total = 0
                        /\ \A s \in Slot : r.stamps[s] = -1 /\ r.buckets[s] = 0
  BY EmptyRing
<1>2. After(log, 0, -1 - Window) = {}
  BY DEF After
<1>3. Cardinality(After(log, 0, -1 - Window)) = 0
  BY <1>2, CountsAre
<1> QED BY <1>1, <1>2, <1>3 DEF Rings, Holds

\* The last second is no part of what a ring holds.
LEMMA Stamped ==
  ASSUME NEW r \in Ring, NEW l \in Int
  PROVE  /\ [r EXCEPT !.last = l] \in Ring /\ [r EXCEPT !.last = l].last = l
         /\ [r EXCEPT !.last = l].total = r.total /\ [r EXCEPT !.last = l].stamps = r.stamps
         /\ [r EXCEPT !.last = l].buckets = r.buckets
         /\ \A log, m, t : Holds(r, log, m, t) => Holds([r EXCEPT !.last = l], log, m, t)
<1>1. PICK p : p = [r EXCEPT !.last = l]
  OBVIOUS
<1>2. p.last = l /\ p.total = r.total /\ p.stamps = r.stamps /\ p.buckets = r.buckets
  BY <1>1 DEF Ring
<1>3. p = [buckets |-> p.buckets, stamps |-> p.stamps, total |-> p.total, last |-> p.last]
  BY <1>1 DEF Ring
<1>4. p \in Ring
  BY <1>2, <1>3 DEF Ring
<1>5. ASSUME NEW log, NEW m, NEW t, Holds(r, log, m, t) PROVE Holds(p, log, m, t)
  BY <1>2, <1>4, <1>5 DEF Holds
<1> QED BY <1>1, <1>2, <1>4, <1>5

LEMMA AdvanceHolds ==
  ASSUME NEW log \in Seq(Record), NEW m \in 0 .. Len(log), NEW r, Rings(r, log, m), NEW second \in Nat
  PROVE  /\ Rings(Windows!Advance(r, second), log, m)
         /\ Windows!Advance(r, second).last \in Nat /\ second <= Windows!Advance(r, second).last
         /\ \/ Windows!Advance(r, second).last = second
            \/ Windows!Advance(r, second).last = r.last /\ r.last # -1
<1>0. m \in Nat /\ Window \in Nat \ {0} /\ \A i \in 1 .. m : log[i].at \in Nat
  <2>1. \A i \in 1 .. m : i \in DOMAIN log
    OBVIOUS
  <2>2. \A i \in 1 .. m : log[i] \in Record
    BY <2>1
  <2> QED BY <2>2, RecordIs, Constants
<1>1. PICK l : l = r.last
  OBVIOUS
<1>2. r \in Ring /\ Holds(r, log, m, l) /\ l \in Nat \cup {-1} /\ \A i \in 1 .. m : log[i].at <= l
  BY <1>1 DEF Rings, Holds
<1>3. PICK p : p = Windows!Advance(r, second)
  OBVIOUS
<1>4. CASE l = -1
  <2>0. [r EXCEPT !.last = second] \in Ring
    <3>1. r \in Ring /\ second \in Int
      BY <1>2
    <3> QED BY ONLY <3>1, Stamped
  <2>1. PICK q \in Ring : q = [r EXCEPT !.last = second]
    BY <2>0
  <2>2. q.last = second /\ q.total = r.total /\ q.stamps = r.stamps /\ q.buckets = r.buckets
    BY <1>2, <2>1, Stamped
  <2>3. \A i \in 1 .. m : FALSE
    BY <1>0, <1>2, <1>4
  <2>4. Cardinality(After(log, m, l - Window)) = 0
    <3>1. After(log, m, l - Window) = {}
      BY <2>3 DEF After
    <3> QED BY ONLY <1>0, <3>1, CountsAre
  <2>5. q.total = 0
    BY <1>2, <2>2, <2>4 DEF Holds
  <2>6. \A s \in Slot : q.stamps[s] = -1 /\ q.buckets[s] = 0
    <3> SUFFICES ASSUME NEW s \in Slot PROVE r.stamps[s] = -1 /\ r.buckets[s] = 0
      BY <2>2
    <3>1. r.stamps[s] \in Int
      BY <1>2 DEF Ring
    <3>2. ~(r.stamps[s] <= l /\ 0 <= r.stamps[s])
      BY <1>4, <3>1
    <3> QED BY <1>2, <3>2 DEF Holds
  <2>7. p = Windows!Prepare(q, second)
    BY <1>1, <1>3, <1>4, <2>1 DEF Windows!Advance, Windows!None
  <2>8. Holds(p, log, m, second) /\ p.last = second
    BY <2>2, <2>3, <2>5, <2>6, <2>7, AnewHolds
  <2> QED BY <1>3, <2>8 DEF Rings
<1>5. CASE l # -1 /\ second <= l
  <2>1. p = r
    BY <1>1, <1>3, <1>5 DEF Windows!Advance, Windows!None
  <2> QED BY <1>1, <1>2, <1>3, <1>5, <2>1 DEF Rings
<1>6. CASE l # -1 /\ ~(second <= l) /\ second - l >= Window
  <2>1. p = Windows!Prepare(Windows!Empty(second), second)
    BY <1>1, <1>3, <1>6 DEF Windows!Advance, Windows!None
  <2>2. \A i \in 1 .. m : log[i].at <= second - Window
    BY <1>0, <1>2, <1>6
  <2>3. PICK q \in Ring : /\ q = Windows!Empty(second) /\ q.last = second /\ q.total = 0
                          /\ \A s \in Slot : q.stamps[s] = -1 /\ q.buckets[s] = 0
    BY EmptyRing
  <2>4. Holds(p, log, m, second) /\ p.last = second
    BY <2>1, <2>2, <2>3, AnewHolds
  <2> QED BY <1>3, <2>4 DEF Rings
<1>7. CASE l # -1 /\ ~(second <= l) /\ ~(second - l >= Window)
  <2>0. l \in Nat /\ second - l \in Nat /\ l + (second - l) = second
    BY <1>2, <1>7
  <2>1. PICK q : q = Windows!Prepared(r, second - l)
    OBVIOUS
  <2>2. p = [q EXCEPT !.last = second]
    BY <1>1, <1>3, <1>7, <2>1 DEF Windows!Advance, Windows!None
  <2>3. Holds(q, log, m, second)
    BY <1>1, <1>2, <2>0, <2>1, PreparedHolds
  <2>4. q \in Ring
    BY <2>3 DEF Holds
  <2>5. Holds(p, log, m, second) /\ p.last = second
    BY <2>2, <2>3, <2>4, Stamped
  <2> QED BY <1>3, <2>5 DEF Rings
<1> QED BY <1>4, <1>5, <1>6, <1>7

\* One more record, and what it does to the counts.
LEMMA CountsGrow ==
  ASSUME NEW m \in Nat, NEW log, NEW t
  PROVE  /\ Cardinality(At(log, m + 1, t))
              = Cardinality(At(log, m, t)) + (IF log[m + 1].at = t THEN 1 ELSE 0)
         /\ Cardinality(After(log, m + 1, t))
              = Cardinality(After(log, m, t)) + (IF log[m + 1].at > t THEN 1 ELSE 0)
<1>1. PICK n \in Nat : n = m + 1 /\ 1 .. n = (1 .. m) \cup {n} /\ n \notin 1 .. m
  OBVIOUS
<1>2. At(log, n, t) = IF log[n].at = t THEN At(log, m, t) \cup {n} ELSE At(log, m, t)
  BY <1>1 DEF At
<1>3. After(log, n, t) = IF log[n].at > t THEN After(log, m, t) \cup {n} ELSE After(log, m, t)
  BY <1>1 DEF After
<1>4. n \notin At(log, m, t) /\ n \notin After(log, m, t)
  BY <1>1 DEF At, After
<1>5. IsFiniteSet(At(log, m, t)) /\ IsFiniteSet(After(log, m, t))
  BY CountsAre
<1>6. /\ Cardinality(At(log, m, t) \cup {n}) = Cardinality(At(log, m, t)) + 1
      /\ Cardinality(After(log, m, t) \cup {n}) = Cardinality(After(log, m, t)) + 1
  BY <1>4, <1>5, FS_AddElement
<1>7. Cardinality(At(log, m, t)) \in Nat /\ Cardinality(After(log, m, t)) \in Nat
  BY CountsAre
<1> QED BY <1>1, <1>2, <1>3, <1>6, <1>7

\* A record of the window is put into the slot of its second.
LEMMA PutHolds ==
  ASSUME NEW log \in Seq(Record), NEW m \in Nat, m < Len(log), NEW l \in Nat, NEW r,
         Holds(r, log, m, l), r.last = l, NEW a \in Nat, a = log[m + 1].at, l - Window < a, a <= l
  PROVE  Holds(Windows!Put(r, a, 1), log, m + 1, l) /\ Windows!Put(r, a, 1).last = l
<1>0. Window \in Nat \ {0} /\ \A i \in 1 .. m : log[i].at \in Nat
  <2>1. \A i \in 1 .. m : i \in DOMAIN log
    OBVIOUS
  <2>2. \A i \in 1 .. m : log[i] \in Record
    BY <2>1
  <2> QED BY <2>2, RecordIs, Constants
<1>1. PICK n \in Nat : n = m + 1 /\ 1 .. n = (1 .. m) \cup {n} /\ log[n].at = a
  OBVIOUS
<1>2. PICK s \in Slot : s = a % Window
  BY SlotIs
<1>3. /\ r \in Ring /\ r.stamps \in [Slot -> Int] /\ r.buckets \in [Slot -> Int] /\ r.total \in Int
      /\ \A i \in 1 .. m : log[i].at <= l
  BY DEF Holds, Ring
<1>4. PICK kept \in Int : kept = IF r.stamps[s] = a THEN r.buckets[s] ELSE 0
  BY <1>3
<1>5. PICK p : p = Windows!Put(r, a, 1)
  OBVIOUS
<1>6. p = [r EXCEPT !.stamps[s] = a, !.buckets[s] = kept + 1, !.total = @ + 1]
  BY <1>2, <1>4, <1>5 DEF Windows!Put
<1>7. /\ p \in Ring /\ p.total = r.total + 1 /\ p.last = l
      /\ p.buckets = [r.buckets EXCEPT ![s] = kept + 1] /\ p.stamps = [r.stamps EXCEPT ![s] = a]
  <2>1. p.total = r.total + 1 /\ p.last = l
    BY <1>3, <1>6 DEF Ring
  <2>2. p.buckets = [r.buckets EXCEPT ![s] = kept + 1]
    BY <1>3, <1>6 DEF Ring
  <2>3. p.stamps = [r.stamps EXCEPT ![s] = a]
    BY <1>3, <1>6 DEF Ring
  <2>4. p = [buckets |-> p.buckets, stamps |-> p.stamps, total |-> p.total, last |-> p.last]
    BY <1>3, <1>6 DEF Ring
  <2>5. /\ [r.buckets EXCEPT ![s] = kept + 1] \in [Slot -> Int]
        /\ [r.stamps EXCEPT ![s] = a] \in [Slot -> Int]
    BY <1>3
  <2>6. p.total \in Int /\ p.last \in Int
    BY <1>3, <2>1
  <2>7. p \in Ring
    BY <2>2, <2>3, <2>4, <2>5, <2>6 DEF Ring
  <2> QED BY <2>1, <2>2, <2>3, <2>7
<1>8. kept = Cardinality(At(log, m, a))
  <2>1. CASE r.stamps[s] = a
    <3>1. r.stamps[s] # -1
      BY <2>1
    <3>2. r.buckets[s] = Cardinality(At(log, m, r.stamps[s]))
      BY <3>1 DEF Holds
    <3> QED BY <1>4, <2>1, <3>2
  <2>2. CASE r.stamps[s] # a
    <3>1. ASSUME NEW i \in At(log, m, a) PROVE FALSE
      <4>1. i \in 1 .. m /\ log[i].at = a
        BY DEF At
      <4>2. i \in After(log, m, l - Window)
        BY <4>1 DEF After
      <4> QED BY <1>2, <2>2, <4>1, <4>2 DEF Holds
    <3>2. At(log, m, a) = {}
      BY <3>1
    <3>3. Cardinality(At(log, m, a)) = 0
      BY ONLY m \in Nat, <3>2, CountsAre
    <3> QED BY <1>4, <2>2, <3>3
  <2> QED BY <2>1, <2>2
<1>9. \A t \in Int : Cardinality(At(log, n, t)) = Cardinality(At(log, m, t)) + (IF a = t THEN 1 ELSE 0)
  BY ONLY <1>1, m \in Nat, CountsGrow
<1>10. Cardinality(After(log, n, l - Window)) = Cardinality(After(log, m, l - Window)) + 1
  <2>1. Cardinality(After(log, n, l - Window))
          = Cardinality(After(log, m, l - Window)) + (IF a > l - Window THEN 1 ELSE 0)
    BY ONLY <1>1, m \in Nat, CountsGrow
  <2>2. a > l - Window
    BY <1>0
  <2> QED BY <2>1, <2>2
<1>11. p.total = Cardinality(After(log, n, l - Window))
  BY <1>7, <1>10 DEF Holds
<1>12. ASSUME NEW u \in Slot
       PROVE  \/ p.stamps[u] = -1 /\ p.buckets[u] = 0
              \/ /\ l - Window < p.stamps[u] /\ p.stamps[u] <= l /\ 0 <= p.stamps[u]
                 /\ p.stamps[u] % Window = u
                 /\ p.buckets[u] = Cardinality(At(log, n, p.stamps[u]))
  <2>1. CASE u = s
    <3>1. p.stamps[u] = a /\ p.buckets[u] = kept + 1
      BY <1>3, <1>7, <2>1
    <3>2. Cardinality(At(log, n, a)) = kept + 1
      BY <1>8, <1>9
    <3> QED BY <1>2, <2>1, <3>1, <3>2
  <2>2. CASE u # s
    <3>1. p.stamps[u] = r.stamps[u] /\ p.buckets[u] = r.buckets[u] /\ r.stamps[u] \in Int
      BY <1>3, <1>7, <2>2
    <3>2. CASE r.stamps[u] = -1 /\ r.buckets[u] = 0
      BY <3>1, <3>2
    <3>3. CASE /\ l - Window < r.stamps[u] /\ r.stamps[u] <= l /\ 0 <= r.stamps[u]
               /\ r.stamps[u] % Window = u
               /\ r.buckets[u] = Cardinality(At(log, m, r.stamps[u]))
      <4>1. a # r.stamps[u]
        BY <1>2, <2>2, <3>3
      <4>2. Cardinality(At(log, m, r.stamps[u])) \in Nat
        BY ONLY m \in Nat, CountsAre
      <4>3. Cardinality(At(log, n, r.stamps[u])) = Cardinality(At(log, m, r.stamps[u]))
        BY <1>9, <3>1, <4>1, <4>2
      <4> QED BY <3>1, <3>3, <4>3
    <3> QED BY <3>2, <3>3 DEF Holds
  <2> QED BY <2>1, <2>2
<1>13. ASSUME NEW i \in After(log, n, l - Window) PROVE p.stamps[log[i].at % Window] = log[i].at
  <2>1. i \in 1 .. n /\ log[i].at > l - Window
    BY DEF After
  <2>2. CASE i = n
    BY <1>1, <1>2, <1>3, <1>7, <2>2
  <2>3. CASE i \in 1 .. m
    <3>1. PICK b \in Nat : b = log[i].at /\ b <= l /\ l - Window < b
      BY <1>0, <1>3, <2>1, <2>3
    <3>2. r.stamps[b % Window] = b
      BY <2>1, <2>3, <3>1 DEF Holds, After
    <3>3. CASE b % Window = s
      <4>1. b - Window < a /\ a < b + Window
        BY <1>0, <3>1
      <4>2. a \in Int /\ b \in Int /\ Window \in Nat \ {0} /\ a % Window = b % Window
        BY <1>0, <1>2, <3>3
      <4>3. a = b
        BY ONLY <4>1, <4>2, SameSlot
      <4> QED BY <1>3, <1>7, <3>1, <3>3, <4>3
    <3>4. CASE b % Window # s
      <4>1. b % Window \in Slot
        BY SlotIs
      <4> QED BY <1>3, <1>7, <3>1, <3>2, <3>4, <4>1
    <3> QED BY <3>3, <3>4
  <2> QED BY <1>1, <2>1, <2>2, <2>3
<1>14. \A i \in 1 .. n : log[i].at <= l
  BY <1>1, <1>3
<1>15. Holds(p, log, n, l)
  BY <1>7, <1>11, <1>12, <1>13, <1>14 DEF Holds
<1> QED BY <1>1, <1>5, <1>7, <1>15

\* Another record, in or out of the window.
LEMMA IncrementHolds ==
  ASSUME NEW log \in Seq(Record), NEW m \in Nat, m < Len(log), NEW r, Rings(r, log, m)
  PROVE  Rings(Windows!Increment(r, log[m + 1].at), log, m + 1)
<1>0. PICK n \in Nat, a \in Nat : /\ n = m + 1 /\ a = log[n].at /\ n \in DOMAIN log
                                  /\ 1 .. n = (1 .. m) \cup {n}
  <2>1. m + 1 \in DOMAIN log /\ log[m + 1] \in Record
    OBVIOUS
  <2>2. log[m + 1].at \in Nat
    BY <2>1, RecordIs
  <2> QED BY <2>1, <2>2
<1>1. Window \in Nat \ {0} /\ m \in 0 .. Len(log)
  BY Constants
<1>2. CASE Windows!Late(r, a)
  <2>1. Windows!Increment(r, a) = r
    BY <1>2 DEF Windows!Increment
  <2>2. PICK l \in Nat : l = r.last /\ a <= l - Window /\ Holds(r, log, m, l)
    BY <1>2 DEF Rings, Windows!Late, Windows!None
  <2>3. \A t \in Int : Cardinality(At(log, n, t)) = Cardinality(At(log, m, t)) + (IF a = t THEN 1 ELSE 0)
    BY ONLY <1>0, m \in Nat, CountsGrow
  <2>4. Cardinality(After(log, n, l - Window))
          = Cardinality(After(log, m, l - Window)) + (IF a > l - Window THEN 1 ELSE 0)
    BY ONLY <1>0, m \in Nat, CountsGrow
  <2>5. Cardinality(After(log, m, l - Window)) \in Nat
    BY ONLY m \in Nat, CountsAre
  <2>6. r.total = Cardinality(After(log, n, l - Window)) /\ r \in Ring
    <3>1. ~(a > l - Window)
      BY <1>1, <2>2
    <3> QED BY <2>2, <2>4, <2>5, <3>1 DEF Holds
  <2>7. \A i \in 1 .. n : log[i].at <= l
    BY <1>0, <1>1, <2>2 DEF Holds
  <2>8. ASSUME NEW u \in Slot
        PROVE  \/ r.stamps[u] = -1 /\ r.buckets[u] = 0
               \/ /\ l - Window < r.stamps[u] /\ r.stamps[u] <= l /\ 0 <= r.stamps[u]
                  /\ r.stamps[u] % Window = u
                  /\ r.buckets[u] = Cardinality(At(log, n, r.stamps[u]))
    <3>1. CASE r.stamps[u] = -1 /\ r.buckets[u] = 0
      BY <3>1
    <3>2. CASE /\ l - Window < r.stamps[u] /\ r.stamps[u] <= l /\ 0 <= r.stamps[u]
               /\ r.stamps[u] % Window = u
               /\ r.buckets[u] = Cardinality(At(log, m, r.stamps[u]))
      <4>1. r.stamps[u] \in Int
        BY <2>6 DEF Ring
      <4>2. a # r.stamps[u]
        BY <1>1, <2>2, <3>2, <4>1
      <4>3. Cardinality(At(log, m, r.stamps[u])) \in Nat
        BY ONLY m \in Nat, CountsAre
      <4>4. Cardinality(At(log, n, r.stamps[u])) = Cardinality(At(log, m, r.stamps[u]))
        BY <2>3, <4>1, <4>2, <4>3
      <4> QED BY <3>2, <4>4
    <3> QED BY <2>2, <3>1, <3>2 DEF Holds
  <2>9. After(log, n, l - Window) = After(log, m, l - Window)
    <3>1. ~(log[n].at > l - Window)
      BY <1>0, <1>1, <2>2
    <3> QED BY <1>0, <3>1 DEF After
  <2>10. Holds(r, log, n, l)
    BY <2>2, <2>6, <2>7, <2>8, <2>9 DEF Holds
  <2> QED BY <1>0, <2>1, <2>2, <2>10 DEF Rings
<1>3. CASE ~Windows!Late(r, a)
  <2>1. PICK q : q = Windows!Advance(r, a)
    OBVIOUS
  <2>2. Windows!Increment(r, a) = Windows!Put(q, a, 1)
    BY <1>3, <2>1 DEF Windows!Increment
  <2>3. Rings(q, log, m) /\ q.last \in Nat /\ a <= q.last
    BY <1>1, <2>1, AdvanceHolds
  <2>4. q.last - Window < a
    <3>1. q.last = a \/ (q.last = r.last /\ r.last # -1)
      BY <1>1, <2>1, AdvanceHolds
    <3>2. r.last \in Nat \cup {-1}
      BY DEF Rings
    <3> QED BY <1>1, <1>3, <2>3, <3>1, <3>2 DEF Windows!Late, Windows!None
  <2>5. PICK l \in Nat : l = q.last
    BY <2>3
  <2>6. Holds(q, log, m, l)
    BY <2>3, <2>5 DEF Rings
  <2>7. Holds(Windows!Put(q, a, 1), log, n, l) /\ Windows!Put(q, a, 1).last = l
    BY <1>0, <2>3, <2>4, <2>5, <2>6, PutHolds
  <2> QED BY <1>0, <2>2, <2>5, <2>7 DEF Rings
<1> QED BY <1>2, <1>3

\* A batch, one record after the other.
LEMMA IncrementedHolds ==
  ASSUME NEW log \in Seq(Record), NEW m \in Nat, NEW batch \in Seq(Record),
         Len(log) = m + Len(batch), \A i \in 1 .. Len(batch) : log[m + i] = batch[i],
         NEW r, Rings(r, log, m)
  PROVE  Rings(Incremented(r, batch), log, Len(log))
<1>1. PICK n \in Nat : n = Len(batch) /\ Len(log) = m + n
  OBVIOUS
<1> DEFINE good == [k \in 0 .. n |-> {x \in Ring : Rings(x, log, m + k)}]
           step == [k \in 1 .. n |-> [x \in Ring |-> Windows!Increment(x, batch[k].at)]]
           Solves(g) == g = [k \in 0 .. n |->
                              IF k = 0 THEN r ELSE Windows!Increment(g[k - 1], batch[k].at)]
<1>2. good \in [0 .. n -> SUBSET Ring] /\ r \in good[0]
  <2>1. r \in Ring /\ Rings(r, log, m + 0)
    BY DEF Rings, Holds
  <2> QED BY <2>1
<1>3. ASSUME NEW k \in 1 .. n, NEW x \in good[k - 1]
      PROVE  step[k][x] \in good[k] /\ step[k][x] = Windows!Increment(x, batch[k].at)
  <2>1. PICK q \in 0 .. n : q = k - 1 /\ k = q + 1
    OBVIOUS
  <2>2. x \in Ring /\ Rings(x, log, m + q)
    BY <2>1
  <2>3. PICK j \in Nat : j = m + q /\ j + 1 = m + k /\ j < Len(log)
    BY <1>1, <2>1
  <2>4. log[j + 1].at = batch[k].at
    BY <1>1, <2>3
  <2>5. Rings(Windows!Increment(x, batch[k].at), log, m + k)
    BY <2>2, <2>3, <2>4, IncrementHolds
  <2>6. Windows!Increment(x, batch[k].at) \in Ring
    BY <2>5 DEF Rings, Holds
  <2> QED BY <2>2, <2>5, <2>6
<1>4. \A x \in good[n] : Rings(x, log, m + n)
  OBVIOUS
<1> HIDE DEF good, step
<1>5. PICK f \in [0 .. n -> Ring] : /\ f[0] = r /\ \A k \in 1 .. n : f[k] = step[k][f[k - 1]]
                                    /\ \A k \in 0 .. n : f[k] \in good[k]
  <2>1. Leads(step, good, n, Ring)
    BY <1>2, <1>3 DEF Leads
  <2>2. \E h : Solution(h, r, step, n, Ring) /\ \A k \in 0 .. n : h[k] \in good[k]
    BY <1>2, <2>1, Iteration
  <2> QED BY <2>2 DEF Solution
<1>6. ASSUME NEW k \in 0 .. n
      PROVE  f[k] = IF k = 0 THEN r ELSE Windows!Increment(f[k - 1], batch[k].at)
  <2>1. CASE k = 0
    BY <1>5, <2>1
  <2>2. CASE k # 0
    <3>1. k \in 1 .. n /\ k - 1 \in 0 .. n
      BY <2>2
    <3> QED BY <1>3, <1>5, <2>2, <3>1
  <2> QED BY <2>1, <2>2
<1>7. Solves(f)
  <2>1. f = [k \in 0 .. n |-> f[k]]
    OBVIOUS
  <2> QED BY <1>6, <2>1
<1>8. PICK g : Solves(g) /\ Incremented(r, batch) = g[n]
  <2>1. Incremented(r, batch) = (CHOOSE g : Solves(g))[n]
    BY <1>1 DEF Incremented
  <2> HIDE DEF Solves
  <2> QED BY <1>7, <2>1
<1> DEFINE G == {k \in Nat : k <= n => g[k] \in good[k]}
<1>9. 0 \in G
  BY <1>2, <1>8
<1>10. ASSUME NEW k \in Nat, k \in G PROVE k + 1 \in G
  <2> SUFFICES ASSUME k + 1 <= n PROVE g[k + 1] \in good[k + 1]
    OBVIOUS
  <2>1. PICK i \in 1 .. n : i = k + 1 /\ i - 1 = k
    OBVIOUS
  <2>2. g[i - 1] \in good[i - 1]
    BY <1>10, <2>1
  <2>3. g[i] = Windows!Increment(g[i - 1], batch[i].at)
    BY <1>8
  <2> QED BY <1>3, <2>1, <2>2, <2>3
<1>11. n \in G
  <2> HIDE DEF G, Solves
  <2> QED BY <1>9, <1>10, NumberInduction
<1> QED BY <1>1, <1>4, <1>8, <1>11

\* A longer log that begins the same says the same of its beginning.
LEMMA SameBeginning ==
  ASSUME NEW m \in Nat, NEW log, NEW more, \A i \in 1 .. m : more[i] = log[i], NEW r, Rings(r, log, m)
  PROVE  Rings(r, more, m)
<1>1. PICK l : l = r.last
  OBVIOUS
<1>2. Holds(r, log, m, l) /\ l \in Nat \cup {-1}
  BY <1>1 DEF Rings
<1>3. \A t : At(more, m, t) = At(log, m, t)
  BY DEF At
<1>4. \A t : After(more, m, t) = After(log, m, t)
  BY DEF After
<1>5. \A i \in After(log, m, l - Window) : i \in 1 .. m
  BY DEF After
<1>6. Holds(r, more, m, l)
  <2>1. r \in Ring /\ r.total = Cardinality(After(more, m, l - Window))
    BY <1>2, <1>4 DEF Holds
  <2>2. \A i \in 1 .. m : more[i].at <= l
    BY <1>2 DEF Holds
  <2>3. \A s \in Slot :
          \/ r.stamps[s] = -1 /\ r.buckets[s] = 0
          \/ /\ l - Window < r.stamps[s] /\ r.stamps[s] <= l /\ 0 <= r.stamps[s]
             /\ r.stamps[s] % Window = s
             /\ r.buckets[s] = Cardinality(At(more, m, r.stamps[s]))
    BY <1>2, <1>3 DEF Holds
  <2>4. \A i \in After(more, m, l - Window) : r.stamps[more[i].at % Window] = more[i].at
    BY <1>2, <1>4, <1>5 DEF Holds
  <2> QED BY <2>1, <2>2, <2>3, <2>4 DEF Holds
<1> QED BY <1>1, <1>2, <1>6 DEF Rings

\* The ring stands for all the windows were given since the start.
RingInv == Rings(ring, recorded, Len(recorded))

LEMMA RingStep == ASSUME TypeInv, RingInv, [Next]_vars PROVE RingInv'
<1>0. recorded \in Seq(Record) /\ clock \in Nat /\ Len(recorded) \in Nat /\ queue \in Seq(Record)
  BY Constants DEF TypeInv, TypeOK
<1>1. ASSUME NEW n \in 1 .. BatchSize, AppendBatch(n) \/ \E k \in 0 .. n : AppendFails(n, k)
      PROVE  RingInv'
  <2>1. PICK k \in 0 .. n : Appends(n, k)
    BY <1>1, AppendSteps
  <2>2. PICK batch : batch = Taken(n)
    OBVIOUS
  <2>3. n \in 0 .. Len(queue)
    BY <1>0, <2>1 DEF Appends
  <2>4. batch \in Seq(Record)
    BY <1>0, <2>2, <2>3, Cut
  <2>5. PICK log : log = recorded \o batch
    OBVIOUS
  <2>6. recorded' = log /\ ring' = Incremented(ring, batch)
    BY <2>1, <2>2, <2>5 DEF Appends, Ingest
  <2>7. /\ log \in Seq(Record) /\ Len(log) = Len(recorded) + Len(batch)
        /\ \A i \in 1 .. Len(recorded) : log[i] = recorded[i]
        /\ \A i \in 1 .. Len(batch) : log[Len(recorded) + i] = batch[i]
    BY ONLY <1>0, <2>4, <2>5, Concatenation
  <2>8. Rings(ring, log, Len(recorded))
    BY <1>0, <2>7, SameBeginning DEF RingInv
  <2>9. Rings(Incremented(ring, batch), log, Len(log))
    BY <1>0, <2>4, <2>7, <2>8, IncrementedHolds
  <2> QED BY <2>6, <2>9 DEF RingInv
<1>2. ASSUME NEW k \in 0 .. BatchSize, Restart(k) PROVE RingInv'
  <2>1. PICK disk, log, m : Restarts(disk, log, m)
    BY <1>2, RestartSteps
  <2>2. log \in Seq(Record) /\ recorded' = log /\ ring' = Incremented(Windows!Empty(-1), log)
    BY <2>1 DEF Restarts
  <2>3. Rings(Windows!Empty(-1), log, 0)
    BY <2>2, StartHolds
  <2>4. Len(log) = 0 + Len(log) /\ \A i \in 1 .. Len(log) : log[0 + i] = log[i]
    BY <2>2
  <2>5. Rings(Incremented(Windows!Empty(-1), log), log, Len(log))
    BY <2>2, <2>3, <2>4, IncrementedHolds
  <2> QED BY <2>2, <2>5 DEF RingInv
<1>3. CASE WriteSnapshot
  <2>1. ring' = Windows!Advance(ring, clock) /\ recorded' = recorded
    BY <1>3 DEF WriteSnapshot, Windows!ReadAt
  <2>2. Len(recorded) \in 0 .. Len(recorded) /\ Rings(ring, recorded, Len(recorded))
    BY <1>0 DEF RingInv
  <2>3. Rings(Windows!Advance(ring, clock), recorded, Len(recorded))
    BY <1>0, <2>2, AdvanceHolds
  <2> QED BY <2>1, <2>3 DEF RingInv
<1>4. CASE Tick \/ Submit \/ (\E e \in waiting : Admit(e)) \/ UNCHANGED vars
  <2>1. ring' = ring /\ recorded' = recorded
    BY <1>4 DEF Tick, Submit, Admit, vars, counts
  <2> QED BY <2>1 DEF RingInv
<1> QED BY <1>1, <1>2, <1>3, <1>4 DEF Next

-----------------------------------------------------------------------------
(* The theorems *)

IInv ==
  /\ TypeInv /\ Numbers /\ Passed /\ Missed /\ MissedWereInFlight /\ Unique /\ Once
  /\ RingInv /\ (inOrder => InOrder)

LEMMA InitInvariant == Init => IInv
<1> SUFFICES ASSUME Init PROVE IInv
  OBVIOUS
<1>1. ToSet(queue) = {} /\ ToSet(active) = {} /\ ToSet(recorded) = {}
  BY DEF Init, ToSet
<1>2. InFlight = {} /\ Logged = {} /\ Reached = {} /\ Given = {} /\ Live = {}
  BY <1>1 DEF Init, InFlight, Logged, Reached, Given, Live, InReach, Reach
<1>3. Chain(queue, Apart) /\ Chain(active, Apart) /\ Chain(recorded, Apart)
  BY DEF Init, Chain
<1>4. \A s \in Share : life[s] = 0 /\ snapshot.life[s] = 0
  BY DEF Init, SnapshotOf
<1>5. Missed /\ MissedWereInFlight
  BY <1>2 DEF Missed, MissedWereInFlight
<1>6. Unique
  BY <1>1, <1>2, <1>3 DEF Init, Unique, NoneShared
<1>7. Once
  BY <1>2, <1>4 DEF Once, NoneShared
<1>8. InOrder
  <2>1. LogInOrder /\ QueueInOrder
    BY <1>1, <1>2 DEF Init, LogInOrder, QueueInOrder, Chain
  <2>2. Chain(recorded, Rising) /\ Covered
    BY <1>2 DEF Init, Covered, Chain
  <2> QED BY <2>1, <2>2 DEF InOrder
<1>9. RingInv
  <2>1. ring = Windows!Empty(-1) /\ recorded = <<>> /\ recorded \in Seq(Record) /\ Len(recorded) = 0
    BY DEF Init
  <2> QED BY <2>1, StartHolds DEF RingInv
<1> QED BY <1>5, <1>6, <1>7, <1>8, <1>9, InitNumbers DEF IInv

LEMMA StepInvariant == IInv /\ [Next]_vars => IInv'
<1> SUFFICES ASSUME IInv, [Next]_vars PROVE IInv'
  OBVIOUS
<1>1. TypeInv /\ Numbers /\ Passed /\ Missed /\ MissedWereInFlight /\ Unique /\ Once /\ RingInv
  BY DEF IInv
<1>2. ASSUME inOrder' PROVE InOrder'
  <2>1. InOrder
    BY <1>2, OrderStays DEF IInv, TypeInv, TypeOK
  <2> QED BY <1>1, <1>2, <2>1, QueueStep, LogStep, CoverStep DEF InOrder
<1> QED BY <1>1, <1>2, TypeStep, NumbersStep, PassedStep, MissedStep, UniqueStep, OnceStep,
           RingStep DEF IInv

THEOREM Invariant == Spec => []IInv
BY InitInvariant, StepInvariant, PTL DEF Spec

\* Files, queue, counters and the claimed numbers stay what they should be.
THEOREM TypeCorrect == Spec => []TypeOK
<1>1. IInv => TypeOK
  BY DEF IInv, TypeInv
<1> QED BY <1>1, Invariant, PTL

\* Of the logged shares that their file's name reaches, a restart leaves only those
\* out of the lifetime counters that were in flight when the snapshot was taken.
THEOREM MissedInFlight == Spec => []MissedWereInFlight
<1>1. IInv => MissedWereInFlight
  BY DEF IInv
<1> QED BY <1>1, Invariant, PTL

\* Whatever fails, is overtaken or is read again after a restart, no share counts
\* twice.
THEOREM CountedOnce == Spec => []NeverTwice
<1>1. IInv => NeverTwice
  <2> SUFFICES ASSUME IInv, NEW s \in Share PROVE life[s] <= 1 /\ Times(s, recorded) <= 1
    BY DEF NeverTwice
  <2>1. Times(s, recorded) <= 1
    BY OnceInChain DEF IInv, TypeInv, TypeOK, Unique
  <2> QED BY <2>1 DEF IInv, Once
<1> QED BY <1>1, Invariant, PTL

\* As long as no share is overtaken on its way to the log, every logged share of the
\* longest window is in the windows, once, before and after a restart.
THEOREM WindowsAreComplete == Spec => []WindowsComplete
<1>1. IInv => WindowsComplete
  <2> SUFFICES ASSUME IInv, inOrder, NEW r \in Logged, Recent(r) PROVE Times(r.share, recorded) = 1
    BY DEF WindowsComplete
  <2>1. r \in ToSet(recorded) /\ recorded \in Seq(Record) /\ Chain(recorded, Apart)
    BY DEF IInv, InOrder, Covered, Given, Unique, TypeInv, TypeOK
  <2>2. Times(r.share, recorded) <= 1
    BY <2>1, OnceInChain
  <2>3. r.share \in SharesOf(ToSet(recorded))
    BY <2>1 DEF SharesOf
  <2>4. Times(r.share, recorded) \in Nat /\ Times(r.share, recorded) > 0
    BY <2>1, <2>3, TimesIs
  <2> QED BY <2>2, <2>4
<1> QED BY <1>1, Invariant, PTL

\* The total of the longest window is the number of records of its seconds the
\* windows were given, whatever the order of appends, late records, readings and
\* replays.
THEOREM TotalIsOfWindow == Spec => []TotalIsWindow
<1>1. IInv => TotalIsWindow
  <2> SUFFICES ASSUME IInv PROVE TotalIsWindow
    OBVIOUS
  <2>1. recorded \in Seq(Record) /\ DOMAIN recorded = 1 .. Len(recorded)
    BY DEF IInv, TypeInv, TypeOK
  <2>2. ring.total = Cardinality(After(recorded, Len(recorded), ring.last - Window))
    BY DEF IInv, RingInv, Rings, Holds
  <2>3. After(recorded, Len(recorded), ring.last - Window)
          = {i \in DOMAIN recorded : recorded[i].at > ring.last - Window}
    BY <2>1 DEF After
  <2> QED BY <2>2, <2>3 DEF TotalIsWindow
<1> QED BY <1>1, Invariant, PTL
=============================================================================
