------------------------ MODULE PayoutCarryProofs ------------------------
(***************************************************************************)
(* For any number of blocks and wallets, any rewards, any order and any    *)
(* number of lost answers and crashes.                                     *)
(*                                                                         *)
(* No block is the source of two payments to one wallet: what a send pays  *)
(* goes into the ledger in the same step, and a send whose sources meet    *)
(* the ledger is rejected, however old the rows are it was selected from.  *)
(*                                                                         *)
(* A payment marks confirmed blocks of the pool only, and is worth at      *)
(* least the blocks it adds up: every row that can be paid out is worth    *)
(* its own block, through every scan of the candidates (by induction over  *)
(* the blocks), and a send adds up the rows the file holds at that time    *)
(* (by induction over their set).                                          *)
(*                                                                         *)
(* Where blocks are confirmed in order, have one miner each, and every     *)
(* selected send is made (Regular), a payment is worth exactly the blocks  *)
(* it marks, and all payments are at most the rewards.  Of each wallet,    *)
(* either all that is due is paid or none of it; what is kept is below the *)
(* minimum, and the candidates file shows the same blocks as the ledger.   *)
(***************************************************************************)
EXTENDS PayoutCarry, FiniteSetTheorems, TLAPS

\* Every payment stands in the ledger with its wallet and its sources: the
\* intent is written before the send, and every outcome keeps the sources.
Recorded ==
  \A t \in txs : \E e \in ledger : e.wallet = t.wallet /\ e.sources = t.sources

OnceInv == Recorded /\ SourcesOnce

\* What a payment was made from counts as settled, by the ledger alone.
LEMMA PaidIsSettled ==
  ASSUME Recorded, NEW t \in txs
  PROVE  t.sources \subseteq Settled(t.wallet)
<1>1. PICK e \in ledger : e.wallet = t.wallet /\ e.sources = t.sources
  BY DEF Recorded
<1>2. e.sources \cup e.carried \in
        {f.sources \cup f.carried : f \in {d \in ledger : d.wallet = t.wallet}}
  BY <1>1
<1> QED
  BY <1>1, <1>2 DEF Settled

\* What a send pays is new to the ledger, and is in it afterwards.
LEMMA TransferPreserves ==
  ASSUME OnceInv, NEW g, NEW ids, Transfer(g, ids)
  PROVE  OnceInv'
<1> DEFINE new == [n |-> Cardinality(txs), wallet |-> g.wallet, amount |-> g.amount,
                   sources |-> g.sources, carried |-> g.carried]
<1>1. txs' = txs \cup {new} /\ ledger' = ledger \cup {Entry(g, ids)}
  BY DEF Transfer
<1>2. g.sources \cap Settled(g.wallet) = {}
  BY DEF Transfer, Admissible
<1>3. new.wallet = g.wallet /\ new.sources = g.sources
  OBVIOUS
<1>4. Entry(g, ids).wallet = g.wallet /\ Entry(g, ids).sources = g.sources
  BY DEF Entry
<1> HIDE DEF new
<1>5. Recorded'
  <2> SUFFICES ASSUME NEW t \in txs'
               PROVE  \E e \in ledger' : e.wallet = t.wallet /\ e.sources = t.sources
    BY DEF Recorded
  <2>1. CASE t \in txs
    BY <2>1, <1>1 DEF OnceInv, Recorded
  <2>2. CASE t = new
    BY <2>2, <1>1, <1>3, <1>4
  <2> QED
    BY <1>1, <2>1, <2>2
<1>6. ASSUME NEW u \in txs
      PROVE  ~(u.wallet = g.wallet /\ u.sources \cap g.sources # {})
  BY <1>2, PaidIsSettled DEF OnceInv
<1>7. SourcesOnce'
  <2> SUFFICES ASSUME NEW t \in txs', NEW u \in txs',
                      t.wallet = u.wallet, t.sources \cap u.sources # {}
               PROVE  t = u
    BY DEF SourcesOnce
  <2>1. CASE t \in txs /\ u \in txs
    BY <2>1 DEF OnceInv, SourcesOnce
  <2>2. CASE t \in txs /\ u = new
    BY <2>2, <1>3, <1>6
  <2>3. CASE t = new /\ u \in txs
    <3>1. u.sources \cap g.sources # {}
      BY <2>3, <1>3
    <3> QED
      BY <3>1, <2>3, <1>3, <1>6
  <2> QED
    BY <1>1, <2>1, <2>2, <2>3
<1> QED
  BY <1>5, <1>7 DEF OnceInv

\* Every step of the two workflows keeps the invariant.
LEMMA OnceStep ==
  ASSUME OnceInv, [Next]_vars
  PROVE  OnceInv'
<1>1. ASSUME UNCHANGED <<ledger, txs>>
      PROVE  OnceInv'
  BY <1>1 DEF OnceInv, Recorded, SourcesOnce
<1>2. ASSUME NEW b \in Block, Confirm(b)
      PROVE  OnceInv'
  BY <1>2, <1>1 DEF Confirm
<1>3. ASSUME NEW p \in Run, Generate(p)
      PROVE  OnceInv'
  BY <1>3, <1>1 DEF Generate, Begin, BuildCarry, SkipGenerate, ReadInputs, WriteRows
<1>4. CASE Load \/ Select \/ Finish
  BY <1>4, <1>1 DEF Load, Select, Finish
<1>5. ASSUME NEW g \in groups, Pay(g) \/ PayTimedOut(g) \/ PayAndDie(g)
      PROVE  OnceInv'
  BY <1>5, TransferPreserves DEF Pay, PayTimedOut, PayAndDie
<1>6. ASSUME NEW g \in groups, Rejected(g) \/ Refuse(g)
      PROVE  OnceInv'
  BY <1>6, <1>1 DEF Rejected, Refuse
<1>7. CASE UNCHANGED vars
  BY <1>7, <1>1 DEF vars
<1> QED
  BY <1>2, <1>3, <1>4, <1>5, <1>6, <1>7 DEF Next

\* No block is the source of two payments to one wallet: the re-check of
\* payout_wallet_send_aggregated_once under the payment lock.
THEOREM PaidFromOnce == Spec => []SourcesOnce
<1>1. Init => OnceInv
  BY DEF Init, OnceInv, Recorded, SourcesOnce
<1>2. OnceInv /\ [Next]_vars => OnceInv'
  BY OnceStep
<1>3. OnceInv => SourcesOnce
  BY DEF OnceInv
<1> QED
  BY <1>1, <1>2, <1>3, PTL DEF Spec

-----------------------------------------------------------------------------
(* Sums over finite sets *)

\* A set of numbers has a least one.
LEMMA LeastNumber ==
  ASSUME NEW S, S \subseteq Nat, S # {}
  PROVE  \E m \in S : \A n \in S : m <= n
<1> DEFINE R == {ss \in Nat \X Nat : ss[1] < ss[2]}
<1>1. IsWellFoundedOn(R, Nat)
  BY NatLessThanWellFounded DEF OpToRel
<1>2. PICK m \in S : \A n \in S : ~(<<n, m>> \in R)
  <2> HIDE DEF R
  <2> QED BY <1>1, WFMin
<1>3. ASSUME NEW n \in S PROVE m <= n
  <2>1. <<n, m>> \in Nat \X Nat /\ <<n, m>>[1] = n /\ <<n, m>>[2] = m
    BY <1>3
  <2>2. ~(n < m)
    BY <1>2, <2>1
  <2> QED BY <2>2
<1> QED BY <1>3

\* What holds of 0 and of the successor holds of every number.
LEMMA NumberInduction ==
  ASSUME NEW G, 0 \in G, \A n \in Nat : n \in G => n + 1 \in G
  PROVE  Nat \subseteq G
<1> SUFFICES ASSUME Nat \ G # {} PROVE FALSE
  OBVIOUS
<1>1. PICK m \in Nat \ G : \A n \in Nat \ G : m <= n
  BY LeastNumber
<1>2. m # 0 /\ m - 1 \in Nat /\ m - 1 + 1 = m /\ ~(m <= m - 1)
  OBVIOUS
<1> QED BY <1>1, <1>2

\* What holds of a set once it holds of its proper subsets holds of every finite set.
LEMMA SetInduction ==
  ASSUME NEW S, IsFiniteSet(S), NEW G,
         \A T \in SUBSET S : (\A U \in SUBSET T : U # T => U \in G) => T \in G
  PROVE  SUBSET S \subseteq G
<1> DEFINE B == (SUBSET S) \ G
<1> SUFFICES ASSUME B # {} PROVE FALSE
  OBVIOUS
<1>1. IsWellFoundedOn(StrictSubsetOrdering(S), SUBSET S)
  <2>1. IsWellFoundedOn(StrictSubsetOrdering(S), FiniteSubsetsOf(S))
    BY ONLY FS_StrictSubsetOrderingWellFounded
  <2>2. FiniteSubsetsOf(S) = SUBSET S
    BY FS_FiniteSubsetsOfFinite
  <2> QED BY ONLY <2>1, <2>2
<1>2. PICK T \in B : \A U \in B : ~(<<U, T>> \in StrictSubsetOrdering(S))
  <2>1. B \subseteq SUBSET S
    OBVIOUS
  <2> HIDE DEF B
  <2> QED BY <1>1, <2>1, WFMin
<1>3. ASSUME NEW U \in SUBSET T, U # T PROVE U \in G
  <2>1. U \in SUBSET S /\ T \in SUBSET S
    OBVIOUS
  <2>2. <<U, T>> \in StrictSubsetOrdering(S)
    BY <1>3, <2>1 DEF StrictSubsetOrdering
  <2> QED BY <1>2, <2>1, <2>2
<1> QED BY <1>3

First(s) == CHOOSE x \in s : TRUE
\* g adds up f over the subsets of S.
Adds(g, f, S) ==
  g = [s \in SUBSET S |-> IF s = {} THEN 0 ELSE f[First(s)] + g[s \ {First(s)}]]

\* The sum as the community modules define it.
LEMMA SumIs == ASSUME NEW f, NEW S PROVE SumFunctionOnSet(f, S) = (CHOOSE g : Adds(g, f, S))[S]
BY DEF SumFunctionOnSet, FoldFunctionOnSet, MapThenFoldSet, Adds, First

\* Adds one size at a time.
AddsUpTo(g, f, S, n) ==
  \A s \in SUBSET S : Cardinality(s) <= n =>
    g[s] = IF s = {} THEN 0 ELSE f[First(s)] + g[s \ {First(s)}]

\* Taking the first element away.
LEMMA Sizes ==
  ASSUME NEW S, IsFiniteSet(S)
  PROVE  \A s \in SUBSET S : /\ IsFiniteSet(s) /\ Cardinality(s) \in Nat
                             /\ Cardinality(s) <= Cardinality(S)
                             /\ s # {} => /\ First(s) \in s /\ Cardinality(s) # 0
                                          /\ Cardinality(s \ {First(s)}) = Cardinality(s) - 1
                             /\ s = {} => Cardinality(s) = 0
<1> SUFFICES ASSUME NEW s \in SUBSET S
             PROVE  /\ IsFiniteSet(s) /\ Cardinality(s) \in Nat
                    /\ Cardinality(s) <= Cardinality(S)
                    /\ s # {} => /\ First(s) \in s /\ Cardinality(s) # 0
                                 /\ Cardinality(s \ {First(s)}) = Cardinality(s) - 1
                    /\ s = {} => Cardinality(s) = 0
  OBVIOUS
<1>1. IsFiniteSet(s) /\ Cardinality(s) \in Nat /\ Cardinality(s) <= Cardinality(S)
  BY FS_Subset, FS_CardinalityType
<1>2. s # {} => First(s) \in s
  BY DEF First
<1>3. s # {} => Cardinality(s \ {First(s)}) = Cardinality(s) - 1
  BY <1>1, <1>2, FS_RemoveElement
<1>4. Cardinality(s) = 0 <=> s = {}
  BY <1>1, FS_EmptySet
<1> QED BY <1>1, <1>2, <1>3, <1>4

\* Such a function exists, one size after the other.
LEMMA AddsExists ==
  ASSUME NEW f, NEW S, IsFiniteSet(S)
  PROVE  \E g : Adds(g, f, S)
<1>0. Cardinality(S) \in Nat
  BY FS_CardinalityType
<1> DEFINE G == {n \in Nat : \E g : g = [s \in SUBSET S |-> g[s]] /\ AddsUpTo(g, f, S, n)}
<1>1. 0 \in G
  <2> DEFINE g == [s \in SUBSET S |-> 0]
  <2>1. ASSUME NEW s \in SUBSET S, Cardinality(s) <= 0 PROVE s = {}
    <3>1. Cardinality(s) \in Nat /\ (s # {} => Cardinality(s) # 0)
      BY Sizes
    <3> QED BY <2>1, <3>1
  <2>2. \A s \in SUBSET S : Cardinality(s) <= 0 => g[s] = 0 /\ s = {}
    BY <2>1
  <2>3. g = [s \in SUBSET S |-> g[s]]
    OBVIOUS
  <2> HIDE DEF g
  <2>4. AddsUpTo(g, f, S, 0)
    BY <2>2 DEF AddsUpTo
  <2> QED BY <2>3, <2>4
<1>2. ASSUME NEW n \in G PROVE n + 1 \in G
  <2>1. PICK g : g = [s \in SUBSET S |-> g[s]] /\ AddsUpTo(g, f, S, n)
    OBVIOUS
  <2> DEFINE h == [s \in SUBSET S |-> IF Cardinality(s) <= n THEN g[s]
                                      ELSE f[First(s)] + g[s \ {First(s)}]]
  <2>2. ASSUME NEW s \in SUBSET S, Cardinality(s) <= n + 1
        PROVE  h[s] = IF s = {} THEN 0 ELSE f[First(s)] + h[s \ {First(s)}]
    <3>1. CASE s = {}
      <4>1. Cardinality(s) = 0
        BY <3>1, Sizes
      <4>2. Cardinality(s) <= n
        BY <4>1
      <4>3. g[s] = 0
        BY <2>1, <3>1, <4>2 DEF AddsUpTo
      <4> QED BY <3>1, <4>2, <4>3
    <3>2. CASE s # {}
      <4>1. /\ s \ {First(s)} \in SUBSET S /\ Cardinality(s) \in Nat
            /\ Cardinality(s \ {First(s)}) = Cardinality(s) - 1
        BY <3>2, Sizes
      <4>2. Cardinality(s \ {First(s)}) <= n
        BY <2>2, <4>1
      <4>3. h[s \ {First(s)}] = g[s \ {First(s)}]
        BY <4>1, <4>2
      <4>4. h[s] = f[First(s)] + g[s \ {First(s)}]
        <5>1. CASE Cardinality(s) <= n
          BY <2>1, <3>2, <5>1 DEF AddsUpTo
        <5>2. CASE ~(Cardinality(s) <= n)
          BY <5>2
        <5> QED BY <5>1, <5>2
      <4> QED BY <3>2, <4>3, <4>4
    <3> QED BY <3>1, <3>2
  <2>3. h = [s \in SUBSET S |-> h[s]]
    OBVIOUS
  <2> HIDE DEF h
  <2>4. AddsUpTo(h, f, S, n + 1)
    BY <2>2 DEF AddsUpTo
  <2> QED BY <2>3, <2>4
<1>3. Cardinality(S) \in G
  <2> HIDE DEF G
  <2> QED BY <1>0, <1>1, <1>2, NumberInduction
<1>4. PICK g : g = [s \in SUBSET S |-> g[s]] /\ AddsUpTo(g, f, S, Cardinality(S))
  BY <1>3
<1>5. ASSUME NEW s \in SUBSET S
      PROVE  g[s] = IF s = {} THEN 0 ELSE f[First(s)] + g[s \ {First(s)}]
  BY <1>4, Sizes DEF AddsUpTo
<1>6. g = [s \in SUBSET S |-> IF s = {} THEN 0 ELSE f[First(s)] + g[s \ {First(s)}]]
  BY <1>4, <1>5
<1> QED BY <1>6 DEF Adds

\* And what it gives for a set does not depend on the set it was made for.
LEMMA AddsUnique ==
  ASSUME NEW f, NEW S, IsFiniteSet(S), NEW T \in SUBSET S, NEW g, NEW h,
         Adds(g, f, S), Adds(h, f, T)
  PROVE  g[T] = h[T]
<1> DEFINE G == {s \in SUBSET T : g[s] = h[s]}
<1>0. IsFiniteSet(T)
  BY FS_Subset
<1>1. ASSUME NEW s \in SUBSET T, \A u \in SUBSET s : u # s => u \in G
      PROVE  s \in G
  <2>1. g[s] = IF s = {} THEN 0 ELSE f[First(s)] + g[s \ {First(s)}]
    BY DEF Adds
  <2>2. h[s] = IF s = {} THEN 0 ELSE f[First(s)] + h[s \ {First(s)}]
    BY DEF Adds
  <2>3. CASE s = {}
    BY <2>1, <2>2, <2>3
  <2>4. CASE s # {}
    <3>1. First(s) \in s
      BY <2>4 DEF First
    <3>2. s \ {First(s)} \in SUBSET s /\ s \ {First(s)} # s
      BY <3>1
    <3>3. g[s \ {First(s)}] = h[s \ {First(s)}]
      BY <1>1, <3>2
    <3> QED BY <2>1, <2>2, <2>4, <3>3
  <2> QED BY <2>3, <2>4
<1>2. SUBSET T \subseteq G
  <2> HIDE DEF G
  <2> QED BY <1>0, <1>1, SetInduction
<1>3. T \in SUBSET T
  OBVIOUS
<1> QED BY <1>2, <1>3

\* The sum as its definition has it: the first element, and the rest.
LEMMA SumSplits ==
  ASSUME NEW f, NEW S, IsFiniteSet(S)
  PROVE  SumFunctionOnSet(f, S) = IF S = {} THEN 0 ELSE f[First(S)] + SumFunctionOnSet(f, S \ {First(S)})
<1> DEFINE R == S \ {First(S)}
<1>1. IsFiniteSet(R) /\ R \in SUBSET S
  BY FS_Subset
<1>2. PICK g : Adds(g, f, S) /\ SumFunctionOnSet(f, S) = g[S]
  BY AddsExists, SumIs
<1>3. PICK h : Adds(h, f, R) /\ SumFunctionOnSet(f, R) = h[R]
  <2> HIDE DEF R
  <2> QED BY <1>1, AddsExists, SumIs
<1>4. g[R] = h[R]
  <2> HIDE DEF R
  <2> QED BY <1>1, <1>2, <1>3, AddsUnique
<1>5. g[S] = IF S = {} THEN 0 ELSE f[First(S)] + g[R]
  BY <1>2 DEF Adds
<1> QED BY <1>2, <1>3, <1>4, <1>5

\* A sum of numbers is a number.
LEMMA SumIsNat ==
  ASSUME NEW f, NEW S, IsFiniteSet(S), \A x \in S : f[x] \in Nat
  PROVE  SumFunctionOnSet(f, S) \in Nat
<1> DEFINE G == {T \in SUBSET S : SumFunctionOnSet(f, T) \in Nat}
<1>1. ASSUME NEW T \in SUBSET S, \A U \in SUBSET T : U # T => U \in G
      PROVE  T \in G
  <2>1. IsFiniteSet(T)
    BY FS_Subset
  <2>2. SumFunctionOnSet(f, T) = IF T = {} THEN 0
                                 ELSE f[First(T)] + SumFunctionOnSet(f, T \ {First(T)})
    BY <2>1, SumSplits
  <2>3. CASE T = {}
    BY <2>2, <2>3
  <2>4. CASE T # {}
    <3>1. First(T) \in T /\ First(T) \in S
      BY <2>4 DEF First
    <3>2. T \ {First(T)} \in SUBSET T /\ T \ {First(T)} # T
      BY <3>1
    <3>3. SumFunctionOnSet(f, T \ {First(T)}) \in Nat
      BY <1>1, <3>2
    <3>4. f[First(T)] \in Nat
      BY <3>1
    <3> QED BY <2>2, <2>4, <3>3, <3>4
  <2> QED BY <2>3, <2>4
<1>2. SUBSET S \subseteq G
  <2> HIDE DEF G
  <2> QED BY <1>1, SetInduction
<1>3. S \in SUBSET S
  OBVIOUS
<1> QED BY <1>2, <1>3

\* Element by element no more, and no more in all.
LEMMA SumIsMonotone ==
  ASSUME NEW f, NEW g, NEW S, IsFiniteSet(S),
         \A x \in S : f[x] \in Nat /\ g[x] \in Nat /\ f[x] <= g[x]
  PROVE  SumFunctionOnSet(f, S) <= SumFunctionOnSet(g, S)
<1> DEFINE G == {T \in SUBSET S : SumFunctionOnSet(f, T) <= SumFunctionOnSet(g, T)}
<1>1. ASSUME NEW T \in SUBSET S, \A U \in SUBSET T : U # T => U \in G
      PROVE  T \in G
  <2>1. IsFiniteSet(T)
    BY FS_Subset
  <2>2. /\ SumFunctionOnSet(f, T) = IF T = {} THEN 0
             ELSE f[First(T)] + SumFunctionOnSet(f, T \ {First(T)})
        /\ SumFunctionOnSet(g, T) = IF T = {} THEN 0
             ELSE g[First(T)] + SumFunctionOnSet(g, T \ {First(T)})
    BY <2>1, SumSplits
  <2>3. CASE T = {}
    BY <2>2, <2>3
  <2>4. CASE T # {}
    <3> DEFINE R == T \ {First(T)}
    <3>1. First(T) \in T /\ First(T) \in S
      BY <2>4 DEF First
    <3>2. R \in SUBSET T /\ R # T /\ IsFiniteSet(R)
      BY <2>1, <3>1, FS_Subset
    <3>3. SumFunctionOnSet(f, R) <= SumFunctionOnSet(g, R)
      BY <1>1, <3>2
    <3>4. SumFunctionOnSet(f, R) \in Nat /\ SumFunctionOnSet(g, R) \in Nat
      <4> HIDE DEF R
      <4>1. \A x \in R : f[x] \in Nat /\ g[x] \in Nat
        BY <3>2
      <4> QED BY <3>2, <4>1, SumIsNat
    <3>5. f[First(T)] \in Nat /\ g[First(T)] \in Nat /\ f[First(T)] <= g[First(T)]
      BY <3>1
    <3>6. /\ SumFunctionOnSet(f, T) = f[First(T)] + SumFunctionOnSet(f, R)
          /\ SumFunctionOnSet(g, T) = g[First(T)] + SumFunctionOnSet(g, R)
      BY <2>2, <2>4
    <3> HIDE DEF R
    <3>7. SumFunctionOnSet(f, T) <= SumFunctionOnSet(g, T)
      BY <3>3, <3>4, <3>5, <3>6
    <3> QED BY <3>7
  <2> QED BY <2>3, <2>4
<1>2. SUBSET S \subseteq G
  <2> HIDE DEF G
  <2> QED BY <1>1, SetInduction
<1>3. S \in SUBSET S
  OBVIOUS
<1> QED BY <1>2, <1>3

\* One element more, whichever it is.
LEMMA SumOfOneMore ==
  ASSUME NEW f, NEW S, IsFiniteSet(S), \A x \in S : f[x] \in Nat, NEW y \in S
  PROVE  SumFunctionOnSet(f, S) = f[y] + SumFunctionOnSet(f, S \ {y})
<1> DEFINE G == {T \in SUBSET S : \A z \in T :
                   SumFunctionOnSet(f, T) = f[z] + SumFunctionOnSet(f, T \ {z})}
<1>1. ASSUME NEW T \in SUBSET S, \A U \in SUBSET T : U # T => U \in G
      PROVE  T \in G
  <2> SUFFICES ASSUME NEW z \in T
               PROVE  SumFunctionOnSet(f, T) = f[z] + SumFunctionOnSet(f, T \ {z})
    OBVIOUS
  <2> DEFINE a == First(T)
             R == T \ {a}
  <2>1. IsFiniteSet(T) /\ a \in T
    BY FS_Subset DEF First
  <2>2. SumFunctionOnSet(f, T) = f[a] + SumFunctionOnSet(f, R)
    BY <2>1, SumSplits
  <2>3. CASE z = a
    BY <2>2, <2>3
  <2>4. CASE z # a
    <3>1. R \in SUBSET T /\ R # T /\ z \in R
      BY <2>1, <2>4
    <3>2. T \ {z} \in SUBSET T /\ T \ {z} # T /\ a \in T \ {z}
      BY <2>1, <2>4
    <3>3. SumFunctionOnSet(f, R) = f[z] + SumFunctionOnSet(f, R \ {z})
      BY <1>1, <3>1
    <3>4. SumFunctionOnSet(f, T \ {z}) = f[a] + SumFunctionOnSet(f, (T \ {z}) \ {a})
      BY <1>1, <3>2
    <3>5. (T \ {z}) \ {a} = R \ {z}
      OBVIOUS
    <3>6. f[a] \in Nat /\ f[z] \in Nat
      BY <2>1
    <3>7. SumFunctionOnSet(f, R \ {z}) \in Nat
      <4>1. IsFiniteSet(R \ {z}) /\ \A x \in R \ {z} : f[x] \in Nat
        BY <2>1, FS_Subset
      <4> QED BY <4>1, SumIsNat
    <3>8. SumFunctionOnSet(f, T \ {z}) = f[a] + SumFunctionOnSet(f, R \ {z})
      BY <3>4, <3>5
    <3> HIDE DEF R, a
    <3> QED BY <2>2, <3>3, <3>6, <3>7, <3>8
  <2> QED BY <2>3, <2>4
<1>2. SUBSET S \subseteq G
  <2> HIDE DEF G
  <2> QED BY <1>1, SetInduction
<1>3. S \in SUBSET S
  OBVIOUS
<1> QED BY <1>2, <1>3

-----------------------------------------------------------------------------
(* What a payment covers *)

\* A row that is paid out or carried is of a block that paid the pool, carries such
\* blocks, and is worth at least its own block.
GoodRow(r, b, w, ours) ==
  /\ r \in Row /\ r.carried \subseteq ours
  /\ r.status \in {"pending", "carried"} => b \in ours /\ Base[b][w] <= r.amount

GoodFile(file, ours) ==
  /\ file \in File
  /\ \A b \in Block, w \in Wallet : GoodRow(file[b][w], b, w, ours)

FilesInv ==
  /\ payable \subseteq Block /\ GoodFile(rows, Ours) /\ carry \in [Wallet -> SUBSET Ours]
  /\ pc \in [Run -> {"idle", "carry", "read", "write", "load", "select", "send", "post"}]
  /\ lock \in Run \cup {"free"}
  /\ buf = [p \in Run |-> buf[p]] /\ \A p \in Run : GoodFile(buf[p], Ours)
  /\ groups \subseteq Group /\ \A g \in groups : g.carried \subseteq Ours

PaymentsInv ==
  /\ ledger \subseteq [wallet : Wallet, sources : SUBSET Block, carried : SUBSET Block]
  /\ \A t \in txs : t.wallet \in Wallet /\ t.amount \in Nat
  /\ SourcesHonoured

CountersInv ==
  /\ unread \in 0 .. MaxUnread /\ refreshes \in 0 .. MaxRefreshes
  /\ refusals \in 0 .. MaxRefusals /\ timeouts \in 0 .. MaxTimeouts
  /\ crashes \in 0 .. MaxCrashes

CarryInv == FilesInv /\ PaymentsInv /\ CountersInv

\* A list of blocks is finite.
LEMMA BlocksAreFinite ==
  ASSUME CarryAssumption, NEW S \in SUBSET Block
  PROVE  IsFiniteSet(S)
<1>1. IsFiniteSet(Block)
  BY FS_Interval DEF CarryAssumption, Block
<1> QED BY <1>1, FS_Subset

\* What a list of blocks is worth is a number.
LEMMA AmountIsNat ==
  ASSUME CarryAssumption, NEW w \in Wallet, NEW S \in SUBSET Block
  PROVE  Amount(w, S) \in Nat
<1>1. IsFiniteSet(S)
  BY BlocksAreFinite
<1> DEFINE f == [b \in Block |-> Base[b][w]]
<1>2. \A b \in S : f[b] \in Nat
  BY DEF CarryAssumption
<1> HIDE DEF f
<1>3. SumFunctionOnSet(f, S) \in Nat
  BY <1>1, <1>2, SumIsNat
<1> QED BY <1>3 DEF Amount, f

\* So is the total of a group's rows.
LEMMA RowTotalIsNat ==
  ASSUME CarryAssumption, NEW w \in Wallet, NEW S \in SUBSET Block, NEW file \in File
  PROVE  RowTotal(file, w, S) \in Nat
<1>1. IsFiniteSet(S)
  BY BlocksAreFinite
<1> DEFINE f == [b \in Block |-> file[b][w].amount]
<1>2. \A b \in S : f[b] \in Nat
  BY DEF File, Row
<1> HIDE DEF f
<1>3. SumFunctionOnSet(f, S) \in Nat
  BY <1>1, <1>2, SumIsNat
<1> QED BY <1>3 DEF RowTotal, f

\* Rows worth at least their blocks add up to at least what the blocks are worth.
LEMMA RowsAreWorthTheirBlocks ==
  ASSUME CarryAssumption, NEW w \in Wallet, NEW S \in SUBSET Block, NEW file, GoodFile(file, Ours),
         \A b \in S : file[b][w].status \in {"pending", "carried"}
  PROVE  Amount(w, S) <= RowTotal(file, w, S) /\ S \subseteq Ours
<1> DEFINE f == [b \in Block |-> Base[b][w]]
           g == [b \in Block |-> file[b][w].amount]
<1>1. IsFiniteSet(S)
  BY BlocksAreFinite
<1>2. \A b \in S : f[b] \in Nat /\ g[b] \in Nat /\ f[b] <= g[b] /\ b \in Ours
  BY DEF CarryAssumption, GoodFile, GoodRow, File, Row
<1> HIDE DEF f, g
<1>3. SumFunctionOnSet(f, S) <= SumFunctionOnSet(g, S)
  BY <1>1, <1>2, SumIsMonotone
<1> QED BY <1>2, <1>3 DEF Amount, RowTotal, f, g

\* Where the scan of a wallet's blocks stands.
Scanned == [ids : SUBSET Ours, amount : Nat, row : Row]

\* One block of the scan: the row it makes, and what is carried after it.
LEMMA CarryStepIsGood ==
  ASSUME CarryAssumption, FilesInv, NEW w \in Wallet, NEW paid, NEW readable \in SUBSET Ours,
         NEW was \in Scanned, NEW b \in Block
  PROVE  /\ CarryStep(was, b, w, paid, readable) \in Scanned
         /\ GoodRow(CarryStep(was, b, w, paid, readable).row, b, w, Ours)
<1> DEFINE ids == was.ids \ ({b} \cup paid[w])
           in == IF ids = was.ids THEN was.amount ELSE Amount(w, ids \cap carry[w])
           total == in + Base[b][w]
           next == CarryStep(was, b, w, paid, readable)
<1>1. ids \in SUBSET Ours /\ ids \in SUBSET Block /\ Ours \subseteq Block
  BY DEF Scanned, Ours, FilesInv
<1>2. in \in Nat /\ Base[b][w] \in Nat
  <2>1. ids \cap carry[w] \in SUBSET Block
    BY <1>1
  <2>2. Amount(w, ids \cap carry[w]) \in Nat
    BY <2>1, AmountIsNat
  <2> QED BY <2>2 DEF Scanned, CarryAssumption
<1>3. total \in Nat /\ Base[b][w] <= total
  <2> HIDE DEF in
  <2> QED BY <1>2
<1>4. Eligible(b, w, paid, readable) => b \in Ours
  BY DEF Eligible
<1>5. CASE ~Eligible(b, w, paid, readable)
  <2>1. next = [was EXCEPT !.row = NoRow]
    BY <1>5, Zenon DEF CarryStep
  <2>2. NoRow \in Row /\ NoRow.carried = {} /\ NoRow.status = "none"
    BY DEF NoRow, Row
  <2>3. next \in Scanned /\ next.row = NoRow
    BY <2>1, <2>2 DEF Scanned
  <2> QED BY <2>2, <2>3 DEF GoodRow
<1>6. CASE Eligible(b, w, paid, readable) /\ b \in paid[w]
  <2> DEFINE r == [status |-> "paid", amount |-> Base[b][w], carried |-> {}]
  <2>1. next = [ids |-> ids, amount |-> in, row |-> r]
    BY <1>6, Zenon DEF CarryStep
  <2>2. r \in Row /\ r.carried = {} /\ r.status = "paid"
    BY <1>2 DEF Row
  <2> HIDE DEF r, ids, in, next
  <2>3. next \in Scanned /\ next.row = r
    BY <1>1, <1>2, <2>1, <2>2 DEF Scanned
  <2>4. GoodRow(r, b, w, Ours)
    BY <2>2 DEF GoodRow
  <2> QED BY <2>3, <2>4 DEF next
<1>7. CASE Eligible(b, w, paid, readable) /\ b \notin paid[w] /\ Reaches(total)
  <2> DEFINE r == [status |-> "pending", amount |-> total, carried |-> ids \cup {b}]
  <2>1. next = [ids |-> {}, amount |-> 0, row |-> r]
    BY <1>7, Zenon DEF CarryStep
  <2>2. r \in Row /\ r.carried = ids \cup {b} /\ r.amount = total
    BY <1>1, <1>3 DEF Row
  <2> HIDE DEF r, ids, total, next
  <2>3. next \in Scanned /\ next.row = r
    BY <2>1, <2>2 DEF Scanned
  <2>4. GoodRow(r, b, w, Ours)
    BY <1>1, <1>3, <1>4, <1>7, <2>2 DEF GoodRow
  <2> QED BY <2>3, <2>4 DEF next
<1>8. CASE Eligible(b, w, paid, readable) /\ b \notin paid[w] /\ ~Reaches(total)
  <2> DEFINE r == [status |-> "carried", amount |-> Base[b][w], carried |-> ids]
  <2>1. next = [ids |-> ids \cup {b}, amount |-> total, row |-> r]
    BY <1>8, Zenon DEF CarryStep
  <2>2. r \in Row /\ r.carried = ids /\ r.amount = Base[b][w]
    BY <1>1, <1>2 DEF Row
  <2> HIDE DEF r, ids, total, next
  <2>3. next \in Scanned /\ next.row = r
    BY <1>1, <1>3, <1>4, <1>8, <2>1, <2>2 DEF Scanned
  <2>4. GoodRow(r, b, w, Ours)
    BY <1>1, <1>2, <1>4, <1>8, <2>2 DEF GoodRow
  <2> QED BY <2>3, <2>4 DEF next
<1> QED BY <1>5, <1>6, <1>7, <1>8

\* g scans the first n blocks.
Scans(g, w, paid, readable, n) ==
  LET open == carry[w] \ paid[w] IN
  g = [b \in 0 .. n |->
         IF b = 0 THEN [ids |-> open, amount |-> Amount(w, open), row |-> NoRow]
         ELSE CarryStep(g[b - 1], b, w, paid, readable)]

\* The scan satisfies its own recursion, one block after the other.
LEMMA ScanScans ==
  ASSUME CarryAssumption, NEW w, NEW paid, NEW readable
  PROVE  Scans(Scan(w, paid, readable), w, paid, readable, N)
<1> DEFINE open == carry[w] \ paid[w]
           start == [ids |-> open, amount |-> Amount(w, open), row |-> NoRow]
           G == {n \in Nat : \E g : Scans(g, w, paid, readable, n)}
<1>1. 0 \in G
  <2> DEFINE g == [b \in 0 .. 0 |-> start]
  <2>1. g = [b \in 0 .. 0 |-> IF b = 0 THEN start ELSE CarryStep(g[b - 1], b, w, paid, readable)]
    OBVIOUS
  <2> QED BY <2>1 DEF Scans
<1>2. ASSUME NEW n \in Nat, n \in G PROVE n + 1 \in G
  <2>1. PICK g : Scans(g, w, paid, readable, n)
    BY <1>2
  <2> DEFINE h == [b \in 0 .. n + 1 |-> IF b <= n THEN g[b]
                                        ELSE CarryStep(g[n], b, w, paid, readable)]
  <2>2. \A b \in 0 .. n : g[b] = IF b = 0 THEN start
                                  ELSE CarryStep(g[b - 1], b, w, paid, readable)
    BY <2>1 DEF Scans
  <2> HIDE DEF start
  <2>3. ASSUME NEW b \in 0 .. n + 1
        PROVE  h[b] = IF b = 0 THEN start ELSE CarryStep(h[b - 1], b, w, paid, readable)
    <3>1. CASE b = 0
      BY <2>2, <3>1
    <3>2. CASE b \in 1 .. n
      <4>1. b - 1 \in 0 .. n /\ b \in 0 .. n /\ b - 1 \in 0 .. n + 1 /\ b # 0 /\ b <= n /\ b - 1 <= n
        BY <3>2
      <4>2. h[b] = g[b] /\ h[b - 1] = g[b - 1]
        BY <4>1
      <4> QED BY <2>2, <4>1, <4>2
    <3>3. CASE b = n + 1
      <4>1. b - 1 = n /\ n \in 0 .. n + 1 /\ n <= n /\ ~(b <= n) /\ b # 0
        BY <3>3
      <4>2. h[n] = g[n] /\ h[b] = CarryStep(g[n], b, w, paid, readable)
        BY <4>1
      <4> QED BY <4>1, <4>2
    <3> QED BY <3>1, <3>2, <3>3
  <2>4. h = [b \in 0 .. n + 1 |-> h[b]]
    OBVIOUS
  <2> HIDE DEF h
  <2>5. h = [b \in 0 .. n + 1 |-> IF b = 0 THEN start
                                   ELSE CarryStep(h[b - 1], b, w, paid, readable)]
    BY <2>3, <2>4
  <2>6. Scans(h, w, paid, readable, n + 1)
    BY <2>5 DEF Scans, start
  <2> QED BY <2>6
<1>3. N \in G
  <2>1. N \in Nat
    BY DEF CarryAssumption
  <2> HIDE DEF G
  <2> QED BY <1>1, <1>2, <2>1, NumberInduction
<1>4. PICK g : Scans(g, w, paid, readable, N)
  BY <1>3
<1>5. Scan(w, paid, readable) = CHOOSE g0 : Scans(g0, w, paid, readable, N)
  BY DEF Scan, Scans
<1> QED BY <1>4, <1>5

\* What a scan starts with, and what it does with each block.
Steps(s, w, paid, readable) ==
  LET open == carry[w] \ paid[w] IN
  /\ s[0] = [ids |-> open, amount |-> Amount(w, open), row |-> NoRow]
  /\ \A b \in 1 .. N : s[b] = CarryStep(s[b - 1], b, w, paid, readable)

LEMMA ScanSteps ==
  ASSUME CarryAssumption, NEW w, NEW paid, NEW readable
  PROVE  Steps(Scan(w, paid, readable), w, paid, readable)
<1> PICK s : s = Scan(w, paid, readable)
  OBVIOUS
<1> DEFINE open == carry[w] \ paid[w]
           start == [ids |-> open, amount |-> Amount(w, open), row |-> NoRow]
<1>1. s = [b \in 0 .. N |-> IF b = 0 THEN start ELSE CarryStep(s[b - 1], b, w, paid, readable)]
  <2>1. Scans(s, w, paid, readable, N)
    BY ScanScans
  <2> QED BY <2>1 DEF Scans
<1>2. 0 \in 0 .. N /\ \A b \in 1 .. N : b \in 0 .. N /\ b # 0
  BY DEF CarryAssumption
<1> HIDE DEF start
<1>3. s[0] = start
  BY <1>1, <1>2
<1>4. \A b \in 1 .. N : s[b] = CarryStep(s[b - 1], b, w, paid, readable)
  BY <1>1, <1>2
<1>5. Steps(s, w, paid, readable)
  BY <1>3, <1>4 DEF Steps, start
<1> QED BY <1>5

\* Every row of a scan, and what is carried after it, is of blocks that paid the pool.
LEMMA ScanIsGood ==
  ASSUME CarryAssumption, FilesInv, NEW w \in Wallet, NEW paid, NEW readable \in SUBSET Ours,
         NEW s, s = Scan(w, paid, readable)
  PROVE  /\ \A n \in 0 .. N : s[n] \in Scanned
         /\ \A b \in Block : GoodRow(s[b].row, b, w, Ours)
<1> DEFINE open == carry[w] \ paid[w]
           G == {n \in Nat : n <= N => s[n] \in Scanned}
<1>1. /\ s[0] = [ids |-> open, amount |-> Amount(w, open), row |-> NoRow]
      /\ \A b \in 1 .. N : s[b] = CarryStep(s[b - 1], b, w, paid, readable)
  <2>1. Steps(s, w, paid, readable)
    BY ScanSteps
  <2> QED BY <2>1 DEF Steps
<1>2. 0 \in G
  <2>1. open \in SUBSET Ours /\ open \in SUBSET Block
    BY DEF FilesInv, Ours
  <2>2. Amount(w, open) \in Nat
    BY <2>1, AmountIsNat
  <2>3. NoRow \in Row
    BY DEF NoRow, Row
  <2> HIDE DEF open
  <2>4. s[0] \in Scanned
    BY <1>1, <2>1, <2>2, <2>3 DEF Scanned
  <2> QED BY <2>4
<1>3. ASSUME NEW n \in Nat, n \in G PROVE n + 1 \in G
  <2> SUFFICES ASSUME n + 1 <= N PROVE s[n + 1] \in Scanned
    OBVIOUS
  <2>1. n + 1 \in Block /\ n + 1 - 1 = n /\ n <= N
    BY DEF CarryAssumption, Block
  <2>2. s[n] \in Scanned
    BY <1>3, <2>1
  <2>3. s[n + 1] = CarryStep(s[n], n + 1, w, paid, readable)
    BY <1>1, <2>1 DEF Block
  <2> QED BY <2>1, <2>2, <2>3, CarryStepIsGood
<1>4. Nat \subseteq G
  <2> HIDE DEF G
  <2> QED BY <1>2, <1>3, NumberInduction
<1>5. ASSUME NEW b \in Block PROVE GoodRow(s[b].row, b, w, Ours)
  <2>1. b - 1 \in Nat /\ b - 1 <= N
    BY DEF CarryAssumption, Block
  <2>2. s[b - 1] \in Scanned
    BY <1>4, <2>1
  <2>3. s[b] = CarryStep(s[b - 1], b, w, paid, readable)
    BY <1>1 DEF Block
  <2> QED BY <2>2, <2>3, CarryStepIsGood
<1> QED BY <1>4, <1>5

\* What generate_payout_candidates writes.
LEMMA CandidatesAreGood ==
  ASSUME CarryAssumption, FilesInv, NEW readable \in SUBSET Ours
  PROVE  GoodFile(Candidates(readable), Ours)
<1> DEFINE paid == [w \in Wallet |-> SettledWith(rows, w)]
           c == Candidates(readable)
<1>1. c = [b \in Block |-> [w \in Wallet |-> Scan(w, paid, readable)[b].row]]
  BY DEF Candidates
<1> HIDE DEF paid, c
<1>2. \A b \in Block, w \in Wallet : GoodRow(Scan(w, paid, readable)[b].row, b, w, Ours)
  BY ScanIsGood
<1>3. \A b \in Block, w \in Wallet : GoodRow(c[b][w], b, w, Ours) /\ c[b][w] \in Row
  BY <1>1, <1>2 DEF GoodRow
<1>4. c \in File
  BY <1>1, <1>3 DEF File
<1> QED BY <1>3, <1>4 DEF GoodFile, c

\* A block that paid the pool stays one.
LEMMA GoodStays ==
  ASSUME NEW A, NEW B, A \subseteq B, NEW file, GoodFile(file, A)
  PROVE  GoodFile(file, B)
BY DEF GoodFile, GoodRow

\* The group of a wallet.
LEMMA GroupIsGood ==
  ASSUME CarryAssumption, NEW file, GoodFile(file, Ours), NEW w \in Wallet
  PROVE  GroupOf(file, w) \in Group /\ GroupOf(file, w).carried \subseteq Ours
<1> DEFINE S == Selected(file, w)
           ids == UNION {file[b][w].carried : b \in S}
<1>1. S \in SUBSET Block
  BY DEF Selected
<1>2. RowTotal(file, w, S) \in Nat
  BY <1>1, RowTotalIsNat DEF GoodFile
<1>3. ids \in SUBSET Block /\ ids \subseteq Ours
  <2>1. \A b \in S : file[b][w].carried \in SUBSET Block /\ file[b][w].carried \subseteq Ours
    BY <1>1 DEF GoodFile, GoodRow, Row
  <2> QED BY <2>1
<1>4. GroupOf(file, w) = [wallet |-> w, amount |-> RowTotal(file, w, S), sources |-> S, carried |-> ids]
  BY DEF GroupOf
<1> HIDE DEF S, ids
<1> QED BY <1>1, <1>2, <1>3, <1>4 DEF Group

Places == {"idle", "carry", "read", "write", "load", "select", "send", "post"}

\* Every step of the two workflows keeps the files good, and confirmed blocks confirmed.
LEMMA FilesStep ==
  ASSUME CarryAssumption, FilesInv, [Next]_vars
  PROVE  FilesInv' /\ payable \subseteq payable'
<1>0. /\ payable \subseteq Block /\ GoodFile(rows, Ours) /\ carry \in [Wallet -> SUBSET Ours]
      /\ pc \in [Run -> Places] /\ lock \in Run \cup {"free"}
      /\ buf = [p \in Run |-> buf[p]] /\ \A p \in Run : GoodFile(buf[p], Ours)
      /\ groups \subseteq Group /\ \A g \in groups : g.carried \subseteq Ours
  BY DEF FilesInv, Places
<1>1. ASSUME payable \subseteq payable', payable' \subseteq Block,
             GoodFile(rows', Ours'), carry' \in [Wallet -> SUBSET Ours'],
             pc' \in [Run -> Places], lock' \in Run \cup {"free"},
             buf' = [p \in Run |-> buf'[p]], \A p \in Run : GoodFile(buf'[p], Ours'),
             groups' \subseteq Group, \A g \in groups' : g.carried \subseteq Ours'
      PROVE  FilesInv' /\ payable \subseteq payable'
  BY <1>1 DEF FilesInv, Places
<1>2. UNCHANGED payable => Ours' = Ours
  BY DEF Ours
<1>m. ASSUME NEW p, NEW where \in Places, Goto(p, where)
      PROVE  pc' \in [Run -> Places]
  BY <1>0, <1>m DEF Goto
<1> USE DEF Places
<1>3. ASSUME NEW b \in Block, Confirm(b)
      PROVE  FilesInv' /\ payable \subseteq payable'
  <2>1. /\ payable' = payable \cup {b}
        /\ UNCHANGED <<rows, carry, lock, pc, buf, groups>>
    BY <1>3 DEF Confirm
  <2>2. Ours \subseteq Ours'
    BY <2>1 DEF Ours
  <2>3. GoodFile(rows', Ours') /\ \A p \in Run : GoodFile(buf'[p], Ours')
    BY <1>0, <2>1, <2>2, GoodStays
  <2>4. carry' \in [Wallet -> SUBSET Ours'] /\ \A g \in groups' : g.carried \subseteq Ours'
    BY <1>0, <2>1, <2>2
  <2> QED BY <1>0, <1>1, <2>1, <2>3, <2>4
<1>4. ASSUME NEW p \in Run, Begin(p) \/ SkipGenerate(p)
      PROVE  FilesInv' /\ payable \subseteq payable'
  <2>1. UNCHANGED <<payable, rows, carry, lock, buf, groups>>
    BY <1>4 DEF Begin, SkipGenerate
  <2>2. pc' \in [Run -> Places]
    BY <1>4, <1>m DEF Begin, SkipGenerate, After
  <2> QED BY <1>0, <1>1, <1>2, <2>1, <2>2
<1>5. ASSUME NEW p \in Run, BuildCarry(p)
      PROVE  FilesInv' /\ payable \subseteq payable'
  <2>1. UNCHANGED <<payable, rows, lock, buf, groups>>
    BY <1>5 DEF BuildCarry
  <2>2. pc' \in [Run -> Places]
    BY <1>5, <1>m DEF BuildCarry
  <2>3. carry' \in [Wallet -> SUBSET Ours]
    <3>1. \A w \in Wallet : {b \in Block : rows[b][w].status = "carried"} \subseteq Ours
      BY <1>0 DEF GoodFile, GoodRow
    <3> QED BY <1>5, <3>1 DEF BuildCarry
  <2> QED BY <1>0, <1>1, <1>2, <2>1, <2>2, <2>3
<1>6. ASSUME NEW p \in Run, ReadInputs(p)
      PROVE  FilesInv' /\ payable \subseteq payable'
  <2>1. UNCHANGED <<payable, rows, carry, groups>> /\ lock' = p
    BY <1>6 DEF ReadInputs
  <2>2. pc' \in [Run -> Places]
    BY <1>6, <1>m DEF ReadInputs
  <2>3. PICK failed \in SUBSET payable : buf' = [buf EXCEPT ![p] = Candidates(Readable(failed))]
    BY <1>6 DEF ReadInputs
  <2>4. Readable(failed) \in SUBSET Ours
    BY DEF Readable, Answered, PaysPool, Ours
  <2>5. GoodFile(Candidates(Readable(failed)), Ours)
    BY <2>4, CandidatesAreGood
  <2>6. buf' = [q \in Run |-> buf'[q]] /\ \A q \in Run : GoodFile(buf'[q], Ours)
    BY <1>0, <2>3, <2>5
  <2> QED BY <1>0, <1>1, <1>2, <2>1, <2>2, <2>6
<1>7. ASSUME NEW p \in Run, WriteRows(p)
      PROVE  FilesInv' /\ payable \subseteq payable'
  <2>1. UNCHANGED <<payable, carry, buf, groups>> /\ lock' = "free" /\ rows' = buf[p]
    BY <1>7 DEF WriteRows
  <2>2. pc' \in [Run -> Places]
    BY <1>7, <1>m DEF WriteRows, After
  <2> QED BY <1>0, <1>1, <1>2, <2>1, <2>2
<1>8. CASE Load
  <2>1. /\ UNCHANGED <<payable, rows, carry, lock, groups>>
        /\ buf' = [buf EXCEPT !["auto"] = rows]
    BY <1>8 DEF Load
  <2>2. pc' \in [Run -> Places]
    BY <1>8, <1>m DEF Load
  <2>3. buf' = [q \in Run |-> buf'[q]] /\ \A q \in Run : GoodFile(buf'[q], Ours)
    BY <1>0, <2>1
  <2> QED BY <1>0, <1>1, <1>2, <2>1, <2>2, <2>3
<1>9. CASE Select
  <2>1. /\ UNCHANGED <<payable, rows, carry, lock, buf>>
        /\ groups' \subseteq {GroupOf(buf["auto"], w) : w \in Wallet}
    BY <1>9 DEF Select
  <2>2. pc' \in [Run -> Places]
    BY <1>9, <1>m DEF Select
  <2>3. "auto" \in Run
    BY DEF CarryAssumption
  <2>4. GoodFile(buf["auto"], Ours)
    BY <1>0, <2>3
  <2>5. \A w \in Wallet : /\ GroupOf(buf["auto"], w) \in Group
                          /\ GroupOf(buf["auto"], w).carried \subseteq Ours
    BY <2>4, GroupIsGood
  <2>6. groups' \subseteq Group /\ \A g \in groups' : g.carried \subseteq Ours
    BY <2>1, <2>5
  <2> QED BY <1>0, <1>1, <1>2, <2>1, <2>2, <2>6
<1>10. CASE Finish
  <2>1. UNCHANGED <<payable, rows, carry, lock, buf, groups>>
    BY <1>10 DEF Finish
  <2>2. pc' \in [Run -> Places]
    BY <1>10, <1>m DEF Finish
  <2> QED BY <1>0, <1>1, <1>2, <2>1, <2>2
<1>11. ASSUME NEW g \in groups, Pay(g) \/ PayTimedOut(g) \/ PayAndDie(g) \/ Rejected(g) \/ Refuse(g)
       PROVE  FilesInv' /\ payable \subseteq payable'
  <2>1. UNCHANGED <<payable, rows, lock, buf>> /\ groups' \subseteq groups
    BY <1>11 DEF Pay, PayTimedOut, PayAndDie, Rejected, Refuse
  <2>2. pc' \in [Run -> Places]
    <3>1. CASE PayAndDie(g)
      BY <1>m, <3>1 DEF PayAndDie
    <3>2. CASE ~PayAndDie(g)
      BY <1>0, <1>11, <3>2 DEF Pay, PayTimedOut, Rejected, Refuse
    <3> QED BY <3>1, <3>2
  <2>3. carry' \in [Wallet -> SUBSET Ours]
    BY <1>0, <1>11 DEF Pay, PayTimedOut, PayAndDie, Rejected, Refuse
  <2> QED BY <1>0, <1>1, <1>2, <2>1, <2>2, <2>3
<1>12. CASE UNCHANGED vars
  <2>1. UNCHANGED <<payable, rows, carry, lock, pc, buf, groups>>
    BY <1>12 DEF vars
  <2> QED BY <1>0, <1>1, <1>2, <2>1
<1> QED
  BY <1>3, <1>4, <1>5, <1>6, <1>7, <1>8, <1>9, <1>10, <1>11, <1>12 DEF Next, Generate

\* A send checks its rows in the file again, and they are worth their blocks.
LEMMA PaymentsStep ==
  ASSUME CarryAssumption, FilesInv, PaymentsInv, [Next]_vars
  PROVE  PaymentsInv'
<1>1. Ours \subseteq Ours'
  BY FilesStep DEF Ours
<1>2. ASSUME UNCHANGED <<ledger, txs>>
      PROVE  PaymentsInv'
  BY <1>1, <1>2 DEF PaymentsInv, SourcesHonoured
<1>3. ASSUME NEW g \in groups, NEW ids \in SUBSET Block, Transfer(g, ids)
      PROVE  PaymentsInv'
  <2> DEFINE new == [n |-> Cardinality(txs), wallet |-> g.wallet, amount |-> g.amount,
                     sources |-> g.sources, carried |-> g.carried]
  <2>1. txs' = txs \cup {new} /\ ledger' = ledger \cup {Entry(g, ids)}
    BY <1>3 DEF Transfer
  <2>2. /\ g.wallet \in Wallet /\ g.amount \in Nat /\ g.sources \in SUBSET Block
        /\ g.carried \subseteq Ours
    BY DEF FilesInv, Group
  <2>3. Amount(g.wallet, g.sources) <= g.amount /\ g.sources \subseteq Ours
    <3>1. /\ \A b \in g.sources : rows[b][g.wallet].status \in {"pending", "carried"}
          /\ RowTotal(rows, g.wallet, g.sources) = g.amount
      BY <1>3 DEF Transfer, Admissible
    <3>2. GoodFile(rows, Ours)
      BY DEF FilesInv
    <3>3. /\ Amount(g.wallet, g.sources) <= RowTotal(rows, g.wallet, g.sources)
          /\ g.sources \subseteq Ours
      BY ONLY CarryAssumption, <2>2, <3>1, <3>2, RowsAreWorthTheirBlocks
    <3> QED BY <3>1, <3>3
  <2>4. /\ new.wallet = g.wallet /\ new.amount = g.amount
        /\ new.sources = g.sources /\ new.carried = g.carried
    OBVIOUS
  <2> HIDE DEF new
  <2>5. ASSUME NEW t \in txs'
        PROVE  /\ t.wallet \in Wallet /\ t.amount \in Nat
               /\ t.sources \cup t.carried \subseteq Ours'
               /\ t.amount >= Amount(t.wallet, t.sources)
    <3>1. CASE t \in txs
      BY <1>1, <3>1 DEF PaymentsInv, SourcesHonoured, Covers
    <3>2. CASE t = new
      <4>1. Amount(g.wallet, g.sources) \in Nat
        BY <2>2, AmountIsNat
      <4>2. g.amount >= Amount(g.wallet, g.sources)
        BY <2>2, <2>3, <4>1
      <4> QED BY <1>1, <2>2, <2>3, <2>4, <3>2, <4>2
    <3> QED BY <2>1, <3>1, <3>2
  <2>6. SourcesHonoured'
    BY <2>5 DEF SourcesHonoured, Covers
  <2>7. ledger' \subseteq [wallet : Wallet, sources : SUBSET Block, carried : SUBSET Block]
    BY <2>1, <2>2 DEF PaymentsInv, Entry
  <2> QED BY <2>5, <2>6, <2>7 DEF PaymentsInv
<1>4. ASSUME NEW b \in Block, Confirm(b)
      PROVE  PaymentsInv'
  BY <1>2, <1>4 DEF Confirm
<1>5. ASSUME NEW p \in Run, Generate(p)
      PROVE  PaymentsInv'
  BY <1>2, <1>5 DEF Generate, Begin, BuildCarry, SkipGenerate, ReadInputs, WriteRows
<1>6. CASE Load \/ Select \/ Finish
  BY <1>2, <1>6 DEF Load, Select, Finish
<1>7. ASSUME NEW g \in groups, Pay(g) \/ PayTimedOut(g) \/ PayAndDie(g)
      PROVE  PaymentsInv'
  <2>1. g.carried \in SUBSET Block
    BY DEF FilesInv, Group
  <2> QED BY <1>3, <1>7, <2>1 DEF Pay, PayTimedOut, PayAndDie
<1>8. ASSUME NEW g \in groups, Rejected(g) \/ Refuse(g)
      PROVE  PaymentsInv'
  BY <1>2, <1>8 DEF Rejected, Refuse
<1>9. CASE UNCHANGED vars
  BY <1>2, <1>9 DEF vars
<1> QED
  BY <1>4, <1>5, <1>6, <1>7, <1>8, <1>9 DEF Next, Generate

\* The bounds of the instance.
LEMMA CountersStep ==
  ASSUME CarryAssumption, FilesInv, CountersInv, [Next]_vars
  PROVE  CountersInv'
<1>0. /\ MaxUnread \in Nat /\ MaxRefreshes \in Nat /\ MaxRefusals \in Nat
      /\ MaxTimeouts \in Nat /\ MaxCrashes \in Nat
  BY DEF CarryAssumption
<1> USE DEF CountersInv
<1>1. ASSUME UNCHANGED counters
      PROVE  CountersInv'
  BY <1>1 DEF counters
<1>2. ASSUME NEW b \in Block, Confirm(b)
      PROVE  CountersInv'
  BY <1>1, <1>2 DEF Confirm
<1>3. ASSUME NEW p \in Run, Begin(p)
      PROVE  CountersInv'
  BY <1>0, <1>3 DEF Begin
<1>4. ASSUME NEW p \in Run, BuildCarry(p) \/ SkipGenerate(p) \/ WriteRows(p)
      PROVE  CountersInv'
  BY <1>1, <1>4 DEF BuildCarry, SkipGenerate, WriteRows
<1>5. ASSUME NEW p \in Run, ReadInputs(p)
      PROVE  CountersInv'
  <2>1. PICK failed \in SUBSET payable :
          unread' = unread + Cardinality(failed) /\ unread' <= MaxUnread
    BY <1>5 DEF ReadInputs
  <2>2. failed \in SUBSET Block
    BY DEF FilesInv
  <2>3. Cardinality(failed) \in Nat
    BY <2>2, BlocksAreFinite, FS_CardinalityType
  <2>4. unread' \in 0 .. MaxUnread
    BY <1>0, <2>1, <2>3
  <2> QED BY <1>5, <2>4 DEF ReadInputs
<1>6. CASE Load \/ Select \/ Finish
  BY <1>1, <1>6 DEF Load, Select, Finish
<1>7. ASSUME NEW g \in groups, Pay(g) \/ Rejected(g)
      PROVE  CountersInv'
  BY <1>1, <1>7 DEF Pay, Rejected
<1>8. ASSUME NEW g \in groups, PayTimedOut(g) \/ PayAndDie(g) \/ Refuse(g)
      PROVE  CountersInv'
  BY <1>0, <1>8 DEF PayTimedOut, PayAndDie, Refuse
<1>9. CASE UNCHANGED vars
  BY <1>1, <1>9 DEF vars
<1> QED
  BY <1>2, <1>3, <1>4, <1>5, <1>6, <1>7, <1>8, <1>9 DEF Next, Generate

\* The files start without rows.
LEMMA CarryStart ==
  ASSUME CarryAssumption, Init
  PROVE  CarryInv
<1> DEFINE empty == [b \in Block |-> [w \in Wallet |-> NoRow]]
<1>1. NoRow \in Row /\ NoRow.carried = {} /\ NoRow.status = "none"
  BY DEF NoRow, Row
<1>2. GoodFile(empty, Ours)
  <2>1. empty \in File
    BY <1>1 DEF File
  <2>2. \A b \in Block, w \in Wallet : GoodRow(empty[b][w], b, w, Ours)
    BY <1>1 DEF GoodRow
  <2> QED BY <2>1, <2>2 DEF GoodFile
<1> HIDE DEF empty
<1>3. rows = empty /\ buf = [p \in Run |-> empty]
  BY DEF Init, empty
<1>4. FilesInv
  BY <1>2, <1>3 DEF FilesInv, Init, Ours
<1>5. PaymentsInv
  BY DEF PaymentsInv, SourcesHonoured, Init
<1>6. CountersInv
  BY DEF CountersInv, CarryAssumption, Init
<1> QED BY <1>4, <1>5, <1>6 DEF CarryInv

\* Every step keeps all three parts.
LEMMA CarryStays ==
  ASSUME CarryAssumption, CarryInv, [Next]_vars
  PROVE  CarryInv'
BY FilesStep, PaymentsStep, CountersStep DEF CarryInv

\* The files of the two workflows keep their shape: every id in a row, in the carry
\* file, in a group and in a line of the ledger is a block, and every amount a number.
THEOREM TypeCorrect == Spec => []TypeOK
<1>1. Init => CarryInv
  BY CarryStart, CarryAssumption
<1>2. CarryInv /\ [Next]_vars => CarryInv'
  BY CarryStays, CarryAssumption
<1>3. CarryInv => TypeOK
  <2> SUFFICES ASSUME CarryInv PROVE TypeOK
    OBVIOUS
  <2>1. rows \in File /\ buf \in [Run -> File]
    BY DEF CarryInv, FilesInv, GoodFile
  <2>2. payable \subseteq Block /\ carry \in [Wallet -> SUBSET Block]
    BY DEF CarryInv, FilesInv, Ours
  <2> QED
    BY <2>1, <2>2 DEF TypeOK, CarryInv, FilesInv, PaymentsInv, CountersInv
<1> QED
  BY <1>1, <1>2, <1>3, PTL DEF Spec

\* A payment only marks blocks as paid that are confirmed and paid the pool, and is worth
\* at least the blocks whose rows it adds up: auto_payout_once and the check of the send.
THEOREM PaysForItsSources == Spec => []SourcesHonoured
<1>1. Init => CarryInv
  BY CarryStart, CarryAssumption
<1>2. CarryInv /\ [Next]_vars => CarryInv'
  BY CarryStays, CarryAssumption
<1>3. CarryInv => SourcesHonoured
  BY DEF CarryInv, PaymentsInv
<1> QED
  BY <1>1, <1>2, <1>3, PTL DEF Spec
-----------------------------------------------------------------------------
(* What blocks are worth together *)

\* Nothing is worth nothing, and one block more is worth that block more.
LEMMA AmountOfOneMore ==
  ASSUME CarryAssumption, NEW w \in Wallet, NEW S \in SUBSET Block, NEW b \in Block \ S
  PROVE  /\ Amount(w, {}) = 0 /\ Base[b][w] \in Nat
         /\ Amount(w, S \cup {b}) = Amount(w, S) + Base[b][w]
<1> DEFINE f == [a \in Block |-> Base[a][w]]
           T == S \cup {b}
<1>1. IsFiniteSet(T) /\ IsFiniteSet({}) /\ T \subseteq Block /\ b \in T /\ T \ {b} = S
  BY BlocksAreFinite
<1>2. \A a \in Block : f[a] = Base[a][w] /\ f[a] \in Nat
  BY DEF CarryAssumption
<1> HIDE DEF f, T
<1>3. SumFunctionOnSet(f, T) = f[b] + SumFunctionOnSet(f, S)
  BY <1>1, <1>2, SumOfOneMore
<1>4. SumFunctionOnSet(f, {}) = 0
  BY <1>1, SumSplits
<1>5. Amount(w, T) = f[b] + Amount(w, S) /\ Amount(w, {}) = 0
  BY <1>3, <1>4 DEF Amount, f
<1>6. Amount(w, S) \in Nat
  BY AmountIsNat
<1> QED BY <1>2, <1>5, <1>6 DEF T

\* Two sets that have no block in common are worth together what each is worth.
LEMMA AmountOfBoth ==
  ASSUME CarryAssumption, NEW w \in Wallet, NEW S \in SUBSET Block, NEW T \in SUBSET Block,
         S \cap T = {}
  PROVE  Amount(w, S \cup T) = Amount(w, S) + Amount(w, T)
<1> DEFINE G == {U \in SUBSET T : Amount(w, S \cup U) = Amount(w, S) + Amount(w, U)}
<1>0. Amount(w, S) \in Nat
  BY AmountIsNat
<1>1. ASSUME NEW U \in SUBSET T, \A V \in SUBSET U : V # U => V \in G
      PROVE  U \in G
  <2>1. CASE U = {}
    <3>1. Amount(w, {}) = 0
      BY SumSplits, FS_EmptySet DEF Amount
    <3>2. S \cup U = S
      BY <2>1
    <3>3. Amount(w, S \cup U) = Amount(w, S) + Amount(w, U)
      BY <1>0, <2>1, <3>1, <3>2
    <3> QED BY <3>3
  <2>2. CASE U # {}
    <3>1. PICK b \in U : TRUE
      BY <2>2
    <3> DEFINE V == U \ {b}
    <3>2. /\ V \in SUBSET U /\ V # U /\ V \in SUBSET Block /\ b \in Block \ V
          /\ V \cup {b} = U
          /\ S \cup V \in SUBSET Block /\ b \in Block \ (S \cup V)
          /\ (S \cup V) \cup {b} = S \cup U
      BY <3>1
    <3>3. Amount(w, S \cup V) = Amount(w, S) + Amount(w, V)
      BY <1>1, <3>2
    <3> HIDE DEF V
    <3>4. Amount(w, U) = Amount(w, V) + Base[b][w] /\ Base[b][w] \in Nat
      BY <3>2, AmountOfOneMore
    <3>5. Amount(w, S \cup U) = Amount(w, S \cup V) + Base[b][w]
      BY <3>2, AmountOfOneMore
    <3>6. Amount(w, V) \in Nat
      BY <3>2, AmountIsNat
    <3>7. Amount(w, S \cup U) = Amount(w, S) + Amount(w, U)
      BY <1>0, <3>3, <3>4, <3>5, <3>6
    <3> QED BY <3>7
  <2> QED BY <2>1, <2>2
<1>2. SUBSET T \subseteq G
  <2>1. IsFiniteSet(T)
    BY BlocksAreFinite
  <2> HIDE DEF G
  <2> QED BY <1>1, <2>1, SetInduction
<1>3. T \in G
  <2> HIDE DEF G
  <2> QED BY <1>2
<1> QED BY <1>3

-----------------------------------------------------------------------------
(* A payment is worth what it marks as paid *)

OneMiner == \A b \in Block : \A v, w \in Miners(b) : v = w

\* Blocks become payable in the order of their submit times and have one miner each, nothing
\* is refreshed beside the auto run, every coinbase can be read, and every selected send is
\* made in the run that selected it.
Regular ==
  /\ InOrder /\ Run = {"auto"} /\ OneMiner
  /\ MaxUnread = 0 /\ MaxRefusals = 0 /\ MaxTimeouts = 0
  /\ MaxCrashes = 0 \/ \A v, w \in Wallet : v = w

PendingRows(file, w) == {b \in Block : file[b][w].status = "pending"}
CarriedRows(file, w) == {b \in Block : file[b][w].status = "carried"}

\* What the pending rows pay, and the carried rows that no pending row has taken in.
Due(file, w) == UNION {file[b][w].carried : b \in PendingRows(file, w)}
Kept(file, w) == CarriedRows(file, w) \ Due(file, w)

\* No block is in two pending rows, each is worth what it carries and at least the
\* minimum; what is kept is less.  A row that was taken in carried nothing else.
RowsOk(file, w) ==
  /\ \A b \in PendingRows(file, w) :
       /\ b \in file[b][w].carried /\ Reaches(file[b][w].amount)
       /\ file[b][w].amount = Amount(w, file[b][w].carried)
  /\ \A b, c \in PendingRows(file, w) :
       b # c => file[b][w].carried \cap file[c][w].carried = {}
  /\ \A b \in CarriedRows(file, w) \cap Due(file, w) : file[b][w].carried \subseteq Due(file, w)
  /\ \A b \in Block : file[b][w].status \in {"none", "paid"} => file[b][w].carried = {}
  /\ ~Reaches(Amount(w, Kept(file, w)))

\* Pending rows add up to what they carry.
LEMMA RowsAddUp ==
  ASSUME CarryAssumption, NEW w \in Wallet, NEW file \in File, RowsOk(file, w)
  PROVE  RowTotal(file, w, PendingRows(file, w)) = Amount(w, Due(file, w))
<1> DEFINE P == PendingRows(file, w)
           D(T) == UNION {file[b][w].carried : b \in T}
           f == [b \in Block |-> file[b][w].amount]
           G == {T \in SUBSET P : SumFunctionOnSet(f, T) = Amount(w, D(T))}
<1>0. P \in SUBSET Block /\ IsFiniteSet(P)
  BY BlocksAreFinite DEF PendingRows
<1>1. \A b \in P : /\ f[b] = Amount(w, file[b][w].carried) /\ f[b] \in Nat
                   /\ file[b][w].carried \in SUBSET Block
  BY <1>0 DEF RowsOk, File, Row
<1>2. \A b, c \in P : b # c => file[b][w].carried \cap file[c][w].carried = {}
  BY DEF RowsOk
<1>3. ASSUME NEW T \in SUBSET P, \A U \in SUBSET T : U # T => U \in G
      PROVE  T \in G
  <2>1. IsFiniteSet(T) /\ T \in SUBSET Block
    BY <1>0, FS_Subset
  <2>2. CASE T = {}
    <3>1. D(T) = {}
      BY <2>2
    <3>2. Amount(w, {}) = 0
      BY SumSplits, FS_EmptySet DEF Amount
    <3>3. SumFunctionOnSet(f, T) = 0
      BY <2>1, <2>2, SumSplits
    <3>4. SumFunctionOnSet(f, T) = Amount(w, D(T))
      BY <3>1, <3>2, <3>3
    <3> QED BY <3>4
  <2>3. CASE T # {}
    <3>1. PICK b \in T : TRUE
      BY <2>3
    <3> DEFINE U == T \ {b}
               C == file[b][w].carried
    <3>2. U \in SUBSET T /\ U # T /\ b \in P
      BY <3>1
    <3>3. SumFunctionOnSet(f, U) = Amount(w, D(U))
      BY <1>3, <3>2
    <3>4. SumFunctionOnSet(f, T) = f[b] + SumFunctionOnSet(f, U)
      <4>1. \A x \in T : f[x] \in Nat
        BY <1>1
      <4> HIDE DEF f
      <4>2. SumFunctionOnSet(f, T) = f[b] + SumFunctionOnSet(f, T \ {b})
        BY ONLY <2>1, <3>1, <4>1, SumOfOneMore
      <4> QED BY <4>2
    <3>5. D(T) = D(U) \cup C
      BY <3>1
    <3>6. D(U) \cap C = {}
      <4>1. \A c \in U : c \in P /\ c # b
        BY <3>2
      <4>2. \A c \in U : file[c][w].carried \cap file[b][w].carried = {}
        BY <1>2, <3>2, <4>1
      <4> QED BY <4>2
    <3>7. D(U) \in SUBSET Block /\ C \in SUBSET Block
      <4>1. \A c \in U : file[c][w].carried \in SUBSET Block
        BY <1>1, <3>2
      <4>2. D(U) \in SUBSET Block
        BY <4>1
      <4> QED BY <1>1, <3>2, <4>2
    <3>8. f[b] = Amount(w, C)
      BY <1>1, <3>2
    <3>9. PICK d : d = D(U)
      OBVIOUS
    <3>10. Amount(w, d \cup C) = Amount(w, d) + Amount(w, C)
      <4> HIDE DEF C
      <4> QED BY <3>6, <3>7, <3>9, AmountOfBoth
    <3>11. Amount(w, d) \in Nat /\ Amount(w, C) \in Nat
      <4> HIDE DEF C
      <4> QED BY <3>7, <3>9, AmountIsNat
    <3>12. SumFunctionOnSet(f, T) = Amount(w, C) + Amount(w, d)
      BY <3>3, <3>4, <3>8, <3>9
    <3>13. SumFunctionOnSet(f, T) = Amount(w, d \cup C)
      BY <3>10, <3>11, <3>12
    <3>14. SumFunctionOnSet(f, T) = Amount(w, D(T))
      BY <3>5, <3>9, <3>13
    <3> QED BY <3>14
  <2> QED BY <2>2, <2>3
<1>4. SUBSET P \subseteq G
  <2> HIDE DEF G, P
  <2> QED BY <1>0, <1>3, SetInduction
<1>5. P \in G
  <2> HIDE DEF G
  <2> QED BY <1>4
<1>6. SumFunctionOnSet(f, P) = Amount(w, D(P))
  BY <1>5
<1> QED BY <1>6 DEF RowTotal, Due
\* upto reads the first N blocks of a file.
Reads(upto, file, w) ==
  upto = [b \in 0 .. N |->
            IF b = 0 THEN Settled(w)
            ELSE IF b \in upto[b - 1] THEN upto[b - 1] \cup file[b][w].carried
            ELSE upto[b - 1]]

\* Where the rows of settled blocks carry settled blocks only, the candidates file adds
\* nothing to what the ledger says is paid.
LEMMA LedgerSaysIt ==
  ASSUME CarryAssumption, NEW w, NEW file,
         \A b \in Block \cap Settled(w) : file[b][w].carried \subseteq Settled(w)
  PROVE  SettledWith(file, w) = Settled(w)
<1> PICK paid : paid = Settled(w)
  OBVIOUS
<1>1. \A b \in 1 .. N : b \in paid => paid \cup file[b][w].carried = paid
  BY DEF Block
<1>2. \E upto : Reads(upto, file, w)
  <2> DEFINE g == [b \in 0 .. N |-> paid]
  <2>1. \A b \in 0 .. N : b # 0 => b \in 1 .. N /\ b - 1 \in 0 .. N
    BY DEF CarryAssumption
  <2>2. \A b \in 0 .. N : g[b] = paid
    OBVIOUS
  <2>3. g = [b \in 0 .. N |-> g[b]]
    OBVIOUS
  <2> HIDE DEF g
  <2>4. \A b \in 0 .. N : g[b] = IF b = 0 THEN paid
                                  ELSE IF b \in g[b - 1] THEN g[b - 1] \cup file[b][w].carried
                                  ELSE g[b - 1]
    BY <1>1, <2>1, <2>2
  <2>5. g = [b \in 0 .. N |-> IF b = 0 THEN paid
                              ELSE IF b \in g[b - 1] THEN g[b - 1] \cup file[b][w].carried
                              ELSE g[b - 1]]
    BY <2>3, <2>4
  <2> QED BY <2>5 DEF Reads
<1>3. PICK upto : Reads(upto, file, w) /\ SettledWith(file, w) = upto[N]
  <2>1. SettledWith(file, w) = (CHOOSE g : Reads(g, file, w))[N]
    BY DEF SettledWith, Reads
  <2> QED BY <1>2, <2>1
<1>4. upto[0] = paid /\ \A b \in 1 .. N : upto[b] = IF b \in upto[b - 1]
                                                     THEN upto[b - 1] \cup file[b][w].carried
                                                     ELSE upto[b - 1]
  <2>1. \A b \in 0 .. N : upto[b] = IF b = 0 THEN paid
                                     ELSE IF b \in upto[b - 1] THEN upto[b - 1] \cup file[b][w].carried
                                     ELSE upto[b - 1]
    BY <1>3 DEF Reads
  <2>2. 0 \in 0 .. N /\ \A b \in 1 .. N : b \in 0 .. N /\ b # 0
    BY DEF CarryAssumption
  <2> QED BY <2>1, <2>2
<1> DEFINE G == {n \in Nat : n <= N => upto[n] = paid}
<1>5. 0 \in G
  BY <1>4
<1>6. ASSUME NEW n \in Nat, n \in G PROVE n + 1 \in G
  <2> SUFFICES ASSUME n + 1 <= N PROVE upto[n + 1] = paid
    OBVIOUS
  <2>1. n + 1 \in 1 .. N /\ n + 1 - 1 = n /\ n <= N
    BY DEF CarryAssumption
  <2>2. upto[n] = paid
    BY <1>6, <2>1
  <2>3. PICK b \in 1 .. N : b = n + 1
    BY <2>1
  <2>4. upto[b] = IF b \in upto[b - 1] THEN upto[b - 1] \cup file[b][w].carried
                  ELSE upto[b - 1]
    BY <1>4
  <2>5. b - 1 = n
    BY <2>1, <2>3
  <2> QED BY <1>1, <2>2, <2>3, <2>4, <2>5
<1>7. N \in G
  <2>1. N \in Nat
    BY DEF CarryAssumption
  <2> HIDE DEF G
  <2> QED BY <1>5, <1>6, <2>1, NumberInduction
<1>8. upto[N] = paid
  BY <1>7 DEF CarryAssumption
<1> QED BY <1>3, <1>8

Dug(w, K) == {b \in K \ Foreign : w \in Miners(b)}

Initial(K) == \A b \in K : 1 .. b - 1 \subseteq K

\* A file shows the payable blocks of some time: all those a wallet has mined are due,
\* kept, or settled.
FileOk(file) ==
  \E K \in SUBSET payable :
    /\ Initial(K)
    /\ \A w \in Wallet :
         /\ RowsOk(file, w)
         /\ Kept(file, w) \cap Settled(w) = {}
         /\ Kept(file, w) \cup Due(file, w) \cup Settled(w) = Dug(w, K)

Unpaid(file, w) == Due(file, w) \cap Settled(w) = {}
PaidUp(file, w) == Due(file, w) \subseteq Settled(w)

\* What counts as paid where the pending rows are all paid or all unpaid.
LEMMA PaidIsSettledOnly ==
  ASSUME CarryAssumption, NEW w \in Wallet, NEW file \in File, RowsOk(file, w),
         Kept(file, w) \cap Settled(w) = {}, Unpaid(file, w) \/ PaidUp(file, w)
  PROVE  SettledWith(file, w) = Settled(w)
<1> SUFFICES ASSUME NEW b \in Block \cap Settled(w)
             PROVE  file[b][w].carried \subseteq Settled(w)
  BY LedgerSaysIt
<1>1. file[b][w].status \in {"none", "paid", "pending", "carried"}
  BY DEF File, Row
<1>2. CASE file[b][w].status = "pending"
  <2>1. b \in PendingRows(file, w)
    BY <1>2 DEF PendingRows
  <2>2. b \in Due(file, w) /\ file[b][w].carried \subseteq Due(file, w)
    BY <2>1 DEF RowsOk, Due
  <2> QED BY <2>2 DEF Unpaid, PaidUp
<1>3. CASE file[b][w].status = "carried"
  <2>1. b \in CarriedRows(file, w) \cap Due(file, w)
    BY <1>3 DEF CarriedRows, Kept
  <2>2. file[b][w].carried \subseteq Due(file, w)
    BY <2>1 DEF RowsOk
  <2> QED BY <2>1, <2>2 DEF Unpaid, PaidUp
<1>4. CASE file[b][w].status \in {"none", "paid"}
  BY <1>4 DEF RowsOk
<1> QED BY <1>1, <1>2, <1>3, <1>4
-----------------------------------------------------------------------------
(* The scan of a wallet's blocks *)

\* The blocks of w that can be paid and are not.
Open(w, paid) == Dug(w, payable) \ paid[w]

\* Where a block has one miner, it has a row for w as long as it is open.
LEMMA OpenIsEligible ==
  ASSUME OneMiner, NEW w \in Wallet, NEW paid, NEW b \in Block
  PROVE  /\ b \in Open(w, paid) <=> Eligible(b, w, paid, Ours)
         /\ Eligible(b, w, paid, Ours) => b \notin paid[w]
<1>1. w \in Miners(b) => Miners(b) = {w}
  BY DEF OneMiner
<1>2. w \in Miners(b) => (AllPaid(b, paid) <=> b \in paid[w])
  BY <1>1 DEF AllPaid
<1> QED BY <1>2 DEF Open, Dug, Eligible, Ours

\* A state of the scan before block b: what is carried is not paid, and less than the
\* minimum.
Before(was, b, w, paid) ==
  /\ was \in Scanned /\ was.ids \cap paid[w] = {}
  /\ was.amount = Amount(w, was.ids) /\ ~Reaches(was.amount)
  /\ b \in was.ids => was.ids \subseteq carry[w]

\* What the scan does with block b: nothing where it is not open, another carried or
\* pending row where it is new, and the same row again where it was carried before.
NextOk(next, was, b, w, E) ==
  /\ b \notin E =>
       /\ next.ids = was.ids /\ next.amount = was.amount
       /\ next.row.status = "none" /\ next.row.carried = {}
  /\ b \in E /\ b \in was.ids =>
       /\ next.ids = was.ids /\ next.amount = was.amount
       /\ next.row.status = "carried" /\ next.row.carried = was.ids \ {b}
  /\ b \in E /\ b \notin was.ids /\ next.row.status # "pending" =>
       /\ next.ids = was.ids \cup {b}
       /\ next.row.status = "carried" /\ next.row.carried = was.ids
  /\ b \in E /\ next.row.status = "pending" =>
       /\ b \notin was.ids /\ next.ids = {}
       /\ next.row.carried = was.ids \cup {b} /\ Reaches(next.row.amount)
       /\ next.row.amount = Amount(w, next.row.carried)
  /\ next.amount = Amount(w, next.ids) /\ ~Reaches(next.amount)

\* One block of the scan does just that.
LEMMA OneBlockOfTheScan ==
  ASSUME CarryAssumption, OneMiner, Ours \subseteq Block, NEW w \in Wallet, NEW paid,
         NEW b \in Block, NEW was, Before(was, b, w, paid)
  PROVE  NextOk(CarryStep(was, b, w, paid, Ours), was, b, w, Open(w, paid))
<1> PICK next : next = CarryStep(was, b, w, paid, Ours)
  OBVIOUS
<1>0. /\ was.ids \in SUBSET Block /\ was = [ids |-> was.ids, amount |-> was.amount, row |-> was.row]
      /\ was.ids \cap paid[w] = {}
      /\ was.amount = Amount(w, was.ids) /\ ~Reaches(was.amount)
      /\ b \in was.ids => was.ids \subseteq carry[w]
  BY DEF Before, Scanned
<1> DEFINE ids == was.ids \ ({b} \cup paid[w])
           in == IF ids = was.ids THEN was.amount ELSE Amount(w, ids \cap carry[w])
           total == in + Base[b][w]
           E == Open(w, paid)
<1>1. ids = was.ids \ {b} /\ ids \in SUBSET Block /\ b \in Block \ ids
  BY <1>0
<1>2. in = Amount(w, ids)
  <2>1. CASE b \in was.ids
    <3>1. ids # was.ids /\ ids \cap carry[w] = ids
      BY <1>0, <1>1, <2>1
    <3> QED BY <3>1
  <2>2. CASE b \notin was.ids
    <3>1. ids = was.ids
      BY <1>1, <2>2
    <3> QED BY <1>0, <3>1
  <2> QED BY <2>1, <2>2
<1>3. total = Amount(w, ids \cup {b}) /\ Amount(w, {}) = 0
  <2> HIDE DEF ids, in
  <2>1. Amount(w, ids \cup {b}) = Amount(w, ids) + Base[b][w] /\ Amount(w, {}) = 0
    BY <1>1, AmountOfOneMore
  <2> QED BY <1>2, <2>1
<1>4. ~Reaches(0)
  BY DEF Reaches, CarryAssumption
<1>5. b \in was.ids => ids \cup {b} = was.ids
  BY <1>1
<1>6. ASSUME b \notin E PROVE NextOk(next, was, b, w, E)
  <2>1. ~Eligible(b, w, paid, Ours)
    BY <1>6, OpenIsEligible
  <2>2. next = [was EXCEPT !.row = NoRow]
    BY <2>1, Zenon DEF CarryStep
  <2>3. next.ids = was.ids /\ next.amount = was.amount /\ next.row = NoRow
    BY <1>0, <2>2
  <2>4. next.row.status = "none" /\ next.row.carried = {}
    BY <2>3 DEF NoRow
  <2> HIDE DEF E
  <2> QED BY <1>0, <1>6, <2>3, <2>4 DEF NextOk
<1>7. ASSUME b \in E /\ Reaches(total) PROVE NextOk(next, was, b, w, E)
  <2>1. Eligible(b, w, paid, Ours) /\ b \notin paid[w]
    BY <1>7, OpenIsEligible
  <2> DEFINE r == [status |-> "pending", amount |-> total, carried |-> ids \cup {b}]
  <2>2. next = [ids |-> {}, amount |-> 0, row |-> r]
    BY <1>7, <2>1, Zenon DEF CarryStep
  <2>3. r.status = "pending" /\ r.amount = total /\ r.carried = ids \cup {b}
    OBVIOUS
  <2> HIDE DEF r, total, in, E
  <2>4. next.ids = {} /\ next.amount = 0 /\ next.row = r
    BY <2>2
  <2>5. b \notin was.ids
    BY <1>0, <1>3, <1>5, <1>7
  <2>6. ids = was.ids
    BY <1>1, <2>5
  <2> QED BY <1>3, <1>4, <1>7, <2>3, <2>4, <2>5, <2>6 DEF NextOk
<1>8. ASSUME b \in E /\ ~Reaches(total) PROVE NextOk(next, was, b, w, E)
  <2>1. Eligible(b, w, paid, Ours) /\ b \notin paid[w]
    BY <1>8, OpenIsEligible
  <2> DEFINE r == [status |-> "carried", amount |-> Base[b][w], carried |-> ids]
  <2>2. next = [ids |-> ids \cup {b}, amount |-> total, row |-> r]
    BY <1>8, <2>1, Zenon DEF CarryStep
  <2>3. r.status = "carried" /\ r.carried = ids
    OBVIOUS
  <2> HIDE DEF r, total, in, E
  <2>4. next.ids = ids \cup {b} /\ next.amount = total /\ next.row = r
    BY <2>2
  <2>5. b \notin was.ids => ids = was.ids
    BY <1>1
  <2>7. b \in was.ids => next.ids = was.ids /\ next.amount = was.amount
    BY <1>0, <1>3, <1>5, <2>4
  <2> HIDE DEF ids
  <2>8. next.row.status = "carried" /\ next.row.carried = ids
    BY <2>3, <2>4
  <2>9. next.amount = Amount(w, next.ids) /\ ~Reaches(next.amount)
    BY <1>3, <1>8, <2>4
  <2> QED BY <1>1, <1>8, <2>4, <2>5, <2>7, <2>8, <2>9 DEF NextOk
<1>9. NextOk(next, was, b, w, E)
  BY <1>6, <1>7, <1>8
<1> QED BY <1>9
RowsOf(s, status, n) == {c \in 1 .. n : s[c].row.status = status}
DueOf(s, n) == UNION {s[c].row.carried : c \in RowsOf(s, "pending", n)}

\* After the first n blocks: the open ones among them have rows.  Those and what was carried
\* before the scan are either due or carried on, and as long as a block carried before is
\* to come, nothing else has happened.
ScanOk(s, w, open, E, n) ==
  /\ RowsOf(s, "pending", n) \cup RowsOf(s, "carried", n) = {b \in E : b <= n}
  /\ s[n].ids \cup DueOf(s, n) = open \cup {b \in E : b <= n}
  /\ s[n].ids \cap DueOf(s, n) = {}
  /\ s[n].amount = Amount(w, s[n].ids) /\ ~Reaches(s[n].amount)
  /\ (\E c \in open : n < c) => s[n].ids = open /\ RowsOf(s, "pending", n) = {}
  /\ \A b \in RowsOf(s, "pending", n) :
       /\ b \in s[b].row.carried /\ Reaches(s[b].row.amount)
       /\ s[b].row.amount = Amount(w, s[b].row.carried)
  /\ \A b, c \in RowsOf(s, "pending", n) :
       b # c => s[b].row.carried \cap s[c].row.carried = {}
  /\ \A b \in RowsOf(s, "carried", n) :
       /\ b \in s[n].ids => s[b].row.carried \subseteq s[n].ids
       /\ b \in DueOf(s, n) => s[b].row.carried \subseteq DueOf(s, n)
  /\ \A b \in 1 .. n : s[b].row.status \in {"none", "paid"} => s[b].row.carried = {}

\* The next block.
LEMMA ScanGoesOn ==
  ASSUME CarryAssumption, OneMiner, NEW w \in Wallet, NEW paid, NEW open, NEW s,
         NEW n \in Nat, n + 1 \in Block,
         s[n] \in Scanned, Ours \subseteq Block,
         s[n + 1] = CarryStep(s[n], n + 1, w, paid, Ours),
         open \subseteq Open(w, paid), open \subseteq carry[w],
         \A c \in open, b \in Open(w, paid) : b < c => b \in open,
         ScanOk(s, w, open, Open(w, paid), n)
  PROVE  ScanOk(s, w, open, Open(w, paid), n + 1)
<1> PICK b \in Block : b = n + 1
  OBVIOUS
<1> PICK E : E = Open(w, paid)
  OBVIOUS
<1>0. /\ b \in Nat /\ b \notin 1 .. n /\ 1 .. b = 1 .. n \cup {b} /\ n < b /\ E \subseteq Block
      /\ E \cap paid[w] = {} /\ open \subseteq E
      /\ \A c \in Block : c \in Nat /\ (c <= b <=> c <= n \/ c = b) /\ (b <= c <=> n < c)
                                   /\ (b < c => n < c)
  <2>1. E \subseteq Block /\ E \cap paid[w] = {}
    BY DEF Open, Dug, Ours
  <2>2. Block \subseteq Nat
    BY DEF Block, CarryAssumption
  <2>3. \A c \in Block : (c <= b <=> c <= n \/ c = b) /\ (b <= c <=> n < c) /\ (b < c => n < c)
    BY <2>2
  <2>4. b \notin 1 .. n /\ 1 .. b = 1 .. n \cup {b} /\ n < b
    OBVIOUS
  <2> QED BY <2>1, <2>2, <2>3, <2>4
<1> DEFINE P == RowsOf(s, "pending", n)
           C == RowsOf(s, "carried", n)
           D == DueOf(s, n)
           ids == s[n].ids
           row == s[b].row
           Eb == {c \in E : c <= b}
           En == {c \in E : c <= n}
<1>1. /\ P \cup C = En /\ ids \cup D = open \cup En /\ ids \cap D = {}
      /\ s[n].amount = Amount(w, ids) /\ ~Reaches(s[n].amount)
      /\ (\E c \in open : n < c) => ids = open /\ P = {}
  BY DEF ScanOk
<1>2. /\ \A c \in P : /\ c \in s[c].row.carried /\ Reaches(s[c].row.amount)
                      /\ s[c].row.amount = Amount(w, s[c].row.carried)
      /\ \A c, d \in P : c # d => s[c].row.carried \cap s[d].row.carried = {}
      /\ \A c \in C : /\ c \in ids => s[c].row.carried \subseteq ids
                      /\ c \in D => s[c].row.carried \subseteq D
      /\ \A c \in 1 .. n : s[c].row.status \in {"none", "paid"} => s[c].row.carried = {}
  BY DEF ScanOk
<1>3. Eb = IF b \in E THEN En \cup {b} ELSE En
  BY <1>0
<1>4. b \in open \/ b \notin ids \cup D
  BY <1>0, <1>1
<1>5. (\E c \in open : b <= c) <=> (\E c \in open : n < c)
  BY <1>0
<1>6. b \in E /\ (\E c \in open : b <= c) => b \in open
  <2> SUFFICES ASSUME b \in E, NEW c \in open, b <= c PROVE b \in open
    OBVIOUS
  <2>1. c \in Nat /\ (b < c \/ b = c)
    BY <1>0
  <2> QED BY <2>1
<1>7. open \subseteq E /\ ids \subseteq E /\ D \subseteq E
  BY <1>1
<1>8. b \in ids => ids \subseteq carry[w]
  <2> SUFFICES ASSUME b \in ids PROVE ids \subseteq carry[w]
    OBVIOUS
  <2>1. b \in open
    BY <1>4
  <2> QED BY <1>0, <1>1, <2>1
<1>9. /\ b \notin E => /\ s[b].ids = ids /\ s[b].amount = s[n].amount
                       /\ row.status = "none" /\ row.carried = {}
      /\ b \in E /\ b \in ids => /\ s[b].ids = ids /\ s[b].amount = s[n].amount
                                 /\ row.status = "carried" /\ row.carried = ids \ {b}
      /\ b \in E /\ b \notin ids /\ row.status # "pending" =>
           s[b].ids = ids \cup {b} /\ row.status = "carried" /\ row.carried = ids
      /\ b \in E /\ row.status = "pending" =>
           /\ b \notin ids /\ s[b].ids = {}
           /\ row.carried = ids \cup {b} /\ Reaches(row.amount)
           /\ row.amount = Amount(w, row.carried)
      /\ s[b].amount = Amount(w, s[b].ids) /\ ~Reaches(s[b].amount)
  <2>1. s[n].ids \cap paid[w] = {}
    BY <1>0, <1>7
  <2>2. Before(s[n], b, w, paid)
    BY <1>1, <1>8, <2>1 DEF Before
  <2>3. NextOk(CarryStep(s[n], b, w, paid, Ours), s[n], b, w, E)
    BY <2>2, OneBlockOfTheScan
  <2>4. NextOk(s[b], s[n], b, w, E)
    BY <2>3
  <2> QED BY <2>4 DEF NextOk
<1>10. /\ RowsOf(s, "pending", b) = IF row.status = "pending" THEN P \cup {b} ELSE P
       /\ RowsOf(s, "carried", b) = IF row.status = "carried" THEN C \cup {b} ELSE C
       /\ DueOf(s, b) = IF row.status = "pending" THEN D \cup row.carried ELSE D
  <2>1. \A t : RowsOf(s, t, b) = IF row.status = t THEN RowsOf(s, t, n) \cup {b}
                                 ELSE RowsOf(s, t, n)
    BY <1>0 DEF RowsOf
  <2>2. RowsOf(s, "pending", b) = IF row.status = "pending" THEN P \cup {b} ELSE P
    BY <2>1
  <2>3. DueOf(s, b) = UNION {s[c].row.carried : c \in RowsOf(s, "pending", b)}
    BY DEF DueOf
  <2>4. D = UNION {s[c].row.carried : c \in P}
    BY DEF DueOf
  <2>5. row.status = "pending" => DueOf(s, b) = D \cup row.carried
    <3> SUFFICES ASSUME row.status = "pending" PROVE DueOf(s, b) = D \cup row.carried
      OBVIOUS
    <3>1. RowsOf(s, "pending", b) = P \cup {b}
      BY <2>2
    <3> HIDE DEF P, D
    <3> QED BY <2>3, <2>4, <3>1
  <2>6. row.status # "pending" => DueOf(s, b) = D
    BY <2>2, <2>3, <2>4
  <2> HIDE DEF D, P, row
  <2> QED BY <2>1, <2>2, <2>5, <2>6 DEF C
<1>11. b \notin P /\ b \notin C
  BY <1>0 DEF RowsOf
<1>12. PICK Pb : Pb = RowsOf(s, "pending", b)
  OBVIOUS
<1>13. PICK Cb : Cb = RowsOf(s, "carried", b)
  OBVIOUS
<1>14. PICK Db : Db = DueOf(s, b)
  OBVIOUS
<1>15. PICK Ib : Ib = s[b].ids
  OBVIOUS
<1> HIDE DEF P, C, D, ids, row, Eb, En
<1>16. /\ Pb \cup Cb = Eb /\ Ib \cup Db = open \cup Eb /\ Ib \cap Db = {}
       /\ (\E c \in open : b < c) => Ib = open /\ Pb = {}
       /\ \A c \in Pb : /\ c \in s[c].row.carried /\ Reaches(s[c].row.amount)
                        /\ s[c].row.amount = Amount(w, s[c].row.carried)
       /\ \A c, d \in Pb : c # d => s[c].row.carried \cap s[d].row.carried = {}
       /\ \A c \in Cb : /\ c \in Ib => s[c].row.carried \subseteq Ib
                        /\ c \in Db => s[c].row.carried \subseteq Db
       /\ s[b].row.status \in {"none", "paid"} => s[b].row.carried = {}
  <2>0. (\E c \in open : b < c) => (\E c \in open : n < c)
    BY <1>0
  <2>1. CASE b \notin E
    <3>1. Pb = P /\ Cb = C /\ Db = D /\ Ib = ids /\ Eb = En
      BY <1>3, <1>9, <1>10, <1>12, <1>13, <1>14, <1>15, <2>1
    <3>2. s[b].row.carried = {}
      BY <1>9, <2>1 DEF row
    <3> QED BY <1>1, <1>2, <2>0, <3>1, <3>2
  <2>2. CASE b \in E /\ row.status = "pending"
    <3>1. /\ Pb = P \cup {b} /\ Cb = C /\ Db = D \cup row.carried /\ Ib = {}
          /\ Eb = En \cup {b} /\ b \notin ids /\ row.carried = ids \cup {b}
      BY <1>3, <1>9, <1>10, <1>12, <1>13, <1>14, <1>15, <2>2
    <3>2. ~ \E c \in open : n < c
      BY <1>1, <1>5, <1>6, <2>2, <3>1
    <3>3. b \notin open
      BY <1>0, <3>2
    <3>4. b \notin D
      BY <1>4, <3>3
    <3>5. /\ b \in s[b].row.carried /\ Reaches(s[b].row.amount)
          /\ s[b].row.amount = Amount(w, s[b].row.carried)
          /\ s[b].row.carried = ids \cup {b} /\ s[b].row.status = "pending"
      BY <1>9, <2>2, <3>1 DEF row
    <3>6. \A c \in P : s[c].row.carried \subseteq D
      BY DEF D, P, DueOf
    <3>7. \A c \in P : s[c].row.carried \cap s[b].row.carried = {}
      BY <1>1, <3>4, <3>5, <3>6
    <3>8. \A c, d \in Pb : c # d => s[c].row.carried \cap s[d].row.carried = {}
      BY <1>2, <3>1, <3>7
    <3>9. Db = D \cup ids \cup {b}
      BY <3>1
    <3>10. \A c \in Cb : c \in Db => s[c].row.carried \subseteq Db
      <4> SUFFICES ASSUME NEW c \in C, c \in Db PROVE s[c].row.carried \subseteq Db
        BY <3>1
      <4>1. c # b
        BY <1>11
      <4>2. c \in D \/ c \in ids
        BY <3>9, <4>1
      <4> QED BY <1>2, <3>9, <4>2
    <3>11. Pb \cup Cb = Eb /\ Ib \cup Db = open \cup Eb /\ Ib \cap Db = {}
      BY <1>1, <3>1, <3>9
    <3> QED BY <1>2, <2>0, <3>1, <3>2, <3>5, <3>8, <3>10, <3>11
  <2>3. CASE b \in E /\ b \in ids
    <3>1. /\ Pb = P /\ Cb = C \cup {b} /\ Db = D /\ Ib = ids
          /\ Eb = En \cup {b} /\ row.carried = ids \ {b} /\ row.status = "carried"
      BY <1>3, <1>9, <1>10, <1>12, <1>13, <1>14, <1>15, <2>3
    <3>2. s[b].row.carried = ids \ {b} /\ s[b].row.status = "carried" /\ b \notin D
      BY <1>1, <2>3, <3>1 DEF row
    <3>3. b \in open
      BY <1>4, <2>3
    <3>4. Pb \cup Cb = Eb /\ Ib \cup Db = open \cup Eb /\ Ib \cap Db = {}
      BY <1>1, <3>1, <3>3
    <3>5. \A c \in Cb : /\ c \in Ib => s[c].row.carried \subseteq Ib
                        /\ c \in Db => s[c].row.carried \subseteq Db
      BY <1>2, <3>1, <3>2
    <3> QED BY <1>1, <1>2, <2>0, <3>1, <3>2, <3>4, <3>5
  <2>4. CASE b \in E /\ b \notin ids /\ row.status # "pending"
    <3>1. /\ Pb = P /\ Cb = C \cup {b} /\ Db = D /\ Ib = ids \cup {b}
          /\ Eb = En \cup {b} /\ row.carried = ids /\ row.status = "carried"
      BY <1>3, <1>9, <1>10, <1>12, <1>13, <1>14, <1>15, <2>4
    <3>2. ~ \E c \in open : n < c
      BY <1>1, <1>5, <1>6, <2>4
    <3>3. b \notin open
      BY <1>0, <3>2
    <3>4. b \notin D
      BY <1>4, <3>3
    <3>5. s[b].row.carried = ids /\ s[b].row.status = "carried"
      BY <3>1 DEF row
    <3>6. Pb \cup Cb = Eb /\ Ib \cup Db = open \cup Eb /\ Ib \cap Db = {}
      BY <1>1, <3>1, <3>4
    <3>7. \A c \in Cb : /\ c \in Ib => s[c].row.carried \subseteq Ib
                        /\ c \in Db => s[c].row.carried \subseteq Db
      BY <1>2, <1>11, <3>1, <3>4, <3>5
    <3> QED BY <1>2, <2>0, <3>1, <3>2, <3>5, <3>6, <3>7
  <2> QED BY <2>1, <2>2, <2>3, <2>4
<1>17. \A c \in 1 .. b : s[c].row.status \in {"none", "paid"} => s[c].row.carried = {}
  BY <1>0, <1>2, <1>16
<1>18. ScanOk(s, w, open, E, b)
  BY <1>9, <1>12, <1>13, <1>14, <1>15, <1>16, <1>17 DEF ScanOk, Eb
<1> QED BY <1>18
\* The whole scan, from blocks that were carried.
LEMMA ScanIsOk ==
  ASSUME CarryAssumption, FilesInv, OneMiner, NEW w \in Wallet, NEW paid, NEW open,
         open = carry[w] \ paid[w], open \subseteq Open(w, paid), ~Reaches(Amount(w, open)),
         \A c \in open, b \in Open(w, paid) : b < c => b \in open,
         NEW s, s = Scan(w, paid, Ours)
  PROVE  ScanOk(s, w, open, Open(w, paid), N)
<1> PICK E : E = Open(w, paid)
  OBVIOUS
<1>1. /\ s[0] = [ids |-> open, amount |-> Amount(w, open), row |-> NoRow]
      /\ \A b \in 1 .. N : s[b] = CarryStep(s[b - 1], b, w, paid, Ours)
  <2>1. Steps(s, w, paid, Ours)
    BY ScanSteps
  <2> QED BY <2>1 DEF Steps
<1>2. \A n \in 0 .. N : s[n] \in Scanned
  BY ScanIsGood
<1>3. Ours \subseteq Block /\ open \subseteq carry[w] /\ E \subseteq Block
  BY DEF FilesInv, Ours, Open, Dug
<1> DEFINE G == {n \in Nat : n <= N => ScanOk(s, w, open, E, n)}
<1>4. 0 \in G
  <2>1. {b \in E : b <= 0} = {} /\ 1 .. 0 = {}
    BY <1>3 DEF Block
  <2>2. \A t : RowsOf(s, t, 0) = {}
    BY <2>1 DEF RowsOf
  <2>3. DueOf(s, 0) = {}
    BY <2>2 DEF DueOf
  <2>4. s[0].ids = open /\ s[0].amount = Amount(w, open)
    BY <1>1
  <2>5. ScanOk(s, w, open, E, 0)
    BY <2>1, <2>2, <2>3, <2>4 DEF ScanOk
  <2> QED BY <2>5
<1>5. ASSUME NEW n \in Nat, n \in G PROVE n + 1 \in G
  <2> SUFFICES ASSUME n + 1 <= N PROVE ScanOk(s, w, open, E, n + 1)
    OBVIOUS
  <2>1. n + 1 \in Block /\ n + 1 \in 1 .. N /\ n \in 0 .. N /\ n <= N /\ n + 1 - 1 = n
    BY DEF CarryAssumption, Block
  <2>2. ScanOk(s, w, open, E, n)
    BY <1>5, <2>1
  <2>3. s[n + 1] = CarryStep(s[n], n + 1, w, paid, Ours)
    <3> PICK b \in 1 .. N : b = n + 1
      BY <2>1
    <3>1. s[b] = CarryStep(s[b - 1], b, w, paid, Ours)
      BY <1>1
    <3>2. b - 1 = n
      BY <2>1
    <3> QED BY <3>1, <3>2
  <2>4. s[n] \in Scanned
    BY <1>2, <2>1
  <2> HIDE DEF G
  <2> QED BY <1>3, <2>1, <2>2, <2>3, <2>4, ScanGoesOn
<1>6. N \in G
  <2>1. N \in Nat
    BY DEF CarryAssumption
  <2> HIDE DEF G
  <2> QED BY <1>4, <1>5, <2>1, NumberInduction
<1> QED BY <1>6 DEF CarryAssumption

\* What the carry file holds before a scan, where all that was due is paid: what was kept,
\* or nothing.
LEMMA CarriedIsKept ==
  ASSUME CarryAssumption, FilesInv, FileOk(rows), NEW w \in Wallet, PaidUp(rows, w),
         carry[w] \in {{}, CarriedRows(rows, w)},
         NEW paid, paid[w] = Settled(w), NEW open, open = carry[w] \ paid[w]
  PROVE  /\ open \subseteq Open(w, paid) /\ ~Reaches(Amount(w, open))
         /\ \A c \in open, b \in Open(w, paid) : b < c => b \in open
<1>1. PICK K \in SUBSET payable :
        /\ Initial(K) /\ RowsOk(rows, w)
        /\ Kept(rows, w) \cap Settled(w) = {}
        /\ Kept(rows, w) \cup Due(rows, w) \cup Settled(w) = Dug(w, K)
  BY DEF FileOk
<1>2. CASE open = {}
  <2>1. Amount(w, {}) = 0
    BY SumSplits, FS_EmptySet DEF Amount
  <2>2. ~Reaches(0)
    BY DEF Reaches, CarryAssumption
  <2> QED BY <1>2, <2>1, <2>2
<1>3. CASE open # {}
  <2>1. open = Kept(rows, w)
    BY <1>1, <1>3 DEF Kept, PaidUp
  <2>2. ~Reaches(Amount(w, open))
    BY <1>1, <2>1 DEF RowsOk
  <2>3. open \subseteq Open(w, paid)
    BY <1>1, <2>1 DEF Open, Dug
  <2>4. ASSUME NEW c \in open, NEW b \in Open(w, paid), b < c
        PROVE  b \in open
    <3>1. c \in K /\ b \in payable \ Foreign /\ w \in Miners(b) /\ b \notin Settled(w)
      BY <1>1, <2>1 DEF Open, Dug
    <3>2. b \in Nat /\ c \in Nat /\ 1 <= b /\ b \in 1 .. c - 1
      BY <2>4, <3>1 DEF FilesInv, Block, CarryAssumption
    <3>3. b \in K
      BY <1>1, <3>1, <3>2 DEF Initial
    <3>4. b \in Kept(rows, w) \cup Due(rows, w)
      BY <1>1, <3>1, <3>3 DEF Dug
    <3> QED BY <2>1, <3>1, <3>4 DEF PaidUp
  <2> QED BY <2>2, <2>3, <2>4
<1> QED BY <1>2, <1>3

\* What generate_payout_candidates writes, where all that was due is paid.
LEMMA NewRowsAreOk ==
  ASSUME CarryAssumption, FilesInv, OneMiner, FileOk(rows), Initial(payable),
         \A w \in Wallet : PaidUp(rows, w) /\ carry[w] \in {{}, CarriedRows(rows, w)},
         NEW file, file = Candidates(Ours)
  PROVE  FileOk(file) /\ \A w \in Wallet : Unpaid(file, w)
<1> PICK paid : paid = [w \in Wallet |-> SettledWith(rows, w)]
  OBVIOUS
<1>1. rows \in File
  BY DEF FilesInv, GoodFile
<1>2. \A w \in Wallet : paid[w] = Settled(w)
  <2> SUFFICES ASSUME NEW w \in Wallet PROVE SettledWith(rows, w) = Settled(w)
    OBVIOUS
  <2>1. RowsOk(rows, w) /\ Kept(rows, w) \cap Settled(w) = {}
    BY DEF FileOk
  <2> QED BY <1>1, <2>1, PaidIsSettledOnly
<1>3. file = [b \in Block |-> [w \in Wallet |-> Scan(w, paid, Ours)[b].row]]
  BY DEF Candidates
<1>4. ASSUME NEW w \in Wallet
      PROVE  /\ RowsOk(file, w) /\ Kept(file, w) \cap Settled(w) = {} /\ Unpaid(file, w)
             /\ Kept(file, w) \cup Due(file, w) \cup Settled(w) = Dug(w, payable)
  <2> PICK s : s = Scan(w, paid, Ours)
    OBVIOUS
  <2> PICK E : E = Open(w, paid)
    OBVIOUS
  <2> PICK open : open = carry[w] \ paid[w]
    OBVIOUS
  <2>1. paid[w] = Settled(w)
    BY <1>2
  <2>2. open \subseteq E /\ ScanOk(s, w, open, E, N)
    <3>1. PaidUp(rows, w) /\ carry[w] \in {{}, CarriedRows(rows, w)}
      OBVIOUS
    <3>2. /\ open \subseteq E /\ ~Reaches(Amount(w, open))
          /\ \A c \in open, b \in E : b < c => b \in open
      BY <2>1, <3>1, CarriedIsKept
    <3> QED BY <3>2, ScanIsOk
  <2>3. \A b \in Block : file[b][w] = s[b].row
    BY <1>3
  <2>4. /\ PendingRows(file, w) = RowsOf(s, "pending", N)
        /\ CarriedRows(file, w) = RowsOf(s, "carried", N)
    BY <2>3 DEF PendingRows, CarriedRows, RowsOf, Block
  <2>5. Due(file, w) = DueOf(s, N)
    <3>1. PICK Q : Q = PendingRows(file, w) /\ Q \subseteq Block
      BY DEF PendingRows
    <3>2. \A b \in Q : file[b][w].carried = s[b].row.carried
      BY <2>3, <3>1
    <3>3. UNION {file[b][w].carried : b \in Q} = UNION {s[b].row.carried : b \in Q}
      BY <3>2
    <3> QED BY <2>4, <3>1, <3>3 DEF Due, DueOf
  <2>6. E \subseteq Block /\ {b \in E : b <= N} = E /\ open \cup E = E
    <3>1. E \subseteq Block
      BY DEF Open, Dug, FilesInv
    <3>2. \A b \in Block : b <= N
      BY DEF Block, CarryAssumption
    <3> QED BY <2>2, <3>1, <3>2
  <2> PICK P : P = PendingRows(file, w)
    OBVIOUS
  <2> PICK C : C = CarriedRows(file, w)
    OBVIOUS
  <2> PICK D : D = Due(file, w)
    OBVIOUS
  <2> PICK ids : ids = s[N].ids
    OBVIOUS
  <2>7. /\ P \cup C = E /\ ids \cup D = E /\ ids \cap D = {}
        /\ s[N].amount = Amount(w, ids) /\ ~Reaches(s[N].amount)
        /\ \A b \in P : /\ b \in file[b][w].carried /\ Reaches(file[b][w].amount)
                        /\ file[b][w].amount = Amount(w, file[b][w].carried)
        /\ \A b, c \in P : b # c => file[b][w].carried \cap file[c][w].carried = {}
        /\ \A b \in C : b \in D => file[b][w].carried \subseteq D
        /\ \A b \in Block : file[b][w].status \in {"none", "paid"} => file[b][w].carried = {}
    <3>1. P \subseteq Block /\ C \subseteq Block
      BY DEF PendingRows, CarriedRows
    <3>2. /\ P = RowsOf(s, "pending", N) /\ C = RowsOf(s, "carried", N) /\ D = DueOf(s, N)
      BY <2>4, <2>5
    <3>3. /\ P \cup C = {b \in E : b <= N} /\ ids \cup D = open \cup {b \in E : b <= N}
          /\ ids \cap D = {}
          /\ s[N].amount = Amount(w, ids) /\ ~Reaches(s[N].amount)
      BY <2>2, <3>2 DEF ScanOk
    <3>4. /\ \A b \in P : /\ b \in s[b].row.carried /\ Reaches(s[b].row.amount)
                           /\ s[b].row.amount = Amount(w, s[b].row.carried)
          /\ \A b \in C : b \in D => s[b].row.carried \subseteq D
      BY ONLY <2>2, <3>2 DEF ScanOk
    <3>5. \A b, c \in P : b # c => s[b].row.carried \cap s[c].row.carried = {}
      BY ONLY <2>2, <3>2 DEF ScanOk
    <3>6. \A b \in Block : s[b].row.status \in {"none", "paid"} => s[b].row.carried = {}
      BY ONLY <2>2 DEF ScanOk, Block
    <3>7. \A b \in P : /\ b \in file[b][w].carried /\ Reaches(file[b][w].amount)
                        /\ file[b][w].amount = Amount(w, file[b][w].carried)
      BY ONLY <2>3, <3>1, <3>4
    <3>10. ASSUME NEW b \in P, NEW c \in P, b # c
           PROVE  file[b][w].carried \cap file[c][w].carried = {}
      <4>1. file[b][w] = s[b].row /\ file[c][w] = s[c].row
        BY ONLY <2>3, <3>1, b \in P, c \in P
      <4>2. s[b].row.carried \cap s[c].row.carried = {}
        BY <3>5, <3>10
      <4> QED BY <4>1, <4>2
    <3>8. \A b \in C : b \in D => file[b][w].carried \subseteq D
      BY ONLY <2>3, <3>1, <3>4
    <3>9. \A b \in Block : file[b][w].status \in {"none", "paid"} => file[b][w].carried = {}
      BY ONLY <2>3, <3>6
    <3> QED BY <2>6, <3>3, <3>7, <3>8, <3>9, <3>10
  <2>8. P \subseteq D
    BY <2>7 DEF Due
  <2>9. P \cap C = {}
    BY DEF PendingRows, CarriedRows
  <2>10. Kept(file, w) = ids
    BY <2>7, <2>8 DEF Kept
  <2>11. RowsOk(file, w)
    BY <2>7, <2>10 DEF RowsOk
  <2>12. Settled(w) \subseteq Dug(w, payable)
    BY DEF FileOk, Dug
  <2>13. E = Dug(w, payable) \ Settled(w)
    BY <2>1 DEF Open
  <2> QED BY <2>7, <2>10, <2>11, <2>12, <2>13 DEF Unpaid
<1>5. FileOk(file)
  BY <1>4 DEF FileOk
<1> QED BY <1>4, <1>5
-----------------------------------------------------------------------------
(* The steps of the auto run *)

\* A group is the pending rows of its wallet, and carries what is due.
IsGroup(g, file) ==
  /\ g.sources = PendingRows(file, g.wallet) /\ g.carried = Due(file, g.wallet)
  /\ g.amount = RowTotal(file, g.wallet, g.sources)

Shown == FileOk(rows) /\ Initial(payable)

\* Outside the send all that is due is paid, or nothing is; in the send, each wallet has
\* been paid or has its group.
RunOk(at) ==
  /\ lock = IF at = "write" THEN "auto" ELSE "free"
  /\ at = "read" => \A w \in Wallet : carry[w] \in {{}, CarriedRows(rows, w)}
  /\ at \in {"idle", "carry", "read", "write", "post"} => \A w \in Wallet : PaidUp(rows, w)
  /\ at = "write" => FileOk(buf["auto"]) /\ \A w \in Wallet : Unpaid(buf["auto"], w)
  /\ at \in {"load", "select"} => \A w \in Wallet : Unpaid(rows, w)
  /\ at = "select" => buf["auto"] = rows
  /\ at = "send" =>
       /\ \A g \in groups : IsGroup(g, rows) /\ Unpaid(rows, g.wallet)
       /\ \A w \in Wallet : PaidUp(rows, w) \/ \E g \in groups : g.wallet = w

FullInv == Shown /\ RunOk(pc["auto"]) /\ PaidInFull

\* A line of the ledger settles what it names, for its wallet.
LEMMA LineSettles ==
  ASSUME NEW g, NEW ids, ledger' = ledger \cup {Entry(g, ids)}, NEW w
  PROVE  Settled(w)' = IF w = g.wallet THEN Settled(w) \cup g.sources \cup ids ELSE Settled(w)
<1> PICK e : e = Entry(g, ids)
  OBVIOUS
<1>1. e.wallet = g.wallet /\ e.sources = g.sources /\ e.carried = ids
  BY DEF Entry
<1>2. {f \in ledger' : f.wallet = w} = IF w = g.wallet THEN {f \in ledger : f.wallet = w} \cup {e}
                                       ELSE {f \in ledger : f.wallet = w}
  BY <1>1
<1>3. CASE w = g.wallet
  <2> PICK M : M = {f.sources \cup f.carried : f \in {d \in ledger : d.wallet = w}}
    OBVIOUS
  <2> PICK m : m = g.sources \cup ids
    OBVIOUS
  <2>1. {f.sources \cup f.carried : f \in {d \in ledger' : d.wallet = w}} = M \cup {m}
    BY <1>1, <1>2, <1>3
  <2>2. Settled(w)' = UNION (M \cup {m}) /\ Settled(w) = UNION M
    BY <2>1 DEF Settled
  <2>3. UNION (M \cup {m}) = (UNION M) \cup m
    OBVIOUS
  <2> QED BY <1>3, <2>2, <2>3
<1>4. CASE w # g.wallet
  BY <1>2, <1>4 DEF Settled
<1> QED BY <1>3, <1>4

\* Pending rows are due, and a row that counts is of a block of the wallet.
LEMMA RowsAreOfMiners ==
  ASSUME CarryAssumption, NEW file, FileOk(file), NEW w \in Wallet, NEW b \in Block,
         file[b][w].status \in {"pending", "carried"}
  PROVE  w \in Miners(b) /\ (file[b][w].status = "pending" => b \in Due(file, w))
<1>1. PICK K \in SUBSET payable :
        /\ RowsOk(file, w)
        /\ Kept(file, w) \cup Due(file, w) \cup Settled(w) = Dug(w, K)
  BY DEF FileOk
<1>2. b \in PendingRows(file, w) \/ b \in CarriedRows(file, w)
  BY DEF PendingRows, CarriedRows
<1>3. PendingRows(file, w) \subseteq Due(file, w)
  BY <1>1 DEF RowsOk, Due
<1>4. b \in Kept(file, w) \cup Due(file, w)
  BY <1>2, <1>3 DEF Kept
<1>5. w \in Miners(b)
  BY <1>1, <1>4 DEF Dug
<1> QED BY <1>3, <1>5 DEF PendingRows

\* auto_payout_once selects the pending rows, and nothing else.
LEMMA SelectsTheDue ==
  ASSUME CarryAssumption, OneMiner, FilesInv, FileOk(rows), NEW w \in Wallet, Unpaid(rows, w)
  PROVE  /\ GroupOf(rows, w).wallet = w /\ IsGroup(GroupOf(rows, w), rows)
         /\ ~Reaches(GroupOf(rows, w).amount) => PaidUp(rows, w)
<1>1. rows \in File
  BY DEF FilesInv, GoodFile
<1>2. RowsOk(rows, w) /\ Kept(rows, w) \cap Settled(w) = {}
  BY DEF FileOk
<1>3. SettledWith(rows, w) = Settled(w)
  BY <1>1, <1>2, PaidIsSettledOnly
<1>4. Selected(rows, w) = PendingRows(rows, w)
  <2>1. ASSUME NEW b \in Selected(rows, w) PROVE b \in PendingRows(rows, w)
    <3>1. b \in Block /\ Ready(rows, b) /\ rows[b][w].status \in {"pending", "carried"}
      BY <2>1 DEF Selected
    <3>2. PICK v \in Wallet : rows[b][v].status = "pending"
      BY <3>1 DEF Ready
    <3>3. v \in Miners(b) /\ w \in Miners(b)
      BY <3>1, <3>2, RowsAreOfMiners
    <3>4. v = w
      BY <3>1, <3>3 DEF OneMiner
    <3> QED BY <3>1, <3>2, <3>4 DEF PendingRows
  <2>2. ASSUME NEW b \in PendingRows(rows, w) PROVE b \in Selected(rows, w)
    <3>1. b \in Block /\ rows[b][w].status = "pending"
      BY <2>2 DEF PendingRows
    <3>2. b \in Due(rows, w)
      BY <3>1, RowsAreOfMiners
    <3>3. b \notin SettledWith(rows, w)
      BY <1>3, <3>2 DEF Unpaid
    <3> QED BY <3>1, <3>3 DEF Selected, Ready
  <2> QED BY <2>1, <2>2
<1> PICK P : P = PendingRows(rows, w)
  OBVIOUS
<1>5. GroupOf(rows, w) = [wallet |-> w, amount |-> RowTotal(rows, w, P), sources |-> P,
                          carried |-> Due(rows, w)]
  BY <1>4 DEF GroupOf, Due
<1>6. /\ GroupOf(rows, w).wallet = w /\ GroupOf(rows, w).amount = RowTotal(rows, w, P)
      /\ GroupOf(rows, w).sources = P /\ GroupOf(rows, w).carried = Due(rows, w)
  BY <1>5
<1>7. ASSUME ~PaidUp(rows, w) PROVE Reaches(RowTotal(rows, w, P))
  <2>1. PICK b \in P : TRUE
    BY <1>7 DEF PaidUp, Due
  <2> PICK A : A = rows[b][w].carried
    OBVIOUS
  <2> PICK B : B = Due(rows, w) \ A
    OBVIOUS
  <2>2. b \in Block /\ A \in SUBSET Block /\ Reaches(rows[b][w].amount) /\ rows[b][w].amount = Amount(w, A)
    BY <1>1, <1>2, <2>1 DEF RowsOk, PendingRows, File, Row
  <2>3. Due(rows, w) \subseteq Block
    BY <1>1 DEF Due, PendingRows, File, Row
  <2>4. A \cup B = Due(rows, w) /\ A \cap B = {} /\ B \in SUBSET Block
    BY <2>1, <2>3 DEF Due
  <2>5. Amount(w, A \cup B) = Amount(w, A) + Amount(w, B)
    BY <2>2, <2>4, AmountOfBoth
  <2>6. Amount(w, A) \in Nat /\ Amount(w, B) \in Nat
    BY <2>2, <2>4, AmountIsNat
  <2>7. RowTotal(rows, w, P) = Amount(w, A \cup B)
    BY <1>1, <1>2, <2>4, RowsAddUp
  <2>8. MinPayout \in Nat
    BY DEF CarryAssumption
  <2> QED BY <2>2, <2>5, <2>6, <2>7, <2>8 DEF Reaches
<1> QED BY <1>6, <1>7 DEF IsGroup

\* A send: its check lets it through, it is worth what it marks as paid, and then its
\* wallet is paid.
LEMMA SendPays ==
  ASSUME CarryAssumption, FilesInv, FileOk(rows), PaidInFull, NEW g \in groups,
         IsGroup(g, rows), Unpaid(rows, g.wallet)
  PROVE  /\ Admissible(g)
         /\ Transfer(g, g.carried) /\ UNCHANGED <<payable, rows>> =>
              /\ FileOk(rows)' /\ PaidInFull' /\ PaidUp(rows, g.wallet)'
              /\ \A w \in Wallet : /\ PaidUp(rows, w) => PaidUp(rows, w)'
                                   /\ w # g.wallet /\ Unpaid(rows, w) => Unpaid(rows, w)'
<1> PICK w \in Wallet : w = g.wallet
  BY DEF FilesInv, Group
<1> PICK D : D = Due(rows, w)
  OBVIOUS
<1>1. /\ g.sources = PendingRows(rows, w) /\ g.carried = D
      /\ g.amount = RowTotal(rows, w, g.sources)
  BY DEF IsGroup
<1>2. rows \in File /\ RowsOk(rows, w)
  BY DEF FilesInv, GoodFile, FileOk
<1>3. g.sources \subseteq D
  BY <1>1, <1>2 DEF RowsOk, Due
<1>4. g.amount = Amount(w, D)
  BY <1>1, <1>2, RowsAddUp
<1>5. Admissible(g)
  BY <1>1, <1>3 DEF Admissible, Unpaid, PendingRows
<1>6. ASSUME Transfer(g, g.carried), UNCHANGED <<payable, rows>>
      PROVE  /\ FileOk(rows)' /\ PaidInFull' /\ PaidUp(rows, w)'
             /\ \A v \in Wallet : /\ PaidUp(rows, v) => PaidUp(rows, v)'
                                  /\ v # w /\ Unpaid(rows, v) => Unpaid(rows, v)'
  <2>1. ledger' = ledger \cup {Entry(g, g.carried)}
    BY <1>6 DEF Transfer
  <2>2. \A v : Settled(v)' = IF v = w THEN Settled(v) \cup D ELSE Settled(v)
    BY <1>1, <1>3, <2>1, LineSettles
  <2>3. \A v : /\ PendingRows(rows, v)' = PendingRows(rows, v)
               /\ CarriedRows(rows, v)' = CarriedRows(rows, v)
    BY <1>6 DEF PendingRows, CarriedRows
  <2>4. \A v : Due(rows, v)' = Due(rows, v) /\ Kept(rows, v)' = Kept(rows, v)
    BY <1>6, <2>3 DEF Due, Kept
  <2>5. \A v : RowsOk(rows, v)' <=> RowsOk(rows, v)
    BY <1>6, <2>3, <2>4 DEF RowsOk
  <2>6. FileOk(rows)'
    <3>1. PICK K \in SUBSET payable :
            /\ Initial(K)
            /\ \A v \in Wallet :
                 /\ RowsOk(rows, v) /\ Kept(rows, v) \cap Settled(v) = {}
                 /\ Kept(rows, v) \cup Due(rows, v) \cup Settled(v) = Dug(v, K)
      BY DEF FileOk
    <3>2. ASSUME NEW v \in Wallet
          PROVE  /\ RowsOk(rows, v)' /\ Kept(rows, v)' \cap Settled(v)' = {}
                 /\ Kept(rows, v)' \cup Due(rows, v)' \cup Settled(v)' = Dug(v, K)
      <4>1. v = w => Kept(rows, v) \cap D = {} /\ D = Due(rows, v)
        BY DEF Kept
      <4> QED BY <2>2, <2>4, <2>5, <3>1, <4>1
    <3> QED BY <1>6, <3>1, <3>2 DEF FileOk
  <2>7. PaidInFull'
    <3> SUFFICES ASSUME NEW t \in txs' PROVE t.amount = Amount(t.wallet, Covers(t))
      BY DEF PaidInFull
    <3>1. PICK new : /\ txs' = txs \cup {new}
                     /\ new.wallet = w /\ new.amount = g.amount
                     /\ new.sources = g.sources /\ new.carried = g.carried
      <4> DEFINE x == [n |-> Cardinality(txs), wallet |-> g.wallet, amount |-> g.amount,
                       sources |-> g.sources, carried |-> g.carried]
      <4>1. txs' = txs \cup {x}
        BY <1>6 DEF Transfer
      <4>2. /\ x.wallet = w /\ x.amount = g.amount
            /\ x.sources = g.sources /\ x.carried = g.carried
        OBVIOUS
      <4> HIDE DEF x
      <4> QED BY <4>1, <4>2
    <3>2. CASE t \in txs
      BY <3>2 DEF PaidInFull
    <3>3. CASE t = new
      <4>1. Covers(new) = D
        BY <1>1, <1>3, <3>1 DEF Covers
      <4> QED BY <1>4, <3>1, <3>3, <4>1
    <3> QED BY <3>1, <3>2, <3>3
  <2> QED BY <2>2, <2>4, <2>6, <2>7 DEF PaidUp, Unpaid
<1> QED BY <1>5, <1>6
\* A file still shows what it showed, as long as nothing is paid.
LEMMA FileStands ==
  ASSUME NEW CONSTANT file, UNCHANGED ledger, payable \subseteq payable'
  PROVE  /\ FileOk(file) => FileOk(file)'
         /\ \A w : (PaidUp(file, w) => PaidUp(file, w)') /\ (Unpaid(file, w) => Unpaid(file, w)')
<1>1. \A w : Settled(w)' = Settled(w)
  BY DEF Settled
<1>2. ASSUME FileOk(file) PROVE FileOk(file)'
  <2>1. PICK K \in SUBSET payable :
          /\ Initial(K)
          /\ \A w \in Wallet :
               /\ RowsOk(file, w) /\ Kept(file, w) \cap Settled(w) = {}
               /\ Kept(file, w) \cup Due(file, w) \cup Settled(w) = Dug(w, K)
    BY <1>2 DEF FileOk
  <2>2. K \in SUBSET payable'
    OBVIOUS
  <2>3. ASSUME NEW w \in Wallet
        PROVE  /\ RowsOk(file, w) /\ Kept(file, w) \cap Settled(w)' = {}
               /\ Kept(file, w) \cup Due(file, w) \cup Settled(w)' = Dug(w, K)
    BY <1>1, <2>1
  <2> QED BY <2>1, <2>2, <2>3 DEF FileOk
<1> QED BY <1>1, <1>2 DEF PaidUp, Unpaid

\* Where the run is.
LEMMA RunMoves ==
  ASSUME FilesInv, Run = {"auto"}, NEW p \in Run, NEW where, Goto(p, where)
  PROVE  p = "auto" /\ pc'["auto"] = where
BY DEF FilesInv, Goto

\* Every step of a regular run keeps the invariant.
LEMMA FullStep ==
  ASSUME CarryAssumption, Regular, CarryInv, FullInv, [Next]_vars
  PROVE  FullInv'
<1> PICK at : at = pc["auto"]
  OBVIOUS
<1>0. /\ FilesInv /\ OneMiner /\ Run = {"auto"} /\ InOrder
      /\ FileOk(rows) /\ Initial(payable) /\ RunOk(at) /\ PaidInFull
      /\ payable \subseteq payable'
  BY FilesStep DEF Regular, CarryInv, FullInv, Shown
<1>1. ASSUME UNCHANGED <<rows, ledger>>
      PROVE  /\ FileOk(rows)'
             /\ \A w : /\ PaidUp(rows, w) => PaidUp(rows, w)'
                       /\ Unpaid(rows, w) => Unpaid(rows, w)'
  <2> PICK file : file = rows
    OBVIOUS
  <2>1. rows' = file
    BY <1>1
  <2>2. /\ FileOk(file) => FileOk(file)'
        /\ \A w : (PaidUp(file, w) => PaidUp(file, w)') /\ (Unpaid(file, w) => Unpaid(file, w)')
    BY <1>0, <1>1, FileStands
  <2>3. FileOk(file)'
    BY <1>0, <2>2
  <2> QED BY <2>1, <2>2, <2>3
<1>2. ASSUME NEW b \in Block, Confirm(b)
      PROVE  FullInv'
  <2>1. UNCHANGED <<rows, carry, ledger, txs, lock, pc, buf, groups>> /\ payable' = payable \cup {b}
    BY <1>2 DEF Confirm
  <2>2. Initial(payable)'
    BY <1>0, <1>2, <2>1 DEF Confirm, Initial
  <2>3. at = "write" => FileOk(buf["auto"])' /\ \A w \in Wallet : Unpaid(buf["auto"], w)'
    <3> SUFFICES ASSUME at = "write"
                 PROVE  FileOk(buf["auto"])' /\ \A w \in Wallet : Unpaid(buf["auto"], w)'
      OBVIOUS
    <3> PICK file : file = buf["auto"]
      OBVIOUS
    <3>1. FileOk(file) /\ \A w \in Wallet : Unpaid(file, w)
      BY <1>0 DEF RunOk
    <3>2. FileOk(file)' /\ \A w \in Wallet : Unpaid(file, w)'
      BY <1>0, <2>1, <3>1, FileStands
    <3>3. buf'["auto"] = file
      BY <2>1
    <3> QED BY <3>2, <3>3
  <2>4. \A w : CarriedRows(rows, w)' = CarriedRows(rows, w)
    BY <2>1 DEF CarriedRows
  <2>5. \A g \in groups : IsGroup(g, rows) => IsGroup(g, rows)'
    BY <2>1 DEF IsGroup, PendingRows, Due, RowTotal
  <2>6. RunOk(at)'
    BY <1>0, <1>1, <2>1, <2>3, <2>4, <2>5 DEF RunOk
  <2> QED BY <1>0, <1>1, <2>1, <2>2, <2>6 DEF FullInv, Shown, PaidInFull
<1>3. ASSUME NEW p \in Run, Begin(p)
      PROVE  FullInv'
  <2>1. /\ UNCHANGED <<payable, rows, carry, ledger, txs, lock, buf, groups>>
        /\ at = "idle" /\ pc'["auto"] = "carry"
    BY <1>0, <1>3, RunMoves DEF Begin
  <2>2. RunOk("carry")'
    BY <1>0, <1>1, <2>1 DEF RunOk
  <2> QED BY <1>0, <1>1, <2>1, <2>2 DEF FullInv, Shown, PaidInFull
<1>4. ASSUME NEW p \in Run, BuildCarry(p)
      PROVE  FullInv'
  <2>1. /\ UNCHANGED <<payable, rows, ledger, txs, lock, buf, groups>>
        /\ at \in {"carry", "post"} /\ pc'["auto"] \in {"read", "idle"}
    BY <1>0, <1>4, RunMoves DEF BuildCarry
  <2>2. \A w \in Wallet : carry'[w] \in {{}, CarriedRows(rows, w)'}
    BY <1>4, <2>1 DEF BuildCarry, CarriedRows
  <2>3. RunOk("read")' /\ RunOk("idle")'
    BY <1>0, <1>1, <2>1, <2>2 DEF RunOk
  <2> QED BY <1>0, <1>1, <2>1, <2>3 DEF FullInv, Shown, PaidInFull
<1>5. ASSUME NEW p \in Run, SkipGenerate(p)
      PROVE  FALSE
  BY <1>0, <1>5 DEF SkipGenerate, RunOk
<1>6. ASSUME NEW p \in Run, ReadInputs(p)
      PROVE  FullInv'
  <2>1. /\ UNCHANGED <<payable, rows, carry, ledger, txs, groups>>
        /\ at = "read" /\ pc'["auto"] = "write" /\ p = "auto" /\ lock' = "auto"
    BY <1>0, <1>6, RunMoves DEF ReadInputs
  <2>2. PICK failed \in SUBSET payable :
          /\ unread' = unread + Cardinality(failed) /\ unread' <= MaxUnread
          /\ buf' = [buf EXCEPT !["auto"] = Candidates(Readable(failed))]
    BY <1>6, <2>1 DEF ReadInputs
  <2>3. failed = {}
    <3>1. IsFiniteSet(failed)
      BY BlocksAreFinite DEF CarryInv, FilesInv
    <3>2. Cardinality(failed) \in Nat
      BY <3>1, FS_CardinalityType
    <3>3. unread \in Nat /\ MaxUnread = 0
      BY DEF CarryInv, CountersInv, Regular
    <3>4. Cardinality(failed) = 0
      BY <2>2, <3>2, <3>3
    <3> QED BY <3>1, <3>4, FS_EmptySet
  <2>4. Readable(failed) = Ours
    BY <2>3 DEF Readable, Answered, PaysPool, Ours
  <2> PICK file : file = Candidates(Ours)
    OBVIOUS
  <2>5. buf'["auto"] = file
    BY <1>0, <2>2, <2>4 DEF FilesInv
  <2>6. \A w \in Wallet : PaidUp(rows, w) /\ carry[w] \in {{}, CarriedRows(rows, w)}
    BY <1>0, <2>1 DEF RunOk
  <2>7. FileOk(file) /\ \A w \in Wallet : Unpaid(file, w)
    BY <1>0, <2>6, NewRowsAreOk
  <2>8. FileOk(file)' /\ \A w \in Wallet : Unpaid(file, w)'
    BY <1>0, <2>1, <2>7, FileStands
  <2>9. FileOk(buf["auto"])' /\ \A w \in Wallet : Unpaid(buf["auto"], w)'
    BY <2>5, <2>8
  <2>10. \A w \in Wallet : PaidUp(rows, w)'
    BY <1>1, <2>1, <2>6
  <2>11. RunOk("write")'
    BY <2>1, <2>9, <2>10 DEF RunOk
  <2> QED BY <1>0, <1>1, <2>1, <2>11 DEF FullInv, Shown, PaidInFull
<1>7. ASSUME NEW p \in Run, WriteRows(p)
      PROVE  FullInv'
  <2>1. /\ UNCHANGED <<payable, carry, ledger, txs, buf, groups>>
        /\ at = "write" /\ pc'["auto"] = "load" /\ p = "auto" /\ lock' = "free" /\ rows' = buf["auto"]
    BY <1>0, <1>7, RunMoves DEF WriteRows, After
  <2> PICK file : file = buf["auto"]
    OBVIOUS
  <2>2. FileOk(file) /\ \A w \in Wallet : Unpaid(file, w)
    BY <1>0, <2>1 DEF RunOk
  <2>3. FileOk(file)' /\ \A w \in Wallet : Unpaid(file, w)'
    BY <1>0, <2>1, <2>2, FileStands
  <2>4. FileOk(rows)' /\ \A w \in Wallet : Unpaid(rows, w)'
    BY <2>1, <2>3
  <2>5. RunOk("load")'
    BY <2>1, <2>4 DEF RunOk
  <2> QED BY <1>0, <2>1, <2>4, <2>5 DEF FullInv, Shown, PaidInFull
<1>8. CASE Load
  <2>1. /\ UNCHANGED <<payable, rows, carry, ledger, txs, lock, groups>>
        /\ at = "load" /\ pc'["auto"] = "select" /\ buf'["auto"] = rows
    BY <1>0, <1>8, RunMoves DEF Load, FilesInv
  <2>2. RunOk("select")'
    BY <1>0, <1>1, <2>1 DEF RunOk
  <2> QED BY <1>0, <1>1, <2>1, <2>2 DEF FullInv, Shown, PaidInFull
<1>9. CASE Select
  <2>1. /\ UNCHANGED <<payable, rows, carry, ledger, txs, lock, buf>>
        /\ at = "select" /\ pc'["auto"] = "send"
        /\ groups' = {g \in {GroupOf(buf["auto"], w) : w \in Wallet} : Reaches(g.amount)}
    BY <1>0, <1>9, RunMoves DEF Select
  <2>2. groups' = {g \in {GroupOf(rows, w) : w \in Wallet} : Reaches(g.amount)}
    BY <1>0, <2>1 DEF RunOk
  <2>3. \A w \in Wallet : Unpaid(rows, w)
    BY <1>0, <2>1 DEF RunOk
  <2>4. \A w \in Wallet : /\ GroupOf(rows, w).wallet = w /\ IsGroup(GroupOf(rows, w), rows)
                          /\ ~Reaches(GroupOf(rows, w).amount) => PaidUp(rows, w)
    BY <1>0, <2>3, SelectsTheDue
  <2>5. \A g \in groups' : IsGroup(g, rows) /\ g.wallet \in Wallet
    BY <2>2, <2>4
  <2>6. \A w \in Wallet : PaidUp(rows, w) \/ \E g \in groups' : g.wallet = w
    BY <2>2, <2>4
  <2>7. \A g \in groups' : IsGroup(g, rows)' /\ Unpaid(rows, g.wallet)'
    <3>1. \A g \in groups' : IsGroup(g, rows)'
      BY <2>1, <2>5 DEF IsGroup, PendingRows, Due, RowTotal
    <3> QED BY <1>1, <2>1, <2>3, <2>5, <3>1
  <2>8. \A w \in Wallet : PaidUp(rows, w)' \/ \E g \in groups' : g.wallet = w
    BY <1>1, <2>1, <2>6
  <2>9. lock' = "free"
    BY <1>0, <2>1 DEF RunOk
  <2>10. RunOk("send")'
    BY <2>7, <2>8, <2>9 DEF RunOk
  <2> QED BY <1>0, <1>1, <2>1, <2>10 DEF FullInv, Shown, PaidInFull
<1>10. CASE Finish
  <2>1. /\ UNCHANGED <<payable, rows, carry, ledger, txs, lock, buf, groups>>
        /\ at = "send" /\ pc'["auto"] = "post" /\ groups = {}
    BY <1>0, <1>10, RunMoves DEF Finish
  <2>2. \A w \in Wallet : PaidUp(rows, w)
    BY <1>0, <2>1 DEF RunOk
  <2>3. RunOk("post")'
    BY <1>0, <1>1, <2>1, <2>2 DEF RunOk
  <2> QED BY <1>0, <1>1, <2>1, <2>3 DEF FullInv, Shown, PaidInFull
<1>11. ASSUME NEW g \in groups, pc["auto"] = "send"
       PROVE  /\ g.wallet \in Wallet /\ IsGroup(g, rows) /\ Unpaid(rows, g.wallet) /\ lock = "free"
              /\ Admissible(g)
              /\ Transfer(g, g.carried) /\ UNCHANGED <<payable, rows>> =>
                   /\ FileOk(rows)' /\ PaidInFull' /\ PaidUp(rows, g.wallet)'
                   /\ \A w \in Wallet : /\ PaidUp(rows, w) => PaidUp(rows, w)'
                                        /\ w # g.wallet /\ Unpaid(rows, w) => Unpaid(rows, w)'
  <2>1. IsGroup(g, rows) /\ Unpaid(rows, g.wallet) /\ lock = "free" /\ g.wallet \in Wallet
    BY <1>0, <1>11 DEF RunOk, FilesInv, Group
  <2> QED BY <1>0, <2>1, SendPays
<1>12. ASSUME NEW g \in groups, Pay(g)
       PROVE  FullInv'
  <2>1. /\ Transfer(g, g.carried) /\ UNCHANGED <<payable, rows, lock, pc, buf>>
        /\ groups' = groups \ {g} /\ at = "send"
    BY <1>12 DEF Pay, Transfer
  <2>2. /\ g.wallet \in Wallet /\ IsGroup(g, rows) /\ Unpaid(rows, g.wallet) /\ lock = "free"
        /\ FileOk(rows)' /\ PaidInFull' /\ PaidUp(rows, g.wallet)'
        /\ \A w \in Wallet : /\ PaidUp(rows, w) => PaidUp(rows, w)'
                             /\ w # g.wallet /\ Unpaid(rows, w) => Unpaid(rows, w)'
    BY <1>11, <2>1
  <2>3. ASSUME NEW h \in groups, h.wallet = g.wallet PROVE h = g
    <3>1. IsGroup(h, rows) /\ h \in Group /\ g \in Group
      BY <1>11, <2>1, <1>0 DEF FilesInv
    <3>2. h.sources = g.sources /\ h.carried = g.carried /\ h.amount = g.amount
      BY <2>2, <2>3, <3>1 DEF IsGroup
    <3> QED BY <2>3, <3>1, <3>2 DEF Group
  <2>4. ASSUME NEW h \in groups' PROVE IsGroup(h, rows)' /\ Unpaid(rows, h.wallet)'
    <3>1. h \in groups /\ h.wallet # g.wallet
      BY <2>1, <2>3
    <3>2. IsGroup(h, rows) /\ Unpaid(rows, h.wallet) /\ h.wallet \in Wallet
      BY <1>11, <2>1, <3>1
    <3>3. IsGroup(h, rows)'
      BY <2>1, <3>2 DEF IsGroup, PendingRows, Due, RowTotal
    <3> QED BY <2>2, <3>1, <3>2, <3>3
  <2>5. ASSUME NEW w \in Wallet PROVE PaidUp(rows, w)' \/ \E h \in groups' : h.wallet = w
    <3>1. PaidUp(rows, w) \/ \E h \in groups : h.wallet = w
      BY <1>0, <2>1 DEF RunOk
    <3> QED BY <2>1, <2>2, <3>1
  <2>6. RunOk("send")'
    BY <2>1, <2>2, <2>4, <2>5 DEF RunOk
  <2> QED BY <1>0, <2>1, <2>2, <2>6 DEF FullInv, Shown
<1>13. ASSUME NEW g \in groups, PayAndDie(g)
       PROVE  FullInv'
  <2>1. /\ Transfer(g, g.carried) /\ UNCHANGED <<payable, rows, lock>>
        /\ at = "send" /\ pc'["auto"] = "idle" /\ crashes < MaxCrashes
    BY <1>0, <1>13, RunMoves DEF PayAndDie, Transfer
  <2>2. /\ g.wallet \in Wallet /\ lock = "free"
        /\ FileOk(rows)' /\ PaidInFull' /\ PaidUp(rows, g.wallet)'
    BY <1>11, <2>1
  <2>3. \A v, w \in Wallet : v = w
    BY <2>1 DEF Regular, CarryInv, CountersInv
  <2>4. \A w \in Wallet : PaidUp(rows, w)'
    BY <2>2, <2>3
  <2>5. RunOk("idle")'
    BY <2>1, <2>2, <2>4 DEF RunOk
  <2> QED BY <1>0, <2>1, <2>2, <2>5 DEF FullInv, Shown
<1>14. ASSUME NEW g \in groups, PayTimedOut(g) \/ Rejected(g) \/ Refuse(g)
       PROVE  FALSE
  <2>1. ~PayTimedOut(g) /\ ~Refuse(g)
    BY DEF PayTimedOut, Refuse, Regular, CarryInv, CountersInv
  <2> QED BY <1>11, <1>14, <2>1 DEF Rejected
<1>15. CASE UNCHANGED vars
  <2>1. UNCHANGED <<payable, rows, carry, ledger, txs, lock, pc, buf, groups>>
    BY <1>15 DEF vars
  <2>2. at = "write" => FileOk(buf["auto"])' /\ \A w \in Wallet : Unpaid(buf["auto"], w)'
    <3>1. at = "write" => FileOk(buf["auto"]) /\ \A w \in Wallet : Unpaid(buf["auto"], w)
      BY <1>0 DEF RunOk
    <3> PICK file : file = buf["auto"]
      OBVIOUS
    <3>2. (FileOk(file) => FileOk(file)') /\ \A w : Unpaid(file, w) => Unpaid(file, w)'
      BY <1>0, <2>1, FileStands
    <3>3. buf'["auto"] = file
      BY <2>1
    <3> QED BY <3>1, <3>2, <3>3
  <2>3. \A w : CarriedRows(rows, w)' = CarriedRows(rows, w)
    BY <2>1 DEF CarriedRows
  <2>4. \A g \in groups : IsGroup(g, rows) => IsGroup(g, rows)'
    BY <2>1 DEF IsGroup, PendingRows, Due, RowTotal
  <2>5. RunOk(at)'
    BY <1>0, <1>1, <2>1, <2>2, <2>3, <2>4 DEF RunOk
  <2> QED BY <1>0, <1>1, <2>1, <2>5 DEF FullInv, Shown, PaidInFull
<1> QED
  BY <1>2, <1>3, <1>4, <1>5, <1>6, <1>7, <1>8, <1>9, <1>10, <1>12, <1>13, <1>14, <1>15
     DEF Next, Generate
\* Nothing has a row at the start.
LEMMA FullStart ==
  ASSUME CarryAssumption, Regular, Init
  PROVE  FullInv
<1>1. \A w \in Wallet : /\ PendingRows(rows, w) = {} /\ CarriedRows(rows, w) = {}
                        /\ \A b \in Block : rows[b][w].carried = {}
  BY DEF Init, PendingRows, CarriedRows, NoRow
<1>2. \A w \in Wallet : Due(rows, w) = {} /\ Kept(rows, w) = {} /\ Settled(w) = {}
  BY <1>1 DEF Due, Kept, Settled, Init
<1>3. \A w \in Wallet : ~Reaches(Amount(w, Kept(rows, w)))
  <2>1. \A w : Amount(w, {}) = 0
    BY SumSplits, FS_EmptySet DEF Amount
  <2>2. ~Reaches(0)
    BY DEF Reaches, CarryAssumption
  <2> QED BY <1>2, <2>1, <2>2
<1>4. \A w \in Wallet : RowsOk(rows, w)
  BY <1>1, <1>3 DEF RowsOk
<1>5. payable = {} /\ \A w \in Wallet : Dug(w, {}) = {}
  BY DEF Init, Dug
<1>6. Initial({}) /\ FileOk(rows)
  BY <1>2, <1>4, <1>5 DEF FileOk, Initial
<1>7. pc["auto"] = "idle" /\ lock = "free"
  BY DEF Init, Regular
<1>8. RunOk("idle")
  BY <1>2, <1>7 DEF RunOk, PaidUp
<1> QED BY <1>5, <1>6, <1>7, <1>8 DEF FullInv, Shown, PaidInFull, Init

\* In a regular run every payment is worth exactly the blocks it marks as paid, whatever
\* their rewards, coinbases that do not pay the pool, candidates without a height, and, with
\* one wallet, deaths between a payment and its clean-up.
THEOREM PaysInFull == ASSUME Regular PROVE Spec => []PaidInFull
<1>1. Init => CarryInv /\ FullInv
  BY CarryStart, FullStart, CarryAssumption
<1>2. CarryInv /\ FullInv /\ [Next]_vars => CarryInv' /\ FullInv'
  BY CarryStays, FullStep, CarryAssumption
<1>3. FullInv => PaidInFull
  BY DEF FullInv
<1> QED
  BY <1>1, <1>2, <1>3, PTL DEF Spec
-----------------------------------------------------------------------------
(* Payments do not exceed the rewards they come from *)

\* Sums of functions that agree.
LEMMA SumsAgree ==
  ASSUME NEW f, NEW g, NEW S, IsFiniteSet(S), \A x \in S : f[x] \in Nat /\ f[x] = g[x]
  PROVE  SumFunctionOnSet(f, S) = SumFunctionOnSet(g, S)
<1>1. \A x \in S : f[x] \in Nat /\ g[x] \in Nat /\ f[x] <= g[x] /\ g[x] <= f[x]
  OBVIOUS
<1>2. SumFunctionOnSet(f, S) <= SumFunctionOnSet(g, S)
  BY <1>1, SumIsMonotone
<1>3. SumFunctionOnSet(g, S) <= SumFunctionOnSet(f, S)
  BY <1>1, SumIsMonotone
<1>4. SumFunctionOnSet(f, S) \in Nat /\ SumFunctionOnSet(g, S) \in Nat
  BY <1>1, SumIsNat
<1> QED BY <1>2, <1>3, <1>4

AmountsOf(T) == [t \in T |-> t.amount]
Worths(B) == [w \in Wallet |-> Amount(w, B[w])]

\* What is paid out, and the rewards, as sums of functions.
LEMMA PaidOutIsSum ==
  ASSUME IsFiniteSet(txs)
  PROVE  PaidOut = SumFunctionOnSet(AmountsOf(txs), txs)
<1> PICK f : f = AmountsOf(txs)
  OBVIOUS
<1> DEFINE Good(g) == g = [s \in SUBSET txs |-> IF s = {} THEN 0
                             ELSE First(s).amount + g[s \ {First(s)}]]
<1>1. \A s \in SUBSET txs : s # {} => f[First(s)] = First(s).amount
  BY DEF AmountsOf, First
<1>2. \A g : Good(g) <=> Adds(g, f, txs)
  <2> TAKE g
  <2>1. [s \in SUBSET txs |-> IF s = {} THEN 0 ELSE First(s).amount + g[s \ {First(s)}]]
          = [s \in SUBSET txs |-> IF s = {} THEN 0 ELSE f[First(s)] + g[s \ {First(s)}]]
    BY <1>1
  <2> QED BY <2>1 DEF Adds
<1>3. \E g : Adds(g, f, txs)
  BY AddsExists
<1>4. PaidOut = (CHOOSE g : Good(g))[txs]
  BY DEF PaidOut, MapThenSumSet, MapThenFoldSet, First
<1> HIDE DEF Good
<1>5. PICK g : Adds(g, f, txs) /\ PaidOut = g[txs]
  BY <1>2, <1>3, <1>4
<1>6. PICK h : Adds(h, f, txs) /\ SumFunctionOnSet(f, txs) = h[txs]
  BY <1>3, SumIs
<1>7. g[txs] = h[txs]
  <2>1. txs \in SUBSET txs
    OBVIOUS
  <2> QED BY <1>5, <1>6, <2>1, AddsUnique
<1> QED BY <1>5, <1>6, <1>7

\* The rewards of all wallets, likewise.
LEMMA RewardsAreSum ==
  ASSUME IsFiniteSet(Wallet)
  PROVE  Rewards = SumFunctionOnSet(Worths([w \in Wallet |-> Ours]), Wallet)
<1> PICK f : f = Worths([w \in Wallet |-> Ours])
  OBVIOUS
<1> DEFINE Good(g) == g = [s \in SUBSET Wallet |-> IF s = {} THEN 0
                             ELSE Amount(First(s), Ours) + g[s \ {First(s)}]]
<1>1. \A s \in SUBSET Wallet : s # {} => f[First(s)] = Amount(First(s), Ours)
  BY DEF Worths, First
<1>2. \A g : Good(g) <=> Adds(g, f, Wallet)
  <2> TAKE g
  <2>1. [s \in SUBSET Wallet |-> IF s = {} THEN 0 ELSE Amount(First(s), Ours) + g[s \ {First(s)}]]
          = [s \in SUBSET Wallet |-> IF s = {} THEN 0 ELSE f[First(s)] + g[s \ {First(s)}]]
    BY <1>1
  <2> QED BY <2>1 DEF Adds
<1>3. \E g : Adds(g, f, Wallet)
  BY AddsExists
<1>4. Rewards = (CHOOSE g : Good(g))[Wallet]
  BY DEF Rewards, MapThenSumSet, MapThenFoldSet, First
<1> HIDE DEF Good
<1>5. PICK g : Adds(g, f, Wallet) /\ Rewards = g[Wallet]
  BY <1>2, <1>3, <1>4
<1>6. PICK h : Adds(h, f, Wallet) /\ SumFunctionOnSet(f, Wallet) = h[Wallet]
  BY <1>3, SumIs
<1>7. g[Wallet] = h[Wallet]
  <2>1. Wallet \in SUBSET Wallet
    OBVIOUS
  <2> QED BY <1>5, <1>6, <2>1, AddsUnique
<1> QED BY <1>5, <1>6, <1>7

\* The payments are told apart, and are together worth the blocks that are settled.
MoneyInv ==
  /\ IsFiniteSet(txs) /\ \A t \in txs : t.n \in Nat /\ t.n < Cardinality(txs)
  /\ PaidOut = SumFunctionOnSet(Worths([w \in Wallet |-> Settled(w)]), Wallet)

\* A send pays what its group is worth, and settles that.
LEMMA MoneyMoves ==
  ASSUME CarryAssumption, IsFiniteSet(Wallet), FilesInv, FileOk(rows), MoneyInv,
         PaymentsInv, NEW g \in groups, IsGroup(g, rows), Unpaid(rows, g.wallet),
         Transfer(g, g.carried)
  PROVE  MoneyInv'
<1> PICK w \in Wallet : w = g.wallet
  BY DEF FilesInv, Group
<1> PICK D : D = Due(rows, w)
  OBVIOUS
<1>1. /\ g.sources = PendingRows(rows, w) /\ g.carried = D
      /\ g.amount = RowTotal(rows, w, g.sources)
  BY DEF IsGroup
<1>2. rows \in File /\ RowsOk(rows, w)
  BY DEF FilesInv, GoodFile, FileOk
<1>3. g.sources \subseteq D
  BY <1>1, <1>2 DEF RowsOk, Due
<1>4. g.amount = Amount(w, D)
  BY <1>1, <1>2, RowsAddUp
<1>5. D \in SUBSET Block
  BY <1>2 DEF Due, PendingRows, File, Row
<1>6. \A v \in Wallet : Settled(v) \in SUBSET Block
  BY DEF FileOk, Dug, FilesInv
<1>7. \A v \in Wallet : Settled(v)' = IF v = w THEN Settled(v) \cup D ELSE Settled(v)
  <2>1. ledger' = ledger \cup {Entry(g, g.carried)}
    BY DEF Transfer
  <2> QED BY <1>1, <1>3, <2>1, LineSettles
<1>8. PICK new : /\ txs' = txs \cup {new}
                 /\ new.n = Cardinality(txs) /\ new.amount = g.amount
  <2> DEFINE x == [n |-> Cardinality(txs), wallet |-> g.wallet, amount |-> g.amount,
                   sources |-> g.sources, carried |-> g.carried]
  <2>1. txs' = txs \cup {x}
    BY DEF Transfer
  <2>2. x.n = Cardinality(txs) /\ x.amount = g.amount
    OBVIOUS
  <2> HIDE DEF x
  <2> QED BY <2>1, <2>2
<1> PICK old : old = txs
  OBVIOUS
<1>9. /\ IsFiniteSet(old) /\ Cardinality(old) \in Nat /\ new \notin old
      /\ \A t \in old : t.n \in Nat /\ t.n < Cardinality(old)
  <2>1. Cardinality(old) \in Nat
    BY FS_CardinalityType DEF MoneyInv
  <2>2. IsFiniteSet(old) /\ \A t \in old : t.n \in Nat /\ t.n < Cardinality(old)
    BY DEF MoneyInv
  <2>3. new \in old => Cardinality(old) < Cardinality(old)
    BY <1>8, <2>2
  <2> QED BY <2>1, <2>2, <2>3
<1> PICK all : all = txs'
  OBVIOUS
<1>10. /\ IsFiniteSet(all) /\ all = old \cup {new} /\ Cardinality(all) = Cardinality(old) + 1
       /\ all \ {new} = old /\ new \in all
  <2>1. all = old \cup {new} /\ all \ {new} = old /\ new \in all
    BY <1>8, <1>9
  <2>2. IsFiniteSet(old \cup {new}) /\ Cardinality(old \cup {new}) = Cardinality(old) + 1
    BY <1>9, FS_AddElement
  <2> QED BY <2>1, <2>2
<1>11. \A t \in all : t.n \in Nat /\ t.n < Cardinality(all)
  <2>1. \A t \in old : t.n \in Nat /\ t.n < Cardinality(old) + 1
    BY <1>9
  <2>2. new.n \in Nat /\ new.n < Cardinality(old) + 1
    BY <1>8, <1>9
  <2> QED BY <1>10, <2>1, <2>2
<1> DEFINE amounts == AmountsOf(all)
           was == Worths([v \in Wallet |-> Settled(v)])
           is == Worths([v \in Wallet |-> Settled(v)'])
<1>12. Amount(w, D) \in Nat /\ \A v \in Wallet : was[v] \in Nat
  BY <1>5, <1>6, AmountIsNat DEF Worths
<1>13. \A v \in Wallet : is[v] = IF v = w THEN was[v] + Amount(w, D) ELSE was[v]
  <2> SUFFICES ASSUME NEW v \in Wallet
               PROVE  is[v] = IF v = w THEN was[v] + Amount(w, D) ELSE was[v]
    OBVIOUS
  <2>1. is[v] = Amount(v, Settled(v)') /\ was[v] = Amount(v, Settled(v))
    BY DEF Worths
  <2>2. CASE v = w
    <3>1. Settled(w)' = Settled(w) \cup D /\ Settled(w) \cap D = {}
      BY <1>7 DEF Unpaid
    <3>2. Amount(w, Settled(w) \cup D) = Amount(w, Settled(w)) + Amount(w, D)
      BY <1>5, <1>6, <3>1, AmountOfBoth
    <3> QED BY <2>1, <2>2, <3>1, <3>2
  <2>3. CASE v # w
    BY <1>7, <2>1, <2>3
  <2> QED BY <2>2, <2>3
<1> HIDE DEF was, is
<1>14. \A v \in Wallet : is[v] \in Nat
  BY <1>12, <1>13
<1>15. SumFunctionOnSet(is, Wallet) = Amount(w, D) + SumFunctionOnSet(was, Wallet)
  <2> PICK rest : rest = Wallet \ {w}
    OBVIOUS
  <2>1. IsFiniteSet(rest) /\ rest \subseteq Wallet
    BY FS_Subset
  <2>2. SumFunctionOnSet(is, Wallet) = is[w] + SumFunctionOnSet(is, rest)
    BY <1>14, SumOfOneMore
  <2>3. SumFunctionOnSet(was, Wallet) = was[w] + SumFunctionOnSet(was, rest)
    BY <1>12, SumOfOneMore
  <2>4. \A v \in rest : was[v] \in Nat /\ was[v] = is[v]
    BY <1>12, <1>13
  <2>5. SumFunctionOnSet(was, rest) = SumFunctionOnSet(is, rest)
    BY ONLY <2>1, <2>4, SumsAgree
  <2>6. SumFunctionOnSet(was, rest) \in Nat
    BY <2>1, <2>4, SumIsNat
  <2>7. is[w] = was[w] + Amount(w, D) /\ was[w] \in Nat
    BY <1>12, <1>13
  <2> QED BY <1>12, <2>2, <2>3, <2>5, <2>6, <2>7
<1>16. (\A t \in old : t.amount \in Nat) /\ SumFunctionOnSet(amounts, all) = Amount(w, D) + PaidOut
  <2>0. \A t \in old : t.amount \in Nat
    BY DEF PaymentsInv
  <2>1. \A t \in all : amounts[t] = t.amount /\ amounts[t] \in Nat
    BY <1>4, <1>8, <1>10, <1>12, <2>0 DEF AmountsOf
  <2>2. SumFunctionOnSet(amounts, all) = amounts[new] + SumFunctionOnSet(amounts, old)
    <3> HIDE DEF amounts
    <3>1. SumFunctionOnSet(amounts, all) = amounts[new] + SumFunctionOnSet(amounts, all \ {new})
      BY ONLY <1>10, <2>1, SumOfOneMore
    <3> QED BY <1>10, <3>1
  <2> PICK f : f = AmountsOf(old)
    OBVIOUS
  <2>3. \A t \in old : f[t] \in Nat /\ f[t] = amounts[t]
    BY <1>10, <2>1 DEF AmountsOf
  <2>4. SumFunctionOnSet(f, old) = SumFunctionOnSet(amounts, old)
    <3> HIDE DEF amounts
    <3> QED BY ONLY <1>9, <2>3, SumsAgree
  <2>5. PaidOut = SumFunctionOnSet(f, old)
    BY PaidOutIsSum DEF MoneyInv
  <2>6. amounts[new] = Amount(w, D)
    BY <1>4, <1>8, <1>10, <2>1
  <2> QED BY <2>0, <2>2, <2>4, <2>5, <2>6
<1>17. PaidOut' = SumFunctionOnSet(amounts, all)
  <2>1. IsFiniteSet(txs)'
    BY <1>10
  <2>2. (IsFiniteSet(txs) => PaidOut = SumFunctionOnSet(AmountsOf(txs), txs))'
    BY PaidOutIsSum, PTL
  <2> QED BY <2>1, <2>2
<1>18. PaidOut = SumFunctionOnSet(was, Wallet)
  BY DEF MoneyInv, was
<1>19. PaidOut' = SumFunctionOnSet(is, Wallet)
  BY <1>15, <1>16, <1>17, <1>18
<1> QED BY <1>10, <1>11, <1>19 DEF MoneyInv, is

\* In a regular run the payments and the settled blocks stay worth the same.
LEMMA MoneyStep ==
  ASSUME CarryAssumption, Regular, IsFiniteSet(Wallet), CarryInv, FullInv, MoneyInv, [Next]_vars
  PROVE  MoneyInv'
<1>1. ASSUME UNCHANGED <<ledger, txs>> PROVE MoneyInv'
  <2>1. \A w : Settled(w)' = Settled(w)
    BY <1>1 DEF Settled
  <2>2. PaidOut' = PaidOut
    BY <1>1 DEF PaidOut, MapThenSumSet, MapThenFoldSet
  <2> QED BY <1>1, <2>1, <2>2 DEF MoneyInv, Worths
<1>2. ASSUME NEW b \in Block, Confirm(b) PROVE MoneyInv'
  BY <1>1, <1>2 DEF Confirm
<1>3. ASSUME NEW p \in Run, Generate(p) PROVE MoneyInv'
  BY <1>1, <1>3 DEF Generate, Begin, BuildCarry, SkipGenerate, ReadInputs, WriteRows
<1>4. CASE Load \/ Select \/ Finish
  BY <1>1, <1>4 DEF Load, Select, Finish
<1>5. ASSUME NEW g \in groups, Pay(g) \/ PayAndDie(g) PROVE MoneyInv'
  <2>1. Transfer(g, g.carried) /\ pc["auto"] = "send"
    BY <1>5 DEF Pay, PayAndDie, Transfer
  <2>2. IsGroup(g, rows) /\ Unpaid(rows, g.wallet)
    BY <2>1 DEF FullInv, RunOk
  <2>3. FilesInv /\ PaymentsInv /\ FileOk(rows)
    BY DEF CarryInv, FullInv, Shown
  <2> QED BY <2>1, <2>2, <2>3, MoneyMoves
<1>6. ASSUME NEW g \in groups, PayTimedOut(g) PROVE FALSE
  BY <1>6 DEF PayTimedOut, Regular, CarryInv, CountersInv
<1>7. ASSUME NEW g \in groups, Rejected(g) \/ Refuse(g) PROVE MoneyInv'
  BY <1>1, <1>7 DEF Rejected, Refuse
<1>8. CASE UNCHANGED vars
  BY <1>1, <1>8 DEF vars
<1> QED BY <1>2, <1>3, <1>4, <1>5, <1>6, <1>7, <1>8 DEF Next

\* Settled blocks are confirmed and paid the pool, so they are worth no more than those.
LEMMA SettledIsEarned ==
  ASSUME CarryAssumption, IsFiniteSet(Wallet), CarryInv, FullInv, MoneyInv
  PROVE  Conserved
<1> PICK was : was = Worths([w \in Wallet |-> Settled(w)])
  OBVIOUS
<1> PICK ours : ours = Worths([w \in Wallet |-> Ours])
  OBVIOUS
<1>1. ASSUME NEW w \in Wallet
      PROVE  was[w] \in Nat /\ ours[w] \in Nat /\ was[w] <= ours[w]
  <2>1. was[w] = Amount(w, Settled(w)) /\ ours[w] = Amount(w, Ours)
    BY DEF Worths
  <2>2. Settled(w) \subseteq Ours /\ Ours \in SUBSET Block
    BY DEF FullInv, Shown, FileOk, Dug, Ours, CarryInv, FilesInv
  <2> PICK S : S = Settled(w)
    OBVIOUS
  <2> PICK T : T = Ours \ S
    OBVIOUS
  <2>3. S \in SUBSET Block /\ T \in SUBSET Block /\ S \cap T = {} /\ S \cup T = Ours
    BY <2>2
  <2>4. Amount(w, S \cup T) = Amount(w, S) + Amount(w, T)
    BY <2>3, AmountOfBoth
  <2>5. Amount(w, S) \in Nat /\ Amount(w, T) \in Nat
    BY <2>3, AmountIsNat
  <2>6. was[w] = Amount(w, S) /\ ours[w] = Amount(w, S) + Amount(w, T)
    BY <2>1, <2>3, <2>4
  <2> QED BY <2>5, <2>6
<1>2. SumFunctionOnSet(was, Wallet) <= SumFunctionOnSet(ours, Wallet)
  BY <1>1, SumIsMonotone
<1>3. PaidOut = SumFunctionOnSet(was, Wallet) /\ Rewards = SumFunctionOnSet(ours, Wallet)
  BY RewardsAreSum DEF MoneyInv
<1> QED BY <1>2, <1>3 DEF Conserved

\* Nothing is paid at the start.
LEMMA MoneyStart ==
  ASSUME CarryAssumption, IsFiniteSet(Wallet), Init
  PROVE  MoneyInv
<1>1. txs = {} /\ IsFiniteSet(txs)
  BY FS_EmptySet DEF Init
<1>2. \A w \in Wallet : Settled(w) = {}
  BY DEF Settled, Init
<1>3. \A w : Amount(w, {}) = 0
  BY SumSplits, FS_EmptySet DEF Amount
<1> PICK was : was = Worths([w \in Wallet |-> Settled(w)])
  OBVIOUS
<1>4. \A w \in Wallet : was[w] = 0
  BY <1>2, <1>3 DEF Worths
<1>5. SumFunctionOnSet(was, Wallet) = 0
  <2> DEFINE G == {T \in SUBSET Wallet : SumFunctionOnSet(was, T) = 0}
  <2>1. ASSUME NEW T \in SUBSET Wallet, \A U \in SUBSET T : U # T => U \in G
        PROVE  T \in G
    <3>1. IsFiniteSet(T)
      BY FS_Subset
    <3>2. SumFunctionOnSet(was, T) = IF T = {} THEN 0
                                     ELSE was[First(T)] + SumFunctionOnSet(was, T \ {First(T)})
      BY <3>1, SumSplits
    <3>3. CASE T = {}
      BY <3>2, <3>3
    <3>4. CASE T # {}
      <4>1. First(T) \in T /\ First(T) \in Wallet
        BY <3>4 DEF First
      <4>2. SumFunctionOnSet(was, T \ {First(T)}) = 0
        BY <2>1, <4>1
      <4>3. was[First(T)] = 0
        BY <1>4, <4>1
      <4> QED BY <3>2, <3>4, <4>2, <4>3
    <3> QED BY <3>3, <3>4
  <2>2. SUBSET Wallet \subseteq G
    <3> HIDE DEF G
    <3> QED BY <2>1, SetInduction
  <2>3. Wallet \in G
    BY <2>2
  <2> QED BY <2>3
<1>6. PaidOut = 0
  <2>1. PaidOut = SumFunctionOnSet(AmountsOf(txs), txs)
    BY <1>1, PaidOutIsSum
  <2> QED BY <1>1, <2>1, SumSplits
<1> QED BY <1>1, <1>5, <1>6 DEF MoneyInv

\* In a regular run the payments never exceed the rewards of the confirmed blocks, which is
\* what payout_value_conservation checks; where miners share a block, or a send may be put
\* off, they can.
THEOREM PaysNoMoreThanEarned ==
  ASSUME Regular, IsFiniteSet(Wallet) PROVE Spec => []Conserved
<1>1. Init => CarryInv /\ FullInv /\ MoneyInv
  BY CarryStart, FullStart, MoneyStart, CarryAssumption
<1>2. CarryInv /\ FullInv /\ MoneyInv /\ [Next]_vars => CarryInv' /\ FullInv' /\ MoneyInv'
  BY CarryStays, FullStep, MoneyStep, CarryAssumption
<1>3. CarryInv /\ FullInv /\ MoneyInv => Conserved
  BY SettledIsEarned, CarryAssumption
<1> QED
  BY <1>1, <1>2, <1>3, PTL DEF Spec

=============================================================================
