----------------------------- MODULE SoloProofs -----------------------------
(***************************************************************************)
(* That what is paid is buried, for any number of SOLO blocks, any         *)
(* reorganisations, lost snapshots and failed calls, and however the two   *)
(* services overwrite each other's file.                                   *)
(*                                                                         *)
(* A record counts confirmations by lengths of chains that were once the   *)
(* active one, and the active chain only grows longer: so a record never   *)
(* counts more of them than the block would have if it were still there    *)
(* (RecordOk).  That it is still there is known of a block which a lookup  *)
(* has found and which has not left the chain since (RowOk), and a block   *)
(* that was found is not looked up again, so that its row stays.           *)
(***************************************************************************)
EXTENDS Solo, SequenceTheorems, TLAPS

Chains == Seq(Other \cup Block)
Kinds == {"absent", "unchecked", "match", "none", "error"}
Counting == {"chain_match_found", "immature", "confirmed"}
Statuses == {"absent", "unsettled", "orphan"} \cup Counting
Records == [status : Statuses, height : 0 .. MaxHeight, conf : 0 .. MaxHeight]
Steps == {"idle", "look", "merged", "mature", "matured", "build", "send"}

ChainInv ==
  /\ chain \in Chains /\ Len(chain) <= MaxHeight
  /\ snap \in Chains /\ Len(snap) <= Len(chain)
  /\ Known \subseteq Block
  /\ \A b \in Known : parent[b] \in Chains /\ Len(parent[b]) < MaxHeight

\* A block stands on the chain it was mined on.
Placed ==
  \A i \in 1 .. Len(chain) :
    chain[i] \in Block => chain[i] \in Known /\ Len(parent[chain[i]]) = i - 1

\* A row that has its block on the chain is right, or the block has left the chain since.
RowOk(b) ==
  /\ row[b] \in [kind : Kinds, height : 0 .. MaxHeight]
  /\ row[b].kind = "absent" <=> b \notin Known
  /\ row[b].height \in {0, IF b \in Known THEN Height(b) ELSE 0}
  /\ row[b].kind = "match" =>
       /\ row[b].height = Height(b) /\ Height(b) <= Len(chain)
       /\ b \in left \/ OnChain(b)
       /\ b \notin todo

\* A record counts no more confirmations than the chain's height gives it.
RecordOk(b, rec) ==
  /\ rec.height # 0 => b \in Known
  /\ rec.status \in Counting =>
       /\ row[b].kind = "match" /\ rec.height = Height(b)
       /\ rec.conf + Height(b) <= Len(chain) + 1
  /\ rec.status = "confirmed" => rec.conf >= Depth

FileOk(file) == file \in [Block -> Records] /\ \A b \in Block : RecordOk(b, file[b])

\* A block that was found, and that is Depth deep if it is still where it was.
Deep(b) == b \in Known /\ row[b].kind = "match" /\ Len(chain) + 1 >= Height(b) + Depth

WorkInv ==
  /\ answered \cup fresh \cup todo \cup paid \cup left \subseteq Known
  /\ at \in [Service -> Steps]
  /\ DOMAIN row = Block /\ row = [b \in Block |-> row[b]]
  /\ DOMAIN copy = Service /\ copy = [s \in Service |-> copy[s]]

OffersInv ==
  \A o \in offers : o.block \in Known /\ (o.status = "confirmed" => Deep(o.block))

SoloInv ==
  /\ ChainInv /\ Placed /\ WorkInv
  /\ \A b \in Block : RowOk(b)
  /\ FileOk(accepted) /\ \A s \in Service : FileOk(copy[s])
  /\ OffersInv
  /\ \A b \in paid : Deep(b)

-----------------------------------------------------------------------------
(* What follows from the invariant *)

LEMMA InvIsTyped ==
  ASSUME SoloAssumption, SoloInv
  PROVE  TypeOK
<1>1. [Block -> Records] = File
  BY DEF Records, Statuses, Counting, File
<1>2. accepted \in File /\ \A s \in Service : copy[s] \in File
  BY <1>1 DEF SoloInv, FileOk
<1>3. copy \in [Service -> File]
  BY <1>2 DEF SoloInv, WorkInv
<1>4. {r.block : r \in offers} \subseteq Known
  BY DEF SoloInv, OffersInv
<1> QED
  BY <1>2, <1>3, <1>4 DEF SoloInv, ChainInv, WorkInv, RowOk, TypeOK, Chains, Steps

LEMMA InvIsBuried ==
  ASSUME SoloAssumption, SoloInv
  PROVE  PaidIsBuried
<1> SUFFICES ASSUME NEW b \in paid \ left
             PROVE  Confirmations(b) >= Depth
  BY DEF PaidIsBuried
<1>1. b \in Known /\ b \in Block /\ Deep(b) /\ RowOk(b)
  BY DEF SoloInv, WorkInv, ChainInv
<1>2. OnChain(b)
  BY <1>1 DEF RowOk, Deep
<1>3. Len(chain) \in Nat /\ Len(parent[b]) \in Nat /\ Depth \in Nat
  BY <1>1, LenProperties DEF SoloInv, ChainInv, Chains, SoloAssumption
<1> QED
  BY <1>1, <1>2, <1>3 DEF Confirmations, Deep, Height

-----------------------------------------------------------------------------
(* What the scripts compute *)

LEMMA NoRecordOk ==
  ASSUME SoloAssumption
  PROVE  FileOk(NoFile)
  BY DEF FileOk, NoFile, NoRecord, Records, Statuses, RecordOk, Counting, SoloAssumption

LEMMA RecordRight ==
  ASSUME SoloAssumption, SoloInv, NEW b \in Block
  PROVE  Record(b, row[b]) \in Records /\ RecordOk(b, Record(b, row[b]))
<1>1. /\ RowOk(b) /\ Len(snap) \in Nat /\ Len(chain) \in Nat /\ Len(snap) <= Len(chain)
      /\ Len(chain) <= MaxHeight /\ MaxHeight \in Nat /\ Depth \in Nat /\ Depth > 0
  BY LenProperties DEF SoloInv, ChainInv, Chains, SoloAssumption
<1>h. row[b].height # 0 => b \in Known
  BY <1>1 DEF RowOk
<1>2. CASE row[b].kind # "match"
  BY <1>1, <1>2, <1>h DEF RowOk, Kinds, Record, NoRecord, Records, Statuses, RecordOk, Counting
<1>3. CASE row[b].kind = "match"
  <2> DEFINE conf == IF Len(snap) >= row[b].height THEN Len(snap) - row[b].height + 1 ELSE 0
  <2>1. b \in Known /\ Len(parent[b]) \in Nat
    BY <1>1, <1>3, LenProperties DEF RowOk, SoloInv, ChainInv, Chains
  <2>2. /\ row[b].height = Height(b) /\ Height(b) \in Nat /\ Height(b) >= 1
        /\ Height(b) <= Len(chain)
    BY <1>1, <1>3, <2>1 DEF RowOk, Height
  <2>3. conf \in 0 .. MaxHeight /\ conf + Height(b) <= Len(chain) + 1
    BY <1>1, <2>2
  <2>4. CASE Divergent(b, row[b])
    BY <1>1, <1>3, <1>h, <2>2, <2>4 DEF Record, Records, Statuses, RecordOk, Counting
  <2>5. CASE ~Divergent(b, row[b]) /\ conf = 0
    <3>1. Record(b, row[b]) = [status |-> "chain_match_found", height |-> row[b].height, conf |-> 0]
      BY <1>3, <2>5 DEF Record
    <3> QED
      BY <1>1, <1>3, <1>h, <2>2, <3>1 DEF Records, Statuses, RecordOk, Counting
  <2>6. CASE ~Divergent(b, row[b]) /\ conf > 0
    <3>1. Record(b, row[b]) = [status |-> StatusAt(conf), height |-> row[b].height, conf |-> conf]
      BY <1>3, <2>3, <2>6 DEF Record
    <3>2. StatusAt(conf) \in {"immature", "confirmed"} /\ (StatusAt(conf) = "confirmed" => conf >= Depth)
      BY DEF StatusAt
    <3> QED
      BY <1>1, <1>3, <1>h, <2>2, <2>3, <3>1, <3>2 DEF Records, Statuses, RecordOk, Counting
  <2> QED
    BY <2>3, <2>4, <2>5, <2>6
<1> QED
  BY <1>2, <1>3

LEMMA MaturedRight ==
  ASSUME SoloAssumption, SoloInv, NEW b \in Block, NEW rec \in Records, RecordOk(b, rec),
         NEW h \in Nat, h <= Len(chain)
  PROVE  Matured(rec, h) \in Records /\ RecordOk(b, Matured(rec, h))
<1>1. /\ RowOk(b) /\ Len(chain) \in Nat /\ Len(chain) <= MaxHeight /\ MaxHeight \in Nat
      /\ Depth \in Nat
  BY LenProperties DEF SoloInv, ChainInv, Chains, SoloAssumption
<1>2. CASE ~(rec.status \in Counting /\ h >= rec.height)
  BY <1>2 DEF Matured, Counting
<1>3. CASE rec.status \in Counting /\ h >= rec.height
  <2> DEFINE conf == IF rec.conf > h - rec.height + 1 THEN rec.conf ELSE h - rec.height + 1
  <2>1. row[b].kind = "match" /\ rec.height = Height(b) /\ rec.conf + Height(b) <= Len(chain) + 1
    BY <1>3 DEF RecordOk
  <2>2. b \in Known /\ Len(parent[b]) \in Nat
    BY <1>1, <2>1, LenProperties DEF RowOk, SoloInv, ChainInv, Chains
  <2>3. Height(b) \in Nat /\ Height(b) >= 1
    BY <2>2 DEF Height
  <2>4. rec.conf \in Nat /\ rec.height \in Nat /\ rec.conf <= MaxHeight
    BY DEF Records
  <2>5. conf \in 0 .. MaxHeight /\ conf + Height(b) <= Len(chain) + 1
    BY <1>1, <1>3, <2>1, <2>3, <2>4
  <2>6. Matured(rec, h) = [rec EXCEPT !.conf = conf, !.status = StatusAt(conf)]
    BY <1>3 DEF Matured, Counting
  <2>7. /\ StatusAt(conf) \in {"immature", "confirmed"}
        /\ StatusAt(conf) = "confirmed" => conf >= Depth
    BY DEF StatusAt
  <2>8. Matured(rec, h) = [status |-> StatusAt(conf), height |-> rec.height, conf |-> conf]
    BY <2>6 DEF Records
  <2> HIDE DEF conf
  <2> QED
    BY <2>1, <2>5, <2>7, <2>8 DEF Records, Statuses, RecordOk, Counting
<1> QED
  BY <1>2, <1>3

-----------------------------------------------------------------------------
(* How the state moves *)

\* The chain does not get shorter, a block that was found keeps its row, and one that
\* is known its place.
Onwards ==
  /\ Len(chain') >= Len(chain)
  /\ \A b \in Known : b \in DOMAIN parent' /\ parent'[b] = parent[b]
  /\ \A b \in Block : row[b].kind = "match" => row'[b] = row[b]

LEMMA RecordStays ==
  ASSUME SoloAssumption, SoloInv, Onwards, ChainInv', NEW b \in Block,
         NEW rec \in Records, RecordOk(b, rec)
  PROVE  RecordOk(b, rec)'
<1>1. Len(chain) \in Nat /\ Len(chain') \in Nat
  BY LenProperties DEF SoloInv, ChainInv, Chains
<1>2. CASE rec.status \in Counting
  <2>1. row[b].kind = "match" /\ b \in Known /\ row'[b] = row[b]
    BY <1>2 DEF RecordOk, SoloInv, RowOk, Onwards
  <2>2. Height(b)' = Height(b) /\ Height(b) \in Nat
    BY <2>1, LenProperties DEF Height, Onwards, SoloInv, ChainInv, Chains
  <2> QED
    BY <1>1, <1>2, <2>1, <2>2 DEF RecordOk, Onwards, Records, Known
<1>3. CASE rec.status \notin Counting
  BY <1>3 DEF RecordOk, Counting, Onwards, Known
<1> QED
  BY <1>2, <1>3

LEMMA FileStays ==
  ASSUME SoloAssumption, SoloInv, Onwards, ChainInv', NEW file, FileOk(file)
  PROVE  FileOk(file)'
<1>1. file \in [Block -> Records] /\ \A b \in Block : file[b] \in Records /\ RecordOk(b, file[b])
  BY DEF FileOk
<1>2. \A b \in Block : RecordOk(b, file[b])'
  BY <1>1, RecordStays
<1> QED
  BY <1>1, <1>2 DEF FileOk

LEMMA DeepStays ==
  ASSUME SoloAssumption, SoloInv, Onwards, ChainInv', NEW b, Deep(b)
  PROVE  Deep(b)'
<1>1. b \in Known /\ b \in Block /\ row'[b] = row[b]
  BY DEF Deep, Onwards, SoloInv, ChainInv
<1>2. Height(b)' = Height(b) /\ Height(b) \in Nat /\ Len(chain) \in Nat /\ Len(chain') \in Nat
  BY <1>1, LenProperties DEF Height, Onwards, SoloInv, ChainInv, Chains
<1> QED
  BY <1>1, <1>2 DEF Deep, Onwards, SoloAssumption, Known

\* Files, offers and payments stay right over a step that does not touch them.
LEMMA FilesStay ==
  ASSUME SoloAssumption, SoloInv, Onwards, ChainInv', UNCHANGED <<accepted, copy, offers, paid>>
  PROVE  /\ FileOk(accepted)' /\ \A s \in Service : FileOk(copy[s])'
         /\ OffersInv' /\ \A b \in paid' : Deep(b)'
<1>1. \A file : FileOk(file) => FileOk(file)'
  BY FileStays
<1>2. FileOk(accepted) /\ \A s \in Service : FileOk(copy[s])
  BY DEF SoloInv
<1>3. FileOk(accepted)' /\ \A s \in Service : FileOk(copy[s])'
  BY <1>1, <1>2 DEF FileOk
<1>4. \A b : Deep(b) => Deep(b)'
  BY DeepStays
<1>5. \A b \in paid' : Deep(b)'
  BY <1>4 DEF SoloInv
<1>6. OffersInv'
  BY <1>4 DEF SoloInv, OffersInv, Onwards, Known
<1> QED
  BY <1>3, <1>5, <1>6

-----------------------------------------------------------------------------
(* The chain *)

\* What a reorganisation makes of a chain.
Branch(s, k, n, b) == Prefix(s, k) \o <<b>> \o [i \in 1 .. n |-> 0]

\* The first k blocks of s, then b and nothing of the pool's.
Branched(new, T, s, k, b) ==
  /\ new \in Seq(T) /\ Len(new) = Len(s) + 1
  /\ Len(Prefix(s, k)) = k
  /\ \A i \in 1 .. k : new[i] = s[i]
  /\ \A i \in k + 1 .. Len(s) + 1 : new[i] = IF i = k + 1 THEN b ELSE 0

LEMMA BranchShape ==
  ASSUME NEW T, 0 \in T, NEW s \in Seq(T), NEW k \in Nat, NEW n \in Nat,
         Len(s) = k + n, NEW b \in T
  PROVE  Branched(Branch(s, k, n, b), T, s, k, b)
<1>0. PICK new : new = Branch(s, k, n, b)
  OBVIOUS
<1> DEFINE base == Prefix(s, k)
           tail == [i \in 1 .. n |-> 0]
<1>1. Len(s) \in Nat
  BY LenProperties
<1>2. /\ base \in Seq(T) /\ Len(base) = k
      /\ \A i \in 1 .. k : base[i] = s[i]
  <2>1. \A i \in 1 .. k : s[i] \in T
    BY <1>1, ElementOfSeq
  <2>2. /\ SubSeq(s, 1, k) \in Seq(T)
        /\ Len(SubSeq(s, 1, k)) = IF 1 <= k THEN k - 1 + 1 ELSE 0
        /\ \A i \in 1 .. k - 1 + 1 :
             SubSeq(s, 1, k)[i] = s[1 + i - 1]
    BY <1>1, <2>1, SubSeqProperties
  <2> QED BY <1>1, <2>2 DEF Prefix
<1>3. tail \in Seq(T) /\ Len(tail) = n /\ \A i \in 1 .. n : tail[i] = 0
  OBVIOUS
<1>4. <<b>> \in Seq(T) /\ Len(<<b>>) = 1 /\ <<b>>[1] = b
  OBVIOUS
<1> HIDE DEF base, tail
<1> DEFINE front == base \o <<b>>
<1>5. /\ front \in Seq(T) /\ Len(front) = Len(base) + 1
      /\ \A i \in 1 .. Len(base) + 1 :
           front[i] = IF i <= Len(base) THEN base[i] ELSE <<b>>[i - Len(base)]
  <2>1. PICK one : one = <<b>>
    OBVIOUS
  <2>2. base \in Seq(T) /\ one \in Seq(T) /\ Len(one) = 1
    BY <1>2, <1>4, <2>1
  <2>3. /\ base \o one \in Seq(T) /\ Len(base \o one) = Len(base) + Len(one)
        /\ \A i \in 1 .. Len(base) + Len(one) :
             (base \o one)[i] = IF i <= Len(base) THEN base[i] ELSE one[i - Len(base)]
    BY <2>2, ConcatProperties
  <2> QED BY <2>1, <2>2, <2>3
<1> HIDE DEF front
<1>6. /\ new \in Seq(T) /\ Len(new) = Len(front) + Len(tail)
      /\ \A i \in 1 .. Len(front) + Len(tail) :
           new[i] = IF i <= Len(front) THEN front[i] ELSE tail[i - Len(front)]
  <2>1. new = front \o tail
    BY <1>0 DEF front, base, tail, Branch
  <2>2. front \in Seq(T) /\ tail \in Seq(T)
    BY <1>3, <1>5
  <2> QED BY <2>1, <2>2, ConcatProperties
<1>7. \A i \in 1 .. k : new[i] = s[i]
  <2> SUFFICES ASSUME NEW i \in 1 .. k PROVE new[i] = s[i]
    OBVIOUS
  <2>1. i \in 1 .. Len(front) + Len(tail) /\ i <= Len(front) /\ i \in 1 .. Len(base) + 1 /\ i <= Len(base)
    BY <1>1, <1>2, <1>3, <1>5
  <2>2. new[i] = front[i] /\ front[i] = base[i]
    BY <1>5, <1>6, <2>1
  <2> QED BY <1>2, <2>2
<1>8. \A i \in k + 1 .. Len(s) + 1 : new[i] = IF i = k + 1 THEN b ELSE 0
  <2> SUFFICES ASSUME NEW i \in k + 1 .. Len(s) + 1
               PROVE  new[i] = IF i = k + 1 THEN b ELSE 0
    OBVIOUS
  <2>0. i \in Nat /\ Len(front) \in Nat /\ k \in Nat
    BY <1>1, <1>2, <1>5
  <2>1. i \in 1 .. Len(front) + Len(tail) /\ Len(front) = k + 1 /\ Len(base) = k
    BY <1>1, <1>2, <1>3, <1>5
  <2>2. CASE i = k + 1
    <3>1. new[i] = front[i]
      BY <1>6, <2>0, <2>1, <2>2
    <3>2. i \in 1 .. Len(base) + 1 /\ ~(i <= Len(base)) /\ i - Len(base) = 1
      BY <1>1, <2>1, <2>2
    <3> QED BY <1>4, <1>5, <2>2, <3>1, <3>2
  <2>3. CASE i # k + 1
    <3>0. i > k + 1 /\ i <= k + 1 + n
      BY <1>1, <2>3
    <3>a. \A j, f, m \in Nat : j > f /\ j <= f + m => ~(j <= f) /\ j - f \in 1 .. m
      OBVIOUS
    <3>1. ~(i <= Len(front)) /\ i - Len(front) \in 1 .. n
      BY <2>0, <2>1, <3>0, <3>a
    <3> QED BY <1>3, <1>6, <2>1, <2>3, <3>1
  <2> QED BY <2>2, <2>3
<1> QED
  <2>1. Branched(new, T, s, k, b)
    BY <1>1, <1>2, <1>3, <1>5, <1>6, <1>7, <1>8 DEF base, Branched
  <2> QED
    BY <1>0, <2>1

LEMMA NewBlockStep ==
  ASSUME SoloAssumption, SoloInv, NewBlock
  PROVE  SoloInv'
<1> USE DEF NewBlock, fileVars, workVars
<1>1. chain \in Chains /\ Len(chain) \in Nat /\ 0 \in Other \cup Block /\ 0 \notin Block
  BY LenProperties DEF SoloInv, ChainInv, Chains, Other, SoloAssumption
<1>2. /\ chain' \in Chains /\ Len(chain') = Len(chain) + 1
      /\ \A i \in 1 .. Len(chain) : chain'[i] = chain[i]
      /\ chain'[Len(chain) + 1] = 0
  BY <1>1, AppendProperties DEF Chains
<1>3. ChainInv'
  BY <1>1, <1>2, LenProperties DEF SoloInv, ChainInv, Known, SoloAssumption, Chains
<1>4. Placed'
  <2> SUFFICES ASSUME NEW i \in 1 .. Len(chain'), chain'[i] \in Block
               PROVE  chain'[i] \in Known' /\ Len(parent'[chain'[i]]) = i - 1
    BY DEF Placed
  <2>1. i \in 1 .. Len(chain) /\ chain'[i] = chain[i]
    BY <1>1, <1>2
  <2> QED
    BY <2>1 DEF SoloInv, Placed, Known
<1>5. Onwards
  BY <1>1, <1>2 DEF Onwards, Known
<1>6. \A b \in Block : RowOk(b)'
  <2> SUFFICES ASSUME NEW b \in Block PROVE RowOk(b)'
    OBVIOUS
  <2>1. RowOk(b) /\ (row[b].kind = "match" => b \in Known /\ Len(parent[b]) \in Nat)
    BY LenProperties DEF SoloInv, RowOk, ChainInv, Chains
  <2>2. OnChain(b) => OnChain(b)'
    <3>1. \A i \in DOMAIN chain : i \in DOMAIN chain' /\ chain'[i] = chain[i]
      BY <1>1, <1>2, LenProperties DEF Chains
    <3> QED
      BY <3>1 DEF OnChain, ToSet
  <2> QED
    BY <1>1, <1>2, <2>1, <2>2 DEF RowOk, Height, Known
<1>7. WorkInv'
  BY DEF SoloInv, WorkInv, Known
<1> QED
  BY <1>3, <1>4, <1>5, <1>6, <1>7, FilesStay DEF SoloInv

LEMMA ReorgStep ==
  ASSUME SoloAssumption, SoloInv, NEW n \in 1 .. MaxReorg, Reorg(n)
  PROVE  SoloInv'
<1> USE DEF fileVars, workVars
<1> DEFINE T == Other \cup Block
<1>1. /\ chain \in Seq(T) /\ Len(chain) \in Nat /\ n \in Nat /\ n <= Len(chain)
      /\ Len(chain) < MaxHeight /\ MaxHeight \in Nat /\ 0 \in T /\ 0 \notin Block
  BY LenProperties DEF SoloInv, ChainInv, Chains, Reorg, Other, SoloAssumption
<1>k. PICK k : k = Len(chain) - n
  OBVIOUS
<1>2. PICK b \in Branches(Prefix(chain, k)) : chain' = Branch(chain, k, n, b)
  BY <1>k DEF Reorg, Branch
<1>l. k \in Nat /\ Len(chain) = k + n
  BY <1>1, <1>k
<1>3. b \in T /\ (b \in Block => b \in Known /\ parent[b] = Prefix(chain, k))
  <2>1. b \in Other \/ (b \in fresh /\ parent[b] = Prefix(chain, k))
    BY <1>2 DEF Branches
  <2>2. fresh \subseteq Known /\ Known \subseteq Block /\ Other \cap Block = {}
    BY DEF SoloInv, WorkInv, ChainInv, SoloAssumption, Other
  <2> QED
    BY <2>1, <2>2
<1>u. UNCHANGED <<parent, answered, fresh, snap, losses, row, accepted, offers, paid, at, todo,
                  failed, copy, errors>>
  BY DEF Reorg
<1> HIDE DEF T
<1>4. /\ chain' \in Seq(T) /\ Len(chain') = Len(chain) + 1
      /\ Len(Prefix(chain, k)) = k
      /\ \A i \in 1 .. k : chain'[i] = chain[i]
      /\ \A i \in k + 1 .. Len(chain) + 1 :
           chain'[i] = IF i = k + 1 THEN b ELSE 0
  <2>1. Branched(Branch(chain, k, n, b), T, chain, k, b)
    BY <1>1, <1>3, <1>l, BranchShape
  <2> QED
    BY <1>2, <2>1 DEF Branched
<1>5. ChainInv'
  <2>1. Len(snap) \in Nat
    BY LenProperties DEF SoloInv, ChainInv, Chains
  <2> QED
    BY <1>1, <1>l, <1>4, <1>u, <2>1 DEF SoloInv, ChainInv, Known, Chains, T
<1>6. Placed'
  <2> SUFFICES ASSUME NEW i \in 1 .. Len(chain'), chain'[i] \in Block
               PROVE  chain'[i] \in Known' /\ Len(parent'[chain'[i]]) = i - 1
    BY DEF Placed
  <2>1. CASE i \in 1 .. k
    <3>1. i \in 1 .. Len(chain) /\ chain'[i] = chain[i]
      BY <1>1, <1>l, <1>4, <2>1
    <3> QED
      BY <1>u, <3>1 DEF SoloInv, Placed, Known
  <2>2. CASE i \notin 1 .. k
    <3>1. i \in k + 1 .. Len(chain) + 1
      BY <1>1, <1>l, <1>4, <2>2
    <3>2. i = k + 1 /\ chain'[i] = b
      BY <1>1, <1>l, <1>4, <3>1
    <3>3. b \in Known /\ parent[b] = Prefix(chain, k)
      BY <1>3, <3>2
    <3>4. Len(parent[b]) = i - 1
      BY ONLY <1>1, <1>l, <1>4, <3>2, <3>3
    <3> QED
      BY <1>u, <3>2, <3>3, <3>4 DEF Known
  <2> QED
    BY <2>1, <2>2
<1>7. Onwards
  BY <1>1, <1>l, <1>4, <1>u DEF Onwards, Known
<1>8. \A c \in Block : RowOk(c)'
  <2> SUFFICES ASSUME NEW c \in Block PROVE RowOk(c)'
    OBVIOUS
  <2>1. RowOk(c)
    BY DEF SoloInv
  <2>2. CASE row[c].kind # "match"
    BY <1>u, <2>1, <2>2 DEF RowOk, Height, Known
  <2>3. CASE row[c].kind = "match"
    <3>1. c \in Known /\ Len(parent[c]) \in Nat
      BY <2>1, <2>3, LenProperties DEF SoloInv, RowOk, ChainInv, Chains
    <3>2. left' = left \cup {d \in Known : OnChain(d) /\ Height(d) > k /\ row[d].kind = "match"}
      BY <1>4, <1>k DEF Reorg
    <3>3. c \in left' \/ OnChain(c)'
      <4>1. SUFFICES ASSUME OnChain(c), ~(Height(c) > k)
                     PROVE  OnChain(c)'
        BY <2>1, <2>3, <3>1, <3>2 DEF RowOk
      <4>2. PICK i \in 1 .. Len(chain) : chain[i] = c
        BY <1>1, <4>1, LenProperties DEF OnChain, ToSet
      <4>3. Height(c) = i
        BY <3>1, <4>2 DEF SoloInv, Placed, Height
      <4>4. i \in 1 .. k /\ i \in DOMAIN chain' /\ chain'[i] = c
        BY <1>1, <1>l, <1>4, <4>1, <4>2, <4>3, LenProperties
      <4> QED
        BY <4>4 DEF OnChain, ToSet
    <3> QED
      BY <1>1, <1>l, <1>4, <1>u, <2>1, <2>3, <3>1, <3>3 DEF RowOk, Height, Known
  <2> QED
    BY <2>2, <2>3
<1>9. WorkInv'
  <2>1. left' \subseteq Known
    BY DEF Reorg, SoloInv, WorkInv
  <2> QED
    BY <1>u, <2>1 DEF SoloInv, WorkInv, Known
<1> QED
  BY <1>5, <1>6, <1>7, <1>8, <1>9, <1>u, FilesStay DEF SoloInv

LEMMA SubmitStep ==
  ASSUME SoloAssumption, SoloInv, NEW b \in Block, Submit(b)
  PROVE  SoloInv'
<1>1. /\ chain \in Chains /\ Len(chain) \in Nat /\ MaxHeight \in Nat /\ Len(chain) <= MaxHeight
      /\ b \notin Known /\ b \in Other \cup Block
  BY LenProperties DEF SoloInv, ChainInv, Chains, Submit, SoloAssumption
<1>u. UNCHANGED <<snap, left, losses, accepted, offers, paid, at, todo, failed, copy>>
  BY DEF Submit
<1>2. PICK base \in Chains :
        /\ MinedOn(b, base) /\ Len(base) < MaxHeight
        /\ \/ chain' = Append(chain, b) /\ base = chain
           \/ chain' = chain
  <2>1. CASE Len(chain) < MaxHeight /\ chain' = Append(chain, b) /\ MinedOn(b, chain)
    BY <1>1, <2>1
  <2>2. CASE chain # <<>> /\ chain' = chain /\ MinedOn(b, Prefix(chain, Len(chain) - 1))
    <3>1. Len(chain) >= 1
      BY <1>1, <2>2, EmptySeq DEF Chains
    <3>2. \A i \in 1 .. Len(chain) - 1 : chain[i] \in Other \cup Block
      BY <1>1, ElementOfSeq DEF Chains
    <3>3. /\ SubSeq(chain, 1, Len(chain) - 1) \in Chains
          /\ Len(SubSeq(chain, 1, Len(chain) - 1)) =
               IF 1 <= Len(chain) - 1 THEN Len(chain) - 1 - 1 + 1 ELSE 0
      BY <1>1, <3>1, <3>2, SubSeqProperties DEF Chains
    <3>4. Len(SubSeq(chain, 1, Len(chain) - 1)) < MaxHeight
      BY <1>1, <3>1, <3>3
    <3> QED
      BY <2>2, <3>3, <3>4 DEF Prefix
  <2> QED
    BY <2>1, <2>2 DEF Submit
<1>3. /\ DOMAIN parent' = {b} \cup Known /\ parent'[b] = base
      /\ \A c \in Known : parent'[c] = parent[c]
  BY <1>1, <1>2 DEF Known, MinedOn
<1>4. /\ chain' \in Chains /\ Len(chain') \in Nat
      /\ Len(chain') >= Len(chain) /\ Len(chain') <= MaxHeight
      /\ \A i \in 1 .. Len(chain) : chain'[i] = chain[i]
      /\ \A i \in Len(chain) + 1 .. Len(chain') : chain'[i] = b /\ Len(base) = i - 1
  <2>1. CASE chain' = Append(chain, b) /\ base = chain
    BY <1>1, <1>2, <2>1, AppendProperties DEF Chains
  <2>2. CASE chain' = chain
    BY <1>1, <2>2
  <2> QED
    BY <1>2, <2>1, <2>2
<1>5. ChainInv'
  <2>1. Len(snap) \in Nat
    BY LenProperties DEF SoloInv, ChainInv, Chains
  <2> QED
    BY <1>1, <1>2, <1>3, <1>4, <1>u, <2>1 DEF SoloInv, ChainInv, Known
<1>6. Placed'
  <2> SUFFICES ASSUME NEW i \in 1 .. Len(chain'), chain'[i] \in Block
               PROVE  chain'[i] \in Known' /\ Len(parent'[chain'[i]]) = i - 1
    BY DEF Placed
  <2>1. CASE i \in 1 .. Len(chain)
    BY <1>3, <1>4, <2>1 DEF SoloInv, Placed, Known
  <2>2. CASE i \notin 1 .. Len(chain)
    <3>1. i \in Len(chain) + 1 .. Len(chain')
      BY <1>1, <1>4, <2>2
    <3> QED
      BY <1>3, <1>4, <3>1 DEF Known
  <2> QED
    BY <2>1, <2>2
<1>7. /\ row' = [row EXCEPT ![b].kind = "unchecked"]
      /\ DOMAIN row = Block /\ row[b].kind = "absent" /\ RowOk(b)
  BY <1>1 DEF Submit, SoloInv, RowOk, WorkInv
<1>8. Onwards
  BY <1>3, <1>4, <1>7 DEF Onwards, Known
<1>9. \A c \in Block : RowOk(c)'
  <2> SUFFICES ASSUME NEW c \in Block PROVE RowOk(c)'
    OBVIOUS
  <2>1. RowOk(c) /\ (c \in Known => Len(parent[c]) \in Nat)
    BY LenProperties DEF SoloInv, ChainInv, Chains
  <2>2. CASE c = b
    <3>1. row'[b] = [row[b] EXCEPT !.kind = "unchecked"]
      BY <1>7
    <3>2. row[b].height = 0
      BY <1>1, <1>7 DEF RowOk
    <3>3. row'[b] = [kind |-> "unchecked", height |-> 0]
      BY <1>7, <3>1, <3>2 DEF RowOk
    <3> QED
      BY <1>1, <1>3, <2>2, <3>3 DEF RowOk, Known, Kinds
  <2>3. CASE c # b
    <3>1. row'[c] = row[c] /\ (c \in Known' <=> c \in Known)
      BY <1>3, <1>7, <2>3 DEF Known
    <3>2. OnChain(c) => OnChain(c)'
      <4>1. \A i \in DOMAIN chain : i \in DOMAIN chain' /\ chain'[i] = chain[i]
        BY <1>1, <1>4, LenProperties DEF Chains
      <4> QED
        BY <4>1 DEF OnChain, ToSet
    <3>3. c \in Known => Height(c)' = Height(c) /\ Height(c) \in Nat
      BY <1>3, <2>1 DEF Height
    <3> QED
      BY <1>1, <1>4, <1>u, <2>1, <3>1, <3>2, <3>3 DEF RowOk
  <2> QED
    BY <2>2, <2>3
<1>10. WorkInv'
  <2>1. answered' \cup fresh' \subseteq Known'
    BY <1>3 DEF Submit, SoloInv, WorkInv, Known
  <2>2. DOMAIN row' = Block /\ row' = [c \in Block |-> row'[c]]
    BY <1>7
  <2> QED
    BY <1>3, <1>u, <2>1, <2>2 DEF SoloInv, WorkInv, Known
<1> QED
  BY <1>5, <1>6, <1>8, <1>9, <1>10, <1>u, FilesStay DEF SoloInv

-----------------------------------------------------------------------------
(* The services *)

\* Over a step that leaves the chain and the rows alone, what was right is right.
LEMMA StillRight ==
  ASSUME SoloAssumption, SoloInv, UNCHANGED <<chain, parent, row, left>>,
         snap' \in Chains, Len(snap') <= Len(chain), todo' \subseteq todo
  PROVE  /\ ChainInv' /\ Placed' /\ \A b \in Block : RowOk(b)'
         /\ \A file : FileOk(file) => FileOk(file)'
         /\ \A b : Deep(b) => Deep(b)'
<1>1. ChainInv'
  BY DEF SoloInv, ChainInv, Known
<1>2. Placed'
  BY DEF SoloInv, Placed, Known
<1>3. \A b \in Block : RowOk(b)'
  BY DEF SoloInv, RowOk, Height, Known, OnChain
<1>4. \A file : FileOk(file) => FileOk(file)'
  BY DEF FileOk, RecordOk, Height, Known
<1>5. \A b : Deep(b) => Deep(b)'
  BY DEF Deep, Height, Known
<1> QED
  BY <1>1, <1>2, <1>3, <1>4, <1>5

\* Ageing and the snapshot.
LEMMA OutsideStep ==
  ASSUME SoloAssumption, SoloInv, (\E b \in Block : Age(b)) \/ Produce \/ LoseSnapshot
  PROVE  SoloInv'
<1>1. /\ UNCHANGED <<chain, parent, answered, left, row, accepted, offers, paid, at, todo, copy>>
      /\ fresh' \subseteq fresh
      /\ snap' \in {snap, chain, <<>>}
  BY DEF Age, Produce, LoseSnapshot, fileVars, workVars
<1>2. /\ <<>> \in Chains /\ Len(<<>>) = 0
      /\ chain \in Chains /\ snap \in Chains /\ Len(snap) <= Len(chain) /\ Len(chain) \in Nat
  BY EmptySeq, LenProperties DEF SoloInv, ChainInv, Chains
<1>3. snap' \in Chains /\ Len(snap') <= Len(chain) /\ todo' \subseteq todo
  BY <1>1, <1>2
<1>4. /\ ChainInv' /\ Placed' /\ \A b \in Block : RowOk(b)'
      /\ \A file : FileOk(file) => FileOk(file)'
      /\ \A b : Deep(b) => Deep(b)'
  BY <1>1, <1>3, StillRight
<1>5. WorkInv'
  BY <1>1 DEF SoloInv, WorkInv, Known
<1>6. OffersInv'
  BY <1>1, <1>4 DEF SoloInv, OffersInv, Known
<1>7. FileOk(accepted)' /\ \A s \in Service : FileOk(copy[s])'
  BY <1>1, <1>4 DEF SoloInv, FileOk
<1> QED
  BY <1>1, <1>4, <1>5, <1>6, <1>7 DEF SoloInv

LEMMA BeginStep ==
  ASSUME SoloAssumption, SoloInv, NEW s \in Service, Begin(s)
  PROVE  SoloInv'
<1>1. UNCHANGED <<chain, parent, answered, fresh, snap, left, row, accepted, offers, paid, copy>>
  BY DEF Begin, chainVars, fileVars
<1>2. at' \in [Service -> Steps]
  BY DEF Begin, Goto, SoloInv, WorkInv, Steps
<1>3. todo' \subseteq Known /\ \A b \in todo' : row[b].kind # "match"
  <2>1. CASE todo' = todo
    BY <2>1 DEF SoloInv, WorkInv, RowOk, ChainInv
  <2>2. CASE todo' = {b \in Known : ShouldCheck(b)}
    BY <2>2 DEF ShouldCheck
  <2> QED
    BY <2>1, <2>2 DEF Begin
<1>4. ChainInv' /\ Placed'
  BY <1>1 DEF SoloInv, ChainInv, Placed, Known
<1>5. \A b \in Block : RowOk(b)'
  BY <1>1, <1>3 DEF SoloInv, RowOk, Height, Known, OnChain
<1>6. WorkInv'
  BY <1>1, <1>2, <1>3 DEF SoloInv, WorkInv, Known
<1>7. Onwards
  BY <1>1, LenProperties DEF Onwards, Known, SoloInv, ChainInv, Chains
<1> QED
  BY <1>1, <1>4, <1>5, <1>6, <1>7, FilesStay DEF SoloInv

LEMMA LookUpStep ==
  ASSUME SoloAssumption, SoloInv, NEW b \in Block, LookUp(b)
  PROVE  SoloInv'
<1>1. UNCHANGED <<chain, parent, answered, fresh, snap, left, accepted, offers, paid, at, copy>>
  BY DEF LookUp, chainVars
<1>2. /\ b \in todo /\ todo' = todo \ {b} /\ b \in Known /\ RowOk(b) /\ row[b].kind # "match"
      /\ Len(chain) \in Nat /\ Len(parent[b]) \in Nat /\ Len(parent[b]) < MaxHeight
      /\ MaxHeight \in Nat
  BY LenProperties DEF LookUp, SoloInv, WorkInv, RowOk, ChainInv, Chains, SoloAssumption
<1>3. PICK new : row' = [row EXCEPT ![b] = new] /\ new \in {Found(b), [kind |-> "error", height |-> 0]}
  BY DEF LookUp
<1>4. /\ row'[b] = new /\ \A c \in Block \ {b} : row'[c] = row[c]
      /\ DOMAIN row' = Block /\ row' = [c \in Block |-> row'[c]]
  BY <1>3 DEF SoloInv, WorkInv
<1>5. RowOk(b)'
  <2>1. CASE OnChain(b) /\ new = Found(b)
    <3>1. new = [kind |-> "match", height |-> Height(b)]
      BY <2>1 DEF Found
    <3>2. PICK i \in 1 .. Len(chain) : chain[i] = b
      BY <2>1, LenProperties DEF OnChain, ToSet, SoloInv, ChainInv, Chains
    <3>3. Height(b) = i /\ Height(b) \in 0 .. MaxHeight
      BY <1>2, <3>2 DEF SoloInv, Placed, Height
    <3> QED
      BY <1>1, <1>2, <1>4, <2>1, <3>1, <3>3 DEF RowOk, Kinds, Height, Known, OnChain
  <2>2. CASE ~(OnChain(b) /\ new = Found(b))
    <3>1. new \in {[kind |-> "none", height |-> 0], [kind |-> "error", height |-> 0]}
      BY <1>3, <2>2 DEF Found
    <3> QED
      BY <1>1, <1>2, <1>4, <3>1 DEF RowOk, Kinds, Known
  <2> QED
    BY <2>1, <2>2
<1>6. \A c \in Block : RowOk(c)'
  <2> SUFFICES ASSUME NEW c \in Block, c # b PROVE RowOk(c)'
    BY <1>5
  <2> QED
    BY <1>1, <1>2, <1>4 DEF SoloInv, RowOk, Height, Known, OnChain
<1>7. ChainInv' /\ Placed'
  BY <1>1 DEF SoloInv, ChainInv, Placed, Known
<1>8. WorkInv'
  BY <1>1, <1>2, <1>4 DEF SoloInv, WorkInv, Known
<1>9. Onwards
  BY <1>1, <1>2, <1>4 DEF Onwards, Known
<1> QED
  BY <1>1, <1>6, <1>7, <1>8, <1>9, FilesStay DEF SoloInv

\* A service takes a step with the records in its hands or in the file.
LEMMA FileStep ==
  ASSUME SoloAssumption, SoloInv,
         Merge \/ WriteMerged \/ \E s \in Service : Mature(s) \/ WriteMatured(s)
  PROVE  SoloInv'
<1>1. UNCHANGED <<chain, parent, answered, fresh, snap, left, row, offers, paid, todo>>
  BY DEF Merge, WriteMerged, Mature, WriteMatured, chainVars, fileVars
<1>2. /\ ChainInv' /\ Placed' /\ \A b \in Block : RowOk(b)'
      /\ \A file : FileOk(file) => FileOk(file)'
      /\ \A b : Deep(b) => Deep(b)'
  BY <1>1, StillRight DEF SoloInv, ChainInv
<1>3. OffersInv'
  BY <1>1, <1>2 DEF SoloInv, OffersInv, Known
<1>4. /\ Service = {"minute", "hour"} /\ NoFile \in [Block -> Records] /\ FileOk(NoFile)
      /\ FileOk(accepted) /\ \A s \in Service : FileOk(copy[s])
  BY NoRecordOk DEF Service, SoloInv, FileOk
<1> DEFINE Written ==
             /\ FileOk(accepted')
             /\ \E s \in Service : \E file :
                  FileOk(file) /\ copy' \in {copy, [copy EXCEPT ![s] = file]}
             /\ \E s \in Service, step \in Steps : at' = [at EXCEPT ![s] = step]
<1>5. Written
  <2>1. CASE Merge
    <3> DEFINE file == [b \in Block |-> Record(b, row[b])]
    <3>1. FileOk(file)
      BY RecordRight DEF FileOk
    <3>2. /\ accepted' = accepted /\ copy' = [copy EXCEPT !["minute"] = file]
          /\ at' = [at EXCEPT !["minute"] = "merged"]
      BY <2>1 DEF Merge, Keep, Goto, fileVars
    <3> HIDE DEF file
    <3> QED
      BY <1>4, <3>1, <3>2 DEF Steps
  <2>2. CASE WriteMerged
    <3>1. /\ accepted' = copy["minute"] /\ copy' = [copy EXCEPT !["minute"] = NoFile]
          /\ \E step \in {"idle", "mature"} : at' = [at EXCEPT !["minute"] = step]
      BY <2>2 DEF WriteMerged, Keep, Goto
    <3> QED
      BY <1>4, <3>1 DEF Steps
  <2>3. ASSUME NEW s \in Service, Mature(s)
        PROVE  Written
    <3>1. PICK h \in Heights :
            LET file == IF h = 0 THEN accepted ELSE [b \in Block |-> Matured(accepted[b], h)] IN
            IF file = accepted THEN Goto(s, After(s)) /\ UNCHANGED copy
            ELSE Keep(s, file) /\ Goto(s, "matured")
      BY <2>3 DEF Mature
    <3>2. h \in Nat /\ h <= Len(chain)
      BY LenProperties DEF Heights, SoloInv, ChainInv, Chains
    <3> DEFINE file == IF h = 0 THEN accepted ELSE [b \in Block |-> Matured(accepted[b], h)]
    <3>3. FileOk(file)
      <4>1. \A b \in Block : accepted[b] \in Records /\ RecordOk(b, accepted[b])
        BY <1>4 DEF FileOk
      <4>2. \A b \in Block : /\ Matured(accepted[b], h) \in Records
                              /\ RecordOk(b, Matured(accepted[b], h))
        BY <3>2, <4>1, MaturedRight
      <4> QED
        BY <1>4, <4>2 DEF FileOk
    <3>4. accepted' = accepted /\ After(s) \in Steps /\ "matured" \in Steps
      BY <2>3 DEF Mature, fileVars, After, Steps
    <3>5. \/ copy' = copy /\ at' = [at EXCEPT ![s] = After(s)]
          \/ copy' = [copy EXCEPT ![s] = file] /\ at' = [at EXCEPT ![s] = "matured"]
      BY <3>1 DEF Goto, Keep
    <3> HIDE DEF file
    <3> QED
      BY <1>4, <3>3, <3>4, <3>5
  <2>4. ASSUME NEW s \in Service, WriteMatured(s)
        PROVE  Written
    <3>1. /\ accepted' = copy[s] /\ copy' = [copy EXCEPT ![s] = NoFile]
          /\ at' = [at EXCEPT ![s] = After(s)] /\ After(s) \in Steps
      BY <2>4 DEF WriteMatured, Keep, Goto, After, Steps
    <3> QED
      BY <1>4, <3>1
  <2> QED
    BY <2>1, <2>2, <2>3, <2>4
<1>6. FileOk(accepted)'
  BY <1>2, <1>5 DEF FileOk
<1>7. \A s \in Service : FileOk(copy'[s])
  <2>1. PICK t \in Service : \E file :
          FileOk(file) /\ copy' \in {copy, [copy EXCEPT ![t] = file]}
    BY <1>5
  <2>f. PICK file : FileOk(file) /\ copy' \in {copy, [copy EXCEPT ![t] = file]}
    BY <2>1
  <2>2. \A s \in Service : copy'[s] \in {copy[s], file}
    BY <2>f DEF SoloInv, WorkInv
  <2> QED
    BY <1>4, <2>2, <2>f
<1>8. \A s \in Service : FileOk(copy[s])'
  BY <1>2, <1>7 DEF FileOk
<1>9. WorkInv'
  <2>1. at' \in [Service -> Steps]
    BY <1>5 DEF SoloInv, WorkInv
  <2>2. DOMAIN copy' = Service /\ copy' = [s \in Service |-> copy'[s]]
    BY <1>5 DEF SoloInv, WorkInv
  <2> QED
    BY <1>1, <2>1, <2>2 DEF SoloInv, WorkInv, Known
<1> QED
  BY <1>1, <1>2, <1>3, <1>6, <1>8, <1>9 DEF SoloInv

LEMMA BuildStep ==
  ASSUME SoloAssumption, SoloInv, Build
  PROVE  SoloInv'
<1>1. UNCHANGED <<chain, parent, answered, fresh, snap, left, row, accepted, paid, todo, copy>>
  BY DEF Build, chainVars
<1>2. /\ ChainInv' /\ Placed' /\ \A b \in Block : RowOk(b)'
      /\ \A file : FileOk(file) => FileOk(file)'
      /\ \A b : Deep(b) => Deep(b)'
  BY <1>1, StillRight DEF SoloInv, ChainInv
<1>3. offers' \subseteq {Row(b) : b \in {c \in Block : accepted[c].height > 0}}
  BY DEF Build
<1>4. \A o \in offers' : o.block \in Known /\ (o.status = "confirmed" => Deep(o.block))
  <2> SUFFICES ASSUME NEW o \in offers'
               PROVE  o.block \in Known /\ (o.status = "confirmed" => Deep(o.block))
    OBVIOUS
  <2>1. PICK b \in Block : accepted[b].height > 0 /\ o = Row(b)
    BY <1>3
  <2>2. o.block = b /\ o.status = accepted[b].status
    BY <2>1 DEF Row
  <2>3. accepted[b] \in Records /\ RecordOk(b, accepted[b])
    BY DEF SoloInv, FileOk
  <2>4. b \in Known
    BY <2>1, <2>3 DEF RecordOk
  <2>5. ASSUME accepted[b].status = "confirmed"
        PROVE  Deep(b)
    <3>1. /\ row[b].kind = "match" /\ accepted[b].conf + Height(b) <= Len(chain) + 1
          /\ accepted[b].conf >= Depth
      BY <2>3, <2>5 DEF RecordOk, Counting
    <3>2. /\ Height(b) \in Nat /\ Len(chain) \in Nat /\ Depth \in Nat
          /\ accepted[b].conf \in Nat
      BY <2>3, <2>4, LenProperties
         DEF Height, SoloInv, ChainInv, Chains, Records, SoloAssumption
    <3> QED
      BY <2>4, <3>1, <3>2 DEF Deep
  <2> QED
    BY <2>2, <2>4, <2>5
<1>5. OffersInv'
  BY <1>1, <1>2, <1>4 DEF OffersInv, Known
<1>6. WorkInv'
  <2>1. at' = [at EXCEPT !["hour"] = "send"]
    BY DEF Build, Goto
  <2> QED
    BY <1>1, <2>1 DEF SoloInv, WorkInv, Known, Steps
<1>7. FileOk(accepted)' /\ \A s \in Service : FileOk(copy[s])'
  BY <1>1, <1>2 DEF SoloInv, FileOk
<1> QED
  BY <1>1, <1>2, <1>5, <1>6, <1>7 DEF SoloInv

LEMMA SendStep ==
  ASSUME SoloAssumption, SoloInv, Send
  PROVE  SoloInv'
<1>1. UNCHANGED <<chain, parent, answered, fresh, snap, left, row, accepted, todo, copy>>
  BY DEF Send, chainVars
<1>2. /\ ChainInv' /\ Placed' /\ \A b \in Block : RowOk(b)'
      /\ \A file : FileOk(file) => FileOk(file)'
      /\ \A b : Deep(b) => Deep(b)'
  BY <1>1, StillRight DEF SoloInv, ChainInv
<1>3. paid' \subseteq paid \cup {r.block : r \in {o \in offers : o.status = "confirmed"}}
  BY DEF Send
<1>4. \A b \in paid' : b \in Known /\ Deep(b)
  BY <1>3 DEF SoloInv, OffersInv, WorkInv
<1>5. OffersInv'
  BY DEF Send, OffersInv
<1>6. WorkInv'
  <2>1. at' = [at EXCEPT !["hour"] = "idle"]
    BY DEF Send, Goto
  <2>2. paid' \subseteq Known
    BY <1>4
  <2> QED
    BY <1>1, <2>1, <2>2 DEF SoloInv, WorkInv, Known, Steps
<1>7. FileOk(accepted)' /\ \A s \in Service : FileOk(copy[s])'
  BY <1>1, <1>2 DEF SoloInv, FileOk
<1> QED
  BY <1>2, <1>4, <1>5, <1>6, <1>7 DEF SoloInv

-----------------------------------------------------------------------------

LEMMA Initially ==
  ASSUME SoloAssumption, Init
  PROVE  SoloInv
<1>1. <<>> \in Chains /\ Len(<<>>) = 0 /\ DOMAIN <<>> = {}
  BY EmptySeq DEF Chains
<1>2. ChainInv /\ Placed
  BY <1>1 DEF Init, ChainInv, Placed, Known, SoloAssumption
<1>3. WorkInv /\ OffersInv
  BY <1>1 DEF Init, WorkInv, OffersInv, Known, Steps
<1>4. \A b \in Block : RowOk(b)
  BY <1>1 DEF Init, RowOk, NoRow, Kinds, Known, SoloAssumption
<1>5. FileOk(accepted) /\ \A s \in Service : FileOk(copy[s])
  BY NoRecordOk DEF Init
<1> QED
  BY <1>2, <1>3, <1>4, <1>5 DEF Init, SoloInv

LEMMA Idles ==
  ASSUME SoloAssumption, SoloInv, UNCHANGED vars
  PROVE  SoloInv'
<1>1. /\ ChainInv' /\ Placed' /\ \A b \in Block : RowOk(b)'
      /\ \A file : FileOk(file) => FileOk(file)'
      /\ \A b : Deep(b) => Deep(b)'
  BY StillRight DEF vars, SoloInv, ChainInv
<1>2. WorkInv' /\ OffersInv'
  BY <1>1 DEF vars, SoloInv, WorkInv, OffersInv, Known
<1>3. FileOk(accepted)' /\ \A s \in Service : FileOk(copy[s])'
  BY <1>1 DEF vars, SoloInv, FileOk
<1> QED
  BY <1>1, <1>2, <1>3 DEF vars, SoloInv

LEMMA Inductive ==
  ASSUME SoloAssumption, SoloInv, [Next]_vars
  PROVE  SoloInv'
<1>1. ASSUME NEW b \in Block, Submit(b) \/ Age(b) \/ LookUp(b)
      PROVE  SoloInv'
  BY <1>1, SubmitStep, OutsideStep, LookUpStep
<1>2. ASSUME NEW s \in Service, Begin(s) \/ Mature(s) \/ WriteMatured(s)
      PROVE  SoloInv'
  BY <1>2, BeginStep, FileStep
<1>3. CASE NewBlock \/ \E n \in 1 .. MaxReorg : Reorg(n)
  BY <1>3, NewBlockStep, ReorgStep
<1>4. CASE Produce \/ LoseSnapshot \/ Merge \/ WriteMerged \/ Build \/ Send
  BY <1>4, OutsideStep, FileStep, BuildStep, SendStep
<1>5. CASE UNCHANGED vars
  BY <1>5, Idles
<1> QED
  BY <1>1, <1>2, <1>3, <1>4, <1>5 DEF Next

\* The files, the chain and the services' copies are what they can be
\* (accepted-candidates.json always holds one well-formed record of a block).
THEOREM TypeCorrect == Spec => []TypeOK
<1>1. Init => SoloInv
  BY SoloAssumption, Initially
<1>2. SoloInv /\ [Next]_vars => SoloInv'
  BY SoloAssumption, Inductive
<1>3. SoloInv => TypeOK
  BY SoloAssumption, InvIsTyped
<1> QED
  BY <1>1, <1>2, <1>3, PTL DEF Spec

\* What the hourly payout sends (auto_payout_once on the SOLO candidates) is on the chain
\* and Depth deep, unless the block left the chain after the lookup that found it.
THEOREM PaidStaysBuried == Spec => []PaidIsBuried
<1>1. Init => SoloInv
  BY SoloAssumption, Initially
<1>2. SoloInv /\ [Next]_vars => SoloInv'
  BY SoloAssumption, Inductive
<1>3. SoloInv => PaidIsBuried
  BY SoloAssumption, InvIsBuried
<1> QED
  BY <1>1, <1>2, <1>3, PTL DEF Spec
=============================================================================
