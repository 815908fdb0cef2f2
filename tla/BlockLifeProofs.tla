-------------------------- MODULE BlockLifeProofs --------------------------
(***************************************************************************)
(* That a block the daemon has taken is not sent again, and that a block   *)
(* the trackers call confirmed is on the chain for good, for any depth,    *)
(* any number of blocks, submissions, failed lookups and deaths, and any   *)
(* reorganisations of at most MaxReorg blocks.                             *)
(*                                                                         *)
(* The second rests on how old a row of the outcome log can be.  A row     *)
(* that says where a block is stays in the log after a reorganisation has  *)
(* dropped the block, until a follow-up looks the block up again.  The     *)
(* block was dropped near the tip, so a follow-up that began MaxReorg      *)
(* blocks above it has either been there already or has its event still to *)
(* look up (Timely): until it has ended the chain is too low for the row   *)
(* to count as confirmed.                                                  *)
(***************************************************************************)
EXTENDS BlockLife, SequenceTheorems, TLAPS

Chains == Seq(Other \cup Candidate)
Event == [cand : Candidate, accepted : BOOLEAN]
Steps == {"idle", "guard", "recheck", "send", "evidence", "outcome"}
Kinds == {"absent", "unchecked", "match", "none", "error"}

ChainInv ==
  /\ chain \in Chains /\ Len(chain) <= MaxHeight
  /\ latest \in Chains
  /\ snap \in Chains /\ Len(snap) <= Len(chain)

FoundInv ==
  /\ DOMAIN found \subseteq Candidate /\ \A c \in DOMAIN found : found[c] \in Chains
  /\ taken \cup partial \subseteq DOMAIN found

\* The submission in hand has a candidate, and a send ahead of it fits the budget.
SubInv ==
  /\ sub \in [step : Steps, cand : Candidate \cup {Nobody}, accepted : BOOLEAN]
  /\ sub.step = "idle" => sub = Idle
  /\ sub.step # "idle" => sub.cand \in DOMAIN found
  /\ sent \in 0 .. MaxSends
  /\ sub.step \in {"guard", "recheck", "send"} => sent < MaxSends

EventsInv ==
  /\ events \in Seq(Event) /\ Len(events) <= MaxEvents
  /\ sub.step \in Steps \ {"idle", "outcome"} => Len(events) < MaxEvents
  /\ sub.step = "outcome" => Len(events) > 0 /\ events[Len(events)].cand = sub.cand

\* A row is about an event of its candidate, and says where the candidate is.
RowInv ==
  /\ row \in [Candidate -> [event : Nat, kind : Kinds, height : Nat]]
  /\ \A c \in Candidate :
       /\ row[c].event <= Len(events) /\ row[c].height <= Len(chain)
       /\ row[c].kind # "absent" =>
            row[c].event \in DOMAIN events /\ events[row[c].event].cand = c
       /\ row[c].kind = "match" => c \in DOMAIN found /\ row[c].height = Height(c)

FollowInv ==
  /\ follow \in [todo : Seq(Nat), from : Nat, busy : BOOLEAN]
  /\ \A i \in DOMAIN follow.todo : follow.todo[i] \in DOMAIN events
  /\ follow.from <= Len(chain)
  /\ since \in Nat /\ since <= Len(chain) /\ Len(chain) <= since + Gap
  /\ follow.busy => since <= follow.from

\* A candidate stands on the chain it was mined on.
Placed ==
  \A i \in 1 .. Len(chain) :
    chain[i] \in Candidate => chain[i] \in DOMAIN found /\ Len(found[chain[i]]) = i - 1

\* The chain has outgrown a block once it has been taken.
TakenInv ==
  /\ \A c \in taken : Len(found[c]) < Len(chain)
  /\ sub.step \in {"recheck", "send"} => sub.cand \notin taken

StateInv ==
  /\ ChainInv /\ FoundInv /\ SubInv /\ EventsInv /\ RowInv /\ FollowInv
  /\ Placed /\ TakenInv
  /\ accepted \in [Candidate -> Statuses]

\* A follow-up cannot have passed by a block that its row still has on the chain: it
\* began when the block was there, or it has the block still to look up.
ToLookUp(c) == \E i \in DOMAIN follow.todo : events[follow.todo[i]].cand = c

Timely ==
  \A c \in Candidate : row[c].kind = "match" /\ ~Buried(c) =>
    /\ since < row[c].height + MaxReorg
    /\ follow.busy /\ follow.from >= row[c].height + MaxReorg => ToLookUp(c)

\* The timer of the follow-up is fast enough for the depth.
Paced == Gap + MaxReorg < Depth

\* Fewer than Count events follow that of a block which a row has on the chain and which
\* is not buried.
NotOvertaken ==
  \A c \in Candidate : row[c].kind = "match" /\ ~Buried(c) =>
    row[c].event + Count > Len(events)

LifeInv == StateInv /\ Timely /\ ConfirmedIsBuried

-----------------------------------------------------------------------------
(* How the chain moves *)

\* The last n blocks are dropped and more than n put on, each candidate among them on
\* the chain it was mined on.
Moved(n) ==
  /\ n \in 0 .. MaxReorg /\ n <= Len(chain) /\ Room
  /\ chain' \in Chains /\ Len(chain') = Len(chain) + 1
  /\ \A i \in 1 .. Len(chain) - n : chain'[i] = chain[i]
  /\ \A i \in Len(chain) - n + 1 .. Len(chain') :
       chain'[i] \in Candidate => chain'[i] \in DOMAIN found /\ Len(found[chain'[i]]) = i - 1

LEMMA NewBlockMoves ==
  ASSUME LifeAssumption, StateInv, NewBlock
  PROVE  Moved(0)
<1>1. chain \in Chains /\ 0 \in Other \cup Candidate /\ 0 \notin Candidate
  BY DEF LifeAssumption, StateInv, ChainInv, Other
<1>2. /\ chain' \in Chains /\ Len(chain') = Len(chain) + 1
      /\ \A i \in 1 .. Len(chain) : chain'[i] = chain[i]
      /\ chain'[Len(chain) + 1] = 0
  BY <1>1, AppendProperties DEF NewBlock, Chains
<1> QED
  BY <1>1, <1>2, LenProperties DEF Moved, NewBlock, Chains, LifeAssumption

LEMMA TakenMoves ==
  ASSUME LifeAssumption, StateInv, sub.step = "send", Taken
  PROVE  Moved(0) /\ taken' = taken \cup {sub.cand}
<1>1. chain \in Chains /\ sub.cand \in DOMAIN found /\ sub.cand \in Other \cup Candidate
  BY DEF StateInv, ChainInv, SubInv, FoundInv
<1>2. /\ chain' \in Chains /\ Len(chain') = Len(chain) + 1
      /\ \A i \in 1 .. Len(chain) : chain'[i] = chain[i]
      /\ chain'[Len(chain) + 1] = sub.cand
  BY <1>1, AppendProperties DEF Taken, Chains
<1>3. Len(found[sub.cand]) = Len(chain) /\ Room /\ taken' = taken \cup {sub.cand}
  BY DEF Taken, TipMatches
<1> QED
  BY <1>1, <1>2, <1>3, LenProperties DEF Moved, Chains, LifeAssumption

LEMMA ReorgMoves ==
  ASSUME LifeAssumption, StateInv, NEW n \in 1 .. MaxReorg, Reorg(n)
  PROVE  Moved(n)
<1> DEFINE T == Other \cup Candidate
           base == Prefix(chain, Len(chain) - n)
           tail == [i \in 1 .. n |-> 0]
<1>1. chain \in Seq(T) /\ Len(chain) \in Nat /\ n \in Nat /\ n <= Len(chain) /\ Room
  BY LenProperties DEF StateInv, ChainInv, Chains, Reorg, LifeAssumption
<1>2. PICK b \in Branches(base) : chain' = base \o <<b>> \o tail
  BY DEF Reorg
<1>3. b \in T /\ (b \in Candidate => b \in DOMAIN found /\ found[b] = base)
  BY <1>2 DEF Branches, StateInv, FoundInv, LifeAssumption, Other
<1>4. /\ base \in Seq(T) /\ Len(base) = Len(chain) - n
      /\ \A i \in 1 .. Len(chain) - n : base[i] = chain[i]
  <2>1. \A i \in 1 .. Len(chain) - n : chain[i] \in T
    BY <1>1, ElementOfSeq
  <2> HIDE DEF T
  <2>2. /\ SubSeq(chain, 1, Len(chain) - n) \in Seq(T)
        /\ Len(SubSeq(chain, 1, Len(chain) - n)) =
             IF 1 <= Len(chain) - n THEN Len(chain) - n - 1 + 1 ELSE 0
        /\ \A i \in 1 .. Len(chain) - n - 1 + 1 :
             SubSeq(chain, 1, Len(chain) - n)[i] = chain[1 + i - 1]
    BY <1>1, <2>1, SubSeqProperties
  <2> QED BY <1>1, <2>2 DEF Prefix
<1>5. tail \in Seq(T) /\ Len(tail) = n /\ \A i \in 1 .. n : tail[i] = 0
  BY <1>1 DEF Other
<1>6. <<b>> \in Seq(T) /\ Len(<<b>>) = 1 /\ <<b>>[1] = b
  BY <1>3
<1> HIDE DEF T, base, tail
<1>7. /\ base \o <<b>> \in Seq(T) /\ Len(base \o <<b>>) = Len(base) + 1
      /\ \A i \in 1 .. Len(base) + 1 :
           (base \o <<b>>)[i] = IF i <= Len(base) THEN base[i] ELSE <<b>>[i - Len(base)]
  BY <1>4, <1>6, ConcatProperties
<1> DEFINE front == base \o <<b>>
<1>f. front \in Seq(T) /\ Len(front) = Len(base) + 1
  BY <1>7
<1> HIDE DEF front
<1>8. /\ chain' \in Seq(T) /\ Len(chain') = Len(front) + Len(tail)
      /\ \A i \in 1 .. Len(front) + Len(tail) :
           chain'[i] = IF i <= Len(front) THEN front[i] ELSE tail[i - Len(front)]
  <2>1. chain' = front \o tail
    BY <1>2 DEF front
  <2> QED BY <1>5, <1>f, <2>1, ConcatProperties
<1>9. \A i \in Len(chain) - n + 1 .. Len(chain') :
        chain'[i] = IF i = Len(base) + 1 THEN b ELSE 0
  <2> SUFFICES ASSUME NEW i \in Len(chain) - n + 1 .. Len(chain')
               PROVE  chain'[i] = IF i = Len(base) + 1 THEN b ELSE 0
    OBVIOUS
  <2>0. Len(base) \in Nat /\ i \in Nat /\ i \in 1 .. Len(front) + Len(tail)
    BY <1>1, <1>4, <1>5, <1>f, <1>8
  <2>1. CASE i = Len(base) + 1
    <3>1. chain'[i] = front[i]
      BY <1>8, <1>f, <2>0, <2>1
    <3>2. front[i] = <<b>>[i - Len(base)]
      BY <1>7, <2>0, <2>1 DEF front
    <3> QED BY <1>6, <2>0, <2>1, <3>1, <3>2
  <2>2. CASE i # Len(base) + 1
    <3>0. i >= Len(base) + 1 /\ i <= Len(base) + 1 + n
      BY <1>1, <1>4, <1>5, <1>f, <2>0
    <3>a. \A k, l, m \in Nat : l >= k + 1 /\ l <= k + 1 + m /\ l # k + 1
                              => l > k + 1 /\ l - (k + 1) \in 1 .. m
      OBVIOUS
    <3>1. i > Len(front) /\ i - Len(front) \in 1 .. n
      BY ONLY <1>1, <1>f, <2>0, <2>2, <3>0, <3>a
    <3> QED BY <1>5, <1>8, <1>f, <2>0, <2>2, <3>1
  <2> QED BY <2>1, <2>2
<1>10. \A i \in 1 .. Len(chain) - n : chain'[i] = chain[i]
  <2> SUFFICES ASSUME NEW i \in 1 .. Len(chain) - n PROVE chain'[i] = chain[i]
    OBVIOUS
  <2>0. i \in Nat /\ i <= Len(base) /\ i \in 1 .. Len(front) + Len(tail) /\ Len(base) \in Nat
    BY <1>1, <1>4, <1>5, <1>f
  <2>1. chain'[i] = front[i]
    BY <1>8, <1>f, <2>0
  <2>2. front[i] = base[i]
    BY <1>7, <2>0 DEF front
  <2> QED BY <1>4, <2>1, <2>2
<1>11. \A i \in Len(chain) - n + 1 .. Len(chain') :
         chain'[i] \in Candidate =>
           chain'[i] \in DOMAIN found /\ Len(found[chain'[i]]) = i - 1
  <2>1. 0 \notin Candidate
    BY DEF LifeAssumption
  <2> QED BY <1>1, <1>3, <1>4, <1>9, <2>1
<1>12. chain' \in Chains /\ Len(chain') = Len(chain) + 1
  BY <1>1, <1>4, <1>5, <1>8, <1>f DEF T, Chains
<1> QED
  BY <1>1, <1>10, <1>11, <1>12 DEF Moved, LifeAssumption

LEMMA MovedState ==
  ASSUME LifeAssumption, StateInv, NEW n, Moved(n),
         UNCHANGED <<found, latest, events, row, follow, since, snap>>
  PROVE  ChainInv' /\ RowInv' /\ FollowInv' /\ Placed'
<1>1. Len(chain) \in Nat /\ Len(chain') = Len(chain) + 1 /\ Len(snap) \in Nat
  BY LenProperties DEF StateInv, ChainInv, Moved, Chains
<1>2. ChainInv'
  BY <1>1 DEF StateInv, ChainInv, Moved, Room, LifeAssumption
<1>3. RowInv'
  BY <1>1 DEF StateInv, RowInv, Height
<1>4. FollowInv'
  BY <1>1 DEF StateInv, FollowInv, Moved, Room, LifeAssumption
<1>5. Placed'
  <2> SUFFICES ASSUME NEW i \in 1 .. Len(chain'), chain'[i] \in Candidate
               PROVE  chain'[i] \in DOMAIN found /\ Len(found[chain'[i]]) = i - 1
    BY DEF Placed
  <2>0. n \in Nat /\ n <= Len(chain)
    BY DEF Moved, LifeAssumption
  <2>1. CASE i \in 1 .. Len(chain) - n
    <3>1. i \in 1 .. Len(chain) /\ chain'[i] = chain[i]
      BY <1>1, <2>0, <2>1 DEF Moved
    <3> QED BY <3>1 DEF StateInv, Placed
  <2>2. CASE i \notin 1 .. Len(chain) - n
    <3>1. i \in Len(chain) - n + 1 .. Len(chain')
      BY <1>1, <2>0, <2>2
    <3> QED BY <3>1 DEF Moved
  <2> QED BY <2>1, <2>2
<1> QED BY <1>2, <1>3, <1>4, <1>5

\* The blocks of the branch that is left are the last n.
LEMMA MovedTaken ==
  ASSUME LifeAssumption, StateInv, NEW n, Moved(n), UNCHANGED found,
         taken' = taken \/ (taken' = taken \cup {sub.cand} /\ TipMatches(sub.cand)
                              /\ sub.step = "send" /\ sub'.step = "evidence"),
         sub' = sub \/ sub'.step = "evidence"
  PROVE  TakenInv'
<1>1. Len(chain) \in Nat /\ Len(chain') = Len(chain) + 1
  BY LenProperties DEF StateInv, ChainInv, Moved, Chains
<1>2. \A c \in taken : Len(found[c]) \in Nat /\ Len(found[c]) < Len(chain)
  BY LenProperties DEF StateInv, TakenInv, FoundInv, Chains
<1> QED
  BY <1>1, <1>2 DEF StateInv, TakenInv, TipMatches

-----------------------------------------------------------------------------
(* The state, step by step *)

LEMMA StateInit == LifeAssumption /\ Init => StateInv
<1> SUFFICES ASSUME LifeAssumption, Init PROVE StateInv
  OBVIOUS
<1>1. <<>> \in Chains /\ Len(<<>>) = 0 /\ <<>> \in Seq(Event) /\ <<>> \in Seq(Nat)
  BY DEF Chains
<1>2. ChainInv /\ FoundInv /\ Placed /\ TakenInv
  BY <1>1 DEF Init, ChainInv, FoundInv, Placed, TakenInv, LifeAssumption, Idle
<1>3. SubInv /\ EventsInv
  BY <1>1 DEF Init, SubInv, EventsInv, Idle, Steps, LifeAssumption
<1>4. RowInv /\ FollowInv
  BY <1>1 DEF Init, RowInv, FollowInv, NoRow, AtRest, Kinds, LifeAssumption
<1>5. accepted \in [Candidate -> Statuses]
  BY DEF Init, Statuses
<1> QED BY <1>2, <1>3, <1>4, <1>5 DEF StateInv

LEMMA StateChain ==
  ASSUME LifeAssumption, StateInv, NewBlock \/ \E n \in 1 .. MaxReorg : Reorg(n)
  PROVE  StateInv'
<1>1. PICK n : Moved(n)
  BY NewBlockMoves, ReorgMoves
<1>2. UNCHANGED <<found, partial, taken, latest, sub, sent, events, row, follow, since,
                  snap, accepted>>
  BY DEF NewBlock, Reorg
<1>3. ChainInv' /\ RowInv' /\ FollowInv' /\ Placed'
  BY <1>1, <1>2, MovedState
<1>4. TakenInv'
  BY <1>1, <1>2, MovedTaken
<1>5. FoundInv' /\ SubInv' /\ EventsInv'
  BY <1>2 DEF StateInv, FoundInv, SubInv, EventsInv
<1> QED
  BY <1>2, <1>3, <1>4, <1>5 DEF StateInv

\* The submission goes on without the chain, the finds and the logs.
LEMMA StateSub ==
  ASSUME LifeAssumption, StateInv,
         \/ \E c \in Candidate : Submit(c)
         \/ Guard \/ Recheck
  PROVE  StateInv'
<1>1. UNCHANGED <<chain, found, partial, taken, latest, sent, events, row, follow, since,
                  snap, accepted>>
  BY DEF Submit, Guard, Recheck, Compare
<1>t. TipMatches(sub.cand) => sub.cand \notin taken
  <2>1. \A c \in taken : Len(found[c]) < Len(chain) /\ Len(chain) \in Nat
    BY LenProperties DEF StateInv, TakenInv, ChainInv, Chains
  <2> QED BY <2>1 DEF TipMatches
<1>2. SubInv' /\ EventsInv' /\ TakenInv'
  <2>1. ASSUME NEW c \in Candidate, Submit(c) PROVE SubInv' /\ EventsInv' /\ TakenInv'
    <3>1. /\ c \in DOMAIN found /\ Len(events) < MaxEvents
          /\ \/ sub' = Skipped(c)
             \/ sub' = [step |-> "guard", cand |-> c, accepted |-> FALSE] /\ sent < MaxSends
      BY <2>1 DEF Submit, Skipped, BudgetLeft
    <3>2. /\ sub' \in [step : Steps, cand : Candidate \cup {Nobody}, accepted : BOOLEAN]
          /\ sub'.cand = c /\ sub'.step \in {"guard", "evidence"}
          /\ sub'.step = "guard" => sent < MaxSends
      <4>1. CASE sub' = Skipped(c)
        BY <4>1 DEF Skipped, Steps
      <4>2. CASE /\ sub' = [step |-> "guard", cand |-> c, accepted |-> FALSE]
                 /\ sent < MaxSends
        BY <4>2 DEF Steps
      <4> QED BY <3>1, <4>1, <4>2
    <3>3. SubInv'
      BY <1>1, <3>1, <3>2 DEF StateInv, SubInv
    <3>4. EventsInv'
      BY <1>1, <3>1, <3>2 DEF StateInv, EventsInv
    <3>5. TakenInv'
      BY <1>1, <3>2 DEF StateInv, TakenInv
    <3> QED BY <3>3, <3>4, <3>5
  <2>2. ASSUME NEW step \in {"guard", "recheck"}, NEW next \in {"recheck", "send"},
               Compare(step, next)
        PROVE SubInv' /\ EventsInv' /\ TakenInv'
    <3>1. /\ sub.step = step /\ sub.step # "idle"
          /\ sub' \in [step : Steps, cand : Candidate \cup {Nobody}, accepted : BOOLEAN]
          /\ sub'.cand = sub.cand /\ sub'.step \in {next, "evidence"}
          /\ sub'.step = next => TipMatches(sub.cand)
      BY <2>2 DEF Compare, At, StateInv, SubInv, Steps
    <3>2. SubInv'
      BY <1>1, <3>1 DEF StateInv, SubInv, Steps
    <3>3. EventsInv'
      BY <1>1, <3>1 DEF StateInv, EventsInv, Steps
    <3>4. TakenInv'
      BY <1>1, <1>t, <3>1 DEF StateInv, TakenInv
    <3> QED BY <3>2, <3>3, <3>4
  <2> QED BY <2>1, <2>2 DEF Guard, Recheck
<1>5. ChainInv' /\ FoundInv' /\ RowInv' /\ FollowInv' /\ Placed'
  BY <1>1 DEF StateInv, ChainInv, FoundInv, RowInv, FollowInv, Placed, Height
<1> QED
  BY <1>1, <1>2, <1>5 DEF StateInv


\* The daemon is called; the answer may be lost.
LEMMA StateSend ==
  ASSUME LifeAssumption, StateInv, Answered \/ Unanswered
  PROVE  StateInv'
<1>1. UNCHANGED <<found, partial, latest, events, row, follow, since, snap, accepted>>
  BY DEF Answered, Unanswered
<1>2. /\ sub.step = "send" /\ sub'.step = "evidence" /\ sub'.cand = sub.cand
      /\ sub' \in [step : Steps, cand : Candidate \cup {Nobody}, accepted : BOOLEAN]
      /\ sub.cand \in DOMAIN found /\ sent' \in {sent, sent + 1} /\ sent < MaxSends
  BY DEF Answered, Unanswered, At, StateInv, SubInv, Steps
<1>3. SubInv'
  BY <1>1, <1>2 DEF StateInv, SubInv, LifeAssumption
<1>4. EventsInv'
  BY <1>1, <1>2 DEF StateInv, EventsInv, Steps
<1>5. CASE NotTaken
  <2>1. ChainInv' /\ FoundInv' /\ RowInv' /\ FollowInv' /\ Placed' /\ TakenInv'
    BY <1>1, <1>2, <1>5 DEF NotTaken, StateInv, ChainInv, FoundInv, RowInv, FollowInv,
       Placed, TakenInv, Height
  <2> QED BY <1>1, <1>3, <1>4, <2>1 DEF StateInv
<1>6. CASE Taken
  <2>1. Moved(0) /\ taken' = taken \cup {sub.cand}
    BY <1>2, <1>6, TakenMoves
  <2>2. ChainInv' /\ RowInv' /\ FollowInv' /\ Placed'
    BY <1>1, <2>1, MovedState
  <2>3. TakenInv'
    <3>1. TipMatches(sub.cand)
      BY <1>6 DEF Taken
    <3> QED BY <1>1, <1>2, <2>1, <3>1, MovedTaken
  <2>4. FoundInv'
    BY <1>1, <1>2, <2>1 DEF StateInv, FoundInv
  <2> QED BY <1>1, <1>3, <1>4, <2>2, <2>3, <2>4 DEF StateInv
<1> QED
  BY <1>5, <1>6 DEF Answered, Unanswered

\* A line is added to one of the logs.
LEMMA StateRecord ==
  ASSUME LifeAssumption, StateInv, RecordEvent \/ RecordOutcome
  PROVE  StateInv'
<1>1. UNCHANGED <<chain, found, partial, taken, latest, sent, follow, since, snap, accepted>>
  BY DEF RecordEvent, RecordOutcome
<1>2. ChainInv' /\ FoundInv' /\ Placed'
  BY <1>1 DEF StateInv, ChainInv, FoundInv, Placed
<1>e. events \in Seq(Event) /\ Len(events) \in Nat /\ DOMAIN events = 1 .. Len(events)
  BY LenProperties DEF StateInv, EventsInv
<1>3. CASE RecordEvent
  <2>1. /\ sub.step = "evidence" /\ sub.step # "idle" /\ sub'.step = "outcome"
        /\ sub'.cand = sub.cand /\ sub.cand \in DOMAIN found /\ row' = row
        /\ sub' \in [step : Steps, cand : Candidate \cup {Nobody}, accepted : BOOLEAN]
        /\ Evidence \in Event /\ Evidence.cand = sub.cand
    BY <1>3 DEF RecordEvent, At, Evidence, Event, StateInv, SubInv, FoundInv, Steps
  <2>2. /\ events' \in Seq(Event) /\ Len(events') = Len(events) + 1
        /\ \A i \in 1 .. Len(events) : events'[i] = events[i]
        /\ events'[Len(events) + 1] = Evidence
        /\ DOMAIN events' = 1 .. Len(events) + 1
    BY <1>3, <1>e, <2>1, AppendProperties, LenProperties DEF RecordEvent
  <2>3. SubInv'
    BY <1>1, <2>1 DEF StateInv, SubInv
  <2>4. EventsInv'
    BY <1>e, <2>1, <2>2 DEF StateInv, EventsInv, Steps, LifeAssumption
  <2>5. RowInv'
    BY <1>1, <1>e, <2>1, <2>2 DEF StateInv, RowInv, Height
  <2>6. FollowInv'
    BY <1>1, <1>e, <2>2 DEF StateInv, FollowInv
  <2>7. TakenInv'
    BY <1>1, <2>1 DEF StateInv, TakenInv
  <2> QED BY <1>1, <1>2, <2>3, <2>4, <2>5, <2>6, <2>7 DEF StateInv
<1>4. CASE RecordOutcome
  <2>1. /\ sub.step = "outcome" /\ sub' = Idle /\ events' = events
        /\ sub.cand \in Candidate /\ Len(events) > 0
        /\ events[Len(events)].cand = sub.cand
        /\ row' = [row EXCEPT ![sub.cand] =
                     [event |-> Len(events), kind |-> "unchecked", height |-> 0]]
    BY <1>4 DEF RecordOutcome, StateInv, SubInv, FoundInv, EventsInv
  <2>2. SubInv' /\ EventsInv' /\ TakenInv'
    BY <1>1, <2>1 DEF StateInv, SubInv, EventsInv, TakenInv, Idle, Steps
  <2>3. RowInv'
    <3>1. row' \in [Candidate -> [event : Nat, kind : Kinds, height : Nat]]
      BY <1>e, <2>1 DEF StateInv, RowInv, Kinds
    <3>2. Len(chain) \in Nat
      BY LenProperties DEF StateInv, ChainInv, Chains
    <3>3. ASSUME NEW c \in Candidate
          PROVE  /\ row'[c].event <= Len(events) /\ row'[c].height <= Len(chain)
                 /\ row'[c].kind # "absent" =>
                      row'[c].event \in DOMAIN events /\ events[row'[c].event].cand = c
                 /\ row'[c].kind = "match" => c \in DOMAIN found /\ row'[c].height = Height(c)
      <4>1. CASE c = sub.cand
        BY <1>e, <2>1, <3>2, <4>1 DEF StateInv, RowInv
      <4>2. CASE c # sub.cand
        BY <2>1, <4>2 DEF StateInv, RowInv
      <4> QED BY <4>1, <4>2
    <3> QED BY <1>1, <2>1, <3>1, <3>3 DEF RowInv, Height
  <2>4. FollowInv'
    BY <1>1, <2>1 DEF StateInv, FollowInv
  <2> QED BY <1>1, <1>2, <2>2, <2>3, <2>4 DEF StateInv
<1> QED BY <1>3, <1>4


\* The Stratum process apart from its submission, and what reads the chain and the logs.
LEMMA StateOther ==
  ASSUME LifeAssumption, StateInv,
         FetchTemplate \/ (\E c \in Candidate : Mine(c)) \/ Die \/ Produce \/ Track
  PROVE  StateInv'
<1>1. UNCHANGED <<chain, taken, events, row, follow, since>>
  BY DEF FetchTemplate, Mine, Die, Produce, Track
<1>c. chain \in Chains /\ latest \in Chains /\ Len(chain) \in Nat
  BY LenProperties DEF StateInv, ChainInv, Chains
<1>2. ChainInv'
  <2>1. latest' \in {latest, chain} /\ snap' \in {snap, chain}
    BY DEF FetchTemplate, Mine, Die, Produce, Track
  <2> QED BY <1>1, <1>c, <2>1 DEF StateInv, ChainInv
<1>3. FoundInv' /\ \A c \in DOMAIN found : c \in DOMAIN found' /\ found'[c] = found[c]
  <2>1. ASSUME NEW c \in Candidate, Mine(c)
        PROVE  FoundInv' /\ \A d \in DOMAIN found : d \in DOMAIN found' /\ found'[d] = found[d]
    <3>1. /\ DOMAIN found' = DOMAIN found \cup {c} /\ c \notin DOMAIN found
          /\ \A d \in DOMAIN found' : found'[d] = IF d = c THEN latest ELSE found[d]
          /\ partial' \subseteq partial \cup {c} /\ taken' = taken
      BY <2>1 DEF Mine
    <3> QED BY <1>c, <3>1 DEF StateInv, FoundInv
  <2>2. CASE UNCHANGED <<found, partial>>
    BY <1>1, <2>2 DEF StateInv, FoundInv
  <2> QED BY <2>1, <2>2 DEF FetchTemplate, Die, Produce, Track
<1>4. SubInv' /\ EventsInv' /\ TakenInv'
  <2>1. CASE UNCHANGED <<sub, sent>>
    BY <1>1, <1>3, <2>1 DEF StateInv, SubInv, EventsInv, TakenInv, FoundInv
  <2>2. CASE Die
    BY <1>1, <1>3, <2>2 DEF Die, StateInv, SubInv, EventsInv, TakenInv, FoundInv, Idle, Steps,
       LifeAssumption
  <2> QED BY <2>1, <2>2 DEF FetchTemplate, Mine, Produce, Track
<1>5. RowInv' /\ FollowInv'
  BY <1>1, <1>3 DEF StateInv, RowInv, FollowInv, Height
<1>6. Placed'
  BY <1>1, <1>3 DEF StateInv, Placed
<1>7. accepted' \in [Candidate -> Statuses]
  <2>1. ASSUME Track PROVE accepted' \in [Candidate -> Statuses]
    <3>1. ASSUME NEW c \in Candidate PROVE Lifecycle(c, row[c]) \in Statuses
      <4>1. row[c].kind \in Kinds
        BY DEF StateInv, RowInv
      <4> QED BY <4>1 DEF Lifecycle, Statuses, Kinds
    <3> QED BY <2>1, <3>1 DEF Track
  <2> QED BY <2>1 DEF FetchTemplate, Mine, Die, Produce, StateInv
<1> QED
  BY <1>1, <1>2, <1>3, <1>4, <1>5, <1>6, <1>7 DEF StateInv

\* What a follow-up has to look up, and what it finds.
LEMMA NewestEvents ==
  ASSUME LifeAssumption, events \in Seq(Event)
  PROVE  /\ Newest \in Seq(Nat)
         /\ \A i \in DOMAIN Newest : Newest[i] \in DOMAIN events
         /\ \A k \in DOMAIN events :
              k + Count > Len(events) => \E i \in DOMAIN Newest : Newest[i] = k
<1>1. Len(events) \in Nat /\ DOMAIN events = 1 .. Len(events) /\ Count \in Nat \ {0}
  BY LenProperties DEF LifeAssumption
<1>2. PICK l \in Nat : l = Len(events)
  BY <1>1
<1>3. PICK n \in Nat : n = IF l < Count THEN l ELSE Count
  BY <1>1
<1> DEFINE first == l - n
<1>4. /\ Newest = [i \in 1 .. n |-> first + i]
      /\ \A i \in 1 .. n : first + i \in Nat /\ first + i \in 1 .. l
      /\ \A k \in 1 .. l : k + Count > l => k - first \in 1 .. n /\ first + (k - first) = k
  <2>1. Newest = [i \in 1 .. n |-> first + i]
    BY <1>2, <1>3 DEF Newest
  <2>2. /\ \A i \in 1 .. n : first + i \in Nat /\ first + i \in 1 .. l
        /\ \A k \in 1 .. l : k + Count > l => k - first \in 1 .. n /\ first + (k - first) = k
    <3>1. Count \in Nat
      BY <1>1
    <3> QED BY ONLY <1>3, <3>1
  <2> QED BY <2>1, <2>2
<1> HIDE DEF first
<1>5. Newest \in Seq(Nat) /\ DOMAIN Newest = 1 .. n
  <2>1. Newest \in [1 .. n -> Nat]
    BY <1>4
  <2> QED BY <2>1, SeqDef
<1>6. \A i \in DOMAIN Newest : Newest[i] \in DOMAIN events
  BY <1>1, <1>2, <1>4
<1>7. ASSUME NEW k \in DOMAIN events, k + Count > Len(events)
      PROVE  \E i \in DOMAIN Newest : Newest[i] = k
  <2>1. k - first \in DOMAIN Newest /\ Newest[k - first] = k
    BY <1>1, <1>2, <1>4, <1>7
  <2> QED BY <2>1
<1> QED BY <1>5, <1>6, <1>7

LEMMA RestOf ==
  ASSUME NEW s \in Seq(Nat), s # <<>>
  PROVE  /\ Tail(s) \in Seq(Nat) /\ 1 \in DOMAIN s /\ Head(s) = s[1]
         /\ \A i \in DOMAIN Tail(s) : i + 1 \in DOMAIN s /\ Tail(s)[i] = s[i + 1]
         /\ \A i \in DOMAIN s : i = 1 \/ (i - 1 \in DOMAIN Tail(s) /\ Tail(s)[i - 1] = s[i])
<1>1. Len(s) \in Nat /\ DOMAIN s = 1 .. Len(s) /\ Len(s) # 0
  BY LenProperties, EmptySeq
<1>2. /\ Tail(s) \in Seq(Nat) /\ Len(Tail(s)) = Len(s) - 1
      /\ \A i \in 1 .. Len(Tail(s)) : Tail(s)[i] = s[i + 1]
  BY HeadTailProperties
<1>3. DOMAIN Tail(s) = 1 .. Len(s) - 1
  BY <1>2, LenProperties
<1>4. Head(s) = s[1]
  OBVIOUS
<1>5. ASSUME NEW l \in Nat \ {0}
      PROVE  /\ \A i \in 1 .. l - 1 : i + 1 \in 1 .. l
             /\ \A i \in 1 .. l : i = 1 \/ (i - 1 \in 1 .. l - 1 /\ i - 1 + 1 = i)
             /\ 1 \in 1 .. l
  OBVIOUS
<1> QED BY <1>1, <1>2, <1>3, <1>4, <1>5

LEMMA StateFollow ==
  ASSUME LifeAssumption, StateInv, FollowStart \/ FollowNext \/ FollowEnd \/ FollowDies
  PROVE  StateInv'
<1>1. UNCHANGED <<chain, found, partial, taken, latest, sub, sent, events, snap, accepted>>
  BY DEF FollowStart, FollowNext, FollowEnd, FollowDies
<1>2. ChainInv' /\ FoundInv' /\ SubInv' /\ EventsInv' /\ Placed' /\ TakenInv'
  BY <1>1 DEF StateInv, ChainInv, FoundInv, SubInv, EventsInv, Placed, TakenInv
<1>3. Len(chain) \in Nat /\ events \in Seq(Event)
  BY LenProperties DEF StateInv, ChainInv, Chains, EventsInv
<1>4. CASE FollowStart
  <2>1. RowInv'
    BY <1>1, <1>4 DEF FollowStart, StateInv, RowInv, Height
  <2>2. FollowInv'
    BY <1>1, <1>3, <1>4, NewestEvents DEF FollowStart, StateInv, FollowInv, Selected
  <2> QED BY <1>1, <1>2, <2>1, <2>2 DEF StateInv
<1>5. CASE FollowNext
  <2> DEFINE e == Head(follow.todo)
             c == events[e].cand
  <2>1. /\ follow.todo \in Seq(Nat) /\ follow.todo # <<>>
        /\ follow' = [follow EXCEPT !.todo = Tail(follow.todo)] /\ since' = since
    BY <1>5 DEF FollowNext, StateInv, FollowInv
  <2>2. /\ Tail(follow.todo) \in Seq(Nat)
        /\ \A i \in DOMAIN Tail(follow.todo) :
             i + 1 \in DOMAIN follow.todo /\ Tail(follow.todo)[i] = follow.todo[i + 1]
        /\ 1 \in DOMAIN follow.todo /\ e = follow.todo[1]
    BY <2>1, RestOf
  <2>3. FollowInv'
    <3>1. follow' \in [todo : Seq(Nat), from : Nat, busy : BOOLEAN]
      BY <2>1, <2>2 DEF StateInv, FollowInv
    <3>2. follow'.todo = Tail(follow.todo) /\ follow'.from = follow.from
          /\ follow'.busy = follow.busy
      BY <2>1 DEF StateInv, FollowInv
    <3> HIDE DEF e
    <3> QED BY <1>1, <2>1, <2>2, <3>1, <3>2 DEF StateInv, FollowInv
  <2>4. e \in DOMAIN events /\ e \in Nat /\ e <= Len(events) /\ c \in Candidate
    <3>1. e \in DOMAIN events
      BY <2>2 DEF StateInv, FollowInv
    <3>2. DOMAIN events = 1 .. Len(events) /\ Len(events) \in Nat
      BY <1>3, LenProperties
    <3>3. events[e] \in Event
      BY <1>3, <3>1, <3>2, ElementOfSeq
    <3>4. e \in Nat /\ e <= Len(events)
      BY <3>1, <3>2
    <3> QED BY <3>1, <3>3, <3>4 DEF Event
  <2> HIDE DEF e, c
  <2>5. PICK r : /\ row' = [row EXCEPT ![c] = r]
                 /\ r.event = e /\ r.height <= Len(chain)
                 /\ r \in [event : Nat, kind : Kinds, height : Nat]
                 /\ r.kind = "match" => c \in DOMAIN found /\ r.height = Height(c)
    <3>1. ChainRow(c, e) \in [event : Nat, kind : Kinds, height : Nat]
          /\ ChainRow(c, e).event = e /\ ChainRow(c, e).height <= Len(chain)
          /\ (ChainRow(c, e).kind = "match"
                => c \in DOMAIN found /\ ChainRow(c, e).height = Height(c))
      <4>1. CASE OnChain(c)
        <5>1. PICK i \in 1 .. Len(chain) : chain[i] = c
          BY <4>1, LenProperties DEF OnChain, ToSet, StateInv, ChainInv, Chains
        <5>2. c \in DOMAIN found /\ Len(found[c]) = i - 1
          BY <2>4, <5>1 DEF StateInv, Placed
        <5>3. i \in Nat /\ i <= Len(chain)
          BY <1>3
        <5>4. Height(c) = i
          BY <5>2, <5>3 DEF Height
        <5> QED BY <1>3, <2>4, <4>1, <5>2, <5>3, <5>4 DEF ChainRow, Kinds
      <4>2. CASE ~OnChain(c)
        BY <1>3, <2>4, <4>2 DEF ChainRow, Kinds
      <4> QED BY <4>1, <4>2
    <3>2. ErrorRow(row[c], e) \in [event : Nat, kind : Kinds, height : Nat]
          /\ ErrorRow(row[c], e).event = e /\ ErrorRow(row[c], e).height <= Len(chain)
          /\ ErrorRow(row[c], e).kind # "match"
      BY <1>3, <2>4 DEF ErrorRow, Kinds
    <3>3. row' = [row EXCEPT ![c] = ChainRow(c, e)] \/ row' = [row EXCEPT ![c] = ErrorRow(row[c], e)]
      BY <1>5 DEF FollowNext, AppendRow, c, e
    <3> QED BY <3>1, <3>2, <3>3
  <2>6. RowInv'
    <3>1. row' \in [Candidate -> [event : Nat, kind : Kinds, height : Nat]]
      BY <2>4, <2>5 DEF StateInv, RowInv
    <3>2. ASSUME NEW d \in Candidate
          PROVE  /\ row'[d].event <= Len(events) /\ row'[d].height <= Len(chain)
                 /\ row'[d].kind # "absent" =>
                      row'[d].event \in DOMAIN events /\ events[row'[d].event].cand = d
                 /\ row'[d].kind = "match" => d \in DOMAIN found /\ row'[d].height = Height(d)
      <4>1. CASE d = c
        <5>1. row'[d] = r
          BY <2>4, <2>5, <4>1 DEF StateInv, RowInv
        <5>2. events[e].cand = c
          BY DEF c
        <5> QED BY <2>4, <2>5, <4>1, <5>1, <5>2
      <4>2. CASE d # c
        <5>1. row'[d] = row[d]
          BY <2>5, <4>2 DEF StateInv, RowInv
        <5> QED BY <5>1 DEF StateInv, RowInv
      <4> QED BY <4>1, <4>2
    <3> QED BY <1>1, <3>1, <3>2 DEF RowInv, Height
  <2> QED BY <1>1, <1>2, <2>3, <2>6 DEF StateInv
<1>6. CASE FollowEnd \/ FollowDies
  <2>1. /\ row' = row /\ follow' = AtRest
        /\ since' = since \/ (since' = follow.from /\ follow.busy)
    BY <1>6 DEF FollowEnd, FollowDies
  <2>2. RowInv'
    BY <1>1, <2>1 DEF StateInv, RowInv, Height
  <2>3. FollowInv'
    <3>1. AtRest \in [todo : Seq(Nat), from : Nat, busy : BOOLEAN]
      BY DEF AtRest
    <3>2. since' \in Nat /\ since' <= Len(chain) /\ Len(chain) <= since' + Gap
      BY <1>3, <2>1 DEF StateInv, FollowInv, LifeAssumption
    <3> QED BY <1>1, <1>3, <2>1, <3>1, <3>2 DEF FollowInv, AtRest
  <2> QED BY <1>1, <1>2, <2>2, <2>3 DEF StateInv
<1> QED BY <1>4, <1>5, <1>6

LEMMA StateStep == LifeAssumption /\ StateInv /\ [Next]_vars => StateInv'
<1> SUFFICES ASSUME LifeAssumption, StateInv, [Next]_vars PROVE StateInv'
  OBVIOUS
<1>1. CASE UNCHANGED vars
  BY <1>1 DEF vars, StateInv, ChainInv, FoundInv, SubInv, EventsInv, RowInv, FollowInv,
     Placed, TakenInv, Height
<1>2. CASE Next
  BY <1>2, StateChain, StateSub, StateSend, StateRecord, StateOther, StateFollow DEF Next
<1> QED BY <1>1, <1>2

LEMMA StateAlways == Spec => []StateInv
<1>1. Init => StateInv
  BY LifeAssumption, StateInit
<1>2. StateInv /\ [Next]_vars => StateInv'
  BY LifeAssumption, StateStep
<1> QED BY <1>1, <1>2, PTL DEF Spec

\* What was read of the chain and of the logs is behind them, and the budget is kept.
THEOREM TypeCorrect == Spec => []TypeOK
<1>1. StateInv => TypeOK
  <2> SUFFICES ASSUME StateInv PROVE TypeOK
    OBVIOUS
  <2>1. Len(events) \in Nat
    BY LenProperties DEF StateInv, EventsInv
  <2>2. \A c \in Candidate : row[c].event \in 0 .. Len(events) /\ row[c].height <= Len(chain)
    BY <2>1 DEF StateInv, RowInv
  <2>3. sub = Idle <=> sub.step = "idle"
    BY DEF StateInv, SubInv, Idle
  <2> QED
    BY <2>2, <2>3 DEF TypeOK, StateInv, ChainInv, FoundInv, SubInv, EventsInv, FollowInv,
       Chains, Steps
<1> QED BY <1>1, StateAlways, PTL

\* The tip is compared with the parent of the block before every submitblock, and the
\* chain has outgrown the parent of a block the daemon has taken.
THEOREM SentOnce == Spec => []NotSentAgain
<1>1. StateInv => NotSentAgain
  BY DEF StateInv, TakenInv, NotSentAgain
<1> QED BY <1>1, StateAlways, PTL


-----------------------------------------------------------------------------
(* What is buried stays, and is looked up in time *)

\* The chain moves, or it stays and the finds grow.
LEMMA ChainStep ==
  ASSUME LifeAssumption, StateInv, [Next]_vars
  PROVE  \/ /\ chain' = chain
            /\ \A c \in DOMAIN found : c \in DOMAIN found' /\ found'[c] = found[c]
         \/ /\ found' = found
            /\ \E n : Moved(n)
<1>1. CASE NewBlock \/ \E n \in 1 .. MaxReorg : Reorg(n)
  BY <1>1, NewBlockMoves, ReorgMoves DEF NewBlock, Reorg
<1>2. CASE Answered \/ Unanswered
  BY <1>2, TakenMoves DEF Answered, Unanswered, NotTaken
<1>3. ASSUME NEW c \in Candidate, Mine(c)
      PROVE  /\ chain' = chain
             /\ \A d \in DOMAIN found : d \in DOMAIN found' /\ found'[d] = found[d]
  BY <1>3 DEF Mine
<1>4. CASE \/ UNCHANGED vars \/ FetchTemplate \/ \E c \in Candidate : Submit(c)
           \/ Guard \/ Recheck \/ RecordEvent \/ RecordOutcome \/ Die
           \/ FollowStart \/ FollowNext \/ FollowEnd \/ FollowDies \/ Produce \/ Track
  BY <1>4 DEF vars, FetchTemplate, Submit, Guard, Recheck, Compare, RecordEvent,
     RecordOutcome, Die, FollowStart, FollowNext, FollowEnd, FollowDies, Produce, Track
<1> QED BY <1>1, <1>2, <1>3, <1>4 DEF Next

\* Where a candidate of the chain stands.
LEMMA StandsAt ==
  ASSUME StateInv, NEW c \in Candidate
  PROVE  /\ DOMAIN chain = 1 .. Len(chain) /\ Len(chain) \in Nat
         /\ OnChain(c) <=> \E i \in 1 .. Len(chain) : chain[i] = c
         /\ \A i \in 1 .. Len(chain) :
              chain[i] = c => c \in DOMAIN found /\ Height(c) = i
<1>1. DOMAIN chain = 1 .. Len(chain) /\ Len(chain) \in Nat
  BY LenProperties DEF StateInv, ChainInv, Chains
<1>2. OnChain(c) <=> \E i \in 1 .. Len(chain) : chain[i] = c
  BY <1>1 DEF OnChain, ToSet
<1>3. ASSUME NEW i \in 1 .. Len(chain), chain[i] = c
      PROVE  c \in DOMAIN found /\ Height(c) = i
  <2>1. c \in DOMAIN found /\ Len(found[c]) = i - 1
    BY <1>3 DEF StateInv, Placed
  <2> QED BY <1>1, <2>1 DEF Height
<1> QED BY <1>1, <1>2, <1>3

LEMMA BuriedStays ==
  ASSUME LifeAssumption, StateInv, StateInv', [Next]_vars, NEW c \in Candidate, Buried(c)
  PROVE  Buried(c)'
<1>1. PICK i \in 1 .. Len(chain) : chain[i] = c
  BY StandsAt DEF Buried
<1>2. /\ c \in DOMAIN found /\ Height(c) = i /\ Len(chain) \in Nat
      /\ Len(chain) - i >= MaxReorg
  BY <1>1, StandsAt DEF Buried
<1>3. CASE /\ chain' = chain
           /\ \A d \in DOMAIN found : d \in DOMAIN found' /\ found'[d] = found[d]
  BY <1>2, <1>3 DEF Buried, OnChain, Height
<1>4. CASE found' = found /\ \E n : Moved(n)
  <2>1. PICK n : Moved(n)
    BY <1>4
  <2>2. n \in Nat /\ n <= MaxReorg /\ Len(chain') = Len(chain) + 1 /\ MaxReorg \in Nat
    BY <2>1 DEF Moved, LifeAssumption
  <2>3. i \in 1 .. Len(chain) - n
    BY <1>2, <2>2
  <2>4. chain'[i] = c
    BY <1>1, <2>1, <2>3 DEF Moved
  <2>5. DOMAIN chain' = 1 .. Len(chain')
    BY LenProperties DEF StateInv, ChainInv, Chains
  <2>6. OnChain(c)'
    BY <1>2, <2>2, <2>4, <2>5 DEF OnChain, ToSet
  <2>7. Height(c)' = i
    BY <1>2, <1>4 DEF Height
  <2> QED BY <1>2, <2>2, <2>6, <2>7 DEF Buried
<1> QED BY <1>3, <1>4, ChainStep

\* A row that says where a block is, of a block that is not buried, is not old.
LEMMA FreshMatch ==
  ASSUME LifeAssumption, StateInv, NEW c \in Candidate, OnChain(c), ~Buried(c)
  PROVE  Len(chain) < Height(c) + MaxReorg
<1>1. PICK i \in 1 .. Len(chain) : chain[i] = c
  BY StandsAt
<1>2. Height(c) = i /\ Len(chain) \in Nat
  BY <1>1, StandsAt
<1> QED BY <1>2 DEF Buried, LifeAssumption

LEMMA TimelyFrame ==
  ASSUME LifeAssumption, StateInv, StateInv', [Next]_vars, Timely,
         UNCHANGED <<row, follow, since>>,
         \A i \in DOMAIN events : events'[i] = events[i]
  PROVE  Timely'
<1> SUFFICES ASSUME NEW c \in Candidate, row[c].kind = "match", ~Buried(c)'
             PROVE  /\ since < row[c].height + MaxReorg
                    /\ follow.busy /\ follow.from >= row[c].height + MaxReorg => ToLookUp(c)'
  BY DEF Timely
<1>1. ~Buried(c)
  BY BuriedStays
<1>2. ToLookUp(c) => ToLookUp(c)'
  BY DEF ToLookUp, StateInv, FollowInv
<1> QED BY <1>1, <1>2 DEF Timely

LEMMA TimelyStep ==
  ASSUME LifeAssumption, NotOvertaken, StateInv, StateInv', [Next]_vars, Timely
  PROVE  Timely'
<1>e. events \in Seq(Event) /\ DOMAIN events = 1 .. Len(events) /\ Len(events) \in Nat
  BY LenProperties DEF StateInv, EventsInv
<1>1. CASE UNCHANGED <<row, follow, since, events>>
  BY <1>1, TimelyFrame
<1>2. CASE RecordEvent
  <2>1. Evidence \in Event
    BY <1>2 DEF RecordEvent, StateInv, SubInv, FoundInv, Evidence, Event
  <2>2. \A i \in DOMAIN events : events'[i] = events[i]
    BY <1>2, <1>e, <2>1, AppendProperties DEF RecordEvent
  <2> QED BY <1>2, <2>2, TimelyFrame DEF RecordEvent
<1>3. CASE RecordOutcome
  <2> SUFFICES ASSUME NEW c \in Candidate, row'[c].kind = "match", ~Buried(c)'
               PROVE  /\ since < row'[c].height + MaxReorg
                      /\ follow.busy /\ follow.from >= row'[c].height + MaxReorg => ToLookUp(c)
    BY <1>3 DEF Timely, RecordOutcome, ToLookUp
  <2>1. row'[c] = row[c]
    BY <1>3 DEF RecordOutcome, StateInv, RowInv
  <2> QED BY <2>1, BuriedStays DEF Timely
<1>4. CASE FollowStart
  <2> SUFFICES ASSUME NEW c \in Candidate, row[c].kind = "match", ~Buried(c)'
               PROVE  since < row[c].height + MaxReorg /\ ToLookUp(c)'
    BY <1>4 DEF Timely, FollowStart
  <2>1. since < row[c].height + MaxReorg
    BY BuriedStays DEF Timely
  <2>2. row[c].event \in DOMAIN events /\ events[row[c].event].cand = c
    BY DEF StateInv, RowInv
  <2>3. row[c].event + Count > Len(events)
    BY BuriedStays DEF NotOvertaken
  <2>4. follow'.todo = Newest /\ events' = events
    BY <1>4 DEF FollowStart, Selected
  <2>5. \E i \in DOMAIN Newest : Newest[i] = row[c].event
    BY <1>e, <2>2, <2>3, NewestEvents
  <2>6. ToLookUp(c)'
    BY <2>2, <2>4, <2>5 DEF ToLookUp
  <2> QED BY <2>1, <2>6
<1>5. CASE FollowNext
  <2> DEFINE e == Head(follow.todo)
             d == events[e].cand
  <2>1. /\ follow.busy /\ follow.todo \in Seq(Nat) /\ follow.todo # <<>>
        /\ follow'.todo = Tail(follow.todo) /\ follow'.from = follow.from
        /\ follow'.busy = follow.busy /\ since' = since
        /\ UNCHANGED <<chain, found, events>>
        /\ row' = [row EXCEPT ![d] = ChainRow(d, e)] \/ row' = [row EXCEPT ![d] = ErrorRow(row[d], e)]
    BY <1>5 DEF FollowNext, AppendRow, StateInv, FollowInv
  <2>t. /\ Head(follow.todo) = follow.todo[1]
        /\ \A i \in DOMAIN follow.todo :
             i = 1 \/ (i - 1 \in DOMAIN Tail(follow.todo) /\ Tail(follow.todo)[i - 1] = follow.todo[i])
    BY <2>1, RestOf
  <2> HIDE DEF e
  <2> SUFFICES ASSUME NEW c \in Candidate, row'[c].kind = "match", ~Buried(c)'
               PROVE  /\ since < row'[c].height + MaxReorg
                      /\ follow.from >= row'[c].height + MaxReorg => ToLookUp(c)'
    BY <2>1 DEF Timely
  <2>2. ~Buried(c)
    BY BuriedStays
  <2>3. CASE c = d
    <3>1. row'[c] = ChainRow(c, e) \/ row'[c] = ErrorRow(row[c], e)
      BY <2>1, <2>3 DEF StateInv, RowInv
    <3>2. OnChain(c) /\ row'[c].height = Height(c)
      BY <3>1 DEF ChainRow, ErrorRow
    <3>3. Len(chain) < Height(c) + MaxReorg
      BY <2>2, <3>2, FreshMatch
    <3>4. Len(chain) \in Nat /\ since \in Nat /\ since <= Len(chain) /\ follow.from <= Len(chain)
          /\ follow.from \in Nat
      BY LenProperties DEF StateInv, ChainInv, Chains, FollowInv
    <3>5. Height(c) + MaxReorg \in Nat
      <4>1. PICK i \in 1 .. Len(chain) : chain[i] = c
        BY <3>2, StandsAt
      <4>2. Height(c) \in Nat
        BY <4>1, <3>4, StandsAt
      <4> QED BY <4>2 DEF LifeAssumption
    <3> QED BY <3>2, <3>3, <3>4, <3>5
  <2>4. CASE c # d
    <3>1. row'[c] = row[c]
      BY <2>1, <2>4 DEF StateInv, RowInv
    <3>2. since < row[c].height + MaxReorg
      BY <2>2, <3>1 DEF Timely
    <3>3. ASSUME ToLookUp(c) PROVE ToLookUp(c)'
      <4>1. PICK i \in DOMAIN follow.todo : events[follow.todo[i]].cand = c
        BY <3>3 DEF ToLookUp
      <4>2. i # 1
        BY <2>t, <2>4, <4>1 DEF e
      <4>3. i - 1 \in DOMAIN Tail(follow.todo) /\ Tail(follow.todo)[i - 1] = follow.todo[i]
        BY <2>t, <4>2
      <4> QED BY <2>1, <4>1, <4>3 DEF ToLookUp
    <3> QED BY <2>1, <2>2, <3>1, <3>2, <3>3 DEF Timely
  <2> QED BY <2>3, <2>4
<1>6. CASE FollowEnd
  <2> SUFFICES ASSUME NEW c \in Candidate, row[c].kind = "match", ~Buried(c)'
               PROVE  follow.from < row[c].height + MaxReorg
    BY <1>6 DEF Timely, FollowEnd, AtRest
  <2>1. ~ToLookUp(c)
    BY <1>6 DEF FollowEnd, ToLookUp
  <2>2. follow.from \in Nat /\ row[c].height + MaxReorg \in Nat
    <3>1. follow.from \in Nat /\ row[c].height \in Nat
      BY DEF StateInv, FollowInv, RowInv
    <3>2. MaxReorg \in Nat
      BY DEF LifeAssumption
    <3> QED BY <3>1, <3>2
  <2> QED BY <1>6, <2>1, <2>2, BuriedStays DEF Timely, FollowEnd
<1>7. CASE FollowDies
  BY <1>7, BuriedStays DEF Timely, FollowDies, AtRest
<1> QED
  BY <1>1, <1>2, <1>3, <1>4, <1>5, <1>6, <1>7 DEF Next, vars, NewBlock, Reorg, FetchTemplate,
     Mine, Submit, Guard, Recheck, Compare, Answered, Unanswered, Die, Produce, Track

\* The numbers: with a row that is not old the block has not enough confirmations.
LEMMA TrackBuries ==
  ASSUME LifeAssumption, Paced, StateInv, Timely, NEW c \in Candidate,
         Lifecycle(c, row[c]) = "confirmed"
  PROVE  Buried(c)
<1>1. row[c].kind \in Kinds /\ row[c].height \in Nat
  BY DEF StateInv, RowInv
<1>2. row[c].kind = "match" /\ Confirmations(row[c]) >= Depth
  BY <1>1 DEF Lifecycle, Kinds
<1>3. /\ Len(snap) \in Nat /\ Len(chain) \in Nat /\ Len(snap) <= Len(chain)
      /\ since \in Nat /\ Len(chain) <= since + Gap
      /\ Depth \in Nat \ {0} /\ Gap \in Nat /\ MaxReorg \in Nat
  BY LenProperties DEF StateInv, ChainInv, Chains, FollowInv, LifeAssumption
<1>4. Len(snap) - row[c].height + 1 >= Depth
  BY <1>1, <1>2, <1>3 DEF Confirmations
<1>5. ~(since < row[c].height + MaxReorg)
  <2>1. \A s, h, k, l, d, g, m \in Nat :
          k <= l /\ l <= s + g /\ k - h + 1 >= d /\ g + m < d => ~(s < h + m)
    OBVIOUS
  <2>2. Gap + MaxReorg < Depth
    BY DEF Paced
  <2> QED BY ONLY <1>1, <1>3, <1>4, <2>1, <2>2
<1> QED BY <1>2, <1>5 DEF Timely

LEMMA LifeInit == LifeAssumption /\ Init => LifeInv
<1> SUFFICES ASSUME LifeAssumption, Init PROVE LifeInv
  OBVIOUS
<1>1. StateInv
  BY StateInit
<1>2. Timely /\ ConfirmedIsBuried
  BY DEF Init, Timely, ConfirmedIsBuried, NoRow
<1> QED BY <1>1, <1>2 DEF LifeInv

LEMMA LifeStep == LifeAssumption /\ Paced /\ NotOvertaken /\ LifeInv /\ [Next]_vars => LifeInv'
<1> SUFFICES ASSUME LifeAssumption, Paced, NotOvertaken, LifeInv, [Next]_vars PROVE LifeInv'
  OBVIOUS
<1>1. StateInv'
  BY StateStep DEF LifeInv
<1>2. Timely'
  BY <1>1, TimelyStep DEF LifeInv
<1>3. ConfirmedIsBuried'
  <2> SUFFICES ASSUME NEW c \in Candidate, accepted'[c] = "confirmed" PROVE Buried(c)'
    BY DEF ConfirmedIsBuried
  <2>1. CASE accepted' = accepted
    BY <1>1, <2>1, BuriedStays DEF LifeInv, ConfirmedIsBuried
  <2>2. CASE Track
    <3>1. Lifecycle(c, row[c]) = "confirmed"
      BY <2>2 DEF Track
    <3> QED BY <1>1, <3>1, TrackBuries, BuriedStays DEF LifeInv
  <2> QED
    BY <2>1, <2>2 DEF Next, vars, NewBlock, Reorg, FetchTemplate, Mine, Submit, Guard,
       Recheck, Compare, Answered, Unanswered, RecordEvent, RecordOutcome, Die, FollowStart,
       FollowNext, FollowEnd, FollowDies, Produce
<1> QED BY <1>1, <1>2, <1>3 DEF LifeInv

\* As long as the follow-ups keep pace with the depth and no block leaves their selection
\* before it is buried, what the payouts read as confirmed is on the chain, under more
\* blocks than a reorganisation drops.
THEOREM ConfirmedStays == ASSUME Paced PROVE Spec /\ []NotOvertaken => []ConfirmedIsBuried
<1>1. Init => LifeInv
  BY LifeAssumption, LifeInit
<1>2. NotOvertaken /\ LifeInv /\ [Next]_vars => LifeInv'
  BY LifeAssumption, LifeStep
<1>3. LifeInv => ConfirmedIsBuried
  BY DEF LifeInv
<1> QED BY <1>1, <1>2, <1>3, PTL DEF Spec

\* In particular when a follow-up looks up all the events there are.
THEOREM ConfirmedStaysInOne ==
  ASSUME Paced, MaxEvents <= Count PROVE Spec => []ConfirmedIsBuried
<1>1. StateInv => NotOvertaken
  <2> SUFFICES ASSUME StateInv, NEW c \in Candidate, row[c].kind = "match"
               PROVE  row[c].event + Count > Len(events)
    BY DEF NotOvertaken
  <2>1. Len(events) \in Nat /\ DOMAIN events = 1 .. Len(events) /\ Len(events) <= MaxEvents
    BY LenProperties DEF StateInv, EventsInv
  <2>2. row[c].event \in DOMAIN events
    BY DEF StateInv, RowInv
  <2> QED BY <2>1, <2>2, LifeAssumption DEF LifeAssumption
<1> QED BY <1>1, StateAlways, ConfirmedStays, PTL

\* Between the daemon's answer and the line in the event log a taken block is known only
\* to the process that has its submission in hand.
EvidenceInv ==
  /\ deaths \in Nat
  /\ \A c \in taken : Recorded(c) \/ (sub.cand = c /\ sub.step = "evidence")

\* Nothing but the death of the Stratum process loses the line of a block that the daemon
\* has taken: no lost answer, failed submission or repeated one does.
THEOREM EvidenceLostByDeath == ASSUME MaxDeaths = 0 PROVE Spec => []EvidenceKept
<1>1. Init => EvidenceInv
  BY DEF Init, EvidenceInv
<1>2. StateInv /\ EvidenceInv /\ [Next]_vars => EvidenceInv'
  <2> SUFFICES ASSUME StateInv, EvidenceInv, [Next]_vars PROVE EvidenceInv'
    OBVIOUS
  <2>1. CASE UNCHANGED <<taken, sub, events, deaths>>
    BY <2>1 DEF EvidenceInv, Recorded
  <2>2. CASE (\E c \in Candidate : Submit(c)) \/ Guard \/ Recheck \/ RecordOutcome
    <3>1. UNCHANGED <<taken, events, deaths>> /\ sub.step # "evidence"
      BY <2>2 DEF Submit, Guard, Recheck, Compare, RecordOutcome, Idle
    <3> QED BY <3>1 DEF EvidenceInv, Recorded
  <2>3. CASE Answered \/ Unanswered
    <3>1. /\ UNCHANGED <<events, deaths>> /\ taken' \subseteq taken \cup {sub.cand}
          /\ sub.step = "send" /\ sub'.cand = sub.cand /\ sub'.step = "evidence"
      BY <2>3 DEF Answered, Unanswered, Taken, NotTaken, At, StateInv, SubInv
    <3> QED BY <3>1 DEF EvidenceInv, Recorded
  <2>4. CASE RecordEvent
    <3>1. events \in Seq(Event) /\ Evidence \in Event /\ Evidence.cand = sub.cand
      BY <2>4 DEF RecordEvent, StateInv, EventsInv, SubInv, FoundInv, Evidence, Event
    <3>2. /\ DOMAIN events = 1 .. Len(events) /\ Len(events) \in Nat
          /\ DOMAIN events' = 1 .. Len(events) + 1
          /\ \A i \in 1 .. Len(events) : events'[i] = events[i]
          /\ events'[Len(events) + 1] = Evidence
      BY <2>4, <3>1, AppendProperties, LenProperties DEF RecordEvent
    <3>3. PICK d : d = sub.cand
      OBVIOUS
    <3>4. Recorded(d)'
      <4>1. Len(events) + 1 \in DOMAIN events' /\ events'[Len(events) + 1].cand = d
        BY <3>1, <3>2, <3>3
      <4> QED BY <4>1 DEF Recorded
    <3>5. ASSUME NEW c \in taken, Recorded(c) PROVE Recorded(c)'
      BY <3>2, <3>5 DEF Recorded
    <3>6. taken' = taken /\ deaths' = deaths
      BY <2>4 DEF RecordEvent
    <3> QED BY <3>3, <3>4, <3>5, <3>6 DEF EvidenceInv
  <2>5. ~Die /\ ~FollowDies
    BY DEF Die, FollowDies, EvidenceInv
  <2> QED
    BY <2>1, <2>2, <2>3, <2>4, <2>5 DEF Next, vars, NewBlock, Reorg, FetchTemplate, Mine,
       FollowStart, FollowNext, FollowEnd, Produce, Track
<1>3. EvidenceInv => EvidenceKept
  BY DEF EvidenceInv, EvidenceKept
<1> QED BY <1>1, <1>2, <1>3, StateAlways, PTL DEF Spec

=============================================================================
