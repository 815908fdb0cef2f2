----------------------------- MODULE BlockLife -----------------------------
(***************************************************************************)
(* The life of a block the pool finds: it is submitted to the daemon       *)
(* (stratum_ingress.py), looked up on the chain (daemon_rpc.py,            *)
(* live-stratum.sh candidate-followup) and given a lifecycle status        *)
(* (track_accepted_candidates.py).                                         *)
(*                                                                         *)
(* The Stratum process works on one submission at a time, because its      *)
(* calls of the daemon block the event loop; the daemon's chain, the       *)
(* follow-up and the tracker move between its calls.  A submission that    *)
(* a miner sends twice is assessed twice: the duplicate check comes later. *)
(* Submitting is enabled and the job of a share is cached.                 *)
(*                                                                         *)
(* A block is identified by the chain up to it.  Blocks of others are 0 or *)
(* 1, so that rival branches can be told apart.  Of the outcome log only   *)
(* the last row of a block is ever used; a row names the event it is       *)
(* about.                                                                  *)
(***************************************************************************)
EXTENDS Naturals, Sequences, SequencesExt, FiniteSets

CONSTANTS
  Candidate,  \* the blocks the pool's miners find
  Depth,      \* confirmations of a confirmed block, 100 in the code
  Recent,     \* recent_blocks_limit
  Count,      \* how many events a follow-up looks up
  MaxSends,   \* real_submitblock_max_sends
  MaxReorg,   \* assumption: no reorganisation drops more blocks than this
  Gap,        \* assumption: blocks between the starts of two follow-ups
  MaxHeight,  \* bound: height of the chain
  MaxEvents,  \* bound: submissions of candidates
  MaxErrors,  \* bound: failed lookups
  MaxDeaths   \* bound: deaths of the Stratum process and of follow-ups

ASSUME LifeAssumption ==
  /\ IsFiniteSet(Candidate) /\ Candidate \cap Nat = {}
  /\ {Depth, Recent, Count} \subseteq Nat \ {0}
  /\ {MaxSends, MaxReorg, Gap, MaxHeight, MaxEvents, MaxErrors, MaxDeaths} \subseteq Nat

Other == {0, 1}
Nobody == "nobody"

VARIABLES
  chain,     \* the daemon's active chain
  found,     \* the chain each candidate that was found was mined on
  partial,   \* candidates whose template came without its transactions
  taken,     \* candidates the daemon has taken
  latest,    \* the chain of the latest template
  sub,       \* the submission the Stratum process works on
  sent,      \* realSubmitblockSentCount
  events,    \* candidate-events.jsonl
  row,       \* the last row of each candidate in candidate-outcome-events.jsonl
  follow,    \* the follow-up: what it has still to look up, the height it began at
  since,     \* the height the last complete follow-up began at
  snap,      \* the chain of pool-snapshot.json
  accepted,  \* accepted-candidates.json: the lifecycle status of each candidate
  errors, deaths

vars == <<chain, found, partial, taken, latest, sub, sent, events, row, follow, since, snap, accepted, errors, deaths>>

Idle == [step |-> "idle", cand |-> Nobody, accepted |-> FALSE]
NoRow == [event |-> 0, kind |-> "absent", height |-> 0]
AtRest == [todo |-> <<>>, from |-> 0, busy |-> FALSE]
Statuses == {"absent", "candidate_recorded", "submit_accepted", "immature",
             "confirmed", "orphan"}

Init ==
  /\ chain = <<>> /\ latest = <<>> /\ snap = <<>>
  /\ found = <<>> /\ partial = {} /\ taken = {}
  /\ sub = Idle /\ sent = 0 /\ events = <<>>
  /\ row = [c \in Candidate |-> NoRow]
  /\ follow = AtRest /\ since = 0
  /\ accepted = [c \in Candidate |-> "absent"]
  /\ errors = 0 /\ deaths = 0

OnChain(c) == c \in ToSet(chain)
Height(c) == Len(found[c]) + 1
Prefix(s, n) == SubSeq(s, 1, n)

-----------------------------------------------------------------------------
(* The daemon *)

Room == Len(chain) < MaxHeight /\ Len(chain) < since + Gap

NewBlock ==
  /\ Room /\ chain' = Append(chain, 0)
  /\ UNCHANGED <<found, partial, taken, latest, sub, sent, events, row, follow, since, snap, accepted, errors, deaths>>

\* What may follow a part of the chain.
Branches(base) == Other \cup {c \in taken : found[c] = base}

\* The last n blocks give way to a branch that is longer by one.
Reorg(n) ==
  LET base == Prefix(chain, Len(chain) - n) IN
  /\ Room /\ n <= Len(chain)
  /\ \E b \in Branches(base) \ {chain[Len(chain) - n + 1]} :
       chain' = base \o <<b>> \o [i \in 1 .. n |-> 0]
  /\ UNCHANGED <<found, partial, taken, latest, sub, sent, events, row, follow, since, snap, accepted, errors, deaths>>

-----------------------------------------------------------------------------
(* The Stratum process *)

\* A template arrives between two submissions.
FetchTemplate ==
  /\ sub = Idle /\ latest' = chain
  /\ UNCHANGED <<chain, found, partial, taken, sub, sent, events, row, follow, since, snap, accepted, errors, deaths>>

\* A miner finds a block; its submission is on its way.
Mine(c) ==
  /\ c \notin DOMAIN found
  /\ found' = [d \in DOMAIN found \cup {c} |-> IF d = c THEN latest ELSE found[d]]
  /\ partial' \in {partial, partial \cup {c}}
  /\ UNCHANGED <<chain, taken, latest, sub, sent, events, row, follow, since, snap, accepted, errors, deaths>>

At(step) == [sub EXCEPT !.step = step]

\* Changed for the mutants: one send too many.
BudgetLoose == sent <= MaxSends

BudgetLeft == sent < MaxSends

\* _prepare_candidate_artifact: the block can be put together, which is the payload of the
\* dry run.
Complete(c) == c \notin partial

\* The candidate is evidence of a status and nothing else.
Skipped(c) == [step |-> "evidence", cand |-> c, accepted |-> FALSE]

\* The submission arrives, perhaps not for the first time.
Submit(c) ==
  /\ sub = Idle /\ c \in DOMAIN found /\ Len(events) < MaxEvents
  /\ sub' = IF latest = found[c] /\ BudgetLeft /\ Complete(c)
            THEN [Skipped(c) EXCEPT !.step = "guard"] ELSE Skipped(c)
  /\ UNCHANGED <<chain, found, partial, taken, latest, sent, events, row, follow, since, snap, accepted, errors, deaths>>

\* Changed for the mutants: the tip is not compared.
TipUnseen(c) == TRUE

TipMatches(c) == chain = found[c]

\* get_best_block_hash is compared with the block's parent, or fails.
Compare(step, next) ==
  /\ sub.step = step
  /\ \/ TipMatches(sub.cand) /\ sub' = At(next)
     \/ sub' = At("evidence")
  /\ UNCHANGED <<chain, found, partial, taken, latest, sent, events, row, follow, since, snap, accepted, errors, deaths>>

Guard == Compare("guard", "recheck")
Recheck == Compare("recheck", "send")

\* DaemonRpcClient.call of submitblock: the request reaches the daemon, which takes the
\* block if it still fits its tip, or has no effect.
Taken ==
  /\ TipMatches(sub.cand) /\ Room
  /\ chain' = Append(chain, sub.cand) /\ taken' = taken \cup {sub.cand}
NotTaken == UNCHANGED <<chain, taken>>

\* An answer counts against the budget, whatever it says.
Answered ==
  /\ sub.step = "send" /\ sent' = sent + 1
  /\ \/ Taken /\ sub' = [At("evidence") EXCEPT !.accepted = TRUE]
     \/ NotTaken /\ sub' = At("evidence")
  /\ UNCHANGED <<found, partial, latest, events, row, follow, since, snap, accepted,
                 errors, deaths>>

\* The call fails, with the block taken or not.
Unanswered ==
  /\ sub.step = "send" /\ sub' = At("evidence")
  /\ Taken \/ NotTaken
  /\ UNCHANGED <<found, partial, latest, sent, events, row, follow, since, snap,
                 accepted, errors, deaths>>

\* What is written of a submission.
Evidence == [cand |-> sub.cand, accepted |-> sub.accepted]

\* _append_candidate_evidence: a line in the event log, then one in the outcome log.
RecordEvent ==
  /\ sub.step = "evidence" /\ sub' = At("outcome")
  /\ events' = Append(events, Evidence)
  /\ UNCHANGED <<chain, found, partial, taken, latest, sent, row, follow, since, snap,
                 accepted, errors, deaths>>

RecordOutcome ==
  /\ sub.step = "outcome" /\ sub' = Idle
  /\ row' = [row EXCEPT ![sub.cand] =
               [event |-> Len(events), kind |-> "unchecked", height |-> 0]]
  /\ UNCHANGED <<chain, found, partial, taken, latest, sent, events, follow, since, snap,
                 accepted, errors, deaths>>

\* The Stratum process dies and starts again with a full budget.
Die ==
  /\ deaths < MaxDeaths /\ deaths' = deaths + 1
  /\ sub' = Idle /\ sent' = 0
  /\ UNCHANGED <<chain, found, partial, taken, latest, events, row, follow, since, snap,
                 accepted, errors>>

-----------------------------------------------------------------------------
(* The follow-up *)

\* The last events, Count of them at most.
Newest == LET n == IF Len(events) < Count THEN Len(events) ELSE Count
          IN [i \in 1 .. n |-> Len(events) - n + i]

\* Changed for the mutants: the newest event is left out.
SelectedShort == SubSeq(Newest, 1, Len(Newest) - 1)

\* Those a follow-up looks up.
Selected == Newest

FollowStart ==
  /\ ~follow.busy
  /\ follow' = [busy |-> TRUE, from |-> Len(chain), todo |-> Selected]
  /\ UNCHANGED <<chain, found, partial, taken, latest, sub, sent, events, row, since, snap, accepted, errors, deaths>>

\* Changed for the mutants: a row of an earlier answer outlives a failed lookup.
ErrorKeepsRow(r, e) == r

\* The row of a failed lookup: nothing is known.
ErrorRow(r, e) == [event |-> e, kind |-> "error", height |-> 0]

\* check_candidate_followup: where an active block is; none for an unknown block
\* and for one that is not active.
ChainRow(c, e) ==
  IF OnChain(c) THEN [event |-> e, kind |-> "match", height |-> Height(c)]
  ELSE [event |-> e, kind |-> "none", height |-> 0]

\* append_candidate_followup_event: the outcome log's last row of the block.
AppendRow(c, r) == row' = [row EXCEPT ![c] = r]

\* One event is looked up and what was found appended to the outcome log.
FollowNext ==
  LET e == Head(follow.todo) c == events[e].cand IN
  /\ follow.busy /\ follow.todo # <<>>
  /\ follow' = [follow EXCEPT !.todo = Tail(@)]
  /\ \/ AppendRow(c, ChainRow(c, e)) /\ UNCHANGED errors
     \/ /\ errors < MaxErrors /\ errors' = errors + 1
        /\ AppendRow(c, ErrorRow(row[c], e))
  /\ UNCHANGED <<chain, found, partial, taken, latest, sub, sent, events, since, snap,
                 accepted, deaths>>

FollowEnd ==
  /\ follow.busy /\ follow.todo = <<>>
  /\ since' = follow.from /\ follow' = AtRest
  /\ UNCHANGED <<chain, found, partial, taken, latest, sub, sent, events, row, snap,
                 accepted, errors, deaths>>

FollowDies ==
  /\ follow.busy /\ deaths < MaxDeaths /\ deaths' = deaths + 1
  /\ follow' = AtRest
  /\ UNCHANGED <<chain, found, partial, taken, latest, sub, sent, events, row, since, snap, accepted, errors>>

-----------------------------------------------------------------------------
(* Lifecycle *)

\* The producer's pool-snapshot.json.
Produce ==
  /\ snap' = chain
  /\ UNCHANGED <<chain, found, partial, taken, latest, sub, sent, events, row, follow, since, accepted, errors, deaths>>

\* Another block is where the row says the candidate is, among the snapshot's few.
Divergent(c, r) ==
  /\ r.kind = "match" /\ r.height \in Len(snap) - Recent + 1 .. Len(snap)
  /\ Prefix(snap, r.height) # Append(found[c], c)

Confirmations(r) == IF Len(snap) >= r.height THEN Len(snap) - r.height + 1 ELSE 0

\* map_lifecycle_status.  A match without confirmations counts as immature.
Lifecycle(c, r) ==
  CASE r.kind = "absent"                         -> "absent"
    [] r.kind = "none" \/ Divergent(c, r)        -> "orphan"
    [] r.kind = "match" /\ ~Divergent(c, r)      ->
         IF Confirmations(r) >= Depth THEN "confirmed" ELSE "immature"
    [] r.kind \in {"unchecked", "error"}         ->
         IF events[r.event].accepted THEN "submit_accepted" ELSE "candidate_recorded"

\* The tracker reads the snapshot, which may be old, and the outcome log.
Track ==
  /\ accepted' = [c \in Candidate |-> Lifecycle(c, row[c])]
  /\ UNCHANGED <<chain, found, partial, taken, latest, sub, sent, events, row, follow, since,
                 snap, errors, deaths>>

Next ==
  \/ NewBlock \/ \E n \in 1 .. MaxReorg : Reorg(n)
  \/ FetchTemplate \/ \E c \in Candidate : Mine(c) \/ Submit(c)
  \/ Guard \/ Recheck \/ Answered \/ Unanswered \/ RecordEvent \/ RecordOutcome \/ Die
  \/ FollowStart \/ FollowNext \/ FollowEnd \/ FollowDies
  \/ Produce \/ Track

Spec == Init /\ [][Next]_vars

\* The timers of the follow-up, the producer and the trackers.
Fairness ==
  /\ WF_vars(FollowStart) /\ WF_vars(FollowNext) /\ WF_vars(FollowEnd)
  /\ WF_vars(Produce) /\ WF_vars(Track)

FairSpec == Spec /\ Fairness

-----------------------------------------------------------------------------
(* Properties *)

\* The budget is kept, and what was read of the chain is not ahead of it.
TypeOK ==
  /\ chain \in Seq(Other \cup Candidate) /\ Len(chain) <= MaxHeight
  /\ taken \cup partial \subseteq DOMAIN found /\ DOMAIN found \subseteq Candidate
  /\ sub.step \in {"idle", "guard", "recheck", "send", "evidence", "outcome"}
  /\ sub = Idle <=> sub.step = "idle"
  /\ sent \in 0 .. MaxSends /\ Len(events) <= MaxEvents
  /\ \A c \in Candidate : row[c].event \in 0 .. Len(events) /\ row[c].height <= Len(chain)
  /\ follow.from <= Len(chain) /\ since <= Len(chain) /\ Len(snap) <= Len(chain)
  /\ accepted \in [Candidate -> Statuses]

\* A block the daemon has taken is not sent again, however often a miner submits it
\* and whatever answer was lost.
NotSentAgain == sub.step = "send" => sub.cand \notin taken

Buried(c) == OnChain(c) /\ Len(chain) - Height(c) >= MaxReorg

\* What the payouts read as confirmed is on the chain for good, with lookups that
\* fail, reorganisations, a snapshot that lags and a follow-up that is still running:
\* as long as Gap + MaxReorg < Depth and Count covers all events.
ConfirmedIsBuried ==
  \A c \in Candidate : accepted[c] = "confirmed" => Buried(c)

\* A recorded block that is deep enough is confirmed in the end, and one that the
\* chain has passed is an orphan.
Recorded(c) == c \in {events[i].cand : i \in DOMAIN events}
Deep(c) == OnChain(c) /\ Len(chain) - Height(c) + 1 >= Depth
Passed(c) == ~OnChain(c) /\ Len(chain) >= Height(c) + MaxReorg
Settles ==
  \A c \in Candidate :
    Recorded(c) /\ (Deep(c) \/ Passed(c))
      ~> accepted[c] = IF OnChain(c) THEN "confirmed" ELSE "orphan"

\* Every block the daemon has taken leaves its line in the event log.
EvidenceKept == \A c \in taken : Recorded(c) \/ sub.cand = c
=============================================================================
