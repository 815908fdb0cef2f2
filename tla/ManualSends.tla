---------------------------- MODULE ManualSends ----------------------------
(***************************************************************************)
(* The sends an operator starts for blocks the share log does not          *)
(* attribute, beside the payment ledger: manual_recovery_batch and         *)
(* manual_operator_backfill_fixed_distribution of                          *)
(* ops/scripts/payout_helper.py.                                           *)
(*                                                                         *)
(* Both pay a fixed list of wallets, one after the other, for a set of     *)
(* source blocks.  They hold the flock of PayoutLedger but write no        *)
(* intent: the first line of a send is written after it.  Their lines and  *)
(* transactions are kept apart from those of PayoutLedger, which never     *)
(* names these blocks; that a reconciliation may take such a transaction   *)
(* of the same amount for its own is not modelled.                         *)
(***************************************************************************)
EXTENDS PayoutLedger

CONSTANTS
  Recovery,    \* processes running manual_recovery_batch
  Backfill,    \* processes running manual_operator_backfill_fixed_distribution
  Source,      \* blocks without share data
  Shares,      \* how many wallets a batch pays
  MaxBatches,  \* bound: batches started
  MaxListings  \* bound: times payout-candidates.json is written

Hand == Recovery \cup Backfill

ASSUME HandAssumption ==
  /\ Shares \in Nat \ {0} /\ MaxBatches \in Nat /\ MaxListings \in Nat
  /\ Recovery \cap Backfill = {} /\ Hand \cap (Process \cup {None}) = {}

VARIABLES
  listed,   \* payout-candidates.json: what it says of a source
  handLog,  \* the lines of payment-actions.jsonl these tools have written
  handTxs,  \* the transactions the wallet has made for them
  hand,     \* every tool: where it is, its batch, its sources, the share it is at
  batches, listings

handVars == <<listed, handLog, handTxs, hand, batches, listings>>

Resting == [at |-> "idle", batch |-> 0, sources |-> {}, share |-> 1]

HandInit ==
  /\ listed = [s \in Source |-> "missing_share_data"]
  /\ handLog = {} /\ handTxs = {} /\ hand = [h \in Hand |-> Resting]
  /\ batches = 0 /\ listings = 0

ToolOf(h) == IF h \in Recovery THEN "recovery" ELSE "backfill"

\* A line, and, without its status, a transaction.
HandTx(h) == [tool |-> ToolOf(h), batch |-> hand[h].batch, share |-> hand[h].share,
              sources |-> hand[h].sources]
HandLine(h, status) == [tx |-> HandTx(h), status |-> status]

SentShares(tool, n) ==
  {r.tx.share : r \in {l \in handLog : l.tx.tool = tool /\ l.tx.batch = n /\ l.status = "sent"}}
SourcesOf(tool, n) ==
  UNION {r.tx.sources : r \in {l \in handLog : l.tx.tool = tool /\ l.tx.batch = n}}

Complete(tool) == {n \in 1 .. batches : SentShares(tool, n) = 1 .. Shares}

\* load_manual_operator_backfill_paid_candidate_ids,
\* load_completed_manual_recovery_batch_candidate_ids
PaidBy(tool) == UNION {SourcesOf(tool, n) : n \in Complete(tool)}

\* load_manual_recovery_protected_candidate_ids: any line protects.
Protected == UNION {r.tx.sources : r \in {l \in handLog : l.tx.tool = "recovery"}}

\* has_partial_manual_operator_backfill_payment
Partial == \E n \in (1 .. batches) \ Complete("backfill") : SentShares("backfill", n) # {}

\* The checks before the flock, repeated under it.
BackfillFree(S) == S \cap PaidBy("backfill") = {} /\ ~Partial
Free(h, S) == IF h \in Recovery THEN S \cap Protected = {} ELSE BackfillFree(S)

-----------------------------------------------------------------------------
\* generate_payout_candidates writes its file anew; which blocks the operator has
\* approved for a backfill is in the environment it runs with.
List ==
  /\ listings < MaxListings /\ listings' = listings + 1
  /\ \E approved \in SUBSET Source :
       listed' = [s \in Source |->
                    IF s \in PaidBy("backfill") \cup PaidBy("recovery") \cup Protected
                    THEN "blocked_already_paid"
                    ELSE IF s \in approved THEN "operatorApprovedBackfill"
                    ELSE "missing_share_data"]
  /\ UNCHANGED <<vars, handLog, handTxs, hand, batches>>

\* The blocks of a recovery are given by the operator, a backfill takes all approved ones.
RecoveryWants == {S \in SUBSET Source : \A s \in S : listed[s] = "missing_share_data"} \ {{}}
BackfillWants == {{s \in Source : listed[s] = "operatorApprovedBackfill"}} \ {{}}

HandStart(h) ==
  /\ hand[h].at = "idle" /\ batches < MaxBatches /\ batches' = batches + 1
  /\ \E S \in IF h \in Recovery THEN RecoveryWants ELSE BackfillWants :
       /\ Free(h, S)
       /\ hand' = [hand EXCEPT ![h] = [Resting EXCEPT !.at = "wait", !.batch = batches + 1,
                                                      !.sources = S]]
  /\ UNCHANGED <<vars, listed, handLog, handTxs, listings>>

HandGoes(h, place) == hand' = [hand EXCEPT ![h].at = place]
HandEnds(h) == hand' = [hand EXCEPT ![h] = Resting] /\ lock' = IF lock = h THEN None ELSE lock
handRest == <<log, inflight, txs, pc, job, todo, look, wrote, visited, nextId>>

\* Changed for the mutants, HandLock: the checks made before the flock are trusted.
HandLockUnchecked(h) ==
  /\ hand[h].at = "wait" /\ lock = None
  /\ lock' = h /\ HandGoes(h, "send")
  /\ UNCHANGED <<handRest, snapshot, crashes, listed, handLog, handTxs, batches, listings>>

\* The flock, and the checks again.
HandLock(h) ==
  /\ hand[h].at = "wait" /\ lock = None
  /\ IF Free(h, hand[h].sources) THEN lock' = h /\ HandGoes(h, "send") ELSE HandEnds(h)
  /\ UNCHANGED <<handRest, snapshot, crashes, listed, handLog, handTxs, batches, listings>>

\* A missing budget or CLI ends the batch before its first send.
HandBlocked(h) ==
  /\ hand[h].at \in {"wait", "send"} /\ hand[h].share = 1
  /\ HandEnds(h)
  /\ UNCHANGED <<handRest, snapshot, crashes, listed, handLog, handTxs, batches, listings>>

\* sendtoaddress without a comment.  A recovery that hears nothing for 15 seconds dies
\* of the exception and writes no line; a backfill takes it for a failure.
HandSend(h) ==
  /\ hand[h].at = "send"
  /\ \/ handTxs' = handTxs \cup {HandTx(h)} /\ HandGoes(h, "paid") /\ UNCHANGED lock
     \/ /\ handTxs' \in {handTxs} \cup IF HonestCli THEN {} ELSE {handTxs \cup {HandTx(h)}}
        /\ HandGoes(h, "refused") /\ UNCHANGED lock
  /\ UNCHANGED <<handRest, snapshot, crashes, listed, handLog, batches, listings>>

HandTimesOut(h) ==
  /\ hand[h].at = "send" /\ crashes < MaxCrashes /\ crashes' = crashes + 1
  /\ handTxs' \in {handTxs, handTxs \cup {HandTx(h)}}
  /\ IF h \in Recovery THEN HandEnds(h) ELSE HandGoes(h, "refused") /\ UNCHANGED lock
  /\ UNCHANGED <<handRest, snapshot, listed, handLog, batches, listings>>

HandRecord(h) ==
  /\ hand[h].at = "paid"
  /\ handLog' = handLog \cup {HandLine(h, "sent")}
  /\ hand' = [hand EXCEPT ![h].at = IF hand[h].share = Shares THEN "publish" ELSE "send",
                          ![h].share = IF @ = Shares THEN @ ELSE @ + 1]
  /\ UNCHANGED <<handRest, lock, snapshot, crashes, listed, handTxs, batches, listings>>

\* The first failure ends the batch; only the recovery rewrites the snapshot.
HandFails(h) ==
  /\ hand[h].at = "refused"
  /\ handLog' = handLog \cup {HandLine(h, "failed")} /\ HandEnds(h)
  /\ snapshot' = IF h \in Recovery THEN Success(log) ELSE snapshot
  /\ UNCHANGED <<handRest, crashes, listed, handTxs, batches, listings>>

HandPublish(h) ==
  /\ hand[h].at = "publish"
  /\ snapshot' = Success(log) /\ HandEnds(h)
  /\ UNCHANGED <<handRest, crashes, listed, handLog, handTxs, batches, listings>>

HandCrash(h) ==
  /\ hand[h].at # "idle" /\ crashes < MaxCrashes /\ crashes' = crashes + 1
  /\ HandEnds(h)
  /\ UNCHANGED <<handRest, snapshot, listed, handLog, handTxs, batches, listings>>

HandNext ==
  \/ List
  \/ \E h \in Hand : \/ HandStart(h) \/ HandLock(h) \/ HandBlocked(h) \/ HandSend(h)
                     \/ HandTimesOut(h) \/ HandRecord(h) \/ HandFails(h) \/ HandPublish(h)
                     \/ HandCrash(h)

ManualSpec ==
  Init /\ HandInit /\ [][(Next /\ UNCHANGED handVars) \/ HandNext]_<<vars, handVars>>

-----------------------------------------------------------------------------
(* Properties *)

\* What the ledger shows as paid is not paid again, whoever waited for the flock.  Of
\* the tools, a recovery does not even follow a failed one, and a backfill does not
\* continue one that was sent in part.
NothingSentAgain ==
  /\ NothingPaidIsSent
  /\ [][\A t \in handTxs' \ handTxs : \A r \in handLog :
          /\ r.tx.tool = t.tool /\ r.tx.batch # t.batch /\ r.tx.sources \cap t.sources # {}
          => r.status = "failed" /\ t.tool = "backfill"]_<<vars, handVars>>

\* No share of a block is paid twice by one tool.
HandPaysOnce ==
  \A t, u \in handTxs : t.tool = u.tool /\ t.share = u.share /\ t.sources \cap u.sources # {}
                        => t = u

\* A block is paid by one of the two tools only.
OneToolPays ==
  \A t, u \in handTxs : t.sources \cap u.sources # {} => t.tool = u.tool

-----------------------------------------------------------------------------
(* The inductive invariant for NothingSentAgain, where an auto run, whose     *)
(* first reconciliation writes without the flock, has no other sender beside. *)

AutoIsAlone == \A p \in AutoWorker, q \in Sender : p = q

\* From the locked check until the request leaves, nothing the attempt pays is
\* recorded as sent.
TargetUnrecorded ==
  /\ \A p \in Recorder : pc[p] = "record" => job[p].id = NoId
  /\ \A p \in Sender : pc[p] \in {"ready", "intended"} =>
       \A r \in Success(log) :
         r.id # NoId => ~(r.wallet = job[p].wallet /\ r.cands \cap job[p].cands # {})

UnderFlock == {"send", "paid", "refused", "publish"}

\* A tool sends and records under the flock only.
ToolHoldsFlock == \A h \in Hand : hand[h].at \in UnderFlock => lock = h

BatchesNumbered ==
  /\ \A h \in Hand : hand[h].at # "idle" => hand[h].batch \in 1 .. batches
  /\ \A r \in handLog : r.status \in {"sent", "failed"} /\ r.tx.batch \in 1 .. batches

\* Of another batch for its sources, a tool under way knows only failed backfills.
OthersFailed ==
  \A h \in Hand : hand[h].at \in UnderFlock =>
    \A r \in handLog :
      /\ r.tx.tool = ToolOf(h) /\ r.tx.batch # hand[h].batch
      /\ r.tx.sources \cap hand[h].sources # {}
      => r.status = "failed" /\ h \notin Recovery

ManualInv == TargetUnrecorded /\ ToolHoldsFlock /\ BatchesNumbered /\ OthersFailed
=============================================================================
