---------------------------- MODULE PayoutLedger ----------------------------
(***************************************************************************)
(* The payment ledger of ops/scripts/payout_helper.py: the append-only     *)
(* file payment-actions.jsonl, the flock beside it, the processes that     *)
(* send through the wallet CLI, and the wallet daemon behind that CLI.     *)
(*                                                                         *)
(*   auto workers  run auto_payout_once, which aggregates the unpaid       *)
(*                 candidates of a wallet into one send                    *)
(*                 (payout_wallet_send_aggregated_once);                   *)
(*   once workers  run payout_wallet_send_once for one candidate;          *)
(*   recorders     run record_payment for a payment made by hand.          *)
(*                                                                         *)
(* The readers of the file never look at the order of its lines (a later   *)
(* "ambiguous" line replaces the intent of the same id, nothing else), so  *)
(* the file is the SET of its records.  A timestamped intent id is the     *)
(* number of the attempt.  An amount is the value AmountOf gives the       *)
(* candidates it pays.                                                     *)
(***************************************************************************)
EXTENDS Naturals, FiniteSets

CONSTANTS
  Candidate,      \* confirmed candidate ids with a payout row for every wallet
  Wallet,         \* payout addresses
  AutoWorker,     \* processes running auto_payout_once
  OnceWorker,     \* processes running payout_wallet_send_once
  Recorder,       \* processes running record_payment
  None,           \* no lock holder, no wallet, no lookup result
  AmountOf,       \* [SUBSET Candidate -> amounts], what a send of them amounts to
  MaxAttempts,    \* bound: wallet attempts in a behaviour
  MaxSends,       \* effective_max_sends of one auto_payout_once run
  MaxCrashes,     \* bound: process crashes in a behaviour
  TimelyWallet,   \* the daemon never executes a request its caller gave up on
  HonestCli       \* a non-zero exit or a bad txid means nothing was sent

Sender  == AutoWorker \cup OnceWorker
Process == Sender \cup Recorder
Attempt == 1 .. MaxAttempts
NoId    == 0

ASSUME ConstantsAssumption ==
  /\ MaxAttempts \in Nat /\ MaxSends \in Nat /\ MaxCrashes \in Nat
  /\ TimelyWallet \in BOOLEAN /\ HonestCli \in BOOLEAN
  /\ None \notin Process \cup Wallet
  /\ AutoWorker \cap OnceWorker = {}
  /\ Sender \cap Recorder = {}
  /\ Recorder \cap (0 .. MaxAttempts) = {}

\* A wallet transaction: the attempt in its comment, its address, what it pays.
Tx == [id : 0 .. MaxAttempts, wallet : Wallet \cup {None}, cands : SUBSET Candidate]
NoTx == [id |-> NoId, wallet |-> None, cands |-> {}]

\* A line of payment-actions.jsonl.  tx is the attempt whose transaction a
\* "sent" line names, or the recorder that supplied the txid by hand.
Record == [kind   : {"intent", "ambiguous", "failed", "sent"},
           id     : 0 .. MaxAttempts,
           agg    : BOOLEAN,
           wallet : Wallet,
           cands  : SUBSET Candidate,
           tx     : (0 .. MaxAttempts) \cup Recorder]

Lookup == [rec : Record, tx : 0 .. MaxAttempts]

VARIABLES
  log,        \* payment-actions.jsonl
  snapshot,   \* the payments payments-snapshot.json shows
  lock,       \* holder of the flock on payment-actions.lock
  inflight,   \* requests handed to the wallet daemon and not yet decided
  txs,        \* transactions the wallet has made
  pc,         \* where each process stands
  job,        \* the send each process is working on, as the Tx it would make
  todo,       \* unresolved intents a reconciliation has read and not handled
  look,       \* its last wallet lookup, not yet written to the ledger
  wrote,      \* it recorded a payment, so it rewrites the snapshot at its end
  visited,    \* wallets an auto run has invoked the sender for
  nextId,     \* next attempt id
  crashes     \* crashes so far

vars == <<log, snapshot, lock, inflight, txs, pc, job, todo, look, wrote,
          visited, nextId, crashes>>

PcValues == {"idle", "prereconcile", "select", "wait", "reconcile", "ready",
             "intended", "rpc", "publish", "record"}

-----------------------------------------------------------------------------
(* Reading the ledger *)

Success(l) == {r \in l : r.kind = "sent"}

\* Changed for the mutants, Resolves: a cleared intent stays open.
ResolvesByPaymentOnly(r, i) ==
  /\ r.kind = "sent"
  /\ \/ r.id = i.id
     \/ ~i.agg /\ r.wallet = i.wallet /\ i.cands \subseteq r.cands

\* A success or failure line resolves the intent of its id, and every
\* non-aggregated intent for a (candidate, wallet) it names, whenever written.
Resolves(r, i) ==
  /\ r.kind \in {"sent", "failed"}
  /\ \/ r.id = i.id
     \/ ~i.agg /\ r.wallet = i.wallet /\ i.cands \subseteq r.cands

\* The last intent line of an id stands for it: "ambiguous" replaces "intent".
IsLastIntent(l, i) ==
  \/ i.kind = "ambiguous"
  \/ i.kind = "intent" /\ \A r \in l : r.kind = "ambiguous" => r.id # i.id

Unresolved(l) ==
  {i \in l : IsLastIntent(l, i) /\ \A r \in l : ~Resolves(r, i)}

\* Changed for the mutants, Covered: a pending intent covers nothing.
CoveredByPaidOnly(l, w, S) ==
  \E r \in Success(l) : r.wallet = w /\ r.cands \cap S # {}

\* Some candidate of S is paid, or about to be, for wallet w.
Covered(l, w, S) ==
  \E r \in Unresolved(l) \cup Success(l) : r.wallet = w /\ r.cands \cap S # {}

\* payment_already_recorded, asked for one candidate.
AlreadyRecorded(w, c) == Covered(log, w, {c})

\* payments-snapshot.json shows the successful payments.
SnapshotItems(l) == Success(l)

\* What a search of the wallet history for intent i may return: the
\* transaction with i's comment, else one to its address for its amount (if in
\* the two-hour window, which is not modelled), else nothing.
ByComment(i) == {t \in txs : t.id = i.id}
ByAmount(i)  == {t \in txs : t.wallet = i.wallet /\ AmountOf[t.cands] = AmountOf[i.cands]}

\* Changed for the mutants, Found: any transaction to the address will do.
FoundByAddress(i) == {t.id : t \in {u \in txs : u.wallet = i.wallet}} \cup {NoId}

Found(i) == IF ByComment(i) # {} THEN {t.id : t \in ByComment(i)}
            ELSE {t.id : t \in ByAmount(i)} \cup {NoId}

\* Changed for the mutants, Line: the wallet is lost.
LineWithoutWallet(p, kind, tx) ==
  [kind |-> kind, id |-> job[p].id, agg |-> p \in AutoWorker,
   wallet |-> None, cands |-> job[p].cands, tx |-> tx]

Line(p, kind, tx) ==
  [kind |-> kind, id |-> job[p].id, agg |-> p \in AutoWorker,
   wallet |-> job[p].wallet, cands |-> job[p].cands, tx |-> tx]

IntentLine(p, id) ==
  [kind |-> "intent", id |-> id, agg |-> p \in AutoWorker,
   wallet |-> job[p].wallet, cands |-> job[p].cands, tx |-> NoId]

SentLine(p) == Line(p, "sent", job[p].id)

-----------------------------------------------------------------------------
Init ==
  /\ log = {} /\ snapshot = {} /\ lock = None
  /\ inflight = {} /\ txs = {}
  /\ pc = [p \in Process |-> "idle"]
  /\ job = [p \in Process |-> NoTx]
  /\ todo = [p \in Process |-> {}]
  /\ look = [p \in Process |-> None]
  /\ wrote = [p \in Process |-> FALSE]
  /\ visited = [p \in Process |-> {}]
  /\ nextId = 1 /\ crashes = 0

Goto(p, where) == pc' = [pc EXCEPT ![p] = where]
Append(r) == log' = log \cup {r}

\* Changed for the mutants, Release: a process that waits for the flock frees the holder's.
ReleaseAnyones(p) == lock' = None

Release(p) == lock' = IF lock = p THEN None ELSE lock

\* A sender returns: the auto run goes on to its next wallet.
Return(p) ==
  /\ Goto(p, IF p \in AutoWorker THEN "select" ELSE "idle")
  /\ job' = [job EXCEPT ![p] = NoTx]
  /\ Release(p)

-----------------------------------------------------------------------------
(* Starting *)

\* auto_payout_once reconciles before it selects, without the flock.
AutoStart(p) ==
  /\ p \in AutoWorker /\ pc[p] = "idle"
  /\ Goto(p, "prereconcile")
  /\ todo' = [todo EXCEPT ![p] = Unresolved(log)]
  /\ visited' = [visited EXCEPT ![p] = {}]
  /\ UNCHANGED <<log, snapshot, lock, inflight, txs, job, look, wrote, nextId, crashes>>

\* One wallet group of the selection; which candidates are confirmed and above
\* the threshold is upstream's choice, so S is any set of unpaid ones.
AutoSelect(p, w, S) ==
  /\ p \in AutoWorker /\ pc[p] = "select"
  /\ w \notin visited[p] /\ Cardinality(visited[p]) < MaxSends
  /\ S # {} /\ ~Covered(log, w, S)
  /\ Goto(p, "wait")
  /\ job' = [job EXCEPT ![p] = [id |-> NoId, wallet |-> w, cands |-> S]]
  /\ visited' = [visited EXCEPT ![p] = @ \cup {w}]
  /\ UNCHANGED <<log, snapshot, lock, inflight, txs, todo, look, wrote, nextId, crashes>>

AutoFinish(p) ==
  /\ p \in AutoWorker /\ pc[p] = "select"
  /\ Goto(p, "idle")
  /\ UNCHANGED <<log, snapshot, lock, inflight, txs, job, todo, look, wrote,
                 visited, nextId, crashes>>

\* What payout_wallet_send_preflight answers before anything is sent, of the
\* ledger; the row, its amount, the balance and the address are upstream's.
PreflightOk(w, c) == ~AlreadyRecorded(w, c)

\* payout_wallet_send_once repeats the guards of the preflight.
OnceStart(p, w, c) ==
  /\ p \in OnceWorker /\ pc[p] = "idle"
  /\ PreflightOk(w, c)
  /\ Goto(p, "wait")
  /\ job' = [job EXCEPT ![p] = [id |-> NoId, wallet |-> w, cands |-> {c}]]
  /\ UNCHANGED <<log, snapshot, lock, inflight, txs, todo, look, wrote, visited,
                 nextId, crashes>>

\* A guard that writes nothing stops the send: balance, address or budget.
GuardBlocks(p) ==
  /\ pc[p] \in {"wait", "ready"}
  /\ Return(p)
  /\ UNCHANGED <<log, snapshot, inflight, txs, todo, look, wrote, visited, nextId, crashes>>

-----------------------------------------------------------------------------
(* reconcile_unresolved_payment_intents, unlocked and under the flock *)

AcquireLock(p) ==
  /\ pc[p] = "wait" /\ lock = None
  /\ lock' = p
  /\ Goto(p, "reconcile")
  /\ todo' = [todo EXCEPT ![p] = Unresolved(log)]
  /\ UNCHANGED <<log, snapshot, inflight, txs, job, look, wrote, visited, nextId, crashes>>

Reconciling(p) == pc[p] \in {"prereconcile", "reconcile"}

ReconcileLook(p) ==
  /\ Reconciling(p) /\ look[p] = None
  /\ \E i \in todo[p], t \in 0 .. MaxAttempts :
       /\ t \in Found(i)
       /\ look' = [look EXCEPT ![p] = [rec |-> i, tx |-> t]]
       /\ todo' = [todo EXCEPT ![p] = @ \ {i}]
  /\ UNCHANGED <<log, snapshot, lock, inflight, txs, pc, job, wrote, visited, nextId, crashes>>

\* The wallet history cannot be read: the intent stays unresolved.
ReconcileUnreadable(p) ==
  /\ Reconciling(p) /\ look[p] = None
  /\ \E i \in todo[p] : todo' = [todo EXCEPT ![p] = @ \ {i}]
  /\ UNCHANGED <<log, snapshot, lock, inflight, txs, pc, job, look, wrote, visited,
                 nextId, crashes>>

\* Changed for the mutants, ReconcileWrite: the intent is cleared whatever was found.
ReconcileClears(p) ==
  /\ Reconciling(p) /\ look[p] # None
  /\ Append([look[p].rec EXCEPT !.kind = "failed", !.tx = look[p].tx])
  /\ look' = [look EXCEPT ![p] = None]
  /\ UNCHANGED <<snapshot, lock, inflight, txs, pc, job, todo, wrote, visited, nextId, crashes>>

\* A found transaction records the payment, none clears the intent.
ReconcileWrite(p) ==
  /\ Reconciling(p) /\ look[p] # None
  /\ LET found == look[p].tx # NoId IN
       /\ Append([look[p].rec EXCEPT !.kind = IF found THEN "sent" ELSE "failed",
                                     !.tx = look[p].tx])
       /\ wrote' = [wrote EXCEPT ![p] = @ \/ found]
  /\ look' = [look EXCEPT ![p] = None]
  /\ UNCHANGED <<snapshot, lock, inflight, txs, pc, job, todo, visited, nextId, crashes>>

Reconciled(p) ==
  /\ todo[p] = {} /\ look[p] = None
  /\ wrote' = [wrote EXCEPT ![p] = FALSE]
  /\ snapshot' = IF wrote[p] THEN SnapshotItems(log) ELSE snapshot

PreReconciled(p) ==
  /\ pc[p] = "prereconcile" /\ Reconciled(p)
  /\ Goto(p, "select")
  /\ UNCHANGED <<log, lock, inflight, txs, job, todo, look, visited, nextId, crashes>>

\* The duplicate check repeated under the flock: no payment and no unresolved
\* intent names what the process is about to send.
StillUnpaid(p) == ~Covered(log, job[p].wallet, job[p].cands)

LockedCheck(p) ==
  /\ pc[p] = "reconcile" /\ Reconciled(p)
  /\ IF StillUnpaid(p)
     THEN Goto(p, "ready") /\ UNCHANGED <<job, lock>>
     ELSE Return(p)
  /\ UNCHANGED <<log, inflight, txs, todo, look, visited, nextId, crashes>>

-----------------------------------------------------------------------------
(* Sending *)

CliMissing(p) ==
  /\ pc[p] = "ready"
  /\ Append(Line(p, "failed", NoId))
  /\ Return(p)
  /\ UNCHANGED <<snapshot, inflight, txs, todo, look, wrote, visited, nextId, crashes>>

\* Changed for the mutants, AppendIntent: the intent never reaches the file.
IntentNotWritten(p) ==
  /\ pc[p] = "ready" /\ nextId \in Attempt
  /\ job' = [job EXCEPT ![p].id = nextId]
  /\ nextId' = nextId + 1
  /\ Goto(p, "intended")
  /\ UNCHANGED <<log, snapshot, lock, inflight, txs, todo, look, wrote, visited, crashes>>

AppendIntent(p) ==
  /\ pc[p] = "ready" /\ nextId \in Attempt
  /\ job' = [job EXCEPT ![p].id = nextId]
  /\ Append(IntentLine(p, nextId))
  /\ nextId' = nextId + 1
  /\ Goto(p, "intended")
  /\ UNCHANGED <<snapshot, lock, inflight, txs, todo, look, wrote, visited, crashes>>

\* sendtoaddress is handed to the daemon with the intent id as its comment.
Dispatch(p) ==
  /\ pc[p] = "intended"
  /\ inflight' = inflight \cup {job[p]}
  /\ Goto(p, "rpc")
  /\ UNCHANGED <<log, snapshot, lock, txs, job, todo, look, wrote, visited, nextId, crashes>>

\* The daemon executes a request, or refuses it.
WalletApply(t) ==
  /\ t \in inflight
  /\ inflight' = inflight \ {t} /\ txs' = txs \cup {t}
  /\ UNCHANGED <<log, snapshot, lock, pc, job, todo, look, wrote, visited, nextId, crashes>>

WalletRefuse(t) ==
  /\ t \in inflight
  /\ inflight' = inflight \ {t}
  /\ UNCHANGED <<log, snapshot, lock, txs, pc, job, todo, look, wrote, visited,
                 nextId, crashes>>

RpcSucceeds(p) ==
  /\ pc[p] = "rpc" /\ job[p] \in txs
  /\ Append(SentLine(p))
  /\ Goto(p, "publish")
  /\ UNCHANGED <<snapshot, lock, inflight, txs, job, todo, look, wrote, visited,
                 nextId, crashes>>

\* Exception, non-zero exit code or unusable txid: recorded as failed.
RpcFails(p) ==
  /\ pc[p] = "rpc"
  /\ HonestCli => job[p] \notin inflight \cup txs
  /\ Append(Line(p, "failed", NoId))
  /\ Return(p)
  /\ UNCHANGED <<snapshot, inflight, txs, todo, look, wrote, visited, nextId, crashes>>

\* subprocess.run gives up after 15 seconds and kills the CLI.
RpcTimesOut(p) ==
  /\ pc[p] = "rpc"
  /\ Append(Line(p, "ambiguous", NoId))
  /\ inflight' = IF TimelyWallet THEN inflight \ {job[p]} ELSE inflight
  /\ Return(p)
  /\ UNCHANGED <<snapshot, txs, todo, look, wrote, visited, nextId, crashes>>

\* generate_payments_snapshot after the success line; then the flock is freed.
Publish(p) ==
  /\ pc[p] = "publish"
  /\ snapshot' = SnapshotItems(log)
  /\ Return(p)
  /\ UNCHANGED <<log, inflight, txs, todo, look, wrote, visited, nextId, crashes>>

-----------------------------------------------------------------------------
(* record_payment: no flock, and only rows of exactly this candidate count *)

RecordCheck(p, w, c) ==
  /\ p \in Recorder /\ pc[p] = "idle"
  /\ \A r \in Success(log) : ~(~r.agg /\ r.wallet = w /\ r.cands = {c})
  /\ job' = [job EXCEPT ![p] = [id |-> NoId, wallet |-> w, cands |-> {c}]]
  /\ Goto(p, "record")
  /\ UNCHANGED <<log, snapshot, lock, inflight, txs, todo, look, wrote, visited,
                 nextId, crashes>>

RecordAppend(p) ==
  /\ pc[p] = "record"
  /\ Append(Line(p, "sent", p))
  /\ Goto(p, "publish")
  /\ UNCHANGED <<snapshot, lock, inflight, txs, job, todo, look, wrote, visited,
                 nextId, crashes>>

\* A process dies: the kernel frees its flock and its memory is gone.
Crash(p) ==
  /\ pc[p] # "idle" /\ crashes < MaxCrashes
  /\ crashes' = crashes + 1
  /\ Goto(p, "idle")
  /\ Release(p)
  /\ inflight' = IF TimelyWallet THEN inflight \ {job[p]} ELSE inflight
  /\ job' = [job EXCEPT ![p] = NoTx]
  /\ todo' = [todo EXCEPT ![p] = {}]
  /\ look' = [look EXCEPT ![p] = None]
  /\ wrote' = [wrote EXCEPT ![p] = FALSE]
  /\ UNCHANGED <<log, snapshot, txs, visited, nextId>>

-----------------------------------------------------------------------------
Reconcile(p) ==
  \/ ReconcileLook(p) \/ ReconcileUnreadable(p) \/ ReconcileWrite(p) \/ PreReconciled(p)

Send(p) ==
  \/ GuardBlocks(p) \/ AcquireLock(p) \/ LockedCheck(p) \/ CliMissing(p)
  \/ AppendIntent(p) \/ Dispatch(p) \/ RpcSucceeds(p) \/ RpcFails(p)
  \/ RpcTimesOut(p)

Start(p) ==
  \/ AutoStart(p) \/ AutoFinish(p)
  \/ \E w \in Wallet, S \in SUBSET Candidate : AutoSelect(p, w, S)

Next ==
  \/ \E p \in Sender : Start(p) \/ Reconcile(p) \/ Send(p)
  \/ \E p \in OnceWorker, w \in Wallet, c \in Candidate : OnceStart(p, w, c)
  \/ \E p \in Recorder : RecordAppend(p) \/ \E w \in Wallet, c \in Candidate : RecordCheck(p, w, c)
  \/ \E p \in Process : Publish(p) \/ Crash(p)
  \/ \E t \in inflight : WalletApply(t) \/ WalletRefuse(t)

Spec == Init /\ [][Next]_vars

\* The hourly timer restarts the auto run, a started process keeps running
\* unless it crashes, a waiter is served again and again, and so is a reader of
\* the wallet history.  Nobody is obliged to pay or to record by hand.
Fairness ==
  /\ \A p \in AutoWorker :
       WF_vars(AutoStart(p)) /\ WF_vars(AutoFinish(p)) /\ WF_vars(PreReconciled(p))
  /\ \A p \in Sender :
       /\ SF_vars(ReconcileLook(p)) /\ WF_vars(ReconcileWrite(p))
       /\ SF_vars(AcquireLock(p)) /\ WF_vars(LockedCheck(p))
       /\ WF_vars(pc[p] = "ready" /\ (GuardBlocks(p) \/ CliMissing(p) \/ AppendIntent(p)))
       /\ WF_vars(Dispatch(p))
       /\ WF_vars(RpcSucceeds(p) \/ RpcFails(p) \/ RpcTimesOut(p))
  /\ \A p \in Process : WF_vars(Publish(p))

FairSpec == Spec /\ Fairness

-----------------------------------------------------------------------------
(* Properties *)

\* The lines, transactions and processes are what the code can write and be.
TypeOK ==
  /\ log \subseteq Record /\ snapshot \subseteq Record
  /\ lock \in Sender \cup {None}
  /\ inflight \subseteq Tx /\ txs \subseteq Tx
  /\ pc \in [Process -> PcValues]
  /\ job \in [Process -> Tx]
  /\ todo \in [Process -> SUBSET Record]
  /\ look \in [Process -> Lookup \cup {None}]
  /\ wrote \in [Process -> BOOLEAN]
  /\ visited \in [Process -> SUBSET Wallet]
  /\ nextId \in 1 .. MaxAttempts + 1
  /\ crashes \in 0 .. MaxCrashes

IntentOf(l, t) == \E r \in l : /\ r.kind = "intent" /\ r.id = t.id
                               /\ r.wallet = t.wallet /\ r.cands = t.cands

\* Write-ahead: whatever the wallet was asked to pay or has paid stands as an
\* intent in the ledger, so that no crash leaves a payment nobody can find.
WriteAhead == \A t \in inflight \cup txs : IntentOf(log, t)

Holding == {"reconcile", "ready", "intended", "rpc"}

\* The flock covers everything from the duplicate check to the success line:
\* two senders are never both between them.
OneSenderAtATime ==
  \A p, q \in Sender : pc[p] \in Holding /\ pc[q] \in Holding => p = q

\* No candidate is paid twice to the same wallet.
AtMostOnce ==
  \A t, u \in txs : t.wallet = u.wallet /\ t.cands \cap u.cands # {} => t = u

\* An intent closed as failed is not, and will not be, a transaction: closing it
\* is what permits the next attempt.
ClearedMeansUnsent ==
  \A r \in log : r.kind = "failed" /\ r.id # NoId => \A t \in inflight \cup txs : t.id # r.id

\* An intent is settled by the transaction that was sent for it, never by
\* another one to the same address for the same amount.  Equal rewards refute it.
SettledByOwnTx ==
  \A r \in Success(log) : r.id # NoId => r.tx = r.id

\* Nothing line i names is paid to its wallet.
NothingPaid(i) == \A u \in txs : u.wallet = i.wallet => u.cands \cap i.cands = {}

\* Attempt n made the transaction of line i; or its amount, in a transaction to the
\* same wallet, and i has none.
Matching(i, n) ==
  \E t \in txs : /\ t.id = n /\ t.wallet = i.wallet
                 /\ AmountOf[t.cands] = AmountOf[i.cands]
                 /\ (t.id = i.id /\ t.cands = i.cands) \/ NothingPaid(i)

\* Whatever sends amount to: an intent is settled by the transaction sent for it, or
\* by another one to the address for the amount, and then nothing of what it names is
\* paid or ever will be.
SettledByMatchingTx == \A r \in Success(log) : r.id # NoId => Matching(r, r.tx)

\* Same candidate and wallet are not recorded as paid twice.
NotRecordedTwice ==
  \A r, s \in Success(log) : r.wallet = s.wallet /\ r.cands \cap s.cands # {} => r = s

\* Nothing is sent for a candidate whose payment through the wallet the ledger
\* already shows when the request leaves.  A payment made by hand may be recorded
\* while a sender is under way.
NothingPaidIsSent ==
  [][\A t \in inflight' \ inflight :
       \A r \in Success(log) :
         r.id # NoId => ~(r.wallet = t.wallet /\ r.cands \cap t.cands # {})]_vars

Outcome(l, i) == \E r \in l : r.kind \in {"sent", "failed"} /\ r.id = i.id

\* An intent whose own outcome nobody has written blocks every other request
\* for its candidates and wallet.
OpenIntentBlocks ==
  [][\A t \in inflight' \ inflight :
       \A i \in log : /\ i.kind = "intent" /\ i.id # t.id
                      /\ i.wallet = t.wallet /\ i.cands \cap t.cands # {}
                      => Outcome(log, i)]_vars

\* Every transaction is eventually recorded, by its sender or by a later run.
EventuallyRecorded ==
  \A i \in Attempt : (\E t \in txs : t.id = i) ~> (\E r \in Success(log) : r.id = i)

\* No intent stays unresolved and blocks its candidates forever.
IntentsResolve ==
  \A i \in Attempt : (\E r \in Unresolved(log) : r.id = i) ~> ~(\E r \in Unresolved(log) : r.id = i)
-----------------------------------------------------------------------------
(* The inductive invariant of the scheduled payout: one auto worker on its    *)
(* ledger, a timely wallet and an honest CLI.                                 *)

IntentKinds == {"intent", "ambiguous"}

\* Lines of one attempt agree on what they pay.
LinesAgree ==
  \A r, s \in log : r.id = s.id /\ r.id # NoId => r.wallet = s.wallet /\ r.cands = s.cands

IntentsNumbered ==
  /\ \A r \in log : r.kind \in IntentKinds => r.agg /\ r.id # NoId
  /\ \A r \in log : r.id < nextId

\* Only the running sender has a request at the daemon.
InflightIsCurrent == \A t \in inflight : \E p \in Sender : pc[p] = "rpc" /\ t = job[p]

\* The attempt in progress has its intent line and no other.
CurrentIsOpen ==
  \A p \in Sender : pc[p] \in {"intended", "rpc"} =>
    /\ job[p].id # NoId /\ IntentOf(log, job[p])
    /\ \A r \in log : r.id = job[p].id => r.kind = "intent"

\* A send has no number before its intent does, and a recorder's never has.
UnnumberedYet ==
  \A p \in Process : pc[p] \in {"wait", "reconcile", "ready", "record"} => job[p].id = NoId

\* The daemon decides a request once, and not before it is asked.
DecidedOnce ==
  /\ inflight \cap txs = {}
  /\ \A p \in Sender : pc[p] = "intended" => job[p] \notin txs

\* From the locked check on, every earlier intent for what is paid has its outcome.
OthersClosed ==
  \A p \in Sender : pc[p] \in {"ready", "intended"} =>
    \A i \in log : /\ i.kind = "intent" /\ i.id # job[p].id
                   /\ i.wallet = job[p].wallet /\ i.cands \cap job[p].cands # {}
                   => Outcome(log, i)

\* From the locked check on, nothing the attempt pays is paid by another one.
TargetUnpaid ==
  \A p \in Sender : pc[p] \in {"ready", "intended", "rpc"} =>
    \A t \in txs : t.wallet = job[p].wallet /\ t.cands \cap job[p].cands # {} =>
                     pc[p] = "rpc" /\ t = job[p]

\* What a reconciliation has read is still true when it writes.
LookupsHold ==
  \A p \in Sender :
    /\ todo[p] \subseteq {i \in log : i.kind \in IntentKinds}
    /\ look[p] # None =>
         /\ Reconciling(p)
         /\ look[p].rec \in log /\ look[p].rec.kind \in IntentKinds
         /\ look[p].tx = NoId => \A t \in txs : t.id # look[p].rec.id
         /\ look[p].tx # NoId =>
              \E t \in txs : /\ t.wallet = look[p].rec.wallet
                             /\ AmountOf[t.cands] = AmountOf[look[p].rec.cands]

\* The inductive invariant: duplicates are excluded because what the wallet has
\* paid is written, closed as sent, and therefore covered.
SafeInv ==
  /\ LinesAgree /\ IntentsNumbered /\ WriteAhead
  /\ InflightIsCurrent /\ CurrentIsOpen /\ UnnumberedYet /\ DecidedOnce
  /\ OthersClosed /\ TargetUnpaid
  /\ ClearedMeansUnsent /\ LookupsHold /\ AtMostOnce

\* No other transaction pays what intent i is to pay.
OnlyOwnTx(i) ==
  \A t \in txs : t.wallet = i.wallet /\ t.cands \cap i.cands # {} => t.id = i.id

\* What is sent, and what an intent names, is not empty.
SendsNotEmpty ==
  /\ \A i \in log : i.kind = "intent" => i.cands # {}
  /\ \A p \in Sender : pc[p] \in Holding \cup {"wait"} => job[p].cands # {}

\* From the locked check on, no payment through the wallet is recorded for what is
\* to be paid.
RequestUnrecorded ==
  \A p \in Sender : pc[p] \in {"ready", "intended", "rpc"} =>
    \A r \in Success(log) :
      r.id # NoId => ~(r.wallet = job[p].wallet /\ r.cands \cap job[p].cands # {})

\* For an intent that has no outcome yet, and every one of an attempt under way or
\* of a reconciliation, nothing but its own transaction pays.
OpenIsOwn ==
  /\ \A r \in log : r.kind = "ambiguous" => \E i \in log : i.kind = "intent" /\ i.id = r.id
  /\ \A i \in log : i.kind = "intent" => Outcome(log, i) \/ OnlyOwnTx(i)
  /\ \A p \in Sender : pc[p] = "rpc" =>
       \A i \in log : /\ i.kind = "intent" /\ i.id # job[p].id
                      /\ i.wallet = job[p].wallet /\ i.cands \cap job[p].cands # {}
                      => Outcome(log, i)
  /\ \A p \in Sender : /\ ~Reconciling(p) => todo[p] = {}
                       /\ \A i \in todo[p] : i.cands # {} /\ OnlyOwnTx(i)
                       /\ look[p] # None => \/ look[p].tx = NoId
                                            \/ Matching(look[p].rec, look[p].tx)

\* The strengthening for SettledByMatchingTx: what a search by amount finds for an
\* open intent is its own, or the intent has none and will have none.
OwnInv == SendsNotEmpty /\ RequestUnrecorded /\ OpenIsOwn /\ SettledByMatchingTx

-----------------------------------------------------------------------------
(* Refinement *)

PaidTimes(w, c) == Cardinality({t \in txs : t.wallet = w /\ c \in t.cands})
Paid == [w \in Wallet |-> [c \in Candidate |-> PaidTimes(w, c)]]
RecordedPaid ==
  [w \in Wallet |-> UNION {r.cands : r \in {s \in Success(log) : s.wallet = w}}]

\* What each transaction to a wallet was for.
PaidFor == [w \in Wallet |-> {t.cands : t \in {u \in txs : u.wallet = w}}]

Promise ==
  INSTANCE PayOnce WITH paid <- Paid, payments <- PaidFor, recorded <- RecordedPaid

\* The scheduled payout keeps the promise of PayOnce: it pays only what it never
\* paid, and records as paid only what it paid, or what amounts to as much as another
\* payment to the wallet and is not paid at all.
PaysOnce == Promise!Spec
=============================================================================
