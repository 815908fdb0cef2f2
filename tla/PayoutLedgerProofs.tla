------------------------- MODULE PayoutLedgerProofs -------------------------
(* Theorems about PayoutLedger, and, at the end, about the operator's tools  *)
(* of ManualSends beside it, for every value of their constants.             *)
EXTENDS ManualSends, FiniteSetTheorems, TLAPS

(***************************************************************************)
(* Type correctness.  A line is written from the job of its process, so    *)
(* the types need to know which processes have a job.                      *)
(***************************************************************************)
Busy == PcValues \ {"idle", "prereconcile", "select"}
JobOK == \A p \in Process : pc[p] \in Busy => job[p].wallet \in Wallet
TypeInv == TypeOK /\ JobOK

\* A ledger line made from the job of a busy process is a ledger record.
LEMMA LineType ==
  ASSUME ConstantsAssumption, TypeInv, NEW p \in Process, pc[p] \in Busy,
         NEW kind \in {"intent", "ambiguous", "failed", "sent"},
         NEW tx \in (0 .. MaxAttempts) \cup Recorder
  PROVE  Line(p, kind, tx) \in Record
  BY DEF TypeInv, TypeOK, JobOK, Line, Record, Tx

LEMMA TypeInit == ConstantsAssumption /\ Init => TypeInv
  BY DEF ConstantsAssumption, Init, TypeInv, TypeOK, JobOK, PcValues, Busy, Tx, NoTx, NoId

LEMMA TypeStep == ConstantsAssumption /\ TypeInv /\ [Next]_vars => TypeInv'
<1> SUFFICES ASSUME ConstantsAssumption, TypeInv, [Next]_vars PROVE TypeInv'
  OBVIOUS
<1> USE DEF TypeInv, TypeOK, JobOK, PcValues, Busy
<1>0. /\ AutoWorker \subseteq Process /\ OnceWorker \subseteq Process
      /\ Sender \subseteq Process /\ Recorder \subseteq Process
  BY DEF Process, Sender
<1>1. ASSUME NEW p \in Sender, Start(p) PROVE TypeInv'
  <2>1. CASE AutoStart(p)
    BY <1>0, <2>1 DEF AutoStart, Goto, Unresolved
  <2>2. CASE AutoFinish(p)
    BY <1>0, <2>2 DEF AutoFinish, Goto
  <2>3. ASSUME NEW w \in Wallet, NEW S \in SUBSET Candidate, AutoSelect(p, w, S)
        PROVE  TypeInv'
    BY <1>0, <2>3 DEF AutoSelect, Goto, Tx, NoId, ConstantsAssumption
  <2> QED BY <1>1, <2>1, <2>2, <2>3 DEF Start
<1>2. ASSUME NEW p \in Sender, Reconcile(p) PROVE TypeInv'
  <2>1. CASE ReconcileLook(p)
    BY <1>0, <2>1 DEF ReconcileLook, Lookup
  <2>2. CASE ReconcileUnreadable(p)
    BY <1>0, <2>2 DEF ReconcileUnreadable
  <2>3. CASE ReconcileWrite(p)
    <3>1. look[p] \in Lookup
      BY <1>0, <2>3 DEF ReconcileWrite
    <3>2. log' \subseteq Record
      BY <2>3, <3>1 DEF ReconcileWrite, Append, Lookup, Record
    <3> QED BY <1>0, <2>3, <3>2 DEF ReconcileWrite
  <2>4. CASE PreReconciled(p)
    BY <1>0, <2>4 DEF PreReconciled, Reconciled, Goto, SnapshotItems, Success
  <2> QED BY <1>2, <2>1, <2>2, <2>3, <2>4 DEF Reconcile
<1>3. ASSUME NEW p \in Sender, Send(p) PROVE TypeInv'
  <2>0. NoTx \in Tx
    BY DEF NoTx, Tx, NoId, ConstantsAssumption
  <2>1. CASE GuardBlocks(p)
    BY <1>0, <2>0, <2>1 DEF GuardBlocks, Return, Release, Goto
  <2>2. CASE AcquireLock(p)
    BY <1>0, <2>2 DEF AcquireLock, Goto, Unresolved
  <2>3. CASE LockedCheck(p)
    BY <1>0, <2>0, <2>3 DEF LockedCheck, Reconciled, Return, Release, Goto,
       SnapshotItems, Success
  <2>4. CASE CliMissing(p)
    <3>1. log' \subseteq Record
      BY <1>0, <2>4, LineType DEF CliMissing, Append, NoId, ConstantsAssumption
    <3> QED BY <1>0, <2>0, <2>4, <3>1 DEF CliMissing, Return, Release, Goto
  <2>5. CASE AppendIntent(p)
    <3> DEFINE i == IntentLine(p, nextId)
    <3>a. job[p] \in Tx /\ job[p].wallet \in Wallet
      BY <1>0, <2>5 DEF AppendIntent
    <3>b. nextId \in 0 .. MaxAttempts /\ 0 \in 0 .. MaxAttempts
      BY <2>5 DEF AppendIntent, Attempt, ConstantsAssumption
    <3>c. i \in Record
      BY <3>a, <3>b DEF IntentLine, Record, Tx, NoId
    <3>1. log' \subseteq Record
      BY <2>5, <3>c DEF AppendIntent, Append
    <3>2. nextId' \in 1 .. MaxAttempts + 1
      BY <2>5 DEF AppendIntent, Attempt, ConstantsAssumption
    <3> QED BY <1>0, <2>5, <3>1, <3>2 DEF AppendIntent, Goto, Tx, Attempt
  <2>6. CASE Dispatch(p)
    BY <1>0, <2>6 DEF Dispatch, Goto
  <2>7. CASE RpcSucceeds(p)
    <3>1. log' \subseteq Record
      BY <1>0, <2>7, LineType DEF RpcSucceeds, SentLine, Append, Tx
    <3> QED BY <1>0, <2>7, <3>1 DEF RpcSucceeds, Goto
  <2>8. CASE RpcFails(p)
    <3>1. log' \subseteq Record
      BY <1>0, <2>8, LineType DEF RpcFails, Append, NoId, ConstantsAssumption
    <3> QED BY <1>0, <2>0, <2>8, <3>1 DEF RpcFails, Return, Release, Goto
  <2>9. CASE RpcTimesOut(p)
    <3>1. log' \subseteq Record
      BY <1>0, <2>9, LineType DEF RpcTimesOut, Append, NoId, ConstantsAssumption
    <3> QED BY <1>0, <2>0, <2>9, <3>1 DEF RpcTimesOut, Return, Release, Goto
  <2> QED BY <1>3, <2>1, <2>2, <2>3, <2>4, <2>5, <2>6, <2>7, <2>8, <2>9 DEF Send
<1>4. ASSUME NEW p \in Recorder, RecordAppend(p) PROVE TypeInv'
  <2>a. p \in Process /\ pc[p] \in Busy
    BY <1>0, <1>4 DEF RecordAppend
  <2>b. Line(p, "sent", p) \in Record
    BY <2>a, LineType
  <2>1. log' \subseteq Record
    BY <1>4, <2>b DEF RecordAppend, Append
  <2> QED BY <1>0, <1>4, <2>1 DEF RecordAppend, Goto
<1>5. ASSUME NEW p \in Recorder, NEW w \in Wallet, NEW c \in Candidate, RecordCheck(p, w, c)
      PROVE  TypeInv'
  BY <1>0, <1>5 DEF RecordCheck, Goto, Tx, NoId, ConstantsAssumption
<1>6. ASSUME NEW p \in Process, Publish(p) PROVE TypeInv'
  BY <1>6 DEF Publish, Return, Release, Goto, SnapshotItems, Success, NoTx, Tx, NoId, ConstantsAssumption
<1>7. ASSUME NEW p \in Process, Crash(p) PROVE TypeInv'
  BY <1>7 DEF Crash, Release, Goto, NoTx, Tx, NoId, ConstantsAssumption
<1>8. ASSUME NEW t \in inflight, WalletApply(t) \/ WalletRefuse(t) PROVE TypeInv'
  BY <1>8 DEF WalletApply, WalletRefuse
<1>9. CASE UNCHANGED vars
  BY <1>9 DEF vars
<1>10. ASSUME NEW p \in OnceWorker, NEW w \in Wallet, NEW c \in Candidate, OnceStart(p, w, c)
       PROVE  TypeInv'
  BY <1>0, <1>10 DEF OnceStart, Goto, Tx, NoId, ConstantsAssumption
<1> QED
  BY <1>1, <1>2, <1>3, <1>4, <1>5, <1>6, <1>7, <1>8, <1>9, <1>10 DEF Next

LEMMA TypeInvariant == Spec => []TypeInv
  BY ConstantsAssumption, TypeInit, TypeStep, PTL DEF Spec

\* Every reachable state is well typed.
THEOREM TypeCorrect == Spec => []TypeOK
  BY TypeInvariant, PTL DEF TypeInv

(***************************************************************************)
(* The flock.  Whoever is between the locked check and the success line    *)
(* holds it, whatever the wallet does and however many senders there are.  *)
(***************************************************************************)
LockInv == \A p \in Sender : pc[p] \in Holding => lock = p

JobTypes == pc \in [Process -> PcValues] /\ job \in [Process -> Tx]

LEMMA LockStep == ConstantsAssumption /\ JobTypes /\ LockInv /\ [Next]_vars => LockInv'
<1> SUFFICES ASSUME ConstantsAssumption, JobTypes, LockInv, [Next]_vars,
                    NEW q \in Sender, pc'[q] \in Holding
             PROVE  lock' = q
  BY DEF LockInv
<1> USE DEF LockInv, Holding, Goto
<1>0. Sender \subseteq Process /\ Recorder \subseteq Process /\ pc \in [Process -> PcValues]
  BY DEF Process, JobTypes
<1>1. ASSUME NEW p \in Sender, Start(p) PROVE lock' = q
  BY <1>0, <1>1 DEF Start, AutoStart, AutoFinish, AutoSelect
<1>2. ASSUME NEW p \in Sender, Reconcile(p) PROVE lock' = q
  BY <1>0, <1>2 DEF Reconcile, ReconcileLook, ReconcileUnreadable, ReconcileWrite, PreReconciled
<1>3. ASSUME NEW p \in Sender, Send(p) PROVE lock' = q
  <2>1. CASE GuardBlocks(p) \/ CliMissing(p) \/ RpcFails(p) \/ RpcTimesOut(p)
    BY <1>0, <2>1 DEF GuardBlocks, CliMissing, RpcFails, RpcTimesOut, Return, Release
  <2>2. CASE AcquireLock(p)
    BY <1>0, <2>2 DEF AcquireLock, ConstantsAssumption, Process
  <2>3. CASE LockedCheck(p)
    BY <1>0, <2>3 DEF LockedCheck, Reconciled, Return, Release
  <2>4. CASE AppendIntent(p) \/ Dispatch(p) \/ RpcSucceeds(p)
    BY <1>0, <2>4 DEF AppendIntent, Dispatch, RpcSucceeds
  <2> QED BY <1>3, <2>1, <2>2, <2>3, <2>4 DEF Send
<1>4. ASSUME NEW p \in Recorder, RecordAppend(p) PROVE lock' = q
  BY <1>0, <1>4 DEF RecordAppend
<1>5. ASSUME NEW p \in Recorder, NEW w \in Wallet, NEW c \in Candidate, RecordCheck(p, w, c)
      PROVE  lock' = q
  BY <1>0, <1>5 DEF RecordCheck
<1>6. ASSUME NEW p \in Process, Publish(p) \/ Crash(p) PROVE lock' = q
  BY <1>0, <1>6 DEF Publish, Crash, Return, Release
<1>7. ASSUME NEW t \in inflight, WalletApply(t) \/ WalletRefuse(t) PROVE lock' = q
  BY <1>7 DEF WalletApply, WalletRefuse
<1>8. CASE UNCHANGED vars
  BY <1>8 DEF vars
<1>9. ASSUME NEW p \in OnceWorker, NEW w \in Wallet, NEW c \in Candidate, OnceStart(p, w, c)
      PROVE  lock' = q
  BY <1>0, <1>9 DEF OnceStart, Sender
<1> QED
  BY <1>1, <1>2, <1>3, <1>4, <1>5, <1>6, <1>7, <1>8, <1>9 DEF Next

\* Two senders are never both between the locked check and the success line.
THEOREM FlockExcludes == Spec => []OneSenderAtATime
<1>1. Init => LockInv
  BY DEF Init, LockInv, Holding, Process
<1>2. LockInv => OneSenderAtATime
  BY DEF LockInv, OneSenderAtATime
<1>3. TypeInv => JobTypes
  BY DEF TypeInv, TypeOK, JobTypes
<1> QED BY <1>1, <1>2, <1>3, TypeInvariant, LockStep, ConstantsAssumption, PTL DEF Spec

(***************************************************************************)
(* Write-ahead.                                                            *)
(***************************************************************************)
IntendedWritten == \A p \in Sender : pc[p] = "intended" => IntentOf(log, job[p])
WriteAheadInv == WriteAhead /\ IntendedWritten

\* No step removes a line of the ledger.
LEMMA LogGrows == ASSUME [Next]_vars PROVE log \subseteq log'
<1> USE DEF Append
<1>1. ASSUME NEW p \in Sender, Start(p) PROVE log \subseteq log'
  BY <1>1 DEF Start, AutoStart, AutoFinish, AutoSelect
<1>2. ASSUME NEW p \in Sender, Reconcile(p) PROVE log \subseteq log'
  BY <1>2 DEF Reconcile, ReconcileLook, ReconcileUnreadable, ReconcileWrite, PreReconciled
<1>3. ASSUME NEW p \in Sender, Send(p) PROVE log \subseteq log'
  BY <1>3 DEF Send, GuardBlocks, AcquireLock, LockedCheck, CliMissing, AppendIntent,
              Dispatch, RpcSucceeds, RpcFails, RpcTimesOut
<1>4. ASSUME NEW p \in Recorder,
             RecordAppend(p) \/ \E w \in Wallet, c \in Candidate : RecordCheck(p, w, c)
      PROVE  log \subseteq log'
  BY <1>4 DEF RecordAppend, RecordCheck
<1>5. ASSUME NEW p \in Process, Publish(p) \/ Crash(p) PROVE log \subseteq log'
  BY <1>5 DEF Publish, Crash
<1>6. ASSUME NEW t \in inflight, WalletApply(t) \/ WalletRefuse(t) PROVE log \subseteq log'
  BY <1>6 DEF WalletApply, WalletRefuse
<1>7. CASE UNCHANGED vars
  BY <1>7 DEF vars
<1>8. ASSUME NEW p \in OnceWorker, NEW w \in Wallet, NEW c \in Candidate, OnceStart(p, w, c)
      PROVE  log \subseteq log'
  BY <1>8 DEF OnceStart
<1> QED
  BY <1>1, <1>2, <1>3, <1>4, <1>5, <1>6, <1>7, <1>8 DEF Next

\* A line that stands for t still stands for it in a longer ledger.
LEMMA IntentStays ==
  ASSUME NEW l, NEW m, l \subseteq m, NEW t, IntentOf(l, t) PROVE IntentOf(m, t)
  BY DEF IntentOf

\* What a step hands to the daemon, and a job that becomes "intended", has a line.
NewRequestsWritten ==
  /\ \A t \in inflight' \cup txs' : t \in inflight \cup txs \/ IntentOf(log', t)
  /\ \A q \in Sender : pc'[q] = "intended" =>
       (pc[q] = "intended" /\ job'[q] = job[q]) \/ IntentOf(log', job'[q])

LEMMA NewRequests == JobTypes /\ WriteAheadInv /\ [Next]_vars => NewRequestsWritten
<1> SUFFICES ASSUME JobTypes, WriteAheadInv, [Next]_vars PROVE NewRequestsWritten
  OBVIOUS
<1>0. /\ Sender \subseteq Process /\ Recorder \subseteq Process
      /\ pc \in [Process -> PcValues] /\ job \in [Process -> Tx]
  BY DEF Process, JobTypes
<1> USE <1>0 DEF Goto, NewRequestsWritten
<1>1. ASSUME NEW p \in Sender, Start(p) PROVE NewRequestsWritten
  BY <1>1 DEF Start, AutoStart, AutoFinish, AutoSelect
<1>2. ASSUME NEW p \in Sender, Reconcile(p) PROVE NewRequestsWritten
  BY <1>2 DEF Reconcile, ReconcileLook, ReconcileUnreadable, ReconcileWrite, PreReconciled
<1>3. ASSUME NEW p \in Sender, Send(p) PROVE NewRequestsWritten
  <2>1. CASE AppendIntent(p)
    <3>1. /\ job'[p].id = nextId /\ job'[p].wallet = job[p].wallet
          /\ job'[p].cands = job[p].cands
      BY <2>1 DEF AppendIntent, Tx
    <3>2. IntentOf(log', job'[p])
      <4> DEFINE i == IntentLine(p, nextId)
      <4>1. i \in log'
        BY <2>1 DEF AppendIntent, Append
      <4>2. i.kind = "intent" /\ i.id = nextId /\ i.wallet = job[p].wallet /\ i.cands = job[p].cands
        BY DEF IntentLine
      <4> QED BY <3>1, <4>1, <4>2 DEF IntentOf
    <3> QED BY <2>1, <3>2 DEF AppendIntent
  <2>2. CASE Dispatch(p)
    <3>1. IntentOf(log, job[p])
      BY <2>2 DEF Dispatch, WriteAheadInv, IntendedWritten
    <3> QED BY <2>2, <3>1 DEF Dispatch
  <2>3. CASE GuardBlocks(p) \/ AcquireLock(p) \/ LockedCheck(p) \/ CliMissing(p)
    BY <2>3 DEF GuardBlocks, AcquireLock, LockedCheck, CliMissing, Return
  <2>4. CASE RpcSucceeds(p) \/ RpcFails(p) \/ RpcTimesOut(p)
    BY <2>4 DEF RpcSucceeds, RpcFails, RpcTimesOut, Return
  <2> QED BY <1>3, <2>1, <2>2, <2>3, <2>4 DEF Send
<1>4. ASSUME NEW p \in Recorder, RecordAppend(p) PROVE NewRequestsWritten
  BY <1>4 DEF RecordAppend
<1>5. ASSUME NEW p \in Recorder, NEW w \in Wallet, NEW c \in Candidate, RecordCheck(p, w, c)
      PROVE  NewRequestsWritten
  BY <1>5 DEF RecordCheck
<1>6. ASSUME NEW p \in Process, Publish(p) \/ Crash(p) PROVE NewRequestsWritten
  BY <1>6 DEF Publish, Crash, Return
<1>7. ASSUME NEW t \in inflight, WalletApply(t) \/ WalletRefuse(t) PROVE NewRequestsWritten
  BY <1>7 DEF WalletApply, WalletRefuse
<1>8. CASE UNCHANGED vars
  BY <1>8 DEF vars
<1>9. ASSUME NEW p \in OnceWorker, NEW w \in Wallet, NEW c \in Candidate, OnceStart(p, w, c)
      PROVE  NewRequestsWritten
  BY <1>9 DEF OnceStart, Sender
<1> QED
  BY <1>1, <1>2, <1>3, <1>4, <1>5, <1>6, <1>7, <1>8, <1>9 DEF Next

LEMMA WriteAheadStep == JobTypes /\ WriteAheadInv /\ [Next]_vars => WriteAheadInv'
<1> SUFFICES ASSUME JobTypes, WriteAheadInv, [Next]_vars PROVE WriteAheadInv'
  OBVIOUS
<1>1. NewRequestsWritten
  BY NewRequests
<1>2. \A t : IntentOf(log, t) => IntentOf(log', t)
  BY LogGrows, IntentStays
<1>3. WriteAhead'
  BY <1>1, <1>2 DEF WriteAheadInv, WriteAhead, NewRequestsWritten
<1>4. IntendedWritten'
  BY <1>1, <1>2 DEF WriteAheadInv, IntendedWritten, NewRequestsWritten
<1> QED BY <1>3, <1>4 DEF WriteAheadInv

\* Whatever the wallet was asked to pay or has paid stands in the ledger.
THEOREM IntentsAreWrittenAhead == Spec => []WriteAhead
<1>1. Init => WriteAheadInv
  BY DEF Init, WriteAheadInv, WriteAhead, IntendedWritten, Process
<1>2. WriteAheadInv => WriteAhead
  BY DEF WriteAheadInv
<1>3. TypeInv => JobTypes
  BY DEF TypeInv, TypeOK, JobTypes
<1> QED BY <1>1, <1>2, <1>3, TypeInvariant, WriteAheadStep, PTL DEF Spec

-----------------------------------------------------------------------------
(***************************************************************************)
(* The documented deployment: one hourly auto run and any number of        *)
(* recorders on the ledger, a wallet that executes nothing its caller gave *)
(* up on, and a CLI whose failures are failures.                           *)
(***************************************************************************)
Scheduled ==
  /\ OnceWorker = {} /\ \A p, q \in AutoWorker : p = q
  /\ TimelyWallet /\ HonestCli

Active == {"ready", "intended", "rpc"}

LEMMA OneSender ==
  ASSUME Scheduled
  PROVE  /\ \A p, q \in Sender : p = q
         /\ \A p \in Sender : p \in AutoWorker /\ p \in Process
  BY DEF Scheduled, Sender, Process

\* The lines of an attempt the wallet knows of: what it pays is what they say.
LEMMA LinesOfTx ==
  ASSUME TypeInv, SafeInv, NEW t \in inflight \cup txs, NEW r \in log, r.id = t.id
  PROVE  /\ t.id # NoId /\ t.id < nextId
         /\ r.wallet = t.wallet /\ r.cands = t.cands
<1>1. PICK i \in log : /\ i.kind = "intent" /\ i.id = t.id
                       /\ i.wallet = t.wallet /\ i.cands = t.cands
  BY DEF SafeInv, WriteAhead, IntentOf
<1>2. i.id # NoId /\ i.id < nextId
  BY <1>1 DEF SafeInv, IntentsNumbered, IntentKinds
<1> QED BY <1>1, <1>2 DEF SafeInv, LinesAgree

LEMMA TxNumbered ==
  ASSUME SafeInv, NEW t \in inflight \cup txs PROVE t.id # NoId /\ t.id < nextId
  BY DEF SafeInv, WriteAhead, IntentOf, IntentsNumbered, IntentKinds

\* The transaction of the attempt in progress is the job of its sender.
LEMMA SameAttempt ==
  ASSUME TypeInv, SafeInv, NEW p \in Sender, p \in Process, pc[p] \in {"intended", "rpc"},
         NEW t \in inflight \cup txs, t.id = job[p].id
  PROVE  t = job[p]
<1>1. PICK i \in log : /\ i.id = job[p].id /\ i.wallet = job[p].wallet
                       /\ i.cands = job[p].cands
  BY DEF SafeInv, CurrentIsOpen, IntentOf
<1>2. t.wallet = job[p].wallet /\ t.cands = job[p].cands
  BY <1>1, LinesOfTx
<1>3. t \in Tx /\ job[p] \in Tx
  BY DEF TypeInv, TypeOK
<1> QED BY <1>2, <1>3 DEF Tx

(***************************************************************************)
(* Steps that add nothing to the ledger or the wallet and bring no process *)
(* past the locked check.                                                  *)
(***************************************************************************)
Quiet ==
  /\ UNCHANGED <<log, txs, nextId>> /\ inflight' \subseteq inflight
  /\ \A q \in Sender :
       /\ pc'[q] \in Active => pc'[q] = pc[q] /\ job'[q] = job[q]
       /\ pc[q] = "rpc" => pc'[q] = "rpc"
       /\ todo'[q] \subseteq todo[q] \cup Unresolved(log)
       /\ look'[q] = look[q] /\ (look[q] # None => Reconciling(q)')
  /\ UnnumberedYet'

LEMMA QuietKeeps == SafeInv /\ Quiet => SafeInv'
<1> SUFFICES ASSUME SafeInv, Quiet PROVE SafeInv'
  OBVIOUS
<1> USE DEF SafeInv, Quiet, Active
<1>1. LinesAgree' /\ IntentsNumbered' /\ WriteAhead' /\ ClearedMeansUnsent' /\ AtMostOnce'
  BY DEF LinesAgree, IntentsNumbered, WriteAhead, IntentOf, ClearedMeansUnsent, AtMostOnce
<1>2. InflightIsCurrent'
  BY DEF InflightIsCurrent
<1>3. CurrentIsOpen' /\ DecidedOnce' /\ OthersClosed' /\ TargetUnpaid'
  BY DEF CurrentIsOpen, DecidedOnce, OthersClosed, TargetUnpaid, IntentOf, Outcome
<1>4. LookupsHold'
  <2>1. \A i \in Unresolved(log) : i \in log /\ i.kind \in IntentKinds
    BY DEF Unresolved, IsLastIntent, IntentKinds
  <2> QED BY <2>1 DEF LookupsHold
<1> QED BY <1>1, <1>2, <1>3, <1>4

(***************************************************************************)
(* Steps that leave the one sender with no send in progress: they may      *)
(* close the attempt with a line r.                                        *)
(***************************************************************************)
Rests(p, r) ==
  /\ log' \in {log, log \cup {r}} /\ inflight' = {} /\ UNCHANGED <<txs, nextId>>
  /\ pc'[p] \notin Active
  /\ todo'[p] \subseteq todo[p] /\ look'[p] = None
  /\ UnnumberedYet'

LEMMA RestsKeeps ==
  ASSUME Scheduled, ConstantsAssumption, TypeInv, SafeInv, NEW p \in Sender, NEW r \in Record,
         Rests(p, r), WriteAhead',
         r.kind \in IntentKinds => r.agg /\ r.id # NoId,
         r.id < nextId,
         r.id # NoId => \A s \in log : s.id = r.id => s.wallet = r.wallet /\ s.cands = r.cands,
         r.kind = "failed" /\ r.id # NoId => \A t \in txs : t.id # r.id
  PROVE  SafeInv'
<1>0. /\ \A q \in Sender : q = p
      /\ log' \subseteq log \cup {r} /\ log \subseteq log'
  BY OneSender DEF Rests
<1> USE <1>0 DEF Active
<1>1. LinesAgree'
  BY DEF SafeInv, LinesAgree
<1>2. IntentsNumbered'
  BY DEF SafeInv, IntentsNumbered, Rests
<1>3. InflightIsCurrent' /\ CurrentIsOpen' /\ OthersClosed' /\ TargetUnpaid' /\ DecidedOnce'
  BY DEF Rests, InflightIsCurrent, CurrentIsOpen, OthersClosed, TargetUnpaid, DecidedOnce
<1>4. ClearedMeansUnsent'
  BY DEF SafeInv, ClearedMeansUnsent, Rests
<1>5. LookupsHold'
  BY DEF SafeInv, LookupsHold, Rests
<1>6. AtMostOnce' /\ UnnumberedYet'
  BY DEF SafeInv, AtMostOnce, Rests
<1> QED BY <1>1, <1>2, <1>3, <1>4, <1>5, <1>6 DEF SafeInv

(***************************************************************************)
(* One step per action.                                                    *)
(***************************************************************************)
LEMMA StartSafe ==
  ASSUME Scheduled, TypeInv, SafeInv, NEW p \in Sender, Start(p) PROVE SafeInv'
<1>0. /\ p \in Process /\ Sender \subseteq Process
      /\ pc \in [Process -> PcValues] /\ job \in [Process -> Tx]
      /\ todo \in [Process -> SUBSET Record]
  BY OneSender DEF TypeInv, TypeOK
<1>1. UnnumberedYet /\ \A q \in Sender : look[q] # None => Reconciling(q)
  BY DEF SafeInv, LookupsHold
<1> USE <1>0, <1>1 DEF Quiet, Active, UnnumberedYet, Reconciling, Goto
<1>2. CASE AutoStart(p) \/ AutoFinish(p)
  <2>1. Quiet
    BY <1>2 DEF AutoStart, AutoFinish
  <2> QED BY <2>1, QuietKeeps
<1>3. ASSUME NEW w \in Wallet, NEW S \in SUBSET Candidate, AutoSelect(p, w, S) PROVE SafeInv'
  <2>1. Quiet
    BY <1>3 DEF AutoSelect
  <2> QED BY <2>1, QuietKeeps
<1> QED BY <1>2, <1>3 DEF Start

LEMMA ReconcileSafe ==
  ASSUME Scheduled, ConstantsAssumption, TypeInv, SafeInv, WriteAhead',
         NEW p \in Sender, Reconcile(p)
  PROVE  SafeInv'
<1>0. /\ p \in Process /\ Sender \subseteq Process /\ \A q \in Sender : q = p
      /\ pc \in [Process -> PcValues] /\ job \in [Process -> Tx]
      /\ todo \in [Process -> SUBSET Record] /\ look \in [Process -> Lookup \cup {None}]
      /\ log \subseteq Record
  BY OneSender DEF TypeInv, TypeOK
<1>1. /\ UnnumberedYet /\ \A q \in Sender : look[q] # None => Reconciling(q)
      /\ todo[p] \subseteq {i \in log : i.kind \in IntentKinds}
  BY DEF SafeInv, LookupsHold
<1>2. CASE ReconcileUnreadable(p) \/ PreReconciled(p)
  <2>1. Quiet
    BY <1>0, <1>1, <1>2 DEF ReconcileUnreadable, PreReconciled, Reconciled,
       Quiet, Active, UnnumberedYet, Reconciling, Goto
  <2> QED BY <2>1, QuietKeeps
<1>3. CASE ReconcileLook(p)
  <2>1. PICK i \in todo[p], t \in 0 .. MaxAttempts :
          /\ t \in Found(i)
          /\ look' = [look EXCEPT ![p] = [rec |-> i, tx |-> t]]
          /\ todo' = [todo EXCEPT ![p] = @ \ {i}]
    BY <1>3 DEF ReconcileLook
  <2>2. i \in log /\ i.kind \in IntentKinds /\ i.id # NoId
    BY <1>1 DEF SafeInv, IntentsNumbered
  <2>3. t = NoId => \A u \in txs : u.id # i.id
    BY <2>1, <2>2 DEF Found, ByComment, NoId
  <2>4. t # NoId => \E u \in txs : u.wallet = i.wallet /\ AmountOf[u.cands] = AmountOf[i.cands]
    <3>1. CASE ByComment(i) # {}
      <4>1. PICK u \in txs : u.id = i.id
        BY <3>1 DEF ByComment
      <4> QED BY <2>2, <4>1, LinesOfTx
    <3>2. CASE ByComment(i) = {}
      BY <2>1, <3>2 DEF Found, ByAmount
    <3> QED BY <3>1, <3>2
  <2>5. UNCHANGED <<log, inflight, txs, pc, job, nextId>>
    BY <1>3 DEF ReconcileLook
  <2>6. look'[p] = [rec |-> i, tx |-> t] /\ todo'[p] \subseteq todo[p] /\ Reconciling(p)
    BY <1>0, <1>3, <2>1 DEF ReconcileLook
  <2>7. LookupsHold'
    BY <1>0, <1>1, <2>2, <2>3, <2>4, <2>5, <2>6 DEF LookupsHold, Reconciling
  <2> QED BY <2>5, <2>7 DEF SafeInv, LinesAgree, IntentsNumbered, WriteAhead, IntentOf,
     InflightIsCurrent, CurrentIsOpen, UnnumberedYet, DecidedOnce, OthersClosed, Outcome,
     TargetUnpaid, ClearedMeansUnsent, AtMostOnce
<1>4. CASE ReconcileWrite(p)
  <2> DEFINE r == [look[p].rec EXCEPT !.kind = IF look[p].tx # NoId THEN "sent" ELSE "failed",
                                      !.tx = look[p].tx]
  <2>1. /\ Reconciling(p) /\ look[p] # None /\ look[p] \in Lookup
        /\ look[p].rec \in log /\ look[p].rec \in Record
        /\ look[p].tx = NoId => \A t \in txs : t.id # look[p].rec.id
    BY <1>0, <1>4 DEF ReconcileWrite, SafeInv, LookupsHold
  <2>2. /\ r \in Record /\ r.kind \notin IntentKinds
        /\ r.id = look[p].rec.id /\ r.wallet = look[p].rec.wallet /\ r.cands = look[p].rec.cands
        /\ r.kind = "failed" => look[p].tx = NoId
    BY <2>1 DEF Lookup, Record, IntentKinds
  <2>3. inflight = {}
    BY <1>0, <2>1 DEF SafeInv, InflightIsCurrent, Reconciling
  <2>4. Rests(p, r)
    BY <1>0, <1>1, <1>4, <2>1, <2>3 DEF ReconcileWrite, Append, Rests, Active, Reconciling,
       UnnumberedYet
  <2>5. /\ r.id < nextId
        /\ r.id # NoId => \A s \in log : s.id = r.id => s.wallet = r.wallet /\ s.cands = r.cands
    BY <2>1, <2>2 DEF SafeInv, IntentsNumbered, LinesAgree
  <2> QED BY <2>1, <2>2, <2>4, <2>5, RestsKeeps
<1> QED BY <1>2, <1>3, <1>4 DEF Reconcile

\* Under the flock with nothing covered, no transaction overlaps the job and
\* every overlapping intent has its outcome.
LEMMA UncoveredIsUnpaid ==
  ASSUME TypeInv, SafeInv, NEW w, NEW S, ~Covered(log, w, S)
  PROVE  /\ \A t \in txs : ~(t.wallet = w /\ t.cands \cap S # {})
         /\ \A i \in log : i.kind = "intent" /\ i.wallet = w /\ i.cands \cap S # {}
                           => Outcome(log, i)
<1>1. ASSUME NEW i \in log, i.kind = "intent", i.wallet = w, i.cands \cap S # {}
      PROVE  \E r \in log : r.kind = "failed" /\ r.id = i.id
  <2>1. PICK j \in log : IsLastIntent(log, j) /\ j.id = i.id /\ j.kind \in IntentKinds
    BY <1>1 DEF IsLastIntent, IntentKinds
  <2>2. j.wallet = w /\ j.cands = i.cands /\ j.agg
    BY <1>1, <2>1 DEF SafeInv, LinesAgree, IntentsNumbered
  <2>3. j \notin Unresolved(log)
    BY <1>1, <2>2 DEF Covered
  <2>4. PICK r \in log : r.kind \in {"sent", "failed"} /\ r.id = i.id
    BY <2>1, <2>2, <2>3 DEF Unresolved, Resolves
  <2>5. r.wallet = w /\ r.cands = i.cands
    BY <1>1, <2>4 DEF SafeInv, LinesAgree, IntentsNumbered, IntentKinds
  <2>6. r \notin Success(log)
    BY <1>1, <2>5 DEF Covered
  <2> QED BY <2>4, <2>6 DEF Success
<1>2. ASSUME NEW t \in txs, t.wallet = w, t.cands \cap S # {} PROVE FALSE
  <2>1. PICK i \in log : /\ i.kind = "intent" /\ i.id = t.id
                         /\ i.wallet = t.wallet /\ i.cands = t.cands
    BY DEF SafeInv, WriteAhead, IntentOf
  <2>2. PICK r \in log : r.kind = "failed" /\ r.id = t.id
    BY <1>1, <1>2, <2>1
  <2> QED BY <2>2, TxNumbered DEF SafeInv, ClearedMeansUnsent
<1> QED BY <1>1, <1>2 DEF Outcome

LEMMA LockedCheckSafe ==
  ASSUME Scheduled, TypeInv, SafeInv, NEW p \in Sender, LockedCheck(p) PROVE SafeInv'
<1>0. /\ p \in Process /\ Sender \subseteq Process /\ \A q \in Sender : q = p
      /\ pc \in [Process -> PcValues] /\ job \in [Process -> Tx]
  BY OneSender DEF TypeInv, TypeOK
<1>1. UnnumberedYet /\ \A q \in Sender : look[q] # None => Reconciling(q)
  BY DEF SafeInv, LookupsHold
<1>2. CASE ~StillUnpaid(p)
  <2>1. Quiet
    BY <1>0, <1>1, <1>2 DEF LockedCheck, Reconciled, Return, Quiet, Active, UnnumberedYet,
       Reconciling, Goto
  <2> QED BY <2>1, QuietKeeps
<1>3. CASE StillUnpaid(p)
  <2>1. /\ pc[p] = "reconcile" /\ pc' = [pc EXCEPT ![p] = "ready"] /\ look[p] = None
        /\ UNCHANGED <<log, inflight, txs, todo, look, job, nextId>>
    BY <1>3 DEF LockedCheck, Reconciled, Goto
  <2>2. inflight = {}
    BY <1>0, <2>1 DEF SafeInv, InflightIsCurrent
  <2>3. OthersClosed' /\ TargetUnpaid'
    BY <1>0, <1>3, <2>1, UncoveredIsUnpaid DEF StillUnpaid, OthersClosed, TargetUnpaid, Outcome
  <2>4. InflightIsCurrent' /\ CurrentIsOpen' /\ DecidedOnce' /\ UnnumberedYet' /\ LookupsHold'
    BY <1>0, <1>1, <2>1, <2>2 DEF InflightIsCurrent, CurrentIsOpen, DecidedOnce,
       UnnumberedYet, LookupsHold, Reconciling, SafeInv
  <2> QED BY <2>1, <2>3, <2>4 DEF SafeInv, LinesAgree, IntentsNumbered, WriteAhead, IntentOf,
     ClearedMeansUnsent, AtMostOnce
<1> QED BY <1>2, <1>3

LEMMA AppendIntentSafe ==
  ASSUME Scheduled, ConstantsAssumption, TypeInv, SafeInv, WriteAhead', NEW p \in Sender,
         AppendIntent(p)
  PROVE  SafeInv'
<1> DEFINE i == IntentLine(p, nextId)
<1>0. /\ p \in Process /\ Sender \subseteq Process /\ \A q \in Sender : q = p
      /\ pc \in [Process -> PcValues] /\ job \in [Process -> Tx] /\ log \subseteq Record
      /\ p \in AutoWorker
  BY OneSender DEF TypeInv, TypeOK
<1>1. /\ pc[p] = "ready" /\ pc' = [pc EXCEPT ![p] = "intended"]
      /\ log' = log \cup {i} /\ nextId' = nextId + 1 /\ nextId \in 1 .. MaxAttempts
      /\ job' = [job EXCEPT ![p].id = nextId]
      /\ UNCHANGED <<inflight, txs, todo, look>>
  BY DEF AppendIntent, Append, Goto, Attempt
<1>2. /\ i.id = nextId /\ i.kind = "intent" /\ i.agg
      /\ i.wallet = job'[p].wallet /\ i.cands = job'[p].cands
      /\ job'[p].id = nextId /\ job'[p].wallet = job[p].wallet /\ job'[p].cands = job[p].cands
  BY <1>0, <1>1 DEF IntentLine, Tx
<1>3. /\ nextId \in Nat \ {0}
      /\ \A r \in log : r.id \in Nat /\ r.id < nextId
  BY <1>0, <1>1 DEF SafeInv, IntentsNumbered, Record
<1> HIDE DEF i
<1>4. LinesAgree'
  BY <1>1, <1>2, <1>3 DEF SafeInv, LinesAgree
<1>5. IntentsNumbered'
  BY <1>1, <1>2, <1>3 DEF SafeInv, IntentsNumbered, IntentKinds, NoId
<1>6. inflight = {} /\ look[p] = None
  BY <1>0, <1>1 DEF SafeInv, InflightIsCurrent, LookupsHold, Reconciling
<1>7. InflightIsCurrent' /\ LookupsHold' /\ ClearedMeansUnsent' /\ AtMostOnce'
  BY <1>0, <1>1, <1>2, <1>6 DEF SafeInv, InflightIsCurrent, LookupsHold, ClearedMeansUnsent,
     AtMostOnce
<1>8. CurrentIsOpen'
  BY <1>0, <1>1, <1>2, <1>3 DEF CurrentIsOpen, IntentOf, NoId
<1>9. UnnumberedYet'
  BY <1>0, <1>1 DEF SafeInv, UnnumberedYet
<1>10. DecidedOnce'
  <2>1. job'[p] \notin txs
    BY <1>2, <1>3, TxNumbered
  <2> QED BY <1>0, <1>1, <1>6, <2>1 DEF DecidedOnce
<1>11. OthersClosed'
  BY <1>0, <1>1, <1>2, <1>3 DEF SafeInv, OthersClosed, Outcome, UnnumberedYet, IntentsNumbered, IntentKinds
<1>12. TargetUnpaid'
  BY <1>0, <1>1, <1>2 DEF SafeInv, TargetUnpaid
<1> QED BY <1>4, <1>5, <1>7, <1>8, <1>9, <1>10, <1>11, <1>12 DEF SafeInv

LEMMA DispatchSafe ==
  ASSUME Scheduled, TypeInv, SafeInv, WriteAhead', NEW p \in Sender, Dispatch(p) PROVE SafeInv'
<1>0. /\ p \in Process /\ Sender \subseteq Process /\ \A q \in Sender : q = p
      /\ pc \in [Process -> PcValues]
  BY OneSender DEF TypeInv, TypeOK
<1>1. /\ pc[p] = "intended" /\ pc' = [pc EXCEPT ![p] = "rpc"]
      /\ inflight' = inflight \cup {job[p]}
      /\ UNCHANGED <<log, txs, job, todo, look, nextId>>
  BY DEF Dispatch, Goto
<1>2. inflight = {} /\ look[p] = None
  BY <1>0, <1>1 DEF SafeInv, InflightIsCurrent, LookupsHold, Reconciling
<1>3. InflightIsCurrent' /\ CurrentIsOpen' /\ DecidedOnce' /\ OthersClosed' /\ TargetUnpaid'
  BY <1>0, <1>1, <1>2 DEF SafeInv, InflightIsCurrent, CurrentIsOpen, DecidedOnce, OthersClosed,
     TargetUnpaid, IntentOf
<1>4. ClearedMeansUnsent'
  BY <1>0, <1>1 DEF SafeInv, ClearedMeansUnsent, CurrentIsOpen
<1>5. LookupsHold' /\ UnnumberedYet'
  BY <1>0, <1>1, <1>2 DEF SafeInv, LookupsHold, UnnumberedYet
<1> QED BY <1>1, <1>3, <1>4, <1>5 DEF SafeInv, LinesAgree, IntentsNumbered, AtMostOnce

\* The line that closes the attempt in progress agrees with its intent line.
LEMMA ClosingLine ==
  ASSUME SafeInv, NEW p \in Sender, pc[p] = "rpc"
  PROVE  /\ job[p].id # NoId /\ job[p].id < nextId
         /\ \A s \in log : s.id = job[p].id => s.wallet = job[p].wallet /\ s.cands = job[p].cands
  BY DEF SafeInv, CurrentIsOpen, IntentOf, IntentsNumbered, LinesAgree

LEMMA SendSafe ==
  ASSUME Scheduled, ConstantsAssumption, TypeInv, SafeInv, WriteAhead', NEW p \in Sender, Send(p)
  PROVE  SafeInv'
<1>0. /\ p \in Process /\ Sender \subseteq Process /\ \A q \in Sender : q = p
      /\ pc \in [Process -> PcValues] /\ job \in [Process -> Tx]
      /\ todo \in [Process -> SUBSET Record] /\ p \in AutoWorker
      /\ NoId < nextId /\ NoId \in 0 .. MaxAttempts
  BY OneSender DEF TypeInv, TypeOK, NoId, ConstantsAssumption
<1>1. UnnumberedYet /\ \A q \in Sender : look[q] # None => Reconciling(q)
  BY DEF SafeInv, LookupsHold
<1>2. /\ pc[p] \in {"ready", "rpc"} => look[p] = None
      /\ pc[p] # "rpc" => inflight = {}
      /\ inflight \subseteq {job[p]}
  BY <1>0, <1>1 DEF SafeInv, InflightIsCurrent, Reconciling
<1>3. CASE GuardBlocks(p) \/ AcquireLock(p)
  <2>1. Quiet
    BY <1>0, <1>1, <1>3 DEF GuardBlocks, AcquireLock, Return, Quiet, Active, UnnumberedYet,
       Reconciling, Goto
  <2> QED BY <2>1, QuietKeeps
<1>4. CASE CliMissing(p)
  <2> DEFINE r == Line(p, "failed", NoId)
  <2>1. pc[p] \in Busy /\ pc[p] = "ready" /\ job[p].id = NoId
    BY <1>0, <1>1, <1>4 DEF CliMissing, Busy, PcValues, UnnumberedYet
  <2>2. r \in Record
    BY <1>0, <2>1, LineType
  <2>3. r.kind \notin IntentKinds /\ r.id = NoId
    BY <2>1 DEF Line, IntentKinds
  <2>4. Rests(p, r)
    BY <1>0, <1>1, <1>2, <1>4, <2>1 DEF CliMissing, Append, Return, Goto, Rests, Active, UnnumberedYet
  <2> HIDE DEF r
  <2> QED BY <1>0, <2>2, <2>3, <2>4, RestsKeeps
<1>5. ASSUME NEW kind \in {"sent", "failed", "ambiguous"},
             NEW tx \in 0 .. MaxAttempts,
             pc[p] = "rpc", Append(Line(p, kind, tx)), inflight' = {},
             pc'[p] \notin Active, \A q \in Process : q # p => pc'[q] = pc[q] /\ job'[q] = job[q],
             pc'[p] \notin {"wait", "reconcile", "record"},
             UNCHANGED <<txs, nextId, todo, look>>,
             kind = "failed" => job[p] \notin txs
      PROVE  SafeInv'
  <2> DEFINE r == Line(p, kind, tx)
  <2>1. r \in Record
    BY <1>0, <1>5, LineType DEF Busy, PcValues
  <2>2. r.kind = kind /\ r.id = job[p].id /\ r.wallet = job[p].wallet /\ r.cands = job[p].cands /\ r.agg
    BY <1>0 DEF Line
  <2>3. Rests(p, r)
    BY <1>0, <1>1, <1>2, <1>5 DEF Append, Rests, UnnumberedYet, Active
  <2>4. kind = "failed" => \A t \in txs : t.id # job[p].id
    BY <1>0, <1>5, SameAttempt
  <2> HIDE DEF r
  <2> QED BY <1>5, <2>1, <2>2, <2>3, <2>4, ClosingLine, RestsKeeps
<1>6. CASE RpcSucceeds(p)
  <2>1. inflight = {}
    BY <1>2, <1>6 DEF RpcSucceeds, SafeInv, DecidedOnce
  <2>2. job[p].id \in 0 .. MaxAttempts
    BY <1>0 DEF Tx
  <2> QED BY <1>0, <1>5, <1>6, <2>1, <2>2 DEF RpcSucceeds, SentLine, Goto, Active
<1>7. CASE RpcFails(p)
  <2>1. job[p] \notin inflight \cup txs
    BY <1>7 DEF RpcFails, Scheduled
  <2>2. inflight = {}
    BY <1>2, <1>7, <2>1 DEF RpcFails
  <2> QED BY <1>0, <1>5, <1>7, <2>1, <2>2 DEF RpcFails, Return, Goto, Active
<1>8. CASE RpcTimesOut(p)
  <2>1. inflight' = {}
    BY <1>2, <1>8 DEF RpcTimesOut, Scheduled
  <2> QED BY <1>0, <1>5, <1>8, <2>1 DEF RpcTimesOut, Return, Goto, Active
<1> QED
  BY <1>3, <1>4, <1>6, <1>7, <1>8, LockedCheckSafe, AppendIntentSafe, DispatchSafe DEF Send

LEMMA RecorderSafe ==
  ASSUME Scheduled, ConstantsAssumption, TypeInv, SafeInv, WriteAhead', NEW p \in Recorder,
         RecordAppend(p) \/ \E w \in Wallet, c \in Candidate : RecordCheck(p, w, c)
  PROVE  SafeInv'
<1>0. /\ p \in Process /\ p \notin Sender /\ Sender \subseteq Process
      /\ pc \in [Process -> PcValues] /\ job \in [Process -> Tx]
  BY DEF TypeInv, TypeOK, Process, ConstantsAssumption
<1>1. UnnumberedYet /\ \A q \in Sender : look[q] # None => Reconciling(q)
  BY DEF SafeInv, LookupsHold
<1>2. ASSUME NEW w \in Wallet, NEW c \in Candidate, RecordCheck(p, w, c) PROVE SafeInv'
  <2>1. Quiet
    BY <1>0, <1>1, <1>2 DEF RecordCheck, Quiet, Active, UnnumberedYet, Reconciling, Goto
  <2> QED BY <2>1, QuietKeeps
<1>3. CASE RecordAppend(p)
  <2> DEFINE r == Line(p, "sent", p)
  <2>1. /\ log' = log \cup {r} /\ pc' = [pc EXCEPT ![p] = "publish"]
        /\ UNCHANGED <<inflight, txs, job, todo, look, nextId>>
    BY <1>3 DEF RecordAppend, Append, Goto
  <2>2. r.kind = "sent" /\ r.id = NoId /\ NoId < nextId
    BY <1>0, <1>1, <1>3 DEF RecordAppend, Line, UnnumberedYet, TypeInv, TypeOK, NoId
  <2> HIDE DEF r
  <2>3. LinesAgree' /\ IntentsNumbered'
    BY <2>1, <2>2 DEF SafeInv, LinesAgree, IntentsNumbered, IntentKinds
  <2>4. InflightIsCurrent' /\ CurrentIsOpen' /\ UnnumberedYet' /\ DecidedOnce'
    BY <1>0, <2>1, <2>2 DEF SafeInv, InflightIsCurrent, CurrentIsOpen, UnnumberedYet, DecidedOnce,
       IntentOf
  <2>5. OthersClosed' /\ TargetUnpaid' /\ ClearedMeansUnsent' /\ LookupsHold' /\ AtMostOnce'
    BY <1>0, <2>1, <2>2 DEF SafeInv, OthersClosed, Outcome, TargetUnpaid, ClearedMeansUnsent,
       LookupsHold, Reconciling, AtMostOnce
  <2> QED BY <2>3, <2>4, <2>5 DEF SafeInv
<1> QED BY <1>2, <1>3

LEMMA PublishSafe ==
  ASSUME TypeInv, SafeInv, NEW p \in Process, Publish(p) PROVE SafeInv'
<1>0. /\ Sender \subseteq Process /\ pc \in [Process -> PcValues] /\ job \in [Process -> Tx]
  BY DEF TypeInv, TypeOK, Process
<1>1. UnnumberedYet /\ \A q \in Sender : look[q] # None => Reconciling(q)
  BY DEF SafeInv, LookupsHold
<1>2. Quiet
  BY <1>0, <1>1 DEF Publish, Return, Goto, Quiet, Active, UnnumberedYet, Reconciling
<1> QED BY <1>2, QuietKeeps

LEMMA CrashSafe ==
  ASSUME Scheduled, TypeInv, SafeInv, NEW p \in Process, Crash(p) PROVE SafeInv'
<1>0. /\ Sender \subseteq Process /\ pc \in [Process -> PcValues] /\ job \in [Process -> Tx]
      /\ todo \in [Process -> SUBSET Record] /\ look \in [Process -> Lookup \cup {None}]
      /\ \A q, r \in Sender : q = r
  BY OneSender DEF TypeInv, TypeOK, Process
<1>1. /\ UNCHANGED <<log, txs, nextId>> /\ inflight' = inflight \ {job[p]}
      /\ pc' = [pc EXCEPT ![p] = "idle"] /\ job' = [job EXCEPT ![p] = NoTx]
      /\ todo' = [todo EXCEPT ![p] = {}] /\ look' = [look EXCEPT ![p] = None]
  BY DEF Crash, Goto, Scheduled
<1>2. LinesAgree' /\ IntentsNumbered' /\ WriteAhead' /\ ClearedMeansUnsent' /\ AtMostOnce'
  BY <1>1 DEF SafeInv, LinesAgree, IntentsNumbered, WriteAhead, IntentOf, ClearedMeansUnsent,
     AtMostOnce
<1>3. InflightIsCurrent'
  BY <1>0, <1>1 DEF SafeInv, InflightIsCurrent
<1>4. CurrentIsOpen' /\ DecidedOnce' /\ UnnumberedYet'
  BY <1>0, <1>1 DEF SafeInv, CurrentIsOpen, DecidedOnce, UnnumberedYet, IntentOf
<1>5. OthersClosed' /\ TargetUnpaid' /\ LookupsHold'
  BY <1>0, <1>1 DEF SafeInv, OthersClosed, Outcome, TargetUnpaid, LookupsHold, Reconciling
<1> QED BY <1>2, <1>3, <1>4, <1>5 DEF SafeInv

LEMMA WalletSafe ==
  ASSUME Scheduled, TypeInv, SafeInv, WriteAhead', NEW t \in inflight,
         WalletApply(t) \/ WalletRefuse(t)
  PROVE  SafeInv'
<1>1. CASE WalletRefuse(t)
  <2>1. Quiet
    BY <1>1 DEF WalletRefuse, Quiet, Active, SafeInv, UnnumberedYet, LookupsHold, Reconciling
  <2> QED BY <2>1, QuietKeeps
<1>2. CASE WalletApply(t)
  <2>1. PICK p \in Sender : pc[p] = "rpc" /\ t = job[p] /\ \A q \in Sender : q = p
    BY OneSender DEF SafeInv, InflightIsCurrent
  <2>2. /\ txs' = txs \cup {t} /\ inflight' = inflight \ {t}
        /\ UNCHANGED <<log, pc, job, todo, look, nextId>>
    BY <1>2 DEF WalletApply
  <2>3. InflightIsCurrent' /\ CurrentIsOpen' /\ UnnumberedYet' /\ DecidedOnce' /\ OthersClosed'
    BY <2>1, <2>2 DEF SafeInv, InflightIsCurrent, CurrentIsOpen, UnnumberedYet, DecidedOnce,
       OthersClosed, Outcome, IntentOf
  <2>4. TargetUnpaid' /\ ClearedMeansUnsent' /\ AtMostOnce'
    BY <2>1, <2>2 DEF SafeInv, TargetUnpaid, ClearedMeansUnsent, AtMostOnce
  <2>5. LookupsHold'
    BY <2>1, <2>2 DEF SafeInv, LookupsHold, Reconciling
  <2> QED BY <2>2, <2>3, <2>4, <2>5 DEF SafeInv, LinesAgree, IntentsNumbered
<1> QED BY <1>1, <1>2

LEMMA SafeStep ==
  Scheduled /\ ConstantsAssumption /\ TypeInv /\ SafeInv /\ [Next]_vars => SafeInv'
<1> SUFFICES ASSUME Scheduled, ConstantsAssumption, TypeInv, SafeInv, [Next]_vars
             PROVE  SafeInv'
  OBVIOUS
<1>1. WriteAhead'
  <2>1. WriteAheadInv
    BY DEF WriteAheadInv, IntendedWritten, SafeInv, CurrentIsOpen
  <2>2. JobTypes
    BY DEF TypeInv, TypeOK, JobTypes
  <2> QED BY <2>1, <2>2, WriteAheadStep DEF WriteAheadInv
<1>2. CASE UNCHANGED vars
  <2>1. Quiet
    BY <1>2 DEF vars, Quiet, SafeInv, UnnumberedYet, LookupsHold, Reconciling
  <2> QED BY <2>1, QuietKeeps
<1> QED
  BY <1>1, <1>2, StartSafe, ReconcileSafe, SendSafe, RecorderSafe, PublishSafe, CrashSafe,
     WalletSafe DEF Next, Scheduled

LEMMA SafeInit == Scheduled /\ Init => SafeInv
  BY DEF Init, SafeInv, LinesAgree, IntentsNumbered, WriteAhead, InflightIsCurrent, CurrentIsOpen,
     UnnumberedYet, DecidedOnce, OthersClosed, TargetUnpaid, ClearedMeansUnsent, LookupsHold,
     AtMostOnce, Sender, Process, NoTx

\* The scheduled payout keeps its inductive invariant.
THEOREM ScheduledInvariant == ASSUME Scheduled PROVE Spec => []SafeInv
  BY Scheduled, ConstantsAssumption, SafeInit, SafeStep, TypeInvariant, PTL DEF Spec

\* The scheduled payout pays no candidate twice to a wallet.
THEOREM NeverPaidTwice == ASSUME Scheduled PROVE Spec => []AtMostOnce
<1>1. SafeInv => AtMostOnce
  BY DEF SafeInv
<1> QED BY <1>1, Scheduled, ScheduledInvariant, PTL

\* An intent the scheduled payout closes as failed never reaches the wallet.
THEOREM FailedIsUnsent == ASSUME Scheduled PROVE Spec => []ClearedMeansUnsent
<1>1. SafeInv => ClearedMeansUnsent
  BY DEF SafeInv
<1> QED BY <1>1, Scheduled, ScheduledInvariant, PTL

\* Under the invariant, only Dispatch hands a request over, and OthersClosed
\* says that every intent it could repeat has its outcome.
LEMMA OpenBlocksStep ==
  ASSUME Scheduled, TypeInv, SafeInv, [Next]_vars, NEW t \in inflight' \ inflight, NEW i \in log,
         i.kind = "intent", i.id # t.id, i.wallet = t.wallet, i.cands \cap t.cands # {}
  PROVE  Outcome(log, i)
<1>1. ASSUME NEW p \in Sender, Dispatch(p) PROVE Outcome(log, i)
  <2>1. pc[p] = "intended" /\ t = job[p]
    BY <1>1 DEF Dispatch
  <2> QED BY <2>1 DEF SafeInv, OthersClosed
<1>2. ASSUME NEW p \in Sender, Start(p) \/ Reconcile(p) PROVE FALSE
  BY <1>2 DEF Start, AutoStart, AutoFinish, AutoSelect,
     Reconcile, ReconcileLook, ReconcileUnreadable, ReconcileWrite, PreReconciled
<1>3. ASSUME NEW p \in Sender, Send(p), ~Dispatch(p) PROVE FALSE
  BY <1>3 DEF Send, GuardBlocks, AcquireLock, LockedCheck, CliMissing, AppendIntent,
     RpcSucceeds, RpcFails, RpcTimesOut
<1>4. ASSUME NEW p \in Recorder,
             RecordAppend(p) \/ \E w \in Wallet, c \in Candidate : RecordCheck(p, w, c)
      PROVE  FALSE
  BY <1>4 DEF RecordAppend, RecordCheck
<1>5. ASSUME NEW p \in Process, Publish(p) \/ Crash(p) PROVE FALSE
  BY <1>5 DEF Publish, Crash
<1>6. ASSUME NEW u \in inflight, WalletApply(u) \/ WalletRefuse(u) PROVE FALSE
  BY <1>6 DEF WalletApply, WalletRefuse
<1>7. CASE UNCHANGED vars
  BY <1>7 DEF vars
<1> QED BY <1>1, <1>2, <1>3, <1>4, <1>5, <1>6, <1>7 DEF Next, Scheduled

\* The scheduled payout sends nothing an open intent may already have sent.
THEOREM OpenIntentsBlock == ASSUME Scheduled PROVE Spec => OpenIntentBlocks
<1> DEFINE Blocks ==
      \A t \in inflight' \ inflight :
        \A i \in log : /\ i.kind = "intent" /\ i.id # t.id
                       /\ i.wallet = t.wallet /\ i.cands \cap t.cands # {}
                       => Outcome(log, i)
<1>1. TypeInv /\ SafeInv /\ [Next]_vars => [Blocks]_vars
  BY Scheduled, OpenBlocksStep
<1> QED BY <1>1, Scheduled, ScheduledInvariant, TypeInvariant, PTL DEF Spec, OpenIntentBlocks

(***************************************************************************)
(* An intent is settled by its own transaction, or by one of its amount    *)
(* and then never paid, whatever the amounts.                              *)
(***************************************************************************)

\* What a reconciliation reads has no transaction of another attempt.
LEMMA UnresolvedIsOwn ==
  ASSUME SafeInv, OwnInv, NEW i \in Unresolved(log)
  PROVE  i.cands # {} /\ OnlyOwnTx(i)
<1>1. i \in log /\ i.kind \in IntentKinds /\ i.id # NoId
  BY DEF Unresolved, IsLastIntent, IntentKinds, SafeInv, IntentsNumbered
<1>2. PICK j \in log : j.kind = "intent" /\ j.id = i.id
  BY <1>1 DEF OwnInv, OpenIsOwn, IntentKinds
<1>3. j.wallet = i.wallet /\ j.cands = i.cands
  BY <1>1, <1>2 DEF SafeInv, LinesAgree
<1>4. ~Outcome(log, j)
  BY <1>2 DEF Unresolved, Resolves, Outcome
<1>5. OnlyOwnTx(j) /\ j.cands # {}
  BY <1>2, <1>4 DEF OwnInv, OpenIsOwn, SendsNotEmpty
<1> QED BY <1>2, <1>3, <1>5 DEF OnlyOwnTx

\* A search for such an intent finds its own transaction, or one of its amount while
\* nothing of it is paid, or none.
LEMMA FoundMatches ==
  ASSUME TypeInv, SafeInv, NEW i \in log, OnlyOwnTx(i), NEW n \in Found(i)
  PROVE  n = NoId \/ Matching(i, n)
<1>1. CASE ByComment(i) # {}
  <2>1. PICK t \in txs : t.id = i.id /\ t.id = n
    BY <1>1 DEF Found, ByComment
  <2>2. t.wallet = i.wallet /\ t.cands = i.cands
    BY <2>1, LinesOfTx
  <2> QED BY <2>1, <2>2 DEF Matching
<1>2. CASE ByComment(i) = {} /\ n # NoId
  <2>1. PICK t \in txs : /\ t.id = n /\ t.wallet = i.wallet
                         /\ AmountOf[t.cands] = AmountOf[i.cands]
    BY <1>2 DEF Found, ByAmount
  <2>2. NothingPaid(i)
    BY <1>2 DEF NothingPaid, OnlyOwnTx, ByComment
  <2> QED BY <2>1, <2>2 DEF Matching
<1> QED BY <1>1, <1>2

\* Steps that write no new intent and leave the wallet's transactions alone.
OwnFrame ==
  /\ log \subseteq log' /\ UNCHANGED txs
  /\ \A r \in log' \ log :
       /\ r.kind # "intent"
       /\ r.kind = "ambiguous" => \E i \in log : i.kind = "intent" /\ i.id = r.id
       /\ r.kind = "sent" /\ r.id # NoId => Matching(r, r.tx)
  /\ \A q \in Sender :
       /\ pc'[q] \in Holding \cup {"wait"} => job'[q].cands # {}
       /\ pc'[q] = "rpc" => pc[q] \in {"intended", "rpc"} /\ job'[q] = job[q]
       /\ todo'[q] \subseteq todo[q] \cup Unresolved(log)
       /\ ~Reconciling(q)' => todo'[q] = {}
       /\ look'[q] # None => \/ look'[q] = look[q] \/ look'[q].tx = NoId
                             \/ Matching(look'[q].rec, look'[q].tx)
       /\ pc'[q] \in Active =>
            /\ \/ pc[q] \in Active
               \/ ~Covered(log, job[q].wallet, job[q].cands)
            /\ job'[q].wallet = job[q].wallet /\ job'[q].cands = job[q].cands
            /\ \A r \in log' \ log : r.kind = "sent" => r.id = NoId

LEMMA OwnKeeps == ASSUME SafeInv, OwnInv, OwnFrame PROVE OwnInv'
<1> USE DEF OwnFrame
<1>1. SendsNotEmpty'
  BY DEF OwnInv, SendsNotEmpty
<1>2. SettledByMatchingTx'
  BY DEF OwnInv, SettledByMatchingTx, Success, Matching, NothingPaid
<1>t. RequestUnrecorded'
  <2> SUFFICES ASSUME NEW q \in Sender, pc'[q] \in Active, NEW r \in Success(log'), r.id # NoId
               PROVE  ~(r.wallet = job'[q].wallet /\ r.cands \cap job'[q].cands # {})
    BY DEF RequestUnrecorded, Active
  <2>1. r \in Success(log)
    BY DEF Success
  <2>2. ~(r.wallet = job[q].wallet /\ r.cands \cap job[q].cands # {})
    BY <2>1 DEF OwnInv, RequestUnrecorded, Active, Covered
  <2> QED BY <2>2
<1>3. \A i : Outcome(log, i) => Outcome(log', i)
  BY DEF Outcome
<1>4. \A i : OnlyOwnTx(i) => OnlyOwnTx(i)'
  BY DEF OnlyOwnTx
<1>5. \A r \in log' : r.kind = "ambiguous" => \E i \in log' : i.kind = "intent" /\ i.id = r.id
  BY DEF OwnInv, OpenIsOwn
<1>6. \A i \in log' : i.kind = "intent" => i \in log
  OBVIOUS
<1>7. \A i \in log' : i.kind = "intent" => Outcome(log', i) \/ OnlyOwnTx(i)'
  BY <1>3, <1>4, <1>6 DEF OwnInv, OpenIsOwn
<1>8. ASSUME NEW p \in Sender, pc'[p] = "rpc", NEW i \in log',
             i.kind = "intent", i.id # job'[p].id, i.wallet = job'[p].wallet,
             i.cands \cap job'[p].cands # {}
      PROVE  Outcome(log', i)
  <2>1. i \in log /\ job'[p] = job[p] /\ pc[p] \in {"intended", "rpc"}
    BY <1>6, <1>8
  <2>2. Outcome(log, i)
    BY <1>8, <2>1 DEF OwnInv, OpenIsOwn, SafeInv, OthersClosed
  <2> QED BY <1>3, <2>2
<1>9. ASSUME NEW p \in Sender
      PROVE  /\ ~Reconciling(p)' => todo'[p] = {}
             /\ \A i \in todo'[p] : i.cands # {} /\ OnlyOwnTx(i)'
  BY <1>4, UnresolvedIsOwn DEF OwnInv, OpenIsOwn
<1>l. ASSUME NEW p \in Sender, look'[p] # None, look'[p].tx # NoId
      PROVE  Matching(look[p].rec, look[p].tx)'
  <2>2. Matching(look'[p].rec, look'[p].tx)
    BY <1>l DEF OwnInv, OpenIsOwn
  <2>3. Matching(look[p].rec, look[p].tx)' <=>
          \E t \in txs' : /\ t.id = look'[p].tx /\ t.wallet = look'[p].rec.wallet
                         /\ AmountOf[t.cands] = AmountOf[look'[p].rec.cands]
                         /\ \/ t.id = look'[p].rec.id /\ t.cands = look'[p].rec.cands
                            \/ \A u \in txs' : u.wallet = look'[p].rec.wallet
                                              => u.cands \cap look'[p].rec.cands = {}
    BY DEF Matching, NothingPaid
  <2> QED BY <2>2, <2>3 DEF Matching, NothingPaid
<1>10. OpenIsOwn'
  BY <1>5, <1>7, <1>8, <1>9, <1>l DEF OpenIsOwn
<1> QED BY <1>1, <1>2, <1>t, <1>10 DEF OwnInv

LEMMA OwnStart ==
  ASSUME Scheduled, TypeInv, SafeInv, OwnInv, NEW p \in Sender, Start(p) PROVE OwnInv'
<1>0. /\ p \in Process /\ Sender \subseteq Process /\ \A q \in Sender : q = p
      /\ pc \in [Process -> PcValues] /\ job \in [Process -> Tx]
      /\ todo \in [Process -> SUBSET Record]
  BY OneSender DEF TypeInv, TypeOK
<1>1. todo[p] \subseteq Record /\ (~Reconciling(p) => todo[p] = {})
  BY <1>0 DEF OwnInv, OpenIsOwn
<1> USE <1>0, <1>1 DEF OwnFrame, Goto, Holding, Reconciling, Active
<1>2. CASE AutoStart(p) \/ AutoFinish(p)
  <2>1. OwnFrame
    BY <1>2 DEF AutoStart, AutoFinish
  <2> QED BY <2>1, OwnKeeps
<1>3. ASSUME NEW w \in Wallet, NEW S \in SUBSET Candidate, AutoSelect(p, w, S) PROVE OwnInv'
  <2>1. OwnFrame
    BY <1>3 DEF AutoSelect
  <2> QED BY <2>1, OwnKeeps
<1> QED BY <1>2, <1>3 DEF Start

LEMMA OwnReconcile ==
  ASSUME Scheduled, TypeInv, SafeInv, OwnInv, NEW p \in Sender, Reconcile(p)
  PROVE  OwnInv'
<1>0. /\ p \in Process /\ Sender \subseteq Process /\ \A q \in Sender : q = p
      /\ pc \in [Process -> PcValues] /\ job \in [Process -> Tx]
      /\ todo \in [Process -> SUBSET Record] /\ look \in [Process -> Lookup \cup {None}]
  BY OneSender DEF TypeInv, TypeOK
<1>1. /\ ~Reconciling(p) => todo[p] = {}
      /\ \A i \in todo[p] : i.cands # {} /\ OnlyOwnTx(i)
      /\ look[p] # None => /\ look[p].tx = NoId \/ Matching(look[p].rec, look[p].tx)
                           /\ look[p] \in Lookup
      /\ pc[p] \in Holding => job[p].cands # {}
  BY <1>0 DEF OwnInv, OpenIsOwn, SendsNotEmpty
<1> USE <1>0, <1>1 DEF OwnFrame, Goto, Holding, Reconciling, Active
<1>2. CASE ReconcileUnreadable(p) \/ PreReconciled(p)
  <2>1. OwnFrame
    BY <1>2 DEF ReconcileUnreadable, PreReconciled, Reconciled
  <2> QED BY <2>1, OwnKeeps
<1>3. CASE ReconcileLook(p)
  <2>1. PICK i \in todo[p], t \in 0 .. MaxAttempts :
          /\ t \in Found(i)
          /\ look' = [look EXCEPT ![p] = [rec |-> i, tx |-> t]]
          /\ todo' = [todo EXCEPT ![p] = @ \ {i}]
    BY <1>3 DEF ReconcileLook
  <2>2. t = NoId \/ Matching(i, t)
    <3>1. i \in log
      BY DEF SafeInv, LookupsHold
    <3> QED BY <2>1, <3>1, FoundMatches
  <2>3. look'[p] = [rec |-> i, tx |-> t] /\ todo'[p] \subseteq todo[p]
    BY <2>1
  <2>4. Reconciling(p) /\ UNCHANGED <<log, txs, pc, job>>
    BY <1>3 DEF ReconcileLook
  <2>5. look'[p].tx = NoId \/ Matching(look'[p].rec, look'[p].tx)
    BY <2>2, <2>3
  <2>6. OwnFrame
    BY <2>3, <2>4, <2>5
  <2> QED BY <2>6, OwnKeeps
<1>4. CASE ReconcileWrite(p)
  <2> DEFINE r == [look[p].rec EXCEPT !.kind = IF look[p].tx # NoId THEN "sent" ELSE "failed",
                                      !.tx = look[p].tx]
  <2>1. Reconciling(p) /\ log' = log \cup {r} /\ look' = [look EXCEPT ![p] = None]
        /\ UNCHANGED <<txs, pc, job, todo>>
    BY <1>4 DEF ReconcileWrite, Append
  <2>2. look[p].rec \in Record /\ (look[p].tx = NoId \/ Matching(look[p].rec, look[p].tx))
    BY <1>4 DEF ReconcileWrite, Lookup
  <2>3. /\ r.kind = (IF look[p].tx # NoId THEN "sent" ELSE "failed") /\ r.tx = look[p].tx
        /\ r.id = look[p].rec.id /\ r.wallet = look[p].rec.wallet /\ r.cands = look[p].rec.cands
    BY <2>2 DEF Record
  <2> HIDE DEF r
  <2>5. r.kind = "sent" => Matching(r, r.tx)
    BY <2>2, <2>3 DEF Matching, NothingPaid
  <2>4. OwnFrame
    BY <2>1, <2>3, <2>5
  <2> QED BY <2>4, OwnKeeps
<1> QED BY <1>2, <1>3, <1>4 DEF Reconcile

LEMMA OwnSend ==
  ASSUME Scheduled, ConstantsAssumption, TypeInv, SafeInv, OwnInv, NEW p \in Sender, Send(p)
  PROVE  OwnInv'
<1>0. /\ p \in Process /\ Sender \subseteq Process /\ \A q \in Sender : q = p
      /\ pc \in [Process -> PcValues] /\ job \in [Process -> Tx]
      /\ todo \in [Process -> SUBSET Record]
  BY OneSender DEF TypeInv, TypeOK
<1>1. /\ ~Reconciling(p) => todo[p] = {}
      /\ look[p] # None => look[p].tx = NoId \/ Matching(look[p].rec, look[p].tx)
      /\ pc[p] \in Holding \cup {"wait"} => job[p].cands # {}
      /\ pc[p] \in {"intended", "rpc"} => \E i \in log : i.kind = "intent" /\ i.id = job[p].id
      /\ pc[p] = "ready" => job[p].id = NoId
  BY <1>0 DEF OwnInv, OpenIsOwn, SendsNotEmpty, SafeInv, CurrentIsOpen, IntentOf, UnnumberedYet
<1> USE <1>0, <1>1 DEF OwnFrame, Goto, Holding, Reconciling, Active
<1>2. CASE GuardBlocks(p) \/ AcquireLock(p) \/ LockedCheck(p) \/ Dispatch(p)
  <2>1. CASE GuardBlocks(p) \/ AcquireLock(p) \/ Dispatch(p)
    <3>1. OwnFrame
      BY <2>1 DEF GuardBlocks, AcquireLock, Dispatch, Return
    <3> QED BY <3>1, OwnKeeps
  <2>2. CASE LockedCheck(p) /\ StillUnpaid(p)
    <3>1. /\ ~Covered(log, job[p].wallet, job[p].cands) /\ todo[p] = {}
          /\ pc'[p] = "ready" /\ UNCHANGED <<log, txs, job, todo, look>>
          /\ pc[p] = "reconcile"
      BY <2>2 DEF LockedCheck, StillUnpaid, Reconciled
    <3>2. OwnFrame
      BY <3>1
    <3> QED BY <3>2, OwnKeeps
  <2>3. CASE LockedCheck(p) /\ ~StillUnpaid(p)
    <3>1. /\ todo[p] = {} /\ UNCHANGED <<log, txs, todo, look>>
          /\ pc'[p] \in {"select", "idle"}
      BY <2>3 DEF LockedCheck, Reconciled, Return
    <3>2. OwnFrame
      BY <3>1
    <3> QED BY <3>2, OwnKeeps
  <2> QED BY <1>2, <2>1, <2>2, <2>3
<1>3. ASSUME NEW kind \in {"sent", "failed", "ambiguous"}, NEW tx,
             Append(Line(p, kind, tx)), pc[p] \in {"ready", "rpc"},
             kind = "sent" => tx = job[p].id /\ job[p] \in txs,
             kind = "ambiguous" => pc[p] = "rpc",
             pc'[p] \notin Holding \cup {"wait"}, UNCHANGED <<txs, todo, look>>
      PROVE  OwnInv'
  <2> DEFINE r == Line(p, kind, tx)
  <2>1. /\ r.kind = kind /\ r.id = job[p].id /\ r.tx = tx /\ log' = log \cup {r}
        /\ r.wallet = job[p].wallet /\ r.cands = job[p].cands
    BY <1>3 DEF Line, Append
  <2> HIDE DEF r
  <2>3. r.kind = "sent" => Matching(r, r.tx)
    BY <1>3, <2>1 DEF Matching
  <2>4. \A q \in Sender : pc'[q] \notin Active
    BY <1>3
  <2>5. /\ log \subseteq log' /\ UNCHANGED txs
        /\ \A s \in log' \ log : s = r
    BY <1>3, <2>1
  <2>6. r.kind = "ambiguous" => \E i \in log : i.kind = "intent" /\ i.id = r.id
    BY <1>3, <2>1
  <2>7. \A s \in log' \ log :
          /\ s.kind # "intent"
          /\ s.kind = "ambiguous" => \E i \in log : i.kind = "intent" /\ i.id = s.id
          /\ s.kind = "sent" /\ s.id # NoId => Matching(s, s.tx)
    <3>1. r.kind # "intent"
      BY <1>3, <2>1
    <3> QED BY <3>1, <2>3, <2>5, <2>6
  <2>8. /\ pc'[p] \notin Holding \cup {"wait"} /\ pc'[p] \notin Active
        /\ todo'[p] = todo[p] /\ look'[p] = look[p] /\ todo[p] = {}
    BY <1>3
  <2>2. OwnFrame
    <3> HIDE DEF Reconciling
    <3> QED BY <2>5, <2>7, <2>8
  <2> QED BY <2>2, OwnKeeps
<1>4. CASE CliMissing(p) \/ RpcFails(p)
  BY <1>3, <1>4 DEF CliMissing, RpcFails, Return
<1>5. CASE RpcTimesOut(p)
  BY <1>3, <1>5 DEF RpcTimesOut, Return
<1>6. CASE RpcSucceeds(p)
  BY <1>3, <1>6 DEF RpcSucceeds, SentLine
<1>7. CASE AppendIntent(p)
  <2>0. PICK i : i = IntentLine(p, nextId)
    OBVIOUS
  <2>1. /\ pc[p] = "ready" /\ pc' = [pc EXCEPT ![p] = "intended"] /\ log' = log \cup {i}
        /\ job' = [job EXCEPT ![p].id = nextId] /\ UNCHANGED <<txs, todo, look>>
    BY <1>7, <2>0 DEF AppendIntent, Append
  <2>2. /\ i.kind = "intent" /\ i.id = nextId /\ i.wallet = job[p].wallet
        /\ i.cands = job[p].cands /\ job'[p].cands = job[p].cands
    BY <2>0, <2>1 DEF IntentLine, Tx
  <2>3. OnlyOwnTx(i)'
    BY <2>1, <2>2 DEF SafeInv, TargetUnpaid, OnlyOwnTx
  <2>4. SendsNotEmpty' /\ SettledByMatchingTx'
    BY <2>1, <2>2 DEF OwnInv, SendsNotEmpty, SettledByMatchingTx, Success, Matching, NothingPaid
  <2>6. RequestUnrecorded'
    BY <2>1, <2>2 DEF OwnInv, RequestUnrecorded, Success
  <2>5. OpenIsOwn'
    BY <2>1, <2>2, <2>3 DEF OwnInv, OpenIsOwn, OnlyOwnTx, Outcome, Matching, NothingPaid
  <2> QED BY <2>4, <2>5, <2>6 DEF OwnInv
<1> QED BY <1>2, <1>4, <1>5, <1>6, <1>7 DEF Send

LEMMA OwnOthers ==
  ASSUME Scheduled, ConstantsAssumption, TypeInv, SafeInv, OwnInv,
         \/ \E p \in Recorder : \/ RecordAppend(p)
                                \/ \E w \in Wallet, c \in Candidate : RecordCheck(p, w, c)
         \/ \E p \in Process : Publish(p) \/ Crash(p)
         \/ \E t \in inflight : WalletRefuse(t)
         \/ UNCHANGED vars
  PROVE  OwnInv'
<1>0. /\ Sender \subseteq Process /\ Recorder \subseteq Process /\ \A q \in Sender : q \notin Recorder
      /\ pc \in [Process -> PcValues] /\ job \in [Process -> Tx]
      /\ todo \in [Process -> SUBSET Record] /\ look \in [Process -> Lookup \cup {None}]
  BY DEF TypeInv, TypeOK, Process, ConstantsAssumption
<1>1. /\ \A q \in Sender : ~Reconciling(q) => todo[q] = {}
      /\ \A q \in Sender : pc[q] \in Holding \cup {"wait"} => job[q].cands # {}
  BY DEF OwnInv, OpenIsOwn, SendsNotEmpty
<1> USE <1>0, <1>1 DEF OwnFrame, Goto, Holding, Reconciling, Active
<1>2. ASSUME NEW p \in Recorder, RecordAppend(p) PROVE OwnInv'
  <2>1. job[p].id = NoId
    BY <1>2 DEF RecordAppend, SafeInv, UnnumberedYet
  <2>2. Line(p, "sent", p).kind = "sent" /\ Line(p, "sent", p).id = NoId
    BY <2>1 DEF Line
  <2>3. OwnFrame
    BY <1>2, <2>2 DEF RecordAppend, Append
  <2> QED BY <2>3, OwnKeeps
<1>3. ASSUME NEW p \in Recorder, NEW w \in Wallet, NEW c \in Candidate, RecordCheck(p, w, c)
      PROVE  OwnInv'
  <2>1. OwnFrame
    BY <1>3 DEF RecordCheck
  <2> QED BY <2>1, OwnKeeps
<1>4. ASSUME NEW p \in Process, Publish(p) \/ Crash(p) PROVE OwnInv'
  <2>1. OwnFrame
    BY <1>4 DEF Publish, Crash, Return
  <2> QED BY <2>1, OwnKeeps
<1>5. ASSUME NEW t \in inflight, WalletRefuse(t) PROVE OwnInv'
  <2>1. OwnFrame
    BY <1>5 DEF WalletRefuse
  <2> QED BY <2>1, OwnKeeps
<1>6. CASE UNCHANGED vars
  <2>1. OwnFrame
    BY <1>6 DEF vars
  <2> QED BY <2>1, OwnKeeps
<1> QED BY <1>2, <1>3, <1>4, <1>5, <1>6

\* The daemon pays what its caller waits for: every other intent for that is closed.
LEMMA OwnApply ==
  ASSUME Scheduled, TypeInv, SafeInv, OwnInv, NEW t \in inflight, WalletApply(t) PROVE OwnInv'
<1>1. PICK p \in Sender : pc[p] = "rpc" /\ t = job[p] /\ \A q \in Sender : q = p
  BY OneSender DEF SafeInv, InflightIsCurrent
<1>2. txs' = txs \cup {t} /\ UNCHANGED <<log, pc, job, todo, look>>
  BY DEF WalletApply
<1>3. SendsNotEmpty' /\ RequestUnrecorded'
  BY <1>2 DEF OwnInv, SendsNotEmpty, RequestUnrecorded
<1>7. SettledByMatchingTx'
  <2> SUFFICES ASSUME NEW r \in Success(log), r.id # NoId PROVE Matching(r, r.tx)'
    BY <1>2 DEF SettledByMatchingTx
  <2>1. ~(r.wallet = t.wallet /\ r.cands \cap t.cands # {})
    BY <1>1 DEF OwnInv, RequestUnrecorded
  <2>2. PICK u \in txs : /\ u.id = r.tx /\ u.wallet = r.wallet
                         /\ AmountOf[u.cands] = AmountOf[r.cands]
                         /\ (u.id = r.id /\ u.cands = r.cands) \/ NothingPaid(r)
    BY DEF OwnInv, SettledByMatchingTx, Matching
  <2>3. NothingPaid(r) => NothingPaid(r)'
    BY <1>2, <2>1 DEF NothingPaid
  <2> QED BY <1>2, <2>2, <2>3 DEF Matching
<1>8. look[p] = None
  BY <1>1 DEF SafeInv, LookupsHold, Reconciling
<1>4. todo[p] = {}
  BY <1>1 DEF OwnInv, OpenIsOwn, Reconciling
<1>5. \A i \in log : i.kind = "intent" => Outcome(log, i) \/ OnlyOwnTx(i)'
  BY <1>1, <1>2 DEF OwnInv, OpenIsOwn, OnlyOwnTx
<1>6. OpenIsOwn'
  BY <1>1, <1>2, <1>4, <1>5, <1>8 DEF OwnInv, OpenIsOwn, Reconciling
<1> QED BY <1>3, <1>6, <1>7 DEF OwnInv

LEMMA OwnStep ==
  Scheduled /\ ConstantsAssumption /\ TypeInv /\ SafeInv /\ OwnInv /\ [Next]_vars => OwnInv'
  BY OwnStart, OwnReconcile, OwnSend, OwnOthers, OwnApply DEF Next, Scheduled

\* OwnInv holds of the scheduled payout, for any amounts.
LEMMA ScheduledOwn == ASSUME Scheduled PROVE Spec => []OwnInv
<1>1. Scheduled /\ Init => OwnInv
  BY DEF Init, OwnInv, SendsNotEmpty, RequestUnrecorded, OpenIsOwn, SettledByMatchingTx, Success,
     Sender, Process, Holding, Reconciling, OnlyOwnTx
<1> QED BY <1>1, Scheduled, ConstantsAssumption, OwnStep, ScheduledInvariant, TypeInvariant,
        PTL DEF Spec

\* Whatever sends amount to, an intent of the scheduled payout is settled by the
\* transaction sent for it, or by another one to its address for its amount, and then
\* nothing of what it names is ever paid.
THEOREM SettledByMatching == ASSUME Scheduled PROVE Spec => []SettledByMatchingTx
<1>1. OwnInv => SettledByMatchingTx
  BY DEF OwnInv
<1> QED BY <1>1, Scheduled, ScheduledOwn, PTL

(***************************************************************************)
(* The ledger implements PayOnce, where nothing is recorded by hand.       *)
(***************************************************************************)
Overlaps(t, u) == t.wallet = u.wallet /\ t.cands \cap u.cands # {}

\* Where nothing is paid twice, a candidate is paid once or never.
LEMMA CountOnce ==
  ASSUME NEW T, \A t, u \in T : Overlaps(t, u) => t = u, NEW w, NEW c
  PROVE  Cardinality({t \in T : t.wallet = w /\ c \in t.cands})
           = IF \E t \in T : t.wallet = w /\ c \in t.cands THEN 1 ELSE 0
<1> DEFINE P == {t \in T : t.wallet = w /\ c \in t.cands}
<1>1. CASE \E t \in T : t.wallet = w /\ c \in t.cands
  <2>1. PICK t \in T : t.wallet = w /\ c \in t.cands
    BY <1>1
  <2>2. P = {t}
    BY <2>1 DEF Overlaps
  <2>3. Cardinality(P) = 1
    BY <2>2, FS_Singleton
  <2> QED BY <1>1, <2>3
<1>2. CASE ~ \E t \in T : t.wallet = w /\ c \in t.cands
  <2>1. P = {}
    BY <1>2
  <2>2. Cardinality(P) = 0
    BY <2>1, FS_EmptySet
  <2> QED BY <1>2, <2>2
<1> QED BY <1>1, <1>2

LEMMA PaidTimesOnce ==
  ASSUME AtMostOnce, NEW w, NEW c
  PROVE  PaidTimes(w, c) = IF \E t \in txs : t.wallet = w /\ c \in t.cands THEN 1 ELSE 0
<1>1. \A t, u \in txs : Overlaps(t, u) => t = u
  BY DEF AtMostOnce, Overlaps
<1> QED BY <1>1, CountOnce DEF PaidTimes

\* A step that makes no transaction and writes no success line.
LEMMA Stutters ==
  ASSUME UNCHANGED txs, Success(log') = Success(log)
  PROVE  UNCHANGED <<Paid, PaidFor, RecordedPaid>>
<1>1. Paid' = Paid /\ PaidFor' = PaidFor
  BY DEF Paid, PaidTimes, PaidFor
<1>2. RecordedPaid' = RecordedPaid
  BY DEF RecordedPaid
<1> QED BY <1>1, <1>2

\* A line that is not a success line adds no success.
LEMMA OtherLine ==
  ASSUME NEW l, NEW r, r.kind # "sent" PROVE Success(l \cup {r}) = Success(l)
  BY DEF Success

\* A success line that matches what the wallet has paid is a Record step.
LEMMA Records ==
  ASSUME TypeInv, AtMostOnce, NEW r \in Record, r.kind = "sent", UNCHANGED txs,
         log' = log \cup {r}, NEW n, Matching(r, n)
  PROVE  Promise!Next
<1>1. r.wallet \in Wallet /\ r.cands \in SUBSET Candidate
  BY DEF Record
<1>2. Success(log') = Success(log) \cup {r}
  BY DEF Success
<1>3. RecordedPaid' = [RecordedPaid EXCEPT ![r.wallet] = @ \cup r.cands]
  <2> DEFINE U(L, w) == UNION {s.cands : s \in {q \in L : q.wallet = w}}
  <2>1. \A w \in Wallet : U(Success(log) \cup {r}, w) =
                           IF w = r.wallet THEN U(Success(log), w) \cup r.cands
                                           ELSE U(Success(log), w)
    OBVIOUS
  <2>2. RecordedPaid = [w \in Wallet |-> U(Success(log), w)]
    BY DEF RecordedPaid
  <2>3. RecordedPaid' = [w \in Wallet |-> U(Success(log'), w)]
    BY DEF RecordedPaid
  <2> HIDE DEF U
  <2> QED BY <1>1, <1>2, <2>1, <2>2, <2>3
<1>4. r.cands \in PaidFor[r.wallet] \/ Promise!TakenFor(r.wallet, r.cands)
  <2>1. PICK t \in txs : /\ t.wallet = r.wallet /\ AmountOf[t.cands] = AmountOf[r.cands]
                         /\ t.cands = r.cands \/ NothingPaid(r)
    BY DEF Matching
  <2>2. t.cands \in PaidFor[r.wallet]
    BY <1>1, <2>1 DEF PaidFor
  <2>3. ASSUME NothingPaid(r), NEW c \in r.cands PROVE Paid[r.wallet][c] = 0
    BY <1>1, <2>3, PaidTimesOnce DEF Paid, NothingPaid
  <2> QED BY <2>1, <2>2, <2>3 DEF Promise!TakenFor
<1>5. Paid' = Paid /\ PaidFor' = PaidFor
  BY DEF Paid, PaidTimes, PaidFor
<1> QED BY <1>1, <1>3, <1>4, <1>5 DEF Promise!Next, Promise!Record

\* The daemon's payment is a Pay step.
LEMMA Pays ==
  ASSUME Scheduled, TypeInv, SafeInv, AtMostOnce', NEW t \in inflight, WalletApply(t)
  PROVE  Promise!Next
<1>1. PICK p \in Sender : pc[p] = "rpc" /\ t = job[p] /\ p \in Process
  BY OneSender DEF SafeInv, InflightIsCurrent
<1>2. t.wallet \in Wallet /\ t.cands \in SUBSET Candidate
  BY <1>1 DEF TypeInv, TypeOK, JobOK, Busy, PcValues, Tx
<1>3. t \notin txs /\ \A u \in txs : ~Overlaps(u, t)
  BY <1>1 DEF SafeInv, DecidedOnce, TargetUnpaid, Overlaps
<1>4. txs' = txs \cup {t} /\ log' = log
  BY DEF WalletApply
<1> DEFINE N(w, c) == \E u \in txs : u.wallet = w /\ c \in u.cands
<1>5. \A w \in Wallet, c \in Candidate : PaidTimes(w, c) = IF N(w, c) THEN 1 ELSE 0
  BY PaidTimesOnce DEF SafeInv
<1>6. \A w \in Wallet, c \in Candidate :
        PaidTimes(w, c)' = IF N(w, c) \/ (w = t.wallet /\ c \in t.cands) THEN 1 ELSE 0
  <2> SUFFICES ASSUME NEW w \in Wallet, NEW c \in Candidate
               PROVE  PaidTimes(w, c)' = IF N(w, c) \/ (w = t.wallet /\ c \in t.cands)
                                         THEN 1 ELSE 0
    OBVIOUS
  <2>1. \A u, v \in txs' : Overlaps(u, v) => u = v
    BY DEF AtMostOnce, Overlaps
  <2>2. PaidTimes(w, c)' = IF \E u \in txs' : u.wallet = w /\ c \in u.cands THEN 1 ELSE 0
    BY <2>1, CountOnce DEF PaidTimes
  <2> QED BY <1>4, <2>2
<1>7. \A c \in t.cands : ~N(t.wallet, c)
  BY <1>3 DEF Overlaps
<1> HIDE DEF N
<1>8. \A c \in t.cands : Paid[t.wallet][c] = 0
  BY <1>2, <1>5, <1>7 DEF Paid
<1>9. Paid' = [Paid EXCEPT ![t.wallet] = [c \in Candidate |-> IF c \in t.cands THEN 1 ELSE @[c]]]
  <2>1. Paid = [w \in Wallet |-> [c \in Candidate |-> PaidTimes(w, c)]]
    BY DEF Paid
  <2>2. Paid' = [w \in Wallet |-> [c \in Candidate |-> PaidTimes(w, c)']]
    BY DEF Paid
  <2>3. \A w \in Wallet, c \in Candidate :
          PaidTimes(w, c)' = IF w = t.wallet /\ c \in t.cands THEN 1 ELSE PaidTimes(w, c)
    BY <1>5, <1>6
  <2>4. ASSUME NEW w \in Wallet, w # t.wallet PROVE Paid'[w] = Paid[w]
    BY <2>1, <2>2, <2>3, <2>4
  <2>5. Paid'[t.wallet] = [c \in Candidate |-> IF c \in t.cands THEN 1 ELSE Paid[t.wallet][c]]
    BY <1>2, <2>1, <2>2, <2>3
  <2> QED BY <1>2, <2>1, <2>2, <2>4, <2>5
<1>10. RecordedPaid' = RecordedPaid
  BY <1>4 DEF RecordedPaid
<1>11. PaidFor' = [PaidFor EXCEPT ![t.wallet] = @ \cup {t.cands}]
  <2> DEFINE S(T, w) == {u.cands : u \in {v \in T : v.wallet = w}}
  <2>1. \A w \in Wallet : S(txs \cup {t}, w) = IF w = t.wallet THEN S(txs, w) \cup {t.cands}
                                                               ELSE S(txs, w)
    OBVIOUS
  <2>2. PaidFor = [w \in Wallet |-> S(txs, w)]
    BY DEF PaidFor
  <2>3. PaidFor' = [w \in Wallet |-> S(txs', w)]
    BY DEF PaidFor
  <2> HIDE DEF S
  <2> QED BY <1>2, <1>4, <2>1, <2>2, <2>3
<1> QED BY <1>2, <1>8, <1>9, <1>10, <1>11 DEF Promise!Next, Promise!Pay

LEMMA PaysOnceStep ==
  Scheduled /\ Recorder = {} /\ ConstantsAssumption
  /\ TypeInv /\ SafeInv /\ SafeInv' /\ OwnInv /\ [Next]_vars
  => [Promise!Next]_<<Paid, PaidFor, RecordedPaid>>
<1> SUFFICES ASSUME Scheduled, Recorder = {}, ConstantsAssumption,
                    TypeInv, SafeInv, SafeInv', OwnInv, [Next]_vars
             PROVE  [Promise!Next]_<<Paid, PaidFor, RecordedPaid>>
  OBVIOUS
<1>0. AtMostOnce /\ AtMostOnce'
  BY DEF SafeInv
<1>1. ASSUME UNCHANGED <<log, txs>> PROVE [Promise!Next]_<<Paid, PaidFor, RecordedPaid>>
  BY <1>1, Stutters
<1>2. ASSUME NEW r, r.kind # "sent", log' = log \cup {r}, UNCHANGED txs
      PROVE  [Promise!Next]_<<Paid, PaidFor, RecordedPaid>>
  BY <1>2, OtherLine, Stutters
<1>3. ASSUME NEW p \in Sender, Start(p) PROVE UNCHANGED <<log, txs>>
  BY <1>3 DEF Start, AutoStart, AutoFinish, AutoSelect
<1>4. ASSUME NEW p \in Sender, Reconcile(p) PROVE [Promise!Next]_<<Paid, PaidFor, RecordedPaid>>
  <2>1. CASE ReconcileLook(p) \/ ReconcileUnreadable(p) \/ PreReconciled(p)
    BY <1>1, <2>1 DEF ReconcileLook, ReconcileUnreadable, PreReconciled
  <2>2. CASE ReconcileWrite(p)
    <3>0. PICK r : r = [look[p].rec EXCEPT !.kind = IF look[p].tx # NoId THEN "sent" ELSE "failed",
                                           !.tx = look[p].tx]
      OBVIOUS
    <3>1. look[p] # None /\ log' = log \cup {r} /\ UNCHANGED txs
      BY <2>2, <3>0 DEF ReconcileWrite, Append
    <3>2. look[p].rec \in Record /\ look[p].tx \in 0 .. MaxAttempts
      <4>1. look[p] \in Lookup
        BY <3>1, OneSender DEF TypeInv, TypeOK
      <4> QED BY <4>1 DEF Lookup
    <3>3. /\ r \in Record /\ r.kind = (IF look[p].tx # NoId THEN "sent" ELSE "failed")
          /\ r.id = look[p].rec.id
          /\ r.wallet = look[p].rec.wallet /\ r.cands = look[p].rec.cands
      BY <3>0, <3>2 DEF Record
    <3>4. CASE look[p].tx # NoId
      <4>1. Matching(look[p].rec, look[p].tx)
        BY <3>1, <3>4 DEF OwnInv, OpenIsOwn
      <4>2. Matching(r, look[p].tx)
        BY <3>3, <4>1 DEF Matching, NothingPaid
      <4> QED BY <1>0, <3>1, <3>3, <3>4, <4>2, Records
    <3>5. CASE look[p].tx = NoId
      BY <1>2, <3>1, <3>3, <3>5
    <3> QED BY <3>4, <3>5
  <2> QED BY <1>4, <2>1, <2>2 DEF Reconcile
<1>5. ASSUME NEW p \in Sender, Send(p) PROVE [Promise!Next]_<<Paid, PaidFor, RecordedPaid>>
  <2>1. CASE GuardBlocks(p) \/ AcquireLock(p) \/ LockedCheck(p) \/ Dispatch(p)
    BY <1>1, <2>1 DEF GuardBlocks, AcquireLock, LockedCheck, Dispatch
  <2>2. CASE CliMissing(p) \/ RpcFails(p)
    <3>1. Line(p, "failed", NoId).kind # "sent"
      BY DEF Line
    <3> QED BY <1>2, <2>2, <3>1 DEF CliMissing, RpcFails, Append
  <2>3. CASE RpcTimesOut(p)
    <3>1. Line(p, "ambiguous", NoId).kind # "sent"
      BY DEF Line
    <3> QED BY <1>2, <2>3, <3>1 DEF RpcTimesOut, Append
  <2>4. CASE AppendIntent(p)
    <3>1. IntentLine(p, nextId).kind # "sent"
      BY DEF IntentLine
    <3> QED BY <1>2, <2>4, <3>1 DEF AppendIntent, Append
  <2>5. CASE RpcSucceeds(p)
    <3>0. PICK r : r = SentLine(p)
      OBVIOUS
    <3>1. pc[p] = "rpc" /\ job[p] \in txs /\ log' = log \cup {r} /\ UNCHANGED txs
      BY <2>5, <3>0 DEF RpcSucceeds, Append
    <3>2. job[p].id \in 0 .. MaxAttempts /\ p \in Process
      BY OneSender DEF TypeInv, TypeOK, Tx
    <3>3. r \in Record
      BY <3>0, <3>1, <3>2, LineType DEF SentLine, Busy, PcValues
    <3>4. /\ r.kind = "sent" /\ r.id = job[p].id
          /\ r.wallet = job[p].wallet /\ r.cands = job[p].cands
      BY <3>0 DEF SentLine, Line
    <3>5. Matching(r, job[p].id)
      BY <3>1, <3>4 DEF Matching
    <3> QED BY <1>0, <3>1, <3>3, <3>4, <3>5, Records
  <2> QED BY <1>5, <2>1, <2>2, <2>3, <2>4, <2>5 DEF Send
<1>6. ASSUME NEW p \in Process, Publish(p) \/ Crash(p) PROVE UNCHANGED <<log, txs>>
  BY <1>6 DEF Publish, Crash
<1>7. ASSUME NEW t \in inflight, WalletApply(t) PROVE Promise!Next
  BY <1>0, <1>7, Pays
<1>8. ASSUME NEW t \in inflight, WalletRefuse(t) PROVE UNCHANGED <<log, txs>>
  BY <1>8 DEF WalletRefuse
<1>9. CASE UNCHANGED vars
  BY <1>1, <1>9 DEF vars
<1> QED BY <1>1, <1>3, <1>4, <1>5, <1>6, <1>7, <1>8, <1>9 DEF Next, Scheduled

\* The scheduled payout implements PayOnce, for any amounts: it pays only what it
\* never paid, and records as paid only what it paid, or what amounts to as much as
\* another payment to the wallet while nothing of it is paid.
THEOREM ImplementsPayOnce ==
  ASSUME Scheduled, Recorder = {} PROVE Spec => PaysOnce
<1>1. Init => Promise!Init
  <2> SUFFICES ASSUME Init PROVE Promise!Init
    OBVIOUS
  <2>1. txs = {} /\ Success(log) = {}
    BY DEF Init, Success
  <2>2. \A w \in Wallet, c \in Candidate : PaidTimes(w, c) = 0
    BY <2>1, FS_EmptySet DEF PaidTimes
  <2>3. Paid = [w \in Wallet |-> [c \in Candidate |-> 0]]
    BY <2>2 DEF Paid
  <2>4. RecordedPaid = [w \in Wallet |-> {}]
    BY <2>1 DEF RecordedPaid
  <2>5. PaidFor = [w \in Wallet |-> {}]
    BY <2>1 DEF PaidFor
  <2> QED BY <2>3, <2>4, <2>5 DEF Promise!Init
<1> QED BY <1>1, Scheduled, Recorder = {}, ConstantsAssumption, PaysOnceStep, ScheduledOwn,
        ScheduledInvariant, TypeInvariant, PTL DEF Spec, PaysOnce, Promise!Spec

-----------------------------------------------------------------------------
(***************************************************************************)
(* The operator's tools of ManualSends beside the ledger.  They take the   *)
(* flock like a sender, so what the locked check of a sender, or of a tool *)
(* under the flock, has found stays true until its request leaves.         *)
(***************************************************************************)
HandPlaces == {"idle", "wait"} \cup UnderFlock

\* Only an auto run reconciles without the flock.
LedgerTypes == JobTypes /\ \A p \in Process : pc[p] = "prereconcile" => p \in AutoWorker

ToolTypes ==
  /\ hand \in [Hand -> [at : HandPlaces, batch : Nat, sources : SUBSET Source, share : Nat]]
  /\ batches \in Nat

ManualTypes == LedgerTypes /\ ToolTypes
manualVars == <<vars, handVars>>

\* A process of the ledger is at a known place with a job of the known shape.
LEMMA LedgerTypesStep == ConstantsAssumption /\ LedgerTypes /\ [Next]_vars => LedgerTypes'
<1> SUFFICES ASSUME ConstantsAssumption, LedgerTypes, [Next]_vars PROVE LedgerTypes'
  OBVIOUS
<1> USE DEF LedgerTypes, JobTypes, PcValues, Goto
<1>0. /\ AutoWorker \subseteq Process /\ OnceWorker \subseteq Process
      /\ Sender \subseteq Process /\ Recorder \subseteq Process
  BY DEF Process, Sender
<1>a. NoTx \in Tx
  BY DEF NoTx, Tx, NoId, ConstantsAssumption
<1>1. ASSUME NEW p \in Sender, Start(p) PROVE LedgerTypes'
  BY <1>0, <1>1 DEF Start, AutoStart, AutoFinish, AutoSelect, Tx, NoId, ConstantsAssumption
<1>2. ASSUME NEW p \in Sender, Reconcile(p) PROVE LedgerTypes'
  BY <1>0, <1>2 DEF Reconcile, ReconcileLook, ReconcileUnreadable, ReconcileWrite, PreReconciled
<1>3. ASSUME NEW p \in Sender, Send(p) PROVE LedgerTypes'
  <2>1. CASE AppendIntent(p)
    BY <1>0, <2>1 DEF AppendIntent, Attempt, Tx, ConstantsAssumption
  <2>2. CASE GuardBlocks(p) \/ LockedCheck(p) \/ CliMissing(p) \/ RpcFails(p) \/ RpcTimesOut(p)
    BY <1>0, <1>a, <2>2 DEF GuardBlocks, LockedCheck, CliMissing, RpcFails, RpcTimesOut, Return
  <2>3. CASE AcquireLock(p) \/ Dispatch(p) \/ RpcSucceeds(p)
    BY <1>0, <2>3 DEF AcquireLock, Dispatch, RpcSucceeds
  <2> QED BY <1>3, <2>1, <2>2, <2>3 DEF Send
<1>4. ASSUME NEW p \in Recorder, RecordAppend(p) PROVE LedgerTypes'
  BY <1>0, <1>4 DEF RecordAppend
<1>5. ASSUME NEW p \in Recorder, NEW w \in Wallet, NEW c \in Candidate, RecordCheck(p, w, c)
      PROVE  LedgerTypes'
  BY <1>0, <1>5 DEF RecordCheck, Tx, NoId, ConstantsAssumption
<1>6. ASSUME NEW p \in Process, Publish(p) \/ Crash(p) PROVE LedgerTypes'
  BY <1>a, <1>6 DEF Publish, Crash, Return
<1>7. ASSUME NEW t \in inflight, WalletApply(t) \/ WalletRefuse(t) PROVE LedgerTypes'
  BY <1>7 DEF WalletApply, WalletRefuse
<1>8. CASE UNCHANGED vars
  BY <1>8 DEF vars
<1>9. ASSUME NEW p \in OnceWorker, NEW w \in Wallet, NEW c \in Candidate, OnceStart(p, w, c)
      PROVE  LedgerTypes'
  BY <1>0, <1>9 DEF OnceStart, Tx, NoId, ConstantsAssumption
<1> QED
  BY <1>1, <1>2, <1>3, <1>4, <1>5, <1>6, <1>7, <1>8, <1>9 DEF Next

\* No process of the ledger touches the flock while someone else has it.
LEMMA FlockKept ==
  ASSUME [Next]_vars, lock # None, lock \notin Process PROVE lock' = lock
<1>0. Sender \subseteq Process /\ Recorder \subseteq Process /\ OnceWorker \subseteq Process
  BY DEF Process, Sender
<1>1. ASSUME NEW p \in Sender, Start(p) \/ Reconcile(p) PROVE lock' = lock
  BY <1>1 DEF Start, AutoStart, AutoFinish, AutoSelect, Reconcile, ReconcileLook,
     ReconcileUnreadable, ReconcileWrite, PreReconciled
<1>2. ASSUME NEW p \in Sender, Send(p) PROVE lock' = lock
  BY <1>0, <1>2 DEF Send, GuardBlocks, AcquireLock, LockedCheck, CliMissing, AppendIntent,
     Dispatch, RpcSucceeds, RpcFails, RpcTimesOut, Return, Release
<1>3. ASSUME NEW p \in Recorder,
             RecordAppend(p) \/ \E w \in Wallet, c \in Candidate : RecordCheck(p, w, c)
      PROVE  lock' = lock
  BY <1>3 DEF RecordAppend, RecordCheck
<1>4. ASSUME NEW p \in Process, Publish(p) \/ Crash(p) PROVE lock' = lock
  BY <1>4 DEF Publish, Crash, Return, Release
<1>5. ASSUME NEW t \in inflight, WalletApply(t) \/ WalletRefuse(t) PROVE lock' = lock
  BY <1>5 DEF WalletApply, WalletRefuse
<1>6. CASE UNCHANGED vars
  BY <1>6 DEF vars
<1>7. ASSUME NEW p \in OnceWorker, NEW w \in Wallet, NEW c \in Candidate, OnceStart(p, w, c)
      PROVE  lock' = lock
  BY <1>7 DEF OnceStart
<1> QED
  BY <1>1, <1>2, <1>3, <1>4, <1>5, <1>6, <1>7 DEF Next

\* A step that adds no numbered success line and takes no process to the send.
NothingRecorded ==
  /\ \A r \in Success(log') : r \in Success(log) \/ r.id = NoId
  /\ \A p \in Sender : pc'[p] \in {"ready", "intended"} =>
       /\ pc[p] \in {"ready", "intended"}
       /\ job'[p].wallet = job[p].wallet /\ job'[p].cands = job[p].cands
  /\ \A p \in Recorder : pc'[p] = "record" => job'[p].id = NoId

LEMMA UnrecordedKeeps ==
  ASSUME TargetUnrecorded, NothingRecorded PROVE TargetUnrecorded'
  BY DEF TargetUnrecorded, NothingRecorded

LEMMA AddsLine ==
  ASSUME NEW r, log' = log \cup {r}, r.kind # "sent" \/ r.id = NoId
  PROVE  \A s \in Success(log') : s \in Success(log) \/ s.id = NoId
  BY DEF Success

LEMMA UnrecordedStep ==
  AutoIsAlone /\ ConstantsAssumption /\ LedgerTypes /\ LockInv /\ TargetUnrecorded /\ [Next]_vars
  => TargetUnrecorded'
<1> SUFFICES ASSUME AutoIsAlone, ConstantsAssumption, LedgerTypes, LockInv, TargetUnrecorded,
                    [Next]_vars
             PROVE  TargetUnrecorded'
  OBVIOUS
<1>0. /\ Sender \subseteq Process /\ Recorder \subseteq Process /\ OnceWorker \subseteq Sender
      /\ Sender \cap Recorder = {} /\ pc \in [Process -> PcValues] /\ job \in [Process -> Tx]
  BY DEF Process, Sender, LedgerTypes, JobTypes, ConstantsAssumption
<1>u. \A p \in Recorder : pc[p] = "record" => job[p].id = NoId
  BY DEF TargetUnrecorded
<1> USE <1>0, <1>u DEF Goto
\* Only one sender is between the flock and the request.
<1>a. ASSUME NEW p \in Sender, pc[p] \in Holding, NEW q \in Sender, pc[q] \in Holding
      PROVE  p = q
  BY <1>a DEF LockInv
<1>1. ASSUME NEW p \in Sender, Start(p) PROVE TargetUnrecorded'
  <2>1. NothingRecorded
    BY <1>1 DEF Start, AutoStart, AutoFinish, AutoSelect, NothingRecorded
  <2> QED BY <2>1, UnrecordedKeeps
<1>2. ASSUME NEW p \in Sender, Reconcile(p) PROVE TargetUnrecorded'
  <2>1. CASE ReconcileLook(p) \/ ReconcileUnreadable(p) \/ PreReconciled(p)
    <3>1. NothingRecorded
      BY <2>1 DEF ReconcileLook, ReconcileUnreadable, PreReconciled, NothingRecorded
    <3> QED BY <3>1, UnrecordedKeeps
  <2>2. CASE ReconcileWrite(p)
    <3>1. Reconciling(p) /\ UNCHANGED <<pc, job>>
      BY <2>2 DEF ReconcileWrite
    <3>2. ASSUME NEW q \in Sender, pc[q] \in {"ready", "intended"} PROVE FALSE
      <4>1. CASE p \in AutoWorker
        BY <3>1, <3>2, <4>1 DEF AutoIsAlone, Reconciling
      <4>2. CASE pc[p] = "reconcile"
        BY <1>a, <3>2, <4>2 DEF Holding
      <4>3. pc[p] = "prereconcile" => p \in AutoWorker
        BY DEF LedgerTypes
      <4> QED BY <3>1, <4>1, <4>2, <4>3 DEF Reconciling
    <3> QED BY <3>1, <3>2 DEF TargetUnrecorded
  <2> QED BY <1>2, <2>1, <2>2 DEF Reconcile
<1>3. ASSUME NEW p \in Sender, Send(p) PROVE TargetUnrecorded'
  <2>1. CASE GuardBlocks(p) \/ AcquireLock(p) \/ Dispatch(p)
    <3>1. NothingRecorded
      BY <2>1 DEF GuardBlocks, AcquireLock, Dispatch, Return, NothingRecorded
    <3> QED BY <3>1, UnrecordedKeeps
  <2>2. CASE LockedCheck(p)
    <3>1. UNCHANGED log /\ pc[p] = "reconcile"
      BY <2>2 DEF LockedCheck
    <3>2. CASE StillUnpaid(p)
      <4>1. UNCHANGED job /\ pc' = [pc EXCEPT ![p] = "ready"]
        BY <2>2, <3>2 DEF LockedCheck
      <4>2. \A r \in Success(log) : ~(r.wallet = job[p].wallet /\ r.cands \cap job[p].cands # {})
        BY <3>2 DEF StillUnpaid, Covered
      <4> QED BY <3>1, <4>1, <4>2 DEF TargetUnrecorded
    <3>3. CASE ~StillUnpaid(p)
      <4>1. NothingRecorded
        BY <2>2, <3>1, <3>3 DEF LockedCheck, Return, NothingRecorded
      <4> QED BY <4>1, UnrecordedKeeps
    <3> QED BY <3>2, <3>3
  <2>3. CASE CliMissing(p) \/ RpcFails(p) \/ RpcTimesOut(p)
    <3>1. PICK kind \in {"failed", "ambiguous"} : log' = log \cup {Line(p, kind, NoId)}
      BY <2>3 DEF CliMissing, RpcFails, RpcTimesOut, Append
    <3>2. \A s \in Success(log') : s \in Success(log) \/ s.id = NoId
      <4>1. Line(p, kind, NoId).kind # "sent"
        BY DEF Line
      <4> QED BY <3>1, <4>1, AddsLine
    <3>3. NothingRecorded
      BY <2>3, <3>2 DEF CliMissing, RpcFails, RpcTimesOut, Return, NothingRecorded
    <3> QED BY <3>3, UnrecordedKeeps
  <2>4. CASE AppendIntent(p)
    <3>1. IntentLine(p, nextId).kind # "sent"
      BY DEF IntentLine
    <3>2. \A s \in Success(log') : s \in Success(log) \/ s.id = NoId
      BY <2>4, <3>1, AddsLine DEF AppendIntent, Append
    <3>3. /\ pc[p] = "ready" /\ pc' = [pc EXCEPT ![p] = "intended"]
          /\ job' = [job EXCEPT ![p].id = nextId]
      BY <2>4 DEF AppendIntent
    <3>4. /\ job'[p].wallet = job[p].wallet /\ job'[p].cands = job[p].cands
          /\ \A q \in Process \ {p} : job'[q] = job[q]
      BY <3>3 DEF Tx
    <3>5. NothingRecorded
      BY <3>2, <3>3, <3>4 DEF NothingRecorded
    <3> QED BY <3>5, UnrecordedKeeps
  <2>5. CASE RpcSucceeds(p)
    <3>1. pc[p] = "rpc" /\ UNCHANGED job /\ pc' = [pc EXCEPT ![p] = "publish"]
      BY <2>5 DEF RpcSucceeds
    <3>2. ASSUME NEW q \in Sender, pc'[q] \in {"ready", "intended"} PROVE FALSE
      BY <1>a, <3>1, <3>2 DEF Holding
    <3> QED BY <3>1, <3>2 DEF TargetUnrecorded
  <2> QED BY <1>3, <2>1, <2>2, <2>3, <2>4, <2>5 DEF Send
<1>4. ASSUME NEW p \in Recorder, RecordAppend(p) PROVE TargetUnrecorded'
  <2>1. Line(p, "sent", p).id = NoId
    BY <1>4 DEF RecordAppend, Line
  <2>2. \A s \in Success(log') : s \in Success(log) \/ s.id = NoId
    BY <1>4, <2>1, AddsLine DEF RecordAppend, Append
  <2>3. NothingRecorded
    BY <1>4, <2>2 DEF RecordAppend, NothingRecorded
  <2> QED BY <2>3, UnrecordedKeeps
<1>5. ASSUME NEW p \in Recorder, NEW w \in Wallet, NEW c \in Candidate, RecordCheck(p, w, c)
      PROVE  TargetUnrecorded'
  <2>1. NothingRecorded
    BY <1>5 DEF RecordCheck, NothingRecorded
  <2> QED BY <2>1, UnrecordedKeeps
<1>6. ASSUME NEW p \in Process, Publish(p) \/ Crash(p) PROVE TargetUnrecorded'
  <2>1. NothingRecorded
    BY <1>6 DEF Publish, Crash, Return, NothingRecorded
  <2> QED BY <2>1, UnrecordedKeeps
<1>7. ASSUME NEW t \in inflight, WalletApply(t) \/ WalletRefuse(t) PROVE TargetUnrecorded'
  <2>1. NothingRecorded
    BY <1>7 DEF WalletApply, WalletRefuse, NothingRecorded
  <2> QED BY <2>1, UnrecordedKeeps
<1>8. CASE UNCHANGED vars
  <2>1. NothingRecorded
    BY <1>8 DEF vars, NothingRecorded
  <2> QED BY <2>1, UnrecordedKeeps
<1>9. ASSUME NEW p \in OnceWorker, NEW w \in Wallet, NEW c \in Candidate, OnceStart(p, w, c)
      PROVE  TargetUnrecorded'
  <2>1. NothingRecorded
    BY <1>9 DEF OnceStart, NothingRecorded
  <2> QED BY <2>1, UnrecordedKeeps
<1> QED
  BY <1>1, <1>2, <1>3, <1>4, <1>5, <1>6, <1>7, <1>8, <1>9 DEF Next

\* A tool goes to another place with its batch, or gives it up.
LEMMA ToolGoes ==
  ASSUME ToolTypes, NEW h \in Hand, NEW place \in HandPlaces, HandGoes(h, place), UNCHANGED batches
  PROVE  /\ ToolTypes' /\ \A k \in Hand \ {h} : hand'[k] = hand[k]
         /\ hand'[h].at = place /\ hand'[h].batch = hand[h].batch
         /\ hand'[h].sources = hand[h].sources
  BY DEF ToolTypes, HandGoes

LEMMA ToolEnds ==
  ASSUME ToolTypes, NEW h \in Hand, HandEnds(h), UNCHANGED batches
  PROVE  /\ ToolTypes' /\ \A k \in Hand \ {h} : hand'[k] = hand[k]
         /\ hand'[h].at = "idle" /\ lock' = IF lock = h THEN None ELSE lock
<1>1. Resting \in [at : HandPlaces, batch : Nat, sources : SUBSET Source, share : Nat]
  BY DEF Resting, HandPlaces
<1> QED BY <1>1 DEF ToolTypes, HandEnds, Resting

ToolInv == ToolHoldsFlock /\ BatchesNumbered /\ OthersFailed
BesideInv == ManualTypes /\ LockInv /\ WriteAheadInv /\ ToolInv

\* A tool that has the flock has it alone.
LEMMA OneToolHolds ==
  ASSUME ToolHoldsFlock, NEW h \in Hand, hand[h].at \in UnderFlock,
         NEW k \in Hand, hand[k].at \in UnderFlock
  PROVE  h = k
  BY DEF ToolHoldsFlock

\* A tool that goes on under the flock and writes nothing, or a line of its own.
LEMMA ToolProceeds ==
  ASSUME ToolTypes, ToolInv, NEW h \in Hand, hand[h].at \in UnderFlock,
         \A k \in Hand \ {h} : hand'[k] = hand[k],
         hand'[h].batch = hand[h].batch, hand'[h].sources = hand[h].sources,
         UNCHANGED <<lock, batches>>,
         \A r \in handLog' : r \in handLog \/ (/\ r.tx.batch = hand[h].batch
                                               /\ r.status \in {"sent", "failed"})
  PROVE  ToolInv'
<1>1. lock = h /\ hand[h].batch \in 1 .. batches
  BY DEF ToolInv, ToolHoldsFlock, BatchesNumbered, UnderFlock
<1>2. \A k \in Hand \ {h} : hand[k].at \notin UnderFlock
  BY <1>1 DEF ToolInv, ToolHoldsFlock
<1>3. ToolHoldsFlock'
  BY <1>1, <1>2 DEF ToolHoldsFlock
<1>4. BatchesNumbered'
  BY <1>1 DEF ToolInv, BatchesNumbered
<1>5. OthersFailed'
  BY <1>2 DEF ToolInv, OthersFailed, ToolOf
<1> QED BY <1>3, <1>4, <1>5 DEF ToolInv

\* A tool that ends, or starts, and is not under the flock afterwards.
LEMMA ToolLeaves ==
  ASSUME ToolTypes, ToolInv, HandAssumption, NEW h \in Hand,
         \A k \in Hand \ {h} : hand'[k] = hand[k], hand'[h].at \notin UnderFlock,
         hand'[h].at # "idle" => hand'[h].batch \in 1 .. batches',
         lock' \in {lock, IF lock = h THEN None ELSE lock},
         batches' \in {batches, batches + 1},
         \A r \in handLog' : r \in handLog \/ (/\ hand[h].at \in UnderFlock
                                               /\ r.tx.batch = hand[h].batch
                                               /\ r.status \in {"sent", "failed"})
  PROVE  ToolInv'
<1>1. batches \in Nat
  BY DEF ToolTypes
<1>2. hand[h].at \in UnderFlock => /\ hand[h].batch \in 1 .. batches
                                   /\ \A k \in Hand \ {h} : hand[k].at \notin UnderFlock
  BY DEF ToolInv, ToolHoldsFlock, BatchesNumbered, UnderFlock
<1>3. ToolHoldsFlock'
  BY DEF ToolInv, ToolHoldsFlock
<1>4. BatchesNumbered'
  BY <1>1, <1>2 DEF ToolInv, BatchesNumbered
<1>5. OthersFailed'
  BY <1>2 DEF ToolInv, OthersFailed, ToolOf
<1> QED BY <1>3, <1>4, <1>5 DEF ToolInv

\* Under the flock the check finds, of other batches for the same sources, only
\* failed backfills.
LEMMA FreeMeansFailed ==
  ASSUME ToolInv, NEW h \in Hand, NEW S, Free(h, S), NEW r \in handLog,
         r.tx.tool = ToolOf(h), r.tx.sources \cap S # {}
  PROVE  r.status = "failed" /\ h \notin Recovery
<1>1. CASE h \in Recovery
  <2>1. r.tx.sources \subseteq Protected
    BY <1>1 DEF Protected, ToolOf
  <2> QED BY <1>1, <2>1 DEF Free
<1>2. CASE h \notin Recovery
  <2>1. r.tx.tool = "backfill" /\ S \cap PaidBy("backfill") = {} /\ ~Partial
    BY <1>2 DEF ToolOf, Free, BackfillFree
  <2>2. r.status \in {"sent", "failed"} /\ r.tx.batch \in 1 .. batches
    BY DEF ToolInv, BatchesNumbered
  <2>3. CASE r.status = "sent"
    <3>1. r.tx.share \in SentShares("backfill", r.tx.batch)
      BY <2>1, <2>3 DEF SentShares
    <3>2. r.tx.batch \in Complete("backfill")
      BY <2>1, <2>2, <3>1 DEF Partial
    <3>3. r.tx.sources \subseteq SourcesOf("backfill", r.tx.batch)
      BY <2>1 DEF SourcesOf
    <3>4. r.tx.sources \subseteq PaidBy("backfill")
      BY <3>2, <3>3 DEF PaidBy
    <3> QED BY <2>1, <3>4
  <2> QED BY <1>2, <2>2, <2>3
<1> QED BY <1>1, <1>2

LEMMA ToolStep ==
  ASSUME ConstantsAssumption, HandAssumption, ToolTypes, ToolInv, HandNext
  PROVE  ToolTypes' /\ ToolInv'
<1> USE DEF HandPlaces, UnderFlock
<1>1. ASSUME List PROVE ToolTypes' /\ ToolInv'
  <2>1. UNCHANGED <<hand, handLog, batches, lock>>
    BY <1>1 DEF List, vars
  <2> QED BY <2>1 DEF ToolTypes, ToolInv, ToolHoldsFlock, BatchesNumbered, OthersFailed, ToolOf
<1>2. ASSUME NEW h \in Hand, HandStart(h) PROVE ToolTypes' /\ ToolInv'
  <2>1. PICK S \in SUBSET Source :
          hand' = [hand EXCEPT ![h] = [Resting EXCEPT !.at = "wait", !.batch = batches + 1,
                                                      !.sources = S]]
    BY <1>2 DEF HandStart, RecoveryWants, BackfillWants
  <2>2. UNCHANGED <<handLog, lock>> /\ batches' = batches + 1 /\ batches \in Nat
    BY <1>2 DEF HandStart, vars, ToolTypes
  <2>3. PICK b : b = [Resting EXCEPT !.at = "wait", !.batch = batches + 1, !.sources = S]
    OBVIOUS
  <2>4. /\ b \in [at : HandPlaces, batch : Nat, sources : SUBSET Source, share : Nat]
        /\ b.at = "wait" /\ b.batch = batches + 1
    <3>1. b = [at |-> "wait", batch |-> batches + 1, sources |-> S, share |-> 1]
      BY <2>3 DEF Resting
    <3> QED BY <2>2, <3>1
  <2>5. hand'[h] = b /\ \A k \in Hand \ {h} : hand'[k] = hand[k]
    BY <2>1, <2>3 DEF ToolTypes
  <2>6. ToolTypes'
    BY <2>1, <2>2, <2>3, <2>4 DEF ToolTypes
  <2>7. b.batch \in 1 .. batches'
    BY <2>2, <2>4
  <2>8. ToolInv'
    BY <2>2, <2>4, <2>5, <2>7, ToolLeaves
  <2> QED BY <2>6, <2>8
<1>3. ASSUME NEW h \in Hand, HandLock(h) PROVE ToolTypes' /\ ToolInv'
  <2>1. hand[h].at = "wait" /\ lock = None /\ UNCHANGED <<handLog, batches>>
    BY <1>3 DEF HandLock
  <2>2. CASE ~Free(h, hand[h].sources)
    <3>1. HandEnds(h)
      BY <1>3, <2>2 DEF HandLock
    <3> QED BY <2>1, <3>1, ToolEnds, ToolLeaves
  <2>3. CASE Free(h, hand[h].sources)
    <3>1. lock' = h /\ HandGoes(h, "send")
      BY <1>3, <2>3 DEF HandLock
    <3>2. /\ ToolTypes' /\ \A k \in Hand \ {h} : hand'[k] = hand[k]
          /\ hand'[h].at = "send" /\ hand'[h].batch = hand[h].batch
          /\ hand'[h].sources = hand[h].sources
      BY <2>1, <3>1, ToolGoes
    <3>3. \A k \in Hand : hand[k].at \notin UnderFlock
      BY <2>1 DEF ToolInv, ToolHoldsFlock, HandAssumption
    <3>4. ToolHoldsFlock'
      BY <3>1, <3>2, <3>3 DEF ToolHoldsFlock
    <3>5. BatchesNumbered'
      BY <2>1, <3>2 DEF ToolInv, BatchesNumbered
    <3>6. OthersFailed'
      BY <2>1, <2>3, <3>2, <3>3, FreeMeansFailed DEF OthersFailed, ToolOf
    <3> QED BY <3>2, <3>4, <3>5, <3>6 DEF ToolInv
  <2> QED BY <2>2, <2>3
<1>4. ASSUME NEW h \in Hand, HandBlocked(h) \/ HandCrash(h) PROVE ToolTypes' /\ ToolInv'
  <2>1. HandEnds(h) /\ UNCHANGED <<handLog, batches>>
    BY <1>4 DEF HandBlocked, HandCrash
  <2> QED BY <2>1, ToolEnds, ToolLeaves
<1>5. ASSUME NEW h \in Hand, HandSend(h) PROVE ToolTypes' /\ ToolInv'
  <2>1. PICK place \in {"paid", "refused"} : HandGoes(h, place)
    BY <1>5 DEF HandSend
  <2>2. hand[h].at = "send" /\ UNCHANGED <<handLog, batches, lock>>
    BY <1>5 DEF HandSend
  <2> QED BY <2>1, <2>2, ToolGoes, ToolProceeds
<1>6. ASSUME NEW h \in Hand, HandTimesOut(h) PROVE ToolTypes' /\ ToolInv'
  <2>1. hand[h].at = "send" /\ UNCHANGED <<handLog, batches>>
    BY <1>6 DEF HandTimesOut
  <2>2. CASE HandEnds(h)
    BY <2>1, <2>2, ToolEnds, ToolLeaves
  <2>3. CASE HandGoes(h, "refused") /\ UNCHANGED lock
    BY <2>1, <2>3, ToolGoes, ToolProceeds
  <2> QED BY <1>6, <2>2, <2>3 DEF HandTimesOut
<1>7. ASSUME NEW h \in Hand, HandRecord(h) PROVE ToolTypes' /\ ToolInv'
  <2>1. /\ hand[h].at = "paid" /\ UNCHANGED <<batches, lock>>
        /\ handLog' = handLog \cup {HandLine(h, "sent")}
    BY <1>7 DEF HandRecord
  <2>2. HandLine(h, "sent").tx.batch = hand[h].batch /\ HandLine(h, "sent").status = "sent"
    BY DEF HandLine, HandTx
  <2>3. /\ ToolTypes' /\ \A k \in Hand \ {h} : hand'[k] = hand[k]
        /\ hand'[h].batch = hand[h].batch /\ hand'[h].sources = hand[h].sources
    <3>0. hand[h] \in [at : HandPlaces, batch : Nat, sources : SUBSET Source, share : Nat]
      BY DEF ToolTypes
    <3>1. PICK at \in HandPlaces : at = IF hand[h].share = Shares THEN "publish" ELSE "send"
      OBVIOUS
    <3>2. PICK share \in Nat : share = IF hand[h].share = Shares THEN hand[h].share
                                                               ELSE hand[h].share + 1
      BY <3>0
    <3>3. PICK b : b = [at |-> at, batch |-> hand[h].batch, sources |-> hand[h].sources,
                        share |-> share]
      OBVIOUS
    <3>4. hand' = [hand EXCEPT ![h] = b]
      <4>1. hand' = [hand EXCEPT ![h].at = at, ![h].share = share]
        BY <1>7, <3>1, <3>2 DEF HandRecord
      <4>2. PICK g : g = [hand EXCEPT ![h].at = at]
        OBVIOUS
      <4>3. hand' = [g EXCEPT ![h].share = share]
        BY <4>1, <4>2
      <4>4. g[h] = [at |-> at, batch |-> hand[h].batch, sources |-> hand[h].sources,
                    share |-> hand[h].share]
        BY <3>0, <4>2 DEF ToolTypes
      <4>5. [g[h] EXCEPT !.share = share] = b
        BY <3>3, <4>4
      <4> QED BY <4>2, <4>3, <4>5 DEF ToolTypes
    <3>5. b \in [at : HandPlaces, batch : Nat, sources : SUBSET Source, share : Nat]
      BY <3>0, <3>3
    <3>6. b.batch = hand[h].batch /\ b.sources = hand[h].sources
      BY <3>3
    <3> QED BY <2>1, <3>4, <3>5, <3>6 DEF ToolTypes
  <2>4. ToolInv'
    BY <2>1, <2>2, <2>3, ToolProceeds
  <2> QED BY <2>3, <2>4
<1>8. ASSUME NEW h \in Hand, HandFails(h) PROVE ToolTypes' /\ ToolInv'
  <2>1. /\ hand[h].at = "refused" /\ UNCHANGED batches /\ HandEnds(h)
        /\ handLog' = handLog \cup {HandLine(h, "failed")}
    BY <1>8 DEF HandFails
  <2>2. HandLine(h, "failed").tx.batch = hand[h].batch /\ HandLine(h, "failed").status = "failed"
    BY DEF HandLine, HandTx
  <2> QED BY <2>1, <2>2, ToolEnds, ToolLeaves
<1>9. ASSUME NEW h \in Hand, HandPublish(h) PROVE ToolTypes' /\ ToolInv'
  <2>1. HandEnds(h) /\ UNCHANGED <<handLog, batches>>
    BY <1>9 DEF HandPublish
  <2> QED BY <2>1, ToolEnds, ToolLeaves
<1> QED BY <1>1, <1>2, <1>3, <1>4, <1>5, <1>6, <1>7, <1>8, <1>9 DEF HandNext

\* The tools leave lines, requests and processes of the ledger alone, and take no
\* flock from a sender.
LEMMA ToolsBeside ==
  ASSUME ConstantsAssumption, HandAssumption, HandNext
  PROVE  /\ UNCHANGED <<log, inflight, txs, pc, job>>
         /\ \A p \in Process : lock = p => lock' = p
<1> USE DEF handRest, vars
<1>0. \A h \in Hand : h \notin Process /\ h # None
  BY DEF HandAssumption
<1>1. None \notin Process
  BY DEF ConstantsAssumption
<1>2. CASE List
  BY <1>2 DEF List
<1>3. ASSUME NEW h \in Hand, HandStart(h)
      PROVE  UNCHANGED <<log, inflight, txs, pc, job>> /\ UNCHANGED lock
  BY <1>3 DEF HandStart
<1>4. ASSUME NEW h \in Hand,
             \/ HandLock(h) \/ HandBlocked(h) \/ HandSend(h) \/ HandTimesOut(h) \/ HandRecord(h)
             \/ HandFails(h) \/ HandPublish(h) \/ HandCrash(h)
      PROVE  /\ UNCHANGED <<log, inflight, txs, pc, job>>
             /\ \A p \in Process : lock = p => lock' = p
  BY <1>0, <1>1, <1>4 DEF HandLock, HandBlocked, HandSend, HandTimesOut, HandRecord, HandFails,
     HandPublish, HandCrash, HandEnds
<1> QED BY <1>2, <1>3, <1>4 DEF HandNext

ManualNext == (Next /\ UNCHANGED handVars) \/ HandNext

\* What a step of the ledger hands to the wallet, the ledger does not show as paid.
LEMMA RequestsAreUnpaid ==
  ASSUME TargetUnrecorded, [Next]_vars
  PROVE  \A t \in inflight' \ inflight : \A r \in Success(log) :
           r.id # NoId => ~(r.wallet = t.wallet /\ r.cands \cap t.cands # {})
<1> SUFFICES ASSUME NEW t \in inflight', t \notin inflight
             PROVE  \A r \in Success(log) :
                      r.id # NoId => ~(r.wallet = t.wallet /\ r.cands \cap t.cands # {})
  OBVIOUS
<1>1. \E p \in Sender : Dispatch(p)
  <2>1. ASSUME NEW p \in Sender, Start(p) \/ Reconcile(p) PROVE FALSE
    BY <2>1 DEF Start, AutoStart, AutoFinish, AutoSelect, Reconcile, ReconcileLook,
       ReconcileUnreadable, ReconcileWrite, PreReconciled
  <2>2. ASSUME NEW p \in Sender, Send(p), ~Dispatch(p) PROVE FALSE
    BY <2>2 DEF Send, GuardBlocks, AcquireLock, LockedCheck, CliMissing, AppendIntent,
       RpcSucceeds, RpcFails, RpcTimesOut
  <2>3. ASSUME NEW p \in Recorder,
               RecordAppend(p) \/ \E w \in Wallet, c \in Candidate : RecordCheck(p, w, c)
        PROVE  FALSE
    BY <2>3 DEF RecordAppend, RecordCheck
  <2>4. ASSUME NEW p \in Process, Publish(p) \/ Crash(p) PROVE FALSE
    BY <2>4 DEF Publish, Crash
  <2>5. ASSUME NEW u \in inflight, WalletApply(u) \/ WalletRefuse(u) PROVE FALSE
    BY <2>5 DEF WalletApply, WalletRefuse
  <2>6. ~UNCHANGED vars
    BY DEF vars
  <2>7. ASSUME NEW p \in OnceWorker, NEW w \in Wallet, NEW c \in Candidate, OnceStart(p, w, c)
        PROVE  FALSE
    BY <2>7 DEF OnceStart
  <2> QED BY <2>1, <2>2, <2>3, <2>4, <2>5, <2>6, <2>7 DEF Next
<1>2. PICK p \in Sender : pc[p] = "intended" /\ t = job[p]
  BY <1>1 DEF Dispatch
<1> QED BY <1>2 DEF TargetUnrecorded

\* A tool sends only what no other batch of its kind has sent, and a recovery only
\* what none has touched.
LEMMA ToolSends ==
  ASSUME ToolInv, HandNext
  PROVE  \A t \in handTxs' \ handTxs : \A r \in handLog :
           /\ r.tx.tool = t.tool /\ r.tx.batch # t.batch /\ r.tx.sources \cap t.sources # {}
           => r.status = "failed" /\ t.tool = "backfill"
<1> SUFFICES ASSUME NEW t \in handTxs', t \notin handTxs, NEW r \in handLog,
                    r.tx.tool = t.tool, r.tx.batch # t.batch, r.tx.sources \cap t.sources # {}
             PROVE  r.status = "failed" /\ t.tool = "backfill"
  OBVIOUS
<1>1. PICK h \in Hand : HandSend(h) \/ HandTimesOut(h)
  BY DEF HandNext, List, HandStart, HandLock, HandBlocked, HandRecord, HandFails, HandPublish,
     HandCrash
<1>2. hand[h].at = "send" /\ t = HandTx(h)
  BY <1>1 DEF HandSend, HandTimesOut
<1>3. r.status = "failed" /\ h \notin Recovery
  BY <1>2 DEF ToolInv, OthersFailed, UnderFlock, HandTx
<1> QED BY <1>2, <1>3 DEF HandTx, ToolOf

LEMMA BesideStep ==
  ConstantsAssumption /\ HandAssumption /\ BesideInv /\ [ManualNext]_manualVars => BesideInv'
<1> SUFFICES ASSUME ConstantsAssumption, HandAssumption, BesideInv, [ManualNext]_manualVars
             PROVE  BesideInv'
  OBVIOUS
<1>a. LedgerTypes /\ JobTypes /\ ToolTypes /\ ToolInv
  BY DEF BesideInv, ManualTypes, LedgerTypes
<1>1. CASE HandNext
  <2>1. ToolTypes' /\ ToolInv'
    BY <1>1, <1>a, ToolStep
  <2>2. /\ UNCHANGED <<log, inflight, txs, pc, job>>
        /\ \A p \in Process : lock = p => lock' = p
    BY <1>1, ToolsBeside
  <2>3. LedgerTypes' /\ WriteAheadInv'
    BY <1>a, <2>2 DEF BesideInv, LedgerTypes, JobTypes, WriteAheadInv, WriteAhead, IntendedWritten
  <2>4. LockInv'
    BY <2>2 DEF BesideInv, LockInv, Process
  <2> QED BY <2>1, <2>3, <2>4 DEF BesideInv, ManualTypes
<1>2. ASSUME [Next]_vars, UNCHANGED handVars PROVE BesideInv'
  <2>1. LedgerTypes' /\ LockInv' /\ WriteAheadInv'
    BY <1>2, <1>a, LedgerTypesStep, LockStep, WriteAheadStep DEF BesideInv
  <2>2. UNCHANGED <<hand, handLog, batches>>
    BY <1>2 DEF handVars
  <2>3. ASSUME NEW h \in Hand, hand[h].at \in UnderFlock PROVE lock' = h
    <3>1. lock = h /\ lock # None /\ lock \notin Process
      BY <1>a, <2>3 DEF ToolInv, ToolHoldsFlock, HandAssumption
    <3> QED BY <1>2, <3>1, FlockKept
  <2>4. ToolTypes' /\ BatchesNumbered' /\ OthersFailed'
    BY <1>a, <2>2 DEF ToolTypes, ToolInv, BatchesNumbered, OthersFailed, ToolOf
  <2>5. ToolHoldsFlock'
    BY <2>2, <2>3 DEF ToolHoldsFlock
  <2> QED BY <2>1, <2>4, <2>5 DEF BesideInv, ManualTypes, ToolInv
<1> QED BY <1>1, <1>2 DEF ManualNext, manualVars, vars, handVars

LEMMA BesideInit ==
  ConstantsAssumption /\ HandAssumption /\ Init /\ HandInit => BesideInv
<1> SUFFICES ASSUME ConstantsAssumption, HandAssumption, Init, HandInit PROVE BesideInv
  OBVIOUS
<1>1. LedgerTypes
  BY DEF LedgerTypes, JobTypes, Init, PcValues, Tx, NoTx, NoId, ConstantsAssumption
<1>2. ToolTypes
  <2>1. Resting \in [at : HandPlaces, batch : Nat, sources : SUBSET Source, share : Nat]
    BY DEF Resting, HandPlaces
  <2> QED BY <2>1 DEF ToolTypes, HandInit
<1>3. LockInv /\ WriteAheadInv
  BY DEF Init, LockInv, Holding, WriteAheadInv, WriteAhead, IntendedWritten, Process
<1>4. ToolInv
  BY DEF HandInit, Resting, UnderFlock, ToolInv, ToolHoldsFlock, BatchesNumbered, OthersFailed
<1> QED BY <1>1, <1>2, <1>3, <1>4 DEF BesideInv, ManualTypes

LEMMA ManualSteps == ManualSpec => Init /\ HandInit /\ [][ManualNext]_manualVars
  BY DEF ManualSpec, ManualNext, manualVars

LEMMA BesideInvariant == ManualSpec => []BesideInv
  BY ConstantsAssumption, HandAssumption, ManualSteps, BesideInit, BesideStep, PTL

\* With the operator's tools beside it too, the flock keeps senders apart.
THEOREM FlockExcludesBesideTools == ManualSpec => []OneSenderAtATime
<1>1. BesideInv => OneSenderAtATime
  BY DEF BesideInv, LockInv, OneSenderAtATime
<1> QED BY <1>1, BesideInvariant, PTL

\* With them beside it too, every request and transaction of the ledger is written ahead.
THEOREM IntentsAheadBesideTools == ManualSpec => []WriteAhead
<1>1. BesideInv => WriteAhead
  BY DEF BesideInv, WriteAheadInv
<1> QED BY <1>1, BesideInvariant, PTL

LEMMA UnrecordedBeside ==
  /\ AutoIsAlone /\ ConstantsAssumption /\ HandAssumption
  /\ BesideInv /\ TargetUnrecorded /\ [ManualNext]_manualVars
  => TargetUnrecorded'
<1> SUFFICES ASSUME AutoIsAlone, ConstantsAssumption, HandAssumption, BesideInv,
                    TargetUnrecorded, [ManualNext]_manualVars
             PROVE  TargetUnrecorded'
  OBVIOUS
<1>1. CASE HandNext
  <2>1. UNCHANGED <<log, pc, job>>
    BY <1>1, ToolsBeside
  <2> QED BY <2>1 DEF TargetUnrecorded
<1>2. CASE [Next]_vars
  BY <1>2, UnrecordedStep DEF BesideInv, ManualTypes
<1> QED BY <1>1, <1>2 DEF ManualNext, manualVars, vars

\* The inductive invariant holds of the ledger with the tools beside it.
LEMMA ManualInvariant ==
  ASSUME AutoIsAlone PROVE ManualSpec => []ManualInv
<1>1. Init => TargetUnrecorded
  BY DEF Init, TargetUnrecorded, Process
<1>2. BesideInv /\ TargetUnrecorded => ManualInv
  BY DEF BesideInv, ToolInv, ManualInv
<1> QED BY <1>1, <1>2, AutoIsAlone, ConstantsAssumption, HandAssumption, ManualSteps,
        BesideInvariant, UnrecordedBeside, PTL

\* What the ledger shows as paid through the wallet is not sent again, and no tool
\* of the operator sends for a source that another batch of its kind has recorded as
\* sent, a recovery for none that another recovery has recorded at all.
THEOREM PaidIsNotSentAgain == ASSUME AutoIsAlone PROVE ManualSpec => NothingSentAgain
<1> DEFINE Unpaid ==
      \A t \in inflight' \ inflight : \A r \in Success(log) :
        r.id # NoId => ~(r.wallet = t.wallet /\ r.cands \cap t.cands # {})
    Untouched ==
      \A t \in handTxs' \ handTxs : \A r \in handLog :
        /\ r.tx.tool = t.tool /\ r.tx.batch # t.batch /\ r.tx.sources \cap t.sources # {}
        => r.status = "failed" /\ t.tool = "backfill"
<1>1. ConstantsAssumption /\ HandAssumption /\ ManualInv /\ [ManualNext]_manualVars
      => [Unpaid]_vars /\ [Untouched]_manualVars
  <2> SUFFICES ASSUME ConstantsAssumption, HandAssumption, ManualInv, [ManualNext]_manualVars
               PROVE  [Unpaid]_vars /\ [Untouched]_manualVars
    OBVIOUS
  <2>1. TargetUnrecorded /\ ToolInv
    BY DEF ManualInv, ToolInv
  <2>2. CASE HandNext
    <3>1. Unpaid
      BY <2>2, ToolsBeside
    <3>2. Untouched
      BY <2>1, <2>2, ToolSends
    <3> QED BY <3>1, <3>2
  <2>3. CASE [Next]_vars /\ UNCHANGED handVars
    <3>1. Unpaid
      BY <2>1, <2>3, RequestsAreUnpaid
    <3>2. Untouched
      BY <2>3 DEF handVars
    <3> QED BY <3>1, <3>2
  <2> QED BY <2>2, <2>3 DEF ManualNext, manualVars, vars, handVars
<1>2. NothingSentAgain <=> [][Unpaid]_vars /\ [][Untouched]_manualVars
  BY DEF NothingSentAgain, NothingPaidIsSent, manualVars
<1> HIDE DEF Unpaid, Untouched
<1> QED BY <1>1, <1>2, ManualSteps, ManualInvariant, ConstantsAssumption, HandAssumption, PTL
=============================================================================
