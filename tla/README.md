# Verification of pool-pepepow

TLA+ specifications of the pool in this repository (`apps/`, `ops/`), the TLC
configurations that check them, and theorems about them proved with TLAPS.
File names below are relative to the repository's root; `payout_helper.py` is
`ops/scripts/payout_helper.py`, `stratum_ingress.py` is
`apps/pool-core/stratum_ingress.py`, and so on.

Contents: [the system](#the-system) · [modules](#modules) · [runs](#runs) ·
[fairness](#fairness) · [what is proved](#what-is-proved) ·
[disagreements with the repository's own statements](#disagreements) ·
[not modelled](#not-modelled) · [plan](#plan)

## The system

A mining pool for one coin, run on one machine. Nothing shares memory except
the coroutines of the Stratum process; everything else meets in JSON files, in
`flock`s beside them, in the coin daemon and in its wallet.

| Component | State | Operations | Talks to |
|---|---|---|---|
| Stratum ingress (`stratum_ingress.py`, `stratum_protocol.py`, `config.py`) | sessions, difficulty, wake events, share queue, duplicate cache | subscribe, authorize, submit, notify loop, vardiff, append loop, snapshot loop | miners (TCP), template cache, share log, daemon |
| Template and jobs (`template_jobs.py`, `daemon_rpc.py`) | latest template, job cache of 64 jobs, retired ids, best block hash | refresh, issue_job, get_job, prune, stale check | daemon (RPC in threads) |
| Block submission (`stratum_ingress.py`) | send budget, pending and recorded attempts | prepare, guard, submitblock, outcome | daemon |
| Controlled submission tools (`live-stratum.sh`) | `launch.env`, the unit's process | arm, watch, disarm, drill, restart, start, stop | systemd, Stratum process, its snapshot and logs |
| Share log and counters (`activity_log.py`, `activity_engine.py`) | sequence number, `share-events.jsonl` and its rotated files, lifetime and rolling counters, `activity-snapshot.json` | claim, append, rotate, prune, snapshot, restart | disk |
| Accepted candidates (`track_accepted_candidates.py`, `live-stratum.sh`) | `accepted-candidates.json`, follow-up fields | merge, look up on the chain, lifecycle | daemon, Stratum events |
| Rounds (`track_rounds.py`) | `round-attribution.jsonl` with its lock, `rounds-snapshot.json` | attribute the shares between two accepted candidates, record a division once | share log, accepted candidates |
| Payout candidates and carry (`payout_helper.py`) | `payout-candidates.json`, `payout-carry-snapshot.json` | generate, carry, refresh | rounds, ledger |
| Payment ledger (`payout_helper.py`) | `payment-actions.jsonl`, `payment-actions.lock`, `payments-snapshot.json` | auto payout, single send, aggregated send, reconcile, record by hand | wallet CLI |
| Manual sends (`payout_helper.py`) | lines of the same ledger | recovery batch, operator backfill | wallet CLI, ledger, candidates |
| SOLO pool (`solo_*.py`, `refresh_solo_maturity.py`, `solo-auto-payout-canonical.sh`) | its own `accepted-candidates.json`, candidates and the same kind of ledger | look up, merge, count confirmations, build, pay | as above |
| Wallet monitor, audits, health | reports | read | everything, read-only |
| Public API and website (`apps/api`, `apps/frontend`) | a cache of snapshot files | read | snapshot files |

What is hard in it:

* **Money and retries.** The wallet CLI may be killed after 15 seconds with the
  payment made, the sender may die between any two lines, an operator may send
  or record beside the timer. What makes it correct: no candidate is paid twice
  to a wallet; every transaction is recorded; an attempt of unknown outcome
  blocks its candidates until it is known, and not for ever.
* **Amounts in derived files.** The amount of a send is the result of three
  files, each computed from the others. What makes it correct: every block is
  paid for once, in full, and what is below the minimum stays owed.
* **A log and a snapshot that are not written together.** The share log is
  appended behind a queue, rotated and pruned, while a snapshot holds counters
  with a sequence number. What makes it correct: after a restart every logged
  share is counted exactly once, for ever and in each rolling window.
* **Work that changes under the miner.** A tip may change between any two
  awaits of a session. What makes it correct: a share that is sent again is
  credited once and for the difficulty it was mined at; every session ends up on the current tip; a
  block is submitted once.
* **Attribution.** Rounds are recomputed from the log and the accepted
  candidates while both move, by two trackers at once, and written once. What
  makes it correct: a round that is verified is the whole of its window, no
  share counts in two paid rounds, and a block is verified in the end.
* **One file, two services.** The SOLO services replace a file whole that both
  read. What makes it correct: what is paid is buried, and a buried block is
  paid in the end.
* **Arming.** Shell tools enable real submission through a file and a restart.
  What makes it correct: however a tool ends, submission is disabled again, and
  no more blocks go out than tools have armed.

`PROJECT.json` lists under "hazards" the lines where these go wrong.

## Modules

| Module | Models | Abstract specification, proofs |
|---|---|---|
| `PayoutLedger` (instances: `MCPayoutLedger`) | the payment ledger, its senders, the wallet | implements `PayOnce`; `PayoutLedgerProofs` |
| `ManualSends` (instances: `MCManualSends`) | the operator's batches on the same ledger; composes `PayoutLedger` | `PayoutLedgerProofs` |
| `PayoutCarry` (instances: `MCPayoutCarry`) | from confirmed blocks to amounts and sends | `PayoutCarryProofs` |
| `Rounds` (instances: `MCRounds`) | the division of shares among blocks | `RoundsProofs` |
| `Solo` (instances: `MCSolo`) | a SOLO block from its submission to its payment | `SoloProofs` |
| `ShareLog` | sequence numbers, queue, log, snapshot, restart, and the windows fed from them | `ShareLogProofs` |
| `WindowCounter` | the ring of one bucket per second, which `ShareLog` instantiates | `ShareLogProofs` |
| `StratumWork` | templates, jobs, sessions, shares and their difficulty | `StratumWorkProofs` |
| `BlockLife` (instances: `MCBlockLife`) | a found block: submission, follow-up, lifecycle status | `BlockLifeProofs` |
| `SubmitArming` (instances: `MCSubmitArming`) | the tools that enable submission for one block | `SubmitArmingProofs` |

How they fit together: `StratumWork` says which shares are credited and
`ShareLog` what becomes of a credited share, up to the windows. `SubmitArming`
says when a found block may be sent at all, `BlockLife` what becomes of it and
which blocks are confirmed. `Rounds` divides the shares of the log among them;
its action `Pay` is where `PayoutCarry` takes over, whose action `Confirm` is a
block with a verified round. That module decides what is sent, `PayoutLedger` what
a send may do to the ledger, and `ManualSends` what else the operator may do to it.

### PayoutLedger

Three kinds of process: auto workers (`auto_payout_once`, which sends through
`payout_wallet_send_aggregated_once`), once workers
(`payout_wallet_send_once`) and recorders (`record_payment`). `log` is
`payment-actions.jsonl`. No reader of that file looks at the order of its
lines, except that a later ambiguous line replaces the intent line of its id;
so the log is a set. `lock` is the flock, `inflight` and `txs` are the wallet
daemon's, `snapshot` is `payments-snapshot.json`.

A send is the path `wait` (flock) → `reconcile` → `ready` (duplicate check
repeated under the flock) → `intended` (intent line written and synced) → `rpc`
→ success, failure or ambiguous line. Every arrow is an action, `Crash` may
come between any two, and the daemon decides a request (`WalletApply`,
`WalletRefuse`) at any time, even after its caller has given up if
`TimelyWallet` is FALSE. A reconciliation reads its list of unresolved intents
once, then looks one up (`ReconcileLook`) and writes what it found
(`ReconcileWrite`) in separate steps, as the code does; `auto_payout_once` does
so a first time without the flock (`PreReconciled`).

Two assumptions about the outside are constants, so that runs can drop them:
`TimelyWallet` (the daemon does not execute a request whose caller has given up
on it) and `HonestCli` (a non-zero exit or a malformed txid means that nothing was
sent).

`PayOnce` is the promise: it counts how often each wallet was paid for each
candidate, no step pays one that was paid before, and what is recorded as paid is a
payment that was made, or is not paid and amounts to as much as one that was. The
second case is the search by amount (`find_wallet_tx_for_intent`), which can take the
payment of another block for one that was never sent. `PaysOnce` is that specification
under a mapping that counts the transactions in `txs` and takes the candidates of the
success lines.

### PayoutCarry

The hourly workflow of `live-stratum.sh` (`auto_payout_once_service`): build
the carry file, generate candidates, select and add up per wallet, send, build
again. An operator's `payout-refresh` runs the first two beside it. Generation
reads carry file and ledger under `.payout-candidates.lock` (`ReadInputs`) and
writes later (`WriteRows`); a workflow that does not get the lock goes on with
the old file (`SkipGenerate`). `CarryStep` is the loop over rows in file order
with the wallet's carry state, and a function from the number of rows, so that
the module can be proved about. `GroupOf` adds up the rows of a wallet. A send is
one step: it may succeed, lose its answer, or be the last thing the run does
(`PayAndDie`), and the ledger covers it in each case, which is what
`PayoutLedger` is about. Confirmation of a block comes from outside, in order
of submit time when `InOrder`.

### ShareLog

One process. `Submit` claims the sequence number and queues, or waits when the
queue is full (`Admit` in any order); `AppendBatch` writes, syncs, rotates and
counts; `AppendFails` is OSError at each place it can be raised, with what has
reached the file by then; `WriteSnapshot` saves counters, sequence number and
the floor from which windows are replayed. `Restart` is a death at any moment,
perhaps in the middle of a batch, followed by `_bootstrap_state`: choose the
files by the numbers in their names, replay from the floor, count for life what
is newer than the snapshot. A counter is a function from shares to how often
each is counted, so that losing one and repeating another cannot cancel out.
A rotated file is named by the number of its last record, not by its largest
(`stratum_ingress.py:3156`): after clients have overtaken each other the name may not
reach a record inside, and a restart may skip the file. `Reached` are the records
for which that cannot happen.

Every batch is also given to the ring of buckets, `WindowCounter`'s
`Increment` and `Total` with its seconds: `recorded` is all the ring was given,
in order, and what its total is compared with. After a restart the ring is filled
from the log that was replayed.

### Rounds

`Submit`, `Write` and `Restart` are what `ShareLog` leaves of the log: lines in
any order, numbers lost or used again, a torn line. `Appear`, `Turn`, `Resubmit`
and `Confirm` are what `BlockLife` leaves of the accepted candidates: late, turned
into orphans and back, with a later time. A tracker reads the ledger
(`ReadLedger`), then candidates, snapshot and log, and computes all it will write
(`ReadInputs`, one step: they are read one right after the other). It appends its
records one by one under the ledger's lock (`AppendRecord`), gives up on a
conflict, and empties the snapshot before it writes it (`Truncate`, `Save`).

A window's coverage is the pair of numbers that enclose it, and it is valid if no
number between them is missing (`CoveragesOf`). A division is a set of shares:
scores and percentages follow from it, so that two divisions match when the sets
are equal. A block goes by the share that found it.

### Solo

The minute service looks blocks up (`LookUp`), rebuilds the accepted candidates
from rows, records and snapshot (`Merge`, `WriteMerged`) and counts confirmations
(`Mature`, `WriteMatured`); the hourly one counts too, builds the candidates
(`Build`) and pays (`Send`). Reading and replacing a file are separate steps, so
that each service can undo what the other has just written. A lookup or a send
may fail, the producer's snapshot may be old or lost, and a block may be
overtaken, come back, or leave the chain.

### ManualSends

Extends `PayoutLedger` with the two commands that pay a fixed list of wallets
for blocks without share data, `manual_recovery_batch` and
`manual_operator_backfill_fixed_distribution`, and with the rewriting of the
candidates file that excludes what they have paid (`List`). Both repeat their
checks under the ledger's flock (`HandLock`); neither writes an intent, so that the
line comes after the send (`HandSend`, `HandRecord`), and a death or a timeout
between them (`HandCrash`, `HandTimesOut`) leaves a payment without a line. Every
step of the ledger's own senders may come between.

Their lines and transactions are kept apart from the ledger's own, which never
name these blocks; that a reconciliation takes one of their transactions for its
own by the amount is left out. A request is not executed after its caller has
given up, as under `TimelyWallet`.

### SubmitArming

The Stratum process reads `launch.env` when it starts; a tool changes the file
(`WriteEnv`) and restarts the unit (`Systemctl`), each a step that may fail or be
interrupted (`Interrupt`, where a trap is set) or killed (`Kill`). The watch of a
wrapper and of the drill ends by an event, a state of the snapshot or its timeout
(`WatchEnds`); then it disarms, and the wrapper's cleanup disarms again. The
process may die and is started again by systemd (`Revive`). The installed unit
is assumed to read `launch.env`, the file the tools write; the unit file in the
repository names `pool-core.env`.

### StratumWork

The Stratum process is one event loop, so what a coroutine does between two
awaits is one action. A connection has two coroutines. The handler
(`_handle_client`, `_dispatch_line`) answers `Authorize` and `Submit`; the notify
loop (`_notify_loop`) is `WakeUp` and `Timeout`. Each decides what to send at
once (`Issue` changes job cache and session) and sends it message by message:
`sending` is the queue of the fair `send_lock`, a coroutine with more to send asks
for it anew, and `Deliver` lets one message out. So the messages of both may
interleave, and `miner` is what the miner makes of them. `Fetch` and `Fetched`
are the refresh, which runs in a thread; `Fetched` is where the rollover callback
sets the wake events.

A job carries the difficulty it was assigned. Whether a share is accepted is
decided by its job (`Known`, `Stale`, `LowDifficulty`) and by the fingerprints
(`Duplicate`); the difficulty the miner knew when it mined says whether the
hash is good enough. When vardiff retargets is left open, by how much is not.

A proof of work is a session, a template and a nonce; jobs of one template share it,
since nothing in a header names the job. What the code compares is less: its
fingerprint (`_submit_fingerprint`) is a digest of the login the submit names and of
job id and nonce as they are spelled. `Form` stands for login and spelling, and a
fingerprint is a job, a nonce and a form. So `CreditedOnce` is about a submit that is
repeated as it was; that a proof of work is credited once in whatever form and for
whichever of its jobs is `WorkCreditedOnce`, which does not hold
(`StratumWork_two_forms`). A submit that waits for a full share queue is in `ShareLog`;
here it is one step.

### BlockLife

Three processes. The Stratum process compares the block's parent with the
daemon's tip twice (`Guard`, `Recheck`) and calls `submitblock` (`Answered`,
`Unanswered`), each a blocking call, between which the daemon goes on; then it
writes a line into each of two logs (`RecordEvent`, `RecordOutcome`). The
follow-up of `live-stratum.sh` looks up the last `Count` events one by one and
appends what it finds. `Track` is one run of `track_accepted_candidates.py`,
which takes the last row of each block and counts confirmations from the height
in it to that of the producer's snapshot (`snap`, which may be old). A block of
which something is missing when it is assembled (`partial`) is recorded and not
sent.

The chain is a sequence of the pool's candidates and of others' blocks, a
reorganisation replaces up to `MaxReorg` blocks by one more, and a block is
identified by its whole chain, so that a parent is the same as the tip only if
nothing below differs.

## Runs

| Run | Instance | Checks | Shows |
|---|---|---|---|
| scheduled | one auto worker, two candidates of one wallet and of equal reward, two attempts, two crashes | TypeOK AtMostOnce SettledByMatchingTx OpenIntentBlocks PaysOnce EventuallyRecorded IntentsResolve | the scheduled payout pays nothing twice, an open intent blocks, transactions are recorded and intents resolved by a later run; the search by amount never settles an intent that has its own transaction by another |
| contended | two once workers, a recorder, two recovery batches and a backfill on one ledger, one crash or timeout | WriteAhead OneSenderAtATime NothingSentAgain | what holds with any number of senders: the flock excludes, intents come first, and what the ledger shows as paid is not paid again by whoever waited for the flock |
| retry_single | a once worker, three attempts, one crash | OpenIntentBlocks | a counterexample, see below |
| carry_in_order | one wallet, seven blocks, one of them without a coinbase to the pool, two crashes | PaidInFull | in the regular case every payment is worth what it marks as paid |
| carry_any_order | two wallets, two blocks in any order, a refresh, a coinbase that cannot be read, a send put off, a lost answer, a crash | TypeOK SourcesOnce SourcesHonoured EventuallyPaid | what survives all of these |
| carry_shared_block | two wallets, two blocks, the first of both | Conserved | a counterexample |
| rounds | two trackers, three blocks, a fault: a death, an orphan or a block sent again | TypeOK VerifiedIsComplete PaidOnce RecordsStand EventuallyVerified | verified rounds are whole, divided once, and come in the end |
| solo | one block, two services, a reorganisation, a failed call, a lost snapshot | TypeOK PaidIsBuried EventuallyPaid | what is paid is buried, and what is buried is paid |
| share_log | four shares in two seconds, a queue of two, one rotated file kept, two restarts, a failed append | TypeOK MissedWereInFlight WindowsComplete NeverTwice TotalIsWindow EventuallyCounted | what a restart keeps, and that the ring is exact |
| stratum_work | one connection, two templates on two tips, two forms of a submit, three credited submits, one retarget, jobs and fingerprints that live two seconds | TypeOK CreditedOnce MinerInStep EventuallyOnTip | difficulty and tip of what a miner works on, one credit for a submit that is repeated |
| block_followed | one block, whole or not, submitted up to twice, reorganisations of one block, a failed lookup, a death | TypeOK NotSentAgain ConfirmedIsBuried Settles | a taken block is not sent again and ends with the right status |
| submit_arming | a shell with two subcommands of any kind, two blocks, a death of the process, a failed systemctl, a kill | TypeOK SendsBounded EventuallyDisarmed | however a tool ends the pool is disarmed again, and no more is sent than was armed |

Each bound is named as one in its module. Why they are enough: two attempts
are what a duplicate payment takes, and two crashes let the sender and the
reconciliation after it die; a third attempt is only needed for the order of
failure and intent in `retry_single`. In `contended` two batches compete for one
block, before, under and after the flock, with a send-once on either side; its two
recoveries, and its two operators, are interchangeable, and it checks no liveness,
so that symmetry is sound there. It and `submit_arming` are about commands that end
for good, so deadlock is not checked.

Three blocks are what a carried block needs to be added to two rows, and six let
one minimum be reached twice. Three blocks are also what a round needs on
both of its sides: the first is settled at the start, so that the window of the
second has a beginning, and the third turns the second into a boundary. A share
log of four shares with files of two has a rotated file, a pruned one and an
active one at once, and two restarts let the second start from what the first
saved; its queue of two fills, and clients wait and overtake. Its ring of
`Window` = 2 slots wraps.

In `stratum_work` the difficulty is fixed by the password or changes once,
which are the two kinds of session; connections meet only in the job cache and the
fingerprints, and jobs never match between them, so that one connection is
enough except for eviction. A credit twice takes two credited submits, and the
third has the other form or another job. In `block_followed` `Depth` is 3, one more
than `MaxReorg + Gap`: the least with which `ConfirmedIsBuried` can hold. In `solo`
`Depth` and `MinConf` differ by one, as 100 and 101 do. Two subcommands of
`submit_arming` let the second find what the first has left, and the second block
comes after the budget of the first is used or renewed. Apart from `contended`,
lines, candidates and wallets are model values without symmetry, since liveness is
checked in most of these runs.

### Further instances

Configurations kept for reading a counterexample with `tlc`; each violates the
property it names.

| Configuration | Property | What happens |
|---|---|---|
| `PayoutLedger_two_auto` | AtMostOnce | `auto_payout_once` reconciles without the flock (`payout_helper.py:4829`) and closes the intent of a sender that has not asked the wallet yet; when that sender's answer is lost its candidates are paid again |
| `PayoutLedger_late_wallet` | ClearedMeansUnsent | the daemon executes a request after its caller was killed and the intent closed (`payout_helper.py:1018`) |
| `PayoutLedger_equal_rewards` | SettledByOwnTx | the search by amount settles the intents of two candidates of equal reward by one transaction (`payout_helper.py:941`), and one of them is never paid |
| `PayoutLedger_record_by_hand` | NotRecordedTwice | `record_payment` compares a line's own candidate id only, and checks without a lock (`payout_helper.py:2519`) |
| `ManualSends_timeout` | HandPaysOnce | a batch times out or dies after its send and before its line (`payout_helper.py:4386`); started again it pays again |
| `ManualSends_both_tools` | OneToolPays | a recovery waits while a backfill of the same block pays; each tool looks at its own lines only (`payout_helper.py:4346`) |
| `PayoutCarry_put_off` | Conserved | a send is put off to the next run; the carry state goes to the first row in file order (`payout_helper.py:2017`), and a carried block becomes part of two pending rows. With `N = 4`, `MinPayout = 3`, `MaxUnread = 1` and `MaxRefusals = 0`: a block whose coinbase cannot be read in one run loses its row to a later one and comes back with rows of its own (`payout_helper.py:1344`) |
| `Rounds_late_block` | PaidOnce | a block appears after a later one was confirmed and paid: its window is inside a paid one |
| `Rounds_moved_window` | RecordsFit | a block is recorded with a window that is not its own any more, and stays unverified |
| `Rounds_same_second` | VerifiedToTheSecond | the window is covered by the first line of its last second (`track_rounds.py:215`); a share of that second that is written later is in no round |
| `Rounds_torn_record` | PaidAsRecorded | the row of a division that was paid is lost behind a torn one and written again with another |
| `Solo_orphan` | OrphansUnpaid | a block leaves the chain after the one lookup that found it, and its height counts up to confirmed |
| `Solo_lost_answer` | DeepIsPaid | the answer of `submitblock` was lost, and the block is never looked up (`solo_lifecycle_refresh.py:87`) |
| `ShareLog_restart` | LifetimeKept | a share that is queued when a snapshot is saved has a number the snapshot covers, so a restart leaves it out of the lifetime counters (`stratum_ingress.py:468`) |
| `StratumWork_two_forms` | WorkCreditedOnce | one proof of work under another login or in another spelling, or for a job issued for the same template after a retarget, has another fingerprint and is credited again (`stratum_ingress.py:3858`) |
| `StratumWork_outage` | MinerServed | the template stays the same for a job's lifetime: the job expires and is not issued again (`stratum_ingress.py:2979`) |
| `BlockLife_window` | ConfirmedIsBuried | a block leaves the chain after its event has left the follow-up's window, and its old height counts up to confirmed |
| `SubmitArming_budget` | OnePerArming | the armed process dies and systemd starts it again with a new budget (`stratum_ingress.py:329`) |
| `SubmitArming_beside` | LeftDisarmed | a `systemd-restart` beside a drill writes back the flag it has read (`live-stratum.sh:3632`) |
| `SubmitArming_stale_report` | ExitTells | the disarm of a drill fails, and its exit code is the flag of a snapshot older than the arming (`live-stratum.sh:4009`) |

## Fairness

`PayoutLedger`: weak fairness of every step of an auto worker and of the
daemon's decision. `pepepow-pool-auto-payout.timer` starts the run every hour, also
after a crash, and a started process runs. A once worker and a recorder are
operators' commands and start when they like.

`PayoutCarry`: the same for the workflow, strong fairness for taking
`.payout-candidates.lock`, which a refresh holds for one generation only, and
strong fairness of a wallet's payment: a send is not refused for ever. Refreshes
are an operator's and therefore bounded (`MaxRefreshes`) and not fair.

`ManualSends`: none; operators' commands.

`Rounds`: each tracker takes steps again and again. Its timer starts it every five
minutes, or the workflow every hour, and a started one goes on or dies, so there is
always a step to take, and weak fairness is the same as that. Shares, blocks and
faults are not fair.

`Solo`: the producer's loop, the two timers, and the steps of a service that has
begun. Blocks, reorganisations, ageing and the loss of a snapshot are not fair.

`ShareLog`: the append loop runs whenever there is something queued, and some
waiting `put` is woken when there is room, which is what asyncio queues do.
Snapshots, restarts and time are not fair.

`StratumWork`: a miner reads what it is sent, and a notify loop runs when its
event is set or its interval has passed, as the event loop sees to. Templates,
submissions and disconnections are not fair: `EventuallyOnTip` is about a
template that has arrived.

`BlockLife`: follow-up, producer and tracker run again and again
(`pepepow-pool-auto-payout.timer`, the loop of `producer.py`,
`pepepow-pool-rounds-refresh.timer`). Blocks, submissions and deaths are not
fair. `Gap` is the pace the timers assume: fewer than `Depth - MaxReorg` blocks
between the starts of two follow-ups that complete.

`SubmitArming`: a tool that has started runs on, its watch at most until its timeout,
and systemd restarts the process (`Restart=always`). Interrupts, kills, deaths and
new subcommands are not fair.

## What is proved

For every number of candidates, blocks, shares, wallets, processes and attempts,
and every amount, time and depth; what else a theorem assumes is in the last column.
TLC checks the same property, and where one is named the inductive invariant,
on the instance of a run.

| Theorem | Says | Assumes |
|---|---|---|
| `PayoutLedgerProofs!TypeCorrect` | the ledger is well typed | |
| `PayoutLedgerProofs!FlockExcludes` | two senders are never both between the locked check and the success line | |
| `PayoutLedgerProofs!IntentsAreWrittenAhead` | whatever the wallet was asked to pay has its intent line, with any senders, crashes and answers | |
| `PayoutLedgerProofs!ScheduledInvariant` | `SafeInv` | scheduled |
| `PayoutLedgerProofs!NeverPaidTwice` | no candidate is paid twice to a wallet | scheduled |
| `PayoutLedgerProofs!OpenIntentsBlock` | no request leaves for a candidate of an intent without an outcome | scheduled |
| `PayoutLedgerProofs!FailedIsUnsent` | an intent closed as failed is not and never becomes a transaction | scheduled |
| `PayoutLedgerProofs!SettledByMatching` | an intent is settled by the transaction sent for it, or by another of its amount to its address, and then nothing it names is ever paid | scheduled |
| `PayoutLedgerProofs!ImplementsPayOnce` | the ledger implements `PayOnce`, whatever sends amount to | scheduled, no recorder |
| `PayoutLedgerProofs!FlockExcludesBesideTools` | the same as `FlockExcludes`, with the operator's batches beside the ledger | |
| `PayoutLedgerProofs!IntentsAheadBesideTools` | the same as `IntentsAreWrittenAhead`, with them | |
| `PayoutLedgerProofs!PaidIsNotSentAgain` | what the ledger shows as paid is not sent again, by any sender or batch that has waited for the flock | `AutoIsAlone`: no other sender beside an auto run |
| `PayoutCarryProofs!TypeCorrect` | candidates, carry file, groups and ledger lines keep their shape | |
| `PayoutCarryProofs!PaidFromOnce` | a block is the source of at most one payment to a wallet, whatever the order of blocks, refreshes, lost answers and crashes | |
| `PayoutCarryProofs!PaysForItsSources` | a payment marks only confirmed blocks of the pool as paid, and is worth at least the blocks whose rows it adds up | |
| `PayoutCarryProofs!PaysInFull` | a payment is worth exactly the blocks it marks as paid | `Regular` |
| `PayoutCarryProofs!PaysNoMoreThanEarned` | all payments together are at most the rewards of the confirmed blocks | `Regular`, finitely many wallets |
| `RoundsProofs!TypeCorrect` | log, ledger, snapshot and the trackers' copies keep their shape; a round is verified by the coverage it names | |
| `RoundsProofs!OneRecordEach` | a block has one record in the ledger, with any trackers and deaths | |
| `RoundsProofs!VerifiedIsTheWindow` | a verified round has every share logged for the time of its window before its block's second, and none of another time | |
| `RoundsProofs!SharesPaidOnce` | no share is paid for in two rounds | `Timely`: blocks are confirmed in order, with the snapshot up to date |
| `ShareLogProofs!TypeCorrect` | queue, files, numbers and counters keep their shape | |
| `ShareLogProofs!CountedOnce` | no share counts twice, in the lifetime counters or in the windows | |
| `ShareLogProofs!MissedInFlight` | of the records their file's name reaches, restarts leave out of the lifetime counters only shares in flight at a used snapshot | |
| `ShareLogProofs!WindowsAreComplete` | every logged share of the longest window is in the windows, once | as long as no share is overtaken |
| `ShareLogProofs!TotalIsOfWindow` | the ring of buckets adds up to the records of its seconds | |
| `StratumWorkProofs!TypeCorrect` | both caches keep to their sizes, a lock has two who wait at most, and the job numbers stay below the bound `TypeOK` names | |
| `StratumWorkProofs!SubmitsCreditedOnce` | no submit that is repeated as it was, under its login and in its spelling, is credited twice | `[]Roomy`: a full duplicate cache drops no fingerprint of a job still known |
| `StratumWorkProofs!MinersInStep` | a miner that has read its messages mines at the difficulty its shares are compared with | |
| `BlockLifeProofs!TypeCorrect` | chain, events, rows and candidates keep their shape, and the send budget holds | |
| `BlockLifeProofs!SentOnce` | a block the daemon has taken is not sent again | |
| `BlockLifeProofs!ConfirmedStays` | what the payouts read as confirmed is on the chain and buried | `Paced`: `Gap + MaxReorg < Depth`; `[]NotOvertaken` |
| `BlockLifeProofs!ConfirmedStaysInOne` | the same | `Paced`; a follow-up looks up all events |
| `BlockLifeProofs!EvidenceLostByDeath` | every block the daemon took has its event, or is about to | no death of the process |
| `SoloProofs!TypeCorrect` | chain, rows, files and the services' copies keep their shape | |
| `SoloProofs!PaidStaysBuried` | a paid SOLO block is on the chain and `Depth` deep, unless it left the chain after its lookup | |
| `SubmitArmingProofs!TypeCorrect` | flags, process and tools are what they can be, and no process sends more than its budget | |
| `SubmitArmingProofs!OneBlockPerArming` | the daemon answers no more blocks than tools have armed and the process has died, unless a tool is killed | one shell; `Settled` |

### Payment ledger

The first three theorems assume nothing about the wallet. *Scheduled* is one auto
worker, no once worker, any number of recorders, a timely wallet and an honest CLI;
without any one of these the theorems are false, as the counterexamples show.
A recorder writes success lines for what he says he has paid, which is no step of
`PayOnce`.

`AtMostOnce` is not inductive: that a new transaction is no duplicate follows
only from what the ledger said when the intent was written. `SafeInv` carries
that through the send. `WriteAhead` and `LinesAgree`: every transaction has
lines with its own wallet and candidates. `ClearedMeansUnsent`: an intent
closed as failed is not a transaction, because `LookupsHold` (what a
reconciliation has looked up is still true when it writes, since with one sender
nothing is in flight then). `OthersClosed` and `TargetUnpaid`: from the locked
check on, every earlier intent for the same candidates has an outcome, none of
which is a payment. `InflightIsCurrent`, `CurrentIsOpen`, `UnnumberedYet`,
`DecidedOnce`: the only request at the daemon is the running sender's, whose
number nobody else uses.

No theorem assumes anything of the amounts, so the search may find any payment of the
same sum; that an intent is settled by its own transaction (`SettledByOwnTx`) is false
for two blocks of equal reward (`PayoutLedger_equal_rewards`). `SettledByMatchingTx`
is what remains, and needs `OwnInv`: while an intent has no outcome, no transaction but
its own pays its wallet any of its candidates (`OpenIsOwn`), so what the search finds
besides it finds only when the intent has none; and once it is settled no later send
may name its candidates, since from the locked check on nothing the sender is to pay is
recorded as paid (`RequestUnrecorded`). Where amounts differ this is `SettledByOwnTx`
again. The refinement goes step by step: `WalletApply` is `Pay`,
a success line, written by the send or by a reconciliation, is `Record`, and every
other step is a stutter (`PaysOnceStep`). That the number of payments of a candidate,
a cardinality, is one more after `WalletApply` follows from `AtMostOnce` before and
after (`PaidTimesOnce`).

### Manual sends

For any number of once workers, recorders and batches, and whatever the wallet and the
CLI do. `ManualInv` says what a check under the flock has found and why it stays true
until the request leaves. For a sender that is `TargetUnrecorded`: a numbered success
line is written under the flock only, by its own holder. The one exception is the
reconciliation an auto run begins with (`prereconcile`), which takes no flock; hence
`AutoIsAlone`. With another sender beside an auto run, and a wallet that executes a
request late, the theorem is false: the line of an older attempt is then written between
the other's check and its request. For a batch it is `OthersFailed`, which follows from the check itself
(`FreeMeansFailed`): a line of another batch is of a complete batch, and then its blocks
are paid, or of a partial one, which stops every backfill, or a failure.
Sender and batch exclude each other because neither frees a flock that
is not its own (`FlockKept`, `ToolsBeside`).

### Candidates and carry

`PaidFromOnce` rests on two facts that hold together (`OnceInv`): every payment
is in the ledger with its sources, and a payment is admitted only if the ledger
covers none of its sources.

`PaysForItsSources` needs the amounts, through every file they pass (`CarryInv`):
a row that can be paid out is worth at least its own block, in the candidates file
and in the buffer of a generation that was begun earlier, and a send adds up rows of
the file. That the scan over the blocks gives such rows is shown by induction over the
number of blocks scanned, from the recursion equation of the carry state; that a sum
over rows is at least that of their blocks, by induction over finite sets. Both inductions are instances of
well-foundedness, applied to the set of counterexamples, for the library's induction
theorems cannot be instantiated. Nothing is assumed of order, refreshes or refusals:
where `Conserved` fails a payment is worth more than the blocks of its rows, never
less.

`PaysInFull` and `PaysNoMoreThanEarned` are about the regular case. `Regular` says
that blocks are confirmed in the order of their submit times and have one miner each,
that no refresh runs beside the auto run, that every coinbase can be read and every
selected send is made and answered, and that the process does not die unless there is
one wallet. Rewards, the minimum, the number of blocks, coinbases that do not pay
the pool and candidates without a height are arbitrary; with one wallet the process
may die at any point. One miner per block is a strong condition, and it is needed: the run
`carry_shared_block` refutes the statement for two miners without any fault. What a send that is
put off or a coinbase that cannot be read does shows the instance `PayoutCarry_put_off`.

The invariant (`FullInv`) relates file, ledger and run. Of each wallet, the rows of
the file are either pending, and then disjoint, worth exactly what they carry, and at
least the minimum; or carried, and then taken in by a pending row or *kept*; and what is
kept is worth less than the minimum (`RowsOk`). The file shows as settled what the
ledger settles, but for the moments between a payment and its clean-up; there all that
was *due* to the wallet is paid, since a send selects all of it or nothing (`FileOk`,
`RunOk`). So a scan finds as open exactly the blocks it may carry, and gives a file with
the same property: by induction over the blocks in their order, which says of each prefix
that its carry is what no pending row has taken in yet (`ScanOk`). The payments are then
the rewards of disjoint sets of blocks, and their sum is at most the sum over
all (`MoneyInv`, by induction over finite sets).

### Share log

Nothing is assumed but that the sizes are positive. What a replay reads is a fold over
files in the order of their names; the module proves of each recursive function what
is needed, by induction over numbers, the instance of well-foundedness that the prover
can use: what `FlattenSeq` contains (`FlattenIs`) and which order it keeps
(`FlattenKeeps`), that finite files with distinct names have an order
(`DiscoveredIs`), and what a loop leads to whose every step keeps something
(`Iteration`). The invariant (`IInv`) then has these parts.

`Numbers` and `Passed`: no number is beyond what is claimed, numbers grow with time, the
floor of a snapshot is at most one above its number, and what was overtaken leaves the
windows before what has overtaken it, so that the floor only grows (`FloorGrows`).
`Unique`: no two places among files, queue and waiting clients hold one share, and none
holds it twice; so a replay gives the windows no share twice. `Once`: a share counts in
the lifetime counters at most once and not while it is in flight, and no record that a
replay would take for newer is in the snapshot's counters; so the two add up to one.
`Missed`: a record that is reached or in flight, is numbered at most as the snapshot and
not in its counters, was in flight when it was taken.

`InOrder` holds until a share is overtaken: log and queue are in the order of their
numbers, every file's name reaches its records, what the windows were given rises, and
every logged record of the window is at or above the floor of the snapshot
(`Covered`). That last part is what `WindowsComplete` needs and does not say: a restart
may come at any time and sees only what the snapshot says.

`TotalIsOfWindow` has an invariant of its own, of the ring alone (`Holds`): a slot is
empty or has the count of one second of the window, and a second of the window that
has a record has its slot. The second half is what keeps `_prepare_bucket` from taking
a count away twice, and `increment` from counting on in a stale slot. Two seconds with
one slot are a window apart (`SameSlot`), so the slot that the next second takes over
has exactly what leaves the window (`PrepareNext`); that is lifted over the loops of
`_advance` and of a batch, for a window and batches of any length.

### Rounds

`VerifiedIsTheWindow` assumes nothing about the writing order, the number of
trackers, lost numbers, torn lines or the moves of the candidates. It rests on the
numbers: among all lines, logged or still queued, they are in the order of the
shares and so of the times, and a death never makes one be used again that a logged
line has (`OrderInv`). A window is covered when every number from a line before it
to a line after it is in the log. What is written afterwards has another number, is
therefore no share between those two, and cannot belong to the window. `WholeInv`
says so of every division, in the ledger, in the snapshot and in a tracker's
hands, whether it was just computed, proved by the coverage of a record or by that
of an earlier snapshot.

`SharesPaidOnce` adds `OnceInv`. Under `Timely` a block is confirmed when the
blocks before it are settled and the snapshot shows all of them as they are, and
none of these moves from then on, nor does a block get a time before a confirmed one:
so the window of a confirmed block is frozen (`ConfirmedIsFrozen`). A verified round
is that of the window its block has in the candidates it was computed from (`Agrees`),
which at the confirmation are those of the day; so what is paid is of the frozen
window (`PaidInv`). The window of a confirmed block begins at or after the time of
every confirmed block before it (`WindowBeginsAfter`), so two of them have no time in
common. Without `Timely` it is false (`Rounds_late_block`).

### Work

`SubmitsCreditedOnce`: a fingerprint is never older than the job it is of
(`CreditInv`) and is remembered as long as a job lives, so it is there as long as
the submit can still be accepted, unless a full cache has dropped it: that is `Roomy`.
The cache has 64 places for each job in the job cache, however many shares a job
brings. `MinersInStep` is an invariant of
the queue of the `send_lock`: `InStep` lists what handler and notify loop can have
queued for one connection at once, in the order in which the lock is granted, and
every such queue leaves the miner at the session's difficulty.

`TypeCorrect` bounds the number of jobs by `MaxJobs`. Beyond synthetic jobs and
retargets, a connection gets a job only when it authorizes or when the latest template
is not the one its last job was of, and templates come in the order of their contents
(`TemplateInv`): so it gets at most one per content. `NumbersSpent` counts the pairs of a
connection and a content it has had a job of, or, once it is gone, will never have.
The prover needs this count because fingerprints and messages are typed by job numbers.

### Blocks

`SentOnce`: a block is sent only if its parent is the tip, and the chain has
outgrown the parent of a taken block and never gets shorter. `ConfirmedStays` is about
how old a row of the outcome log can be. A row that has a block on the chain stays
after a reorganisation has dropped the block, until a follow-up looks again. The block
was dropped near the tip, so a follow-up that began `MaxReorg` blocks above it has
been there or has its event still to look up (`Timely`); until it has ended the chain
is too low for the row to count as confirmed, if fewer than `Depth - MaxReorg` blocks
come between two follow-ups. `NotOvertaken` excludes that an event leaves the
follow-up's window before its block is buried, which happens
(`BlockLife_window`).

### SOLO

A record counts confirmations by the lengths of chains that were once the active
one, and the active chain never gets shorter; so no record ever counts more than the
block would have if it were still there (`RecordOk`), for any depth of reorganisation,
and however the services overwrite each other's file. That it is still there is
known of a block that a lookup has found and that has not left the chain since
(`RowOk`); such a row stays, because a block that was found is not looked up again.

### Arming

`OneBlockPerArming` is a budget (`BudgetInv`): what was sent, what the running
process may still send, and the restart an arming still has coming are together no
more than armings and deaths. A restart gives an enabled process a new budget; it
needs an armed `launch.env`, and the only restart of a tool at such a time is the one
its own arming has paid for (`EnvInv`). `Settled` says that the shell either never
uses a bare `arm`, which leaves the pool armed when it ends, or never `start` and
`systemd-restart`, which would then restart an armed process without arming it.
Without it, or with two shells, the theorem is false.

### What is not proved

Every safety invariant that a passing run checks is stated by a theorem, some under
the assumption in the last column. Liveness is out of the prover's reach and stays with
TLC, and so is everything that is true of a bounded instance only by its bounds. That
a recursive definition computes what it should is shown only as far as a proof
needs an equation of it.

## Disagreements

Where a run contradicts what the repository says of itself:

* **retry_single.** `get_unresolved_payment_intents` (`payout_helper.py:875`)
  takes every success or failure line for the same candidate and wallet as the
  outcome of an intent, an older one too. After a failed attempt and a crash in
  the next, the open intent does not block and the candidate is sent again.
  `tests/test_payout_accounting.py:8770`: "Restart with unresolved payment intent
  blocks duplicate send until resolved." The aggregated send is not affected: its
  intents are resolved by their own id only.
* **carry_shared_block.** `auto_payout_once` adds up pending and carried rows of every
  ready candidate (`payout_helper.py:4931`), and one pending row makes a candidate ready
  (`payout_helper.py:490`). When two miners share a block, one of them reaches the minimum
  with it, and the other with a later block of the same run, then the other's part
  of the first block is paid twice: in its carried row, and in the pending row
  that has taken it in. It needs no fault. Once the first miner is paid, the candidate is
  not ready any more, so blocks paid in different runs are not affected.
  `payout_helper.py:1091`: "Check that unique successful payouts do not exceed their
  source rewards." `PayoutCarry_put_off` contradicts the same line after a send that was
  put off.

Where an instance contradicts a statement of the repository under conditions the
statement does not name:

* `ShareLog_restart`. `docs/runbooks/snapshot-pipeline.md:173`: "restart
  still seeds lifetime totals from `activity-snapshot.json`". What was queued at
  that snapshot is not in them.
* `Solo_orphan`. `docs/design/manual-payout-design.md:472`: "No payout from
  orphan blocks." A matched block is not looked up again, and a reorganisation
  shows only while its height is among the snapshot's recent blocks. Eligibility
  asks for 101 confirmations (`solo_payout_helper.py:39`); the payout goes by the
  status, which is confirmed at 100 (`refresh_solo_maturity.py:16`), and does not read
  it.
* `SubmitArming_beside`, `SubmitArming_stale_report`.
  `docs/benchmarks/2026-05-26-armed-submit-window-wrapper.md:15`: "Using signal traps
  (INT, TERM, EXIT), it guarantees that the pool is returned to the default-off safety
  state under all exit conditions." Not where another tool writes the file back, nor
  where the drill's only `systemctl` fails, a second signal comes in the cleanup, or
  the wrapper is killed. `docs/benchmarks/2026-05-12-live-submit-safety-and-followup-baseline.md:114`
  describes the state: a process still enabled although `launch.env` says false.

## Not modelled

* Ledger: the two-hour window and the 1000 transactions a reconciliation
  looks at; lines torn by a crash; I/O errors; wording of the reasons a run reports.
* Manual sends: the settling of an intent by one of their transactions of the same
  amount; the late execution of their requests.
* Amounts: fees, the send quantum of 0.001 and the dust it drops, fallback and
  operator backfill rows, the split of a round by share weight (a constant here).
* Share log: torn lines (they are in `Rounds`), an inode replaced under the process, a
  death between the rename and the new file of a rotation, legacy snapshots without
  a floor.
* Rounds: a number of the log that is claimed again after a restart that passed over a
  rotated file named by an overtaken record (`stratum_ingress.py:440`; `ShareLog` has
  that file); the numbers of the shares themselves, scores and percentages; the names
  of rotated files, whose gaps only add refusals; changes of a file between the
  reading of one input and the next.
* SOLO: the public snapshot (`build_solo_public_snapshot.py`), which changes no state;
  the older `solo-auto-payout-once` command; the payment itself, which is
  `PayoutLedger`'s.
* Work: a second authorize on a connection, the timing of vardiff, a restart
  (job ids begin again at 1), whose wallet a share is credited to, a daemon that goes
  back to an earlier tip, retired job ids (a retired and an unknown job are both
  rejected).
* Blocks: the bytes of a block assembled from a share, malformed log lines, the height
  taken from `activity-snapshot.json` when the producer has none, jobs that have
  expired before a block of theirs is submitted, two trackers at once.
* Arming: reading and restarting of units other than the Stratum process; a
  `launch.env` that is damaged.
* Byte arithmetic: header and merkle assembly, the proof-of-work hash and its
  helper in C. The outcome of a hash check is an input wherever it is needed.
* Parsing of the Stratum protocol and of the configuration: functions of their
  input without state.
* Read-only parts: API, website, audits, wallet monitor. They change no state.

## Plan

1. *Done.* Payment ledger, its promise and its proofs, the refinement included;
   candidates and carry; share log, restart and windows; work distribution; block
   submission and lifecycle; rounds; SOLO; the tools that arm submission; manual
   sends on the ledger; the proofs listed above.
2. Compositions: `BlockLife` with `PayoutCarry` (only buried blocks are paid),
   `StratumWork` with `ShareLog` (a submit that waits for the queue).
