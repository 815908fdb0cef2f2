------------------------------ MODULE ShareLog ------------------------------
(***************************************************************************)
(* The share log of the Stratum ingress and what a restart makes of it:    *)
(* apps/pool-core/stratum_ingress.py with activity_engine.py and           *)
(* activity_log.py.                                                        *)
(*                                                                         *)
(* A submit claims a sequence number and queues its share; the append loop *)
(* writes batches to share-events.jsonl, rotates it, and counts what it    *)
(* wrote; the snapshot loop saves the counts with the claimed sequence     *)
(* number and the number from which the rolling windows must be replayed.  *)
(* A restart starts from the snapshot and replays the log.                 *)
(*                                                                         *)
(* Shares are numbered in submit order, which the code does not record; a  *)
(* count names the shares it is made of.  A batch stays in the queue until *)
(* it is written.  Seconds are clock ticks; the deque of the               *)
(* RecoveryTracker is derived from the records it was given.               *)
(***************************************************************************)
EXTENDS Integers, Sequences, SequencesExt, FiniteSets, FiniteSetsExt

CONSTANTS
  Window,      \* the longest rolling window, in seconds (900 in the code)
  QueueSize,   \* maxsize of the asyncio queue
  BatchSize,   \* APPEND_BATCH_SIZE
  RotateAt,    \* activity_log_rotate_bytes, in records
  Retention,   \* activity_log_retention_files
  MaxShares,   \* bound: shares submitted
  MaxTime,     \* bound: seconds
  MaxRestarts, \* bound: deaths of the process
  MaxFaults    \* bound: appends that fail with OSError

ASSUME ShareLogAssumption ==
  /\ {Window, QueueSize, BatchSize, RotateAt, Retention} \subseteq Nat \ {0}
  /\ {MaxShares, MaxTime, MaxRestarts, MaxFaults} \subseteq Nat

Share == 1 .. MaxShares
\* A line of the log, a ShareEnvelope in the queue.
Record == [seq : Nat \ {0}, at : 0 .. MaxTime, share : Share]
\* A rotated file, with the sequence numbers in its name.
Segment == [first : Nat, last : Nat, records : Seq(Record)]

VARIABLES
  clock,
  shares,    \* how many have been submitted
  seq,       \* ActivityEngine._sequence: claimed by submits
  queue,     \* the asyncio queue and the batch the append loop has taken from it
  waiting,   \* envelopes of clients whose put waits for a place
  active,    \* share-events.jsonl
  span,      \* sequence numbers the active file will be named by, <<0, 0>> for none
  rotated,   \* the rotated files
  life,      \* lifetime counters: how often each share is counted
  recorded,  \* what the windows and the RecoveryTracker were given since the start
  ring,      \* the counter of the longest window
  curSeq,    \* RecoveryTracker.current_sequence
  snapshot,  \* activity-snapshot.json
  excused,   \* history: in flight when a snapshot that a restart used was taken
  inOrder,   \* history: no share has been overtaken on its way to the log
  restarts, faults

vars == <<clock, shares, seq, queue, waiting, active, span, rotated, life, recorded,
          ring, curSeq, snapshot, excused, inOrder, restarts, faults>>

files == <<active, span, rotated>>
counts == <<life, recorded, ring, curSeq>>

Times(s, log) == Cardinality({i \in DOMAIN log : log[i].share = s})
SharesOf(S) == {r.share : r \in S}
InFlight == ToSet(queue) \cup waiting
Recent(r) == r.at + Window > clock

Windows == INSTANCE WindowCounter WITH WindowSeconds <- Window

-----------------------------------------------------------------------------
(* RecoveryTracker.window_replay_sequence_floor *)

\* The deque keeps the first record of every run of one second; what is out of
\* the window leaves it at the front.
FloorOf(log, current) ==
  LET marks == {i \in DOMAIN log : (i = 1 \/ log[i - 1].at # log[i].at) /\ Recent(log[i])}
  IN IF marks # {} THEN log[Min(marks)].seq
     ELSE IF current > 0 THEN current + 1 ELSE 0

\* build_snapshot, and, as history, the shares claimed and not yet counted.
SnapshotOf(claimed, counted, log, current, flying) ==
  [seq |-> claimed, floor |-> FloorOf(log, current), life |-> counted, flying |-> flying]

Init ==
  /\ clock = 0 /\ shares = 0 /\ seq = 0
  /\ queue = <<>> /\ waiting = {}
  /\ active = <<>> /\ span = <<0, 0>> /\ rotated = {}
  /\ life = [s \in Share |-> 0] /\ recorded = <<>> /\ curSeq = 0
  /\ ring = Windows!Empty(-1)
  /\ snapshot = SnapshotOf(0, life, <<>>, 0, {})
  /\ excused = {} /\ inOrder = TRUE /\ restarts = 0 /\ faults = 0

Tick ==
  /\ clock < MaxTime /\ clock' = clock + 1
  /\ UNCHANGED <<shares, seq, queue, waiting, files, counts, snapshot, excused, inOrder,
                 restarts, faults>>

-----------------------------------------------------------------------------
(* Submits *)

Envelope == [seq |-> seq + 1, at |-> clock, share |-> shares + 1]

\* Changed for the mutants: put_nowait alone, a full queue drops the share.
SubmitDrops ==
  /\ shares < MaxShares
  /\ shares' = shares + 1 /\ seq' = seq + 1
  /\ queue' = IF Len(queue) < QueueSize THEN Append(queue, Envelope) ELSE queue
  /\ UNCHANGED <<clock, waiting, files, counts, snapshot, excused, inOrder,
                 restarts, faults>>

\* The number is claimed before the share is queued; a full queue makes the
\* client's coroutine wait.
Submit ==
  /\ shares < MaxShares
  /\ shares' = shares + 1 /\ seq' = seq + 1
  /\ IF Len(queue) < QueueSize
     THEN /\ queue' = Append(queue, Envelope) /\ UNCHANGED waiting
          /\ inOrder' = (inOrder /\ waiting = {})
     ELSE waiting' = waiting \cup {Envelope} /\ UNCHANGED <<queue, inOrder>>
  /\ UNCHANGED <<clock, files, counts, snapshot, excused, restarts, faults>>

\* A waiting put finds a place; a later submit may have been quicker.
Admit(e) ==
  /\ e \in waiting /\ Len(queue) < QueueSize
  /\ queue' = Append(queue, e) /\ waiting' = waiting \ {e}
  /\ inOrder' = (inOrder /\ \A f \in waiting : e.seq <= f.seq)
  /\ UNCHANGED <<clock, shares, seq, files, counts, snapshot, excused, restarts, faults>>

-----------------------------------------------------------------------------
(* _append_loop *)

Before(a, b) == a.first < b.first \/ (a.first = b.first /\ a.last < b.last)

\* Changed for the mutants: one file too many is kept.
PruneLate(S) == {a \in S : Cardinality({b \in S : Before(a, b)}) <= Retention}

\* prune_rotated_logs: the oldest by name go.
Prune(S) == {a \in S : Cardinality({b \in S : Before(a, b)}) < Retention}

\* os.replace to a name that exists drops the file that had it.
Rotate(S, name, log) ==
  Prune({a \in S : <<a.first, a.last>> # name}
        \cup {[first |-> name[1], last |-> name[2], records |-> log]})

SpanWith(batch) ==
  <<IF span = <<0, 0>> THEN Head(batch).seq ELSE span[1], Last(batch).seq>>

\* One increment after the other.
Incremented(r, log) ==
  LET after[n \in 0 .. Len(log)] ==
        IF n = 0 THEN r ELSE Windows!Increment(after[n - 1], log[n].at)
  IN after[Len(log)]

\* The windows, the lifetime counters and the tracker take the batch.
Ingest(batch) ==
  /\ recorded' = recorded \o batch
  /\ ring' = Incremented(ring, batch)
  /\ life' = [s \in Share |-> life[s] + Times(s, batch)]
  /\ curSeq' = Max({curSeq} \cup {r.seq : r \in ToSet(batch)})

Taken(n) == SubSeq(queue, 1, n)

\* Written, synced, rotated when the file is long enough, and counted.
AppendBatch(n) ==
  LET log == active \o Taken(n) IN
  /\ n \in 1 .. Len(queue) /\ n <= BatchSize
  /\ IF Len(log) >= RotateAt
     THEN /\ rotated' = Rotate(rotated, SpanWith(Taken(n)), log)
          /\ active' = <<>> /\ span' = <<0, 0>>
     ELSE active' = log /\ span' = SpanWith(Taken(n)) /\ UNCHANGED rotated
  /\ Ingest(Taken(n))
  /\ queue' = SubSeq(queue, n + 1, Len(queue))
  /\ UNCHANGED <<clock, shares, seq, waiting, snapshot, excused, inOrder,
                 restarts, faults>>

\* OSError after k records have reached the file: the batch is counted all the
\* same and never written again.  The open failed; or a write or the flush, and
\* when the file is shorter than expected the next batch starts its name anew; or
\* only the fsync.
AppendFails(n, k) ==
  /\ n \in 1 .. Len(queue) /\ n <= BatchSize /\ k \in 0 .. n
  /\ faults < MaxFaults /\ faults' = faults + 1
  /\ active' = active \o Taken(k)
  /\ \/ k = 0 /\ UNCHANGED span
     \/ k < n /\ span' \in {<<0, 0>>, SpanWith(Taken(k + 1))}
     \/ k = n /\ span' = SpanWith(Taken(n))
  /\ Ingest(Taken(n))
  /\ queue' = SubSeq(queue, n + 1, Len(queue))
  /\ UNCHANGED <<clock, shares, seq, waiting, rotated, snapshot, excused, inOrder,
                 restarts>>

-----------------------------------------------------------------------------
(* _write_activity_snapshot *)

WriteSnapshot ==
  /\ snapshot' = SnapshotOf(seq, life, recorded, curSeq, SharesOf(InFlight))
  /\ ring' = Windows!ReadAt(ring, clock)
  /\ UNCHANGED <<clock, shares, seq, queue, waiting, files, life, recorded, curSeq,
                 excused, inOrder, restarts, faults>>

-----------------------------------------------------------------------------
(* _bootstrap_state *)

\* discover_log_segments: files in the order of their names.
Discovered(S) ==
  CHOOSE f \in [1 .. Cardinality(S) -> S] :
    \A i, j \in DOMAIN f : i < j => Before(f[i], f[j])

RecordsOf(S) == FlattenSeq([i \in 1 .. Cardinality(S) |-> Discovered(S)[i].records])

\* Changed for the mutants: a file that ends at the floor is left out.
SelectedStrictly(disk) == RecordsOf({a \in rotated : a.last > snapshot.floor}) \o disk

\* _select_replay_segments.
Selected(disk) ==
  RecordsOf({a \in rotated : snapshot.floor = 0 \/ a.last >= snapshot.floor}) \o disk

\* Of their records, those from the floor on.
FromFloor(log) ==
  FlattenSeq([i \in DOMAIN log |->
    IF snapshot.floor = 0 \/ log[i].seq >= snapshot.floor THEN <<log[i]>> ELSE <<>>])

Replay(disk) == FromFloor(Selected(disk))

TimesFrom(n, s, log) == Cardinality({i \in DOMAIN log : log[i].share = s /\ log[i].seq >= n})

\* Changed for the mutants: what the snapshot has is counted again, and what
\* follows it directly is not counted.
LifeAgain(log) ==
  [s \in Share |-> snapshot.life[s] + TimesFrom(snapshot.seq, s, log)]
LifeLate(log) ==
  [s \in Share |-> snapshot.life[s] + TimesFrom(snapshot.seq + 2, s, log)]

\* Only what is newer than the snapshot adds to the lifetime counters.
LifeAfter(log) ==
  [s \in Share |-> snapshot.life[s] + TimesFrom(snapshot.seq + 1, s, log)]

SeqAfter(log) == Max({snapshot.seq} \cup {r.seq : r \in ToSet(log)})

Ends(log) == IF log = <<>> THEN <<0, 0>> ELSE <<Head(log).seq, Last(log).seq>>

\* The process dies, perhaps after the first k records of a batch reached the
\* file, and starts again; having read any record it saves a snapshot.
Restart(k) ==
  LET disk == active \o Taken(k)
      log  == Replay(disk)
  IN
  /\ restarts < MaxRestarts /\ restarts' = restarts + 1
  /\ k \in 0 .. Len(queue) /\ k <= BatchSize
  /\ active' = disk /\ span' = Ends(disk)
  /\ queue' = <<>> /\ waiting' = {}
  /\ seq' = SeqAfter(log) /\ curSeq' = SeqAfter(log)
  /\ recorded' = log /\ life' = LifeAfter(log)
  /\ ring' = Incremented(Windows!Empty(-1), log)
  /\ excused' = excused \cup snapshot.flying
  /\ snapshot' = IF Selected(disk) = <<>> THEN snapshot
                 ELSE SnapshotOf(SeqAfter(log), LifeAfter(log), log, SeqAfter(log), {})
  /\ UNCHANGED <<clock, shares, rotated, inOrder, faults>>

Next ==
  \/ Tick \/ Submit \/ WriteSnapshot
  \/ \E e \in waiting : Admit(e)
  \/ \E n \in 1 .. BatchSize : AppendBatch(n) \/ \E k \in 0 .. n : AppendFails(n, k)
  \/ \E k \in 0 .. BatchSize : Restart(k)

Spec == Init /\ [][Next]_vars

\* The append loop runs, and a waiting put is woken when there is room.
Fairness ==
  /\ WF_vars(\E n \in 1 .. BatchSize : AppendBatch(n))
  /\ WF_vars(\E e \in waiting : Admit(e))

FairSpec == Spec /\ Fairness

-----------------------------------------------------------------------------
(* Properties *)

Logged == ToSet(active) \cup UNION {ToSet(a.records) : a \in rotated}

\* Files, queue and counters hold what they should.
TypeOK ==
  /\ clock \in 0 .. MaxTime /\ shares \in 0 .. MaxShares /\ seq \in Nat
  /\ queue \in Seq(Record) /\ Len(queue) <= QueueSize
  /\ waiting \subseteq Record /\ active \in Seq(Record) /\ rotated \subseteq Segment
  /\ span \in Nat \X Nat /\ life \in [Share -> Nat] /\ recorded \in Seq(Record)
  /\ curSeq \in 0 .. seq /\ Cardinality(rotated) <= Retention
  /\ excused \subseteq Share /\ inOrder \in BOOLEAN
  /\ restarts \in 0 .. MaxRestarts /\ faults \in 0 .. MaxFaults

\* No share is counted twice, in the lifetime counters or in the windows, however
\* snapshots, failed appends and restarts fall.
NeverTwice == \A s \in Share : life[s] <= 1 /\ Times(s, recorded) <= 1

\* The records the name of their file reaches; one that has overtaken the last of
\* its file is not, and a replay may skip the file.
Reached == ToSet(active) \cup UNION {{r \in ToSet(a.records) : r.seq <= a.last} : a \in rotated}

\* A share that a restart leaves out of the lifetime counters although the log has
\* it was in flight when the snapshot was taken, or the name of its file does not
\* reach it; no other is left out.
MissedWereInFlight == \A r \in Reached : life[r.share] = 0 => r.share \in excused

\* Every logged share of the longest window is in the windows: as long as no
\* share is overtaken on its way to the log, a restart loses none of those the
\* log still has.
WindowsComplete ==
  inOrder => \A r \in Logged : Recent(r) => Times(r.share, recorded) = 1

\* The window's total is the number of records of its last seconds it was given,
\* in whatever order appends, late records, readings and a replay touched the ring.
TotalIsWindow ==
  ring.total = Cardinality({i \in DOMAIN recorded : recorded[i].at > ring.last - Window})

\* A restart leaves every logged share in the lifetime counters.
LifetimeKept == \A r \in Logged : life[r.share] = 1

\* Without restarts, every submitted share is counted.
EventuallyCounted ==
  \A s \in Share : (shares >= s) ~> (life[s] = 1 \/ restarts > 0)
=============================================================================
