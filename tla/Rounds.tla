------------------------------- MODULE Rounds -------------------------------
(***************************************************************************)
(* Round attribution: ops/scripts/track_rounds.py divides the shares of    *)
(* the share log among the pool's blocks, writes each division once to     *)
(* round-attribution.jsonl, and rewrites rounds-snapshot.json, from which  *)
(* the payout candidates are built.                                        *)
(*                                                                         *)
(* Two trackers run beside each other, that of the five-minute timer and   *)
(* that of the payout workflow.  Meanwhile shares reach the log, blocks    *)
(* appear in accepted-candidates.json, late or twice, are orphaned and     *)
(* confirmed, and any of the processes may die.                            *)
(*                                                                         *)
(* A time is a second; shares and blocks of one second are common.  Times  *)
(* are submit times, so for one block two windows with the same end differ *)
(* by their beginnings only, and two divisions of equal counts and scores  *)
(* are equal as sets of shares.                                            *)
(***************************************************************************)
EXTENDS Naturals, Sequences, FiniteSets, Functions

CONSTANTS
  Tracker,      \* the tracker processes
  SubmitTime,   \* when each share is submitted, in seconds
  Finder,       \* the shares that are blocks
  Counted,      \* the shares that count: accepted, of the pool, above the least difficulty
  Start,        \* shares logged at the start, whose blocks are confirmed
  MaxShareLines,         \* --max-share-lines
  Timely,       \* blocks before one are settled, and tracked, when it is confirmed
  MaxShares,    \* bound: shares submitted
  MaxFlying,    \* bound: shares that are in the queue at once
  MaxFaults     \* bound: deaths, reorganisations and blocks submitted again, together

Share == 1 .. MaxShares

ASSUME RoundsAssumption ==
  /\ SubmitTime \in [Share -> Nat]
  /\ \A i, j \in Share : i <= j => SubmitTime[i] <= SubmitTime[j]
  /\ Finder \subseteq Share /\ Counted \subseteq Share
  /\ Start \in Share \cup {0} /\ Timely \in BOOLEAN /\ IsFiniteSet(Tracker)
  /\ {MaxShareLines, MaxShares, MaxFlying} \subseteq Nat \ {0}
  /\ MaxFaults \in Nat

\* A block goes by the share that found it.
Block == Finder
NoBlock == 0
Time == Range(SubmitTime) \cup {0}

Status == {"unseen", "matched", "confirmed", "orphan"}

\* A line of the log; one that cannot be read has sequence number 0.
Line == [seq : Nat, at : Time, share : 0 .. MaxShares]
Unreadable == [seq |-> 0, at |-> 0, share |-> 0]

\* The window of a block: after the time of block "from", up to its own.
Window == [from : Block \cup {NoBlock}, prev : Block \cup {NoBlock},
           start : Time, end : Time]
\* A window and the sequence numbers that cover it: share_window_coverage.
Coverage == [window : Window, first : Nat, last : Nat]
NoCoverage == [first |-> 0, last |-> 0]

\* A row of round-attribution.jsonl, a round of rounds-snapshot.json.
Record == [block : Block, shares : SUBSET Share, coverage : Coverage]
Round == [status : Status, at : Time, shares : SUBSET Share,
          verified : BOOLEAN, coverage : Coverage \cup {NoCoverage}]
NoRound == [status |-> "unseen", at |-> 0, shares |-> {}, verified |-> FALSE,
            coverage |-> NoCoverage]
NoRounds == [b \in Block |-> NoRound]

VARIABLES
  shares,   \* how many have been submitted
  seq,      \* the last sequence number claimed
  flying,   \* claimed and not yet written
  log,      \* share-events.jsonl and its rotated files, one after the other
  torn,     \* the last line of the log has no end
  cands,    \* accepted-candidates.json: status and submit time of each block
  ledger,   \* round-attribution.jsonl
  ragged,   \* the last row of the ledger has no end
  rounds,   \* rounds-snapshot.json
  tracker,  \* what each tracker has read and computed
  paid,     \* rounds that have been paid: [block, shares]
  faults    \* how many of those the bound names have happened

stratum == <<shares, seq, flying, log, torn>>
vars == <<stratum, cands, ledger, ragged, rounds, tracker, paid, faults>>

-----------------------------------------------------------------------------
(* Windows *)

\* By submit time; the sort is stable.
Earlier(cs, b, c) == cs[b].at < cs[c].at \/ (cs[b].at = cs[c].at /\ b < c)

\* round_cands
Listed(cs) == {b \in Block : cs[b].status # "unseen"}
Before(cs, b) == {c \in Listed(cs) : Earlier(cs, c, b)}
LatestOf(cs, S) ==
  IF S = {} THEN NoBlock ELSE CHOOSE c \in S : \A d \in S \ {c} : Earlier(cs, d, c)

\* The last block before b that is no orphan.
Boundary(cs, b) == LatestOf(cs, {c \in Before(cs, b) : cs[c].status # "orphan"})

\* A block's window begins at the last boundary; that of an orphan, at the last
\* block of the list.
WindowOf(cs, b) ==
  LET from == IF cs[b].status = "orphan" THEN LatestOf(cs, Before(cs, b)) ELSE Boundary(cs, b)
  IN [from |-> from, prev |-> Boundary(cs, b),
      start |-> IF from \in Block THEN cs[from].at ELSE 0, end |-> cs[b].at]

Readable(lines) == {i \in DOMAIN lines : lines[i] # Unreadable}

\* The lines whose shares count.
Countable(lines) == {i \in Readable(lines) : lines[i].share \in Counted}

\* The shares the lines attribute to a window.
SharesIn(lines, w) ==
  {lines[i].share : i \in {j \in Countable(lines) :
      /\ w.from = NoBlock \/ lines[j].at > w.start
      /\ lines[j].at <= w.end}}

-----------------------------------------------------------------------------
(* make_window_coverage *)

\* By time, and by place for equal times.
Sooner(lines, i, j) == lines[i].at < lines[j].at \/ (lines[i].at = lines[j].at /\ i < j)

\* The last line up to the window's beginning, the first from its end on.
FirstLines(lines, w) ==
  LET S == {i \in Readable(lines) : lines[i].at <= w.start}
  IN {i \in S : \A j \in S \ {i} : Sooner(lines, j, i)}
LastLines(lines, w) ==
  LET S == {i \in Readable(lines) : lines[i].at >= w.end}
  IN {i \in S : \A j \in S \ {i} : Sooner(lines, i, j)}

\* Changed for the mutants: the numbers are not looked at.
UnbrokenLines(lines, i, k) == i .. k \subseteq Readable(lines)

\* No number is missing and no line unreadable from line i to line k.
Unbroken(lines, i, k) ==
  /\ lines[i].seq <= lines[k].seq + 1
  /\ \A n \in lines[i].seq .. lines[k].seq : \E j \in Readable(lines) : lines[j].seq = n
  /\ i .. k \subseteq Readable(lines)

\* The coverages of a window: one, or none.
CoveragesOf(lines, w) ==
  {[window |-> w, first |-> lines[p[1]].seq, last |-> lines[p[2]].seq] :
     p \in {q \in FirstLines(lines, w) \X LastLines(lines, w) :
              w.from # NoBlock /\ Unbroken(lines, q[1], q[2])}}

\* Changed for the mutants: the window's end is compared, not its beginning.
SameEnd(coverage, w) == coverage # NoCoverage /\ coverage.window.end = w.end

\* saved_window_coverage_is_valid, for the same division.
StillValid(coverage, w) == coverage # NoCoverage /\ coverage.window = w

-----------------------------------------------------------------------------
\* The log of shares written in order, and what became of their blocks.
Written(n) == [i \in 1 .. n |-> [seq |-> i, at |-> SubmitTime[i], share |-> i]]
Confirmed(n) == [b \in Block |-> [status |-> IF b <= n THEN "confirmed" ELSE "unseen",
                                 at |-> SubmitTime[b]]]
Idle == [pc |-> "idle", ledger |-> {}, new |-> {}, out |-> NoRounds]

Init ==
  /\ shares = Start /\ seq = Start /\ flying = {} /\ log = Written(Start) /\ torn = FALSE
  /\ cands = Confirmed(Start)
  /\ ledger = {} /\ ragged = FALSE /\ rounds = NoRounds
  /\ tracker = [p \in Tracker |-> Idle]
  /\ paid = {} /\ faults = 0

Fault == faults < MaxFaults /\ faults' = faults + 1

-----------------------------------------------------------------------------
(* The Stratum process *)

\* A share claims its number.
Submit ==
  /\ shares < MaxShares /\ Cardinality(flying) < MaxFlying
  /\ shares' = shares + 1 /\ seq' = seq + 1
  /\ flying' = flying \cup
       {[seq |-> seq + 1, at |-> SubmitTime[shares + 1], share |-> shares + 1]}
  /\ UNCHANGED <<log, torn, cands, ledger, ragged, rounds, tracker, paid, faults>>

\* In any order, since waiting clients overtake each other.  What follows a torn
\* line is part of it.
Write(r) ==
  /\ r \in flying /\ flying' = flying \ {r}
  /\ log' = IF torn THEN log ELSE Append(log, r)
  /\ torn' = FALSE
  /\ UNCHANGED <<shares, seq, cands, ledger, ragged, rounds, tracker, paid, faults>>

LoggedSeqs == {log[i].seq : i \in DOMAIN log}

\* A death loses what is not written, perhaps in the middle of a line.  A snapshot
\* may have saved any of the numbers claimed.  A restart goes on after every number
\* of the log: that it may pass over a rotated file named by an overtaken record, and
\* claim a number of that file again, is in ShareLog and not here.
Restart ==
  /\ Fault
  /\ flying' = {}
  /\ \/ UNCHANGED <<log, torn>>
     \/ flying # {} /\ ~torn /\ log' = Append(log, Unreadable) /\ torn' = TRUE
  /\ seq' \in {n \in 0 .. seq : \A m \in LoggedSeqs : m <= n}
  /\ UNCHANGED <<shares, cands, ledger, ragged, rounds, tracker, paid>>

-----------------------------------------------------------------------------
(* Accepted candidates: the subject of BlockLife *)

Found == {b \in Block : b <= shares}
Now == SubmitTime[shares]
Later(b) == {c \in Found : Earlier(cands, b, c)}

\* A block keeps its place while a later one is being confirmed.
MayChange(b) ==
  /\ cands[b].status # "confirmed"
  /\ Timely => \A c \in Later(b) : cands[c].status # "confirmed"

Appear(b) ==
  /\ b \in Found /\ cands[b].status = "unseen" /\ MayChange(b)
  /\ cands' = [cands EXCEPT ![b].status = "matched"]
  /\ UNCHANGED <<stratum, ledger, ragged, rounds, tracker, paid, faults>>

Turn(b) ==
  /\ Fault
  /\ b \in Found /\ cands[b].status \in {"matched", "orphan"} /\ MayChange(b)
  /\ cands' = [cands EXCEPT ![b].status = IF @ = "orphan" THEN "matched" ELSE "orphan"]
  /\ UNCHANGED <<stratum, ledger, ragged, rounds, tracker, paid>>

\* The latest event of a block gives its time.
Resubmit(b) ==
  /\ Fault
  /\ b \in Found /\ cands[b].at < Now /\ MayChange(b)
  /\ cands' = [cands EXCEPT ![b].at = Now]
  /\ UNCHANGED <<stratum, ledger, ragged, rounds, tracker, paid>>

\* The snapshot shows the listed blocks as they are now.
Tracked ==
  \A b \in Found : cands[b].status # "unseen" =>
    rounds[b].status = cands[b].status /\ rounds[b].at = cands[b].at

Confirm(b) ==
  /\ b \in Found /\ cands[b].status = "matched"
  /\ Timely => Tracked /\ \A p \in Tracker : tracker[p].pc = "idle"
  /\ cands' = [cands EXCEPT ![b].status = "confirmed"]
  /\ UNCHANGED <<stratum, ledger, ragged, rounds, tracker, paid, faults>>

-----------------------------------------------------------------------------
(* track_rounds.py *)

Update(p, t) == tracker' = [tracker EXCEPT ![p] = t]

RecordsFor(S, b) == {r \in S : r.block = b}

\* tail_share_log_segments
LastOf(lines) ==
  SubSeq(lines, IF Len(lines) > MaxShareLines THEN Len(lines) - MaxShareLines + 1 ELSE 1,
         Len(lines))

\* valid_attribution: a division's totals agree with its parts, which sets of shares
\* do by themselves, and something is divided.
Valid(division) == division # {}

\* The round of a block with record r, for the window w: its record stands; it is
\* verified by the lines, by the record's own coverage or by the snapshot's.
Recorded(r, w, old, lines) ==
  LET now == IF SharesIn(lines, w) = r.shares THEN CoveragesOf(lines, w) ELSE {}
      saved == {r.coverage} \cup IF old.shares = r.shares THEN {old.coverage} ELSE {}
      proofs == now \cup {c \in saved : StillValid(c, w)}
  IN [shares |-> r.shares, verified |-> proofs # {},
      coverage |-> CASE now # {} -> CHOOSE c \in now : TRUE
                     [] now = {} /\ proofs # {} ->
                          IF r.coverage \in proofs THEN r.coverage ELSE old.coverage
                     [] proofs = {} -> NoCoverage]

\* Changed for the mutants: what the snapshot shows is never made a record.
NewRecordsOnce(b, w, old, lines) ==
  IF Valid(old.shares) THEN {}
  ELSE {[block |-> b, shares |-> SharesIn(lines, w), coverage |-> c] :
          c \in {d \in CoveragesOf(lines, w) : Valid(SharesIn(lines, w))}}

\* The record to write for a block that has none: what the snapshot shows if that
\* is still proved, else what the lines show, if they cover the window.
NewRecords(b, w, old, lines) ==
  IF Valid(old.shares) /\ StillValid(old.coverage, w)
  THEN {[block |-> b, shares |-> old.shares, coverage |-> old.coverage]}
  ELSE {[block |-> b, shares |-> SharesIn(lines, w), coverage |-> c] :
          c \in {d \in CoveragesOf(lines, w) : Valid(SharesIn(lines, w))}}

\* Changed for the mutants: the snapshot's division needs no proof.
Trusted(w, old, lines) ==
  [shares |-> IF Valid(old.shares) THEN old.shares ELSE SharesIn(lines, w),
   verified |-> Valid(old.shares), coverage |-> NoCoverage]

\* Without a record and without proof, what the snapshot showed stays.
Unproved(w, old, lines) ==
  [shares |-> IF Valid(old.shares) THEN old.shares ELSE SharesIn(lines, w),
   verified |-> FALSE, coverage |-> NoCoverage]

\* The ledger is read first.
ReadLedger(p) ==
  /\ tracker[p].pc = "idle"
  /\ Update(p, [Idle EXCEPT !.pc = "read", !.ledger = ledger])
  /\ UNCHANGED <<stratum, cands, ledger, ragged, rounds, paid, faults>>

\* What a tracker that knows these records makes of a block: a record to write,
\* or none, and a round.
Outcome(known, b) ==
  LET lines == LastOf(log)
      w == WindowOf(cands, b)
      mine == RecordsFor(known, b)
      new == IF mine = {} THEN NewRecords(b, w, rounds[b], lines) ELSE {}
      division == IF mine \cup new = {} THEN Unproved(w, rounds[b], lines)
                  ELSE Recorded(CHOOSE r \in mine \cup new : TRUE, w, rounds[b], lines)
  IN [new |-> new,
      out |-> [status |-> cands[b].status, at |-> cands[b].at, shares |-> division.shares,
               verified |-> division.verified, coverage |-> division.coverage]]

\* Then candidates, snapshot and shares, from which everything follows.
ReadInputs(p) ==
  LET outcome == [b \in Listed(cands) |-> Outcome(tracker[p].ledger, b)]
  IN
  /\ tracker[p].pc = "read"
  /\ UNCHANGED <<stratum, cands, ledger, ragged, rounds, paid, faults>>
  /\ Update(p, [Idle EXCEPT !.pc = "append",
                  !.new = UNION {outcome[b].new : b \in Listed(cands)},
                  !.out = [b \in Block |-> IF b \in Listed(cands) THEN outcome[b].out
                                            ELSE NoRound]])

\* The first of the records left to write: they go in the order of the windows.
Pending(p) ==
  {r \in tracker[p].new : \A s \in tracker[p].new \ {r} :
     <<r.coverage.window.end, r.block>> = <<s.coverage.window.end, s.block>>
     \/ r.coverage.window.end < s.coverage.window.end
     \/ (r.coverage.window.end = s.coverage.window.end /\ r.block < s.block)}

\* Changed for the mutants: the ledger is not read again under its lock.
FreeUnseen(r) == TRUE

\* No other record has the block.
Free(r) == RecordsFor(ledger, r.block) \subseteq {r}

\* append_attribution, under the ledger's lock.  A row that follows a torn one is
\* part of it and lost.
AppendRecord(p) ==
  /\ tracker[p].pc = "append"
  /\ \E r \in Pending(p) :
       /\ Free(r)
       /\ IF r \in ledger THEN UNCHANGED <<ledger, ragged>>
          ELSE /\ ledger' = IF ragged THEN ledger ELSE ledger \cup {r}
               /\ ragged' = FALSE
       /\ Update(p, [tracker[p] EXCEPT !.new = @ \ {r}])
  /\ UNCHANGED <<stratum, cands, rounds, paid, faults>>

\* A conflict: the tracker gives up.
Conflict(p) ==
  /\ tracker[p].pc = "append"
  /\ \E r \in Pending(p) : ~Free(r)
  /\ Update(p, Idle)
  /\ UNCHANGED <<stratum, cands, ledger, ragged, rounds, paid, faults>>

\* The snapshot is opened for writing, which empties it, and then written.
Truncate(p) ==
  /\ tracker[p].pc = "append" /\ tracker[p].new = {}
  /\ rounds' = NoRounds
  /\ Update(p, [tracker[p] EXCEPT !.pc = "write"])
  /\ UNCHANGED <<stratum, cands, ledger, ragged, paid, faults>>

Save(p) ==
  /\ tracker[p].pc = "write"
  /\ rounds' = tracker[p].out
  /\ Update(p, Idle)
  /\ UNCHANGED <<stratum, cands, ledger, ragged, paid, faults>>

\* Perhaps in the middle of a row of the ledger.
Die(p) ==
  /\ Fault
  /\ tracker[p].pc # "idle"
  /\ ragged' \in {ragged} \cup {Free(r) : r \in Pending(p)}
  /\ Update(p, Idle)
  /\ UNCHANGED <<stratum, cands, ledger, rounds, paid>>

-----------------------------------------------------------------------------
\* generate_payout_candidates takes the confirmed blocks with a verified round;
\* what follows is the subject of PayoutCarry.
Pay(b) ==
  /\ cands[b].status = "confirmed" /\ rounds[b].verified
  /\ \A q \in paid : q.block # b
  /\ paid' = paid \cup {[block |-> b, shares |-> rounds[b].shares]}
  /\ UNCHANGED <<stratum, cands, ledger, ragged, rounds, tracker, faults>>

Track(p) ==
  \/ ReadLedger(p) \/ ReadInputs(p) \/ AppendRecord(p) \/ Conflict(p)
  \/ Truncate(p) \/ Save(p)

Next ==
  \/ Submit \/ Restart
  \/ \E r \in flying : Write(r)
  \/ \E b \in Block : Appear(b) \/ Turn(b) \/ Resubmit(b) \/ Confirm(b) \/ Pay(b)
  \/ \E p \in Tracker : Track(p) \/ Die(p)

Spec == Init /\ [][Next]_vars

\* Both timers start their trackers again and again, and a started one goes on or
\* dies: there is always a step of Track(p) to take, so that weak fairness of it is
\* to take one again and again.
FairSpec == Spec /\ \A p \in Tracker : []<><<Track(p)>>_vars

-----------------------------------------------------------------------------
(* Properties *)

Logged == {log[i] : i \in Readable(log)}

\* The files hold lines, records and rounds of the right shape, and a round is
\* verified by the coverage it names.
TypeOK ==
  /\ shares \in 0 .. MaxShares /\ seq \in 0 .. MaxShares
  /\ flying \subseteq Line /\ log \in Seq(Line) /\ torn \in BOOLEAN
  /\ cands \in [Block -> [status : Status, at : Time]]
  /\ ledger \subseteq Record /\ ragged \in BOOLEAN /\ rounds \in [Block -> Round]
  /\ \A b \in Block : rounds[b].verified <=> rounds[b].coverage # NoCoverage
  /\ \A p \in Tracker :
       /\ tracker[p].pc \in {"idle", "read", "append", "write"}
       /\ tracker[p].ledger \cup tracker[p].new \subseteq Record
       /\ tracker[p].out \in [Block -> Round]
  /\ \A q \in paid : q.block \in Block /\ q.shares \subseteq Share

\* A verified round is the whole of its window: it has every share that was logged
\* for the time before its block's second, and none of another time, although
\* numbers are lost, lines torn, and the log is read while it is written.
VerifiedIsComplete ==
  \A b \in Block : rounds[b].verified =>
    LET w == rounds[b].coverage.window
        due == {r \in Logged : r.share \in Counted /\ w.start < r.at}
    IN /\ {r.share : r \in {x \in due : x.at < w.end}} \subseteq rounds[b].shares
       /\ rounds[b].shares \subseteq {r.share : r \in {x \in due : x.at <= w.end}}

\* The same with the shares of the block's own second.
VerifiedToTheSecond ==
  \A b \in Block : rounds[b].verified =>
    LET w == rounds[b].coverage.window
    IN rounds[b].shares = {r.share : r \in {x \in Logged :
         x.share \in Counted /\ w.start < x.at /\ x.at <= w.end}}

\* A share is paid for in one round only, however the blocks before it appear,
\* leave the chain or change their time before they are settled.
PaidOnce ==
  \A q, u \in paid : q.block # u.block => q.shares \cap u.shares = {}

\* A block has one record, whichever tracker writes it and however they overtake
\* each other or die.
RecordsStand == \A r, s \in ledger : r.block = s.block => r = s

\* What was paid for a block is what its record says.
PaidAsRecorded == \A q \in paid, r \in ledger : q.block = r.block => q.shares = r.shares

Coverable(b) ==
  /\ cands[b].status \in {"matched", "confirmed"}
  /\ CoveragesOf(LastOf(log), WindowOf(cands, b)) # {}
  /\ Valid(SharesIn(LastOf(log), WindowOf(cands, b)))

\* Recorded when its window was another one.
Overruled(b) == \E r \in RecordsFor(ledger, b) : r.coverage.window # WindowOf(cands, b)

\* A block whose window the log goes on to cover is verified again and again, or
\* was recorded with another window, although a tracker may die or give up and the
\* snapshot is empty between two writes.
EventuallyVerified ==
  \A b \in Block : []<>(Coverable(b) => rounds[b].verified \/ Overruled(b))

\* A record keeps its block's window.
RecordsFit == \A r \in ledger : ~Overruled(r.block)
=============================================================================
