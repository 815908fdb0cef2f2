---------------------------- MODULE RoundsProofs ----------------------------
(***************************************************************************)
(* That a block has one record in the ledger, that a verified round is the *)
(* whole of its window, and that no share is paid for twice, for any       *)
(* number of trackers, shares and blocks, any submit times, any order of   *)
(* writing, and any deaths, reorganisations and repeated submissions.      *)
(*                                                                         *)
(* The second rests on the numbers: among the lines of the log and those   *)
(* still in the queue they are in the order of the shares, and so in the   *)
(* order of time (OrderInv).  A window is covered when every number from a *)
(* line before it to a line after it is in the log.  A line that is        *)
(* written later cannot have one of these numbers, and by the order it     *)
(* cannot be of a time between those two lines either (Whole).             *)
(*                                                                         *)
(* The third rests on the windows: if blocks are confirmed in their order, *)
(* with the snapshot up to date, the window of a confirmed block is frozen *)
(* (ConfirmedIsFrozen), begins after every confirmed block before it       *)
(* (WindowBeginsAfter), and is the one that was verified (Agrees).         *)
(***************************************************************************)
EXTENDS Rounds, SequenceTheorems, WellFoundedInduction, TLAPS

KnownLines == flying \cup Logged

\* The numbers of the readable and of the waiting lines follow the shares.
OrderInv ==
  /\ shares \in Nat /\ shares <= MaxShares /\ seq \in Nat
  /\ cands \in [Block -> [status : Status, at : Nat]]
  /\ log \in Seq([seq : Nat, at : Nat, share : Nat])
  /\ \A r \in flying : r # Unreadable
  /\ \A r \in KnownLines :
       /\ r \in [seq : Nat, at : Nat, share : Nat]
       /\ r.seq <= seq /\ r.share \in Share /\ r.share <= shares
       /\ r.at = SubmitTime[r.share]
  /\ \A r, s \in KnownLines : r.seq <= s.seq <=> r.share <= s.share

\* Of the window.
Due(r, w) == r.share \in Counted /\ w.start < r.at /\ r.at <= w.end

\* Every number from a line before the window to one after it is logged, and the
\* division has what is due and nothing else.
Whole(division, c) ==
  /\ c.window.start \in Nat /\ c.window.end \in Nat
  /\ \E i \in Logged : i.seq = c.first /\ i.at <= c.window.start
  /\ \E k \in Logged : k.seq = c.last /\ c.window.end <= k.at
  /\ \A n \in c.first .. c.last :
       \E r \in Logged : r.seq = n /\ (Due(r, c.window) => r.share \in division)
  /\ \A x \in division : \E r \in Logged : r.share = x /\ Due(r, c.window)

WholeRecord(r) == Whole(r.shares, r.coverage)
WholeRound(r) == r.verified \/ r.coverage # NoCoverage => Whole(r.shares, r.coverage)

\* What a tracker has in hand.
WholeHand(t) ==
  /\ DOMAIN t = {"pc", "ledger", "new", "out"} /\ DOMAIN t.out = Block
  /\ \A r \in t.ledger \cup t.new : WholeRecord(r)
  /\ \A b \in Block : WholeRound(t.out[b])

WholeInv ==
  /\ DOMAIN rounds = Block /\ DOMAIN tracker = Tracker
  /\ \A r \in ledger : WholeRecord(r)
  /\ \A b \in Block : WholeRound(rounds[b])
  /\ \A p \in Tracker : WholeHand(tracker[p])

-----------------------------------------------------------------------------
(* One record for each block *)

\* A row is added only if the ledger, read under its lock, has no other for its
\* block (append_attribution).
THEOREM OneRecordEach == Spec => []RecordsStand
<1>1. Init => RecordsStand
  BY DEF Init, RecordsStand
<1>2. RecordsStand /\ [Next]_vars => RecordsStand'
  <2> SUFFICES ASSUME RecordsStand, [Next]_vars PROVE RecordsStand'
    OBVIOUS
  <2>1. CASE UNCHANGED ledger
    BY <2>1 DEF RecordsStand
  <2>2. ASSUME NEW p \in Tracker, AppendRecord(p) PROVE RecordsStand'
    <3>1. PICK r \in Pending(p) :
            Free(r) /\ (ledger' = ledger \/ ledger' = ledger \cup {r})
      BY <2>2 DEF AppendRecord
    <3> QED
      BY <3>1 DEF RecordsStand, Free, RecordsFor
  <2>3. [\E p \in Tracker : AppendRecord(p)]_ledger
    BY DEF Next, vars, stratum, Submit, Restart, Write, Appear, Turn, Resubmit, Confirm,
           Pay, Track, Die, ReadLedger, ReadInputs, Conflict, Truncate, Save
  <2> QED
    BY <2>1, <2>2, <2>3
<1> QED
  BY <1>1, <1>2, PTL DEF Spec

-----------------------------------------------------------------------------
(* Windows and what covers them *)

\* What a tracker reads of the log (tail_share_log_segments) are lines of it.
LEMMA ReadIsLogged ==
  ASSUME OrderInv, NEW i \in Readable(LastOf(log))
  PROVE  LastOf(log)[i] \in Logged /\ LastOf(log)[i].seq \in Nat
<1> DEFINE LogLine == [seq : Nat, at : Nat, share : Nat]
           a == IF Len(log) > MaxShareLines THEN Len(log) - MaxShareLines + 1 ELSE 1
<1>1. log \in Seq(LogLine) /\ Len(log) \in Nat /\ a \in Nat \ {0}
  BY RoundsAssumption DEF OrderInv
<1>2. LastOf(log) = SubSeq(log, a, Len(log))
  BY DEF LastOf
<1>3. i \in DOMAIN LastOf(log)
  BY DEF Readable
<1> HIDE DEF LogLine, a
<1>4. i + a - 1 \in DOMAIN log /\ LastOf(log)[i] = log[i + a - 1]
  <2>1. \A j \in a .. Len(log) : log[j] \in LogLine
    BY <1>1
  <2>2. /\ SubSeq(log, a, Len(log)) \in Seq(LogLine)
        /\ Len(SubSeq(log, a, Len(log))) = IF a <= Len(log) THEN Len(log) - a + 1 ELSE 0
        /\ \A j \in 1 .. Len(log) - a + 1 : SubSeq(log, a, Len(log))[j] = log[a + j - 1]
    BY <1>1, <2>1, SubSeqProperties
  <2>3. i \in 1 .. Len(SubSeq(log, a, Len(log)))
    BY <1>2, <1>3, <2>2
  <2>4. i \in 1 .. Len(log) - a + 1
    BY <1>1, <2>2, <2>3
  <2>5. i + a - 1 \in 1 .. Len(log) /\ i + a - 1 = a + i - 1
    BY <1>1, <2>4
  <2> QED
    BY <1>1, <1>2, <2>2, <2>4, <2>5
<1>5. i + a - 1 \in Readable(log)
  BY <1>4 DEF Readable
<1>6. log[i + a - 1] \in Logged
  BY <1>5 DEF Logged
<1> QED
  BY <1>4, <1>6 DEF OrderInv, KnownLines

\* Shares divided by lines that cover their window are the whole of it.
LEMMA CoveredIsWhole ==
  ASSUME OrderInv, NEW w, w.start \in Nat, w.end \in Nat,
         NEW c \in CoveragesOf(LastOf(log), w)
  PROVE  Whole(SharesIn(LastOf(log), w), c)
<1> DEFINE lines == LastOf(log)
<1>1. PICK i \in FirstLines(lines, w), k \in LastLines(lines, w) :
        /\ w.from # NoBlock /\ Unbroken(lines, i, k)
        /\ c = [window |-> w, first |-> lines[i].seq, last |-> lines[k].seq]
  BY DEF CoveragesOf
<1>2. i \in Readable(lines) /\ lines[i].at <= w.start
      /\ k \in Readable(lines) /\ lines[k].at >= w.end
  BY DEF FirstLines, LastLines
<1>3. c.window = w /\ c.first = lines[i].seq /\ c.last = lines[k].seq
  BY <1>1
<1>4. \A j \in Readable(lines) : lines[j] \in Logged
  BY ReadIsLogged
<1>5. \A r \in Logged : r.at \in Nat
  BY DEF OrderInv, KnownLines
<1>6. w.end <= lines[k].at
  BY <1>2, <1>4, <1>5
<1>7. ASSUME NEW n \in c.first .. c.last
      PROVE  \E r \in Logged : r.seq = n /\ (Due(r, w) => r.share \in SharesIn(lines, w))
  <2>1. PICK j \in Readable(lines) : lines[j].seq = n
    BY <1>1, <1>3 DEF Unbroken
  <2>2. Due(lines[j], w) => lines[j].share \in SharesIn(lines, w)
    BY DEF Due, SharesIn, Countable
  <2> QED
    BY <2>1, <2>2, <1>4
<1>8. ASSUME NEW x \in SharesIn(lines, w)
      PROVE  \E r \in Logged : r.share = x /\ Due(r, w)
  BY <1>1, <1>4 DEF SharesIn, Countable, Due
<1>9. \E r \in Logged : r.seq = c.first /\ r.at <= w.start
  BY <1>2, <1>3, <1>4
<1>10. \E r \in Logged : r.seq = c.last /\ w.end <= r.at
  BY <1>2, <1>3, <1>4, <1>6
<1> QED
  BY <1>3, <1>7, <1>8, <1>9, <1>10 DEF Whole

\* The window of a block has its ends at times.
LEMMA WindowHasTimes ==
  ASSUME OrderInv, NEW b \in Block
  PROVE  WindowOf(cands, b).start \in Nat /\ WindowOf(cands, b).end \in Nat
BY DEF OrderInv, WindowOf

\* The record of a block that had none.
LEMMA NewRecordsAreWhole ==
  ASSUME OrderInv, NEW b \in Block, NEW old, WholeRound(old),
         NEW r \in NewRecords(b, WindowOf(cands, b), old, LastOf(log))
  PROVE  WholeRecord(r)
<1> DEFINE w == WindowOf(cands, b)
<1>1. w.start \in Nat /\ w.end \in Nat
  BY WindowHasTimes
<1> HIDE DEF w
<1>2. CASE Valid(old.shares) /\ StillValid(old.coverage, w)
  <2>1. r.shares = old.shares /\ r.coverage = old.coverage
    BY <1>2 DEF NewRecords, w
  <2> QED
    BY <1>2, <2>1 DEF StillValid, WholeRound, WholeRecord
<1>3. CASE ~(Valid(old.shares) /\ StillValid(old.coverage, w))
  <2>1. PICK c \in CoveragesOf(LastOf(log), w) :
          r.shares = SharesIn(LastOf(log), w) /\ r.coverage = c
    BY <1>3 DEF NewRecords, w
  <2> QED
    BY <1>1, <2>1, CoveredIsWhole DEF WholeRecord
<1> QED
  BY <1>2, <1>3

\* The round of a block that has a record.
LEMMA RecordedIsWhole ==
  ASSUME OrderInv, NEW b \in Block, NEW old, WholeRound(old), NEW r, WholeRecord(r)
  PROVE  WholeRound(Recorded(r, WindowOf(cands, b), old, LastOf(log)))
<1> DEFINE w == WindowOf(cands, b)
           lines == LastOf(log)
           now == IF SharesIn(lines, w) = r.shares THEN CoveragesOf(lines, w) ELSE {}
           saved == {r.coverage} \cup IF old.shares = r.shares THEN {old.coverage} ELSE {}
           proofs == now \cup {c \in saved : StillValid(c, w)}
           round == Recorded(r, w, old, lines)
<1>1. \A c \in now : Whole(r.shares, c)
  BY WindowHasTimes, CoveredIsWhole
<1>2. \A c \in saved : StillValid(c, w) => Whole(r.shares, c)
  BY DEF StillValid, WholeRound, WholeRecord
<1>3. \A c \in proofs : Whole(r.shares, c)
  BY <1>1, <1>2
<1>4. /\ round.shares = r.shares /\ (round.verified <=> proofs # {})
      /\ proofs # {} => round.coverage \in proofs
      /\ proofs = {} => round.coverage = NoCoverage
  <2>1. round = [shares |-> r.shares, verified |-> proofs # {},
                 coverage |-> CASE now # {} -> CHOOSE c \in now : TRUE
                                [] now = {} /\ proofs # {} ->
                                     IF r.coverage \in proofs THEN r.coverage ELSE old.coverage
                                [] proofs = {} -> NoCoverage]
    BY DEF Recorded
  <2>2. now \subseteq proofs /\ proofs \subseteq now \cup {r.coverage, old.coverage}
    OBVIOUS
  <2> HIDE DEF now, proofs, round
  <2>3. CASE now # {}
    BY <2>1, <2>2, <2>3
  <2>4. CASE now = {} /\ proofs # {}
    BY <2>1, <2>2, <2>4
  <2>5. CASE proofs = {}
    BY <2>1, <2>2, <2>5
  <2> QED
    BY <2>3, <2>4, <2>5
<1> HIDE DEF w, lines, now, saved, proofs, round
<1>5. WholeRound(round)
  BY <1>3, <1>4 DEF WholeRound
<1> QED
  BY <1>5 DEF round, w, lines

\* What a tracker makes of a block, from records that are whole.
LEMMA OutcomeIsWhole ==
  ASSUME OrderInv, NEW b \in Block, WholeRound(rounds[b]),
         NEW known, \A r \in known : WholeRecord(r)
  PROVE  /\ \A r \in Outcome(known, b).new : WholeRecord(r)
         /\ WholeRound(Outcome(known, b).out)
<1> DEFINE w == WindowOf(cands, b)
           lines == LastOf(log)
           mine == RecordsFor(known, b)
           new == IF mine = {} THEN NewRecords(b, w, rounds[b], lines) ELSE {}
           division == IF mine \cup new = {} THEN Unproved(w, rounds[b], lines)
                       ELSE Recorded(CHOOSE r \in mine \cup new : TRUE, w, rounds[b], lines)
<1>1. \A r \in mine \cup new : WholeRecord(r)
  BY NewRecordsAreWhole DEF RecordsFor
<1>2. WholeRound(division)
  <2>1. CASE mine \cup new = {}
    BY <2>1 DEF Unproved, WholeRound
  <2>2. CASE mine \cup new # {}
    <3>1. WholeRecord(CHOOSE r \in mine \cup new : TRUE)
      BY <1>1, <2>2
    <3> HIDE DEF mine, new
    <3> QED
      BY <2>2, <3>1, RecordedIsWhole
  <2> QED
    BY <2>1, <2>2
<1>3. /\ Outcome(known, b).new = new
      /\ Outcome(known, b).out = [status |-> cands[b].status, at |-> cands[b].at,
           shares |-> division.shares, verified |-> division.verified,
           coverage |-> division.coverage]
  BY DEF Outcome
<1> HIDE DEF w, lines, mine, new, division
<1> QED
  BY <1>1, <1>2, <1>3 DEF WholeRound

-----------------------------------------------------------------------------
(* Numbers stay in order *)

LogLine == [seq : Nat, at : Nat, share : Nat]

\* What is appended is logged, unless it cannot be read.
LEMMA AppendedIsLogged ==
  ASSUME log \in Seq(LogLine), NEW r \in LogLine, log' = Append(log, r)
  PROVE  log' \in Seq(LogLine) /\ Logged' = Logged \cup ({r} \ {Unreadable})
<1>1. /\ log' \in Seq(LogLine) /\ DOMAIN log' = DOMAIN log \cup {Len(log) + 1}
      /\ Len(log) + 1 \notin DOMAIN log
      /\ \A i \in DOMAIN log : log'[i] = log[i]
      /\ log'[Len(log) + 1] = r
  BY DEF LogLine
<1>2. Logged' = {log'[i] : i \in {j \in DOMAIN log' : log'[j] # Unreadable}}
  BY DEF Logged, Readable
<1>3. Logged = {log[i] : i \in {j \in DOMAIN log : log[j] # Unreadable}}
  BY DEF Logged, Readable
<1> QED
  BY <1>1, <1>2, <1>3

\* The invariant: lines that are claimed or logged are in the order of the shares,
\* although the queue is written in any order and a death loses numbers.
LEMMA OrderStep == OrderInv /\ [Next]_vars => OrderInv' /\ Logged \subseteq Logged'
<1> SUFFICES ASSUME OrderInv, [Next]_vars PROVE OrderInv' /\ Logged \subseteq Logged'
  OBVIOUS
<1> USE DEF LogLine
<1>1. CASE UNCHANGED <<stratum, cands>>
  BY <1>1 DEF OrderInv, KnownLines, Logged, Readable, stratum
<1>2. CASE Submit
  <2> DEFINE x == [seq |-> seq + 1, at |-> SubmitTime[shares + 1], share |-> shares + 1]
  <2>1. /\ shares < MaxShares /\ shares' = shares + 1 /\ seq' = seq + 1
        /\ flying' = flying \cup {x} /\ log' = log /\ cands' = cands
    BY <1>2 DEF Submit
  <2>2. shares + 1 \in Share /\ SubmitTime[shares + 1] \in Nat /\ MaxShares \in Nat
    BY <2>1, RoundsAssumption DEF OrderInv, Share
  <2>3. x \in LogLine /\ x.seq = seq + 1 /\ x.share = shares + 1
        /\ x.at = SubmitTime[x.share] /\ x # Unreadable
    BY <2>2 DEF OrderInv, Unreadable
  <2>4. Logged' = Logged /\ KnownLines' = KnownLines \cup {x}
    BY <2>1 DEF Logged, Readable, KnownLines
  <2> HIDE DEF x
  <2>5. \A r \in KnownLines' : /\ r \in LogLine /\ r.seq <= seq' /\ r.share \in Share
                               /\ r.share <= shares' /\ r.at = SubmitTime[r.share]
    BY <2>1, <2>2, <2>3, <2>4 DEF OrderInv, Share
  <2>6. \A r \in KnownLines : r.seq <= seq /\ r.share <= shares /\ r.seq \in Nat /\ r.share \in Nat
    BY DEF OrderInv
  <2>7. \A r, s \in KnownLines' : r.seq <= s.seq <=> r.share <= s.share
    <3> SUFFICES ASSUME NEW r \in KnownLines', NEW s \in KnownLines'
                 PROVE  r.seq <= s.seq <=> r.share <= s.share
      OBVIOUS
    <3>1. CASE r \in KnownLines /\ s \in KnownLines
      BY <3>1 DEF OrderInv
    <3>2. CASE r = x /\ s = x
      BY <2>3, <3>2 DEF OrderInv
    <3>3. CASE r = x /\ s \in KnownLines
      BY <2>3, <2>6, <3>3 DEF OrderInv
    <3>4. CASE r \in KnownLines /\ s = x
      BY <2>3, <2>6, <3>4 DEF OrderInv
    <3> QED
      BY <2>4, <3>1, <3>2, <3>3, <3>4
  <2> QED
    BY <2>1, <2>2, <2>3, <2>4, <2>5, <2>7 DEF OrderInv
<1>3. ASSUME NEW r \in flying, Write(r) PROVE OrderInv' /\ Logged \subseteq Logged'
  <2>1. /\ flying' \subseteq flying /\ r \in LogLine /\ log \in Seq(LogLine)
        /\ UNCHANGED <<shares, seq, cands>>
    BY <1>3 DEF Write, OrderInv, KnownLines
  <2>2. log' \in Seq(LogLine) /\ Logged \subseteq Logged' /\ Logged' \subseteq Logged \cup {r}
    <3>1. CASE torn
      BY <1>3, <2>1, <3>1 DEF Write, Logged, Readable
    <3>2. CASE ~torn
      BY <1>3, <2>1, <3>2, AppendedIsLogged DEF Write
    <3> QED
      BY <3>1, <3>2
  <2>3. KnownLines' \subseteq KnownLines
    BY <2>1, <2>2 DEF KnownLines
  <2> QED
    BY <2>1, <2>2, <2>3 DEF OrderInv
<1>4. CASE Restart
  <2>1. flying' = {} /\ UNCHANGED <<shares, cands>> /\ log \in Seq(LogLine)
    BY <1>4 DEF Restart, OrderInv
  <2>2. log' \in Seq(LogLine) /\ Logged' = Logged
    <3>1. CASE log' = log
      BY <2>1, <3>1 DEF Logged, Readable
    <3>2. CASE log' = Append(log, Unreadable)
      BY <2>1, <3>2, AppendedIsLogged DEF Unreadable, Logged, Readable
    <3> QED
      BY <1>4, <3>1, <3>2 DEF Restart
  <2>3. KnownLines' = Logged /\ Logged \subseteq KnownLines
    BY <2>1, <2>2 DEF KnownLines
  <2>4. seq' \in Nat /\ \A r \in Logged : r.seq <= seq'
    BY <1>4 DEF Restart, LoggedSeqs, Logged, Readable, OrderInv
  <2> QED
    BY <2>1, <2>2, <2>3, <2>4 DEF OrderInv
<1>5. ASSUME NEW b \in Block, Appear(b) \/ Turn(b) \/ Resubmit(b) \/ Confirm(b)
      PROVE  OrderInv' /\ Logged \subseteq Logged'
  <2>1. UNCHANGED stratum
    BY <1>5 DEF Appear, Turn, Resubmit, Confirm
  <2>2. CASE Resubmit(b)
    <3>1. shares \in Share
      BY <2>2, RoundsAssumption DEF Resubmit, Found, OrderInv, Share, Block
    <3>2. Now \in Nat
      BY <3>1, RoundsAssumption DEF Now
    <3>3. cands' = [cands EXCEPT ![b].at = Now]
      BY <2>2 DEF Resubmit
    <3>4. cands' \in [Block -> [status : Status, at : Nat]]
      BY <3>2, <3>3 DEF OrderInv
    <3> QED
      BY <2>1, <3>4 DEF OrderInv, KnownLines, Logged, Readable, stratum
  <2>3. CASE Appear(b) \/ Turn(b) \/ Confirm(b)
    <3>1. \E x \in Status : cands' = [cands EXCEPT ![b].status = x]
      BY <2>3 DEF Appear, Turn, Confirm, Status
    <3>2. cands' \in [Block -> [status : Status, at : Nat]]
      BY <3>1 DEF OrderInv
    <3> QED
      BY <2>1, <3>2 DEF OrderInv, KnownLines, Logged, Readable, stratum
  <2> QED
    BY <1>5, <2>2, <2>3
<1>6. [\/ Submit \/ Restart \/ \E r \in flying : Write(r)
       \/ \E b \in Block : Appear(b) \/ Turn(b) \/ Resubmit(b) \/ Confirm(b)]_<<stratum, cands>>
  BY DEF Next, vars, Pay, Track, Die, ReadLedger, ReadInputs, AppendRecord, Conflict,
         Truncate, Save
<1> QED
  BY <1>1, <1>2, <1>3, <1>4, <1>5, <1>6

-----------------------------------------------------------------------------
(* Verified rounds *)

\* What the log has proved stays proved: it only grows.
LEMMA WholeStays ==
  ASSUME Logged \subseteq Logged', NEW division, NEW c, Whole(division, c)
  PROVE  Whole(division, c)'
BY DEF Whole

\* The invariant: records and rounds are whole wherever they are, in the files or
\* in a tracker's hand.
LEMMA WholeStep == OrderInv /\ WholeInv /\ [Next]_vars => WholeInv'
<1> SUFFICES ASSUME OrderInv, WholeInv, [Next]_vars PROVE WholeInv'
  OBVIOUS
<1>1. /\ \A r : WholeRecord(r) => WholeRecord(r)'
      /\ \A r : WholeRound(r) => WholeRound(r)'
      /\ \A t : WholeHand(t) => WholeHand(t)'
  BY OrderStep, WholeStays DEF WholeRecord, WholeRound, WholeHand
<1>a. /\ \A b \in Block : WholeRound(NoRounds[b])
      /\ DOMAIN NoRounds = Block
  BY DEF NoRounds, NoRound, WholeRound
<1>b. WholeHand(Idle)
  BY <1>a DEF Idle, WholeHand
<1>c. ASSUME NEW p \in Tracker, NEW t, WholeHand(t), Update(p, t), UNCHANGED <<ledger, rounds>>
      PROVE  WholeInv'
  <2>1. \A q \in Tracker : tracker'[q] = IF q = p THEN t ELSE tracker[q]
    BY <1>c DEF Update, WholeInv
  <2>2. DOMAIN tracker' = Tracker
    BY <1>c DEF Update, WholeInv
  <2>3. \A q \in Tracker : WholeHand(tracker'[q])
    BY <1>c, <2>1 DEF WholeInv
  <2> QED
    BY <1>1, <1>c, <2>2, <2>3 DEF WholeInv
<1>2. CASE UNCHANGED <<ledger, rounds, tracker>>
  BY <1>1, <1>2 DEF WholeInv
<1>3. ASSUME NEW p \in Tracker, ReadLedger(p) PROVE WholeInv'
  <2> DEFINE t == [Idle EXCEPT !.pc = "read", !.ledger = ledger]
  <2>1. /\ DOMAIN t = {"pc", "ledger", "new", "out"}
        /\ t.ledger = ledger /\ t.new = {} /\ t.out = NoRounds
    BY DEF Idle
  <2>2. WholeHand(t)
    BY <1>a, <2>1 DEF WholeInv, WholeHand
  <2> QED
    BY <1>3, <1>c, <2>2 DEF ReadLedger
<1>4. ASSUME NEW p \in Tracker, ReadInputs(p) PROVE WholeInv'
  <2> DEFINE outcome == [b \in Listed(cands) |-> Outcome(tracker[p].ledger, b)]
             new == UNION {outcome[b].new : b \in Listed(cands)}
             out == [b \in Block |-> IF b \in Listed(cands) THEN outcome[b].out ELSE NoRound]
             t == [Idle EXCEPT !.pc = "append", !.new = new, !.out = out]
  <2>1. /\ DOMAIN t = {"pc", "ledger", "new", "out"}
        /\ t.ledger = {} /\ t.new = new /\ t.out = out
    BY DEF Idle
  <2>2. \A r \in tracker[p].ledger : WholeRecord(r)
    BY DEF WholeInv, WholeHand
  <2>3. \A b \in Listed(cands) : /\ \A r \in outcome[b].new : WholeRecord(r)
                                 /\ WholeRound(outcome[b].out)
    BY <2>2, OutcomeIsWhole DEF Listed, WholeInv
  <2>4. WholeRound(NoRound)
    BY DEF NoRound, WholeRound
  <2> HIDE DEF outcome
  <2>5. WholeHand(t)
    BY <2>1, <2>3, <2>4 DEF WholeHand
  <2>6. Update(p, t) /\ UNCHANGED <<ledger, rounds>>
    BY <1>4 DEF ReadInputs, outcome
  <2> QED
    BY <1>c, <2>5, <2>6
<1>5. ASSUME NEW p \in Tracker, AppendRecord(p) PROVE WholeInv'
  <2>1. PICK r \in Pending(p) : /\ ledger' \subseteq ledger \cup {r}
                                /\ Update(p, [tracker[p] EXCEPT !.new = @ \ {r}])
    BY <1>5 DEF AppendRecord
  <2> DEFINE t == [tracker[p] EXCEPT !.new = @ \ {r}]
  <2>2. WholeHand(tracker[p]) /\ r \in tracker[p].new
    BY <2>1 DEF WholeInv, Pending
  <2>3. DOMAIN t = DOMAIN tracker[p] /\ t.ledger = tracker[p].ledger /\ t.out = tracker[p].out
        /\ t.new \subseteq tracker[p].new
    BY <2>2 DEF WholeHand
  <2> HIDE DEF t
  <2>4. WholeHand(t)
    BY <2>2, <2>3 DEF WholeHand
  <2>5. \A x \in ledger' : WholeRecord(x)
    BY <2>1, <2>2 DEF WholeInv, WholeHand
  <2>6. DOMAIN tracker' = Tracker /\ \A q \in Tracker : WholeHand(tracker'[q])
    BY <2>1, <2>4 DEF Update, WholeInv, t
  <2> QED
    BY <1>1, <1>5, <2>5, <2>6 DEF WholeInv, AppendRecord
<1>6. ASSUME NEW p \in Tracker, Truncate(p) PROVE WholeInv'
  <2> DEFINE t == [tracker[p] EXCEPT !.pc = "write"]
  <2>1. Update(p, t) /\ rounds' = NoRounds /\ ledger' = ledger
    BY <1>6 DEF Truncate
  <2>2. WholeHand(tracker[p])
    BY DEF WholeInv
  <2>3. DOMAIN t = DOMAIN tracker[p] /\ t.ledger = tracker[p].ledger /\ t.out = tracker[p].out
        /\ t.new = tracker[p].new
    BY <2>2 DEF WholeHand
  <2> HIDE DEF t
  <2>4. WholeHand(t)
    BY <2>2, <2>3 DEF WholeHand
  <2>5. DOMAIN tracker' = Tracker /\ \A q \in Tracker : WholeHand(tracker'[q])
    BY <2>1, <2>4 DEF Update, WholeInv
  <2> QED
    BY <1>1, <1>a, <2>1, <2>5 DEF WholeInv
<1>7. ASSUME NEW p \in Tracker, Save(p) PROVE WholeInv'
  <2>1. Update(p, Idle) /\ rounds' = tracker[p].out /\ ledger' = ledger
    BY <1>7 DEF Save
  <2>2. DOMAIN rounds' = Block /\ \A b \in Block : WholeRound(rounds'[b])
    BY <2>1 DEF WholeInv, WholeHand
  <2>3. DOMAIN tracker' = Tracker /\ \A q \in Tracker : WholeHand(tracker'[q])
    BY <1>b, <2>1 DEF Update, WholeInv
  <2> QED
    BY <1>1, <2>1, <2>2, <2>3 DEF WholeInv
<1>8. ASSUME NEW p \in Tracker, Conflict(p) \/ Die(p) PROVE WholeInv'
  BY <1>8, <1>b, <1>c DEF Conflict, Die
<1>9. [\E p \in Tracker : Track(p) \/ Die(p)]_<<ledger, rounds, tracker>>
  BY DEF Next, vars, stratum, Submit, Restart, Write, Appear, Turn, Resubmit, Confirm, Pay
<1> QED
  BY <1>2, <1>3, <1>4, <1>5, <1>6, <1>7, <1>8, <1>9 DEF Track

\* The log of the start.
LEMMA StartHolds == Init => OrderInv /\ WholeInv
<1> SUFFICES ASSUME Init PROVE OrderInv /\ WholeInv
  OBVIOUS
<1> USE DEF Init
<1>1. WholeInv
  BY DEF WholeInv, WholeHand, WholeRound, NoRounds, NoRound, Idle
<1>2. Start \in Nat /\ Start <= MaxShares /\ 1 .. Start \subseteq Share /\ Share \subseteq Nat
  BY RoundsAssumption DEF Share
<1>3. /\ log = [i \in 1 .. Start |-> [seq |-> i, at |-> SubmitTime[i], share |-> i]]
      /\ \A i \in 1 .. Start : SubmitTime[i] \in Nat
  BY <1>2, RoundsAssumption DEF Written
<1>4. log \in Seq([seq : Nat, at : Nat, share : Nat])
  BY <1>2, <1>3
<1>5. KnownLines \subseteq {[seq |-> i, at |-> SubmitTime[i], share |-> i] : i \in 1 .. Start}
  BY <1>3 DEF KnownLines, Logged, Readable
<1>6. cands \in [Block -> [status : Status, at : Nat]]
  BY RoundsAssumption DEF Confirmed, Status, Block
<1>7. \A r \in KnownLines : /\ r \in [seq : Nat, at : Nat, share : Nat] /\ r.seq = r.share
                            /\ r.share \in 1 .. Start /\ r.at = SubmitTime[r.share]
  BY <1>2, <1>3, <1>5
<1> QED
  BY <1>1, <1>2, <1>4, <1>6, <1>7 DEF OrderInv

\* A line written later is not of a time between two lines whose numbers, and all
\* between them, are in the log.
LEMMA WholeIsComplete ==
  ASSUME OrderInv, NEW division, NEW c, Whole(division, c)
  PROVE  LET due == {r \in Logged : r.share \in Counted /\ c.window.start < r.at}
         IN /\ {r.share : r \in {x \in due : x.at < c.window.end}} \subseteq division
            /\ division \subseteq {r.share : r \in {x \in due : x.at <= c.window.end}}
<1> DEFINE w == c.window
<1>1. ASSUME NEW r \in Logged, r.share \in Counted, w.start < r.at, r.at < w.end
      PROVE  r.share \in division
  <2>1. PICK i \in Logged, k \in Logged :
          i.seq = c.first /\ i.at <= w.start /\ k.seq = c.last /\ w.end <= k.at
    BY DEF Whole
  <2>2. w.start \in Nat /\ w.end \in Nat
    BY DEF Whole
  <2>3. \A x \in {i, k, r} : /\ x \in KnownLines /\ x.seq \in Nat /\ x.at \in Nat
                             /\ x.share \in Share /\ x.at = SubmitTime[x.share]
    BY <2>1 DEF OrderInv, KnownLines
  <2>4. i.at < r.at /\ r.at < k.at
    BY <1>1, <2>1, <2>2, <2>3
  <2>5. ~(r.share <= i.share) /\ ~(k.share <= r.share)
    BY <2>3, <2>4, RoundsAssumption
  <2>6. ~(r.seq <= i.seq) /\ ~(k.seq <= r.seq)
    BY <2>3, <2>5 DEF OrderInv
  <2>7. r.seq \in c.first .. c.last
    BY <2>1, <2>3, <2>6
  <2>8. PICK s \in Logged : s.seq = r.seq /\ (Due(s, w) => s.share \in division)
    BY <2>7 DEF Whole
  <2>9. s \in KnownLines /\ s.seq \in Nat /\ s.share \in Nat /\ r.share \in Nat
        /\ s.at = SubmitTime[s.share]
    BY <2>3 DEF OrderInv, KnownLines, Share
  <2>10. s.share = r.share
    BY <2>3, <2>8, <2>9 DEF OrderInv
  <2> QED
    BY <1>1, <2>2, <2>3, <2>8, <2>9, <2>10 DEF Due
<1>2. ASSUME NEW x \in division
      PROVE  \E r \in Logged : r.share = x /\ Due(r, w)
  BY DEF Whole
<1> QED
  BY <1>1, <1>2 DEF Due

\* A verified round has every share logged for its window before its block's second,
\* and none of another time (make_window_coverage, saved_window_coverage_is_valid).
THEOREM VerifiedIsTheWindow == Spec => []VerifiedIsComplete
<1>1. Init => OrderInv /\ WholeInv
  BY StartHolds
<1>2. OrderInv /\ WholeInv /\ [Next]_vars => (OrderInv /\ WholeInv)'
  BY OrderStep, WholeStep
<1>3. OrderInv /\ WholeInv => VerifiedIsComplete
  BY WholeIsComplete DEF WholeInv, WholeRound, VerifiedIsComplete
<1> QED
  BY <1>1, <1>2, <1>3, PTL DEF Spec

-----------------------------------------------------------------------------
(* The shape of the files *)

\* accepted-candidates.json.
Candidates == [Block -> [status : Status, at : Nat]]

\* A set of numbers has a least one.
LEMMA LeastNumber ==
  ASSUME NEW S, S \subseteq Nat, S # {}
  PROVE  \E m \in S : \A n \in S : m <= n
<1> DEFINE R == {ss \in Nat \X Nat : ss[1] < ss[2]}
<1>1. IsWellFoundedOn(R, Nat)
  BY NatLessThanWellFounded DEF OpToRel
<1>2. PICK m \in S : \A n \in S : ~(<<n, m>> \in R)
  <2> HIDE DEF R
  <2> QED BY <1>1, WFMin
<1>3. ASSUME NEW n \in S PROVE m <= n
  <2>1. <<n, m>> \in Nat \X Nat /\ <<n, m>>[1] = n /\ <<n, m>>[2] = m
    BY <1>3
  <2>2. ~(n < m)
    BY <1>2, <2>1
  <2> QED BY <2>2
<1> QED BY <1>3

\* The last of a set of blocks, by submit time.
IsLatest(cs, S, c) == c \in S /\ \A d \in S \ {c} : Earlier(cs, d, c)

\* Of blocks whose times are bounded one is the latest.
LEMMA LatestExists ==
  ASSUME NEW cs \in Candidates, NEW S \in SUBSET Block, S # {},
         NEW t \in Nat, \A c \in S : cs[c].at <= t
  PROVE  IsLatest(cs, S, LatestOf(cs, S))
<1>0. \A c \in S : c \in Nat /\ c <= MaxShares /\ cs[c].at \in Nat
  BY RoundsAssumption DEF Candidates, Block, Share
<1>m. MaxShares \in Nat
  BY RoundsAssumption
<1>1. PICK m \in {t - cs[c].at : c \in S} : \A n \in {t - cs[c].at : c \in S} : m <= n
  <2>1. {t - cs[c].at : c \in S} \subseteq Nat
    BY <1>0
  <2> QED BY <2>1, LeastNumber
<1> DEFINE T == {c \in S : t - cs[c].at = m}
<1> DEFINE K == {MaxShares - c : c \in T}
<1>2. PICK k \in K : \A n \in K : k <= n
  <2>1. K \subseteq Nat
    BY <1>0, <1>m
  <2>2. T # {}
    BY <1>1
  <2>3. K # {}
    BY <2>2
  <2> HIDE DEF K
  <2> QED BY <2>1, <2>3, LeastNumber
<1>3. PICK c \in T : MaxShares - c = k
  BY <1>2
<1>4. ASSUME NEW d \in S \ {c} PROVE Earlier(cs, d, c)
  <2>1. t - cs[c].at <= t - cs[d].at
    BY <1>1, <1>3
  <2>2. cs[d].at <= cs[c].at
    BY <1>0, <2>1
  <2>3. CASE cs[d].at = cs[c].at
    <3>1. d \in T
      BY <1>3, <2>3
    <3>2. MaxShares - c <= MaxShares - d
      BY <1>2, <1>3, <3>1
    <3>3. d < c
      BY <1>0, <1>m, <1>3, <3>2
    <3> QED BY <2>3, <3>3 DEF Earlier
  <2>4. CASE cs[d].at # cs[c].at
    BY <1>0, <1>3, <2>2, <2>4 DEF Earlier
  <2> QED BY <2>3, <2>4
<1>5. \E x \in S : \A d \in S \ {x} : Earlier(cs, d, x)
  BY <1>3, <1>4
<1>6. LatestOf(cs, S) = CHOOSE x \in S : \A d \in S \ {x} : Earlier(cs, d, x)
  BY DEF LatestOf
<1> QED BY <1>5, <1>6 DEF IsLatest

\* And only one.
LEMMA LatestIsUnique ==
  ASSUME NEW cs \in Candidates, NEW S \in SUBSET Block, NEW c, NEW d,
         IsLatest(cs, S, c), IsLatest(cs, S, d)
  PROVE  c = d
<1> SUFFICES ASSUME c # d PROVE FALSE
  OBVIOUS
<1>1. c \in Nat /\ d \in Nat /\ cs[c].at \in Nat /\ cs[d].at \in Nat
  BY RoundsAssumption DEF IsLatest, Candidates, Block, Share
<1>2. Earlier(cs, c, d) /\ Earlier(cs, d, c)
  BY DEF IsLatest
<1> QED BY <1>1, <1>2 DEF Earlier

\* What is before a block is not later.
LEMMA BeforeIsBounded ==
  ASSUME NEW cs \in Candidates, NEW b \in Block
  PROVE  /\ cs[b].at \in Nat /\ Before(cs, b) \in SUBSET Block
         /\ \A c \in Before(cs, b) : cs[c].at <= cs[b].at
<1>1. \A c \in Block : cs[c].at \in Nat
  BY DEF Candidates
<1> QED BY <1>1 DEF Before, Listed, Earlier

\* The blocks a window names.
LEMMA WindowHasBlocks ==
  ASSUME NEW cs \in Candidates, NEW b \in Block
  PROVE  /\ WindowOf(cs, b).from \in Block \cup {NoBlock}
         /\ WindowOf(cs, b).prev \in Block \cup {NoBlock}
<1> DEFINE S == Before(cs, b)
           R == {c \in S : cs[c].status # "orphan"}
<1>1. S \in SUBSET Block /\ R \in SUBSET Block
  BY BeforeIsBounded
<1>2. S # {} => LatestOf(cs, S) \in Block
  BY <1>1, BeforeIsBounded, LatestExists DEF IsLatest
<1>3. R # {} => LatestOf(cs, R) \in Block
  <2>1. cs[b].at \in Nat /\ \A c \in R : cs[c].at <= cs[b].at
    BY BeforeIsBounded
  <2> HIDE DEF R
  <2> QED BY <1>1, <2>1, LatestExists DEF IsLatest
<1>4. LatestOf(cs, S) \in Block \cup {NoBlock} /\ LatestOf(cs, R) \in Block \cup {NoBlock}
  <2> HIDE DEF S, R
  <2> QED BY <1>2, <1>3 DEF LatestOf
<1> QED BY <1>4 DEF WindowOf, Boundary

\* What a tracker has in hand.
Hand == [pc : {"idle", "read", "append", "write"}, ledger : SUBSET Record,
         new : SUBSET Record, out : [Block -> Round]]

\* A round is verified by the coverage it names.
Proved(r) == r.verified <=> r.coverage # NoCoverage

\* Numbers, lines and candidates.
LogInv ==
  /\ shares \in 0 .. MaxShares /\ seq \in 0 .. shares
  /\ flying \subseteq Line /\ log \in Seq(Line) /\ torn \in BOOLEAN
  /\ cands \in [Block -> [status : Status, at : Time]]

\* The ledger, the snapshot and what the trackers have in hand.
ShapeInv ==
  /\ ledger \subseteq Record /\ ragged \in BOOLEAN
  /\ rounds \in [Block -> Round] /\ \A b \in Block : Proved(rounds[b])
  /\ tracker \in [Tracker -> Hand]
  /\ \A p \in Tracker, b \in Block : Proved(tracker[p].out[b])
  /\ \A q \in paid : q.block \in Block /\ q.shares \subseteq Share

\* Submit times, and the beginning of a window that has no block before it.
LEMMA TimesAreTimes == Time \subseteq Nat /\ 0 \in Time /\ \A s \in Share : SubmitTime[s] \in Time
BY RoundsAssumption DEF Time, Range

\* The listed blocks and when they were submitted.
LEMMA CandidatesAreTimed ==
  ASSUME LogInv
  PROVE  /\ cands \in Candidates
         /\ \A b \in Block : cands[b].status \in Status /\ cands[b].at \in Time
BY TimesAreTimes DEF LogInv, Candidates

\* The window of a block is one.
LEMMA WindowIsWindow ==
  ASSUME LogInv, NEW b \in Block
  PROVE  WindowOf(cands, b) \in Window
<1> DEFINE from == WindowOf(cands, b).from
<1>1. /\ WindowOf(cands, b).from \in Block \cup {NoBlock}
      /\ WindowOf(cands, b).prev \in Block \cup {NoBlock}
  BY CandidatesAreTimed, WindowHasBlocks
<1>2. WindowOf(cands, b) =
        [from |-> WindowOf(cands, b).from, prev |-> WindowOf(cands, b).prev,
         start |-> IF from \in Block THEN cands[from].at ELSE 0, end |-> cands[b].at]
  BY DEF WindowOf
<1>3. (IF from \in Block THEN cands[from].at ELSE 0) \in Time /\ cands[b].at \in Time
  BY CandidatesAreTimed, TimesAreTimes
<1> HIDE DEF from
<1> QED BY <1>1, <1>2, <1>3 DEF Window

\* The shares the lines attribute are shares, and what covers them is a coverage.
LEMMA LinesAreTyped ==
  ASSUME OrderInv, LogInv, NEW w \in Window
  PROVE  /\ SharesIn(LastOf(log), w) \in SUBSET Share
         /\ CoveragesOf(LastOf(log), w) \subseteq Coverage
<1>1. \A i \in Readable(LastOf(log)) : LastOf(log)[i].seq \in Nat
  BY ReadIsLogged
<1>2. SharesIn(LastOf(log), w) \in SUBSET Share
  BY RoundsAssumption DEF SharesIn, Countable
<1>3. ASSUME NEW c \in CoveragesOf(LastOf(log), w) PROVE c \in Coverage
  <2>1. PICK i \in FirstLines(LastOf(log), w), k \in LastLines(LastOf(log), w) :
          c = [window |-> w, first |-> LastOf(log)[i].seq, last |-> LastOf(log)[k].seq]
    BY DEF CoveragesOf
  <2>2. i \in Readable(LastOf(log)) /\ k \in Readable(LastOf(log))
    BY DEF FirstLines, LastLines
  <2> QED BY <1>1, <2>1, <2>2 DEF Coverage
<1> QED BY <1>2, <1>3

\* A coverage names its window, none does not.
LEMMA CoverageIsNotNone == NoCoverage \notin Coverage
<1> SUFFICES ASSUME NoCoverage \in Coverage PROVE FALSE
  OBVIOUS
<1>1. DOMAIN NoCoverage = {"window", "first", "last"}
  BY DEF Coverage
<1>2. DOMAIN NoCoverage = {"first", "last"}
  BY DEF NoCoverage
<1> QED BY <1>1, <1>2

\* What a tracker makes of a block has its shape.
LEMMA OutcomeIsTyped ==
  ASSUME OrderInv, LogInv, NEW b \in Block, rounds[b] \in Round, Proved(rounds[b]),
         NEW known \in SUBSET Record
  PROVE  /\ Outcome(known, b).new \in SUBSET Record
         /\ Outcome(known, b).out \in Round /\ Proved(Outcome(known, b).out)
<1> DEFINE w == WindowOf(cands, b)
           lines == LastOf(log)
           old == rounds[b]
           mine == RecordsFor(known, b)
           new == IF mine = {} THEN NewRecords(b, w, old, lines) ELSE {}
           division == IF mine \cup new = {} THEN Unproved(w, old, lines)
                       ELSE Recorded(CHOOSE r \in mine \cup new : TRUE, w, old, lines)
<1>1. /\ w \in Window /\ SharesIn(lines, w) \in SUBSET Share
      /\ CoveragesOf(lines, w) \subseteq Coverage
  BY WindowIsWindow, LinesAreTyped
<1>2. /\ old.shares \in SUBSET Share /\ old.coverage \in Coverage \cup {NoCoverage}
  BY DEF Round
<1>3. StillValid(old.coverage, w) => old.coverage \in Coverage
  BY <1>2 DEF StillValid
<1> HIDE DEF w, lines, old
<1>4. NewRecords(b, w, old, lines) \in SUBSET Record
  <2>1. CASE Valid(old.shares) /\ StillValid(old.coverage, w)
    BY <1>2, <1>3, <2>1 DEF NewRecords, Record
  <2>2. CASE ~(Valid(old.shares) /\ StillValid(old.coverage, w))
    BY <1>1, <2>2 DEF NewRecords, Record
  <2> QED BY <2>1, <2>2
<1>5. mine \in SUBSET Record /\ new \in SUBSET Record
  BY <1>4 DEF RecordsFor
<1>6. /\ division.shares \in SUBSET Share /\ division.verified \in BOOLEAN
      /\ division.coverage \in Coverage \cup {NoCoverage}
      /\ division.verified <=> division.coverage # NoCoverage
  <2>1. CASE mine \cup new = {}
    BY <1>1, <1>2, <2>1 DEF Unproved
  <2>2. CASE mine \cup new # {}
    <3>1. PICK r \in Record : r = CHOOSE x \in mine \cup new : TRUE
      BY <1>5, <2>2
    <3> DEFINE now == IF SharesIn(lines, w) = r.shares THEN CoveragesOf(lines, w) ELSE {}
               saved == {r.coverage} \cup IF old.shares = r.shares THEN {old.coverage} ELSE {}
               proofs == now \cup {c \in saved : StillValid(c, w)}
    <3>2. division = [shares |-> r.shares, verified |-> proofs # {},
             coverage |-> CASE now # {} -> CHOOSE c \in now : TRUE
                            [] now = {} /\ proofs # {} ->
                                 IF r.coverage \in proofs THEN r.coverage ELSE old.coverage
                            [] proofs = {} -> NoCoverage]
      <4>1. division = Recorded(r, w, old, lines)
        BY <2>2, <3>1
      <4> QED BY <4>1 DEF Recorded
    <3>3. r.shares \in SUBSET Share /\ r.coverage \in Coverage
      BY DEF Record
    <3>4. proofs \subseteq Coverage
      BY <1>1, <1>3, <3>3
    <3>5. now \subseteq proofs /\ proofs \subseteq now \cup {r.coverage, old.coverage}
      OBVIOUS
    <3> HIDE DEF now, saved, proofs, division, mine, new
    <3>6. CASE now # {}
      BY <3>2, <3>3, <3>4, <3>5, <3>6, CoverageIsNotNone
    <3>7. CASE now = {} /\ proofs # {}
      BY <3>2, <3>3, <3>4, <3>5, <3>7, CoverageIsNotNone
    <3>8. CASE proofs = {}
      BY <3>2, <3>3, <3>5, <3>8
    <3> QED BY <3>6, <3>7, <3>8
  <2> QED BY <2>1, <2>2
<1>7. /\ Outcome(known, b).new = new
      /\ Outcome(known, b).out = [status |-> cands[b].status, at |-> cands[b].at,
           shares |-> division.shares, verified |-> division.verified,
           coverage |-> division.coverage]
  BY DEF Outcome, w, lines, old
<1>8. cands[b].status \in Status /\ cands[b].at \in Time
  BY CandidatesAreTimed
<1> HIDE DEF mine, new, division
<1> QED BY <1>5, <1>6, <1>7, <1>8 DEF Round, Proved

\* Lines, numbers and candidates.
LEMMA LogStep == LogInv /\ [Next]_vars => LogInv'
<1> SUFFICES ASSUME LogInv, [Next]_vars PROVE LogInv'
  OBVIOUS
<1>0. MaxShares \in Nat /\ shares \in Nat /\ seq \in Nat /\ shares <= MaxShares /\ seq <= shares
  BY RoundsAssumption DEF LogInv
<1>1. CASE UNCHANGED <<stratum, cands>>
  BY <1>1 DEF LogInv, stratum
<1>2. CASE Submit
  <2>1. /\ shares < MaxShares /\ shares' = shares + 1 /\ seq' = seq + 1
        /\ UNCHANGED <<log, torn, cands>>
        /\ flying' = flying \cup
             {[seq |-> seq + 1, at |-> SubmitTime[shares + 1], share |-> shares + 1]}
    BY <1>2 DEF Submit
  <2>2. shares + 1 \in Share /\ shares + 1 \in 0 .. MaxShares
    BY <1>0, <2>1 DEF Share
  <2>3. [seq |-> seq + 1, at |-> SubmitTime[shares + 1], share |-> shares + 1] \in Line
    BY <1>0, <2>2, TimesAreTimes DEF Line
  <2>4. flying' \subseteq Line
    BY <2>1, <2>3 DEF LogInv
  <2>5. shares' \in 0 .. MaxShares /\ seq' \in 0 .. shares'
    BY <1>0, <2>1
  <2> QED BY <2>1, <2>4, <2>5 DEF LogInv
<1>a. ASSUME NEW r \in Line PROVE Append(log, r) \in Seq(Line)
  <2>1. log \in Seq(Line)
    BY DEF LogInv
  <2> HIDE DEF LogInv
  <2> QED BY <2>1, AppendProperties
<1>3. ASSUME NEW r \in flying, Write(r) PROVE LogInv'
  <2>1. r \in Line /\ log \in Seq(Line)
    BY DEF LogInv
  <2>2. log' \in Seq(Line)
    <3>1. log' = log \/ log' = Append(log, r)
      BY <1>3, Zenon DEF Write
    <3> QED BY <1>a, <2>1, <3>1
  <2>3. flying' \subseteq flying /\ torn' = FALSE /\ UNCHANGED <<shares, seq, cands>>
    BY <1>3 DEF Write
  <2> QED BY <2>2, <2>3 DEF LogInv
<1>4. CASE Restart
  <2>1. Unreadable \in Line
    BY <1>0, TimesAreTimes DEF Unreadable, Line
  <2>2. flying' = {} /\ log' \in Seq(Line) /\ torn' \in BOOLEAN /\ UNCHANGED <<shares, cands>>
    <3>1. \/ log' = log /\ torn' = torn
          \/ log' = Append(log, Unreadable) /\ torn' = TRUE
      BY <1>4, Zenon DEF Restart
    <3>2. log \in Seq(Line) /\ torn \in BOOLEAN
      BY DEF LogInv
    <3> QED BY <1>4, <1>a, <2>1, <3>1, <3>2, Zenon DEF Restart
  <2>3. seq' \in 0 .. shares
    BY <1>0, <1>4 DEF Restart
  <2> QED BY <2>2, <2>3 DEF LogInv
<1>5. ASSUME NEW b \in Block, Appear(b) \/ Turn(b) \/ Resubmit(b) \/ Confirm(b)
      PROVE  LogInv'
  <2>1. UNCHANGED stratum
    BY <1>5 DEF Appear, Turn, Resubmit, Confirm
  <2>2. CASE Resubmit(b)
    <3>1. shares \in Share
      BY <1>0, <2>2, RoundsAssumption DEF Resubmit, Found, Share, Block
    <3>2. Now \in Time
      BY <3>1, TimesAreTimes DEF Now
    <3>3. cands' = [cands EXCEPT ![b].at = Now]
      BY <2>2 DEF Resubmit
    <3> QED
      BY <2>1, <3>2, <3>3 DEF LogInv, stratum
  <2>3. CASE Appear(b) \/ Turn(b) \/ Confirm(b)
    <3>1. \E x \in Status : cands' = [cands EXCEPT ![b].status = x]
      BY <2>3 DEF Appear, Turn, Confirm, Status
    <3> QED
      BY <2>1, <3>1 DEF LogInv, stratum
  <2> QED
    BY <1>5, <2>2, <2>3
<1>6. [\/ Submit \/ Restart \/ \E r \in flying : Write(r)
       \/ \E b \in Block : Appear(b) \/ Turn(b) \/ Resubmit(b) \/ Confirm(b)]_<<stratum, cands>>
  BY DEF Next, vars, Pay, Track, Die, ReadLedger, ReadInputs, AppendRecord, Conflict,
         Truncate, Save
<1> QED
  BY <1>1, <1>2, <1>3, <1>4, <1>5, <1>6

\* Ledger, snapshot, what the trackers have in hand, and what was paid.
LEMMA ShapeStep == OrderInv /\ LogInv /\ ShapeInv /\ [Next]_vars => ShapeInv'
<1> SUFFICES ASSUME OrderInv, LogInv, ShapeInv, [Next]_vars PROVE ShapeInv'
  OBVIOUS
<1>a. NoRound \in Round /\ Proved(NoRound)
  BY TimesAreTimes DEF NoRound, Round, Status, Proved
<1>b. NoRounds \in [Block -> Round] /\ \A b \in Block : Proved(NoRounds[b])
  BY <1>a DEF NoRounds
<1>c. Idle \in Hand /\ Idle.out = NoRounds
  BY <1>b DEF Idle, Hand
<1>d. ASSUME NEW p \in Tracker, NEW t \in Hand, Update(p, t), \A b \in Block : Proved(t.out[b])
      PROVE  tracker' \in [Tracker -> Hand] /\ \A q \in Tracker, b \in Block : Proved(tracker'[q].out[b])
  BY <1>d DEF Update, ShapeInv
<1>e. ASSUME NEW p \in Tracker, NEW t \in Hand, Update(p, t), \A b \in Block : Proved(t.out[b]),
             UNCHANGED <<ledger, ragged, rounds, paid>>
      PROVE  ShapeInv'
  BY <1>d, <1>e DEF ShapeInv
<1>1. CASE UNCHANGED <<ledger, ragged, rounds, tracker, paid>>
  BY <1>1 DEF ShapeInv
<1>2. ASSUME NEW b \in Block, Pay(b) PROVE ShapeInv'
  <2>1. rounds[b].shares \subseteq Share
    BY DEF ShapeInv, Round
  <2>2. /\ UNCHANGED <<ledger, ragged, rounds, tracker>>
        /\ paid' = paid \cup {[block |-> b, shares |-> rounds[b].shares]}
    BY <1>2 DEF Pay
  <2>3. \A q \in paid' : q.block \in Block /\ q.shares \subseteq Share
    BY <2>1, <2>2 DEF ShapeInv
  <2> QED BY <2>2, <2>3 DEF ShapeInv
<1>3. ASSUME NEW p \in Tracker, ReadLedger(p) PROVE ShapeInv'
  <2> DEFINE t == [Idle EXCEPT !.pc = "read", !.ledger = ledger]
  <2>1. t \in Hand /\ t.out = NoRounds
    BY <1>c DEF Hand, ShapeInv
  <2>2. Update(p, t) /\ UNCHANGED <<ledger, ragged, rounds, paid>>
    BY <1>3 DEF ReadLedger
  <2> HIDE DEF t
  <2> QED BY <1>b, <1>e, <2>1, <2>2
<1>4. ASSUME NEW p \in Tracker, ReadInputs(p) PROVE ShapeInv'
  <2> DEFINE outcome == [b \in Listed(cands) |-> Outcome(tracker[p].ledger, b)]
             new == UNION {outcome[b].new : b \in Listed(cands)}
             out == [b \in Block |-> IF b \in Listed(cands) THEN outcome[b].out ELSE NoRound]
             t == [Idle EXCEPT !.pc = "append", !.new = new, !.out = out]
  <2>1. tracker[p].ledger \in SUBSET Record
    BY DEF ShapeInv, Hand
  <2>2. \A b \in Listed(cands) : /\ outcome[b].new \in SUBSET Record
                                 /\ outcome[b].out \in Round /\ Proved(outcome[b].out)
    BY <2>1, OutcomeIsTyped DEF Listed, ShapeInv
  <2>3. Update(p, t) /\ UNCHANGED <<ledger, ragged, rounds, paid>>
    BY <1>4 DEF ReadInputs
  <2> HIDE DEF outcome
  <2>4. /\ new \in SUBSET Record /\ out \in [Block -> Round]
        /\ \A b \in Block : Proved(out[b])
    BY <1>a, <2>2
  <2> HIDE DEF new, out
  <2>5. t \in Hand /\ t.out = out
    BY <1>c, <2>4 DEF Hand
  <2> HIDE DEF t
  <2> QED BY <1>e, <2>3, <2>4, <2>5
<1>5. ASSUME NEW p \in Tracker, AppendRecord(p) PROVE ShapeInv'
  <2>1. PICK r \in Pending(p) : /\ ledger' \subseteq ledger \cup {r} /\ ragged' \in BOOLEAN
                                /\ Update(p, [tracker[p] EXCEPT !.new = @ \ {r}])
    BY <1>5 DEF AppendRecord, ShapeInv
  <2> DEFINE t == [tracker[p] EXCEPT !.new = @ \ {r}]
  <2>2. tracker[p] \in Hand /\ r \in tracker[p].new
    BY <2>1 DEF ShapeInv, Pending
  <2>3. t \in Hand /\ t.out = tracker[p].out /\ r \in Record
    BY <2>2 DEF Hand
  <2>4. UNCHANGED <<rounds, paid>> /\ Update(p, t)
    BY <1>5, <2>1 DEF AppendRecord
  <2> HIDE DEF t
  <2>5. \A b \in Block : Proved(t.out[b])
    BY <2>3 DEF ShapeInv
  <2> QED BY <1>d, <2>1, <2>3, <2>4, <2>5 DEF ShapeInv
<1>6. ASSUME NEW p \in Tracker, Truncate(p) PROVE ShapeInv'
  <2> DEFINE t == [tracker[p] EXCEPT !.pc = "write"]
  <2>1. Update(p, t) /\ rounds' = NoRounds /\ UNCHANGED <<ledger, ragged, paid>>
    BY <1>6 DEF Truncate
  <2>2. t \in Hand /\ t.out = tracker[p].out
    BY DEF ShapeInv, Hand
  <2> HIDE DEF t
  <2>3. \A b \in Block : Proved(t.out[b])
    BY <2>2 DEF ShapeInv
  <2> QED BY <1>b, <1>d, <2>1, <2>2, <2>3 DEF ShapeInv
<1>7. ASSUME NEW p \in Tracker, Save(p) PROVE ShapeInv'
  <2>1. Update(p, Idle) /\ rounds' = tracker[p].out /\ UNCHANGED <<ledger, ragged, paid>>
    BY <1>7 DEF Save
  <2>2. rounds' \in [Block -> Round] /\ \A b \in Block : Proved(rounds'[b])
    BY <2>1 DEF ShapeInv, Hand
  <2> QED BY <1>b, <1>c, <1>d, <2>1, <2>2 DEF ShapeInv
<1>8. ASSUME NEW p \in Tracker, Conflict(p) \/ Die(p) PROVE ShapeInv'
  <2>1. Update(p, Idle) /\ UNCHANGED <<ledger, rounds, paid>> /\ ragged' \in BOOLEAN
    BY <1>8 DEF Conflict, Die, Free, ShapeInv
  <2> QED BY <1>b, <1>c, <1>d, <2>1 DEF ShapeInv
<1>9. [\/ \E b \in Block : Pay(b)
       \/ \E p \in Tracker : Track(p) \/ Die(p)]_<<ledger, ragged, rounds, tracker, paid>>
  BY DEF Next, vars, stratum, Submit, Restart, Write, Appear, Turn, Resubmit, Confirm
<1> QED
  BY <1>1, <1>2, <1>3, <1>4, <1>5, <1>6, <1>7, <1>8, <1>9 DEF Track

\* Empty files and idle trackers.
LEMMA ShapeStarts == Init => LogInv /\ ShapeInv
<1> SUFFICES ASSUME Init PROVE LogInv /\ ShapeInv
  OBVIOUS
<1> USE DEF Init
<1>1. Start \in Nat /\ Start <= MaxShares /\ 1 .. Start \subseteq Share /\ Share \subseteq Nat
      /\ MaxShares \in Nat
  BY RoundsAssumption DEF Share
<1>2. \A i \in 1 .. Start : [seq |-> i, at |-> SubmitTime[i], share |-> i] \in Line
  BY <1>1, TimesAreTimes DEF Line
<1>3. log = [i \in 1 .. Start |-> [seq |-> i, at |-> SubmitTime[i], share |-> i]]
  BY DEF Written
<1>4. log \in Seq(Line)
  BY <1>1, <1>2, <1>3
<1>5. cands \in [Block -> [status : Status, at : Time]]
  BY TimesAreTimes, RoundsAssumption DEF Confirmed, Status, Block
<1>6. LogInv
  <2>1. shares = Start /\ seq = Start /\ flying = {} /\ torn = FALSE
    OBVIOUS
  <2>2. shares \in 0 .. MaxShares /\ seq \in 0 .. shares
    BY <1>1, <2>1
  <2> QED BY ONLY <1>4, <1>5, <2>1, <2>2 DEF LogInv
<1>7. NoRound \in Round /\ Proved(NoRound)
  BY TimesAreTimes DEF NoRound, Round, Status, Proved
<1>8. NoRounds \in [Block -> Round] /\ \A b \in Block : Proved(NoRounds[b])
  BY <1>7 DEF NoRounds
<1>9. Idle \in Hand /\ Idle.out = NoRounds
  BY <1>8 DEF Idle, Hand
<1>10. ShapeInv
  BY <1>8, <1>9 DEF ShapeInv
<1> QED BY <1>6, <1>10

\* The two parts of the type invariant go together.
LEMMA ShapeStays == OrderInv /\ LogInv /\ ShapeInv /\ [Next]_vars => (LogInv /\ ShapeInv)'
BY LogStep, ShapeStep

\* Log, ledger, snapshot and the trackers' copies hold what they can hold, and a round is
\* verified by the coverage it names.
THEOREM TypeCorrect == Spec => []TypeOK
<1>1. Init => OrderInv /\ WholeInv /\ LogInv /\ ShapeInv
  BY StartHolds, ShapeStarts
<1>2. OrderInv /\ WholeInv /\ LogInv /\ ShapeInv /\ [Next]_vars
        => (OrderInv /\ WholeInv /\ LogInv /\ ShapeInv)'
  BY OrderStep, WholeStep, ShapeStays
<1>3. LogInv /\ ShapeInv => TypeOK
  <2> SUFFICES ASSUME LogInv, ShapeInv PROVE TypeOK
    OBVIOUS
  <2>1. seq \in 0 .. MaxShares
    BY RoundsAssumption DEF LogInv
  <2>2. \A b \in Block : rounds[b].verified <=> rounds[b].coverage # NoCoverage
    BY DEF ShapeInv, Proved
  <2>3. \A p \in Tracker :
          /\ tracker[p].pc \in {"idle", "read", "append", "write"}
          /\ tracker[p].ledger \cup tracker[p].new \subseteq Record
          /\ tracker[p].out \in [Block -> Round]
    BY DEF ShapeInv, Hand
  <2> QED BY <2>1, <2>2, <2>3 DEF TypeOK, LogInv, ShapeInv
<1> QED
  BY <1>1, <1>2, <1>3, PTL DEF Spec

-----------------------------------------------------------------------------
(* A share is paid for once *)

\* Two views of the candidates in which the same blocks come before b, at the same
\* times, and the same of them are orphans, give b the same window.
LEMMA WindowsAgree ==
  ASSUME NEW cs \in Candidates, NEW ds \in Candidates, NEW b \in Block,
         Before(cs, b) = Before(ds, b),
         \A c \in Before(cs, b) \cup {b} :
           cs[c].at = ds[c].at /\ (cs[c].status = "orphan" <=> ds[c].status = "orphan")
  PROVE  WindowOf(cs, b) = WindowOf(ds, b)
<1> DEFINE S == Before(cs, b)
           R == {c \in S : cs[c].status # "orphan"}
<1>1. cs[b].at \in Nat /\ S \in SUBSET Block /\ \A c \in S : cs[c].at <= cs[b].at
  BY BeforeIsBounded
<1>2. ASSUME NEW U \in SUBSET S
      PROVE  LatestOf(cs, U) = LatestOf(ds, U) /\ (U # {} => LatestOf(cs, U) \in U)
  <2>1. CASE U = {}
    BY <2>1 DEF LatestOf
  <2>2. CASE U # {}
    <3>1. U \in SUBSET Block /\ \A c \in U : cs[c].at <= cs[b].at /\ ds[c].at <= cs[b].at
      BY <1>1
    <3>2. IsLatest(cs, U, LatestOf(cs, U)) /\ IsLatest(ds, U, LatestOf(ds, U))
      BY <1>1, <2>2, <3>1, LatestExists
    <3>3. IsLatest(ds, U, LatestOf(cs, U))
      BY <3>2 DEF IsLatest, Earlier
    <3> QED BY <3>1, <3>2, <3>3, LatestIsUnique DEF IsLatest
  <2> QED BY <2>1, <2>2
<1>3. R = {c \in Before(ds, b) : ds[c].status # "orphan"} /\ R \in SUBSET S
  OBVIOUS
<1>4. Boundary(cs, b) = Boundary(ds, b)
  BY <1>2, <1>3 DEF Boundary
<1>5. LatestOf(cs, Before(cs, b)) = LatestOf(ds, Before(ds, b))
  BY <1>2
<1> DEFINE from == IF cs[b].status = "orphan" THEN LatestOf(cs, S) ELSE Boundary(cs, b)
<1>6. from \in S \cup {NoBlock}
  BY <1>2, <1>3 DEF Boundary, LatestOf
<1>7. NoBlock \notin Block
  BY RoundsAssumption DEF NoBlock, Block, Share
<1>8. (IF from \in Block THEN cs[from].at ELSE 0) = (IF from \in Block THEN ds[from].at ELSE 0)
  BY <1>6, <1>7
<1>9. from = IF ds[b].status = "orphan" THEN LatestOf(ds, Before(ds, b)) ELSE Boundary(ds, b)
  BY <1>4, <1>5
<1>10. cs[b].at = ds[b].at
  OBVIOUS
<1>11. WindowOf(cs, b) = [from |-> from, prev |-> Boundary(cs, b),
                          start |-> IF from \in Block THEN cs[from].at ELSE 0, end |-> cs[b].at]
  BY DEF WindowOf
<1>12. WindowOf(ds, b) = [from |-> from, prev |-> Boundary(ds, b),
                          start |-> IF from \in Block THEN ds[from].at ELSE 0, end |-> ds[b].at]
  BY <1>9 DEF WindowOf
<1> HIDE DEF from
<1> QED BY <1>4, <1>8, <1>10, <1>11, <1>12

\* The window of a block that is no orphan begins after every such block before it.
LEMMA WindowBeginsAfter ==
  ASSUME NEW cs \in Candidates, NEW b \in Block, cs[b].status # "orphan",
         NEW c \in Before(cs, b), cs[c].status # "orphan"
  PROVE  cs[c].at <= WindowOf(cs, b).start
<1> DEFINE R == {d \in Before(cs, b) : cs[d].status # "orphan"}
           from == LatestOf(cs, R)
<1>1. R \in SUBSET Block /\ c \in R /\ cs[b].at \in Nat /\ \A d \in R : cs[d].at <= cs[b].at
  BY BeforeIsBounded
<1>2. IsLatest(cs, R, from)
  <2> HIDE DEF R
  <2> QED BY <1>1, LatestExists
<1>3. from \in Block /\ cs[from].at \in Nat /\ cs[c].at \in Nat
  BY <1>1, <1>2 DEF IsLatest, Candidates
<1>4. cs[c].at <= cs[from].at
  <2>1. CASE c = from
    BY <1>3, <2>1
  <2>2. CASE c # from
    <3>1. Earlier(cs, c, from)
      BY <1>1, <1>2, <2>2 DEF IsLatest
    <3> QED BY <1>3, <3>1 DEF Earlier
  <2> QED BY <2>1, <2>2
<1>5. WindowOf(cs, b).start = IF from \in Block THEN cs[from].at ELSE 0
  BY DEF WindowOf, Boundary
<1> QED BY <1>3, <1>4, <1>5

\* The candidates a snapshot was computed from.
Shown(rs) == [b \in Block |-> [status |-> rs[b].status, at |-> rs[b].at]]

\* Blocks that are not found are not listed, and no block is of a later time than now.
CandsInv ==
  \A b \in Block : IF b \in Found THEN cands[b].at <= Now
                   ELSE cands[b] = [status |-> "unseen", at |-> SubmitTime[b]]

\* A verified round is that of its block's window among the candidates it was computed
\* from, and of a confirmed block, among the candidates of today.
Agrees(rs) ==
  \A b \in Block :
    /\ rs[b].status # "unseen" => cands[b].status # "unseen"
    /\ rs[b].verified => /\ rs[b].status # "unseen"
                         /\ rs[b].coverage.window = WindowOf(Shown(rs), b)
    /\ rs[b].verified /\ cands[b].status = "confirmed"
         => rs[b].coverage.window = WindowOf(cands, b)

\* What was paid is of the window of a confirmed block.
PaidInv ==
  \A q \in paid :
    /\ q.block \in Block /\ cands[q.block].status = "confirmed"
    /\ \A x \in q.shares : /\ x \in Share
                           /\ WindowOf(cands, q.block).start < SubmitTime[x]
                           /\ SubmitTime[x] <= WindowOf(cands, q.block).end

OnceInv ==
  /\ CandsInv /\ Agrees(rounds) /\ PaidInv
  /\ \A p \in Tracker : /\ Agrees(tracker[p].out)
                        /\ tracker[p].pc = "idle" => tracker[p].out = NoRounds

\* Windows of different confirmed blocks have no time in common.
LEMMA PaidInvImplies ==
  ASSUME OrderInv, PaidInv
  PROVE  PaidOnce
<1> SUFFICES ASSUME NEW q \in paid, NEW u \in paid, q.block # u.block,
                    NEW x \in q.shares, x \in u.shares
             PROVE  FALSE
  BY DEF PaidOnce
<1>1. cands \in Candidates
  BY DEF OrderInv, Candidates
<1>2. ASSUME NEW a \in paid, NEW b \in paid, x \in a.shares, x \in b.shares,
             Earlier(cands, a.block, b.block)
      PROVE  FALSE
  <2>1. /\ a.block \in Block /\ b.block \in Block
        /\ cands[a.block].status = "confirmed" /\ cands[b.block].status = "confirmed"
    BY DEF PaidInv
  <2>2. a.block \in Before(cands, b.block)
    BY <1>2, <2>1 DEF Before, Listed
  <2>3. cands[a.block].at <= WindowOf(cands, b.block).start
    BY <1>1, <2>1, <2>2, WindowBeginsAfter
  <2>4. WindowOf(cands, a.block).end = cands[a.block].at
    BY DEF WindowOf
  <2>5. x \in Share /\ SubmitTime[x] <= cands[a.block].at /\ WindowOf(cands, b.block).start < SubmitTime[x]
    BY <1>2, <2>4 DEF PaidInv
  <2>6. SubmitTime[x] \in Nat /\ cands[a.block].at \in Nat /\ WindowOf(cands, b.block).start \in Nat
    BY <1>1, <2>1, <2>5, WindowHasTimes, RoundsAssumption DEF Candidates
  <2> QED BY <2>3, <2>5, <2>6
<1>3. Earlier(cands, q.block, u.block) \/ Earlier(cands, u.block, q.block)
  <2>1. q.block \in Block /\ u.block \in Block
    BY DEF PaidInv
  <2>2. q.block \in Nat /\ u.block \in Nat /\ cands[q.block].at \in Nat /\ cands[u.block].at \in Nat
    BY <1>1, <2>1, RoundsAssumption DEF Candidates, Block, Share
  <2> QED BY <2>2 DEF Earlier
<1> QED BY <1>2, <1>3

\* Found blocks stay found, and time goes on.
LEMMA CandsStep ==
  ASSUME OrderInv, LogInv, CandsInv, [Next]_vars
  PROVE  CandsInv'
<1>0. shares \in Nat /\ MaxShares \in Nat /\ shares <= MaxShares /\ Block \subseteq Share
      /\ Share \subseteq Nat /\ Share = 1 .. MaxShares
  BY RoundsAssumption DEF OrderInv, Block, Share
<1>1. \A b \in Block : cands[b].at \in Nat
  BY DEF OrderInv
<1>2. CASE UNCHANGED <<shares, cands>>
  BY <1>2 DEF CandsInv, Found, Now
<1>3. CASE Submit
  <2>1. shares' = shares + 1 /\ cands' = cands /\ shares + 1 \in Share
    BY <1>0, <1>3 DEF Submit
  <2> SUFFICES ASSUME NEW b \in Block
               PROVE  IF b \in Found' THEN cands[b].at <= Now'
                      ELSE cands[b] = [status |-> "unseen", at |-> SubmitTime[b]]
    BY <2>1 DEF CandsInv
  <2>2. Found' = {c \in Block : c <= shares + 1} /\ Now' = SubmitTime[shares + 1]
    BY <2>1 DEF Found, Now
  <2>3. CASE b \in Found
    <3>1. b \in Found' /\ cands[b].at <= Now /\ shares \in Share
      <4>1. b \in 1 .. MaxShares /\ b <= shares
        BY <1>0, <2>3 DEF Found
      <4>2. cands[b].at <= Now
        BY <2>3 DEF CandsInv
      <4> QED BY <1>0, <2>2, <4>1, <4>2
    <3>2. SubmitTime[shares] <= SubmitTime[shares + 1] /\ SubmitTime[shares] \in Nat
          /\ SubmitTime[shares + 1] \in Nat
      BY <1>0, <2>1, <3>1, RoundsAssumption
    <3> QED BY <1>1, <2>2, <3>1, <3>2 DEF Now
  <2>4. CASE b \notin Found
    <3>1. cands[b] = [status |-> "unseen", at |-> SubmitTime[b]]
      BY <2>4 DEF CandsInv
    <3>2. b \in Found' => b = shares + 1
      BY <1>0, <2>2, <2>4 DEF Found
    <3>3. SubmitTime[shares + 1] \in Nat
      BY <2>1, RoundsAssumption
    <3> QED BY <2>2, <3>1, <3>2, <3>3
  <2> QED BY <2>3, <2>4
<1>4. ASSUME NEW b \in Block, Appear(b) \/ Turn(b) \/ Resubmit(b) \/ Confirm(b)
      PROVE  CandsInv'
  <2>1. shares' = shares /\ b \in Found
    BY <1>4 DEF Appear, Turn, Resubmit, Confirm, stratum
  <2>2. Found' = Found /\ Now' = Now
    BY <2>1 DEF Found, Now
  <2>3. \A c \in Block : c # b => cands'[c] = cands[c]
    BY <1>4 DEF Appear, Turn, Resubmit, Confirm, OrderInv
  <2>4. cands'[b].at = cands[b].at \/ cands'[b].at = Now
    BY <1>4 DEF Appear, Turn, Resubmit, Confirm, OrderInv
  <2>5. Now \in Nat
    <3>1. shares \in Share
      BY <1>0, <2>1 DEF Found
    <3> QED BY <3>1, RoundsAssumption DEF Now
  <2> QED BY <2>1, <2>2, <2>3, <2>4, <2>5 DEF CandsInv
<1>5. [Submit \/ \E b \in Block : Appear(b) \/ Turn(b) \/ Resubmit(b) \/ Confirm(b)]_<<shares, cands>>
  BY DEF Next, vars, stratum, Restart, Write, Pay, Track, Die, ReadLedger, ReadInputs,
         AppendRecord, Conflict, Truncate, Save
<1> QED
  BY <1>2, <1>3, <1>4, <1>5

\* Once a block is confirmed its window does not change any more: the blocks before it are
\* settled, and none gets a time before its own.
LEMMA ConfirmedIsFrozen ==
  ASSUME Timely, OrderInv, OrderInv', CandsInv, [Next]_vars,
         NEW b \in Block, cands[b].status = "confirmed"
  PROVE  cands'[b] = cands[b] /\ WindowOf(cands', b) = WindowOf(cands, b)
<1>1. cands \in Candidates /\ cands' \in Candidates
  BY DEF OrderInv, Candidates
<1>2. \A c \in Block : c \in Nat /\ cands[c].at \in Nat /\ cands'[c].at \in Nat
  BY <1>1, RoundsAssumption DEF Candidates, Block, Share
<1>3. b \in Found
  <2>1. b \notin Found => cands[b] = [status |-> "unseen", at |-> SubmitTime[b]]
    BY DEF CandsInv
  <2> HIDE DEF CandsInv
  <2> QED BY <2>1
<1>4. CASE UNCHANGED cands
  BY <1>4
<1>5. ASSUME NEW c \in Block, c # b, \A d \in Block : d # c => cands'[d] = cands[d],
             c \notin Before(cands, b), c \notin Before(cands', b)
      PROVE  cands'[b] = cands[b] /\ WindowOf(cands', b) = WindowOf(cands, b)
  <2>1. cands'[b] = cands[b]
    BY <1>5
  <2>2. ASSUME NEW d \in Block, d # c
        PROVE  d \in Before(cands, b) <=> d \in Before(cands', b)
    BY <1>5, <2>1, <2>2 DEF Before, Listed, Earlier
  <2>3. Before(cands, b) = Before(cands', b)
    <3>1. Before(cands, b) \subseteq Block /\ Before(cands', b) \subseteq Block
      BY DEF Before, Listed
    <3> QED BY <1>5, <2>2, <3>1
  <2>4. \A d \in Before(cands, b) \cup {b} : cands'[d] = cands[d]
    BY <1>5 DEF Before, Listed
  <2> QED BY <1>1, <2>1, <2>3, <2>4, WindowsAgree
<1>6. ASSUME NEW c \in Block, Appear(c) \/ Turn(c) \/ Resubmit(c)
      PROVE  cands'[b] = cands[b] /\ WindowOf(cands', b) = WindowOf(cands, b)
  <2>1. MayChange(c)
    BY <1>6 DEF Appear, Turn, Resubmit
  <2>2. c # b /\ ~Earlier(cands, c, b)
    BY <1>3, <2>1 DEF MayChange, Later
  <2>3. \A d \in Block : d # c => cands'[d] = cands[d]
    BY <1>6 DEF Appear, Turn, Resubmit, OrderInv
  <2>4. cands'[c].at = cands[c].at \/ (cands'[c].at = Now /\ cands[c].at < Now)
    BY <1>6 DEF Appear, Turn, Resubmit, OrderInv
  <2>5. ~Earlier(cands', c, b)
    <3>1. cands'[b] = cands[b]
      BY <2>2, <2>3
    <3>2. CASE cands'[c].at = cands[c].at
      BY <2>2, <3>1, <3>2 DEF Earlier
    <3>3. CASE cands'[c].at = Now /\ cands[c].at < Now
      BY <1>2, <2>2, <3>1, <3>3 DEF Earlier
    <3> QED BY <2>4, <3>2, <3>3
  <2>6. c \notin Before(cands, b) /\ c \notin Before(cands', b)
    BY <2>2, <2>5 DEF Before
  <2> QED BY <1>5, <2>2, <2>3, <2>6
<1>7. ASSUME NEW c \in Block, Confirm(c)
      PROVE  cands'[b] = cands[b] /\ WindowOf(cands', b) = WindowOf(cands, b)
  <2>1. cands[c].status = "matched" /\ c # b
    BY <1>7 DEF Confirm
  <2>2. /\ \A d \in Block : cands'[d].at = cands[d].at
        /\ \A d \in Block : cands'[d].status = IF d = c THEN "confirmed" ELSE cands[d].status
        /\ cands'[b] = cands[b]
    BY <1>7, <2>1 DEF Confirm, OrderInv
  <2>3. Before(cands, b) = Before(cands', b)
    BY <2>1, <2>2 DEF Before, Listed, Earlier
  <2>4. \A d \in Before(cands, b) \cup {b} :
          cands[d].at = cands'[d].at /\ (cands[d].status = "orphan" <=> cands'[d].status = "orphan")
    BY <2>1, <2>2 DEF Before, Listed
  <2> QED BY <1>1, <2>2, <2>3, <2>4, WindowsAgree
<1>8. [\E c \in Block : Appear(c) \/ Turn(c) \/ Resubmit(c) \/ Confirm(c)]_cands
  BY DEF Next, vars, stratum, Submit, Restart, Write, Pay, Track, Die, ReadLedger, ReadInputs,
         AppendRecord, Conflict, Truncate, Save
<1> QED
  BY <1>4, <1>6, <1>7, <1>8

\* A snapshot that shows the listed blocks as they are gives them the windows they have.
LEMMA ShownWindows ==
  ASSUME NEW cs \in Candidates, NEW rs \in [Block -> Round],
         \A c \in Block : /\ cs[c].status = "unseen" <=> rs[c].status = "unseen"
                          /\ cs[c].status # "unseen" => rs[c].status = cs[c].status /\ rs[c].at = cs[c].at,
         NEW b \in Block, cs[b].status # "unseen"
  PROVE  WindowOf(Shown(rs), b) = WindowOf(cs, b)
<1>1. Shown(rs) \in Candidates
  BY TimesAreTimes DEF Shown, Candidates, Round
<1>2. \A c \in Block : Shown(rs)[c].status = rs[c].status /\ Shown(rs)[c].at = rs[c].at
  BY DEF Shown
<1>3. Before(cs, b) = Before(Shown(rs), b)
  BY <1>2 DEF Before, Listed, Earlier
<1>4. \A c \in Before(cs, b) \cup {b} :
        cs[c].at = Shown(rs)[c].at /\ (cs[c].status = "orphan" <=> Shown(rs)[c].status = "orphan")
  BY <1>2 DEF Before, Listed
<1> QED BY <1>1, <1>3, <1>4, WindowsAgree

\* A round that a tracker verifies is that of its block's window.
LEMMA OutcomeFitsWindow ==
  ASSUME NEW b \in Block, NEW known, Outcome(known, b).out.verified
  PROVE  Outcome(known, b).out.coverage.window = WindowOf(cands, b)
<1> DEFINE w == WindowOf(cands, b)
           lines == LastOf(log)
           old == rounds[b]
           mine == RecordsFor(known, b)
           new == IF mine = {} THEN NewRecords(b, w, old, lines) ELSE {}
           division == IF mine \cup new = {} THEN Unproved(w, old, lines)
                       ELSE Recorded(CHOOSE r \in mine \cup new : TRUE, w, old, lines)
<1>1. Outcome(known, b).out = [status |-> cands[b].status, at |-> cands[b].at,
        shares |-> division.shares, verified |-> division.verified, coverage |-> division.coverage]
  BY DEF Outcome
<1>2. division.verified => division.coverage.window = w
  <2>1. CASE mine \cup new = {}
    BY <2>1 DEF Unproved
  <2>2. CASE mine \cup new # {}
    <3>1. PICK r : r = CHOOSE x \in mine \cup new : TRUE
      OBVIOUS
    <3> DEFINE now == IF SharesIn(lines, w) = r.shares THEN CoveragesOf(lines, w) ELSE {}
               saved == {r.coverage} \cup IF old.shares = r.shares THEN {old.coverage} ELSE {}
               proofs == now \cup {c \in saved : StillValid(c, w)}
    <3>2. division = [shares |-> r.shares, verified |-> proofs # {},
             coverage |-> CASE now # {} -> CHOOSE c \in now : TRUE
                            [] now = {} /\ proofs # {} ->
                                 IF r.coverage \in proofs THEN r.coverage ELSE old.coverage
                            [] proofs = {} -> NoCoverage]
      <4>1. division = Recorded(r, w, old, lines)
        BY <2>2, <3>1
      <4> QED BY <4>1 DEF Recorded
    <3>3. \A c \in proofs : c.window = w
      BY DEF CoveragesOf, StillValid
    <3>4. now \subseteq proofs /\ proofs \subseteq now \cup {r.coverage, old.coverage}
      OBVIOUS
    <3> HIDE DEF now, saved, proofs, division, mine, new
    <3>5. CASE now # {}
      BY <3>2, <3>3, <3>4, <3>5
    <3>6. CASE now = {} /\ proofs # {}
      BY <3>2, <3>3, <3>4, <3>6
    <3>7. CASE proofs = {}
      BY <3>2, <3>4, <3>7
    <3> QED BY <3>5, <3>6, <3>7
  <2> QED BY <2>1, <2>2
<1> HIDE DEF division
<1> QED BY <1>1, <1>2

\* What agrees with the candidates goes on agreeing, if what is shown of a block that is
\* just confirmed is all up to date.
LEMMA AgreesStays ==
  ASSUME Timely, OrderInv, OrderInv', CandsInv, [Next]_vars,
         NEW rs \in [Block -> Round], Agrees(rs),
         \A b \in Block : Confirm(b) =>
           (\A c \in Block : ~rs[c].verified) \/
           \A c \in Found : cands[c].status # "unseen" =>
             rs[c].status = cands[c].status /\ rs[c].at = cands[c].at
  PROVE  \A b \in Block :
           /\ rs[b].status # "unseen" => cands'[b].status # "unseen"
           /\ rs[b].verified => /\ rs[b].status # "unseen"
                                /\ rs[b].coverage.window = WindowOf(Shown(rs), b)
           /\ rs[b].verified /\ cands'[b].status = "confirmed"
                => rs[b].coverage.window = WindowOf(cands', b)
<1> SUFFICES ASSUME NEW b \in Block
             PROVE  /\ rs[b].status # "unseen" => cands'[b].status # "unseen"
                    /\ rs[b].verified /\ cands'[b].status = "confirmed"
                         => rs[b].coverage.window = WindowOf(cands', b)
  BY DEF Agrees
<1>0. cands \in Candidates /\ cands' \in Candidates
  BY DEF OrderInv, Candidates
<1>1. \/ UNCHANGED cands
      \/ \E c \in Block : Appear(c) \/ Turn(c) \/ Resubmit(c) \/ Confirm(c)
  BY DEF Next, vars, stratum, Submit, Restart, Write, Pay, Track, Die, ReadLedger, ReadInputs,
         AppendRecord, Conflict, Truncate, Save
<1>2. cands[b].status # "unseen" => cands'[b].status # "unseen"
  <2>1. ASSUME NEW c \in Block, Appear(c) \/ Turn(c) \/ Resubmit(c) \/ Confirm(c),
               cands[b].status # "unseen"
        PROVE  cands'[b].status # "unseen"
    <3>1. CASE c # b
      BY <2>1, <3>1 DEF Appear, Turn, Resubmit, Confirm, OrderInv
    <3>2. CASE c = b /\ (Appear(b) \/ Confirm(b))
      BY <3>2 DEF Appear, Confirm, OrderInv
    <3>3. CASE c = b /\ Turn(b)
      BY <3>3 DEF Turn, OrderInv
    <3>4. CASE c = b /\ Resubmit(b)
      <4>1. cands'[b].status = cands[b].status
        BY <3>4 DEF Resubmit, OrderInv
      <4> QED BY <2>1, <4>1
    <3> QED BY <2>1, <3>1, <3>2, <3>3, <3>4
  <2> QED BY <1>1, <2>1
<1>3. ASSUME rs[b].verified, cands[b].status # "confirmed", cands'[b].status = "confirmed"
      PROVE  rs[b].coverage.window = WindowOf(cands', b)
  <2>1. Confirm(b)
    BY <1>1, <1>3 DEF Appear, Turn, Resubmit, Confirm, OrderInv
  <2>2. \A c \in Block : cands[c].status # "unseen" => c \in Found
    <3> SUFFICES ASSUME NEW c \in Block, c \notin Found PROVE cands[c].status = "unseen"
      OBVIOUS
    <3>1. cands[c] = [status |-> "unseen", at |-> SubmitTime[c]]
      BY DEF CandsInv
    <3> QED BY <3>1
  <2>3. \A c \in Block : /\ cands[c].status = "unseen" <=> rs[c].status = "unseen"
                         /\ cands[c].status # "unseen" =>
                              rs[c].status = cands[c].status /\ rs[c].at = cands[c].at
    BY <1>3, <2>1, <2>2 DEF Agrees
  <2>4. cands[b].status = "matched"
    BY <2>1 DEF Confirm
  <2>5. WindowOf(Shown(rs), b) = WindowOf(cands, b)
    BY <1>0, <2>3, <2>4, ShownWindows
  <2>6. /\ \A d \in Block : cands'[d].at = cands[d].at
        /\ \A d \in Block : cands'[d].status = IF d = b THEN "confirmed" ELSE cands[d].status
    BY <2>1 DEF Confirm, OrderInv
  <2>7. Before(cands, b) = Before(cands', b)
    BY <2>4, <2>6 DEF Before, Listed, Earlier
  <2>8. \A d \in Before(cands, b) \cup {b} :
          cands[d].at = cands'[d].at /\ (cands[d].status = "orphan" <=> cands'[d].status = "orphan")
    BY <2>4, <2>6 DEF Before, Listed
  <2>9. WindowOf(cands, b) = WindowOf(cands', b)
    BY <1>0, <2>7, <2>8, WindowsAgree
  <2> QED BY <1>3, <2>5, <2>9 DEF Agrees
<1>4. ASSUME rs[b].verified, cands[b].status = "confirmed"
      PROVE  rs[b].coverage.window = WindowOf(cands', b)
  <2>1. WindowOf(cands', b) = WindowOf(cands, b)
    BY <1>4, ConfirmedIsFrozen
  <2> QED BY <1>4, <2>1 DEF Agrees
<1> QED BY <1>2, <1>3, <1>4 DEF Agrees

\* What a tracker computes agrees with the candidates it has just read.
LEMMA ReadAgrees ==
  ASSUME OrderInv, LogInv, ShapeInv, NEW p \in Tracker, ReadInputs(p)
  PROVE  Agrees(tracker'[p].out) /\ tracker'[p].pc = "append" /\ cands' = cands
<1> DEFINE outcome == [b \in Listed(cands) |-> Outcome(tracker[p].ledger, b)]
           new == UNION {outcome[b].new : b \in Listed(cands)}
           out == [b \in Block |-> IF b \in Listed(cands) THEN outcome[b].out ELSE NoRound]
           t == [Idle EXCEPT !.pc = "append", !.new = new, !.out = out]
<1>1. Update(p, t) /\ cands' = cands
  BY DEF ReadInputs
<1>2. tracker'[p] = t /\ t.out = out /\ t.pc = "append"
  <2>1. tracker'[p] = t
    BY <1>1 DEF Update, ShapeInv
  <2> HIDE DEF new, out
  <2>2. t.out = out /\ t.pc = "append"
    BY DEF Idle
  <2> QED BY <2>1, <2>2
<1>3. ASSUME NEW b \in Block, b \in Listed(cands)
      PROVE  /\ out[b] \in Round /\ out[b].status = cands[b].status /\ out[b].at = cands[b].at
             /\ out[b].verified => out[b].coverage.window = WindowOf(cands, b)
  <2>1. out[b] = Outcome(tracker[p].ledger, b).out
    BY <1>3
  <2>2. tracker[p].ledger \in SUBSET Record /\ rounds[b] \in Round /\ Proved(rounds[b])
    BY DEF ShapeInv, Hand
  <2>3. Outcome(tracker[p].ledger, b).out \in Round
    BY <2>2, OutcomeIsTyped
  <2>4. /\ Outcome(tracker[p].ledger, b).out.status = cands[b].status
        /\ Outcome(tracker[p].ledger, b).out.at = cands[b].at
    BY DEF Outcome
  <2>5. Outcome(tracker[p].ledger, b).out.verified =>
          Outcome(tracker[p].ledger, b).out.coverage.window = WindowOf(cands, b)
    BY OutcomeFitsWindow
  <2> QED BY <2>1, <2>3, <2>4, <2>5
<1>4. NoRound \in Round /\ NoRound.status = "unseen" /\ NoRound.verified = FALSE
  BY TimesAreTimes DEF NoRound, Round, Status
<1>5. \A b \in Block : b \in Listed(cands) <=> cands[b].status # "unseen"
  BY DEF Listed
<1>6. \A b \in Block : b \notin Listed(cands) => out[b] = NoRound
  OBVIOUS
<1>7. out = [b \in Block |-> out[b]]
  OBVIOUS
<1> HIDE DEF out, outcome, t
<1>8. out \in [Block -> Round]
  BY <1>3, <1>4, <1>6, <1>7
<1>9. \A c \in Block : /\ cands[c].status = "unseen" <=> out[c].status = "unseen"
                       /\ cands[c].status # "unseen" =>
                            out[c].status = cands[c].status /\ out[c].at = cands[c].at
  BY <1>3, <1>4, <1>5, <1>6
<1>10. cands \in Candidates
  BY DEF OrderInv, Candidates
<1>11. ASSUME NEW b \in Block, out[b].verified
       PROVE  /\ out[b].status # "unseen" /\ out[b].coverage.window = WindowOf(cands, b)
              /\ WindowOf(Shown(out), b) = WindowOf(cands, b)
  <2>1. b \in Listed(cands)
    BY <1>4, <1>6, <1>11
  <2>2. WindowOf(Shown(out), b) = WindowOf(cands, b)
    BY <1>5, <1>8, <1>9, <1>10, <2>1, ShownWindows
  <2> QED BY <1>3, <1>5, <1>9, <1>11, <2>1, <2>2
<1>12. \A b \in Block :
         /\ out[b].status # "unseen" => cands[b].status # "unseen"
         /\ out[b].verified => /\ out[b].status # "unseen"
                               /\ out[b].coverage.window = WindowOf(Shown(out), b)
         /\ out[b].verified /\ cands[b].status = "confirmed"
              => out[b].coverage.window = WindowOf(cands, b)
  BY <1>9, <1>11
<1>13. Agrees(out)
  BY <1>12 DEF Agrees
<1> QED BY <1>1, <1>2, <1>13

\* What is paid now is of its block's window, and what was paid before stays so.
LEMMA PaidStep ==
  ASSUME Timely, OrderInv, OrderInv', WholeInv, CandsInv, PaidInv, Agrees(rounds), [Next]_vars
  PROVE  PaidInv'
<1>1. \A q \in paid : /\ q.block \in Block /\ cands'[q.block] = cands[q.block]
                      /\ WindowOf(cands', q.block) = WindowOf(cands, q.block)
  BY ConfirmedIsFrozen DEF PaidInv
<1>2. CASE paid' = paid
  BY <1>1, <1>2 DEF PaidInv
<1>3. ASSUME NEW b \in Block, Pay(b) PROVE PaidInv'
  <2>1. /\ cands' = cands /\ cands[b].status = "confirmed" /\ rounds[b].verified
        /\ paid' = paid \cup {[block |-> b, shares |-> rounds[b].shares]}
    BY <1>3 DEF Pay
  <2>2. PICK w : w = WindowOf(cands, b)
    OBVIOUS
  <2>3. rounds[b].coverage.window = w
    BY <2>1, <2>2 DEF Agrees
  <2>4. Whole(rounds[b].shares, rounds[b].coverage)
    BY <2>1 DEF WholeInv, WholeRound
  <2>5. ASSUME NEW x \in rounds[b].shares
        PROVE  x \in Share /\ w.start < SubmitTime[x] /\ SubmitTime[x] <= w.end
    <3>1. PICK r \in Logged : r.share = x /\ Due(r, w)
      BY <2>3, <2>4 DEF Whole
    <3> QED BY <3>1 DEF OrderInv, KnownLines, Due
  <2>6. ASSUME NEW q \in paid'
        PROVE  /\ q.block \in Block /\ cands[q.block].status = "confirmed"
               /\ \A x \in q.shares : /\ x \in Share
                                      /\ WindowOf(cands, q.block).start < SubmitTime[x]
                                      /\ SubmitTime[x] <= WindowOf(cands, q.block).end
    <3>1. CASE q \in paid
      BY <3>1 DEF PaidInv
    <3>2. CASE q = [block |-> b, shares |-> rounds[b].shares]
      BY <2>1, <2>2, <2>5, <3>2
    <3> QED BY <2>1, <3>1, <3>2
  <2> QED BY <2>1, <2>6 DEF PaidInv
<1>4. [\E b \in Block : Pay(b)]_paid
  BY DEF Next, vars, stratum, Submit, Restart, Write, Appear, Turn, Resubmit, Confirm, Track,
         Die, ReadLedger, ReadInputs, AppendRecord, Conflict, Truncate, Save
<1> QED BY <1>2, <1>3, <1>4

\* The invariant behind PaidOnce: a block is confirmed when the snapshot shows all the blocks
\* as they are and no tracker is under way, and its window is frozen from then on.
LEMMA OnceStep ==
  ASSUME Timely, OrderInv, OrderInv', WholeInv, LogInv, ShapeInv, OnceInv, [Next]_vars
  PROVE  OnceInv'
<1> DEFINE Still(rs) == \A b \in Block :
             /\ rs[b].status # "unseen" => cands'[b].status # "unseen"
             /\ rs[b].verified => /\ rs[b].status # "unseen"
                                  /\ rs[b].coverage.window = WindowOf(Shown(rs), b)
             /\ rs[b].verified /\ cands'[b].status = "confirmed"
                  => rs[b].coverage.window = WindowOf(cands', b)
<1>1. CandsInv' /\ PaidInv'
  BY CandsStep, PaidStep DEF OnceInv
<1>2. Still(rounds)
  <2>1. \A b \in Block : Confirm(b) =>
          \A c \in Found : cands[c].status # "unseen" =>
            rounds[c].status = cands[c].status /\ rounds[c].at = cands[c].at
    BY DEF Confirm, Tracked
  <2>2. rounds \in [Block -> Round] /\ Agrees(rounds) /\ CandsInv
    BY DEF ShapeInv, OnceInv
  <2> QED BY <2>1, <2>2, AgreesStays
<1>3. ASSUME NEW p \in Tracker PROVE Still(tracker[p].out)
  <2>1. \A b \in Block : Confirm(b) => \A c \in Block : ~tracker[p].out[c].verified
    BY DEF Confirm, OnceInv, NoRounds, NoRound
  <2>2. tracker[p].out \in [Block -> Round] /\ Agrees(tracker[p].out) /\ CandsInv
    BY DEF ShapeInv, OnceInv, Hand
  <2> QED BY <2>1, <2>2, AgreesStays
<1>4. Still(NoRounds)
  BY DEF NoRounds, NoRound
<1>5. ASSUME NEW p \in Tracker, NEW q \in Tracker, NEW t, Update(p, t)
      PROVE  tracker'[q] = IF q = p THEN t ELSE tracker[q]
  BY <1>5 DEF Update, ShapeInv
<1>6. /\ Idle.out = NoRounds /\ Idle.pc = "idle"
      /\ [Idle EXCEPT !.pc = "read", !.ledger = ledger].out = NoRounds
  BY DEF Idle
<1>7. \A p \in Tracker : tracker[p] \in Hand /\ (tracker[p].pc = "idle" => tracker[p].out = NoRounds)
  BY DEF ShapeInv, OnceInv
<1>8. \/ rounds' = rounds
      \/ rounds' = NoRounds
      \/ \E p \in Tracker : rounds' = tracker[p].out
  BY DEF Next, vars, stratum, Submit, Restart, Write, Appear, Turn, Resubmit, Confirm, Pay,
         Track, Die, ReadLedger, ReadInputs, AppendRecord, Conflict, Truncate, Save
<1>9. ASSUME NEW q \in Tracker
      PROVE  \/ /\ tracker'[q].out = tracker[q].out
                /\ tracker'[q].pc = "idle" => tracker[q].pc = "idle"
             \/ tracker'[q].out = NoRounds
             \/ ReadInputs(q)
  <2>1. CASE tracker' = tracker
    BY <2>1
  <2>2. ASSUME NEW p \in Tracker, ReadLedger(p) \/ Save(p) \/ Conflict(p) \/ Die(p)
        PROVE  tracker'[q] = tracker[q] \/ tracker'[q].out = NoRounds
    <3>1. Update(p, [Idle EXCEPT !.pc = "read", !.ledger = ledger]) \/ Update(p, Idle)
      BY <2>2 DEF ReadLedger, Save, Conflict, Die
    <3> QED BY <1>5, <1>6, <3>1
  <2>3. ASSUME NEW p \in Tracker, ReadInputs(p)
        PROVE  tracker'[q] = tracker[q] \/ ReadInputs(q)
    BY <2>3 DEF ReadInputs, Update, ShapeInv
  <2>4. ASSUME NEW p \in Tracker, AppendRecord(p) \/ Truncate(p)
        PROVE  /\ tracker'[q].out = tracker[q].out
               /\ tracker'[q].pc = "idle" => tracker[q].pc = "idle"
    <3>1. PICK t : Update(p, t) /\ t.out = tracker[p].out /\ t.pc # "idle"
      <4>1. CASE AppendRecord(p)
        BY <1>7, <4>1 DEF AppendRecord, Hand
      <4>2. CASE Truncate(p)
        BY <1>7, <4>2 DEF Truncate, Hand
      <4> QED BY <2>4, <4>1, <4>2
    <3> QED BY <1>5, <3>1
  <2>5. [\E p \in Tracker : Track(p) \/ Die(p)]_tracker
    BY DEF Next, vars, stratum, Submit, Restart, Write, Appear, Turn, Resubmit, Confirm, Pay
  <2> QED BY <2>1, <2>2, <2>3, <2>4, <2>5 DEF Track
<1>10. Agrees(rounds)'
  <2>1. Still(rounds')
    BY <1>2, <1>3, <1>4, <1>8
  <2> QED BY <2>1 DEF Agrees, Shown
<1>11. ASSUME NEW q \in Tracker
       PROVE  Agrees(tracker[q].out)' /\ (tracker'[q].pc = "idle" => tracker'[q].out = NoRounds)
  <2>1. Agrees(rounds) /\ CandsInv
    BY DEF OnceInv
  <2>2. CASE ReadInputs(q)
    <3>1. Agrees(tracker'[q].out) /\ tracker'[q].pc = "append" /\ cands' = cands
      BY <2>2, ReadAgrees
    <3> QED BY <3>1 DEF Agrees, Shown
  <2>3. CASE ~ReadInputs(q)
    <3>1. Still(tracker'[q].out)
      BY <1>3, <1>4, <1>9, <2>3
    <3>2. tracker'[q].pc = "idle" => tracker'[q].out = NoRounds
      BY <1>7, <1>9, <2>3
    <3> QED BY <3>1, <3>2 DEF Agrees, Shown
  <2> QED BY <2>2, <2>3
<1> QED BY <1>1, <1>10, <1>11 DEF OnceInv

\* Nothing is shown, computed or paid at the start.
LEMMA OnceStarts == Init => OnceInv
<1> SUFFICES ASSUME Init PROVE OnceInv
  OBVIOUS
<1>1. CandsInv
  <2> SUFFICES ASSUME NEW b \in Block
               PROVE  IF b \in Found THEN cands[b].at <= Now
                      ELSE cands[b] = [status |-> "unseen", at |-> SubmitTime[b]]
    BY DEF CandsInv
  <2>1. /\ shares = Start
        /\ cands[b] = [status |-> IF b <= Start THEN "confirmed" ELSE "unseen", at |-> SubmitTime[b]]
    BY DEF Init, Confirmed
  <2>2. b \in Share /\ Share \subseteq Nat /\ Start \in Share \cup {0}
    BY RoundsAssumption DEF Block, Share
  <2>3. CASE b \in Found
    <3>1. b <= Start /\ 1 <= b
      BY <2>1, <2>2, <2>3 DEF Found, Share
    <3>2. Start \in Share
      BY <2>2, <3>1
    <3>3. SubmitTime[b] <= SubmitTime[Start]
      BY <2>2, <3>1, <3>2, RoundsAssumption
    <3> QED BY <2>1, <2>3, <3>3 DEF Now
  <2>4. CASE b \notin Found
    <3>1. ~(b <= Start)
      BY <2>1, <2>4 DEF Found
    <3> QED BY <2>1, <2>4, <3>1
  <2> QED BY <2>3, <2>4
<1>2. Agrees(NoRounds)
  BY DEF Agrees, NoRounds, NoRound
<1>3. rounds = NoRounds /\ paid = {} /\ \A p \in Tracker : tracker[p].out = NoRounds
  BY DEF Init, Idle
<1> QED BY <1>1, <1>2, <1>3 DEF OnceInv, PaidInv

\* No share is paid for in two rounds, if a block is confirmed only when the blocks before it
\* are settled and the snapshot shows them so: the windows of confirmed blocks have no time in
\* common (compute_rounds), and what is paid is of them (generate_payout_candidates).
THEOREM SharesPaidOnce == ASSUME Timely PROVE Spec => []PaidOnce
<1>1. Init => OrderInv /\ WholeInv /\ LogInv /\ ShapeInv /\ OnceInv
  BY StartHolds, ShapeStarts, OnceStarts
<1>2. OrderInv /\ WholeInv /\ LogInv /\ ShapeInv /\ OnceInv /\ [Next]_vars
        => (OrderInv /\ WholeInv /\ LogInv /\ ShapeInv /\ OnceInv)'
  BY OrderStep, WholeStep, ShapeStays, OnceStep
<1>3. OrderInv /\ OnceInv => PaidOnce
  BY PaidInvImplies DEF OnceInv
<1> QED
  BY <1>1, <1>2, <1>3, PTL DEF Spec

=============================================================================
