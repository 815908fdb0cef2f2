-------------------------------- MODULE Solo --------------------------------
(***************************************************************************)
(* A block of a SOLO miner, from the daemon's answer to the payment of its *)
(* finder.  Two services work on accepted-candidates.json without a lock:  *)
(*                                                                         *)
(*   "minute"  looks unsettled blocks up and merges what it finds          *)
(*             (solo_lifecycle_refresh.py), then counts confirmations      *)
(*             (refresh_solo_maturity.py);                                 *)
(*   "hour"    counts confirmations, writes solo-payout-candidates.json    *)
(*             (solo_payout_helper.py) and pays from it (payout_helper.py  *)
(*             auto-payout-once).                                          *)
(*                                                                         *)
(* Each reads the file whole and replaces it whole.  How a block is        *)
(* submitted is the subject of BlockLife, how it is paid once that of      *)
(* PayoutLedger.  The tails of the two logs reach back to every block      *)
(* here; a record whose row has left them is mapped from its own fields,   *)
(* which are that row's.                                                   *)
(***************************************************************************)
EXTENDS Naturals, SequencesExt, FiniteSets

CONSTANTS
  Block,      \* the SOLO blocks
  Depth,      \* CONFIRMED_AT, 100 in the code
  MinConf,    \* --min-confirmations, 101
  Recent,     \* recent_blocks_limit of the snapshot
  MaxReorg,   \* assumption: no reorganisation drops more blocks than this
  MaxHeight,  \* bound: height of the chain
  MaxErrors,  \* bound: calls of the daemon that fail, sends that are put off
  MaxLosses   \* bound: times the snapshot is not there

ASSUME SoloAssumption ==
  /\ IsFiniteSet(Block) /\ Block \cap Nat = {}
  /\ {Depth, MinConf, Recent} \subseteq Nat \ {0} /\ MaxReorg < Depth
  /\ {MaxReorg, MaxHeight, MaxErrors, MaxLosses} \subseteq Nat

Other == {0, 1}
Service == {"minute", "hour"}

VARIABLES
  chain,    \* the daemon's active chain
  parent,   \* the chain each block was mined on
  answered, \* blocks whose event says submitblockSent
  fresh,    \* blocks younger than retry_no_match_seconds
  row,      \* the last row of each block in candidate-outcome-events.jsonl
  snap,     \* the chain of pool-snapshot.json, empty when there is none
  accepted, \* accepted-candidates.json: the record of each block
  at,       \* the step each service is at
  todo,     \* the blocks the minute service has still to look up
  failed,   \* one of its lookups failed
  copy,     \* what each service will write to accepted-candidates.json
  offers,   \* the rows of solo-payout-candidates.json, until they are sent
  paid,     \* blocks whose finder is paid
  left,     \* history: blocks that have left the chain after a lookup found them
  errors, losses

vars ==
  <<chain, parent, answered, fresh, row, snap, accepted, at, todo, failed, copy,
          offers, paid, left, errors, losses>>
chainVars == <<chain, parent, answered, fresh, snap, left, losses>>
fileVars == <<row, accepted, offers, paid>>
workVars == <<at, todo, failed, copy, errors>>

NoRow == [kind |-> "absent", height |-> 0]
NoRecord == [status |-> "absent", height |-> 0, conf |-> 0]
NoFile == [b \in Block |-> NoRecord]
File == [Block -> [status : {"absent", "unsettled", "orphan", "chain_match_found",
                             "immature", "confirmed"},
                   height : 0 .. MaxHeight, conf : 0 .. MaxHeight]]

Init ==
  /\ chain = <<>> /\ snap = <<>> /\ parent = <<>>
  /\ answered = {} /\ fresh = {} /\ left = {}
  /\ row = [b \in Block |-> NoRow]
  /\ accepted = NoFile
  /\ at = [s \in Service |-> "idle"]
  /\ todo = {} /\ failed = FALSE
  /\ copy = [s \in Service |-> NoFile]
  /\ offers = {} /\ paid = {} /\ errors = 0 /\ losses = 0

OnChain(b) == b \in ToSet(chain)
Height(b) == Len(parent[b]) + 1
Prefix(s, n) == SubSeq(s, 1, n)
Known == DOMAIN parent

-----------------------------------------------------------------------------
(* The chain, the Stratum process and the producer *)

NewBlock ==
  /\ Len(chain) < MaxHeight /\ chain' = Append(chain, 0)
  /\ UNCHANGED <<parent, answered, fresh, snap, left, losses, fileVars, workVars>>

\* What may follow a part of the chain.  Assumption: a block does not come back
\* when its ten minutes are over.
Branches(base) == Other \cup {b \in fresh : parent[b] = base}

\* The last n blocks give way to a branch that is longer by one.
Reorg(n) ==
  LET base == Prefix(chain, Len(chain) - n) IN
  /\ n <= Len(chain) /\ Len(chain) < MaxHeight
  /\ \E b \in Branches(base) \ {chain[Len(chain) - n + 1]} :
       chain' = base \o <<b>> \o [i \in 1 .. n |-> 0]
  /\ left' = left \cup {b \in Known : /\ OnChain(b) /\ Height(b) > Len(base)
                                      /\ row[b].kind = "match"}
  /\ UNCHANGED <<parent, answered, fresh, snap, losses, fileVars, workVars>>

MinedOn(b, base) == parent' = [c \in Known \cup {b} |-> IF c = b THEN base ELSE parent[c]]

\* A block is submitted on the tip, or too late, and its event and outcome written.
\* The daemon's answer may be lost: the event then says it was not sent.
Submit(b) ==
  /\ b \notin Known
  /\ \/ /\ Len(chain) < MaxHeight
        /\ chain' = Append(chain, b) /\ MinedOn(b, chain)
     \/ /\ chain # <<>> /\ UNCHANGED chain
        /\ MinedOn(b, Prefix(chain, Len(chain) - 1))
  /\ fresh' = fresh \cup {b}
  /\ row' = [row EXCEPT ![b].kind = "unchecked"]
  /\ \/ answered' = answered \cup {b} /\ UNCHANGED errors
     \/ errors < MaxErrors /\ errors' = errors + 1 /\ UNCHANGED answered
  /\ UNCHANGED <<snap, left, losses, accepted, offers, paid, at, todo, failed, copy>>

\* Ten minutes pass.  Assumption: the service has run since the block came back.
Age(b) ==
  /\ b \in fresh /\ ~(OnChain(b) /\ row[b].kind = "none")
  /\ fresh' = fresh \ {b}
  /\ UNCHANGED <<chain, parent, answered, snap, left, losses, fileVars, workVars>>

Produce ==
  /\ snap' = chain
  /\ UNCHANGED <<chain, parent, answered, fresh, left, losses, fileVars, workVars>>

\* The snapshot is not there, or cannot be read.
LoseSnapshot ==
  /\ losses < MaxLosses /\ losses' = losses + 1 /\ snap' = <<>>
  /\ UNCHANGED <<chain, parent, answered, fresh, left, fileVars, workVars>>

-----------------------------------------------------------------------------
(* What the scripts compute *)

\* Changed for the mutants: a block that was not found once is not looked up again.
ShouldCheckOnce(b) == b \in answered /\ row[b].kind \in {"unchecked", "error"}

\* _should_check_candidate: a match is for good, a block that was not found is
\* looked up again while it is young, and a failed lookup always.
ShouldCheck(b) ==
  /\ b \in answered
  /\ \/ row[b].kind \in {"unchecked", "error"}
     \/ row[b].kind = "none" /\ b \in fresh

\* Another block is where the row says the block is, among the snapshot's few.
Divergent(b, r) ==
  /\ r.height \in Len(snap) - Recent + 1 .. Len(snap)
  /\ Prefix(snap, r.height) # Append(parent[b], b)

StatusAt(conf) == IF conf >= Depth THEN "confirmed" ELSE "immature"

\* Changed for the mutants: a block the daemon does not have is no orphan.
RecordTrusting(b, r) ==
  LET height == IF r.kind = "none" THEN Height(b) ELSE r.height
      conf == IF Len(snap) >= height THEN Len(snap) - height + 1 ELSE 0
  IN CASE r.kind = "absent" -> NoRecord
       [] r.kind \in {"unchecked", "error"} -> [NoRecord EXCEPT !.status = "unsettled"]
       [] r.kind \in {"none", "match"} ->
            [status |-> StatusAt(conf), height |-> height, conf |-> conf]

\* map_lifecycle_status: confirmations count from the snapshot, and without one
\* there are none.
Record(b, r) ==
  LET conf == IF Len(snap) >= r.height THEN Len(snap) - r.height + 1 ELSE 0
      as(status, c) == [status |-> status, height |-> r.height, conf |-> c]
  IN CASE r.kind = "absent"                               -> NoRecord
       [] r.kind = "none"                                 -> as("orphan", 0)
       [] r.kind \in {"unchecked", "error"}               -> as("unsettled", 0)
       [] r.kind = "match" /\ Divergent(b, r)             -> as("orphan", 0)
       [] r.kind = "match" /\ ~Divergent(b, r) /\ conf = 0 -> as("chain_match_found", 0)
       [] r.kind = "match" /\ ~Divergent(b, r) /\ conf > 0 -> as(StatusAt(conf), conf)

\* refresh_maturity: confirmations only rise, for a record whose height is known.
Matured(rec, height) ==
  LET conf == IF rec.conf > height - rec.height + 1 THEN rec.conf
              ELSE height - rec.height + 1
  IN IF /\ rec.status \in {"chain_match_found", "immature", "confirmed"}
        /\ height >= rec.height
     THEN [rec EXCEPT !.conf = conf, !.status = StatusAt(conf)]
     ELSE rec

-----------------------------------------------------------------------------
(* The services *)

Goto(s, step) == at' = [at EXCEPT ![s] = step]
Keep(s, file) == copy' = [copy EXCEPT ![s] = file]

Begin(s) ==
  /\ at[s] = "idle"
  /\ Goto(s, IF s = "minute" THEN "look" ELSE "mature")
  /\ todo' = IF s = "minute" THEN {b \in Known : ShouldCheck(b)} ELSE todo
  /\ UNCHANGED <<chainVars, fileVars, failed, copy, errors>>

\* Changed for the mutants: the parent's height.
FoundLow(b) == IF OnChain(b) THEN [kind |-> "match", height |-> Len(parent[b])]
               ELSE [kind |-> "none", height |-> 0]

\* check_candidate_followup: an active block has its height, one that is not active
\* or not known has none.
Found(b) == IF OnChain(b) THEN [kind |-> "match", height |-> Height(b)]
            ELSE [kind |-> "none", height |-> 0]

\* A pending block is looked up, and a new answer appended to the outcome log.
LookUp(b) ==
  /\ at["minute"] = "look" /\ b \in todo /\ todo' = todo \ {b}
  /\ \/ row' = [row EXCEPT ![b] = Found(b)] /\ UNCHANGED <<failed, errors>>
     \/ /\ errors < MaxErrors /\ errors' = errors + 1 /\ failed' = TRUE
        /\ row' = [row EXCEPT ![b] = [kind |-> "error", height |-> 0]]
  /\ UNCHANGED <<chainVars, accepted, offers, paid, at, copy>>

\* _rebuild_accepted_candidates reads the rows, the records and the snapshot.
Merge ==
  /\ at["minute"] = "look" /\ todo = {}
  /\ Keep("minute", [b \in Block |-> Record(b, row[b])])
  /\ Goto("minute", "merged")
  /\ UNCHANGED <<chainVars, fileVars, todo, failed, errors>>

\* A failed lookup fails the command after its file is written, and the service
\* goes no further.
WriteMerged ==
  /\ at["minute"] = "merged" /\ accepted' = copy["minute"]
  /\ Keep("minute", NoFile)
  /\ Goto("minute", IF failed THEN "idle" ELSE "mature") /\ failed' = FALSE
  /\ UNCHANGED <<chainVars, row, offers, paid, todo, errors>>

\* The heights a count can go by: the snapshot's, without it the daemon's, and none
\* when the daemon does not answer.
Heights == IF snap # <<>> THEN {Len(snap)} ELSE {Len(chain), 0}

After(s) == IF s = "minute" THEN "idle" ELSE "build"

\* Nothing is written when no record changes.
Mature(s) ==
  /\ at[s] = "mature"
  /\ \E h \in Heights :
       LET file == IF h = 0 THEN accepted ELSE [b \in Block |-> Matured(accepted[b], h)] IN
       IF file = accepted THEN Goto(s, After(s)) /\ UNCHANGED copy
       ELSE Keep(s, file) /\ Goto(s, "matured")
  /\ UNCHANGED <<chainVars, fileVars, todo, failed, errors>>

\* The other service may have replaced the file meanwhile.
WriteMatured(s) ==
  /\ at[s] = "matured" /\ accepted' = copy[s]
  /\ Keep(s, NoFile) /\ Goto(s, After(s))
  /\ UNCHANGED <<chainVars, row, offers, paid, todo, failed, errors>>

\* evaluate_solo_eligibility, which auto_payout_once does not read.
Eligible(b) ==
  accepted[b].status = "confirmed" /\ accepted[b].conf >= MinConf /\ b \notin paid

\* build_solo_payout_candidate, for a block whose coinbase is read, by its hash.
Row(b) == [block |-> b, status |-> accepted[b].status, eligible |-> Eligible(b)]

\* generate_solo_payout_candidates: a record whose height is known has something to
\* pay, unless its coinbase cannot be read.
Build ==
  /\ at["hour"] = "build" /\ Goto("hour", "send")
  /\ LET rows == {Row(b) : b \in {c \in Block : accepted[c].height > 0}} IN
     \/ offers' = rows /\ UNCHANGED errors
     \/ errors < MaxErrors /\ errors' = errors + 1 /\ \E r \in rows : offers' = rows \ {r}
  /\ UNCHANGED <<chainVars, row, accepted, paid, todo, failed, copy>>

\* auto_payout_once: every row of a confirmed block that is not paid is sent, or
\* all are put off to the next hour.
Send ==
  /\ at["hour"] = "send" /\ Goto("hour", "idle") /\ offers' = {}
  /\ \/ /\ paid' = paid \cup {r.block : r \in {o \in offers : o.status = "confirmed"}}
        /\ UNCHANGED errors
     \/ errors < MaxErrors /\ errors' = errors + 1 /\ UNCHANGED paid
  /\ UNCHANGED <<chainVars, row, accepted, todo, failed, copy>>

Next ==
  \/ NewBlock \/ \E n \in 1 .. MaxReorg : Reorg(n)
  \/ \E b \in Block : Submit(b) \/ Age(b) \/ LookUp(b)
  \/ Produce \/ LoseSnapshot
  \/ \E s \in Service : Begin(s) \/ Mature(s) \/ WriteMatured(s)
  \/ Merge \/ WriteMerged \/ Build \/ Send

Spec == Init /\ [][Next]_vars

\* The producer's loop and the timers; a service that has begun goes on.
Fairness ==
  /\ WF_vars(Produce)
  /\ \A s \in Service : WF_vars(Begin(s)) /\ WF_vars(Mature(s)) /\ WF_vars(WriteMatured(s))
  /\ WF_vars(\E b \in Block : LookUp(b))
  /\ WF_vars(Merge) /\ WF_vars(WriteMerged) /\ WF_vars(Build) /\ WF_vars(Send)

FairSpec == Spec /\ Fairness

-----------------------------------------------------------------------------
(* Properties *)

\* Rows are about blocks that exist, and heights are the chain's.
TypeOK ==
  /\ chain \in Seq(Other \cup Block) /\ Len(chain) <= MaxHeight
  /\ Known \subseteq Block /\ answered \cup fresh \cup todo \cup paid \cup left \subseteq Known
  /\ {r.block : r \in offers} \subseteq Known
  /\ \A b \in Block : /\ row[b].kind = "absent" <=> b \notin Known
                      /\ row[b].height \in {0, IF b \in Known THEN Height(b) ELSE 0}
  /\ accepted \in File /\ copy \in [Service -> File]
  /\ at \in [Service -> {"idle", "look", "merged", "mature", "matured", "build", "send"}]

Confirmations(b) == IF OnChain(b) THEN Len(chain) - Height(b) + 1 ELSE 0

\* What is paid is on the chain, Depth deep, although two services overwrite each
\* other's file and the snapshot lags or is lost: unless the block left the chain
\* after the one lookup that found it.
PaidIsBuried == \A b \in paid \ left : Confirmations(b) >= Depth

\* A block whose answer was read and that is deep enough is paid in the end, with
\* races it first lost, failed calls and records that were overwritten.
EventuallyPaid ==
  \A b \in Block : b \in answered /\ Confirmations(b) >= Depth ~> b \in paid

\* No payout from orphan blocks.
OrphansUnpaid == \A b \in paid : OnChain(b)

\* Every block that is deep enough is paid, a lost answer or not.
DeepIsPaid == \A b \in Block : b \in Known /\ Confirmations(b) >= Depth ~> b \in paid
=============================================================================
