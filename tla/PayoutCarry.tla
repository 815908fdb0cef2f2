---------------------------- MODULE PayoutCarry ----------------------------
(***************************************************************************)
(* From confirmed blocks to amounts: ops/scripts/payout_helper.py turns    *)
(* the rounds of confirmed blocks into payout rows                         *)
(* (generate_payout_candidates), keeps what is below the minimum payout in *)
(* the carry file (generate_carry_snapshot), and auto_payout_once adds the *)
(* rows of a wallet up to one send.                                        *)
(*                                                                         *)
(* Two workflows of live-stratum.sh share the files: the hourly auto run   *)
(* and an operator's payout-refresh.  A send is one step here: that it is  *)
(* made once and recorded is the subject of PayoutLedger.  An open intent  *)
(* and a payment cover the same blocks, so the ledger does not tell them   *)
(* apart.  Amounts are whole units; the send quantum is left out.          *)
(***************************************************************************)
EXTENDS Naturals, FiniteSets, FiniteSetsExt

CONSTANTS
  N,          \* blocks, numbered by submit time: accepted-candidates.json is sorted by it
  Wallet,
  Base,       \* [1 .. N -> [Wallet -> Nat]], a wallet's part of a block's net reward
  MinPayout,
  Run,        \* the workflows in use: "auto", or "auto" and "refresh"
  InOrder,    \* blocks become payable in the order of their submit times
  HeightGaps, \* a candidate may be listed without its height
  Foreign,    \* blocks whose coinbase pays the pool's configured address nothing
  MaxUnread,  \* bound: lookups of a coinbase that fail
  MaxRefreshes, \* bound: refreshes an operator starts
  MaxRefusals,\* bound: sends that are put off to a later run
  MaxTimeouts,\* bound: sends whose answer is lost
  MaxCrashes  \* bound: auto runs that die between the payment and their clean-up

Block == 1 .. N

ASSUME CarryAssumption ==
  /\ N \in Nat /\ MinPayout \in Nat \ {0}
  /\ Base \in [Block -> [Wallet -> Nat]]
  /\ Run \in {{"auto"}, {"auto", "refresh"}}
  /\ InOrder \in BOOLEAN /\ HeightGaps \in BOOLEAN /\ Foreign \subseteq Block
  /\ MaxUnread \in Nat /\ MaxRefreshes \in Nat /\ MaxRefusals \in Nat /\ MaxTimeouts \in Nat /\ MaxCrashes \in Nat

\* A row of payout-candidates.json: a block's share for a wallet, the carried
\* blocks its amount includes (when "pending") or builds on (when "carried").
\* "none" stands for a candidate without rows.
Row == [status  : {"none", "paid", "pending", "carried"},
        amount  : Nat,
        carried : SUBSET Block]
NoRow == [status |-> "none", amount |-> 0, carried |-> {}]
File == [Block -> [Wallet -> Row]]

\* One send of a wallet's rows.
Group == [wallet : Wallet, amount : Nat, sources : SUBSET Block, carried : SUBSET Block]

VARIABLES
  payable,    \* confirmed blocks
  rows,       \* payout-candidates.json
  carry,      \* payout-carry-snapshot.json: the blocks carried for each wallet
  ledger,     \* what payment-actions.jsonl covers: [wallet, sources, carried]
  txs,        \* what the wallet has paid, numbered
  lock,       \* holder of .payout-candidates.lock
  pc,         \* where each workflow stands
  buf,        \* the rows a workflow has computed or loaded
  groups,     \* sends the auto run has selected and not made
  unread, refreshes, refusals, timeouts, crashes

counters == <<unread, refreshes, refusals, timeouts, crashes>>
vars == <<payable, rows, carry, ledger, txs, lock, pc, buf, groups, counters>>

Amount(w, S) == SumFunctionOnSet([b \in Block |-> Base[b][w]], S)
Miners(b) == {w \in Wallet : Base[b][w] > 0}

-----------------------------------------------------------------------------
(* Which blocks count as paid to a wallet: load_paid_payment_pairs *)

\* Changed for the mutants: only one of the two lists of a line is read.
SettledByCarried(w) == UNION {e.carried : e \in {f \in ledger : f.wallet = w}}

\* By the ledger alone.
Settled(w) ==
  UNION {e.sources \cup e.carried : e \in {f \in ledger : f.wallet = w}}

\* With the candidates file, read front to back: what a paid row carried is paid.
SettledWith(file, w) ==
  LET upto[b \in 0 .. N] ==
        IF b = 0 THEN Settled(w)
        ELSE IF b \in upto[b - 1] THEN upto[b - 1] \cup file[b][w].carried
        ELSE upto[b - 1]
  IN upto[N]

-----------------------------------------------------------------------------
(* generate_payout_candidates *)

\* Every miner of b is paid: the candidate is blocked and has no rows.
AllPaid(b, paid) == \A w \in Miners(b) : b \in paid[w]

\* Changed for the mutants: a block counts before its coinbase can be read.
EligibleUnread(b, w, paid, readable) == w \in Miners(b) /\ ~AllPaid(b, paid)

\* b has rows, and one of them is for w.
Eligible(b, w, paid, readable) ==
  /\ b \in readable
  /\ w \in Miners(b)
  /\ ~AllPaid(b, paid)

\* Changed for the mutants: the minimum itself is not enough.
ReachesStrictly(amount) == amount > MinPayout

Reaches(amount) == amount >= MinPayout

\* One block after the carry state was: the new carry state and b's row for w.
\* The carried amount is kept unless b itself was carried; then it is added up
\* again from the carry file.
CarryStep(was, b, w, paid, readable) ==
  LET ids == was.ids \ ({b} \cup paid[w])
      in  == IF ids = was.ids THEN was.amount ELSE Amount(w, ids \cap carry[w])
      total == in + Base[b][w]
  IN CASE ~Eligible(b, w, paid, readable) ->
            [was EXCEPT !.row = NoRow]
       [] Eligible(b, w, paid, readable) /\ b \in paid[w] ->
            [ids |-> ids, amount |-> in,
             row |-> [status |-> "paid", amount |-> Base[b][w], carried |-> {}]]
       [] Eligible(b, w, paid, readable) /\ b \notin paid[w] /\ Reaches(total) ->
            [ids |-> {}, amount |-> 0,
             row |-> [status |-> "pending", amount |-> total, carried |-> ids \cup {b}]]
       [] Eligible(b, w, paid, readable) /\ b \notin paid[w] /\ ~Reaches(total) ->
            [ids |-> ids \cup {b}, amount |-> total,
             row |-> [status |-> "carried", amount |-> Base[b][w], carried |-> ids]]

\* The carry state starts from what the carry file holds and nobody has paid.
Scan(w, paid, readable) ==
  LET open == carry[w] \ paid[w]
      after[b \in 0 .. N] ==
        IF b = 0 THEN [ids |-> open, amount |-> Amount(w, open), row |-> NoRow]
        ELSE CarryStep(after[b - 1], b, w, paid, readable)
  IN after

Candidates(readable) ==
  LET paid == [w \in Wallet |-> SettledWith(rows, w)]
      scan == [w \in Wallet |-> Scan(w, paid, readable)]
  IN [b \in Block |-> [w \in Wallet |-> scan[w][b].row]]

-----------------------------------------------------------------------------
Init ==
  /\ payable = {} /\ rows = [b \in Block |-> [w \in Wallet |-> NoRow]]
  /\ carry = [w \in Wallet |-> {}]
  /\ ledger = {} /\ txs = {} /\ lock = "free"
  /\ pc = [p \in Run |-> "idle"]
  /\ buf = [p \in Run |-> rows]
  /\ groups = {} /\ unread = 0 /\ refreshes = 0 /\ refusals = 0 /\ timeouts = 0 /\ crashes = 0

Goto(p, where) == pc' = [pc EXCEPT ![p] = where]

\* candidate-followup and accepted-candidates find another block confirmed.
Confirm(b) ==
  /\ b \in Block \ payable
  /\ InOrder => 1 .. b - 1 \subseteq payable
  /\ payable' = payable \cup {b}
  /\ UNCHANGED <<rows, carry, ledger, txs, lock, pc, buf, groups, counters>>

Begin(p) ==
  /\ pc[p] = "idle"
  /\ p = "refresh" => refreshes < MaxRefreshes
  /\ refreshes' = IF p = "refresh" THEN refreshes + 1 ELSE refreshes
  /\ Goto(p, "carry")
  /\ UNCHANGED <<payable, rows, carry, ledger, txs, lock, buf, groups, unread,
                 refusals, timeouts, crashes>>

\* generate_carry_snapshot, before and after.  One candidate without a height
\* makes the whole file "malformed", and nothing is carried.
BuildCarry(p) ==
  /\ pc[p] \in {"carry", "post"}
  /\ \/ carry' = [w \in Wallet |-> {b \in Block : rows[b][w].status = "carried"}]
     \/ HeightGaps /\ carry' = [w \in Wallet |-> {}]
  /\ Goto(p, IF pc[p] = "carry" THEN "read" ELSE "idle")
  /\ UNCHANGED <<payable, rows, ledger, txs, lock, buf, groups, counters>>

\* The stage is skipped when another workflow holds the candidates lock.
After(p) == IF p = "auto" THEN "load" ELSE "post"

SkipGenerate(p) ==
  /\ pc[p] = "read" /\ lock # "free"
  /\ Goto(p, After(p))
  /\ UNCHANGED <<payable, rows, carry, ledger, txs, lock, buf, groups, counters>>

\* query_rpc_result: no answer, an HTTP error, a body that is not JSON, an error and an
\* empty result are one failure.
Answered(failed) == payable \ failed

\* detect_coinbase_miner_reward: the outputs of the configured address and of nobody else.
PaysPool(b) == b \notin Foreign

\* The blocks whose coinbase the daemon shows to pay the pool.  A lookup that fails
\* blocks the candidate until a later run, and its rows are gone from the file.
Readable(failed) == {b \in Answered(failed) : PaysPool(b)}

ReadInputs(p) ==
  /\ pc[p] = "read" /\ lock = "free"
  /\ lock' = p
  /\ \E failed \in SUBSET payable :
       /\ unread' = unread + Cardinality(failed) /\ unread' <= MaxUnread
       /\ buf' = [buf EXCEPT ![p] = Candidates(Readable(failed))]
  /\ Goto(p, "write")
  /\ UNCHANGED <<payable, rows, carry, ledger, txs, groups, refreshes, refusals, timeouts,
                 crashes>>

WriteRows(p) ==
  /\ pc[p] = "write"
  /\ rows' = buf[p] /\ lock' = "free"
  /\ Goto(p, After(p))
  /\ UNCHANGED <<payable, carry, ledger, txs, buf, groups, counters>>

-----------------------------------------------------------------------------
(* auto_payout_once *)

Load ==
  /\ pc["auto"] = "load"
  /\ buf' = [buf EXCEPT !["auto"] = rows]
  /\ Goto("auto", "select")
  /\ UNCHANGED <<payable, rows, carry, ledger, txs, lock, groups, counters>>

\* Changed for the mutants: a candidate of carried rows is ready too.
ReadyCarried(file, b) == \E w \in Wallet : file[b][w].status \in {"pending", "carried"}

\* classify_candidate_payout_readiness: rows count only in a candidate that has
\* a pending one, and then the carried ones count too.
Ready(file, b) == \E w \in Wallet : file[b][w].status = "pending"

Selected(file, w) ==
  {b \in Block \ SettledWith(rows, w) :
     Ready(file, b) /\ file[b][w].status \in {"pending", "carried"}}

RowTotal(file, w, S) == SumFunctionOnSet([b \in Block |-> file[b][w].amount], S)

\* Changed for the mutants: a row that carries nothing names an empty id.
GroupOfEmptyId(file, w) ==
  LET S == Selected(file, w) IN
  [wallet |-> w, amount |-> RowTotal(file, w, S), sources |-> S,
   carried |-> UNION {IF file[b][w].carried = {} THEN {0} ELSE file[b][w].carried : b \in S}]

GroupOf(file, w) ==
  LET S == Selected(file, w) IN
  [wallet |-> w, amount |-> RowTotal(file, w, S), sources |-> S,
   carried |-> UNION {file[b][w].carried : b \in S}]

Select ==
  /\ pc["auto"] = "select"
  /\ groups' = {g \in {GroupOf(buf["auto"], w) : w \in Wallet} : Reaches(g.amount)}
  /\ Goto("auto", "send")
  /\ UNCHANGED <<payable, rows, carry, ledger, txs, lock, buf, counters>>

\* payout_wallet_send_aggregated_once reads the file again: its sources must
\* still add up to the amount, and the ledger, alone, must not cover them.
Admissible(g) ==
  /\ \A b \in g.sources : rows[b][g.wallet].status \in {"pending", "carried"}
  /\ RowTotal(rows, g.wallet, g.sources) = g.amount
  /\ g.sources \cap Settled(g.wallet) = {}

Entry(g, ids) == [wallet |-> g.wallet, sources |-> g.sources, carried |-> ids]

Transfer(g, ids) ==
  /\ pc["auto"] = "send" /\ g \in groups /\ Admissible(g)
  /\ ledger' = ledger \cup {Entry(g, ids)}
  /\ txs' = txs \cup {[n |-> Cardinality(txs), wallet |-> g.wallet, amount |-> g.amount,
                      sources |-> g.sources, carried |-> g.carried]}

\* Sent and recorded; what it carried leaves the carry file.
Pay(g) ==
  /\ Transfer(g, g.carried)
  /\ carry' = [carry EXCEPT ![g.wallet] = @ \ g.carried]
  /\ groups' = groups \ {g}
  /\ UNCHANGED <<payable, rows, lock, pc, buf, counters>>

\* Sent, the answer lost: the "ambiguous" line replaces the intent, and neither it
\* nor the line that reconciles it names the carried blocks.
PayTimedOut(g) ==
  /\ timeouts < MaxTimeouts /\ timeouts' = timeouts + 1
  /\ Transfer(g, {})
  /\ groups' = groups \ {g}
  /\ UNCHANGED <<payable, rows, carry, lock, pc, buf, unread, refreshes, refusals, crashes>>

\* Sent, and the run died: the intent stands in the ledger.
PayAndDie(g) ==
  /\ crashes < MaxCrashes /\ crashes' = crashes + 1
  /\ Transfer(g, g.carried)
  /\ groups' = {} /\ Goto("auto", "idle")
  /\ UNCHANGED <<payable, rows, carry, lock, buf, unread, refreshes, refusals, timeouts>>

\* The check of the send blocks it.
Rejected(g) ==
  /\ pc["auto"] = "send" /\ g \in groups /\ ~Admissible(g)
  /\ groups' = groups \ {g}
  /\ UNCHANGED <<payable, rows, carry, ledger, txs, lock, pc, buf, counters>>

\* Put off: the budget of sends is used up, the balance is short, or the wallet
\* refuses.
Refuse(g) ==
  /\ pc["auto"] = "send" /\ g \in groups
  /\ refusals < MaxRefusals /\ refusals' = refusals + 1
  /\ groups' = groups \ {g}
  /\ UNCHANGED <<payable, rows, carry, ledger, txs, lock, pc, buf, unread, refreshes, timeouts, crashes>>

Finish ==
  /\ pc["auto"] = "send" /\ groups = {}
  /\ Goto("auto", "post")
  /\ UNCHANGED <<payable, rows, carry, ledger, txs, lock, buf, groups, counters>>

Generate(p) ==
  Begin(p) \/ BuildCarry(p) \/ SkipGenerate(p) \/ ReadInputs(p) \/ WriteRows(p)

Next ==
  \/ \E b \in Block : Confirm(b)
  \/ \E p \in Run : Generate(p)
  \/ Load \/ Select \/ Finish
  \/ \E g \in groups : Pay(g) \/ PayTimedOut(g) \/ PayAndDie(g) \/ Rejected(g) \/ Refuse(g)

Spec == Init /\ [][Next]_vars

\* The timer starts the auto run again, a run goes on, an operator's refresh
\* ends, and a send is not refused forever.
Fairness ==
  /\ WF_vars(Begin("auto")) /\ WF_vars(Load) /\ WF_vars(Select) /\ WF_vars(Finish)
  /\ \A p \in Run :
       /\ WF_vars(BuildCarry(p)) /\ WF_vars(SkipGenerate(p)) /\ WF_vars(WriteRows(p))
       /\ SF_vars(ReadInputs(p))
  /\ WF_vars(\E g \in groups : Rejected(g))
  /\ \A w \in Wallet : SF_vars(\E g \in groups : g.wallet = w /\ Pay(g))

FairSpec == Spec /\ Fairness

-----------------------------------------------------------------------------
(* Properties *)

\* The files hold rows, ids and groups of the right shape.
TypeOK ==
  /\ payable \subseteq Block /\ rows \in File
  /\ carry \in [Wallet -> SUBSET Block]
  /\ ledger \subseteq [wallet : Wallet, sources : SUBSET Block, carried : SUBSET Block]
  /\ \A t \in txs : t.wallet \in Wallet /\ t.amount \in Nat
  /\ lock \in Run \cup {"free"}
  /\ pc \in [Run -> {"idle", "carry", "read", "write", "load", "select", "send", "post"}]
  /\ buf \in [Run -> File]
  /\ groups \subseteq Group
  /\ unread \in 0 .. MaxUnread /\ refreshes \in 0 .. MaxRefreshes /\ refusals \in 0 .. MaxRefusals
  /\ timeouts \in 0 .. MaxTimeouts /\ crashes \in 0 .. MaxCrashes

Covers(t) == t.sources \cup t.carried
CoveredBlocks(w) == UNION {Covers(t) : t \in {u \in txs : u.wallet = w}}
PaidOut == MapThenSumSet(LAMBDA t : t.amount, txs)
Ours == payable \ Foreign
Rewards == MapThenSumSet(LAMBDA w : Amount(w, Ours), Wallet)

\* A payment is worth exactly the blocks it marks as paid.
PaidInFull == \A t \in txs : t.amount = Amount(t.wallet, Covers(t))

\* payout_value_conservation: payments do not exceed the rewards they come from.
Conserved == PaidOut <= Rewards

\* A block is the source of at most one payment to a wallet, whatever happens.
SourcesOnce ==
  \A t, u \in txs : t.wallet = u.wallet /\ t.sources \cap u.sources # {} => t = u

\* A block is marked as paid only if it is payable and paid the pool, and a payment is
\* worth at least the blocks whose rows it adds up, whatever happens.
SourcesHonoured ==
  \A t \in txs : Covers(t) \subseteq Ours /\ t.amount >= Amount(t.wallet, t.sources)

\* What a wallet is owed is paid once it reaches the minimum.
Owed(w) == Amount(w, Ours \ CoveredBlocks(w))
EventuallyPaid == \A w \in Wallet : (Owed(w) >= MinPayout) ~> (Owed(w) < MinPayout)
=============================================================================
