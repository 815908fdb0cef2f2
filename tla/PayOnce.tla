------------------------------ MODULE PayOnce ------------------------------
(***************************************************************************)
(* What the payment ledger promises, without files, locks or crashes: a    *)
(* payment covers candidates the wallet was never paid for, and what is    *)
(* recorded as paid is a payment; or else its amount is that of another    *)
(* payment to the wallet, and nothing of it was paid.  Where different     *)
(* sends amount to different sums, only what was paid is recorded.         *)
(***************************************************************************)
EXTENDS Naturals

CONSTANTS Candidate, Wallet, AmountOf

VARIABLES
  paid,       \* how often each wallet was paid for each candidate
  payments,   \* what each payment to a wallet was for
  recorded    \* candidates the ledger shows as paid to it

Init ==
  /\ paid = [w \in Wallet |-> [c \in Candidate |-> 0]]
  /\ payments = [w \in Wallet |-> {}]
  /\ recorded = [w \in Wallet |-> {}]

Pay(w, S) ==
  /\ \A c \in S : paid[w][c] = 0
  /\ paid' = [paid EXCEPT ![w] = [c \in Candidate |-> IF c \in S THEN 1 ELSE @[c]]]
  /\ payments' = [payments EXCEPT ![w] = @ \cup {S}]
  /\ UNCHANGED recorded

\* The search by amount takes another payment for one that was never made.
TakenFor(w, S) ==
  /\ \A c \in S : paid[w][c] = 0
  /\ \E T \in payments[w] : AmountOf[T] = AmountOf[S]

\* A payment may stay unrecorded for a while: its sender may have died.
Record(w, S) ==
  /\ S \in payments[w] \/ TakenFor(w, S)
  /\ recorded' = [recorded EXCEPT ![w] = @ \cup S]
  /\ UNCHANGED <<paid, payments>>

Next == \E w \in Wallet, S \in SUBSET Candidate : Pay(w, S) \/ Record(w, S)

Spec == Init /\ [][Next]_<<paid, payments, recorded>>
=============================================================================
