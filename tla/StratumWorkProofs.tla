------------------------- MODULE StratumWorkProofs -------------------------
(***************************************************************************)
(* That no submit is credited twice as it was written, and that a miner    *)
(* that has read all its messages mines at the difficulty its shares are   *)
(* compared with, for any number of connections, nonces, forms of a        *)
(* submit, difficulties and templates, any sizes of the caches, and any    *)
(* interleaving.                                                           *)
(*                                                                         *)
(* The first rests on a fingerprint being no older than the job it is of   *)
(* (CreditInv): since it is kept at least as long as a job, it is there    *)
(* for as long as the job is.  The same proof of work in another form, or  *)
(* for another job of its template, has another fingerprint, and nothing   *)
(* is proved of it.  The second rests on the order in which the handler    *)
(* and the notify loop are granted the lock: all that can be in the queue  *)
(* at once is listed in InStep.                                            *)
(*                                                                         *)
(* Type correctness includes that the caches keep to their sizes and that  *)
(* the job numbers are bounded.  They are because a connection has at most *)
(* one job of each template's content beyond those of its retargets and    *)
(* the synthetic ones; what it has had, or will never have, is counted by  *)
(* Spent.                                                                  *)
(***************************************************************************)
EXTENDS StratumWork, SequenceTheorems, FiniteSetTheorems, WellFoundedInduction, TLAPS

Noted == [of : Nat \X Nonce \X Form, at : Nat]

CreditInv ==
  /\ clock \in Nat /\ counter \in Nat
  /\ \A j \in jobs : j.id \in 1 .. counter /\ j.expires \in Nat
                     /\ clock < j.expires /\ j.expires <= clock + JobTtl
  /\ seen \in Seq(Noted)
  /\ \A i \in DOMAIN seen : seen[i].of[1] <= counter
  /\ credits \in [Submission -> Nat]
  /\ \A f \in Submission : credits[f] > 0 => f[1] <= counter
  /\ \A j \in jobs, n \in Nonce, x \in Form :
       <<j.id, n, x>> \in Submission /\ credits[<<j.id, n, x>>] > 0 => Duplicate(<<j.id, n, x>>)
  /\ \A j \in jobs, i \in DOMAIN seen :
       seen[i].of[1] = j.id => j.expires <= seen[i].at + JobTtl

\* When the cache of the fingerprints is full, the job of the oldest one has left the
\* other cache.
Roomy ==
  Len(seen) >= DupCacheSize => \A j \in jobs : seen[1].of[1] # j.id

-----------------------------------------------------------------------------
(* What is sent again as it was is credited once *)

\* A new job has the next number, whatever is evicted for it.
LEMMA Issued ==
  ASSUME NEW s, NEW level, NEW state, Issue(s, level, state)
  PROVE  /\ jobs' \subseteq jobs \cup {NewJob(s, level)} /\ counter' = counter + 1
         /\ NewJob(s, level).id = counter + 1 /\ NewJob(s, level).expires = clock + JobTtl
         /\ NewJob(s, level).level = level
  BY DEF Issue, Cache, WithoutOldest, NewJob

JobsGrow ==
  \/ jobs' = jobs /\ counter' = counter
  \/ /\ counter' = counter + 1
     /\ \E j : j.id = counter + 1 /\ j.expires = clock + JobTtl /\ jobs' \subseteq jobs \cup {j}

Credit(credited) == Remember(credited) /\ credits' = [credits EXCEPT ![credited] = @ + 1]

\* What a step may do to the jobs, the fingerprints and the credits at one time.
CreditStep ==
  /\ clock' = clock /\ JobsGrow
  /\ \/ UNCHANGED <<seen, credits>>
     \/ \E j \in jobs, n \in Nonce, x \in Form :
          ~Duplicate(<<j.id, n, x>>) /\ Credit(<<j.id, n, x>>)

LEMMA Steps ==
  ASSUME [Next]_vars
  PROVE  Tick \/ CreditStep
<1>1. CASE UNCHANGED vars
  BY <1>1 DEF vars, CreditStep, JobsGrow
<1>2. CASE Tick \/ NewTip \/ Fetch \/ Fetched \/ FetchFails
  BY <1>2 DEF NewTip, Fetch, Fetched, FetchFails, CreditStep, JobsGrow
<1>3. ASSUME NEW s \in Session, NEW level, NEW fixed, Authorize(s, level, fixed)
      PROVE  CreditStep
  BY <1>3, Issued DEF Authorize, CreditStep, JobsGrow
<1>4. ASSUME NEW s \in Session, WakeUp(s) \/ Timeout(s) PROVE CreditStep
  <2>1. ASSUME NEW state, Renew(s, state) PROVE JobsGrow
    BY <2>1, Issued DEF Renew, JobsGrow
  <2> QED BY <1>4, <2>1 DEF WakeUp, Timeout, CreditStep, JobsGrow
<1>5. ASSUME NEW s \in Session, Deliver(s) \/ Disconnect(s) PROVE CreditStep
  BY <1>5 DEF Deliver, Disconnect, CreditStep, JobsGrow
<1>6. ASSUME NEW s \in Session, NEW work, NEW nonce \in Nonce, NEW form \in Form,
             Submit(s, work, nonce, form)
      PROVE  CreditStep
  <2> DEFINE credited == <<work.job.id, nonce, form>>
  <2>1. \/ UNCHANGED <<seen, credits>>
        \/ work.job \in jobs /\ ~Duplicate(credited) /\ Credit(credited)
    BY <1>6 DEF Submit, Accepted, Known, Credit, Fingerprint
  <2>2. JobsGrow
    <3>1. ASSUME NEW level, Retarget(s, level) PROVE JobsGrow
      BY <3>1, Issued DEF Retarget, JobsGrow
    <3> QED BY <1>6, <3>1 DEF Submit, JobsGrow
  <2>3. clock' = clock
    BY <1>6 DEF Submit
  <2> QED BY <2>1, <2>2, <2>3 DEF CreditStep
<1> QED BY <1>1, <1>2, <1>3, <1>4, <1>5, <1>6 DEF Next

LEMMA CreditInit == WorkAssumption /\ Init => CreditInv
<1> SUFFICES ASSUME WorkAssumption, Init PROVE CreditInv
  OBVIOUS
<1>1. <<>> \in Seq(Noted) /\ DOMAIN <<>> = {}
  OBVIOUS
<1> QED
  BY <1>1 DEF Init, InitJobs, CreditInv

\* The expired fingerprints go with the jobs they could be sent for.
LEMMA CreditTick ==
  ASSUME WorkAssumption, CreditInv, CreditedOnce, Tick
  PROVE  CreditInv' /\ CreditedOnce'
<1>1. PICK n \in 0 .. Len(seen) : Forget(n, clock')
  BY DEF Tick
<1>2. /\ clock \in Nat /\ clock' = clock + 1 /\ counter' = counter /\ credits' = credits
      /\ jobs' = {j \in jobs : clock' < j.expires}
      /\ JobTtl \in Nat /\ DupWindow \in Nat /\ JobTtl <= DupWindow
      /\ seen \in Seq(Noted) /\ Len(seen) \in Nat /\ DOMAIN seen = 1 .. Len(seen)
  BY LenProperties DEF Tick, CreditInv, WorkAssumption
<1>3. /\ seen' \in Seq(Noted) /\ Len(seen') = Len(seen) - n
      /\ DOMAIN seen' = 1 .. Len(seen) - n
      /\ \A i \in 1 .. Len(seen) - n : seen'[i] = seen[n + i]
  <2>1. \A i \in n + 1 .. Len(seen) : seen[i] \in Noted
    BY <1>2, ElementOfSeq
  <2>2. /\ SubSeq(seen, n + 1, Len(seen)) \in Seq(Noted)
        /\ Len(SubSeq(seen, n + 1, Len(seen))) =
             IF n + 1 <= Len(seen) THEN Len(seen) - (n + 1) + 1 ELSE 0
        /\ \A i \in 1 .. Len(seen) - (n + 1) + 1 :
             SubSeq(seen, n + 1, Len(seen))[i] = seen[n + 1 + i - 1]
    <3>1. n + 1 \in Int /\ Len(seen) \in Int
      BY <1>2
    <3> QED BY ONLY <2>1, <3>1, SubSeqProperties
  <2>3. seen' = SubSeq(seen, n + 1, Len(seen))
    BY <1>1 DEF Forget
  <2>4. PICK l \in Nat : l = Len(seen)
    BY <1>2
  <2>5. /\ (IF n + 1 <= l THEN l - (n + 1) + 1 ELSE 0) = l - n
        /\ l - (n + 1) + 1 = l - n
        /\ \A i \in 1 .. l - n : n + 1 + i - 1 = n + i
    BY <2>4
  <2>6. Len(seen') = Len(seen) - n
        /\ \A i \in 1 .. Len(seen) - n : seen'[i] = seen[n + i]
    BY <2>2, <2>3, <2>4, <2>5
  <2> QED BY <2>2, <2>3, <2>6, LenProperties
<1>4. \A i \in DOMAIN seen' : n + i \in DOMAIN seen /\ seen'[i] = seen[n + i]
  BY <1>2, <1>3
<1>5. ASSUME NEW j \in jobs', NEW m \in Nonce, NEW x \in Form, Duplicate(<<j.id, m, x>>)
      PROVE  Duplicate(<<j.id, m, x>>)'
  <2>1. PICK i \in DOMAIN seen : seen[i].of = <<j.id, m, x>>
    BY <1>5 DEF Duplicate
  <2>2. /\ j \in jobs /\ j.expires \in Nat /\ clock + 1 < j.expires
        /\ j.expires <= seen[i].at + JobTtl /\ seen[i].at \in Nat
    <3>1. seen[i] \in Noted
      BY <1>2, ElementOfSeq
    <3>2. j \in jobs /\ clock + 1 < j.expires /\ seen[i].of[1] = j.id
      BY <1>2, <2>1
    <3> QED BY <2>1, <3>1, <3>2 DEF CreditInv, Noted
  <2>3. Remembers(seen[i], clock')
    BY <1>2, <2>2 DEF Remembers
  <2>4. n < i
    BY <1>1, <2>3 DEF Forget
  <2>5. i - n \in DOMAIN seen' /\ seen'[i - n] = seen[i]
    BY <1>2, <1>3, <2>4
  <2> QED BY <2>1, <2>5 DEF Duplicate
<1>6. ASSUME NEW j \in jobs', NEW i \in DOMAIN seen', seen'[i].of[1] = j.id
      PROVE  j.expires <= seen'[i].at + JobTtl
  BY <1>2, <1>4, <1>6 DEF CreditInv
<1>7. \A j \in jobs' : j.id \in 1 .. counter /\ j.expires \in Nat
                       /\ clock' < j.expires /\ j.expires <= clock' + JobTtl
  BY <1>2 DEF CreditInv
<1>8. \A i \in DOMAIN seen' : seen'[i].of[1] <= counter
  BY <1>4 DEF CreditInv
<1>9. \A j \in jobs', m \in Nonce, x \in Form :
        <<j.id, m, x>> \in Submission /\ credits[<<j.id, m, x>>] > 0 => Duplicate(<<j.id, m, x>>)'
  BY <1>2, <1>5 DEF CreditInv
<1>10. CreditInv'
  BY <1>2, <1>3, <1>6, <1>7, <1>8, <1>9 DEF CreditInv
<1> QED BY <1>2, <1>10 DEF CreditedOnce

\* What is remembered stays remembered, as far as it is of a job in the cache.
LEMMA Remembered ==
  ASSUME WorkAssumption, Roomy, seen \in Seq(Noted), NEW credited \in Nat \X Nonce \X Form,
         clock \in Nat, Remember(credited)
  PROVE  /\ seen' \in Seq(Noted)
         /\ \E i \in DOMAIN seen' : seen'[i] = [of |-> credited, at |-> clock]
         /\ \A i \in DOMAIN seen' : \/ seen'[i] = [of |-> credited, at |-> clock]
                                    \/ \E k \in DOMAIN seen : seen'[i] = seen[k]
         /\ \A k \in DOMAIN seen :
              \/ \E i \in DOMAIN seen' : seen'[i] = seen[k]
              \/ \A j \in jobs : seen[k].of[1] # j.id
<1> DEFINE new == [of |-> credited, at |-> clock]
           grown == Append(seen, new)
<1>1. new \in Noted
  BY DEF Noted
<1>2. /\ grown \in Seq(Noted) /\ Len(grown) = Len(seen) + 1 /\ Len(seen) \in Nat
      /\ \A i \in 1 .. Len(seen) : grown[i] = seen[i]
      /\ grown[Len(seen) + 1] = new
      /\ DOMAIN seen = 1 .. Len(seen) /\ DOMAIN grown = 1 .. Len(seen) + 1 /\ grown # <<>>
  BY <1>1, AppendProperties, LenProperties
<1>3. seen' = IF Len(grown) > DupCacheSize THEN Tail(grown) ELSE grown
  BY DEF Remember
<1> HIDE DEF new, grown
<1>4. CASE Len(grown) > DupCacheSize
  <2>1. /\ Tail(grown) \in Seq(Noted) /\ Len(Tail(grown)) = Len(grown) - 1
        /\ \A i \in 1 .. Len(Tail(grown)) : Tail(grown)[i] = grown[i + 1]
    BY <1>2, HeadTailProperties
  <2>2. DOMAIN seen' = 1 .. Len(seen) /\ \A i \in 1 .. Len(seen) : seen'[i] = grown[i + 1]
    BY <1>2, <1>3, <1>4, <2>1, LenProperties
  <2>3. Len(seen) >= DupCacheSize /\ DupCacheSize \in Nat \ {0}
    BY <1>2, <1>4 DEF WorkAssumption
  <2>4. \A j \in jobs : seen[1].of[1] # j.id
    BY <2>3 DEF Roomy
  <2>5. PICK l \in Nat \ {0} : l = Len(seen)
    <3>1. \A d \in Nat \ {0}, m \in Nat : m >= d => m \in Nat \ {0}
      OBVIOUS
    <3> QED BY ONLY <1>2, <2>3, <3>1
  <2>6. seen'[l] = new /\ l \in DOMAIN seen'
    BY <1>2, <2>2, <2>5
  <2>7. \A i \in 1 .. l : i = l \/ (seen'[i] = seen[i + 1] /\ i + 1 \in 1 .. l)
    <3>1. \A i \in 1 .. l : i = l \/ i + 1 \in 1 .. l
      BY <2>5
    <3> QED BY <1>2, <2>2, <2>5, <3>1
  <2>8. ASSUME NEW k \in DOMAIN seen, k # 1
        PROVE  \E i \in DOMAIN seen' : seen'[i] = seen[k]
    <3>1. k - 1 \in 1 .. l /\ k - 1 # l /\ k - 1 + 1 = k
      BY <1>2, <2>5, <2>8
    <3>2. k - 1 \in DOMAIN seen' /\ seen'[k - 1] = seen[k]
      BY <2>2, <2>5, <2>7, <3>1
    <3> QED BY <3>2
  <2>9. seen' \in Seq(Noted)
    BY <1>3, <1>4, <2>1
  <2>10. \A i \in DOMAIN seen' : seen'[i] = new \/ \E k \in DOMAIN seen : seen'[i] = seen[k]
    BY <1>2, <2>2, <2>5, <2>6, <2>7
  <2>11. \A k \in DOMAIN seen : \/ \E i \in DOMAIN seen' : seen'[i] = seen[k]
                                \/ \A j \in jobs : seen[k].of[1] # j.id
    BY <2>4, <2>8
  <2> QED BY <2>6, <2>9, <2>10, <2>11 DEF new
<1>5. CASE ~(Len(grown) > DupCacheSize)
  <2>1. seen' = grown
    BY <1>3, <1>5
  <2>2. Len(seen) + 1 \in DOMAIN grown /\ \A i \in DOMAIN seen : i \in DOMAIN grown
    BY <1>2
  <2>3. \A i \in DOMAIN grown : i = Len(seen) + 1 \/ i \in DOMAIN seen
    BY <1>2
  <2> QED BY <1>2, <2>1, <2>2, <2>3 DEF new
<1> QED BY <1>4, <1>5

LEMMA NumberOf ==
  ASSUME NEW q \in Seq(Noted), NEW i \in DOMAIN q
  PROVE  q[i].of[1] \in Nat
<1>1. i \in 1 .. Len(q)
  BY LenProperties
<1>2. q[i] \in Noted
  BY <1>1, ElementOfSeq
<1> QED BY <1>2 DEF Noted

LEMMA CreditGrow ==
  ASSUME WorkAssumption, CreditInv, CreditedOnce, Roomy, CreditStep
  PROVE  CreditInv' /\ CreditedOnce'
<1>t. /\ clock \in Nat /\ clock' = clock /\ counter \in Nat /\ JobTtl \in Nat \ {0}
      /\ counter' \in {counter, counter + 1} /\ counter' \in Nat
  BY DEF CreditStep, JobsGrow, CreditInv, WorkAssumption
<1>j. \A j \in jobs' :
        \/ j \in jobs
        \/ j.id = counter + 1 /\ j.expires = clock + JobTtl /\ counter' = counter + 1
  BY DEF CreditStep, JobsGrow
<1>1. \A j \in jobs' : j.id \in 1 .. counter' /\ j.expires \in Nat
                       /\ clock < j.expires /\ j.expires <= clock + JobTtl
  <2> SUFFICES ASSUME NEW j \in jobs'
               PROVE  /\ j.id \in 1 .. counter' /\ j.expires \in Nat
                      /\ clock < j.expires /\ j.expires <= clock + JobTtl
    OBVIOUS
  <2>1. CASE j \in jobs
    BY <1>t, <2>1 DEF CreditInv
  <2>2. CASE j.id = counter + 1 /\ j.expires = clock + JobTtl /\ counter' = counter + 1
    BY <1>t, <2>2
  <2> QED BY <1>j, <2>1, <2>2
<1>2. CASE UNCHANGED <<seen, credits>>
  <2>1. \A f \in Submission : credits[f] > 0 => f[1] <= counter'
    BY <1>t DEF CreditInv, Submission
  <2>2. \A i \in DOMAIN seen : seen[i].of[1] <= counter'
    <3>1. \A i \in DOMAIN seen : seen[i].of[1] \in Nat
      BY NumberOf DEF CreditInv
    <3> QED BY <1>t, <3>1 DEF CreditInv
  <2>3. ASSUME NEW j \in jobs', NEW n \in Nonce, NEW x \in Form, <<j.id, n, x>> \in Submission,
               credits[<<j.id, n, x>>] > 0
        PROVE  Duplicate(<<j.id, n, x>>)'
    <3>1. j \in jobs
      <4>1. j.id <= counter
        BY <2>3 DEF CreditInv
      <4> QED BY <1>t, <1>j, <4>1
    <3> QED BY <1>2, <2>3, <3>1 DEF CreditInv, Duplicate
  <2>4. ASSUME NEW j \in jobs', NEW i \in DOMAIN seen, seen[i].of[1] = j.id
        PROVE  j.expires <= seen[i].at + JobTtl
    <3>1. j \in jobs
      <4>1. j.id <= counter
        BY <2>4 DEF CreditInv
      <4> QED BY <1>t, <1>j, <4>1
    <3> QED BY <2>4, <3>1 DEF CreditInv
  <2> QED BY <1>1, <1>2, <1>t, <2>1, <2>2, <2>3, <2>4 DEF CreditInv, CreditedOnce
<1>3. CASE \E j \in jobs, n \in Nonce, x \in Form :
             ~Duplicate(<<j.id, n, x>>) /\ Credit(<<j.id, n, x>>)
  <2>1. PICK k \in jobs, o \in Nonce, y \in Form :
          ~Duplicate(<<k.id, o, y>>) /\ Credit(<<k.id, o, y>>)
    BY <1>3
  <2> DEFINE credited == <<k.id, o, y>>
             new == [of |-> credited, at |-> clock]
  <2>2. k.id \in Nat /\ k.id <= counter /\ credited \in Nat \X Nonce \X Form /\ credited[1] = k.id
        /\ k.expires <= clock + JobTtl
    BY <1>t DEF CreditInv
  <2>3. /\ seen' \in Seq(Noted)
        /\ \E i \in DOMAIN seen' : seen'[i] = new
        /\ \A i \in DOMAIN seen' : seen'[i] = new \/ \E m \in DOMAIN seen : seen'[i] = seen[m]
        /\ \A m \in DOMAIN seen :
             \/ \E i \in DOMAIN seen' : seen'[i] = seen[m]
             \/ \A j \in jobs : seen[m].of[1] # j.id
    BY <2>1, <2>2, Remembered DEF Credit, CreditInv
  <2>4. credits' = [credits EXCEPT ![credited] = credits[credited] + 1]
    BY <2>1 DEF Credit
  <2>5. credited \in Submission => credits[credited] = 0
    BY <2>1 DEF CreditInv, Submission
  <2> HIDE DEF credited
  <2>n. new.of = credited /\ new.at = clock
    OBVIOUS
  <2> HIDE DEF new
  <2>6. credits' \in [Submission -> Nat] /\ CreditedOnce'
        /\ \A f \in Submission : credits'[f] > 0 => f = credited \/ credits[f] > 0
    <3>1. credits \in [Submission -> Nat]
      BY DEF CreditInv
    <3>2. credits' \in [Submission -> Nat]
      <4>1. CASE credited \in Submission
        BY <2>4, <2>5, <3>1, <4>1
      <4>2. CASE credited \notin Submission
        BY <2>4, <3>1, <4>2
      <4> QED BY <4>1, <4>2
    <3>3. \A f \in Submission : credits'[f] = IF f = credited THEN 1 ELSE credits[f]
      BY <2>4, <2>5, <3>1
    <3>4. \A f \in Submission : credits[f] <= 1
      BY DEF CreditedOnce
    <3>5. CreditedOnce'
      BY <3>3, <3>4 DEF CreditedOnce
    <3> QED BY <3>2, <3>3, <3>5
  <2>7. \A f \in Submission : credits'[f] > 0 => f[1] <= counter'
    <3> SUFFICES ASSUME NEW f \in Submission, credits'[f] > 0 PROVE f[1] <= counter'
      OBVIOUS
    <3>1. f[1] <= counter
      BY <2>2, <2>6 DEF CreditInv
    <3>2. f[1] \in Nat
      BY DEF Submission
    <3> QED BY <1>t, <3>1, <3>2
  <2>8. \A i \in DOMAIN seen' : seen'[i].of[1] <= counter'
    <3> SUFFICES ASSUME NEW i \in DOMAIN seen' PROVE seen'[i].of[1] <= counter'
      OBVIOUS
    <3>1. seen'[i].of[1] <= counter
      BY <2>2, <2>3, <2>n DEF CreditInv
    <3>2. seen'[i].of[1] \in Nat
      BY <2>3, NumberOf
    <3> QED BY <1>t, <3>1, <3>2
  <2>9. ASSUME NEW j \in jobs', NEW n \in Nonce, NEW x \in Form, <<j.id, n, x>> \in Submission,
               credits'[<<j.id, n, x>>] > 0
        PROVE  Duplicate(<<j.id, n, x>>)'
    <3>1. CASE <<j.id, n, x>> = credited
      BY <2>3, <2>n, <3>1 DEF Duplicate
    <3>2. CASE <<j.id, n, x>> # credited
      <4>1. credits[<<j.id, n, x>>] > 0
        BY <2>6, <2>9, <3>2
      <4>2. j \in jobs
        <5>1. j.id <= counter
          BY <2>9, <4>1 DEF CreditInv
        <5> QED BY <1>t, <1>j, <5>1
      <4>3. PICK m \in DOMAIN seen : seen[m].of = <<j.id, n, x>>
        BY <2>9, <4>1, <4>2 DEF CreditInv, Duplicate
      <4>4. PICK i \in DOMAIN seen' : seen'[i] = seen[m]
        BY <2>3, <4>2, <4>3
      <4> QED BY <4>3, <4>4 DEF Duplicate
    <3> QED BY <3>1, <3>2
  <2>10. ASSUME NEW j \in jobs', NEW i \in DOMAIN seen', seen'[i].of[1] = j.id
         PROVE  j.expires <= seen'[i].at + JobTtl
    <3>1. CASE seen'[i] = new
      BY <1>1, <2>n, <3>1
    <3>2. CASE seen'[i] # new
      <4>1. PICK m \in DOMAIN seen : seen'[i] = seen[m]
        BY <2>3, <3>2
      <4>2. j \in jobs
        <5>1. j.id <= counter
          BY <2>10, <4>1 DEF CreditInv
        <5> QED BY <1>t, <1>j, <5>1
      <4> QED BY <2>10, <4>1, <4>2 DEF CreditInv
    <3> QED BY <3>1, <3>2
  <2> QED BY <1>1, <1>t, <2>3, <2>6, <2>7, <2>8, <2>9, <2>10 DEF CreditInv
<1> QED BY <1>2, <1>3 DEF CreditStep

\* A share that is sent again as it was, under the same login and in the same
\* spelling, is known as a duplicate for as long as its job is known: unless the
\* fingerprints outgrow their cache while their jobs are still in theirs.
THEOREM SubmitsCreditedOnce == Spec /\ []Roomy => []CreditedOnce
<1>1. Init => CreditInv /\ CreditedOnce
  BY WorkAssumption, CreditInit DEF Init, CreditedOnce
<1>2. Roomy /\ (CreditInv /\ CreditedOnce) /\ [Next]_vars => (CreditInv /\ CreditedOnce)'
  BY WorkAssumption, Steps, CreditTick, CreditGrow
<1> QED BY <1>1, <1>2, PTL DEF Spec

-----------------------------------------------------------------------------
(* What waits for the lock *)

Announces(m, l) == m.kind = "notify" /\ m.job.level = l

Replies(e) == e.messages = <<Reply>>
All(e, l) ==
  /\ Len(e.messages) = 3 /\ Announces(e.messages[3], l)
  /\ e.messages = <<Reply, SetDifficulty(l), e.messages[3]>>
Both(e, l) ==
  /\ Len(e.messages) = 2 /\ Announces(e.messages[2], l)
  /\ e.messages = <<SetDifficulty(l), e.messages[2]>>
Last(e, l) ==
  /\ Len(e.messages) = 1 /\ Announces(e.messages[1], l)
  /\ e.messages = <<e.messages[1]>>

Of(e, who) == DOMAIN e = {"who", "messages"} /\ e.who = who

ByHandler(e, l) ==
  Of(e, "handler") /\ (Replies(e) \/ All(e, l) \/ Both(e, l) \/ Last(e, l))
ByLoop(e, l) == Of(e, "loop") /\ (Both(e, l) \/ Last(e, l))

\* The difficulty is still to come.
Told(e, l) == All(e, l) \/ Both(e, l)

\* Of work at the level l.
AtLevel(work, l) == work.level = l /\ work.job.level = l

One(q, work, l) ==
  /\ q = <<q[1]>> /\ (ByHandler(q[1], l) \/ ByLoop(q[1], l))
  /\ Replies(q[1]) => AtLevel(work, l)
  /\ Last(q[1], l) => work.level = l

\* Both have something to send, all of it at the level of the session.
Agreed(h, e, work, l) ==
  ByHandler(h, l) /\ ByLoop(e, l) /\ (Told(h, l) \/ Told(e, l) \/ work.level = l)

\* The loop began before the handler changed the level: it will end first.
LoopFirst(e, h, l) ==
  /\ Of(e, "loop") /\ Of(h, "handler")
  /\ \E k : \/ All(h, l) /\ (Both(e, k) \/ Last(e, k))
            \/ Both(h, l) /\ Last(e, k)
LoopNext(h, e, l) ==
  /\ Of(h, "handler") /\ Of(e, "loop") /\ All(h, l) /\ \E k : Last(e, k)

Two(q, work, l) ==
  /\ q = <<q[1], q[2]>>
  /\ \/ Agreed(q[1], q[2], work, l) \/ Agreed(q[2], q[1], work, l)
     \/ LoopFirst(q[1], q[2], l) \/ LoopNext(q[1], q[2], l)

InStep(q, work, l) ==
  (q = <<>> /\ AtLevel(work, l)) \/ One(q, work, l) \/ Two(q, work, l)

\* What is queued for a connection, and when there is nothing.
Queued(s) ==
  /\ InStep(sending[s], miner[s].now, session[s].level)
  /\ session[s].phase \in {"new", "gone"} => sending[s] = <<>>
  /\ session[s].phase = "new" => miner[s] = [now |-> NoWork, before |-> NoWork]
  /\ session[s].phase = "authorizing" => \E e : sending[s] = <<e>> /\ e.who = "handler"

Shape ==
  /\ DOMAIN session = Session /\ DOMAIN sending = Session /\ DOMAIN miner = Session
  /\ \A s \in Session :
       /\ DOMAIN session[s] = {"phase", "level", "fixed", "current", "anchor", "wake"}
       /\ DOMAIN miner[s] = {"now", "before"} /\ DOMAIN miner[s].now = {"job", "level"}

QueueInv == Shape /\ \A s \in Session : Queued(s)

-----------------------------------------------------------------------------
(* Tuples of messages and of those who send them *)

LEMMA TailOfOne == ASSUME NEW a PROVE Head(<<a>>) = a /\ Tail(<<a>>) = <<>> /\ <<a>> # <<>>
  OBVIOUS

LEMMA TailOfTwo ==
  ASSUME NEW a, NEW b
  PROVE  Head(<<a, b>>) = a /\ Tail(<<a, b>>) = <<b>> /\ <<a, b>> # <<>> /\ <<b>> # <<>>
  OBVIOUS

LEMMA TailOfThree ==
  ASSUME NEW a, NEW b, NEW c
  PROVE  /\ Head(<<a, b, c>>) = a /\ Tail(<<a, b, c>>) = <<b, c>>
         /\ <<a, b, c>> # <<>> /\ <<b, c>> # <<>>
  OBVIOUS

LEMMA AppendToNone == ASSUME NEW a PROVE Append(<<>>, a) = <<a>>
  OBVIOUS

LEMMA AppendToOne == ASSUME NEW a, NEW b PROVE Append(<<a>>, b) = <<a, b>>
<1>1. <<a>> \in Seq({a, b}) /\ Len(<<a>>) = 1 /\ <<a, b>> \in Seq({a, b}) /\ Len(<<a, b>>) = 2
  OBVIOUS
<1>2. /\ Append(<<a>>, b) \in Seq({a, b}) /\ Len(Append(<<a>>, b)) = 2
      /\ Append(<<a>>, b)[1] = a /\ Append(<<a>>, b)[2] = b
  BY <1>1, AppendProperties
<1>3. /\ \A i \in 1 .. 2 : i = 1 \/ i = 2
      /\ <<a, b>>[1] = a /\ <<a, b>>[2] = b
  OBVIOUS
<1>4. \A i \in 1 .. 2 : Append(<<a>>, b)[i] = <<a, b>>[i]
  BY <1>2, <1>3
<1> QED BY <1>1, <1>2, <1>4, SeqEqual

\* What is left of a sender's messages when one has gone out.
Onward(e) == [e EXCEPT !.messages = Tail(e.messages)]
First(e) == Head(e.messages)
Done(e) == Tail(e.messages) = <<>>

\* The stages follow one another, and no two are the same.
LEMMA Stages ==
  ASSUME NEW e, NEW who, Of(e, who), NEW l
  PROVE  /\ Of(Onward(e), who)
         /\ Replies(e) => Done(e) /\ First(e) = Reply
         /\ All(e, l) => ~Done(e) /\ First(e) = Reply /\ Both(Onward(e), l)
         /\ Both(e, l) => ~Done(e) /\ First(e) = SetDifficulty(l) /\ Last(Onward(e), l)
         /\ Last(e, l) => Done(e) /\ Announces(First(e), l)
<1>1. Of(Onward(e), who) /\ Onward(e).messages = Tail(e.messages)
  BY DEF Of, Onward
<1>2. Replies(e) => Done(e) /\ First(e) = Reply
  BY TailOfOne DEF Replies, Done, First
<1>3. ASSUME All(e, l) PROVE ~Done(e) /\ First(e) = Reply /\ Both(Onward(e), l)
  <2>1. PICK x : e.messages = <<Reply, SetDifficulty(l), x>> /\ Announces(x, l)
    BY <1>3 DEF All
  <2>2. Onward(e).messages = <<SetDifficulty(l), x>>
    BY <1>1, <2>1, TailOfThree
  <2> QED BY <1>1, <2>1, <2>2, TailOfThree DEF Both, Done, First
<1>4. ASSUME Both(e, l) PROVE ~Done(e) /\ First(e) = SetDifficulty(l) /\ Last(Onward(e), l)
  <2>1. PICK x : e.messages = <<SetDifficulty(l), x>> /\ Announces(x, l)
    BY <1>4 DEF Both
  <2>2. Onward(e).messages = <<x>>
    BY <1>1, <2>1, TailOfTwo
  <2> QED BY <1>1, <2>1, <2>2, TailOfTwo DEF Last, Done, First
<1>5. Last(e, l) => Done(e) /\ Announces(First(e), l)
  BY TailOfOne DEF Last, Done, First
<1> QED BY <1>1, <1>2, <1>3, <1>4, <1>5

LEMMA StagesDiffer ==
  ASSUME NEW e, NEW k, NEW l
  PROVE  /\ Replies(e) => ~All(e, l) /\ ~Both(e, l) /\ ~Last(e, l)
         /\ Last(e, k) => ~All(e, l) /\ ~Both(e, l)
         /\ Both(e, k) => ~All(e, l)
<1>1. Len(<<Reply>>) = 1 /\ <<Reply>>[1].kind = "reply"
  BY DEF Reply
<1> QED BY <1>1 DEF Replies, All, Both, Last, Announces

\* What remains in the queue.
Rest(q) == IF Done(Head(q)) THEN Tail(q) ELSE Append(Tail(q), Onward(Head(q)))

LEMMA RestOf ==
  ASSUME NEW e, NEW f
  PROVE  /\ Rest(<<e>>) = (IF Done(e) THEN <<>> ELSE <<Onward(e)>>)
         /\ Rest(<<e, f>>) = (IF Done(e) THEN <<f>> ELSE <<f, Onward(e)>>)
<1>1. Head(<<e>>) = e /\ Tail(<<e>>) = <<>> /\ Head(<<e, f>>) = e /\ Tail(<<e, f>>) = <<f>>
  BY TailOfOne, TailOfTwo
<1>2. Append(<<>>, Onward(e)) = <<Onward(e)>>
  BY AppendToNone
<1>3. Append(<<f>>, Onward(e)) = <<f, Onward(e)>>
  BY AppendToOne
<1> QED BY <1>1, <1>2, <1>3 DEF Rest

\* What the miner works on after a message.
Got(work, m) == CASE m.kind = "difficulty" -> [work EXCEPT !.level = m.level]
                  [] m.kind = "notify"     -> [work EXCEPT !.job = m.job]
                  [] m.kind = "reply"      -> work

LEMMA GotOf ==
  ASSUME NEW work, DOMAIN work = {"job", "level"}, NEW l
  PROVE  /\ DOMAIN Got(work, SetDifficulty(l)) = {"job", "level"}
         /\ Got(work, Reply) = work
         /\ Got(work, SetDifficulty(l)).level = l
         /\ \A m : Announces(m, l) =>
              /\ DOMAIN Got(work, m) = {"job", "level"}
              /\ Got(work, m).level = work.level /\ Got(work, m).job.level = l
  BY DEF Got, Reply, SetDifficulty, Announces

LEMMA OneOf ==
  ASSUME NEW e, NEW work, NEW l, ByHandler(e, l) \/ ByLoop(e, l),
         Replies(e) => AtLevel(work, l), Last(e, l) => work.level = l
  PROVE  InStep(<<e>>, work, l)
  BY DEF InStep, One

LEMMA TwoOf ==
  ASSUME NEW e, NEW f, NEW work, NEW l,
         \/ Agreed(e, f, work, l) \/ Agreed(f, e, work, l)
         \/ LoopFirst(e, f, l) \/ LoopNext(e, f, l)
  PROVE  InStep(<<e, f>>, work, l)
  BY DEF InStep, Two

LEMMA OneQueued ==
  ASSUME NEW e, NEW work, NEW l, InStep(<<e>>, work, l)
  PROVE  ByHandler(e, l) \/ ByLoop(e, l)
<1>1. <<e>> # <<>> /\ \A f, h : <<e>> # <<f, h>>
  OBVIOUS
<1>2. \A f : <<e>> = <<f>> => e = f
  OBVIOUS
<1> QED BY <1>1, <1>2 DEF InStep, One, Two

\* One message goes out.
LEMMA Delivered ==
  ASSUME NEW q, NEW work, DOMAIN work = {"job", "level"}, NEW l, InStep(q, work, l), q # <<>>
  PROVE  InStep(Rest(q), Got(work, First(Head(q))), l)
<1>1. CASE One(q, work, l)
  <2>1. PICK e : /\ q = <<e>> /\ (ByHandler(e, l) \/ ByLoop(e, l))
                 /\ Replies(e) => AtLevel(work, l)
                 /\ Last(e, l) => work.level = l
    BY <1>1 DEF One
  <2>2. Head(q) = e /\ Rest(q) = IF Done(e) THEN <<>> ELSE <<Onward(e)>>
    BY <2>1, TailOfOne, RestOf
  <2>3. PICK who \in {"handler", "loop"} :
          /\ Of(e, who) /\ Of(Onward(e), who)
          /\ ByHandler(e, l) => who = "handler"
          /\ ByLoop(e, l) => who = "loop"
    <3>1. CASE ByHandler(e, l)
      BY <3>1, Stages DEF ByHandler, ByLoop, Of
    <3>2. CASE ByLoop(e, l)
      BY <3>2, Stages DEF ByHandler, ByLoop, Of
    <3> QED BY <2>1, <3>1, <3>2
  <2>4. CASE Replies(e)
    BY <2>1, <2>2, <2>3, <2>4, Stages, GotOf DEF InStep
  <2>5. CASE All(e, l)
    <3>1. ~Done(e) /\ Both(Onward(e), l) /\ who = "handler"
      BY <2>1, <2>3, <2>5, Stages, StagesDiffer DEF ByHandler, ByLoop
    <3>2. ByHandler(Onward(e), l) /\ ~Replies(Onward(e)) /\ ~Last(Onward(e), l)
      BY <2>3, <3>1, StagesDiffer DEF ByHandler
    <3> QED BY <2>2, <3>1, <3>2, OneOf
  <2>6. CASE Both(e, l)
    <3>1. ~Done(e) /\ Last(Onward(e), l) /\ First(e) = SetDifficulty(l)
      BY <2>3, <2>6, Stages
    <3>2. (ByHandler(Onward(e), l) \/ ByLoop(Onward(e), l)) /\ ~Replies(Onward(e))
      BY <2>3, <3>1, StagesDiffer DEF ByHandler, ByLoop
    <3>3. Got(work, First(e)).level = l
      BY <3>1, GotOf
    <3> QED BY <2>2, <3>1, <3>2, <3>3, OneOf
  <2>7. CASE Last(e, l)
    <3>1. Done(e) /\ Announces(First(e), l) /\ work.level = l
      BY <2>1, <2>3, <2>7, Stages
    <3>2. AtLevel(Got(work, First(e)), l)
      BY <3>1, GotOf DEF AtLevel
    <3> QED BY <2>2, <3>1, <3>2 DEF InStep
  <2> QED BY <2>1, <2>4, <2>5, <2>6, <2>7 DEF ByHandler, ByLoop
<1>2. CASE Two(q, work, l)
  <2>1. PICK e, f : /\ q = <<e, f>>
                    /\ \/ Agreed(e, f, work, l) \/ Agreed(f, e, work, l)
                       \/ LoopFirst(e, f, l) \/ LoopNext(e, f, l)
    BY <1>2 DEF Two
  <2>2. Head(q) = e /\ Rest(q) = IF Done(e) THEN <<f>> ELSE <<f, Onward(e)>>
    BY <2>1, TailOfTwo, RestOf
  <2> DEFINE now == Got(work, First(e))
  <2>3. ASSUME Agreed(e, f, work, l) PROVE InStep(Rest(q), now, l)
    <3>1. /\ Of(e, "handler") /\ Of(Onward(e), "handler") /\ ByLoop(f, l) /\ ByHandler(e, l)
          /\ Both(f, l) \/ Last(f, l)
          /\ Told(e, l) \/ Told(f, l) \/ work.level = l
      BY <2>3, Stages DEF Agreed, ByHandler, ByLoop
    <3>2. CASE Replies(e)
      <4>1. Done(e) /\ now = work /\ (Both(f, l) \/ work.level = l) /\ ~Replies(f)
        BY <3>1, <3>2, Stages, StagesDiffer, GotOf DEF Told
      <4> QED BY <2>2, <3>1, <4>1, OneOf, StagesDiffer
    <3>3. CASE All(e, l)
      <4>1. ~Done(e) /\ Both(Onward(e), l)
        BY <3>1, <3>3, Stages
      <4>2. Agreed(Onward(e), f, now, l)
        BY <3>1, <4>1 DEF Agreed, ByHandler, Told
      <4> QED BY <2>2, <4>1, <4>2, TwoOf
    <3>4. CASE Both(e, l)
      <4>1. ~Done(e) /\ Last(Onward(e), l) /\ now.level = l
        BY <3>1, <3>4, Stages, GotOf
      <4>2. Agreed(Onward(e), f, now, l)
        BY <3>1, <4>1 DEF Agreed, ByHandler
      <4> QED BY <2>2, <4>1, <4>2, TwoOf
    <3>5. CASE Last(e, l)
      <4>1. Done(e) /\ now.level = work.level /\ ~Replies(f)
        BY <3>1, <3>5, Stages, StagesDiffer, GotOf
      <4>2. Last(f, l) => now.level = l
        BY <3>1, <3>5, <4>1, StagesDiffer DEF Told
      <4> QED BY <2>2, <3>1, <4>1, <4>2, OneOf
    <3> QED BY <3>1, <3>2, <3>3, <3>4, <3>5 DEF ByHandler
  <2>4. ASSUME Agreed(f, e, work, l) PROVE InStep(Rest(q), now, l)
    <3>1. /\ Of(e, "loop") /\ Of(Onward(e), "loop") /\ ByHandler(f, l)
          /\ Both(e, l) \/ Last(e, l)
          /\ Told(e, l) \/ Told(f, l) \/ work.level = l
      BY <2>4, Stages DEF Agreed, ByHandler, ByLoop
    <3>2. CASE Both(e, l)
      <4>1. ~Done(e) /\ Last(Onward(e), l) /\ now.level = l
        BY <3>1, <3>2, Stages, GotOf
      <4>2. Agreed(f, Onward(e), now, l)
        BY <3>1, <4>1 DEF Agreed, ByLoop
      <4> QED BY <2>2, <4>1, <4>2, TwoOf
    <3>3. CASE Last(e, l)
      <4>1. /\ Done(e) /\ now.level = work.level /\ now.job.level = l
            /\ (Told(f, l) \/ work.level = l)
        BY <3>1, <3>3, Stages, StagesDiffer, GotOf DEF Told
      <4>2. (Replies(f) => AtLevel(now, l)) /\ (Last(f, l) => now.level = l)
        BY <4>1, StagesDiffer DEF Told, AtLevel
      <4> QED BY <2>2, <3>1, <4>1, <4>2, OneOf
    <3> QED BY <3>1, <3>2, <3>3
  <2>5. ASSUME LoopFirst(e, f, l) PROVE InStep(Rest(q), now, l)
    <3>1. PICK k : \/ All(f, l) /\ (Both(e, k) \/ Last(e, k))
                   \/ Both(f, l) /\ Last(e, k)
      BY <2>5 DEF LoopFirst
    <3>2. Of(e, "loop") /\ Of(Onward(e), "loop") /\ Of(f, "handler")
      BY <2>5, Stages DEF LoopFirst
    <3>3. CASE Both(e, k)
      <4>1. ~Done(e) /\ Last(Onward(e), k) /\ All(f, l)
        BY <3>1, <3>2, <3>3, Stages, StagesDiffer
      <4>2. LoopNext(f, Onward(e), l)
        BY <3>2, <4>1 DEF LoopNext
      <4> QED BY <2>2, <4>1, <4>2, TwoOf
    <3>4. CASE Last(e, k)
      <4>1. Done(e) /\ ByHandler(f, l) /\ ~Replies(f) /\ ~Last(f, l)
        BY <3>1, <3>2, <3>4, Stages, StagesDiffer DEF ByHandler
      <4> QED BY <2>2, <4>1, OneOf
    <3> QED BY <3>1, <3>3, <3>4
  <2>6. ASSUME LoopNext(e, f, l) PROVE InStep(Rest(q), now, l)
    <3>1. /\ Of(e, "handler") /\ Of(Onward(e), "handler") /\ Of(f, "loop")
          /\ ~Done(e) /\ Both(Onward(e), l) /\ \E k : Last(f, k)
      BY <2>6, Stages DEF LoopNext
    <3>2. LoopFirst(f, Onward(e), l)
      BY <3>1 DEF LoopFirst
    <3> QED BY <2>2, <3>1, <3>2, TwoOf
  <2> QED BY <2>1, <2>2, <2>3, <2>4, <2>5, <2>6
<1> QED BY <1>1, <1>2 DEF InStep


-----------------------------------------------------------------------------
(* The queues, step by step *)

\* The queue as the one who has nothing in it finds it.
LEMMA FreeOf ==
  ASSUME NEW q, NEW work, NEW l, InStep(q, work, l), NEW who \in {"handler", "loop"},
         ~\E i \in DOMAIN q : q[i].who = who
  PROVE  \/ q = <<>> /\ AtLevel(work, l)
         \/ \E e : /\ q = <<e>> /\ (Last(e, l) => work.level = l)
                   /\ who = "handler" => ByLoop(e, l)
                   /\ who = "loop" => ByHandler(e, l)
<1>1. CASE One(q, work, l)
  <2>1. PICK e : /\ q = <<e>> /\ (ByHandler(e, l) \/ ByLoop(e, l))
                 /\ Last(e, l) => work.level = l
    BY <1>1 DEF One
  <2>2. 1 \in DOMAIN <<e>> /\ <<e>>[1] = e
    OBVIOUS
  <2>3. e.who # who
    BY <2>1, <2>2
  <2> QED BY <2>1, <2>3 DEF ByHandler, ByLoop, Of
<1>2. CASE Two(q, work, l)
  <2>1. PICK e, f : /\ q = <<e, f>>
                    /\ \/ Agreed(e, f, work, l) \/ Agreed(f, e, work, l)
                       \/ LoopFirst(e, f, l) \/ LoopNext(e, f, l)
    BY <1>2 DEF Two
  <2>2. {e.who, f.who} = {"handler", "loop"}
    BY <2>1 DEF Agreed, LoopFirst, LoopNext, ByHandler, ByLoop, Of
  <2>3. 1 \in DOMAIN <<e, f>> /\ 2 \in DOMAIN <<e, f>> /\ <<e, f>>[1] = e /\ <<e, f>>[2] = f
    OBVIOUS
  <2> QED BY <2>1, <2>2, <2>3
<1> QED BY <1>1, <1>2 DEF InStep

\* The messages the handler and the loop send.
LEMMA Sent ==
  ASSUME NEW who, NEW l, NEW j, j.level = l
  PROVE  /\ Replies([who |-> who, messages |-> <<Reply>>])
         /\ All([who |-> who, messages |-> <<Reply, SetDifficulty(l), Notify(j)>>], l)
         /\ Both([who |-> who, messages |-> <<SetDifficulty(l), Notify(j)>>], l)
         /\ \A m : Of([who |-> who, messages |-> m], who)
  BY DEF Replies, All, Both, Of, Announces, Notify

\* Everything of a connection stays but what it does not depend on.
LEMMA Untouched ==
  ASSUME NEW s \in Session, Shape, Queued(s),
         sending'[s] = sending[s], miner'[s] = miner[s],
         session'[s].level = session[s].level, session'[s].phase = session[s].phase
  PROVE  Queued(s)'
  BY DEF Queued

LEMMA QueueInit == Init => QueueInv
<1> SUFFICES ASSUME Init PROVE QueueInv
  OBVIOUS
<1>1. Shape
  BY DEF Init, Shape, Connection, NoWork
<1>2. AtLevel(NoWork, Initial)
  BY DEF AtLevel, NoWork, NoJob
<1>3. ASSUME NEW s \in Session PROVE Queued(s)
  BY <1>2 DEF Init, Queued, InStep, Connection
<1> QED BY <1>1, <1>3 DEF QueueInv

\* Someone asks for the lock; the connection changes to a state at the level l.
LEMMA Asked ==
  ASSUME QueueInv, NEW s \in Session, NEW who, NEW messages, NEW level, NEW state,
         DOMAIN state = DOMAIN session[s],
         session' = [session EXCEPT ![s] = [state EXCEPT !.current = counter + 1,
                                              !.anchor = latest, !.level = level]],
         Send(s, who, messages), miner' = miner,
         InStep(Append(sending[s], [who |-> who, messages |-> messages]), miner[s].now, level),
         \/ state.phase = "on"
         \/ /\ state.phase = "authorizing" /\ who = "handler" /\ sending[s] = <<>>
  PROVE  QueueInv'
<1>1. /\ sending'[s] = Append(sending[s], [who |-> who, messages |-> messages])
      /\ \A t \in Session : t # s => sending'[t] = sending[t] /\ session'[t] = session[t]
      /\ DOMAIN sending' = Session /\ DOMAIN session' = Session
      /\ session'[s].level = level /\ session'[s].phase = state.phase
      /\ DOMAIN session'[s] = DOMAIN session[s]
  BY DEF QueueInv, Shape, Send
<1>2. Shape'
  BY <1>1 DEF QueueInv, Shape
<1>3. Queued(s)'
  <2>1. sending[s] = <<>> => sending'[s] = <<[who |-> who, messages |-> messages]>>
    BY <1>1, AppendToNone
  <2> QED BY <1>1, <2>1 DEF Queued
<1>4. ASSUME NEW t \in Session, t # s PROVE Queued(t)'
  BY <1>1, <1>4, Untouched DEF QueueInv
<1> QED BY <1>2, <1>3, <1>4 DEF QueueInv

LEMMA QueueAuthorize ==
  ASSUME QueueInv, NEW s \in Session, NEW level, NEW fixed, Authorize(s, level, fixed)
  PROVE  QueueInv'
<1> DEFINE e == [who |-> "handler", messages |-> <<Reply, SetDifficulty(level), Notify(NewJob(s, level))>>]
           state == [session[s] EXCEPT !.phase = "authorizing", !.fixed = fixed]
<1>1. sending[s] = <<>>
  BY DEF Authorize, QueueInv, Queued
<1>2. ByHandler(e, level) /\ ~Replies(e) /\ ~Last(e, level)
  <2>1. NewJob(s, level).level = level
    BY DEF NewJob
  <2>2. All(e, level) /\ Of(e, "handler")
    BY <2>1, Sent
  <2> HIDE DEF e
  <2> QED BY <2>2, StagesDiffer DEF ByHandler
<1>3. InStep(Append(sending[s], e), miner[s].now, level)
  <2> HIDE DEF e
  <2> QED BY <1>1, <1>2, AppendToNone, OneOf
<1>4. DOMAIN state = DOMAIN session[s] /\ state.phase = "authorizing"
  BY DEF QueueInv, Shape
<1> QED BY <1>1, <1>3, <1>4, Asked DEF Authorize, Issue

LEMMA QueueRenew ==
  ASSUME QueueInv, NEW s \in Session, NEW state, Renew(s, state), miner' = miner,
         LoopIdle(s), DOMAIN state = DOMAIN session[s], state.phase = session[s].phase,
         state.level = session[s].level
  PROVE  QueueInv'
<1> DEFINE l == session[s].level
           e == [who |-> "loop", messages |-> <<SetDifficulty(l), Notify(NewJob(s, l))>>]
<1>1. ByLoop(e, l) /\ Told(e, l) /\ ~Replies(e) /\ ~Last(e, l)
  <2>1. NewJob(s, l).level = l
    BY DEF NewJob
  <2>2. Both(e, l) /\ Of(e, "loop")
    BY <2>1, Sent
  <2> HIDE DEF e, l
  <2> QED BY <2>2, StagesDiffer DEF ByLoop, Told
<1>2. InStep(Append(sending[s], e), miner[s].now, l)
  <2> HIDE DEF e
  <2>1. InStep(sending[s], miner[s].now, l)
    BY DEF QueueInv, Queued
  <2>2. ~\E i \in DOMAIN sending[s] : sending[s][i].who = "loop"
    BY DEF LoopIdle, Sends
  <2>3. CASE sending[s] = <<>>
    BY <1>1, <2>3, AppendToNone, OneOf
  <2>4. ASSUME NEW h, sending[s] = <<h>>, ByHandler(h, l)
        PROVE  InStep(Append(sending[s], e), miner[s].now, l)
    BY <1>1, <2>4, AppendToOne, TwoOf DEF Agreed
  <2> HIDE DEF l
  <2> QED BY <2>1, <2>2, <2>3, <2>4, FreeOf
<1>3. state.phase = "on"
  BY DEF LoopIdle
<1> QED BY <1>2, <1>3, Asked DEF Renew, Issue


LEMMA QueueSubmit ==
  ASSUME QueueInv, NEW s \in Session, NEW work \in {miner[s].now, miner[s].before},
         NEW nonce, NEW form,
         Submit(s, work, nonce, form)
  PROVE  QueueInv'
<1> DEFINE l == session[s].level
<1>0. /\ InStep(sending[s], miner[s].now, l) /\ miner' = miner
      /\ ~\E i \in DOMAIN sending[s] : sending[s][i].who = "handler"
  BY DEF QueueInv, Queued, Submit, HandlerIdle, Sends
<1>f. \/ sending[s] = <<>> /\ AtLevel(miner[s].now, l)
      \/ \E e : /\ sending[s] = <<e>> /\ ByLoop(e, l)
                /\ Last(e, l) => miner[s].now.level = l
  <2> HIDE DEF l
  <2> QED BY <1>0, FreeOf
<1>p. session[s].phase = "on"
  BY DEF Submit, HandlerIdle, QueueInv, Queued, NoWork
<1>1. ASSUME Send(s, "handler", <<Reply>>), UNCHANGED session PROVE QueueInv'
  <2> DEFINE h == [who |-> "handler", messages |-> <<Reply>>]
  <2>1. Replies(h) /\ ByHandler(h, l)
    BY DEF ByHandler, Of, Replies
  <2>2. InStep(Append(sending[s], h), miner[s].now, l)
    <3> HIDE DEF h, l
    <3>1. CASE sending[s] = <<>> /\ AtLevel(miner[s].now, l)
      BY <2>1, <3>1, AppendToNone, OneOf, StagesDiffer
    <3>2. ASSUME NEW e, sending[s] = <<e>>, ByLoop(e, l), Last(e, l) => miner[s].now.level = l
          PROVE  InStep(Append(sending[s], h), miner[s].now, l)
      BY <2>1, <3>2, AppendToOne, TwoOf DEF Agreed, ByLoop, Told
    <3> QED BY <1>f, <3>1, <3>2
  <2>3. /\ sending'[s] = Append(sending[s], h) /\ DOMAIN sending' = Session
        /\ \A t \in Session : t # s => sending'[t] = sending[t]
    BY <1>1 DEF Send, QueueInv, Shape
  <2>4. Shape' /\ Shape
    BY <1>0, <1>1, <2>3 DEF QueueInv, Shape
  <2>5. Queued(s)'
    BY <1>0, <1>1, <1>p, <2>2, <2>3 DEF Queued
  <2>6. ASSUME NEW t \in Session, t # s PROVE Queued(t)'
    BY <1>0, <1>1, <2>3, <2>4, <2>6, Untouched DEF QueueInv
  <2> QED BY <2>4, <2>5, <2>6 DEF QueueInv
<1>2. ASSUME NEW level, Retarget(s, level) PROVE QueueInv'
  <2> DEFINE h == [who |-> "handler",
                   messages |-> <<Reply, SetDifficulty(level), Notify(NewJob(s, level))>>]
  <2>1. All(h, level) /\ Of(h, "handler") /\ ByHandler(h, level)
    <3>1. NewJob(s, level).level = level
      BY DEF NewJob
    <3>2. All(h, level) /\ Of(h, "handler")
      BY <3>1, Sent
    <3> HIDE DEF h
    <3> QED BY <3>2 DEF ByHandler
  <2>2. InStep(Append(sending[s], h), miner[s].now, level)
    <3> HIDE DEF h, l
    <3>1. CASE sending[s] = <<>>
      BY <2>1, <3>1, AppendToNone, OneOf, StagesDiffer
    <3>2. ASSUME NEW e, sending[s] = <<e>>, ByLoop(e, l)
          PROVE  InStep(Append(sending[s], h), miner[s].now, level)
      <4>1. LoopFirst(e, h, level)
        BY <2>1, <3>2 DEF LoopFirst, ByLoop
      <4> QED BY <3>2, <4>1, AppendToOne, TwoOf
    <3> QED BY <1>f, <3>1, <3>2
  <2> QED BY <1>0, <1>2, <1>p, <2>2, Asked DEF Retarget, Issue
<1> QED BY <1>1, <1>2 DEF Submit

LEMMA FirstMessage ==
  ASSUME NEW q, NEW work, NEW l, InStep(q, work, l), q # <<>>
  PROVE  \/ First(Head(q)) = Reply
         \/ \E k : First(Head(q)) = SetDifficulty(k) \/ Announces(First(Head(q)), k)
<1>1. \A e, k : Replies(e) \/ All(e, k) \/ Both(e, k) \/ Last(e, k) =>
        \/ First(e) = Reply
        \/ \E j : First(e) = SetDifficulty(j) \/ Announces(First(e), j)
  BY TailOfOne, TailOfTwo, TailOfThree DEF Replies, All, Both, Last, First
<1>2. PICK e, k : Head(q) = e /\ (Replies(e) \/ All(e, k) \/ Both(e, k) \/ Last(e, k))
  <2>1. CASE One(q, work, l)
    BY <2>1, TailOfOne DEF One, ByHandler, ByLoop
  <2>2. CASE Two(q, work, l)
    BY <2>2, TailOfTwo DEF Two, Agreed, LoopFirst, LoopNext, ByHandler, ByLoop
  <2> QED BY <2>1, <2>2 DEF InStep
<1> QED BY <1>1, <1>2

LEMMA QueueDeliver ==
  ASSUME QueueInv, NEW s \in Session, Deliver(s)
  PROVE  QueueInv'
<1> DEFINE q == sending[s]
           m == First(Head(q))
<1>1. /\ q # <<>> /\ sending' = [sending EXCEPT ![s] = Rest(q)]
      /\ session' = [session EXCEPT ![s].phase =
                       IF @ = "authorizing" /\ sending'[s] = <<>> THEN "on" ELSE @]
      /\ Receive(s, m)
  BY DEF Deliver, StillSending, Rest, Done, Onward, First
<1>2. /\ DOMAIN sending' = Session /\ DOMAIN session' = Session /\ sending'[s] = Rest(q)
      /\ \A t \in Session : t # s => sending'[t] = sending[t] /\ session'[t] = session[t]
      /\ session'[s].level = session[s].level
      /\ DOMAIN session'[s] = DOMAIN session[s]
      /\ session'[s].phase = IF session[s].phase = "authorizing" /\ Rest(q) = <<>>
                             THEN "on" ELSE session[s].phase
  BY <1>1 DEF QueueInv, Shape
<1>3. /\ DOMAIN miner' = Session /\ miner'[s].now = Got(miner[s].now, m)
      /\ DOMAIN miner'[s] = {"now", "before"}
      /\ \A t \in Session : t # s => miner'[t] = miner[t]
  <2>1. miner' = IF Got(miner[s].now, m) = miner[s].now THEN miner
                 ELSE [miner EXCEPT ![s] = [now |-> Got(miner[s].now, m), before |-> miner[s].now]]
    BY <1>1 DEF Receive, Got
  <2> QED BY <2>1 DEF QueueInv, Shape
<1>4. InStep(q, miner[s].now, session[s].level) /\ DOMAIN miner[s].now = {"job", "level"}
  BY DEF QueueInv, Queued, Shape
<1>5. InStep(Rest(q), Got(miner[s].now, m), session[s].level)
  <2> HIDE DEF q
  <2> QED BY <1>1, <1>4, Delivered
<1>6. DOMAIN Got(miner[s].now, m) = {"job", "level"}
  <2> HIDE DEF q
  <2>1. m = Reply \/ \E k : m = SetDifficulty(k) \/ Announces(m, k)
    BY <1>1, <1>4, FirstMessage
  <2> HIDE DEF m
  <2>2. ASSUME NEW k, m = SetDifficulty(k) \/ Announces(m, k)
        PROVE  DOMAIN Got(miner[s].now, m) = {"job", "level"}
    <3>1. CASE m = SetDifficulty(k)
      BY <1>4, <3>1, GotOf
    <3>2. CASE Announces(m, k)
      BY <1>4, <3>2, GotOf
    <3> QED BY <2>2, <3>1, <3>2
  <2>3. ASSUME m = Reply PROVE DOMAIN Got(miner[s].now, m) = {"job", "level"}
    <3>1. Got(miner[s].now, Reply) = miner[s].now
      BY <1>4, GotOf
    <3> QED BY <1>4, <2>3, <3>1
  <2> QED BY <2>1, <2>2, <2>3
<1>7. Shape'
  BY <1>2, <1>3, <1>6 DEF QueueInv, Shape
<1>8. session[s].phase \notin {"new", "gone"}
  BY <1>1 DEF QueueInv, Queued
<1>9. session[s].phase = "authorizing" =>
        Rest(q) = <<>> \/ \E e : Rest(q) = <<e>> /\ e.who = "handler"
  <2>1. ASSUME NEW e, q = <<e>>, e.who = "handler"
        PROVE  Rest(q) = <<>> \/ \E f : Rest(q) = <<f>> /\ f.who = "handler"
    <3>1. e.who = "handler" /\ Onward(e).who = "handler"
      <4>1. Of(e, "handler")
        BY <1>4, <2>1, OneQueued DEF ByHandler, ByLoop, Of
      <4> QED BY <4>1, Stages DEF Of
    <3> HIDE DEF q
    <3> QED BY <2>1, <3>1, RestOf
  <2> QED BY <2>1 DEF QueueInv, Queued
<1>10. Queued(s)'
  BY <1>2, <1>3, <1>5, <1>8, <1>9 DEF Queued
<1>11. ASSUME NEW t \in Session, t # s PROVE Queued(t)'
  BY <1>2, <1>3, <1>11, Untouched DEF QueueInv
<1> QED BY <1>7, <1>10, <1>11 DEF QueueInv

LEMMA QueueStep == QueueInv /\ [Next]_vars => QueueInv'
<1> SUFFICES ASSUME QueueInv, [Next]_vars PROVE QueueInv'
  OBVIOUS
<1>1. CASE UNCHANGED <<session, sending, miner>>
  BY <1>1 DEF QueueInv, Shape, Queued
<1>2. CASE Fetched
  <2>1. /\ sending' = sending /\ miner' = miner /\ DOMAIN session' = Session
        /\ \A s \in Session : /\ DOMAIN session'[s] = DOMAIN session[s]
                              /\ session'[s].level = session[s].level
                              /\ session'[s].phase = session[s].phase
    BY <1>2 DEF Fetched, QueueInv, Shape
  <2>2. Shape' /\ Shape
    BY <2>1 DEF QueueInv, Shape
  <2>3. ASSUME NEW s \in Session PROVE Queued(s)'
    BY <2>1, <2>2, Untouched DEF QueueInv
  <2> QED BY <2>2, <2>3 DEF QueueInv
<1>3. ASSUME NEW s \in Session, Disconnect(s) PROVE QueueInv'
  <2>1. /\ sending'[s] = <<>> /\ session'[s] = Connection("gone")
        /\ miner'[s] = [now |-> NoWork, before |-> NoWork]
        /\ DOMAIN sending' = Session /\ DOMAIN session' = Session /\ DOMAIN miner' = Session
        /\ \A t \in Session : t # s => /\ sending'[t] = sending[t] /\ session'[t] = session[t]
                                       /\ miner'[t] = miner[t]
    BY <1>3 DEF Disconnect, QueueInv, Shape
  <2>2. Shape' /\ Shape
    BY <2>1 DEF QueueInv, Shape, Connection, NoWork
  <2>3. Queued(s)'
    BY <2>1 DEF Queued, InStep, AtLevel, Connection, NoWork, NoJob
  <2>4. ASSUME NEW t \in Session, t # s PROVE Queued(t)'
    BY <2>1, <2>2, <2>4, Untouched DEF QueueInv
  <2> QED BY <2>2, <2>3, <2>4 DEF QueueInv
<1>4. ASSUME NEW s \in Session, WakeUp(s) PROVE QueueInv'
  <2> DEFINE state == [session[s] EXCEPT !.wake = FALSE]
  <2>1. DOMAIN state = DOMAIN session[s] /\ state.phase = session[s].phase
        /\ state.level = session[s].level
    BY DEF QueueInv, Shape
  <2>2. LoopIdle(s) /\ miner' = miner
    BY <1>4 DEF WakeUp
  <2>3. CASE Renew(s, state)
    <3> HIDE DEF state
    <3> QED BY <2>1, <2>2, <2>3, QueueRenew
  <2>4. CASE session' = [session EXCEPT ![s] = state] /\ UNCHANGED sending
    <3>1. /\ DOMAIN session' = Session
          /\ \A t \in Session : /\ DOMAIN session'[t] = DOMAIN session[t]
                                /\ session'[t].level = session[t].level
                                /\ session'[t].phase = session[t].phase
      BY <2>1, <2>4 DEF QueueInv, Shape
    <3>2. Shape' /\ Shape
      BY <2>2, <2>4, <3>1 DEF QueueInv, Shape
    <3>3. ASSUME NEW t \in Session PROVE Queued(t)'
      BY <2>2, <2>4, <3>1, <3>2, Untouched DEF QueueInv
    <3> QED BY <3>2, <3>3 DEF QueueInv
  <2> QED BY <1>4, <2>3, <2>4 DEF WakeUp
<1>5. ASSUME NEW s \in Session, Timeout(s) PROVE QueueInv'
  BY <1>5, QueueRenew DEF Timeout
<1> QED
  BY <1>1, <1>2, <1>3, <1>4, <1>5, QueueAuthorize, QueueSubmit, QueueDeliver
  DEF Next, vars, Tick, NewTip, Fetch, FetchFails

\* However the messages of the handler and of the notify loop interleave, a miner that
\* has read them all mines at the difficulty its shares are compared with.
THEOREM MinersInStep == Spec => []MinerInStep
<1>1. Init => QueueInv
  BY QueueInit
<1>2. QueueInv /\ [Next]_vars => QueueInv'
  BY QueueStep
<1>3. QueueInv => MinerInStep
  <2> SUFFICES ASSUME QueueInv, NEW s \in Session, sending[s] = <<>>
               PROVE  miner[s].now.level = miner[s].now.job.level
    BY DEF MinerInStep
  <2>1. InStep(<<>>, miner[s].now, session[s].level)
    BY DEF QueueInv, Queued
  <2>2. \A e, f : <<>> # <<e>> /\ <<>> # <<e, f>>
    OBVIOUS
  <2> QED BY <2>1, <2>2 DEF InStep, One, Two, AtLevel
<1> QED BY <1>1, <1>2, <1>3, PTL DEF Spec

-----------------------------------------------------------------------------
(* Templates and job numbers *)

ConnectionType ==
  [phase : {"new", "authorizing", "on", "gone"}, level : Level \cup Password,
   fixed : BOOLEAN, current : Nat, anchor : Template, wake : BOOLEAN]

BaseTypes ==
  /\ clock \in 0 .. MaxTime /\ tip \in 1 .. MaxTips
  /\ fetching \in Template /\ latest \in Template /\ contents \in 0 .. MaxTemplates
  /\ counter \in Nat /\ retargets \in 0 .. MaxRetargets
  /\ session \in [Session -> ConnectionType]

\* Templates come in the order of their contents, and a session has the latest one or an
\* older one.
TemplateInv ==
  /\ \A t \in {fetching, latest} : t.n <= contents /\ (t.n = 0 => t = Synthetic)
  /\ fetching \in {Synthetic, latest} \/ fetching.n > latest.n
  /\ \A s \in Session :
       /\ session[s].anchor.n <= latest.n
       /\ session[s].anchor.n = latest.n => session[s].anchor = latest
       /\ session[s].wake => latest # Synthetic

\* The contents a connection has had its job of, or will never have one of.
Spent(s) ==
  {n \in 0 .. MaxTemplates : \/ session[s].phase = "gone"
                             \/ session[s].phase # "new" /\ n <= session[s].anchor.n}
AllSpent == {p \in Session \X (0 .. MaxTemplates) : p[2] \in Spent(p[1])}

\* A job that is neither synthetic nor of a retarget is a connection's first of its content.
NumbersSpent == counter <= MaxSynthetic + retargets + Cardinality(AllSpent)

BaseInv == BaseTypes /\ TemplateInv /\ NumbersSpent

LEMMA Pairs ==
  ASSUME WorkAssumption
  PROVE  /\ IsFiniteSet(Session \X (0 .. MaxTemplates))
         /\ Cardinality(Session \X (0 .. MaxTemplates)) = Cardinality(Session) * (MaxTemplates + 1)
         /\ Cardinality(Session) \in Nat /\ MaxJobs \in Nat
<1>1. MaxTemplates \in Nat /\ MaxSynthetic \in Nat /\ MaxRetargets \in Nat /\ IsFiniteSet(Session)
  BY DEF WorkAssumption
<1>2. IsFiniteSet(0 .. MaxTemplates) /\ Cardinality(0 .. MaxTemplates) = MaxTemplates + 1
  <2>1. /\ IsFiniteSet(0 .. MaxTemplates)
        /\ Cardinality(0 .. MaxTemplates) = IF 0 > MaxTemplates THEN 0 ELSE MaxTemplates - 0 + 1
    <3>1. 0 \in Int /\ MaxTemplates \in Int
      BY <1>1
    <3> QED BY ONLY <3>1, FS_Interval
  <2> QED BY <1>1, <2>1
<1>3. Cardinality(Session) \in Nat
  BY <1>1, FS_CardinalityType
<1>4. MaxJobs \in Nat
  BY <1>1, <1>3 DEF MaxJobs
<1> QED BY <1>1, <1>2, <1>3, <1>4, FS_Product

LEMMA SpentSize ==
  ASSUME WorkAssumption, NEW P, P \subseteq Session \X (0 .. MaxTemplates)
  PROVE  /\ IsFiniteSet(P) /\ Cardinality(P) \in Nat
         /\ Cardinality(P) <= Cardinality(Session) * (MaxTemplates + 1)
<1>1. IsFiniteSet(P) /\ Cardinality(P) <= Cardinality(Session \X (0 .. MaxTemplates))
  BY Pairs, FS_Subset
<1> QED BY <1>1, Pairs, FS_CardinalityType

\* The bound on the job numbers that TypeOK names.
LEMMA NumbersBounded ==
  ASSUME WorkAssumption, BaseInv PROVE counter <= MaxJobs /\ MaxJobs \in Nat
<1>1. /\ counter \in Nat /\ retargets \in Nat /\ retargets <= MaxRetargets
      /\ counter <= MaxSynthetic + retargets + Cardinality(AllSpent)
      /\ MaxSynthetic \in Nat /\ MaxRetargets \in Nat
  BY DEF BaseInv, BaseTypes, NumbersSpent, WorkAssumption
<1>2. PICK m \in Nat : m = Cardinality(Session) * (MaxTemplates + 1)
  BY Pairs DEF WorkAssumption
<1>3. Cardinality(AllSpent) \in Nat /\ Cardinality(AllSpent) <= m
  BY <1>2, SpentSize DEF AllSpent
<1> QED BY <1>1, <1>2, <1>3, Pairs DEF MaxJobs

\* What is spent stays spent; where more is, one more number may be used.
LEMMA SpentGrows ==
  ASSUME WorkAssumption, \A s \in Session : Spent(s) \subseteq Spent(s)'
  PROVE  /\ Cardinality(AllSpent) \in Nat /\ Cardinality(AllSpent') \in Nat
         /\ Cardinality(AllSpent) <= Cardinality(AllSpent')
         /\ \A s \in Session : Spent(s) # Spent(s)' =>
              Cardinality(AllSpent) + 1 <= Cardinality(AllSpent')
<1>1. AllSpent \subseteq AllSpent' /\ AllSpent' \subseteq Session \X (0 .. MaxTemplates)
  BY DEF AllSpent
<1>2. /\ IsFiniteSet(AllSpent') /\ Cardinality(AllSpent') \in Nat
      /\ IsFiniteSet(AllSpent) /\ Cardinality(AllSpent) \in Nat
  <2>1. AllSpent \subseteq Session \X (0 .. MaxTemplates)
    BY DEF AllSpent
  <2> QED BY <1>1, <2>1, SpentSize
<1>3. Cardinality(AllSpent) <= Cardinality(AllSpent')
      /\ (Cardinality(AllSpent) = Cardinality(AllSpent') => AllSpent = AllSpent')
  BY <1>1, <1>2, FS_Subset
<1>4. ASSUME NEW s \in Session, Spent(s) # Spent(s)'
      PROVE  Cardinality(AllSpent) + 1 <= Cardinality(AllSpent')
  <2>1. PICK n \in 0 .. MaxTemplates : n \in Spent(s)' /\ n \notin Spent(s)
    BY <1>4 DEF Spent
  <2>2. <<s, n>> \in AllSpent' /\ <<s, n>> \notin AllSpent
    BY <2>1 DEF AllSpent
  <2> QED BY <1>2, <1>3, <2>2
<1> QED BY <1>2, <1>3, <1>4

LEMMA NumbersKeep ==
  ASSUME WorkAssumption, BaseInv, \A s \in Session : Spent(s) \subseteq Spent(s)',
         counter' \in Nat, retargets' \in Nat, retargets' >= retargets,
         \/ counter' = counter
         \/ counter' = counter + 1 /\ retargets' = retargets + 1
         \/ counter' = counter + 1 /\ \E s \in Session : Spent(s) # Spent(s)'
         \/ counter' <= MaxSynthetic
  PROVE  NumbersSpent'
<1>1. /\ counter \in Nat /\ retargets \in Nat /\ MaxSynthetic \in Nat
      /\ counter <= MaxSynthetic + retargets + Cardinality(AllSpent)
  BY DEF BaseInv, BaseTypes, NumbersSpent, WorkAssumption
<1>2. /\ Cardinality(AllSpent) \in Nat /\ Cardinality(AllSpent') \in Nat
      /\ Cardinality(AllSpent) <= Cardinality(AllSpent')
      /\ (\E s \in Session : Spent(s) # Spent(s)') =>
           Cardinality(AllSpent) + 1 <= Cardinality(AllSpent')
  BY SpentGrows
<1> QED BY <1>1, <1>2 DEF NumbersSpent

\* A step that leaves templates and numbers alone, and of the connections what they have
\* spent.
LEMMA BaseKeeps ==
  ASSUME BaseInv, UNCHANGED <<fetching, latest, contents, counter, retargets>>,
         clock' \in 0 .. MaxTime, tip' \in 1 .. MaxTips,
         session' \in [Session -> ConnectionType], WorkAssumption,
         \A s \in Session :
           \/ session'[s].anchor = session[s].anchor /\ (session'[s].wake => session[s].wake)
              /\ \/ session'[s].phase = session[s].phase
                 \/ session[s].phase \notin {"new", "gone"} /\ session'[s].phase # "new"
           \/ session'[s] = Connection("gone")
  PROVE  BaseInv'
<1>1. BaseTypes'
  BY DEF BaseInv, BaseTypes
<1>2. /\ latest \in Template /\ latest.n \in Nat /\ Synthetic.n = 0
      /\ latest.n = 0 => latest = Synthetic
  BY DEF BaseInv, BaseTypes, TemplateInv, Template, Synthetic, WorkAssumption
<1>3. \A s \in Session : /\ session[s].anchor.n <= latest.n
                         /\ session[s].anchor.n = latest.n => session[s].anchor = latest
                         /\ session[s].wake => latest # Synthetic
  BY DEF BaseInv, TemplateInv
<1>4. \A s \in Session : /\ session'[s].anchor.n <= latest.n
                         /\ session'[s].anchor.n = latest.n => session'[s].anchor = latest
                         /\ session'[s].wake => latest # Synthetic
  BY <1>2, <1>3 DEF Connection
<1>5. TemplateInv'
  BY <1>4 DEF BaseInv, TemplateInv
<1>6. \A s \in Session : Spent(s) \subseteq Spent(s)'
  BY DEF Spent, Connection
<1>7. NumbersSpent'
  <2>1. counter' \in Nat /\ retargets' \in Nat /\ retargets' >= retargets
    BY DEF BaseInv, BaseTypes, WorkAssumption
  <2> QED BY <1>6, <2>1, NumbersKeep
<1> QED BY <1>1, <1>5, <1>7 DEF BaseInv

\* A session gets a job of the latest template.
LEMMA BaseIssue ==
  ASSUME WorkAssumption, BaseInv, NEW s \in Session, NEW level \in Level \cup Password,
         NEW state \in ConnectionType, Issue(s, level, state),
         UNCHANGED <<clock, tip, fetching, latest, contents>>,
         state.wake => session[s].wake,
         state.phase = session[s].phase \/ session[s].phase = "new",
         retargets' \in {retargets, retargets + 1}, retargets' <= MaxRetargets,
         \/ retargets' = retargets + 1
         \/ counter < MaxSynthetic
         \/ session[s].phase = "new" /\ state.phase \notin {"new", "gone"}
         \/ session[s].phase \notin {"new", "gone"} /\ session[s].anchor # latest
  PROVE  BaseInv'
<1>1. PICK c : c = [state EXCEPT !.current = counter + 1, !.anchor = latest, !.level = level]
  OBVIOUS
<1>0. /\ counter \in Nat /\ retargets \in Nat /\ latest \in Template /\ MaxSynthetic \in Nat
      /\ MaxRetargets \in Nat /\ MaxTemplates \in Nat
      /\ session \in [Session -> ConnectionType]
      /\ contents \in 0 .. MaxTemplates /\ latest.n \in Nat /\ latest.n <= contents
  BY DEF BaseInv, BaseTypes, TemplateInv, Template, WorkAssumption
<1>2. c = [phase |-> state.phase, level |-> level, fixed |-> state.fixed,
           current |-> counter + 1, anchor |-> latest, wake |-> state.wake]
  BY <1>1 DEF ConnectionType
<1>3. /\ c \in ConnectionType /\ c.anchor = latest /\ c.wake = state.wake
      /\ c.phase = state.phase
  BY <1>0, <1>2 DEF ConnectionType
<1>4. /\ session' = [session EXCEPT ![s] = c] /\ counter' = counter + 1
      /\ session'[s] = c /\ \A t \in Session \ {s} : session'[t] = session[t]
  BY <1>0, <1>1 DEF Issue
<1> HIDE DEF Issue
<1>5. BaseTypes'
  <2>1. session' \in [Session -> ConnectionType]
    BY <1>0, <1>3, <1>4
  <2>2. counter' \in Nat /\ retargets' \in 0 .. MaxRetargets
    BY <1>0, <1>4
  <2> QED BY <2>1, <2>2 DEF BaseInv, BaseTypes
<1>6. TemplateInv'
  <2>1. \A t \in Session :
          /\ session'[t].anchor.n <= latest.n
          /\ session'[t].anchor.n = latest.n => session'[t].anchor = latest
          /\ session'[t].wake => latest # Synthetic
    BY <1>0, <1>3, <1>4 DEF BaseInv, TemplateInv
  <2> QED BY <2>1 DEF BaseInv, TemplateInv
<1>7. session[s].anchor.n <= latest.n /\ session[s].anchor.n \in Nat
      /\ (session[s].anchor.n = latest.n => session[s].anchor = latest)
  BY <1>0 DEF BaseInv, TemplateInv, ConnectionType, Template
<1>8. \A t \in Session : Spent(t) \subseteq Spent(t)'
  <2>1. ASSUME NEW n \in 0 .. MaxTemplates, n \in Spent(s) PROVE n \in Spent(s)'
    BY <1>0, <1>3, <1>4, <1>7, <2>1 DEF Spent
  <2>2. ASSUME NEW t \in Session, t # s PROVE Spent(t)' = Spent(t)
    BY <1>4, <2>2 DEF Spent
  <2> QED BY <2>1, <2>2 DEF Spent
<1>9. ASSUME \/ session[s].phase = "new" /\ state.phase \notin {"new", "gone"}
             \/ session[s].phase \notin {"new", "gone"} /\ session[s].anchor # latest
      PROVE  Spent(s) # Spent(s)'
  <2>1. latest.n \in 0 .. MaxTemplates
    BY <1>0
  <2>2. latest.n \notin Spent(s)
    BY <1>0, <1>7, <1>9 DEF Spent
  <2>3. latest.n \in Spent(s)'
    BY <1>3, <1>4, <1>9, <2>1 DEF Spent
  <2> QED BY <2>2, <2>3
<1>10. NumbersSpent'
  <2>1. counter' \in Nat /\ retargets' \in Nat /\ retargets' >= retargets
    BY <1>0, <1>4
  <2>2. counter < MaxSynthetic => counter' <= MaxSynthetic
    BY <1>0, <1>4
  <2> QED BY <1>4, <1>8, <1>9, <2>1, <2>2, NumbersKeep
<1> QED BY <1>5, <1>6, <1>10 DEF BaseInv

LEMMA BaseInit == WorkAssumption /\ Init => BaseInv
<1> SUFFICES ASSUME WorkAssumption, Init PROVE BaseInv
  OBVIOUS
<1>1. Synthetic \in Template /\ Synthetic.n = 0
  BY DEF Synthetic, Template, WorkAssumption
<1>2. Connection("new") \in ConnectionType
  BY <1>1 DEF Connection, ConnectionType, WorkAssumption
<1>3. BaseTypes
  BY <1>1, <1>2 DEF Init, InitJobs, BaseTypes, WorkAssumption
<1>4. TemplateInv
  BY <1>1 DEF Init, InitJobs, TemplateInv, Connection
<1>5. NumbersSpent
  <2>1. Cardinality(AllSpent) \in Nat
    BY SpentSize DEF AllSpent
  <2> QED BY <2>1 DEF Init, NumbersSpent, WorkAssumption
<1> QED BY <1>3, <1>4, <1>5 DEF BaseInv

\* A session whose numbers and templates a step leaves alone.
LEMMA NumbersSame ==
  ASSUME WorkAssumption, BaseInv, UNCHANGED <<counter, retargets>>,
         \A s \in Session : /\ session'[s].phase = session[s].phase
                            /\ session'[s].anchor = session[s].anchor
  PROVE  NumbersSpent'
<1>1. \A s \in Session : Spent(s) \subseteq Spent(s)'
  BY DEF Spent
<1>2. counter' \in Nat /\ retargets' \in Nat /\ retargets' >= retargets
  BY DEF BaseInv, BaseTypes, WorkAssumption
<1> QED BY <1>1, <1>2, NumbersKeep

LEMMA BaseTemplates ==
  ASSUME WorkAssumption, BaseInv, Fetch \/ Fetched \/ FetchFails PROVE BaseInv'
<1>0. /\ Synthetic \in Template /\ Synthetic.n = 0
      /\ latest \in Template /\ fetching \in Template /\ latest.n \in Nat /\ fetching.n \in Nat
      /\ contents \in Nat /\ MaxTemplates \in Nat /\ tip \in 0 .. MaxTips
      /\ latest.n <= contents /\ fetching.n <= contents /\ contents <= MaxTemplates
      /\ (latest.n = 0 => latest = Synthetic) /\ (fetching.n = 0 => fetching = Synthetic)
      /\ session \in [Session -> ConnectionType]
  BY DEF BaseInv, BaseTypes, TemplateInv, Synthetic, Template, WorkAssumption
<1>1. CASE Fetch
  <2>1. /\ UNCHANGED <<clock, tip, latest, counter, retargets, session>> /\ fetching = Synthetic
    BY <1>1 DEF Fetch
  <2>2. CASE fetching' = Parsed(contents + 1) /\ contents' = contents + 1 /\ contents < MaxTemplates
    <3>1. /\ fetching' \in Template /\ fetching'.n = contents + 1 /\ fetching'.n # 0
      BY <1>0, <2>2 DEF Parsed, Template
    <3>2. contents' \in 0 .. MaxTemplates /\ latest.n <= contents' /\ fetching'.n <= contents'
          /\ fetching'.n > latest.n
      BY <1>0, <2>2, <3>1
    <3>3. BaseTypes' /\ TemplateInv'
      BY <1>0, <2>1, <3>1, <3>2 DEF BaseInv, BaseTypes, TemplateInv
    <3> QED BY <2>1, <3>3, NumbersSame DEF BaseInv
  <2>3. CASE fetching' = latest /\ UNCHANGED contents
    <3>1. BaseTypes' /\ TemplateInv'
      BY <1>0, <2>1, <2>3 DEF BaseInv, BaseTypes, TemplateInv
    <3> QED BY <2>1, <3>1, NumbersSame DEF BaseInv
  <2> QED BY <1>1, <2>2, <2>3 DEF Fetch
<1>2. CASE FetchFails
  <2>1. /\ UNCHANGED <<clock, tip, latest, contents, counter, retargets, session>>
        /\ fetching' = Synthetic
    BY <1>2 DEF FetchFails
  <2>2. BaseTypes' /\ TemplateInv'
    BY <1>0, <2>1 DEF BaseInv, BaseTypes, TemplateInv
  <2> QED BY <2>1, <2>2, NumbersSame DEF BaseInv
<1>3. CASE Fetched
  <2>1. /\ UNCHANGED <<clock, tip, contents, counter, retargets>>
        /\ fetching # Synthetic /\ fetching' = Synthetic /\ latest' = fetching
        /\ session' = [s \in Session |->
             [session[s] EXCEPT !.wake = \/ @
                                         \/ /\ session[s].phase # "gone"
                                            /\ Wakes(latest, fetching)]]
    BY <1>3 DEF Fetched
  <2>2. fetching = latest \/ fetching.n > latest.n
    BY <2>1 DEF BaseInv, TemplateInv
  <2>3. ASSUME NEW s \in Session
        PROVE  /\ session'[s] \in ConnectionType
               /\ session'[s].phase = session[s].phase /\ session'[s].anchor = session[s].anchor
    <3>1. PICK w \in BOOLEAN : w = (session[s].wake \/ (session[s].phase # "gone" /\ Wakes(latest, fetching)))
      OBVIOUS
    <3>2. session[s] \in ConnectionType
      BY <1>0
    <3>3. session'[s] = [session[s] EXCEPT !.wake = w]
      BY <2>1, <3>1
    <3> QED BY <3>2, <3>3 DEF ConnectionType
  <2>4. session' \in [Session -> ConnectionType]
    BY <2>1, <2>3
  <2>5. \A s \in Session : session[s].anchor.n \in Nat /\ session[s].anchor.n <= latest.n
                           /\ (session[s].anchor.n = latest.n => session[s].anchor = latest)
    BY <1>0 DEF BaseInv, TemplateInv, ConnectionType, Template
  <2>6. \A s \in Session : session'[s].anchor.n <= fetching.n
                           /\ (session'[s].anchor.n = fetching.n => session'[s].anchor = fetching)
    BY <1>0, <2>2, <2>3, <2>5
  <2>7. TemplateInv'
    BY <1>0, <2>1, <2>6 DEF TemplateInv
  <2>8. BaseTypes'
    BY <1>0, <2>1, <2>4 DEF BaseInv, BaseTypes
  <2> QED BY <2>1, <2>3, <2>7, <2>8, NumbersSame DEF BaseInv
<1> QED BY <1>1, <1>2, <1>3

LEMMA BaseRenew ==
  ASSUME WorkAssumption, BaseInv, NEW s \in Session, LoopIdle(s), Due(s),
         NEW state, state \in {session[s], [session[s] EXCEPT !.wake = FALSE]}, Renew(s, state),
         UNCHANGED <<clock, tip, fetching, latest, contents, retargets>>,
         session[s].wake \/ (latest = Synthetic => counter < MaxSynthetic)
  PROVE  BaseInv'
<1>1. session[s] \in ConnectionType /\ retargets \in 0 .. MaxRetargets
  BY DEF BaseInv, BaseTypes
<1>2. /\ state \in ConnectionType /\ state.level = session[s].level
      /\ state.phase = session[s].phase /\ (state.wake => session[s].wake)
  BY <1>1 DEF ConnectionType
<1>3. session[s].phase = "on" /\ Issue(s, state.level, state)
  BY DEF LoopIdle, Renew
<1>4. counter < MaxSynthetic \/ session[s].anchor # latest
  BY DEF Due, BaseInv, TemplateInv
<1>5. state.level \in Level \cup Password
  BY <1>2 DEF ConnectionType
<1>6. retargets' \in {retargets, retargets + 1} /\ retargets' <= MaxRetargets
  BY <1>1 DEF WorkAssumption
<1> QED BY <1>2, <1>3, <1>4, <1>5, <1>6, BaseIssue

LEMMA BaseStep == WorkAssumption /\ BaseInv /\ [Next]_vars => BaseInv'
<1> SUFFICES ASSUME WorkAssumption, BaseInv, [Next]_vars PROVE BaseInv'
  OBVIOUS
<1>0. /\ session \in [Session -> ConnectionType] /\ clock \in 0 .. MaxTime /\ tip \in 1 .. MaxTips
      /\ MaxTime \in Nat /\ MaxTips \in Nat /\ MaxRetargets \in Nat
      /\ retargets \in 0 .. MaxRetargets
  BY DEF BaseInv, BaseTypes, WorkAssumption
<1>1. CASE Tick \/ NewTip \/ UNCHANGED vars
  <2>1. /\ clock' \in 0 .. MaxTime /\ tip' \in 1 .. MaxTips
        /\ UNCHANGED <<fetching, latest, contents, counter, retargets, session>>
    BY <1>0, <1>1 DEF Tick, NewTip, vars
  <2> QED BY <1>0, <2>1, BaseKeeps
<1>2. ASSUME NEW s \in Session, NEW level \in Level \cup Password, NEW fixed \in BOOLEAN,
             Authorize(s, level, fixed)
      PROVE  BaseInv'
  <2>1. PICK state : state = [session[s] EXCEPT !.phase = "authorizing", !.fixed = fixed]
    OBVIOUS
  <2>2. session[s] \in ConnectionType
    BY <1>0
  <2>3. /\ state \in ConnectionType /\ state.phase = "authorizing"
        /\ state.wake = session[s].wake
    BY <2>1, <2>2 DEF ConnectionType
  <2>4. /\ session[s].phase = "new" /\ Issue(s, level, state)
        /\ UNCHANGED <<clock, tip, fetching, latest, contents>>
        /\ UNCHANGED retargets
    BY <1>2, <2>1 DEF Authorize
  <2>5. retargets' \in {retargets, retargets + 1} /\ retargets' <= MaxRetargets
    BY <1>0, <2>4
  <2> QED BY <2>3, <2>4, <2>5, BaseIssue
<1>3. ASSUME NEW s \in Session, WakeUp(s) PROVE BaseInv'
  <2>1. PICK state : state = [session[s] EXCEPT !.wake = FALSE]
    OBVIOUS
  <2>2. CASE Due(s) /\ Renew(s, state)
    BY <1>3, <2>1, <2>2, BaseRenew DEF WakeUp
  <2>3. CASE session' = [session EXCEPT ![s] = state] /\ UNCHANGED counter
    <3>1. session[s] \in ConnectionType
      BY <1>0
    <3>2. /\ state \in ConnectionType /\ state.phase = session[s].phase
          /\ state.anchor = session[s].anchor /\ ~state.wake
      BY <2>1, <3>1 DEF ConnectionType
    <3>3. session' \in [Session -> ConnectionType]
      BY <1>0, <2>3, <3>2
    <3>4. \A t \in Session : /\ session'[t].phase = session[t].phase
                             /\ session'[t].anchor = session[t].anchor
                             /\ (session'[t].wake => session[t].wake)
      BY <1>0, <2>3, <3>2
    <3> QED BY <1>0, <1>3, <2>3, <3>3, <3>4, BaseKeeps DEF WakeUp
  <2> QED BY <1>3, <2>1, <2>2, <2>3 DEF WakeUp
<1>4. ASSUME NEW s \in Session, Timeout(s) PROVE BaseInv'
  BY <1>4, BaseRenew DEF Timeout
<1>5. ASSUME NEW s \in Session, Deliver(s) PROVE BaseInv'
  <2>1. PICK phase : phase = IF session[s].phase = "authorizing" /\ sending'[s] = <<>>
                             THEN "on" ELSE session[s].phase
    OBVIOUS
  <2>2. /\ session' = [session EXCEPT ![s].phase = phase]
        /\ UNCHANGED <<clock, tip, fetching, latest, contents, counter, retargets>>
    BY <1>5, <2>1 DEF Deliver
  <2>3. session[s] \in ConnectionType
    BY <1>0
  <2>4. PICK c : c = [session[s] EXCEPT !.phase = phase]
    OBVIOUS
  <2>5. /\ c \in ConnectionType /\ c.anchor = session[s].anchor /\ c.wake = session[s].wake
        /\ c.phase = phase
    BY <2>1, <2>3, <2>4 DEF ConnectionType
  <2>6. session' = [session EXCEPT ![s] = c]
    BY <1>0, <2>2, <2>4
  <2>7. session' \in [Session -> ConnectionType]
    BY <1>0, <2>5, <2>6
  <2>8. \A t \in Session :
          /\ session'[t].anchor = session[t].anchor /\ (session'[t].wake => session[t].wake)
          /\ \/ session'[t].phase = session[t].phase
             \/ session[t].phase \notin {"new", "gone"} /\ session'[t].phase # "new"
    BY <1>0, <2>1, <2>5, <2>6
  <2> QED BY <1>0, <2>2, <2>7, <2>8, BaseKeeps
<1>6. ASSUME NEW s \in Session, Disconnect(s) PROVE BaseInv'
  <2>1. Connection("gone") \in ConnectionType
    BY DEF Connection, ConnectionType, Synthetic, Template, WorkAssumption
  <2>2. session' = [session EXCEPT ![s] = Connection("gone")]
    BY <1>6 DEF Disconnect
  <2>3. session' \in [Session -> ConnectionType]
    BY <1>0, <2>1, <2>2
  <2>4. \A t \in Session : session'[t] = session[t] \/ session'[t] = Connection("gone")
    BY <1>0, <2>2
  <2> QED BY <1>0, <1>6, <2>3, <2>4, BaseKeeps DEF Disconnect
<1>7. ASSUME NEW s \in Session, NEW work, NEW nonce, NEW form,
             Submit(s, work, nonce, form)
      PROVE  BaseInv'
  <2>1. UNCHANGED <<clock, tip, fetching, latest, contents>>
    BY <1>7 DEF Submit
  <2>2. CASE UNCHANGED <<counter, session, retargets>>
    BY <1>0, <2>1, <2>2, BaseKeeps
  <2>3. ASSUME NEW level \in Level, Retarget(s, level), retargets < MaxRetargets,
               retargets' = retargets + 1
        PROVE  BaseInv'
    <3>1. session[s] \in ConnectionType /\ Issue(s, level, session[s])
      BY <1>0, <2>3 DEF Retarget
    <3>2. retargets' \in {retargets, retargets + 1} /\ retargets' <= MaxRetargets
      BY <1>0, <2>3
    <3> QED BY <2>1, <2>3, <3>1, <3>2, BaseIssue
  <2> QED BY <1>7, <2>2, <2>3 DEF Submit
<1> QED BY <1>1, <1>2, <1>3, <1>4, <1>5, <1>6, <1>7, BaseTemplates DEF Next, WorkAssumption

-----------------------------------------------------------------------------
(* Types *)

Message == [kind : {"reply", "difficulty", "notify"}, level : Level \cup Password,
            job : Job \cup {NoJob}]
Entry == [who : {"handler", "loop"}, messages : Seq(Message) \ {<<>>}]

JobsInv ==
  /\ jobs \subseteq Job /\ IsFiniteSet(jobs) /\ Cardinality(jobs) <= JobCacheSize
  /\ \A s \in Session : session[s].current <= counter
MinerTypes == sending \in [Session -> Seq(Entry)] /\ miner \in [Session -> [now : Work, before : Work]]
SeenInv ==
  /\ seen \in Seq([of : Submission, at : Nat]) /\ Len(seen) <= DupCacheSize
  /\ credits \in [Submission -> Nat]

DataInv == JobsInv /\ MinerTypes /\ SeenInv

NumbersIn == counter <= MaxJobs

\* A set of jobs has an oldest one.
LEMMA OldestJob ==
  ASSUME NEW C, C \subseteq Job, C # {}, WorkAssumption
  PROVE  \E j \in C : \A k \in C : j.id <= k.id
<1> DEFINE S == {j.id : j \in C}
           R == {ss \in Nat \X Nat : ss[1] < ss[2]}
<1>1. S \subseteq Nat /\ S # {}
  <2>1. MaxJobs \in Nat
    BY Pairs
  <2>2. \A j \in C : j.id \in Nat
    BY <2>1 DEF Job
  <2> QED BY <2>2
<1>2. IsWellFoundedOn(R, Nat)
  BY NatLessThanWellFounded DEF OpToRel
<1>3. PICK m \in S : \A n \in S : ~(<<n, m>> \in R)
  <2> HIDE DEF R, S
  <2> QED BY <1>1, <1>2, WFMin
<1>4. \A n \in S : m <= n
  <2> SUFFICES ASSUME NEW n \in S PROVE m <= n
    OBVIOUS
  <2>1. m \in Nat /\ n \in Nat /\ <<n, m>>[1] = n /\ <<n, m>>[2] = m
    BY <1>1
  <2>2. ~(n < m)
    BY <1>3, <2>1
  <2> QED BY <2>1, <2>2
<1> QED BY <1>3, <1>4

\* The cache keeps its size when a job is added.
LEMMA CacheOf ==
  ASSUME WorkAssumption, NEW C, C \subseteq Job, IsFiniteSet(C), Cardinality(C) <= JobCacheSize,
         NEW j \in Job
  PROVE  /\ Cache(C \cup {j}) \subseteq Job /\ IsFiniteSet(Cache(C \cup {j}))
         /\ Cardinality(Cache(C \cup {j})) <= JobCacheSize
<1> DEFINE D == C \cup {j}
<1>1. /\ IsFiniteSet(D) /\ Cardinality(D) \in Nat /\ Cardinality(C) \in Nat
      /\ Cardinality(D) = IF j \in C THEN Cardinality(C) ELSE Cardinality(C) + 1
  BY FS_AddElement, FS_CardinalityType
<1>2. JobCacheSize \in Nat /\ Cardinality(D) <= JobCacheSize + 1
  BY <1>1 DEF WorkAssumption
<1>3. D \subseteq Job /\ D # {}
  OBVIOUS
<1> HIDE DEF D
<1>4. PICK o \in D : WithoutOldest(D) = D \ {o}
  <2>1. \E x \in D : \A k \in D : x.id <= k.id
    BY <1>3, OldestJob
  <2> QED BY <2>1 DEF WithoutOldest
<1>5. /\ IsFiniteSet(D \ {o}) /\ Cardinality(D \ {o}) = Cardinality(D) - 1
  BY <1>1, FS_RemoveElement
<1>6. Cache(D) \in {D, D \ {o}} /\ (Cardinality(D) > JobCacheSize => Cache(D) = D \ {o})
  BY <1>4 DEF Cache
<1>7. Cache(D) \subseteq Job /\ IsFiniteSet(Cache(D)) /\ Cardinality(Cache(D)) <= JobCacheSize
  <2>1. CASE Cache(D) = D \ {o}
    <3>1. Cardinality(D) - 1 <= JobCacheSize
      BY <1>1, <1>2
    <3> QED BY <1>3, <1>5, <2>1, <3>1
  <2>2. CASE Cache(D) = D /\ ~(Cardinality(D) > JobCacheSize)
    <3>1. Cardinality(D) <= JobCacheSize
      BY <1>1, <1>2, <2>2
    <3> QED BY <1>1, <1>3, <2>2, <3>1
  <2> QED BY <1>6, <2>1, <2>2
<1> QED BY <1>7 DEF D

LEMMA JobsIssue ==
  ASSUME WorkAssumption, BaseInv, JobsInv, NumbersIn', NEW s \in Session,
         NEW level \in Level \cup Password, NEW state \in ConnectionType, Issue(s, level, state)
  PROVE  JobsInv' /\ NewJob(s, level) \in Job
<1>1. /\ counter \in Nat /\ counter' = counter + 1 /\ counter + 1 <= MaxJobs
      /\ latest \in Template /\ clock \in Nat /\ JobTtl \in Nat /\ MaxJobs \in Nat
      /\ session \in [Session -> ConnectionType]
  BY Pairs DEF BaseInv, BaseTypes, WorkAssumption, NumbersIn, Issue
<1>2. counter + 1 \in 1 .. MaxJobs /\ clock + JobTtl \in Nat
  BY <1>1
<1>3. NewJob(s, level) \in Job
  BY <1>1, <1>2 DEF NewJob, Job
<1>4. jobs' \subseteq Job /\ IsFiniteSet(jobs') /\ Cardinality(jobs') <= JobCacheSize
  BY <1>3, CacheOf DEF JobsInv, Issue
<1>5. ASSUME NEW t \in Session PROVE session'[t].current <= counter'
  <2>1. CASE t = s
    <3>1. session'[s] = [state EXCEPT !.current = counter + 1, !.anchor = latest, !.level = level]
      BY <1>1 DEF Issue
    <3>2. session'[s].current = counter + 1
      BY <3>1 DEF ConnectionType
    <3> QED BY <1>1, <2>1, <3>2
  <2>2. CASE t # s
    <3>1. session'[t] = session[t]
      BY <1>1, <2>2 DEF Issue
    <3>2. session[t].current <= counter /\ session[t].current \in Nat
      BY <1>1 DEF JobsInv, ConnectionType
    <3> QED BY <1>1, <3>1, <3>2
  <2> QED BY <2>1, <2>2
<1> QED BY <1>3, <1>4, <1>5 DEF JobsInv

\* The messages that are sent are messages.
LEMMA Messages ==
  ASSUME WorkAssumption, NEW l \in Level \cup Password, NEW j \in Job
  PROVE  /\ <<Reply>> \in Seq(Message) \ {<<>>}
         /\ <<SetDifficulty(l), Notify(j)>> \in Seq(Message) \ {<<>>}
         /\ <<Reply, SetDifficulty(l), Notify(j)>> \in Seq(Message) \ {<<>>}
<1>1. Reply \in Message /\ SetDifficulty(l) \in Message /\ Notify(j) \in Message
  BY DEF Reply, SetDifficulty, Notify, Message, WorkAssumption
<1> QED BY <1>1

LEMMA MinerSend ==
  ASSUME MinerTypes, NEW s \in Session, NEW who \in {"handler", "loop"},
         NEW messages \in Seq(Message) \ {<<>>}, Send(s, who, messages), miner' = miner
  PROVE  MinerTypes'
<1>1. [who |-> who, messages |-> messages] \in Entry
  BY DEF Entry
<1>2. Append(sending[s], [who |-> who, messages |-> messages]) \in Seq(Entry)
  BY <1>1, AppendProperties DEF MinerTypes
<1> QED BY <1>2 DEF MinerTypes, Send

\* What a message makes of a miner's work.
LEMMA GotWork ==
  ASSUME NEW work \in Work, NEW m \in Message PROVE Got(work, m) \in Work
<1>1. m.kind \in {"reply", "difficulty", "notify"} /\ m.level \in Level \cup Password
      /\ m.job \in Job \cup {NoJob}
  BY DEF Message
<1>2. work.job \in Job \cup {NoJob} /\ work.level \in Level \cup Password
      /\ work = [job |-> work.job, level |-> work.level]
  BY DEF Work
<1>3. m.kind = "difficulty" => Got(work, m) = [work EXCEPT !.level = m.level]
  BY DEF Got
<1>4. m.kind = "notify" => Got(work, m) = [work EXCEPT !.job = m.job]
  BY DEF Got
<1>5. m.kind = "reply" => Got(work, m) = work
  BY DEF Got
<1>6. [work EXCEPT !.level = m.level] = [job |-> work.job, level |-> m.level]
      /\ [work EXCEPT !.job = m.job] = [job |-> m.job, level |-> work.level]
  BY <1>2
<1> QED BY <1>1, <1>2, <1>3, <1>4, <1>5, <1>6 DEF Work

LEMMA NoWorkIsWork == WorkAssumption => NoWork \in Work
  BY DEF WorkAssumption, NoWork, Work

LEMMA Onwards ==
  ASSUME NEW e, e = [who |-> e.who, messages |-> e.messages], NEW m
  PROVE  [e EXCEPT !.messages = m] = [who |-> e.who, messages |-> m]
<1>1. PICK w, x : w = e.who /\ x = e.messages
  OBVIOUS
<1>2. e = [who |-> w, messages |-> x]
  BY <1>1
<1>3. [[who |-> w, messages |-> x] EXCEPT !.messages = m] = [who |-> w, messages |-> m]
  OBVIOUS
<1> QED BY <1>1, <1>2, <1>3

LEMMA MinerDeliver ==
  ASSUME MinerTypes, NEW s \in Session, Deliver(s)
  PROVE  MinerTypes'
<1> DEFINE q == sending[s]
           e == Head(q)
           m == Head(e.messages)
<1>1. q \in Seq(Entry) /\ q # <<>>
  BY DEF MinerTypes, Deliver
<1>2. e \in Entry /\ Tail(q) \in Seq(Entry)
  BY <1>1, HeadTailProperties
<1>3. e.messages \in Seq(Message) /\ e.messages # <<>> /\ e.who \in {"handler", "loop"}
      /\ e = [who |-> e.who, messages |-> e.messages]
  BY <1>2 DEF Entry
<1>4. m \in Message /\ Tail(e.messages) \in Seq(Message)
  BY <1>3, HeadTailProperties
<1>5. StillSending(s) \in Seq(Entry)
  <2>1. CASE Tail(e.messages) = <<>>
    BY <1>2, <2>1 DEF StillSending
  <2>2. CASE Tail(e.messages) # <<>>
    <3>1. [e EXCEPT !.messages = Tail(e.messages)] = [who |-> e.who, messages |-> Tail(e.messages)]
      BY <1>3, Onwards
    <3>2. [e EXCEPT !.messages = Tail(e.messages)] \in Entry
      BY <1>3, <1>4, <2>2, <3>1 DEF Entry
    <3>3. Append(Tail(q), [e EXCEPT !.messages = Tail(e.messages)]) \in Seq(Entry)
      BY <1>2, <3>2, AppendProperties
    <3> QED BY <2>2, <3>3 DEF StillSending
  <2> QED BY <2>1, <2>2
<1>6. sending' \in [Session -> Seq(Entry)]
  BY <1>5 DEF MinerTypes, Deliver
<1>7. miner \in [Session -> [now : Work, before : Work]] /\ miner[s].now \in Work
  BY DEF MinerTypes
<1>8. Got(miner[s].now, m) \in Work
  <2> HIDE DEF m
  <2> QED BY <1>4, <1>7, GotWork
<1>9. miner' = IF Got(miner[s].now, m) = miner[s].now THEN miner
               ELSE [miner EXCEPT ![s] = [now |-> Got(miner[s].now, m), before |-> miner[s].now]]
  BY DEF Deliver, Receive, Got
<1>10. miner' \in [Session -> [now : Work, before : Work]]
  <2> HIDE DEF m
  <2> QED BY <1>7, <1>8, <1>9
<1> QED BY <1>6, <1>10 DEF MinerTypes

LEMMA SeenTick ==
  ASSUME SeenInv, Tick, WorkAssumption PROVE SeenInv'
<1> DEFINE F == [of : Submission, at : Nat]
<1>1. PICK n \in 0 .. Len(seen) : Forget(n, clock')
  BY DEF Tick
<1>2. seen \in Seq(F) /\ Len(seen) \in Nat /\ Len(seen) <= DupCacheSize /\ DupCacheSize \in Nat
  BY LenProperties DEF SeenInv, WorkAssumption
<1>3. PICK l \in Nat : l = Len(seen)
  BY <1>2
<1>4. \A i \in n + 1 .. l : seen[i] \in F
  <2> HIDE DEF F
  <2>1. \A i \in n + 1 .. l : i \in 1 .. l
    BY <1>3
  <2> QED BY <1>2, <1>3, <2>1, ElementOfSeq
<1>5. /\ SubSeq(seen, n + 1, l) \in Seq(F)
      /\ Len(SubSeq(seen, n + 1, l)) = IF n + 1 <= l THEN l - (n + 1) + 1 ELSE 0
  <2> HIDE DEF F
  <2> QED BY <1>2, <1>3, <1>4, SubSeqProperties
<1>6. seen' = SubSeq(seen, n + 1, l)
  BY <1>1, <1>3 DEF Forget
<1>7. Len(seen') <= DupCacheSize
  <2>1. \A k, d \in Nat : k <= d => (IF n + 1 <= k THEN k - (n + 1) + 1 ELSE 0) <= d
    BY <1>2
  <2> QED BY <1>2, <1>3, <1>5, <1>6, <2>1
<1>8. credits' = credits
  BY DEF Tick
<1> QED BY <1>5, <1>6, <1>7, <1>8 DEF SeenInv

LEMMA SeenCredit ==
  ASSUME SeenInv, WorkAssumption, NEW credited \in Submission, clock \in Nat, Credit(credited)
  PROVE  SeenInv'
<1> DEFINE F == [of : Submission, at : Nat]
           new == [of |-> credited, at |-> clock]
           grown == Append(seen, new)
<1>1. /\ seen \in Seq(F) /\ Len(seen) \in Nat /\ Len(seen) <= DupCacheSize
      /\ DupCacheSize \in Nat /\ new \in F
  BY LenProperties DEF SeenInv, WorkAssumption
<1>2. grown \in Seq(F) /\ Len(grown) = Len(seen) + 1 /\ grown # <<>>
  <2> HIDE DEF F, new
  <2> QED BY <1>1, AppendProperties
<1>3. seen' = IF Len(grown) > DupCacheSize THEN Tail(grown) ELSE grown
  BY DEF Credit, Remember
<1>4. Tail(grown) \in Seq(F) /\ Len(Tail(grown)) = Len(grown) - 1
  <2> HIDE DEF F, grown
  <2> QED BY <1>2, HeadTailProperties
<1>5. seen' \in Seq(F) /\ Len(seen') <= DupCacheSize
  <2> HIDE DEF F, grown, new
  <2>1. CASE Len(grown) > DupCacheSize
    <3>1. Len(grown) - 1 = Len(seen)
      BY <1>1, <1>2
    <3>2. seen' = Tail(grown) /\ Len(seen') = Len(seen)
      BY <1>3, <1>4, <2>1, <3>1
    <3> QED BY <1>1, <1>4, <3>2
  <2>2. CASE ~(Len(grown) > DupCacheSize)
    <3>1. Len(grown) <= DupCacheSize
      BY <1>1, <1>2, <2>2
    <3> QED BY <1>2, <1>3, <2>2, <3>1
  <2> QED BY <2>1, <2>2
<1>6. credits' \in [Submission -> Nat]
  <2>1. credits \in [Submission -> Nat] /\ credits[credited] + 1 \in Nat
    BY DEF SeenInv
  <2>2. credits' = [credits EXCEPT ![credited] = credits[credited] + 1]
    BY DEF Credit
  <2> QED BY <2>1, <2>2
<1> QED BY <1>5, <1>6 DEF SeenInv

LEMMA JobsSame ==
  ASSUME JobsInv, UNCHANGED <<jobs, counter>>,
         \A s \in Session : session'[s].current = session[s].current
  PROVE  JobsInv'
  BY DEF JobsInv

LEMMA DataTick ==
  ASSUME WorkAssumption, BaseInv, DataInv, Tick PROVE DataInv'
<1>1. jobs' \subseteq jobs /\ UNCHANGED <<counter, session, sending, miner>>
  BY DEF Tick
<1>2. JobsInv'
  <2>1. /\ IsFiniteSet(jobs') /\ Cardinality(jobs') <= Cardinality(jobs)
        /\ Cardinality(jobs) \in Nat /\ Cardinality(jobs') \in Nat
    BY <1>1, FS_Subset, FS_CardinalityType DEF DataInv, JobsInv
  <2>2. JobCacheSize \in Nat /\ Cardinality(jobs) <= JobCacheSize
    BY DEF DataInv, JobsInv, WorkAssumption
  <2>3. Cardinality(jobs') <= JobCacheSize
    BY <2>1, <2>2
  <2> QED BY <1>1, <2>1, <2>3 DEF DataInv, JobsInv
<1> QED BY <1>1, <1>2, SeenTick DEF DataInv, MinerTypes

\* A job is issued and its messages are sent.
LEMMA DataIssue ==
  ASSUME WorkAssumption, BaseInv, DataInv, NumbersIn', NEW s \in Session,
         NEW level \in Level \cup Password, NEW state \in ConnectionType, Issue(s, level, state),
         NEW who \in {"handler", "loop"}, miner' = miner, SeenInv',
         \/ Send(s, who, <<Reply, SetDifficulty(level), Notify(NewJob(s, level))>>)
         \/ Send(s, who, <<SetDifficulty(level), Notify(NewJob(s, level))>>)
  PROVE  DataInv'
<1>1. JobsInv' /\ NewJob(s, level) \in Job
  BY JobsIssue DEF DataInv
<1>2. /\ <<SetDifficulty(level), Notify(NewJob(s, level))>> \in Seq(Message) \ {<<>>}
      /\ <<Reply, SetDifficulty(level), Notify(NewJob(s, level))>> \in Seq(Message) \ {<<>>}
  BY <1>1, Messages
<1>3. MinerTypes'
  <2>1. CASE Send(s, who, <<Reply, SetDifficulty(level), Notify(NewJob(s, level))>>)
    BY <1>2, <2>1, MinerSend DEF DataInv
  <2>2. CASE Send(s, who, <<SetDifficulty(level), Notify(NewJob(s, level))>>)
    BY <1>2, <2>2, MinerSend DEF DataInv
  <2> QED BY <2>1, <2>2
<1> QED BY <1>1, <1>3 DEF DataInv

LEMMA DataRenew ==
  ASSUME WorkAssumption, BaseInv, DataInv, NumbersIn', NEW s \in Session, NEW state,
         state \in {session[s], [session[s] EXCEPT !.wake = FALSE]}, Renew(s, state),
         UNCHANGED <<miner, seen, credits>>
  PROVE  DataInv'
<1>1. session[s] \in ConnectionType
  BY DEF BaseInv, BaseTypes
<1>2. state \in ConnectionType /\ state.level \in Level \cup Password
  BY <1>1 DEF ConnectionType
<1>3. SeenInv'
  BY DEF DataInv, SeenInv
<1>4. "loop" \in {"handler", "loop"}
  OBVIOUS
<1> QED BY <1>2, <1>3, <1>4, DataIssue DEF Renew

LEMMA DataSubmit ==
  ASSUME WorkAssumption, BaseInv, DataInv, NumbersIn', NEW s \in Session, NEW work,
         NEW nonce \in Nonce, NEW form \in Form, Submit(s, work, nonce, form)
  PROVE  DataInv'
<1>1. SeenInv'
  <2>1. CASE UNCHANGED <<seen, credits>>
    BY <2>1 DEF DataInv, SeenInv
  <2>2. CASE work.job \in jobs /\ Credit(<<work.job.id, nonce, form>>)
    <3>1. <<work.job.id, nonce, form>> \in Submission
      BY <2>2 DEF DataInv, JobsInv, Job, Submission
    <3>2. clock \in Nat
      BY DEF BaseInv, BaseTypes, WorkAssumption
    <3> QED BY <2>2, <3>1, <3>2, SeenCredit DEF DataInv
  <2> QED BY <2>1, <2>2 DEF Submit, Accepted, Known, Credit, Fingerprint
<1>2. CASE Send(s, "handler", <<Reply>>) /\ UNCHANGED <<jobs, counter, session>>
  <2>1. JobsInv'
    BY <1>2, JobsSame DEF DataInv
  <2>2. <<Reply>> \in Seq(Message) \ {<<>>}
    <3>1. Reply \in Message
      BY DEF Reply, Message, WorkAssumption
    <3> QED BY <3>1
  <2>3. MinerTypes'
    BY <1>2, <2>2, MinerSend DEF DataInv, Submit
  <2> QED BY <1>1, <2>1, <2>3 DEF DataInv
<1>3. ASSUME NEW level \in Level, Retarget(s, level) PROVE DataInv'
  <2>1. session[s] \in ConnectionType /\ miner' = miner
    BY DEF BaseInv, BaseTypes, Submit
  <2> QED BY <1>1, <1>3, <2>1, DataIssue DEF Retarget
<1> QED BY <1>2, <1>3 DEF Submit

LEMMA DataStep ==
  ASSUME WorkAssumption, BaseInv, DataInv, NumbersIn', [Next]_vars
  PROVE  DataInv'
<1>1. CASE NewTip \/ Fetch \/ FetchFails \/ UNCHANGED vars
  BY <1>1 DEF NewTip, Fetch, FetchFails, vars, DataInv, JobsInv, MinerTypes, SeenInv
<1>2. CASE Fetched
  <2>1. /\ UNCHANGED <<jobs, counter, sending, miner, seen, credits>>
        /\ session' = [s \in Session |->
                         [session[s] EXCEPT !.wake = \/ @
                                                     \/ /\ session[s].phase # "gone"
                                                        /\ Wakes(latest, fetching)]]
    BY <1>2 DEF Fetched
  <2>2. ASSUME NEW s \in Session PROVE session'[s].current = session[s].current
    <3>1. PICK w : session'[s] = [session[s] EXCEPT !.wake = w]
      BY <2>1
    <3>2. session[s] \in ConnectionType
      BY DEF BaseInv, BaseTypes
    <3> QED BY <3>1, <3>2 DEF ConnectionType
  <2> QED BY <2>1, <2>2, JobsSame DEF DataInv, MinerTypes, SeenInv
<1>3. ASSUME NEW s \in Session, NEW level \in Level \cup Password, NEW fixed \in BOOLEAN,
             Authorize(s, level, fixed)
      PROVE  DataInv'
  <2>1. PICK state : state = [session[s] EXCEPT !.phase = "authorizing", !.fixed = fixed]
    OBVIOUS
  <2>2. session[s] \in ConnectionType
    BY DEF BaseInv, BaseTypes
  <2>3. state \in ConnectionType
    BY <2>1, <2>2 DEF ConnectionType
  <2>4. /\ Issue(s, level, state) /\ miner' = miner /\ UNCHANGED <<seen, credits>>
        /\ Send(s, "handler", <<Reply, SetDifficulty(level), Notify(NewJob(s, level))>>)
    BY <1>3, <2>1 DEF Authorize
  <2>5. SeenInv'
    BY <2>4 DEF DataInv, SeenInv
  <2> QED BY <2>3, <2>4, <2>5, DataIssue
<1>4. ASSUME NEW s \in Session, WakeUp(s) PROVE DataInv'
  <2>1. PICK state : state = [session[s] EXCEPT !.wake = FALSE]
    OBVIOUS
  <2>2. UNCHANGED <<miner, seen, credits>>
    BY <1>4 DEF WakeUp
  <2>3. CASE Renew(s, state)
    BY <2>1, <2>2, <2>3, DataRenew
  <2>4. CASE session' = [session EXCEPT ![s] = state] /\ UNCHANGED <<counter, jobs, sending>>
    <3>1. session \in [Session -> ConnectionType]
      BY DEF BaseInv, BaseTypes
    <3>2. state.current = session[s].current
      BY <2>1, <3>1 DEF ConnectionType
    <3>3. \A t \in Session : session'[t].current = session[t].current
      BY <2>4, <3>1, <3>2
    <3> QED BY <2>2, <2>4, <3>3, JobsSame DEF DataInv, MinerTypes, SeenInv
  <2> QED BY <1>4, <2>1, <2>3, <2>4 DEF WakeUp
<1>5. ASSUME NEW s \in Session, Timeout(s) PROVE DataInv'
  BY <1>5, DataRenew DEF Timeout
<1>6. ASSUME NEW s \in Session, Deliver(s) PROVE DataInv'
  <2>1. PICK phase : session' = [session EXCEPT ![s].phase = phase]
    BY <1>6 DEF Deliver
  <2>2. \A t \in Session : session'[t].current = session[t].current
    BY <2>1 DEF BaseInv, BaseTypes, ConnectionType
  <2>3. UNCHANGED <<jobs, counter, seen, credits>>
    BY <1>6 DEF Deliver
  <2> QED BY <1>6, <2>2, <2>3, JobsSame, MinerDeliver DEF DataInv, SeenInv
<1>7. ASSUME NEW s \in Session, Disconnect(s) PROVE DataInv'
  <2>1. NoWork \in Work
    BY NoWorkIsWork
  <2>2. MinerTypes'
    BY <1>7, <2>1 DEF Disconnect, DataInv, MinerTypes
  <2>3. \A t \in Session : session'[t].current = session[t].current \/ session'[t].current = 0
    BY <1>7 DEF Disconnect, BaseInv, BaseTypes, Connection
  <2>4. JobsInv'
    BY <1>7, <2>3 DEF Disconnect, DataInv, JobsInv, BaseInv, BaseTypes
  <2> QED BY <1>7, <2>2, <2>4 DEF Disconnect, DataInv, SeenInv
<1>8. ASSUME NEW s \in Session, NEW work, NEW nonce \in Nonce, NEW form \in Form,
             Submit(s, work, nonce, form)
      PROVE  DataInv'
  BY <1>8, DataSubmit
<1>9. Initial \in Level \cup Password
  BY DEF WorkAssumption
<1> QED BY <1>1, <1>2, <1>3, <1>4, <1>5, <1>6, <1>7, <1>8, <1>9, DataTick DEF Next

LEMMA DataInit == WorkAssumption /\ Init => DataInv
<1> SUFFICES ASSUME WorkAssumption, Init PROVE DataInv
  OBVIOUS
<1>1. JobsInv
  BY FS_EmptySet DEF Init, InitJobs, JobsInv, Connection, WorkAssumption
<1>2. MinerTypes
  <2>1. <<>> \in Seq(Entry)
    OBVIOUS
  <2> QED BY <2>1, NoWorkIsWork DEF Init, MinerTypes
<1>3. SeenInv
  BY DEF Init, SeenInv, WorkAssumption
<1> QED BY <1>1, <1>2, <1>3 DEF DataInv

\* At most one message list of the handler and one of the notify loop is in a queue.
LEMMA QueueShort == QueueInv => \A s \in Session : Len(sending[s]) <= 2
<1> SUFFICES ASSUME QueueInv, NEW s \in Session PROVE Len(sending[s]) <= 2
  OBVIOUS
<1>1. InStep(sending[s], miner[s].now, session[s].level)
  BY DEF QueueInv, Queued
<1>2. sending[s] = <<>> \/ (\E e : sending[s] = <<e>>) \/ (\E e, f : sending[s] = <<e, f>>)
  BY <1>1 DEF InStep, One, Two
<1>3. \A e, f : Len(<<>>) <= 2 /\ Len(<<e>>) <= 2 /\ Len(<<e, f>>) <= 2
  OBVIOUS
<1> QED BY <1>2, <1>3

LEMMA TypesHold ==
  WorkAssumption /\ BaseInv /\ NumbersIn /\ DataInv /\ QueueInv => TypeOK
<1> SUFFICES ASSUME WorkAssumption, BaseInv, NumbersIn, DataInv, QueueInv PROVE TypeOK
  OBVIOUS
<1>1. /\ MaxJobs \in Nat /\ counter \in 0 .. MaxJobs
      /\ session \in [Session -> ConnectionType]
  BY Pairs DEF BaseInv, BaseTypes, NumbersIn
<1>2. \A s \in Session : session[s] \in
        [phase : {"new", "authorizing", "on", "gone"}, level : Level \cup Password,
         fixed : BOOLEAN, current : 0 .. MaxJobs, anchor : Template, wake : BOOLEAN]
  <2> SUFFICES ASSUME NEW s \in Session
               PROVE  session[s].current \in 0 .. MaxJobs /\ session[s] \in ConnectionType
    BY DEF ConnectionType
  <2>1. session[s] \in ConnectionType /\ session[s].current \in Nat
    BY <1>1 DEF ConnectionType
  <2>2. session[s].current <= counter
    BY DEF DataInv, JobsInv
  <2> QED BY <1>1, <2>1, <2>2
<1>3. session \in [Session ->
        [phase : {"new", "authorizing", "on", "gone"}, level : Level \cup Password,
         fixed : BOOLEAN, current : 0 .. MaxJobs, anchor : Template, wake : BOOLEAN]]
  BY <1>1, <1>2
<1>4. \A s \in Session : Len(sending[s]) <= 2
  BY QueueShort
<1>5. \A s \in Session : {miner[s].now, miner[s].before} \subseteq Work
  BY DEF DataInv, MinerTypes
<1> QED BY <1>1, <1>3, <1>4, <1>5 DEF TypeOK, BaseInv, BaseTypes, DataInv, JobsInv, SeenInv

\* The job cache and that of the fingerprints keep to their sizes, at most the handler and
\* the notify loop wait for a connection's lock, and beyond synthetic jobs and retargets a
\* connection is issued at most one job of each content.
THEOREM TypeCorrect == Spec => []TypeOK
<1>1. Init => BaseInv /\ DataInv /\ QueueInv
  BY WorkAssumption, BaseInit, DataInit, QueueInit
<1>2. BaseInv /\ [Next]_vars => BaseInv'
  BY WorkAssumption, BaseStep
<1>3. BaseInv => NumbersIn
  BY WorkAssumption, NumbersBounded DEF NumbersIn
<1>4. BaseInv /\ DataInv /\ NumbersIn' /\ [Next]_vars => DataInv'
  BY WorkAssumption, DataStep
<1>5. QueueInv /\ [Next]_vars => QueueInv'
  BY QueueStep
<1>6. BaseInv /\ NumbersIn /\ DataInv /\ QueueInv => TypeOK
  BY WorkAssumption, TypesHold
<1> QED BY <1>1, <1>2, <1>3, <1>4, <1>5, <1>6, PTL DEF Spec
=============================================================================
