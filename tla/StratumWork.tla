---------------------------- MODULE StratumWork ----------------------------
(***************************************************************************)
(* How work reaches the miners and how their shares are judged:            *)
(* apps/pool-core/template_jobs.py and stratum_ingress.py.                 *)
(*                                                                         *)
(* One coroutine fetches templates from the daemon.  A miner's connection  *)
(* has two: the handler answers its requests, the notify loop sends new    *)
(* jobs.  Both write to the connection under send_lock, which is granted   *)
(* in the order of asking; what a coroutine does between two awaits is one *)
(* step.                                                                   *)
(*                                                                         *)
(* A template is the tip it builds on and the number of its content; its   *)
(* anchor is the template itself.  A nonce stands for all a miner varies:  *)
(* with the session and the template it is a proof of work.  A form is how *)
(* a submit is written: the login it is made under, which it names itself, *)
(* the case of its hex digits and the blanks around its fields.            *)
(* A difficulty is a power of two, named by its exponent.  Expired jobs    *)
(* and fingerprints are pruned before every use; here they go with the     *)
(* second that expires them.  A job that was retired and one that is not   *)
(* known are rejected alike.  A miner authorizes once per connection.      *)
(***************************************************************************)
EXTENDS Naturals, Sequences, FiniteSets

CONSTANTS
  Session,
  Nonce,         \* what a miner may find for one job
  Form,          \* logins and spellings a submit may be written in
  Level,         \* difficulties vardiff may assign, an interval of exponents
  Initial,       \* _initial_session_difficulty
  Password,      \* difficulties a miner may ask for in its password
  JobTtl,        \* template_job_ttl_seconds
  JobCacheSize,  \* template_job_cache_size
  DupWindow,     \* SUBMIT_DUPLICATE_WINDOW_SECONDS
  DupCacheSize,  \* _duplicate_submit_cache_size
  PowMayFail,    \* the hash library may be unavailable
  MaxTips,       \* bound: tips of the daemon
  MaxTemplates,  \* bound: templates with content of their own
  MaxSynthetic,  \* bound: jobs issued before the first template
  MaxRetargets,  \* bound: changes of difficulty in a behaviour
  MaxCredited,   \* bound: different submits credited in a behaviour
  MaxTime        \* bound: seconds

MaxJobs == MaxSynthetic + MaxRetargets + Cardinality(Session) * (MaxTemplates + 1)

ASSUME WorkAssumption ==
  /\ IsFiniteSet(Session)
  /\ Level \subseteq Nat /\ Initial \in Level /\ Password \subseteq Nat
  /\ {JobTtl, JobCacheSize, DupWindow, DupCacheSize, MaxTips} \subseteq Nat \ {0}
  /\ JobTtl <= DupWindow /\ PowMayFail \in BOOLEAN
  /\ {MaxTemplates, MaxSynthetic, MaxRetargets, MaxCredited, MaxTime} \subseteq Nat

Template == [tip : 0 .. MaxTips, n : 0 .. MaxTemplates]
\* No template: jobs are synthetic.
Synthetic == [tip |-> 0, n |-> 0]

Job == [id : 1 .. MaxJobs, of : Session, template : Template,
        level : Level \cup Password, expires : Nat]
NoJob == [id |-> 0, of |-> CHOOSE s \in Session : TRUE, template |-> Synthetic,
          level |-> Initial, expires |-> 0]

VARIABLES
  clock,
  tip,        \* the daemon's best block
  fetching,   \* the template on its way from the daemon, Synthetic for none
  latest,     \* _latest_template, Synthetic before the first
  contents,   \* templates with content of their own so far
  jobs,       \* the job cache; its order is that of the job ids
  counter,    \* _job_counter
  session,    \* ConnectionState and the notify loop of each connection
  sending,    \* who holds or waits for send_lock, and what each has still to send
  miner,      \* what each miner works on and worked on before, with its difficulty
  seen,       \* _submit_fingerprints, oldest first
  credits,    \* history: how often each submit was credited, as it was written
  retargets

vars == <<clock, tip, fetching, latest, contents, jobs, counter, session, sending,
          miner, seen, credits, retargets>>

\* A connection that has no job, because it is new or because it is "gone".
Connection(phase) == [phase |-> phase, level |-> Initial, fixed |-> FALSE, current |-> 0,
                      anchor |-> Synthetic, wake |-> FALSE]

\* _submit_fingerprint: a digest of the login and of job id, nonce and the rest as
\* they were sent.  Only the job id is normalised, to look the job up.
Fingerprint(job, nonce, form) == <<job.id, nonce, form>>
Submission == (1 .. MaxJobs) \X Nonce \X Form

Work == [job : Job \cup {NoJob}, level : Level \cup Password]
NoWork == [job |-> NoJob, level |-> Initial]

Credited == {f \in Submission : credits[f] > 0}

\* Messages to the miner.
Reply == [kind |-> "reply", level |-> Initial, job |-> NoJob]
SetDifficulty(l) == [kind |-> "difficulty", level |-> l, job |-> NoJob]
Notify(j) == [kind |-> "notify", level |-> Initial, job |-> j]

Sends(s, who) == \E i \in DOMAIN sending[s] : sending[s][i].who = who
HandlerIdle(s) == session[s].phase \in {"new", "on"} /\ ~Sends(s, "handler")
LoopIdle(s) == session[s].phase = "on" /\ ~Sends(s, "loop")

Send(s, who, messages) ==
  sending' = [sending EXCEPT ![s] = Append(@, [who |-> who, messages |-> messages])]

\* The TemplateJobManager begins without a template and without jobs.
InitJobs == fetching = Synthetic /\ latest = Synthetic /\ jobs = {}

Init ==
  /\ clock = 0 /\ tip = 1 /\ InitJobs /\ contents = 0 /\ counter = 0
  /\ session = [s \in Session |-> Connection("new")] /\ sending = [s \in Session |-> <<>>]
  /\ miner = [s \in Session |-> [now |-> NoWork, before |-> NoWork]]
  /\ seen = <<>> /\ credits = [f \in Submission |-> 0] /\ retargets = 0

-----------------------------------------------------------------------------
(* The daemon, its templates and the time *)

\* Changed for the mutants: a fingerprint is forgotten after a second.
RemembersShortly(f, now) == f.at + 1 > now

Remembers(f, now) == f.at + DupWindow > now

\* The first n fingerprints, which are the oldest, have expired.
Forget(n, now) ==
  /\ \A i \in DOMAIN seen : n < i <=> Remembers(seen[i], now)
  /\ seen' = SubSeq(seen, n + 1, Len(seen))

Tick ==
  /\ clock < MaxTime /\ clock' = clock + 1
  /\ jobs' = {j \in jobs : clock' < j.expires}
  /\ \E n \in 0 .. Len(seen) : Forget(n, clock')
  /\ UNCHANGED <<tip, fetching, latest, contents, counter, session, sending, miner,
                 credits, retargets>>

NewTip ==
  /\ tip < MaxTips /\ tip' = tip + 1
  /\ UNCHANGED <<clock, fetching, latest, contents, jobs, counter, session, sending,
                 miner, seen, credits, retargets>>

\* _parse_block_template: the anchor is a digest of the tip and the content.
Parsed(n) == [tip |-> tip, n |-> n]

\* get_block_template, in a thread: new content, or what the latest template has.
Fetch ==
  /\ fetching = Synthetic
  /\ \/ /\ contents < MaxTemplates /\ contents' = contents + 1
        /\ fetching' = Parsed(contents + 1)
     \/ latest.tip = tip /\ fetching' = latest /\ UNCHANGED contents
  /\ UNCHANGED <<clock, tip, latest, jobs, counter, session, sending, miner, seen,
                 credits, retargets>>

\* The rollover callback is called for another tip, not for the first one.
Wakes(old, new) == old # Synthetic /\ old.tip # new.tip

Fetched ==
  /\ fetching # Synthetic /\ fetching' = Synthetic
  /\ latest' = fetching
  /\ session' = [s \in Session |->
                   [session[s] EXCEPT !.wake = \/ @
                                               \/ /\ session[s].phase # "gone"
                                                  /\ Wakes(latest, fetching)]]
  /\ UNCHANGED <<clock, tip, contents, jobs, counter, sending, miner, seen, credits,
                 retargets>>

\* DaemonRpcError, before or after the daemon has read its template: the latest
\* one stays.
FetchFails ==
  /\ fetching' = Synthetic
  /\ UNCHANGED <<clock, tip, latest, contents, jobs, counter, session, sending, miner,
                 seen, credits, retargets>>

-----------------------------------------------------------------------------
(* Jobs *)

NewJob(s, level) ==
  [id |-> counter + 1, of |-> s, template |-> latest, level |-> level,
   expires |-> clock + JobTtl]

WithoutOldest(cache) == cache \ {CHOOSE j \in cache : \A k \in cache : j.id <= k.id}

\* Changed for the mutants: one job too many is kept.
CacheLoose(cache) ==
  IF Cardinality(cache) > JobCacheSize + 1 THEN WithoutOldest(cache) ELSE cache

\* The oldest job is evicted, whoever works on it.
Cache(cache) == IF Cardinality(cache) > JobCacheSize THEN WithoutOldest(cache) ELSE cache

\* _new_notify_message: a job of the latest template for s, at a difficulty; the
\* caller sends what it makes of the messages.
Issue(s, level, state) ==
  /\ counter' = counter + 1
  /\ jobs' = Cache(jobs \cup {NewJob(s, level)})
  /\ session' = [session EXCEPT ![s] =
                   [state EXCEPT !.current = counter + 1, !.anchor = latest,
                                 !.level = level]]

-----------------------------------------------------------------------------
(* The handler: authorize *)

\* The difficulty goes out when it is not what the session already had, which
\* before the first authorize is none.
Authorize(s, level, fixed) ==
  /\ HandlerIdle(s) /\ session[s].phase = "new"
  /\ fixed \/ level = Initial
  /\ Issue(s, level, [session[s] EXCEPT !.phase = "authorizing", !.fixed = fixed])
  /\ Send(s, "handler", <<Reply, SetDifficulty(level), Notify(NewJob(s, level))>>)
  /\ UNCHANGED <<clock, tip, fetching, latest, contents, miner, seen, credits, retargets>>

-----------------------------------------------------------------------------
(* The notify loop *)

\* Changed for the mutants: only a session without any template's job gets one.
DueOnce(s) == session[s].anchor = Synthetic

Due(s) == latest = Synthetic \/ session[s].anchor # latest

\* What the loop does when it is woken: the difficulty again, and a job.
Renew(s, state) ==
  /\ Issue(s, state.level, state)
  /\ Send(s, "loop", <<SetDifficulty(state.level), Notify(NewJob(s, state.level))>>)

\* The event is cleared before the template is looked at.
WakeUp(s) ==
  LET state == [session[s] EXCEPT !.wake = FALSE] IN
  /\ LoopIdle(s) /\ session[s].wake
  /\ \/ Due(s) /\ Renew(s, state)
     \/ ~Due(s) /\ session' = [session EXCEPT ![s] = state] /\ UNCHANGED <<counter, jobs, sending>>
  /\ UNCHANGED <<clock, tip, fetching, latest, contents, miner, seen, credits, retargets>>

\* The interval passes without an event.
Timeout(s) ==
  /\ LoopIdle(s) /\ Due(s)
  /\ latest = Synthetic => counter < MaxSynthetic
  /\ Renew(s, session[s])
  /\ UNCHANGED <<clock, tip, fetching, latest, contents, miner, seen, credits, retargets>>

\* Received by the miner: it mines the last job it was notified of at the last
\* difficulty it was told.
Receive(s, m) ==
  LET work == CASE m.kind = "difficulty" -> [miner[s].now EXCEPT !.level = m.level]
                [] m.kind = "notify"     -> [miner[s].now EXCEPT !.job = m.job]
                [] m.kind = "reply"      -> miner[s].now
  IN miner' = IF work = miner[s].now THEN miner
              ELSE [miner EXCEPT ![s] = [now |-> work, before |-> miner[s].now]]

\* A coroutine that has more to send asks for the lock anew, behind the other one.
StillSending(s) ==
  LET rest == Tail(Head(sending[s]).messages) IN
  IF rest = <<>> THEN Tail(sending[s])
  ELSE Append(Tail(sending[s]), [Head(sending[s]) EXCEPT !.messages = rest])

\* One message goes out.  After those of the authorize the notify loop starts.
Deliver(s) ==
  /\ sending[s] # <<>>
  /\ Receive(s, Head(Head(sending[s]).messages))
  /\ sending' = [sending EXCEPT ![s] = StillSending(s)]
  /\ session' = [session EXCEPT ![s].phase =
                   IF @ = "authorizing" /\ sending'[s] = <<>> THEN "on" ELSE @]
  /\ UNCHANGED <<clock, tip, fetching, latest, contents, jobs, counter, seen, credits,
                 retargets>>

Disconnect(s) ==
  /\ session[s].phase # "gone"
  /\ session' = [session EXCEPT ![s] = Connection("gone")]
  /\ sending' = [sending EXCEPT ![s] = <<>>]
  /\ miner' = [miner EXCEPT ![s] = [now |-> NoWork, before |-> NoWork]]
  /\ UNCHANGED <<clock, tip, fetching, latest, contents, jobs, counter, seen, credits,
                 retargets>>

-----------------------------------------------------------------------------
(* The handler: submit *)

\* _classify_submit_job_id: what is cached is "current" or "previous", unless the
\* latest template builds on another tip.
Known(j) == j \in jobs
Stale(j) == latest # Synthetic /\ j.template.tip # latest.tip

\* _assess_target_context: a template's job carries the target it was issued with; a
\* synthetic job has none.
HasTarget(job) == job.template # Synthetic

\* Whether the hash can be calculated: not without its library.
HashOutcomes == IF PowMayFail THEN BOOLEAN ELSE {TRUE}

\* The hash misses the target of the job's own difficulty.
LowDifficulty(work) == HasTarget(work.job) /\ work.level < work.job.level

\* _is_duplicate_submit
Duplicate(fingerprint) == \E i \in DOMAIN seen : seen[i].of = fingerprint

\* _remember_submit_fingerprint: the oldest are dropped from a full cache.
Remember(fingerprint) ==
  LET grown == Append(seen, [of |-> fingerprint, at |-> clock]) IN
  seen' = IF Len(grown) > DupCacheSize THEN Tail(grown) ELSE grown

\* _assess_submit of a submit for work, its hash calculated or not.
Accepted(work, fingerprint, hashed) ==
  /\ Known(work.job) /\ ~Stale(work.job)
  /\ ~(hashed /\ LowDifficulty(work))
  /\ ~Duplicate(fingerprint)

\* A share that counts, or is only too easy, is a sample for vardiff.
Sample(work, accepted, hashed) ==
  accepted \/ (Known(work.job) /\ ~Stale(work.job) /\ hashed /\ LowDifficulty(work))

\* Changed for the mutants: the job is issued at the difficulty before the change.
RetargetLate(s, level) ==
  /\ Issue(s, session[s].level, [session[s] EXCEPT !.level = level])
  /\ Send(s, "handler",
          <<Reply, SetDifficulty(level), Notify(NewJob(s, session[s].level))>>)

\* The new difficulty and a job at it follow the reply.
Retarget(s, level) ==
  /\ Issue(s, level, session[s])
  /\ Send(s, "handler", <<Reply, SetDifficulty(level), Notify(NewJob(s, level))>>)

\* _maybe_update_vardiff doubles or halves, within its limits; whether it is time
\* to is left open.
Submit(s, work, nonce, form) ==
  LET fingerprint == Fingerprint(work.job, nonce, form) IN
  /\ HandlerIdle(s) /\ work.job # NoJob
  /\ \E hashed \in HashOutcomes :
     LET accepted == Accepted(work, fingerprint, hashed) IN
       /\ IF accepted
          THEN /\ fingerprint \in Credited \/ Cardinality(Credited) < MaxCredited
               /\ Remember(fingerprint)
               /\ credits' = [credits EXCEPT ![fingerprint] = @ + 1]
          ELSE UNCHANGED <<seen, credits>>
       /\ \/ /\ Send(s, "handler", <<Reply>>)
             /\ UNCHANGED <<jobs, counter, session, retargets>>
          \/ /\ Sample(work, accepted, hashed) /\ ~session[s].fixed
             /\ retargets < MaxRetargets /\ retargets' = retargets + 1
             /\ \E level \in Level :
                  /\ level = session[s].level + 1 \/ session[s].level = level + 1
                  /\ Retarget(s, level)
  /\ UNCHANGED <<clock, tip, fetching, latest, contents, miner>>

Next ==
  \/ Tick \/ NewTip \/ Fetch \/ Fetched \/ FetchFails
  \/ \E s \in Session :
       \/ Authorize(s, Initial, FALSE)
       \/ \E level \in Password : Authorize(s, level, TRUE)
       \/ WakeUp(s) \/ Timeout(s) \/ Deliver(s) \/ Disconnect(s)
       \/ \E work \in {miner[s].now, miner[s].before}, nonce \in Nonce, form \in Form :
            Submit(s, work, nonce, form)

Spec == Init /\ [][Next]_vars

\* A miner reads what it is sent, and a notify loop runs when its event is set or
\* its interval has passed.
Fairness ==
  \A s \in Session : WF_vars(Deliver(s)) /\ WF_vars(WakeUp(s)) /\ WF_vars(Timeout(s))

FairSpec == Spec /\ Fairness

-----------------------------------------------------------------------------
(* Properties *)

\* Caches within their sizes, jobs and sessions as they should be.
TypeOK ==
  /\ clock \in 0 .. MaxTime /\ tip \in 1 .. MaxTips
  /\ {fetching, latest} \subseteq Template /\ contents \in 0 .. MaxTemplates
  /\ jobs \subseteq Job /\ Cardinality(jobs) <= JobCacheSize /\ counter \in 0 .. MaxJobs
  /\ session \in [Session -> [phase : {"new", "authorizing", "on", "gone"},
                              level : Level \cup Password, fixed : BOOLEAN,
                              current : 0 .. MaxJobs, anchor : Template, wake : BOOLEAN]]
  /\ \A s \in Session : Len(sending[s]) <= 2
  /\ \A s \in Session : {miner[s].now, miner[s].before} \subseteq Work
  /\ Len(seen) <= DupCacheSize
  /\ credits \in [Submission -> Nat] /\ retargets \in 0 .. MaxRetargets

\* No submit is credited twice as it was written: a fingerprint outlives every job it
\* can be sent for.  What is written in another form has another fingerprint.
CreditedOnce == \A f \in Submission : credits[f] <= 1

\* A proof of work is credited once, however it is written and for whichever job of
\* its template.  That is more than _submit_fingerprint can tell.
WorkCreditedOnce ==
  \A j, k \in jobs, n \in Nonce, f, g \in Form :
    /\ j.of = k.of /\ j.template = k.template
    /\ Duplicate(Fingerprint(j, n, f)) /\ Duplicate(Fingerprint(k, n, g))
    => j = k /\ f = g

Quiet(s) == session[s].phase = "on" /\ ~session[s].wake /\ sending[s] = <<>>

\* However the handler's and the notify loop's messages interleave, a miner that
\* has read them all mines at the difficulty its shares are compared with.
MinerInStep ==
  \A s \in Session : session[s].phase = "on" /\ sending[s] = <<>> =>
                       miner[s].now.level = miner[s].now.job.level

\* What a quiet miner finds next is credited.
MinerServed ==
  \A s \in Session : Quiet(s) /\ session[s].anchor # Synthetic =>
    Known(miner[s].now.job) /\ ~Stale(miner[s].now.job)

\* Every session eventually has a job on the latest tip.
EventuallyOnTip ==
  \A s \in Session, t \in 1 .. MaxTips :
    (session[s].phase = "on" /\ latest.tip = t)
      ~> (session[s].anchor.tip >= t \/ session[s].phase = "gone")
=============================================================================
