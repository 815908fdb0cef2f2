---------------------------- MODULE SubmitArming ----------------------------
(***************************************************************************)
(* The controlled submission of one block: the tools of                    *)
(* ops/scripts/live-stratum.sh that arm the Stratum process through        *)
(* launch.env, watch it and disarm it again, beside the process itself     *)
(* (apps/pool-core/stratum_ingress.py) and systemd, which restarts it.     *)
(*                                                                         *)
(* The process reads launch.env when it starts and submits blocks as long  *)
(* as it is enabled and has budget left; a tool changes it by writing the  *)
(* file and restarting the unit.  Every tool leaves the send budget at 1.  *)
(* A watch may time out at any moment, which is what bounds it.            *)
(***************************************************************************)
EXTENDS Naturals, Sequences, FiniteSets

CONSTANTS
  Tool,          \* shells that run live-stratum.sh, one subcommand after another
  Kinds,         \* the subcommands they run
  MaxRuns,       \* bound: subcommands run
  MaxCandidates, \* bound: blocks found
  MaxDeaths,     \* bound: deaths of the process
  MaxFailures,   \* bound: systemctl calls that fail
  MaxKills       \* bound: tools that are killed

\* The subcommands that arm, watch and disarm.
Wrapper == {"arm-watch", "fresh", "drill"}

ASSUME ArmingAssumption ==
  /\ Kinds \subseteq Wrapper \cup {"arm", "watch", "disarm", "systemd-restart", "start", "stop"}
  /\ {MaxRuns, MaxCandidates, MaxDeaths, MaxFailures, MaxKills} \subseteq Nat

\* What a watch waits for, among the outcomes a candidate's event can have.
Terminal == {"sent", "error", "stale", "exhausted"}
Event == Terminal \cup {"disabled", "skipped"}

VARIABLES
  env,       \* PEPEPOW_ENABLE_REAL_SUBMITBLOCK in launch.env
  stratum,   \* the process: who started it, whether it is enabled, what it has sent
  snapshot,  \* the meta part of activity-snapshot.json
  events,    \* outcomes in submit-evidence.jsonl and candidate-events.jsonl
  tool,      \* every tool: its kind, where it is, what it knows
  sends,     \* history: blocks the daemon answered
  armings,   \* history: tools that armed
  excused,   \* history: the only disarm of a tool has failed
  runs, deaths, failures, kills

vars == <<env, stratum, snapshot, events, tool, sends, armings,
          excused, runs, deaths, failures, kills>>
faults == <<excused, deaths, failures, kills>>
daemon == <<events, sends>>

Started(owner, enabled) == [up |-> TRUE, owner |-> owner, enabled |-> enabled, sent |-> 0]
Idle == [kind |-> "none", at |-> "idle", from |-> 0, armed |-> FALSE, ending |-> "none",
         exit |-> 0]

Init ==
  /\ env = FALSE /\ stratum = Started("systemd", FALSE)
  /\ snapshot = [enabled |-> FALSE, left |-> 1, ok |-> TRUE]
  /\ events = <<>> /\ tool = [t \in Tool |-> Idle]
  /\ sends = 0 /\ armings = 0 /\ excused = FALSE /\ runs = 0
  /\ deaths = 0 /\ failures = 0 /\ kills = 0

-----------------------------------------------------------------------------
(* The Stratum process *)

\* Changed for the mutants: the budget is not looked at.
BudgetIgnored(p) == p.up

BudgetLeft(p) == p.sent < 1

\* A block is found.  The stale check comes first; an attempt the daemon does not
\* answer is an error and leaves the budget as it is.
Outcomes(p) ==
  {"stale"} \cup IF ~p.enabled THEN {"disabled"}
                 ELSE IF BudgetLeft(p) THEN {"sent", "error", "skipped"} ELSE {"exhausted"}

Candidate ==
  /\ stratum.up /\ Len(events) < MaxCandidates
  /\ \E o \in Outcomes(stratum) :
       LET sent == IF o = "sent" THEN 1 ELSE 0 IN
       /\ events' = Append(events, o)
       /\ stratum' = [stratum EXCEPT !.sent = @ + sent] /\ sends' = sends + sent
  /\ UNCHANGED <<env, snapshot, tool, armings, runs, faults>>

\* The snapshot of the process, with what its last template fetch gave.
WriteSnapshot ==
  /\ stratum.up
  /\ \E ok \in BOOLEAN :
       snapshot' = [enabled |-> stratum.enabled, ok |-> ok,
                    left |-> IF stratum.sent < 1 THEN 1 - stratum.sent ELSE 0]
  /\ UNCHANGED <<env, stratum, daemon, tool, armings, runs, faults>>

Die ==
  /\ stratum.up /\ deaths < MaxDeaths /\ deaths' = deaths + 1
  /\ stratum' = [stratum EXCEPT !.up = FALSE]
  /\ UNCHANGED <<env, snapshot, daemon, tool, armings, runs, excused, failures, kills>>

\* Restart=always: it comes back with launch.env as it is now, and a new budget.
Revive ==
  /\ ~stratum.up /\ stratum' = Started("systemd", env)
  /\ UNCHANGED <<env, snapshot, daemon, tool, armings, runs, faults>>

-----------------------------------------------------------------------------
(* The tools *)

Goes(t, place) == tool' = [tool EXCEPT ![t].at = place]
Ends(t, code) ==
  tool' = [tool EXCEPT ![t].at = "ended", ![t].exit = code, ![t].from = 0, ![t].armed = FALSE]

\* The preflight of the drill reads the snapshot.
DrillAdmits == {~snapshot.enabled /\ snapshot.ok}

\* The freshness audit may find the latest candidate stale whatever it was when it
\* was found.
FreshAdmits == {FALSE, events # <<>> /\ snapshot.ok}

Admits(kind) ==
  CASE kind = "drill" -> DrillAdmits
    [] kind = "fresh" -> FreshAdmits
    [] kind \notin {"drill", "fresh"} -> {TRUE}

\* The case of the script.
FirstStep(kind) ==
  CASE kind \in Wrapper \cup {"arm"} -> "arm"
    [] kind \in {"watch", "disarm"} -> kind
    [] kind \in {"systemd-restart", "start", "stop"} -> "load"

\* A subcommand starts; only the drill takes the beginning of its watch now.
Begin(t, kind) ==
  /\ tool[t].at \in {"idle", "ended", "dead"}
  /\ runs < MaxRuns /\ runs' = runs + 1
  /\ \E go \in Admits(kind) :
       tool' = [tool EXCEPT ![t] =
                  [Idle EXCEPT !.kind = kind, !.from = IF kind = "drill" THEN Len(events) ELSE 0,
                               !.at = IF go THEN FirstStep(kind) ELSE "ended",
                               !.exit = IF go \/ kind = "fresh" THEN 0 ELSE 1]]
  /\ UNCHANGED <<env, stratum, snapshot, daemon, armings, faults>>

\* load_launch_env_if_present, for the tools that keep the flag as it is.
Load(t) ==
  /\ tool[t].at = "load"
  /\ tool' = [tool EXCEPT ![t].armed = env,
                          ![t].at = IF tool[t].kind = "systemd-restart" THEN "write"
                                    ELSE tool[t].kind]
  /\ UNCHANGED <<env, stratum, snapshot, daemon, armings, runs, faults>>

\* write_launch_env, with the flag the tool wants.
WriteEnv(t) ==
  /\ tool[t].at \in {"arm", "disarm", "cleanup", "write"}
  /\ env' = (tool[t].at = "arm" \/ (tool[t].at = "write" /\ tool[t].armed))
  /\ armings' = armings + IF tool[t].at = "arm" THEN 1 ELSE 0
  /\ Goes(t, CASE tool[t].at = "arm" -> "arming" [] tool[t].at = "disarm" -> "disarming"
               [] tool[t].at = "cleanup" -> "cleaning" [] tool[t].at = "write" -> "restarting")
  /\ UNCHANGED <<stratum, snapshot, daemon, runs, faults>>

\* submit_arm_once: its failure sends a wrapper to the cleanup.
AfterArm(t, done) ==
  IF tool[t].kind = "arm" THEN "ended" ELSE IF done THEN "armed" ELSE "cleanup"

\* submit_disarm: a failed one shows in the snapshot only.
AfterDisarm(t) ==
  CASE tool[t].at = "cleaning" -> "summary"
    [] tool[t].at = "disarming" /\ tool[t].kind = "disarm" -> "ended"
    [] tool[t].at = "disarming" /\ tool[t].kind # "disarm" -> "report"

AfterRestart(t, done) ==
  CASE tool[t].at = "arming" -> AfterArm(t, done)
    [] tool[t].at \in {"disarming", "cleaning"} -> AfterDisarm(t)
    [] tool[t].at = "restarting" -> "ended"

\* A tool that disarms once: the drill, and a wrapper that is interrupted.
DisarmsOnce(t) == tool[t].kind = "drill" \/ tool[t].ending = "interrupted"

\* The new process finds the port taken by one that was started by hand.
Restarted == IF stratum.up /\ stratum.owner = "shell" THEN stratum ELSE Started("systemd", env)

\* run_systemctl_noninteractive restart; one that fails may still have restarted.
Systemctl(t) ==
  /\ tool[t].at \in {"arming", "disarming", "cleaning", "restarting"}
  /\ \/ /\ stratum' = Restarted /\ UNCHANGED <<failures, excused>>
        /\ Goes(t, AfterRestart(t, TRUE))
     \/ /\ failures < MaxFailures /\ failures' = failures + 1
        /\ excused' = (excused \/ (DisarmsOnce(t) /\ tool[t].at \in {"disarming", "cleaning"}))
        /\ stratum' \in {stratum, Restarted}
        /\ Goes(t, AfterRestart(t, FALSE))
  /\ UNCHANGED <<env, snapshot, daemon, armings, runs, deaths, kills>>

\* start: not beside a process that listens.
Start(t) ==
  /\ tool[t].at = "start"
  /\ IF stratum.up THEN UNCHANGED <<env, stratum>>
     ELSE env' = tool[t].armed /\ stratum' = Started("shell", tool[t].armed)
  /\ Ends(t, IF stratum.up /\ stratum.owner = "systemd" THEN 1 ELSE 0)
  /\ UNCHANGED <<snapshot, daemon, armings, runs, faults>>

\* stop: not the process of the unit.
Stop(t) ==
  /\ tool[t].at = "stop"
  /\ stratum' = [stratum EXCEPT !.up = @ /\ stratum.owner = "systemd"]
  /\ Ends(t, IF stratum.up /\ stratum.owner = "systemd" THEN 1 ELSE 0)
  /\ UNCHANGED <<env, snapshot, daemon, armings, runs, faults>>

\* The watch starts at the end of the log as it is after the restart; the drill
\* looks at everything since its own start.
BeginWatch(t) ==
  /\ tool[t].at = "armed"
  /\ tool' = [tool EXCEPT ![t].at = "watch",
                          ![t].from = IF tool[t].kind = "drill" THEN @ ELSE Len(events)]
  /\ UNCHANGED <<env, stratum, snapshot, daemon, armings, runs, faults>>

Seen(t) == \E i \in DOMAIN events : i > tool[t].from /\ events[i] \in Terminal
DrillStops == ~stratum.up \/ ~snapshot.ok \/ snapshot.left = 0

\* Changed for the mutants: only an event ends the watch.
WatchEndsSeen(t) ==
  /\ tool[t].at = "watch" /\ Seen(t)
  /\ tool' = [tool EXCEPT ![t].ending = "success",
                          ![t].at = IF tool[t].kind = "drill" THEN "cleanup" ELSE "disarm"]
  /\ UNCHANGED <<env, stratum, snapshot, daemon, armings, runs, faults>>

\* An event, a state of the process or its snapshot that stops the drill, or the
\* timeout.
WatchEnds(t) ==
  /\ tool[t].at = "watch"
  /\ tool' = [tool EXCEPT ![t].ending = IF Seen(t) \/ (tool[t].kind = "drill" /\ DrillStops)
                                        THEN "success" ELSE "timeout",
                          ![t].at = IF tool[t].kind = "drill" THEN "cleanup" ELSE "disarm"]
  /\ UNCHANGED <<env, stratum, snapshot, daemon, armings, runs, faults>>

\* The exit code of submit-watch-once.
WatchCode(t) == IF snapshot.enabled THEN 1 ELSE IF tool[t].ending = "timeout" THEN 2 ELSE 0

\* A wrapper runs it in a subshell and takes its code for the ending.
Report(t) ==
  /\ tool[t].at = "report"
  /\ IF tool[t].kind = "watch" THEN Ends(t, WatchCode(t))
     ELSE tool' = [tool EXCEPT ![t].at = "cleanup",
                               ![t].ending = IF WatchCode(t) = 1 THEN "failed" ELSE @]
  /\ UNCHANGED <<env, stratum, snapshot, daemon, armings, runs, faults>>

\* The drill's exit code is the snapshot's flag alone.
DrillCode == IF snapshot.enabled THEN 1 ELSE 0

WrapperCode(t) ==
  IF ~snapshot.enabled /\ tool[t].ending \in {"success", "timeout"} THEN 0 ELSE 1

Summary(t) ==
  /\ tool[t].at = "summary"
  /\ Ends(t, IF tool[t].kind = "drill" THEN DrillCode ELSE WrapperCode(t))
  /\ UNCHANGED <<env, stratum, snapshot, daemon, armings, runs, faults>>

Step(t) ==
  \/ Load(t) \/ WriteEnv(t) \/ Systemctl(t) \/ Start(t) \/ Stop(t)
  \/ BeginWatch(t) \/ WatchEnds(t) \/ Report(t) \/ Summary(t)

\* INT or TERM while the traps are set: the watch goes on to its own disarm, all
\* else to the cleanup.
Interrupt(t) ==
  /\ tool[t].kind \in Wrapper \cup {"watch"} /\ tool[t].ending # "interrupted"
  /\ \/ /\ tool[t].at = "watch" /\ tool[t].kind # "drill"
        /\ tool' = [tool EXCEPT ![t].at = "disarm", ![t].ending = "interrupted"]
     \/ /\ tool[t].kind \in Wrapper
        /\ tool[t].at \in {"arm", "arming", "armed", "disarm", "disarming", "report"}
             \/ (tool[t].kind = "drill" /\ tool[t].at = "watch")
        /\ tool' = [tool EXCEPT ![t].at = "cleanup", ![t].ending = "interrupted"]
  /\ UNCHANGED <<env, stratum, snapshot, daemon, armings, runs, faults>>

\* SIGKILL, or a signal where no trap is set, as in the cleanup.
Kill(t) ==
  /\ tool[t].at \notin {"idle", "ended", "dead"} /\ kills < MaxKills /\ kills' = kills + 1
  /\ Goes(t, "dead")
  /\ UNCHANGED <<env, stratum, snapshot, daemon, armings, runs, excused, deaths, failures>>

Next ==
  \/ Candidate \/ WriteSnapshot \/ Die \/ Revive
  \/ \E t \in Tool : Step(t) \/ Interrupt(t) \/ Kill(t) \/ \E k \in Kinds : Begin(t, k)

Spec == Init /\ [][Next]_vars

\* A tool runs on, its watch at most until its timeout; systemd restarts the process.
FairSpec == Spec /\ (\A t \in Tool : WF_vars(Step(t))) /\ WF_vars(Revive)

-----------------------------------------------------------------------------
(* Properties *)

\* Flags, the process and the tools are what they can be; no process sends more than
\* its budget.
TypeOK ==
  /\ env \in BOOLEAN
  /\ stratum \in [up : BOOLEAN, owner : {"systemd", "shell"}, enabled : BOOLEAN, sent : 0 .. 1]
  /\ snapshot \in [enabled : BOOLEAN, left : 0 .. 1, ok : BOOLEAN]
  /\ events \in Seq(Event) /\ sends \in Nat /\ armings \in Nat
  /\ \A t \in Tool : tool[t].kind \in Kinds \cup {"none"} /\ tool[t].from \in 0 .. Len(events)

Disarmed == ~env /\ ~(stratum.up /\ stratum.enabled)
\* One block per arming: as long as no tool is killed, the daemon answers no more
\* blocks than tools have armed, except where a death of the process renews its
\* budget.
SendsBounded == kills = 0 => sends <= armings + deaths

\* However a tool ends, by an event, its timeout, an interrupt or a failure, the pool
\* is disarmed again, unless the tool is killed; where its watch and its cleanup both
\* disarm, one failed systemctl does not keep the pool armed.  A failed systemctl of
\* the arming is no excuse: the cleanup disarms.
EventuallyDisarmed == ~Disarmed ~> (Disarmed \/ kills > 0 \/ failures > 1 \/ excused)

\* One block per arming, as the name of submit-arm-once has it.
OnePerArming == sends <= armings

\* Once every tool has ended by itself the pool is disarmed.
LeftDisarmed == (\A t \in Tool : tool[t].at \in {"idle", "ended"}) => Disarmed

\* A wrapper that ends with 0 leaves the pool disarmed.
ExitTells ==
  [][\A t \in Tool : tool[t].at = "summary" /\ tool'[t].at = "ended" /\ tool'[t].exit = 0
                     => Disarmed]_vars
=============================================================================
