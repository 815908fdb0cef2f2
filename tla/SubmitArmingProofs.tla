------------------------- MODULE SubmitArmingProofs -------------------------
(***************************************************************************)
(* That one shell, whatever its subcommands do and however the process     *)
(* dies, lets the daemon answer no more blocks than it has armed and the   *)
(* process has died.                                                       *)
(*                                                                         *)
(* The argument is a budget (BudgetInv): an arming pays for the restart    *)
(* that follows it, and a death for the restart by systemd.  A restart     *)
(* that renews the budget of an enabled process needs an armed launch.env, *)
(* and the only restart of a tool at such a time is the one that its own   *)
(* arming has paid for (EnvInv): before every other one the tool has       *)
(* written that the process is to be disabled.                             *)
(***************************************************************************)
EXTENDS SubmitArming, SequenceTheorems, TLAPS

Places == {"idle", "ended", "dead", "arm", "arming", "armed", "watch", "disarm", "disarming",
           "report", "cleanup", "cleaning", "summary", "load", "write", "restarting",
           "start", "stop"}
Endings == {"none", "success", "timeout", "interrupted", "failed"}
Process == [up : BOOLEAN, owner : {"systemd", "shell"}, enabled : BOOLEAN, sent : 0 .. 1]
Tools == [kind : Kinds \cup {"none"}, at : Places, from : Nat, armed : BOOLEAN,
          ending : Endings, exit : 0 .. 2]

\* Where a tool can be says which subcommand it is.
Fits(r) ==
  /\ r.at \in {"write", "restarting"} => r.kind = "systemd-restart"
  /\ r.at = "start" => r.kind = "start"
  /\ r.at = "load" => r.kind \in {"systemd-restart", "start", "stop"}
  /\ r.at \in {"arm", "arming"} => r.kind \in Wrapper \cup {"arm"}

ToolInv ==
  /\ tool \in [Tool -> Tools]
  /\ \A t \in Tool : tool[t].from <= Len(events) /\ Fits(tool[t])

StateInv ==
  /\ env \in BOOLEAN /\ stratum \in Process
  /\ snapshot \in [enabled : BOOLEAN, left : 0 .. 1, ok : BOOLEAN]
  /\ events \in Seq(Event) /\ sends \in Nat /\ armings \in Nat
  /\ deaths \in Nat /\ kills \in Nat
  /\ ToolInv

\* No kind of subcommand leaves the pool armed, or none restarts it as it is.
Settled == "arm" \notin Kinds \/ Kinds \cap {"systemd-restart", "start"} = {}

\* While launch.env is armed, the tool is on its way to disarming it; a restart other
\* than that of the arming finds it disarmed.
EnvInv ==
  \A t \in Tool :
    /\ tool[t].at # "dead"
    /\ tool[t].at \in {"disarming", "cleaning"} => ~env
    /\ tool[t].at \in {"write", "restarting", "start"} => ~env /\ ~tool[t].armed
    /\ "arm" \notin Kinds /\ env =>
         tool[t].at \in {"arming", "armed", "watch", "disarm", "cleanup"}

\* A restart that an arming has paid for and that is still to come.
Due == IF \E t \in Tool : tool[t].at = "arming" THEN 1 ELSE 0

\* A block that the process may still send, or the next process when this one is gone.
Open ==
  IF \/ ~stratum.up \/ stratum.owner = "shell"
     \/ stratum.enabled /\ stratum.sent = 0
  THEN 1 ELSE 0

BudgetInv ==
  /\ stratum.owner = "shell" => ~stratum.enabled
  /\ sends + Due + Open <= armings + deaths

ShellInv == kills = 0 => EnvInv /\ BudgetInv

-----------------------------------------------------------------------------
(* Types *)

LEMMA StateIsTyped ==
  ASSUME StateInv
  PROVE  TypeOK
BY LenProperties DEF StateInv, ToolInv, Tools, Process, TypeOK

\* Where a tool goes after it has written launch.env, and after systemctl.
LEMMA AfterWrite ==
  ASSUME ArmingAssumption, StateInv, NEW t \in Tool, WriteEnv(t)
  PROVE  \E place \in {"arming", "disarming", "cleaning", "restarting"} :
           /\ tool' = [tool EXCEPT ![t].at = place]
           /\ place = "arming" <=> tool[t].at = "arm"
           /\ place = "restarting" <=> tool[t].at = "write"
           /\ place = "disarming" <=> tool[t].at = "disarm"
<1>1. tool[t].at \in {"arm", "disarm", "cleanup", "write"}
  BY DEF WriteEnv
<1>2. CASE tool[t].at = "arm"
  <2>1. tool' = [tool EXCEPT ![t].at = "arming"]
    BY <1>2 DEF WriteEnv, Goes
  <2> QED BY <1>2, <2>1
<1>3. CASE tool[t].at = "disarm"
  <2>1. tool' = [tool EXCEPT ![t].at = "disarming"]
    BY <1>3 DEF WriteEnv, Goes
  <2> QED BY <1>3, <2>1
<1>4. CASE tool[t].at = "cleanup"
  <2>1. tool' = [tool EXCEPT ![t].at = "cleaning"]
    BY <1>4 DEF WriteEnv, Goes
  <2> QED BY <1>4, <2>1
<1>5. CASE tool[t].at = "write"
  <2>1. tool' = [tool EXCEPT ![t].at = "restarting"]
    BY <1>5 DEF WriteEnv, Goes
  <2> QED BY <1>5, <2>1
<1> QED
  BY <1>1, <1>2, <1>3, <1>4, <1>5

LEMMA AfterSystemctl ==
  ASSUME ArmingAssumption, StateInv, NEW t \in Tool, Systemctl(t)
  PROVE  \E place \in {"ended", "armed", "cleanup", "summary", "report"} :
           /\ tool' = [tool EXCEPT ![t].at = place]
           /\ tool[t].at = "arming" => /\ place \in {"ended", "armed", "cleanup"}
                                       /\ place = "ended" <=> tool[t].kind = "arm"
           /\ tool[t].at # "arming" => place \notin {"armed", "cleanup"}
<1>1. tool[t].at \in {"arming", "disarming", "cleaning", "restarting"}
  BY DEF Systemctl
<1>2. PICK done \in BOOLEAN : tool' = [tool EXCEPT ![t].at = AfterRestart(t, done)]
  BY DEF Systemctl, Goes
<1>3. CASE tool[t].at = "arming"
  <2>1. AfterRestart(t, done) = AfterArm(t, done)
    BY <1>3 DEF AfterRestart
  <2> QED BY <1>2, <1>3, <2>1 DEF AfterArm
<1>4. CASE tool[t].at = "disarming"
  <2>1. AfterRestart(t, done) = AfterDisarm(t)
    BY <1>4 DEF AfterRestart
  <2>2. AfterDisarm(t) \in {"ended", "report"}
    <3>1. CASE tool[t].kind = "disarm"
      BY <1>4, <3>1 DEF AfterDisarm
    <3>2. CASE tool[t].kind # "disarm"
      BY <1>4, <3>2 DEF AfterDisarm
    <3> QED BY <3>1, <3>2
  <2> QED BY <1>2, <1>4, <2>1, <2>2
<1>5. CASE tool[t].at = "cleaning"
  <2>1. AfterRestart(t, done) = "summary"
    BY <1>5 DEF AfterRestart, AfterDisarm
  <2> QED BY <1>2, <1>5, <2>1
<1>6. CASE tool[t].at = "restarting"
  <2>1. AfterRestart(t, done) = "ended"
    BY <1>6 DEF AfterRestart
  <2> QED BY <1>2, <1>6, <2>1
<1> QED
  BY <1>1, <1>3, <1>4, <1>5, <1>6

LEMMA FirstSteps ==
  ASSUME ArmingAssumption, NEW kind \in Kinds
  PROVE  /\ FirstStep(kind) \in {"arm", "watch", "disarm", "load"}
         /\ FirstStep(kind) = "arm" => kind \in Wrapper \cup {"arm"}
         /\ FirstStep(kind) = "load" => kind \in {"systemd-restart", "start", "stop"}
<1>1. CASE kind \in Wrapper \cup {"arm"}
  BY <1>1 DEF FirstStep, Wrapper
<1>2. CASE kind = "watch"
  BY <1>2 DEF FirstStep, Wrapper
<1>3. CASE kind = "disarm"
  BY <1>3 DEF FirstStep, Wrapper
<1>4. CASE kind \in {"systemd-restart", "start", "stop"}
  BY <1>4 DEF FirstStep, Wrapper
<1> QED
  BY <1>1, <1>2, <1>3, <1>4 DEF ArmingAssumption

\* A tool takes a step and the log stays.
LEMMA ToolMoves ==
  ASSUME StateInv, NEW t \in Tool, NEW r \in Tools, r.from <= Len(events), Fits(r),
         tool' = [tool EXCEPT ![t] = r], events' = events
  PROVE  ToolInv'
<1>1. tool \in [Tool -> Tools] /\ \A u \in Tool : tool[u].from <= Len(events) /\ Fits(tool[u])
  BY DEF StateInv, ToolInv
<1>2. tool' \in [Tool -> Tools]
  BY <1>1
<1>3. \A u \in Tool : tool'[u].from <= Len(events) /\ Fits(tool'[u])
  BY <1>1
<1> QED
  BY <1>2, <1>3 DEF ToolInv, Fits

\* Where it is, and perhaps its ending or its code, is all that changes.
LEMMA ToolGoes ==
  ASSUME StateInv, NEW t \in Tool, NEW r \in Tools, r.kind = tool[t].kind,
         r.from \in {0, tool[t].from, Len(events)},
         \/ r.at \in Places \ {"arm", "arming", "write", "restarting", "start", "load"}
         \/ tool[t].at = "arm" /\ r.at = "arming"
         \/ tool[t].at = "write" /\ r.at = "restarting"
         \/ /\ tool[t].at = "load"
            /\ r.at = IF tool[t].kind = "systemd-restart" THEN "write" ELSE tool[t].kind,
         tool' = [tool EXCEPT ![t] = r], events' = events
  PROVE  ToolInv'
<1>1. Fits(tool[t]) /\ tool[t].from <= Len(events) /\ Len(events) \in Nat
  BY LenProperties DEF StateInv, ToolInv
<1>2. r.from <= Len(events)
  BY <1>1
<1>3. Fits(r)
  BY <1>1 DEF Fits
<1> QED
  BY <1>2, <1>3, ToolMoves

LEMMA StepTool ==
  ASSUME ArmingAssumption, StateInv, NEW t \in Tool, Step(t) \/ Interrupt(t) \/ Kill(t)
  PROVE  ToolInv' /\ events' = events
<1>0. tool[t] \in Tools /\ tool \in [Tool -> Tools] /\ Len(events) \in Nat
      /\ tool[t].from <= Len(events) /\ Fits(tool[t])
  BY LenProperties DEF StateInv, ToolInv
<1>e. events' = events
  BY DEF Step, Load, WriteEnv, Systemctl, Start, Stop, BeginWatch, WatchEnds, Report, Summary,
         Interrupt, Kill, daemon
<1> SUFFICES ToolInv'
  BY <1>e
<1>1. CASE Load(t)
  <2> DEFINE r == [tool[t] EXCEPT !.armed = env,
                     !.at = IF tool[t].kind = "systemd-restart" THEN "write" ELSE tool[t].kind]
  <2>1. tool' = [tool EXCEPT ![t] = r] /\ tool[t].at = "load"
    BY <1>1 DEF Load
  <2>2. r \in Tools /\ r.kind = tool[t].kind /\ r.from = tool[t].from
        /\ r.at = IF tool[t].kind = "systemd-restart" THEN "write" ELSE tool[t].kind
    BY <1>0, <2>1 DEF Tools, Places, Fits, StateInv
  <2> HIDE DEF r
  <2> QED BY <1>e, <2>1, <2>2, ToolGoes
<1>2. CASE WriteEnv(t)
  <2>1. PICK place \in {"arming", "disarming", "cleaning", "restarting"} :
           /\ tool' = [tool EXCEPT ![t].at = place]
           /\ place = "arming" <=> tool[t].at = "arm"
           /\ place = "restarting" <=> tool[t].at = "write"
    BY <1>2, AfterWrite
  <2> DEFINE r == [tool[t] EXCEPT !.at = place]
  <2>2. /\ r \in Tools /\ r.kind = tool[t].kind /\ r.from = tool[t].from /\ r.at = place
        /\ tool' = [tool EXCEPT ![t] = r]
    BY <1>0, <2>1 DEF Tools, Places
  <2> HIDE DEF r
  <2> QED BY <1>e, <2>1, <2>2, ToolGoes DEF Places
<1>3. CASE Systemctl(t)
  <2>1. PICK place \in {"ended", "armed", "cleanup", "summary", "report"} :
           tool' = [tool EXCEPT ![t].at = place]
    BY <1>3, AfterSystemctl
  <2> DEFINE r == [tool[t] EXCEPT !.at = place]
  <2>2. /\ r \in Tools /\ r.kind = tool[t].kind /\ r.from = tool[t].from /\ r.at = place
        /\ tool' = [tool EXCEPT ![t] = r]
    BY <1>0, <2>1 DEF Tools, Places
  <2> HIDE DEF r
  <2> QED BY <1>e, <2>1, <2>2, ToolGoes DEF Places
<1>4. ASSUME NEW code \in 0 .. 2, Ends(t, code)
      PROVE  ToolInv'
  <2> DEFINE r == [tool[t] EXCEPT !.at = "ended", !.exit = code, !.from = 0, !.armed = FALSE]
  <2>1. /\ r \in Tools /\ r.kind = tool[t].kind /\ r.from = 0 /\ r.at = "ended"
        /\ tool' = [tool EXCEPT ![t] = r]
    BY <1>0, <1>4 DEF Ends, Tools, Places
  <2> HIDE DEF r
  <2> QED BY <1>e, <2>1, ToolGoes DEF Places
<1>5. CASE Start(t) \/ Stop(t)
  BY <1>4, <1>5 DEF Start, Stop
<1>6. CASE BeginWatch(t)
  <2> DEFINE r == [tool[t] EXCEPT !.at = "watch",
                     !.from = IF tool[t].kind = "drill" THEN @ ELSE Len(events)]
  <2>1. /\ r \in Tools /\ r.kind = tool[t].kind /\ r.from \in {tool[t].from, Len(events)}
        /\ r.at = "watch" /\ tool' = [tool EXCEPT ![t] = r]
    BY <1>0, <1>6 DEF BeginWatch, Tools, Places
  <2> HIDE DEF r
  <2> QED BY <1>e, <2>1, ToolGoes DEF Places
<1>7. ASSUME NEW ending \in Endings, NEW place \in {"disarm", "cleanup"},
             tool' = [tool EXCEPT ![t].at = place, ![t].ending = ending]
      PROVE  ToolInv'
  <2> DEFINE r == [tool[t] EXCEPT !.at = place, !.ending = ending]
  <2>1. /\ r \in Tools /\ r.kind = tool[t].kind /\ r.from = tool[t].from /\ r.at = place
        /\ tool' = [tool EXCEPT ![t] = r]
    BY <1>0, <1>7 DEF Tools, Places
  <2> HIDE DEF r
  <2> QED BY <1>e, <2>1, ToolGoes DEF Places
<1>8. CASE WatchEnds(t)
  <2>1. PICK ending \in {"success", "timeout"}, place \in {"disarm", "cleanup"} :
          tool' = [tool EXCEPT ![t].ending = ending, ![t].at = place]
    BY <1>8 DEF WatchEnds
  <2>2. tool' = [tool EXCEPT ![t].at = place, ![t].ending = ending]
    BY <1>0, <2>1 DEF Tools
  <2> QED BY <1>7, <2>2 DEF Endings
<1>9. CASE Report(t)
  <2>1. CASE tool[t].kind = "watch"
    BY <1>4, <1>9, <2>1 DEF Report, WatchCode
  <2>2. CASE tool[t].kind # "watch"
    <3>1. PICK ending \in {"failed", tool[t].ending} :
            tool' = [tool EXCEPT ![t].at = "cleanup", ![t].ending = ending]
      BY <1>0, <1>9, <2>2 DEF Report
    <3>2. ending \in Endings
      BY <1>0, <3>1 DEF Tools, Endings
    <3> QED BY <1>7, <3>1, <3>2
  <2> QED BY <2>1, <2>2
<1>10. CASE Summary(t)
  BY <1>4, <1>10 DEF Summary, DrillCode, WrapperCode
<1>11. CASE Interrupt(t)
  BY <1>7, <1>11 DEF Interrupt, Endings
<1>12. CASE Kill(t)
  <2> DEFINE r == [tool[t] EXCEPT !.at = "dead"]
  <2>1. /\ r \in Tools /\ r.kind = tool[t].kind /\ r.from = tool[t].from /\ r.at = "dead"
        /\ tool' = [tool EXCEPT ![t] = r]
    BY <1>0, <1>12 DEF Kill, Goes, Tools, Places
  <2> HIDE DEF r
  <2> QED BY <1>e, <2>1, ToolGoes DEF Places
<1> QED
  BY <1>e, <1>1, <1>2, <1>3, <1>5, <1>6, <1>8, <1>9, <1>10, <1>11, <1>12 DEF Step

LEMMA BeginTool ==
  ASSUME ArmingAssumption, StateInv, NEW t \in Tool, NEW kind \in Kinds, Begin(t, kind)
  PROVE  \E r \in Tools : /\ tool' = [tool EXCEPT ![t] = r]
                          /\ r.from <= Len(events) /\ Fits(r)
                          /\ r.at \in {"arm", "watch", "disarm", "load", "ended"}
<1>0. Len(events) \in Nat
  BY LenProperties DEF StateInv
<1>1. PICK go \in Admits(kind) :
        tool' = [tool EXCEPT ![t] =
                   [Idle EXCEPT !.kind = kind, !.from = IF kind = "drill" THEN Len(events) ELSE 0,
                                !.at = IF go THEN FirstStep(kind) ELSE "ended",
                                !.exit = IF go \/ kind = "fresh" THEN 0 ELSE 1]]
  BY DEF Begin
<1>2. /\ FirstStep(kind) \in {"arm", "watch", "disarm", "load"}
      /\ FirstStep(kind) = "arm" => kind \in Wrapper \cup {"arm"}
      /\ FirstStep(kind) = "load" => kind \in {"systemd-restart", "start", "stop"}
  BY FirstSteps
<1>3. PICK place \in {FirstStep(kind), "ended"}, code \in {0, 1}, from \in {0, Len(events)} :
        tool' = [tool EXCEPT ![t] =
                   [Idle EXCEPT !.kind = kind, !.from = from, !.at = place, !.exit = code]]
  BY <1>1
<1> DEFINE r == [Idle EXCEPT !.kind = kind, !.from = from, !.at = place, !.exit = code]
<1>4. Idle \in Tools
  BY DEF Idle, Tools, Places, Endings
<1>5. r \in Tools /\ r.from <= Len(events) /\ r.at = place /\ Fits(r)
  <2>1. place \in Places /\ code \in 0 .. 2 /\ from \in Nat /\ from <= Len(events)
    BY <1>0, <1>2 DEF Places
  <2>2. r \in Tools /\ r.from = from /\ r.at = place /\ r.kind = kind
    BY <1>4, <2>1 DEF Tools
  <2> HIDE DEF r
  <2> QED BY <1>2, <2>1, <2>2 DEF Fits
<1>6. tool' = [tool EXCEPT ![t] = r]
  BY <1>3
<1> HIDE DEF r
<1> QED
  BY <1>2, <1>5, <1>6

LEMMA StateStep ==
  ASSUME ArmingAssumption, StateInv, [Next]_vars
  PROVE  StateInv'
<1>1. ASSUME NEW t \in Tool, Step(t) \/ Interrupt(t) \/ Kill(t)
      PROVE  StateInv'
  <2>1. ToolInv' /\ events' = events
    BY <1>1, StepTool
  <2>2. /\ env' \in BOOLEAN /\ snapshot' = snapshot /\ sends' = sends /\ deaths' = deaths
        /\ armings' \in Nat /\ kills' \in Nat
    <3>1. tool[t] \in Tools
      BY DEF StateInv, ToolInv
    <3>2. env' \in {env, TRUE, FALSE, tool[t].armed}
      BY <1>1 DEF Step, Load, WriteEnv, Systemctl, Start, Stop, BeginWatch, WatchEnds, Report,
                  Summary, Interrupt, Kill
    <3>3. snapshot' = snapshot /\ sends' = sends /\ deaths' = deaths
      BY <1>1 DEF Step, Load, WriteEnv, Systemctl, Start, Stop, BeginWatch, WatchEnds, Report,
                  Summary, Interrupt, Kill, daemon, faults
    <3>4. armings' \in {armings, armings + 0, armings + 1} /\ kills' \in {kills, kills + 1}
      BY <1>1 DEF Step, Load, WriteEnv, Systemctl, Start, Stop, BeginWatch, WatchEnds, Report,
                  Summary, Interrupt, Kill, faults
    <3>5. env' \in BOOLEAN
      BY <3>1, <3>2 DEF StateInv, Tools
    <3>6. armings' \in Nat /\ kills' \in Nat
      BY <3>4 DEF StateInv
    <3> QED BY <3>3, <3>5, <3>6
  <2>3. stratum' \in Process
    <3>1. \A enabled \in BOOLEAN, owner \in {"systemd", "shell"} :
            Started(owner, enabled) \in Process
      BY DEF Started, Process
    <3>2. stratum \in Process /\ env \in BOOLEAN /\ tool[t].armed \in BOOLEAN
      BY DEF StateInv, ToolInv, Tools
    <3>3. CASE Systemctl(t)
      BY <3>1, <3>2, <3>3 DEF Systemctl, Restarted
    <3>4. CASE Start(t)
      BY <3>1, <3>2, <3>4 DEF Start
    <3>5. CASE Stop(t)
      BY <3>2, <3>5 DEF Stop, Process
    <3>6. CASE ~(Systemctl(t) \/ Start(t) \/ Stop(t))
      BY <1>1, <3>2, <3>6 DEF Step, Load, WriteEnv, BeginWatch, WatchEnds, Report, Summary,
                              Interrupt, Kill
    <3> QED BY <3>3, <3>4, <3>5, <3>6
  <2> QED BY <2>1, <2>2, <2>3 DEF StateInv
<1>2. ASSUME NEW t \in Tool, NEW kind \in Kinds, Begin(t, kind)
      PROVE  StateInv'
  <2>1. UNCHANGED <<env, stratum, snapshot, events, sends, armings, deaths, kills>>
    BY <1>2 DEF Begin, daemon, faults
  <2>2. PICK r \in Tools : /\ tool' = [tool EXCEPT ![t] = r]
                           /\ r.from <= Len(events) /\ Fits(r)
    BY <1>2, BeginTool
  <2>3. ToolInv'
    BY <2>1, <2>2, ToolMoves
  <2> QED BY <2>1, <2>3 DEF StateInv
<1>3. CASE Candidate
  <2>1. PICK o \in Outcomes(stratum), one \in {0, 1} :
          /\ events' = Append(events, o) /\ sends' = sends + one
          /\ stratum' = [stratum EXCEPT !.sent = @ + one]
          /\ one = 1 => o = "sent"
    BY <1>3 DEF Candidate
  <2>2. o \in Event /\ (o = "sent" => stratum.sent < 1)
    BY <2>1 DEF Outcomes, Event, Terminal, BudgetLeft
  <2>3. /\ events' \in Seq(Event) /\ Len(events') = Len(events) + 1 /\ Len(events) \in Nat
    BY <2>1, <2>2, AppendProperties, LenProperties DEF StateInv
  <2>4. UNCHANGED <<env, snapshot, tool, armings, deaths, kills>>
    BY <1>3 DEF Candidate, faults
  <2>5. ToolInv'
    BY <2>3, <2>4 DEF StateInv, ToolInv, Fits, Tools
  <2>6. stratum' \in Process /\ sends' \in Nat
    BY <2>1, <2>2 DEF StateInv, Process
  <2> QED BY <2>3, <2>4, <2>5, <2>6 DEF StateInv
<1>4. CASE WriteSnapshot \/ Die \/ Revive \/ UNCHANGED vars
  <2>1. UNCHANGED <<env, tool, events, sends, armings, kills>>
    BY <1>4 DEF WriteSnapshot, Die, Revive, vars, daemon, faults
  <2>2. /\ stratum' \in Process /\ deaths' \in Nat
        /\ snapshot' \in [enabled : BOOLEAN, left : 0 .. 1, ok : BOOLEAN]
    <3>1. CASE WriteSnapshot
      BY <3>1 DEF WriteSnapshot, faults, StateInv, Process
    <3>2. CASE Die
      <4>1. stratum' = [stratum EXCEPT !.up = FALSE] /\ deaths' = deaths + 1
        BY <3>2 DEF Die
      <4>2. stratum' \in Process
        BY <4>1 DEF StateInv, Process
      <4>3. snapshot' = snapshot
        BY <3>2 DEF Die
      <4> QED BY <4>1, <4>2, <4>3 DEF StateInv
    <3>3. CASE Revive
      BY <3>3 DEF Revive, faults, StateInv, Process, Started
    <3>4. CASE UNCHANGED vars
      BY <3>4 DEF vars, StateInv
    <3> QED BY <1>4, <3>1, <3>2, <3>3, <3>4
  <2>3. ToolInv'
    BY <2>1 DEF StateInv, ToolInv, Fits
  <2> QED BY <2>1, <2>2, <2>3 DEF StateInv
<1> QED
  BY <1>1, <1>2, <1>3, <1>4 DEF Next

LEMMA StateInit ==
  ASSUME ArmingAssumption, Init
  PROVE  StateInv
<1>1. <<>> \in Seq(Event) /\ Len(<<>>) = 0
  BY EmptySeq
<1>2. Idle \in Tools /\ Fits(Idle) /\ Idle.from = 0
  BY DEF Idle, Tools, Places, Endings, Fits
<1>3. ToolInv
  BY <1>1, <1>2 DEF Init, ToolInv
<1>4. stratum \in Process /\ snapshot \in [enabled : BOOLEAN, left : 0 .. 1, ok : BOOLEAN]
  BY DEF Init, Started, Process
<1> QED
  BY <1>1, <1>3, <1>4 DEF Init, StateInv

\* The flags, the process and the tools are what they can be, and no process sends more
\* than its budget (PEPEPOW_REAL_SUBMITBLOCK_MAX_SENDS), with any tools and faults.
THEOREM TypeCorrect == Spec => []TypeOK
<1>1. Init => StateInv
  BY ArmingAssumption, StateInit
<1>2. StateInv /\ [Next]_vars => StateInv'
  BY ArmingAssumption, StateStep
<1>3. StateInv => TypeOK
  BY StateIsTyped
<1> QED
  BY <1>1, <1>2, <1>3, PTL DEF Spec

-----------------------------------------------------------------------------
(* One shell *)

LEMMA ShellIsBounded ==
  ASSUME StateInv, ShellInv
  PROVE  SendsBounded
BY DEF StateInv, ShellInv, BudgetInv, SendsBounded, Due, Open

LEMMA ShellInit ==
  ASSUME Init
  PROVE  ShellInv
BY DEF Init, ShellInv, EnvInv, BudgetInv, Due, Open, Idle, Started

\* What EnvInv says of the one shell, and what is due.
LEMMA OneShell ==
  ASSUME NEW sh, Tool = {sh}
  PROVE  /\ EnvInv <=>
              /\ tool[sh].at # "dead"
              /\ tool[sh].at \in {"disarming", "cleaning"} => ~env
              /\ tool[sh].at \in {"write", "restarting", "start"} => ~env /\ ~tool[sh].armed
              /\ "arm" \notin Kinds /\ env =>
                   tool[sh].at \in {"arming", "armed", "watch", "disarm", "cleanup"}
         /\ Due = IF tool[sh].at = "arming" THEN 1 ELSE 0
         /\ Due' = IF tool'[sh].at = "arming" THEN 1 ELSE 0
BY DEF EnvInv, Due

\* The process, and systemd.
LEMMA ProcessStep ==
  ASSUME ArmingAssumption, StateInv, ShellInv, kills = 0,
         Candidate \/ WriteSnapshot \/ Die \/ Revive \/ UNCHANGED vars
  PROVE  EnvInv' /\ BudgetInv'
<1>1. EnvInv /\ BudgetInv
  BY DEF ShellInv
<1>2. UNCHANGED <<env, tool, armings>>
  BY DEF Candidate, WriteSnapshot, Die, Revive, vars
<1>3. EnvInv' /\ Due' = Due /\ Due \in {0, 1}
  BY <1>1, <1>2 DEF EnvInv, Due
<1>4. /\ stratum.up \in BOOLEAN /\ stratum.enabled \in BOOLEAN /\ stratum.sent \in {0, 1}
      /\ stratum.owner \in {"systemd", "shell"} /\ DOMAIN stratum = {"up", "owner", "enabled", "sent"}
      /\ sends \in Nat /\ armings \in Nat /\ deaths \in Nat
  BY DEF StateInv, Process
<1>5. CASE WriteSnapshot \/ UNCHANGED vars
  BY <1>1, <1>2, <1>3, <1>5 DEF WriteSnapshot, vars, daemon, faults, BudgetInv, Open
<1>6. CASE Die
  <2>1. /\ stratum' = [stratum EXCEPT !.up = FALSE] /\ stratum.up /\ deaths' = deaths + 1
        /\ sends' = sends
    BY <1>6 DEF Die, daemon
  <2>2. /\ stratum'.owner = stratum.owner /\ stratum'.enabled = stratum.enabled
        /\ ~stratum'.up
    BY <2>1 DEF StateInv, Process
  <2>3. Open' = 1 /\ Open \in {0, 1}
    BY <2>2 DEF Open
  <2> QED BY <1>1, <1>2, <1>3, <1>4, <2>1, <2>2, <2>3 DEF BudgetInv
<1>7. CASE Revive
  <2>1. ~stratum.up /\ stratum' = Started("systemd", env) /\ sends' = sends /\ deaths' = deaths
    BY <1>7 DEF Revive, daemon, faults
  <2>2. Open = 1 /\ Open' \in {0, 1} /\ stratum'.owner = "systemd"
    BY <2>1 DEF Open, Started
  <2>3. sends + Due + Open <= armings + deaths
    BY <1>1 DEF BudgetInv
  <2>4. /\ sends' = sends /\ deaths' = deaths /\ armings' = armings /\ Due' = Due
        /\ sends \in Nat /\ armings \in Nat /\ deaths \in Nat /\ Due \in {0, 1}
    BY <1>2, <1>3, <1>4, <2>1
  <2>5. sends' + Due' + Open' <= armings' + deaths'
    <3>1. CASE Open' = 0
      BY ONLY <2>2, <2>3, <2>4, <3>1
    <3>2. CASE Open' = 1
      BY ONLY <2>2, <2>3, <2>4, <3>2
    <3> QED BY <2>2, <3>1, <3>2
  <2> QED BY <1>3, <2>2, <2>5 DEF BudgetInv
<1>8. CASE Candidate
  <2>1. PICK o \in Outcomes(stratum), one \in {0, 1} :
          /\ stratum' = [stratum EXCEPT !.sent = @ + one] /\ sends' = sends + one
          /\ one = 1 => o = "sent"
    BY <1>8 DEF Candidate
  <2>2. deaths' = deaths /\ stratum.up
    BY <1>8 DEF Candidate, faults
  <2>3. /\ stratum'.owner = stratum.owner /\ stratum'.enabled = stratum.enabled
        /\ stratum'.up = stratum.up /\ stratum'.sent = stratum.sent + one
    BY <2>1 DEF StateInv, Process
  <2>4. CASE one = 0
    BY <1>1, <1>2, <1>3, <1>4, <2>1, <2>2, <2>3, <2>4 DEF BudgetInv, Open
  <2>5. CASE one = 1
    <3>1. stratum.enabled /\ stratum.sent = 0
      BY <1>4, <2>1, <2>5 DEF Outcomes, BudgetLeft
    <3>2. stratum.owner = "systemd"
      BY <1>1, <1>4, <3>1 DEF BudgetInv
    <3>3. Open = 1 /\ Open' = 0
      BY <2>2, <2>3, <2>5, <3>1, <3>2 DEF Open
    <3>4. sends' + Due' + Open' <= armings' + deaths'
      <4>1. sends + Due + Open <= armings + deaths
        BY <1>1 DEF BudgetInv
      <4>2. sends' = sends + 1 /\ Due' = Due /\ armings' = armings /\ deaths' = deaths
        BY <1>2, <1>3, <2>1, <2>2, <2>5
      <4>3. sends \in Nat /\ armings \in Nat /\ deaths \in Nat /\ Due \in {0, 1}
        BY <1>3, <1>4
      <4> QED BY ONLY <3>3, <4>1, <4>2, <4>3
    <3> QED BY <1>3, <2>3, <3>2, <3>4 DEF BudgetInv
  <2> QED BY <2>4, <2>5
<1> QED
  BY <1>3, <1>5, <1>6, <1>7, <1>8

\* Steps of the shell that leave launch.env and the process alone.
LEMMA QuietStep ==
  ASSUME ArmingAssumption, StateInv, ShellInv, kills = 0, Settled, NEW sh, Tool = {sh},
         \/ Load(sh) \/ BeginWatch(sh) \/ WatchEnds(sh) \/ Report(sh) \/ Summary(sh)
         \/ Interrupt(sh) \/ \E kind \in Kinds : Begin(sh, kind)
  PROVE  EnvInv' /\ BudgetInv'
<1>1. EnvInv /\ BudgetInv
  BY DEF ShellInv
<1>2. UNCHANGED <<env, stratum, sends, armings, deaths>>
  BY DEF Load, BeginWatch, WatchEnds, Report, Summary, Interrupt, Begin, daemon, faults
<1>3. /\ tool \in [Tool -> Tools] /\ tool[sh] \in Tools /\ Fits(tool[sh]) /\ sh \in Tool
      /\ env \in BOOLEAN
  BY DEF StateInv, ToolInv
<1>4. /\ tool[sh].at # "dead"
      /\ tool[sh].at \in {"disarming", "cleaning"} => ~env
      /\ tool[sh].at \in {"write", "restarting", "start"} => ~env /\ ~tool[sh].armed
      /\ "arm" \notin Kinds /\ env =>
           tool[sh].at \in {"arming", "armed", "watch", "disarm", "cleanup"}
  BY <1>1, OneShell
\* It is enough to know where the tool goes.
<1>5. ASSUME tool'[sh].at \notin {"dead", "arming", "disarming", "cleaning"},
             tool'[sh].at \in {"write", "restarting", "start"} => ~env /\ ~tool'[sh].armed,
             "arm" \notin Kinds /\ env => tool'[sh].at \in {"armed", "watch", "disarm", "cleanup"}
      PROVE  EnvInv' /\ BudgetInv'
  <2>1. EnvInv'
    BY <1>2, <1>5 DEF EnvInv
  <2>2. Due \in {0, 1} /\ Due' = 0 /\ Open' = Open /\ Open \in {0, 1}
    BY <1>2, <1>5 DEF Due, Open
  <2> QED
    BY <1>1, <1>2, <2>1, <2>2 DEF BudgetInv, StateInv
<1>6. CASE Load(sh)
  <2>1. /\ tool[sh].at = "load" /\ tool'[sh].armed = env
        /\ tool'[sh].at = IF tool[sh].kind = "systemd-restart" THEN "write" ELSE tool[sh].kind
    BY <1>3, <1>6 DEF Load, Tools
  <2>2. tool[sh].kind \in {"systemd-restart", "start", "stop"} /\ tool[sh].kind \in Kinds \cup {"none"}
    BY <1>3, <2>1 DEF Fits, Tools
  <2>3. tool[sh].kind # "stop" => ~env
    BY <1>4, <2>1, <2>2 DEF Settled
  <2>4. "arm" \notin Kinds => ~env
    BY <1>4, <2>1
  <2>5. tool'[sh].at \in {"write", "start", "stop"} /\ (tool'[sh].at # "stop" => tool[sh].kind # "stop")
    BY <2>1, <2>2
  <2> QED
    BY <1>5, <2>1, <2>3, <2>4, <2>5
<1>7. CASE BeginWatch(sh)
  <2>1. tool[sh].at = "armed" /\ tool'[sh].at = "watch"
    BY <1>3, <1>7 DEF BeginWatch, Tools
  <2> QED BY <1>5, <2>1
<1>8. CASE WatchEnds(sh)
  <2>1. tool'[sh].at \in {"cleanup", "disarm"}
    BY <1>3, <1>8 DEF WatchEnds, Tools
  <2> QED BY <1>5, <2>1
<1>9. CASE Report(sh) \/ Summary(sh)
  <2>1. tool[sh].at \in {"report", "summary"} /\ tool'[sh].at \in {"cleanup", "ended"}
    BY <1>3, <1>9 DEF Report, Summary, Ends, Tools
  <2> QED BY <1>4, <1>5, <2>1
<1>10. CASE Interrupt(sh)
  <2>1. tool'[sh].at \in {"cleanup", "disarm"}
    BY <1>3, <1>10 DEF Interrupt, Tools
  <2> QED BY <1>5, <2>1
<1>11. ASSUME NEW kind \in Kinds, Begin(sh, kind)
       PROVE  EnvInv' /\ BudgetInv'
  <2>1. tool[sh].at \in {"idle", "ended", "dead"}
    BY <1>11 DEF Begin
  <2>2. tool'[sh].at \in {"arm", "watch", "disarm", "load", "ended"}
    BY <1>3, <1>11, BeginTool
  <2> QED BY <1>4, <1>5, <2>1, <2>2
<1> QED
  BY <1>6, <1>7, <1>8, <1>9, <1>10, <1>11

\* Steps of the shell that write launch.env, restart, start or stop the process.
LEMMA BusyStep ==
  ASSUME ArmingAssumption, StateInv, ShellInv, kills = 0, Settled, NEW sh, Tool = {sh},
         WriteEnv(sh) \/ Systemctl(sh) \/ Start(sh) \/ Stop(sh)
  PROVE  EnvInv' /\ BudgetInv'
<1>1. EnvInv /\ BudgetInv
  BY DEF ShellInv
<1>2. sends' = sends /\ deaths' = deaths
  BY DEF WriteEnv, Systemctl, Start, Stop, daemon, faults
<1>3. /\ tool \in [Tool -> Tools] /\ tool[sh] \in Tools /\ Fits(tool[sh]) /\ sh \in Tool
      /\ env \in BOOLEAN /\ stratum \in Process
      /\ sends \in Nat /\ armings \in Nat /\ deaths \in Nat
  BY DEF StateInv, ToolInv
<1>4. /\ tool[sh].at # "dead"
      /\ tool[sh].at \in {"disarming", "cleaning"} => ~env
      /\ tool[sh].at \in {"write", "restarting", "start"} => ~env /\ ~tool[sh].armed
      /\ "arm" \notin Kinds /\ env =>
           tool[sh].at \in {"arming", "armed", "watch", "disarm", "cleanup"}
      /\ Due = IF tool[sh].at = "arming" THEN 1 ELSE 0
      /\ Due' = IF tool'[sh].at = "arming" THEN 1 ELSE 0
  BY <1>1, OneShell
<1>5. Open \in {0, 1} /\ Open' \in {0, 1} /\ Due \in {0, 1} /\ Due' \in {0, 1}
  BY DEF Open, Due
\* The budget in plain numbers.
<1>b. /\ sends + Due + Open <= armings + deaths /\ sends' = sends /\ deaths' = deaths
      /\ sends \in Nat /\ armings \in Nat /\ deaths \in Nat
  BY <1>1, <1>2, <1>3 DEF BudgetInv
<1>6. CASE WriteEnv(sh)
  <2>1. PICK place \in {"arming", "disarming", "cleaning", "restarting"} :
           /\ tool' = [tool EXCEPT ![sh].at = place]
           /\ place = "arming" <=> tool[sh].at = "arm"
           /\ place = "restarting" <=> tool[sh].at = "write"
           /\ place = "disarming" <=> tool[sh].at = "disarm"
    BY <1>3, <1>6, AfterWrite
  <2>2. tool'[sh].at = place /\ tool'[sh].armed = tool[sh].armed
    BY <1>3, <2>1 DEF Tools
  <2>3. /\ env' = (tool[sh].at = "arm" \/ (tool[sh].at = "write" /\ tool[sh].armed))
        /\ armings' = armings + IF tool[sh].at = "arm" THEN 1 ELSE 0
        /\ stratum' = stratum
    BY <1>6 DEF WriteEnv
  <2>4. env' => place = "arming"
    BY <1>4, <2>1, <2>3
  <2>5. EnvInv'
    <3>1. place = "restarting" => ~tool[sh].armed
      BY <1>4, <2>1
    <3> QED BY <2>2, <2>4, <3>1 DEF EnvInv
  <2>6. Open' = Open
    BY <2>3 DEF Open
  <2>7. Due = 0 /\ armings' = armings + Due'
    BY <1>4, <1>6, <2>1, <2>2, <2>3 DEF WriteEnv
  <2>8. BudgetInv'
    <3>1. stratum'.owner = "shell" => ~stratum'.enabled
      BY <1>1, <2>3 DEF BudgetInv
    <3>2. sends' + Due' + Open' <= armings' + deaths'
      <4>1. CASE Due' = 0
        BY ONLY <1>5, <1>b, <2>6, <2>7, <4>1
      <4>2. CASE Due' = 1
        BY ONLY <1>5, <1>b, <2>6, <2>7, <4>2
      <4> QED BY <1>5, <4>1, <4>2
    <3> QED BY <3>1, <3>2 DEF BudgetInv
  <2> QED BY <2>5, <2>8
<1>7. CASE Systemctl(sh)
  <2>1. PICK place \in {"ended", "armed", "cleanup", "summary", "report"} :
           /\ tool' = [tool EXCEPT ![sh].at = place]
           /\ tool[sh].at = "arming" => /\ place \in {"ended", "armed", "cleanup"}
                                        /\ place = "ended" <=> tool[sh].kind = "arm"
           /\ tool[sh].at # "arming" => place \notin {"armed", "cleanup"}
    BY <1>3, <1>7, AfterSystemctl
  <2>2. tool'[sh].at = place
    BY <1>3, <2>1 DEF Tools
  <2>3. /\ tool[sh].at \in {"arming", "disarming", "cleaning", "restarting"}
        /\ stratum' \in {stratum, Restarted} /\ env' = env /\ armings' = armings
    BY <1>7 DEF Systemctl
  <2>4. tool[sh].at # "arming" => ~env
    BY <1>4, <2>3
  <2>5. tool[sh].at = "arming" /\ "arm" \notin Kinds => place \in {"armed", "cleanup"}
    <3>1. tool[sh].at = "arming" => tool[sh].kind \in Wrapper \cup {"arm"} /\ tool[sh].kind \in Kinds \cup {"none"}
      BY <1>3 DEF Fits, Tools
    <3>2. "arm" \notin Kinds => "arm" \notin Kinds \cup {"none"}
      OBVIOUS
    <3>3. tool[sh].at = "arming" /\ "arm" \notin Kinds => tool[sh].kind # "arm"
      BY <3>1, <3>2
    <3>4. /\ tool[sh].at = "arming" => place \in {"ended", "armed", "cleanup"}
          /\ tool[sh].at = "arming" => (place = "ended" <=> tool[sh].kind = "arm")
      BY <2>1
    <3> QED BY ONLY <3>3, <3>4
  <2>6. EnvInv'
    BY <2>2, <2>3, <2>4, <2>5 DEF EnvInv
  <2>7. stratum'.owner = "shell" => stratum' = stratum
    BY <2>3 DEF Restarted, Started
  <2>8. Due' = 0 /\ (Due = 0 => Open' <= Open)
    <3>1. Due' = 0
      BY <1>4, <2>2
    <3>2. ASSUME Due = 0 PROVE Open' <= Open
      <4>1. ~env
        BY <1>4, <2>4, <3>2
      <4>2. CASE stratum' = stratum
        BY <1>5, <4>2 DEF Open
      <4>3. CASE stratum' = Started("systemd", env)
        BY <1>5, <4>1, <4>3 DEF Open, Started
      <4> QED BY <2>3, <4>2, <4>3 DEF Restarted
    <3> QED BY <3>1, <3>2
  <2>9. sends' + Due' + Open' <= armings' + deaths'
    <3>1. armings' = armings
      BY <2>3
    <3>2. CASE Open' = 0
      BY ONLY <1>5, <1>b, <2>8, <3>1, <3>2
    <3>3. CASE Open' = 1 /\ Due = 0
      <4>1. Open = 1
        BY <1>5, <2>8, <3>3
      <4> QED BY ONLY <1>b, <2>8, <3>1, <3>3, <4>1
    <3>4. CASE Open' = 1 /\ Due = 1
      BY ONLY <1>5, <1>b, <2>8, <3>1, <3>4
    <3> QED BY <1>5, <3>2, <3>3, <3>4
  <2> QED BY <1>1, <2>6, <2>7, <2>9 DEF BudgetInv
<1>8. CASE Start(sh) \/ Stop(sh)
  <2>1. /\ tool[sh].at \in {"start", "stop"} /\ tool'[sh].at = "ended" /\ armings' = armings
    BY <1>3, <1>8 DEF Start, Stop, Ends, Tools
  <2>2. /\ env' => env
        /\ \/ stratum' = stratum
           \/ ~stratum.up /\ stratum' = Started("shell", FALSE)
           \/ /\ stratum.owner = "shell" \/ ~stratum.up
              /\ stratum'.owner = stratum.owner /\ stratum'.enabled = stratum.enabled
           \/ /\ stratum'.owner = stratum.owner /\ stratum'.enabled = stratum.enabled
              /\ stratum'.up = stratum.up /\ stratum'.sent = stratum.sent
    <3>1. CASE Start(sh)
      <4>1. tool[sh].armed = FALSE /\ tool[sh].at = "start"
        BY <1>3, <1>4, <3>1 DEF Start, Tools
      <4> QED BY <3>1, <4>1 DEF Start
    <3>2. CASE Stop(sh)
      <4>1. /\ stratum'.owner = stratum.owner /\ stratum'.enabled = stratum.enabled
            /\ stratum'.sent = stratum.sent /\ env' = env
            /\ stratum'.up = (stratum.up /\ stratum.owner = "systemd")
        BY <1>3, <3>2 DEF Stop, Process
      <4> QED BY <1>3, <4>1 DEF Process
    <3> QED BY <1>8, <3>1, <3>2
  <2>3. EnvInv'
    BY <1>4, <2>1, <2>2 DEF EnvInv
  <2>4. stratum'.owner = "shell" => ~stratum'.enabled
    BY <1>1, <2>2 DEF BudgetInv, Started
  <2>5. Open' <= Open
    BY <1>5, <2>2 DEF Open, Started
  <2>6. sends' + Due' + Open' <= armings' + deaths'
    <3>1. Due = 0 /\ Due' = 0
      BY <1>4, <2>1
    <3>2. armings' = armings
      BY <2>1
    <3>3. CASE Open' = 0
      BY ONLY <1>5, <1>b, <3>1, <3>2, <3>3
    <3>4. CASE Open' = 1
      <4>1. Open = 1
        BY <1>5, <2>5, <3>4
      <4> QED BY ONLY <1>b, <3>1, <3>2, <3>4, <4>1
    <3> QED BY <1>5, <3>3, <3>4
  <2> QED BY <2>3, <2>4, <2>6 DEF BudgetInv
<1> QED
  BY <1>6, <1>7, <1>8

LEMMA ShellStep ==
  ASSUME ArmingAssumption, StateInv, ShellInv, Settled, NEW sh, Tool = {sh}, [Next]_vars
  PROVE  ShellInv'
<1> SUFFICES ASSUME kills' = 0 PROVE EnvInv' /\ BudgetInv'
  BY DEF ShellInv
<1>1. kills = 0 /\ ~Kill(sh)
  <2>1. kills \in Nat
    BY DEF StateInv
  <2>2. kills' = kills \/ kills' = kills + 1
    BY DEF Next, Candidate, WriteSnapshot, Die, Revive, Step, Load, WriteEnv, Systemctl, Start, Stop,
           BeginWatch, WatchEnds, Report, Summary, Interrupt, Kill, Begin, vars, faults
  <2> QED BY <2>1, <2>2 DEF Kill
<1>2. CASE Candidate \/ WriteSnapshot \/ Die \/ Revive \/ UNCHANGED vars
  BY <1>1, <1>2, ProcessStep
<1>3. CASE Step(sh) \/ Interrupt(sh) \/ \E kind \in Kinds : Begin(sh, kind)
  BY <1>1, <1>3, QuietStep, BusyStep DEF Step
<1> QED
  BY <1>1, <1>2, <1>3 DEF Next

\* One block per arming (PEPEPOW_REAL_SUBMITBLOCK_MAX_SENDS is 1 in the drills): where one
\* operator runs the tools and none is killed, the daemon answers no more blocks than tools
\* have armed and the process has died.
THEOREM OneBlockPerArming ==
  ASSUME Settled, NEW sh, Tool = {sh}
  PROVE  Spec => []SendsBounded
<1>1. Init => StateInv /\ ShellInv
  BY ArmingAssumption, StateInit, ShellInit
<1>2. StateInv /\ ShellInv /\ [Next]_vars => StateInv' /\ ShellInv'
  BY ArmingAssumption, StateStep, ShellStep
<1>3. StateInv /\ ShellInv => SendsBounded
  BY ShellIsBounded
<1> QED
  BY <1>1, <1>2, <1>3, PTL DEF Spec
=============================================================================
