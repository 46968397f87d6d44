----------------------------- MODULE CommandRun -----------------------------
(***************************************************************************)
(* One gate command under the CLI that runs it, and that CLI under the     *)
(* MCP server (or a terminal) that started it.  The gate leads a process   *)
(* group of its own, so signals to the CLI's group do not reach it: only   *)
(* the CLI stops it, by SIGTERM, then SIGKILL, a grace period after each.  *)
(* The server sends the CLI SIGINT and kills it after a longer grace.      *)
(* POSIX; time passes in ticks of one _STOP_GRACE_SECONDS (5 s).           *)
(***************************************************************************)
EXTENDS Naturals, FiniteSets

CONSTANTS
  Member, Leader,   \* the processes the gate may come to consist of
  Traps,            \* the members that ignore SIGTERM
  Foreign,          \* the members this user may not signal (a sudo child)
  MayWedge          \* whether the CLI may stop reacting to anything but SIGKILL

CommandAssumption ==
  /\ Leader \in Member /\ Traps \subseteq Member
  /\ Foreign \subseteq Member \ {Leader} /\ MayWedge \in BOOLEAN

VARIABLES
  alive, born,   \* the members that run, and that ever ran
  signaled,      \* the last signal each member got: "none", "term" or "kill"
  ownExit,       \* history: the leader ended before any signal was sent to it
  cli,           \* where the CLI is
  why,           \* what the current stop is for: "timeout", "cancel", "error"
  running,       \* the leader ran when that stop looked
  timer,         \* what is left of that stop's grace
  verdict,       \* how the command ended for its caller
  lost,          \* history: a pulse raised
  lease,         \* the CLI holds the runner lease
  wedged,
  int,           \* a SIGINT waits to become a KeyboardInterrupt
  interrupted,   \* history: one was sent
  server,        \* "waiting", "stopping", "answered", "exiting" or "gone"
  patience       \* what is left of the server's grace

gate  == <<alive, born, signaled, ownExit>>
run   == <<cli, why, running, timer, verdict, lost, lease>>
outer == <<wedged, int, interrupted, server, patience>>
vars  == <<gate, run, outer>>

Over == cli \in {"exited", "killed"}
Acts == ~Over /\ ~wedged

-----------------------------------------------------------------------------
(* The gate's processes.                                                   *)
Fork(m) ==
  /\ m \notin born /\ \E k \in alive \ Foreign : signaled[k] # "kill"
  /\ alive' = alive \cup {m} /\ born' = born \cup {m}
  /\ UNCHANGED <<signaled, ownExit>> /\ UNCHANGED run /\ UNCHANGED outer

Exit(m) ==
  /\ m \in alive /\ alive' = alive \ {m}
  /\ ownExit' = (ownExit \/ (m = Leader /\ signaled[m] = "none"))
  /\ UNCHANGED <<born, signaled>> /\ UNCHANGED run /\ UNCHANGED outer

(* What a signal leaves no choice about.                                   *)
MustExit(m) == signaled[m] = "kill" \/ (signaled[m] = "term" /\ m \notin Traps)

Signal(sig) ==
  signaled' = [m \in Member |->
                 IF m \in alive \ Foreign /\ signaled[m] # "kill" THEN sig ELSE signaled[m]]

-----------------------------------------------------------------------------
(* _run_managed: the loop polls, and stops the group on a deadline, on a   *)
(* cancellation, or on any exception: an interrupt, or a pulse that finds  *)
(* the lease lost.                                                         *)
LeaderEnded ==
  /\ Acts /\ cli = "poll" /\ ~int /\ Leader \notin alive
  /\ cli' = "done" /\ verdict' = "own"
  /\ UNCHANGED <<why, running, timer, lost, lease>> /\ UNCHANGED gate /\ UNCHANGED outer

Decide(reason) ==
  /\ Acts /\ cli = "poll" /\ ~int /\ Leader \in alive
  /\ cli' = "stop" /\ why' = reason /\ lost' = (reason = "error")
  /\ UNCHANGED <<running, timer, verdict, lease>> /\ UNCHANGED gate /\ UNCHANGED outer

(* Mutant: the loop's poll is taken for the stop's own.                    *)
StillRunningAtPoll == TRUE

StillRunning == Leader \in alive

(* _stop_posix_group: nobody left, or nobody this user may signal; else    *)
(* SIGTERM to the group.                                                   *)
StopBegins ==
  /\ Acts /\ cli = "stop" /\ ~int
  /\ running' = StillRunning
  /\ IF alive \subseteq Foreign
       THEN cli' = "stopped" /\ UNCHANGED <<signaled, timer>>
       ELSE cli' = "term" /\ timer' = 1 /\ Signal("term")
  /\ UNCHANGED <<alive, born, ownExit, why, verdict, lost, lease>> /\ UNCHANGED outer

(* Mutant: the group is gone when its leader is.                           *)
GroupAliveByLeader == Leader \in alive

GroupAlive == alive # {}

(* Mutant: SIGTERM is sent again.                                          *)
EscalationTerm == "term"

Escalation == "kill"

Escalate ==
  /\ Acts /\ cli = "term" /\ ~int /\ GroupAlive /\ timer = 0
  /\ cli' = "kill" /\ timer' = 1 /\ Signal(Escalation)
  /\ UNCHANGED <<alive, born, ownExit, why, running, verdict, lost, lease>> /\ UNCHANGED outer

StopEnds ==
  /\ Acts /\ ~int
  /\ \/ cli \in {"term", "kill"} /\ ~GroupAlive
     \/ cli = "kill" /\ timer = 0
  /\ cli' = "stopped"
  /\ UNCHANGED <<why, running, timer, verdict, lost, lease>> /\ UNCHANGED gate /\ UNCHANGED outer

(* process.wait, then: an exception goes on; a deadline or a cancellation  *)
(* is the verdict if it met a running leader, and else the loop goes on.   *)
StopReturns ==
  /\ Acts /\ cli = "stopped" /\ ~int /\ Leader \notin alive
  /\ IF why # "error" /\ ~running
       THEN cli' = "poll" /\ UNCHANGED verdict
       ELSE cli' = "done" /\ verdict' = why
  /\ UNCHANGED <<why, running, timer, lost, lease>> /\ UNCHANGED gate /\ UNCHANGED outer

(* A KeyboardInterrupt in the loop, or in a stop that the loop began,      *)
(* begins a stop; in the exception's own stop it ends that one.            *)
Interrupt ==
  /\ Acts /\ int /\ int' = FALSE
  /\ CASE cli \in {"stop", "term", "kill", "stopped"} /\ why = "error" ->
            cli' = "done" /\ verdict' = "error" /\ UNCHANGED why
       [] cli = "done" -> UNCHANGED <<cli, verdict, why>>
       [] OTHER -> cli' = "stop" /\ why' = "error" /\ UNCHANGED verdict
  /\ UNCHANGED <<running, timer, lost, lease>> /\ UNCHANGED gate
  /\ UNCHANGED <<wedged, interrupted, server, patience>>

(* The runner unwinds: it records the outcome, releases its lease, exits.  *)
Unwind ==
  /\ Acts /\ cli = "done" /\ ~int
  /\ cli' = "exited" /\ lease' = FALSE
  /\ UNCHANGED <<why, running, timer, verdict, lost>> /\ UNCHANGED gate /\ UNCHANGED outer

Wedge ==
  /\ MayWedge /\ Acts /\ wedged' = TRUE
  /\ UNCHANGED <<int, interrupted, server, patience>>
  /\ UNCHANGED gate /\ UNCHANGED run

-----------------------------------------------------------------------------
(* Mutant: the server is no more patient than one grace of the CLI's.      *)
CliGraceShort == 1

(* _CLI_TERMINATE_GRACE_SECONDS, in ticks.                                 *)
CliGrace == 4

Interrupts ==
  IF Over THEN UNCHANGED <<int, interrupted, patience>>
  ELSE int' = TRUE /\ interrupted' = TRUE /\ patience' = CliGrace

(* The request is cancelled or takes too long: _stop_and_drain begins.     *)
RequestStops ==
  /\ server = "waiting" /\ server' = "stopping" /\ Interrupts
  /\ UNCHANGED wedged /\ UNCHANGED gate /\ UNCHANGED run

(* Ctrl-C in a terminal, where no server is.                               *)
CtrlC ==
  /\ server = "none" /\ ~interrupted /\ ~Over
  /\ int' = TRUE /\ interrupted' = TRUE
  /\ UNCHANGED <<wedged, server, patience>> /\ UNCHANGED gate /\ UNCHANGED run

Answer ==
  /\ server \in {"waiting", "stopping"} /\ Over /\ server' = "answered"
  /\ UNCHANGED <<wedged, int, interrupted, patience>> /\ UNCHANGED gate /\ UNCHANGED run

(* Mutant: a CLI that does not react is waited for.                        *)
MayKillNever == FALSE

MayKill == patience = 0

KillCli ==
  /\ server \in {"stopping", "exiting"} /\ MayKill /\ ~Over
  /\ cli' = "killed"
  /\ UNCHANGED <<why, running, timer, verdict, lost, lease>> /\ UNCHANGED gate /\ UNCHANGED outer

(* SIGTERM, SIGHUP or a closed stdin: _stop_live_children stops what is    *)
(* left.  A request's own cleanup is cancelled with the event loop, and    *)
(* takes its child off the list as it unwinds.                             *)
ServerExits ==
  \/ /\ server = "waiting" /\ server' = "exiting" /\ Interrupts
     /\ UNCHANGED wedged /\ UNCHANGED gate /\ UNCHANGED run
  \/ /\ server \in {"stopping", "answered"} \/ (server = "exiting" /\ Over)
     /\ server' = "gone"
     /\ UNCHANGED <<wedged, int, interrupted, patience>> /\ UNCHANGED gate /\ UNCHANGED run

(* Nothing that takes no time is left to do: the CLI waits for the leader  *)
(* or for a grace to end, and no signal has yet to take its effect.        *)
Quiet ==
  /\ \A m \in alive : ~MustExit(m)
  /\ Over \/ wedged \/ (~int /\ (\/ cli = "poll" /\ Leader \in alive
                                 \/ cli \in {"term", "kill"} /\ GroupAlive /\ timer > 0
                                 \/ cli = "stopped" /\ Leader \in alive))
  /\ ~(server \in {"stopping", "exiting"} /\ (Over \/ MayKill))

Less(n) == IF n = 0 THEN 0 ELSE n - 1

Tick ==
  /\ Quiet /\ timer + patience > 0
  /\ timer' = Less(timer) /\ patience' = Less(patience)
  /\ UNCHANGED <<cli, why, running, verdict, lost, lease, wedged, int, interrupted, server>>
  /\ UNCHANGED gate

Init ==
  /\ alive = {Leader} /\ born = {Leader} /\ signaled = [m \in Member |-> "none"] /\ ownExit = FALSE
  /\ cli = "poll" /\ why = "none" /\ running = FALSE /\ timer = 0 /\ verdict = "none" /\ lease = TRUE
  /\ wedged = FALSE /\ int = FALSE /\ interrupted = FALSE
  /\ server \in {"none", "waiting"} /\ patience = 0 /\ lost = FALSE

Cli == LeaderEnded \/ StopBegins \/ Escalate \/ StopEnds \/ StopReturns \/ Interrupt \/ Unwind

Next ==
  \/ \E m \in Member : Fork(m) \/ Exit(m)
  \/ \E reason \in {"timeout", "cancel", "error"} : Decide(reason)
  \/ Cli \/ Wedge \/ RequestStops \/ CtrlC \/ Answer \/ KillCli \/ ServerExits \/ Tick

(* Signals take effect, time passes, and both programs run on.             *)
Fairness ==
  /\ \A m \in Member : WF_vars(MustExit(m) /\ Exit(m))
  /\ WF_vars(Tick) /\ WF_vars(Cli) /\ WF_vars(Answer) /\ WF_vars(KillCli)

Spec == Init /\ [][Next]_vars /\ Fairness

-----------------------------------------------------------------------------
(* Types; nobody whom this user may signal outruns the SIGKILL.            *)
TypeOK ==
  /\ alive \subseteq born /\ born \subseteq Member
  /\ signaled \in [Member -> {"none", "term", "kill"}]
  /\ \A m \in Foreign : signaled[m] = "none"
  /\ cli \in {"poll", "stop", "term", "kill", "stopped", "done", "exited", "killed"}
  /\ cli = "kill" => \A m \in alive \ Foreign : signaled[m] = "kill"

(* A command that ended by itself keeps its own status, and one that was   *)
(* stopped never passes for one that ended: a deadline or a cancellation   *)
(* that met it at its very end included.                                   *)
VerdictIsOwn ==
  /\ verdict = "own" => ownExit
  /\ verdict \in {"timeout", "cancel"} => ~ownExit

(* After an interrupt, a deadline, a cancellation or a lost lease the      *)
(* runner is gone only when no process of the gate is left that it could   *)
(* stop: also one that ignores SIGTERM, was forked meanwhile or outlived   *)
(* the leader, unless the interrupt and the lost lease came together.      *)
NoInvisibleGate ==
  (Over /\ ~wedged /\ verdict # "own" /\ ~(interrupted /\ lost)) => alive \subseteq Foreign

(* The server never kills a CLI that reacts: it has time to stop its gate  *)
(* and release its lease first.                                            *)
LeaseReleased == (Over /\ ~wedged) => ~lease

(* A stop that a request began ends, with the CLI gone, also when the CLI  *)
(* does not react, unless the server goes.                                 *)
StopCompletes == server = "stopping" ~> (server = "gone" \/ Over)

(* docs/mcp.md: MCP cancellation, server shutdown and a timeout let        *)
(* mergetrain release its lease; "the gate process is not left running     *)
(* invisibly".                                                             *)
GateStopped == (server = "answered" /\ ~wedged /\ verdict # "own") => alive \subseteq Foreign

(* docs/mcp.md: stopping the server "stops any CLI still running first".   *)
ServerLeavesNone == server = "gone" => Over
=============================================================================
