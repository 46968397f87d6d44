-------------------------------- MODULE MCEnds --------------------------------
(***************************************************************************)
(* The parts of mergetrain that must come to an end by themselves, checked *)
(* by one run: `part` names the one that a behaviour is about, and the     *)
(* variables of the others rest.  Each part keeps its own fairness.        *)
(***************************************************************************)
EXTENDS Naturals, FiniteSets, TLC

CONSTANTS
  Job,   \* a train that fails
  (* A gate, under the CLI that runs it. *)
  Member, Leader, Traps, Foreign, MayWedge,
  (* Notifications, one webhook of which answers if tried again and again. *)
  Repo, Answering, Outcome, KeptLimit, MaxReports, MaxCrashes, Faults,
  (* events --follow: several jobs of one claim; a job that is claimed again. *)
  ClaimJob, ClaimScope, ClaimLimit, ClaimRetention,
  AgainJob, AgainScope, AgainLimit, AgainRetention, AgainClaims, Prompt, MaxGates,
  (* The hub. *)
  Path, Dirs, Roots, Dbs, HubCommand, Concurrency, Breakable, MaxRoster, MaxBreaks, MaxSweeps

VARIABLES
  part,
  steady, broken, deploy, train, calls, cache, singles, groups, outcome,
  alive, born, signaled, ownExit, cli, why, running, timer, verdict, lost, wedged, int,
  interrupted, server, patience,
  state, saved, todo, failed, next, spell, reports, sent, unsaved, lapsed, crashes,
  row, dead, claims, runner, gates, orphaned, seen, tokens, batch, terminalSeen, cursor,
  printed, asleep, ended,
  roster, flock, cmd, readable, loop, sweep, stop, wish, turns, sweeps, lastSweep, breaks,
  commands,
  pc, events, lease   \* of whichever part has such a variable

bisectVars  == <<steady, broken, deploy, train, calls, cache, singles, groups, outcome>>
commandVars == <<alive, born, signaled, ownExit, cli, why, running, timer, verdict, lost,
                 wedged, int, interrupted, server, patience>>
notifyVars  == <<state, saved, todo, failed, next, spell, reports, sent, unsaved, lapsed,
                 crashes>>
streamVars  == <<row, dead, claims, runner, gates, orphaned, seen, tokens, batch,
                 terminalSeen, cursor, printed, asleep, ended>>
hubVars     == <<roster, flock, cmd, readable, loop, sweep, stop, wish, turns, sweeps,
                 lastSweep, breaks, commands>>
shared      == <<pc, events, lease>>
vars == <<part, bisectVars, commandVars, notifyVars, streamVars, hubVars, shared>>

Bisect == INSTANCE Bisect

(* A gate, processes of which ignore SIGTERM or may not be signalled.      *)
Gate == INSTANCE CommandRun

(* Webhooks fail, some of them for good.                                   *)
Notify == INSTANCE Notify WITH Answers <- {Answering}, Limit <- KeptLimit

(* Jobs of one claim, with the retention at its limit.                     *)
Stream == INSTANCE StreamProofs WITH
  Job <- ClaimJob, Scope <- ClaimScope, Limit <- ClaimLimit, Retention <- ClaimRetention,
  MaxClaims <- 1

(* A job that is claimed twice, and polls that are full.                   *)
Again == INSTANCE StreamProofs WITH
  Job <- AgainJob, Scope <- AgainScope, Limit <- AgainLimit, Retention <- AgainRetention,
  MaxClaims <- AgainClaims

(* Paths of one queue, one with a config that breaks, beside another.      *)
Hub == INSTANCE Hub WITH Command <- {HubCommand}, MaxCommands <- 0

ASSUME EndsAssumption ==
  /\ Bisect!JobAssumption /\ Gate!CommandAssumption /\ Notify!NotifyAssumption
  /\ Stream!StreamAssumption /\ Again!StreamAssumption /\ Hub!HubAssumption

-----------------------------------------------------------------------------
Off == "off"

BisectRests ==
  /\ steady = Off /\ broken = Off /\ deploy = Off /\ train = Off /\ calls = Off
  /\ cache = Off /\ singles = Off /\ groups = Off /\ outcome = Off
CommandRests ==
  /\ alive = Off /\ born = Off /\ signaled = Off /\ ownExit = Off /\ cli = Off /\ why = Off
  /\ running = Off /\ timer = Off /\ verdict = Off /\ lost = Off /\ wedged = Off /\ int = Off
  /\ interrupted = Off /\ server = Off /\ patience = Off
NotifyRests ==
  /\ state = Off /\ saved = Off /\ todo = Off /\ failed = Off /\ next = Off /\ spell = Off
  /\ reports = Off /\ sent = Off /\ unsaved = Off /\ lapsed = Off /\ crashes = Off
StreamRests ==
  /\ row = Off /\ dead = Off /\ claims = Off /\ runner = Off /\ gates = Off /\ orphaned = Off
  /\ seen = Off /\ tokens = Off /\ batch = Off /\ terminalSeen = Off /\ cursor = Off
  /\ printed = Off /\ asleep = Off /\ ended = Off
HubRests ==
  /\ roster = Off /\ flock = Off /\ cmd = Off /\ readable = Off /\ loop = Off /\ sweep = Off
  /\ stop = Off /\ wish = Off /\ turns = Off /\ sweeps = Off /\ lastSweep = Off
  /\ breaks = Off /\ commands = Off

Init ==
  \/ /\ part = "bisect" /\ Bisect!Init /\ events = Off /\ lease = Off
     /\ CommandRests /\ NotifyRests /\ StreamRests /\ HubRests
  \/ /\ part = "command" /\ Gate!Init /\ pc = Off /\ events = Off
     /\ BisectRests /\ NotifyRests /\ StreamRests /\ HubRests
  \/ /\ part = "notify" /\ Notify!Init /\ lease = Off
     /\ BisectRests /\ CommandRests /\ StreamRests /\ HubRests
  \/ /\ part = "stream" /\ Stream!Init
     /\ BisectRests /\ CommandRests /\ NotifyRests /\ HubRests
  \/ /\ part = "again" /\ Again!Init
     /\ BisectRests /\ CommandRests /\ NotifyRests /\ HubRests
  \/ /\ part = "hub" /\ Hub!Init /\ pc = Off /\ events = Off /\ lease = Off
     /\ BisectRests /\ CommandRests /\ NotifyRests /\ StreamRests

BisectStep ==
  /\ part = "bisect" /\ Bisect!Next
  /\ UNCHANGED <<part, commandVars, notifyVars, streamVars, hubVars, events, lease>>
CommandStep ==
  /\ part = "command" /\ Gate!Next
  /\ UNCHANGED <<part, bisectVars, notifyVars, streamVars, hubVars, pc, events>>
NotifyStep ==
  /\ part = "notify" /\ Notify!Next
  /\ UNCHANGED <<part, bisectVars, commandVars, streamVars, hubVars, lease>>
StreamStep ==
  /\ \/ part = "stream" /\ Stream!Next
     \/ part = "again" /\ Again!Next
  /\ UNCHANGED <<part, bisectVars, commandVars, notifyVars, hubVars>>
HubStep ==
  /\ part = "hub" /\ Hub!Next
  /\ UNCHANGED <<part, bisectVars, commandVars, notifyVars, streamVars, shared>>

Next == BisectStep \/ CommandStep \/ NotifyStep \/ StreamStep \/ HubStep

(* The fairness of each part's own specification.                          *)
Fairness ==
  /\ WF_<<bisectVars, pc>>(part = "bisect" /\ Bisect!Next)
  /\ \A m \in Member :
       WF_<<commandVars, lease>>(part = "command" /\ Gate!MustExit(m) /\ Gate!Exit(m))
  /\ WF_<<commandVars, lease>>(part = "command" /\ Gate!Tick)
  /\ WF_<<commandVars, lease>>(part = "command" /\ Gate!Cli)
  /\ WF_<<commandVars, lease>>(part = "command" /\ Gate!Answer)
  /\ WF_<<commandVars, lease>>(part = "command" /\ Gate!KillCli)
  /\ WF_<<notifyVars, pc, events>>(part = "notify" /\ Notify!Sweep)
  /\ WF_<<notifyVars, pc, events>>(part = "notify" /\ Notify!EndSweep)
  /\ WF_<<notifyVars, pc, events>>(part = "notify" /\ Notify!Save)
  /\ WF_<<notifyVars, pc, events>>(part = "notify" /\ Notify!Restart)
  /\ \A r \in Repo :
       WF_<<notifyVars, pc, events>>(part = "notify" /\ \E ok \in BOOLEAN : Notify!Send(r, ok))
  /\ SF_<<notifyVars, pc, events>>(part = "notify" /\ Notify!Send(Answering, TRUE))
  /\ WF_<<streamVars, shared>>(part = "stream" /\ Stream!Poll)
  /\ WF_<<streamVars, shared>>(part = "stream" /\ Stream!Announce)
  /\ WF_<<streamVars, shared>>(part = "again" /\ Again!Poll)
  /\ WF_<<streamVars, shared>>(part = "again" /\ Again!Announce)
  /\ WF_hubVars(part = "hub" /\ Hub!Loop)
  /\ \A i \in 1..MaxRoster : WF_hubVars(part = "hub" /\ Hub!TickEnds(i))

Spec == Init /\ [][Next]_vars /\ Fairness

-----------------------------------------------------------------------------
(* bisect_worktree blames a job alone only if it failed alone, names a set *)
(* only if it failed together and needs each member, and gives the exact   *)
(* verdicts when the gates depend on the jobs alone.                       *)
BlameIsJust ==
  part = "bisect" => Bisect!FailsAlone /\ Bisect!ConflictIsReal /\ Bisect!ExactWhenSteady

(* Every job of a failed train gets a verdict, however often the gates     *)
(* change their mind.                                                      *)
TrainEnds == <>(part = "bisect" => Bisect!Verdict("none") = {})

(* run_command and the MCP server, with one SIGINT at most: a runner that  *)
(* is gone after it had to stop its gate leaves no process of it that it   *)
(* could stop, unless the SIGINT came with a lost lease (CommandTwice      *)
(* shows that case); a verdict belongs to what happened; and the server    *)
(* does not kill a CLI that has yet to release its lease, unless that is   *)
(* wedged.                                                                 *)
GateIsStopped ==
  part = "command" =>
    /\ Gate!TypeOK /\ Gate!NoInvisibleGate /\ Gate!VerdictIsOwn
    /\ Gate!LeaseReleased

(* A stop that an MCP request began ends, also when the CLI is wedged.     *)
StopCompletes == Gate!StopCompletes

Keeps == part = "notify" /\ Notify!KeptFor(Answering)

(* What is kept for a repository whose webhook answers does not stay kept: *)
(* it is sent, or the limit drops it.                                      *)
KeptIsSent == Keeps ~> (~Keeps \/ pc = "down")

(* cmd_events --follow: nothing of the jobs is skipped, printed twice or   *)
(* out of order; the stream ends after what it has to announce, and says   *)
(* lost_lease only of a run that lost it.                                  *)
StreamIsComplete ==
  /\ part = "stream" =>
       /\ Stream!TypeOK /\ Stream!InOrder /\ Stream!NoJobEventSkipped
       /\ Stream!EndsAfterAnnounced /\ Stream!LostIsLost
  /\ part = "again" => Again!TypeOK /\ Again!InOrder /\ Again!NoJobEventSkipped

(* A stream whose jobs are settled, or abandoned, for good ends.           *)
StreamEnds ==
  /\ <>[](part = "stream" => Stream!Settled) => <>(part = "stream" => pc = "ended")
  /\ <>[](part = "again" => Again!Settled) => <>(part = "again" => pc = "ended")

(* run_hub_loop: every healthy queue of the roster a sweep read has its    *)
(* turn in it, whatever becomes of the others.                             *)
HealthyServed == Hub!HealthyServed
=============================================================================
