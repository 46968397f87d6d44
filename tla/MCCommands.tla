------------------------------ MODULE MCCommands ------------------------------
(***************************************************************************)
(* Commands of agents and operators that overlap, and the hub beside them. *)
(* One run checks them: `part` names the one that a behaviour is about,    *)
(* and the variables of the others rest.                                   *)
(***************************************************************************)
EXTENDS Naturals, FiniteSets, TLC

CONSTANTS
  Agent,   \* processes that run commands
  (* The queue, as runners take what is queued or a Ready train, and in order. *)
  Branch, Approval, OrderedApproval, MaxRows, MaxCommands,
  QueueMoves, QueueDeaths, OrderedMoves, OrderedDeaths,
  (* gc, beside commits and runs and beside a verify. *)
  GcBranch, GcRows, MaxRuns, MaxGcs,
  CollectCommits, CollectVerifies, CheckedCommits, CheckedVerifies,
  (* The hub. *)
  Path, HubDirs, Roots, Dbs, Concurrency, Breakable, HubCommands, MaxRoster, MaxBreaks,
  MaxSweeps,
  (* Notifications. *)
  Repo, NotifyOutcome, Limit, MaxReports, MaxCrashes, Faults

VARIABLES
  part,
  config, claim, train, granted, moves, deaths,
  made, landed, tracking, pin, dirs, lock, run, verifier, reconciler, gc, counts,
  roster, flock, readable, loop, sweep, stop, wish, turns, sweeps, lastSweep, breaks,
  pc, state, saved, todo, failed, next, spell, reports, events, unsaved, lapsed, crashes,
  row, tip, cmd, commands, sent   \* of whichever part has such a variable

queueVars  == <<config, claim, train, granted, moves, deaths>>
gcVars     == <<made, landed, tracking, pin, dirs, lock, run, verifier, reconciler, gc, counts>>
hubVars    == <<roster, flock, readable, loop, sweep, stop, wish, turns, sweeps, lastSweep,
                breaks>>
notifyVars == <<pc, state, saved, todo, failed, next, spell, reports, events, unsaved, lapsed,
                crashes>>

all ==
  <<part, queueVars, gcVars, hubVars, notifyVars, row, tip, cmd, commands, sent>>

(* Agents, and a runner that takes whatever is queued or a Ready train.    *)
Queue == INSTANCE TrainQueueProofs WITH
  Ordered <- FALSE, MaxMoves <- QueueMoves, MaxDeaths <- QueueDeaths

(* The same in order.                                                      *)
Ordered == INSTANCE TrainQueueProofs WITH
  Ordered <- TRUE, Approval <- OrderedApproval, MaxMoves <- OrderedMoves,
  MaxDeaths <- OrderedDeaths

(* gc beside runs and an agent that commits more than once.                *)
Collect == INSTANCE GcProofs WITH
  Branch <- GcBranch, MayTurnOff <- FALSE, MaxRows <- GcRows, MaxCommits <- CollectCommits,
  MaxVerifies <- CollectVerifies

(* gc beside a verify.                                                     *)
Checked == INSTANCE GcProofs WITH
  Branch <- GcBranch, MayTurnOff <- FALSE, MaxRows <- GcRows, MaxCommits <- CheckedCommits,
  MaxVerifies <- CheckedVerifies

(* Paths that share a state root, or only the database, with configs that  *)
(* break.                                                                  *)
Hub == INSTANCE Hub WITH
  Command <- Agent, Dirs <- HubDirs, MaxCommands <- HubCommands

(* Webhooks, configs, saves and the daemon itself fail.                    *)
Notify == INSTANCE Notify WITH Answers <- {}, Outcome <- NotifyOutcome

ASSUME CommandsAssumption ==
  /\ Queue!TrainQueueAssumption /\ Ordered!TrainQueueAssumption
  /\ Collect!GcAssumption /\ Checked!GcAssumption
  /\ Hub!HubAssumption /\ Notify!NotifyAssumption

-----------------------------------------------------------------------------
Off == "off"

QueueRests ==
  /\ config = Off /\ claim = Off /\ train = Off /\ granted = Off /\ moves = Off /\ deaths = Off
GcRests ==
  /\ made = Off /\ landed = Off /\ tracking = Off /\ pin = Off /\ dirs = Off /\ lock = Off
  /\ run = Off /\ verifier = Off /\ reconciler = Off /\ gc = Off /\ counts = Off
HubRests ==
  /\ roster = Off /\ flock = Off /\ readable = Off /\ loop = Off /\ sweep = Off /\ stop = Off
  /\ wish = Off /\ turns = Off /\ sweeps = Off /\ lastSweep = Off /\ breaks = Off
NotifyRests ==
  /\ pc = Off /\ state = Off /\ saved = Off /\ todo = Off /\ failed = Off /\ next = Off
  /\ spell = Off /\ reports = Off /\ events = Off /\ unsaved = Off /\ lapsed = Off
  /\ crashes = Off

Init ==
  \/ /\ \/ part = "queue" /\ Queue!Init
        \/ part = "ordered" /\ Ordered!Init
     /\ sent = Off /\ GcRests /\ HubRests /\ NotifyRests
  \/ /\ \/ part = "gc" /\ Collect!Init
        \/ part = "checked" /\ Checked!Init
     /\ cmd = Off /\ commands = Off /\ QueueRests /\ HubRests /\ NotifyRests
  \/ /\ part = "hub" /\ Hub!Init
     /\ row = Off /\ tip = Off /\ sent = Off /\ QueueRests /\ GcRests /\ NotifyRests
  \/ /\ part = "notify" /\ Notify!Init
     /\ row = Off /\ tip = Off /\ cmd = Off /\ commands = Off
     /\ QueueRests /\ GcRests /\ HubRests

QueueStep ==
  /\ \/ part = "queue" /\ Queue!Next
     \/ part = "ordered" /\ Ordered!Next
  /\ UNCHANGED <<part, gcVars, hubVars, notifyVars, sent>>
GcStep ==
  /\ \/ part = "gc" /\ Collect!Next
     \/ part = "checked" /\ Checked!Next
  /\ UNCHANGED <<part, queueVars, hubVars, notifyVars, cmd, commands>>
HubStep ==
  /\ part = "hub" /\ Hub!Next
  /\ UNCHANGED <<part, queueVars, gcVars, notifyVars, row, tip, sent>>
NotifyStep ==
  /\ part = "notify" /\ Notify!Next
  /\ UNCHANGED <<part, queueVars, gcVars, hubVars, row, tip, cmd, commands>>

Next == QueueStep \/ GcStep \/ HubStep \/ NotifyStep

Spec == Init /\ [][Next]_all

Symmetry == Permutations(Agent)

-----------------------------------------------------------------------------
(* Whatever overlaps, no branch has two rows to be run, and no task two    *)
(* rows that run or have landed.                                           *)
RunsOnce ==
  /\ part = "queue"   => Queue!RunsOnce
  /\ part = "ordered" => Ordered!RunsOnce

(* Replacements of a Ready train stand for all of it.                      *)
ReplacesRetired ==
  /\ part = "queue"   => Queue!ReplacesRetired
  /\ part = "ordered" => Ordered!ReplacesRetired

(* No retry or supersede makes an approval nobody gave.                    *)
AutoGranted ==
  /\ part = "queue"   => Queue!AutoGranted
  /\ part = "ordered" => Ordered!AutoGranted

(* Ordered processing: a retry keeps its task's place, so no task lands    *)
(* while an earlier one still has a row to run.                            *)
LandsInOrder == [][part = "ordered" => Ordered!LandsFirst]_<<queueVars, row>>

(* gc takes no worktree a live process works in, no commit of an agent     *)
(* that has not landed, and no pin that reconcile may need.                *)
NothingTaken ==
  /\ part = "gc" => /\ Collect!TypeOK /\ Collect!WorktreeSpared /\ Collect!CommitsKept
                    /\ Collect!PinnedUntilKnown
  /\ part = "checked" => /\ Checked!TypeOK /\ Checked!WorktreeSpared /\ Checked!CommitsKept
                         /\ Checked!PinnedUntilKnown

(* The roster keeps an opt-out, a sweep honours it whatever path reaches   *)
(* the queue, and gives a queue one turn; a signal's sweep is the last.    *)
SweepFollowsRoster ==
  part = "hub" =>
    /\ Hub!TypeOK /\ Hub!OptOutKept /\ Hub!OptOutHolds /\ Hub!OneTurnPerQueue
    /\ Hub!NoSweepAfterStop

(* deliver_notifications: an event is received once and in order, or kept, *)
(* or lost for one of the named causes.                                    *)
DeliveredOnce ==
  part = "notify" =>
    /\ Notify!TypeOK /\ Notify!NothingLost /\ Notify!NoRepeat /\ Notify!InOrder
=============================================================================
