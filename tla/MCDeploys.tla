------------------------------- MODULE MCDeploys -------------------------------
(***************************************************************************)
(* What a deploy goes through beside its queue: the approval, the gates,   *)
(* the reuse of an earlier validation, the verification.  One run checks   *)
(* them: `part` names the one that a behaviour is about, and the variables *)
(* of the others rest.                                                     *)
(***************************************************************************)
EXTENDS Naturals, FiniteSets

CONSTANTS
  (* Approvals: of a plan somebody is asked about, and of two --auto jobs. *)
  Daemon, Terminal, Mcp, Url, Head, Policy,
  AskedJob, AskedRefs, AskedEdits, AutoJob, AutoRefs, AutoEdits,
  (* The reuse of validations. *)
  Gate, Always, Scoped, Env, Mode, MaxAge, MaxClock, MaxMoves, MaxRuns,
  (* Verification; Hooks are the identities of deploy.verify. *)
  DeployedJob, Verifier, Hooks, NoHooks, MaxEdits, MaxCommands,
  (* The plan of the gates, which are numbered as they are declared. *)
  PlanGate, Group, MaxWorkers

VARIABLES
  part,
  disk, lease, agreed, pushed,
  env, head, clock, pruned, train, marker, cache, ran, landed, drifted, moves, runs,
  cmd, evidence, commands,
  conf, done, wave, state, stop, trouble, result,
  config, row, run, edits, tip   \* of whichever part has such a variable

approvalVars == <<disk, lease, agreed, pushed>>
reuseVars    == <<env, head, clock, pruned, train, marker, cache, ran, landed, drifted, moves,
                  runs>>
verifyVars   == <<cmd, evidence, commands>>
planVars     == <<conf, done, wave, state, stop, trouble, result>>

all == <<part, approvalVars, reuseVars, verifyVars, planVars, config, row, run, edits, tip>>

(* A daemon, a terminal and an MCP client.                                 *)
Asked == INSTANCE ApprovalProofs WITH
  Job <- AskedJob, Refs <- AskedRefs, MaxEdits <- AskedEdits

(* --auto jobs, which the daemon takes as one train, and no human.         *)
Taken == INSTANCE ApprovalProofs WITH
  Job <- AutoJob, Refs <- AutoRefs, MaxEdits <- AutoEdits, Terminal <- {}, Mcp <- {}

Reuse  == INSTANCE Reuse
Verify == INSTANCE Verify WITH Job <- DeployedJob, Policy <- Hooks
Plan   == INSTANCE GatePlan WITH Gate <- PlanGate

ASSUME DeploysAssumption ==
  /\ Asked!ApprovalAssumption /\ Taken!ApprovalAssumption /\ Reuse!ReuseAssumption
  /\ Verify!VerifyAssumption /\ Plan!GateAssumption /\ Plan!MaxWorkersAssumption

-----------------------------------------------------------------------------
Off == "off"

ApprovalRests == disk = Off /\ lease = Off /\ agreed = Off /\ pushed = Off
ReuseRests ==
  /\ env = Off /\ head = Off /\ clock = Off /\ pruned = Off /\ train = Off /\ marker = Off
  /\ cache = Off /\ ran = Off /\ landed = Off /\ drifted = Off /\ moves = Off /\ runs = Off
VerifyRests == cmd = Off /\ evidence = Off /\ commands = Off
PlanRests ==
  /\ conf = Off /\ done = Off /\ wave = Off /\ state = Off /\ stop = Off /\ trouble = Off
  /\ result = Off

Init ==
  \/ /\ part = "asked" /\ Asked!Init /\ config = Off
     /\ ReuseRests /\ VerifyRests /\ PlanRests
  \/ /\ part = "auto" /\ Taken!Init /\ config = Off
     /\ ReuseRests /\ VerifyRests /\ PlanRests
  \/ /\ part = "reuse" /\ Reuse!Init /\ row = Off /\ edits = Off
     /\ ApprovalRests /\ VerifyRests /\ PlanRests
  \/ /\ part = "verify" /\ Verify!Init /\ tip = Off
     /\ ApprovalRests /\ ReuseRests /\ PlanRests
  \/ /\ part = "plan" /\ Plan!Init
     /\ config = Off /\ row = Off /\ run = Off /\ edits = Off /\ tip = Off
     /\ ApprovalRests /\ ReuseRests /\ VerifyRests

ApprovalStep ==
  /\ \/ part = "asked" /\ Asked!Next
     \/ part = "auto" /\ Taken!Next
  /\ UNCHANGED <<part, reuseVars, verifyVars, planVars, config>>
ReuseStep ==
  /\ part = "reuse" /\ Reuse!Next
  /\ UNCHANGED <<part, approvalVars, verifyVars, planVars, row, edits>>
VerifyStep ==
  /\ part = "verify" /\ Verify!Next
  /\ UNCHANGED <<part, approvalVars, reuseVars, planVars, tip>>
PlanStep ==
  /\ part = "plan" /\ Plan!Next
  /\ UNCHANGED <<part, approvalVars, reuseVars, verifyVars, config, row, run, edits, tip>>

Next == ApprovalStep \/ ReuseStep \/ VerifyStep \/ PlanStep

Spec == Init /\ [][Next]_all

-----------------------------------------------------------------------------
(* What is pushed goes where, under the policy and with the commits that   *)
(* the plan a human said yes to, or the --auto of its rows, approved.      *)
ShippedAsApproved ==
  /\ part = "asked" => Asked!TypeOK /\ Asked!ShippedAsApproved
  /\ part = "auto" => Taken!TypeOK /\ Taken!ShippedAsApproved

(* validation_reuse: every gate that the policy wants passed on the commit *)
(* that lands, on the base, the heads and the policy it lands with.        *)
LandedGated == part = "reuse" => Reuse!TypeOK /\ Reuse!LandedGated

(* A gate that is not run again passed on the toolchain of the deploy, or  *)
(* on one that changed while it ran; deploy.reuse = "fail" never lands     *)
(* what it declines; no cache is taken for another identity's.             *)
ReuseIsSound ==
  part = "reuse" => Reuse!SameToolchain /\ Reuse!FailsClosed /\ Reuse!CacheIsOurs

(* A verified deployment was verified by the hooks it was pushed with, or  *)
(* by an operator.                                                         *)
VerifiedByItsHooks == part = "verify" => Verify!TypeOK /\ Verify!VerifiedByItsHooks

(* verify settles a deployment whole, once all of it is recorded, and does *)
(* not take back what is verified.                                         *)
SettledForGood ==
  [][part = "verify" => Verify!SettlesWhole /\ Verify!TakesNothingBack]_<<verifyVars, row>>

(* run_gate_plan always finds a next wave, and never one before its needs  *)
(* or, for gates that do not run in parallel, before the one declared      *)
(* earlier.                                                                *)
PlanGoesOn == part = "plan" => Plan!NeverStuck /\ Plan!DeclaredOrder

(* It passes only when every gate did, and cancels none without a cause.   *)
PlanIsHonest == part = "plan" => Plan!PassedMeansAll /\ Plan!NoBlamelessCancel
=============================================================================
