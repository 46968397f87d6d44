------------------------------ MODULE Approval ------------------------------
(***************************************************************************)
(* What a human approves and what a runner then ships.                     *)
(*                                                                         *)
(* An approval names commits, a destination and an execution policy: the   *)
(* --auto of an enqueue gives one in advance, a terminal or an MCP client  *)
(* asks for one on a plan it shows.  The remote's URL, the push refs and   *)
(* policy of the config file, and the task branches may be edited at any   *)
(* moment, also while a runner works.  The queue is reduced to what the    *)
(* approvals see; Runner and Store model the rest of it.                   *)
(***************************************************************************)
EXTENDS Naturals, FiniteSets, FiniteSetsExt

CONSTANTS
  Job, Daemon, Terminal, Mcp,   \* the processes, by what starts the deploy
  Url, Refs, Policy, Head,
  MaxEdits                      \* bound on the edits of a run

ApprovalAssumption ==
  /\ \A S, T \in {Daemon, Terminal, Mcp} : S # T => S \cap T = {}
  /\ Url # {} /\ Refs # {} /\ Policy # {} /\ Head # {}
  /\ MaxEdits \in Nat

Proc == Daemon \cup Terminal \cup Mcp

VARIABLES
  disk,    \* the config file and the Git config of the control checkout
  tip,     \* where each task branch points
  row,     \* the queue's rows
  lease,   \* processes that hold the runner lease
  run,     \* each process's own state
  agreed,  \* history: plans a human said yes to
  pushed,  \* history: what reached a remote
  edits

vars == <<disk, tip, row, lease, run, agreed, pushed, edits>>

Destination == Url \X Refs
Disk    == [url : Url, refs : Refs, policy : Policy]
Plan    == [train : SUBSET (Job \X Head), dest : Destination, policy : Policy]
NoPlan  == [train |-> {}]
NoDest  == <<>>
NoRow   == [status |-> "none"]
Queued(auto, h, d, p) == [status |-> "queued", auto |-> auto, head |-> h, dest |-> d, policy |-> p]

InStatus(s) == {j \in Job : row[j].status = s}
AutoJobs(S) == {j \in S : row[j].auto}
WithStatus(S, s) == [j \in Job |-> IF j \in S THEN [row[j] EXCEPT !.status = s] ELSE row[j]]

(* deploy_plan_sha, an injective hash of these three.                      *)
PlanOf(jobs, dest, policy) ==
  [train |-> {<<j, row[j].head>> : j \in jobs}, dest |-> dest, policy |-> policy]

(* resolve_git_destination: the URL of the moment, the refs of a config.   *)
Resolve(config) == <<disk.url, config.refs>>

-----------------------------------------------------------------------------
(* The checkout and the queue around the runners.                          *)

Edit ==
  /\ edits < MaxEdits
  /\ edits' = edits + 1
  /\ \/ \E u \in Url \ {disk.url} : disk' = [disk EXCEPT !.url = u] /\ UNCHANGED tip
     \/ \E r \in Refs \ {disk.refs} : disk' = [disk EXCEPT !.refs = r] /\ UNCHANGED tip
     \/ \E q \in Policy \ {disk.policy} : disk' = [disk EXCEPT !.policy = q] /\ UNCHANGED tip
     \/ \E j \in Job : \E h \in Head \ {tip[j]} : tip' = [tip EXCEPT ![j] = h] /\ UNCHANGED disk
  /\ UNCHANGED <<row, lease, run, agreed, pushed>>

(* cmd_enqueue: --auto approves the destination and policy of the moment.  *)
Enqueue(j, auto) ==
  /\ row[j] = NoRow
  /\ row' = [row EXCEPT ![j] =
               IF auto THEN Queued(TRUE, tip[j], <<disk.url, disk.refs>>, disk.policy)
                       ELSE Queued(FALSE, tip[j], NoDest, NoDest)]
  /\ UNCHANGED <<disk, tip, lease, run, agreed, pushed, edits>>

(* A validate makes a Ready train of what is queued, auto jobs too.        *)
Validate ==
  /\ lease = {} /\ InStatus("ready") = {} /\ InStatus("queued") # {}
  /\ row' = [j \in Job |->
               IF row[j].status # "queued" THEN row[j]
               ELSE [row[j] EXCEPT !.status = IF tip[j] = row[j].head THEN "ready" ELSE "blocked"]]
  /\ UNCHANGED <<disk, tip, lease, run, agreed, pushed, edits>>

(* A row without a claim is dismissed.                                     *)
Dismiss(j) ==
  /\ row[j].status \in {"blocked", "ready"}
  /\ row' = [row EXCEPT ![j] = NoRow]
  /\ UNCHANGED <<disk, tip, lease, run, agreed, pushed, edits>>

-----------------------------------------------------------------------------
(* The steps before a claim.                                               *)

Config == [refs |-> disk.refs, policy |-> disk.policy]
Idle   == [pc |-> "idle", snap |-> <<>>, dest |-> NoDest, plan |-> NoPlan,
           asked |-> <<>>, jobs |-> {}, heads |-> {}]

Step(p, from, to) == run[p].pc = from /\ run' = [run EXCEPT ![p].pc = to]
Gone(p)           == run' = [run EXCEPT ![p] = Idle]

(* The config file is read: once a tick, preview or execution.             *)
Load(p, from, to) ==
  /\ run[p].pc = from
  /\ run' = [run EXCEPT ![p] = [@ EXCEPT !.pc = to, !.snap = Config]]
  /\ UNCHANGED <<disk, tip, row, lease, agreed, pushed, edits>>

TickLoads(p)    == p \in Daemon /\ AutoJobs(InStatus("queued")) # {} /\ Load(p, "idle", "ticking")
PreviewLoads(p) == p \in Terminal \cup Mcp /\ Load(p, "idle", "preview")
AnswerLoads(p)  == p \in Mcp /\ Load(p, "answered", "again")
ExecuteLoads(p) == Load(p, "execute", "confirmed")

(* daemon_tick: the destination, with the config the tick loaded.          *)
TickResolves(p) ==
  /\ run[p].pc = "ticking"
  /\ run' = [run EXCEPT ![p] = [@ EXCEPT !.pc = "resolved", !.dest = Resolve(run[p].snap)]]
  /\ UNCHANGED <<disk, tip, row, lease, agreed, pushed, edits>>

(* Mutant: the claim of a daemon compares no policy.                       *)
ApprovedDestOnly(p, j) == row[j].dest = run[p].dest

(* The approval a daemon compares with what its tick read.                 *)
Approved(p, j) == row[j].dest = run[p].dest /\ row[j].policy = run[p].snap.policy

(* claim_all_queued(auto_only): stale approvals are blocked, the rest runs.*)
TickClaims(p) ==
  /\ run[p].pc = "resolved" /\ lease = {}
  /\ LET waiting == AutoJobs(InStatus("queued"))
         fit     == {j \in waiting : Approved(p, j)}
     IN  /\ row' = [j \in Job |->
                      IF j \notin waiting THEN row[j]
                      ELSE [row[j] EXCEPT !.status = IF j \in fit THEN "in_progress" ELSE "blocked"]]
         /\ IF fit = {} THEN Gone(p) /\ UNCHANGED lease
            ELSE /\ run' = [run EXCEPT ![p] = [@ EXCEPT !.pc = "claimed", !.jobs = fit, !.plan = NoPlan]]
                 /\ lease' = {p}
  /\ UNCHANGED <<disk, tip, agreed, pushed, edits>>

(* Mutant: the question a client sees, without the binding to its plan.    *)
QuestionOnScreen(plan) == <<plan.train, plan.dest>>

(* The rendered question, which carries a value derived from the plan.     *)
Question(plan) == <<plan.train, plan.dest, plan.policy>>

(* cmd_deploy, prepare_deploy: the plan is made and shown.  An MCP client  *)
(* retries the call with its answer, and the plan is made again: the       *)
(* answer stands if the question is the same, else the human is asked.     *)
Prepare(p) ==
  /\ run[p].pc \in {"preview", "again"}
  /\ LET ready == InStatus("ready")
         plan  == PlanOf(ready, Resolve(run[p].snap), run[p].snap.policy)
         same  == run[p].pc = "again" /\ Question(plan) = run[p].asked
     IN  IF ready = {} THEN Gone(p)
         ELSE run' = [run EXCEPT ![p] = [@ EXCEPT !.pc = IF same THEN "execute" ELSE "shown",
                                                  !.plan = plan, !.asked = Question(plan)]]
  /\ UNCHANGED <<disk, tip, row, lease, agreed, pushed, edits>>

(* The human says yes, or no.                                              *)
Answer(p, yes) ==
  /\ IF yes THEN Step(p, "shown", IF p \in Mcp THEN "answered" ELSE "execute")
            ELSE run[p].pc = "shown" /\ Gone(p)
  /\ agreed' = IF yes THEN agreed \cup {run[p].plan} ELSE agreed
  /\ UNCHANGED <<disk, tip, row, lease, pushed, edits>>

(* Mutant: the plan is not checked again inside the claim.                 *)
ConfirmedAlways(p, jobs) == TRUE

(* confirm_plan, on the train about to be claimed.                         *)
Confirmed(p, jobs) ==
  PlanOf(jobs, Resolve(run[p].snap), run[p].snap.policy) = run[p].plan

(* claim_deploy_batch: the Ready train is the one that was confirmed.      *)
DeployClaims(p) ==
  /\ run[p].pc = "confirmed" /\ lease = {}
  /\ LET ready == InStatus("ready")
     IN  IF ready # {} /\ Confirmed(p, ready)
         THEN /\ row' = WithStatus(ready, "in_progress")
              /\ run' = [run EXCEPT ![p] = [@ EXCEPT !.pc = "claimed", !.jobs = ready]]
              /\ lease' = {p}
         ELSE Gone(p) /\ UNCHANGED <<row, lease>>
  /\ UNCHANGED <<disk, tip, agreed, pushed, edits>>

-----------------------------------------------------------------------------
(* The runner, with the config it was built with.                          *)

(* Mutant: a runner frees its lease and leaves its rows in progress.       *)
FinishUnrecorded(p, s) == Gone(p) /\ lease' = {} /\ UNCHANGED row

(* Everything still active ends with one status, and the lease is freed.   *)
Finish(p, s) ==
  /\ row' = WithStatus(run[p].jobs, s)
  /\ Gone(p) /\ lease' = {}

Continue(p, to) == Step(p, run[p].pc, to) /\ UNCHANGED <<row, lease>>

(* _merge_sha_for_job: the branch still is where it was approved.          *)
Unmoved(j) == tip[j] = row[j].head

(* Jobs whose branch moved are blocked, and the train goes on without them.*)
Merge(p) ==
  /\ run[p].pc = "claimed"
  /\ LET kept == {j \in run[p].jobs : Unmoved(j)}
     IN  IF kept = {} THEN Finish(p, "blocked")
         ELSE /\ row' = WithStatus(run[p].jobs \ kept, "blocked")
              /\ run' = [run EXCEPT ![p] = [@ EXCEPT !.pc = "merged", !.jobs = kept,
                                                     !.heads = {<<j, tip[j]>> : j \in kept}]]
              /\ UNCHANGED lease
  /\ UNCHANGED <<disk, tip, agreed, pushed, edits>>

(* _assert_auto_execution_policy, with the config file as it is now.       *)
PolicyStands(p) == \A j \in AutoJobs(run[p].jobs) : row[j].policy = disk.policy

(* The policy is compared, and the gates run.                              *)
Gates(p) ==
  /\ run[p].pc = "merged"
  /\ IF PolicyStands(p) THEN Continue(p, "gated") ELSE Finish(p, "blocked")
  /\ UNCHANGED <<disk, tip, agreed, pushed, edits>>

DestStands(p, dest) == \A j \in AutoJobs(run[p].jobs) : row[j].dest = dest

(* _push_and_verify resolves the destination once, and pins it.            *)
Pin(p) ==
  /\ run[p].pc = "gated"
  /\ LET dest == Resolve(run[p].snap)
     IN  IF DestStands(p, dest)
         THEN /\ run' = [run EXCEPT ![p] = [@ EXCEPT !.pc = "pinned", !.dest = dest]]
              /\ UNCHANGED <<row, lease>>
         ELSE Finish(p, "blocked")
  /\ UNCHANGED <<disk, tip, agreed, pushed, edits>>

RecheckPolicy(p) ==
  /\ run[p].pc = "pinned"
  /\ IF PolicyStands(p) THEN Continue(p, "judged") ELSE Finish(p, "blocked")
  /\ UNCHANGED <<disk, tip, agreed, pushed, edits>>

(* Mutant: a confirmed plan is not compared again before the push.         *)
PlanStandsAlways(p) == TRUE

(* The plan that was confirmed, with the config file as it is now.         *)
PlanStands(p) ==
  run[p].plan = NoPlan \/ PlanOf(run[p].jobs, run[p].dest, disk.policy) = run[p].plan

RecheckPlan(p) ==
  /\ run[p].pc = "judged"
  /\ IF PlanStands(p) THEN Continue(p, "pushing") ELSE Finish(p, "blocked")
  /\ UNCHANGED <<disk, tip, agreed, pushed, edits>>

(* Mutant: the push goes where the remote points when it starts.           *)
TargetOfRemote(p) == Resolve(run[p].snap)

(* The push goes to the pinned endpoint.                                   *)
Target(p) == run[p].dest

Push(p) ==
  /\ run[p].pc = "pushing"
  /\ pushed' = pushed \cup {[heads |-> run[p].heads, dest |-> Target(p),
                             policy |-> run[p].snap.policy, plan |-> run[p].plan]}
  /\ Finish(p, "deployed")
  /\ UNCHANGED <<disk, tip, agreed, edits>>

-----------------------------------------------------------------------------
Init ==
  /\ disk = CHOOSE d \in Disk : TRUE
  /\ tip = [j \in Job |-> CHOOSE h \in Head : TRUE]
  /\ row = [j \in Job |-> NoRow] /\ lease = {}
  /\ run = [p \in Proc |-> Idle]
  /\ agreed = {} /\ pushed = {} /\ edits = 0

Next ==
  \/ Edit \/ Validate
  \/ \E j \in Job : Dismiss(j) \/ \E auto \in BOOLEAN : Enqueue(j, auto)
  \/ \E p \in Proc :
       \/ TickLoads(p) \/ TickResolves(p) \/ TickClaims(p)
       \/ PreviewLoads(p) \/ AnswerLoads(p) \/ Prepare(p)
       \/ \E yes \in BOOLEAN : Answer(p, yes)
       \/ ExecuteLoads(p) \/ DeployClaims(p)
       \/ Merge(p) \/ Gates(p) \/ Pin(p) \/ RecheckPolicy(p) \/ RecheckPlan(p) \/ Push(p)

Spec == Init /\ [][Next]_vars

-----------------------------------------------------------------------------
Row == [status : {"queued", "ready", "in_progress", "blocked", "deployed"}, auto : BOOLEAN,
        head : Head, dest : Destination \cup {NoDest}, policy : Policy \cup {NoDest}]

(* Types; what is in progress is the lease holder's.                       *)
TypeOK ==
  /\ disk \in Disk /\ tip \in [Job -> Head]
  /\ row \in [Job -> Row \cup {NoRow}]
  /\ lease \subseteq Proc /\ Cardinality(lease) <= 1
  /\ InStatus("in_progress") = UNION {run[p].jobs : p \in lease}
  /\ edits \in 0..MaxEdits

(* What is shipped, where to, and under which gates and hooks, is what a   *)
(* human approved: by the --auto of every job of the train, or by saying   *)
(* yes to this very plan.  No edit between the approval and the push, nor  *)
(* one that is undone again, gets anything else through.                   *)
ShippedAsApproved ==
  \A x \in pushed :
    IF x.plan = NoPlan
    THEN \A w \in x.heads : LET r == row[w[1]]
                            IN  r.auto /\ <<r.head, r.dest, r.policy>> = <<w[2], x.dest, x.policy>>
    ELSE x.plan \in agreed /\ x.plan = [train |-> x.heads, dest |-> x.dest, policy |-> x.policy]

(* docs/daemon.md: the hashes "must match the live" ones "inside the claim *)
(* transaction".  An auto job whose approval matches is not blocked.       *)
Fits(j) == row[j].dest = <<disk.url, disk.refs>> /\ row[j].policy = disk.policy /\ Unmoved(j)

BlockedForCause ==
  [][\A j \in AutoJobs(InStatus("queued")) : row'[j].status = "blocked" => ~Fits(j)]_vars
=============================================================================
