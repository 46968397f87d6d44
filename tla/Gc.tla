--------------------------------- MODULE Gc ---------------------------------
(***************************************************************************)
(* mergetrain gc --apply --delete-branches beside the work whose leavings  *)
(* it collects: worktrees of runs and of verifies, branches of rows that   *)
(* ended, and the refs that pin the commit of an unresolved push.  gc      *)
(* holds no lock; it reads, decides and deletes in many steps, and runs,   *)
(* crashes, reconciles, agents and pushes go on between any two of them.   *)
(***************************************************************************)
EXTENDS Naturals, Sequences, FiniteSets

CONSTANTS
  Branch,
  MayTurnOff,  \* a gc may read a config in which the persistent workspace is off
  MaxRows, MaxCommits, MaxRuns, MaxGcs, MaxVerifies

GcAssumption ==
  /\ MayTurnOff \in BOOLEAN
  /\ {MaxRows, MaxCommits, MaxRuns, MaxGcs, MaxVerifies} \subseteq Nat

VARIABLES
  row,        \* deploy_queue: branch, head, status, pending, pushed
  tip,        \* the commit of each branch, 0 where there is none
  made,       \* history: the last commit of each branch
  landed,     \* the last commit of each branch on the remote integration ref
  tracking,   \* ... and on the local tracking ref
  pin,        \* refs/mergetrain/pending/<id>: the ids that have one
  sent,       \* history: the ids whose unresolved push went out
  dirs,       \* the directories under worktree_root
  lock,       \* the runner lock: its owner, alive or not, and live_worktree
  run,        \* the runner
  verifier,   \* a verify, in a worktree named after its process
  reconciler, \* reconcile --apply
  gc,         \* the gc command
  counts      \* bounds: runs, gcs and verifies so far

vars == <<row, tip, made, landed, tracking, pin, sent, dirs, lock, run, verifier, reconciler, gc, counts>>
rows == <<row, tip, made, landed, tracking>>

Ids       == DOMAIN row

(* Worktrees, by name: each run's own, the persistent workspace, one named *)
(* after a process; and a name that nothing has.                           *)
Workspace == 0
OfPid     == MaxRuns + 1
NoDir     == MaxRuns + MaxRows + 2
Dirs      == (1..MaxRuns) \cup {Workspace, OfPid}
Idle      == [pc |-> "idle"]
NoLock    == [owner |-> "none", live |-> NoDir]

Ended(s) == s \in {"deployed", "failed", "canceled"}
Counted(what, max) == counts[what] < max /\ counts' = [counts EXCEPT ![what] = @ + 1]

-----------------------------------------------------------------------------
(* Agents commit, enqueue and cancel; anything fetches.                    *)

Commit(b) ==
  /\ made[b] < MaxCommits
  /\ made' = [made EXCEPT ![b] = @ + 1] /\ tip' = [tip EXCEPT ![b] = made[b] + 1]
  /\ UNCHANGED <<row, landed, tracking, pin, sent, dirs, lock, run, verifier, reconciler, gc, counts>>

Enqueue(b) ==
  /\ tip[b] > 0 /\ Len(row) < MaxRows
  /\ \A j \in Ids : row[j].branch = b => Ended(row[j].status)
  /\ row' = Append(row, [branch |-> b, head |-> tip[b], status |-> "queued",
                         pending |-> FALSE, pushed |-> FALSE])
  /\ UNCHANGED <<tip, made, landed, tracking, pin, sent, dirs, lock, run, verifier, reconciler, gc, counts>>

Cancel(j) ==
  /\ row[j].status = "queued"
  /\ row' = [row EXCEPT ![j] = [@ EXCEPT !.status = "canceled", !.pending = FALSE]]
  /\ UNCHANGED <<tip, made, landed, tracking, pin, sent, dirs, lock, run, verifier, reconciler, gc, counts>>

Fetch ==
  /\ tracking # landed /\ tracking' = landed
  /\ UNCHANGED <<row, tip, made, landed, pin, sent, dirs, lock, run, verifier, reconciler, gc, counts>>

-----------------------------------------------------------------------------
(* A runner.                                                               *)

(* Mutant: an orphan is queued again, whatever its marker says.            *)
RecoveredQueued == [j \in Ids |-> IF row[j].status # "in_progress" THEN row[j]
                                  ELSE [row[j] EXCEPT !.status = "queued"]]

(* The row's status when an orphan is taken over, by its marker.           *)
Recovered == [j \in Ids |-> IF row[j].status # "in_progress" THEN row[j]
                            ELSE [row[j] EXCEPT !.status = IF row[j].pending THEN "needs_reconcile" ELSE "queued"]]

Free == lock.owner \in {"none", "dead"}

(* A claim of a row whose branch has not moved: the lease names the        *)
(* worktree before it exists.                                              *)
Claim(j, deploy) ==
  /\ run = Idle /\ Free /\ row[j].status = "queued" /\ Recovered = row
  /\ tip[row[j].branch] = row[j].head
  /\ Counted("runs", MaxRuns)
  /\ run' = [pc |-> "claimed", job |-> j, deploy |-> deploy,
             dir |-> IF deploy THEN counts.runs + 1 ELSE Workspace]
  /\ lock' = [owner |-> "runner", live |-> run'.dir]
  /\ row' = [row EXCEPT ![j].status = "in_progress"]
  /\ UNCHANGED <<tip, made, landed, tracking, pin, sent, dirs, verifier, reconciler, gc>>

(* recover_orphans, by whoever takes the lock next.                        *)
TakeOver ==
  /\ Free /\ row' = Recovered /\ row' # row
  /\ UNCHANGED <<tip, made, landed, tracking, pin, sent, dirs, lock, run, verifier, reconciler, gc, counts>>

RunStep(from, to) == run.pc = from /\ run' = [run EXCEPT !.pc = to]

Enter ==
  /\ RunStep("claimed", "inside") /\ dirs' = dirs \cup {run.dir}
  /\ UNCHANGED <<rows, pin, sent, lock, verifier, reconciler, gc, counts>>

Mark ==
  /\ run # Idle /\ run.deploy /\ RunStep("inside", "marked")
  /\ row' = [row EXCEPT ![run.job].pending = TRUE]
  /\ UNCHANGED <<tip, made, landed, tracking, pin, sent, dirs, lock, verifier, reconciler, gc, counts>>

Pin ==
  /\ RunStep("marked", "pinned") /\ pin' = pin \cup {run.job}
  /\ UNCHANGED <<rows, sent, dirs, lock, verifier, reconciler, gc, counts>>

Lands(j) == landed' = [landed EXCEPT ![row[j].branch] = IF @ < row[j].head THEN row[j].head ELSE @]

(* The push goes out, and lands or does not.                               *)
PushOut(lands) ==
  /\ RunStep("pinned", "pushed") /\ sent' = sent \cup {run.job}
  /\ IF lands THEN Lands(run.job) ELSE UNCHANGED landed
  /\ UNCHANGED <<row, tip, made, tracking, pin, dirs, lock, verifier, reconciler, gc, counts>>

OnRemote(j) == row[j].head <= landed[row[j].branch]

(* The outcome is written; a validated row waits as a queued one here.     *)
Finish ==
  /\ RunStep("pushed", "finished") \/ RunStep("inside", "finished")
  /\ LET j == run.job
         s == IF run.pc = "pushed" THEN (IF OnRemote(j) THEN "deployed" ELSE "failed")
              ELSE IF run.deploy THEN "failed" ELSE "queued"
     IN  /\ row' = [row EXCEPT ![j] = [@ EXCEPT !.status = s, !.pending = FALSE,
                                            !.pushed = (s = "deployed")]]
         /\ sent' = sent \ {j}
  /\ UNCHANGED <<tip, made, landed, tracking, pin, dirs, lock, verifier, reconciler, gc, counts>>

(* An ambiguous push: the row is parked, and keeps its marker and its pin. *)
Park ==
  /\ RunStep("pushed", "finished")
  /\ row' = [row EXCEPT ![run.job].status = "needs_reconcile"]
  /\ UNCHANGED <<tip, made, landed, tracking, pin, sent, dirs, lock, verifier, reconciler, gc, counts>>

(* Pins go after the outcome is on record, then the worktree, then the     *)
(* lease; the persistent workspace stays.                                  *)
Leave ==
  /\ run.pc = "finished" /\ run' = Idle
  /\ pin' = IF row[run.job].status = "needs_reconcile" THEN pin ELSE pin \ {run.job}
  /\ dirs' = IF run.deploy THEN dirs \ {run.dir} ELSE dirs
  /\ lock' = NoLock
  /\ UNCHANGED <<rows, sent, verifier, reconciler, gc, counts>>

(* The runner dies; its push may still be on its way.                      *)
Die(lands) ==
  /\ run # Idle /\ run' = Idle /\ lock' = [lock EXCEPT !.owner = "dead"]
  /\ lands => run.pc = "pushed"
  /\ IF lands THEN Lands(run.job) ELSE UNCHANGED landed
  /\ UNCHANGED <<row, tip, made, tracking, pin, sent, dirs, verifier, reconciler, gc, counts>>

(* A verify works in a directory that carries its process id.              *)
Verify ==
  /\ \/ verifier = "none" /\ Counted("verifies", MaxVerifies)
        /\ verifier' = "inside" /\ dirs' = dirs \cup {OfPid}
     \/ verifier = "inside" /\ verifier' = "none" /\ dirs' = dirs \ {OfPid} /\ UNCHANGED counts
     \/ verifier = "inside" /\ verifier' = "dead" /\ UNCHANGED <<dirs, counts>>
  /\ UNCHANGED <<rows, pin, sent, lock, run, reconciler, gc>>

(* reconcile --apply, under the runner lock: first the row, then its pin.  *)
ReconcileStarts(j) ==
  /\ reconciler = Idle /\ Free /\ Recovered = row /\ row[j].status = "needs_reconcile"
  /\ lock' = [owner |-> "reconcile", live |-> NoDir]
  /\ reconciler' = [pc |-> "deciding", job |-> j]
  /\ UNCHANGED <<rows, pin, sent, dirs, run, verifier, gc, counts>>

Settles(j) ==
  /\ row' = [row EXCEPT ![j] = [@ EXCEPT !.status = IF OnRemote(j) THEN "deployed" ELSE "queued",
                                         !.pending = FALSE, !.pushed = OnRemote(j)]]
  /\ sent' = sent \ {j}
  /\ UNCHANGED pin

ReconcileSettles ==
  /\ reconciler.pc = "deciding" /\ Settles(reconciler.job)
  /\ reconciler' = [reconciler EXCEPT !.pc = "unpinning"]
  /\ UNCHANGED <<tip, made, landed, tracking, dirs, lock, run, verifier, gc, counts>>

ReconcileEnds(dies) ==
  /\ reconciler # Idle /\ (dies \/ reconciler.pc = "unpinning")
  /\ pin' = IF dies THEN pin ELSE pin \ {reconciler.job}
  /\ reconciler' = Idle
  /\ lock' = IF dies THEN [lock EXCEPT !.owner = "dead"] ELSE NoLock
  /\ UNCHANGED <<rows, sent, dirs, run, verifier, gc, counts>>

-----------------------------------------------------------------------------
(* cmd_gc.                                                                 *)

GcStep(from, to) == gc.pc = from /\ gc' = [gc EXCEPT !.pc = to]

(* terminal_branch_candidates: the last row of each branch, all its rows   *)
(* ended.                                                                  *)
Candidates == {j \in Ids : \A k \in Ids : row[k].branch = row[j].branch => Ended(row[k].status) /\ k <= j}

GcReads ==
  /\ gc = Idle /\ Counted("gcs", MaxGcs)
  /\ \E persistent \in {TRUE, ~MayTurnOff} :
       gc' = [pc |-> "lock", persistent |-> persistent, branches |-> Candidates, kept |-> {},
              protect |-> NoDir, todo |-> {}, pins |-> {}, item |-> NoDir]
  /\ UNCHANGED <<rows, pin, sent, dirs, lock, run, verifier, reconciler>>

(* live_worktree_path, the snapshot that protects a running worktree.      *)
GcSnapshots ==
  /\ gc.pc = "lock" /\ gc' = [gc EXCEPT !.pc = "branches", !.protect = lock.live]
  /\ UNCHANGED <<rows, pin, sent, dirs, lock, run, verifier, reconciler, counts>>

(* branch_deletion_blocker: still the recorded head, and merged into the   *)
(* tracking ref, or into what the row pushed.                              *)
Deletable(j) ==
  /\ tip[row[j].branch] = row[j].head
  /\ row[j].head <= tracking[row[j].branch] \/ row[j].pushed

GcChecks(j) ==
  /\ gc.pc = "branches" /\ j \in gc.branches
  /\ gc' = [gc EXCEPT !.branches = @ \ {j}, !.kept = IF Deletable(j) THEN @ \cup {j} ELSE @]
  /\ UNCHANGED <<rows, pin, sent, dirs, lock, run, verifier, reconciler, counts>>

(* find_worktree_gc_candidates                                             *)
Removable ==
  {d \in dirs : /\ d # gc.protect
                /\ d = Workspace => ~gc.persistent
                /\ d = OfPid => verifier # "inside"}

GcLists ==
  /\ gc.pc = "branches" /\ gc.branches = {}
  /\ gc' = [gc EXCEPT !.pc = "worktrees", !.todo = Removable]
  /\ UNCHANGED <<rows, pin, sent, dirs, lock, run, verifier, reconciler, counts>>

(* Mutant: what the snapshot does not protect may go.                      *)
SparesNone(d) == FALSE

(* live_worktree_now *)
Spares(d) == d = lock.live

GcLooks(d) ==
  /\ gc.pc = "worktrees" /\ gc.item = NoDir /\ d \in gc.todo
  /\ gc' = [gc EXCEPT !.todo = @ \ {d}, !.item = IF Spares(d) THEN NoDir ELSE d]
  /\ UNCHANGED <<rows, pin, sent, dirs, lock, run, verifier, reconciler, counts>>

GcRemoves ==
  /\ gc.pc = "worktrees" /\ gc.item # NoDir
  /\ dirs' = dirs \ {gc.item} /\ gc' = [gc EXCEPT !.item = NoDir]
  /\ UNCHANGED <<rows, pin, sent, lock, run, verifier, reconciler, counts>>

(* Mutant: the branch is deleted as it is by now.                          *)
DeletesAnyway(j) == TRUE

(* git update-ref -d <branch> <recorded head>                              *)
ComparesAndDeletes(j) == tip[row[j].branch] = row[j].head

GcDeletes(j) ==
  /\ gc.pc = "worktrees" /\ gc.todo = {} /\ gc.item = NoDir /\ j \in gc.kept
  /\ tip' = IF ComparesAndDeletes(j) THEN [tip EXCEPT ![row[j].branch] = 0] ELSE tip
  /\ gc' = [gc EXCEPT !.kept = @ \ {j}]
  /\ UNCHANGED <<row, made, landed, tracking, pin, sent, dirs, lock, run, verifier, reconciler, counts>>

(* Mutant: only what is in flight keeps its pin.                           *)
KeepsInFlight == {"in_progress", "queued", "validated"}

(* _PIN_KEEP_STATUSES *)
Keeps == {"blocked", "needs_reconcile", "in_progress", "queued", "validated"}

(* sweep_pending_refs: the refs, then each one's row.                      *)
GcListsPins ==
  /\ gc.pc = "worktrees" /\ gc.todo = {} /\ gc.item = NoDir /\ gc.kept = {}
  /\ gc' = [gc EXCEPT !.pc = "pins", !.pins = pin]
  /\ UNCHANGED <<rows, pin, sent, dirs, lock, run, verifier, reconciler, counts>>

GcReadsPin(j) ==
  /\ gc.pc = "pins" /\ gc.item = NoDir /\ j \in gc.pins
  /\ gc' = [gc EXCEPT !.pins = @ \ {j}, !.item = IF row[j].status \in Keeps THEN NoDir ELSE j]
  /\ UNCHANGED <<rows, pin, sent, dirs, lock, run, verifier, reconciler, counts>>

GcUnpins ==
  /\ gc.pc = "pins" /\ gc.item # NoDir
  /\ pin' = pin \ {gc.item} /\ gc' = [gc EXCEPT !.item = NoDir]
  /\ UNCHANGED <<rows, sent, dirs, lock, run, verifier, reconciler, counts>>

GcEnds ==
  /\ gc.pc = "pins" /\ gc.pins = {} /\ gc.item = NoDir /\ gc' = Idle
  /\ UNCHANGED <<rows, pin, sent, dirs, lock, run, verifier, reconciler, counts>>

Init ==
  /\ row = <<>> /\ tip = [b \in Branch |-> 0] /\ made = tip /\ landed = tip /\ tracking = tip
  /\ pin = {} /\ sent = {} /\ dirs = {} /\ lock = NoLock /\ run = Idle
  /\ verifier = "none" /\ reconciler = Idle /\ gc = Idle
  /\ counts = [runs |-> 0, gcs |-> 0, verifies |-> 0]

Next ==
  \/ \E b \in Branch : Commit(b) \/ Enqueue(b)
  \/ Fetch \/ TakeOver \/ Enter \/ Mark \/ Pin \/ Finish \/ Park \/ Leave \/ Verify
  \/ \E lands \in BOOLEAN : PushOut(lands) \/ Die(lands) \/ ReconcileEnds(lands)
  \/ ReconcileSettles \/ GcReads \/ GcSnapshots \/ GcLists \/ GcRemoves \/ GcListsPins
  \/ GcUnpins \/ GcEnds
  \/ \E d \in Dirs : GcLooks(d)
  \/ \E j \in Ids : \/ Cancel(j) \/ ReconcileStarts(j) \/ GcChecks(j) \/ GcDeletes(j) \/ GcReadsPin(j)
                    \/ \E deploy \in BOOLEAN : Claim(j, deploy)

Spec == Init /\ [][Next]_vars

-----------------------------------------------------------------------------
Statuses == {"queued", "in_progress", "needs_reconcile", "deployed", "failed", "canceled"}

(* Types; the tracking ref is behind the remote; what is pushed has ended. *)
TypeOK ==
  /\ \A j \in Ids : /\ row[j].branch \in Branch /\ row[j].status \in Statuses
                    /\ row[j].pending => row[j].status \in {"in_progress", "needs_reconcile"}
                    /\ row[j].pushed => row[j].status = "deployed" /\ OnRemote(j)
  /\ pin \subseteq Ids /\ sent \subseteq Ids
  /\ dirs \subseteq Dirs
  /\ \A b \in Branch : tip[b] \in {0, made[b]} /\ tracking[b] <= landed[b] /\ landed[b] <= made[b]

(* gc removes no worktree from under a runner or a verify that is in it,   *)
(* though the runner may start, or change worktrees, after gc looked.      *)
WorktreeSpared ==
  /\ run.pc \in {"inside", "marked", "pinned", "pushed"} => run.dir \in dirs
  /\ verifier = "inside" => OfPid \in dirs

(* gc loses no commit: each is on its branch, or has landed, though the    *)
(* agent commits while gc decides.                                         *)
CommitsKept == \A b \in Branch : made[b] > landed[b] => tip[b] = made[b]

(* While the outcome of a push is not on record, a pin keeps its commit    *)
(* for reconcile, through crashes of the runner and of reconcile, and      *)
(* whatever gc sweeps meanwhile.                                           *)
PinnedUntilKnown ==
  \A j \in sent : row[j].status \in {"in_progress", "needs_reconcile"} => j \in pin

(* commands/recovery.py: "a runner that acquired the lock after the        *)
(* protect snapshot must still be spared".                                 *)
LateRunnerSpared == run.pc = "inside" => run.dir \in dirs
=============================================================================
