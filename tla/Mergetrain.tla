----------------------------- MODULE Mergetrain ----------------------------
(***************************************************************************)
(* The whole queue: runners, daemons and reconciles on one machine sharing *)
(* one database and one remote, with the operator's commands on the rows,  *)
(* the crashes and stalls of the processes, and the remote's own steps.    *)
(***************************************************************************)
EXTENDS Reconcile

vars == <<storeVars, leaseVars, remoteVars, run, asked>>
processVars == <<run, asked>>

-----------------------------------------------------------------------------
(* The operator.                                                           *)

(* cancel: a request on every row of a running claim, the whole of a       *)
(* validated train, or the one row; an unresolved push refuses it.         *)
CancelJob(j) ==
  /\ "cancel" \in Faults
  /\ job' = [i \in Job |->
       IF /\ job[j].status = "in_progress"
          /\ job[i].status = "in_progress" /\ job[i].token = job[j].token
       THEN [job[i] EXCEPT !.cancel = TRUE]
       ELSE IF job[j].status = "validated" /\ i \in Members(job, job[j].train)
       THEN [job[i] EXCEPT !.status = "canceled"]
       ELSE IF /\ i = j /\ job[j].status \in {"queued", "blocked", "failed"}
               /\ ~IsReconcileConflict(job[j])
       THEN Marked(job[i], "canceled")
       ELSE job[i]]
  /\ UNCHANGED <<issued, leaseVars, remoteVars, processVars>>

(* dismiss and retry: an outcome that is not a reconcile conflict, unless  *)
(* an operator with recovery authority forces it.                          *)
Resolvable(j) ==
  /\ job[j].status \in {"blocked", "failed"}
  /\ ~IsReconcileConflict(job[j]) \/ "force" \in Faults

DismissJob(j) ==
  /\ "dismiss" \in Faults /\ Resolvable(j)
  /\ job' = [job EXCEPT ![j] = Marked(@, "canceled")]
  /\ UNCHANGED <<issued, leaseVars, remoteVars, processVars>>

(* The old attempt is canceled and a fresh one takes its position; it      *)
(* keeps the --auto approval only while that still matches.                *)
RetryJob(j) ==
  /\ "retry" \in Faults /\ Resolvable(j)
  /\ \E auto \in (IF "stale" \in Faults THEN {FALSE, job[j].auto} ELSE {job[j].auto}) :
       job' = [job EXCEPT ![j] = FreshRow(auto)]
  /\ UNCHANGED <<issued, leaseVars, remoteVars, processVars>>

OperatorNext ==
  \/ \E j \in Job : CancelJob(j) \/ DismissJob(j) \/ RetryJob(j)
  \/ (UnlockDead \/ UnlockWatch \/ UnlockForced) /\ UNCHANGED <<remoteVars, processVars>>

-----------------------------------------------------------------------------
(* The machine.                                                            *)

(* A lease outlives its TTL when its owner sleeps or hangs.  A reconcile   *)
(* renews nothing; that it ends within one TTL is an assumption, which the *)
(* "stall" fault drops.                                                    *)
Expire ==
  /\ "expire" \in Faults
  /\ Held /\ ~lock.expired
  /\ life[lock.owner] = "up" /\ run[lock.owner].pc \in Asking => "stall" \in Faults
  /\ lock' = [lock EXCEPT !.expired = TRUE]
  /\ UNCHANGED <<storeVars, life, watch, remoteVars, processVars>>

(* A process dies; a git push it started lives on.                         *)
Crash(p) ==
  /\ "crash" \in Faults
  /\ life[p] = "up" /\ (run[p].pc # "idle" \/ lock.owner = p)
  /\ life' = [life EXCEPT ![p] = "gone"]
  /\ run' = [run EXCEPT ![p] = Idle]
  /\ asked' = [asked EXCEPT ![p] = NotAsking]
  /\ UNCHANGED <<storeVars, lock, watch, remoteVars>>

ReusePid(p) ==
  /\ "reuse" \in Faults
  /\ life[p] = "gone" /\ lock.owner = p
  /\ life' = [life EXCEPT ![p] = "reused"]
  /\ UNCHANGED <<storeVars, lock, watch, remoteVars, processVars>>

(* A new process, under a PID no lease names.                              *)
Respawn(p) ==
  /\ life[p] # "up" /\ lock.owner # p
  /\ life' = [life EXCEPT ![p] = "up"]
  /\ UNCHANGED <<storeVars, lock, watch, remoteVars, processVars>>

MachineNext == Expire \/ \E p \in Proc : Crash(p) \/ ReusePid(p) \/ Respawn(p)

-----------------------------------------------------------------------------
Init == StoreInit /\ LeaseInit /\ RemoteInit /\ RunnerInit /\ ReconcileInit

ProcessNext(p) == (RunnerNext(p) /\ UNCHANGED asked) \/ ReconcileNext(p)

Next ==
  \/ \E p \in Proc : ProcessNext(p)
  \/ OperatorNext
  \/ MachineNext
  \/ RemoteNext /\ UNCHANGED <<storeVars, leaseVars, processVars>>

Spec == Init /\ [][Next]_vars

(* Every variable holds a value of the shape the tables, the lease, the    *)
(* remote and the processes can hold.                                      *)
TypeOK == StoreTypeOK /\ LeaseTypeOK /\ RemoteTypeOK /\ RunnerTypeOK /\ ReconcileTypeOK

-----------------------------------------------------------------------------
(* Safety.                                                                 *)

(* The rows in progress are one claim, and while a lease exists they are   *)
(* its owner's: no runner ever takes up work beside another's (claims.py,  *)
(* leases.py: the claim, the split and every release share a transaction   *)
(* with the lease they depend on).                                         *)
OneClaim ==
  \A i, j \in InStatus(job, "in_progress") :
    /\ job[i].token = job[j].token /\ job[i].token # 0
    /\ Held => job[i].token = lock.token

(* Write-ahead evidence: each job of a push that is under way or has       *)
(* landed still carries that push's marker, or is recorded deployed; no    *)
(* crash, cancel, steal or reconcile loses a landing.                      *)
PushIsOnRecord ==
  \A s \in Sha : wire[s] = "running" \/ s \in landed =>
    \A j \in commit[s].jobs : job[j].status = "deployed" \/ job[j].marker = s

(* A job is recorded deployed only if a commit containing it landed.       *)
DeployedLanded ==
  \A j \in InStatus(job, "deployed") : \E s \in landed : j \in commit[s].jobs

(* Two pushes of this queue are never under way at once: an unresolved     *)
(* push keeps every deploy path closed until it is settled.                *)
OnePush == \A s, t \in Sha : wire[s] = "running" /\ wire[t] = "running" => s = t

(* While a push is under way each of its jobs is open, with its marker:    *)
(* none of them is recorded failed, blocked or canceled, none is deployed  *)
(* yet and none goes back to the queue, whoever else writes to the rows.   *)
PushAwaited ==
  \A s \in Sha : wire[s] = "running" =>
    \A j \in commit[s].jobs :
      job[j].marker = s /\ job[j].status \in {"in_progress", "needs_reconcile"}

(* At most one validated train is complete, so deploy never has to choose. *)
SingleReady == \A t, u \in ReadyTrains(job) : t = u

(* A validated train lands whole: when one job of it is recorded deployed, *)
(* every other is too, or still carries the marker that will settle it.    *)
TrainWhole ==
  \A j \in InStatus(job, "deployed") :
    job[j].train # 0 =>
      Cardinality({i \in Job : /\ job[i].train = job[j].train
                               /\ job[i].status = "deployed" \/ job[i].marker # 0})
        = job[j].size

(* claim_deploy_batch and record_validated: whatever an operator does to   *)
(* single jobs, one train at most is Ready, and it lands whole.            *)
OneWholeTrain == SingleReady /\ TrainWhole

(* However the remote answers, what is recorded deployed did land, and     *)
(* what landed is recorded or still has its marker.                        *)
LandingsKept == DeployedLanded /\ PushIsOnRecord

(* The daemon's healing of orphans keeps the claim one, neither forgets a  *)
(* push nor repeats one beside it, and gives none up that is under way.    *)
HealedClaims == OneClaim /\ PushIsOnRecord /\ OnePush /\ PushAwaited

(* The push of s landed, is under way, or has passed its last check.  (A   *)
(* runner that lost its lease may still hold the push lock: its next step  *)
(* is the lease check.)                                                    *)
CanStillLand(s) ==
  \/ wire[s] = "running" \/ s \in landed
  \/ \E p \in Proc : At(p, "pulsed") /\ run[p].sha = s

(* A marker is given up without a deployment only when its push did not    *)
(* land and no longer can: no verdict, refusal, cancel or recovery forgets *)
(* a push that is still on its way.                                        *)
VerdictAfterPush ==
  [][\A j \in Job :
       job[j].marker # 0 /\ job'[j].marker # job[j].marker /\ job'[j].status # "deployed"
         => ~CanStillLand(job[j].marker)]_vars

(* A cancel request is never dropped: a row that carries one ends canceled *)
(* or deployed, or stays parked with the request.                          *)
CancelHonoured ==
  [][\A j \in Job :
       job[j].cancel /\ job'[j].status # job[j].status
         => \/ job'[j].status \in {"canceled", "deployed"}
            \/ job'[j].status \in {"needs_reconcile", "blocked"} /\ job'[j].cancel]_vars

(* In ordered processing a job lands only after every earlier one is       *)
(* deployed or canceled.                                                   *)
OrderedLanding ==
  [][Ordered => \A s \in landed' \ landed : \A j \in commit[s].jobs :
       \A i \in Job : i < j => job[i].status \in Terminal]_vars

(* Without a late landing, an error after a push, a reconcile that         *)
(* outlives its lease or a forced resolution, the queue implements the     *)
(* ledger: the marker is the open intent, the audit refs say what is live, *)
(* and every step of every process is a step of the ledger or changes      *)
(* nothing of it.                                                          *)
Promise == INSTANCE Ledger WITH
  Intent <- Sha,
  phase <- [j \in Job |-> IF job[j].status = "deployed" THEN "done"
                         ELSE IF job[j].marker # 0 THEN "open"
                         ELSE IF job[j].status = "canceled" THEN "withdrawn"
                         ELSE "waiting"],
  intent <- [j \in Job |-> IF job[j].status = "deployed" THEN 0 ELSE job[j].marker],
  live  <- UNION {commit[s].jobs : s \in landed}
KeepsLedger == Promise!Spec

-----------------------------------------------------------------------------
(* Progress.                                                               *)

(* A started process keeps running, and the supervisor that docs/daemon.md *)
(* asks for (cron, launchd, systemd) starts a daemon again and again.  No  *)
(* fairness is assumed of an operator, of a crash or of the remote.        *)
Fairness ==
  /\ \A p \in Proc : /\ WF_vars(RunnerStep(p) /\ UNCHANGED asked)
                     /\ WF_vars(ReconcileStep(p))
  /\ \A d \in Daemon : /\ WF_vars(RunnerClaim(d) /\ UNCHANGED asked)
                       /\ WF_vars(Respawn(d))
FairSpec == Spec /\ Fairness

(* A claim never strands its jobs: whatever happens to its runner, each    *)
(* leaves in_progress, or a push the queue cannot judge by itself is shown *)
(* as waiting for mergetrain reconcile.                                    *)
ClaimEnds ==
  \A j \in Job : job[j].status = "in_progress"
                  ~> \/ job[j].status # "in_progress"
                     \/ ReconcilePending(job, ActiveToken)

(* An approved job is not starved by other runs or by failures around it:  *)
(* it is taken up, unless the daemon pauses for mergetrain reconcile (or   *)
(* the instance runs out of claim tokens).                                 *)
AutoWorkStarts ==
  \A j \in Job : job[j].status = "queued" /\ job[j].auto
                  ~> \/ job[j].status # "queued"
                     \/ ReconcilePending(job, ActiveToken)
                     \/ issued = MaxToken

-----------------------------------------------------------------------------
(* What the documentation or a comment says and the code does not do.      *)

(* design.md: an alive owner is never stolen, even past TTL.               *)
AliveOwnerKeepsLease ==
  [][Held /\ life[lock.owner] = "up" => lock'.token \in {0, lock.token}]_vars

(* recovery.py, _apply: a decision is written only over the row it was     *)
(* made from, never resurrected over a newer one.                          *)
NoStaleDecision ==
  [][\A p \in Proc, j \in Job :
       At(p, "applying") /\ run[p].plan[j] # run'[p].plan[j] /\ job'[j] # job[j]
         => job[j] = asked[p].rows[j]]_vars

(* failure-modes.md: a push error after the marker is durable is never     *)
(* made terminal failed.                                                   *)
AmbiguousNeverFailed == \A j \in InStatus(job, "failed") : job[j].marker = 0
=============================================================================
