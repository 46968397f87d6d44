------------------------------- MODULE Runner ------------------------------
(***************************************************************************)
(* A runner process: it claims a train under a fresh lease, assembles and  *)
(* gates it, and either records it validated or pushes it behind a durable *)
(* marker and records what the push did.  Each step is one transaction,    *)
(* one Git effect or one check, in the order GitRunner.process_batch and   *)
(* AtomicPush make them, so that anything else may happen in between.      *)
(***************************************************************************)
EXTENDS Lease, Remote

CONSTANTS Daemon,     \* the processes that run a daemon; the others run commands
          Manual      \* the daemons that validate (the others deploy --auto jobs)

ASSUME DaemonAssumption == Daemon \subseteq Proc
ASSUME ManualAssumption == Manual \subseteq Daemon

VARIABLE run          \* what each process is doing

Mode == {"validate",  \* gate the queued jobs and record them validated
         "auto",      \* deploy the queued --auto jobs (daemon)
         "train"}     \* deploy one validated train (mergetrain deploy)
Working == {"assembling", "gated", "marked", "locked", "pulsed", "pushing",
            "rejected", "refused", "finishing"}
Asking  == {"asking", "probing", "reading", "applying"}  \* mergetrain reconcile
Pc      == {"idle", "leaving", "raising"} \union Working \union Asking

(* batch: the jobs of this process_batch frame; rest: the jobs linear      *)
(* isolation has not reached; sha: the commit being pushed, built on base; *)
(* plan: the status writes still to be made, one transaction each, in FIFO *)
(* order; stops: a result of the frame after which isolation does not go   *)
(* on.                                                                     *)
Planned   == (Status \ {"in_progress"}) \union {"none"}
Unplanned == [j \in Job |-> "none"]
Idle == [pc |-> "idle", tok |-> 0, mode |-> "validate", batch |-> {}, rest |-> {},
         sha |-> 0, base |-> 0, plan |-> Unplanned, stops |-> FALSE]

At(p, pc)    == life[p] = "up" /\ run[p].pc = pc
Mine(p)      == {j \in run[p].batch : Owned(job[j], run[p].tok)}
HasLease(p)  == Holds(p, run[p].tok)
ToWrite(p)   == {j \in Job : run[p].plan[j] # "none"}

(* push_in_flight: some process holds the push lock of s: the runner that  *)
(* took it, until it has started the push; then the push that inherited it.*)
PushInFlight(s) ==
  \/ wire[s] = "running"
  \/ \E p \in Proc : life[p] = "up" /\ run[p].sha = s
                     /\ run[p].pc \in {"locked", "pulsed"}

Goto(p, pc) == run' = [run EXCEPT ![p].pc = pc]
Plan(p, S, to, others) ==
  run' = [run EXCEPT ![p] = [@ EXCEPT !.pc = "finishing", !.sha = 0, !.base = 0,
                                      !.plan = [j \in Job |-> IF j \in S THEN to
                                                              ELSE IF j \in run[p].batch THEN others
                                                              ELSE "none"]]]
PlanAll(p, to) == Plan(p, run[p].batch, to, to)

storeVars == <<job, issued>>
quiet     == <<storeVars, leaseVars>>

-----------------------------------------------------------------------------
(* Claims.                                                                 *)

Begin(p, mode, rows, picked) ==
  /\ picked # {}
  /\ job' = [j \in Job |-> IF j \in picked THEN Claimed(rows[j], NextToken) ELSE rows[j]]
  /\ TakeLease(p)
  /\ run' = [run EXCEPT ![p] = [Idle EXCEPT !.pc = "assembling", !.tok = NextToken,
                                            !.mode = mode, !.batch = picked]]
  /\ UNCHANGED <<life, remoteVars>>

ClaimQueued(p) ==
  /\ p \notin Daemon /\ At(p, "idle") /\ CanAcquire
  /\ Begin(p, "validate", AcquiredRows, ValidatePick(AcquiredRows))

ClaimTrain(p) ==
  /\ p \notin Daemon /\ At(p, "idle") /\ CanAcquire
  /\ ~TrainRefused(AcquiredRows)
  /\ Begin(p, "train", AcquiredRows, TrainPick(AcquiredRows))

ClaimManual(p) ==
  /\ p \in Manual /\ At(p, "idle") /\ CanAcquire
  /\ Begin(p, "validate", AcquiredRows, ManualPick(AcquiredRows))

(* An approval goes stale when the destination or the execution policy is  *)
(* edited after enqueue.                                                   *)
StaleApprovals(rows) == IF "stale" \in Faults THEN SUBSET AutoQueued(rows) ELSE {{}}

(* Whether there is work at all is read before, and may be out of date by  *)
(* now, so it is no guard here.                                            *)
ClaimAuto(p) ==
  /\ p \in Daemon \ Manual /\ At(p, "idle") /\ CanAcquire
  /\ \E stale \in StaleApprovals(AcquiredRows) :
       Begin(p, "auto", ApprovalBlocked(AcquiredRows, stale), AutoPick(AcquiredRows, stale))

(* A claim that ends empty.                                                *)
ClaimNothing(p) ==
  /\ p \notin Daemon /\ At(p, "idle")
  /\ \/ ValidatePick(AcquiredRows) = {}
     \/ TrainPick(AcquiredRows) = {} /\ ~TrainRefused(AcquiredRows)
  /\ AcquireAndDrop
  /\ UNCHANGED <<run, remoteVars>>

BlockStale(p) ==
  /\ p \in Daemon \ Manual /\ At(p, "idle") /\ Takeover # "refuse"
  /\ \E stale \in StaleApprovals(AcquiredRows) :
       /\ AutoPick(AcquiredRows, stale) = {}
       /\ job' = ApprovalBlocked(AcquiredRows, stale)
  /\ lock' = NoLock /\ watch' = 0
  /\ UNCHANGED <<issued, life, run, remoteVars>>

(* daemon_tick, before it claims: pause while a reconcile is pending (or,  *)
(* when it validates, while validated jobs wait); drop the lease an        *)
(* earlier tick could not release; recover_orphans.                        *)
Paused(p) ==
  \/ ReconcilePending(job, ActiveToken)
  \/ p \in Manual /\ InStatus(job, "validated") # {}

(* Mutant: it clears its own lease only once that has expired.             *)
DaemonClearsOwnExpired(p) ==
  /\ p \in Daemon /\ At(p, "idle")
  /\ ~Paused(p)
  /\ lock.owner = p /\ lock.expired
  /\ ClearAndSplit(p, lock.token)
  /\ UNCHANGED <<issued, life, run, remoteVars>>

DaemonClearsOwn(p) ==
  /\ p \in Daemon /\ At(p, "idle")
  /\ ~Paused(p)
  /\ lock.owner = p
  /\ ClearAndSplit(p, lock.token)
  /\ UNCHANGED <<issued, life, run, remoteVars>>

RecoverOrphans(p) ==
  /\ p \in Daemon /\ At(p, "idle")
  /\ ~Paused(p)
  /\ AnyClaimed(job)
  /\ AcquireAndDrop
  /\ UNCHANGED <<run, remoteVars>>

-----------------------------------------------------------------------------
(* The heartbeat, and what it can find.                                    *)

CancelAsked(p) == \E j \in Job : Owned(job[j], run[p].tok) /\ job[j].cancel

(* Before the marker is recorded, a cancel takes its renewal back.         *)
Heartbeat(p) ==
  /\ life[p] = "up" /\ run[p].pc \in {"assembling", "gated", "pushing"}
  /\ HasLease(p) /\ (lock.expired \/ watch # 0)
  /\ CancelAsked(p) => run[p].pc = "pushing"
  /\ RenewLease
  /\ UNCHANGED <<storeVars, life, run, remoteVars>>

LoseLease(p) ==
  /\ life[p] = "up" /\ run[p].pc \in {"assembling", "gated", "locked", "pushing", "rejected", "refused"}
  /\ ~HasLease(p)
  /\ Goto(p, "raising")
  /\ UNCHANGED <<quiet, remoteVars>>

(* Until the marker is recorded, a cancel of any job of the claim stops    *)
(* the frame's jobs: at a heartbeat, or in record_pending_push itself.     *)
SeeCancel(p) ==
  /\ life[p] = "up" /\ run[p].pc \in {"assembling", "gated"}
  /\ HasLease(p)
  /\ CancelAsked(p)
  /\ PlanAll(p, "canceled")
  /\ UNCHANGED <<quiet, remoteVars>>

(* A queue write finds the database busy: nothing is written, and the run  *)
(* ends with its rows as they are.                                         *)
Contended(p) ==
  /\ "busy" \in Faults
  /\ life[p] = "up" /\ run[p].pc \in Working \ {"marked", "pulsed"}
  /\ Goto(p, "raising")
  /\ UNCHANGED <<quiet, remoteVars>>

-----------------------------------------------------------------------------
(* Assembling and gating.                                                  *)

FinishRow(p, j, to) ==
  job' = [job EXCEPT ![j] =
            LET as == FinishAs(@, to)
            IN  IF as = "validated"
                THEN MarkedValidated(@, run[p].tok, Cardinality(run[p].batch))
                ELSE Marked(@, as)]

(* A job that does not merge is blocked and left out; one that fails its   *)
(* gates, alone or as bisection finds, is failed, and the members of a     *)
(* semantic conflict are blocked; the others are gated again without them. *)
RejectJob(p, j, to) ==
  /\ At(p, "assembling") /\ run[p].mode # "train"
  /\ j \in Mine(p)
  /\ FinishRow(p, j, to)
  /\ run' = [run EXCEPT ![p] = [run[p] EXCEPT
                                !.batch = @ \ {j},
                                !.pc = IF run[p].batch = {j} THEN "finishing" ELSE @]]
  /\ UNCHANGED <<issued, leaseVars, remoteVars>>

(* Bisection that cannot tell falls back to one-job trains, in order.      *)
Isolate(p) ==
  /\ At(p, "assembling") /\ run[p].mode # "train"
  /\ \E j \in run[p].batch :
       /\ First(run[p].batch, j) /\ run[p].batch # {j}
       /\ run' = [run EXCEPT ![p] = [@ EXCEPT !.batch = {j}, !.rest = run[p].batch \ {j}]]
  /\ UNCHANGED <<quiet, remoteVars>>

(* The frame stops with an error, known (failed for a command, blocked for *)
(* a refusal) or not (failed): the jobs it merged get that status and the  *)
(* others go back to the queue.  A validated train stops whole.            *)
Stop(p, reached, to) ==
  /\ "stop" \in Faults
  /\ life[p] = "up" /\ run[p].pc \in {"assembling", "gated"}
  /\ reached \subseteq run[p].batch /\ reached # {}
  /\ \A i \in run[p].batch, j \in reached : i < j => i \in reached
  /\ run[p].pc = "gated" \/ run[p].mode = "train" => reached = run[p].batch
  /\ Plan(p, reached, to, "queued")
  /\ UNCHANGED <<quiet, remoteVars>>

(* The train is assembled on the integration ref and its gates pass.       *)
Assemble(p) ==
  /\ At(p, "assembling") /\ run[p].batch # {}
  /\ IF run[p].mode = "validate"
     THEN Goto(p, "gated") /\ UNCHANGED commit
     ELSE \E s \in Sha :
            /\ MayName(s, run[p].batch)
            /\ Build(s, run[p].batch)
            /\ run' = [run EXCEPT ![p] = [@ EXCEPT !.pc = "gated", !.sha = s,
                                                   !.base = tip]]
  /\ UNCHANGED <<quiet, wire, late, landed, onref, tip, moves>>

RecordTrain(p) ==
  /\ At(p, "gated") /\ run[p].mode = "validate"
  /\ PlanAll(p, "validated")
  /\ UNCHANGED <<quiet, remoteVars>>

(* An error between two writes of a train being recorded.                  *)
StopRecording(p) ==
  /\ "stop" \in Faults
  /\ At(p, "finishing") /\ \E j \in Job : run[p].plan[j] = "validated"
  /\ Plan(p, ToWrite(p), "failed", "none")
  /\ UNCHANGED <<quiet, remoteVars>>

-----------------------------------------------------------------------------
(* The push.                                                               *)

(* Mutants: the marker is not written before the push; it is written on    *)
(* the first row alone.                                                    *)
RecordNothing(p) ==
  /\ At(p, "gated") /\ run[p].mode # "validate"
  /\ Goto(p, "marked")
  /\ UNCHANGED <<quiet, remoteVars>>
RecordFirstOnly(p) ==
  /\ At(p, "gated") /\ run[p].mode # "validate"
  /\ job' = [j \in Job |-> IF First(run[p].batch, j) THEN [job[j] EXCEPT !.marker = run[p].sha]
                           ELSE job[j]]
  /\ Goto(p, "marked")
  /\ UNCHANGED <<issued, leaseVars, remoteVars>>

(* record_pending_push: all the rows, or none.                             *)
RecordPendingPush(p) ==
  /\ At(p, "gated") /\ run[p].mode # "validate"
  /\ Mine(p) = run[p].batch /\ \A j \in run[p].batch : ~job[j].cancel
  /\ job' = [j \in Job |-> IF j \in run[p].batch
                           THEN [job[j] EXCEPT !.marker = run[p].sha]
                           ELSE job[j]]
  /\ Goto(p, "marked")
  /\ UNCHANGED <<issued, leaseVars, remoteVars>>

(* A recovery pin or the push lock file cannot be made: not attempted.     *)
PinFails(p) ==
  /\ "stop" \in Faults
  /\ At(p, "marked")
  /\ PlanAll(p, "blocked")
  /\ UNCHANGED <<quiet, remoteVars>>

(* holding_push_lock: an earlier push of this commit may yet land.         *)
HoldPushLock(p) ==
  /\ At(p, "marked")
  /\ IF PushInFlight(run[p].sha) THEN PlanAll(p, "needs_reconcile") ELSE Goto(p, "locked")
  /\ UNCHANGED <<quiet, remoteVars>>

(* run_command pulses once before it starts the process: under the push    *)
(* lock, this is the last check of the lease.                              *)
PulseBeforePush(p) ==
  /\ At(p, "locked") /\ HasLease(p)
  /\ RenewLease
  /\ Goto(p, "pulsed")
  /\ UNCHANGED <<storeVars, life, remoteVars>>

StartPush(p) ==
  /\ At(p, "pulsed")
  /\ wire' = [wire EXCEPT ![run[p].sha] = "running"]
  /\ Goto(p, "pushing")
  /\ UNCHANGED <<quiet, commit, late, landed, onref, tip, moves>>

PushSucceeds(p) ==
  /\ At(p, "pushing") /\ wire[run[p].sha] = "landed"
  /\ PlanAll(p, "deployed")
  /\ UNCHANGED <<quiet, remoteVars>>

(* Mutant: a push that has not ended well is taken for refused.            *)
PushRefusedUnclearly(p) ==
  /\ At(p, "pushing") /\ wire[run[p].sha] \in {"refused", "running"}
  /\ Goto(p, "rejected")
  /\ UNCHANGED <<quiet, remoteVars>>

PushRefused(p) ==
  /\ At(p, "pushing") /\ wire[run[p].sha] = "refused"
  /\ Goto(p, "rejected")
  /\ UNCHANGED <<quiet, remoteVars>>

(* Mutant: a push whose reply is lost is taken for landed.                 *)
PushAmbiguousAsLanded(p) ==
  /\ At(p, "pushing") /\ (wire[run[p].sha] = "idle" \/ "timeout" \in Faults)
  /\ PlanAll(p, "deployed")
  /\ UNCHANGED <<quiet, remoteVars>>

(* A timeout, a dropped connection, a reply that is not a clear refusal.   *)
PushAmbiguous(p) ==
  /\ At(p, "pushing") /\ (wire[run[p].sha] = "idle" \/ "timeout" \in Faults)
  /\ PlanAll(p, "needs_reconcile")
  /\ UNCHANGED <<quiet, remoteVars>>

(* An error that is none of these, such as a full disk under the heartbeat *)
(* or the log, reaches the last except clause.                             *)
PushError(p) ==
  /\ "error" \in Faults
  /\ At(p, "pushing")
  /\ PlanAll(p, "failed")
  /\ UNCHANGED <<quiet, remoteVars>>

(* A definite refusal proves that nothing landed: the marker goes.         *)
ClearRejectedPush(p) ==
  /\ At(p, "rejected") /\ Mine(p) = run[p].batch
  /\ job' = [j \in Job |-> IF j \in run[p].batch THEN [job[j] EXCEPT !.marker = 0]
                           ELSE job[j]]
  /\ Goto(p, "refused")
  /\ UNCHANGED <<issued, leaseVars, remoteVars>>

(* integration_moved_to_contain: if the branch moved to contain every job  *)
(* meanwhile, an earlier push of them landed late, and they are requeued.  *)
JudgeRefusal(p) ==
  /\ At(p, "refused")
  /\ PlanAll(p, IF tip # run[p].base /\ MainContains(run[p].batch)
                THEN "queued" ELSE "blocked")
  /\ UNCHANGED <<quiet, remoteVars>>

-----------------------------------------------------------------------------
(* What isolation must not go on after, for FIFO: an unresolved push, or a *)
(* train validated.                                                        *)
Stopping(p) == IF run[p].mode = "validate" THEN "validated" ELSE "needs_reconcile"

(* Finishing, one job per transaction; a row the claim lost is left alone. *)
Finish(p) ==
  /\ At(p, "finishing")
  /\ \E j \in ToWrite(p) :
       /\ First(ToWrite(p), j)
       /\ IF Owned(job[j], run[p].tok)
          THEN /\ FinishRow(p, j, run[p].plan[j])
               /\ run' = [run EXCEPT ![p] = [run[p] EXCEPT
                                     !.plan[j] = "none",
                                     !.stops = @ \/ job'[j].status = Stopping(p)]]
          ELSE /\ UNCHANGED job
               /\ run' = [run EXCEPT ![p].plan[j] = "none"]
  /\ UNCHANGED <<issued, leaseVars, remoteVars>>

(* The frame is done.  Isolation goes on with the next job unless a result *)
(* of this one stops it: the rest goes back to the queue.                  *)
Done(p) ==
  /\ At(p, "finishing") /\ ToWrite(p) = {}
  /\ IF run[p].rest = {} THEN Goto(p, "leaving")
     ELSE IF run[p].stops
     THEN run' = [run EXCEPT ![p] = [@ EXCEPT !.batch = run[p].rest, !.rest = {},
                                              !.plan = [j \in Job |-> IF j \in run[p].rest THEN "queued"
                                                                                           ELSE "none"]]]
     ELSE \E j \in run[p].rest :
            /\ First(run[p].rest, j)
            /\ run' = [run EXCEPT ![p] = [run[p] EXCEPT !.pc = "assembling", !.batch = {j},
                                                        !.rest = @ \ {j}]]
  /\ UNCHANGED <<quiet, remoteVars>>

Leave(p) ==
  /\ At(p, "leaving")
  /\ ReleaseLease(p, run[p].tok)
  /\ run' = [run EXCEPT ![p] = Idle]
  /\ UNCHANGED <<storeVars, life, remoteVars>>

(* The run ended in an error: a daemon splits what it left; a command, or  *)
(* a daemon that finds the database busy again, only releases its lease    *)
(* and leaves the rows in progress.                                        *)
Raise(p) ==
  /\ At(p, "raising")
  /\ \/ p \in Daemon /\ ClearAndSplit(p, run[p].tok)
     \/ /\ p \notin Daemon \/ "busy" \in Faults
        /\ ReleaseLease(p, run[p].tok)
        /\ UNCHANGED job
  /\ run' = [run EXCEPT ![p] = Idle]
  /\ UNCHANGED <<issued, life, remoteVars>>

(* A daemon that cannot release its lease lives on with it.                *)
KeepLease(p) ==
  /\ "busy" \in Faults
  /\ p \in Daemon /\ life[p] = "up" /\ run[p].pc \in {"leaving", "raising"}
  /\ run' = [run EXCEPT ![p] = Idle]
  /\ UNCHANGED <<quiet, remoteVars>>

-----------------------------------------------------------------------------
RunnerStep(p) ==
  \/ Assemble(p) \/ RecordTrain(p) \/ Isolate(p) \/ SeeCancel(p) \/ LoseLease(p)
  \/ RecordPendingPush(p) \/ HoldPushLock(p) \/ PulseBeforePush(p) \/ StartPush(p)
  \/ PushSucceeds(p) \/ PushRefused(p) \/ PushAmbiguous(p) \/ ClearRejectedPush(p) \/ JudgeRefusal(p)
  \/ Finish(p) \/ Done(p) \/ Leave(p) \/ Raise(p)

RunnerFailure(p) ==
  \/ \E j \in Job, to \in {"blocked", "failed"} : RejectJob(p, j, to)
  \/ \E reached \in SUBSET run[p].batch, to \in {"blocked", "failed"} : Stop(p, reached, to)
  \/ StopRecording(p) \/ PinFails(p) \/ PushError(p) \/ Contended(p) \/ KeepLease(p)

RunnerClaim(p) ==
  \/ ClaimQueued(p) \/ ClaimTrain(p) \/ ClaimManual(p) \/ ClaimAuto(p)
  \/ ClaimNothing(p) \/ BlockStale(p) \/ DaemonClearsOwn(p) \/ RecoverOrphans(p)

RunnerNext(p) == RunnerClaim(p) \/ Heartbeat(p) \/ RunnerStep(p) \/ RunnerFailure(p)

Run == [pc : Pc, tok : Nat, mode : Mode, batch : SUBSET Job, rest : SUBSET Job,
        sha : {0} \union Sha, base : Nat, plan : [Job -> Planned], stops : BOOLEAN]

RunnerTypeOK == run \in [Proc -> Run]

RunnerInit == run = [p \in Proc |-> Idle]
=============================================================================
