------------------------------- MODULE Store -------------------------------
(***************************************************************************)
(* The deploy_queue table: what a row carries, and what each status write  *)
(* does to it.  Every command and every runner changes the queue through   *)
(* one of the writes below, each inside one IMMEDIATE transaction, so each *)
(* is one step of the modules that extend this one.                        *)
(*                                                                         *)
(* A submission stands for a position of the queue: its number is its FIFO *)
(* rank, and "retry" puts a fresh row in its place.  Commits and claim     *)
(* tokens are numbered from 1; 0 is the empty string of the table.         *)
(***************************************************************************)
EXTENDS Naturals, FiniteSets

CONSTANTS Job,        \* the submissions
          AutoJob,    \* those enqueued with --auto
          Ordered     \* queue.processing = "ordered" (else "batch")

ASSUME JobAssumption == Job \subseteq Nat /\ IsFiniteSet(Job)
ASSUME AutoJobAssumption == AutoJob \subseteq Job
ASSUME OrderedAssumption == Ordered \in BOOLEAN

VARIABLES job,        \* the row of each submission
          issued      \* claim tokens issued so far: token n is the n-th uuid4

Active   == {"queued", "in_progress", "blocked", "failed", "validated", "needs_reconcile"}
Terminal == {"deployed", "canceled"}
Status   == Active \union Terminal

(* The columns the properties tell apart.  marker is pending_deploy_sha;   *)
(* train and size are train_id and train_size, a train being named by the  *)
(* claim token of the run that validated it (a claim validates at most     *)
(* one train).                                                             *)
Row == [status : Status, token : Nat, cancel : BOOLEAN, marker : Nat,
        train : Nat, size : Nat, auto : BOOLEAN]

FreshRow(auto) == [status |-> "queued", token |-> 0, cancel |-> FALSE, marker |-> 0,
                   train |-> 0, size |-> 0, auto |-> auto]

First(S, j) == j \in S /\ \A i \in S : j <= i

-----------------------------------------------------------------------------
(* The writes of one row.                                                  *)

(* Mutants of the definitions below, each what a slip in that code would   *)
(* do: an outcome that drops the cancel request; a requeue that keeps the  *)
(* marker.                                                                 *)
MarkedDroppingCancel(r, to) ==
  [r EXCEPT
     !.status = to,
     !.token  = IF to = "in_progress" THEN @ ELSE 0,
     !.cancel = @ /\ to \in {"in_progress", "canceled"},
     !.marker = IF to \in {"deployed", "canceled", "queued"} THEN 0 ELSE @,
     !.train  = IF to = "queued" THEN 0 ELSE @,
     !.size   = IF to = "queued" THEN 0 ELSE @]
MarkedKeepingMarker(r, to) ==
  [r EXCEPT
     !.status = to,
     !.token  = IF to = "in_progress" THEN @ ELSE 0,
     !.cancel = @ /\ to \in {"in_progress", "canceled", "needs_reconcile"},
     !.marker = IF to \in {"deployed", "canceled"} THEN 0 ELSE @]

(* mark_job: what the UPDATE does to the row for each target status.       *)
Marked(r, to) ==
  [r EXCEPT
     !.status = to,
     !.token  = IF to = "in_progress" THEN @ ELSE 0,
     !.cancel = @ /\ \/ to \in {"in_progress", "canceled", "needs_reconcile"}
                     \/ to = "blocked" /\ r.marker # 0,
     !.marker = IF to \in {"deployed", "canceled", "queued"} THEN 0 ELSE @,
     !.train  = IF to = "queued" THEN 0 ELSE @,
     !.size   = IF to = "queued" THEN 0 ELSE @]

MarkedValidated(r, train, size) ==
  [Marked(r, "validated") EXCEPT !.train = train, !.size = size]

(* A mark_job with expected_claim_token writes only the row its own claim  *)
(* still holds; and only a settled push overrides a cancel request.        *)
Owned(r, token) == r.status = "in_progress" /\ r.token = token /\ token # 0
Settles(to)     == to \in {"canceled", "deployed", "needs_reconcile"}

(* Mutant: a cancel request overrides even a push that landed.             *)
FinishAsAlwaysCanceled(r, to) == IF r.cancel THEN "canceled" ELSE to

(* GitRunner._finish_job: a write refused for a cancel request is written  *)
(* again as canceled.                                                      *)
FinishAs(r, to) == IF r.cancel /\ ~Settles(to) THEN "canceled" ELSE to

Claimed(r, token) ==
  [r EXCEPT !.status = "in_progress", !.token = token, !.cancel = FALSE]

(* Mutants: a status the table does not have; a split that ignores the     *)
(* marker; one that returns a pushed row to its train; one that looks at   *)
(* the cancel request before the marker; one that ignores the request.     *)
OrphanedMisspelt(r) ==
  IF r.status # "in_progress" THEN r ELSE [r EXCEPT !.status = "orphaned", !.token = 0]
OrphanedIgnoringMarker(r) ==
  IF r.status # "in_progress" THEN r
  ELSE [r EXCEPT !.status = "queued", !.token = 0, !.marker = 0, !.train = 0, !.size = 0]
OrphanedToTrain(r) ==
  IF r.status # "in_progress" THEN r
  ELSE [r EXCEPT !.status = IF r.train # 0 THEN "validated" ELSE "queued", !.token = 0]
OrphanedCancelFirst(r) ==
  IF r.status # "in_progress" THEN r
  ELSE IF r.cancel THEN [r EXCEPT !.status = "canceled", !.token = 0, !.marker = 0]
  ELSE IF r.marker # 0 THEN [r EXCEPT !.status = "needs_reconcile", !.token = 0]
  ELSE [r EXCEPT !.status = "queued", !.token = 0, !.train = 0, !.size = 0]
OrphanedIgnoringCancel(r) ==
  IF r.status # "in_progress" THEN r
  ELSE IF r.marker # 0 THEN [r EXCEPT !.status = "needs_reconcile", !.token = 0]
  ELSE [r EXCEPT !.status = "queued", !.token = 0, !.cancel = FALSE, !.train = 0, !.size = 0]

(* _requeue_orphans, one row: nothing was pushed and a cancel is pending;  *)
(* a push may have landed; or a clean orphan.                              *)
Orphaned(r) ==
  IF r.status # "in_progress" THEN r
  ELSE IF r.marker # 0 THEN [r EXCEPT !.status = "needs_reconcile", !.token = 0]
  ELSE IF r.cancel THEN [r EXCEPT !.status = "canceled", !.token = 0]
  ELSE [r EXCEPT !.status = "queued", !.token = 0, !.train = 0, !.size = 0]

Split(rows) == [j \in Job |-> Orphaned(rows[j])]

-----------------------------------------------------------------------------
(* What the claims and the recovery commands read.                         *)

InStatus(rows, s) == {j \in Job : rows[j].status = s}
AnyClaimed(rows)  == InStatus(rows, "in_progress") # {}

IsReconcileConflict(r) == r.status = "blocked" /\ r.marker # 0

(* Mutant: only the claims of dead runners count, not the parked jobs.     *)
ReconcilePendingOnlyClaims(rows, active) ==
  \E j \in Job : /\ rows[j].status = "in_progress" /\ rows[j].marker # 0
                 /\ active = 0 \/ rows[j].token # active

(* deploy_reconcile_pending: parked jobs, and claims that carry a marker   *)
(* but do not belong to the active runner (token 0 when there is none).    *)
ReconcilePending(rows, active) ==
  \E j \in Job : \/ rows[j].status = "needs_reconcile"
                 \/ /\ rows[j].status = "in_progress"
                    /\ rows[j].marker # 0
                    /\ active = 0 \/ rows[j].token # active

(* Mutant: failed and blocked jobs do not hold the queue back.             *)
IsHeadOfQueued(rows, j) ==
  First({i \in Job : rows[i].status \in Active \ {"failed", "blocked"}}, j)

IsHead(rows, j) == First({i \in Job : rows[i].status \in Active}, j)

Members(rows, t) == {j \in InStatus(rows, "validated") : rows[j].train = t}

(* Mutant: a train need not be all there to be deployed.                   *)
CompleteInPart(rows, t) == t # 0 /\ Members(rows, t) # {}

(* validated_train_summaries: deploy_eligible.                             *)
Complete(rows, t) ==
  /\ t # 0
  /\ Members(rows, t) # {}
  /\ \A j \in Members(rows, t) : rows[j].size = Cardinality(Members(rows, t))

ReadyTrains(rows) ==
  {t \in {rows[j].train : j \in InStatus(rows, "validated")} : Complete(rows, t)}

-----------------------------------------------------------------------------
(* Which jobs a claim takes, given the rows as they stand once the runner  *)
(* lock is held; {} when it claims nothing and drops the lock again.       *)

OrderedHeadOnly(rows, S) == IF Ordered THEN {j \in S : IsHead(rows, j)} ELSE S

(* Mutant: validates although a train is Ready.                            *)
ValidatePickBesideReady(rows) ==
  IF Ordered /\ ReconcilePending(rows, 0) THEN {}
  ELSE OrderedHeadOnly(rows, InStatus(rows, "queued"))

(* claim_all_queued(unless_ready=True): mergetrain validate.               *)
ValidatePick(rows) ==
  IF (Ordered /\ ReconcilePending(rows, 0)) \/ ReadyTrains(rows) # {} THEN {}
  ELSE OrderedHeadOnly(rows, InStatus(rows, "queued"))

(* claim_all_queued(manual_only=True): the validation daemon.              *)
ManualPick(rows) ==
  IF ReconcilePending(rows, 0) \/ InStatus(rows, "validated") # {} THEN {}
  ELSE OrderedHeadOnly(rows, {j \in InStatus(rows, "queued") : ~rows[j].auto})

(* claim_all_queued(auto_only=True): the auto-deploy daemon.  The jobs of  *)
(* stale carry an approval that no longer matches: they are blocked, in    *)
(* ordered processing only when the head is one of them.                   *)
AutoQueued(rows) == {j \in InStatus(rows, "queued") : rows[j].auto}

(* Mutant: a validated train stops the auto-deploy daemon as well.         *)
AutoPickUnlessValidated(rows, stale) ==
  IF ReconcilePending(rows, 0) \/ InStatus(rows, "validated") # {} THEN {}
  ELSE OrderedHeadOnly(rows, AutoQueued(rows)) \ stale

AutoPick(rows, stale) ==
  IF ReconcilePending(rows, 0) THEN {}
  ELSE OrderedHeadOnly(rows, AutoQueued(rows)) \ stale
ApprovalBlocked(rows, stale) ==
  [j \in Job |->
     IF ~ReconcilePending(rows, 0) /\ j \in stale \intersect OrderedHeadOnly(rows, AutoQueued(rows))
     THEN [rows[j] EXCEPT !.status = "blocked"]
     ELSE rows[j]]

(* claim_deploy_batch, as mergetrain deploy calls it: with the plan the    *)
(* operator confirmed, so only the one Ready train is ever claimed.  The   *)
(* transaction is refused, and rolled back, when there is not exactly one, *)
(* and, in ordered processing, when that train is not exactly the head.    *)
TrainPick(rows) ==
  IF ReconcilePending(rows, 0) THEN {}
  ELSE {j \in InStatus(rows, "validated") : rows[j].train \in ReadyTrains(rows)}
TrainRefused(rows) ==
  /\ ~ReconcilePending(rows, 0)
  /\ \/ Cardinality(ReadyTrains(rows)) # 1
     \/ Ordered /\ ~(\E j \in Job : TrainPick(rows) = {j} /\ IsHead(rows, j))

-----------------------------------------------------------------------------
StoreTypeOK == job \in [Job -> Row] /\ issued \in Nat

StoreInit == job = [j \in Job |-> FreshRow(j \in AutoJob)] /\ issued = 0
=============================================================================
