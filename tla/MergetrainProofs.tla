-------------------------- MODULE MergetrainProofs --------------------------
(***************************************************************************)
(* Theorems of Mergetrain, for every set of submissions, processes and     *)
(* refs, in the order in which they rest on one another: types and claims, *)
(* the remote, the record, the ledger, the trains.                         *)
(*                                                                         *)
(* That every variable keeps its type and that the rows in progress are    *)
(* the claim of one runner are inductive together.  A step either leaves   *)
(* the rows in progress a subset of what they were, with the tokens they   *)
(* had and no new lease, or it takes a lease and finds, or makes, no row   *)
(* in progress.  First what the row writes of Store and the transactions   *)
(* of Lease keep.                                                          *)
(***************************************************************************)
EXTENDS Mergetrain, FiniteSetTheorems, TLAPS

Inv == TypeOK /\ OneClaim

-----------------------------------------------------------------------------
(* Rows.                                                                   *)

LEMMA FreshRowType ==
  ASSUME NEW auto \in BOOLEAN
  PROVE  FreshRow(auto) \in Row /\ FreshRow(auto).status = "queued"
  BY DEF FreshRow, Row, Status, Active, Terminal

(* mark_job writes the status it is given and, short of in_progress, drops *)
(* the claim.                                                              *)
LEMMA MarkedType ==
  ASSUME NEW r \in Row, NEW to \in Status
  PROVE  Marked(r, to) \in Row /\ Marked(r, to).status = to
  BY DEF Marked, Row

LEMMA MarkedValidatedType ==
  ASSUME NEW r \in Row, NEW train \in Nat, NEW size \in Nat
  PROVE  MarkedValidated(r, train, size) \in Row
           /\ MarkedValidated(r, train, size).status = "validated"
  <1>1. "validated" \in Status
    BY DEF Status, Active
  <1>2. Marked(r, "validated") \in Row /\ Marked(r, "validated").status = "validated"
    BY <1>1, MarkedType
  <1> QED BY <1>2 DEF MarkedValidated, Row

LEMMA ClaimedType ==
  ASSUME NEW r \in Row, NEW token \in Nat
  PROVE  Claimed(r, token) \in Row /\ Claimed(r, token).token = token
  BY DEF Claimed, Row, Status, Active

LEMMA OrphanedType ==
  ASSUME NEW r \in Row
  PROVE  Orphaned(r) \in Row /\ Orphaned(r).status # "in_progress"
  BY DEF Orphaned, Row, Status, Active, Terminal

(* _requeue_orphans leaves no claim behind.                                *)
LEMMA SplitClears ==
  ASSUME NEW rows \in [Job -> Row]
  PROVE  Split(rows) \in [Job -> Row] /\ ~AnyClaimed(Split(rows))
  BY OrphanedType DEF Split, AnyClaimed, InStatus

(* No claim is ever taken beside another: the acquiring transaction is     *)
(* refused, or leaves no row in progress.                                  *)
LEMMA AcquireClears ==
  ASSUME job \in [Job -> Row], Takeover # "refuse"
  PROVE  AcquiredRows \in [Job -> Row] /\ ~AnyClaimed(AcquiredRows)
  BY SplitClears DEF AcquiredRows, Takeover

-----------------------------------------------------------------------------
(* Leases.                                                                 *)

LEMMA TakeLeaseType ==
  ASSUME LeaseTypeOK, issued \in Nat, NEW p \in Proc, TakeLease(p), UNCHANGED life
  PROVE  LeaseTypeOK' /\ issued' \in Nat /\ issued' # 0 /\ lock'.token = issued'
  BY DEF LeaseTypeOK, TakeLease, LeaseOf, NextToken, Owner

LEMMA RenewLeaseType ==
  ASSUME LeaseTypeOK, RenewLease, UNCHANGED life
  PROVE  LeaseTypeOK' /\ lock'.token = lock.token
  BY DEF LeaseTypeOK, RenewLease, Owner

LEMMA ReleaseLeaseType ==
  ASSUME LeaseTypeOK, NEW p, NEW t, ReleaseLease(p, t), UNCHANGED life
  PROVE  LeaseTypeOK' /\ lock'.token \in {0, lock.token}
  BY DEF LeaseTypeOK, ReleaseLease, NoLock, Owner

(* A lease goes either untouched or together with every claim.             *)
LEMMA ClearAndSplitType ==
  ASSUME LeaseTypeOK, job \in [Job -> Row], NEW p, NEW t,
         ClearAndSplit(p, t), UNCHANGED life
  PROVE  /\ LeaseTypeOK' /\ job' \in [Job -> Row]
         /\ ~AnyClaimed(job)' \/ UNCHANGED <<job, lock>>
  BY ReleaseLeaseType, SplitClears DEF ClearAndSplit, ReleaseLease, AnyClaimed, InStatus

LEMMA AcquireAndDropType ==
  ASSUME LeaseTypeOK, StoreTypeOK, AcquireAndDrop
  PROVE  LeaseTypeOK' /\ StoreTypeOK' /\ ~AnyClaimed(job)'
  BY AcquireClears
  DEF AcquireAndDrop, LeaseTypeOK, StoreTypeOK, NoLock, Owner, AnyClaimed, InStatus

-----------------------------------------------------------------------------
(* What keeps OneClaim.                                                    *)

LEMMA NothingClaimed ==
  ASSUME ~AnyClaimed(job)'
  PROVE  OneClaim'
  BY DEF OneClaim, AnyClaimed, InStatus

LEMMA ClaimsOnlyEnd ==
  ASSUME OneClaim,
         \A j \in Job : job'[j].status = "in_progress"
                          => job[j].status = "in_progress" /\ job'[j].token = job[j].token,
         lock'.token \in {0, lock.token}
  PROVE  OneClaim'
  BY DEF OneClaim, InStatus, Held

LEMMA ClaimTaken ==
  ASSUME TypeOK,
         NEW rows \in [Job -> Row], ~AnyClaimed(rows),
         NEW S, job' = [j \in Job |-> IF j \in S THEN Claimed(rows[j], NextToken) ELSE rows[j]],
         lock'.token = NextToken
  PROVE  OneClaim' /\ job' \in [Job -> Row]
  <1>1. NextToken \in Nat /\ NextToken # 0
    BY DEF TypeOK, StoreTypeOK, NextToken
  <1>2. job' \in [Job -> Row]
    BY <1>1, ClaimedType
  <1>3. ASSUME NEW j \in Job, job'[j].status = "in_progress" PROVE job'[j].token = NextToken
    BY <1>1, <1>3, ClaimedType DEF AnyClaimed, InStatus
  <1> QED BY <1>1, <1>2, <1>3 DEF OneClaim, InStatus

-----------------------------------------------------------------------------
(* What keeps the processes' local state well typed.                       *)

LEMMA IdleType ==
  ASSUME NEW tok \in Nat, NEW pc \in Pc
  PROVE  \A mode \in Mode, S \in SUBSET Job :
           [Idle EXCEPT !.pc = pc, !.tok = tok, !.mode = mode, !.batch = S]
             \in Run
  BY DEF Idle, Unplanned, Planned, Mode, Run

LEMMA GotoType ==
  ASSUME RunnerTypeOK, NEW p \in Proc, NEW pc \in Pc, Goto(p, pc)
  PROVE  RunnerTypeOK'
  BY DEF RunnerTypeOK, Goto, Run

LEMMA PlanType ==
  ASSUME RunnerTypeOK, NEW p \in Proc, NEW S, NEW to \in Planned, NEW others \in Planned,
         Plan(p, S, to, others)
  PROVE  RunnerTypeOK'
  <1> DEFINE plan == [j \in Job |-> IF j \in S THEN to
                                  ELSE IF j \in run[p].batch THEN others ELSE "none"]
             r == run[p]
  <1>1. "finishing" \in Pc /\ plan \in [Job -> Planned]
    BY DEF Pc, Working, Planned
  <1>2. run' = [run EXCEPT ![p] = [r EXCEPT !.pc = "finishing", !.sha = 0, !.base = 0,
                                            !.plan = plan]]
    BY DEF RunnerTypeOK, Run, Plan
  <1>3. [r EXCEPT !.pc = "finishing", !.sha = 0, !.base = 0, !.plan = plan]
          \in Run
    <2> HIDE DEF plan
    <2> QED BY <1>1 DEF RunnerTypeOK, Run
  <1> HIDE DEF plan
  <1> QED BY <1>2, <1>3 DEF RunnerTypeOK

(* A step that changes only what a process is doing.                       *)
LEMMA LocalStep ==
  ASSUME Inv, RunnerTypeOK', UNCHANGED <<quiet, remoteVars, asked>>
  PROVE  Inv'
  BY DEF Inv, TypeOK, OneClaim, quiet, storeVars, leaseVars, remoteVars, StoreTypeOK,
         LeaseTypeOK, RemoteTypeOK, ReconcileTypeOK, InStatus, Held
-----------------------------------------------------------------------------
(* Initially nothing is claimed.                                           *)

LEMMA NotAskingType == NotAsking \in Question
  BY FreshRowType DEF NotAsking, NothingHeard, Question

LEMMA InitInv == Init => Inv
  <1> SUFFICES ASSUME Init PROVE Inv
    OBVIOUS
  <1>1. StoreTypeOK /\ ~AnyClaimed(job)
    <2>1. \A j \in Job : (j \in AutoJob) \in BOOLEAN
      OBVIOUS
    <2> QED BY <2>1, FreshRowType
            DEF Init, StoreInit, StoreTypeOK, AnyClaimed, InStatus
  <1>2. LeaseTypeOK
    BY DEF Init, LeaseInit, LeaseTypeOK, NoLock, Owner, Life
  <1>3. RemoteTypeOK
    BY DEF Init, RemoteInit, RemoteTypeOK, NoCommit, Wire
  <1>4. Idle \in Run
    BY DEF Idle, Unplanned, Planned, Mode, Pc, Run
  <1>5. RunnerTypeOK
    BY <1>4 DEF Init, RunnerInit, RunnerTypeOK
  <1>6. ReconcileTypeOK
    BY NotAskingType DEF Init, ReconcileInit, ReconcileTypeOK
  <1>7. OneClaim
    BY <1>1 DEF OneClaim, AnyClaimed, InStatus
  <1> QED BY <1>1, <1>2, <1>3, <1>5, <1>6, <1>7 DEF Inv, TypeOK

-----------------------------------------------------------------------------
(* The claims of a runner.                                                 *)

LEMMA BeginInv ==
  ASSUME Inv, NEW p \in Proc, NEW mode \in Mode, NEW rows \in [Job -> Row],
         ~AnyClaimed(rows), NEW picked \in SUBSET Job,
         Begin(p, mode, rows, picked), UNCHANGED asked
  PROVE  Inv'
  <1>1. OneClaim' /\ job' \in [Job -> Row]
    BY ClaimTaken DEF Inv, Begin, TakeLease, LeaseOf
  <1>2. LeaseTypeOK' /\ issued' \in Nat
    BY TakeLeaseType DEF Inv, TypeOK, StoreTypeOK, Begin
  <1>3. [Idle EXCEPT !.pc = "assembling", !.tok = NextToken, !.mode = mode, !.batch = picked]
          \in Run
    <2>1. NextToken \in Nat /\ "assembling" \in Pc
      BY DEF Inv, TypeOK, StoreTypeOK, NextToken, Pc, Working
    <2> QED BY <2>1, IdleType
  <1>4. RunnerTypeOK'
    BY <1>3 DEF Inv, TypeOK, RunnerTypeOK, Begin
  <1>5. RemoteTypeOK' /\ ReconcileTypeOK'
    BY DEF Inv, TypeOK, Begin, remoteVars, RemoteTypeOK, ReconcileTypeOK
  <1> QED BY <1>1, <1>2, <1>4, <1>5 DEF Inv, TypeOK, StoreTypeOK

LEMMA ApprovalBlockedType ==
  ASSUME NEW rows \in [Job -> Row], ~AnyClaimed(rows), NEW stale
  PROVE  /\ ApprovalBlocked(rows, stale) \in [Job -> Row]
         /\ ~AnyClaimed(ApprovalBlocked(rows, stale))
  <1> DEFINE new == ApprovalBlocked(rows, stale)
  <1>1. ASSUME NEW j \in Job PROVE new[j] \in Row /\ new[j].status # "in_progress"
    <2>1. new[j] = rows[j] \/ new[j] = [rows[j] EXCEPT !.status = "blocked"]
      BY DEF ApprovalBlocked
    <2>2. rows[j].status # "in_progress"
      BY DEF AnyClaimed, InStatus
    <2> QED BY <2>1, <2>2 DEF Row, Status, Active
  <1>2. new = [j \in Job |-> new[j]]
    BY DEF ApprovalBlocked
  <1>3. new \in [Job -> Row] /\ ~AnyClaimed(new)
    <2> HIDE DEF new
    <2> QED BY <1>1, <1>2 DEF AnyClaimed, InStatus
  <1> QED BY <1>3

LEMMA ClaimInv ==
  ASSUME Inv, NEW p \in Proc, RunnerClaim(p), UNCHANGED asked
  PROVE  Inv'
  <1> USE DEF Inv, TypeOK
  <1>1. Takeover # "refuse" => AcquiredRows \in [Job -> Row] /\ ~AnyClaimed(AcquiredRows)
    BY AcquireClears DEF StoreTypeOK
  <1>2. CASE ClaimQueued(p)
    <2>1. ValidatePick(AcquiredRows) \in SUBSET Job /\ "validate" \in Mode
      BY DEF ValidatePick, OrderedHeadOnly, InStatus, Mode
    <2> QED BY <1>1, <1>2, <2>1, BeginInv DEF ClaimQueued, CanAcquire
  <1>3. CASE ClaimTrain(p)
    <2>1. TrainPick(AcquiredRows) \in SUBSET Job /\ "train" \in Mode
      BY DEF TrainPick, InStatus, Mode
    <2> QED BY <1>1, <1>3, <2>1, BeginInv DEF ClaimTrain, CanAcquire
  <1>4. CASE ClaimManual(p)
    <2>1. ManualPick(AcquiredRows) \in SUBSET Job /\ "validate" \in Mode
      BY DEF ManualPick, OrderedHeadOnly, InStatus, Mode
    <2> QED BY <1>1, <1>4, <2>1, BeginInv DEF ClaimManual, CanAcquire
  <1>5. CASE ClaimAuto(p)
    <2>1. PICK stale \in StaleApprovals(AcquiredRows) :
            Begin(p, "auto", ApprovalBlocked(AcquiredRows, stale),
                  AutoPick(AcquiredRows, stale))
      BY <1>5 DEF ClaimAuto
    <2>2. AutoPick(AcquiredRows, stale) \in SUBSET Job /\ "auto" \in Mode
      BY DEF AutoPick, AutoQueued, OrderedHeadOnly, InStatus, Mode
    <2>3. /\ ApprovalBlocked(AcquiredRows, stale) \in [Job -> Row]
          /\ ~AnyClaimed(ApprovalBlocked(AcquiredRows, stale))
      BY <1>1, <1>5, ApprovalBlockedType DEF ClaimAuto, CanAcquire
    <2> QED BY <2>1, <2>2, <2>3, BeginInv
  <1>6. CASE ClaimNothing(p) \/ RecoverOrphans(p)
    <2>1. LeaseTypeOK' /\ StoreTypeOK' /\ OneClaim'
      BY <1>6, AcquireAndDropType, NothingClaimed DEF ClaimNothing, RecoverOrphans
    <2> QED BY <1>6, <2>1 DEF ClaimNothing, RecoverOrphans, remoteVars, RemoteTypeOK,
                              RunnerTypeOK, ReconcileTypeOK
  <1>7. CASE BlockStale(p)
    <2>1. job' \in [Job -> Row] /\ ~AnyClaimed(job)'
      BY <1>1, <1>7, ApprovalBlockedType DEF BlockStale, AnyClaimed, InStatus
    <2>2. LeaseTypeOK'
      BY <1>7 DEF BlockStale, LeaseTypeOK, NoLock, Owner
    <2> QED BY <1>7, <2>1, <2>2, NothingClaimed
            DEF BlockStale, StoreTypeOK, remoteVars, RemoteTypeOK, RunnerTypeOK,
                ReconcileTypeOK
  <1>8. CASE DaemonClearsOwn(p)
    <2>1. LeaseTypeOK' /\ job' \in [Job -> Row] /\ (~AnyClaimed(job)' \/ UNCHANGED <<job, lock>>)
      BY <1>8, ClearAndSplitType DEF DaemonClearsOwn, StoreTypeOK
    <2>2. OneClaim'
      BY <2>1, NothingClaimed, ClaimsOnlyEnd
    <2> QED BY <1>8, <2>1, <2>2 DEF DaemonClearsOwn, StoreTypeOK, remoteVars, RemoteTypeOK,
                                    RunnerTypeOK, ReconcileTypeOK
  <1> QED BY <1>2, <1>3, <1>4, <1>5, <1>6, <1>7, <1>8 DEF RunnerClaim
-----------------------------------------------------------------------------
(* The steps of a run.                                                     *)

(* A write of _finish_job.                                                 *)
LEMMA FinishRowType ==
  ASSUME Inv, NEW p \in Proc, NEW j \in Job, NEW to \in Status \ {"in_progress"},
         FinishRow(p, j, to)
  PROVE  /\ job' \in [Job -> Row]
         /\ \A i \in Job : job'[i].status = "in_progress" => job'[i] = job[i]
  <1> DEFINE as == FinishAs(job[j], to)
             new == IF as = "validated"
                    THEN MarkedValidated(job[j], run[p].tok, Cardinality(run[p].batch))
                    ELSE Marked(job[j], as)
  <1>1. job \in [Job -> Row] /\ run[p].tok \in Nat /\ run[p].batch \subseteq Job
    BY DEF Inv, TypeOK, StoreTypeOK, RunnerTypeOK, Run
  <1>2. Cardinality(run[p].batch) \in Nat
    BY <1>1, JobAssumption, FS_Subset, FS_CardinalityType
  <1>3. as \in Status \ {"in_progress"}
    BY DEF FinishAs, Status, Terminal
  <1>4. new \in Row /\ new.status # "in_progress"
    <2> HIDE DEF as
    <2> QED BY <1>1, <1>2, <1>3, MarkedType, MarkedValidatedType
  <1>5. job' = [job EXCEPT ![j] = new]
    BY DEF FinishRow
  <1> HIDE DEF new
  <1> QED BY <1>1, <1>4, <1>5

(* A step that only ends claims and moves its process on.                  *)
LEMMA RowStep ==
  ASSUME Inv, RunnerTypeOK', job' \in [Job -> Row],
         \A i \in Job : job'[i].status = "in_progress"
                          => job[i].status = "in_progress" /\ job'[i].token = job[i].token,
         UNCHANGED <<issued, leaseVars, remoteVars, asked>>
  PROVE  Inv'
  <1>1. OneClaim'
    BY ClaimsOnlyEnd DEF Inv, leaseVars
  <1> QED BY <1>1 DEF Inv, TypeOK, leaseVars, remoteVars, StoreTypeOK, LeaseTypeOK,
                      RemoteTypeOK, ReconcileTypeOK

LEMMA PlanAllStep ==
  ASSUME Inv, NEW p \in Proc, NEW to \in Planned, PlanAll(p, to),
         UNCHANGED <<quiet, remoteVars, asked>>
  PROVE  Inv'
  BY PlanType, LocalStep DEF PlanAll, Inv, TypeOK

LEMMA GotoStep ==
  ASSUME Inv, NEW p \in Proc, NEW pc \in Pc, Goto(p, pc),
         UNCHANGED <<quiet, remoteVars, asked>>
  PROVE  Inv'
  BY GotoType, LocalStep DEF Inv, TypeOK

LEMMA AssembleInv ==
  ASSUME Inv, NEW p \in Proc, Assemble(p), UNCHANGED asked
  PROVE  Inv'
  <1>1. "gated" \in Pc
    BY DEF Pc, Working
  <1>2. CASE run[p].mode = "validate"
    BY <1>1, <1>2, GotoStep DEF Assemble, remoteVars
  <1>3. CASE run[p].mode # "validate"
    <2>1. PICK s \in Sha :
            /\ Build(s, run[p].batch)
            /\ run' = [run EXCEPT ![p] = [@ EXCEPT !.pc = "gated", !.sha = s, !.base = tip]]
      BY <1>3 DEF Assemble
    <2>2. RunnerTypeOK'
      <3>1. [run[p] EXCEPT !.pc = "gated", !.sha = s, !.base = tip] \in Run
        BY <1>1 DEF Inv, TypeOK, RunnerTypeOK, Run, RemoteTypeOK
      <3>2. run' = [run EXCEPT ![p] = [run[p] EXCEPT !.pc = "gated", !.sha = s, !.base = tip]]
        BY <2>1 DEF Inv, TypeOK, RunnerTypeOK, Run
      <3> QED BY <3>1, <3>2 DEF Inv, TypeOK, RunnerTypeOK
    <2>3. commit' \in [Sha -> [jobs : SUBSET Job, base : Nat]]
      BY <2>1 DEF Inv, TypeOK, RunnerTypeOK, Run, RemoteTypeOK, Build
    <2>4. RemoteTypeOK'
      BY <2>3 DEF Assemble, Inv, TypeOK, RemoteTypeOK
    <2> QED BY <2>2, <2>4 DEF Assemble, Inv, TypeOK, OneClaim, quiet, storeVars, leaseVars,
                              StoreTypeOK, LeaseTypeOK, ReconcileTypeOK, InStatus, Held
  <1> QED BY <1>2, <1>3

LEMMA MarkerWrite ==
  ASSUME Inv, NEW p \in Proc, NEW m \in Nat, NEW pc \in Pc,
         job' = [j \in Job |-> IF j \in run[p].batch THEN [job[j] EXCEPT !.marker = m]
                               ELSE job[j]],
         Goto(p, pc), UNCHANGED <<issued, leaseVars, remoteVars, asked>>
  PROVE  Inv'
  <1>1. \A j \in Job : /\ job'[j] \in Row
                        /\ job'[j].status = job[j].status /\ job'[j].token = job[j].token
    BY DEF Inv, TypeOK, StoreTypeOK, Row
  <1>2. job' \in [Job -> Row]
    BY <1>1
  <1>3. RunnerTypeOK'
    BY GotoType DEF Inv, TypeOK
  <1> QED BY <1>1, <1>2, <1>3, RowStep

(* A step of the push that touches the wire.                               *)
LEMMA StartPushInv ==
  ASSUME Inv, NEW p \in Proc, StartPush(p), UNCHANGED asked
  PROVE  Inv'
  <1>1. "pushing" \in Pc /\ "running" \in Wire
    BY DEF Pc, Working, Wire
  <1>2. RunnerTypeOK'
    BY <1>1, GotoType DEF StartPush, Inv, TypeOK
  <1>3. RemoteTypeOK'
    BY <1>1 DEF StartPush, Inv, TypeOK, RemoteTypeOK
  <1> QED BY <1>2, <1>3 DEF StartPush, Inv, TypeOK, OneClaim, quiet, storeVars, leaseVars,
                            StoreTypeOK, LeaseTypeOK, ReconcileTypeOK, InStatus, Held

(* One planned write is made, or skipped; stops may become TRUE with it.   *)
Written(p, j, stops) ==
  run' = [run EXCEPT ![p] = [run[p] EXCEPT !.plan = [run[p].plan EXCEPT ![j] = "none"],
                                           !.stops = stops]]

LEMMA PlainWrite ==
  ASSUME TypeOK, NEW p \in Proc, NEW j \in Job, run' = [run EXCEPT ![p].plan[j] = "none"]
  PROVE  Written(p, j, run[p].stops)
  BY DEF Written, TypeOK, RunnerTypeOK, Run

(* A run that becomes the record r.                                        *)
Becomes(p, r) == run' = [run EXCEPT ![p] = r]

LEMMA BecomesType ==
  ASSUME TypeOK, NEW p \in Proc, NEW r \in Run, Becomes(p, r)
  PROVE  /\ run' \in [Proc -> Run] /\ run'[p] = r
         /\ \A q \in Proc \ {p} : run'[q] = run[q]
  BY DEF Becomes, TypeOK, RunnerTypeOK

(* A frame that loses the job j, and what Done makes of the jobs left.     *)
LEMMA RejectRun ==
  ASSUME TypeOK, NEW p \in Proc, NEW j, NEW to, RejectJob(p, j, to)
  PROVE  /\ run' \in [Proc -> Run] /\ run'[p].pc \in {"assembling", "finishing"}
         /\ run'[p].batch = run[p].batch \ {j}
         /\ run'[p].tok = run[p].tok /\ run'[p].mode = run[p].mode
         /\ run'[p].rest = run[p].rest /\ run'[p].sha = run[p].sha
         /\ run'[p].base = run[p].base /\ run'[p].plan = run[p].plan
         /\ run'[p].stops = run[p].stops
         /\ \A q \in Proc \ {p} : run'[q] = run[q]
  <1> DEFINE pc == IF run[p].batch = {j} THEN "finishing" ELSE run[p].pc
             r  == [run[p] EXCEPT !.batch = run[p].batch \ {j}, !.pc = pc]
  <1>1. run[p] \in Run /\ run[p].pc = "assembling"
    BY DEF RejectJob, At, TypeOK, RunnerTypeOK
  <1>2. pc \in {"assembling", "finishing"} /\ pc \in Pc
    BY <1>1 DEF Pc, Working
  <1>3. Becomes(p, r)
    BY <1>1 DEF RejectJob, Becomes
  <1> HIDE DEF pc
  <1>4. /\ r \in Run /\ r.pc = pc /\ r.batch = run[p].batch \ {j}
        /\ r.tok = run[p].tok /\ r.mode = run[p].mode /\ r.rest = run[p].rest
        /\ r.sha = run[p].sha /\ r.base = run[p].base /\ r.plan = run[p].plan
        /\ r.stops = run[p].stops
    BY <1>1, <1>2 DEF Run
  <1> HIDE DEF r
  <1> QED BY <1>2, <1>3, <1>4, BecomesType

LEMMA ReturnRest ==
  ASSUME TypeOK, NEW p \in Proc, Done(p), run[p].rest # {}, run[p].stops
  PROVE  /\ run' \in [Proc -> Run] /\ run'[p].pc = run[p].pc
         /\ run'[p].batch = run[p].rest /\ run'[p].rest = {}
         /\ run'[p].tok = run[p].tok /\ run'[p].mode = run[p].mode
         /\ run'[p].sha = run[p].sha /\ run'[p].base = run[p].base
         /\ run'[p].stops = run[p].stops
         /\ \A j \in Job : run'[p].plan[j] = IF j \in run[p].rest THEN "queued" ELSE "none"
         /\ \A q \in Proc \ {p} : run'[q] = run[q]
  <1> DEFINE plan == [j \in Job |-> IF j \in run[p].rest THEN "queued" ELSE "none"]
             r    == [run[p] EXCEPT !.batch = run[p].rest, !.rest = {}, !.plan = plan]
  <1>1. run[p] \in Run
    BY DEF TypeOK, RunnerTypeOK
  <1>2. plan \in [Job -> Planned]
    BY DEF Planned, Status, Active
  <1>3. Becomes(p, r)
    BY DEF Done, Becomes
  <1>4. \A j \in Job : plan[j] = IF j \in run[p].rest THEN "queued" ELSE "none"
    OBVIOUS
  <1> HIDE DEF plan
  <1>5. /\ r \in Run /\ r.pc = run[p].pc /\ r.batch = run[p].rest /\ r.rest = {}
        /\ r.tok = run[p].tok /\ r.mode = run[p].mode /\ r.sha = run[p].sha
        /\ r.base = run[p].base /\ r.stops = run[p].stops /\ r.plan = plan
    BY <1>1, <1>2 DEF Run
  <1> HIDE DEF r
  <1> QED BY <1>3, <1>4, <1>5, BecomesType

LEMMA NextInLine ==
  ASSUME TypeOK, NEW p \in Proc, Done(p), run[p].rest # {}, ~run[p].stops
  PROVE  \E j \in run[p].rest :
           /\ First(run[p].rest, j)
           /\ run' \in [Proc -> Run] /\ run'[p].pc = "assembling"
           /\ run'[p].batch = {j} /\ run'[p].rest = run[p].rest \ {j}
           /\ run'[p].tok = run[p].tok /\ run'[p].mode = run[p].mode
           /\ run'[p].sha = run[p].sha /\ run'[p].base = run[p].base
           /\ run'[p].plan = run[p].plan /\ run'[p].stops = run[p].stops
           /\ \A q \in Proc \ {p} : run'[q] = run[q]
  <1>1. run[p] \in Run /\ "assembling" \in Pc
    BY DEF TypeOK, RunnerTypeOK, Pc, Working
  <1>2. PICK j \in run[p].rest :
          /\ First(run[p].rest, j)
          /\ Becomes(p, [run[p] EXCEPT !.pc = "assembling", !.batch = {j},
                                       !.rest = run[p].rest \ {j}])
    BY DEF Done, Becomes
  <1> DEFINE r == [run[p] EXCEPT !.pc = "assembling", !.batch = {j}, !.rest = run[p].rest \ {j}]
  <1>3. /\ r \in Run /\ r.pc = "assembling" /\ r.batch = {j} /\ r.rest = run[p].rest \ {j}
        /\ r.tok = run[p].tok /\ r.mode = run[p].mode /\ r.sha = run[p].sha
        /\ r.base = run[p].base /\ r.plan = run[p].plan /\ r.stops = run[p].stops
    BY <1>1, <1>2 DEF Run
  <1>4. Becomes(p, r)
    BY <1>2
  <1> HIDE DEF r
  <1> QED BY <1>2, <1>3, <1>4, BecomesType

LEMMA FinishWrites ==
  ASSUME TypeOK, NEW p \in Proc, Finish(p)
  PROVE  \E j \in ToWrite(p), stops \in BOOLEAN :
           /\ First(ToWrite(p), j)
           /\ IF Owned(job[j], run[p].tok)
              THEN /\ FinishRow(p, j, run[p].plan[j])
                   /\ stops = (run[p].stops \/ job'[j].status = Stopping(p))
              ELSE UNCHANGED job /\ stops = run[p].stops
           /\ Written(p, j, stops)
  <1>1. PICK j \in ToWrite(p) :
          /\ First(ToWrite(p), j)
          /\ IF Owned(job[j], run[p].tok)
             THEN /\ FinishRow(p, j, run[p].plan[j])
                  /\ run' = [run EXCEPT ![p] = [run[p] EXCEPT !.plan[j] = "none",
                                                              !.stops = @ \/ job'[j].status = Stopping(p)]]
             ELSE /\ UNCHANGED job
                  /\ run' = [run EXCEPT ![p].plan[j] = "none"]
    BY DEF Finish
  <1>2. run \in [Proc -> Run] /\ run[p] \in Run /\ j \in Job
    BY DEF TypeOK, RunnerTypeOK, ToWrite
  <1>3. CASE Owned(job[j], run[p].tok)
    <2> DEFINE stops == run[p].stops \/ job'[j].status = Stopping(p)
    <2>1. stops \in BOOLEAN
      OBVIOUS
    <2>2. Written(p, j, stops)
      BY <1>1, <1>2, <1>3 DEF Written
    <2> QED BY <1>1, <1>3, <2>1, <2>2
  <1>4. CASE ~Owned(job[j], run[p].tok)
    BY <1>1, <1>2, <1>4, PlainWrite DEF Run
  <1> QED BY <1>3, <1>4

(* One status write of a run, or none if the claim lost the row.           *)
LEMMA FinishInv ==
  ASSUME Inv, NEW p \in Proc, Finish(p), UNCHANGED asked
  PROVE  Inv'
  <1>1. PICK j \in ToWrite(p), stops \in BOOLEAN :
          /\ IF Owned(job[j], run[p].tok) THEN FinishRow(p, j, run[p].plan[j])
                                          ELSE UNCHANGED job
          /\ Written(p, j, stops)
    BY FinishWrites DEF Inv
  <1>2. j \in Job /\ run[p].plan[j] \in Status \ {"in_progress"} /\ run[p] \in Run
    BY DEF ToWrite, Inv, TypeOK, RunnerTypeOK, Run, Planned
  <1>3. /\ job' \in [Job -> Row]
        /\ \A i \in Job : job'[i].status = "in_progress" => job'[i] = job[i]
    <2>1. CASE Owned(job[j], run[p].tok)
      BY <1>1, <1>2, <2>1, FinishRowType
    <2>2. CASE ~Owned(job[j], run[p].tok)
      BY <1>1, <2>2 DEF Inv, TypeOK, StoreTypeOK
    <2> QED BY <2>1, <2>2
  <1>4. RunnerTypeOK'
    <2> DEFINE plan == [run[p].plan EXCEPT ![j] = "none"]
    <2>1. plan \in [Job -> Planned]
      BY <1>2 DEF Run, Planned
    <2>2. run' = [run EXCEPT ![p] = [run[p] EXCEPT !.plan = plan, !.stops = stops]]
      BY <1>1 DEF Written
    <2>3. [run[p] EXCEPT !.plan = plan, !.stops = stops] \in Run
      <3> HIDE DEF plan
      <3> QED BY <1>2, <2>1 DEF Run
    <2> HIDE DEF plan
    <2> QED BY <2>2, <2>3 DEF Inv, TypeOK, RunnerTypeOK
  <1> QED BY <1>3, <1>4, RowStep DEF Finish

LEMMA DoneInv ==
  ASSUME Inv, NEW p \in Proc, Done(p), UNCHANGED asked
  PROVE  Inv'
  <1>1. "leaving" \in Pc
    BY DEF Pc
  <1>2. CASE run[p].rest = {}
    BY <1>1, <1>2, GotoStep DEF Done
  <1>3. CASE run[p].rest # {} /\ run[p].stops
    BY <1>3, ReturnRest, LocalStep DEF Done, Inv, RunnerTypeOK
  <1>4. CASE run[p].rest # {} /\ ~run[p].stops
    BY <1>4, NextInLine, LocalStep DEF Done, Inv, RunnerTypeOK
  <1> QED BY <1>2, <1>3, <1>4

(* A run that ends releases its lease and, in a daemon, splits its claims. *)
LEMMA EndInv ==
  ASSUME Inv, NEW p \in Proc, Leave(p) \/ Raise(p), UNCHANGED asked
  PROVE  Inv'
  <1>1. Idle \in Run
    BY DEF Idle, Unplanned, Planned, Mode, Pc, Run
  <1>2. RunnerTypeOK'
    BY <1>1 DEF Leave, Raise, Inv, TypeOK, RunnerTypeOK
  <1>3. LeaseTypeOK' /\ job' \in [Job -> Row] /\ OneClaim'
    <2>1. CASE ReleaseLease(p, run[p].tok) /\ UNCHANGED <<job, life>>
      <3>1. LeaseTypeOK' /\ lock'.token \in {0, lock.token}
        BY <2>1, ReleaseLeaseType DEF Inv, TypeOK
      <3> QED BY <2>1, <3>1, ClaimsOnlyEnd DEF Inv, TypeOK, StoreTypeOK
    <2>2. CASE ClearAndSplit(p, run[p].tok) /\ UNCHANGED life
      <3>1. /\ LeaseTypeOK' /\ job' \in [Job -> Row]
            /\ ~AnyClaimed(job)' \/ UNCHANGED <<job, lock>>
        BY <2>2, ClearAndSplitType DEF Inv, TypeOK, StoreTypeOK
      <3> QED BY <3>1, NothingClaimed, ClaimsOnlyEnd DEF Inv
    <2> QED BY <2>1, <2>2 DEF Leave, Raise, storeVars
  <1> QED BY <1>2, <1>3 DEF Leave, Raise, storeVars, Inv, TypeOK, StoreTypeOK, remoteVars,
                            RemoteTypeOK, ReconcileTypeOK

LEMMA HeartbeatInv ==
  ASSUME Inv, NEW p \in Proc, Heartbeat(p), UNCHANGED asked
  PROVE  Inv'
  <1>1. LeaseTypeOK' /\ lock'.token = lock.token
    BY RenewLeaseType DEF Heartbeat, Inv, TypeOK
  <1>2. OneClaim'
    BY <1>1, ClaimsOnlyEnd DEF Heartbeat, Inv, storeVars
  <1> QED BY <1>1, <1>2 DEF Heartbeat, Inv, TypeOK, storeVars, remoteVars, StoreTypeOK,
                            RemoteTypeOK, RunnerTypeOK, ReconcileTypeOK

LEMMA PulseInv ==
  ASSUME Inv, NEW p \in Proc, PulseBeforePush(p), UNCHANGED asked
  PROVE  Inv'
  <1>1. LeaseTypeOK' /\ lock'.token = lock.token
    BY RenewLeaseType DEF PulseBeforePush, Inv, TypeOK
  <1>2. OneClaim'
    BY <1>1, ClaimsOnlyEnd DEF PulseBeforePush, Inv, storeVars
  <1>3. "pulsed" \in Pc
    BY DEF Pc, Working
  <1>4. RunnerTypeOK'
    BY <1>3, GotoType DEF PulseBeforePush, Inv, TypeOK
  <1> QED BY <1>1, <1>2, <1>4 DEF PulseBeforePush, Inv, TypeOK, storeVars, remoteVars,
                                  StoreTypeOK, RemoteTypeOK, ReconcileTypeOK

LEMMA RunnerStepInv ==
  ASSUME Inv, NEW p \in Proc, RunnerStep(p), UNCHANGED asked
  PROVE  Inv'
  <1>1. {"canceled", "validated", "needs_reconcile", "deployed", "queued", "blocked", "failed"}
          \subseteq Planned
    BY DEF Planned, Status, Active, Terminal
  <1>2. {"raising", "locked", "rejected", "marked", "refused"} \subseteq Pc
    BY DEF Pc, Working
  <1>3. CASE Assemble(p)
    BY <1>3, AssembleInv
  <1>4. CASE RecordTrain(p) \/ SeeCancel(p) \/ PushSucceeds(p) \/ PushAmbiguous(p)
    BY <1>1, <1>4, PlanAllStep DEF RecordTrain, SeeCancel, PushSucceeds, PushAmbiguous
  <1>5. CASE Isolate(p)
    <2>1. PICK j \in run[p].batch :
            run' = [run EXCEPT ![p] = [@ EXCEPT !.batch = {j}, !.rest = run[p].batch \ {j}]]
      BY <1>5 DEF Isolate
    <2> DEFINE r == [run[p] EXCEPT !.batch = {j}, !.rest = run[p].batch \ {j}]
    <2>2. run[p] \in Run /\ run \in [Proc -> Run]
      BY DEF Inv, TypeOK, RunnerTypeOK
    <2>3. r \in Run
      BY <2>2 DEF Run
    <2>4. run' = [run EXCEPT ![p] = r]
      BY <2>1, <2>2 DEF Run
    <2> HIDE DEF r
    <2>5. RunnerTypeOK'
      BY <2>2, <2>3, <2>4 DEF RunnerTypeOK
    <2> QED BY <1>5, <2>5, LocalStep DEF Isolate
  <1>6. CASE LoseLease(p) \/ PushRefused(p)
    BY <1>2, <1>6, GotoStep DEF LoseLease, PushRefused
  <1>7. CASE RecordPendingPush(p)
    <2>1. run[p].sha \in Nat
      BY MaxShaAssumption DEF Inv, TypeOK, RunnerTypeOK, Run, Sha
    <2> QED BY <1>2, <1>7, <2>1, MarkerWrite DEF RecordPendingPush
  <1>8. CASE HoldPushLock(p)
    BY <1>1, <1>2, <1>8, PlanAllStep, GotoStep DEF HoldPushLock
  <1>9. CASE PulseBeforePush(p)
    BY <1>9, PulseInv
  <1>10. CASE StartPush(p)
    BY <1>10, StartPushInv
  <1>11. CASE ClearRejectedPush(p)
    BY <1>2, <1>11, MarkerWrite DEF ClearRejectedPush
  <1>12. CASE JudgeRefusal(p)
    BY <1>1, <1>12, PlanAllStep DEF JudgeRefusal
  <1>13. CASE Finish(p)
    BY <1>13, FinishInv
  <1>14. CASE Done(p)
    BY <1>14, DoneInv
  <1>15. CASE Leave(p) \/ Raise(p)
    BY <1>15, EndInv
  <1> QED BY <1>3, <1>4, <1>5, <1>6, <1>7, <1>8, <1>9, <1>10, <1>11, <1>12, <1>13, <1>14,
             <1>15 DEF RunnerStep

LEMMA RunnerFailureInv ==
  ASSUME Inv, NEW p \in Proc, RunnerFailure(p), UNCHANGED asked
  PROVE  Inv'
  <1>1. {"none", "queued", "blocked", "failed"} \subseteq Planned
    BY DEF Planned, Status, Active, Terminal
  <1>2. {"raising", "finishing"} \subseteq Pc
    BY DEF Pc, Working
  <1>3. CASE \E j \in Job, to \in {"blocked", "failed"} : RejectJob(p, j, to)
    <2>1. PICK j \in Job, to \in {"blocked", "failed"} : RejectJob(p, j, to)
      BY <1>3
    <2>2. to \in Status \ {"in_progress"}
      BY DEF Status, Active
    <2>3. /\ job' \in [Job -> Row]
          /\ \A i \in Job : job'[i].status = "in_progress" => job'[i] = job[i]
      BY <2>1, <2>2, FinishRowType DEF RejectJob
    <2>4. RunnerTypeOK'
      BY <2>1, RejectRun DEF Inv, RunnerTypeOK
    <2> QED BY <2>1, <2>3, <2>4, RowStep DEF RejectJob
  <1>4. CASE \E reached \in SUBSET run[p].batch, to \in {"blocked", "failed"} :
               Stop(p, reached, to)
    BY <1>1, <1>4, PlanType, LocalStep DEF Stop, Inv, TypeOK
  <1>5. CASE StopRecording(p)
    BY <1>1, <1>5, PlanType, LocalStep DEF StopRecording, Inv, TypeOK
  <1>6. CASE PinFails(p) \/ PushError(p)
    BY <1>1, <1>6, PlanAllStep DEF PinFails, PushError
  <1>7. CASE Contended(p)
    BY <1>2, <1>7, GotoStep DEF Contended
  <1>8. CASE KeepLease(p)
    <2>1. Idle \in Run
      BY DEF Idle, Unplanned, Planned, Mode, Pc, Run
    <2>2. RunnerTypeOK'
      BY <1>8, <2>1 DEF KeepLease, Inv, TypeOK, RunnerTypeOK
    <2> QED BY <1>8, <2>2, LocalStep DEF KeepLease
  <1> QED BY <1>3, <1>4, <1>5, <1>6, <1>7, <1>8 DEF RunnerFailure

-----------------------------------------------------------------------------
(* The steps of a reconcile.                                               *)

LEMMA ReconcileStartInv ==
  ASSUME Inv, NEW p \in Proc, ReconcileStart(p)
  PROVE  Inv'
  <1>1. AcquiredRows \in [Job -> Row] /\ ~AnyClaimed(AcquiredRows)
    BY AcquireClears DEF ReconcileStart, CanAcquire, Inv, TypeOK, StoreTypeOK
  <1>2. OneClaim'
    BY <1>1, NothingClaimed DEF ReconcileStart, AnyClaimed, InStatus
  <1>3. LeaseTypeOK' /\ issued' \in Nat
    BY TakeLeaseType DEF ReconcileStart, Inv, TypeOK, StoreTypeOK
  <1>4. RunnerTypeOK'
    <2>1. NextToken \in Nat
      BY DEF Inv, TypeOK, StoreTypeOK, NextToken
    <2>2. [Idle EXCEPT !.pc = "asking", !.tok = NextToken] \in Run
      BY <2>1 DEF Idle, Unplanned, Planned, Mode, Pc, Asking, Run
    <2> QED BY <2>2 DEF ReconcileStart, Inv, TypeOK, RunnerTypeOK
  <1> QED BY <1>1, <1>2, <1>3, <1>4 DEF ReconcileStart, Inv, TypeOK, StoreTypeOK, remoteVars,
                                        RemoteTypeOK, ReconcileTypeOK

LEMMA VerdictType ==
  ASSUME NEW a, NEW j
  PROVE  Verdict(a, j) \in Planned
  BY DEF Verdict, Planned, Status, Active, Terminal

(* A step that asks, reads, or ends changes nothing the commands share.    *)
LEMMA AskingStep ==
  ASSUME Inv, RunnerTypeOK', ReconcileTypeOK', UNCHANGED <<quiet, remoteVars>>
  PROVE  Inv'
  BY DEF Inv, TypeOK, OneClaim, quiet, storeVars, leaseVars, remoteVars, StoreTypeOK,
         LeaseTypeOK, RemoteTypeOK, InStatus, Held

(* A ref that is read says what it contains, and is read once.             *)
Hears(p, ref) ==
  asked' = [asked EXCEPT ![p] =
              [asked[p] EXCEPT !.refs = asked[p].refs \ {ref},
                               !.heard = [asked[p].heard EXCEPT ![ref] = onref[ref]]]]

LEMMA ReadRefHears ==
  ASSUME TypeOK, NEW p \in Proc, ReadRef(p)
  PROVE  \E ref \in Ref : Hears(p, ref)
  <1>1. PICK ref \in asked[p].refs :
          asked' = [asked EXCEPT ![p] = [asked[p] EXCEPT !.refs = @ \ {ref},
                                                         !.heard[ref] = onref[ref]]]
    BY DEF ReadRef
  <1>2. ref \in Ref
    BY <1>1 DEF TypeOK, ReconcileTypeOK, Question
  <1>3. [asked[p] EXCEPT !.refs = asked[p].refs \ {ref}].heard = asked[p].heard
    BY DEF TypeOK, ReconcileTypeOK, Question
  <1>4. Hears(p, ref)
    BY <1>1, <1>3, Zenon DEF Hears
  <1> QED BY <1>2, <1>4

LEMMA HeardType ==
  ASSUME ReconcileTypeOK, RemoteTypeOK, NEW p \in Proc, NEW ref \in Ref, Hears(p, ref)
  PROVE  /\ asked' \in [Proc -> Question]
         /\ asked'[p].rows = asked[p].rows /\ asked'[p].locks = asked[p].locks
         /\ asked'[p].heard[ref] = onref[ref]
         /\ \A r \in Ref \ {ref} : asked'[p].heard[r] = asked[p].heard[r]
         /\ \A q \in Proc \ {p} : asked'[q] = asked[q]
  <1> DEFINE heard == [asked[p].heard EXCEPT ![ref] = onref[ref]]
             question == [asked[p] EXCEPT !.refs = asked[p].refs \ {ref}, !.heard = heard]
  <1>1. asked \in [Proc -> Question] /\ asked[p] \in Question
    BY DEF ReconcileTypeOK
  <1>2. /\ heard \in [Ref -> SUBSET Sha] /\ heard[ref] = onref[ref]
        /\ \A r \in Ref \ {ref} : heard[r] = asked[p].heard[r]
    BY <1>1 DEF RemoteTypeOK, Question
  <1>3. asked' = [asked EXCEPT ![p] = question]
    BY DEF Hears
  <1> HIDE DEF heard
  <1>4. /\ question \in Question /\ question.heard = heard /\ question.rows = asked[p].rows
        /\ question.locks = asked[p].locks
    BY <1>1, <1>2 DEF Question
  <1> HIDE DEF question
  <1> QED BY <1>1, <1>2, <1>3, <1>4

LEMMA ApplyInv ==
  ASSUME Inv, NEW p \in Proc, Apply(p)
  PROVE  Inv'
  <1>1. PICK j \in ToWrite(p) :
          /\ IF /\ job[j].status = asked[p].rows[j].status
                /\ ~(run[p].plan[j] = "blocked" /\ asked[p].rows[j].status = "blocked")
             THEN job' = [job EXCEPT ![j] = Marked(@, run[p].plan[j])]
             ELSE UNCHANGED job
          /\ run' = [run EXCEPT ![p].plan[j] = "none"]
    BY DEF Apply
  <1>2. j \in Job /\ run[p].plan[j] \in Status \ {"in_progress"} /\ run[p] \in Run
    BY DEF ToWrite, Inv, TypeOK, RunnerTypeOK, Run, Planned
  <1>3. Marked(job[j], run[p].plan[j]) \in Row
          /\ Marked(job[j], run[p].plan[j]).status # "in_progress"
    BY <1>2, MarkedType DEF Inv, TypeOK, StoreTypeOK
  <1>4. /\ job' \in [Job -> Row]
        /\ \A i \in Job : job'[i].status = "in_progress" => job'[i] = job[i]
    BY <1>1, <1>2, <1>3 DEF Inv, TypeOK, StoreTypeOK
  <1>5. RunnerTypeOK'
    <2> DEFINE plan == [run[p].plan EXCEPT ![j] = "none"]
    <2>1. plan \in [Job -> Planned]
      BY <1>2 DEF Run, Planned
    <2>2. run' = [run EXCEPT ![p] = [run[p] EXCEPT !.plan = plan]]
      BY <1>1, <1>2 DEF Run, Inv, TypeOK, RunnerTypeOK
    <2>3. [run[p] EXCEPT !.plan = plan] \in Run
      <3> HIDE DEF plan
      <3> QED BY <1>2, <2>1 DEF Run
    <2> HIDE DEF plan
    <2> QED BY <2>2, <2>3 DEF Inv, TypeOK, RunnerTypeOK
  <1> QED BY <1>4, <1>5, RowStep DEF Apply

LEMMA ReconcileInv ==
  ASSUME Inv, NEW p \in Proc, ReconcileNext(p)
  PROVE  Inv'
  <1>1. {"asking", "probing", "reading", "applying", "leaving"} \subseteq Pc
    BY DEF Pc, Asking
  <1>2. CASE ReconcileStart(p)
    BY <1>2, ReconcileStartInv
  <1>3. CASE Ask(p)
    <2>1. RunnerTypeOK'
      BY <1>1, <1>3, GotoType DEF Ask, Inv, TypeOK
    <2>2. ReconcileTypeOK'
      <3> DEFINE rows == [j \in Job |-> IF j \in Subjects(job) THEN job[j] ELSE FreshRow(FALSE)]
      <3>1. rows \in [Job -> Row]
        BY FreshRowType DEF Inv, TypeOK, StoreTypeOK
      <3>2. [rows |-> rows, locks |-> Subjects(job), refs |-> Ref, heard |-> NothingHeard]
              \in Question
        <4> HIDE DEF rows
        <4> QED BY <3>1 DEF Subjects, NothingHeard, Question
      <3> QED BY <1>3, <3>2 DEF Ask, Inv, TypeOK, ReconcileTypeOK
    <2> QED BY <1>3, <2>1, <2>2, AskingStep DEF Ask
  <1>8. CASE ProbeLock(p)
    <2>1. RunnerTypeOK'
      BY <1>1, <1>8, GotoType DEF ProbeLock, Inv, TypeOK
    <2>2. ReconcileTypeOK'
      <3>1. PICK j : asked' = [asked EXCEPT ![p] = NotAsking]
                       \/ asked' = [asked EXCEPT ![p].locks = @ \ {j}]
        BY <1>8 DEF ProbeLock
      <3>2. [asked[p] EXCEPT !.locks = @ \ {j}] \in Question
        BY DEF Inv, TypeOK, ReconcileTypeOK, Question
      <3> QED BY <3>1, <3>2, NotAskingType DEF Inv, TypeOK, ReconcileTypeOK
    <2> QED BY <1>8, <2>1, <2>2, AskingStep DEF ProbeLock
  <1>9. CASE ReadRef(p)
    <2>1. PICK ref \in Ref : Hears(p, ref)
      BY <1>9, ReadRefHears DEF Inv
    <2>2. ReconcileTypeOK'
      BY <2>1, HeardType DEF Inv, TypeOK, RemoteTypeOK, ReconcileTypeOK
    <2> QED BY <1>9, <2>2, AskingStep DEF ReadRef, Inv, TypeOK, RunnerTypeOK
  <1>4. CASE ReadRemote(p)
    <2>1. PICK unclear :
            run' = [run EXCEPT ![p] = [@ EXCEPT !.pc = "applying",
                                                !.plan = [j \in Job |->
                                                            IF j \in unclear THEN "blocked"
                                                            ELSE IF j \in Subjects(asked[p].rows)
                                                            THEN Verdict(asked[p], j) ELSE "none"]]]
      BY <1>4 DEF ReadRemote
    <2> DEFINE plan == [j \in Job |-> IF j \in unclear THEN "blocked"
                                      ELSE IF j \in Subjects(asked[p].rows)
                                      THEN Verdict(asked[p], j) ELSE "none"]
    <2>2. plan \in [Job -> Planned]
      <3>1. "blocked" \in Planned /\ "none" \in Planned
        BY DEF Planned, Status, Active
      <3> QED BY <3>1, VerdictType
    <2>3. run' = [run EXCEPT ![p] = [run[p] EXCEPT !.pc = "applying", !.plan = plan]]
      BY <2>1 DEF Inv, TypeOK, RunnerTypeOK, Run
    <2>4. RunnerTypeOK'
      <3> HIDE DEF plan
      <3> QED BY <1>1, <2>2, <2>3, ZenonT(60) DEF Inv, TypeOK, RunnerTypeOK, Run
    <2> QED BY <1>4, <2>4, AskingStep DEF ReadRemote, Inv, TypeOK, ReconcileTypeOK
  <1>5. CASE Unreachable(p)
    <2>1. RunnerTypeOK'
      BY <1>1, <1>5, GotoType DEF Unreachable, Inv, TypeOK
    <2> QED BY <1>5, <2>1, NotAskingType, AskingStep
            DEF Unreachable, Inv, TypeOK, ReconcileTypeOK
  <1>6. CASE Apply(p)
    BY <1>6, ApplyInv
  <1>7. CASE ReconcileEnds(p)
    <2>1. Unplanned \in [Job -> Planned]
      BY DEF Unplanned, Planned
    <2>2. RunnerTypeOK'
      BY <1>1, <1>7, <2>1, ZenonT(60) DEF ReconcileEnds, Inv, TypeOK, RunnerTypeOK, Run
    <2> QED BY <1>7, <2>2, NotAskingType, AskingStep
            DEF ReconcileEnds, Inv, TypeOK, ReconcileTypeOK
  <1> QED BY <1>2, <1>3, <1>4, <1>5, <1>6, <1>7, <1>8, <1>9 DEF ReconcileNext, ReconcileStep

-----------------------------------------------------------------------------
(* The steps of the operator, the machine and the remote.                  *)

LEMMA OperatorInv ==
  ASSUME Inv, OperatorNext
  PROVE  Inv'
  <1>1. RunnerTypeOK' /\ job \in [Job -> Row]
    BY DEF OperatorNext, CancelJob, DismissJob, RetryJob, processVars, Inv, TypeOK,
           RunnerTypeOK, StoreTypeOK
  <1>2. {"canceled", "blocked", "failed"} \subseteq Status
    BY DEF Status, Active, Terminal
  <1>3. ASSUME NEW j \in Job, CancelJob(j) PROVE Inv'
    <2>1. ASSUME NEW i \in Job
          PROVE  /\ job'[i] \in Row
                 /\ job'[i].status = "in_progress"
                      => job[i].status = "in_progress" /\ job'[i].token = job[i].token
      <3>1. \/ job'[i] = [job[i] EXCEPT !.cancel = TRUE]
            \/ job'[i] = [job[i] EXCEPT !.status = "canceled"]
            \/ job'[i] = Marked(job[i], "canceled")
            \/ job'[i] = job[i]
        BY <1>3 DEF CancelJob
      <3>2. CASE job'[i] = [job[i] EXCEPT !.cancel = TRUE]
        BY <1>1, <3>2 DEF Row
      <3>3. CASE job'[i] = [job[i] EXCEPT !.status = "canceled"]
        BY <1>1, <1>2, <3>3 DEF Row
      <3>4. CASE job'[i] = Marked(job[i], "canceled")
        BY <1>1, <1>2, <3>4, MarkedType
      <3>5. CASE job'[i] = job[i]
        BY <1>1, <3>5
      <3> QED BY <3>1, <3>2, <3>3, <3>4, <3>5
    <2>2. job' = [i \in Job |-> job'[i]]
      BY <1>3 DEF CancelJob
    <2>3. job' \in [Job -> Row]
      BY <2>1, <2>2
    <2> QED BY <1>1, <1>3, <2>1, <2>3, RowStep DEF CancelJob, processVars
  <1>4. ASSUME NEW j \in Job, DismissJob(j) PROVE Inv'
    <2>1. Marked(job[j], "canceled") \in Row /\ Marked(job[j], "canceled").status # "in_progress"
      BY <1>1, <1>2, MarkedType
    <2>2. job' \in [Job -> Row]
            /\ \A i \in Job : job'[i].status = "in_progress" => job'[i] = job[i]
      BY <1>1, <1>4, <2>1 DEF DismissJob
    <2> QED BY <1>1, <1>4, <2>2, RowStep DEF DismissJob, processVars
  <1>5. ASSUME NEW j \in Job, RetryJob(j) PROVE Inv'
    <2>1. PICK auto \in BOOLEAN : job' = [job EXCEPT ![j] = FreshRow(auto)]
      BY <1>1, <1>5 DEF RetryJob, Row
    <2>2. job' \in [Job -> Row]
            /\ \A i \in Job : job'[i].status = "in_progress" => job'[i] = job[i]
      BY <1>1, <2>1, FreshRowType
    <2> QED BY <1>1, <1>5, <2>2, RowStep DEF RetryJob, processVars
  <1>6. ASSUME UnlockDead \/ UnlockForced, UNCHANGED <<remoteVars, processVars>> PROVE Inv'
    <2>1. /\ LeaseTypeOK' /\ job' \in [Job -> Row]
          /\ ~AnyClaimed(job)' \/ UNCHANGED <<job, lock>>
      BY <1>1, <1>6, ClearAndSplitType DEF UnlockDead, UnlockForced, Inv, TypeOK
    <2>2. OneClaim'
      BY <2>1, NothingClaimed, ClaimsOnlyEnd DEF Inv
    <2> QED BY <1>1, <1>6, <2>1, <2>2
            DEF UnlockDead, UnlockForced, Inv, TypeOK, StoreTypeOK, remoteVars, processVars,
                RemoteTypeOK, ReconcileTypeOK
  <1>7. ASSUME UnlockWatch, UNCHANGED <<remoteVars, processVars>> PROVE Inv'
    <2>1. LeaseTypeOK'
      BY <1>7 DEF UnlockWatch, Inv, TypeOK, LeaseTypeOK
    <2>2. OneClaim'
      BY <1>7, ClaimsOnlyEnd DEF UnlockWatch, Inv
    <2> QED BY <1>1, <1>7, <2>1, <2>2
            DEF UnlockWatch, Inv, TypeOK, StoreTypeOK, remoteVars, processVars,
                RemoteTypeOK, ReconcileTypeOK
  <1> QED BY <1>3, <1>4, <1>5, <1>6, <1>7 DEF OperatorNext

LEMMA MachineInv ==
  ASSUME Inv, MachineNext
  PROVE  Inv'
  <1>1. RunnerTypeOK' /\ ReconcileTypeOK'
    <2>1. Idle \in Run
      BY DEF Idle, Unplanned, Planned, Mode, Pc, Run
    <2> QED BY <2>1, NotAskingType
            DEF MachineNext, Expire, Crash, ReusePid, Respawn, processVars, Inv, TypeOK,
                RunnerTypeOK, ReconcileTypeOK
  <1>2. LeaseTypeOK' /\ lock'.token = lock.token
    BY DEF MachineNext, Expire, Crash, ReusePid, Respawn, Inv, TypeOK, LeaseTypeOK, Life, Owner
  <1>3. UNCHANGED <<storeVars, remoteVars>>
    BY DEF MachineNext, Expire, Crash, ReusePid, Respawn
  <1>4. OneClaim'
    BY <1>2, <1>3, ClaimsOnlyEnd DEF Inv, storeVars
  <1> QED BY <1>1, <1>2, <1>3, <1>4 DEF Inv, TypeOK, storeVars, remoteVars, StoreTypeOK,
                                        RemoteTypeOK

LEMMA RemoteInv ==
  ASSUME Inv, RemoteNext, UNCHANGED <<storeVars, leaseVars, processVars>>
  PROVE  Inv'
  <1>1. Sha \subseteq Nat /\ {"landed", "refused", "idle"} \subseteq Wire
    BY MaxShaAssumption DEF Sha, Wire
  <1>2. ASSUME NEW s \in Sha, Landing(s) PROVE landed' \in SUBSET Sha /\ tip' \in Nat
                                                /\ onref' \in [Ref -> SUBSET Sha]
    BY <1>1, <1>2, MainAssumption DEF Landing, Inv, TypeOK, RemoteTypeOK
  <1>3. RemoteTypeOK'
    <2>1. ASSUME NEW s \in Sha, WireLands(s) \/ WireRefuses(s) \/ WireDrops(s) \/ LateLands(s)
          PROVE  RemoteTypeOK'
      <3>1. CASE WireLands(s)
        BY <1>1, <1>2, <3>1 DEF WireLands, Inv, TypeOK, RemoteTypeOK
      <3>2. CASE WireRefuses(s)
        BY <1>1, <3>2 DEF WireRefuses, Inv, TypeOK, RemoteTypeOK
      <3>3. CASE WireDrops(s)
        <4>1. late' = late \/ late' = late \union {s}
          BY <3>3 DEF WireDrops
        <4> QED BY <1>1, <3>3, <4>1 DEF WireDrops, Inv, TypeOK, RemoteTypeOK
      <3>4. CASE LateLands(s)
        BY <1>2, <3>4 DEF LateLands, Inv, TypeOK, RemoteTypeOK
      <3> QED BY <2>1, <3>1, <3>2, <3>3, <3>4
    <2>2. ASSUME ForeignPush PROVE RemoteTypeOK'
      BY <2>2, MaxShaAssumption DEF ForeignPush, Inv, TypeOK, RemoteTypeOK
    <2>3. ASSUME NEW r \in Ref, NEW kept \in SUBSET onref[r], Rewrite(r, kept)
          PROVE  RemoteTypeOK'
      BY <2>3, MaxShaAssumption DEF Rewrite, Inv, TypeOK, RemoteTypeOK
    <2> QED BY <2>1, <2>2, <2>3 DEF RemoteNext
  <1> QED BY <1>3 DEF Inv, TypeOK, OneClaim, storeVars, leaseVars, processVars, StoreTypeOK,
                      LeaseTypeOK, RunnerTypeOK, ReconcileTypeOK, InStatus, Held

-----------------------------------------------------------------------------
(* The theorems.                                                           *)

LEMMA NextInv ==
  ASSUME Inv, [Next]_vars
  PROVE  Inv'
  <1>1. CASE UNCHANGED vars
    BY <1>1 DEF vars, Inv, TypeOK, OneClaim, storeVars, leaseVars, remoteVars, StoreTypeOK,
                LeaseTypeOK, RemoteTypeOK, RunnerTypeOK, ReconcileTypeOK, InStatus, Held
  <1>2. ASSUME NEW p \in Proc, RunnerNext(p), UNCHANGED asked PROVE Inv'
    BY <1>2, ClaimInv, HeartbeatInv, RunnerStepInv, RunnerFailureInv DEF RunnerNext
  <1>3. ASSUME NEW p \in Proc, ReconcileNext(p) PROVE Inv'
    BY <1>3, ReconcileInv
  <1>4. CASE OperatorNext
    BY <1>4, OperatorInv
  <1>5. CASE MachineNext
    BY <1>5, MachineInv
  <1>6. CASE RemoteNext /\ UNCHANGED <<storeVars, leaseVars, processVars>>
    BY <1>6, RemoteInv
  <1> QED BY <1>1, <1>2, <1>3, <1>4, <1>5, <1>6 DEF Next, ProcessNext

(* Type correctness: in every reachable state every row, the lease, the    *)
(* remote and every process have the shape the code gives them; in         *)
(* particular no process ever plans to put a row in progress other than by *)
(* a claim.                                                                *)
THEOREM TypeCorrect == Spec => []TypeOK
  <1>1. Inv => TypeOK
    BY DEF Inv
  <1> QED BY <1>1, InitInv, NextInv, PTL DEF Spec

(* One claim: in every reachable state, for any number of processes and    *)
(* submissions and under every crash, steal, unlock and error modelled,    *)
(* the rows in progress carry one claim token, and it is the lease's while *)
(* there is a lease.                                                       *)
THEOREM OneClaimHolds == Spec => []OneClaim
  <1>1. Inv => OneClaim
    BY DEF Inv
  <1> QED BY <1>1, InitInv, NextInv, PTL DEF Spec

-----------------------------------------------------------------------------
(***************************************************************************)
(* No row is recorded deployed whose work did not land: DeployedLanded of  *)
(* Mergetrain is an invariant, whatever crashes, drops, steals or rewrites *)
(* happen.                                                                 *)
(*                                                                         *)
(* A row becomes deployed on one of two pieces of evidence: the push of    *)
(* its own run succeeded, or all push refs contain its marker.  Both name  *)
(* a commit, so the invariant follows the commit a run is pushing to the   *)
(* markers it writes, and from there to the rows a reconcile has read.     *)
(***************************************************************************)

(* A marker is evidence for its job: the commit it names contains the job, *)
(* unless the job had landed before (merging it again named the tip).      *)
Landed(j)    == \E s \in landed : j \in commit[s].jobs
Traced(j, s) == Landed(j) \/ (s \in Sha /\ j \in commit[s].jobs)

RemoteSound ==
  /\ \A r \in Ref : onref[r] \subseteq landed
  /\ tip \in Sha => tip \in landed
  /\ \A s \in Sha : wire[s] = "landed" => s \in landed
  /\ \A s \in Sha : wire[s] = "running" \/ s \in late \union landed => Built(s)

RowsSound ==
  \A j \in Job : /\ job[j].marker # 0 => Traced(j, job[j].marker)
                 /\ job[j].status = "deployed" => Landed(j)

AskedSound ==
  \A p \in Proc :
    /\ \A j \in Job : asked[p].rows[j].marker # 0 => Traced(j, asked[p].rows[j].marker)
    /\ \A r \in Ref : asked[p].heard[r] \subseteq landed

RunSound(r) ==
  /\ r.pc \in {"assembling", "finishing"} => r.sha = 0
  /\ \/ r.pc = "gated" /\ r.mode # "validate"
     \/ r.pc \in {"marked", "locked", "pulsed", "pushing"}
     => r.sha # 0
  /\ r.sha # 0 => Built(r.sha) /\ \A j \in r.batch : Traced(j, r.sha)
  /\ \A j \in Job : r.plan[j] = "deployed" => Landed(j)
RunsSound == \A p \in Proc : RunSound(run[p])

LandingInv == RemoteSound /\ RowsSound /\ AskedSound /\ RunsSound

-----------------------------------------------------------------------------
(* Evidence is never lost: commits keep their jobs, audit refs stay.       *)

Grows == /\ landed \subseteq landed'
         /\ \A s \in Sha : commit[s].jobs \subseteq commit'[s].jobs

LEMMA LandedStays ==
  ASSUME TypeOK, Grows, NEW j, Landed(j)
  PROVE  Landed(j)'
  BY DEF TypeOK, RemoteTypeOK, Grows, Landed

LEMMA TracedStays ==
  ASSUME TypeOK, Grows, NEW j, NEW s, Traced(j, s)
  PROVE  Traced(j, s)'
  BY LandedStays DEF Grows, Traced

LEMMA SameRemote ==
  ASSUME TypeOK, RemoteSound, UNCHANGED <<commit, late, landed, onref, tip>>,
         \A s \in Sha : wire'[s] # wire[s] => wire'[s] = "running" /\ Built(s)
  PROVE  Grows /\ RemoteSound'
  BY DEF TypeOK, RemoteTypeOK, RemoteSound, Grows, Built

LEMMA RemoteUntouched ==
  ASSUME TypeOK, RemoteSound, UNCHANGED remoteVars
  PROVE  Grows /\ RemoteSound'
  BY SameRemote DEF remoteVars

-----------------------------------------------------------------------------
(* Rows: a write that adds no evidence and settles nothing as deployed.    *)

Keeps(r, new) == /\ new.marker \in {0, r.marker}
                 /\ new.status = "deployed" => r.status = "deployed"

LEMMA RowsStay ==
  ASSUME TypeOK, RowsSound, Grows,
         \A j \in Job : \/ Keeps(job[j], job'[j])
                        \/ /\ job'[j].marker # 0 => Traced(j, job'[j].marker)
                           /\ job'[j].status = "deployed" => Landed(j)
  PROVE  RowsSound'
  <1> SUFFICES ASSUME NEW j \in Job
               PROVE  /\ job'[j].marker # 0 => Traced(j, job[j].marker)'
                      /\ job'[j].status = "deployed" => Landed(j)'
    BY DEF RowsSound
  <1>1. /\ job'[j].marker # 0 => Traced(j, job'[j].marker)
        /\ job'[j].status = "deployed" => Landed(j)
    BY DEF RowsSound, Keeps
  <1> QED BY <1>1, LandedStays DEF Traced, Grows

LEMMA MarkedKeeps ==
  ASSUME NEW r \in Row, NEW to \in Status, to # "deployed"
  PROVE  Keeps(r, Marked(r, to))
  BY DEF Marked, Keeps, Row

LEMMA SplitKeeps ==
  ASSUME NEW rows \in [Job -> Row], NEW j \in Job
  PROVE  Keeps(rows[j], Split(rows)[j])
  BY DEF Split, Orphaned, Keeps, Row

LEMMA AcquireKeeps ==
  ASSUME TypeOK, NEW j \in Job
  PROVE  Keeps(job[j], AcquiredRows[j])
  <1>1. job \in [Job -> Row]
    BY DEF TypeOK, StoreTypeOK
  <1> QED BY <1>1, SplitKeeps DEF AcquiredRows, Keeps

LEMMA ApprovalKeeps ==
  ASSUME NEW rows \in [Job -> Row], NEW stale, NEW j \in Job
  PROVE  Keeps(rows[j], ApprovalBlocked(rows, stale)[j])
  BY DEF ApprovalBlocked, Keeps, Row

LEMMA ClearAndSplitKeeps ==
  ASSUME TypeOK, NEW p, NEW t, ClearAndSplit(p, t), NEW j \in Job
  PROVE  Keeps(job[j], job'[j])
  <1>1. job \in [Job -> Row]
    BY DEF TypeOK, StoreTypeOK
  <1> QED BY <1>1, SplitKeeps DEF ClearAndSplit, Keeps

-----------------------------------------------------------------------------
(* Runs.                                                                   *)

LEMMA RunStays ==
  ASSUME TypeOK, RunsSound, Grows, NEW q \in Proc, run'[q] = run[q]
  PROVE  RunSound(run[q])'
  <1>1. RunSound(run[q]) /\ run[q].sha \in {0} \union Sha
    BY DEF RunsSound, TypeOK, RunnerTypeOK, Run
  <1>2. \A j \in Job : run[q].plan[j] = "deployed" => Landed(j)'
    BY <1>1, LandedStays DEF RunSound
  <1>3. run[q].sha # 0 => Built(run[q].sha)'
    BY <1>1 DEF RunSound, Built, Grows
  <1>4. run[q].sha # 0 => \A j \in run[q].batch : Traced(j, run[q].sha)'
    BY <1>1, LandedStays DEF RunSound, Traced, Grows
  <1> QED BY <1>1, <1>2, <1>3, <1>4 DEF RunSound, Built

LEMMA RunsSame ==
  ASSUME TypeOK, RunsSound, Grows, UNCHANGED run
  PROVE  RunsSound'
  BY RunStays DEF RunsSound

LEMMA RunsStay ==
  ASSUME TypeOK, RunsSound, Grows, NEW p \in Proc,
         \A q \in Proc \ {p} : run'[q] = run[q],
         RunSound(run[p])'
  PROVE  RunsSound'
  BY RunStays DEF RunsSound

LEMMA PlanRun ==
  ASSUME TypeOK, NEW p \in Proc, NEW S, NEW to, NEW others, Plan(p, S, to, others)
  PROVE  /\ run'[p].pc = "finishing" /\ run'[p].sha = 0
         /\ \A j \in Job : run'[p].plan[j] = IF j \in S THEN to
                                             ELSE IF j \in run[p].batch THEN others ELSE "none"
         /\ \A q \in Proc \ {p} : run'[q] = run[q]
  <1> DEFINE plan == [j \in Job |-> IF j \in S THEN to
                                  ELSE IF j \in run[p].batch THEN others ELSE "none"]
  <1>1. run' = [run EXCEPT ![p] = [run[p] EXCEPT !.pc = "finishing", !.sha = 0, !.base = 0,
                                                 !.plan = plan]]
    BY DEF TypeOK, RunnerTypeOK, Run, Plan
  <1>2. \A j \in Job : plan[j] = IF j \in S THEN to
                                 ELSE IF j \in run[p].batch THEN others ELSE "none"
    OBVIOUS
  <1>3. run'[p].plan = plan /\ run'[p].pc = "finishing" /\ run'[p].sha = 0
          /\ \A q \in Proc \ {p} : run'[q] = run[q]
    <2> HIDE DEF plan
    <2> QED BY <1>1 DEF TypeOK, RunnerTypeOK, Run
  <1> QED BY <1>2, <1>3

LEMMA PlanSound ==
  ASSUME TypeOK, RunsSound, Grows, NEW p \in Proc, NEW S, NEW to, NEW others,
         Plan(p, S, to, others), S = run[p].batch \/ others # "deployed",
         to = "deployed" => \A j \in S : Landed(j)
  PROVE  RunsSound'
  <1>1. RunSound(run[p])'
    BY PlanRun, LandedStays DEF RunSound
  <1> QED BY <1>1, PlanRun, RunsStay

LEMMA GotoSound ==
  ASSUME TypeOK, RunsSound, Grows, NEW p \in Proc, NEW pc, Goto(p, pc),
         pc \notin {"assembling", "finishing"},
         \/ pc = "gated" /\ run[p].mode # "validate"
         \/ pc \in {"marked", "locked", "pulsed", "pushing"}
         => run[p].sha # 0
  PROVE  RunsSound'
  <1>1. run' = [run EXCEPT ![p] = [run[p] EXCEPT !.pc = pc]] /\ run[p] \in Run
    BY DEF Goto, TypeOK, RunnerTypeOK, Run
  <1>2. RunSound(run[p])
    BY DEF RunsSound
  <1>3. /\ run'[p].sha = run[p].sha /\ run'[p].batch = run[p].batch /\ run'[p].pc = pc
        /\ run'[p].mode = run[p].mode /\ run'[p].plan = run[p].plan
        /\ \A q \in Proc \ {p} : run'[q] = run[q]
    BY <1>1 DEF TypeOK, RunnerTypeOK, Run
  <1>4. run[p].sha # 0 => /\ Built(run[p].sha)'
                          /\ \A j \in run[p].batch : Traced(j, run[p].sha)'
    BY <1>1, <1>2, <1>3, LandedStays DEF RunSound, Built, Grows, Run, Traced
  <1>5. RunSound(run[p])'
    BY <1>2, <1>3, <1>4, LandedStays DEF RunSound, Built
  <1> QED BY <1>3, <1>5, RunsStay

(* One planned write is made.                                              *)
LEMMA WrittenSound ==
  ASSUME TypeOK, RunsSound, Grows, NEW p \in Proc, NEW j \in Job, NEW stops,
         Written(p, j, stops)
  PROVE  RunsSound'
  <1> DEFINE plan == [run[p].plan EXCEPT ![j] = "none"]
  <1>1. run[p] \in Run /\ RunSound(run[p])
    BY DEF TypeOK, RunnerTypeOK, RunsSound
  <1>2. \A i \in Job : plan[i] = "deployed" => run[p].plan[i] = "deployed"
    BY <1>1 DEF Run
  <1>3. run' = [run EXCEPT ![p] = [run[p] EXCEPT !.plan = plan, !.stops = stops]]
    BY DEF Written
  <1>4. /\ run'[p].sha = run[p].sha /\ run'[p].batch = run[p].batch
        /\ run'[p].pc = run[p].pc /\ run'[p].mode = run[p].mode /\ run'[p].plan = plan
        /\ \A q \in Proc \ {p} : run'[q] = run[q]
    <2> HIDE DEF plan
    <2> QED BY <1>1, <1>3 DEF Run, TypeOK, RunnerTypeOK
  <1>5. run[p].sha # 0 => /\ Built(run[p].sha)'
                          /\ \A i \in run[p].batch : Traced(i, run[p].sha)'
    BY <1>1, <1>4, LandedStays DEF RunSound, Built, Grows, Run, Traced
  <1>6. RunSound(run[p])'
    <2> HIDE DEF plan
    <2> QED BY <1>1, <1>2, <1>4, <1>5, LandedStays DEF RunSound, Built
  <1> QED BY <1>4, <1>6, RunsStay

(* A run that is given up, or starts from nothing, has no evidence to keep.*)
LEMMA EmptyRun ==
  ASSUME TypeOK, RunsSound, Grows, NEW p \in Proc,
         \A q \in Proc \ {p} : run'[q] = run[q],
         run'[p].sha = 0, run'[p].plan = Unplanned,
         run'[p].pc \in {"idle", "assembling", "asking"}
  PROVE  RunsSound'
  <1>1. RunSound(run[p])'
    BY DEF RunSound, Unplanned
  <1> QED BY <1>1, RunsStay

LEMMA AskedStay ==
  ASSUME TypeOK, AskedSound, Grows, UNCHANGED asked
  PROVE  AskedSound'
  <1>1. ASSUME NEW p \in Proc, NEW j \in Job, asked[p].rows[j].marker # 0
        PROVE  Traced(j, asked[p].rows[j].marker)'
    BY <1>1, LandedStays DEF AskedSound, Traced, Grows
  <1> QED BY <1>1 DEF AskedSound, Grows

(* A step of a process that leaves the remote and what reconciles read.    *)
LEMMA ProcessStep ==
  ASSUME TypeOK, LandingInv, UNCHANGED <<remoteVars, asked>>,
         \A j \in Job : Keeps(job[j], job'[j]),
         Grows => RunsSound'
  PROVE  LandingInv'
  BY RemoteUntouched, AskedStay, RowsStay DEF LandingInv

LEMMA SameRows ==
  ASSUME UNCHANGED job
  PROVE  \A j \in Job : Keeps(job[j], job'[j])
  BY DEF Keeps

-----------------------------------------------------------------------------
(* The claims.                                                             *)

LEMMA BeginSound ==
  ASSUME TypeOK, LandingInv, NEW p \in Proc, NEW mode, NEW rows \in [Job -> Row], NEW picked,
         \A j \in Job : Keeps(job[j], rows[j]),
         Begin(p, mode, rows, picked), UNCHANGED asked
  PROVE  LandingInv'
  <1>1. ASSUME NEW j \in Job PROVE Keeps(job[j], job'[j])
    BY DEF Begin, Claimed, Keeps, Row
  <1>2. /\ run'[p].sha = 0 /\ run'[p].plan = Unplanned /\ run'[p].pc = "assembling"
        /\ \A q \in Proc \ {p} : run'[q] = run[q]
    BY DEF Begin, Idle, TypeOK, RunnerTypeOK
  <1> QED BY <1>1, <1>2, EmptyRun, ProcessStep DEF Begin, LandingInv

LEMMA ClaimSound ==
  ASSUME Inv, LandingInv, NEW p \in Proc, RunnerClaim(p), UNCHANGED asked
  PROVE  LandingInv'
  <1>1. TypeOK /\ job \in [Job -> Row] /\ \A j \in Job : Keeps(job[j], AcquiredRows[j])
    BY AcquireKeeps DEF Inv, TypeOK, StoreTypeOK
  <1>2. Takeover # "refuse" => AcquiredRows \in [Job -> Row] /\ ~AnyClaimed(AcquiredRows)
    BY <1>1, AcquireClears
  <1>3. ASSUME NEW stale, Takeover # "refuse"
        PROVE  /\ ApprovalBlocked(AcquiredRows, stale) \in [Job -> Row]
               /\ \A j \in Job : Keeps(job[j], ApprovalBlocked(AcquiredRows, stale)[j])
    BY <1>1, <1>2, <1>3, ApprovalBlockedType, ApprovalKeeps DEF Keeps
  <1>4. CASE ClaimQueued(p) \/ ClaimTrain(p) \/ ClaimManual(p)
    <2>1. Takeover # "refuse" /\ \E mode, picked : Begin(p, mode, AcquiredRows, picked)
      BY <1>4 DEF ClaimQueued, ClaimTrain, ClaimManual, CanAcquire
    <2> QED BY <1>1, <1>2, <2>1, BeginSound
  <1>5. CASE ClaimAuto(p)
    <2>1. Takeover # "refuse" /\ \E stale, picked :
            Begin(p, "auto", ApprovalBlocked(AcquiredRows, stale), picked)
      BY <1>5 DEF ClaimAuto, CanAcquire
    <2> QED BY <1>1, <1>3, <2>1, BeginSound
  <1>6. CASE ClaimNothing(p) \/ RecoverOrphans(p)
    <2>1. UNCHANGED <<run, remoteVars>> /\ job' = AcquiredRows
      BY <1>6 DEF ClaimNothing, RecoverOrphans, AcquireAndDrop
    <2> QED BY <1>1, <2>1, RunsSame, ProcessStep DEF LandingInv
  <1>7. CASE BlockStale(p)
    <2>1. UNCHANGED <<run, remoteVars>> /\ Takeover # "refuse"
            /\ \E stale : job' = ApprovalBlocked(AcquiredRows, stale)
      BY <1>7 DEF BlockStale
    <2> QED BY <1>1, <1>3, <2>1, RunsSame, ProcessStep DEF LandingInv
  <1>8. CASE DaemonClearsOwn(p)
    <2>1. UNCHANGED <<run, remoteVars>> /\ ClearAndSplit(p, lock.token)
      BY <1>8 DEF DaemonClearsOwn
    <2> QED BY <1>1, <2>1, ClearAndSplitKeeps, RunsSame, ProcessStep DEF LandingInv
  <1> QED BY <1>4, <1>5, <1>6, <1>7, <1>8 DEF RunnerClaim

-----------------------------------------------------------------------------
(* The steps of a run.                                                     *)

LEMMA PlanStep ==
  ASSUME TypeOK, LandingInv, NEW p \in Proc, NEW S, NEW to, NEW others,
         Plan(p, S, to, others), S = run[p].batch \/ others # "deployed",
         to = "deployed" => \A j \in S : Landed(j),
         UNCHANGED <<quiet, remoteVars, asked>>
  PROVE  LandingInv'
  BY PlanSound, SameRows, ProcessStep DEF LandingInv, quiet, storeVars

LEMMA PlanAllSound ==
  ASSUME TypeOK, LandingInv, NEW p \in Proc, NEW to, PlanAll(p, to), to # "deployed",
         UNCHANGED <<quiet, remoteVars, asked>>
  PROVE  LandingInv'
  BY PlanStep DEF PlanAll

LEMMA GotoStepSound ==
  ASSUME TypeOK, LandingInv, NEW p \in Proc, NEW pc, Goto(p, pc),
         pc \notin {"assembling", "finishing"},
         \/ pc = "gated" /\ run[p].mode # "validate"
         \/ pc \in {"marked", "locked", "pulsed", "pushing"}
         => run[p].sha # 0,
         \A j \in Job : Keeps(job[j], job'[j]),
         UNCHANGED <<remoteVars, asked>>
  PROVE  LandingInv'
  BY GotoSound, ProcessStep DEF LandingInv

(* The commit a train is assembled to is evidence for every job of it.     *)
LEMMA NamedSound ==
  ASSUME TypeOK, RemoteSound, NEW p \in Proc, NEW s \in Sha,
         run[p].batch # {}, MayName(s, run[p].batch), Build(s, run[p].batch),
         UNCHANGED <<wire, late, landed, onref, tip>>
  PROVE  /\ Grows /\ RemoteSound' /\ Built(s)'
         /\ \A j \in run[p].batch : Traced(j, s)'
  <1> DEFINE batch == run[p].batch
  <1>1. batch \in SUBSET Job /\ commit \in [Sha -> [jobs : SUBSET Job, base : Nat]]
    BY DEF TypeOK, RunnerTypeOK, RemoteTypeOK, Run
  <1>2. CASE s = tip
    <2>1. commit' = commit /\ Built(s)
      BY <1>2 DEF Build, RemoteSound
    <2>2. MainContains(batch) \/ commit[s].jobs = batch
      BY <2>1 DEF MayName
    <2>3. \A j \in batch : Traced(j, s)
      BY <2>2, MainAssumption DEF Traced, Landed, MainContains, RemoteSound
    <2>4. Grows
      BY <2>1 DEF Grows
    <2> QED BY <2>1, <2>3, <2>4, TracedStays DEF RemoteSound, Built
  <1>3. CASE s # tip
    <2>1. commit' = [commit EXCEPT ![s] = [jobs |-> batch, base |-> tip]]
      BY <1>3 DEF Build
    <2>2. commit[s].jobs \subseteq batch
      BY <1>3 DEF MayName, Built
    <2>3. commit'[s].jobs = batch /\ \A t \in Sha : commit[t].jobs \subseteq commit'[t].jobs
      BY <1>1, <2>1, <2>2
    <2>4. Grows
      BY <2>3 DEF Grows
    <2>5. RemoteSound'
      BY <2>3 DEF RemoteSound, Built
    <2> QED BY <2>3, <2>4, <2>5 DEF Built, Traced
  <1> QED BY <1>2, <1>3

LEMMA AssembleSound ==
  ASSUME Inv, LandingInv, NEW p \in Proc, Assemble(p), UNCHANGED asked
  PROVE  LandingInv'
  <1>1. TypeOK /\ UNCHANGED job /\ \A j \in Job : Keeps(job[j], job'[j])
    BY SameRows DEF Inv, Assemble, quiet, storeVars
  <1>2. CASE run[p].mode = "validate"
    BY <1>1, <1>2, GotoStepSound DEF Assemble, remoteVars
  <1>3. CASE run[p].mode # "validate"
    <2>1. PICK s \in Sha : /\ MayName(s, run[p].batch)
                           /\ Build(s, run[p].batch)
                           /\ run' = [run EXCEPT ![p] = [@ EXCEPT !.pc = "gated", !.sha = s,
                                                                  !.base = tip]]
      BY <1>3 DEF Assemble
    <2>2. /\ Grows /\ RemoteSound' /\ Built(s)'
          /\ \A j \in run[p].batch : Traced(j, s)'
      BY <1>1, <2>1, NamedSound DEF Assemble, LandingInv
    <2>3. /\ run'[p].pc = "gated" /\ run'[p].sha = s /\ s # 0
          /\ run'[p].batch = run[p].batch /\ run'[p].plan = run[p].plan
          /\ \A q \in Proc \ {p} : run'[q] = run[q]
      BY <1>1, <2>1 DEF TypeOK, RunnerTypeOK, Run, Sha
    <2>4. \A j \in Job : run'[p].plan[j] = "deployed" => Landed(j)'
      BY <1>1, <2>2, <2>3, LandedStays DEF LandingInv, RunsSound, RunSound
    <2>5. RunSound(run[p])'
      BY <2>2, <2>3, <2>4 DEF RunSound, Built
    <2>6. RunsSound'
      BY <1>1, <2>2, <2>3, <2>5, RunsStay DEF LandingInv
    <2> QED BY <1>1, <2>2, <2>6, RowsStay, AskedStay DEF LandingInv
  <1> QED BY <1>2, <1>3

(* record_pending_push writes on each row of the train a marker that is    *)
(* evidence for it.                                                        *)
LEMMA RecordSound ==
  ASSUME Inv, LandingInv, NEW p \in Proc, RecordPendingPush(p), UNCHANGED asked
  PROVE  LandingInv'
  <1>1. TypeOK /\ Grows /\ RemoteSound'
    BY RemoteUntouched DEF Inv, LandingInv, RecordPendingPush
  <1>2. run[p].sha # 0 /\ \A j \in run[p].batch : Traced(j, run[p].sha)
    BY DEF RecordPendingPush, At, LandingInv, RunsSound, RunSound
  <1>3. ASSUME NEW j \in Job
        PROVE  \/ Keeps(job[j], job'[j])
               \/ /\ job'[j].marker # 0 => Traced(j, job'[j].marker)
                  /\ job'[j].status = "deployed" => Landed(j)
    <2>1. CASE j \in run[p].batch
      <3>1. job'[j] = [job[j] EXCEPT !.marker = run[p].sha] /\ job[j] \in Row
        BY <1>1, <2>1 DEF RecordPendingPush, TypeOK, StoreTypeOK
      <3>2. job'[j].marker = run[p].sha /\ job'[j].status = job[j].status
        BY <3>1 DEF Row
      <3> QED BY <1>2, <2>1, <3>2 DEF LandingInv, RowsSound
    <2>2. CASE j \notin run[p].batch
      BY <2>2 DEF RecordPendingPush, Keeps
    <2> QED BY <2>1, <2>2
  <1>4. RunsSound'
    BY <1>1, <1>2, GotoSound DEF RecordPendingPush, LandingInv
  <1> QED BY <1>1, <1>3, <1>4, RowsStay, AskedStay DEF LandingInv

LEMMA StartPushSound ==
  ASSUME Inv, LandingInv, NEW p \in Proc, StartPush(p), UNCHANGED asked
  PROVE  LandingInv'
  <1>1. TypeOK /\ UNCHANGED job
    BY DEF Inv, StartPush, quiet, storeVars
  <1>2. run[p].sha \in Sha /\ Built(run[p].sha)
    BY <1>1 DEF StartPush, At, LandingInv, RunsSound, RunSound, TypeOK, RunnerTypeOK, Run
  <1>3. Grows /\ RemoteSound'
    BY <1>1, <1>2, SameRemote DEF StartPush, LandingInv, TypeOK, RemoteTypeOK
  <1>4. RunsSound'
    BY <1>1, <1>2, <1>3, GotoSound DEF StartPush, LandingInv, Sha
  <1> QED BY <1>1, <1>3, <1>4, SameRows, RowsStay, AskedStay DEF LandingInv

(* A push that succeeded landed the commit that its jobs trace to.         *)
LEMMA PushSucceedsSound ==
  ASSUME Inv, LandingInv, NEW p \in Proc, PushSucceeds(p), UNCHANGED asked
  PROVE  LandingInv'
  <1>1. run[p].sha # 0 /\ run[p].sha \in {0} \union Sha /\ wire[run[p].sha] = "landed"
    BY DEF PushSucceeds, At, LandingInv, RunsSound, RunSound, Inv, TypeOK, RunnerTypeOK, Run
  <1>2. run[p].sha \in landed /\ \A j \in run[p].batch : Traced(j, run[p].sha)
    BY <1>1 DEF LandingInv, RemoteSound, RunsSound, RunSound
  <1>3. \A j \in run[p].batch : Landed(j)
    BY <1>2 DEF Traced, Landed
  <1> QED BY <1>3, PlanStep DEF PushSucceeds, PlanAll, Inv

LEMMA FinishRowKeeps ==
  ASSUME Inv, NEW p \in Proc, NEW j \in Job, NEW to \in Status \ {"in_progress"},
         FinishRow(p, j, to), NEW i \in Job
  PROVE  \/ Keeps(job[i], job'[i])
         \/ i = j /\ to = "deployed" /\ job'[i].marker = 0
  <1> DEFINE as == FinishAs(job[j], to)
             size == Cardinality(run[p].batch)
  <1>1. job \in [Job -> Row] /\ as \in Status /\ (as = "deployed" => to = "deployed")
    BY DEF Inv, TypeOK, StoreTypeOK, FinishAs, Status, Terminal
  <1>2. CASE i # j
    BY <1>1, <1>2 DEF FinishRow, Keeps
  <1>3. CASE i = j /\ as = "validated"
    <2>1. job'[j] = MarkedValidated(job[j], run[p].tok, size)
      BY <1>1, <1>3 DEF FinishRow
    <2> QED BY <1>1, <1>3, <2>1 DEF MarkedValidated, Marked, Keeps, Row
  <1>4. CASE i = j /\ as # "validated"
    <2>1. job'[j] = Marked(job[j], as)
      BY <1>1, <1>4 DEF FinishRow
    <2> HIDE DEF as
    <2>2. as = "deployed" => Marked(job[j], as).marker = 0
      BY <1>1 DEF Marked, Row
    <2> QED BY <1>1, <1>4, <2>1, <2>2, MarkedKeeps
  <1> QED BY <1>2, <1>3, <1>4

LEMMA FinishSound ==
  ASSUME Inv, LandingInv, NEW p \in Proc, Finish(p), UNCHANGED asked
  PROVE  LandingInv'
  <1>1. PICK j \in ToWrite(p), stops \in BOOLEAN :
          /\ IF Owned(job[j], run[p].tok) THEN FinishRow(p, j, run[p].plan[j])
                                          ELSE UNCHANGED job
          /\ Written(p, j, stops)
    BY FinishWrites DEF Inv
  <1>2. j \in Job /\ run[p].plan[j] \in Status \ {"in_progress"} /\ run[p] \in Run
    BY DEF ToWrite, Inv, TypeOK, RunnerTypeOK, Run, Planned
  <1>3. TypeOK /\ Grows /\ RemoteSound' /\ UNCHANGED remoteVars
    BY RemoteUntouched DEF Inv, LandingInv, Finish
  <1>4. RunSound(run[p])
    BY DEF LandingInv, RunsSound
  <1>5. ASSUME NEW i \in Job
        PROVE  \/ Keeps(job[i], job'[i])
               \/ /\ job'[i].marker # 0 => Traced(i, job'[i].marker)
                  /\ job'[i].status = "deployed" => Landed(i)
    <2>1. CASE Owned(job[j], run[p].tok)
      BY <1>1, <1>2, <1>4, <2>1, FinishRowKeeps DEF RunSound
    <2>2. CASE ~Owned(job[j], run[p].tok)
      BY <1>1, <2>2, SameRows
    <2> QED BY <2>1, <2>2
  <1>6. RunsSound'
    BY <1>1, <1>2, <1>3, WrittenSound DEF LandingInv
  <1> QED BY <1>3, <1>5, <1>6, RowsStay, AskedStay DEF LandingInv, Finish

(* The frame moves on, or is left, with no commit named.                   *)
LEMMA FrameSound ==
  ASSUME TypeOK, LandingInv, NEW p \in Proc, UNCHANGED <<remoteVars, asked>>,
         \A j \in Job : Keeps(job[j], job'[j]),
         \A q \in Proc \ {p} : run'[q] = run[q],
         run'[p].sha = 0, run'[p].pc \in {"assembling", "finishing", "leaving", "idle"},
         \A j \in Job : run'[p].plan[j] = "deployed" => run[p].plan[j] = "deployed"
  PROVE  LandingInv'
  <1>1. ASSUME Grows PROVE RunSound(run[p])'
    BY <1>1, LandedStays DEF LandingInv, RunsSound, RunSound
  <1> QED BY <1>1, RunsStay, ProcessStep DEF LandingInv

LEMMA DoneSound ==
  ASSUME Inv, LandingInv, NEW p \in Proc, Done(p), UNCHANGED asked
  PROVE  LandingInv'
  <1>1. /\ TypeOK /\ run \in [Proc -> Run]
        /\ UNCHANGED remoteVars /\ \A j \in Job : Keeps(job[j], job'[j])
    BY SameRows DEF Inv, TypeOK, RunnerTypeOK, Done, quiet, storeVars
  <1>2. run[p].sha = 0 /\ run[p].pc = "finishing" /\ run[p] \in Run
    BY <1>1 DEF Done, At, LandingInv, RunsSound, RunSound
  <1>3. CASE run[p].rest = {}
    BY <1>1, <1>3, GotoStepSound DEF Done
  <1>4. CASE run[p].rest # {} /\ run[p].stops
    <2>1. /\ run'[p].sha = 0 /\ run'[p].pc = "finishing"
          /\ \A j \in Job : run'[p].plan[j] # "deployed"
          /\ \A q \in Proc \ {p} : run'[q] = run[q]
      BY <1>1, <1>2, <1>4, ReturnRest
    <2> QED BY <1>1, <2>1, FrameSound
  <1>5. CASE run[p].rest # {} /\ ~run[p].stops
    <2>2. /\ run'[p].sha = 0 /\ run'[p].pc = "assembling" /\ run'[p].plan = run[p].plan
          /\ \A q \in Proc \ {p} : run'[q] = run[q]
      BY <1>1, <1>2, <1>5, NextInLine
    <2> QED BY <1>1, <2>2, FrameSound
  <1> QED BY <1>3, <1>4, <1>5

(* A run that ends, and what its end does to its rows.                     *)
LEMMA IdleSound ==
  ASSUME TypeOK, LandingInv, NEW p \in Proc, run' = [run EXCEPT ![p] = Idle],
         \A j \in Job : Keeps(job[j], job'[j]), UNCHANGED <<remoteVars, asked>>
  PROVE  LandingInv'
  <1>1. /\ run'[p].sha = 0 /\ run'[p].pc = "idle" /\ run'[p].plan = Unplanned
        /\ \A q \in Proc \ {p} : run'[q] = run[q]
    BY DEF TypeOK, RunnerTypeOK, Idle
  <1> QED BY <1>1, EmptyRun, ProcessStep DEF LandingInv

LEMMA EndSound ==
  ASSUME Inv, LandingInv, NEW p \in Proc, Leave(p) \/ Raise(p), UNCHANGED asked
  PROVE  LandingInv'
  <1>1. TypeOK /\ UNCHANGED remoteVars /\ run' = [run EXCEPT ![p] = Idle]
    BY DEF Inv, Leave, Raise
  <1>2. ASSUME NEW j \in Job PROVE Keeps(job[j], job'[j])
    BY <1>1, SameRows, ClearAndSplitKeeps DEF Leave, Raise, storeVars
  <1> QED BY <1>1, <1>2, IdleSound

LEMMA RunnerStepSound ==
  ASSUME Inv, LandingInv, NEW p \in Proc, RunnerStep(p), UNCHANGED asked
  PROVE  LandingInv'
  <1>1. TypeOK /\ run[p] \in Run /\ RunSound(run[p])
    BY DEF Inv, TypeOK, RunnerTypeOK, LandingInv, RunsSound
  <1>2. CASE Assemble(p)
    BY <1>2, AssembleSound
  <1>3. CASE RecordTrain(p) \/ SeeCancel(p) \/ PushAmbiguous(p) \/ JudgeRefusal(p)
    BY <1>1, <1>3, PlanAllSound DEF RecordTrain, SeeCancel, PushAmbiguous, JudgeRefusal
  <1>4. CASE Isolate(p)
    <2>1. PICK j \in run[p].batch :
            run' = [run EXCEPT ![p] = [@ EXCEPT !.batch = {j}, !.rest = run[p].batch \ {j}]]
      BY <1>4 DEF Isolate
    <2>2. /\ run'[p].sha = 0 /\ run'[p].pc = "assembling" /\ run'[p].plan = run[p].plan
          /\ \A q \in Proc \ {p} : run'[q] = run[q]
      BY <1>1, <1>4, <2>1 DEF Isolate, At, RunSound, TypeOK, RunnerTypeOK, Run
    <2> QED BY <1>1, <1>4, <2>2, SameRows, FrameSound DEF Isolate, quiet, storeVars
  <1>5. CASE LoseLease(p) \/ PushRefused(p)
    BY <1>1, <1>5, SameRows, GotoStepSound DEF LoseLease, PushRefused, quiet, storeVars
  <1>6. CASE RecordPendingPush(p)
    BY <1>6, RecordSound
  <1>7. CASE HoldPushLock(p)
    <2>1. run[p].sha # 0
      BY <1>1, <1>7 DEF HoldPushLock, At, RunSound
    <2> QED BY <1>1, <1>7, <2>1, SameRows, PlanAllSound, GotoStepSound
            DEF HoldPushLock, quiet, storeVars
  <1>8. CASE PulseBeforePush(p)
    <2>1. run[p].sha # 0
      BY <1>1, <1>8 DEF PulseBeforePush, At, RunSound
    <2> QED BY <1>1, <1>8, <2>1, SameRows, GotoStepSound DEF PulseBeforePush, storeVars
  <1>9. CASE StartPush(p)
    BY <1>9, StartPushSound
  <1>10. CASE PushSucceeds(p)
    BY <1>10, PushSucceedsSound
  <1>11. CASE ClearRejectedPush(p)
    <2>1. ASSUME NEW j \in Job PROVE Keeps(job[j], job'[j])
      BY <1>1, <1>11 DEF ClearRejectedPush, Keeps, TypeOK, StoreTypeOK, Row
    <2> QED BY <1>1, <1>11, <2>1, GotoStepSound DEF ClearRejectedPush
  <1>12. CASE Finish(p)
    BY <1>12, FinishSound
  <1>13. CASE Done(p)
    BY <1>13, DoneSound
  <1>14. CASE Leave(p) \/ Raise(p)
    BY <1>14, EndSound
  <1> QED BY <1>2, <1>3, <1>4, <1>5, <1>6, <1>7, <1>8, <1>9, <1>10, <1>11, <1>12, <1>13,
             <1>14 DEF RunnerStep

LEMMA RunnerFailureSound ==
  ASSUME Inv, LandingInv, NEW p \in Proc, RunnerFailure(p), UNCHANGED asked
  PROVE  LandingInv'
  <1>1. TypeOK /\ run[p] \in Run /\ RunSound(run[p])
    BY DEF Inv, TypeOK, RunnerTypeOK, LandingInv, RunsSound
  <1>2. CASE \E j \in Job, to \in {"blocked", "failed"} : RejectJob(p, j, to)
    <2>1. PICK j \in Job, to \in {"blocked", "failed"} : RejectJob(p, j, to)
      BY <1>2
    <2>2. to \in Status \ {"in_progress"}
      BY DEF Status, Active
    <2>3. \A i \in Job : Keeps(job[i], job'[i])
      BY <2>1, <2>2, FinishRowKeeps DEF RejectJob
    <2>4. /\ run'[p].sha = 0 /\ run'[p].pc \in {"assembling", "finishing"}
          /\ run'[p].plan = run[p].plan
          /\ \A q \in Proc \ {p} : run'[q] = run[q]
      <3>1. run[p].sha = 0
        BY <1>1, <2>1 DEF RejectJob, At, RunSound
      <3> QED BY <1>1, <2>1, <3>1, RejectRun
    <2> QED BY <1>1, <2>1, <2>3, <2>4, FrameSound DEF RejectJob
  <1>3. CASE \E reached \in SUBSET run[p].batch, to \in {"blocked", "failed"} :
               Stop(p, reached, to)
    BY <1>1, <1>3, PlanStep DEF Stop
  <1>4. CASE StopRecording(p)
    BY <1>1, <1>4, PlanStep DEF StopRecording
  <1>5. CASE PinFails(p) \/ PushError(p)
    BY <1>1, <1>5, PlanAllSound DEF PinFails, PushError
  <1>6. CASE Contended(p)
    BY <1>1, <1>6, SameRows, GotoStepSound DEF Contended, quiet, storeVars
  <1>7. CASE KeepLease(p)
    BY <1>1, <1>7, SameRows, IdleSound DEF KeepLease, quiet, storeVars
  <1> QED BY <1>2, <1>3, <1>4, <1>5, <1>6, <1>7 DEF RunnerFailure

-----------------------------------------------------------------------------
(* The steps of a reconcile.                                               *)

LEMMA AskSound ==
  ASSUME Inv, LandingInv, NEW p \in Proc, Ask(p)
  PROVE  LandingInv'
  <1>1. TypeOK /\ Grows /\ RemoteSound'
    BY RemoteUntouched DEF Inv, LandingInv, Ask
  <1>2. UNCHANGED job /\ \A j \in Job : Keeps(job[j], job'[j])
    BY SameRows DEF Ask, quiet, storeVars
  <1>3. RunsSound'
    BY <1>1, GotoSound DEF Ask, LandingInv
  <1>4. CASE UNCHANGED asked
    BY <1>1, <1>2, <1>3, <1>4, RowsStay, AskedStay DEF LandingInv
  <1>5. CASE asked' = [asked EXCEPT ![p] =
                         [rows  |-> [j \in Job |-> IF j \in Subjects(job) THEN job[j]
                                                  ELSE FreshRow(FALSE)],
                          locks |-> Subjects(job), refs |-> Ref, heard |-> NothingHeard]]
    <2>1. ASSUME NEW q \in Proc, NEW j \in Job
          PROVE  asked'[q].rows[j].marker \in {0, asked[q].rows[j].marker, job[j].marker}
      BY <1>1, <1>5 DEF TypeOK, ReconcileTypeOK, FreshRow
    <2>2. ASSUME NEW q \in Proc, NEW j \in Job, asked'[q].rows[j].marker # 0
          PROVE  Traced(j, asked[q].rows[j].marker)'
      <3>1. Traced(j, asked'[q].rows[j].marker)
        BY <2>1, <2>2 DEF LandingInv, RowsSound, AskedSound
      <3> QED BY <1>1, <3>1, LandedStays DEF Traced, Grows
    <2>3. ASSUME NEW q \in Proc, NEW r \in Ref
          PROVE  asked'[q].heard[r] \subseteq asked[q].heard[r]
      BY <1>1, <1>5 DEF TypeOK, ReconcileTypeOK, NothingHeard
    <2>4. AskedSound'
      BY <1>1, <2>2, <2>3 DEF AskedSound, LandingInv, Grows
    <2> QED BY <1>1, <1>2, <1>3, <2>4, RowsStay DEF LandingInv
  <1> QED BY <1>4, <1>5 DEF Ask

(* All push refs contained the marker of the row that was read, so the     *)
(* work landed whatever the row is by now.                                 *)
LEMMA DeployedVerdict ==
  ASSUME LandingInv, NEW p \in Proc, NEW j \in Job, Verdict(asked[p], j) = "deployed",
         TypeOK
  PROVE  Landed(j)
  <1> DEFINE m == asked[p].rows[j].marker
  <1>1. m \in asked[p].heard[Main]
    BY MainAssumption DEF Verdict
  <1>2. m \in landed /\ m # 0
    BY <1>1, MainAssumption DEF LandingInv, AskedSound, TypeOK, RemoteTypeOK, Sha
  <1>3. Traced(j, m)
    BY <1>2 DEF LandingInv, AskedSound
  <1> QED BY <1>2, <1>3 DEF Traced, Landed

LEMMA ReadRemoteSound ==
  ASSUME Inv, LandingInv, NEW p \in Proc, ReadRemote(p)
  PROVE  LandingInv'
  <1>1. TypeOK /\ Grows /\ run[p] \in Run /\ RunSound(run[p])
    BY RemoteUntouched DEF Inv, TypeOK, RunnerTypeOK, LandingInv, RunsSound, ReadRemote
  <1>2. PICK unclear :
          run' = [run EXCEPT ![p] = [@ EXCEPT !.pc = "applying",
                                              !.plan = [j \in Job |->
                                                          IF j \in unclear THEN "blocked"
                                                          ELSE IF j \in Subjects(asked[p].rows)
                                                          THEN Verdict(asked[p], j) ELSE "none"]]]
    BY DEF ReadRemote
  <1> DEFINE plan == [j \in Job |-> IF j \in unclear THEN "blocked"
                                    ELSE IF j \in Subjects(asked[p].rows)
                                    THEN Verdict(asked[p], j) ELSE "none"]
  <1>3. \A j \in Job : plan[j] = "deployed" => Landed(j)
    BY <1>1, DeployedVerdict
  <1>4. run' = [run EXCEPT ![p] = [run[p] EXCEPT !.pc = "applying", !.plan = plan]]
    BY <1>1, <1>2 DEF TypeOK, RunnerTypeOK, Run
  <1>5. /\ run'[p].sha = run[p].sha /\ run'[p].batch = run[p].batch
        /\ run'[p].pc = "applying" /\ run'[p].plan = plan
        /\ \A q \in Proc \ {p} : run'[q] = run[q]
    <2> HIDE DEF plan
    <2> QED BY <1>1, <1>4 DEF Run, TypeOK, RunnerTypeOK
  <1>6. run[p].sha # 0 => /\ Built(run[p].sha)'
                          /\ \A i \in run[p].batch : Traced(i, run[p].sha)'
    BY <1>1, <1>5, LandedStays DEF RunSound, Built, Grows, Run, Traced
  <1>7. RunSound(run[p])'
    <2> HIDE DEF plan
    <2> QED BY <1>1, <1>3, <1>5, <1>6, LandedStays DEF RunSound, Built
  <1> QED BY <1>1, <1>5, <1>7, RunsStay, SameRows, ProcessStep
          DEF ReadRemote, LandingInv, quiet, storeVars

LEMMA ApplySound ==
  ASSUME Inv, LandingInv, NEW p \in Proc, Apply(p)
  PROVE  LandingInv'
  <1>1. PICK j \in ToWrite(p) :
          /\ IF /\ job[j].status = asked[p].rows[j].status
                /\ ~(run[p].plan[j] = "blocked" /\ asked[p].rows[j].status = "blocked")
             THEN job' = [job EXCEPT ![j] = Marked(@, run[p].plan[j])]
             ELSE UNCHANGED job
          /\ run' = [run EXCEPT ![p].plan[j] = "none"]
    BY DEF Apply
  <1>2. j \in Job /\ run[p].plan[j] \in Status /\ job \in [Job -> Row]
    BY DEF ToWrite, Inv, TypeOK, StoreTypeOK, RunnerTypeOK, Run, Planned
  <1>3. TypeOK /\ Grows /\ RemoteSound'
    BY RemoteUntouched DEF Inv, LandingInv, Apply
  <1>4. run[p].plan[j] = "deployed" => Landed(j)
    BY <1>2 DEF LandingInv, RunsSound, RunSound
  <1>5. ASSUME NEW i \in Job
        PROVE  \/ Keeps(job[i], job'[i])
               \/ /\ job'[i].marker # 0 => Traced(i, job'[i].marker)
                  /\ job'[i].status = "deployed" => Landed(i)
    <2>1. CASE job'[i] = job[i]
      BY <2>1 DEF Keeps
    <2>2. CASE i = j /\ job'[j] = Marked(job[j], run[p].plan[j])
      <3>1. run[p].plan[j] = "deployed" => Marked(job[j], run[p].plan[j]).marker = 0
        BY <1>2 DEF Marked, Row
      <3> QED BY <1>2, <1>4, <2>2, <3>1, MarkedKeeps
    <2> QED BY <1>1, <1>2, <2>1, <2>2
  <1>6. RunsSound'
    BY <1>1, <1>2, <1>3, PlainWrite, WrittenSound DEF LandingInv
  <1> QED BY <1>3, <1>5, <1>6, RowsStay, AskedStay DEF LandingInv, Apply

(* A process that stops asking, in whatever state it goes on.              *)
LEMMA AskedEnds ==
  ASSUME TypeOK, AskedSound, Grows, NEW p \in Proc,
         asked' = [asked EXCEPT ![p] = NotAsking]
  PROVE  AskedSound'
  <1>1. ASSUME NEW q \in Proc
        PROVE  \/ asked'[q] = asked[q]
               \/ /\ \A j \in Job : asked'[q].rows[j].marker = 0
                  /\ \A r \in Ref : asked'[q].heard[r] = {}
    BY DEF TypeOK, ReconcileTypeOK, NotAsking, FreshRow, NothingHeard
  <1>2. ASSUME NEW q \in Proc, NEW j \in Job, asked'[q].rows[j].marker # 0
        PROVE  Traced(j, asked[q].rows[j].marker)'
    <2>1. asked'[q] = asked[q]
      BY <1>1, <1>2
    <2> QED BY <1>2, <2>1, LandedStays DEF AskedSound, Traced, Grows
  <1> QED BY <1>1, <1>2 DEF AskedSound, Grows

(* What a question has heard or probed says nothing of the rows it read.   *)
LEMMA AskedSameRows ==
  ASSUME TypeOK, AskedSound, Grows,
         \A q \in Proc : /\ asked'[q].rows = asked[q].rows
                         /\ \A r \in Ref : asked'[q].heard[r] \subseteq landed
  PROVE  AskedSound'
  <1>1. ASSUME NEW q \in Proc, NEW j \in Job, asked'[q].rows[j].marker # 0
        PROVE  Traced(j, asked[q].rows[j].marker)'
    BY <1>1, LandedStays DEF AskedSound, Traced, Grows
  <1> QED BY <1>1 DEF AskedSound, Grows

LEMMA ReconcileSound ==
  ASSUME Inv, LandingInv, NEW p \in Proc, ReconcileNext(p)
  PROVE  LandingInv'
  <1>1. TypeOK /\ run[p] \in Run /\ RunSound(run[p])
    BY DEF Inv, TypeOK, RunnerTypeOK, LandingInv, RunsSound
  <1>2. CASE ReconcileStart(p)
    <2>1. \A j \in Job : Keeps(job[j], job'[j])
      BY <1>1, <1>2, AcquireKeeps DEF ReconcileStart
    <2>2. /\ run'[p].sha = 0 /\ run'[p].pc = "asking" /\ run'[p].plan = Unplanned
          /\ \A q \in Proc \ {p} : run'[q] = run[q]
      BY <1>1, <1>2 DEF ReconcileStart, Idle, TypeOK, RunnerTypeOK
    <2> QED BY <1>1, <1>2, <2>1, <2>2, EmptyRun, ProcessStep DEF ReconcileStart, LandingInv
  <1>3. CASE Ask(p)
    BY <1>3, AskSound
  <1>7. CASE ProbeLock(p)
    <2>1. Grows /\ RemoteSound' /\ RowsSound'
      BY <1>1, <1>7, RemoteUntouched, SameRows, RowsStay
         DEF LandingInv, ProbeLock, quiet, storeVars
    <2>2. AskedSound'
      <3>1. CASE asked' = [asked EXCEPT ![p] = NotAsking]
        BY <1>1, <2>1, <3>1, AskedEnds DEF LandingInv
      <3>2. CASE \E j : asked' = [asked EXCEPT ![p].locks = @ \ {j}]
        <4>1. \A q \in Proc : asked'[q].rows = asked[q].rows /\ asked'[q].heard = asked[q].heard
          BY <1>1, <3>2 DEF TypeOK, ReconcileTypeOK, Question
        <4> QED BY <1>1, <2>1, <4>1, AskedSameRows DEF LandingInv, AskedSound
      <3> QED BY <1>7, <3>1, <3>2 DEF ProbeLock
    <2>3. RunsSound'
      <3>1. PICK pc \in {"leaving", "reading", "probing"} : Goto(p, pc)
        BY <1>7 DEF ProbeLock
      <3> QED BY <1>1, <2>1, <3>1, GotoSound DEF LandingInv
    <2> QED BY <2>1, <2>2, <2>3 DEF LandingInv
  <1>8. CASE ReadRef(p)
    <2>1. Grows /\ RemoteSound' /\ RowsSound' /\ RunsSound'
      BY <1>1, <1>8, RemoteUntouched, SameRows, RowsStay, RunsSame
         DEF LandingInv, ReadRef, quiet, storeVars
    <2>2. PICK ref \in Ref : Hears(p, ref)
      BY <1>1, <1>8, ReadRefHears
    <2>3. ASSUME NEW q \in Proc
          PROVE  /\ asked'[q].rows = asked[q].rows
                 /\ \A r \in Ref : asked'[q].heard[r] \in {asked[q].heard[r], onref[r]}
      <3>1. CASE q = p
        <4>1. ReconcileTypeOK /\ RemoteTypeOK
          BY <1>1 DEF TypeOK
        <4>2. /\ asked'[p].rows = asked[p].rows /\ asked'[p].heard[ref] = onref[ref]
              /\ \A r \in Ref \ {ref} : asked'[p].heard[r] = asked[p].heard[r]
          BY <2>2, <4>1, HeardType
        <4> QED BY <3>1, <4>2
      <3>2. CASE q # p
        <4>1. asked'[q] = asked[q]
          BY <1>1, <2>2, <3>2, HeardType DEF TypeOK
        <4> QED BY <4>1
      <3> QED BY <3>1, <3>2
    <2>4. AskedSound'
      BY <1>1, <2>1, <2>3, AskedSameRows DEF LandingInv, AskedSound, RemoteSound
    <2> QED BY <2>1, <2>4 DEF LandingInv
  <1>4. CASE ReadRemote(p)
    BY <1>4, ReadRemoteSound
  <1>5. CASE Apply(p)
    BY <1>5, ApplySound
  <1>6. CASE Unreachable(p) \/ ReconcileEnds(p)
    <2>1. Grows /\ RemoteSound'
      BY <1>1, <1>6, RemoteUntouched DEF LandingInv, Unreachable, ReconcileEnds
    <2>2. RowsSound' /\ AskedSound'
      BY <1>1, <1>6, <2>1, SameRows, RowsStay, AskedEnds
         DEF LandingInv, Unreachable, ReconcileEnds, quiet, storeVars
    <2>3. RunsSound'
      <3>1. CASE Unreachable(p)
        BY <1>1, <2>1, <3>1, GotoSound DEF Unreachable, LandingInv
      <3>2. CASE ReconcileEnds(p)
        <4>1. /\ run'[p].sha = run[p].sha /\ run'[p].batch = run[p].batch
              /\ run'[p].pc = "leaving" /\ run'[p].plan = Unplanned
              /\ \A q \in Proc \ {p} : run'[q] = run[q]
          BY <1>1, <3>2 DEF ReconcileEnds, TypeOK, RunnerTypeOK, Run
        <4>2. run[p].sha # 0 => /\ Built(run[p].sha)'
                                /\ \A i \in run[p].batch : Traced(i, run[p].sha)'
          BY <1>1, <2>1, <4>1, LandedStays DEF RunSound, Built, Grows, Run, Traced
        <4>3. RunSound(run[p])'
          BY <4>1, <4>2 DEF RunSound, Built, Unplanned
        <4> QED BY <1>1, <2>1, <4>1, <4>3, RunsStay DEF LandingInv
      <3> QED BY <1>6, <3>1, <3>2
    <2> QED BY <2>1, <2>2, <2>3 DEF LandingInv
  <1> QED BY <1>2, <1>3, <1>4, <1>5, <1>6, <1>7, <1>8 DEF ReconcileNext, ReconcileStep

-----------------------------------------------------------------------------
(* The steps of the operator, the machine and the remote.                  *)

LEMMA OperatorSound ==
  ASSUME Inv, LandingInv, OperatorNext
  PROVE  LandingInv'
  <1>1. TypeOK /\ job \in [Job -> Row] /\ UNCHANGED <<run, asked, remoteVars>>
    BY DEF Inv, TypeOK, StoreTypeOK, OperatorNext, CancelJob, DismissJob, RetryJob, processVars
  <1>2. "canceled" \in Status
    BY DEF Status, Terminal
  <1>3. ASSUME NEW i \in Job PROVE Keeps(job[i], job'[i])
    <2>1. CASE \E j \in Job : CancelJob(j)
      <3>1. \/ job'[i] = [job[i] EXCEPT !.cancel = TRUE]
            \/ job'[i] = [job[i] EXCEPT !.status = "canceled"]
            \/ job'[i] = Marked(job[i], "canceled")
            \/ job'[i] = job[i]
        BY <2>1 DEF CancelJob
      <3> QED BY <1>1, <1>2, <3>1, MarkedKeeps DEF Keeps, Row
    <2>2. CASE \E j \in Job : DismissJob(j)
      BY <1>1, <1>2, <2>2, MarkedKeeps DEF DismissJob, Keeps
    <2>3. CASE \E j \in Job : RetryJob(j)
      BY <1>1, <2>3 DEF RetryJob, Keeps, FreshRow
    <2>4. CASE UnlockDead \/ UnlockWatch \/ UnlockForced
      BY <1>1, <2>4, SameRows, ClearAndSplitKeeps DEF UnlockDead, UnlockWatch, UnlockForced
    <2> QED BY <2>1, <2>2, <2>3, <2>4 DEF OperatorNext
  <1> QED BY <1>1, <1>3, RunsSame, ProcessStep DEF LandingInv

LEMMA MachineSound ==
  ASSUME Inv, LandingInv, MachineNext
  PROVE  LandingInv'
  <1>1. TypeOK /\ UNCHANGED <<job, remoteVars>>
    BY DEF Inv, MachineNext, Expire, Crash, ReusePid, Respawn, storeVars
  <1>2. Grows /\ RemoteSound' /\ RowsSound'
    BY <1>1, RemoteUntouched, SameRows, RowsStay DEF LandingInv
  <1>3. ASSUME NEW p \in Proc, Crash(p) PROVE RunsSound' /\ AskedSound'
    <2>1. /\ run'[p].sha = 0 /\ run'[p].pc = "idle" /\ run'[p].plan = Unplanned
          /\ \A q \in Proc \ {p} : run'[q] = run[q]
      BY <1>1, <1>3 DEF Crash, Idle, TypeOK, RunnerTypeOK
    <2> QED BY <1>1, <1>2, <1>3, <2>1, EmptyRun, AskedEnds DEF Crash, LandingInv
  <1>4. CASE UNCHANGED processVars
    BY <1>1, <1>2, <1>4, RunsSame, AskedStay DEF processVars, LandingInv
  <1>5. (\E p \in Proc : Crash(p)) \/ UNCHANGED processVars
    BY DEF MachineNext, Expire, ReusePid, Respawn
  <1> QED BY <1>2, <1>3, <1>4, <1>5 DEF LandingInv

LEMMA RemoteStepSound ==
  ASSUME Inv, LandingInv, RemoteNext, UNCHANGED <<storeVars, leaseVars, processVars>>
  PROVE  LandingInv'
  <1>1. TypeOK /\ RemoteSound /\ commit' = commit
    BY DEF Inv, LandingInv, RemoteNext, WireLands, WireRefuses, WireDrops, LateLands,
           ForeignPush, Rewrite
  <1>2. Grows
    BY <1>1 DEF Grows, RemoteNext, WireLands, WireRefuses, WireDrops, LateLands, ForeignPush,
                Rewrite, Landing
  <1>3. RemoteSound'
    <2>1. ASSUME NEW s \in Sha, Built(s), Landing(s),
                 \A t \in Sha : wire'[t] = wire[t] \/ (t = s /\ wire'[t] = "landed"),
                 late' \subseteq late
          PROVE  RemoteSound'
      BY <1>1, <2>1, MainAssumption
         DEF Landing, RemoteSound, Built, TypeOK, RemoteTypeOK
    <2>2. CASE \E s \in Sha : WireLands(s) \/ LateLands(s)
      <3>1. PICK s \in Sha : WireLands(s) \/ LateLands(s)
        BY <2>2
      <3>2. Built(s) /\ Landing(s) /\ late' \subseteq late
              /\ \A t \in Sha : wire'[t] = wire[t] \/ (t = s /\ wire'[t] = "landed")
        BY <1>1, <3>1 DEF WireLands, LateLands, RemoteSound, TypeOK, RemoteTypeOK
      <3> QED BY <2>1, <3>2
    <2>3. CASE \E s \in Sha : WireRefuses(s) \/ WireDrops(s)
      <3>1. PICK s \in Sha : WireRefuses(s) \/ WireDrops(s)
        BY <2>3
      <3>2. /\ UNCHANGED <<landed, onref, tip>> /\ late' \subseteq late \union {s}
            /\ wire[s] = "running"
            /\ \A t \in Sha : wire'[t] = wire[t] \/ wire'[t] \in {"refused", "idle"}
        BY <1>1, <3>1 DEF WireRefuses, WireDrops, TypeOK, RemoteTypeOK
      <3> QED BY <1>1, <3>2 DEF RemoteSound, Built
    <2>4. CASE ForeignPush
      <3>1. tip' \notin Sha /\ UNCHANGED <<wire, late, landed, onref>>
        BY <1>1, <2>4, MaxShaAssumption DEF ForeignPush, Sha, TypeOK, RemoteTypeOK
      <3> QED BY <1>1, <3>1 DEF RemoteSound, Built
    <2>5. CASE \E r \in Ref : \E kept \in SUBSET onref[r] : Rewrite(r, kept)
      <3>1. PICK r \in Ref : \E kept \in SUBSET onref[r] : Rewrite(r, kept)
        BY <2>5
      <3>2. \A q \in Ref : onref'[q] \subseteq onref[q]
        BY <1>1, <3>1 DEF Rewrite, TypeOK, RemoteTypeOK
      <3>3. (tip' \in Sha => tip' = tip) /\ UNCHANGED <<wire, late, landed>>
        BY <1>1, <3>1, MaxShaAssumption DEF Rewrite, Sha, TypeOK, RemoteTypeOK
      <3> QED BY <1>1, <3>2, <3>3 DEF RemoteSound, Built
    <2> QED BY <2>2, <2>3, <2>4, <2>5 DEF RemoteNext
  <1>4. RowsSound' /\ AskedSound' /\ RunsSound'
    BY <1>1, <1>2, SameRows, RowsStay, AskedStay, RunsSame
       DEF LandingInv, storeVars, processVars
  <1> QED BY <1>3, <1>4 DEF LandingInv

-----------------------------------------------------------------------------
(* The theorem.                                                            *)

LEMMA InitSound == Init => LandingInv
  <1> SUFFICES ASSUME Init PROVE LandingInv
    OBVIOUS
  <1>1. RemoteSound
    BY DEF Init, RemoteInit, RemoteSound, Sha, MaxShaAssumption
  <1>2. RowsSound
    BY DEF Init, StoreInit, RowsSound, FreshRow
  <1>3. AskedSound
    BY DEF Init, ReconcileInit, AskedSound, NotAsking, FreshRow, NothingHeard
  <1>4. RunsSound
    BY DEF Init, RunnerInit, RunsSound, RunSound, Idle, Unplanned
  <1> QED BY <1>1, <1>2, <1>3, <1>4 DEF LandingInv

LEMMA NextSound ==
  ASSUME Inv, LandingInv, [Next]_vars
  PROVE  LandingInv'
  <1>1. CASE UNCHANGED vars
    <2>1. TypeOK /\ UNCHANGED <<job, run, asked, remoteVars>>
      BY <1>1 DEF Inv, vars, storeVars
    <2> QED BY <2>1, SameRows, RunsSame, ProcessStep DEF LandingInv
  <1>2. ASSUME NEW p \in Proc, RunnerNext(p), UNCHANGED asked PROVE LandingInv'
    <2>1. CASE Heartbeat(p)
      BY <1>2, <2>1, SameRows, RunsSame, ProcessStep DEF Heartbeat, Inv, LandingInv, storeVars
    <2> QED BY <1>2, <2>1, ClaimSound, RunnerStepSound, RunnerFailureSound DEF RunnerNext
  <1>3. ASSUME NEW p \in Proc, ReconcileNext(p) PROVE LandingInv'
    BY <1>3, ReconcileSound
  <1>4. CASE OperatorNext
    BY <1>4, OperatorSound
  <1>5. CASE MachineNext
    BY <1>5, MachineSound
  <1>6. CASE RemoteNext /\ UNCHANGED <<storeVars, leaseVars, processVars>>
    BY <1>6, RemoteStepSound
  <1> QED BY <1>1, <1>2, <1>3, <1>4, <1>5, <1>6 DEF Next, ProcessNext

(* What is recorded deployed did land: in every reachable state, for any   *)
(* submissions, processes and refs and under every fault modelled (lost    *)
(* replies, late landings, rewritten branches, stolen leases, stale or     *)
(* forced resolutions), some commit whose audit ref exists contains the    *)
(* work of every row whose status is deployed.                             *)
THEOREM DeployedLandedHolds == Spec => []DeployedLanded
  <1>1. LandingInv => DeployedLanded
    BY DEF LandingInv, RowsSound, Landed, DeployedLanded, InStatus
  <1>2. Init => Inv /\ LandingInv
    BY InitInv, InitSound
  <1>3. Inv /\ LandingInv /\ [Next]_vars => (Inv /\ LandingInv)'
    BY NextInv, NextSound
  <1> QED BY <1>1, <1>2, <1>3, PTL DEF Spec

-----------------------------------------------------------------------------
(***************************************************************************)
(* No landing is forgotten, and no push is made beside another one:        *)
(* PushIsOnRecord and OnePush of Mergetrain are invariants, and a marker   *)
(* is given up only after its push did not land and no longer can          *)
(* (VerdictAfterPush).                                                     *)
(*                                                                         *)
(* The argument follows the lease.  Rows in progress are their owner's     *)
(* only while it holds the lease; a push gets under way only by its last   *)
(* check of the lease; and a reconcile that has asked holds the lease      *)
(* until it has written its verdicts.  So whoever may write to a row whose *)
(* push is unresolved knows that nothing new can come under way meanwhile. *)
(***************************************************************************)

(* The faults with which the promise does not hold: a push the server      *)
(* applies after its client died, an error that ends a run as failed after *)
(* the push, a reconcile that outlives its lease, a forced resolution.     *)
Recoverable == Faults \intersect {"late", "error", "stall", "force"} = {}

-----------------------------------------------------------------------------
(* The inductive invariant.                                                *)

(* A push of s is under way, or its runner has passed its last check.      *)
Pulsed(s) == \E p \in Proc : run[p].pc = "pulsed" /\ run[p].sha = s
Flight(s) == wire[s] = "running" \/ Pulsed(s)
NoFlight  == \A s \in Sha : ~Flight(s)
Still(s)  == s \in Sha /\ (Flight(s) \/ s \in landed)

OwnedBy(p, j) == Owned(job[j], run[p].tok)
Pushes(p)     == run[p].mode # "validate"

Carrying == {"marked", "locked", "pulsed", "pushing", "rejected"}
Guarded  == {"assembling", "gated", "marked", "locked", "rejected", "refused"}

(* Rows: what is queued, validated, failed or canceled has no push; what   *)
(* waits for a reconcile has one; and a cancel request rests only where    *)
(* something will honour it.                                               *)
RowClean(r) ==
  /\ r.status \in {"queued", "validated", "failed", "canceled"} => r.marker = 0
  /\ r.status = "needs_reconcile" => r.marker # 0
  /\ r.marker \in {0} \union Sha
  /\ r.cancel => \/ r.status \in {"in_progress", "needs_reconcile", "canceled"}
                 \/ IsReconcileConflict(r)
RowsClean == \A j \in Job : RowClean(job[j])

(* A run: rows in progress are its own only under its lease.               *)
OwnerHolds(p) == \A j \in Job : OwnedBy(p, j) => HasLease(p)

(* The commit a run carries is made of exactly the jobs of its frame.      *)
FrameOK(p) ==
  /\ run[p].pc = "gated" /\ Pushes(p) =>
       /\ run[p].batch # {}
       /\ commit[run[p].sha].jobs = run[p].batch \/ \A j \in run[p].batch : Landed(j)
  /\ run[p].pc \in Carrying =>
       /\ Pushes(p) /\ run[p].batch # {} /\ run[p].sha # 0
       /\ commit[run[p].sha].jobs = run[p].batch
  /\ run[p].pc = "refused" => Pushes(p)

(* The markers of its rows: none before it records them and after a        *)
(* refusal, its commit in between; and what it plans to write gives up no  *)
(* marker whose push can still land.                                       *)
FinishOK(to, m) ==
  /\ to \in {"failed", "validated"} => m = 0
  /\ to \in {"deployed", "needs_reconcile"} => m # 0
  /\ to \notin {"none", "needs_reconcile"} => m = 0 \/ ~Flight(m)
  /\ to \notin {"none", "needs_reconcile", "deployed"} => m = 0 \/ ~Still(m)

MarkersOK(p) ==
  \A j \in Job : OwnedBy(p, j) =>
    /\ j \in run[p].rest => job[j].marker = 0
    /\ j \in run[p].batch /\ (~Pushes(p) \/ run[p].pc \in {"assembling", "gated", "refused"})
         => job[j].marker = 0
    /\ j \in run[p].batch /\ run[p].pc \in Carrying => job[j].marker = run[p].sha
    /\ run[p].pc = "finishing" => FinishOK(run[p].plan[j], job[j].marker)

PlanOK(p) ==
  /\ run[p].batch \intersect run[p].rest = {}
  /\ run[p].pc = "finishing" =>
       /\ \A j \in Job : run[p].plan[j] # "none" => j \in run[p].batch
       /\ (\E j \in Job : run[p].plan[j] = "validated")
             => \A j \in Job : run[p].plan[j] \in {"none", "validated"}
  /\ run[p].pc \notin {"finishing", "raising", "applying"} => run[p].plan = Unplanned

(* What holding the lease keeps away: another push under way.              *)
Awaits(p, j) == OwnedBy(p, j) /\ run[p].plan[j] = "needs_reconcile"

LeaseOK(p) ==
  HasLease(p) =>
    /\ Pushes(p) /\ run[p].pc \in Guarded => NoFlight
    /\ run[p].pc \in Carrying => \A j \in run[p].batch : OwnedBy(p, j)
    /\ run[p].pc \in {"marked", "locked", "pulsed", "rejected"} => run[p].sha \notin landed
    /\ run[p].pc = "pushing" =>
         /\ \A s \in Sha : ~Pulsed(s) /\ (wire[s] = "running" => s = run[p].sha)
         /\ run[p].sha \in landed => wire[run[p].sha] = "landed"
    /\ run[p].pc = "finishing" /\ Pushes(p) =>
         /\ \A s \in Sha : ~Pulsed(s)
         /\ run[p].rest # {} => \/ NoFlight \/ run[p].stops
                                \/ run[p].batch # {} /\ \A j \in run[p].batch : Awaits(p, j)
    /\ run[p].pc \in {"reading", "applying"} => NoFlight

(* A reconcile holds its lease; what it has read is still so; and a push   *)
(* still under way is one whose lock it has yet to probe.                  *)
Verdicts == {"deployed", "blocked", "queued", "canceled"}

AskOK(p) ==
  /\ run[p].pc \in Asking => HasLease(p) /\ ~lock.expired /\ ~AnyClaimed(job)
  /\ run[p].pc \in {"probing", "reading"} =>
       \A j \in Subjects(asked[p].rows) : job[j] = asked[p].rows[j]
  /\ run[p].pc = "probing" =>
       \A s \in Sha : Flight(s) => \E j \in asked[p].locks : asked[p].rows[j].marker = s
  /\ run[p].pc = "applying" =>
       \A j \in Job : run[p].plan[j] # "none" =>
         /\ Unresolved(job[j]) /\ job[j] = asked[p].rows[j]
         /\ run[p].plan[j] \in Verdicts
         /\ run[p].plan[j] = "queued" => ~job[j].cancel
         /\ run[p].plan[j] \in {"queued", "canceled"} => job[j].marker \notin landed

ProcOK(p) ==
  /\ OwnerHolds(p) /\ FrameOK(p) /\ MarkersOK(p)
  /\ PlanOK(p) /\ LeaseOK(p) /\ AskOK(p)

Tokens ==
  /\ \A p \in Proc : run[p].tok <= issued
  /\ \A p, q \in Proc : run[p].tok = run[q].tok /\ run[p].tok # 0 => p = q
DeadIdle == \A p \in Proc : life[p] # "up" => run[p] = Idle

OneFlight ==
  /\ \A p, q \in Proc : run[p].pc = "pulsed" /\ run[q].pc = "pulsed" => p = q
  /\ \A p \in Proc, s \in Sha : ~(run[p].pc = "pulsed" /\ wire[s] = "running")
  /\ OnePush

FlightOnRecord ==
  \A s \in Sha : Flight(s) =>
    \A j \in commit[s].jobs :
      job[j].marker = s /\ job[j].status \in {"in_progress", "needs_reconcile"}

OnRecord ==
  \A s \in Sha : Still(s) =>
    \A j \in commit[s].jobs : job[j].status = "deployed" \/ job[j].marker = s

RecordInv ==
  /\ Tokens /\ DeadIdle /\ RowsClean /\ late = {}
  /\ \A p \in Proc : ProcOK(p)
  /\ OneFlight /\ FlightOnRecord /\ OnRecord

-----------------------------------------------------------------------------
(* What a step does to the rows, row by row: it gives up no push that is   *)
(* under way, no marker but to a deployment or after the push failed, and  *)
(* no cancel request.                                                      *)

Careful(r, new) ==
  /\ r.status \in Terminal => new.status = r.status
  /\ r.cancel => \/ new.status \in Terminal
                 \/ new.cancel /\ new.status \in {r.status, "needs_reconcile", "blocked"}
  /\ r.marker # 0 => \/ new.marker = r.marker
                     \/ new.status = "deployed"
                     \/ ~Still(r.marker)
  /\ r.marker \in Sha /\ Flight(r.marker) /\ r.status \in {"in_progress", "needs_reconcile"}
       => new.marker = r.marker /\ new.status \in {"in_progress", "needs_reconcile"}
  /\ RowClean(new)
AllCareful == \A j \in Job : Careful(job[j], job'[j])

LEMMA SameRow ==
  ASSUME NEW r, RowClean(r)
  PROVE  Careful(r, r)
  BY DEF Careful

LEMMA CarefulChain ==
  ASSUME NEW r, NEW m, NEW n, Careful(r, m), Careful(m, n)
  PROVE  Careful(r, n)
  BY DEF Careful, Terminal

LEMMA SameRowsCareful ==
  ASSUME RecordInv, UNCHANGED job
  PROVE  AllCareful
  BY SameRow DEF RecordInv, RowsClean, AllCareful

LEMMA NoSha == 0 \notin Sha
  BY MaxShaAssumption DEF Sha

LEMMA OrphanedCareful ==
  ASSUME NEW r \in Row, RowClean(r)
  PROVE  /\ Careful(r, Orphaned(r)) /\ Orphaned(r).status # "in_progress"
         /\ Unresolved(r) => Orphaned(r) = r
  BY NoSha DEF Careful, Terminal, Orphaned, RowClean, Row, Unresolved, IsReconcileConflict

LEMMA SplitCareful ==
  ASSUME Inv, RecordInv, NEW j \in Job
  PROVE  /\ Careful(job[j], Split(job)[j]) /\ Careful(job[j], AcquiredRows[j])
         /\ Unresolved(job[j]) => AcquiredRows[j] = job[j]
  <1>1. job[j] \in Row /\ RowClean(job[j]) /\ Split(job)[j] = Orphaned(job[j])
    BY DEF Inv, TypeOK, StoreTypeOK, RecordInv, RowsClean, Split
  <1> QED BY <1>1, OrphanedCareful, SameRow DEF AcquiredRows

(* The remote, as far as a push of a lease holder is concerned: nothing    *)
(* new comes under way, and a landing is one of a push under way.          *)
Calm ==
  /\ \A q \in Proc : run'[q].pc = "pulsed" => run[q].pc = "pulsed" /\ run'[q].sha = run[q].sha
  /\ \A s \in Sha : \/ wire'[s] = wire[s]
                    \/ wire[s] = "running" /\ wire'[s] # "running"
                    \/ Pulsed(s)
  /\ \A s \in landed' : s \in landed \/ (s \in Sha /\ wire[s] = "running" /\ wire'[s] = "landed")

CommitsStay ==
  /\ \A s \in Sha : Built(s) => commit'[s] = commit[s]
  /\ landed \subseteq landed'

LEMMA CommitsGrow ==
  ASSUME TypeOK, CommitsStay
  PROVE  Grows
  BY DEF CommitsStay, Grows, Built, TypeOK, RemoteTypeOK

LEMMA CalmFlight ==
  ASSUME Calm, NEW s \in Sha
  PROVE  /\ Pulsed(s)' => Pulsed(s)
         /\ Flight(s)' => Flight(s)
         /\ Still(s)' => Still(s)
  BY DEF Calm, Pulsed, Flight, Still

LEMMA CalmNoFlight ==
  ASSUME Calm, NoFlight
  PROVE  NoFlight'
  BY CalmFlight DEF NoFlight

-----------------------------------------------------------------------------
(* A process another one's step leaves alone.                              *)

(* q keeps its lease and its rows, or loses both; and nobody writes to     *)
(* what a reconcile has read.                                              *)
LeftAlone(q) ==
  /\ run'[q] = run[q] /\ asked'[q] = asked[q]
  /\ HasLease(q)' => HasLease(q) /\ Calm
  /\ \A j \in Job : OwnedBy(q, j)' => /\ OwnedBy(q, j) /\ HasLease(q)'
                                      /\ job'[j].marker = job[j].marker
  /\ HasLease(q)' => \A j \in Job : OwnedBy(q, j) => OwnedBy(q, j)'
  /\ run[q].pc \in Asking =>
       /\ HasLease(q)' /\ ~lock'.expired /\ ~AnyClaimed(job')
       /\ \A j \in Job : Unresolved(job[j]) => job'[j] = job[j]

LEMMA FrameAlone ==
  ASSUME Inv, LandingInv, RecordInv, CommitsStay, NEW q \in Proc, run'[q] = run[q]
  PROVE  FrameOK(q)'
  <1>1. FrameOK(q) /\ run[q].sha \in {0} \union Sha /\ RunSound(run[q]) /\ TypeOK /\ Grows
    BY CommitsGrow DEF RecordInv, ProcOK, Inv, TypeOK, RunnerTypeOK, Run, LandingInv, RunsSound
  <1>2. run[q].sha # 0 => commit'[run[q].sha] = commit[run[q].sha]
    BY <1>1 DEF RunSound, CommitsStay
  <1>3. run[q].pc = "gated" /\ Pushes(q) => run[q].sha # 0
    BY <1>1 DEF RunSound, Pushes
  <1>4. \A j \in run[q].batch : Landed(j) => Landed(j)'
    BY <1>1, LandedStays
  <1> QED BY <1>1, <1>2, <1>3, <1>4 DEF FrameOK, Pushes

LEMMA MarkersAlone ==
  ASSUME Inv, RecordInv, NEW q \in Proc, LeftAlone(q)
  PROVE  OwnerHolds(q)' /\ MarkersOK(q)'
  <1>1. OwnerHolds(q)'
    BY DEF LeftAlone, OwnerHolds
  <1>2. ASSUME NEW j \in Job, OwnedBy(q, j)'
        PROVE  /\ j \in run'[q].rest => job'[j].marker = 0
               /\ j \in run'[q].batch
                    /\ (~Pushes(q)' \/ run'[q].pc \in {"assembling", "gated", "refused"})
                    => job'[j].marker = 0
               /\ j \in run'[q].batch /\ run'[q].pc \in Carrying
                    => job'[j].marker = run'[q].sha
               /\ run'[q].pc = "finishing" => FinishOK(run[q].plan[j], job[j].marker)'
    <2>1. /\ OwnedBy(q, j) /\ Calm /\ job'[j].marker = job[j].marker
          /\ run'[q] = run[q] /\ job[j].marker \in {0} \union Sha
      BY <1>2 DEF LeftAlone, RecordInv, RowsClean, RowClean
    <2>2. MarkersOK(q)
      BY DEF RecordInv, ProcOK
    <2>3. job[j].marker \in Sha => /\ Flight(job[j].marker)' => Flight(job[j].marker)
                                   /\ Still(job[j].marker)' => Still(job[j].marker)
      BY <2>1, CalmFlight
    <2> QED BY <2>1, <2>2, <2>3 DEF MarkersOK, FinishOK, Pushes
  <1> QED BY <1>1, <1>2 DEF MarkersOK

LEMMA LeaseAlone ==
  ASSUME Inv, RecordInv, NEW q \in Proc, LeftAlone(q)
  PROVE  LeaseOK(q)'
  <1> SUFFICES ASSUME HasLease(q)' PROVE LeaseOK(q)'
    BY DEF LeaseOK
  <1>1. /\ HasLease(q) /\ Calm /\ run'[q] = run[q] /\ LeaseOK(q)
        /\ \A j \in Job : OwnedBy(q, j) => OwnedBy(q, j)'
        /\ run[q].batch \subseteq Job /\ run[q].sha \in {0} \union Sha
    BY DEF LeftAlone, RecordInv, ProcOK, Inv, TypeOK, RunnerTypeOK, Run
  <1>2. NoFlight => NoFlight'
    BY <1>1, CalmNoFlight
  <1>3. \A s \in Sha : ~Pulsed(s) => /\ ~Pulsed(s)'
                                     /\ wire'[s] = "running" => wire[s] = "running"
                                     /\ wire[s] = "landed" => wire'[s] = "landed"
    BY <1>1, CalmFlight DEF Calm
  <1>4. \A j \in run[q].batch : Awaits(q, j) => Awaits(q, j)'
    BY <1>1 DEF Awaits
  <1>5. NoFlight /\ run[q].sha \notin landed => run[q].sha \notin landed'
    BY <1>1 DEF Calm, NoFlight, Flight
  <1>6. CASE run[q].pc = "pulsed"
    BY <1>1, <1>6 DEF Calm, LeaseOK, RecordInv, OneFlight, Guarded
  <1>7. CASE run[q].pc = "pushing"
    <2>1. run[q].sha \in landed' => run[q].sha \in landed \/ wire'[run[q].sha] = "landed"
      BY <1>1 DEF Calm
    <2>2. landed \subseteq Sha
      BY DEF Inv, TypeOK, RemoteTypeOK
    <2> QED BY <1>1, <1>3, <1>7, <2>1, <2>2 DEF LeaseOK, Guarded
  <1>8. CASE run[q].pc \notin {"pulsed", "pushing"}
    <2>1. ~Pushes(q) => run[q].pc \notin {"marked", "locked", "rejected"}
      BY DEF RecordInv, ProcOK, FrameOK, Carrying
    <2> QED BY <1>1, <1>2, <1>3, <1>4, <1>5, <1>8, <2>1 DEF LeaseOK, Guarded, Pushes
  <1> QED BY <1>6, <1>7, <1>8

LEMMA AskAlone ==
  ASSUME Inv, RecordInv, NEW q \in Proc, LeftAlone(q)
  PROVE  AskOK(q)' /\ PlanOK(q)'
  <1>1. AskOK(q) /\ PlanOK(q) /\ run'[q] = run[q] /\ asked'[q] = asked[q]
    BY DEF RecordInv, ProcOK, LeftAlone
  <1>2. PlanOK(q)'
    BY <1>1 DEF PlanOK
  <1>3. CASE run[q].pc \notin Asking
    BY <1>1, <1>2, <1>3 DEF AskOK, Asking
  <1>4. CASE run[q].pc \in Asking
    <2>1. /\ HasLease(q)' /\ HasLease(q) /\ ~lock'.expired /\ ~AnyClaimed(job)' /\ Calm
          /\ \A j \in Job : Unresolved(job[j]) => job'[j] = job[j]
      BY <1>4 DEF LeftAlone
    <2>2. run[q].pc \in {"reading", "applying"} => NoFlight
      BY <2>1 DEF RecordInv, ProcOK, LeaseOK
    <2>3. run[q].pc \in {"reading", "applying"} =>
            \A j \in Job : job[j].marker \notin landed => job[j].marker \notin landed'
      BY <2>1, <2>2 DEF Calm, NoFlight, Flight
    <2>4. run[q].pc \in {"probing", "reading"} =>
            \A j \in Subjects(asked[q].rows) : Unresolved(job[j])
      BY <1>1 DEF AskOK, Subjects
    <2>5. \A s \in Sha : Flight(s)' => Flight(s)
      BY <2>1, CalmFlight
    <2> QED BY <1>1, <1>2, <2>1, <2>3, <2>4, <2>5 DEF AskOK, Subjects
  <1> QED BY <1>3, <1>4

LEMMA Alone ==
  ASSUME Inv, LandingInv, RecordInv, CommitsStay, NEW q \in Proc, LeftAlone(q)
  PROVE  ProcOK(q)'
  BY FrameAlone, MarkersAlone, LeaseAlone, AskAlone DEF ProcOK, LeftAlone

-----------------------------------------------------------------------------
(* What the processes share.                                               *)

NoStart == \A s \in Sha : wire'[s] = "running" => wire[s] = "running"

LEMMA StillBuilt ==
  ASSUME Inv, LandingInv, NEW s \in Sha, Still(s)
  PROVE  Built(s)
  <1>1. CASE wire[s] = "running" \/ s \in landed
    BY <1>1 DEF LandingInv, RemoteSound
  <1>2. CASE Pulsed(s)
    BY <1>2, NoSha DEF Pulsed, LandingInv, RunsSound, RunSound
  <1> QED BY <1>1, <1>2 DEF Still, Flight

LEMMA SharedKeep ==
  ASSUME Inv, LandingInv, RecordInv, CommitsStay, Calm, NoStart, AllCareful
  PROVE  RowsClean' /\ OneFlight' /\ FlightOnRecord' /\ OnRecord'
  <1>1. RowsClean'
    BY DEF AllCareful, Careful, RowsClean, RowClean, IsReconcileConflict
  <1>2. OneFlight'
    BY DEF RecordInv, OneFlight, OnePush, Calm, NoStart
  <1>3. FlightOnRecord'
    <2> SUFFICES ASSUME NEW s \in Sha, Flight(s)', NEW j \in commit'[s].jobs
                 PROVE  /\ job'[j].marker = s
                        /\ job'[j].status \in {"in_progress", "needs_reconcile"}
      BY DEF FlightOnRecord
    <2>1. Flight(s)
      BY CalmFlight
    <2>2. commit'[s] = commit[s]
      BY <2>1, StillBuilt DEF CommitsStay, Still
    <2>3. /\ j \in Job /\ job[j].marker = s
          /\ job[j].status \in {"in_progress", "needs_reconcile"}
      BY <2>1, <2>2 DEF RecordInv, FlightOnRecord, Inv, TypeOK, RemoteTypeOK
    <2> QED BY <2>1, <2>3 DEF AllCareful, Careful
  <1>4. OnRecord'
    <2> SUFFICES ASSUME NEW s \in Sha, Still(s)', NEW j \in commit'[s].jobs
                 PROVE  job'[j].status = "deployed" \/ job'[j].marker = s
      BY DEF OnRecord
    <2>1. Still(s)
      BY CalmFlight
    <2>2. commit'[s] = commit[s]
      BY <2>1, StillBuilt DEF CommitsStay
    <2>3. j \in Job /\ s # 0
      BY <2>2, NoSha DEF Inv, TypeOK, RemoteTypeOK
    <2>4. job[j].status = "deployed" \/ job[j].marker = s
      BY <2>1, <2>2 DEF RecordInv, OnRecord
    <2> QED BY <2>1, <2>3, <2>4 DEF AllCareful, Careful, Terminal
  <1> QED BY <1>1, <1>2, <1>3, <1>4

LEMMA StepKeeps ==
  ASSUME Inv, LandingInv, RecordInv, CommitsStay, Calm, NoStart, AllCareful,
         Tokens', DeadIdle', late' = {}, \A q \in Proc : ProcOK(q)'
  PROVE  RecordInv' /\ AllCareful
  BY SharedKeep DEF RecordInv

-----------------------------------------------------------------------------
(* Steps that change neither rows nor the lease.                           *)

LEMMA RemoteSame ==
  ASSUME RecordInv, UNCHANGED remoteVars
  PROVE  CommitsStay /\ NoStart /\ late' = {}
  BY DEF remoteVars, CommitsStay, NoStart, RecordInv

LEMMA WireSame ==
  ASSUME UNCHANGED <<wire, landed>>,
         \A q \in Proc : run'[q].pc = "pulsed" => run[q].pc = "pulsed" /\ run'[q].sha = run[q].sha
  PROVE  Calm
  BY DEF Calm

LEMMA OtherLeft ==
  ASSUME RecordInv, NEW q \in Proc, run'[q] = run[q], asked'[q] = asked[q],
         UNCHANGED <<job, lock>>, Calm
  PROVE  LeftAlone(q)
  <1>1. /\ HasLease(q)' <=> HasLease(q)
        /\ \A j \in Job : OwnedBy(q, j)' <=> OwnedBy(q, j)
    BY DEF HasLease, Holds, OwnedBy
  <1>2. OwnerHolds(q) /\ AskOK(q)
    BY DEF RecordInv, ProcOK
  <1> QED BY <1>1, <1>2 DEF LeftAlone, OwnerHolds, AskOK

LEMMA TokensStay ==
  ASSUME Inv, RecordInv, UNCHANGED issued, NEW p \in Proc, run'[p].tok \in {0, run[p].tok},
         \A q \in Proc \ {p} : run'[q] = run[q]
  PROVE  Tokens'
  <1>1. issued \in Nat
    BY DEF Inv, TypeOK, StoreTypeOK
  <1> QED BY <1>1 DEF RecordInv, Tokens

LEMMA UpIdle ==
  ASSUME RecordInv, NEW p \in Proc, life[p] = "up", UNCHANGED life,
         \A q \in Proc \ {p} : run'[q] = run[q]
  PROVE  DeadIdle'
  BY DEF RecordInv, DeadIdle

LEMMA LocalKeeps ==
  ASSUME Inv, LandingInv, RecordInv, NEW p \in Proc, life[p] = "up",
         UNCHANGED <<quiet, wire, late, landed>>, CommitsStay,
         \A q \in Proc \ {p} : run'[q] = run[q] /\ asked'[q] = asked[q],
         run'[p].tok \in {0, run[p].tok},
         run'[p].pc # "pulsed", ProcOK(p)'
  PROVE  RecordInv' /\ AllCareful
  <1>1. Calm
    BY WireSame
  <1>2. UNCHANGED <<job, issued, lock, life>>
    BY DEF quiet, storeVars, leaseVars
  <1>3. Tokens' /\ DeadIdle' /\ AllCareful /\ NoStart /\ late' = {}
    BY <1>2, TokensStay, UpIdle, SameRowsCareful DEF NoStart, RecordInv
  <1>4. \A q \in Proc : ProcOK(q)'
    BY <1>1, <1>2, <1>3, OtherLeft, Alone
  <1> QED BY <1>1, <1>3, <1>4, StepKeeps

LEMMA GotoFields ==
  ASSUME TypeOK, NEW p \in Proc, NEW pc, Goto(p, pc)
  PROVE  /\ run'[p].pc = pc /\ run'[p].tok = run[p].tok /\ run'[p].mode = run[p].mode
         /\ run'[p].batch = run[p].batch /\ run'[p].rest = run[p].rest
         /\ run'[p].sha = run[p].sha /\ run'[p].plan = run[p].plan
         /\ run'[p].stops = run[p].stops
         /\ \A q \in Proc \ {p} : run'[q] = run[q]
  <1>1. run' = [run EXCEPT ![p] = [run[p] EXCEPT !.pc = pc]] /\ run[p] \in Run
    BY DEF Goto, TypeOK, RunnerTypeOK, Run
  <1> QED BY <1>1 DEF TypeOK, RunnerTypeOK, Run

(* The same rows under the same lease.                                     *)
LEMMA SameClaim ==
  ASSUME NEW p \in Proc, UNCHANGED quiet, run'[p].tok = run[p].tok
  PROVE  /\ HasLease(p)' <=> HasLease(p)
         /\ \A j \in Job : OwnedBy(p, j)' <=> OwnedBy(p, j)
         /\ UNCHANGED <<job, lock>>
  BY DEF quiet, storeVars, leaseVars, HasLease, Holds, OwnedBy

LEMMA EndKeeps ==
  ASSUME Inv, LandingInv, RecordInv, NEW p \in Proc, life[p] = "up",
         NEW pc \in {"raising", "leaving"},
         UNCHANGED <<quiet, remoteVars>>,
         run'[p].pc = pc, run'[p].tok = run[p].tok, run'[p].mode = run[p].mode,
         run'[p].batch = run[p].batch, run'[p].rest = run[p].rest,
         pc = "leaving" => run'[p].plan = Unplanned,
         \A q \in Proc \ {p} : run'[q] = run[q] /\ asked'[q] = asked[q]
  PROVE  RecordInv' /\ AllCareful
  <1>1. OwnerHolds(p) /\ MarkersOK(p) /\ PlanOK(p)
    BY DEF RecordInv, ProcOK
  <1>2. OwnerHolds(p)' /\ MarkersOK(p)'
    BY <1>1, SameClaim DEF OwnerHolds, MarkersOK, Pushes, Carrying
  <1>3. FrameOK(p)' /\ PlanOK(p)'
    BY <1>1 DEF FrameOK, PlanOK, Carrying
  <1>4. LeaseOK(p)' /\ AskOK(p)'
    BY DEF LeaseOK, AskOK, Guarded, Asking, Carrying
  <1> QED BY <1>2, <1>3, <1>4, LocalKeeps, RemoteSame DEF ProcOK, remoteVars

LEMMA PlanFields ==
  ASSUME TypeOK, NEW p \in Proc, NEW S, NEW to, NEW others, Plan(p, S, to, others)
  PROVE  /\ run'[p].pc = "finishing" /\ run'[p].tok = run[p].tok
         /\ run'[p].mode = run[p].mode /\ run'[p].stops = run[p].stops
         /\ run'[p].batch = run[p].batch /\ run'[p].rest = run[p].rest
         /\ \A j \in Job : run'[p].plan[j] = IF j \in S THEN to
                                             ELSE IF j \in run[p].batch THEN others ELSE "none"
         /\ \A q \in Proc \ {p} : run'[q] = run[q]
  <1> DEFINE plan == [j \in Job |-> IF j \in S THEN to
                                  ELSE IF j \in run[p].batch THEN others ELSE "none"]
  <1>1. run' = [run EXCEPT ![p] = [run[p] EXCEPT !.pc = "finishing", !.sha = 0, !.base = 0,
                                                 !.plan = plan]]
    BY DEF TypeOK, RunnerTypeOK, Run, Plan
  <1>2. /\ run'[p].tok = run[p].tok /\ run'[p].mode = run[p].mode
        /\ run'[p].stops = run[p].stops
        /\ run'[p].batch = run[p].batch /\ run'[p].rest = run[p].rest
    <2> HIDE DEF plan
    <2> QED BY <1>1 DEF TypeOK, RunnerTypeOK, Run
  <1> QED BY <1>2, PlanRun

(* The outcome of a frame is planned.                                      *)
LEMMA PlanKeeps ==
  ASSUME Inv, LandingInv, RecordInv, NEW p \in Proc, life[p] = "up",
         NEW S \in SUBSET run[p].batch, NEW to, NEW others, Plan(p, S, to, others),
         others # "validated", to = "validated" => S = run[p].batch \/ others = "none",
         \A j \in run[p].batch : OwnedBy(p, j) =>
           FinishOK(IF j \in S THEN to ELSE others, job[j].marker),
         HasLease(p) /\ Pushes(p) =>
           /\ \A s \in Sha : ~Pulsed(s) \/ (run[p].pc = "pulsed" /\ run[p].sha = s)
           /\ run[p].rest # {} => \/ NoFlight \/ run[p].stops
                                  \/ /\ run[p].batch # {} /\ S = run[p].batch
                                     /\ to = "needs_reconcile"
                                     /\ \A j \in run[p].batch : OwnedBy(p, j),
         UNCHANGED <<quiet, remoteVars, asked>>
  PROVE  RecordInv' /\ AllCareful
  <1>1. /\ run'[p].pc = "finishing" /\ run'[p].tok = run[p].tok /\ run'[p].mode = run[p].mode
        /\ run'[p].batch = run[p].batch /\ run'[p].rest = run[p].rest
        /\ run'[p].stops = run[p].stops
        /\ \A j \in Job : run'[p].plan[j] = IF j \in S THEN to
                                            ELSE IF j \in run[p].batch THEN others ELSE "none"
        /\ \A q \in Proc \ {p} : run'[q] = run[q]
        /\ run[p].batch \subseteq Job
    BY PlanFields DEF Inv, TypeOK, RunnerTypeOK, Run
  <1>2. OwnerHolds(p) /\ MarkersOK(p) /\ PlanOK(p)
    BY DEF RecordInv, ProcOK
  <1>3. OwnerHolds(p)' /\ MarkersOK(p)'
    <2>1. OwnerHolds(p)'
      BY <1>1, <1>2, SameClaim DEF OwnerHolds
    <2>2. ASSUME NEW j \in Job, OwnedBy(p, j)
          PROVE  FinishOK(run[p].plan[j], job[j].marker)'
      <3>1. CASE j \in run[p].batch
        <4>1. FinishOK(run'[p].plan[j], job[j].marker)
          BY <1>1, <2>2, <3>1
        <4>2. job'[j] = job[j] /\ \A s \in Sha : Flight(s)' => Flight(s)
          <5>1. \A s \in Sha : Pulsed(s)' => Pulsed(s)
            BY <1>1 DEF Pulsed
          <5> QED BY <5>1 DEF Flight, quiet, storeVars, remoteVars
        <4>3. job[j].marker \in {0} \union Sha /\ landed' = landed
          BY DEF RecordInv, RowsClean, RowClean, remoteVars
        <4> QED BY <4>1, <4>2, <4>3 DEF FinishOK, Still
      <3>2. CASE j \notin run[p].batch
        BY <1>1, <3>2 DEF FinishOK
      <3> QED BY <3>1, <3>2
    <2>3. MarkersOK(p)'
      BY <1>1, <1>2, <2>2, SameClaim DEF MarkersOK, Pushes, Carrying
    <2> QED BY <2>1, <2>3
  <1>4. FrameOK(p)' /\ PlanOK(p)'
    BY <1>1, <1>2 DEF FrameOK, PlanOK, Carrying
  <1>5. LeaseOK(p)' /\ AskOK(p)'
    <2>1. HasLease(p) /\ Pushes(p) => \A s \in Sha : ~Pulsed(s)'
      BY <1>1 DEF Pulsed, RecordInv, OneFlight
    <2>2. HasLease(p) /\ Pushes(p) /\ NoFlight => NoFlight'
      BY <2>1 DEF NoFlight, Flight, remoteVars
    <2>3. \A j \in run[p].batch :
            to = "needs_reconcile" /\ S = run[p].batch /\ OwnedBy(p, j) => Awaits(p, j)'
      BY <1>1, SameClaim DEF Awaits
    <2> QED BY <1>1, <2>1, <2>2, <2>3, SameClaim DEF LeaseOK, AskOK, Guarded, Asking, Pushes, Carrying
  <1> QED BY <1>1, <1>3, <1>4, <1>5, LocalKeeps, RemoteSame DEF ProcOK, remoteVars

-----------------------------------------------------------------------------
(* The steps of a run that change only what it does.                       *)

LEMMA RunOK ==
  ASSUME Inv, RecordInv, NEW p \in Proc
  PROVE  /\ OwnerHolds(p) /\ FrameOK(p) /\ MarkersOK(p) /\ PlanOK(p) /\ LeaseOK(p) /\ AskOK(p)
         /\ run[p].batch \subseteq Job /\ run[p].rest \subseteq Job
         /\ run[p].sha \in {0} \union Sha
         /\ run[p].plan \in [Job -> Planned] /\ run[p].tok \in Nat
  BY DEF RecordInv, ProcOK, Inv, TypeOK, RunnerTypeOK, Run

LEMMA ErrorKeeps ==
  ASSUME Inv, LandingInv, RecordInv, NEW p \in Proc, LoseLease(p) \/ Contended(p), UNCHANGED asked
  PROVE  RecordInv' /\ AllCareful
  BY GotoFields, EndKeeps DEF LoseLease, Contended, Inv

LEMMA PlanAllFields ==
  ASSUME NEW p \in Proc, NEW to, PlanAll(p, to)
  PROVE  Plan(p, run[p].batch, to, "none")
  <1>1. [j \in Job |-> IF j \in run[p].batch THEN to ELSE IF j \in run[p].batch THEN to ELSE "none"]
         = [j \in Job |-> IF j \in run[p].batch THEN to
                          ELSE IF j \in run[p].batch THEN "none" ELSE "none"]
    OBVIOUS
  <1> QED BY <1>1, Zenon DEF PlanAll, Plan

(* The outcome of a whole frame is planned.                                *)
LEMMA PlanAllKeeps ==
  ASSUME Inv, LandingInv, RecordInv, NEW p \in Proc, life[p] = "up", NEW to, PlanAll(p, to),
         \A j \in run[p].batch : OwnedBy(p, j) => FinishOK(to, job[j].marker),
         HasLease(p) /\ Pushes(p) =>
           /\ \A s \in Sha : ~Pulsed(s) \/ (run[p].pc = "pulsed" /\ run[p].sha = s)
           /\ \/ NoFlight
              \/ /\ run[p].batch # {} /\ to = "needs_reconcile"
                 /\ \A j \in run[p].batch : OwnedBy(p, j),
         UNCHANGED <<quiet, remoteVars, asked>>
  PROVE  RecordInv' /\ AllCareful
  BY PlanAllFields, PlanKeeps

LEMMA NoPulse ==
  ASSUME NoFlight
  PROVE  \A s \in Sha : ~Pulsed(s)
  BY DEF NoFlight, Flight

LEMMA BeforePushKeeps ==
  ASSUME Inv, LandingInv, RecordInv, NEW p \in Proc, UNCHANGED asked,
         \/ SeeCancel(p) \/ RecordTrain(p) \/ StopRecording(p)
         \/ \E reached \in SUBSET run[p].batch, to \in {"blocked", "failed"} : Stop(p, reached, to)
  PROVE  RecordInv' /\ AllCareful
  <1> USE RunOK
  <1>1. run[p].pc \in {"assembling", "gated"} =>
          /\ \A j \in run[p].batch : OwnedBy(p, j) => job[j].marker = 0
          /\ HasLease(p) /\ Pushes(p) => NoFlight /\ \A s \in Sha : ~Pulsed(s)
    BY NoPulse DEF MarkersOK, LeaseOK, Guarded
  <1>2. \A to \in {"canceled", "validated", "blocked", "failed", "queued", "none"} : FinishOK(to, 0)
    BY DEF FinishOK
  <1>3. CASE SeeCancel(p)
    BY <1>1, <1>2, <1>3, PlanAllKeeps DEF SeeCancel
  <1>4. CASE RecordTrain(p)
    BY <1>1, <1>2, <1>4, PlanAllKeeps DEF RecordTrain, At
  <1>5. CASE \E reached \in SUBSET run[p].batch, to \in {"blocked", "failed"} : Stop(p, reached, to)
    <2> PICK reached \in SUBSET run[p].batch, to \in {"blocked", "failed"} : Stop(p, reached, to)
      BY <1>5
    <2> QED BY <1>1, <1>2, PlanKeeps DEF Stop
  <1>6. CASE StopRecording(p)
    <2>1. /\ At(p, "finishing") /\ \A j \in Job : run[p].plan[j] \in {"none", "validated"}
          /\ ToWrite(p) \subseteq run[p].batch
          /\ Plan(p, ToWrite(p), "failed", "none") /\ UNCHANGED <<quiet, remoteVars>>
      BY <1>6 DEF StopRecording, PlanOK, At, ToWrite
    <2>2. \A j \in run[p].batch : OwnedBy(p, j) =>
            FinishOK(IF j \in ToWrite(p) THEN "failed" ELSE "none", job[j].marker)
      BY <2>1 DEF MarkersOK, ToWrite, FinishOK, At
    <2>3. HasLease(p) /\ Pushes(p) =>
            /\ \A s \in Sha : ~Pulsed(s)
            /\ run[p].rest # {} => NoFlight \/ run[p].stops
      BY <2>1 DEF LeaseOK, Awaits, At
    <2> QED BY <2>1, <2>2, <2>3, PlanKeeps DEF At
  <1> QED BY <1>3, <1>4, <1>5, <1>6

LEMMA OutcomeKeeps ==
  ASSUME Inv, LandingInv, RecordInv, NEW p \in Proc, UNCHANGED asked,
         \/ PinFails(p) \/ PushSucceeds(p) \/ PushAmbiguous(p) \/ JudgeRefusal(p)
         \/ HoldPushLock(p) /\ PushInFlight(run[p].sha)
  PROVE  RecordInv' /\ AllCareful
  <1> USE RunOK
  <1>1. run[p].pc \in {"marked", "pushing"} =>
          /\ run[p].sha \in Sha /\ run[p].batch # {} /\ Pushes(p)
          /\ \A j \in run[p].batch : OwnedBy(p, j) => job[j].marker = run[p].sha /\ HasLease(p)
    BY DEF FrameOK, MarkersOK, OwnerHolds, Carrying
  <1>2. run[p].pc = "marked" /\ HasLease(p) =>
          NoFlight /\ run[p].sha \notin landed /\ \A s \in Sha : ~Pulsed(s)
    BY <1>1, NoPulse DEF LeaseOK, Guarded
  <1>3. run[p].pc = "pushing" /\ HasLease(p) =>
          /\ \A s \in Sha : ~Pulsed(s) /\ (wire[s] = "running" => s = run[p].sha)
          /\ \A j \in run[p].batch : OwnedBy(p, j)
    BY DEF LeaseOK, Carrying
  <1>4. CASE PinFails(p)
    <2>1. \A j \in run[p].batch : OwnedBy(p, j) => FinishOK("blocked", job[j].marker)
      BY <1>1, <1>2, <1>4 DEF PinFails, At, FinishOK, NoFlight, Still
    <2> QED BY <1>2, <1>4, <2>1, PlanAllKeeps DEF PinFails, At
  <1>5. CASE PushSucceeds(p)
    <2>1. HasLease(p) => NoFlight
      BY <1>1, <1>3, <1>5 DEF PushSucceeds, At, NoFlight, Flight
    <2>2. \A j \in run[p].batch : OwnedBy(p, j) => FinishOK("deployed", job[j].marker)
      BY <1>1, <1>5, <2>1, NoSha DEF PushSucceeds, At, FinishOK, NoFlight
    <2> QED BY <1>3, <1>5, <2>1, <2>2, PlanAllKeeps DEF PushSucceeds, At
  <1>6. CASE PushAmbiguous(p)
    <2>1. \A j \in run[p].batch : OwnedBy(p, j) => FinishOK("needs_reconcile", job[j].marker)
      BY <1>1, <1>6, NoSha DEF PushAmbiguous, At, FinishOK
    <2> QED BY <1>1, <1>3, <1>6, <2>1, PlanAllKeeps DEF PushAmbiguous, At
  <1>7. CASE JudgeRefusal(p)
    <2>1. PICK to \in {"queued", "blocked"} : PlanAll(p, to)
      BY <1>7 DEF JudgeRefusal
    <2>2. \A j \in run[p].batch : OwnedBy(p, j) => job[j].marker = 0
      BY <1>7 DEF JudgeRefusal, At, MarkersOK
    <2>3. HasLease(p) => NoFlight /\ \A s \in Sha : ~Pulsed(s)
      BY <1>7, NoPulse DEF JudgeRefusal, At, LeaseOK, Guarded, FrameOK
    <2> QED BY <1>7, <2>1, <2>2, <2>3, PlanAllKeeps DEF JudgeRefusal, At, FinishOK
  <1>8. CASE HoldPushLock(p) /\ PushInFlight(run[p].sha)
    <2>1. \A j \in run[p].batch : OwnedBy(p, j) => FinishOK("needs_reconcile", job[j].marker)
      BY <1>1, <1>8, NoSha DEF HoldPushLock, At, FinishOK
    <2> QED BY <1>2, <1>8, <2>1, PlanAllKeeps DEF HoldPushLock, At
  <1> QED BY <1>4, <1>5, <1>6, <1>7, <1>8

LEMMA NarrowKeeps ==
  ASSUME Inv, LandingInv, RecordInv, NEW p \in Proc, UNCHANGED asked, Isolate(p) \/ KeepLease(p)
  PROVE  RecordInv' /\ AllCareful
  <1> USE RunOK
  <1>1. CASE Isolate(p)
    <2>1. PICK j \in run[p].batch :
            run' = [run EXCEPT ![p] = [@ EXCEPT !.batch = {j}, !.rest = run[p].batch \ {j}]]
      BY <1>1 DEF Isolate
    <2>0. run[p].pc = "assembling" /\ life[p] = "up" /\ UNCHANGED <<quiet, remoteVars>>
      BY <1>1 DEF Isolate, At
    <2>2. /\ run'[p].pc = "assembling" /\ run'[p].tok = run[p].tok
          /\ run'[p].mode = run[p].mode /\ run'[p].batch = {j}
          /\ run'[p].rest = run[p].batch \ {j} /\ run'[p].plan = run[p].plan
          /\ \A q \in Proc \ {p} : run'[q] = run[q]
      BY <2>0, <2>1 DEF Inv, TypeOK, RunnerTypeOK, Run
    <2>3. OwnerHolds(p)' /\ MarkersOK(p)'
      BY <2>0, <2>2, SameClaim DEF OwnerHolds, MarkersOK, Pushes, Carrying
    <2>4. FrameOK(p)' /\ PlanOK(p)' /\ AskOK(p)'
      BY <2>0, <2>2 DEF FrameOK, PlanOK, AskOK, Asking, Carrying
    <2>5. NoFlight => NoFlight'
      BY <2>0, <2>2, WireSame, CalmNoFlight DEF remoteVars
    <2>6. LeaseOK(p)'
      BY <2>0, <2>2, <2>5, SameClaim DEF LeaseOK, Guarded, Pushes, Carrying
    <2> QED BY <2>0, <2>2, <2>3, <2>4, <2>6, LocalKeeps, RemoteSame DEF ProcOK, remoteVars
  <1>2. CASE KeepLease(p)
    <2>1. run'[p] = Idle /\ \A q \in Proc \ {p} : run'[q] = run[q]
      BY <1>2 DEF KeepLease, Inv, TypeOK, RunnerTypeOK
    <2>2. ~HasLease(p)' /\ \A j \in Job : ~OwnedBy(p, j)'
      BY <2>1 DEF Idle, HasLease, Holds, OwnedBy, Owned
    <2>3. ProcOK(p)'
      BY <2>1, <2>2
      DEF Idle, ProcOK, OwnerHolds, FrameOK, MarkersOK, PlanOK, LeaseOK, AskOK, Asking, Carrying
    <2> QED BY <1>2, <2>1, <2>3, LocalKeeps, RemoteSame DEF KeepLease, Idle, remoteVars
  <1> QED BY <1>1, <1>2

(* From one step of a push to the next under the same lease.               *)
LEMMA CarryKeeps ==
  ASSUME Inv, LandingInv, RecordInv, NEW p \in Proc, UNCHANGED asked,
         PushRefused(p) \/ (HoldPushLock(p) /\ ~PushInFlight(run[p].sha))
  PROVE  RecordInv' /\ AllCareful
  <1> USE RunOK
  <1> DEFINE pc == IF PushRefused(p) THEN "rejected" ELSE "locked"
  <1>1. /\ Goto(p, pc) /\ life[p] = "up" /\ UNCHANGED <<quiet, remoteVars>>
        /\ run[p].pc \in {"marked", "pushing"} /\ pc \in {"rejected", "locked"}
    BY DEF PushRefused, HoldPushLock, At
  <1>2. /\ run'[p].pc = pc /\ run'[p].tok = run[p].tok /\ run'[p].mode = run[p].mode
        /\ run'[p].batch = run[p].batch /\ run'[p].rest = run[p].rest
        /\ run'[p].sha = run[p].sha /\ run'[p].plan = run[p].plan
        /\ \A q \in Proc \ {p} : run'[q] = run[q]
    BY <1>1, GotoFields DEF Inv
  <1>3. OwnerHolds(p)' /\ MarkersOK(p)'
    BY <1>1, <1>2, SameClaim DEF OwnerHolds, MarkersOK, Pushes, Carrying
  <1>4. FrameOK(p)' /\ PlanOK(p)' /\ AskOK(p)'
    BY <1>1, <1>2 DEF FrameOK, PlanOK, AskOK, Asking, Carrying, Pushes, remoteVars
  <1>5. HasLease(p) => NoFlight /\ run[p].sha \notin landed
    <2>1. CASE PushRefused(p)
      BY <2>1 DEF PushRefused, At, LeaseOK, NoFlight, Flight
    <2>2. CASE run[p].pc = "marked"
      BY <2>2 DEF LeaseOK, Guarded, FrameOK, Carrying
    <2> QED BY <2>1, <2>2 DEF HoldPushLock, At
  <1>6. NoFlight => NoFlight'
    BY <1>1, <1>2, WireSame, CalmNoFlight DEF remoteVars
  <1>7. LeaseOK(p)'
    BY <1>1, <1>2, <1>5, <1>6, SameClaim DEF LeaseOK, Guarded, Pushes, Carrying, remoteVars
  <1> HIDE DEF pc
  <1> QED BY <1>1, <1>2, <1>3, <1>4, <1>7, LocalKeeps, RemoteSame DEF ProcOK, remoteVars

(* Isolation goes on only when nothing is under way.                       *)
LEMMA DoneKeeps ==
  ASSUME Inv, LandingInv, RecordInv, NEW p \in Proc, UNCHANGED asked, Done(p)
  PROVE  RecordInv' /\ AllCareful
  <1> USE RunOK
  <1>1. /\ At(p, "finishing") /\ UNCHANGED <<quiet, remoteVars>>
        /\ \A j \in Job : run[p].plan[j] = "none"
    BY DEF Done, ToWrite
  <1>2. run[p].plan = Unplanned
    BY <1>1 DEF Unplanned
  <1>3. CASE run[p].rest = {}
    <2>1. Goto(p, "leaving")
      BY <1>3 DEF Done
    <2> QED BY <1>1, <1>2, <2>1, GotoFields, EndKeeps DEF At, Inv
  <1>4. CASE run[p].rest # {} /\ run[p].stops
    <2>3. /\ run'[p].pc = "finishing" /\ run'[p].tok = run[p].tok
          /\ run'[p].mode = run[p].mode /\ run'[p].batch = run[p].rest /\ run'[p].rest = {}
          /\ \A j \in Job : run'[p].plan[j] = IF j \in run[p].rest THEN "queued" ELSE "none"
          /\ \A q \in Proc \ {p} : run'[q] = run[q]
      BY <1>1, <1>4, ReturnRest DEF At, Inv
    <2>4. OwnerHolds(p)' /\ MarkersOK(p)'
      BY <1>1, <2>3, SameClaim DEF OwnerHolds, MarkersOK, Pushes, Carrying, FinishOK
    <2>5. FrameOK(p)' /\ PlanOK(p)' /\ AskOK(p)'
      BY <2>3 DEF FrameOK, PlanOK, AskOK, Asking, Carrying
    <2>6. \A s \in Sha : ~Pulsed(s) => ~Pulsed(s)'
      BY <2>3 DEF Pulsed
    <2>7. LeaseOK(p)'
      BY <1>1, <2>3, <2>6, SameClaim DEF LeaseOK, Guarded, Pushes, Carrying, At
    <2> QED BY <1>1, <2>3, <2>4, <2>5, <2>7, LocalKeeps, RemoteSame DEF ProcOK, remoteVars, At
  <1>5. CASE run[p].rest # {} /\ ~run[p].stops
    <2>2. PICK j \in run[p].rest :
            /\ run'[p].pc = "assembling" /\ run'[p].tok = run[p].tok
            /\ run'[p].mode = run[p].mode /\ run'[p].batch = {j}
            /\ run'[p].rest = run[p].rest \ {j} /\ run'[p].plan = run[p].plan
            /\ \A q \in Proc \ {p} : run'[q] = run[q]
      BY <1>5, NextInLine DEF Inv
    <2>3. OwnerHolds(p)' /\ MarkersOK(p)'
      BY <1>1, <2>2, SameClaim DEF OwnerHolds, MarkersOK, Pushes, Carrying
    <2>4. FrameOK(p)' /\ PlanOK(p)' /\ AskOK(p)'
      BY <1>2, <2>2 DEF FrameOK, PlanOK, AskOK, Asking, Carrying
    <2>5. NoFlight => NoFlight'
      BY <1>1, <2>2, WireSame, CalmNoFlight DEF remoteVars
    <2>6. HasLease(p) /\ Pushes(p) => NoFlight
      BY <1>1, <1>5 DEF LeaseOK, Awaits, Pushes, At
    <2>7. LeaseOK(p)'
      BY <1>1, <2>2, <2>5, <2>6, SameClaim DEF LeaseOK, Guarded, Pushes, Carrying
    <2> QED BY <1>1, <2>2, <2>3, <2>4, <2>7, LocalKeeps, RemoteSame DEF ProcOK, remoteVars, At
  <1> QED BY <1>3, <1>4, <1>5

-----------------------------------------------------------------------------
(* Assembling: the commit is made of the jobs of the frame, or these have  *)
(* landed before.                                                          *)

LEMMA NamedCommit ==
  ASSUME Inv, LandingInv, NEW p \in Proc, NEW s \in Sha,
         MayName(s, run[p].batch), Build(s, run[p].batch), UNCHANGED landed
  PROVE  /\ CommitsStay
         /\ commit'[s].jobs = run[p].batch \/ \A j \in run[p].batch : Landed(j)'
  <1>1. commit \in [Sha -> [jobs : SUBSET Job, base : Nat]] /\ RemoteSound
    BY DEF Inv, TypeOK, RemoteTypeOK, LandingInv
  <1>2. CASE s = tip /\ MainContains(run[p].batch)
    <2>1. commit' = commit
      BY <1>2 DEF Build
    <2>2. \A j \in run[p].batch : \E t \in landed : j \in commit[t].jobs
      BY <1>1, <1>2, MainAssumption DEF MainContains, RemoteSound
    <2> QED BY <2>1, <2>2 DEF CommitsStay, Landed
  <1>3. CASE commit[s] = [jobs |-> run[p].batch, base |-> tip]
    <2>1. commit' = commit
      BY <1>1, <1>3 DEF Build
    <2> QED BY <1>3, <2>1 DEF CommitsStay
  <1>4. CASE ~Built(s)
    <2>1. s # tip
      BY <1>1, <1>4 DEF RemoteSound
    <2>2. commit' = [commit EXCEPT ![s] = [jobs |-> run[p].batch, base |-> tip]]
      BY <2>1 DEF Build
    <2> QED BY <1>1, <1>4, <2>2 DEF CommitsStay
  <1> QED BY <1>2, <1>3, <1>4 DEF MayName

LEMMA AssembleKeeps ==
  ASSUME Inv, LandingInv, RecordInv, NEW p \in Proc, UNCHANGED asked, Assemble(p)
  PROVE  RecordInv' /\ AllCareful
  <1> USE RunOK
  <1>1. /\ At(p, "assembling") /\ run[p].batch # {}
        /\ UNCHANGED <<quiet, wire, late, landed>>
    BY DEF Assemble
  <1>2. /\ CommitsStay
        /\ run'[p].pc = "gated" /\ run'[p].tok = run[p].tok /\ run'[p].mode = run[p].mode
        /\ run'[p].batch = run[p].batch /\ run'[p].rest = run[p].rest
        /\ run'[p].plan = run[p].plan
        /\ \A q \in Proc \ {p} : run'[q] = run[q]
        /\ Pushes(p) => \/ commit'[run'[p].sha].jobs = run[p].batch
                        \/ \A j \in run[p].batch : Landed(j)'
    <2>1. CASE run[p].mode = "validate"
      <3>1. Goto(p, "gated") /\ UNCHANGED commit
        BY <2>1 DEF Assemble
      <3> QED BY <1>1, <2>1, <3>1, GotoFields DEF Inv, CommitsStay, Pushes
    <2>2. CASE run[p].mode # "validate"
      <3>1. PICK s \in Sha : /\ MayName(s, run[p].batch)
                             /\ Build(s, run[p].batch)
                             /\ run' = [run EXCEPT ![p] = [@ EXCEPT !.pc = "gated", !.sha = s,
                                                                    !.base = tip]]
        BY <2>2 DEF Assemble
      <3>2. /\ run'[p].pc = "gated" /\ run'[p].tok = run[p].tok /\ run'[p].mode = run[p].mode
            /\ run'[p].batch = run[p].batch /\ run'[p].rest = run[p].rest
            /\ run'[p].plan = run[p].plan /\ run'[p].sha = s
            /\ \A q \in Proc \ {p} : run'[q] = run[q]
        BY <3>1 DEF Inv, TypeOK, RunnerTypeOK, Run
      <3> QED BY <1>1, <3>1, <3>2, NamedCommit
    <2> QED BY <2>1, <2>2
  <1>3. OwnerHolds(p)' /\ MarkersOK(p)'
    BY <1>1, <1>2, SameClaim DEF OwnerHolds, MarkersOK, Pushes, Carrying, At
  <1>4. FrameOK(p)' /\ PlanOK(p)' /\ AskOK(p)'
    BY <1>1, <1>2 DEF FrameOK, PlanOK, AskOK, Asking, Carrying, Pushes, At
  <1>5. NoFlight => NoFlight'
    BY <1>1, <1>2, WireSame, CalmNoFlight
  <1>6. LeaseOK(p)'
    BY <1>1, <1>2, <1>5, SameClaim DEF LeaseOK, Guarded, Pushes, Carrying, At
  <1> QED BY <1>1, <1>2, <1>3, <1>4, <1>6, LocalKeeps DEF ProcOK, At
-----------------------------------------------------------------------------
(* A reconcile asks the remote when nothing is under way any more.         *)

(* A push under way has a row that says so, and somebody holds its lock.   *)
LEMMA FlightSeen ==
  ASSUME Inv, LandingInv, RecordInv, NEW s \in Sha, Flight(s)
  PROVE  /\ PushInFlight(s)
         /\ \E j \in Job : /\ job[j].marker = s
                           /\ job[j].status \in {"in_progress", "needs_reconcile"}
  <1>1. PICK j \in commit[s].jobs : TRUE
    BY StillBuilt DEF Still, Built
  <1>2. /\ j \in Job /\ job[j].marker = s
        /\ job[j].status \in {"in_progress", "needs_reconcile"}
    BY DEF RecordInv, FlightOnRecord, Inv, TypeOK, RemoteTypeOK
  <1>3. CASE Pulsed(s)
    <2>1. PICK q \in Proc : run[q].pc = "pulsed" /\ run[q].sha = s
      BY <1>3 DEF Pulsed
    <2>2. life[q] = "up"
      BY <2>1 DEF RecordInv, DeadIdle, Idle
    <2> QED BY <1>2, <2>1, <2>2 DEF PushInFlight
  <1> QED BY <1>2, <1>3 DEF Flight, PushInFlight

(* A reconcile goes on: nothing it has read has changed, and what is under *)
(* way is still to be probed.                                              *)
LEMMA AskingKeeps ==
  ASSUME Inv, LandingInv, RecordInv, NEW p \in Proc, life[p] = "up",
         run[p].pc \in Asking \ {"applying"}, UNCHANGED <<quiet, remoteVars>>,
         run'[p].pc \in {"probing", "reading"}, run'[p].tok = run[p].tok,
         run'[p].batch = run[p].batch, run'[p].rest = run[p].rest, run'[p].plan = run[p].plan,
         \A q \in Proc \ {p} : run'[q] = run[q] /\ asked'[q] = asked[q],
         \A j \in Subjects(asked'[p].rows) : job[j] = asked'[p].rows[j],
         run'[p].pc = "probing" =>
           \A s \in Sha : Flight(s) => \E j \in asked'[p].locks : asked'[p].rows[j].marker = s,
         run'[p].pc = "reading" => NoFlight
  PROVE  RecordInv' /\ AllCareful
  <1> USE RunOK
  <1>1. HasLease(p) /\ ~lock.expired /\ ~AnyClaimed(job) /\ run[p].plan = Unplanned
    BY DEF AskOK, PlanOK, Asking
  <1>2. OwnerHolds(p)' /\ MarkersOK(p)'
    BY <1>1, SameClaim DEF OwnerHolds, MarkersOK, AnyClaimed, InStatus, OwnedBy, Owned
  <1>3. FrameOK(p)' /\ PlanOK(p)'
    BY <1>1 DEF FrameOK, PlanOK, Carrying
  <1>4. \A s \in Sha : Flight(s)' => Flight(s)
    BY WireSame, CalmFlight DEF remoteVars
  <1>5. LeaseOK(p)'
    BY <1>4 DEF LeaseOK, Guarded, Carrying, NoFlight
  <1>6. AskOK(p)'
    <2>1. UNCHANGED <<job, lock>> /\ HasLease(p)' /\ ~AnyClaimed(job)'
      BY <1>1, SameClaim DEF AnyClaimed, InStatus
    <2> QED BY <1>1, <1>4, <2>1 DEF AskOK, Subjects
  <1> QED BY <1>2, <1>3, <1>5, <1>6, LocalKeeps, RemoteSame DEF ProcOK, remoteVars

LEMMA AskKeeps ==
  ASSUME Inv, LandingInv, RecordInv, NEW p \in Proc, Ask(p)
  PROVE  RecordInv' /\ AllCareful
  <1> USE RunOK
  <1>1. At(p, "asking") /\ UNCHANGED <<quiet, remoteVars>> /\ run[p].plan = Unplanned
    BY DEF Ask, At, PlanOK
  <1>2. CASE Subjects(job) = {}
    <2>1. Goto(p, "leaving") /\ UNCHANGED asked
      BY <1>2 DEF Ask
    <2> QED BY <1>1, <2>1, GotoFields, EndKeeps DEF Inv, At
  <1>3. CASE Subjects(job) # {}
    <2> DEFINE rows == [j \in Job |-> IF j \in Subjects(job) THEN job[j] ELSE FreshRow(FALSE)]
    <2>1. /\ Goto(p, "probing")
          /\ asked' = [asked EXCEPT ![p] = [rows |-> rows, locks |-> Subjects(job),
                                           refs |-> Ref, heard |-> NothingHeard]]
      BY <1>3 DEF Ask
    <2>2. \A j \in Job : rows[j] = IF j \in Subjects(job) THEN job[j] ELSE FreshRow(FALSE)
      OBVIOUS
    <2> HIDE DEF rows
    <2>3. /\ asked'[p].rows = rows /\ asked'[p].locks = Subjects(job)
          /\ \A q \in Proc \ {p} : asked'[q] = asked[q]
      BY <2>1 DEF Inv, TypeOK, ReconcileTypeOK
    <2>4. \A j \in Subjects(asked'[p].rows) : job[j] = asked'[p].rows[j]
      BY <2>2, <2>3 DEF Subjects, FreshRow, Unresolved, IsReconcileConflict
    <2>5. ASSUME NEW s \in Sha, Flight(s)
          PROVE  \E j \in asked'[p].locks : asked'[p].rows[j].marker = s
      <3>1. PICK j \in Job : /\ job[j].marker = s
                             /\ job[j].status \in {"in_progress", "needs_reconcile"}
        BY <2>5, FlightSeen
      <3>2. j \in Subjects(job)
        BY <1>1, <3>1 DEF AskOK, Asking, At, AnyClaimed, InStatus, Subjects, Unresolved
      <3> QED BY <2>2, <2>3, <3>1, <3>2
    <2> QED BY <1>1, <2>1, <2>3, <2>4, <2>5, GotoFields, AskingKeeps DEF Inv, At, Asking
  <1> QED BY <1>2, <1>3

(* A lock that is free says that its push is over.                         *)
LEMMA ProbeLockKeeps ==
  ASSUME Inv, LandingInv, RecordInv, NEW p \in Proc, ProbeLock(p)
  PROVE  RecordInv' /\ AllCareful
  <1> USE RunOK
  <1>1. At(p, "probing") /\ UNCHANGED <<quiet, remoteVars>> /\ run[p].plan = Unplanned
    BY DEF ProbeLock, At, PlanOK
  <1>2. PICK j \in asked[p].locks :
          IF PushInFlight(asked[p].rows[j].marker)
          THEN Goto(p, "leaving") /\ asked' = [asked EXCEPT ![p] = NotAsking]
          ELSE /\ asked' = [asked EXCEPT ![p].locks = @ \ {j}]
               /\ Goto(p, IF asked[p].locks = {j} THEN "reading" ELSE "probing")
    BY DEF ProbeLock
  <1>3. CASE PushInFlight(asked[p].rows[j].marker)
    <2>1. Goto(p, "leaving") /\ \A q \in Proc \ {p} : asked'[q] = asked[q]
      BY <1>2, <1>3 DEF Inv, TypeOK, ReconcileTypeOK
    <2> QED BY <1>1, <2>1, GotoFields, EndKeeps DEF Inv, At
  <1>4. CASE ~PushInFlight(asked[p].rows[j].marker)
    <2> DEFINE pc == IF asked[p].locks = {j} THEN "reading" ELSE "probing"
    <2>1. /\ asked'[p].rows = asked[p].rows /\ asked'[p].locks = asked[p].locks \ {j}
          /\ \A q \in Proc \ {p} : asked'[q] = asked[q]
      BY <1>2, <1>4 DEF Inv, TypeOK, ReconcileTypeOK, Question
    <2>2. ASSUME NEW s \in Sha, Flight(s)
          PROVE  \E k \in asked'[p].locks : asked'[p].rows[k].marker = s
      <3>1. PICK k \in asked[p].locks : asked[p].rows[k].marker = s
        BY <1>1, <2>2 DEF AskOK, At
      <3>2. k # j
        BY <1>4, <2>2, <3>1, FlightSeen
      <3> QED BY <2>1, <3>1, <3>2
    <2>3. Goto(p, pc) /\ pc \in {"probing", "reading"} /\ (pc = "reading" => asked'[p].locks = {})
      BY <1>2, <1>4, <2>1
    <2> HIDE DEF pc
    <2>4. pc = "reading" => NoFlight
      BY <2>2, <2>3 DEF NoFlight
    <2>5. \A k \in Subjects(asked'[p].rows) : job[k] = asked'[p].rows[k]
      BY <1>1, <2>1 DEF AskOK, At
    <2> QED BY <1>1, <2>1, <2>2, <2>3, <2>4, <2>5, GotoFields, AskingKeeps DEF Inv, At, Asking
  <1> QED BY <1>3, <1>4

LEMMA ReadRefKeeps ==
  ASSUME Inv, LandingInv, RecordInv, NEW p \in Proc, ReadRef(p)
  PROVE  RecordInv' /\ AllCareful
  <1> USE RunOK
  <1>1. At(p, "reading") /\ UNCHANGED <<quiet, run, remoteVars>> /\ HasLease(p)
    BY DEF ReadRef, At, AskOK, Asking
  <1>2. PICK ref \in Ref : Hears(p, ref)
    BY ReadRefHears DEF Inv
  <1>3. asked'[p].rows = asked[p].rows /\ \A q \in Proc \ {p} : asked'[q] = asked[q]
    BY <1>2, HeardType DEF Inv, TypeOK
  <1>4. NoFlight /\ \A j \in Subjects(asked'[p].rows) : job[j] = asked'[p].rows[j]
    BY <1>1, <1>3 DEF LeaseOK, AskOK, At
  <1> QED BY <1>1, <1>3, <1>4, AskingKeeps DEF At, Asking

LEMMA VerdictAsRead ==
  ASSUME NEW a, NEW j
  PROVE  /\ Verdict(a, j) \in Verdicts
         /\ Verdict(a, j) = "queued" => ~a.rows[j].cancel
         /\ Verdict(a, j) \in {"queued", "canceled"} => a.rows[j].marker \notin landed
  BY DEF Verdict, Verdicts

LEMMA ReadRemoteKeeps ==
  ASSUME Inv, LandingInv, RecordInv, NEW p \in Proc, ReadRemote(p)
  PROVE  RecordInv' /\ AllCareful
  <1> USE RunOK
  <1>1. PICK unclear \in Unclear(p) :
          run' = [run EXCEPT ![p] = [@ EXCEPT !.pc = "applying",
                                              !.plan = [j \in Job |->
                                                          IF j \in unclear THEN "blocked"
                                                          ELSE IF j \in Subjects(asked[p].rows)
                                                          THEN Verdict(asked[p], j) ELSE "none"]]]
    BY Zenon DEF ReadRemote
  <1> DEFINE plan == [j \in Job |-> IF j \in unclear THEN "blocked"
                                    ELSE IF j \in Subjects(asked[p].rows)
                                    THEN Verdict(asked[p], j) ELSE "none"]
  <1>2. \A j \in Job : plan[j] = IF j \in unclear THEN "blocked"
                                 ELSE IF j \in Subjects(asked[p].rows)
                                 THEN Verdict(asked[p], j) ELSE "none"
    OBVIOUS
  <1>3. run' = [run EXCEPT ![p] = [@ EXCEPT !.pc = "applying", !.plan = plan]]
    BY <1>1
  <1> HIDE DEF plan
  <1>4. /\ run'[p].pc = "applying" /\ run'[p].tok = run[p].tok /\ run'[p].mode = run[p].mode
        /\ run'[p].batch = run[p].batch /\ run'[p].rest = run[p].rest
        /\ run'[p].plan = plan
        /\ \A q \in Proc \ {p} : run'[q] = run[q]
    BY <1>3 DEF Inv, TypeOK, RunnerTypeOK, Run
  <1>5. At(p, "reading") /\ UNCHANGED <<quiet, asked, remoteVars>>
    BY DEF ReadRemote
  <1>6. /\ HasLease(p) /\ ~lock.expired /\ ~AnyClaimed(job) /\ NoFlight
        /\ \A j \in Subjects(asked[p].rows) : job[j] = asked[p].rows[j]
    BY <1>5 DEF AskOK, LeaseOK, Asking, At
  <1>7. OwnerHolds(p)' /\ MarkersOK(p)'
    BY <1>4, <1>5, <1>6, SameClaim DEF OwnerHolds, MarkersOK, AnyClaimed, InStatus, OwnedBy, Owned
  <1>8. FrameOK(p)' /\ PlanOK(p)'
    BY <1>4 DEF FrameOK, PlanOK, Carrying
  <1>9. NoFlight'
    BY <1>4, <1>5, <1>6, WireSame, CalmNoFlight DEF remoteVars
  <1>10. LeaseOK(p)'
    BY <1>4, <1>9 DEF LeaseOK, Guarded, Carrying
  <1>11. AskOK(p)'
    <2>1. UNCHANGED <<job, lock, landed>> /\ HasLease(p)' /\ ~AnyClaimed(job)'
      BY <1>4, <1>5, <1>6, SameClaim DEF AnyClaimed, InStatus, remoteVars
    <2>2. ASSUME NEW j \in Job, plan[j] # "none"
          PROVE  /\ Unresolved(job[j]) /\ job[j] = asked[p].rows[j]
                 /\ plan[j] \in Verdicts
                 /\ plan[j] = "queued" => ~job[j].cancel
                 /\ plan[j] \in {"queued", "canceled"} => job[j].marker \notin landed
      <3>1. j \in Subjects(asked[p].rows)
        BY <1>2, <2>2 DEF Unclear
      <3>2. job[j] = asked[p].rows[j] /\ Unresolved(job[j])
        BY <1>6, <3>1 DEF Subjects
      <3>3. plan[j] = "blocked" \/ plan[j] = Verdict(asked[p], j)
        BY <1>2, <3>1, <3>2
      <3> QED BY <3>2, <3>3, VerdictAsRead DEF Verdicts
    <2> QED BY <1>4, <1>5, <1>6, <2>1, <2>2 DEF AskOK
  <1> QED BY <1>4, <1>5, <1>7, <1>8, <1>10, <1>11, LocalKeeps, RemoteSame
          DEF ProcOK, remoteVars, At

LEMMA AskEndsKeeps ==
  ASSUME Inv, LandingInv, RecordInv, NEW p \in Proc, ReconcileEnds(p) \/ Unreachable(p)
  PROVE  RecordInv' /\ AllCareful
  <1> USE RunOK
  <1>1. \A q \in Proc \ {p} : asked'[q] = asked[q]
    BY DEF ReconcileEnds, Unreachable, Inv, TypeOK, ReconcileTypeOK
  <1>2. CASE ReconcileEnds(p)
    <2>1. /\ run'[p].pc = "leaving" /\ run'[p].tok = run[p].tok /\ run'[p].mode = run[p].mode
          /\ run'[p].batch = run[p].batch /\ run'[p].rest = run[p].rest
          /\ run'[p].plan = Unplanned
          /\ \A q \in Proc \ {p} : run'[q] = run[q]
      BY <1>2 DEF ReconcileEnds, Inv, TypeOK, RunnerTypeOK, Run
    <2> QED BY <1>1, <1>2, <2>1, EndKeeps DEF ReconcileEnds, At
  <1>3. CASE Unreachable(p)
    BY <1>1, <1>3, GotoFields, EndKeeps DEF Unreachable, At, Inv, PlanOK
  <1> QED BY <1>2, <1>3
-----------------------------------------------------------------------------
(* The steps that write rows under the lease of the process.               *)

LEMMA RowsKeep ==
  ASSUME Inv, LandingInv, RecordInv, NEW p \in Proc, life[p] = "up", HasLease(p),
         AllCareful,
         \A j \in Job : job'[j].status = "in_progress"
                          => job[j].status = "in_progress" /\ job'[j].token = job[j].token,
         UNCHANGED <<issued, leaseVars, remoteVars, asked>>,
         \A q \in Proc \ {p} : run'[q] = run[q],
         run'[p].tok = run[p].tok, run'[p].pc # "pulsed", ProcOK(p)'
  PROVE  RecordInv' /\ AllCareful
  <1>1. Calm /\ CommitsStay /\ NoStart /\ late' = {}
    BY WireSame, RemoteSame DEF remoteVars
  <1>2. UNCHANGED <<lock, life>>
    BY DEF leaseVars
  <1>3. Tokens' /\ DeadIdle'
    BY <1>2, TokensStay, UpIdle
  <1>4. ASSUME NEW q \in Proc \ {p} PROVE ProcOK(q)'
    <2>1. ~HasLease(q) /\ ~HasLease(q)'
      BY <1>2 DEF HasLease, Holds
    <2>2. OwnerHolds(q) /\ AskOK(q)
      BY DEF RecordInv, ProcOK
    <2>3. \A j \in Job : ~OwnedBy(q, j)'
      BY <2>1, <2>2 DEF OwnerHolds, OwnedBy, Owned
    <2>4. LeftAlone(q)
      BY <2>1, <2>2, <2>3 DEF LeftAlone, AskOK
    <2> QED BY <1>1, <2>4, Alone
  <1> QED BY <1>1, <1>3, <1>4, StepKeeps

(* One status write, of a row of the claim.                                *)
LEMMA FinishedRow ==
  ASSUME Inv, RecordInv, NEW p \in Proc, NEW j \in Job, OwnedBy(p, j),
         NEW to \in Status \ {"in_progress"}, FinishOK(to, job[j].marker), FinishRow(p, j, to)
  PROVE  /\ \A i \in Job \ {j} : job'[i] = job[i]
         /\ job'[j].status # "in_progress"
         /\ to = "needs_reconcile" => job'[j].status = "needs_reconcile"
         /\ AllCareful
  <1> DEFINE as   == FinishAs(job[j], to)
             size == Cardinality(run[p].batch)
             new  == IF as = "validated" THEN MarkedValidated(job[j], run[p].tok, size)
                                         ELSE Marked(job[j], as)
  <1>1. job' = [job EXCEPT ![j] = new]
    BY DEF FinishRow
  <1>2. job[j] \in Row /\ RowClean(job[j]) /\ job[j].status = "in_progress"
    BY DEF Inv, TypeOK, StoreTypeOK, RecordInv, RowsClean, OwnedBy, Owned
  <1>3. /\ new.status = as
        /\ new.marker = IF as \in {"deployed", "canceled", "queued"} THEN 0 ELSE job[j].marker
        /\ new.cancel = (job[j].cancel /\ \/ as \in {"in_progress", "canceled", "needs_reconcile"}
                                          \/ as = "blocked" /\ job[j].marker # 0)
    <2> HIDE DEF as
    <2>1. CASE as = "validated"
      BY <1>2, <2>1 DEF MarkedValidated, Marked, Row
    <2>2. CASE as # "validated"
      BY <1>2, <2>2 DEF Marked, Row
    <2> QED BY <2>1, <2>2
  <1>4. /\ as = to \/ (as = "canceled" /\ to \notin {"deployed", "needs_reconcile"})
        /\ job[j].cancel => as \in {"canceled", "deployed", "needs_reconcile"}
    BY DEF FinishAs, Settles
  <1>5. /\ \A i \in Job \ {j} : job'[i] = job[i]
        /\ job'[j] = new
    <2> HIDE DEF new
    <2> QED BY <1>1 DEF Inv, TypeOK, StoreTypeOK
  <1> HIDE DEF new, as
  <1>6. Careful(job[j], new)
    <2>1. job[j].marker \in {0} \union Sha
      BY <1>2 DEF RowClean
    <2>2. as \in {"failed", "validated"} => job[j].marker = 0
      BY <1>4 DEF FinishOK
    <2>3. as \in {"deployed", "needs_reconcile"} => job[j].marker # 0
      BY <1>4 DEF FinishOK
    <2>4. as # "needs_reconcile" => job[j].marker = 0 \/ ~Flight(job[j].marker)
      BY <1>4 DEF FinishOK, Status, Active, Terminal
    <2>5. as \notin {"needs_reconcile", "deployed"} => job[j].marker = 0 \/ ~Still(job[j].marker)
      BY <1>4 DEF FinishOK, Status, Active, Terminal
    <2>6. RowClean(new)
      BY <1>3, <1>4, <2>1, <2>2, <2>3 DEF RowClean, IsReconcileConflict
    <2> QED BY <1>2, <1>3, <1>4, <2>1, <2>4, <2>5, <2>6, NoSha DEF Careful, Terminal
  <1>7. AllCareful
    BY <1>5, <1>6, SameRow DEF AllCareful, RecordInv, RowsClean
  <1> QED BY <1>3, <1>4, <1>5, <1>7

LEMMA RejectKeeps ==
  ASSUME Inv, LandingInv, RecordInv, NEW p \in Proc, NEW j \in Job, NEW to \in {"blocked", "failed"},
         RejectJob(p, j, to), UNCHANGED asked
  PROVE  RecordInv' /\ AllCareful
  <1> USE RunOK
  <1>1. /\ run[p].pc = "assembling" /\ life[p] = "up" /\ OwnedBy(p, j) /\ j \in run[p].batch
        /\ UNCHANGED <<issued, leaseVars, remoteVars, asked>>
    BY DEF RejectJob, At, Mine, OwnedBy
  <1>2. HasLease(p) /\ job[j].marker = 0 /\ (Pushes(p) => NoFlight)
    BY <1>1 DEF OwnerHolds, MarkersOK, LeaseOK, Guarded
  <1>3. FinishOK(to, job[j].marker) /\ to \in Status \ {"in_progress"}
    BY <1>2 DEF FinishOK, Status, Active
  <1>4. /\ \A i \in Job \ {j} : job'[i] = job[i]
        /\ job'[j].status # "in_progress"
        /\ AllCareful
    BY <1>1, <1>3, FinishedRow DEF RejectJob
  <1>5. /\ run'[p].pc \in {"assembling", "finishing"} /\ run'[p].tok = run[p].tok
        /\ run'[p].mode = run[p].mode /\ run'[p].batch = run[p].batch \ {j}
        /\ run'[p].rest = run[p].rest /\ run'[p].plan = Unplanned
        /\ \A q \in Proc \ {p} : run'[q] = run[q]
    <2>1. run[p].plan = Unplanned
      BY <1>1 DEF PlanOK
    <2> QED BY <2>1, RejectRun DEF Inv
  <1>6. /\ HasLease(p)' <=> HasLease(p)
        /\ ~OwnedBy(p, j)'
        /\ \A i \in Job \ {j} : OwnedBy(p, i)' <=> OwnedBy(p, i)
    BY <1>1, <1>4, <1>5 DEF HasLease, Holds, OwnedBy, Owned, leaseVars
  <1>7. OwnerHolds(p)' /\ MarkersOK(p)'
    BY <1>1, <1>4, <1>5, <1>6 DEF OwnerHolds, MarkersOK, Pushes, Carrying, FinishOK, Unplanned
  <1>8. FrameOK(p)' /\ PlanOK(p)' /\ AskOK(p)'
    BY <1>5 DEF FrameOK, PlanOK, AskOK, Asking, Carrying, Unplanned
  <1>9. NoFlight => NoFlight' /\ \A s \in Sha : ~Pulsed(s)'
    BY <1>1, <1>5, WireSame, CalmNoFlight DEF remoteVars, NoFlight, Flight
  <1>10. LeaseOK(p)'
    BY <1>2, <1>5, <1>9 DEF LeaseOK, Guarded, Pushes, Carrying
  <1> QED BY <1>1, <1>2, <1>4, <1>5, <1>6, <1>7, <1>8, <1>10, RowsKeep DEF ProcOK

LEMMA WrittenFields ==
  ASSUME TypeOK, NEW p \in Proc, NEW j \in Job, NEW stops, Written(p, j, stops)
  PROVE  /\ run'[p].pc = run[p].pc /\ run'[p].tok = run[p].tok /\ run'[p].mode = run[p].mode
         /\ run'[p].batch = run[p].batch /\ run'[p].rest = run[p].rest
         /\ run'[p].plan[j] = "none" /\ run'[p].stops = stops
         /\ \A i \in Job \ {j} : run'[p].plan[i] = run[p].plan[i]
         /\ \A q \in Proc \ {p} : run'[q] = run[q]
  <1> DEFINE plan == [run[p].plan EXCEPT ![j] = "none"]
  <1>1. run[p] \in Run
    BY DEF TypeOK, RunnerTypeOK
  <1>2. plan[j] = "none" /\ \A i \in Job \ {j} : plan[i] = run[p].plan[i]
    BY <1>1 DEF Run
  <1>3. run' = [run EXCEPT ![p] = [run[p] EXCEPT !.plan = plan, !.stops = stops]]
    BY DEF Written
  <1> HIDE DEF plan
  <1>4. /\ run'[p].pc = run[p].pc /\ run'[p].tok = run[p].tok /\ run'[p].mode = run[p].mode
        /\ run'[p].batch = run[p].batch /\ run'[p].rest = run[p].rest /\ run'[p].plan = plan
        /\ run'[p].stops = stops
        /\ \A q \in Proc \ {p} : run'[q] = run[q]
    BY <1>1, <1>3 DEF Run, TypeOK, RunnerTypeOK
  <1> QED BY <1>2, <1>4

LEMMA FinishKeeps ==
  ASSUME Inv, LandingInv, RecordInv, NEW p \in Proc, Finish(p), UNCHANGED asked
  PROVE  RecordInv' /\ AllCareful
  <1> USE RunOK
  <1>1. PICK j \in ToWrite(p), stops \in BOOLEAN :
          /\ IF Owned(job[j], run[p].tok)
             THEN /\ FinishRow(p, j, run[p].plan[j])
                  /\ stops = (run[p].stops \/ job'[j].status = Stopping(p))
             ELSE UNCHANGED job /\ stops = run[p].stops
          /\ Written(p, j, stops)
    BY FinishWrites DEF Inv
  <1>2. /\ run[p].pc = "finishing" /\ life[p] = "up" /\ j \in Job
        /\ run[p].plan[j] \in Status \ {"in_progress"}
        /\ UNCHANGED <<issued, leaseVars, remoteVars, asked>>
    BY DEF Finish, At, ToWrite, Planned
  <1>3. /\ run'[p].pc = "finishing" /\ run'[p].tok = run[p].tok /\ run'[p].mode = run[p].mode
        /\ run'[p].batch = run[p].batch /\ run'[p].rest = run[p].rest
        /\ run'[p].plan[j] = "none" /\ run'[p].stops = stops
        /\ \A i \in Job \ {j} : run'[p].plan[i] = run[p].plan[i]
        /\ \A q \in Proc \ {p} : run'[q] = run[q]
    BY <1>1, <1>2, WrittenFields DEF Inv
  <1>4. /\ \A i \in Job \ {j} : job'[i] = job[i]
        /\ AllCareful
        /\ IF OwnedBy(p, j)
           THEN /\ job'[j].status # "in_progress" /\ HasLease(p)
                /\ run[p].plan[j] = "needs_reconcile" => job'[j].status = "needs_reconcile"
           ELSE UNCHANGED job
    <2>1. CASE OwnedBy(p, j)
      <3>1. FinishOK(run[p].plan[j], job[j].marker) /\ HasLease(p)
        BY <1>2, <2>1 DEF MarkersOK, OwnerHolds
      <3> QED BY <1>1, <1>2, <2>1, <3>1, FinishedRow DEF OwnedBy
    <2>2. CASE ~OwnedBy(p, j)
      BY <1>1, <2>2, SameRowsCareful DEF OwnedBy
    <2> QED BY <2>1, <2>2
  <1>5. /\ HasLease(p)' <=> HasLease(p)
        /\ ~OwnedBy(p, j)'
        /\ \A i \in Job \ {j} : OwnedBy(p, i)' <=> OwnedBy(p, i)
    BY <1>2, <1>3, <1>4 DEF HasLease, Holds, OwnedBy, Owned, leaseVars
  <1>6. Calm /\ \A s \in Sha : /\ Flight(s)' => Flight(s)
                               /\ Still(s)' => Still(s)
                               /\ Pulsed(s)' => Pulsed(s)
    BY <1>2, <1>3, WireSame, CalmFlight DEF remoteVars
  <1>7. OwnerHolds(p)' /\ MarkersOK(p)'
    <2>1. OwnerHolds(p)'
      BY <1>5 DEF OwnerHolds
    <2>2. ASSUME NEW i \in Job, i # j, OwnedBy(p, i)
          PROVE  FinishOK(run[p].plan[i], job[i].marker)'
      <3>1. FinishOK(run[p].plan[i], job[i].marker) /\ job[i].marker \in {0} \union Sha
        BY <1>2, <2>2 DEF MarkersOK, RecordInv, RowsClean, RowClean
      <3> QED BY <1>3, <1>4, <1>6, <2>2, <3>1 DEF FinishOK
    <2>3. MarkersOK(p)'
      BY <1>2, <1>3, <1>4, <1>5, <2>2 DEF MarkersOK, Pushes, Carrying
    <2> QED BY <2>1, <2>3
  <1>8. FrameOK(p)' /\ PlanOK(p)' /\ AskOK(p)'
    BY <1>2, <1>3 DEF FrameOK, PlanOK, AskOK, Asking, Carrying
  <1>9. LeaseOK(p)'
    <2>2. NoFlight => NoFlight'
      BY <1>6, CalmNoFlight
    <2>3. run[p].stops => run'[p].stops
      BY <1>1, <1>3
    <2>4. Pushes(p) /\ Awaits(p, j) => run'[p].stops
      BY <1>1, <1>3, <1>4 DEF Pushes, Awaits, OwnedBy, Stopping
    <2>5. j \in run[p].batch
      <3>1. PlanOK(p) /\ run[p].plan[j] # "none"
        BY DEF ToWrite
      <3> QED BY <1>2, <3>1 DEF PlanOK
    <2> QED BY <1>2, <1>3, <1>5, <1>6, <2>2, <2>3, <2>4, <2>5 DEF LeaseOK, Guarded, Pushes, Carrying
  <1>10. CASE OwnedBy(p, j)
    BY <1>2, <1>3, <1>4, <1>7, <1>8, <1>9, <1>10, RowsKeep DEF ProcOK
  <1>11. CASE ~OwnedBy(p, j)
    <2>1. UNCHANGED <<quiet, remoteVars>>
      BY <1>2, <1>4, <1>11 DEF quiet, storeVars
    <2> QED BY <1>2, <1>3, <1>7, <1>8, <1>9, <2>1, LocalKeeps, RemoteSame DEF ProcOK, remoteVars
  <1> QED BY <1>10, <1>11

(* The marker of a push: written before it on every row of the frame, or   *)
(* on none, and taken back after a definite refusal.                       *)

LEMMA MarkedRows ==
  ASSUME Inv, NEW p \in Proc, NEW m,
         job' = [j \in Job |-> IF j \in run[p].batch THEN [job[j] EXCEPT !.marker = m]
                               ELSE job[j]]
  PROVE  \A j \in Job :
           /\ j \notin run[p].batch => job'[j] = job[j]
           /\ j \in run[p].batch => job'[j].marker = m
           /\ job'[j].status = job[j].status /\ job'[j].token = job[j].token
           /\ job'[j].cancel = job[j].cancel
  BY DEF Inv, TypeOK, StoreTypeOK, Row

LEMMA MarkerKeeps ==
  ASSUME Inv, LandingInv, RecordInv, NEW p \in Proc, RecordPendingPush(p) \/ ClearRejectedPush(p),
         UNCHANGED asked
  PROVE  RecordInv' /\ AllCareful
  <1> USE RunOK
  <1> DEFINE m  == IF RecordPendingPush(p) THEN run[p].sha ELSE 0
             pc == IF RecordPendingPush(p) THEN "marked" ELSE "refused"
  <1>1. /\ life[p] = "up" /\ Mine(p) = run[p].batch /\ Goto(p, pc)
        /\ job' = [j \in Job |-> IF j \in run[p].batch THEN [job[j] EXCEPT !.marker = m]
                                 ELSE job[j]]
        /\ UNCHANGED <<issued, leaseVars, remoteVars, asked>>
        /\ \/ pc = "marked" /\ m = run[p].sha /\ run[p].pc = "gated"
           \/ pc = "refused" /\ m = 0 /\ run[p].pc = "rejected"
    BY DEF RecordPendingPush, ClearRejectedPush, At
  <1>2. Pushes(p)
    BY DEF RecordPendingPush, ClearRejectedPush, At, FrameOK, Pushes, Carrying
  <1> HIDE DEF m, pc
  <1>3. /\ run'[p].pc = pc /\ run'[p].tok = run[p].tok /\ run'[p].mode = run[p].mode
        /\ run'[p].batch = run[p].batch /\ run'[p].rest = run[p].rest
        /\ run'[p].sha = run[p].sha /\ run'[p].plan = run[p].plan
        /\ \A q \in Proc \ {p} : run'[q] = run[q]
    BY <1>1, GotoFields DEF Inv
  <1>4. \A j \in Job : /\ j \notin run[p].batch => job'[j] = job[j]
                       /\ j \in run[p].batch => job'[j].marker = m
                       /\ job'[j].status = job[j].status /\ job'[j].token = job[j].token
                       /\ job'[j].cancel = job[j].cancel
    BY <1>1, MarkedRows
  <1>5. /\ run[p].batch # {} /\ \A j \in run[p].batch : OwnedBy(p, j)
        /\ HasLease(p) /\ NoFlight
    <2>1. run[p].batch # {}
      BY <1>1, <1>2 DEF FrameOK, Carrying
    <2>2. \A j \in run[p].batch : OwnedBy(p, j)
      BY <1>1 DEF Mine, OwnedBy
    <2>3. HasLease(p)
      BY <2>1, <2>2 DEF OwnerHolds
    <2> QED BY <1>1, <1>2, <2>1, <2>2, <2>3 DEF LeaseOK, Guarded
  <1>6. ~(run[p].sha \in landed) /\ run[p].sha \in Sha /\ commit[run[p].sha].jobs = run[p].batch
    <2>1. CASE run[p].pc = "gated"
      <3>1. run[p].sha \in Sha /\ \A j \in run[p].batch : job[j].marker = 0 /\ job[j].status # "deployed"
        BY <1>2, <1>5, <2>1 DEF MarkersOK, LandingInv, RunsSound, RunSound, Pushes, OwnedBy, Owned
      <3>2. \A s \in Sha : s \in landed => commit[s].jobs \intersect run[p].batch = {}
        BY <3>1, NoSha DEF RecordInv, OnRecord, Still
      <3>3. \A j \in run[p].batch : ~Landed(j)
        BY <3>2 DEF Landed, Inv, TypeOK, RemoteTypeOK
      <3>4. commit[run[p].sha].jobs = run[p].batch
        BY <1>2, <1>5, <2>1, <3>3 DEF FrameOK
      <3> QED BY <1>5, <3>1, <3>2, <3>4
    <2>2. CASE run[p].pc = "rejected"
      BY <1>5, <2>2 DEF FrameOK, LeaseOK, Carrying
    <2> QED BY <1>1, <2>1, <2>2
  <1>7. AllCareful
    <2>1. ASSUME NEW j \in run[p].batch PROVE Careful(job[j], job'[j])
      <3>1. /\ job[j].status = "in_progress" /\ RowClean(job[j])
            /\ job[j].marker \in {0, run[p].sha} /\ m \in {0, run[p].sha}
        BY <1>1, <1>2, <1>5 DEF OwnedBy, Owned, RecordInv, RowsClean, MarkersOK, Carrying
      <3>2. ~Still(run[p].sha) /\ ~Flight(run[p].sha)
        BY <1>5, <1>6 DEF Still, NoFlight
      <3> QED BY <1>4, <1>6, <3>1, <3>2, NoSha DEF Careful, RowClean, IsReconcileConflict
    <2> QED BY <1>4, <2>1, SameRow DEF AllCareful, RecordInv, RowsClean
  <1>8. /\ HasLease(p)' <=> HasLease(p)
        /\ \A i \in Job : OwnedBy(p, i)' <=> OwnedBy(p, i)
    BY <1>1, <1>3, <1>4 DEF HasLease, Holds, OwnedBy, Owned, leaseVars
  <1>9. OwnerHolds(p)' /\ MarkersOK(p)'
    BY <1>1, <1>2, <1>3, <1>4, <1>8 DEF OwnerHolds, MarkersOK, Pushes, Carrying, PlanOK
  <1>10. FrameOK(p)' /\ PlanOK(p)' /\ AskOK(p)'
    BY <1>1, <1>2, <1>3, <1>5, <1>6, NoSha
    DEF FrameOK, PlanOK, AskOK, Asking, Carrying, Pushes, remoteVars
  <1>11. NoFlight'
    BY <1>1, <1>3, <1>5, WireSame, CalmNoFlight DEF remoteVars
  <1>12. LeaseOK(p)'
    BY <1>1, <1>3, <1>5, <1>6, <1>8, <1>11 DEF LeaseOK, Guarded, Carrying, remoteVars
  <1> QED BY <1>1, <1>3, <1>4, <1>5, <1>7, <1>9, <1>10, <1>12, RowsKeep DEF ProcOK

(* One verdict of a reconcile, over the row it was made from.              *)
LEMMA ApplyKeeps ==
  ASSUME Inv, LandingInv, RecordInv, NEW p \in Proc, Apply(p)
  PROVE  RecordInv' /\ AllCareful
  <1> USE RunOK
  <1>1. PICK j \in ToWrite(p) :
          /\ IF /\ job[j].status = asked[p].rows[j].status
                /\ ~(run[p].plan[j] = "blocked" /\ asked[p].rows[j].status = "blocked")
             THEN job' = [job EXCEPT ![j] = Marked(@, run[p].plan[j])]
             ELSE UNCHANGED job
          /\ run' = [run EXCEPT ![p].plan[j] = "none"]
    BY DEF Apply
  <1> DEFINE to == run[p].plan[j]
  <1>2. /\ run[p].pc = "applying" /\ life[p] = "up" /\ j \in Job /\ to # "none"
        /\ UNCHANGED <<issued, leaseVars, remoteVars, asked>>
    BY DEF Apply, At, ToWrite
  <1>3. /\ run'[p].pc = "applying" /\ run'[p].tok = run[p].tok /\ run'[p].mode = run[p].mode
        /\ run'[p].batch = run[p].batch /\ run'[p].rest = run[p].rest
        /\ run'[p].plan[j] = "none"
        /\ \A i \in Job \ {j} : run'[p].plan[i] = run[p].plan[i]
        /\ \A q \in Proc \ {p} : run'[q] = run[q]
    <2>1. TypeOK
      BY DEF Inv
    <2>2. Written(p, j, run[p].stops)
      BY <1>1, <1>2, <2>1, PlainWrite
    <2> QED BY <1>2, <2>1, <2>2, WrittenFields
  <1>4. /\ HasLease(p) /\ ~lock.expired /\ ~AnyClaimed(job) /\ NoFlight
        /\ Unresolved(job[j]) /\ to \in Verdicts
        /\ to = "queued" => ~job[j].cancel
        /\ to \in {"queued", "canceled"} => job[j].marker \notin landed
    BY <1>2 DEF AskOK, LeaseOK, Asking
  <1>5. job[j] \in Row /\ RowClean(job[j])
    BY <1>2 DEF Inv, TypeOK, StoreTypeOK, RecordInv, RowsClean
  <1>6. Careful(job[j], Marked(job[j], to)) /\ Marked(job[j], to).status = to
    <2>1. /\ job[j].marker \in Sha /\ ~Flight(job[j].marker)
          /\ to \in {"queued", "canceled"} => ~Still(job[j].marker)
      BY <1>4, <1>5 DEF RowClean, Unresolved, IsReconcileConflict, NoFlight, Still
    <2>2. /\ Marked(job[j], to).status = to
          /\ Marked(job[j], to).marker
               = IF to \in {"deployed", "canceled", "queued"} THEN 0 ELSE job[j].marker
          /\ Marked(job[j], to).cancel
               = (job[j].cancel /\ \/ to \in {"in_progress", "canceled", "needs_reconcile"}
                                   \/ to = "blocked" /\ job[j].marker # 0)
      <3> HIDE DEF to
      <3> QED BY <1>5 DEF Marked, Row
    <2>3. job[j].status \notin Terminal
      BY <1>4 DEF Unresolved, IsReconcileConflict, Terminal
    <2> HIDE DEF to
    <2> QED BY <1>4, <2>1, <2>2, <2>3, NoSha DEF Careful, Terminal, RowClean, Unresolved, IsReconcileConflict, Verdicts
  <1>7. /\ \A i \in Job \ {j} : job'[i] = job[i]
        /\ Careful(job[j], job'[j]) /\ job'[j].status # "in_progress"
    <2>1. job[j].status # "in_progress" /\ to # "in_progress"
      BY <1>4 DEF Unresolved, IsReconcileConflict, Verdicts
    <2>2. job' = [job EXCEPT ![j] = Marked(@, to)] \/ UNCHANGED job
      BY <1>1
    <2> HIDE DEF to
    <2> QED BY <1>2, <1>5, <1>6, <2>1, <2>2, SameRow DEF Inv, TypeOK, StoreTypeOK
  <1>8. AllCareful /\ ~AnyClaimed(job)'
    BY <1>4, <1>7, SameRow DEF AllCareful, RecordInv, RowsClean, AnyClaimed, InStatus
  <1>9. HasLease(p)' /\ ~lock'.expired /\ \A i \in Job : ~OwnedBy(p, i)'
    BY <1>2, <1>3, <1>4, <1>8 DEF HasLease, Holds, leaseVars, AnyClaimed, InStatus, OwnedBy, Owned
  <1>10. OwnerHolds(p)' /\ MarkersOK(p)'
    BY <1>9 DEF OwnerHolds, MarkersOK
  <1>11. FrameOK(p)' /\ PlanOK(p)'
    BY <1>3 DEF FrameOK, PlanOK, Carrying
  <1>12. NoFlight'
    BY <1>2, <1>3, <1>4, WireSame, CalmNoFlight DEF remoteVars
  <1>13. LeaseOK(p)'
    BY <1>3, <1>12 DEF LeaseOK, Guarded, Carrying
  <1>14. AskOK(p)'
    BY <1>2, <1>3, <1>7, <1>8, <1>9 DEF AskOK, Asking, remoteVars
  <1> QED BY <1>2, <1>3, <1>4, <1>7, <1>8, <1>10, <1>11, <1>13, <1>14, RowsKeep
          DEF ProcOK, AnyClaimed, InStatus
-----------------------------------------------------------------------------
(* A push gets under way.                                                  *)

LEMMA PulseKeeps ==
  ASSUME Inv, LandingInv, RecordInv, NEW p \in Proc, PulseBeforePush(p), UNCHANGED asked
  PROVE  RecordInv' /\ AllCareful
  <1> USE RunOK
  <1>1. /\ run[p].pc = "locked" /\ life[p] = "up" /\ HasLease(p) /\ Goto(p, "pulsed")
        /\ lock' = [lock EXCEPT !.expired = FALSE]
        /\ UNCHANGED <<job, issued, life, asked, remoteVars>>
    BY DEF PulseBeforePush, At, RenewLease, storeVars
  <1>2. /\ run'[p].pc = "pulsed" /\ run'[p].tok = run[p].tok /\ run'[p].mode = run[p].mode
        /\ run'[p].batch = run[p].batch /\ run'[p].rest = run[p].rest
        /\ run'[p].sha = run[p].sha /\ run'[p].plan = run[p].plan
        /\ \A q \in Proc \ {p} : run'[q] = run[q]
    BY <1>1, GotoFields DEF Inv
  <1>3. lock'.owner = lock.owner /\ lock'.token = lock.token
    BY <1>1 DEF Inv, TypeOK, LeaseTypeOK
  <1>4. /\ HasLease(p)' /\ \A j \in Job : OwnedBy(p, j)' <=> OwnedBy(p, j)
        /\ \A q \in Proc \ {p} : ~HasLease(q) /\ ~HasLease(q)'
    BY <1>1, <1>2, <1>3 DEF HasLease, Holds, OwnedBy
  <1>5. /\ Pushes(p) /\ run[p].batch # {} /\ run[p].sha \in Sha
        /\ commit[run[p].sha].jobs = run[p].batch
        /\ \A j \in run[p].batch : OwnedBy(p, j) /\ job[j].marker = run[p].sha
        /\ run[p].sha \notin landed /\ NoFlight
    BY <1>1 DEF FrameOK, MarkersOK, LeaseOK, Guarded, Carrying
  <1>6. ProcOK(p)'
    <2>1. OwnerHolds(p)' /\ MarkersOK(p)'
      BY <1>1, <1>2, <1>4 DEF OwnerHolds, MarkersOK, Pushes, Carrying
    <2>2. FrameOK(p)' /\ PlanOK(p)' /\ AskOK(p)'
      BY <1>1, <1>2, <1>5 DEF FrameOK, PlanOK, AskOK, Asking, Carrying, Pushes, remoteVars
    <2>3. LeaseOK(p)'
      BY <1>1, <1>2, <1>4, <1>5 DEF LeaseOK, Guarded, Carrying, remoteVars
    <2> QED BY <2>1, <2>2, <2>3 DEF ProcOK
  <1>7. CommitsStay /\ late' = {} /\ Tokens' /\ DeadIdle' /\ RowsClean'
    BY <1>1, <1>2, RemoteSame, TokensStay, UpIdle DEF RecordInv, RowsClean
  <1>8. ASSUME NEW q \in Proc \ {p} PROVE ProcOK(q)'
    <2>1. OwnerHolds(q) /\ AskOK(q)
      BY DEF RecordInv, ProcOK
    <2>2. \A j \in Job : ~OwnedBy(q, j)'
      BY <1>1, <1>2, <1>4, <2>1 DEF OwnerHolds, OwnedBy
    <2>3. LeftAlone(q)
      BY <1>1, <1>2, <1>4, <2>1, <2>2 DEF LeftAlone, AskOK
    <2> QED BY <1>7, <2>3, Alone
  <1>9. /\ \A q \in Proc : run'[q].pc = "pulsed" => q = p
        /\ \A s \in Sha : wire'[s] # "running"
        /\ \A s \in Sha : Flight(s)' => s = run[p].sha
        /\ \A s \in Sha : Still(s)' => s = run[p].sha \/ Still(s)
    <2>1. ASSUME NEW q \in Proc, run[q].pc = "pulsed" PROVE FALSE
      <3>1. run[q].sha \in Sha
        BY <2>1, RunOK DEF FrameOK, Carrying
      <3> QED BY <1>5, <2>1, <3>1 DEF NoFlight, Flight, Pulsed
    <2>2. \A q \in Proc : run'[q].pc = "pulsed" => q = p
      BY <1>2, <2>1
    <2>3. \A s \in Sha : ~Flight(s) /\ wire'[s] = wire[s] /\ (s \in landed' => s \in landed)
      BY <1>1, <1>5 DEF NoFlight, remoteVars
    <2>4. \A s \in Sha : Flight(s)' => s = run[p].sha
      BY <1>2, <2>2, <2>3 DEF Flight, Pulsed
    <2> QED BY <2>2, <2>3, <2>4 DEF Flight, Still
  <1>10. OneFlight'
    BY <1>9 DEF OneFlight, OnePush
  <1>11. FlightOnRecord'
    <2>1. \A j \in run[p].batch : job[j].status = "in_progress" /\ job[j].marker = run[p].sha
      BY <1>5 DEF OwnedBy, Owned
    <2> QED BY <1>1, <1>5, <1>9, <2>1 DEF FlightOnRecord, remoteVars
  <1>12. OnRecord'
    BY <1>1, <1>5, <1>9 DEF RecordInv, OnRecord, remoteVars
  <1> QED BY <1>1, <1>6, <1>7, <1>8, <1>10, <1>11, <1>12, SameRowsCareful DEF RecordInv

LEMMA StartKeeps ==
  ASSUME Inv, LandingInv, RecordInv, NEW p \in Proc, StartPush(p), UNCHANGED asked
  PROVE  RecordInv' /\ AllCareful
  <1> USE RunOK
  <1>1. /\ run[p].pc = "pulsed" /\ life[p] = "up" /\ Goto(p, "pushing")
        /\ wire' = [wire EXCEPT ![run[p].sha] = "running"]
        /\ UNCHANGED <<quiet, job, issued, life, lock, asked, commit, late, landed>>
    BY DEF StartPush, At, quiet, storeVars, leaseVars
  <1>2. /\ run'[p].pc = "pushing" /\ run'[p].tok = run[p].tok /\ run'[p].mode = run[p].mode
        /\ run'[p].batch = run[p].batch /\ run'[p].rest = run[p].rest
        /\ run'[p].sha = run[p].sha /\ run'[p].plan = run[p].plan
        /\ \A q \in Proc \ {p} : run'[q] = run[q]
    BY <1>1, GotoFields DEF Inv
  <1>3. run[p].sha \in Sha /\ Pushes(p) /\ Pulsed(run[p].sha)
    BY <1>1 DEF FrameOK, Carrying, Pulsed
  <1>4. /\ \A s \in Sha : wire'[s] = IF s = run[p].sha THEN "running" ELSE wire[s]
        /\ \A s \in Sha : wire[s] # "running"
        /\ \A q \in Proc : run[q].pc = "pulsed" => q = p
    BY <1>1 DEF Inv, TypeOK, RemoteTypeOK, RecordInv, OneFlight
  <1>5. Calm /\ CommitsStay
    BY <1>1, <1>2, <1>3, <1>4 DEF Calm, CommitsStay
  <1>6. ASSUME NEW q \in Proc \ {p} PROVE ProcOK(q)'
    BY <1>1, <1>2, <1>5, OtherLeft, Alone
  <1>7. ProcOK(p)'
    <2>1. OwnerHolds(p)' /\ MarkersOK(p)'
      BY <1>1, <1>2, SameClaim DEF OwnerHolds, MarkersOK, Pushes, Carrying
    <2>2. FrameOK(p)' /\ PlanOK(p)' /\ AskOK(p)'
      BY <1>1, <1>2 DEF FrameOK, PlanOK, AskOK, Asking, Carrying, Pushes
    <2>3. \A s \in Sha : ~Pulsed(s)'
      BY <1>2, <1>4 DEF Pulsed
    <2>4. LeaseOK(p)'
      BY <1>1, <1>2, <1>4, <2>3, SameClaim DEF LeaseOK, Guarded, Carrying
    <2> QED BY <2>1, <2>2, <2>4 DEF ProcOK
  <1>8. late' = {} /\ Tokens' /\ DeadIdle' /\ RowsClean'
    BY <1>1, <1>2, TokensStay, UpIdle DEF RecordInv, RowsClean
  <1>9. OneFlight'
    BY <1>2, <1>4 DEF OneFlight, OnePush
  <1>10. FlightOnRecord' /\ OnRecord'
    BY <1>1, <1>5, CalmFlight DEF RecordInv, FlightOnRecord, OnRecord
  <1> QED BY <1>1, <1>6, <1>7, <1>8, <1>9, <1>10, SameRowsCareful DEF RecordInv

-----------------------------------------------------------------------------
(* A lease is taken, dropped or renewed.                                   *)

LEMMA IdleOK ==
  ASSUME NEW p \in Proc, run'[p] = Idle
  PROVE  ProcOK(p)'
  <1>1. ~HasLease(p)' /\ \A j \in Job : ~OwnedBy(p, j)'
    BY DEF Idle, HasLease, Holds, OwnedBy, Owned
  <1> QED BY <1>1
      DEF Idle, ProcOK, OwnerHolds, FrameOK, MarkersOK, PlanOK, LeaseOK, AskOK, Asking, Carrying

(* A process that asks keeps its lease from every transaction that takes   *)
(* or clears one.                                                          *)
LEMMA AskersKeepTheirs ==
  ASSUME RecordInv, NEW q \in Proc, run[q].pc \in Asking
  PROVE  HasLease(q) /\ ~lock.expired /\ life[q] = "up" /\ lock.owner = q /\ Held
  BY DEF RecordInv, ProcOK, AskOK, DeadIdle, Idle, Asking, HasLease, Holds, Held

LEMMA NobodyAsks ==
  ASSUME RecordInv, Takeover # "refuse" \/ OwnerDead \/ lock.expired, NEW q \in Proc
  PROVE  run[q].pc \notin Asking
  BY AskersKeepTheirs DEF Takeover, OwnerDead

LEMMA LeaseGoneKeeps ==
  ASSUME Inv, LandingInv, RecordInv, AllCareful, lock'.token = 0,
         UNCHANGED <<issued, life, asked, remoteVars>>,
         \A q \in Proc : \/ run'[q] = Idle
                         \/ /\ run'[q] = run[q] /\ run[q].pc \notin Asking
                            /\ \A j \in Job : ~OwnedBy(q, j)'
  PROVE  RecordInv' /\ AllCareful
  <1>1. CommitsStay /\ NoStart /\ late' = {}
    BY RemoteSame
  <1>2. Calm
    BY WireSame DEF remoteVars, Idle
  <1>3. Tokens' /\ DeadIdle'
    <2>1. \A q \in Proc : run'[q] = Idle \/ run'[q] = run[q]
      OBVIOUS
    <2>2. Idle.tok = 0 /\ issued \in Nat
      BY DEF Idle, Inv, TypeOK, StoreTypeOK
    <2>3. Tokens'
      BY <2>1, <2>2 DEF RecordInv, Tokens
    <2> QED BY <2>1, <2>3 DEF RecordInv, DeadIdle
  <1>4. ASSUME NEW q \in Proc PROVE ProcOK(q)'
    <2>1. CASE run'[q] = Idle
      BY <2>1, IdleOK
    <2>2. CASE run'[q] = run[q] /\ run[q].pc \notin Asking /\ \A j \in Job : ~OwnedBy(q, j)'
      <3>1. LeftAlone(q)
        BY <2>2 DEF LeftAlone, HasLease, Holds
      <3> QED BY <1>1, <3>1, Alone
    <2> QED BY <2>1, <2>2
  <1> QED BY <1>1, <1>2, <1>3, <1>4, StepKeeps

LEMMA TakeKeeps ==
  ASSUME Inv, LandingInv, RecordInv, NEW p \in Proc, life[p] = "up", Takeover # "refuse",
         TakeLease(p), AllCareful,
         \A j \in Job : job'[j].status = "in_progress" => job'[j].token = NextToken,
         UNCHANGED <<life, asked, remoteVars>>,
         \A q \in Proc \ {p} : run'[q] = run[q],
         run'[p].tok = NextToken, run'[p].pc # "pulsed", ProcOK(p)'
  PROVE  RecordInv' /\ AllCareful
  <1>1. CommitsStay /\ NoStart /\ late' = {} /\ Calm
    BY RemoteSame, WireSame DEF remoteVars
  <1>2. issued \in Nat /\ issued' = issued + 1 /\ NextToken = issued + 1 /\ lock'.owner = p
    BY DEF Inv, TypeOK, StoreTypeOK, TakeLease, NextToken, LeaseOf
  <1>3. \A q \in Proc : run[q].tok \in Nat /\ run[q].tok <= issued
    BY DEF RecordInv, Tokens, Inv, TypeOK, RunnerTypeOK, Run
  <1>4. Tokens' /\ DeadIdle'
    BY <1>2, <1>3 DEF RecordInv, Tokens, DeadIdle
  <1>5. ASSUME NEW q \in Proc \ {p} PROVE ProcOK(q)'
    <2>1. ~HasLease(q)'
      BY <1>2 DEF HasLease, Holds
    <2>2. run[q].tok # NextToken
      BY <1>2, <1>3
    <2>3. \A j \in Job : ~OwnedBy(q, j)'
      BY <2>2 DEF OwnedBy, Owned
    <2>4. run[q].pc \notin Asking
      BY NobodyAsks
    <2>5. LeftAlone(q)
      BY <2>1, <2>3, <2>4 DEF LeftAlone
    <2> QED BY <1>1, <2>5, Alone
  <1> QED BY <1>1, <1>4, <1>5, StepKeeps

(* The same lease, seen differently: renewed, expired or watched.          *)
LEMMA SameLeaseKeeps ==
  ASSUME Inv, LandingInv, RecordInv, lock'.owner = lock.owner, lock'.token = lock.token,
         lock'.expired => lock.expired \/ \A q \in Proc : run[q].pc \notin Asking,
         UNCHANGED <<job, issued, run, asked, remoteVars>>,
         \A q \in Proc : life'[q] # "up" => life[q] # "up"
  PROVE  RecordInv' /\ AllCareful
  <1>1. CommitsStay /\ NoStart /\ late' = {} /\ Calm /\ AllCareful
    BY RemoteSame, WireSame, SameRowsCareful DEF remoteVars
  <1>2. Tokens' /\ DeadIdle'
    BY DEF RecordInv, Tokens, DeadIdle
  <1>3. ASSUME NEW q \in Proc PROVE ProcOK(q)'
    <2>1. /\ HasLease(q)' <=> HasLease(q)
          /\ \A j \in Job : OwnedBy(q, j)' <=> OwnedBy(q, j)
      BY DEF HasLease, Holds, OwnedBy
    <2>2. OwnerHolds(q) /\ AskOK(q)
      BY DEF RecordInv, ProcOK
    <2>3. LeftAlone(q)
      BY <1>1, <2>1, <2>2 DEF LeftAlone, OwnerHolds, AskOK
    <2> QED BY <1>1, <2>3, Alone
  <1> QED BY <1>1, <1>2, <1>3, StepKeeps

LEMMA NothingPending ==
  ASSUME Inv, LandingInv, RecordInv, Takeover # "refuse", ~ReconcilePending(AcquiredRows, 0)
  PROVE  NoFlight
  <1> SUFFICES ASSUME NEW s \in Sha, Flight(s) PROVE FALSE
    BY DEF NoFlight
  <1>1. PICK j \in Job : /\ job[j].marker = s
                         /\ job[j].status \in {"in_progress", "needs_reconcile"}
    BY FlightSeen
  <1>2. AcquiredRows[j].status \in {"in_progress", "needs_reconcile"}
    BY <1>1, SplitCareful DEF Careful
  <1>3. AcquiredRows[j].status # "in_progress"
    BY AcquireClears DEF Inv, TypeOK, StoreTypeOK, AnyClaimed, InStatus
  <1> QED BY <1>2, <1>3 DEF ReconcilePending

LEMMA ApprovalCareful ==
  ASSUME NEW rows \in [Job -> Row], NEW stale, NEW j \in Job, RowClean(rows[j])
  PROVE  Careful(rows[j], ApprovalBlocked(rows, stale)[j])
  <1>1. CASE ApprovalBlocked(rows, stale)[j] = rows[j]
    BY <1>1, SameRow
  <1>2. CASE ApprovalBlocked(rows, stale)[j] # rows[j]
    <2>1. /\ ApprovalBlocked(rows, stale)[j] = [rows[j] EXCEPT !.status = "blocked"]
          /\ rows[j].status = "queued"
      BY <1>2 DEF ApprovalBlocked, OrderedHeadOnly, AutoQueued, InStatus
    <2> QED BY <2>1 DEF Careful, Terminal, RowClean, IsReconcileConflict, Row
  <1> QED BY <1>1, <1>2

LEMMA BeginKeeps ==
  ASSUME Inv, LandingInv, RecordInv, NEW p \in Proc, life[p] = "up", Takeover # "refuse",
         NEW mode \in Mode, NEW rows \in [Job -> Row], ~AnyClaimed(rows),
         \A j \in Job : Careful(job[j], rows[j]),
         NEW picked \in SUBSET Job, \A j \in picked : rows[j].status \in {"queued", "validated"},
         mode # "validate" => NoFlight,
         Begin(p, mode, rows, picked), UNCHANGED asked
  PROVE  RecordInv' /\ AllCareful
  <1>1. NextToken \in Nat /\ NextToken # 0
    BY DEF NextToken, Inv, TypeOK, StoreTypeOK
  <1>2. \A j \in Job : job'[j] = IF j \in picked THEN Claimed(rows[j], NextToken) ELSE rows[j]
    BY DEF Begin
  <1>3. ASSUME NEW j \in picked
        PROVE  /\ job'[j].status = "in_progress" /\ job'[j].token = NextToken
               /\ job'[j].marker = 0 /\ Careful(rows[j], job'[j])
    <2>1. rows[j] \in Row /\ RowClean(rows[j]) /\ job'[j] = Claimed(rows[j], NextToken)
      BY <1>2 DEF Careful
    <2> QED BY <1>3, <2>1, NoSha DEF Claimed, Row, RowClean, Careful, Terminal, IsReconcileConflict
  <1>4. AllCareful
    BY <1>2, <1>3, CarefulChain DEF AllCareful
  <1>5. \A j \in Job : job'[j].status = "in_progress" => j \in picked /\ job'[j].token = NextToken
    BY <1>2, <1>3 DEF AnyClaimed, InStatus
  <1>6. /\ run'[p].pc = "assembling" /\ run'[p].tok = NextToken /\ run'[p].mode = mode
        /\ run'[p].batch = picked /\ run'[p].rest = {} /\ run'[p].plan = Unplanned
        /\ \A q \in Proc \ {p} : run'[q] = run[q]
    BY DEF Begin, Idle, Inv, TypeOK, RunnerTypeOK
  <1>7. UNCHANGED <<life, asked, remoteVars>> /\ TakeLease(p)
    BY DEF Begin
  <1>8. NoFlight => NoFlight'
    BY <1>6, <1>7, WireSame, CalmNoFlight DEF remoteVars
  <1>9. HasLease(p)'
    BY <1>1, <1>6, <1>7 DEF HasLease, Holds, TakeLease, LeaseOf
  <1>10. OwnerHolds(p)' /\ MarkersOK(p)'
    BY <1>3, <1>5, <1>6, <1>9 DEF OwnerHolds, MarkersOK, OwnedBy, Owned, Carrying
  <1>11. FrameOK(p)' /\ PlanOK(p)' /\ LeaseOK(p)' /\ AskOK(p)'
    BY <1>6, <1>8
    DEF FrameOK, PlanOK, LeaseOK, AskOK, Asking, Carrying, Guarded, Pushes, Unplanned
  <1> QED BY <1>4, <1>5, <1>6, <1>7, <1>10, <1>11, TakeKeeps DEF ProcOK

(* A transaction that leaves no lease and no claim.                        *)
LEMMA DropKeeps ==
  ASSUME Inv, LandingInv, RecordInv, AllCareful, ~AnyClaimed(job)', lock'.token = 0,
         UNCHANGED <<issued, life, run, asked, remoteVars>>,
         Takeover # "refuse" \/ OwnerDead \/ lock.expired \/ \E p \in Proc : lock.owner = p /\ At(p, "idle")
  PROVE  RecordInv' /\ AllCareful
  <1>1. \A q \in Proc : run[q].pc \notin Asking
    BY NobodyAsks, AskersKeepTheirs DEF At, Asking
  <1>2. \A q \in Proc, j \in Job : ~OwnedBy(q, j)'
    BY DEF AnyClaimed, InStatus, OwnedBy, Owned
  <1> QED BY <1>1, <1>2, LeaseGoneKeeps

LEMMA ClearKeeps ==
  ASSUME Inv, LandingInv, RecordInv, NEW p \in Owner, NEW t, ClearAndSplit(p, t),
         OwnerDead \/ lock.expired \/ \E q \in Proc : lock.owner = q /\ At(q, "idle"),
         UNCHANGED <<issued, life, run, asked, remoteVars>>
  PROVE  RecordInv' /\ AllCareful
  <1>1. CASE Holds(p, t)
    <2>1. job' = Split(job) /\ lock' = NoLock
      BY <1>1 DEF ClearAndSplit, ReleaseLease
    <2>2. AllCareful
      BY <2>1, SplitCareful DEF AllCareful
    <2>3. ~AnyClaimed(job)'
      BY <2>1, SplitClears DEF Inv, TypeOK, StoreTypeOK, AnyClaimed, InStatus
    <2> QED BY <2>1, <2>2, <2>3, DropKeeps DEF NoLock
  <1>2. CASE ~Holds(p, t)
    <2>1. job' = job /\ lock' = lock
      BY <1>2 DEF ClearAndSplit, ReleaseLease
    <2> QED BY <2>1, SameLeaseKeeps
  <1> QED BY <1>1, <1>2

LEMMA ClaimKeeps ==
  ASSUME Inv, LandingInv, RecordInv, NEW p \in Proc, RunnerClaim(p), UNCHANGED asked
  PROVE  RecordInv' /\ AllCareful
  <1>1. Takeover # "refuse" => AcquiredRows \in [Job -> Row] /\ ~AnyClaimed(AcquiredRows)
    BY AcquireClears DEF Inv, TypeOK, StoreTypeOK
  <1>2. \A j \in Job : Careful(job[j], AcquiredRows[j])
    BY SplitCareful
  <1>3. CASE ClaimQueued(p)
    <2>1. /\ ValidatePick(AcquiredRows) \in SUBSET Job
          /\ \A j \in ValidatePick(AcquiredRows) : AcquiredRows[j].status = "queued"
      BY DEF ValidatePick, OrderedHeadOnly, InStatus
    <2> QED BY <1>1, <1>2, <1>3, <2>1, BeginKeeps DEF ClaimQueued, At, CanAcquire, Mode
  <1>4. CASE ClaimTrain(p)
    <2>1. /\ TrainPick(AcquiredRows) \in SUBSET Job
          /\ \A j \in TrainPick(AcquiredRows) : AcquiredRows[j].status = "validated"
          /\ TrainPick(AcquiredRows) # {} => ~ReconcilePending(AcquiredRows, 0)
      BY DEF TrainPick, InStatus
    <2>2. TrainPick(AcquiredRows) # {} /\ Begin(p, "train", AcquiredRows, TrainPick(AcquiredRows))
          /\ Takeover # "refuse" /\ life[p] = "up"
      BY <1>4 DEF ClaimTrain, Begin, CanAcquire, At
    <2>3. NoFlight
      BY <2>1, <2>2, NothingPending
    <2> QED BY <1>1, <1>2, <2>1, <2>2, <2>3, BeginKeeps DEF Mode
  <1>5. CASE ClaimManual(p)
    <2>1. /\ ManualPick(AcquiredRows) \in SUBSET Job
          /\ \A j \in ManualPick(AcquiredRows) : AcquiredRows[j].status = "queued"
      BY DEF ManualPick, OrderedHeadOnly, InStatus
    <2> QED BY <1>1, <1>2, <1>5, <2>1, BeginKeeps DEF ClaimManual, At, CanAcquire, Mode
  <1>6. ASSUME NEW stale, Takeover # "refuse"
        PROVE  LET rows == ApprovalBlocked(AcquiredRows, stale)
               IN  /\ rows \in [Job -> Row] /\ ~AnyClaimed(rows)
                   /\ \A j \in Job : Careful(job[j], rows[j])
    <2>1. /\ ApprovalBlocked(AcquiredRows, stale) \in [Job -> Row]
          /\ ~AnyClaimed(ApprovalBlocked(AcquiredRows, stale))
      BY <1>1, <1>6, ApprovalBlockedType
    <2>2. ASSUME NEW j \in Job PROVE Careful(job[j], ApprovalBlocked(AcquiredRows, stale)[j])
      <3>1. Careful(job[j], AcquiredRows[j]) /\ RowClean(AcquiredRows[j])
        BY <1>2 DEF Careful
      <3>2. Careful(AcquiredRows[j], ApprovalBlocked(AcquiredRows, stale)[j])
        BY <1>1, <1>6, <3>1, ApprovalCareful
      <3> QED BY <3>1, <3>2, CarefulChain
    <2> QED BY <2>1, <2>2
  <1>7. CASE ClaimAuto(p)
    <2>1. PICK stale \in StaleApprovals(AcquiredRows) :
            Begin(p, "auto", ApprovalBlocked(AcquiredRows, stale), AutoPick(AcquiredRows, stale))
      BY <1>7 DEF ClaimAuto
    <2>2. /\ AutoPick(AcquiredRows, stale) \in SUBSET Job
          /\ \A j \in AutoPick(AcquiredRows, stale) :
               ApprovalBlocked(AcquiredRows, stale)[j].status = "queued"
          /\ AutoPick(AcquiredRows, stale) # {} => ~ReconcilePending(AcquiredRows, 0)
      BY DEF AutoPick, OrderedHeadOnly, AutoQueued, InStatus, ApprovalBlocked
    <2>3. AutoPick(AcquiredRows, stale) # {} /\ Takeover # "refuse" /\ life[p] = "up"
      BY <1>7, <2>1 DEF ClaimAuto, Begin, CanAcquire, At
    <2>4. NoFlight
      BY <2>2, <2>3, NothingPending
    <2> QED BY <1>6, <2>1, <2>2, <2>3, <2>4, BeginKeeps DEF Mode
  <1>8. CASE ClaimNothing(p) \/ RecoverOrphans(p)
    <2>1. AcquireAndDrop /\ UNCHANGED <<run, remoteVars>>
      BY <1>8 DEF ClaimNothing, RecoverOrphans
    <2>2. AllCareful /\ ~AnyClaimed(job)' /\ lock'.token = 0
      BY <1>1, <1>2, <2>1 DEF AcquireAndDrop, AllCareful, AnyClaimed, InStatus, NoLock
    <2> QED BY <2>1, <2>2, DropKeeps DEF AcquireAndDrop
  <1>9. CASE BlockStale(p)
    <2>1. PICK stale \in StaleApprovals(AcquiredRows) : job' = ApprovalBlocked(AcquiredRows, stale)
      BY <1>9 DEF BlockStale
    <2>2. Takeover # "refuse" /\ lock' = NoLock /\ UNCHANGED <<issued, life, run, remoteVars>>
      BY <1>9 DEF BlockStale
    <2>3. AllCareful /\ ~AnyClaimed(job)'
      BY <1>6, <2>1, <2>2 DEF AllCareful, AnyClaimed, InStatus
    <2> QED BY <2>2, <2>3, DropKeeps DEF NoLock
  <1>10. CASE DaemonClearsOwn(p)
    BY <1>10, ClearKeeps DEF DaemonClearsOwn, Owner
  <1> QED BY <1>3, <1>4, <1>5, <1>7, <1>8, <1>9, <1>10 DEF RunnerClaim

LEMMA ReconcileStartKeeps ==
  ASSUME Inv, LandingInv, RecordInv, NEW p \in Proc, ReconcileStart(p)
  PROVE  RecordInv' /\ AllCareful
  <1>1. /\ life[p] = "up" /\ Takeover # "refuse" /\ TakeLease(p) /\ job' = AcquiredRows
        /\ UNCHANGED <<life, asked, remoteVars>>
    BY DEF ReconcileStart, At, CanAcquire
  <1>2. AllCareful /\ ~AnyClaimed(job)'
    BY <1>1, SplitCareful, AcquireClears
    DEF AllCareful, Inv, TypeOK, StoreTypeOK, AnyClaimed, InStatus
  <1>3. /\ run'[p].pc = "asking" /\ run'[p].tok = NextToken
        /\ run'[p].batch = {} /\ run'[p].rest = {} /\ run'[p].plan = Unplanned
        /\ \A q \in Proc \ {p} : run'[q] = run[q]
    BY DEF ReconcileStart, Idle, Inv, TypeOK, RunnerTypeOK
  <1>4. HasLease(p)' /\ ~lock'.expired
    BY <1>1, <1>3 DEF HasLease, Holds, TakeLease, LeaseOf, NextToken, Inv, TypeOK, StoreTypeOK
  <1>5. ProcOK(p)'
    BY <1>2, <1>3, <1>4
    DEF ProcOK, OwnerHolds, FrameOK, MarkersOK, PlanOK, LeaseOK, AskOK, Carrying, Guarded,
        OwnedBy, Owned, AnyClaimed, InStatus
  <1> QED BY <1>1, <1>2, <1>3, <1>5, TakeKeeps DEF AnyClaimed, InStatus

(* The end of a run.                                                       *)
LEMMA LeaveKeeps ==
  ASSUME Inv, LandingInv, RecordInv, NEW p \in Proc, Leave(p) \/ Raise(p), UNCHANGED asked
  PROVE  RecordInv' /\ AllCareful
  <1>1. /\ life[p] = "up" /\ ReleaseLease(p, run[p].tok)
        /\ run'[p] = Idle /\ \A q \in Proc \ {p} : run'[q] = run[q]
        /\ job' = job \/ (HasLease(p) /\ job' = Split(job))
        /\ UNCHANGED <<issued, life, asked, remoteVars>>
    BY DEF Leave, Raise, At, ClearAndSplit, HasLease, storeVars, Inv, TypeOK, RunnerTypeOK
  <1>2. CASE HasLease(p)
    <2>1. lock' = NoLock
      BY <1>1, <1>2 DEF ReleaseLease, HasLease
    <2>2. AllCareful /\ \A j \in Job : job'[j].status = "in_progress" => job'[j] = job[j]
      <3>1. CASE job' = job
        BY <3>1, SameRowsCareful
      <3>2. CASE job' = Split(job)
        BY <3>2, SplitCareful, SplitClears
        DEF AllCareful, AnyClaimed, InStatus, Inv, TypeOK, StoreTypeOK
      <3> QED BY <1>1, <3>1, <3>2
    <2>3. ASSUME NEW q \in Proc \ {p}
          PROVE  run'[q] = run[q] /\ run[q].pc \notin Asking /\ \A j \in Job : ~OwnedBy(q, j)'
      <3>1. ~HasLease(q)
        BY <1>2 DEF HasLease, Holds
      <3>2. OwnerHolds(q) /\ AskOK(q)
        BY DEF RecordInv, ProcOK
      <3> QED BY <1>1, <2>2, <3>1, <3>2 DEF OwnerHolds, AskOK, OwnedBy, Owned
    <2> QED BY <1>1, <2>1, <2>2, <2>3, LeaseGoneKeeps DEF NoLock
  <1>3. CASE ~HasLease(p)
    <2>1. UNCHANGED <<quiet, remoteVars>>
      BY <1>1, <1>3 DEF ReleaseLease, HasLease, quiet, storeVars, leaseVars
    <2>2. ProcOK(p)' /\ CommitsStay
      BY <1>1, IdleOK, RemoteSame
    <2>3. run'[p].tok = 0 /\ run'[p].pc = "idle"
      BY <1>1 DEF Idle
    <2> QED BY <1>1, <2>1, <2>2, <2>3, LocalKeeps DEF remoteVars
  <1> QED BY <1>2, <1>3
-----------------------------------------------------------------------------
(* The operator, the machine and the remote.                               *)

(* An operator's write reaches no row whose push is unresolved, and leaves *)
(* the claim as it is.                                                     *)
OperatorWrites(r, new) ==
  /\ r.status = "in_progress" => new = [r EXCEPT !.cancel = TRUE] \/ new = r
  /\ r.status # "in_progress" => new.status # "in_progress"
  /\ r.status # "in_progress" =>
       \/ new = r
       \/ /\ r.status \in {"queued", "validated", "blocked", "failed"} /\ ~Unresolved(r)
          /\ new.marker = 0
          /\ new.status \in {"queued", "canceled"} /\ (new.cancel => new.status = "canceled")

LEMMA OperatorCareful ==
  ASSUME NEW r \in Row, RowClean(r), NEW new, OperatorWrites(r, new)
  PROVE  /\ Careful(r, new)
         /\ r.status = "in_progress" => new.token = r.token /\ new.marker = r.marker
         /\ Unresolved(r) => new = r
  BY NoSha DEF OperatorWrites, Careful, Terminal, RowClean, Unresolved, IsReconcileConflict, Row

LEMMA OperatorRows ==
  ASSUME Inv, RecordInv, Recoverable, NEW j \in Job, CancelJob(j) \/ DismissJob(j) \/ RetryJob(j),
         NEW i \in Job
  PROVE  OperatorWrites(job[i], job'[i])
  <1>1. job \in [Job -> Row] /\ job[i] \in Row /\ RowClean(job[i]) /\ RowClean(job[j])
    BY DEF Inv, TypeOK, StoreTypeOK, RecordInv, RowsClean
  <1>2. \A r \in Row : /\ Marked(r, "canceled").status = "canceled"
                       /\ Marked(r, "canceled").marker = 0
    BY DEF Marked, Row
  <1>3. CASE CancelJob(j)
    <2>1. CASE /\ job[j].status = "in_progress"
               /\ job[i].status = "in_progress" /\ job[i].token = job[j].token
      BY <1>1, <1>3, <2>1 DEF CancelJob, OperatorWrites, Row
    <2>2. CASE job[j].status = "validated" /\ i \in Members(job, job[j].train)
      <3>1. job'[i] = [job[i] EXCEPT !.status = "canceled"] /\ job[i].status = "validated"
        BY <1>3, <2>2 DEF CancelJob, Members, InStatus
      <3> QED BY <1>1, <3>1
          DEF OperatorWrites, RowClean, Row, Unresolved, IsReconcileConflict
    <2>3. CASE /\ i = j /\ job[j].status \in {"queued", "blocked", "failed"}
               /\ ~IsReconcileConflict(job[j])
      <3>1. job'[i] = Marked(job[i], "canceled")
        BY <1>3, <2>3 DEF CancelJob
      <3> QED BY <1>1, <1>2, <2>3, <3>1 DEF OperatorWrites, Unresolved
    <2>4. CASE job'[i] = job[i]
      BY <2>4 DEF OperatorWrites
    <2> QED BY <1>3, <2>1, <2>2, <2>3, <2>4 DEF CancelJob
  <1>4. CASE DismissJob(j) \/ RetryJob(j)
    <2>1. job[j].status \in {"blocked", "failed"} /\ ~Unresolved(job[j])
      BY <1>4 DEF DismissJob, RetryJob, Resolvable, Recoverable, Unresolved
    <2>2. PICK new : /\ job' = [job EXCEPT ![j] = new]
                     /\ \/ new = Marked(job[j], "canceled")
                        \/ \E auto : new = FreshRow(auto)
      BY <1>4 DEF DismissJob, RetryJob
    <2>3. CASE i # j
      BY <1>1, <2>2, <2>3 DEF OperatorWrites
    <2>4. CASE i = j
      <3>1. job'[i] = new
        BY <1>1, <2>2, <2>4
      <3>2. new.status \in {"queued", "canceled"} /\ new.marker = 0
            /\ (new.cancel => new.status = "canceled")
        BY <1>1, <1>2, <2>2, <2>4 DEF FreshRow
      <3> QED BY <2>1, <2>4, <3>1, <3>2 DEF OperatorWrites
    <2> QED BY <2>3, <2>4
  <1> QED BY <1>3, <1>4

LEMMA OperatorKeeps ==
  ASSUME Inv, LandingInv, RecordInv, Recoverable, OperatorNext
  PROVE  RecordInv' /\ AllCareful
  <1>1. ASSUME NEW j \in Job, CancelJob(j) \/ DismissJob(j) \/ RetryJob(j) PROVE RecordInv' /\ AllCareful
    <2>1. UNCHANGED <<issued, leaseVars, remoteVars, run, asked>>
      BY <1>1 DEF CancelJob, DismissJob, RetryJob, processVars
    <2>2. CommitsStay /\ NoStart /\ late' = {} /\ Calm
      BY <2>1, RemoteSame, WireSame DEF remoteVars
    <2>3. Tokens' /\ DeadIdle'
      BY <2>1 DEF RecordInv, Tokens, DeadIdle, leaseVars
    <2>4. ASSUME NEW i \in Job
          PROVE  /\ OperatorWrites(job[i], job'[i]) /\ Careful(job[i], job'[i])
                 /\ job[i].status = "in_progress" => /\ job'[i].status = "in_progress"
                                                     /\ job'[i].token = job[i].token
                                                     /\ job'[i].marker = job[i].marker
                 /\ job'[i].status = "in_progress" => job[i].status = "in_progress"
                 /\ Unresolved(job[i]) => job'[i] = job[i]
      <3>1. job[i] \in Row /\ RowClean(job[i])
        BY DEF Inv, TypeOK, StoreTypeOK, RecordInv, RowsClean
      <3>2. OperatorWrites(job[i], job'[i])
        BY <1>1, OperatorRows
      <3>3. /\ job[i].status = "in_progress" => job'[i].status = "in_progress"
            /\ job'[i].status = "in_progress" => job[i].status = "in_progress"
        BY <3>1, <3>2 DEF OperatorWrites, Row
      <3> QED BY <3>1, <3>2, <3>3, OperatorCareful
    <2>5. ASSUME NEW q \in Proc PROVE ProcOK(q)'
      <3>1. /\ HasLease(q)' <=> HasLease(q)
            /\ \A i \in Job : OwnedBy(q, i)' <=> OwnedBy(q, i)
        BY <2>1, <2>4 DEF HasLease, Holds, OwnedBy, Owned, leaseVars
      <3>2. OwnerHolds(q) /\ AskOK(q)
        BY DEF RecordInv, ProcOK
      <3>3. ~AnyClaimed(job) => ~AnyClaimed(job')
        BY <2>4 DEF AnyClaimed, InStatus
      <3>4. \A i \in Job : job[i].status = "needs_reconcile" => job'[i] = job[i]
        BY <2>4 DEF Unresolved
      <3>5. \A i \in Job : OwnedBy(q, i) => job'[i].marker = job[i].marker
        BY <2>4 DEF OwnedBy, Owned
      <3>6. LeftAlone(q)
        BY <2>1, <2>2, <2>4, <3>1, <3>2, <3>3, <3>4, <3>5
        DEF LeftAlone, OwnerHolds, AskOK, leaseVars
      <3> QED BY <2>2, <3>6, Alone
    <2> QED BY <2>2, <2>3, <2>4, <2>5, StepKeeps DEF AllCareful
  <1>2. CASE (UnlockDead \/ UnlockForced) /\ UNCHANGED <<remoteVars, processVars>>
    <2>1. lock.owner \in Owner
      BY DEF Inv, TypeOK, LeaseTypeOK
    <2>2. /\ ClearAndSplit(lock.owner, lock.token) /\ UNCHANGED <<issued, life>>
          /\ OwnerDead \/ lock.expired
      BY <1>2 DEF UnlockDead, UnlockForced
    <2> QED BY <1>2, <2>1, <2>2, ClearKeeps DEF processVars
  <1>3. CASE UnlockWatch /\ UNCHANGED <<remoteVars, processVars>>
    BY <1>3, SameLeaseKeeps DEF UnlockWatch, processVars
  <1> QED BY <1>1, <1>2, <1>3 DEF OperatorNext

LEMMA MachineKeeps ==
  ASSUME Inv, LandingInv, RecordInv, Recoverable, MachineNext
  PROVE  RecordInv' /\ AllCareful
  <1>1. CASE Expire
    <2>1. \A q \in Proc : run[q].pc \notin Asking
      BY <1>1, AskersKeepTheirs DEF Expire, Recoverable
    <2>2. lock'.owner = lock.owner /\ lock'.token = lock.token
      BY <1>1 DEF Expire, Inv, TypeOK, LeaseTypeOK
    <2> QED BY <1>1, <2>1, <2>2, SameLeaseKeeps DEF Expire, storeVars, processVars
  <1>2. ASSUME NEW p \in Proc, Crash(p) PROVE RecordInv' /\ AllCareful
    <2>1. /\ UNCHANGED <<job, issued, lock, remoteVars>>
          /\ run'[p] = Idle /\ \A q \in Proc \ {p} : run'[q] = run[q]
          /\ \A q \in Proc \ {p} : asked'[q] = asked[q] /\ life'[q] = life[q]
      BY <1>2 DEF Crash, storeVars, Inv, TypeOK, RunnerTypeOK, ReconcileTypeOK, LeaseTypeOK
    <2>2. CommitsStay /\ NoStart /\ late' = {} /\ Calm /\ AllCareful
      BY <2>1, RemoteSame, WireSame, SameRowsCareful DEF remoteVars, Idle
    <2>3. Tokens' /\ DeadIdle'
      <3>1. run'[p].tok = 0
        BY <2>1 DEF Idle
      <3> QED BY <2>1, <3>1, TokensStay DEF RecordInv, DeadIdle
    <2>4. \A q \in Proc : ProcOK(q)'
      BY <2>1, <2>2, IdleOK, OtherLeft, Alone
    <2> QED BY <2>2, <2>3, <2>4, StepKeeps
  <1>3. ASSUME NEW p \in Proc, ReusePid(p) \/ Respawn(p) PROVE RecordInv' /\ AllCareful
    <2>1. \A q \in Proc : life'[q] # "up" => life[q] # "up"
      BY <1>3 DEF ReusePid, Respawn, Inv, TypeOK, LeaseTypeOK
    <2> QED BY <1>3, <2>1, SameLeaseKeeps DEF ReusePid, Respawn, storeVars, processVars
  <1> QED BY <1>1, <1>2, <1>3 DEF MachineNext

(* The remote starts no push, and without late landings only a running one *)
(* lands.                                                                  *)
LEMMA RemoteCalm ==
  ASSUME Inv, RecordInv, Recoverable, RemoteNext, UNCHANGED processVars
  PROVE  Calm /\ CommitsStay /\ NoStart /\ late' = {}
  <1>1. wire \in [Sha -> Wire] /\ late = {}
    BY DEF Inv, TypeOK, RemoteTypeOK, RecordInv
  <1>2. UNCHANGED run
    BY DEF processVars
  <1>3. ASSUME NEW s \in Sha, WireLands(s) PROVE Calm /\ CommitsStay /\ NoStart /\ late' = {}
    BY <1>1, <1>2, <1>3 DEF WireLands, Landing, Calm, CommitsStay, NoStart
  <1>4. ASSUME NEW s \in Sha, WireRefuses(s) PROVE Calm /\ CommitsStay /\ NoStart /\ late' = {}
    BY <1>1, <1>2, <1>4 DEF WireRefuses, Calm, CommitsStay, NoStart
  <1>5. ASSUME NEW s \in Sha, WireDrops(s) PROVE Calm /\ CommitsStay /\ NoStart /\ late' = {}
    BY <1>1, <1>2, <1>5 DEF WireDrops, Calm, CommitsStay, NoStart, Recoverable
  <1>6. ASSUME NEW s \in Sha, LateLands(s) PROVE FALSE
    BY <1>1, <1>6 DEF LateLands
  <1>7. CASE ForeignPush
    BY <1>1, <1>2, <1>7 DEF ForeignPush, Calm, CommitsStay, NoStart
  <1>8. ASSUME NEW r \in Ref, NEW kept \in SUBSET onref[r], Rewrite(r, kept)
        PROVE  Calm /\ CommitsStay /\ NoStart /\ late' = {}
    BY <1>1, <1>2, <1>8 DEF Rewrite, Calm, CommitsStay, NoStart
  <1> QED BY <1>3, <1>4, <1>5, <1>6, <1>7, <1>8 DEF RemoteNext

LEMMA RemoteKeeps ==
  ASSUME Inv, LandingInv, RecordInv, Recoverable, RemoteNext,
         UNCHANGED <<storeVars, leaseVars, processVars>>
  PROVE  RecordInv' /\ AllCareful
  <1>1. Calm /\ CommitsStay /\ NoStart /\ late' = {}
    BY RemoteCalm
  <1>2. UNCHANGED <<job, issued, lock, life, run, asked>>
    BY DEF storeVars, leaseVars, processVars
  <1>3. Tokens' /\ DeadIdle' /\ AllCareful
    BY <1>2, SameRowsCareful DEF RecordInv, Tokens, DeadIdle
  <1>4. \A q \in Proc : ProcOK(q)'
    BY <1>1, <1>2, OtherLeft, Alone
  <1> QED BY <1>1, <1>3, <1>4, StepKeeps

LEMMA HeartbeatKeeps ==
  ASSUME Inv, LandingInv, RecordInv, NEW p \in Proc, Heartbeat(p), UNCHANGED asked
  PROVE  RecordInv' /\ AllCareful
  <1>1. /\ lock'.owner = lock.owner /\ lock'.token = lock.token /\ ~lock'.expired
        /\ UNCHANGED <<job, issued, run, remoteVars, life>>
    BY DEF Heartbeat, RenewLease, storeVars, Inv, TypeOK, LeaseTypeOK
  <1> QED BY <1>1, SameLeaseKeeps

-----------------------------------------------------------------------------
(* The theorems.                                                           *)

LEMMA InitRecord == Init => RecordInv
  <1> SUFFICES ASSUME Init PROVE RecordInv
    OBVIOUS
  <1>1. /\ \A p \in Proc : run[p] = Idle
        /\ \A j \in Job : \E auto \in BOOLEAN : job[j] = FreshRow(auto)
        /\ wire = [s \in Sha |-> "idle"] /\ landed = {} /\ late = {} /\ issued = 0
    <2>1. \A p \in Proc : run[p] = Idle
      BY DEF Init, RunnerInit
    <2>2. \A j \in Job : job[j] = FreshRow(j \in AutoJob)
      BY DEF Init, StoreInit
    <2>3. \A j \in Job : (j \in AutoJob) \in BOOLEAN
      OBVIOUS
    <2>4. wire = [s \in Sha |-> "idle"] /\ landed = {} /\ late = {} /\ issued = 0
      BY DEF Init, StoreInit, RemoteInit
    <2> QED BY <2>1, <2>2, <2>3, <2>4
  <1>2. Tokens /\ DeadIdle
    <2>1. \A p \in Proc : run[p].tok = 0
      BY <1>1 DEF Idle
    <2> QED BY <1>1, <2>1 DEF Tokens, DeadIdle
  <1>3. RowsClean
    <2> SUFFICES ASSUME NEW j \in Job PROVE RowClean(job[j])
      BY DEF RowsClean
    <2> PICK auto \in BOOLEAN : job[j] = FreshRow(auto)
      BY <1>1
    <2>1. /\ FreshRow(auto).status = "queued"
          /\ FreshRow(auto).marker = 0 /\ ~FreshRow(auto).cancel
      BY Zenon DEF FreshRow
    <2> QED BY <2>1 DEF RowClean
  <1>4. ASSUME NEW p \in Proc PROVE ProcOK(p)
    <2>1. ~HasLease(p) /\ \A j \in Job : ~OwnedBy(p, j)
      BY <1>1 DEF Idle, HasLease, Holds, OwnedBy, Owned
    <2> QED BY <1>1, <2>1
        DEF Idle, ProcOK, OwnerHolds, FrameOK, MarkersOK, PlanOK, LeaseOK, AskOK, Asking, Carrying
  <1>5. \A s \in Sha : wire[s] # "running" /\ ~Flight(s) /\ ~Still(s)
    BY <1>1 DEF Flight, Pulsed, Still, Idle
  <1>6. OneFlight /\ FlightOnRecord /\ OnRecord
    BY <1>1, <1>5 DEF OneFlight, OnePush, FlightOnRecord, OnRecord, Idle
  <1> QED BY <1>1, <1>2, <1>3, <1>4, <1>6 DEF RecordInv

LEMMA RunnerStepKeeps ==
  ASSUME Inv, LandingInv, RecordInv, NEW p \in Proc, RunnerStep(p), UNCHANGED asked
  PROVE  RecordInv' /\ AllCareful
  <1>1. CASE SeeCancel(p) \/ RecordTrain(p)
    BY <1>1, BeforePushKeeps
  <1>2. CASE LoseLease(p)
    BY <1>2, ErrorKeeps
  <1>3. CASE HoldPushLock(p)
    BY <1>3, OutcomeKeeps, CarryKeeps
  <1>4. CASE PushSucceeds(p) \/ PushAmbiguous(p) \/ JudgeRefusal(p)
    BY <1>4, OutcomeKeeps
  <1>5. CASE Leave(p) \/ Raise(p)
    BY <1>5, LeaveKeeps
  <1> QED BY <1>1, <1>2, <1>3, <1>4, <1>5, AssembleKeeps, NarrowKeeps, MarkerKeeps, PulseKeeps,
             StartKeeps, CarryKeeps, FinishKeeps, DoneKeeps DEF RunnerStep

LEMMA RunnerFailureKeeps ==
  ASSUME Inv, LandingInv, RecordInv, Recoverable, NEW p \in Proc, RunnerFailure(p), UNCHANGED asked
  PROVE  RecordInv' /\ AllCareful
  <1>1. ASSUME PushError(p) PROVE FALSE
    BY <1>1 DEF PushError, Recoverable
  <1>2. CASE \E j \in Job, to \in {"blocked", "failed"} : RejectJob(p, j, to)
    BY <1>2, RejectKeeps
  <1>3. CASE \/ StopRecording(p)
             \/ \E reached \in SUBSET run[p].batch, to \in {"blocked", "failed"} :
                  Stop(p, reached, to)
    BY <1>3, BeforePushKeeps
  <1> QED BY <1>1, <1>2, <1>3, OutcomeKeeps, ErrorKeeps, NarrowKeeps DEF RunnerFailure

LEMMA NextRecord ==
  ASSUME Recoverable, Inv, LandingInv, RecordInv, [Next]_vars
  PROVE  RecordInv' /\ AllCareful
  <1>1. CASE UNCHANGED vars
    BY <1>1, SameLeaseKeeps DEF vars, storeVars, leaseVars
  <1>2. ASSUME NEW p \in Proc, RunnerNext(p), UNCHANGED asked PROVE RecordInv' /\ AllCareful
    BY <1>2, ClaimKeeps, HeartbeatKeeps, RunnerStepKeeps, RunnerFailureKeeps DEF RunnerNext
  <1>3. ASSUME NEW p \in Proc, ReconcileNext(p) PROVE RecordInv' /\ AllCareful
    BY <1>3, ReconcileStartKeeps, AskKeeps, ProbeLockKeeps, ReadRefKeeps, ReadRemoteKeeps,
       ApplyKeeps, AskEndsKeeps
       DEF ReconcileNext, ReconcileStep
  <1>4. CASE OperatorNext
    BY <1>4, OperatorKeeps
  <1>5. CASE MachineNext
    BY <1>5, MachineKeeps
  <1>6. CASE RemoteNext /\ UNCHANGED <<storeVars, leaseVars, processVars>>
    BY <1>6, RemoteKeeps
  <1> QED BY <1>1, <1>2, <1>3, <1>4, <1>5, <1>6 DEF Next, ProcessNext

(* What is known of every reachable state, and of every step from one.     *)
Known == Inv /\ LandingInv /\ RecordInv

LEMMA KnownAlways ==
  ASSUME Recoverable
  PROVE  Spec => []Known /\ [][Known /\ Known' /\ AllCareful]_vars
  <1>1. Init => Known
    BY InitInv, InitSound, InitRecord DEF Known
  <1>2. Known /\ [Next]_vars => Known' /\ AllCareful
    BY NextInv, NextSound, NextRecord DEF Known
  <1> QED BY <1>1, <1>2, PTL DEF Spec

(* No landing is forgotten: whatever crashes, steals, cancels, lost        *)
(* replies, rewrites of a branch, unlocks and reconciles come between,     *)
(* every job of a push that is under way or has landed is recorded         *)
(* deployed or still carries the marker that record_pending_push wrote.    *)
THEOREM PushIsOnRecordHolds ==
  ASSUME Recoverable
  PROVE  Spec => []PushIsOnRecord
  <1>1. Known => PushIsOnRecord
    <2> SUFFICES ASSUME Known, NEW s \in Sha, wire[s] = "running" \/ s \in landed
                 PROVE  \A j \in commit[s].jobs : job[j].status = "deployed" \/ job[j].marker = s
      BY DEF PushIsOnRecord
    <2> QED BY DEF Known, RecordInv, OnRecord, Still, Flight
  <1> QED BY <1>1, KnownAlways, PTL

(* One push at a time: two git pushes of this queue are never under way at *)
(* once, even when the runner of the first died, lost its lease or gave up *)
(* on the reply.                                                           *)
THEOREM OnePushHolds ==
  ASSUME Recoverable
  PROVE  Spec => []OnePush
  <1>1. Known => OnePush
    BY DEF Known, RecordInv, OneFlight
  <1> QED BY <1>1, KnownAlways, PTL

(* What is recorded deployed did land, and what landed is recorded or      *)
(* still has its marker, whatever the remote answers.                      *)
THEOREM LandingsKeptHolds ==
  ASSUME Recoverable
  PROVE  Spec => []LandingsKept
  BY PushIsOnRecordHolds, DeployedLandedHolds, PTL DEF LandingsKept

(* Where no unexpected exception escapes a push: a failed row has no       *)
(* marker, as failure-modes.md says; and while a git push is under way,    *)
(* each job it carries is in progress or waits for a reconcile, with its   *)
(* marker.  No cancel, retry, dismiss, split or verdict makes it anything  *)
(* else before the push has ended.                                         *)
THEOREM NeverFailedUnresolved ==
  ASSUME Recoverable
  PROVE  Spec => [](AmbiguousNeverFailed /\ PushAwaited)
  <1>1. Known => AmbiguousNeverFailed
    BY DEF Known, RecordInv, RowsClean, RowClean, AmbiguousNeverFailed, InStatus
  <1>2. Known => PushAwaited
    BY DEF Known, RecordInv, FlightOnRecord, Flight, PushAwaited
  <1> QED BY <1>1, <1>2, KnownAlways, PTL

(* However orphans are healed, by a daemon or by whoever takes the lease   *)
(* over: rows in progress are of one claim, no push is forgotten, no two   *)
(* are under way at once, and none is given up while it is under way.      *)
THEOREM HealedClaimsHolds ==
  ASSUME Recoverable
  PROVE  Spec => []HealedClaims
  BY OneClaimHolds, PushIsOnRecordHolds, OnePushHolds, NeverFailedUnresolved, PTL
     DEF HealedClaims

(* A marker is given up without a deployment only when its push did not    *)
(* land, is not under way, and no runner is about to start it: at every    *)
(* status write, refusal, split, cancel, retry and verdict.                *)
THEOREM VerdictAfterPushHolds ==
  ASSUME Recoverable
  PROVE  Spec => VerdictAfterPush
  <1> DEFINE Given == \A j \in Job :
               job[j].marker # 0 /\ job'[j].marker # job[j].marker /\ job'[j].status # "deployed"
                 => ~CanStillLand(job[j].marker)
  <1>1. Known /\ AllCareful => Given
    <2> SUFFICES ASSUME Known, AllCareful, NEW j \in Job, job[j].marker # 0,
                        job'[j].marker # job[j].marker, job'[j].status # "deployed"
                 PROVE  ~CanStillLand(job[j].marker)
      OBVIOUS
    <2>1. job[j].marker \in Sha
      BY DEF Known, RecordInv, RowsClean, RowClean
    <2>2. ~Still(job[j].marker)
      BY DEF AllCareful, Careful
    <2> QED BY <2>1, <2>2 DEF CanStillLand, Still, Flight, Pulsed, At
  <1>2. [Known /\ Known' /\ AllCareful]_vars => [Given]_vars
    BY <1>1
  <1> QED BY <1>2, KnownAlways, PTL DEF VerdictAfterPush

(* A cancel request is never dropped: a row that carries one ends canceled *)
(* or deployed, or stays parked with the request, through every status     *)
(* write, split and verdict.                                               *)
THEOREM CancelHonouredHolds ==
  ASSUME Recoverable
  PROVE  Spec => CancelHonoured
  <1> DEFINE Honoured == \A j \in Job :
               job[j].cancel /\ job'[j].status # job[j].status
                 => \/ job'[j].status \in {"canceled", "deployed"}
                    \/ job'[j].status \in {"needs_reconcile", "blocked"} /\ job'[j].cancel
  <1>1. AllCareful => Honoured
    BY DEF AllCareful, Careful, Terminal
  <1>2. [Known /\ Known' /\ AllCareful]_vars => [Honoured]_vars
    BY <1>1
  <1> QED BY <1>2, KnownAlways, PTL DEF CancelHonoured

-----------------------------------------------------------------------------
(***************************************************************************)
(* The queue implements the ledger, for every value of the constants: each *)
(* step of every process, of the operator, of the machine and of the       *)
(* remote opens, lands, settles, gives up or withdraws what Ledger says,   *)
(* or changes nothing of it.                                               *)
(*                                                                         *)
(* A write to the rows is one of four kinds: it keeps every marker; it     *)
(* writes one row; it is record_pending_push; or it takes back the markers *)
(* of a refused push.  The first two leave the ledger, or withdraw, settle *)
(* or give up; the third opens the intent, the fourth gives it up.         *)
(***************************************************************************)

(* The ledger's variables, row by row.                                     *)
PhaseOf(r)  == IF r.status = "deployed" THEN "done"
               ELSE IF r.marker # 0 THEN "open"
               ELSE IF r.status = "canceled" THEN "withdrawn"
               ELSE "waiting"
IntentOf(r) == IF r.status = "deployed" THEN 0 ELSE r.marker
Live        == UNION {commit[s].jobs : s \in landed}

LedgerStep == Promise!Next \/ UNCHANGED Promise!ledger

(* Recording j takes its row to phase f, and every row outside S stays.    *)
Moved(S, f, i) ==
  \A j \in Job : /\ PhaseOf(job'[j])  = IF j \in S THEN f ELSE PhaseOf(job[j])
                 /\ IntentOf(job'[j]) = IF j \in S THEN i ELSE IntentOf(job[j])

LEMMA LiveIsLanded ==
  ASSUME NEW j
  PROVE  j \in Live <=> Landed(j)
  BY DEF Live, Landed

LEMMA AsMoved ==
  ASSUME NEW S, NEW f, NEW i, Moved(S, f, i)
  PROVE  Promise!Becomes(S, f, i)
  BY DEF Moved, PhaseOf, IntentOf, Promise!Becomes

LEMMA AsBefore ==
  ASSUME \A j \in Job : /\ PhaseOf(job'[j]) = PhaseOf(job[j])
                        /\ IntentOf(job'[j]) = IntentOf(job[j]),
         Live' = Live
  PROVE  LedgerStep
  BY DEF PhaseOf, IntentOf, Live, LedgerStep, Promise!ledger

LEMMA AsWithdraw ==
  ASSUME NEW S \in SUBSET Job, \A j \in S : PhaseOf(job[j]) = "waiting",
         Moved(S, "withdrawn", 0), Live' = Live
  PROVE  LedgerStep
  <1>1. S \subseteq Promise!InPhase("waiting")
    BY DEF PhaseOf, Promise!InPhase
  <1> QED BY <1>1, AsMoved DEF Live, LedgerStep, Promise!Next, Promise!Withdraw

LEMMA AsGiveUp ==
  ASSUME NEW S \in SUBSET Job, \A j \in S : PhaseOf(job[j]) = "open" /\ ~Landed(j),
         NEW f \in {"waiting", "withdrawn"}, Moved(S, f, 0), Live' = Live
  PROVE  LedgerStep
  <1>1. S \subseteq Promise!InPhase("open")
    BY DEF PhaseOf, Promise!InPhase
  <1>2. S \intersect Live = {}
    BY LiveIsLanded
  <1> QED BY <1>1, <1>2, AsMoved DEF Live, LedgerStep, Promise!Next, Promise!GiveUp

LEMMA AsSettle ==
  ASSUME NEW j \in Job, PhaseOf(job[j]) = "open", Landed(j),
         Moved({j}, "done", 0), Live' = Live
  PROVE  LedgerStep
  <1>1. j \in Promise!InPhase("open")
    BY DEF PhaseOf, Promise!InPhase
  <1>2. j \in Live
    BY LiveIsLanded
  <1> QED BY <1>1, <1>2, AsMoved DEF Live, LedgerStep, Promise!Next, Promise!Settle

LEMMA AsOpen ==
  ASSUME NEW S \in SUBSET Job, S # {}, NEW s \in Sha,
         \A j \in S : PhaseOf(job[j]) = "waiting" /\ ~Landed(j),
         \A j \in Job : ~(PhaseOf(job[j]) = "open" /\ IntentOf(job[j]) = s),
         Moved(S, "open", s), Live' = Live
  PROVE  LedgerStep
  <1>1. S \subseteq Promise!InPhase("waiting")
    BY DEF PhaseOf, Promise!InPhase
  <1>2. S \intersect Live = {}
    BY LiveIsLanded
  <1>3. Promise!Part(s) = {}
    BY DEF PhaseOf, IntentOf, Promise!Part, Promise!InPhase
  <1> QED BY <1>1, <1>2, <1>3, AsMoved DEF Live, LedgerStep, Promise!Next, Promise!Open

LEMMA AsLand ==
  ASSUME NEW s \in Sha, NEW S, S # {},
         \A j : j \in S <=> j \in Job /\ PhaseOf(job[j]) = "open" /\ IntentOf(job[j]) = s,
         \A j \in S : ~Landed(j), Live' = Live \union S, UNCHANGED job
  PROVE  LedgerStep
  <1>1. Promise!Part(s) = S
    BY DEF PhaseOf, IntentOf, Promise!Part, Promise!InPhase
  <1>2. S \intersect Live = {}
    BY LiveIsLanded
  <1> QED BY <1>1, <1>2 DEF Live, LedgerStep, Promise!Next, Promise!Land

-----------------------------------------------------------------------------
(* What is live.                                                           *)

(* A row that is neither deployed nor marked has nothing on the remote,    *)
(* and one whose marker's push did not land has nothing there either.      *)
LEMMA NotLive ==
  ASSUME Known, NEW j \in Job, job[j].status # "deployed",
         job[j].marker = 0 \/ ~Still(job[j].marker)
  PROVE  ~Landed(j)
  <1>1. landed \subseteq Sha
    BY DEF Known, Inv, TypeOK, RemoteTypeOK
  <1> QED BY <1>1, NoSha DEF Known, RecordInv, OnRecord, Still, Landed

LEMMA LiveStays ==
  ASSUME Known, CommitsStay, landed' = landed
  PROVE  Live' = Live
  <1>1. \A s \in landed : commit'[s] = commit[s]
    BY DEF Known, Inv, TypeOK, RemoteTypeOK, LandingInv, RemoteSound, CommitsStay
  <1>2. Live' = UNION {commit'[s].jobs : s \in landed}
    BY DEF Live
  <1>3. {commit'[s].jobs : s \in landed} = {commit[s].jobs : s \in landed}
    BY <1>1
  <1> QED BY <1>2, <1>3 DEF Live

LEMMA LiveSame ==
  ASSUME UNCHANGED <<commit, landed>>
  PROVE  Live' = Live /\ \A j : Landed(j)' <=> Landed(j)
  BY DEF Live, Landed

-----------------------------------------------------------------------------
(* The kinds of writes.                                                    *)

LEMMA RowStays ==
  ASSUME NEW r, NEW new, RowClean(r), RowClean(new), r.status \in Terminal, new.status = r.status
  PROVE  PhaseOf(new) = PhaseOf(r) /\ IntentOf(new) = IntentOf(r)
  BY DEF PhaseOf, IntentOf, Terminal, RowClean

(* The write keeps every marker: at most it withdraws rows without one.    *)
MarkersStay ==
  \A j \in Job : /\ job'[j].marker = job[j].marker
                 /\ job'[j].status = "deployed" => job[j].status = "deployed"

LEMMA MarkersStayStep ==
  ASSUME Known, Known', AllCareful, MarkersStay, Live' = Live
  PROVE  LedgerStep
  <1> DEFINE S == {j \in Job : PhaseOf(job[j]) = "waiting" /\ job'[j].status = "canceled"}
  <1>1. ASSUME NEW j \in Job
        PROVE  /\ PhaseOf(job'[j])  = IF j \in S THEN "withdrawn" ELSE PhaseOf(job[j])
               /\ IntentOf(job'[j]) = IF j \in S THEN 0 ELSE IntentOf(job[j])
    <2>1. RowClean(job[j]) /\ RowClean(job'[j])
      BY DEF Known, RecordInv, RowsClean
    <2>2. /\ job'[j].marker = job[j].marker
          /\ job'[j].status = "deployed" => job[j].status = "deployed"
      BY DEF MarkersStay
    <2>3. CASE job[j].status \in Terminal
      <3>1. job'[j].status = job[j].status
        BY <2>3 DEF AllCareful, Careful
      <3> QED BY <2>1, <2>3, <3>1, RowStays DEF PhaseOf, Terminal, RowClean
    <2>4. CASE job[j].status \notin Terminal
      BY <2>1, <2>2, <2>4 DEF PhaseOf, IntentOf, Terminal, RowClean
    <2> QED BY <2>3, <2>4
  <1>2. Moved(S, "withdrawn", 0)
    BY <1>1 DEF Moved
  <1> QED BY <1>2, AsWithdraw

(* The write is of one row, and gives it no new marker.                    *)
OneRow(j) ==
  /\ \A i \in Job \ {j} : job'[i] = job[i]
  /\ job'[j].marker \in {0, job[j].marker}

LEMMA OneRowStep ==
  ASSUME Known, Known', AllCareful, NEW j \in Job, OneRow(j), UNCHANGED <<commit, landed>>
  PROVE  LedgerStep
  <1>1. /\ RowClean(job[j]) /\ RowClean(job'[j])
        /\ job'[j].marker \in {0, job[j].marker}
        /\ \A i \in Job \ {j} : job'[i] = job[i]
        /\ Careful(job[j], job'[j])
    BY DEF Known, RecordInv, RowsClean, OneRow, AllCareful
  <1>2. Live' = Live /\ (Landed(j)' <=> Landed(j))
    BY LiveSame
  <1>3. job'[j].status = "deployed" => Landed(j)
    BY <1>2 DEF Known, LandingInv, RowsSound
  <1>4. ASSUME NEW f, NEW i, PhaseOf(job'[j]) = f, IntentOf(job'[j]) = i
        PROVE  Moved({j}, f, i)
    BY <1>1, <1>4 DEF Moved
  <1>5. CASE PhaseOf(job'[j]) = PhaseOf(job[j]) /\ IntentOf(job'[j]) = IntentOf(job[j])
    BY <1>1, <1>2, <1>5, AsBefore
  <1>6. CASE job[j].status \in Terminal
    <2>1. job'[j].status = job[j].status
      BY <1>1, <1>6 DEF Careful
    <2> QED BY <1>1, <1>5, <1>6, <2>1, RowStays
  <1>7. CASE job[j].status \notin Terminal /\ job[j].marker = 0
    <2>1. PhaseOf(job[j]) = "waiting" /\ IntentOf(job[j]) = 0
      BY <1>7 DEF PhaseOf, IntentOf, Terminal
    <2>2. ~Landed(j)
      BY <1>7, NotLive DEF Terminal
    <2>3. PhaseOf(job'[j]) \in {"waiting", "withdrawn"} /\ IntentOf(job'[j]) = 0
      BY <1>1, <1>3, <1>7, <2>2 DEF PhaseOf, IntentOf
    <2>4. CASE PhaseOf(job'[j]) = "withdrawn"
      BY <1>2, <1>4, <2>1, <2>3, <2>4, AsWithdraw
    <2> QED BY <1>5, <2>1, <2>3, <2>4
  <1>8. CASE job[j].status \notin Terminal /\ job[j].marker # 0
    <2>1. PhaseOf(job[j]) = "open" /\ IntentOf(job[j]) = job[j].marker
      BY <1>8 DEF PhaseOf, IntentOf, Terminal
    <2>2. CASE job'[j].status = "deployed"
      <3>1. PhaseOf(job'[j]) = "done" /\ IntentOf(job'[j]) = 0
        BY <2>2 DEF PhaseOf, IntentOf
      <3> QED BY <1>2, <1>3, <1>4, <2>1, <2>2, <3>1, AsSettle
    <2>3. CASE job'[j].status # "deployed" /\ job'[j].marker # 0
      <3>1. PhaseOf(job'[j]) = "open" /\ IntentOf(job'[j]) = job[j].marker
        BY <1>1, <2>3 DEF PhaseOf, IntentOf
      <3> QED BY <1>5, <2>1, <3>1
    <2>4. CASE job'[j].status # "deployed" /\ job'[j].marker = 0
      <3>1. PhaseOf(job'[j]) \in {"waiting", "withdrawn"} /\ IntentOf(job'[j]) = 0
        BY <2>4 DEF PhaseOf, IntentOf
      <3>2. ~Landed(j)
        BY <1>1, <1>8, <2>4, NotLive DEF Careful, Terminal
      <3> QED BY <1>2, <1>4, <2>1, <3>1, <3>2, AsGiveUp
    <2> QED BY <2>2, <2>3, <2>4
  <1> QED BY <1>6, <1>7, <1>8

-----------------------------------------------------------------------------
(* The steps, by kind.  First those that write the rows of a claim.        *)

SameMarker(r, new) == /\ new.marker = r.marker
                      /\ new.status = "deployed" => r.status = "deployed"

LEMMA SplitSame ==
  ASSUME NEW rows \in [Job -> Row], NEW j \in Job
  PROVE  SameMarker(rows[j], Split(rows)[j])
  BY DEF Split, Orphaned, SameMarker, Row

LEMMA AcquireSame ==
  ASSUME TypeOK, NEW j \in Job
  PROVE  SameMarker(job[j], AcquiredRows[j]) /\ AcquiredRows[j] \in Row
  <1>1. job \in [Job -> Row]
    BY DEF TypeOK, StoreTypeOK
  <1> QED BY <1>1, SplitSame, SplitClears DEF AcquiredRows, SameMarker

LEMMA ApprovalSame ==
  ASSUME NEW rows, NEW stale, NEW j \in Job, rows[j] \in Row
  PROVE  SameMarker(rows[j], ApprovalBlocked(rows, stale)[j]) /\ ApprovalBlocked(rows, stale)[j] \in Row
  BY DEF ApprovalBlocked, SameMarker, Row, Status, Active

LEMMA BeginSame ==
  ASSUME NEW p, NEW mode, NEW rows, NEW picked, Begin(p, mode, rows, picked),
         \A j \in Job : SameMarker(job[j], rows[j]) /\ rows[j] \in Row
  PROVE  MarkersStay
  BY DEF Begin, Claimed, MarkersStay, SameMarker, Row

LEMMA ClearSame ==
  ASSUME TypeOK, NEW p, NEW t, ClearAndSplit(p, t)
  PROVE  MarkersStay
  <1>1. job \in [Job -> Row]
    BY DEF TypeOK, StoreTypeOK
  <1> QED BY <1>1, SplitSame DEF ClearAndSplit, MarkersStay, SameMarker

LEMMA ClaimSame ==
  ASSUME Known, NEW p \in Proc, RunnerClaim(p)
  PROVE  MarkersStay /\ UNCHANGED remoteVars
  <1>1. \A j \in Job : SameMarker(job[j], AcquiredRows[j]) /\ AcquiredRows[j] \in Row
    BY AcquireSame DEF Known, Inv
  <1>2. \A stale : \A j \in Job :
          /\ SameMarker(job[j], ApprovalBlocked(AcquiredRows, stale)[j])
          /\ ApprovalBlocked(AcquiredRows, stale)[j] \in Row
    BY <1>1, ApprovalSame DEF SameMarker
  <1>3. CASE ClaimQueued(p) \/ ClaimTrain(p) \/ ClaimManual(p)
    <2>1. PICK mode, picked : Begin(p, mode, AcquiredRows, picked)
      BY <1>3 DEF ClaimQueued, ClaimTrain, ClaimManual
    <2> QED BY <1>1, <2>1, BeginSame DEF Begin
  <1>4. CASE ClaimAuto(p)
    <2>1. PICK stale, picked : Begin(p, "auto", ApprovalBlocked(AcquiredRows, stale), picked)
      BY <1>4 DEF ClaimAuto
    <2>2. MarkersStay
      BY <1>2, <2>1, BeginSame
    <2> QED BY <2>1, <2>2 DEF Begin
  <1>5. CASE ClaimNothing(p) \/ RecoverOrphans(p)
    BY <1>1, <1>5 DEF ClaimNothing, RecoverOrphans, AcquireAndDrop, MarkersStay, SameMarker
  <1>6. CASE BlockStale(p)
    <2>1. PICK stale : job' = ApprovalBlocked(AcquiredRows, stale)
      BY <1>6 DEF BlockStale
    <2> QED BY <1>2, <1>6, <2>1 DEF BlockStale, MarkersStay, SameMarker
  <1>7. CASE DaemonClearsOwn(p)
    BY <1>7, ClearSame DEF DaemonClearsOwn, Known, Inv
  <1> QED BY <1>3, <1>4, <1>5, <1>6, <1>7 DEF RunnerClaim

LEMMA OperatorSame ==
  ASSUME Known, Recoverable, OperatorNext
  PROVE  MarkersStay /\ UNCHANGED remoteVars
  <1>1. CASE \E j \in Job : CancelJob(j) \/ DismissJob(j) \/ RetryJob(j)
    <2>1. PICK j \in Job : CancelJob(j) \/ DismissJob(j) \/ RetryJob(j)
      BY <1>1
    <2>2. UNCHANGED remoteVars
      BY <2>1 DEF CancelJob, DismissJob, RetryJob
    <2>3. ASSUME NEW i \in Job
          PROVE  /\ job'[i].marker = job[i].marker
                 /\ job'[i].status = "deployed" => job[i].status = "deployed"
      <3>1. OperatorWrites(job[i], job'[i]) /\ job[i] \in Row /\ RowClean(job[i])
        BY <2>1, OperatorRows DEF Known, Inv, TypeOK, StoreTypeOK, RecordInv, RowsClean
      <3> QED BY <3>1
          DEF OperatorWrites, RowClean, Unresolved, IsReconcileConflict, Row
    <2> QED BY <2>2, <2>3 DEF MarkersStay
  <1>2. CASE (UnlockDead \/ UnlockWatch \/ UnlockForced) /\ UNCHANGED <<remoteVars, processVars>>
    <2>1. CASE UnlockWatch
      BY <1>2, <2>1 DEF UnlockWatch, MarkersStay
    <2>2. CASE UnlockDead \/ UnlockForced
      BY <1>2, <2>2, ClearSame DEF UnlockDead, UnlockForced, Known, Inv
    <2> QED BY <1>2, <2>1, <2>2
  <1> QED BY <1>1, <1>2 DEF OperatorNext

-----------------------------------------------------------------------------
(* The steps that write one row.                                           *)

LEMMA NoRowStep ==
  ASSUME Live' = Live, UNCHANGED job
  PROVE  LedgerStep
  BY AsBefore

LEMMA MarkedMarker ==
  ASSUME NEW r \in Row, NEW to
  PROVE  Marked(r, to).marker \in {0, r.marker}
  BY DEF Marked, Row

LEMMA FinishOne ==
  ASSUME Inv, NEW p, NEW j \in Job, NEW to, FinishRow(p, j, to)
  PROVE  OneRow(j)
  <1> DEFINE as   == FinishAs(job[j], to)
             size == Cardinality(run[p].batch)
             new  == IF as = "validated" THEN MarkedValidated(job[j], run[p].tok, size)
                                         ELSE Marked(job[j], as)
  <1>1. job \in [Job -> Row] /\ job[j] \in Row
    BY DEF Inv, TypeOK, StoreTypeOK
  <1>2. job' = [job EXCEPT ![j] = new]
    BY DEF FinishRow
  <1> HIDE DEF as, size
  <1>3. new.marker \in {0, job[j].marker}
    <2>1. CASE as = "validated"
      BY <1>1, <2>1 DEF MarkedValidated, Marked, Row
    <2>2. CASE as # "validated"
      BY <1>1, <2>2, MarkedMarker
    <2> QED BY <2>1, <2>2
  <1> HIDE DEF new
  <1> QED BY <1>1, <1>2, <1>3 DEF OneRow

LEMMA FinishLedger ==
  ASSUME Known, Known', AllCareful, NEW p \in Proc,
         Finish(p) \/ \E j \in Job, to \in {"blocked", "failed"} : RejectJob(p, j, to)
  PROVE  LedgerStep
  <1>1. UNCHANGED <<commit, landed>>
    BY DEF Finish, RejectJob, remoteVars
  <1>2. CASE UNCHANGED job
    BY <1>1, <1>2, LiveSame, NoRowStep
  <1>3. CASE \E j \in Job : \E to : FinishRow(p, j, to)
    BY <1>1, <1>3, FinishOne, OneRowStep DEF Known
  <1> QED BY <1>2, <1>3 DEF Finish, RejectJob, ToWrite

LEMMA ApplyLedger ==
  ASSUME Known, Known', AllCareful, NEW p \in Proc, Apply(p)
  PROVE  LedgerStep
  <1>1. UNCHANGED <<commit, landed>>
    BY DEF Apply, remoteVars
  <1>2. PICK j \in Job : UNCHANGED job \/ \E to : job' = [job EXCEPT ![j] = Marked(@, to)]
    BY DEF Apply, ToWrite
  <1>3. CASE UNCHANGED job
    BY <1>1, <1>3, LiveSame, NoRowStep
  <1>4. CASE \E to : job' = [job EXCEPT ![j] = Marked(@, to)]
    <2>1. PICK to : job' = [job EXCEPT ![j] = Marked(@, to)]
      BY <1>4
    <2>2. job \in [Job -> Row] /\ job[j] \in Row
      BY DEF Known, Inv, TypeOK, StoreTypeOK
    <2>3. OneRow(j)
      BY <2>1, <2>2, MarkedMarker DEF OneRow
    <2> QED BY <1>1, <2>3, OneRowStep
  <1> QED BY <1>2, <1>3, <1>4

-----------------------------------------------------------------------------
(* The marker, written and taken back.                                     *)

LEMMA OpenLedger ==
  ASSUME Known, NEW p \in Proc, RecordPendingPush(p)
  PROVE  LedgerStep
  <1>1. Inv /\ LandingInv /\ RecordInv
    BY DEF Known
  <1> USE <1>1, RunOK
  <1> DEFINE S == run[p].batch
             s == run[p].sha
  <1>2. /\ run[p].pc = "gated" /\ Pushes(p) /\ Mine(p) = S
        /\ UNCHANGED <<commit, landed>>
        /\ job' = [j \in Job |-> IF j \in S THEN [job[j] EXCEPT !.marker = s] ELSE job[j]]
    BY DEF RecordPendingPush, At, Pushes, remoteVars
  <1>3. \A j \in Job : /\ j \notin S => job'[j] = job[j]
                       /\ j \in S => job'[j].marker = s
                       /\ job'[j].status = job[j].status
    BY <1>2, MarkedRows
  <1>4. \A j \in S : job[j].status = "in_progress" /\ job[j].marker = 0
    BY <1>2 DEF Mine, OwnedBy, Owned, MarkersOK
  <1>5. \A j \in S : ~Landed(j)
    BY <1>4, NotLive
  <1>6. S # {} /\ s \in Sha /\ commit[s].jobs = S
    BY <1>2, <1>5 DEF FrameOK, LandingInv, RunsSound, RunSound, Pushes
  <1>7. ASSUME NEW j \in Job, PhaseOf(job[j]) = "open", IntentOf(job[j]) = s PROVE FALSE
    <2>1. job[j].marker = s /\ job[j].status # "deployed"
      BY <1>7 DEF PhaseOf, IntentOf
    <2>2. Landed(j) \/ j \in S
      BY <1>6, <2>1, NoSha DEF LandingInv, RowsSound, Traced
    <2>3. j \notin S
      BY <1>4, <1>6, <2>1, NoSha
    <2>4. ~Landed(j)
      <3> SUFFICES ASSUME NEW t \in landed, j \in commit[t].jobs PROVE FALSE
        BY DEF Landed
      <3>1. t \in Sha /\ Still(t)
        BY DEF Still, Inv, TypeOK, RemoteTypeOK
      <3>2. t = s
        BY <2>1, <3>1 DEF RecordInv, OnRecord
      <3> QED BY <1>6, <2>3, <3>2
    <2> QED BY <2>2, <2>3, <2>4
  <1>8. Moved(S, "open", s)
    BY <1>3, <1>4, <1>6, NoSha DEF Moved, PhaseOf, IntentOf
  <1>9. \A j \in S : PhaseOf(job[j]) = "waiting"
    BY <1>4 DEF PhaseOf
  <1>10. Live' = Live
    BY <1>2, LiveSame
  <1> HIDE DEF S, s
  <1>11. S \in SUBSET Job
    BY DEF S
  <1> QED BY <1>5, <1>6, <1>7, <1>8, <1>9, <1>10, <1>11, AsOpen

LEMMA RefusalLedger ==
  ASSUME Known, AllCareful, NEW p \in Proc, ClearRejectedPush(p)
  PROVE  LedgerStep
  <1>1. Inv /\ LandingInv /\ RecordInv
    BY DEF Known
  <1> USE <1>1, RunOK
  <1> DEFINE S == run[p].batch
             s == run[p].sha
  <1>2. /\ run[p].pc = "rejected" /\ Mine(p) = S
        /\ UNCHANGED <<commit, landed>>
        /\ job' = [j \in Job |-> IF j \in S THEN [job[j] EXCEPT !.marker = 0] ELSE job[j]]
    BY DEF ClearRejectedPush, At, remoteVars
  <1>3. \A j \in Job : /\ j \notin S => job'[j] = job[j]
                       /\ j \in S => job'[j].marker = 0
                       /\ job'[j].status = job[j].status
    BY <1>2, MarkedRows
  <1>4. \A j \in S : job[j].status = "in_progress" /\ job[j].marker = s
    BY <1>2 DEF Mine, OwnedBy, Owned, MarkersOK, Carrying
  <1>5. s # 0
    BY <1>2 DEF FrameOK, Carrying
  <1>6. \A j \in S : PhaseOf(job[j]) = "open" /\ ~Landed(j)
    <2> SUFFICES ASSUME NEW j \in S PROVE PhaseOf(job[j]) = "open" /\ ~Landed(j)
      OBVIOUS
    <2>1. ~Still(s)
      BY <1>3, <1>4, <1>5 DEF AllCareful, Careful
    <2> QED BY <1>4, <1>5, <2>1, NotLive DEF PhaseOf
  <1>7. Moved(S, "waiting", 0)
    BY <1>3, <1>4 DEF Moved, PhaseOf, IntentOf
  <1>8. Live' = Live
    BY <1>2, LiveSame
  <1> HIDE DEF S
  <1>9. S \in SUBSET Job
    BY DEF S
  <1> QED BY <1>6, <1>7, <1>8, <1>9, AsGiveUp

-----------------------------------------------------------------------------
(* The remote: a push lands the whole of its part of the ledger, or what   *)
(* is live already.                                                        *)
LEMMA LandLedger ==
  ASSUME Known, NEW s \in Sha, WireLands(s), UNCHANGED job
  PROVE  LedgerStep
  <1>1. /\ wire[s] = "running" /\ landed' = landed \union {s} /\ commit' = commit
        /\ landed \subseteq Sha /\ commit[s].jobs \subseteq Job
    BY DEF WireLands, Landing, Known, Inv, TypeOK, RemoteTypeOK
  <1>2. Live' = Live \union commit[s].jobs
    BY <1>1 DEF Live
  <1>3. CASE s \in landed
    <2>1. commit[s].jobs \subseteq Live
      BY <1>3 DEF Live
    <2> QED BY <1>2, <2>1, NoRowStep
  <1>4. CASE s \notin landed
    <2> DEFINE S == {j \in Job : PhaseOf(job[j]) = "open" /\ IntentOf(job[j]) = s}
    <2>1. \A j \in Job : j \in S <=> job[j].status # "deployed" /\ job[j].marker = s
      BY NoSha DEF PhaseOf, IntentOf
    <2>2. S # {}
      <3>1. PICK j \in Job : job[j].marker = s /\ job[j].status \in {"in_progress", "needs_reconcile"}
        BY <1>1, FlightSeen DEF Known, Flight
      <3> QED BY <2>1, <3>1
    <2> HIDE DEF S
    <2>3. \A j \in Job : job[j].status # "deployed" /\ Landed(j) => job[j].marker # s
      <3> SUFFICES ASSUME NEW j \in Job, job[j].status # "deployed",
                          NEW t \in landed, j \in commit[t].jobs
                   PROVE  job[j].marker # s
        BY DEF Landed
      <3>1. job[j].marker = t
        BY <1>1 DEF Known, RecordInv, OnRecord, Still
      <3> QED BY <1>4, <3>1
    <2>4. S \subseteq commit[s].jobs
      <3> SUFFICES ASSUME NEW j \in S PROVE j \in commit[s].jobs
        OBVIOUS
      <3>1. j \in Job
        BY DEF S
      <3> QED BY <2>1, <2>3, <3>1, NoSha DEF Known, LandingInv, RowsSound, Traced
    <2>5. commit[s].jobs \subseteq S \union Live
      <3> SUFFICES ASSUME NEW j \in commit[s].jobs, j \notin S PROVE j \in Live
        OBVIOUS
      <3>1. job[j].status = "deployed" \/ job[j].marker = s
        BY <1>1 DEF Known, RecordInv, OnRecord, Still, Flight
      <3> QED BY <1>1, <2>1, <3>1, LiveIsLanded DEF Known, LandingInv, RowsSound
    <2>6. Live' = Live \union S
      BY <1>2, <2>4, <2>5
    <2>7. \A j \in S : ~Landed(j)
      <3> SUFFICES ASSUME NEW j \in S PROVE ~Landed(j)
        OBVIOUS
      <3>1. j \in Job
        BY DEF S
      <3> QED BY <2>1, <2>3, <3>1
    <2>8. \A j : j \in S <=> j \in Job /\ PhaseOf(job[j]) = "open" /\ IntentOf(job[j]) = s
      BY DEF S
    <2> QED BY <2>2, <2>6, <2>7, <2>8, AsLand
  <1> QED BY <1>3, <1>4

LEMMA RemoteLedger ==
  ASSUME Known, RemoteNext, UNCHANGED storeVars
  PROVE  LedgerStep
  <1>1. late = {} /\ UNCHANGED job
    BY DEF Known, RecordInv, storeVars
  <1>2. CASE \E s \in Sha : WireLands(s)
    BY <1>1, <1>2, LandLedger
  <1>3. CASE UNCHANGED <<commit, landed>>
    BY <1>1, <1>3, LiveSame, NoRowStep
  <1> QED BY <1>1, <1>2, <1>3
      DEF RemoteNext, WireRefuses, WireDrops, LateLands, ForeignPush, Rewrite

-----------------------------------------------------------------------------
(* Every step.                                                             *)

LEMMA RunnerStepLedger ==
  ASSUME Known, Known', AllCareful, NEW p \in Proc, RunnerStep(p), UNCHANGED asked
  PROVE  LedgerStep
  <1>1. CASE Assemble(p)
    <2>1. CommitsStay /\ UNCHANGED <<job, landed>>
      <3>1. UNCHANGED <<job, landed>>
        BY <1>1 DEF Assemble, quiet, storeVars
      <3>2. CASE UNCHANGED commit
        BY <3>1, <3>2 DEF CommitsStay
      <3>3. CASE \E s \in Sha : MayName(s, run[p].batch) /\ Build(s, run[p].batch)
        BY <3>1, <3>3, NamedCommit DEF Known
      <3> QED BY <1>1, <3>1, <3>2, <3>3 DEF Assemble
    <2> QED BY <2>1, LiveStays, NoRowStep
  <1>2. CASE UNCHANGED <<job, commit, landed>>
    BY <1>2, LiveSame, NoRowStep
  <1>3. CASE RecordTrain(p) \/ Isolate(p) \/ SeeCancel(p) \/ LoseLease(p) \/ HoldPushLock(p)
             \/ PulseBeforePush(p) \/ StartPush(p)
    BY <1>2, <1>3
    DEF RecordTrain, Isolate, SeeCancel, LoseLease, HoldPushLock, PulseBeforePush, StartPush,
        quiet, storeVars, remoteVars
  <1>4. CASE PushSucceeds(p) \/ PushRefused(p) \/ PushAmbiguous(p) \/ JudgeRefusal(p)
             \/ Done(p) \/ Leave(p)
    BY <1>2, <1>4
    DEF PushSucceeds, PushRefused, PushAmbiguous, JudgeRefusal, Done, Leave,
        quiet, storeVars, remoteVars
  <1>5. CASE Raise(p)
    <2>1. UNCHANGED remoteVars
      BY <1>5 DEF Raise
    <2>2. CASE UNCHANGED job
      BY <1>2, <2>1, <2>2 DEF remoteVars
    <2>3. CASE ClearAndSplit(p, run[p].tok)
      BY <2>1, <2>3, ClearSame, LiveSame, MarkersStayStep DEF Known, Inv, remoteVars
    <2> QED BY <1>5, <2>2, <2>3 DEF Raise
  <1> QED BY <1>1, <1>3, <1>4, <1>5, OpenLedger, RefusalLedger, FinishLedger DEF RunnerStep

LEMMA RunnerFailureLedger ==
  ASSUME Known, Known', AllCareful, NEW p \in Proc, RunnerFailure(p)
  PROVE  LedgerStep
  <1>1. CASE \E j \in Job, to \in {"blocked", "failed"} : RejectJob(p, j, to)
    BY <1>1, FinishLedger
  <1>2. CASE UNCHANGED <<job, commit, landed>>
    BY <1>2, LiveSame, NoRowStep
  <1> QED BY <1>1, <1>2
      DEF RunnerFailure, Stop, StopRecording, PinFails, PushError, Contended, KeepLease,
          quiet, storeVars, remoteVars

LEMMA ReconcileLedger ==
  ASSUME Known, Known', AllCareful, NEW p \in Proc, ReconcileNext(p)
  PROVE  LedgerStep
  <1>1. CASE ReconcileStart(p)
    <2>1. MarkersStay
      BY <1>1, AcquireSame DEF ReconcileStart, MarkersStay, SameMarker, Known, Inv
    <2> QED BY <1>1, <2>1, LiveSame, MarkersStayStep DEF ReconcileStart, remoteVars
  <1>2. CASE Apply(p)
    BY <1>2, ApplyLedger
  <1>3. CASE UNCHANGED <<job, commit, landed>>
    BY <1>3, LiveSame, NoRowStep
  <1> QED BY <1>1, <1>2, <1>3
      DEF ReconcileNext, ReconcileStep, Ask, ProbeLock, ReadRef, ReadRemote, ReconcileEnds,
          Unreachable, quiet, storeVars, remoteVars

LEMMA NextLedger ==
  ASSUME Recoverable, Known, Known', AllCareful, [Next]_vars
  PROVE  LedgerStep
  <1>1. CASE UNCHANGED <<job, commit, landed>>
    BY <1>1, LiveSame, NoRowStep
  <1>2. CASE UNCHANGED vars
    BY <1>1, <1>2 DEF vars, storeVars, remoteVars
  <1>3. ASSUME NEW p \in Proc, RunnerNext(p), UNCHANGED asked PROVE LedgerStep
    <2>1. CASE RunnerClaim(p)
      BY <2>1, ClaimSame, LiveSame, MarkersStayStep DEF remoteVars
    <2>2. CASE Heartbeat(p)
      BY <1>1, <2>2 DEF Heartbeat, storeVars, remoteVars
    <2> QED BY <1>3, <2>1, <2>2, RunnerStepLedger, RunnerFailureLedger DEF RunnerNext
  <1>4. ASSUME NEW p \in Proc, ReconcileNext(p) PROVE LedgerStep
    BY <1>4, ReconcileLedger
  <1>5. CASE OperatorNext
    BY <1>5, OperatorSame, LiveSame, MarkersStayStep DEF remoteVars
  <1>6. CASE MachineNext
    BY <1>1, <1>6 DEF MachineNext, Expire, Crash, ReusePid, Respawn, storeVars, remoteVars
  <1>7. CASE RemoteNext /\ UNCHANGED <<storeVars, leaseVars, processVars>>
    BY <1>7, RemoteLedger
  <1> QED BY <1>2, <1>3, <1>4, <1>5, <1>6, <1>7 DEF Next, ProcessNext

LEMMA InitLedger ==
  ASSUME Init
  PROVE  Promise!Init
  <1>1. \A j \in Job : job[j] = FreshRow(j \in AutoJob)
    BY DEF Init, StoreInit
  <1>2. \A auto : /\ FreshRow(auto).status = "queued"
                  /\ FreshRow(auto).marker = 0
    BY Zenon DEF FreshRow
  <1>3. landed = {}
    BY DEF Init, RemoteInit
  <1> QED BY <1>1, <1>2, <1>3 DEF Promise!Init

(* The queue implements the ledger: for any submissions, processes, refs   *)
(* and bounds, work reaches the remote only under the open intent that     *)
(* record_pending_push wrote, whole; a row is recorded deployed only after *)
(* its work did; a marker is given up only while it did not; and deployed  *)
(* is for ever.                                                            *)
THEOREM KeepsLedgerHolds ==
  ASSUME Recoverable
  PROVE  Spec => KeepsLedger
  <1>1. Init => Promise!Init
    BY InitLedger
  <1>2. [Next]_vars /\ [Known /\ Known' /\ AllCareful]_vars
          => [Promise!Next]_(Promise!ledger)
    <2>1. CASE UNCHANGED vars
      BY <2>1, LiveSame, NoRowStep DEF vars, storeVars, remoteVars, LedgerStep
    <2> QED BY <2>1, NextLedger DEF LedgerStep
  <1> QED BY <1>1, <1>2, KnownAlways, PTL DEF Spec, KeepsLedger, Promise!Spec

-----------------------------------------------------------------------------
(***************************************************************************)
(* Trains.  In ordered processing a job lands only after every earlier one  *)
(* is deployed or canceled (OrderedLanding), and a validated train is      *)
(* deployed as one (OneWholeTrain).                                        *)
(*                                                                         *)
(* Order follows a job from its claim to its commit: when it is claimed,   *)
(* every earlier row is deployed or canceled, and these stay so for ever.  *)
(***************************************************************************)

Frame(r) == r.batch \union r.rest

(* Every job before one of S is deployed or canceled.                      *)
Behind(S) == \A k \in S, i \in Job : i < k => job[i].status \in Terminal

(* What a reconcile is about to write over was unresolved when it asked.   *)
AsksOpen(p) ==
  run[p].pc = "applying" =>
    \A j \in Job : run[p].plan[j] # "none" => Unresolved(asked[p].rows[j])

FifoInv ==
  /\ \A p \in Proc : AsksOpen(p)
  /\ Ordered => /\ \A p \in Proc : Behind(Frame(run[p]))
                /\ \A s \in Sha : Behind(commit[s].jobs)

-----------------------------------------------------------------------------
(* What a step may do.                                                     *)

Ended == \A j \in Job : job[j].status \in Terminal => job'[j].status = job[j].status

FramesShrink == \A q \in Proc : Frame(run'[q]) \subseteq Frame(run[q])

CommitsNamed ==
  \A s \in Sha : \/ commit'[s].jobs = commit[s].jobs
                 \/ \E q \in Proc : commit'[s].jobs \subseteq Frame(run[q])

AsksKept ==
  \A q \in Proc : run'[q].pc = "applying" =>
    /\ run[q].pc = "applying" /\ asked'[q] = asked[q]
    /\ \A j \in Job : run'[q].plan[j] # "none" => run[q].plan[j] # "none"

LEMMA BehindStays ==
  ASSUME Ended, NEW S, NEW T, Behind(S), T \subseteq S
  PROVE  Behind(T)'
  BY DEF Ended, Behind

LEMMA FramesBehind ==
  ASSUME FifoInv, Ordered, Ended, NEW q \in Proc, Frame(run'[q]) \subseteq Frame(run[q])
  PROVE  Behind(Frame(run[q]))'
  <1>1. Behind(Frame(run[q]))
    BY DEF FifoInv
  <1>2. Frame(run[q])' \subseteq Frame(run[q])
    BY DEF Frame
  <1> QED BY <1>1, <1>2, BehindStays

LEMMA CommitsBehind ==
  ASSUME FifoInv, Ordered, Ended, CommitsNamed, NEW s \in Sha
  PROVE  Behind(commit[s].jobs)'
  <1>1. PICK S : Behind(S) /\ commit'[s].jobs \subseteq S
    BY DEF CommitsNamed, FifoInv
  <1> QED BY <1>1 DEF Behind, Ended

LEMMA FifoStep ==
  ASSUME FifoInv, Ended, FramesShrink, CommitsNamed, AsksKept
  PROVE  FifoInv'
  <1>1. \A p \in Proc : AsksOpen(p)'
    BY DEF FifoInv, AsksKept, AsksOpen
  <1> QED BY <1>1, FramesBehind, CommitsBehind DEF FifoInv, FramesShrink, Frame

-----------------------------------------------------------------------------
(* The rows.                                                               *)

LEMMA SplitEnded ==
  ASSUME NEW rows, NEW j \in Job
  PROVE  /\ rows[j].status # "in_progress" => Split(rows)[j] = rows[j]
         /\ rows[j].status \in Terminal => Split(rows)[j] = rows[j]
  BY DEF Split, Orphaned, Terminal

LEMMA AcquireEnded ==
  ASSUME NEW j \in Job
  PROVE  job[j].status \in Terminal => AcquiredRows[j] = job[j]
  BY SplitEnded DEF AcquiredRows

LEMMA ApprovalEnded ==
  ASSUME NEW rows, NEW stale, NEW j \in Job
  PROVE  rows[j].status \in Terminal => ApprovalBlocked(rows, stale)[j] = rows[j]
  BY DEF ApprovalBlocked, AutoQueued, OrderedHeadOnly, InStatus, Terminal

LEMMA ClearEnded ==
  ASSUME NEW p, NEW t, ClearAndSplit(p, t)
  PROVE  Ended
  BY SplitEnded DEF ClearAndSplit, Ended

LEMMA FinishEnded ==
  ASSUME Inv, NEW p, NEW j \in Job, NEW to, job[j].status = "in_progress", FinishRow(p, j, to)
  PROVE  Ended
  BY DEF FinishRow, Ended, Terminal, Inv, TypeOK, StoreTypeOK

-----------------------------------------------------------------------------
(* The claims: what ordered processing takes is behind nothing.            *)

(* What a claim takes: rows that wait, in ordered processing the head.     *)
Takes(rows, picked) ==
  /\ picked \subseteq Job
  /\ \A j \in picked : rows[j].status \in {"queued", "validated"}
  /\ Ordered => \A j \in picked : IsHead(rows, j)

LEMMA Picked ==
  ASSUME NEW rows, NEW stale
  PROVE  /\ Takes(rows, ValidatePick(rows)) /\ Takes(rows, ManualPick(rows))
         /\ Takes(rows, AutoPick(rows, stale))
         /\ ~TrainRefused(rows) => Takes(rows, TrainPick(rows))
  <1>1. /\ Takes(rows, ValidatePick(rows)) /\ Takes(rows, ManualPick(rows))
        /\ Takes(rows, AutoPick(rows, stale))
    BY DEF Takes, ValidatePick, ManualPick, AutoPick, AutoQueued, OrderedHeadOnly, InStatus
  <1>2. ASSUME ~TrainRefused(rows) PROVE Takes(rows, TrainPick(rows))
    BY <1>2 DEF Takes, TrainRefused, TrainPick, InStatus
  <1> QED BY <1>1, <1>2

(* A row blocked for its stale approval was waiting as well, so the head   *)
(* is the head of the rows as the claim leaves them.                       *)
LEMMA ApprovalTakes ==
  ASSUME NEW rows \in [Job -> Row], NEW stale, NEW picked, Takes(rows, picked),
         picked \intersect stale = {}
  PROVE  Takes(ApprovalBlocked(rows, stale), picked)
  <1> DEFINE new == ApprovalBlocked(rows, stale)
  <1>1. \A j \in Job : new[j].status \in Active <=> rows[j].status \in Active
    BY DEF ApprovalBlocked, AutoQueued, OrderedHeadOnly, InStatus, Active, Row
  <1>2. \A j \in picked : new[j] = rows[j]
    BY DEF ApprovalBlocked, Takes
  <1> HIDE DEF new
  <1>3. {i \in Job : new[i].status \in Active} = {i \in Job : rows[i].status \in Active}
    BY <1>1
  <1> QED BY <1>2, <1>3 DEF Takes, IsHead, new

LEMMA BeginFifo ==
  ASSUME Inv, FifoInv, NEW p \in Proc, NEW mode, NEW rows \in [Job -> Row],
         NEW picked, Begin(p, mode, rows, picked), Takes(rows, picked), UNCHANGED asked,
         \A j \in Job : job[j].status \in Terminal => rows[j].status = job[j].status
  PROVE  FifoInv'
  <1>1. /\ run'[p].batch = picked /\ run'[p].rest = {} /\ run'[p].pc = "assembling"
        /\ \A q \in Proc \ {p} : run'[q] = run[q]
    BY DEF Begin, Idle, Inv, TypeOK, RunnerTypeOK
  <1>2. \A j \in Job : job'[j] = IF j \in picked THEN Claimed(rows[j], NextToken) ELSE rows[j]
    BY DEF Begin
  <1>3. Ended
    BY <1>2 DEF Ended, Takes, Terminal
  <1>4. ASSUME Ordered PROVE Behind(picked)'
    <2> SUFFICES ASSUME NEW k \in picked, NEW i \in Job, i < k PROVE job'[i].status \in Terminal
      BY DEF Behind
    <2>1. k \in Nat /\ i \in Nat
      BY JobAssumption DEF Takes
    <2>2. rows[i].status \notin Active
      BY <1>4, <2>1 DEF Takes, IsHead, First
    <2>3. rows[i].status \in Terminal /\ i \notin picked
      BY <2>2 DEF Row, Status, Takes, Active
    <2> QED BY <1>2, <2>3
  <1>5. CommitsNamed
    BY DEF Begin, remoteVars, CommitsNamed
  <1>6. \A q \in Proc : AsksOpen(q)'
    BY <1>1 DEF FifoInv, AsksOpen
  <1>7. ASSUME Ordered, NEW q \in Proc PROVE Behind(Frame(run[q]))'
    <2>1. CASE q = p
      <3>1. Frame(run[q])' = picked
        BY <1>1, <2>1 DEF Frame
      <3> QED BY <1>4, <1>7, <3>1 DEF Behind
    <2>2. CASE q # p
      BY <1>1, <1>3, <1>7, <2>2, FramesBehind DEF Frame
    <2> QED BY <2>1, <2>2
  <1> QED BY <1>3, <1>5, <1>6, <1>7, CommitsBehind DEF FifoInv

LEMMA ClaimFifo ==
  ASSUME Inv, FifoInv, NEW p \in Proc, RunnerClaim(p), UNCHANGED asked
  PROVE  FifoInv'
  <1>1. Takeover # "refuse" => AcquiredRows \in [Job -> Row] /\ ~AnyClaimed(AcquiredRows)
    BY AcquireClears DEF Inv, TypeOK, StoreTypeOK
  <1>2. \A j \in Job : job[j].status \in Terminal => AcquiredRows[j].status = job[j].status
    BY AcquireEnded
  <1>3. \A stale : \A j \in Job : job[j].status \in Terminal =>
          ApprovalBlocked(AcquiredRows, stale)[j].status = job[j].status
    BY <1>2, ApprovalEnded
  <1>4. CASE ClaimQueued(p) \/ ClaimTrain(p) \/ ClaimManual(p)
    <2>1. PICK mode, picked : Begin(p, mode, AcquiredRows, picked) /\ Takes(AcquiredRows, picked)
      BY <1>4, Picked DEF ClaimQueued, ClaimTrain, ClaimManual
    <2>2. AcquiredRows \in [Job -> Row]
      BY <1>1, <1>4 DEF ClaimQueued, ClaimTrain, ClaimManual, CanAcquire
    <2> QED BY <1>2, <2>1, <2>2, BeginFifo
  <1>5. CASE ClaimAuto(p)
    <2>1. PICK stale : Begin(p, "auto", ApprovalBlocked(AcquiredRows, stale),
                             AutoPick(AcquiredRows, stale))
      BY <1>5 DEF ClaimAuto
    <2>2. ApprovalBlocked(AcquiredRows, stale) \in [Job -> Row] /\ AcquiredRows \in [Job -> Row]
      BY <1>1, <1>5, ApprovalBlockedType DEF ClaimAuto, CanAcquire
    <2>3. AutoPick(AcquiredRows, stale) \intersect stale = {}
      BY DEF AutoPick
    <2>4. Takes(ApprovalBlocked(AcquiredRows, stale), AutoPick(AcquiredRows, stale))
      BY <2>2, <2>3, Picked, ApprovalTakes
    <2> QED BY <1>3, <2>1, <2>2, <2>4, BeginFifo
  <1>6. CASE ClaimNothing(p) \/ RecoverOrphans(p) \/ BlockStale(p) \/ DaemonClearsOwn(p)
    <2>1. UNCHANGED <<run, remoteVars>>
      BY <1>6 DEF ClaimNothing, RecoverOrphans, BlockStale, DaemonClearsOwn
    <2>2. Ended
      <3>1. CASE ClaimNothing(p) \/ RecoverOrphans(p)
        BY <1>2, <3>1 DEF ClaimNothing, RecoverOrphans, AcquireAndDrop, Ended
      <3>2. CASE BlockStale(p)
        <4>1. PICK stale : job' = ApprovalBlocked(AcquiredRows, stale)
          BY <3>2 DEF BlockStale
        <4> QED BY <1>3, <4>1 DEF Ended
      <3>3. CASE DaemonClearsOwn(p)
        BY <3>3, ClearEnded DEF DaemonClearsOwn
      <3> QED BY <1>6, <3>1, <3>2, <3>3
    <2>3. FramesShrink /\ CommitsNamed /\ AsksKept
      BY <2>1 DEF FramesShrink, CommitsNamed, AsksKept, remoteVars
    <2> QED BY <2>2, <2>3, FifoStep
  <1> QED BY <1>4, <1>5, <1>6 DEF RunnerClaim

-----------------------------------------------------------------------------
(* The steps of a run.                                                     *)

(* What a runner's step does to its own frame.                             *)
Works(p) ==
  /\ Frame(run'[p]) \subseteq Frame(run[p])
  /\ run'[p].pc = "applying" => run'[p].pc = run[p].pc /\ run'[p].plan = run[p].plan
  /\ \A q \in Proc \ {p} : run'[q] = run[q]

LEMMA WorksFifo ==
  ASSUME FifoInv, NEW p \in Proc, Works(p), Ended, CommitsNamed, UNCHANGED asked
  PROVE  FifoInv'
  <1>1. FramesShrink /\ AsksKept
    BY DEF Works, FramesShrink, AsksKept
  <1> QED BY <1>1, FifoStep

LEMMA QuietWorks ==
  ASSUME Inv, NEW p \in Proc,
         \/ \E pc : Goto(p, pc) /\ pc # "applying"
         \/ \E S, to, others : Plan(p, S, to, others)
         \/ run' = [run EXCEPT ![p] = Idle]
         \/ UNCHANGED run
  PROVE  Works(p)
  <1>1. CASE \E pc : Goto(p, pc) /\ pc # "applying"
    BY <1>1, GotoFields DEF Works, Frame, Inv
  <1>2. CASE \E S, to, others : Plan(p, S, to, others)
    <2>1. PICK S, to, others : Plan(p, S, to, others)
      BY <1>2
    <2>2. /\ run'[p].pc = "finishing" /\ run'[p].batch = run[p].batch
          /\ run'[p].rest = run[p].rest /\ \A q \in Proc \ {p} : run'[q] = run[q]
      BY <2>1, PlanFields DEF Inv
    <2> QED BY <2>2 DEF Works, Frame
  <1>3. CASE run' = [run EXCEPT ![p] = Idle]
    <2>1. run'[p] = Idle /\ \A q \in Proc \ {p} : run'[q] = run[q]
      BY <1>3 DEF Inv, TypeOK, RunnerTypeOK
    <2>2. Idle.pc = "idle" /\ Idle.batch = {} /\ Idle.rest = {}
      BY DEF Idle
    <2> QED BY <2>1, <2>2 DEF Works, Frame
  <1>4. CASE UNCHANGED run
    BY <1>4 DEF Works
  <1> QED BY <1>1, <1>2, <1>3, <1>4

LEMMA RunnerFifo ==
  ASSUME Inv, FifoInv, NEW p \in Proc, RunnerStep(p) \/ RunnerFailure(p) \/ Heartbeat(p),
         UNCHANGED asked
  PROVE  FifoInv'
  <1>1. run[p] \in Run /\ run \in [Proc -> Run]
    BY DEF Inv, TypeOK, RunnerTypeOK
  <1>2. CASE \/ RecordTrain(p) \/ SeeCancel(p) \/ LoseLease(p) \/ HoldPushLock(p)
             \/ PulseBeforePush(p) \/ PushSucceeds(p) \/ PushRefused(p) \/ PushAmbiguous(p)
             \/ JudgeRefusal(p) \/ Contended(p) \/ StopRecording(p) \/ PinFails(p)
             \/ PushError(p) \/ KeepLease(p) \/ Leave(p) \/ Heartbeat(p)
             \/ \E reached \in SUBSET run[p].batch, to \in {"blocked", "failed"} :
                  Stop(p, reached, to)
    <2>1. UNCHANGED <<job, commit>>
      BY <1>2
      DEF RecordTrain, SeeCancel, LoseLease, HoldPushLock, PulseBeforePush, PushSucceeds,
          PushRefused, PushAmbiguous, JudgeRefusal, Contended, StopRecording, PinFails,
          PushError, KeepLease, Leave, Heartbeat, Stop, quiet, storeVars, remoteVars
    <2>2. Works(p)
      BY <1>2, QuietWorks
      DEF RecordTrain, SeeCancel, LoseLease, HoldPushLock, PulseBeforePush, PushSucceeds,
          PushRefused, PushAmbiguous, JudgeRefusal, Contended, StopRecording, PinFails,
          PushError, KeepLease, Leave, Heartbeat, Stop, PlanAll
    <2> QED BY <2>1, <2>2, WorksFifo DEF Ended, CommitsNamed
  <1>3. CASE Assemble(p)
    <2>1. UNCHANGED job /\ CommitsNamed
      <3>1. CASE UNCHANGED commit
        BY <1>3, <3>1 DEF Assemble, quiet, storeVars, CommitsNamed
      <3>2. CASE \E s \in Sha : Build(s, run[p].batch)
        <4>1. PICK s \in Sha : Build(s, run[p].batch)
          BY <3>2
        <4>2. \A t \in Sha : commit'[t].jobs \in {commit[t].jobs, run[p].batch}
          BY <4>1 DEF Build, Inv, TypeOK, RemoteTypeOK
        <4> QED BY <1>3, <4>2 DEF Assemble, quiet, storeVars, CommitsNamed, Frame
      <3> QED BY <1>3, <3>1, <3>2 DEF Assemble
    <2>2. Works(p)
      <3>1. CASE Goto(p, "gated")
        BY <3>1, QuietWorks
      <3>2. CASE \E s \in Sha : run' = [run EXCEPT ![p] = [@ EXCEPT !.pc = "gated", !.sha = s,
                                                                    !.base = tip]]
        BY <1>1, <3>2 DEF Works, Frame, Run
      <3> QED BY <1>3, <3>1, <3>2 DEF Assemble
    <2> QED BY <2>1, <2>2, WorksFifo DEF Ended
  <1>4. CASE Isolate(p)
    <2>1. PICK j \in run[p].batch : run' = [run EXCEPT ![p] = [@ EXCEPT !.batch = {j}, !.rest = run[p].batch \ {j}]]
      BY <1>4 DEF Isolate
    <2>2. run[p].pc = "assembling" /\ UNCHANGED <<job, commit>>
      BY <1>4 DEF Isolate, At, quiet, storeVars, remoteVars
    <2>3. Works(p)
      BY <1>1, <2>1, <2>2 DEF Works, Frame, Run
    <2> QED BY <2>2, <2>3, WorksFifo DEF Ended, CommitsNamed
  <1>5. CASE StartPush(p)
    <2>1. UNCHANGED <<job, commit>> /\ Goto(p, "pushing")
      BY <1>5 DEF StartPush, quiet, storeVars
    <2> QED BY <2>1, QuietWorks, WorksFifo DEF Ended, CommitsNamed
  <1>6. CASE RecordPendingPush(p) \/ ClearRejectedPush(p)
    <2>1. \E pc : Goto(p, pc) /\ pc # "applying"
      BY <1>6 DEF RecordPendingPush, ClearRejectedPush
    <2>2. \A j \in Job : job'[j].status = job[j].status
      <3>1. PICK m : job' = [j \in Job |-> IF j \in run[p].batch
                                          THEN [job[j] EXCEPT !.marker = m] ELSE job[j]]
        BY <1>6 DEF RecordPendingPush, ClearRejectedPush
      <3> QED BY <3>1, MarkedRows
    <2>3. UNCHANGED commit
      BY <1>6 DEF RecordPendingPush, ClearRejectedPush, remoteVars
    <2> QED BY <2>1, <2>2, <2>3, QuietWorks, WorksFifo DEF Ended, CommitsNamed
  <1>7. CASE \E j \in Job, to \in {"blocked", "failed"} : RejectJob(p, j, to)
    <2>1. PICK j \in Job, to \in {"blocked", "failed"} : RejectJob(p, j, to)
      BY <1>7
    <2>2. Ended /\ UNCHANGED commit
      BY <2>1, FinishEnded DEF RejectJob, Mine, Owned, remoteVars
    <2>3. Works(p)
      BY <2>1, RejectRun DEF Inv, Works, Frame
    <2> QED BY <2>2, <2>3, WorksFifo DEF CommitsNamed
  <1>8. CASE Finish(p)
    <2>1. PICK j \in ToWrite(p), stops \in BOOLEAN :
            /\ IF Owned(job[j], run[p].tok) THEN FinishRow(p, j, run[p].plan[j])
                                            ELSE UNCHANGED job
            /\ Written(p, j, stops)
      BY <1>8, FinishWrites DEF Inv
    <2>2. Ended /\ UNCHANGED commit
      BY <1>8, <2>1, FinishEnded DEF Finish, ToWrite, Owned, remoteVars, Ended
    <2>3. Works(p)
      <3>1. /\ run'[p].pc = run[p].pc /\ run'[p].batch = run[p].batch
            /\ run'[p].rest = run[p].rest /\ \A q \in Proc \ {p} : run'[q] = run[q]
        BY <2>1, WrittenFields DEF Inv, ToWrite
      <3> QED BY <1>8, <3>1 DEF Finish, At, Works, Frame
    <2> QED BY <2>2, <2>3, WorksFifo DEF CommitsNamed
  <1>9. CASE Done(p)
    <2>1. UNCHANGED <<job, commit>> /\ run[p].pc = "finishing"
      BY <1>9 DEF Done, At, quiet, storeVars, remoteVars
    <2>2. Works(p)
      <3>1. CASE run[p].rest = {}
        BY <1>9, <3>1, QuietWorks DEF Done
      <3>2. CASE run[p].rest # {} /\ run[p].stops
        BY <1>9, <2>1, <3>2, ReturnRest DEF Inv, Works, Frame
      <3>3. CASE run[p].rest # {} /\ ~run[p].stops
        BY <1>9, <3>3, NextInLine DEF Inv, Works, Frame
      <3> QED BY <3>1, <3>2, <3>3
    <2> QED BY <2>1, <2>2, WorksFifo DEF Ended, CommitsNamed
  <1>10. CASE Raise(p)
    <2>1. Ended /\ UNCHANGED commit
      BY <1>10, ClearEnded DEF Raise, Ended, remoteVars
    <2>2. Works(p)
      BY <1>10, QuietWorks DEF Raise
    <2> QED BY <2>1, <2>2, WorksFifo DEF CommitsNamed
  <1> QED BY <1>2, <1>3, <1>4, <1>5, <1>6, <1>7, <1>8, <1>9, <1>10 DEF RunnerStep, RunnerFailure

-----------------------------------------------------------------------------
(* The reconcile, the operator, the machine and the remote.                *)

LEMMA ReconcileFifo ==
  ASSUME Inv, FifoInv, NEW p \in Proc, ReconcileNext(p)
  PROVE  FifoInv'
  <1>1. run[p] \in Run /\ run \in [Proc -> Run] /\ job \in [Job -> Row]
    BY DEF Inv, TypeOK, RunnerTypeOK, StoreTypeOK
  <1>2. asked \in [Proc -> Question]
    BY DEF Inv, TypeOK, ReconcileTypeOK
  <1>3. CASE \/ ReconcileStart(p) \/ Ask(p) \/ ProbeLock(p) \/ ReadRef(p)
             \/ ReconcileEnds(p) \/ Unreachable(p)
    <2>1. Ended /\ UNCHANGED commit
      BY <1>3, AcquireEnded
      DEF ReconcileStart, Ask, ProbeLock, ReadRef, ReconcileEnds, Unreachable, Ended, quiet,
          storeVars, remoteVars
    <2>2. /\ Frame(run'[p]) \subseteq Frame(run[p]) /\ run'[p].pc # "applying"
          /\ \A q \in Proc \ {p} : run'[q] = run[q]
      <3>1. CASE ReconcileStart(p)
        <4>1. run' = [run EXCEPT ![p] = [Idle EXCEPT !.pc = "asking", !.tok = NextToken]]
          BY <3>1 DEF ReconcileStart
        <4>2. /\ run'[p].pc = "asking" /\ run'[p].batch = {} /\ run'[p].rest = {}
              /\ \A q \in Proc \ {p} : run'[q] = run[q]
          BY <1>1, <4>1 DEF Idle
        <4> QED BY <4>2 DEF Frame
      <3>2. CASE Ask(p) \/ ProbeLock(p) \/ Unreachable(p)
        <4>1. PICK pc \in {"leaving", "probing", "reading"} : Goto(p, pc)
          BY <3>2 DEF Ask, ProbeLock, Unreachable
        <4>2. /\ run'[p].pc = pc /\ run'[p].batch = run[p].batch /\ run'[p].rest = run[p].rest
              /\ \A q \in Proc \ {p} : run'[q] = run[q]
          BY <4>1, GotoFields DEF Inv
        <4> QED BY <4>2 DEF Frame
      <3>3. CASE ReconcileEnds(p)
        BY <1>1, <3>3 DEF ReconcileEnds, Frame, Run
      <3>4. CASE ReadRef(p)
        BY <3>4 DEF ReadRef, At
      <3> QED BY <1>3, <3>1, <3>2, <3>3, <3>4
    <2>3. \A q \in Proc \ {p} : asked'[q] = asked[q]
      BY <1>2, <1>3 DEF ReconcileStart, Ask, ProbeLock, ReadRef, ReconcileEnds, Unreachable
    <2>4. FramesShrink /\ CommitsNamed /\ AsksKept
      BY <2>1, <2>2, <2>3 DEF FramesShrink, CommitsNamed, AsksKept
    <2> QED BY <2>1, <2>4, FifoStep
  <1>4. CASE ReadRemote(p)
    <2>1. PICK unclear \in Unclear(p) :
            run' = [run EXCEPT ![p] = [@ EXCEPT !.pc = "applying",
                                                !.plan = [j \in Job |->
                                                            IF j \in unclear THEN "blocked"
                                                            ELSE IF j \in Subjects(asked[p].rows)
                                                            THEN Verdict(asked[p], j) ELSE "none"]]]
      BY <1>4 DEF ReadRemote
    <2> DEFINE plan == [j \in Job |-> IF j \in unclear THEN "blocked"
                                      ELSE IF j \in Subjects(asked[p].rows)
                                      THEN Verdict(asked[p], j) ELSE "none"]
    <2>2. run' = [run EXCEPT ![p] = [run[p] EXCEPT !.pc = "applying", !.plan = plan]]
      BY <1>1, <2>1
    <2>3. \A j \in Job : plan[j] # "none" => Unresolved(asked[p].rows[j])
      BY <2>1 DEF Unclear, Subjects
    <2> HIDE DEF plan
    <2>4. /\ run'[p].plan = plan /\ run'[p].batch = run[p].batch /\ run'[p].rest = run[p].rest
          /\ \A q \in Proc \ {p} : run'[q] = run[q]
      BY <1>1, <2>2 DEF Run
    <2>5. UNCHANGED <<job, commit, asked>>
      BY <1>4 DEF ReadRemote, quiet, storeVars, remoteVars
    <2>6. Ended /\ CommitsNamed /\ FramesShrink
      BY <2>4, <2>5 DEF Ended, CommitsNamed, FramesShrink, Frame
    <2>7. \A q \in Proc : AsksOpen(q)'
      BY <2>3, <2>4, <2>5 DEF AsksOpen, FifoInv
    <2> QED BY <2>6, <2>7, FramesBehind, CommitsBehind DEF FifoInv, FramesShrink, Frame
  <1>5. CASE Apply(p)
    <2>1. PICK j \in ToWrite(p) :
            /\ \/ /\ job[j].status = asked[p].rows[j].status
                  /\ job' = [job EXCEPT ![j] = Marked(@, run[p].plan[j])]
               \/ UNCHANGED job
            /\ run' = [run EXCEPT ![p].plan[j] = "none"]
      BY <1>5 DEF Apply
    <2>7. TypeOK /\ Written(p, j, run[p].stops)
      BY <2>1, PlainWrite DEF Inv, ToWrite
    <2>2. /\ j \in Job /\ run[p].plan[j] # "none" /\ run[p].pc = "applying"
          /\ UNCHANGED <<commit, asked>>
      BY <1>5 DEF Apply, At, ToWrite, remoteVars
    <2>3. asked[p].rows[j].status \notin Terminal
      BY <2>2 DEF FifoInv, AsksOpen, Unresolved, IsReconcileConflict, Terminal
    <2>4. Ended
      BY <1>1, <2>1, <2>2, <2>3 DEF Ended
    <2>5. /\ run'[p].batch = run[p].batch /\ run'[p].rest = run[p].rest
          /\ run'[p].pc = run[p].pc /\ run'[p].plan[j] = "none"
          /\ \A i \in Job \ {j} : run'[p].plan[i] = run[p].plan[i]
          /\ \A q \in Proc \ {p} : run'[q] = run[q]
      BY <2>2, <2>7, WrittenFields
    <2>6. FramesShrink /\ CommitsNamed /\ AsksKept
      BY <2>2, <2>5 DEF FramesShrink, CommitsNamed, AsksKept, Frame
    <2> QED BY <2>4, <2>6, FifoStep
  <1> QED BY <1>3, <1>4, <1>5 DEF ReconcileNext, ReconcileStep

LEMMA OperatorEnded ==
  ASSUME Inv, OperatorNext
  PROVE  Ended
  <1>1. CASE \E j \in Job : CancelJob(j) \/ DismissJob(j) \/ RetryJob(j)
    <2>1. PICK j \in Job : CancelJob(j) \/ DismissJob(j) \/ RetryJob(j)
      BY <1>1
    <2> SUFFICES ASSUME NEW i \in Job, job[i].status \in Terminal PROVE job'[i] = job[i]
      BY DEF Ended
    <2>2. CASE CancelJob(j)
      BY <2>2 DEF CancelJob, Members, InStatus, Terminal
    <2>3. CASE DismissJob(j) \/ RetryJob(j)
      BY <2>3 DEF DismissJob, RetryJob, Resolvable, Terminal, Inv, TypeOK, StoreTypeOK
    <2> QED BY <2>1, <2>2, <2>3
  <1>2. CASE UnlockDead \/ UnlockForced
    BY <1>2, ClearEnded DEF UnlockDead, UnlockForced
  <1>3. CASE UnlockWatch
    BY <1>3 DEF UnlockWatch, Ended
  <1> QED BY <1>1, <1>2, <1>3 DEF OperatorNext

LEMMA OutsideFifo ==
  ASSUME Inv, FifoInv,
         \/ OperatorNext \/ MachineNext \/ UNCHANGED vars
         \/ RemoteNext /\ UNCHANGED <<storeVars, leaseVars, processVars>>
  PROVE  FifoInv'
  <1>1. commit' = commit
    BY DEF OperatorNext, CancelJob, DismissJob, RetryJob, MachineNext, Expire, Crash, ReusePid,
           Respawn, RemoteNext, WireLands, WireRefuses, WireDrops, LateLands, ForeignPush, Rewrite,
           vars, remoteVars
  <1>2. Ended
    <2>1. OperatorNext \/ UNCHANGED job
      BY DEF MachineNext, Expire, Crash, ReusePid, Respawn, vars, storeVars
    <2> QED BY <2>1, OperatorEnded DEF Ended
  <1>3. FramesShrink /\ AsksKept
    <2>1. CASE UNCHANGED <<run, asked>>
      BY <2>1 DEF FramesShrink, AsksKept
    <2>2. CASE \E p \in Proc : Crash(p)
      <3>1. PICK p \in Proc : Crash(p)
        BY <2>2
      <3>2. /\ \A q \in Proc : run'[q] = IF q = p THEN Idle ELSE run[q]
            /\ \A q \in Proc \ {p} : asked'[q] = asked[q]
        BY <3>1 DEF Crash, Inv, TypeOK, RunnerTypeOK, ReconcileTypeOK
      <3>3. Idle.pc = "idle" /\ Frame(Idle) = {}
        BY DEF Idle, Frame
      <3> QED BY <3>2, <3>3 DEF FramesShrink, AsksKept
    <2> QED BY <2>1, <2>2
        DEF OperatorNext, CancelJob, DismissJob, RetryJob, MachineNext, Expire, ReusePid,
            Respawn, vars, processVars
  <1> QED BY <1>1, <1>2, <1>3, FifoStep DEF CommitsNamed

LEMMA NextFifo ==
  ASSUME Inv, FifoInv, [Next]_vars
  PROVE  FifoInv'
  <1>1. ASSUME NEW p \in Proc, RunnerNext(p), UNCHANGED asked PROVE FifoInv'
    BY <1>1, ClaimFifo, RunnerFifo DEF RunnerNext
  <1>2. ASSUME NEW p \in Proc, ReconcileNext(p) PROVE FifoInv'
    BY <1>2, ReconcileFifo
  <1> QED BY <1>1, <1>2, OutsideFifo DEF Next, ProcessNext

LEMMA InitFifo == Init => FifoInv
  <1> SUFFICES ASSUME Init PROVE FifoInv
    OBVIOUS
  <1>1. \A p \in Proc : run[p].pc = "idle" /\ Frame(run[p]) = {}
    BY DEF Init, RunnerInit, Idle, Frame
  <1>2. \A s \in Sha : commit[s].jobs = {}
    BY DEF Init, RemoteInit, NoCommit
  <1> QED BY <1>1, <1>2 DEF FifoInv, AsksOpen, Behind

(* First in, first out to the remote: with queue.processing = "ordered",   *)
(* whatever fails, crashes, is stolen, retried or lands late, a commit     *)
(* reaches the remote only when every job before each of its own is        *)
(* deployed or canceled (claims.py: the claim looks at the head of the     *)
(* queue in the transaction that takes it).                                *)
THEOREM OrderedLandingHolds == Spec => OrderedLanding
  <1>1. Init => Inv /\ FifoInv
    BY InitInv, InitFifo
  <1>2. Inv /\ FifoInv /\ [Next]_vars => (Inv /\ FifoInv)'
    BY NextInv, NextFifo
  <1>3. FifoInv /\ Inv' =>
          (Ordered => \A s \in landed' \ landed : \A j \in commit[s].jobs :
                        \A i \in Job : i < j => job[i].status \in Terminal)
    <2> SUFFICES ASSUME FifoInv, Inv', Ordered, NEW s \in landed' \ landed
                 PROVE  Behind(commit[s].jobs)
      BY DEF Behind
    <2>1. s \in Sha
      BY DEF Inv, TypeOK, RemoteTypeOK, Sha
    <2> QED BY <2>1 DEF FifoInv
  <1> QED BY <1>1, <1>2, <1>3, PTL DEF Spec, OrderedLanding


-----------------------------------------------------------------------------
(* The trains.                                                             *)

Validating == {"assembling", "gated", "finishing"}
Early      == {"assembling", "gated", "marked", "locked"}

(* Trains are numbered by the claims; a job in the queue is in none.       *)
Numbered ==
  \A j \in Job : job[j].train <= issued /\ (job[j].status = "queued" => job[j].train = 0)

(* A run that validates does so beside no Ready train but its own, and     *)
(* what it has recorded so far nobody has taken up.                        *)
ValidatesAlone(p) ==
  HasLease(p) /\ ~Pushes(p) /\ run[p].pc \in Validating =>
    /\ ReadyTrains(job) \subseteq {run[p].tok}
    /\ \A i \in Job : job[i].train = run[p].tok => job[i].status \in {"validated", "canceled"}

OnlyValidates(p) ==
  run[p].pc = "finishing" /\ Pushes(p) => \A j \in Job : run[p].plan[j] # "validated"

(* Only deploying a train takes rows that are in one, and then all of it:  *)
(* nothing else of that train is deployed or waits for a push.             *)
OutOfTrains(p) ==
  IF run[p].mode = "train" THEN run[p].rest = {}
  ELSE \A j \in Job : OwnedBy(p, j) => job[j].train = 0

Untouched(i) == job[i].status # "deployed" /\ job[i].marker = 0

WholeClaim(p) ==
  run[p].mode = "train" /\ run[p].pc \in Early =>
    \A j \in Mine(p) :
      /\ job[j].train # 0 /\ job[j].size = Cardinality(run[p].batch)
      /\ \A i \in Mine(p) : job[i].train = job[j].train
      /\ \A i \in Job \ run[p].batch : job[i].train = job[j].train => Untouched(i)

(* Beside a validated job, its train is neither under way nor deployed.    *)
TrainWaits ==
  \A j \in InStatus(job, "validated"), i \in Job :
    job[j].train # 0 /\ job[i].train = job[j].train
      => Untouched(i) /\ job[i].status # "in_progress"

(* A push that is under way or has landed carries a whole train.           *)
Sent(t) == {i \in Job : job[i].train = t /\ ~Untouched(i)}

WholeTrain(s) ==
  \A j \in commit[s].jobs : job[j].train # 0 =>
    Sent(job[j].train) = commit[s].jobs /\ job[j].size = Cardinality(commit[s].jobs)

TrainOK(p) ==
  ValidatesAlone(p) /\ OnlyValidates(p) /\ OutOfTrains(p) /\ WholeClaim(p)

TrainInv ==
  /\ Numbered /\ SingleReady /\ TrainWaits
  /\ \A p \in Proc : TrainOK(p)
  /\ \A s \in Sha : Still(s) => WholeTrain(s)

-----------------------------------------------------------------------------
(* What most steps do to the trains: a row leaves its train only for the   *)
(* queue, none joins one, and validated rows leave together.               *)

Loosens(r, new) ==
  /\ \/ new.train = r.train /\ new.size = r.size /\ (new.status = "queued" => r.status = "queued")
     \/ new.train = 0 /\ new.marker = 0 /\ new.status # "deployed"
  /\ new.marker \in {0, r.marker}
  /\ new.status = "deployed" => r.status = "deployed" \/ r.marker # 0
AllLoosen == \A j \in Job : Loosens(job[j], job'[j])

Fades(r, new) ==
  /\ Loosens(r, new)
  /\ new.status \in {"in_progress", "validated"} =>
       /\ r.status = new.status /\ new.token = r.token
       /\ new.train = r.train /\ new.size = r.size
  /\ r.status = "validated" => new.status \in {"validated", "canceled"}
  /\ r.status = "canceled" => new.status = "canceled"
AllFade == \A j \in Job : Fades(job[j], job'[j])

Together == \A t : Members(job', t) \in {Members(job, t), {}}

(* A run goes on with the rows it has.                                     *)
GoesOn(q) ==
  /\ run'[q].tok = run[q].tok /\ run'[q].mode = run[q].mode
  /\ HasLease(q)' => HasLease(q)
  /\ run'[q].pc \in Validating /\ ~Pushes(q) => run[q].pc \in Validating
  /\ run[q].mode = "train" =>
       /\ run'[q].rest \subseteq run[q].rest
       /\ run'[q].pc \in Early => run[q].pc \in Early /\ run'[q].batch = run[q].batch
  /\ run'[q].pc = "finishing" /\ Pushes(q) =>
       \A j \in Job : run'[q].plan[j] = "validated"
                        => run[q].pc = "finishing" /\ run[q].plan[j] = "validated"

(* Or it ends, or asks instead.                                            *)
HasNoRows(q) ==
  run'[q].pc \notin Working /\ run'[q].mode = "validate" /\ \A j \in Job : ~OwnedBy(q, j)'

(* No push comes under way.                                                *)
NoneSent == \A s \in Sha : Still(s)' => Still(s) /\ commit'[s] = commit[s]

LEMMA SameFades ==
  ASSUME NEW r
  PROVE  Fades(r, r)
  BY DEF Fades, Loosens

LEMMA FadeChain ==
  ASSUME NEW r, NEW m, NEW n, Fades(r, m), Fades(m, n)
  PROVE  Fades(r, n)
  BY DEF Fades, Loosens

LEMMA Loosened ==
  ASSUME AllFade
  PROVE  AllLoosen
  BY DEF AllFade, AllLoosen, Fades

(* No train becomes Ready by losing rows.                                  *)
LEMMA ReadyLess ==
  ASSUME NEW old, NEW new, \A t : Members(new, t) \in {Members(old, t), {}},
         \A j \in Job : new[j].status = "validated" => new[j].size = old[j].size
  PROVE  ReadyTrains(new) \subseteq ReadyTrains(old)
  <1> SUFFICES ASSUME NEW t \in ReadyTrains(new) PROVE t \in ReadyTrains(old)
    OBVIOUS
  <1>1. t # 0 /\ Members(new, t) # {}
        /\ \A j \in Members(new, t) : new[j].size = Cardinality(Members(new, t))
    BY DEF ReadyTrains, Complete
  <1>2. Members(new, t) = Members(old, t)
    BY <1>1
  <1>3. \A j \in Members(old, t) : j \in Job /\ old[j].status = "validated" /\ old[j].train = t
    BY DEF Members, InStatus
  <1>4. \A j \in Members(new, t) : new[j].size = old[j].size
    BY DEF Members, InStatus
  <1>5. Complete(old, t)
    BY <1>1, <1>2, <1>4 DEF Complete
  <1> QED BY <1>1, <1>2, <1>3, <1>5 DEF ReadyTrains, InStatus

LEMMA ReadyFade ==
  ASSUME AllFade, Together
  PROVE  ReadyTrains(job)' \subseteq ReadyTrains(job)
  <1>1. \A j \in Job : job'[j].status = "validated" => job'[j].size = job[j].size
    BY DEF AllFade, Fades, Loosens
  <1> QED BY <1>1, ReadyLess DEF Together

LEMMA UntouchedFade ==
  ASSUME AllLoosen, NEW i \in Job, Untouched(i)
  PROVE  Untouched(i)'
  BY DEF AllLoosen, Loosens, Untouched

(* A train that is not given up keeps its rows.                            *)
LEMMA TrainFade ==
  ASSUME AllLoosen, NEW i \in Job, job'[i].train # 0
  PROVE  job'[i].train = job[i].train /\ job'[i].size = job[i].size
  BY DEF AllLoosen, Loosens

LEMMA WaitsFade ==
  ASSUME AllFade, TrainInv
  PROVE  TrainWaits'
  <1> SUFFICES ASSUME NEW j \in Job, job'[j].status = "validated", NEW i \in Job,
                      job'[j].train # 0, job'[i].train = job'[j].train
               PROVE  Untouched(i)' /\ job'[i].status # "in_progress"
    BY DEF TrainWaits, InStatus
  <1>1. job[j].status = "validated" /\ job[j].train # 0 /\ job[i].train = job[j].train
    BY TrainFade, Loosened DEF AllFade, Fades
  <1>2. Untouched(i) /\ job[i].status # "in_progress"
    BY <1>1 DEF TrainInv, TrainWaits, InStatus
  <1> QED BY <1>2, UntouchedFade, Loosened DEF AllFade, Fades

LEMMA GoesOnOK ==
  ASSUME Known, Known', TrainInv, AllFade, Together, NEW q \in Proc, GoesOn(q)
  PROVE  TrainOK(q)'
  <1>1. TrainOK(q) /\ AllLoosen
    BY Loosened DEF TrainInv
  <1>2. ValidatesAlone(q)'
    <2> SUFFICES ASSUME HasLease(q)', ~Pushes(q)', run'[q].pc \in Validating
                 PROVE  /\ ReadyTrains(job)' \subseteq {run'[q].tok}
                        /\ \A i \in Job : job'[i].train = run'[q].tok
                                            => job'[i].status \in {"validated", "canceled"}
      BY DEF ValidatesAlone
    <2>1. /\ ReadyTrains(job) \subseteq {run[q].tok} /\ run'[q].tok = run[q].tok
          /\ \A i \in Job : job[i].train = run[q].tok => job[i].status \in {"validated", "canceled"}
      BY <1>1 DEF TrainOK, ValidatesAlone, GoesOn, Pushes
    <2>2. run'[q].tok # 0
      BY DEF HasLease, Holds
    <2>3. \A i \in Job : job'[i].train = run'[q].tok => job[i].train = run[q].tok
      BY <1>1, <2>1, <2>2, TrainFade
    <2> QED BY <2>1, <2>3, ReadyFade DEF AllFade, Fades
  <1>3. OnlyValidates(q)'
    BY <1>1 DEF TrainOK, OnlyValidates, GoesOn, Pushes
  <1>4. \A j \in Job : OwnedBy(q, j)' => OwnedBy(q, j) /\ HasLease(q)
    <2> SUFFICES ASSUME NEW j \in Job, OwnedBy(q, j)' PROVE OwnedBy(q, j) /\ HasLease(q)
      OBVIOUS
    <2>1. HasLease(q)'
      BY DEF Known, RecordInv, ProcOK, OwnerHolds
    <2> QED BY <2>1 DEF GoesOn, AllFade, Fades, OwnedBy, Owned
  <1>5. OutOfTrains(q)'
    BY <1>1, <1>4, TrainFade DEF TrainOK, OutOfTrains, GoesOn
  <1>6. WholeClaim(q)'
    <2> SUFFICES ASSUME run'[q].mode = "train", run'[q].pc \in Early, NEW j \in Mine(q)'
                 PROVE  /\ job'[j].train # 0 /\ job'[j].size = Cardinality(run'[q].batch)
                        /\ \A i \in Mine(q)' : job'[i].train = job'[j].train
                        /\ \A i \in Job \ run'[q].batch :
                             job'[i].train = job'[j].train => Untouched(i)'
      BY DEF WholeClaim
    <2>1. run[q].mode = "train" /\ run[q].pc \in Early /\ run'[q].batch = run[q].batch
      BY DEF GoesOn
    <2>2. run[q].batch \subseteq Job
      BY DEF Known, Inv, TypeOK, RunnerTypeOK, Run
    <2>3. \A i \in Mine(q)' : i \in Mine(q) /\ i \in Job /\ job'[i].status = "in_progress"
      BY <1>4, <2>1, <2>2 DEF Mine, OwnedBy, Owned
    <2>4. \A i \in Mine(q)' : job'[i].train = job[i].train /\ job'[i].size = job[i].size
      BY <2>3 DEF AllFade, Fades, Loosens
    <2>5. /\ job[j].train # 0 /\ job[j].size = Cardinality(run[q].batch)
          /\ \A i \in Mine(q) : job[i].train = job[j].train
          /\ \A i \in Job \ run[q].batch : job[i].train = job[j].train => Untouched(i)
      BY <1>1, <2>1, <2>3 DEF TrainOK, WholeClaim
    <2>6. \A i \in Job \ run'[q].batch : job'[i].train = job'[j].train => Untouched(i)'
      BY <1>1, <2>1, <2>4, <2>5, TrainFade, UntouchedFade
    <2> QED BY <2>1, <2>3, <2>4, <2>5, <2>6
  <1> QED BY <1>2, <1>3, <1>5, <1>6 DEF TrainOK

LEMMA NoRowsOK ==
  ASSUME NEW q \in Proc, HasNoRows(q)
  PROVE  TrainOK(q)'
  BY DEF HasNoRows, TrainOK, ValidatesAlone, OnlyValidates, OutOfTrains, WholeClaim, Working,
         Validating, Early

LEMMA SentFades ==
  ASSUME Known, Known', AllLoosen, NEW s \in Sha, Still(s), Still(s)', commit'[s] = commit[s],
         WholeTrain(s)
  PROVE  WholeTrain(s)'
  <1> SUFFICES ASSUME NEW j \in commit[s].jobs, job'[j].train # 0
               PROVE  /\ commit[s].jobs =
                           {i \in Job : job'[i].train = job'[j].train /\ ~Untouched(i)'}
                      /\ job'[j].size = Cardinality(commit[s].jobs)
    BY DEF WholeTrain, Sent
  <1>1. commit[s].jobs \subseteq Job
    BY DEF Known, Inv, TypeOK, RemoteTypeOK
  <1>2. \A i \in commit[s].jobs : ~Untouched(i) /\ ~Untouched(i)'
    BY NoSha DEF Known, RecordInv, OnRecord, Untouched
  <1>3. job'[j].train = job[j].train /\ job'[j].size = job[j].size
    BY <1>1, TrainFade
  <1>4. Sent(job[j].train) = commit[s].jobs /\ job[j].size = Cardinality(commit[s].jobs)
    BY <1>3 DEF WholeTrain
  <1>5. \A i \in Job : job'[i].train = job'[j].train /\ ~Untouched(i)' => i \in commit[s].jobs
    BY <1>3, <1>4, TrainFade, UntouchedFade DEF Sent
  <1>6. \A i \in commit[s].jobs : job'[i].train = job'[j].train
    <2>1. \A i \in commit[s].jobs : job'[i].train = job[i].train
      BY <1>1, <1>2 DEF AllLoosen, Loosens, Untouched
    <2> QED BY <1>3, <1>4, <2>1 DEF Sent
  <1>7. commit[s].jobs = {i \in Job : job'[i].train = job'[j].train /\ ~Untouched(i)'}
    BY <1>1, <1>2, <1>5, <1>6
  <1> QED BY <1>3, <1>4, <1>7

LEMMA FadeStep ==
  ASSUME Known, Known', TrainInv, AllFade, Together, NoneSent, issued' \in {issued, issued + 1},
         \A q \in Proc : GoesOn(q) \/ HasNoRows(q)
  PROVE  TrainInv'
  <1>1. Numbered'
    <2> SUFFICES ASSUME NEW j \in Job
                 PROVE  job'[j].train <= issued' /\ (job'[j].status = "queued" => job'[j].train = 0)
      BY DEF Numbered
    <2>1. issued \in Nat /\ job[j].train \in Nat
      BY DEF Known, Inv, TypeOK, StoreTypeOK, Row
    <2>2. job[j].train <= issued /\ (job[j].status = "queued" => job[j].train = 0)
      BY DEF TrainInv, Numbered
    <2> QED BY <2>1, <2>2 DEF AllFade, Fades, Loosens
  <1>2. SingleReady'
    BY ReadyFade DEF TrainInv, SingleReady
  <1>3. \A q \in Proc : TrainOK(q)'
    BY GoesOnOK, NoRowsOK
  <1>4. \A s \in Sha : Still(s)' => WholeTrain(s)'
    BY SentFades, Loosened DEF NoneSent, TrainInv
  <1> QED BY <1>1, <1>2, <1>3, <1>4, WaitsFade DEF TrainInv

-----------------------------------------------------------------------------
(* What each write does to the rows.                                       *)

LEMMA StayTogether ==
  ASSUME AllFade, \A j \in Job : job[j].status = "validated" => job'[j].status = "validated"
  PROVE  Together
  <1>1. \A j \in Job : job'[j].status = "validated"
          => job[j].status = "validated" /\ job'[j].train = job[j].train
    BY DEF AllFade, Fades, Loosens
  <1>2. \A t : Members(job', t) = Members(job, t)
    BY <1>1 DEF Members, InStatus
  <1> QED BY <1>2 DEF Together

LEMMA SameRowsFade ==
  ASSUME UNCHANGED job
  PROVE  AllFade /\ Together
  BY SameFades, StayTogether DEF AllFade

LEMMA OneFades ==
  ASSUME TypeOK, NEW j \in Job, NEW new, job' = [job EXCEPT ![j] = new],
         Fades(job[j], new), job[j].status # "validated"
  PROVE  AllFade /\ Together
  <1>1. \A i \in Job : job'[i] = IF i = j THEN new ELSE job[i]
    BY DEF TypeOK, StoreTypeOK
  <1>2. AllFade
    BY <1>1, SameFades DEF AllFade
  <1> QED BY <1>1, <1>2, StayTogether

LEMMA MarkedFades ==
  ASSUME NEW r \in Row, r.status \notin {"validated", "canceled"},
         NEW to \in Status \ {"in_progress", "validated"}, to = "deployed" => r.marker # 0
  PROVE  Fades(r, Marked(r, to))
  <1> DEFINE new == Marked(r, to)
  <1>1. /\ new.status = to
        /\ new.marker = IF to \in {"deployed", "canceled", "queued"} THEN 0 ELSE r.marker
        /\ new.train = IF to = "queued" THEN 0 ELSE r.train
        /\ new.size = IF to = "queued" THEN 0 ELSE r.size
    BY DEF Marked, Row
  <1> HIDE DEF new
  <1>2. Fades(r, new)
    BY <1>1 DEF Fades, Loosens
  <1> QED BY <1>2 DEF new

LEMMA OrphanedFades ==
  ASSUME NEW r \in Row
  PROVE  Fades(r, Orphaned(r)) /\ (r.status = "validated" => Orphaned(r) = r)
  BY DEF Fades, Loosens, Orphaned, Row

LEMMA AcquiredFades ==
  ASSUME TypeOK, NEW j \in Job
  PROVE  /\ Fades(job[j], Split(job)[j]) /\ Fades(job[j], AcquiredRows[j])
         /\ job[j].status = "validated" => Split(job)[j] = job[j] /\ AcquiredRows[j] = job[j]
  <1>1. job[j] \in Row /\ Split(job)[j] = Orphaned(job[j])
    BY DEF TypeOK, StoreTypeOK, Split
  <1> QED BY <1>1, OrphanedFades, SameFades DEF AcquiredRows

LEMMA ApprovalFades ==
  ASSUME NEW rows \in [Job -> Row], NEW stale, NEW j \in Job
  PROVE  /\ Fades(rows[j], ApprovalBlocked(rows, stale)[j])
         /\ rows[j].status = "validated" => ApprovalBlocked(rows, stale)[j] = rows[j]
  <1>1. CASE ApprovalBlocked(rows, stale)[j] = rows[j]
    BY <1>1, SameFades
  <1>2. CASE ApprovalBlocked(rows, stale)[j] # rows[j]
    <2>1. /\ ApprovalBlocked(rows, stale)[j] = [rows[j] EXCEPT !.status = "blocked"]
          /\ rows[j].status = "queued"
      BY <1>2 DEF ApprovalBlocked, OrderedHeadOnly, AutoQueued, InStatus
    <2> QED BY <2>1 DEF Fades, Loosens, Row
  <1> QED BY <1>1, <1>2

LEMMA ClearFades ==
  ASSUME TypeOK, NEW p, NEW t, ClearAndSplit(p, t)
  PROVE  AllFade /\ Together
  <1>1. CASE Holds(p, t)
    <2>1. job' = Split(job)
      BY <1>1 DEF ClearAndSplit
    <2> QED BY <2>1, AcquiredFades, StayTogether DEF AllFade
  <1>2. CASE ~Holds(p, t)
    BY <1>2, SameRowsFade DEF ClearAndSplit
  <1> QED BY <1>1, <1>2

(* A status write of the claim, other than recording it validated.         *)
LEMMA FinishFades ==
  ASSUME Known, NEW p \in Proc, NEW j \in Job, OwnedBy(p, j),
         NEW to \in Status \ {"in_progress"}, FinishOK(to, job[j].marker), FinishRow(p, j, to),
         FinishAs(job[j], to) # "validated"
  PROVE  AllFade /\ Together
  <1> DEFINE as == FinishAs(job[j], to)
  <1>1. as \in Status \ {"in_progress", "validated"} /\ (as = "deployed" => to = "deployed")
    BY DEF FinishAs, Status, Terminal
  <1>2. job[j] \in Row /\ job[j].status = "in_progress"
    BY DEF Known, Inv, TypeOK, StoreTypeOK, OwnedBy, Owned
  <1>3. job' = [job EXCEPT ![j] = Marked(job[j], as)]
    BY DEF FinishRow
  <1> HIDE DEF as
  <1>4. as = "deployed" => job[j].marker # 0
    BY <1>1 DEF FinishOK
  <1>5. Fades(job[j], Marked(job[j], as))
    BY <1>1, <1>2, <1>4, MarkedFades
  <1> QED BY <1>2, <1>3, <1>5, OneFades DEF Known, Inv

LEMMA ClearMarkersFades ==
  ASSUME Known, NEW p \in Proc, ClearRejectedPush(p)
  PROVE  AllFade /\ Together
  <1>1. job' = [j \in Job |-> IF j \in run[p].batch THEN [job[j] EXCEPT !.marker = 0] ELSE job[j]]
    BY DEF ClearRejectedPush
  <1>2. \A j \in Job : Fades(job[j], job'[j]) /\ job'[j].status = job[j].status
    <2> SUFFICES ASSUME NEW j \in Job PROVE Fades(job[j], job'[j]) /\ job'[j].status = job[j].status
      OBVIOUS
    <2>1. job[j] \in Row /\ job'[j] \in {job[j], [job[j] EXCEPT !.marker = 0]}
      BY <1>1 DEF Known, Inv, TypeOK, StoreTypeOK
    <2> QED BY <2>1 DEF Fades, Loosens, Row
  <1> QED BY <1>2, StayTogether DEF AllFade

LEMMA ApplyFades ==
  ASSUME Known, NEW p \in Proc, Apply(p)
  PROVE  AllFade /\ Together
  <1>1. PICK j \in ToWrite(p) :
          \/ job' = [job EXCEPT ![j] = Marked(@, run[p].plan[j])]
          \/ UNCHANGED job
    BY DEF Apply
  <1>2. j \in Job /\ run[p].pc = "applying" /\ run[p].plan[j] # "none"
    BY DEF Apply, At, ToWrite
  <1>3. /\ run[p].plan[j] \in Verdicts /\ Unresolved(job[j])
        /\ job[j] \in Row /\ RowClean(job[j])
    BY <1>2 DEF Known, Inv, TypeOK, StoreTypeOK, RecordInv, RowsClean, ProcOK, AskOK
  <1>4. /\ job[j].marker # 0 /\ job[j].status \notin {"validated", "canceled"}
        /\ run[p].plan[j] \in Status \ {"in_progress", "validated"}
    BY <1>3 DEF Unresolved, IsReconcileConflict, RowClean, Verdicts, Status, Active, Terminal
  <1>5. Fades(job[j], Marked(job[j], run[p].plan[j]))
    BY <1>3, <1>4, MarkedFades
  <1> QED BY <1>1, <1>2, <1>4, <1>5, OneFades, SameRowsFade DEF Known, Inv

LEMMA OperatorFades ==
  ASSUME Known, NEW j \in Job, CancelJob(j) \/ DismissJob(j) \/ RetryJob(j)
  PROVE  AllFade /\ Together
  <1>1. job \in [Job -> Row] /\ TypeOK
    BY DEF Known, Inv, TypeOK, StoreTypeOK
  <1>2. CASE CancelJob(j)
    <2>1. ASSUME NEW i \in Job PROVE Fades(job[i], job'[i])
      <3>1. job[i] \in Row
        BY <1>1
      <3>2. CASE job'[i] = [job[i] EXCEPT !.cancel = TRUE]
        BY <3>1, <3>2 DEF Fades, Loosens, Row
      <3>3. CASE job'[i] = [job[i] EXCEPT !.status = "canceled"] /\ job[i].status = "validated"
        BY <3>1, <3>3 DEF Fades, Loosens, Row
      <3>4. CASE job'[i] = Marked(job[i], "canceled") /\ job[i].status \in {"queued", "blocked", "failed"}
        BY <3>1, <3>4, MarkedFades DEF Status, Active, Terminal
      <3>5. CASE job'[i] = job[i]
        BY <3>5, SameFades
      <3> QED BY <1>2, <3>2, <3>3, <3>4, <3>5 DEF CancelJob, Members, InStatus
    <2>2. CASE job[j].status = "validated"
      <3>1. \A i \in Job : job'[i] = IF i \in Members(job, job[j].train)
                                     THEN [job[i] EXCEPT !.status = "canceled"] ELSE job[i]
        BY <1>2, <2>2 DEF CancelJob
      <3>2. \A i \in Members(job, job[j].train) : i \in Job /\ job'[i].status = "canceled"
        BY <1>1, <3>1 DEF Members, InStatus, Row
      <3>3. \A t : Members(job', t) = IF t = job[j].train THEN {} ELSE Members(job, t)
        <4> SUFFICES ASSUME NEW t
                     PROVE  Members(job', t) = IF t = job[j].train THEN {} ELSE Members(job, t)
          OBVIOUS
        <4>1. \A i \in Job : i \in Members(job', t) => job'[i] = job[i] /\ t # job[j].train
          BY <3>1, <3>2 DEF Members, InStatus
        <4>2. \A i \in Members(job, t) : t # job[j].train => job'[i] = job[i]
          BY <3>1 DEF Members, InStatus
        <4>3. Members(job', t) \subseteq Job /\ Members(job, t) \subseteq Job
          BY DEF Members, InStatus
        <4>4. \A i \in Job : t # job[j].train => (i \in Members(job', t) <=> i \in Members(job, t))
          BY <4>1, <4>2 DEF Members, InStatus
        <4> QED BY <4>1, <4>3, <4>4
      <3> QED BY <2>1, <3>3 DEF AllFade, Together
    <2>3. CASE job[j].status # "validated"
      <3>1. \A i \in Job : job[i].status = "validated" => job'[i].status = "validated"
        BY <1>2, <2>3 DEF CancelJob
      <3> QED BY <2>1, <3>1, StayTogether DEF AllFade
    <2> QED BY <2>2, <2>3
  <1>3. CASE DismissJob(j) \/ RetryJob(j)
    <2>1. job[j].status \in {"blocked", "failed"} /\ job[j] \in Row
      BY <1>1, <1>3 DEF DismissJob, RetryJob, Resolvable
    <2>2. PICK new : /\ job' = [job EXCEPT ![j] = new]
                     /\ \/ new = Marked(job[j], "canceled")
                        \/ \E auto : new = FreshRow(auto)
      BY <1>3 DEF DismissJob, RetryJob
    <2>3. Fades(job[j], Marked(job[j], "canceled"))
      BY <2>1, MarkedFades DEF Status, Active, Terminal
    <2>4. \A auto : Fades(job[j], FreshRow(auto))
      BY <2>1 DEF Fades, Loosens, FreshRow
    <2> QED BY <1>1, <2>1, <2>2, <2>3, <2>4, OneFades
  <1> QED BY <1>2, <1>3

-----------------------------------------------------------------------------
(* What each step does to the runs.                                        *)

(* Nobody gets a lease.                                                    *)
LeaseShrinks == lock'.token \in {0, lock.token} /\ (lock'.token # 0 => lock'.owner = lock.owner)

LEMMA KeptLease ==
  ASSUME LeaseShrinks, NEW q \in Proc, run'[q].tok = run[q].tok
  PROVE  HasLease(q)' => HasLease(q)
  BY DEF LeaseShrinks, HasLease, Holds

LEMMA SameRunGoesOn ==
  ASSUME NEW q \in Proc, run'[q] = run[q], HasLease(q)' => HasLease(q)
  PROVE  GoesOn(q)
  BY DEF GoesOn

LEMMA LostRuns ==
  ASSUME LeaseShrinks, NEW q \in Proc, run'[q] = run[q]
  PROVE  GoesOn(q)
  BY KeptLease, SameRunGoesOn

LEMMA IdleHasNone ==
  ASSUME NEW q \in Proc, run'[q] = Idle
  PROVE  HasNoRows(q) /\ run'[q].pc # "pulsed"
  <1>1. Idle.pc = "idle" /\ Idle.mode = "validate" /\ Idle.tok = 0
    BY DEF Idle
  <1> QED BY <1>1 DEF HasNoRows, Working, OwnedBy, Owned

LEMMA GotoGoesOn ==
  ASSUME Inv, LeaseShrinks, NEW p \in Proc, NEW pc, Goto(p, pc), pc # "finishing",
         pc \in Validating /\ ~Pushes(p) => run[p].pc \in Validating,
         pc \in Early => run[p].pc \in Early
  PROVE  GoesOn(p)
  <1>1. /\ run'[p].pc = pc /\ run'[p].tok = run[p].tok /\ run'[p].mode = run[p].mode
        /\ run'[p].batch = run[p].batch /\ run'[p].rest = run[p].rest
    BY GotoFields DEF Inv
  <1> QED BY <1>1, KeptLease DEF GoesOn

LEMMA PlanGoesOn ==
  ASSUME Inv, LeaseShrinks, NEW p \in Proc, NEW S, NEW to, NEW others, Plan(p, S, to, others),
         IF Pushes(p) THEN "validated" \notin {to, others} ELSE run[p].pc \in Validating
  PROVE  GoesOn(p)
  <1>1. /\ run'[p].pc = "finishing" /\ run'[p].tok = run[p].tok /\ run'[p].mode = run[p].mode
        /\ run'[p].batch = run[p].batch /\ run'[p].rest = run[p].rest
        /\ \A j \in Job : run'[p].plan[j] \in {to, others, "none"}
    BY PlanFields DEF Inv
  <1> QED BY <1>1, KeptLease DEF GoesOn, Early

(* No push comes under way but by the last check of a lease.               *)
LEMMA CalmSends ==
  ASSUME Known, CommitsStay, Calm
  PROVE  NoneSent
  <1> SUFFICES ASSUME NEW s \in Sha, Still(s)' PROVE Still(s) /\ commit'[s] = commit[s]
    BY DEF NoneSent
  <1>1. Still(s)
    BY CalmFlight
  <1> QED BY <1>1, StillBuilt DEF Known, CommitsStay

LEMMA QuietSends ==
  ASSUME Known, UNCHANGED remoteVars,
         \A q \in Proc : run'[q].pc = "pulsed" => run[q].pc = "pulsed" /\ run'[q].sha = run[q].sha
  PROVE  NoneSent
  <1>1. CommitsStay /\ Calm
    BY RemoteSame, WireSame DEF Known, remoteVars
  <1> QED BY <1>1, CalmSends

LEMMA LocalTrain ==
  ASSUME Known, Known', TrainInv, AllFade, Together, NoneSent, UNCHANGED issued, LeaseShrinks,
         NEW p \in Proc, \A q \in Proc \ {p} : run'[q] = run[q], GoesOn(p) \/ HasNoRows(p)
  PROVE  TrainInv'
  <1>1. \A q \in Proc : GoesOn(q) \/ HasNoRows(q)
    BY LostRuns
  <1> QED BY <1>1, FadeStep

LEMMA QuietLease ==
  ASSUME UNCHANGED lock
  PROVE  LeaseShrinks
  BY DEF LeaseShrinks

LEMMA ReleasedLease ==
  ASSUME NEW p, NEW t, ReleaseLease(p, t) \/ ClearAndSplit(p, t)
  PROVE  LeaseShrinks
  BY DEF ReleaseLease, ClearAndSplit, LeaseShrinks, NoLock

(* A step of a run that writes nothing and sends nothing.                  *)
LEMMA LocalQuiet ==
  ASSUME Known, Known', TrainInv, NEW p \in Proc, UNCHANGED <<quiet, remoteVars>>,
         \A q \in Proc \ {p} : run'[q] = run[q], run'[p].pc # "pulsed", GoesOn(p) \/ HasNoRows(p)
  PROVE  TrainInv'
  <1>1. UNCHANGED <<job, issued, lock>>
    BY DEF quiet, storeVars, leaseVars
  <1>2. NoneSent
    BY QuietSends
  <1> QED BY <1>1, <1>2, SameRowsFade, QuietLease, LocalTrain

LEMMA LocalGoto ==
  ASSUME Known, Known', TrainInv, NEW p \in Proc, UNCHANGED <<quiet, remoteVars>>,
         NEW pc, Goto(p, pc), pc \notin {"finishing", "pulsed"},
         pc \in Validating /\ ~Pushes(p) => run[p].pc \in Validating,
         pc \in Early => run[p].pc \in Early
  PROVE  TrainInv'
  <1>1. LeaseShrinks
    BY QuietLease DEF quiet, leaseVars
  <1>2. GoesOn(p)
    BY <1>1, GotoGoesOn DEF Known
  <1>3. run'[p].pc = pc /\ \A q \in Proc \ {p} : run'[q] = run[q]
    BY GotoFields DEF Known, Inv
  <1> QED BY <1>2, <1>3, LocalQuiet

LEMMA LocalPlan ==
  ASSUME Known, Known', TrainInv, NEW p \in Proc, UNCHANGED <<quiet, remoteVars>>,
         NEW S, NEW to, NEW others, Plan(p, S, to, others),
         IF Pushes(p) THEN "validated" \notin {to, others} ELSE run[p].pc \in Validating
  PROVE  TrainInv'
  <1>1. LeaseShrinks
    BY QuietLease DEF quiet, leaseVars
  <1>2. GoesOn(p)
    BY <1>1, PlanGoesOn DEF Known
  <1>3. run'[p].pc = "finishing" /\ \A q \in Proc \ {p} : run'[q] = run[q]
    BY PlanFields DEF Known, Inv
  <1> QED BY <1>2, <1>3, LocalQuiet

LEMMA LocalEnd ==
  ASSUME Known, Known', TrainInv, NEW p \in Proc, UNCHANGED <<quiet, remoteVars>>,
         run' = [run EXCEPT ![p] = Idle]
  PROVE  TrainInv'
  <1>1. run'[p] = Idle /\ \A q \in Proc \ {p} : run'[q] = run[q]
    BY DEF Known, Inv, TypeOK, RunnerTypeOK
  <1>2. HasNoRows(p) /\ run'[p].pc # "pulsed"
    BY <1>1, IdleHasNone
  <1> QED BY <1>1, <1>2, LocalQuiet

(* A frame that carries a commit pushes it.                                *)
LEMMA CarriersPush ==
  ASSUME Known, NEW p \in Proc
  PROVE  run[p].pc \in Carrying \union {"refused"} => Pushes(p)
  BY DEF Known, RecordInv, ProcOK, FrameOK

LEMMA PlansTrain ==
  ASSUME Known, Known', TrainInv, NEW p \in Proc,
         \/ RecordTrain(p) \/ SeeCancel(p) \/ PushSucceeds(p) \/ PushAmbiguous(p)
         \/ JudgeRefusal(p) \/ PinFails(p) \/ PushError(p) \/ StopRecording(p)
         \/ \E reached \in SUBSET run[p].batch, to \in {"blocked", "failed"} : Stop(p, reached, to)
  PROVE  TrainInv'
  <1>1. UNCHANGED <<quiet, remoteVars>>
    BY DEF RecordTrain, SeeCancel, PushSucceeds, PushAmbiguous, JudgeRefusal, PinFails, PushError,
           StopRecording, Stop
  <1>2. \E S, to, others :
          /\ Plan(p, S, to, others)
          /\ IF Pushes(p) THEN "validated" \notin {to, others} ELSE run[p].pc \in Validating
    <2>1. CASE RecordTrain(p)
      BY <2>1, PlanAllFields DEF RecordTrain, At, Pushes, Validating
    <2>2. CASE SeeCancel(p)
      BY <2>2, PlanAllFields DEF SeeCancel, Validating
    <2>3. CASE PushSucceeds(p) \/ PushAmbiguous(p) \/ JudgeRefusal(p) \/ PinFails(p) \/ PushError(p)
      <3>1. PICK to \in {"deployed", "needs_reconcile", "queued", "blocked", "failed"} :
              PlanAll(p, to)
        BY <2>3 DEF PushSucceeds, PushAmbiguous, JudgeRefusal, PinFails, PushError
      <3>2. Pushes(p)
        BY <2>3, CarriersPush
        DEF PushSucceeds, PushAmbiguous, JudgeRefusal, PinFails, PushError, At, Carrying
      <3>3. Plan(p, run[p].batch, to, "none")
        BY <3>1, PlanAllFields
      <3> QED BY <3>2, <3>3
    <2>4. CASE StopRecording(p)
      BY <2>4 DEF StopRecording, At, Validating
    <2>5. CASE \E reached \in SUBSET run[p].batch, to \in {"blocked", "failed"} :
                 Stop(p, reached, to)
      BY <2>5 DEF Stop, Validating
    <2> QED BY <2>1, <2>2, <2>3, <2>4, <2>5
  <1> QED BY <1>1, <1>2, LocalPlan

LEMMA HoldsTrain ==
  ASSUME Known, Known', TrainInv, NEW p \in Proc, HoldPushLock(p)
  PROVE  TrainInv'
  <1>1. UNCHANGED <<quiet, remoteVars>> /\ run[p].pc = "marked" /\ Pushes(p)
    BY CarriersPush DEF HoldPushLock, At, Carrying
  <1>2. CASE PlanAll(p, "needs_reconcile")
    BY <1>1, <1>2, PlanAllFields, LocalPlan
  <1>3. CASE Goto(p, "locked")
    BY <1>1, <1>3, LocalGoto DEF Validating, Early
  <1> QED BY <1>2, <1>3 DEF HoldPushLock

LEMMA GotosTrain ==
  ASSUME Known, Known', TrainInv, NEW p \in Proc,
         LoseLease(p) \/ Contended(p) \/ PushRefused(p) \/ KeepLease(p)
  PROVE  TrainInv'
  <1>1. UNCHANGED <<quiet, remoteVars>>
    BY DEF LoseLease, Contended, PushRefused, KeepLease
  <1>2. CASE LoseLease(p) \/ Contended(p)
    <2>1. Goto(p, "raising")
      BY <1>2 DEF LoseLease, Contended
    <2> QED BY <1>1, <2>1, LocalGoto DEF Validating, Early
  <1>3. CASE PushRefused(p)
    <2>1. Goto(p, "rejected")
      BY <1>3 DEF PushRefused
    <2> QED BY <1>1, <2>1, LocalGoto DEF Validating, Early
  <1>4. CASE KeepLease(p)
    BY <1>1, <1>4, LocalEnd DEF KeepLease
  <1> QED BY <1>2, <1>3, <1>4

LEMMA HeartbeatTrain ==
  ASSUME Known, Known', TrainInv, NEW p \in Proc, Heartbeat(p)
  PROVE  TrainInv'
  <1>1. UNCHANGED <<job, issued, run, remoteVars>>
    BY DEF Heartbeat, storeVars
  <1>2. LeaseShrinks
    BY DEF Heartbeat, RenewLease, LeaseShrinks, Known, Inv, TypeOK, LeaseTypeOK
  <1>3. NoneSent
    BY <1>1, QuietSends
  <1> QED BY <1>1, <1>2, <1>3, SameRowsFade, LostRuns, LocalTrain

LEMMA AssembleTrain ==
  ASSUME Known, Known', TrainInv, NEW p \in Proc, Assemble(p)
  PROVE  TrainInv'
  <1>1. run[p].pc = "assembling" /\ UNCHANGED <<quiet, wire, landed>> /\ run[p] \in Run
    BY DEF Assemble, At, Known, Inv, TypeOK, RunnerTypeOK
  <1>2. LeaseShrinks /\ AllFade /\ Together /\ UNCHANGED issued
    BY <1>1, QuietLease, SameRowsFade DEF quiet, storeVars, leaseVars
  <1>3. CommitsStay
    <2>1. CASE UNCHANGED commit
      BY <1>1, <2>1 DEF CommitsStay
    <2>2. CASE \E s \in Sha : MayName(s, run[p].batch) /\ Build(s, run[p].batch)
      BY <1>1, <2>2, NamedCommit DEF Known
    <2> QED BY <2>1, <2>2 DEF Assemble
  <1>4. /\ run'[p].pc = "gated" /\ run'[p].tok = run[p].tok /\ run'[p].mode = run[p].mode
        /\ run'[p].batch = run[p].batch /\ run'[p].rest = run[p].rest
        /\ \A q \in Proc \ {p} : run'[q] = run[q]
    <2>1. CASE Goto(p, "gated")
      BY <2>1, GotoFields DEF Known, Inv
    <2>2. CASE \E s \in Sha : run' = [run EXCEPT ![p] = [@ EXCEPT !.pc = "gated", !.sha = s, !.base = tip]]
      BY <2>2 DEF Known, Inv, TypeOK, RunnerTypeOK, Run
    <2> QED BY <2>1, <2>2 DEF Assemble
  <1>5. NoneSent
    BY <1>1, <1>3, <1>4, WireSame, CalmSends
  <1>6. GoesOn(p)
    BY <1>1, <1>2, <1>4, KeptLease DEF GoesOn, Validating, Early
  <1> QED BY <1>2, <1>4, <1>5, <1>6, LocalTrain

LEMMA IsolateTrain ==
  ASSUME Known, Known', TrainInv, NEW p \in Proc, Isolate(p)
  PROVE  TrainInv'
  <1>1. /\ run[p].pc = "assembling" /\ run[p].mode # "train" /\ run[p] \in Run
        /\ UNCHANGED <<quiet, remoteVars>> /\ run \in [Proc -> Run]
    BY DEF Isolate, At, Known, Inv, TypeOK, RunnerTypeOK
  <1>2. PICK j : run' = [run EXCEPT ![p] = [@ EXCEPT !.batch = {j}, !.rest = run[p].batch \ {j}]]
    BY DEF Isolate
  <1>3. /\ run'[p].pc = run[p].pc /\ run'[p].tok = run[p].tok /\ run'[p].mode = run[p].mode
        /\ \A q \in Proc \ {p} : run'[q] = run[q]
    BY <1>1, <1>2 DEF Run
  <1>4. GoesOn(p)
    BY <1>1, <1>3, QuietLease, KeptLease DEF GoesOn, quiet, leaseVars
  <1> QED BY <1>1, <1>3, <1>4, LocalQuiet

LEMMA DoneTrain ==
  ASSUME Known, Known', TrainInv, NEW p \in Proc, Done(p)
  PROVE  TrainInv'
  <1>1. /\ run[p].pc = "finishing" /\ run[p] \in Run /\ run \in [Proc -> Run]
        /\ UNCHANGED <<quiet, remoteVars>>
    BY DEF Done, At, Known, Inv, TypeOK, RunnerTypeOK
  <1>2. LeaseShrinks
    BY <1>1, QuietLease DEF quiet, leaseVars
  <1>3. CASE run[p].rest = {}
    <2>1. Goto(p, "leaving")
      BY <1>3 DEF Done
    <2> QED BY <1>1, <2>1, LocalGoto DEF Validating, Early
  <1>4. CASE run[p].rest # {}
    <2>1. run[p].mode # "train"
      BY <1>4 DEF TrainInv, TrainOK, OutOfTrains
    <2>2. /\ run'[p].pc \in {"assembling", "finishing"} /\ run'[p].tok = run[p].tok
          /\ run'[p].mode = run[p].mode /\ \A q \in Proc \ {p} : run'[q] = run[q]
          /\ run'[p].pc = "finishing" => \A j \in Job : run'[p].plan[j] # "validated"
      <3>1. CASE run[p].stops
        BY <1>1, <1>4, <3>1, ReturnRest DEF Known, Inv
      <3>2. CASE ~run[p].stops
        BY <1>1, <1>4, <3>2, NextInLine DEF Known, Inv
      <3> QED BY <3>1, <3>2
    <2>3. GoesOn(p)
      BY <1>1, <1>2, <2>1, <2>2, KeptLease DEF GoesOn, Validating
    <2> QED BY <1>1, <2>2, <2>3, LocalQuiet
  <1> QED BY <1>3, <1>4

LEMMA StartTrain ==
  ASSUME Known, Known', TrainInv, NEW p \in Proc, StartPush(p)
  PROVE  TrainInv'
  <1>1. /\ run[p].pc = "pulsed" /\ UNCHANGED <<quiet, commit, landed>> /\ Goto(p, "pushing")
        /\ wire' = [wire EXCEPT ![run[p].sha] = "running"] /\ wire \in [Sha -> Wire]
    BY DEF StartPush, At, Known, Inv, TypeOK, RemoteTypeOK
  <1>2. LeaseShrinks /\ AllFade /\ Together /\ UNCHANGED issued
    BY <1>1, QuietLease, SameRowsFade DEF quiet, storeVars, leaseVars
  <1>3. /\ GoesOn(p) /\ run'[p].pc = "pushing" /\ \A q \in Proc \ {p} : run'[q] = run[q]
    BY <1>1, <1>2, GotoGoesOn, GotoFields DEF Known, Inv, Validating, Early
  <1>4. ASSUME NEW s \in Sha, Still(s)' PROVE Still(s)
    <2>1. wire'[s] = wire[s] \/ s = run[p].sha
      BY <1>1
    <2>2. Pulsed(s)' => Pulsed(s)
      BY <1>3 DEF Pulsed
    <2> QED BY <1>1, <1>4, <2>1, <2>2 DEF Still, Flight, Pulsed
  <1> QED BY <1>1, <1>2, <1>3, <1>4, LocalTrain DEF NoneSent

-----------------------------------------------------------------------------
(* Status writes of a run, and its end.                                    *)

LEMMA RejectTrain ==
  ASSUME Known, Known', TrainInv, NEW p \in Proc, NEW j \in Job, NEW to \in {"blocked", "failed"},
         RejectJob(p, j, to)
  PROVE  TrainInv'
  <1>1. /\ run[p].pc = "assembling" /\ run[p].mode # "train" /\ j \in run[p].batch
        /\ OwnedBy(p, j) /\ FinishRow(p, j, to) /\ UNCHANGED <<issued, leaseVars, remoteVars>>
        /\ run[p] \in Run /\ run \in [Proc -> Run]
    BY DEF RejectJob, At, Mine, OwnedBy, Known, Inv, TypeOK, RunnerTypeOK
  <1>2. job[j].marker = 0 /\ run[p].plan = Unplanned
    BY <1>1 DEF Known, RecordInv, ProcOK, MarkersOK, PlanOK
  <1>3. /\ FinishOK(to, job[j].marker) /\ to \in Status \ {"in_progress"}
        /\ FinishAs(job[j], to) # "validated"
    BY <1>2 DEF FinishOK, FinishAs, Status, Active
  <1>4. AllFade /\ Together
    BY <1>1, <1>3, FinishFades
  <1>5. /\ run'[p].pc \in {"assembling", "finishing"} /\ run'[p].tok = run[p].tok
        /\ run'[p].mode = run[p].mode /\ run'[p].plan = Unplanned
        /\ \A q \in Proc \ {p} : run'[q] = run[q]
    BY <1>2, RejectRun DEF Known, Inv
  <1>6. LeaseShrinks
    BY <1>1, QuietLease DEF leaseVars
  <1>7. GoesOn(p)
    BY <1>1, <1>5, <1>6, KeptLease DEF GoesOn, Validating, Unplanned
  <1>8. NoneSent
    BY <1>1, <1>5, QuietSends
  <1> QED BY <1>1, <1>4, <1>5, <1>6, <1>7, <1>8, LocalTrain

LEMMA EndTrain ==
  ASSUME Known, Known', TrainInv, NEW p \in Proc, Leave(p) \/ Raise(p)
  PROVE  TrainInv'
  <1>1. /\ run' = [run EXCEPT ![p] = Idle] /\ UNCHANGED <<issued, remoteVars>>
        /\ \/ ClearAndSplit(p, run[p].tok)
           \/ ReleaseLease(p, run[p].tok) /\ UNCHANGED job
    BY DEF Leave, Raise, storeVars
  <1>2. run'[p] = Idle /\ \A q \in Proc \ {p} : run'[q] = run[q]
    BY <1>1 DEF Known, Inv, TypeOK, RunnerTypeOK
  <1>3. AllFade /\ Together /\ LeaseShrinks
    BY <1>1, ClearFades, SameRowsFade, ReleasedLease DEF Known, Inv
  <1>4. HasNoRows(p) /\ run'[p].pc # "pulsed"
    BY <1>2, IdleHasNone
  <1>5. NoneSent
    BY <1>1, <1>2, <1>4, QuietSends
  <1> QED BY <1>1, <1>2, <1>3, <1>4, <1>5, LocalTrain

LEMMA RefusedTrain ==
  ASSUME Known, Known', TrainInv, NEW p \in Proc, ClearRejectedPush(p)
  PROVE  TrainInv'
  <1>1. Goto(p, "refused") /\ UNCHANGED <<issued, leaseVars, remoteVars>>
    BY DEF ClearRejectedPush
  <1>2. AllFade /\ Together
    BY ClearMarkersFades
  <1>3. LeaseShrinks
    BY <1>1, QuietLease DEF leaseVars
  <1>4. GoesOn(p)
    BY <1>1, <1>3, GotoGoesOn DEF Known, Validating, Early
  <1>5. run'[p].pc = "refused" /\ \A q \in Proc \ {p} : run'[q] = run[q]
    BY <1>1, GotoFields DEF Known, Inv
  <1>6. NoneSent
    BY <1>1, <1>5, QuietSends
  <1> QED BY <1>1, <1>2, <1>3, <1>4, <1>5, <1>6, LocalTrain

(* Who has no lease has no rows, so others may do with the rows what they  *)
(* like.                                                                   *)
LEMMA NoLeaseOK ==
  ASSUME Known', TrainInv, NEW q \in Proc, run'[q] = run[q], ~HasLease(q)'
  PROVE  TrainOK(q)'
  <1>1. TrainOK(q)
    BY DEF TrainInv
  <1>2. \A j \in Job : ~OwnedBy(q, j)'
    BY DEF Known, RecordInv, ProcOK, OwnerHolds
  <1>3. run'[q].batch \subseteq Job
    BY DEF Known, Inv, TypeOK, RunnerTypeOK, Run
  <1>4. Mine(q)' = {}
    BY <1>2, <1>3 DEF Mine, OwnedBy
  <1> QED BY <1>1, <1>2, <1>4
      DEF TrainOK, ValidatesAlone, OnlyValidates, OutOfTrains, WholeClaim, Pushes

(* The one write that puts a row into a train.                             *)
LEMMA ValidatedTrain ==
  ASSUME Known, Known', TrainInv, NEW p \in Proc, NEW j \in Job, OwnedBy(p, j),
         run[p].pc = "finishing", run[p].plan[j] = "validated",
         FinishAs(job[j], "validated") = "validated", FinishRow(p, j, "validated"),
         NEW stops, Written(p, j, stops), UNCHANGED <<issued, leaseVars, remoteVars>>
  PROVE  TrainInv'
  <1> DEFINE tok == run[p].tok
  <1>1. /\ ~Pushes(p) /\ HasLease(p) /\ tok # 0 /\ tok \in Nat /\ tok <= issued /\ issued \in Nat
        /\ job[j].status = "in_progress" /\ job[j].marker = 0 /\ job[j] \in Row
    <2>1. TrainOK(p) /\ ProcOK(p) /\ tok <= issued
      BY DEF TrainInv, Known, RecordInv, Tokens
    <2>2. job[j].marker = 0
      BY <2>1 DEF ProcOK, MarkersOK, FinishOK
    <2> QED BY <2>1, <2>2
        DEF TrainOK, OnlyValidates, ProcOK, OwnerHolds, HasLease, Holds, OwnedBy, Owned,
            Known, Inv, TypeOK, StoreTypeOK, RunnerTypeOK, Run
  <1>2. /\ job'[j].status = "validated" /\ job'[j].train = tok /\ job'[j].marker = 0
        /\ \A i \in Job \ {j} : job'[i] = job[i]
    <2> DEFINE new == MarkedValidated(job[j], tok, Cardinality(run[p].batch))
    <2>1. job' = [job EXCEPT ![j] = new]
      BY DEF FinishRow
    <2>2. new.status = "validated" /\ new.train = tok /\ new.marker = 0
      BY <1>1 DEF MarkedValidated, Marked, Row
    <2> HIDE DEF new
    <2> QED BY <2>1, <2>2 DEF Known, Inv, TypeOK, StoreTypeOK
  <1>3. /\ run'[p].pc = "finishing" /\ run'[p].tok = tok /\ run'[p].mode = run[p].mode
        /\ \A q \in Proc \ {p} : run'[q] = run[q]
    BY WrittenFields DEF Known, Inv
  <1>4. /\ ReadyTrains(job) \subseteq {tok}
        /\ \A i \in Job : job[i].train = tok => job[i].status \in {"validated", "canceled"}
    BY <1>1 DEF TrainInv, TrainOK, ValidatesAlone, Validating
  <1>5. Numbered'
    BY <1>1, <1>2 DEF TrainInv, Numbered
  <1>6. ReadyTrains(job)' \subseteq {tok}
    <2> SUFFICES ASSUME NEW t \in ReadyTrains(job)', t # tok PROVE t \in ReadyTrains(job)
      BY <1>4
    <2>1. Members(job', t) = Members(job, t)
      BY <1>1, <1>2 DEF Members, InStatus
    <2>2. \A i \in Members(job', t) : i \in Job \ {j} /\ job'[i] = job[i]
      BY <1>2 DEF Members, InStatus
    <2>3. t # 0 /\ Members(job', t) # {}
          /\ \A i \in Members(job', t) : job'[i].size = Cardinality(Members(job', t))
      BY DEF ReadyTrains, Complete
    <2>4. Complete(job, t)
      BY <2>1, <2>2, <2>3 DEF Complete
    <2>5. PICK i \in Job : job[i].status = "validated" /\ job[i].train = t
      BY <2>1, <2>3 DEF Members, InStatus
    <2> QED BY <2>4, <2>5 DEF ReadyTrains, InStatus
  <1>7. \A i \in Job : job'[i].train = tok => job'[i].status \in {"validated", "canceled"}
    BY <1>2, <1>4
  <1>8. TrainWaits'
    <2> SUFFICES ASSUME NEW a \in Job, job'[a].status = "validated", NEW b \in Job,
                        job'[a].train # 0, job'[b].train = job'[a].train
                 PROVE  Untouched(b)' /\ job'[b].status # "in_progress"
      BY DEF TrainWaits, InStatus
    <2>1. CASE job'[b].train = tok
      <3>1. job'[b].status \in {"validated", "canceled"}
        BY <1>7, <2>1
      <3> QED BY <3>1 DEF Untouched, Known, RecordInv, RowsClean, RowClean
    <2>2. CASE job'[b].train # tok
      <3>1. job'[a] = job[a] /\ job'[b] = job[b]
        BY <1>2, <2>2
      <3> QED BY <3>1 DEF TrainInv, TrainWaits, InStatus, Untouched
    <2> QED BY <2>1, <2>2
  <1>9. TrainOK(p)'
    <2>1. \A i \in Job : OwnedBy(p, i)' => OwnedBy(p, i)
      BY <1>2, <1>3 DEF OwnedBy, Owned
    <2>2. \A i \in Job : OwnedBy(p, i)' => job'[i] = job[i]
      BY <1>2 DEF OwnedBy, Owned
    <2>3. run[p].mode = "validate" /\ TrainOK(p)
      BY <1>1 DEF Pushes, TrainInv
    <2> QED BY <1>3, <1>6, <1>7, <2>1, <2>2, <2>3
        DEF TrainOK, ValidatesAlone, OnlyValidates, OutOfTrains, WholeClaim, Pushes
  <1>10. ASSUME NEW q \in Proc \ {p} PROVE TrainOK(q)'
    BY <1>1, <1>3, NoLeaseOK DEF HasLease, Holds, leaseVars
  <1>11. ASSUME NEW s \in Sha, Still(s)' PROVE WholeTrain(s)'
    <2>1. Still(s) /\ commit'[s] = commit[s]
      BY <1>3, <1>11, QuietSends DEF NoneSent
    <2>2. WholeTrain(s) /\ j \notin commit[s].jobs /\ commit[s].jobs \subseteq Job
      BY <1>1, <2>1, NoSha
      DEF TrainInv, Known, RecordInv, OnRecord, Inv, TypeOK, RemoteTypeOK
    <2>3. \A t : Sent(t)' = Sent(t)
      BY <1>1, <1>2 DEF Sent, Untouched
    <2>4. \A i \in commit[s].jobs : job'[i] = job[i]
      BY <1>2, <2>2
    <2> QED BY <2>1, <2>2, <2>3, <2>4 DEF WholeTrain
  <1>12. SingleReady'
    BY <1>6 DEF SingleReady
  <1> QED BY <1>5, <1>8, <1>9, <1>10, <1>11, <1>12 DEF TrainInv

LEMMA FinishTrain ==
  ASSUME Known, Known', TrainInv, NEW p \in Proc, Finish(p)
  PROVE  TrainInv'
  <1>1. PICK j \in ToWrite(p), stops \in BOOLEAN :
          /\ IF Owned(job[j], run[p].tok) THEN FinishRow(p, j, run[p].plan[j])
                                          ELSE UNCHANGED job
          /\ Written(p, j, stops)
    BY FinishWrites DEF Known, Inv
  <1>2. /\ run[p].pc = "finishing" /\ j \in Job /\ run[p].plan[j] \in Status \ {"in_progress"}
        /\ UNCHANGED <<issued, leaseVars, remoteVars>>
    BY DEF Finish, At, ToWrite, Planned, Known, Inv, TypeOK, RunnerTypeOK, Run
  <1>3. /\ run'[p].pc = "finishing" /\ run'[p].tok = run[p].tok /\ run'[p].mode = run[p].mode
        /\ run'[p].batch = run[p].batch /\ run'[p].rest = run[p].rest
        /\ \A i \in Job : run'[p].plan[i] \in {"none", run[p].plan[i]}
        /\ \A q \in Proc \ {p} : run'[q] = run[q]
    BY <1>1, <1>2, WrittenFields DEF Known, Inv
  <1>4. CASE OwnedBy(p, j) /\ FinishAs(job[j], run[p].plan[j]) = "validated"
    <2>1. run[p].plan[j] = "validated"
      BY <1>4 DEF FinishAs
    <2> QED BY <1>1, <1>2, <1>4, <2>1, ValidatedTrain DEF OwnedBy
  <1>5. CASE ~(OwnedBy(p, j) /\ FinishAs(job[j], run[p].plan[j]) = "validated")
    <2>1. AllFade /\ Together
      <3>1. CASE OwnedBy(p, j)
        <4>1. FinishOK(run[p].plan[j], job[j].marker)
          BY <1>2, <3>1 DEF Known, RecordInv, ProcOK, MarkersOK
        <4> QED BY <1>1, <1>2, <1>5, <3>1, <4>1, FinishFades DEF OwnedBy
      <3>2. CASE ~OwnedBy(p, j)
        BY <1>1, <3>2, SameRowsFade DEF OwnedBy
      <3> QED BY <3>1, <3>2
    <2>2. LeaseShrinks
      BY <1>2, QuietLease DEF leaseVars
    <2>3. GoesOn(p)
      BY <1>2, <1>3, <2>2, KeptLease DEF GoesOn, Early
    <2>4. NoneSent
      BY <1>2, <1>3, QuietSends
    <2> QED BY <1>2, <1>3, <2>1, <2>2, <2>3, <2>4, LocalTrain
  <1> QED BY <1>4, <1>5

-----------------------------------------------------------------------------
(* The push of a run.                                                      *)

LEMMA MarkedTrain ==
  ASSUME Known, Known', TrainInv, NEW p \in Proc, RecordPendingPush(p)
  PROVE  TrainInv'
  <1>1. /\ run[p].pc = "gated" /\ Pushes(p) /\ Mine(p) = run[p].batch /\ Goto(p, "marked")
        /\ job' = [j \in Job |-> IF j \in run[p].batch THEN [job[j] EXCEPT !.marker = run[p].sha]
                                 ELSE job[j]]
        /\ UNCHANGED <<issued, leaseVars, remoteVars>> /\ run[p].batch \subseteq Job
    BY DEF RecordPendingPush, At, Pushes, Known, Inv, TypeOK, RunnerTypeOK, Run
  <1>2. /\ run'[p].pc = "marked" /\ run'[p].tok = run[p].tok /\ run'[p].mode = run[p].mode
        /\ run'[p].batch = run[p].batch /\ run'[p].rest = run[p].rest
        /\ \A q \in Proc \ {p} : run'[q] = run[q]
    BY <1>1, GotoFields DEF Known, Inv
  <1>3. \A j \in Job :
          /\ job'[j].status = job[j].status /\ job'[j].token = job[j].token
          /\ job'[j].train = job[j].train /\ job'[j].size = job[j].size
          /\ j \notin run[p].batch => job'[j] = job[j]
    BY <1>1 DEF Known, Inv, TypeOK, StoreTypeOK, Row
  <1>4. /\ HasLease(p) /\ TrainOK(p)
        /\ \A j \in run[p].batch : OwnedBy(p, j) /\ job[j].status = "in_progress"
                                   /\ job[j].marker = 0
    <2>1. ProcOK(p) /\ run[p].batch # {}
      BY <1>1 DEF Known, RecordInv, ProcOK, FrameOK
    <2>2. \A j \in run[p].batch : OwnedBy(p, j) /\ j \in Job
      BY <1>1 DEF Mine, OwnedBy
    <2> QED BY <1>1, <2>1, <2>2 DEF ProcOK, OwnerHolds, MarkersOK, OwnedBy, Owned, TrainInv
  <1>5. Numbered'
    BY <1>1, <1>3 DEF TrainInv, Numbered
  <1>6. SingleReady'
    <2>1. \A t : Members(job', t) = Members(job, t)
      BY <1>3 DEF Members, InStatus
    <2> QED BY <1>3, <2>1, ReadyLess DEF TrainInv, SingleReady
  <1>7. TrainWaits'
    <2> SUFFICES ASSUME NEW a \in Job, job'[a].status = "validated", NEW b \in Job,
                        job'[a].train # 0, job'[b].train = job'[a].train
                 PROVE  Untouched(b)' /\ job'[b].status # "in_progress"
      BY DEF TrainWaits, InStatus
    <2>1. Untouched(b) /\ job[b].status # "in_progress"
      BY <1>3 DEF TrainInv, TrainWaits, InStatus
    <2> QED BY <1>3, <1>4, <2>1 DEF Untouched
  <1>8. TrainOK(p)'
    <2>1. \A j \in Job : OwnedBy(p, j)' => OwnedBy(p, j)
      BY <1>2, <1>3 DEF OwnedBy, Owned
    <2>2. OutOfTrains(p)' /\ ValidatesAlone(p)' /\ OnlyValidates(p)'
      BY <1>1, <1>2, <1>3, <1>4, <2>1
      DEF TrainOK, OutOfTrains, ValidatesAlone, OnlyValidates, Pushes
    <2>3. WholeClaim(p)'
      <3> SUFFICES ASSUME run[p].mode = "train", NEW j \in Mine(p)'
                   PROVE  /\ job'[j].train # 0 /\ job'[j].size = Cardinality(run[p].batch)
                          /\ \A i \in Mine(p)' : job'[i].train = job'[j].train
                          /\ \A i \in Job \ run[p].batch :
                               job'[i].train = job'[j].train => Untouched(i)'
        BY <1>2 DEF WholeClaim
      <3>1. Mine(p)' \subseteq Mine(p)
        BY <1>1, <1>2, <1>3 DEF Mine, Owned
      <3>2. /\ job[j].train # 0 /\ job[j].size = Cardinality(run[p].batch)
            /\ \A i \in Mine(p) : job[i].train = job[j].train
            /\ \A i \in Job \ run[p].batch : job[i].train = job[j].train => Untouched(i)
        BY <1>1, <1>4, <3>1 DEF TrainOK, WholeClaim, Early
      <3>3. \A i \in Mine(p) : i \in Job /\ job'[i].train = job[i].train /\ job'[i].size = job[i].size
        BY <1>1, <1>3 DEF Mine
      <3>4. \A i \in Job \ run[p].batch : job'[i] = job[i]
        BY <1>3
      <3>5. \A i \in Mine(p)' : i \in Mine(p) /\ job'[i].train = job[i].train
        BY <3>1, <3>3
      <3> QED BY <3>1, <3>2, <3>3, <3>4, <3>5 DEF Untouched
    <2> QED BY <2>2, <2>3 DEF TrainOK
  <1>9. ASSUME NEW q \in Proc \ {p} PROVE TrainOK(q)'
    BY <1>1, <1>2, <1>4, NoLeaseOK DEF HasLease, Holds, leaseVars
  <1>10. ASSUME NEW s \in Sha, Still(s)' PROVE WholeTrain(s)'
    <2>1. Still(s) /\ commit'[s] = commit[s]
      BY <1>1, <1>2, <1>10, QuietSends DEF NoneSent
    <2>2. WholeTrain(s) /\ commit[s].jobs \subseteq Job \ run[p].batch
      BY <1>4, <2>1, NoSha
      DEF TrainInv, Known, RecordInv, OnRecord, Inv, TypeOK, RemoteTypeOK
    <2>3. ASSUME NEW k \in commit[s].jobs, job[k].train # 0, NEW i \in run[p].batch
          PROVE  job[i].train # job[k].train
      <3>1. ~Untouched(k) /\ k \in Job \ run[p].batch
        BY <2>1, <2>2, NoSha DEF Known, RecordInv, OnRecord, Untouched
      <3>2. CASE run[p].mode = "train"
        <4>1. i \in Mine(p)
          BY <1>1
        <4> QED BY <1>1, <1>4, <3>1, <3>2, <4>1 DEF TrainOK, WholeClaim, Early
      <3>3. CASE run[p].mode # "train"
        BY <1>1, <1>4, <2>3, <3>3 DEF TrainOK, OutOfTrains
      <3> QED BY <3>2, <3>3
    <2>4. ASSUME NEW k \in commit[s].jobs, job'[k].train # 0
          PROVE  Sent(job[k].train)' = Sent(job[k].train) /\ job'[k] = job[k]
      <3>1. k \in Job /\ job'[k] = job[k]
        BY <1>3, <2>2
      <3>2. \A i \in Job : job[i].train = job[k].train => job'[i] = job[i]
        BY <1>3, <2>3, <2>4, <3>1
      <3>3. \A i \in Job : job'[i].train = job[i].train
        BY <1>3
      <3> QED BY <3>1, <3>2, <3>3 DEF Sent, Untouched
    <2> QED BY <2>1, <2>2, <2>4 DEF WholeTrain
  <1> QED BY <1>5, <1>6, <1>7, <1>8, <1>9, <1>10 DEF TrainInv

LEMMA PulseTrain ==
  ASSUME Known, Known', TrainInv, NEW p \in Proc, PulseBeforePush(p)
  PROVE  TrainInv'
  <1>1. /\ run[p].pc = "locked" /\ HasLease(p) /\ Goto(p, "pulsed")
        /\ lock' = [lock EXCEPT !.expired = FALSE]
        /\ UNCHANGED <<job, issued, life, remoteVars>>
    BY DEF PulseBeforePush, At, RenewLease, storeVars
  <1>2. run'[p].pc = "pulsed" /\ run'[p].sha = run[p].sha /\ \A q \in Proc \ {p} : run'[q] = run[q]
    BY <1>1, GotoFields DEF Known, Inv
  <1>3. LeaseShrinks
    BY <1>1 DEF LeaseShrinks, Known, Inv, TypeOK, LeaseTypeOK
  <1>4. AllFade /\ Together
    BY <1>1, SameRowsFade
  <1>5. \A q \in Proc : TrainOK(q)'
    <2>1. GoesOn(p)
      BY <1>1, <1>3, GotoGoesOn DEF Known, Validating, Early
    <2> QED BY <1>2, <1>3, <1>4, <2>1, LostRuns, GoesOnOK
  <1>6. \A s \in Sha : WholeTrain(s) => WholeTrain(s)'
    BY <1>1 DEF WholeTrain, Sent, Untouched, remoteVars
  <1>7. WholeTrain(run[p].sha)
    <2>1. /\ commit[run[p].sha].jobs = run[p].batch /\ TrainOK(p) /\ run[p].sha # 0
          /\ \A j \in run[p].batch : OwnedBy(p, j) /\ job[j].marker = run[p].sha
          /\ run[p].batch \subseteq Job
      BY <1>1 DEF Known, RecordInv, ProcOK, FrameOK, LeaseOK, MarkersOK, Carrying, TrainInv,
                  Inv, TypeOK, RunnerTypeOK, Run
    <2> SUFFICES ASSUME NEW j \in run[p].batch, job[j].train # 0
                 PROVE  Sent(job[j].train) = run[p].batch
                        /\ job[j].size = Cardinality(run[p].batch)
      BY <2>1 DEF WholeTrain
    <2>2. run[p].mode = "train" /\ Mine(p) = run[p].batch
      BY <2>1 DEF TrainOK, OutOfTrains, Mine, OwnedBy
    <2>3. /\ job[j].size = Cardinality(run[p].batch)
          /\ \A i \in run[p].batch : job[i].train = job[j].train
          /\ \A i \in Job \ run[p].batch : job[i].train = job[j].train => Untouched(i)
      BY <1>1, <2>1, <2>2 DEF TrainOK, WholeClaim, Early
    <2>4. \A i \in run[p].batch : ~Untouched(i)
      BY <2>1 DEF Untouched
    <2>5. \A i \in Job : i \in Sent(job[j].train) <=> i \in run[p].batch
      BY <2>1, <2>3, <2>4 DEF Sent
    <2>6. Sent(job[j].train) \subseteq Job
      BY DEF Sent
    <2> QED BY <2>1, <2>3, <2>5, <2>6
  <1>8. \A s \in Sha : Still(s)' => Still(s) \/ s = run[p].sha
    BY <1>1, <1>2 DEF Still, Flight, Pulsed, remoteVars
  <1>9. Numbered' /\ SingleReady' /\ TrainWaits'
    BY <1>1 DEF TrainInv, Numbered, SingleReady, ReadyTrains, Complete, Members, InStatus,
                TrainWaits, Untouched
  <1> QED BY <1>5, <1>6, <1>7, <1>8, <1>9 DEF TrainInv

-----------------------------------------------------------------------------
(* The claims.                                                             *)

(* Which rows a claim takes: queued ones, which are in no train, beside no *)
(* Ready train when it validates; or one whole train.                      *)
TakesOpen(mode, rows, picked) ==
  /\ mode # "train" => \A j \in picked : rows[j].status = "queued"
  /\ mode = "validate" => ReadyTrains(rows) = {}
  /\ mode = "train" => \E t : Complete(rows, t) /\ picked = Members(rows, t)

LEMMA BeginTrain ==
  ASSUME Known, Known', TrainInv, NEW p \in Proc, NEW mode \in Mode, NEW rows \in [Job -> Row],
         ~AnyClaimed(rows), NEW picked \in SUBSET Job, TakesOpen(mode, rows, picked),
         \A j \in Job : /\ Fades(job[j], rows[j])
                        /\ job[j].status = "validated" => rows[j] = job[j],
         Begin(p, mode, rows, picked)
  PROVE  TrainInv'
  <1>1. /\ job' = [j \in Job |-> IF j \in picked THEN Claimed(rows[j], NextToken) ELSE rows[j]]
        /\ TakeLease(p) /\ UNCHANGED <<life, remoteVars>>
    BY DEF Begin
  <1>2. /\ run'[p].pc = "assembling" /\ run'[p].tok = NextToken /\ run'[p].mode = mode
        /\ run'[p].batch = picked /\ run'[p].rest = {}
        /\ \A q \in Proc \ {p} : run'[q] = run[q]
    BY DEF Begin, Idle, Known, Inv, TypeOK, RunnerTypeOK
  <1>3. issued \in Nat /\ NextToken = issued + 1 /\ issued' = issued + 1 /\ lock'.owner = p
    BY <1>1 DEF TakeLease, LeaseOf, NextToken, Known, Inv, TypeOK, StoreTypeOK
  <1>4. \A j \in picked : /\ rows[j].status \in {"queued", "validated"}
                          /\ mode # "train" => rows[j].status = "queued"
    BY DEF TakesOpen, Members, InStatus, Mode
  <1>5. \A j \in Job : rows[j].status = "queued" => rows[j].train = 0
    BY DEF TrainInv, Numbered, Fades, Loosens
  <1>6. ASSUME NEW j \in picked
        PROVE  /\ job'[j].status = "in_progress" /\ job'[j].token = NextToken
               /\ job'[j].train = rows[j].train /\ job'[j].size = rows[j].size
               /\ job'[j].marker = 0 /\ rows[j].marker = 0
    <2>1. rows[j] \in Row /\ job'[j] = Claimed(rows[j], NextToken)
      BY <1>1
    <2>2. rows[j].marker = 0
      BY <1>4 DEF Known, RecordInv, RowsClean, RowClean, Fades, Loosens
    <2> QED BY <2>1, <2>2 DEF Claimed, Row
  <1>7. \A j \in Job \ picked : job'[j] = rows[j] /\ job'[j].status # "in_progress"
    BY <1>1 DEF AnyClaimed, InStatus
  <1>8. AllLoosen
    <2> SUFFICES ASSUME NEW j \in Job PROVE Loosens(job[j], job'[j])
      BY DEF AllLoosen
    <2>1. CASE j \notin picked
      BY <1>7, <2>1 DEF Fades
    <2>2. CASE j \in picked
      BY <1>6, <2>2 DEF Fades, Loosens
    <2> QED BY <2>1, <2>2
  <1>9. Numbered'
    <2> SUFFICES ASSUME NEW j \in Job
                 PROVE  job'[j].train <= issued' /\ (job'[j].status = "queued" => job'[j].train = 0)
      BY DEF Numbered
    <2>1. job[j].train <= issued /\ job[j].train \in Nat
      BY DEF TrainInv, Numbered, Known, Inv, TypeOK, StoreTypeOK, Row
    <2>2. job'[j].train \in {0, job[j].train}
      BY <1>8 DEF AllLoosen, Loosens
    <2>3. job'[j].status = "queued" => job'[j].train = 0
      BY <1>5, <1>6, <1>7
    <2> QED BY <1>3, <2>1, <2>2, <2>3
  <1>10. \A j \in Job : job'[j].status = "validated" =>
           /\ j \notin picked /\ job'[j] = rows[j] /\ rows[j] = job[j]
    BY <1>6, <1>7 DEF Fades
  <1>11. \A t : /\ Members(job', t) \in {Members(rows, t), {}}
                /\ Members(rows, t) = Members(job, t)
    <2>1. \A t : Members(rows, t) = Members(job, t)
      <3>1. \A j \in Job : rows[j].status = "validated" <=> job[j].status = "validated"
        BY DEF Fades
      <3> QED BY <3>1 DEF Members, InStatus
    <2>2. \A t : Members(job', t) = Members(rows, t) \ picked
      <3>1. \A j \in Job \ picked : job'[j] = rows[j]
        BY <1>7
      <3>2. \A j \in picked : job'[j].status # "validated"
        BY <1>6
      <3> QED BY <3>1, <3>2 DEF Members, InStatus
    <2>3. CASE mode # "train"
      BY <1>4, <2>1, <2>2, <2>3 DEF Members, InStatus
    <2>4. CASE mode = "train"
      <3>1. PICK t : picked = Members(rows, t)
        BY <2>4 DEF TakesOpen
      <3>2. \A u : u # t => Members(rows, u) \intersect picked = {}
        BY <3>1 DEF Members
      <3> QED BY <2>1, <2>2, <3>1, <3>2
    <2> QED BY <2>3, <2>4
  <1>12. ReadyTrains(job)' \subseteq ReadyTrains(rows) /\ ReadyTrains(job)' \subseteq ReadyTrains(job)
    <2>1. \A t : Members(job', t) \in {Members(job, t), {}}
      BY <1>11
    <2>2. ReadyTrains(job') \subseteq ReadyTrains(rows)
      BY <1>10, <1>11, ReadyLess
    <2>3. ReadyTrains(job') \subseteq ReadyTrains(job)
      BY <1>10, <2>1, ReadyLess
    <2> QED BY <2>2, <2>3 DEF ReadyTrains, Complete, Members, InStatus
  <1>13. TrainWaits'
    <2> SUFFICES ASSUME NEW a \in Job, job'[a].status = "validated", NEW b \in Job,
                        job'[a].train # 0, job'[b].train = job'[a].train
                 PROVE  Untouched(b)' /\ job'[b].status # "in_progress"
      BY DEF TrainWaits, InStatus
    <2>1. a \notin picked /\ job'[a] = rows[a] /\ rows[a] = job[a] /\ job[b].train = job[a].train
      BY <1>8, <1>10, TrainFade
    <2>2. Untouched(b)'
      BY <1>8, <2>1, UntouchedFade DEF TrainInv, TrainWaits, InStatus
    <2>3. ASSUME b \in picked PROVE FALSE
      <3>1. rows[b].train = rows[a].train /\ rows[a].train # 0
        BY <1>6, <2>1, <2>3
      <3>2. mode = "train"
        BY <1>4, <1>5, <2>3, <3>1
      <3>3. PICK t : picked = Members(rows, t)
        BY <3>2 DEF TakesOpen
      <3> QED BY <2>1, <2>3, <3>1, <3>3 DEF Members, InStatus
    <2> QED BY <1>7, <2>2, <2>3
  <1>14. TrainOK(p)'
    <2>1. ValidatesAlone(p)'
      <3> SUFFICES ASSUME mode = "validate"
                   PROVE  /\ ReadyTrains(job)' = {}
                          /\ \A i \in Job : job'[i].train # NextToken
        BY <1>2 DEF ValidatesAlone, Pushes
      <3>1. \A i \in Job : job'[i].train \in {0, job[i].train} /\ job[i].train <= issued
                           /\ job[i].train \in Nat
        BY <1>8 DEF AllLoosen, Loosens, TrainInv, Numbered, Known, Inv, TypeOK, StoreTypeOK, Row
      <3> QED BY <1>3, <1>12, <3>1 DEF TakesOpen
    <2>2. \A j \in Job : OwnedBy(p, j)' => j \in picked
      BY <1>7 DEF OwnedBy, Owned
    <2>3. OutOfTrains(p)'
      BY <1>2, <1>4, <1>5, <1>6, <2>2 DEF OutOfTrains
    <2>4. WholeClaim(p)'
      <3> SUFFICES ASSUME mode = "train", NEW j \in picked
                   PROVE  /\ job'[j].train # 0 /\ job'[j].size = Cardinality(picked)
                          /\ \A i \in picked : job'[i].train = job'[j].train
                          /\ \A i \in Job \ picked : job'[i].train = job'[j].train => Untouched(i)'
        BY <1>2 DEF WholeClaim, Mine
      <3>1. PICK t : Complete(rows, t) /\ picked = Members(rows, t)
        BY DEF TakesOpen
      <3>2. /\ t # 0 /\ job'[j].train = t /\ job'[j].size = Cardinality(picked)
            /\ \A i \in picked : job'[i].train = t
            /\ job[j].status = "validated" /\ job[j].train = t
        <4>1. \A i \in picked : job'[i].train = rows[i].train /\ rows[i].train = t
          BY <1>6, <3>1 DEF Members
        <4>2. t # 0 /\ rows[j].size = Cardinality(picked) /\ job'[j].size = rows[j].size
          BY <1>6, <3>1 DEF Complete
        <4>3. j \in Members(job, t)
          BY <1>11, <3>1
        <4> QED BY <4>1, <4>2, <4>3 DEF Members, InStatus
      <3>3. ASSUME NEW i \in Job \ picked, job'[i].train = t PROVE Untouched(i)'
        <4>1. job[i].train = t
          BY <1>8, <3>2, <3>3, TrainFade
        <4>2. Untouched(i)
          BY <3>2, <4>1 DEF TrainInv, TrainWaits, InStatus
        <4> QED BY <1>8, <4>2, UntouchedFade
      <3> QED BY <3>2, <3>3
    <2>5. OnlyValidates(p)'
      BY <1>2 DEF OnlyValidates
    <2> QED BY <2>1, <2>3, <2>4, <2>5 DEF TrainOK
  <1>15. ASSUME NEW q \in Proc \ {p} PROVE TrainOK(q)'
    BY <1>2, <1>3, NoLeaseOK DEF HasLease, Holds
  <1>16. ASSUME NEW s \in Sha, Still(s)' PROVE WholeTrain(s)'
    <2>1. NoneSent
      BY <1>1, <1>2, QuietSends
    <2> QED BY <1>8, <1>16, <2>1, SentFades DEF NoneSent, TrainInv
  <1>17. SingleReady'
    BY <1>12 DEF TrainInv, SingleReady
  <1> QED BY <1>9, <1>13, <1>14, <1>15, <1>16, <1>17 DEF TrainInv

LEMMA AcquiredRowsOK ==
  ASSUME Known, Takeover # "refuse"
  PROVE  /\ AcquiredRows \in [Job -> Row] /\ ~AnyClaimed(AcquiredRows)
         /\ \A j \in Job : /\ Fades(job[j], AcquiredRows[j])
                           /\ job[j].status = "validated" => AcquiredRows[j] = job[j]
  BY AcquireClears, AcquiredFades DEF Known, Inv, TypeOK, StoreTypeOK

LEMMA ApprovalRowsOK ==
  ASSUME Known, Takeover # "refuse", NEW stale
  PROVE  LET rows == ApprovalBlocked(AcquiredRows, stale)
         IN  /\ rows \in [Job -> Row] /\ ~AnyClaimed(rows)
             /\ \A j \in Job : /\ Fades(job[j], rows[j])
                               /\ job[j].status = "validated" => rows[j] = job[j]
  <1> DEFINE rows == ApprovalBlocked(AcquiredRows, stale)
  <1>1. AcquiredRows \in [Job -> Row] /\ ~AnyClaimed(AcquiredRows)
    BY AcquiredRowsOK
  <1>2. rows \in [Job -> Row] /\ ~AnyClaimed(rows)
    BY <1>1, ApprovalBlockedType
  <1>3. ASSUME NEW j \in Job
        PROVE  /\ Fades(job[j], rows[j])
               /\ job[j].status = "validated" => rows[j] = job[j]
    <2>1. /\ Fades(job[j], AcquiredRows[j])
          /\ job[j].status = "validated" => AcquiredRows[j] = job[j]
      BY AcquiredRowsOK
    <2>2. /\ Fades(AcquiredRows[j], rows[j])
          /\ AcquiredRows[j].status = "validated" => rows[j] = AcquiredRows[j]
      BY <1>1, ApprovalFades
    <2> HIDE DEF rows
    <2> QED BY <2>1, <2>2, FadeChain
  <1> QED BY <1>2, <1>3

(* A transaction on the rows by which no process gets a lease, and which   *)
(* leaves every run as it is.                                              *)
LEMMA RowsOnlyTrain ==
  ASSUME Known, Known', TrainInv, AllFade, Together, LeaseShrinks,
         UNCHANGED <<issued, run, remoteVars>>
  PROVE  TrainInv'
  <1>1. NoneSent
    BY QuietSends
  <1>2. \A q \in Proc : GoesOn(q)
    BY LostRuns
  <1> QED BY <1>1, <1>2, FadeStep

LEMMA ClaimTrainOK ==
  ASSUME Known, Known', TrainInv, NEW p \in Proc, RunnerClaim(p)
  PROVE  TrainInv'
  <1>1. CASE ClaimQueued(p)
    <2>1. /\ Takeover # "refuse"
          /\ Begin(p, "validate", AcquiredRows, ValidatePick(AcquiredRows))
          /\ ValidatePick(AcquiredRows) # {}
      BY <1>1 DEF ClaimQueued, CanAcquire, Begin
    <2>2. /\ ValidatePick(AcquiredRows) \in SUBSET Job
          /\ TakesOpen("validate", AcquiredRows, ValidatePick(AcquiredRows))
      BY <2>1 DEF TakesOpen, ValidatePick, OrderedHeadOnly, InStatus
    <2> QED BY <2>1, <2>2, AcquiredRowsOK, BeginTrain DEF Mode
  <1>2. CASE ClaimTrain(p)
    <2> DEFINE rows == AcquiredRows
    <2>1. /\ Takeover # "refuse" /\ Begin(p, "train", rows, TrainPick(rows))
          /\ TrainPick(rows) # {}
      BY <1>2 DEF ClaimTrain, CanAcquire, Begin
    <2>2. /\ rows \in [Job -> Row] /\ ~AnyClaimed(rows)
          /\ \A j \in Job : /\ Fades(job[j], rows[j])
                            /\ job[j].status = "validated" => rows[j] = job[j]
      BY <2>1, AcquiredRowsOK
    <2> HIDE DEF rows
    <2>3. ReadyTrains(rows) \subseteq ReadyTrains(job)
      <3>1. \A j \in Job : rows[j].status = "validated" => rows[j] = job[j]
        BY <2>2 DEF Fades
      <3>2. \A t : Members(rows, t) = Members(job, t)
        BY <2>2, <3>1 DEF Members, InStatus
      <3> QED BY <3>1, <3>2, ReadyLess
    <2>4. TrainPick(rows) = {j \in InStatus(rows, "validated") : rows[j].train \in ReadyTrains(rows)}
      BY <2>1 DEF TrainPick
    <2>5. PICK t \in ReadyTrains(rows) : TRUE
      BY <2>1, <2>4
    <2>6. \A u \in ReadyTrains(rows) : u = t
      BY <2>3 DEF TrainInv, SingleReady
    <2>7. TrainPick(rows) = Members(rows, t) /\ Complete(rows, t) /\ TrainPick(rows) \in SUBSET Job
      BY <2>4, <2>5, <2>6 DEF Members, ReadyTrains, InStatus
    <2>8. TakesOpen("train", rows, TrainPick(rows))
      BY <2>7 DEF TakesOpen
    <2> QED BY <2>1, <2>2, <2>7, <2>8, BeginTrain DEF Mode
  <1>3. CASE ClaimManual(p)
    <2>1. /\ Takeover # "refuse"
          /\ Begin(p, "validate", AcquiredRows, ManualPick(AcquiredRows))
          /\ ManualPick(AcquiredRows) # {}
      BY <1>3 DEF ClaimManual, CanAcquire, Begin
    <2>2. /\ ManualPick(AcquiredRows) \in SUBSET Job
          /\ TakesOpen("validate", AcquiredRows, ManualPick(AcquiredRows))
      BY <2>1 DEF TakesOpen, ManualPick, OrderedHeadOnly, InStatus, ReadyTrains
    <2> QED BY <2>1, <2>2, AcquiredRowsOK, BeginTrain DEF Mode
  <1>4. CASE ClaimAuto(p)
    <2>1. PICK stale \in StaleApprovals(AcquiredRows) :
            Begin(p, "auto", ApprovalBlocked(AcquiredRows, stale), AutoPick(AcquiredRows, stale))
      BY <1>4 DEF ClaimAuto
    <2>2. Takeover # "refuse"
      BY <1>4 DEF ClaimAuto, CanAcquire
    <2>3. /\ AutoPick(AcquiredRows, stale) \in SUBSET Job
          /\ \A j \in AutoPick(AcquiredRows, stale) :
               ApprovalBlocked(AcquiredRows, stale)[j].status = "queued"
      BY DEF AutoPick, OrderedHeadOnly, AutoQueued, InStatus, ApprovalBlocked
    <2>4. TakesOpen("auto", ApprovalBlocked(AcquiredRows, stale), AutoPick(AcquiredRows, stale))
      BY <2>3 DEF TakesOpen
    <2> QED BY <2>1, <2>2, <2>3, <2>4, ApprovalRowsOK, BeginTrain DEF Mode
  <1>5. CASE ClaimNothing(p) \/ RecoverOrphans(p) \/ BlockStale(p)
    <2>1. /\ Takeover # "refuse" /\ lock' = NoLock /\ UNCHANGED <<issued, run, remoteVars>>
          /\ job' = AcquiredRows \/ \E stale : job' = ApprovalBlocked(AcquiredRows, stale)
      BY <1>5 DEF ClaimNothing, RecoverOrphans, BlockStale, AcquireAndDrop
    <2>2. \A j \in Job : /\ Fades(job[j], job'[j])
                         /\ job[j].status = "validated" => job'[j] = job[j]
      BY <2>1, AcquiredRowsOK, ApprovalRowsOK
    <2>3. AllFade /\ Together
      BY <2>2, StayTogether DEF AllFade
    <2> QED BY <2>1, <2>3, RowsOnlyTrain DEF LeaseShrinks, NoLock
  <1>6. CASE DaemonClearsOwn(p)
    BY <1>6, ClearFades, ReleasedLease, RowsOnlyTrain DEF DaemonClearsOwn, Known, Inv
  <1> QED BY <1>1, <1>2, <1>3, <1>4, <1>5, <1>6 DEF RunnerClaim

-----------------------------------------------------------------------------
(* The reconcile, the operator, the machine and the remote.                *)

LEMMA ReconcileStartTrain ==
  ASSUME Known, Known', TrainInv, NEW p \in Proc, ReconcileStart(p)
  PROVE  TrainInv'
  <1>1. /\ Takeover # "refuse" /\ TakeLease(p) /\ job' = AcquiredRows /\ UNCHANGED remoteVars
        /\ run' = [run EXCEPT ![p] = [Idle EXCEPT !.pc = "asking", !.tok = NextToken]]
    BY DEF ReconcileStart, CanAcquire
  <1>2. /\ run'[p].pc = "asking" /\ run'[p].mode = "validate"
        /\ \A q \in Proc \ {p} : run'[q] = run[q]
    BY <1>1 DEF Idle, Known, Inv, TypeOK, RunnerTypeOK
  <1>3. AllFade /\ Together /\ ~AnyClaimed(job)'
    BY <1>1, AcquiredRowsOK, StayTogether DEF AllFade, AnyClaimed, InStatus
  <1>4. issued' = issued + 1 /\ lock'.owner = p
    BY <1>1 DEF TakeLease, LeaseOf, NextToken
  <1>5. HasNoRows(p)
    BY <1>2, <1>3 DEF HasNoRows, Working, AnyClaimed, InStatus, OwnedBy, Owned
  <1>6. \A q \in Proc \ {p} : GoesOn(q)
    BY <1>2, <1>4, SameRunGoesOn DEF HasLease, Holds
  <1>7. NoneSent
    BY <1>1, <1>2, QuietSends
  <1> QED BY <1>3, <1>4, <1>5, <1>6, <1>7, FadeStep

(* The steps of a reconcile leave the trains to the rows it writes.        *)
LEMMA ReconcileTrain ==
  ASSUME Known, Known', TrainInv, NEW p \in Proc, ReconcileStep(p) \/ Unreachable(p)
  PROVE  TrainInv'
  <1>1. /\ UNCHANGED <<issued, leaseVars, remoteVars>>
        /\ UNCHANGED job \/ Apply(p)
    BY DEF ReconcileStep, Unreachable, Ask, ProbeLock, ReadRef, ReadRemote, Apply,
           ReconcileEnds, quiet, storeVars
  <1>2. AllFade /\ Together
    BY <1>1, SameRowsFade, ApplyFades
  <1>3. LeaseShrinks
    BY <1>1, QuietLease DEF leaseVars
  <1>4. /\ run'[p].pc \in {"leaving", "probing", "reading", "applying"}
        /\ run'[p].tok = run[p].tok
        /\ run'[p].mode = run[p].mode /\ run'[p].rest = run[p].rest
        /\ \A q \in Proc \ {p} : run'[q] = run[q]
    <2>1. CASE Ask(p) \/ ProbeLock(p) \/ Unreachable(p)
      <3>1. \E pc \in {"leaving", "probing", "reading"} : Goto(p, pc)
        BY <2>1 DEF Ask, ProbeLock, Unreachable
      <3> QED BY <3>1, GotoFields DEF Known, Inv
    <2>4. CASE ReadRef(p)
      BY <2>4 DEF ReadRef, At
    <2>2. CASE ReadRemote(p) \/ ReconcileEnds(p)
      <3>1. PICK pc \in {"leaving", "applying"}, plan \in {run'[p].plan} :
              run' = [run EXCEPT ![p] = [@ EXCEPT !.pc = pc, !.plan = plan]]
        <4>1. CASE ReconcileEnds(p)
          BY <2>2, <4>1 DEF ReconcileEnds, Known, Inv, TypeOK, RunnerTypeOK, Run
        <4>2. CASE ReadRemote(p)
          <5>1. PICK unclear \in Unclear(p) :
                  run' = [run EXCEPT ![p] = [@ EXCEPT !.pc = "applying",
                                                      !.plan = [j \in Job |->
                                                                  IF j \in unclear THEN "blocked"
                                                                  ELSE IF j \in Subjects(asked[p].rows)
                                                                  THEN Verdict(asked[p], j)
                                                                  ELSE "none"]]]
            BY <4>2, Zenon DEF ReadRemote
          <5> DEFINE plan == [j \in Job |-> IF j \in unclear THEN "blocked"
                                            ELSE IF j \in Subjects(asked[p].rows)
                                            THEN Verdict(asked[p], j) ELSE "none"]
          <5>2. run' = [run EXCEPT ![p] = [run[p] EXCEPT !.pc = "applying", !.plan = plan]]
            BY <5>1, Zenon
          <5> HIDE DEF plan
          <5>3. run'[p].plan = plan
            BY <5>2 DEF Known, Inv, TypeOK, RunnerTypeOK, Run
          <5> QED BY <5>2, <5>3
        <4> QED BY <2>2, <4>1, <4>2
      <3> QED BY <3>1 DEF Known, Inv, TypeOK, RunnerTypeOK, Run
    <2>3. CASE Apply(p)
      <3>1. PICK j \in ToWrite(p) : run' = [run EXCEPT ![p].plan[j] = "none"]
        BY <2>3 DEF Apply
      <3>2. TypeOK /\ j \in Job /\ run[p].pc = "applying"
        BY <2>3 DEF ToWrite, Apply, At, Known, Inv
      <3>3. Written(p, j, run[p].stops)
        BY <3>1, <3>2, PlainWrite
      <3> QED BY <3>2, <3>3, WrittenFields
    <2> QED BY <2>1, <2>2, <2>3, <2>4 DEF ReconcileStep
  <1>5. GoesOn(p)
    BY <1>3, <1>4, KeptLease DEF GoesOn, Validating, Early
  <1>6. NoneSent
    BY <1>1, <1>4, QuietSends
  <1> QED BY <1>1, <1>2, <1>3, <1>4, <1>5, <1>6, LocalTrain

LEMMA OperatorTrain ==
  ASSUME Known, Known', TrainInv, OperatorNext
  PROVE  TrainInv'
  <1>1. ASSUME NEW j \in Job, CancelJob(j) \/ DismissJob(j) \/ RetryJob(j) PROVE TrainInv'
    <2>1. UNCHANGED <<issued, leaseVars, remoteVars, processVars>>
      BY <1>1 DEF CancelJob, DismissJob, RetryJob
    <2>2. AllFade /\ Together
      BY <1>1, OperatorFades
    <2> QED BY <2>1, <2>2, QuietLease, RowsOnlyTrain DEF leaseVars, processVars
  <1>2. CASE (UnlockDead \/ UnlockForced) /\ UNCHANGED <<remoteVars, processVars>>
    <2>1. ClearAndSplit(lock.owner, lock.token) /\ UNCHANGED issued
      BY <1>2 DEF UnlockDead, UnlockForced
    <2>2. AllFade /\ Together /\ LeaseShrinks
      BY <2>1, ClearFades, ReleasedLease DEF Known, Inv
    <2> QED BY <1>2, <2>1, <2>2, RowsOnlyTrain DEF processVars
  <1>3. CASE UnlockWatch /\ UNCHANGED <<remoteVars, processVars>>
    BY <1>3, SameRowsFade, QuietLease, RowsOnlyTrain DEF UnlockWatch, processVars
  <1> QED BY <1>1, <1>2, <1>3 DEF OperatorNext

LEMMA MachineTrain ==
  ASSUME Known, Known', TrainInv, MachineNext
  PROVE  TrainInv'
  <1>1. CASE Expire
    <2>1. LeaseShrinks
      BY <1>1 DEF Expire, LeaseShrinks, Known, Inv, TypeOK, LeaseTypeOK
    <2> QED BY <1>1, <2>1, SameRowsFade, RowsOnlyTrain DEF Expire, storeVars, processVars
  <1>2. ASSUME NEW p \in Proc, Crash(p) PROVE TrainInv'
    <2>1. /\ UNCHANGED <<job, issued, lock, remoteVars>>
          /\ run'[p] = Idle /\ \A q \in Proc \ {p} : run'[q] = run[q]
      BY <1>2 DEF Crash, storeVars, Known, Inv, TypeOK, RunnerTypeOK
    <2>2. HasNoRows(p) /\ run'[p].pc # "pulsed"
      BY <2>1, IdleHasNone
    <2>3. NoneSent
      BY <2>1, <2>2, QuietSends
    <2> QED BY <2>1, <2>2, <2>3, SameRowsFade, QuietLease, LocalTrain
  <1>3. ASSUME NEW p \in Proc, ReusePid(p) \/ Respawn(p) PROVE TrainInv'
    BY <1>3, SameRowsFade, QuietLease, RowsOnlyTrain DEF ReusePid, Respawn, storeVars, processVars
  <1> QED BY <1>1, <1>2, <1>3 DEF MachineNext

LEMMA RemoteTrain ==
  ASSUME Known, Known', TrainInv, Recoverable, RemoteNext,
         UNCHANGED <<storeVars, leaseVars, processVars>>
  PROVE  TrainInv'
  <1>1. NoneSent
    BY RemoteCalm, CalmSends DEF Known
  <1>2. UNCHANGED <<job, issued, lock, run>>
    BY DEF storeVars, leaseVars, processVars
  <1>3. \A q \in Proc : GoesOn(q)
    BY <1>2, QuietLease, LostRuns
  <1> QED BY <1>1, <1>2, <1>3, SameRowsFade, FadeStep

-----------------------------------------------------------------------------
(* The theorem.                                                            *)

LEMMA RunnerTrain ==
  ASSUME Known, Known', TrainInv, Recoverable, NEW p \in Proc, RunnerNext(p)
  PROVE  TrainInv'
  <1>1. CASE RunnerClaim(p)
    BY <1>1, ClaimTrainOK
  <1>2. CASE Heartbeat(p)
    BY <1>2, HeartbeatTrain
  <1>3. CASE RunnerStep(p)
    BY <1>3, AssembleTrain, PlansTrain, IsolateTrain, GotosTrain, MarkedTrain, HoldsTrain,
       PulseTrain, StartTrain, RefusedTrain, FinishTrain, DoneTrain, EndTrain DEF RunnerStep
  <1>4. CASE RunnerFailure(p)
    BY <1>4, RejectTrain, PlansTrain, GotosTrain DEF RunnerFailure
  <1> QED BY <1>1, <1>2, <1>3, <1>4 DEF RunnerNext

LEMMA NextTrain ==
  ASSUME Known, Known', TrainInv, Recoverable, [Next]_vars
  PROVE  TrainInv'
  <1>1. CASE UNCHANGED vars
    BY <1>1, SameRowsFade, QuietLease, RowsOnlyTrain DEF vars, storeVars, leaseVars
  <1>2. ASSUME NEW p \in Proc, ReconcileNext(p) PROVE TrainInv'
    BY <1>2, ReconcileStartTrain, ReconcileTrain DEF ReconcileNext
  <1> QED BY <1>1, <1>2, RunnerTrain, OperatorTrain, MachineTrain, RemoteTrain
          DEF Next, ProcessNext

LEMMA InitTrain == Init => TrainInv
  <1> SUFFICES ASSUME Init PROVE TrainInv
    OBVIOUS
  <1>1. \A j \in Job : job[j].status = "queued" /\ job[j].train = 0
    BY DEF Init, StoreInit, FreshRow
  <1>2. \A p \in Proc : run[p] = Idle
    BY DEF Init, RunnerInit
  <1>3. issued = 0 /\ \A s \in Sha : ~Still(s)
    BY <1>2 DEF Init, StoreInit, RemoteInit, Still, Flight, Pulsed, Idle
  <1>4. Numbered /\ SingleReady /\ TrainWaits
    BY <1>1, <1>3 DEF Numbered, SingleReady, ReadyTrains, InStatus, TrainWaits
  <1>5. \A p \in Proc : TrainOK(p)
    BY <1>2 DEF Idle, TrainOK, ValidatesAlone, OnlyValidates, OutOfTrains, WholeClaim, OwnedBy,
                Owned, Pushes, Validating
  <1> QED BY <1>3, <1>4, <1>5 DEF TrainInv

(* Whatever an operator does to single jobs, and whatever crashes, thefts  *)
(* and lost replies come between: at most one validated train is Ready, so *)
(* mergetrain deploy never has to choose; and a train is never deployed in *)
(* part: once one of its jobs is recorded deployed, all of it is, or still *)
(* has the marker by which a reconcile will settle it (claims.py,          *)
(* claim_deploy_batch; queue.py, record_validated).                        *)
THEOREM OneWholeTrainHolds ==
  ASSUME Recoverable
  PROVE  Spec => []OneWholeTrain
  <1>1. Known /\ TrainInv => OneWholeTrain
    <2> SUFFICES ASSUME Known, TrainInv, NEW j \in Job, job[j].status = "deployed",
                        job[j].train # 0
                 PROVE  Cardinality({i \in Job : /\ job[i].train = job[j].train
                                                 /\ job[i].status = "deployed"
                                                    \/ job[i].marker # 0}) = job[j].size
      BY DEF TrainInv, OneWholeTrain, TrainWhole, InStatus
    <2>1. PICK s \in landed : j \in commit[s].jobs
      BY DEF Known, LandingInv, RowsSound, Landed
    <2>2. WholeTrain(s)
      BY DEF Known, Inv, TypeOK, RemoteTypeOK, TrainInv, Still
    <2>3. Sent(job[j].train) = commit[s].jobs /\ job[j].size = Cardinality(commit[s].jobs)
      BY <2>1, <2>2 DEF WholeTrain
    <2>4. Sent(job[j].train) = {i \in Job : /\ job[i].train = job[j].train
                                            /\ job[i].status = "deployed" \/ job[i].marker # 0}
      BY DEF Sent, Untouched
    <2> QED BY <2>3, <2>4
  <1>2. Known /\ Known' /\ TrainInv /\ [Next]_vars => TrainInv'
    BY NextTrain
  <1> QED BY <1>1, <1>2, InitTrain, KnownAlways, PTL DEF Spec
=============================================================================
