----------------------------- MODULE Reconcile -----------------------------
(***************************************************************************)
(* mergetrain reconcile --apply: under a lease of its own, ask the remote  *)
(* what became of every push whose outcome is unknown, then write one      *)
(* verdict per job.  The rows are read first, then every push lock is      *)
(* probed and every ref asked, one after another, and the rows are written *)
(* last; the lease is taken once and neither renewed nor checked again, so *)
(* each write only compares the status it read.                            *)
(***************************************************************************)
EXTENDS Runner

VARIABLE asked        \* per process: what its reconcile has learned

(* The rows it asks about; the jobs whose push lock is not probed yet; the *)
(* push refs not read yet, and what the others contained when they were.   *)
Question == [rows : [Job -> Row], locks : SUBSET Job, refs : SUBSET Ref,
             heard : [Ref -> SUBSET Sha]]

NothingHeard == [ref \in Ref |-> {}]
NotAsking == [rows |-> [j \in Job |-> FreshRow(FALSE)], locks |-> {}, refs |-> {},
              heard |-> NothingHeard]

(* Parked jobs, and the conflicts an earlier reconcile left blocked.       *)
Unresolved(r)  == r.status = "needs_reconcile" \/ IsReconcileConflict(r)
Subjects(rows) == {j \in Job : Unresolved(rows[j])}

(* Mutant: the audit ref is not asked.                                     *)
VerdictWithoutAudit(a, j) ==
  LET carrying == {ref \in Ref : a.rows[j].marker \in a.heard[ref]}
  IN  IF carrying = Ref THEN "deployed"
      ELSE IF carrying # {} THEN "blocked"
      ELSE IF a.rows[j].cancel THEN "canceled"
      ELSE "queued"

(* _classify: what the refs, as they were read, and the audit ref say of   *)
(* one job's push.                                                         *)
Verdict(a, j) ==
  LET carrying == {ref \in Ref : a.rows[j].marker \in a.heard[ref]}
  IN  IF carrying = Ref THEN "deployed"
      ELSE IF carrying # {} \/ a.rows[j].marker \in landed THEN "blocked"
      ELSE IF a.rows[j].cancel THEN "canceled"
      ELSE "queued"

ReconcileStart(p) ==
  /\ p \notin Daemon /\ At(p, "idle") /\ CanAcquire
  /\ job' = AcquiredRows
  /\ TakeLease(p)
  /\ run' = [run EXCEPT ![p] = [Idle EXCEPT !.pc = "asking", !.tok = NextToken]]
  /\ UNCHANGED <<life, asked, remoteVars>>

(* Reads the rows: there may be nothing to settle.                         *)
Ask(p) ==
  /\ At(p, "asking")
  /\ IF Subjects(job) = {}
     THEN Goto(p, "leaving") /\ UNCHANGED asked
     ELSE /\ asked' = [asked EXCEPT ![p] =
                         [rows  |-> [j \in Job |-> IF j \in Subjects(job) THEN job[j]
                                                  ELSE FreshRow(FALSE)],
                          locks |-> Subjects(job), refs |-> Ref, heard |-> NothingHeard]]
          /\ Goto(p, "probing")
  /\ UNCHANGED <<quiet, remoteVars>>

(* Mutant: the processes of the push are not looked for.                   *)
ProbeNothing(p) ==
  /\ At(p, "probing")
  /\ asked' = [asked EXCEPT ![p].locks = {}]
  /\ Goto(p, "reading")
  /\ UNCHANGED <<quiet, remoteVars>>

(* push_in_flight, job by job: while any process of one of these pushes is *)
(* left, it may yet land.                                                  *)
ProbeLock(p) ==
  /\ At(p, "probing")
  /\ \E j \in asked[p].locks :
       /\ First(asked[p].locks, j)
       /\ IF PushInFlight(asked[p].rows[j].marker)
          THEN Goto(p, "leaving") /\ asked' = [asked EXCEPT ![p] = NotAsking]
          ELSE /\ asked' = [asked EXCEPT ![p].locks = @ \ {j}]
               /\ Goto(p, IF asked[p].locks = {j} THEN "reading" ELSE "probing")
  /\ UNCHANGED <<quiet, remoteVars>>

(* One push ref of the remote, while others move them.                     *)
ReadRef(p) ==
  /\ At(p, "reading")
  /\ \E ref \in asked[p].refs :
       asked' = [asked EXCEPT ![p] = [asked[p] EXCEPT !.refs = @ \ {ref},
                                                      !.heard[ref] = onref[ref]]]
  /\ UNCHANGED <<quiet, run, remoteVars>>

(* A commit or a tip that cannot be resolved locally, or an audit ref that *)
(* is not what it should be, says nothing either way of a job.             *)
Unclear(p) ==
  IF "unclear" \in Faults THEN SUBSET Subjects(asked[p].rows) ELSE {{}}

(* The audit refs come last.                                               *)
ReadRemote(p) ==
  /\ At(p, "reading") /\ asked[p].refs = {}
  /\ \E unclear \in Unclear(p) :
       run' = [run EXCEPT ![p] = [@ EXCEPT !.pc = "applying",
                                           !.plan = [j \in Job |->
                                                       IF j \in unclear THEN "blocked"
                                                       ELSE IF j \in Subjects(asked[p].rows)
                                                       THEN Verdict(asked[p], j) ELSE "none"]]]
  /\ UNCHANGED <<quiet, asked, remoteVars>>

(* The remote cannot be reached: every job stays parked.                   *)
Unreachable(p) ==
  /\ "offline" \in Faults
  /\ At(p, "reading")
  /\ Goto(p, "leaving")
  /\ asked' = [asked EXCEPT ![p] = NotAsking]
  /\ UNCHANGED <<quiet, remoteVars>>

(* _apply: compare-and-swap on the status read; a conflict that stays      *)
(* blocked needs no write.                                                 *)
Apply(p) ==
  /\ At(p, "applying")
  /\ \E j \in ToWrite(p) :
       LET to == run[p].plan[j] from == asked[p].rows[j].status
       IN  /\ First(ToWrite(p), j)
           /\ IF job[j].status = from /\ ~(to = "blocked" /\ from = "blocked")
              THEN job' = [job EXCEPT ![j] = Marked(@, to)]
              ELSE UNCHANGED job
           /\ run' = [run EXCEPT ![p].plan[j] = "none"]
  /\ UNCHANGED <<issued, leaseVars, asked, remoteVars>>

(* The verdicts are written; or a write found the database busy, and the   *)
(* rest stay parked.                                                       *)
ReconcileEnds(p) ==
  /\ At(p, "applying")
  /\ ToWrite(p) = {} \/ "busy" \in Faults
  /\ run' = [run EXCEPT ![p] = [@ EXCEPT !.pc = "leaving", !.plan = Unplanned]]
  /\ asked' = [asked EXCEPT ![p] = NotAsking]
  /\ UNCHANGED <<quiet, remoteVars>>

ReconcileStep(p) ==
  Ask(p) \/ ProbeLock(p) \/ ReadRef(p) \/ ReadRemote(p) \/ Apply(p) \/ ReconcileEnds(p)
ReconcileNext(p) == ReconcileStart(p) \/ ReconcileStep(p) \/ Unreachable(p)

ReconcileTypeOK == asked \in [Proc -> Question]
ReconcileInit   == asked = [p \in Proc |-> NotAsking]
=============================================================================
