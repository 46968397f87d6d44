--------------------------- MODULE ApprovalProofs ---------------------------
(***************************************************************************)
(* What reaches a remote is what a human approved (ShippedAsApproved), for *)
(* any jobs, daemons, terminals, MCP clients and edits.                    *)
(*                                                                         *)
(* An approval is followed from where it is given to the push.  That of a  *)
(* row is compared in the claim (policy) and before the push (destination, *)
(* commits); a row that a runner holds, or that is deployed, keeps it.     *)
(* That of a plan is history, and the plan a process carries is compared   *)
(* with what it is about to do at the claim and again before the push.     *)
(***************************************************************************)
EXTENDS Approval, FiniteSetTheorems, TLAPS

Working == {"claimed", "merged", "gated", "pinned", "judged", "pushing"}
Pc      == {"idle", "ticking", "resolved", "preview", "shown", "answered", "again",
            "execute", "confirmed"} \cup Working
Snap    == [refs : Refs, policy : Policy]
Asks    == (SUBSET (Job \X Head)) \X Destination \X Policy

Run == [pc : Pc, snap : Snap \cup {<<>>}, dest : Destination \cup {NoDest},
        plan : Plan \cup {NoPlan}, asked : Asks \cup {<<>>},
        jobs : SUBSET Job, heads : SUBSET (Job \X Head)]

Types ==
  /\ disk \in Disk /\ tip \in [Job -> Head] /\ edits \in 0..MaxEdits
  /\ row \in [Job -> Row \cup {NoRow}]
  /\ lease \subseteq Proc /\ run \in [Proc -> Run]
  /\ \A p \in Proc : run[p].pc # "idle" => run[p].snap \in Snap

(* The one process that works holds the lease, and its jobs are what is in *)
(* progress.                                                               *)
Leased ==
  /\ \A p, q \in lease : p = q
  /\ \A p \in Proc : p \in lease <=> run[p].pc \in Working
  /\ \A p \in Proc \ lease : run[p].jobs = {}
  /\ \A j \in Job : row[j].status = "in_progress" <=> \E p \in lease : j \in run[p].jobs

(* What a human has been asked, and has agreed to.                         *)
AskedOK(r) ==
  /\ r.pc \in {"shown", "answered", "again"} => r.asked = Question(r.plan)
  /\ r.pc \in {"shown", "answered", "again", "execute", "confirmed"}
       => r.plan \in Plan /\ r.plan.train # {}
  /\ r.pc \in {"answered", "again", "execute", "confirmed"} => r.plan \in agreed

(* What a run of auto jobs has compared so far, and a run of a plan.       *)
HeadsOf(S) == {<<j, row[j].head>> : j \in S}
Resolved   == {"pinned", "judged", "pushing"}

ByAuto(r) ==
  r.plan = NoPlan =>
    \A j \in r.jobs : /\ row[j].auto /\ row[j].policy = r.snap.policy
                      /\ r.pc \in Resolved => row[j].dest = r.dest

ByPlan(r) ==
  r.plan # NoPlan =>
    /\ r.plan \in agreed /\ r.plan \in Plan /\ r.plan.policy = r.snap.policy
    /\ r.pc = "pushing" => r.plan = [train |-> r.heads, dest |-> r.dest, policy |-> r.snap.policy]

WorksOK(r) ==
  r.pc \in Working =>
    /\ r.pc # "claimed" => r.heads = HeadsOf(r.jobs)
    /\ ByAuto(r) /\ ByPlan(r)

RunOK(r) == AskedOK(r) /\ WorksOK(r)

(* What was pushed for auto jobs stands in their rows, which are final.    *)
Shipped(x, w) ==
  /\ w[1] \in Job /\ row[w[1]].status = "deployed" /\ row[w[1]].auto
  /\ row[w[1]].head = w[2] /\ row[w[1]].dest = x.dest /\ row[w[1]].policy = x.policy
PlanShipped(x) ==
  x.plan \in agreed /\ x.plan = [train |-> x.heads, dest |-> x.dest, policy |-> x.policy]

Backed(x) == IF x.plan = NoPlan THEN \A w \in x.heads : Shipped(x, w) ELSE PlanShipped(x)
ShippedOK == \A x \in pushed : Backed(x)

Inv == Types /\ Leased /\ (\A p \in Proc : RunOK(run[p])) /\ ShippedOK

-----------------------------------------------------------------------------
(* A run and what was pushed rest on their rows and on the agreed plans.   *)

SameApproval(j) ==
  /\ row'[j].auto = row[j].auto /\ row'[j].head = row[j].head
  /\ row'[j].dest = row[j].dest /\ row'[j].policy = row[j].policy

LEMMA RunStays ==
  ASSUME NEW r, RunOK(r), agreed \subseteq agreed', \A j \in r.jobs : SameApproval(j)
  PROVE  RunOK(r)'
  <1>1. HeadsOf(r.jobs)' = HeadsOf(r.jobs)
    BY DEF HeadsOf, SameApproval
  <1>2. AskedOK(r)'
    BY DEF RunOK, AskedOK, Question
  <1>3. WorksOK(r)'
    BY <1>1 DEF RunOK, WorksOK, ByAuto, ByPlan, SameApproval
  <1> QED BY <1>2, <1>3 DEF RunOK

LEMMA BackedStays ==
  ASSUME NEW x, Backed(x), agreed \subseteq agreed',
         \A j \in Job : row[j].status = "deployed" => row'[j] = row[j]
  PROVE  Backed(x)'
  <1>1. CASE x.plan = NoPlan
    <2> SUFFICES ASSUME NEW w \in x.heads PROVE Shipped(x, w)'
      BY <1>1 DEF Backed
    <2>1. Shipped(x, w)
      BY <1>1 DEF Backed
    <2> QED BY <2>1 DEF Shipped
  <1>2. CASE x.plan # NoPlan
    BY <1>2 DEF Backed, PlanShipped
  <1> QED BY <1>1, <1>2

LEMMA ShippedStays ==
  ASSUME ShippedOK, agreed \subseteq agreed', pushed' = pushed,
         \A j \in Job : row[j].status = "deployed" => row'[j] = row[j]
  PROVE  ShippedOK'
  BY BackedStays DEF ShippedOK

(* A run that neither has the lease nor takes it.                          *)
LEMMA Before ==
  ASSUME Inv, NEW p \in Proc, NEW r \in Run, run' = [run EXCEPT ![p] = r],
         run[p].pc \notin Working, r.pc \notin Working, r.jobs = {},
         r.pc # "idle" => r.snap \in Snap,
         AskedOK(r)', agreed \subseteq agreed',
         UNCHANGED <<disk, tip, row, lease, pushed, edits>>
  PROVE  Inv'
  <1>1. run'[p] = r /\ \A q \in Proc \ {p} : run'[q] = run[q]
    BY DEF Inv, Types
  <1>2. Types'
    BY <1>1 DEF Inv, Types
  <1>3. Leased'
    BY <1>1 DEF Inv, Leased
  <1>4. \A q \in Proc \ {p} : RunOK(run[q])'
    BY RunStays DEF Inv, SameApproval
  <1>5. RunOK(r)'
    BY DEF RunOK, WorksOK
  <1>6. ShippedOK'
    BY ShippedStays DEF Inv
  <1> QED BY <1>1, <1>2, <1>3, <1>4, <1>5, <1>6 DEF Inv

-----------------------------------------------------------------------------
(* Before the claim.                                                       *)

LEMMA LoadInv ==
  ASSUME Inv, NEW p \in Proc, NEW from, NEW to, Load(p, from, to),
         \/ from = "idle" /\ to \in {"ticking", "preview"}
         \/ from = "answered" /\ to = "again"
         \/ from = "execute" /\ to = "confirmed"
  PROVE  Inv'
  <1>0. PICK r : r = [run[p] EXCEPT !.pc = to, !.snap = Config]
    OBVIOUS
  <1>1. run[p] \in Run /\ Config \in Snap /\ run[p].pc = from /\ run' = [run EXCEPT ![p] = r]
    BY <1>0 DEF Load, Inv, Types, Config, Snap, Disk
  <1>2. r \in Run /\ r.pc = to /\ r.jobs = run[p].jobs /\ r.snap \in Snap
        /\ r.plan = run[p].plan /\ r.asked = run[p].asked
    BY <1>0, <1>1 DEF Run, Pc
  <1>3. run[p].pc \notin Working /\ to \notin Working
    BY <1>1 DEF Working
  <1>4. r.jobs = {}
    BY <1>2, <1>3 DEF Inv, Leased
  <1>5. AskedOK(r)'
    BY <1>1, <1>2 DEF Load, Inv, RunOK, AskedOK, Question
  <1> QED BY <1>1, <1>2, <1>3, <1>4, <1>5, Before DEF Load

LEMMA ResolvedIsDestination ==
  ASSUME disk \in Disk, NEW c \in Snap
  PROVE  Resolve(c) \in Destination
  BY DEF Resolve, Destination, Disk, Snap

LEMMA TickResolvesInv ==
  ASSUME Inv, NEW p \in Proc, TickResolves(p)
  PROVE  Inv'
  <1>0. PICK r : r = [run[p] EXCEPT !.pc = "resolved", !.dest = Resolve(run[p].snap)]
    OBVIOUS
  <1>1. run[p] \in Run /\ run[p].snap \in Snap /\ run[p].pc = "ticking"
        /\ run' = [run EXCEPT ![p] = r]
    BY <1>0 DEF TickResolves, Inv, Types
  <1>2. r \in Run /\ r.pc = "resolved" /\ r.jobs = run[p].jobs /\ r.snap \in Snap
    BY <1>0, <1>1, ResolvedIsDestination DEF Run, Pc, Inv, Types
  <1>3. run[p].pc \notin Working /\ r.pc \notin Working
    BY <1>1, <1>2 DEF Working
  <1>4. r.jobs = {}
    BY <1>2, <1>3 DEF Inv, Leased
  <1>5. AskedOK(r)'
    BY <1>2 DEF AskedOK
  <1> QED BY <1>1, <1>2, <1>3, <1>4, <1>5, Before DEF TickResolves

LEMMA IdleIsRun ==
  Idle \in Run /\ Idle.pc = "idle" /\ Idle.jobs = {} /\ AskedOK(Idle)'
  BY DEF Idle, Run, Pc, AskedOK

LEMMA GoneBefore ==
  ASSUME Inv, NEW p \in Proc, run[p].pc \notin Working, Gone(p), agreed \subseteq agreed',
         UNCHANGED <<disk, tip, row, lease, pushed, edits>>
  PROVE  Inv'
  BY IdleIsRun, Before DEF Gone, Working

(* A plan names the commits of its rows.                                   *)
LEMMA PlanIsPlan ==
  ASSUME Types, NEW jobs \in SUBSET Job, \A j \in jobs : row[j].status # "none",
         NEW dest \in Destination, NEW policy \in Policy
  PROVE  /\ PlanOf(jobs, dest, policy) \in Plan
         /\ jobs # {} => PlanOf(jobs, dest, policy).train # {}
         /\ PlanOf(jobs, dest, policy).policy = policy
         /\ Question(PlanOf(jobs, dest, policy)) \in Asks
  <1>1. \A j \in jobs : row[j] \in Row
    BY DEF Types, NoRow
  <1>2. {<<j, row[j].head>> : j \in jobs} \in SUBSET (Job \X Head)
    BY <1>1 DEF Row
  <1> QED BY <1>2 DEF PlanOf, Plan, Question, Asks

LEMMA SameQuestion ==
  ASSUME NEW a \in Plan, NEW b \in Plan, Question(a) = Question(b)
  PROVE  a = b
  BY DEF Question, Plan

LEMMA PrepareInv ==
  ASSUME Inv, NEW p \in Proc, Prepare(p)
  PROVE  Inv'
  <1> DEFINE ready == InStatus("ready")
             plan  == PlanOf(ready, Resolve(run[p].snap), run[p].snap.policy)
             same  == run[p].pc = "again" /\ Question(plan) = run[p].asked
  <1>0. PICK r : r = [run[p] EXCEPT !.pc = IF same THEN "execute" ELSE "shown",
                                    !.plan = plan, !.asked = Question(plan)]
    OBVIOUS
  <1>1. run[p] \in Run /\ run[p].pc \in {"preview", "again"} /\ run[p].snap \in Snap
    BY DEF Prepare, Inv, Types
  <1>2. run[p].pc \notin Working
    BY <1>1 DEF Working
  <1>3. CASE ready = {}
    BY <1>2, <1>3, GoneBefore DEF Prepare
  <1>4. CASE ready # {}
    <2>1. plan \in Plan /\ plan.train # {} /\ Question(plan) \in Asks
      <3>1. ready \in SUBSET Job /\ \A j \in ready : row[j].status # "none"
        BY DEF InStatus
      <3>2. Resolve(run[p].snap) \in Destination /\ run[p].snap.policy \in Policy
        BY <1>1, ResolvedIsDestination DEF Inv, Types, Snap
      <3> QED BY <1>4, <3>1, <3>2, PlanIsPlan DEF Inv
    <2>2. run' = [run EXCEPT ![p] = r]
      BY <1>0, <1>4 DEF Prepare
    <2>3. r.pc = (IF same THEN "execute" ELSE "shown") /\ r.plan = plan /\ r.asked = Question(plan)
          /\ r.jobs = run[p].jobs /\ r.snap = run[p].snap
      BY <1>0, <1>1 DEF Run
    <2>4. r \in Run
      BY <1>0, <1>1, <2>1 DEF Run, Pc
    <2>5. r.pc \notin Working /\ r.jobs = {}
      BY <1>2, <2>3 DEF Working, Inv, Leased
    <2>6. same => plan \in agreed
      BY <2>1, SameQuestion DEF Inv, RunOK, AskedOK
    <2> HIDE DEF plan
    <2>7. AskedOK(r)'
      BY <2>1, <2>3, <2>6 DEF AskedOK, Prepare, Question
    <2> QED BY <1>1, <1>2, <2>2, <2>3, <2>4, <2>5, <2>7, Before DEF Prepare
  <1> QED BY <1>3, <1>4

LEMMA AnswerInv ==
  ASSUME Inv, NEW p \in Proc, NEW yes \in BOOLEAN, Answer(p, yes)
  PROVE  Inv'
  <1>1. run[p].pc = "shown" /\ run[p].pc \notin Working /\ run[p] \in Run /\ run[p].snap \in Snap
    BY DEF Answer, Step, Working, Inv, Types
  <1>2. CASE ~yes
    BY <1>1, <1>2, GoneBefore DEF Answer
  <1>3. CASE yes
    <2>0. PICK r : r = [run[p] EXCEPT !.pc = IF p \in Mcp THEN "answered" ELSE "execute"]
      OBVIOUS
    <2>1. run' = [run EXCEPT ![p] = r] /\ agreed' = agreed \cup {run[p].plan}
      BY <2>0, <1>1, <1>3 DEF Answer, Step, Inv, Types
    <2>2. r \in Run /\ r.pc \in {"answered", "execute"} /\ r.plan = run[p].plan
          /\ r.asked = run[p].asked /\ r.jobs = run[p].jobs /\ r.snap = run[p].snap
      BY <2>0, <1>1 DEF Run, Pc
    <2>3. r.pc \notin Working /\ r.jobs = {}
      BY <1>1, <2>2 DEF Working, Inv, Leased
    <2>4. AskedOK(r)'
      BY <1>1, <2>1, <2>2 DEF Inv, RunOK, AskedOK, Question
    <2> QED BY <1>1, <2>1, <2>2, <2>3, <2>4, Before DEF Answer
  <1> QED BY <1>2, <1>3

-----------------------------------------------------------------------------
(* Around the runners: nothing that is in progress or deployed is touched. *)

LEMMA Aside ==
  ASSUME Inv, disk' \in Disk, tip' \in [Job -> Head], edits' \in 0..MaxEdits,
         row' \in [Job -> Row \cup {NoRow}],
         \A j \in Job : \/ row'[j] = row[j]
                        \/ /\ row[j].status \notin {"in_progress", "deployed"}
                           /\ row'[j].status # "in_progress",
         run' \in [Proc -> Run],
         \A q \in Proc : run'[q] = run[q] \/ (run[q].pc \notin Working /\ run'[q] = Idle),
         UNCHANGED <<lease, agreed, pushed>>
  PROVE  Inv'
  <1>1. Types'
    BY IdleIsRun DEF Inv, Types
  <1>2. Leased'
    <2>1. \A q \in Proc : /\ run'[q].pc \in Working <=> run[q].pc \in Working
                          /\ run'[q].jobs = run[q].jobs
      BY IdleIsRun DEF Inv, Leased, Working
    <2>2. \A j \in Job : row'[j].status = "in_progress" <=> row[j].status = "in_progress"
      OBVIOUS
    <2>3. lease \subseteq Proc
      BY DEF Inv, Types
    <2> QED BY <2>1, <2>2, <2>3 DEF Inv, Leased
  <1>3. ASSUME NEW q \in Proc PROVE RunOK(run[q])'
    <2>1. CASE run'[q] = Idle
      BY <2>1, IdleIsRun DEF RunOK, WorksOK, AskedOK, Working
    <2>2. CASE run'[q] = run[q]
      <3>1. \A j \in run[q].jobs : SameApproval(j)
        <4>1. run[q].jobs \subseteq Job
          BY DEF Inv, Types, Run
        <4>2. \A j \in run[q].jobs : row[j].status = "in_progress"
          BY <4>1 DEF Inv, Leased
        <4> QED BY <4>1, <4>2 DEF SameApproval
      <3> QED BY <2>2, <3>1, RunStays DEF Inv
    <2> QED BY <2>1, <2>2
  <1>4. ShippedOK'
    BY ShippedStays DEF Inv
  <1> QED BY <1>1, <1>2, <1>3, <1>4 DEF Inv

LEMMA RowsAside ==
  ASSUME Inv, row' \in [Job -> Row \cup {NoRow}],
         \A j \in Job : \/ row'[j] = row[j]
                        \/ /\ row[j].status \notin {"in_progress", "deployed"}
                           /\ row'[j].status # "in_progress",
         UNCHANGED <<disk, tip, lease, run, agreed, pushed, edits>>
  PROVE  Inv'
  <1>1. disk' \in Disk /\ tip' \in [Job -> Head] /\ edits' \in 0..MaxEdits /\ run' \in [Proc -> Run]
    BY DEF Inv, Types
  <1>2. UNCHANGED <<lease, agreed, pushed>>
    OBVIOUS
  <1>3. \A q \in Proc : run'[q] = run[q] \/ (run[q].pc \notin Working /\ run'[q] = Idle)
    OBVIOUS
  <1> QED BY <1>1, <1>2, <1>3, Aside

LEMMA EditInv ==
  ASSUME ApprovalAssumption, Inv, Edit
  PROVE  Inv'
  <1>1. disk' \in Disk /\ tip' \in [Job -> Head]
    BY DEF Edit, Inv, Types, Disk
  <1>2. edits' \in 0..MaxEdits
    BY DEF Edit, Inv, Types, ApprovalAssumption
  <1>3. /\ row' \in [Job -> Row \cup {NoRow}] /\ run' \in [Proc -> Run]
        /\ UNCHANGED <<row, run, lease, agreed, pushed>>
    BY DEF Edit, Inv, Types
  <1>4. /\ \A j \in Job : row'[j] = row[j]
        /\ \A q \in Proc : run'[q] = run[q] \/ (run[q].pc \notin Working /\ run'[q] = Idle)
        /\ UNCHANGED <<lease, agreed, pushed>>
    BY <1>3
  <1> QED BY <1>1, <1>2, <1>3, <1>4, Aside

LEMMA EnqueueInv ==
  ASSUME Inv, NEW j \in Job, NEW auto \in BOOLEAN, Enqueue(j, auto)
  PROVE  Inv'
  <1> DEFINE new == IF auto THEN Queued(TRUE, tip[j], <<disk.url, disk.refs>>, disk.policy)
                            ELSE Queued(FALSE, tip[j], NoDest, NoDest)
  <1>1. new \in Row /\ new.status = "queued"
    BY DEF Queued, Row, Inv, Types, Disk, Destination
  <1>2. row' = [row EXCEPT ![j] = new] /\ row[j].status = "none"
    BY DEF Enqueue, NoRow
  <1>3. UNCHANGED <<disk, tip, lease, run, agreed, pushed, edits>>
    BY DEF Enqueue
  <1> HIDE DEF new
  <1>4. /\ row' \in [Job -> Row \cup {NoRow}] /\ row'[j] = new
        /\ \A i \in Job \ {j} : row'[i] = row[i]
    BY <1>1, <1>2 DEF Inv, Types
  <1> QED BY <1>1, <1>2, <1>3, <1>4, RowsAside

LEMMA ValidateInv ==
  ASSUME Inv, Validate
  PROVE  Inv'
  <1>1. \A j \in Job : row[j].status = "queued" => row[j] \in Row
    BY DEF Inv, Types, NoRow
  <1>2. \A j \in Job : \A s \in {"ready", "blocked"} :
          row[j] \in Row => [row[j] EXCEPT !.status = s] \in Row
                            /\ [row[j] EXCEPT !.status = s].status = s
    BY DEF Row
  <1>3. /\ row' \in [Job -> Row \cup {NoRow}]
        /\ \A j \in Job : IF row[j].status # "queued" THEN row'[j] = row[j]
                          ELSE row'[j].status \in {"ready", "blocked"}
    BY <1>1, <1>2 DEF Validate, Inv, Types
  <1>4. UNCHANGED <<disk, tip, lease, run, agreed, pushed, edits>>
    BY DEF Validate
  <1> QED BY <1>3, <1>4, RowsAside

LEMMA DismissInv ==
  ASSUME Inv, NEW j \in Job, Dismiss(j)
  PROVE  Inv'
  <1>1. /\ row' \in [Job -> Row \cup {NoRow}] /\ row'[j] = NoRow
        /\ \A i \in Job \ {j} : row'[i] = row[i]
    BY DEF Dismiss, Inv, Types
  <1>2. row[j].status \in {"blocked", "ready"} /\ NoRow.status = "none"
        /\ UNCHANGED <<disk, tip, lease, run, agreed, pushed, edits>>
    BY DEF Dismiss, NoRow
  <1> QED BY <1>1, <1>2, RowsAside

-----------------------------------------------------------------------------
(* The claims.                                                             *)

(* A claim takes the free lease and rows that wait, and blocks others.     *)
LEMMA Claimed ==
  ASSUME Inv, NEW p \in Proc, lease = {}, lease' = {p}, NEW r \in Run, r.pc = "claimed",
         r.snap \in Snap, run' = [run EXCEPT ![p] = r], WorksOK(r)',
         row' \in [Job -> Row \cup {NoRow}],
         \A j \in r.jobs : row[j].status \in {"queued", "ready"} /\ row'[j].status = "in_progress",
         \A j \in Job \ r.jobs : \/ row'[j] = row[j]
                                 \/ row[j].status = "queued" /\ row'[j].status = "blocked",
         UNCHANGED <<disk, tip, agreed, pushed, edits>>
  PROVE  Inv'
  <1>1. run'[p] = r /\ \A q \in Proc \ {p} : run'[q] = run[q]
    BY DEF Inv, Types
  <1>2. Types'
    BY <1>1 DEF Inv, Types
  <1>3. \A q \in Proc : run[q].pc \notin Working /\ run[q].jobs = {}
    BY DEF Inv, Leased
  <1>4. Leased'
    <2>1. \A j \in Job : row[j].status # "in_progress"
      BY DEF Inv, Leased
    <2>2. r.jobs \subseteq Job
      BY DEF Run
    <2> QED BY <1>1, <1>3, <2>1, <2>2 DEF Leased, Working
  <1>5. \A q \in Proc \ {p} : RunOK(run[q])'
    BY <1>1, <1>3, RunStays DEF Inv
  <1>6. RunOK(r)'
    BY DEF RunOK, AskedOK
  <1>7. ShippedOK'
    <2>1. \A j \in Job : row[j].status = "deployed" => row'[j] = row[j]
      OBVIOUS
    <2> QED BY <2>1, ShippedStays DEF Inv
  <1> QED BY <1>1, <1>2, <1>4, <1>5, <1>6, <1>7 DEF Inv

(* A write of one status to rows that are there.                           *)
LEMMA StatusWritten ==
  ASSUME NEW j, row[j] \in Row,
         NEW s \in {"queued", "ready", "in_progress", "blocked", "deployed"},
         row'[j] = [row[j] EXCEPT !.status = s]
  PROVE  row'[j] \in Row /\ row'[j].status = s /\ SameApproval(j)
  <1>1. row'[j] \in Row /\ row'[j].status = s
    BY DEF Row
  <1>2. row'[j].auto = row[j].auto
    BY DEF Row
  <1>3. row'[j].head = row[j].head /\ row'[j].dest = row[j].dest /\ row'[j].policy = row[j].policy
    BY DEF Row
  <1> QED BY <1>1, <1>2, <1>3 DEF SameApproval

LEMMA RowsThere ==
  ASSUME Types, NEW j \in Job, row[j].status # "none"
  PROVE  row[j] \in Row
  BY DEF Types, NoRow

LEMMA TickClaimsInv ==
  ASSUME Inv, NEW p \in Proc, TickClaims(p)
  PROVE  Inv'
  <1> DEFINE waiting == AutoJobs(InStatus("queued"))
             fit     == {j \in waiting : Approved(p, j)}
  <1>1. /\ run[p].pc = "resolved" /\ lease = {} /\ run[p] \in Run /\ run[p].snap \in Snap
        /\ run[p].pc \notin Working
    BY DEF TickClaims, Inv, Types, Working
  <1>2. /\ waiting \subseteq Job /\ fit \subseteq waiting
        /\ \A j \in waiting : row[j].status = "queued" /\ row[j].auto /\ row[j] \in Row
    BY RowsThere DEF AutoJobs, InStatus, Inv
  <1>3. row' = [j \in Job |->
                  IF j \notin waiting THEN row[j]
                  ELSE [row[j] EXCEPT !.status = IF j \in fit THEN "in_progress" ELSE "blocked"]]
    BY DEF TickClaims
  <1>4. \A j \in fit : row[j].policy = run[p].snap.policy
    BY DEF Approved
  <1>5. /\ UNCHANGED <<disk, tip, agreed, pushed, edits>>
        /\ IF fit = {} THEN Gone(p) /\ UNCHANGED lease
           ELSE /\ run' = [run EXCEPT ![p] = [@ EXCEPT !.pc = "claimed", !.jobs = fit, !.plan = NoPlan]]
                /\ lease' = {p}
    BY DEF TickClaims
  <1> HIDE DEF waiting, fit
  <1>6. /\ row' \in [Job -> Row \cup {NoRow}]
        /\ \A j \in Job \ waiting : row'[j] = row[j]
        /\ \A j \in waiting : /\ row'[j].status = IF j \in fit THEN "in_progress" ELSE "blocked"
                              /\ SameApproval(j)
    <2>1. \A j \in Job \ waiting : row'[j] = row[j]
      BY <1>3
    <2>2. \A j \in waiting :
            row'[j] = [row[j] EXCEPT !.status = IF j \in fit THEN "in_progress" ELSE "blocked"]
      BY <1>2, <1>3
    <2>3. ASSUME NEW j \in waiting
          PROVE  /\ row'[j].status = IF j \in fit THEN "in_progress" ELSE "blocked"
                 /\ SameApproval(j) /\ row'[j] \in Row
      <3>1. PICK s \in {"in_progress", "blocked"} :
              s = IF j \in fit THEN "in_progress" ELSE "blocked"
        OBVIOUS
      <3> QED BY <1>2, <2>2, <3>1, StatusWritten
    <2> QED BY <1>3, <2>1, <2>3 DEF Inv, Types
  <1>7. CASE fit = {}
    <2>1. /\ run' = [run EXCEPT ![p] = Idle] /\ UNCHANGED <<lease, agreed, pushed>>
          /\ disk' \in Disk /\ tip' \in [Job -> Head] /\ edits' \in 0..MaxEdits
      BY <1>5, <1>7 DEF Gone, Inv, Types
    <2>2. /\ run' \in [Proc -> Run]
          /\ \A q \in Proc : run'[q] = run[q] \/ (run[q].pc \notin Working /\ run'[q] = Idle)
      BY <1>1, <2>1, IdleIsRun DEF Inv, Types
    <2>3. \A j \in Job : \/ row'[j] = row[j]
                         \/ /\ row[j].status \notin {"in_progress", "deployed"}
                            /\ row'[j].status # "in_progress"
      BY <1>2, <1>6, <1>7
    <2> QED BY <1>6, <2>1, <2>2, <2>3, Aside
  <1>8. CASE fit # {}
    <2>0. PICK r : r = [run[p] EXCEPT !.pc = "claimed", !.jobs = fit, !.plan = NoPlan]
      OBVIOUS
    <2>1. run' = [run EXCEPT ![p] = r] /\ lease' = {p}
      BY <1>5, <1>8, <2>0
    <2>2. /\ r \in Run /\ r.pc = "claimed" /\ r.snap = run[p].snap /\ r.jobs = fit
          /\ r.plan = NoPlan
      BY <1>1, <1>2, <2>0 DEF Run, Pc, Working
    <2>3. WorksOK(r)'
      BY <1>2, <1>4, <1>6, <2>2 DEF WorksOK, ByAuto, ByPlan, SameApproval, Resolved
    <2>4. /\ \A j \in r.jobs : row[j].status \in {"queued", "ready"} /\ row'[j].status = "in_progress"
          /\ \A j \in Job \ r.jobs : \/ row'[j] = row[j]
                                     \/ row[j].status = "queued" /\ row'[j].status = "blocked"
      BY <1>2, <1>6, <2>2
    <2> QED BY <1>1, <1>5, <1>6, <2>1, <2>2, <2>3, <2>4, Claimed
  <1> QED BY <1>7, <1>8

LEMMA DeployClaimsInv ==
  ASSUME Inv, NEW p \in Proc, DeployClaims(p)
  PROVE  Inv'
  <1> DEFINE ready == InStatus("ready")
  <1>1. /\ run[p].pc = "confirmed" /\ lease = {} /\ run[p] \in Run /\ run[p].snap \in Snap
        /\ run[p].pc \notin Working
    BY DEF DeployClaims, Inv, Types, Working
  <1>2. CASE ready # {} /\ Confirmed(p, ready)
    <2>0. PICK r : r = [run[p] EXCEPT !.pc = "claimed", !.jobs = ready]
      OBVIOUS
    <2>1. /\ run' = [run EXCEPT ![p] = r] /\ lease' = {p}
          /\ row' = WithStatus(ready, "in_progress")
          /\ UNCHANGED <<disk, tip, agreed, pushed, edits>>
      BY <1>2, <2>0 DEF DeployClaims
    <2>2. /\ ready \subseteq Job
          /\ \A j \in ready : row[j].status = "ready" /\ row[j] \in Row
      BY RowsThere DEF InStatus, Inv
    <2>3. /\ r \in Run /\ r.pc = "claimed" /\ r.snap = run[p].snap /\ r.jobs = ready
          /\ r.plan = run[p].plan
      BY <1>1, <2>0, <2>2 DEF Run, Pc, Working
    <2>4. /\ r.plan \in agreed /\ r.plan \in Plan /\ r.plan.train # {}
          /\ r.plan.policy = r.snap.policy
      BY <1>1, <1>2, <2>3 DEF Inv, RunOK, AskedOK, Confirmed, PlanOf
    <2>5. r.plan # NoPlan
      BY <2>4 DEF NoPlan
    <2>6. WorksOK(r)'
      BY <2>1, <2>3, <2>4, <2>5 DEF WorksOK, ByAuto, ByPlan
    <2>7. /\ row' \in [Job -> Row \cup {NoRow}]
          /\ \A j \in ready : row'[j].status = "in_progress"
          /\ \A j \in Job \ ready : row'[j] = row[j]
      BY <2>1, <2>2, StatusWritten DEF WithStatus, Inv, Types
    <2>8. \A j \in r.jobs : row[j].status \in {"queued", "ready"} /\ row'[j].status = "in_progress"
      BY <2>2, <2>3, <2>7
    <2>9. \A j \in Job \ r.jobs : row'[j] = row[j]
      BY <2>3, <2>7
    <2> QED BY <1>1, <2>1, <2>3, <2>6, <2>7, <2>8, <2>9, Claimed
  <1>3. CASE ~(ready # {} /\ Confirmed(p, ready))
    BY <1>1, <1>3, GoneBefore DEF DeployClaims
  <1> QED BY <1>2, <1>3

-----------------------------------------------------------------------------
(* The runner.                                                             *)

(* The rows of S get one status, for good or to go on.                     *)
Touched(S, s) ==
  /\ row' \in [Job -> Row \cup {NoRow}]
  /\ \A j \in S : row'[j].status = s /\ SameApproval(j)
  /\ \A j \in Job \ S : row'[j] = row[j]

LEMMA WrittenTouches ==
  ASSUME Inv, NEW p \in Proc, run[p].pc \in Working, NEW S \in SUBSET run[p].jobs,
         NEW s \in {"queued", "ready", "in_progress", "blocked", "deployed"},
         row' = WithStatus(S, s)
  PROVE  Touched(S, s)
  <1>1. S \subseteq Job /\ \A j \in S : row[j].status = "in_progress"
    BY DEF Inv, Types, Run, Leased
  <1>2. \A j \in S : row[j] \in Row
    BY <1>1, RowsThere DEF Inv
  <1>3. \A j \in S : row'[j] = [row[j] EXCEPT !.status = s]
    BY <1>1 DEF WithStatus
  <1>4. ASSUME NEW j \in S PROVE row'[j].status = s /\ SameApproval(j) /\ row'[j] \in Row
    BY <1>2, <1>3, StatusWritten
  <1>5. \A j \in Job \ S : row'[j] = row[j]
    BY DEF WithStatus
  <1>6. row' \in [Job -> Row \cup {NoRow}]
    BY <1>1, <1>4, <1>5 DEF WithStatus, Inv, Types
  <1> QED BY <1>4, <1>5, <1>6 DEF Touched

(* It goes on with its jobs, or with those whose branch did not move.      *)
LEMMA GoesOn ==
  ASSUME Inv, NEW p \in Proc, run[p].pc \in Working, NEW r \in Run, run' = [run EXCEPT ![p] = r],
         r.pc \in Working, r.snap = run[p].snap, r.jobs \subseteq run[p].jobs,
         Touched(run[p].jobs \ r.jobs, "blocked"), WorksOK(r)',
         UNCHANGED <<disk, tip, lease, agreed, pushed, edits>>
  PROVE  Inv'
  <1>1. run'[p] = r /\ \A q \in Proc \ {p} : run'[q] = run[q]
    BY DEF Inv, Types
  <1>2. /\ p \in lease /\ run[p].jobs \subseteq Job /\ run[p].snap \in Snap
        /\ \A q \in lease : q = p
    BY DEF Inv, Leased, Types, Run, Working
  <1>3. Types'
    BY <1>1, <1>2 DEF Inv, Types, Touched
  <1>4. \A j \in Job : row[j].status = "in_progress" <=> j \in run[p].jobs
    BY <1>2 DEF Inv, Leased
  <1>5. \A j \in Job : row'[j].status = "in_progress" <=> j \in r.jobs
    BY <1>4 DEF Touched
  <1>6. Leased'
    BY <1>1, <1>2, <1>5 DEF Inv, Leased
  <1>7. \A q \in Proc \ {p} : run[q].jobs = {} /\ RunOK(run[q])
    BY <1>2 DEF Inv, Leased
  <1>8. \A q \in Proc \ {p} : RunOK(run[q])'
    BY <1>1, <1>7, RunStays
  <1>9. RunOK(r)'
    BY DEF RunOK, AskedOK, Working
  <1>10. \A j \in Job : row[j].status = "deployed" => row'[j] = row[j]
    BY <1>4 DEF Touched
  <1>11. ShippedOK'
    BY <1>10, ShippedStays DEF Inv
  <1> QED BY <1>1, <1>3, <1>6, <1>8, <1>9, <1>11 DEF Inv

(* It ends, and its jobs with it.                                          *)
LEMMA EndsInv ==
  ASSUME Inv, NEW p \in Proc, run[p].pc \in Working, NEW s \in {"blocked", "deployed"},
         Finish(p, s), ShippedOK', UNCHANGED <<disk, tip, agreed, edits>>
  PROVE  Inv'
  <1>1. run'[p] = Idle /\ \A q \in Proc \ {p} : run'[q] = run[q]
    BY DEF Finish, Gone, Inv, Types
  <1>2. /\ p \in lease /\ run[p].jobs \subseteq Job /\ lease' = {}
        /\ \A q \in lease : q = p
    BY DEF Finish, Inv, Leased, Types, Run
  <1>3. Touched(run[p].jobs, s)
    BY WrittenTouches DEF Finish
  <1>4. run' \in [Proc -> Run]
    BY IdleIsRun DEF Finish, Gone, Inv, Types
  <1>5. Types'
    BY <1>1, <1>2, <1>3, <1>4, IdleIsRun DEF Inv, Types, Touched
  <1>6. \A j \in Job : row'[j].status # "in_progress"
    BY <1>2, <1>3 DEF Inv, Leased, Touched
  <1>7. \A q \in Proc : run'[q].pc \notin Working /\ run'[q].jobs = {}
    BY <1>1, <1>2, IdleIsRun DEF Inv, Leased, Working
  <1>8. Leased'
    BY <1>2, <1>6, <1>7 DEF Leased
  <1>9. \A q \in Proc \ {p} : run[q].jobs = {} /\ RunOK(run[q])
    BY <1>2 DEF Inv, Leased
  <1>10. \A q \in Proc \ {p} : RunOK(run[q])'
    BY <1>1, <1>9, RunStays
  <1>11. RunOK(run[p])'
    BY <1>1, IdleIsRun DEF RunOK, WorksOK, AskedOK, Working
  <1> QED BY <1>5, <1>8, <1>10, <1>11 DEF Inv

LEMMA BlockedInv ==
  ASSUME Inv, NEW p \in Proc, run[p].pc \in Working, Finish(p, "blocked"),
         UNCHANGED <<disk, tip, agreed, pushed, edits>>
  PROVE  Inv'
  <1>1. Touched(run[p].jobs, "blocked")
    BY WrittenTouches DEF Finish
  <1>2. \A j \in run[p].jobs : j \in Job /\ row[j].status = "in_progress"
    BY DEF Inv, Leased, Types, Run
  <1>3. \A j \in Job : row[j].status = "deployed" => row'[j] = row[j]
    BY <1>1, <1>2 DEF Touched
  <1>4. ShippedOK'
    BY <1>3, ShippedStays DEF Inv
  <1> QED BY <1>4, EndsInv

(* What the runner compares leaves its jobs and rows, or ends it.          *)
LEMMA ContinueInv ==
  ASSUME Inv, NEW p \in Proc, run[p].pc \in Working, NEW r \in Run, run' = [run EXCEPT ![p] = r],
         r.pc \in Working, r.snap = run[p].snap, r.jobs = run[p].jobs, WorksOK(r),
         UNCHANGED <<disk, tip, row, lease, agreed, pushed, edits>>
  PROVE  Inv'
  <1>1. Touched(run[p].jobs \ r.jobs, "blocked")
    BY DEF Touched, Inv, Types
  <1>2. WorksOK(r)'
    BY DEF WorksOK, ByAuto, ByPlan, HeadsOf
  <1> QED BY <1>1, <1>2, GoesOn

LEMMA StepRun ==
  ASSUME Inv, NEW p \in Proc, NEW to \in Working, Continue(p, to)
  PROVE  \E r \in Run :
           /\ run' = [run EXCEPT ![p] = r] /\ r.pc = to /\ r.snap = run[p].snap
           /\ r.jobs = run[p].jobs /\ r.heads = run[p].heads /\ r.plan = run[p].plan
           /\ r.dest = run[p].dest
  <1>1. run[p] \in Run
    BY DEF Inv, Types
  <1>2. PICK r : r = [run[p] EXCEPT !.pc = to]
    OBVIOUS
  <1>3. r \in Run /\ r.pc = to /\ r.snap = run[p].snap /\ r.jobs = run[p].jobs
        /\ r.heads = run[p].heads /\ r.plan = run[p].plan /\ r.dest = run[p].dest
    BY <1>1, <1>2 DEF Run, Pc
  <1>4. run' = [run EXCEPT ![p] = r]
    BY <1>1, <1>2 DEF Continue, Step, Inv, Types
  <1> QED BY <1>3, <1>4

LEMMA MergeInv ==
  ASSUME Inv, NEW p \in Proc, Merge(p)
  PROVE  Inv'
  <1>0. PICK kept : kept = {j \in run[p].jobs : Unmoved(j)}
    OBVIOUS
  <1>1. run[p].pc = "claimed" /\ run[p].pc \in Working /\ run[p] \in Run
    BY DEF Merge, Working, Inv, Types
  <1>2. CASE kept = {}
    BY <1>0, <1>1, <1>2, BlockedInv DEF Merge
  <1>3. CASE kept # {}
    <2> DEFINE heads == {<<j, tip[j]>> : j \in kept}
    <2>0. PICK r : r = [run[p] EXCEPT !.pc = "merged", !.jobs = kept, !.heads = heads]
      OBVIOUS
    <2>1. /\ run' = [run EXCEPT ![p] = r] /\ row' = WithStatus(run[p].jobs \ kept, "blocked")
          /\ UNCHANGED <<disk, tip, lease, agreed, pushed, edits>>
      BY <1>0, <1>3, <2>0 DEF Merge
    <2>2. \A j \in kept : j \in Job /\ j \in run[p].jobs /\ tip[j] = row[j].head
      BY <1>0, <1>1 DEF Run, Unmoved
    <2>3. heads = HeadsOf(kept)
      BY <2>2 DEF HeadsOf
    <2>4. heads \in SUBSET (Job \X Head)
      BY <2>2 DEF Inv, Types
    <2> HIDE DEF heads
    <2>5. /\ r \in Run /\ r.pc = "merged" /\ r.snap = run[p].snap /\ r.jobs = kept
          /\ r.heads = HeadsOf(kept) /\ r.plan = run[p].plan
      BY <1>1, <2>0, <2>2, <2>3, <2>4 DEF Run, Pc, Working
    <2>6. Touched(run[p].jobs \ kept, "blocked")
      BY <1>1, <2>1, WrittenTouches
    <2>7. \A j \in kept : row'[j] = row[j]
      BY <2>2, <2>6 DEF Touched
    <2>8. HeadsOf(kept)' = HeadsOf(kept)
      BY <2>7 DEF HeadsOf
    <2>9. WorksOK(run[p]) /\ agreed' = agreed
      BY <2>1 DEF Inv, RunOK
    <2>10. WorksOK(r)'
      BY <1>1, <2>2, <2>5, <2>7, <2>8, <2>9 DEF WorksOK, ByAuto, ByPlan, Resolved
    <2>11. r.jobs \subseteq run[p].jobs /\ r.pc \in Working
      BY <2>2, <2>5 DEF Working
    <2> QED BY <1>1, <2>1, <2>5, <2>6, <2>10, <2>11, GoesOn
  <1> QED BY <1>2, <1>3

(* A comparison that holds carries what was known of the run along.        *)
LEMMA Carried ==
  ASSUME NEW o, NEW r, WorksOK(o), o.pc \in Working \ {"claimed"},
         r.pc \in Working \ {"claimed", "pushing"},
         r.jobs = o.jobs, r.heads = o.heads, r.plan = o.plan, r.snap = o.snap,
         r.plan = NoPlan /\ r.pc \in Resolved => \A j \in r.jobs : row[j].dest = r.dest
  PROVE  WorksOK(r)
  <1>1. r.heads = HeadsOf(r.jobs)
    BY DEF WorksOK
  <1>2. ByAuto(r)
    BY DEF WorksOK, ByAuto
  <1>3. ByPlan(r)
    BY DEF WorksOK, ByPlan
  <1> QED BY <1>1, <1>2, <1>3 DEF WorksOK

LEMMA GatesInv ==
  ASSUME Inv, NEW p \in Proc, Gates(p)
  PROVE  Inv'
  <1>1. run[p].pc = "merged" /\ run[p].pc \in Working
    BY DEF Gates, Working
  <1>2. CASE PolicyStands(p)
    <2>1. Continue(p, "gated") /\ UNCHANGED <<disk, tip, row, lease, agreed, pushed, edits>>
      BY <1>2 DEF Gates, Continue
    <2>2. PICK r \in Run :
            /\ run' = [run EXCEPT ![p] = r] /\ r.pc = "gated" /\ r.snap = run[p].snap
            /\ r.jobs = run[p].jobs /\ r.heads = run[p].heads /\ r.plan = run[p].plan
      BY <2>1, StepRun DEF Working
    <2>3. WorksOK(r)
      BY <1>1, <2>2, Carried DEF Inv, RunOK, Resolved, Working
    <2>4. r.pc \in Working
      BY <2>2 DEF Working
    <2> QED BY <1>1, <2>1, <2>2, <2>3, <2>4, ContinueInv
  <1>3. CASE ~PolicyStands(p)
    BY <1>1, <1>3, BlockedInv DEF Gates
  <1> QED BY <1>2, <1>3

(* The destination: that of every auto job, or the run ends.               *)
LEMMA PinInv ==
  ASSUME Inv, NEW p \in Proc, Pin(p)
  PROVE  Inv'
  <1>0. PICK dest : dest = Resolve(run[p].snap)
    OBVIOUS
  <1>1. /\ run[p].pc = "gated" /\ run[p].pc \in Working /\ run[p] \in Run /\ run[p].snap \in Snap
        /\ dest \in Destination
    BY <1>0, ResolvedIsDestination DEF Pin, Working, Inv, Types
  <1>2. CASE DestStands(p, dest)
    <2>0. PICK r : r = [run[p] EXCEPT !.pc = "pinned", !.dest = dest]
      OBVIOUS
    <2>1. /\ run' = [run EXCEPT ![p] = r]
          /\ UNCHANGED <<disk, tip, row, lease, agreed, pushed, edits>>
      BY <1>0, <1>2, <2>0 DEF Pin
    <2>2. /\ r \in Run /\ r.pc = "pinned" /\ r.snap = run[p].snap /\ r.jobs = run[p].jobs
          /\ r.heads = run[p].heads /\ r.plan = run[p].plan /\ r.dest = dest
      BY <1>1, <2>0 DEF Run, Pc, Working
    <2>3. run[p].plan = NoPlan => \A j \in run[p].jobs : row[j].dest = dest
      BY <1>1, <1>2 DEF Inv, RunOK, WorksOK, ByAuto, DestStands, AutoJobs
    <2>4. WorksOK(r)
      BY <1>1, <2>2, <2>3, Carried DEF Inv, RunOK, Working
    <2>5. r.pc \in Working
      BY <2>2 DEF Working
    <2> QED BY <1>1, <2>1, <2>2, <2>4, <2>5, ContinueInv
  <1>3. CASE ~DestStands(p, dest)
    BY <1>0, <1>1, <1>3, BlockedInv DEF Pin
  <1> QED BY <1>2, <1>3

LEMMA RecheckPolicyInv ==
  ASSUME Inv, NEW p \in Proc, RecheckPolicy(p)
  PROVE  Inv'
  <1>1. run[p].pc = "pinned" /\ run[p].pc \in Working
    BY DEF RecheckPolicy, Working
  <1>2. CASE PolicyStands(p)
    <2>1. Continue(p, "judged") /\ UNCHANGED <<disk, tip, row, lease, agreed, pushed, edits>>
      BY <1>2 DEF RecheckPolicy, Continue
    <2>2. PICK r \in Run :
            /\ run' = [run EXCEPT ![p] = r] /\ r.pc = "judged" /\ r.snap = run[p].snap
            /\ r.jobs = run[p].jobs /\ r.heads = run[p].heads /\ r.plan = run[p].plan
            /\ r.dest = run[p].dest
      BY <2>1, StepRun DEF Working
    <2>3. run[p].plan = NoPlan => \A j \in run[p].jobs : row[j].dest = run[p].dest
      BY <1>1 DEF Inv, RunOK, WorksOK, ByAuto, Resolved
    <2>4. WorksOK(r)
      BY <1>1, <2>2, <2>3, Carried DEF Inv, RunOK, Working
    <2>5. r.pc \in Working
      BY <2>2 DEF Working
    <2> QED BY <1>1, <2>1, <2>2, <2>4, <2>5, ContinueInv
  <1>3. CASE ~PolicyStands(p)
    BY <1>1, <1>3, BlockedInv DEF RecheckPolicy
  <1> QED BY <1>2, <1>3

(* The plan once more: the commits that were merged, the destination that  *)
(* was pinned, and the policy of the run's own config are those agreed to. *)
LEMMA RecheckPlanInv ==
  ASSUME Inv, NEW p \in Proc, RecheckPlan(p)
  PROVE  Inv'
  <1>1. run[p].pc = "judged" /\ run[p].pc \in Working
    BY DEF RecheckPlan, Working
  <1>2. CASE PlanStands(p)
    <2>1. Continue(p, "pushing") /\ UNCHANGED <<disk, tip, row, lease, agreed, pushed, edits>>
      BY <1>2 DEF RecheckPlan, Continue
    <2>2. PICK r \in Run :
            /\ run' = [run EXCEPT ![p] = r] /\ r.pc = "pushing" /\ r.snap = run[p].snap
            /\ r.jobs = run[p].jobs /\ r.heads = run[p].heads /\ r.plan = run[p].plan
            /\ r.dest = run[p].dest
      BY <2>1, StepRun DEF Working
    <2>3. WorksOK(run[p]) /\ run[p].heads = HeadsOf(run[p].jobs)
      BY <1>1 DEF Inv, RunOK, WorksOK
    <2>4. r.plan # NoPlan => r.plan = [train |-> r.heads, dest |-> r.dest, policy |-> r.snap.policy]
      <3> SUFFICES ASSUME r.plan # NoPlan
                   PROVE  r.plan = [train |-> r.heads, dest |-> r.dest, policy |-> r.snap.policy]
        OBVIOUS
      <3>1. r.plan = [train |-> r.heads, dest |-> r.dest, policy |-> disk.policy]
        BY <1>2, <2>2, <2>3 DEF PlanStands, PlanOf, HeadsOf
      <3>2. r.plan.policy = r.snap.policy
        BY <1>1, <2>2, <2>3 DEF WorksOK, ByPlan
      <3>3. r.plan.policy = disk.policy
        BY <3>1
      <3> QED BY <3>1, <3>2, <3>3
    <2>5. WorksOK(r)
      BY <1>1, <2>2, <2>3, <2>4 DEF WorksOK, ByAuto, ByPlan, Resolved
    <2>6. r.pc \in Working
      BY <2>2 DEF Working
    <2> QED BY <1>1, <2>1, <2>2, <2>5, <2>6, ContinueInv
  <1>3. CASE ~PlanStands(p)
    BY <1>1, <1>3, BlockedInv DEF RecheckPlan
  <1> QED BY <1>2, <1>3

(* What is pushed is what the run has compared.                            *)
LEMMA PushInv ==
  ASSUME Inv, NEW p \in Proc, Push(p)
  PROVE  Inv'
  <1>0. PICK x : x = [heads |-> run[p].heads, dest |-> Target(p),
                      policy |-> run[p].snap.policy, plan |-> run[p].plan]
    OBVIOUS
  <1>1. /\ run[p].pc = "pushing" /\ run[p].pc \in Working /\ Finish(p, "deployed")
        /\ pushed' = pushed \cup {x} /\ UNCHANGED <<disk, tip, agreed, edits>>
    BY <1>0 DEF Push, Working
  <1>2. /\ x.heads = HeadsOf(run[p].jobs) /\ x.dest = run[p].dest
        /\ x.policy = run[p].snap.policy /\ x.plan = run[p].plan
    BY <1>0, <1>1 DEF Target, Inv, RunOK, WorksOK
  <1>3. Touched(run[p].jobs, "deployed")
    BY <1>1, WrittenTouches DEF Finish
  <1>4. \A j \in run[p].jobs : j \in Job /\ row[j].status = "in_progress"
    BY <1>1 DEF Inv, Leased, Types, Run
  <1>5. \A j \in Job : row[j].status = "deployed" => row'[j] = row[j]
    BY <1>3, <1>4 DEF Touched
  <1>6. ASSUME x.plan = NoPlan PROVE Backed(x)'
    <2>1. ASSUME NEW w \in x.heads PROVE Shipped(x, w)'
      <3>1. PICK j \in run[p].jobs : w = <<j, row[j].head>>
        BY <1>2 DEF HeadsOf
      <3>2. row[j].auto /\ row[j].policy = x.policy /\ row[j].dest = x.dest
        BY <1>1, <1>2, <1>6 DEF Inv, RunOK, WorksOK, ByAuto, Resolved
      <3>3. j \in Job /\ row'[j].status = "deployed" /\ SameApproval(j)
        BY <1>3, <1>4 DEF Touched
      <3>4. w[1] = j /\ w[2] = row[j].head
        BY <3>1
      <3> QED BY <3>2, <3>3, <3>4 DEF Shipped, SameApproval
    <2> QED BY <1>6, <2>1 DEF Backed
  <1>7. ASSUME x.plan # NoPlan PROVE Backed(x)'
    <2>1. PlanShipped(x)'
      BY <1>0, <1>1, <1>2, <1>7 DEF Inv, RunOK, WorksOK, ByPlan, PlanShipped, Target
    <2> QED BY <1>7, <2>1 DEF Backed
  <1>8. \A y \in pushed : Backed(y)'
    BY <1>1, <1>5, BackedStays DEF Inv, ShippedOK
  <1>9. ShippedOK'
    BY <1>1, <1>6, <1>7, <1>8 DEF ShippedOK
  <1> QED BY <1>1, <1>9, EndsInv

-----------------------------------------------------------------------------
LEMMA InitInv ==
  ASSUME ApprovalAssumption, Init
  PROVE  Inv
  <1>1. disk \in Disk
    <2>1. \E d \in Disk : TRUE
      <3>1. PICK u \in Url, r \in Refs, q \in Policy : TRUE
        BY DEF ApprovalAssumption
      <3>2. [url |-> u, refs |-> r, policy |-> q] \in Disk
        BY DEF Disk
      <3> QED BY <3>2
    <2> QED BY <2>1 DEF Init
  <1>2. tip \in [Job -> Head]
    <2>1. (CHOOSE h \in Head : TRUE) \in Head
      BY DEF ApprovalAssumption
    <2> QED BY <2>1 DEF Init
  <1>3. edits \in 0..MaxEdits
    BY DEF Init, ApprovalAssumption
  <1>4. Types
    BY <1>1, <1>2, <1>3, IdleIsRun DEF Init, Types
  <1>5. Leased
    BY IdleIsRun DEF Init, Leased, Working, NoRow
  <1>6. \A p \in Proc : RunOK(run[p])
    BY DEF Init, RunOK, AskedOK, WorksOK, Working, Idle
  <1>7. ShippedOK
    BY DEF Init, ShippedOK
  <1> QED BY <1>4, <1>5, <1>6, <1>7 DEF Inv

LEMMA NextInv ==
  ASSUME ApprovalAssumption, Inv, [Next]_vars
  PROVE  Inv'
  <1>1. CASE Edit
    BY <1>1, EditInv
  <1>2. CASE Validate
    BY <1>2, ValidateInv
  <1>3. ASSUME NEW j \in Job, Dismiss(j) PROVE Inv'
    BY <1>3, DismissInv
  <1>4. ASSUME NEW j \in Job, NEW auto \in BOOLEAN, Enqueue(j, auto) PROVE Inv'
    BY <1>4, EnqueueInv
  <1>5. ASSUME NEW p \in Proc, TickLoads(p) \/ PreviewLoads(p) \/ AnswerLoads(p) \/ ExecuteLoads(p)
        PROVE  Inv'
    BY <1>5, LoadInv DEF TickLoads, PreviewLoads, AnswerLoads, ExecuteLoads
  <1>6. ASSUME NEW p \in Proc, TickResolves(p) PROVE Inv'
    BY <1>6, TickResolvesInv
  <1>7. ASSUME NEW p \in Proc, TickClaims(p) \/ DeployClaims(p) PROVE Inv'
    BY <1>7, TickClaimsInv, DeployClaimsInv
  <1>8. ASSUME NEW p \in Proc, Prepare(p) PROVE Inv'
    BY <1>8, PrepareInv
  <1>9. ASSUME NEW p \in Proc, NEW yes \in BOOLEAN, Answer(p, yes) PROVE Inv'
    BY <1>9, AnswerInv
  <1>10. ASSUME NEW p \in Proc, Merge(p) \/ Gates(p) \/ Pin(p) \/ RecheckPolicy(p) PROVE Inv'
    BY <1>10, MergeInv, GatesInv, PinInv, RecheckPolicyInv
  <1>11. ASSUME NEW p \in Proc, RecheckPlan(p) \/ Push(p) PROVE Inv'
    BY <1>11, RecheckPlanInv, PushInv
  <1>12. CASE UNCHANGED vars
    BY <1>12, RowsAside DEF vars, Inv, Types
  <1> QED BY <1>1, <1>2, <1>3, <1>4, <1>5, <1>6, <1>7, <1>8, <1>9, <1>10, <1>11, <1>12 DEF Next

LEMMA InvTypes ==
  ASSUME Inv
  PROVE  TypeOK
  <1>1. Cardinality(lease) <= 1
    <2>1. CASE lease = {}
      BY <2>1, FS_EmptySet
    <2>2. CASE lease # {}
      <3>1. PICK p \in lease : lease = {p}
        BY <2>2 DEF Inv, Leased
      <3> QED BY <3>1, FS_Singleton
    <2> QED BY <2>1, <2>2
  <1>2. InStatus("in_progress") = UNION {run[p].jobs : p \in lease}
    <2>1. \A p \in lease : run[p].jobs \subseteq Job
      BY DEF Inv, Types, Run
    <2>2. \A j : j \in InStatus("in_progress") <=> \E p \in lease : j \in run[p].jobs
      BY <2>1 DEF Inv, Leased, InStatus
    <2> QED BY <2>2
  <1> QED BY <1>1, <1>2 DEF Inv, Types, TypeOK

LEMMA InvShipped ==
  ASSUME Inv
  PROVE  ShippedAsApproved
  <1> SUFFICES ASSUME NEW x \in pushed, Backed(x)
               PROVE  IF x.plan = NoPlan
                      THEN \A w \in x.heads :
                             /\ row[w[1]].auto
                             /\ row[w[1]].head = w[2] /\ row[w[1]].dest = x.dest
                             /\ row[w[1]].policy = x.policy
                      ELSE x.plan \in agreed /\ x.plan = [train |-> x.heads, dest |-> x.dest,
                                                          policy |-> x.policy]
    BY DEF ShippedAsApproved, Inv, ShippedOK
  <1> QED BY DEF Backed, Shipped, PlanShipped

LEMMA InvAlways ==
  ASSUME ApprovalAssumption
  PROVE  Spec => []Inv
  <1>1. Init => Inv
    BY InitInv
  <1>2. Inv /\ [Next]_vars => Inv'
    BY NextInv
  <1> QED BY <1>1, <1>2, PTL DEF Spec

(* The rows, the config and the branches keep their types, one process at  *)
(* most holds the lease, and what is in progress is that process's.        *)
THEOREM ApprovalTypeCorrect ==
  ASSUME ApprovalAssumption
  PROVE  Spec => []TypeOK
  BY InvAlways, InvTypes, PTL

(* Whatever is edited, undone, enqueued, dismissed and validated between   *)
(* an approval and the push: what reaches a remote has the commits, the    *)
(* destination and the policy that the --auto of its rows approved, or     *)
(* those of a plan a human said yes to.                                    *)
THEOREM ApprovalShipped ==
  ASSUME ApprovalAssumption
  PROVE  Spec => []ShippedAsApproved
  BY InvAlways, InvShipped, PTL
=============================================================================
