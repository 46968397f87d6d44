------------------------------ MODULE GcProofs ------------------------------
(***************************************************************************)
(* gc takes nothing that is needed: no worktree of a live process, no      *)
(* commit that has not landed, no pin of an unresolved push; for any       *)
(* branches, rows, runs, commands and deaths.                              *)
(*                                                                         *)
(* gc acts on what it read a while ago, so the argument is that what it    *)
(* read stays true, or is looked at again: a row that has ended stays      *)
(* ended and a commit that has landed stays landed (GcOK, GcKnows), a      *)
(* branch is compared as it is deleted, and the directory of a run is in   *)
(* the lock that gc looks into before it takes one, while those of later   *)
(* runs are new (Gone).  A push that may be on its way has its marker and  *)
(* its pin (SentOK), because only the holder of the lock settles a row     *)
(* (LockOK, RunOK).                                                        *)
(***************************************************************************)
EXTENDS Gc, Integers, SequenceTheorems, TLAPS

(* Types of what is kept.                                                  *)
Rows       == [branch : Branch, head : Nat \ {0}, status : Statuses, pending : BOOLEAN,
               pushed : BOOLEAN]
Runs       == [pc : {"claimed", "inside", "marked", "pinned", "pushed", "finished"},
               job : Nat, deploy : BOOLEAN, dir : Nat]
Locks      == [owner : {"none", "runner", "reconcile", "dead"}, live : Nat]
Reconciles == [pc : {"deciding", "unpinning"}, job : Nat]
Gcs        == [pc : {"lock", "branches", "worktrees", "pins"}, persistent : BOOLEAN,
               branches : SUBSET Nat, kept : SUBSET Nat, protect : Nat, todo : SUBSET Nat,
               pins : SUBSET Nat, item : Nat]

Types ==
  /\ row \in Seq(Rows) /\ Len(row) <= MaxRows
  /\ tip \in [Branch -> Nat] /\ made \in [Branch -> Nat]
  /\ landed \in [Branch -> Nat] /\ tracking \in [Branch -> Nat]
  /\ run \in Runs \cup {Idle} /\ lock \in Locks
  /\ reconciler \in Reconciles \cup {Idle} /\ gc \in Gcs \cup {Idle}
  /\ counts \in [runs : 0..MaxRuns, gcs : Nat, verifies : Nat]
  /\ verifier \in {"none", "inside", "dead"}
  /\ pin \subseteq Ids /\ sent \subseteq Ids
  /\ run # Idle => run.job \in Ids
  /\ reconciler # Idle => reconciler.job \in Ids
  /\ gc # Idle => gc.branches \subseteq Ids /\ gc.kept \subseteq Ids /\ gc.pins \subseteq Ids

(* Commits are made before they are enqueued, land, and are fetched; only  *)
(* what has landed is recorded as pushed, and only work in hand is marked. *)
RowsOK ==
  /\ \A b \in Branch : tip[b] \in {0, made[b]} /\ tracking[b] <= landed[b] /\ landed[b] <= made[b]
  /\ \A j \in Ids : row[j].head <= made[row[j].branch]
  /\ \A j \in Ids : row[j].pushed => row[j].status = "deployed" /\ OnRemote(j)
  /\ \A j \in Ids : row[j].pending => row[j].status \in {"in_progress", "needs_reconcile"}

(* One at a time holds the lock.                                           *)
LockOK ==
  /\ run # Idle <=> lock.owner = "runner"
  /\ reconciler # Idle <=> lock.owner = "reconcile"
  /\ run # Idle => lock.live = run.dir

(* What the marker of a row says of the run that has it.                   *)
RunOK ==
  /\ run # Idle =>
       /\ run.pc # "finished" => row[run.job].status = "in_progress"
       /\ run.pc \in {"marked", "pinned", "pushed"} => row[run.job].pending
       /\ run.pc = "finished" => row[run.job].status # "in_progress"
       /\ run.pc \in {"pinned", "pushed"} => run.job \in pin
  /\ reconciler # Idle =>
       /\ reconciler.pc = "deciding" => row[reconciler.job].status = "needs_reconcile"
       /\ reconciler.pc = "unpinning" => reconciler.job \notin sent

(* A push that may be on its way has a marker and a pin.                   *)
SentOK == \A j \in sent : row[j].pending /\ j \in pin

(* Directories, and who is in them.                                        *)
Used == (1..counts.runs) \cup {OfPid}
DirsOK ==
  /\ dirs \subseteq Used \cup {Workspace}
  /\ OfPid \in dirs => verifier # "none"
  /\ run # Idle => run.dir \in (1..counts.runs) \cup {Workspace}

(* What gc has read of rows stays true until it acts.                      *)
GcOK ==
  gc # Idle =>
    /\ \A j \in gc.kept : row[j].head <= landed[row[j].branch]
    /\ gc.pc = "pins" /\ gc.item # NoDir => gc.item \in Ids /\ Ended(row[gc.item].status)

(* And what it has read of directories; nobody may be in one that it is to *)
(* remove.                                                                 *)
Gone(d) == d \in Used /\ (d = OfPid => verifier = "dead") /\ (run # Idle => d # run.dir)
SparesOK ==
  /\ run # Idle /\ run.pc # "claimed" => run.dir \in dirs
  /\ verifier = "inside" => OfPid \in dirs
  /\ gc # Idle =>
       /\ gc.persistent
       /\ gc.todo \subseteq Used /\ (OfPid \in gc.todo => verifier = "dead")
       /\ gc.item # NoDir => gc.pc \in {"worktrees", "pins"}
       /\ gc.pc = "worktrees" /\ gc.item # NoDir => Gone(gc.item)

IInv ==
  /\ Types /\ RowsOK /\ LockOK /\ RunOK /\ SentOK /\ DirsOK /\ GcOK
  /\ ~MayTurnOff => SparesOK

-----------------------------------------------------------------------------
(* What the rows are made of.                                              *)
LEMMA RowType ==
  ASSUME row \in Seq(Rows)
  PROVE  /\ row \in [Ids -> Rows] /\ Ids = 1..Len(row) /\ Len(row) \in Nat
         /\ \A j \in Ids : /\ row[j].branch \in Branch /\ row[j].head \in Nat \ {0}
                           /\ row[j].status \in Statuses /\ row[j].pending \in BOOLEAN
                           /\ row[j].pushed \in BOOLEAN
<1>1. row \in [Ids -> Rows] /\ Ids = 1..Len(row) /\ Len(row) \in Nat
  BY DEF Ids
<1> QED
  BY <1>1 DEF Rows

LEMMA RowsChange ==
  ASSUME row \in Seq(Rows), NEW f \in [Ids -> Rows]
  PROVE  f \in Seq(Rows) /\ DOMAIN f = Ids /\ Len(f) = Len(row)
<1>1. Ids = 1..Len(row) /\ Len(row) \in Nat
  BY RowType
<1>2. f \in Seq(Rows)
  BY <1>1, SeqDef
<1> QED
  BY <1>1, <1>2

(* Row j becomes one with another status and other flags.                  *)
Becomes(j, s, p, u) ==
  /\ row' \in Seq(Rows) /\ Ids' = Ids /\ Len(row') = Len(row)
  /\ \A k \in Ids : /\ row'[k].branch = row[k].branch /\ row'[k].head = row[k].head
                    /\ k # j => row'[k] = row[k]
  /\ row'[j].status = s /\ row'[j].pending = p /\ row'[j].pushed = u

LEMMA RowBecomes ==
  ASSUME row \in Seq(Rows), NEW j \in Ids, NEW r \in Rows, row' = [row EXCEPT ![j] = r],
         r.branch = row[j].branch, r.head = row[j].head
  PROVE  Becomes(j, r.status, r.pending, r.pushed)
<1> DEFINE f == [row EXCEPT ![j] = r]
<1>1. row \in [Ids -> Rows]
  BY RowType
<1>2. f \in [Ids -> Rows] /\ f[j] = r /\ \A k \in Ids : k # j => f[k] = row[k]
  BY <1>1
<1>3. f \in Seq(Rows) /\ DOMAIN f = Ids /\ Len(f) = Len(row)
  BY <1>2, RowsChange
<1> QED
  BY <1>2, <1>3 DEF Becomes, Ids

(* The actions that write one row.                                         *)
LEMMA RowWrites ==
  ASSUME row \in Seq(Rows), NEW j \in Ids, NEW s \in Statuses
  PROVE  /\ row' = [row EXCEPT ![j].status = s] => Becomes(j, s, row[j].pending, row[j].pushed)
         /\ row' = [row EXCEPT ![j].pending = TRUE] => Becomes(j, row[j].status, TRUE, row[j].pushed)
         /\ row' = [row EXCEPT ![j] = [@ EXCEPT !.status = s, !.pending = FALSE]]
              => Becomes(j, s, FALSE, row[j].pushed)
         /\ \A u \in BOOLEAN :
              row' = [row EXCEPT ![j] = [@ EXCEPT !.status = s, !.pending = FALSE, !.pushed = u]]
                => Becomes(j, s, FALSE, u)
<1>1. row[j] \in Rows /\ row \in [Ids -> Rows]
  BY RowType
<1>2. ASSUME row' = [row EXCEPT ![j].status = s]
      PROVE  Becomes(j, s, row[j].pending, row[j].pushed)
  <2>1. PICK r : r = [row[j] EXCEPT !.status = s]
    OBVIOUS
  <2>2. /\ r \in Rows /\ r.branch = row[j].branch /\ r.head = row[j].head
        /\ r.status = s /\ r.pending = row[j].pending /\ r.pushed = row[j].pushed
    BY <1>1, <2>1 DEF Rows
  <2> QED
    BY <1>2, <2>1, <2>2, RowBecomes
<1>3. ASSUME row' = [row EXCEPT ![j].pending = TRUE]
      PROVE  Becomes(j, row[j].status, TRUE, row[j].pushed)
  <2>1. PICK r : r = [row[j] EXCEPT !.pending = TRUE]
    OBVIOUS
  <2>2. /\ r \in Rows /\ r.branch = row[j].branch /\ r.head = row[j].head
        /\ r.status = row[j].status /\ r.pending = TRUE /\ r.pushed = row[j].pushed
    BY <1>1, <2>1 DEF Rows
  <2> QED
    BY <1>3, <2>1, <2>2, RowBecomes
<1>4. ASSUME row' = [row EXCEPT ![j] = [@ EXCEPT !.status = s, !.pending = FALSE]]
      PROVE  Becomes(j, s, FALSE, row[j].pushed)
  <2>1. PICK r : r = [row[j] EXCEPT !.status = s, !.pending = FALSE]
    OBVIOUS
  <2>2. /\ r \in Rows /\ r.branch = row[j].branch /\ r.head = row[j].head
        /\ r.status = s /\ r.pending = FALSE /\ r.pushed = row[j].pushed
    BY <1>1, <2>1 DEF Rows
  <2>3. row' = [row EXCEPT ![j] = r]
    BY <1>1, <1>4, <2>1
  <2> QED
    BY <2>2, <2>3, RowBecomes
<1>5. ASSUME NEW u \in BOOLEAN,
             row' = [row EXCEPT ![j] = [@ EXCEPT !.status = s, !.pending = FALSE, !.pushed = u]]
      PROVE  Becomes(j, s, FALSE, u)
  <2>1. PICK r : r = [row[j] EXCEPT !.status = s, !.pending = FALSE, !.pushed = u]
    OBVIOUS
  <2>2. /\ r \in Rows /\ r.branch = row[j].branch /\ r.head = row[j].head
        /\ r.status = s /\ r.pending = FALSE /\ r.pushed = u
    BY <1>1, <2>1 DEF Rows
  <2>3. row' = [row EXCEPT ![j] = r]
    BY <1>1, <1>5, <2>1
  <2> QED
    BY <2>2, <2>3, RowBecomes
<1> QED
  BY <1>2, <1>3, <1>4, <1>5

(* Where the runner and gc are, and where a step takes them.               *)
LEMMA RunSteps ==
  ASSUME run \in Runs \cup {Idle}, NEW from, NEW to, RunStep(from, to), from # "idle",
         to \in {"claimed", "inside", "marked", "pinned", "pushed", "finished"}
  PROVE  /\ run # Idle /\ run \in Runs /\ run' \in Runs /\ run' # Idle
         /\ run.pc = from /\ run'.pc = to
         /\ run'.job = run.job /\ run'.dir = run.dir /\ run'.deploy = run.deploy
<1>1. run # Idle /\ run \in Runs
  BY DEF RunStep, Idle
<1> QED
  BY <1>1 DEF RunStep, Runs, Idle

LEMMA RunType ==
  ASSUME run \in Runs \cup {Idle}
  PROVE  /\ run # Idle => run \in Runs /\ run.job \in Nat /\ run.dir \in Nat /\ run.deploy \in BOOLEAN
         /\ run # Idle <=> run.pc # "idle"
  BY DEF Runs, Idle

LEMMA GcType ==
  ASSUME gc \in Gcs \cup {Idle}
  PROVE  /\ gc # Idle <=> gc.pc # "idle"
         /\ gc # Idle => /\ gc \in Gcs /\ gc.persistent \in BOOLEAN /\ gc.item \in Nat
                         /\ gc.protect \in Nat /\ gc.todo \subseteq Nat /\ gc.pins \subseteq Nat
                         /\ gc.branches \subseteq Nat /\ gc.kept \subseteq Nat
  BY DEF Gcs, Idle

LEMMA ReconcilerType ==
  ASSUME reconciler \in Reconciles \cup {Idle}
  PROVE  /\ reconciler # Idle <=> reconciler.pc # "idle"
         /\ reconciler # Idle => reconciler \in Reconciles /\ reconciler.job \in Nat
  BY DEF Reconciles, Idle

-----------------------------------------------------------------------------
(* What an invariant reads, and so what may change without it.             *)
LEMMA RowsStay ==
  ASSUME RowsOK, UNCHANGED rows
  PROVE  RowsOK' /\ Ids' = Ids
  BY DEF RowsOK, rows, Ids, OnRemote

LEMMA LockStays ==
  ASSUME LockOK, run # Idle <=> run' # Idle, run # Idle => run'.dir = run.dir,
         UNCHANGED <<lock, reconciler>>
  PROVE  LockOK'
  BY DEF LockOK

(* A row that has not ended is written, and the commits are as they were,  *)
(* or land.                                                                *)
LEMMA RowsMove ==
  ASSUME IInv, NEW j \in Ids, NEW s \in Statuses, NEW p \in BOOLEAN, NEW u \in BOOLEAN,
         Becomes(j, s, p, u), UNCHANGED <<tip, made, landed, tracking>>,
         p => s \in {"in_progress", "needs_reconcile"}, u => s = "deployed" /\ OnRemote(j)
  PROVE  RowsOK'
<1> USE DEF IInv, Types
<1>1. /\ Ids' = Ids
      /\ \A k \in Ids : row'[k].branch = row[k].branch /\ row'[k].head = row[k].head
      /\ \A k \in Ids : k # j => row'[k] = row[k]
      /\ row'[j].status = s /\ row'[j].pending = p /\ row'[j].pushed = u
  BY DEF Becomes
<1>2. \A k \in Ids : OnRemote(k)' <=> OnRemote(k)
  BY <1>1 DEF OnRemote
<1>3. RowsOK
  OBVIOUS
<1>4. \A b \in Branch : tip'[b] \in {0, made'[b]} /\ tracking'[b] <= landed'[b] /\ landed'[b] <= made'[b]
  BY <1>3 DEF RowsOK
<1>5. \A k \in Ids' : row'[k].head <= made'[row'[k].branch]
  BY <1>1, <1>3 DEF RowsOK
<1>6. \A k \in Ids' : row'[k].pushed => row'[k].status = "deployed" /\ OnRemote(k)'
  BY <1>1, <1>2, <1>3 DEF RowsOK
<1>7. \A k \in Ids' : row'[k].pending => row'[k].status \in {"in_progress", "needs_reconcile"}
  BY <1>1, <1>3 DEF RowsOK
<1> QED
  BY <1>4, <1>5, <1>6, <1>7 DEF RowsOK

(* What gc knows of rows stays true while rows that have not ended are     *)
(* written, others are added, and commits land.                            *)
LEMMA GcKnows ==
  ASSUME IInv, UNCHANGED gc, Ids \subseteq Ids',
         \A k \in Ids : row'[k].branch = row[k].branch /\ row'[k].head = row[k].head,
         \A k \in Ids : Ended(row[k].status) => row'[k].status = row[k].status,
         \A b \in Branch : \A m \in Nat : m <= landed[b] => m <= landed'[b]
  PROVE  GcOK'
<1>1. gc # Idle => gc.kept \subseteq Ids
  BY DEF IInv, Types
<1>2. GcOK /\ row \in Seq(Rows)
  BY DEF IInv, Types
<1>3. \A k \in Ids : row[k].head \in Nat /\ row[k].branch \in Branch
  BY <1>2, RowType
<1>4. \A k \in Ids : row[k].head <= landed[row[k].branch] => row'[k].head <= landed'[row'[k].branch]
  BY <1>2, <1>3
<1> QED
  BY <1>1, <1>2, <1>4 DEF GcOK

-----------------------------------------------------------------------------
(* Agents, and fetches.                                                    *)
LEMMA CommitKeeps ==
  ASSUME IInv, NEW b \in Branch, Commit(b) PROVE IInv'
<1> USE DEF IInv
<1>1. Types'
  BY DEF Types, Commit, Ids
<1>2. RowsOK'
  <2>1. UNCHANGED <<row, landed, tracking>> /\ Ids' = Ids
    BY DEF Commit, Ids
  <2>2. /\ made' \in [Branch -> Nat] /\ \A m \in Nat : m <= made[b] => m <= made'[b]
        /\ tip'[b] = made'[b] /\ \A c \in Branch : c # b => made'[c] = made[c] /\ tip'[c] = tip[c]
    BY DEF Commit, Types
  <2>3. \A j \in Ids : row[j].head \in Nat /\ row[j].branch \in Branch
    BY RowType DEF Types
  <2>4. landed \in [Branch -> Nat]
    BY DEF Types
  <2>5. \A c \in Branch : tip'[c] \in {0, made'[c]} /\ tracking[c] <= landed[c] /\ landed[c] <= made'[c]
    BY <2>2, <2>4 DEF RowsOK
  <2>6. \A j \in Ids : row[j].head <= made'[row[j].branch]
    BY <2>2, <2>3 DEF RowsOK
  <2>7. \A j \in Ids : OnRemote(j)' <=> OnRemote(j)
    BY <2>1 DEF OnRemote
  <2> QED
    BY <2>1, <2>5, <2>6, <2>7 DEF RowsOK
<1>3. LockOK' /\ RunOK' /\ SentOK' /\ DirsOK' /\ (~MayTurnOff => SparesOK')
  BY DEF LockOK, RunOK, SentOK, DirsOK, SparesOK, Gone, Used, Commit
<1>4. GcOK'
  BY GcKnows DEF Types, Commit, Ids
<1> QED
  BY <1>1, <1>2, <1>3, <1>4

LEMMA FetchKeeps ==
  ASSUME IInv, Fetch PROVE IInv'
<1> USE DEF IInv
<1>1. Types'
  BY DEF Types, Fetch, Ids
<1>2. RowsOK'
  BY DEF Types, RowsOK, Fetch, Ids, OnRemote
<1>3. LockOK' /\ RunOK' /\ SentOK' /\ DirsOK' /\ (~MayTurnOff => SparesOK')
  BY DEF LockOK, RunOK, SentOK, DirsOK, SparesOK, Gone, Used, Fetch
<1>4. GcOK'
  BY GcKnows DEF Types, Fetch, Ids
<1> QED
  BY <1>1, <1>2, <1>3, <1>4

LEMMA EnqueueKeeps ==
  ASSUME GcAssumption, IInv, NEW b \in Branch, Enqueue(b) PROVE IInv'
<1> USE DEF IInv
<1>1. PICK r : /\ r \in Rows /\ row' = Append(row, r) /\ r.branch = b /\ r.head = tip[b]
               /\ ~r.pending /\ ~r.pushed
  <2>1. tip[b] \in Nat \ {0}
    BY DEF Enqueue, Types
  <2>2. [branch |-> b, head |-> tip[b], status |-> "queued", pending |-> FALSE, pushed |-> FALSE]
          \in Rows
    BY <2>1 DEF Rows, Statuses
  <2> QED
    BY <2>2 DEF Enqueue
<1>2. PICK n : /\ n = Len(row') /\ row' \in Seq(Rows) /\ n <= MaxRows /\ row'[n] = r
               /\ Ids \subseteq Ids' /\ Ids' = Ids \cup {n} /\ n \notin Ids
               /\ \A k \in Ids : row'[k] = row[k]
  <2>1. row \in Seq(Rows) /\ Ids = 1..Len(row) /\ Len(row) \in Nat /\ Len(row) < MaxRows
    BY RowType DEF Types, Enqueue
  <2>2. row' \in Seq(Rows) /\ Len(row') = Len(row) + 1 /\ row'[Len(row')] = r
    BY <1>1, <2>1, AppendProperties
  <2>3. \A k \in Ids : row'[k] = row[k]
    BY <1>1, <2>1, AppendProperties
  <2>4. Ids' = 1..(Len(row) + 1)
    BY <2>2, LenProperties DEF Ids
  <2>5. MaxRows \in Nat
    BY DEF GcAssumption
  <2> QED
    BY <2>1, <2>2, <2>3, <2>4, <2>5
<1>3. Types'
  BY <1>2 DEF Types, Enqueue
<1>4. RowsOK'
  <2>1. r.head <= made[b]
    <3>1. tip[b] \in {0, made[b]} /\ tip[b] > 0
      BY DEF RowsOK, Enqueue
    <3> QED
      BY <1>1, <3>1 DEF Types
  <2>2. RowsOK /\ UNCHANGED <<tip, made, landed, tracking>>
    BY DEF Enqueue
  <2>3. \A j \in Ids : OnRemote(j)' <=> OnRemote(j)
    BY <1>2, <2>2 DEF OnRemote
  <2>4. ASSUME NEW j \in Ids'
        PROVE  /\ row'[j].head <= made[row'[j].branch]
               /\ row'[j].pushed => row'[j].status = "deployed" /\ OnRemote(j)'
               /\ row'[j].pending => row'[j].status \in {"in_progress", "needs_reconcile"}
    <3>1. CASE j = n
      BY <1>1, <1>2, <2>1, <3>1
    <3>2. CASE j \in Ids
      BY <1>2, <2>2, <2>3, <3>2 DEF RowsOK
    <3> QED
      BY <1>2, <3>1, <3>2
  <2> QED
    BY <2>2, <2>4 DEF RowsOK
<1>5. LockOK' /\ RunOK' /\ SentOK'
  BY <1>2 DEF LockOK, RunOK, SentOK, Types, Enqueue
<1>6. DirsOK' /\ (~MayTurnOff => SparesOK')
  BY DEF DirsOK, SparesOK, Gone, Used, Enqueue
<1>7. GcOK'
  BY <1>2, GcKnows DEF Types, Enqueue
<1> QED
  BY <1>3, <1>4, <1>5, <1>6, <1>7

LEMMA CancelKeeps ==
  ASSUME IInv, NEW j \in Ids, Cancel(j) PROVE IInv'
<1> USE DEF IInv
<1>1. Becomes(j, "canceled", FALSE, row[j].pushed) /\ row[j].status = "queued"
  BY RowWrites DEF Cancel, Types, Statuses
<1>2. Types'
  BY <1>1 DEF Becomes, Types, Cancel
<1>3. RowsOK'
  <2>1. row[j].pushed = FALSE
    BY <1>1, RowType DEF RowsOK, Types
  <2> QED
    BY <1>1, <2>1, RowsMove DEF Cancel, Statuses
<1>4. LockOK' /\ DirsOK' /\ (~MayTurnOff => SparesOK')
  BY DEF LockOK, DirsOK, SparesOK, Gone, Used, Cancel
<1>5. RunOK' /\ SentOK'
  <2>1. j \notin sent /\ ~row[j].pending
    BY <1>1 DEF SentOK, RowsOK
  <2>2. \A k \in Ids : k # j => row'[k] = row[k]
    BY <1>1 DEF Becomes
  <2>3. SentOK'
    BY <2>1, <2>2 DEF SentOK, Types, Cancel
  <2>4. RunOK'
    <3>1. row'[j].status = "canceled" /\ UNCHANGED <<run, reconciler, pin, sent>>
      BY <1>1 DEF Becomes, Cancel
    <3>2. run # Idle => run.job \in Ids
      BY DEF Types
    <3>3. reconciler # Idle => reconciler.job \in Ids
      BY DEF Types
    <3>4. \A k \in Ids : k # j \/ row[k].status = "queued"
      BY <1>1
    <3>5. run # Idle =>
            /\ run.pc # "finished" => row'[run.job].status = "in_progress"
            /\ run.pc \in {"marked", "pinned", "pushed"} => row'[run.job].pending
            /\ run.pc = "finished" => row'[run.job].status # "in_progress"
            /\ run.pc \in {"pinned", "pushed"} => run.job \in pin
      BY <2>2, <3>1, <3>2, <3>4, <2>1 DEF RunOK
    <3> QED
      BY <2>2, <3>1, <3>3, <3>4, <3>5 DEF RunOK
  <2> QED
    BY <2>3, <2>4
<1>6. GcOK'
  <2>1. Ids' = Ids /\ \A k \in Ids : k # j => row'[k] = row[k]
    BY <1>1 DEF Becomes
  <2>2. \A k \in Ids : row'[k].branch = row[k].branch /\ row'[k].head = row[k].head
    BY <1>1 DEF Becomes
  <2> QED
    BY <1>1, <2>1, <2>2, GcKnows DEF Types, Cancel, Ended
<1> QED
  BY <1>2, <1>3, <1>4, <1>5, <1>6

-----------------------------------------------------------------------------
(* Whoever takes the lock.                                                 *)
LEMMA ClaimKeeps ==
  ASSUME GcAssumption, IInv, NEW j \in Ids, NEW deploy \in BOOLEAN, Claim(j, deploy) PROVE IInv'
<1> USE DEF IInv
<1>1. Becomes(j, "in_progress", FALSE, row[j].pushed) /\ row[j].status = "queued"
  <2>1. row[j].pending = FALSE
    BY RowType DEF Claim, RowsOK, Types
  <2> QED
    BY <2>1, RowWrites DEF Claim, Types, Statuses
<1>2. /\ counts.runs \in 0..MaxRuns /\ counts.runs < MaxRuns /\ MaxRuns \in Nat /\ MaxRows \in Nat
      /\ counts'.runs = counts.runs + 1
      /\ counts' \in [runs : 0..MaxRuns, gcs : Nat, verifies : Nat]
  <2>1. MaxRuns \in Nat /\ MaxRows \in Nat
    BY DEF GcAssumption
  <2>2. counts \in [runs : 0..MaxRuns, gcs : Nat, verifies : Nat]
    BY DEF Types
  <2>3. counts.runs < MaxRuns /\ counts' = [counts EXCEPT !.runs = counts.runs + 1]
    BY DEF Claim, Counted
  <2> QED
    BY <2>1, <2>2, <2>3
<1>3. run = Idle /\ reconciler = Idle
  BY DEF Claim, LockOK, Free
<1>4. /\ run' \in Runs /\ run' # Idle /\ run'.pc = "claimed" /\ run'.job = j
      /\ run'.dir \in {counts.runs + 1, Workspace}
  <2>1. j \in Nat
    BY RowType DEF Types
  <2> QED
    BY <1>2, <2>1 DEF Claim, Runs, Idle, Workspace
<1>5. lock' \in Locks /\ lock'.owner = "runner" /\ lock'.live = run'.dir
  BY <1>2, <1>4 DEF Claim, Locks, Workspace
<1>6. Types'
  BY <1>1, <1>2, <1>4, <1>5 DEF Becomes, Types, Claim
<1>7. RowsOK'
  <2>1. row[j].pushed = FALSE
    BY <1>1, RowType DEF RowsOK, Types
  <2> QED
    BY <1>1, <2>1, RowsMove DEF Claim, Statuses
<1>8. LockOK'
  BY <1>3, <1>4, <1>5 DEF LockOK, Claim
<1>9. RunOK' /\ SentOK'
  <2>1. j \notin sent
    BY <1>1 DEF SentOK, RowsOK
  <2>2. SentOK'
    BY <1>1, <2>1 DEF Becomes, SentOK, Types, Claim
  <2>3. RunOK'
    BY <1>1, <1>3, <1>4 DEF Becomes, RunOK, Claim
  <2> QED
    BY <2>2, <2>3
<1>10. DirsOK'
  BY <1>2, <1>4 DEF DirsOK, Used, Claim
<1>11. GcOK'
  <2>1. Ids' = Ids /\ \A k \in Ids : k # j => row'[k] = row[k]
    BY <1>1 DEF Becomes
  <2>2. \A k \in Ids : row'[k].branch = row[k].branch /\ row'[k].head = row[k].head
    BY <1>1 DEF Becomes
  <2> QED
    BY <1>1, <2>1, <2>2, GcKnows DEF Types, Claim, Ended
<1>12. ~MayTurnOff => SparesOK'
  <2> SUFFICES ASSUME ~MayTurnOff PROVE SparesOK'
    OBVIOUS
  <2>1. SparesOK /\ UNCHANGED <<gc, dirs, verifier>>
    BY DEF Claim
  <2>2. Used \subseteq Used'
    BY <1>2 DEF Used
  <2>3. \A d \in Used : d # run'.dir
    BY <1>2, <1>4 DEF Used, Workspace, OfPid
  <2> QED
    BY <1>4, <2>1, <2>2, <2>3 DEF SparesOK, Gone
<1> QED
  BY <1>6, <1>7, <1>8, <1>9, <1>10, <1>11, <1>12

LEMMA TakeOverKeeps ==
  ASSUME IInv, TakeOver PROVE IInv'
<1> USE DEF IInv
<1>1. /\ row' \in Seq(Rows) /\ Ids' = Ids /\ Len(row') = Len(row)
      /\ \A j \in Ids : /\ row'[j].branch = row[j].branch /\ row'[j].head = row[j].head
                        /\ row'[j].pending = row[j].pending /\ row'[j].pushed = row[j].pushed
                        /\ row[j].status # "in_progress" => row'[j].status = row[j].status
                        /\ row[j].status = "in_progress" =>
                             row'[j].status = IF row[j].pending THEN "needs_reconcile" ELSE "queued"
  <2>1. row \in [Ids -> Rows]
    BY RowType DEF Types
  <2>2. Recovered \in [Ids -> Rows]
    BY <2>1 DEF Recovered, Rows, Statuses
  <2>3. row' \in Seq(Rows) /\ Ids' = Ids /\ Len(row') = Len(row)
    BY <2>2, RowsChange DEF TakeOver, Types, Ids
  <2>4. \A j \in Ids : row'[j] = IF row[j].status # "in_progress" THEN row[j]
                                 ELSE [row[j] EXCEPT !.status = IF row[j].pending THEN "needs_reconcile" ELSE "queued"]
    BY DEF TakeOver, Recovered
  <2>5. ASSUME NEW j \in Ids
        PROVE  /\ row'[j].branch = row[j].branch /\ row'[j].head = row[j].head
               /\ row'[j].pending = row[j].pending /\ row'[j].pushed = row[j].pushed
               /\ row[j].status # "in_progress" => row'[j].status = row[j].status
               /\ row[j].status = "in_progress" =>
                    row'[j].status = IF row[j].pending THEN "needs_reconcile" ELSE "queued"
    <3>1. row[j] \in Rows
      BY <2>1
    <3>2. PICK s : s = IF row[j].pending THEN "needs_reconcile" ELSE "queued"
      OBVIOUS
    <3>3. PICK r : r = [row[j] EXCEPT !.status = s]
      OBVIOUS
    <3>4. /\ r.branch = row[j].branch /\ r.head = row[j].head
          /\ r.pending = row[j].pending /\ r.pushed = row[j].pushed /\ r.status = s
      BY <3>1, <3>3 DEF Rows
    <3>5. row'[j] = IF row[j].status # "in_progress" THEN row[j] ELSE r
      BY <2>4, <3>2, <3>3
    <3> QED
      BY <3>2, <3>4, <3>5
  <2> QED
    BY <2>3, <2>5
<1>2. run = Idle /\ reconciler = Idle
  BY DEF TakeOver, LockOK, Free
<1>3. Types'
  BY <1>1 DEF Types, TakeOver
<1>4. RowsOK'
  <2>1. \A j \in Ids : OnRemote(j)' <=> OnRemote(j)
    BY <1>1 DEF OnRemote, TakeOver
  <2>2. \A j \in Ids : row[j].pushed => row[j].status # "in_progress"
    BY DEF RowsOK
  <2>3. \A j \in Ids : row'[j].pushed => row'[j].status = "deployed" /\ OnRemote(j)'
    BY <1>1, <2>1, <2>2 DEF RowsOK
  <2>4. \A j \in Ids : row'[j].pending => row'[j].status \in {"in_progress", "needs_reconcile"}
    BY <1>1 DEF RowsOK
  <2>5. \A j \in Ids : row'[j].head <= made'[row'[j].branch]
    BY <1>1 DEF RowsOK, TakeOver
  <2>6. \A b \in Branch : tip'[b] \in {0, made'[b]} /\ tracking'[b] <= landed'[b] /\ landed'[b] <= made'[b]
    BY DEF RowsOK, TakeOver
  <2> QED
    BY <1>1, <2>3, <2>4, <2>5, <2>6 DEF RowsOK
<1>5. LockOK' /\ RunOK' /\ DirsOK' /\ (~MayTurnOff => SparesOK')
  BY <1>2 DEF LockOK, RunOK, DirsOK, SparesOK, Gone, Used, TakeOver
<1>6. SentOK'
  BY <1>1 DEF SentOK, Types, TakeOver
<1>7. GcOK'
  <2>1. \A j \in Ids : Ended(row[j].status) => row'[j].status = row[j].status
    BY <1>1 DEF Ended
  <2> QED
    BY <1>1, <2>1, GcKnows DEF Types, TakeOver
<1> QED
  BY <1>3, <1>4, <1>5, <1>6, <1>7

LEMMA ReconcileStartsKeeps ==
  ASSUME GcAssumption, IInv, NEW j \in Ids, ReconcileStarts(j) PROVE IInv'
<1> USE DEF IInv
<1>1. run = Idle /\ reconciler = Idle
  BY DEF ReconcileStarts, LockOK, Free
<1>2. /\ reconciler' \in Reconciles /\ reconciler' # Idle
      /\ reconciler'.pc = "deciding" /\ reconciler'.job = j
  BY RowType DEF ReconcileStarts, Types, Reconciles, Idle
<1>3. lock' \in Locks /\ lock'.owner = "reconcile"
  BY DEF ReconcileStarts, Locks, NoDir, GcAssumption
<1>4. Types' /\ RowsOK'
  <2>1. RowsOK' /\ Ids' = Ids
    BY RowsStay DEF ReconcileStarts
  <2> QED
    BY <1>2, <1>3, <2>1 DEF Types, ReconcileStarts, rows
<1>5. LockOK' /\ RunOK' /\ SentOK' /\ DirsOK' /\ (~MayTurnOff => SparesOK')
  BY <1>1, <1>2, <1>3 DEF LockOK, RunOK, SentOK, DirsOK, SparesOK, Gone, Used, ReconcileStarts, rows
<1>6. GcOK'
  BY GcKnows DEF Types, ReconcileStarts, rows, Ids
<1> QED
  BY <1>4, <1>5, <1>6

-----------------------------------------------------------------------------
(* A run.                                                                  *)
RunPasses(from, to) ==
  /\ run # Idle /\ run' \in Runs /\ run' # Idle /\ run.pc = from /\ run'.pc = to
  /\ run'.job = run.job /\ run'.dir = run.dir /\ run.job \in Ids

LEMMA RunPassed ==
  ASSUME IInv, NEW from, NEW to, RunStep(from, to), from # "idle",
         to \in {"claimed", "inside", "marked", "pinned", "pushed", "finished"}
  PROVE  RunPasses(from, to)
  BY RunSteps DEF RunPasses, IInv, Types

LEMMA EnterKeeps ==
  ASSUME GcAssumption, IInv, Enter PROVE IInv'
<1> USE DEF IInv
<1>1. RunPasses("claimed", "inside") /\ dirs' = dirs \cup {run.dir}
  BY RunPassed DEF Enter
<1>2. RowsOK' /\ Ids' = Ids /\ UNCHANGED <<pin, sent, lock, verifier, reconciler, gc, counts>>
  BY RowsStay DEF Enter
<1>3. Types'
  BY <1>1, <1>2 DEF RunPasses, Types, Enter, rows
<1>4. LockOK'
  BY <1>1, <1>2 DEF RunPasses, LockOK
<1>5. RunOK' /\ SentOK'
  BY <1>1, <1>2 DEF RunPasses, RunOK, SentOK, Enter, rows
<1>6. DirsOK'
  <2>1. MaxRuns \in Nat /\ counts.runs \in 0..MaxRuns
    BY DEF GcAssumption, Types
  <2>2. run.dir \in (1..counts.runs) \cup {Workspace} /\ run.dir # OfPid
    BY <1>1, <2>1 DEF RunPasses, DirsOK, Workspace, OfPid
  <2> QED
    BY <1>1, <1>2, <2>2 DEF RunPasses, DirsOK, Used
<1>7. GcOK'
  BY <1>2, GcKnows DEF Types, Enter, rows
<1>8. ~MayTurnOff => SparesOK'
  BY <1>1, <1>2 DEF RunPasses, SparesOK, Gone, Used
<1> QED
  BY <1>2, <1>3, <1>4, <1>5, <1>6, <1>7, <1>8

LEMMA MarkKeeps ==
  ASSUME IInv, Mark PROVE IInv'
<1> USE DEF IInv
<1>1. RunPasses("inside", "marked")
  BY RunPassed DEF Mark
<1>2. PICK j \in Ids : j = run.job
  BY <1>1 DEF RunPasses
<1>3. Becomes(j, "in_progress", TRUE, row[j].pushed) /\ row[j].status = "in_progress"
  <2>1. row[j].status = "in_progress"
    BY <1>1, <1>2 DEF RunPasses, RunOK
  <2>2. row' = [row EXCEPT ![j].pending = TRUE]
    BY <1>2 DEF Mark
  <2> QED
    BY <2>1, <2>2, RowWrites DEF Types, Statuses
<1>4. UNCHANGED <<tip, made, landed, tracking, pin, sent, dirs, lock, verifier, reconciler, gc, counts>>
  BY DEF Mark
<1>5. /\ Ids' = Ids /\ \A k \in Ids : row'[k].branch = row[k].branch /\ row'[k].head = row[k].head
      /\ \A k \in Ids : k # j => row'[k] = row[k]
      /\ row'[j].status = "in_progress" /\ row'[j].pending
  BY <1>3 DEF Becomes
<1>6. Types'
  BY <1>1, <1>3, <1>4 DEF Becomes, RunPasses, Types
<1>7. RowsOK'
  <2>1. row[j].pushed = FALSE
    BY <1>3, RowType DEF RowsOK, Types
  <2> QED
    BY <1>3, <1>4, <2>1, RowsMove DEF Statuses
<1>8. LockOK' /\ DirsOK' /\ (~MayTurnOff => SparesOK')
  BY <1>1, <1>4 DEF RunPasses, LockOK, DirsOK, SparesOK, Gone, Used
<1>9. SentOK'
  BY <1>4, <1>5 DEF SentOK, Types
<1>10. RunOK'
  <2>1. reconciler = Idle
    BY <1>1 DEF RunPasses, LockOK
  <2> QED
    BY <1>1, <1>2, <1>4, <1>5, <2>1 DEF RunPasses, RunOK
<1>11. GcOK'
  BY <1>3, <1>4, <1>5, GcKnows DEF Types, Ended
<1> QED
  BY <1>6, <1>7, <1>8, <1>9, <1>10, <1>11

LEMMA PinKeeps ==
  ASSUME IInv, Pin PROVE IInv'
<1> USE DEF IInv
<1>1. RunPasses("marked", "pinned") /\ pin' = pin \cup {run.job}
  BY RunPassed DEF Pin
<1>2. RowsOK' /\ Ids' = Ids /\ UNCHANGED <<row, sent, dirs, lock, verifier, reconciler, gc, counts>>
  BY RowsStay DEF Pin, rows
<1>3. Types'
  BY <1>1, <1>2 DEF RunPasses, Types, Pin, rows
<1>4. LockOK' /\ DirsOK' /\ (~MayTurnOff => SparesOK')
  BY <1>1, <1>2 DEF RunPasses, LockOK, DirsOK, SparesOK, Gone, Used
<1>5. RunOK' /\ SentOK'
  BY <1>1, <1>2 DEF RunPasses, RunOK, SentOK
<1>6. GcOK'
  BY <1>2, GcKnows DEF Types, Pin, rows
<1> QED
  BY <1>2, <1>3, <1>4, <1>5, <1>6

(* A commit lands, or stays landed.                                        *)
LEMMA LandsOn ==
  ASSUME IInv, NEW j \in Ids, Lands(j) \/ UNCHANGED landed, UNCHANGED <<row, tip, made, tracking>>
  PROVE  /\ RowsOK' /\ landed' \in [Branch -> Nat] /\ Ids' = Ids
         /\ \A b \in Branch : \A m \in Nat : m <= landed[b] => m <= landed'[b]
<1> USE DEF IInv
<1>1. CASE UNCHANGED landed
  BY <1>1, RowsStay DEF rows, Types
<1>2. CASE Lands(j)
  <2>1. /\ row[j].head \in Nat /\ row[j].branch \in Branch /\ row[j].head <= made[row[j].branch]
        /\ landed \in [Branch -> Nat] /\ made \in [Branch -> Nat] /\ tracking \in [Branch -> Nat]
    BY RowType DEF Types, RowsOK
  <2>2. PICK b \in Branch, h \in Nat : b = row[j].branch /\ h = row[j].head
    BY <2>1
  <2>3. landed' = [landed EXCEPT ![b] = IF landed[b] < h THEN h ELSE landed[b]]
    BY <1>2, <2>2 DEF Lands
  <2>4. landed' \in [Branch -> Nat] /\ \A c \in Branch : c # b => landed'[c] = landed[c]
    BY <2>1, <2>3
  <2>5. PICK n \in Nat : n = landed[b]
    BY <2>1
  <2>6. landed'[b] = IF n < h THEN h ELSE n
    BY <2>1, <2>3, <2>5
  <2>7. \A m \in Nat : m <= n => m <= landed'[b]
    BY <2>6
  <2>8. \A c \in Branch : \A m \in Nat : m <= landed[c] => m <= landed'[c]
    BY <2>4, <2>5, <2>7
  <2>9. \A c \in Branch : tip[c] \in {0, made[c]} /\ tracking[c] <= landed'[c] /\ landed'[c] <= made[c]
    <3>1. \A c \in Branch : tip[c] \in {0, made[c]} /\ tracking[c] <= landed[c] /\ landed[c] <= made[c]
      BY DEF RowsOK
    <3>2. landed'[b] <= made[b]
      BY <2>1, <2>2, <2>5, <2>6, <3>1
    <3>3. \A c \in Branch : tracking[c] <= landed'[c]
      BY <2>1, <2>8, <3>1
    <3> QED
      BY <2>4, <3>1, <3>2, <3>3
  <2>10. \A k \in Ids : OnRemote(k) => OnRemote(k)'
    BY <2>8, RowType DEF OnRemote, Types
  <2>11. RowsOK'
    BY <2>9, <2>10 DEF RowsOK, Ids
  <2> QED
    BY <2>4, <2>8, <2>11 DEF Ids
<1> QED
  BY <1>1, <1>2

LEMMA PushOutKeeps ==
  ASSUME IInv, NEW lands \in BOOLEAN, PushOut(lands) PROVE IInv'
<1> USE DEF IInv
<1>1. RunPasses("pinned", "pushed") /\ sent' = sent \cup {run.job}
  BY RunPassed DEF PushOut
<1>2. UNCHANGED <<row, tip, made, tracking, pin, dirs, lock, verifier, reconciler, gc, counts>>
  BY DEF PushOut
<1>3. /\ RowsOK' /\ landed' \in [Branch -> Nat] /\ Ids' = Ids
      /\ \A b \in Branch : \A m \in Nat : m <= landed[b] => m <= landed'[b]
  BY <1>1, <1>2, LandsOn DEF PushOut, RunPasses
<1>4. Types'
  BY <1>1, <1>2, <1>3 DEF RunPasses, Types
<1>5. LockOK' /\ DirsOK' /\ (~MayTurnOff => SparesOK')
  BY <1>1, <1>2 DEF RunPasses, LockOK, DirsOK, SparesOK, Gone, Used
<1>6. RunOK' /\ SentOK'
  <2>1. reconciler = Idle
    BY <1>1 DEF RunPasses, LockOK
  <2> QED
    BY <1>1, <1>2, <2>1 DEF RunPasses, RunOK, SentOK
<1>7. GcOK'
  BY <1>2, <1>3, GcKnows
<1> QED
  BY <1>3, <1>4, <1>5, <1>6, <1>7

(* Row j stands where it has ended or is to be run again, or is parked.    *)
LEMMA FinishKeeps ==
  ASSUME IInv, Finish PROVE IInv'
<1> USE DEF IInv
<1>1. \/ RunPasses("pushed", "finished")
      \/ RunPasses("inside", "finished")
  BY RunPassed DEF Finish
<1>2. PICK j \in Ids : j = run.job /\ run # Idle
  BY <1>1 DEF RunPasses
<1>3. row[j].status = "in_progress" /\ reconciler = Idle
  BY <1>1, <1>2 DEF RunPasses, RunOK, LockOK
<1>4. PICK s \in Statuses : /\ s \in {"deployed", "failed", "queued"}
                            /\ s = "deployed" => OnRemote(j)
                            /\ Becomes(j, s, FALSE, s = "deployed")
  <2>1. PICK s : s = IF run.pc = "pushed" THEN (IF OnRemote(j) THEN "deployed" ELSE "failed")
                     ELSE IF run.deploy THEN "failed" ELSE "queued"
    OBVIOUS
  <2>2. s \in {"deployed", "failed", "queued"} /\ (s = "deployed" => OnRemote(j))
    BY <2>1
  <2>3. row' = [row EXCEPT ![j] = [@ EXCEPT !.status = s, !.pending = FALSE, !.pushed = (s = "deployed")]]
    BY <1>2, <2>1 DEF Finish
  <2>4. s \in Statuses /\ (s = "deployed") \in BOOLEAN /\ row \in Seq(Rows)
    BY <2>2 DEF Types, Statuses
  <2> QED
    BY <2>2, <2>3, <2>4, RowWrites
<1>5. /\ sent' = sent \ {j}
      /\ UNCHANGED <<tip, made, landed, tracking, pin, dirs, lock, verifier, reconciler, gc, counts>>
  BY <1>2 DEF Finish
<1>6. /\ Ids' = Ids /\ \A k \in Ids : row'[k].branch = row[k].branch /\ row'[k].head = row[k].head
      /\ \A k \in Ids : k # j => row'[k] = row[k]
      /\ row'[j].status = s
  BY <1>4 DEF Becomes
<1>7. run' \in Runs /\ run' # Idle /\ run'.pc = "finished" /\ run'.job = j /\ run'.dir = run.dir
      /\ run.pc # "claimed"
  BY <1>1, <1>2 DEF RunPasses
<1>8. Types'
  BY <1>4, <1>5, <1>7 DEF Becomes, Types
<1>9. RowsOK'
  BY <1>4, <1>5, RowsMove DEF Statuses
<1>10. LockOK' /\ DirsOK' /\ (~MayTurnOff => SparesOK')
  BY <1>2, <1>5, <1>7 DEF LockOK, DirsOK, SparesOK, Gone, Used
<1>11. SentOK'
  BY <1>5, <1>6 DEF SentOK, Types
<1>12. RunOK'
  BY <1>3, <1>4, <1>5, <1>6, <1>7 DEF RunOK
<1>13. GcOK'
  BY <1>3, <1>5, <1>6, GcKnows DEF Types, Ended
<1> QED
  BY <1>8, <1>9, <1>10, <1>11, <1>12, <1>13

LEMMA ParkKeeps ==
  ASSUME IInv, Park PROVE IInv'
<1> USE DEF IInv
<1>1. RunPasses("pushed", "finished")
  BY RunPassed DEF Park
<1>2. PICK j \in Ids : j = run.job /\ run # Idle
  BY <1>1 DEF RunPasses
<1>3. row[j].status = "in_progress" /\ row[j].pending /\ reconciler = Idle
  BY <1>1, <1>2 DEF RunPasses, RunOK, LockOK
<1>4. Becomes(j, "needs_reconcile", TRUE, row[j].pushed)
  <2>1. row[j].pending = TRUE
    BY <1>3, RowType DEF Types
  <2> QED
    BY <1>2, <2>1, RowWrites DEF Park, Types, Statuses
<1>5. UNCHANGED <<tip, made, landed, tracking, pin, sent, dirs, lock, verifier, reconciler, gc, counts>>
  BY DEF Park
<1>6. /\ Ids' = Ids /\ \A k \in Ids : row'[k].branch = row[k].branch /\ row'[k].head = row[k].head
      /\ \A k \in Ids : k # j => row'[k] = row[k]
      /\ row'[j].status = "needs_reconcile" /\ row'[j].pending
  BY <1>4 DEF Becomes
<1>7. run' \in Runs /\ run' # Idle /\ run'.pc = "finished" /\ run'.job = j /\ run'.dir = run.dir
      /\ run.pc # "claimed"
  BY <1>1, <1>2 DEF RunPasses
<1>8. Types'
  BY <1>4, <1>5, <1>7 DEF Becomes, Types
<1>9. RowsOK'
  <2>1. row[j].pushed = FALSE
    BY <1>3, RowType DEF RowsOK, Types
  <2> QED
    BY <1>4, <1>5, <2>1, RowsMove DEF Statuses
<1>10. LockOK' /\ DirsOK' /\ (~MayTurnOff => SparesOK')
  BY <1>2, <1>5, <1>7 DEF LockOK, DirsOK, SparesOK, Gone, Used
<1>11. SentOK'
  BY <1>5, <1>6 DEF SentOK, Types
<1>12. RunOK'
  BY <1>3, <1>5, <1>6, <1>7 DEF RunOK
<1>13. GcOK'
  BY <1>3, <1>5, <1>6, GcKnows DEF Types, Ended
<1> QED
  BY <1>8, <1>9, <1>10, <1>11, <1>12, <1>13

LEMMA LeaveKeeps ==
  ASSUME GcAssumption, IInv, Leave PROVE IInv'
<1> USE DEF IInv
<1>1. run # Idle /\ run.pc = "finished" /\ run' = Idle /\ run.job \in Ids /\ reconciler = Idle
  BY RunType DEF Leave, Types, LockOK
<1>2. /\ row[run.job].status # "needs_reconcile" => run.job \notin sent
      /\ row[run.job].status # "in_progress"
  BY <1>1 DEF RunOK, SentOK, RowsOK
<1>3. /\ RowsOK' /\ Ids' = Ids
      /\ UNCHANGED <<row, landed, sent, verifier, reconciler, gc, counts>>
  BY RowsStay DEF Leave, rows
<1>4. lock' = NoLock /\ NoLock \in Locks
  <2>1. lock' = NoLock
    BY DEF Leave
  <2> QED
    BY <2>1 DEF NoLock, Locks, NoDir, GcAssumption
<1>5. Types'
  BY <1>1, <1>3, <1>4 DEF Types, Leave, rows
<1>6. LockOK' /\ RunOK'
  BY <1>1, <1>3, <1>4 DEF LockOK, RunOK, NoLock
<1>7. SentOK'
  BY <1>2, <1>3 DEF SentOK, Leave
<1>8. DirsOK'
  BY <1>1, <1>3 DEF DirsOK, Used, Leave
<1>9. GcOK'
  BY <1>3, GcKnows DEF Types
<1>10. ~MayTurnOff => SparesOK'
  <2>1. run.dir # OfPid
    BY <1>1 DEF DirsOK, Workspace, OfPid, Types, GcAssumption
  <2> QED
    BY <1>1, <1>3, <2>1 DEF SparesOK, Gone, Used, Leave
<1> QED
  BY <1>3, <1>5, <1>6, <1>7, <1>8, <1>9, <1>10

LEMMA DieKeeps ==
  ASSUME IInv, NEW lands \in BOOLEAN, Die(lands) PROVE IInv'
<1> USE DEF IInv
<1>1. run # Idle /\ run' = Idle /\ run.job \in Ids /\ reconciler = Idle
  BY DEF Die, Types, LockOK
<1>2. UNCHANGED <<row, tip, made, tracking, pin, sent, dirs, verifier, reconciler, gc, counts>>
  BY DEF Die
<1>3. /\ RowsOK' /\ landed' \in [Branch -> Nat] /\ Ids' = Ids
      /\ \A b \in Branch : \A m \in Nat : m <= landed[b] => m <= landed'[b]
  BY <1>1, <1>2, LandsOn DEF Die
<1>4. lock' \in Locks /\ lock'.owner = "dead"
  BY DEF Die, Types, Locks
<1>5. Types'
  BY <1>1, <1>2, <1>3, <1>4 DEF Types
<1>6. LockOK' /\ RunOK' /\ SentOK' /\ DirsOK' /\ (~MayTurnOff => SparesOK')
  BY <1>1, <1>2, <1>4 DEF LockOK, RunOK, SentOK, DirsOK, SparesOK, Gone, Used
<1>7. GcOK'
  BY <1>2, <1>3, GcKnows
<1> QED
  BY <1>3, <1>5, <1>6, <1>7

-----------------------------------------------------------------------------
(* A verify, and reconcile.                                                *)
LEMMA VerifyKeeps ==
  ASSUME GcAssumption, IInv, Verify PROVE IInv'
<1> USE DEF IInv
<1>1. /\ RowsOK' /\ Ids' = Ids
      /\ UNCHANGED <<row, landed, pin, sent, lock, run, reconciler, gc>>
  BY RowsStay DEF Verify, rows
<1>2. /\ counts' \in [runs : 0..MaxRuns, gcs : Nat, verifies : Nat] /\ counts'.runs = counts.runs
      /\ verifier' \in {"none", "inside", "dead"}
  <2>1. counts \in [runs : 0..MaxRuns, gcs : Nat, verifies : Nat]
    BY DEF Types
  <2>2. counts' = counts \/ counts' = [counts EXCEPT !.verifies = counts.verifies + 1]
    BY DEF Verify, Counted
  <2>3. verifier' \in {"none", "inside", "dead"}
    BY DEF Verify
  <2> QED
    BY <2>1, <2>2, <2>3
<1>3. Types'
  BY <1>1, <1>2 DEF Types, Verify, rows
<1>4. LockOK' /\ RunOK' /\ SentOK'
  BY <1>1 DEF LockOK, RunOK, SentOK
<1>5. DirsOK'
  BY <1>1, <1>2 DEF DirsOK, Used, Verify
<1>6. GcOK'
  BY <1>1, GcKnows DEF Types
<1>7. ~MayTurnOff => SparesOK'
  <2>1. run # Idle => run.dir # OfPid
    BY DEF DirsOK, Workspace, OfPid, Types, GcAssumption
  <2> QED
    BY <1>1, <1>2, <2>1 DEF SparesOK, Gone, Used, Verify
<1> QED
  BY <1>1, <1>3, <1>4, <1>5, <1>6, <1>7

LEMMA ReconcileSettlesKeeps ==
  ASSUME IInv, ReconcileSettles PROVE IInv'
<1> USE DEF IInv
<1>1. /\ reconciler # Idle /\ reconciler.pc = "deciding" /\ run = Idle
      /\ reconciler' \in Reconciles /\ reconciler' # Idle
      /\ reconciler'.pc = "unpinning" /\ reconciler'.job = reconciler.job
  <2>1. reconciler # Idle /\ reconciler \in Reconciles
    BY ReconcilerType DEF ReconcileSettles, Types
  <2> QED
    BY <2>1 DEF ReconcileSettles, Reconciles, Idle, LockOK
<1>2. PICK j \in Ids : j = reconciler.job /\ row[j].status = "needs_reconcile"
  BY <1>1 DEF Types, RunOK
<1>3. PICK s \in Statuses : /\ s \in {"deployed", "queued"}
                            /\ s = "deployed" => OnRemote(j)
                            /\ Becomes(j, s, FALSE, s = "deployed")
  <2>1. PICK s : /\ s \in {"deployed", "queued"} /\ (s = "deployed" <=> OnRemote(j))
                 /\ s = IF OnRemote(j) THEN "deployed" ELSE "queued"
    OBVIOUS
  <2>2. OnRemote(j) \in BOOLEAN /\ OnRemote(j) = (s = "deployed")
    BY <2>1 DEF OnRemote
  <2>3. row' = [row EXCEPT ![j] = [@ EXCEPT !.status = s, !.pending = FALSE, !.pushed = (s = "deployed")]]
    BY <1>2, <2>1, <2>2 DEF ReconcileSettles, Settles
  <2> QED
    BY <2>1, <2>3, RowWrites DEF Types, Statuses
<1>4. /\ sent' = sent \ {j}
      /\ UNCHANGED <<tip, made, landed, tracking, pin, dirs, lock, run, verifier, gc, counts>>
  BY <1>2 DEF ReconcileSettles, Settles
<1>5. /\ Ids' = Ids /\ \A k \in Ids : row'[k].branch = row[k].branch /\ row'[k].head = row[k].head
      /\ \A k \in Ids : k # j => row'[k] = row[k]
      /\ row'[j].status = s
  BY <1>3 DEF Becomes
<1>6. Types'
  BY <1>1, <1>2, <1>3, <1>4 DEF Becomes, Types
<1>7. RowsOK'
  BY <1>3, <1>4, RowsMove DEF Statuses
<1>8. LockOK' /\ DirsOK' /\ (~MayTurnOff => SparesOK')
  BY <1>1, <1>4 DEF LockOK, DirsOK, SparesOK, Gone, Used
<1>9. RunOK' /\ SentOK'
  BY <1>1, <1>2, <1>4, <1>5 DEF RunOK, SentOK, Types
<1>10. GcOK'
  BY <1>2, <1>4, <1>5, GcKnows DEF Types, Ended
<1> QED
  BY <1>6, <1>7, <1>8, <1>9, <1>10

LEMMA ReconcileEndsKeeps ==
  ASSUME GcAssumption, IInv, NEW dies \in BOOLEAN, ReconcileEnds(dies) PROVE IInv'
<1> USE DEF IInv
<1>1. reconciler # Idle /\ reconciler' = Idle /\ run = Idle
  BY DEF ReconcileEnds, LockOK
<1>2. /\ RowsOK' /\ Ids' = Ids
      /\ UNCHANGED <<row, landed, sent, dirs, run, verifier, gc, counts>>
  BY RowsStay DEF ReconcileEnds, rows
<1>3. lock' \in Locks /\ lock'.owner \in {"dead", "none"}
  <2>1. NoLock \in Locks /\ NoLock.owner = "none"
    BY DEF NoLock, Locks, NoDir, GcAssumption
  <2>2. lock' = NoLock \/ lock' = [lock EXCEPT !.owner = "dead"]
    BY DEF ReconcileEnds
  <2>3. lock \in Locks
    BY DEF Types
  <2> QED
    BY <2>1, <2>2, <2>3 DEF Locks
<1>4. pin' = pin \/ (pin' = pin \ {reconciler.job} /\ reconciler.job \notin sent)
  BY <1>1 DEF ReconcileEnds, RunOK
<1>5. Types'
  BY <1>1, <1>2, <1>3, <1>4 DEF Types, ReconcileEnds, rows
<1>6. LockOK' /\ RunOK' /\ SentOK' /\ DirsOK' /\ (~MayTurnOff => SparesOK')
  BY <1>1, <1>2, <1>3, <1>4 DEF LockOK, RunOK, SentOK, DirsOK, SparesOK, Gone, Used
<1>7. GcOK'
  BY <1>2, GcKnows DEF Types
<1> QED
  BY <1>2, <1>5, <1>6, <1>7

-----------------------------------------------------------------------------
(* gc.                                                                     *)

(* What a step of gc that writes only its own notes leaves alone.          *)
LEMMA GcNotes ==
  ASSUME IInv, UNCHANGED <<rows, pin, sent, dirs, lock, run, verifier, reconciler>>,
         counts'.runs = counts.runs
  PROVE  /\ RowsOK' /\ Ids' = Ids /\ LockOK' /\ RunOK' /\ SentOK' /\ DirsOK'
         /\ UNCHANGED <<row, landed>>
<1> USE DEF IInv
<1>1. RowsOK' /\ Ids' = Ids
  BY RowsStay
<1>2. UNCHANGED <<row, landed>>
  BY DEF rows
<1> QED
  BY <1>1, <1>2 DEF LockOK, RunOK, SentOK, DirsOK, Used

LEMMA GcReadsKeeps ==
  ASSUME GcAssumption, IInv, GcReads PROVE IInv'
<1> USE DEF IInv
<1>1. /\ UNCHANGED <<rows, pin, sent, dirs, lock, run, verifier, reconciler>>
      /\ counts' \in [runs : 0..MaxRuns, gcs : Nat, verifies : Nat] /\ counts'.runs = counts.runs
  <2>1. counts \in [runs : 0..MaxRuns, gcs : Nat, verifies : Nat]
    BY DEF Types
  <2>2. counts' = [counts EXCEPT !.gcs = counts.gcs + 1]
    BY DEF GcReads, Counted
  <2> QED
    BY <2>1, <2>2 DEF GcReads
<1>2. /\ RowsOK' /\ Ids' = Ids /\ LockOK' /\ RunOK' /\ SentOK' /\ DirsOK'
      /\ UNCHANGED <<row, landed>>
  BY <1>1, GcNotes
<1>3. PICK p \in {TRUE, ~MayTurnOff} :
        gc' = [pc |-> "lock", persistent |-> p, branches |-> Candidates, kept |-> {},
               protect |-> NoDir, todo |-> {}, pins |-> {}, item |-> NoDir]
  BY DEF GcReads
<1>4. /\ gc'.pc = "lock" /\ gc'.persistent = p /\ gc'.branches \subseteq Ids /\ gc'.kept = {}
      /\ gc'.todo = {} /\ gc'.pins = {} /\ gc'.item = NoDir /\ gc' \in Gcs /\ gc' # Idle
  <2>1. Candidates \subseteq Ids /\ Ids \subseteq Nat
    BY RowType DEF Candidates, Types
  <2>2. NoDir \in Nat
    BY DEF NoDir, GcAssumption
  <2>3. p \in BOOLEAN
    BY Zenon
  <2> QED
    BY <1>3, <2>1, <2>2, <2>3 DEF Gcs, Idle
<1>5. Types'
  BY <1>1, <1>2, <1>4 DEF Types, rows
<1>6. GcOK'
  BY <1>4 DEF GcOK
<1>7. ~MayTurnOff => SparesOK'
  BY <1>1, <1>2, <1>3, <1>4 DEF SparesOK
<1> QED
  BY <1>2, <1>5, <1>6, <1>7

LEMMA GcSnapshotsKeeps ==
  ASSUME IInv, GcSnapshots PROVE IInv'
<1> USE DEF IInv
<1>1. /\ UNCHANGED <<rows, pin, sent, dirs, lock, run, verifier, reconciler, counts>>
      /\ gc.pc = "lock" /\ gc # Idle /\ gc \in Gcs
  BY GcType DEF GcSnapshots, Types
<1>2. /\ RowsOK' /\ Ids' = Ids /\ LockOK' /\ RunOK' /\ SentOK' /\ DirsOK'
      /\ UNCHANGED <<row, landed>>
  BY <1>1, GcNotes
<1>3. /\ gc'.pc = "branches" /\ gc' # Idle /\ gc' \in Gcs
      /\ gc'.branches = gc.branches /\ gc'.kept = gc.kept /\ gc'.todo = gc.todo
      /\ gc'.pins = gc.pins /\ gc'.item = gc.item /\ gc'.persistent = gc.persistent
  <2>1. lock.live \in Nat
    BY DEF Types, Locks
  <2> QED
    BY <1>1, <2>1 DEF GcSnapshots, Gcs, Idle
<1>4. Types'
  BY <1>1, <1>2, <1>3 DEF Types, rows
<1>5. GcOK'
  BY <1>1, <1>2, <1>3 DEF GcOK
<1>6. ~MayTurnOff => SparesOK'
  BY <1>1, <1>3 DEF SparesOK, Gone, Used
<1> QED
  BY <1>2, <1>4, <1>5, <1>6

LEMMA GcChecksKeeps ==
  ASSUME IInv, NEW j \in Ids, GcChecks(j) PROVE IInv'
<1> USE DEF IInv
<1>1. /\ UNCHANGED <<rows, pin, sent, dirs, lock, run, verifier, reconciler, counts>>
      /\ gc.pc = "branches" /\ gc # Idle /\ gc \in Gcs /\ j \in Nat
  BY GcType, RowType DEF GcChecks, Types
<1>2. /\ RowsOK' /\ Ids' = Ids /\ LockOK' /\ RunOK' /\ SentOK' /\ DirsOK'
      /\ UNCHANGED <<row, landed>>
  BY <1>1, GcNotes
<1>3. /\ gc'.pc = "branches" /\ gc' # Idle /\ gc' \in Gcs
      /\ gc'.branches \subseteq gc.branches
      /\ gc'.kept = IF Deletable(j) THEN gc.kept \cup {j} ELSE gc.kept
      /\ gc'.todo = gc.todo
      /\ gc'.pins = gc.pins /\ gc'.item = gc.item /\ gc'.persistent = gc.persistent
  BY <1>1 DEF GcChecks, Gcs, Idle
<1>4. Types'
  BY <1>1, <1>2, <1>3 DEF Types, rows
<1>5. Deletable(j) => row[j].head <= landed[row[j].branch]
  <2>1. row[j].branch \in Branch /\ row[j].head \in Nat
    BY RowType DEF Types
  <2>2. PICK b \in Branch, h \in Nat : b = row[j].branch /\ h = row[j].head
    BY <2>1
  <2>3. tracking[b] \in Nat /\ landed[b] \in Nat /\ tracking[b] <= landed[b]
    BY <2>2 DEF Types, RowsOK
  <2>4. h <= tracking[b] => h <= landed[b]
    BY <2>3
  <2>5. row[j].pushed => h <= landed[b]
    BY <2>2 DEF RowsOK, OnRemote
  <2> QED
    BY <2>2, <2>4, <2>5 DEF Deletable
<1>6. GcOK'
  BY <1>1, <1>2, <1>3, <1>5 DEF GcOK
<1>7. ~MayTurnOff => SparesOK'
  BY <1>1, <1>3 DEF SparesOK, Gone, Used
<1> QED
  BY <1>2, <1>4, <1>6, <1>7

LEMMA GcListsKeeps ==
  ASSUME GcAssumption, IInv, GcLists PROVE IInv'
<1> USE DEF IInv
<1>1. /\ UNCHANGED <<rows, pin, sent, dirs, lock, run, verifier, reconciler, counts>>
      /\ gc.pc = "branches" /\ gc # Idle /\ gc \in Gcs
  BY GcType DEF GcLists, Types
<1>2. /\ RowsOK' /\ Ids' = Ids /\ LockOK' /\ RunOK' /\ SentOK' /\ DirsOK'
      /\ UNCHANGED <<row, landed>>
  BY <1>1, GcNotes
<1>3. Removable \subseteq dirs /\ (gc.persistent => Workspace \notin Removable)
      /\ (OfPid \in Removable => verifier # "inside")
  BY DEF Removable
<1>4. dirs \subseteq Nat
  BY DEF DirsOK, Used, Workspace, OfPid, Types, GcAssumption
<1>5. /\ gc'.pc = "worktrees" /\ gc' # Idle /\ gc' \in Gcs
      /\ gc'.branches = gc.branches /\ gc'.kept = gc.kept /\ gc'.todo = Removable
      /\ gc'.pins = gc.pins /\ gc'.item = gc.item /\ gc'.persistent = gc.persistent
  BY <1>1, <1>3, <1>4 DEF GcLists, Gcs, Idle
<1>6. Types'
  BY <1>1, <1>2, <1>5 DEF Types, rows
<1>7. GcOK'
  BY <1>1, <1>2, <1>5 DEF GcOK
<1>8. ASSUME ~MayTurnOff PROVE SparesOK'
  <2>1. SparesOK /\ gc.item = NoDir
    BY <1>1, <1>8 DEF SparesOK
  <2>2. gc'.todo \subseteq Used' /\ (OfPid \in gc'.todo => verifier' = "dead")
    BY <1>1, <1>3, <1>5, <2>1 DEF SparesOK, DirsOK, Used, Types
  <2> QED
    BY <1>1, <1>2, <1>5, <2>1, <2>2 DEF SparesOK
<1> QED
  BY <1>2, <1>6, <1>7, <1>8

(* gc looks into the lock before it takes a directory, and so takes none   *)
(* that a run has claimed since it was listed.                             *)
LEMMA GcLooksKeeps ==
  ASSUME GcAssumption, IInv, NEW d \in Dirs, GcLooks(d) PROVE IInv'
<1> USE DEF IInv
<1>1. /\ UNCHANGED <<rows, pin, sent, dirs, lock, run, verifier, reconciler, counts>>
      /\ gc.pc = "worktrees" /\ gc # Idle /\ gc \in Gcs /\ gc.item = NoDir /\ d \in gc.todo
  BY GcType DEF GcLooks, Types
<1>2. /\ RowsOK' /\ Ids' = Ids /\ LockOK' /\ RunOK' /\ SentOK' /\ DirsOK'
      /\ UNCHANGED <<row, landed>>
  BY <1>1, GcNotes
<1>3. d \in Nat
  BY <1>1, GcType DEF Types
<1>4. /\ gc'.pc = "worktrees" /\ gc' # Idle /\ gc' \in Gcs
      /\ gc'.branches = gc.branches /\ gc'.kept = gc.kept /\ gc'.todo \subseteq gc.todo
      /\ gc'.pins = gc.pins /\ gc'.persistent = gc.persistent
      /\ gc'.item = IF d = lock.live THEN NoDir ELSE d
  <2>1. NoDir \in Nat
    BY DEF NoDir, GcAssumption
  <2> QED
    BY <1>1, <1>3, <2>1 DEF GcLooks, Gcs, Idle, Spares
<1>5. Types'
  BY <1>1, <1>2, <1>4 DEF Types, rows
<1>6. GcOK'
  BY <1>1, <1>2, <1>4 DEF GcOK
<1>7. ASSUME ~MayTurnOff PROVE SparesOK'
  <2>1. SparesOK
    BY <1>7
  <2>2. d # lock.live => Gone(d)
    BY <1>1, <2>1 DEF SparesOK, Gone, LockOK
  <2>3. gc'.item # NoDir => Gone(gc'.item)
    BY <1>4, <2>2
  <2>4. Gone(gc'.item) => Gone(gc.item)'
    BY <1>1 DEF Gone, Used
  <2> QED
    BY <1>1, <1>2, <1>4, <2>1, <2>3, <2>4 DEF SparesOK, Used
<1> QED
  BY <1>2, <1>5, <1>6, <1>7

LEMMA GcRemovesKeeps ==
  ASSUME GcAssumption, IInv, GcRemoves PROVE IInv'
<1> USE DEF IInv
<1>1. /\ UNCHANGED <<rows, pin, sent, lock, run, verifier, reconciler, counts>>
      /\ gc.pc = "worktrees" /\ gc # Idle /\ gc \in Gcs /\ gc.item # NoDir
      /\ dirs' = dirs \ {gc.item}
  BY GcType DEF GcRemoves, Types
<1>2. RowsOK' /\ Ids' = Ids /\ UNCHANGED <<row, landed>>
  BY <1>1, RowsStay DEF rows
<1>3. LockOK' /\ RunOK' /\ SentOK' /\ DirsOK'
  BY <1>1, <1>2 DEF LockOK, RunOK, SentOK, DirsOK, Used
<1>4. /\ gc'.pc = "worktrees" /\ gc' # Idle /\ gc' \in Gcs
      /\ gc'.branches = gc.branches /\ gc'.kept = gc.kept /\ gc'.todo = gc.todo
      /\ gc'.pins = gc.pins /\ gc'.persistent = gc.persistent /\ gc'.item = NoDir
  <2>1. NoDir \in Nat
    BY DEF NoDir, GcAssumption
  <2> QED
    BY <1>1, <2>1 DEF GcRemoves, Gcs, Idle
<1>5. Types'
  BY <1>1, <1>2, <1>4 DEF Types, rows
<1>6. GcOK'
  BY <1>1, <1>2, <1>4 DEF GcOK
<1>7. ~MayTurnOff => SparesOK'
  BY <1>1, <1>4 DEF SparesOK, Gone, Used
<1> QED
  BY <1>2, <1>3, <1>5, <1>6, <1>7

(* A branch goes only at the head that landed, and so with no commit more. *)
LEMMA GcDeletesKeeps ==
  ASSUME IInv, NEW j \in Ids, GcDeletes(j) PROVE IInv' /\ (CommitsKept => CommitsKept')
<1> USE DEF IInv
<1>1. /\ UNCHANGED <<row, made, landed, tracking, pin, sent, dirs, lock, run, verifier, reconciler, counts>>
      /\ gc.pc = "worktrees" /\ gc # Idle /\ gc \in Gcs /\ j \in gc.kept /\ gc.item = NoDir
  BY GcType DEF GcDeletes, Types
<1>2. PICK b \in Branch, h \in Nat \ {0} :
        /\ b = row[j].branch /\ h = row[j].head /\ h <= landed[b]
        /\ tip' = IF tip[b] = h THEN [tip EXCEPT ![b] = 0] ELSE tip
  <2>1. row[j].branch \in Branch /\ row[j].head \in Nat \ {0}
    BY RowType DEF Types
  <2>2. row[j].head <= landed[row[j].branch]
    BY <1>1 DEF GcOK
  <2> QED
    BY <2>1, <2>2 DEF GcDeletes, ComparesAndDeletes
<1>3. /\ gc'.pc = "worktrees" /\ gc' # Idle /\ gc' \in Gcs
      /\ gc'.branches = gc.branches /\ gc'.kept \subseteq gc.kept /\ gc'.todo = gc.todo
      /\ gc'.pins = gc.pins /\ gc'.persistent = gc.persistent /\ gc'.item = gc.item
  BY <1>1 DEF GcDeletes, Gcs, Idle
<1>4. tip \in [Branch -> Nat] /\ tip' \in [Branch -> Nat]
  BY <1>2 DEF Types
<1>5. Types'
  BY <1>1, <1>3, <1>4 DEF Types, Ids
<1>6. RowsOK'
  <2>1. \A c \in Branch : tip'[c] \in {0, made[c]}
    BY <1>2, <1>4 DEF RowsOK
  <2> QED
    BY <1>1, <2>1 DEF RowsOK, Ids, OnRemote
<1>7. LockOK' /\ RunOK' /\ SentOK' /\ DirsOK'
  BY <1>1 DEF LockOK, RunOK, SentOK, DirsOK, Used
<1>8. GcOK'
  BY <1>1, <1>3 DEF GcOK, Ids
<1>9. ~MayTurnOff => SparesOK'
  BY <1>1, <1>3 DEF SparesOK, Gone, Used
<1>10. CommitsKept => CommitsKept'
  <2>1. tip[b] = h => made[b] = h
    BY <1>2, <1>4 DEF RowsOK, Types
  <2>2. tip[b] = h => ~(made[b] > landed[b])
    BY <1>2, <2>1 DEF Types
  <2> QED
    BY <1>1, <1>2, <1>4, <2>2 DEF CommitsKept
<1> QED
  BY <1>5, <1>6, <1>7, <1>8, <1>9, <1>10

LEMMA GcListsPinsKeeps ==
  ASSUME IInv, GcListsPins PROVE IInv'
<1> USE DEF IInv
<1>1. /\ UNCHANGED <<rows, pin, sent, dirs, lock, run, verifier, reconciler, counts>>
      /\ gc.pc = "worktrees" /\ gc # Idle /\ gc \in Gcs /\ gc.item = NoDir
  BY GcType DEF GcListsPins, Types
<1>2. /\ RowsOK' /\ Ids' = Ids /\ LockOK' /\ RunOK' /\ SentOK' /\ DirsOK'
      /\ UNCHANGED <<row, landed>>
  BY <1>1, GcNotes
<1>3. pin \subseteq Ids /\ Ids \subseteq Nat
  BY RowType DEF Types
<1>4. /\ gc'.pc = "pins" /\ gc' # Idle /\ gc' \in Gcs
      /\ gc'.branches = gc.branches /\ gc'.kept = gc.kept /\ gc'.todo = gc.todo
      /\ gc'.pins = pin /\ gc'.persistent = gc.persistent /\ gc'.item = gc.item
  BY <1>1, <1>3 DEF GcListsPins, Gcs, Idle
<1>5. Types'
  BY <1>1, <1>2, <1>3, <1>4 DEF Types, rows
<1>6. GcOK'
  BY <1>1, <1>2, <1>4 DEF GcOK
<1>7. ~MayTurnOff => SparesOK'
  BY <1>1, <1>4 DEF SparesOK, Gone, Used
<1> QED
  BY <1>2, <1>5, <1>6, <1>7

LEMMA GcReadsPinKeeps ==
  ASSUME GcAssumption, IInv, NEW j \in Ids, GcReadsPin(j) PROVE IInv'
<1> USE DEF IInv
<1>1. /\ UNCHANGED <<rows, pin, sent, dirs, lock, run, verifier, reconciler, counts>>
      /\ gc.pc = "pins" /\ gc # Idle /\ gc \in Gcs /\ gc.item = NoDir /\ j \in Nat
  BY GcType, RowType DEF GcReadsPin, Types
<1>2. /\ RowsOK' /\ Ids' = Ids /\ LockOK' /\ RunOK' /\ SentOK' /\ DirsOK'
      /\ UNCHANGED <<row, landed>>
  BY <1>1, GcNotes
<1>3. /\ gc'.pc = "pins" /\ gc' # Idle /\ gc' \in Gcs
      /\ gc'.branches = gc.branches /\ gc'.kept = gc.kept /\ gc'.todo = gc.todo
      /\ gc'.pins \subseteq gc.pins /\ gc'.persistent = gc.persistent
      /\ gc'.item = IF row[j].status \in Keeps THEN NoDir ELSE j
  <2>1. NoDir \in Nat
    BY DEF NoDir, GcAssumption
  <2> QED
    BY <1>1, <2>1 DEF GcReadsPin, Gcs, Idle
<1>4. Types'
  BY <1>1, <1>2, <1>3 DEF Types, rows
<1>5. GcOK'
  <2>1. row[j].status \notin Keeps => Ended(row[j].status)
    BY RowType DEF Types, Statuses, Keeps, Ended
  <2> QED
    BY <1>1, <1>2, <1>3, <2>1 DEF GcOK
<1>6. ~MayTurnOff => SparesOK'
  BY <1>1, <1>3 DEF SparesOK, Gone, Used
<1> QED
  BY <1>2, <1>4, <1>5, <1>6

(* The row whose pin goes has ended, and no push of it is on its way.      *)
LEMMA GcUnpinsKeeps ==
  ASSUME GcAssumption, IInv, GcUnpins PROVE IInv'
<1> USE DEF IInv
<1>1. /\ UNCHANGED <<rows, sent, dirs, lock, run, verifier, reconciler, counts>>
      /\ gc.pc = "pins" /\ gc # Idle /\ gc \in Gcs
      /\ pin' = pin \ {gc.item} /\ gc.item \in Ids /\ Ended(row[gc.item].status)
  BY GcType DEF GcUnpins, Types, GcOK
<1>2. RowsOK' /\ Ids' = Ids /\ UNCHANGED <<row, landed>>
  BY <1>1, RowsStay DEF rows
<1>3. gc.item \notin sent /\ (run # Idle /\ run.pc \in {"pinned", "pushed"} => run.job # gc.item)
  BY <1>1 DEF SentOK, RowsOK, RunOK, Ended
<1>4. LockOK' /\ RunOK' /\ SentOK' /\ DirsOK'
  BY <1>1, <1>2, <1>3 DEF LockOK, RunOK, SentOK, DirsOK, Used
<1>5. /\ gc'.pc = "pins" /\ gc' # Idle /\ gc' \in Gcs
      /\ gc'.branches = gc.branches /\ gc'.kept = gc.kept /\ gc'.todo = gc.todo
      /\ gc'.pins = gc.pins /\ gc'.persistent = gc.persistent /\ gc'.item = NoDir
  <2>1. NoDir \in Nat
    BY DEF NoDir, GcAssumption
  <2> QED
    BY <1>1, <2>1 DEF GcUnpins, Gcs, Idle
<1>6. Types'
  BY <1>1, <1>2, <1>5 DEF Types, rows
<1>7. GcOK'
  BY <1>1, <1>2, <1>5 DEF GcOK
<1>8. ~MayTurnOff => SparesOK'
  BY <1>1, <1>5 DEF SparesOK, Gone, Used
<1> QED
  BY <1>2, <1>4, <1>6, <1>7, <1>8

LEMMA GcEndsKeeps ==
  ASSUME IInv, GcEnds PROVE IInv'
<1> USE DEF IInv
<1>1. /\ UNCHANGED <<rows, pin, sent, dirs, lock, run, verifier, reconciler, counts>>
      /\ gc' = Idle
  BY DEF GcEnds
<1>2. /\ RowsOK' /\ Ids' = Ids /\ LockOK' /\ RunOK' /\ SentOK' /\ DirsOK'
      /\ UNCHANGED <<row, landed>>
  BY <1>1, GcNotes
<1>3. Types' /\ GcOK' /\ (~MayTurnOff => SparesOK')
  BY <1>1, <1>2 DEF Types, rows, GcOK, SparesOK
<1> QED
  BY <1>2, <1>3

-----------------------------------------------------------------------------
LEMMA InitHolds ==
  ASSUME GcAssumption, Init PROVE IInv /\ CommitsKept
<1>1. row = <<>> /\ Ids = {} /\ run = Idle /\ reconciler = Idle /\ gc = Idle
  BY DEF Init, Ids
<1>2. tip = [b \in Branch |-> 0] /\ made = tip /\ landed = tip /\ tracking = tip
  BY DEF Init
<1>3. Types
  BY <1>1, <1>2 DEF Init, Types, Locks, NoLock, NoDir, GcAssumption
<1>4. RowsOK /\ CommitsKept
  BY <1>1, <1>2 DEF RowsOK, CommitsKept
<1>5. LockOK /\ RunOK /\ SentOK /\ DirsOK /\ GcOK /\ SparesOK
  BY <1>1 DEF Init, LockOK, RunOK, SentOK, DirsOK, GcOK, SparesOK, NoLock
<1> QED
  BY <1>3, <1>4, <1>5 DEF IInv

LEMMA StepKeeps ==
  ASSUME GcAssumption, IInv, [Next]_vars PROVE IInv'
<1>1. CASE UNCHANGED vars
  <2>1. UNCHANGED <<row, tip, made, landed, tracking, rows, pin, sent, dirs, lock, run, verifier,
                    reconciler, gc, counts>>
    BY <1>1 DEF vars, rows
  <2>2. Ids' = Ids
    BY <2>1 DEF Ids
  <2> QED
    BY <2>1, <2>2 DEF IInv, Types, RowsOK, OnRemote, LockOK, RunOK, SentOK, DirsOK, Used, GcOK, SparesOK, Gone
<1>2. ASSUME NEW b \in Branch, Commit(b) \/ Enqueue(b) PROVE IInv'
  BY <1>2, CommitKeeps, EnqueueKeeps
<1>3. CASE Fetch \/ TakeOver
  BY <1>3, FetchKeeps, TakeOverKeeps
<1>4. CASE Enter \/ Mark \/ Pin \/ Finish \/ Park \/ Leave
  BY <1>4, EnterKeeps, MarkKeeps, PinKeeps, FinishKeeps, ParkKeeps, LeaveKeeps
<1>5. CASE Verify \/ ReconcileSettles
  BY <1>5, VerifyKeeps, ReconcileSettlesKeeps
<1>6. ASSUME NEW lands \in BOOLEAN, PushOut(lands) \/ Die(lands) \/ ReconcileEnds(lands) PROVE IInv'
  BY <1>6, PushOutKeeps, DieKeeps, ReconcileEndsKeeps
<1>7. CASE GcReads \/ GcSnapshots \/ GcLists \/ GcRemoves \/ GcListsPins \/ GcUnpins \/ GcEnds
  BY <1>7, GcReadsKeeps, GcSnapshotsKeeps, GcListsKeeps, GcRemovesKeeps, GcListsPinsKeeps,
     GcUnpinsKeeps, GcEndsKeeps
<1>8. ASSUME NEW d \in Dirs, GcLooks(d) PROVE IInv'
  BY <1>8, GcLooksKeeps
<1>9. ASSUME NEW j \in Ids,
             Cancel(j) \/ ReconcileStarts(j) \/ GcChecks(j) \/ GcDeletes(j) \/ GcReadsPin(j)
      PROVE  IInv'
  BY <1>9, CancelKeeps, ReconcileStartsKeeps, GcChecksKeeps, GcDeletesKeeps, GcReadsPinKeeps
<1>10. ASSUME NEW j \in Ids, NEW deploy \in BOOLEAN, Claim(j, deploy) PROVE IInv'
  BY <1>10, ClaimKeeps
<1> QED
  BY <1>1, <1>2, <1>3, <1>4, <1>5, <1>6, <1>7, <1>8, <1>9, <1>10 DEF Next

LEMMA Inductive ==
  ASSUME GcAssumption PROVE Spec => []IInv
<1>1. Init => IInv
  BY InitHolds
<1>2. IInv /\ [Next]_vars => IInv'
  BY StepKeeps
<1> QED
  BY <1>1, <1>2, PTL DEF Spec

(* CommitsKept reads three variables, and only agents, pushes and gc write *)
(* them.                                                                   *)
LEMMA CommitsStepKeeps ==
  ASSUME IInv, CommitsKept, [Next]_vars PROVE CommitsKept'
<1> USE DEF CommitsKept
<1>1. made \in [Branch -> Nat] /\ landed \in [Branch -> Nat] /\ tip \in [Branch -> Nat]
  BY DEF IInv, Types
<1>2. CASE UNCHANGED <<tip, made, landed>>
  BY <1>2
<1>3. ASSUME NEW b \in Branch, Commit(b) PROVE CommitsKept'
  BY <1>1, <1>3 DEF Commit
<1>4. ASSUME NEW j \in Ids, Lands(j) \/ UNCHANGED landed, UNCHANGED <<row, tip, made, tracking>>
      PROVE  CommitsKept'
  <2>1. /\ landed' \in [Branch -> Nat]
        /\ \A b \in Branch : \A m \in Nat : m <= landed[b] => m <= landed'[b]
    BY <1>4, LandsOn
  <2>2. \A b \in Branch : made[b] > landed'[b] => made[b] > landed[b]
    BY <1>1, <2>1
  <2> QED
    BY <1>4, <2>2
<1>5. ASSUME NEW lands \in BOOLEAN, PushOut(lands) \/ Die(lands) PROVE CommitsKept'
  <2>1. run.job \in Ids
    BY <1>5, RunType DEF PushOut, Die, RunStep, IInv, Types
  <2> QED
    BY <1>4, <1>5, <2>1 DEF PushOut, Die
<1>6. ASSUME NEW j \in Ids, GcDeletes(j) PROVE CommitsKept'
  BY <1>6, GcDeletesKeeps
<1>7. ASSUME NEW j \in Ids, NEW deploy \in BOOLEAN, Claim(j, deploy) PROVE CommitsKept'
  BY <1>7 DEF Claim
<1>8. ASSUME NEW b \in Branch, Enqueue(b) PROVE CommitsKept'
  BY <1>8 DEF Enqueue
<1>9. ASSUME NEW j \in Ids, Cancel(j) \/ ReconcileStarts(j) \/ GcChecks(j) \/ GcReadsPin(j)
      PROVE  CommitsKept'
  BY <1>9 DEF Cancel, ReconcileStarts, GcChecks, GcReadsPin, rows
<1>10. CASE \/ Fetch \/ TakeOver \/ Enter \/ Mark \/ Pin \/ Finish \/ Park \/ Leave \/ Verify
            \/ ReconcileSettles \/ \E dies \in BOOLEAN : ReconcileEnds(dies)
  BY <1>10 DEF Fetch, TakeOver, Enter, Mark, Pin, Finish, Park, Leave, Verify, ReconcileSettles,
               ReconcileEnds, rows
<1>11. CASE \/ GcReads \/ GcSnapshots \/ GcLists \/ GcRemoves \/ GcListsPins \/ GcUnpins \/ GcEnds
            \/ \E d \in Dirs : GcLooks(d)
  BY <1>11 DEF GcReads, GcSnapshots, GcLists, GcRemoves, GcListsPins, GcUnpins, GcEnds, GcLooks, rows
<1> QED
  BY <1>2, <1>3, <1>5, <1>6, <1>7, <1>8, <1>9, <1>10, <1>11 DEF Next, vars

LEMMA InvTypes ==
  ASSUME GcAssumption, IInv
  PROVE  TypeOK
<1>1. row \in Seq(Rows)
  BY DEF IInv, Types
<1>2. dirs \subseteq Dirs
  <2>1. counts.runs \in 0..MaxRuns /\ MaxRuns \in Nat
    BY DEF IInv, Types, GcAssumption
  <2> QED
    BY <2>1 DEF IInv, DirsOK, Used, Dirs
<1> QED
  BY <1>1, <1>2, RowType DEF IInv, Types, RowsOK, TypeOK

LEMMA InvPinned ==
  ASSUME IInv
  PROVE  PinnedUntilKnown
BY DEF IInv, SentOK, PinnedUntilKnown

LEMMA InvSpares ==
  ASSUME ~MayTurnOff, IInv
  PROVE  WorktreeSpared
BY RunType DEF IInv, Types, SparesOK, WorktreeSpared

(* gc loses no commit: each is on its branch, or has landed, though the    *)
(* agent commits while gc decides.                                         *)
THEOREM GcKeepsCommits ==
  ASSUME GcAssumption PROVE Spec => []CommitsKept
<1>1. Init => CommitsKept
  BY InitHolds
<1>2. IInv /\ CommitsKept /\ [Next]_vars => CommitsKept'
  BY CommitsStepKeeps
<1> QED
  BY <1>1, <1>2, Inductive, PTL DEF Spec

(* Types; and while the outcome of a push is not on record, a pin keeps    *)
(* its commit for reconcile, through crashes of the runner and of          *)
(* reconcile, and whatever gc sweeps meanwhile.                            *)
THEOREM GcKeepsPins ==
  ASSUME GcAssumption PROVE Spec => [](TypeOK /\ PinnedUntilKnown)
<1>1. IInv => TypeOK /\ PinnedUntilKnown
  BY InvTypes, InvPinned
<1> QED
  BY <1>1, Inductive, PTL

(* While the persistent workspace is on in every config that gc may read,  *)
(* it removes no worktree from under a runner or a verify that is in it,   *)
(* though the runner may start, or change worktrees, after gc looked.      *)
THEOREM GcSparesWorktrees ==
  ASSUME GcAssumption, ~MayTurnOff PROVE Spec => []WorktreeSpared
<1>1. IInv => WorktreeSpared
  BY InvSpares
<1> QED
  BY <1>1, Inductive, PTL
=============================================================================
