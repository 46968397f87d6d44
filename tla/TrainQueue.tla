----------------------------- MODULE TrainQueue -----------------------------
(***************************************************************************)
(* How rows come and go: enqueue, retry, supersede, dismiss and cancel, by *)
(* agents that first look at Git and the config, for as long as that       *)
(* takes, and then write one transaction, beside a runner that claims,     *)
(* records one row at a time, and may die.  Several rows may follow one    *)
(* another for the same task, which Runner and Store abstract away.        *)
(***************************************************************************)
EXTENDS Naturals, Sequences, SequencesExt, FiniteSets

CONSTANTS
  Branch, Agent,
  Approval,           \* identities of a destination with an execution policy
  Ordered,            \* queue.processing is "ordered"
  MaxRows, MaxMoves,  \* bounds: rows of a run, and edits of config and branches
  MaxCommands, MaxDeaths

TrainQueueAssumption ==
  /\ IsFiniteSet(Branch) /\ Approval # {}
  /\ Ordered \in BOOLEAN /\ MaxRows \in Nat /\ MaxMoves \in Nat /\ MaxDeaths \in Nat
  /\ MaxCommands \in Nat

VARIABLES
  row,      \* deploy_queue, by id
  tip,      \* the commit of each branch
  config,   \* what a command would approve now
  cmd,      \* what each agent's command has read
  claim,    \* the rows a live runner claimed
  train,    \* the last train id given, and its size while a claim records it
  granted,  \* history: <<branch, approval>> a human gave with --auto
  commands, moves, deaths

vars == <<row, tip, config, cmd, claim, train, granted, commands, moves, deaths>>

None   == "none"
Ids    == DOMAIN row
Live   == {"queued", "in_progress", "blocked", "validated"}
Alive  == {j \in Ids : row[j].status \in Live}
IdleCmd == [kind |-> "idle"]

(* History in a row: root is the first row of its task; retried, retired   *)
(* and replaces link it to the rows a retry or a supersede made.           *)
NewRow(b, head, approval, order, root) ==
  [branch |-> b, head |-> head, approval |-> approval, order |-> order, root |-> root,
   status |-> "queued", train |-> 0, size |-> 0, retried |-> 0, retired |-> 0, replaces |-> 0]

NextId == Len(row) + 1

(* Mutant: enqueue looks for a queued row of the branch only.              *)
TakenByQueued(b, except) ==
  \E j \in Ids \ except : row[j].branch = b /\ row[j].status = "queued"

(* _active_branch_job_id: a row that is not terminal owns its branch.      *)
Taken(b, except) == \E j \in Alive \ except : row[j].branch = b

SetAll(S, field, v) == [j \in Ids |-> IF j \in S THEN [row[j] EXCEPT ![field] = v] ELSE row[j]]
SetStatus(S, s)     == SetAll(S, "status", s)

-----------------------------------------------------------------------------
Commit(b) ==
  /\ moves < MaxMoves /\ moves' = moves + 1
  /\ tip' = [tip EXCEPT ![b] = @ + 1]
  /\ UNCHANGED <<row, config, cmd, claim, train, granted, commands, deaths>>

EditConfig(c) ==
  /\ moves < MaxMoves /\ moves' = moves + 1 /\ c # config
  /\ config' = c
  /\ UNCHANGED <<row, tip, cmd, claim, train, granted, commands, deaths>>

Reads(a, command) ==
  /\ cmd[a] = IdleCmd /\ commands < MaxCommands /\ commands' = commands + 1
  /\ cmd' = [cmd EXCEPT ![a] = command]
  /\ UNCHANGED <<row, tip, config, claim, train, granted, moves, deaths>>

Ends(a) == cmd' = [cmd EXCEPT ![a] = IdleCmd]

Refused(a) == Ends(a) /\ UNCHANGED <<row, granted>>

(* cmd_enqueue: a clean worktree on the branch, then its head, and with    *)
(* --auto the destination and policy that are approved.                    *)
EnqueueReads(a, b, auto) ==
  Reads(a, [kind |-> "enqueue", branch |-> b, head |-> tip[b],
            approval |-> IF auto THEN config ELSE None])

EnqueueWrites(a) ==
  /\ cmd[a].kind = "enqueue"
  /\ IF Taken(cmd[a].branch, {}) \/ Len(row) >= MaxRows THEN Refused(a)
     ELSE /\ row' = Append(row, NewRow(cmd[a].branch, cmd[a].head, cmd[a].approval, NextId, NextId))
          /\ granted' = IF cmd[a].approval = None THEN granted
                        ELSE granted \cup {<<cmd[a].branch, cmd[a].approval>>}
          /\ Ends(a)
  /\ UNCHANGED <<tip, config, claim, train, commands, moves, deaths>>

(* cmd_retry: of a row that failed, on its branch or on a repair branch.   *)
RetryReads(a, j, b, renew) ==
  /\ row[j].status = "blocked"
  /\ Reads(a, [kind |-> "retry", job |-> j, branch |-> b, head |-> tip[b], renew |-> renew,
               approval |-> IF row[j].approval # None \/ renew THEN config ELSE None])

(* Mutant: what was approved once stays approved on any branch.            *)
InheritsAnywhere(j, c) == row[j].approval # None /\ row[j].approval = c.approval

(* retry_job: the approval is inherited only if nothing it names changed.  *)
Inherits(j, c) ==
  /\ row[j].approval # None /\ row[j].approval = c.approval
  /\ c.branch = row[j].branch

(* Mutant: a retry goes to the end of the queue.                           *)
LastPlace(j) == NextId

(* preserve_order: an ordered retry keeps its place.                       *)
PlaceOf(j) == IF Ordered THEN row[j].order ELSE NextId

(* Mutant: the row that was read is retried, whatever it is by now.        *)
RetryableOnceRead(j) == TRUE

Retryable(j) == row[j].status = "blocked"

RetryWrites(a) ==
  /\ cmd[a].kind = "retry"
  /\ LET c == cmd[a]
         j == c.job
         auto == Inherits(j, c) \/ c.renew
     IN  IF ~Retryable(j) \/ Taken(c.branch, {j}) \/ Len(row) >= MaxRows THEN Refused(a)
         ELSE /\ row' = Append([row EXCEPT ![j] = [@ EXCEPT !.status = "canceled", !.retried = NextId]],
                               NewRow(c.branch, c.head, IF auto THEN c.approval ELSE None,
                                      PlaceOf(j), row[j].root))
              /\ granted' = IF c.renew THEN granted \cup {<<c.branch, c.approval>>} ELSE granted
              /\ Ends(a)
  /\ UNCHANGED <<tip, config, claim, train, commands, moves, deaths>>

(* cmd_supersede: replacements for a validated train.                      *)
SupersedeReads(a, t, B) ==
  /\ \E j \in Ids : row[j].train = t /\ row[j].status = "validated"
  /\ Reads(a, [kind |-> "supersede", train |-> t, heads |-> [b \in B |-> tip[b]]])

Members(t) == {j \in Ids : row[j].train = t}

(* Mutant: the train that was read is superseded, whatever it is by now.   *)
WhollyOnceRead(t) == TRUE

WhollyValidated(t) == Members(t) # {} /\ \A j \in Members(t) : row[j].status = "validated"

(* active_runner_lock *)
LockActive == claim # {}

(* The replacements: no approval and no validation is copied.              *)
Rows(t, heads) ==
  LET order == SetToSeq(DOMAIN heads)
  IN  [i \in DOMAIN order |->
         [NewRow(order[i], heads[order[i]], None, Len(row) + i, Len(row) + i) EXCEPT !.replaces = t]]

(* supersede_validated_train: all of it, or nothing.                       *)
SupersedeWrites(a) ==
  /\ cmd[a].kind = "supersede"
  /\ LET t == cmd[a].train
         B == DOMAIN cmd[a].heads
     IN  IF \/ LockActive \/ ~WhollyValidated(t)
            \/ \E b \in B : Taken(b, Members(t))
            \/ Len(row) + Cardinality(B) > MaxRows
         THEN Refused(a)
         ELSE /\ row' = [j \in Ids |->
                           IF j \in Members(t) /\ row[j].status = "validated"
                           THEN [row[j] EXCEPT !.status = "canceled", !.retired = NextId]
                           ELSE row[j]] \o Rows(t, cmd[a].heads)
              /\ Ends(a) /\ UNCHANGED granted
  /\ UNCHANGED <<tip, config, claim, train, commands, moves, deaths>>

(* An operator drops a failed row, a queued one, or a validated train.     *)
Drop(j) ==
  /\ row[j].status \in {"blocked", "queued", "validated"}
  /\ row' = SetStatus(IF row[j].status = "validated"
                      THEN {k \in Members(row[j].train) : row[k].status = "validated"}
                      ELSE {j}, "canceled")
  /\ UNCHANGED <<tip, config, cmd, claim, train, granted, commands, moves, deaths>>

-----------------------------------------------------------------------------
(* The runner: what it claims, and each row's outcome.                     *)

InStatus(s) == {j \in Ids : row[j].status = s}

(* ordered_head *)
HeadOf(S) == {j \in S : \A k \in Alive : row[j].order <= row[k].order}

Claims(S) ==
  /\ claim = {} /\ S # {} /\ InStatus("in_progress") = {}
  /\ claim' = S /\ train' = [train EXCEPT !.size = 0]
  /\ row' = SetStatus(S, "in_progress")
  /\ UNCHANGED <<tip, config, cmd, granted, commands, moves, deaths>>

(* claim_all_queued *)
ClaimQueued == Claims(IF Ordered THEN HeadOf(InStatus("queued")) ELSE InStatus("queued"))

(* claim_deploy_batch *)
ClaimTrain(t) ==
  /\ WhollyValidated(t)
  /\ \A j \in Members(t) : row[j].size = Cardinality(Members(t))
  /\ Claims(IF Ordered THEN HeadOf(Members(t)) ELSE Members(t))

Mine(j) == j \in claim /\ row[j].status = "in_progress"

(* Mutant: the runner keeps its lock after its last row.                   *)
LeavesStill == claim' = claim

Leaves == claim' = IF \E j \in claim : row'[j].status = "in_progress" THEN claim ELSE {}

(* _record_train: one row of the train at a time.                          *)
Record(j) ==
  /\ Mine(j) /\ row[j].train = 0 /\ train.id < MaxRows
  /\ train' = IF train.size > 0 THEN train
              ELSE [id |-> train.id + 1, size |-> Cardinality({k \in claim : Mine(k)})]
  /\ row' = [row EXCEPT ![j] = [@ EXCEPT !.status = "validated", !.train = train'.id,
                                         !.size = train'.size]]
  /\ Leaves
  /\ UNCHANGED <<tip, config, cmd, granted, commands, moves, deaths>>

(* The branch moved, a gate failed, or the push landed, which takes an     *)
(* approval or a validated train.                                          *)
Outcome(j, s) ==
  /\ Mine(j) /\ train.size = 0
  /\ s = "deployed" => /\ row[j].approval # None \/ row[j].train # 0
                       /\ tip[row[j].branch] = row[j].head
  /\ row' = [row EXCEPT ![j].status = s]
  /\ Leaves
  /\ UNCHANGED <<tip, config, cmd, train, granted, commands, moves, deaths>>

(* The runner dies; the next acquirer returns its rows to the queue.       *)
Die ==
  /\ claim # {} /\ deaths < MaxDeaths
  /\ deaths' = deaths + 1 /\ claim' = {}
  /\ UNCHANGED <<row, train, tip, config, cmd, granted, commands, moves>>

RecoverOrphans ==
  /\ claim = {} /\ InStatus("in_progress") # {}
  /\ row' = [j \in Ids |-> IF row[j].status = "in_progress"
                           THEN [row[j] EXCEPT !.status = "queued", !.train = 0, !.size = 0] ELSE row[j]]
  /\ UNCHANGED <<tip, config, cmd, claim, train, granted, commands, moves, deaths>>

Init ==
  /\ row = <<>> /\ tip = [b \in Branch |-> 1]
  /\ config = CHOOSE c \in Approval : TRUE
  /\ cmd = [a \in Agent |-> IdleCmd] /\ claim = {} /\ train = [id |-> 0, size |-> 0]
  /\ granted = {} /\ commands = 0 /\ moves = 0 /\ deaths = 0

Next ==
  \/ \E b \in Branch : Commit(b)
  \/ \E c \in Approval : EditConfig(c)
  \/ \E a \in Agent :
       \/ \E b \in Branch, auto \in BOOLEAN : EnqueueReads(a, b, auto)
       \/ \E j \in Ids, b \in Branch, renew \in BOOLEAN : RetryReads(a, j, b, renew)
       \/ \E t \in 1..MaxRows, B \in (SUBSET Branch) \ {{}} : SupersedeReads(a, t, B)
       \/ EnqueueWrites(a) \/ RetryWrites(a) \/ SupersedeWrites(a)
  \/ ClaimQueued \/ Die \/ RecoverOrphans
  \/ \E t \in 1..MaxRows : ClaimTrain(t)
  \/ \E j \in Ids : Drop(j) \/ Record(j) \/ \E s \in {"blocked", "deployed"} : Outcome(j, s)

Spec == Init /\ [][Next]_vars

-----------------------------------------------------------------------------
Symmetry == Permutations(Agent)

(* Types of the rows; the claim is what is in progress while a runner lives*)
TypeOK ==
  /\ \A j \in Ids :
       /\ row[j].branch \in Branch /\ row[j].head \in 1..(MaxMoves + 1)
       /\ row[j].approval \in Approval \cup {None}
       /\ row[j].status \in Live \cup {"deployed", "canceled"}
       /\ row[j].order \in 1..j /\ row[j].root \in 1..j
  /\ Len(row) <= MaxRows
  /\ claim # {} => {j \in claim : Mine(j)} = InStatus("in_progress") /\ \E j \in claim : Mine(j)

(* Two agents that look first and write later, by enqueue, retry or        *)
(* supersede, never leave two rows of one branch to be run.                *)
OneActivePerBranch == \A j, k \in Alive : row[j].branch = row[k].branch => j = k

(* A task that was retried, by two agents at once even, is queued once,    *)
(* and not again when one of its rows has landed.                          *)
OneRowPerTask ==
  \A j, k \in Alive \cup InStatus("deployed") : row[j].root = row[k].root => j = k

RunsOnce == OneActivePerBranch /\ OneRowPerTask

(* A row deploys unattended only where a human said so, by --auto, for its *)
(* branch and for this destination and policy.                             *)
AutoGranted ==
  \A j \in Ids : row[j].approval # None => <<row[j].branch, row[j].approval>> \in granted

(* Replacements stand for a train that is retired, all of it: none of it   *)
(* runs, lands or stays Ready beside them.                                 *)
ReplacesRetired ==
  \A k \in Ids : \A j \in Members(row[k].replaces) :
    row[k].replaces # 0 => row[j].status = "canceled" /\ row[j].retired # 0

(* Ordered processing: while an earlier task has a row to run, also one    *)
(* that a retry made, no later task lands.                                 *)
LandsFirst ==
  \A j \in Ids : (row[j].status # "deployed" /\ row'[j].status = "deployed")
    => \A k \in Alive : row[k].root >= row[j].root
=============================================================================
