------------------------------- MODULE Verify -------------------------------
(***************************************************************************)
(* Post-push verification: a deploy that landed is verified by its runner, *)
(* which may die first, and what is left failed or unknown is settled by   *)
(* mergetrain verify, for a deployment at a time: by running the hooks     *)
(* again, for minutes and under no lock, or by an operator's --ack.        *)
(***************************************************************************)
EXTENDS Naturals, FiniteSets, TLC

CONSTANTS
  Job,
  Verifier,   \* mergetrain verify commands
  Policy,     \* identities of deploy.verify
  NoHooks,    \* the one without hooks
  MaxEdits, MaxCommands

VerifyAssumption ==
  /\ NoHooks \in Policy /\ (\E p \in Policy : p # NoHooks)
  /\ MaxEdits \in Nat /\ MaxCommands \in Nat
  /\ Job \subseteq Nat \ {0}

VARIABLES
  config,    \* the identity of deploy.verify in the config file
  row,       \* deploy_queue: status, verify, dep (deployment_id), policy
  run,       \* the runner, from its push on
  cmd,       \* what each verify command has yet to do
  evidence,  \* history: what each row's verify_status rests on
  edits, commands

vars == <<config, row, run, cmd, evidence, edits, commands>>

Idle      == [pc |-> "idle"]
Open(j)   == row[j].status = "deployed" /\ row[j].verify \in {"unknown", "failed"}
NoProof   == [by |-> "nothing", policy |-> NoHooks]

-----------------------------------------------------------------------------
EditConfig(p) ==
  /\ p # config /\ edits < MaxEdits
  /\ config' = p /\ edits' = edits + 1
  /\ UNCHANGED <<row, run, cmd, evidence, commands>>

(* A train of these rows is pushed, and lands: its marker carries a new    *)
(* deployment_id and the policy of the runner's config.                    *)
PushLands(S) ==
  /\ run = Idle /\ S # {} /\ \A j \in S : row[j].status = "queued"
  /\ run' = [pc |-> "hooks", jobs |-> S, policy |-> config, verdict |-> "none"]
  /\ row' = [j \in Job |-> IF j \in S THEN [status |-> "in_progress", verify |-> "not_run",
                                            dep |-> CHOOSE d \in S : TRUE, policy |-> config]
                           ELSE row[j]]
  /\ UNCHANGED <<config, cmd, evidence, edits, commands>>

RunHooks(verdict) ==
  /\ run.pc = "hooks"
  /\ verdict = "not_configured" <=> run.policy = NoHooks
  /\ run' = [run EXCEPT !.pc = "finish", !.verdict = verdict]
  /\ UNCHANGED <<config, row, cmd, evidence, edits, commands>>

(* One row after the other is recorded.                                    *)
FinishRow(j) ==
  /\ run.pc = "finish" /\ j \in run.jobs
  /\ row' = [row EXCEPT ![j] = [@ EXCEPT !.status = "deployed", !.verify = run.verdict]]
  /\ evidence' = [evidence EXCEPT ![j] = [by |-> "runner", policy |-> run.policy]]
  /\ run' = IF run.jobs = {j} THEN Idle ELSE [run EXCEPT !.jobs = @ \ {j}]
  /\ UNCHANGED <<config, cmd, edits, commands>>

(* The runner dies: what it has not recorded is parked.                    *)
Crash ==
  /\ run # Idle /\ run' = Idle
  /\ row' = [j \in Job |-> IF j \in run.jobs THEN [row[j] EXCEPT !.status = "needs_reconcile"]
                           ELSE row[j]]
  /\ UNCHANGED <<config, cmd, evidence, edits, commands>>

(* reconcile: it landed; whether it was verified nobody knows.             *)
ReconcileRow(j) ==
  /\ run = Idle /\ row[j].status = "needs_reconcile"
  /\ row' = [row EXCEPT ![j] = [@ EXCEPT !.status = "deployed",
                                         !.verify = IF row[j].policy = NoHooks
                                                    THEN "not_configured" ELSE "unknown"]]
  /\ UNCHANGED <<config, run, cmd, evidence, edits, commands>>

-----------------------------------------------------------------------------
Members(j) == {k \in Job : row[k].dep = row[j].dep /\ row[k].dep # 0}

(* cmd_verify reads its config and its targets, one row per deployment.    *)
VerifyStarts(v, T, ack) ==
  /\ cmd[v] = Idle /\ commands < MaxCommands /\ commands' = commands + 1
  /\ cmd' = [cmd EXCEPT ![v] = [pc |-> "check", config |-> config, todo |-> T, ack |-> ack,
                                job |-> 0, verdict |-> "none"]]
  /\ UNCHANGED <<config, row, run, evidence, edits>>

(* verify --job, and verify of every unresolved deployment.                *)
VerifyJob(v, j, ack) == Open(j) /\ VerifyStarts(v, {j}, ack)

FirstOf(S) == {j \in S : \A k \in S : row[k].dep = row[j].dep => j <= k}

VerifyAll(v, ack) ==
  LET T == FirstOf({j \in Job : Open(j)})
  IN  Cardinality(T) > 1 /\ VerifyStarts(v, T, ack)

(* Mutant: the rest of the deployment may be anywhere.                     *)
WholeAtOnce(j) == Open(j)

(* _verification_group: the row is open, and its deployment all deployed.  *)
Whole(j) == Open(j) /\ \A k \in Members(j) : row[k].status = "deployed"

Raises(v) == cmd' = [cmd EXCEPT ![v] = Idle]

(* Mutant: the hooks of the config will do.                                *)
HooksAreAny(v, j) == cmd[v].config # NoHooks

HooksAreTheirs(v, j) == cmd[v].config # NoHooks /\ row[j].policy = cmd[v].config

(* The next deployment: an --ack needs no hooks; a policy that changed, or *)
(* is no more, ends the command.                                           *)
VerifyTakes(v, j) ==
  /\ cmd[v].pc = "check" /\ j \in cmd[v].todo /\ \A k \in cmd[v].todo : j <= k
  /\ IF ~Whole(j) \/ (cmd[v].ack = "none" /\ ~HooksAreTheirs(v, j)) THEN Raises(v)
     ELSE cmd' = [cmd EXCEPT ![v] = [@ EXCEPT !.pc = IF cmd[v].ack = "none" THEN "hooks" ELSE "write",
                                              !.job = j, !.verdict = cmd[v].ack]]
  /\ UNCHANGED <<config, row, run, evidence, edits, commands>>

(* reverify_deploy: the hooks pass, or fail, or the commit cannot be       *)
(* checked out, which ends the command.                                    *)
VerifyRuns(v, verdict) ==
  /\ cmd[v].pc = "hooks"
  /\ IF verdict = "none" THEN Raises(v)
     ELSE cmd' = [cmd EXCEPT ![v] = [@ EXCEPT !.pc = "write", !.verdict = verdict]]
  /\ UNCHANGED <<config, row, run, evidence, edits, commands>>

(* Mutant: only the row that was asked for is settled.                     *)
SettlesOne(j) == {j}

Settled(j) == IF row[j].dep = 0 THEN {j} ELSE Members(j)

(* Mutant: what was read before the hooks ran still stands.                *)
StandsAnyway(j) == TRUE

(* resolve_deployment_verify_status looks again, and settles all of it.    *)
StillStands(j) == Whole(j)

VerifyWrites(v) ==
  /\ cmd[v].pc = "write"
  /\ LET j == cmd[v].job IN
       IF ~StillStands(j) THEN Raises(v) /\ UNCHANGED <<row, evidence>>
       ELSE /\ row' = [k \in Job |-> IF k \in Settled(j) THEN [row[k] EXCEPT !.verify = cmd[v].verdict]
                                     ELSE row[k]]
            /\ evidence' = [k \in Job |-> IF k \notin Settled(j) THEN evidence[k]
                                          ELSE IF cmd[v].ack = "none"
                                          THEN [by |-> "hooks", policy |-> cmd[v].config]
                                          ELSE [by |-> "ack", policy |-> NoHooks]]
            /\ LET todo == cmd[v].todo \ {j} IN
                 cmd' = [cmd EXCEPT ![v] = IF todo = {} THEN Idle
                                           ELSE [cmd[v] EXCEPT !.pc = "check", !.todo = todo]]
  /\ UNCHANGED <<config, run, edits, commands>>

Init ==
  /\ config = CHOOSE p \in Policy : p # NoHooks
  /\ row = [j \in Job |-> [status |-> "queued", verify |-> "not_run", dep |-> 0, policy |-> NoHooks]]
  /\ run = Idle /\ cmd = [v \in Verifier |-> Idle]
  /\ evidence = [j \in Job |-> NoProof] /\ edits = 0 /\ commands = 0

Next ==
  \/ \E p \in Policy : EditConfig(p)
  \/ \E S \in SUBSET Job : PushLands(S)
  \/ \E s \in {"succeeded", "failed", "not_configured"} : RunHooks(s)
  \/ Crash
  \/ \E j \in Job : FinishRow(j) \/ ReconcileRow(j)
  \/ \E v \in Verifier :
       \/ \E ack \in {"none", "succeeded", "failed"} :
            VerifyAll(v, ack) \/ \E j \in Job : VerifyJob(v, j, ack)
       \/ \E j \in Job : VerifyTakes(v, j)
       \/ \E s \in {"none", "succeeded", "failed"} : VerifyRuns(v, s)
       \/ VerifyWrites(v)

Spec == Init /\ [][Next]_vars

-----------------------------------------------------------------------------
Symmetry == Permutations(Verifier)

(* Types; a row has a verdict exactly when it is deployed.                 *)
TypeOK ==
  /\ config \in Policy
  /\ \A j \in Job :
       /\ row[j].status \in {"queued", "in_progress", "needs_reconcile", "deployed"}
       /\ row[j].verify = "not_run" <=> row[j].status # "deployed"
       /\ row[j].policy \in Policy /\ row[j].dep \in Job \cup {0}
  /\ run # Idle => \A j \in run.jobs : row[j].status = "in_progress"

(* A row is verified by the hooks that were configured when it was pushed, *)
(* by its runner or by verify, or by an operator, whatever the config says *)
(* when verify runs.                                                       *)
VerifiedByItsHooks ==
  \A j \in Job : row[j].status = "deployed" /\ row[j].verify = "succeeded" =>
    \/ evidence[j].by = "ack"
    \/ evidence[j].by # "nothing" /\ evidence[j].policy = row[j].policy

(* Nothing verify does settles a deployment while its outcome is still     *)
(* being recorded or reconciled, nor a part of it.                         *)
SettlesWhole ==
  \A v \in Verifier : VerifyWrites(v) /\ row' # row =>
    \E d \in Job : \A j \in Job :
      IF row[j].dep = d THEN row'[j].status = "deployed" /\ row'[j].verify = cmd[v].verdict
      ELSE row'[j] = row[j]

(* A deployment that is verified stays so: hooks that ran meanwhile, or an *)
(* --ack that came late, do not take it back.                              *)
TakesNothingBack ==
  \A j \in Job :
    (\A k \in Members(j) : row[k].status = "deployed" /\ row[k].verify = "succeeded")
      => row'[j].verify = row[j].verify

(* cmd_verify: "Every deployment --job would accept": when the command for *)
(* all of them is over, none is left that verify --job would have settled. *)
AllAccepted ==
  [][\A v \in Verifier :
       cmd[v] # Idle /\ cmd'[v] = Idle =>
         \A j \in cmd[v].todo \ {cmd[v].job} : ~(Whole(j) /\ HooksAreTheirs(v, j))]_vars
=============================================================================
