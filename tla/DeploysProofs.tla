---------------------------- MODULE DeploysProofs ----------------------------
(***************************************************************************)
(* What is proved of the parts that MCDeploys puts side by side, for every *)
(* value of its constants: each property of its run.  A behaviour is one   *)
(* of one part, so the invariant of the whole is the invariant of each     *)
(* part under `part` (Inv, at the end).  That of the approvals is proved   *)
(* in ApprovalProofs; those of Verify, Reuse and GatePlan follow.          *)
(***************************************************************************)
EXTENDS MCDeploys, Integers, FiniteSetTheorems, TLAPS

-----------------------------------------------------------------------------
(***************************************************************************)
(* However many verify commands overlap with each other, with edits of the *)
(* hooks, with a runner that dies and with a reconcile: a deployment is    *)
(* verified by its own hooks or by an operator (VerifiedByItsHooks), is    *)
(* settled whole and once all of it is recorded (SettlesWhole), and what   *)
(* is verified is not taken back (TakesNothingBack).                       *)
(*                                                                         *)
(* A command runs for minutes on what it read.  What it relies on stays:   *)
(* the policy of a deployed row, and that one push gave a deployment its   *)
(* rows and its policy, at once.                                           *)
(***************************************************************************)

VerifyVerdict == {"unknown", "failed", "succeeded", "not_configured"}
VerifyRow == [status : {"queued", "in_progress", "needs_reconcile", "deployed"},
              verify : VerifyVerdict \cup {"not_run"}, dep : DeployedJob \cup {0}, policy : Hooks]
VerifyRun == [pc : {"hooks", "finish"}, jobs : SUBSET DeployedJob, policy : Hooks,
              verdict : VerifyVerdict \cup {"none"}]
VerifyProof == [by : {"nothing", "runner", "hooks", "ack"}, policy : Hooks]
VerifyCmd == [pc : {"check", "hooks", "write"}, config : Hooks, todo : SUBSET DeployedJob,
              ack : {"none", "succeeded", "failed"}, job : DeployedJob \cup {0},
              verdict : {"none", "succeeded", "failed"}]

VerifyTypes ==
  /\ config \in Hooks /\ row \in [DeployedJob -> VerifyRow]
  /\ run \in VerifyRun \cup {Verify!Idle}
  /\ cmd \in [Verifier -> VerifyCmd \cup {Verify!Idle}]
  /\ evidence \in [DeployedJob -> VerifyProof]

(* One push gave a deployment its rows and its policy.                     *)
VerifyDeployments ==
  /\ \A j \in DeployedJob : row[j].dep = 0 <=> row[j].status = "queued"
  /\ \A j \in DeployedJob : row[j].dep # 0 => row[row[j].dep].dep = row[j].dep
  /\ \A j, k \in DeployedJob : row[j].dep = row[k].dep /\ row[j].dep # 0
     => row[j].policy = row[k].policy

(* A verdict, and what it rests on.                                        *)
VerifyVerdictsOK ==
  /\ \A j \in DeployedJob : row[j].verify = "not_run" <=> row[j].status # "deployed"
  /\ Verify!VerifiedByItsHooks

VerifyRunOK ==
  run # Verify!Idle =>
    /\ \A j \in run.jobs : row[j].status = "in_progress" /\ row[j].policy = run.policy
    /\ run.pc = "finish" => run.verdict \in {"succeeded", "failed", "not_configured"}

(* What a command read of its deployment is still so.                      *)
VerifyCmdOK(c) ==
  c.pc \in {"hooks", "write"} =>
    /\ c.job \in DeployedJob /\ row[c.job].status = "deployed"
    /\ c.ack = "none" => row[c.job].policy = c.config
    /\ c.pc = "write" => c.verdict \in {"succeeded", "failed"}

VerifyInv ==
  /\ VerifyTypes /\ VerifyDeployments /\ VerifyVerdictsOK /\ VerifyRunOK
  /\ \A v \in Verifier : VerifyCmdOK(cmd[v])

-----------------------------------------------------------------------------
(* Rows keep their deployment.                                             *)
VerifySameDeployments ==
  \A j \in DeployedJob : /\ row'[j].dep = row[j].dep /\ row'[j].policy = row[j].policy
                         /\ (row'[j].status = "queued" <=> row[j].status = "queued")
                         /\ (row[j].status = "deployed" => row'[j].status = "deployed")

LEMMA VerifyDeploymentsStay ==
  ASSUME Verify!VerifyAssumption, VerifyInv, row' \in [DeployedJob -> VerifyRow],
         VerifySameDeployments
  PROVE  VerifyDeployments'
  <1>1. \A j \in DeployedJob : row[j].dep \in DeployedJob \cup {0}
    BY DEF VerifyInv, VerifyTypes, VerifyRow
  <1>2. \A j \in DeployedJob : /\ row'[j].dep = row[j].dep /\ row'[j].policy = row[j].policy
                               /\ (row'[j].status = "queued" <=> row[j].status = "queued")
    BY DEF VerifySameDeployments
  <1>3. \A j \in DeployedJob : row'[j].dep = 0 <=> row'[j].status = "queued"
    BY <1>2 DEF VerifyInv, VerifyDeployments
  <1>4. ASSUME NEW j \in DeployedJob, row'[j].dep # 0
        PROVE  row'[row'[j].dep].dep = row'[j].dep
    BY <1>1, <1>2, <1>4 DEF VerifyInv, VerifyDeployments
  <1>5. \A j, k \in DeployedJob : row'[j].dep = row'[k].dep /\ row'[j].dep # 0
                            => row'[j].policy = row'[k].policy
    BY <1>2 DEF VerifyInv, VerifyDeployments
  <1> QED BY <1>3, <1>4, <1>5 DEF VerifyDeployments

(* What commands read stays when deployed rows stay deployed.              *)
LEMMA VerifyCommandsStay ==
  ASSUME VerifyInv, \A j \in DeployedJob : row[j].status = "deployed"
                => row'[j].status = "deployed" /\ row'[j].policy = row[j].policy,
         NEW v \in Verifier, cmd'[v] = cmd[v]
  PROVE  VerifyCmdOK(cmd[v])'
  BY DEF VerifyInv, VerifyCmdOK
-----------------------------------------------------------------------------
(* Steps.                                                                  *)

LEMMA VerifyEditInv ==
  ASSUME Verify!VerifyAssumption, VerifyInv, config' \in Hooks,
         UNCHANGED <<row, run, cmd, evidence>>
  PROVE  VerifyInv'
  BY DEF VerifyInv, VerifyTypes, VerifyDeployments, VerifyVerdictsOK, Verify!VerifiedByItsHooks,
         VerifyRunOK, VerifyCmdOK

LEMMA VerifyPushInv ==
  ASSUME Verify!VerifyAssumption, VerifyInv, NEW S \in SUBSET DeployedJob, Verify!PushLands(S)
  PROVE  VerifyInv'
  <1> DEFINE d == CHOOSE d \in S : TRUE
             new == [status |-> "in_progress", verify |-> "not_run", dep |-> d, policy |-> config]
  <1>1. d \in S /\ d \in DeployedJob /\ d # 0 /\ config \in Hooks
    BY DEF Verify!PushLands, Verify!VerifyAssumption, VerifyInv, VerifyTypes
  <1>2. row' = [j \in DeployedJob |-> IF j \in S THEN new ELSE row[j]]
        /\ UNCHANGED <<config, cmd, evidence>>
    BY DEF Verify!PushLands
  <1>3. new \in VerifyRow /\ new.status = "in_progress" /\ new.verify = "not_run" /\ new.dep = d
          /\ new.policy = config
    BY <1>1 DEF VerifyRow
  <1>4. run' = [pc |-> "hooks", jobs |-> S, policy |-> config, verdict |-> "none"]
    BY DEF Verify!PushLands
  <1> HIDE DEF new, d
  <1>5. row' \in [DeployedJob -> VerifyRow] /\ run' \in VerifyRun
    BY <1>1, <1>2, <1>3, <1>4 DEF VerifyInv, VerifyTypes, VerifyRun
  <1>6. \A j \in DeployedJob : row[j].dep = 0 <=> row[j].status = "queued"
    BY DEF VerifyInv, VerifyDeployments
  <1>7. \A j \in S : row[j].status = "queued" /\ row[j].dep = 0
    BY <1>6 DEF Verify!PushLands
  <1>8. \A j \in DeployedJob : row[j].dep \in DeployedJob \cup {0}
    BY DEF VerifyInv, VerifyTypes, VerifyRow
  <1>9. \A j \in DeployedJob : row[j].dep # d
    BY <1>1, <1>7 DEF VerifyInv, VerifyDeployments
  <1>10. \A j \in DeployedJob : row[j].dep # 0 => row[j].dep \in DeployedJob \ S
    BY <1>7, <1>8 DEF VerifyInv, VerifyDeployments
  <1>11. VerifyDeployments'
    <2>1. \A j \in DeployedJob : row'[j].dep = 0 <=> row'[j].status = "queued"
      BY <1>1, <1>2, <1>3, <1>6
    <2>2. ASSUME NEW j \in DeployedJob, row'[j].dep # 0
          PROVE  row'[row'[j].dep].dep = row'[j].dep
      <3>1. CASE j \in S
        BY <1>1, <1>2, <1>3, <3>1
      <3>2. CASE j \notin S
        <4>1. row'[j].dep = row[j].dep /\ row[j].dep \in DeployedJob \ S
              /\ row[row[j].dep].dep = row[j].dep
          BY <1>2, <1>10, <2>2, <3>2 DEF VerifyInv, VerifyDeployments
        <4> QED BY <1>2, <4>1
      <3> QED BY <3>1, <3>2
    <2>3. ASSUME NEW j \in DeployedJob, NEW k \in DeployedJob, row'[j].dep = row'[k].dep,
                 row'[j].dep # 0
          PROVE  row'[j].policy = row'[k].policy
      <3>1. j \in S <=> k \in S
        BY <1>2, <1>3, <1>9, <2>3
      <3>2. CASE j \in S
        BY <1>2, <1>3, <3>1, <3>2
      <3>3. CASE j \notin S
        <4>1. row'[j] = row[j] /\ row'[k] = row[k]
          BY <1>2, <3>1, <3>3
        <4> QED BY <2>3, <4>1 DEF VerifyInv, VerifyDeployments
      <3> QED BY <3>2, <3>3
    <2> QED BY <2>1, <2>2, <2>3 DEF VerifyDeployments
  <1>12. VerifyVerdictsOK'
    BY <1>2, <1>3 DEF VerifyInv, VerifyVerdictsOK, Verify!VerifiedByItsHooks
  <1>13. VerifyRunOK'
    BY <1>2, <1>3, <1>4 DEF VerifyRunOK
  <1>14. \A j \in DeployedJob : row[j].status = "deployed" => row'[j] = row[j]
    BY <1>2, <1>7
  <1>15. \A v \in Verifier : VerifyCmdOK(cmd[v])'
    BY <1>2, <1>14, VerifyCommandsStay
  <1> QED BY <1>2, <1>5, <1>11, <1>12, <1>13, <1>15 DEF VerifyInv, VerifyTypes

LEMMA VerifyHooksInv ==
  ASSUME Verify!VerifyAssumption, VerifyInv,
         NEW s \in {"succeeded", "failed", "not_configured"}, Verify!RunHooks(s)
  PROVE  VerifyInv'
  <1>1. run \in VerifyRun /\ run' = [run EXCEPT !.pc = "finish", !.verdict = s]
    BY DEF Verify!RunHooks, VerifyInv, VerifyTypes, Verify!Idle
  <1>2. run' \in VerifyRun /\ run'.jobs = run.jobs /\ run'.policy = run.policy
        /\ run'.verdict = s
    BY <1>1 DEF VerifyRun, VerifyVerdict
  <1>3. run # Verify!Idle
    BY DEF Verify!RunHooks, Verify!Idle
  <1>4. UNCHANGED <<config, row, cmd, evidence>>
    BY DEF Verify!RunHooks
  <1>5. VerifyRunOK'
    BY <1>2, <1>3, <1>4 DEF VerifyInv, VerifyRunOK
  <1> QED BY <1>2, <1>4, <1>5
             DEF VerifyInv, VerifyTypes, VerifyDeployments, VerifyVerdictsOK,
                 Verify!VerifiedByItsHooks, VerifyCmdOK

(* One row is recorded, by the runner or by a reconcile.                   *)
LEMMA VerifyOneRowInv ==
  ASSUME Verify!VerifyAssumption, VerifyInv, NEW j \in DeployedJob,
         row[j].status \in {"in_progress", "needs_reconcile"},
         NEW s \in VerifyVerdict, NEW e \in VerifyProof,
         row' = [row EXCEPT ![j] = [@ EXCEPT !.status = "deployed", !.verify = s]],
         evidence' = [evidence EXCEPT ![j] = e],
         s = "succeeded" => e.by = "runner" /\ e.policy = row[j].policy,
         UNCHANGED <<config, cmd>>, run' \in VerifyRun \cup {Verify!Idle},
         run' # Verify!Idle =>
           /\ run # Verify!Idle /\ run'.pc = run.pc /\ run'.jobs \subseteq run.jobs \ {j}
           /\ run'.policy = run.policy /\ run'.verdict = run.verdict
  PROVE  VerifyInv'
  <1>1. row \in [DeployedJob -> VerifyRow] /\ row[j] \in VerifyRow
        /\ evidence \in [DeployedJob -> VerifyProof]
    BY DEF VerifyInv, VerifyTypes
  <1> DEFINE r == [row[j] EXCEPT !.status = "deployed", !.verify = s]
  <1>2. row' = [row EXCEPT ![j] = r]
    BY <1>1 DEF VerifyRow
  <1>3. /\ r \in VerifyRow /\ r.status = "deployed" /\ r.verify = s /\ r.dep = row[j].dep
        /\ r.policy = row[j].policy
    BY <1>1 DEF VerifyRow
  <1> HIDE DEF r
  <1>4. row' \in [DeployedJob -> VerifyRow] /\ evidence' \in [DeployedJob -> VerifyProof]
    BY <1>1, <1>2, <1>3
  <1>5. /\ row'[j] = r /\ evidence'[j] = e
        /\ \A k \in DeployedJob \ {j} : row'[k] = row[k] /\ evidence'[k] = evidence[k]
    BY <1>1, <1>2
  <1>6. VerifySameDeployments
    BY <1>3, <1>5 DEF VerifySameDeployments
  <1>7. VerifyVerdictsOK'
    <2>1. \A k \in DeployedJob : row'[k].verify = "not_run" <=> row'[k].status # "deployed"
      BY <1>3, <1>5 DEF VerifyInv, VerifyVerdictsOK, VerifyVerdict
    <2>2. Verify!VerifiedByItsHooks'
      <3> SUFFICES ASSUME NEW k \in DeployedJob, row'[k].status = "deployed",
                          row'[k].verify = "succeeded"
                   PROVE  \/ evidence'[k].by = "ack"
                          \/ /\ evidence'[k].by # "nothing"
                             /\ evidence'[k].policy = row'[k].policy
        BY DEF Verify!VerifiedByItsHooks
      <3>1. CASE k = j
        BY <1>3, <1>5, <3>1
      <3>2. CASE k # j
        <4>1. row'[k] = row[k] /\ evidence'[k] = evidence[k]
          BY <1>5, <3>2
        <4>2. row[k].status = "deployed" /\ row[k].verify = "succeeded"
          BY <4>1
        <4>3. evidence[k].by = "ack" \/ (evidence[k].by # "nothing"
              /\ evidence[k].policy = row[k].policy)
          BY <4>2 DEF VerifyInv, VerifyVerdictsOK, Verify!VerifiedByItsHooks
        <4> QED BY <4>1, <4>3
      <3> QED BY <3>1, <3>2
    <2> QED BY <2>1, <2>2 DEF VerifyVerdictsOK
  <1>8. VerifyRunOK'
    BY <1>5 DEF VerifyInv, VerifyRunOK, VerifyTypes, VerifyRun
  <1>9. \A v \in Verifier : VerifyCmdOK(cmd[v])'
    BY <1>6, VerifyCommandsStay DEF VerifySameDeployments
  <1>10. VerifyDeployments'
    BY <1>4, <1>6, VerifyDeploymentsStay
  <1> QED BY <1>4, <1>7, <1>8, <1>9, <1>10 DEF VerifyInv, VerifyTypes

LEMMA VerifyFinishInv ==
  ASSUME Verify!VerifyAssumption, VerifyInv, NEW j \in DeployedJob, Verify!FinishRow(j)
  PROVE  VerifyInv'
  <1>1. run \in VerifyRun /\ run # Verify!Idle
        /\ run.verdict \in {"succeeded", "failed", "not_configured"}
    BY DEF Verify!FinishRow, VerifyInv, VerifyTypes, VerifyRunOK, Verify!Idle
  <1>2. row[j].status = "in_progress" /\ row[j].policy = run.policy
    BY <1>1 DEF Verify!FinishRow, VerifyInv, VerifyRunOK
  <1>3. [by |-> "runner", policy |-> run.policy] \in VerifyProof
    BY <1>1 DEF VerifyRun, VerifyProof
  <1>4. /\ run' \in VerifyRun \cup {Verify!Idle}
        /\ run' # Verify!Idle => /\ run'.pc = run.pc /\ run'.jobs \subseteq run.jobs \ {j}
                                 /\ run'.policy = run.policy /\ run'.verdict = run.verdict
    BY <1>1 DEF Verify!FinishRow, VerifyRun
  <1>5. /\ row' = [row EXCEPT ![j] = [@ EXCEPT !.status = "deployed", !.verify = run.verdict]]
        /\ evidence' = [evidence EXCEPT ![j] = [by |-> "runner", policy |-> run.policy]]
        /\ UNCHANGED <<config, cmd>>
    BY DEF Verify!FinishRow
  <1> QED BY <1>1, <1>2, <1>3, <1>4, <1>5, VerifyOneRowInv DEF VerifyVerdict

LEMMA VerifyReconcileInv ==
  ASSUME Verify!VerifyAssumption, VerifyInv, NEW j \in DeployedJob, Verify!ReconcileRow(j)
  PROVE  VerifyInv'
  <1> DEFINE s == IF row[j].policy = NoHooks THEN "not_configured" ELSE "unknown"
  <1>1. s \in VerifyVerdict /\ s # "succeeded"
    BY DEF VerifyVerdict
  <1>2. evidence[j] \in VerifyProof /\ evidence' = [evidence EXCEPT ![j] = evidence[j]]
    BY DEF Verify!ReconcileRow, VerifyInv, VerifyTypes
  <1>3. /\ row' = [row EXCEPT ![j] = [@ EXCEPT !.status = "deployed", !.verify = s]]
        /\ row[j].status = "needs_reconcile" /\ run' = Verify!Idle /\ UNCHANGED <<config, cmd>>
    BY DEF Verify!ReconcileRow
  <1> HIDE DEF s
  <1> QED BY <1>1, <1>2, <1>3, VerifyOneRowInv

LEMMA VerifyCrashInv ==
  ASSUME Verify!VerifyAssumption, VerifyInv, Verify!Crash
  PROVE  VerifyInv'
  <1>1. /\ run' = Verify!Idle /\ run \in VerifyRun /\ UNCHANGED <<config, cmd, evidence>>
        /\ row' = [j \in DeployedJob |-> IF j \in run.jobs THEN [row[j] EXCEPT !.status = "needs_reconcile"]
                                 ELSE row[j]]
    BY DEF Verify!Crash, VerifyInv, VerifyTypes
  <1>2. ASSUME NEW j \in DeployedJob
        PROVE  /\ row'[j] \in VerifyRow
               /\ row'[j].dep = row[j].dep /\ row'[j].policy = row[j].policy
               /\ row'[j].verify = row[j].verify
               /\ (row'[j].status = "queued" <=> row[j].status = "queued")
               /\ (row'[j].status = "deployed" <=> row[j].status = "deployed")
    <2>1. row[j] \in VerifyRow /\ (j \in run.jobs => row[j].status = "in_progress")
      BY DEF VerifyInv, VerifyTypes, VerifyRunOK, Verify!Crash
    <2>2. CASE j \in run.jobs
      BY <1>1, <2>1, <2>2 DEF VerifyRow
    <2>3. CASE j \notin run.jobs
      BY <1>1, <2>1, <2>3
    <2> QED BY <2>2, <2>3
  <1>3. row' \in [DeployedJob -> VerifyRow]
    BY <1>1, <1>2
  <1>4. VerifySameDeployments
    BY <1>2 DEF VerifySameDeployments
  <1>5. VerifyDeployments'
    BY <1>3, <1>4, VerifyDeploymentsStay
  <1>6. VerifyVerdictsOK'
    BY <1>1, <1>2 DEF VerifyInv, VerifyVerdictsOK, Verify!VerifiedByItsHooks
  <1>7. \A v \in Verifier : VerifyCmdOK(cmd[v])'
    BY <1>1, <1>2, VerifyCommandsStay
  <1> QED BY <1>1, <1>3, <1>5, <1>6, <1>7 DEF VerifyInv, VerifyTypes, VerifyRunOK

(* A command goes on, or ends.                                             *)
LEMMA VerifyCommandInv ==
  ASSUME Verify!VerifyAssumption, VerifyInv, NEW v \in Verifier,
         NEW c \in VerifyCmd \cup {Verify!Idle},
         cmd' = [cmd EXCEPT ![v] = c], VerifyCmdOK(c), UNCHANGED <<config, row, run, evidence>>
  PROVE  VerifyInv'
  <1>1. \A w \in Verifier : VerifyCmdOK(cmd[w])'
    <2> SUFFICES ASSUME NEW w \in Verifier PROVE VerifyCmdOK(cmd[w])'
      OBVIOUS
    <2>1. CASE w = v
      BY <2>1 DEF VerifyInv, VerifyTypes, VerifyCmdOK
    <2>2. CASE w # v
      BY <2>2, VerifyCommandsStay DEF VerifyInv, VerifyTypes
    <2> QED BY <2>1, <2>2
  <1> QED BY <1>1
             DEF VerifyInv, VerifyTypes, VerifyDeployments, VerifyVerdictsOK,
                 Verify!VerifiedByItsHooks, VerifyRunOK

LEMMA VerifyIdleOK == VerifyCmdOK(Verify!Idle)
  BY DEF VerifyCmdOK, Verify!Idle

LEMMA VerifyStartInv ==
  ASSUME Verify!VerifyAssumption, VerifyInv, NEW v \in Verifier, NEW T \in SUBSET DeployedJob,
         NEW ack \in {"none", "succeeded", "failed"}, Verify!VerifyStarts(v, T, ack)
  PROVE  VerifyInv'
  <1> DEFINE c == [pc |-> "check", config |-> config, todo |-> T, ack |-> ack,
                   job |-> 0, verdict |-> "none"]
  <1>1. c \in VerifyCmd /\ c.pc = "check"
    BY DEF VerifyCmd, VerifyInv, VerifyTypes
  <1>2. cmd' = [cmd EXCEPT ![v] = c] /\ UNCHANGED <<config, row, run, evidence>>
    BY DEF Verify!VerifyStarts
  <1> HIDE DEF c
  <1> QED BY <1>1, <1>2, VerifyCommandInv DEF VerifyCmdOK

LEMMA VerifyTakesInv ==
  ASSUME Verify!VerifyAssumption, VerifyInv, NEW v \in Verifier, NEW j \in DeployedJob,
         Verify!VerifyTakes(v, j)
  PROVE  VerifyInv'
  <1> DEFINE c == [cmd[v] EXCEPT !.pc = IF cmd[v].ack = "none" THEN "hooks" ELSE "write",
                                 !.job = j, !.verdict = cmd[v].ack]
             no == ~Verify!Whole(j) \/ (cmd[v].ack = "none" /\ ~Verify!HooksAreTheirs(v, j))
  <1>1. cmd[v] \in VerifyCmd /\ UNCHANGED <<config, row, run, evidence>>
    BY DEF Verify!VerifyTakes, VerifyInv, VerifyTypes, Verify!Idle
  <1>2. CASE no
    BY <1>1, <1>2, VerifyIdleOK, VerifyCommandInv DEF Verify!VerifyTakes, Verify!Raises
  <1>3. CASE ~no
    <2>1. cmd' = [cmd EXCEPT ![v] = c]
      BY <1>1, <1>3 DEF Verify!VerifyTakes, VerifyInv, VerifyTypes, VerifyCmd
    <2>2. /\ c \in VerifyCmd /\ c.job = j /\ c.ack = cmd[v].ack /\ c.config = cmd[v].config
          /\ c.verdict = cmd[v].ack /\ (c.pc = "write" => cmd[v].ack # "none")
      BY <1>1 DEF VerifyCmd
    <2>3. VerifyCmdOK(c)
      <3>1. row[j].status = "deployed" /\ (cmd[v].ack = "none" => row[j].policy = cmd[v].config)
        BY <1>3 DEF Verify!Whole, Verify!Open, Verify!HooksAreTheirs
      <3> HIDE DEF c
      <3> QED BY <1>1, <2>2, <3>1 DEF VerifyCmdOK, VerifyCmd
    <2> HIDE DEF c
    <2> QED BY <1>1, <2>1, <2>2, <2>3, VerifyCommandInv
  <1> QED BY <1>2, <1>3

LEMMA VerifyRunsInv ==
  ASSUME Verify!VerifyAssumption, VerifyInv, NEW v \in Verifier,
         NEW s \in {"none", "succeeded", "failed"},
         Verify!VerifyRuns(v, s)
  PROVE  VerifyInv'
  <1> DEFINE c == [cmd[v] EXCEPT !.pc = "write", !.verdict = s]
  <1>1. cmd[v] \in VerifyCmd /\ cmd[v].pc = "hooks" /\ UNCHANGED <<config, row, run, evidence>>
    BY DEF Verify!VerifyRuns, VerifyInv, VerifyTypes, Verify!Idle
  <1>2. CASE s = "none"
    BY <1>1, <1>2, VerifyIdleOK, VerifyCommandInv DEF Verify!VerifyRuns, Verify!Raises
  <1>3. CASE s # "none"
    <2>1. cmd' = [cmd EXCEPT ![v] = c]
      BY <1>1, <1>3 DEF Verify!VerifyRuns, VerifyInv, VerifyTypes, VerifyCmd
    <2>2. /\ c \in VerifyCmd /\ c.job = cmd[v].job /\ c.ack = cmd[v].ack
          /\ c.config = cmd[v].config
          /\ c.verdict = s
      BY <1>1 DEF VerifyCmd
    <2>3. VerifyCmdOK(c)
      <3> HIDE DEF c
      <3> QED BY <1>1, <1>3, <2>2 DEF VerifyInv, VerifyCmdOK
    <2> HIDE DEF c
    <2> QED BY <1>1, <2>1, <2>2, <2>3, VerifyCommandInv
  <1> QED BY <1>2, <1>3


(* The result is written to the whole deployment.                          *)
LEMMA VerifySettledRows ==
  ASSUME Verify!VerifyAssumption, VerifyInv, NEW v \in Verifier, cmd[v].pc = "write",
         Verify!StillStands(cmd[v].job)
  PROVE  /\ cmd[v] \in VerifyCmd /\ cmd[v].job \in DeployedJob
         /\ row[cmd[v].job].dep \in DeployedJob
         /\ cmd[v].verdict \in {"succeeded", "failed"}
         /\ Verify!Settled(cmd[v].job) = {k \in DeployedJob : row[k].dep = row[cmd[v].job].dep}
         /\ \A k \in Verify!Settled(cmd[v].job) :
              /\ k \in DeployedJob /\ row[k].status = "deployed"
              /\ cmd[v].ack = "none" => row[k].policy = cmd[v].config
  <1> DEFINE j == cmd[v].job
  <1>1. cmd[v] \in VerifyCmd /\ j \in DeployedJob /\ cmd[v].verdict \in {"succeeded", "failed"}
        /\ (cmd[v].ack = "none" => row[j].policy = cmd[v].config)
    BY DEF VerifyInv, VerifyTypes, VerifyCmdOK, Verify!Idle
  <1>2. row[j].status = "deployed" /\ \A k \in Verify!Members(j) : row[k].status = "deployed"
    BY DEF Verify!StillStands, Verify!Whole, Verify!Open
  <1>3. row[j].dep \in DeployedJob /\ row[j].dep # 0
    BY <1>1, <1>2 DEF VerifyInv, VerifyTypes, VerifyRow, VerifyDeployments
  <1>4. Verify!Settled(j) = {k \in DeployedJob : row[k].dep = row[j].dep}
        /\ Verify!Settled(j) = Verify!Members(j)
    BY <1>3 DEF Verify!Settled, Verify!Members
  <1> QED BY <1>1, <1>2, <1>3, <1>4 DEF VerifyInv, VerifyDeployments

LEMMA VerifyWritesInv ==
  ASSUME Verify!VerifyAssumption, VerifyInv, NEW v \in Verifier, Verify!VerifyWrites(v)
  PROVE  VerifyInv'
  <1> DEFINE j == cmd[v].job
             S == Verify!Settled(j)
             proof == IF cmd[v].ack = "none" THEN [by |-> "hooks", policy |-> cmd[v].config]
                      ELSE [by |-> "ack", policy |-> NoHooks]
             todo == cmd[v].todo \ {j}
             c == IF todo = {} THEN Verify!Idle ELSE [cmd[v] EXCEPT !.pc = "check", !.todo = todo]
  <1>1. cmd[v].pc = "write" /\ UNCHANGED <<config, run>>
    BY DEF Verify!VerifyWrites
  <1>2. CASE ~Verify!StillStands(j)
    BY <1>1, <1>2, VerifyIdleOK, VerifyCommandInv DEF Verify!VerifyWrites, Verify!Raises
  <1>3. CASE Verify!StillStands(j)
    <2>1. /\ row' = [k \in DeployedJob |-> IF k \in S THEN [row[k] EXCEPT !.verify = cmd[v].verdict]
                                   ELSE row[k]]
          /\ evidence' = [k \in DeployedJob |-> IF k \notin S THEN evidence[k] ELSE proof]
          /\ cmd' = [cmd EXCEPT ![v] = c]
      <3>1. row' = [k \in DeployedJob |-> IF k \in S THEN [row[k] EXCEPT !.verify = cmd[v].verdict]
                                  ELSE row[k]]
        BY <1>3 DEF Verify!VerifyWrites
      <3>2. evidence' = [k \in DeployedJob |-> IF k \notin S THEN evidence[k] ELSE proof]
        BY <1>3, Zenon DEF Verify!VerifyWrites
      <3>3. cmd' = [cmd EXCEPT ![v] = c]
        BY <1>3 DEF Verify!VerifyWrites
      <3> QED BY <3>1, <3>2, <3>3
    <2>2. /\ cmd[v] \in VerifyCmd /\ cmd[v].verdict \in {"succeeded", "failed"}
          /\ \A k \in S : /\ k \in DeployedJob /\ row[k].status = "deployed"
                          /\ cmd[v].ack = "none" => row[k].policy = cmd[v].config
      BY <1>1, <1>3, VerifySettledRows
    <2>3. /\ proof \in VerifyProof
          /\ \A k \in S : \/ proof.by = "ack"
                          \/ proof.by # "nothing" /\ proof.policy = row[k].policy
      BY <2>2 DEF VerifyProof, VerifyCmd, Verify!VerifyAssumption
    <2>4. c \in VerifyCmd \cup {Verify!Idle} /\ c.pc \notin {"hooks", "write"}
      BY <2>2 DEF VerifyCmd, Verify!Idle
    <2> HIDE DEF S, proof, c
    <2>5. ASSUME NEW k \in DeployedJob
          PROVE  /\ row'[k] \in VerifyRow /\ row'[k].dep = row[k].dep
                 /\ row'[k].policy = row[k].policy
                 /\ row'[k].status = row[k].status
                 /\ row'[k].verify = IF k \in S THEN cmd[v].verdict ELSE row[k].verify
                 /\ evidence'[k] \in VerifyProof
                 /\ evidence'[k] = IF k \in S THEN proof ELSE evidence[k]
      BY <2>1, <2>2, <2>3 DEF VerifyInv, VerifyTypes, VerifyRow, VerifyVerdict
    <2>6. row' \in [DeployedJob -> VerifyRow] /\ evidence' \in [DeployedJob -> VerifyProof]
          /\ cmd' \in [Verifier -> VerifyCmd \cup {Verify!Idle}]
      BY <2>1, <2>4, <2>5 DEF VerifyInv, VerifyTypes
    <2>7. VerifySameDeployments
      BY <2>5 DEF VerifySameDeployments
    <2>8. VerifyDeployments'
      BY <2>6, <2>7, VerifyDeploymentsStay
    <2>9. VerifyVerdictsOK'
      <3>1. \A k \in DeployedJob : row'[k].verify = "not_run" <=> row'[k].status # "deployed"
        BY <2>2, <2>5 DEF VerifyInv, VerifyVerdictsOK
      <3>2. Verify!VerifiedByItsHooks'
        <4> SUFFICES ASSUME NEW k \in DeployedJob, row'[k].status = "deployed",
                            row'[k].verify = "succeeded"
                     PROVE  \/ evidence'[k].by = "ack"
                            \/ /\ evidence'[k].by # "nothing"
                               /\ evidence'[k].policy = row'[k].policy
          BY DEF Verify!VerifiedByItsHooks
        <4>1. CASE k \in S
          BY <2>3, <2>5, <4>1
        <4>2. CASE k \notin S
          BY <2>5, <4>2 DEF VerifyInv, VerifyVerdictsOK, Verify!VerifiedByItsHooks
        <4> QED BY <4>1, <4>2
      <3> QED BY <3>1, <3>2 DEF VerifyVerdictsOK
    <2>10. VerifyRunOK'
      BY <1>1, <2>5 DEF VerifyInv, VerifyRunOK, VerifyTypes, VerifyRun
    <2>11. \A w \in Verifier : VerifyCmdOK(cmd[w])'
      <3> SUFFICES ASSUME NEW w \in Verifier PROVE VerifyCmdOK(cmd[w])'
        OBVIOUS
      <3>1. CASE w = v
        <4>1. cmd'[w] = c
          BY <2>1, <3>1 DEF VerifyInv, VerifyTypes
        <4> QED BY <2>4, <4>1 DEF VerifyCmdOK
      <3>2. CASE w # v
        <4>1. cmd'[w] = cmd[w]
          BY <2>1, <3>2 DEF VerifyInv, VerifyTypes
        <4> QED BY <2>5, <4>1, VerifyCommandsStay
      <3> QED BY <3>1, <3>2
    <2> QED BY <1>1, <2>6, <2>8, <2>9, <2>10, <2>11 DEF VerifyInv, VerifyTypes
  <1> QED BY <1>2, <1>3

-----------------------------------------------------------------------------
LEMMA VerifyInitInv ==
  ASSUME Verify!VerifyAssumption, Verify!Init
  PROVE  VerifyInv
  <1>1. config \in Hooks
    BY DEF Verify!Init, Verify!VerifyAssumption
  <1>2. [status |-> "queued", verify |-> "not_run", dep |-> 0, policy |-> NoHooks] \in VerifyRow
          /\ Verify!NoProof \in VerifyProof
    BY DEF Verify!VerifyAssumption, VerifyRow, Verify!NoProof, VerifyProof
  <1>3. VerifyTypes
    BY <1>1, <1>2 DEF Verify!Init, VerifyTypes
  <1> QED BY <1>3, VerifyIdleOK
             DEF Verify!Init, VerifyInv, VerifyDeployments, VerifyVerdictsOK,
                 Verify!VerifiedByItsHooks, VerifyRunOK

LEMMA VerifyNextInv ==
  ASSUME Verify!VerifyAssumption, VerifyInv, [Verify!Next]_Verify!vars
  PROVE  VerifyInv'
  <1>1. ASSUME NEW p \in Hooks, Verify!EditConfig(p) PROVE VerifyInv'
    BY <1>1, VerifyEditInv DEF Verify!EditConfig
  <1>2. ASSUME NEW S \in SUBSET DeployedJob, Verify!PushLands(S) PROVE VerifyInv'
    BY <1>2, VerifyPushInv
  <1>3. ASSUME NEW s \in {"succeeded", "failed", "not_configured"},
               Verify!RunHooks(s) PROVE VerifyInv'
    BY <1>3, VerifyHooksInv
  <1>4. CASE Verify!Crash
    BY <1>4, VerifyCrashInv
  <1>5. ASSUME NEW j \in DeployedJob,
               Verify!FinishRow(j) \/ Verify!ReconcileRow(j) PROVE VerifyInv'
    BY <1>5, VerifyFinishInv, VerifyReconcileInv
  <1>6. ASSUME NEW v \in Verifier, NEW ack \in {"none", "succeeded", "failed"},
               Verify!VerifyAll(v, ack)
        PROVE  VerifyInv'
    <2>1. Verify!FirstOf({j \in DeployedJob : Verify!Open(j)}) \in SUBSET DeployedJob
      BY DEF Verify!FirstOf
    <2> QED BY <1>6, <2>1, VerifyStartInv DEF Verify!VerifyAll
  <1>7. ASSUME NEW v \in Verifier, NEW ack \in {"none", "succeeded", "failed"},
               NEW j \in DeployedJob,
               Verify!VerifyJob(v, j, ack)
        PROVE  VerifyInv'
    BY <1>7, VerifyStartInv DEF Verify!VerifyJob
  <1>8. ASSUME NEW v \in Verifier, NEW j \in DeployedJob,
               Verify!VerifyTakes(v, j) PROVE VerifyInv'
    BY <1>8, VerifyTakesInv
  <1>9. ASSUME NEW v \in Verifier, NEW s \in {"none", "succeeded", "failed"},
               Verify!VerifyRuns(v, s)
        PROVE  VerifyInv'
    BY <1>9, VerifyRunsInv
  <1>10. ASSUME NEW v \in Verifier, Verify!VerifyWrites(v) PROVE VerifyInv'
    BY <1>10, VerifyWritesInv
  <1>11. CASE UNCHANGED Verify!vars
    BY <1>11, VerifyEditInv DEF Verify!vars, VerifyInv, VerifyTypes
  <1> QED BY <1>1, <1>2, <1>3, <1>4, <1>5, <1>6, <1>7, <1>8, <1>9, <1>10, <1>11 DEF Verify!Next

-----------------------------------------------------------------------------
(* What a step may do to a deployment.                                     *)

LEMMA VerifyWritesSettleWhole ==
  ASSUME Verify!VerifyAssumption, VerifyInv
  PROVE  Verify!SettlesWhole
  <1> SUFFICES ASSUME NEW v \in Verifier, Verify!VerifyWrites(v), row' # row
               PROVE  \E d \in DeployedJob : \A j \in DeployedJob :
                        IF row[j].dep = d
                        THEN row'[j].status = "deployed" /\ row'[j].verify = cmd[v].verdict
                        ELSE row'[j] = row[j]
    BY DEF Verify!SettlesWhole
  <1> DEFINE c == cmd[v]
  <1>1. /\ c.pc = "write" /\ Verify!StillStands(c.job)
        /\ row' = [k \in DeployedJob |-> IF k \in Verify!Settled(c.job) THEN [row[k] EXCEPT !.verify = c.verdict]
                                 ELSE row[k]]
    BY DEF Verify!VerifyWrites
  <1>2. /\ row[c.job].dep \in DeployedJob
        /\ Verify!Settled(c.job) = {k \in DeployedJob : row[k].dep = row[c.job].dep}
        /\ \A k \in Verify!Settled(c.job) : row[k].status = "deployed"
    BY <1>1, VerifySettledRows
  <1>3. ASSUME NEW j \in DeployedJob
        PROVE  IF row[j].dep = row[c.job].dep
               THEN row'[j].status = "deployed" /\ row'[j].verify = c.verdict
               ELSE row'[j] = row[j]
    <2>1. row[j] \in VerifyRow
      BY DEF VerifyInv, VerifyTypes
    <2> HIDE DEF c
    <2> QED BY <1>1, <1>2, <2>1 DEF VerifyRow
  <1> QED BY <1>2, <1>3

(* Rows that are in the queue, or being pushed or reconciled, are open; so *)
(* is a row that verify settles.                                           *)
LEMMA VerifyNothingTakenBack ==
  ASSUME Verify!VerifyAssumption, VerifyInv, [Verify!Next]_Verify!vars
  PROVE  Verify!TakesNothingBack
  <1> SUFFICES ASSUME NEW j \in DeployedJob,
                      \A k \in Verify!Members(j) : row[k].status = "deployed"
                          /\ row[k].verify = "succeeded"
               PROVE  row'[j].verify = row[j].verify
    BY DEF Verify!TakesNothingBack
  <1>1. row[j] \in VerifyRow /\ row \in [DeployedJob -> VerifyRow]
    BY DEF VerifyInv, VerifyTypes
  <1>2. \/ row[j].status = "queued" /\ row[j].verify = "not_run"
        \/ row[j].status = "deployed" /\ row[j].verify = "succeeded" /\ j \in Verify!Members(j)
    BY <1>1 DEF VerifyInv, VerifyDeployments, VerifyVerdictsOK, Verify!Members
  <1>3. ASSUME row' = row PROVE row'[j].verify = row[j].verify
    BY <1>3
  <1>4. ASSUME NEW S \in SUBSET DeployedJob,
               Verify!PushLands(S) PROVE row'[j].verify = row[j].verify
    BY <1>2, <1>4 DEF Verify!PushLands
  <1>5. CASE Verify!Crash
    BY <1>1, <1>5 DEF Verify!Crash, VerifyRow
  <1>6. ASSUME NEW k \in DeployedJob, Verify!FinishRow(k) PROVE row'[j].verify = row[j].verify
    <2>1. row[k].status = "in_progress"
      BY <1>6 DEF Verify!FinishRow, VerifyInv, VerifyRunOK, Verify!Idle
    <2> QED BY <1>1, <1>2, <1>6, <2>1 DEF Verify!FinishRow
  <1>7. ASSUME NEW k \in DeployedJob,
               Verify!ReconcileRow(k) PROVE row'[j].verify = row[j].verify
    BY <1>1, <1>2, <1>7 DEF Verify!ReconcileRow
  <1>8. ASSUME NEW v \in Verifier, Verify!VerifyWrites(v) PROVE row'[j].verify = row[j].verify
    <2> DEFINE c == cmd[v]
    <2>1. CASE ~Verify!StillStands(c.job)
      BY <1>8, <2>1 DEF Verify!VerifyWrites
    <2>2. CASE Verify!StillStands(c.job)
      <3>1. /\ c.pc = "write"
            /\ row' = [k \in DeployedJob |-> IF k \in Verify!Settled(c.job) THEN [row[k] EXCEPT !.verify = c.verdict]
                                     ELSE row[k]]
        BY <1>8, <2>2 DEF Verify!VerifyWrites
      <3>2. /\ c.job \in DeployedJob /\ row[c.job].dep \in DeployedJob
            /\ Verify!Settled(c.job) = {k \in DeployedJob : row[k].dep = row[c.job].dep}
        BY <2>2, <3>1, VerifySettledRows
      <3>3. row[c.job].verify # "succeeded"
        BY <2>2 DEF Verify!StillStands, Verify!Whole, Verify!Open
      <3>4. j \notin Verify!Settled(c.job)
        BY <3>2, <3>3 DEF Verify!Members, Verify!VerifyAssumption
      <3> HIDE DEF c
      <3> QED BY <3>1, <3>4
    <2> QED BY <2>1, <2>2
  <1> QED BY <1>3, <1>4, <1>5, <1>6, <1>7, <1>8
          DEF Verify!Next, Verify!vars, Verify!EditConfig, Verify!RunHooks, Verify!VerifyAll,
              Verify!VerifyJob, Verify!VerifyStarts, Verify!VerifyTakes,
              Verify!VerifyRuns

LEMMA VerifyHolds ==
  ASSUME VerifyInv
  PROVE  Verify!TypeOK /\ Verify!VerifiedByItsHooks
  BY DEF VerifyInv, VerifyTypes, VerifyVerdictsOK, VerifyRunOK, Verify!TypeOK, VerifyRow

-----------------------------------------------------------------------------
(***************************************************************************)
(* A validation is reused only for what it was: whatever lands has passed  *)
(* its gates as it lands, and toolchains, caches and deploy.reuse = "fail" *)
(* are respected, for any gates, policies, toolchains, ages and moves of   *)
(* the world.                                                              *)
(*                                                                         *)
(* A commit carries the number of the run that built it, so commits of     *)
(* different runs differ (ReuseNumbered), and what passed on a train's     *)
(* commit passed in its validation, or in the deploy that is under way     *)
(* (ReuseTrainGated).  A run knows what it has gated so far                *)
(* (ReuseRunGated), what it took over from the train (ReuseRunShape), and, *)
(* for as long as the toolchain does not change, whose the cache is        *)
(* (ReuseUndrifted, ReuseCacheOK).                                         *)
(***************************************************************************)

(* Types of what is kept.                                                  *)
ReuseId      == [pc : {"identity"}, policy : Policy, env : Env]
ReuseCommits == [pc : {"commit"}, base : Nat, head : Nat, no : Nat]
ReuseTrain   == [pc : {"train"}, commit : ReuseCommits, policy : Policy, env : Env, at : Nat,
                 drifted : BOOLEAN]
ReuseRun     == [pc : Reuse!PCs, deploy : BOOLEAN, config : Reuse!Config, no : Nat,
                 head : Nat, base : Nat, commit : ReuseCommits \cup {Reuse!None},
                 reused : BOOLEAN, known : BOOLEAN, todo : SUBSET Gate, read : Env \cup ReuseId \cup {Reuse!None}]
ReuseRan     == [commit : ReuseCommits, gate : Gate, env : Env, no : Nat, policy : Policy,
                 cache : SUBSET ReuseId]
ReuseLanding == [commit : ReuseCommits, no : Nat, config : Reuse!Config, reused : BOOLEAN,
                 train : ReuseTrain \cup {Reuse!None},
                 read : Env \cup ReuseId \cup {Reuse!None}, onto : Nat]

ReuseTypes ==
  /\ config \in Reuse!Config /\ env \in Env
  /\ moves \in 0..MaxMoves /\ runs \in 0..MaxRuns /\ clock \in 0..MaxClock
  /\ head \in 1..(moves + 1)
  /\ tip \in Nat /\ 1 <= tip /\ tip <= moves + runs + (IF run = Reuse!Idle THEN 1 ELSE 0)
  /\ train \in ReuseTrain \cup {Reuse!None}
  /\ run \in ReuseRun \cup {Reuse!Idle}
  /\ marker \in ReuseId \cup {Reuse!None} /\ cache \subseteq ReuseId
  /\ drifted \subseteq {"run", "cache"}
  /\ ran \subseteq ReuseRan /\ landed \subseteq ReuseLanding
  /\ train # Reuse!None => train.at <= clock

ReuseGating == {"gating", "record", "push"}
ReuseDoing  == {"assemble", "activate", "empty", "mark"} \cup ReuseGating

(* Where a run is, and what it has.                                        *)
ReuseRunShape(r) ==
  /\ r.pc \in {"record", "push"} <=> r.todo = {}
  /\ r.pc \in {"activate", "empty", "mark", "record"} => ~r.deploy
  /\ r.pc = "push" => r.deploy
  /\ r.pc \in {"decide", "fingerprint"} => r.deploy /\ train # Reuse!None
  /\ r.pc = "fingerprint" => r.base = train.commit.base /\ r.config.policy = train.policy
  /\ ~r.deploy => train = Reuse!None
  /\ r.commit # Reuse!None <=> r.pc \in {"activate", "empty", "mark"} \cup ReuseGating
  /\ r.commit # Reuse!None /\ ~r.reused => r.commit.base = r.base /\ r.commit.no = r.no
  /\ r.pc \notin ReuseGating => r.todo = Gate
  /\ r.reused => /\ r.pc \in {"gating", "push"} /\ r.deploy /\ train # Reuse!None
                 /\ r.commit = train.commit /\ r.base = train.commit.base
                 /\ r.config.policy = train.policy /\ r.read = train.env
  /\ r.config.mode = "fail" /\ train # Reuse!None /\ r.pc \in ReuseDoing => r.reused
  /\ r.pc \in {"empty", "mark", "gating", "record"} /\ ~r.deploy
       => r.read \in ReuseId /\ r.read.policy = r.config.policy
ReuseRunOK == run # Reuse!Idle => ReuseRunShape(run) /\ run.no = runs

(* The numbers of runs tell commits apart.                                 *)
ReuseNumbered ==
  /\ \A r \in ran : r.commit.no <= r.no /\ r.no <= runs
  /\ \A l \in landed : l.commit.no <= l.no /\ l.no <= runs
  /\ train # Reuse!None => train.commit.no <= runs /\ \A l \in landed : l.no < train.commit.no
  /\ run # Reuse!Idle => /\ \A l \in landed : l.no < run.no
                         /\ train # Reuse!None => train.commit.no < run.no
                         /\ \A r \in ran : r.no = run.no => run.pc \in ReuseGating

(* What has passed.                                                        *)
ReusePassed(g, commit, policy, nos) ==
  \E r \in ran : r.commit = commit /\ r.gate = g /\ r.policy = policy /\ r.no \in nos

ReuseTrainGated ==
  train # Reuse!None =>
    /\ \A g \in Gate : Reuse!Matches(g, train.commit)
       => ReusePassed(g, train.commit, train.policy, Nat)
    /\ ~train.drifted =>
         \A r \in ran : r.commit = train.commit =>
           r.env = train.env \/ (run # Reuse!Idle /\ r.no = run.no)

ReuseRunGated ==
  run # Reuse!Idle /\ run.pc \in ReuseGating =>
    \A g \in Gate \ run.todo :
      Reuse!Matches(g, run.commit) /\ (run.reused => g \in Always)
        => ReusePassed(g, run.commit, run.config.policy, {run.no})

(* Toolchains and caches.                                                  *)
ReuseUndrifted ==
  run # Reuse!Idle /\ ~run.deploy /\ run.pc \in {"empty", "mark", "gating", "record"}
      /\ "run" \notin drifted =>
    /\ run.read.env = env
    /\ \A r \in ran : r.no = run.no => r.env = env

ReuseCacheOK ==
  /\ "run" \in drifted => "cache" \in drifted
  /\ "cache" \notin drifted => cache \subseteq {marker}
  /\ run # Reuse!Idle /\ ~run.deploy /\ run.pc \in {"gating", "record"} => marker = run.read
  /\ run # Reuse!Idle /\ run.pc = "mark" /\ "cache" \notin drifted => cache \subseteq {run.read}

ReuseLandedOK == Reuse!LandedGated /\ Reuse!SameToolchain /\ Reuse!FailsClosed

ReuseInv ==
  /\ ReuseTypes /\ ReuseRunOK /\ ReuseNumbered /\ ReuseTrainGated /\ ReuseRunGated
  /\ ReuseUndrifted /\ ReuseCacheOK /\ ReuseLandedOK

-----------------------------------------------------------------------------
(* A run is a record of its kind, and no other value looks like one.       *)
LEMMA ReuseRunType ==
  ASSUME ReuseTypes, run # Reuse!Idle
  PROVE  run \in ReuseRun
  BY DEF ReuseTypes

LEMMA ReuseNotIdle == \A r \in ReuseRun : r # Reuse!Idle /\ r.pc \in Reuse!PCs
  BY DEF ReuseRun, Reuse!Idle, Reuse!PCs

LEMMA ReuseNotNone == Reuse!None \notin ReuseCommits /\ Reuse!None \notin ReuseTrain
  BY DEF Reuse!None, ReuseCommits, ReuseTrain

(* The world moves on.                                                     *)
LEMMA ReuseWorldMoves ==
  ASSUME ReuseInv, ReuseTypes',
         UNCHANGED <<env, train, run, marker, cache, ran, landed, drifted, runs>>
  PROVE  ReuseInv'
<1> USE DEF ReuseInv
<1>1. ReuseRunOK' /\ ReuseNumbered'
  BY DEF ReuseRunOK, ReuseRunShape, ReuseNumbered
<1>2. ReuseTrainGated' /\ ReuseRunGated'
  BY DEF ReuseTrainGated, ReuseRunGated, ReusePassed
<1>3. ReuseUndrifted' /\ ReuseCacheOK'
  BY DEF ReuseUndrifted, ReuseCacheOK
<1>4. ReuseLandedOK'
  BY DEF ReuseLandedOK, Reuse!LandedGated, Reuse!SameToolchain, Reuse!FailsClosed, Reuse!RanOn
<1> QED
  BY <1>1, <1>2, <1>3, <1>4

LEMMA ReuseWorldSteps ==
  ASSUME Reuse!ReuseAssumption, ReuseInv
  PROVE  /\ \A c \in Reuse!Config : Reuse!EditConfig(c) => ReuseInv'
         /\ Reuse!Commit \/ Reuse!OthersLand \/ Reuse!Tick \/ Reuse!Prune => ReuseInv'
<1> USE DEF ReuseInv, Reuse!Moves
<1>0. {MaxAge, MaxClock, MaxMoves, MaxRuns} \subseteq Nat
  BY DEF Reuse!ReuseAssumption
<1>1. ASSUME NEW c \in Reuse!Config, Reuse!EditConfig(c) PROVE ReuseInv'
  <2>1. ReuseTypes'
    BY <1>0, <1>1 DEF Reuse!EditConfig, ReuseTypes
  <2> QED
    BY <1>1, <2>1, ReuseWorldMoves DEF Reuse!EditConfig
<1>2. ASSUME Reuse!Commit PROVE ReuseInv'
  <2>1. ReuseTypes'
    BY <1>0, <1>2 DEF Reuse!Commit, ReuseTypes
  <2> QED
    BY <1>2, <2>1, ReuseWorldMoves DEF Reuse!Commit
<1>3. ASSUME Reuse!OthersLand PROVE ReuseInv'
  <2>1. ReuseTypes'
    BY <1>0, <1>3 DEF Reuse!OthersLand, ReuseTypes
  <2> QED
    BY <1>3, <2>1, ReuseWorldMoves DEF Reuse!OthersLand
<1>4. ASSUME Reuse!Tick PROVE ReuseInv'
  <2>1. ReuseTypes'
    <3>1. train # Reuse!None => train.at \in Nat
      BY DEF ReuseTypes, ReuseTrain
    <3> QED
      BY <1>0, <1>4, <3>1 DEF Reuse!Tick, ReuseTypes
  <2> QED
    BY <1>4, <2>1, ReuseWorldMoves DEF Reuse!Tick
<1>5. ASSUME Reuse!Prune PROVE ReuseInv'
  <2>1. ReuseTypes'
    BY <1>0, <1>5 DEF Reuse!Prune, ReuseTypes
  <2> QED
    BY <1>5, <2>1, ReuseWorldMoves DEF Reuse!Prune
<1> QED
  BY <1>1, <1>2, <1>3, <1>4, <1>5

LEMMA ReuseChangeEnvironmentKeeps ==
  ASSUME Reuse!ReuseAssumption, ReuseInv, NEW e \in Env, Reuse!ChangeEnvironment(e)
  PROVE  ReuseInv'
<1> USE DEF ReuseInv, Reuse!Moves, Reuse!ChangeEnvironment
<1>0. {MaxAge, MaxClock, MaxMoves, MaxRuns} \subseteq Nat
  BY DEF Reuse!ReuseAssumption
<1>1. ReuseTypes'
  BY <1>0 DEF ReuseTypes
<1>2. ReuseRunOK' /\ ReuseNumbered'
  BY DEF ReuseRunOK, ReuseRunShape, ReuseNumbered
<1>3. ReuseTrainGated' /\ ReuseRunGated'
  BY DEF ReuseTrainGated, ReuseRunGated, ReusePassed
<1>4. ReuseUndrifted'
  BY DEF ReuseUndrifted
<1>5. ReuseCacheOK'
  BY DEF ReuseCacheOK
<1>6. ReuseLandedOK'
  BY DEF ReuseLandedOK, Reuse!LandedGated, Reuse!SameToolchain, Reuse!FailsClosed, Reuse!RanOn
<1> QED
  BY <1>1, <1>2, <1>3, <1>4, <1>5, <1>6

(* The workspace of validations stays, or is made anew.                    *)
ReuseWorkspace ==
  \/ UNCHANGED <<marker, cache, drifted>>
  \/ marker' = Reuse!None /\ cache' = {} /\ drifted' = {}

(* The run ends, and with it the train.                                    *)
LEMMA ReuseStopsKeeps ==
  ASSUME ReuseInv, Reuse!Stops, moves <= moves', moves' \in 0..MaxMoves, ReuseWorkspace,
         UNCHANGED <<config, env, head, tip, clock, pruned, ran, landed, runs>>
  PROVE  ReuseInv'
<1> USE DEF ReuseInv, Reuse!Stops, ReuseWorkspace
<1>1. ReuseTypes'
  <2>1. /\ moves \in Int /\ moves' \in Int /\ runs \in Int /\ tip \in Int
        /\ head \in Int /\ 1 <= head /\ head <= moves + 1
        /\ tip <= moves + runs + 1
    BY DEF ReuseTypes
  <2>2. \A m \in Int : moves <= m => tip <= m + runs + 1 /\ head \in 1..(m + 1)
    BY <2>1
  <2>3. tip' <= moves' + runs' + 1 /\ head' \in 1..(moves' + 1)
    BY <2>1, <2>2
  <2> QED
    BY <2>3 DEF ReuseTypes
<1>2. ReuseRunOK' /\ ReuseNumbered' /\ ReuseTrainGated' /\ ReuseRunGated' /\ ReuseUndrifted'
      /\ ReuseCacheOK'
  BY DEF ReuseRunOK, ReuseNumbered, ReuseTrainGated, ReuseRunGated, ReuseUndrifted, ReuseCacheOK
<1>3. ReuseLandedOK'
  BY DEF ReuseLandedOK, Reuse!LandedGated, Reuse!SameToolchain, Reuse!FailsClosed, Reuse!RanOn
<1> QED
  BY <1>1, <1>2, <1>3

(* Each step of a run keeps the invariant.                                 *)
LEMMA ReuseStartKeeps ==
  ASSUME Reuse!ReuseAssumption, ReuseInv, NEW deploy \in BOOLEAN, Reuse!Start(deploy)
  PROVE  ReuseInv'
<1> USE DEF ReuseInv, Reuse!Start
<1>0. MaxRuns \in Nat /\ MaxMoves \in Nat
  BY DEF Reuse!ReuseAssumption
<1>1. run' \in ReuseRun /\ run' # Reuse!Idle /\ run'.pc = "fetch" /\ run'.commit = Reuse!None
  <2>1. train # Reuse!None => train.commit.head \in Nat
    BY DEF ReuseTypes, ReuseTrain, ReuseCommits
  <2> QED
    BY <1>0, <2>1 DEF ReuseTypes, ReuseRun, Reuse!PCs, Reuse!Idle
<1>2. ReuseTypes'
  BY <1>0, <1>1 DEF ReuseTypes
<1>3. ReuseRunOK'
  <2>1. Gate # {}
    BY DEF Reuse!ReuseAssumption
  <2> QED
    BY <1>1, <2>1 DEF ReuseRunOK, ReuseRunShape, ReuseGating, ReuseDoing
<1>4. ReuseNumbered'
  <2>1. runs \in Nat /\ runs' = runs + 1 /\ run'.no = runs + 1 /\ runs' \in Nat
    BY <1>0 DEF ReuseTypes
  <2>2. /\ \A r \in ran : r.no \in Nat /\ r.commit.no \in Nat
        /\ \A l \in landed : l.no \in Nat /\ l.commit.no \in Nat
        /\ train # Reuse!None => train.commit.no \in Nat
    BY DEF ReuseTypes, ReuseRan, ReuseLanding, ReuseTrain, ReuseCommits
  <2> QED
    BY <2>1, <2>2 DEF ReuseNumbered
<1>5. ReuseTrainGated'
  BY <1>1 DEF ReuseTrainGated, ReusePassed
<1>6. ReuseRunGated' /\ ReuseUndrifted' /\ ReuseCacheOK'
  BY <1>1 DEF ReuseRunGated, ReuseGating, ReuseUndrifted, ReuseCacheOK
<1>7. ReuseLandedOK'
  BY DEF ReuseLandedOK, Reuse!LandedGated, Reuse!SameToolchain, Reuse!FailsClosed, Reuse!RanOn
<1> QED
  BY <1>2, <1>3, <1>4, <1>5, <1>6, <1>7

(* The run goes on; little else changes.                                   *)
LEMMA ReuseRunGoesOn ==
  ASSUME ReuseInv, run # Reuse!Idle, run' \in ReuseRun, ReuseRunShape(run)', run'.no = run.no,
         run'.deploy = run.deploy,
         run.pc \notin ReuseGating,
         run'.pc \in ReuseGating => run'.todo = Gate,
         run'.pc \notin {"empty", "mark"}, run'.pc \in {"gating", "record"} => run'.deploy,
         ReuseWorkspace,
         UNCHANGED <<config, env, head, tip, clock, pruned, train, ran, landed, moves, runs>>
  PROVE  ReuseInv'
<1> USE DEF ReuseInv, ReuseWorkspace
<1>0. run' # Reuse!Idle
  BY ReuseNotIdle
<1>1. ReuseTypes'
  BY <1>0 DEF ReuseTypes
<1>2. ReuseRunOK' /\ ReuseNumbered'
  BY <1>0 DEF ReuseRunOK, ReuseNumbered
<1>3. ReuseTrainGated'
  BY <1>0 DEF ReuseTrainGated, ReusePassed
<1>4. ReuseRunGated' /\ ReuseUndrifted' /\ ReuseCacheOK'
  BY <1>0 DEF ReuseRunGated, ReuseUndrifted, ReuseCacheOK
<1>5. ReuseLandedOK'
  BY DEF ReuseLandedOK, Reuse!LandedGated, Reuse!SameToolchain, Reuse!FailsClosed, Reuse!RanOn
<1> QED
  BY <1>1, <1>2, <1>3, <1>4, <1>5

LEMMA ReuseFetchKeeps ==
  ASSUME ReuseInv, NEW missing \in BOOLEAN, Reuse!Fetch(missing)
  PROVE  ReuseInv'
<1> USE DEF ReuseInv
<1>0. run # Reuse!Idle /\ run \in ReuseRun /\ moves \in 0..MaxMoves /\ ReuseWorkspace
  BY DEF Reuse!Fetch, ReuseTypes, Reuse!Idle, ReuseWorkspace
<1>1. CASE head # run.head
  BY <1>0, <1>1, ReuseStopsKeeps DEF Reuse!Fetch
<1>2. CASE head = run.head
  <2>1. /\ UNCHANGED <<config, env, head, tip, clock, pruned, train, ran, landed, moves, runs>>
        /\ run' = [run EXCEPT !.base = tip,
                              !.pc = IF train # Reuse!None /\ run.config.mode # "off"
                                     THEN "decide" ELSE "assemble"]
        /\ run.pc = "fetch"
    BY <1>2 DEF Reuse!Fetch
  <2>2. run' \in ReuseRun
    BY <1>0, <2>1 DEF ReuseRun, Reuse!PCs, ReuseTypes
  <2>3. ReuseRunShape(run)'
    BY <1>0, <2>1 DEF ReuseRunOK, ReuseRunShape, ReuseRun, ReuseGating, ReuseDoing
  <2> QED
    BY <1>0, <2>1, <2>2, <2>3, ReuseRunGoesOn DEF ReuseRun, ReuseGating
<1> QED
  BY <1>1, <1>2

LEMMA ReuseDeclinesKeeps ==
  ASSUME ReuseInv, run.pc \in {"decide", "fingerprint"}, Reuse!Declines,
         UNCHANGED <<config, env, head, tip, clock, pruned, marker, cache, ran, landed,
                     drifted, moves, runs>>
  PROVE  ReuseInv'
<1> USE DEF ReuseInv
<1>0. run # Reuse!Idle /\ run \in ReuseRun /\ moves \in 0..MaxMoves
  BY DEF ReuseTypes, Reuse!Idle
<1>1. CASE run.config.mode = "fail"
  BY <1>0, <1>1, ReuseStopsKeeps DEF ReuseWorkspace, Reuse!Declines
<1>2. CASE run.config.mode # "fail"
  <2>1. run' = [run EXCEPT !.pc = "assemble"] /\ train' = train
    BY <1>2 DEF Reuse!Declines, Reuse!Goes
  <2>2. run' \in ReuseRun
    BY <1>0, <2>1 DEF ReuseRun, Reuse!PCs
  <2>3. ReuseRunShape(run)'
    BY <1>0, <1>2, <2>1 DEF ReuseRunOK, ReuseRunShape, ReuseRun, ReuseGating, ReuseDoing
  <2> QED
    BY <1>0, <2>1, <2>2, <2>3, ReuseRunGoesOn DEF ReuseWorkspace, ReuseRun, ReuseGating
<1> QED
  BY <1>1, <1>2

LEMMA ReuseDecideKeeps ==
  ASSUME ReuseInv, Reuse!Decide
  PROVE  ReuseInv'
<1> USE DEF ReuseInv
<1>0. run # Reuse!Idle /\ run \in ReuseRun /\ moves \in 0..MaxMoves
  BY DEF Reuse!Decide, ReuseTypes, Reuse!Idle
<1>1. CASE Reuse!Unchanged
  <2>1. /\ run' = [run EXCEPT !.pc = "fingerprint"] /\ train' = train /\ run.pc = "decide"
        /\ train.commit.base = run.base /\ train.policy = run.config.policy
    BY <1>1 DEF Reuse!Decide, Reuse!Goes, Reuse!Unchanged
  <2>2. run' \in ReuseRun
    BY <1>0, <2>1 DEF ReuseRun, Reuse!PCs
  <2>3. ReuseRunShape(run)'
    BY <1>0, <2>1 DEF ReuseRunOK, ReuseRunShape, ReuseRun, ReuseGating, ReuseDoing
  <2> QED
    BY <1>0, <2>1, <2>2, <2>3, ReuseRunGoesOn DEF ReuseWorkspace, ReuseRun, ReuseGating, Reuse!Decide
<1>2. CASE ~Reuse!Unchanged
  BY <1>2, ReuseDeclinesKeeps DEF Reuse!Decide
<1> QED
  BY <1>1, <1>2

LEMMA ReuseFingerprintKeeps ==
  ASSUME Reuse!ReuseAssumption, ReuseInv,
         NEW works \in BOOLEAN, NEW known \in BOOLEAN, Reuse!Fingerprint(works, known)
  PROVE  ReuseInv'
<1> USE DEF ReuseInv
<1>0. run # Reuse!Idle /\ run \in ReuseRun /\ run.pc = "fingerprint"
  BY DEF Reuse!Fingerprint, ReuseTypes, Reuse!Idle
<1>1. CASE ~works \/ ~Reuse!SameEnvironment(env)
  BY <1>0, <1>1, ReuseDeclinesKeeps DEF Reuse!Fingerprint
<1>2. CASE works /\ Reuse!SameEnvironment(env)
  <2>1. /\ run' = [run EXCEPT !.pc = "gating", !.commit = train.commit, !.reused = TRUE,
                              !.known = known, !.read = env]
        /\ train' = train /\ train.env = env
    BY <1>2 DEF Reuse!Fingerprint, Reuse!SameEnvironment
  <2>2. train # Reuse!None /\ train \in ReuseTrain
    BY <1>0 DEF ReuseRunOK, ReuseRunShape, ReuseTypes
  <2>3. run' \in ReuseRun
    BY <1>0, <2>1, <2>2 DEF ReuseRun, Reuse!PCs, ReuseTrain, ReuseTypes
  <2>4. ReuseRunShape(run)
    BY <1>0 DEF ReuseRunOK
  <2>5. train.commit # Reuse!None
    BY <2>2, ReuseNotNone DEF ReuseTrain
  <2>6. run.todo # {} /\ run.deploy
    BY <1>0, <2>4 DEF ReuseRunShape
  <2>7. ReuseRunShape(run)'
    BY <1>0, <2>1, <2>2, <2>4, <2>5, <2>6 DEF ReuseRunShape, ReuseRun, ReuseGating, ReuseDoing
  <2>8. run'.todo = Gate
    BY <1>0, <2>1, <2>4 DEF ReuseRunShape, ReuseRun, ReuseGating
  <2> QED
    BY <1>0, <2>1, <2>3, <2>6, <2>7, <2>8, ReuseRunGoesOn
       DEF ReuseWorkspace, ReuseRun, ReuseGating, Reuse!Fingerprint
<1> QED
  BY <1>1, <1>2

LEMMA ReuseAssembleKeeps ==
  ASSUME ReuseInv, NEW known \in BOOLEAN, Reuse!Assemble(known)
  PROVE  ReuseInv'
<1> USE DEF ReuseInv
<1>0. run # Reuse!Idle /\ run \in ReuseRun /\ run.pc = "assemble"
  BY DEF Reuse!Assemble, ReuseTypes, Reuse!Idle
<1>1. run' = [run EXCEPT !.pc = IF run.deploy THEN "gating" ELSE "activate", !.known = known,
                         !.commit = [pc |-> "commit", base |-> run.base, head |-> run.head,
                                     no |-> run.no]]
  BY DEF Reuse!Assemble
<1>2. [pc |-> "commit", base |-> run.base, head |-> run.head, no |-> run.no] \in ReuseCommits
  BY <1>0 DEF ReuseRun, ReuseCommits
<1>3. run' \in ReuseRun
  BY <1>0, <1>1, <1>2 DEF ReuseRun, Reuse!PCs
<1>4. ReuseRunShape(run)
  BY <1>0 DEF ReuseRunOK
<1>5. ReuseRunShape(run)'
  BY <1>0, <1>1, <1>2, <1>4, ReuseNotNone
     DEF ReuseRunShape, ReuseRun, ReuseGating, ReuseDoing, Reuse!Assemble
<1> QED
  BY <1>0, <1>1, <1>3, <1>4, <1>5, ReuseRunGoesOn
     DEF ReuseWorkspace, ReuseRunShape, ReuseRun, ReuseGating, Reuse!Assemble

LEMMA ReuseActivateCacheKeeps ==
  ASSUME ReuseInv, Reuse!ActivateCache
  PROVE  ReuseInv'
<1> DEFINE id == Reuse!Identity(env)
<1> DEFINE to == IF Reuse!Retains(id) THEN "mark" ELSE "empty"
<1> USE DEF ReuseInv
<1>0. /\ run # Reuse!Idle /\ run \in ReuseRun /\ run.pc = "activate"
      /\ env \in Env /\ ReuseRunShape(run) /\ run.no = runs
  BY DEF Reuse!ActivateCache, ReuseTypes, Reuse!Idle, ReuseRunOK
<1>1. id \in ReuseId /\ id.policy = run.config.policy /\ id.env = env
  BY <1>0 DEF Reuse!Identity, ReuseId, ReuseRun, Reuse!Config
<1>2. /\ run' = [run EXCEPT !.pc = to, !.read = id] /\ drifted' = drifted \ {"run"}
      /\ UNCHANGED <<config, env, head, tip, clock, pruned, train, marker, cache, ran, landed,
                     moves, runs>>
  BY DEF Reuse!ActivateCache
<1>3. to \in {"empty", "mark"} /\ (to = "mark" => marker = id)
  BY DEF Reuse!Retains
<1> HIDE DEF id, to
<1>4. run' \in ReuseRun /\ run'.pc = to /\ run'.read = id
  BY <1>0, <1>1, <1>2, <1>3 DEF ReuseRun, Reuse!PCs
<1>5. run' # Reuse!Idle
  BY <1>4, ReuseNotIdle
<1>6. ReuseRunShape(run)'
  BY <1>0, <1>1, <1>2, <1>3 DEF ReuseRunShape, ReuseRun, ReuseGating, ReuseDoing
<1>7. ReuseTypes'
  BY <1>0, <1>2, <1>4, <1>5 DEF ReuseTypes
<1>8. ReuseRunOK' /\ ReuseNumbered'
  BY <1>0, <1>2, <1>6 DEF ReuseRunOK, ReuseNumbered, ReuseRun, ReuseGating
<1>9. ReuseTrainGated'
  BY <1>0, <1>2, <1>5 DEF ReuseTrainGated, ReusePassed, ReuseRun
<1>10. ReuseRunGated'
  BY <1>3, <1>4 DEF ReuseRunGated, ReuseGating
<1>11. ReuseUndrifted'
  <2>1. \A r \in ran : r.no # run.no
    BY <1>0 DEF ReuseNumbered, ReuseGating
  <2> QED
    BY <1>0, <1>1, <1>2, <2>1 DEF ReuseUndrifted, ReuseRun
<1>12. ReuseCacheOK'
  BY <1>2, <1>3, <1>4 DEF ReuseCacheOK
<1>13. ReuseLandedOK'
  BY <1>2 DEF ReuseLandedOK, Reuse!LandedGated, Reuse!SameToolchain, Reuse!FailsClosed, Reuse!RanOn
<1> QED
  BY <1>7, <1>8, <1>9, <1>10, <1>11, <1>12, <1>13

LEMMA ReuseEmptyCacheKeeps ==
  ASSUME ReuseInv, NEW left \in SUBSET cache, Reuse!EmptyCache(left)
  PROVE  ReuseInv'
<1> USE DEF ReuseInv
<1>0. /\ run # Reuse!Idle /\ run \in ReuseRun /\ run.pc = "empty" /\ cache' = left
      /\ ReuseRunShape(run) /\ run.no = runs
      /\ UNCHANGED <<config, env, head, tip, clock, pruned, train, marker, ran, landed, moves,
                     runs>>
  BY DEF Reuse!EmptyCache, ReuseTypes, Reuse!Idle, ReuseRunOK
<1>1. \/ UNCHANGED <<run, drifted>>
      \/ /\ run' = [run EXCEPT !.pc = "mark"] /\ cache' = {}
         /\ drifted' = IF "run" \in drifted THEN drifted ELSE {}
  BY DEF Reuse!EmptyCache, Reuse!Goes
<1>2. /\ run' \in ReuseRun /\ run'.pc \in {"empty", "mark"} /\ run'.read = run.read
      /\ run'.no = run.no /\ run'.deploy = run.deploy
  BY <1>0, <1>1 DEF ReuseRun, Reuse!PCs
<1>3. run' # Reuse!Idle
  BY <1>2, ReuseNotIdle
<1>4. ReuseRunShape(run)'
  BY <1>0, <1>1 DEF ReuseRunShape, ReuseRun, ReuseGating, ReuseDoing
<1>5. ReuseTypes'
  <2>1. cache' \subseteq ReuseId /\ (drifted' = drifted \/ drifted' = {})
    BY <1>0, <1>1 DEF ReuseTypes
  <2> QED
    BY <1>0, <1>2, <1>3, <2>1 DEF ReuseTypes
<1>6. ReuseRunOK' /\ ReuseNumbered'
  BY <1>0, <1>2, <1>4 DEF ReuseRunOK, ReuseNumbered, ReuseGating
<1>7. ReuseTrainGated'
  BY <1>0, <1>2, <1>3 DEF ReuseTrainGated, ReusePassed
<1>8. ReuseRunGated'
  BY <1>2 DEF ReuseRunGated, ReuseGating
<1>9. ReuseUndrifted'
  BY <1>0, <1>1, <1>2 DEF ReuseUndrifted
<1>10. ReuseCacheOK'
  BY <1>0, <1>1, <1>2 DEF ReuseCacheOK
<1>11. ReuseLandedOK'
  BY <1>0 DEF ReuseLandedOK, Reuse!LandedGated, Reuse!SameToolchain, Reuse!FailsClosed, Reuse!RanOn
<1> QED
  BY <1>5, <1>6, <1>7, <1>8, <1>9, <1>10, <1>11

LEMMA ReuseWriteMarkerKeeps ==
  ASSUME ReuseInv, Reuse!WriteMarker
  PROVE  ReuseInv'
<1> USE DEF ReuseInv
<1>0. run # Reuse!Idle /\ run \in ReuseRun /\ run.pc = "mark" /\ ReuseRunShape(run)
      /\ run.no = runs
  BY DEF Reuse!WriteMarker, ReuseTypes, Reuse!Idle, ReuseRunOK
<1>1. run' = [run EXCEPT !.pc = "gating"]
  BY DEF Reuse!WriteMarker, Reuse!Goes
<1>2. run' \in ReuseRun /\ run' # Reuse!Idle
  <2>1. run' \in ReuseRun
    BY <1>0, <1>1 DEF ReuseRun, Reuse!PCs
  <2> QED
    BY <2>1, ReuseNotIdle
<1>3. ReuseRunShape(run)' /\ run.read \in ReuseId /\ run'.todo = Gate /\ ~run.deploy
  BY <1>0, <1>1 DEF ReuseRunShape, ReuseRun, ReuseGating, ReuseDoing, Reuse!WriteMarker
<1>4. ReuseTypes'
  BY <1>0, <1>2, <1>3 DEF ReuseTypes, Reuse!WriteMarker
<1>5. ReuseRunOK' /\ ReuseNumbered'
  BY <1>0, <1>1, <1>3 DEF ReuseRunOK, ReuseNumbered, ReuseRun, Reuse!WriteMarker, ReuseGating
<1>6. ReuseTrainGated'
  BY <1>0, <1>1, <1>2 DEF ReuseTrainGated, ReusePassed, ReuseRun, Reuse!WriteMarker
<1>7. ReuseRunGated'
  BY <1>3 DEF ReuseRunGated
<1>8. ReuseUndrifted' /\ ReuseCacheOK'
  BY <1>0, <1>1, <1>3 DEF ReuseUndrifted, ReuseCacheOK, ReuseRun, Reuse!WriteMarker
<1>9. ReuseLandedOK'
  BY DEF ReuseLandedOK, Reuse!LandedGated, Reuse!SameToolchain, Reuse!FailsClosed, Reuse!RanOn,
         Reuse!WriteMarker
<1> QED
  BY <1>4, <1>5, <1>6, <1>7, <1>8, <1>9

LEMMA ReuseRecordTrainKeeps ==
  ASSUME Reuse!ReuseAssumption, ReuseInv, Reuse!RecordTrain
  PROVE  ReuseInv'
<1> USE DEF ReuseInv
<1>0. /\ run # Reuse!Idle /\ run \in ReuseRun /\ run.pc = "record" /\ ReuseRunShape(run)
      /\ run.no = runs
      /\ run' = Reuse!Idle /\ env \in Env
      /\ UNCHANGED <<config, env, head, tip, clock, marker, cache, ran, landed, drifted, moves, runs>>
  BY DEF Reuse!RecordTrain, ReuseTypes, Reuse!Idle, ReuseRunOK
<1>1. ~run.deploy /\ ~run.reused /\ run.todo = {} /\ run.commit # Reuse!None
      /\ run.commit.no = run.no
  BY <1>0 DEF ReuseRunShape, ReuseGating
<1>2. /\ train' = [pc |-> "train", commit |-> run.commit, policy |-> run.config.policy,
                   env |-> env, at |-> clock, drifted |-> "run" \in drifted]
  BY DEF Reuse!RecordTrain
<1>3. train' \in ReuseTrain /\ train' # Reuse!None
  <2>1. clock \in Nat /\ run.commit \in ReuseCommits /\ run.config.policy \in Policy
    BY <1>0, <1>1 DEF ReuseTypes, ReuseRun, Reuse!Config
  <2>2. train' \in ReuseTrain
    BY <1>0, <1>2, <2>1 DEF ReuseTrain
  <2> QED
    BY <2>2, ReuseNotNone
<1>4. train'.commit = run.commit /\ train'.policy = run.config.policy /\ train'.env = env
      /\ train'.at = clock /\ train'.drifted = ("run" \in drifted)
  BY <1>2
<1>5. ReuseTypes'
  <2>1. tip' <= moves' + runs' + 1
    BY <1>0 DEF ReuseTypes
  <2>2. clock \in Nat
    BY DEF ReuseTypes
  <2> QED
    BY <1>0, <1>3, <1>4, <2>1, <2>2 DEF ReuseTypes
<1>6. ReuseRunOK' /\ ReuseRunGated' /\ ReuseUndrifted'
  BY <1>0 DEF ReuseRunOK, ReuseRunGated, ReuseUndrifted
<1>7. ReuseNumbered'
  <2>1. run.no \in Nat /\ train'.commit.no = run.no /\ runs = run.no
    BY <1>0, <1>1, <1>4 DEF ReuseRun
  <2> QED
    BY <1>0, <2>1 DEF ReuseNumbered
<1>8. ReuseTrainGated'
  <2>1. ASSUME NEW g \in Gate, Reuse!Matches(g, run.commit)
        PROVE  ReusePassed(g, run.commit, run.config.policy, Nat)
    <3>1. ReusePassed(g, run.commit, run.config.policy, {run.no})
      BY <1>0, <1>1, <2>1 DEF ReuseRunGated, ReuseGating
    <3> QED
      BY <1>0, <3>1 DEF ReusePassed, ReuseRun
  <2>2. ASSUME NEW r \in ran, r.commit = run.commit, "run" \notin drifted
        PROVE  r.env = env
    <3>1. run.no <= r.no /\ r.no <= run.no /\ run.no \in Nat /\ r.no \in Nat
      BY <1>0, <1>1, <2>2 DEF ReuseNumbered, ReuseTypes, ReuseRan, ReuseRun
    <3>2. r.no = run.no
      BY <3>1
    <3> QED
      BY <1>0, <1>1, <2>2, <3>2 DEF ReuseUndrifted
  <2> QED
    <3>1. ASSUME NEW g \in Gate, Reuse!Matches(g, train.commit)'
          PROVE  ReusePassed(g, train.commit, train.policy, Nat)'
      BY <1>0, <1>4, <2>1, <3>1 DEF ReusePassed, Reuse!Matches
    <3>2. ASSUME ~train'.drifted, NEW r \in ran', r.commit = train'.commit
          PROVE  r.env = train'.env
      BY <1>0, <1>4, <2>2, <3>2
    <3> QED
      BY <3>1, <3>2 DEF ReuseTrainGated
<1>9. ReuseCacheOK'
  BY <1>0 DEF ReuseCacheOK
<1>10. ReuseLandedOK'
  BY <1>0
     DEF ReuseLandedOK, Reuse!LandedGated, Reuse!SameToolchain, Reuse!FailsClosed, Reuse!RanOn
<1> QED
  BY <1>5, <1>6, <1>7, <1>8, <1>9, <1>10

(* A gate that passes on a commit says nothing of what has landed: the     *)
(* commit of the run in progress is none of those.                         *)
LEMMA ReuseRunGateKeeps ==
  ASSUME ReuseInv, NEW g \in Gate, NEW passes \in BOOLEAN, Reuse!RunGate(g, passes)
  PROVE  ReuseInv'
<1> USE DEF ReuseInv
<1>0. /\ run # Reuse!Idle /\ run \in ReuseRun /\ run.pc = "gating" /\ g \in run.todo
      /\ ReuseRunShape(run) /\ run.no = runs /\ env \in Env
      /\ UNCHANGED <<config, env, head, tip, clock, pruned, marker, landed, drifted, moves, runs>>
  BY DEF Reuse!RunGate, ReuseTypes, Reuse!Idle, ReuseRunOK
<1>1. run.commit \in ReuseCommits /\ run.commit # Reuse!None /\ run.config.policy \in Policy
      /\ run.no \in Nat
  <2>1. run.commit # Reuse!None
    BY <1>0 DEF ReuseRunShape, ReuseGating
  <2> QED
    BY <1>0, <2>1 DEF ReuseRun, Reuse!Config
<1>2. run.commit.no <= run.no /\ run.commit.no \in Nat
      /\ \A l \in landed : l.commit # run.commit
  <2>1. \A l \in landed : l.no \in Nat /\ l.commit.no \in Nat /\ l.commit.no <= l.no
    BY DEF ReuseTypes, ReuseLanding, ReuseCommits, ReuseNumbered
  <2>2. CASE run.reused
    <3>1. run.commit = train.commit /\ train # Reuse!None
      BY <1>0, <2>2 DEF ReuseRunShape
    <3>2. train.commit.no < run.no /\ train.commit.no \in Nat
          /\ \A l \in landed : l.no < train.commit.no
      BY <1>0, <1>1, <3>1 DEF ReuseNumbered, ReuseCommits
    <3> QED
      BY <1>1, <2>1, <3>1, <3>2
  <2>3. CASE ~run.reused
    <3>1. run.commit.no = run.no
      BY <1>0, <1>1, <2>3 DEF ReuseRunShape
    <3>2. \A l \in landed : l.no < run.no
      BY <1>0 DEF ReuseNumbered
    <3> QED
      BY <1>1, <2>1, <3>1, <3>2
  <2> QED
    BY <2>2, <2>3
<1> DEFINE skipped == run.known /\ ~Reuse!Matches(g, run.commit)
           runs_g  == ~skipped /\ (run.reused => Reuse!Reruns(g))
           new     == [commit |-> run.commit, gate |-> g, env |-> env, no |-> run.no,
                       policy |-> run.config.policy,
                       cache |-> IF run.deploy THEN {} ELSE cache]
<1>3. /\ ran' = IF runs_g /\ passes THEN ran \cup {new} ELSE ran
      /\ cache' = IF runs_g /\ ~run.deploy THEN cache \cup {Reuse!Identity(env)} ELSE cache
  BY DEF Reuse!RunGate
<1>4. new \in ReuseRan
  BY <1>0, <1>1 DEF ReuseRan, ReuseTypes
<1>5. Reuse!Identity(env) \in ReuseId /\ Reuse!Identity(env).env = env
      /\ Reuse!Identity(env).policy = run.config.policy
  BY <1>0, <1>1 DEF Reuse!Identity, ReuseId
<1>6. ReuseCacheOK' /\ cache' \subseteq ReuseId
  <2>1. cache' \subseteq ReuseId
    BY <1>3, <1>5 DEF ReuseTypes
  <2>2. ASSUME "cache" \notin drifted, ~run.deploy PROVE Reuse!Identity(env) = marker
    <3>1. "run" \notin drifted /\ marker = run.read
      BY <1>0, <2>2 DEF ReuseCacheOK
    <3>2. run.read \in ReuseId /\ run.read.env = env /\ run.read.policy = run.config.policy
      BY <1>0, <2>2, <3>1 DEF ReuseUndrifted, ReuseRunShape
    <3> QED
      BY <3>1, <3>2 DEF ReuseId, Reuse!Identity
  <2>3. "cache" \notin drifted' => cache' \subseteq {marker'}
    BY <1>0, <1>3, <2>2 DEF ReuseCacheOK
  <2>4. run' # Reuse!Idle => run'.deploy = run.deploy /\ run'.read = run.read
        /\ run'.pc # "mark"
    BY <1>0 DEF Reuse!RunGate, Reuse!Stops, ReuseRun
  <2> QED
    BY <1>0, <2>1, <2>3, <2>4 DEF ReuseCacheOK
<1>7. ran \subseteq ran' /\ ran' \subseteq ran \cup {new}
  BY <1>3
<1>8. ReuseLandedOK'
  <2>1. \A l \in landed : \A h \in Gate : Reuse!RanOn(l, h)' = Reuse!RanOn(l, h)
    <3> SUFFICES ASSUME NEW l \in landed,
                        NEW h \in Gate PROVE Reuse!RanOn(l, h)' = Reuse!RanOn(l, h)
      OBVIOUS
    <3>1. new.commit # l.commit
      BY <1>2
    <3> HIDE DEF new
    <3> QED
      BY <1>7, <3>1 DEF Reuse!RanOn
  <2> QED
    BY <1>0, <2>1
       DEF ReuseLandedOK, Reuse!LandedGated, Reuse!SameToolchain, Reuse!FailsClosed,
           Reuse!Matches
<1>9. \A r \in ran' : r \in ran \/ (r.commit = run.commit /\ r.no = run.no /\ r.env = env
      /\ r \in ReuseRan)
  BY <1>4, <1>7
<1>10. CASE ~passes
  <2>1. run' = Reuse!Idle /\ train' = Reuse!None /\ ran' = ran
    BY <1>3, <1>10 DEF Reuse!RunGate, Reuse!Stops
  <2>2. tip' <= moves' + runs' + 1
    BY <1>0 DEF ReuseTypes
  <2>3. ReuseTypes'
    BY <1>0, <1>6, <2>1, <2>2 DEF ReuseTypes
  <2>4. ReuseRunOK' /\ ReuseNumbered' /\ ReuseTrainGated' /\ ReuseRunGated' /\ ReuseUndrifted'
    BY <1>0, <2>1 DEF ReuseRunOK, ReuseNumbered, ReuseTrainGated, ReuseRunGated, ReuseUndrifted
  <2> QED
    BY <1>6, <1>8, <2>3, <2>4
<1>11. CASE passes
  <2>1. /\ run' = [run EXCEPT !.todo = run.todo \ {g},
                              !.pc = IF run.todo # {g} THEN "gating"
                                     ELSE IF run.deploy THEN "push" ELSE "record"]
        /\ train' = train
    BY <1>11 DEF Reuse!RunGate
  <2>2. run' \in ReuseRun /\ run' # Reuse!Idle
    <3> DEFINE to == IF run.todo # {g} THEN "gating" ELSE IF run.deploy THEN "push" ELSE "record"
    <3>1. to \in Reuse!PCs
      BY DEF Reuse!PCs
    <3>2. run' = [run EXCEPT !.todo = run.todo \ {g}, !.pc = to]
      BY <2>1
    <3> HIDE DEF to
    <3>3. run' \in ReuseRun
      BY <1>0, <3>1, <3>2 DEF ReuseRun
    <3> QED
      BY <3>3, ReuseNotIdle
  <2>3. /\ run'.pc \in ReuseGating /\ run'.todo = run.todo \ {g} /\ run'.no = run.no
        /\ run'.deploy = run.deploy /\ run'.reused = run.reused /\ run'.commit = run.commit
        /\ run'.config = run.config /\ run'.read = run.read /\ run'.base = run.base
        /\ run'.pc = IF run'.todo # {} THEN "gating" ELSE IF run.deploy THEN "push" ELSE "record"
    BY <1>0, <2>1 DEF ReuseRun, ReuseGating
  <2>4. ReuseRunShape(run)'
    BY <1>0, <1>1, <2>1, <2>3 DEF ReuseRunShape, ReuseGating, ReuseDoing
  <2>5. ReuseTypes'
    BY <1>0, <1>4, <1>6, <1>7, <2>1, <2>2 DEF ReuseTypes
  <2>6. ReuseRunOK'
    BY <1>0, <2>2, <2>3, <2>4 DEF ReuseRunOK
  <2>7. ReuseNumbered'
    <3>1. \A r \in ran' : r.commit.no <= r.no /\ r.no <= runs
      BY <1>0, <1>1, <1>2, <1>9 DEF ReuseNumbered
    <3> QED
      BY <1>0, <2>1, <2>2, <2>3, <3>1 DEF ReuseNumbered
  <2>8. ReuseTrainGated'
    <3>2. ASSUME NEW h \in Gate, train # Reuse!None, Reuse!Matches(h, train.commit)
          PROVE  ReusePassed(h, train.commit, train.policy, Nat)'
      BY <1>7, <2>1, <3>2 DEF ReuseTrainGated, ReusePassed
    <3>3. ASSUME train # Reuse!None, ~train.drifted, NEW r \in ran', r.commit = train.commit
          PROVE  r.env = train.env \/ r.no = run.no
      BY <1>9, <3>3 DEF ReuseTrainGated
    <3> QED
      BY <2>1, <2>2, <2>3, <3>2, <3>3 DEF ReuseTrainGated, Reuse!Matches, ReusePassed
  <2>9. ReuseRunGated'
    <3> SUFFICES ASSUME NEW h \in Gate, h \notin run'.todo, Reuse!Matches(h, run.commit),
                        run.reused => h \in Always
                 PROVE  ReusePassed(h, run.commit, run.config.policy, {run.no})'
      BY <2>3 DEF ReuseRunGated, Reuse!Matches, ReusePassed
    <3>1. CASE h = g
      <4>1. runs_g
        BY <3>1 DEF Reuse!Reruns
      <4>2. new \in ran'
        BY <1>3, <1>11, <4>1
      <4>3. new.commit = run.commit /\ new.gate = h /\ new.policy = run.config.policy
            /\ new.no = run.no
        BY <3>1
      <4> HIDE DEF new
      <4> QED
        BY <2>3, <4>2, <4>3 DEF ReusePassed
    <3>2. CASE h # g
      <4>1. ReusePassed(h, run.commit, run.config.policy, {run.no})
        BY <1>0, <2>3, <3>2 DEF ReuseRunGated, ReuseGating
      <4> QED
        BY <1>7, <2>3, <4>1 DEF ReusePassed
    <3> QED
      BY <3>1, <3>2
  <2>10. ReuseUndrifted'
    BY <1>0, <1>9, <2>2, <2>3 DEF ReuseUndrifted
  <2> QED
    BY <1>6, <1>8, <2>5, <2>6, <2>7, <2>8, <2>9, <2>10
<1> QED
  BY <1>10, <1>11

LEMMA ReusePushKeeps ==
  ASSUME ReuseInv, Reuse!Push
  PROVE  ReuseInv'
<1> USE DEF ReuseInv
<1>0. /\ run # Reuse!Idle /\ run \in ReuseRun /\ run.pc = "push" /\ ReuseRunShape(run)
      /\ run.no = runs
      /\ run' = Reuse!Idle /\ train' = Reuse!None
      /\ UNCHANGED <<config, env, head, clock, pruned, marker, cache, ran, drifted, moves, runs>>
  BY DEF Reuse!Push, Reuse!Stops, ReuseTypes, Reuse!Idle, ReuseRunOK
<1>1. CASE tip # run.base
  <2>1. UNCHANGED <<tip, landed>> /\ moves \in 0..MaxMoves /\ moves <= moves'
    BY <1>0, <1>1 DEF Reuse!Push, ReuseTypes
  <2> QED
    BY <1>0, <2>1, ReuseStopsKeeps DEF ReuseWorkspace, Reuse!Stops
<1>2. CASE tip = run.base
  <2> DEFINE new == [commit |-> run.commit, no |-> run.no, config |-> run.config,
                     reused |-> run.reused, train |-> train, read |-> run.read, onto |-> tip]
  <2>1. tip' = tip + 1 /\ landed' = landed \cup {new}
    BY <1>2 DEF Reuse!Push
  <2>2. run.commit \in ReuseCommits /\ run.commit # Reuse!None /\ run.no \in Nat
        /\ run.config \in Reuse!Config
    <3>1. run.commit # Reuse!None
      BY <1>0 DEF ReuseRunShape, ReuseGating
    <3> QED
      BY <1>0, <3>1 DEF ReuseRun
  <2>3. new \in ReuseLanding
    BY <1>0, <2>2 DEF ReuseLanding, ReuseTypes, ReuseRun
  <2>4. ReuseTypes'
    BY <1>0, <2>1, <2>3 DEF ReuseTypes
  <2>5. ReuseRunOK' /\ ReuseTrainGated' /\ ReuseRunGated' /\ ReuseUndrifted' /\ ReuseCacheOK'
    BY <1>0 DEF ReuseRunOK, ReuseTrainGated, ReuseRunGated, ReuseUndrifted, ReuseCacheOK
  <2>6. run.commit.no <= run.no
    <3>1. CASE run.reused
      BY <1>0, <2>2, <3>1 DEF ReuseRunShape, ReuseNumbered, ReuseCommits
    <3>2. CASE ~run.reused
      BY <1>0, <2>2, <3>2 DEF ReuseRunShape
    <3> QED
      BY <3>1, <3>2
  <2>7. ReuseNumbered'
    BY <1>0, <2>1, <2>2, <2>6 DEF ReuseNumbered
  <2>8. ASSUME NEW g \in Gate, Reuse!Matches(g, run.commit)
        PROVE  /\ run.commit.base = tip
               /\ \E r \in ran : /\ r.commit = run.commit /\ r.gate = g
                                 /\ r.policy = run.config.policy
                                 /\ g \in Always => r.no = run.no
    <3>1. run.commit.base = tip
      BY <1>0, <1>2, <2>2 DEF ReuseRunShape
    <3>2. run.todo = {}
      BY <1>0 DEF ReuseRunShape
    <3>3. CASE run.reused /\ g \notin Always
      BY <1>0, <2>8, <3>1, <3>3 DEF ReuseRunShape, ReuseTrainGated, ReusePassed
    <3>4. CASE ~run.reused \/ g \in Always
      <4>1. ReusePassed(g, run.commit, run.config.policy, {run.no})
        BY <1>0, <2>8, <3>2, <3>4 DEF ReuseRunGated, ReuseGating
      <4> QED
        BY <3>1, <4>1 DEF ReusePassed
    <3> QED
      BY <3>3, <3>4
  <2>9. Reuse!LandedGated'
    <3> SUFFICES ASSUME NEW l \in landed', NEW g \in Gate, Reuse!Matches(g, l.commit)
                 PROVE  /\ l.commit.base = l.onto
                        /\ \E r \in ran : /\ r.commit = l.commit /\ r.gate = g
                                          /\ r.policy = l.config.policy
                                          /\ g \in Always => r.no = l.no
      BY <1>0 DEF Reuse!LandedGated, Reuse!RanOn, Reuse!Matches
    <3>1. CASE l \in landed
      BY <3>1 DEF ReuseLandedOK, Reuse!LandedGated, Reuse!RanOn
    <3>2. CASE l = new
      BY <2>8, <3>2
    <3> QED
      BY <2>1, <3>1, <3>2
  <2>10. Reuse!SameToolchain'
    <3> SUFFICES ASSUME NEW l \in landed', l.reused, ~l.train.drifted,
                        NEW r \in ran, r.commit = l.commit, r.no # l.no
                 PROVE  r.env = l.read
      BY <1>0 DEF Reuse!SameToolchain, Reuse!RanOn
    <3>1. CASE l \in landed
      <4>1. r.gate \in Gate
        BY DEF ReuseTypes, ReuseRan
      <4> QED
        BY <3>1, <4>1 DEF ReuseLandedOK, Reuse!SameToolchain, Reuse!RanOn
    <3>2. CASE l = new
      BY <1>0, <3>2 DEF ReuseRunShape, ReuseTrainGated
    <3> QED
      BY <2>1, <3>1, <3>2
  <2>11. Reuse!FailsClosed'
    <3>1. new.config.mode = "fail" /\ new.train # Reuse!None => new.reused
      BY <1>0 DEF ReuseRunShape, ReuseDoing, ReuseGating
    <3> HIDE DEF new
    <3> QED
      BY <2>1, <3>1 DEF Reuse!FailsClosed, ReuseLandedOK
  <2> QED
    BY <2>4, <2>5, <2>7, <2>9, <2>10, <2>11 DEF ReuseLandedOK
<1> QED
  BY <1>1, <1>2

(* The invariant holds at first and after each step.                       *)
LEMMA ReuseInitOK ==
  ASSUME Reuse!ReuseAssumption, Reuse!Init
  PROVE  ReuseInv
<1> USE DEF Reuse!Init, Reuse!ReuseAssumption
<1>1. env \in Env /\ config \in Reuse!Config
  BY DEF Reuse!Config
<1>2. ReuseTypes
  BY <1>1 DEF ReuseTypes
<1>3. ReuseRunOK /\ ReuseNumbered /\ ReuseTrainGated /\ ReuseRunGated /\ ReuseUndrifted
      /\ ReuseCacheOK
  BY DEF ReuseRunOK, ReuseNumbered, ReuseTrainGated, ReuseRunGated, ReuseUndrifted, ReuseCacheOK
<1>4. ReuseLandedOK
  BY DEF ReuseLandedOK, Reuse!LandedGated, Reuse!SameToolchain, Reuse!FailsClosed
<1> QED
  BY <1>2, <1>3, <1>4 DEF ReuseInv

LEMMA ReuseStepKeeps ==
  ASSUME Reuse!ReuseAssumption, ReuseInv, [Reuse!Next]_Reuse!vars
  PROVE  ReuseInv'
<1>1. CASE \E c \in Reuse!Config : Reuse!EditConfig(c)
  BY <1>1, ReuseWorldSteps
<1>2. CASE \E e \in Env : Reuse!ChangeEnvironment(e)
  BY <1>2, ReuseChangeEnvironmentKeeps
<1>3. CASE Reuse!Commit \/ Reuse!OthersLand \/ Reuse!Tick \/ Reuse!Prune
  BY <1>3, ReuseWorldSteps
<1>4. CASE \E deploy \in BOOLEAN : Reuse!Start(deploy)
  BY <1>4, ReuseStartKeeps
<1>5. CASE (\E missing \in BOOLEAN : Reuse!Fetch(missing)) \/ Reuse!Decide
  BY <1>5, ReuseFetchKeeps, ReuseDecideKeeps
<1>6. CASE \E works, known \in BOOLEAN : Reuse!Fingerprint(works, known)
  BY <1>6, ReuseFingerprintKeeps
<1>7. CASE \E known \in BOOLEAN : Reuse!Assemble(known)
  BY <1>7, ReuseAssembleKeeps
<1>8. CASE \/ Reuse!ActivateCache \/ Reuse!WriteMarker
          \/ \E left \in SUBSET cache : Reuse!EmptyCache(left)
  BY <1>8, ReuseActivateCacheKeeps, ReuseEmptyCacheKeeps, ReuseWriteMarkerKeeps
<1>9. CASE \E g \in Gate, passes \in BOOLEAN : Reuse!RunGate(g, passes)
  BY <1>9, ReuseRunGateKeeps
<1>10. CASE Reuse!RecordTrain
  BY <1>10, ReuseRecordTrainKeeps
<1>11. CASE Reuse!Push
  BY <1>11, ReusePushKeeps
<1>12. CASE Reuse!Crash
  <2>1. moves <= moves' /\ moves' \in 0..MaxMoves
    BY <1>12 DEF Reuse!Crash, Reuse!Moves, ReuseInv, ReuseTypes, Reuse!ReuseAssumption
  <2> QED
    BY <1>12, <2>1, ReuseStopsKeeps DEF ReuseWorkspace, Reuse!Crash
<1>13. CASE UNCHANGED Reuse!vars
  <2>1. ReuseTypes'
    BY <1>13 DEF Reuse!vars, ReuseInv, ReuseTypes
  <2> QED
    BY <1>13, <2>1, ReuseWorldMoves DEF Reuse!vars
<1> QED
  BY <1>1, <1>2, <1>3, <1>4, <1>5, <1>6, <1>7, <1>8, <1>9, <1>10, <1>11, <1>12, <1>13
     DEF Reuse!Next

LEMMA ReuseTypeHolds ==
  ASSUME Reuse!ReuseAssumption, ReuseInv
  PROVE  Reuse!TypeOK
<1>1. MaxMoves \in Nat /\ MaxRuns \in Nat
  BY DEF Reuse!ReuseAssumption
<1>2. tip \in 1..(MaxMoves + MaxRuns + 1) /\ head \in 1..(MaxMoves + 1)
  BY <1>1 DEF ReuseInv, ReuseTypes
<1>3. train # Reuse!None => train.env \in Env /\ train.policy \in Policy /\ train.at <= clock
  BY DEF ReuseInv, ReuseTypes, ReuseTrain
<1>4. run # Reuse!Idle => ReuseRunShape(run) /\ run \in ReuseRun
  BY DEF ReuseInv, ReuseRunOK, ReuseTypes
<1>5. run # Reuse!Idle =>
        run.pc \in Reuse!PCs /\ run.config \in Reuse!Config /\ run.todo \subseteq Gate
  BY <1>4 DEF ReuseRun
<1> QED
  BY <1>2, <1>3, <1>4, <1>5 DEF Reuse!TypeOK, ReuseInv, ReuseTypes, ReuseRunShape, ReuseGating

LEMMA ReuseHolds ==
  ASSUME ReuseInv
  PROVE  /\ Reuse!LandedGated /\ Reuse!SameToolchain /\ Reuse!FailsClosed
         /\ Reuse!CacheIsOurs
<1>1. Reuse!CacheIsOurs
  <2>1. run.pc = "gating" => run # Reuse!Idle
    BY DEF Reuse!Idle
  <2> QED
    BY <2>1 DEF ReuseInv, ReuseCacheOK, Reuse!CacheIsOurs
<1> QED
  BY <1>1 DEF ReuseInv, ReuseLandedOK

-----------------------------------------------------------------------------
(***************************************************************************)
(* The gate plan of every configuration that is accepted goes on to its    *)
(* end in the declared order (PlanGoesOn), and passes or is canceled only  *)
(* for what its gates and the watching thread did (PlanIsHonest), for any  *)
(* number of gates, any needs, groups and weights, and any ceiling.        *)
(*                                                                         *)
(* Two facts need an induction: that the greedy choice of a wave exists,   *)
(* and that a plan that is not done has a gate that is ready.  Each is     *)
(* had from a smallest member of a family of subsets of a finite set       *)
(* (PlanSmallestSubset), which the well-founded order of the subsets       *)
(* gives.                                                                  *)
(***************************************************************************)

(* Some member of the family includes no other.                            *)
PlanHasSmallest(Fam) == \E A \in Fam : \A B \in Fam : B \subseteq A => B = A

(* A family of subsets of a finite set, if not empty, has a smallest       *)
(* member.                                                                 *)
LEMMA PlanSmallestSubset ==
  ASSUME NEW S, IsFiniteSet(S), NEW Fam \in SUBSET SUBSET S, Fam # {}
  PROVE  PlanHasSmallest(Fam)
<1>1. IsWellFoundedOn(StrictSubsetOrdering(S), SUBSET S)
  BY FS_StrictSubsetOrderingWellFounded, FS_FiniteSubsetsOfFinite
<1>2. PICK A \in Fam : \A B \in Fam : <<B, A>> \notin StrictSubsetOrdering(S)
  BY <1>1, WFMin
<1> QED
  BY <1>2 DEF StrictSubsetOrdering, PlanHasSmallest

(* A finite set of naturals has a least member.                            *)
LEMMA PlanLeastOf ==
  ASSUME NEW S, IsFiniteSet(S), S \subseteq Nat, S # {}
  PROVE  \E m \in S : \A n \in S : m <= n
<1> DEFINE Below(m) == {n \in S : n <= m}
<1>1. PICK Fam \in SUBSET SUBSET S :
        /\ Fam # {}
        /\ \A m \in S : Below(m) \in Fam
        /\ \A A \in Fam : \E m \in S : A = Below(m)
  <2> WITNESS {Below(m) : m \in S} \in SUBSET SUBSET S
  <2> QED
    OBVIOUS
<1>2. \A m, n \in S : n < m => m \notin Below(n) /\ m \in Below(m)
      /\ Below(n) \subseteq Below(m)
  <2> TAKE m, n \in S
  <2>1. m \in Nat /\ n \in Nat
    OBVIOUS
  <2>2. ASSUME n < m PROVE m \notin Below(n) /\ m \in Below(m)
    BY <2>1, <2>2
  <2>3. ASSUME n < m, NEW k \in Below(n) PROVE k \in Below(m)
    BY <2>1, <2>3
  <2> QED
    BY <2>2, <2>3
<1>3. PICK A \in Fam : \A B \in Fam : B \subseteq A => B = A
  <2>1. PlanHasSmallest(Fam)
    BY <1>1, PlanSmallestSubset
  <2> QED
    BY <2>1 DEF PlanHasSmallest
<1>4. PICK m \in S : A = Below(m)
  BY <1>1
<1>5. ASSUME NEW n \in S PROVE ~(n < m)
  <2> HIDE DEF Below
  <2> QED
    BY <1>1, <1>2, <1>3, <1>4
<1> QED
  BY <1>5
(* And a greatest one.                                                     *)
LEMMA PlanGreatestOf ==
  ASSUME NEW S, IsFiniteSet(S), S \subseteq Nat, S # {}
  PROVE  \E m \in S : \A n \in S : n <= m
<1> DEFINE Above(m) == {n \in S : m <= n}
<1>1. PICK Fam \in SUBSET SUBSET S :
        /\ Fam # {}
        /\ \A m \in S : Above(m) \in Fam
        /\ \A A \in Fam : \E m \in S : A = Above(m)
  <2> WITNESS {Above(m) : m \in S} \in SUBSET SUBSET S
  <2> QED
    OBVIOUS
<1>2. \A m, n \in S : m < n => m \notin Above(n) /\ m \in Above(m)
      /\ Above(n) \subseteq Above(m)
  <2> TAKE m, n \in S
  <2>1. m \in Nat /\ n \in Nat
    OBVIOUS
  <2>2. ASSUME m < n PROVE m \notin Above(n) /\ m \in Above(m)
    BY <2>1, <2>2
  <2>3. ASSUME m < n, NEW k \in Above(n) PROVE k \in Above(m)
    BY <2>1, <2>3
  <2> QED
    BY <2>2, <2>3
<1>3. PICK A \in Fam : \A B \in Fam : B \subseteq A => B = A
  <2>1. PlanHasSmallest(Fam)
    BY <1>1, PlanSmallestSubset
  <2> QED
    BY <2>1 DEF PlanHasSmallest
<1>4. PICK m \in S : A = Above(m)
  BY <1>1
<1>5. ASSUME NEW n \in S PROVE ~(m < n)
  <2> HIDE DEF Above
  <2> QED
    BY <1>1, <1>2, <1>3, <1>4
<1> QED
  BY <1>5
(* A gate alone weighs what the configuration says.                        *)
LEMMA PlanWeightOfOne ==
  ASSUME NEW g, conf.weight[g] \in Nat
  PROVE  Plan!Weight({g}) = conf.weight[g]
<1> DEFINE Sum(f) == [T \in SUBSET {g} |->
                        IF T = {} THEN 0
                        ELSE conf.weight[CHOOSE h \in T : TRUE] + f[T \ {CHOOSE h \in T : TRUE}]]
           F == [T \in SUBSET {g} |-> IF T = {} THEN 0 ELSE conf.weight[g]]
<1>1. F = Sum(F)
  <2>1. ASSUME NEW T \in SUBSET {g}, T # {}
        PROVE  (CHOOSE h \in T : TRUE) = g /\ T \ {g} = {} /\ F[{}] = 0
    OBVIOUS
  <2> QED
    BY <2>1
<1>2. (CHOOSE f : f = Sum(f)) = Sum(CHOOSE f : f = Sum(f))
  BY <1>1
<1>3. Plan!Weight({g}) = (CHOOSE f : f = Sum(f))[{g}]
  BY DEF Plan!Weight
<1>4. ASSUME NEW f, f = Sum(f) PROVE f[{g}] = conf.weight[g]
  <2>1. f[{}] = 0
    BY <1>4
  <2>2. (CHOOSE h \in {g} : TRUE) = g /\ {g} \ {g} = {}
    OBVIOUS
  <2>3. f[{g}] = conf.weight[g] + f[{}]
    BY <1>4, <2>2
  <2> QED
    BY <2>1, <2>3
<1> QED
  BY <1>2, <1>3, <1>4

(* What Selected asks of a choice T of the candidates S: a gate is chosen  *)
(* if and only if it fits beside the chosen ones before it.                *)
PlanFits(T, g)   == Plan!Weight({h \in T : h < g} \union {g}) <= MaxWorkers
PlanGreedy(S, T) == \A g \in S : g \in T <=> PlanFits(T, g)

(* There is such a choice. Else take a smallest set that has none: what is *)
(* chosen without its last gate, and that gate if it fits, is one for it.  *)
LEMMA PlanGreedyExists ==
  ASSUME NEW S, IsFiniteSet(S), S \subseteq Nat
  PROVE  \E T \in SUBSET S : PlanGreedy(S, T)
<1> SUFFICES ASSUME \A T \in SUBSET S : ~PlanGreedy(S, T)
             PROVE  FALSE
  OBVIOUS
<1>1. PICK Fam \in SUBSET SUBSET S :
        \A A \in SUBSET S : A \in Fam <=> \A T \in SUBSET A : ~PlanGreedy(A, T)
  <2> WITNESS {A \in SUBSET S : \A T \in SUBSET A : ~PlanGreedy(A, T)} \in SUBSET SUBSET S
  <2> QED
    OBVIOUS
<1>2. PICK A \in Fam : \A B \in Fam : B \subseteq A => B = A
  <2>1. Fam # {}
    BY <1>1
  <2>2. PlanHasSmallest(Fam)
    BY <2>1, PlanSmallestSubset
  <2> QED
    BY <2>2 DEF PlanHasSmallest
<1>3. A \in SUBSET S /\ IsFiniteSet(A) /\ A \subseteq Nat
  BY FS_Subset
<1>4. \A T \in SUBSET A : ~PlanGreedy(A, T)
  BY <1>1, <1>3
<1>5. A # {}
  BY <1>4 DEF PlanGreedy
<1>6. PICK x \in A : \A n \in A : n <= x
  BY <1>3, <1>5, PlanGreatestOf
<1>7. PICK T \in SUBSET (A \ {x}) : PlanGreedy(A \ {x}, T)
  <2>1. A \ {x} \in SUBSET S /\ A \ {x} \subseteq A /\ A \ {x} # A
    BY <1>3
  <2>2. A \ {x} \notin Fam
    BY <2>1, <1>2
  <2> QED
    BY <2>1, <2>2, <1>1
<1> DEFINE U == IF PlanFits(T, x) THEN T \union {x} ELSE T
<1>8. ASSUME NEW g \in A PROVE {h \in U : h < g} = {h \in T : h < g}
  <2>1. ~(x < g) /\ g \in Nat /\ x \in Nat
    BY <1>3, <1>6
  <2> QED
    BY <2>1
<1>9. ASSUME NEW g \in A PROVE PlanFits(U, g) <=> PlanFits(T, g)
  BY <1>8 DEF PlanFits
<1>10. ASSUME NEW g \in A PROVE g \in U <=> PlanFits(U, g)
  <2>1. CASE g = x
    <3>1. x \notin T
      OBVIOUS
    <3> QED
      BY <2>1, <3>1, <1>9
  <2>2. CASE g # x
    <3>1. g \in T <=> PlanFits(T, g)
      BY <2>2, <1>7 DEF PlanGreedy
    <3>2. g \in U <=> g \in T
      BY <2>2
    <3> QED
      BY <3>1, <3>2, <1>9
  <2> QED
    BY <2>1, <2>2
<1>11. PlanGreedy(A, U) /\ U \in SUBSET A
  BY <1>10 DEF PlanGreedy
<1> QED
  BY <1>4, <1>11

(* So Selected is one.                                                     *)
LEMMA PlanSelectedIsGreedy ==
  ASSUME NEW S, IsFiniteSet(S), S \subseteq Nat
  PROVE  Plan!Selected(S) \in SUBSET S /\ PlanGreedy(S, Plan!Selected(S))
<1>1. \E T \in SUBSET S : \A g \in S : g \in T <=> Plan!Weight({h \in T : h < g} \union {g}) <= MaxWorkers
  BY PlanGreedyExists DEF PlanGreedy, PlanFits
<1> QED
  BY <1>1 DEF Plan!Selected, PlanGreedy, PlanFits

-----------------------------------------------------------------------------
(* What Init says of a configuration.                                      *)
PlanConfOK ==
  /\ conf.needs \in [PlanGate -> SUBSET ({0} \union PlanGate)]
  /\ conf.group \in [PlanGate -> Group \union {Plan!Alone}]
  /\ conf.weight \in [PlanGate -> 1..MaxWorkers]
  /\ conf.settled \subseteq PlanGate
  /\ Plan!Accepted(conf)

PlanTypeOK ==
  /\ PlanConfOK
  /\ done \subseteq {0} \union PlanGate /\ 0 \in done
  /\ wave \subseteq PlanGate \ done
  /\ state \in [PlanGate -> {"waiting", "settled", "running", "success", "failure", "canceled"}]
  /\ stop \in BOOLEAN
  /\ trouble \in {"none", "deadline", "pulse", "signal"}

(* The inductive invariant: what is done is good, what runs is of the      *)
(* wave, a wave is stopped, and its gates canceled, for a trouble or a     *)
(* failure, and nothing of the wave is taken out of order.                 *)
PlanDoneIsGood    == \A g \in PlanGate : g \in done => state[g] \in {"success", "settled"}
PlanRunningInWave == Plan!Running \subseteq wave
PlanWaveStarted   == \A g \in wave : state[g] \in {"running", "success", "failure", "canceled"}
PlanStopHasCause  ==
  (stop \/ \E g \in wave : state[g] = "canceled")
    => (trouble # "none" \/ \E g \in wave : state[g] = "failure")
PlanWaveInOrder   == \A g \in wave : \A h \in PlanGate : h < g
    => h \in done \union Plan!Mates(g)
PlanEnded         ==
  /\ result # "stuck"
  /\ result # "canceled"
  /\ result = "passed" => PlanGate \subseteq done

PlanInv ==
  /\ PlanTypeOK /\ PlanDoneIsGood /\ PlanRunningInWave /\ PlanWaveStarted
  /\ PlanStopHasCause /\ PlanWaveInOrder /\ PlanEnded

(* The first gate that is not done is ready: its needs are earlier gates,  *)
(* and so is the whole stage before it, which a contiguous group never     *)
(* spreads around it.                                                      *)
LEMMA PlanLeastPendingReady ==
  ASSUME Plan!GateAssumption, PlanTypeOK,
         NEW p \in Plan!Pending, \A q \in Plan!Pending : p <= q
  PROVE  p \in Plan!Ready
<1>0. PlanGate \subseteq Nat \ {0} /\ p \in PlanGate /\ p \in Nat
  BY DEF Plan!GateAssumption, Plan!Pending
<1>1. \A h \in PlanGate : h < p => h \in done
  <2> TAKE h \in PlanGate
  <2>1. h \in Nat
    BY <1>0
  <2> QED
    BY <1>0, <2>1 DEF Plan!Pending
<1>2. CASE conf.needs[p] # {}
  <2>1. \A h \in conf.needs[p] : h < p /\ h \in {0} \union PlanGate
    BY <1>0 DEF PlanTypeOK, PlanConfOK, Plan!Accepted
  <2>2. conf.needs[p] \subseteq done
    BY <2>1, <1>1 DEF PlanTypeOK
  <2> QED
    BY <1>2, <2>2 DEF Plan!Ready, Plan!Depends
<1>3. CASE conf.needs[p] = {} /\ Plan!Before(p) = {}
  BY <1>3 DEF Plan!Ready, Plan!Depends, PlanTypeOK
<1>4. CASE conf.needs[p] = {} /\ Plan!Before(p) # {}
  <2>1. Plan!Before(p) \subseteq PlanGate /\ IsFiniteSet(Plan!Before(p))
        /\ Plan!Before(p) \subseteq Nat
    BY <1>0, FS_Subset DEF Plan!Before, Plan!GateAssumption, Plan!IsFiniteSet, IsFiniteSet
  <2>2. \E h \in Plan!Before(p) : \A i \in Plan!Before(p) : i <= h
    BY <1>4, <2>1, PlanGreatestOf
  <2>3. PICK k \in Plan!Before(p) : k = CHOOSE h \in Plan!Before(p) : \A i \in Plan!Before(p) : i <= h
    BY <2>2
  <2>4. p \in Plan!Mates(p)
    BY <1>0 DEF Plan!Mates
  <2>5. k \in PlanGate /\ k \in Nat /\ \A i \in Plan!Mates(p) : k < i
    BY <2>1 DEF Plan!Before
  <2>6. k < p
    BY <2>4, <2>5
  <2>7. ASSUME NEW h \in Plan!Mates(k) PROVE h \in done
    <3>1. h \in PlanGate /\ h \in Nat
      BY <2>5, <1>0 DEF Plan!Mates
    <3>2. CASE conf.group[k] = Plan!Alone
      BY <3>2, <2>5, <2>6, <1>1 DEF Plan!Mates
    <3>3. CASE conf.group[k] # Plan!Alone
      <4>1. conf.group[h] = conf.group[k]
        BY <3>3 DEF Plan!Mates
      <4>2. ASSUME conf.group[p] = conf.group[k] PROVE FALSE
        <5>1. k \in Plan!Mates(p)
          BY <4>2, <3>3, <2>5 DEF Plan!Mates
        <5> QED
          BY <5>1, <2>5
      <4>3. h # p
        BY <4>1, <4>2
      <4>4. ~(p < h)
        BY <4>1, <4>2, <3>1, <3>3, <2>5, <2>6, <1>0 DEF PlanTypeOK, PlanConfOK, Plan!Accepted
      <4>5. h < p
        BY <4>3, <4>4, <3>1, <1>0
      <4> QED
        BY <4>5, <3>1, <1>1
    <3> QED
      BY <3>2, <3>3
  <2>8. Plan!Depends(p) \subseteq done
    BY <1>4, <2>3, <2>7 DEF Plan!Depends
  <2> QED
    BY <2>8 DEF Plan!Ready
<1> QED
  BY <1>2, <1>3, <1>4

(* So a wave is found. It has that first gate, which fits alone; whatever  *)
(* else is in it is of the same group, and so is all that is pending in    *)
(* between.                                                                *)
LEMMA PlanNextWave ==
  ASSUME Plan!GateAssumption, Plan!MaxWorkersAssumption, PlanTypeOK, Plan!Pending # {}
  PROVE  LET next == IF Plan!Ready = {} THEN {} ELSE Plan!Selected(Plan!Candidates)
         IN  /\ next # {}
             /\ next \subseteq PlanGate \ done
             /\ \A g \in next : \A h \in PlanGate : h < g => h \in done \union Plan!Mates(g)
<1>0. PlanGate \subseteq Nat \ {0} /\ IsFiniteSet(PlanGate) /\ Plan!Pending \subseteq PlanGate
  BY DEF Plan!GateAssumption, Plan!Pending, Plan!IsFiniteSet, IsFiniteSet
<1>1. PICK p \in Plan!Pending : \A q \in Plan!Pending : p <= q
  <2>1. IsFiniteSet(Plan!Pending) /\ Plan!Pending \subseteq Nat
    BY <1>0, FS_Subset
  <2> QED
    BY <2>1, PlanLeastOf
<1>2. p \in Plan!Ready
  BY <1>1, PlanLeastPendingReady
<1>3. Plan!Ready \subseteq Plan!Pending
  BY DEF Plan!Ready
<1>4. Plan!First(Plan!Ready) = p
  <2>1. \A q \in Plan!Ready : p <= q
    BY <1>1, <1>3
  <2>2. \A q \in Plan!Ready : (\A h \in Plan!Ready : q <= h) => q = p
    BY <1>0, <1>2, <1>3, <2>1
  <2> QED
    BY <1>2, <2>1, <2>2 DEF Plan!First
<1>5. p \in Plan!Mates(p) /\ Plan!Mates(p) \subseteq PlanGate
  BY <1>0, <1>1 DEF Plan!Mates
<1>6. Plan!Candidates = Plan!Mates(p) \intersect Plan!Ready
  BY <1>4 DEF Plan!Candidates
<1>7. p \in Plan!Candidates /\ Plan!Candidates \subseteq Plan!Pending
      /\ IsFiniteSet(Plan!Candidates) /\ Plan!Candidates \subseteq Nat
  BY <1>0, <1>2, <1>3, <1>5, <1>6, FS_Subset
<1>8. Plan!Selected(Plan!Candidates) \in SUBSET Plan!Candidates
      /\ PlanGreedy(Plan!Candidates, Plan!Selected(Plan!Candidates))
  BY <1>7, PlanSelectedIsGreedy
<1>9. p \in Plan!Selected(Plan!Candidates)
  <2>1. {h \in Plan!Selected(Plan!Candidates) : h < p} = {}
    <3>1. \A h \in Plan!Selected(Plan!Candidates) : h \in Nat /\ p \in Nat /\ p <= h
      BY <1>7, <1>8, <1>1
    <3> QED
      BY <3>1
  <2>2. conf.weight[p] \in Nat /\ conf.weight[p] <= MaxWorkers
    <3>1. conf.weight \in [PlanGate -> 1..MaxWorkers] /\ p \in PlanGate
      BY <1>0, <1>1 DEF PlanTypeOK, PlanConfOK
    <3>2. MaxWorkers \in Nat
      BY DEF Plan!MaxWorkersAssumption
    <3>3. conf.weight[p] \in 1..MaxWorkers
      BY <3>1
    <3> QED
      BY <3>2, <3>3
  <2>3. {h \in Plan!Selected(Plan!Candidates) : h < p} \union {p} = {p}
    BY <2>1
  <2>4. PlanFits(Plan!Selected(Plan!Candidates), p)
    BY <2>2, <2>3, PlanWeightOfOne DEF PlanFits
  <2> QED
    BY <2>4, <1>7, <1>8 DEF PlanGreedy
<1>10. ASSUME NEW g \in Plan!Selected(Plan!Candidates), NEW h \in PlanGate, h < g
       PROVE  h \in done \union Plan!Mates(g)
  <2>1. g \in Plan!Mates(p) /\ g \in Plan!Pending /\ g \in PlanGate /\ g \in Nat /\ h \in Nat
        /\ p \in Nat /\ p \in PlanGate
    BY <1>0, <1>6, <1>7, <1>8
  <2>2. CASE h \in done
    BY <2>2
  <2>3. CASE h \notin done
    <3>1. p <= h
      BY <2>3, <1>1 DEF Plan!Pending
    <3>2. p # g
      BY <3>1, <2>1, <1>10
    <3>3. conf.group[p] # Plan!Alone /\ conf.group[g] = conf.group[p]
      BY <3>2, <2>1 DEF Plan!Mates
    <3>4. conf.group[h] = conf.group[p]
      <4>1. CASE h = p
        BY <4>1
      <4>2. CASE h # p
        <5>1. p < h /\ h < g
          BY <4>2, <3>1, <2>1, <1>10
        <5> QED
          BY <5>1, <3>3, <2>1 DEF PlanTypeOK, PlanConfOK, Plan!Accepted
      <4> QED
        BY <4>1, <4>2
    <3> QED
      BY <3>3, <3>4 DEF Plan!Mates
  <2> QED
    BY <2>2, <2>3
<1> QED
  BY <1>2, <1>7, <1>8, <1>9, <1>10 DEF Plan!Pending

-----------------------------------------------------------------------------
(* The invariant holds at first and after each step.                       *)
LEMMA PlanInitOK ==
  ASSUME Plan!GateAssumption, Plan!MaxWorkersAssumption, Plan!Init
  PROVE  PlanInv
<1> USE DEF Plan!Init
<1>1. PlanConfOK
  <2>1. PICK n \in {m \in [PlanGate -> SUBSET ({0} \union PlanGate)] :
                      \A g \in PlanGate : m[g] \subseteq 0..(g - 1)},
             gr \in [PlanGate -> Group \union {Plan!Alone}],
             w \in [PlanGate -> 1..MaxWorkers],
             st \in {S \in SUBSET PlanGate : Plan!Cardinality(S) <= 1} :
          conf = [needs |-> n, group |-> gr, weight |-> w, settled |-> st]
    OBVIOUS
  <2> QED
    BY <2>1 DEF PlanConfOK
<1>2. PlanTypeOK
  <2>1. 0 \notin PlanGate
    BY DEF Plan!GateAssumption
  <2>2. conf.settled \subseteq PlanGate
    BY <1>1 DEF PlanConfOK
  <2> QED
    BY <1>1, <2>2 DEF PlanTypeOK
<1>3. PlanDoneIsGood
  <2>1. 0 \notin PlanGate
    BY DEF Plan!GateAssumption
  <2> QED
    BY <2>1 DEF PlanDoneIsGood
<1>4. PlanRunningInWave /\ PlanWaveStarted /\ PlanStopHasCause /\ PlanWaveInOrder /\ PlanEnded
  BY DEF PlanRunningInWave, Plan!Running, PlanWaveStarted, PlanStopHasCause, PlanWaveInOrder,
         PlanEnded
<1> QED
  BY <1>2, <1>3, <1>4 DEF PlanInv

LEMMA PlanStartWaveKeeps ==
  ASSUME Plan!GateAssumption, Plan!MaxWorkersAssumption, PlanInv, Plan!StartWave
  PROVE  PlanInv'
<1> USE DEF PlanInv
<1>1. PICK next :
        /\ next = IF Plan!Ready = {} THEN {} ELSE Plan!Selected(Plan!Candidates)
        /\ wave' = next
        /\ state' = [g \in PlanGate |-> IF g \in next THEN "running" ELSE state[g]]
        /\ result' = IF next = {} THEN "stuck" ELSE result
  BY DEF Plan!StartWave
<1>2. /\ stop' = FALSE /\ conf' = conf /\ done' = done /\ trouble' = trouble
      /\ wave = {} /\ result = "open" /\ Plan!Pending # {}
  BY DEF Plan!StartWave
<1>3. /\ next # {}
      /\ next \subseteq PlanGate \ done
      /\ \A g \in next : \A h \in PlanGate : h < g => h \in done \union Plan!Mates(g)
  BY <1>1, <1>2, PlanNextWave
<1>4. PlanTypeOK'
  <2>1. PlanConfOK'
    BY <1>2 DEF PlanTypeOK, PlanConfOK, Plan!Accepted
  <2> QED
    BY <1>1, <1>2, <1>3, <2>1 DEF PlanTypeOK
<1>5. PlanDoneIsGood'
  BY <1>1, <1>2, <1>3 DEF PlanDoneIsGood, PlanTypeOK
<1>6. PlanRunningInWave' /\ PlanWaveStarted'
  BY <1>1, <1>2, <1>3 DEF PlanRunningInWave, Plan!Running, PlanWaveStarted, PlanTypeOK
<1>7. PlanStopHasCause'
  BY <1>1, <1>2, <1>3 DEF PlanStopHasCause, PlanTypeOK
<1>8. PlanWaveInOrder'
  BY <1>1, <1>2, <1>3 DEF PlanWaveInOrder, Plan!Mates
<1>9. PlanEnded'
  BY <1>1, <1>2, <1>3 DEF PlanEnded
<1> QED
  BY <1>4, <1>5, <1>6, <1>7, <1>8, <1>9

LEMMA PlanGateEndsKeeps ==
  ASSUME Plan!GateAssumption, PlanInv, NEW g \in PlanGate, Plan!GateEnds(g)
  PROVE  PlanInv'
<1> USE DEF PlanInv
<1>1. PICK as \in {"success", "failure"} \union (IF stop THEN {"canceled"} ELSE {}) :
        /\ state' = [state EXCEPT ![g] = as]
        /\ stop' = (stop \/ as = "failure")
  BY DEF Plan!GateEnds
<1>2. /\ conf' = conf /\ done' = done /\ wave' = wave /\ trouble' = trouble
      /\ result' = result /\ state[g] = "running"
  BY DEF Plan!GateEnds
<1>3. g \in wave /\ g \notin done
  BY <1>2 DEF PlanRunningInWave, Plan!Running, PlanTypeOK
<1>4. as \in {"success", "failure", "canceled"} /\ (as = "canceled" => stop)
  BY <1>1
<1>5. PlanTypeOK'
  <2>1. PlanConfOK'
    BY <1>2 DEF PlanTypeOK, PlanConfOK, Plan!Accepted
  <2>2. stop' \in BOOLEAN
    BY <1>1 DEF PlanTypeOK
  <2> QED
    BY <1>1, <1>2, <1>4, <2>1, <2>2 DEF PlanTypeOK
<1>6. \A h \in PlanGate : state'[h] = IF h = g THEN as ELSE state[h]
  BY <1>1 DEF PlanTypeOK
<1>7. PlanDoneIsGood' /\ PlanRunningInWave' /\ PlanWaveStarted'
  BY <1>2, <1>3, <1>4, <1>6
     DEF PlanDoneIsGood, PlanRunningInWave, Plan!Running, PlanWaveStarted, PlanTypeOK
<1>8. PlanStopHasCause'
  <2>1. CASE as = "failure"
    BY <2>1, <1>2, <1>3, <1>6 DEF PlanStopHasCause
  <2>2. CASE as # "failure"
    <3>1. stop' = stop
      BY <2>2, <1>1 DEF PlanTypeOK
    <3>2. ASSUME stop' \/ \E h \in wave' : state'[h] = "canceled"
          PROVE  stop \/ \E h \in wave : state[h] = "canceled"
      BY <3>1, <3>2, <1>2, <1>4, <1>6 DEF PlanTypeOK
    <3>3. ASSUME NEW h \in wave, state[h] = "failure" PROVE state'[h] = "failure"
      BY <3>3, <1>2, <1>6 DEF PlanTypeOK
    <3> QED
      BY <3>2, <3>3, <1>2 DEF PlanStopHasCause
  <2> QED
    BY <2>1, <2>2
<1>9. PlanWaveInOrder' /\ PlanEnded'
  BY <1>2 DEF PlanWaveInOrder, Plan!Mates, PlanEnded
<1> QED
  BY <1>5, <1>7, <1>8, <1>9

LEMMA PlanWatchKeeps ==
  ASSUME PlanInv, NEW what \in {"deadline", "pulse", "signal"}, Plan!Watch(what)
  PROVE  PlanInv'
<1> USE DEF PlanInv, Plan!Watch
<1>1. PlanTypeOK'
  BY DEF PlanTypeOK, PlanConfOK, Plan!Accepted
<1>2. PlanDoneIsGood' /\ PlanRunningInWave' /\ PlanWaveStarted' /\ PlanStopHasCause'
  BY DEF PlanDoneIsGood, PlanRunningInWave, Plan!Running, PlanWaveStarted, PlanStopHasCause
<1>3. PlanWaveInOrder' /\ PlanEnded'
  BY DEF PlanWaveInOrder, Plan!Mates, PlanEnded
<1> QED
  BY <1>1, <1>2, <1>3

LEMMA PlanCollectKeeps ==
  ASSUME PlanInv, Plan!Collect
  PROVE  PlanInv'
<1> USE DEF PlanInv
<1>1. /\ conf' = conf /\ state' = state /\ stop' = stop /\ trouble' = trouble
      /\ result = "open" /\ wave # {} /\ Plan!Running = {}
  BY DEF Plan!Collect
<1>2. PlanConfOK'
  BY <1>1 DEF PlanTypeOK, PlanConfOK, Plan!Accepted
<1>3. CASE done' = done /\ wave' = wave /\ result' \in {"deadline", "pulse", "signal", "failed"}
  <2>1. PlanTypeOK' /\ PlanDoneIsGood' /\ PlanRunningInWave' /\ PlanWaveStarted'
        /\ PlanStopHasCause'
    BY <1>1, <1>2, <1>3
       DEF PlanTypeOK, PlanDoneIsGood, PlanRunningInWave, Plan!Running, PlanWaveStarted,
           PlanStopHasCause
  <2>2. PlanWaveInOrder' /\ PlanEnded'
    BY <1>1, <1>3 DEF PlanWaveInOrder, Plan!Mates, PlanEnded
  <2> QED
    BY <2>1, <2>2
<1>4. CASE /\ done' = done \union wave /\ wave' = {} /\ result' = result
           /\ trouble = "none"
           /\ \A g \in wave : state[g] \notin {"failure", "canceled"}
  <2>1. ~stop
    BY <1>4 DEF PlanStopHasCause
  <2>2. \A g \in wave : state[g] = "success"
    BY <1>1, <1>4 DEF PlanWaveStarted, Plan!Running, PlanTypeOK
  <2>3. PlanTypeOK'
    BY <1>1, <1>2, <1>4 DEF PlanTypeOK
  <2>4. PlanDoneIsGood'
    BY <1>1, <1>4, <2>2 DEF PlanDoneIsGood
  <2>5. PlanRunningInWave' /\ PlanWaveStarted' /\ PlanStopHasCause' /\ PlanWaveInOrder'
        /\ PlanEnded'
    BY <1>1, <1>4, <2>1
       DEF PlanRunningInWave, Plan!Running, PlanWaveStarted, PlanStopHasCause, PlanWaveInOrder,
           PlanEnded
  <2> QED
    BY <2>3, <2>4, <2>5
<1>5. CASE trouble # "none"
  BY <1>3, <1>5 DEF Plan!Collect, PlanTypeOK
<1>6. CASE \E g \in wave : state[g] = "failure"
  BY <1>3, <1>5, <1>6 DEF Plan!Collect
<1>7. CASE trouble = "none" /\ ~\E g \in wave : state[g] = "failure"
  <2>1. ~\E g \in wave : state[g] = "canceled"
    BY <1>7 DEF PlanStopHasCause
  <2> QED
    BY <1>4, <1>7, <2>1 DEF Plan!Collect
<1> QED
  BY <1>5, <1>6, <1>7

LEMMA PlanPassKeeps ==
  ASSUME PlanInv, Plan!Pass
  PROVE  PlanInv'
<1> USE DEF PlanInv, Plan!Pass
<1>1. PlanTypeOK'
  BY DEF PlanTypeOK, PlanConfOK, Plan!Accepted
<1>2. PlanDoneIsGood' /\ PlanRunningInWave' /\ PlanWaveStarted' /\ PlanStopHasCause'
      /\ PlanWaveInOrder'
  BY DEF PlanDoneIsGood, PlanRunningInWave, Plan!Running, PlanWaveStarted, PlanStopHasCause,
         PlanWaveInOrder, Plan!Mates
<1>3. PlanEnded'
  BY DEF PlanEnded, Plan!Pending
<1> QED
  BY <1>1, <1>2, <1>3

LEMMA PlanStepKeeps ==
  ASSUME Plan!GateAssumption, Plan!MaxWorkersAssumption, PlanInv, [Plan!Next]_Plan!vars
  PROVE  PlanInv'
<1>1. CASE Plan!StartWave
  BY <1>1, PlanStartWaveKeeps
<1>2. CASE Plan!Collect
  BY <1>2, PlanCollectKeeps
<1>3. CASE Plan!Pass
  BY <1>3, PlanPassKeeps
<1>4. ASSUME NEW g \in PlanGate, Plan!GateEnds(g) PROVE PlanInv'
  BY <1>4, PlanGateEndsKeeps
<1>5. ASSUME NEW what \in {"deadline", "pulse", "signal"}, Plan!Watch(what) PROVE PlanInv'
  BY <1>5, PlanWatchKeeps
<1>6. CASE UNCHANGED Plan!vars
  BY <1>6
     DEF Plan!vars, PlanInv, PlanTypeOK, PlanConfOK, Plan!Accepted, PlanDoneIsGood,
         PlanRunningInWave, Plan!Running,
              PlanWaveStarted, PlanStopHasCause, PlanWaveInOrder, Plan!Mates, PlanEnded
<1> QED
  BY <1>1, <1>2, <1>3, <1>4, <1>5, <1>6 DEF Plan!Next

LEMMA PlanHolds ==
  ASSUME PlanInv
  PROVE  /\ Plan!NeverStuck /\ Plan!DeclaredOrder
         /\ Plan!PassedMeansAll /\ Plan!NoBlamelessCancel
  BY DEF PlanInv, PlanEnded, PlanRunningInWave, PlanWaveInOrder, PlanDoneIsGood,
         Plan!NeverStuck, Plan!DeclaredOrder, Plan!PassedMeansAll, Plan!NoBlamelessCancel

-----------------------------------------------------------------------------
(***************************************************************************)
(* The parts together.                                                     *)
(***************************************************************************)

Inv ==
  /\ part = "asked"  => Asked!Inv
  /\ part = "auto"   => Taken!Inv
  /\ part = "reuse"  => ReuseInv
  /\ part = "verify" => VerifyInv
  /\ part = "plan"   => PlanInv

(* A step is a step of the part that the behaviour is about.               *)
LEMMA StepOfPart ==
  ASSUME [Next]_all
  PROVE  /\ part' = part
         /\ part = "asked"  => [Asked!Next]_Asked!vars
         /\ part = "auto"   => [Taken!Next]_Taken!vars
         /\ part = "reuse"  => [Reuse!Next]_Reuse!vars
         /\ part = "verify" => [Verify!Next]_Verify!vars
         /\ part = "plan"   => [Plan!Next]_Plan!vars
  <1>1. CASE UNCHANGED all
    BY <1>1 DEF all, approvalVars, reuseVars, verifyVars, planVars, Asked!vars, Taken!vars,
                Reuse!vars, Verify!vars, Plan!vars
  <1>2. CASE Next
    BY <1>2 DEF Next, ApprovalStep, ReuseStep, VerifyStep, PlanStep
  <1> QED BY <1>1, <1>2

LEMMA InitInv ==
  ASSUME Init
  PROVE  Inv
  <1>1. part = "asked" => Asked!Inv
    BY DeploysAssumption, Asked!InitInv DEF Init
  <1>2. part = "auto" => Taken!Inv
    BY DeploysAssumption, Taken!InitInv DEF Init
  <1>3. part = "reuse" => ReuseInv
    BY DeploysAssumption, ReuseInitOK DEF Init
  <1>4. part = "verify" => VerifyInv
    BY DeploysAssumption, VerifyInitInv DEF Init
  <1>5. part = "plan" => PlanInv
    BY DeploysAssumption, PlanInitOK DEF Init
  <1> QED BY <1>1, <1>2, <1>3, <1>4, <1>5 DEF Inv

LEMMA NextInv ==
  ASSUME Inv, [Next]_all
  PROVE  Inv'
  <1>1. CASE part = "asked"
    BY <1>1, DeploysAssumption, StepOfPart, Asked!NextInv DEF Inv
  <1>2. CASE part = "auto"
    BY <1>2, DeploysAssumption, StepOfPart, Taken!NextInv DEF Inv
  <1>3. CASE part = "reuse"
    BY <1>3, DeploysAssumption, StepOfPart, ReuseStepKeeps DEF Inv
  <1>4. CASE part = "verify"
    BY <1>4, DeploysAssumption, StepOfPart, VerifyNextInv DEF Inv
  <1>5. CASE part = "plan"
    BY <1>5, DeploysAssumption, StepOfPart, PlanStepKeeps DEF Inv
  <1>6. CASE part \notin {"asked", "auto", "reuse", "verify", "plan"}
    BY <1>6, StepOfPart DEF Inv
  <1> QED BY <1>1, <1>2, <1>3, <1>4, <1>5, <1>6

LEMMA InvAlways == Spec => []Inv
  BY InitInv, NextInv, PTL DEF Spec

(* Whatever is edited, undone, enqueued, dismissed and validated between   *)
(* an approval and the push: what reaches a remote has the commits, the    *)
(* destination and the policy that the --auto of its rows approved, or     *)
(* those of a plan a human said yes to.                                    *)
THEOREM ShipsAsApproved == Spec => []ShippedAsApproved
  <1>1. Inv => ShippedAsApproved
    BY Asked!InvTypes, Asked!InvShipped, Taken!InvTypes, Taken!InvShipped
       DEF Inv, ShippedAsApproved
  <1> QED BY <1>1, InvAlways, PTL

(* Whatever the config, the branch, the toolchain and the integration ref  *)
(* do between any two steps, a commit that lands passed each gate its      *)
(* changes call for, under the policy of the run that pushes it and        *)
(* exactly as it lands; a gate that must always run passed in that run.    *)
THEOREM LandsGated == Spec => []LandedGated
  <1>1. Inv => LandedGated
    BY DeploysAssumption, ReuseTypeHolds, ReuseHolds DEF Inv, LandedGated
  <1> QED BY <1>1, InvAlways, PTL

(* A reused gate passed with the toolchain the deploy found, unless that   *)
(* changed during the validation; deploy.reuse = "fail" never lands what   *)
(* it declines; a validation never meets a cache of another identity.      *)
THEOREM ReusesSoundly == Spec => []ReuseIsSound
  <1>1. Inv => ReuseIsSound
    BY ReuseHolds DEF Inv, ReuseIsSound
  <1> QED BY <1>1, InvAlways, PTL

(* A deployed row is verified by the hooks it was pushed with, or by an    *)
(* operator, however often the config changes while hooks run.             *)
THEOREM VerifiesByItsHooks == Spec => []VerifiedByItsHooks
  <1>1. Inv => VerifiedByItsHooks
    BY VerifyHolds DEF Inv, VerifiedByItsHooks
  <1> QED BY <1>1, InvAlways, PTL

(* verify settles a deployment whole and once all of it is recorded, and   *)
(* neither a slow command nor a late --ack takes back what is verified.    *)
THEOREM SettlesForGood == Spec => SettledForGood
  <1>1. Inv /\ [Next]_all =>
          [part = "verify" => Verify!SettlesWhole
              /\ Verify!TakesNothingBack]_<<verifyVars, row>>
    BY DeploysAssumption, StepOfPart, VerifyWritesSettleWhole, VerifyNothingTakenBack DEF Inv
  <1>2. Spec => [][Next]_all
    BY DEF Spec
  <1> QED BY <1>1, <1>2, InvAlways, PTL DEF SettledForGood

(* The scheduler of run_configured_plan never meets its two errors, no     *)
(* progress and a gate over the ceiling, and no gate runs before one that  *)
(* is declared earlier, unless they share a group.                         *)
THEOREM PlanAlwaysGoesOn == Spec => []PlanGoesOn
  <1>1. Inv => PlanGoesOn
    BY PlanHolds DEF Inv, PlanGoesOn
  <1> QED BY <1>1, InvAlways, PTL

(* The plan passes only when each gate succeeded or was settled before,    *)
(* and reports a canceled gate only with its cause: a deadline, a lost     *)
(* lease, a signal or a failure that came at any moment.                   *)
THEOREM PlanAlwaysHonest == Spec => []PlanIsHonest
  <1>1. Inv => PlanIsHonest
    BY PlanHolds DEF Inv, PlanIsHonest
  <1> QED BY <1>1, InvAlways, PTL
=============================================================================
