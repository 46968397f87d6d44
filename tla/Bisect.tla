------------------------------- MODULE Bisect ------------------------------
(***************************************************************************)
(* What GitRunner does with a train whose gates fail: bisection probes     *)
(* subsets of it, removes the jobs it can blame and runs the others again  *)
(* as a fresh train, or falls back to one-job trains when it cannot tell.  *)
(* In Runner this is a choice, RejectJob and Isolate; here is how it is    *)
(* made.  (A validated train is never bisected: it fails whole, by Stop.)  *)
(* A step makes at most one probe.  The recursion of the code is the stack *)
(* of its calls.                                                           *)
(***************************************************************************)
EXTENDS Naturals, FiniteSets, Sequences

CONSTANT Job          \* the jobs that merged, numbered in train order

JobAssumption == Job \subseteq Nat /\ IsFiniteSet(Job) /\ Job # {}

VARIABLES
  steady,     \* gates depend on the jobs alone, and every subset merges
  broken,     \* then, the minimal combinations that fail
  deploy,     \* the train deploys what passes (else it validates it)
  pc,         \* what the frame is doing
  train,      \* its jobs
  calls,      \* the calls of descend and minimize_joint_failure still open
  cache,      \* probe_cache
  singles,    \* jobs blamed alone
  groups,     \* conflict_sets
  outcome     \* what each job ended as

vars == <<steady, broken, deploy, pc, train, calls, cache, singles, groups, outcome>>

Least(S)   == CHOOSE j \in S : \A i \in S : j <= i
Left(S)    == {j \in S : Cardinality({i \in S : i < j}) < Cardinality(S) \div 2}
Right(S)   == S \ Left(S)
Fails(S)   == \E B \in broken : B \subseteq S
Probes     == (SUBSET Job) \ {{}}
Unprobed   == [S \in Probes |-> "unknown"]

Results(S) == IF steady THEN {IF Fails(S) THEN "fail" ELSE "pass"} ELSE {"pass", "fail"}

End(S, as) == outcome' = [j \in Job |-> IF j \in S THEN as ELSE outcome[j]]

-----------------------------------------------------------------------------
(* The gates of the whole train.                                           *)

Call(do, S) == [do |-> do, of |-> S, rest |-> S, blamed |-> {}]

GatesPass ==
  /\ pc = "gating" /\ "pass" \in Results(train)
  /\ End(train, "passed")
  /\ pc' = "done"
  /\ UNCHANGED <<steady, broken, deploy, train, calls, cache, singles, groups>>

(* A one-job train has nothing to isolate.                                 *)
OnlyJobFails ==
  /\ pc = "gating" /\ "fail" \in Results(train)
  /\ Cardinality(train) = 1
  /\ End(train, "failed")
  /\ pc' = "done"
  /\ UNCHANGED <<steady, broken, deploy, train, calls, cache, singles, groups>>

GatesFail ==
  /\ pc = "gating" /\ "fail" \in Results(train)
  /\ Cardinality(train) > 1
  /\ pc' = "probing"
  /\ calls' = <<Call("descend", train)>>
  /\ cache' = Unprobed /\ singles' = {} /\ groups' = {}
  /\ UNCHANGED <<steady, broken, deploy, train, outcome>>

-----------------------------------------------------------------------------
(* Probing.                                                                *)

Top == Head(calls)
In(do) == pc = "probing" /\ calls # <<>> /\ Top.do = do

Continue(f) == calls' = <<f>> \o Tail(calls) /\ UNCHANGED <<singles, groups>>
Blame(S)    == calls' = Tail(calls) /\ singles' = singles \union S /\ UNCHANGED groups

(* The subset the open call probes next.                                   *)
Subject ==
  CASE Top.do = "left"   -> Left(Top.of)
    [] Top.do = "right"  -> Right(Top.of)
    [] Top.do = "joint"  -> Top.of
    [] Top.do = "shrink" -> Top.of \ {Least(Top.rest)}
    [] OTHER             -> {Least(Top.rest)}
Rest == Top.rest \ {Least(Top.rest)}

(* probe: a subset is assembled and gated once; later calls ask the cache. *)
Possible == IF cache[Subject] = "unknown" THEN Results(Subject) ELSE {cache[Subject]}
Probe(result) ==
  /\ result \in Possible
  /\ cache' = [cache EXCEPT ![Subject] = result]
  /\ UNCHANGED <<steady, broken, deploy, pc, train, outcome>>

NoProbe == UNCHANGED <<steady, broken, deploy, pc, train, cache, outcome>>

(* descend: one job is to blame; a small train probes job by job; a larger *)
(* one by halves, the left half first.                                     *)
Descend ==
  /\ In("descend")
  /\ IF Cardinality(Top.of) = 1 THEN Blame(Top.of)
     ELSE Continue(Call(IF Cardinality(train) <= 3 THEN "solo" ELSE "left", Top.of))
  /\ NoProbe

ProbeSolo ==
  /\ In("solo") /\ Top.rest # {}
  /\ \/ Probe("fail") /\ Blame(Subject)
     \/ Probe("pass") /\ Continue([Top EXCEPT !.rest = Rest])

AllPassAlone ==
  /\ In("solo") /\ Top.rest = {}
  /\ Continue(Call("joint", Top.of))
  /\ NoProbe

ProbeLeft ==
  /\ In("left")
  /\ \/ Probe("fail") /\ Continue([Top EXCEPT !.do = "right", !.blamed = Subject])
     \/ Probe("pass") /\ Continue([Top EXCEPT !.do = "right"])

ProbeRight ==
  /\ In("right")
  /\ LET left == IF Top.blamed = {} THEN <<>> ELSE <<Call("descend", Top.blamed)>>
     IN  \/ /\ Probe("fail")
            /\ calls' = left \o <<Call("descend", Subject)>> \o Tail(calls)
            /\ UNCHANGED <<singles, groups>>
         \/ /\ Probe("pass")
            /\ calls' = (IF left = <<>> THEN <<Call("joint", Top.of)>> ELSE left) \o Tail(calls)
            /\ UNCHANGED <<singles, groups>>

(* minimize_joint_failure: the failure must show again; then each job that *)
(* it does not need is left out, in order.                                 *)
ProbeJoint ==
  /\ In("joint")
  /\ Probe("fail") /\ Continue(Call("shrink", Top.of))

Shrink ==
  /\ In("shrink") /\ Top.rest # {} /\ Cardinality(Top.of) > 1
  /\ \/ Probe("fail") /\ Continue([Top EXCEPT !.of = Subject, !.rest = Rest])
     \/ Probe("pass") /\ Continue([Top EXCEPT !.rest = Rest])

(* Mutant: the set is called a conflict as it is.                          *)
ShrunkAtOnce ==
  /\ In("shrink")
  /\ Continue(Call("members", Top.of))
  /\ NoProbe

Shrunk ==
  /\ In("shrink")
  /\ \/ Cardinality(Top.of) = 1 /\ Blame(Top.of)
     \/ /\ Cardinality(Top.of) > 1 /\ Top.rest = {}
        /\ Continue(Call("members", Top.of))
  /\ NoProbe

(* Before a set is called a conflict, each member must pass alone.         *)
ProbeMember ==
  /\ In("members") /\ Top.rest # {}
  /\ \/ Probe("fail") /\ Continue([Top EXCEPT !.rest = Rest, !.blamed = @ \union Subject])
     \/ Probe("pass") /\ Continue([Top EXCEPT !.rest = Rest])

(* Mutants: the conflict stands although a member fails alone; all members *)
(* are blamed for one that does.                                           *)
ClassifyAsConflict ==
  /\ In("members") /\ Top.rest = {}
  /\ groups' = groups \union {Top.of}
  /\ calls' = Tail(calls) /\ UNCHANGED singles
  /\ NoProbe
ClassifyAllAlone ==
  /\ In("members") /\ Top.rest = {}
  /\ IF Top.blamed # {} THEN Blame(Top.of)
     ELSE /\ groups' = groups \union {Top.of}
          /\ calls' = Tail(calls) /\ UNCHANGED singles
  /\ NoProbe

Classify ==
  /\ In("members") /\ Top.rest = {}
  /\ IF Top.blamed # {} THEN Blame(Top.blamed)
     ELSE /\ groups' = groups \union {Top.of}
          /\ calls' = Tail(calls) /\ UNCHANGED singles
  /\ NoProbe

(* Mutant: a joint failure that does not show again is let go.             *)
AbortNot ==
  /\ In("joint")
  /\ Probe("pass") /\ Blame({})

(* _BisectAbort: the joint failure does not show again, or a subset does   *)
(* not merge without the jobs before it.                                   *)
Abort ==
  /\ \/ In("joint") /\ "pass" \in Possible
     \/ /\ In("solo") \/ In("shrink") \/ In("members") => Top.rest # {}
        /\ pc = "probing" /\ calls # <<>> /\ Top.do # "descend"
        /\ ~steady /\ cache[Subject] = "unknown"
  /\ pc' = "isolating"
  /\ calls' = <<>> /\ cache' = Unprobed /\ singles' = {} /\ groups' = {}
  /\ UNCHANGED <<steady, broken, deploy, train, outcome>>

(* The blamed jobs fail, the conflicts are blocked, the others run again.  *)
Remove ==
  LET blocked == UNION groups
      goods   == train \ (singles \union blocked)
  IN /\ pc = "probing" /\ calls = <<>>
     /\ outcome' = [j \in Job |-> IF j \in singles THEN "failed"
                                  ELSE IF j \in blocked THEN "blocked"
                                  ELSE outcome[j]]
     /\ train' = goods
     /\ pc' = IF goods = {} THEN "done" ELSE "gating"
     /\ UNCHANGED <<steady, broken, deploy, calls, cache, singles, groups>>

(* _process_isolated_jobs: one-job trains in order.  A validation stops at *)
(* the first that passes, and requeues the rest.  (What else stops it is   *)
(* in Runner.)                                                             *)
IsolatedJob ==
  LET j == Least(train)
      rest == train \ {j}
  IN /\ pc = "isolating" /\ train # {}
     /\ \/ "fail" \in Results({j}) /\ End({j}, "failed") /\ train' = rest
        \/ /\ "pass" \in Results({j})
           /\ outcome' = [outcome EXCEPT ![j] = "passed"]
           /\ deploy /\ train' = rest
        \/ /\ "pass" \in Results({j}) /\ ~deploy
           /\ outcome' = [i \in Job |-> IF i = j THEN "passed"
                                        ELSE IF i \in rest THEN "queued" ELSE outcome[i]]
           /\ train' = {}
     /\ pc' = IF train' = {} THEN "done" ELSE pc
     /\ UNCHANGED <<steady, broken, deploy, calls, cache, singles, groups>>

-----------------------------------------------------------------------------
(* broken is an antichain: a combination fails when it contains one of it. *)
Init ==
  /\ steady \in BOOLEAN /\ deploy \in BOOLEAN
  /\ broken \in SUBSET Probes
  /\ \A A, B \in broken : A \subseteq B => A = B
  /\ ~steady => broken = {}
  /\ pc = "gating" /\ train = Job
  /\ calls = <<>> /\ cache = Unprobed /\ singles = {} /\ groups = {}
  /\ outcome = [j \in Job |-> "none"]

Next ==
  \/ GatesPass \/ OnlyJobFails \/ GatesFail
  \/ Descend \/ ProbeSolo \/ AllPassAlone \/ ProbeLeft \/ ProbeRight
  \/ ProbeJoint \/ Shrink \/ Shrunk \/ ProbeMember \/ Classify
  \/ Abort \/ Remove \/ IsolatedJob

(* One thread runs all of it, and every probe ends within the timeout of   *)
(* its commands.                                                           *)
Spec == Init /\ [][Next]_vars /\ WF_vars(Next)

-----------------------------------------------------------------------------
(* A job is blamed alone only if a probe of that job alone failed.         *)
FailsAlone == \A j \in singles : cache[{j}] = "fail"

(* A set is called a semantic conflict only if it failed together, each    *)
(* member passed alone, and the failure needs each member: some probe with *)
(* all the others and without it passed.                                   *)
ConflictIsReal ==
  \A G \in groups :
    /\ Cardinality(G) > 1 /\ cache[G] = "fail"
    /\ \A j \in G : /\ cache[{j}] = "pass"
                    /\ \E T \in Probes : cache[T] = "pass" /\ G \ {j} \subseteq T

(* When the gates depend on the jobs alone, the verdicts are those of the  *)
(* definition: a failed job fails alone, a blocked one is in a minimal     *)
(* failing combination that is blocked whole, and the jobs that pass       *)
(* contain no failing combination; nothing is left undecided.              *)
Verdict(as) == {j \in Job : outcome[j] = as}
ExactWhenSteady ==
  steady /\ pc = "done" =>
    /\ \A j \in Verdict("failed") : {j} \in broken
    /\ \A j \in Verdict("blocked") :
         \E B \in broken : j \in B /\ Cardinality(B) > 1 /\ B \subseteq Verdict("blocked")
    /\ ~Fails(Verdict("passed"))
    /\ Verdict("queued") = {}

(* Whatever the gates say, and however often they change their mind, every *)
(* job gets a verdict: each bisection blames somebody or gives up.         *)
TrainEnds == <>(Verdict("none") = {})
=============================================================================
