------------------------------ MODULE GatePlan -----------------------------
(***************************************************************************)
(* How GateRunner runs the configured gates of one worktree: in waves of   *)
(* gates of one parallel group, each on a thread of its own, watched by    *)
(* the thread that also renews the lease and keeps the plan's deadline.    *)
(* In Runner and Bisect all of it is one step that passes or fails.        *)
(***************************************************************************)
EXTENDS Naturals, FiniteSets

CONSTANTS Gate,       \* the gates, numbered from 1 in the order configured
          Group,      \* names of parallel groups
          MaxWorkers  \* gate_parallelism.max_workers

GateAssumption == Gate \subseteq Nat \ {0} /\ IsFiniteSet(Gate)
MaxWorkersAssumption == MaxWorkers \in Nat \ {0}

VARIABLES
  conf,       \* the configuration, and which gates are settled before the plan
  done,       \* completed; 0 is the built-in diff-check
  wave,       \* the gates selected last
  state,      \* of each gate
  stop,       \* the cancel event of the wave
  trouble,    \* what the watching thread met: a deadline, a pulse, a signal
  result

vars == <<conf, done, wave, state, stop, trouble, result>>

Alone    == "alone"   \* the group of a gate that declares none
Running  == {g \in Gate : state[g] = "running"}
Pending  == Gate \ done

(* What a set of gates weighs together.                                    *)
Weight(S) ==
  LET sum[T \in SUBSET S] ==
        IF T = {} THEN 0
        ELSE LET g == CHOOSE h \in T : TRUE IN conf.weight[g] + sum[T \ {g}]
  IN  sum[S]

Mates(g) == IF conf.group[g] = Alone THEN {g} ELSE {h \in Gate : conf.group[h] = conf.group[g]}

(* What config.py accepts: needs name earlier gates, or the diff-check; a  *)
(* group is contiguous; no gate is heavier than the ceiling.               *)
Accepted(c) ==
  /\ \A g \in Gate : \A h \in c.needs[g] : h < g
  /\ \A g, h, i \in Gate :
       g < h /\ h < i /\ c.group[g] = c.group[i] /\ c.group[g] # Alone
         => c.group[h] = c.group[g]
  /\ \A g \in Gate : c.weight[g] <= MaxWorkers

(* gate_dependencies: what a gate needs, or else the whole stage before it.*)
Before(g)  == {h \in Gate : \A i \in Mates(g) : h < i}
Depends(g) ==
  IF conf.needs[g] # {} THEN conf.needs[g]
  ELSE IF Before(g) = {} THEN {0}
  ELSE Mates(CHOOSE h \in Before(g) : \A i \in Before(g) : i <= h)

Ready == {g \in Pending : Depends(g) \subseteq done}
First(S) == CHOOSE g \in S : \A h \in S : g <= h

(* Mutants: a wave takes whatever is ready; a gate that does not fit ends  *)
(* the search.                                                             *)
CandidatesOfAnyGroup == Ready
SelectedAllOrNone(S) == IF Weight(S) <= MaxWorkers THEN S ELSE {}

Candidates == Mates(First(Ready)) \intersect Ready

(* Greedily, in order, what still fits under the ceiling.                  *)
Selected(S) ==
  CHOOSE T \in SUBSET S :
    \A g \in S : g \in T <=> Weight({h \in T : h < g} \union {g}) <= MaxWorkers

-----------------------------------------------------------------------------
(* run_configured_plan, the head of its loop: the next wave starts, unless *)
(* the dependencies make no progress or a gate is heavier than the ceiling.*)
StartWave ==
  /\ result = "open" /\ wave = {} /\ Pending # {}
  /\ LET next == IF Ready = {} THEN {} ELSE Selected(Candidates)
     IN  /\ wave' = next
         /\ state' = [g \in Gate |-> IF g \in next THEN "running" ELSE state[g]]
         /\ result' = IF next = {} THEN "stuck" ELSE result
  /\ stop' = FALSE
  /\ UNCHANGED <<conf, done, trouble>>

(* A worker: its command exits, or is stopped because the wave is.  One    *)
(* that fails stops the others.                                            *)
GateEnds(g) ==
  /\ state[g] = "running"
  /\ \E as \in {"success", "failure"} \union (IF stop THEN {"canceled"} ELSE {}) :
       /\ state' = [state EXCEPT ![g] = as]
       /\ stop' = (stop \/ as = "failure")
  /\ UNCHANGED <<conf, done, wave, trouble, result>>

(* Mutant: the deadline stops the wave and is not remembered.              *)
WatchForgetfully(what) ==
  /\ result = "open" /\ wave # {}
  /\ trouble = "none" \/ (what = "signal" /\ trouble # what)
  /\ stop' = TRUE
  /\ trouble' = IF what = "deadline" THEN trouble ELSE what
  /\ UNCHANGED <<conf, done, wave, state, result>>

(* The watching thread, until it has collected the wave (all workers may   *)
(* have ended by then): the first trouble counts, but for a signal, which  *)
(* overrides, and it stops the wave.                                       *)
Watch(what) ==
  /\ result = "open" /\ wave # {}
  /\ trouble = "none" \/ (what = "signal" /\ trouble # what)
  /\ stop' = TRUE
  /\ trouble' = what
  /\ UNCHANGED <<conf, done, wave, state, result>>

(* Mutant: only failures are looked for.                                   *)
CollectFailures ==
  /\ result = "open" /\ wave # {} /\ Running = {}
  /\ IF \E g \in wave : state[g] = "failure"
     THEN result' = "failed" /\ UNCHANGED <<done, wave>>
     ELSE done' = done \union wave /\ wave' = {} /\ UNCHANGED result
  /\ UNCHANGED <<conf, state, stop, trouble>>

Collect ==
  /\ result = "open" /\ wave # {} /\ Running = {}
  /\ IF trouble # "none" THEN result' = trouble /\ UNCHANGED <<done, wave>>
     ELSE IF \E g \in wave : state[g] = "failure"
     THEN result' = "failed" /\ UNCHANGED <<done, wave>>
     ELSE IF \E g \in wave : state[g] = "canceled"
     THEN result' = "canceled" /\ UNCHANGED <<done, wave>>
     ELSE done' = done \union wave /\ wave' = {} /\ UNCHANGED result
  /\ UNCHANGED <<conf, state, stop, trouble>>

Pass ==
  /\ result = "open" /\ wave = {} /\ Pending = {}
  /\ result' = "passed"
  /\ UNCHANGED <<conf, done, wave, state, stop, trouble>>

-----------------------------------------------------------------------------
Init ==
  /\ conf \in [needs   : {n \in [Gate -> SUBSET ({0} \union Gate)] :
                            \A g \in Gate : n[g] \subseteq 0..(g - 1)},
               group   : [Gate -> Group \union {Alone}],
               weight  : [Gate -> 1..MaxWorkers],
               settled : {S \in SUBSET Gate : Cardinality(S) <= 1}]
  /\ Accepted(conf)
  /\ done = {0} \union conf.settled
  /\ wave = {} /\ stop = FALSE /\ trouble = "none" /\ result = "open"
  /\ state = [g \in Gate |-> IF g \in conf.settled THEN "settled" ELSE "waiting"]

Next ==
  \/ StartWave \/ Collect \/ Pass
  \/ \E g \in Gate : GateEnds(g)
  \/ \E what \in {"deadline", "pulse", "signal"} : Watch(what)

Spec == Init /\ [][Next]_vars

-----------------------------------------------------------------------------
(* Every configuration that is accepted at load time can be run to its     *)
(* end: the two errors of the scheduler never happen.                      *)
NeverStuck == result # "stuck"

(* Gates run in the order configured unless they share a group, whatever   *)
(* they say they need (docs/config.md).                                    *)
DeclaredOrder ==
  \A g \in Running : \A h \in Gate : h < g => h \in done \union Mates(g)

(* The plan passes only if each gate succeeded or was settled before, no   *)
(* matter when a deadline, a lost lease or a peer's failure came.          *)
PassedMeansAll == result = "passed" => \A g \in Gate : state[g] \in {"success", "settled"}

(* A plan never ends as canceled without a cause: the gates were stopped   *)
(* for a failure or a trouble, and that is what it reports.                *)
NoBlamelessCancel == result # "canceled"
=============================================================================
