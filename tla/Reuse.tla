-------------------------------- MODULE Reuse --------------------------------
(***************************************************************************)
(* Validated-gate reuse: a train is gated and recorded as validated with   *)
(* the identity of what was gated; a later deploy of it pushes that very   *)
(* commit and runs again only the gates it must, if nothing of the         *)
(* identity changed.  The gates of a validation run in a workspace that    *)
(* keeps its build caches, under an identity of their own.                 *)
(*                                                                         *)
(* One train at a time: the runner lock (Lease) and the claims (Store)     *)
(* are elsewhere.  Everything around it may change between any two steps:  *)
(* the config file, the toolchain, the branch, the integration ref.        *)
(***************************************************************************)
EXTENDS Naturals, FiniteSets

CONSTANTS
  Gate,       \* the built-in diff-check and those configured
  Always,     \* gates with always_rerun_on_deploy
  Scoped,     \* gates with paths, which the first head of the branch touches
  Policy,     \* what gate_policy_sha identifies
  Mode,       \* deploy.reuse: subset of {"off", "rerun", "fail"}
  Env,        \* what the fingerprint commands print
  MaxAge, MaxClock, MaxMoves, MaxRuns

ReuseAssumption ==
  /\ Always \subseteq Gate /\ Scoped \subseteq Gate
  /\ Mode \subseteq {"off", "rerun", "fail"}
  /\ Gate # {} /\ Policy # {} /\ Env # {}
  /\ {MaxAge, MaxClock, MaxMoves, MaxRuns} \subseteq Nat

VARIABLES
  config, env, head, tip, clock, pruned,  \* the world around the runner
  train,    \* the validated train's row fields
  run,      \* the run in progress
  marker,   \* validation_workspace_marker: whose cache this is
  cache,    \* history: whom the cache directories hold output of
  ran,      \* history: the gates that passed, on what, how, where
  landed,   \* history: the pushes
  drifted,  \* history: the toolchain changed in this validation, or since the cache was emptied
  moves, runs

world == <<config, env, head, tip, clock, pruned>>
vars  == <<config, env, head, tip, clock, pruned, train, run, marker, cache, ran, landed,
           drifted, moves, runs>>

Config == [policy : Policy, mode : Mode]

None == [pc |-> "none"]
Idle == [pc |-> "idle"]

(* A gate with paths is skipped when no changed path matches.              *)
Matches(g, commit) == g \in Scoped => commit.head = 1

-----------------------------------------------------------------------------
Moves == moves < MaxMoves /\ moves' = moves + 1

EditConfig(c) ==
  /\ Moves /\ c # config /\ config' = c
  /\ UNCHANGED <<env, head, tip, clock, pruned, train, run, marker, cache, ran, landed, drifted, runs>>

ChangeEnvironment(e) ==
  /\ Moves /\ e # env /\ env' = e
  /\ drifted' = IF run.pc \in {"empty", "mark", "gating", "record"} /\ ~run.deploy
                THEN {"run", "cache"} ELSE drifted
  /\ UNCHANGED <<config, head, tip, clock, pruned, train, run, marker, cache, ran, landed, runs>>

Commit ==
  /\ Moves /\ head' = head + 1
  /\ UNCHANGED <<config, env, tip, clock, pruned, train, run, marker, cache, ran, landed, drifted, runs>>

OthersLand ==
  /\ Moves /\ tip' = tip + 1
  /\ UNCHANGED <<config, env, head, clock, pruned, train, run, marker, cache, ran, landed, drifted, runs>>

Tick ==
  /\ clock < MaxClock /\ clock' = clock + 1
  /\ UNCHANGED <<config, env, head, tip, pruned, train, run, marker, cache, ran, landed, drifted, moves, runs>>

(* git gc drops the validation commit, which no ref holds.                 *)
Prune ==
  /\ Moves /\ train # None /\ ~pruned /\ pruned' = TRUE
  /\ UNCHANGED <<config, env, head, tip, clock, train, run, marker, cache, ran, landed, drifted, runs>>

-----------------------------------------------------------------------------
Goes(pc) == run' = [run EXCEPT !.pc = pc]

Stops == run' = Idle /\ train' = None

(* A validate or a deploy claims its rows; the config is read once.        *)
Start(deploy) ==
  /\ run = Idle /\ runs < MaxRuns /\ runs' = runs + 1
  /\ deploy \/ train = None
  /\ run' = [pc |-> "fetch", deploy |-> deploy, config |-> config, no |-> runs + 1,
             head |-> IF train = None THEN head ELSE train.commit.head,
             base |-> 0, commit |-> None, reused |-> FALSE, known |-> TRUE, todo |-> Gate,
             read |-> None]
  /\ UNCHANGED <<config, env, head, tip, clock, pruned, train, marker, cache, ran, landed, drifted, moves>>

(* The worktree is put at the integration ref, and the task branch must    *)
(* still be at the recorded commit (_merge_sha_for_job).  A workspace that *)
(* is gone is made anew: its marker goes first.                            *)
Fetch(missing) ==
  /\ run.pc = "fetch"
  /\ IF missing THEN ~run.deploy /\ marker' = None /\ cache' = {} /\ drifted' = {}
     ELSE UNCHANGED <<marker, cache, drifted>>
  /\ IF head # run.head THEN Stops
     ELSE /\ run' = [run EXCEPT !.base = tip,
                                !.pc = IF train # None /\ run.config.mode # "off"
                                       THEN "decide" ELSE "assemble"]
          /\ UNCHANGED train
  /\ UNCHANGED <<config, env, head, tip, clock, pruned, ran, landed, moves, runs>>

(* Mutants: decide leaves out one of its checks.                           *)
UnchangedButBase == /\ train.policy = run.config.policy
                    /\ clock - train.at <= MaxAge /\ ~pruned
UnchangedButPolicy == /\ train.commit.base = run.base
                      /\ clock - train.at <= MaxAge /\ ~pruned

(* ValidationReuse.decide: the checks that need no command of the adapter. *)
Unchanged == /\ train.commit.base = run.base
             /\ train.policy = run.config.policy
             /\ clock - train.at <= MaxAge
             /\ ~pruned

(* Mutant: a mismatch falls back to the full run, whatever the policy.     *)
DeclinesOpen == Goes("assemble") /\ UNCHANGED train

(* Mutant: a mismatch goes on to the gates, with nothing assembled.        *)
DeclinesUnassembled == Goes("gating") /\ UNCHANGED train

(* A mismatch: the full run, or nothing, as deploy.reuse.on_mismatch says. *)
Declines == IF run.config.mode = "fail" THEN Stops
            ELSE Goes("assemble") /\ UNCHANGED train

Decide ==
  /\ run.pc = "decide"
  /\ IF Unchanged THEN Goes("fingerprint") /\ UNCHANGED train ELSE Declines
  /\ UNCHANGED <<config, env, head, tip, clock, pruned, marker, cache, ran, landed, drifted, moves, runs>>

(* Mutant: any fingerprint that can be made will do.                       *)
SameAnyEnvironment(e) == TRUE

SameEnvironment(e) == train.env = e

(* The fingerprint commands run at the validated commit: they fail, or     *)
(* differ, or the train is restored, and its changed paths are looked up,  *)
(* which may fail too.                                                     *)
Fingerprint(works, known) ==
  /\ run.pc = "fingerprint"
  /\ IF ~works \/ ~SameEnvironment(env) THEN Declines
     ELSE /\ run' = [run EXCEPT !.pc = "gating", !.commit = train.commit, !.reused = TRUE,
                                !.known = known, !.read = env]
          /\ UNCHANGED train
  /\ UNCHANGED <<config, env, head, tip, clock, pruned, marker, cache, ran, landed, drifted, moves, runs>>

(* _assemble_train: the recorded commits are merged anew.                  *)
Assemble(known) ==
  /\ run.pc = "assemble"
  /\ run' = [run EXCEPT !.pc = IF run.deploy THEN "gating" ELSE "activate", !.known = known,
                        !.commit = [pc |-> "commit", base |-> run.base, head |-> run.head, no |-> run.no]]
  /\ UNCHANGED <<config, env, head, tip, clock, pruned, train, marker, cache, ran, landed, drifted, moves, runs>>

(* Mutant: the cache is kept as long as its policy stands.                 *)
RetainsByPolicy(id) == marker # None /\ marker.policy = id.policy

Retains(id) == marker = id

Identity(e) == [pc |-> "identity", policy |-> run.config.policy, env |-> e]

(* activate_persistent_cache: fingerprint,                                 *)
ActivateCache ==
  /\ run.pc = "activate"
  /\ run' = [run EXCEPT !.pc = IF Retains(Identity(env)) THEN "mark" ELSE "empty",
                        !.read = Identity(env)]
  /\ drifted' = drifted \ {"run"}
  /\ UNCHANGED <<config, env, head, tip, clock, pruned, train, marker, cache, ran, landed, moves, runs>>

(* empty a cache of another identity, directory by directory,              *)
EmptyCache(left) ==
  /\ run.pc = "empty" /\ left \subseteq cache /\ cache' = left
  /\ IF left = {} THEN Goes("mark") /\ drifted' = IF "run" \in drifted THEN drifted ELSE {}
     ELSE UNCHANGED <<run, drifted>>
  /\ UNCHANGED <<config, env, head, tip, clock, pruned, train, marker, ran, landed, moves, runs>>

(* and only then replace the marker.                                       *)
WriteMarker ==
  /\ run.pc = "mark"
  /\ marker' = run.read
  /\ Goes("gating")
  /\ UNCHANGED <<config, env, head, tip, clock, pruned, train, cache, ran, landed, drifted, moves, runs>>

(* Mutant: a reused train runs no gate again.                              *)
RerunsNone(g) == FALSE

Reruns(g) == g \in Always \/ (g \in Scoped /\ ~run.known)

(* A gate is skipped, reused, or runs and passes or fails.                 *)
RunGate(g, passes) ==
  /\ run.pc = "gating" /\ g \in run.todo
  /\ LET skipped == run.known /\ ~Matches(g, run.commit)
         runs_g  == ~skipped /\ (run.reused => Reruns(g))
     IN  /\ ~runs_g => passes
         /\ ran' = IF runs_g /\ passes
                   THEN ran \cup {[commit |-> run.commit, gate |-> g, env |-> env, no |-> run.no,
                                   policy |-> run.config.policy,
                                   cache |-> IF run.deploy THEN {} ELSE cache]}
                   ELSE ran
         /\ cache' = IF runs_g /\ ~run.deploy THEN cache \cup {Identity(env)} ELSE cache
  /\ IF passes THEN /\ run' = [run EXCEPT !.todo = @ \ {g},
                                          !.pc = IF run.todo # {g} THEN "gating"
                                                 ELSE IF run.deploy THEN "push" ELSE "record"]
                    /\ UNCHANGED train
     ELSE Stops
  /\ UNCHANGED <<config, env, head, tip, clock, pruned, marker, landed, drifted, moves, runs>>

(* _record_train of a validation: the fingerprint is taken now.            *)
RecordTrain ==
  /\ run.pc = "record"
  /\ train' = [pc |-> "train", commit |-> run.commit, policy |-> run.config.policy,
               env |-> env, at |-> clock, drifted |-> "run" \in drifted]
  /\ pruned' = FALSE /\ run' = Idle
  /\ UNCHANGED <<config, env, head, tip, clock, marker, cache, ran, landed, drifted, moves, runs>>

(* _push_and_verify: refused unless the remote is where the train starts.  *)
Push ==
  /\ run.pc = "push" /\ Stops
  /\ IF tip = run.base
     THEN /\ tip' = tip + 1
          /\ landed' = landed \cup
               {[commit |-> run.commit, no |-> run.no, config |-> run.config, reused |-> run.reused,
                 train |-> train, read |-> run.read, onto |-> tip]}
     ELSE UNCHANGED <<tip, landed>>
  /\ UNCHANGED <<config, env, head, clock, pruned, marker, cache, ran, drifted, moves, runs>>

(* The runner dies; the rows of a deploy go back to the queue.             *)
Crash ==
  /\ run # Idle /\ Moves /\ Stops
  /\ UNCHANGED <<config, env, head, tip, clock, pruned, marker, cache, ran, landed, drifted, runs>>

Init ==
  /\ config \in {c \in Config : c.policy = CHOOSE p \in Policy : TRUE}
  /\ env = (CHOOSE e \in Env : TRUE) /\ head = 1 /\ tip = 1 /\ clock = 0 /\ pruned = FALSE
  /\ train = None /\ run = Idle /\ marker = None /\ cache = {} /\ ran = {} /\ landed = {}
  /\ drifted = {} /\ moves = 0 /\ runs = 0

Next ==
  \/ \E c \in Config : EditConfig(c)
  \/ \E e \in Env : ChangeEnvironment(e)
  \/ Commit \/ OthersLand \/ Tick \/ Prune \/ Decide
  \/ \E missing \in BOOLEAN : Fetch(missing)
  \/ \E deploy \in BOOLEAN : Start(deploy)
  \/ \E works, known \in BOOLEAN : Fingerprint(works, known)
  \/ \E known \in BOOLEAN : Assemble(known)
  \/ ActivateCache \/ WriteMarker
  \/ \E left \in SUBSET cache : EmptyCache(left)
  \/ \E g \in Gate, passes \in BOOLEAN : RunGate(g, passes)
  \/ RecordTrain \/ Push \/ Crash

Spec == Init /\ [][Next]_vars

-----------------------------------------------------------------------------
PCs == {"fetch", "decide", "fingerprint", "assemble", "activate", "empty", "mark", "gating", "record",
        "push"}

(* Types: what a run holds fits where it is.                               *)
TypeOK ==
  /\ config \in Config /\ env \in Env /\ head \in 1..(MaxMoves + 1)
  /\ tip \in 1..(MaxMoves + MaxRuns + 1) /\ clock \in 0..MaxClock
  /\ run # Idle => /\ run.pc \in PCs /\ run.config \in Config /\ run.todo \subseteq Gate
                   /\ run.reused => run.pc \in {"gating", "push"} /\ run.commit = train.commit
                   /\ run.pc \in {"gating", "record", "push"} => run.commit # None
                   /\ run.pc \in {"record", "push"} <=> run.todo = {}
                   /\ run.pc \in {"decide", "fingerprint"} => train # None
  /\ train # None => train.env \in Env /\ train.policy \in Policy /\ train.at <= clock

RanOn(l, g) == {r \in ran : r.commit = l.commit /\ r.gate = g}

(* Whatever changed since its validation, a commit that lands passed every *)
(* gate its changes call for, under the policy of the run that pushes it,  *)
(* exactly as it lands; a gate that must always run passed in that run.    *)
LandedGated ==
  \A l \in landed : \A g \in Gate :
    Matches(g, l.commit) =>
      /\ l.commit.base = l.onto
      /\ \E r \in RanOn(l, g) : r.policy = l.config.policy /\ (g \in Always => r.no = l.no)

(* A gate that was reused had passed with the toolchain that the deploy    *)
(* finds, unless that changed while the validation ran.                    *)
SameToolchain ==
  \A l \in landed : l.reused /\ ~l.train.drifted =>
    \A g \in Gate : \A r \in RanOn(l, g) : r.no # l.no => r.env = l.read

(* on_mismatch: fail is a promise: a validated train lands by reuse or not *)
(* at all.                                                                 *)
FailsClosed ==
  \A l \in landed : l.config.mode = "fail" /\ l.train # None => l.reused

(* The gates of a validation never see a cache that another policy or      *)
(* another toolchain filled, also after a crash, unless it changed while   *)
(* they ran.                                                               *)
CacheIsOurs ==
  "cache" \in drifted \/ (run.pc = "gating" /\ ~run.deploy => cache \subseteq {run.read})

(* docs/design.md: "The runner checks ... adapter-provided environment     *)
(* hash ...  Only the unchanged case ... skipping reusable gates".         *)
UnchangedSinceGated ==
  \A l \in landed : l.reused =>
    \A g \in Gate : \A r \in RanOn(l, g) : r.no # l.no => r.env = l.read
=============================================================================
