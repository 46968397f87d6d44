------------------------------- MODULE Remote ------------------------------
(***************************************************************************)
(* The Git remote and the pushes under way to it, as far as mergetrain     *)
(* relies on them: a push is atomic over the push refs and the audit ref,  *)
(* moves them only while the integration ref is still the commit the train *)
(* was built on, and may outlive the runner that started it.               *)
(***************************************************************************)
EXTENDS Store

CONSTANTS Ref,        \* the push refs
          Main,       \* the one that is the integration ref
          MaxSha,     \* bound: commits built in one behaviour
          MaxMoves,   \* bound: moves of Main by others
          Faults      \* what the environment may do in this instance

ASSUME MainAssumption == Main \in Ref
ASSUME MaxShaAssumption == MaxSha \in Nat
ASSUME MaxMovesAssumption == MaxMoves \in Nat

VARIABLES commit,     \* the commit each deploy sha names; jobs {} until it is built
          wire,       \* the latest local "git push" of each sha
          late,       \* shas a server received whole from a client that then died
          landed,     \* shas whose audit ref exists: pushed, and the push landed
          onref,      \* shas each push ref contains
          tip,        \* the commit Main points at
          moves       \* moves of Main by others so far

remoteVars == <<commit, wire, late, landed, onref, tip, moves>>

Sha      == 1..MaxSha
Base     == 0..(MaxSha + MaxMoves)   \* 0, the shas, then the others' commits
Wire     == {"idle", "running", "landed", "refused"}
NoCommit == [jobs |-> {}, base |-> 0]

Built(s) == commit[s].jobs # {}

FastForward(s) == tip \in {commit[s].base, s}

MainContains(jobs) ==
  \A j \in jobs : \E s \in onref[Main] : j \in commit[s].jobs

(* The commit that merging these jobs onto the tip gives.  Merging what    *)
(* the branch has already changes nothing and gives the tip itself; the    *)
(* same jobs on the same base may give the commit of an earlier train (a   *)
(* fast-forward merge); otherwise it is new.                               *)
MayName(s, jobs) ==
  \/ s = tip /\ MainContains(jobs)
  \/ commit[s] = [jobs |-> jobs, base |-> tip]
  \/ /\ ~(tip \in Sha /\ MainContains(jobs))
     /\ ~Built(s) /\ \A t \in Sha : t < s => Built(t)

Build(s, jobs) ==
  commit' = IF s = tip THEN commit
            ELSE [commit EXCEPT ![s] = [jobs |-> jobs, base |-> tip]]

Landing(s) ==
  /\ landed' = landed \union {s}
  /\ onref' = [r \in Ref |-> onref[r] \union onref[Main] \union {s}]
  /\ tip' = s

-----------------------------------------------------------------------------
(* git push: the refs move, all of them, or none does.                     *)
WireLands(s) ==
  /\ wire[s] = "running" /\ FastForward(s)
  /\ wire' = [wire EXCEPT ![s] = "landed"]
  /\ Landing(s)
  /\ UNCHANGED <<commit, late, moves>>

(* A non-fast-forward, or a refusal by branch protection, permission or a  *)
(* hook.                                                                   *)
WireRefuses(s) ==
  /\ wire[s] = "running"
  /\ ~FastForward(s) \/ "refuse" \in Faults
  /\ wire' = [wire EXCEPT ![s] = "refused"]
  /\ UNCHANGED <<commit, late, landed, onref, tip, moves>>

(* The push dies before it lands; a server that has all of it may still    *)
(* apply it.                                                               *)
WireDrops(s) ==
  /\ "drop" \in Faults
  /\ wire[s] = "running"
  /\ wire' = [wire EXCEPT ![s] = "idle"]
  /\ late' \in {late} \union (IF "late" \in Faults THEN {late \union {s}} ELSE {})
  /\ UNCHANGED <<commit, landed, onref, tip, moves>>

LateLands(s) ==
  /\ s \in late /\ FastForward(s)
  /\ late' = late \ {s}
  /\ Landing(s)
  /\ UNCHANGED <<commit, wire, moves>>

(* Someone else moves the integration branch forward ...                   *)
ForeignPush ==
  /\ "foreign" \in Faults /\ moves < MaxMoves
  /\ moves' = moves + 1
  /\ tip' = MaxSha + moves'
  /\ UNCHANGED <<commit, wire, late, landed, onref>>

(* ... or rewrites a push ref back past some of the commits on it.         *)
Rewrite(r, kept) ==
  /\ "rewrite" \in Faults /\ moves < MaxMoves
  /\ kept # onref[r]
  /\ \A s \in kept : commit[s].base \in onref[r] => commit[s].base \in kept
  /\ onref' = [onref EXCEPT ![r] = kept]
  /\ moves' = moves + 1
  /\ tip' = IF r = Main THEN MaxSha + moves' ELSE tip
  /\ UNCHANGED <<commit, wire, late, landed>>

RemoteNext ==
  \/ \E s \in Sha : WireLands(s) \/ WireRefuses(s) \/ WireDrops(s) \/ LateLands(s)
  \/ ForeignPush
  \/ \E r \in Ref : \E kept \in SUBSET onref[r] : Rewrite(r, kept)

-----------------------------------------------------------------------------
RemoteTypeOK ==
  /\ commit \in [Sha -> [jobs : SUBSET Job, base : Nat]]
  /\ wire \in [Sha -> Wire]
  /\ late \in SUBSET Sha
  /\ landed \in SUBSET Sha
  /\ onref \in [Ref -> SUBSET Sha]
  /\ tip \in Nat
  /\ moves \in Nat

RemoteInit ==
  /\ commit = [s \in Sha |-> NoCommit]
  /\ wire = [s \in Sha |-> "idle"]
  /\ late = {}
  /\ landed = {}
  /\ onref = [r \in Ref |-> {}]
  /\ tip = 0
  /\ moves = 0
=============================================================================
