------------------------------- MODULE Ledger ------------------------------
(***************************************************************************)
(* What the queue promises of each submission, whatever crashes, cancels,  *)
(* lost replies and recoveries come between: its work reaches the remote   *)
(* only while a durable intent to push it is open, together with all the   *)
(* work of that intent; the intent is closed as done only after it did,    *)
(* and given up only while it did not; and done is for ever.               *)
(***************************************************************************)
CONSTANTS Job,        \* the submissions
          Intent      \* names of pushes; 0, which is none, is not one of them

VARIABLES phase,      \* of each submission
          intent,     \* the push each open submission is part of; 0 when none
          live        \* the submissions whose work is on the remote

ledger == <<phase, intent, live>>

Phase    == {"waiting", "open", "done", "withdrawn"}
TypeOK   ==
  /\ phase \in [Job -> Phase]
  /\ intent \in [Job -> {0} \union Intent]
  /\ live \subseteq Job

InPhase(f) == {j \in Job : phase[j] = f}
Part(i)    == {j \in InPhase("open") : intent[j] = i}

Becomes(S, f, i) ==
  /\ phase'  = [j \in Job |-> IF j \in S THEN f ELSE phase[j]]
  /\ intent' = [j \in Job |-> IF j \in S THEN i ELSE intent[j]]

Init ==
  /\ phase = [j \in Job |-> "waiting"]
  /\ intent = [j \in Job |-> 0]
  /\ live = {}

(* The intent to push a train is written down for all of it at once.       *)
Open(S, i) ==
  /\ S # {} /\ S \subseteq InPhase("waiting") \ live
  /\ Part(i) = {}
  /\ Becomes(S, "open", i)
  /\ UNCHANGED live

(* A push lands whole.                                                     *)
Land(i) ==
  /\ Part(i) # {} /\ Part(i) \intersect live = {}
  /\ live' = live \union Part(i)
  /\ UNCHANGED <<phase, intent>>

Settle(j) ==
  /\ j \in InPhase("open") \intersect live
  /\ Becomes({j}, "done", 0)
  /\ UNCHANGED live

(* What did not land goes back to the queue or is withdrawn.               *)
GiveUp(S) ==
  /\ S \subseteq InPhase("open") \ live
  /\ Becomes(S, "waiting", 0) \/ Becomes(S, "withdrawn", 0)
  /\ UNCHANGED live

Withdraw(S) ==
  /\ S \subseteq InPhase("waiting")
  /\ Becomes(S, "withdrawn", 0)
  /\ UNCHANGED live

Next ==
  \/ \E i \in Intent : Land(i) \/ \E S \in SUBSET Job : Open(S, i)
  \/ \E S \in SUBSET Job : GiveUp(S) \/ Withdraw(S)
  \/ \E j \in Job : Settle(j)

Spec == Init /\ [][Next]_ledger
=============================================================================
