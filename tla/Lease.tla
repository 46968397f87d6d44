------------------------------- MODULE Lease -------------------------------
(***************************************************************************)
(* The runner lease: the one row of the locks table, who holds it, and     *)
(* what the owner's PID says about it.  A lease is taken, renewed,         *)
(* released, stolen and split in the transactions below; the modules that  *)
(* extend this one call them from the commands that do.                    *)
(*                                                                         *)
(* Time is abstracted to one bit of the lease: whether its TTL has run out *)
(* since its last renewal.                                                 *)
(***************************************************************************)
EXTENDS Store

CONSTANTS Proc,       \* the processes that may own the lease
          MaxToken    \* bound: claim tokens issued in one behaviour

ASSUME MaxTokenAssumption == MaxToken \in Nat

VARIABLES life,       \* what kill(pid, 0) finds under each process's PID
          lock,       \* the locks row; NoLock when there is none
          watch       \* the lease that "unlock --force" is watching, by token

leaseVars == <<life, lock, watch>>

(* up: the process runs; gone: it died; reused: it died and another        *)
(* program now runs under its PID, so it looks alive.                      *)
Life == {"up", "gone", "reused"}

Owner  == Proc \union {"nobody"}
NoLock == [owner |-> "nobody", token |-> 0, expired |-> FALSE]
LeaseOf(p, token) == [owner |-> p, token |-> token, expired |-> FALSE]

Held        == lock.token # 0
OwnerDead   == Held /\ life[lock.owner] = "gone"
Holds(p, t) == t # 0 /\ lock.owner = p /\ lock.token = t
NextToken   == issued + 1

(* active_runner_lock: the token of the runner that still fences its work. *)
ActiveToken == IF Held /\ ~OwnerDead THEN lock.token ELSE 0

(* Mutants: an expired lease is cleared under its claims; claims without a *)
(* lease are not split.                                                    *)
TakeoverUnderClaims ==
  IF ~Held THEN IF AnyClaimed(job) THEN "split" ELSE "free"
  ELSE IF OwnerDead THEN "split"
  ELSE IF ~lock.expired THEN "refuse"
  ELSE "clear"
TakeoverWithoutSplit ==
  IF ~Held THEN "free"
  ELSE IF OwnerDead THEN "split"
  ELSE IF ~lock.expired \/ AnyClaimed(job) THEN "refuse"
  ELSE "clear"

(* lock_takeover                                                           *)
Takeover ==
  IF ~Held THEN IF AnyClaimed(job) THEN "split" ELSE "free"
  ELSE IF OwnerDead THEN "split"
  ELSE IF ~lock.expired \/ AnyClaimed(job) THEN "refuse"
  ELSE "clear"

(* _acquire_runner_lock: the rows as the acquiring transaction leaves them *)
(* and the lease it inserts, under a fresh token.                          *)
CanAcquire   == Takeover # "refuse" /\ issued < MaxToken
AcquiredRows == IF Takeover = "split" THEN Split(job) ELSE job

TakeLease(p) ==
  /\ lock' = LeaseOf(p, NextToken)
  /\ issued' = NextToken
  /\ watch' = 0

(* refresh_runner_lock: any renewal gives the lease a new heartbeat, which *)
(* ends an unlock's watch of it.                                           *)
RenewLease ==
  /\ lock' = [lock EXCEPT !.expired = FALSE]
  /\ watch' = 0

(* _release_lock_token: drops the lease of exactly this owner and token.   *)
ReleaseLease(p, t) ==
  /\ lock' = IF Holds(p, t) THEN NoLock ELSE lock
  /\ watch' = IF Holds(p, t) THEN 0 ELSE watch

(* force_clear_lock_and_split: the same, and splits its claims with it.    *)
ClearAndSplit(p, t) ==
  /\ ReleaseLease(p, t)
  /\ job' = IF Holds(p, t) THEN Split(job) ELSE job

-----------------------------------------------------------------------------
(* A transaction that takes the lock, finds nothing to claim and drops the *)
(* lock again: the orphan split is all it leaves.  recover_orphans is one, *)
(* and so is every claim that ends empty.                                  *)
AcquireAndDrop ==
  /\ Takeover # "refuse"
  /\ job' = AcquiredRows
  /\ lock' = NoLock
  /\ watch' = 0
  /\ UNCHANGED <<issued, life>>

(* unlock without --force clears a dead owner's lock only.                 *)
UnlockDead ==
  /\ OwnerDead
  /\ ClearAndSplit(lock.owner, lock.token)
  /\ UNCHANGED <<issued, life>>

(* unlock --force, first check: the owner is not provably dead and its     *)
(* lease has expired.  From here it watches for one heartbeat and probes   *)
(* the remote, holding nothing; giving up changes nothing either.          *)
UnlockWatch ==
  /\ Held /\ ~OwnerDead /\ lock.expired
  /\ watch' = lock.token
  /\ UNCHANGED <<job, issued, life, lock>>

(* unlock --force, last check and the clear, in one transaction: the same  *)
(* lease, not renewed since, and still expired.                            *)
UnlockForced ==
  /\ Held /\ watch = lock.token /\ lock.expired
  /\ ClearAndSplit(lock.owner, lock.token)
  /\ UNCHANGED <<issued, life>>

-----------------------------------------------------------------------------
LeaseTypeOK ==
  /\ life \in [Proc -> Life]
  /\ lock \in [owner : Owner, token : Nat, expired : BOOLEAN]
  /\ watch \in Nat

LeaseInit ==
  /\ life = [p \in Proc |-> "up"]
  /\ lock = NoLock
  /\ watch = 0
=============================================================================
