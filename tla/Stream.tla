------------------------------- MODULE Stream -------------------------------
(***************************************************************************)
(* events --follow over a fixed set of jobs, next to the runner it         *)
(* watches: the job rows, the append-only run_events table and the lease.  *)
(* A poll is many reads, each of its own snapshot, and the runner commits  *)
(* between any two of them.                                                *)
(***************************************************************************)
EXTENDS Naturals, Sequences, SequencesExt, FiniteSets

CONSTANTS
  Job, Scope,  \* the jobs, and those that the stream is for
  Limit,       \* --limit: the events of one poll
  Retention,   \* RUN_EVENT_RETENTION
  Prompt,      \* whether a poll interval outlasts the step from status to event
  MaxClaims, MaxGates

StreamAssumption ==
  /\ Job \subseteq Nat \ {0} /\ IsFiniteSet(Job)
  /\ Scope \subseteq Job /\ Scope # {}
  /\ {Limit, Retention, MaxClaims, MaxGates} \subseteq Nat \ {0}
  /\ Prompt \in BOOLEAN

VARIABLES
  row,        \* deploy_queue: each job's status and claim token
  events,     \* run_events, every one ever written: their index is their id
  lease,      \* the lease token, 0 for none
  dead,       \* the lease's owner is
  claims,     \* history: tokens are 1..claims
  runner,     \* the jobs that the run has to finish, and the one to announce
  gates,      \* history: gate events of this run
  orphaned,   \* history: once a running job had no live lease
  pc, seen,   \* the follower: its next read, and the rows it read in this poll
  tokens, batch, terminalSeen, cursor, printed,
  asleep,     \* what the runner had to announce when the follower went to sleep
  ended       \* the stream_end record, and what was there when it was printed

store    == <<row, events, lease, dead, claims, runner, gates, orphaned>>
follower == <<pc, seen, tokens, batch, terminalSeen, cursor, printed, asleep, ended>>
vars     == <<store, follower>>

None == 0
Ends == {"validated", "deployed", "blocked"}

Event(job, token) == [job |-> job, token |-> token]

Running(rows) == {j \in DOMAIN rows : rows[j].status = "in_progress"}

-----------------------------------------------------------------------------
(* The runner.                                                             *)
Orphans(rows, token, isDead) ==
  {j \in Running(rows) : isDead \/ rows[j].token # token}

Note == orphaned' = (orphaned \/ Orphans(row', lease', dead') # {})

(* The claim and its event, which names no job, are one transaction; rows  *)
(* of a runner that is gone are re-queued with it.                         *)
Claim ==
  /\ lease = None \/ dead
  /\ claims < MaxClaims /\ claims' = claims + 1 /\ lease' = claims' /\ dead' = FALSE
  /\ \E W \in (SUBSET Job) \ {{}} :
       /\ \A j \in W : row[j].status \in {"queued", "validated", "in_progress"}
       /\ row' = [j \in Job |->
                    IF j \in W THEN [status |-> "in_progress", token |-> claims']
                    ELSE IF row[j].status = "in_progress" THEN [status |-> "queued", token |-> None]
                    ELSE row[j]]
       /\ runner' = [left |-> W, announce |-> None]
  /\ events' = Append(events, Event(None, claims')) /\ gates' = 0
  /\ Note /\ UNCHANGED follower

(* A gate of the run, of the whole train.                                  *)
Gate ==
  /\ lease # None /\ ~dead /\ runner.left # {} /\ runner.announce = None
  /\ gates < MaxGates /\ gates' = gates + 1
  /\ events' = Append(events, Event(None, lease))
  /\ UNCHANGED <<row, lease, dead, claims, runner, orphaned>> /\ UNCHANGED follower

(* _finish_job: the status first, which gives the claim token up,          *)
Finish(j, status) ==
  /\ lease # None /\ ~dead /\ j \in runner.left /\ runner.announce = None
  /\ row' = [row EXCEPT ![j] = [status |-> status, token |-> None]]
  /\ runner' = [left |-> runner.left \ {j}, announce |-> j]
  /\ UNCHANGED <<events, lease, dead, claims, gates, orphaned>> /\ UNCHANGED follower

(* then the event that announces it.                                       *)
Announce ==
  /\ lease # None /\ ~dead /\ runner.announce # None
  /\ events' = Append(events, Event(runner.announce, lease))
  /\ runner' = [runner EXCEPT !.announce = None]
  /\ UNCHANGED <<row, lease, dead, claims, gates, orphaned>> /\ UNCHANGED follower

Release ==
  /\ lease # None /\ ~dead /\ runner.left = {} /\ runner.announce = None
  /\ lease' = None
  /\ UNCHANGED <<row, events, dead, claims, runner, gates, orphaned>> /\ UNCHANGED follower

Crash ==
  /\ lease # None /\ ~dead /\ dead' = TRUE
  /\ UNCHANGED <<row, events, lease, claims, runner, gates>> /\ Note /\ UNCHANGED follower

-----------------------------------------------------------------------------
(* cmd_events sleeps between its polls, unless the last one was full.      *)
Nothing == [token |-> None, job |-> None]

Pending == IF runner.announce = None \/ dead THEN Nothing
           ELSE [token |-> lease, job |-> runner.announce]

(* The rows of the scope, one read each,                                   *)
ReadRow ==
  /\ pc = "rows" /\ (Prompt => asleep = Nothing \/ Pending # asleep)
  /\ LET j == Min(Scope \ DOMAIN seen)
     IN  /\ seen' = [i \in DOMAIN seen \cup {j} |-> IF i = j THEN row[j] ELSE seen[i]]
         /\ pc' = IF Scope = DOMAIN seen \cup {j} THEN "tokens" ELSE "rows"
  /\ UNCHANGED <<tokens, batch, terminalSeen, cursor, printed, asleep, ended>> /\ UNCHANGED store

(* Older rows are deleted with every insert.                               *)
Kept(i) == i \in DOMAIN events /\ i > Len(events) - Retention

(* the claim tokens of the scope, for the events that name no job,         *)
ReadTokens ==
  /\ pc = "tokens" /\ pc' = "events"
  /\ tokens' = ({row[j].token : j \in Scope}
                  \cup {events[i].token : i \in {k \in DOMAIN events :
                                                  Kept(k) /\ events[k].job \in Scope}}) \ {None}
  /\ UNCHANGED <<seen, batch, terminalSeen, cursor, printed, asleep, ended>> /\ UNCHANGED store

InScope(e, known) == e.job \in Scope \/ (e.job = None /\ e.token \in known)

(* In the order of their ids.                                              *)
Ids(S) == [k \in 1..Cardinality(S) |-> CHOOSE i \in S : Cardinality({n \in S : n <= i}) = k]

(* Mutant: the limit is for the first poll.                                *)
FirstOfAll(new) == new

FirstOf(new) == SubSeq(new, 1, IF Len(new) < Limit THEN Len(new) ELSE Limit)

(* the next events of the scope,                                           *)
ReadEvents ==
  /\ pc = "events" /\ pc' = "lock"
  /\ LET new == Ids({i \in DOMAIN events : i > cursor /\ Kept(i) /\ InScope(events[i], tokens)})
     IN  batch' = FirstOf(new)
  /\ UNCHANGED <<seen, tokens, terminalSeen, cursor, printed, asleep, ended>> /\ UNCHANGED store

(* stream_terminal, of the rows and the lease as they were read.           *)
Terminal(rows, token, isDead) ==
  LET statuses == {rows[j].status : j \in Scope}
      held     == {rows[j].token : j \in Running(rows)}
  IN  CASE Running(rows) # {} ->
             IF held = {token} /\ ~isDead THEN "no" ELSE "lost_lease"
        [] Running(rows) = {} /\ "queued" \in statuses -> "no"
        [] Running(rows) = {} /\ "queued" \notin statuses ->
             IF "blocked" \in statuses THEN "failure" ELSE "success"

(* Mutant: the first final status ends the stream.                         *)
MayEndAtOnce(t, wasTerminal, last) == t # "no"

(* Mutant: an empty poll does not.                                         *)
MayEndFull(t, wasTerminal, last) == t # "no" /\ wasTerminal /\ last \in 1..(Limit - 1)

(* The poll after a terminal one, with nothing more to read.               *)
MayEnd(t, wasTerminal, last) == t # "no" /\ wasTerminal /\ last < Limit

(* Mutant: the cursor is the newest event, in scope or not.                *)
CursorNewest == Len(events)

(* Mutant: it is the oldest of the batch.                                  *)
CursorOldest == IF batch = <<>> THEN cursor ELSE Head(batch)

Cursor == IF batch = <<>> THEN cursor ELSE Last(batch)

(* then the lease; and what they come to.                                  *)
ReadLock ==
  /\ pc = "lock"
  /\ printed' = printed \o batch /\ cursor' = Cursor
  /\ LET t == Terminal(seen, lease, dead)
     IN  /\ terminalSeen' = (t # "no")
         /\ IF MayEnd(t, terminalSeen, Len(batch))
              THEN /\ pc' = "ended"
                   /\ ended' = [reason |-> t, upTo |-> Len(events),
                                pending |-> runner.announce \in Scope /\ ~dead]
              ELSE pc' = "rows" /\ UNCHANGED ended
  /\ asleep' = IF Len(batch) < Limit THEN Pending ELSE Nothing
  /\ seen' = <<>> /\ batch' = <<>> /\ tokens' = {}
  /\ UNCHANGED store

Init ==
  /\ row = [j \in Job |-> [status |-> "queued", token |-> None]] /\ events = <<>>
  /\ lease = None /\ dead = FALSE /\ claims = 0 /\ runner = [left |-> {}, announce |-> None]
  /\ gates = 0 /\ orphaned = FALSE
  /\ pc = "rows" /\ seen = <<>> /\ tokens = {} /\ batch = <<>> /\ terminalSeen = FALSE
  /\ cursor = 0 /\ printed = <<>> /\ asleep = Nothing /\ ended = [reason |-> "no", upTo |-> 0, pending |-> FALSE]

Poll == ReadRow \/ ReadTokens \/ ReadEvents \/ ReadLock

Next ==
  \/ Claim \/ Gate \/ Announce \/ Release \/ Crash
  \/ \E j \in Job, status \in Ends : Finish(j, status)
  \/ Poll

(* The follower polls on; a runner that lives announces what it finished.  *)
Spec == Init /\ [][Next]_vars /\ WF_vars(Poll) /\ WF_vars(Announce)

-----------------------------------------------------------------------------
(* Types; a job that runs has a token that was given out, and only the     *)
(* last one of them is the lease.                                          *)
TypeOK ==
  /\ \A j \in Job : row[j].status \in Ends \cup {"queued", "in_progress"} /\ row[j].token \in 0..claims
  /\ lease \in {None, claims} /\ DOMAIN seen \subseteq Scope
  /\ pc \in {"rows", "tokens", "events", "lock", "ended"}
  /\ Len(batch) <= Limit /\ cursor \in 0..Len(events)

Printed == ToSet(printed)

(* Every event is printed once, in order, whatever the polls' reads saw.   *)
InOrder == \A a, b \in DOMAIN printed : a < b => printed[a] < printed[b]

(* The stream never passes over an event of one of its jobs that the       *)
(* retention still holds.                                                  *)
NoJobEventSkipped ==
  \A i \in 1..cursor : (events[i].job \in Scope /\ Kept(i)) => i \in Printed

(* cmd_events: the stream "reads the events once more after it first sees  *)
(* the final status, and only then ends", since the runner commits the     *)
(* status before the event.                                                *)
EndsAfterAnnounced ==
  (pc = "ended" /\ ended.reason # "lost_lease") =>
    /\ ~ended.pending
    /\ \A i \in 1..ended.upTo : (events[i].job \in Scope /\ Kept(i)) => i \in Printed

(* docs/failure-modes.md: lost_lease "if an in_progress job no longer      *)
(* matches a live runner lease", which tells an abandoned run from another.*)
LostIsLost == (pc = "ended" /\ ended.reason = "lost_lease") => orphaned

(* docs/contract.md: the stream of a job has "the same phases and gates as *)
(* the runner records them": those of its train are not passed over.       *)
NoTrainEventSkipped ==
  \A i \in 1..cursor :
    (InScope(events[i], {events[k].token : k \in {n \in DOMAIN events : events[n].job \in Scope}})
      /\ Kept(i)) => i \in Printed

(* When the jobs have their outcome for good, or their runner is gone for  *)
(* good, the stream ends.                                                  *)
Settled == Terminal([j \in Scope |-> row[j]], lease, dead) # "no"

StreamEnds == <>[]Settled => <>(pc = "ended")
=============================================================================
