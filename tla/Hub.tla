--------------------------------- MODULE Hub ---------------------------------
(***************************************************************************)
(* The hub: a roster file of repositories, edited by hub add and hub       *)
(* remove at any time and by hand, and a daemon that reads it once per     *)
(* sweep and gives every queue a turn, a few at a time, except the ones    *)
(* that opted out.  A turn is one daemon_tick (Mergetrain's Daemon); here  *)
(* it begins, takes its time and ends.                                     *)
(***************************************************************************)
EXTENDS Naturals, Sequences, SequencesExt, FiniteSets

CONSTANTS
  Path,          \* as a roster spells them
  Dirs, Roots,   \* which paths reach one directory, and one shared state root
  Dbs,           \* and one database, as state.db may move it
  Command,       \* hub add and hub remove processes
  Concurrency,
  Breakable,     \* paths whose config may be unreadable for a while
  MaxCommands, MaxRoster, MaxBreaks, MaxSweeps

Nobody == "nobody"

HubAssumption ==
  /\ UNION Dirs = Path /\ UNION Roots = Path /\ UNION Dbs = Path /\ Breakable \subseteq Path
  /\ \A Parts \in {Dirs, Roots, Dbs} : \A S, T \in Parts : S # T => S \cap T = {}
  /\ \A D \in Dirs : \E R \in Roots : D \subseteq R
  /\ Nobody \notin Command /\ Concurrency \in Nat \ {0}
  /\ {MaxCommands, MaxRoster, MaxBreaks, MaxSweeps} \subseteq Nat

VARIABLES
  roster,    \* repos.json, in order
  flock,     \* who holds repos.json.lock
  cmd,       \* what each command is doing
  readable,  \* the paths whose config loads
  loop,      \* the daemon: "top", "reading", "sweeping", "waiting" or "stopped"
  sweep,     \* the sweep: the roster it read, the keys of its entries, who is
             \* left out, next, running
  stop,      \* a signal came
  wish,      \* history: the last answered --daemon or --no-daemon of each directory
  turns,     \* history: the entries that had a turn in this sweep
  sweeps, lastSweep, breaks, commands

file   == <<roster, flock, cmd, wish, commands>>
daemon == <<loop, sweep, stop, turns, sweeps, lastSweep>>
vars   == <<roster, flock, cmd, readable, loop, sweep, stop, wish, turns, sweeps, lastSweep,
            breaks, commands>>

Idle == [pc |-> "idle"]

(* same_repo.                                                              *)
SameDir(p, q) == \E D \in Dirs : {p, q} \subseteq D

DirOf(p) == CHOOSE D \in Dirs : p \in D
RootOf(p) == CHOOSE R \in Roots : p \in R
DbOf(p)   == CHOOSE D \in Dbs : p \in D

-----------------------------------------------------------------------------
(* hub add [--daemon | --no-daemon] and hub remove: read, change, replace, *)
(* under the mutation lock.                                                *)

(* Mutant: the lock guards only the replace.                               *)
LockIsFreeAlways == TRUE

LockIsFree == flock = Nobody

CommandReads(c, p, what) ==
  /\ cmd[c] = Idle /\ LockIsFree /\ commands < MaxCommands
  /\ what = "remove" \/ Len(roster) < MaxRoster
  /\ commands' = commands + 1 /\ flock' = c
  /\ cmd' = [cmd EXCEPT ![c] = [pc |-> "write", path |-> p, what |-> what, read |-> roster]]
  /\ UNCHANGED <<roster, readable, wish, breaks>> /\ UNCHANGED daemon

(* The daemon flag after the command, for a roster entry that has `on`.    *)
Flag(on, what) == IF what = "add" THEN on ELSE what = "daemon"

Same(entries, p) == {i \in DOMAIN entries : SameDir(entries[i].path, p)}

(* remove_repo: what is left of the roster, in its order.                  *)
Without(entries, p) ==
  LET left == DOMAIN entries \ Same(entries, p)
      Nth(k) == CHOOSE i \in left : Cardinality({h \in left : h <= i}) = k
  IN  [k \in 1..Cardinality(left) |-> entries[Nth(k)]]

(* add_repo: the first entry of the directory, or a new one.               *)
With(entries, p, what) ==
  IF Same(entries, p) = {} THEN Append(entries, [path |-> p, daemon |-> Flag(TRUE, what)])
  ELSE LET i == CHOOSE k \in Same(entries, p) : \A h \in Same(entries, p) : k <= h
       IN  [entries EXCEPT ![i].daemon = Flag(@, what)]

Edited(entries, p, what) ==
  IF what = "remove" THEN Without(entries, p) ELSE With(entries, p, what)

CommandWrites(c) ==
  /\ cmd[c] # Idle
  /\ LET p == cmd[c].path
         what == cmd[c].what
     IN  /\ roster' = Edited(cmd[c].read, p, what)
         /\ wish' = IF what = "add" THEN wish ELSE [wish EXCEPT ![DirOf(p)] = what]
  /\ cmd' = [cmd EXCEPT ![c] = Idle] /\ flock' = Nobody
  /\ UNCHANGED <<readable, breaks, commands>> /\ UNCHANGED daemon

(* A command dies before its atomic replace; its lock dies with it.        *)
CommandDies(c) ==
  /\ cmd[c] # Idle
  /\ cmd' = [cmd EXCEPT ![c] = Idle] /\ flock' = Nobody
  /\ UNCHANGED <<roster, readable, wish, breaks, commands>> /\ UNCHANGED daemon

(* A config does not load, while someone edits it.                         *)
Break(p) ==
  /\ p \in Breakable
  /\ IF p \in readable THEN breaks < MaxBreaks /\ breaks' = breaks + 1 ELSE UNCHANGED breaks
  /\ readable' = IF p \in readable THEN readable \ {p} ELSE readable \cup {p}
  /\ UNCHANGED file /\ UNCHANGED daemon

-----------------------------------------------------------------------------
(* Mutant: a queue is known by its config alone.                           *)
KeysOfConfig(p) == IF p \in readable THEN {RootOf(p), DbOf(p)} ELSE {}

(* _queue_keys: the shared state root needs no config, the database does.  *)
Keys(p) == {RootOf(p)} \cup {d \in {DbOf(p)} : p \in readable}

(* Mutant: an opt-out is for the directory it names.                       *)
OptedOutHere(list, keys, i) ==
  \E k \in DOMAIN list : ~list[k].daemon /\ SameDir(list[k].path, list[i].path)

(* excluded_by_alias: for every path to the same directory or queue.       *)
OptedOut(list, keys, i) ==
  \E k \in DOMAIN list :
    ~list[k].daemon /\ (SameDir(list[k].path, list[i].path) \/ keys[k] \cap keys[i] # {})

(* Mutant: two paths to one queue are two repositories.                    *)
IsDuplicateDir(list, keys, i) == \E k \in 1..(i - 1) : SameDir(list[k].path, list[i].path)

IsDuplicate(list, keys, i) == \E k \in 1..(i - 1) : keys[k] \cap keys[i] # {}

(* Mutant: the signal is looked at after a sweep only.                     *)
MayBeginAlways == TRUE

(* Checked at the top of the loop, before the roster is read.              *)
MayBegin == ~stop

SweepBegins ==
  /\ loop = "top" /\ MayBegin /\ sweeps < MaxSweeps
  /\ loop' = "reading" /\ sweeps' = sweeps + 1 /\ turns' = {}
  /\ sweep' = [list |-> roster, keys |-> <<>>, next |-> 1, running |-> {}, out |-> {}, dups |-> {}]
  /\ UNCHANGED <<stop, lastSweep, readable, breaks>> /\ UNCHANGED file

(* One config after another, while they are edited;                        *)
ReadKeys ==
  /\ loop = "reading" /\ Len(sweep.keys) < Len(sweep.list)
  /\ sweep' = [sweep EXCEPT !.keys = Append(@, Keys(sweep.list[Len(@) + 1].path))]
  /\ UNCHANGED <<loop, stop, turns, sweeps, lastSweep, readable, breaks>> /\ UNCHANGED file

(* what they came to decides who has a turn.                               *)
KeysRead ==
  /\ loop = "reading" /\ Len(sweep.keys) = Len(sweep.list) /\ loop' = "sweeping"
  /\ sweep' = [sweep EXCEPT
                 !.out  = {i \in DOMAIN sweep.list : OptedOut(sweep.list, sweep.keys, i)},
                 !.dups = {i \in DOMAIN sweep.list : IsDuplicate(sweep.list, sweep.keys, i)}]
  /\ UNCHANGED <<stop, turns, sweeps, lastSweep, readable, breaks>> /\ UNCHANGED file

Stops ==
  /\ loop = "top" /\ ~MayBegin /\ loop' = "stopped"
  /\ UNCHANGED <<sweep, stop, turns, sweeps, lastSweep, readable, breaks>> /\ UNCHANGED file

HasTurn(i) == i \notin sweep.out \cup sweep.dups

(* At most `concurrency` turns at a time, in the roster's order.           *)
InTurn == sweep.next <= Len(sweep.list) /\ Cardinality(sweep.running) < Concurrency

(* Mutant: an entry that cannot be loaded ends the sweep.                  *)
AfterFailureEnd(i) == Len(sweep.list) + 1

AfterFailure(i) == i + 1

(* tick_one: excluded, a duplicate, or an error of its own.                *)
PassOver ==
  /\ loop = "sweeping" /\ InTurn
  /\ LET i == sweep.next
         p == sweep.list[i].path
     IN  \/ ~HasTurn(i) /\ sweep' = [sweep EXCEPT !.next = i + 1]
         \/ HasTurn(i) /\ p \notin readable /\ sweep' = [sweep EXCEPT !.next = AfterFailure(i)]
  /\ UNCHANGED <<loop, stop, turns, sweeps, lastSweep, readable, breaks>> /\ UNCHANGED file

TickBegins ==
  /\ loop = "sweeping" /\ InTurn
  /\ LET i == sweep.next
         p == sweep.list[i].path
     IN  /\ HasTurn(i) /\ p \in readable
         /\ sweep' = [sweep EXCEPT !.next = i + 1, !.running = @ \cup {i}]
         /\ turns' = turns \cup {i}
  /\ UNCHANGED <<loop, stop, sweeps, lastSweep, readable, breaks>> /\ UNCHANGED file

TickEnds(i) ==
  /\ loop = "sweeping" /\ i \in sweep.running
  /\ sweep' = [sweep EXCEPT !.running = @ \ {i}]
  /\ UNCHANGED <<loop, stop, turns, sweeps, lastSweep, readable, breaks>> /\ UNCHANGED file

SweepEnds ==
  /\ loop = "sweeping" /\ sweep.next > Len(sweep.list) /\ sweep.running = {}
  /\ loop' = IF stop THEN "stopped" ELSE "waiting"
  /\ UNCHANGED <<sweep, stop, turns, sweeps, lastSweep, readable, breaks>> /\ UNCHANGED file

WaitEnds ==
  /\ loop = "waiting" /\ loop' = "top"
  /\ UNCHANGED <<sweep, stop, turns, sweeps, lastSweep, readable, breaks>> /\ UNCHANGED file

Signal ==
  /\ ~stop /\ loop # "stopped" /\ stop' = TRUE /\ lastSweep' = sweeps
  /\ UNCHANGED <<loop, sweep, turns, sweeps, readable, breaks>> /\ UNCHANGED file

Init ==
  /\ roster \in BoundedSeq([path : Path, daemon : BOOLEAN], MaxRoster - 1) /\ flock = Nobody /\ cmd = [c \in Command |-> Idle] /\ readable = Path
  /\ loop = "top" /\ sweep = [list |-> <<>>, keys |-> <<>>, next |-> 1, running |-> {}, out |-> {}, dups |-> {}]
  /\ stop = FALSE /\ wish = [D \in Dirs |-> "none"] /\ turns = {}
  /\ sweeps = 0 /\ lastSweep = 0 /\ breaks = 0 /\ commands = 0

Loop ==
  \/ SweepBegins \/ ReadKeys \/ KeysRead \/ Stops \/ PassOver \/ TickBegins \/ SweepEnds
  \/ WaitEnds

Next ==
  \/ \E c \in Command :
       \/ \E p \in Path, what \in {"add", "daemon", "no-daemon", "remove"} : CommandReads(c, p, what)
       \/ CommandWrites(c) \/ CommandDies(c)
  \/ \E p \in Path : Break(p)
  \/ Loop \/ Signal
  \/ \E i \in 1..MaxRoster : TickEnds(i)

(* The loop runs on, and every turn ends.                                  *)
Fairness == WF_vars(Loop) /\ \A i \in 1..MaxRoster : WF_vars(TickEnds(i))

Spec == Init /\ [][Next]_vars /\ Fairness

Symmetry == Permutations(Command)

-----------------------------------------------------------------------------
(* Types; a running turn is one that the sweep gave.                       *)
TypeOK ==
  /\ \A e \in ToSet(roster) : e.path \in Path /\ e.daemon \in BOOLEAN
  /\ Len(roster) <= MaxRoster /\ flock \in Command \cup {Nobody}
  /\ readable \subseteq Path /\ loop \in {"top", "reading", "sweeping", "waiting", "stopped"}
  /\ sweep.running \subseteq turns /\ Cardinality(sweep.running) <= Concurrency
  /\ loop # "sweeping" => sweep.running = {}

(* What --no-daemon answered stays in the roster until someone asks for    *)
(* the opposite or removes the directory: no other command, at the same    *)
(* time or killed half-way, brings the flag back.                          *)
OptOutKept ==
  \A D \in Dirs : wish[D] = "no-daemon" =>
    \E e \in ToSet(roster) : e.path \in D /\ ~e.daemon

(* Two paths reach one queue, and it can be seen that they do.             *)
SameQueue(p, q) ==
  RootOf(p) = RootOf(q) \/ (DbOf(p) = DbOf(q) /\ {p, q} \cap Breakable = {})

(* No queue has a turn in a sweep whose roster excludes it by whatever     *)
(* path, also while the config of that path does not load.                 *)
OptOutHolds ==
  \A i \in turns : \A e \in ToSet(sweep.list) :
    SameQueue(e.path, sweep.list[i].path) => e.daemon

(* A queue has one turn per sweep, however many paths reach it.            *)
OneTurnPerQueue ==
  \A i, k \in turns : SameQueue(sweep.list[i].path, sweep.list[k].path) => i = k

(* After a signal the sweep in progress is the last one.                   *)
NoSweepAfterStop == stop => sweeps = lastSweep

Healthy(i) ==
  /\ HasTurn(i) /\ sweep.list[i].path \in readable \ Breakable

(* Every healthy queue of the roster that a sweep reads has its turn in    *)
(* it, whatever becomes of the other repositories' turns.                  *)
HealthyServed ==
  \A i \in 1..MaxRoster :
    (loop = "sweeping" /\ i \in DOMAIN sweep.list /\ Healthy(i) /\ i \notin turns)
      ~> (loop = "sweeping" /\ i \in turns)

(* hub_sweep: "the opt-out and de-duplication follow the queue, not the    *)
(* path", and the configured database covers a queue that state.db moved.  *)
OptOutFollowsQueue ==
  \A i \in turns : \A e \in ToSet(sweep.list) :
    DbOf(e.path) = DbOf(sweep.list[i].path) => e.daemon
=============================================================================
