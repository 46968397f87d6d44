-------------------------- MODULE TrainQueueProofs --------------------------
(***************************************************************************)
(* However many agents, branches, rows and deaths there are: no branch has *)
(* two rows to be run, no task is queued twice or after it landed, every   *)
(* approval in the queue was given by a human, a train that has            *)
(* replacements is retired for good, and an ordered queue lands its tasks  *)
(* in their order.                                                         *)
(*                                                                         *)
(* A transaction leaves the rows it finds, or takes some out, and appends  *)
(* new ones.  So one lemma, Extended, carries the invariant: what is left  *)
(* is no livelier than before, and what is appended collides with nothing. *)
(* Every step is shown to have that shape (NextInv), from which, with how  *)
(* the claim moves (NextMoves), the rest follows without a look at the     *)
(* actions (HistoryKept, OrderKept).                                       *)
(***************************************************************************)
EXTENDS TrainQueue, SequenceTheorems, FiniteSetTheorems, TLAPS

Approvals == Approval \cup {None}

Row == [branch : Branch, head : Nat, approval : Approvals, order : Nat, root : Nat,
        status : Live \cup {"deployed", "canceled"}, train : Nat, size : Nat,
        retried : Nat, retired : Nat, replaces : Nat]

EnqueueCmd   == [kind : {"enqueue"}, branch : Branch, head : Nat, approval : Approvals]
RetryCmd     == [kind : {"retry"}, job : Nat, branch : Branch, head : Nat,
                 renew : BOOLEAN, approval : Approvals]
SupersedeCmd == [kind : {"supersede"}, train : Nat,
                 heads : UNION {[B -> Nat] : B \in SUBSET Branch}]

Cmd == {IdleCmd} \cup EnqueueCmd \cup RetryCmd \cup SupersedeCmd

Types ==
  /\ row \in Seq(Row) /\ tip \in [Branch -> Nat] /\ config \in Approval
  /\ cmd \in [Agent -> Cmd]
  /\ \A a \in Agent : cmd[a].kind = "retry" => cmd[a].job \in Ids
  /\ claim \subseteq Ids /\ train \in [id : Nat, size : Nat]

RootsOld == \A j \in Ids : row[j].root \in 1..j

Inv == Types /\ RootsOld /\ RunsOnce /\ AutoGranted

-----------------------------------------------------------------------------
(* Sequences of rows that a transaction leaves and appends.                *)

Stands(r) == r.status \in Live \cup {"deployed"}

(* The runner gives the number of the train that it is recording, or the   *)
(* next one.                                                               *)
Records ==
  /\ claim # {}
  /\ (train' = train /\ train.size > 0) \/ train'.id = train.id + 1

(* The rows of before, none of them revived.                               *)
Quieter(base) ==
  /\ base \in Seq(Row) /\ Len(base) = Len(row)
  /\ \A j \in Ids :
       /\ base[j].branch = row[j].branch /\ base[j].root = row[j].root
       /\ base[j].approval = row[j].approval
       /\ base[j].order = row[j].order /\ base[j].replaces = row[j].replaces
       /\ base[j].status \in Live => row[j].status \in Live
       /\ Stands(base[j]) => Stands(row[j])
       /\ row[j].status = "canceled" => base[j] = row[j]
       /\ base[j].status = "deployed" => row[j].status = "deployed" \/ j \in claim
       /\ base[j].train \in {0, row[j].train} \/ (base[j].train = train'.id /\ Records)

(* What new rows replace is a train of before, all of it retired while no  *)
(* runner has a claim.                                                     *)
Retired(base, t) ==
  /\ claim = {} /\ claim' = {} /\ \E j \in Ids : row[j].train = t
  /\ \A j \in Ids : base[j].train = t => base[j].status = "canceled" /\ base[j].retired # 0

(* A new task has the next place; one that is tried again may keep its own.*)
Placed(r) ==
  \/ r.root > Len(row) /\ r.order = r.root
  \/ \E j \in Alive : r.root = row[j].root /\ (Ordered => r.order = row[j].order)

(* New rows, each for a branch and a task of its own.                      *)
Fits(base, extra) ==
  /\ extra \in Seq(Row)
  /\ \A i \in DOMAIN extra :
       /\ extra[i].root \in 1..(Len(base) + i)
       /\ Placed(extra[i]) /\ extra[i].train = 0
       /\ extra[i].replaces # 0 => Retired(base, extra[i].replaces)
       /\ \A j \in DOMAIN base :
            /\ base[j].status \in Live => base[j].branch # extra[i].branch
            /\ Stands(base[j]) => base[j].root # extra[i].root
       /\ \A k \in DOMAIN extra \ {i} :
            extra[k].branch # extra[i].branch /\ extra[k].root # extra[i].root

(* Every step leaves such rows and appends such rows.                      *)
Shaped == \E base, extra : Quieter(base) /\ Fits(base, extra) /\ row' = base \o extra

LEMMA Concatenated ==
  ASSUME NEW base \in Seq(Row), NEW extra \in Seq(Row), NEW j \in DOMAIN (base \o extra)
  PROVE  \/ j \in DOMAIN base /\ (base \o extra)[j] = base[j]
         \/ \E i \in DOMAIN extra :
              j = Len(base) + i /\ (base \o extra)[j] = extra[i]
  <1>1. j \in 1..(Len(base) + Len(extra)) /\ Len(base) \in Nat /\ Len(extra) \in Nat
    BY ConcatProperties, LenProperties
  <1>2. CASE j <= Len(base)
    BY <1>1, <1>2, ConcatProperties, LenProperties
  <1>3. CASE j > Len(base)
    <2>1. j - Len(base) \in DOMAIN extra
      BY <1>1, <1>3, LenProperties
    <2>2. (base \o extra)[j] = extra[j - Len(base)]
      BY <1>1, <1>3, ConcatProperties
    <2> QED BY <1>1, <2>1, <2>2
  <1> QED BY <1>1, <1>2, <1>3

LEMMA Extended ==
  ASSUME Types, RootsOld, RunsOnce, AutoGranted, NEW base, NEW extra,
         Quieter(base), Fits(base, extra), row' = base \o extra,
         granted \subseteq granted',
         \A i \in DOMAIN extra : extra[i].approval # None
           => <<extra[i].branch, extra[i].approval>> \in granted'
  PROVE  /\ row' \in Seq(Row) /\ Ids \subseteq Ids'
         /\ RootsOld' /\ RunsOnce' /\ AutoGranted'
  <1>1. base \in Seq(Row) /\ extra \in Seq(Row) /\ row' \in Seq(Row)
    BY ConcatProperties DEF Quieter, Fits
  <1>2. DOMAIN base = Ids /\ Ids \subseteq Ids'
    BY <1>1, ConcatProperties, LenProperties DEF Types, Quieter, Ids
  <1>3. ASSUME NEW j \in Ids'
        PROVE  \/ j \in Ids /\ row'[j] = base[j]
               \/ \E i \in DOMAIN extra : j = Len(base) + i /\ row'[j] = extra[i]
    BY <1>1, <1>2, <1>3, Concatenated DEF Ids
  <1>4. \A j \in Ids :
          /\ base[j].branch = row[j].branch /\ base[j].root = row[j].root
          /\ base[j].approval = row[j].approval
          /\ base[j].status \in Live => row[j].status \in Live
    BY DEF Quieter
  <1>5. Len(base) = Len(row) /\ \A i \in DOMAIN extra : extra[i].root \in 1..(Len(base) + i)
    BY DEF Quieter, Fits
  <1>6. RootsOld'
    <2> SUFFICES ASSUME NEW j \in Ids' PROVE row'[j].root \in 1..j
      BY DEF RootsOld
    <2>1. CASE j \in Ids /\ row'[j] = base[j]
      <3>1. base[j].root = row[j].root /\ row[j].root \in 1..j
        BY <1>4, <2>1 DEF RootsOld
      <3> QED BY <2>1, <3>1
    <2>2. CASE \E i \in DOMAIN extra : j = Len(base) + i /\ row'[j] = extra[i]
      BY <1>5, <2>2
    <2> QED BY <1>3, <2>1, <2>2
  <1>7. OneActivePerBranch'
    <2> SUFFICES ASSUME NEW j \in Ids', NEW k \in Ids', row'[j].branch = row'[k].branch,
                        row'[j].status \in Live, row'[k].status \in Live
                 PROVE  j = k
      BY DEF OneActivePerBranch, Alive
    <2> USE <1>2 DEF Fits
    <2>1. CASE /\ j \in Ids /\ row'[j] = base[j]
               /\ k \in Ids /\ row'[k] = base[k]
      <3>1. /\ base[j].branch = row[j].branch /\ base[k].branch = row[k].branch
            /\ row[j].status \in Live /\ row[k].status \in Live
        BY <1>4, <2>1
      <3>2. j \in Alive /\ k \in Alive /\ row[j].branch = row[k].branch
        BY <2>1, <3>1 DEF Alive
      <3> QED BY <3>2 DEF RunsOnce, OneActivePerBranch
    <2>2. CASE j \in Ids /\ row'[j] = base[j] /\ ~(k \in Ids /\ row'[k] = base[k])
      BY <1>3, <2>2
    <2>3. CASE ~(j \in Ids /\ row'[j] = base[j]) /\ k \in Ids /\ row'[k] = base[k]
      BY <1>3, <2>3
    <2>4. CASE /\ ~(j \in Ids /\ row'[j] = base[j])
               /\ ~(k \in Ids /\ row'[k] = base[k])
      BY <1>3, <2>4
    <2> QED BY <2>1, <2>2, <2>3, <2>4
  <1>8. OneRowPerTask'
    <2> SUFFICES ASSUME NEW j \in Ids', NEW k \in Ids', row'[j].root = row'[k].root,
                        Stands(row'[j]), Stands(row'[k])
                 PROVE  j = k
      BY DEF OneRowPerTask, Alive, InStatus, Stands
    <2> USE <1>2 DEF Fits
    <2>1. CASE /\ j \in Ids /\ row'[j] = base[j]
               /\ k \in Ids /\ row'[k] = base[k]
      <3>1. Stands(row[j]) /\ Stands(row[k]) /\ row[j].root = row[k].root
        BY <2>1 DEF Quieter
      <3>2. j \in Alive \cup InStatus("deployed") /\ k \in Alive \cup InStatus("deployed")
        BY <2>1, <3>1 DEF Alive, InStatus, Stands
      <3> QED BY <3>1, <3>2 DEF RunsOnce, OneRowPerTask
    <2>2. CASE j \in Ids /\ row'[j] = base[j] /\ ~(k \in Ids /\ row'[k] = base[k])
      BY <1>3, <2>2
    <2>3. CASE ~(j \in Ids /\ row'[j] = base[j]) /\ k \in Ids /\ row'[k] = base[k]
      BY <1>3, <2>3, ZenonT(60)
    <2>4. CASE /\ ~(j \in Ids /\ row'[j] = base[j])
               /\ ~(k \in Ids /\ row'[k] = base[k])
      <3>1. PICK m \in DOMAIN extra : j = Len(base) + m /\ row'[j] = extra[m]
        BY <1>3, <2>4
      <3>2. PICK n \in DOMAIN extra : k = Len(base) + n /\ row'[k] = extra[n]
        BY <1>3, <2>4
      <3>3. m = n
        BY <3>1, <3>2
      <3> QED BY <3>1, <3>2, <3>3
    <2> QED BY <2>1, <2>2, <2>3, <2>4
  <1>9. AutoGranted'
    <2> SUFFICES ASSUME NEW j \in Ids', row'[j].approval # None
                 PROVE  <<row'[j].branch, row'[j].approval>> \in granted'
      BY DEF AutoGranted
    <2>1. CASE j \in Ids /\ row'[j] = base[j]
      <3>1. base[j].branch = row[j].branch /\ base[j].approval = row[j].approval
        BY <1>4, <2>1
      <3>2. row[j].approval # None /\ <<row[j].branch, row[j].approval>> \in granted
        BY <2>1, <3>1 DEF AutoGranted
      <3> QED BY <2>1, <3>1, <3>2
    <2>2. CASE \E i \in DOMAIN extra : j = Len(base) + i /\ row'[j] = extra[i]
      BY <2>2
    <2> QED BY <1>3, <2>1, <2>2
  <1> QED BY <1>1, <1>2, <1>6, <1>7, <1>8, <1>9 DEF RunsOnce

(* A transaction that appends nothing.                                     *)
LEMMA Updated ==
  ASSUME Inv, Quieter(row'), UNCHANGED granted
  PROVE  /\ row' \in Seq(Row) /\ Ids = Ids' /\ Shaped
         /\ RootsOld' /\ RunsOnce' /\ AutoGranted'
  <1>1. row' \in Seq(Row) /\ row' = row' \o <<>> /\ <<>> \in Seq(Row)
    BY ConcatEmptySeq, EmptySeq DEF Quieter
  <1>2. Fits(row', <<>>)
    BY <1>1 DEF Fits
  <1>3. Ids' = Ids
    BY <1>1, LenProperties DEF Inv, Types, Quieter, Ids
  <1>4. Shaped
    BY <1>1, <1>2 DEF Shaped
  <1> QED BY <1>1, <1>2, <1>3, <1>4, Extended DEF Inv

LEMMA Rewritten ==
  ASSUME Types, NEW base \in [Ids -> Row],
         \A j \in Ids :
           /\ base[j].branch = row[j].branch /\ base[j].root = row[j].root
           /\ base[j].approval = row[j].approval
           /\ base[j].order = row[j].order /\ base[j].replaces = row[j].replaces
           /\ base[j].status \in Live => row[j].status \in Live
           /\ Stands(base[j]) => Stands(row[j])
           /\ row[j].status = "canceled" => base[j] = row[j]
           /\ base[j].status = "deployed" => row[j].status = "deployed" \/ j \in claim
           /\ base[j].train \in {0, row[j].train} \/ (base[j].train = train'.id /\ Records)
  PROVE  Quieter(base) /\ DOMAIN base = Ids
  <1>1. Ids = 1..Len(row) /\ Len(row) \in Nat
    BY LenProperties DEF Types, Ids
  <1>2. base \in Seq(Row) /\ Len(base) = Len(row)
    BY <1>1
  <1> QED BY <1>2 DEF Quieter

LEMMA SetAllType ==
  ASSUME Types, NEW S, NEW s \in Live \cup {"canceled"},
         \A j \in S \cap Ids : s \in Live => row[j].status \in Live,
         \A j \in S \cap Ids : row[j].status # "canceled"
  PROVE  Quieter(SetStatus(S, s))
  <1> DEFINE base == SetStatus(S, s)
  <1>1. \A j \in Ids : row[j] \in Row
    BY ElementOfSeq, LenProperties DEF Types, Ids
  <1>2. base \in [Ids -> Row]
    BY <1>1 DEF SetStatus, SetAll, Row
  <1>3. ASSUME NEW j \in Ids
        PROVE  /\ base[j].branch = row[j].branch /\ base[j].root = row[j].root
               /\ base[j].approval = row[j].approval
               /\ base[j].order = row[j].order /\ base[j].replaces = row[j].replaces
               /\ base[j].status \in Live => row[j].status \in Live
               /\ Stands(base[j]) => Stands(row[j])
               /\ row[j].status = "canceled" => base[j] = row[j]
               /\ base[j].status = "deployed" => row[j].status = "deployed"
               /\ base[j].train = row[j].train
    <2>1. CASE j \in S
      BY <1>1, <2>1 DEF SetStatus, SetAll, Row, Stands, Live
    <2>2. CASE j \notin S
      BY <2>2 DEF SetStatus, SetAll
    <2> QED BY <2>1, <2>2
  <1> QED BY <1>2, <1>3, Rewritten

LEMMA SameShaped ==
  ASSUME Types, row' = row
  PROVE  Shaped
  <1>1. Quieter(row) /\ row' = row \o <<>> /\ Fits(row, <<>>)
    BY ConcatEmptySeq, EmptySeq DEF Types, Quieter, Fits
  <1> QED BY <1>1 DEF Shaped

-----------------------------------------------------------------------------
(* What an agent has read.                                                 *)

LEMMA EndsType ==
  ASSUME Types, NEW a \in Agent, Ends(a), Ids \subseteq Ids'
  PROVE  /\ cmd' \in [Agent -> Cmd]
         /\ \A b \in Agent : cmd'[b].kind = "retry" => cmd'[b].job \in Ids'
  <1>1. IdleCmd \in Cmd /\ IdleCmd.kind # "retry"
    BY DEF Cmd, IdleCmd
  <1> QED BY <1>1 DEF Types, Ends

LEMMA ReadsInv ==
  ASSUME Inv, NEW a \in Agent, NEW c \in Cmd, Reads(a, c), c.kind = "retry" => c.job \in Ids
  PROVE  Inv' /\ Shaped
  <1>1. Types'
    BY DEF Inv, Types, Reads, Ids
  <1>2. RootsOld' /\ RunsOnce' /\ AutoGranted'
    BY DEF Inv, RootsOld, RunsOnce, OneActivePerBranch, OneRowPerTask, AutoGranted, Reads, Ids,
           Alive, InStatus
  <1> QED BY <1>1, <1>2, SameShaped DEF Inv, Reads

LEMMA EnqueueReadsInv ==
  ASSUME Inv, NEW a \in Agent, NEW b \in Branch, NEW auto \in BOOLEAN, EnqueueReads(a, b, auto)
  PROVE  Inv' /\ Shaped
  <1> DEFINE c == [kind |-> "enqueue", branch |-> b, head |-> tip[b],
                   approval |-> IF auto THEN config ELSE None]
  <1>1. c \in EnqueueCmd /\ c.kind # "retry"
    BY DEF Inv, Types, EnqueueCmd, Approvals
  <1> QED BY <1>1, ReadsInv DEF EnqueueReads, Cmd

LEMMA RetryReadsInv ==
  ASSUME Inv, NEW a \in Agent, NEW j \in Ids, NEW b \in Branch, NEW renew \in BOOLEAN,
         RetryReads(a, j, b, renew)
  PROVE  Inv' /\ Shaped
  <1> DEFINE c == [kind |-> "retry", job |-> j, branch |-> b, head |-> tip[b], renew |-> renew,
                   approval |-> IF row[j].approval # None \/ renew THEN config ELSE None]
  <1>1. c \in RetryCmd /\ c.job \in Ids
    BY LenProperties DEF Inv, Types, RetryCmd, Approvals, Ids
  <1> QED BY <1>1, ReadsInv DEF RetryReads, Cmd

LEMMA SupersedeReadsInv ==
  ASSUME Inv, NEW a \in Agent, NEW t \in Nat, NEW B \in SUBSET Branch, SupersedeReads(a, t, B)
  PROVE  Inv' /\ Shaped
  <1> DEFINE h == [b \in B |-> tip[b]]
             c == [kind |-> "supersede", train |-> t, heads |-> h]
  <1>1. h \in [B -> Nat]
    BY DEF Inv, Types
  <1>2. c \in SupersedeCmd /\ c.kind # "retry"
    BY <1>1 DEF SupersedeCmd
  <1> QED BY <1>2, ReadsInv DEF SupersedeReads, Cmd

LEMMA RefusedInv ==
  ASSUME Inv, NEW a \in Agent, Refused(a), UNCHANGED <<tip, config, claim, train>>
  PROVE  Inv' /\ Shaped
  <1>1. UNCHANGED <<row, granted>> /\ Ids = Ids'
    BY DEF Refused, Ids
  <1>2. Types'
    BY <1>1, EndsType DEF Inv, Types, Refused
  <1>3. RootsOld' /\ RunsOnce' /\ AutoGranted'
    BY <1>1 DEF Inv, RootsOld, RunsOnce, OneActivePerBranch, OneRowPerTask, AutoGranted,
                Alive, InStatus
  <1> QED BY <1>1, <1>2, <1>3, SameShaped DEF Inv

(* A command's transaction.                                                *)
LEMMA WritesInv ==
  ASSUME Inv, NEW a \in Agent, Ends(a), UNCHANGED <<tip, config, claim, train>>,
         NEW base, NEW extra, Quieter(base), Fits(base, extra), row' = base \o extra,
         granted \subseteq granted',
         \A i \in DOMAIN extra : extra[i].approval # None
           => <<extra[i].branch, extra[i].approval>> \in granted'
  PROVE  Inv' /\ Shaped
  <1>1. row' \in Seq(Row) /\ Ids \subseteq Ids' /\ RootsOld' /\ RunsOnce' /\ AutoGranted'
    BY Extended DEF Inv
  <1>2. Types'
    BY <1>1, EndsType DEF Inv, Types
  <1> QED BY <1>1, <1>2 DEF Inv, Shaped

-----------------------------------------------------------------------------
LEMMA NewRowType ==
  ASSUME NEW b \in Branch, NEW h \in Nat, NEW ap \in Approvals, NEW o \in Nat, NEW r \in Nat
  PROVE  NewRow(b, h, ap, o, r) \in Row
  BY DEF NewRow, Row, Live

LEMMA CanceledType ==
  ASSUME NEW r \in Row, NEW n \in Nat
  PROVE  /\ [r EXCEPT !.status = "canceled", !.retried = n] \in Row
         /\ [r EXCEPT !.status = "canceled", !.retired = n] \in Row
  BY DEF Row

LEMMA OneRow ==
  ASSUME NEW r
  PROVE  DOMAIN <<r>> = {1} /\ <<r>>[1] = r
  OBVIOUS

LEMMA QuietRow ==
  ASSUME Types
  PROVE  Quieter(row)
  BY DEF Types, Quieter

(* enqueue: nobody else has the branch, and the task is new.               *)
LEMMA EnqueueInv ==
  ASSUME Inv, NEW a \in Agent, EnqueueWrites(a)
  PROVE  Inv' /\ Shaped
  <1> DEFINE c == cmd[a]
             new == NewRow(c.branch, c.head, c.approval, NextId, NextId)
  <1>1. c \in EnqueueCmd
    BY DEF EnqueueWrites, Inv, Types, Cmd, IdleCmd, EnqueueCmd, RetryCmd, SupersedeCmd
  <1>2. CASE Taken(c.branch, {}) \/ Len(row) >= MaxRows
    BY <1>2, RefusedInv DEF EnqueueWrites
  <1>3. CASE ~(Taken(c.branch, {}) \/ Len(row) >= MaxRows)
    <2>1. /\ row' = Append(row, new) /\ Ends(a) /\ UNCHANGED <<tip, config, claim, train>>
          /\ granted' = IF c.approval = None THEN granted
                        ELSE granted \cup {<<c.branch, c.approval>>}
      BY <1>3 DEF EnqueueWrites
    <2>2. Len(row) \in Nat /\ Ids = 1..Len(row)
      BY LenProperties DEF Inv, Types, Ids
    <2>3. new \in Row /\ <<new>> \in Seq(Row)
      BY <1>1, <2>2, NewRowType DEF EnqueueCmd, NextId
    <2>4. row' = row \o <<new>>
      BY <2>1, <2>3, AppendIsConcat DEF Inv, Types
    <2>5. /\ new.branch = c.branch /\ new.root = Len(row) + 1 /\ new.approval = c.approval
          /\ new.order = new.root /\ new.train = 0 /\ new.replaces = 0
      BY DEF NewRow, NextId
    <2>6. Fits(row, <<new>>)
      <3>1. \A j \in Ids : row[j].status \in Live => row[j].branch # c.branch
        BY <1>3 DEF Taken, Alive
      <3>2. \A j \in Ids : row[j].root # Len(row) + 1
        BY <2>2 DEF Inv, RootsOld
      <3>3. Placed(new)
        BY <2>2, <2>5 DEF Placed
      <3> HIDE DEF new, c
      <3> QED BY <2>2, <2>3, <2>5, <3>1, <3>2, <3>3, OneRow DEF Fits, Ids
    <2> HIDE DEF new, c
    <2>7. \A i \in DOMAIN <<new>> : <<new>>[i].approval # None
            => <<<<new>>[i].branch, <<new>>[i].approval>> \in granted'
      BY <2>1, <2>5, OneRow
    <2>8. granted \subseteq granted'
      BY <2>1
    <2> QED BY <2>1, <2>4, <2>6, <2>7, <2>8, QuietRow, WritesInv DEF Inv
  <1> QED BY <1>2, <1>3

(* retry: the row it retries was failed and is the only one of its task.   *)
LEMMA RetryInv ==
  ASSUME Inv, NEW a \in Agent, RetryWrites(a)
  PROVE  Inv' /\ Shaped
  <1> DEFINE c == cmd[a]
             j == c.job
             auto == Inherits(j, c) \/ c.renew
             new == NewRow(c.branch, c.head, IF auto THEN c.approval ELSE None,
                           PlaceOf(j), row[j].root)
             base == [row EXCEPT ![j] = [@ EXCEPT !.status = "canceled", !.retried = NextId]]
             no == ~Retryable(j) \/ Taken(c.branch, {j}) \/ Len(row) >= MaxRows
  <1>1. c \in RetryCmd /\ j \in Ids
    BY DEF RetryWrites, Inv, Types, Cmd, IdleCmd, EnqueueCmd, RetryCmd, SupersedeCmd
  <1>2. CASE no
    BY <1>2, RefusedInv DEF RetryWrites
  <1>3. CASE ~no
    <2>1. /\ row' = Append(base, new) /\ Ends(a) /\ UNCHANGED <<tip, config, claim, train>>
          /\ granted' = IF c.renew THEN granted \cup {<<c.branch, c.approval>>} ELSE granted
      BY <1>3 DEF RetryWrites
    <2>2. /\ Len(row) \in Nat /\ Ids = 1..Len(row)
          /\ \A k \in Ids : row[k] \in Row /\ row[k].root \in 1..k
      BY LenProperties, ElementOfSeq DEF Inv, Types, Ids, RootsOld
    <2>3. new \in Row /\ <<new>> \in Seq(Row)
      <3>1. PlaceOf(j) \in Nat /\ row[j].root \in Nat
        BY <1>1, <2>2, SMTT(20) DEF PlaceOf, NextId, Row
      <3>2. (IF auto THEN c.approval ELSE None) \in Approvals
        BY <1>1 DEF RetryCmd, Approvals
      <3>3. new \in Row
        <4> HIDE DEF auto
        <4> QED BY <1>1, <3>1, <3>2, NewRowType DEF RetryCmd
      <3> HIDE DEF new
      <3> QED BY <3>3
    <2>4. base \in [Ids -> Row]
      <3> DEFINE r == [row[j] EXCEPT !.status = "canceled", !.retried = NextId]
      <3>1. row \in [Ids -> Row]
        BY LenProperties DEF Inv, Types, Ids
      <3>2. r \in Row
        <4>1. row[j] \in Row /\ NextId \in Nat
          BY <1>1, <2>2 DEF NextId
        <4> HIDE DEF j
        <4> QED BY <4>1, CanceledType
      <3>3. base = [row EXCEPT ![j] = r]
        BY <1>1, <3>1 DEF Row
      <3> HIDE DEF r, base
      <3> QED BY <3>1, <3>2, <3>3
    <2>5. /\ \A k \in Ids \ {j} : base[k] = row[k]
          /\ base[j].status = "canceled" /\ base[j].branch = row[j].branch
          /\ base[j].root = row[j].root /\ base[j].approval = row[j].approval
          /\ base[j].order = row[j].order /\ base[j].replaces = row[j].replaces
          /\ base[j].train = row[j].train
      BY <1>1, <2>2, SMTT(20) DEF Row
    <2>6. row[j].status = "blocked" /\ ~Taken(c.branch, {j})
      BY <1>3 DEF Retryable
    <2>7. /\ new.branch = c.branch /\ new.root = row[j].root
          /\ new.approval = (IF auto THEN c.approval ELSE None)
          /\ new.order = PlaceOf(j) /\ new.train = 0 /\ new.replaces = 0
      BY DEF NewRow
    <2> HIDE DEF new, base
    <2>8. Quieter(base) /\ DOMAIN base = Ids
      <3> HIDE DEF j
      <3> QED BY <1>1, <2>4, <2>5, <2>6, Rewritten DEF Inv, Stands, Live
    <2>9. row' = base \o <<new>>
      BY <2>1, <2>3, <2>8, AppendIsConcat DEF Quieter
    <2>10. Fits(base, <<new>>)
      <3>1. \A k \in Ids : base[k].status \in Live => base[k].branch # c.branch
        BY <2>5, <2>6 DEF Taken, Alive, Live
      <3>2. \A k \in Ids : Stands(base[k]) => base[k].root # row[j].root
        <4> SUFFICES ASSUME NEW k \in Ids, Stands(base[k]), base[k].root = row[j].root
                     PROVE  FALSE
          OBVIOUS
        <4>1. k # j /\ base[k] = row[k]
          BY <2>5 DEF Stands, Live
        <4>2. {j, k} \subseteq Alive \cup InStatus("deployed")
          BY <1>1, <2>6, <4>1 DEF Alive, InStatus, Live, Stands
        <4> QED BY <4>1, <4>2 DEF Inv, RunsOnce, OneRowPerTask
      <3>3. row[j].root \in 1..(Len(base) + 1)
        BY <1>1, <2>2, <2>8 DEF Quieter
      <3>4. Placed(new)
        BY <1>1, <2>6, <2>7 DEF Placed, PlaceOf, Alive, Live
      <3> HIDE DEF c
      <3> QED BY <2>3, <2>7, <2>8, <3>1, <3>2, <3>3, <3>4, OneRow DEF Fits
    <2>11. new.approval # None => <<new.branch, new.approval>> \in granted'
      BY <1>1, <2>1, <2>7 DEF Inherits, Inv, AutoGranted
    <2>12. granted \subseteq granted'
      BY <2>1
    <2>13. \A i \in DOMAIN <<new>> : <<new>>[i].approval # None
            => <<<<new>>[i].branch, <<new>>[i].approval>> \in granted'
      BY <2>11, OneRow
    <2> QED BY <2>1, <2>8, <2>9, <2>10, <2>12, <2>13, WritesInv
  <1> QED BY <1>2, <1>3

-----------------------------------------------------------------------------
(* The replacements of a supersede have a branch and a place each.         *)
LEMMA SetToSeqIsInjective ==
  ASSUME NEW S, IsFiniteSet(S)
  PROVE  /\ SetToSeq(S) \in [1..Cardinality(S) -> S] /\ Cardinality(S) \in Nat
         /\ \A i, k \in 1..Cardinality(S) : SetToSeq(S)[i] = SetToSeq(S)[k] => i = k
  <1>1. PICK f \in Bijection(1..Cardinality(S), S) : TRUE
    BY FS_CardinalityType DEF ExistsBijection
  <1>2. f \in [1..Cardinality(S) -> S] /\ IsInjective(f)
    BY DEF Bijection, Injection, IsInjective
  <1>3. SetToSeq(S) \in [1..Cardinality(S) -> S] /\ IsInjective(SetToSeq(S))
    BY <1>2 DEF SetToSeq
  <1> QED BY <1>3, FS_CardinalityType DEF IsInjective

LEMMA RowsFit ==
  ASSUME Inv, IsFiniteSet(Branch), NEW t \in Nat, NEW B \in SUBSET Branch, NEW h \in [B -> Nat],
         NEW base, Quieter(base), DOMAIN base = Ids, Retired(base, t),
         \A j \in Ids : \A b \in B : base[j].status \in Live => base[j].branch # b
  PROVE  /\ Fits(base, Rows(t, h))
         /\ \A i \in DOMAIN Rows(t, h) : Rows(t, h)[i].approval = None
  <1> DEFINE order == SetToSeq(B)
             n == Cardinality(B)
             extra == Rows(t, h)
             new(i) == [NewRow(order[i], h[order[i]], None, Len(row) + i, Len(row) + i)
                          EXCEPT !.replaces = t]
  <1>1. /\ order \in [1..n -> B] /\ n \in Nat
        /\ \A i, k \in 1..n : order[i] = order[k] => i = k
    BY FS_Subset, SetToSeqIsInjective
  <1>2. Len(row) \in Nat /\ Ids = 1..Len(row)
    BY LenProperties DEF Inv, Types, Ids
  <1> HIDE DEF order, n
  <1>3. ASSUME NEW i \in 1..n
        PROVE  /\ new(i) \in Row /\ new(i).branch = order[i] /\ new(i).root = Len(row) + i
               /\ new(i).approval = None /\ new(i).order = Len(row) + i
               /\ new(i).train = 0 /\ new(i).replaces = t
    <2>1. NewRow(order[i], h[order[i]], None, Len(row) + i, Len(row) + i) \in Row
      <3>1. order[i] \in Branch /\ h[order[i]] \in Nat
        BY <1>1
      <3>2. None \in Approvals /\ Len(row) + i \in Nat
        BY <1>1, <1>2 DEF Approvals
      <3> QED BY <3>1, <3>2, NewRowType
    <2> QED BY <2>1 DEF Row, NewRow
  <1>4. extra = [i \in 1..n |-> new(i)]
    BY <1>1 DEF Rows, order
  <1> HIDE DEF extra, new
  <1>5. DOMAIN extra = 1..n /\ \A i \in 1..n : extra[i] = new(i)
    BY <1>4
  <1>6. extra \in Seq(Row)
    BY <1>1, <1>3, <1>4
  <1>7. \A j \in Ids : base[j].root \in 1..Len(row)
    BY <1>2 DEF Inv, RootsOld, Quieter
  <1>8. Fits(base, extra)
    <2>1. ASSUME NEW i \in 1..n, NEW j \in Ids
          PROVE  /\ base[j].status \in Live => base[j].branch # extra[i].branch
                 /\ base[j].root # extra[i].root
      BY <1>1, <1>2, <1>3, <1>5, <1>7
    <2>2. ASSUME NEW i \in 1..n, NEW k \in 1..n \ {i}
          PROVE  extra[k].branch # extra[i].branch /\ extra[k].root # extra[i].root
      BY <1>1, <1>2, <1>3, <1>5
    <2>3. \A i \in 1..n : extra[i].root \in 1..(Len(base) + i)
      BY <1>1, <1>2, <1>3, <1>5 DEF Quieter
    <2>4. \A i \in 1..n : /\ Placed(extra[i]) /\ extra[i].train = 0
                          /\ extra[i].replaces = t
      BY <1>1, <1>2, <1>3, <1>5 DEF Placed
    <2> QED BY <1>5, <1>6, <2>1, <2>2, <2>3, <2>4 DEF Fits
  <1> QED BY <1>3, <1>5, <1>8 DEF extra

(* supersede: the whole train is canceled, and no other row has a branch   *)
(* of the replacements.                                                    *)
LEMMA SupersedeInv ==
  ASSUME Inv, IsFiniteSet(Branch), NEW a \in Agent, SupersedeWrites(a)
  PROVE  Inv' /\ Shaped
  <1> DEFINE c == cmd[a]
             t == c.train
             B == DOMAIN c.heads
             no == \/ LockActive \/ ~WhollyValidated(t)
                   \/ \E b \in B : Taken(b, Members(t))
                   \/ Len(row) + Cardinality(B) > MaxRows
             base == [j \in Ids |->
                        IF j \in Members(t) /\ row[j].status = "validated"
                        THEN [row[j] EXCEPT !.status = "canceled", !.retired = NextId]
                        ELSE row[j]]
  <1>1. c \in SupersedeCmd
    <2>1. cmd[a].kind = "supersede" /\ cmd[a] \in Cmd
      BY DEF SupersedeWrites, Inv, Types
    <2> QED BY <2>1 DEF Cmd, IdleCmd, EnqueueCmd, RetryCmd
  <1>2. t \in Nat /\ B \in SUBSET Branch /\ c.heads \in [B -> Nat]
    BY <1>1 DEF SupersedeCmd
  <1>3. CASE no
    BY <1>3, RefusedInv DEF SupersedeWrites
  <1>4. CASE ~no
    <2>1. /\ row' = base \o Rows(t, c.heads) /\ Ends(a)
          /\ UNCHANGED <<tip, config, claim, train, granted>>
      BY <1>4 DEF SupersedeWrites
    <2>2. /\ Len(row) \in Nat /\ \A k \in Ids : row[k] \in Row
      BY LenProperties, ElementOfSeq DEF Inv, Types, Ids
    <2>3. base \in [Ids -> Row]
      <3>1. NextId \in Nat
        BY <2>2 DEF NextId
      <3>2. ASSUME NEW j \in Ids PROVE [row[j] EXCEPT !.status = "canceled", !.retired = NextId] \in Row
        BY <2>2, <3>1, CanceledType
      <3> QED BY <2>2, <3>2
    <2>4. ASSUME NEW j \in Ids
          PROVE  /\ base[j].branch = row[j].branch /\ base[j].root = row[j].root
                 /\ base[j].approval = row[j].approval
                 /\ base[j].status = IF j \in Members(t) /\ row[j].status = "validated"
                                     THEN "canceled" ELSE row[j].status
                 /\ base[j].order = row[j].order /\ base[j].replaces = row[j].replaces
                 /\ base[j].train = row[j].train
                 /\ row[j].status # "validated" => base[j] = row[j]
                 /\ j \in Members(t) /\ row[j].status = "validated" => base[j].retired = NextId
      BY <2>2 DEF Row
    <2> HIDE DEF base
    <2>5. Quieter(base) /\ DOMAIN base = Ids
      BY <2>3, <2>4, Rewritten DEF Inv, Stands, Live
    <2>6. ASSUME NEW j \in Ids, NEW b \in B, base[j].status \in Live
          PROVE  base[j].branch # b
      BY <1>4, <2>4, <2>6 DEF WhollyValidated, Taken, Alive, Live
    <2>8. Retired(base, t)
      <3>1. claim = {} /\ claim' = {} /\ WhollyValidated(t)
        BY <1>4, <2>1 DEF LockActive
      <3>2. NextId # 0
        BY <2>2 DEF NextId
      <3> HIDE DEF t
      <3> QED BY <3>1, <3>2, <2>4 DEF Retired, WhollyValidated, Members
    <2> HIDE DEF B
    <2>7. /\ Fits(base, Rows(t, c.heads))
          /\ \A i \in DOMAIN Rows(t, c.heads) : Rows(t, c.heads)[i].approval = None
      <3> HIDE DEF c, t
      <3> QED BY <1>2, <2>5, <2>6, <2>8, RowsFit
    <2> HIDE DEF c, t
    <2> QED BY <2>1, <2>5, <2>7, WritesInv
  <1> QED BY <1>3, <1>4

-----------------------------------------------------------------------------
(* The runner and the operator change statuses.                            *)

LEMMA StatusInv ==
  ASSUME Inv, Quieter(row'), UNCHANGED <<tip, config, cmd, granted>>,
         claim' \subseteq Ids, train' \in [id : Nat, size : Nat]
  PROVE  Inv' /\ Shaped
  <1>1. row' \in Seq(Row) /\ Ids = Ids' /\ Shaped /\ RootsOld' /\ RunsOnce' /\ AutoGranted'
    BY Updated
  <1>2. Types'
    BY <1>1 DEF Inv, Types
  <1> QED BY <1>1, <1>2 DEF Inv

LEMMA DropInv ==
  ASSUME Inv, NEW j \in Ids, Drop(j)
  PROVE  Inv' /\ Shaped
  <1> DEFINE S == IF row[j].status = "validated"
                  THEN {k \in Members(row[j].train) : row[k].status = "validated"}
                  ELSE {j}
  <1>1. row' = SetStatus(S, "canceled") /\ UNCHANGED <<tip, config, cmd, claim, train, granted>>
    BY DEF Drop
  <1>2. \A k \in S : row[k].status # "canceled"
    BY DEF Drop
  <1> HIDE DEF S
  <1>3. Quieter(SetStatus(S, "canceled"))
    BY <1>2, SetAllType DEF Inv, Live
  <1> QED BY <1>1, <1>3, StatusInv DEF Inv, Types

LEMMA ClaimsInv ==
  ASSUME Inv, NEW S \in SUBSET Alive, Claims(S)
  PROVE  Inv' /\ Shaped
  <1>1. /\ row' = SetStatus(S, "in_progress") /\ claim' = S /\ train' = [train EXCEPT !.size = 0]
        /\ UNCHANGED <<tip, config, cmd, granted>>
    BY DEF Claims
  <1>2. Quieter(SetStatus(S, "in_progress"))
    BY SetAllType DEF Inv, Live, Alive
  <1> QED BY <1>1, <1>2, StatusInv DEF Inv, Types, Alive

LEMMA ClaimQueuedInv ==
  ASSUME Inv, ClaimQueued
  PROVE  Inv' /\ Shaped
  <1>1. InStatus("queued") \subseteq Alive /\ HeadOf(InStatus("queued")) \subseteq Alive
    BY DEF InStatus, HeadOf, Alive, Live
  <1> QED BY <1>1, ClaimsInv DEF ClaimQueued

LEMMA ClaimTrainInv ==
  ASSUME Inv, NEW t, ClaimTrain(t)
  PROVE  Inv' /\ Shaped
  <1>1. Members(t) \subseteq Alive /\ HeadOf(Members(t)) \subseteq Alive
    BY DEF ClaimTrain, WhollyValidated, Members, HeadOf, Alive, Live
  <1> QED BY <1>1, ClaimsInv DEF ClaimTrain

(* One row's outcome.                                                      *)
LEMMA OneRowInv ==
  ASSUME Inv, NEW j \in Ids, Mine(j), NEW r \in Row, row' = [row EXCEPT ![j] = r],
         r.branch = row[j].branch, r.root = row[j].root, r.approval = row[j].approval,
         r.order = row[j].order, r.replaces = row[j].replaces,
         r.train = row[j].train \/ (r.train = train'.id /\ Records),
         Leaves, UNCHANGED <<tip, config, cmd, granted>>, train' \in [id : Nat, size : Nat]
  PROVE  Inv' /\ Shaped
  <1>1. row \in [Ids -> Row]
    BY LenProperties DEF Inv, Types, Ids
  <1>2. row' \in [Ids -> Row] /\ row'[j] = r /\ \A k \in Ids \ {j} : row'[k] = row[k]
    BY <1>1
  <1>3. Quieter(row')
    BY <1>1, <1>2, Rewritten DEF Inv, Stands, Live, Mine
  <1>4. claim' \subseteq Ids
    BY DEF Leaves, Inv, Types
  <1> QED BY <1>3, <1>4, StatusInv

LEMMA RecordInv ==
  ASSUME Inv, NEW j \in Ids, Record(j)
  PROVE  Inv' /\ Shaped
  <1> DEFINE S == {k \in claim : Mine(k)}
             r == [row[j] EXCEPT !.status = "validated", !.train = train'.id, !.size = train'.size]
  <1>1. row \in [Ids -> Row] /\ row[j] \in Row /\ Len(row) \in Nat /\ Ids = 1..Len(row)
    BY LenProperties DEF Inv, Types, Ids
  <1>2. IsFiniteSet(S)
    <2>1. S \subseteq 1..Len(row)
      BY <1>1 DEF Inv, Types
    <2>2. IsFiniteSet(1..Len(row))
      BY <1>1, FS_Interval
    <2> HIDE DEF S
    <2> QED BY <2>1, <2>2, FS_Subset
  <1>3. Cardinality(S) \in Nat
    BY <1>2, FS_CardinalityType
  <1>4. train' = IF train.size > 0 THEN train ELSE [id |-> train.id + 1, size |-> Cardinality(S)]
    BY DEF Record
  <1> HIDE DEF S
  <1>5. train' \in [id : Nat, size : Nat]
    BY <1>3, <1>4 DEF Inv, Types
  <1>6. /\ r \in Row /\ r.branch = row[j].branch /\ r.root = row[j].root
        /\ r.approval = row[j].approval /\ r.order = row[j].order
        /\ r.replaces = row[j].replaces /\ r.train = train'.id
    BY <1>1, <1>5 DEF Row, Live
  <1>7. row' = [row EXCEPT ![j] = r]
    BY <1>1 DEF Record, Row
  <1>8. Records
    BY <1>4 DEF Records, Record, Mine
  <1> HIDE DEF r
  <1> QED BY <1>5, <1>6, <1>7, <1>8, OneRowInv DEF Record

LEMMA OutcomeInv ==
  ASSUME Inv, NEW j \in Ids, NEW s \in {"blocked", "deployed"}, Outcome(j, s)
  PROVE  Inv' /\ Shaped
  <1> DEFINE r == [row[j] EXCEPT !.status = s]
  <1>1. row \in [Ids -> Row] /\ row[j] \in Row
    BY LenProperties DEF Inv, Types, Ids
  <1>2. /\ r \in Row /\ r.branch = row[j].branch /\ r.root = row[j].root
        /\ r.approval = row[j].approval /\ r.order = row[j].order
        /\ r.replaces = row[j].replaces /\ r.train = row[j].train
    BY <1>1 DEF Row, Live
  <1>3. row' = [row EXCEPT ![j] = r]
    BY <1>1 DEF Outcome, Row
  <1>4. train' \in [id : Nat, size : Nat] /\ UNCHANGED <<tip, config, cmd, granted>>
    BY DEF Outcome, Inv, Types
  <1> HIDE DEF r
  <1> QED BY <1>2, <1>3, <1>4, OneRowInv DEF Outcome

LEMMA RecoverInv ==
  ASSUME Inv, RecoverOrphans
  PROVE  Inv' /\ Shaped
  <1>1. row \in [Ids -> Row]
    BY LenProperties DEF Inv, Types, Ids
  <1>2. row' = [j \in Ids |-> IF row[j].status = "in_progress"
                              THEN [row[j] EXCEPT !.status = "queued", !.train = 0, !.size = 0]
                              ELSE row[j]]
    BY DEF RecoverOrphans
  <1>3. row' \in [Ids -> Row]
    <2>1. ASSUME NEW r \in Row
          PROVE  [r EXCEPT !.status = "queued", !.train = 0, !.size = 0] \in Row
      BY DEF Row, Live
    <2> QED BY <1>1, <1>2, <2>1
  <1>4. ASSUME NEW j \in Ids
        PROVE  /\ row'[j].branch = row[j].branch /\ row'[j].root = row[j].root
               /\ row'[j].approval = row[j].approval
               /\ row'[j].order = row[j].order /\ row'[j].replaces = row[j].replaces
               /\ row'[j].train \in {0, row[j].train}
               /\ row[j].status \notin Live => row'[j] = row[j]
    BY <1>1, <1>2 DEF Row, Live
  <1>5. Quieter(row')
    <2>1. ASSUME NEW j \in Ids
          PROVE  /\ row'[j].status \in Live => row[j].status \in Live
                 /\ Stands(row'[j]) => Stands(row[j])
                 /\ row[j].status = "canceled" => row'[j] = row[j]
                 /\ row'[j].status = "deployed" => row[j].status = "deployed"
      BY <1>1, <1>2 DEF Row, Stands, Live
    <2> QED BY <1>3, <1>4, <2>1, Rewritten DEF Inv
  <1> QED BY <1>5, StatusInv DEF RecoverOrphans, Inv, Types

(* Agents commit, humans edit the config, a runner dies.                   *)
LEMMA AroundInv ==
  ASSUME Inv, UNCHANGED <<row, cmd, train, granted>>, claim' \subseteq claim,
         tip' \in [Branch -> Nat], config' \in Approval
  PROVE  Inv' /\ Shaped
  <1>1. Types'
    BY DEF Inv, Types, Ids
  <1>2. RootsOld' /\ RunsOnce' /\ AutoGranted'
    BY DEF Inv, RootsOld, RunsOnce, OneActivePerBranch, OneRowPerTask, AutoGranted, Ids,
           Alive, InStatus
  <1> QED BY <1>1, <1>2, SameShaped DEF Inv

-----------------------------------------------------------------------------
LEMMA InitInv ==
  ASSUME TrainQueueAssumption, Init
  PROVE  Inv
  <1>1. row \in Seq(Row) /\ Ids = {}
    BY EmptySeq DEF Init, Ids
  <1>2. config \in Approval
    BY DEF Init, TrainQueueAssumption
  <1>3. cmd \in [Agent -> Cmd] /\ \A a \in Agent : cmd[a].kind # "retry"
    BY DEF Init, Cmd, IdleCmd
  <1>4. Types
    BY <1>1, <1>2, <1>3 DEF Init, Types
  <1> QED BY <1>1, <1>4 DEF Inv, RootsOld, RunsOnce, OneActivePerBranch, OneRowPerTask, AutoGranted,
                           Alive, InStatus

LEMMA NextInv ==
  ASSUME TrainQueueAssumption, Inv, [Next]_vars
  PROVE  Inv' /\ Shaped
  <1>1. ASSUME NEW b \in Branch, Commit(b) PROVE Inv' /\ Shaped
    BY <1>1, AroundInv DEF Commit, Inv, Types
  <1>2. ASSUME NEW c \in Approval, EditConfig(c) PROVE Inv' /\ Shaped
    BY <1>2, AroundInv DEF EditConfig, Inv, Types
  <1>3. ASSUME NEW a \in Agent, NEW b \in Branch, NEW auto \in BOOLEAN, EnqueueReads(a, b, auto)
        PROVE  Inv' /\ Shaped
    BY <1>3, EnqueueReadsInv
  <1>4. ASSUME NEW a \in Agent, NEW j \in Ids, NEW b \in Branch, NEW renew \in BOOLEAN,
               RetryReads(a, j, b, renew)
        PROVE  Inv' /\ Shaped
    BY <1>4, RetryReadsInv
  <1>5. ASSUME NEW a \in Agent, NEW t \in 1..MaxRows, NEW B \in (SUBSET Branch) \ {{}},
               SupersedeReads(a, t, B)
        PROVE  Inv' /\ Shaped
    BY <1>5, SupersedeReadsInv DEF TrainQueueAssumption
  <1>6. ASSUME NEW a \in Agent, EnqueueWrites(a) \/ RetryWrites(a) \/ SupersedeWrites(a)
        PROVE  Inv' /\ Shaped
    BY <1>6, EnqueueInv, RetryInv, SupersedeInv DEF TrainQueueAssumption
  <1>7. CASE ClaimQueued
    BY <1>7, ClaimQueuedInv
  <1>8. CASE Die
    BY <1>8, AroundInv DEF Die, Inv, Types
  <1>9. CASE RecoverOrphans
    BY <1>9, RecoverInv
  <1>10. ASSUME NEW t \in 1..MaxRows, ClaimTrain(t) PROVE Inv' /\ Shaped
    BY <1>10, ClaimTrainInv
  <1>11. ASSUME NEW j \in Ids, Drop(j) \/ Record(j) PROVE Inv' /\ Shaped
    BY <1>11, DropInv, RecordInv
  <1>12. ASSUME NEW j \in Ids, NEW s \in {"blocked", "deployed"}, Outcome(j, s) PROVE Inv' /\ Shaped
    BY <1>12, OutcomeInv
  <1>13. CASE UNCHANGED vars
    BY <1>13, AroundInv DEF vars, Inv, Types
  <1> QED BY <1>1, <1>2, <1>3, <1>4, <1>5, <1>6, <1>7, <1>8, <1>9, <1>10, <1>11, <1>12, <1>13
          DEF Next

(* How the runner's claim and its train move on.                           *)
ClaimMoves ==
  /\ claim' \subseteq Ids
  /\ Ordered => \A j \in claim', k \in Alive : row[j].order <= row[k].order
  /\ train'.id \in {train.id, train.id + 1}
  /\ claim' # {} /\ train'.size > 0 /\ train'.id = train.id => claim # {} /\ train.size > 0

(* The heads of the queue stay its heads: whatever comes later is placed   *)
(* after them, and an ordered task has the place of its first row.         *)
InOrder == Ordered => /\ \A j \in Ids : row[j].order = row[j].root
                      /\ \A j \in claim, k \in Alive : row[j].order <= row[k].order

(* A train that was replaced has its number for itself: the runner records *)
(* into a later one.                                                       *)
History ==
  /\ \A j \in Ids : row[j].train <= train.id /\ row[j].replaces <= train.id
  /\ claim # {} /\ train.size > 0
       => \A j \in Ids : row[j].replaces # 0 => row[j].replaces # train.id
  /\ ReplacesRetired

OldOrNew(base, extra) ==
  \A j \in Ids' : \/ j \in Ids /\ row'[j] = base[j]
                 \/ \E i \in DOMAIN extra : row'[j] = extra[i]

LEMMA ShapedRows ==
  ASSUME Inv, NEW base, NEW extra, Quieter(base), Fits(base, extra), row' = base \o extra
  PROVE  /\ OldOrNew(base, extra)
         /\ \A j \in Ids : row'[j] = base[j]
  <1>1. base \in Seq(Row) /\ extra \in Seq(Row) /\ DOMAIN base = Ids
    BY LenProperties DEF Inv, Types, Quieter, Fits, Ids
  <1>2. ASSUME NEW j \in DOMAIN (base \o extra)
        PROVE  \/ j \in Ids /\ (base \o extra)[j] = base[j]
               \/ \E i \in DOMAIN extra : (base \o extra)[j] = extra[i]
    BY <1>1, <1>2, Concatenated
  <1>3. \A j \in Ids : (base \o extra)[j] = base[j]
    BY <1>1, ConcatProperties, LenProperties
  <1> QED BY <1>2, <1>3 DEF Ids, OldOrNew

LEMMA HistoryKept ==
  ASSUME Inv, Inv', History, Shaped, ClaimMoves
  PROVE  History'
  <1>1. PICK base, extra : Quieter(base) /\ Fits(base, extra) /\ row' = base \o extra
    BY DEF Shaped
  <1>2. \A j \in Ids' : \/ j \in Ids /\ row'[j] = base[j]
                        \/ \E i \in DOMAIN extra : row'[j] = extra[i]
    <2>1. OldOrNew(base, extra)
      BY <1>1, ShapedRows
    <2> QED BY <2>1 DEF OldOrNew
  <1>3. /\ train.id \in Nat /\ train'.id \in {train.id, train.id + 1}
        /\ \A j \in Ids : row[j].train \in Nat /\ row[j].replaces \in Nat
    <2>1. \A j \in Ids : row[j] \in Row
      BY ElementOfSeq, LenProperties DEF Inv, Types, Ids
    <2> QED BY <2>1 DEF ClaimMoves, Inv, Types, Row
  <1>4. ASSUME NEW j \in Ids'
        PROVE  row'[j].train <= train'.id /\ row'[j].replaces <= train'.id
    <2>1. CASE j \in Ids /\ row'[j] = base[j]
      <3>1. /\ base[j].replaces = row[j].replaces
            /\ base[j].train \in {0, row[j].train, train'.id}
        BY <1>1, <2>1 DEF Quieter
      <3>2. row[j].train <= train.id /\ row[j].replaces <= train.id
        BY <2>1 DEF History
      <3> QED BY <1>3, <2>1, <3>1, <3>2
    <2>2. CASE \E i \in DOMAIN extra : row'[j] = extra[i]
      <3>1. row'[j].train = 0 /\ (row'[j].replaces # 0 => \E k \in Ids : row[k].train = row'[j].replaces)
        BY <1>1, <2>2 DEF Fits, Retired
      <3> QED BY <1>3, <3>1 DEF History
    <2> QED BY <1>2, <2>1, <2>2
  <1>5. ASSUME claim' # {}, train'.size > 0, NEW j \in Ids', row'[j].replaces # 0
        PROVE  row'[j].replaces # train'.id
    <2>1. CASE j \in Ids /\ row'[j] = base[j]
      <3>1. row[j].replaces = row'[j].replaces
        BY <1>1, <2>1 DEF Quieter
      <3>2. CASE train'.id = train.id
        BY <1>5, <2>1, <3>1, <3>2 DEF ClaimMoves, History
      <3>3. CASE train'.id = train.id + 1
        BY <1>3, <2>1, <3>1, <3>3 DEF History
      <3> QED BY <1>3, <3>2, <3>3
    <2>2. CASE \E i \in DOMAIN extra : row'[j] = extra[i]
      BY <1>1, <1>5, <2>2 DEF Fits, Retired
    <2> QED BY <1>2, <2>1, <2>2
  <1>6. ASSUME NEW k \in Ids', NEW j \in Ids', row'[k].replaces # 0, row'[j].train = row'[k].replaces
        PROVE  row'[j].status = "canceled" /\ row'[j].retired # 0
    <2>1. j \in Ids /\ row'[j] = base[j]
      BY <1>1, <1>2, <1>6 DEF Fits
    <2>2. CASE k \in Ids /\ row'[k] = base[k]
      <3>1. row[k].replaces = row'[k].replaces /\ row[k].replaces <= train.id
        BY <1>1, <2>2 DEF Quieter, History
      <3>2. CASE base[j].train = row[j].train
        <4>1. row[j].status = "canceled" /\ row[j].retired # 0
          BY <1>6, <2>1, <2>2, <3>1, <3>2 DEF History, ReplacesRetired, Members
        <4> QED BY <1>1, <2>1, <4>1 DEF Quieter
      <3>3. CASE base[j].train = train'.id /\ Records
        <4>1. CASE train' = train /\ train.size > 0 /\ claim # {}
          BY <1>6, <2>1, <2>2, <3>1, <3>3, <4>1 DEF History
        <4>2. CASE train'.id = train.id + 1
          BY <1>3, <1>6, <2>1, <3>1, <3>3, <4>2
        <4> QED BY <3>3, <4>1, <4>2 DEF Records
      <3> QED BY <1>1, <1>6, <2>1, <3>2, <3>3 DEF Quieter
    <2>3. CASE \E i \in DOMAIN extra : row'[k] = extra[i]
      BY <1>1, <1>6, <2>1, <2>3 DEF Fits, Retired
    <2> QED BY <1>2, <2>2, <2>3
  <1>7. ReplacesRetired'
    BY <1>6 DEF ReplacesRetired, Members
  <1> QED BY <1>4, <1>5, <1>7 DEF History

LEMMA OrderKept ==
  ASSUME Inv, InOrder, Shaped, ClaimMoves, Inv'
  PROVE  InOrder' /\ (Ordered => LandsFirst)
  <1> SUFFICES ASSUME Ordered PROVE InOrder' /\ LandsFirst
    BY DEF InOrder
  <1>1. PICK base, extra : Quieter(base) /\ Fits(base, extra) /\ row' = base \o extra
    BY DEF Shaped
  <1>2. \A j \in Ids' : \/ j \in Ids /\ row'[j] = base[j]
                        \/ \E i \in DOMAIN extra : row'[j] = extra[i]
    <2>1. OldOrNew(base, extra)
      BY <1>1, ShapedRows
    <2> QED BY <2>1 DEF OldOrNew
  <1>3. /\ Len(row) \in Nat /\ Ids = 1..Len(row)
        /\ \A j \in Ids : row[j].order = row[j].root /\ row[j].root \in 1..Len(row)
    BY LenProperties DEF Inv, Types, RootsOld, Ids, InOrder
  <1>4. ASSUME NEW j \in Ids'
        PROVE  /\ row'[j].order = row'[j].root
               /\ \/ j \in Ids /\ row'[j].order = row[j].order
                                /\ (row'[j].status \in Live => j \in Alive)
                  \/ row'[j].order > Len(row)
                  \/ \E k \in Alive : row'[j].order = row[k].order
    <2>1. CASE j \in Ids /\ row'[j] = base[j]
      BY <1>1, <1>3, <2>1 DEF Quieter, Alive
    <2>2. CASE \E i \in DOMAIN extra : row'[j] = extra[i]
      <3>1. Placed(row'[j])
        BY <1>1, <2>2 DEF Fits
      <3> QED BY <1>3, <3>1 DEF Placed, Alive
    <2> QED BY <1>2, <2>1, <2>2
  <1>6. \A j \in Ids : row'[j] = base[j] /\ row'[j].order = row[j].order
    <2>1. \A j \in Ids : row'[j] = base[j]
      BY <1>1, ShapedRows
    <2>2. \A j \in Ids : base[j].order = row[j].order
      BY <1>1 DEF Quieter
    <2> QED BY <2>1, <2>2
  <1>5. ASSUME NEW j \in claim', NEW k \in Alive'
        PROVE  row'[j].order <= row'[k].order
    <2>1. k \in Ids' /\ row'[k].status \in Live
      BY DEF Alive
    <2>2. j \in Ids /\ \A m \in Alive : row[j].order <= row[m].order
      BY DEF ClaimMoves
    <2>3. CASE \E m \in Alive : row'[k].order = row[m].order
      <3>1. PICK m \in Alive : row'[k].order = row[m].order
        BY <2>3
      <3>2. j \in Ids /\ row[j].order <= row[m].order
        BY <2>2
      <3>3. row'[j].order = row[j].order
        BY <1>6, <3>2
      <3> QED BY <3>1, <3>2, <3>3
    <2>4. CASE row'[k].order > Len(row)
      <3>1. row'[j].order = row[j].order /\ row[j].order \in Nat /\ row[j].order <= Len(row)
        BY <1>3, <1>6, <2>2
      <3>2. row'[k].order \in Nat
        <4>1. row' \in Seq(Row)
          BY DEF Inv, Types
        <4>2. row'[k] \in Row
          BY <2>1, <4>1, ElementOfSeq, LenProperties DEF Ids
        <4> QED BY <4>2 DEF Row
      <3> QED BY <1>3, <2>4, <3>1, <3>2
    <2> QED BY <1>4, <2>1, <2>3, <2>4
  <1>7. LandsFirst
    <2> SUFFICES ASSUME NEW j \in Ids, row[j].status # "deployed", row'[j].status = "deployed",
                        NEW k \in Alive
                 PROVE  row[k].root >= row[j].root
      BY DEF LandsFirst
    <2>1. j \in claim
      BY <1>1, <1>6 DEF Quieter
    <2>2. row[j].order <= row[k].order /\ k \in Ids
      BY <2>1 DEF InOrder, Alive
    <2> QED BY <1>3, <2>2
  <1> QED BY <1>4, <1>5, <1>7 DEF InOrder
(* Nobody but a claiming runner adds to the claim, or changes the train.   *)
LEMMA ClaimKept ==
  ASSUME Inv, InOrder, claim' \subseteq claim, train' = train
  PROVE  ClaimMoves
  <1>1. train.id \in Nat /\ claim \subseteq Ids
    BY DEF Inv, Types
  <1> QED BY <1>1 DEF InOrder, ClaimMoves

LEMMA ClaimsMove ==
  ASSUME Inv, NEW S \in SUBSET Ids, Claims(S),
         Ordered => \A j \in S, k \in Alive : row[j].order <= row[k].order
  PROVE  ClaimMoves
  <1>1. claim' = S /\ train'.id = train.id /\ train'.size = 0
    BY DEF Claims, Inv, Types
  <1> QED BY <1>1 DEF ClaimMoves

LEMMA RecordMoves ==
  ASSUME Inv, InOrder, NEW j \in Ids, Record(j)
  PROVE  ClaimMoves
  <1>1. claim # {} /\ claim' \subseteq claim /\ claim \subseteq Ids /\ train.id \in Nat
    BY DEF Record, Mine, Leaves, Inv, Types
  <1>2. (train' = train /\ train.size > 0) \/ train'.id = train.id + 1
    BY DEF Record
  <1> QED BY <1>1, <1>2 DEF InOrder, ClaimMoves

LEMMA NextMoves ==
  ASSUME TrainQueueAssumption, Inv, InOrder, [Next]_vars
  PROVE  ClaimMoves
  <1>1. ASSUME NEW b \in Branch, Commit(b) PROVE ClaimMoves
    BY <1>1, ClaimKept DEF Commit
  <1>2. ASSUME NEW c \in Approval, EditConfig(c) PROVE ClaimMoves
    BY <1>2, ClaimKept DEF EditConfig
  <1>3. ASSUME NEW a \in Agent, NEW c, Reads(a, c) PROVE ClaimMoves
    BY <1>3, ClaimKept DEF Reads
  <1>4. ASSUME NEW a \in Agent, EnqueueWrites(a) \/ RetryWrites(a) \/ SupersedeWrites(a)
        PROVE  ClaimMoves
    BY <1>4, ClaimKept DEF EnqueueWrites, RetryWrites, SupersedeWrites
  <1>5. CASE ClaimQueued
    <2> DEFINE S == IF Ordered THEN HeadOf(InStatus("queued")) ELSE InStatus("queued")
    <2>1. S \in SUBSET Ids /\ Claims(S)
      BY <1>5 DEF ClaimQueued, HeadOf, InStatus
    <2>2. Ordered => \A j \in S, k \in Alive : row[j].order <= row[k].order
      BY DEF HeadOf
    <2> HIDE DEF S
    <2> QED BY <2>1, <2>2, ClaimsMove
  <1>6. ASSUME NEW t \in 1..MaxRows, ClaimTrain(t) PROVE ClaimMoves
    <2> DEFINE S == IF Ordered THEN HeadOf(Members(t)) ELSE Members(t)
    <2>1. S \in SUBSET Ids /\ Claims(S)
      BY <1>6 DEF ClaimTrain, HeadOf, Members
    <2>2. Ordered => \A j \in S, k \in Alive : row[j].order <= row[k].order
      BY DEF HeadOf
    <2> HIDE DEF S
    <2> QED BY <2>1, <2>2, ClaimsMove
  <1>7. CASE Die
    BY <1>7, ClaimKept DEF Die
  <1>8. CASE RecoverOrphans
    BY <1>8, ClaimKept DEF RecoverOrphans
  <1>9. ASSUME NEW j \in Ids, Drop(j) PROVE ClaimMoves
    BY <1>9, ClaimKept DEF Drop
  <1>10. ASSUME NEW j \in Ids, Record(j) PROVE ClaimMoves
    BY <1>10, RecordMoves
  <1>11. ASSUME NEW j \in Ids, NEW s \in {"blocked", "deployed"}, Outcome(j, s) PROVE ClaimMoves
    <2>1. claim' \subseteq claim /\ train' = train
      BY <1>11 DEF Outcome, Leaves
    <2> QED BY <2>1, ClaimKept
  <1>12. CASE UNCHANGED vars
    BY <1>12, ClaimKept DEF vars
  <1> QED BY <1>1, <1>2, <1>3, <1>4, <1>5, <1>6, <1>7, <1>8, <1>9, <1>10, <1>11, <1>12
          DEF Next, EnqueueReads, RetryReads, SupersedeReads

LEMMA InitHistory ==
  ASSUME Init
  PROVE  InOrder /\ History
  <1>1. Ids = {} /\ Alive = {} /\ claim = {}
    BY DEF Init, Ids, Alive
  <1> QED BY <1>1 DEF InOrder, History, ReplacesRetired

LEMMA NextHistory ==
  ASSUME TrainQueueAssumption, Inv, InOrder, History, [Next]_vars
  PROVE  InOrder' /\ History' /\ (Ordered => LandsFirst)
  <1>1. Inv' /\ Shaped
    BY NextInv
  <1>2. ClaimMoves
    BY NextMoves
  <1> QED BY <1>1, <1>2, HistoryKept, OrderKept

-----------------------------------------------------------------------------
(* However agents' commands overlap with each other and with a runner that *)
(* claims, records and dies, no branch has two rows to be run and no task  *)
(* is queued twice, or again after it landed.                              *)
THEOREM QueueRunsOnce ==
  ASSUME TrainQueueAssumption
  PROVE  Spec => []RunsOnce
  <1>1. Init => Inv
    BY InitInv
  <1>2. Inv /\ [Next]_vars => Inv'
    BY NextInv
  <1>3. Inv => RunsOnce
    BY DEF Inv
  <1> QED BY <1>1, <1>2, <1>3, PTL DEF Spec

(* No enqueue, retry or supersede makes an approval that no human gave for *)
(* the branch and for the destination and policy it names.                 *)
THEOREM QueueAutoGranted ==
  ASSUME TrainQueueAssumption
  PROVE  Spec => []AutoGranted
  <1>1. Init => Inv
    BY InitInv
  <1>2. Inv /\ [Next]_vars => Inv'
    BY NextInv
  <1>3. Inv => AutoGranted
    BY DEF Inv
  <1> QED BY <1>1, <1>2, <1>3, PTL DEF Spec

(* However supersedes overlap with a runner that records trains and dies,  *)
(* nothing of a train that has replacements is ever run, landed or Ready.  *)
THEOREM QueueReplacesRetired ==
  ASSUME TrainQueueAssumption
  PROVE  Spec => []ReplacesRetired
  <1>1. Init => Inv /\ InOrder /\ History
    BY InitInv, InitHistory
  <1>2. Inv /\ InOrder /\ History /\ [Next]_vars => (Inv /\ InOrder /\ History)'
    BY NextInv, NextHistory
  <1>3. History => ReplacesRetired
    BY DEF History
  <1> QED BY <1>1, <1>2, <1>3, PTL DEF Spec

(* With ordered processing, whatever retries there are, no step lands a    *)
(* task while an earlier one has a row to run.                             *)
THEOREM QueueLandsFirst ==
  ASSUME TrainQueueAssumption, Ordered
  PROVE  Spec => [][LandsFirst]_vars
  <1>1. Init => Inv /\ InOrder /\ History
    BY InitInv, InitHistory
  <1>2. Inv /\ InOrder /\ History /\ [Next]_vars => (Inv /\ InOrder /\ History)'
    BY NextInv, NextHistory
  <1>3. Inv /\ InOrder /\ History /\ [Next]_vars => [LandsFirst]_vars
    BY NextHistory
  <1> QED BY <1>1, <1>2, <1>3, PTL DEF Spec
=============================================================================
