---------------------------- MODULE CommandsProofs ----------------------------
(***************************************************************************)
(* What is proved of the parts that MCCommands puts side by side, for      *)
(* every value of its constants.  A behaviour is one of one part, so the   *)
(* invariant of the whole is the invariant of each part under `part`.      *)
(* Those of the queue and of gc are proved in TrainQueueProofs and in      *)
(* GcProofs.                                                               *)
(***************************************************************************)
EXTENDS MCCommands, Integers, SequenceTheorems, FiniteSetTheorems, TLAPS

-----------------------------------------------------------------------------
(***************************************************************************)
(* The hub.                                                                *)
(***************************************************************************)
(* The cardinality that Hub means is the one of the theorems.              *)
LEMMA HubCardinality ==
  ASSUME NEW S
  PROVE  Hub!Cardinality(S) = Cardinality(S) /\ Hub!IsFiniteSet(S) = IsFiniteSet(S)
  BY DEF Hub!Cardinality, Cardinality, Hub!IsFiniteSet, IsFiniteSet

(* Some member of the family includes no other.                            *)
HasSmallest(Fam) == \E A \in Fam : \A B \in Fam : B \subseteq A => B = A

(* A family of subsets of a finite set, if not empty, has a smallest       *)
(* member.                                                                 *)
LEMMA SmallestSubset ==
  ASSUME NEW S, IsFiniteSet(S), NEW Fam \in SUBSET SUBSET S, Fam # {}
  PROVE  HasSmallest(Fam)
<1>1. IsWellFoundedOn(StrictSubsetOrdering(S), SUBSET S)
  BY FS_StrictSubsetOrderingWellFounded, FS_FiniteSubsetsOfFinite
<1>2. PICK A \in Fam : \A B \in Fam : <<B, A>> \notin StrictSubsetOrdering(S)
  BY <1>1, WFMin
<1> QED
  BY <1>2 DEF StrictSubsetOrdering, HasSmallest

(* A finite set of naturals has a least member.                            *)
LEMMA LeastOf ==
  ASSUME NEW S, IsFiniteSet(S), S \subseteq Nat, S # {}
  PROVE  \E m \in S : \A n \in S : m <= n
<1> DEFINE Below(m) == {n \in S : n <= m}
<1>1. PICK Fam \in SUBSET SUBSET S :
        /\ Fam # {}
        /\ \A m \in S : Below(m) \in Fam
        /\ \A A \in Fam : \E m \in S : A = Below(m)
  <2> WITNESS {Below(m) : m \in S} \in SUBSET SUBSET S
  <2> QED
    OBVIOUS
<1>2. \A m, n \in S : n < m => m \notin Below(n) /\ m \in Below(m)
      /\ Below(n) \subseteq Below(m)
  <2> TAKE m, n \in S
  <2>1. m \in Nat /\ n \in Nat
    OBVIOUS
  <2>2. ASSUME n < m PROVE m \notin Below(n) /\ m \in Below(m)
    BY <2>1, <2>2
  <2>3. ASSUME n < m, NEW k \in Below(n) PROVE k \in Below(m)
    BY <2>1, <2>3
  <2> QED
    BY <2>2, <2>3
<1>3. PICK A \in Fam : \A B \in Fam : B \subseteq A => B = A
  <2>1. HasSmallest(Fam)
    BY <1>1, SmallestSubset
  <2> QED
    BY <2>1 DEF HasSmallest
<1>4. PICK m \in S : A = Below(m)
  BY <1>1
<1>5. ASSUME NEW n \in S PROVE ~(n < m)
  <2> HIDE DEF Below
  <2> QED
    BY <1>1, <1>2, <1>3, <1>4
<1> QED
  BY <1>5

(* And a greatest one.                                                     *)
LEMMA GreatestOf ==
  ASSUME NEW S, IsFiniteSet(S), S \subseteq Nat, S # {}
  PROVE  \E m \in S : \A n \in S : n <= m
<1> DEFINE Above(m) == {n \in S : m <= n}
<1>1. PICK Fam \in SUBSET SUBSET S :
        /\ Fam # {}
        /\ \A m \in S : Above(m) \in Fam
        /\ \A A \in Fam : \E m \in S : A = Above(m)
  <2> WITNESS {Above(m) : m \in S} \in SUBSET SUBSET S
  <2> QED
    OBVIOUS
<1>2. \A m, n \in S : m < n => m \notin Above(n) /\ m \in Above(m)
      /\ Above(n) \subseteq Above(m)
  <2> TAKE m, n \in S
  <2>1. m \in Nat /\ n \in Nat
    OBVIOUS
  <2>2. ASSUME m < n PROVE m \notin Above(n) /\ m \in Above(m)
    BY <2>1, <2>2
  <2>3. ASSUME m < n, NEW k \in Above(n) PROVE k \in Above(m)
    BY <2>1, <2>3
  <2> QED
    BY <2>2, <2>3
<1>3. PICK A \in Fam : \A B \in Fam : B \subseteq A => B = A
  <2>1. HasSmallest(Fam)
    BY <1>1, SmallestSubset
  <2> QED
    BY <2>1 DEF HasSmallest
<1>4. PICK m \in S : A = Above(m)
  BY <1>1
<1>5. ASSUME NEW n \in S PROVE ~(m < n)
  <2> HIDE DEF Above
  <2> QED
    BY <1>1, <1>2, <1>3, <1>4
<1> QED
  BY <1>5

-----------------------------------------------------------------------------
HubEntry == [path : Path, daemon : BOOLEAN]
HubWrite == [pc : {"write"}, path : Path, what : {"add", "daemon", "no-daemon", "remove"},
             read : Seq(HubEntry)]
HubKeys == SUBSET (Roots \cup Dbs)
HubSweep == [list : Seq(HubEntry), keys : Seq(HubKeys), next : Nat \ {0},
             running : SUBSET Nat, out : SUBSET Nat, dups : SUBSET Nat]

HubTypes ==
  /\ roster \in Seq(HubEntry) /\ Len(roster) <= MaxRoster
  /\ flock \in Agent \cup {Hub!Nobody} /\ cmd \in [Agent -> HubWrite \cup {Hub!Idle}]
  /\ readable \subseteq Path /\ Path \ Breakable \subseteq readable
  /\ loop \in {"top", "reading", "sweeping", "waiting", "stopped"} /\ stop \in BOOLEAN
  /\ sweep \in HubSweep /\ turns \subseteq Nat
  /\ wish \in [HubDirs -> {"none", "add", "daemon", "no-daemon", "remove"}]

(* Whoever has read the roster holds the lock, so it is still what it read.*)
HubLockOK ==
  \A c \in Agent : cmd[c] # Hub!Idle =>
    /\ flock = c /\ cmd[c].read = roster
    /\ cmd[c].what = "remove" \/ Len(roster) < MaxRoster

HubRunningOK ==
  /\ sweep.running \subseteq turns /\ IsFiniteSet(sweep.running)
  /\ Cardinality(sweep.running) <= Concurrency
  /\ loop # "sweeping" => sweep.running = {}

(* The keys that a path has whether its config loads or not, and the one   *)
(* that it has because its config always does.                             *)
HubKnown(keys, p) == Hub!RootOf(p) \in keys /\ (p \notin Breakable => Hub!DbOf(p) \in keys)

(* The keys are read before any turn; then the roster a sweep read says    *)
(* who has none, and whoever had one came before the next entry.           *)
HubSweepOK ==
  /\ loop = "reading" =>
       /\ turns = {}
       /\ \A k \in DOMAIN sweep.keys \cap DOMAIN sweep.list :
            HubKnown(sweep.keys[k], sweep.list[k].path)
  /\ \A i \in turns : i \in DOMAIN sweep.list /\ Hub!HasTurn(i) /\ i < sweep.next
  /\ loop # "reading" => \A i \in DOMAIN sweep.list : \A e \in Hub!ToSet(sweep.list) :
       Hub!SameQueue(e.path, sweep.list[i].path) /\ ~e.daemon => i \in sweep.out
  /\ loop # "reading" => \A i, k \in DOMAIN sweep.list :
       k < i /\ Hub!SameQueue(sweep.list[k].path, sweep.list[i].path) => i \in sweep.dups

HubInv ==
  /\ HubTypes /\ HubLockOK /\ HubRunningOK /\ HubSweepOK
  /\ Hub!OptOutKept /\ Hub!NoSweepAfterStop

-----------------------------------------------------------------------------
(* The place of i among the numbers of S.                                  *)
HubRank(S, i) == Cardinality({h \in S : h <= i})

LEMMA HubRankGrows ==
  ASSUME NEW S, IsFiniteSet(S), S \subseteq Nat, NEW i \in S, NEW j \in S, i < j
  PROVE  HubRank(S, i) < HubRank(S, j)
  <1> DEFINE A == {h \in S : h <= i}
             B == {h \in S : h <= j}
  <1>1. A \subseteq B /\ j \in B /\ j \notin A /\ B \subseteq S
    <2>1. i \in Nat /\ j \in Nat
      OBVIOUS
    <2>2. ASSUME NEW h \in A PROVE h <= j
      <3>1. h \in Nat /\ h <= i
        OBVIOUS
      <3> QED BY <2>1, <3>1
    <2>3. A \subseteq B
      BY <2>2
    <2>4. j \in B /\ j \notin A
      BY <2>1
    <2> QED BY <2>3, <2>4
  <1>2. IsFiniteSet(B)
    BY <1>1, FS_Subset
  <1> HIDE DEF A, B
  <1>3. Cardinality(A) <= Cardinality(B) /\ Cardinality(A) # Cardinality(B) /\ IsFiniteSet(A)
    BY <1>1, <1>2, FS_Subset
  <1>4. Cardinality(A) \in Nat /\ Cardinality(B) \in Nat
    BY <1>2, <1>3, FS_CardinalityType
  <1>5. Cardinality(A) < Cardinality(B)
    BY <1>3, <1>4
  <1> QED BY <1>5 DEF A, B, HubRank

LEMMA HubRankType ==
  ASSUME NEW S, IsFiniteSet(S), S \subseteq Nat, NEW i \in S
  PROVE  HubRank(S, i) \in 1..Cardinality(S)
  <1> DEFINE A == {h \in S : h <= i}
  <1>1. A \subseteq S /\ i \in A
    OBVIOUS
  <1> HIDE DEF A
  <1>2. IsFiniteSet(A) /\ Cardinality(A) <= Cardinality(S) /\ Cardinality(A) \in Nat
        /\ Cardinality(S) \in Nat
    BY <1>1, FS_Subset, FS_CardinalityType
  <1>3. Cardinality(A) # 0
    BY <1>1, <1>2, FS_EmptySet
  <1>4. Cardinality(A) \in 1..Cardinality(S)
    BY <1>2, <1>3
  <1> QED BY <1>4 DEF A, HubRank

(* Every place is taken: a smallest set of the lowest numbers with k or    *)
(* more members has k.                                                     *)
LEMMA HubRankOnto ==
  ASSUME NEW S, IsFiniteSet(S), S \subseteq Nat, NEW k \in 1..Cardinality(S)
  PROVE  \E i \in S : HubRank(S, i) = k
  <1> DEFINE Lowest(T) == \A t \in T : \A h \in S : h <= t => h \in T
             Fam == {T \in SUBSET S : Lowest(T) /\ Cardinality(T) >= k}
  <1>0. Cardinality(S) \in Nat /\ k \in Nat /\ k # 0
    BY FS_CardinalityType
  <1>1. S \in Fam /\ Fam \in SUBSET SUBSET S
    BY <1>0
  <1>2. PICK A \in Fam : \A B \in Fam : B \subseteq A => B = A
    <2>1. HasSmallest(Fam)
      BY <1>1, SmallestSubset
    <2> QED BY <2>1 DEF HasSmallest
  <1>3. /\ A \subseteq S /\ IsFiniteSet(A) /\ Cardinality(A) >= k /\ Cardinality(A) \in Nat
        /\ A \subseteq Nat
    BY <1>2, FS_Subset, FS_CardinalityType
  <1>4. A # {}
    BY <1>0, <1>3, FS_EmptySet
  <1>5. PICK m \in A : \A n \in A : n <= m
    BY <1>3, <1>4, GreatestOf
  <1>6. A = {h \in S : h <= m}
    BY <1>2, <1>3, <1>5
  <1>7. ~(Cardinality(A) > k)
    <2> SUFFICES ASSUME Cardinality(A) > k PROVE FALSE
      OBVIOUS
    <2>1. Cardinality(A \ {m}) = Cardinality(A) - 1
      BY <1>3, FS_RemoveElement
    <2>2. Cardinality(A \ {m}) >= k
      BY <1>0, <1>3, <2>1
    <2>3. Lowest(A \ {m})
      <3> SUFFICES ASSUME NEW t \in A \ {m}, NEW h \in S, h <= t PROVE h \in A \ {m}
        OBVIOUS
      <3>1. t \in Nat /\ m \in Nat /\ h \in Nat /\ t <= m
        BY <1>3, <1>5
      <3> QED BY <1>6, <3>1
    <2>4. A \ {m} \in Fam
      BY <1>3, <2>2, <2>3
    <2> QED BY <1>2, <2>4
  <1>8. Cardinality(A) = k
    BY <1>0, <1>3, <1>7
  <1> QED BY <1>3, <1>6, <1>8 DEF HubRank

-----------------------------------------------------------------------------
(* What remove_repo leaves: the entries of the other directories, no more. *)
LEMMA HubWithoutOK ==
  ASSUME NEW r \in Seq(HubEntry), NEW p
  PROVE  /\ Hub!Without(r, p) \in Seq(HubEntry) /\ Len(Hub!Without(r, p)) <= Len(r)
         /\ \A i \in DOMAIN r : ~Hub!SameDir(r[i].path, p) =>
              \E k \in DOMAIN Hub!Without(r, p) : Hub!Without(r, p)[k] = r[i]
  <1> DEFINE left == DOMAIN r \ Hub!Same(r, p)
             n == Cardinality(left)
             Nth(k) == CHOOSE i \in left : HubRank(left, i) = k
             w == [k \in 1..n |-> r[Nth(k)]]
  <1>1. Hub!Without(r, p) = w
    BY DEF Hub!Without, HubRank, Hub!Cardinality, Cardinality
  <1>2. Len(r) \in Nat /\ DOMAIN r = 1..Len(r) /\ \A i \in DOMAIN r : r[i] \in HubEntry
    OBVIOUS
  <1>3. left \subseteq 1..Len(r) /\ \A i \in DOMAIN r : ~Hub!SameDir(r[i].path, p) => i \in left
    BY <1>2 DEF Hub!Same
  <1>4. IsFiniteSet(1..Len(r)) /\ Cardinality(1..Len(r)) = Len(r)
    BY <1>2, FS_Interval
  <1>5. IsFiniteSet(left) /\ n <= Len(r) /\ n \in Nat
    BY <1>3, <1>4, FS_Subset, FS_CardinalityType
  <1>6. left \subseteq Nat
    BY <1>2, <1>3
  <1> HIDE DEF left
  <1>7. \A k \in 1..n : Nth(k) \in left /\ HubRank(left, Nth(k)) = k
    <2> TAKE k \in 1..n
    <2>1. \E i \in left : HubRank(left, i) = k
      BY <1>5, <1>6, HubRankOnto
    <2> QED BY <2>1
  <1> HIDE DEF Nth
  <1>8. w \in Seq(HubEntry) /\ Len(w) = n /\ DOMAIN w = 1..n
    <2>1. \A k \in 1..n : r[Nth(k)] \in HubEntry
      BY <1>2, <1>3, <1>7
    <2> QED BY <1>5, <2>1
  <1>9. ASSUME NEW i \in left PROVE \E k \in 1..n : w[k] = r[i]
    <2>1. HubRank(left, i) \in 1..n
      BY <1>5, <1>6, HubRankType
    <2> DEFINE k == HubRank(left, i)
               j == Nth(k)
    <2>2. j \in left /\ HubRank(left, j) = k
      BY <1>7, <2>1
    <2>3. ~(i < j) /\ ~(j < i)
      <3>1. i < j => HubRank(left, i) < HubRank(left, j)
        BY <1>5, <1>6, <2>2, HubRankGrows
      <3>2. j < i => HubRank(left, j) < HubRank(left, i)
        BY <1>5, <1>6, <2>2, HubRankGrows
      <3> QED BY <2>1, <2>2, <3>1, <3>2, <1>5
    <2>4. i \in Nat /\ j \in Nat
      BY <1>6, <2>2
    <2> HIDE DEF j
    <2>5. i = j
      BY <2>3, <2>4
    <2>6. w[k] = r[j] /\ k \in 1..n
      BY <2>1 DEF j
    <2> QED BY <2>5, <2>6
  <1> QED BY <1>1, <1>3, <1>5, <1>8, <1>9

(* The least of some entries of a directory.                               *)
LEMMA HubFirstOf ==
  ASSUME NEW r \in Seq(HubEntry), NEW p, Hub!Same(r, p) # {}
  PROVE  \E i \in Hub!Same(r, p) :
           i = CHOOSE k \in Hub!Same(r, p) : \A h \in Hub!Same(r, p) : k <= h
  <1>1. Len(r) \in Nat /\ DOMAIN r = 1..Len(r)
    OBVIOUS
  <1>2. Hub!Same(r, p) \subseteq 1..Len(r)
    BY <1>1 DEF Hub!Same
  <1>3. IsFiniteSet(1..Len(r)) /\ 1..Len(r) \subseteq Nat
    BY <1>1, FS_Interval
  <1>3a. IsFiniteSet(Hub!Same(r, p)) /\ Hub!Same(r, p) \subseteq Nat
    BY <1>2, <1>3, FS_Subset
  <1>4. \E k \in Hub!Same(r, p) : \A h \in Hub!Same(r, p) : k <= h
    BY <1>3a, LeastOf
  <1> QED BY <1>4

(* What add_repo leaves: every entry in its place, but for the flag of one *)
(* of the directory, or one more.  A bare add changes no flag that is      *)
(* there, and --no-daemon leaves an entry of the directory that is off.    *)
LEMMA HubWithOK ==
  ASSUME NEW r \in Seq(HubEntry), NEW p \in Path, NEW what \in {"add", "daemon", "no-daemon"},
         Hub!HubAssumption
  PROVE  /\ Hub!With(r, p, what) \in Seq(HubEntry) /\ Len(Hub!With(r, p, what)) <= Len(r) + 1
         /\ \A i \in DOMAIN r : what = "add" \/ ~Hub!SameDir(r[i].path, p) =>
              \E k \in DOMAIN Hub!With(r, p, what) : Hub!With(r, p, what)[k] = r[i]
         /\ what = "no-daemon" => \E k \in DOMAIN Hub!With(r, p, what) :
              Hub!SameDir(Hub!With(r, p, what)[k].path, p) /\ ~Hub!With(r, p, what)[k].daemon
  <1>1. Len(r) \in Nat /\ DOMAIN r = 1..Len(r) /\ \A i \in DOMAIN r : r[i] \in HubEntry
    OBVIOUS
  <1>2. CASE Hub!Same(r, p) = {}
    <2> DEFINE e == [path |-> p, daemon |-> Hub!Flag(TRUE, what)]
    <2>1. e \in HubEntry /\ e.path = p /\ (what = "no-daemon" => ~e.daemon)
      BY DEF HubEntry, Hub!Flag
    <2> HIDE DEF e
    <2>2. Hub!With(r, p, what) = Append(r, e)
      BY <1>2 DEF Hub!With, e
    <2>3. /\ Append(r, e) \in Seq(HubEntry) /\ Len(Append(r, e)) = Len(r) + 1
          /\ \A i \in 1..Len(r) : Append(r, e)[i] = r[i]
          /\ Append(r, e)[Len(r) + 1] = e
      BY <2>1, AppendProperties
    <2>4. DOMAIN Append(r, e) = 1..(Len(r) + 1)
      BY <2>3
    <2>5. Hub!SameDir(p, p)
      BY DEF Hub!SameDir, Hub!HubAssumption
    <2>6. Len(r) + 1 \in 1..(Len(r) + 1) /\ \A i \in 1..Len(r) : i \in 1..(Len(r) + 1)
      BY <1>1
    <2> QED BY <1>1, <2>1, <2>2, <2>3, <2>4, <2>5, <2>6
  <1>3. CASE Hub!Same(r, p) # {}
    <2> DEFINE i == CHOOSE k \in Hub!Same(r, p) : \A h \in Hub!Same(r, p) : k <= h
               w == [r EXCEPT ![i].daemon = Hub!Flag(@, what)]
    <2>1. i \in Hub!Same(r, p)
      BY <1>3, HubFirstOf
    <2>2. Hub!With(r, p, what) = w
      BY <1>3 DEF Hub!With
    <2> HIDE DEF i
    <2>3. i \in DOMAIN r /\ Hub!SameDir(r[i].path, p)
      BY <2>1 DEF Hub!Same
    <2>4. PICK e \in HubEntry : e = r[i]
      BY <1>1, <2>3
    <2> DEFINE f == [path |-> e.path, daemon |-> Hub!Flag(e.daemon, what)]
    <2>5. /\ f \in HubEntry /\ f.path = e.path /\ (what = "no-daemon" => ~f.daemon)
          /\ what = "add" => f = e
      BY <2>4 DEF HubEntry, Hub!Flag
    <2>6. w = [r EXCEPT ![i] = f]
      <3>1. [e EXCEPT !.daemon = Hub!Flag(e.daemon, what)] = f
        BY DEF HubEntry
      <3> QED BY <2>3, <2>4, <3>1
    <2> HIDE DEF f, w
    <2>7. /\ w \in Seq(HubEntry) /\ Len(w) = Len(r) /\ DOMAIN w = DOMAIN r /\ w[i] = f
          /\ \A k \in DOMAIN r : k # i => w[k] = r[k]
      BY <1>1, <2>3, <2>5, <2>6, ExceptSeq
    <2>8. Hub!SameDir(w[i].path, p) /\ (what = "no-daemon" => ~w[i].daemon)
          /\ (what = "add" => w[i] = r[i])
      BY <2>3, <2>4, <2>5, <2>7
    <2> QED BY <1>1, <2>2, <2>3, <2>7, <2>8
  <1> QED BY <1>2, <1>3

-----------------------------------------------------------------------------
(* A path is in one directory.                                             *)
LEMMA HubOneDir ==
  ASSUME Hub!HubAssumption, NEW p \in Path, NEW q \in Path
  PROVE  /\ Hub!DirOf(p) \in HubDirs /\ p \in Hub!DirOf(p)
         /\ \A D \in HubDirs : p \in D => D = Hub!DirOf(p)
         /\ Hub!SameDir(q, p) <=> q \in Hub!DirOf(p)
  <1>1. Hub!DirOf(p) \in HubDirs /\ p \in Hub!DirOf(p)
    BY DEF Hub!HubAssumption, Hub!DirOf
  <1>2. \A D \in HubDirs : p \in D => D = Hub!DirOf(p)
    BY <1>1 DEF Hub!HubAssumption
  <1> QED BY <1>1, <1>2 DEF Hub!SameDir

(* Each entry that says a queue is off is still there, or another of its   *)
(* directory that says so, or the wish has changed.                        *)
LEMMA HubWriteKeepsOptOuts ==
  ASSUME Hub!HubAssumption, HubTypes, Hub!OptOutKept, NEW p \in Path,
         NEW what \in {"add", "daemon", "no-daemon", "remove"}, NEW D \in HubDirs,
         what # "add" => D # Hub!DirOf(p), wish[D] = "no-daemon"
  PROVE  \E e \in Hub!ToSet(Hub!Edited(roster, p, what)) : e.path \in D /\ ~e.daemon
  <1> DEFINE w == Hub!Edited(roster, p, what)
  <1>1. PICK e \in Hub!ToSet(roster) : e.path \in D /\ ~e.daemon
    BY DEF Hub!OptOutKept
  <1>2. roster \in Seq(HubEntry) /\ \A i \in DOMAIN roster : roster[i] \in HubEntry
    BY DEF HubTypes
  <1>3. PICK i \in DOMAIN roster : e = roster[i]
    BY <1>1 DEF Hub!ToSet
  <1>4. e.path \in Path
    BY <1>2, <1>3 DEF HubEntry
  <1>5. what = "add" \/ ~Hub!SameDir(roster[i].path, p)
    BY <1>1, <1>3, <1>4, HubOneDir
  <1>6. \E k \in DOMAIN w : w[k] = roster[i]
    <2>1. CASE what = "remove"
      BY <1>2, <1>5, <2>1, HubWithoutOK DEF Hub!Edited
    <2>2. CASE what # "remove"
      <3>1. what \in {"add", "daemon", "no-daemon"} /\ w = Hub!With(roster, p, what)
        BY <2>2 DEF Hub!Edited
      <3>2. \A k \in DOMAIN roster : what = "add" \/ ~Hub!SameDir(roster[k].path, p) =>
              \E j \in DOMAIN Hub!With(roster, p, what) :
                Hub!With(roster, p, what)[j] = roster[k]
        BY <1>2, <3>1, HubWithOK
      <3> QED BY <1>5, <3>1, <3>2
    <2> QED BY <2>1, <2>2
  <1> HIDE DEF w
  <1>7. \E f \in Hub!ToSet(w) : f.path \in D /\ ~f.daemon
    BY <1>1, <1>3, <1>6 DEF Hub!ToSet
  <1> QED BY <1>7 DEF w

LEMMA HubStepReads ==
  ASSUME Hub!HubAssumption, HubInv, NEW c \in Agent, NEW p \in Path,
         NEW what \in {"add", "daemon", "no-daemon", "remove"}, Hub!CommandReads(c, p, what)
  PROVE  HubInv'
  <1> USE DEF HubInv, Hub!CommandReads, Hub!daemon
  <1>1. HubTypes'
    <2>1. [pc |-> "write", path |-> p, what |-> what, read |-> roster] \in HubWrite
      BY DEF HubTypes, HubWrite
    <2> QED BY <2>1 DEF HubTypes
  <1>2. HubLockOK'
    <2> SUFFICES ASSUME NEW d \in Agent, cmd'[d] # Hub!Idle
        PROVE  /\ flock' = d /\ cmd'[d].read = roster'
               /\ cmd'[d].what = "remove" \/ Len(roster') < MaxRoster
      BY DEF HubLockOK
    <2>1. CASE d = c
      BY <2>1 DEF HubTypes
    <2>2. CASE d # c
      BY <2>2 DEF HubTypes, HubLockOK, Hub!LockIsFree, Hub!HubAssumption
    <2> QED BY <2>1, <2>2
  <1>3. HubRunningOK' /\ HubSweepOK' /\ Hub!OptOutKept' /\ Hub!NoSweepAfterStop'
    BY DEF HubRunningOK, HubSweepOK, Hub!OptOutKept, Hub!NoSweepAfterStop, Hub!HasTurn
  <1> QED BY <1>1, <1>2, <1>3

LEMMA HubStepWrites ==
  ASSUME Hub!HubAssumption, HubInv, NEW c \in Agent, Hub!CommandWrites(c)
  PROVE  HubInv'
  <1> DEFINE p == cmd[c].path
             what == cmd[c].what
  <1>0. /\ cmd[c] # Hub!Idle /\ flock' = Hub!Nobody /\ cmd' = [cmd EXCEPT ![c] = Hub!Idle]
        /\ UNCHANGED <<readable, breaks, commands, loop, sweep, stop, turns, sweeps, lastSweep>>
        /\ roster' = Hub!Edited(cmd[c].read, p, what)
        /\ wish' = IF what = "add" THEN wish ELSE [wish EXCEPT ![Hub!DirOf(p)] = what]
    BY DEF Hub!CommandWrites, Hub!daemon
  <1>1. /\ p \in Path /\ what \in {"add", "daemon", "no-daemon", "remove"}
        /\ roster' = Hub!Edited(roster, p, what)
        /\ what = "remove" \/ Len(roster) < MaxRoster
        /\ cmd[c] \in HubWrite /\ flock = c
    BY <1>0 DEF HubInv, HubTypes, HubLockOK, HubWrite
  <1> HIDE DEF p, what
  <1>2. roster' \in Seq(HubEntry) /\ Len(roster') <= MaxRoster
    <2>1. roster \in Seq(HubEntry) /\ Len(roster) \in Nat /\ Len(roster) <= MaxRoster
          /\ MaxRoster \in Nat
      BY DEF HubInv, HubTypes, Hub!HubAssumption
    <2>2. CASE what = "remove"
      <3>1. Hub!Without(roster, p) \in Seq(HubEntry)
            /\ Len(Hub!Without(roster, p)) <= Len(roster)
        BY <2>1, HubWithoutOK
      <3>2. roster' = Hub!Without(roster, p)
        BY <1>1, <2>2 DEF Hub!Edited
      <3>3. Len(roster') \in Nat /\ Len(roster') <= Len(roster)
        BY <3>1, <3>2
      <3> QED BY <2>1, <3>1, <3>2, <3>3
    <2>3. CASE what # "remove"
      <3>1. Hub!With(roster, p, what) \in Seq(HubEntry)
            /\ Len(Hub!With(roster, p, what)) <= Len(roster) + 1
        BY <1>1, <2>1, <2>3, HubWithOK
      <3>2. roster' = Hub!With(roster, p, what)
        BY <1>1, <2>3 DEF Hub!Edited
      <3>3. Len(roster') \in Nat /\ Len(roster') <= Len(roster) + 1
        BY <3>1, <3>2
      <3> QED BY <1>1, <2>1, <2>3, <3>1, <3>2, <3>3
    <2> QED BY <2>2, <2>3
  <1>3. HubTypes'
    <2>1. wish' \in [HubDirs -> {"none", "add", "daemon", "no-daemon", "remove"}]
      BY <1>0, <1>1 DEF HubInv, HubTypes
    <2> QED BY <1>0, <1>2, <2>1 DEF HubInv, HubTypes
  <1>4. HubLockOK'
    <2>1. \A d \in Agent : d # c => cmd[d] = Hub!Idle
      BY <1>1 DEF HubInv, HubLockOK
    <2> QED BY <1>0, <2>1 DEF HubInv, HubTypes, HubLockOK
  <1>5. Hub!OptOutKept'
    <2> SUFFICES ASSUME NEW D \in HubDirs, wish'[D] = "no-daemon"
        PROVE  \E e \in Hub!ToSet(roster') : e.path \in D /\ ~e.daemon
      BY DEF Hub!OptOutKept
    <2>1. CASE what = "add" \/ D # Hub!DirOf(p)
      <3>1. wish[D] = "no-daemon"
        BY <1>0, <2>1 DEF HubInv, HubTypes
      <3> QED BY <1>1, <2>1, <3>1, HubWriteKeepsOptOuts DEF HubInv
    <2>2. CASE what # "add" /\ D = Hub!DirOf(p)
      <3>1. what = "no-daemon"
        BY <1>0, <2>2, <1>1, HubOneDir DEF HubInv, HubTypes
      <3>2. roster' = Hub!With(roster, p, what) /\ roster \in Seq(HubEntry)
        BY <1>1, <3>1 DEF Hub!Edited, HubInv, HubTypes
      <3>3. PICK k \in DOMAIN roster' : Hub!SameDir(roster'[k].path, p) /\ ~roster'[k].daemon
        <4>1. \E k \in DOMAIN Hub!With(roster, p, what) :
                Hub!SameDir(Hub!With(roster, p, what)[k].path, p)
                    /\ ~Hub!With(roster, p, what)[k].daemon
          BY <1>1, <3>1, <3>2, HubWithOK
        <4> QED BY <3>2, <4>1
      <3>4. roster'[k] \in HubEntry
        BY <1>2, <3>3
      <3>5. roster'[k].path \in D
        BY <1>1, <2>2, <3>3, <3>4, HubOneDir DEF HubEntry
      <3> QED BY <3>3, <3>5 DEF Hub!ToSet
    <2> QED BY <2>1, <2>2
  <1>6. HubRunningOK' /\ HubSweepOK' /\ Hub!NoSweepAfterStop'
    BY <1>0 DEF HubInv, HubRunningOK, HubSweepOK, Hub!NoSweepAfterStop, Hub!HasTurn
  <1> QED BY <1>3, <1>4, <1>5, <1>6 DEF HubInv

LEMMA HubStepDies ==
  ASSUME Hub!HubAssumption, HubInv, NEW c \in Agent, Hub!CommandDies(c)
  PROVE  HubInv'
  <1> USE DEF HubInv, Hub!CommandDies, Hub!daemon
  <1>1. \A d \in Agent : d # c => cmd[d] = Hub!Idle
    BY DEF HubLockOK
  <1> QED BY <1>1
             DEF HubTypes, HubLockOK, HubRunningOK, HubSweepOK, Hub!OptOutKept,
                 Hub!NoSweepAfterStop, Hub!HasTurn

LEMMA HubStepBreak ==
  ASSUME Hub!HubAssumption, HubInv, NEW p \in Path, Hub!Break(p)
  PROVE  HubInv'
  <1> USE DEF HubInv, Hub!Break, Hub!daemon, Hub!file
  <1>1. readable' \subseteq Path /\ Path \ Breakable \subseteq readable'
    BY DEF HubTypes
  <1> QED BY <1>1
             DEF HubTypes, HubLockOK, HubRunningOK, HubSweepOK, Hub!OptOutKept,
                 Hub!NoSweepAfterStop, Hub!HasTurn

(* Two paths that reach one queue share a key, if it can be seen that they *)
(* do.                                                                     *)
LEMMA HubKeysMeet ==
  ASSUME NEW p \in Path, NEW q \in Path, Hub!SameQueue(p, q),
         NEW S, NEW T, HubKnown(S, p), HubKnown(T, q)
  PROVE  S \cap T # {}
  BY DEF Hub!SameQueue, HubKnown

LEMMA HubKeysAre ==
  ASSUME Hub!HubAssumption, HubTypes, NEW p \in Path
  PROVE  Hub!Keys(p) \in HubKeys /\ HubKnown(Hub!Keys(p), p)
  <1>1. Hub!RootOf(p) \in Roots /\ Hub!DbOf(p) \in Dbs
    BY DEF Hub!HubAssumption, Hub!RootOf, Hub!DbOf
  <1>2. p \notin Breakable => p \in readable
    BY DEF HubTypes
  <1> QED BY <1>1, <1>2 DEF Hub!Keys, HubKeys, HubKnown

LEMMA HubStepSweepBegins ==
  ASSUME Hub!HubAssumption, HubInv, Hub!SweepBegins
  PROVE  HubInv'
  <1> DEFINE s == [list |-> roster, keys |-> <<>>, next |-> 1, running |-> {}, out |-> {},
                   dups |-> {}]
  <1>0. /\ sweep' = s /\ turns' = {} /\ loop' = "reading" /\ ~stop
        /\ UNCHANGED <<stop, lastSweep, readable, breaks, roster, flock, cmd, wish, commands>>
    BY DEF Hub!SweepBegins, Hub!file, Hub!MayBegin
  <1>1. s \in HubSweep /\ s.running = {} /\ DOMAIN s.keys = {}
    BY DEF HubInv, HubTypes, HubSweep
  <1> HIDE DEF s
  <1>2. HubTypes'
    BY <1>0, <1>1 DEF HubInv, HubTypes
  <1>3. HubRunningOK'
    BY <1>0, <1>1, FS_EmptySet DEF Hub!HubAssumption, HubRunningOK
  <1>4. HubSweepOK'
    BY <1>0, <1>1 DEF HubSweepOK
  <1>5. HubLockOK' /\ Hub!OptOutKept' /\ Hub!NoSweepAfterStop'
    BY <1>0 DEF HubInv, HubLockOK, Hub!OptOutKept, Hub!NoSweepAfterStop
  <1> QED BY <1>2, <1>3, <1>4, <1>5 DEF HubInv

LEMMA HubStepReadKeys ==
  ASSUME Hub!HubAssumption, HubInv, Hub!ReadKeys
  PROVE  HubInv'
  <1> DEFINE n == Len(sweep.keys) + 1
             new == Hub!Keys(sweep.list[n].path)
  <1>0. /\ sweep' = [sweep EXCEPT !.keys = Append(sweep.keys, new)] /\ loop = "reading"
        /\ Len(sweep.keys) < Len(sweep.list)
        /\ UNCHANGED <<loop, stop, turns, sweeps, lastSweep, readable, breaks>>
        /\ UNCHANGED <<roster, flock, cmd, wish, commands>>
    BY DEF Hub!ReadKeys, Hub!file
  <1>1. sweep \in HubSweep /\ sweep.keys \in Seq(HubKeys) /\ sweep.list \in Seq(HubEntry)
    BY DEF HubInv, HubTypes, HubSweep
  <1>2. n \in DOMAIN sweep.list /\ sweep.list[n].path \in Path
    <2>1. n \in DOMAIN sweep.list
      BY <1>0, <1>1
    <2>2. sweep.list[n] \in HubEntry
      BY <1>1, <2>1
    <2> QED BY <2>1, <2>2 DEF HubEntry
  <1>3. new \in HubKeys /\ HubKnown(new, sweep.list[n].path)
    BY <1>2, HubKeysAre DEF HubInv
  <1> HIDE DEF new
  <1>4. /\ Append(sweep.keys, new) \in Seq(HubKeys)
        /\ \A k \in DOMAIN Append(sweep.keys, new) :
             \/ k \in DOMAIN sweep.keys /\ Append(sweep.keys, new)[k] = sweep.keys[k]
             \/ k = n /\ Append(sweep.keys, new)[k] = new
    BY <1>1, <1>3, AppendProperties
  <1>5. /\ sweep' \in HubSweep /\ sweep'.keys = Append(sweep.keys, new)
        /\ sweep'.list = sweep.list /\ sweep'.running = sweep.running
        /\ sweep'.out = sweep.out /\ sweep'.dups = sweep.dups /\ sweep'.next = sweep.next
    BY <1>0, <1>1, <1>4 DEF HubSweep
  <1>6. HubTypes'
    BY <1>0, <1>5 DEF HubInv, HubTypes
  <1>7. HubSweepOK'
    BY <1>0, <1>3, <1>4, <1>5 DEF HubInv, HubSweepOK, Hub!HasTurn
  <1> QED BY <1>0, <1>5, <1>6, <1>7
          DEF HubInv, HubLockOK, HubRunningOK, Hub!OptOutKept, Hub!NoSweepAfterStop

LEMMA HubStepKeysRead ==
  ASSUME Hub!HubAssumption, HubInv, Hub!KeysRead
  PROVE  HubInv'
  <1> DEFINE list == sweep.list
             keys == sweep.keys
             out  == {i \in DOMAIN list : Hub!OptedOut(list, keys, i)}
             dups == {i \in DOMAIN list : Hub!IsDuplicate(list, keys, i)}
  <1>0. /\ sweep' = [sweep EXCEPT !.out = out, !.dups = dups]
        /\ loop = "reading" /\ loop' = "sweeping" /\ Len(keys) = Len(list)
        /\ UNCHANGED <<stop, turns, sweeps, lastSweep, readable, breaks>>
        /\ UNCHANGED <<roster, flock, cmd, wish, commands>>
    BY DEF Hub!KeysRead, Hub!file
  <1>1. /\ sweep \in HubSweep /\ list \in Seq(HubEntry) /\ keys \in Seq(HubKeys)
        /\ \A i \in DOMAIN list : list[i].path \in Path /\ i \in 1..Len(list)
    <2>1. sweep \in HubSweep /\ list \in Seq(HubEntry) /\ keys \in Seq(HubKeys)
      BY DEF HubInv, HubTypes, HubSweep
    <2>2. DOMAIN list = 1..Len(list) /\ \A i \in DOMAIN list : list[i] \in HubEntry
      BY <2>1
    <2> QED BY <2>1, <2>2 DEF HubEntry
  <1>2. turns = {} /\ \A k \in DOMAIN list : HubKnown(keys[k], list[k].path)
    BY <1>0, <1>1 DEF HubInv, HubSweepOK
  <1>3. ASSUME NEW i \in DOMAIN list, NEW k \in DOMAIN list,
               Hub!SameQueue(list[k].path, list[i].path)
        PROVE  /\ ~list[k].daemon => i \in out
               /\ k < i => i \in dups
    <2>1. keys[k] \cap keys[i] # {}
      BY <1>1, <1>2, <1>3, HubKeysMeet
    <2>2. k < i => k \in 1..(i - 1)
      BY <1>1
    <2> QED BY <2>1, <2>2 DEF Hub!OptedOut, Hub!IsDuplicate
  <1>4. out \subseteq Nat /\ dups \subseteq Nat
    BY <1>1
  <1> HIDE DEF out, dups
  <1>5. /\ sweep' \in HubSweep /\ sweep'.list = list /\ sweep'.running = sweep.running
        /\ sweep'.out = out /\ sweep'.dups = dups /\ sweep'.next = sweep.next
    BY <1>0, <1>1, <1>4 DEF HubSweep
  <1>6. HubTypes'
    BY <1>0, <1>5 DEF HubInv, HubTypes
  <1>7. HubSweepOK'
    <2>1. \A e \in Hub!ToSet(list) : \E k \in DOMAIN list : e = list[k]
      BY DEF Hub!ToSet
    <2> QED BY <1>0, <1>2, <1>3, <1>5, <2>1 DEF HubSweepOK
  <1>8. HubRunningOK'
    BY <1>0, <1>5 DEF HubInv, HubRunningOK
  <1> QED BY <1>0, <1>6, <1>7, <1>8
          DEF HubInv, HubLockOK, Hub!OptOutKept, Hub!NoSweepAfterStop

LEMMA HubStepPassOver ==
  ASSUME Hub!HubAssumption, HubInv, Hub!PassOver
  PROVE  HubInv'
  <1>0. /\ sweep' = [sweep EXCEPT !.next = sweep.next + 1]
        /\ UNCHANGED <<loop, stop, turns, sweeps, lastSweep, readable, breaks>>
        /\ UNCHANGED <<roster, flock, cmd, wish, commands>>
    BY DEF Hub!PassOver, Hub!file, Hub!AfterFailure
  <1>1. sweep \in HubSweep /\ sweep.next \in Nat \ {0}
    BY DEF HubInv, HubTypes, HubSweep
  <1>2. /\ sweep' \in HubSweep /\ sweep'.next = sweep.next + 1 /\ sweep'.list = sweep.list
        /\ sweep'.running = sweep.running /\ sweep'.out = sweep.out
        /\ sweep'.dups = sweep.dups
    <2>1. sweep.next + 1 \in Nat \ {0}
      BY <1>1
    <2> QED BY <1>0, <1>1, <2>1 DEF HubSweep
  <1>3. HubTypes'
    BY <1>0, <1>2 DEF HubInv, HubTypes
  <1>4. HubSweepOK'
    <2>1. ASSUME NEW i \in turns PROVE i < sweep.next + 1
      <3>1. i \in Nat /\ i < sweep.next
        BY DEF HubInv, HubTypes, HubSweepOK
      <3> QED BY <1>1, <3>1
    <2> QED BY <1>0, <1>2, <2>1 DEF HubInv, HubSweepOK, Hub!HasTurn
  <1> QED BY <1>0, <1>2, <1>3, <1>4
          DEF HubInv, HubLockOK, HubRunningOK, Hub!OptOutKept, Hub!NoSweepAfterStop

LEMMA HubStepTickBegins ==
  ASSUME Hub!HubAssumption, HubInv, Hub!TickBegins
  PROVE  HubInv'
  <1> DEFINE i == sweep.next
  <1>0. /\ sweep' = [sweep EXCEPT !.next = i + 1, !.running = @ \cup {i}]
        /\ turns' = turns \cup {i} /\ Hub!HasTurn(i) /\ i <= Len(sweep.list)
        /\ Cardinality(sweep.running) < Concurrency /\ loop = "sweeping"
        /\ UNCHANGED <<loop, stop, sweeps, lastSweep, readable, breaks>>
        /\ UNCHANGED <<roster, flock, cmd, wish, commands>>
    BY HubCardinality DEF Hub!TickBegins, Hub!file, Hub!InTurn
  <1>1. sweep \in HubSweep /\ sweep.next \in Nat \ {0} /\ sweep.list \in Seq(HubEntry)
        /\ sweep.running \subseteq Nat
    BY DEF HubInv, HubTypes, HubSweep
  <1> HIDE DEF i
  <1>2. /\ sweep' \in HubSweep /\ sweep'.next = i + 1 /\ sweep'.list = sweep.list
        /\ sweep'.running = sweep.running \cup {i} /\ sweep'.out = sweep.out
        /\ sweep'.dups = sweep.dups /\ i \in Nat
    <2>1. i \in Nat /\ i + 1 \in Nat \ {0} /\ sweep.running \cup {i} \subseteq Nat
      BY <1>1 DEF i
    <2> QED BY <1>0, <1>1, <2>1 DEF HubSweep
  <1>3. HubTypes'
    BY <1>0, <1>2 DEF HubInv, HubTypes
  <1>4. HubRunningOK'
    <2>1. /\ IsFiniteSet(sweep.running \cup {i}) /\ Cardinality(sweep.running) \in Nat
          /\ Cardinality(sweep.running \cup {i}) \in Nat
          /\ Cardinality(sweep.running \cup {i}) <= Cardinality(sweep.running) + 1
      <3>1. IsFiniteSet(sweep.running)
        BY DEF HubInv, HubRunningOK
      <3>2. /\ Cardinality(sweep.running) \in Nat /\ IsFiniteSet(sweep.running \cup {i})
            /\ Cardinality(sweep.running \cup {i}) \in
                 {Cardinality(sweep.running), Cardinality(sweep.running) + 1}
        BY <3>1, FS_AddElement, FS_CardinalityType
      <3> QED BY <3>2
    <2>2. Cardinality(sweep.running \cup {i}) <= Concurrency
      BY <1>0, <2>1 DEF Hub!HubAssumption
    <2> QED BY <1>0, <1>2, <2>1, <2>2 DEF HubInv, HubRunningOK
  <1>5. HubSweepOK'
    <2>1. \A k \in turns : k \in Nat /\ k < i + 1
      BY <1>1 DEF HubInv, HubTypes, HubSweepOK, i
    <2>2. i < i + 1 /\ i \in DOMAIN sweep.list
      <3>1. i # 0
        BY <1>1 DEF i
      <3> QED BY <1>0, <1>1, <1>2, <3>1
    <2> QED BY <1>0, <1>2, <2>1, <2>2 DEF HubInv, HubSweepOK, Hub!HasTurn
  <1> QED BY <1>0, <1>2, <1>3, <1>4, <1>5
          DEF HubInv, HubLockOK, Hub!OptOutKept, Hub!NoSweepAfterStop

LEMMA HubStepTickEnds ==
  ASSUME Hub!HubAssumption, HubInv, NEW i, Hub!TickEnds(i)
  PROVE  HubInv'
  <1>0. /\ sweep' = [sweep EXCEPT !.running = @ \ {i}] /\ loop = "sweeping"
        /\ UNCHANGED <<loop, stop, turns, sweeps, lastSweep, readable, breaks>>
        /\ UNCHANGED <<roster, flock, cmd, wish, commands>> /\ i \in sweep.running
    BY DEF Hub!TickEnds, Hub!file
  <1>1. sweep \in HubSweep
    BY DEF HubInv, HubTypes
  <1>2. /\ sweep' \in HubSweep /\ sweep'.next = sweep.next /\ sweep'.list = sweep.list
        /\ sweep'.running = sweep.running \ {i} /\ sweep'.out = sweep.out
        /\ sweep'.dups = sweep.dups
    BY <1>0, <1>1 DEF HubSweep
  <1>3. HubTypes'
    BY <1>0, <1>2 DEF HubInv, HubTypes
  <1>4. HubRunningOK'
    <2>1. /\ IsFiniteSet(sweep.running \ {i}) /\ Cardinality(sweep.running) \in Nat
          /\ Cardinality(sweep.running \ {i}) = Cardinality(sweep.running) - 1
      BY <1>0, FS_RemoveElement, FS_CardinalityType DEF HubInv, HubRunningOK
    <2>2. Cardinality(sweep.running \ {i}) <= Concurrency
      BY <2>1 DEF HubInv, HubRunningOK, Hub!HubAssumption
    <2> QED BY <1>0, <1>2, <2>1, <2>2 DEF HubInv, HubRunningOK
  <1>5. HubSweepOK'
    BY <1>0, <1>2 DEF HubInv, HubSweepOK, Hub!HasTurn
  <1> QED BY <1>0, <1>2, <1>3, <1>4, <1>5
          DEF HubInv, HubLockOK, Hub!OptOutKept, Hub!NoSweepAfterStop

LEMMA HubStepLoop ==
  ASSUME Hub!HubAssumption, HubInv, Hub!Stops \/ Hub!SweepEnds \/ Hub!WaitEnds \/ Hub!Signal
  PROVE  HubInv'
  <1> USE DEF HubInv, Hub!file
  <1>1. /\ loop' \in {"top", "reading", "sweeping", "waiting", "stopped"}
        /\ stop' \in BOOLEAN /\ (loop' = "reading" <=> loop = "reading")
        /\ loop' # "sweeping" => sweep.running = {}
        /\ Hub!NoSweepAfterStop'
    <2>1. CASE Hub!Stops \/ Hub!SweepEnds \/ Hub!WaitEnds
      BY <2>1
         DEF Hub!Stops, Hub!SweepEnds, Hub!WaitEnds, HubTypes, HubRunningOK,
             Hub!NoSweepAfterStop
    <2>2. CASE Hub!Signal
      BY <2>2 DEF Hub!Signal, HubTypes, HubRunningOK, Hub!NoSweepAfterStop
    <2> QED BY <2>1, <2>2
  <1>2. UNCHANGED <<roster, flock, cmd, wish, commands, sweep, turns, readable>>
    BY DEF Hub!Stops, Hub!SweepEnds, Hub!WaitEnds, Hub!Signal
  <1> QED BY <1>1, <1>2
             DEF HubTypes, HubLockOK, HubRunningOK, HubSweepOK, Hub!OptOutKept, Hub!HasTurn

LEMMA HubInitInv == Hub!HubAssumption /\ Hub!Init => HubInv
  <1> SUFFICES ASSUME Hub!HubAssumption, Hub!Init PROVE HubInv
    OBVIOUS
  <1> USE DEF Hub!Init
  <1>1. roster \in Seq(HubEntry) /\ Len(roster) <= MaxRoster
    <2>1. MaxRoster \in Nat
      BY DEF Hub!HubAssumption
    <2>2. PICK m \in 0..(MaxRoster - 1) : roster \in [1..m -> HubEntry]
      BY DEF Hub!BoundedSeq, Hub!SeqOf, HubEntry
    <2>3. m \in Nat /\ m <= MaxRoster
      BY <2>1
    <2> QED BY <2>2, <2>3
  <1>2. sweep \in HubSweep /\ sweep.list = <<>> /\ sweep.running = {}
    BY DEF HubSweep
  <1>3. HubTypes
    BY <1>1, <1>2 DEF HubTypes
  <1>4. HubRunningOK
    BY <1>2, FS_EmptySet DEF HubRunningOK, Hub!HubAssumption
  <1>5. HubLockOK /\ Hub!OptOutKept /\ Hub!NoSweepAfterStop
    BY DEF HubLockOK, Hub!OptOutKept, Hub!NoSweepAfterStop
  <1>6. HubSweepOK
    BY <1>2 DEF HubSweepOK
  <1> QED BY <1>3, <1>4, <1>5, <1>6 DEF HubInv

LEMMA HubNextInv == Hub!HubAssumption /\ HubInv /\ [Hub!Next]_Hub!vars => HubInv'
  <1> SUFFICES ASSUME Hub!HubAssumption, HubInv, [Hub!Next]_Hub!vars PROVE HubInv'
    OBVIOUS
  <1>1. CASE UNCHANGED Hub!vars
    BY <1>1 DEF Hub!vars, HubInv, HubTypes, HubLockOK, HubRunningOK, HubSweepOK, Hub!OptOutKept,
                Hub!NoSweepAfterStop, Hub!HasTurn
  <1>2. CASE Hub!Next
    <2>1. ASSUME NEW c \in Agent, NEW p \in Path,
                 NEW what \in {"add", "daemon", "no-daemon", "remove"},
                 Hub!CommandReads(c, p, what)
          PROVE  HubInv'
      BY <2>1, HubStepReads
    <2>2. ASSUME NEW c \in Agent, Hub!CommandWrites(c) \/ Hub!CommandDies(c) PROVE HubInv'
      BY <2>2, HubStepWrites, HubStepDies
    <2>3. ASSUME NEW p \in Path, Hub!Break(p) PROVE HubInv'
      BY <2>3, HubStepBreak
    <2>4. ASSUME NEW i \in 1..MaxRoster, Hub!TickEnds(i) PROVE HubInv'
      BY <2>4, HubStepTickEnds
    <2>5. CASE Hub!Loop \/ Hub!Signal
      BY <2>5, HubStepSweepBegins, HubStepReadKeys, HubStepKeysRead, HubStepPassOver,
         HubStepTickBegins, HubStepLoop DEF Hub!Loop
    <2> QED BY <1>2, <2>1, <2>2, <2>3, <2>4, <2>5 DEF Hub!Next
  <1> QED BY <1>1, <1>2

(* What the invariant says of a sweep: no turn for a queue that is off by  *)
(* whatever path, and no second turn for one queue.                        *)
LEMMA HubInvSweep == Hub!HubAssumption /\ HubInv =>
    Hub!TypeOK /\ Hub!OptOutKept /\ Hub!OptOutHolds /\ Hub!OneTurnPerQueue
        /\ Hub!NoSweepAfterStop
  <1> SUFFICES ASSUME Hub!HubAssumption, HubInv
      PROVE Hub!TypeOK /\ Hub!OptOutKept /\ Hub!OptOutHolds /\ Hub!OneTurnPerQueue
          /\ Hub!NoSweepAfterStop
    OBVIOUS
  <1> USE DEF HubInv
  <1>0. sweep.list \in Seq(HubEntry) /\ \A i \in DOMAIN sweep.list : sweep.list[i] \in HubEntry
    BY DEF HubTypes, HubSweep
  <1>1. Hub!TypeOK
    <2>1. \A e \in Hub!ToSet(roster) : e.path \in Path /\ e.daemon \in BOOLEAN
      <3>1. \A i \in DOMAIN roster : roster[i] \in HubEntry
        BY DEF HubTypes
      <3> QED BY <3>1 DEF Hub!ToSet, HubEntry
    <2> QED BY <2>1, HubCardinality DEF Hub!TypeOK, HubTypes, HubRunningOK
  <1>2. Hub!OptOutHolds
    <2> SUFFICES ASSUME NEW i \in turns, NEW e \in Hub!ToSet(sweep.list),
                        Hub!SameQueue(e.path, sweep.list[i].path)
        PROVE e.daemon
      BY DEF Hub!OptOutHolds
    <2>1. e \in HubEntry
      BY <1>0 DEF Hub!ToSet
    <2>2. i \in DOMAIN sweep.list /\ i \notin sweep.out
      BY DEF HubSweepOK, Hub!HasTurn
    <2> QED BY <2>1, <2>2 DEF HubSweepOK, HubEntry
  <1>3. Hub!OneTurnPerQueue
    <2> SUFFICES ASSUME NEW i \in turns, NEW k \in turns,
                        Hub!SameQueue(sweep.list[i].path, sweep.list[k].path)
        PROVE i = k
      BY DEF Hub!OneTurnPerQueue
    <2>1. /\ i \in DOMAIN sweep.list /\ i \notin sweep.dups /\ i \in Nat
          /\ k \in DOMAIN sweep.list /\ k \notin sweep.dups /\ k \in Nat
      BY DEF HubSweepOK, Hub!HasTurn, HubTypes
    <2>2. Hub!SameQueue(sweep.list[k].path, sweep.list[i].path)
      BY DEF Hub!SameQueue
    <2>3. ~(i < k) /\ ~(k < i)
      BY <2>1, <2>2 DEF HubSweepOK
    <2> QED BY <2>1, <2>3
  <1> QED BY <1>1, <1>2, <1>3

-----------------------------------------------------------------------------
(***************************************************************************)
(* Notifications.                                                          *)
(***************************************************************************)
(* One message may follow another: they are of different reports, and of   *)
(* the events of one repository the later comes later; but for the reports *)
(* of X.                                                                   *)
NotifyAfter(m, n, X) ==
  /\ m.id = n.id => m.id \in X
  /\ (/\ m.repo = n.repo /\ Notify!IsEvent(m.key) /\ Notify!IsEvent(n.key)
      /\ m.id \notin X /\ n.id \notin X) => m.id < n.id

NotifySorted(s, X)      == \A a, b \in DOMAIN s : a < b => NotifyAfter(s[a], s[b], X)
NotifyPrecedes(s, t, X) ==
  \A m \in Notify!ToSet(s), n \in Notify!ToSet(t) : NotifyAfter(m, n, X)

NotifyMessages ==
  Notify!ToSet(sent) \cup Notify!ToSet(todo) \cup Notify!ToSet(next.kept)
    \cup Notify!ToSet(state.kept) \cup Notify!ToSet(saved.kept)

(* Every message is of a report, and what is kept are events.              *)
NotifyIdsOK  == \A m \in NotifyMessages : m.id \in 1..reports
NotifyKeptOK ==
  \A m \in Notify!ToSet(next.kept) \cup Notify!ToSet(state.kept) \cup Notify!ToSet(saved.kept) :
    Notify!IsEvent(m.key)

(* The settled keys as they are to be, in a pass, or as they are.          *)
NotifyKeys     == IF pc = "delivering" THEN next.key ELSE state.key
NotifyLasts(r) == Notify!IsTransitionOnly(spell[r].key)

(* A repository's spell has a report of its own, or none that is known.    *)
NotifySpellIds ==
  /\ events \subseteq 0..reports
  /\ \A r \in Repo : spell[r].id \in 0..reports
  /\ \A r, x \in Repo : spell[r].id = spell[x].id => r = x \/ spell[r].id = 0

NotifySpellEvents ==
  \A r \in Repo : /\ Notify!IsEvent(spell[r].key) => spell[r].id \in events \cup {0}
                  /\ ~Notify!IsEvent(spell[r].key) =>
                       spell[r].id = 0 \/ spell[r].id \notin events

(* A spell that lasts since before a restart is settled; another is of the *)
(* newest report of its repository.                                        *)
NotifySpellKnown ==
  \A r \in Repo : NotifyLasts(r) /\ spell[r].id = 0 =>
    saved.key[r] = spell[r].key /\ (pc # "down" => NotifyKeys[r] = spell[r].key)
NotifySpellNewest ==
  \A r \in Repo : NotifyLasts(r) /\ spell[r].id # 0 =>
    \A m \in NotifyMessages : m.repo = r => m.id <= spell[r].id

(* A spell that is not settled was not sent, nor kept.                     *)
NotifyKeysOK ==
  pc # "down" => \A r \in Repo :
    /\ Notify!IsTransitionOnly(NotifyKeys[r]) => spell[r].key = NotifyKeys[r]
    /\ NotifyLasts(r) /\ NotifyKeys[r] # spell[r].key /\ spell[r].id \notin Notify!Excused =>
         spell[r].id \notin Notify!Ids(sent) \cup Notify!Ids(state.kept) \cup Notify!Ids(next.kept)
NotifySavedKeysOK ==
  \A r \in Repo :
    NotifyLasts(r) /\ saved.key[r] # spell[r].key
        /\ spell[r].id \notin Notify!Excused \cup unsaved =>
      spell[r].id \notin Notify!Ids(sent) \cup Notify!Ids(saved.kept)

(* A pass sends what was kept, and the spells' messages; a repository one  *)
(* message of which is held has failed.                                    *)
NotifyTodoOK ==
  /\ \A m \in Notify!ToSet(todo) :
       Notify!FromKept(m) \/ (m.id = spell[m.repo].id /\ m.key = spell[m.repo].key)
  /\ pc # "delivering" => todo = <<>>
  /\ pc = "delivering" => \A m \in Notify!ToSet(next.kept) : m.repo \in failed

NotifySavedOrderOK ==
  /\ NotifySorted(sent, Notify!Excused) /\ NotifySorted(saved.kept, Notify!Excused)
  /\ NotifyPrecedes(sent, saved.kept, Notify!Excused \cup unsaved)
NotifyPassOrderOK ==
  pc = "delivering" =>
    /\ NotifySorted(todo, Notify!Excused) /\ NotifySorted(next.kept, Notify!Excused)
    /\ NotifyPrecedes(next.kept, todo, Notify!Excused)
    /\ NotifyPrecedes(sent, todo, Notify!Excused)
    /\ NotifyPrecedes(sent, next.kept, Notify!Excused)
NotifyStateOrderOK ==
  pc \in {"waiting", "saving"} =>
    NotifySorted(state.kept, Notify!Excused) /\ NotifyPrecedes(sent, state.kept, Notify!Excused)

(* What a crash would lose is unsaved.                                     *)
NotifyUnsavedOK ==
  /\ pc = "delivering" => Notify!Ids(todo) \cup Notify!Ids(next.kept) \subseteq unsaved
  /\ pc = "saving" => Notify!Ids(state.kept) \subseteq unsaved
  /\ pc = "waiting" => Notify!Ids(state.kept) \subseteq unsaved \cup Notify!Ids(saved.kept)
  /\ pc = "down" => unsaved = {} /\ state = Notify!Empty /\ next = Notify!Empty

(* Every event is sent, or lost, or at hand.                               *)
NotifyGone   == Notify!Ids(sent) \cup {0} \cup Notify!Excused \cup lapsed.config \cup lapsed.kept
NotifyAtHand == IF pc = "delivering" THEN Notify!Ids(todo) \cup Notify!Ids(next.kept)
                ELSE IF pc = "down" THEN Notify!Ids(saved.kept) ELSE Notify!Ids(state.kept)
NotifyEventsOK == events \subseteq NotifyGone \cup NotifyAtHand

NotifyInv ==
  /\ Notify!TypeOK /\ NotifyIdsOK /\ NotifyKeptOK
  /\ NotifySpellIds /\ NotifySpellEvents /\ NotifySpellKnown /\ NotifySpellNewest
  /\ NotifyKeysOK /\ NotifySavedKeysOK
  /\ NotifyTodoOK /\ NotifySavedOrderOK /\ NotifyPassOrderOK /\ NotifyStateOrderOK
  /\ NotifyUnsavedOK /\ NotifyEventsOK

-----------------------------------------------------------------------------
(* Sequences.                                                              *)

LEMMA NotifyToSetAppend ==
  ASSUME NEW S, NEW s \in Seq(S), NEW e \in S
  PROVE  /\ Notify!ToSet(Append(s, e)) = Notify!ToSet(s) \cup {e}
         /\ Append(s, e) \in Seq(S) /\ Len(Append(s, e)) = Len(s) + 1
         /\ Notify!Ids(Append(s, e)) = Notify!Ids(s) \cup {e.id}
  <1>1. /\ Append(s, e) \in Seq(S) /\ Len(Append(s, e)) = Len(s) + 1
        /\ \A i \in 1..Len(s) : Append(s, e)[i] = s[i]
        /\ Append(s, e)[Len(s) + 1] = e
    BY AppendProperties
  <1>2. /\ DOMAIN s = 1..Len(s) /\ DOMAIN Append(s, e) = 1..(Len(s) + 1) /\ Len(s) \in Nat
    BY <1>1
  <1>3. DOMAIN Append(s, e) = DOMAIN s \cup {Len(s) + 1}
    BY <1>2
  <1>4. Notify!ToSet(Append(s, e)) = Notify!ToSet(s) \cup {e}
    BY <1>1, <1>2, <1>3 DEF Notify!ToSet
  <1> QED BY <1>1, <1>4 DEF Notify!Ids

LEMMA NotifyToSetTail ==
  ASSUME NEW S, NEW s \in Seq(S), s # <<>>
  PROVE  /\ Head(s) \in S /\ Tail(s) \in Seq(S)
         /\ Notify!ToSet(s) = {Head(s)} \cup Notify!ToSet(Tail(s))
         /\ Notify!Ids(s) = {Head(s).id} \cup Notify!Ids(Tail(s))
  <1>1. /\ Head(s) \in S /\ Tail(s) \in Seq(S) /\ Len(Tail(s)) = Len(s) - 1 /\ Head(s) = s[1]
        /\ \A i \in 1..Len(Tail(s)) : Tail(s)[i] = s[i + 1]
    BY HeadTailProperties
  <1>2. /\ DOMAIN s = 1..Len(s) /\ DOMAIN Tail(s) = 1..(Len(s) - 1) /\ Len(s) \in Nat
        /\ Len(s) >= 1
    BY <1>1, EmptySeq
  <1>3. \A i \in DOMAIN s : i = 1 \/ (i - 1 \in DOMAIN Tail(s) /\ Tail(s)[i - 1] = s[i])
    BY <1>1, <1>2
  <1>4. \A i \in DOMAIN Tail(s) : i + 1 \in DOMAIN s /\ Tail(s)[i] = s[i + 1]
    BY <1>1, <1>2
  <1>5. 1 \in DOMAIN s
    BY <1>2
  <1>6. Notify!ToSet(s) = {Head(s)} \cup Notify!ToSet(Tail(s))
    BY <1>1, <1>3, <1>4, <1>5 DEF Notify!ToSet
  <1> QED BY <1>1, <1>6 DEF Notify!Ids

LEMMA NotifyToSetConcat ==
  ASSUME NEW S, NEW s \in Seq(S), NEW t \in Seq(S)
  PROVE  /\ s \o t \in Seq(S) /\ Notify!ToSet(s \o t) = Notify!ToSet(s) \cup Notify!ToSet(t)
         /\ Notify!Ids(s \o t) = Notify!Ids(s) \cup Notify!Ids(t)
  <1>1. /\ s \o t \in Seq(S) /\ Len(s \o t) = Len(s) + Len(t)
        /\ \A i \in 1..(Len(s) + Len(t)) :
             (s \o t)[i] = IF i <= Len(s) THEN s[i] ELSE t[i - Len(s)]
    BY ConcatProperties
  <1>2. /\ DOMAIN s = 1..Len(s) /\ DOMAIN t = 1..Len(t) /\ Len(s) \in Nat /\ Len(t) \in Nat
        /\ DOMAIN (s \o t) = 1..(Len(s) + Len(t))
    BY <1>1
  <1>3. \A i \in DOMAIN (s \o t) : \/ i \in DOMAIN s /\ (s \o t)[i] = s[i]
                                   \/ i - Len(s) \in DOMAIN t /\ (s \o t)[i] = t[i - Len(s)]
    BY <1>1, <1>2
  <1>4. \A i \in DOMAIN s : i \in DOMAIN (s \o t) /\ (s \o t)[i] = s[i]
    BY <1>1, <1>2
  <1>5. \A i \in DOMAIN t : i + Len(s) \in DOMAIN (s \o t) /\ (s \o t)[i + Len(s)] = t[i]
    BY <1>1, <1>2
  <1>6. Notify!ToSet(s \o t) = Notify!ToSet(s) \cup Notify!ToSet(t)
    <2>1. Notify!ToSet(s \o t) \subseteq Notify!ToSet(s) \cup Notify!ToSet(t)
      BY <1>3 DEF Notify!ToSet
    <2>2. Notify!ToSet(s) \cup Notify!ToSet(t) \subseteq Notify!ToSet(s \o t)
      BY <1>4, <1>5 DEF Notify!ToSet
    <2> QED BY <2>1, <2>2
  <1> QED BY <1>1, <1>6 DEF Notify!Ids

LEMMA NotifyToSetNewest ==
  ASSUME Notify!NotifyAssumption, NEW S, NEW s \in Seq(S)
  PROVE  /\ Notify!Newest(s) \in Seq(S) /\ Notify!ToSet(Notify!Newest(s)) \subseteq Notify!ToSet(s)
         /\ Notify!Ids(Notify!Newest(s)) \subseteq Notify!Ids(s)
         /\ Len(Notify!Newest(s)) <= Limit
         /\ \E d \in Nat : \A i \in DOMAIN Notify!Newest(s) : i + d \in DOMAIN s
            /\ Notify!Newest(s)[i] = s[i + d]
  <1>1. Len(s) \in Nat /\ DOMAIN s = 1..Len(s) /\ Limit \in Nat
    BY DEF Notify!NotifyAssumption
  <1>2. \E d \in Nat : \A i \in DOMAIN Notify!Newest(s) : i + d \in DOMAIN s
        /\ Notify!Newest(s)[i] = s[i + d]
    <2>1. CASE Len(s) <= Limit
      <3>1. Notify!Newest(s) = s
        BY <2>1 DEF Notify!Newest
      <3>2. \A i \in DOMAIN s : i + 0 \in DOMAIN s /\ s[i] = s[i + 0]
        BY <1>1
      <3> QED BY <3>1, <3>2
    <2>2. CASE Len(s) > Limit
      <3> DEFINE d == Len(s) - Limit
      <3>1. d \in Nat /\ Notify!Newest(s) = SubSeq(s, d + 1, Len(s))
        BY <1>1, <2>2 DEF Notify!Newest
      <3>2. /\ DOMAIN Notify!Newest(s) = 1..Limit
            /\ \A i \in 1..Limit : Notify!Newest(s)[i] = s[i + d]
        BY <1>1, <2>2, <3>1
      <3>3. \A i \in 1..Limit : i + d \in DOMAIN s
        BY <1>1, <2>2
      <3> QED BY <3>1, <3>2, <3>3
    <2> QED BY <1>1, <2>1, <2>2
  <1>3. Notify!Newest(s) \in Seq(S) /\ Len(Notify!Newest(s)) <= Limit
    <2>1. CASE Len(s) <= Limit
      BY <2>1 DEF Notify!Newest
    <2>2. CASE Len(s) > Limit
      <3>1. Notify!Newest(s) = SubSeq(s, Len(s) - Limit + 1, Len(s))
        BY <1>1, <2>2 DEF Notify!Newest
      <3> QED BY <1>1, <2>2, <3>1
    <2> QED BY <1>1, <2>1, <2>2
  <1>4. Notify!ToSet(Notify!Newest(s)) \subseteq Notify!ToSet(s)
    BY <1>2 DEF Notify!ToSet
  <1> QED BY <1>2, <1>3, <1>4 DEF Notify!Ids

(* No message, no id.                                                      *)
LEMMA NotifyToSetEmpty == Notify!ToSet(<<>>) = {} /\ Notify!Ids(<<>>) = {}
    /\ \A X : NotifySorted(<<>>, X)
  <1>1. DOMAIN <<>> = {}
    BY EmptySeq
  <1> QED BY <1>1 DEF Notify!ToSet, Notify!Ids, NotifySorted

LEMMA NotifyAfterMore ==
  ASSUME NEW m, NEW n, NEW X, NEW Y, X \subseteq Y, NotifyAfter(m, n, X)
  PROVE  NotifyAfter(m, n, Y)
  BY DEF NotifyAfter

LEMMA NotifySortedMore ==
  ASSUME NEW s, NEW X, NEW Y, X \subseteq Y, NotifySorted(s, X)
  PROVE  NotifySorted(s, Y)
  BY NotifyAfterMore DEF NotifySorted

LEMMA NotifyPrecedesMore ==
  ASSUME NEW s, NEW t, NEW X, NEW Y, X \subseteq Y, NotifyPrecedes(s, t, X)
  PROVE  NotifyPrecedes(s, t, Y)
  BY NotifyAfterMore DEF NotifyPrecedes

LEMMA NotifySortedAppend ==
  ASSUME NEW S, NEW s \in Seq(S), NEW e \in S, NEW X, NotifySorted(s, X),
         \A m \in Notify!ToSet(s) : NotifyAfter(m, e, X)
  PROVE  NotifySorted(Append(s, e), X)
  <1>1. /\ Append(s, e) \in Seq(S) /\ Len(Append(s, e)) = Len(s) + 1
        /\ \A i \in 1..Len(s) : Append(s, e)[i] = s[i]
        /\ Append(s, e)[Len(s) + 1] = e
    BY AppendProperties
  <1>2. DOMAIN s = 1..Len(s) /\ Len(s) \in Nat /\ DOMAIN Append(s, e) = 1..(Len(s) + 1)
    BY <1>1
  <1> SUFFICES ASSUME NEW a \in DOMAIN Append(s, e), NEW b \in DOMAIN Append(s, e), a < b
        PROVE  NotifyAfter(Append(s, e)[a], Append(s, e)[b], X)
    BY DEF NotifySorted
  <1>3. a \in DOMAIN s /\ Append(s, e)[a] = s[a]
    BY <1>1, <1>2
  <1>4. CASE b = Len(s) + 1
    <2>1. s[a] \in Notify!ToSet(s)
      BY <1>3 DEF Notify!ToSet
    <2> QED BY <1>1, <1>3, <1>4, <2>1
  <1>5. CASE b # Len(s) + 1
    <2>1. b \in DOMAIN s /\ Append(s, e)[b] = s[b]
      BY <1>1, <1>2, <1>5
    <2> QED BY <1>3, <2>1 DEF NotifySorted
  <1> QED BY <1>4, <1>5

LEMMA NotifySortedTail ==
  ASSUME NEW S, NEW s \in Seq(S), s # <<>>, NEW X, NotifySorted(s, X)
  PROVE  NotifySorted(Tail(s), X) /\ \A n \in Notify!ToSet(Tail(s)) : NotifyAfter(Head(s), n, X)
  <1>1. /\ Tail(s) \in Seq(S) /\ Len(Tail(s)) = Len(s) - 1 /\ Head(s) = s[1]
        /\ \A i \in 1..Len(Tail(s)) : Tail(s)[i] = s[i + 1]
    BY HeadTailProperties
  <1>2. /\ DOMAIN s = 1..Len(s) /\ DOMAIN Tail(s) = 1..(Len(s) - 1) /\ Len(s) \in Nat
        /\ Len(s) >= 1
    BY <1>1, EmptySeq
  <1>3. \A i \in DOMAIN Tail(s) : i + 1 \in DOMAIN s /\ Tail(s)[i] = s[i + 1] /\ 1 < i + 1
    BY <1>1, <1>2
  <1>4. 1 \in DOMAIN s
    BY <1>2
  <1>5. NotifySorted(Tail(s), X)
    <2> SUFFICES ASSUME NEW a \in DOMAIN Tail(s), NEW b \in DOMAIN Tail(s), a < b
          PROVE  NotifyAfter(Tail(s)[a], Tail(s)[b], X)
      BY DEF NotifySorted
    <2>1. a + 1 < b + 1
      BY <1>2
    <2> QED BY <1>3, <2>1 DEF NotifySorted
  <1> QED BY <1>1, <1>3, <1>4, <1>5 DEF NotifySorted, Notify!ToSet

LEMMA NotifySortedConcat ==
  ASSUME NEW S, NEW s \in Seq(S), NEW t \in Seq(S), NEW X, NotifySorted(s, X),
         NotifySorted(t, X),
         NotifyPrecedes(s, t, X)
  PROVE  NotifySorted(s \o t, X)
  <1>1. /\ s \o t \in Seq(S) /\ Len(s \o t) = Len(s) + Len(t)
        /\ \A i \in 1..(Len(s) + Len(t)) :
             (s \o t)[i] = IF i <= Len(s) THEN s[i] ELSE t[i - Len(s)]
    BY ConcatProperties
  <1>2. /\ DOMAIN s = 1..Len(s) /\ DOMAIN t = 1..Len(t) /\ Len(s) \in Nat /\ Len(t) \in Nat
        /\ DOMAIN (s \o t) = 1..(Len(s) + Len(t))
    BY <1>1
  <1> SUFFICES ASSUME NEW a \in DOMAIN (s \o t), NEW b \in DOMAIN (s \o t), a < b
        PROVE  NotifyAfter((s \o t)[a], (s \o t)[b], X)
    BY DEF NotifySorted
  <1>3. a \in Nat /\ b \in Nat /\ a >= 1 /\ b <= Len(s) + Len(t)
    BY <1>2
  <1>4. CASE b <= Len(s)
    <2>1. a \in DOMAIN s /\ b \in DOMAIN s /\ (s \o t)[a] = s[a] /\ (s \o t)[b] = s[b]
      BY <1>1, <1>2, <1>3, <1>4
    <2> QED BY <2>1 DEF NotifySorted
  <1>5. CASE a > Len(s)
    <2>1. /\ a - Len(s) \in DOMAIN t /\ b - Len(s) \in DOMAIN t /\ a - Len(s) < b - Len(s)
          /\ (s \o t)[a] = t[a - Len(s)] /\ (s \o t)[b] = t[b - Len(s)]
      BY <1>1, <1>2, <1>3, <1>5
    <2> QED BY <2>1 DEF NotifySorted
  <1>6. CASE a <= Len(s) /\ b > Len(s)
    <2>1. /\ a \in DOMAIN s /\ b - Len(s) \in DOMAIN t
          /\ (s \o t)[a] = s[a] /\ (s \o t)[b] = t[b - Len(s)]
      BY <1>1, <1>2, <1>3, <1>6
    <2> QED BY <2>1 DEF NotifyPrecedes, Notify!ToSet
  <1> QED BY <1>2, <1>3, <1>4, <1>5, <1>6

LEMMA NotifySortedNewest ==
  ASSUME Notify!NotifyAssumption, NEW S, NEW s \in Seq(S), NEW X, NotifySorted(s, X)
  PROVE  NotifySorted(Notify!Newest(s), X)
  <1>1. PICK d \in Nat : \A i \in DOMAIN Notify!Newest(s) : i + d \in DOMAIN s
        /\ Notify!Newest(s)[i] = s[i + d]
    BY NotifyToSetNewest
  <1> SUFFICES ASSUME NEW a \in DOMAIN Notify!Newest(s), NEW b \in DOMAIN Notify!Newest(s),
                      a < b
        PROVE  NotifyAfter(Notify!Newest(s)[a], Notify!Newest(s)[b], X)
    BY DEF NotifySorted
  <1>2. a + d < b + d
    <2>1. Notify!Newest(s) \in Seq(S)
      BY NotifyToSetNewest
    <2> QED BY <2>1
  <1> QED BY <1>1, <1>2 DEF NotifySorted

-----------------------------------------------------------------------------
(* A finite set in some order; the cardinality that Notify means is the    *)
(* one of the theorems.                                                    *)
LEMMA NotifyEnumerated ==
  ASSUME NEW S, IsFiniteSet(S)
  PROVE  /\ Notify!Cardinality(S) = Cardinality(S) /\ Cardinality(S) \in Nat
         /\ Notify!SetToSeq(S) \in [1..Cardinality(S) -> S]
         /\ \A a, b \in 1..Cardinality(S) : Notify!SetToSeq(S)[a] = Notify!SetToSeq(S)[b]
            => a = b
         /\ \A e \in S : \E i \in 1..Cardinality(S) : Notify!SetToSeq(S)[i] = e
  <1> DEFINE n == Cardinality(S)
             f == Notify!SetToSeq(S)
  <1>0. Notify!Cardinality(S) = n
    BY DEF Notify!Cardinality, Cardinality
  <1>1. n \in Nat /\ \E g : g \in Bijection(1..n, S)
    BY FS_CardinalityType DEF ExistsBijection
  <1>2. \E g \in [1..n -> S] : Notify!IsInjective(g)
    BY <1>1 DEF Bijection, Injection, IsInjective, Notify!IsInjective
  <1>3. f \in [1..n -> S] /\ Notify!IsInjective(f)
    <2> HIDE DEF n
    <2>1. f = CHOOSE g \in [1..n -> S] : Notify!IsInjective(g)
      BY <1>0 DEF Notify!SetToSeq
    <2> QED BY <1>2, <2>1
  <1>4. f \in Injection(1..n, S)
    BY <1>3 DEF Injection, IsInjective, Notify!IsInjective
  <1>5. Cardinality(1..n) = n
    BY <1>1, FS_Interval
  <1>6. f \in Surjection(1..n, S)
    BY <1>4, <1>5, FS_Injection
  <1>7. \A e \in S : \E i \in 1..n : f[i] = e
    BY <1>6 DEF Surjection
  <1> QED BY <1>0, <1>1, <1>3, <1>7 DEF Notify!IsInjective

(* The spells of the outcomes: none, a new one, or the one that goes on.   *)
LEMMA NotifySpells ==
  ASSUME Notify!NotifyAssumption, Notify!TypeOK, NotifySpellIds,
         NEW report \in [Repo -> NotifyOutcome],
         reports + Notify!Cardinality(Notify!Fresh(report)) <= MaxReports,
         reports' = reports + Notify!Cardinality(Notify!Fresh(report)), spell' = Notify!SpellOf(report)
  PROVE  /\ reports \in Nat /\ reports' \in Nat /\ reports <= reports' /\ reports' <= MaxReports
         /\ spell' \in [Repo -> [key : NotifyOutcome, id : 0..MaxReports]]
         /\ \A r \in Repo :
              \/ report[r] = "idle" /\ spell'[r].key = "idle" /\ spell'[r].id = 0
              \/ /\ report[r] # "idle" /\ ~Notify!Continues(r, report[r])
                 /\ spell'[r].key = report[r]
                 /\ spell'[r].id \in (reports + 1)..reports'
              \/ /\ report[r] # "idle" /\ Notify!Continues(r, report[r]) /\ spell'[r] = spell[r]
         /\ \A r, x \in Repo :
              spell'[r].id = spell'[x].id => r = x \/ spell'[r].id = 0
  <1> DEFINE F     == Notify!Fresh(report)
             order == Notify!SetToSeq(F)
             id(r) == reports + CHOOSE i \in DOMAIN order : order[i] = r
  <1>1. IsFiniteSet(F) /\ F \subseteq Repo
    <2>1. IsFiniteSet(Repo)
      BY DEF Notify!NotifyAssumption, Notify!IsFiniteSet, IsFiniteSet
    <2>2. F \subseteq Repo
      BY DEF Notify!Fresh
    <2> QED BY <2>1, <2>2, FS_Subset
  <1>2. /\ Notify!Cardinality(F) = Cardinality(F) /\ Cardinality(F) \in Nat
        /\ DOMAIN order = 1..Cardinality(F)
        /\ \A a, b \in 1..Cardinality(F) : order[a] = order[b] => a = b
        /\ \A e \in F : \E i \in 1..Cardinality(F) : order[i] = e
    BY <1>1, NotifyEnumerated
  <1>3. reports \in Nat /\ MaxReports \in Nat
    BY DEF Notify!TypeOK, Notify!NotifyAssumption
  <1> HIDE DEF order
  <1>4. \A r \in F : \E i \in 1..Cardinality(F) : id(r) = reports + i /\ order[i] = r
    BY <1>2
  <1>5. \A r \in F : id(r) \in (reports + 1)..reports' /\ id(r) \in 0..MaxReports
    BY <1>2, <1>3, <1>4
  <1>6. \A r, x \in F : id(r) = id(x) => r = x
    BY <1>2, <1>3, <1>4
  <1>7. spell' = [r \in Repo |-> IF report[r] = "idle" THEN [key |-> "idle", id |-> 0]
                                 ELSE IF r \in F THEN [key |-> report[r], id |-> id(r)]
                                 ELSE spell[r]]
    BY DEF Notify!SpellOf, order
  <1> HIDE DEF id
  <1>8. spell \in [Repo -> [key : NotifyOutcome, id : 0..MaxReports]]
    BY DEF Notify!TypeOK
  <1>9. \A r \in Repo : r \in F <=> report[r] # "idle" /\ ~Notify!Continues(r, report[r])
    BY DEF Notify!Fresh
  <1> HIDE DEF F
  <1>10. \A r \in Repo :
              \/ report[r] = "idle" /\ spell'[r].key = "idle" /\ spell'[r].id = 0
              \/ /\ r \in F /\ report[r] # "idle" /\ ~Notify!Continues(r, report[r])
                 /\ spell'[r].key = report[r] /\ spell'[r].id = id(r)
              \/ /\ report[r] # "idle" /\ Notify!Continues(r, report[r]) /\ spell'[r] = spell[r]
    BY <1>7, <1>9
  <1>11. spell' \in [Repo -> [key : NotifyOutcome, id : 0..MaxReports]]
    <2>1. \A r \in Repo : [key |-> "idle", id |-> 0] \in [key : NotifyOutcome, id : 0..MaxReports]
      BY <1>3 DEF Notify!NotifyAssumption
    <2>2. \A r \in F : [key |-> report[r], id |-> id(r)] \in [key : NotifyOutcome, id : 0..MaxReports]
      BY <1>1, <1>5 DEF F
    <2> QED BY <1>7, <1>8, <2>1, <2>2
  <1>12. \A r, x \in Repo : spell'[r].id = spell'[x].id => r = x \/ spell'[r].id = 0
    <2> SUFFICES ASSUME NEW r \in Repo, NEW x \in Repo, spell'[r].id = spell'[x].id,
                        spell'[r].id # 0
          PROVE  r = x
      OBVIOUS
    <2>1. spell[r].id \in 0..reports /\ spell[x].id \in 0..reports
      BY DEF NotifySpellIds
    <2>2. /\ (r \in F /\ spell'[r].id = id(r)) \/ spell'[r].id = spell[r].id
          /\ (x \in F /\ spell'[x].id = id(x)) \/ spell'[x].id = spell[x].id
      BY <1>10
    <2>3. CASE spell'[r].id = spell[r].id /\ spell'[x].id = spell[x].id
      BY <2>3 DEF NotifySpellIds
    <2>4. CASE r \in F /\ spell'[r].id = id(r)
      BY <1>3, <1>5, <1>6, <2>1, <2>2, <2>4
    <2>5. CASE x \in F /\ spell'[x].id = id(x)
      BY <1>3, <1>5, <1>6, <2>1, <2>2, <2>5
    <2> QED BY <2>2, <2>3, <2>4, <2>5
  <1>13. /\ reports \in Nat /\ reports' \in Nat /\ reports <= reports' /\ reports' <= MaxReports
    BY <1>2, <1>3 DEF F
  <1>14. \A r \in F : /\ report[r] # "idle" /\ ~Notify!Continues(r, report[r])
                         /\ spell'[r].key = report[r]
                       /\ spell'[r].id \in (reports + 1)..reports'
    <2> SUFFICES ASSUME NEW r \in F
          PROVE  /\ report[r] # "idle" /\ ~Notify!Continues(r, report[r])
                 /\ spell'[r].key = report[r]
                 /\ spell'[r].id \in (reports + 1)..reports'
      OBVIOUS
    <2>1. r \in Repo
      BY <1>1 DEF F
    <2> QED BY <1>5, <1>9, <1>10, <2>1
  <1> QED BY <1>10, <1>11, <1>12, <1>13, <1>14

(* The messages of a pass: one for each repository that has something new  *)
(* to say.                                                                 *)
LEMMA NotifyNewMessages ==
  ASSUME Notify!NotifyAssumption, NEW report \in [Repo -> NotifyOutcome],
         NEW sp \in [Repo -> [key : NotifyOutcome, id : 0..MaxReports]]
  PROVE  /\ Notify!MessagesOf(report, sp) \in Seq(Notify!Message)
         /\ \A m \in Notify!ToSet(Notify!MessagesOf(report, sp)) :
              /\ m.repo \in Repo /\ ~Notify!Settles(m.repo, report[m.repo])
              /\ m.key = report[m.repo] /\ m.id = sp[m.repo].id
         /\ \A r \in Repo : ~Notify!Settles(r, report[r]) =>
              \E m \in Notify!ToSet(Notify!MessagesOf(report, sp)) : m.id = sp[r].id
         /\ \A a, b \in DOMAIN Notify!MessagesOf(report, sp) :
              Notify!MessagesOf(report, sp)[a].repo = Notify!MessagesOf(report, sp)[b].repo
                  => a = b
  <1> DEFINE L    == {r \in Repo : ~Notify!Settles(r, report[r])}
             loud == Notify!SetToSeq(L)
             M    == Notify!MessagesOf(report, sp)
  <1>1. IsFiniteSet(L)
    BY FS_Subset DEF Notify!NotifyAssumption, Notify!IsFiniteSet, IsFiniteSet
  <1>2. /\ Cardinality(L) \in Nat /\ loud \in [1..Cardinality(L) -> L]
        /\ \A a, b \in 1..Cardinality(L) : loud[a] = loud[b] => a = b
        /\ \A e \in L : \E i \in 1..Cardinality(L) : loud[i] = e
    BY <1>1, NotifyEnumerated
  <1>3. M = [i \in DOMAIN loud |-> [repo |-> loud[i], key |-> report[loud[i]],
                                    id |-> sp[loud[i]].id]]
    BY DEF Notify!MessagesOf
  <1> HIDE DEF M, loud
  <1>4. \A i \in 1..Cardinality(L) : loud[i] \in Repo
        /\ ~Notify!Settles(loud[i], report[loud[i]])
    BY <1>2
  <1>5. /\ DOMAIN M = 1..Cardinality(L)
        /\ \A i \in 1..Cardinality(L) :
             /\ M[i].repo = loud[i] /\ M[i].key = report[loud[i]] /\ M[i].id = sp[loud[i]].id
             /\ M[i] \in Notify!Message
    BY <1>2, <1>3, <1>4 DEF Notify!Message
  <1>6. M \in Seq(Notify!Message)
    <2>1. M \in [1..Cardinality(L) -> Notify!Message]
      BY <1>2, <1>3, <1>5
    <2> QED BY <1>2, <2>1, SeqDef
  <1>7. \A m \in Notify!ToSet(M) : \E i \in 1..Cardinality(L) : m = M[i]
    BY <1>5 DEF Notify!ToSet
  <1>8. \A r \in Repo : ~Notify!Settles(r, report[r])
        => \E m \in Notify!ToSet(M) : m.id = sp[r].id
    <2> SUFFICES ASSUME NEW r \in Repo, ~Notify!Settles(r, report[r])
          PROVE  \E m \in Notify!ToSet(M) : m.id = sp[r].id
      OBVIOUS
    <2>1. PICK i \in 1..Cardinality(L) : loud[i] = r
      BY <1>2
    <2>2. M[i] \in Notify!ToSet(M) /\ M[i].id = sp[r].id
      BY <1>5, <2>1 DEF Notify!ToSet
    <2> QED BY <2>2
  <1>9. \A a, b \in DOMAIN M : M[a].repo = M[b].repo => a = b
    BY <1>2, <1>5
  <1>10. \A m \in Notify!ToSet(M) : /\ m.repo \in Repo
                                       /\ ~Notify!Settles(m.repo, report[m.repo])
                             /\ m.key = report[m.repo] /\ m.id = sp[m.repo].id
    BY <1>4, <1>5, <1>7
  <1> QED BY <1>6, <1>8, <1>9, <1>10 DEF M

-----------------------------------------------------------------------------
(* What the message that is sent next is.                                  *)
LEMMA NotifyHeadOfTodo ==
  ASSUME Notify!NotifyAssumption, NotifyInv, todo # <<>>
  PROVE  /\ pc = "delivering"
         /\ Head(todo) \in Notify!Message /\ Head(todo) \in NotifyMessages
         /\ Tail(todo) \in Seq(Notify!Message)
         /\ Notify!ToSet(todo) = {Head(todo)} \cup Notify!ToSet(Tail(todo))
         /\ Notify!Ids(todo) = {Head(todo).id} \cup Notify!Ids(Tail(todo))
         /\ NotifySorted(Tail(todo), Notify!Excused)
         /\ \A n \in Notify!ToSet(Tail(todo)) : NotifyAfter(Head(todo), n, Notify!Excused)
         /\ Head(todo).id \in unsaved
         /\ \A n \in Notify!ToSet(next.kept) : n.repo \in failed
            /\ NotifyAfter(n, Head(todo), Notify!Excused)
         /\ \A n \in Notify!ToSet(sent) : NotifyAfter(n, Head(todo), Notify!Excused)
  <1>1. pc = "delivering" /\ todo \in Seq(Notify!Message)
    BY DEF NotifyInv, NotifyTodoOK, Notify!TypeOK
  <1>2. NotifySorted(todo, Notify!Excused)
    BY <1>1 DEF NotifyInv, NotifyPassOrderOK
  <1>3. /\ Head(todo) \in Notify!Message /\ Tail(todo) \in Seq(Notify!Message)
        /\ Notify!ToSet(todo) = {Head(todo)} \cup Notify!ToSet(Tail(todo))
        /\ Notify!Ids(todo) = {Head(todo).id} \cup Notify!Ids(Tail(todo))
    BY <1>1, NotifyToSetTail
  <1>4. NotifySorted(Tail(todo), Notify!Excused)
        /\ \A n \in Notify!ToSet(Tail(todo)) : NotifyAfter(Head(todo), n, Notify!Excused)
    BY <1>1, <1>2, NotifySortedTail
  <1>5. Head(todo) \in Notify!ToSet(todo)
    BY <1>3
  <1> QED BY <1>1, <1>3, <1>4, <1>5
             DEF NotifyInv, NotifyTodoOK, NotifyUnsavedOK, NotifyPassOrderOK, NotifyPrecedes,
                 NotifyMessages

(* A message that failed, or that waits, is held, and its repository's     *)
(* later ones wait for it.                                                 *)
LEMMA NotifySendHolds ==
  ASSUME Notify!NotifyAssumption, NotifyInv, todo # <<>>, Notify!Hold(Head(todo)),
         todo' = Tail(todo),
         failed' = failed \cup {Head(todo).repo},
         UNCHANGED <<pc, state, saved, spell, reports, events, unsaved, crashes, sent, lapsed>>
  PROVE  NotifyInv'
  <1> DEFINE m == Head(todo)
             holds == Notify!FromKept(m) \/ Notify!IsEvent(m.key)
             news  == ~Notify!FromKept(m) /\ Notify!IsEvent(m.key)
  <1>1. /\ pc = "delivering" /\ m \in Notify!Message /\ m \in NotifyMessages
        /\ Tail(todo) \in Seq(Notify!Message)
        /\ Notify!ToSet(todo) = {m} \cup Notify!ToSet(todo')
        /\ Notify!Ids(todo) = {m.id} \cup Notify!Ids(todo')
        /\ NotifySorted(todo', Notify!Excused)
        /\ \A n \in Notify!ToSet(todo') : NotifyAfter(m, n, Notify!Excused)
        /\ m.id \in unsaved
        /\ \A n \in Notify!ToSet(next.kept) : n.repo \in failed
           /\ NotifyAfter(n, m, Notify!Excused)
        /\ \A n \in Notify!ToSet(sent) : NotifyAfter(n, m, Notify!Excused)
    BY NotifyHeadOfTodo
  <1>2. m.key \in NotifyOutcome /\ m.repo \in Repo /\ m.id \in 0..MaxReports
    BY <1>1 DEF Notify!Message
  <1>3. next \in Notify!State /\ next.kept \in Seq(Notify!Message)
        /\ next.key \in [Repo -> NotifyOutcome \cup {Notify!NoKey}]
    BY DEF NotifyInv, Notify!TypeOK, Notify!State
  <1>4. m \in Notify!ToSet(todo)
    BY <1>1
  <1>5. /\ next' \in Notify!State
        /\ next'.kept = IF holds THEN Append(next.kept, m) ELSE next.kept
        /\ next'.key = IF news THEN [next.key EXCEPT ![m.repo] = m.key] ELSE next.key
    <2>1. Append(next.kept, m) \in Seq(Notify!Message)
      BY <1>1, <1>3, AppendProperties
    <2>2. [next.key EXCEPT ![m.repo] = m.key] \in [Repo -> NotifyOutcome \cup {Notify!NoKey}]
      BY <1>2, <1>3
    <2> HIDE DEF m
    <2> QED BY <1>3, <2>1, <2>2 DEF Notify!Hold, Notify!State, m
  <1>6. /\ Notify!ToSet(next'.kept) = IF holds THEN Notify!ToSet(next.kept) \cup {m}
                                      ELSE Notify!ToSet(next.kept)
        /\ Notify!Ids(next'.kept) = IF holds THEN Notify!Ids(next.kept) \cup {m.id}
                                    ELSE Notify!Ids(next.kept)
    <2>1. /\ Notify!ToSet(Append(next.kept, m)) = Notify!ToSet(next.kept) \cup {m}
          /\ Notify!Ids(Append(next.kept, m)) = Notify!Ids(next.kept) \cup {m.id}
      BY <1>1, <1>3, NotifyToSetAppend
    <2> HIDE DEF m, holds
    <2> QED BY <1>5, <2>1
  <1>7. Notify!Excused' = Notify!Excused
    BY DEF Notify!Excused
  <1>8. /\ news => m.id = spell[m.repo].id /\ m.key = spell[m.repo].key
        /\ ~holds => m.id \notin events
    <2>1. Notify!FromKept(m) \/ (m.id = spell[m.repo].id /\ m.key = spell[m.repo].key)
      BY <1>4 DEF NotifyInv, NotifyTodoOK
    <2>2. m.id # 0
      BY <1>1 DEF NotifyInv, NotifyIdsOK
    <2> QED BY <1>2, <2>1, <2>2 DEF NotifyInv, NotifySpellEvents
  <1> HIDE DEF m
  <1>9. Notify!TypeOK'
    <2>1. failed' = failed \cup {m.repo}
      BY DEF m
    <2> QED BY <1>1, <1>2, <1>5, <2>1 DEF NotifyInv, Notify!TypeOK
  <1>10. NotifyMessages' \subseteq NotifyMessages
    BY <1>1, <1>6 DEF NotifyMessages
  <1>11. NotifyIdsOK'
    BY <1>10 DEF NotifyInv, NotifyIdsOK
  <1>12. NotifyKeptOK'
    <2>1. holds => Notify!IsEvent(m.key)
      BY DEF Notify!FromKept, NotifyInv, NotifyKeptOK
    <2> QED BY <1>6, <2>1 DEF NotifyInv, NotifyKeptOK
  <1>13. NotifySpellIds' /\ NotifySpellEvents'
    BY DEF NotifyInv, NotifySpellIds, NotifySpellEvents
  <1>14. \A r \in Repo : NotifyKeys'[r] = NotifyKeys[r] \/ (news /\ r = m.repo
         /\ NotifyKeys'[r] = spell[r].key)
    BY <1>1, <1>2, <1>3, <1>5, <1>8 DEF NotifyKeys
  <1>15. NotifySpellKnown'
    BY <1>14 DEF NotifyInv, NotifySpellKnown, NotifyLasts
  <1>16. NotifySpellNewest'
    BY <1>10 DEF NotifyInv, NotifySpellNewest, NotifyLasts
  <1>17. NotifyKeysOK'
    <2> SUFFICES ASSUME NEW r \in Repo
          PROVE  /\ Notify!IsTransitionOnly(NotifyKeys'[r]) => spell[r].key = NotifyKeys'[r]
                 /\ NotifyLasts(r) /\ NotifyKeys'[r] # spell[r].key
                    /\ spell[r].id \notin Notify!Excused =>
                      spell[r].id \notin Notify!Ids(sent) \cup Notify!Ids(state.kept) \cup Notify!Ids(next'.kept)
      BY <1>7 DEF NotifyKeysOK, NotifyLasts
    <2>1. CASE NotifyKeys'[r] = spell[r].key
      BY <2>1
    <2>2. CASE NotifyKeys'[r] # spell[r].key
      <3>1. NotifyKeys'[r] = NotifyKeys[r]
        BY <1>14, <2>2
      <3>2. /\ Notify!IsTransitionOnly(NotifyKeys[r]) => spell[r].key = NotifyKeys[r]
            /\ NotifyLasts(r) /\ spell[r].id \notin Notify!Excused =>
                 spell[r].id \notin Notify!Ids(sent) \cup Notify!Ids(state.kept) \cup Notify!Ids(next.kept)
        BY <1>1, <2>2, <3>1 DEF NotifyInv, NotifyKeysOK
      <3>3. ASSUME NotifyLasts(r), spell[r].id \notin Notify!Excused, holds
            PROVE  m.id # spell[r].id
        <4>1. CASE Notify!FromKept(m)
          <5>1. m.id \in Notify!Ids(state.kept)
            BY <4>1 DEF Notify!FromKept, Notify!Ids
          <5> QED BY <3>2, <3>3, <5>1
        <4>2. CASE news
          <5>1. m.repo = r \/ spell[m.repo].id # spell[r].id \/ spell[r].id = 0
            BY <1>2 DEF NotifyInv, NotifySpellIds
          <5>2. m.repo # r
            BY <1>1, <1>2, <1>3, <1>5, <1>8, <2>2, <4>2 DEF NotifyKeys
          <5>3. m.id # 0
            BY <1>1 DEF NotifyInv, NotifyIdsOK
          <5> QED BY <1>8, <4>2, <5>1, <5>2, <5>3
        <4> QED BY <3>3, <4>1, <4>2
      <3> QED BY <1>6, <3>1, <3>2, <3>3
    <2> QED BY <2>1, <2>2
  <1>18. NotifySavedKeysOK'
    BY <1>7 DEF NotifyInv, NotifySavedKeysOK, NotifyLasts
  <1>19. NotifyTodoOK'
    <2>1. \A n \in Notify!ToSet(next'.kept) : n.repo \in failed'
      BY <1>1, <1>6 DEF m
    <2> QED BY <1>1, <2>1 DEF NotifyInv, NotifyTodoOK, Notify!FromKept
  <1>20. NotifySavedOrderOK' /\ NotifyStateOrderOK'
    BY <1>1, <1>7 DEF NotifyInv, NotifySavedOrderOK, NotifyStateOrderOK, NotifyPrecedes
  <1>21. NotifyPassOrderOK'
    <2>1. NotifySorted(next.kept, Notify!Excused)
          /\ NotifyPrecedes(next.kept, todo, Notify!Excused)
          /\ NotifyPrecedes(sent, todo, Notify!Excused)
          /\ NotifyPrecedes(sent, next.kept, Notify!Excused)
      BY <1>1 DEF NotifyInv, NotifyPassOrderOK
    <2>2. NotifySorted(next'.kept, Notify!Excused)
      <3>1. NotifySorted(Append(next.kept, m), Notify!Excused)
        BY <1>1, <1>3, <2>1, NotifySortedAppend
      <3> QED BY <1>5, <2>1, <3>1
    <2>3. NotifyPrecedes(next'.kept, todo', Notify!Excused)
          /\ NotifyPrecedes(sent, todo', Notify!Excused)
          /\ NotifyPrecedes(sent, next'.kept, Notify!Excused)
      BY <1>1, <1>6, <2>1 DEF NotifyPrecedes
    <2> QED BY <1>1, <1>7, <2>2, <2>3 DEF NotifyPassOrderOK
  <1>22. NotifyUnsavedOK'
    BY <1>1, <1>6 DEF NotifyInv, NotifyUnsavedOK
  <1>23. NotifyEventsOK'
    <2>1. events \subseteq NotifyGone \cup Notify!Ids(todo) \cup Notify!Ids(next.kept)
      BY <1>1 DEF NotifyInv, NotifyEventsOK, NotifyAtHand
    <2>2. NotifyGone' = NotifyGone
      BY DEF NotifyGone, Notify!Excused, Notify!Ids
    <2>3. events' \subseteq NotifyGone' \cup Notify!Ids(todo') \cup Notify!Ids(next'.kept)
      BY <1>1, <1>6, <1>8, <2>1, <2>2
    <2> QED BY <1>1, <2>3 DEF NotifyEventsOK, NotifyAtHand
  <1> QED BY <1>9, <1>11, <1>12, <1>13, <1>15, <1>16, <1>17, <1>18, <1>19, <1>20, <1>21, <1>22,
             <1>23 DEF NotifyInv

(* A message that was taken, or whose repository has no webhook to offer,  *)
(* is done with.                                                           *)
LEMMA NotifySendDelivers ==
  ASSUME Notify!NotifyAssumption, NotifyInv, todo # <<>>, NEW received \in BOOLEAN,
         ~Notify!Waits(Head(todo)),
         Notify!Deliver(Head(todo), received), todo' = Tail(todo),
         UNCHANGED <<pc, state, saved, spell, reports, events, unsaved, crashes>>
  PROVE  NotifyInv'
  <1> DEFINE m == Head(todo)
             news == ~Notify!FromKept(m)
  <1>1. /\ pc = "delivering" /\ m \in Notify!Message /\ m \in NotifyMessages
        /\ Tail(todo) \in Seq(Notify!Message)
        /\ Notify!ToSet(todo) = {m} \cup Notify!ToSet(todo')
        /\ Notify!Ids(todo) = {m.id} \cup Notify!Ids(todo')
        /\ NotifySorted(todo', Notify!Excused)
        /\ \A n \in Notify!ToSet(todo') : NotifyAfter(m, n, Notify!Excused)
        /\ m.id \in unsaved
        /\ \A n \in Notify!ToSet(next.kept) : n.repo \in failed
           /\ NotifyAfter(n, m, Notify!Excused)
        /\ \A n \in Notify!ToSet(sent) : NotifyAfter(n, m, Notify!Excused)
    BY NotifyHeadOfTodo
  <1>2. m.key \in NotifyOutcome /\ m.repo \in Repo /\ m.id \in 0..MaxReports
    BY <1>1 DEF Notify!Message
  <1>3. /\ next \in Notify!State /\ next.kept \in Seq(Notify!Message)
        /\ next.key \in [Repo -> NotifyOutcome \cup {Notify!NoKey}]
        /\ sent \in Seq(Notify!Message)
        /\ lapsed \in [{"limit", "crash", "save", "config", "kept"} -> SUBSET (0..MaxReports)]
    BY DEF NotifyInv, Notify!TypeOK, Notify!State
  <1>4. m \in Notify!ToSet(todo) /\ m.repo \notin failed
    BY <1>1 DEF Notify!Waits
  <1>5. /\ next' \in Notify!State /\ next'.kept = next.kept /\ failed' = failed
        /\ next'.key = IF news THEN [next.key EXCEPT ![m.repo] = m.key] ELSE next.key
    <2>1. [next.key EXCEPT ![m.repo] = m.key] \in [Repo -> NotifyOutcome \cup {Notify!NoKey}]
      BY <1>2, <1>3
    <2> HIDE DEF m
    <2> QED BY <1>3, <2>1 DEF Notify!Deliver, Notify!State, m
  <1>6. /\ lapsed' \in [{"limit", "crash", "save", "config", "kept"} -> SUBSET (0..MaxReports)]
        /\ Notify!Excused' = Notify!Excused
        /\ Notify!Excused \cup lapsed.config \cup lapsed.kept
             \subseteq (Notify!Excused' \cup lapsed'.config \cup lapsed'.kept)
        /\ ~received => m.id \in lapsed'.config \cup lapsed'.kept
    <2> HIDE DEF m
    <2>1. CASE received
      BY <1>3, <2>1 DEF Notify!Deliver, m, Notify!Excused
    <2>2. CASE ~received /\ Notify!FromKept(m)
      <3>1. lapsed' = [lapsed EXCEPT !.kept = @ \cup {m.id}]
        BY <2>2 DEF Notify!Deliver, m
      <3> QED BY <1>2, <1>3, <2>2, <3>1 DEF Notify!Excused
    <2>3. CASE ~received /\ ~Notify!FromKept(m)
      <3>1. lapsed' = [lapsed EXCEPT !.config = @ \cup {m.id}]
        BY <2>3 DEF Notify!Deliver, m
      <3> QED BY <1>2, <1>3, <2>3, <3>1 DEF Notify!Excused
    <2> QED BY <2>1, <2>2, <2>3
  <1>7. /\ sent' \in Seq(Notify!Message)
        /\ Notify!ToSet(sent') = IF received THEN Notify!ToSet(sent) \cup {m}
                                 ELSE Notify!ToSet(sent)
        /\ Notify!Ids(sent') = IF received THEN Notify!Ids(sent) \cup {m.id} ELSE Notify!Ids(sent)
        /\ NotifySorted(sent', Notify!Excused)
    <2>1. NotifySorted(sent, Notify!Excused)
      BY DEF NotifyInv, NotifySavedOrderOK
    <2>2. /\ Notify!ToSet(Append(sent, m)) = Notify!ToSet(sent) \cup {m}
          /\ Append(sent, m) \in Seq(Notify!Message)
          /\ Notify!Ids(Append(sent, m)) = Notify!Ids(sent) \cup {m.id}
      BY <1>1, <1>3, NotifyToSetAppend
    <2>3. NotifySorted(Append(sent, m), Notify!Excused)
      BY <1>1, <1>3, <2>1, NotifySortedAppend
    <2>4. sent' = IF received THEN Append(sent, m) ELSE sent
      BY DEF Notify!Deliver
    <2> HIDE DEF m
    <2> QED BY <1>3, <2>1, <2>2, <2>3, <2>4
  <1>8. news => m.id = spell[m.repo].id /\ m.key = spell[m.repo].key
    BY <1>4 DEF NotifyInv, NotifyTodoOK
  <1> HIDE DEF m
  <1>9. Notify!TypeOK'
    <2>1. todo' \in Seq(Notify!Message)
      BY <1>1
    <2> QED BY <1>2, <1>5, <1>6, <1>7, <2>1 DEF NotifyInv, Notify!TypeOK
  <1>10. NotifyMessages' \subseteq NotifyMessages
    BY <1>1, <1>5, <1>7 DEF NotifyMessages
  <1>11. NotifyIdsOK' /\ NotifyKeptOK'
    BY <1>5, <1>10 DEF NotifyInv, NotifyIdsOK, NotifyKeptOK
  <1>13. NotifySpellIds' /\ NotifySpellEvents'
    BY DEF NotifyInv, NotifySpellIds, NotifySpellEvents
  <1>14. \A r \in Repo : NotifyKeys'[r] = NotifyKeys[r] \/ (news /\ r = m.repo
         /\ NotifyKeys'[r] = spell[r].key)
    BY <1>1, <1>2, <1>3, <1>5, <1>8 DEF NotifyKeys
  <1>15. NotifySpellKnown'
    BY <1>14 DEF NotifyInv, NotifySpellKnown, NotifyLasts
  <1>16. NotifySpellNewest'
    BY <1>10 DEF NotifyInv, NotifySpellNewest, NotifyLasts
  <1>17. NotifyKeysOK'
    <2> SUFFICES ASSUME NEW r \in Repo
          PROVE  /\ Notify!IsTransitionOnly(NotifyKeys'[r]) => spell[r].key = NotifyKeys'[r]
                 /\ NotifyLasts(r) /\ NotifyKeys'[r] # spell[r].key
                    /\ spell[r].id \notin Notify!Excused =>
                      spell[r].id \notin Notify!Ids(sent') \cup Notify!Ids(state.kept) \cup Notify!Ids(next.kept)
      BY <1>5, <1>6 DEF NotifyKeysOK, NotifyLasts
    <2>1. CASE NotifyKeys'[r] = spell[r].key
      BY <2>1
    <2>2. CASE NotifyKeys'[r] # spell[r].key
      <3>1. NotifyKeys'[r] = NotifyKeys[r]
        BY <1>14, <2>2
      <3>2. /\ Notify!IsTransitionOnly(NotifyKeys[r]) => spell[r].key = NotifyKeys[r]
            /\ NotifyLasts(r) /\ spell[r].id \notin Notify!Excused =>
                 spell[r].id \notin Notify!Ids(sent) \cup Notify!Ids(state.kept) \cup Notify!Ids(next.kept)
        BY <1>1, <2>2, <3>1 DEF NotifyInv, NotifyKeysOK
      <3>3. ASSUME NotifyLasts(r), spell[r].id \notin Notify!Excused
            PROVE  m.id # spell[r].id
        <4>1. CASE Notify!FromKept(m)
          <5>1. m.id \in Notify!Ids(state.kept)
            BY <4>1 DEF Notify!FromKept, Notify!Ids
          <5> QED BY <3>2, <3>3, <5>1
        <4>2. CASE news
          <5>1. m.repo = r \/ spell[m.repo].id # spell[r].id \/ spell[r].id = 0
            BY <1>2 DEF NotifyInv, NotifySpellIds
          <5>2. m.repo # r
            BY <1>1, <1>2, <1>3, <1>5, <1>8, <2>2, <4>2 DEF NotifyKeys
          <5>3. m.id # 0
            BY <1>1 DEF NotifyInv, NotifyIdsOK
          <5> QED BY <1>8, <4>2, <5>1, <5>2, <5>3
        <4> QED BY <4>1, <4>2
      <3> QED BY <1>7, <3>1, <3>2, <3>3
    <2> QED BY <2>1, <2>2
  <1>18. NotifySavedKeysOK'
    BY <1>1, <1>6, <1>7 DEF NotifyInv, NotifySavedKeysOK, NotifyLasts
  <1>19. NotifyTodoOK'
    BY <1>1, <1>5 DEF NotifyInv, NotifyTodoOK, Notify!FromKept
  <1>20. NotifySavedOrderOK'
    <2>1. \A n \in Notify!ToSet(saved.kept) : NotifyAfter(m, n, Notify!Excused \cup unsaved)
      BY <1>1 DEF NotifyAfter
    <2> QED BY <1>6, <1>7, <2>1 DEF NotifyInv, NotifySavedOrderOK, NotifyPrecedes
  <1>21. NotifyPassOrderOK'
    <2>1. NotifySorted(next.kept, Notify!Excused)
          /\ NotifyPrecedes(next.kept, todo, Notify!Excused)
          /\ NotifyPrecedes(sent, todo, Notify!Excused)
          /\ NotifyPrecedes(sent, next.kept, Notify!Excused)
      BY <1>1 DEF NotifyInv, NotifyPassOrderOK
    <2>2. \A n \in Notify!ToSet(next.kept) : NotifyAfter(m, n, Notify!Excused)
      BY <1>1, <1>4 DEF NotifyAfter
    <2>3. NotifyPrecedes(next'.kept, todo', Notify!Excused)
          /\ NotifyPrecedes(sent', todo', Notify!Excused)
          /\ NotifyPrecedes(sent', next'.kept, Notify!Excused)
      BY <1>1, <1>5, <1>7, <2>1, <2>2 DEF NotifyPrecedes
    <2> QED BY <1>1, <1>5, <1>6, <2>1, <2>3 DEF NotifyPassOrderOK
  <1>22. NotifyStateOrderOK' /\ NotifyUnsavedOK'
    BY <1>1, <1>5 DEF NotifyInv, NotifyUnsavedOK, NotifyStateOrderOK
  <1>23. NotifyEventsOK'
    <2>1. events \subseteq NotifyGone \cup Notify!Ids(todo) \cup Notify!Ids(next.kept)
      BY <1>1 DEF NotifyInv, NotifyEventsOK, NotifyAtHand
    <2>2. NotifyGone \cup {m.id} \subseteq NotifyGone'
      BY <1>6, <1>7 DEF NotifyGone
    <2>3. events' \subseteq NotifyGone' \cup Notify!Ids(todo') \cup Notify!Ids(next'.kept)
      BY <1>1, <1>5, <2>1, <2>2
    <2> QED BY <1>1, <2>3 DEF NotifyEventsOK, NotifyAtHand
  <1> QED BY <1>9, <1>11, <1>13, <1>15, <1>16, <1>17, <1>18, <1>19, <1>20, <1>21, <1>22, <1>23
          DEF NotifyInv

LEMMA NotifyStepSend ==
  ASSUME Notify!NotifyAssumption, NotifyInv, NEW r \in Repo, NEW ok \in BOOLEAN,
         Notify!Send(r, ok)
  PROVE  NotifyInv'
  <1> DEFINE m == Head(todo)
  <1>1. /\ todo # <<>> /\ m.repo = r /\ todo' = Tail(todo)
        /\ UNCHANGED <<pc, state, saved, spell, reports, events, unsaved, crashes>>
    BY DEF Notify!Send
  <1>2. CASE Notify!Waits(m)
    <2>1. Notify!Hold(m) /\ UNCHANGED <<sent, failed, lapsed>>
      BY <1>2 DEF Notify!Send
    <2>2. failed' = failed \cup {m.repo}
      BY <1>2, <2>1 DEF Notify!Waits
    <2> QED BY <1>1, <2>1, <2>2, NotifySendHolds
  <1>3. CASE ~Notify!Waits(m)
    <2>1. \/ Notify!Deliver(m, TRUE)
          \/ Notify!Deliver(m, FALSE)
          \/ Notify!Hold(m) /\ failed' = failed \cup {r} /\ UNCHANGED <<sent, lapsed>>
      BY <1>3 DEF Notify!Send
    <2> QED BY <1>1, <1>3, <2>1, NotifySendHolds, NotifySendDelivers
  <1> QED BY <1>2, <1>3

(* The pass is over.                                                       *)
LEMMA NotifyStepEndSweep ==
  ASSUME Notify!NotifyAssumption, NotifyInv, Notify!EndSweep
  PROVE  NotifyInv'
  <1> DEFINE kept == Notify!Newest(next.kept)
  <1>1. /\ pc = "delivering" /\ pc' = "saving" /\ todo = <<>>
        /\ state' = [next EXCEPT !.kept = kept]
        /\ lapsed' = [lapsed EXCEPT !.limit = @ \cup (Notify!Ids(next.kept) \ Notify!Ids(kept))]
        /\ UNCHANGED <<saved, todo, failed, next, spell, reports, events, sent, unsaved, crashes>>
    BY DEF Notify!EndSweep
  <1>2. /\ next \in Notify!State /\ next.kept \in Seq(Notify!Message)
        /\ next.key \in [Repo -> NotifyOutcome \cup {Notify!NoKey}]
        /\ lapsed \in [{"limit", "crash", "save", "config", "kept"} -> SUBSET (0..MaxReports)]
    BY DEF NotifyInv, Notify!TypeOK, Notify!State
  <1>3. /\ kept \in Seq(Notify!Message) /\ Notify!ToSet(kept) \subseteq Notify!ToSet(next.kept)
        /\ Notify!Ids(kept) \subseteq Notify!Ids(next.kept) /\ Len(kept) <= Limit
    BY <1>2, NotifyToSetNewest
  <1>4. NotifySorted(kept, Notify!Excused)
    <2>1. NotifySorted(next.kept, Notify!Excused)
      BY <1>1 DEF NotifyInv, NotifyPassOrderOK
    <2> QED BY <1>2, <2>1, NotifySortedNewest
  <1> HIDE DEF kept
  <1>5. state' \in Notify!State /\ state'.kept = kept /\ state'.key = next.key
    BY <1>1, <1>2, <1>3 DEF Notify!State
  <1>6. Notify!Ids(next.kept) \subseteq 0..MaxReports
    <2>1. \A i \in DOMAIN next.kept : next.kept[i] \in Notify!Message
      BY <1>2
    <2> QED BY <2>1 DEF Notify!Ids, Notify!ToSet, Notify!Message
  <1>7. /\ lapsed' \in [{"limit", "crash", "save", "config", "kept"} -> SUBSET (0..MaxReports)]
        /\ lapsed'.limit = lapsed.limit \cup (Notify!Ids(next.kept) \ Notify!Ids(kept))
        /\ lapsed'.crash = lapsed.crash /\ lapsed'.save = lapsed.save
        /\ lapsed'.config = lapsed.config /\ lapsed'.kept = lapsed.kept
    BY <1>1, <1>2, <1>6
  <1>8. Notify!Excused \subseteq Notify!Excused'
        /\ Notify!Ids(next.kept) \ Notify!Ids(kept) \subseteq Notify!Excused'
    BY <1>7 DEF Notify!Excused
  <1>9. Notify!TypeOK'
    BY <1>1, <1>3, <1>5, <1>7 DEF NotifyInv, Notify!TypeOK
  <1>10. NotifyMessages' \subseteq NotifyMessages
    BY <1>1, <1>3, <1>5 DEF NotifyMessages
  <1>11. NotifyIdsOK' /\ NotifyKeptOK'
    BY <1>1, <1>3, <1>5, <1>10 DEF NotifyInv, NotifyIdsOK, NotifyKeptOK
  <1>12. NotifySpellIds' /\ NotifySpellEvents' /\ NotifySpellNewest'
    BY <1>1, <1>10
       DEF NotifyInv, NotifySpellIds, NotifySpellEvents, NotifySpellNewest, NotifyLasts
  <1>13. NotifyKeys' = NotifyKeys
    BY <1>1, <1>5 DEF NotifyKeys
  <1>14. NotifySpellKnown'
    BY <1>1, <1>13 DEF NotifyInv, NotifySpellKnown, NotifyLasts
  <1>15. NotifyKeysOK'
    BY <1>1, <1>3, <1>5, <1>8, <1>13 DEF NotifyInv, NotifyKeysOK, NotifyLasts
  <1>16. NotifySavedKeysOK' /\ NotifyTodoOK'
    BY <1>1, <1>8
       DEF NotifyInv, NotifySavedKeysOK, NotifyTodoOK, NotifyLasts, Notify!FromKept,
           Notify!ToSet
  <1>17. NotifySavedOrderOK'
    BY <1>1, <1>8, NotifySortedMore, NotifyPrecedesMore DEF NotifyInv, NotifySavedOrderOK
  <1>18. NotifyStateOrderOK'
    <2>1. NotifyPrecedes(sent, next.kept, Notify!Excused)
      BY <1>1 DEF NotifyInv, NotifyPassOrderOK
    <2>2. NotifyPrecedes(sent, kept, Notify!Excused)
      BY <1>3, <2>1 DEF NotifyPrecedes
    <2> QED BY <1>1, <1>4, <1>5, <1>8, <2>2, NotifySortedMore, NotifyPrecedesMore
               DEF NotifyStateOrderOK
  <1>19. NotifyPassOrderOK' /\ NotifyUnsavedOK'
    BY <1>1, <1>3, <1>5 DEF NotifyInv, NotifyPassOrderOK, NotifyUnsavedOK
  <1>20. NotifyEventsOK'
    <2>1. events \subseteq NotifyGone \cup Notify!Ids(todo) \cup Notify!Ids(next.kept)
          /\ Notify!Ids(todo) = {}
      BY <1>1, NotifyToSetEmpty DEF NotifyInv, NotifyEventsOK, NotifyAtHand
    <2>2. NotifyGone \subseteq NotifyGone'
          /\ Notify!Ids(next.kept) \subseteq NotifyGone' \cup Notify!Ids(kept)
      BY <1>1, <1>7, <1>8 DEF NotifyGone
    <2> QED BY <1>1, <1>5, <2>1, <2>2 DEF NotifyEventsOK, NotifyAtHand
  <1> QED BY <1>9, <1>11, <1>12, <1>14, <1>15, <1>16, <1>17, <1>18, <1>19, <1>20 DEF NotifyInv

(* The state is saved, or is not.                                          *)
LEMMA NotifyStepSave ==
  ASSUME Notify!NotifyAssumption, NotifyInv, Notify!Save
  PROVE  NotifyInv'
  <1>1. /\ pc = "saving" /\ pc' = "waiting"
        /\ UNCHANGED <<state, todo, failed, next, spell, reports, events, sent, lapsed, crashes>>
        /\ \/ saved' = state /\ unsaved' = {}
           \/ saved' = saved /\ unsaved' = unsaved
    BY DEF Notify!Save
  <1>2. Notify!Excused' = Notify!Excused /\ NotifyGone' = NotifyGone /\ NotifyKeys = state.key
        /\ NotifyKeys' = state.key
    BY <1>1 DEF Notify!Excused, NotifyGone, NotifyKeys
  <1>3. Notify!TypeOK' /\ NotifyIdsOK' /\ NotifyKeptOK'
    BY <1>1 DEF NotifyInv, Notify!TypeOK, NotifyIdsOK, NotifyKeptOK, NotifyMessages
  <1>4. NotifySpellIds' /\ NotifySpellEvents' /\ NotifySpellNewest'
    BY <1>1
       DEF NotifyInv, NotifySpellIds, NotifySpellEvents, NotifySpellNewest, NotifyMessages,
           NotifyLasts
  <1>5. NotifySpellKnown'
    BY <1>1, <1>2 DEF NotifyInv, NotifySpellKnown, NotifyLasts
  <1>6. NotifyKeysOK'
    BY <1>1, <1>2 DEF NotifyInv, NotifyKeysOK, NotifyLasts
  <1>7. NotifySavedKeysOK'
    BY <1>1, <1>2 DEF NotifyInv, NotifySavedKeysOK, NotifyKeysOK, NotifyLasts
  <1>8. NotifyTodoOK' /\ NotifyPassOrderOK' /\ NotifyStateOrderOK'
    BY <1>1, <1>2
       DEF NotifyInv, NotifyTodoOK, NotifyPassOrderOK, NotifyStateOrderOK, Notify!FromKept
  <1>9. NotifySavedOrderOK'
    <2>1. NotifySorted(state.kept, Notify!Excused)
          /\ NotifyPrecedes(sent, state.kept, Notify!Excused)
      BY <1>1 DEF NotifyInv, NotifyStateOrderOK
    <2>2. NotifyPrecedes(sent, state.kept, Notify!Excused \cup {})
      BY <2>1, NotifyPrecedesMore
    <2> QED BY <1>1, <1>2, <2>1, <2>2 DEF NotifyInv, NotifySavedOrderOK
  <1>10. NotifyUnsavedOK' /\ NotifyEventsOK'
    BY <1>1, <1>2 DEF NotifyInv, NotifyUnsavedOK, NotifyEventsOK, NotifyAtHand
  <1> QED BY <1>3, <1>4, <1>5, <1>6, <1>7, <1>8, <1>9, <1>10 DEF NotifyInv

(* The process dies: what is unsaved is lost, or said again.               *)
LEMMA NotifyStepCrash ==
  ASSUME Notify!NotifyAssumption, NotifyInv, Notify!Crash
  PROVE  NotifyInv'
  <1>1. /\ pc # "down" /\ crashes < MaxCrashes /\ crashes' = crashes + 1
        /\ pc' = "down" /\ unsaved' = {} /\ state' = Notify!Empty /\ next' = Notify!Empty
        /\ todo' = <<>>
        /\ failed' = {} /\ UNCHANGED <<saved, spell, reports, events, sent>>
        /\ lapsed' = IF pc = "waiting" THEN [lapsed EXCEPT !.save = @ \cup unsaved]
                     ELSE [lapsed EXCEPT !.crash = @ \cup unsaved]
    BY DEF Notify!Crash
  <1>2. /\ lapsed \in [{"limit", "crash", "save", "config", "kept"} -> SUBSET (0..MaxReports)]
        /\ unsaved \subseteq 0..MaxReports /\ sent \in Seq(Notify!Message)
    BY DEF NotifyInv, Notify!TypeOK
  <1>3. /\ lapsed' \in [{"limit", "crash", "save", "config", "kept"} -> SUBSET (0..MaxReports)]
        /\ Notify!Excused' = Notify!Excused \cup unsaved
        /\ lapsed'.config = lapsed.config /\ lapsed'.kept = lapsed.kept
    <2>1. CASE pc = "waiting"
      <3>1. lapsed' = [lapsed EXCEPT !.save = @ \cup unsaved]
        BY <1>1, <2>1
      <3> QED BY <1>2, <3>1 DEF Notify!Excused
    <2>2. CASE pc # "waiting"
      <3>1. lapsed' = [lapsed EXCEPT !.crash = @ \cup unsaved]
        BY <1>1, <2>2
      <3> QED BY <1>2, <3>1 DEF Notify!Excused
    <2> QED BY <2>1, <2>2
  <1>4. Notify!Empty \in Notify!State /\ Notify!Empty.kept = <<>> /\ Len(Notify!Empty.kept) = 0
        /\ Notify!ToSet(Notify!Empty.kept) = {}
        /\ Notify!Ids(Notify!Empty.kept) = {} /\ <<>> \in Seq(Notify!Message)
    BY NotifyToSetEmpty, EmptySeq DEF Notify!Empty, Notify!State
  <1>5. Notify!TypeOK'
    <2>1. crashes' \in 0..MaxCrashes
      BY <1>1 DEF NotifyInv, Notify!TypeOK, Notify!NotifyAssumption
    <2>2. Len(Notify!Empty.kept) <= Limit
      BY <1>4 DEF Notify!NotifyAssumption
    <2> QED BY <1>1, <1>3, <1>4, <2>1, <2>2 DEF NotifyInv, Notify!TypeOK
  <1>6. NotifyMessages' \subseteq NotifyMessages
    BY <1>1, <1>4, NotifyToSetEmpty DEF NotifyMessages
  <1>7. NotifyIdsOK' /\ NotifyKeptOK'
    BY <1>1, <1>4, <1>6 DEF NotifyInv, NotifyIdsOK, NotifyKeptOK
  <1>8. NotifySpellIds' /\ NotifySpellEvents' /\ NotifySpellKnown' /\ NotifySpellNewest'
    BY <1>1, <1>6
       DEF NotifyInv, NotifySpellIds, NotifySpellEvents, NotifySpellKnown, NotifySpellNewest,
           NotifyLasts
  <1>9. NotifyKeysOK' /\ NotifyStateOrderOK' /\ NotifyPassOrderOK'
    BY <1>1 DEF NotifyKeysOK, NotifyStateOrderOK, NotifyPassOrderOK
  <1>10. NotifySavedKeysOK'
    BY <1>1, <1>3 DEF NotifyInv, NotifySavedKeysOK, NotifyLasts
  <1>11. NotifyTodoOK'
    BY <1>1, NotifyToSetEmpty DEF NotifyTodoOK
  <1>12. NotifySavedOrderOK'
    <2>1. NotifySorted(sent, Notify!Excused') /\ NotifySorted(saved.kept, Notify!Excused')
      BY <1>3, NotifySortedMore DEF NotifyInv, NotifySavedOrderOK
    <2>2. NotifyPrecedes(sent, saved.kept, Notify!Excused' \cup unsaved')
      BY <1>1, <1>3, NotifyPrecedesMore DEF NotifyInv, NotifySavedOrderOK
    <2> QED BY <1>1, <2>1, <2>2 DEF NotifySavedOrderOK
  <1>13. NotifyUnsavedOK'
    BY <1>1 DEF NotifyUnsavedOK
  <1>14. NotifyEventsOK'
    <2>1. NotifyAtHand \subseteq Notify!Ids(saved.kept) \cup unsaved
      <3>1. pc \in {"waiting", "delivering", "saving", "down"}
        BY DEF NotifyInv, Notify!TypeOK
      <3> QED BY <1>1, <3>1 DEF NotifyInv, NotifyUnsavedOK, NotifyAtHand
    <2>2. NotifyGone \cup unsaved \subseteq NotifyGone'
      BY <1>1, <1>3 DEF NotifyGone
    <2>3. NotifyAtHand' = Notify!Ids(saved.kept)
      BY <1>1 DEF NotifyAtHand
    <2> QED BY <1>1, <2>1, <2>2, <2>3 DEF NotifyInv, NotifyEventsOK
  <1> QED BY <1>5, <1>7, <1>8, <1>9, <1>10, <1>11, <1>12, <1>13, <1>14 DEF NotifyInv

(* It starts again with the state of the file.                             *)
LEMMA NotifyStepRestart ==
  ASSUME Notify!NotifyAssumption, NotifyInv, Notify!Restart
  PROVE  NotifyInv'
  <1> DEFINE goesOn(r) == Notify!IsTransitionOnly(saved.key[r]) /\ saved.key[r] # spell[r].key
  <1>1. /\ pc = "down" /\ pc' = "waiting" /\ state' = saved
        /\ UNCHANGED <<saved, todo, failed, next, reports, events, sent, unsaved, lapsed, crashes>>
        /\ spell' = [r \in Repo |-> IF goesOn(r) THEN [key |-> saved.key[r], id |-> 0]
                                    ELSE spell[r]]
    BY DEF Notify!Restart
  <1>2. /\ saved \in Notify!State /\ saved.key \in [Repo -> NotifyOutcome \cup {Notify!NoKey}]
        /\ spell \in [Repo -> [key : NotifyOutcome, id : 0..MaxReports]]
        /\ reports \in Nat /\ MaxReports \in Nat
    BY DEF NotifyInv, Notify!TypeOK, Notify!State, Notify!NotifyAssumption
  <1>3. unsaved = {} /\ next = Notify!Empty /\ todo = <<>> /\ Notify!Ids(next.kept) = {}
        /\ Notify!Ids(todo) = {}
    BY <1>1, NotifyToSetEmpty DEF NotifyInv, NotifyUnsavedOK, NotifyTodoOK, Notify!Empty
  <1>4. Notify!Excused' = Notify!Excused /\ NotifyGone' = NotifyGone /\ NotifyKeys' = saved.key
    BY <1>1 DEF Notify!Excused, NotifyGone, NotifyKeys
  <1>5. \A r \in Repo :
          \/ /\ goesOn(r) /\ spell'[r].key = saved.key[r] /\ spell'[r].id = 0
             /\ saved.key[r] \in {"no_landing", "error", "paused"}
          \/ ~goesOn(r) /\ spell'[r] = spell[r]
    BY <1>1, <1>2 DEF Notify!IsTransitionOnly
  <1>6. spell' \in [Repo -> [key : NotifyOutcome, id : 0..MaxReports]]
    <2> SUFFICES ASSUME NEW r \in Repo, goesOn(r)
          PROVE  [key |-> saved.key[r], id |-> 0] \in [key : NotifyOutcome, id : 0..MaxReports]
      BY <1>1, <1>2
    <2>1. saved.key[r] \in NotifyOutcome
      BY <1>2 DEF Notify!IsTransitionOnly, Notify!NoKey
    <2> QED BY <1>2, <2>1
  <1> HIDE DEF goesOn
  <1>7. Notify!TypeOK'
    BY <1>1, <1>6 DEF NotifyInv, Notify!TypeOK
  <1>8. NotifyMessages' \subseteq NotifyMessages
    BY <1>1 DEF NotifyMessages
  <1>9. NotifyIdsOK' /\ NotifyKeptOK'
    BY <1>1, <1>8 DEF NotifyInv, NotifyIdsOK, NotifyKeptOK
  <1>10. NotifySpellIds' /\ NotifySpellEvents'
    <2>1. \A r \in Repo : spell'[r].id \in 0..reports
      BY <1>2, <1>5 DEF NotifyInv, NotifySpellIds
    <2>2. \A r, x \in Repo : spell'[r].id = spell'[x].id => r = x \/ spell'[r].id = 0
      BY <1>5 DEF NotifyInv, NotifySpellIds
    <2>3. NotifySpellEvents'
      BY <1>1, <1>5 DEF NotifyInv, NotifySpellEvents
    <2> QED BY <1>1, <2>1, <2>2, <2>3 DEF NotifyInv, NotifySpellIds
  <1>11. NotifySpellKnown'
    BY <1>1, <1>4, <1>5 DEF NotifyInv, NotifySpellKnown, NotifyLasts
  <1>12. NotifySpellNewest'
    BY <1>1, <1>5, <1>8 DEF NotifyInv, NotifySpellNewest, NotifyLasts
  <1>13. \A r \in Repo : NotifyLasts(r)' /\ saved.key[r] # spell'[r].key => spell'[r] = spell[r]
    BY <1>5 DEF NotifyLasts
  <1>14. NotifyKeysOK'
    <2>1. \A r \in Repo : Notify!IsTransitionOnly(saved.key[r]) => spell'[r].key = saved.key[r]
      BY <1>5 DEF goesOn
    <2>2. \A r \in Repo :
            NotifyLasts(r)' /\ saved.key[r] # spell'[r].key
                /\ spell'[r].id \notin Notify!Excused =>
              spell'[r].id \notin Notify!Ids(sent) \cup Notify!Ids(saved.kept) \cup Notify!Ids(next.kept)
      BY <1>3, <1>13 DEF NotifyInv, NotifySavedKeysOK, NotifyLasts
    <2> QED BY <1>1, <1>4, <2>1, <2>2 DEF NotifyKeysOK, NotifyLasts
  <1>15. NotifySavedKeysOK'
    BY <1>1, <1>4, <1>13 DEF NotifyInv, NotifySavedKeysOK, NotifyLasts
  <1>16. NotifyTodoOK' /\ NotifyPassOrderOK'
    BY <1>1, <1>3, NotifyToSetEmpty DEF NotifyTodoOK, NotifyPassOrderOK
  <1>17. NotifySavedOrderOK'
    BY <1>1, <1>4 DEF NotifyInv, NotifySavedOrderOK
  <1>18. NotifyStateOrderOK'
    <2>1. NotifyPrecedes(sent, saved.kept, Notify!Excused)
      BY <1>3, NotifyPrecedesMore DEF NotifyInv, NotifySavedOrderOK
    <2> QED BY <1>1, <1>4, <2>1 DEF NotifyInv, NotifySavedOrderOK, NotifyStateOrderOK
  <1>19. NotifyUnsavedOK' /\ NotifyEventsOK'
    BY <1>1, <1>4 DEF NotifyInv, NotifyUnsavedOK, NotifyEventsOK, NotifyAtHand
  <1> QED BY <1>7, <1>9, <1>10, <1>11, <1>12, <1>14, <1>15, <1>16, <1>17, <1>18, <1>19
             DEF NotifyInv

(* A pass reports its outcomes.                                            *)
LEMMA NotifyStepSweep ==
  ASSUME Notify!NotifyAssumption, NotifyInv, Notify!Sweep
  PROVE  NotifyInv'
  <1>1. PICK report \in [Repo -> NotifyOutcome] :
          /\ reports + Notify!Cardinality(Notify!Fresh(report)) <= MaxReports
          /\ reports' = reports + Notify!Cardinality(Notify!Fresh(report))
          /\ spell' = Notify!SpellOf(report)
          /\ todo' = state.kept \o Notify!MessagesOf(report, spell')
          /\ next' = [key  |-> [r \in Repo |-> IF Notify!Settles(r, report[r]) THEN report[r] ELSE Notify!NoKey],
                      kept |-> <<>>]
          /\ events' = events \cup {spell'[r].id : r \in {x \in Repo : Notify!IsEvent(report[x])}}
          /\ unsaved' = unsaved \cup Notify!Ids(todo')
    BY DEF Notify!Sweep
  <1>2. /\ pc = "waiting" /\ pc' = "delivering" /\ failed' = {}
        /\ UNCHANGED <<state, saved, sent, lapsed, crashes>>
    BY DEF Notify!Sweep
  <1> DEFINE M == Notify!MessagesOf(report, spell')
             new(r) == spell'[r].id \in (reports + 1)..reports'
             old(r) == /\ NotifyLasts(r) /\ spell[r].key = report[r] /\ spell'[r] = spell[r]
                       /\ state.key[r] = report[r] <=> Notify!Settles(r, report[r])
                       /\ spell[r].id = 0 => Notify!Settles(r, report[r])
                          /\ saved.key[r] = report[r]
                       /\ ~Notify!Settles(r, report[r]) /\ spell[r].id \notin Notify!Excused =>
                            spell[r].id \notin Notify!Ids(sent) \cup Notify!Ids(state.kept)
  <1>3. /\ reports \in Nat /\ reports' \in Nat /\ reports <= reports' /\ reports' <= MaxReports
        /\ spell' \in [Repo -> [key : NotifyOutcome, id : 0..MaxReports]]
        /\ \A r \in Repo :
             \/ report[r] = "idle" /\ spell'[r].key = "idle" /\ spell'[r].id = 0
             \/ /\ report[r] # "idle" /\ ~Notify!Continues(r, report[r])
                /\ spell'[r].key = report[r]
                /\ new(r)
             \/ /\ report[r] # "idle" /\ Notify!Continues(r, report[r]) /\ spell'[r] = spell[r]
        /\ \A r, x \in Repo : spell'[r].id = spell'[x].id => r = x \/ spell'[r].id = 0
    BY <1>1, NotifySpells DEF NotifyInv
  <1>4. /\ M \in Seq(Notify!Message)
        /\ \A m \in Notify!ToSet(M) : /\ m.repo \in Repo
                                         /\ ~Notify!Settles(m.repo, report[m.repo])
                               /\ m.key = report[m.repo] /\ m.id = spell'[m.repo].id
        /\ \A r \in Repo : ~Notify!Settles(r, report[r])
           => \E m \in Notify!ToSet(M) : m.id = spell'[r].id
        /\ \A a, b \in DOMAIN M : M[a].repo = M[b].repo => a = b
    BY <1>3, NotifyNewMessages
  <1> HIDE DEF M
  <1>5. NotifyKeys = state.key /\ NotifyKeys' = next'.key /\ Notify!Excused' = Notify!Excused
        /\ NotifyGone' = NotifyGone
    BY <1>2 DEF NotifyKeys, Notify!Excused, NotifyGone
  <1>6. \A r \in Repo : Notify!Continues(r, report[r]) /\ spell'[r] = spell[r] => old(r)
    <2> SUFFICES ASSUME NEW r \in Repo, Notify!Continues(r, report[r]), spell'[r] = spell[r]
          PROVE  old(r)
      OBVIOUS
    <2>1. NotifyLasts(r) /\ spell[r].key = report[r] /\ Notify!IsTransitionOnly(report[r])
          /\ report[r] # "idle"
      BY DEF Notify!Continues, NotifyLasts, Notify!IsTransitionOnly
    <2>2. state.key[r] = report[r] <=> Notify!Settles(r, report[r])
      BY <2>1 DEF Notify!Settles
    <2>3. spell[r].id = 0 => Notify!Settles(r, report[r]) /\ saved.key[r] = report[r]
      BY <1>2, <1>5, <2>1, <2>2 DEF NotifyInv, NotifySpellKnown
    <2>4. ~Notify!Settles(r, report[r]) /\ spell[r].id \notin Notify!Excused =>
            spell[r].id \notin Notify!Ids(sent) \cup Notify!Ids(state.kept)
      BY <1>2, <1>5, <2>1, <2>2 DEF NotifyInv, NotifyKeysOK
    <2> QED BY <2>1, <2>2, <2>3, <2>4
  <1>7. \A r \in Repo : Notify!Settles(r, report[r]) /\ report[r] # "idle"
        => Notify!Continues(r, report[r])
    <2> SUFFICES ASSUME NEW r \in Repo, Notify!Settles(r, report[r]), report[r] # "idle"
          PROVE  Notify!Continues(r, report[r])
      OBVIOUS
    <2>1. Notify!IsTransitionOnly(report[r]) /\ state.key[r] = report[r]
      BY DEF Notify!Settles
    <2> QED BY <1>2, <1>5, <2>1 DEF NotifyInv, NotifyKeysOK, Notify!Continues
  <1> HIDE DEF old
  <1>8. \A r \in Repo :
          \/ report[r] = "idle" /\ spell'[r].key = "idle" /\ spell'[r].id = 0
             /\ Notify!Settles(r, report[r])
          \/ /\ report[r] # "idle" /\ spell'[r].key = report[r] /\ new(r)
             /\ ~Notify!Settles(r, report[r])
          \/ report[r] # "idle" /\ old(r)
    BY <1>3, <1>6, <1>7 DEF Notify!Settles
  <1>9. \A r \in Repo : spell[r].id \in 0..reports
    BY DEF NotifyInv, NotifySpellIds
  <1>10. \A m \in Notify!ToSet(M) :
           /\ m.id \in 1..reports'
           /\ m.key = spell'[m.repo].key
           /\ \A k \in Notify!ToSet(sent) \cup Notify!ToSet(state.kept) : NotifyAfter(k, m, Notify!Excused)
    <2> SUFFICES ASSUME NEW m \in Notify!ToSet(M)
          PROVE  /\ m.id \in 1..reports'
                 /\ m.key = spell'[m.repo].key
                 /\ \A k \in Notify!ToSet(sent) \cup Notify!ToSet(state.kept) : NotifyAfter(k, m, Notify!Excused)
      OBVIOUS
    <2> DEFINE r == m.repo
    <2>1. r \in Repo /\ ~Notify!Settles(r, report[r]) /\ m.key = report[r]
          /\ m.id = spell'[r].id
      BY <1>4
    <2> HIDE DEF r
    <2>2. \A k \in Notify!ToSet(sent) \cup Notify!ToSet(state.kept) :
            k \in NotifyMessages /\ k.id \in 1..reports
                /\ k.id \in Notify!Ids(sent) \cup Notify!Ids(state.kept)
      BY DEF NotifyInv, NotifyIdsOK, NotifyMessages, Notify!Ids
    <2>3. CASE new(r) /\ spell'[r].key = report[r]
      <3>1. m.id \in (reports + 1)..reports'
        BY <2>1, <2>3
      <3>2. \A k \in Notify!ToSet(sent) \cup Notify!ToSet(state.kept) : k.id < m.id
            /\ k.id # m.id
        BY <1>3, <2>2, <3>1
      <3>3. \A k \in Notify!ToSet(sent) \cup Notify!ToSet(state.kept) : NotifyAfter(k, m, Notify!Excused)
        BY <3>2 DEF NotifyAfter
      <3>4. m.id \in 1..reports'
        BY <1>3, <3>1
      <3> QED BY <2>1, <2>3, <3>3, <3>4 DEF r
    <2>4. CASE old(r)
      <3>1. /\ NotifyLasts(r) /\ spell[r].key = report[r] /\ spell'[r] = spell[r]
            /\ spell[r].id # 0
            /\ spell[r].id \notin Notify!Excused
               => spell[r].id \notin Notify!Ids(sent) \cup Notify!Ids(state.kept)
        BY <2>1, <2>4 DEF old
      <3>2. m.id \in 1..reports'
        BY <1>3, <1>9, <2>1, <3>1
      <3>3. ASSUME NEW k \in Notify!ToSet(sent) \cup Notify!ToSet(state.kept)
            PROVE  NotifyAfter(k, m, Notify!Excused)
        <4>1. k.repo = r => k.id <= m.id
          BY <2>1, <2>2, <3>1 DEF NotifyInv, NotifySpellNewest
        <4>2. k.id = m.id => k.id \in Notify!Excused
          BY <2>1, <2>2, <3>1
        <4>3. k.id \in Nat /\ m.id \in Nat
          BY <1>3, <2>2, <3>2
        <4>4. k.repo = r /\ k.id \notin Notify!Excused => k.id < m.id
          BY <4>1, <4>2, <4>3
        <4> QED BY <4>2, <4>4 DEF NotifyAfter, r
      <3> QED BY <2>1, <3>1, <3>2, <3>3 DEF r
    <2>5. report[r] # "idle"
      BY <2>1 DEF Notify!Settles
    <2> QED BY <1>8, <2>1, <2>3, <2>4, <2>5
  <1>11. /\ state \in Notify!State /\ state.kept \in Seq(Notify!Message)
    BY DEF NotifyInv, Notify!TypeOK, Notify!State
  <1>12. /\ todo' \in Seq(Notify!Message)
         /\ Notify!ToSet(todo') = Notify!ToSet(state.kept) \cup Notify!ToSet(M)
         /\ Notify!Ids(todo') = Notify!Ids(state.kept) \cup Notify!Ids(M)
    BY <1>1, <1>4, <1>11, NotifyToSetConcat DEF M
  <1>13. /\ next'.kept = <<>> /\ Notify!ToSet(next'.kept) = {} /\ Notify!Ids(next'.kept) = {}
         /\ next' \in Notify!State
         /\ \A r \in Repo : next'.key[r] = IF Notify!Settles(r, report[r]) THEN report[r] ELSE Notify!NoKey
    <2>1. <<>> \in Seq(Notify!Message)
      BY EmptySeq
    <2>2. [r \in Repo |-> IF Notify!Settles(r, report[r]) THEN report[r] ELSE Notify!NoKey]
            \in [Repo -> NotifyOutcome \cup {Notify!NoKey}]
      OBVIOUS
    <2> QED BY <1>1, <2>1, <2>2, NotifyToSetEmpty DEF Notify!State
  <1>14. Notify!TypeOK'
    <2>1. Notify!Ids(todo') \subseteq 0..MaxReports
      <3>1. \A i \in DOMAIN todo' : todo'[i] \in Notify!Message
        BY <1>12
      <3> QED BY <3>1 DEF Notify!Ids, Notify!ToSet, Notify!Message
    <2>2. events' \subseteq 0..MaxReports
      <3>1. \A r \in Repo : spell'[r].id \in 0..MaxReports
        BY <1>3
      <3> QED BY <1>1, <3>1 DEF NotifyInv, Notify!TypeOK
    <2>3. reports' \in 0..MaxReports
      BY <1>3 DEF Notify!NotifyAssumption
    <2> QED BY <1>1, <1>2, <1>3, <1>12, <1>13, <2>1, <2>2, <2>3 DEF NotifyInv, Notify!TypeOK
  <1>15. NotifyMessages' \subseteq NotifyMessages \cup Notify!ToSet(M)
    BY <1>2, <1>12, <1>13 DEF NotifyMessages
  <1>16. \A m \in NotifyMessages : m.id \in 1..reports
    BY DEF NotifyInv, NotifyIdsOK
  <1>17. NotifyIdsOK' /\ NotifyKeptOK'
    <2>1. 1..reports \subseteq 1..reports'
      BY <1>3
    <2> QED BY <1>2, <1>10, <1>13, <1>15, <1>16, <2>1 DEF NotifyInv, NotifyIdsOK, NotifyKeptOK
  <1>18. NotifySpellIds'
    <2>1. \A r \in Repo : spell'[r].id \in 0..reports'
      BY <1>3, <1>8, <1>9 DEF old
    <2>2. events \subseteq 0..reports'
      BY <1>3 DEF NotifyInv, NotifySpellIds
    <2> QED BY <1>1, <1>3, <2>1, <2>2 DEF NotifySpellIds
  <1>19. NotifySpellEvents'
    <2> SUFFICES ASSUME NEW r \in Repo
          PROVE  /\ Notify!IsEvent(spell'[r].key) => spell'[r].id \in events' \cup {0}
                 /\ ~Notify!IsEvent(spell'[r].key) => spell'[r].id = 0
                    \/ spell'[r].id \notin events'
      BY DEF NotifySpellEvents
    <2>1. CASE report[r] = "idle" /\ spell'[r].key = "idle" /\ spell'[r].id = 0
      BY <2>1 DEF Notify!IsEvent
    <2>2. spell'[r].key = report[r] /\ Notify!IsEvent(report[r]) => spell'[r].id \in events'
      BY <1>1
    <2>3. ASSUME ~Notify!IsEvent(report[r]), spell'[r].id # 0, spell'[r].id \in events'
          PROVE  spell'[r].id \in events
      BY <1>1, <1>3, <2>3
    <2>4. CASE spell'[r].key = report[r] /\ new(r)
      <3>1. spell'[r].id \notin events
        BY <1>3, <2>4 DEF NotifyInv, NotifySpellIds
      <3> QED BY <2>2, <2>3, <2>4, <3>1
    <2>5. CASE old(r)
      <3>1. spell'[r] = spell[r] /\ spell'[r].key = report[r]
        BY <2>5 DEF old
      <3> QED BY <2>2, <2>3, <3>1 DEF NotifyInv, NotifySpellEvents
    <2> QED BY <1>8, <2>1, <2>4, <2>5
  <1>20. NotifySpellKnown'
    <2> SUFFICES ASSUME NEW r \in Repo, NotifyLasts(r)', spell'[r].id = 0
          PROVE  saved.key[r] = spell'[r].key /\ next'.key[r] = spell'[r].key
      BY <1>2, <1>5 DEF NotifySpellKnown
    <2>1. spell'[r].key # "idle"
      BY DEF NotifyLasts, Notify!IsTransitionOnly
    <2>2. old(r)
      BY <1>3, <1>8, <2>1
    <2> QED BY <1>13, <2>2 DEF old
  <1>21. NotifySpellNewest'
    <2> SUFFICES ASSUME NEW r \in Repo, NotifyLasts(r)', spell'[r].id # 0,
                        NEW m \in NotifyMessages', m.repo = r
          PROVE  m.id <= spell'[r].id
      BY DEF NotifySpellNewest
    <2>1. CASE m \in Notify!ToSet(M)
      BY <1>3, <1>4, <1>10, <2>1
    <2>2. CASE m \in NotifyMessages
      <3>1. CASE new(r)
        BY <1>3, <1>16, <2>2, <3>1
      <3>2. CASE old(r)
        BY <2>2, <3>2 DEF NotifyInv, NotifySpellNewest, old
      <3> QED BY <1>8, <3>1, <3>2
    <2> QED BY <1>15, <2>1, <2>2
  <1>22. \A r \in Repo : new(r) => spell'[r].id \notin Notify!Ids(sent) \cup Notify!Ids(state.kept) \cup Notify!Ids(saved.kept)
    <2>1. \A i \in Notify!Ids(sent) \cup Notify!Ids(state.kept) \cup Notify!Ids(saved.kept) : i \in 1..reports
      BY <1>16 DEF Notify!Ids, NotifyMessages
    <2> QED BY <1>3, <2>1
  <1>23. NotifyKeysOK'
    <2> SUFFICES ASSUME NEW r \in Repo
          PROVE  /\ Notify!IsTransitionOnly(next'.key[r]) => spell'[r].key = next'.key[r]
                 /\ Notify!IsTransitionOnly(spell'[r].key) /\ next'.key[r] # spell'[r].key
                      /\ spell'[r].id \notin Notify!Excused =>
                      spell'[r].id \notin Notify!Ids(sent) \cup Notify!Ids(state.kept)
      BY <1>2, <1>5, <1>13 DEF NotifyKeysOK, NotifyLasts
    <2>1. CASE report[r] = "idle" /\ spell'[r].key = "idle"
      BY <1>13, <2>1 DEF Notify!IsTransitionOnly, Notify!NoKey
    <2>2. CASE spell'[r].key = report[r] /\ new(r) /\ ~Notify!Settles(r, report[r])
      BY <1>13, <1>22, <2>2 DEF Notify!IsTransitionOnly, Notify!NoKey
    <2>3. CASE old(r)
      BY <1>13, <2>3 DEF old, Notify!IsTransitionOnly, Notify!NoKey
    <2> QED BY <1>8, <2>1, <2>2, <2>3
  <1>24. NotifySavedKeysOK'
    <2> SUFFICES ASSUME NEW r \in Repo, NotifyLasts(r)', saved.key[r] # spell'[r].key,
                        spell'[r].id \notin Notify!Excused \cup unsaved
          PROVE  spell'[r].id \notin Notify!Ids(sent) \cup Notify!Ids(saved.kept)
      BY <1>1, <1>2, <1>5 DEF NotifySavedKeysOK
    <2>1. spell'[r].key # "idle"
      BY DEF NotifyLasts, Notify!IsTransitionOnly
    <2>2. CASE new(r)
      BY <1>22, <2>2
    <2>3. CASE old(r)
      BY <2>3 DEF old, NotifyInv, NotifySavedKeysOK
    <2> QED BY <1>8, <2>1, <2>2, <2>3
  <1>25. NotifyTodoOK'
    <2>1. \A m \in Notify!ToSet(todo') : Notify!FromKept(m)' \/ (m.id = spell'[m.repo].id
          /\ m.key = spell'[m.repo].key)
      BY <1>2, <1>4, <1>10, <1>12 DEF Notify!FromKept
    <2> QED BY <1>2, <1>13, <2>1 DEF NotifyTodoOK
  <1>26. NotifySavedOrderOK' /\ NotifyStateOrderOK'
    <2>1. NotifyPrecedes(sent, saved.kept, Notify!Excused \cup unsaved')
      BY <1>1, NotifyPrecedesMore DEF NotifyInv, NotifySavedOrderOK
    <2> QED BY <1>2, <1>5, <2>1 DEF NotifyInv, NotifySavedOrderOK, NotifyStateOrderOK
  <1>27. NotifyPassOrderOK'
    <2>1. NotifySorted(state.kept, Notify!Excused)
          /\ NotifyPrecedes(sent, state.kept, Notify!Excused)
      BY <1>2 DEF NotifyInv, NotifyStateOrderOK
    <2>2. NotifyPrecedes(state.kept, M, Notify!Excused)
          /\ NotifyPrecedes(sent, M, Notify!Excused)
      BY <1>10 DEF NotifyPrecedes
    <2>3. NotifySorted(M, Notify!Excused)
      <3> SUFFICES ASSUME NEW a \in DOMAIN M, NEW b \in DOMAIN M, a < b
            PROVE  NotifyAfter(M[a], M[b], Notify!Excused)
        BY DEF NotifySorted
      <3>1. M[a] \in Notify!ToSet(M) /\ M[b] \in Notify!ToSet(M)
        BY DEF Notify!ToSet
      <3>2. M[a].repo # M[b].repo
        <4>1. a # b
          BY <1>4
        <4> QED BY <1>4, <4>1
      <3>3. M[a].id # 0
        BY <1>10, <3>1
      <3>4. M[a].id # M[b].id
        BY <1>3, <1>4, <3>1, <3>2, <3>3
      <3> QED BY <3>2, <3>4 DEF NotifyAfter
    <2>4. NotifySorted(todo', Notify!Excused)
      BY <1>1, <1>4, <1>11, <2>1, <2>2, <2>3, NotifySortedConcat DEF M
    <2>5. NotifyPrecedes(sent, todo', Notify!Excused)
      BY <1>12, <2>1, <2>2 DEF NotifyPrecedes
    <2>6. NotifyPrecedes(next'.kept, todo', Notify!Excused)
          /\ NotifyPrecedes(sent, next'.kept, Notify!Excused)
      BY <1>13 DEF NotifyPrecedes
    <2> QED BY <1>2, <1>5, <1>13, <2>4, <2>5, <2>6, NotifyToSetEmpty DEF NotifyPassOrderOK
  <1>28. NotifyUnsavedOK'
    BY <1>1, <1>2, <1>13 DEF NotifyUnsavedOK
  <1>29. NotifyEventsOK'
    <2>1. events \subseteq NotifyGone \cup Notify!Ids(state.kept)
      BY <1>2 DEF NotifyInv, NotifyEventsOK, NotifyAtHand
    <2>2. ASSUME NEW r \in Repo, Notify!IsEvent(report[r])
          PROVE  spell'[r].id \in events \cup {0} \cup Notify!Ids(M)
      <3>1. CASE ~Notify!Settles(r, report[r])
        BY <1>4, <3>1 DEF Notify!Ids
      <3>2. CASE Notify!Settles(r, report[r])
        <4>1. old(r)
          BY <1>8, <2>2, <3>2 DEF Notify!IsEvent
        <4> QED BY <2>2, <4>1 DEF old, NotifyInv, NotifySpellEvents
      <3> QED BY <3>1, <3>2
    <2>3. 0 \in NotifyGone
      BY DEF NotifyGone
    <2>4. events' \subseteq NotifyGone \cup Notify!Ids(todo')
      BY <1>1, <1>12, <2>1, <2>2, <2>3
    <2> QED BY <1>2, <1>5, <2>4 DEF NotifyEventsOK, NotifyAtHand
  <1> QED BY <1>14, <1>17, <1>18, <1>19, <1>20, <1>21, <1>23, <1>24, <1>25, <1>26, <1>27, <1>28,
             <1>29 DEF NotifyInv

-----------------------------------------------------------------------------
LEMMA NotifyInitInv == Notify!NotifyAssumption /\ Notify!Init => NotifyInv
  <1> SUFFICES ASSUME Notify!NotifyAssumption, Notify!Init PROVE NotifyInv
    OBVIOUS
  <1>1. /\ Notify!Empty \in Notify!State /\ Notify!Empty.kept = <<>>
        /\ Len(Notify!Empty.kept) = 0 /\ Notify!ToSet(Notify!Empty.kept) = {}
        /\ Notify!Ids(Notify!Empty.kept) = {} /\ <<>> \in Seq(Notify!Message)
           /\ \A r \in Repo : Notify!Empty.key[r] = Notify!NoKey
    BY NotifyToSetEmpty, EmptySeq DEF Notify!Empty, Notify!State
  <1>2. /\ pc = "waiting" /\ state = Notify!Empty /\ saved = Notify!Empty /\ next = Notify!Empty
        /\ todo = <<>> /\ failed = {} /\ sent = <<>> /\ events = {}
        /\ unsaved = {}
        /\ lapsed = [limit |-> {}, crash |-> {}, save |-> {}, config |-> {}, kept |-> {}]
        /\ spell = [r \in Repo |-> [key |-> "idle", id |-> 0]]
        /\ reports = 0 /\ crashes = 0
    BY DEF Notify!Init
  <1>3. Notify!TypeOK
    BY <1>1, <1>2 DEF Notify!TypeOK, Notify!NotifyAssumption
  <1>4. NotifyMessages = {}
    BY <1>1, <1>2, NotifyToSetEmpty DEF NotifyMessages
  <1>5. NotifyIdsOK /\ NotifyKeptOK
    BY <1>1, <1>2, <1>4 DEF NotifyIdsOK, NotifyKeptOK
  <1>6. \A r \in Repo : ~NotifyLasts(r) /\ spell[r].id = 0 /\ spell[r].key = "idle"
    BY <1>2 DEF NotifyLasts, Notify!IsTransitionOnly
  <1>7. NotifySpellIds /\ NotifySpellEvents /\ NotifySpellKnown /\ NotifySpellNewest
    BY <1>2, <1>6 DEF NotifySpellIds, NotifySpellEvents, NotifySpellKnown, NotifySpellNewest
  <1>8. NotifyKeysOK /\ NotifySavedKeysOK
    BY <1>1, <1>2, <1>6
       DEF NotifyKeysOK, NotifySavedKeysOK, NotifyKeys, Notify!IsTransitionOnly, Notify!NoKey
  <1>9. NotifyTodoOK
    BY <1>2, NotifyToSetEmpty DEF NotifyTodoOK
  <1>10. NotifySavedOrderOK /\ NotifyPassOrderOK /\ NotifyStateOrderOK
    BY <1>1, <1>2, NotifyToSetEmpty
       DEF NotifySavedOrderOK, NotifyPassOrderOK, NotifyStateOrderOK, NotifyPrecedes
  <1>11. NotifyUnsavedOK /\ NotifyEventsOK
    BY <1>1, <1>2 DEF NotifyUnsavedOK, NotifyEventsOK
  <1> QED BY <1>3, <1>5, <1>7, <1>8, <1>9, <1>10, <1>11 DEF NotifyInv

LEMMA NotifyNextInv == Notify!NotifyAssumption /\ NotifyInv /\ [Notify!Next]_Notify!vars
    => NotifyInv'
  <1> SUFFICES ASSUME Notify!NotifyAssumption, NotifyInv,
                      [Notify!Next]_Notify!vars PROVE NotifyInv'
    OBVIOUS
  <1>1. CASE UNCHANGED Notify!vars
    <2> USE <1>1 DEF Notify!vars, NotifyInv
    <2>1. Notify!TypeOK' /\ NotifyIdsOK' /\ NotifyKeptOK' /\ NotifyKeys' = NotifyKeys
      BY DEF Notify!TypeOK, NotifyIdsOK, NotifyKeptOK, NotifyMessages, NotifyKeys
    <2>2. NotifySpellIds' /\ NotifySpellEvents' /\ NotifySpellKnown' /\ NotifySpellNewest'
      BY <2>1
         DEF NotifySpellIds, NotifySpellEvents, NotifySpellKnown, NotifySpellNewest,
             NotifyLasts, NotifyMessages
    <2>3. NotifyKeysOK' /\ NotifySavedKeysOK' /\ NotifyTodoOK'
      BY <2>1
         DEF NotifyKeysOK, NotifySavedKeysOK, NotifyTodoOK, NotifyLasts, Notify!Excused,
             Notify!FromKept
    <2>4. NotifySavedOrderOK' /\ NotifyPassOrderOK' /\ NotifyStateOrderOK'
      BY DEF NotifySavedOrderOK, NotifyPassOrderOK, NotifyStateOrderOK, Notify!Excused
    <2>5. NotifyUnsavedOK' /\ NotifyEventsOK'
      BY DEF NotifyUnsavedOK, NotifyEventsOK, NotifyGone, NotifyAtHand, Notify!Excused
    <2> QED BY <2>1, <2>2, <2>3, <2>4, <2>5
  <1>2. CASE Notify!Next
    BY <1>2, NotifyStepSweep, NotifyStepEndSweep, NotifyStepSave, NotifyStepCrash,
       NotifyStepRestart, NotifyStepSend DEF Notify!Next
  <1> QED BY <1>1, <1>2

(* What the invariant promises.                                            *)
LEMMA NotifyInvHolds == Notify!NotifyAssumption /\ NotifyInv => Notify!TypeOK
    /\ Notify!NothingLost /\ Notify!NoRepeat /\ Notify!InOrder
  <1> SUFFICES ASSUME Notify!NotifyAssumption,
                      NotifyInv PROVE Notify!TypeOK /\ Notify!NothingLost /\ Notify!NoRepeat
                          /\ Notify!InOrder
    OBVIOUS
  <1>1. Notify!NothingLost
    <2>1. NotifyAtHand \subseteq Notify!Waiting
      BY DEF NotifyInv, NotifyUnsavedOK, NotifyAtHand, Notify!Waiting
    <2> QED BY <2>1
               DEF NotifyInv, NotifyEventsOK, NotifyGone, Notify!NothingLost, Notify!Accounted,
                   Notify!Excused
  <1>2. sent \in Seq(Notify!Message) /\ NotifySorted(sent, Notify!Excused)
        /\ \A i \in DOMAIN sent : i \in Nat
    BY DEF NotifyInv, Notify!TypeOK, NotifySavedOrderOK
  <1>3. Notify!NoRepeat
    <2> SUFFICES ASSUME NEW i \in DOMAIN sent, NEW j \in DOMAIN sent, sent[i].id = sent[j].id,
                        i # j
          PROVE  sent[i].id \in Notify!Excused
      BY DEF Notify!NoRepeat
    <2>1. i < j \/ j < i
      BY <1>2
    <2> QED BY <1>2, <2>1 DEF NotifySorted, NotifyAfter
  <1>4. Notify!InOrder
    BY <1>2 DEF Notify!InOrder, NotifySorted, NotifyAfter
  <1> QED BY <1>1, <1>3, <1>4 DEF NotifyInv

-----------------------------------------------------------------------------
(***************************************************************************)
(* The parts together.                                                     *)
(***************************************************************************)

QueueInv ==
  /\ part = "queue"   => Queue!Inv /\ Queue!InOrder /\ Queue!History
  /\ part = "ordered" => Ordered!Inv /\ Ordered!InOrder /\ Ordered!History

GcInv ==
  /\ part = "gc"      => Collect!IInv /\ Collect!CommitsKept
  /\ part = "checked" => Checked!IInv /\ Checked!CommitsKept

Inv == QueueInv /\ GcInv /\ (part = "hub" => HubInv) /\ (part = "notify" => NotifyInv)

(* A step is a step of the part that the behaviour is about.               *)
LEMMA StepOfPart ==
  ASSUME [Next]_all
  PROVE  /\ part' = part
         /\ part = "queue"   => [Queue!Next]_Queue!vars
         /\ part = "ordered" => [Ordered!Next]_Ordered!vars
         /\ part = "gc"      => [Collect!Next]_Collect!vars
         /\ part = "checked" => [Checked!Next]_Checked!vars
         /\ part = "hub"     => [Hub!Next]_Hub!vars
         /\ part = "notify"  => [Notify!Next]_Notify!vars
  <1>1. CASE UNCHANGED all
    BY <1>1 DEF all, queueVars, gcVars, hubVars, notifyVars, Queue!vars, Ordered!vars,
                Collect!vars, Checked!vars, Hub!vars, Notify!vars
  <1>2. CASE Next
    BY <1>2 DEF Next, QueueStep, GcStep, HubStep, NotifyStep
  <1> QED BY <1>1, <1>2

LEMMA InitInv ==
  ASSUME Init
  PROVE  Inv
  <1>1. part = "queue" => Queue!Inv /\ Queue!InOrder /\ Queue!History
    BY CommandsAssumption, Queue!InitInv, Queue!InitHistory DEF Init
  <1>2. part = "ordered" => Ordered!Inv /\ Ordered!InOrder /\ Ordered!History
    BY CommandsAssumption, Ordered!InitInv, Ordered!InitHistory DEF Init
  <1>3. part = "gc" => Collect!IInv /\ Collect!CommitsKept
    BY CommandsAssumption, Collect!InitHolds DEF Init
  <1>4. part = "checked" => Checked!IInv /\ Checked!CommitsKept
    BY CommandsAssumption, Checked!InitHolds DEF Init
  <1>5. part = "hub" => HubInv
    BY CommandsAssumption, HubInitInv DEF Init
  <1>6. part = "notify" => NotifyInv
    BY CommandsAssumption, NotifyInitInv DEF Init
  <1> QED BY <1>1, <1>2, <1>3, <1>4, <1>5, <1>6 DEF Inv, QueueInv, GcInv

LEMMA NextInv ==
  ASSUME Inv, [Next]_all
  PROVE  Inv'
  <1>1. CASE part = "queue"
    BY <1>1, CommandsAssumption, StepOfPart, Queue!NextInv, Queue!NextHistory
       DEF Inv, QueueInv, GcInv
  <1>2. CASE part = "ordered"
    BY <1>2, CommandsAssumption, StepOfPart, Ordered!NextInv, Ordered!NextHistory
       DEF Inv, QueueInv, GcInv
  <1>3. CASE part = "gc"
    BY <1>3, CommandsAssumption, StepOfPart, Collect!StepKeeps, Collect!CommitsStepKeeps
       DEF Inv, QueueInv, GcInv
  <1>4. CASE part = "checked"
    BY <1>4, CommandsAssumption, StepOfPart, Checked!StepKeeps, Checked!CommitsStepKeeps
       DEF Inv, QueueInv, GcInv
  <1>5. CASE part = "hub"
    BY <1>5, CommandsAssumption, StepOfPart, HubNextInv DEF Inv, QueueInv, GcInv
  <1>6. CASE part = "notify"
    BY <1>6, CommandsAssumption, StepOfPart, NotifyNextInv DEF Inv, QueueInv, GcInv
  <1>7. CASE part \notin {"queue", "ordered", "gc", "checked", "hub", "notify"}
    BY <1>7, StepOfPart DEF Inv, QueueInv, GcInv
  <1> QED BY <1>1, <1>2, <1>3, <1>4, <1>5, <1>6, <1>7

LEMMA InvAlways == Spec => []Inv
  BY InitInv, NextInv, PTL DEF Spec

(* However agents' commands overlap with each other and with a runner that *)
(* claims, records and dies, no branch has two rows to be run and no task  *)
(* is queued twice, or again after it landed.                              *)
THEOREM QueueRunsOnce == Spec => []RunsOnce
  <1>1. Inv => RunsOnce
    BY DEF Inv, QueueInv, Queue!Inv, Ordered!Inv, RunsOnce
  <1> QED BY <1>1, InvAlways, PTL

(* No enqueue, retry or supersede makes an approval that no human gave for *)
(* the branch and for the destination and policy it names.                 *)
THEOREM QueueAutoGranted == Spec => []AutoGranted
  <1>1. Inv => AutoGranted
    BY DEF Inv, QueueInv, Queue!Inv, Ordered!Inv, AutoGranted
  <1> QED BY <1>1, InvAlways, PTL

(* However supersedes overlap with a runner that records trains and dies,  *)
(* nothing of a train that has replacements is ever run, landed or Ready.  *)
THEOREM QueueReplacesRetired == Spec => []ReplacesRetired
  <1>1. Inv => ReplacesRetired
    BY DEF Inv, QueueInv, Queue!History, Ordered!History, ReplacesRetired
  <1> QED BY <1>1, InvAlways, PTL

(* With ordered processing, whatever retries there are, no step lands a    *)
(* task while an earlier one has a row to run.                             *)
THEOREM QueueLandsInOrder == Spec => LandsInOrder
  <1>1. Inv /\ [Next]_all => [part = "ordered" => Ordered!LandsFirst]_<<queueVars, row>>
    BY CommandsAssumption, StepOfPart, Ordered!NextHistory DEF Inv, QueueInv
  <1>2. Spec => [][Next]_all
    BY DEF Spec
  <1> QED BY <1>1, <1>2, InvAlways, PTL DEF LandsInOrder

(* gc removes no worktree from under a live runner or verify, loses no     *)
(* commit that is not on its branch or landed, and keeps the pin of a push *)
(* until its outcome is on record.                                         *)
THEOREM GcTakesNothing == Spec => []NothingTaken
  <1>1. Inv => NothingTaken
    <2>1. ASSUME Inv, part = "gc"
          PROVE  /\ Collect!TypeOK /\ Collect!WorktreeSpared /\ Collect!CommitsKept
                 /\ Collect!PinnedUntilKnown
      BY <2>1, CommandsAssumption, Collect!InvTypes, Collect!InvPinned, Collect!InvSpares
         DEF Inv, GcInv
    <2>2. ASSUME Inv, part = "checked"
          PROVE  /\ Checked!TypeOK /\ Checked!WorktreeSpared /\ Checked!CommitsKept
                 /\ Checked!PinnedUntilKnown
      BY <2>2, CommandsAssumption, Checked!InvTypes, Checked!InvPinned, Checked!InvSpares
         DEF Inv, GcInv
    <2> QED BY <2>1, <2>2 DEF NothingTaken
  <1> QED BY <1>1, InvAlways, PTL

(* However hub commands, a human's edits of the configs and a signal come  *)
(* between the steps of a sweep: an opt-out stays in the roster until it   *)
(* is answered anew, a sweep gives no turn to a queue that is off by       *)
(* whatever path reaches it, and no queue two; after a signal no sweep     *)
(* begins.                                                                 *)
THEOREM SweepsFollowRoster == Spec => []SweepFollowsRoster
  <1>1. Inv => SweepFollowsRoster
    BY CommandsAssumption, HubInvSweep DEF Inv, SweepFollowsRoster
  <1> QED BY <1>1, InvAlways, PTL

(* Whatever webhooks fail, saves fail and crashes come between the steps   *)
(* of the passes, an event that was reported is received, waits to be sent *)
(* again, or is one that the limit, a crash, a failed save or a config     *)
(* without a webhook lost; but for those, no report is received twice, and *)
(* a repository's events are received in order.                            *)
THEOREM NotifiesOnce == Spec => []DeliveredOnce
  <1>1. Inv => DeliveredOnce
    BY CommandsAssumption, NotifyInvHolds DEF Inv, DeliveredOnce
  <1> QED BY <1>1, InvAlways, PTL
=============================================================================
