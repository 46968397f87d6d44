---------------------------- MODULE StreamProofs ----------------------------
(***************************************************************************)
(* What is proved of a stream, for any jobs, scope, limit, retention,      *)
(* claims and gates.                                                       *)
(***************************************************************************)
EXTENDS Stream, Integers, SequenceTheorems, FiniteSetTheorems, TLAPS

(* A single claim, and polls that the events of it never fill.             *)
OneClaim == MaxClaims = 1 /\ Prompt /\ Limit > 1 + MaxGates + Cardinality(Job)

-----------------------------------------------------------------------------
Status == Ends \cup {"queued", "in_progress"}
Row    == [status : Status, token : Nat]

Increasing(s) == \A a, b \in DOMAIN s : a < b => s[a] < s[b]

Types ==
  /\ row \in [Job -> Row] /\ \A j \in Job : row[j].token <= claims
  /\ events \in Seq([job : Job \cup {None}, token : Nat])
  /\ claims \in Nat /\ lease \in {None, claims} /\ gates \in 0..MaxGates
  /\ dead \in BOOLEAN /\ orphaned \in BOOLEAN
  /\ runner \in [left : SUBSET Job, announce : Job \cup {None}]
  /\ pc \in {"rows", "tokens", "events", "lock", "ended"}
  /\ DOMAIN seen \subseteq Scope /\ \A j \in DOMAIN seen : seen[j] \in Row
  /\ pc \in {"tokens", "events", "lock"} => DOMAIN seen = Scope
  /\ pc = "rows" => DOMAIN seen # Scope
  /\ terminalSeen \in BOOLEAN
  /\ batch \in Seq(Nat) /\ printed \in Seq(Nat)
  /\ cursor \in 0..Len(events)

(* The ids that a poll has read come after the cursor, in order, and none  *)
(* of the scope's jobs is left out among them.                             *)
BatchOK ==
  /\ Increasing(batch) /\ Len(batch) <= Limit /\ Len(batch) <= Len(events)
  /\ \A a \in DOMAIN batch : batch[a] \in cursor + 1 .. Len(events)
  /\ pc # "lock" => batch = <<>>
  /\ \A i \in DOMAIN events :
       /\ i > cursor /\ events[i].job \in Scope /\ Kept(i)
       /\ batch # <<>> /\ i <= Last(batch)
       => i \in ToSet(batch)

(* What was printed is in order and up to the cursor.                      *)
PrintOK ==
  /\ Increasing(printed)
  /\ \A a \in DOMAIN printed : printed[a] <= cursor
  /\ NoJobEventSkipped

Inv == Types /\ BatchOK /\ PrintOK

-----------------------------------------------------------------------------
(* The one run: it takes queued jobs and finishes each, and what it has    *)
(* written is counted.                                                     *)
RunOK ==
  /\ claims \in {0, 1}
  /\ claims = 0 => /\ events = <<>> /\ lease = None /\ gates = 0
                   /\ \A j \in Job : row[j].status = "queued"
  /\ Running(row) = runner.left
  /\ \A j \in runner.left : row[j].token = 1
  /\ lease = None => runner = [left |-> {}, announce |-> None] /\ ~dead
  /\ dead /\ runner.left # {} => orphaned
  /\ Len(events) + Cardinality(runner.left) + (IF runner.announce = None THEN 0 ELSE 1)
       <= 1 + gates + Cardinality(Job)

(* No job of the scope will have another status,                           *)
Over == dead \/ (claims = 1 /\ lease = None) \/ \A j \in Scope : row[j].status \in Ends

(* nor another event.                                                      *)
Quiet == dead \/ runner.announce \notin Scope

(* What was read of the rows stays true of those that ended.               *)
SeenOK ==
  /\ \A j \in DOMAIN seen :
       /\ seen[j].status \in Ends => row[j].status \in Ends
       /\ seen[j].status = "in_progress" => seen[j].token = 1 /\ claims = 1
  /\ terminalSeen => \A j \in DOMAIN seen : seen[j].status = "in_progress" => orphaned

(* After a terminal poll all is over, and the next one begins when the     *)
(* last event is there.                                                    *)
TerminalOK ==
  /\ terminalSeen => Over
  /\ terminalSeen /\ ~Quiet => pc = "rows" /\ seen = <<>> /\ asleep = Pending
  /\ terminalSeen /\ pc = "lock" =>
       \A i \in DOMAIN events :
         i > cursor /\ events[i].job \in Scope /\ Kept(i) => i \in ToSet(batch)

EndOK ==
  pc = "ended" => /\ terminalSeen /\ ended.upTo \in 0..Len(events)
                  /\ EndsAfterAnnounced /\ LostIsLost

OneInv == RunOK /\ SeenOK /\ TerminalOK /\ EndOK

-----------------------------------------------------------------------------
(* Some member of the family includes no other.                            *)
HasSmallest(Fam) == \E A \in Fam : \A B \in Fam : B \subseteq A => B = A

(* A family of subsets of a finite set, if not empty, has a smallest       *)
(* member.                                                                 *)
LEMMA SmallestSubset ==
  ASSUME NEW S, IsFiniteSet(S), NEW Fam \in SUBSET SUBSET S, Fam # {}
  PROVE  HasSmallest(Fam)
<1>1. IsWellFoundedOn(StrictSubsetOrdering(S), SUBSET S)
  BY FS_StrictSubsetOrderingWellFounded, FS_FiniteSubsetsOfFinite
<1>2. PICK A \in Fam : \A B \in Fam : <<B, A>> \notin StrictSubsetOrdering(S)
  BY <1>1, WFMin
<1> QED
  BY <1>2 DEF StrictSubsetOrdering, HasSmallest

(* A finite set of naturals has a least member.                            *)
LEMMA LeastOf ==
  ASSUME NEW S, IsFiniteSet(S), S \subseteq Nat, S # {}
  PROVE  \E m \in S : \A n \in S : m <= n
<1> DEFINE Below(m) == {n \in S : n <= m}
<1>1. PICK Fam \in SUBSET SUBSET S :
        /\ Fam # {}
        /\ \A m \in S : Below(m) \in Fam
        /\ \A A \in Fam : \E m \in S : A = Below(m)
  <2> WITNESS {Below(m) : m \in S} \in SUBSET SUBSET S
  <2> QED
    OBVIOUS
<1>2. \A m, n \in S : n < m => m \notin Below(n) /\ m \in Below(m)
      /\ Below(n) \subseteq Below(m)
  <2> TAKE m, n \in S
  <2>1. m \in Nat /\ n \in Nat
    OBVIOUS
  <2>2. ASSUME n < m PROVE m \notin Below(n) /\ m \in Below(m)
    BY <2>1, <2>2
  <2>3. ASSUME n < m, NEW k \in Below(n) PROVE k \in Below(m)
    BY <2>1, <2>3
  <2> QED
    BY <2>2, <2>3
<1>3. PICK A \in Fam : \A B \in Fam : B \subseteq A => B = A
  <2>1. HasSmallest(Fam)
    BY <1>1, SmallestSubset
  <2> QED
    BY <2>1 DEF HasSmallest
<1>4. PICK m \in S : A = Below(m)
  BY <1>1
<1>5. ASSUME NEW n \in S PROVE ~(n < m)
  <2> HIDE DEF Below
  <2> QED
    BY <1>1, <1>2, <1>3, <1>4
<1> QED
  BY <1>5

(* And a greatest one.                                                     *)
LEMMA GreatestOf ==
  ASSUME NEW S, IsFiniteSet(S), S \subseteq Nat, S # {}
  PROVE  \E m \in S : \A n \in S : n <= m
<1> DEFINE Above(m) == {n \in S : m <= n}
<1>1. PICK Fam \in SUBSET SUBSET S :
        /\ Fam # {}
        /\ \A m \in S : Above(m) \in Fam
        /\ \A A \in Fam : \E m \in S : A = Above(m)
  <2> WITNESS {Above(m) : m \in S} \in SUBSET SUBSET S
  <2> QED
    OBVIOUS
<1>2. \A m, n \in S : m < n => m \notin Above(n) /\ m \in Above(m)
      /\ Above(n) \subseteq Above(m)
  <2> TAKE m, n \in S
  <2>1. m \in Nat /\ n \in Nat
    OBVIOUS
  <2>2. ASSUME m < n PROVE m \notin Above(n) /\ m \in Above(m)
    BY <2>1, <2>2
  <2>3. ASSUME m < n, NEW k \in Above(n) PROVE k \in Above(m)
    BY <2>1, <2>3
  <2> QED
    BY <2>2, <2>3
<1>3. PICK A \in Fam : \A B \in Fam : B \subseteq A => B = A
  <2>1. HasSmallest(Fam)
    BY <1>1, SmallestSubset
  <2> QED
    BY <2>1 DEF HasSmallest
<1>4. PICK m \in S : A = Above(m)
  BY <1>1
<1>5. ASSUME NEW n \in S PROVE ~(m < n)
  <2> HIDE DEF Above
  <2> QED
    BY <1>1, <1>2, <1>3, <1>4
<1> QED
  BY <1>5

(* How many of S come up to i.                                             *)
Rank(S, i) == Cardinality({n \in S : n <= i})

LEMMA RankType ==
  ASSUME NEW S, IsFiniteSet(S), S \subseteq Nat, NEW i \in S
  PROVE  Rank(S, i) \in 1..Cardinality(S)
  <1> DEFINE B == {n \in S : n <= i}
  <1>1. i \in B /\ B \in SUBSET S
    OBVIOUS
  <1> HIDE DEF B
  <1>2. IsFiniteSet(B) /\ Cardinality(B) <= Cardinality(S) /\ Cardinality(B) # 0
    BY <1>1, FS_Subset, FS_EmptySet
  <1>3. Cardinality(B) \in Nat /\ Cardinality(S) \in Nat
    BY <1>2, FS_CardinalityType
  <1> QED BY <1>2, <1>3 DEF Rank, B

LEMMA RankGrows ==
  ASSUME NEW S, IsFiniteSet(S), S \subseteq Nat, NEW i \in S, NEW j \in S, i < j
  PROVE  Rank(S, i) < Rank(S, j)
  <1> DEFINE A == {n \in S : n <= i}
             B == {n \in S : n <= j}
  <1>1. A \in SUBSET B /\ j \in B /\ j \notin A /\ B \in SUBSET S
    <2>1. i \in Nat /\ j \in Nat /\ ~(j <= i)
      OBVIOUS
    <2>2. \A n \in Nat : n <= i => n <= j
      BY <2>1
    <2>3. A \subseteq B
      BY <2>2
    <2>4. j \in B /\ j \notin A
      BY <2>1
    <2> QED BY <2>3, <2>4
  <1> HIDE DEF A, B
  <1>2. IsFiniteSet(B) /\ IsFiniteSet(A)
    BY <1>1, FS_Subset
  <1>3. Cardinality(A) <= Cardinality(B) /\ Cardinality(A) # Cardinality(B)
    BY <1>1, <1>2, FS_Subset
  <1>4. Cardinality(A) \in Nat /\ Cardinality(B) \in Nat
    BY <1>2, FS_CardinalityType
  <1> QED BY <1>3, <1>4 DEF Rank, A, B

(* Each rank is somebody's.                                                *)
Ranked(A) == \A k \in 1..Cardinality(A) : \E i \in A : Rank(A, i) = k

LEMMA RankEach ==
  ASSUME NEW S, IsFiniteSet(S), S \subseteq Nat
  PROVE  Ranked(S)
  <1> DEFINE Fam == {A \in SUBSET S : ~Ranked(A)}
  <1>1. SUFFICES ASSUME Fam # {} PROVE FALSE
    OBVIOUS
  <1>2. HasSmallest(Fam)
    BY <1>1, SmallestSubset
  <1>3. PICK A \in Fam : \A B \in Fam : B \subseteq A => B = A
    BY <1>2 DEF HasSmallest
  <1>4. IsFiniteSet(A) /\ A \subseteq Nat
    BY FS_Subset
  <1>5. A # {}
    <2> SUFFICES ASSUME A = {} PROVE FALSE
      OBVIOUS
    <2>1. 1..Cardinality(A) = {}
      BY FS_EmptySet
    <2> QED BY <1>3, <2>1 DEF Ranked
  <1>6. PICK m \in A : \A n \in A : n <= m
    BY <1>4, <1>5, GreatestOf
  <1> DEFINE B == A \ {m}
  <1>7. IsFiniteSet(B) /\ Cardinality(B) = Cardinality(A) - 1
    BY <1>4, FS_RemoveElement
  <1>8. Ranked(B)
    BY <1>3
  <1>9. Cardinality(A) \in Nat /\ Cardinality(B) \in Nat
    BY <1>4, <1>7, FS_CardinalityType
  <1>10. ASSUME NEW k \in 1..Cardinality(A) PROVE \E i \in A : Rank(A, i) = k
    <2>1. CASE k = Cardinality(A)
      <3>1. {n \in A : n <= m} = A
        BY <1>6
      <3> QED BY <2>1, <3>1 DEF Rank
    <2>2. CASE k # Cardinality(A)
      <3>1. k \in 1..Cardinality(B)
        BY <1>7, <1>9, <2>2
      <3>2. PICK i \in B : Rank(B, i) = k
        BY <1>8, <3>1 DEF Ranked
      <3>3. {n \in A : n <= i} = {n \in B : n <= i}
        BY <1>4, <1>6
      <3> QED BY <3>2, <3>3 DEF Rank
    <2> QED BY <2>1, <2>2
  <1> QED BY <1>10 DEF Ranked

(* The ids of a set, in order.                                             *)
LEMMA IdsSorted ==
  ASSUME NEW S, IsFiniteSet(S), S \subseteq Nat
  PROVE  /\ Ids(S) \in Seq(S) /\ Len(Ids(S)) = Cardinality(S)
         /\ Increasing(Ids(S))
         /\ \A i \in S : \E k \in DOMAIN Ids(S) : Ids(S)[k] = i
  <1> DEFINE s == Ids(S)
             n == Cardinality(S)
  <1>1. n \in Nat
    BY FS_CardinalityType
  <1>2. \A k \in 1..n : s[k] \in S /\ Rank(S, s[k]) = k
    <2> TAKE k \in 1..n
    <2>1. \E i \in S : Rank(S, i) = k
      BY RankEach DEF Ranked
    <2>2. s[k] = CHOOSE i \in S : Rank(S, i) = k
      BY DEF Ids, Rank
    <2> QED BY <2>1, <2>2
  <1>3. DOMAIN s = 1..n
    BY DEF Ids
  <1>4. s \in Seq(S) /\ Len(s) = n
    <2>1. s \in [1..n -> S]
      BY <1>2 DEF Ids
    <2> QED BY <1>1, <2>1, SeqDef, LenProperties
  <1> HIDE DEF s, n
  <1>5. Increasing(s)
    <2> SUFFICES ASSUME NEW a \in 1..n, NEW b \in 1..n, a < b PROVE s[a] < s[b]
      BY <1>3 DEF Increasing
    <2>1. s[a] \in S /\ s[b] \in S /\ Rank(S, s[a]) = a /\ Rank(S, s[b]) = b
      BY <1>2
    <2>2. ~(s[b] < s[a])
      <3> SUFFICES ASSUME s[b] < s[a] PROVE FALSE
        OBVIOUS
      <3>1. b < a
        BY <2>1, RankGrows
      <3> QED BY <1>1, <3>1
    <2>3. s[a] # s[b]
      BY <1>1, <2>1
    <2>4. s[a] \in Nat /\ s[b] \in Nat
      BY <2>1
    <2> QED BY <2>2, <2>3, <2>4
  <1>6. ASSUME NEW i \in S PROVE \E k \in 1..n : s[k] = i
    <2>1. Rank(S, i) \in 1..n
      BY RankType DEF n
    <2> DEFINE k == Rank(S, i)
    <2> HIDE DEF k
    <2>2. s[k] \in S /\ Rank(S, s[k]) = Rank(S, i)
      BY <1>2, <2>1 DEF k
    <2>3. Rank(S, i) \in Int
      BY <1>1, <2>1
    <2>4. ~(s[k] < i)
      <3> SUFFICES ASSUME s[k] < i PROVE FALSE
        OBVIOUS
      <3>1. Rank(S, s[k]) < Rank(S, i)
        BY <2>2, RankGrows
      <3> QED BY <2>2, <2>3, <3>1
    <2>5. ~(i < s[k])
      <3> SUFFICES ASSUME i < s[k] PROVE FALSE
        OBVIOUS
      <3>1. Rank(S, i) < Rank(S, s[k])
        BY <2>2, RankGrows
      <3> QED BY <2>2, <2>3, <3>1
    <2>6. s[k] = i
      <3>1. s[k] \in Nat /\ i \in Nat
        BY <2>2
      <3> QED BY <2>4, <2>5, <3>1
    <2> QED BY <2>1, <2>6 DEF k
  <1> QED BY <1>3, <1>4, <1>5, <1>6 DEF s, n

(* The first of them that a poll takes.                                    *)
LEMMA FirstOfIds ==
  ASSUME StreamAssumption, NEW S, IsFiniteSet(S), S \subseteq Nat
  PROVE  LET f == FirstOf(Ids(S))
         IN  /\ f \in Seq(S) /\ Increasing(f) /\ Len(f) <= Limit /\ Len(f) <= Cardinality(S)
             /\ \A i \in S : f # <<>> /\ i <= Last(f) => i \in ToSet(f)
             /\ Len(f) < Limit => \A i \in S : i \in ToSet(f)
  <1> DEFINE s == Ids(S)
             f == FirstOf(s)
  <1>1. /\ s \in Seq(S) /\ Len(s) = Cardinality(S) /\ Increasing(s)
        /\ \A i \in S : \E a \in DOMAIN s : s[a] = i
    BY IdsSorted
  <1>2. f = SubSeq(s, 1, IF Len(s) < Limit THEN Len(s) ELSE Limit)
    BY DEF FirstOf
  <1> HIDE DEF s, f
  <1>3. Limit \in Nat
    BY DEF StreamAssumption
  <1> DEFINE N == Len(s)
             k == IF N < Limit THEN N ELSE Limit
  <1>4. N \in Nat /\ DOMAIN s = 1..N /\ \A a \in 1..N : s[a] \in S
    BY <1>1, LenProperties, ElementOfSeq
  <1>5. f = SubSeq(s, 1, k) /\ N = Cardinality(S)
    BY <1>1, <1>2
  <1> HIDE DEF N
  <1>6. k \in Nat /\ k <= N /\ k <= Limit /\ (k < Limit => k = N)
    BY <1>3, <1>4
  <1> HIDE DEF k
  <1>7. \A a \in 1..k : a \in 1..N /\ s[a] \in S /\ s[a] \in Nat
    <2> TAKE a \in 1..k
    <2>1. a \in 1..N
      BY <1>4, <1>6
    <2> QED BY <1>4, <2>1
  <1>8. f \in Seq(S) /\ Len(f) = k /\ \A a \in 1..k : f[a] = s[a]
    <2>1. k \in Int /\ 1 \in Int /\ \A a \in 1..k : s[a] \in S
      BY <1>6, <1>7
    <2>2. /\ SubSeq(s, 1, k) \in Seq(S) /\ Len(SubSeq(s, 1, k)) = IF 1 <= k THEN k - 1 + 1 ELSE 0
          /\ \A i \in 1 .. k - 1 + 1 : SubSeq(s, 1, k)[i] = s[1 + i - 1]
      BY <2>1, SubSeqProperties
    <2>3. Len(f) = k
      BY <1>5, <1>6, <2>2
    <2>4. ASSUME NEW a \in 1..k PROVE f[a] = s[a]
      <3>1. a \in 1 .. k - 1 + 1 /\ 1 + a - 1 = a
        BY <1>6
      <3> QED BY <1>5, <2>2, <3>1
    <2> QED BY <1>5, <2>2, <2>3, <2>4
  <1>9. DOMAIN f = 1..k
    BY <1>8, LenProperties
  <1>10. Increasing(f)
    <2> SUFFICES ASSUME NEW a \in 1..k, NEW b \in 1..k, a < b PROVE f[a] < f[b]
      BY <1>9 DEF Increasing
    <2> QED BY <1>1, <1>4, <1>7, <1>8 DEF Increasing
  <1>11. ASSUME NEW i \in S, f # <<>>, i <= Last(f) PROVE i \in ToSet(f)
    <2>1. k > 0
      BY <1>6, <1>8, <1>11, EmptySeq
    <2>2. Last(f) = s[k] /\ k \in 1..N
      BY <1>4, <1>6, <1>8, <2>1 DEF Last
    <2>3. PICK a \in 1..N : s[a] = i
      BY <1>1, <1>4
    <2>4. ~(k < a)
      <3>1. k < a => s[k] < s[a]
        BY <1>1, <1>4, <2>2, <2>3 DEF Increasing
      <3>2. s[k] \in Nat /\ s[a] \in Nat /\ s[a] <= s[k]
        BY <1>4, <1>11, <2>2, <2>3
      <3> QED BY <3>1, <3>2
    <2>5. a \in 1..k
      BY <1>4, <1>6, <2>3, <2>4
    <2>6. f[a] = i
      BY <1>8, <2>3, <2>5
    <2> QED BY <1>9, <2>5, <2>6 DEF ToSet
  <1>12. ASSUME Len(f) < Limit, NEW i \in S PROVE i \in ToSet(f)
    <2>1. PICK a \in 1..N : s[a] = i
      BY <1>1, <1>4
    <2>2. a \in 1..k /\ f[a] = i
      BY <1>6, <1>8, <1>12, <2>1
    <2> QED BY <1>9, <2>2 DEF ToSet
  <1>13. Len(f) <= Limit /\ Len(f) <= Cardinality(S)
    BY <1>5, <1>6, <1>8
  <1> QED BY <1>8, <1>10, <1>11, <1>12, <1>13 DEF f, s

LEMMA SetOfConcat ==
  ASSUME NEW S, NEW s \in Seq(S), NEW t \in Seq(S)
  PROVE  ToSet(s \o t) = ToSet(s) \cup ToSet(t)
  <1>1. /\ Len(s) \in Nat /\ Len(t) \in Nat /\ DOMAIN s = 1..Len(s) /\ DOMAIN t = 1..Len(t)
        /\ DOMAIN (s \o t) = 1 .. Len(s) + Len(t)
        /\ \A i \in 1 .. Len(s) + Len(t) :
             (s \o t)[i] = IF i <= Len(s) THEN s[i] ELSE t[i - Len(s)]
    BY ConcatProperties, LenProperties
  <1>2. ASSUME NEW x \in ToSet(s) PROVE x \in ToSet(s \o t)
    <2>1. PICK i \in 1..Len(s) : s[i] = x
      BY <1>1 DEF ToSet
    <2>2. i \in 1 .. Len(s) + Len(t) /\ (s \o t)[i] = x
      BY <1>1, <2>1
    <2> QED BY <1>1, <2>2 DEF ToSet
  <1>3. ASSUME NEW x \in ToSet(t) PROVE x \in ToSet(s \o t)
    <2>1. PICK i \in 1..Len(t) : t[i] = x
      BY <1>1 DEF ToSet
    <2>2. i + Len(s) \in 1 .. Len(s) + Len(t) /\ ~(i + Len(s) <= Len(s)) /\ i + Len(s) - Len(s) = i
      BY <1>1
    <2>3. (s \o t)[i + Len(s)] = x
      BY <1>1, <2>1, <2>2
    <2> QED BY <1>1, <2>2, <2>3 DEF ToSet
  <1>4. ASSUME NEW x \in ToSet(s \o t) PROVE x \in ToSet(s) \cup ToSet(t)
    <2>1. PICK i \in 1 .. Len(s) + Len(t) : (s \o t)[i] = x
      BY <1>1 DEF ToSet
    <2>2. CASE i <= Len(s)
      <3>1. i \in 1..Len(s) /\ s[i] = x
        BY <1>1, <2>1, <2>2
      <3> QED BY <1>1, <3>1 DEF ToSet
    <2>3. CASE ~(i <= Len(s))
      <3>1. i - Len(s) \in 1..Len(t) /\ t[i - Len(s)] = x
        BY <1>1, <2>1, <2>3
      <3> QED BY <1>1, <3>1 DEF ToSet
    <2> QED BY <2>2, <2>3
  <1> QED BY <1>2, <1>3, <1>4

-----------------------------------------------------------------------------
(***************************************************************************)
(* The steps of the runner.  None of them moves the follower, and the      *)
(* table grows by at most one event.                                       *)
(***************************************************************************)
EventType == [job : Job \cup {None}, token : Nat]

LEMMA Grows ==
  ASSUME StreamAssumption, Types, NEW e \in EventType, events' \in {events, Append(events, e)}
  PROVE  /\ Len(events) \in Nat /\ Len(events') \in Nat /\ Len(events) <= Len(events')
         /\ \A i \in 1..Len(events) : i \in DOMAIN events' /\ events'[i] = events[i]
         /\ \A i \in DOMAIN events' : i \in 1..Len(events) \/ (i = Len(events) + 1 /\ events'[i] = e)
         /\ \A i \in 1..Len(events) : Kept(i)' => Kept(i)
         /\ DOMAIN events = 1..Len(events) /\ DOMAIN events' = 1..Len(events')
  <1>1. events \in Seq(EventType) /\ events' \in Seq(EventType)
    <2>1. events \in Seq(EventType)
      BY DEF Types, EventType
    <2>2. Append(events, e) \in Seq(EventType)
      BY <2>1, AppendProperties
    <2> QED BY <2>1, <2>2
  <1>2. /\ Len(events) \in Nat /\ DOMAIN events = 1..Len(events)
        /\ Len(events') \in Nat /\ DOMAIN events' = 1..Len(events')
    BY <1>1, LenProperties
  <1>3. CASE events' = events
    BY <1>2, <1>3 DEF Kept
  <1>4. CASE events' = Append(events, e)
    <2>1. /\ Len(events') = Len(events) + 1 /\ events'[Len(events) + 1] = e
          /\ \A i \in 1..Len(events) : events'[i] = events[i]
      BY <1>1, <1>4, AppendProperties
    <2>2. \A i \in 1..Len(events) : Kept(i)' => Kept(i)
      <3>1. Retention \in Nat
        BY DEF StreamAssumption
      <3> QED BY <1>2, <2>1, <3>1 DEF Kept
    <2> QED BY <1>2, <2>1, <2>2
  <1> QED BY <1>3, <1>4

LEMMA StoreStep ==
  ASSUME StreamAssumption, Inv, UNCHANGED follower, Types',
         NEW e \in EventType, events' \in {events, Append(events, e)}
  PROVE  Inv'
  <1>1. /\ Len(events) \in Nat /\ Len(events') \in Nat /\ Len(events) <= Len(events')
        /\ \A i \in 1..Len(events) : i \in DOMAIN events' /\ events'[i] = events[i]
        /\ \A i \in DOMAIN events' : i \in 1..Len(events) \/ (i = Len(events) + 1 /\ events'[i] = e)
        /\ \A i \in 1..Len(events) : Kept(i)' => Kept(i)
        /\ DOMAIN events = 1..Len(events) /\ DOMAIN events' = 1..Len(events')
    BY Grows DEF Inv
  <1>0. Len(events) \in Nat /\ Len(events') \in Nat /\ Len(events) <= Len(events')
    BY <1>1
  <1>2. UNCHANGED <<pc, batch, cursor, printed>>
    BY DEF follower
  <1>3. cursor \in Nat /\ cursor <= Len(events) /\ batch \in Seq(Nat) /\ Len(batch) \in Nat
    <2>1. cursor \in 0..Len(events) /\ batch \in Seq(Nat)
      BY DEF Inv, Types
    <2>2. Len(batch) \in Nat
      BY <2>1, LenProperties
    <2> QED BY <1>0, <2>1, <2>2
  <1>4. BatchOK'
    <2>1. Increasing(batch)' /\ Len(batch) <= Limit /\ (pc # "lock" => batch = <<>>)'
      BY <1>2 DEF Inv, BatchOK, Increasing
    <2>2. Len(batch) <= Len(events')
      <3>1. Len(batch) <= Len(events)
        BY DEF Inv, BatchOK
      <3> QED BY <1>0, <1>3, <3>1
    <2>3. ASSUME NEW a \in DOMAIN batch PROVE batch[a] \in cursor + 1 .. Len(events')
      <3>1. batch[a] \in cursor + 1 .. Len(events)
        BY DEF Inv, BatchOK
      <3> QED BY <1>0, <1>3, <3>1
    <2>4. batch # <<>> => Last(batch) <= Len(events) /\ Last(batch) \in Nat
      <3> SUFFICES ASSUME batch # <<>> PROVE Last(batch) <= Len(events) /\ Last(batch) \in Nat
        OBVIOUS
      <3>1. Len(batch) \in DOMAIN batch
        BY <1>3, EmptySeq, LenProperties
      <3>2. Last(batch) \in cursor + 1 .. Len(events)
        BY <3>1 DEF Inv, BatchOK, Last
      <3> QED BY <1>0, <1>3, <3>2
    <2>5. ASSUME NEW i \in DOMAIN events', i > cursor, events'[i].job \in Scope, Kept(i)',
                 batch # <<>>, i <= Last(batch)
          PROVE  i \in ToSet(batch)
      <3>1. i \in 1..Len(events)
        <4>1. i # Len(events) + 1
          BY <1>0, <2>4, <2>5
        <4> QED BY <1>1, <4>1
      <3> QED BY <1>1, <2>5, <3>1 DEF Inv, BatchOK
    <2> QED BY <1>2, <2>1, <2>2, <2>3, <2>5 DEF BatchOK
  <1>5. PrintOK'
    <2>1. ASSUME NEW i \in 1..cursor, events'[i].job \in Scope, Kept(i)'
          PROVE  i \in Printed
      <3>1. i \in Nat /\ 1 <= i /\ i <= cursor
        BY <1>3
      <3>2. i \in 1..Len(events)
        BY <1>0, <1>3, <3>1
      <3> QED BY <1>1, <2>1, <3>2 DEF Inv, PrintOK, NoJobEventSkipped
    <2>2. NoJobEventSkipped'
      BY <1>2, <2>1 DEF NoJobEventSkipped, Printed
    <2>3. Increasing(printed)' /\ (\A a \in DOMAIN printed : printed[a] <= cursor)'
      BY <1>2 DEF Inv, PrintOK, Increasing
    <2> QED BY <2>2, <2>3 DEF PrintOK
  <1> QED BY <1>4, <1>5 DEF Inv

LEMMA SkipStep ==
  ASSUME StreamAssumption, Inv, UNCHANGED <<events, follower>>, Types'
  PROVE  Inv'
  <1> DEFINE e == [job |-> None, token |-> 0]
  <1>1. e \in EventType
    BY DEF EventType
  <1> HIDE DEF e
  <1> QED BY <1>1, StoreStep

LEMMA StaysBelow ==
  ASSUME Inv, events' \in Seq(EventType), Len(events) <= Len(events')
  PROVE  cursor \in 0..Len(events')
  <1>1. Len(events) \in Nat /\ Len(events') \in Nat
    BY LenProperties DEF Inv, Types
  <1>2. cursor \in 0..Len(events)
    BY DEF Inv, Types
  <1> QED BY <1>1, <1>2

LEMMA StepClaim ==
  ASSUME StreamAssumption, Inv, Claim
  PROVE  Inv'
  <1>1. PICK W \in (SUBSET Job) \ {{}} :
          row' = [j \in Job |->
                    IF j \in W THEN [status |-> "in_progress", token |-> claims']
                    ELSE IF row[j].status = "in_progress" THEN [status |-> "queued", token |-> None]
                    ELSE row[j]]
          /\ runner' = [left |-> W, announce |-> None]
    BY DEF Claim
  <1>2. /\ claims' = claims + 1 /\ lease' = claims' /\ dead' = FALSE /\ gates' = 0
        /\ events' = Append(events, Event(None, claims')) /\ UNCHANGED follower
        /\ orphaned' = (orphaned \/ Orphans(row', lease', dead') # {})
    BY DEF Claim, Note
  <1>3. claims \in Nat /\ claims' \in Nat /\ Event(None, claims') \in EventType
    BY <1>2 DEF Inv, Types, Event, EventType
  <1>4. events' \in Seq(EventType) /\ Len(events) <= Len(events')
    BY <1>2, <1>3, AppendProperties DEF Inv, Types, EventType
  <1>5. row' \in [Job -> Row] /\ \A j \in Job : row'[j].token <= claims'
    <2>1. \A j \in Job : row[j] \in Row /\ row[j].token <= claims
      BY DEF Inv, Types
    <2>2. \A j \in Job : row'[j] \in Row /\ row'[j].token <= claims'
      BY <1>1, <1>2, <1>3, <2>1 DEF Row, Status, None
    <2> QED BY <1>1, <2>2
  <1>6. MaxGates \in Nat
    BY DEF StreamAssumption
  <1>7. Types'
    <2>1. cursor' \in 0..Len(events')
      BY <1>2, <1>4, StaysBelow DEF follower
    <2>2. gates' \in 0..MaxGates
      BY <1>2, <1>6
    <2>3. lease' \in {None, claims'} /\ dead' \in BOOLEAN /\ orphaned' \in BOOLEAN
      BY <1>2 DEF Inv, Types
    <2>4. runner' \in [left : SUBSET Job, announce : Job \cup {None}]
      BY <1>1
    <2> QED BY <1>2, <1>3, <1>4, <1>5, <2>1, <2>2, <2>3, <2>4 DEF Inv, Types, follower, EventType
  <1> QED BY <1>2, <1>3, <1>7, StoreStep

LEMMA StepGate ==
  ASSUME StreamAssumption, Inv, Gate
  PROVE  Inv'
  <1>1. /\ gates < MaxGates /\ gates' = gates + 1 /\ events' = Append(events, Event(None, lease))
        /\ UNCHANGED <<row, lease, dead, claims, runner, orphaned>> /\ UNCHANGED follower
    BY DEF Gate
  <1>2. Event(None, lease) \in EventType
    BY DEF Inv, Types, Event, EventType, None
  <1>3. events' \in Seq(EventType) /\ Len(events) <= Len(events')
    BY <1>1, <1>2, AppendProperties DEF Inv, Types, EventType
  <1>4. gates' \in 0..MaxGates
    BY <1>1 DEF StreamAssumption, Inv, Types
  <1>5. Types'
    <2>1. cursor' \in 0..Len(events')
      BY <1>1, <1>3, StaysBelow DEF follower
    <2> QED BY <1>1, <1>3, <1>4, <2>1 DEF Inv, Types, follower, EventType
  <1> QED BY <1>1, <1>2, <1>5, StoreStep

LEMMA StepFinish ==
  ASSUME StreamAssumption, Inv, NEW j \in Job, NEW status \in Ends, Finish(j, status)
  PROVE  Inv'
  <1>1. /\ row' = [row EXCEPT ![j] = [status |-> status, token |-> None]]
        /\ runner' = [left |-> runner.left \ {j}, announce |-> j]
        /\ UNCHANGED <<events, lease, dead, claims, gates, orphaned>> /\ UNCHANGED follower
    BY DEF Finish
  <1>2. row' \in [Job -> Row] /\ \A i \in Job : row'[i].token <= claims'
    BY <1>1 DEF Inv, Types, Row, Status, None
  <1>3. Types'
    BY <1>1, <1>2 DEF Inv, Types, follower
  <1> QED BY <1>1, <1>3, SkipStep

LEMMA StepAnnounce ==
  ASSUME StreamAssumption, Inv, Announce
  PROVE  Inv'
  <1>1. /\ events' = Append(events, Event(runner.announce, lease))
        /\ runner' = [runner EXCEPT !.announce = None]
        /\ UNCHANGED <<row, lease, dead, claims, gates, orphaned>> /\ UNCHANGED follower
    BY DEF Announce
  <1>2. Event(runner.announce, lease) \in EventType
    BY DEF Inv, Types, Event, EventType, None
  <1>3. events' \in Seq(EventType) /\ Len(events) <= Len(events')
    BY <1>1, <1>2, AppendProperties DEF Inv, Types, EventType
  <1>4. Types'
    <2>1. cursor' \in 0..Len(events')
      BY <1>1, <1>3, StaysBelow DEF follower
    <2> QED BY <1>1, <1>3, <2>1 DEF Inv, Types, follower, EventType
  <1> QED BY <1>1, <1>2, <1>4, StoreStep

LEMMA StepRelease ==
  ASSUME StreamAssumption, Inv, Release \/ Crash
  PROVE  Inv'
  <1>1. /\ lease' \in {None, lease} /\ dead' \in BOOLEAN /\ orphaned' \in BOOLEAN
        /\ UNCHANGED <<row, events, claims, runner, gates>> /\ UNCHANGED follower
    BY DEF Release, Crash, Note, Inv, Types
  <1>2. Types'
    BY <1>1 DEF Inv, Types, follower
  <1> QED BY <1>1, <1>2, SkipStep

-----------------------------------------------------------------------------
(***************************************************************************)
(* The follower's reads.                                                   *)
(***************************************************************************)
LEMMA ReadsNext ==
  ASSUME StreamAssumption, Types, pc = "rows"
  PROVE  Min(Scope \ DOMAIN seen) \in Scope \ DOMAIN seen
  <1> DEFINE S == Scope \ DOMAIN seen
  <1>1. IsFiniteSet(S) /\ S \subseteq Nat
    BY FS_Subset DEF StreamAssumption
  <1>2. S # {}
    BY DEF Types
  <1>3. \E m \in S : \A n \in S : m <= n
    BY <1>1, <1>2, LeastOf
  <1> QED BY <1>3 DEF Min

LEMMA StepReadRow ==
  ASSUME StreamAssumption, Inv, ReadRow
  PROVE  Inv'
  <1> DEFINE j == Min(Scope \ DOMAIN seen)
  <1>1. /\ pc = "rows"
        /\ seen' = [i \in DOMAIN seen \cup {j} |-> IF i = j THEN row[j] ELSE seen[i]]
        /\ pc' = (IF Scope = DOMAIN seen \cup {j} THEN "tokens" ELSE "rows")
        /\ UNCHANGED <<tokens, batch, terminalSeen, cursor, printed, asleep, ended>>
        /\ UNCHANGED store
    BY DEF ReadRow
  <1>2. j \in Scope \ DOMAIN seen
    BY <1>1, ReadsNext DEF Inv
  <1> HIDE DEF j
  <1>3. DOMAIN seen' = DOMAIN seen \cup {j}
    BY <1>1
  <1>4. \A i \in DOMAIN seen' : seen'[i] \in Row
    BY <1>1, <1>2 DEF Inv, Types, StreamAssumption
  <1>5. Types'
    BY <1>1, <1>2, <1>3, <1>4 DEF Inv, Types, store
  <1>6. BatchOK'
    BY <1>1 DEF Inv, BatchOK, Increasing, Kept, store
  <1>7. PrintOK'
    BY <1>1 DEF Inv, PrintOK, NoJobEventSkipped, Printed, Increasing, Kept, store
  <1> QED BY <1>5, <1>6, <1>7 DEF Inv

LEMMA StepReadTokens ==
  ASSUME StreamAssumption, Inv, ReadTokens
  PROVE  Inv'
  <1>1. /\ pc = "tokens" /\ pc' = "events"
        /\ UNCHANGED <<seen, batch, terminalSeen, cursor, printed, asleep, ended>>
        /\ UNCHANGED store
    BY DEF ReadTokens
  <1>2. Types'
    BY <1>1 DEF Inv, Types, store
  <1>3. BatchOK'
    BY <1>1 DEF Inv, BatchOK, Increasing, Kept, store
  <1>4. PrintOK'
    BY <1>1 DEF Inv, PrintOK, NoJobEventSkipped, Printed, Increasing, Kept, store
  <1> QED BY <1>2, <1>3, <1>4 DEF Inv

(* What the read of the events gives.                                      *)
NewIds == {i \in DOMAIN events : i > cursor /\ Kept(i) /\ InScope(events[i], tokens)}

LEMMA UpTo ==
  ASSUME NEW n \in Nat
  PROVE  IsFiniteSet(1..n) /\ Cardinality(1..n) = n
  BY FS_Interval

LEMMA Batched ==
  ASSUME StreamAssumption, Inv, ReadEvents
  PROVE  /\ batch' \in Seq(Nat) /\ Increasing(batch')
         /\ Len(batch') <= Limit /\ Len(batch') <= Len(events)
         /\ \A a \in DOMAIN batch' : batch'[a] \in cursor + 1 .. Len(events)
         /\ \A i \in NewIds : batch' # <<>> /\ i <= Last(batch') => i \in ToSet(batch')
         /\ Len(batch') < Limit => \A i \in NewIds : i \in ToSet(batch')
         /\ \A i \in DOMAIN events :
              i > cursor /\ events[i].job \in Scope /\ Kept(i) => i \in NewIds
  <1>1. Len(events) \in Nat /\ DOMAIN events = 1..Len(events)
    BY LenProperties DEF Inv, Types
  <1>2. NewIds \subseteq 1..Len(events)
    BY <1>1 DEF NewIds
  <1>3. IsFiniteSet(1..Len(events)) /\ Cardinality(1..Len(events)) = Len(events)
    BY <1>1, UpTo
  <1>4. IsFiniteSet(NewIds) /\ Cardinality(NewIds) <= Len(events) /\ Cardinality(NewIds) \in Nat
    BY <1>2, <1>3, FS_Subset, FS_CardinalityType
  <1>5. NewIds \subseteq Nat
    BY <1>1, <1>2
  <1>6. batch' = FirstOf(Ids(NewIds))
    BY DEF ReadEvents, NewIds
  <1>7. /\ batch' \in Seq(NewIds) /\ Increasing(batch') /\ Len(batch') <= Limit
        /\ Len(batch') <= Cardinality(NewIds)
        /\ \A i \in NewIds : batch' # <<>> /\ i <= Last(batch') => i \in ToSet(batch')
        /\ Len(batch') < Limit => \A i \in NewIds : i \in ToSet(batch')
    BY <1>4, <1>5, <1>6, FirstOfIds
  <1>8. batch' \in Seq(Nat) /\ Len(batch') \in Nat
    BY <1>5, <1>7, SeqMonotonic, LenProperties
  <1>9. Len(batch') <= Len(events)
    BY <1>1, <1>4, <1>7, <1>8
  <1>10. \A a \in DOMAIN batch' : batch'[a] \in cursor + 1 .. Len(events)
    <2> TAKE a \in DOMAIN batch'
    <2>1. batch'[a] \in NewIds
      BY <1>7, LenProperties, ElementOfSeq
    <2>2. cursor \in Nat
      BY <1>1 DEF Inv, Types
    <2> QED BY <1>1, <2>1, <2>2 DEF NewIds
  <1>11. \A i \in DOMAIN events :
           i > cursor /\ events[i].job \in Scope /\ Kept(i) => i \in NewIds
    BY DEF NewIds, InScope
  <1> QED BY <1>7, <1>8, <1>9, <1>10, <1>11

LEMMA StepReadEvents ==
  ASSUME StreamAssumption, Inv, ReadEvents
  PROVE  Inv'
  <1>1. /\ pc = "events" /\ pc' = "lock"
        /\ UNCHANGED <<seen, tokens, terminalSeen, cursor, printed, asleep, ended>>
        /\ UNCHANGED store
    BY DEF ReadEvents
  <1>2. Types'
    BY <1>1, Batched DEF Inv, Types, store
  <1>3. BatchOK'
    BY <1>1, Batched DEF BatchOK, Kept, store
  <1>4. PrintOK'
    BY <1>1 DEF Inv, PrintOK, NoJobEventSkipped, Printed, Increasing, Kept, store
  <1> QED BY <1>2, <1>3, <1>4 DEF Inv

LEMMA StepReadLock ==
  ASSUME StreamAssumption, Inv, ReadLock
  PROVE  Inv'
  <1>1. /\ pc = "lock" /\ printed' = printed \o batch /\ cursor' = Cursor
        /\ terminalSeen' \in BOOLEAN /\ pc' \in {"rows", "ended"}
        /\ seen' = <<>> /\ batch' = <<>> /\ UNCHANGED store
    BY DEF ReadLock
  <1>2. /\ Len(events) \in Nat /\ DOMAIN events = 1..Len(events)
        /\ batch \in Seq(Nat) /\ Len(batch) \in Nat /\ DOMAIN batch = 1..Len(batch)
        /\ printed \in Seq(Nat) /\ Len(printed) \in Nat /\ DOMAIN printed = 1..Len(printed)
    BY LenProperties DEF Inv, Types
  <1>3. cursor \in Nat /\ cursor <= Len(events)
    BY <1>2 DEF Inv, Types
  <1>4. \A a \in 1..Len(batch) : /\ batch[a] \in Nat /\ batch[a] > cursor
                                 /\ batch[a] <= Len(events) /\ batch[a] <= cursor'
    <2> TAKE a \in 1..Len(batch)
    <2>1. batch[a] \in cursor + 1 .. Len(events)
      BY <1>2 DEF Inv, BatchOK
    <2>2. batch # <<>> /\ Len(batch) \in 1..Len(batch)
      BY <1>2, EmptySeq
    <2>3. cursor' = batch[Len(batch)]
      BY <1>1, <2>2 DEF Cursor, Last
    <2>4. a = Len(batch) \/ batch[a] < batch[Len(batch)]
      <3>0. Len(batch) \in Nat
        BY <1>2
      <3>1. a = Len(batch) \/ a < Len(batch)
        BY <3>0
      <3>2. a \in DOMAIN batch /\ Len(batch) \in DOMAIN batch
        BY <1>2, <2>2
      <3> QED BY <3>1, <3>2 DEF Inv, BatchOK, Increasing
    <2>5. batch[Len(batch)] \in cursor + 1 .. Len(events)
      BY <1>2, <2>2 DEF Inv, BatchOK
    <2> QED BY <1>3, <2>1, <2>3, <2>4, <2>5
  <1>5. /\ cursor' \in Nat /\ cursor <= cursor' /\ cursor' <= Len(events)
        /\ batch = <<>> => cursor' = cursor
        /\ batch # <<>> => cursor' = Last(batch)
    <2>1. CASE batch = <<>>
      BY <1>1, <1>3, <2>1 DEF Cursor
    <2>2. CASE batch # <<>>
      <3>1. Len(batch) \in 1..Len(batch)
        BY <1>2, <2>2, EmptySeq
      <3>2. cursor' = batch[Len(batch)] /\ cursor' = Last(batch)
        BY <1>1, <2>2 DEF Cursor, Last
      <3>3. /\ batch[Len(batch)] \in Nat /\ batch[Len(batch)] > cursor
            /\ batch[Len(batch)] <= Len(events)
        BY <1>4, <3>1
      <3> QED BY <1>3, <2>2, <3>2, <3>3
    <2> QED BY <2>1, <2>2
  <1>6. /\ printed' \in Seq(Nat) /\ Len(printed') = Len(printed) + Len(batch)
        /\ \A a \in 1 .. Len(printed) + Len(batch) :
             printed'[a] = IF a <= Len(printed) THEN printed[a] ELSE batch[a - Len(printed)]
    BY <1>1, <1>2, ConcatProperties
  <1>7. DOMAIN printed' = 1 .. Len(printed) + Len(batch)
    BY <1>6, LenProperties
  <1>8. \A a \in 1..Len(printed) : printed[a] \in Nat /\ printed[a] <= cursor
    BY <1>2, ElementOfSeq DEF Inv, PrintOK
  <1>9. Increasing(printed')
    <2> SUFFICES ASSUME NEW a \in 1 .. Len(printed) + Len(batch),
                        NEW b \in 1 .. Len(printed) + Len(batch), a < b
                 PROVE  printed'[a] < printed'[b]
      BY <1>7 DEF Increasing
    <2>1. CASE b <= Len(printed)
      <3>1. a \in 1..Len(printed) /\ b \in 1..Len(printed)
        BY <1>2, <2>1
      <3>2. printed'[a] = printed[a] /\ printed'[b] = printed[b]
        BY <1>2, <1>6, <2>1, <3>1
      <3> QED BY <1>2, <3>1, <3>2 DEF Inv, PrintOK, Increasing
    <2>2. CASE a <= Len(printed) /\ ~(b <= Len(printed))
      <3>1. a \in 1..Len(printed) /\ b - Len(printed) \in 1..Len(batch)
        BY <1>2, <2>2
      <3>2. printed'[a] = printed[a] /\ printed'[b] = batch[b - Len(printed)]
        BY <1>6, <2>2
      <3>3. printed[a] \in Nat /\ printed[a] <= cursor
        BY <1>8, <3>1
      <3>4. batch[b - Len(printed)] \in Nat /\ batch[b - Len(printed)] > cursor
        BY <1>4, <3>1
      <3> QED BY <1>3, <3>2, <3>3, <3>4
    <2>3. CASE ~(a <= Len(printed))
      <3> DEFINE c == a - Len(printed)
                 d == b - Len(printed)
      <3>1. c \in 1..Len(batch) /\ d \in 1..Len(batch) /\ c < d /\ ~(b <= Len(printed))
        BY <1>2, <2>3
      <3>2. printed'[a] = batch[c] /\ printed'[b] = batch[d]
        BY <1>6, <2>3, <3>1
      <3> HIDE DEF c, d
      <3> QED BY <1>2, <3>1, <3>2 DEF Inv, BatchOK, Increasing
    <2> QED BY <1>2, <2>1, <2>2, <2>3
  <1>10. \A a \in DOMAIN printed' : printed'[a] <= cursor'
    <2> SUFFICES ASSUME NEW a \in 1 .. Len(printed) + Len(batch) PROVE printed'[a] <= cursor'
      BY <1>7
    <2>1. CASE a <= Len(printed)
      <3>1. a \in 1..Len(printed)
        BY <1>2, <2>1
      <3>2. printed'[a] = printed[a]
        BY <1>6, <2>1
      <3>3. printed[a] \in Nat /\ printed[a] <= cursor
        BY <1>8, <3>1
      <3> QED BY <1>3, <1>5, <3>2, <3>3
    <2>2. CASE ~(a <= Len(printed))
      <3>1. a - Len(printed) \in 1..Len(batch)
        BY <1>2, <2>2
      <3>2. printed'[a] = batch[a - Len(printed)]
        BY <1>6, <2>2
      <3> QED BY <1>4, <3>1, <3>2
    <2> QED BY <2>1, <2>2
  <1>11. ToSet(printed') = ToSet(printed) \cup ToSet(batch)
    BY <1>1, <1>2, SetOfConcat
  <1>12. NoJobEventSkipped'
    <2> SUFFICES ASSUME NEW i \in 1..cursor', events[i].job \in Scope, Kept(i)
                 PROVE  i \in ToSet(printed')
      BY <1>1 DEF NoJobEventSkipped, Printed, store, Kept
    <2>1. CASE i <= cursor
      <3>1. i \in 1..cursor
        BY <1>3, <1>5, <2>1
      <3>2. i \in ToSet(printed)
        BY <3>1 DEF Inv, PrintOK, NoJobEventSkipped, Printed
      <3> QED BY <1>11, <3>2
    <2>2. CASE i > cursor
      <3>1. i \in Nat /\ i <= cursor' /\ i >= 1
        BY <1>5
      <3>2. batch # <<>>
        BY <1>3, <1>5, <2>2, <3>1
      <3>3. i \in DOMAIN events /\ i <= Last(batch)
        BY <1>2, <1>5, <3>1, <3>2
      <3>4. i \in ToSet(batch)
        BY <2>2, <3>2, <3>3 DEF Inv, BatchOK
      <3> QED BY <1>11, <3>4
    <2> QED BY <1>3, <1>5, <2>1, <2>2
  <1>13. PrintOK'
    BY <1>9, <1>10, <1>12 DEF PrintOK
  <1>14. Types'
    <2>1. DOMAIN seen' = {} /\ Scope # {}
      BY <1>1 DEF StreamAssumption
    <2>2. cursor' \in 0..Len(events)
      BY <1>2, <1>5
    <2> QED BY <1>1, <1>6, <2>1, <2>2, EmptySeq DEF Inv, Types, store
  <1>15. BatchOK'
    <2>1. Limit \in Nat /\ Len(batch') = 0 /\ DOMAIN batch' = {}
      BY <1>1, EmptySeq DEF StreamAssumption
    <2> QED BY <1>1, <1>2, <2>1 DEF BatchOK, Increasing, store
  <1> QED BY <1>13, <1>14, <1>15 DEF Inv

LEMMA InitInv == StreamAssumption /\ Init => Inv
  <1> SUFFICES ASSUME StreamAssumption, Init PROVE Inv
    OBVIOUS
  <1>1. Types
    <2>1. Len(events) = 0 /\ events \in Seq(EventType) /\ DOMAIN seen = {} /\ MaxGates \in Nat
      BY EmptySeq DEF Init, StreamAssumption
    <2>2. row \in [Job -> Row] /\ \A j \in Job : row[j].token <= claims
      BY DEF Init, Row, Status, None
    <2>3. /\ claims \in Nat /\ lease \in {None, claims} /\ gates \in 0..MaxGates
          /\ cursor \in 0..Len(events)
      BY <2>1 DEF Init
    <2>4. runner \in [left : SUBSET Job, announce : Job \cup {None}]
      BY DEF Init
    <2>5. batch \in Seq(Nat) /\ printed \in Seq(Nat)
      BY EmptySeq DEF Init
    <2> QED BY <2>1, <2>2, <2>3, <2>4, <2>5 DEF Init, Types, EventType, StreamAssumption
  <1>2. Len(events) = 0 /\ Len(batch) = 0 /\ DOMAIN batch = {} /\ DOMAIN printed = {}
        /\ DOMAIN events = {} /\ 1..cursor = {} /\ Limit \in Nat
    BY EmptySeq DEF Init, StreamAssumption
  <1>3. BatchOK
    BY <1>2 DEF Init, BatchOK, Increasing
  <1>4. PrintOK
    BY <1>2 DEF PrintOK, Increasing, NoJobEventSkipped
  <1> QED BY <1>1, <1>3, <1>4 DEF Inv

LEMMA NextInv == StreamAssumption /\ Inv /\ [Next]_vars => Inv'
  <1> SUFFICES ASSUME StreamAssumption, Inv, [Next]_vars PROVE Inv'
    OBVIOUS
  <1>1. CASE UNCHANGED vars
    <2>1. Types'
      BY <1>1 DEF Inv, Types, vars, store, follower
    <2> QED BY <1>1, <2>1, SkipStep DEF vars, store
  <1>2. CASE Next
    BY <1>2, StepClaim, StepGate, StepFinish, StepAnnounce, StepRelease, StepReadRow,
       StepReadTokens, StepReadEvents, StepReadLock DEF Next, Poll
  <1> QED BY <1>1, <1>2

(* What a stream promises whatever the claims and the limit are.           *)
LEMMA InvStream == StreamAssumption /\ Inv => TypeOK /\ InOrder /\ NoJobEventSkipped
  <1> SUFFICES ASSUME StreamAssumption, Inv PROVE TypeOK /\ InOrder /\ NoJobEventSkipped
    OBVIOUS
  <1>1. TypeOK
    BY DEF Inv, Types, BatchOK, TypeOK, Row, Status
  <1> QED BY <1>1 DEF Inv, PrintOK, InOrder, Increasing

-----------------------------------------------------------------------------
(***************************************************************************)
(* A stream of one claim.                                                  *)
(***************************************************************************)
(* The table never holds as many events as a poll may read.                *)
LEMMA NeverFull ==
  ASSUME StreamAssumption, OneClaim, Inv, RunOK
  PROVE  Len(events) < Limit /\ Len(batch) < Limit
  <1>1. /\ Len(events) \in Nat /\ Len(batch) \in Nat /\ Len(batch) <= Len(events)
        /\ Limit \in Nat /\ MaxGates \in Nat /\ gates \in 0..MaxGates
    BY LenProperties DEF Inv, Types, BatchOK, StreamAssumption
  <1>2. IsFiniteSet(runner.left) /\ Cardinality(runner.left) \in Nat /\ Cardinality(Job) \in Nat
    BY FS_Subset, FS_CardinalityType DEF Inv, Types, StreamAssumption
  <1>3. Len(events) + Cardinality(runner.left) + (IF runner.announce = None THEN 0 ELSE 1)
          <= 1 + gates + Cardinality(Job)
    BY DEF RunOK
  <1> QED BY <1>1, <1>2, <1>3 DEF OneClaim

LEMMA NeverFullNext ==
  ASSUME StreamAssumption, OneClaim, Inv', RunOK'
  PROVE  Len(batch') < Limit
  <1>1. /\ Len(events') \in Nat /\ Len(batch') \in Nat /\ Len(batch') <= Len(events')
        /\ Limit \in Nat /\ MaxGates \in Nat /\ gates' \in 0..MaxGates
    BY LenProperties DEF Inv, Types, BatchOK, StreamAssumption
  <1>2. IsFiniteSet(runner'.left) /\ Cardinality(runner'.left) \in Nat /\ Cardinality(Job) \in Nat
    BY FS_Subset, FS_CardinalityType DEF Inv, Types, StreamAssumption
  <1>3. Len(events') + Cardinality(runner'.left) + (IF runner'.announce = None THEN 0 ELSE 1)
          <= 1 + gates' + Cardinality(Job)
    BY DEF RunOK
  <1> QED BY <1>1, <1>2, <1>3 DEF OneClaim

LEMMA OneClaims ==
  ASSUME StreamAssumption, OneClaim, Inv, OneInv, Claim
  PROVE  OneInv'
  <1>1. PICK W \in (SUBSET Job) \ {{}} :
          row' = [j \in Job |->
                    IF j \in W THEN [status |-> "in_progress", token |-> claims']
                    ELSE IF row[j].status = "in_progress" THEN [status |-> "queued", token |-> None]
                    ELSE row[j]]
          /\ runner' = [left |-> W, announce |-> None]
    BY DEF Claim
  <1>2. /\ claims < MaxClaims /\ claims' = claims + 1 /\ lease' = claims' /\ dead' = FALSE
        /\ gates' = 0 /\ events' = Append(events, Event(None, claims')) /\ UNCHANGED follower
    BY DEF Claim
  <1>3. claims = 0 /\ claims' = 1
    BY <1>2 DEF OneClaim, OneInv, RunOK
  <1>4. /\ events = <<>> /\ lease = None /\ \A j \in Job : row[j].status = "queued"
        /\ ~dead /\ Scope # {} /\ Scope \subseteq Job
    BY <1>3 DEF OneInv, RunOK, StreamAssumption
  <1>5. ~terminalSeen /\ pc # "ended"
    BY <1>3, <1>4 DEF OneInv, TerminalOK, EndOK, Over, Ends
  <1>6. \A j \in DOMAIN seen : seen[j].status \notin Ends \cup {"in_progress"}
    <2> TAKE j \in DOMAIN seen
    <2>1. j \in Job
      BY <1>4 DEF Inv, Types
    <2> QED BY <1>3, <1>4, <2>1 DEF OneInv, SeenOK, Ends
  <1>7. Running(row') = W
    BY <1>1, <1>4 DEF Running
  <1>8. Len(events') = 1
    BY <1>2, <1>4
  <1>9. Cardinality(W) \in Nat /\ Cardinality(Job) \in Nat /\ Cardinality(W) <= Cardinality(Job)
    BY FS_Subset, FS_CardinalityType DEF StreamAssumption
  <1>10. RunOK'
    <2>1. \A j \in W : row'[j].token = 1
      BY <1>1, <1>3
    <2>2. Len(events') + Cardinality(W) + 0 <= 1 + 0 + Cardinality(Job)
      BY <1>8, <1>9
    <2> QED BY <1>1, <1>2, <1>3, <1>7, <2>1, <2>2 DEF RunOK, None
  <1>11. SeenOK' /\ TerminalOK' /\ EndOK'
    BY <1>2, <1>5, <1>6 DEF follower, SeenOK, TerminalOK, EndOK
  <1> QED BY <1>10, <1>11 DEF OneInv

(* What is over stays over, and nothing of the scope is announced late.    *)
LEMMA OneStore ==
  ASSUME StreamAssumption, Inv, OneInv, UNCHANGED <<claims, follower>>, RunOK', Types',
         NEW e \in EventType, events' \in {events, Append(events, e)},
         orphaned => orphaned', Over => Over',
         \A j \in Job : row[j].status \in Ends => row'[j].status \in Ends,
         terminalSeen /\ ~Quiet' => ~Quiet /\ Pending' = Pending,
         terminalSeen /\ pc = "lock" => events' = events \/ e.job \notin Scope
  PROVE  OneInv'
  <1>1. /\ Len(events) \in Nat /\ Len(events') \in Nat /\ Len(events) <= Len(events')
        /\ \A i \in 1..Len(events) : i \in DOMAIN events' /\ events'[i] = events[i]
        /\ \A i \in DOMAIN events' : i \in 1..Len(events) \/ (i = Len(events) + 1 /\ events'[i] = e)
        /\ \A i \in 1..Len(events) : Kept(i)' => Kept(i)
        /\ DOMAIN events = 1..Len(events) /\ DOMAIN events' = 1..Len(events')
    BY Grows DEF Inv
  <1>0. Len(events) \in Nat /\ Len(events') \in Nat /\ Len(events) <= Len(events')
    BY <1>1
  <1>2. UNCHANGED <<pc, seen, batch, terminalSeen, cursor, printed, asleep, ended>>
    BY DEF follower
  <1>3. SeenOK'
    <2>1. \A j \in DOMAIN seen : j \in Job
      BY DEF Inv, Types, StreamAssumption
    <2>2. ASSUME NEW j \in DOMAIN seen, seen[j].status \in Ends PROVE row'[j].status \in Ends
      BY <2>1, <2>2 DEF OneInv, SeenOK
    <2> QED BY <1>2, <2>2 DEF OneInv, SeenOK, Ends
  <1>4. TerminalOK'
    <2>1. ASSUME terminalSeen, pc = "lock", NEW i \in DOMAIN events', i > cursor,
                 events'[i].job \in Scope, Kept(i)'
          PROVE  i \in ToSet(batch)
      <3>1. i \in 1..Len(events)
        <4>1. CASE events' = events
          BY <1>1, <4>1
        <4>2. CASE e.job \notin Scope
          BY <1>1, <2>1, <4>2
        <4> QED BY <2>1, <4>1, <4>2
      <3> QED BY <1>1, <2>1, <3>1 DEF OneInv, TerminalOK
    <2>2. terminalSeen' => Over'
      BY <1>2 DEF OneInv, TerminalOK
    <2>3. (terminalSeen /\ ~Quiet)' => (pc = "rows" /\ seen = <<>> /\ asleep = Pending)'
      BY <1>2 DEF OneInv, TerminalOK
    <2> QED BY <1>2, <2>1, <2>2, <2>3 DEF TerminalOK
  <1>5. EndOK'
    <2> SUFFICES ASSUME pc = "ended" PROVE EndOK'
      BY <1>2 DEF EndOK
    <2>1. terminalSeen /\ ended.upTo \in 0..Len(events) /\ EndsAfterAnnounced /\ LostIsLost
      BY DEF OneInv, EndOK
    <2>2. ended.upTo \in 0..Len(events')
      BY <1>0, <2>1
    <2>3. ASSUME NEW i \in 1..ended.upTo, events'[i].job \in Scope, Kept(i)', ended.reason # "lost_lease"
          PROVE  i \in Printed
      <3>1. ended.upTo \in Nat /\ ended.upTo <= Len(events)
        BY <1>0, <2>1
      <3>2. i \in 1..Len(events)
        BY <1>0, <3>1
      <3> QED BY <1>1, <2>1, <2>3, <3>2 DEF EndsAfterAnnounced
    <2>4. EndsAfterAnnounced'
      BY <1>2, <2>1, <2>3 DEF EndsAfterAnnounced, Printed
    <2>5. LostIsLost'
      BY <1>2, <2>1 DEF LostIsLost
    <2> QED BY <1>2, <2>1, <2>2, <2>4, <2>5 DEF EndOK
  <1> QED BY <1>3, <1>4, <1>5 DEF OneInv

LEMMA OneGate ==
  ASSUME StreamAssumption, Inv, Inv', OneInv, Gate
  PROVE  OneInv'
  <1>1. /\ lease # None /\ ~dead /\ runner.announce = None
        /\ gates < MaxGates /\ gates' = gates + 1 /\ events' = Append(events, Event(None, lease))
        /\ UNCHANGED <<row, lease, dead, claims, runner, orphaned>> /\ UNCHANGED follower
    BY DEF Gate
  <1>2. Event(None, lease) \in EventType /\ Event(None, lease).job \notin Scope
    BY DEF Inv, Types, Event, EventType, None, StreamAssumption
  <1>3. Len(events') = Len(events) + 1 /\ Len(events) \in Nat
    BY <1>1, <1>2, AppendProperties, LenProperties DEF Inv, Types, EventType
  <1>4. Cardinality(runner.left) \in Nat /\ Cardinality(Job) \in Nat /\ gates \in Nat
    BY FS_Subset, FS_CardinalityType DEF Inv, Types, StreamAssumption
  <1>5. claims = 1
    BY <1>1 DEF OneInv, RunOK
  <1>6. RunOK'
    <2>1. Len(events) + Cardinality(runner.left) + 0 <= 1 + gates + Cardinality(Job)
      BY <1>1 DEF OneInv, RunOK
    <2>2. Len(events') + Cardinality(runner.left) + 0 <= 1 + gates' + Cardinality(Job)
      BY <1>1, <1>3, <1>4, <2>1
    <2> QED BY <1>1, <1>5, <2>2 DEF OneInv, RunOK, Running
  <1>7. Over => Over'
    BY <1>1 DEF Over
  <1>8. Quiet'
    BY <1>1 DEF Quiet, StreamAssumption, None
  <1>9. Types'
    BY DEF Inv
  <1> QED BY <1>1, <1>2, <1>6, <1>7, <1>8, <1>9, OneStore

LEMMA OneFinish ==
  ASSUME StreamAssumption, Inv, Inv', OneInv, NEW j \in Job, NEW status \in Ends, Finish(j, status)
  PROVE  OneInv'
  <1>1. /\ lease # None /\ ~dead /\ j \in runner.left /\ runner.announce = None
        /\ row' = [row EXCEPT ![j] = [status |-> status, token |-> None]]
        /\ runner' = [left |-> runner.left \ {j}, announce |-> j]
        /\ UNCHANGED <<events, lease, dead, claims, gates, orphaned>> /\ UNCHANGED follower
    BY DEF Finish
  <1>2. row[j].status = "in_progress" /\ claims = 1
    BY <1>1 DEF OneInv, RunOK, Running
  <1>3. /\ row \in [Job -> Row]
        /\ \A i \in Job : /\ i # j => row'[i] = row[i]
                          /\ i = j => row'[i].status = status
    BY <1>1 DEF Inv, Types
  <1>4. Running(row') = runner'.left
    <2>1. status # "in_progress"
      BY DEF Ends
    <2>2. DOMAIN row' = Job /\ DOMAIN row = Job
      BY <1>1, <1>3
    <2>3. Running(row') = Running(row) \ {j}
      BY <1>3, <2>1, <2>2 DEF Running
    <2> QED BY <1>1, <2>3 DEF OneInv, RunOK
  <1>5. RunOK'
    <2>1. IsFiniteSet(runner.left) /\ runner.left \subseteq Job /\ j # None
      BY FS_Subset DEF Inv, Types, StreamAssumption, None
    <2>2. /\ Cardinality(runner.left \ {j}) = Cardinality(runner.left) - 1
          /\ Cardinality(runner.left) \in Nat
      BY <1>1, <2>1, FS_RemoveElement, FS_CardinalityType
    <2>3. /\ Len(events) \in Nat /\ gates \in Nat /\ Cardinality(Job) \in Nat
      BY LenProperties, FS_CardinalityType DEF Inv, Types, StreamAssumption
    <2>4. Len(events) + Cardinality(runner.left) + 0 <= 1 + gates + Cardinality(Job)
      BY <1>1 DEF OneInv, RunOK
    <2>5. Len(events) + Cardinality(runner.left \ {j}) + 1 <= 1 + gates + Cardinality(Job)
      BY <2>2, <2>3, <2>4
    <2>6. \A i \in runner'.left : row'[i].token = 1
      BY <1>1, <1>3, <2>1 DEF OneInv, RunOK
    <2> QED BY <1>1, <1>2, <1>4, <2>1, <2>5, <2>6 DEF OneInv, RunOK
  <1>6. \A i \in Job : row[i].status \in Ends => row'[i].status \in Ends
    BY <1>3
  <1>7. Over => Over' /\ j \notin Scope
    BY <1>1, <1>2, <1>6 DEF Over, StreamAssumption, Ends
  <1>8. terminalSeen => Quiet'
    BY <1>1, <1>7 DEF Quiet, OneInv, TerminalOK
  <1> DEFINE e == Event(None, 0)
  <1>9. e \in EventType
    BY DEF EventType, Event
  <1>10. Types'
    BY DEF Inv
  <1> HIDE DEF e
  <1> QED BY <1>1, <1>5, <1>6, <1>7, <1>8, <1>9, <1>10, OneStore

LEMMA OneAnnounce ==
  ASSUME StreamAssumption, Inv, Inv', OneInv, Announce
  PROVE  OneInv'
  <1>1. /\ lease # None /\ ~dead /\ runner.announce # None
        /\ events' = Append(events, Event(runner.announce, lease))
        /\ runner' = [runner EXCEPT !.announce = None]
        /\ UNCHANGED <<row, lease, dead, claims, gates, orphaned>> /\ UNCHANGED follower
    BY DEF Announce
  <1>2. Event(runner.announce, lease) \in EventType /\ Event(runner.announce, lease).job = runner.announce
    BY DEF Inv, Types, Event, EventType, None
  <1>3. Len(events') = Len(events) + 1 /\ Len(events) \in Nat
    BY <1>1, <1>2, AppendProperties, LenProperties DEF Inv, Types, EventType
  <1>4. Cardinality(runner.left) \in Nat /\ Cardinality(Job) \in Nat /\ gates \in Nat
    BY FS_Subset, FS_CardinalityType DEF Inv, Types, StreamAssumption
  <1>5. claims = 1
    BY <1>1 DEF OneInv, RunOK
  <1>6. runner'.left = runner.left /\ runner'.announce = None
    BY <1>1 DEF Inv, Types
  <1>7. RunOK'
    <2>1. Len(events) + Cardinality(runner.left) + 1 <= 1 + gates + Cardinality(Job)
      BY <1>1 DEF OneInv, RunOK
    <2>2. Len(events') + Cardinality(runner.left) + 0 <= 1 + gates + Cardinality(Job)
      BY <1>3, <1>4, <2>1
    <2> QED BY <1>1, <1>5, <1>6, <2>2 DEF OneInv, RunOK, Running
  <1>8. Over => Over'
    BY <1>1 DEF Over
  <1>9. Quiet'
    BY <1>6 DEF Quiet, StreamAssumption, None
  <1>10. terminalSeen /\ pc = "lock" => runner.announce \notin Scope
    BY <1>1 DEF OneInv, TerminalOK, Quiet
  <1>11. Types'
    BY DEF Inv
  <1> QED BY <1>1, <1>2, <1>7, <1>8, <1>9, <1>10, <1>11, OneStore

LEMMA OneRelease ==
  ASSUME StreamAssumption, Inv, Inv', OneInv, Release \/ Crash
  PROVE  OneInv'
  <1> DEFINE e == Event(None, 0)
  <1>1. e \in EventType
    BY DEF EventType, Event
  <1> HIDE DEF e
  <1>2. Types'
    BY DEF Inv
  <1>3. lease # None /\ ~dead /\ UNCHANGED <<row, events, claims, runner, gates>> /\ UNCHANGED follower
    BY DEF Release, Crash
  <1>4. claims = 1
    BY <1>3 DEF OneInv, RunOK
  <1>5. CASE Release
    <2>1. /\ runner.left = {} /\ runner.announce = None /\ lease' = None
          /\ UNCHANGED <<dead, orphaned>>
      BY <1>5 DEF Release
    <2>2. runner = [left |-> {}, announce |-> None]
      BY <2>1 DEF Inv, Types
    <2>3. RunOK'
      BY <1>3, <1>4, <2>1, <2>2 DEF OneInv, RunOK
    <2>4. Over' /\ Quiet'
      BY <1>3, <1>4, <2>1 DEF Over, Quiet, StreamAssumption, None
    <2> QED BY <1>1, <1>2, <1>3, <2>1, <2>3, <2>4, OneStore
  <1>6. CASE Crash
    <2>1. dead' = TRUE /\ lease' = lease /\ orphaned' = (orphaned \/ Orphans(row', lease', dead') # {})
      BY <1>6 DEF Crash, Note
    <2>2. runner.left # {} => orphaned'
      BY <1>3, <2>1 DEF Orphans, OneInv, RunOK
    <2>3. RunOK'
      BY <1>3, <1>4, <2>1, <2>2 DEF OneInv, RunOK
    <2>4. Over' /\ Quiet'
      BY <2>1 DEF Over, Quiet
    <2> QED BY <1>1, <1>2, <1>3, <2>1, <2>3, <2>4, OneStore
  <1> QED BY <1>5, <1>6

LEMMA OneReadRow ==
  ASSUME StreamAssumption, OneClaim, Inv, OneInv, ReadRow
  PROVE  OneInv'
  <1> DEFINE j == Min(Scope \ DOMAIN seen)
  <1>1. /\ pc = "rows" /\ pc' \in {"rows", "tokens"}
        /\ asleep = Nothing \/ Pending # asleep
        /\ seen' = [i \in DOMAIN seen \cup {j} |-> IF i = j THEN row[j] ELSE seen[i]]
        /\ UNCHANGED <<tokens, batch, terminalSeen, cursor, printed, asleep, ended>>
        /\ UNCHANGED store
    BY DEF ReadRow, OneClaim
  <1>2. j \in Scope \ DOMAIN seen
    BY <1>1, ReadsNext DEF Inv
  <1> HIDE DEF j
  <1>3. j \in Job /\ DOMAIN row = Job
    BY <1>2 DEF StreamAssumption, Inv, Types
  <1>4. row[j].status = "in_progress" =>
          /\ row[j].token = 1 /\ claims = 1
          /\ terminalSeen => orphaned
    <2> SUFFICES ASSUME row[j].status = "in_progress"
                 PROVE  row[j].token = 1 /\ claims = 1 /\ (terminalSeen => orphaned)
      OBVIOUS
    <2>1. j \in runner.left
      BY <1>3 DEF OneInv, RunOK, Running
    <2>2. row[j].token = 1 /\ lease # None
      BY <2>1 DEF OneInv, RunOK
    <2>3. claims = 1
      BY <2>2 DEF OneInv, RunOK
    <2>4. Over => dead
      BY <1>2, <2>2 DEF Over, Ends
    <2> QED BY <2>1, <2>2, <2>3, <2>4 DEF OneInv, RunOK, TerminalOK
  <1>5. RunOK'
    BY <1>1 DEF store, OneInv, RunOK, Running
  <1>6. SeenOK'
    <2>1. \A i \in DOMAIN seen' :
            (i = j /\ seen'[i] = row[j]) \/ (i \in DOMAIN seen /\ seen'[i] = seen[i])
      BY <1>1, <1>2
    <2> QED BY <1>1, <1>4, <2>1 DEF store, OneInv, SeenOK
  <1>7. TerminalOK'
    <2>1. ~Quiet => Pending # Nothing
      BY DEF Quiet, Pending, Nothing, StreamAssumption, None
    <2>2. terminalSeen => Quiet
      BY <1>1, <2>1 DEF OneInv, TerminalOK
    <2> QED BY <1>1, <2>2 DEF store, OneInv, TerminalOK, Over, Quiet
  <1>8. EndOK'
    BY <1>1 DEF EndOK
  <1> QED BY <1>5, <1>6, <1>7, <1>8 DEF OneInv

LEMMA OneReadTokens ==
  ASSUME StreamAssumption, Inv, OneInv, ReadTokens
  PROVE  OneInv'
  <1>1. /\ pc = "tokens" /\ pc' = "events"
        /\ UNCHANGED <<seen, batch, terminalSeen, cursor, printed, asleep, ended>>
        /\ UNCHANGED store
    BY DEF ReadTokens
  <1>2. RunOK'
    BY <1>1 DEF store, OneInv, RunOK, Running
  <1>3. SeenOK'
    BY <1>1 DEF store, OneInv, SeenOK
  <1>4. TerminalOK'
    BY <1>1 DEF store, OneInv, TerminalOK, Over, Quiet
  <1>5. EndOK'
    BY <1>1 DEF EndOK
  <1> QED BY <1>2, <1>3, <1>4, <1>5 DEF OneInv

LEMMA OneReadEvents ==
  ASSUME StreamAssumption, OneClaim, Inv, Inv', OneInv, ReadEvents
  PROVE  OneInv'
  <1>1. /\ pc = "events" /\ pc' = "lock"
        /\ UNCHANGED <<seen, tokens, terminalSeen, cursor, printed, asleep, ended>>
        /\ UNCHANGED store
    BY DEF ReadEvents
  <1>2. RunOK'
    BY <1>1 DEF store, OneInv, RunOK, Running
  <1>3. SeenOK'
    BY <1>1 DEF store, OneInv, SeenOK
  <1>4. \A i \in DOMAIN events :
          i > cursor /\ events[i].job \in Scope /\ Kept(i) => i \in ToSet(batch')
    <2>1. Len(batch') < Limit
      BY <1>2, NeverFullNext
    <2> QED BY <2>1, Batched
  <1>5. TerminalOK'
    BY <1>1, <1>4 DEF store, OneInv, TerminalOK, Over, Quiet, Kept
  <1>6. EndOK'
    BY <1>1 DEF EndOK
  <1> QED BY <1>2, <1>3, <1>5, <1>6 DEF OneInv

(* What is terminal is over.                                               *)
LEMMA TerminalIsOver ==
  ASSUME StreamAssumption, Inv, OneInv, pc = "lock", Terminal(seen, lease, dead) # "no"
  PROVE  /\ Over
         /\ Terminal(seen, lease, dead) = "lost_lease" =>
              \E j \in DOMAIN seen : seen[j].status = "in_progress"
  <1>1. DOMAIN seen = Scope /\ \A j \in Scope : seen[j].status \in Status
    BY DEF Inv, Types, Row
  <1> DEFINE rows == Running(seen)
             held == {seen[j].token : j \in rows}
             statuses == {seen[j].status : j \in Scope}
  <1>2. rows = {j \in Scope : seen[j].status = "in_progress"}
    BY <1>1 DEF Running
  <1>3. Terminal(seen, lease, dead) =
          CASE rows # {} -> (IF held = {lease} /\ ~dead THEN "no" ELSE "lost_lease")
            [] rows = {} /\ "queued" \in statuses -> "no"
            [] rows = {} /\ "queued" \notin statuses ->
                 (IF "blocked" \in statuses THEN "failure" ELSE "success")
    BY DEF Terminal
  <1>4. CASE rows # {}
    <2>0. \A j \in rows : seen[j].token = 1 /\ claims = 1
      BY <1>1, <1>2 DEF OneInv, SeenOK
    <2>1. held = {1} /\ claims = 1
      BY <1>4, <2>0
    <2>2. dead \/ lease # 1
      BY <1>3, <1>4, <2>1
    <2>3. lease \in {None, claims} /\ dead \in BOOLEAN
      BY DEF Inv, Types
    <2>4. Over
      <3> HIDE DEF rows, held, statuses
      <3> QED BY <2>1, <2>2, <2>3 DEF Over
    <2>5. \E j \in DOMAIN seen : seen[j].status = "in_progress"
      BY <1>4 DEF Running
    <2> QED BY <2>4, <2>5
  <1>5. CASE rows = {}
    <2> HIDE DEF rows, held, statuses
    <2>1. "queued" \notin statuses
      BY <1>3, <1>5
    <2>2. Terminal(seen, lease, dead) # "lost_lease"
      BY <1>3, <1>5, <2>1
    <2>3. \A j \in Scope : seen[j].status \in Ends
      BY <1>1, <1>2, <1>5, <2>1 DEF statuses, Status
    <2>4. \A j \in Scope : row[j].status \in Ends
      BY <1>1, <2>3 DEF OneInv, SeenOK
    <2> QED BY <2>2, <2>4 DEF Over
  <1> QED BY <1>4, <1>5

LEMMA OneReadLock ==
  ASSUME StreamAssumption, OneClaim, Inv, Inv', OneInv, ReadLock
  PROVE  OneInv'
  <1> DEFINE t == Terminal(seen, lease, dead)
  <1>1. /\ pc = "lock" /\ printed' = printed \o batch /\ terminalSeen' = (t # "no")
        /\ IF MayEnd(t, terminalSeen, Len(batch))
             THEN /\ pc' = "ended"
                  /\ ended' = [reason |-> t, upTo |-> Len(events),
                               pending |-> runner.announce \in Scope /\ ~dead]
             ELSE pc' = "rows" /\ ended' = ended
        /\ asleep' = (IF Len(batch) < Limit THEN Pending ELSE Nothing)
        /\ seen' = <<>> /\ UNCHANGED store
    BY DEF ReadLock
  <1>2. t # "no" => Over
    BY <1>1, TerminalIsOver
  <1>3. t = "lost_lease" => \E j \in DOMAIN seen : seen[j].status = "in_progress"
    BY <1>1, TerminalIsOver
  <1> HIDE DEF t
  <1>4. Len(batch) < Limit
    BY NeverFull DEF OneInv
  <1>5. RunOK'
    BY <1>1 DEF store, OneInv, RunOK, Running
  <1>6. DOMAIN seen' = {}
    BY <1>1
  <1>7. SeenOK'
    BY <1>6 DEF SeenOK
  <1>8. pc' = "ended" => terminalSeen /\ t # "no"
    BY <1>1 DEF MayEnd
  <1>9. pc' \in {"rows", "ended"}
    BY <1>1
  <1>10. TerminalOK'
    <2>1. terminalSeen' => Over'
      BY <1>1, <1>2 DEF Over, store
    <2>2. pc' = "ended" => Quiet'
      BY <1>1, <1>8 DEF OneInv, TerminalOK, Quiet, store
    <2>3. asleep' = Pending'
      BY <1>1, <1>4 DEF Pending, store
    <2> QED BY <1>1, <1>9, <2>1, <2>2, <2>3 DEF TerminalOK
  <1>11. EndOK'
    <2> SUFFICES ASSUME pc' = "ended" PROVE EndOK'
      BY DEF EndOK
    <2>1. /\ terminalSeen /\ t # "no"
          /\ ended' = [reason |-> t, upTo |-> Len(events),
                       pending |-> runner.announce \in Scope /\ ~dead]
      BY <1>1, <1>8
    <2>2. Len(events) \in Nat /\ DOMAIN events = 1..Len(events) /\ cursor \in Nat
      BY LenProperties DEF Inv, Types
    <2>3. ended'.upTo \in 0..Len(events')
      BY <1>1, <2>1, <2>2 DEF store
    <2>4. ~ended'.pending
      <3>1. Quiet
        BY <1>1, <2>1 DEF OneInv, TerminalOK
      <3> QED BY <2>1, <3>1 DEF Quiet
    <2>5. ToSet(printed') = ToSet(printed) \cup ToSet(batch)
      BY <1>1, SetOfConcat DEF Inv, Types
    <2>6. ASSUME NEW i \in 1..Len(events), events[i].job \in Scope, Kept(i)
          PROVE  i \in ToSet(printed')
      <3>1. CASE i <= cursor
        <4>1. i \in 1..cursor
          BY <2>2, <3>1
        <4> QED BY <2>5, <2>6, <4>1 DEF Inv, PrintOK, NoJobEventSkipped, Printed
      <3>2. CASE i > cursor
        BY <1>1, <2>1, <2>2, <2>5, <2>6, <3>2 DEF OneInv, TerminalOK
      <3> QED BY <2>2, <3>1, <3>2
    <2>7. ended'.upTo = Len(events) /\ ended'.reason = t
      BY <2>1
    <2>8. EndsAfterAnnounced'
      BY <1>1, <2>4, <2>6, <2>7 DEF EndsAfterAnnounced, Printed, Kept, store
    <2>9. LostIsLost'
      BY <1>1, <1>3, <2>1, <2>7 DEF LostIsLost, OneInv, SeenOK, store
    <2> QED BY <1>1, <2>1, <2>3, <2>8, <2>9 DEF EndOK
  <1> QED BY <1>5, <1>7, <1>10, <1>11 DEF OneInv

LEMMA OneInitInv == StreamAssumption /\ OneClaim /\ Init => OneInv
  <1> SUFFICES ASSUME StreamAssumption, OneClaim, Init PROVE OneInv
    OBVIOUS
  <1>1. Len(events) = 0 /\ DOMAIN seen = {} /\ Cardinality({}) = 0 /\ Cardinality(Job) \in Nat
    BY EmptySeq, FS_EmptySet, FS_CardinalityType DEF Init, StreamAssumption
  <1>2. runner.left = {} /\ runner.announce = None /\ Running(row) = {} /\ gates = 0
    BY DEF Init, Running
  <1>3. RunOK
    <2>1. Len(events) + Cardinality(runner.left) + (IF runner.announce = None THEN 0 ELSE 1)
            <= 1 + gates + Cardinality(Job)
      BY <1>1, <1>2
    <2> QED BY <1>2, <2>1 DEF Init, RunOK
  <1>4. SeenOK /\ TerminalOK /\ EndOK
    BY <1>1 DEF Init, SeenOK, TerminalOK, EndOK
  <1> QED BY <1>3, <1>4 DEF OneInv

LEMMA OneNextInv == StreamAssumption /\ OneClaim /\ Inv /\ Inv' /\ OneInv /\ [Next]_vars => OneInv'
  <1> SUFFICES ASSUME StreamAssumption, OneClaim, Inv, Inv', OneInv, [Next]_vars PROVE OneInv'
    OBVIOUS
  <1>1. CASE UNCHANGED vars
    <2> USE <1>1 DEF vars, store, follower, OneInv
    <2>1. RunOK'
      BY DEF RunOK, Running
    <2>2. SeenOK'
      BY DEF SeenOK
    <2>3. TerminalOK'
      BY DEF TerminalOK, Over, Quiet, Pending, Kept
    <2>4. EndOK'
      BY DEF EndOK, EndsAfterAnnounced, LostIsLost, Printed, Kept
    <2> QED BY <2>1, <2>2, <2>3, <2>4
  <1>2. CASE Next
    BY <1>2, OneClaims, OneGate, OneFinish, OneAnnounce, OneRelease, OneReadRow,
       OneReadTokens, OneReadEvents, OneReadLock DEF Next, Poll
  <1> QED BY <1>1, <1>2

(* What it promises of a single claim.                                     *)
LEMMA InvOne == OneInv => EndsAfterAnnounced /\ LostIsLost
  BY DEF OneInv, EndOK, EndsAfterAnnounced, LostIsLost

(* Spec leads to both invariants.                                          *)
LEMMA InvAlways == StreamAssumption => (Spec => []Inv)
  <1> SUFFICES ASSUME StreamAssumption PROVE Spec => []Inv
    OBVIOUS
  <1>1. Init => Inv
    BY InitInv
  <1>2. Inv /\ [Next]_vars => Inv'
    BY NextInv
  <1> QED BY <1>1, <1>2, PTL DEF Spec

(* Whatever the runner commits between the reads of a poll, and however    *)
(* often the jobs are claimed again, every event is printed once and in    *)
(* order, and the cursor passes over no event of one of the jobs that the  *)
(* retention still holds.                                                  *)
THEOREM StreamSkipsNothing == StreamAssumption => (Spec => [](InOrder /\ NoJobEventSkipped))
  <1> SUFFICES ASSUME StreamAssumption PROVE Spec => [](InOrder /\ NoJobEventSkipped)
    OBVIOUS
  <1>1. Inv => InOrder /\ NoJobEventSkipped
    BY InvStream
  <1> QED BY <1>1, InvAlways, PTL

(* The jobs of one claim, with a follower that polls no sooner than the    *)
(* runner follows a status with its event: the stream ends after the last  *)
(* event of its jobs, and calls a run lost only if it was.                 *)
THEOREM StreamEndsInTime ==
    StreamAssumption /\ OneClaim => (Spec => [](EndsAfterAnnounced /\ LostIsLost))
  <1> SUFFICES ASSUME StreamAssumption, OneClaim
        PROVE  Spec => [](EndsAfterAnnounced /\ LostIsLost)
    OBVIOUS
  <1>1. Init => OneInv
    BY OneInitInv
  <1>2. Inv /\ Inv' /\ OneInv /\ [Next]_vars => OneInv'
    BY OneNextInv
  <1>3. OneInv => EndsAfterAnnounced /\ LostIsLost
    BY InvOne
  <1> QED BY <1>1, <1>2, <1>3, InvAlways, PTL DEF Spec
=============================================================================
