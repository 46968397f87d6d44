------------------------------ MODULE EndsProofs ------------------------------
(***************************************************************************)
(* What is proved of the parts that MCEnds puts side by side, for every    *)
(* value of its constants: the bisection of a failed train, the stop of a  *)
(* gate, and a stream of events.  (That these parts end is liveness, which *)
(* TLC checks.)                                                            *)
(***************************************************************************)
EXTENDS MCEnds, Integers, SequenceTheorems, FiniteSetTheorems, TLAPS

(* Some member of the family includes no other.                            *)
HasSmallest(Fam) == \E A \in Fam : \A B \in Fam : B \subseteq A => B = A

(* A family of subsets of a finite set, if not empty, has a smallest       *)
(* member.                                                                 *)
LEMMA SmallestSubset ==
  ASSUME NEW S, IsFiniteSet(S), NEW Fam \in SUBSET SUBSET S, Fam # {}
  PROVE  HasSmallest(Fam)
<1>1. IsWellFoundedOn(StrictSubsetOrdering(S), SUBSET S)
  BY FS_StrictSubsetOrderingWellFounded, FS_FiniteSubsetsOfFinite
<1>2. PICK A \in Fam : \A B \in Fam : <<B, A>> \notin StrictSubsetOrdering(S)
  BY <1>1, WFMin
<1> QED
  BY <1>2 DEF StrictSubsetOrdering, HasSmallest

(* A finite set of naturals has a least member.                            *)
LEMMA LeastOf ==
  ASSUME NEW S, IsFiniteSet(S), S \subseteq Nat, S # {}
  PROVE  \E m \in S : \A n \in S : m <= n
<1> DEFINE Below(m) == {n \in S : n <= m}
<1>1. PICK Fam \in SUBSET SUBSET S :
        /\ Fam # {}
        /\ \A m \in S : Below(m) \in Fam
        /\ \A A \in Fam : \E m \in S : A = Below(m)
  <2> WITNESS {Below(m) : m \in S} \in SUBSET SUBSET S
  <2> QED
    OBVIOUS
<1>2. \A m, n \in S : n < m => m \notin Below(n) /\ m \in Below(m)
      /\ Below(n) \subseteq Below(m)
  <2> TAKE m, n \in S
  <2>1. m \in Nat /\ n \in Nat
    OBVIOUS
  <2>2. ASSUME n < m PROVE m \notin Below(n) /\ m \in Below(m)
    BY <2>1, <2>2
  <2>3. ASSUME n < m, NEW k \in Below(n) PROVE k \in Below(m)
    BY <2>1, <2>3
  <2> QED
    BY <2>2, <2>3
<1>3. PICK A \in Fam : \A B \in Fam : B \subseteq A => B = A
  <2>1. HasSmallest(Fam)
    BY <1>1, SmallestSubset
  <2> QED
    BY <2>1 DEF HasSmallest
<1>4. PICK m \in S : A = Below(m)
  BY <1>1
<1>5. ASSUME NEW n \in S PROVE ~(n < m)
  <2> HIDE DEF Below
  <2> QED
    BY <1>1, <1>2, <1>3, <1>4
<1> QED
  BY <1>5

(* And a greatest one.                                                     *)
LEMMA GreatestOf ==
  ASSUME NEW S, IsFiniteSet(S), S \subseteq Nat, S # {}
  PROVE  \E m \in S : \A n \in S : n <= m
<1> DEFINE Above(m) == {n \in S : m <= n}
<1>1. PICK Fam \in SUBSET SUBSET S :
        /\ Fam # {}
        /\ \A m \in S : Above(m) \in Fam
        /\ \A A \in Fam : \E m \in S : A = Above(m)
  <2> WITNESS {Above(m) : m \in S} \in SUBSET SUBSET S
  <2> QED
    OBVIOUS
<1>2. \A m, n \in S : m < n => m \notin Above(n) /\ m \in Above(m)
      /\ Above(n) \subseteq Above(m)
  <2> TAKE m, n \in S
  <2>1. m \in Nat /\ n \in Nat
    OBVIOUS
  <2>2. ASSUME m < n PROVE m \notin Above(n) /\ m \in Above(m)
    BY <2>1, <2>2
  <2>3. ASSUME m < n, NEW k \in Above(n) PROVE k \in Above(m)
    BY <2>1, <2>3
  <2> QED
    BY <2>2, <2>3
<1>3. PICK A \in Fam : \A B \in Fam : B \subseteq A => B = A
  <2>1. HasSmallest(Fam)
    BY <1>1, SmallestSubset
  <2> QED
    BY <2>1 DEF HasSmallest
<1>4. PICK m \in S : A = Above(m)
  BY <1>1
<1>5. ASSUME NEW n \in S PROVE ~(m < n)
  <2> HIDE DEF Above
  <2> QED
    BY <1>1, <1>2, <1>3, <1>4
<1> QED
  BY <1>5

-----------------------------------------------------------------------------
(***************************************************************************)
(* The bisection of a failed train.                                        *)
(***************************************************************************)
(* The cardinality that Bisect means is the one of the theorems.           *)
LEMMA BisectCardinality ==
  ASSUME NEW S
  PROVE  Bisect!Cardinality(S) = Cardinality(S) /\ Bisect!IsFiniteSet(S) = IsFiniteSet(S)
  BY DEF Bisect!Cardinality, Cardinality, Bisect!IsFiniteSet, IsFiniteSet

BisectFrame == [do : {"descend", "solo", "left", "right", "joint", "shrink", "members"},
                of : Bisect!Probes, rest : SUBSET Job, blamed : SUBSET Job]

BisectTypes ==
  /\ steady \in BOOLEAN /\ deploy \in BOOLEAN /\ broken \subseteq Bisect!Probes
  /\ pc \in {"gating", "probing", "isolating", "done"}
  /\ train \subseteq Job /\ (pc # "done" => train # {})
  /\ cache \in [Bisect!Probes -> {"unknown", "pass", "fail"}]
  /\ singles \subseteq Job /\ groups \subseteq Bisect!Probes
  /\ outcome \in [Job -> {"none", "passed", "failed", "blocked", "queued"}]

(* The failure of S goes without j, as far as a probe has shown.           *)
BisectNeeds(S, j) == \E T \in Bisect!Probes : cache[T] = "pass" /\ S \ {j} \subseteq T

(* What an open call has found out of the jobs it is about.                *)
BisectGood(f) ==
  /\ f.of \subseteq train /\ f.rest \subseteq f.of /\ f.blamed \subseteq f.of
  /\ steady => Bisect!Fails(f.of)
  /\ f.do = "descend" => Cardinality(f.of) # 1 \/ cache[f.of] = "fail"
  /\ f.do \notin {"descend", "shrink"} => Cardinality(f.of) # 1
  /\ f.do \in {"left", "shrink"} => f.blamed = {}
  /\ f.do = "right" /\ f.blamed # {} => cache[f.blamed] = "fail"
  /\ f.do \in {"shrink", "members"} => cache[f.of] = "fail"
  /\ f.do = "shrink" => \A j \in f.of \ f.rest : BisectNeeds(f.of, j)
  /\ f.do = "members" =>
       /\ \A j \in f.of : BisectNeeds(f.of, j)
       /\ \A j \in f.blamed : cache[{j}] = "fail"
       /\ \A j \in f.of \ (f.rest \cup f.blamed) : cache[{j}] = "pass"

BisectGoodFrame == {f \in BisectFrame : BisectGood(f)}

BisectCallsOK == calls \in Seq(BisectGoodFrame) /\ (pc # "probing" => calls = <<>>)

(* With steady gates, what a probe said holds of every later one.          *)
BisectCacheOK ==
  steady => \A S \in Bisect!Probes : /\ cache[S] = "fail" => Bisect!Fails(S)
                                     /\ cache[S] = "pass" => ~Bisect!Fails(S)

BisectBlameOK ==
  /\ Bisect!FailsAlone /\ Bisect!ConflictIsReal
  /\ pc = "probing" => singles \subseteq train /\ UNION groups \subseteq train

(* The jobs of the train have no verdict yet, and those of the others are  *)
(* the exact ones; steady gates never lead to one-job trains.              *)
BisectOutcomeOK ==
  /\ pc # "done" => \A j \in train : outcome[j] = "none"
  /\ steady => /\ pc # "isolating" /\ Bisect!Verdict("queued") = {}
               /\ \A j \in Bisect!Verdict("failed") : {j} \in broken
               /\ \A j \in Bisect!Verdict("blocked") : \E B \in broken :
                    j \in B /\ Cardinality(B) > 1 /\ B \subseteq Bisect!Verdict("blocked")
               /\ ~Bisect!Fails(Bisect!Verdict("passed"))
               /\ pc # "done" => Bisect!Verdict("passed") = {}

BisectInv ==
  /\ BisectTypes /\ BisectCallsOK /\ BisectCacheOK /\ BisectBlameOK /\ BisectOutcomeOK

-----------------------------------------------------------------------------
(* The sets that may be probed are finite and not empty.                   *)
LEMMA BisectProbeSize ==
  ASSUME Bisect!JobAssumption, NEW S \in Bisect!Probes
  PROVE  /\ IsFiniteSet(S) /\ S \subseteq Nat /\ Cardinality(S) \in Nat \ {0}
         /\ Cardinality(S) = 1 => \E j \in S : S = {j}
         /\ Cardinality(S) # 1 => Cardinality(S) > 1 /\ \A j \in S : S \ {j} \in Bisect!Probes
  <1>1. IsFiniteSet(S) /\ S \subseteq Nat /\ S # {} /\ S \subseteq Job
    BY FS_Subset, BisectCardinality DEF Bisect!JobAssumption, Bisect!Probes
  <1>2. Cardinality(S) \in Nat \ {0}
    BY <1>1, FS_CardinalityType, FS_EmptySet
  <1>3. Cardinality(S) = 1 => \E j \in S : S = {j}
    BY <1>1, FS_Singleton
  <1>4. ASSUME Cardinality(S) # 1, NEW j \in S
        PROVE  S \ {j} \in Bisect!Probes
    <2>1. S # {j}
      BY <1>4, FS_Singleton
    <2> QED BY <1>1, <2>1 DEF Bisect!Probes
  <1> QED BY <1>1, <1>2, <1>3, <1>4

LEMMA BisectOneMember ==
  ASSUME NEW j
  PROVE  Cardinality({j}) = 1
  BY FS_Singleton

LEMMA BisectLeastIn ==
  ASSUME Bisect!JobAssumption, NEW S \in Bisect!Probes
  PROVE  Bisect!Least(S) \in S
  <1>1. \E j \in S : \A i \in S : j <= i
    BY BisectProbeSize, LeastOf DEF Bisect!Probes
  <1> QED BY <1>1 DEF Bisect!Least

(* Neither half of two jobs or more is empty.                              *)
LEMMA BisectHalves ==
  ASSUME Bisect!JobAssumption, NEW S \in Bisect!Probes, Cardinality(S) # 1
  PROVE  /\ Bisect!Left(S) \in Bisect!Probes /\ Bisect!Left(S) \subseteq S
         /\ Bisect!Right(S) \in Bisect!Probes /\ Bisect!Right(S) \subseteq S
         /\ S = Bisect!Left(S) \cup Bisect!Right(S)
  <1> DEFINE n == Cardinality(S)
             Before(j) == {i \in S : i < j}
  <1>1. IsFiniteSet(S) /\ S \subseteq Nat /\ n \in Nat /\ n > 1 /\ S # {} /\ S \subseteq Job
    BY BisectProbeSize DEF Bisect!Probes
  <1>2. 0 < n \div 2 /\ ~(n - 1 < n \div 2) /\ n \div 2 \in Nat
    BY <1>1
  <1>3. PICK a \in S : \A i \in S : a <= i
    BY <1>1, LeastOf
  <1>4. PICK b \in S : \A i \in S : i <= b
    BY <1>1, GreatestOf
  <1>5. Before(a) = {}
    <2>1. \A i \in S : i \in Nat /\ a \in Nat /\ a <= i
      BY <1>1, <1>3
    <2> QED BY <2>1
  <1>6. Before(b) = S \ {b}
    <2>1. \A i \in S : i \in Nat /\ b \in Nat /\ i <= b
      BY <1>1, <1>4
    <2>2. \A i \in S : i < b <=> i # b
      BY <2>1
    <2> QED BY <2>2
  <1>7. Cardinality(Before(a)) = 0
    BY <1>5, FS_EmptySet
  <1>8. Cardinality(Before(b)) = n - 1
    BY <1>1, <1>6, FS_RemoveElement
  <1>9. Bisect!Left(S) = {j \in S : Cardinality(Before(j)) < n \div 2}
    BY BisectCardinality DEF Bisect!Left
  <1> HIDE DEF Before, n
  <1>10. a \in Bisect!Left(S) /\ b \notin Bisect!Left(S)
    BY <1>2, <1>7, <1>8, <1>9
  <1> QED BY <1>1, <1>9, <1>10 DEF Bisect!Right, Bisect!Probes

LEMMA BisectSeqMono ==
  ASSUME NEW S, NEW T, S \subseteq T
  PROVE  Seq(S) \subseteq Seq(T)
  OBVIOUS

(* A set without a failing combination has no part that fails.             *)
LEMMA BisectFailsUp ==
  ASSUME NEW S, NEW T, S \subseteq T, Bisect!Fails(S)
  PROVE  Bisect!Fails(T)
  BY DEF Bisect!Fails

LEMMA BisectNoneFails ==
  ASSUME BisectTypes
  PROVE  ~Bisect!Fails({})
  BY DEF BisectTypes, Bisect!Fails, Bisect!Probes

-----------------------------------------------------------------------------
BisectGrows == \A S \in Bisect!Probes : cache[S] # "unknown" => cache'[S] = cache[S]

(* What an open call has found out stays true while the cache grows.       *)
LEMMA BisectGoodGrows ==
  ASSUME BisectTypes, BisectGrows, UNCHANGED <<steady, broken, train>>
  PROVE  BisectGoodFrame \subseteq BisectGoodFrame' /\ BisectFrame' = BisectFrame
  <1>1. BisectFrame' = BisectFrame
    BY DEF BisectFrame, Bisect!Probes
  <1> SUFFICES ASSUME NEW f \in BisectFrame, BisectGood(f) PROVE BisectGood(f)'
    BY <1>1 DEF BisectGoodFrame
  <1>2. \A S \in Bisect!Probes : cache[S] = "pass" => cache'[S] = "pass"
    BY DEF BisectGrows
  <1>3. \A S \in Bisect!Probes : cache[S] = "fail" => cache'[S] = "fail"
    BY DEF BisectGrows
  <1>4. f.of \in Bisect!Probes /\ f.blamed \in SUBSET Job /\ f.of \in SUBSET Job
    BY DEF BisectFrame, Bisect!Probes
  <1>5. \A S, j : BisectNeeds(S, j) => BisectNeeds(S, j)'
    BY <1>2 DEF BisectNeeds
  <1>6. \A j \in Job : {j} \in Bisect!Probes
    BY DEF Bisect!Probes
  <1>7. f.blamed # {} => f.blamed \in Bisect!Probes
    BY <1>4 DEF Bisect!Probes
  <1>8. Bisect!Fails(f.of)' = Bisect!Fails(f.of)
    BY DEF Bisect!Fails
  <1>9. /\ f.of \subseteq train' /\ f.rest \subseteq f.of /\ f.blamed \subseteq f.of
        /\ steady' => Bisect!Fails(f.of)'
    BY <1>8 DEF BisectGood
  <1>10. /\ f.do = "descend" => Cardinality(f.of) # 1 \/ cache'[f.of] = "fail"
         /\ f.do \notin {"descend", "shrink"} => Cardinality(f.of) # 1
         /\ f.do \in {"left", "shrink"} => f.blamed = {}
         /\ f.do = "right" /\ f.blamed # {} => cache'[f.blamed] = "fail"
         /\ f.do \in {"shrink", "members"} => cache'[f.of] = "fail"
    BY <1>3, <1>4, <1>7 DEF BisectGood
  <1>11. f.do = "shrink" => \A j \in f.of \ f.rest : BisectNeeds(f.of, j)'
    BY <1>5 DEF BisectGood
  <1>12. f.do = "members" =>
          /\ \A j \in f.of : BisectNeeds(f.of, j)'
          /\ \A j \in f.blamed : cache'[{j}] = "fail"
          /\ \A j \in f.of \ (f.rest \cup f.blamed) : cache'[{j}] = "pass"
    <2>1. CASE f.do = "members"
      <3>1. \A j \in f.of : BisectNeeds(f.of, j)'
        BY <1>5, <2>1 DEF BisectGood
      <3>2. \A j \in f.blamed : cache'[{j}] = "fail"
        BY <1>3, <1>4, <1>6, <2>1 DEF BisectGood
      <3>3. \A j \in f.of \ (f.rest \cup f.blamed) : cache'[{j}] = "pass"
        BY <1>2, <1>4, <1>6, <2>1 DEF BisectGood
      <3> QED BY <3>1, <3>2, <3>3
    <2> QED BY <2>1
  <1> QED BY <1>9, <1>10, <1>11, <1>12 DEF BisectGood

(* A probe tells the cache no more than it knows, and the truth.           *)
LEMMA BisectProbeTells ==
  ASSUME BisectInv, NEW result, Bisect!Probe(result), Bisect!Subject \in Bisect!Probes
  PROVE  /\ BisectGrows /\ BisectCacheOK' /\ cache'[Bisect!Subject] = result
         /\ result \in {"pass", "fail"}
         /\ cache' \in [Bisect!Probes -> {"unknown", "pass", "fail"}]
         /\ UNCHANGED <<steady, broken, deploy, pc, train, outcome>>
         /\ result = "fail" /\ steady => Bisect!Fails(Bisect!Subject)
  <1>1. /\ result \in Bisect!Possible /\ cache' = [cache EXCEPT ![Bisect!Subject] = result]
        /\ UNCHANGED <<steady, broken, deploy, pc, train, outcome>>
    BY DEF Bisect!Probe
  <1>2. cache \in [Bisect!Probes -> {"unknown", "pass", "fail"}]
    BY DEF BisectInv, BisectTypes
  <1>3. result \in {"pass", "fail"}
    BY <1>1, <1>2 DEF Bisect!Possible, Bisect!Results
  <1>4. cache'[Bisect!Subject] = result /\ cache' \in [Bisect!Probes -> {"unknown", "pass", "fail"}]
        /\ \A S \in Bisect!Probes : S # Bisect!Subject => cache'[S] = cache[S]
    BY <1>1, <1>2, <1>3
  <1>5. cache[Bisect!Subject] # "unknown" => result = cache[Bisect!Subject]
    BY <1>1 DEF Bisect!Possible
  <1>6. BisectGrows
    BY <1>4, <1>5 DEF BisectGrows
  <1>7. steady => (result = "fail" <=> Bisect!Fails(Bisect!Subject))
    <2>1. CASE cache[Bisect!Subject] = "unknown"
      BY <1>1, <2>1, <1>3 DEF Bisect!Possible, Bisect!Results
    <2>2. CASE cache[Bisect!Subject] # "unknown"
      BY <1>3, <1>5, <2>2 DEF BisectInv, BisectCacheOK
    <2> QED BY <2>1, <2>2
  <1>8. BisectCacheOK'
    <2> SUFFICES ASSUME steady, NEW S \in Bisect!Probes
        PROVE  (cache'[S] = "fail" => Bisect!Fails(S)) /\ (cache'[S] = "pass"
            => ~Bisect!Fails(S))
      BY <1>1 DEF BisectCacheOK, Bisect!Fails, Bisect!Probes
    <2>1. CASE S = Bisect!Subject
      BY <1>3, <1>4, <1>7, <2>1
    <2>2. CASE S # Bisect!Subject
      BY <1>4, <2>2 DEF BisectInv, BisectCacheOK
    <2> QED BY <2>1, <2>2
  <1> QED BY <1>1, <1>3, <1>4, <1>6, <1>7, <1>8

LEMMA BisectTellsNothing ==
  ASSUME BisectInv, Bisect!NoProbe
  PROVE  /\ BisectGrows /\ BisectCacheOK'
         /\ cache' \in [Bisect!Probes -> {"unknown", "pass", "fail"}]
         /\ UNCHANGED <<steady, broken, deploy, pc, train, outcome, cache>>
  BY DEF Bisect!NoProbe, BisectGrows, BisectCacheOK, Bisect!Fails, Bisect!Probes, BisectInv,
         BisectTypes

LEMMA BisectTopOK ==
  ASSUME BisectInv, NEW do, Bisect!In(do)
  PROVE  /\ Bisect!Top \in BisectFrame /\ BisectGood(Bisect!Top)
         /\ Tail(calls) \in Seq(BisectGoodFrame)
         /\ pc = "probing" /\ Bisect!Top.do = do /\ Bisect!Top.of \in Bisect!Probes
         /\ train \subseteq Job
  <1>1. calls \in Seq(BisectGoodFrame) /\ calls # <<>>
    BY DEF BisectInv, BisectCallsOK, Bisect!In
  <1>2. Head(calls) \in BisectGoodFrame /\ Tail(calls) \in Seq(BisectGoodFrame)
    BY <1>1, HeadTailProperties
  <1> QED BY <1>2
             DEF Bisect!Top, BisectGoodFrame, BisectFrame, Bisect!In, BisectInv, BisectTypes

(* A step of the bisection that keeps the calls good and blames no one     *)
(* without proof.                                                          *)
LEMMA BisectResumes ==
  ASSUME Bisect!JobAssumption, BisectInv, pc = "probing",
         UNCHANGED <<steady, broken, deploy, pc, train, outcome>>,
         BisectGrows, BisectCacheOK', cache' \in [Bisect!Probes -> {"unknown", "pass", "fail"}],
         calls' \in Seq(BisectGoodFrame'),
         NEW S \in SUBSET train, \A j \in S : cache'[{j}] = "fail", singles' = singles \cup S,
         NEW G \in SUBSET Bisect!Probes, groups' = groups \cup G,
         \A X \in G : /\ X \subseteq train /\ Cardinality(X) > 1 /\ cache'[X] = "fail"
                      /\ \A j \in X : cache'[{j}] = "pass" /\ BisectNeeds(X, j)'
  PROVE  BisectInv'
  <1>1. BisectTypes'
    BY DEF BisectInv, BisectTypes, Bisect!Probes
  <1>2. BisectCallsOK'
    BY DEF BisectCallsOK
  <1>3. /\ \A X \in Bisect!Probes : cache[X] = "fail" => cache'[X] = "fail"
        /\ \A X \in Bisect!Probes : cache[X] = "pass" => cache'[X] = "pass"
    BY DEF BisectGrows
  <1>4. \A j \in Job : {j} \in Bisect!Probes
    BY DEF Bisect!Probes
  <1>5. Bisect!FailsAlone'
    BY <1>3, <1>4 DEF Bisect!FailsAlone, BisectInv, BisectBlameOK, BisectTypes
  <1>6. Bisect!ConflictIsReal'
    <2> SUFFICES ASSUME NEW X \in groups'
        PROVE  /\ Cardinality(X) > 1 /\ cache'[X] = "fail"
               /\ \A j \in X : cache'[{j}] = "pass" /\ BisectNeeds(X, j)'
      <3>1. \A Y : Bisect!Cardinality(Y) = Cardinality(Y)
        BY BisectCardinality
      <3> QED BY <3>1, Zenon DEF Bisect!ConflictIsReal, BisectNeeds
    <2>1. CASE X \in groups
      <3>1. X \in Bisect!Probes /\ X \subseteq Job
        BY <2>1 DEF BisectInv, BisectTypes, Bisect!Probes
      <3>2. /\ Cardinality(X) > 1 /\ cache[X] = "fail"
            /\ \A j \in X : cache[{j}] = "pass" /\ BisectNeeds(X, j)
        <4>1. \A Y : Bisect!Cardinality(Y) = Cardinality(Y)
          BY BisectCardinality
        <4>2. Bisect!ConflictIsReal
          BY DEF BisectInv, BisectBlameOK
        <4> QED BY <2>1, <4>1, <4>2, Zenon DEF Bisect!ConflictIsReal, BisectNeeds
      <3>3. \A j \in X : BisectNeeds(X, j)'
        BY <1>3, <3>2 DEF BisectNeeds
      <3> QED BY <1>3, <1>4, <3>1, <3>2, <3>3
    <2>2. CASE X \in G
      BY <2>2
    <2> QED BY <2>1, <2>2
  <1>7. BisectBlameOK'
    BY <1>5, <1>6 DEF BisectBlameOK, BisectInv
  <1>8. BisectOutcomeOK'
    BY DEF BisectOutcomeOK, BisectInv, Bisect!Verdict, Bisect!Fails
  <1> QED BY <1>1, <1>2, <1>7, <1>8 DEF BisectInv

(* The top call goes on as another.                                        *)
LEMMA BisectGoesOn ==
  ASSUME Bisect!JobAssumption, BisectInv, NEW do, Bisect!In(do),
         UNCHANGED <<steady, broken, deploy, pc, train, outcome>>,
         BisectGrows, BisectCacheOK', cache' \in [Bisect!Probes -> {"unknown", "pass", "fail"}],
         NEW f \in BisectGoodFrame', Bisect!Continue(f)
  PROVE  BisectInv'
  <1>1. pc = "probing" /\ Tail(calls) \in Seq(BisectGoodFrame)
    BY BisectTopOK
  <1>2. Seq(BisectGoodFrame) \subseteq Seq(BisectGoodFrame')
    BY BisectGoodGrows, BisectSeqMono DEF BisectInv
  <1>3. calls' = <<f>> \o Tail(calls) /\ singles' = singles \cup {} /\ groups' = groups \cup {}
    BY DEF Bisect!Continue
  <1>4. calls' \in Seq(BisectGoodFrame')
    <2>1. <<f>> \in Seq(BisectGoodFrame') /\ Tail(calls) \in Seq(BisectGoodFrame')
      BY <1>1, <1>2
    <2> QED BY <1>3, <2>1, ConcatProperties
  <1> DEFINE S == {}
             G == {}
  <1>5. /\ S \in SUBSET train /\ \A j \in S : cache'[{j}] = "fail"
        /\ G \in SUBSET Bisect!Probes /\ singles' = singles \cup S /\ groups' = groups \cup G
        /\ \A X \in G : /\ X \subseteq train /\ Cardinality(X) > 1 /\ cache'[X] = "fail"
                         /\ \A j \in X : cache'[{j}] = "pass" /\ BisectNeeds(X, j)'
    BY <1>3
  <1> HIDE DEF S, G
  <1> QED BY <1>1, <1>4, <1>5, BisectResumes

(* The top call ends, with jobs to blame that failed alone.                *)
LEMMA BisectEndsBlaming ==
  ASSUME Bisect!JobAssumption, BisectInv, NEW do, Bisect!In(do),
         UNCHANGED <<steady, broken, deploy, pc, train, outcome>>,
         BisectGrows, BisectCacheOK', cache' \in [Bisect!Probes -> {"unknown", "pass", "fail"}],
         NEW S \in SUBSET train, \A j \in S : cache'[{j}] = "fail", Bisect!Blame(S)
  PROVE  BisectInv'
  <1>1. pc = "probing" /\ Tail(calls) \in Seq(BisectGoodFrame)
    BY BisectTopOK
  <1>2. Seq(BisectGoodFrame) \subseteq Seq(BisectGoodFrame')
    BY BisectGoodGrows, BisectSeqMono DEF BisectInv
  <1>3. calls' = Tail(calls) /\ singles' = singles \cup S /\ groups' = groups \cup {}
    BY DEF Bisect!Blame
  <1> DEFINE G == {}
  <1>4. /\ G \in SUBSET Bisect!Probes /\ groups' = groups \cup G
        /\ calls' \in Seq(BisectGoodFrame')
        /\ \A X \in G : /\ X \subseteq train /\ Cardinality(X) > 1 /\ cache'[X] = "fail"
                         /\ \A j \in X : cache'[{j}] = "pass" /\ BisectNeeds(X, j)'
    BY <1>1, <1>2, <1>3
  <1> HIDE DEF G
  <1> QED BY <1>1, <1>3, <1>4, BisectResumes

(* A call that has found out nothing yet.                                  *)
LEMMA BisectNewCall ==
  ASSUME UNCHANGED <<steady, broken, train>>,
         NEW do \in {"descend", "solo", "left", "right", "joint", "shrink", "members"},
         NEW S \in Bisect!Probes, S \subseteq train, steady => Bisect!Fails(S),
         do \notin {"descend", "shrink"} => Cardinality(S) # 1,
         do = "descend" => Cardinality(S) # 1 \/ cache'[S] = "fail",
         do \in {"shrink", "members"} => cache'[S] = "fail",
         do = "members" =>
           \A j \in S : BisectNeeds(S, j)'
  PROVE  Bisect!Call(do, S) \in BisectGoodFrame'
  <1> DEFINE f == Bisect!Call(do, S)
  <1>1. f.do = do /\ f.of = S /\ f.rest = S /\ f.blamed = {}
    BY DEF Bisect!Call
  <1>2. f \in BisectFrame'
    BY DEF Bisect!Call, BisectFrame, Bisect!Probes
  <1>3. Bisect!Fails(f.of)' <=> Bisect!Fails(S)
    BY <1>1 DEF Bisect!Fails
  <1> HIDE DEF f
  <1>4. BisectGood(f)'
    BY <1>1, <1>3 DEF BisectGood
  <1> QED BY <1>2, <1>4 DEF BisectGoodFrame, f

LEMMA BisectStepDescend ==
  ASSUME Bisect!JobAssumption, BisectInv, Bisect!Descend
  PROVE  BisectInv'
  <1>1. Bisect!In("descend") /\ Bisect!NoProbe
    BY BisectCardinality DEF Bisect!Descend
  <1>2. /\ BisectGrows /\ BisectCacheOK' /\ cache' \in [Bisect!Probes -> {"unknown", "pass", "fail"}]
        /\ UNCHANGED <<steady, broken, deploy, pc, train, outcome, cache>>
    BY <1>1, BisectTellsNothing
  <1>3. Bisect!Top \in BisectFrame /\ BisectGood(Bisect!Top) /\ Bisect!Top.do = "descend"
        /\ Bisect!Top.of \in Bisect!Probes
        /\ train \subseteq Job
    BY <1>1, BisectTopOK
  <1>4. CASE Cardinality(Bisect!Top.of) = 1
    <2>1. Bisect!Blame(Bisect!Top.of)
      BY <1>4, BisectCardinality DEF Bisect!Descend
    <2>2. PICK j \in Bisect!Top.of : Bisect!Top.of = {j}
      BY <1>3, <1>4, BisectProbeSize
    <2>3. cache'[Bisect!Top.of] = "fail" /\ Bisect!Top.of \subseteq train
      BY <1>2, <1>3, <1>4 DEF BisectGood
    <2>4. \A i \in Bisect!Top.of : cache'[{i}] = "fail"
      BY <2>2, <2>3
    <2> QED BY <1>1, <1>2, <2>1, <2>3, <2>4, BisectEndsBlaming
  <1>5. CASE Cardinality(Bisect!Top.of) # 1
    <2>1. PICK do \in {"solo", "left"} : Bisect!Continue(Bisect!Call(do, Bisect!Top.of))
      BY <1>5, BisectCardinality DEF Bisect!Descend
    <2>2. Bisect!Call(do, Bisect!Top.of) \in BisectGoodFrame'
      BY <1>2, <1>3, <1>5, BisectNewCall DEF BisectGood
    <2> QED BY <1>1, <1>2, <2>1, <2>2, BisectGoesOn
  <1> QED BY <1>4, <1>5

LEMMA BisectStepAllPassAlone ==
  ASSUME Bisect!JobAssumption, BisectInv, Bisect!AllPassAlone
  PROVE  BisectInv'
  <1>1. Bisect!In("solo") /\ Bisect!NoProbe
        /\ Bisect!Continue(Bisect!Call("joint", Bisect!Top.of))
    BY DEF Bisect!AllPassAlone
  <1>2. /\ BisectGrows /\ BisectCacheOK' /\ cache' \in [Bisect!Probes -> {"unknown", "pass", "fail"}]
        /\ UNCHANGED <<steady, broken, deploy, pc, train, outcome, cache>>
    BY <1>1, BisectTellsNothing
  <1>3. Bisect!Top \in BisectFrame /\ BisectGood(Bisect!Top) /\ Bisect!Top.do = "solo"
        /\ Bisect!Top.of \in Bisect!Probes
    BY <1>1, BisectTopOK
  <1>4. Bisect!Call("joint", Bisect!Top.of) \in BisectGoodFrame'
    BY <1>2, <1>3, BisectNewCall DEF BisectGood
  <1> QED BY <1>1, <1>2, <1>4, BisectGoesOn

(* The next job of a call that goes job by job.                            *)
LEMMA BisectNextJob ==
  ASSUME Bisect!JobAssumption, NEW f \in BisectFrame, f.rest \subseteq f.of, f.rest # {}
  PROVE  /\ Bisect!Least(f.rest) \in f.rest /\ {Bisect!Least(f.rest)} \in Bisect!Probes
         /\ Bisect!Least(f.rest) \in f.of /\ Bisect!Least(f.rest) \in Job
  <1>1. f.rest \in Bisect!Probes /\ f.rest \in SUBSET Job
    BY DEF BisectFrame, Bisect!Probes
  <1>2. Bisect!Least(f.rest) \in f.rest
    BY <1>1, BisectLeastIn
  <1> QED BY <1>1, <1>2 DEF Bisect!Probes

(* The open call on top, as a probe leaves it.                             *)
LEMMA BisectTopStays ==
  ASSUME BisectInv, NEW do, Bisect!In(do), BisectGrows, UNCHANGED <<steady, broken, train>>
  PROVE  \E t \in BisectFrame : t = Bisect!Top /\ t.do = do /\ t.of \in Bisect!Probes
      /\ BisectGood(t) /\ BisectGood(t)'
  <1>1. Bisect!Top \in BisectFrame /\ BisectGood(Bisect!Top) /\ Bisect!Top.do = do
        /\ Bisect!Top.of \in Bisect!Probes
    BY BisectTopOK
  <1>2. PICK t \in BisectFrame : t = Bisect!Top
    BY <1>1
  <1>3. t \in BisectGoodFrame'
    BY <1>1, <1>2, BisectGoodGrows DEF BisectInv, BisectGoodFrame
  <1> QED BY <1>1, <1>2, <1>3 DEF BisectGoodFrame

LEMMA BisectStepProbeSolo ==
  ASSUME Bisect!JobAssumption, BisectInv, Bisect!ProbeSolo
  PROVE  BisectInv'
  <1> DEFINE j == Bisect!Least(Bisect!Top.rest)
  <1>1. Bisect!In("solo") /\ Bisect!Top.rest # {}
    BY DEF Bisect!ProbeSolo
  <1>2. Bisect!Top \in BisectFrame /\ BisectGood(Bisect!Top) /\ Bisect!Top.do = "solo"
        /\ Bisect!Top.of \in Bisect!Probes
    BY <1>1, BisectTopOK
  <1>3. /\ j \in Bisect!Top.rest /\ {j} \in Bisect!Probes /\ j \in Bisect!Top.of
        /\ Bisect!Top.of \subseteq train
    BY <1>1, <1>2, BisectNextJob DEF BisectGood
  <1>4. Bisect!Subject = {j}
    BY <1>2 DEF Bisect!Subject
  <1>5. CASE Bisect!Probe("fail") /\ Bisect!Blame(Bisect!Subject)
    <2>1. /\ BisectGrows /\ BisectCacheOK' /\ cache'[{j}] = "fail"
          /\ cache' \in [Bisect!Probes -> {"unknown", "pass", "fail"}]
          /\ UNCHANGED <<steady, broken, deploy, pc, train, outcome>>
      BY <1>3, <1>4, <1>5, BisectProbeTells
    <2>2. {j} \in SUBSET train /\ \A i \in {j} : cache'[{i}] = "fail"
      BY <1>3, <2>1
    <2> QED BY <1>1, <1>4, <1>5, <2>1, <2>2, BisectEndsBlaming
  <1>6. CASE Bisect!Probe("pass") /\ Bisect!Continue([Bisect!Top EXCEPT !.rest = Bisect!Rest])
    <2>1. /\ BisectGrows /\ BisectCacheOK'
          /\ cache' \in [Bisect!Probes -> {"unknown", "pass", "fail"}]
          /\ UNCHANGED <<steady, broken, deploy, pc, train, outcome>>
      BY <1>3, <1>4, <1>6, BisectProbeTells
    <2>2. PICK t \in BisectFrame : t = Bisect!Top /\ t.do = "solo" /\ BisectGood(t)'
      BY <1>1, <2>1, BisectTopStays
    <2>3. PICK f \in BisectFrame : /\ f = [t EXCEPT !.rest = Bisect!Rest]
                            /\ f.do = "solo" /\ f.of = t.of /\ f.rest \subseteq t.rest
                            /\ f.blamed = t.blamed
      <3> DEFINE g == [t EXCEPT !.rest = Bisect!Rest]
      <3>1. Bisect!Rest \subseteq t.rest /\ t.rest \in SUBSET Job
        BY <2>2 DEF Bisect!Rest, BisectFrame
      <3>2. g \in BisectFrame /\ g.do = "solo" /\ g.of = t.of /\ g.rest \subseteq t.rest
            /\ g.blamed = t.blamed
        BY <2>2, <3>1 DEF BisectFrame
      <3> QED BY <3>2
    <2>4. BisectGood(f)'
      BY <2>2, <2>3 DEF BisectGood
    <2>5. f \in BisectGoodFrame'
      BY <2>1, <2>3, <2>4, BisectGoodGrows DEF BisectGoodFrame, BisectInv
    <2> QED BY <1>1, <1>6, <2>1, <2>2, <2>3, <2>5, BisectGoesOn
  <1> QED BY <1>5, <1>6 DEF Bisect!ProbeSolo

LEMMA BisectStepProbeLeft ==
  ASSUME Bisect!JobAssumption, BisectInv, Bisect!ProbeLeft
  PROVE  BisectInv'
  <1>1. Bisect!In("left")
    BY DEF Bisect!ProbeLeft
  <1>2. Bisect!Top \in BisectFrame /\ BisectGood(Bisect!Top) /\ Bisect!Top.do = "left"
        /\ Bisect!Top.of \in Bisect!Probes
    BY <1>1, BisectTopOK
  <1>3. Bisect!Subject = Bisect!Left(Bisect!Top.of)
    BY <1>2 DEF Bisect!Subject
  <1>4. Bisect!Subject \in Bisect!Probes /\ Bisect!Subject \subseteq Bisect!Top.of
    BY <1>2, <1>3, BisectHalves DEF BisectGood
  <1>5. PICK result \in {"pass", "fail"} : Bisect!Probe(result)
    BY DEF Bisect!ProbeLeft
  <1>6. /\ BisectGrows /\ BisectCacheOK' /\ cache' \in [Bisect!Probes -> {"unknown", "pass", "fail"}]
        /\ UNCHANGED <<steady, broken, deploy, pc, train, outcome>>
    BY <1>4, <1>5, BisectProbeTells
  <1>7. PICK t \in BisectFrame : t = Bisect!Top /\ t.do = "left" /\ t.of \in Bisect!Probes
        /\ BisectGood(t)'
    BY <1>1, <1>6, BisectTopStays
  <1>8. CASE /\ Bisect!Probe("fail")
             /\ Bisect!Continue([Bisect!Top EXCEPT !.do = "right", !.blamed = Bisect!Subject])
    <2>1. cache'[Bisect!Subject] = "fail"
      BY <1>4, <1>8, BisectProbeTells
    <2>2. PICK f \in BisectFrame : /\ f = [t EXCEPT !.do = "right", !.blamed = Bisect!Subject]
                            /\ f.do = "right" /\ f.of = t.of /\ f.rest = t.rest
                            /\ f.blamed = Bisect!Subject
      <3> DEFINE g == [t EXCEPT !.do = "right", !.blamed = Bisect!Subject]
      <3>1. Bisect!Subject \in SUBSET Job
        BY <1>4 DEF Bisect!Probes
      <3>2. g \in BisectFrame /\ g.do = "right" /\ g.of = t.of /\ g.rest = t.rest
            /\ g.blamed = Bisect!Subject
        BY <3>1 DEF BisectFrame
      <3> QED BY <3>2
    <2>3. BisectGood(f)'
      BY <1>4, <1>7, <2>1, <2>2 DEF BisectGood
    <2>4. f \in BisectGoodFrame'
      BY <1>6, <2>2, <2>3, BisectGoodGrows DEF BisectGoodFrame, BisectInv
    <2> QED BY <1>1, <1>6, <1>7, <1>8, <2>2, <2>4, BisectGoesOn
  <1>9. CASE Bisect!Probe("pass") /\ Bisect!Continue([Bisect!Top EXCEPT !.do = "right"])
    <2>1. t.blamed = {}
      BY <1>7 DEF BisectGood
    <2>2. PICK f \in BisectFrame : /\ f = [t EXCEPT !.do = "right"]
                            /\ f.do = "right" /\ f.of = t.of /\ f.rest = t.rest
                            /\ f.blamed = {}
      <3> DEFINE g == [t EXCEPT !.do = "right"]
      <3>1. g \in BisectFrame /\ g.do = "right" /\ g.of = t.of /\ g.rest = t.rest
            /\ g.blamed = {}
        BY <2>1 DEF BisectFrame
      <3> QED BY <3>1
    <2>3. BisectGood(f)'
      BY <1>7, <2>2 DEF BisectGood
    <2>4. f \in BisectGoodFrame'
      BY <1>6, <2>2, <2>3, BisectGoodGrows DEF BisectGoodFrame, BisectInv
    <2> QED BY <1>1, <1>6, <1>7, <1>9, <2>2, <2>4, BisectGoesOn
  <1> QED BY <1>8, <1>9 DEF Bisect!ProbeLeft

LEMMA BisectStepProbeRight ==
  ASSUME Bisect!JobAssumption, BisectInv, Bisect!ProbeRight
  PROVE  BisectInv'
  <1>1. Bisect!In("right")
    BY DEF Bisect!ProbeRight
  <1>2. Bisect!Top \in BisectFrame /\ BisectGood(Bisect!Top) /\ Bisect!Top.do = "right"
        /\ Bisect!Top.of \in Bisect!Probes
        /\ pc = "probing" /\ Tail(calls) \in Seq(BisectGoodFrame)
    BY <1>1, BisectTopOK
  <1>3. Bisect!Subject = Bisect!Right(Bisect!Top.of)
    BY <1>2 DEF Bisect!Subject
  <1>4. Bisect!Subject \in Bisect!Probes /\ Bisect!Subject \subseteq Bisect!Top.of
    BY <1>2, <1>3, BisectHalves DEF BisectGood
  <1>5. PICK result \in {"pass", "fail"} : Bisect!Probe(result)
    BY DEF Bisect!ProbeRight
  <1>6. /\ BisectGrows /\ BisectCacheOK' /\ cache' \in [Bisect!Probes -> {"unknown", "pass", "fail"}]
        /\ UNCHANGED <<steady, broken, deploy, pc, train, outcome>>
        /\ result = "fail" /\ steady => Bisect!Fails(Bisect!Subject)
    BY <1>4, <1>5, BisectProbeTells
  <1>7. Tail(calls) \in Seq(BisectGoodFrame')
    BY <1>2, <1>6, BisectGoodGrows, BisectSeqMono DEF BisectInv
  <1> DEFINE left == IF Bisect!Top.blamed = {} THEN <<>> ELSE <<Bisect!Call("descend", Bisect!Top.blamed)>>
  <1>8. left \in Seq(BisectGoodFrame')
    <2>1. CASE Bisect!Top.blamed = {}
      BY <2>1
    <2>2. CASE Bisect!Top.blamed # {}
      <3>1. Bisect!Top.blamed \in Bisect!Probes /\ Bisect!Top.blamed \subseteq train
            /\ cache[Bisect!Top.blamed] = "fail"
        BY <1>2, <2>2 DEF BisectGood, BisectFrame, Bisect!Probes
      <3>2. cache'[Bisect!Top.blamed] = "fail"
        BY <1>6, <3>1 DEF BisectGrows
      <3>3. steady => Bisect!Fails(Bisect!Top.blamed)
        BY <3>1 DEF BisectInv, BisectCacheOK
      <3>4. Bisect!Call("descend", Bisect!Top.blamed) \in BisectGoodFrame'
        BY <1>6, <3>1, <3>2, <3>3, BisectNewCall
      <3> QED BY <2>2, <3>4
    <2> QED BY <2>1, <2>2
  <1>9. singles' = singles \cup {} /\ groups' = groups \cup {}
    BY DEF Bisect!ProbeRight
  <1>10. calls' \in Seq(BisectGoodFrame')
    <2>1. CASE Bisect!Probe("fail") /\ calls' = left \o <<Bisect!Call("descend", Bisect!Subject)>> \o Tail(calls)
      <3>1. cache'[Bisect!Subject] = "fail" /\ (steady => Bisect!Fails(Bisect!Subject))
        BY <1>4, <2>1, BisectProbeTells
      <3>2. Bisect!Call("descend", Bisect!Subject) \in BisectGoodFrame'
        BY <1>2, <1>4, <1>6, <3>1, BisectNewCall DEF BisectGood
      <3>3. left \o <<Bisect!Call("descend", Bisect!Subject)>> \in Seq(BisectGoodFrame')
        BY <1>8, <3>2, ConcatProperties
      <3> QED BY <1>7, <2>1, <3>3, ConcatProperties
    <2>2. CASE /\ Bisect!Probe("pass")
               /\ calls' = (IF left = <<>> THEN <<Bisect!Call("joint", Bisect!Top.of)>> ELSE left)
                              \o Tail(calls)
      <3>1. Bisect!Call("joint", Bisect!Top.of) \in BisectGoodFrame'
        BY <1>2, <1>6, BisectNewCall DEF BisectGood
      <3>2. (IF left = <<>> THEN <<Bisect!Call("joint", Bisect!Top.of)>> ELSE left) \in Seq(BisectGoodFrame')
        BY <1>8, <3>1
      <3> QED BY <1>7, <2>2, <3>2, ConcatProperties
    <2> QED BY <2>1, <2>2 DEF Bisect!ProbeRight
  <1> DEFINE S == {}
             G == {}
  <1>11. /\ S \in SUBSET train /\ \A j \in S : cache'[{j}] = "fail"
         /\ G \in SUBSET Bisect!Probes /\ singles' = singles \cup S /\ groups' = groups \cup G
         /\ \A X \in G : /\ X \subseteq train /\ Cardinality(X) > 1 /\ cache'[X] = "fail"
                          /\ \A j \in X : cache'[{j}] = "pass" /\ BisectNeeds(X, j)'
    BY <1>9
  <1> HIDE DEF S, G, left
  <1> QED BY <1>2, <1>6, <1>10, <1>11, BisectResumes

LEMMA BisectStepProbeJoint ==
  ASSUME Bisect!JobAssumption, BisectInv, Bisect!ProbeJoint
  PROVE  BisectInv'
  <1>1. Bisect!In("joint") /\ Bisect!Probe("fail")
        /\ Bisect!Continue(Bisect!Call("shrink", Bisect!Top.of))
    BY DEF Bisect!ProbeJoint
  <1>2. Bisect!Top \in BisectFrame /\ BisectGood(Bisect!Top) /\ Bisect!Top.do = "joint"
        /\ Bisect!Top.of \in Bisect!Probes
    BY <1>1, BisectTopOK
  <1>3. Bisect!Subject = Bisect!Top.of
    BY <1>2 DEF Bisect!Subject
  <1>4. /\ BisectGrows /\ BisectCacheOK' /\ cache'[Bisect!Top.of] = "fail"
        /\ cache' \in [Bisect!Probes -> {"unknown", "pass", "fail"}]
        /\ UNCHANGED <<steady, broken, deploy, pc, train, outcome>>
    BY <1>1, <1>2, <1>3, BisectProbeTells
  <1>5. Bisect!Call("shrink", Bisect!Top.of) \in BisectGoodFrame'
    BY <1>2, <1>4, BisectNewCall DEF BisectGood
  <1> QED BY <1>1, <1>4, <1>5, BisectGoesOn

LEMMA BisectStepShrink ==
  ASSUME Bisect!JobAssumption, BisectInv, Bisect!Shrink
  PROVE  BisectInv'
  <1>1. Bisect!In("shrink") /\ Bisect!Top.rest # {} /\ Cardinality(Bisect!Top.of) > 1
    BY BisectCardinality DEF Bisect!Shrink
  <1>2. Bisect!Top \in BisectFrame /\ BisectGood(Bisect!Top) /\ Bisect!Top.do = "shrink"
        /\ Bisect!Top.of \in Bisect!Probes
    BY <1>1, BisectTopOK
  <1> DEFINE j == Bisect!Least(Bisect!Top.rest)
  <1>3. j \in Bisect!Top.rest /\ j \in Bisect!Top.of /\ Bisect!Rest = Bisect!Top.rest \ {j}
    BY <1>1, <1>2, BisectNextJob DEF BisectGood, Bisect!Rest
  <1>4. Bisect!Subject = Bisect!Top.of \ {j}
    BY <1>2 DEF Bisect!Subject
  <1>5. Bisect!Subject \in Bisect!Probes
    BY <1>1, <1>2, <1>3, <1>4, BisectProbeSize
  <1>6. PICK result \in {"pass", "fail"} : Bisect!Probe(result)
    BY BisectCardinality DEF Bisect!Shrink
  <1>7. /\ BisectGrows /\ BisectCacheOK' /\ cache' \in [Bisect!Probes -> {"unknown", "pass", "fail"}]
        /\ UNCHANGED <<steady, broken, deploy, pc, train, outcome>>
    BY <1>5, <1>6, BisectProbeTells
  <1>8. PICK t \in BisectFrame : t = Bisect!Top /\ t.do = "shrink" /\ t.of \in Bisect!Probes
        /\ BisectGood(t)'
    BY <1>1, <1>7, BisectTopStays
  <1>9. PICK k : k = j
    OBVIOUS
  <1> HIDE DEF j
  <1>10. CASE /\ Bisect!Probe("fail")
              /\ Bisect!Continue([Bisect!Top EXCEPT !.of = Bisect!Subject, !.rest = Bisect!Rest])
    <2>1. cache'[Bisect!Subject] = "fail" /\ (steady => Bisect!Fails(Bisect!Subject))
      BY <1>5, <1>10, BisectProbeTells
    <2>2. PICK f \in BisectFrame : /\ f = [t EXCEPT !.of = Bisect!Subject, !.rest = Bisect!Rest]
                            /\ f.do = "shrink" /\ f.of = t.of \ {k} /\ f.rest = t.rest \ {k}
                            /\ f.blamed = t.blamed
      <3> DEFINE g == [t EXCEPT !.of = Bisect!Subject, !.rest = Bisect!Rest]
      <3>1. Bisect!Subject \in Bisect!Probes /\ Bisect!Rest \in SUBSET Job
        BY <1>3, <1>5, <1>8 DEF BisectFrame
      <3>2. /\ g \in BisectFrame /\ g.do = "shrink" /\ g.of = t.of \ {k}
            /\ g.rest = t.rest \ {k}
            /\ g.blamed = t.blamed
        BY <1>3, <1>4, <1>8, <1>9, <3>1 DEF BisectFrame
      <3> QED BY <3>2
    <2>3. f.of = Bisect!Subject
      BY <1>4, <1>8, <1>9, <2>2
    <2>4. steady' => Bisect!Fails(f.of)'
      BY <1>7, <2>1, <2>3 DEF Bisect!Fails
    <2>5. cache'[f.of] = "fail"
      BY <2>1, <2>3
    <2>6. \A i \in f.of \ f.rest : BisectNeeds(f.of, i)'
      <3>1. ASSUME NEW i \in f.of \ f.rest PROVE BisectNeeds(f.of, i)'
        <4>1. BisectNeeds(t.of, i)'
          BY <1>8, <2>2 DEF BisectGood
        <4>2. f.of \subseteq t.of
          BY <2>2
        <4> QED BY <4>1, <4>2 DEF BisectNeeds
      <3> QED BY <3>1
    <2>7. BisectGood(f)'
      BY <1>8, <2>2, <2>4, <2>5, <2>6 DEF BisectGood
    <2>8. f \in BisectGoodFrame'
      BY <1>7, <2>2, <2>7, BisectGoodGrows DEF BisectGoodFrame, BisectInv
    <2> QED BY <1>1, <1>7, <1>8, <1>10, <2>2, <2>8, BisectGoesOn
  <1>11. CASE Bisect!Probe("pass") /\ Bisect!Continue([Bisect!Top EXCEPT !.rest = Bisect!Rest])
    <2>1. cache'[Bisect!Subject] = "pass"
      BY <1>5, <1>11, BisectProbeTells
    <2>2. PICK f \in BisectFrame : /\ f = [t EXCEPT !.rest = Bisect!Rest]
                            /\ f.do = "shrink" /\ f.of = t.of /\ f.rest = t.rest \ {k}
                            /\ f.blamed = t.blamed
      <3> DEFINE g == [t EXCEPT !.rest = Bisect!Rest]
      <3>1. Bisect!Rest \in SUBSET Job
        BY <1>3, <1>8 DEF BisectFrame
      <3>2. /\ g \in BisectFrame /\ g.do = "shrink" /\ g.of = t.of /\ g.rest = t.rest \ {k}
            /\ g.blamed = t.blamed
        BY <1>3, <1>8, <1>9, <3>1 DEF BisectFrame
      <3> QED BY <3>2
    <2>3. BisectNeeds(f.of, k)'
      BY <1>4, <1>5, <1>7, <1>8, <1>9, <2>1, <2>2 DEF BisectNeeds, Bisect!Probes
    <2>4. \A i \in f.of \ f.rest : BisectNeeds(f.of, i)'
      <3>1. ASSUME NEW i \in f.of \ f.rest, i # k PROVE BisectNeeds(f.of, i)'
        BY <1>8, <2>2, <3>1 DEF BisectGood
      <3> QED BY <2>3, <3>1
    <2>5. BisectGood(f)'
      BY <1>8, <2>2, <2>4 DEF BisectGood
    <2>6. f \in BisectGoodFrame'
      BY <1>7, <2>2, <2>5, BisectGoodGrows DEF BisectGoodFrame, BisectInv
    <2> QED BY <1>1, <1>7, <1>8, <1>11, <2>2, <2>6, BisectGoesOn
  <1> QED BY <1>10, <1>11, BisectCardinality DEF Bisect!Shrink

LEMMA BisectStepShrunk ==
  ASSUME Bisect!JobAssumption, BisectInv, Bisect!Shrunk
  PROVE  BisectInv'
  <1>1. Bisect!In("shrink") /\ Bisect!NoProbe
    BY BisectCardinality DEF Bisect!Shrunk
  <1>2. /\ BisectGrows /\ BisectCacheOK' /\ cache' \in [Bisect!Probes -> {"unknown", "pass", "fail"}]
        /\ UNCHANGED <<steady, broken, deploy, pc, train, outcome, cache>>
    BY <1>1, BisectTellsNothing
  <1>3. PICK t \in BisectFrame : t = Bisect!Top /\ t.do = "shrink" /\ t.of \in Bisect!Probes
        /\ BisectGood(t) /\ BisectGood(t)'
    BY <1>1, <1>2, BisectTopStays
  <1>4. CASE Cardinality(Bisect!Top.of) = 1 /\ Bisect!Blame(Bisect!Top.of)
    <2>1. PICK j \in t.of : t.of = {j}
      BY <1>3, <1>4, BisectProbeSize
    <2>2. cache'[t.of] = "fail" /\ t.of \in SUBSET train
      BY <1>2, <1>3 DEF BisectGood
    <2>3. \A i \in t.of : cache'[{i}] = "fail"
      BY <2>1, <2>2
    <2> QED BY <1>1, <1>2, <1>3, <1>4, <2>2, <2>3, BisectEndsBlaming
  <1>5. CASE Cardinality(Bisect!Top.of) > 1 /\ Bisect!Top.rest = {}
        /\ Bisect!Continue(Bisect!Call("members", Bisect!Top.of))
    <2>1. \A j \in t.of : BisectNeeds(t.of, j)'
      BY <1>3, <1>5 DEF BisectGood
    <2>2. Cardinality(t.of) # 1 /\ cache'[t.of] = "fail" /\ t.of \subseteq train
          /\ (steady => Bisect!Fails(t.of))
      BY <1>2, <1>3, <1>5 DEF BisectGood
    <2>3. Bisect!Call("members", t.of) \in BisectGoodFrame'
      BY <1>2, <1>3, <2>1, <2>2, BisectNewCall
    <2> QED BY <1>1, <1>2, <1>3, <1>5, <2>3, BisectGoesOn
  <1> QED BY <1>4, <1>5, BisectCardinality DEF Bisect!Shrunk

LEMMA BisectStepProbeMember ==
  ASSUME Bisect!JobAssumption, BisectInv, Bisect!ProbeMember
  PROVE  BisectInv'
  <1>1. Bisect!In("members") /\ Bisect!Top.rest # {}
    BY DEF Bisect!ProbeMember
  <1>2. Bisect!Top \in BisectFrame /\ BisectGood(Bisect!Top) /\ Bisect!Top.do = "members"
        /\ Bisect!Top.of \in Bisect!Probes
    BY <1>1, BisectTopOK
  <1> DEFINE j == Bisect!Least(Bisect!Top.rest)
  <1>3. j \in Bisect!Top.rest /\ j \in Bisect!Top.of /\ Bisect!Rest = Bisect!Top.rest \ {j}
        /\ {j} \in Bisect!Probes
        /\ j \in Job
    BY <1>1, <1>2, BisectNextJob DEF BisectGood, Bisect!Rest
  <1>4. Bisect!Subject = {j}
    BY <1>2 DEF Bisect!Subject
  <1>5. PICK result \in {"pass", "fail"} : Bisect!Probe(result)
    BY DEF Bisect!ProbeMember
  <1>6. /\ BisectGrows /\ BisectCacheOK' /\ cache' \in [Bisect!Probes -> {"unknown", "pass", "fail"}]
        /\ UNCHANGED <<steady, broken, deploy, pc, train, outcome>>
    BY <1>3, <1>4, <1>5, BisectProbeTells
  <1>7. PICK t \in BisectFrame : t = Bisect!Top /\ t.do = "members" /\ t.of \in Bisect!Probes
        /\ BisectGood(t)'
    BY <1>1, <1>6, BisectTopStays
  <1>8. PICK k : k = j
    OBVIOUS
  <1> HIDE DEF j
  <1>9. CASE /\ Bisect!Probe("fail")
             /\ Bisect!Continue([Bisect!Top EXCEPT !.rest = Bisect!Rest,
                                                   !.blamed = @ \union Bisect!Subject])
    <2>1. cache'[{k}] = "fail"
      BY <1>3, <1>4, <1>8, <1>9, BisectProbeTells
    <2>2. PICK f \in BisectFrame : /\ f = [t EXCEPT !.rest = Bisect!Rest, !.blamed = @ \union Bisect!Subject]
                            /\ f.do = "members" /\ f.of = t.of /\ f.rest = t.rest \ {k}
                            /\ f.blamed = t.blamed \cup {k}
      <3> DEFINE g == [t EXCEPT !.rest = Bisect!Rest, !.blamed = @ \union Bisect!Subject]
      <3>1. Bisect!Rest \in SUBSET Job /\ t.blamed \cup {k} \in SUBSET Job
        BY <1>3, <1>7, <1>8 DEF BisectFrame
      <3>2. g = [t EXCEPT !.rest = t.rest \ {k}, !.blamed = t.blamed \cup {k}]
        BY <1>3, <1>4, <1>7, <1>8
      <3>3. /\ g \in BisectFrame /\ g.do = "members" /\ g.of = t.of /\ g.rest = t.rest \ {k}
            /\ g.blamed = t.blamed \cup {k}
        BY <1>3, <1>7, <1>8, <3>1, <3>2 DEF BisectFrame
      <3> QED BY <3>3
    <2>3. k \in t.rest /\ k \in t.of
      BY <1>3, <1>7, <1>8
    <2>4. BisectGood(f)'
      BY <1>7, <2>1, <2>2, <2>3 DEF BisectGood
    <2>5. f \in BisectGoodFrame'
      BY <1>6, <2>2, <2>4, BisectGoodGrows DEF BisectGoodFrame, BisectInv
    <2> QED BY <1>1, <1>6, <1>7, <1>9, <2>2, <2>5, BisectGoesOn
  <1>10. CASE Bisect!Probe("pass") /\ Bisect!Continue([Bisect!Top EXCEPT !.rest = Bisect!Rest])
    <2>1. cache'[{k}] = "pass"
      BY <1>3, <1>4, <1>8, <1>10, BisectProbeTells
    <2>2. PICK f \in BisectFrame : /\ f = [t EXCEPT !.rest = Bisect!Rest]
                            /\ f.do = "members" /\ f.of = t.of /\ f.rest = t.rest \ {k}
                            /\ f.blamed = t.blamed
      <3> DEFINE g == [t EXCEPT !.rest = Bisect!Rest]
      <3>1. Bisect!Rest \in SUBSET Job
        BY <1>3, <1>7 DEF BisectFrame
      <3>2. /\ g \in BisectFrame /\ g.do = "members" /\ g.of = t.of /\ g.rest = t.rest \ {k}
            /\ g.blamed = t.blamed
        BY <1>3, <1>7, <1>8, <3>1 DEF BisectFrame
      <3> QED BY <3>2
    <2>3. BisectGood(f)'
      BY <1>7, <2>1, <2>2 DEF BisectGood
    <2>4. f \in BisectGoodFrame'
      BY <1>6, <2>2, <2>3, BisectGoodGrows DEF BisectGoodFrame, BisectInv
    <2> QED BY <1>1, <1>6, <1>7, <1>10, <2>2, <2>4, BisectGoesOn
  <1> QED BY <1>9, <1>10 DEF Bisect!ProbeMember

LEMMA BisectStepClassify ==
  ASSUME Bisect!JobAssumption, BisectInv, Bisect!Classify
  PROVE  BisectInv'
  <1>1. Bisect!In("members") /\ Bisect!Top.rest = {} /\ Bisect!NoProbe
    BY DEF Bisect!Classify
  <1>2. /\ BisectGrows /\ BisectCacheOK' /\ cache' \in [Bisect!Probes -> {"unknown", "pass", "fail"}]
        /\ UNCHANGED <<steady, broken, deploy, pc, train, outcome, cache>>
    BY <1>1, BisectTellsNothing
  <1>3. PICK t \in BisectFrame : t = Bisect!Top /\ t.do = "members" /\ t.of \in Bisect!Probes
        /\ BisectGood(t) /\ BisectGood(t)'
    BY <1>1, <1>2, BisectTopStays
  <1>4. CASE Bisect!Top.blamed # {}
    <2>1. Bisect!Blame(t.blamed)
      BY <1>3, <1>4 DEF Bisect!Classify
    <2>2. t.blamed \in SUBSET train /\ \A j \in t.blamed : cache'[{j}] = "fail"
      BY <1>3, <1>2 DEF BisectGood
    <2> QED BY <1>1, <1>2, <2>1, <2>2, BisectEndsBlaming
  <1>5. CASE Bisect!Top.blamed = {}
    <2> DEFINE S == {}
               G == {t.of}
    <2>1. groups' = groups \cup G /\ calls' = Tail(calls) /\ singles' = singles \cup S
      BY <1>3, <1>5 DEF Bisect!Classify
    <2>2. pc = "probing" /\ Tail(calls) \in Seq(BisectGoodFrame)
      BY <1>1, BisectTopOK
    <2>3. calls' \in Seq(BisectGoodFrame')
      BY <1>2, <2>1, <2>2, BisectGoodGrows, BisectSeqMono DEF BisectInv
    <2>4. S \in SUBSET train /\ (\A j \in S : cache'[{j}] = "fail")
          /\ G \in SUBSET Bisect!Probes
      BY <1>3
    <2>5. /\ t.of \subseteq train /\ Cardinality(t.of) > 1 /\ cache'[t.of] = "fail"
          /\ \A j \in t.of : cache'[{j}] = "pass" /\ BisectNeeds(t.of, j)'
      BY <1>1, <1>3, <1>5, BisectProbeSize DEF BisectGood
    <2>6. \A X \in G : /\ X \subseteq train /\ Cardinality(X) > 1 /\ cache'[X] = "fail"
                       /\ \A j \in X : cache'[{j}] = "pass" /\ BisectNeeds(X, j)'
      BY <2>5
    <2> HIDE DEF S, G
    <2> QED BY <1>2, <2>1, <2>2, <2>3, <2>4, <2>6, BisectResumes
  <1> QED BY <1>4, <1>5

-----------------------------------------------------------------------------
(* Verdicts on the jobs of a train change no other job's.                  *)
LEMMA BisectStepGatesPass ==
  ASSUME Bisect!JobAssumption, BisectInv, Bisect!GatesPass
  PROVE  BisectInv'
  <1>0. /\ pc = "gating" /\ "pass" \in Bisect!Results(train) /\ pc' = "done"
        /\ outcome' = [j \in Job |-> IF j \in train THEN "passed" ELSE outcome[j]]
        /\ UNCHANGED <<steady, broken, deploy, train, calls, cache, singles, groups>>
    BY DEF Bisect!GatesPass, Bisect!End
  <1>1. BisectTypes'
    BY <1>0 DEF BisectInv, BisectTypes, Bisect!Probes
  <1>2. BisectCallsOK' /\ BisectCacheOK'
    BY <1>0 DEF BisectInv, BisectCallsOK, BisectCacheOK, Bisect!Fails, Bisect!Probes
  <1>3. BisectBlameOK'
    BY <1>0, BisectCardinality
       DEF BisectInv, BisectBlameOK, Bisect!FailsAlone, Bisect!ConflictIsReal, Bisect!Probes
  <1>4. BisectOutcomeOK'
    <2> SUFFICES ASSUME steady PROVE BisectOutcomeOK'
      BY <1>0 DEF BisectOutcomeOK
    <2>1. ~Bisect!Fails(train)
      BY <1>0 DEF Bisect!Results
    <2>2. Bisect!Verdict("passed")' = train
      BY <1>0 DEF BisectInv, BisectOutcomeOK, Bisect!Verdict, BisectTypes
    <2>3. /\ Bisect!Verdict("failed")' = Bisect!Verdict("failed")
          /\ Bisect!Verdict("blocked")' = Bisect!Verdict("blocked")
          /\ Bisect!Verdict("queued")' = Bisect!Verdict("queued")
      BY <1>0 DEF BisectInv, BisectOutcomeOK, Bisect!Verdict, BisectTypes
    <2>4. ~Bisect!Fails(Bisect!Verdict("passed"))'
      BY <1>0, <2>1, <2>2 DEF Bisect!Fails
    <2> QED BY <1>0, <2>3, <2>4 DEF BisectInv, BisectOutcomeOK
  <1> QED BY <1>1, <1>2, <1>3, <1>4 DEF BisectInv

LEMMA BisectStepOnlyJobFails ==
  ASSUME Bisect!JobAssumption, BisectInv, Bisect!OnlyJobFails
  PROVE  BisectInv'
  <1>0. /\ pc = "gating" /\ "fail" \in Bisect!Results(train) /\ pc' = "done"
        /\ Cardinality(train) = 1
        /\ outcome' = [j \in Job |-> IF j \in train THEN "failed" ELSE outcome[j]]
        /\ UNCHANGED <<steady, broken, deploy, train, calls, cache, singles, groups>>
    BY BisectCardinality DEF Bisect!OnlyJobFails, Bisect!End
  <1>1. BisectTypes'
    BY <1>0 DEF BisectInv, BisectTypes, Bisect!Probes
  <1>2. BisectCallsOK' /\ BisectCacheOK'
    BY <1>0 DEF BisectInv, BisectCallsOK, BisectCacheOK, Bisect!Fails, Bisect!Probes
  <1>3. BisectBlameOK'
    BY <1>0, BisectCardinality
       DEF BisectInv, BisectBlameOK, Bisect!FailsAlone, Bisect!ConflictIsReal, Bisect!Probes
  <1>4. BisectOutcomeOK'
    <2> SUFFICES ASSUME steady PROVE BisectOutcomeOK'
      BY <1>0 DEF BisectOutcomeOK
    <2>1. train \in Bisect!Probes
      BY <1>0 DEF BisectInv, BisectTypes, Bisect!Probes
    <2>2. PICK j \in train : train = {j}
      BY <1>0, <2>1, BisectProbeSize
    <2>3. {j} \in broken
      <3>1. PICK B \in broken : B \subseteq train
        BY <1>0 DEF Bisect!Results, Bisect!Fails
      <3>2. B # {}
        BY <3>1 DEF BisectInv, BisectTypes, Bisect!Probes
      <3> QED BY <2>2, <3>1, <3>2
    <2>4. Bisect!Verdict("failed")' = Bisect!Verdict("failed") \cup {j}
      BY <1>0, <2>2 DEF BisectInv, BisectOutcomeOK, Bisect!Verdict, BisectTypes
    <2>5. /\ Bisect!Verdict("passed")' = Bisect!Verdict("passed")
          /\ Bisect!Verdict("blocked")' = Bisect!Verdict("blocked")
          /\ Bisect!Verdict("queued")' = Bisect!Verdict("queued")
      BY <1>0 DEF BisectInv, BisectOutcomeOK, Bisect!Verdict, BisectTypes
    <2>6. ~Bisect!Fails(Bisect!Verdict("passed"))'
      BY <1>0, <2>5 DEF BisectInv, BisectOutcomeOK, Bisect!Fails
    <2>7. \A i \in Bisect!Verdict("failed")' : {i} \in broken'
      BY <1>0, <2>3, <2>4 DEF BisectInv, BisectOutcomeOK
    <2>8. \A i \in Bisect!Verdict("blocked")' :
            \E B \in broken' : i \in B /\ Cardinality(B) > 1
                /\ B \subseteq Bisect!Verdict("blocked")'
      BY <1>0, <2>5 DEF BisectInv, BisectOutcomeOK
    <2>9. Bisect!Verdict("queued")' = {}
      BY <1>0, <2>5 DEF BisectInv, BisectOutcomeOK
    <2> QED BY <1>0, <2>6, <2>7, <2>8, <2>9 DEF BisectOutcomeOK
  <1> QED BY <1>1, <1>2, <1>3, <1>4 DEF BisectInv

LEMMA BisectStepGatesFail ==
  ASSUME Bisect!JobAssumption, BisectInv, Bisect!GatesFail
  PROVE  BisectInv'
  <1>0. /\ pc = "gating" /\ "fail" \in Bisect!Results(train) /\ pc' = "probing"
        /\ Cardinality(train) > 1 /\ calls' = <<Bisect!Call("descend", train)>>
        /\ cache' = Bisect!Unprobed /\ singles' = {} /\ groups' = {}
        /\ UNCHANGED <<steady, broken, deploy, train, outcome>>
    BY BisectCardinality DEF Bisect!GatesFail
  <1>1. BisectTypes'
    BY <1>0 DEF BisectInv, BisectTypes, Bisect!Probes, Bisect!Unprobed
  <1>2. BisectCallsOK'
    <2>1. train \in Bisect!Probes /\ Cardinality(train) # 1
      BY <1>0 DEF BisectInv, BisectTypes, Bisect!Probes
    <2>2. steady => Bisect!Fails(train)
      BY <1>0 DEF Bisect!Results
    <2>3. Bisect!Call("descend", train) \in BisectGoodFrame'
      BY <1>0, <2>1, <2>2, BisectNewCall
    <2> QED BY <1>0, <2>3 DEF BisectCallsOK
  <1>3. BisectCacheOK' /\ BisectBlameOK'
    BY <1>0, BisectCardinality
       DEF BisectCacheOK, BisectBlameOK, Bisect!FailsAlone, Bisect!ConflictIsReal,
           Bisect!Unprobed, Bisect!Probes
  <1>4. BisectOutcomeOK'
    BY <1>0 DEF BisectInv, BisectOutcomeOK, Bisect!Verdict, Bisect!Fails
  <1> QED BY <1>1, <1>2, <1>3, <1>4 DEF BisectInv

(* With steady gates a joint failure always shows again.                   *)
LEMMA BisectStepAbort ==
  ASSUME Bisect!JobAssumption, BisectInv, Bisect!Abort
  PROVE  BisectInv'
  <1>0. /\ pc' = "isolating" /\ calls' = <<>> /\ cache' = Bisect!Unprobed
        /\ singles' = {} /\ groups' = {} /\ pc = "probing"
        /\ UNCHANGED <<steady, broken, deploy, train, outcome>>
    BY DEF Bisect!Abort, Bisect!In
  <1>1. ~steady
    <2>1. CASE Bisect!In("joint") /\ "pass" \in Bisect!Possible
      <3>1. Bisect!Top \in BisectFrame /\ BisectGood(Bisect!Top) /\ Bisect!Top.do = "joint"
            /\ Bisect!Top.of \in Bisect!Probes
        BY <2>1, BisectTopOK
      <3>2. Bisect!Subject = Bisect!Top.of
        BY <3>1 DEF Bisect!Subject
      <3> QED BY <2>1, <3>1, <3>2
                 DEF Bisect!Possible, Bisect!Results, BisectGood, BisectInv, BisectCacheOK
    <2> QED BY <2>1 DEF Bisect!Abort
  <1>2. BisectTypes'
    BY <1>0 DEF BisectInv, BisectTypes, Bisect!Probes, Bisect!Unprobed
  <1>3. BisectCallsOK' /\ BisectCacheOK' /\ BisectBlameOK'
    BY <1>0, <1>1, BisectCardinality
       DEF BisectCallsOK, BisectCacheOK, BisectBlameOK, Bisect!FailsAlone,
           Bisect!ConflictIsReal, Bisect!Unprobed, Bisect!Probes
  <1>4. BisectOutcomeOK'
    BY <1>0, <1>1 DEF BisectInv, BisectOutcomeOK
  <1> QED BY <1>2, <1>3, <1>4 DEF BisectInv

LEMMA BisectStepRemove ==
  ASSUME Bisect!JobAssumption, BisectInv, Bisect!Remove
  PROVE  BisectInv'
  <1> DEFINE blocked == UNION groups
             goods == train \ (singles \union blocked)
  <1>0. /\ pc = "probing" /\ calls = <<>>
        /\ outcome' = [j \in Job |-> IF j \in singles THEN "failed"
                                     ELSE IF j \in blocked THEN "blocked"
                                     ELSE outcome[j]]
        /\ train' = goods /\ pc' = (IF goods = {} THEN "done" ELSE "gating")
        /\ UNCHANGED <<steady, broken, deploy, calls, cache, singles, groups>>
    BY DEF Bisect!Remove
  <1>1. BisectTypes'
    BY <1>0 DEF BisectInv, BisectTypes, Bisect!Probes
  <1>2. BisectCallsOK' /\ BisectCacheOK'
    <2>1. BisectCacheOK'
      BY <1>0 DEF BisectInv, BisectCacheOK, Bisect!Fails, Bisect!Probes
    <2>2. calls' \in Seq(BisectGoodFrame') /\ calls' = <<>>
      BY <1>0
    <2> QED BY <2>1, <2>2 DEF BisectCallsOK
  <1>3. BisectBlameOK'
    BY <1>0, BisectCardinality
       DEF BisectInv, BisectBlameOK, Bisect!FailsAlone, Bisect!ConflictIsReal, Bisect!Probes
  <1>4. singles \subseteq train /\ blocked \subseteq train /\ train \subseteq Job
    BY <1>0 DEF BisectInv, BisectBlameOK, BisectTypes
  <1>5. singles \cap blocked = {}
    <2> SUFFICES ASSUME NEW G \in groups, NEW j \in G, j \in singles PROVE FALSE
      OBVIOUS
    <2>1. cache[{j}] = "fail" /\ cache[{j}] = "pass"
      BY BisectCardinality
         DEF BisectInv, BisectBlameOK, Bisect!FailsAlone, Bisect!ConflictIsReal
    <2> QED BY <2>1
  <1>6. \A j \in train : outcome[j] = "none"
    BY <1>0 DEF BisectInv, BisectOutcomeOK
  <1>7. /\ Bisect!Verdict("failed")' = Bisect!Verdict("failed") \cup singles
        /\ Bisect!Verdict("blocked")' = Bisect!Verdict("blocked") \cup blocked
        /\ Bisect!Verdict("passed")' = Bisect!Verdict("passed")
        /\ Bisect!Verdict("queued")' = Bisect!Verdict("queued")
    <2> HIDE DEF blocked
    <2> QED BY <1>0, <1>4, <1>5, <1>6 DEF Bisect!Verdict
  <1>8. BisectOutcomeOK'
    <2>1. pc' # "done" => \A j \in train' : outcome'[j] = "none"
      BY <1>0, <1>4, <1>6
    <2> SUFFICES ASSUME steady PROVE BisectOutcomeOK'
      BY <1>0, <2>1 DEF BisectOutcomeOK
    <2>2. \A j \in singles : {j} \in broken
      <3> SUFFICES ASSUME NEW j \in singles PROVE {j} \in broken
        OBVIOUS
      <3>1. cache[{j}] = "fail" /\ {j} \in Bisect!Probes
        BY <1>4 DEF BisectInv, BisectBlameOK, Bisect!FailsAlone, Bisect!Probes
      <3>2. PICK B \in broken : B \subseteq {j}
        BY <3>1 DEF BisectInv, BisectCacheOK, Bisect!Fails
      <3>3. B = {j}
        BY <3>2 DEF BisectInv, BisectTypes, Bisect!Probes
      <3> QED BY <3>3
    <2>3. \A G \in groups : G \in broken /\ Cardinality(G) > 1
      <3> SUFFICES ASSUME NEW G \in groups PROVE G \in broken /\ Cardinality(G) > 1
        OBVIOUS
      <3>1. G \in Bisect!Probes /\ cache[G] = "fail" /\ Cardinality(G) > 1
        BY BisectCardinality DEF BisectInv, BisectTypes, BisectBlameOK, Bisect!ConflictIsReal
      <3>2. PICK B \in broken : B \subseteq G
        BY <3>1 DEF BisectInv, BisectCacheOK, Bisect!Fails
      <3>3. ASSUME NEW j \in G PROVE j \in B
        <4>1. PICK T \in Bisect!Probes : cache[T] = "pass" /\ G \ {j} \subseteq T
          BY BisectCardinality DEF BisectInv, BisectBlameOK, Bisect!ConflictIsReal
        <4>2. ~(B \subseteq T)
          BY <4>1 DEF BisectInv, BisectCacheOK, Bisect!Fails
        <4> QED BY <3>2, <4>1, <4>2
      <3>4. B = G
        BY <3>2, <3>3
      <3> QED BY <3>1, <3>4
    <2>4. \A j \in Bisect!Verdict("blocked")' : \E B \in broken :
            j \in B /\ Cardinality(B) > 1 /\ B \subseteq Bisect!Verdict("blocked")'
      <3>1. ASSUME NEW j \in Bisect!Verdict("blocked")
            PROVE  \E B \in broken :
                     j \in B /\ Cardinality(B) > 1 /\ B \subseteq Bisect!Verdict("blocked")'
        <4>1. PICK B \in broken :
                j \in B /\ Cardinality(B) > 1 /\ B \subseteq Bisect!Verdict("blocked")
          BY DEF BisectInv, BisectOutcomeOK
        <4> QED BY <1>7, <4>1
      <3>2. ASSUME NEW j \in blocked
            PROVE  \E B \in broken :
                     j \in B /\ Cardinality(B) > 1 /\ B \subseteq Bisect!Verdict("blocked")'
        <4>1. PICK G \in groups : j \in G
          OBVIOUS
        <4> QED BY <1>7, <2>3, <4>1
      <3> HIDE DEF blocked
      <3> QED BY <1>7, <3>1, <3>2
    <2>5. \A j \in Bisect!Verdict("failed")' : {j} \in broken
      BY <1>7, <2>2 DEF BisectInv, BisectOutcomeOK
    <2>6. ~Bisect!Fails(Bisect!Verdict("passed"))' /\ Bisect!Verdict("passed")' = {}
          /\ Bisect!Verdict("queued")' = {}
      BY <1>0, <1>7 DEF BisectInv, BisectOutcomeOK, Bisect!Fails
    <2> QED BY <1>0, <2>1, <2>4, <2>5, <2>6 DEF BisectOutcomeOK
  <1> QED BY <1>1, <1>2, <1>3, <1>8 DEF BisectInv

LEMMA BisectStepIsolatedJob ==
  ASSUME Bisect!JobAssumption, BisectInv, Bisect!IsolatedJob
  PROVE  BisectInv'
  <1> DEFINE j == Bisect!Least(train)
             rest == train \ {j}
  <1>0. /\ pc = "isolating" /\ train # {} /\ train' \in {rest, {}}
        /\ pc' = (IF train' = {} THEN "done" ELSE pc)
        /\ UNCHANGED <<steady, broken, deploy, calls, cache, singles, groups>>
    BY DEF Bisect!IsolatedJob
  <1>1. ~steady
    BY <1>0 DEF BisectInv, BisectOutcomeOK
  <1>2. /\ outcome' \in [Job -> {"none", "passed", "failed", "blocked", "queued"}]
        /\ \A i \in train' : outcome'[i] = "none"
    <2>1. outcome \in [Job -> {"none", "passed", "failed", "blocked", "queued"}]
          /\ \A i \in train : outcome[i] = "none" /\ i \in Job
      BY <1>0 DEF BisectInv, BisectTypes, BisectOutcomeOK
    <2> HIDE DEF j
    <2>2. CASE outcome' = [i \in Job |-> IF i \in {j} THEN "failed" ELSE outcome[i]]
               /\ train' = rest
      BY <2>1, <2>2
    <2>3. CASE outcome' = [outcome EXCEPT ![j] = "passed"] /\ train' = rest
      BY <2>1, <2>3
    <2>4. CASE outcome' = [i \in Job |-> IF i = j THEN "passed"
                                         ELSE IF i \in rest THEN "queued" ELSE outcome[i]]
               /\ train' = {}
      BY <2>1, <2>4
    <2> QED BY <2>2, <2>3, <2>4 DEF Bisect!IsolatedJob, Bisect!End, j
  <1>3. BisectTypes'
    BY <1>0, <1>2 DEF BisectInv, BisectTypes, Bisect!Probes
  <1>4. BisectCallsOK' /\ BisectCacheOK' /\ BisectBlameOK'
    <2>1. calls' = <<>> /\ calls' \in Seq(BisectGoodFrame')
      BY <1>0 DEF BisectInv, BisectCallsOK
    <2>2. BisectBlameOK'
      BY <1>0, BisectCardinality
         DEF BisectInv, BisectBlameOK, Bisect!FailsAlone, Bisect!ConflictIsReal, Bisect!Probes
    <2> QED BY <1>0, <1>1, <2>1, <2>2 DEF BisectCallsOK, BisectCacheOK
  <1>5. BisectOutcomeOK'
    BY <1>0, <1>1, <1>2 DEF BisectOutcomeOK
  <1> QED BY <1>3, <1>4, <1>5 DEF BisectInv

LEMMA BisectInitInv == Bisect!JobAssumption /\ Bisect!Init => BisectInv
  <1> SUFFICES ASSUME Bisect!JobAssumption, Bisect!Init PROVE BisectInv
    OBVIOUS
  <1>1. BisectTypes
    BY BisectCardinality
       DEF Bisect!Init, BisectTypes, Bisect!Unprobed, Bisect!Probes, Bisect!JobAssumption
  <1>2. BisectCallsOK /\ BisectCacheOK /\ BisectBlameOK
    BY BisectCardinality
       DEF Bisect!Init, BisectCallsOK, BisectCacheOK, BisectBlameOK, Bisect!FailsAlone,
           Bisect!ConflictIsReal, Bisect!Unprobed
  <1>3. \A as : Bisect!Verdict(as) = {j \in Job : as = "none"}
    BY DEF Bisect!Init, Bisect!Verdict
  <1>4. ~Bisect!Fails({})
    BY <1>1, BisectNoneFails
  <1>5. BisectOutcomeOK
    BY <1>3, <1>4 DEF Bisect!Init, BisectOutcomeOK
  <1> QED BY <1>1, <1>2, <1>5 DEF BisectInv

LEMMA BisectNextInv == Bisect!JobAssumption /\ BisectInv /\ [Bisect!Next]_Bisect!vars
    => BisectInv'
  <1> SUFFICES ASSUME Bisect!JobAssumption, BisectInv,
                      [Bisect!Next]_Bisect!vars PROVE BisectInv'
    OBVIOUS
  <1>1. CASE UNCHANGED Bisect!vars
    <2> USE <1>1 DEF Bisect!vars, BisectInv, Bisect!Verdict, Bisect!Fails, Bisect!Probes
    <2>1. BisectTypes' /\ BisectCacheOK' /\ BisectBlameOK' /\ BisectOutcomeOK'
      <3>1. BisectTypes'
        BY DEF BisectTypes
      <3>2. BisectCacheOK'
        BY DEF BisectCacheOK
      <3>3. BisectBlameOK'
        BY BisectCardinality DEF BisectBlameOK, Bisect!FailsAlone, Bisect!ConflictIsReal
      <3>4. BisectOutcomeOK'
        BY DEF BisectOutcomeOK
      <3> QED BY <3>1, <3>2, <3>3, <3>4
    <2>2. BisectGrows
      BY <1>1 DEF Bisect!vars, BisectGrows
    <2>3. BisectCallsOK'
      BY <1>1, <2>2, BisectGoodGrows, BisectSeqMono DEF Bisect!vars, BisectInv, BisectCallsOK
    <2> QED BY <2>1, <2>3 DEF BisectInv
  <1>2. CASE Bisect!Next
    BY <1>2, BisectStepGatesPass, BisectStepOnlyJobFails, BisectStepGatesFail,
       BisectStepDescend, BisectStepProbeSolo,
       BisectStepAllPassAlone, BisectStepProbeLeft, BisectStepProbeRight, BisectStepProbeJoint, BisectStepShrink, BisectStepShrunk,
       BisectStepProbeMember, BisectStepClassify, BisectStepAbort, BisectStepRemove, BisectStepIsolatedJob DEF Bisect!Next
  <1> QED BY <1>1, <1>2

LEMMA BisectInvBlame ==
  ASSUME BisectInv
  PROVE  Bisect!FailsAlone /\ Bisect!ConflictIsReal /\ Bisect!ExactWhenSteady
  BY BisectCardinality DEF BisectInv, BisectBlameOK, BisectOutcomeOK, Bisect!ExactWhenSteady

-----------------------------------------------------------------------------
(***************************************************************************)
(* A gate, and the CLI that runs it.                                       *)
(***************************************************************************)
GateTypes ==
  /\ alive \subseteq born /\ born \subseteq Member /\ Leader \in born
  /\ signaled \in [Member -> {"none", "term", "kill"}]
  /\ \A m \in Foreign : signaled[m] = "none"
  /\ cli \in {"poll", "stop", "term", "kill", "stopped", "done", "exited", "killed"}
  /\ why \in {"none", "timeout", "cancel", "error"}
  /\ verdict \in {"none", "own", "timeout", "cancel", "error"}
  /\ server \in {"none", "waiting", "stopping", "answered", "exiting", "gone"}
  /\ running \in BOOLEAN /\ int \in BOOLEAN /\ interrupted \in BOOLEAN /\ ownExit \in BOOLEAN
  /\ timer \in Nat /\ patience \in Nat

(* A leader that was signaled did not end by itself; the loop polls only a *)
(* leader that was not; a stop knows whether it met the leader alive.      *)
GateStopOK ==
  /\ ownExit <=> Leader \notin alive /\ signaled[Leader] = "none"
  /\ cli = "poll" \/ (cli = "stop" /\ why # "error") => signaled[Leader] = "none"
  /\ cli \in {"term", "kill", "stopped"} /\ why # "error" =>
       IF running THEN signaled[Leader] # "none" ELSE ownExit

GateVerdictOK ==
  /\ verdict # "none" => cli \in {"done", "exited", "killed"}
  /\ verdict = "own" => ownExit
  /\ verdict \in {"timeout", "cancel"} => ~ownExit /\ Leader \notin alive

(* Who got a SIGKILL forks no more, and is gone once the grace is over.    *)
GateKillOK ==
  /\ cli = "kill" => \A m \in alive \ Foreign : signaled[m] = "kill"
  /\ cli = "stopped" \/ (cli = "kill" /\ timer = 0) => alive \subseteq Foreign
  /\ cli \in {"done", "exited"} /\ verdict # "own" /\ ~(interrupted /\ lost) =>
       alive \subseteq Foreign

(* There is one interrupt; a stop for an exception is for that, or for the *)
(* lost lease.                                                             *)
GateIntOK ==
  /\ int => interrupted
  /\ server = "waiting" => ~interrupted
  /\ why = "error" => lost \/ (interrupted /\ ~int)
  /\ interrupted /\ ~int => Gate!Over \/ cli = "done" \/ (why = "error" /\ cli # "poll")

(* What is left of the server's grace, at each place of a CLI that reacts. *)
GateTimeOK ==
  ~wedged /\ ~Gate!Over /\ server \in {"stopping", "exiting"} =>
    /\ interrupted /\ patience >= 2
    /\ int => patience = 4
    /\ ~int => /\ cli = "stop" => patience = 4
               /\ cli = "term" => patience = 3 + timer
               /\ cli = "kill" => patience = 2 + timer

GateEndOK ==
  /\ cli = "exited" => ~lease
  /\ cli = "killed" => wedged

GateInv ==
  /\ GateTypes /\ GateStopOK /\ GateVerdictOK /\ GateKillOK /\ GateIntOK /\ GateTimeOK
  /\ GateEndOK

-----------------------------------------------------------------------------
LEMMA GateStepFork ==
  ASSUME Gate!CommandAssumption, GateInv, NEW m \in Member, Gate!Fork(m)
  PROVE  GateInv'
  <1> USE DEF GateInv, Gate!Fork, Gate!run, Gate!outer
  <1>1. GateTypes' /\ GateStopOK' /\ GateVerdictOK' /\ GateIntOK'
    BY DEF GateTypes, GateStopOK, GateVerdictOK, GateIntOK, Gate!Over
  <1>2. GateKillOK'
    <2>1. cli # "kill" /\ ~(alive \subseteq Foreign)
      BY DEF GateKillOK
    <2> QED BY <2>1 DEF GateKillOK
  <1>3. GateTimeOK' /\ GateEndOK'
    BY DEF GateTimeOK, GateEndOK, Gate!Over
  <1> QED BY <1>1, <1>2, <1>3

LEMMA GateStepExit ==
  ASSUME Gate!CommandAssumption, GateInv, NEW m \in Member, Gate!Exit(m)
  PROVE  GateInv'
  <1> USE DEF GateInv, Gate!Exit, Gate!run, Gate!outer
  <1>1. GateTypes' /\ GateIntOK'
    BY DEF GateTypes, GateIntOK, Gate!Over
  <1>2. GateStopOK' /\ GateVerdictOK'
    <2>1. CASE m = Leader
      <3>1. ownExit' <=> signaled[Leader] = "none"
        BY <2>1 DEF GateStopOK
      <3>2. GateStopOK'
        BY <2>1, <3>1 DEF GateStopOK
      <3>3. GateVerdictOK'
        BY <2>1, <3>1 DEF GateVerdictOK, GateStopOK
      <3> QED BY <3>2, <3>3
    <2>2. CASE m # Leader
      <3>1. ownExit' <=> ownExit
        BY <2>2
      <3>2. Leader \in alive' <=> Leader \in alive
        BY <2>2
      <3> QED BY <3>1, <3>2 DEF GateStopOK, GateVerdictOK
    <2> QED BY <2>1, <2>2
  <1>3. GateKillOK'
    BY DEF GateKillOK
  <1>4. GateTimeOK' /\ GateEndOK'
    BY DEF GateTimeOK, GateEndOK, Gate!Over
  <1> QED BY <1>1, <1>2, <1>3, <1>4

LEMMA GateStepLeaderEnded ==
  ASSUME Gate!CommandAssumption, GateInv, Gate!LeaderEnded
  PROVE  GateInv'
  <1> USE DEF GateInv, Gate!LeaderEnded, Gate!gate, Gate!outer, Gate!Acts
  <1>1. GateTypes' /\ GateStopOK' /\ GateVerdictOK'
    BY DEF GateTypes, GateStopOK, GateVerdictOK
  <1>2. GateKillOK' /\ GateIntOK' /\ GateEndOK'
    BY DEF GateKillOK, GateIntOK, GateEndOK, Gate!Over
  <1>3. GateTimeOK'
    BY DEF GateTimeOK, GateIntOK, Gate!Over
  <1> QED BY <1>1, <1>2, <1>3

LEMMA GateStepDecide ==
  ASSUME Gate!CommandAssumption, GateInv, NEW reason \in {"timeout", "cancel", "error"},
         Gate!Decide(reason)
  PROVE  GateInv'
  <1> USE DEF GateInv, Gate!Decide, Gate!gate, Gate!outer, Gate!Acts
  <1>1. GateTypes' /\ GateStopOK' /\ GateVerdictOK'
    BY DEF GateTypes, GateStopOK, GateVerdictOK
  <1>2. GateKillOK' /\ GateIntOK' /\ GateEndOK'
    BY DEF GateKillOK, GateIntOK, GateEndOK, Gate!Over
  <1>3. GateTimeOK'
    BY DEF GateTimeOK, GateIntOK, Gate!Over
  <1> QED BY <1>1, <1>2, <1>3

LEMMA GateStepStopBegins ==
  ASSUME Gate!CommandAssumption, GateInv, Gate!StopBegins
  PROVE  GateInv'
  <1> USE DEF GateInv, Gate!outer, Gate!Acts
  <1>0. /\ ~Gate!Over /\ ~wedged /\ cli = "stop" /\ ~int /\ running' = (Leader \in alive)
        /\ UNCHANGED <<alive, born, ownExit, why, verdict, lost, lease>> /\ UNCHANGED Gate!outer
    BY DEF Gate!StopBegins, Gate!StillRunning
  <1>1. CASE alive \subseteq Foreign
    <2>1. cli' = "stopped" /\ UNCHANGED <<signaled, timer>>
      BY <1>1 DEF Gate!StopBegins
    <2>2. Leader \notin alive
      BY <1>1 DEF Gate!CommandAssumption
    <2>3. GateTypes' /\ GateStopOK' /\ GateVerdictOK'
      BY <1>0, <2>1, <2>2 DEF GateTypes, GateStopOK, GateVerdictOK
    <2>4. GateKillOK' /\ GateIntOK' /\ GateEndOK'
      BY <1>0, <1>1, <2>1 DEF GateKillOK, GateIntOK, GateEndOK, Gate!Over
    <2>5. GateTimeOK'
      BY <1>0, <2>1 DEF GateTimeOK, Gate!Over
    <2> QED BY <2>3, <2>4, <2>5
  <1>2. CASE ~(alive \subseteq Foreign)
    <2>1. cli' = "term" /\ timer' = 1 /\ Gate!Signal("term")
      BY <1>2 DEF Gate!StopBegins
    <2>2. /\ signaled' \in [Member -> {"none", "term", "kill"}]
          /\ \A m \in Foreign : signaled'[m] = "none"
          /\ Leader \in alive => signaled'[Leader] # "none"
          /\ Leader \notin alive => signaled'[Leader] = signaled[Leader]
      BY <2>1 DEF Gate!Signal, GateTypes, Gate!CommandAssumption
    <2>3. GateTypes' /\ GateStopOK' /\ GateVerdictOK'
      <3>1. GateTypes'
        BY <1>0, <2>1, <2>2 DEF GateTypes
      <3>2. ownExit' <=> Leader \notin alive' /\ signaled'[Leader] = "none"
        BY <1>0, <2>2 DEF GateStopOK
      <3>3. why' # "error" => IF running' THEN signaled'[Leader] # "none" ELSE ownExit'
        BY <1>0, <2>2 DEF GateStopOK
      <3>4. GateStopOK'
        BY <2>1, <3>2, <3>3 DEF GateStopOK
      <3>5. GateVerdictOK'
        BY <1>0, <2>1 DEF GateVerdictOK
      <3> QED BY <3>1, <3>4, <3>5
    <2>4. GateKillOK' /\ GateIntOK' /\ GateEndOK'
      BY <1>0, <2>1 DEF GateKillOK, GateIntOK, GateEndOK, Gate!Over
    <2>5. GateTimeOK'
      BY <1>0, <2>1 DEF GateTimeOK, Gate!Over
    <2> QED BY <2>3, <2>4, <2>5
  <1> QED BY <1>1, <1>2

LEMMA GateStepEscalate ==
  ASSUME Gate!CommandAssumption, GateInv, Gate!Escalate
  PROVE  GateInv'
  <1> USE DEF GateInv, Gate!outer, Gate!Acts
  <1>0. /\ ~Gate!Over /\ ~wedged /\ cli = "term" /\ ~int /\ timer = 0
        /\ cli' = "kill" /\ timer' = 1 /\ Gate!Signal("kill")
        /\ UNCHANGED <<alive, born, ownExit, why, running, verdict, lost, lease>>
        /\ UNCHANGED Gate!outer
    BY DEF Gate!Escalate, Gate!Escalation
  <1>1. /\ signaled' \in [Member -> {"none", "term", "kill"}]
        /\ \A m \in Foreign : signaled'[m] = "none"
        /\ \A m \in alive \ Foreign : signaled'[m] = "kill"
        /\ Leader \in alive => signaled'[Leader] # "none"
        /\ Leader \notin alive => signaled'[Leader] = signaled[Leader]
    BY <1>0 DEF Gate!Signal, GateTypes, Gate!CommandAssumption
  <1>2. GateTypes' /\ GateStopOK' /\ GateVerdictOK'
    BY <1>0, <1>1 DEF GateTypes, GateStopOK, GateVerdictOK
  <1>3. GateKillOK' /\ GateIntOK' /\ GateEndOK'
    BY <1>0, <1>1 DEF GateKillOK, GateIntOK, GateEndOK, Gate!Over
  <1>4. GateTimeOK'
    BY <1>0 DEF GateTimeOK, Gate!Over
  <1> QED BY <1>2, <1>3, <1>4

LEMMA GateStepStopEnds ==
  ASSUME Gate!CommandAssumption, GateInv, Gate!StopEnds
  PROVE  GateInv'
  <1> USE DEF GateInv, Gate!StopEnds, Gate!gate, Gate!outer, Gate!Acts
  <1>1. GateTypes' /\ GateStopOK' /\ GateVerdictOK'
    BY DEF GateTypes, GateStopOK, GateVerdictOK
  <1>2. GateKillOK' /\ GateIntOK' /\ GateEndOK'
    BY DEF GateKillOK, GateIntOK, GateEndOK, Gate!Over, Gate!GroupAlive
  <1>3. GateTimeOK'
    BY DEF GateTimeOK, Gate!Over, GateTypes
  <1> QED BY <1>1, <1>2, <1>3

LEMMA GateStepStopReturns ==
  ASSUME Gate!CommandAssumption, GateInv, Gate!StopReturns
  PROVE  GateInv'
  <1> USE DEF GateInv, Gate!StopReturns, Gate!gate, Gate!outer, Gate!Acts
  <1>1. GateTypes' /\ GateStopOK' /\ GateVerdictOK'
    BY DEF GateTypes, GateStopOK, GateVerdictOK
  <1>2. GateKillOK' /\ GateIntOK' /\ GateEndOK'
    BY DEF GateKillOK, GateIntOK, GateEndOK, Gate!Over
  <1>3. GateTimeOK'
    BY DEF GateTimeOK, GateIntOK, Gate!Over
  <1> QED BY <1>1, <1>2, <1>3

LEMMA GateStepInterrupt ==
  ASSUME Gate!CommandAssumption, GateInv, Gate!Interrupt
  PROVE  GateInv'
  <1> USE DEF GateInv, Gate!gate, Gate!Acts
  <1>0. /\ ~Gate!Over /\ ~wedged /\ int /\ int' = FALSE
        /\ UNCHANGED <<running, timer, lost, lease>> /\ UNCHANGED Gate!gate
        /\ UNCHANGED <<wedged, interrupted, server, patience>>
    BY DEF Gate!Interrupt
  <1>1. CASE cli \in {"stop", "term", "kill", "stopped"} /\ why = "error"
    <2>1. cli' = "done" /\ verdict' = "error" /\ UNCHANGED why
      BY <1>1 DEF Gate!Interrupt
    <2>2. GateTypes' /\ GateStopOK' /\ GateVerdictOK'
      BY <1>0, <2>1 DEF GateTypes, GateStopOK, GateVerdictOK
    <2>3. GateKillOK' /\ GateIntOK' /\ GateEndOK' /\ GateTimeOK'
      BY <1>0, <1>1, <2>1 DEF GateKillOK, GateIntOK, GateEndOK, GateTimeOK, Gate!Over
    <2> QED BY <2>2, <2>3
  <1>2. CASE cli = "done"
    <2>1. UNCHANGED <<cli, verdict, why>>
      BY <1>2 DEF Gate!Interrupt
    <2>2. GateTypes' /\ GateStopOK' /\ GateVerdictOK'
      BY <1>0, <1>2, <2>1 DEF GateTypes, GateStopOK, GateVerdictOK
    <2>3. GateKillOK' /\ GateIntOK' /\ GateEndOK' /\ GateTimeOK'
      BY <1>0, <1>2, <2>1 DEF GateKillOK, GateIntOK, GateEndOK, GateTimeOK, Gate!Over
    <2> QED BY <2>2, <2>3
  <1>3. CASE /\ ~(cli \in {"stop", "term", "kill", "stopped"} /\ why = "error")
             /\ cli # "done"
    <2>1. cli' = "stop" /\ why' = "error" /\ UNCHANGED verdict
      BY <1>3 DEF Gate!Interrupt
    <2>2. GateTypes' /\ GateStopOK' /\ GateVerdictOK'
      BY <1>0, <1>3, <2>1 DEF GateTypes, GateStopOK, GateVerdictOK, Gate!Over
    <2>3. GateKillOK' /\ GateIntOK' /\ GateEndOK' /\ GateTimeOK'
      BY <1>0, <1>3, <2>1 DEF GateKillOK, GateIntOK, GateEndOK, GateTimeOK, Gate!Over
    <2> QED BY <2>2, <2>3
  <1> QED BY <1>1, <1>2, <1>3

LEMMA GateStepUnwind ==
  ASSUME Gate!CommandAssumption, GateInv, Gate!Unwind
  PROVE  GateInv'
  <1> USE DEF GateInv, Gate!Unwind, Gate!gate, Gate!outer, Gate!Acts
  <1>1. GateTypes' /\ GateStopOK' /\ GateVerdictOK'
    BY DEF GateTypes, GateStopOK, GateVerdictOK
  <1>2. GateKillOK' /\ GateIntOK' /\ GateEndOK' /\ GateTimeOK'
    BY DEF GateKillOK, GateIntOK, GateEndOK, GateTimeOK, Gate!Over
  <1> QED BY <1>1, <1>2

LEMMA GateStepWedge ==
  ASSUME Gate!CommandAssumption, GateInv, Gate!Wedge
  PROVE  GateInv'
  <1> USE DEF GateInv, Gate!Wedge, Gate!gate, Gate!run, Gate!Acts
  <1>1. GateTypes' /\ GateStopOK' /\ GateVerdictOK'
    BY DEF GateTypes, GateStopOK, GateVerdictOK
  <1>2. GateKillOK' /\ GateIntOK' /\ GateEndOK' /\ GateTimeOK'
    BY DEF GateKillOK, GateIntOK, GateEndOK, GateTimeOK, Gate!Over
  <1> QED BY <1>1, <1>2

LEMMA GateStepServer ==
  ASSUME Gate!CommandAssumption, GateInv,
         Gate!RequestStops \/ Gate!CtrlC \/ Gate!Answer \/ Gate!ServerExits
  PROVE  GateInv'
  <1> USE DEF GateInv, Gate!gate, Gate!run
  <1>1. CASE Gate!RequestStops \/ (Gate!ServerExits /\ server = "waiting") \/ Gate!CtrlC
    <2>0. /\ UNCHANGED <<Gate!gate, Gate!run, wedged>> /\ ~interrupted
          /\ \/ Gate!Over /\ UNCHANGED <<int, interrupted, patience>>
             \/ int' = TRUE /\ interrupted' = TRUE /\ patience' \in {patience, 4}
                /\ (server' \in {"stopping", "exiting"} => patience' = 4)
          /\ server' \in {"stopping", "exiting", server} /\ server' # "waiting"
      BY <1>1
         DEF Gate!RequestStops, Gate!ServerExits, Gate!CtrlC, Gate!Interrupts, Gate!CliGrace,
             GateIntOK
    <2>1. GateTypes' /\ GateStopOK' /\ GateVerdictOK'
      <3>1. int' \in BOOLEAN /\ interrupted' \in BOOLEAN /\ patience' \in Nat
        <4>1. CASE UNCHANGED <<int, interrupted, patience>>
          BY <4>1 DEF GateTypes
        <4>2. CASE ~UNCHANGED <<int, interrupted, patience>>
          <5>1. int' = TRUE /\ interrupted' = TRUE /\ patience' \in {patience, 4}
            BY <2>0, <4>2
          <5>2. patience' \in Nat
            BY <5>1 DEF GateTypes
          <5> QED BY <5>1, <5>2
        <4> QED BY <4>1, <4>2
      <3>2. server' \in {"none", "waiting", "stopping", "answered", "exiting", "gone"}
        BY <2>0 DEF GateTypes
      <3> QED BY <2>0, <3>1, <3>2 DEF GateTypes, GateStopOK, GateVerdictOK
    <2>2. GateKillOK' /\ GateEndOK'
      BY <2>0 DEF GateKillOK, GateEndOK
    <2>3. GateIntOK'
      BY <2>0 DEF GateIntOK, Gate!Over
    <2>4. GateTimeOK'
      BY <2>0 DEF GateTimeOK, Gate!Over
    <2> QED BY <2>1, <2>2, <2>3, <2>4
  <1>2. CASE Gate!Answer \/ (Gate!ServerExits /\ server # "waiting")
    <2>0. /\ UNCHANGED <<Gate!gate, Gate!run, wedged, int, interrupted, patience>>
          /\ server' \in {"answered", "gone"}
      BY <1>2 DEF Gate!Answer, Gate!ServerExits
    <2>1. GateTypes' /\ GateStopOK' /\ GateVerdictOK'
      BY <2>0 DEF GateTypes, GateStopOK, GateVerdictOK
    <2>2. GateKillOK' /\ GateEndOK' /\ GateIntOK' /\ GateTimeOK'
      BY <2>0 DEF GateKillOK, GateEndOK, GateIntOK, GateTimeOK, Gate!Over
    <2> QED BY <2>1, <2>2
  <1> QED BY <1>1, <1>2

LEMMA GateStepKillCli ==
  ASSUME Gate!CommandAssumption, GateInv, Gate!KillCli
  PROVE  GateInv'
  <1> USE DEF GateInv, Gate!KillCli, Gate!gate, Gate!outer
  <1>0. wedged
    BY DEF GateTimeOK, Gate!MayKill
  <1>1. GateTypes' /\ GateStopOK' /\ GateVerdictOK'
    BY DEF GateTypes, GateStopOK, GateVerdictOK
  <1>2. GateKillOK' /\ GateIntOK' /\ GateEndOK' /\ GateTimeOK'
    BY <1>0 DEF GateKillOK, GateIntOK, GateEndOK, GateTimeOK, Gate!Over
  <1> QED BY <1>1, <1>2

LEMMA GateStepTick ==
  ASSUME Gate!CommandAssumption, GateInv, Gate!Tick
  PROVE  GateInv'
  <1> USE DEF GateInv, Gate!gate
  <1>0. /\ UNCHANGED <<cli, why, running, verdict, lost, lease, wedged, int, interrupted, server>>
        /\ UNCHANGED Gate!gate /\ \A m \in alive : ~Gate!MustExit(m)
        /\ Gate!Over \/ wedged \/ (~int /\ (\/ cli = "poll" /\ Leader \in alive
                                            \/ cli \in {"term", "kill"} /\ timer > 0
                                            \/ cli = "stopped" /\ Leader \in alive))
    BY DEF Gate!Tick, Gate!Quiet
  <1>1. /\ timer' \in Nat /\ patience' \in Nat
        /\ timer > 0 => timer' = timer - 1
        /\ patience > 0 => patience' = patience - 1
    BY DEF Gate!Tick, Gate!Less, GateTypes
  <1>2. GateTypes' /\ GateStopOK' /\ GateVerdictOK' /\ GateIntOK' /\ GateEndOK'
    BY <1>0, <1>1 DEF GateTypes, GateStopOK, GateVerdictOK, GateIntOK, GateEndOK, Gate!Over
  <1>3. GateKillOK'
    <2>1. cli = "kill" => alive \subseteq Foreign
      BY <1>0 DEF GateKillOK, Gate!MustExit
    <2> QED BY <1>0, <2>1 DEF GateKillOK
  <1>4. GateTimeOK'
    <2> SUFFICES ASSUME ~wedged, ~Gate!Over, server \in {"stopping", "exiting"}
        PROVE  GateTimeOK'
      BY <1>0 DEF GateTimeOK, Gate!Over
    <2>1. ~int /\ cli \in {"term", "kill"} /\ timer > 0
      BY <1>0 DEF GateIntOK, GateTimeOK, GateKillOK, Gate!CommandAssumption, Gate!Over
    <2> QED BY <1>0, <1>1, <2>1 DEF GateTimeOK, Gate!Over, GateTypes
  <1> QED BY <1>2, <1>3, <1>4

LEMMA GateInitInv == Gate!CommandAssumption /\ Gate!Init => GateInv
  <1> SUFFICES ASSUME Gate!CommandAssumption, Gate!Init PROVE GateInv
    OBVIOUS
  <1>1. GateTypes
    BY DEF Gate!CommandAssumption, Gate!Init, GateTypes
  <1>2. GateStopOK /\ GateVerdictOK /\ GateKillOK /\ GateIntOK /\ GateTimeOK /\ GateEndOK
    BY DEF Gate!CommandAssumption, Gate!Init, GateStopOK, GateVerdictOK, GateKillOK, GateIntOK,
           GateTimeOK, GateEndOK
  <1> QED BY <1>1, <1>2 DEF GateInv

LEMMA GateNextInv == Gate!CommandAssumption /\ GateInv /\ [Gate!Next]_Gate!vars => GateInv'
  <1> SUFFICES ASSUME Gate!CommandAssumption, GateInv, [Gate!Next]_Gate!vars PROVE GateInv'
    OBVIOUS
  <1>1. CASE UNCHANGED Gate!vars
    BY <1>1
       DEF Gate!vars, Gate!gate, Gate!run, Gate!outer, GateInv, GateTypes, GateStopOK,
           GateVerdictOK, GateKillOK, GateIntOK, GateTimeOK,
                GateEndOK, Gate!Over
  <1>2. CASE Gate!Next
    <2>1. ASSUME NEW m \in Member, Gate!Fork(m) \/ Gate!Exit(m) PROVE GateInv'
      BY <2>1, GateStepFork, GateStepExit
    <2>2. ASSUME NEW reason \in {"timeout", "cancel", "error"},
                 Gate!Decide(reason) PROVE GateInv'
      BY <2>2, GateStepDecide
    <2>3. CASE Gate!Cli
      BY <2>3, GateStepLeaderEnded, GateStepStopBegins, GateStepEscalate, GateStepStopEnds,
         GateStepStopReturns,
         GateStepInterrupt, GateStepUnwind DEF Gate!Cli
    <2>4. CASE Gate!Wedge \/ Gate!RequestStops \/ Gate!CtrlC \/ Gate!Answer \/ Gate!KillCli
          \/ Gate!ServerExits \/ Gate!Tick
      BY <2>4, GateStepWedge, GateStepServer, GateStepKillCli, GateStepTick
    <2> QED BY <1>2, <2>1, <2>2, <2>3, <2>4 DEF Gate!Next
  <1> QED BY <1>1, <1>2

LEMMA GateInvHolds == Gate!CommandAssumption /\ GateInv =>
    Gate!TypeOK /\ Gate!NoInvisibleGate /\ Gate!VerdictIsOwn /\ Gate!LeaseReleased
  <1> SUFFICES ASSUME Gate!CommandAssumption, GateInv
      PROVE Gate!TypeOK /\ Gate!NoInvisibleGate /\ Gate!VerdictIsOwn /\ Gate!LeaseReleased
    OBVIOUS
  <1> USE DEF GateInv
  <1>1. Gate!TypeOK
    BY DEF Gate!TypeOK, GateTypes, GateKillOK
  <1>2. Gate!NoInvisibleGate /\ Gate!LeaseReleased
    BY DEF Gate!NoInvisibleGate, Gate!LeaseReleased, GateKillOK, GateEndOK, Gate!Over
  <1>3. Gate!VerdictIsOwn
    BY DEF Gate!VerdictIsOwn, GateVerdictOK
  <1> QED BY <1>1, <1>2, <1>3

-----------------------------------------------------------------------------
(***************************************************************************)
(* The whole.                                                              *)
(***************************************************************************)
Inv ==
  /\ part = "bisect"  => BisectInv
  /\ part = "command" => GateInv
  /\ part = "stream"  => Stream!Inv
  /\ part = "again"   => Again!Inv

(* A step is a step of the part that the behaviour is about.               *)
LEMMA StepOfPart ==
  ASSUME [Next]_vars
  PROVE  /\ part' = part
         /\ part = "bisect"  => [Bisect!Next]_Bisect!vars
         /\ part = "command" => [Gate!Next]_Gate!vars
         /\ part = "stream"  => [Stream!Next]_Stream!vars
         /\ part = "again"   => [Again!Next]_Again!vars
  <1>1. CASE UNCHANGED vars
    BY <1>1 DEF vars, bisectVars, commandVars, streamVars, shared, Bisect!vars, Gate!vars,
                Gate!gate, Gate!run, Gate!outer, Stream!vars, Stream!store, Stream!follower,
                Again!vars, Again!store, Again!follower
  <1>2. CASE Next
    BY <1>2 DEF Next, BisectStep, CommandStep, NotifyStep, StreamStep, HubStep
  <1> QED BY <1>1, <1>2

LEMMA InitInv ==
  ASSUME Init
  PROVE  Inv
  <1>1. part = "bisect" => BisectInv
    BY EndsAssumption, BisectInitInv DEF Init
  <1>2. part = "command" => GateInv
    BY EndsAssumption, GateInitInv DEF Init
  <1>3. part = "stream" => Stream!Inv
    BY EndsAssumption, Stream!InitInv DEF Init
  <1>4. part = "again" => Again!Inv
    BY EndsAssumption, Again!InitInv DEF Init
  <1> QED BY <1>1, <1>2, <1>3, <1>4 DEF Inv

LEMMA NextInv ==
  ASSUME Inv, [Next]_vars
  PROVE  Inv'
  <1>1. CASE part = "bisect"
    BY <1>1, EndsAssumption, StepOfPart, BisectNextInv DEF Inv
  <1>2. CASE part = "command"
    BY <1>2, EndsAssumption, StepOfPart, GateNextInv DEF Inv
  <1>3. CASE part = "stream"
    BY <1>3, EndsAssumption, StepOfPart, Stream!NextInv DEF Inv
  <1>4. CASE part = "again"
    BY <1>4, EndsAssumption, StepOfPart, Again!NextInv DEF Inv
  <1>5. CASE part \notin {"bisect", "command", "stream", "again"}
    BY <1>5, StepOfPart DEF Inv
  <1> QED BY <1>1, <1>2, <1>3, <1>4, <1>5

LEMMA InvAlways == Spec => []Inv
  BY InitInv, NextInv, PTL DEF Spec

(* The stream of one claim, whose polls are never full.                    *)
OneInv == part = "stream" => Stream!OneInv

LEMMA OneInvAlways == Stream!OneClaim => (Spec => []OneInv)
  <1> SUFFICES ASSUME Stream!OneClaim PROVE Spec => []OneInv
    OBVIOUS
  <1>1. Init => OneInv
    BY EndsAssumption, Stream!OneInitInv DEF Init, OneInv
  <1>2. Inv /\ Inv' /\ OneInv /\ [Next]_vars => OneInv'
    BY EndsAssumption, StepOfPart, Stream!OneNextInv DEF Inv, OneInv
  <1> QED BY <1>1, <1>2, InvAlways, PTL DEF Spec

(* Whatever the gates of the probes answer, a job is blamed alone only for *)
(* a probe of it alone that failed, and a set named only if it failed      *)
(* together, each member passed alone, and the failure was shown to need   *)
(* each member; with gates that depend on the jobs alone, the verdicts are *)
(* exact.                                                                  *)
THEOREM BisectBlamesJustly == Spec => []BlameIsJust
  <1>1. Inv => BlameIsJust
    BY BisectInvBlame DEF Inv, BlameIsJust
  <1> QED BY <1>1, InvAlways, PTL

(* However a deadline, a cancellation, a lost lease, one SIGINT at most    *)
(* and the end of the gate meet: a runner that is gone after it had to     *)
(* stop its gate leaves no process of it that it could stop, unless the    *)
(* interrupt came with a lost lease (CommandTwice shows that case); it     *)
(* reports no verdict but what happened; and a runner that was not wedged  *)
(* has released its lease, also when the server ends it.                   *)
THEOREM GateStopsWhole == Spec => []GateIsStopped
  <1>1. Inv => GateIsStopped
    BY EndsAssumption, GateInvHolds DEF Inv, GateIsStopped
  <1> QED BY <1>1, InvAlways, PTL

(* Whatever the runner commits between the reads of a poll, a follower of  *)
(* its events skips none of the jobs that are kept, prints none twice or   *)
(* out of order, ends the stream after what it has to announce, and calls  *)
(* a run lost only if it was.  The last two hold of the jobs of one claim, *)
(* when no poll is full and a poll interval outlasts the runner's step     *)
(* from a status to its event: StreamEarly, StreamLost show what happens   *)
(* otherwise.                                                              *)
THEOREM StreamTellsAll == Stream!OneClaim => (Spec => []StreamIsComplete)
  <1> SUFFICES ASSUME Stream!OneClaim PROVE Spec => []StreamIsComplete
    OBVIOUS
  <1>1. Inv /\ OneInv => StreamIsComplete
    BY EndsAssumption, Stream!InvStream, Again!InvStream, Stream!InvOne
       DEF Inv, OneInv, StreamIsComplete
  <1> QED BY <1>1, InvAlways, OneInvAlways, PTL
=============================================================================
