---------------------------- MODULE VersionsProofs ----------------------------
(***************************************************************************)
(* Proofs about Versions, for any number of slow requests and runs and any *)
(* limits: the personal pointer names a version that exists, pruning takes *)
(* old generated versions only, and what a request replaces is in the      *)
(* history.                                                                *)
(***************************************************************************)
EXTENDS Versions, FiniteSetTheorems, WellFoundedInduction, TLAPS

USE ConstantsAssumption DEF Id, Pointer, Status, PersonalRow

-----------------------------------------------------------------------------
(* Rows and their versions                                                 *)

\* Rows with numbers of their own are finitely many.
LEMMA FiniteRows ==
  ASSUME NEW vs, \A v \in vs : v.id \in Id, Unique(vs)
  PROVE  IsFiniteSet(vs)
<1> DEFINE f == [v \in vs |-> v.id]
<1>1. f \in Injection(vs, 0..MaxId)
  BY DEF Injection, IsInjective, Unique
<1>2. IsFiniteSet(0..MaxId)
  BY FS_Interval
<1> QED
  BY <1>1, <1>2, FS_Injection

\* Among finitely many rows one has the greatest version.
LEMMA Greatest ==
  ASSUME NEW vs, IsFiniteSet(vs), vs # {}, \A v \in vs : v.ver \in Nat
  PROVE  \E v \in vs : \A w \in vs : w.ver <= v.ver
<1> DEFINE Above(v) == {w \in vs : w.ver > v.ver}
           Counts == {Cardinality(Above(v)) : v \in vs}
<1>1. \A v \in vs : IsFiniteSet(Above(v)) /\ Cardinality(Above(v)) \in Nat
  BY FS_Subset, FS_CardinalityType
<1>2. Counts \subseteq Nat /\ Counts # {}
  BY <1>1
<1>3. PICK n \in Counts : \A k \in Counts : <<k, n>> \notin OpToRel(<, Nat)
  BY <1>2, WFMin, NatLessThanWellFounded, Zenon
<1>4. \A k \in Counts : ~(k < n)
  BY <1>2, <1>3, Zenon DEF OpToRel
<1>5. PICK v \in vs : n = Cardinality(Above(v))
  OBVIOUS
<1>6. ASSUME NEW w \in vs, w.ver > v.ver PROVE FALSE
  <2>1. Above(w) \subseteq Above(v) /\ w \in Above(v) /\ w \notin Above(w)
    BY <1>6
  <2>2. Cardinality(Above(w)) <= Cardinality(Above(v)) /\ Cardinality(Above(w)) # Cardinality(Above(v))
    BY <1>1, <2>1, FS_Subset
  <2>3. Cardinality(Above(w)) \in Counts
    OBVIOUS
  <2>4. Cardinality(Above(w)) \in Nat /\ Cardinality(Above(v)) \in Nat
    BY <1>1
  <2>5. ~(Cardinality(Above(w)) < Cardinality(Above(v)))
    BY <1>4, <1>5, <2>3
  <2> HIDE DEF Above, Counts
  <2> QED
    BY <2>2, <2>4, <2>5
<1> QED
  BY <1>6

LEMMA LatestIn ==
  ASSUME NEW vs, IsFiniteSet(vs), vs # {}, \A v \in vs : v.ver \in Nat
  PROVE  Latest(vs) \in vs
BY Greatest DEF Latest

LEMMA NextVersionAbove ==
  ASSUME NEW vs, IsFiniteSet(vs), \A v \in vs : v.ver \in Nat
  PROVE  NextVersion(vs) \in Nat \ {0} /\ \A v \in vs : v.ver < NextVersion(vs)
<1> DEFINE S == {v.ver : v \in vs} \cup {0}
<1>1. \E m \in S : \A k \in S : m >= k
  <2>1. CASE vs = {}
    BY <2>1
  <2>2. CASE vs # {}
    <3>1. PICK v \in vs : \A w \in vs : w.ver <= v.ver
      BY <2>2, Greatest
    <3>2. v.ver \in S /\ \A k \in S : v.ver >= k
      BY <3>1
    <3> QED
      BY <3>2
  <2> QED
    BY <2>1, <2>2
<1>2. Max(S) \in S /\ \A k \in S : Max(S) >= k
  BY <1>1 DEF Max
<1>3. Max(S) \in Nat /\ NextVersion(vs) = Max(S) + 1
  BY <1>2 DEF NextVersion
<1>4. \A v \in vs : v.ver \in S
  OBVIOUS
<1> HIDE DEF S
<1>5. \A v \in vs : v.ver < Max(S) + 1
  BY <1>2, <1>3, <1>4
<1> QED
  BY <1>3, <1>5

\* What pruning takes has Keep newer rows among what it leaves.
LEMMA PruneLeavesNewer ==
  ASSUME NEW vs, IsFiniteSet(vs), \A v \in vs : v.ver \in Nat,
         NEW kept, Newest(vs) \subseteq kept, kept \subseteq vs,
         NEW v \in vs, v \notin kept
  PROVE  Cardinality(Newer(kept, v)) >= Keep
<1> DEFINE Above(u) == Newer(vs, u)
           Left == Newer(kept, v)
           Lost == {w \in Above(v) : w \notin kept}
<1>1. ASSUME NEW u \in vs
      PROVE  /\ IsFiniteSet(Above(u)) /\ Cardinality(Above(u)) \in Nat
             /\ u \notin kept => Cardinality(Above(u)) >= Keep
  <2>1. Above(u) \in SUBSET vs
    BY DEF Newer
  <2>2. IsFiniteSet(Above(u)) /\ Cardinality(Above(u)) \in Nat
    BY <2>1, FS_Subset, FS_CardinalityType
  <2>3. u \notin kept => ~(Cardinality(Above(u)) < Keep)
    BY DEF Newest
  <2> QED
    BY <2>2, <2>3
<1>2. IsFiniteSet(Left) /\ Cardinality(Left) \in Nat
  <2>1. Left \in SUBSET vs
    BY DEF Newer
  <2> QED
    BY <2>1, FS_Subset, FS_CardinalityType
<1> DEFINE Goal == Cardinality(Left) >= Keep
<1>a. ASSUME NEW u \in vs, u \notin kept, Above(u) \subseteq Left PROVE Goal
  <2>1. Cardinality(Above(u)) <= Cardinality(Left)
    BY <1>2, <1>a, FS_Subset
  <2>2. Cardinality(Above(u)) >= Keep /\ Cardinality(Above(u)) \in Nat
    BY <1>1, <1>a
  <2> HIDE DEF Above, Left
  <2> QED
    BY <1>2, <2>1, <2>2
<1>3. CASE Lost = {}
  <2>1. Above(v) \subseteq Left
    BY <1>3 DEF Newer
  <2> QED
    BY <1>a, <2>1
<1>4. CASE Lost # {}
  <2>1. IsFiniteSet(Lost) /\ Lost \subseteq vs
    <3>1. Lost \in SUBSET vs
      BY DEF Newer
    <3> QED
      BY <3>1, FS_Subset
  <2>2. PICK u \in Lost : \A w \in Lost : w.ver <= u.ver
    BY <1>4, <2>1, Greatest
  <2>3. u \in vs /\ u \notin kept /\ Above(u) \subseteq Left
    BY <2>1, <2>2 DEF Newer
  <2> QED
    BY <1>a, <2>2, <2>3
<1> QED
  BY <1>3, <1>4

\* A row with at most one newer row is among the newest.
LEMMA SecondIsNewest ==
  ASSUME NEW vs, IsFiniteSet(vs), NEW v \in vs, NEW a,
         \A w \in vs : w.ver > v.ver => w = a
  PROVE  v \in Newest(vs)
<1> DEFINE Above == Newer(vs, v)
<1>1. IsFiniteSet({a}) /\ Cardinality({a}) = 1
  BY FS_Singleton
<1>2. Above \in SUBSET {a}
  BY DEF Newer
<1>3. Cardinality(Above) <= 1 /\ Cardinality(Above) \in Nat
  BY <1>1, <1>2, FS_Subset, FS_CardinalityType
<1>4. Cardinality(Above) < Keep
  <2> HIDE DEF Above
  <2> QED
    BY <1>3
<1> QED
  BY <1>4 DEF Newest

-----------------------------------------------------------------------------
(* Sets of rows: typed, numbered apart, none beyond the last number drawn  *)

Rows(vs, T, n) == vs \subseteq T /\ Unique(vs) /\ \A v \in vs : v.id <= n

LEMMA Transitive ==
  ASSUME NEW a \in Id, NEW b \in Id, NEW c \in Id, a <= b, b <= c
  PROVE  a <= c
OBVIOUS

LEMMA AddRow ==
  ASSUME NEW T, \A v \in T : v.id \in Id, NEW vs, NEW n \in Nat, Rows(vs, T, n),
         NEW r \in T, n < r.id
  PROVE  Rows(vs \cup {r}, T, r.id)
<1>1. \A v \in vs : v.id \in Nat /\ v.id < r.id
  BY DEF Rows
<1> QED
  BY <1>1 DEF Rows, Unique

LEMMA Subrows ==
  ASSUME NEW T, \A v \in T : v.id \in Id, NEW vs, NEW n \in Nat, Rows(vs, T, n),
         NEW ws, ws \subseteq vs, NEW m \in Nat, n <= m
  PROVE  Rows(ws, T, m)
BY DEF Rows, Unique

LEMMA RowTypes ==
  /\ \A v \in Version : v.id \in Id /\ v.ver \in Nat /\ v.text \in Id
  /\ \A v \in TeamRow : v.id \in Id /\ v.ver \in Nat /\ v.text \in Id /\ v.edited \in BOOLEAN
BY DEF Version, TeamRow

LEMMA RowsFinite ==
  ASSUME NEW vs, NEW n, Rows(vs, Version, n) \/ Rows(vs, TeamRow, n)
  PROVE  IsFiniteSet(vs) /\ \A v \in vs : v.id \in Id /\ v.ver \in Nat
BY RowTypes, FiniteRows DEF Rows

\* The invariant, read as a statement about the two sets.
LEMMA Stored ==
  ASSUME IInv
  PROVE  /\ ids \in Nat /\ pr.text \in Id /\ pr.id \in Id
         /\ Rows(mine, Version, ids) /\ IsFiniteSet(mine) /\ \A v \in mine : v.ver \in Nat
         /\ Rows(team, TeamRow, ids) /\ IsFiniteSet(team) /\ \A v \in team : v.ver \in Nat
<1>1. Rows(mine, Version, ids) /\ Rows(team, TeamRow, ids)
  BY DEF IInv, TypeOK, Drawn, Rows
<1> QED
  BY <1>1, RowsFinite DEF IInv, TypeOK

\* A version with the next number is the newest, and has a number and a text of its own.
LEMMA SnapshotRows ==
  ASSUME NEW vs, NEW n \in Nat, Rows(vs, Version, n), NEW i \in Id, n < i, NEW t \in Id
  PROVE  /\ Rows(Snapshot(vs, i, t), Version, i)
         /\ vs \subseteq Snapshot(vs, i, t)
         /\ \E r \in Snapshot(vs, i, t) :
              /\ r.id = i /\ r.text = t /\ Snapshot(vs, i, t) = vs \cup {r}
              /\ \A v \in vs : v.ver < r.ver
<1> DEFINE r == [id |-> i, ver |-> NextVersion(vs), text |-> t]
<1>1. IsFiniteSet(vs) /\ \A v \in vs : v.ver \in Nat
  BY RowsFinite
<1>2. NextVersion(vs) \in Nat /\ \A v \in vs : v.ver < NextVersion(vs)
  BY <1>1, NextVersionAbove
<1>3. r \in Version /\ r.id = i /\ r.text = t /\ r.ver = NextVersion(vs)
  BY <1>2 DEF Version
<1>4. Snapshot(vs, i, t) = vs \cup {r}
  BY DEF Snapshot
<1> HIDE DEF r
<1>5. Rows(vs \cup {r}, Version, r.id)
  BY <1>3, AddRow, RowTypes
<1> QED
  BY <1>2, <1>3, <1>4, <1>5

\* The version a baseline compares with is one of the member's.
LEMMA ComparedIn ==
  ASSUME IInv, mine # {}
  PROVE  Compared \in mine
BY Stored, LatestIn DEF Compared, Has, Named

\* A baseline keeps every version, has one to point to, and holds the text that is there.
LEMMA BaselineRows ==
  ASSUME IInv, ids + BaselineDraws <= MaxId
  PROVE  /\ BaselineDraws \in {0, 1}
         /\ Rows(Baseline(New), Version, ids + BaselineDraws)
         /\ mine \subseteq Baseline(New)
         /\ BaselineCur(New) \in Id /\ Has(Baseline(New), BaselineCur(New))
         /\ pr.text \notin {0, draft} =>
              \E v \in Baseline(New) :
                v.text = pr.text /\ (v \in mine \/ \A w \in Baseline(New) : w.ver <= v.ver)
<1>1. CASE NeedsBaseline
  <2>1. /\ BaselineDraws = 1 /\ Baseline(New) = Snapshot(mine, New, pr.text)
        /\ BaselineCur(New) = New /\ New \in Id /\ ids < New /\ New = ids + 1
    BY <1>1, Stored DEF BaselineDraws, Baseline, BaselineCur, New
  <2>2. /\ Rows(Snapshot(mine, New, pr.text), Version, New)
        /\ mine \subseteq Snapshot(mine, New, pr.text)
    BY <2>1, Stored, SnapshotRows
  <2>3. PICK r \in Snapshot(mine, New, pr.text) :
          /\ r.id = New /\ r.text = pr.text /\ Snapshot(mine, New, pr.text) = mine \cup {r}
          /\ \A v \in mine : v.ver < r.ver
    BY <2>1, Stored, SnapshotRows
  <2>4. \A w \in mine \cup {r} : w.ver <= r.ver
    <3>1. \A w \in mine \cup {r} : w.ver \in Nat
      BY <2>2, <2>3, RowsFinite
    <3> QED
      BY <2>3, <3>1
  <2> QED
    BY <2>1, <2>2, <2>3, <2>4 DEF Has
<1>2. CASE ~NeedsBaseline
  <2>1. mine # {} /\ Compared \in mine /\ Compared.id \in Id
    BY <1>2, ComparedIn, Stored, RowsFinite DEF NeedsBaseline
  <2>2. /\ BaselineDraws = 0 /\ Baseline(New) = mine /\ BaselineCur(New) = Compared.id
    BY <1>2 DEF BaselineDraws, Baseline, BaselineCur
  <2>3. pr.text \notin {0, draft} => \E v \in mine : v.text = pr.text
    BY <1>2, <2>1 DEF NeedsBaseline, Differs, IInv, HistoryKept
  <2> QED
    BY <2>1, <2>2, <2>3, Stored DEF Has
<1> QED
  BY <1>1, <1>2

-----------------------------------------------------------------------------
(* What the parts of an action do                                          *)

\* The two conjuncts of PruneKeepsUserData, and the body of TextReachesHistory.
TeamKept == \A v \in team : ~Has(team', v.id) =>
  /\ ~v.edited /\ v.id # shown'
  /\ Cardinality(Newer(team', v)) >= Keep
MineKept == \A v \in mine : ~Has(mine', v.id) =>
  /\ v.id # pr'.cur
  /\ Cardinality(Newer(mine', v)) >= Keep
TextKept == pr.text \notin {0, draft} => \E v \in mine \cup mine' : v.text = pr.text

LEMMA PruneMineKeeps ==
  ASSUME NEW vs, NEW n, Rows(vs, Version, n), NEW i,
         NEW v \in vs, ~Has(PruneMine(vs, i), v.id)
  PROVE  v.id # i /\ Cardinality(Newer(PruneMine(vs, i), v)) >= Keep
<1>1. IsFiniteSet(vs) /\ \A w \in vs : w.ver \in Nat
  BY RowsFinite
<1>2. Newest(vs) \subseteq PruneMine(vs, i) /\ PruneMine(vs, i) \subseteq vs
  BY DEF PruneMine, Newest
<1>3. v \notin PruneMine(vs, i) /\ v.id # i
  BY DEF PruneMine, Has
<1> QED
  BY <1>1, <1>2, <1>3, PruneLeavesNewer

LEMMA PruneTeamKeeps ==
  ASSUME NEW vs, NEW n, Rows(vs, TeamRow, n), NEW i,
         NEW v \in vs, ~Has(PruneTeam(vs, i), v.id)
  PROVE  /\ ~v.edited /\ v.id # i
         /\ Cardinality(Newer(PruneTeam(vs, i), v)) >= Keep
<1>1. IsFiniteSet(vs) /\ \A w \in vs : w.ver \in Nat
  BY RowsFinite
<1>2. Newest(vs) \subseteq PruneTeam(vs, i) /\ PruneTeam(vs, i) \subseteq vs
  BY DEF PruneTeam, Newest
<1>3. v \notin PruneTeam(vs, i) /\ v.id # i /\ ~v.edited
  BY DEF PruneTeam, Has
<1> QED
  BY <1>1, <1>2, <1>3, PruneLeavesNewer

\* A new version after the ones that are there, and the pruning that follows it.
LEMMA SnapshotPruned ==
  ASSUME NEW vs, NEW n \in Nat, Rows(vs, Version, n), NEW i \in Id, n < i, NEW t \in Id,
         NEW kept, kept = PruneMine(Snapshot(vs, i, t), i)
  PROVE  /\ Rows(kept, Version, i)
         /\ \E r \in kept : r.id = i /\ r.text = t
         /\ \A v \in vs : ~Has(kept, v.id) =>
              v.id # i /\ Cardinality(Newer(kept, v)) >= Keep
         /\ \A v \in vs : (\A w \in vs : w.ver <= v.ver) => v \in kept
<1> DEFINE all == Snapshot(vs, i, t)
<1>1. Rows(all, Version, i) /\ vs \subseteq all
  BY SnapshotRows
<1>2. PICK r \in all : /\ r.id = i /\ r.text = t /\ all = vs \cup {r}
                       /\ \A v \in vs : v.ver < r.ver
  BY SnapshotRows
<1>3. kept \subseteq all /\ r \in kept /\ Newest(all) \subseteq kept
  BY <1>2 DEF PruneMine, Newest
<1>4. Rows(kept, Version, i)
  BY <1>1, <1>3, Subrows, RowTypes
<1>5. IsFiniteSet(all) /\ \A v \in all : v.ver \in Nat
  BY <1>1, RowsFinite
<1>6. ASSUME NEW v \in vs, \A w \in vs : w.ver <= v.ver PROVE v \in kept
  <2>1. \A w \in all : w.ver > v.ver => w = r
    BY <1>2, <1>5, <1>6
  <2>2. v \in Newest(all)
    BY <1>1, <1>5, <2>1, SecondIsNewest
  <2> QED
    BY <1>3, <2>2
<1>7. ASSUME NEW v \in vs, ~Has(kept, v.id)
      PROVE  v.id # i /\ Cardinality(Newer(kept, v)) >= Keep
  BY <1>1, <1>7, PruneMineKeeps
<1> QED
  BY <1>2, <1>3, <1>4, <1>6, <1>7

LEMMA NewVersionStep ==
  ASSUME IInv, New \in Id, NEW t \in Id, mine' = PruneMine(Snapshot(mine, New, t), New)
  PROVE  /\ Rows(mine', Version, New)
         /\ \E r \in mine' : r.id = New /\ r.text = t
         /\ \A v \in mine : ~Has(mine', v.id) =>
              v.id # New /\ Cardinality(Newer(mine', v)) >= Keep
<1>1. ids \in Nat /\ ids < New /\ Rows(mine, Version, ids)
  BY Stored DEF New
<1> QED
  BY <1>1, SnapshotPruned

LEMMA RewriteStep ==
  ASSUME IInv, Rewrite
  PROVE  /\ New \in Id /\ ids' \in Id /\ ids <= ids'
         /\ pr' = [pr EXCEPT !.text = New, !.edited = TRUE, !.cur = ids']
         /\ Rows(mine', Version, ids')
         /\ \E v \in mine' : v.id = ids' /\ v.text = New
         /\ MineKept /\ TextKept
<1> DEFINE i == ids + BaselineDraws + 1
<1>1. /\ mine' = PruneMine(Snapshot(Baseline(New), i, New), i)
      /\ pr' = [pr EXCEPT !.text = New, !.edited = TRUE, !.cur = i]
      /\ Draw(BaselineDraws + 1)
  BY DEF Rewrite
<1>2. BaselineDraws \in {0, 1} /\ ids \in Nat
  BY Stored DEF BaselineDraws
<1>3. i \in Id /\ ids' = i /\ ids + BaselineDraws \in Nat /\ ids + BaselineDraws < i
      /\ ids + BaselineDraws <= MaxId /\ New \in Id /\ ids <= i
  BY <1>1, <1>2 DEF Draw, New
<1> HIDE DEF i
<1>4. /\ Rows(Baseline(New), Version, ids + BaselineDraws) /\ mine \subseteq Baseline(New)
      /\ pr.text \notin {0, draft} =>
           \E v \in Baseline(New) :
             v.text = pr.text /\ (v \in mine \/ \A w \in Baseline(New) : w.ver <= v.ver)
  BY <1>3, BaselineRows
<1>5. /\ Rows(mine', Version, i)
      /\ \E r \in mine' : r.id = i /\ r.text = New
      /\ \A v \in Baseline(New) : ~Has(mine', v.id) =>
           v.id # i /\ Cardinality(Newer(mine', v)) >= Keep
      /\ \A v \in Baseline(New) : (\A w \in Baseline(New) : w.ver <= v.ver) => v \in mine'
  BY <1>1, <1>3, <1>4, SnapshotPruned
<1>6. pr'.cur = i
  BY <1>1 DEF IInv, TypeOK
<1>7. MineKept
  BY <1>4, <1>5, <1>6 DEF MineKept
<1>8. TextKept
  BY <1>4, <1>5 DEF TextKept
<1> QED
  BY <1>1, <1>3, <1>5, <1>7, <1>8

LEMMA BaselineStep ==
  ASSUME IInv, mine' = Baseline(New), Draw(BaselineDraws)
  PROVE  /\ ids' \in Id /\ ids <= ids'
         /\ Rows(mine', Version, ids')
         /\ BaselineCur(New) \in Id /\ Has(mine', BaselineCur(New))
         /\ mine \subseteq mine' /\ MineKept /\ TextKept
<1>1. BaselineDraws \in {0, 1} /\ ids \in Nat
  BY Stored DEF BaselineDraws
<1>2. ids' = ids + BaselineDraws /\ ids' \in Id /\ ids <= ids' /\ ids + BaselineDraws <= MaxId
  BY <1>1 DEF Draw
<1> QED
  BY <1>2, BaselineRows DEF MineKept, TextKept, Has

\* A new team row is shown and stays; what goes is old, unedited and not shown.
LEMMA AddTeamStep ==
  ASSUME IInv, NEW t \in Id, AddTeamVersion(t)
  PROVE  /\ ids' \in Id /\ ids <= ids' /\ shown' \in Id
         /\ Rows(team', TeamRow, ids')
         /\ team' # {} /\ TeamKept
<1> DEFINE i == ids + 1
           r == [id |-> i, ver |-> NextVersion(team), text |-> t, edited |-> FALSE]
           all == team \cup {r}
<1>1. ids' = i /\ i \in Id /\ ids < i /\ shown' = i /\ team' = PruneTeam(all, i) /\ ids \in Nat
  BY Stored DEF AddTeamVersion, Draw
<1>2. NextVersion(team) \in Nat
  BY Stored, NextVersionAbove
<1>3. r \in TeamRow /\ r.id = i
  BY <1>1, <1>2 DEF TeamRow
<1> HIDE DEF r, i
<1>4. Rows(all, TeamRow, i)
  BY <1>1, <1>3, Stored, AddRow, RowTypes
<1>5. team' \subseteq all /\ r \in team'
  BY <1>1, <1>3 DEF PruneTeam
<1>6. Rows(team', TeamRow, i)
  <2>1. team' \subseteq all /\ i \in Nat /\ i <= i
    BY <1>1, <1>5
  <2> HIDE DEF all
  <2> QED
    BY <1>4, <2>1, Subrows, RowTypes
<1>7. ASSUME NEW v \in team, ~Has(team', v.id)
      PROVE  /\ ~v.edited /\ v.id # shown'
             /\ Cardinality(Newer(team', v)) >= Keep
  <2>1. v \in all
    OBVIOUS
  <2> HIDE DEF all
  <2> QED
    BY <1>1, <1>4, <1>7, <2>1, PruneTeamKeeps
<1>8. TeamKept
  BY <1>7 DEF TeamKept
<1>9. ids' \in Id /\ ids <= ids' /\ shown' \in Id /\ ids' = i
  BY <1>1
<1> QED
  BY <1>5, <1>6, <1>8, <1>9

\* A text written in place changes no row's number.
LEMMA InPlace ==
  ASSUME IInv, NEW i, NEW t \in Id,
         team' = WithText(i, t),
         NEW n \in Id, ids <= n
  PROVE  Rows(team', TeamRow, n) /\ (team' = {} <=> team = {}) /\ TeamKept
<1> DEFINE f(v) == IF v.id = i THEN [v EXCEPT !.text = t, !.edited = TRUE] ELSE v
<1>1. \A v \in team : f(v) \in TeamRow /\ f(v).id = v.id
  BY DEF IInv, TypeOK, TeamRow
<1>2. \A v, w \in team : f(v).id = f(w).id => f(v) = f(w)
  BY <1>1 DEF IInv, Unique
<1>3. team' = {f(v) : v \in team}
  BY DEF WithText
<1>4. \A v \in team : v.id <= n
  BY RowTypes, Transitive DEF IInv, TypeOK, Drawn
<1> HIDE DEF f
<1>5. Rows(team', TeamRow, n)
  <2>1. \A x \in team' : \E v \in team : x = f(v)
    BY <1>3
  <2>2. \A x \in team' : x \in TeamRow /\ x.id <= n
    BY <1>1, <1>4, <2>1
  <2>3. Unique(team')
    BY <1>2, <2>1 DEF Unique
  <2> QED
    BY <2>2, <2>3 DEF Rows
<1>6. \A v \in team : Has(team', v.id)
  BY <1>1, <1>3 DEF Has
<1> QED
  BY <1>3, <1>5, <1>6 DEF TeamKept

LEMMA PublishStep ==
  ASSUME IInv, NEW t \in Id, Publish(t), ids' \in Id, ids <= ids'
  PROVE  /\ status' \in Status
         /\ Rows(team', TeamRow, ids') /\ (team' = {} <=> team = {}) /\ TeamKept
<1>1. CASE multi
  <2>1. team' = team /\ status' \in Status
    BY <1>1 DEF Publish, Revive, IInv, TypeOK
  <2> QED
    BY <2>1, Stored, Subrows, RowTypes DEF TeamKept, Has
<1>2. CASE ~multi
  <2>1. team' = SyncDisplay(t) /\ status' = status
    BY <1>2 DEF Publish
  <2> QED
    BY <2>1, InPlace DEF SyncDisplay, IInv, TypeOK
<1> QED
  BY <1>1, <1>2

-----------------------------------------------------------------------------
(* Requests are typed                                                      *)

LEMMA DisplayedIn ==
  ASSUME IInv, CanDisplay
  PROVE  Displayed \in team /\ Displayed.id \in Id
<1>1. Displayed \in team
  BY Stored, LatestIn DEF Displayed, CanDisplay, Has, Named
<1> QED
  BY <1>1, RowTypes DEF IInv, TypeOK

LEMMA CurrentVersionType ==
  ASSUME IInv
  PROVE  CurrentVersion \in Nat
<1>1. NextVersion(mine) \in Nat \ {0}
  BY Stored, NextVersionAbove
<1>2. Has(mine, pr.cur) => Named(mine, pr.cur) \in mine
  BY DEF Has, Named
<1> QED
  BY <1>1, <1>2, Stored DEF CurrentVersion

LEMMA ArrivingType ==
  ASSUME IInv
  PROVE  Arriving \subseteq Request
<1>1. TeamRequests \subseteq Request
  <2>1. CASE status # "Completed" \/ ~CanDisplay
    BY <2>1 DEF TeamRequests
  <2>2. CASE CanDisplay /\ status = "Completed"
    <3>1. Displayed.id \in Id /\ pr.id \in Id /\ \A v \in team : v.id \in Id
      BY <2>2, DisplayedIn, Stored, RowsFinite
    <3> QED
      BY <2>2, <3>1 DEF TeamRequests, Request
  <2> QED
    BY <2>1, <2>2
<1>2. MyRequests \subseteq Request
  <2>1. pr.id \in Id /\ CurrentVersion \in Nat /\ \A v \in mine : v.id \in Id
    BY CurrentVersionType, Stored, RowsFinite
  <2>2. Read \in Base
    BY DEF IInv, TypeOK, Read, Base
  <2>3. {[op |-> "edit", base |-> Read],
         [op |-> "refine", id |-> pr.id, ver |-> CurrentVersion],
         [op |-> "regenerate", id |-> pr.id]}
          \cup {[op |-> "restore", base |-> Read, source |-> v.id] : v \in mine} \subseteq Request
    BY <2>1, <2>2 DEF Request
  <2> QED
    BY <2>3 DEF MyRequests
<1>3. UnsubmittedRequests \subseteq Request
  BY Stored DEF UnsubmittedRequests, Request
<1> QED
  BY <1>1, <1>2, <1>3 DEF Arriving

\* A request that reaches its transaction carries what it read.
LEMMA AskedType ==
  ASSUME IInv, NEW op, NEW q \in Asked(op)
  PROVE  q \in Request /\ q.op = op
BY ArrivingType DEF Asked, IInv, TypeOK

LEMMA AnswerType ==
  ASSUME IInv, NEW q, Answer(q)
  PROVE  req' \in [Client -> Request] /\ multi' = multi /\ run' = run
<1>1. Idle \in Request
  BY DEF Idle, Request
<1> QED
  BY <1>1 DEF Answer, IInv, TypeOK

-----------------------------------------------------------------------------
(* The steps                                                               *)

\* What every step does.
Step ==
  /\ IInv' /\ TeamKept /\ MineKept
  /\ (pr'.text # pr.text /\ run' = run /\ ~EditSummary) => TextKept

LEMMA Closed ==
  ASSUME IInv, multi' = multi, status' \in Status, shown' \in Pointer, pr' \in PersonalRow,
         ids' \in Id, draft' \in Id, req' \in [Client -> Request], run' \in [Run -> InFlight],
         Rows(mine', Version, ids'), Rows(team', TeamRow, ids'),
         pr'.cur # None => Has(mine', pr'.cur),
         ((team' = {} \/ ~pr'.edited) /\ pr'.text \notin {0, draft'}) =>
            \E v \in mine' : v.text = pr'.text
  PROVE  IInv'
BY DEF IInv, TypeOK, Rows, Drawn, Unique, CurrentVersionExists, HistoryKept

LEMMA SameNumber == \A n \in Id : n <= n
OBVIOUS

LEMMA MineStays ==
  ASSUME IInv, mine' = mine, ids' \in Id, ids <= ids'
  PROVE  Rows(mine', Version, ids') /\ MineKept
BY Stored, Subrows, RowTypes DEF MineKept, Has

LEMMA TeamStays ==
  ASSUME IInv, team' = team, ids' \in Id, ids <= ids'
  PROVE  Rows(team', TeamRow, ids') /\ TeamKept
BY Stored, Subrows, RowTypes DEF TeamKept, Has

\* Steps that write neither rows nor texts.
LEMMA QuietStep ==
  ASSUME IInv, UNCHANGED <<multi, team, shown, mine, pr, draft, ids>>, status' \in Status,
         req' \in [Client -> Request], run' \in [Run -> InFlight]
  PROVE  Step
<1>1. ids' = ids /\ ids' \in Id /\ ids <= ids'
  <2>1. ids' = ids
    OBVIOUS
  <2> QED
    BY <2>1, SameNumber DEF IInv, TypeOK
<1>2. Rows(mine', Version, ids') /\ MineKept /\ Rows(team', TeamRow, ids') /\ TeamKept
  BY <1>1, MineStays, TeamStays
<1>3. IInv'
  BY <1>2, Closed DEF IInv, TypeOK, CurrentVersionExists, HistoryKept
<1> QED
  BY <1>2, <1>3 DEF Step

LEMMA EditSummaryStep ==
  ASSUME IInv, EditSummary
  PROVE  Step
<1>1. PICK q \in Asked("editTeam") :
        /\ Answer(q) /\ Has(team, q.row) /\ team' = WithText(q.row, New)
        /\ pr' = IF ~multi /\ pr.id = q.id
                  THEN [pr EXCEPT !.text = New, !.edited = TRUE] ELSE pr
        /\ Draw(1) /\ UNCHANGED <<status, shown, mine, draft>>
  BY DEF EditSummary
<1>2. ids' \in Id /\ ids <= ids' /\ New \in Id
  BY <1>1, Stored DEF Draw, New
<1>3. Rows(team', TeamRow, ids') /\ (team' = {} <=> team = {}) /\ TeamKept
  BY <1>1, <1>2, InPlace
<1>4. team' # {}
  BY <1>1, <1>3 DEF Has
<1>5. Rows(mine', Version, ids') /\ MineKept
  BY <1>1, <1>2, MineStays
<1>6. pr' \in PersonalRow /\ pr'.cur = pr.cur /\ (pr'.edited \/ pr' = pr)
  BY <1>1, <1>2 DEF IInv, TypeOK
<1>7. req' \in [Client -> Request] /\ multi' = multi /\ run' = run
  BY <1>1, AnswerType
<1>8. (~pr'.edited /\ pr'.text \notin {0, draft'}) => \E v \in mine' : v.text = pr'.text
  BY <1>1, <1>6 DEF IInv, HistoryKept
<1>9. pr'.cur # None => Has(mine', pr'.cur)
  BY <1>1, <1>6 DEF IInv, CurrentVersionExists
<1>10. IInv'
  <2>1. status' \in Status /\ shown' \in Pointer /\ draft' \in Id /\ run' \in [Run -> InFlight]
    BY <1>1, <1>7 DEF IInv, TypeOK
  <2> QED
    BY <1>2, <1>3, <1>4, <1>5, <1>6, <1>7, <1>8, <1>9, <2>1, Closed
<1> QED
  BY <1>3, <1>5, <1>10 DEF Step

\* A new team row, with no change to the personal side.
LEMMA AddTeamVersionStep ==
  ASSUME IInv, NEW t \in Id, AddTeamVersion(t), UNCHANGED <<multi, mine, pr, draft>>,
         status' \in Status, req' \in [Client -> Request], run' \in [Run -> InFlight]
  PROVE  Step
<1>1. ids' \in Id /\ ids <= ids' /\ shown' \in Id
      /\ Rows(team', TeamRow, ids') /\ team' # {} /\ TeamKept
  BY AddTeamStep
<1>2. Rows(mine', Version, ids') /\ MineKept
  BY <1>1, MineStays
<1>3. IInv'
  BY <1>1, <1>2, Closed DEF IInv, TypeOK, CurrentVersionExists, HistoryKept
<1> QED
  BY <1>1, <1>2, <1>3 DEF Step

\* PersonalEdit and RefinePersonalSummary after their checks.
LEMMA RewriteAndPublish ==
  ASSUME IInv, Rewrite, Publish(New), UNCHANGED <<multi, shown, draft, run>>,
         req' \in [Client -> Request]
  PROVE  Step
<1>1. /\ New \in Id /\ ids' \in Id /\ ids <= ids'
      /\ pr' = [pr EXCEPT !.text = New, !.edited = TRUE, !.cur = ids']
      /\ Rows(mine', Version, ids')
      /\ \E v \in mine' : v.id = ids' /\ v.text = New
      /\ MineKept /\ TextKept
  BY RewriteStep
<1>2. status' \in Status /\ Rows(team', TeamRow, ids') /\ TeamKept
  BY <1>1, PublishStep
<1>3. pr' \in PersonalRow /\ pr'.cur = ids' /\ pr'.text = New
  BY <1>1 DEF IInv, TypeOK
<1>4. Has(mine', pr'.cur) /\ \E v \in mine' : v.text = pr'.text
  BY <1>1, <1>3 DEF Has
<1>5. shown' \in Pointer /\ draft' \in Id /\ run' \in [Run -> InFlight]
  BY DEF IInv, TypeOK
<1>6. IInv'
  BY <1>1, <1>2, <1>3, <1>4, <1>5, Closed
<1> QED
  BY <1>1, <1>2, <1>6 DEF Step

LEMMA PersonalDraftStep ==
  ASSUME IInv, PersonalDraft
  PROVE  Step
<1>1. PICK q \in Asked("draft") :
        /\ Answer(q) /\ team = {} /\ pr' = [pr EXCEPT !.text = New] /\ draft' = New
        /\ Draw(1) /\ UNCHANGED <<status, team, shown, mine>>
        /\ pr.ws = "Completed" /\ ~pr.sub
  BY DEF PersonalDraft
<1>2. ids' \in Id /\ ids <= ids' /\ New \in Id
  BY <1>1, Stored DEF Draw, New
<1>3. pr' \in PersonalRow /\ pr'.cur = pr.cur /\ pr'.text = draft'
  BY <1>1, <1>2 DEF IInv, TypeOK
<1>4. req' \in [Client -> Request] /\ multi' = multi /\ run' = run
  BY <1>1, AnswerType
<1>5. Rows(mine', Version, ids') /\ MineKept /\ Rows(team', TeamRow, ids') /\ TeamKept
  BY <1>1, <1>2, MineStays, TeamStays
<1>6. pr'.cur # None => Has(mine', pr'.cur)
  BY <1>1, <1>3 DEF IInv, CurrentVersionExists
<1>7. status' \in Status /\ shown' \in Pointer /\ draft' \in Id /\ run' \in [Run -> InFlight]
  BY <1>1, <1>2, <1>4 DEF IInv, TypeOK
<1>8. IInv'
  BY <1>2, <1>3, <1>4, <1>5, <1>6, <1>7, Closed
<1>9. TextKept
  BY <1>1 DEF TextKept, IInv, HistoryKept
<1> QED
  BY <1>5, <1>8, <1>9 DEF Step

LEMMA SubmitStep ==
  ASSUME IInv, Submit
  PROVE  Step
<1>1. PICK q \in Asked("submit") :
        /\ Answer(q) /\ pr' = [pr EXCEPT !.sub = TRUE] /\ status' = Revive(status)
        /\ UNCHANGED <<team, shown, mine, draft, ids>>
  BY DEF Submit
<1>2. pr' \in PersonalRow /\ pr'.cur = pr.cur /\ pr'.text = pr.text /\ pr'.edited = pr.edited
  BY <1>1 DEF IInv, TypeOK
<1>3. req' \in [Client -> Request] /\ multi' = multi /\ run' = run
  BY <1>1, AnswerType
<1>4. ids' \in Id /\ ids <= ids' /\ status' \in Status
  BY <1>1 DEF IInv, TypeOK, Revive
<1>5. Rows(mine', Version, ids') /\ MineKept /\ Rows(team', TeamRow, ids') /\ TeamKept
  BY <1>1, <1>4, MineStays, TeamStays
<1>6. IInv'
  BY <1>1, <1>2, <1>3, <1>4, <1>5, Closed DEF IInv, TypeOK, CurrentVersionExists, HistoryKept
<1> QED
  BY <1>2, <1>5, <1>6 DEF Step

LEMMA RestorePersonalStep ==
  ASSUME IInv, RestorePersonalVersion
  PROVE  Step
<1>1. PICK q \in Asked("restore") :
        /\ Answer(q) /\ SourceExists(q.source) /\ mine' = Baseline(New)
        /\ LET t == IF Has(mine, q.source) THEN Named(mine, q.source).text ELSE 0
           IN  /\ pr' = [pr EXCEPT !.ws = "Completed", !.text = t, !.edited = TRUE,
                                   !.cur = q.source]
               /\ Publish(t)
        /\ Draw(BaselineDraws) /\ UNCHANGED <<shown, draft>>
  BY DEF RestorePersonalVersion
<1> DEFINE v == Named(mine, q.source)
<1>2. v \in mine /\ v.id = q.source /\ v.text \in Id /\ v.id \in Id
  <2>1. Has(mine, q.source)
    BY <1>1 DEF SourceExists
  <2>2. v \in mine /\ v.id = q.source
    BY <2>1 DEF Has, Named
  <2> QED
    BY <2>2, RowTypes DEF IInv, TypeOK
<1>3. /\ pr' = [pr EXCEPT !.ws = "Completed", !.text = v.text, !.edited = TRUE, !.cur = v.id]
      /\ Publish(v.text)
  BY <1>1, <1>2 DEF SourceExists
<1> HIDE DEF v
<1>4. /\ ids' \in Id /\ ids <= ids' /\ Rows(mine', Version, ids')
      /\ mine \subseteq mine' /\ MineKept /\ TextKept
  BY <1>1, BaselineStep
<1>5. pr' \in PersonalRow /\ pr'.cur = v.id /\ pr'.text = v.text
  BY <1>2, <1>3 DEF IInv, TypeOK
<1>6. Has(mine', pr'.cur) /\ \E w \in mine' : w.text = pr'.text
  BY <1>2, <1>4, <1>5 DEF Has
<1>7. status' \in Status /\ Rows(team', TeamRow, ids') /\ TeamKept
  BY <1>2, <1>3, <1>4, PublishStep
<1>8. req' \in [Client -> Request] /\ multi' = multi /\ run' = run
  BY <1>1, AnswerType
<1>9. shown' \in Pointer /\ draft' \in Id /\ run' \in [Run -> InFlight]
  BY <1>1, <1>8 DEF IInv, TypeOK
<1>10. IInv'
  BY <1>4, <1>5, <1>6, <1>7, <1>8, <1>9, Closed
<1> QED
  BY <1>4, <1>7, <1>10 DEF Step

LEMMA ClearedType ==
  ASSUME IInv, NEW cur \in Pointer
  PROVE  Cleared(cur) \in PersonalRow /\ Cleared(cur).cur = cur /\ Cleared(cur).text = 0
<1>1. 0 \in Id /\ pr \in PersonalRow
  BY DEF IInv, TypeOK
<1> HIDE DEF Id, Pointer
<1> QED
  BY <1>1 DEF Cleared

\* RegeneratePersonalSummary, and Regenerate of a text that is there.
LEMMA ClearStep ==
  ASSUME IInv, mine' = Baseline(New), pr' = Cleared(BaselineCur(New)), Draw(BaselineDraws),
         UNCHANGED <<multi, team, shown, draft, run>>,
         status' \in Status, req' \in [Client -> Request]
  PROVE  Step
<1>1. /\ ids' \in Id /\ ids <= ids' /\ Rows(mine', Version, ids')
      /\ BaselineCur(New) \in Id /\ Has(mine', BaselineCur(New)) /\ MineKept /\ TextKept
  BY BaselineStep
<1>2. pr' \in PersonalRow /\ pr'.cur = BaselineCur(New) /\ pr'.text = 0
  BY <1>1, ClearedType
<1>3. Rows(team', TeamRow, ids') /\ TeamKept
  BY <1>1, TeamStays
<1>4. shown' \in Pointer /\ draft' \in Id /\ run' \in [Run -> InFlight]
  BY DEF IInv, TypeOK
<1>5. IInv'
  BY <1>1, <1>2, <1>3, <1>4, Closed
<1> QED
  BY <1>1, <1>3, <1>5 DEF Step

LEMMA RegenerateStep ==
  ASSUME IInv, Regenerate
  PROVE  Step
<1>1. status' \in Status /\ req' \in [Client -> Request]
      /\ UNCHANGED <<multi, team, shown, draft, run>>
  BY DEF Regenerate, IInv, TypeOK
<1>2. CASE pr.text # 0 /\ mine' = Baseline(New) /\ pr' = Cleared(BaselineCur(New))
           /\ Draw(BaselineDraws)
  BY <1>1, <1>2, ClearStep
<1>3. CASE pr.text = 0 /\ pr' = Cleared(pr.cur) /\ UNCHANGED <<mine, ids>>
  <2>1. pr' \in PersonalRow /\ pr'.cur = pr.cur /\ pr'.text = 0
    BY <1>3, ClearedType DEF IInv, TypeOK
  <2>2. ids' \in Id /\ ids <= ids'
    BY <1>3 DEF IInv, TypeOK
  <2>3. Rows(mine', Version, ids') /\ MineKept /\ Rows(team', TeamRow, ids') /\ TeamKept
    BY <1>1, <1>3, <2>2, MineStays, TeamStays
  <2>4. IInv'
    BY <1>1, <1>3, <2>1, <2>2, <2>3, Closed DEF IInv, TypeOK, CurrentVersionExists
  <2> QED
    BY <1>3, <2>1, <2>3, <2>4 DEF Step
<1> QED
  BY <1>2, <1>3 DEF Regenerate

\* The new row points nowhere, so that only what is old may be pruned.
LEMMA RequeueStep ==
  ASSUME IInv, Requeue
  PROVE  Step
<1>1. /\ status' \in Status /\ req' \in [Client -> Request]
      /\ UNCHANGED <<multi, team, shown, draft, run>>
  BY DEF Requeue, IInv, TypeOK
<1>2. New \in Id /\ ids < New /\ ids' = New /\ ids <= ids' /\ ids \in Nat
  BY Stored DEF Requeue, Draw, New
<1>3. pr' \in PersonalRow /\ pr'.cur = None /\ pr'.text = 0
  <2>1. Started \in PersonalRow /\ Started.cur = None /\ Started.text = 0
    BY DEF Started
  <2> QED
    BY <1>2, <2>1 DEF Requeue
<1>4. Rows(mine', Version, ids') /\ MineKept /\ TextKept
  <2>1. CASE pr.text = 0 \/ (mine # {} /\ Latest(mine).text = pr.text)
    <3>1. mine' = mine
      BY <2>1 DEF Requeue
    <3>2. mine # {} => Latest(mine) \in mine
      BY Stored, LatestIn
    <3>3. TextKept
      BY <2>1, <3>1, <3>2 DEF TextKept
    <3> QED
      BY <1>2, <3>1, <3>3, MineStays
  <2>2. CASE ~(pr.text = 0 \/ (mine # {} /\ Latest(mine).text = pr.text))
    <3>1. mine' = PruneMine(Snapshot(mine, New, pr.text), New)
      BY <2>2 DEF Requeue
    <3>2. /\ Rows(mine', Version, New)
          /\ \E r \in mine' : r.id = New /\ r.text = pr.text
          /\ \A v \in mine : ~Has(mine', v.id) =>
               v.id # New /\ Cardinality(Newer(mine', v)) >= Keep
      BY <1>2, <3>1, Stored, NewVersionStep
    <3>3. \A v \in mine : v.id # pr'.cur
      BY <1>3, Stored, RowsFinite
    <3> QED
      BY <1>2, <3>2, <3>3 DEF MineKept, TextKept
  <2> QED
    BY <2>1, <2>2
<1>5. Rows(team', TeamRow, ids') /\ TeamKept
  BY <1>1, <1>2, TeamStays
<1>6. shown' \in Pointer /\ draft' \in Id /\ run' \in [Run -> InFlight]
  BY <1>1 DEF IInv, TypeOK
<1>7. IInv'
  BY <1>1, <1>2, <1>3, <1>4, <1>5, <1>6, Closed
<1> QED
  BY <1>4, <1>5, <1>7 DEF Step

LEMMA PersistNewStep ==
  ASSUME IInv, NEW r \in Run, PersistNew(r)
  PROVE  Step
<1>1. New \in Id /\ ids < New /\ ids' = New /\ ids <= ids' /\ ids \in Nat
  BY Stored DEF PersistNew, Draw, New
<1>2. /\ mine' = PruneMine(Snapshot(mine, New, New), New)
      /\ pr' = [pr EXCEPT !.ws = "Completed", !.text = New, !.cur = New]
      /\ run' = [run EXCEPT ![r] = [pc |-> "complete", row |-> pr.id, text |-> New]]
      /\ run[r].pc = "work" /\ UNCHANGED <<multi, status, team, shown, req, draft>>
  BY DEF PersistNew, New
<1>3. /\ Rows(mine', Version, New)
      /\ \E v \in mine' : v.id = New /\ v.text = New
      /\ \A v \in mine : ~Has(mine', v.id) =>
           v.id # New /\ Cardinality(Newer(mine', v)) >= Keep
  BY <1>1, <1>2, NewVersionStep
<1>4. pr' \in PersonalRow /\ pr'.cur = New /\ pr'.text = New
  BY <1>1, <1>2 DEF IInv, TypeOK
<1>5. MineKept
  BY <1>3, <1>4 DEF MineKept
<1>6. Rows(team', TeamRow, ids') /\ TeamKept
  BY <1>1, <1>2, TeamStays
<1>7. run' \in [Run -> InFlight] /\ run' # run
  <2>1. pr.id \in Id /\ run \in [Run -> InFlight]
    BY DEF IInv, TypeOK
  <2>2. [pc |-> "complete", row |-> pr.id, text |-> New] \in InFlight
    BY <1>1, <2>1 DEF InFlight
  <2>3. run'[r].pc = "complete"
    BY <1>2, <2>1
  <2> QED
    BY <1>2, <2>1, <2>2, <2>3
<1>8. /\ Has(mine', pr'.cur) /\ \E v \in mine' : v.text = pr'.text
  BY <1>3, <1>4 DEF Has
<1>9. /\ status' \in Status /\ shown' \in Pointer /\ draft' \in Id /\ req' \in [Client -> Request]
      /\ multi' = multi
  BY <1>2 DEF IInv, TypeOK
<1>10. IInv'
  BY <1>1, <1>3, <1>4, <1>6, <1>7, <1>8, <1>9, Closed
<1> QED
  BY <1>5, <1>6, <1>7, <1>10 DEF Step

\* A row that shows one of the versions, or what it showed, with another worker_status.
LEMMA ShowStep ==
  ASSUME IInv, NEW ws \in {"Completed", "Failed"},
         \/ pr' = [pr EXCEPT !.ws = ws]
         \/ \E v \in mine : pr' = [pr EXCEPT !.ws = ws, !.text = v.text, !.cur = v.id],
         UNCHANGED <<multi, team, shown, mine, ids, draft, req>>,
         status' \in Status, run' \in [Run -> InFlight], run' # run
  PROVE  Step
<1>1. ids' = ids /\ ids' \in Id /\ ids <= ids'
  <2>1. ids' = ids
    OBVIOUS
  <2> QED
    BY <2>1, SameNumber DEF IInv, TypeOK
<1>2. Rows(mine', Version, ids') /\ MineKept /\ Rows(team', TeamRow, ids') /\ TeamKept
  BY <1>1, MineStays, TeamStays
<1>3. /\ pr' \in PersonalRow
      /\ pr'.cur # None => Has(mine', pr'.cur)
      /\ ((team' = {} \/ ~pr'.edited) /\ pr'.text \notin {0, draft'}) =>
           \E v \in mine' : v.text = pr'.text
  <2>1. CASE pr' = [pr EXCEPT !.ws = ws]
    <3>1. pr' \in PersonalRow /\ pr'.cur = pr.cur /\ pr'.text = pr.text /\ pr'.edited = pr.edited
      BY <2>1 DEF IInv, TypeOK
    <3> QED
      BY <3>1 DEF IInv, CurrentVersionExists, HistoryKept
  <2>2. ASSUME NEW v \in mine, pr' = [pr EXCEPT !.ws = ws, !.text = v.text, !.cur = v.id]
        PROVE  pr' \in PersonalRow /\ pr'.cur = v.id /\ pr'.text = v.text
    <3>1. v.id \in Id /\ v.text \in Id
      BY RowTypes DEF IInv, TypeOK
    <3> QED
      BY <2>2, <3>1 DEF IInv, TypeOK
  <2> QED
    BY <2>1, <2>2 DEF Has
<1>4. shown' \in Pointer /\ draft' \in Id /\ req' \in [Client -> Request]
  BY DEF IInv, TypeOK
<1>5. IInv'
  BY <1>1, <1>2, <1>3, <1>4, Closed
<1> QED
  BY <1>2, <1>5 DEF Step

\* A run that ends, or goes on to complete, leaves the state it was in.
LEMMA RunMoves ==
  ASSUME IInv, NEW r \in Run, run[r].pc # "none",
         \/ EndRun(r)
         \/ run[r].pc = "work" /\ run' = [run EXCEPT ![r] = [pc |-> "complete", row |-> pr.id, text |-> None]]
  PROVE  run' \in [Run -> InFlight] /\ run' # run
<1>1. run \in [Run -> InFlight] /\ pr.id \in Id
  BY DEF IInv, TypeOK
<1>2. CASE EndRun(r)
  <2>1. NoRun \in InFlight /\ NoRun.pc = "none"
    BY DEF NoRun, InFlight
  <2>2. run' \in [Run -> InFlight] /\ run'[r] = NoRun
    BY <1>1, <1>2, <2>1 DEF EndRun
  <2> QED
    BY <2>1, <2>2
<1>3. CASE run[r].pc = "work"
           /\ run' = [run EXCEPT ![r] = [pc |-> "complete", row |-> pr.id, text |-> None]]
  <2>1. [pc |-> "complete", row |-> pr.id, text |-> None] \in InFlight
    BY <1>1 DEF InFlight
  <2>2. run' \in [Run -> InFlight] /\ run'[r].pc = "complete"
    BY <1>1, <1>3, <2>1
  <2> QED
    BY <1>3, <2>2
<1> QED
  BY <1>2, <1>3

LEMMA PersistNothingStep ==
  ASSUME IInv, NEW r \in Run, PersistNothing(r)
  PROVE  Step
<1>1. run' \in [Run -> InFlight] /\ run' # run
  BY RunMoves DEF PersistNothing
<1>2. mine # {} => Latest(mine) \in mine
  BY Stored, LatestIn
<1>3. \/ pr' = [pr EXCEPT !.ws = "Completed"]
      \/ \E v \in mine : pr' = [pr EXCEPT !.ws = "Completed", !.text = v.text, !.cur = v.id]
  BY <1>2 DEF PersistNothing
<1>4. status' \in Status /\ UNCHANGED <<multi, team, shown, mine, ids, draft, req>>
  BY DEF PersistNothing, IInv, TypeOK
<1> QED
  BY <1>1, <1>3, <1>4, ShowStep

LEMMA FailRunStep ==
  ASSUME IInv, NEW r \in Run, FailRun(r)
  PROVE  Step
<1>1. run' \in [Run -> InFlight] /\ run' # run
  BY RunMoves DEF FailRun
<1> DEFINE known == IF run[r].cur # None THEN {v \in mine : v.id = run[r].cur} ELSE mine
<1>2. known \subseteq mine
  OBVIOUS
<1>3. known # {} => Latest(known) \in known
  <2>1. IsFiniteSet(known) /\ \A v \in known : v.ver \in Nat
    BY <1>2, Stored, FS_Subset
  <2> HIDE DEF known
  <2> QED
    BY <2>1, LatestIn
<1>4. pr' = IF known = {} THEN [pr EXCEPT !.ws = "Failed"]
            ELSE [pr EXCEPT !.ws = "Failed", !.text = Latest(known).text, !.cur = Latest(known).id]
  BY DEF FailRun
<1>5. \/ pr' = [pr EXCEPT !.ws = "Failed"]
      \/ \E v \in mine : pr' = [pr EXCEPT !.ws = "Failed", !.text = v.text, !.cur = v.id]
  <2> HIDE DEF known
  <2> QED
    BY <1>2, <1>3, <1>4
<1>6. status' \in Status /\ UNCHANGED <<multi, team, shown, mine, ids, draft, req>>
  BY DEF FailRun, IInv, TypeOK
<1> QED
  BY <1>1, <1>5, <1>6, ShowStep

LEMMA CompleteStep ==
  ASSUME IInv, NEW r \in Run, Complete(r)
  PROVE  Step
<1>1. run[r].pc = "complete" /\ run' \in [Run -> InFlight] /\ run' # run
  BY RunMoves DEF Complete
<1>2. status' \in Status /\ req' \in [Client -> Request] /\ UNCHANGED <<multi, mine, pr, draft>>
  BY DEF Complete, IInv, TypeOK
<1>3. CASE IsNew(run[r].text) /\ AddTeamVersion(run[r].text)
  <2>1. run[r].text \in Id
    <3>1. run[r] \in InFlight
      BY DEF IInv, TypeOK
    <3> QED
      BY <1>1, <1>3, <3>1 DEF InFlight, IsNew
  <2> QED
    BY <1>1, <1>2, <1>3, <2>1, AddTeamVersionStep
<1>4. CASE UNCHANGED <<team, shown, ids>>
  BY <1>1, <1>2, <1>4, QuietStep
<1> QED
  BY <1>3, <1>4 DEF Complete

\* Every step of the specification keeps the invariant, and prunes and replaces as it should.
LEMMA NextStep ==
  ASSUME IInv, Next
  PROVE  Step
<1> USE DEF rows
<1>1. ASSUME NEW c \in Client, Begin(c) PROVE Step
  <2>1. PICK q \in Arriving : req' = [req EXCEPT ![c] = q]
    BY <1>1 DEF Begin
  <2>2. req' \in [Client -> Request]
    BY <2>1, ArrivingType DEF IInv, TypeOK
  <2> QED
    BY <1>1, <2>2, QuietStep DEF Begin, IInv, TypeOK
<1>2. ASSUME NEW c \in Client, Refuse(c) PROVE Step
  <2>1. req' \in [Client -> Request]
    BY <1>2 DEF Refuse, Idle, Request, IInv, TypeOK
  <2> QED
    BY <1>2, <2>1, QuietStep DEF Refuse, IInv, TypeOK
<1>3. CASE EditSummary
  BY <1>3, EditSummaryStep
<1>4. CASE RefineSummary
  <2>1. PICK q \in Asked("refineTeam") :
          Answer(q) /\ AddTeamVersion(New) /\ UNCHANGED <<status, mine, pr, draft>>
    BY <1>4 DEF RefineSummary
  <2>2. req' \in [Client -> Request] /\ multi' = multi /\ run' = run
    BY <2>1, AnswerType
  <2>3. New \in Id
    BY <2>1, Stored DEF AddTeamVersion, Draw, New
  <2> QED
    BY <2>1, <2>2, <2>3, AddTeamVersionStep DEF IInv, TypeOK
<1>5. CASE RestoreSummaryVersion
  <2>1. PICK q \in Asked("restoreTeam") :
          Answer(q) /\ shown' = q.row /\ UNCHANGED <<status, team, mine, pr, ids, draft>>
    BY <1>5 DEF RestoreSummaryVersion
  <2>2. q.row \in Id
    BY AskedType DEF Request
  <2>3. req' \in [Client -> Request] /\ multi' = multi /\ run' = run
    BY <2>1, AnswerType
  <2>4. ids' \in Id /\ ids <= ids'
    BY <2>1, SameNumber DEF IInv, TypeOK
  <2>5. Rows(mine', Version, ids') /\ MineKept /\ Rows(team', TeamRow, ids') /\ TeamKept
    BY <2>1, <2>4, MineStays, TeamStays
  <2>6. IInv'
    BY <2>1, <2>2, <2>3, <2>4, <2>5, Closed
      DEF IInv, TypeOK, CurrentVersionExists, HistoryKept
  <2> QED
    BY <2>1, <2>5, <2>6 DEF Step
<1>6. CASE PersonalEdit
  <2>1. PICK q \in Asked("edit") : Answer(q) /\ Rewrite /\ Publish(New) /\ UNCHANGED <<shown, draft>>
    BY <1>6 DEF PersonalEdit
  <2> QED
    BY <2>1, AnswerType, RewriteAndPublish
<1>7. CASE PersonalDraft
  BY <1>7, PersonalDraftStep
<1>8. CASE Submit
  BY <1>8, SubmitStep
<1>9. CASE RefinePersonalSummary
  <2>1. PICK q \in Asked("refine") :
          Answer(q) /\ Rewrite /\ Publish(New) /\ UNCHANGED <<shown, draft>>
    BY <1>9 DEF RefinePersonalSummary
  <2> QED
    BY <2>1, AnswerType, RewriteAndPublish
<1>10. CASE RestorePersonalVersion
  BY <1>10, RestorePersonalStep
<1>11. CASE RegeneratePersonalSummary
  <2>1. PICK q \in Asked("regenerate") :
          /\ Answer(q) /\ mine' = Baseline(New) /\ pr' = Cleared(BaselineCur(New))
          /\ Draw(BaselineDraws) /\ UNCHANGED <<status, team, shown, draft>>
    BY <1>11 DEF RegeneratePersonalSummary
  <2> QED
    BY <2>1, AnswerType, ClearStep DEF IInv, TypeOK
<1>12. CASE Regenerate
  BY <1>12, RegenerateStep
<1>13. CASE Requeue
  BY <1>13, RequeueStep
<1>14. CASE CancelSummary
  BY <1>14, QuietStep DEF CancelSummary, IInv, TypeOK
<1>15. CASE TeamSummary
  <2>1. New \in Id
    BY <1>15, Stored DEF TeamSummary, AddTeamVersion, Draw, New
  <2> QED
    BY <1>15, <2>1, AddTeamVersionStep DEF TeamSummary, IInv, TypeOK
<1>16. ASSUME NEW r \in Run, StartRun(r) PROVE Step
  <2>1. pr.id \in Id /\ pr.cur \in Pointer
    BY DEF IInv, TypeOK
  <2>2. [pc |-> "work", row |-> pr.id, cur |-> pr.cur] \in InFlight
    BY <2>1 DEF InFlight
  <2>3. run' \in [Run -> InFlight]
    BY <1>16, <2>2 DEF StartRun, IInv, TypeOK
  <2> QED
    BY <1>16, <2>3, QuietStep DEF StartRun, IInv, TypeOK
<1>17. ASSUME NEW r \in Run, RowGone(r) PROVE Step
  <2>1. run' \in [Run -> InFlight]
    BY <1>17, RunMoves DEF RowGone
  <2> QED
    BY <1>17, <2>1, QuietStep DEF RowGone, IInv, TypeOK
<1>18. ASSUME NEW r \in Run, PersistNew(r) PROVE Step
  BY <1>18, PersistNewStep
<1>19. ASSUME NEW r \in Run, PersistNothing(r) PROVE Step
  BY <1>19, PersistNothingStep
<1>20. ASSUME NEW r \in Run, Complete(r) PROVE Step
  BY <1>20, CompleteStep
<1>21. ASSUME NEW r \in Run, FailRun(r) PROVE Step
  BY <1>21, FailRunStep
<1> QED
  BY <1>1, <1>2, <1>3, <1>4, <1>5, <1>6, <1>7, <1>8, <1>9, <1>10, <1>11, <1>12, <1>13,
     <1>14, <1>15, <1>16, <1>17, <1>18, <1>19, <1>20, <1>21 DEF Next

LEMMA InitHolds ==
  ASSUME Init
  PROVE  IInv
<1>1. 0 \in Id /\ 1 \in Id /\ 1 \in Nat
  OBVIOUS
<1>2. multi \in BOOLEAN /\ status \in Status /\ shown \in Pointer /\ draft = 0 /\ ids = 1
  BY <1>1 DEF Init
<1>3. /\ team = {} \/ team = {[id |-> 1, ver |-> 1, text |-> 1, edited |-> FALSE]}
      /\ mine = {} \/ mine = {[id |-> 1, ver |-> 1, text |-> 1]}
      /\ \/ pr = Started
         \/ pr \in {Ended(TRUE), Ended(FALSE)} /\ mine = {[id |-> 1, ver |-> 1, text |-> 1]}
  BY DEF Init
<1>4. req \in [Client -> Request] /\ run \in [Run -> InFlight]
  BY DEF Init, Idle, NoRun, Request, InFlight
<1>5. team \subseteq TeamRow /\ mine \subseteq Version /\ Unique(team) /\ Unique(mine)
      /\ Drawn(team) /\ Drawn(mine)
  <2> DEFINE t == [id |-> 1, ver |-> 1, text |-> 1, edited |-> FALSE]
             v == [id |-> 1, ver |-> 1, text |-> 1]
  <2>1. t \in TeamRow /\ t.id = 1 /\ v \in Version /\ v.id = 1
    BY <1>1 DEF TeamRow, Version
  <2>2. (team = {} \/ team = {t}) /\ (mine = {} \/ mine = {v})
    BY <1>3
  <2> HIDE DEF t, v
  <2> QED
    BY <1>2, <2>1, <2>2 DEF Unique, Drawn
<1>6. /\ pr \in PersonalRow /\ (pr.cur # None => Has(mine, pr.cur))
      /\ pr.text # 0 => \E v \in mine : v.text = pr.text
  <2> HIDE DEF Id
  <2>1. CASE pr = Started
    BY <1>1, <2>1 DEF Started
  <2>2. ASSUME NEW submitted \in BOOLEAN, pr = Ended(submitted),
               mine = {[id |-> 1, ver |-> 1, text |-> 1]}
        PROVE  /\ pr \in PersonalRow /\ Has(mine, pr.cur)
               /\ \E v \in mine : v.text = pr.text
    BY <1>1, <2>2 DEF Ended, Has
  <2> QED
    BY <1>3, <2>1, <2>2
<1> QED
  BY <1>1, <1>2, <1>4, <1>5, <1>6 DEF IInv, TypeOK, CurrentVersionExists, HistoryKept

LEMMA StutterStep ==
  ASSUME IInv, UNCHANGED vars
  PROVE  IInv' /\ TeamKept /\ MineKept
<1>1. UNCHANGED <<multi, status, team, shown, mine, pr, draft, ids, req, run>>
  BY DEF vars, rows
<1>2. IInv'
  BY <1>1 DEF IInv, TypeOK, Unique, Drawn, CurrentVersionExists, HistoryKept, Has
<1>3. TeamKept /\ MineKept
  BY <1>1 DEF TeamKept, MineKept, Has
<1> QED
  BY <1>2, <1>3

LEMMA Invariant == Spec => []IInv
<1>1. Init => IInv
  BY InitHolds
<1>2. IInv /\ [Next]_vars => IInv'
  BY NextStep, StutterStep DEF Step
<1> QED
  BY <1>1, <1>2, PTL DEF Spec

-----------------------------------------------------------------------------

\* Every reachable state has its type.
THEOREM TypeCorrect == Spec => []TypeOK
<1>1. IInv => TypeOK
  BY DEF IInv
<1> QED
  BY <1>1, Invariant, PTL

\* The member's current version exists, whatever was pruned between a request's reads and
\* its transaction (service/summary.go:343-346).
THEOREM CurrentExists == Spec => []CurrentVersionExists
<1>1. IInv => CurrentVersionExists
  BY DEF IInv
<1> QED
  BY <1>1, Invariant, PTL

\* Pruning takes old generated versions only: never one of the newest, the one shown, nor one
\* edited by hand (service/summary.go:242-244).
THEOREM PruningIsSafe == Spec => PruneKeepsUserData
<1> DEFINE A == /\ \A v \in team : ~Has(team', v.id) =>
                     /\ ~v.edited /\ v.id # shown'
                     /\ Cardinality(Newer(team', v)) >= Keep
                /\ \A v \in mine : ~Has(mine', v.id) =>
                     /\ v.id # pr'.cur
                     /\ Cardinality(Newer(mine', v)) >= Keep
<1>1. IInv /\ [Next]_vars => [A]_vars
  BY NextStep, StutterStep DEF Step, TeamKept, MineKept
<1>2. Spec => [][A]_vars
  BY <1>1, Invariant, PTL DEF Spec
<1> QED
  BY <1>2 DEF PruneKeepsUserData

\* What a request or a new round replaces is in the history (personal_refine.go:932-938).
THEOREM TextsReachHistory == Spec => TextReachesHistory
<1> DEFINE A == (pr'.text # pr.text /\ pr.text \notin {0, draft} /\ run' = run /\ ~EditSummary) =>
                  \E v \in mine \cup mine' : v.text = pr.text
<1>1. IInv /\ [Next]_vars => [A]_vars
  BY NextStep DEF Step, TextKept
<1>2. Spec => [][A]_vars
  BY <1>1, Invariant, PTL DEF Spec
<1> QED
  BY <1>2 DEF TextReachesHistory
=============================================================================
