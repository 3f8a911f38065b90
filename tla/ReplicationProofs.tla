-------------------------- MODULE ReplicationProofs --------------------------
(***************************************************************************)
(* Safety of Replication for any set of databases, agents and cells, any   *)
(* remotes, any number of agents on a database and any number of           *)
(* replacements of databases.                                              *)
(*                                                                         *)
(* NoMissedChange is not inductive: it says nothing of the answers on      *)
(* their way, which a merge will trust.  IInv adds what an answer must     *)
(* promise (PullOK), what keeps that promise true until the merge (site    *)
(* ids are never given out twice, versions never exceed the clock), and    *)
(* the types.                                                              *)
(*                                                                         *)
(* The first parts are about the operators of CrrDatabase, for every set   *)
(* of cells and every contents.                                            *)
(***************************************************************************)
EXTENDS Replication, FiniteSetTheorems, WellFoundedInduction, TLAPS

-----------------------------------------------------------------------------
(* The maximum of a set of versions.                                       *)

(* A finite, non-empty set of naturals has a largest element: among the    *)
(* sets of elements above n, one for each n, some set is minimal for       *)
(* inclusion, and it can only be empty.                                    *)
LEMMA LargestExists ==
    ASSUME NEW S, IsFiniteSet(S), S \subseteq Nat, S # {}
    PROVE  \E n \in S : \A m \in S : m <= n
<1> DEFINE Above(n) == {m \in S : m > n}
           T == {Above(n) : n \in S}
<1>1. IsWellFoundedOn(StrictSubsetOrdering(S), FiniteSubsetsOf(S))
  BY FS_StrictSubsetOrderingWellFounded
<1>2. FiniteSubsetsOf(S) = SUBSET S
  BY FS_FiniteSubsetsOfFinite
<1>3. T \subseteq FiniteSubsetsOf(S) /\ T # {}
  <2>1. \A n \in S : Above(n) \in SUBSET S
    OBVIOUS
  <2>2. T \subseteq SUBSET S
    <3> HIDE DEF Above
    <3> QED BY <2>1
  <2>3. T # {}
    <3> HIDE DEF Above
    <3> QED OBVIOUS
  <2> QED BY <1>2, <2>2, <2>3
<1>4. \E U \in T : \A V \in T : <<V, U>> \notin StrictSubsetOrdering(S)
  <2> HIDE DEF T
  <2> QED BY <1>1, <1>3, WFMin
<1>5. PICK n \in S : \A V \in T : <<V, Above(n)>> \notin StrictSubsetOrdering(S)
  BY <1>4
<1>6. SUFFICES ASSUME NEW m \in S, m > n PROVE FALSE
  BY <1>5
<1>7. Above(m) \subseteq Above(n) /\ Above(m) # Above(n)
  <2>1. m \in Above(n) /\ m \notin Above(m)
    BY <1>6
  <2>2. ASSUME NEW k \in Above(m) PROVE k \in Above(n)
    <3>1. k \in Nat /\ m \in Nat /\ n \in Nat /\ k > m
      OBVIOUS
    <3> QED BY <1>6, <3>1
  <2> QED BY <2>1, <2>2
<1>8. <<Above(m), Above(n)>> \in StrictSubsetOrdering(S)
  BY <1>7 DEF StrictSubsetOrdering
<1> QED BY <1>5, <1>8

(* MaxOrZero is the maximum: a member of the set or 0, and above it all.   *)
LEMMA MaxOrZeroIsMax ==
    ASSUME NEW S, IsFiniteSet(S), S \subseteq Nat
    PROVE  /\ MaxOrZero(S) \in Nat
           /\ MaxOrZero(S) \in S \cup {0}
           /\ \A w \in S : w <= MaxOrZero(S)
<1>1. \E v \in S \cup {0} : \A w \in S : w <= v
  <2>1. CASE S = {}
    BY <2>1
  <2>2. CASE S # {}
    BY <2>2, LargestExists
  <2> QED BY <2>1, <2>2
<1>2. /\ MaxOrZero(S) \in S \cup {0}
      /\ \A w \in S : w <= MaxOrZero(S)
  BY <1>1 DEF MaxOrZero
<1>3. S \cup {0} \subseteq Nat
  OBVIOUS
<1>4. MaxOrZero(S) \in Nat
  BY <1>2, <1>3
<1> QED BY <1>2, <1>4

(* The versions found in some of the cells are a finite set.               *)
LEMMA VersionsFinite ==
    ASSUME NEW C \in SUBSET Cells, NEW f \in [C -> Nat]
    PROVE  /\ IsFiniteSet({f[c] : c \in C})
           /\ {f[c] : c \in C} \subseteq Nat
<1> DEFINE V == {f[c] : c \in C}
<1>1. IsFiniteSet(C)
  BY CellsAssumption, FS_Subset
<1>2. f \in Surjection(C, V)
  BY DEF Surjection
<1>3. IsFiniteSet(V)
  <2> HIDE DEF V
  <2> QED BY <1>1, <1>2, FS_Surjection
<1> QED BY <1>3

-----------------------------------------------------------------------------
(* The queries.                                                            *)

(* DB::status returns a version no row of the database is above.           *)
LEMMA DbVersionIsMax ==
    ASSUME NEW db \in [Cells -> Row]
    PROVE  /\ DbVersion(db) \in Nat
           /\ \A c \in LocalCells(db) : db[c].ver <= DbVersion(db)
<1> DEFINE C == LocalCells(db)
           f == [c \in C |-> db[c].ver]
           V == {f[c] : c \in C}
<1>1. C \in SUBSET Cells /\ f \in [C -> Nat]
  BY DEF LocalCells, Row
<1>2. {db[c].ver : c \in C} = V
  OBVIOUS
<1>3. IsFiniteSet(V) /\ V \subseteq Nat
  <2> HIDE DEF C, f
  <2> QED BY <1>1, VersionsFinite
<1>4. DbVersion(db) = MaxOrZero(V)
  BY <1>2 DEF DbVersion
<1>5. MaxOrZero(V) \in Nat /\ \A w \in V : w <= MaxOrZero(V)
  <2> HIDE DEF V
  <2> QED BY <1>3, MaxOrZeroIsMax
<1>6. \A c \in C : db[c].ver \in V
  OBVIOUS
<1> QED BY <1>4, <1>5, <1>6

(* It is the version of one of its rows or 0, so what is above these is    *)
(* above it.                                                               *)
LEMMA DbVersionReached ==
    ASSUME NEW db \in [Cells -> Row], NEW bound \in Nat,
           \A c \in LocalCells(db) : db[c].ver <= bound
    PROVE  bound >= DbVersion(db)
<1> DEFINE C == LocalCells(db)
           f == [c \in C |-> db[c].ver]
           V == {f[c] : c \in C}
<1>1. C \in SUBSET Cells /\ f \in [C -> Nat]
  BY DEF LocalCells, Row
<1>2. {db[c].ver : c \in C} = V
  OBVIOUS
<1>3. IsFiniteSet(V) /\ V \subseteq Nat
  <2> HIDE DEF C, f
  <2> QED BY <1>1, VersionsFinite
<1>4. DbVersion(db) = MaxOrZero(V)
  BY <1>2 DEF DbVersion
<1>5. \A w \in V : w <= bound
  OBVIOUS
<1>6. MaxOrZero(V) \in Nat /\ MaxOrZero(V) \in V \cup {0}
  <2> HIDE DEF V
  <2> QED BY <1>3, MaxOrZeroIsMax
<1> HIDE DEF V
<1> QED BY <1>4, <1>5, <1>6

(* The version a merge tracks is that of a change in the list, or 0.       *)
LEMMA MaxDbVersionIsMax ==
    ASSUME NEW changes \in ChangeLists
    PROVE  /\ MaxDbVersion(changes) \in Nat
           /\ \A c \in Cells : changes[c].ver <= MaxDbVersion(changes)
           /\ \/ MaxDbVersion(changes) = 0
              \/ \E c \in Cells : changes[c].ver = MaxDbVersion(changes)
<1> DEFINE f == [c \in Cells |-> changes[c].ver]
           V == {f[c] : c \in Cells}
<1>1. f \in [Cells -> Nat]
  BY DEF ChangeLists
<1>2. MaxDbVersion(changes) = MaxOrZero(V)
  <2>1. {changes[c].ver : c \in Cells} = V
    OBVIOUS
  <2> QED BY <2>1 DEF MaxDbVersion
<1>3. IsFiniteSet(V) /\ V \subseteq Nat
  <2> HIDE DEF f
  <2> QED BY <1>1, VersionsFinite
<1>4. /\ MaxOrZero(V) \in Nat
      /\ MaxOrZero(V) \in V \cup {0}
      /\ \A w \in V : w <= MaxOrZero(V)
  <2> HIDE DEF V
  <2> QED BY <1>3, MaxOrZeroIsMax
<1>5. \A c \in Cells : changes[c].ver \in V
  OBVIOUS
<1>6. \A w \in V : \E c \in Cells : changes[c].ver = w
  OBVIOUS
<1> QED BY <1>2, <1>4, <1>5, <1>6

(* DB::changes answers with a list of changes.                             *)
LEMMA ChangesSinceType ==
    ASSUME NEW db \in [Cells -> Row], NEW version \in Nat, NEW since \in Nat
    PROVE  ChangesSince(db, version, since) \in ChangeLists
BY DEF ChangesSince, RowsSince, NoChanges, NoChange, ChangeLists, Row

(* The answer is complete up to its highest version: a row the database    *)
(* serves, after `since` and not above that version, is in the list; and   *)
(* the version is that of one of its rows.                                 *)
LEMMA ChangesSinceComplete ==
    ASSUME NEW db \in [Cells -> Row], NEW version \in Nat, NEW since \in Nat,
           NEW bound \in Nat, \A c \in Cells : db[c].ver <= bound
    PROVE  LET changes == ChangesSince(db, version, since)
           IN  /\ MaxDbVersion(changes) <= bound
               /\ \A c \in LocalCells(db) :
                     /\ db[c].ver > since
                     /\ db[c].ver <= MaxDbVersion(changes)
                     => changes[c].rank = db[c].rank
<1> DEFINE changes == ChangesSince(db, version, since)
<1>1. changes \in ChangeLists
  BY ChangesSinceType
<1>2. /\ MaxDbVersion(changes) \in Nat
      /\ \/ MaxDbVersion(changes) = 0
         \/ \E c \in Cells : changes[c].ver = MaxDbVersion(changes)
  <2> HIDE DEF changes
  <2> QED BY <1>1, MaxDbVersionIsMax
<1>3. \A c \in Cells : changes[c].ver = 0 \/ changes[c].ver = db[c].ver
  BY DEF ChangesSince, RowsSince, NoChanges, NoChange
<1>4. MaxDbVersion(changes) <= bound
  <2> HIDE DEF changes
  <2> QED BY <1>2, <1>3
<1>5. ASSUME NEW c \in LocalCells(db),
             db[c].ver > since, db[c].ver <= MaxDbVersion(changes)
      PROVE  changes[c].rank = db[c].rank
  <2>0. c \in Cells /\ db[c].local /\ db[c].ver \in Nat
    BY DEF LocalCells, Row
  <2>1. CASE since >= version
    <3>1. changes = NoChanges
      BY <2>1 DEF ChangesSince
    <3>2. \A e \in Cells : changes[e].ver = 0
      BY <3>1 DEF NoChanges, NoChange
    <3>3. MaxDbVersion(changes) = 0
      <4> HIDE DEF changes
      <4> QED BY <1>2, <3>2
    <3> QED BY <1>5, <2>0, <3>3
  <2>2. CASE ~(since >= version)
    BY <1>5, <2>0, <2>2 DEF ChangesSince, RowsSince
  <2> QED BY <2>1, <2>2
<1> QED BY <1>4, <1>5

-----------------------------------------------------------------------------
(* The merge.                                                              *)

(* A merge keeps the types, never lowers the version of the database, and  *)
(* numbers no row above it.                                                *)
LEMMA MergeTypes ==
    ASSUME NEW db \in [Cells -> Row], NEW clk \in Nat,
           NEW changes \in ChangeLists,
           \A c \in Cells : db[c].ver <= clk
    PROVE  /\ MergedClock(db, clk, changes) \in Nat
           /\ MergedClock(db, clk, changes) >= clk
           /\ MergedRows(db, clk, changes) \in [Cells -> Row]
           /\ \A c \in Cells : MergedRows(db, clk, changes)[c].ver
                                  <= MergedClock(db, clk, changes)
<1> DEFINE W == Winners(db, changes)
           f == [c \in W |-> changes[c].ver]
           V == {f[c] : c \in W}
<1>1. W \in SUBSET Cells /\ f \in [W -> Nat]
  BY DEF Winners, ChangeLists
<1>2. {changes[c].ver : c \in W} = V
  OBVIOUS
<1>3. IsFiniteSet(V) /\ V \subseteq Nat
  <2> HIDE DEF W, f
  <2> QED BY <1>1, VersionsFinite
<1>4. IsFiniteSet({clk + 1} \cup V) /\ {clk + 1} \cup V \subseteq Nat
  <2> HIDE DEF V
  <2>1. IsFiniteSet({clk + 1})
    BY FS_Singleton
  <2>2. IsFiniteSet({clk + 1} \cup V)
    BY <1>3, <2>1, FS_Union
  <2>3. clk + 1 \in Nat
    OBVIOUS
  <2> QED BY <1>3, <2>2, <2>3
<1>5. MergedClock(db, clk, changes) \in Nat
      /\ MergedClock(db, clk, changes) >= clk
  <2>1. CASE W = {}
    BY <2>1 DEF MergedClock
  <2>2. CASE W # {}
    <3>1. MergedClock(db, clk, changes) = MaxOrZero({clk + 1} \cup V)
      BY <2>2, <1>2 DEF MergedClock
    <3> DEFINE M == {clk + 1} \cup V
    <3>2. IsFiniteSet(M) /\ M \subseteq Nat /\ clk + 1 \in M
      BY <1>4
    <3> HIDE DEF M
    <3>3. MaxOrZero(M) \in Nat /\ clk + 1 <= MaxOrZero(M)
      BY <3>2, MaxOrZeroIsMax
    <3> QED BY <3>1, <3>3 DEF M
  <2> QED BY <2>1, <2>2
<1>6. MergedRows(db, clk, changes) \in [Cells -> Row]
  BY <1>5 DEF MergedRows, ChangeLists, Row
<1>7. \A c \in Cells : MergedRows(db, clk, changes)[c].ver
                         <= MergedClock(db, clk, changes)
  BY <1>5 DEF MergedRows, Row
<1> QED BY <1>5, <1>6, <1>7

(* A merge gives every cell the newer of the two writes, and leaves a cell *)
(* local only if it leaves it alone.                                       *)
LEMMA MergeKeepsNewest ==
    ASSUME NEW db \in [Cells -> Row], NEW clk \in Nat,
           NEW changes \in ChangeLists, NEW c \in Cells
    PROVE  LET merged == MergedRows(db, clk, changes)
           IN  /\ merged[c].rank >= db[c].rank
               /\ merged[c].rank >= changes[c].rank
               /\ merged[c].local => merged[c] = db[c]
BY DEF MergedRows, Winners, ChangeLists, Row

(* The tracked version becomes the higher of the stored one and the        *)
(* answer's.                                                               *)
LEMMA TrackedAfterIsMax ==
    ASSUME NEW version \in Nat, NEW changes \in ChangeLists
    PROVE  /\ TrackedAfter(version, changes) \in Nat
           /\ TrackedAfter(version, changes) >= version
           /\ TrackedAfter(version, changes) >= MaxDbVersion(changes)
           /\ TrackedAfter(version, changes) \in {version, MaxDbVersion(changes)}
BY MaxDbVersionIsMax DEF TrackedAfter

(* Where the order of two merges could show: a cell ends with the newest   *)
(* of three writes, and stays local if its own was that.                   *)
LEMMA TwoMerges ==
    ASSUME NEW db \in [Cells -> Row], NEW clk \in Nat, NEW clk2 \in Nat,
           NEW a \in ChangeLists, NEW b \in ChangeLists, NEW c \in Cells,
           \A e \in Cells : db[e].ver <= clk
    PROVE  LET merged == MergedRows(MergedRows(db, clk, a), clk2, b)
           IN  /\ merged[c].rank \in {db[c].rank, a[c].rank, b[c].rank}
               /\ merged[c].rank >= db[c].rank
               /\ merged[c].rank >= a[c].rank
               /\ merged[c].rank >= b[c].rank
               /\ merged[c].local <=> /\ db[c].local
                                      /\ db[c].rank >= a[c].rank
                                      /\ db[c].rank >= b[c].rank
               /\ merged[c].local => merged[c] = db[c]
<1> DEFINE once == MergedRows(db, clk, a)
           merged == MergedRows(once, clk2, b)
<1>1. once \in [Cells -> Row]
  BY MergeTypes
<1>2. /\ once[c].rank = IF a[c].rank > db[c].rank THEN a[c].rank ELSE db[c].rank
      /\ once[c].local <=> db[c].local /\ ~(a[c].rank > db[c].rank)
      /\ once[c].local => once[c] = db[c]
  BY DEF MergedRows, Winners, Row
<1> HIDE DEF once
<1>3. /\ merged[c].rank = IF b[c].rank > once[c].rank THEN b[c].rank ELSE once[c].rank
      /\ merged[c].local <=> once[c].local /\ ~(b[c].rank > once[c].rank)
      /\ merged[c].local => merged[c] = once[c]
  BY <1>1 DEF MergedRows, Winners, Row
<1>4. /\ db[c].rank \in Nat /\ a[c].rank \in Nat /\ b[c].rank \in Nat
      /\ once[c].rank \in Nat
  BY <1>1 DEF Row, ChangeLists
<1> HIDE DEF merged
<1> QED BY <1>2, <1>3, <1>4 DEF merged, once

(* DB::merge, answers out of order: two answers, of one peer or of two,    *)
(* may be merged in either order; the database then holds the same writes, *)
(* serves the same changes and tracks the same version.                    *)
THEOREM MergesCommute ==
    ASSUME NEW db \in [Cells -> Row], NEW clk \in Nat,
           \A e \in Cells : db[e].ver <= clk,
           NEW a \in ChangeLists, NEW b \in ChangeLists, NEW version \in Nat
    PROVE  LET ab == MergedRows(MergedRows(db, clk, a), MergedClock(db, clk, a), b)
               ba == MergedRows(MergedRows(db, clk, b), MergedClock(db, clk, b), a)
           IN  /\ \A c \in Cells : ab[c].rank = ba[c].rank
               /\ \A since \in Nat : RowsSince(ab, since) = RowsSince(ba, since)
               /\ TrackedAfter(TrackedAfter(version, a), b)
                     = TrackedAfter(TrackedAfter(version, b), a)
<1> DEFINE ab == MergedRows(MergedRows(db, clk, a), MergedClock(db, clk, a), b)
           ba == MergedRows(MergedRows(db, clk, b), MergedClock(db, clk, b), a)
<1>1. MergedClock(db, clk, a) \in Nat /\ MergedClock(db, clk, b) \in Nat
  BY MergeTypes
<1>2. ASSUME NEW c \in Cells
      PROVE  /\ ab[c].rank = ba[c].rank
             /\ ab[c].local <=> ba[c].local
             /\ ab[c].local => ab[c] = ba[c]
  <2>1. /\ ab[c].rank \in {db[c].rank, a[c].rank, b[c].rank}
        /\ ab[c].rank >= db[c].rank /\ ab[c].rank >= a[c].rank /\ ab[c].rank >= b[c].rank
        /\ ab[c].local <=> /\ db[c].local /\ db[c].rank >= a[c].rank
                            /\ db[c].rank >= b[c].rank
        /\ ab[c].local => ab[c] = db[c]
    BY <1>1, TwoMerges
  <2>2. /\ ba[c].rank \in {db[c].rank, b[c].rank, a[c].rank}
        /\ ba[c].rank >= db[c].rank /\ ba[c].rank >= b[c].rank /\ ba[c].rank >= a[c].rank
        /\ ba[c].local <=> /\ db[c].local /\ db[c].rank >= b[c].rank
                            /\ db[c].rank >= a[c].rank
        /\ ba[c].local => ba[c] = db[c]
    BY <1>1, TwoMerges
  <2>3. db[c].rank \in Nat /\ a[c].rank \in Nat /\ b[c].rank \in Nat
    BY DEF Row, ChangeLists
  <2> HIDE DEF ab, ba
  <2> QED BY <2>1, <2>2, <2>3
<1> HIDE DEF ab, ba
<1>3. \A since \in Nat : RowsSince(ab, since) = RowsSince(ba, since)
  BY <1>2 DEF RowsSince
<1>4. TrackedAfter(TrackedAfter(version, a), b) = TrackedAfter(TrackedAfter(version, b), a)
  BY MaxDbVersionIsMax DEF TrackedAfter
<1> QED BY <1>2, <1>3, <1>4 DEF ab, ba

(* DB::merge, answers repeated: an answer that was merged already, by this *)
(* process or another one on the file, changes nothing, not even the       *)
(* version of the database.                                                *)
THEOREM MergeTwice ==
    ASSUME NEW db \in [Cells -> Row], NEW clk \in Nat,
           \A e \in Cells : db[e].ver <= clk,
           NEW a \in ChangeLists, NEW version \in Nat
    PROVE  LET once == MergedRows(db, clk, a)
               clk2 == MergedClock(db, clk, a)
               tracked2 == TrackedAfter(version, a)
           IN  /\ MergedRows(once, clk2, a) = once
               /\ MergedClock(once, clk2, a) = clk2
               /\ TrackedAfter(tracked2, a) = tracked2
<1> DEFINE once == MergedRows(db, clk, a)
           clk2 == MergedClock(db, clk, a)
<1>1. once \in [Cells -> Row]
  BY MergeTypes
<1>2. \A c \in Cells : once[c].rank >= a[c].rank /\ once[c].rank \in Nat /\ a[c].rank \in Nat
  BY <1>1, MergeKeepsNewest DEF Row, ChangeLists
<1> HIDE DEF once, clk2
<1>3. Winners(once, a) = {}
  BY <1>2 DEF Winners
<1>4. MergedRows(once, clk2, a) = once
  BY <1>1, <1>3 DEF MergedRows
<1>5. MergedClock(once, clk2, a) = clk2
  BY <1>3 DEF MergedClock
<1>6. TrackedAfter(TrackedAfter(version, a), a) = TrackedAfter(version, a)
  BY MaxDbVersionIsMax DEF TrackedAfter
<1> QED BY <1>4, <1>5, <1>6 DEF once, clk2

-----------------------------------------------------------------------------
(* The inductive invariant.                                                *)

(* Site ids belong to one database each and are never used again.          *)
SitesOK ==
    /\ \A d \in Dbs : site[d] \in used
    /\ \A d, e \in Dbs : site[d] = site[e] => d = e
    /\ \A d \in Dbs : \A s \in Sites \ used : tracked[d][s] = 0
    /\ \A a \in Agents : announced[a] # NoStatus => announced[a].site \in used
    /\ \A a \in Agents : pushing[a] # NoStatus => pushing[a].site \in used

(* Versions start at 1 and stay within the database's clock.               *)
RowsOK ==
    \A d \in Dbs : \A c \in Cells :
        /\ rows[d][c].ver <= clock[d]
        /\ rows[d][c].local => rows[d][c].ver > 0

(* An answer lists, up to its highest version, every change its origin     *)
(* still serves after `since`, or a newer write to the same cell.          *)
AnswerOK(a) ==
    \A e \in Dbs : site[e] = pull[a].head.site =>
        /\ MaxDbVersion(pull[a].changes) <= clock[e]
        /\ \A c \in LocalCells(rows[e]) :
              /\ rows[e][c].ver > pull[a].since
              /\ rows[e][c].ver <= MaxDbVersion(pull[a].changes)
              => pull[a].changes[c].rank >= rows[e][c].rank

PullOK(a) ==
    /\ pull[a].phase # "idle" => pull[a].seen.site \in used
    /\ pull[a].phase \in {"calling", "answering", "answered"} =>
           pull[a].since <= tracked[Home[a]][pull[a].seen.site]
    /\ pull[a].phase = "answering" =>
           pull[a].head.site = site[Home[pull[a].peer]]
    /\ pull[a].phase = "answered" =>
           pull[a].head.site \in used /\ AnswerOK(a)

IInv ==
    /\ TypeOK
    /\ SitesOK
    /\ RowsOK
    /\ TrackedIsCommitted
    /\ NoMissedChange
    /\ \A a \in Agents : PullOK(a)

-----------------------------------------------------------------------------
(* Facts about the parts of the state.                                     *)

USE HomeAssumption, RemotesAssumption, AnnouncedAssumption, NoSiteAssumption,
    FirstSiteAssumption

LEMMA IdleType ==
    ASSUME NEW a \in Agents
    PROVE  Idle(a) \in Pull /\ Idle(a).phase = "idle"
BY DEF Idle, Pull, Status, NoStatus, NoChanges, NoChange, ChangeLists

LEMMA StatusOfType ==
    ASSUME TypeOK, NEW d \in Dbs
    PROVE  StatusOf(d) \in Status /\ StatusOf(d).site = site[d]
BY DbVersionIsMax DEF StatusOf, Status, TypeOK

(* The tracked version a pull is compared with is that of a real site.     *)
LEMMA TrackedPeerVersionType ==
    ASSUME TypeOK, NEW a \in Agents, pull[a].seen.site \in used
    PROVE  TrackedPeerVersion(a) \in Nat
BY DEF TrackedPeerVersion, TypeOK

-----------------------------------------------------------------------------
(* The initial states satisfy the invariant.                               *)

LEMMA InitIInv == Init => IInv
<1> SUFFICES ASSUME Init PROVE IInv
  OBVIOUS
<1> USE DEF Init
<1>1. TypeOK
  <2>1. rows \in [Dbs -> [Cells -> Row]]
    BY DEF EmptyDb, NoRow, Row
  <2>2. pull \in [Agents -> Pull]
    BY IdleType
  <2>3. NoStatus \in Status
    BY DEF NoStatus, Status
  <2>4. announced \in [Agents -> Status]
    BY <2>3 DEF Status
  <2> QED BY <2>1, <2>2, <2>3, <2>4 DEF TypeOK
<1>2. SitesOK
  BY DEF SitesOK
<1>3. RowsOK
  BY DEF RowsOK, EmptyDb, NoRow
<1>4. TrackedIsCommitted
  BY DEF TrackedIsCommitted
<1>5. NoMissedChange
  BY DEF NoMissedChange, EmptyDb, NoRow
<1>6. \A a \in Agents : PullOK(a)
  BY IdleType DEF PullOK
<1> QED BY <1>1, <1>2, <1>3, <1>4, <1>5, <1>6 DEF IInv

-----------------------------------------------------------------------------
(* Steps that change only one agent's pull.                                *)

(* Such a step keeps the invariant if the new pull satisfies its part.     *)
LEMMA PullOnly ==
    ASSUME IInv, NEW a \in Agents, NEW q \in Pull,
           pull' = [pull EXCEPT ![a] = q],
           UNCHANGED <<dbVars, announced, known, pushing>>,
           PullOK(a)'
    PROVE  IInv'
<1> USE DEF IInv, dbVars
<1>1. TypeOK'
  BY DEF TypeOK
<1>2. SitesOK'
  BY DEF SitesOK
<1>3. RowsOK'
  BY DEF RowsOK
<1>4. TrackedIsCommitted'
  BY DEF TrackedIsCommitted
<1>5. NoMissedChange'
  BY DEF NoMissedChange
<1>6. ASSUME NEW b \in Agents PROVE PullOK(b)'
  <2>1. CASE b = a
    BY <2>1
  <2>2. CASE b # a
    <3>1. pull'[b] = pull[b]
      BY <2>2 DEF TypeOK
    <3> QED BY <3>1 DEF PullOK, AnswerOK
  <2> QED BY <2>1, <2>2
<1> QED BY <1>1, <1>2, <1>3, <1>4, <1>5, <1>6

(* The pull ends: SkipPull, RejectReply, PullFails.                        *)
LEMMA EndPullKeeps ==
    ASSUME IInv, NEW a \in Agents,
           pull' = [pull EXCEPT ![a] = Idle(a)],
           UNCHANGED <<dbVars, announced, known, pushing>>
    PROVE  IInv'
<1>1. Idle(a) \in Pull /\ Idle(a).phase = "idle"
  BY IdleType
<1>2. pull'[a] = Idle(a)
  BY DEF IInv, TypeOK
<1>3. PullOK(a)'
  BY <1>1, <1>2 DEF PullOK
<1> QED BY <1>1, <1>3, PullOnly

LEMMA RefreshPeerKeeps ==
    ASSUME IInv, NEW a \in Agents, NEW p \in Agents, RefreshPeer(a, p)
    PROVE  IInv'
<1> DEFINE q == [Idle(a) EXCEPT !.phase = "refreshed",
                                !.peer  = p,
                                !.seen  = announced[p]]
<1>1. q \in Pull /\ q.phase = "refreshed" /\ q.seen = announced[p]
  BY IdleType DEF Idle, Pull, IInv, TypeOK
<1>2. /\ pull' = [pull EXCEPT ![a] = q]
      /\ UNCHANGED <<dbVars, announced, known, pushing>>
  BY DEF RefreshPeer
<1> HIDE DEF q
<1>3. pull'[a] = q
  BY <1>2 DEF IInv, TypeOK
<1>4. announced[p].site \in used
  BY DEF RefreshPeer, IInv, SitesOK
<1>5. PullOK(a)'
  BY <1>1, <1>2, <1>3, <1>4 DEF PullOK, dbVars
<1> QED BY <1>1, <1>2, <1>5, PullOnly

LEMMA CallPeerKeeps ==
    ASSUME IInv, NEW a \in Agents, CallPeer(a)
    PROVE  IInv'
<1> DEFINE q == [pull[a] EXCEPT !.phase = "calling",
                                !.since = TrackedPeerVersion(a)]
<1>0. pull[a] \in Pull /\ pull[a].seen.site \in used
  BY DEF IInv, TypeOK, CallPeer, PullOK
<1>1. /\ q \in Pull /\ q.phase = "calling" /\ q.seen = pull[a].seen
      /\ q.since = TrackedPeerVersion(a)
  <2>1. TrackedPeerVersion(a) \in Nat
    BY <1>0, TrackedPeerVersionType DEF IInv
  <2> QED BY <1>0, <2>1 DEF Pull
<1>2. /\ pull' = [pull EXCEPT ![a] = q]
      /\ UNCHANGED <<dbVars, announced, known, pushing>>
  BY DEF CallPeer
<1> HIDE DEF q
<1>3. pull'[a] = q
  BY <1>2 DEF IInv, TypeOK
<1>4. TrackedPeerVersion(a) <= tracked[Home[a]][q.seen.site]
  BY <1>0, <1>1, TrackedPeerVersionType DEF TrackedPeerVersion, IInv
<1>5. PullOK(a)'
  BY <1>0, <1>1, <1>2, <1>3, <1>4 DEF PullOK, dbVars
<1> QED BY <1>1, <1>2, <1>5, PullOnly

LEMMA AnswerStatusKeeps ==
    ASSUME IInv, NEW a \in Agents, AnswerStatus(a)
    PROVE  IInv'
<1> DEFINE e == Home[pull[a].peer]
           q == [pull[a] EXCEPT !.phase = "answering", !.head = StatusOf(e)]
<1>0. /\ pull[a] \in Pull /\ pull[a].seen.site \in used /\ e \in Dbs
      /\ pull[a].since <= tracked[Home[a]][pull[a].seen.site]
  BY DEF IInv, TypeOK, AnswerStatus, PullOK, Pull
<1>1. /\ q \in Pull /\ q.phase = "answering" /\ q.seen = pull[a].seen
      /\ q.since = pull[a].since /\ q.peer = pull[a].peer
      /\ q.head.site = site[e]
  <2>1. StatusOf(e) \in Status /\ StatusOf(e).site = site[e]
    BY <1>0, StatusOfType DEF IInv
  <2> HIDE DEF e
  <2> QED BY <1>0, <2>1 DEF Pull
<1>2. /\ pull' = [pull EXCEPT ![a] = q]
      /\ UNCHANGED <<dbVars, announced, known, pushing>>
  BY DEF AnswerStatus
<1> HIDE DEF q
<1>3. pull'[a] = q
  BY <1>2 DEF IInv, TypeOK
<1>5. PullOK(a)'
  BY <1>0, <1>1, <1>2, <1>3 DEF PullOK, dbVars
<1> QED BY <1>1, <1>2, <1>5, PullOnly

(* Here the promise of AnswerOK is made.                                   *)
LEMMA AnswerChangesKeeps ==
    ASSUME IInv, NEW a \in Agents, AnswerChanges(a)
    PROVE  IInv'
<1> DEFINE e == Home[pull[a].peer]
           changes == ChangesSince(rows[e], pull[a].head.ver, pull[a].since)
           q == [pull[a] EXCEPT !.phase = "answered", !.changes = changes]
<1>0. /\ pull[a] \in Pull /\ pull[a].seen.site \in used /\ e \in Dbs
      /\ pull[a].since <= tracked[Home[a]][pull[a].seen.site]
      /\ pull[a].head.site = site[e]
  BY DEF IInv, TypeOK, AnswerChanges, PullOK, Pull
<1>1. /\ rows[e] \in [Cells -> Row] /\ clock[e] \in Nat
      /\ \A c \in Cells : rows[e][c].ver <= clock[e]
      /\ pull[a].since \in Nat /\ pull[a].head.ver \in Nat
  BY <1>0 DEF IInv, TypeOK, RowsOK, Pull, Status
<1>2. changes \in ChangeLists
  <2> HIDE DEF e
  <2> QED BY <1>1, ChangesSinceType
<1>3. /\ MaxDbVersion(changes) <= clock[e]
      /\ \A c \in LocalCells(rows[e]) :
            /\ rows[e][c].ver > pull[a].since
            /\ rows[e][c].ver <= MaxDbVersion(changes)
            => changes[c].rank = rows[e][c].rank
  <2> HIDE DEF e
  <2> QED BY <1>1, ChangesSinceComplete
<1>4. /\ pull' = [pull EXCEPT ![a] = q]
      /\ UNCHANGED <<dbVars, announced, known, pushing>>
  BY DEF AnswerChanges
<1> HIDE DEF changes, e
<1>5. /\ q \in Pull /\ q.phase = "answered" /\ q.seen = pull[a].seen
      /\ q.since = pull[a].since /\ q.head = pull[a].head
      /\ q.changes = changes
  BY <1>0, <1>2 DEF Pull
<1> HIDE DEF q
<1>6. pull'[a] = q
  BY <1>4 DEF IInv, TypeOK
<1>7. AnswerOK(a)'
  <2> SUFFICES ASSUME NEW f \in Dbs, site[f] = pull[a].head.site
               PROVE  /\ MaxDbVersion(changes) <= clock[f]
                      /\ \A c \in LocalCells(rows[f]) :
                            /\ rows[f][c].ver > pull[a].since
                            /\ rows[f][c].ver <= MaxDbVersion(changes)
                            => changes[c].rank >= rows[f][c].rank
    BY <1>4, <1>5, <1>6 DEF AnswerOK, dbVars
  <2>1. f = e
    BY <1>0 DEF IInv, SitesOK
  <2>2. \A c \in LocalCells(rows[f]) : rows[f][c].rank \in Nat
    BY <1>1, <2>1 DEF LocalCells, Row
  <2> QED BY <1>3, <2>1, <2>2
<1>8. PullOK(a)'
  BY <1>0, <1>4, <1>5, <1>6, <1>7 DEF PullOK, dbVars, IInv, SitesOK
<1> QED BY <1>4, <1>5, <1>8, PullOnly

-----------------------------------------------------------------------------
(* Steps that change a push, or lose pulls and pushes.                     *)

(* Pulls that are unchanged or have ended keep their part of the invariant *)
(* as long as the databases stay as they are.                              *)
LEMMA VolatileKeeps ==
    ASSUME IInv, UNCHANGED dbVars,
           announced' \in [Agents -> Status], pushing' \in [Agents -> Status],
           \A a \in Agents : announced'[a] # NoStatus => announced'[a].site \in used,
           \A a \in Agents : pushing'[a] # NoStatus => pushing'[a].site \in used,
           known' \in [Agents -> SUBSET Agents],
           pull' \in [Agents -> Pull],
           \A a \in Agents : pull'[a] = pull[a] \/ pull'[a].phase = "idle"
    PROVE  IInv'
<1> USE DEF IInv, dbVars
<1>1. TypeOK'
  BY DEF TypeOK
<1>2. SitesOK'
  BY DEF SitesOK
<1>3. RowsOK'
  BY DEF RowsOK
<1>4. TrackedIsCommitted'
  BY DEF TrackedIsCommitted
<1>5. NoMissedChange'
  BY DEF NoMissedChange
<1>6. ASSUME NEW b \in Agents PROVE PullOK(b)'
  <2>1. CASE pull'[b] = pull[b]
    BY <2>1 DEF PullOK, AnswerOK
  <2>2. CASE pull'[b].phase = "idle"
    BY <2>2 DEF PullOK
  <2> QED BY <2>1, <2>2
<1> QED BY <1>1, <1>2, <1>3, <1>4, <1>5, <1>6

LEMMA PushReadKeeps ==
    ASSUME IInv, NEW a \in Agents, PushRead(a)
    PROVE  IInv'
<1>1. Home[a] \in Dbs
  OBVIOUS
<1>2. StatusOf(Home[a]) \in Status /\ StatusOf(Home[a]).site = site[Home[a]]
  BY <1>1, StatusOfType DEF IInv
<1>3. /\ pushing' \in [Agents -> Status]
      /\ \A b \in Agents : pushing'[b] # NoStatus => pushing'[b].site \in used
  BY <1>1, <1>2 DEF PushRead, IInv, TypeOK, SitesOK
<1> QED BY <1>3, VolatileKeeps DEF PushRead, IInv, TypeOK, SitesOK

LEMMA PushAnnounceKeeps ==
    ASSUME IInv, NEW a \in Agents, PushAnnounce(a)
    PROVE  IInv'
<1>1. NoStatus \in Status
  BY DEF NoStatus, Status
<1>2. /\ pushing' \in [Agents -> Status]
      /\ \A b \in Agents : pushing'[b] # NoStatus => pushing'[b].site \in used
  BY <1>1 DEF PushAnnounce, IInv, TypeOK, SitesOK
<1>3. /\ announced' \in [Agents -> Status]
      /\ \A b \in Agents : announced'[b] # NoStatus => announced'[b].site \in used
  BY DEF PushAnnounce, IInv, TypeOK, SitesOK
<1> QED BY <1>2, <1>3, VolatileKeeps DEF PushAnnounce, IInv, TypeOK

LEMMA PushFailsKeeps ==
    ASSUME IInv, NEW a \in Agents, PushFails(a)
    PROVE  IInv'
<1>1. NoStatus \in Status
  BY DEF NoStatus, Status
<1>2. /\ pushing' \in [Agents -> Status]
      /\ \A b \in Agents : pushing'[b] # NoStatus => pushing'[b].site \in used
  BY <1>1 DEF PushFails, IInv, TypeOK, SitesOK
<1> QED BY <1>2, VolatileKeeps DEF PushFails, IInv, TypeOK, SitesOK

(* What a crash leaves of the pulls and pushes.                            *)
LEMMA WithoutTypes ==
    ASSUME TypeOK, NEW B \in SUBSET Agents
    PROVE  /\ PullsWithout(B) \in [Agents -> Pull]
           /\ PushesWithout(B) \in [Agents -> Status]
           /\ \A b \in Agents :
                 \/ PullsWithout(B)[b].phase = "idle"
                 \/ /\ PullsWithout(B)[b] = pull[b]
                    /\ b \notin B
                    /\ pull[b].phase = "answering" => pull[b].peer \notin B
           /\ \A b \in Agents : PushesWithout(B)[b] \in {NoStatus, pushing[b]}
           /\ KnownAfterRestart(B) \in [Agents -> SUBSET Agents]
<1>1. NoStatus \in Status
  BY DEF NoStatus, Status
<1>2. \A b \in Agents : Idle(b) \in Pull /\ Idle(b).phase = "idle"
  BY IdleType
<1>3. KnownAfterRestart(B) \in [Agents -> SUBSET Agents]
  BY DEF TypeOK, KnownAfterRestart
<1> QED BY <1>1, <1>2, <1>3 DEF TypeOK, PullsWithout, PushesWithout

LEMMA CrashKeeps ==
    ASSUME IInv, NEW a \in Agents, Crash(a)
    PROVE  IInv'
<1>1. {a} \in SUBSET Agents
  OBVIOUS
<1>2. /\ pushing' \in [Agents -> Status]
      /\ \A b \in Agents : pushing'[b] # NoStatus => pushing'[b].site \in used
  BY <1>1, WithoutTypes DEF Crash, IInv, SitesOK
<1>3. /\ pull' \in [Agents -> Pull]
      /\ \A b \in Agents : pull'[b] = pull[b] \/ pull'[b].phase = "idle"
  BY <1>1, WithoutTypes DEF Crash, IInv
<1>4. known' \in [Agents -> SUBSET Agents]
  BY <1>1, WithoutTypes DEF Crash, IInv
<1> QED BY <1>2, <1>3, <1>4, VolatileKeeps DEF Crash, IInv, TypeOK, SitesOK

-----------------------------------------------------------------------------
(* A write of the application.                                             *)

(* A row is left alone or written again with a higher rank and the next    *)
(* version.                                                                *)
LEMMA WriteEffect ==
    ASSUME TypeOK, NEW d \in Dbs, NEW W \in SUBSET Cells, Write(d, W),
           NEW e \in Dbs, NEW c \in Cells
    PROVE  \/ rows'[e][c] = rows[e][c]
           \/ /\ e = d
              /\ rows'[e][c] \in Row /\ rows'[e][c].local
              /\ rows'[e][c].ver = clock[e] + 1
              /\ rows'[e][c].rank > rows[e][c].rank
<1>1. PICK rank \in [W -> 1..MaxRank] :
        /\ \A x \in W : rank[x] > rows[d][x].rank
        /\ rows' = [rows EXCEPT ![d] = [x \in Cells |->
                       IF x \in W
                       THEN [rank  |-> rank[x],
                             ver   |-> clock[d] + 1,
                             local |-> TRUE]
                       ELSE rows[d][x]]]
  BY DEF Write
<1>2. CASE e # d
  BY <1>1, <1>2 DEF TypeOK
<1>3. CASE e = d /\ c \notin W
  BY <1>1, <1>3 DEF TypeOK
<1>4. CASE e = d /\ c \in W
  <2>1. rows'[d][c] = [rank |-> rank[c], ver |-> clock[d] + 1, local |-> TRUE]
    BY <1>1, <1>4 DEF TypeOK
  <2>2. rank[c] \in 1..MaxRank /\ rank[c] > rows[d][c].rank
    BY <1>1, <1>4
  <2>3. rank[c] \in Nat /\ clock[d] + 1 \in Nat
    BY <2>2, BoundsAssumption DEF TypeOK
  <2> QED BY <1>4, <2>1, <2>2, <2>3 DEF Row
<1> QED BY <1>2, <1>3, <1>4

(* Its rows get a version above everything tracked or answered so far, so  *)
(* they are nobody's missed changes.                                       *)
LEMMA WriteKeeps ==
    ASSUME IInv, NEW d \in Dbs, NEW W \in SUBSET Cells, Write(d, W)
    PROVE  IInv'
<1> USE DEF IInv
<1>0. /\ UNCHANGED <<site, used, tracked, announced, known, pushing, pull>>
      /\ clock' = [clock EXCEPT ![d] = @ + 1]
  BY DEF Write
<1>2. /\ \A e \in Dbs : clock[e] \in Nat /\ clock'[e] \in Nat /\ clock'[e] >= clock[e]
      /\ clock'[d] = clock[d] + 1
  BY <1>0 DEF TypeOK
<1>3. \A e \in Dbs : \A c \in Cells : rows[e][c] \in Row /\ rows[e][c].rank \in Nat
                                      /\ rows[e][c].ver \in Nat
  BY DEF TypeOK, Row
<1>4. ASSUME NEW e \in Dbs, NEW c \in Cells
      PROVE  \/ rows'[e][c] = rows[e][c]
             \/ /\ e = d /\ rows'[e][c] \in Row
                /\ rows'[e][c].ver = clock[e] + 1
                /\ rows'[e][c].rank > rows[e][c].rank
  BY WriteEffect
<1>5. ASSUME NEW e \in Dbs, NEW c \in Cells
      PROVE  /\ rows'[e][c].rank \in Nat /\ rows'[e][c].rank >= rows[e][c].rank
             /\ rows'[e][c] = rows[e][c] \/ rows'[e][c].ver = clock[e] + 1
  <2>1. CASE rows'[e][c] = rows[e][c]
    BY <1>3, <2>1
  <2>2. CASE rows'[e][c] # rows[e][c]
    BY <1>3, <1>4, <2>2 DEF Row
  <2> QED BY <2>1, <2>2
<1>6. TypeOK'
  <2>1. rows' \in [Dbs -> [Cells -> Row]]
    <3>1. \A e \in Dbs : \A c \in Cells : rows'[e][c] \in Row
      BY <1>3, <1>4
    <3>2. PICK rank \in [W -> 1..MaxRank] :
            rows' = [rows EXCEPT ![d] = [c \in Cells |->
                        IF c \in W
                        THEN [rank  |-> rank[c],
                              ver   |-> clock[d] + 1,
                              local |-> TRUE]
                        ELSE rows[d][c]]]
      BY DEF Write
    <3>3. DOMAIN rows' = Dbs /\ DOMAIN rows'[d] = Cells
          /\ \A e \in Dbs \ {d} : rows'[e] = rows[e]
      BY <3>2 DEF TypeOK
    <3>4. rows'[d] = [c \in Cells |-> rows'[d][c]]
      BY <3>2 DEF TypeOK
    <3>5. rows'[d] \in [Cells -> Row]
      BY <3>1, <3>4
    <3>6. rows' = [e \in Dbs |-> rows'[e]]
      BY <3>2 DEF TypeOK
    <3> QED BY <3>3, <3>5, <3>6 DEF TypeOK
  <2>2. clock' \in [Dbs -> Nat]
    BY <1>0, <1>2 DEF TypeOK
  <2> QED BY <1>0, <2>1, <2>2 DEF TypeOK
<1>7. SitesOK'
  BY <1>0 DEF SitesOK
<1>8. RowsOK'
  <2> SUFFICES ASSUME NEW e \in Dbs, NEW c \in Cells
               PROVE  /\ rows'[e][c].ver <= clock'[e]
                      /\ rows'[e][c].local => rows'[e][c].ver > 0
    BY DEF RowsOK
  <2>1. /\ rows[e][c].ver <= clock[e]
        /\ rows[e][c].local => rows[e][c].ver > 0
    BY DEF RowsOK
  <2>2. CASE rows'[e][c] = rows[e][c]
    BY <1>2, <1>3, <2>1, <2>2
  <2>3. CASE rows'[e][c] # rows[e][c]
    <3>1. e = d /\ rows'[e][c].ver = clock[e] + 1
      BY <1>4, <2>3
    <3> QED BY <1>2, <3>1
  <2> QED BY <2>2, <2>3
<1>9. TrackedIsCommitted'
  <2>1. \A e, f \in Dbs : tracked[e][site[f]] \in Nat
    BY DEF TypeOK
  <2> QED BY <1>0, <1>2, <2>1 DEF TrackedIsCommitted
<1>10. NoMissedChange'
  <2> SUFFICES ASSUME NEW e \in Dbs, NEW f \in Dbs, NEW c \in Cells,
                      rows'[f][c].local, rows'[f][c].ver <= tracked[e][site[f]]
               PROVE  rows'[e][c].rank >= rows'[f][c].rank
    BY <1>0 DEF NoMissedChange
  <2>1. tracked[e][site[f]] \in Nat /\ tracked[e][site[f]] <= clock[f]
    BY DEF TypeOK, TrackedIsCommitted
  <2>2. rows'[f][c] = rows[f][c]
    BY <1>2, <1>5, <2>1
  <2>3. rows[e][c].rank >= rows[f][c].rank
    BY <2>2 DEF NoMissedChange
  <2> QED BY <1>3, <1>5, <2>2, <2>3
<1>11. ASSUME NEW a \in Agents PROVE PullOK(a)'
  <2>1. pull[a].phase = "answered" => AnswerOK(a)'
    <3> SUFFICES ASSUME pull[a].phase = "answered",
                        NEW f \in Dbs, site[f] = pull[a].head.site
                 PROVE  /\ MaxDbVersion(pull[a].changes) <= clock'[f]
                        /\ \A c \in LocalCells(rows'[f]) :
                              /\ rows'[f][c].ver > pull[a].since
                              /\ rows'[f][c].ver <= MaxDbVersion(pull[a].changes)
                              => pull[a].changes[c].rank >= rows'[f][c].rank
      BY <1>0 DEF AnswerOK
    <3>1. MaxDbVersion(pull[a].changes) \in Nat
      BY MaxDbVersionIsMax DEF TypeOK, Pull
    <3>2. /\ MaxDbVersion(pull[a].changes) <= clock[f]
          /\ \A c \in LocalCells(rows[f]) :
                /\ rows[f][c].ver > pull[a].since
                /\ rows[f][c].ver <= MaxDbVersion(pull[a].changes)
                => pull[a].changes[c].rank >= rows[f][c].rank
      BY DEF PullOK, AnswerOK
    <3>3. ASSUME NEW c \in LocalCells(rows'[f]),
                 rows'[f][c].ver > pull[a].since,
                 rows'[f][c].ver <= MaxDbVersion(pull[a].changes)
          PROVE  pull[a].changes[c].rank >= rows'[f][c].rank
      <4>1. c \in Cells /\ rows'[f][c].local
        BY DEF LocalCells
      <4>2. rows'[f][c] = rows[f][c]
        BY <1>2, <1>5, <3>1, <3>2, <3>3, <4>1
      <4>3. c \in LocalCells(rows[f])
        BY <4>1, <4>2 DEF LocalCells
      <4> QED BY <3>2, <3>3, <4>2, <4>3
    <3> QED BY <1>2, <3>1, <3>2, <3>3
  <2> QED BY <1>0, <2>1 DEF PullOK
<1> QED BY <1>6, <1>7, <1>8, <1>9, <1>10, <1>11

-----------------------------------------------------------------------------
(* The merge of an answer.                                                 *)

(* What one merge does, in terms of the cells and versions the invariant   *)
(* speaks of.                                                              *)
LEMMA MergeEffect ==
    ASSUME IInv, NEW a \in Agents, MergeReply(a)
    PROVE  LET d == Home[a]
               s == pull[a].head.site
               changes == pull[a].changes
           IN  /\ d \in Dbs /\ s \in used /\ changes \in ChangeLists
               /\ pull[a].since <= tracked[d][s]
               /\ AnswerOK(a)
               /\ UNCHANGED <<site, used, announced, known, pushing>>
               /\ rows' \in [Dbs -> [Cells -> Row]]
               /\ clock' \in [Dbs -> Nat]
               /\ tracked' \in [Dbs -> [Sites -> Nat]]
               /\ pull' = [pull EXCEPT ![a] = Idle(a)]
               /\ \A e \in Dbs : /\ clock'[e] >= clock[e]
                                 /\ e # d => rows'[e] = rows[e]
               /\ \A e \in Dbs : \A c \in Cells :
                     /\ rows'[e][c].rank >= rows[e][c].rank
                     /\ rows'[e][c].local => rows'[e][c] = rows[e][c]
                     /\ rows'[e][c].ver <= clock'[e]
               /\ \A c \in Cells : rows'[d][c].rank >= changes[c].rank
               /\ \A e \in Dbs : \A t \in Sites :
                     /\ tracked'[e][t] >= tracked[e][t]
                     /\ \/ tracked'[e][t] = tracked[e][t]
                        \/ /\ e = d /\ t = s
                           /\ tracked'[e][t] = MaxDbVersion(changes)
<1> DEFINE d == Home[a]
           s == pull[a].head.site
           changes == pull[a].changes
<1> USE DEF IInv
<1>1. /\ pull[a] \in Pull /\ pull[a].phase = "answered"
      /\ pull[a].seen.site = s
  BY DEF MergeReply, SameSite, TypeOK
<1>2. /\ d \in Dbs /\ s \in used /\ s \in Sites /\ changes \in ChangeLists
      /\ pull[a].since <= tracked[d][s]
      /\ AnswerOK(a)
  BY <1>1 DEF PullOK, Pull, TypeOK
<1>3. /\ rows[d] \in [Cells -> Row] /\ clock[d] \in Nat /\ tracked[d][s] \in Nat
      /\ tracked[d] \in [Sites -> Nat]
      /\ \A c \in Cells : rows[d][c].ver <= clock[d]
  BY <1>2 DEF TypeOK, RowsOK
<1>4. /\ rows' = [rows EXCEPT ![d] = MergedRows(rows[d], clock[d], changes)]
      /\ clock' = [clock EXCEPT ![d] = MergedClock(rows[d], clock[d], changes)]
      /\ tracked' = [tracked EXCEPT ![d][s] = TrackedAfter(tracked[d][s], changes)]
      /\ pull' = [pull EXCEPT ![a] = Idle(a)]
      /\ UNCHANGED <<site, used, announced, known, pushing>>
  BY <1>2, <1>3 DEF MergeReply, TypeOK
<1>5. /\ rows'[d] = MergedRows(rows[d], clock[d], changes)
      /\ clock'[d] = MergedClock(rows[d], clock[d], changes)
      /\ tracked'[d][s] = TrackedAfter(tracked[d][s], changes)
      /\ \A e \in Dbs \ {d} : /\ rows'[e] = rows[e] /\ clock'[e] = clock[e]
                              /\ tracked'[e] = tracked[e]
      /\ \A t \in Sites \ {s} : tracked'[d][t] = tracked[d][t]
  BY <1>2, <1>3, <1>4 DEF TypeOK
<1> HIDE DEF d, s, changes
<1>6. /\ rows'[d] \in [Cells -> Row] /\ clock'[d] \in Nat /\ clock'[d] >= clock[d]
      /\ \A c \in Cells : rows'[d][c].ver <= clock'[d]
  BY <1>2, <1>3, <1>5, MergeTypes
<1>7. \A c \in Cells : /\ rows'[d][c].rank >= rows[d][c].rank
                       /\ rows'[d][c].rank >= changes[c].rank
                       /\ rows'[d][c].local => rows'[d][c] = rows[d][c]
  BY <1>2, <1>3, <1>5, MergeKeepsNewest
<1>8. /\ tracked'[d][s] \in Nat /\ tracked'[d][s] >= tracked[d][s]
      /\ tracked'[d][s] \in {tracked[d][s], MaxDbVersion(changes)}
  BY <1>2, <1>3, <1>5, TrackedAfterIsMax
<1>9. rows' \in [Dbs -> [Cells -> Row]]
  BY <1>2, <1>4, <1>5, <1>6 DEF TypeOK
<1>10. clock' \in [Dbs -> Nat]
  BY <1>2, <1>4, <1>5, <1>6 DEF TypeOK
<1>11. tracked' \in [Dbs -> [Sites -> Nat]]
  BY <1>2, <1>3, <1>4, <1>5, <1>8 DEF TypeOK
<1>12. ASSUME NEW e \in Dbs
       PROVE  clock'[e] >= clock[e] /\ (e # d => rows'[e] = rows[e])
  BY <1>5, <1>6 DEF TypeOK
<1>13. ASSUME NEW e \in Dbs, NEW c \in Cells
       PROVE  /\ rows'[e][c].rank >= rows[e][c].rank
              /\ rows'[e][c].local => rows'[e][c] = rows[e][c]
              /\ rows'[e][c].ver <= clock'[e]
  <2>1. CASE e = d
    BY <1>6, <1>7, <2>1
  <2>2. CASE e # d
    <3>1. rows[e][c].rank \in Nat /\ rows[e][c].ver <= clock[e]
      BY DEF TypeOK, Row, RowsOK
    <3> QED BY <1>5, <2>2, <3>1
  <2> QED BY <2>1, <2>2
<1>14. ASSUME NEW e \in Dbs, NEW t \in Sites
       PROVE  /\ tracked'[e][t] >= tracked[e][t]
              /\ \/ tracked'[e][t] = tracked[e][t]
                 \/ e = d /\ t = s /\ tracked'[e][t] = MaxDbVersion(changes)
  <2>1. CASE e = d /\ t = s
    BY <1>8, <2>1
  <2>2. CASE ~(e = d /\ t = s)
    <3>1. tracked[e][t] \in Nat
      BY DEF TypeOK
    <3> QED BY <1>5, <2>2, <3>1
  <2> QED BY <2>1, <2>2
<1> QED
  BY <1>2, <1>4, <1>7, <1>9, <1>10, <1>11, <1>12, <1>13, <1>14 DEF d, s, changes

(* The promise of AnswerOK is used: what the merge newly tracks, it has.   *)
LEMMA MergeReplyKeeps ==
    ASSUME IInv, NEW a \in Agents, MergeReply(a)
    PROVE  IInv'
<1> DEFINE d == Home[a]
           s == pull[a].head.site
           changes == pull[a].changes
<1>1. /\ d \in Dbs /\ s \in used /\ changes \in ChangeLists
      /\ pull[a].since <= tracked[d][s]
      /\ AnswerOK(a)
      /\ UNCHANGED <<site, used, announced, known, pushing>>
      /\ rows' \in [Dbs -> [Cells -> Row]]
      /\ clock' \in [Dbs -> Nat]
      /\ tracked' \in [Dbs -> [Sites -> Nat]]
      /\ pull' = [pull EXCEPT ![a] = Idle(a)]
  BY MergeEffect
<1>2. /\ \A e \in Dbs : clock'[e] >= clock[e] /\ (e # d => rows'[e] = rows[e])
      /\ \A e \in Dbs : \A c \in Cells :
            /\ rows'[e][c].rank >= rows[e][c].rank
            /\ rows'[e][c].local => rows'[e][c] = rows[e][c]
            /\ rows'[e][c].ver <= clock'[e]
      /\ \A c \in Cells : rows'[d][c].rank >= changes[c].rank
      /\ \A e \in Dbs : \A t \in Sites :
            /\ tracked'[e][t] >= tracked[e][t]
            /\ \/ tracked'[e][t] = tracked[e][t]
               \/ e = d /\ t = s /\ tracked'[e][t] = MaxDbVersion(changes)
  BY MergeEffect
<1>3. \A f \in Dbs : site[f] = s =>
         /\ MaxDbVersion(changes) <= clock[f]
         /\ \A c \in LocalCells(rows[f]) :
               /\ rows[f][c].ver > pull[a].since
               /\ rows[f][c].ver <= MaxDbVersion(changes)
               => changes[c].rank >= rows[f][c].rank
  BY <1>1 DEF AnswerOK
<1>4. /\ used \in SUBSET Sites /\ site \in [Dbs -> Sites]
      /\ \A f \in Dbs : clock[f] \in Nat /\ clock'[f] \in Nat
      /\ \A e \in Dbs : \A t \in Sites : tracked[e][t] \in Nat /\ tracked'[e][t] \in Nat
      /\ \A e \in Dbs : \A c \in Cells :
            /\ rows[e][c].rank \in Nat /\ rows'[e][c].rank \in Nat
            /\ rows[e][c].ver \in Nat
      /\ MaxDbVersion(changes) \in Nat
      /\ \A c \in Cells : changes[c].rank \in Nat
      /\ pull[a].since \in Nat
  <2>1. MaxDbVersion(changes) \in Nat
    BY <1>1, MaxDbVersionIsMax
  <2>2. \A c \in Cells : changes[c].rank \in Nat
    BY <1>1 DEF ChangeLists
  <2>3. pull[a].since \in Nat
    BY DEF IInv, TypeOK, Pull
  <2> QED BY <1>1, <2>1, <2>2, <2>3 DEF IInv, TypeOK, Row
<1> HIDE DEF d, s, changes
<1> USE DEF IInv
<1>5. TypeOK'
  <2>1. pull' \in [Agents -> Pull]
    BY <1>1, IdleType DEF TypeOK
  <2> QED BY <1>1, <2>1 DEF TypeOK
<1>6. SitesOK'
  <2>1. ASSUME NEW e \in Dbs, NEW t \in Sites \ used
        PROVE  tracked'[e][t] = 0
    <3>1. t # s /\ tracked[e][t] = 0
      BY <1>1 DEF SitesOK
    <3> QED BY <1>2, <3>1
  <2> QED BY <1>1, <2>1 DEF SitesOK
<1>7. RowsOK'
  <2>1. \A e \in Dbs : \A c \in Cells : rows'[e][c].local => rows'[e][c].ver > 0
    BY <1>2 DEF RowsOK
  <2> QED BY <1>2, <2>1 DEF RowsOK
<1>8. TrackedIsCommitted'
  <2> SUFFICES ASSUME NEW e \in Dbs, NEW f \in Dbs
               PROVE  tracked'[e][site[f]] <= clock'[f]
    BY <1>1 DEF TrackedIsCommitted
  <2>1. site[f] \in Sites /\ clock'[f] >= clock[f]
    BY <1>2, <1>4
  <2>2. CASE tracked'[e][site[f]] = tracked[e][site[f]]
    BY <1>4, <2>1, <2>2 DEF TrackedIsCommitted
  <2>3. CASE site[f] = s /\ tracked'[e][site[f]] = MaxDbVersion(changes)
    BY <1>3, <1>4, <2>1, <2>3
  <2> QED BY <1>2, <2>1, <2>2, <2>3
<1>9. NoMissedChange'
  <2> SUFFICES ASSUME NEW e \in Dbs, NEW f \in Dbs, NEW c \in Cells,
                      rows'[f][c].local, rows'[f][c].ver <= tracked'[e][site[f]]
               PROVE  rows'[e][c].rank >= rows'[f][c].rank
    BY <1>1 DEF NoMissedChange
  <2>1. /\ rows'[f][c] = rows[f][c] /\ c \in LocalCells(rows[f])
        /\ site[f] \in Sites /\ rows'[e][c].rank >= rows[e][c].rank
    BY <1>2, <1>4 DEF LocalCells
  <2>2. CASE rows[f][c].ver <= tracked[e][site[f]]
    <3>1. rows[e][c].rank >= rows[f][c].rank
      BY <2>1, <2>2 DEF NoMissedChange
    <3> QED BY <1>4, <2>1, <3>1
  <2>3. CASE ~(rows[f][c].ver <= tracked[e][site[f]])
    <3>1. e = d /\ site[f] = s /\ tracked'[e][site[f]] = MaxDbVersion(changes)
      BY <1>2, <1>4, <2>1, <2>3
    <3>2. rows[f][c].ver > pull[a].since /\ rows[f][c].ver <= MaxDbVersion(changes)
      BY <1>1, <1>4, <2>1, <2>3, <3>1
    <3>3. changes[c].rank >= rows[f][c].rank
      BY <1>3, <2>1, <3>1, <3>2
    <3> QED BY <1>2, <1>4, <2>1, <3>1, <3>3
  <2> QED BY <2>2, <2>3
<1>10. ASSUME NEW b \in Agents PROVE PullOK(b)'
  <2>1. CASE b = a
    <3>1. pull'[a].phase = "idle"
      BY <1>1, IdleType DEF TypeOK
    <3> QED BY <2>1, <3>1 DEF PullOK
  <2>2. CASE b # a
    <3>1. pull'[b] = pull[b] /\ pull[b] \in Pull /\ Home[b] \in Dbs
      BY <1>1, <2>2 DEF TypeOK
    <3>2. pull[b].phase \in {"calling", "answering", "answered"} =>
             pull[b].since <= tracked'[Home[b]][pull[b].seen.site]
      <4> SUFFICES ASSUME pull[b].phase \in {"calling", "answering", "answered"}
                   PROVE  pull[b].since <= tracked'[Home[b]][pull[b].seen.site]
        OBVIOUS
      <4>1. /\ pull[b].seen.site \in Sites
            /\ pull[b].since <= tracked[Home[b]][pull[b].seen.site]
        BY <1>4 DEF PullOK
      <4>2. pull[b].since \in Nat
        BY <3>1 DEF Pull
      <4> QED BY <1>2, <1>4, <3>1, <4>1, <4>2
    <3>3. pull[b].phase = "answered" => AnswerOK(b)'
      <4> SUFFICES ASSUME pull[b].phase = "answered",
                          NEW f \in Dbs, site[f] = pull[b].head.site
                   PROVE  /\ MaxDbVersion(pull[b].changes) <= clock'[f]
                          /\ \A c \in LocalCells(rows'[f]) :
                                /\ rows'[f][c].ver > pull[b].since
                                /\ rows'[f][c].ver <= MaxDbVersion(pull[b].changes)
                                => pull[b].changes[c].rank >= rows'[f][c].rank
        BY <1>1, <3>1 DEF AnswerOK
      <4>1. MaxDbVersion(pull[b].changes) \in Nat
        BY <3>1, MaxDbVersionIsMax DEF Pull
      <4>2. /\ MaxDbVersion(pull[b].changes) <= clock[f]
            /\ \A c \in LocalCells(rows[f]) :
                  /\ rows[f][c].ver > pull[b].since
                  /\ rows[f][c].ver <= MaxDbVersion(pull[b].changes)
                  => pull[b].changes[c].rank >= rows[f][c].rank
        BY DEF PullOK, AnswerOK
      <4>3. \A c \in LocalCells(rows'[f]) :
               rows'[f][c] = rows[f][c] /\ c \in LocalCells(rows[f])
        BY <1>2 DEF LocalCells
      <4> QED BY <1>2, <1>4, <4>1, <4>2, <4>3
    <3> QED BY <1>1, <3>1, <3>2, <3>3 DEF PullOK
  <2> QED BY <2>1, <2>2
<1> QED BY <1>5, <1>6, <1>7, <1>8, <1>9, <1>10

-----------------------------------------------------------------------------
(* A database is replaced.                                                 *)

(* Nothing is tracked for its new site id, and no answer carries it.       *)
LEMMA ReplaceDbKeeps ==
    ASSUME IInv, NEW d \in Dbs, NEW s \in Sites, ReplaceDb(d, s)
    PROVE  IInv'
<1> DEFINE B == {a \in Agents : Home[a] = d}
<1> USE DEF IInv
<1>1. /\ s \notin used /\ used' = used \cup {s}
      /\ site' = [site EXCEPT ![d] = s]
      /\ rows' = [rows EXCEPT ![d] = EmptyDb]
      /\ clock' = [clock EXCEPT ![d] = 0]
      /\ tracked' = [tracked EXCEPT ![d] = [t \in Sites |-> 0]]
      /\ announced' = announced
      /\ known' = KnownAfterRestart(B)
      /\ pull' = PullsWithout(B)
      /\ pushing' = PushesWithout(B)
  BY DEF ReplaceDb
<1>2. /\ pull' \in [Agents -> Pull]
      /\ pushing' \in [Agents -> Status]
      /\ known' \in [Agents -> SUBSET Agents]
      /\ \A b \in Agents :
            \/ pull'[b].phase = "idle"
            \/ /\ pull'[b] = pull[b] /\ b \notin B
               /\ pull[b].phase = "answering" => pull[b].peer \notin B
      /\ \A b \in Agents : pushing'[b] \in {NoStatus, pushing[b]}
  <2>1. B \in SUBSET Agents
    OBVIOUS
  <2> HIDE DEF B
  <2> QED BY <1>1, <2>1, WithoutTypes
<1>3. /\ site'[d] = s /\ rows'[d] = EmptyDb /\ clock'[d] = 0
      /\ \A t \in Sites : tracked'[d][t] = 0
      /\ \A e \in Dbs \ {d} : /\ site'[e] = site[e] /\ rows'[e] = rows[e]
                              /\ clock'[e] = clock[e] /\ tracked'[e] = tracked[e]
  BY <1>1 DEF TypeOK
<1>4. EmptyDb \in [Cells -> Row]
      /\ \A c \in Cells : EmptyDb[c].ver = 0 /\ ~EmptyDb[c].local /\ EmptyDb[c].rank = 0
  BY DEF EmptyDb, NoRow, Row
<1>5. TypeOK'
  <2>1. site' \in [Dbs -> Sites] /\ used' \in SUBSET Sites
    BY <1>1 DEF TypeOK
  <2>2. rows' \in [Dbs -> [Cells -> Row]] /\ clock' \in [Dbs -> Nat]
    BY <1>1, <1>4 DEF TypeOK
  <2>3. tracked' \in [Dbs -> [Sites -> Nat]]
    BY <1>1 DEF TypeOK
  <2> QED BY <1>1, <1>2, <2>1, <2>2, <2>3 DEF TypeOK
<1>6. SitesOK'
  <2>1. \A e \in Dbs : site'[e] \in used'
    BY <1>1, <1>3 DEF SitesOK
  <2>2. \A e, f \in Dbs : site'[e] = site'[f] => e = f
    BY <1>1, <1>3 DEF SitesOK
  <2>3. \A e \in Dbs : \A t \in Sites \ used' : tracked'[e][t] = 0
    BY <1>1, <1>3 DEF SitesOK
  <2>4. /\ \A a \in Agents : announced'[a] # NoStatus => announced'[a].site \in used'
        /\ \A a \in Agents : pushing'[a] # NoStatus => pushing'[a].site \in used'
    BY <1>1, <1>2 DEF SitesOK
  <2> QED BY <2>1, <2>2, <2>3, <2>4 DEF SitesOK
<1>7. RowsOK'
  <2> SUFFICES ASSUME NEW e \in Dbs, NEW c \in Cells
               PROVE  /\ rows'[e][c].ver <= clock'[e]
                      /\ rows'[e][c].local => rows'[e][c].ver > 0
    BY DEF RowsOK
  <2>1. CASE e = d
    BY <1>3, <1>4, <2>1
  <2>2. CASE e # d
    BY <1>3, <2>2 DEF RowsOK
  <2> QED BY <2>1, <2>2
<1>8. TrackedIsCommitted'
  <2> SUFFICES ASSUME NEW e \in Dbs, NEW f \in Dbs
               PROVE  tracked'[e][site'[f]] <= clock'[f]
    BY DEF TrackedIsCommitted
  <2>1. site'[f] \in Sites /\ clock'[f] \in Nat
    BY <1>5 DEF TypeOK
  <2>2. CASE e = d
    BY <1>3, <2>1, <2>2
  <2>3. CASE e # d /\ f = d
    BY <1>3, <1>1, <2>3 DEF SitesOK
  <2>4. CASE e # d /\ f # d
    BY <1>3, <2>4 DEF TrackedIsCommitted
  <2> QED BY <2>2, <2>3, <2>4
<1>9. NoMissedChange'
  <2> SUFFICES ASSUME NEW e \in Dbs, NEW f \in Dbs, NEW c \in Cells,
                      rows'[f][c].local, rows'[f][c].ver <= tracked'[e][site'[f]]
               PROVE  rows'[e][c].rank >= rows'[f][c].rank
    BY DEF NoMissedChange
  <2>1. f # d
    BY <1>3, <1>4
  <2>2. rows[f][c].ver > 0 /\ rows[f][c].ver \in Nat
    BY <1>3, <2>1 DEF RowsOK, TypeOK, Row
  <2>3. e # d
    <3>1. site'[f] \in Sites
      BY <1>5 DEF TypeOK
    <3> QED BY <1>3, <2>1, <2>2, <3>1
  <2> QED BY <1>3, <2>1, <2>3 DEF NoMissedChange
<1>10. ASSUME NEW b \in Agents PROVE PullOK(b)'
  <2>1. CASE pull'[b].phase = "idle"
    BY <2>1 DEF PullOK
  <2>2. CASE pull'[b].phase # "idle"
    <3>1. /\ pull'[b] = pull[b] /\ Home[b] \in Dbs /\ Home[b] # d
          /\ pull[b] \in Pull
          /\ pull[b].phase = "answering" => Home[pull[b].peer] # d
      BY <1>2, <2>2 DEF TypeOK, Pull
    <3>2. pull[b].seen.site \in used
      BY <2>2, <3>1 DEF PullOK
    <3>3. tracked'[Home[b]] = tracked[Home[b]]
      BY <1>3, <3>1
    <3>4. pull[b].phase = "answering" =>
             pull[b].head.site = site'[Home[pull[b].peer]]
      BY <1>3, <3>1 DEF PullOK, Pull
    <3>5. pull[b].phase = "answered" => AnswerOK(b)'
      <4> SUFFICES ASSUME pull[b].phase = "answered",
                          NEW f \in Dbs, site'[f] = pull[b].head.site
                   PROVE  /\ MaxDbVersion(pull[b].changes) <= clock'[f]
                          /\ \A c \in LocalCells(rows'[f]) :
                                /\ rows'[f][c].ver > pull[b].since
                                /\ rows'[f][c].ver <= MaxDbVersion(pull[b].changes)
                                => pull[b].changes[c].rank >= rows'[f][c].rank
        BY <3>1 DEF AnswerOK
      <4>1. f # d
        BY <1>1, <1>3, <3>1 DEF PullOK
      <4> QED BY <1>3, <4>1 DEF PullOK, AnswerOK
    <3> QED BY <1>1, <3>1, <3>2, <3>3, <3>4, <3>5 DEF PullOK
  <2> QED BY <2>1, <2>2
<1> QED BY <1>5, <1>6, <1>7, <1>8, <1>9, <1>10

-----------------------------------------------------------------------------
(* The invariant holds in every reachable state.                           *)

LEMMA NextIInv == IInv /\ [Next]_vars => IInv'
<1> SUFFICES ASSUME IInv, [Next]_vars PROVE IInv'
  OBVIOUS
<1>1. ASSUME NEW d \in Dbs, NEW W \in (SUBSET Cells) \ {{}}, Write(d, W)
      PROVE  IInv'
  BY <1>1, WriteKeeps
<1>2. ASSUME NEW d \in Dbs, NEW s \in Sites, ReplaceDb(d, s)
      PROVE  IInv'
  BY <1>2, ReplaceDbKeeps
<1>3. ASSUME NEW a \in Agents, PushRead(a) PROVE IInv'
  BY <1>3, PushReadKeeps
<1>4. ASSUME NEW a \in Agents, PushAnnounce(a) PROVE IInv'
  BY <1>4, PushAnnounceKeeps
<1>5. ASSUME NEW a \in Agents, PushFails(a) PROVE IInv'
  BY <1>5, PushFailsKeeps
<1>6. ASSUME NEW a \in Agents, NEW p \in Agents, RefreshPeer(a, p) PROVE IInv'
  BY <1>6, RefreshPeerKeeps
<1>7. ASSUME NEW a \in Agents, PullStep(a) PROVE IInv'
  <2>1. CASE SkipPull(a)
    BY <2>1, EndPullKeeps DEF SkipPull
  <2>2. CASE CallPeer(a)
    BY <2>2, CallPeerKeeps
  <2>3. CASE AnswerStatus(a)
    BY <2>3, AnswerStatusKeeps
  <2>4. CASE AnswerChanges(a)
    BY <2>4, AnswerChangesKeeps
  <2>5. CASE MergeReply(a)
    BY <2>5, MergeReplyKeeps
  <2>6. CASE RejectReply(a)
    BY <2>6, EndPullKeeps DEF RejectReply
  <2> QED BY <1>7, <2>1, <2>2, <2>3, <2>4, <2>5, <2>6 DEF PullStep
<1>8. ASSUME NEW a \in Agents, PullFails(a) PROVE IInv'
  BY <1>8, EndPullKeeps DEF PullFails
<1>9. ASSUME NEW a \in Agents, Crash(a) PROVE IInv'
  BY <1>9, CrashKeeps
<1>10. CASE UNCHANGED vars
  BY <1>10, VolatileKeeps DEF vars, dbVars, IInv, TypeOK, SitesOK
<1> QED
  BY <1>1, <1>2, <1>3, <1>4, <1>5, <1>6, <1>7, <1>8, <1>9, <1>10 DEF Next

THEOREM Invariance == Spec => []IInv
BY InitIInv, NextIInv, PTL DEF Spec

(* Every variable keeps its type.                                          *)
THEOREM TypeCorrect == Spec => []TypeOK
<1>1. IInv => TypeOK
  BY DEF IInv
<1> QED BY <1>1, Invariance, PTL

(* No change up to a tracked version is ever missed, whatever is written,  *)
(* merged, lost, restarted or replaced in between.                         *)
THEOREM NothingMissed == Spec => []NoMissedChange
<1>1. IInv => NoMissedChange
  BY DEF IInv
<1> QED BY <1>1, Invariance, PTL

(* A tracked version is one its origin has committed.                      *)
THEOREM TrackedSound == Spec => []TrackedIsCommitted
<1>1. IInv => TrackedIsCommitted
  BY DEF IInv
<1> QED BY <1>1, Invariance, PTL

(* An answer that will be accepted stays complete until it is merged.      *)
THEOREM AnswersComplete == Spec => []AnswerIsComplete
<1>1. ASSUME IInv PROVE AnswerIsComplete
  <2> SUFFICES ASSUME NEW a \in Agents, NEW e \in Dbs,
                      pull[a].phase = "answered", SameSite(a),
                      site[e] = pull[a].head.site
               PROVE  /\ MaxDbVersion(pull[a].changes) <= clock[e]
                      /\ \A c \in LocalCells(rows[e]) :
                            /\ rows[e][c].ver > tracked[Home[a]][site[e]]
                            /\ rows[e][c].ver <= MaxDbVersion(pull[a].changes)
                            => pull[a].changes[c].rank >= rows[e][c].rank
    BY DEF AnswerIsComplete
  <2>1. AnswerOK(a) /\ pull[a].since <= tracked[Home[a]][site[e]]
    BY <1>1 DEF IInv, PullOK, SameSite
  <2>2. /\ pull[a].since \in Nat /\ tracked[Home[a]][site[e]] \in Nat
        /\ \A c \in LocalCells(rows[e]) : rows[e][c].ver \in Nat
    BY <1>1 DEF IInv, TypeOK, Pull, LocalCells, Row
  <2> QED BY <2>1, <2>2 DEF AnswerOK
<1> QED BY <1>1, Invariance, PTL

-----------------------------------------------------------------------------
(* What a step may do to a database.                                       *)

DbNeverGoesBack(d) ==
    site'[d] = site[d] =>
        /\ \A c \in Cells : rows'[d][c].rank >= rows[d][c].rank
        /\ \A s \in Sites : tracked'[d][s] >= tracked[d][s]

LEMMA UnchangedNeverGoesBack ==
    ASSUME TypeOK, NEW d \in Dbs, rows'[d] = rows[d], tracked'[d] = tracked[d]
    PROVE  DbNeverGoesBack(d)
BY DEF DbNeverGoesBack, TypeOK, Row

LEMMA WriteNeverGoesBack ==
    ASSUME TypeOK, NEW d \in Dbs, NEW e \in Dbs, NEW W \in SUBSET Cells, Write(e, W)
    PROVE  DbNeverGoesBack(d)
<1>1. CASE d # e
  BY <1>1, UnchangedNeverGoesBack DEF Write, TypeOK
<1>2. CASE d = e
  <2>1. \A s \in Sites : tracked'[d][s] >= tracked[d][s]
    BY DEF Write, TypeOK
  <2>2. ASSUME NEW c \in Cells PROVE rows'[d][c].rank >= rows[d][c].rank
    <3>1. rows[d][c].rank \in Nat
      BY DEF TypeOK, Row
    <3>2. \/ rows'[d][c] = rows[d][c]
          \/ rows'[d][c].rank \in Nat /\ rows'[d][c].rank > rows[d][c].rank
      BY WriteEffect DEF Row
    <3> QED BY <3>1, <3>2
  <2> QED BY <2>1, <2>2 DEF DbNeverGoesBack
<1> QED BY <1>1, <1>2

LEMMA ReplaceDbNeverGoesBack ==
    ASSUME IInv, NEW d \in Dbs, NEW e \in Dbs, NEW s \in Sites, ReplaceDb(e, s)
    PROVE  DbNeverGoesBack(d)
<1>1. CASE d # e
  BY <1>1, UnchangedNeverGoesBack DEF ReplaceDb, IInv, TypeOK
<1>2. CASE d = e
  BY <1>2 DEF ReplaceDb, IInv, TypeOK, SitesOK, DbNeverGoesBack
<1> QED BY <1>1, <1>2

LEMMA StepNeverGoesBack ==
    ASSUME IInv, [Next]_vars, NEW d \in Dbs
    PROVE  DbNeverGoesBack(d)
<1> USE DEF IInv
<1>1. ASSUME NEW e \in Dbs, NEW W \in (SUBSET Cells) \ {{}}, Write(e, W)
      PROVE  DbNeverGoesBack(d)
  BY <1>1, WriteNeverGoesBack
<1>2. ASSUME NEW e \in Dbs, NEW s \in Sites, ReplaceDb(e, s)
      PROVE  DbNeverGoesBack(d)
  BY <1>2, ReplaceDbNeverGoesBack
<1>3. CASE UNCHANGED dbVars
  BY <1>3, UnchangedNeverGoesBack DEF dbVars
<1>4. ASSUME NEW a \in Agents, MergeReply(a)
      PROVE  DbNeverGoesBack(d)
  BY <1>4, MergeEffect DEF DbNeverGoesBack
<1>5. ASSUME NEW a \in Agents,
             \/ PushRead(a) \/ PushAnnounce(a) \/ PushFails(a)
             \/ \E p \in Agents : RefreshPeer(a, p)
             \/ PullStep(a) /\ ~MergeReply(a)
             \/ PullFails(a) \/ Crash(a)
      PROVE  UNCHANGED dbVars
  BY <1>5 DEF PushRead, PushAnnounce, PushFails, RefreshPeer, PullStep, SkipPull,
              CallPeer, AnswerStatus, AnswerChanges, RejectReply, PullFails, Crash
<1>6. CASE UNCHANGED vars
  BY <1>3, <1>6 DEF vars, dbVars
<1> QED BY <1>1, <1>2, <1>3, <1>4, <1>5, <1>6 DEF Next

(* A cell never falls back to a superseded write, and a tracked version    *)
(* never goes down.                                                        *)
THEOREM Monotone == Spec => NeverGoesBack
<1>1. IInv /\ [Next]_vars => [\A d \in Dbs : site'[d] = site[d] =>
          /\ \A c \in Cells : rows'[d][c].rank >= rows[d][c].rank
          /\ \A s \in Sites : tracked'[d][s] >= tracked[d][s]]_vars
  BY StepNeverGoesBack DEF DbNeverGoesBack
<1> QED BY <1>1, Invariance, PTL DEF Spec, NeverGoesBack

-----------------------------------------------------------------------------
(* What a pull achieves.                                                   *)

(* A row above `since` that DB::changes could return is in the answer, so  *)
(* the version of the answer is that of the status or both are below       *)
(* `since`.                                                                *)
LEMMA AnswerReachesStatus ==
    ASSUME NEW db \in [Cells -> Row], NEW since \in Nat
    PROVE  LET changes == ChangesSince(db, DbVersion(db), since)
           IN  \A c \in LocalCells(db) :
                  db[c].ver <= since \/ db[c].ver <= MaxDbVersion(changes)
<1> DEFINE changes == ChangesSince(db, DbVersion(db), since)
<1> SUFFICES ASSUME NEW c \in LocalCells(db), ~(db[c].ver <= since)
             PROVE  db[c].ver <= MaxDbVersion(changes)
  OBVIOUS
<1>1. /\ c \in Cells /\ db[c].local /\ db[c].ver \in Nat
      /\ DbVersion(db) \in Nat /\ db[c].ver <= DbVersion(db)
  BY DbVersionIsMax DEF LocalCells, Row
<1>2. changes \in ChangeLists
  BY <1>1, ChangesSinceType
<1>3. changes = RowsSince(db, since)
  BY <1>1 DEF ChangesSince
<1>4. changes[c].ver = db[c].ver
  BY <1>1, <1>3 DEF RowsSince
<1> HIDE DEF changes
<1> QED BY <1>1, <1>2, <1>4, MaxDbVersionIsMax

(* The merge of such an answer tracks all that its database serves.        *)
LEMMA MergeCatchesUp ==
    ASSUME IInv, NEW a \in Agents, NEW e \in Dbs, MergeReply(a), StillAnswers(e, a)
    PROVE  tracked'[Home[a]][site[e]] >= DbVersion(rows'[e])
<1> DEFINE d == Home[a]
           changes == pull[a].changes
           t == tracked[d][site[e]]
           after == tracked'[d][site[e]]
<1>1. /\ d \in Dbs /\ changes \in ChangeLists /\ pull[a].since \in Nat
      /\ pull[a].since <= tracked[d][pull[a].head.site]
      /\ rows' \in [Dbs -> [Cells -> Row]]
      /\ \A c \in Cells : rows'[e][c].local => rows'[e][c] = rows[e][c]
  <2>1. pull[a].since \in Nat
    BY DEF IInv, TypeOK, Pull
  <2> QED BY <2>1, MergeEffect
<1>2. site[e] = pull[a].head.site /\ t \in Nat /\ rows[e] \in [Cells -> Row]
  BY <1>1 DEF StillAnswers, IInv, TypeOK
<1>3. after = TrackedAfter(t, changes)
  BY <1>1, <1>2 DEF MergeReply, IInv, TypeOK
<1>4. after \in Nat /\ after >= t /\ after >= MaxDbVersion(changes)
  BY <1>1, <1>2, <1>3, TrackedAfterIsMax
<1>5. changes = ChangesSince(rows[e], DbVersion(rows[e]), pull[a].since)
  BY DEF StillAnswers
<1>6. \A c \in LocalCells(rows[e]) :
         rows[e][c].ver <= pull[a].since \/ rows[e][c].ver <= MaxDbVersion(changes)
  BY <1>1, <1>2, <1>5, AnswerReachesStatus
<1> HIDE DEF d, changes, t, after
<1>7. \A c \in LocalCells(rows'[e]) : rows'[e][c].ver <= after
  <2> SUFFICES ASSUME NEW c \in LocalCells(rows'[e]) PROVE rows'[e][c].ver <= after
    OBVIOUS
  <2>1. c \in Cells /\ rows'[e][c] = rows[e][c] /\ c \in LocalCells(rows[e])
    BY <1>1 DEF LocalCells
  <2>2. rows[e][c].ver \in Nat /\ MaxDbVersion(changes) \in Nat
    BY <1>1, <1>2, <2>1, MaxDbVersionIsMax DEF Row
  <2> QED BY <1>1, <1>2, <1>4, <1>6, <2>1, <2>2 DEF t
<1>8. after >= DbVersion(rows'[e])
  BY <1>1, <1>4, <1>7, DbVersionReached
<1> QED BY <1>8 DEF after, d

(* Each pull that is not overtaken leaves nothing to ask for: the loop of  *)
(* the puller comes to its end instead of asking for the same changes      *)
(* again.                                                                  *)
THEOREM CatchesUp == Spec => PullCatchesUp
<1>1. IInv /\ [Next]_vars =>
         [\A a \in Agents, e \in Dbs :
             MergeReply(a) /\ StillAnswers(e, a) =>
                 tracked'[Home[a]][site[e]] >= DbVersion(rows'[e])]_vars
  BY MergeCatchesUp
<1> QED BY <1>1, Invariance, PTL DEF Spec, PullCatchesUp

-----------------------------------------------------------------------------
(* The keys a server has.                                                  *)

(* A server has the keys of remotes that have announced themselves, whose  *)
(* announcements a restart would find again.                               *)
KnownOK ==
    \A a \in Agents : \A p \in known[a] :
        p \in Remotes[a] /\ announced[p] # NoStatus

LEMMA KeyStep ==
    ASSUME TypeOK, KnownOK, [Next]_vars
    PROVE  KnownOK' /\ \A a \in Agents : known[a] \subseteq known'[a]
<1> SUFFICES ASSUME NEW a \in Agents
             PROVE  /\ known[a] \subseteq known'[a]
                    /\ \A p \in known'[a] : p \in Remotes[a] /\ announced'[p] # NoStatus
  BY DEF KnownOK
<1>1. CASE UNCHANGED <<announced, known>>
  BY <1>1 DEF KnownOK
<1>2. ASSUME NEW b \in Agents, PushAnnounce(b)
      PROVE  /\ known' = known
             /\ \A p \in Agents : announced[p] # NoStatus => announced'[p] # NoStatus
  BY <1>2 DEF PushAnnounce, TypeOK
<1>3. ASSUME NEW B \in SUBSET Agents, known' = KnownAfterRestart(B), announced' = announced
      PROVE  /\ known[a] \subseteq known'[a]
             /\ \A p \in known'[a] : p \in Remotes[a] /\ announced'[p] # NoStatus
  BY <1>3 DEF KnownOK, KnownAfterRestart
<1>4. ASSUME NEW b \in Agents, Crash(b)
      PROVE  known' = KnownAfterRestart({b}) /\ announced' = announced
  BY <1>4 DEF Crash
<1>5. ASSUME NEW d \in Dbs, NEW s \in Sites, ReplaceDb(d, s)
      PROVE  /\ known' = KnownAfterRestart({b \in Agents : Home[b] = d})
             /\ announced' = announced
  BY <1>5 DEF ReplaceDb
<1>6. ASSUME NEW b \in Agents,
             \/ PushRead(b) \/ PushFails(b)
             \/ \E p \in Agents : RefreshPeer(b, p)
             \/ PullStep(b) \/ PullFails(b)
      PROVE  UNCHANGED <<announced, known>>
  BY <1>6 DEF PushRead, PushFails, RefreshPeer, PullStep, SkipPull, CallPeer,
              AnswerStatus, AnswerChanges, MergeReply, RejectReply, PullFails
<1>7. ASSUME NEW d \in Dbs, NEW W \in (SUBSET Cells) \ {{}}, Write(d, W)
      PROVE  UNCHANGED <<announced, known>>
  BY <1>7 DEF Write
<1>8. CASE UNCHANGED vars
  BY <1>1, <1>8 DEF vars
<1>9. CASE \E b \in Agents : PushAnnounce(b)
  BY <1>2, <1>9 DEF KnownOK
<1>10. CASE \E b \in Agents : Crash(b)
  <2>1. PICK b \in Agents : Crash(b)
    BY <1>10
  <2>2. {b} \in SUBSET Agents
    OBVIOUS
  <2> QED BY <1>3, <1>4, <2>1, <2>2
<1>11. CASE \E d \in Dbs, s \in Sites : ReplaceDb(d, s)
  <2>1. PICK d \in Dbs, s \in Sites : ReplaceDb(d, s)
    BY <1>11
  <2>2. {b \in Agents : Home[b] = d} \in SUBSET Agents
    OBVIOUS
  <2> QED BY <1>3, <1>5, <2>1, <2>2
<1> QED BY <1>1, <1>6, <1>7, <1>8, <1>9, <1>10, <1>11 DEF Next

(* A server that has a remote's key keeps it, whatever crashes and         *)
(* replacements follow: once answered, a caller is never again refused     *)
(* with "peer key not found".                                              *)
THEOREM KeysStay == Spec => [][\A a \in Agents : known[a] \subseteq known'[a]]_known
<1>1. Init => KnownOK
  <2> SUFFICES ASSUME Init, NEW a \in Agents, NEW p \in known[a]
               PROVE  p \in Remotes[a] /\ announced[p] # NoStatus
    BY DEF KnownOK
  <2>0. p \in Remotes[a] \cap Announced
    BY DEF Init
  <2>1. p \in Agents /\ FirstSite[Home[p]] \in Sites
    BY <2>0
  <2> QED BY <2>0, <2>1 DEF Init, NoStatus
<1>2. TypeOK /\ KnownOK /\ [Next]_vars =>
         KnownOK' /\ [\A a \in Agents : known[a] \subseteq known'[a]]_known
  BY KeyStep
<1> QED BY <1>1, <1>2, TypeCorrect, PTL DEF Spec
=============================================================================
