------------------------------- MODULE OwedProofs -------------------------------
(***************************************************************************)
(* Replication implements Owed, and nodes in sync hold the same data.      *)
(*                                                                         *)
(* Both need to know where data comes from.  A node serves only rows of    *)
(* its own, and a row stops being its own when a newer one is merged; so   *)
(* that a newer one is not the end of the write, SourceOK says that for    *)
(* every row, and every change under way, some database holds a row of its *)
(* own that is at least as new.                                            *)
(***************************************************************************)
EXTENDS ReplicationProofs

USE HomeAssumption, RemotesAssumption, NoSiteAssumption, FirstSiteAssumption

-----------------------------------------------------------------------------
(* Where data comes from.                                                  *)

(* No database was replaced.                                               *)
Whole == used = {site[d] : d \in Dbs}

HasSource(data, c, rank) ==
    \E e \in Dbs : data[e][c].local /\ data[e][c].rank >= rank

SourceOK ==
    Whole => \A c \in Cells :
        /\ \A d \in Dbs : rows[d][c].rank > 0 => HasSource(rows, c, rows[d][c].rank)
        /\ \A a \in Agents : pull[a].changes[c].rank > 0 =>
              HasSource(rows, c, pull[a].changes[c].rank)

(* There is no data at first.                                              *)
LEMMA InitSource == Init => SourceOK
BY DEF Init, SourceOK, EmptyDb, NoRow, Idle, NoChanges, NoChange

(* A step that leaves the databases alone and makes no new answer.         *)
LEMMA QuietSource ==
    ASSUME IInv, SourceOK, UNCHANGED <<site, used, rows>>,
           \A a \in Agents : pull'[a].changes \in {pull[a].changes, NoChanges}
    PROVE  SourceOK'
<1> SUFFICES ASSUME Whole, NEW c \in Cells
             PROVE  /\ \A d \in Dbs : rows[d][c].rank > 0 =>
                          HasSource(rows, c, rows[d][c].rank)
                    /\ \A a \in Agents : pull'[a].changes[c].rank > 0 =>
                          HasSource(rows, c, pull'[a].changes[c].rank)
  BY DEF SourceOK, Whole, HasSource
<1>1. NoChanges[c].rank = 0
  BY DEF NoChanges, NoChange
<1> QED BY <1>1 DEF SourceOK

(* A new answer consists of rows of its origin.                            *)
LEMMA AnswerSource ==
    ASSUME IInv, SourceOK, NEW a \in Agents, AnswerChanges(a)
    PROVE  SourceOK'
<1> USE DEF IInv
<1>1. /\ UNCHANGED <<site, used, rows>>
      /\ pull[a] \in Pull /\ Home[pull[a].peer] \in Dbs
      /\ pull'[a].changes = ChangesSince(rows[Home[pull[a].peer]],
                                         pull[a].head.ver, pull[a].since)
      /\ \A b \in Agents \ {a} : pull'[b] = pull[b]
  <2> DEFINE changes == ChangesSince(rows[Home[pull[a].peer]],
                                     pull[a].head.ver, pull[a].since)
  <2>1. /\ pull' = [pull EXCEPT ![a].phase = "answered", ![a].changes = changes]
        /\ UNCHANGED <<site, used, rows>>
    BY DEF AnswerChanges, dbVars
  <2> HIDE DEF changes
  <2>2. pull[a] \in Pull /\ Home[pull[a].peer] \in Dbs
    BY DEF TypeOK, Pull
  <2>3. pull'[a].changes = changes /\ \A b \in Agents \ {a} : pull'[b] = pull[b]
    BY <2>1, <2>2 DEF TypeOK, Pull
  <2> QED BY <2>1, <2>2, <2>3 DEF changes
<1> SUFFICES ASSUME Whole, NEW c \in Cells
             PROVE  /\ \A d \in Dbs : rows[d][c].rank > 0 =>
                          HasSource(rows, c, rows[d][c].rank)
                    /\ \A b \in Agents : pull'[b].changes[c].rank > 0 =>
                          HasSource(rows, c, pull'[b].changes[c].rank)
  BY <1>1 DEF SourceOK, Whole, HasSource
<1>2. pull'[a].changes[c].rank > 0 => HasSource(rows, c, pull'[a].changes[c].rank)
  <2>1. \/ pull'[a].changes[c] = NoChange
        \/ /\ rows[Home[pull[a].peer]][c].local
           /\ pull'[a].changes[c].rank = rows[Home[pull[a].peer]][c].rank
    <3> DEFINE mine == rows[Home[pull[a].peer]]
               changes == pull'[a].changes
    <3>1. \/ changes = [x \in Cells |-> NoChange]
          \/ changes = [x \in Cells |->
                IF mine[x].local /\ mine[x].ver > pull[a].since
                THEN [rank |-> mine[x].rank, ver |-> mine[x].ver]
                ELSE NoChange]
      BY <1>1 DEF ChangesSince, RowsSince, NoChanges
    <3> HIDE DEF mine, changes
    <3>2. changes[c] = NoChange \/ (mine[c].local /\ changes[c].rank = mine[c].rank)
      BY <3>1
    <3> QED BY <3>2 DEF mine, changes
  <2>2. rows[Home[pull[a].peer]][c].rank \in Nat
    BY <1>1 DEF TypeOK, Row
  <2>3. NoChange.rank = 0
    BY DEF NoChange
  <2>4. HasSource(rows, c, rows[Home[pull[a].peer]][c].rank)
           \/ ~rows[Home[pull[a].peer]][c].local
    BY <1>1, <2>2 DEF HasSource
  <2> QED BY <2>1, <2>3, <2>4
<1> QED BY <1>1, <1>2 DEF SourceOK

(* A write is its own source, and a newer one than its predecessor.        *)
LEMMA WriteSource ==
    ASSUME IInv, SourceOK, NEW d \in Dbs, NEW W \in SUBSET Cells, Write(d, W)
    PROVE  SourceOK'
<1> USE DEF IInv
<1>1. UNCHANGED <<site, used, pull>>
  BY DEF Write
<1> SUFFICES ASSUME Whole, NEW c \in Cells
             PROVE  /\ \A e \in Dbs : rows'[e][c].rank > 0 =>
                          HasSource(rows', c, rows'[e][c].rank)
                    /\ \A a \in Agents : pull[a].changes[c].rank > 0 =>
                          HasSource(rows', c, pull[a].changes[c].rank)
  BY <1>1 DEF SourceOK, Whole, HasSource
<1>2. \A e \in Dbs : rows[e][c].rank \in Nat /\ rows'[e][c].rank \in Nat
  <2>1. \A e \in Dbs : rows[e][c] \in Row
    BY DEF TypeOK
  <2> QED BY <2>1, WriteEffect DEF Row
<1>3. \A e \in Dbs : rows[e][c].local =>
         rows'[e][c].local /\ rows'[e][c].rank >= rows[e][c].rank
  BY <1>2, WriteEffect
<1>4. ASSUME NEW r \in Nat, HasSource(rows, c, r) PROVE HasSource(rows', c, r)
  BY <1>2, <1>3, <1>4 DEF HasSource
<1>5. ASSUME NEW e \in Dbs, rows'[e][c].rank > 0
      PROVE  HasSource(rows', c, rows'[e][c].rank)
  <2>1. CASE rows'[e][c] = rows[e][c]
    BY <1>2, <1>4, <1>5, <2>1 DEF SourceOK
  <2>2. CASE rows'[e][c].local
    BY <1>2, <2>2 DEF HasSource
  <2> QED BY <2>1, <2>2, WriteEffect
<1>6. ASSUME NEW a \in Agents, pull[a].changes[c].rank > 0
      PROVE  HasSource(rows', c, pull[a].changes[c].rank)
  <2>1. pull[a].changes[c].rank \in Nat
    BY DEF TypeOK, Pull, ChangeLists
  <2> QED BY <1>4, <1>6, <2>1 DEF SourceOK
<1> QED BY <1>5, <1>6

(* A merge takes a row its own only for a newer one, whose source is       *)
(* another database then.                                                  *)
LEMMA MergeSource ==
    ASSUME IInv, SourceOK, NEW a \in Agents, MergeReply(a)
    PROVE  SourceOK'
<1> DEFINE d == Home[a]
           changes == pull[a].changes
<1> USE DEF IInv
<1>1. /\ UNCHANGED <<site, used>>
      /\ d \in Dbs /\ changes \in ChangeLists
      /\ rows'[d] = MergedRows(rows[d], clock[d], changes)
      /\ \A e \in Dbs \ {d} : rows'[e] = rows[e]
      /\ \A b \in Agents : pull'[b].changes \in {pull[b].changes, NoChanges}
  <2>1. pull' = [pull EXCEPT ![a] = Idle(a)] /\ Idle(a).changes = NoChanges
    BY DEF MergeReply, Idle
  <2>2. \A b \in Agents : pull'[b].changes \in {pull[b].changes, NoChanges}
    BY <2>1 DEF TypeOK
  <2>3. d \in Dbs /\ changes \in ChangeLists
    BY DEF TypeOK, Pull
  <2>4. /\ rows' = [rows EXCEPT ![d] = MergedRows(rows[d], clock[d], changes)]
        /\ UNCHANGED <<site, used>>
    BY <2>3 DEF MergeReply, TypeOK
  <2> QED BY <2>2, <2>3, <2>4 DEF TypeOK
<1> SUFFICES ASSUME Whole, NEW c \in Cells
             PROVE  /\ \A e \in Dbs : rows'[e][c].rank > 0 =>
                          HasSource(rows', c, rows'[e][c].rank)
                    /\ \A b \in Agents : pull'[b].changes[c].rank > 0 =>
                          HasSource(rows', c, pull'[b].changes[c].rank)
  BY <1>1 DEF SourceOK, Whole, HasSource
<1>2. /\ \A e \in Dbs : rows[e][c].rank \in Nat
      /\ changes[c].rank \in Nat
      /\ \A b \in Agents : pull[b].changes[c].rank \in Nat
  BY <1>1 DEF TypeOK, Row, Pull, ChangeLists
<1>3. IF changes[c].rank > rows[d][c].rank
      THEN rows'[d][c].rank = changes[c].rank
      ELSE rows'[d][c] = rows[d][c]
  BY <1>1 DEF MergedRows, Winners
<1> HIDE DEF d, changes
<1>4. ASSUME NEW r \in Nat, HasSource(rows, c, r) PROVE HasSource(rows', c, r)
  <2>1. PICK e \in Dbs : rows[e][c].local /\ rows[e][c].rank >= r
    BY <1>4 DEF HasSource
  <2>2. CASE rows'[e][c] = rows[e][c]
    BY <2>1, <2>2 DEF HasSource
  <2>3. CASE e = d /\ changes[c].rank > rows[d][c].rank
    <3>1. HasSource(rows, c, changes[c].rank)
      BY <1>2, <2>3 DEF SourceOK, changes
    <3>2. PICK f \in Dbs : rows[f][c].local /\ rows[f][c].rank >= changes[c].rank
      BY <3>1 DEF HasSource
    <3>3. f # d /\ rows[f][c].rank >= r
      BY <1>2, <2>1, <2>3, <3>2
    <3>4. rows'[f][c] = rows[f][c]
      BY <1>1, <3>3
    <3> QED BY <3>2, <3>3, <3>4 DEF HasSource
  <2> QED BY <1>1, <1>3, <2>2, <2>3
<1>5. ASSUME NEW e \in Dbs, rows'[e][c].rank > 0
      PROVE  HasSource(rows', c, rows'[e][c].rank)
  <2>1. CASE rows'[e][c] = rows[e][c]
    BY <1>2, <1>4, <1>5, <2>1 DEF SourceOK
  <2>2. CASE rows'[e][c].rank = changes[c].rank
    BY <1>2, <1>4, <1>5, <2>2 DEF SourceOK, changes
  <2> QED BY <1>1, <1>3, <2>1, <2>2
<1>6. ASSUME NEW b \in Agents, pull'[b].changes[c].rank > 0
      PROVE  HasSource(rows', c, pull'[b].changes[c].rank)
  <2>1. pull'[b].changes = pull[b].changes
    BY <1>1, <1>6 DEF NoChanges, NoChange
  <2> QED BY <1>2, <1>4, <1>6, <2>1 DEF SourceOK
<1> QED BY <1>5, <1>6

(* Once a database is replaced, its old site id stays behind.              *)
LEMMA ReplaceNotWhole ==
    ASSUME IInv, NEW d \in Dbs, NEW s \in Sites, ReplaceDb(d, s)
    PROVE  ~Whole'
<1>1. /\ s \notin used /\ used' = used \cup {s}
      /\ site'[d] = s /\ \A e \in Dbs \ {d} : site'[e] = site[e]
      /\ site[d] \in used
      /\ \A e \in Dbs \ {d} : site[e] # site[d]
  BY DEF ReplaceDb, IInv, TypeOK, SitesOK
<1>2. site[d] \in used' /\ \A e \in Dbs : site'[e] # site[d]
  BY <1>1
<1> QED BY <1>2 DEF Whole

(* Every step keeps the source of all data.                                *)
LEMMA StepSource == IInv /\ SourceOK /\ [Next]_vars => SourceOK'
<1> SUFFICES ASSUME IInv, SourceOK, [Next]_vars PROVE SourceOK'
  OBVIOUS
<1>1. ASSUME NEW d \in Dbs, NEW W \in (SUBSET Cells) \ {{}}, Write(d, W)
      PROVE  SourceOK'
  BY <1>1, WriteSource
<1>2. ASSUME NEW d \in Dbs, NEW s \in Sites, ReplaceDb(d, s)
      PROVE  SourceOK'
  BY <1>2, ReplaceNotWhole DEF SourceOK
<1>3. ASSUME NEW a \in Agents, AnswerChanges(a) PROVE SourceOK'
  BY <1>3, AnswerSource
<1>4. ASSUME NEW a \in Agents, MergeReply(a) PROVE SourceOK'
  BY <1>4, MergeSource
<1>5. ASSUME NEW a \in Agents,
             \/ PushRead(a) \/ PushAnnounce(a) \/ PushFails(a)
             \/ \E p \in Agents : RefreshPeer(a, p)
             \/ SkipPull(a) \/ CallPeer(a) \/ AnswerStatus(a) \/ RejectReply(a)
             \/ PullFails(a) \/ Crash(a)
      PROVE  SourceOK'
  <2>1. \A b \in Agents : Idle(b).changes = NoChanges
    BY DEF Idle
  <2>2. UNCHANGED <<site, used, rows>>
    BY <1>5 DEF PushRead, PushAnnounce, PushFails, RefreshPeer, SkipPull, CallPeer,
                AnswerStatus, RejectReply, PullFails, Crash, dbVars
  <2>3. \A b \in Agents : pull'[b].changes \in {pull[b].changes, NoChanges}
    <3>1. CASE PushRead(a) \/ PushAnnounce(a) \/ PushFails(a)
      BY <3>1 DEF PushRead, PushAnnounce, PushFails
    <3>2. CASE CallPeer(a) \/ AnswerStatus(a)
      <4>1. CASE CallPeer(a)
        <5>1. pull' = [pull EXCEPT ![a].phase = "calling",
                                   ![a].since = TrackedPeerVersion(a)]
          BY <4>1 DEF CallPeer
        <5> QED BY <5>1 DEF IInv, TypeOK, Pull
      <4>2. CASE AnswerStatus(a)
        <5>1. pull' = [pull EXCEPT ![a].phase = "answering",
                                   ![a].head = StatusOf(Home[pull[a].peer])]
          BY <4>2 DEF AnswerStatus
        <5> QED BY <5>1 DEF IInv, TypeOK, Pull
      <4> QED BY <3>2, <4>1, <4>2
    <3>3. CASE SkipPull(a) \/ RejectReply(a) \/ PullFails(a)
      BY <2>1, <3>3 DEF SkipPull, RejectReply, PullFails, IInv, TypeOK, Pull
    <3>4. ASSUME NEW p \in Agents, RefreshPeer(a, p)
          PROVE  \A b \in Agents : pull'[b].changes \in {pull[b].changes, NoChanges}
      BY <2>1, <3>4, IdleType DEF RefreshPeer, IInv, TypeOK, Pull
    <3>5. CASE Crash(a)
      BY <2>1, <3>5 DEF Crash, PullsWithout
    <3> QED BY <1>5, <3>1, <3>2, <3>3, <3>4, <3>5
  <2> QED BY <2>2, <2>3, QuietSource
<1>6. CASE UNCHANGED vars
  BY <1>6, QuietSource DEF vars
<1> QED BY <1>1, <1>2, <1>3, <1>4, <1>5, <1>6 DEF Next, PullStep

(* The source of all data is there in every state.                         *)
LEMMA SourceInvariance == Spec => []SourceOK
BY InitSource, StepSource, Invariance, PTL DEF Spec

-----------------------------------------------------------------------------
(* Convergence.                                                            *)

(* The newest write to a cell is the own row of some database, which all   *)
(* others have tracked when they are in sync.                              *)
THEOREM InSyncMeansSame == Spec => []Converged
<1>1. ASSUME IInv, SourceOK, Whole, InSync,
             NEW d \in Dbs, NEW e \in Dbs, NEW c \in Cells
      PROVE  rows[d][c].rank >= rows[e][c].rank
  <2>1. rows[d][c].rank \in Nat /\ rows[e][c].rank \in Nat
    BY <1>1 DEF IInv, TypeOK, Row
  <2>2. CASE rows[e][c].rank > 0
    <3>1. PICK f \in Dbs : rows[f][c].local /\ rows[f][c].rank >= rows[e][c].rank
      BY <1>1, <2>2 DEF SourceOK, HasSource
    <3>2. CASE f = d
      BY <3>1, <3>2
    <3>3. CASE f # d
      <4>1. rows[f] \in [Cells -> Row] /\ site[f] \in Sites
            /\ tracked[d][site[f]] \in Nat
            /\ rows[f][c].ver \in Nat /\ rows[f][c].rank \in Nat
        BY <1>1 DEF IInv, TypeOK, Row
      <4>2. rows[f][c].ver <= DbVersion(rows[f]) /\ DbVersion(rows[f]) \in Nat
        BY <3>1, <4>1, DbVersionIsMax DEF LocalCells
      <4>3. tracked[d][site[f]] >= DbVersion(rows[f])
        BY <1>1, <3>3 DEF InSync
      <4>4. rows[d][c].rank >= rows[f][c].rank
        BY <1>1, <3>1, <4>1, <4>2, <4>3 DEF IInv, NoMissedChange
      <4> QED BY <2>1, <3>1, <4>1, <4>4
    <3> QED BY <3>2, <3>3
  <2> QED BY <2>1, <2>2
<1>2. ASSUME IInv, SourceOK, Whole, InSync PROVE SameContents
  <2>1. \A d \in Dbs : \A c \in Cells : rows[d][c].rank \in Nat
    BY <1>2 DEF IInv, TypeOK, Row
  <2> SUFFICES ASSUME NEW d \in Dbs, NEW e \in Dbs, NEW c \in Cells
               PROVE  rows[d][c].rank = rows[e][c].rank
    BY DEF SameContents
  <2>2. rows[d][c].rank >= rows[e][c].rank /\ rows[e][c].rank >= rows[d][c].rank
    BY <1>1, <1>2
  <2> QED BY <2>1, <2>2
<1>3. IInv /\ SourceOK => Converged
  BY <1>2 DEF Converged, Whole
<1> QED BY <1>3, Invariance, SourceInvariance, PTL

-----------------------------------------------------------------------------
(* The refinement of Owed.                                                 *)

(* What the mapping gives for any database, and its types.                 *)
LEMMA RanksType ==
    ASSUME TypeOK, NEW d \in Dbs
    PROVE  /\ Ranks(d) \in [Cells -> Nat]
           /\ \A c \in Cells : Ranks(d)[c] = rows[d][c].rank
           /\ LocalCells(rows[d]) \subseteq Cells
BY DEF Ranks, TypeOK, Row, LocalCells

(* Empty databases owe nothing.                                            *)
LEMMA InitOwed == Init => Promise!Init
<1> SUFFICES ASSUME Init PROVE Promise!Init
  OBVIOUS
<1>1. \A d \in Dbs : rows[d] = [c \in Cells |-> NoRow]
  BY DEF Init, EmptyDb
<1>2. ASSUME NEW d \in Dbs PROVE Ranks(d) = [c \in Cells |-> 0]
  BY <1>1 DEF Ranks, NoRow
<1>3. ASSUME NEW d \in Dbs PROVE LocalCells(rows[d]) = {}
  BY <1>1 DEF LocalCells, NoRow
<1>4. ASSUME NEW d \in Dbs, NEW e \in Dbs PROVE OwedTo(d, e) = {}
  BY <1>3 DEF OwedTo
<1>5. used = {site[d] : d \in Dbs}
  BY DEF Init
<1> QED BY <1>2, <1>3, <1>4, <1>5 DEF Promise!Init

(* A write is owed to everybody: its version is above all that is tracked. *)
LEMMA WriteOwed ==
    ASSUME IInv, NEW d \in Dbs, NEW W \in SUBSET Cells, Write(d, W)
    PROVE  Promise!Write(d, W)
<1> USE DEF IInv
<1>1. /\ UNCHANGED <<site, used, tracked>>
      /\ TypeOK'
  BY WriteKeeps DEF Write
<1>2. PICK rank \in [W -> 1..MaxRank] :
        /\ \A c \in W : rank[c] > rows[d][c].rank
        /\ rows' = [rows EXCEPT ![d] = [c \in Cells |->
                       IF c \in W
                       THEN [rank  |-> rank[c],
                             ver   |-> clock[d] + 1,
                             local |-> TRUE]
                       ELSE rows[d][c]]]
  BY DEF Write
<1>3. /\ \A e \in Dbs \ {d} : rows'[e] = rows[e]
      /\ \A c \in W : /\ rows'[d][c].rank > rows[d][c].rank
                      /\ rows'[d][c].ver = clock[d] + 1
                      /\ rows'[d][c].local
      /\ \A c \in Cells \ W : rows'[d][c] = rows[d][c]
  BY <1>2 DEF TypeOK
<1>4. Promise!Raise(d, W)
  <2>1. \A e \in Dbs : Ranks(e)' \in [Cells -> Nat]
    BY <1>1 DEF Ranks, TypeOK, Row
  <2>2. \A e \in Dbs \ {d} : Ranks(e)' = Ranks(e)
    BY <1>3 DEF Ranks
  <2>3. \A c \in W : Ranks(d)'[c] > Ranks(d)[c]
    BY <1>3 DEF Ranks
  <2>4. \A c \in Cells \ W : Ranks(d)'[c] = Ranks(d)[c]
    BY <1>3 DEF Ranks
  <2> QED BY <2>1, <2>2, <2>3, <2>4 DEF Promise!Raise
<1>5. LocalCells(rows'[d]) = LocalCells(rows[d]) \cup W
  BY <1>3 DEF LocalCells
<1>6. \A e \in Dbs \ {d} : LocalCells(rows'[e]) = LocalCells(rows[e])
  BY <1>3
<1>7. ASSUME NEW e \in Dbs \ {d}, NEW x \in Dbs
      PROVE  OwedTo(e, x)' = OwedTo(e, x)
  BY <1>1, <1>3 DEF OwedTo
<1>8. ASSUME NEW x \in Dbs
      PROVE  OwedTo(d, x)' = OwedTo(d, x) \cup W
  <2>1. tracked[x][site[d]] < clock[d] + 1
    BY DEF TypeOK, TrackedIsCommitted
  <2>2. OwedTo(d, x)' = {c \in LocalCells(rows[d]) \cup W :
                            rows'[d][c].ver > tracked[x][site[d]]}
    BY <1>1, <1>5 DEF OwedTo
  <2>3. \A c \in LocalCells(rows[d]) \ W : rows'[d][c] = rows[d][c]
    BY <1>3 DEF LocalCells
  <2>4. \A c \in W : rows'[d][c].ver > tracked[x][site[d]]
    BY <1>3, <2>1 DEF TypeOK
  <2>5. OwedTo(d, x) = {c \in LocalCells(rows[d]) :
                           rows[d][c].ver > tracked[x][site[d]]}
    BY DEF OwedTo
  <2> DEFINE mine == LocalCells(rows[d])
             seen == tracked[x][site[d]]
             before == rows[d]
             after == rows'[d]
             next == {c \in mine \cup W : after[c].ver > seen}
  <2>6. \A c \in mine \ W : after[c] = before[c]
    BY <2>3
  <2>7. \A c \in W : after[c].ver > seen
    BY <2>4
  <2> HIDE DEF mine, seen, before, after
  <2>8. next = {c \in mine : before[c].ver > seen} \cup W
    BY <2>6, <2>7
  <2>9. OwedTo(d, x)' = next
    BY <2>2 DEF mine, seen, after
  <2>10. OwedTo(d, x) = {c \in mine : before[c].ver > seen}
    BY <2>5 DEF mine, seen, before
  <2> HIDE DEF next
  <2> QED BY <2>8, <2>9, <2>10
<1> DEFINE Owns == [x \in Dbs |-> LocalCells(rows[x])]
           Owes == [e \in Dbs |-> [x \in Dbs |-> OwedTo(e, x)]]
           OwesNext == [e \in Dbs |-> [x \in Dbs |-> OwedTo(e, x)']]
<1>9. [x \in Dbs |-> LocalCells(rows'[x])] = [Owns EXCEPT ![d] = @ \cup W]
  BY <1>5, <1>6
<1>10. OwesNext = [Owes EXCEPT ![d] = [x \in Dbs |-> @[x] \cup W]]
  <2>1. \A e \in Dbs \ {d} : OwesNext[e] = Owes[e]
    BY <1>7
  <2>2. OwesNext[d] = [x \in Dbs |-> Owes[d][x] \cup W]
    BY <1>8
  <2> HIDE DEF Owes
  <2> QED BY <2>1, <2>2 DEF Owes
<1> QED BY <1>1, <1>4, <1>9, <1>10 DEF Promise!Write

(* A merge takes over what wins, and ticks off only what is then held: an  *)
(* answer is complete up to the version the merge tracks.                  *)
LEMMA MergeOwed ==
    ASSUME IInv, SourceOK, NEW a \in Agents, MergeReply(a)
    PROVE  \E C \in SUBSET Cells : Promise!TakeOver(Home[a], C)
<1> DEFINE d == Home[a]
           changes == pull[a].changes
           C == Winners(rows[d], changes)
<1> USE DEF IInv
<1>1. /\ UNCHANGED <<site, used>>
      /\ TypeOK' /\ NoMissedChange'
      /\ d \in Dbs /\ changes \in ChangeLists
      /\ rows'[d] = MergedRows(rows[d], clock[d], changes)
      /\ \A e \in Dbs \ {d} : rows'[e] = rows[e]
      /\ \A e \in Dbs \ {d} : tracked'[e] = tracked[e]
      /\ \A s \in Sites : tracked'[d][s] >= tracked[d][s]
  <2>1. d \in Dbs /\ changes \in ChangeLists
    BY DEF TypeOK, Pull
  <2>2. /\ rows' = [rows EXCEPT ![d] = MergedRows(rows[d], clock[d], changes)]
        /\ \E v : tracked' = [tracked EXCEPT ![d] = v]
        /\ UNCHANGED <<site, used>>
    BY <2>1 DEF MergeReply, TypeOK
  <2>3. \A s \in Sites : tracked'[d][s] >= tracked[d][s]
    BY <2>1, MergeEffect
  <2>4. TypeOK' /\ NoMissedChange'
    BY MergeReplyKeeps
  <2> QED BY <2>1, <2>2, <2>3, <2>4 DEF TypeOK
<1>2. /\ C \subseteq Cells
      /\ \A c \in C : /\ rows'[d][c].rank = changes[c].rank
                      /\ changes[c].rank > rows[d][c].rank
                      /\ ~rows'[d][c].local
      /\ \A c \in Cells \ C : rows'[d][c] = rows[d][c]
  BY <1>1 DEF Winners, MergedRows
<1> HIDE DEF C, changes, d
<1>3. Promise!Raise(d, C)
  <2>1. \A e \in Dbs : Ranks(e)' \in [Cells -> Nat]
    BY <1>1 DEF Ranks, TypeOK, Row
  <2>2. \A e \in Dbs \ {d} : Ranks(e)' = Ranks(e)
    BY <1>1 DEF Ranks
  <2>3. \A c \in C : Ranks(d)'[c] > Ranks(d)[c]
    BY <1>2 DEF Ranks
  <2>4. \A c \in Cells \ C : Ranks(d)'[c] = Ranks(d)[c]
    BY <1>2 DEF Ranks
  <2> QED BY <1>1, <2>1, <2>2, <2>3, <2>4 DEF Promise!Raise
<1>4. ASSUME NEW c \in C, Whole
      PROVE  Promise!Sourced(c, Ranks(d)'[c])
  <2>1. c \in Cells /\ Ranks(d)'[c] = changes[c].rank /\ changes[c].rank > 0
    BY <1>1, <1>2 DEF Ranks, TypeOK, Row, ChangeLists
  <2>2. PICK e \in Dbs : rows[e][c].local /\ rows[e][c].rank >= changes[c].rank
    BY <1>4, <2>1 DEF SourceOK, HasSource, changes
  <2>3. c \in LocalCells(rows[e]) /\ Ranks(e)[c] >= changes[c].rank
    BY <2>1, <2>2 DEF LocalCells, Ranks
  <2> QED BY <2>1, <2>3 DEF Promise!Sourced
<1>5. LocalCells(rows'[d]) = LocalCells(rows[d]) \ C
  BY <1>2 DEF LocalCells
<1>6. \A e \in Dbs \ {d} : LocalCells(rows'[e]) = LocalCells(rows[e])
  BY <1>1
<1>7. ASSUME NEW e \in Dbs \ {d}, NEW x \in Dbs \ {d}
      PROVE  OwedTo(e, x)' = OwedTo(e, x)
  BY <1>1 DEF OwedTo
<1>8. ASSUME NEW x \in Dbs \ {d}
      PROVE  OwedTo(d, x)' = OwedTo(d, x) \ C
  <2>1. \A c \in LocalCells(rows[d]) \ C : rows'[d][c] = rows[d][c]
    BY <1>2 DEF LocalCells
  <2> QED BY <1>1, <1>5, <2>1 DEF OwedTo
<1>9. ASSUME NEW e \in Dbs
      PROVE  /\ OwedTo(e, d)' \subseteq OwedTo(e, d)
             /\ \A c \in OwedTo(e, d) \ OwedTo(e, d)' :
                   Ranks(d)'[c] >= Ranks(e)[c]
  <2>1. /\ tracked[d][site[e]] \in Nat /\ tracked'[d][site[e]] \in Nat
        /\ tracked'[d][site[e]] >= tracked[d][site[e]]
    BY <1>1 DEF TypeOK
  <2>2. \A c \in LocalCells(rows'[e]) :
           c \in LocalCells(rows[e]) /\ rows'[e][c] = rows[e][c]
    BY <1>1, <1>2, <1>5, <1>6 DEF LocalCells
  <2>3. \A c \in LocalCells(rows[e]) : rows[e][c].ver \in Nat
    BY DEF TypeOK, Row, LocalCells
  <2>4. OwedTo(e, d)' \subseteq OwedTo(e, d)
    BY <1>1, <2>1, <2>2, <2>3 DEF OwedTo
  <2>5. ASSUME NEW c \in OwedTo(e, d) \ OwedTo(e, d)'
        PROVE  Ranks(d)'[c] >= Ranks(e)[c]
    <3>1. /\ c \in Cells /\ rows[e][c].local
          /\ Ranks(d)'[c] = rows'[d][c].rank /\ Ranks(e)[c] = rows[e][c].rank
          /\ rows'[d][c].rank \in Nat /\ rows[e][c].rank \in Nat
      BY <1>1 DEF OwedTo, LocalCells, Ranks, TypeOK, Row
    <3>2. CASE e # d
      <4>1. rows'[e] = rows[e] /\ ~(rows'[e][c].ver > tracked'[d][site'[e]])
        BY <1>1, <2>5, <3>1, <3>2 DEF OwedTo, LocalCells
      <4>2. rows'[e][c].ver <= tracked'[d][site'[e]]
        BY <1>1, <2>1, <2>3, <3>1, <4>1 DEF LocalCells
      <4> QED BY <1>1, <3>1, <4>1, <4>2 DEF NoMissedChange
    <3>3. CASE e = d
      <4>1. c \in C \/ rows'[d][c] = rows[d][c]
        BY <1>2, <3>1
      <4> QED BY <1>2, <3>1, <3>3, <4>1
    <3> QED BY <3>2, <3>3
  <2> QED BY <2>4, <2>5
<1>10. \A e, x \in Dbs : OwedTo(e, x)' \in SUBSET Cells
  BY DEF OwedTo, LocalCells
<1>11. Promise!TakeOver(d, C)
  <2> DEFINE Ranked == [x \in Dbs |-> Ranks(x)']
             Owns == [x \in Dbs |-> LocalCells(rows[x])]
             Owes == [e \in Dbs |-> [x \in Dbs |-> OwedTo(e, x)]]
             OwesNext == [e \in Dbs |-> [x \in Dbs |-> OwedTo(e, x)']]
  <2>1. \A c \in C : \/ used # {site[x] : x \in Dbs}
                     \/ Promise!Sourced(c, Ranked[d][c])
    BY <1>1, <1>4 DEF Whole
  <2>2. [x \in Dbs |-> LocalCells(rows'[x])] = [Owns EXCEPT ![d] = @ \ C]
    BY <1>1, <1>5, <1>6
  <2>3. /\ OwesNext \in [Dbs -> [Dbs -> SUBSET Cells]]
        /\ \A e, x \in Dbs \ {d} : OwesNext[e][x] = Owes[e][x]
        /\ \A x \in Dbs \ {d} : OwesNext[d][x] = Owes[d][x] \ C
    BY <1>1, <1>7, <1>8, <1>10
  <2>4. \A e \in Dbs :
           /\ OwesNext[e][d] \subseteq Owes[e][d]
           /\ \A c \in Owes[e][d] \ OwesNext[e][d] :
                 Ranked[d][c] >= [x \in Dbs |-> Ranks(x)][e][c]
    BY <1>1, <1>9
  <2>5. UNCHANGED (used # {site[x] : x \in Dbs})
    BY <1>1
  <2> QED BY <1>3, <2>1, <2>2, <2>3, <2>4, <2>5 DEF Promise!TakeOver
<1> QED BY <1>2, <1>11 DEF d

(* A replaced database holds nothing, and all others' own rows are owed to *)
(* it: nothing is tracked in it.                                           *)
LEMMA ReplaceOwed ==
    ASSUME IInv, NEW d \in Dbs, NEW s \in Sites, ReplaceDb(d, s)
    PROVE  Promise!Replace(d)
<1> USE DEF IInv
<1>1. /\ rows' = [rows EXCEPT ![d] = EmptyDb]
      /\ rows'[d] = [c \in Cells |-> NoRow]
      /\ \A e \in Dbs \ {d} : rows'[e] = rows[e] /\ site'[e] = site[e]
      /\ \A t \in Sites : tracked'[d][t] = 0
      /\ \A x \in Dbs \ {d} : tracked'[x] = tracked[x]
  BY DEF ReplaceDb, EmptyDb, TypeOK
<1>2. ~Whole'
  BY ReplaceNotWhole
<1>3. [x \in Dbs |-> Ranks(x)'] = [[x \in Dbs |-> Ranks(x)] EXCEPT
                                     ![d] = [c \in Cells |-> 0]]
  <2>1. \A x \in Dbs \ {d} : Ranks(x)' = Ranks(x)
    BY <1>1 DEF Ranks
  <2>2. Ranks(d)' = [c \in Cells |-> 0]
    BY <1>1 DEF Ranks, NoRow
  <2> QED BY <2>1, <2>2
<1>4. LocalCells(rows'[d]) = {}
  BY <1>1 DEF LocalCells, NoRow
<1>5. \A x \in Dbs \ {d} : LocalCells(rows'[x]) = LocalCells(rows[x])
  BY <1>1
<1>6. [x \in Dbs |-> LocalCells(rows'[x])] =
         [[x \in Dbs |-> LocalCells(rows[x])] EXCEPT ![d] = {}]
  BY <1>4, <1>5
<1>7. ASSUME NEW x \in Dbs PROVE OwedTo(d, x)' = {}
  BY <1>4 DEF OwedTo
<1>8. ASSUME NEW e \in Dbs \ {d}, NEW x \in Dbs \ {d}
      PROVE  OwedTo(e, x)' = OwedTo(e, x)
  BY <1>1 DEF OwedTo
<1>9. ASSUME NEW e \in Dbs \ {d}
      PROVE  OwedTo(e, d)' = LocalCells(rows[e])
  <2>1. tracked'[d][site[e]] = 0
    BY <1>1 DEF TypeOK
  <2>2. \A c \in LocalCells(rows[e]) : rows[e][c].ver > 0
    BY DEF RowsOK, LocalCells
  <2>3. OwedTo(e, d)' = {c \in LocalCells(rows[e]) : rows[e][c].ver > 0}
    BY <1>1, <2>1 DEF OwedTo
  <2> QED BY <2>2, <2>3
<1>10. [e \in Dbs |-> [x \in Dbs |-> OwedTo(e, x)']] =
          [e \in Dbs |-> [x \in Dbs |->
              IF e = d THEN {}
              ELSE IF x = d THEN [y \in Dbs |-> LocalCells(rows[y])][e]
              ELSE [f \in Dbs |-> [y \in Dbs |-> OwedTo(f, y)]][e][x]]]
  BY <1>7, <1>8, <1>9
<1> QED BY <1>2, <1>3, <1>6, <1>10 DEF Promise!Replace, Whole

(* A step that leaves the databases alone changes nothing that is promised. *)
LEMMA QuietOwed ==
    ASSUME UNCHANGED dbVars
    PROVE  UNCHANGED Promise!vars
<1>1. UNCHANGED <<site, used, rows, tracked>>
  BY DEF dbVars
<1>2. /\ UNCHANGED [d \in Dbs |-> Ranks(d)]
      /\ UNCHANGED [d \in Dbs |-> LocalCells(rows[d])]
      /\ UNCHANGED [e \in Dbs |-> [d \in Dbs |-> OwedTo(e, d)]]
      /\ UNCHANGED (used # {site[d] : d \in Dbs})
  BY <1>1 DEF Ranks, LocalCells, OwedTo
<1> QED BY <1>2 DEF Promise!vars

(* Every step is one of Owed, or looks like nothing.                       *)
LEMMA StepOwed ==
    ASSUME IInv, SourceOK, [Next]_vars
    PROVE  [Promise!Next]_(Promise!vars)
<1>1. ASSUME NEW d \in Dbs, NEW W \in (SUBSET Cells) \ {{}}, Write(d, W)
      PROVE  Promise!Next
  BY <1>1, WriteOwed DEF Promise!Next
<1>2. ASSUME NEW d \in Dbs, NEW s \in Sites, ReplaceDb(d, s)
      PROVE  Promise!Next
  BY <1>2, ReplaceOwed DEF Promise!Next
<1>3. ASSUME NEW a \in Agents, MergeReply(a) PROVE Promise!Next
  <2>1. Home[a] \in Dbs
    BY HomeAssumption
  <2> QED BY <1>3, <2>1, MergeOwed DEF Promise!Next
<1>4. ASSUME NEW a \in Agents,
             \/ PushRead(a) \/ PushAnnounce(a) \/ PushFails(a)
             \/ \E p \in Agents : RefreshPeer(a, p)
             \/ SkipPull(a) \/ CallPeer(a) \/ AnswerStatus(a) \/ AnswerChanges(a)
             \/ RejectReply(a) \/ PullFails(a) \/ Crash(a)
      PROVE  UNCHANGED Promise!vars
  <2>1. UNCHANGED dbVars
    BY <1>4 DEF PushRead, PushAnnounce, PushFails, RefreshPeer, SkipPull, CallPeer,
                AnswerStatus, AnswerChanges, RejectReply, PullFails, Crash, dbVars
  <2> QED BY <2>1, QuietOwed
<1>5. CASE UNCHANGED vars
  BY <1>5, QuietOwed DEF vars, dbVars
<1> QED BY <1>1, <1>2, <1>3, <1>4, <1>5 DEF Next, PullStep

(* For any number of databases and agents: a write stays owed to each node *)
(* until that node holds it or a newer one (pull_from, DB::merge).         *)
THEOREM Refines == Spec => ImplementsOwed
<1>1. IInv /\ SourceOK /\ [Next]_vars => [Promise!Next]_(Promise!vars)
  BY StepOwed
<1> QED BY InitOwed, <1>1, Invariance, SourceInvariance, PTL
        DEF Spec, ImplementsOwed, Promise!Spec
=============================================================================
