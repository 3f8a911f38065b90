----------------------------- MODULE CrrDatabase -----------------------------
(***************************************************************************)
(* The SQLite database of one ddcp node, as src/db.rs sees it through the  *)
(* cr-sqlite extension: what its three queries return and what its merge   *)
(* transaction does.  Everything here is a pure operator on a database's   *)
(* contents; modules with state (Replication) apply them.                  *)
(*                                                                         *)
(* A database is a function from Cells (a cell stands for a unit cr-sqlite *)
(* resolves by itself: table, primary key, column) to rows of              *)
(* crsql_changes.  Of a row only three things can be told apart by the     *)
(* code or by a property:                                                  *)
(*   rank   its place in cr-sqlite's total order of competing writes to a  *)
(*          cell (causal length, then column version, then value); 0 when  *)
(*          the cell was never written;                                    *)
(*   ver    its db_version, the transaction that last wrote it here;       *)
(*   local  site_id is null, that is, the last writer was this database.   *)
(*                                                                         *)
(* cr-sqlite is not part of the repository.  Winners, MergedRows and          *)
(* MergedClock say what the code needs of it and are marked external.      *)
(***************************************************************************)
EXTENDS Naturals, FiniteSets

CONSTANT Cells

ASSUME CellsAssumption == IsFiniteSet(Cells)

Row == [rank : Nat, ver : Nat, local : BOOLEAN]

NoRow == [rank |-> 0, ver |-> 0, local |-> FALSE]

EmptyDb == [c \in Cells |-> NoRow]

(* A Vec<Change>.  crsql_changes holds one row per cell, so a list gives   *)
(* each cell at most one change; a cell that is not in the list has        *)
(* version 0, which no change has.                                         *)
ChangeLists == [Cells -> [rank : Nat, ver : Nat]]

NoChange == [rank |-> 0, ver |-> 0]

NoChanges == [c \in Cells |-> NoChange]

-----------------------------------------------------------------------------
(* Queries.                                                                *)

(* coalesce(max(S), 0)                                                     *)
MaxOrZero(S) == CHOOSE v \in S \cup {0} : \A w \in S : w <= v

LocalCells(rows) == {c \in Cells : rows[c].local}

(* Mutant of DbVersion: `where site_id is null` is left out.               *)
DbVersionOfAll(rows) == MaxOrZero({rows[c].ver : c \in Cells})

(* DB::status: coalesce((select max(db_version) from crsql_changes where   *)
(* site_id is null), 0).  It can go down: a merge that wins a cell takes   *)
(* its row out of the maximum.                                             *)
DbVersion(rows) == MaxOrZero({rows[c].ver : c \in LocalCells(rows)})

(* Mutant of RowsSince: the first row after `since` is left out.           *)
RowsSinceOffByOne(rows, since) ==
    [c \in Cells |->
        IF rows[c].local /\ rows[c].ver > since + 1
        THEN [rank |-> rows[c].rank, ver |-> rows[c].ver]
        ELSE NoChange]

(* The rows a peer is sent for `since`, as DB::changes selects them.       *)
RowsSince(rows, since) ==
    [c \in Cells |->
        IF rows[c].local /\ rows[c].ver > since
        THEN [rank |-> rows[c].rank, ver |-> rows[c].ver]
        ELSE NoChange]

(* DB::changes as a whole.  `version` is what its own call of DB::status   *)
(* returned; `rows` is the database at the later query.                    *)
ChangesSince(rows, version, since) ==
    IF since >= version THEN NoChanges ELSE RowsSince(rows, since)

(* max_db_version of DB::merge                                             *)
MaxDbVersion(changes) == MaxOrZero({changes[c].ver : c \in Cells})

-----------------------------------------------------------------------------
(* The merge transaction.                                                  *)

(* External: the cells at which an insert into crsql_changes takes effect. *)
Winners(rows, changes) ==
    {c \in Cells : changes[c].rank > rows[c].rank}

(* External: cr-sqlite numbers a merge with effect above every version it  *)
(* has seen; one without effect does not advance the database's version.   *)
MergedClock(rows, clk, changes) ==
    IF Winners(rows, changes) = {}
    THEN clk
    ELSE MaxOrZero({clk + 1} \cup
                   {changes[c].ver : c \in Winners(rows, changes)})

(* External: a winning cell takes the peer's write and the peer's site_id. *)
MergedRows(rows, clk, changes) ==
    [c \in Cells |->
        IF c \in Winners(rows, changes)
        THEN [rank  |-> changes[c].rank,
              ver   |-> MergedClock(rows, clk, changes),
              local |-> FALSE]
        ELSE rows[c]]

(* Mutants of TrackedAfter: the version to start from next time is stored; *)
(* the stored version is overwritten by that of the latest answer.         *)
TrackedNext(version, changes) ==
    IF MaxDbVersion(changes) > version
    THEN MaxDbVersion(changes) + 1
    ELSE version

TrackedLatest(version, changes) == MaxDbVersion(changes)

(* insert into crsql_tracked_peers ... on conflict do update set           *)
(* version = max(version, excluded.version)                                *)
TrackedAfter(version, changes) ==
    IF MaxDbVersion(changes) > version THEN MaxDbVersion(changes) ELSE version
=============================================================================
