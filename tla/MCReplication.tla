---------------------------- MODULE MCReplication ----------------------------
(***************************************************************************)
(* Small instances of Replication for TLC.  Databases and site ids are     *)
(* numbers so that each database's first site id can be its own number;    *)
(* the spare site ids bound how often a database can be replaced.          *)
(***************************************************************************)
EXTENDS Replication, TLC

CONSTANTS NDbs, NSites, MaxClock1, MaxClockOthers

MCDbs == 1..NDbs
MCSites == 1..NSites
MCFirstSite == [d \in MCDbs |-> d]
MCMaxClock == [d \in MCDbs |-> IF d = 1 THEN MaxClock1 ELSE MaxClockOthers]

(* Cells are interchangeable: no definition orders or names them.          *)
Symmetry == Permutations(Cells)

(* One agent per database, each with all the others as remotes.            *)
SingleHome == [a \in Agents |-> a]
FullMesh == [a \in Agents |-> Agents \ {a}]

(* Agents 1 and 3 share database 1: `ddcp pull` run beside `ddcp serve`.   *)
SharedHome == [a \in Agents |-> IF a = 2 THEN 2 ELSE 1]
SharedRemotes == [a \in Agents |-> IF a = 2 THEN {1, 3} ELSE {2}]

(* Agent 2 has added agent 1, which has no remotes.                        *)
OneSided == [a \in Agents |-> IF a = 2 THEN {1} ELSE {}]
=============================================================================
