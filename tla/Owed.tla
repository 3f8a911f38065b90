---------------------------------- MODULE Owed ----------------------------------
(***************************************************************************)
(* What replication promises, without versions, announcements, requests    *)
(* and answers: a write is owed by the node that made it to every other    *)
(* node until that node holds it or a newer one, and it is served by       *)
(* nobody but its node.  Values are compared by rank; rank 0 is no value.  *)
(*                                                                         *)
(* A node may be replaced by an empty one; what only the old one held is  *)
(* lost, and what is then under way may reappear.                          *)
(***************************************************************************)
EXTENDS Naturals

CONSTANTS
    Nodes,      \* databases
    Cells       \* what they hold values of

VARIABLES
    holds,      \* the rank of each cell's value at each node
    owns,       \* the cells whose value at a node is its own write
    owes,       \* the cells each node has yet to bring to each other
    replaced    \* some node has been replaced

vars == <<holds, owns, owes, replaced>>

Init ==
    /\ holds = [n \in Nodes |-> [c \in Cells |-> 0]]
    /\ owns = [n \in Nodes |-> {}]
    /\ owes = [n \in Nodes |-> [m \in Nodes |-> {}]]
    /\ replaced = FALSE

(* Node n comes to hold newer values of the cells C.                       *)
Raise(n, C) ==
    /\ holds' \in [Nodes -> [Cells -> Nat]]
    /\ \A m \in Nodes \ {n} : holds'[m] = holds[m]
    /\ \A c \in C : holds'[n][c] > holds[n][c]
    /\ \A c \in Cells \ C : holds'[n][c] = holds[n][c]

Write(n, C) ==
    /\ Raise(n, C)
    /\ owns' = [owns EXCEPT ![n] = @ \cup C]
    /\ owes' = [owes EXCEPT ![n] = [m \in Nodes |-> @[m] \cup C]]
    /\ UNCHANGED replaced

(* Some node has made this write to c, or a newer one.                     *)
Sourced(c, rank) == \E m \in Nodes : c \in owns[m] /\ holds[m][c] >= rank

(* Node n takes over newer values of C, which are not its own then.  What  *)
(* it held of them it no longer owes, and what is no longer owed to it, it *)
(* holds.                                                                  *)
TakeOver(n, C) ==
    /\ Raise(n, C)
    /\ \A c \in C : replaced \/ Sourced(c, holds'[n][c])
    /\ owns' = [owns EXCEPT ![n] = @ \ C]
    /\ owes' \in [Nodes -> [Nodes -> SUBSET Cells]]
    /\ \A m, o \in Nodes \ {n} : owes'[m][o] = owes[m][o]
    /\ \A o \in Nodes \ {n} : owes'[n][o] = owes[n][o] \ C
    /\ \A m \in Nodes :
          /\ owes'[m][n] \subseteq owes[m][n]
          /\ \A c \in owes[m][n] \ owes'[m][n] : holds'[n][c] >= holds[m][c]
    /\ UNCHANGED replaced

Replace(n) ==
    /\ holds' = [holds EXCEPT ![n] = [c \in Cells |-> 0]]
    /\ owns' = [owns EXCEPT ![n] = {}]
    /\ owes' = [m \in Nodes |-> [o \in Nodes |->
                   IF m = n THEN {} ELSE IF o = n THEN owns[m] ELSE owes[m][o]]]
    /\ replaced' = TRUE

Next ==
    \E n \in Nodes :
        \/ Replace(n)
        \/ \E C \in SUBSET Cells : Write(n, C) \/ TakeOver(n, C)

Spec == Init /\ [][Next]_vars
=============================================================================
