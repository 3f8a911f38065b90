---------------------------------- MODULE Call ----------------------------------
(***************************************************************************)
(* What one pull promises as long as both nodes run: a call that may get   *)
(* lost, but that nothing between the two changes.  The caller reads the   *)
(* announcement as it was made; if the server knows the caller and the     *)
(* request, it answers that request; the caller merges the answer if it is *)
(* acceptable after that announcement, and refuses it only if it is not.   *)
(* There are no encodings and no keys.                                     *)
(***************************************************************************)
CONSTANTS
    Announcements,
    Requests,
    Known,          \* the requests the server can answer
    Replies,        \* pairs of a request and an answer that may be given to it
    Acceptable      \* pairs of an announcement and an answer to merge after it

VARIABLES
    known,          \* the caller is a remote of the server
    announced,      \* what the server has announced
    read,           \* what the caller knows of it
    asked,          \* the request
    answered,       \* the answer
    outcome         \* what the caller has made of it

vars == <<known, announced, read, asked, answered, outcome>>

None == [is |-> "none"]

Init ==
    /\ known \in BOOLEAN
    /\ announced = None
    /\ read = None
    /\ asked = None
    /\ answered = None
    /\ outcome = None

Announce ==
    /\ announced = None
    /\ announced' \in Announcements
    /\ UNCHANGED <<known, read, asked, answered, outcome>>

Read ==
    /\ announced # None /\ read = None
    /\ read' = announced
    /\ UNCHANGED <<known, announced, asked, answered, outcome>>

Ask ==
    /\ read # None /\ asked = None
    /\ asked' \in Requests
    /\ UNCHANGED <<known, announced, read, answered, outcome>>

Answer ==
    /\ known /\ asked \in Known /\ answered = None /\ outcome = None
    /\ <<asked, answered'>> \in Replies
    /\ UNCHANGED <<known, announced, read, asked, outcome>>

Merge ==
    /\ answered # None /\ outcome = None
    /\ <<read, answered>> \in Acceptable
    /\ outcome' = [is |-> "merged", resp |-> answered]
    /\ UNCHANGED <<known, announced, read, asked, answered>>

Refuse ==
    /\ answered # None /\ outcome = None
    /\ <<read, answered>> \notin Acceptable
    /\ outcome' = [is |-> "error"]
    /\ UNCHANGED <<known, announced, read, asked, answered>>

Lose ==
    /\ asked # None /\ outcome = None
    /\ outcome' = [is |-> "timeout"]
    /\ UNCHANGED <<known, announced, read, asked, answered>>

Next == Announce \/ Read \/ Ask \/ Answer \/ Merge \/ Refuse \/ Lose

Spec == Init /\ [][Next]_vars
=============================================================================
