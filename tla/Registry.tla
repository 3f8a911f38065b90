------------------------------- MODULE Registry -------------------------------
(***************************************************************************)
(* What a state directory promises, whatever happens to the processes that *)
(* use it: an identity is adopted once and never replaced, unless two      *)
(* processes ran before there was one; remotes change only as a caller has *)
(* asked for, one at a time and each in one step; and a caller is told     *)
(* "ok" only when its change has been made.  A change of the remotes gives *)
(* a name an address; removing gives it NoAddr.                            *)
(***************************************************************************)
CONSTANTS
    Procs,      \* processes that use the directory
    Keys,       \* keys of DHT records
    Names,      \* names of remotes
    Addrs,      \* addresses of remotes
    NoKey,
    NoAddr

VARIABLES
    identity,   \* the adopted key, or NoKey
    remotes,    \* the address of each name
    work,       \* the change each process has been asked for
    told,       \* what the last caller of each process was told
    contested   \* two processes ran before there was an identity

vars == <<identity, remotes, work, told, contested>>

Resting == [phase |-> "rest"]

Init ==
    /\ identity = NoKey
    /\ remotes = [n \in Names |-> NoAddr]
    /\ work = [p \in Procs |-> Resting]
    /\ told = [p \in Procs |-> "nothing"]
    /\ contested = FALSE

Contest ==
    /\ identity = NoKey
    /\ contested' = TRUE
    /\ UNCHANGED <<identity, remotes, work, told>>

Adopt(k) ==
    /\ identity = NoKey \/ contested
    /\ identity' = k
    /\ UNCHANGED <<remotes, work, told, contested>>

Ask(p, n, a) ==
    /\ work[p].phase = "rest"
    /\ work' = [work EXCEPT ![p] = [phase |-> "asked", name |-> n, addr |-> a]]
    /\ UNCHANGED <<identity, remotes, told, contested>>

Made(p) == remotes' = [remotes EXCEPT ![work[p].name] = work[p].addr]

Make(p) ==
    /\ work[p].phase = "asked"
    /\ Made(p)
    /\ work' = [work EXCEPT ![p] =
           [phase |-> "made", name |-> work[p].name, addr |-> work[p].addr]]
    /\ UNCHANGED <<identity, told, contested>>

(* The change is made by the time its caller is told so.                   *)
Confirm(p) ==
    /\ \/ work[p].phase = "asked" /\ Made(p)
       \/ work[p].phase = "made" /\ UNCHANGED remotes
    /\ work' = [work EXCEPT ![p] = Resting]
    /\ told' = [told EXCEPT ![p] = "ok"]
    /\ UNCHANGED <<identity, contested>>

(* After an error the change may have been made or not.                    *)
Refuse(p) ==
    /\ work[p].phase # "rest"
    /\ work' = [work EXCEPT ![p] = Resting]
    /\ told' = [told EXCEPT ![p] = "error"]
    /\ UNCHANGED <<identity, remotes, contested>>

Die(p) ==
    /\ work' = [work EXCEPT ![p] = Resting]
    /\ told' = [told EXCEPT ![p] = "nothing"]
    /\ UNCHANGED <<identity, remotes, contested>>

Next ==
    \/ Contest
    \/ \E k \in Keys : Adopt(k)
    \/ \E p \in Procs :
          \/ \E n \in Names, a \in Addrs \cup {NoAddr} : Ask(p, n, a)
          \/ Make(p)
          \/ Confirm(p)
          \/ Refuse(p)
          \/ Die(p)

Spec == Init /\ [][Next]_vars
=============================================================================
