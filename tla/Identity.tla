------------------------------- MODULE Identity -------------------------------
(***************************************************************************)
(* The state directory of a node: its own identity and its remotes, in two *)
(* tables of Veilid's table store and in the memory of the processes that  *)
(* have it open.  A process starts with Conclave::new, which loads the     *)
(* identity or creates one (Sovereign::load, Sovereign::init) and loads    *)
(* the remotes (Peer::load_all); then it may add and remove remotes        *)
(* (DDCP::remote_add, DDCP::remote_remove).  Every step between two awaits *)
(* is an action; a process can die at each.  Nothing keeps two processes   *)
(* from using the directory together, as `ddcp remote add` does beside a   *)
(* running `ddcp serve`.                                                   *)
(*                                                                         *)
(* A key stands for a DHT record; its owner key pair is known by the same  *)
(* key.                                                                    *)
(***************************************************************************)
CONSTANTS
    Procs,      \* processes that use the state directory
    Keys,       \* bound: the DHT records that can be created
    Names,      \* names of remotes
    Addrs,      \* addresses of remotes
    NoKey,
    NoAddr

ASSUME NothingAssumption == NoKey \notin Keys /\ NoAddr \notin Addrs

VARIABLES
    storedKey,  \* column 0 of table ddcp_conclave_local
    storedPair, \* column 1 of table ddcp_conclave_local
    table,      \* table ddcp_conclave_remotes
    created,    \* the DHT records created so far
    pc,         \* the next step of each process
    back,       \* the processes whose init is reading the identity back
    fresh,      \* the record init has created
    sov,        \* Sovereign in memory: its key and its key pair
    toLoad,     \* the names load_all has yet to load
    peers,      \* Conclave.remotes in memory
    op,         \* the change of the remotes in progress
    told,       \* history: what the last caller was told
    doubtful,   \* history: the names whose last change returned an error, or
                \* that another process has changed since this one listed them
    raced       \* history: two processes ran before there was an identity

local == <<storedKey, storedPair, created>>
loading == <<back, fresh, sov, toLoad>>
changing == <<op, told, doubtful>>
vars == <<local, table, pc, loading, peers, changing, raced>>

NoSov == [key |-> NoKey, pair |-> NoKey]
NoPeers == [n \in Names |-> NoAddr]
NoOp == [addr |-> NoAddr]
Ops == [name : Names, addr : Addrs \cup {NoAddr}]

Starting == {"loadKey", "loadPair", "open", "create", "storeKey", "storePair",
             "list", "loadPeers"}
Changing == {"storePeer", "readPeer", "deletePeer"}
Listed == {"loadPeers", "up"} \cup Changing

TypeOK ==
    /\ {storedKey, storedPair} \subseteq Keys \cup {NoKey}
    /\ created \in SUBSET Keys
    /\ table \in [Names -> Addrs \cup {NoAddr}]
    /\ pc \in [Procs -> {"down", "up"} \cup Starting \cup Changing]
    /\ back \in SUBSET Procs
    /\ fresh \in [Procs -> Keys \cup {NoKey}]
    /\ sov \in [Procs -> [key : Keys \cup {NoKey}, pair : Keys \cup {NoKey}]]
    /\ toLoad \in [Procs -> SUBSET Names]
    /\ peers \in [Procs -> [Names -> Addrs \cup {NoAddr}]]
    /\ op \in [Procs -> Ops \cup {NoOp}]
    /\ told \in [Procs -> {"nothing", "ok", "error"}]
    /\ doubtful \in [Procs -> SUBSET Names]
    /\ raced \in BOOLEAN

Init ==
    /\ storedKey = NoKey
    /\ storedPair = NoKey
    /\ created = {}
    /\ table = NoPeers
    /\ pc = [p \in Procs |-> "down"]
    /\ back = {}
    /\ fresh = [p \in Procs |-> NoKey]
    /\ sov = [p \in Procs |-> NoSov]
    /\ toLoad = [p \in Procs |-> {}]
    /\ peers = [p \in Procs |-> NoPeers]
    /\ op = [p \in Procs |-> NoOp]
    /\ told = [p \in Procs |-> "nothing"]
    /\ doubtful = [p \in Procs |-> {}]
    /\ raced = FALSE

Goto(p, step) == pc' = [pc EXCEPT ![p] = step]

(* Process p goes down and its memory is lost: it dies, or an error ends   *)
(* Conclave::new and with it the command.                                  *)
Down(p) ==
    /\ Goto(p, "down")
    /\ back' = back \ {p}
    /\ fresh' = [fresh EXCEPT ![p] = NoKey]
    /\ sov' = [sov EXCEPT ![p] = NoSov]
    /\ toLoad' = [toLoad EXCEPT ![p] = {}]
    /\ peers' = [peers EXCEPT ![p] = NoPeers]
    /\ op' = [op EXCEPT ![p] = NoOp]
    /\ told' = [told EXCEPT ![p] = "nothing"]
    /\ doubtful' = [doubtful EXCEPT ![p] = {}]
    /\ UNCHANGED <<local, table, raced>>

Crash(p) == pc[p] # "down" /\ Down(p)

Start(p) ==
    /\ pc[p] = "down"
    /\ Goto(p, "loadKey")
    /\ raced' = (raced \/ (storedPair = NoKey /\ \E q \in Procs : pc[q] # "down"))
    /\ UNCHANGED <<local, table, loading, peers, changing>>

-----------------------------------------------------------------------------
(* Sovereign::load, called by Conclave::new and again at the end of init,  *)
(* which takes an identity that is not there for an error.                 *)

NoIdentity(p) ==
    IF p \in back
    THEN Down(p)
    ELSE /\ Goto(p, "create")
         /\ sov' = [sov EXCEPT ![p] = NoSov]
         /\ UNCHANGED <<local, table, back, fresh, toLoad, peers, changing, raced>>

LoadKey(p) ==
    /\ pc[p] = "loadKey"
    /\ IF storedKey = NoKey
       THEN NoIdentity(p)
       ELSE /\ sov' = [sov EXCEPT ![p].key = storedKey]
            /\ Goto(p, "loadPair")
            /\ UNCHANGED <<local, table, back, fresh, toLoad, peers, changing, raced>>

LoadPair(p) ==
    /\ pc[p] = "loadPair"
    /\ IF storedPair = NoKey
       THEN NoIdentity(p)
       ELSE /\ sov' = [sov EXCEPT ![p].pair = storedPair]
            /\ Goto(p, "open")
            /\ UNCHANGED <<local, table, back, fresh, toLoad, peers, changing, raced>>

(* Mutant of OpenFails: a record that cannot be opened is replaced.        *)
OpenFailsAnew(p) ==
    /\ pc[p] = "open"
    /\ Goto(p, "create")
    /\ sov' = [sov EXCEPT ![p] = NoSov]
    /\ UNCHANGED <<local, table, back, fresh, toLoad, peers, changing, raced>>

(* The node's own record cannot be opened: an error, not a missing         *)
(* identity.                                                               *)
OpenFails(p) == pc[p] = "open" /\ Down(p)

OpenRecord(p) ==
    /\ pc[p] = "open"
    /\ Goto(p, "list")
    /\ UNCHANGED <<local, table, loading, peers, changing, raced>>

-----------------------------------------------------------------------------
(* Sovereign::init.                                                        *)

CreateRecord(p, k) ==
    /\ pc[p] = "create"
    /\ k \notin created
    /\ created' = created \cup {k}
    /\ fresh' = [fresh EXCEPT ![p] = k]
    /\ Goto(p, "storeKey")
    /\ UNCHANGED <<storedKey, storedPair, table, back, sov, toLoad, peers, changing,
                   raced>>

StoreKey(p) ==
    /\ pc[p] = "storeKey"
    /\ storedKey' = fresh[p]
    /\ Goto(p, "storePair")
    /\ UNCHANGED <<storedPair, created, table, loading, peers, changing, raced>>

StorePair(p) ==
    /\ pc[p] = "storePair"
    /\ storedPair' = fresh[p]
    /\ fresh' = [fresh EXCEPT ![p] = NoKey]
    /\ back' = back \cup {p}
    /\ Goto(p, "loadKey")
    /\ UNCHANGED <<storedKey, created, table, sov, toLoad, peers, changing, raced>>

-----------------------------------------------------------------------------
(* Peer::load_all, which ends Conclave::new.                               *)

ListRemotes(p) ==
    /\ pc[p] = "list"
    /\ toLoad' = [toLoad EXCEPT ![p] = {n \in Names : table[n] # NoAddr}]
    /\ Goto(p, "loadPeers")
    /\ UNCHANGED <<local, table, back, fresh, sov, peers, changing, raced>>

(* Another process may have removed the remote since: "remote peer missing *)
(* dht key".                                                               *)
LoadPeer(p, n) ==
    /\ pc[p] = "loadPeers"
    /\ n \in toLoad[p]
    /\ IF table[n] = NoAddr
       THEN Down(p)
       ELSE /\ peers' = [peers EXCEPT ![p][n] = table[n]]
            /\ toLoad' = [toLoad EXCEPT ![p] = @ \ {n}]
            /\ UNCHANGED <<local, table, pc, back, fresh, sov, changing, raced>>

EndLoad(p) ==
    /\ pc[p] = "loadPeers"
    /\ toLoad[p] = {}
    /\ Goto(p, "up")
    /\ back' = back \ {p}
    /\ UNCHANGED <<local, table, fresh, sov, toLoad, peers, changing, raced>>

-----------------------------------------------------------------------------
(* DDCP::remote_add and DDCP::remote_remove.                               *)

(* p changes the table, unseen by the others that have it in memory.       *)
Unseen(p) ==
    [q \in Procs |-> IF q # p /\ pc[q] \in Listed THEN doubtful[q] \cup {op[p].name}
                     ELSE doubtful[q]]

(* The caller of p is told, and p rests.                                   *)
Answer(p, what, doubt) ==
    /\ told' = [told EXCEPT ![p] = what]
    /\ doubtful' = [doubt EXCEPT
           ![p] = IF what = "ok" THEN @ \ {op[p].name} ELSE @ \cup {op[p].name}]
    /\ op' = [op EXCEPT ![p] = NoOp]
    /\ Goto(p, "up")

(* Mutant of AskAdd: the address is not parsed before it is stored.        *)
AskAddText(p, n, a) ==
    /\ pc[p] = "up"
    /\ op' = [op EXCEPT ![p] = [name |-> n, addr |-> <<a>>]]
    /\ Goto(p, "storePeer")
    /\ UNCHANGED <<local, table, loading, peers, told, doubtful, raced>>

AskAdd(p, n, a) ==
    /\ pc[p] = "up"
    /\ op' = [op EXCEPT ![p] = [name |-> n, addr |-> a]]
    /\ Goto(p, "storePeer")
    /\ UNCHANGED <<local, table, loading, peers, told, doubtful, raced>>

(* Peer::new stores the address whether the name is in use or not.         *)
StorePeer(p) ==
    /\ pc[p] = "storePeer"
    /\ table' = [table EXCEPT ![op[p].name] = op[p].addr]
    /\ Goto(p, "readPeer")
    /\ doubtful' = Unseen(p)
    /\ UNCHANGED <<local, loading, peers, op, told, raced>>

(* Mutant of ReadPeer: set_peer keeps the remote that is there.            *)
ReadPeerKeepsOld(p) ==
    /\ pc[p] = "readPeer"
    /\ table[op[p].name] # NoAddr
    /\ peers' = [peers EXCEPT ![p][op[p].name] =
           IF @ = NoAddr THEN table[op[p].name] ELSE @]
    /\ Answer(p, "ok", doubtful)
    /\ UNCHANGED <<local, table, loading, raced>>

(* Peer::new reads the address back, and set_peer takes it into memory: it *)
(* may be the one another process has stored since.                        *)
ReadPeer(p) ==
    /\ pc[p] = "readPeer"
    /\ table[op[p].name] # NoAddr
    /\ peers' = [peers EXCEPT ![p][op[p].name] = table[op[p].name]]
    /\ Answer(p, "ok", doubtful)
    /\ UNCHANGED <<local, table, loading, raced>>

(* remove_peer forgets the remote before it deletes it.  The name of a     *)
(* remote that is not in memory changes nothing ("not found").             *)
AskRemove(p, n) ==
    /\ pc[p] = "up"
    /\ peers[p][n] # NoAddr
    /\ peers' = [peers EXCEPT ![p][n] = NoAddr]
    /\ op' = [op EXCEPT ![p] = [name |-> n, addr |-> NoAddr]]
    /\ Goto(p, "deletePeer")
    /\ UNCHANGED <<local, table, loading, told, doubtful, raced>>

DeletePeer(p) ==
    /\ pc[p] = "deletePeer"
    /\ table' = [table EXCEPT ![op[p].name] = NoAddr]
    /\ Answer(p, "ok", Unseen(p))
    /\ UNCHANGED <<local, loading, peers, raced>>

(* The address is not a key, the table store fails, or another process has *)
(* removed the remote before it is read back; a store or delete that fails *)
(* changes nothing.                                                        *)
ChangeFails(p) ==
    /\ pc[p] \in Changing
    /\ Answer(p, "error", doubtful)
    /\ UNCHANGED <<local, table, loading, peers, raced>>

-----------------------------------------------------------------------------

StartStep(p) ==
    \/ Start(p)
    \/ LoadKey(p)
    \/ LoadPair(p)
    \/ OpenRecord(p)
    \/ OpenFails(p)
    \/ \E k \in Keys : CreateRecord(p, k)
    \/ StoreKey(p)
    \/ StorePair(p)
    \/ ListRemotes(p)
    \/ \E n \in Names : LoadPeer(p, n)
    \/ EndLoad(p)

ChangeStep(p) ==
    \/ \E n \in Names, a \in Addrs : AskAdd(p, n, a)
    \/ StorePeer(p)
    \/ ReadPeer(p)
    \/ \E n \in Names : AskRemove(p, n)
    \/ DeletePeer(p)
    \/ ChangeFails(p)

Next == \E p \in Procs : StartStep(p) \/ ChangeStep(p) \/ Crash(p)

Spec == Init /\ [][Next]_vars

-----------------------------------------------------------------------------
(* Properties.                                                             *)

(* The identity a process works with has the key pair of its own record,   *)
(* whatever crashes there were between the two stores of init (ident.rs:   *)
(* "read back from storage; redundant, but asserts data integrity"), and   *)
(* whatever other processes do, unless two of them ran before there was an *)
(* identity: then each may have stored a half.                             *)
IdentityIsWhole ==
    ~raced => \A p \in Procs :
        pc[p] \in {"up"} \cup Changing => sov[p].key = sov[p].pair

(* A process works with the remotes a restart would load, except for names *)
(* whose last change has failed and those that another process has changed *)
(* since: memory and table change apart, on either side of an await, and   *)
(* in a different order for adding and removing.                           *)
MemoryFollowsTable ==
    \A p \in Procs : pc[p] = "up" =>
        \A n \in Names \ doubtful[p] : peers[p][n] = table[n]

(* The abstract directory: its identity is there when both columns are.    *)
Work(p) ==
    IF pc[p] \in Changing
    THEN [phase |-> IF pc[p] = "readPeer" THEN "made" ELSE "asked",
          name  |-> op[p].name, addr |-> op[p].addr]
    ELSE [phase |-> "rest"]

Directory == INSTANCE Registry WITH
    identity <- IF storedPair = NoKey THEN NoKey ELSE storedKey,
    remotes <- table,
    work <- [p \in Procs |-> Work(p)],
    contested <- raced

(* The steps of loading, initialising, adding and removing, with a crash   *)
(* at each and in any number of processes together, look from outside like *)
(* the atomic changes of Registry.                                         *)
ImplementsRegistry == Directory!Spec
=============================================================================
