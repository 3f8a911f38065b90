-------------------------------- MODULE Serve --------------------------------
(***************************************************************************)
(* One `ddcp serve` process and its remotes: DDCP::wait_for_network, then  *)
(* the two tasks of DDCP::serve.  The puller refreshes all remotes at each *)
(* tick and then pulls from each; the server pushes at each tick, which    *)
(* announces the node's status and refreshes all remotes too, and handles  *)
(* calls in between.                                                       *)
(*                                                                         *)
(* Each task works on its own clone of DDCP, so a Peer's node_status is    *)
(* kept once per task, and once more in peer_by_key, which the server      *)
(* fills when it starts.  wait_for_network runs before the tasks exist, on *)
(* the value they are cloned from: it is modelled as the server's first    *)
(* pushes, with `serving` false.                                           *)
(*                                                                         *)
(* What a single pull does is the module Replication; here it is a step.   *)
(* An announcement is known by its number, counted by its author.          *)
(***************************************************************************)
EXTENDS Naturals, FiniteSets

CONSTANTS
    Remotes,        \* the remotes added to this node
    Strangers,      \* other nodes that have its address
    Announced,      \* the remotes with an announcement from the beginning
    MayVanish,      \* the remotes whose DHT record may disappear for good
    MaxAnnouncement,\* bound: announcements of a remote
    MaxVersion      \* bound: versions of this node's database

ASSUME RemotesAssumption == IsFiniteSet(Remotes) /\ Remotes \cap Strangers = {}
ASSUME FateAssumption ==
    /\ Announced \in SUBSET Remotes
    /\ MayVanish \in SUBSET Remotes
ASSUME BoundAssumption == MaxAnnouncement \in Nat \ {0} /\ MaxVersion \in Nat

Tasks == {"puller", "server"}
Callers == Remotes \cup Strangers
N == Cardinality(Remotes)

VARIABLES
    order,      \* the iteration order of Conclave.remotes, a HashMap
    serving,    \* wait_for_network is over and the tasks are spawned
    at,         \* what each task is doing, and for which remote in order
    seen,       \* node_status of each task's peers; 0 is None
    known,      \* the entries of peer_by_key with a node_status
    roundStart, \* history: what was announced when the puller last ticked
    calls,      \* the last app_call of each node to this one
    dbVersion,  \* the version of this node's database
    pushing,    \* the status read by the current push
    announced,  \* the status in this node's DHT record
    published,  \* the announcement in each remote's DHT record; 0 is none
    reachable   \* the remotes whose DHT record can be opened

node == <<dbVersion, pushing, announced>>
peers == <<published, reachable>>
vars == <<order, serving, at, seen, known, roundStart, calls, node, peers>>

Announcements == 0..MaxAnnouncement

Orders == {o \in [1..N -> Remotes] : \A p \in Remotes : \E i \in 1..N : o[i] = p}

TypeOK ==
    /\ order \in Orders
    /\ serving \in BOOLEAN
    /\ at \in [Tasks -> [step : {"attach", "idle", "announce", "refresh", "pull"},
                         i    : 1..(N + 1)]]
    /\ seen \in [Tasks -> [Remotes -> Announcements]]
    /\ known \in SUBSET Remotes
    /\ roundStart \in [Remotes -> Announcements]
    /\ calls \in [Callers -> {"none", "queued", "responding", "answered", "dropped"}]
    /\ {dbVersion, pushing, announced} \subseteq 0..MaxVersion
    /\ published \in [Remotes -> Announcements]
    /\ reachable \in SUBSET Remotes

(* HashMap's order is arbitrary, and stays the same while nothing is       *)
(* inserted or removed; a clone of the map keeps it.                       *)
Init ==
    /\ order \in Orders
    /\ serving = FALSE
    /\ at = [t \in Tasks |-> [step |-> IF t = "server" THEN "attach" ELSE "idle",
                              i    |-> 1]]
    /\ seen = [t \in Tasks |-> [p \in Remotes |-> 0]]
    /\ known = {}
    /\ roundStart = [p \in Remotes |-> 0]
    /\ calls = [c \in Callers |-> "none"]
    /\ dbVersion = 0
    /\ pushing = 0
    /\ announced = 0
    /\ published = [p \in Remotes |-> IF p \in Announced THEN 1 ELSE 0]
    /\ reachable = Remotes

Goto(t, step, i) == at' = [at EXCEPT ![t] = [step |-> step, i |-> i]]

(* Task t is at remote p in its loop `step` over the remotes.              *)
Visits(t, step, p) ==
    /\ at[t].step = step
    /\ at[t].i <= N
    /\ order[at[t].i] = p

Finished(t, step) == at[t].step = step /\ at[t].i > N

-----------------------------------------------------------------------------
(* Startup: wait_for_network's first loop.                                 *)

Attach ==
    /\ at["server"].step = "attach"
    /\ Goto("server", "idle", 1)
    /\ UNCHANGED <<order, serving, seen, known, roundStart, calls, node, peers>>

(* Until the network is ready every other update is read and forgotten.    *)
DiscardCall(c) ==
    /\ at["server"].step = "attach"
    /\ calls[c] = "queued"
    /\ calls' = [calls EXCEPT ![c] = "dropped"]
    /\ UNCHANGED <<order, serving, at, seen, known, roundStart, node, peers>>

-----------------------------------------------------------------------------
(* push: in a loop until it succeeds at startup, at each tick afterwards.  *)

(* Mutants of PushRead: the next version instead of the current one; the   *)
(* status is read at startup only.                                         *)
PushReadNext ==
    /\ at["server"].step = "idle"
    /\ pushing' = dbVersion + 1
    /\ Goto("server", "announce", 1)
    /\ UNCHANGED <<order, serving, seen, known, roundStart, calls, dbVersion,
                   announced, peers>>

PushReadOnce ==
    /\ at["server"].step = "idle"
    /\ pushing' = IF serving THEN pushing ELSE dbVersion
    /\ Goto("server", "announce", 1)
    /\ UNCHANGED <<order, serving, seen, known, roundStart, calls, dbVersion,
                   announced, peers>>

PushRead ==
    /\ at["server"].step = "idle"
    /\ pushing' = dbVersion
    /\ Goto("server", "announce", 1)
    /\ UNCHANGED <<order, serving, seen, known, roundStart, calls, dbVersion,
                   announced, peers>>

(* Sovereign::announce; Conclave::refresh goes on to refresh_peers.        *)
Announce ==
    /\ at["server"].step = "announce"
    /\ announced' = pushing
    /\ Goto("server", "refresh", 1)
    /\ UNCHANGED <<order, serving, seen, known, roundStart, calls, dbVersion,
                   pushing, peers>>

AnnounceFails ==
    /\ at["server"].step = "announce"
    /\ Goto("server", "idle", 1)
    /\ UNCHANGED <<order, serving, seen, known, roundStart, calls, node, peers>>

(* Mutant of KnownPeers: peer_by_key is filled from the remotes as they    *)
(* are loaded.                                                             *)
PeersAsLoaded == {}

(* The remotes a call of which can be decrypted: Peer::auth_key comes from *)
(* node_status.                                                            *)
KnownPeers == {p \in Remotes : seen["server"][p] > 0}

(* The first successful push ends wait_for_network: serve spawns the       *)
(* puller with the remotes as they are now, and the server keeps a copy of *)
(* them in peer_by_key for as long as it lives.  Later pushes refresh the  *)
(* server's own remotes only.                                              *)
EndPush ==
    /\ Finished("server", "refresh")
    /\ Goto("server", "idle", 1)
    /\ serving' = TRUE
    /\ IF serving
       THEN UNCHANGED <<seen, known>>
       ELSE /\ seen' = [seen EXCEPT !["puller"] = seen["server"]]
            /\ known' = KnownPeers
    /\ UNCHANGED <<order, roundStart, calls, node, peers>>

-----------------------------------------------------------------------------
(* Conclave::refresh_peers, in either task.                                *)

RefreshPeer(t, p) ==
    /\ Visits(t, "refresh", p)
    /\ p \in reachable
    /\ seen' = [seen EXCEPT ![t][p] = published[p]]
    /\ Goto(t, "refresh", at[t].i + 1)
    /\ UNCHANGED <<order, serving, known, roundStart, calls, node, peers>>

(* Mutant of RefreshFails: the error is logged and the puller goes on.     *)
RefreshFailsGoOn(t, p) ==
    /\ Visits(t, "refresh", p)
    /\ Goto(t, IF t = "puller" THEN "pull" ELSE "idle", 1)
    /\ UNCHANGED <<order, serving, seen, known, roundStart, calls, node, peers>>

(* The record cannot be opened or read, or its value not decoded; or it is *)
(* read and its route cannot be imported.  The remotes after p are not     *)
(* refreshed: the puller's round and the server's push end here.           *)
RefreshFails(t, p) ==
    /\ Visits(t, "refresh", p)
    /\ \/ UNCHANGED seen
       \/ p \in reachable /\ seen' = [seen EXCEPT ![t][p] = published[p]]
    /\ Goto(t, "idle", 1)
    /\ UNCHANGED <<order, serving, known, roundStart, calls, node, peers>>

-----------------------------------------------------------------------------
(* The puller.                                                             *)

PullerTick ==
    /\ serving
    /\ at["puller"].step = "idle"
    /\ Goto("puller", "refresh", 1)
    /\ roundStart' = published
    /\ UNCHANGED <<order, serving, seen, known, calls, node, peers>>

EndRefresh ==
    /\ Finished("puller", "refresh")
    /\ Goto("puller", "pull", 1)
    /\ UNCHANGED <<order, serving, seen, known, roundStart, calls, node, peers>>

(* Mutant of PullFrom: a pull that fails ends the round.                   *)
PullFromOrStop(p) ==
    /\ Visits("puller", "pull", p)
    /\ seen["puller"][p] > 0
    /\ \/ Goto("puller", "pull", at["puller"].i + 1)
       \/ Goto("puller", "idle", 1)
    /\ UNCHANGED <<order, serving, seen, known, roundStart, calls, node, peers>>

(* pull_from with the status seen; successful or not, the loop goes on.    *)
PullFrom(p) ==
    /\ Visits("puller", "pull", p)
    /\ seen["puller"][p] > 0
    /\ Goto("puller", "pull", at["puller"].i + 1)
    /\ UNCHANGED <<order, serving, seen, known, roundStart, calls, node, peers>>

(* "peer missing status"                                                   *)
SkipPeer(p) ==
    /\ Visits("puller", "pull", p)
    /\ seen["puller"][p] = 0
    /\ Goto("puller", "pull", at["puller"].i + 1)
    /\ UNCHANGED <<order, serving, seen, known, roundStart, calls, node, peers>>

EndRound ==
    /\ Finished("puller", "pull")
    /\ Goto("puller", "idle", 1)
    /\ UNCHANGED <<order, serving, seen, known, roundStart, calls, node, peers>>

-----------------------------------------------------------------------------
(* The server: handle_update for an AppCall.                               *)

(* The loop reads an update only between two pushes.  A sender that is not *)
(* in peer_by_key is "unknown peer"; for any other a responder is spawned. *)
HandleCall(c) ==
    /\ serving
    /\ at["server"].step = "idle"
    /\ calls[c] = "queued"
    /\ calls' = [calls EXCEPT
           ![c] = IF c \in Remotes THEN "responding" ELSE "dropped"]
    /\ UNCHANGED <<order, serving, at, seen, known, roundStart, node, peers>>

(* The responder replies if the entry of peer_by_key has the key to decode *)
(* the request with.                                                       *)
Respond(c) ==
    /\ calls[c] = "responding"
    /\ c \in known
    /\ calls' = [calls EXCEPT ![c] = "answered"]
    /\ UNCHANGED <<order, serving, at, seen, known, roundStart, node, peers>>

(* "peer key not found", or an error in decoding, the database, or the     *)
(* reply.  No reply is sent.                                               *)
RespondFails(c) ==
    /\ calls[c] = "responding"
    /\ calls' = [calls EXCEPT ![c] = "dropped"]
    /\ UNCHANGED <<order, serving, at, seen, known, roundStart, node, peers>>

-----------------------------------------------------------------------------
(* The rest of the world.                                                  *)

(* A node waits for the end of its last call, answered or timed out; a     *)
(* ddcp node has announced itself before it calls.  Calls that pile up     *)
(* behind one that timed out are not modelled.                             *)
Call(c) ==
    /\ calls[c] \notin {"queued", "responding"}
    /\ c \in Remotes => published[c] > 0
    /\ calls' = [calls EXCEPT ![c] = "queued"]
    /\ UNCHANGED <<order, serving, at, seen, known, roundStart, node, peers>>

Publish(p) ==
    /\ p \in reachable
    /\ published[p] < MaxAnnouncement
    /\ published' = [published EXCEPT ![p] = @ + 1]
    /\ UNCHANGED <<order, serving, at, seen, known, roundStart, calls, node,
                   reachable>>

Write ==
    /\ dbVersion < MaxVersion
    /\ dbVersion' = dbVersion + 1
    /\ UNCHANGED <<order, serving, at, seen, known, roundStart, calls, pushing,
                   announced, peers>>

Vanish(p) ==
    /\ p \in MayVanish \cap reachable
    /\ reachable' = reachable \ {p}
    /\ UNCHANGED <<order, serving, at, seen, known, roundStart, calls, node,
                   published>>

-----------------------------------------------------------------------------

PullerStep ==
    \/ PullerTick
    \/ EndRefresh
    \/ EndRound
    \/ \E p \in Remotes :
          \/ RefreshPeer("puller", p)
          \/ RefreshFails("puller", p)
          \/ PullFrom(p)
          \/ SkipPeer(p)

PushStep ==
    \/ Attach
    \/ PushRead
    \/ Announce
    \/ AnnounceFails
    \/ EndPush
    \/ \E p \in Remotes : RefreshPeer("server", p) \/ RefreshFails("server", p)

CallStep(c) ==
    \/ DiscardCall(c)
    \/ HandleCall(c)
    \/ Respond(c)
    \/ RespondFails(c)

World ==
    \/ Write
    \/ \E c \in Callers : Call(c)
    \/ \E p \in Remotes : Publish(p) \/ Vanish(p)

Next == PullerStep \/ PushStep \/ World \/ \E c \in Callers : CallStep(c)

Spec == Init /\ [][Next]_vars

(***************************************************************************)
(* The network comes up; timers tick; select! chooses at random among the  *)
(* branches that are ready, so neither the timer nor the queue is passed   *)
(* over for ever; and an attempt that is repeated for ever at a record or  *)
(* a database that is there succeeds again and again.                      *)
(***************************************************************************)
TasksRun ==
    /\ WF_vars(PullerStep)
    /\ WF_vars(PushStep)
    /\ SF_vars(PushRead)

NetworkWorks ==
    /\ SF_vars(Announce)
    /\ \A t \in Tasks, p \in Remotes : SF_vars(RefreshPeer(t, p))

CallsProceed ==
    \A c \in Callers :
        /\ SF_vars(HandleCall(c))
        /\ SF_vars(Respond(c))
        /\ WF_vars(RespondFails(c))

RoundSpec == Spec /\ TasksRun /\ NetworkWorks
CallSpec == Spec /\ TasksRun /\ SF_vars(Announce) /\ CallsProceed

-----------------------------------------------------------------------------
(* Properties.                                                             *)

(* A round pulls only from announcements it has read itself: whichever     *)
(* remote fails, and whatever the server's clone has read or the tasks     *)
(* were spawned with, no pull is decided on an older one (spawn_puller's   *)
(* `continue` after refresh_peers).                                        *)
PullsFromThisRound ==
    at["puller"].step = "pull" =>
        \A p \in Remotes : seen["puller"][p] >= roundStart[p]

(* Every remote that has announced itself is pulled from again and again   *)
(* if its record does not disappear, although refreshes and pulls of any   *)
(* remote may fail (README, "Changes from remotes are automatically        *)
(* applied to the local database while publishing changes").               *)
EveryRemotePulled ==
    \A p \in Announced \ MayVanish : []<><<PullFrom(p)>>_vars

(* A remote that keeps calling is answered again and again once the node   *)
(* serves, if it had announced itself before a startup push came to the    *)
(* remotes (README, "Changes will be automatically picked up by remote     *)
(* subscribers").  One that announces itself later may never be answered:  *)
(* serve keeps the peer_by_key it has made for as long as it lives.        *)
RemotesAnswered ==
    \A p \in Remotes :
        /\ <>(published[p] > 0 /\ ~serving /\ at["server"].step # "refresh")
        /\ <>serving
        /\ []<>(calls[p] = "queued")
        => []<>(calls[p] = "answered")

(* The node's own announcement catches up with its database even if a      *)
(* remote cannot be refreshed any more, at startup or later: announce      *)
(* comes before refresh_peers (README, as above).                          *)
AnnouncesKeepUp == []<>(announced = dbVersion)
=============================================================================
