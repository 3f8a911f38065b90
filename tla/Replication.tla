----------------------------- MODULE Replication -----------------------------
(***************************************************************************)
(* Replication between ddcp nodes: a node announces its database's version *)
(* in the DHT (DDCP::push), a peer reads the announcement and, when it is  *)
(* behind, asks the node for its changes, and merges the answer            *)
(* (DDCP::pull, DDCP::pull_from, Conclave::changes, DDCP::handle_update,   *)
(* DB::merge).                                                             *)
(*                                                                         *)
(* An agent is a ddcp process with its Veilid identity (the --state-dir);  *)
(* Home[a] is the database it has open (the --db-file).  Usually each      *)
(* database has one agent; two agents on one database is `ddcp pull` run   *)
(* beside `ddcp serve`.  An agent runs at most one pull at a time (the     *)
(* puller task's loop, or the pull command), while its server task pushes  *)
(* and answers requests.  Every step between two awaits is an action, so   *)
(* pulls, pushes, answers and writes by the application interleave freely. *)
(*                                                                         *)
(* What survives a crash is the SQLite file: the rows and crsql_tracked_   *)
(* peers.  The DHT record outlives the process too.                        *)
(***************************************************************************)
EXTENDS CrrDatabase

CONSTANTS
    Dbs,        \* database files
    Agents,     \* ddcp processes
    Home,       \* the database each agent has open
    Remotes,    \* the agents each agent has added with `ddcp remote add`
    Announced,  \* the agents that have announced an empty database before
    Sites,      \* site ids cr-sqlite can give to a database
    NoSite,     \* the site id of a status that was never announced
    FirstSite,  \* the site id each database starts with
    MaxRank,    \* bound: ranks a cell can reach by writes
    MaxClock    \* bound: the application's writes end at this db_version

ASSUME HomeAssumption == Home \in [Agents -> Dbs]
ASSUME RemotesAssumption == Remotes \in [Agents -> SUBSET Agents]
ASSUME AnnouncedAssumption == Announced \subseteq Agents
ASSUME NoSiteAssumption == NoSite \notin Sites
ASSUME FirstSiteAssumption ==
    /\ FirstSite \in [Dbs -> Sites]
    /\ \A d, e \in Dbs : FirstSite[d] = FirstSite[e] => d = e
ASSUME BoundsAssumption == MaxRank \in Nat /\ MaxClock \in [Dbs -> Nat]

VARIABLES
    site,       \* crsql_site_id() of each database
    used,       \* every site id given out so far
    rows,       \* crsql_changes of each database
    clock,      \* crsql_db_version() of each database
    tracked,    \* crsql_tracked_peers of each database: site -> version
    announced,  \* the NodeStatus in each agent's DHT record
    known,      \* the remotes whose key each agent's server task has
    pushing,    \* the status an unfinished push of each agent has read
    pull        \* the pull each agent is running

dbVars == <<site, used, rows, clock, tracked>>
vars == <<site, used, rows, clock, tracked, announced, known, pushing, pull>>

(* The database part of a NodeStatus; its key and route are not modelled   *)
(* here.                                                                   *)
Status == [site : Sites \cup {NoSite}, ver : Nat]

NoStatus == [site |-> NoSite, ver |-> 0]

(* A pull: the peer and its announcement (refreshed), the tracked version  *)
(* sent in the request (calling), the responder's own status (answering),  *)
(* its answer (answered).                                                  *)
Pull == [phase   : {"idle", "refreshed", "calling", "answering", "answered"},
         peer    : Agents,
         seen    : Status,
         since   : Nat,
         head    : Status,
         changes : ChangeLists]

Idle(a) == [phase   |-> "idle",
            peer    |-> a,
            seen    |-> NoStatus,
            since   |-> 0,
            head    |-> NoStatus,
            changes |-> NoChanges]

TypeOK ==
    /\ site \in [Dbs -> Sites]
    /\ used \in SUBSET Sites
    /\ rows \in [Dbs -> [Cells -> Row]]
    /\ clock \in [Dbs -> Nat]
    /\ tracked \in [Dbs -> [Sites -> Nat]]
    /\ announced \in [Agents -> Status]
    /\ known \in [Agents -> SUBSET Agents]
    /\ pushing \in [Agents -> Status]
    /\ pull \in [Agents -> Pull]

Init ==
    /\ site = FirstSite
    /\ used = {FirstSite[d] : d \in Dbs}
    /\ rows = [d \in Dbs |-> EmptyDb]
    /\ clock = [d \in Dbs |-> 0]
    /\ tracked = [d \in Dbs |-> [s \in Sites |-> 0]]
    /\ announced = [a \in Agents |->
                       IF a \in Announced
                       THEN [site |-> FirstSite[Home[a]], ver |-> 0]
                       ELSE NoStatus]
    /\ known = [a \in Agents |-> Remotes[a] \cap Announced]
    /\ pushing = [a \in Agents |-> NoStatus]
    /\ pull = [a \in Agents |-> Idle(a)]

-----------------------------------------------------------------------------
(* The application, outside ddcp.                                          *)

(* One transaction of the application on database d gives the cells W new  *)
(* contents.  cr-sqlite ranks a local write above what it overwrites.      *)
Write(d, W) ==
    /\ clock[d] < MaxClock[d]
    /\ \E rank \in [W -> 1..MaxRank] :
        /\ \A c \in W : rank[c] > rows[d][c].rank
        /\ rows' = [rows EXCEPT ![d] = [c \in Cells |->
                       IF c \in W
                       THEN [rank  |-> rank[c],
                             ver   |-> clock[d] + 1,
                             local |-> TRUE]
                       ELSE rows[d][c]]]
    /\ clock' = [clock EXCEPT ![d] = @ + 1]
    /\ UNCHANGED <<site, used, tracked, announced, known, pushing, pull>>

-----------------------------------------------------------------------------
(* push: DB::status, then Sovereign::announce writes the DHT record.       *)

StatusOf(d) == [site |-> site[d], ver |-> DbVersion(rows[d])]

PushRead(a) ==
    /\ pushing[a] = NoStatus
    /\ pushing' = [pushing EXCEPT ![a] = StatusOf(Home[a])]
    /\ UNCHANGED <<dbVars, announced, known, pull>>

PushAnnounce(a) ==
    /\ pushing[a] # NoStatus
    /\ announced' = [announced EXCEPT ![a] = pushing[a]]
    /\ pushing' = [pushing EXCEPT ![a] = NoStatus]
    /\ UNCHANGED <<dbVars, known, pull>>

(* set_dht_value, or the route it needs, fails: push returns the error and *)
(* the next tick starts over.                                              *)
PushFails(a) ==
    /\ pushing[a] # NoStatus
    /\ pushing' = [pushing EXCEPT ![a] = NoStatus]
    /\ UNCHANGED <<dbVars, announced, known, pull>>

-----------------------------------------------------------------------------
(* pull, on the asking side.                                               *)

(* Peer::refresh and node_status: the announcement is read once and kept   *)
(* while other peers are refreshed and pulled from.  A record without a    *)
(* value is "peer missing status".                                         *)
RefreshPeer(a, p) ==
    /\ pull[a].phase = "idle"
    /\ p \in Remotes[a]
    /\ announced[p] # NoStatus
    /\ pull' = [pull EXCEPT ![a] =
                   [Idle(a) EXCEPT !.phase = "refreshed",
                                   !.peer  = p,
                                   !.seen  = announced[p]]]
    /\ UNCHANGED <<dbVars, announced, known, pushing>>

TrackedPeerVersion(a) == tracked[Home[a]][pull[a].seen.site]

(* Mutants of UpToDate: a peer one version ahead is not worth a call; the  *)
(* version of the node's own database stands in for the tracked one.       *)
AlmostUpToDate(a) == pull[a].seen.ver <= TrackedPeerVersion(a) + 1

OwnVersionUpToDate(a) == pull[a].seen.ver <= clock[Home[a]]

(* pull_from up to the app_call: it returns early when the announced       *)
(* version is already tracked, and otherwise asks for what is newer than   *)
(* the tracked version.                                                    *)
UpToDate(a) == pull[a].seen.ver <= TrackedPeerVersion(a)

SkipPull(a) ==
    /\ pull[a].phase = "refreshed"
    /\ UpToDate(a)
    /\ pull' = [pull EXCEPT ![a] = Idle(a)]
    /\ UNCHANGED <<dbVars, announced, known, pushing>>

(* Mutant of CallPeer: asks from one version earlier.                      *)
CallPeerOneEarlier(a) ==
    /\ pull[a].phase = "refreshed"
    /\ ~UpToDate(a)
    /\ pull' = [pull EXCEPT ![a].phase = "calling",
                            ![a].since = TrackedPeerVersion(a) - 1]
    /\ UNCHANGED <<dbVars, announced, known, pushing>>

CallPeer(a) ==
    /\ pull[a].phase = "refreshed"
    /\ ~UpToDate(a)
    /\ pull' = [pull EXCEPT ![a].phase = "calling",
                            ![a].since = TrackedPeerVersion(a)]
    /\ UNCHANGED <<dbVars, announced, known, pushing>>

-----------------------------------------------------------------------------
(* The answering side, in the server task of the peer.                     *)

(* handle_update looks the sender up in peer_by_key, the remotes as they   *)
(* were when the server task started, and drops the call of anyone else.   *)
(* Conclave::crypto then needs the sender's key, which came with its       *)
(* status if it had announced itself by that time; for the others it is    *)
(* "peer key not found", at every call.  The responder's DB::changes       *)
(* starts with DB::status.                                                 *)
AnswerStatus(a) ==
    /\ pull[a].phase = "calling"
    /\ a \in known[pull[a].peer]
    /\ pull' = [pull EXCEPT ![a].phase = "answering",
                            ![a].head  = StatusOf(Home[pull[a].peer])]
    /\ UNCHANGED <<dbVars, announced, known, pushing>>

(* The second query of DB::changes; the database may have changed since    *)
(* the first.                                                              *)
AnswerChanges(a) ==
    /\ pull[a].phase = "answering"
    /\ pull' = [pull EXCEPT
           ![a].phase   = "answered",
           ![a].changes = ChangesSince(rows[Home[pull[a].peer]],
                                       pull[a].head.ver, pull[a].since)]
    /\ UNCHANGED <<dbVars, announced, known, pushing>>

-----------------------------------------------------------------------------
(* pull, after the answer.                                                 *)

(* Mutant of SameSite: the answer's site_id is not compared.               *)
AnySite(a) == TRUE

(* The answer comes from the database whose version was compared with the  *)
(* tracked one.                                                            *)
SameSite(a) == pull[a].head.site = pull[a].seen.site

(* Mutant of MergeReply: the tracked version is committed on its own, and  *)
(* the inserts may fail.                                                   *)
MergeReplyTorn(a) ==
    LET d == Home[a]
        s == pull[a].head.site
    IN  /\ pull[a].phase = "answered"
        /\ SameSite(a)
        /\ \/ rows' = [rows EXCEPT
                  ![d] = MergedRows(@, clock[d], pull[a].changes)]
           \/ UNCHANGED rows
        /\ clock' = [clock EXCEPT
               ![d] = MergedClock(rows[d], @, pull[a].changes)]
        /\ tracked' = [tracked EXCEPT
               ![d][s] = TrackedAfter(@, pull[a].changes)]
        /\ pull' = [pull EXCEPT ![a] = Idle(a)]
        /\ UNCHANGED <<site, used, announced, known, pushing>>

(* DB::merge: one transaction inserts the changes and raises the tracked   *)
(* version of the peer's site.                                             *)
MergeReply(a) ==
    LET d == Home[a]
        s == pull[a].head.site
    IN  /\ pull[a].phase = "answered"
        /\ SameSite(a)
        /\ rows' = [rows EXCEPT
               ![d] = MergedRows(@, clock[d], pull[a].changes)]
        /\ clock' = [clock EXCEPT
               ![d] = MergedClock(rows[d], @, pull[a].changes)]
        /\ tracked' = [tracked EXCEPT
               ![d][s] = TrackedAfter(@, pull[a].changes)]
        /\ pull' = [pull EXCEPT ![a] = Idle(a)]
        /\ UNCHANGED <<site, used, announced, known, pushing>>

(* "mismatched site_id"                                                    *)
RejectReply(a) ==
    /\ pull[a].phase = "answered"
    /\ ~SameSite(a)
    /\ pull' = [pull EXCEPT ![a] = Idle(a)]
    /\ UNCHANGED <<dbVars, announced, known, pushing>>

(* Any other way a pull ends early: no route, the app_call lost or timed   *)
(* out in either direction, an undecodable answer, or a merge whose        *)
(* transaction fails on one of the changes and rolls back.                 *)
PullFails(a) ==
    /\ pull[a].phase # "idle"
    /\ pull' = [pull EXCEPT ![a] = Idle(a)]
    /\ UNCHANGED <<dbVars, announced, known, pushing>>

-----------------------------------------------------------------------------
(* Crashes.                                                                *)

(* What is left of the pulls when the agents B die: their own are gone,    *)
(* and so are the answers they were preparing.                             *)
PullsWithout(B) ==
    [a \in Agents |->
        IF a \in B \/ (pull[a].phase = "answering" /\ pull[a].peer \in B)
        THEN Idle(a)
        ELSE pull[a]]

PushesWithout(B) ==
    [a \in Agents |-> IF a \in B THEN NoStatus ELSE pushing[a]]

(* The server task of a process that starts again takes its copy of the    *)
(* remotes after the refreshes of the first push: it has the keys of those *)
(* that have announced themselves by then.  Nothing refreshes this copy.   *)
KnownAfterRestart(B) ==
    [a \in Agents |-> IF a \in B
                     THEN {p \in Remotes[a] : announced[p] # NoStatus}
                     ELSE known[a]]

(* The process dies and is started again.  A process that stays down for a *)
(* while looks like one that dies later: nothing is assumed of how soon    *)
(* its steps come.                                                         *)
Crash(a) ==
    /\ pull' = PullsWithout({a})
    /\ pushing' = PushesWithout({a})
    /\ known' = KnownAfterRestart({a})
    /\ UNCHANGED <<dbVars, announced>>

(* The agents of database d are restarted on a new database file, with the *)
(* same identities: an empty database, with a site id of its own.          *)
ReplaceDb(d, s) ==
    LET restarted == {a \in Agents : Home[a] = d}
    IN  /\ s \in Sites \ used
        /\ site' = [site EXCEPT ![d] = s]
        /\ used' = used \cup {s}
        /\ rows' = [rows EXCEPT ![d] = EmptyDb]
        /\ clock' = [clock EXCEPT ![d] = 0]
        /\ tracked' = [tracked EXCEPT ![d] = [t \in Sites |-> 0]]
        /\ pull' = PullsWithout(restarted)
        /\ pushing' = PushesWithout(restarted)
        /\ known' = KnownAfterRestart(restarted)
        /\ UNCHANGED announced

-----------------------------------------------------------------------------

PullStep(a) ==
    \/ SkipPull(a)
    \/ CallPeer(a)
    \/ AnswerStatus(a)
    \/ AnswerChanges(a)
    \/ MergeReply(a)
    \/ RejectReply(a)

Next ==
    \/ \E d \in Dbs, W \in (SUBSET Cells) \ {{}} : Write(d, W)
    \/ \E d \in Dbs, s \in Sites : ReplaceDb(d, s)
    \/ \E a \in Agents :
          \/ PushRead(a)
          \/ PushAnnounce(a)
          \/ PushFails(a)
          \/ \E p \in Agents : RefreshPeer(a, p)
          \/ PullStep(a)
          \/ PullFails(a)
          \/ Crash(a)

Spec == Init /\ [][Next]_vars

(***************************************************************************)
(* The timers of the puller and server tasks never stop ticking, so a push *)
(* and a pull from each remote are attempted again and again; and a network *)
(* that is tried forever gets a message through again and again.  A call   *)
(* is answered only where AnswerStatus is enabled: by a server that has    *)
(* the caller's key.  Nothing is assumed of the application, of failures   *)
(* or of crashes; no process need ever be restarted.                       *)
(***************************************************************************)
Fairness ==
    /\ \A a \in Agents :
          /\ WF_vars(PushRead(a))
          /\ SF_vars(PushAnnounce(a))
          /\ SF_vars(CallPeer(a))
          /\ SF_vars(AnswerStatus(a))
          /\ SF_vars(AnswerChanges(a))
          /\ SF_vars(MergeReply(a))
          /\ WF_vars(SkipPull(a) \/ RejectReply(a) \/ PullFails(a))
    /\ \A a \in Agents : \A p \in Remotes[a] : SF_vars(RefreshPeer(a, p))

FairSpec == Spec /\ Fairness

-----------------------------------------------------------------------------
(* Properties.                                                             *)

(* No change is ever missed.  A version a database tracks for a site says  *)
(* that every change this site still serves up to that version has been    *)
(* taken over, or was already superseded: pull_from will never ask for     *)
(* these changes again, so one that is skipped is lost for good.           *)
NoMissedChange ==
    \A d, e \in Dbs : \A c \in Cells :
        /\ rows[e][c].local
        /\ rows[e][c].ver <= tracked[d][site[e]]
        => rows[d][c].rank >= rows[e][c].rank

(* An answer on its way that pull_from will accept stays complete, however *)
(* late it is merged: up to its highest version, which is what the merge   *)
(* will track, it lists every change its origin still serves and the       *)
(* asking node has not tracked, or a newer write to the same cell; and     *)
(* that version is one the origin has committed (the responder of          *)
(* handle_update, DB::changes).                                            *)
AnswerIsComplete ==
    \A a \in Agents : \A e \in Dbs :
        /\ pull[a].phase = "answered"
        /\ SameSite(a)
        /\ site[e] = pull[a].head.site
        => /\ MaxDbVersion(pull[a].changes) <= clock[e]
           /\ \A c \in LocalCells(rows[e]) :
                 /\ rows[e][c].ver > tracked[Home[a]][site[e]]
                 /\ rows[e][c].ver <= MaxDbVersion(pull[a].changes)
                 => pull[a].changes[c].rank >= rows[e][c].rank

(* A database never tracks a version that its origin has not committed: a  *)
(* later write of the origin would fall under it and never be pulled.      *)
TrackedIsCommitted ==
    \A d, e \in Dbs : tracked[d][site[e]] <= clock[e]

(* Every database tracks what every other one serves.                      *)
InSync ==
    \A d, e \in Dbs : d # e => tracked[d][site[e]] >= DbVersion(rows[e])

SameContents ==
    \A d, e \in Dbs : \A c \in Cells : rows[d][c].rank = rows[e][c].rank

(* As long as no database was replaced, nodes that are in sync hold the    *)
(* same data: comparing versions is enough to know that nothing is left to *)
(* pull, although versions go down and peers do not relay each other's     *)
(* changes.                                                                *)
Converged ==
    (used = {site[d] : d \in Dbs} /\ InSync) => SameContents

(* What a step may do to a database that is not replaced: a cell never     *)
(* falls back to a write that was superseded, and a tracked version never  *)
(* goes down, whatever order answers are merged in.                        *)
NeverGoesBack ==
    [][\A d \in Dbs : site'[d] = site[d] =>
          /\ \A c \in Cells : rows'[d][c].rank >= rows[d][c].rank
          /\ \A s \in Sites : tracked'[d][s] >= tracked[d][s]]_vars

(* A pull that its peer's database does not overtake catches up.  If an    *)
(* answer is merged while the database would still give it, nothing is     *)
(* left to ask that database for: the version that a merge tracks reaches  *)
(* what DB::status returns, even if that has gone down in the meantime     *)
(* (pull_from, DB::changes, DB::merge).                                    *)
StillAnswers(e, a) ==
    /\ site[e] = pull[a].head.site
    /\ pull[a].changes = ChangesSince(rows[e], DbVersion(rows[e]), pull[a].since)

PullCatchesUp ==
    [][\A a \in Agents, e \in Dbs :
          MergeReply(a) /\ StillAnswers(e, a) =>
              tracked'[Home[a]][site[e]] >= DbVersion(rows'[e])]_vars

(* What replication promises: an own row above the version that a database *)
(* tracks is owed to it.                                                   *)
Ranks(d) == [c \in Cells |-> rows[d][c].rank]

OwedTo(e, d) == {c \in LocalCells(rows[e]) : rows[e][c].ver > tracked[d][site[e]]}

Promise == INSTANCE Owed WITH
    Nodes <- Dbs,
    holds <- [d \in Dbs |-> Ranks(d)],
    owns <- [d \in Dbs |-> LocalCells(rows[d])],
    owes <- [e \in Dbs |-> [d \in Dbs |-> OwedTo(e, d)]],
    replaced <- used # {site[d] : d \in Dbs}

(* Versions that go up and down, announcements read early, answers made of *)
(* two queries and merged late look from outside like writes that are owed *)
(* until they are held (pull_from, DB::changes, DB::merge).                *)
ImplementsOwed == Promise!Spec

(* Every server has the keys of all its remotes: it was started after      *)
(* their first announcements.  It stays so: an announcement is not taken   *)
(* back, and a restart finds it.                                           *)
AllKnown == \A a \in Agents : known[a] = Remotes[a]

(* Once the application stops writing, and once every server was started   *)
(* after the first announcements of its remotes, all databases end up with *)
(* the same data and stay so (README, "Changes from remotes are            *)
(* automatically applied to the local database while publishing changes"). *)
EventuallySameContents == <>[](AllKnown => SameContents)

(* Whoever has added an agent as a remote, and whose key that agent's      *)
(* server has, catches up with what the agent announces, again and again,  *)
(* whatever the other agents know of each other (pull_from, handle_update).*)
KnownPeersCatchUp ==
    \A a \in Agents : \A p \in Remotes[a] :
        []<>(a \in known[p] =>
                announced[p].ver <= tracked[Home[a]][site[Home[p]]])

(* Knowing a node's address is enough to pull from it: whoever has added   *)
(* an agent as a remote catches up with what it announces, again and again *)
(* (README, "if you know the address, you can pull from the database").    *)
(* The code needs more: that agent must have added the caller, and must    *)
(* have been started after the caller's first announcement.                *)
AddressSuffices ==
    \A a \in Agents : \A p \in Remotes[a] :
        []<>(announced[p].ver <= tracked[Home[a]][site[Home[p]]])
=============================================================================
