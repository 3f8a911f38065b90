-------------------------------- MODULE Links --------------------------------
(***************************************************************************)
(* What a process holds of its remotes in Veilid: their open DHT records   *)
(* and the private routes it has imported.  Each task has its own clone of *)
(* every Peer (dht, node_status and route_id), but the records and routes  *)
(* behind them belong to the process, so that a task may close a record    *)
(* another has just opened.  To close a record that is not open may be an  *)
(* error of Veilid's or none: both are possible at every such call.        *)
(*                                                                         *)
(* The process's own value refreshes all remotes with each push, and one   *)
(* before each pull of a command; it is closed in the end (DDCP::cleanup). *)
(* In between `serve` may run a puller, which refreshes all and pulls from *)
(* all, and a server, which refreshes only.  The value of a DHT record is  *)
(* a number that stands for the route its NodeStatus holds.                *)
(***************************************************************************)
EXTENDS Naturals

CONSTANTS
    Remotes,    \* the remotes added to this node
    NoPeer,
    MaxRoute    \* bound: routes of a remote

ASSUME NoPeerAssumption == NoPeer \notin Remotes
ASSUME BoundAssumption == MaxRoute \in Nat \ {0}

None == 0
Values == 0..MaxRoute
Tasks == {"own", "puller", "server"}

VARIABLES
    stage,      \* what the process does
    at,         \* what each task does, and for which remote
    todo,       \* the remotes left in the task's present loop
    toPull,     \* the remotes the task pulls from when they are refreshed
    dht,        \* the remotes whose Peer.dht is set, for each task
    status,     \* Peer.node_status: the route it holds, or None
    routeId,    \* Peer.route_id, or None
    opened,     \* the remotes whose record Veilid has open
    imported,   \* the routes of each remote imported and not released since
    published   \* the route in each remote's record, or None

links == <<dht, status, routeId>>
veilid == <<opened, imported, published>>
vars == <<stage, at, todo, toPull, links, veilid>>

Steps == {"idle", "next", "close", "open", "get", "import", "pull", "off"}

TypeOK ==
    /\ stage \in {"starting", "serving", "closing", "closed", "failed"}
    /\ at \in [Tasks -> [step : Steps, peer : Remotes \cup {NoPeer}]]
    /\ todo \in [Tasks -> SUBSET Remotes]
    /\ toPull \in [Tasks -> SUBSET Remotes]
    /\ dht \in [Tasks -> SUBSET Remotes]
    /\ status \in [Tasks -> [Remotes -> Values]]
    /\ routeId \in [Tasks -> [Remotes -> Values]]
    /\ opened \in SUBSET Remotes
    /\ imported \in [Remotes -> SUBSET (1..MaxRoute)]
    /\ published \in [Remotes -> Values]

Init ==
    /\ stage = "starting"
    /\ at = [t \in Tasks |-> [step |-> IF t = "own" THEN "idle" ELSE "off",
                              peer |-> NoPeer]]
    /\ todo = [t \in Tasks |-> {}]
    /\ toPull = [t \in Tasks |-> {}]
    /\ dht = [t \in Tasks |-> {}]
    /\ status = [t \in Tasks |-> [p \in Remotes |-> None]]
    /\ routeId = [t \in Tasks |-> [p \in Remotes |-> None]]
    /\ opened = {}
    /\ imported = [p \in Remotes |-> {}]
    /\ published \in [Remotes -> {None, 1}]

Goto(t, step, p) == at' = [at EXCEPT ![t] = [step |-> step, peer |-> p]]
Doing(t, step, p) == at[t] = [step |-> step, peer |-> p]

(* An error ends the loop of task t.                                       *)
Fail(t) == Goto(t, "idle", NoPeer) /\ todo' = [todo EXCEPT ![t] = {}]

-----------------------------------------------------------------------------
(* Conclave::refresh_peers.                                                *)

Refresh(t, ps, pulls) ==
    /\ at[t].step = "idle"
    /\ todo' = [todo EXCEPT ![t] = ps]
    /\ toPull' = [toPull EXCEPT ![t] = pulls]
    /\ Goto(t, "next", NoPeer)
    /\ UNCHANGED <<stage, links, veilid>>

PullerTick == Refresh("puller", Remotes, Remotes)
Push(t) == (t = "own" => stage = "starting") /\ Refresh(t, Remotes, {})
Pull(p) == stage = "starting" /\ Refresh("own", {p}, {p})

(* Peer::refresh_dht closes the record if this task has opened it before.  *)
RefreshPeer(t, p) ==
    /\ at[t].step = "next"
    /\ p \in todo[t]
    /\ Goto(t, IF p \in dht[t] THEN "close" ELSE "open", p)
    /\ todo' = [todo EXCEPT ![t] = @ \ {p}]
    /\ UNCHANGED <<stage, toPull, links, veilid>>

(* The task keeps dht, whether the record will be opened again or not.  If *)
(* the record is not open, because of another task's close or of a failed  *)
(* open, the call has no effect, or is refused (RefreshFails).             *)
CloseRecord(t, p) ==
    /\ Doing(t, "close", p)
    /\ opened' = opened \ {p}
    /\ Goto(t, "open", p)
    /\ UNCHANGED <<stage, todo, toPull, links, imported, published>>

OpenRecord(t, p) ==
    /\ Doing(t, "open", p)
    /\ opened' = opened \cup {p}
    /\ dht' = [dht EXCEPT ![t] = @ \cup {p}]
    /\ Goto(t, "get", p)
    /\ UNCHANGED <<stage, todo, toPull, status, routeId, imported, published>>

(* Another task may have closed the record in between.                     *)
GetValue(t, p) ==
    /\ Doing(t, "get", p)
    /\ p \in opened
    /\ status' = [status EXCEPT ![t][p] = published[p]]
    /\ Goto(t, IF published[p] = None THEN "next" ELSE "import",
               IF published[p] = None THEN NoPeer ELSE p)
    /\ UNCHANGED <<stage, todo, toPull, dht, routeId, veilid>>

(* Mutant of ImportRoute: the route is imported when there is none yet.    *)
ImportRouteOnce(t, p) ==
    /\ Doing(t, "import", p)
    /\ IF routeId[t][p] = None
       THEN /\ imported' = [imported EXCEPT ![p] = @ \cup {status[t][p]}]
            /\ routeId' = [routeId EXCEPT ![t][p] = status[t][p]]
       ELSE UNCHANGED <<imported, routeId>>
    /\ Goto(t, "next", NoPeer)
    /\ UNCHANGED <<stage, todo, toPull, dht, status, opened, published>>

(* Peer::refresh_route.                                                    *)
ImportRoute(t, p) ==
    /\ Doing(t, "import", p)
    /\ imported' = [imported EXCEPT ![p] = @ \cup {status[t][p]}]
    /\ routeId' = [routeId EXCEPT ![t][p] = status[t][p]]
    /\ Goto(t, "next", NoPeer)
    /\ UNCHANGED <<stage, todo, toPull, dht, status, opened, published>>

(* Mutant of RefreshFails: the error ends the task.                        *)
RefreshFailsEnd(t, p) ==
    /\ at[t].step \in {"close", "open", "get", "import"}
    /\ at[t].peer = p
    /\ Goto(t, "failed", NoPeer)
    /\ UNCHANGED <<stage, todo, toPull, links, veilid>>

(* The record cannot be closed, opened, read or decoded, or the route not  *)
(* imported: the remotes that are left are not refreshed.  After a failed  *)
(* open the record is closed but dht is set, so that the next refresh      *)
(* begins with closing it again.                                           *)
RefreshFails(t, p) ==
    /\ at[t].step \in {"close", "open", "get", "import"}
    /\ at[t].peer = p
    /\ Fail(t)
    /\ UNCHANGED <<stage, toPull, links, veilid>>

EndRefresh(t) ==
    /\ at[t].step = "next"
    /\ todo[t] = {}
    /\ Goto(t, "pull", NoPeer)
    /\ todo' = [todo EXCEPT ![t] = toPull[t]]
    /\ UNCHANGED <<stage, toPull, links, veilid>>

-----------------------------------------------------------------------------
(* Conclave::changes, called by pull_from.                                 *)

SkipPeer(t, p) ==
    /\ at[t].step = "pull"
    /\ p \in todo[t]
    /\ status[t][p] = None
    /\ todo' = [todo EXCEPT ![t] = @ \ {p}]
    /\ UNCHANGED <<stage, toPull, at, links, veilid>>

(* Nothing new, or a call that is answered.                                *)
PullFrom(t, p) ==
    /\ at[t].step = "pull"
    /\ p \in todo[t]
    /\ status[t][p] # None
    /\ todo' = [todo EXCEPT ![t] = @ \ {p}]
    /\ UNCHANGED <<stage, toPull, at, links, veilid>>

(* The call fails: its route is released, but stays in route_id.           *)
CallFails(t, p) ==
    /\ at[t].step = "pull"
    /\ p \in todo[t]
    /\ status[t][p] # None
    /\ imported' = [imported EXCEPT ![p] = @ \ {routeId[t][p]}]
    /\ todo' = [todo EXCEPT ![t] = @ \ {p}]
    /\ UNCHANGED <<stage, toPull, at, links, opened, published>>

EndPulls(t) ==
    /\ at[t].step = "pull"
    /\ todo[t] = {}
    /\ Fail(t)
    /\ UNCHANGED <<stage, toPull, links, veilid>>

-----------------------------------------------------------------------------

(* serve clones the process's own value, which a push has refreshed.       *)
Serve ==
    /\ stage = "starting"
    /\ at["own"].step = "idle"
    /\ dht["own"] = Remotes
    /\ stage' = "serving"
    /\ at' = [t \in Tasks |->
                 [step |-> IF t = "own" THEN "off" ELSE "idle", peer |-> NoPeer]]
    /\ dht' = [t \in Tasks |-> dht["own"]]
    /\ status' = [t \in Tasks |-> status["own"]]
    /\ routeId' = [t \in Tasks |-> routeId["own"]]
    /\ UNCHANGED <<todo, toPull, veilid>>

(* The command is done, or ctrl-c has ended serve; its tasks go on until   *)
(* they see the token.                                                     *)
Cleanup ==
    /\ \/ stage = "starting" /\ at["own"].step = "idle"
       \/ stage = "serving"
    /\ stage' = "closing"
    /\ Goto("own", "off", NoPeer)
    /\ todo' = [todo EXCEPT !["own"] = Remotes]
    /\ UNCHANGED <<toPull, links, veilid>>

TaskStops(t) ==
    /\ t # "own"
    /\ stage \in {"closing", "closed", "failed"}
    /\ at[t].step = "idle"
    /\ Goto(t, "off", NoPeer)
    /\ UNCHANGED <<stage, todo, toPull, links, veilid>>

(* Sovereign::close, the first call of Conclave::close, fails and ends it. *)
SovereignFails ==
    /\ stage = "closing"
    /\ todo["own"] = Remotes
    /\ stage' = "failed"
    /\ UNCHANGED <<at, todo, toPull, links, veilid>>

(* Mutant of ClosePeer: remotes without a route are passed over.           *)
ClosePeerWithRoute(p) ==
    /\ stage = "closing"
    /\ p \in todo["own"]
    /\ opened' = IF routeId["own"][p] # None THEN opened \ {p} ELSE opened
    /\ imported' = [imported EXCEPT ![p] = @ \ {routeId["own"][p]}]
    /\ dht' = [dht EXCEPT !["own"] = @ \ {p}]
    /\ routeId' = [routeId EXCEPT !["own"][p] = None]
    /\ todo' = [todo EXCEPT !["own"] = @ \ {p}]
    /\ \/ UNCHANGED stage
       \/ routeId["own"][p] \notin imported[p] \cup {None} /\ stage' = "failed"
    /\ UNCHANGED <<toPull, at, status, published>>

(* Peer::close: the record, then the route.  Veilid may refuse to release  *)
(* a route it no longer has, which ends Conclave::close before the remotes *)
(* that are left.                                                          *)
ClosePeer(p) ==
    /\ stage = "closing"
    /\ p \in todo["own"]
    /\ opened' = IF p \in dht["own"] THEN opened \ {p} ELSE opened
    /\ imported' = [imported EXCEPT ![p] = @ \ {routeId["own"][p]}]
    /\ dht' = [dht EXCEPT !["own"] = @ \ {p}]
    /\ routeId' = [routeId EXCEPT !["own"][p] = None]
    /\ todo' = [todo EXCEPT !["own"] = @ \ {p}]
    /\ \/ UNCHANGED stage
       \/ routeId["own"][p] \notin imported[p] \cup {None} /\ stage' = "failed"
    /\ UNCHANGED <<toPull, at, status, published>>

(* The record is not closed, or was not open: the route is not released    *)
(* either, and Conclave::close ends before the remotes that are left.      *)
ClosePeerFails(p) ==
    /\ stage = "closing"
    /\ p \in todo["own"] \cap dht["own"]
    /\ dht' = [dht EXCEPT !["own"] = @ \ {p}]
    /\ stage' = "failed"
    /\ UNCHANGED <<at, todo, toPull, status, routeId, veilid>>

EndClose ==
    /\ stage = "closing"
    /\ todo["own"] = {}
    /\ stage' = "closed"
    /\ UNCHANGED <<at, todo, toPull, links, veilid>>

-----------------------------------------------------------------------------

(* A remote announces itself, or a new route.                              *)
Publish(p) ==
    /\ published[p] < MaxRoute
    /\ published' = [published EXCEPT ![p] = @ + 1]
    /\ UNCHANGED <<stage, at, todo, toPull, links, opened, imported>>

TaskStep(t) ==
    \/ EndRefresh(t)
    \/ EndPulls(t)
    \/ TaskStops(t)
    \/ \E p \in Remotes :
          \/ RefreshPeer(t, p)
          \/ CloseRecord(t, p)
          \/ OpenRecord(t, p)
          \/ GetValue(t, p)
          \/ ImportRoute(t, p)
          \/ RefreshFails(t, p)
          \/ SkipPeer(t, p)
          \/ PullFrom(t, p)
          \/ CallFails(t, p)

Next ==
    \/ \E t \in Tasks : TaskStep(t)
    \/ PullerTick
    \/ \E t \in {"own", "server"} : Push(t)
    \/ \E p \in Remotes : Pull(p)
    \/ Serve
    \/ Cleanup
    \/ SovereignFails
    \/ EndClose
    \/ \E p \in Remotes : ClosePeer(p) \/ ClosePeerFails(p) \/ Publish(p)

Spec == Init /\ [][Next]_vars

(* Timers tick and tasks go on.  What is tried again and again at a record *)
(* that is open succeeds again and again, and the puller, whose timer does *)
(* not depend on the server's, does not for ever come to a record just     *)
(* while the server has it closed.  Nothing is assumed of closing a record *)
(* that is not open.                                                       *)
Fairness ==
    /\ WF_vars(PullerTick)
    /\ WF_vars(TaskStep("puller"))
    /\ \A p \in Remotes :
          /\ SF_vars(PullerTick /\ p \in opened)
          /\ SF_vars(RefreshPeer("puller", p) /\ p \in opened)
          /\ SF_vars(CloseRecord("puller", p) /\ p \in opened)
          /\ SF_vars(OpenRecord("puller", p))
          /\ SF_vars(GetValue("puller", p))
          /\ SF_vars(ImportRoute("puller", p))

FairSpec == Spec /\ Fairness

-----------------------------------------------------------------------------
(* Properties.                                                             *)

(* Until the process is cleaned up, every call goes to the route that came *)
(* with the status it was decided on, and Veilid has that route: failed    *)
(* calls release it, and failed refreshes leave an older one.              *)
CallsHaveRoute ==
    \A t \in Tasks, p \in Remotes :
        /\ stage \in {"starting", "serving"}
        /\ at[t].step = "pull" /\ p \in todo[t] /\ status[t][p] # None
        => routeId[t][p] = status[t][p] /\ routeId[t][p] \in imported[p]

(* The puller reads a remote's new announcement and imports its route,     *)
(* although the server closes the record under it and either task may find *)
(* it closed by the other's refresh or by one of its own that failed,      *)
(* refused by Veilid or not: as long as the records do not stay closed for *)
(* good, which they do if Veilid refuses every close that follows a failed *)
(* open (refresh_dht).                                                     *)
RefreshRecovers ==
    /\ <>[](stage = "serving")
    /\ \A p \in Remotes : []<>(p \in opened)
    => <>[](\A p \in Remotes : routeId["puller"][p] = published[p])

(* Once Conclave::close has come to its end, no record is open but those   *)
(* the tasks of `serve` have opened for themselves, whatever has failed    *)
(* before: none after a command that did not serve (DDCP::cleanup,         *)
(* "Release DHT resources").                                               *)
CloseIsComplete ==
    stage = "closed" => opened \subseteq dht["puller"] \cup dht["server"]
=============================================================================
