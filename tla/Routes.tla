-------------------------------- MODULE Routes --------------------------------
(***************************************************************************)
(* The private route a node announces.  Sovereign.route is kept once per   *)
(* clone of DDCP: in the process's own value, which pushes before `serve`  *)
(* starts and is closed at the end, and in the server's clone, which       *)
(* pushes at each tick and handles RouteChange.  Routes die at any time;   *)
(* Veilid forgets a dead route and queues a RouteChange, as it does when a *)
(* remote's route dies.                                                    *)
(*                                                                         *)
(* A command other than `serve` never serves: its own value announces and  *)
(* is closed.                                                              *)
(***************************************************************************)
EXTENDS Naturals

CONSTANTS
    MaxRoute,   \* bound: routes the node can make
    MaxDeath    \* bound: deaths of routes, the node's and its remotes'

ASSUME BoundAssumption == MaxRoute \in Nat /\ MaxDeath \in Nat

NoRoute == 0
Routes == 1..MaxRoute
Clones == {"own", "server"}

VARIABLES
    stage,      \* what the process does with its own value
    pc,         \* the next step of each clone in announce
    route,      \* Sovereign.route of each clone
    made,       \* the number of routes made so far
    alive,      \* the node's routes that Veilid has
    announced,  \* the route in the node's DHT record
    deaths,     \* the number of routes that have died
    changes,    \* the number of RouteChange updates in the queue
    refused     \* history: Veilid refused to release the server's route

vars == <<stage, pc, route, made, alive, announced, deaths, changes, refused>>

Stages == {"starting", "serving", "interrupted", "closing", "closed", "failed",
           "down"}

TypeOK ==
    /\ stage \in Stages
    /\ pc \in [Clones -> {"idle", "announce", "off"}]
    /\ route \in [Clones -> Routes \cup {NoRoute}]
    /\ made \in 0..MaxRoute
    /\ alive \in SUBSET Routes
    /\ announced \in Routes \cup {NoRoute}
    /\ deaths \in 0..MaxDeath
    /\ changes \in 0..MaxDeath
    /\ refused \in BOOLEAN

Init ==
    /\ stage = "starting"
    /\ pc = [t \in Clones |-> IF t = "own" THEN "idle" ELSE "off"]
    /\ route = [t \in Clones |-> NoRoute]
    /\ made = 0
    /\ alive = {}
    /\ announced = NoRoute
    /\ deaths = 0
    /\ changes = 0
    /\ refused = FALSE

(* Clone t can begin a step: its own value until it is served or closed,   *)
(* the server until it sees the token that ctrl-c cancels.                 *)
Idle(t) ==
    /\ pc[t] = "idle"
    /\ t = "own" => stage = "starting"
    /\ stage # "down"

Goto(t, step) == pc' = [pc EXCEPT ![t] = step]

-----------------------------------------------------------------------------
(* Sovereign::announce.                                                    *)

(* Mutant of NewRoute: a new route for every announcement.                 *)
NewRouteAlways(t) ==
    /\ Idle(t)
    /\ made < MaxRoute
    /\ made' = made + 1
    /\ alive' = alive \cup {made'}
    /\ route' = [route EXCEPT ![t] = made']
    /\ Goto(t, "announce")
    /\ UNCHANGED <<stage, announced, deaths, changes, refused>>

NewRoute(t) ==
    /\ Idle(t)
    /\ route[t] = NoRoute
    /\ made < MaxRoute
    /\ made' = made + 1
    /\ alive' = alive \cup {made'}
    /\ route' = [route EXCEPT ![t] = made']
    /\ Goto(t, "announce")
    /\ UNCHANGED <<stage, announced, deaths, changes, refused>>

KeepRoute(t) ==
    /\ Idle(t)
    /\ route[t] # NoRoute
    /\ Goto(t, "announce")
    /\ UNCHANGED <<stage, route, made, alive, announced, deaths, changes,
                   refused>>

Announce(t) ==
    /\ pc[t] = "announce"
    /\ stage # "down"
    /\ announced' = route[t]
    /\ Goto(t, "idle")
    /\ UNCHANGED <<stage, route, made, alive, deaths, changes, refused>>

(* The record cannot be written; the route is kept for the next push.      *)
AnnounceFails(t) ==
    /\ pc[t] = "announce"
    /\ Goto(t, "idle")
    /\ UNCHANGED <<stage, route, made, alive, announced, deaths, changes,
                   refused>>

-----------------------------------------------------------------------------
(* serve: the server's clone has the route of the last push.               *)

(* Mutant of Serve: the server waits for the network itself.               *)
ServeAttaching ==
    /\ Idle("own")
    /\ announced # NoRoute
    /\ stage' = "serving"
    /\ pc' = [pc EXCEPT !["server"] = "attach"]
    /\ route' = [route EXCEPT !["server"] = route["own"]]
    /\ UNCHANGED <<made, alive, announced, deaths, changes, refused>>

Serve ==
    /\ Idle("own")
    /\ announced # NoRoute
    /\ stage' = "serving"
    /\ pc' = [pc EXCEPT !["server"] = "idle"]
    /\ route' = [route EXCEPT !["server"] = route["own"]]
    /\ UNCHANGED <<made, alive, announced, deaths, changes, refused>>

(* Mutant of HandleRouteChange: the route is released but not forgotten.   *)
HandleRouteChangeKeep ==
    /\ Idle("server")
    /\ changes > 0
    /\ changes' = changes - 1
    /\ alive' = alive \ {route["server"]}
    /\ UNCHANGED <<stage, pc, route, made, announced, deaths, refused>>

(* A RouteChange makes the server drop its route, whichever route has      *)
(* died.  Veilid may refuse to release a route that it has forgotten: the  *)
(* error comes before the route is taken out of Sovereign, and is logged.  *)
HandleRouteChange ==
    /\ Idle("server")
    /\ changes > 0
    /\ changes' = changes - 1
    /\ \/ /\ alive' = alive \ {route["server"]}
          /\ route' = [route EXCEPT !["server"] = NoRoute]
          /\ refused' = FALSE
       \/ /\ route["server"] \notin alive \cup {NoRoute}
          /\ refused' = TRUE
          /\ UNCHANGED <<alive, route>>
    /\ UNCHANGED <<stage, pc, made, announced, deaths>>

(* ctrl-c ends serve, which does not wait for its tasks: the server goes   *)
(* on until its loop sees the token.                                       *)
Interrupt ==
    /\ stage = "serving"
    /\ stage' = "interrupted"
    /\ UNCHANGED <<pc, route, made, alive, announced, deaths, changes, refused>>

ServerStops ==
    /\ pc["server"] = "idle"
    /\ stage \notin {"starting", "serving"}
    /\ Goto("server", "off")
    /\ UNCHANGED <<stage, route, made, alive, announced, deaths, changes,
                   refused>>

-----------------------------------------------------------------------------
(* Sovereign::close, in cleanup, on the process's own value.               *)

CloseRecord ==
    /\ Idle("own") \/ stage = "interrupted"
    /\ stage' = "closing"
    /\ UNCHANGED <<pc, route, made, alive, announced, deaths, changes, refused>>

(* The error ends close: the route is not released.                        *)
CloseRecordFails ==
    /\ Idle("own") \/ stage = "interrupted"
    /\ stage' = "failed"
    /\ UNCHANGED <<pc, route, made, alive, announced, deaths, changes, refused>>

(* Mutant of CloseRoute: close leaves the route.                           *)
CloseRouteNot ==
    /\ stage = "closing"
    /\ stage' = "closed"
    /\ UNCHANGED <<pc, route, made, alive, announced, deaths, changes, refused>>

(* The route is taken out of Sovereign whether Veilid releases it or not.  *)
CloseRoute ==
    /\ stage = "closing"
    /\ stage' = "closed"
    /\ alive' = alive \ {route["own"]}
    /\ route' = [route EXCEPT !["own"] = NoRoute]
    /\ UNCHANGED <<pc, made, announced, deaths, changes, refused>>

(* Veilid's shutdown takes all routes with it, and the tasks' calls fail.  *)
Shutdown ==
    /\ stage \in {"closed", "failed"}
    /\ stage' = "down"
    /\ alive' = {}
    /\ UNCHANGED <<pc, route, made, announced, deaths, changes, refused>>

-----------------------------------------------------------------------------
(* Veilid.                                                                 *)

(* A route of the node dies, or one that was imported from a remote.       *)
RouteDies ==
    /\ stage # "down"
    /\ deaths < MaxDeath
    /\ deaths' = deaths + 1
    /\ changes' = changes + 1
    /\ \/ \E r \in alive : alive' = alive \ {r}
       \/ UNCHANGED alive
    /\ UNCHANGED <<stage, pc, route, made, announced, refused>>

-----------------------------------------------------------------------------

ServerStep ==
    \/ NewRoute("server")
    \/ KeepRoute("server")
    \/ AnnounceFails("server")
    \/ Announce("server")
    \/ HandleRouteChange
    \/ ServerStops

OwnStep ==
    \/ NewRoute("own")
    \/ KeepRoute("own")
    \/ Announce("own")
    \/ AnnounceFails("own")
    \/ Serve
    \/ Interrupt
    \/ CloseRecord
    \/ CloseRecordFails
    \/ CloseRoute
    \/ Shutdown

Next == OwnStep \/ ServerStep \/ RouteDies

(* The server's timer ticks and its queue is read (select! chooses at      *)
(* random), and the record can be written again and again.                 *)
Fairness ==
    /\ WF_vars(NewRoute("server") \/ KeepRoute("server"))
    /\ WF_vars(AnnounceFails("server"))
    /\ SF_vars(NewRoute("server"))
    /\ SF_vars(Announce("server"))
    /\ SF_vars(HandleRouteChange)

Spec == Init /\ [][Next]_vars
FairSpec == Spec /\ Fairness

-----------------------------------------------------------------------------
(* Properties.                                                             *)

(* The node has one route at a time, and every route it has is known to a  *)
(* clone that will announce or release it, whatever dies and is released   *)
(* in whichever order (release_route, announce and close each see their    *)
(* own clone only).                                                        *)
OneRoute ==
    /\ \A r, s \in alive : r = s
    /\ \A r \in alive : \E t \in Clones : route[t] = r

(* A dead route that the server would announce again is one it is about to *)
(* hear of: no order of deaths, pushes and RouteChanges lets it keep one   *)
(* for good (handle_update, release_route), unless Veilid has refused to   *)
(* release it.  Such a route the code keeps announcing: release_route is   *)
(* left before the route is forgotten.                                     *)
DeathIsNoticed ==
    stage = "serving" /\ route["server"] \notin alive \cup {NoRoute} =>
        changes > 0 \/ refused

(* While the node goes on serving, and holds no route whose release Veilid *)
(* has refused, its announcement comes to hold a route that works, and     *)
(* keeps it once routes stop dying (README, "in order for remotes to be    *)
(* able to fetch changes from this database").                             *)
RouteRepaired ==
    <>[](stage = "serving" /\ ~refused) => <>[](announced \in alive)

(* Once Sovereign::close has come to its end, the only route the node may  *)
(* have left is one of the server's clone: none after a command that did   *)
(* not serve (DDCP::cleanup, "Release DHT resources").                     *)
CloseReleases == stage = "closed" => alive \subseteq {route["server"]}
=============================================================================
