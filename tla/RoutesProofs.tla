----------------------------- MODULE RoutesProofs -----------------------------
(***************************************************************************)
(* The node's own route, for any number of routes and deaths: there is one *)
(* at a time, and the server hears of the death of the one it announces.   *)
(***************************************************************************)
EXTENDS Routes, TLAPS

(* Until serve begins there is no server, and a dead route of the node's   *)
(* own value has left a RouteChange in the queue.                          *)
StartOK ==
    stage = "starting" =>
        /\ pc["server"] = "off"
        /\ route["server"] = NoRoute
        /\ announced # NoRoute => route["own"] # NoRoute
        /\ route["own"] \notin alive \cup {NoRoute} => changes > 0

(* What is alive belongs to the server once there has been one, and to the *)
(* node's own value before.                                                *)
OwnerOK ==
    \/ alive \subseteq {route["server"]}
    \/ /\ pc["server"] = "off"
       /\ route["server"] = NoRoute
       /\ alive \subseteq {route["own"]}

CountOK == changes <= deaths

IInv == TypeOK /\ StartOK /\ OwnerOK /\ CountOK

-----------------------------------------------------------------------------

(* The invariant holds of a process that starts.                           *)
LEMMA InitEstablishes == Init => IInv
  <1>1. Init => refused \in BOOLEAN
    BY DEF Init
  <1> QED BY <1>1, BoundAssumption DEF Init, IInv, TypeOK, StartOK, OwnerOK,
          CountOK, Stages, Clones, NoRoute

(* The invariant is kept by every step.                                    *)
LEMMA StepKeeps == IInv /\ [Next]_vars => IInv'
  <1> SUFFICES ASSUME IInv, [Next]_vars PROVE IInv'
    OBVIOUS
  <1> USE BoundAssumption DEF IInv, TypeOK, Stages, Clones, Routes, NoRoute
  <1>1. ASSUME NEW t \in Clones, NewRoute(t)
        PROVE  IInv'
    <2> USE <1>1 DEF NewRoute, Idle, Goto
    <2>1. TypeOK'
      OBVIOUS
    <2>2. StartOK' /\ OwnerOK' /\ CountOK'
      BY DEF StartOK, OwnerOK, CountOK
    <2> QED BY <2>1, <2>2
  <1>2. ASSUME NEW t \in Clones, KeepRoute(t)
        PROVE  IInv'
    BY <1>2 DEF KeepRoute, Idle, Goto, StartOK, OwnerOK, CountOK
  <1>3. ASSUME NEW t \in Clones, Announce(t)
        PROVE  IInv'
    BY <1>3 DEF Announce, Goto, StartOK, OwnerOK, CountOK
  <1>4. ASSUME NEW t \in Clones, AnnounceFails(t)
        PROVE  IInv'
    BY <1>4 DEF AnnounceFails, Goto, StartOK, OwnerOK, CountOK
  <1>5. CASE Serve
    BY <1>5 DEF Serve, Idle, StartOK, OwnerOK, CountOK
  <1>6. CASE Interrupt \/ CloseRecord \/ CloseRecordFails \/ ServerStops
    BY <1>6 DEF Interrupt, CloseRecord, CloseRecordFails, ServerStops, Idle,
       Goto, StartOK, OwnerOK, CountOK
  <1>7. CASE CloseRoute
    BY <1>7 DEF CloseRoute, StartOK, OwnerOK, CountOK
  <1>8. CASE Shutdown
    BY <1>8 DEF Shutdown, StartOK, OwnerOK, CountOK
  <1>9. CASE HandleRouteChange
    <2>1. changes' \in Nat /\ changes' <= deaths /\ pc["server"] = "idle"
      BY <1>9 DEF HandleRouteChange, Idle, CountOK
    <2>2. UNCHANGED <<stage, pc, made, announced, deaths>>
      BY <1>9 DEF HandleRouteChange
    <2>3. alive \subseteq {route["server"]} /\ stage # "starting"
      BY <2>1 DEF StartOK, OwnerOK
    <2>4. CASE /\ alive' = alive \ {route["server"]}
               /\ route' = [route EXCEPT !["server"] = NoRoute]
               /\ refused' = FALSE
      <3>1. alive' = {}
        BY <2>3, <2>4
      <3>2. route' \in [Clones -> Routes \cup {NoRoute}]
        BY <2>4
      <3>3. StartOK' /\ OwnerOK'
        BY <2>2, <2>3, <3>1 DEF StartOK, OwnerOK
      <3>4. refused' \in BOOLEAN
        BY <2>4
      <3> QED BY <2>1, <2>2, <3>1, <3>2, <3>3, <3>4 DEF CountOK
    <2>5. CASE refused' = TRUE /\ UNCHANGED <<alive, route>>
      <3>1. refused' \in BOOLEAN
        BY <2>5
      <3> QED BY <2>1, <2>2, <2>3, <2>5, <3>1 DEF StartOK, OwnerOK, CountOK
    <2> QED BY <1>9, <2>4, <2>5 DEF HandleRouteChange
  <1>10. CASE RouteDies
    <2>1. changes' = changes + 1 /\ deaths' = deaths + 1 /\ deaths' \in 0..MaxDeath
      BY <1>10 DEF RouteDies
    <2>2. UNCHANGED <<stage, pc, route, made, announced, refused>> /\ alive' \subseteq alive
      BY <1>10 DEF RouteDies
    <2>3. TypeOK' /\ CountOK'
      BY <2>1, <2>2 DEF CountOK
    <2>4. StartOK' /\ OwnerOK'
      BY <2>1, <2>2 DEF StartOK, OwnerOK
    <2> QED BY <2>3, <2>4
  <1>11. CASE UNCHANGED vars
    BY <1>11 DEF vars, StartOK, OwnerOK, CountOK
  <1> QED BY <1>1, <1>2, <1>3, <1>4, <1>5, <1>6, <1>7, <1>8, <1>9, <1>10, <1>11
          DEF Next, OwnStep, ServerStep

(* The invariant always holds.                                             *)
LEMMA Invariance == Spec => []IInv
  <1> QED BY InitEstablishes, StepKeeps, PTL DEF Spec

(* Every variable keeps its type.                                          *)
THEOREM TypeCorrect == Spec => []TypeOK
  <1>1. IInv => TypeOK
    BY DEF IInv
  <1> QED BY <1>1, Invariance, PTL

(* Announcing, releasing and closing in different clones never make a      *)
(* second route, nor one that no clone knows (Sovereign::announce,         *)
(* Sovereign::release_route, Sovereign::close).                            *)
THEOREM SingleRoute == Spec => []OneRoute
  <1>1. IInv => OneRoute
    BY DEF IInv, OwnerOK, OneRoute, Clones
  <1> QED BY <1>1, Invariance, PTL

(* Sovereign::close, when it comes to its end, leaves no route but one of  *)
(* the server's clone.                                                     *)
THEOREM OwnRouteReleased == Spec => []CloseReleases
  <1> DEFINE Closed == stage = "closed" => route["own"] = NoRoute
  <1>1. Init => Closed
    BY DEF Init
  <1>2. IInv /\ Closed /\ [Next]_vars => Closed'
    <2> SUFFICES ASSUME IInv, Closed, [Next]_vars PROVE Closed'
      OBVIOUS
    <2> USE DEF IInv, TypeOK, Clones
    <2>1. ASSUME NEW t \in Clones,
                 NewRoute(t) \/ KeepRoute(t) \/ Announce(t) \/ AnnounceFails(t)
          PROVE  Closed'
      BY <2>1 DEF NewRoute, KeepRoute, Announce, AnnounceFails, Idle
    <2>2. CASE CloseRoute
      BY <2>2 DEF CloseRoute
    <2>3. CASE HandleRouteChange
      BY <2>3 DEF HandleRouteChange
    <2>4. CASE \/ Serve \/ Interrupt \/ CloseRecord \/ CloseRecordFails
               \/ ServerStops \/ Shutdown \/ RouteDies
      BY <2>4 DEF Serve, Interrupt, CloseRecord, CloseRecordFails, ServerStops,
         Shutdown, RouteDies
    <2>5. CASE UNCHANGED vars
      BY <2>5 DEF vars
    <2> QED BY <2>1, <2>2, <2>3, <2>4, <2>5 DEF Next, OwnStep, ServerStep, Clones
  <1>3. IInv /\ Closed => CloseReleases
    BY DEF IInv, TypeOK, OwnerOK, CloseReleases, Clones, NoRoute, Routes
  <1> QED BY <1>1, <1>2, <1>3, Invariance, PTL DEF Spec

(* The server never keeps a dead route without a RouteChange to come, but  *)
(* for one that Veilid has refused to release.                             *)
THEOREM NoticedDeath == Spec => []DeathIsNoticed
  <1>1. Init => DeathIsNoticed
    BY DEF Init, DeathIsNoticed
  <1>2. IInv /\ DeathIsNoticed /\ [Next]_vars => DeathIsNoticed'
    <2> SUFFICES ASSUME IInv, DeathIsNoticed, [Next]_vars PROVE DeathIsNoticed'
      OBVIOUS
    <2> USE DEF IInv, TypeOK, Clones, Routes, NoRoute, DeathIsNoticed
    <2>1. ASSUME NEW t \in Clones, NewRoute(t)
          PROVE  DeathIsNoticed'
      BY <2>1, BoundAssumption DEF NewRoute, Idle, Goto, StartOK
    <2>2. ASSUME NEW t \in Clones, KeepRoute(t) \/ Announce(t) \/ AnnounceFails(t)
          PROVE  DeathIsNoticed'
      BY <2>2 DEF KeepRoute, Announce, AnnounceFails
    <2>3. CASE Serve
      BY <2>3 DEF Serve, Idle, StartOK
    <2>4. CASE \/ Interrupt \/ CloseRecord \/ CloseRecordFails \/ ServerStops
               \/ CloseRoute \/ Shutdown
      BY <2>4 DEF Interrupt, CloseRecord, CloseRecordFails, ServerStops,
         CloseRoute, Shutdown, Idle, Goto
    <2>5. CASE HandleRouteChange
      BY <2>5 DEF HandleRouteChange
    <2>6. CASE RouteDies
      BY <2>6, BoundAssumption DEF RouteDies
    <2>7. CASE UNCHANGED vars
      BY <2>7 DEF vars
    <2> QED BY <2>1, <2>2, <2>3, <2>4, <2>5, <2>6, <2>7
            DEF Next, OwnStep, ServerStep
  <1> QED BY <1>1, <1>2, Invariance, PTL DEF Spec
=============================================================================
