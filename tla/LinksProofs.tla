------------------------------ MODULE LinksProofs ------------------------------
(***************************************************************************)
(* Calls go to the route that came with the status they were decided on,   *)
(* and cleanup closes the records the process's own value has opened, for  *)
(* any number of remotes and routes.                                       *)
(***************************************************************************)
EXTENDS Links, TLAPS

Running == stage \in {"starting", "serving"}
Refreshing == {"close", "open", "get", "import"}

(* What a call of task t to p needs.                                       *)
Fresh(t, p) ==
    status[t][p] # None =>
        routeId[t][p] = status[t][p] /\ routeId[t][p] \in imported[p]

(* Only one task at a time pulls.                                          *)
ModeOK ==
    /\ stage = "starting" => at["puller"].step = "off" /\ at["server"].step = "off"
    /\ stage = "serving" => at["own"].step = "off"
    /\ toPull["server"] = {}

(* A task refreshes one remote after the other ...                         *)
PlaceOK ==
    \A t \in Tasks :
        /\ at[t].step \in Refreshing => at[t].peer \in Remotes \ todo[t]
        /\ at[t].step \notin Refreshing => at[t].peer = NoPeer
        /\ at[t].step = "import" => status[t][at[t].peer] # None

(* ... and all those it will pull from before the first pull.              *)
LoopOK ==
    Running => \A t \in Tasks, p \in Remotes :
        /\ /\ at[t].step \in Refreshing \cup {"next"}
           /\ p \in toPull[t] \ (todo[t] \cup {at[t].peer})
           => Fresh(t, p)
        /\ at[t].step = "pull" /\ p \in todo[t] => p \in toPull[t] /\ Fresh(t, p)

IInv == TypeOK /\ ModeOK /\ PlaceOK /\ LoopOK

-----------------------------------------------------------------------------

(* The invariant is kept by PullerTick.                                    *)
LEMMA PullerTickKeeps ==
    ASSUME IInv, PullerTick
    PROVE  IInv'
  <1> USE NoPeerAssumption, BoundAssumption
          DEF IInv, PullerTick, Refresh, Goto, links, veilid, Tasks, None, Refreshing
  <1>1. TypeOK'
    BY DEF TypeOK, Steps, Values, PlaceOK
  <1>2. ModeOK'
    BY DEF TypeOK, ModeOK, Steps
  <1>3. PlaceOK'
    BY DEF TypeOK, PlaceOK, ModeOK, Steps
  <1>4. LoopOK'
    BY DEF TypeOK, ModeOK, PlaceOK, LoopOK, Running, Fresh, Steps, Values
  <1> QED BY <1>1, <1>2, <1>3, <1>4

(* The invariant is kept by Push.                                          *)
LEMMA PushKeeps ==
    ASSUME IInv, NEW t \in {"own", "server"}, Push(t)
    PROVE  IInv'
  <1> USE NoPeerAssumption, BoundAssumption
          DEF IInv, Push, Refresh, Goto, links, veilid, Tasks, None, Refreshing
  <1>1. TypeOK'
    BY DEF TypeOK, Steps, Values, PlaceOK
  <1>2. ModeOK'
    BY DEF TypeOK, ModeOK, Steps
  <1>3. PlaceOK'
    BY DEF TypeOK, PlaceOK, ModeOK, Steps
  <1>4. LoopOK'
    BY DEF TypeOK, ModeOK, PlaceOK, LoopOK, Running, Fresh, Steps, Values
  <1> QED BY <1>1, <1>2, <1>3, <1>4

(* The invariant is kept by Pull.                                          *)
LEMMA PullKeeps ==
    ASSUME IInv, NEW p \in Remotes, Pull(p)
    PROVE  IInv'
  <1> USE NoPeerAssumption, BoundAssumption
          DEF IInv, Pull, Refresh, Goto, links, veilid, Tasks, None, Refreshing
  <1>1. TypeOK'
    BY DEF TypeOK, Steps, Values, PlaceOK
  <1>2. ModeOK'
    BY DEF TypeOK, ModeOK, Steps
  <1>3. PlaceOK'
    BY DEF TypeOK, PlaceOK, ModeOK, Steps
  <1>4. LoopOK'
    BY DEF TypeOK, ModeOK, PlaceOK, LoopOK, Running, Fresh, Steps, Values
  <1> QED BY <1>1, <1>2, <1>3, <1>4

(* The invariant is kept by RefreshPeer.                                   *)
LEMMA RefreshPeerKeeps ==
    ASSUME IInv, NEW t \in Tasks, NEW p \in Remotes, RefreshPeer(t, p)
    PROVE  IInv'
  <1> USE NoPeerAssumption, BoundAssumption
          DEF IInv, RefreshPeer, Goto, links, veilid, Tasks, None, Refreshing
  <1>1. TypeOK'
    BY DEF TypeOK, Steps, Values, PlaceOK
  <1>2. ModeOK'
    BY DEF TypeOK, ModeOK, Steps
  <1>3. PlaceOK'
    BY DEF TypeOK, PlaceOK, ModeOK, Steps
  <1>4. LoopOK'
    BY DEF TypeOK, ModeOK, PlaceOK, LoopOK, Running, Fresh, Steps, Values
  <1> QED BY <1>1, <1>2, <1>3, <1>4

(* The invariant is kept by CloseRecord.                                   *)
LEMMA CloseRecordKeeps ==
    ASSUME IInv, NEW t \in Tasks, NEW p \in Remotes, CloseRecord(t, p)
    PROVE  IInv'
  <1> USE NoPeerAssumption, BoundAssumption
          DEF IInv, CloseRecord, Goto, Doing, links, veilid, Tasks, None, Refreshing
  <1>1. TypeOK'
    BY DEF TypeOK, Steps, Values, PlaceOK
  <1>2. ModeOK'
    BY DEF TypeOK, ModeOK, Steps
  <1>3. PlaceOK'
    BY DEF TypeOK, PlaceOK, ModeOK, Steps
  <1>4. LoopOK'
    BY DEF TypeOK, ModeOK, PlaceOK, LoopOK, Running, Fresh, Steps, Values
  <1> QED BY <1>1, <1>2, <1>3, <1>4

(* The invariant is kept by OpenRecord.                                    *)
LEMMA OpenRecordKeeps ==
    ASSUME IInv, NEW t \in Tasks, NEW p \in Remotes, OpenRecord(t, p)
    PROVE  IInv'
  <1> USE NoPeerAssumption, BoundAssumption
          DEF IInv, OpenRecord, Goto, Doing, links, veilid, Tasks, None, Refreshing
  <1>1. TypeOK'
    BY DEF TypeOK, Steps, Values, PlaceOK
  <1>2. ModeOK'
    BY DEF TypeOK, ModeOK, Steps
  <1>3. PlaceOK'
    BY DEF TypeOK, PlaceOK, ModeOK, Steps
  <1>4. LoopOK'
    BY DEF TypeOK, ModeOK, PlaceOK, LoopOK, Running, Fresh, Steps, Values
  <1> QED BY <1>1, <1>2, <1>3, <1>4

(* The invariant is kept by GetValue.                                      *)
LEMMA GetValueKeeps ==
    ASSUME IInv, NEW t \in Tasks, NEW p \in Remotes, GetValue(t, p)
    PROVE  IInv'
  <1> USE NoPeerAssumption, BoundAssumption
          DEF IInv, GetValue, Goto, Doing, links, veilid, Tasks, None, Refreshing
  <1>1. TypeOK'
    BY DEF TypeOK, Steps, Values, PlaceOK
  <1>2. ModeOK'
    BY DEF TypeOK, ModeOK, Steps
  <1>3. PlaceOK'
    BY DEF TypeOK, PlaceOK, ModeOK, Steps
  <1>4. LoopOK'
    BY DEF TypeOK, ModeOK, PlaceOK, LoopOK, Running, Fresh, Steps, Values
  <1> QED BY <1>1, <1>2, <1>3, <1>4

(* The invariant is kept by ImportRoute.                                   *)
LEMMA ImportRouteKeeps ==
    ASSUME IInv, NEW t \in Tasks, NEW p \in Remotes, ImportRoute(t, p)
    PROVE  IInv'
  <1> USE NoPeerAssumption, BoundAssumption
          DEF IInv, ImportRoute, Goto, Doing, links, veilid, Tasks, None, Refreshing
  <1>1. TypeOK'
    BY DEF TypeOK, Steps, Values, PlaceOK
  <1>2. ModeOK'
    BY DEF TypeOK, ModeOK, Steps
  <1>3. PlaceOK'
    BY DEF TypeOK, PlaceOK, ModeOK, Steps
  <1>4. LoopOK'
    BY DEF TypeOK, ModeOK, PlaceOK, LoopOK, Running, Fresh, Steps, Values
  <1> QED BY <1>1, <1>2, <1>3, <1>4

(* The invariant is kept by RefreshFails.                                  *)
LEMMA RefreshFailsKeeps ==
    ASSUME IInv, NEW t \in Tasks, NEW p \in Remotes, RefreshFails(t, p)
    PROVE  IInv'
  <1> USE NoPeerAssumption, BoundAssumption
          DEF IInv, RefreshFails, Fail, Goto, links, veilid, Tasks, None, Refreshing
  <1>1. TypeOK'
    BY DEF TypeOK, Steps, Values, PlaceOK
  <1>2. ModeOK'
    BY DEF TypeOK, ModeOK, Steps
  <1>3. PlaceOK'
    BY DEF TypeOK, PlaceOK, ModeOK, Steps
  <1>4. LoopOK'
    BY DEF TypeOK, ModeOK, PlaceOK, LoopOK, Running, Fresh, Steps, Values
  <1> QED BY <1>1, <1>2, <1>3, <1>4

(* The invariant is kept by EndRefresh.                                    *)
LEMMA EndRefreshKeeps ==
    ASSUME IInv, NEW t \in Tasks, EndRefresh(t)
    PROVE  IInv'
  <1> USE NoPeerAssumption, BoundAssumption
          DEF IInv, EndRefresh, Goto, links, veilid, Tasks, None, Refreshing
  <1>1. TypeOK'
    BY DEF TypeOK, Steps, Values, PlaceOK
  <1>2. ModeOK'
    BY DEF TypeOK, ModeOK, Steps
  <1>3. PlaceOK'
    BY DEF TypeOK, PlaceOK, ModeOK, Steps
  <1>4. LoopOK'
    BY DEF TypeOK, ModeOK, PlaceOK, LoopOK, Running, Fresh, Steps, Values
  <1> QED BY <1>1, <1>2, <1>3, <1>4

(* The invariant is kept by SkipPeer.                                      *)
LEMMA SkipPeerKeeps ==
    ASSUME IInv, NEW t \in Tasks, NEW p \in Remotes, SkipPeer(t, p)
    PROVE  IInv'
  <1> USE NoPeerAssumption, BoundAssumption
          DEF IInv, SkipPeer, links, veilid, Tasks, None, Refreshing
  <1>1. TypeOK'
    BY DEF TypeOK, Steps, Values, PlaceOK
  <1>2. ModeOK'
    BY DEF TypeOK, ModeOK, Steps
  <1>3. PlaceOK'
    BY DEF TypeOK, PlaceOK, ModeOK, Steps
  <1>4. LoopOK'
    BY DEF TypeOK, ModeOK, PlaceOK, LoopOK, Running, Fresh, Steps, Values
  <1> QED BY <1>1, <1>2, <1>3, <1>4

(* The invariant is kept by PullFrom.                                      *)
LEMMA PullFromKeeps ==
    ASSUME IInv, NEW t \in Tasks, NEW p \in Remotes, PullFrom(t, p)
    PROVE  IInv'
  <1> USE NoPeerAssumption, BoundAssumption
          DEF IInv, PullFrom, links, veilid, Tasks, None, Refreshing
  <1>1. TypeOK'
    BY DEF TypeOK, Steps, Values, PlaceOK
  <1>2. ModeOK'
    BY DEF TypeOK, ModeOK, Steps
  <1>3. PlaceOK'
    BY DEF TypeOK, PlaceOK, ModeOK, Steps
  <1>4. LoopOK'
    BY DEF TypeOK, ModeOK, PlaceOK, LoopOK, Running, Fresh, Steps, Values
  <1> QED BY <1>1, <1>2, <1>3, <1>4

(* The invariant is kept by CallFails.                                     *)
LEMMA CallFailsKeeps ==
    ASSUME IInv, NEW t \in Tasks, NEW p \in Remotes, CallFails(t, p)
    PROVE  IInv'
  <1> USE NoPeerAssumption, BoundAssumption
          DEF IInv, CallFails, links, veilid, Tasks, None, Refreshing
  <1>1. TypeOK'
    BY DEF TypeOK, Steps, Values, PlaceOK
  <1>2. ModeOK'
    BY DEF TypeOK, ModeOK, Steps
  <1>3. PlaceOK'
    BY DEF TypeOK, PlaceOK, ModeOK, Steps
  <1>4. LoopOK'
    BY DEF TypeOK, ModeOK, PlaceOK, LoopOK, Running, Fresh, Steps, Values
  <1> QED BY <1>1, <1>2, <1>3, <1>4

(* The invariant is kept by EndPulls.                                      *)
LEMMA EndPullsKeeps ==
    ASSUME IInv, NEW t \in Tasks, EndPulls(t)
    PROVE  IInv'
  <1> USE NoPeerAssumption, BoundAssumption
          DEF IInv, EndPulls, Fail, Goto, links, veilid, Tasks, None, Refreshing
  <1>1. TypeOK'
    BY DEF TypeOK, Steps, Values, PlaceOK
  <1>2. ModeOK'
    BY DEF TypeOK, ModeOK, Steps
  <1>3. PlaceOK'
    BY DEF TypeOK, PlaceOK, ModeOK, Steps
  <1>4. LoopOK'
    BY DEF TypeOK, ModeOK, PlaceOK, LoopOK, Running, Fresh, Steps, Values
  <1> QED BY <1>1, <1>2, <1>3, <1>4

(* The invariant is kept by Serve.                                         *)
LEMMA ServeKeeps ==
    ASSUME IInv, Serve
    PROVE  IInv'
  <1> USE NoPeerAssumption, BoundAssumption
          DEF IInv, Serve, links, veilid, Tasks, None, Refreshing
  <1>1. TypeOK'
    BY DEF TypeOK, Steps, Values, PlaceOK
  <1>2. ModeOK'
    BY DEF TypeOK, ModeOK, Steps
  <1>3. PlaceOK'
    BY DEF TypeOK, PlaceOK, ModeOK, Steps
  <1>4. LoopOK'
    BY DEF TypeOK, ModeOK, PlaceOK, LoopOK, Running, Fresh, Steps, Values
  <1> QED BY <1>1, <1>2, <1>3, <1>4

(* The invariant is kept by Cleanup.                                       *)
LEMMA CleanupKeeps ==
    ASSUME IInv, Cleanup
    PROVE  IInv'
  <1> USE NoPeerAssumption, BoundAssumption
          DEF IInv, Cleanup, Goto, links, veilid, Tasks, None, Refreshing
  <1>1. TypeOK'
    BY DEF TypeOK, Steps, Values, PlaceOK
  <1>2. ModeOK'
    BY DEF TypeOK, ModeOK, Steps
  <1>3. PlaceOK'
    BY DEF TypeOK, PlaceOK, ModeOK, Steps
  <1>4. LoopOK'
    BY DEF TypeOK, ModeOK, PlaceOK, LoopOK, Running, Fresh, Steps, Values
  <1> QED BY <1>1, <1>2, <1>3, <1>4

(* The invariant is kept by TaskStops.                                     *)
LEMMA TaskStopsKeeps ==
    ASSUME IInv, NEW t \in Tasks, TaskStops(t)
    PROVE  IInv'
  <1> USE NoPeerAssumption, BoundAssumption
          DEF IInv, TaskStops, Goto, links, veilid, Tasks, None, Refreshing
  <1>1. TypeOK'
    BY DEF TypeOK, Steps, Values, PlaceOK
  <1>2. ModeOK'
    BY DEF TypeOK, ModeOK, Steps
  <1>3. PlaceOK'
    BY DEF TypeOK, PlaceOK, ModeOK, Steps
  <1>4. LoopOK'
    BY DEF TypeOK, ModeOK, PlaceOK, LoopOK, Running, Fresh, Steps, Values
  <1> QED BY <1>1, <1>2, <1>3, <1>4

(* The invariant is kept by ClosePeer.                                     *)
LEMMA ClosePeerKeeps ==
    ASSUME IInv, NEW p \in Remotes, ClosePeer(p)
    PROVE  IInv'
  <1> USE NoPeerAssumption, BoundAssumption
          DEF IInv, ClosePeer, links, veilid, Tasks, None, Refreshing
  <1>1. TypeOK'
    BY DEF TypeOK, Steps, Values, PlaceOK
  <1>2. ModeOK'
    BY DEF TypeOK, ModeOK, Steps
  <1>3. PlaceOK'
    BY DEF TypeOK, PlaceOK, ModeOK, Steps
  <1>4. LoopOK'
    BY DEF TypeOK, ModeOK, PlaceOK, LoopOK, Running, Fresh, Steps, Values
  <1> QED BY <1>1, <1>2, <1>3, <1>4

(* The invariant is kept by ClosePeerFails.                                *)
LEMMA ClosePeerFailsKeeps ==
    ASSUME IInv, NEW p \in Remotes, ClosePeerFails(p)
    PROVE  IInv'
  <1> USE NoPeerAssumption, BoundAssumption
          DEF IInv, ClosePeerFails, links, veilid, Tasks, None, Refreshing
  <1>1. TypeOK'
    BY DEF TypeOK, Steps, Values, PlaceOK
  <1>2. ModeOK'
    BY DEF TypeOK, ModeOK, Steps
  <1>3. PlaceOK'
    BY DEF TypeOK, PlaceOK, ModeOK, Steps
  <1>4. LoopOK'
    BY DEF TypeOK, ModeOK, PlaceOK, LoopOK, Running, Fresh, Steps, Values
  <1> QED BY <1>1, <1>2, <1>3, <1>4

(* The invariant is kept when Conclave::close ends, with an error or not.  *)
LEMMA EndCloseKeeps ==
    ASSUME IInv, EndClose \/ SovereignFails
    PROVE  IInv'
  <1> USE NoPeerAssumption, BoundAssumption
          DEF IInv, EndClose, SovereignFails, links, veilid, Tasks, None, Refreshing
  <1>1. TypeOK'
    BY DEF TypeOK, Steps, Values, PlaceOK
  <1>2. ModeOK'
    BY DEF TypeOK, ModeOK, Steps
  <1>3. PlaceOK'
    BY DEF TypeOK, PlaceOK, ModeOK, Steps
  <1>4. LoopOK'
    BY DEF TypeOK, ModeOK, PlaceOK, LoopOK, Running, Fresh, Steps, Values
  <1> QED BY <1>1, <1>2, <1>3, <1>4

(* The invariant is kept by Publish.                                       *)
LEMMA PublishKeeps ==
    ASSUME IInv, NEW p \in Remotes, Publish(p)
    PROVE  IInv'
  <1> USE NoPeerAssumption, BoundAssumption
          DEF IInv, Publish, links, veilid, Tasks, None, Refreshing
  <1>1. TypeOK'
    BY DEF TypeOK, Steps, Values, PlaceOK
  <1>2. ModeOK'
    BY DEF TypeOK, ModeOK, Steps
  <1>3. PlaceOK'
    BY DEF TypeOK, PlaceOK, ModeOK, Steps
  <1>4. LoopOK'
    BY DEF TypeOK, ModeOK, PlaceOK, LoopOK, Running, Fresh, Steps, Values
  <1> QED BY <1>1, <1>2, <1>3, <1>4

-----------------------------------------------------------------------------

(* The invariant holds of a process that starts.                           *)
LEMMA InitEstablishes == Init => IInv
  <1> SUFFICES ASSUME Init PROVE IInv
    OBVIOUS
  <1> USE NoPeerAssumption, BoundAssumption DEF Init, Tasks, None, Refreshing
  <1>1. TypeOK
    <2>1. published \in [Remotes -> Values]
      BY DEF Values
    <2> QED BY <2>1 DEF TypeOK, Steps, Values
  <1>2. ModeOK /\ PlaceOK /\ LoopOK
    BY DEF ModeOK, PlaceOK, LoopOK, Running, Fresh
  <1> QED BY <1>1, <1>2 DEF IInv

(* The invariant is kept by every step.                                    *)
LEMMA StepKeeps == IInv /\ [Next]_vars => IInv'
  <1> SUFFICES ASSUME IInv, [Next]_vars PROVE IInv'
    OBVIOUS
  <1>1. CASE UNCHANGED vars
    BY <1>1 DEF vars, links, veilid, IInv, TypeOK, ModeOK, PlaceOK, LoopOK,
                Running, Fresh
  <1>2. ASSUME NEW t \in Tasks, TaskStep(t)
        PROVE  IInv'
    BY <1>2, EndRefreshKeeps, EndPullsKeeps, TaskStopsKeeps, RefreshPeerKeeps,
       CloseRecordKeeps, OpenRecordKeeps, GetValueKeeps, ImportRouteKeeps,
       RefreshFailsKeeps, SkipPeerKeeps, PullFromKeeps, CallFailsKeeps DEF TaskStep
  <1> QED BY <1>1, <1>2, PullerTickKeeps, PushKeeps, PullKeeps, ServeKeeps,
          CleanupKeeps, EndCloseKeeps, ClosePeerKeeps, ClosePeerFailsKeeps,
          PublishKeeps DEF Next

(* The invariant always holds.                                             *)
LEMMA Invariance == Spec => []IInv
  <1> QED BY InitEstablishes, StepKeeps, PTL DEF Spec

(* Every variable keeps its type.                                          *)
THEOREM TypeCorrect == Spec => []TypeOK
  <1>1. IInv => TypeOK
    BY DEF IInv
  <1> QED BY <1>1, Invariance, PTL

(* No call of Conclave::changes goes to a route of an earlier status, or   *)
(* to one that a failed call has released.                                 *)
THEOREM RouteForEveryCall == Spec => []CallsHaveRoute
  <1>1. IInv => CallsHaveRoute
    BY DEF IInv, LoopOK, Running, Fresh, CallsHaveRoute
  <1> QED BY <1>1, Invariance, PTL

-----------------------------------------------------------------------------
(* Records.  A record that is open is in the dht of some task; the         *)
(* process's own value is the only one before `serve`, does nothing after, *)
(* and gives its records up one by one while it is closed, until a close   *)
(* fails.                                                                  *)
RecordsOK ==
    /\ stage # "failed" =>
          opened \subseteq dht["own"] \cup dht["puller"] \cup dht["server"]
    /\ stage = "starting" => dht["puller"] = {} /\ dht["server"] = {}
    /\ stage # "starting" => at["own"].step = "off"
    /\ stage = "closing" => dht["own"] \subseteq todo["own"]
    /\ stage = "closed" => dht["own"] = {}

(* The steps of a task keep it.                                            *)
LEMMA TasksKeepRecords ==
    ASSUME IInv, RecordsOK, NEW t \in Tasks, TaskStep(t)
    PROVE  RecordsOK'
  <1> USE DEF IInv, TypeOK, ModeOK, RecordsOK, Tasks, Goto, links, veilid
  <1>1. CASE EndRefresh(t) \/ EndPulls(t) \/ TaskStops(t)
    BY <1>1 DEF EndRefresh, EndPulls, TaskStops, Fail
  <1>2. ASSUME NEW p \in Remotes,
               \/ RefreshPeer(t, p) \/ RefreshFails(t, p) \/ SkipPeer(t, p)
               \/ PullFrom(t, p) \/ CallFails(t, p)
        PROVE  RecordsOK'
    BY <1>2 DEF RefreshPeer, RefreshFails, SkipPeer, PullFrom, CallFails, Fail
  <1>3. ASSUME NEW p \in Remotes,
               CloseRecord(t, p) \/ GetValue(t, p) \/ ImportRoute(t, p)
        PROVE  RecordsOK'
    BY <1>3 DEF CloseRecord, GetValue, ImportRoute, Doing
  <1>4. ASSUME NEW p \in Remotes, OpenRecord(t, p)
        PROVE  RecordsOK'
    BY <1>4 DEF OpenRecord, Doing
  <1> QED BY <1>1, <1>2, <1>3, <1>4 DEF TaskStep

(* Every step keeps it.                                                    *)
LEMMA StepKeepsRecords == IInv /\ RecordsOK /\ [Next]_vars => RecordsOK'
  <1> SUFFICES ASSUME IInv, RecordsOK, [Next]_vars PROVE RecordsOK'
    OBVIOUS
  <1> USE DEF IInv, TypeOK, ModeOK, RecordsOK, Tasks, Goto, links, veilid
  <1>1. CASE UNCHANGED vars
    BY <1>1 DEF vars
  <1>2. ASSUME \/ PullerTick
               \/ \E t \in {"own", "server"} : Push(t)
               \/ \E p \in Remotes : Pull(p)
        PROVE  RecordsOK'
    BY <1>2 DEF PullerTick, Push, Pull, Refresh
  <1>3. CASE Serve
    BY <1>3 DEF Serve
  <1>4. CASE Cleanup
    BY <1>4 DEF Cleanup
  <1>5. CASE EndClose \/ SovereignFails
    BY <1>5 DEF EndClose, SovereignFails
  <1>6. ASSUME NEW p \in Remotes, ClosePeer(p)
        PROVE  RecordsOK'
    BY <1>6 DEF ClosePeer
  <1>8. ASSUME NEW p \in Remotes, ClosePeerFails(p)
        PROVE  RecordsOK'
    <2>1. /\ stage = "closing" /\ stage' = "failed" /\ UNCHANGED <<at, todo, opened>>
          /\ dht' = [dht EXCEPT !["own"] = @ \ {p}]
      BY <1>8 DEF ClosePeerFails
    <2> QED BY <2>1
  <1>7. ASSUME NEW p \in Remotes, Publish(p)
        PROVE  RecordsOK'
    BY <1>7 DEF Publish
  <1> QED BY <1>1, <1>2, <1>3, <1>4, <1>5, <1>6, <1>7, <1>8, TasksKeepRecords
          DEF Next

(* Conclave::close, when it comes to its end, leaves open only what the    *)
(* puller or the server has opened.                                        *)
THEOREM RecordsClosed == Spec => []CloseIsComplete
  <1>1. Init => RecordsOK
    BY DEF Init, RecordsOK, Tasks
  <1>2. RecordsOK => CloseIsComplete
    BY DEF RecordsOK, CloseIsComplete
  <1> QED BY <1>1, <1>2, StepKeepsRecords, Invariance, PTL DEF Spec
=============================================================================
