----------------------------- MODULE ServeProofs -----------------------------
(***************************************************************************)
(* A round of the puller works only with what it has read itself, for any  *)
(* number of remotes in any order, any failures and any startup.           *)
(***************************************************************************)
EXTENDS Serve, FiniteSetTheorems, TLAPS

(* What a round has refreshed so far is as new as its start.  While it     *)
(* pulls, that is everything.                                              *)
Refreshed ==
    \A j \in 1..N :
        \/ at["puller"].step = "pull"
        \/ at["puller"].step = "refresh" /\ j < at["puller"].i
        => seen["puller"][order[j]] >= roundStart[order[j]]

(* Announcements only get newer, so one read after the tick is new enough. *)
StartIsPast == \A p \in Remotes : roundStart[p] <= published[p]

(* The puller has not begun when the remotes are cloned for it.            *)
NotBeforeServing == ~serving => at["puller"].step = "idle"

IInv == TypeOK /\ Refreshed /\ StartIsPast /\ NotBeforeServing

-----------------------------------------------------------------------------

(* The number of remotes is a number.                                      *)
LEMMA NType == N \in Nat
  BY FS_CardinalityType, RemotesAssumption DEF N

(* Every remote has a place in the order of iteration.                     *)
LEMMA Placed ==
    ASSUME TypeOK, NEW p \in Remotes
    PROVE  \E j \in 1..N : order[j] = p
  BY DEF TypeOK, Orders

(* The invariant holds before the network is up.                           *)
LEMMA InitEstablishes == Init => IInv
  <1> SUFFICES ASSUME Init PROVE IInv
    OBVIOUS
  <1> USE NType, FateAssumption, BoundAssumption
  <1>1. at \in [Tasks -> [step : {"attach", "idle", "announce", "refresh", "pull"},
                         i    : 1..(N + 1)]]
    <2>1. \A t \in Tasks :
             [step |-> IF t = "server" THEN "attach" ELSE "idle", i |-> 1]
             \in [step : {"attach", "idle", "announce", "refresh", "pull"},
                 i    : 1..(N + 1)]
      OBVIOUS
    <2> QED BY <2>1 DEF Init
  <1>2. /\ seen \in [Tasks -> [Remotes -> Announcements]]
        /\ published \in [Remotes -> Announcements]
        /\ roundStart \in [Remotes -> Announcements]
    BY DEF Init, Announcements
  <1>3. /\ known \in SUBSET Remotes
        /\ calls \in [Callers -> {"none", "queued", "responding", "answered", "dropped"}]
        /\ {dbVersion, pushing, announced} \subseteq 0..MaxVersion
        /\ order \in Orders
        /\ reachable \in SUBSET Remotes
    BY DEF Init
  <1>4. TypeOK
    <2>1. serving \in BOOLEAN
      BY DEF Init
    <2> QED BY <1>1, <1>2, <1>3, <2>1 DEF TypeOK
  <1>5. Refreshed /\ StartIsPast /\ NotBeforeServing
    BY DEF Init, Refreshed, StartIsPast, NotBeforeServing, Tasks, Announcements
  <1> QED BY <1>4, <1>5 DEF IInv

(* Where a task goes keeps the type of `at`.                               *)
LEMMA GotoType ==
    ASSUME TypeOK,
           NEW t \in Tasks,
           NEW step \in {"attach", "idle", "announce", "refresh", "pull"},
           NEW i \in 1..(N + 1),
           Goto(t, step, i)
    PROVE  /\ at' \in [Tasks -> [step : {"attach", "idle", "announce", "refresh", "pull"},
                                 i    : 1..(N + 1)]]
           /\ at'[t] = [step |-> step, i |-> i]
           /\ \A u \in Tasks : u # t => at'[u] = at[u]
  BY DEF TypeOK, Goto

(* Steps of the server that do not end startup leave the puller alone.     *)
LEMMA ServerOnly ==
    ASSUME IInv, TypeOK',
           at'["puller"] = at["puller"],
           seen'["puller"] = seen["puller"],
           serving' = serving,
           UNCHANGED <<order, roundStart, published>>
    PROVE  IInv'
  BY DEF IInv, Refreshed, StartIsPast, NotBeforeServing

(* A task visiting a remote has a next index.                              *)
LEMMA NextIndex ==
    ASSUME TypeOK, NEW t \in Tasks, NEW step, NEW p, Visits(t, step, p)
    PROVE  at[t].i + 1 \in 1..(N + 1) /\ at[t].i \in 1..N
  BY NType DEF TypeOK, Visits

-----------------------------------------------------------------------------
(* Every step keeps the types.                                             *)

(* What a step that moves a task has to keep besides.                      *)
LEMMA MoveTypes ==
    ASSUME TypeOK,
           NEW t \in Tasks,
           NEW step \in {"attach", "idle", "announce", "refresh", "pull"},
           NEW i \in 1..(N + 1),
           Goto(t, step, i),
           UNCHANGED <<order, calls, peers>>,
           serving' \in BOOLEAN,
           seen' \in [Tasks -> [Remotes -> Announcements]],
           known' \in SUBSET Remotes,
           roundStart' \in [Remotes -> Announcements],
           {dbVersion', pushing', announced'} \subseteq 0..MaxVersion
    PROVE  TypeOK'
  <1>1. at' \in [Tasks -> [step : {"attach", "idle", "announce", "refresh", "pull"},
                          i    : 1..(N + 1)]]
    BY GotoType
  <1>2. /\ order' \in Orders
        /\ calls' \in [Callers -> {"none", "queued", "responding", "answered", "dropped"}]
        /\ published' \in [Remotes -> Announcements]
        /\ reachable' \in SUBSET Remotes
    BY DEF TypeOK, peers
  <1> QED BY <1>1, <1>2 DEF TypeOK

(* A loop's first place, and the two tasks.                                *)
LEMMA Places ==
    /\ 1 \in 1..(N + 1)
    /\ "server" \in Tasks
    /\ "puller" \in Tasks
  BY NType DEF Tasks

(* The steps of startup and of a push.                                     *)
LEMMA PushTypes ==
    ASSUME TypeOK,
           Attach \/ PushRead \/ Announce \/ AnnounceFails \/ EndPush
    PROVE  TypeOK'
  <1>1. /\ UNCHANGED <<order, calls, peers, roundStart>>
        /\ {dbVersion', pushing', announced'} \subseteq 0..MaxVersion
    BY DEF TypeOK, Attach, PushRead, Announce, AnnounceFails, EndPush, node
  <1>2. serving' \in BOOLEAN
    BY DEF TypeOK, Attach, PushRead, Announce, AnnounceFails, EndPush
  <1>3. seen' \in [Tasks -> [Remotes -> Announcements]]
    BY Places DEF TypeOK, Attach, PushRead, Announce, AnnounceFails, EndPush
  <1>4. known' \in SUBSET Remotes
    BY DEF TypeOK, Attach, PushRead, Announce, AnnounceFails, EndPush, KnownPeers
  <1>5. roundStart' \in [Remotes -> Announcements]
    BY <1>1 DEF TypeOK
  <1>6. \E step \in {"idle", "announce", "refresh"} : Goto("server", step, 1)
    BY DEF Attach, PushRead, Announce, AnnounceFails, EndPush
  <1> QED BY <1>1, <1>2, <1>3, <1>4, <1>5, <1>6, MoveTypes, Places

(* The two outcomes of refreshing a remote.                                *)
LEMMA RefreshTypes ==
    ASSUME TypeOK, NEW t \in Tasks, NEW p \in Remotes,
           RefreshPeer(t, p) \/ RefreshFails(t, p)
    PROVE  TypeOK'
  <1>1. UNCHANGED <<order, serving, known, roundStart, calls, node, peers>>
    BY DEF RefreshPeer, RefreshFails
  <1>2. seen' \in [Tasks -> [Remotes -> Announcements]]
    <2>1. CASE UNCHANGED seen
      BY <2>1 DEF TypeOK
    <2>2. CASE seen' = [seen EXCEPT ![t][p] = published[p]]
      BY <2>2 DEF TypeOK
    <2> QED BY <2>1, <2>2 DEF RefreshPeer, RefreshFails
  <1>3. \E step \in {"idle", "refresh"}, i \in 1..(N + 1) : Goto(t, step, i)
    BY NextIndex, Places DEF RefreshPeer, RefreshFails
  <1>4. serving' \in BOOLEAN
    BY <1>1 DEF TypeOK
  <1>5. /\ known' \in SUBSET Remotes
        /\ roundStart' \in [Remotes -> Announcements]
        /\ {dbVersion', pushing', announced'} \subseteq 0..MaxVersion
    BY <1>1 DEF TypeOK, node
  <1> QED BY <1>1, <1>2, <1>3, <1>4, <1>5, MoveTypes

(* The puller's loops.                                                     *)
LEMMA PullerTypes ==
    ASSUME TypeOK,
           \/ PullerTick \/ EndRefresh \/ EndRound
           \/ \E p \in Remotes : PullFrom(p) \/ SkipPeer(p)
    PROVE  TypeOK'
  <1>1. UNCHANGED <<order, serving, seen, known, calls, node, peers>>
    BY DEF PullerTick, EndRefresh, EndRound, PullFrom, SkipPeer
  <1>2. roundStart' \in [Remotes -> Announcements]
    BY DEF TypeOK, PullerTick, EndRefresh, EndRound, PullFrom, SkipPeer
  <1>3. \E step \in {"idle", "refresh", "pull"}, i \in 1..(N + 1) :
           Goto("puller", step, i)
    <2>1. CASE PullerTick \/ EndRefresh \/ EndRound
      BY <2>1, Places DEF PullerTick, EndRefresh, EndRound
    <2>2. CASE \E p \in Remotes : PullFrom(p) \/ SkipPeer(p)
      BY <2>2, NextIndex, Places DEF PullFrom, SkipPeer
    <2> QED BY <2>1, <2>2
  <1>4. serving' \in BOOLEAN
    BY <1>1 DEF TypeOK
  <1>5. /\ seen' \in [Tasks -> [Remotes -> Announcements]]
        /\ known' \in SUBSET Remotes
        /\ {dbVersion', pushing', announced'} \subseteq 0..MaxVersion
    BY <1>1 DEF TypeOK, node
  <1> QED BY <1>1, <1>2, <1>3, <1>4, <1>5, MoveTypes, Places

(* Calls and the rest of the world.                                        *)
LEMMA OtherTypes ==
    ASSUME TypeOK, World \/ \E c \in Callers : CallStep(c)
    PROVE  TypeOK'
  <1> USE BoundAssumption
  <1>1. ASSUME NEW c \in Callers, CallStep(c) \/ Call(c)
        PROVE  TypeOK'
    BY <1>1 DEF CallStep, DiscardCall, HandleCall, Respond, RespondFails, Call,
                TypeOK, node, peers
  <1>2. CASE Write
    BY <1>2 DEF Write, TypeOK, peers
  <1>3. ASSUME NEW p \in Remotes, Publish(p)
        PROVE  TypeOK'
    BY <1>3 DEF Publish, TypeOK, node, Announcements
  <1>4. ASSUME NEW p \in Remotes, Vanish(p)
        PROVE  TypeOK'
    BY <1>4 DEF Vanish, TypeOK, node
  <1> QED BY <1>1, <1>2, <1>3, <1>4 DEF World

-----------------------------------------------------------------------------
(* Every step keeps the invariant.                                         *)

(* What touches neither the puller nor what it has read keeps the          *)
(* invariant: most of a push, and all of the calls.                        *)
LEMMA PushKeeps ==
    ASSUME IInv, Attach \/ PushRead \/ Announce \/ AnnounceFails
    PROVE  IInv'
  <1>1. TypeOK'
    BY PushTypes DEF IInv
  <1>2. at'["puller"] = at["puller"]
    BY DEF IInv, TypeOK, Attach, PushRead, Announce, AnnounceFails, Goto, Tasks
  <1> QED BY <1>1, <1>2, ServerOnly
          DEF Attach, PushRead, Announce, AnnounceFails, peers

(* The push that ends startup gives the puller its remotes before its      *)
(* first round; a later one does not touch them.                           *)
LEMMA EndPushKeeps ==
    ASSUME IInv, EndPush
    PROVE  IInv'
  <1>1. TypeOK'
    BY PushTypes DEF IInv
  <1>2. at'["puller"] = at["puller"]
    BY DEF IInv, TypeOK, EndPush, Goto, Tasks
  <1>3. StartIsPast' /\ NotBeforeServing'
    BY DEF IInv, StartIsPast, NotBeforeServing, EndPush, peers
  <1>4. CASE serving
    BY <1>1, <1>2, <1>4, ServerOnly DEF EndPush, peers, IInv, TypeOK
  <1>5. CASE ~serving
    BY <1>1, <1>2, <1>3, <1>5 DEF IInv, Refreshed, NotBeforeServing
  <1> QED BY <1>4, <1>5

(* The puller reads an announcement no older than the start of its round   *)
(* and moves on by one.                                                    *)
LEMMA PullerRefreshKeeps ==
    ASSUME IInv, NEW p \in Remotes, RefreshPeer("puller", p)
    PROVE  IInv'
  <1> USE NType
  <1> "puller" \in Tasks
    BY DEF Tasks
  <1>1. TypeOK'
    BY RefreshTypes DEF IInv
  <1>2. /\ at["puller"].step = "refresh"
        /\ order[at["puller"].i] = p
        /\ at["puller"].i \in 1..N
        /\ at'["puller"] = [step |-> "refresh", i |-> at["puller"].i + 1]
    BY NextIndex, GotoType DEF IInv, RefreshPeer, Visits
  <1>3. StartIsPast' /\ NotBeforeServing'
    BY <1>2 DEF IInv, StartIsPast, NotBeforeServing, RefreshPeer, peers
  <1>4. Refreshed'
    <2> SUFFICES ASSUME NEW j \in 1..N, j < at["puller"].i + 1
                 PROVE  seen'["puller"][order[j]] >= roundStart[order[j]]
      BY <1>2 DEF Refreshed, RefreshPeer
    <2>1. seen'["puller"] = [seen["puller"] EXCEPT ![p] = published[p]]
      BY DEF RefreshPeer, IInv, TypeOK
    <2>2. order[j] \in Remotes /\ seen["puller"] \in [Remotes -> Announcements]
      BY DEF IInv, TypeOK, Orders
    <2>3. CASE order[j] = p
      BY <2>1, <2>2, <2>3 DEF IInv, StartIsPast, TypeOK, Announcements
    <2>4. CASE order[j] # p
      <3>1. j < at["puller"].i
        BY <1>2, <2>4
      <3> QED BY <1>2, <2>1, <2>2, <2>4, <3>1 DEF IInv, Refreshed
    <2> QED BY <2>3, <2>4
  <1> QED BY <1>1, <1>3, <1>4 DEF IInv

(* A failure ends the puller's round: nothing is pulled.                   *)
LEMMA PullerFailureKeeps ==
    ASSUME IInv, NEW p \in Remotes, RefreshFails("puller", p)
    PROVE  IInv'
  <1> USE NType
  <1> "puller" \in Tasks
    BY DEF Tasks
  <1>1. TypeOK'
    BY RefreshTypes DEF IInv
  <1>2. at'["puller"] = [step |-> "idle", i |-> 1]
    BY GotoType DEF IInv, RefreshFails
  <1> QED BY <1>1, <1>2
          DEF IInv, Refreshed, StartIsPast, NotBeforeServing, RefreshFails, peers

(* The server refreshes its own clone of the remotes.                      *)
LEMMA ServerRefreshKeeps ==
    ASSUME IInv, NEW p \in Remotes,
           RefreshPeer("server", p) \/ RefreshFails("server", p)
    PROVE  IInv'
  <1> "server" \in Tasks /\ "puller" \in Tasks
    BY DEF Tasks
  <1>1. TypeOK'
    BY RefreshTypes DEF IInv
  <1>2. at'["puller"] = at["puller"]
    BY DEF IInv, TypeOK, RefreshPeer, RefreshFails, Goto
  <1>3. seen'["puller"] = seen["puller"]
    BY DEF IInv, TypeOK, RefreshPeer, RefreshFails
  <1> QED BY <1>1, <1>2, <1>3, ServerOnly DEF RefreshPeer, RefreshFails, peers

(* A round starts with nothing refreshed.                                  *)
LEMMA PullerTickKeeps ==
    ASSUME IInv, PullerTick
    PROVE  IInv'
  <1> USE NType
  <1> "puller" \in Tasks
    BY DEF Tasks
  <1>1. TypeOK'
    BY PullerTypes DEF IInv
  <1>2. at'["puller"] = [step |-> "refresh", i |-> 1]
    BY GotoType DEF IInv, PullerTick
  <1>3. Refreshed'
    BY <1>2 DEF Refreshed
  <1>4. StartIsPast'
    BY DEF StartIsPast, PullerTick, peers, IInv, TypeOK, Announcements
  <1>5. NotBeforeServing'
    BY DEF NotBeforeServing, PullerTick
  <1> QED BY <1>1, <1>3, <1>4, <1>5 DEF IInv

(* The round begins to pull when all remotes are refreshed.                *)
LEMMA EndRefreshKeeps ==
    ASSUME IInv, EndRefresh
    PROVE  IInv'
  <1> USE NType
  <1> "puller" \in Tasks
    BY DEF Tasks
  <1>1. TypeOK'
    BY PullerTypes DEF IInv
  <1>2. at["puller"].step = "refresh" /\ at["puller"].i > N
    BY DEF EndRefresh, Finished
  <1>3. \A j \in 1..N : j < at["puller"].i
    BY <1>2 DEF IInv, TypeOK
  <1>4. Refreshed'
    BY <1>2, <1>3 DEF IInv, Refreshed, EndRefresh
  <1>5. StartIsPast' /\ NotBeforeServing'
    BY <1>2 DEF IInv, StartIsPast, NotBeforeServing, EndRefresh, peers
  <1> QED BY <1>1, <1>4, <1>5 DEF IInv

(* Pulling, skipping and ending the round read nothing anew.               *)
LEMMA PullKeeps ==
    ASSUME IInv, EndRound \/ \E p \in Remotes : PullFrom(p) \/ SkipPeer(p)
    PROVE  IInv'
  <1> USE NType
  <1> "puller" \in Tasks
    BY DEF Tasks
  <1>1. TypeOK'
    BY PullerTypes DEF IInv
  <1>2. /\ at["puller"].step = "pull"
        /\ UNCHANGED <<order, serving, seen, roundStart, published>>
    BY DEF EndRound, PullFrom, SkipPeer, Finished, Visits, peers
  <1>3. \E step \in {"pull", "idle"}, i \in 1..(N + 1) : Goto("puller", step, i)
    BY NextIndex, Places DEF IInv, EndRound, PullFrom, SkipPeer
  <1>4. at'["puller"].step \in {"pull", "idle"}
    BY <1>3 DEF Goto, IInv, TypeOK
  <1>5. Refreshed' /\ StartIsPast' /\ NotBeforeServing'
    BY <1>2, <1>4 DEF IInv, Refreshed, StartIsPast, NotBeforeServing
  <1> QED BY <1>1, <1>5 DEF IInv

(* Calls touch no remote's status; announcements only get newer.           *)
LEMMA OtherKeeps ==
    ASSUME IInv, World \/ \E c \in Callers : CallStep(c)
    PROVE  IInv'
  <1>1. TypeOK'
    BY OtherTypes DEF IInv
  <1>2. UNCHANGED <<order, serving, at, seen, roundStart>>
    BY DEF World, CallStep, DiscardCall, HandleCall, Respond, RespondFails, Call,
           Write, Publish, Vanish
  <1>3. \A p \in Remotes : published[p] <= published'[p]
    <2>1. ASSUME NEW q \in Remotes, Publish(q)
          PROVE  \A p \in Remotes : published[p] <= published'[p]
      BY <2>1 DEF Publish, IInv, TypeOK, Announcements
    <2>2. ASSUME published' = published
          PROVE  \A p \in Remotes : published[p] <= published'[p]
      BY <2>2 DEF IInv, TypeOK, Announcements
    <2> QED BY <2>1, <2>2
            DEF World, CallStep, DiscardCall, HandleCall, Respond, RespondFails,
                Call, Write, Vanish, peers
  <1>4. StartIsPast'
    BY <1>1, <1>2, <1>3 DEF IInv, StartIsPast, TypeOK, Announcements
  <1> QED BY <1>1, <1>2, <1>4 DEF IInv, Refreshed, NotBeforeServing

-----------------------------------------------------------------------------

(* The invariant holds in every state.                                     *)
THEOREM Invariance == Spec => []IInv
  <1>1. IInv /\ [Next]_vars => IInv'
    <2> SUFFICES ASSUME IInv, [Next]_vars PROVE IInv'
      OBVIOUS
    <2>1. CASE PullerStep
      BY <2>1, PullerTickKeeps, EndRefreshKeeps, PullKeeps, PullerRefreshKeeps,
         PullerFailureKeeps DEF PullerStep
    <2>2. CASE PushStep
      BY <2>2, PushKeeps, EndPushKeeps, ServerRefreshKeeps DEF PushStep
    <2>3. CASE World \/ \E c \in Callers : CallStep(c)
      BY <2>3, OtherKeeps
    <2>4. CASE UNCHANGED vars
      BY <2>4 DEF vars, node, peers, IInv, TypeOK, Refreshed, StartIsPast,
                  NotBeforeServing
    <2> QED BY <2>1, <2>2, <2>3, <2>4 DEF Next
  <1> QED BY <1>1, InitEstablishes, PTL DEF Spec

(* Every variable of Serve keeps its type.                                 *)
THEOREM TypeCorrect == Spec => []TypeOK
  <1>1. IInv => TypeOK
    BY DEF IInv
  <1> QED BY <1>1, Invariance, PTL

(* No pull of spawn_puller is decided on an announcement older than its    *)
(* round.                                                                  *)
THEOREM RoundsAreFresh == Spec => []PullsFromThisRound
  <1>1. IInv => PullsFromThisRound
    <2> SUFFICES ASSUME IInv, at["puller"].step = "pull", NEW p \in Remotes
                 PROVE  seen["puller"][p] >= roundStart[p]
      BY DEF PullsFromThisRound
    <2>1. PICK j \in 1..N : order[j] = p
      BY Placed DEF IInv
    <2> QED BY <2>1 DEF IInv, Refreshed
  <1> QED BY <1>1, Invariance, PTL
=============================================================================
