---------------------------- MODULE IdentityProofs ----------------------------
(***************************************************************************)
(* A state directory keeps its promises, with any number of processes that *)
(* use it together, of crashes, names and addresses.                       *)
(***************************************************************************)
EXTENDS Identity, TLAPS

(* From here on a process has an identity.                                 *)
Holding == {"open", "list", "loadPeers", "up"} \cup Changing

(* One process has the directory open.                                     *)
Alone == \A p, q \in Procs : pc[p] # "down" /\ pc[q] # "down" => p = q

(* The columns of the local table agree when both are filled, and init     *)
(* runs only while the second is empty and in one process only, unless two *)
(* ran before there was an identity.  The first is filled before the       *)
(* second whatever happens.                                                *)
LocalOK ==
    /\ ~raced => IF storedPair = NoKey THEN Alone ELSE storedKey = storedPair
    /\ storedPair # NoKey => storedKey # NoKey
    /\ \A p \in Procs :
          /\ pc[p] \in {"create", "storeKey", "storePair"} => raced \/ storedPair = NoKey
          /\ pc[p] \in {"storeKey", "storePair"} => fresh[p] # NoKey
          /\ pc[p] = "storePair" => storedKey # NoKey /\ (raced \/ storedKey = fresh[p])

(* What has been loaded is what is stored.                                 *)
SovOK ==
    ~raced => \A p \in Procs :
        /\ pc[p] = "loadPair" => sov[p].key = storedKey
        /\ pc[p] \in Holding =>
              /\ storedPair # NoKey
              /\ sov[p].key = storedKey
              /\ sov[p].pair = storedPair

(* Memory and table differ only where a load or a change is under way or   *)
(* has failed, and where another process has changed the table.            *)
PeersOK ==
    \A p \in Procs :
        /\ pc[p] \notin Listed => doubtful[p] = {} /\ peers[p] = NoPeers
        /\ pc[p] = "loadPeers" => \A n \in Names \ doubtful[p] :
              IF n \in toLoad[p] THEN table[n] # NoAddr ELSE peers[p][n] = table[n]
        /\ pc[p] = "up" => \A n \in Names \ doubtful[p] : peers[p][n] = table[n]
        /\ pc[p] \in Changing =>
              /\ op[p] \in Ops
              /\ \A n \in Names \ doubtful[p] :
                    n = op[p].name \/ peers[p][n] = table[n]
        /\ pc[p] = "deletePeer" =>
              /\ op[p].addr = NoAddr
              /\ peers[p][op[p].name] = NoAddr

(* The inductive invariant.                                                *)
IInv == TypeOK /\ LocalOK /\ SovOK /\ PeersOK

-----------------------------------------------------------------------------

(* A process that goes down leaves the tables alone.                       *)
LEMMA DownKeeps ==
    ASSUME IInv, NEW p \in Procs, Down(p)
    PROVE  IInv'
  <1> USE NothingAssumption DEF IInv, Down, local, Goto
  <1>1. TypeOK'
    BY DEF TypeOK, Starting, Changing, Ops, NoOp, NoPeers, NoSov
  <1>2. LocalOK'
    BY DEF TypeOK, Alone, LocalOK, Starting, Changing
  <1>3. SovOK'
    BY DEF TypeOK, Alone, LocalOK, SovOK, Holding, Starting, Changing
  <1>4. PeersOK'
    BY DEF TypeOK, PeersOK, Listed, Unseen, Starting, Changing, Ops, NoPeers
  <1> QED BY <1>1, <1>2, <1>3, <1>4

(* The invariant is kept by Start.                                         *)
LEMMA StartKeeps ==
    ASSUME IInv, NEW p \in Procs, Start(p)
    PROVE  IInv'
  <1> USE NothingAssumption DEF IInv, Start, local, loading, changing, Goto
  <1>1. TypeOK'
    BY DEF TypeOK, Starting, Changing, Ops, NoOp, NoPeers, NoSov
  <1>2. LocalOK'
    BY DEF TypeOK, Alone, LocalOK, Starting, Changing
  <1>3. SovOK'
    BY DEF TypeOK, Alone, LocalOK, SovOK, Holding, Starting, Changing
  <1>4. PeersOK'
    BY DEF TypeOK, PeersOK, Listed, Unseen, Starting, Changing, Ops, NoPeers
  <1> QED BY <1>1, <1>2, <1>3, <1>4

(* The invariant is kept by NoIdentity.                                    *)
LEMMA NoIdentityKeeps ==
    ASSUME IInv, NEW p \in Procs, pc[p] \in {"loadKey", "loadPair"},
           storedPair = NoKey, NoIdentity(p)
    PROVE  IInv'
  <1>1. CASE p \in back
    BY <1>1, DownKeeps DEF NoIdentity
  <1>2. CASE p \notin back
    <2>0. /\ Goto(p, "create")
          /\ sov' = [sov EXCEPT ![p] = NoSov]
          /\ UNCHANGED <<local, table, back, fresh, toLoad, peers, changing, raced>>
      BY <1>2 DEF NoIdentity
    <2> USE <1>2, <2>0, NothingAssumption DEF IInv, local, changing, Goto
    <2>1. TypeOK'
      BY DEF TypeOK, Starting, Changing, Ops, NoOp, NoPeers, NoSov
    <2>2. LocalOK'
      BY DEF TypeOK, Alone, LocalOK, Starting, Changing
    <2>3. SovOK'
      BY DEF TypeOK, Alone, LocalOK, SovOK, Holding, Starting, Changing
    <2>4. PeersOK'
      BY DEF TypeOK, PeersOK, Listed, Unseen, Starting, Changing, Ops, NoPeers
    <2> QED BY <2>1, <2>2, <2>3, <2>4
  <1> QED BY <1>1, <1>2

(* The invariant is kept by LoadKey.                                       *)
LEMMA LoadKeyKeeps ==
    ASSUME IInv, NEW p \in Procs, LoadKey(p)
    PROVE  IInv'
  <1>1. CASE storedKey = NoKey
    BY <1>1, NoIdentityKeeps, NothingAssumption DEF LoadKey, LocalOK, IInv
  <1>2. CASE storedKey # NoKey
    <2>0. /\ pc[p] = "loadKey" /\ Goto(p, "loadPair")
          /\ sov' = [sov EXCEPT ![p].key = storedKey]
          /\ UNCHANGED <<local, table, back, fresh, toLoad, peers, changing, raced>>
      BY <1>2 DEF LoadKey
    <2> USE <1>2, <2>0, NothingAssumption DEF IInv, local, changing, Goto
    <2>1. TypeOK'
      BY DEF TypeOK, Starting, Changing, Ops, NoOp, NoPeers, NoSov
    <2>2. LocalOK'
      BY DEF TypeOK, Alone, LocalOK, Starting, Changing
    <2>3. SovOK'
      BY DEF TypeOK, Alone, LocalOK, SovOK, Holding, Starting, Changing
    <2>4. PeersOK'
      BY DEF TypeOK, PeersOK, Listed, Unseen, Starting, Changing, Ops, NoPeers
    <2> QED BY <2>1, <2>2, <2>3, <2>4
  <1> QED BY <1>1, <1>2

(* The invariant is kept by LoadPair.                                      *)
LEMMA LoadPairKeeps ==
    ASSUME IInv, NEW p \in Procs, LoadPair(p)
    PROVE  IInv'
  <1>1. CASE storedPair = NoKey
    BY <1>1, NoIdentityKeeps, NothingAssumption DEF LoadPair
  <1>2. CASE storedPair # NoKey
    <2>0. /\ pc[p] = "loadPair" /\ Goto(p, "open")
          /\ sov' = [sov EXCEPT ![p].pair = storedPair]
          /\ UNCHANGED <<local, table, back, fresh, toLoad, peers, changing, raced>>
      BY <1>2 DEF LoadPair
    <2> USE <1>2, <2>0, NothingAssumption DEF IInv, local, changing, Goto
    <2>1. TypeOK'
      BY DEF TypeOK, Starting, Changing, Ops, NoOp, NoPeers, NoSov
    <2>2. LocalOK'
      BY DEF TypeOK, Alone, LocalOK, Starting, Changing
    <2>3. SovOK'
      BY DEF TypeOK, Alone, LocalOK, SovOK, Holding, Starting, Changing
    <2>4. PeersOK'
      BY DEF TypeOK, PeersOK, Listed, Unseen, Starting, Changing, Ops, NoPeers
    <2> QED BY <2>1, <2>2, <2>3, <2>4
  <1> QED BY <1>1, <1>2

(* The invariant is kept by OpenRecord.                                    *)
LEMMA OpenRecordKeeps ==
    ASSUME IInv, NEW p \in Procs, OpenRecord(p)
    PROVE  IInv'
  <1> USE NothingAssumption DEF IInv, OpenRecord, local, loading, changing, Goto
  <1>1. TypeOK'
    BY DEF TypeOK, Starting, Changing, Ops, NoOp, NoPeers, NoSov
  <1>2. LocalOK'
    BY DEF TypeOK, Alone, LocalOK, Starting, Changing
  <1>3. SovOK'
    BY DEF TypeOK, Alone, LocalOK, SovOK, Holding, Starting, Changing
  <1>4. PeersOK'
    BY DEF TypeOK, PeersOK, Listed, Unseen, Starting, Changing, Ops, NoPeers
  <1> QED BY <1>1, <1>2, <1>3, <1>4

(* The invariant is kept by CreateRecord.                                  *)
LEMMA CreateRecordKeeps ==
    ASSUME IInv, NEW p \in Procs, NEW k \in Keys, CreateRecord(p, k)
    PROVE  IInv'
  <1> USE NothingAssumption DEF IInv, CreateRecord, changing, Goto
  <1>1. TypeOK'
    BY DEF TypeOK, Starting, Changing, Ops, NoOp, NoPeers, NoSov
  <1>2. LocalOK'
    BY DEF TypeOK, Alone, LocalOK, Starting, Changing
  <1>3. SovOK'
    BY DEF TypeOK, Alone, LocalOK, SovOK, Holding, Starting, Changing
  <1>4. PeersOK'
    BY DEF TypeOK, PeersOK, Listed, Unseen, Starting, Changing, Ops, NoPeers
  <1> QED BY <1>1, <1>2, <1>3, <1>4

(* The invariant is kept by StoreKey.                                      *)
LEMMA StoreKeyKeeps ==
    ASSUME IInv, NEW p \in Procs, StoreKey(p)
    PROVE  IInv'
  <1> USE NothingAssumption DEF IInv, StoreKey, loading, changing, Goto
  <1>1. TypeOK'
    BY DEF TypeOK, Starting, Changing, Ops, NoOp, NoPeers, NoSov
  <1>2. LocalOK'
    BY DEF TypeOK, Alone, LocalOK, Starting, Changing
  <1>3. SovOK'
    BY DEF TypeOK, Alone, LocalOK, SovOK, Holding, Starting, Changing
  <1>4. PeersOK'
    BY DEF TypeOK, PeersOK, Listed, Unseen, Starting, Changing, Ops, NoPeers
  <1> QED BY <1>1, <1>2, <1>3, <1>4

(* The invariant is kept by StorePair.                                     *)
LEMMA StorePairKeeps ==
    ASSUME IInv, NEW p \in Procs, StorePair(p)
    PROVE  IInv'
  <1> USE NothingAssumption DEF IInv, StorePair, changing, Goto
  <1>1. TypeOK'
    BY DEF TypeOK, Starting, Changing, Ops, NoOp, NoPeers, NoSov
  <1>2. LocalOK'
    BY DEF TypeOK, Alone, LocalOK, Starting, Changing
  <1>3. SovOK'
    BY DEF TypeOK, Alone, LocalOK, SovOK, Holding, Starting, Changing
  <1>4. PeersOK'
    BY DEF TypeOK, PeersOK, Listed, Unseen, Starting, Changing, Ops, NoPeers
  <1> QED BY <1>1, <1>2, <1>3, <1>4

(* The invariant is kept by ListRemotes.                                   *)
LEMMA ListRemotesKeeps ==
    ASSUME IInv, NEW p \in Procs, ListRemotes(p)
    PROVE  IInv'
  <1> USE NothingAssumption DEF IInv, ListRemotes, local, changing, Goto
  <1>1. TypeOK'
    BY DEF TypeOK, Starting, Changing, Ops, NoOp, NoPeers, NoSov
  <1>2. LocalOK'
    BY DEF TypeOK, Alone, LocalOK, Starting, Changing
  <1>3. SovOK'
    BY DEF TypeOK, Alone, LocalOK, SovOK, Holding, Starting, Changing
  <1>4. PeersOK'
    BY DEF TypeOK, PeersOK, Listed, Unseen, Starting, Changing, Ops, NoPeers
  <1> QED BY <1>1, <1>2, <1>3, <1>4

(* No other process is there to remove the name.                           *)
LEMMA LoadPeerKeeps ==
    ASSUME IInv, NEW p \in Procs, NEW n \in Names, LoadPeer(p, n)
    PROVE  IInv'
  <1>1. CASE table[n] = NoAddr
    BY <1>1, DownKeeps, NothingAssumption DEF LoadPeer
  <1>2. CASE table[n] # NoAddr
    <2>0. /\ pc[p] = "loadPeers" /\ n \in toLoad[p]
          /\ peers' = [peers EXCEPT ![p][n] = table[n]]
          /\ toLoad' = [toLoad EXCEPT ![p] = @ \ {n}]
          /\ UNCHANGED <<local, table, pc, back, fresh, sov, changing, raced>>
      BY <1>2 DEF LoadPeer
    <2> USE <1>2, <2>0, NothingAssumption DEF IInv, local, changing, Goto
    <2>1. TypeOK'
      BY DEF TypeOK, Starting, Changing, Ops, NoOp, NoPeers, NoSov
    <2>2. LocalOK'
      BY DEF TypeOK, Alone, LocalOK, Starting, Changing
    <2>3. SovOK'
      BY DEF TypeOK, Alone, LocalOK, SovOK, Holding, Starting, Changing
    <2>4. PeersOK'
      BY DEF TypeOK, PeersOK, Listed, Unseen, Starting, Changing, Ops, NoPeers
    <2> QED BY <2>1, <2>2, <2>3, <2>4
  <1> QED BY <1>1, <1>2

(* The invariant is kept by EndLoad.                                       *)
LEMMA EndLoadKeeps ==
    ASSUME IInv, NEW p \in Procs, EndLoad(p)
    PROVE  IInv'
  <1> USE NothingAssumption DEF IInv, EndLoad, local, changing, Goto
  <1>1. TypeOK'
    BY DEF TypeOK, Starting, Changing, Ops, NoOp, NoPeers, NoSov
  <1>2. LocalOK'
    BY DEF TypeOK, Alone, LocalOK, Starting, Changing
  <1>3. SovOK'
    BY DEF TypeOK, Alone, LocalOK, SovOK, Holding, Starting, Changing
  <1>4. PeersOK'
    BY DEF TypeOK, PeersOK, Listed, Unseen, Starting, Changing, Ops, NoPeers
  <1> QED BY <1>1, <1>2, <1>3, <1>4

(* The invariant is kept by AskAdd.                                        *)
LEMMA AskAddKeeps ==
    ASSUME IInv, NEW p \in Procs, NEW n \in Names, NEW a \in Addrs, AskAdd(p, n, a)
    PROVE  IInv'
  <1> USE NothingAssumption DEF IInv, AskAdd, local, loading, Goto
  <1>1. TypeOK'
    BY DEF TypeOK, Starting, Changing, Ops, NoOp, NoPeers, NoSov
  <1>2. LocalOK'
    BY DEF TypeOK, Alone, LocalOK, Starting, Changing
  <1>3. SovOK'
    BY DEF TypeOK, Alone, LocalOK, SovOK, Holding, Starting, Changing
  <1>4. PeersOK'
    BY DEF TypeOK, PeersOK, Listed, Unseen, Starting, Changing, Ops, NoPeers
  <1> QED BY <1>1, <1>2, <1>3, <1>4

(* The invariant is kept by StorePeer.                                     *)
LEMMA StorePeerKeeps ==
    ASSUME IInv, NEW p \in Procs, StorePeer(p)
    PROVE  IInv'
  <1> USE NothingAssumption DEF IInv, StorePeer, local, loading, changing, Goto
  <1>1. TypeOK'
    BY DEF TypeOK, Starting, Changing, Ops, NoOp, NoPeers, NoSov, PeersOK, Unseen
  <1>2. LocalOK'
    BY DEF TypeOK, Alone, LocalOK, Starting, Changing
  <1>3. SovOK'
    BY DEF TypeOK, Alone, LocalOK, SovOK, Holding, Starting, Changing
  <1>4. PeersOK'
    BY DEF TypeOK, PeersOK, Listed, Unseen, Starting, Changing, Ops, NoPeers
  <1> QED BY <1>1, <1>2, <1>3, <1>4

(* The invariant is kept by ReadPeer.                                      *)
LEMMA ReadPeerKeeps ==
    ASSUME IInv, NEW p \in Procs, ReadPeer(p)
    PROVE  IInv'
  <1> USE NothingAssumption DEF IInv, ReadPeer, Answer, local, loading, Goto
  <1>1. TypeOK'
    BY DEF TypeOK, Starting, Changing, Ops, NoOp, NoPeers, NoSov, PeersOK, Unseen
  <1>2. LocalOK'
    BY DEF TypeOK, Alone, LocalOK, Starting, Changing
  <1>3. SovOK'
    BY DEF TypeOK, Alone, LocalOK, SovOK, Holding, Starting, Changing
  <1>4. PeersOK'
    BY DEF TypeOK, PeersOK, Listed, Unseen, Starting, Changing, Ops, NoPeers
  <1> QED BY <1>1, <1>2, <1>3, <1>4

(* The invariant is kept by AskRemove.                                     *)
LEMMA AskRemoveKeeps ==
    ASSUME IInv, NEW p \in Procs, NEW n \in Names, AskRemove(p, n)
    PROVE  IInv'
  <1> USE NothingAssumption DEF IInv, AskRemove, local, loading, Goto
  <1>1. TypeOK'
    BY DEF TypeOK, Starting, Changing, Ops, NoOp, NoPeers, NoSov
  <1>2. LocalOK'
    BY DEF TypeOK, Alone, LocalOK, Starting, Changing
  <1>3. SovOK'
    BY DEF TypeOK, Alone, LocalOK, SovOK, Holding, Starting, Changing
  <1>4. PeersOK'
    BY DEF TypeOK, PeersOK, Listed, Unseen, Starting, Changing, Ops, NoPeers
  <1> QED BY <1>1, <1>2, <1>3, <1>4

(* The invariant is kept by DeletePeer.                                    *)
LEMMA DeletePeerKeeps ==
    ASSUME IInv, NEW p \in Procs, DeletePeer(p)
    PROVE  IInv'
  <1> USE NothingAssumption DEF IInv, DeletePeer, Answer, local, loading, Goto
  <1>1. TypeOK'
    <2>1. op[p].name \in Names
      BY DEF PeersOK, Changing, Ops
    <2>2. Unseen(p) \in [Procs -> SUBSET Names]
      BY <2>1 DEF TypeOK, Unseen
    <2>3. doubtful' \in [Procs -> SUBSET Names]
      BY <2>2
    <2> QED BY <2>1, <2>3 DEF TypeOK, Starting, Changing, Ops, NoOp
  <1>2. LocalOK'
    BY DEF TypeOK, Alone, LocalOK, Starting, Changing
  <1>3. SovOK'
    BY DEF TypeOK, Alone, LocalOK, SovOK, Holding, Starting, Changing
  <1>4. PeersOK'
    BY DEF TypeOK, PeersOK, Listed, Unseen, Starting, Changing, Ops, NoPeers
  <1> QED BY <1>1, <1>2, <1>3, <1>4

(* The invariant is kept by ChangeFails.                                   *)
LEMMA ChangeFailsKeeps ==
    ASSUME IInv, NEW p \in Procs, ChangeFails(p)
    PROVE  IInv'
  <1> USE NothingAssumption DEF IInv, ChangeFails, Answer, local, loading, Goto
  <1>1. TypeOK'
    BY DEF TypeOK, Starting, Changing, Ops, NoOp, NoPeers, NoSov, PeersOK, Unseen
  <1>2. LocalOK'
    BY DEF TypeOK, Alone, LocalOK, Starting, Changing
  <1>3. SovOK'
    BY DEF TypeOK, Alone, LocalOK, SovOK, Holding, Starting, Changing
  <1>4. PeersOK'
    BY DEF TypeOK, PeersOK, Listed, Unseen, Starting, Changing, Ops, NoPeers
  <1> QED BY <1>1, <1>2, <1>3, <1>4

-----------------------------------------------------------------------------

(* The invariant holds of an empty directory.                              *)
LEMMA InitEstablishes == Init => IInv
  <1> SUFFICES ASSUME Init PROVE IInv
    OBVIOUS
  <1> USE NothingAssumption DEF Init
  <1>1. TypeOK
    BY DEF TypeOK, NoOp, NoPeers, NoSov
  <1>2. LocalOK /\ SovOK /\ PeersOK
    BY DEF Alone, Listed, LocalOK, SovOK, PeersOK, Holding, Starting, Changing, NoPeers
  <1> QED BY <1>1, <1>2 DEF IInv

(* The invariant is kept by every step.                                    *)
LEMMA StepKeeps == IInv /\ [Next]_vars => IInv'
  <1> SUFFICES ASSUME IInv, [Next]_vars PROVE IInv'
    OBVIOUS
  <1>1. CASE UNCHANGED vars
    BY <1>1 DEF vars, local, loading, changing, IInv, TypeOK, LocalOK, Alone,
                SovOK, PeersOK, Holding
  <1>2. ASSUME NEW p \in Procs, StartStep(p)
        PROVE  IInv'
    BY <1>2, StartKeeps, LoadKeyKeeps, LoadPairKeeps, OpenRecordKeeps, DownKeeps,
       CreateRecordKeeps, StoreKeyKeeps, StorePairKeeps, ListRemotesKeeps,
       LoadPeerKeeps, EndLoadKeeps
       DEF StartStep, OpenFails
  <1>3. ASSUME NEW p \in Procs, ChangeStep(p)
        PROVE  IInv'
    BY <1>3, AskAddKeeps, StorePeerKeeps, ReadPeerKeeps, AskRemoveKeeps,
       DeletePeerKeeps, ChangeFailsKeeps DEF ChangeStep
  <1>4. ASSUME NEW p \in Procs, Crash(p)
        PROVE  IInv'
    BY <1>4, DownKeeps DEF Crash
  <1> QED BY <1>1, <1>2, <1>3, <1>4 DEF Next

(* The invariant always holds.                                             *)
LEMMA Invariance == Spec => []IInv
  <1>1. Init => IInv
    BY InitEstablishes
  <1>2. IInv /\ [Next]_vars => IInv'
    BY StepKeeps
  <1> QED BY <1>1, <1>2, PTL DEF Spec

(* Every variable keeps its type, in any number of processes.              *)
THEOREM TypeCorrect == Spec => []TypeOK
  <1>1. IInv => TypeOK
    BY DEF IInv
  <1> QED BY <1>1, Invariance, PTL

(* A process never works with the key of one record and the key pair of    *)
(* another: Sovereign::init may be cut short anywhere, and load takes half *)
(* an identity for none.  Any number of processes may use the identity     *)
(* together; it is only while there is none that they must take turns.     *)
THEOREM WholeIdentity == Spec => []IdentityIsWhole
  <1>1. IInv => IdentityIsWhole
    BY DEF IInv, LocalOK, SovOK, Holding, IdentityIsWhole
  <1> QED BY <1>1, Invariance, PTL

(* Unless its last change failed or another process has changed it since,  *)
(* a remote is in memory as it is in the table, and the same after a       *)
(* restart (Peer::new, Conclave::remove_peer).                             *)
THEOREM MemoryIsTable == Spec => []MemoryFollowsTable
  <1>1. IInv => MemoryFollowsTable
    BY DEF IInv, PeersOK, MemoryFollowsTable
  <1> QED BY <1>1, Invariance, PTL

-----------------------------------------------------------------------------
(* The refinement: each step of a process is a step of Registry, or none.  *)

Works == [p \in Procs |-> Work(p)]
Whole == IF storedPair = NoKey THEN NoKey ELSE storedKey

(* The work of p follows p's own steps: it begins or moves on ...          *)
LEMMA WorkMoves ==
    ASSUME TypeOK, NEW p \in Procs, NEW s \in Changing, NEW o,
           Goto(p, s), op' = [op EXCEPT ![p] = o]
    PROVE  Works' = [Works EXCEPT ![p] =
               [phase |-> IF s = "readPeer" THEN "made" ELSE "asked",
                name  |-> o.name, addr |-> o.addr]]
  <1>1. Work(p)' = [phase |-> IF s = "readPeer" THEN "made" ELSE "asked",
                    name  |-> o.name, addr |-> o.addr]
    BY DEF TypeOK, Work, Goto
  <1>2. \A q \in Procs \ {p} : Work(q)' = Work(q)
    BY DEF TypeOK, Work, Goto
  <1> QED BY <1>1, <1>2 DEF Works

(* ... or ends.                                                            *)
LEMMA WorkEnds ==
    ASSUME TypeOK, NEW p \in Procs, NEW s, s \notin Changing,
           Goto(p, s), op' = [op EXCEPT ![p] = NoOp]
    PROVE  Works' = [Works EXCEPT ![p] = [phase |-> "rest"]]
  <1>1. Work(p)' = [phase |-> "rest"]
    BY DEF TypeOK, Work, Goto
  <1>2. \A q \in Procs \ {p} : Work(q)' = Work(q)
    BY DEF TypeOK, Work, Goto
  <1> QED BY <1>1, <1>2 DEF Works

(* A step that begins and ends outside a change leaves the work as it is.  *)
LEMMA WorkStays ==
    ASSUME TypeOK, NEW p \in Procs, NEW s, s \notin Changing,
           pc[p] \notin Changing, Goto(p, s), UNCHANGED op
    PROVE  Works' = Works
  <1>1. \A q \in Procs : Work(q)' = Work(q)
    BY DEF TypeOK, Work, Goto
  <1> QED BY <1>1 DEF Works

(* A process that goes down loses its change.                              *)
LEMMA DownRefines ==
    ASSUME TypeOK, NEW p \in Procs, Down(p)
    PROVE  Directory!Die(p)
  <1>1. Works' = [Works EXCEPT ![p] = [phase |-> "rest"]]
    BY WorkEnds DEF Down, Changing
  <1> QED BY <1>1 DEF Down, local, Directory!Die, Directory!Resting, Works

(* A step that leaves the tables, the callers and the work alone does not  *)
(* show.                                                                   *)
LEMMA QuietRefines ==
    ASSUME TypeOK, NEW p \in Procs, pc[p] \notin Changing,
           UNCHANGED pc \/ \E s \in {"up"} \cup Starting : Goto(p, s), UNCHANGED op
    PROVE  Works' = Works
  <1>1. CASE UNCHANGED pc
    BY <1>1 DEF Works, Work
  <1>2. ASSUME NEW s \in {"up"} \cup Starting, Goto(p, s)
        PROVE  Works' = Works
    BY <1>2, WorkStays DEF Starting, Changing
  <1> QED BY <1>1, <1>2

(* Starting looks like nothing, until the second store of init adopts the  *)
(* identity, or, where two processes ran before there was one, either      *)
(* store replaces it.                                                      *)
LEMMA StartRefines ==
    ASSUME IInv, NEW p \in Procs, StartStep(p)
    PROVE  [Directory!Next]_(Directory!vars)
  <1> USE DEF IInv
  <1>1. CASE Down(p)
    BY <1>1, DownRefines DEF Directory!Next
  <1>2. CASE StorePair(p)
    <2>1. storedKey \in Keys /\ (Whole = NoKey \/ raced) /\ Whole' = storedKey
      BY <1>2, NothingAssumption DEF StorePair, TypeOK, LocalOK, Whole
    <2>2. Works' = Works
      BY <1>2, WorkStays DEF StorePair, changing, Changing
    <2>3. Directory!Adopt(storedKey)
      BY <1>2, <2>1, <2>2
         DEF StorePair, changing, Directory!Adopt, Whole, Works
    <2> QED BY <2>1, <2>3 DEF Directory!Next
  <1>3. CASE StoreKey(p)
    <2>1. fresh[p] \in Keys /\ (storedPair = NoKey \/ raced)
      BY <1>3 DEF StoreKey, TypeOK, LocalOK
    <2>2. Works' = Works
      BY <1>3, WorkStays DEF StoreKey, changing, Changing
    <2>3. CASE storedPair = NoKey
      BY <1>3, <2>2, <2>3 DEF StoreKey, changing, Directory!vars, Works
    <2>4. CASE storedPair # NoKey
      <3>1. Directory!Adopt(fresh[p])
        BY <1>3, <2>1, <2>2, <2>4
           DEF StoreKey, changing, Directory!Adopt, Whole, Works
      <3> QED BY <2>1, <3>1 DEF Directory!Next
    <2> QED BY <2>3, <2>4
  <1>4. CASE Start(p)
    <2>1. Works' = Works
      BY <1>4, WorkStays DEF Start, changing, Changing
    <2>2. CASE raced' = raced
      BY <1>4, <2>1, <2>2 DEF Start, local, changing, Directory!vars, Works
    <2>3. CASE raced' # raced
      <3>1. storedPair = NoKey /\ raced' = TRUE
        BY <1>4, <2>3 DEF Start, TypeOK
      <3>2. Directory!Contest
        BY <1>4, <2>1, <3>1 DEF Start, local, changing, Directory!Contest, Works
      <3> QED BY <3>2 DEF Directory!Next
    <2> QED BY <2>2, <2>3
  <1>5. CASE ~Down(p) /\ ~StorePair(p) /\ ~StoreKey(p) /\ ~Start(p)
    <2>1. UNCHANGED <<table, told, op, storedKey, storedPair, raced>>
      BY <1>5 DEF StartStep, LoadKey, LoadPair, NoIdentity, OpenRecord, OpenFails,
                  CreateRecord, ListRemotes, LoadPeer, EndLoad, local, changing
    <2>2. UNCHANGED pc \/ \E s \in {"up"} \cup Starting : Goto(p, s)
      BY <1>5 DEF StartStep, LoadKey, LoadPair, NoIdentity, OpenRecord, OpenFails,
                  CreateRecord, ListRemotes, LoadPeer, EndLoad, Starting
    <2>3. pc[p] \notin Changing
      BY <1>5 DEF StartStep, LoadKey, LoadPair, OpenRecord, OpenFails, CreateRecord,
                  ListRemotes, LoadPeer, EndLoad, Changing
    <2>4. Works' = Works
      BY <2>1, <2>2, <2>3, QuietRefines
    <2> QED BY <2>1, <2>4 DEF Directory!vars, Works
  <1> QED BY <1>1, <1>2, <1>3, <1>4, <1>5

(* A change is asked for, made and confirmed, or refused.                  *)
LEMMA ChangeRefines ==
    ASSUME IInv, NEW p \in Procs, ChangeStep(p)
    PROVE  [Directory!Next]_(Directory!vars)
  <1> USE DEF IInv, local, Works
  <1>1. ASSUME NEW n \in Names, NEW a \in Addrs, AskAdd(p, n, a)
        PROVE  Directory!Ask(p, n, a)
    <2>1. Works' = [Works EXCEPT ![p] = [phase |-> "asked", name |-> n, addr |-> a]]
      BY <1>1, WorkMoves DEF AskAdd, Changing
    <2> QED BY <1>1, <2>1 DEF AskAdd, Work, Changing, Directory!Ask
  <1>2. ASSUME NEW n \in Names, AskRemove(p, n)
        PROVE  Directory!Ask(p, n, NoAddr)
    <2>1. Works' = [Works EXCEPT ![p] =
                       [phase |-> "asked", name |-> n, addr |-> NoAddr]]
      BY <1>2, WorkMoves DEF AskRemove, Changing
    <2> QED BY <1>2, <2>1 DEF AskRemove, Work, Changing, Directory!Ask
  <1>3. CASE StorePeer(p)
    <2>1. op' = [op EXCEPT ![p] = op[p]]
      BY <1>3 DEF StorePeer, changing, TypeOK
    <2>2. Works' = [Works EXCEPT ![p] =
                       [phase |-> "made", name |-> op[p].name, addr |-> op[p].addr]]
      BY <1>3, <2>1, WorkMoves DEF StorePeer, Changing
    <2>3. Works[p] = [phase |-> "asked", name |-> op[p].name, addr |-> op[p].addr]
      BY <1>3 DEF StorePeer, Work, Changing
    <2>4. op[p].name = Works[p].name /\ op[p].addr = Works[p].addr
      BY <2>3
    <2>5. Directory!Make(p)
      <3>1. table' = [table EXCEPT ![Works[p].name] = Works[p].addr]
        BY <1>3, <2>4, Zenon DEF StorePeer
      <3>2. Works' = [Works EXCEPT ![p] =
                [phase |-> "made", name |-> Works[p].name, addr |-> Works[p].addr]]
        BY <2>2, <2>4, Zenon
      <3>3. Works[p].phase = "asked"
        BY <2>3
      <3> QED BY <1>3, <3>1, <3>2, <3>3
              DEF StorePeer, changing, Directory!Make, Directory!Made
    <2> QED BY <2>5 DEF Directory!Next
  <1>4. CASE ReadPeer(p)
    <2>1. Works' = [Works EXCEPT ![p] = [phase |-> "rest"]]
      BY <1>4, WorkEnds DEF ReadPeer, Answer, Changing
    <2>2. Works[p].phase = "made"
      BY <1>4 DEF ReadPeer, Work, Changing
    <2>3. Directory!Confirm(p)
      BY <1>4, <2>1, <2>2
         DEF ReadPeer, Answer, Directory!Confirm, Directory!Resting
    <2> QED BY <2>3 DEF Directory!Next
  <1>5. CASE DeletePeer(p)
    <2>1. Works' = [Works EXCEPT ![p] = [phase |-> "rest"]]
      BY <1>5, WorkEnds DEF DeletePeer, Answer, Changing
    <2>2. Works[p] = [phase |-> "asked", name |-> op[p].name, addr |-> NoAddr]
      BY <1>5 DEF DeletePeer, Work, Changing, PeersOK
    <2>3. Directory!Made(p)
      <3>1. op[p].name = Works[p].name /\ NoAddr = Works[p].addr
        BY <2>2
      <3>2. table' = [table EXCEPT ![op[p].name] = NoAddr]
        BY <1>5 DEF DeletePeer
      <3> QED BY ONLY <3>1, <3>2, Zenon DEF Directory!Made, Works
    <2>4. Directory!Confirm(p)
      BY <1>5, <2>1, <2>2, <2>3
         DEF DeletePeer, Answer, Directory!Confirm, Directory!Resting
    <2> QED BY <2>4 DEF Directory!Next
  <1>6. CASE ChangeFails(p)
    <2>1. Works' = [Works EXCEPT ![p] = [phase |-> "rest"]]
      BY <1>6, WorkEnds DEF ChangeFails, Answer, Changing
    <2>2. Works[p].phase # "rest"
      BY <1>6 DEF ChangeFails, Work, Changing
    <2>3. Directory!Refuse(p)
      BY <1>6, <2>1, <2>2
         DEF ChangeFails, Answer, Directory!Refuse, Directory!Resting
    <2> QED BY <2>3 DEF Directory!Next
  <1> QED BY <1>1, <1>2, <1>3, <1>4, <1>5, <1>6 DEF ChangeStep, Directory!Next

(* What a caller sees of the directory is Registry's, whatever crashes     *)
(* there are and however many processes use it together: every change of   *)
(* the remotes is atomic, and the identity is adopted once, unless two     *)
(* processes ran before there was one.                                     *)
THEOREM Refinement == Spec => ImplementsRegistry
  <1>1. Init => Directory!Init
    BY DEF Init, NoPeers, Changing, Work, Directory!Init, Directory!Resting
  <1>2. IInv /\ [Next]_vars => [Directory!Next]_(Directory!vars)
    <2> SUFFICES ASSUME IInv, [Next]_vars PROVE [Directory!Next]_(Directory!vars)
      OBVIOUS
    <2>1. CASE UNCHANGED vars
      BY <2>1 DEF vars, local, changing, Directory!vars, Work
    <2>2. ASSUME NEW p \in Procs, Crash(p)
          PROVE  [Directory!Next]_(Directory!vars)
      BY <2>2, DownRefines DEF Crash, IInv, Directory!Next
    <2> QED BY <2>1, <2>2, StartRefines, ChangeRefines DEF Next
  <1> QED BY <1>1, <1>2, Invariance, PTL DEF Spec, ImplementsRegistry, Directory!Spec
=============================================================================
