-------------------------------- MODULE Exchange --------------------------------
(***************************************************************************)
(* One pull on the wire: the announcement a node reads from the record of  *)
(* another, the request it seals for it, the answer it gets back.  Either  *)
(* side may run a later version of ddcp whose unions have more members,    *)
(* the asking node may be unknown to the other or have announced itself    *)
(* too late for the other to have its key, messages get lost, and the      *)
(* database of the other may be another one by the time it answers.  The   *)
(* size of a message is not modelled: one that is too large for app_call   *)
(* looks like one that is lost.                                            *)
(*                                                                         *)
(* A node is a number: its DHT key is one text, the public key it seals    *)
(* with another.                                                           *)
(***************************************************************************)
EXTENDS Codec

CONSTANTS
    Callers,        \* the nodes that may pull
    Server,         \* the node they pull from
    Sites,          \* site ids
    Versions,       \* database versions
    ChangeLists     \* what DB::changes may return, in any version of ddcp

ASSUME ChangesAssumption == ChangeLists \subseteq Seq(Changes)

VARIABLES
    pc,         \* the next step
    caller,     \* the node that pulls
    remotes,    \* the callers the server has as remotes
    known,      \* those whose key it has: they had announced themselves
    record,     \* the server's DHT value, and what it was made from
    status,     \* node_status as the caller has decoded it
    wire,       \* the message under way
    asked,      \* history: the request as the caller made it
    handled,    \* history: the request as the server decoded it
    answered,   \* history: the response as the server made it
    outcome     \* what the pull has come to

vars == <<pc, caller, remotes, known, record, status, wire, asked, handled, answered,
          outcome>>

None == [is |-> "none"]

DhtKey(n) == <<n>>
AuthKey(n) == <<n, n>>

Announcements ==
    [site_id : Sites, db_version : Versions, key : {AuthKey(Server)}, route : {<<Server>>}]

Requests == {[is |-> "status"], [is |-> "later"]}
                \cup [is : {"changes"}, since_db_version : Versions]

Init ==
    /\ pc = "announce"
    /\ caller \in Callers
    /\ remotes \in SUBSET Callers
    /\ known \in SUBSET remotes
    /\ record = None
    /\ status = None
    /\ wire = None
    /\ asked = None
    /\ handled = None
    /\ answered = None
    /\ outcome = None

-----------------------------------------------------------------------------
(* Crypto: both ends derive the key from one's secret and the other's      *)
(* public key; a message is its nonce and the ciphertext.                  *)

(* Mutant of SharedKey: the recipient's key alone.                         *)
SharedKeyOfPeer(crypto) == {crypto.recipient}

SharedKey(crypto) == {crypto.sender, crypto.recipient}

Seal(crypto, nonce, item) ==
    [nonce |-> nonce,
     cipher |-> [key |-> SharedKey(crypto), nonce |-> nonce, plain |-> item]]

(* Slicing off the nonce of a shorter message panics.                      *)
Open(crypto, message) ==
    IF "nonce" \notin DOMAIN message THEN [ok |-> FALSE, panic |-> TRUE]
    ELSE IF /\ message.cipher.key = SharedKey(crypto)
            /\ message.cipher.nonce = message.nonce
         THEN Ok(message.cipher.plain)
         ELSE Error

Sealed(from, crypto, nonce, item) ==
    EncodeEnvelope([sender |-> DhtKey(from), contents |-> Seal(crypto, nonce, item)])

(* An envelope of a later version that keeps its contents elsewhere: this  *)
(* version reads a blob that was never written, which is empty.            *)
Bare(from) == EncodeEnvelope([sender |-> DhtKey(from), contents |-> <<>>])

-----------------------------------------------------------------------------

Announce ==
    /\ pc = "announce" /\ pc' = "refresh"
    /\ \E item \in Announcements :
          record' = [made |-> item, value |-> EncodeNodeStatus(item)]
    /\ UNCHANGED <<caller, remotes, known, status, wire, asked, handled, answered, outcome>>

(* Peer::refresh_dht.                                                      *)
Refresh ==
    /\ pc = "refresh"
    /\ LET result == DecodeNodeStatus(record.value)
       IN  IF result.ok
           THEN status' = result.val /\ pc' = "ask" /\ UNCHANGED outcome
           ELSE outcome' = [is |-> "error"] /\ pc' = "done" /\ UNCHANGED status
    /\ UNCHANGED <<caller, remotes, known, record, wire, asked, handled, answered>>

(* Conclave::crypto, with the key the peer announces.                      *)
CallerCrypto == [sender |-> AuthKey(caller), recipient |-> status.key]

ServerCrypto(n) == [sender |-> AuthKey(Server), recipient |-> AuthKey(n)]

(* Conclave::changes up to app_call.  This version asks for changes only.  *)
Ask ==
    /\ pc = "ask" /\ pc' = "handle"
    /\ \E r \in Requests :
          /\ asked' = r
          /\ \/ wire' = Sealed(caller, CallerCrypto, "request", EncodeRequest(r))
             \/ r.is = "later" /\ wire' = Bare(caller)
    /\ UNCHANGED <<caller, remotes, known, record, status, handled, answered, outcome>>

(* The response the server makes of its database, or one of a later        *)
(* version.                                                                *)
Answers(r) ==
    {[is |-> "later"]} \cup
    IF r.is = "status"
    THEN [is : {"status"}, site_id : Sites, db_version : Versions]
    ELSE [is : {"changes"}, site_id : Sites, changes : ChangeLists]

(* What the server makes of the message under way, if it comes from n: an  *)
(* error without n's key ("peer key not found").                           *)
RequestFrom(n) ==
    LET e == DecodeEnvelope(wire)
        plain == Open(ServerCrypto(n), e.val.contents)
    IN  IF e.ok /\ e.val.sender = DhtKey(n) /\ n \in known /\ plain.ok
        THEN DecodeRequest(plain.val)
        ELSE Error

(* handle_update for a sender among the remotes, and its responder.        *)
Handle ==
    /\ pc = "handle" /\ pc' = "receive"
    /\ \E n \in remotes :
          /\ RequestFrom(n).ok
          /\ handled' = RequestFrom(n).val
          /\ \E a \in Answers(handled') :
                /\ answered' = a
                /\ \/ wire' = Sealed(Server, ServerCrypto(n), "answer", EncodeResponse(a))
                   \/ a.is = "later" /\ wire' = Bare(Server)
    /\ UNCHANGED <<caller, remotes, known, record, status, asked, outcome>>

(* No answer comes: an unknown sender or one without a key, an error in    *)
(* the responder, a panic of its task, or a message is lost or too large.  *)
(* app_call times out.                                                     *)
TimeOut ==
    /\ pc \in {"handle", "receive"} /\ pc' = "done"
    /\ outcome' = [is |-> "timeout"]
    /\ UNCHANGED <<caller, remotes, known, record, status, wire, asked, handled, answered>>

(* Mutant of SameSite: the site id is not compared.                        *)
AnySite(resp) == resp.is = "changes"

(* The checks of pull_from and Conclave::changes on a response.            *)
SameSite(resp) == resp.is = "changes" /\ resp.site_id = status.site_id

(* Conclave::changes after app_call, and pull_from.  A panic ends the task *)
(* that pulls.                                                             *)
Receive ==
    /\ pc = "receive" /\ pc' = "done"
    /\ LET e == DecodeEnvelope(wire)
           plain == Open(CallerCrypto, e.val.contents)
           resp == DecodeResponse(plain.val)
       IN  outcome' =
             IF ~e.ok THEN [is |-> "error"]
             ELSE IF ~plain.ok
             THEN [is |-> IF "panic" \in DOMAIN plain THEN "panic" ELSE "error"]
             ELSE IF resp.ok /\ SameSite(resp.val)
             THEN [is |-> "merged", resp |-> resp.val]
             ELSE [is |-> "error"]
    /\ UNCHANGED <<caller, remotes, known, record, status, wire, asked, handled, answered>>

Next == Announce \/ Refresh \/ Ask \/ Handle \/ TimeOut \/ Receive

Spec == Init /\ [][Next]_vars

-----------------------------------------------------------------------------
(* Properties.                                                             *)

TypeOK ==
    /\ pc \in {"announce", "refresh", "ask", "handle", "receive", "done"}
    /\ caller \in Callers
    /\ remotes \in SUBSET Callers
    /\ known \in SUBSET remotes
    /\ asked \in Requests \cup {None}
    /\ handled \in Requests \cup {None}
    /\ outcome.is \in {"none", "error", "timeout", "panic", "merged"}

(* A request is handled as what its sender meant or not at all: one that   *)
(* this version does not know is an error, not the nearest one it knows,   *)
(* and only the requests of remotes whose key the server has are handled.  *)
HandledAsAsked ==
    handled # None => handled = asked /\ asked.is # "later" /\ caller \in known

(* What is merged is what the server's database returned, change for       *)
(* change and field for field, for the database that was announced; a      *)
(* response or a value of a kind this version does not know is never       *)
(* merged as another one.                                                  *)
MergedAsAnswered ==
    outcome.is = "merged" =>
        /\ outcome.resp = answered
        /\ answered.site_id = record.made.site_id
        /\ \A i \in DOMAIN answered.changes : answered.changes[i].val.is # "later"

(* What a node of this version says is read as it was made by another that *)
(* has its key: the announcement, the request, and the answer, if it comes *)
(* from the database that was announced.  Whatever is refused on arrival   *)
(* is of a later version or of another database, and only a message of a   *)
(* later version makes a task panic.                                       *)
Understood ==
    /\ pc \notin {"announce", "refresh"} => status = record.made
    /\ pc = "handle" /\ caller \in known /\ asked.is # "later" =>
          RequestFrom(caller) = Ok(asked)
    /\ outcome.is = "panic" => answered.is = "later"
    /\ outcome.is = "error" =>
          \/ answered.is # "changes"
          \/ answered.site_id # status.site_id
          \/ \E i \in DOMAIN answered.changes : answered.changes[i].val.is = "later"

(* What a pull promises: nothing between the two nodes changes what they   *)
(* say.  An answer is merged if this version knows all of it and it comes  *)
(* from the database that was announced.                                   *)
Responses == UNION {Answers(r) : r \in Requests}

Native(resp) ==
    resp.is # "later" /\
    (resp.is = "changes" => \A i \in DOMAIN resp.changes : resp.changes[i].val.is # "later")

Promise == INSTANCE Call WITH
    Known <- {r \in Requests : r.is # "later"},
    Replies <- UNION {{r} \X Answers(r) : r \in Requests},
    Acceptable <- {p \in Announcements \X Responses :
                      Native(p[2]) /\ p[2].is = "changes" /\ p[2].site_id = p[1].site_id},
    known <- caller \in known,
    announced <- IF pc = "announce" THEN None ELSE record.made,
    read <- status,
    outcome <- IF outcome.is = "panic" THEN [is |-> "error"] ELSE outcome

(* Envelopes, encodings and keys do not show: a pull looks from outside    *)
(* like a call whose request and answer arrive as they were sent or not at *)
(* all, and a panic like an answer that is refused (handle_update,         *)
(* Conclave::changes, codec.rs, crypto.rs).                                *)
ImplementsCall == Promise!Spec
=============================================================================
