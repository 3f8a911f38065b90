# A TLA+ model of ddcp

ddcp replicates a cr-sqlite database between nodes that find each other over
Veilid. A node announces the version of its database in a DHT record; its peers
read the record, ask the node for what they have not yet tracked, and merge the
answer into their own database. This directory holds a model of that protocol,
the TLC runs that check it on small instances, and TLAPS proofs for all
instances.

Paths are those of the repository, with the crate's code under `src/src/`.

## Inventory

### Database: `src/src/db.rs` (`DB`)

*State.* The SQLite file: `crsql_changes` (one row per table, primary key and
column, with its `db_version` and the `site_id` of the last writer, null for the
database itself) and `crsql_tracked_peers` (site id -> version).
*Operations.* `status` (site id, highest local version), `tracked_peer_version`,
`changes` (a call of `status`, then a query), `merge` (one transaction),
`close`.
*Interaction.* Shared by every task of a process through a connection that runs
one closure at a time, by the application (which writes through SQLite itself)
and by other ddcp processes on the same file.
*Hard.* `changes` is two calls and the database may change in between; the
version `status` returns can go down; answers are merged in any order.
*Correct if.* A change at or below a tracked version is never missing; a
tracked version is committed at its origin and never goes down; rows and tracked
version are committed together.

### Replication: `src/src/lib.rs` (`push`, `pull`, `pull_from`), `src/src/ident.rs` (`Conclave::changes`)

*State.* The announcement in the DHT; on each side of a call, local variables
that live across awaits: the announcement that was read, the tracked version
that was sent, the answer.
*Interaction.* `push` reads the status and writes the DHT record. `pull` reads
a peer's record, compares versions, sends an `app_call` with the tracked
version; the peer's server answers from its database; `merge`.
*Hard.* Everything read before an await is used after it; calls and answers are
lost, late or repeated; either side restarts, possibly on a new database.
*Correct if.* Nothing is missed (above), nodes in sync hold the same data, and
once writes stop all nodes converge.

### Serve loops: `src/src/lib.rs` (`serve`, `spawn_puller`, `spawn_server`, `handle_update`, `wait_for_network`)

*State.* Two clones of `DDCP` with their own copies of the identity, the route
and the peers; the update queue; the server's snapshot `peer_by_key`.
*Operations.* Each minute the puller refreshes all remotes, then pulls from
each; each minute the server pushes (announces and refreshes all remotes); it
handles calls and route changes in between; ctrl-c cancels both.
*Hard.* A round ends at the first remote that cannot be refreshed; the snapshot
goes stale; a push blocks the loop; clones do not see each other's changes.
*Correct if.* One failing remote does not keep the others from being pulled; a
remote that was added is eventually answered; a dead route is replaced.

### Identity and remotes: `src/src/ident.rs` (`Sovereign`, `Peer`, `Conclave`)

*State.* Two tables of Veilid's table store (own DHT key and key pair; name ->
DHT key of each remote) and their copies in memory.
*Operations.* `Sovereign::init`, `load`; `Peer::new`, `load_all`, `remove`;
`Conclave::new`, `set_peer`, `remove_peer`; `DDCP::remote_add`,
`remote_remove`.
*Interaction.* The two columns of the identity are two stores; a remote is in
the table and in the map, changed in one order by `set_peer` and in the other by
`remove_peer`.
*Hard.* A crash between two stores; a failure between memory and table; two
processes on one state directory.
*Correct if.* An identity once loaded never changes and has the key pair of its
own record; unless its caller was told of an error, or another process has
changed the same name, a remote is the same in memory and table; a crash never
shows half a change.

### Routes and DHT records: `src/src/ident.rs` (`Sovereign`, `Peer`), `src/src/lib.rs` (`handle_update`)

*State.* Of the node: `Sovereign.route`, the route in its DHT record, and the
one Veilid has. Of each remote: `Peer.dht`, `node_status`, `route_id`, and what
Veilid has open and imported. Each clone of `DDCP` has its own fields; what they
refer to belongs to the process.
*Operations.* `announce`, `release_route`, `close`; `refresh_dht`,
`refresh_route`, `Peer::close`, the release after a failed call.
*Interaction.* The server's clone drops its route on any `RouteChange`, from
whichever remote it comes; puller and server open and close the same records.
*Hard.* An error between a call to Veilid and the update of the field that
remembers it, Veilid's refusal to close or release what it no longer has among
them; a record closed by one task between another's open and get; routes
that die at any time.
*Correct if.* One route at a time, and every route known to a clone that will
release it; the announcement comes to hold a route that works; every call goes
to a route of the status it was decided on; closing closes everything.

### Messages: `src/src/proto/codec.rs`, `src/src/proto/crypto.rs`, `src/src/proto/ddcp_capnp.rs`

No state. `Envelope` names the sender in clear; its contents are encrypted for
the pair of keys, so each side must know the other's key, which it learns from
the other's announcement. Requests, responses and values are unions that a later
version may extend.
*Hard.* A field read from another's place; a reader that knows fewer members of
a union than the writer; a message too short to hold a nonce.
*Correct if.* What is handled is what was asked, what is merged is what was
answered, field for field, and two nodes of one version that have each other's
keys read what arrives as it was made.

### Command line and shutdown: `src/src/bin/main.rs`, `src/src/cli.rs`, `src/src/lib.rs` (`DDCP::new`, `cleanup`)

*State.* The paths, the connection, Veilid's API, `app_result`.
*Operations.* Each subcommand: paths, setup, wait for the network where the
command needs it, the command itself, cleanup, exit code.
*Hard.* An error at each step ends the run, is kept for the exit code or is
only logged. `serve` waits for the futures that *spawn* its tasks; cleanup can
therefore run while a pull or an answer is in progress.
*Correct if.* The exit code tells the truth; what was set up is taken down
whatever the command met; commands that need no network do not wait for it.

### Not modelled

`veilid_config.rs` is a table of constants; `error.rs` an error type and its
conversions (the paths that return errors are modelled in their callers);
`store.rs` is not part of the crate (`lib.rs` does not declare it). Of the
generated `ddcp_capnp.rs`, introspection, pipelines and the encoded schema
nodes, which ddcp never uses, are left out; of `cli.rs`, clap's parsing of
arguments. cr-sqlite and Veilid are outside the repository: what the code needs
of them is stated in external definitions.

## Plan

1. `CrrDatabase`: the queries and the merge as operators. *Done.*
2. `Replication`: push, pull and answer between several nodes, with failures,
   crashes and replaced databases. *Done*; runs `replace`, `shared`, `three`,
   `live`, `one_sided`.
3. `ReplicationProofs`: the queries are complete, the merge keeps the newest
   and does not mind order or repetition, and the safety of `Replication`.
   *Done*.
4. `Serve`, `ServeProofs`: one process's puller and server over several
   remotes: startup, the round that stops at the first failure, the peers'
   cached status, the snapshot `peer_by_key`. *Done*; runs `serve_rounds`,
   `serve_calls`.
5. `Routes`, `RoutesProofs`: the node's own route between two clones of
   `Sovereign` and the queue of RouteChanges. *Done*; run `routes_serve`.
6. `Links`, `LinksProofs`: the remotes' records and routes between the process's
   own value, the puller and the server. *Done*; run `links_serve`.
7. `Identity`, `Registry`, `IdentityProofs`: the two tables with crashes at each
   await, and the atomic directory they implement. *Done*; run
   `identity_crash`.
8. `Command`: a run of the program from its arguments to its exit code. *Done*;
   run `command`.
9. `Codec`, `Exchange`, `Call`: the messages, one pull on the wire, and the call
   without encodings that it implements. *Done*; run `exchange`.
10. `Owed`, `OwedProofs`: replication without messages and versions, as writes
    that are owed until they are held; `Replication` implements it, and nodes in
    sync hold the same data. *Done*; runs `replace`, `three`.
11. `CommandProofs`: the safety of a run. *Done*.
12. `ExchangeProofs`: the round trips of `Codec`, the safety of `Exchange` and its
    refinement of `Call`, over all requests and changes rather than the ones
    `MCExchange` chooses. *Done*.

## Modules

### `CrrDatabase`

Pure operators, parameterised by the set `Cells`. A cell is the unit cr-sqlite
resolves by itself. Of a row only its place in cr-sqlite's total order of writes
to the cell (`rank`), its `db_version` (`ver`) and whether `site_id` is null
(`local`) matter to the code or to a property; equal ranks are equal writes.

| TLA+ | code |
|---|---|
| `DbVersion` | `DB::status` |
| `RowsSince`, `ChangesSince` | `DB::changes`: the second query; the whole, given the version of the first |
| `MaxDbVersion`, `TrackedAfter` | the two effects of `DB::merge` on `crsql_tracked_peers` |
| `Winners`, `MergedRows`, `MergedClock` | external: an insert into `crsql_changes` takes effect where it is newer, makes the row the peer's, and numbers it above every version seen |

### `Replication`

| variable | stands for |
|---|---|
| `site`, `rows`, `clock`, `tracked` | each database: site id, `crsql_changes`, `crsql_db_version()`, `crsql_tracked_peers` |
| `announced` | the `NodeStatus` in each agent's DHT record |
| `known` | the remotes whose key is in the server task's `peer_by_key`: those that had announced themselves when the process started |
| `pushing` | `status` read by `push`, before `set_dht_value` |
| `pull` | the locals of `pull`, `pull_from`, `Conclave::changes` and of the responder that answers it |
| `used` | site ids given out, so that a new database gets a fresh one |

An agent is a process with an identity, `Home` the database it has open,
`Remotes` the remotes it has added, `Announced` the agents that have announced
an empty database before the servers were started. The steps are the code
between two awaits:

| action | code |
|---|---|
| `Write` | a transaction of the application |
| `PushRead`, `PushAnnounce`, `PushFails` | `DDCP::push`, `Sovereign::announce` |
| `RefreshPeer` | `Peer::refresh`, `node_status` |
| `SkipPull`, `CallPeer` | `pull_from` up to the `app_call`: early return, or request |
| `AnswerStatus`, `AnswerChanges` | `handle_update`'s responder: the two database calls of `DB::changes`, for a caller whose key the server has |
| `MergeReply`, `RejectReply` | the check of the site id, `DB::merge` |
| `PullFails` | every other way a pull ends: no route, a lost or timed-out call, an error in decoding, a merge that rolls back |
| `Crash` | a process dies and starts again; only the database and the DHT record remain, and the server takes its copy of the remotes anew (`KnownAfterRestart`) |
| `ReplaceDb` | the agents of a database are restarted on a new database file with their old identities |

A pull in phase "answering" belongs to both processes: a crash of either ends
it. An answer that is under way outlives its sender. The model allows a pull to
fail or a refresh to happen at any time, so it includes what one pass of
`ddcp pull` or of the puller does with any single remote; what it leaves out is
that a round refreshes all remotes before it pulls from the first one.

### `MCReplication`

Gives the constants their values for TLC: `SingleHome`/`FullMesh` (one agent
per database, everybody a remote of everybody), `SharedHome`/`SharedRemotes`
(agents 1 and 3 on database 1), `OneSided` (agent 2 has added agent 1 only).

### `Owed`

What `Replication` promises, without versions, announcements, requests and
answers. `holds` is the rank of each cell at each node, `owns` the cells a node
serves, `owes` what each node has yet to bring to each other one, `replaced`
whether a database was ever replaced. `Write` raises cells and owes them to
everybody; `TakeOver` raises cells to values some node owns, at least as new,
gives up serving them, and ticks off a debt only of what is then held;
`Replace` empties a node, to which all others then owe everything they own.
`Replication!Promise` is the refinement mapping: a node owes another its local
rows above the version the other tracks for its site (`OwedTo`), which the
second query of `DB::changes` would return. Debts may come off many at a time,
but never with a value missed, and a replaced node starts over with all of
them.

### `Serve`

One process over all its remotes, where `Replication` has many processes and
looks at one remote at a time. The steps are again the code between two awaits;
a pull, which is all of `Replication`, is one step here.

| variable | stands for |
|---|---|
| `order` | the order in which the `HashMap` `Conclave.remotes` is iterated |
| `serving` | `wait_for_network` has returned and `serve` has spawned its tasks |
| `at` | where the puller and the server are, and at which remote |
| `seen` | each task's `Peer.node_status` (the tasks work on clones) |
| `known` | the entries of `peer_by_key` that have a `node_status`, hence a key |
| `dbVersion`, `pushing`, `announced` | the node's version, as the current push read it, and in its DHT record |
| `published`, `reachable` | the remotes' DHT records, and whether they can be opened |
| `calls` | the last `app_call` of each other node: in the queue, with a responder, answered or dropped |
| `roundStart` | history, for `PullsFromThisRound` |

| action | code |
|---|---|
| `Attach`, `DiscardCall` | the first loop of `wait_for_network` |
| `PushRead`, `Announce`, `AnnounceFails`, `EndPush` | `push`, called in a loop at startup and at each tick of the server; the first `EndPush` also stands for the cloning in `serve` and for `peer_by_key` |
| `RefreshPeer`, `RefreshFails` | one turn of `Conclave::refresh_peers`, in either task; a failure ends the loop and its caller |
| `PullerTick`, `EndRefresh`, `PullFrom`, `SkipPeer`, `EndRound` | the loop of `spawn_puller` |
| `HandleCall`, `Respond`, `RespondFails` | `handle_update` for an `AppCall`, and the responder it spawns |
| `Call`, `Publish`, `Write`, `Vanish` | other nodes, the application, the DHT |

### `Identity`, `Registry` and `MCIdentity`

A state directory and the processes that use it together, between two awaits at
a time; nothing in the code keeps them apart. A DHT record and its owner key
pair are known by the same key.

| variable | stands for |
|---|---|
| `storedKey`, `storedPair` | the two columns of `ddcp_conclave_local` |
| `table` | `ddcp_conclave_remotes` |
| `created`, `fresh` | the DHT records there are; the one `init` has just created |
| `pc`, `back` | the next step of each process; whether `load` was called by `init` |
| `sov`, `toLoad`, `peers`, `op` | `Sovereign`, the loop of `load_all`, `Conclave.remotes`, the change in progress |
| `told` | history: what the caller of each process was told |
| `doubtful` | history: the names it was told an error about, and those another process has changed since it listed them |
| `raced` | history: two processes ran before there was an identity |

| action | code |
|---|---|
| `LoadKey`, `LoadPair`, `OpenRecord`, `OpenFails` | `Sovereign::load` |
| `CreateRecord`, `StoreKey`, `StorePair` | `Sovereign::init`, which ends in `load` |
| `ListRemotes`, `LoadPeer`, `EndLoad` | `Peer::load_all` |
| `AskAdd`, `StorePeer`, `ReadPeer` | `DDCP::remote_add`: `Peer::new`, `set_peer` |
| `AskRemove`, `DeletePeer` | `DDCP::remote_remove`: `remove_peer`, `Peer::remove` |
| `ChangeFails`, `Crash`, `Start` | an error of the table store; the process |

`Registry` is what `Identity` promises: an identity adopted once, unless two
processes ran before there was one (`contested`), and changes of remotes that
are asked for, made in one step and confirmed or refused. `Identity!Directory`
is the refinement mapping: the identity is adopted when its second column is
stored. `MCIdentity` adds the symmetry of TLC's instance.

### `Routes`

| variable | stands for |
|---|---|
| `stage` | what the process does with its own value of `DDCP`, from startup to shutdown |
| `route`, `pc` | `Sovereign.route` of the own value and of the server's clone, and their place in `announce` |
| `alive`, `made` | the node's routes that Veilid has; how many it has made |
| `announced` | the route in the node's DHT record |
| `deaths`, `changes` | routes that have died; RouteChanges in the queue |
| `refused` | history: Veilid refused to release the server's route |

| action | code |
|---|---|
| `NewRoute`, `KeepRoute`, `Announce`, `AnnounceFails` | `Sovereign::announce` |
| `Serve`, `Interrupt`, `ServerStops` | `DDCP::serve` |
| `HandleRouteChange` | `handle_update`, `Sovereign::release_route`; the release of a route Veilid has forgotten succeeds or is refused |
| `CloseRecord`, `CloseRecordFails`, `CloseRoute` | `Sovereign::close` |
| `Shutdown`, `RouteDies` | Veilid |

### `Links`

| variable | stands for |
|---|---|
| `stage`, `at`, `todo`, `toPull` | what the process and each of its tasks (own value, puller, server) do |
| `dht`, `status`, `routeId` | `Peer.dht`, `node_status`, `route_id` in each task's clones |
| `opened`, `imported` | the records Veilid has open, the routes it has imported |
| `published` | the route in each remote's record |

| action | code |
|---|---|
| `PullerTick`, `Push`, `Pull`, `RefreshPeer`, `EndRefresh` | the callers and the loop of `refresh_peers` |
| `CloseRecord`, `OpenRecord`, `GetValue` | `Peer::refresh_dht` |
| `ImportRoute` | `Peer::refresh_route` |
| `RefreshFails` | an error of any of the four, the close included |
| `SkipPeer`, `PullFrom`, `CallFails`, `EndPulls` | `pull_from`, `Conclave::changes` |
| `Serve`, `Cleanup`, `TaskStops` | `serve`, `cleanup` |
| `SovereignFails`, `ClosePeer`, `ClosePeerFails`, `EndClose` | `Conclave::close`, `Peer::close` and their errors |

### `Command`

`pc` is the next step of `main`; `missing` the paths that do not exist; `result`
`app_result`; `db`, `veilid` what is set up; `todo`, `errors` the loop of
`DDCP::pull`; `effects` what the command has done. The actions follow the
program: `DbFile`, `StateDir`, `ExtFile`, `PathsFail`, `Shell` (`cli.rs`);
`OpenDb`, `StartVeilid`, `LoadConclave`, `NewFails` (`DDCP::new`); `Wait`,
`FirstPush` (`wait_for_network`); `Run...`, `PullOne`, `EndPull`, `Serve`,
`Interrupt` (`run_app`); `CloseConclave`, `Shutdown`, `Finalize`, `Exit`
(`cleanup`, `main`). A subcommand that is one fallible operation of another
module is one step here; when it fails, it may have done its work all the same.

### `Codec`, `Exchange`, `Call` and `MCExchange`

`Codec` describes a Cap'n Proto message as structs of words and pointers. Each
module of `ddcp_capnp.rs` is a schema: the size of its struct, the word or
pointer of each field, the members of its union; its accessors are `Word`,
`Pointer`, `Which` and `Build` of that schema. `codec.rs` is one operator per
function: `EncodeRequest`, `DecodeRequest`, `EncodeVal`, `DecodeVal`, ... A
member `later` stands for one a later version of ddcp has added. `Values` and
`Changes` are the types of the code's structs: texts and blobs are any sequences
of bytes, numbers any words.

`Exchange` sends one pull through them: `Announce`, `Refresh`, `Ask`, `Handle`,
`Receive`, or `TimeOut`. `Seal` and `Open` are `Crypto::encode` and
`Crypto::decode`; both ends derive the same key from their pair of keys.
`remotes` are the callers the server has added, `known` those whose key it has.
`RequestFrom(n)` is what the server makes of the message under way if it comes
from `n`, an error without `n`'s key. A message of a later version may be
`Bare`, its contents not where this version looks for them: what is read is then
too short for a nonce, and opening it panics. `ChangesAssumption` only says that
`DB::changes` returns a list of `Change`s.

`Call` is what one pull promises, without encodings, envelopes and keys: an
announcement is read as it was made, a request the server knows is answered, an
answer is merged if it is acceptable after that announcement and refused
otherwise, and the call may be lost at any time. `Exchange!Promise` is the
refinement mapping; acceptable is an answer with changes, all of kinds this
version knows, from the site that was announced.
`MCExchange` chooses changes whose fields all differ and values of every kind.

### `ReplicationProofs`, `OwedProofs`, `ExchangeProofs`, `ServeProofs`, `IdentityProofs`, `RoutesProofs`, `LinksProofs`, `CommandProofs`

Theorems; see below.

## Runs

| run | instance | checks |
|---|---|---|
| `replace` | 2 nodes, 2 cells, 1 rank, 1 and 2 versions, 1 replacement (215 thousand states) | `TypeOK`, `NoMissedChange`, `TrackedIsCommitted`, `AnswerIsComplete`, `ImplementsOwed` |
| `shared` | 2 databases, 3 processes, 1 cell, 2 ranks, 1 and 2 versions (808 thousand) | `NoMissedChange`, `NeverGoesBack`, `PullCatchesUp` |
| `three` | 3 nodes, 1 cell, 1 version each (392 thousand) | `Converged` |
| `live` | 2 nodes, one of them not announced at first, 1 cell, 2 ranks, 1 version each (4 thousand) | `EventuallySameContents`, `KnownPeersCatchUp` |
| `one_sided` | 2 nodes, 1 cell, 2 ranks, 2 versions; agent 1 has no remotes | `AddressSuffices`, violated |
| `serve_rounds` | 2 remotes in either order, one not announced at first, 1 announcement (11 thousand) | `TypeOK`, `PullsFromThisRound`, `EveryRemotePulled` |
| `serve_calls` | 1 remote that announces itself at any time and may vanish, 1 stranger, 2 versions (32 thousand) | `RemotesAnswered`, `AnnouncesKeepUp` |
| `identity_crash` | 2 processes together, 3 keys, 1 name, 2 addresses (83 thousand) | `TypeOK`, `IdentityIsWhole`, `MemoryFollowsTable`, `ImplementsRegistry` |
| `routes_serve` | 5 routes, 4 deaths (3 thousand) | `TypeOK`, `OneRoute`, `DeathIsNoticed`, `CloseReleases`, `RouteRepaired` |
| `links_serve` | 1 remote with up to 2 routes (270 thousand) | `TypeOK`, `CallsHaveRoute`, `CloseIsComplete`, `RefreshRecovers` |
| `command` | every subcommand, 2 remotes (2 thousand) | `TypeOK`, `ExitCodeIsTrue`, `PathsAreThere`, `ExitsCleanedUp`, `Ends` |
| `exchange` | 2 callers, known or not; every kind of value (37 thousand) | `TypeOK`, `HandledAsAsked`, `MergedAsAnswered`, `Understood`, `ImplementsCall` |

### Bounds

In the runs of `Replication`, `MaxRank` is the highest rank a write can take,
and `MaxClock` the `db_version` after which a database's application writes no
more (merges may still raise it). `NSites` minus `NDbs` is how often a database
can be replaced. In those of `Serve`, `MaxAnnouncement` bounds how often a
remote announces itself and `MaxVersion` how often the node's application
writes; each other node has one call outstanding. `Keys` bounds the records an
`Identity` can create, `MaxRoute` the routes a node can make (`Routes`) or a
remote announce (`Links`), `MaxDeath` the routes that die. Nothing else is
bounded: pushes, pulls, refreshes, failures and crashes recur without limit.

Why they are enough for the case to happen:

- A change is missed when an answer holds one change and lacks another, which
  takes two cells with different versions (`replace`; the two cells are
  symmetric, since nothing orders them). An answer that crosses a replacement
  does harm when the new database has a change at or below the `since` of the
  old one and another above it: one spare site id, two cells and two versions.
- A tracked version could fall when an answer to an old request is merged after
  an answer to a newer one: two versions and two processes (`shared`). A cell
  could go back, and a version goes down when a merge wins a cell the node
  wrote, with two ranks (`shared`, `live`).
- Not relaying matters from three nodes on (`three`).
- A server lacks the key of a remote that announces itself after the server has
  started: one node of `live` has not announced itself, and either may restart
  at any time.
- A round needs one remote before and one after the remote that fails; one
  announcement lets one change between two rounds.
- Half an identity takes two records; the third allows for `init` to be cut
  short twice, or once while another process runs it. A change that is lost
  shows with two addresses. Names meet nowhere but in the loop of `load_all`,
  so the run has one; with two names and two records the same properties hold
  in 2.3 million states, and the proofs are for any number.
- With four deaths and five routes, routes can die before, during and after an
  announcement and while a RouteChange waits, the node's own or a remote's, and
  each can be replaced.
- A task needs a second route of a remote to hold an old one. One remote is
  enough for records that tasks open and close under each other, since records
  do not touch; that the loop over several remotes stops at a failure is in
  `serve_rounds`, and the invariants of `Links` are proved for any number.

Deadlock is checked in the runs of `Replication`, `Serve` and `Identity`. In
`routes_serve`, `links_serve`, `command` and `exchange` a process, or a pull,
comes to its end.

### What they show

`AnswerIsComplete` is the property that carries the others of `Replication`: an
answer is a snapshot taken in two queries, and it is merged at a time when its
origin has gone on writing and merging. It stays complete because new local rows
get versions above the answer's maximum and because a row that stops being local
stops being owed.

`Converged` says that the comparison of versions in `pull_from` is enough to
know that nothing is left to pull, although versions go down when local rows are
overwritten and no node relays what it merged. It assumes a full mesh
(`InSync` ranges over all pairs) and that no database was replaced: writes of a
database that is gone are recovered by nobody who did not have them.

`ImplementsOwed` says the same of all states, not only those in sync: at any
moment, what a node would still send to another covers every write of its own
that the other lacks, and only what the other then holds comes off it.

`PullCatchesUp` is the other half: pulls come to an end. `shared` checks it
where merges win over cells the origin wrote, so that its versions go down. What
a merge tracks is the maximum of the changes in the answer, what the next pull
compares it with is the maximum of another query, the one of `DB::status`; an
answer that is merged while its origin's database would still give it takes the
one up to the other. If the two queries ranged over different rows, a node could
ask for the same thing at every tick and never be up to date.

`ImplementsCall` justifies that `Replication` has no messages: between two nodes
of any versions, encodings, envelopes and keys change nothing of a request or an
answer that arrives. `Understood` says when one that arrives is read: the
receiver needs the sender's key and a sender of its own version. What it does
not say is that a message arrives; one that is too large for `app_call` never
does.

`EventuallySameContents` and `KnownPeersCatchUp` hold only of callers whose key
the answering server has. That two nodes have added each other is not enough:
each must also have been started after the other's first announcement.

`one_sided` shows a disagreement with the README (`src/README.md:140`, "if you
know the address, you can pull from the database"): `handle_update` looks the
sender up among the answering node's own remotes and drops the request of anyone
else (`src/src/lib.rs:311`), so the asking node's calls time out for ever. Having
added each other does not suffice either, see below.

`routes_serve` and `links_serve` show that clones which do not see each other's
changes do no lasting harm. The own value's route is the server's at the moment
of cloning and no task of the own value runs until the end; a record closed
under another task, or left closed by a failed open, is opened again in the next
round, unless Veilid refuses to close it.

### Where the properties stop

Each of these happens in the models. The properties except it by a hypothesis or
by name, and do not hold without that.

- *A remote that announces itself late.* `peer_by_key` keeps the status that
  remotes had when the server started (`src/src/lib.rs:274`); a remote that
  announces itself afterwards gets "peer key not found", without a reply, until
  the process restarts. `AnswerStatus` and `Respond` need the key.
  `EventuallySameContents` speaks of states in which every server has its
  remotes' keys (`AllKnown`), `KnownPeersCatchUp` of one caller and one server,
  `RemotesAnswered` of remotes that had announced themselves before a startup
  push came to the remotes.
- *A remote that has disappeared.* `wait_for_network` pushes until it succeeds,
  and a push ends with refreshing every remote, so one whose record cannot be
  opened keeps every command that needs the network from starting
  (`src/src/lib.rs:106`); when it disappears later, the puller skips every round
  (`src/src/lib.rs:242`), although changes of remotes are applied automatically
  by the README (`src/README.md:72`). In `serve_rounds` no remote disappears;
  `serve_calls` shows what holds if one does: announcements and answers go on,
  since `announce` comes before `refresh_peers`.
- *A release that Veilid refuses.* `release_route` then fails before it clears
  the field (`src/src/ident.rs:136`), and the dead route is announced until a
  later RouteChange finds Veilid willing. `DeathIsNoticed` and `RouteRepaired`
  except it by name (`refused`).
- *A close that Veilid refuses.* After a failed open, and after the close of
  another task, `refresh_dht` closes a record that is not open
  (`src/src/ident.rs:283`); if that is an error, so is every later refresh of
  that clone until another task has opened the record. `RefreshRecovers` assumes
  that the record is open again and again. An error of closing also ends
  `Conclave::close` (`src/src/ident.rs:173`, `src/src/ident.rs:315`);
  `CloseIsComplete` and `CloseReleases` speak of a close that came to its end.
- *Two processes before there is an identity.* Their calls of `init` can
  interleave their stores and pair the key of one record with the key pair of
  another (`src/src/ident.rs:92`), or replace an identity the other has loaded.
  `IdentityIsWhole` excepts a directory where two processes have run before it
  had an identity (`raced`), `Registry` allows `Adopt` again there.
- *Remotes changed beside a running process.* `ddcp remote add` beside
  `ddcp serve` changes the table only; the server has the old remotes in memory
  until it restarts. A change that fails half-way (`src/src/ident.rs:217`,
  `src/src/ident.rs:390`) leaves memory and table apart, too, and its caller is
  told of the error. `MemoryFollowsTable` excepts these names (`doubtful`),
  `Registry` lets a refused change be made or not.
- *Tasks that outlive `serve`* (`src/src/lib.rs:227`). Cleanup closes the
  process's own value only (`src/src/lib.rs:179`): the server's clone may keep a
  route, the puller's a record, which `CloseReleases` and `CloseIsComplete`
  except, and both may use the database after `crsql_finalize`. The process is
  about to end, and Veilid's shutdown takes routes and records along.
- *A command that fails.* `push` may have announced and `remote add` may have
  stored before the error (`RunOperation`). `ExitCodeIsTrue` says that a
  success is one, not that a failure left nothing behind.

### Fairness

`FairSpec` assumes, per agent: that a push is attempted again and again (weak
fairness of `PushRead`: the server's interval timer, and `wait_for_network`
before it) and that attempts to announce it do not fail for ever; that each
remote is refreshed again and again (the puller's timer); that a call, its
answer and its merge are not lost every time they are attempted (strong fairness
of `CallPeer`, `AnswerStatus`, `AnswerChanges`, `MergeReply`, where
`AnswerStatus` is enabled for callers whose key the server has); and that a pull
ends (`app_call` times out). It assumes nothing of the application, and no bound
on failures and crashes, nor that a process is ever restarted. It is stated for
each remote separately, which the code grants when the remotes' refreshes
succeed again and again within the same round: the round stops at the first
failure (`src/src/ident.rs:363`). With the single remote of `live` and
`one_sided` there is no such difference.

`Serve` splits its assumptions by what a property needs. `TasksRun`: the network
comes up, each task takes its next step, and `select!`, which picks at random
among the ready branches, does not pass over the server's timer for ever.
`NetworkWorks`: announcing, and refreshing a remote that is reachable, succeed
again and again when tried again and again; this is the transient kind of
failure. `CallsProceed`: a queued call is not passed over for ever by `select!`,
and a responder that has a key succeeds again and again. Nothing is assumed of
other nodes' calls and announcements.

`Routes` and `Links` assume of the server or the puller what `TasksRun` and
`NetworkWorks` assume: the timer ticks, the queue is read again and again, and
writing the record, opening it, closing or reading it while it is open and
importing a route succeed again and again when tried again and again. The
puller's tick, its turn to a remote and its close are assumed to fall again and
again into moments when the record is open, if there are such moments again and
again: the server's timer is another one. Nothing is assumed of closing a record
that is not open, nor of the other task, which may fail and close records for
ever, nor of the death of routes beyond its bound: routes that die faster than
they are announced leave no announcement that lasts.

`Command` assumes that each call of `main` returns, that a push repeated until
it succeeds does succeed, and that a network that is coming comes. Not that one
comes at all, nor ctrl-c.

### Assumptions about Veilid

A dead route is forgotten and queues a RouteChange, in whichever order they are
seen; Veilid's shutdown takes all routes. To release a route that Veilid has
forgotten, or to close a record that is not open, may succeed or be an error at
each call. A store to a table takes effect as a whole or not at all.

## Proofs

`ReplicationProofs` begins with what the queries and the merge return for every
finite set of cells (`CellsAssumption`): a finite set of versions has a maximum
(`LargestExists`, by well-foundedness of strict inclusion on its subsets, since
induction over finite sets takes an operator as a parameter), an answer of
`DB::changes` lists every local row between `since` and its own highest version
(`ChangesSinceComplete`), a merge keeps the newer write of every cell and makes
no row local (`MergeKeepsNewest`), and versions stay within the clock
(`MergeTypes`). Two of its theorems are about merges alone, for all databases
and answers: `MergesCommute`, two answers may be merged in either order, and
`MergeTwice`, an answer merged again changes nothing. The versions of the merged
rows do depend on the order; nothing the node serves or tracks does.

It then proves for all `Dbs`, `Agents`, `Home`, `Remotes`, `Sites`
and bounds, from the assumptions named in `Replication`:

| theorem | statement |
|---|---|
| `TypeCorrect` | `Spec => []TypeOK` |
| `NothingMissed` | `Spec => []NoMissedChange` |
| `TrackedSound` | `Spec => []TrackedIsCommitted` |
| `AnswersComplete` | `Spec => []AnswerIsComplete` |
| `Monotone` | `Spec => NeverGoesBack` |
| `CatchesUp` | `Spec => PullCatchesUp` |
| `KeysStay` | a server that has a remote's key keeps it |

`NoMissedChange` alone is not inductive, since a merge trusts the answer it is
given. The inductive invariant `IInv` adds

- `PullOK`: what each phase of a pull may rely on. The `since` of a request is at
  most the tracked version of the announced site (tracked versions only grow); an
  answer in preparation carries the site id of the database it reads; an answer
  is complete up to its highest version for whichever database has its site id
  now (`AnswerOK`).
- `SitesOK`: site ids are unique and never reused, and nothing is tracked for an
  unused one. A replaced database thus cannot inherit a promise made by its
  predecessor.
- `RowsOK`: versions lie between 1 and the clock, so that a later write lies
  above everything tracked or answered before.

The proof has one lemma per action. Those that only move a pull go through
`PullOnly`, those that only touch pushes or lose pulls through `VolatileKeeps`;
`AnswerChangesKeeps` establishes `AnswerOK`, `MergeReplyKeeps` uses it, and
`WriteKeeps` and `ReplaceDbKeeps` show that nothing else can break it. `IInv` was
checked with TLC on the instances of `replace` and `shared` before it was proved.

`CatchesUp` needs no more than `IInv`: every row a database serves is at or below
the highest version of its answer, or at or below `since` (`AnswerReachesStatus`),
and the tracked version is at least `since` by `PullOK`. A merge makes no row
local, so none of the origin's rows is above it afterwards. `KeysStay`
rests on announcements that are never taken back (`KnownOK`): a restart finds
at least those the last one found, so `AllKnown` holds for good once it holds.

`OwedProofs` adds, from the same assumptions and `IInv`:

| theorem | statement |
|---|---|
| `InSyncMeansSame` | `Spec => []Converged` |
| `Refines` | `Spec => ImplementsOwed` |

Both need to know where data comes from. A node serves only its own rows, and a
row stops being its own when a newer one is merged over it; `SourceOK` says that
for every row, and every change in an answer under way, some database has a row
of its own at least as new. A merge that takes a local row away keeps this,
because the change that wins has such a source itself, elsewhere
(`MergeSource`). It holds as long as no database was replaced (`Whole`), which
is why `TakeOver` asks for a source only then. With it, the newest write to a
cell is the local row of some database, and whoever has tracked that database
holds it by `NoMissedChange` (`InSyncMeansSame`). For `Refines`, `WriteOwed`,
`MergeOwed` and `ReplaceOwed` take the three actions that touch databases to
those of `Owed`; a write is owed to everybody because its version is above all
that is tracked (`TrackedIsCommitted`), a merge ticks off only what is held
because `NoMissedChange` holds after it. All other steps are stutters. TLC
checks the refinement on the instance of `replace`.

`ServeProofs` proves for all sets of remotes and strangers and all bounds
`TypeCorrect` (`Spec => []TypeOK`) and `RoundsAreFresh`
(`Spec => []PullsFromThisRound`). Its `IInv` says which part of a round has been
refreshed (`Refreshed`), that announcements only get newer (`StartIsPast`), and
that the puller has not begun while startup still replaces its remotes
(`NotBeforeServing`); it was checked with TLC on the instance of `serve_rounds`.

The proofs of the other modules hold for all values of their constants, too.

| theorem | statement | assumption |
|---|---|---|
| `IdentityProofs!TypeCorrect`, `WholeIdentity`, `MemoryIsTable` | `[]TypeOK`, `[]IdentityIsWhole`, `[]MemoryFollowsTable` | `NothingAssumption` |
| `IdentityProofs!Refinement` | `Spec => ImplementsRegistry` | `NothingAssumption` |
| `RoutesProofs!TypeCorrect`, `SingleRoute`, `OwnRouteReleased` | `[]TypeOK`, `[]OneRoute`, `[]CloseReleases` | |
| `RoutesProofs!NoticedDeath` | `[]DeathIsNoticed` | |
| `LinksProofs!TypeCorrect`, `RouteForEveryCall`, `RecordsClosed` | `[]TypeOK`, `[]CallsHaveRoute`, `[]CloseIsComplete` | |
| `CommandProofs!TypeCorrect`, `TruthfulExit`, `PathsMade` | `[]TypeOK`, `[]ExitCodeIsTrue`, `[]PathsAreThere` | `EffectsAssumption` |
| `CommandProofs!CleanedUp` | `Spec => ExitsCleanedUp` | `EffectsAssumption` |

`IdentityProofs`: the invariant relates each step of `init` and `load` to what
is stored. Unless two processes raced, only one is up until both columns are
filled (`Alone`); from then on they agree, since `init` stores the key pair last
and runs only while there is none (`LocalOK`), and what is loaded is what is
stored (`SovOK`). Memory and table are apart only in the phases of a change and
in the names of `doubtful` (`PeersOK`). `Refinement` takes each action to one of
`Registry` or to a stutter: `StorePair` adopts, `StorePeer` and `DeletePeer`
make a change, `ReadPeer` confirms it, a crash is `Die`, the start of a second
process before there is an identity is `Contest`. The only assumption is that
`NoKey` and `NoAddr` are no key and no address.

`RoutesProofs`: the invariant `OwnerOK` says that the only route Veilid can have
is the server's once there has been one, and before that the own value's;
`StartOK` carries the death of a route over the moment of cloning.
`LinksProofs`: `LoopOK` says that each remote a task will pull from is `Fresh`
(its status came with its route, and Veilid has the route) as soon as the
refresh loop has passed it, and `ModeOK` that only one task at a time pulls, so
that no other call releases that route. `RecordsOK`, that every open record is
in some task's `dht`, gives `RecordsClosed`.

`CommandProofs`: `ResultOK` is `ExitCodeIsTrue` from the moment a result is kept
rather than at the exit, and `WorkOK` what makes it true then: nothing is done
before the command runs, and the loop of `pull` has every remote still to do,
done or among its errors. `EffectsAssumption` only says that no remote is called
like one of the two other marks in `effects`.

`ExchangeProofs` proves, for all callers, sites and versions and every set of
lists of changes (`ChangesAssumption`):

| theorem | statement |
|---|---|
| `RequestRoundTrip` | a request is decoded as it was encoded, or refused if it is `later` |
| `ResponseRoundTrip` | so is a response, with all its changes and their values |
| `NodeStatusRoundTrip` | an announcement is decoded as it was encoded |
| `TypeCorrect` | `Spec => []TypeOK` |
| `Handled` | `Spec => []HandledAsAsked` |
| `Merged` | `Spec => []MergedAsAnswered` |
| `ReadAsMade` | `Spec => []Understood` |
| `Transparent` | `Spec => ImplementsCall` |

The round trips rest on what a schema gives: a word or pointer that `Build` has
set is the one `Word` or `Pointer` finds (`BuildWord`, `BuildPointer`), as long
as no two fields share a place, and a member of a union is found again by its
discriminant or is not in the schema (`UnionRoundTrip`); the `?` of many fields
succeeds with all of them or fails (`AllOkIs`, `AllOkNot`). The lists have any
length and need no induction: a list is decoded element by element
(`ChangesRoundTrip`). The invariant `IInv` says what the wire carries at each
step: the record holds the encoding of what was announced, a message under way
is the sealed encoding of what was asked or answered, or the `Bare` one of a
later version (`OnWire`), and a pull that ended in an error or a panic was one
that had to (`Refused`). The two ends' keys are the
same once the caller has read the announcement (`SameKey`, `AnnouncementRead`),
so that a request or an answer opens as it was sealed (`RequestRead`,
`AnswerRead`), and a bare one does not open (`BareStaysShut`). `IInv` was checked
with TLC on the instance of `exchange`. For `Transparent`, each action is one of
`Call`: `Receive` is `Merge` or `Refuse`, by `AnswerRead`.

Every property of the passing runs that is not a liveness property is a theorem.
Only model-checked are the liveness properties, which are out of the prover's
reach: `EventuallySameContents`, `KnownPeersCatchUp`,
`EveryRemotePulled`, `RemotesAnswered`, `AnnouncesKeepUp`, `RouteRepaired`,
`RefreshRecovers`, `Ends`.

## What is left out

- Sizes: all changes since the tracked version travel in one answer, and past
  Veilid's message limit or Cap'n Proto's limits every such pull fails (the
  README names this as an open problem, `src/README.md:148`). Nothing in the
  code splits an answer, so the models have no size: such a pull is one whose
  call is lost.
- On the wire: whether a text is valid UTF-8 (a text is a sequence of bytes), a
  list of bytes read as a list of structs, the ciphers themselves. In
  `Replication` a message that does not decode is a `PullFails`.
- In `Serve`, opening a record, reading it and importing the route of its value
  are one step, which fails or not; `Links` takes them apart. Calls that pile up
  in the queue behind calls that timed out, and the order of the queue, are left
  out, and so is the update `Shutdown`, which only logs.
- cr-sqlite's own correctness: ranks are totally ordered and a merge takes the
  higher one, by assumption.
