-------------------------------- MODULE Command --------------------------------
(***************************************************************************)
(* One run of the ddcp program, from its arguments to its exit code: the   *)
(* database, Veilid and the identity are set up, a command that needs the  *)
(* network waits for it, the command runs, and cleanup takes down what was *)
(* set up.  An error ends the run where it occurs, or is kept for the exit *)
(* code, or is only logged, depending on the step.                         *)
(*                                                                         *)
(* `serve` leaves its tasks running when ctrl-c ends it; they end by       *)
(* themselves, or with the process.                                        *)
(***************************************************************************)
CONSTANTS
    Remotes     \* the remotes of the state directory

(* What a command does besides pulling from remotes.                       *)
ASSUME EffectsAssumption == "operation" \notin Remotes /\ "interrupted" \notin Remotes

VARIABLES
    command,    \* the subcommand
    missing,    \* the paths that do not exist
    network,    \* "never" comes up, is "coming", or is "up"
    pc,         \* the next step of main
    result,     \* app_result
    db,         \* the connection to the database
    veilid,     \* Veilid's API
    todo,       \* the remotes `pull` has yet to pull from
    errors,     \* the remotes it has failed to pull from
    effects,    \* history: what the command has done
    tasks       \* the tasks of serve are running

setup == <<db, veilid>>
pulling == <<todo, errors>>
vars == <<command, missing, network, pc, result, setup, pulling, effects, tasks>>

Commands == {"init", "push", "fetch", "merge", "pull", "pull name", "serve",
             "shell", "addr", "cleanup",
             "remote add", "remote remove", "remote list", "remote status"}

(* Commands that are one operation, and may fail in it.                    *)
Operations == {"init", "push", "remote add", "remote remove", "pull name"}
(* Commands that only show or end something.                               *)
Trivial == {"addr", "cleanup", "remote list"}
Unsupported == {"fetch", "merge", "remote status"}

Paths == {"dbDir", "stateDir", "ext"}

Steps == {"dbFile", "stateDir", "extFile", "shell",
          "openDb", "startVeilid", "loadConclave",
          "wait", "firstPush", "run", "serve",
          "close", "shutdown", "finalize"}
Over == {"exit", "exec", "killed"}

TypeOK ==
    /\ command \in Commands
    /\ missing \in SUBSET Paths
    /\ network \in {"never", "coming", "up"}
    /\ pc \in Steps \cup Over
    /\ result \in {"none", "ok", "error"}
    /\ db \in {"none", "open", "finalized"}
    /\ veilid \in {"none", "up", "down"}
    /\ todo \in SUBSET Remotes
    /\ errors \in SUBSET Remotes
    /\ effects \in SUBSET (Remotes \cup {"operation", "interrupted"})
    /\ tasks \in BOOLEAN

Init ==
    /\ command \in Commands
    /\ missing \in SUBSET Paths
    /\ network \in {"never", "coming"}
    /\ pc = "dbFile"
    /\ result = "none"
    /\ db = "none"
    /\ veilid = "none"
    /\ todo = {}
    /\ errors = {}
    /\ effects = {}
    /\ tasks = FALSE

(* main goes from one step to the next.                                    *)
Step(from, to) == pc = from /\ pc' = to

(* An error before there is an app: `?` leaves run, nothing is cleaned up. *)
Abort(from) == Step(from, "exit") /\ result' = "error"

(* The command is over; its result is kept while the app is cleaned up.    *)
Finish(from, r) == Step(from, "close") /\ result' = r

-----------------------------------------------------------------------------
(* run: the paths, and the shell before everything else.                   *)

(* Cli::db_file: the given file or ddcp.db; its directory is made.         *)
DbFile ==
    /\ Step("dbFile", "stateDir")
    /\ missing' = missing \ {"dbDir"}
    /\ UNCHANGED <<command, network, result, setup, pulling, effects, tasks>>

(* Mutant of StateDir: the directory is left to be made by Veilid.         *)
StateDirAsGiven ==
    /\ Step("stateDir", "extFile")
    /\ missing' = missing \ {"dbDir"}
    /\ UNCHANGED <<command, network, result, setup, pulling, effects, tasks>>

(* Cli::state_dir: the given directory, or .ddcp/ and the name of the file *)
(* beside it; it is made, the directory of the database once more before.  *)
StateDir ==
    /\ Step("stateDir", "extFile")
    /\ missing' = missing \ {"dbDir", "stateDir"}
    /\ UNCHANGED <<command, network, result, setup, pulling, effects, tasks>>

(* Cli::ext_file: the extension must be there.                             *)
ExtFile ==
    /\ "ext" \notin missing
    /\ Step("extFile", IF command = "shell" THEN "shell" ELSE "openDb")
    /\ UNCHANGED <<command, missing, network, result, setup, pulling, effects, tasks>>

(* A path has no parent or no name, a directory cannot be made, the        *)
(* program's own path is not known, or there is no extension; directories  *)
(* made before stay.                                                       *)
PathsFail ==
    /\ Abort("dbFile") \/ Abort("stateDir") \/ Abort("extFile")
    /\ \/ UNCHANGED missing
       \/ pc = "stateDir" /\ missing' = missing \ {"dbDir"}
    /\ UNCHANGED <<command, network, setup, pulling, effects, tasks>>

(* exec replaces the process, or returns an error.                         *)
Shell ==
    /\ \/ Step("shell", "exec") /\ UNCHANGED result
       \/ Abort("shell")
    /\ UNCHANGED <<command, missing, network, setup, pulling, effects, tasks>>

-----------------------------------------------------------------------------
(* DDCP::new.                                                              *)

OpenDb ==
    /\ Step("openDb", "startVeilid")
    /\ db' = "open"
    /\ UNCHANGED <<command, missing, network, result, veilid, pulling, effects, tasks>>

StartVeilid ==
    /\ Step("startVeilid", "loadConclave")
    /\ veilid' = "up"
    /\ UNCHANGED <<command, missing, network, result, db, pulling, effects, tasks>>

(* Mutant of NeedsNetwork: only the shell does without.                    *)
NeedsNetworkAlways(c) == c # "shell"

NeedsNetwork(c) ==
    c \notin {"remote add", "remote remove", "remote list", "remote status", "shell"}

LoadConclave ==
    /\ Step("loadConclave", IF NeedsNetwork(command) THEN "wait" ELSE "run")
    /\ UNCHANGED <<command, missing, network, result, setup, pulling, effects, tasks>>

NewFails ==
    /\ \E s \in {"openDb", "startVeilid", "loadConclave"} : Abort(s)
    /\ UNCHANGED <<command, missing, network, setup, pulling, effects, tasks>>

-----------------------------------------------------------------------------
(* run_app.                                                                *)

NetworkComes ==
    /\ network = "coming"
    /\ network' = "up"
    /\ UNCHANGED <<command, missing, pc, result, setup, pulling, effects, tasks>>

Wait ==
    /\ network = "up"
    /\ Step("wait", "firstPush")
    /\ UNCHANGED <<command, missing, network, result, setup, pulling, effects, tasks>>

(* The update channel is gone.                                             *)
WaitFails ==
    /\ Finish("wait", "error")
    /\ UNCHANGED <<command, missing, network, setup, pulling, effects, tasks>>

(* A push that fails is repeated: that step changes nothing.               *)
FirstPush ==
    /\ Step("firstPush", "run")
    /\ todo' = IF command = "pull" THEN Remotes ELSE {}
    /\ UNCHANGED <<command, missing, network, result, setup, errors, effects, tasks>>

(* Mutant of RunOperation: the command is noted in place of its kind.      *)
RunOperationByName ==
    /\ command \in Operations
    /\ \/ Finish("run", "ok") /\ effects' = effects \cup {command}
       \/ Finish("run", "error") /\ UNCHANGED effects
    /\ UNCHANGED <<command, missing, network, setup, pulling, tasks>>

(* An operation that fails may have done its work all the same: push has   *)
(* announced before a remote fails, remote add has stored before it reads. *)
RunOperation ==
    /\ command \in Operations
    /\ \/ Finish("run", "ok") /\ effects' = effects \cup {"operation"}
       \/ Finish("run", "error") /\ effects' \in {effects, effects \cup {"operation"}}
    /\ UNCHANGED <<command, missing, network, setup, pulling, tasks>>

RunTrivial ==
    /\ command \in Trivial
    /\ Finish("run", "ok")
    /\ UNCHANGED <<command, missing, network, setup, pulling, effects, tasks>>

RunUnsupported ==
    /\ command \in Unsupported
    /\ Finish("run", "error")
    /\ UNCHANGED <<command, missing, network, setup, pulling, effects, tasks>>

(* Mutant of PullOne: the error of a remote is logged only.                *)
PullOneLogged(p) ==
    /\ command = "pull" /\ pc = "run"
    /\ p \in todo
    /\ todo' = todo \ {p}
    /\ \/ effects' = effects \cup {p}
       \/ UNCHANGED effects
    /\ UNCHANGED <<command, missing, network, pc, result, setup, errors, tasks>>

(* `ddcp pull` without a name goes on after an error and keeps it.         *)
PullOne(p) ==
    /\ command = "pull" /\ pc = "run"
    /\ p \in todo
    /\ todo' = todo \ {p}
    /\ \/ effects' = effects \cup {p} /\ UNCHANGED errors
       \/ errors' = errors \cup {p} /\ UNCHANGED effects
    /\ UNCHANGED <<command, missing, network, pc, result, setup, tasks>>

EndPull ==
    /\ command = "pull"
    /\ todo = {}
    /\ Finish("run", IF errors = {} THEN "ok" ELSE "error")
    /\ UNCHANGED <<command, missing, network, setup, pulling, effects, tasks>>

-----------------------------------------------------------------------------
(* serve spawns its tasks and waits for ctrl-c, not for them.              *)

Serve ==
    /\ command = "serve"
    /\ Step("run", "serve")
    /\ tasks' = TRUE
    /\ UNCHANGED <<command, missing, network, result, setup, pulling, effects>>

Interrupt ==
    /\ Finish("serve", "ok")
    /\ effects' = effects \cup {"interrupted"}
    /\ UNCHANGED <<command, missing, network, setup, pulling, tasks>>

(* The signal handler cannot be installed: serve returns, nothing tells    *)
(* the tasks to stop.                                                      *)
InterruptFails ==
    /\ Finish("serve", "ok")
    /\ UNCHANGED <<command, missing, network, setup, pulling, effects, tasks>>

(* The tasks see the token.                                                *)
TasksEnd ==
    /\ tasks
    /\ "interrupted" \in effects
    /\ tasks' = FALSE
    /\ UNCHANGED <<command, missing, network, pc, result, setup, pulling, effects>>

-----------------------------------------------------------------------------
(* DDCP::cleanup.                                                          *)

(* Mutant of CloseConclave: an error ends cleanup.                         *)
CloseConclaveOrExit ==
    /\ Step("close", "shutdown") \/ Step("close", "exit")
    /\ UNCHANGED <<command, missing, network, result, setup, pulling, effects, tasks>>

(* Records and routes are closed and released; an error is only logged.    *)
CloseConclave ==
    /\ Step("close", "shutdown")
    /\ UNCHANGED <<command, missing, network, result, setup, pulling, effects, tasks>>

Shutdown ==
    /\ Step("shutdown", "finalize")
    /\ veilid' = "down"
    /\ UNCHANGED <<command, missing, network, result, db, pulling, effects, tasks>>

(* crsql_finalize; an error is only logged.  The process is there until    *)
(* main returns.                                                           *)
Finalize ==
    /\ pc = "finalize" /\ db = "open"
    /\ db' = "finalized"
    /\ UNCHANGED <<command, missing, network, pc, result, veilid, pulling, effects, tasks>>

FinalizeFails ==
    /\ Step("finalize", "exit") /\ db = "open"
    /\ UNCHANGED <<command, missing, network, result, setup, pulling, effects, tasks>>

Exit ==
    /\ Step("finalize", "exit") /\ db = "finalized"
    /\ UNCHANGED <<command, missing, network, result, setup, pulling, effects, tasks>>

(* Until serve waits for it, ctrl-c kills the process.                     *)
Kill ==
    /\ pc \notin Over
    /\ command = "serve" => ~tasks /\ "interrupted" \notin effects
    /\ pc' = "killed"
    /\ UNCHANGED <<command, missing, network, result, setup, pulling, effects, tasks>>

-----------------------------------------------------------------------------

MainStep ==
    \/ DbFile \/ StateDir \/ ExtFile \/ PathsFail \/ Shell
    \/ OpenDb \/ StartVeilid \/ LoadConclave \/ NewFails
    \/ Wait \/ FirstPush
    \/ RunOperation \/ RunTrivial \/ RunUnsupported
    \/ EndPull \/ \E p \in Remotes : PullOne(p)
    \/ Serve
    \/ CloseConclave \/ Shutdown \/ Finalize \/ FinalizeFails \/ Exit

Next ==
    \/ MainStep \/ WaitFails \/ NetworkComes
    \/ Interrupt \/ InterruptFails \/ TasksEnd \/ Kill

(* main goes on when it can, and nothing makes a wait fail; a network that *)
(* is coming comes; each call returns, and the push that is repeated until *)
(* it succeeds does succeed.                                               *)
Fairness == WF_vars(MainStep) /\ WF_vars(NetworkComes)

Spec == Init /\ [][Next]_vars
FairSpec == Spec /\ Fairness

-----------------------------------------------------------------------------
(* Properties.                                                             *)

(* Commands that need only the state directory.                            *)
Local == {"remote add", "remote remove", "remote list", "remote status", "shell"}

(* An exit code of success tells the truth: the command has done all of    *)
(* its work, whatever cleanup met, and is not an unsupported one.  A       *)
(* remote that fails keeps no other from being pulled.                     *)
ExitCodeIsTrue ==
    pc = "exit" =>
        /\ result = "ok" =>
               /\ command \notin Unsupported \cup {"shell"}
               /\ command \in Operations => "operation" \in effects
               /\ command = "pull" => Remotes \subseteq effects
        /\ effects \cup errors \notin SUBSET {"operation", "interrupted"} =>
               Remotes \subseteq effects \cup errors

(* Nothing is opened before its place exists: the database and Veilid's    *)
(* stores find their directories and the extension, and so does the shell. *)
PathsAreThere == (pc \in {"shell", "exec"} \/ db # "none") => missing = {}

(* Only an error in the setup, or ctrl-c, ends a run without cleanup:      *)
(* whatever the command met, Veilid is shut down before the program exits. *)
ExitsCleanedUp ==
    [][pc # "exit" /\ pc' = "exit" =>
          veilid = "down" \/ pc \in {"dbFile", "stateDir", "extFile", "shell",
                                      "openDb", "startVeilid", "loadConclave"}]_vars

(* A command ends without the help of the network if it needs only the     *)
(* state directory, and otherwise once the network comes; serve ends after *)
(* ctrl-c.                                                                 *)
Ends ==
    /\ command \in Local \/ (command # "serve" /\ network = "coming") ~> pc \in Over
    /\ "interrupted" \in effects ~> pc \in Over
=============================================================================
