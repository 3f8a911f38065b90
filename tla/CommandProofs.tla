----------------------------- MODULE CommandProofs -----------------------------
(***************************************************************************)
(* A run of the program, for any set of remotes: its exit code tells the   *)
(* truth, its paths are there, and it is cleaned up.                       *)
(*                                                                         *)
(* The invariant says what is true at each step of main: which paths are   *)
(* there (PathsOK), what is set up (SetupOK), and what a result, once it   *)
(* is kept for the exit code, is worth (WorkOK and ResultOK).              *)
(***************************************************************************)
EXTENDS Command, TLAPS

USE EffectsAssumption

-----------------------------------------------------------------------------
(* The inductive invariant.                                                *)

OfPaths == {"dbFile", "stateDir", "extFile"}
OfNew == {"openDb", "startVeilid", "loadConclave"}
OfCleanup == {"close", "shutdown", "finalize"}
Before == OfPaths \cup OfNew \cup {"shell", "wait", "firstPush"}

PathsOK ==
    /\ pc = "extFile" => missing \subseteq {"ext"}
    /\ pc \in (Steps \ OfPaths) \cup {"exec"} => missing = {}
    /\ db # "none" => missing = {}
    /\ pc \in OfPaths => db = "none"

(* After shutdown Veilid is down; the shell gets no database.              *)
SetupOK ==
    /\ pc = "finalize" => veilid = "down"
    /\ pc \in OfNew \cup OfCleanup \cup {"wait", "firstPush", "run", "serve"} =>
          command # "shell"

(* Nothing is done before the command runs, and `pull` forgets no remote.  *)
WorkOK ==
    /\ pc \in Before \cup {"serve"} => effects = {} /\ errors = {}
    /\ pc = "run" =>
          /\ effects \subseteq Remotes
          /\ command # "pull" => effects = {} /\ errors = {}
          /\ command = "pull" => Remotes \subseteq todo \cup effects \cup errors
    /\ pc = "serve" => command = "serve"

(* What ExitCodeIsTrue asks for in the end holds from the result on.       *)
ResultOK ==
    pc \in OfCleanup \cup {"exit"} =>
        /\ result = "ok" =>
               /\ command \notin Unsupported \cup {"shell"}
               /\ command \in Operations => "operation" \in effects
               /\ command = "pull" => Remotes \subseteq effects
        /\ effects \cup errors \notin SUBSET {"operation", "interrupted"} =>
               Remotes \subseteq effects \cup errors

IInv == TypeOK /\ PathsOK /\ SetupOK /\ WorkOK /\ ResultOK

-----------------------------------------------------------------------------

(* A run begins with nothing set up or done.                               *)
LEMMA InitIInv == Init => IInv
BY DEF Init, IInv, TypeOK, PathsOK, SetupOK, WorkOK, ResultOK,
       Steps, OfPaths, OfNew, OfCleanup, Before

(* The paths and the shell.                                                *)
LEMMA PathsKeep ==
    ASSUME IInv, DbFile \/ StateDir \/ ExtFile \/ PathsFail \/ Shell
    PROVE  IInv'
<1> USE DEF IInv, Step, Abort, setup, pulling
<1>1. CASE DbFile
  BY <1>1 DEF DbFile, TypeOK, PathsOK, SetupOK, WorkOK, ResultOK,
              Steps, Over, OfPaths, OfNew, OfCleanup, Before
<1>2. CASE StateDir
  <2>1. missing' \subseteq {"ext"}
    BY <1>2 DEF StateDir, TypeOK, Paths
  <2> QED BY <1>2, <2>1 DEF StateDir, TypeOK, PathsOK, SetupOK, WorkOK, ResultOK,
              Steps, Over, OfPaths, OfNew, OfCleanup, Before
<1>3. CASE ExtFile
  BY <1>3 DEF ExtFile, TypeOK, PathsOK, SetupOK, WorkOK, ResultOK,
              Steps, Over, OfPaths, OfNew, OfCleanup, Before
<1>4. CASE PathsFail
  BY <1>4 DEF PathsFail, TypeOK, PathsOK, SetupOK, WorkOK, ResultOK,
              Steps, Over, OfPaths, OfNew, OfCleanup, Before
<1>5. CASE Shell
  BY <1>5 DEF Shell, TypeOK, PathsOK, SetupOK, WorkOK, ResultOK,
              Steps, Over, OfPaths, OfNew, OfCleanup, Before
<1> QED BY <1>1, <1>2, <1>3, <1>4, <1>5

(* DDCP::new, and waiting for the network.                                 *)
LEMMA NewKeeps ==
    ASSUME IInv,
           \/ OpenDb \/ StartVeilid \/ LoadConclave \/ NewFails
           \/ Wait \/ WaitFails \/ FirstPush \/ NetworkComes
    PROVE  IInv'
<1> USE DEF IInv, Step, Abort, Finish, setup, pulling
<1>1. CASE OpenDb \/ StartVeilid
  BY <1>1 DEF OpenDb, StartVeilid, TypeOK, PathsOK, SetupOK, WorkOK, ResultOK,
              Steps, Over, OfPaths, OfNew, OfCleanup, Before
<1>2. CASE LoadConclave
  BY <1>2 DEF LoadConclave, TypeOK, PathsOK, SetupOK, WorkOK, ResultOK,
              NeedsNetwork, Steps, Over, OfPaths, OfNew, OfCleanup, Before
<1>3. CASE NewFails
  BY <1>3 DEF NewFails, TypeOK, PathsOK, SetupOK, WorkOK, ResultOK,
              Steps, Over, OfPaths, OfNew, OfCleanup, Before
<1>4. CASE Wait \/ WaitFails \/ NetworkComes
  BY <1>4 DEF Wait, WaitFails, NetworkComes, TypeOK, PathsOK, SetupOK, WorkOK,
              ResultOK, Steps, Over, OfPaths, OfNew, OfCleanup, Before
<1>5. CASE FirstPush
  BY <1>5 DEF FirstPush, TypeOK, PathsOK, SetupOK, WorkOK, ResultOK,
              Steps, Over, OfPaths, OfNew, OfCleanup, Before
<1> QED BY <1>1, <1>2, <1>3, <1>4, <1>5

(* The command itself.                                                     *)
LEMMA RunKeeps ==
    ASSUME IInv,
           \/ RunOperation \/ RunTrivial \/ RunUnsupported
           \/ EndPull \/ \E p \in Remotes : PullOne(p)
           \/ Serve \/ Interrupt \/ InterruptFails \/ TasksEnd
    PROVE  IInv'
<1> USE DEF IInv, Step, Finish, setup, pulling
<1>1. CASE RunOperation
  <2>1. /\ pc = "run" /\ pc' = "close" /\ command \in Operations
        /\ result' \in {"ok", "error"}
        /\ result' = "ok" => effects' = effects \cup {"operation"}
        /\ effects' \in {effects, effects \cup {"operation"}}
        /\ UNCHANGED <<command, missing, network, db, veilid, todo, errors, tasks>>
    BY <1>1 DEF RunOperation
  <2>2. effects = {} /\ errors = {}
    BY <2>1 DEF WorkOK, Operations
  <2>3. TypeOK'
    BY <2>1 DEF TypeOK, Steps
  <2>4. PathsOK' /\ SetupOK' /\ WorkOK'
    BY <2>1 DEF PathsOK, SetupOK, WorkOK, Operations,
                Steps, OfPaths, OfNew, OfCleanup, Before
  <2>5. ResultOK'
    BY <2>1, <2>2 DEF ResultOK, Operations, Unsupported, OfCleanup
  <2> QED BY <2>3, <2>4, <2>5
<1>2. CASE RunTrivial \/ RunUnsupported
  BY <1>2 DEF RunTrivial, RunUnsupported, Trivial, Operations, Unsupported, TypeOK,
              PathsOK, SetupOK, WorkOK, ResultOK,
              Steps, Over, OfPaths, OfNew, OfCleanup, Before
<1>3. CASE EndPull
  BY <1>3 DEF EndPull, Operations, Unsupported, TypeOK, PathsOK, SetupOK,
              WorkOK, ResultOK, Steps, Over, OfPaths, OfNew, OfCleanup, Before
<1>4. ASSUME NEW p \in Remotes, PullOne(p) PROVE IInv'
  <2>1. /\ pc = "run" /\ command = "pull" /\ todo' = todo \ {p}
        /\ \/ effects' = effects \cup {p} /\ errors' = errors
           \/ errors' = errors \cup {p} /\ effects' = effects
        /\ UNCHANGED <<command, missing, network, pc, result, db, veilid, tasks>>
    BY <1>4 DEF PullOne
  <2>2. TypeOK'
    BY <2>1 DEF TypeOK
  <2>3. PathsOK' /\ SetupOK'
    BY <2>1 DEF PathsOK, SetupOK
  <2>4. WorkOK'
    BY <2>1 DEF WorkOK, Before, OfPaths, OfNew
  <2>5. ResultOK'
    BY <2>1 DEF ResultOK, OfCleanup
  <2> QED BY <2>2, <2>3, <2>4, <2>5
<1>5. CASE Serve
  BY <1>5 DEF Serve, TypeOK, PathsOK, SetupOK, WorkOK, ResultOK,
              Steps, Over, OfPaths, OfNew, OfCleanup, Before
<1>6. CASE Interrupt \/ InterruptFails
  BY <1>6 DEF Interrupt, InterruptFails, Operations, Unsupported, TypeOK, PathsOK,
              SetupOK, WorkOK, ResultOK,
              Steps, Over, OfPaths, OfNew, OfCleanup, Before
<1>7. CASE TasksEnd
  <2>1. /\ tasks' = FALSE
        /\ UNCHANGED <<command, missing, network, pc, result, db, veilid,
                       todo, errors, effects>>
    BY <1>7 DEF TasksEnd
  <2>2. TypeOK'
    BY <2>1 DEF TypeOK, Steps, Over
  <2>3. PathsOK' /\ SetupOK'
    BY <2>1 DEF PathsOK, SetupOK, Steps, OfPaths, OfNew, OfCleanup
  <2>4. WorkOK' /\ ResultOK'
    BY <2>1 DEF WorkOK, ResultOK, Before, OfPaths, OfNew, OfCleanup
  <2> QED BY <2>2, <2>3, <2>4
<1> QED BY <1>1, <1>2, <1>3, <1>4, <1>5, <1>6, <1>7

(* Cleanup, and a process that is killed.                                  *)
LEMMA CleanupKeeps ==
    ASSUME IInv,
           \/ CloseConclave \/ Shutdown \/ Finalize \/ FinalizeFails \/ Exit \/ Kill
    PROVE  IInv'
<1> USE DEF IInv, Step, setup, pulling
<1>1. CASE CloseConclave \/ Shutdown
  BY <1>1 DEF CloseConclave, Shutdown, TypeOK, PathsOK, SetupOK, WorkOK, ResultOK,
              Steps, Over, OfPaths, OfNew, OfCleanup, Before
<1>2. CASE Finalize
  BY <1>2 DEF Finalize, TypeOK, PathsOK, SetupOK, WorkOK, ResultOK,
              Steps, Over, OfPaths, OfNew, OfCleanup, Before
<1>3. CASE FinalizeFails \/ Exit
  BY <1>3 DEF FinalizeFails, Exit, TypeOK, PathsOK, SetupOK, WorkOK, ResultOK,
              Steps, Over, OfPaths, OfNew, OfCleanup, Before
<1>4. CASE Kill
  BY <1>4 DEF Kill, TypeOK, PathsOK, SetupOK, WorkOK, ResultOK,
              Steps, Over, OfPaths, OfNew, OfCleanup, Before
<1> QED BY <1>1, <1>2, <1>3, <1>4

(* Every step keeps the invariant.                                         *)
LEMMA NextIInv == IInv /\ [Next]_vars => IInv'
<1> SUFFICES ASSUME IInv, [Next]_vars PROVE IInv'
  OBVIOUS
<1>1. CASE UNCHANGED vars
  BY <1>1 DEF vars, setup, pulling, IInv, TypeOK, PathsOK, SetupOK, WorkOK, ResultOK
<1> QED BY <1>1, PathsKeep, NewKeeps, RunKeeps, CleanupKeeps DEF Next, MainStep

(* The invariant holds in every reachable state.                           *)
LEMMA Invariance == Spec => []IInv
BY InitIInv, NextIInv, PTL DEF Spec

-----------------------------------------------------------------------------

(* Every variable keeps its type.                                          *)
THEOREM TypeCorrect == Spec => []TypeOK
<1>1. IInv => TypeOK
  BY DEF IInv
<1> QED BY <1>1, Invariance, PTL

(* Without error all of the command's work is done, for any number of      *)
(* remotes and whatever failed on the way (main, DDCP::pull).              *)
THEOREM TruthfulExit == Spec => []ExitCodeIsTrue
<1>1. IInv => ExitCodeIsTrue
  BY DEF IInv, ResultOK, ExitCodeIsTrue
<1> QED BY <1>1, Invariance, PTL

(* The paths are made before they are used (Cli::db_file, state_dir and    *)
(* ext_file).                                                              *)
THEOREM PathsMade == Spec => []PathsAreThere
<1>1. IInv => PathsAreThere
  BY DEF IInv, PathsOK, PathsAreThere, Steps, OfPaths
<1> QED BY <1>1, Invariance, PTL

(* Whatever the command met, Veilid is shut down before the program exits  *)
(* (DDCP::cleanup), errors of the setup excepted.                          *)
THEOREM CleanedUp == Spec => ExitsCleanedUp
<1> DEFINE Clean == pc # "exit" /\ pc' = "exit" =>
                       veilid = "down" \/ pc \in OfPaths \cup OfNew \cup {"shell"}
<1>1. ASSUME IInv, [Next]_vars PROVE Clean
  <2> SUFFICES ASSUME pc # "exit", pc' = "exit"
               PROVE  veilid = "down" \/ pc \in OfPaths \cup OfNew \cup {"shell"}
    OBVIOUS
  <2>1. CASE PathsFail \/ Shell \/ NewFails
    BY <2>1 DEF PathsFail, Shell, NewFails, Abort, Step, OfPaths, OfNew
  <2>2. CASE FinalizeFails \/ Exit
    BY <1>1, <2>2 DEF FinalizeFails, Exit, Step, IInv, SetupOK
  <2>3. CASE \/ DbFile \/ StateDir \/ ExtFile \/ OpenDb \/ StartVeilid \/ LoadConclave
             \/ Wait \/ WaitFails \/ FirstPush \/ NetworkComes
    BY <2>3 DEF DbFile, StateDir, ExtFile, OpenDb, StartVeilid, LoadConclave,
                Wait, WaitFails, FirstPush, NetworkComes, Step, Finish
  <2>4. CASE \/ RunOperation \/ RunTrivial \/ RunUnsupported \/ EndPull
             \/ \E p \in Remotes : PullOne(p)
             \/ Serve \/ Interrupt \/ InterruptFails \/ TasksEnd
    BY <2>4 DEF RunOperation, RunTrivial, RunUnsupported, EndPull, PullOne,
                Serve, Interrupt, InterruptFails, TasksEnd, Step, Finish
  <2>5. CASE CloseConclave \/ Shutdown \/ Finalize \/ Kill \/ UNCHANGED vars
    BY <2>5 DEF CloseConclave, Shutdown, Finalize, Kill, vars, Step
  <2> QED BY <1>1, <2>1, <2>2, <2>3, <2>4, <2>5 DEF Next, MainStep
<1>2. IInv /\ [Next]_vars =>
         [pc # "exit" /\ pc' = "exit" =>
             veilid = "down" \/ pc \in {"dbFile", "stateDir", "extFile", "shell",
                                         "openDb", "startVeilid", "loadConclave"}]_vars
  BY <1>1 DEF OfPaths, OfNew
<1> QED BY <1>2, Invariance, PTL DEF Spec, ExitsCleanedUp
=============================================================================
