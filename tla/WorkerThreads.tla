--------------------------- MODULE WorkerThreads ---------------------------
(***************************************************************************)
(* A second JavaScript environment in the process of module Process: a     *)
(* worker_threads Worker that has loaded the addon.  It shares the         *)
(* registry with the main thread.  Its JavaScript is not modelled beyond   *)
(* loading the addon and ending: ending is enough.                         *)
(*                                                                         *)
(* An exit of the process while the Worker is loaded is left out:          *)
(* ExitTeardownWrapper then closes nothing.                                *)
(***************************************************************************)
EXTENDS Process

VARIABLE worker_env     \* the Worker has loaded the addon (g_live_envs = 2)

allVars == <<vars, worker_env>>

WInit == ProcessInit /\ worker_env = FALSE

\* Init counts the environment in and adds its cleanup hook.
WorkerLoads ==
    /\ ~ worker_env /\ ~ exited
    /\ worker_env' = TRUE
    /\ UNCHANGED vars

\* The hook, when the Worker ends: hard_close_all, on the registry of the whole
\* process.
WorkerEnds ==
    /\ worker_env
    /\ worker_env' = FALSE
    /\ HardCloseAll
    /\ UNCHANGED <<worker, sessionVars, callVars, streamVars, disk, exited,
                   processVars>>

MainThread ==
    /\ ProcessNext
    /\ worker_env => ~ exited'
    /\ UNCHANGED worker_env

WSpec == WInit /\ [][MainThread \/ WorkerLoads \/ WorkerEnds]_allVars

\* A Worker that ends closes none of the main thread's connections
\* (index.js:582-584).
WorkerLeavesConnections ==
    [][worker_env /\ ~ worker_env' => conns \subseteq conns']_allVars
=============================================================================
