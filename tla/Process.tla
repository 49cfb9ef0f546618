------------------------------ MODULE Process -------------------------------
(***************************************************************************)
(* One Node process: the addon's registry and the three clients of it that *)
(* share its one data directory and its libuv threads,                     *)
(*   - Layer 1 sessions, calls and streams            (module Sessions),   *)
(*   - ChdbConnections on the shared :memory: directory                    *)
(*     (src/connection/chdb-connection.ts),                                *)
(*   - the engine of a durable object                                      *)
(*     (src/durable/adapters/chdb-node.ts), which reaches the addon        *)
(*     directly: its calls are not in pendingNativeOps and its close waits *)
(*     for its own in-flight set.                                          *)
(*                                                                         *)
(* A ChdbConnection owns one session, so it is named by the session's      *)
(* slot, and it is the only one to close that session.  A ChdbConnection   *)
(* on a path of its own adds nothing to its session and is not told apart  *)
(* from it.  One engine is open at a time; the engine adapter is used as   *)
(* DurableObject uses it.                                                  *)
(***************************************************************************)
EXTENDS Sessions

CONSTANTS
    MemDirs,      \* names mkdtemp gives the shared :memory: directory
    EngineCalls,  \* calls of the durable engine adapter
    EngineDir     \* the data path a durable object starts its engine on

ASSUME ProcessAssumption ==
    /\ EngineCalls = Workers \ (Calls \cup Streams)
    /\ MemDirs \cap (Dirs \cup Slots \cup {InMemory, EngineDir}) = {}
    /\ EngineDir \notin Slots \cup {InMemory}

NoDir == InMemory   \* memoryDir === null

VARIABLES
    memoryDir, memoryRefs,   \* the shared directory and its reference count
    eng, engConn             \* the engine: "none", "open" or "closing"

processVars == <<memoryDir, memoryRefs, eng, engConn>>
vars == <<layer1Vars, processVars>>

ProcessInit ==
    /\ Init
    /\ memoryDir = NoDir
    /\ memoryRefs = 0
    /\ eng = "none"
    /\ engConn = NoConn

-----------------------------------------------------------------------------
(* ChdbConnection *)

InShared(s) == sess[s] # "none" /\ dir[s] \in MemDirs

\* acquireMemoryDir: the directory there is, or a fresh one.
SharedDir(m) ==
    IF memoryDir # NoDir THEN m = memoryDir
    ELSE m \notin disk /\ \A s \in Slots : sess[s] # "none" => dir[s] # m

\* The constructor on ":memory:".
MemoryOpen(s) ==
    \E m \in MemDirs :
        /\ SharedDir(m)
        /\ Open(s, m)
        /\ memoryDir' = m
        /\ memoryRefs' = memoryRefs + 1
        /\ UNCHANGED <<eng, engConn>>

\* The constructor when its session cannot open: refused, or the addon could
\* not connect.  The reference is given back, and with the last one the
\* directory just made goes again.
MemoryOpenFails(s) ==
    /\ \E m \in MemDirs : SharedDir(m) /\ OpenFails(s, m)
    /\ UNCHANGED processVars

\* Mutant of LastOut: off by one.
LastButOneOut == memoryRefs <= 2

\* close(): the session, then releaseMemoryDir -- in the same step, whether or
\* not the session's teardown was deferred.
LastOut == memoryRefs = 1

MemoryClose(s) ==
    /\ InShared(s)
    /\ Close(s, IF LastOut THEN {memoryDir} ELSE {})
    /\ memoryRefs' = memoryRefs - 1
    /\ memoryDir' = IF LastOut THEN NoDir ELSE memoryDir
    /\ UNCHANGED <<eng, engConn>>

MemoryNext ==
    \E s \in Slots : MemoryOpen(s) \/ MemoryOpenFails(s) \/ MemoryClose(s)

-----------------------------------------------------------------------------
(* ChdbNodeEngine *)

engineUnchanged ==
    <<sessionVars, callVars, streamVars, disk, exited, memoryDir, memoryRefs>>

\* start(): the connection is asked of the addon with nothing checked before.
EngineStart ==
    /\ eng = "none" /\ ~ exited
    /\ \/ /\ AcquireSession(EngineDir)
          /\ engConn' = Fresh(Kept)
          /\ eng' = "open"
       \/ AcquireFails(EngineDir) /\ UNCHANGED <<eng, engConn>>
    /\ UNCHANGED <<worker, engineUnchanged>>

\* track(): a statement, a classification, a backup or a restore.
EngineCall(e) ==
    /\ eng = "open" /\ worker[e] = NoConn /\ ~ exited
    /\ Dispatch(e, engConn)
    /\ UNCHANGED <<registry, eng, engConn, engineUnchanged>>

EngineCallSettles(e) ==
    /\ worker[e] # NoConn
    /\ Retire(e)
    /\ UNCHANGED <<registry, eng, engConn, engineUnchanged>>

\* close() sets `closed` at once: handle() refuses from here on.
EngineClose ==
    /\ eng = "open" /\ ~ exited
    /\ eng' = "closing"
    /\ UNCHANGED <<registry, worker, engConn, engineUnchanged>>

\* releaseConnection, when its loop finds the in-flight set empty.
EngineRelease ==
    /\ eng = "closing" /\ ~ exited
    /\ \A e \in EngineCalls : worker[e] = NoConn
    /\ ReleaseSession(engConn)
    /\ eng' = "none"
    /\ engConn' = NoConn
    /\ UNCHANGED <<worker, engineUnchanged>>

EngineNext ==
    \/ EngineStart \/ EngineClose \/ EngineRelease
    \/ \E e \in EngineCalls : EngineCall(e) \/ EngineCallSettles(e)

-----------------------------------------------------------------------------
\* A session its user made, and a teardown of any.
SessionNext ==
    \E s \in Slots :
        \/ OpenNext(s)
        \/ ~ InShared(s) /\ Close(s, {})
        \/ DeferredTeardown(s)

Layer1Next == CallNext \/ StreamNext \/ SessionNext \/ Exit \/ AtExit

ProcessNext ==
    \/ Layer1Next /\ UNCHANGED processVars
    \/ MemoryNext
    \/ EngineNext

\* libchdb's calls end, and the event loop runs the reactions of promises that
\* have settled.  Whether a user opens, closes, calls or exits is up to them.
Fairness ==
    /\ \A c \in Calls :
          /\ WF_vars(CallSettles(c) /\ UNCHANGED processVars)
          /\ WF_vars((ParamTurn(c) \/ ParamRefused(c)) /\ UNCHANGED processVars)
    /\ \A t \in Streams :
          /\ WF_vars(FetchSettles(t) /\ UNCHANGED processVars)
          /\ WF_vars(DeferredCancel(t) /\ UNCHANGED processVars)
    /\ \A s \in Slots : WF_vars(DeferredTeardown(s) /\ UNCHANGED processVars)

Spec == ProcessInit /\ [][ProcessNext]_vars
FairSpec == Spec /\ Fairness
-----------------------------------------------------------------------------
(* Properties *)

\* The modules' variables have their types, and the addresses the clients hold
\* are live ones of their own while the process runs.
TypeOK ==
    /\ RegistryType
    /\ sess \in [Slots -> {"none", "open", "closing"}]
    /\ call \in [Calls -> {"idle", "queued", "running", "settled"}]
    /\ owner \in [Calls -> Slots \cup {Default}]
    /\ param \subseteq Calls /\ answered \subseteq Calls
    /\ chain \in Seq(Calls)
    /\ streamOf \in [Streams -> Slots \cup {NoSession}]
    /\ cursor \in [Streams -> Conns \cup {NoConn}]
    /\ fetch \in [Streams -> {"no", "running", "settled"}]
    /\ cancelDue \subseteq Streams
    /\ memoryRefs \in Nat
    /\ exited \in BOOLEAN

\* No connection is closed under a running call, whichever client closes it:
\* a session's close over its own operations, a deferred teardown, the eviction
\* of the default, the engine's release or the process's exit.
NoCloseUnderCall == [][ClosedIdle]_vars

\* A live stream handle points into a live connection: close() orders the
\* stream's destroy before the connection's.
StreamWithinConnection ==
    ~ exited => \A t \in Streams : cursor[t] \in conns \cup {NoConn}

\* A stream handle is never destroyed from the event loop while a fetch is
\* executing on it: only its own worker may finish it.
NoFreeUnderFetch ==
    [][\A t \in Streams :
          fetch[t] = "running" /\ cursor'[t] # cursor[t] => fetch'[t] = "settled"]_vars

\* When drainPending returns, no call or fetch is on a thread, no stream handle
\* is left that JavaScript has closed, and every connection still open belongs
\* to an open session, to the durable engine or to standalone calls: none of
\* those a new Session() could be refused for is on its way out.
DrainMeansIdle ==
    Drained /\ ~ exited =>
        /\ \A w \in Calls \cup Streams : worker[w] = NoConn
        /\ \A t \in Streams : streamOf[t] = NoSession => cursor[t] = NoConn
        /\ conns \ {defaultConn, engConn} = {handle[s] : s \in {x \in Slots : sess[x] = "open"}}

\* Of the parameterised calls that go through globalParamChain, standalone and
\* of every session, at most one is inside libchdb at any time, on whatever
\* connections they are and however many of their callers were answered early.
\* The synchronous ones do not go through it: see SyncCalls.
ChainedParamsExclusive ==
    \A c, d \in param :
        worker[c] # NoConn /\ worker[d] # NoConn => c = d

\* A queued call whose caller has been told "aborted" or "timed out" is never
\* handed to libchdb.
NoSideEffectAfterAnswer ==
    [][\A c \in answered : call[c] = "queued" => worker'[c] = NoConn]_vars

\* A temporary directory is there for as long as a connection is on it, and no
\* longer: none is leaked by a constructor that fails or a close.
TempDirs ==
    ~ exited =>
        /\ \A c \in conns : keyOf[c] \in Slots => keyOf[c] \in disk
        /\ disk \cap Slots = {s \in Slots : sess[s] # "none" /\ dir[s] = s}

\* The shared directory exists while a ChdbConnection on it is open, they all
\* share it, and the last one to close removes it.
SharedMemory ==
    ~ exited =>
        /\ \A s \in Slots : sess[s] = "open" /\ dir[s] \in MemDirs => dir[s] = memoryDir
        /\ disk \cap MemDirs = {memoryDir} \ {NoDir}
        /\ memoryDir # NoDir => \E s \in Slots : sess[s] = "open" /\ dir[s] = memoryDir

\* Both of the above: every directory the library makes is there for as long as
\* a client is on it, and goes with the last one.
ScratchDirs == TempDirs /\ SharedMemory

\* What is waited for is still to come, and nobody waits for a waiter of theirs:
\* a deferred teardown waits for calls and fetches that have not settled, for
\* destroys that are due and for teardowns of sessions that closed before it; a
\* call not on a thread is on the chain, whose first is on one or has its turn.
\* So no wake-up is lost and no two sessions wait for each other, however calls,
\* streams and closes of several sessions are interleaved.
NobodyWaitsInVain ==
    ~ exited =>
        /\ \A s \in Closing :
              /\ waitOps[s] \subseteq Unsettled
              /\ waitCancels[s] \subseteq cancelDue
              /\ waitCloses[s] \subseteq Closing
        /\ \A S \in (SUBSET Closing) \ {{}} : \E s \in S : waitCloses[s] \cap S = {}
        /\ \A w \in Unsettled : worker[w] = NoConn => \E i \in DOMAIN chain : chain[i] = w
        /\ chain # <<>> => worker[Head(chain)] # NoConn \/ HasTurn(Head(chain))

\* A closed session's connection is released in the end, unless the process
\* exits first.
CloseCompletes ==
    \A s \in Slots : sess[s] = "closing" ~> sess[s] # "closing" \/ exited

\* Every parameterised call gets its turn and its answer.
ParamAnswered ==
    \A c \in Calls : call[c] = "queued" ~> call[c] \in {"settled", "idle"} \/ exited
=============================================================================
