--------------------------- MODULE NativeRegistry ---------------------------
(***************************************************************************)
(* The connection registry of the native addon (lib/chdb_node.cpp).        *)
(*                                                                         *)
(* One process binds one data directory: every live connection was opened  *)
(* under the bound key, except that the lazily opened in-memory default    *)
(* connection (key "") yields to the first session.  Registry changes run  *)
(* on the event loop; calls run on libuv threads and hold a ConnGuard, so  *)
(* the in-flight count of a connection is the number of workers on it.     *)
(*                                                                         *)
(* A connection is a handle, the address chdb_connect returned.  Which     *)
(* address that is does not matter, only that it is a free one: the model  *)
(* hands a closed address out again at once, which is the worst case for   *)
(* a handle somebody kept.  libchdb is external: chdb_connect succeeds or  *)
(* fails, and a call runs for as long as it likes.                         *)
(*                                                                         *)
(* Not modelled: Arrow tables pinned on a connection, embedded NUL bytes   *)
(* in arguments, and worker_threads environments (see WorkerThreads).      *)
(***************************************************************************)
EXTENDS FiniteSets, Naturals, Sequences

CONSTANTS
    Conns,      \* the addresses chdb_connect may return
    NoConn,     \* a null handle
    InMemory,   \* the key "" of the default connection, and of no binding
    Workers     \* the asynchronous calls: each runs on one libuv thread

ASSUME RegistryAssumption == NoConn \notin Conns

VARIABLES
    conns,        \* g_reg.conns
    keyOf,        \* the directory a connection was opened on
    boundKey,     \* g_reg.boundKey
    defaultConn,  \* g_reg.defaultConn
    worker        \* the connection a worker is executing on

registry == <<conns, keyOf, boundKey, defaultConn>>

\* inflight_locked: some ConnGuard retains the connection.
InFlight(c) == \E w \in Workers : worker[w] = c

RegistryInit ==
    /\ conns = {}
    /\ keyOf = [c \in Conns |-> InMemory]
    /\ boundKey = InMemory
    /\ defaultConn = NoConn
    /\ worker = [w \in Workers |-> NoConn]

-----------------------------------------------------------------------------
\* An address that is not in use beside the connections kept.
Fresh(kept) == CHOOSE c \in Conns \ kept : TRUE

\* keyOf without the closed connections.
KeysOf(kept) == [c \in Conns |-> IF c \in kept THEN keyOf[c] ELSE InMemory]

\* open_raw on key k, beside the connections kept.
OpenRaw(kept, k) ==
    /\ Conns \ kept # {}
    /\ conns' = kept \cup {Fresh(kept)}
    /\ keyOf' = [KeysOf(kept) EXCEPT ![Fresh(kept)] = k]
    /\ boundKey' = k

\* get_default_conn, when it has to open the connection.
OpenDefault ==
    /\ defaultConn = NoConn
    /\ conns = {}
    /\ OpenRaw({}, InMemory)
    /\ defaultConn' = Fresh({})

\* The eviction at the head of acquire_session_conn: the in-memory default
\* yields, unless a thread is still executing on it.
Evicts == conns # {} /\ boundKey = InMemory /\ defaultConn # NoConn

\* Mutant of MayBind: any directory may be bound beside the bound one.
MayBindAnother(k) ==
    defaultConn # NoConn => ~ InFlight(defaultConn)

MayBind(k) ==
    \/ conns = {}
    \/ boundKey = InMemory /\ (defaultConn # NoConn => ~ InFlight(defaultConn))
    \/ boundKey # InMemory /\ boundKey = k

Kept == IF Evicts THEN conns \ {defaultConn} ELSE conns

\* acquire_session_conn: another independent connection to the bound
\* directory, or the first one.
AcquireSession(k) ==
    /\ MayBind(k)
    /\ OpenRaw(Kept, k)
    /\ defaultConn' = IF Evicts THEN NoConn ELSE defaultConn

\* acquire_session_conn when chdb_connect fails: the default has gone, and the
\* bound key is left as it was.
AcquireFails(k) ==
    /\ MayBind(k)
    /\ conns' = Kept
    /\ keyOf' = KeysOf(Kept)
    /\ defaultConn' = IF Evicts THEN NoConn ELSE defaultConn
    /\ UNCHANGED boundKey

\* Closing the connections of a set: the last one out unbinds the directory.
CloseAllOf(cs) ==
    /\ conns' = conns \ cs
    /\ defaultConn' = IF defaultConn \in cs THEN NoConn ELSE defaultConn
    /\ keyOf' = KeysOf(conns \ cs)
    /\ boundKey' = IF conns \subseteq cs THEN InMemory ELSE boundKey

\* release_session_conn: an unknown handle is ignored, and the in-flight count
\* is not consulted -- keeping off a busy handle is left to the callers.
ReleaseSession(c) ==
    IF c \in conns THEN CloseAllOf({c}) ELSE UNCHANGED registry

\* ExitTeardownWrapper, once the connections `released` are closed: the loop
\* stops at the first connection a thread is on, wherever in the set that is,
\* and leaves what remains to the atexit backstop.
ExitTeardown(released) ==
    LET left == conns \ released
    IN \E idle \in SUBSET {c \in left : ~ InFlight(c)} :
          /\ (\A c \in left : ~ InFlight(c)) => idle = left
          /\ CloseAllOf(released \cup idle)

\* hard_close_all: everything, busy or not.  The backstop runs it after the
\* libuv threads were joined.
HardCloseAll == CloseAllOf(conns)

-----------------------------------------------------------------------------
\* An AsyncWorker is queued on a connection, and its promise settles: the guard
\* is taken in the constructor and dropped with the worker.
Dispatch(w, c) == worker' = [worker EXCEPT ![w] = c]

Retire(w) == worker' = [worker EXCEPT ![w] = NoConn]

-----------------------------------------------------------------------------
RegistryType ==
    /\ conns \subseteq Conns
    /\ DOMAIN keyOf = Conns
    /\ defaultConn \in Conns \cup {NoConn}
    /\ worker \in [Workers -> Conns \cup {NoConn}]

\* A connection is never closed while a libuv thread is inside libchdb on it:
\* the engine would abort for the rest of the process (chdb_node.cpp:127-131,
\* index.js:207-215).
ClosedIdle == \A c \in conns \ conns' : ~ InFlight(c)

\* libchdb binds one data directory per process: every live connection is on
\* the directory the registry has recorded as bound.
OneDirectory == \A c \in conns : keyOf[c] = boundKey
=============================================================================
