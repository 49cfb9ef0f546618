------------------------------ MODULE Sessions ------------------------------
(***************************************************************************)
(* Layer 1 of chdb-node (index.js): sessions, standalone and session       *)
(* calls, the process-wide chain of parameterised queries, and streams.    *)
(*                                                                         *)
(* libchdb cannot interrupt a call, so JavaScript promises and native      *)
(* calls part ways: an abort or a timeout answers the caller while the     *)
(* call runs on, and close() returns before the connection is gone.  What  *)
(* keeps the two together is pendingNativeOps, a set of promises that      *)
(* settle on NATIVE completion:                                            *)
(*   - one per call and per stream fetch,                                  *)
(*   - one per stream whose cancel had to wait for a fetch,                *)
(*   - one per session whose teardown had to wait.                         *)
(* A settled entry leaves the set one microtask later, so it may still be  *)
(* there when user code runs: calls and fetches have a "settled" phase.    *)
(*                                                                         *)
(* A session that closes over a non-empty set defers its teardown behind   *)
(* the entries it saw (Promise.allSettled of a snapshot), kept here as the *)
(* ones that have not settled yet: waitOps, waitCancels, waitCloses.       *)
(*                                                                         *)
(* A slot stands for one Session object at a time, a call and a stream     *)
(* likewise; each is used again once its object is finished with.  A       *)
(* session on a temporary directory has its own slot as the key, mkdtemp   *)
(* making that name unique.  A synchronous call runs on the event loop:    *)
(* no JavaScript runs beside it, and all it leaves behind is the default   *)
(* connection, as an asynchronous call that has settled does, so it is not *)
(* an action here.  Those with parameters do meet the calls on threads:    *)
(* module SyncCalls.  A stream has one iterator.                           *)
(***************************************************************************)
EXTENDS NativeRegistry

CONSTANTS
    Slots,      \* session objects
    Calls,      \* queryAsync, queryBindAsync and insert calls
    Streams,    \* stream objects
    Dirs,       \* named data directories
    Default,    \* the owner of a standalone call
    NoSession   \* what a closed stream is active on

ASSUME SessionsAssumption ==
    /\ Calls \cup Streams \subseteq Workers
    /\ Calls \cap Streams = {}
    /\ Default \notin Slots /\ NoSession \notin Slots
    /\ InMemory \notin Dirs \cup Slots
    /\ Dirs \cap Slots = {}

VARIABLES
    sess,         \* "none", "open", or "closing": closed, its teardown deferred
    dir,          \* _key, the session's directory
    handle,       \* the connection close() will release
    waitOps, waitCancels, waitCloses,   \* unsettled entries a teardown awaits
    call,         \* "idle", "queued" on the chain, "running", "settled"
    owner,        \* the session a call is on, or Default
    param,        \* the calls that carry parameters
    answered,     \* calls whose caller already saw an abort or a timeout
    chain,        \* globalParamChain: the calls that have not settled
    streamOf,     \* the session a stream is active on, until JavaScript closes it
    cursor,       \* the connection of a live native stream handle
    fetch,        \* "no", "running" on a thread, or "settled"
    cancelDue,    \* streams whose destroy waits for their fetch
    disk,         \* removable directories that exist
    exited        \* the process's exit event has been handled

sessionVars == <<sess, dir, handle, waitOps, waitCancels, waitCloses>>
callVars    == <<call, owner, param, answered, chain>>
streamVars  == <<streamOf, cursor, fetch, cancelDue>>
layer1Vars  == <<registry, worker, sessionVars, callVars, streamVars, disk, exited>>

Init ==
    /\ RegistryInit
    /\ sess = [s \in Slots |-> "none"]
    /\ dir = [s \in Slots |-> InMemory]
    /\ handle = [s \in Slots |-> NoConn]
    /\ waitOps = [s \in Slots |-> {}]
    /\ waitCancels = [s \in Slots |-> {}]
    /\ waitCloses = [s \in Slots |-> {}]
    /\ call = [c \in Calls |-> "idle"]
    /\ owner = [c \in Calls |-> Default]
    /\ param = {}
    /\ answered = {}
    /\ chain = <<>>
    /\ streamOf = [t \in Streams |-> NoSession]
    /\ cursor = [t \in Streams |-> NoConn]
    /\ fetch = [t \in Streams |-> "no"]
    /\ cancelDue = {}
    /\ disk = {}
    /\ exited = FALSE

-----------------------------------------------------------------------------
\* The bookkeeping of index.js, derived from the calls themselves.

\* pendingNativeOps: trackNative's entries, the deferred cancels and the
\* deferred teardowns.
\* Mutant of TrackedOps: stream fetches are not tracked.
TrackedCalls == {c \in Calls : call[c] # "idle"}

TrackedOps ==
    {c \in Calls : call[c] # "idle"} \cup {t \in Streams : fetch[t] # "no"}
Closing == {s \in Slots : sess[s] = "closing"}

\* Mutant of Drained: a cancel that waits for its fetch is not registered.
DrainedButCancels == TrackedOps = {} /\ Closing = {}

\* drainPending's test; its loop returns only when this holds.
Drained == TrackedOps = {} /\ cancelDue = {} /\ Closing = {}

\* pendingDefaultOps: released by a handler that runs before any caller's.
PendingDefaultOps == {c \in Calls : owner[c] = Default /\ call[c] = "running"}

\* pendingTeardownPaths
PendingTeardownPaths == {dir[s] : s \in Closing}

Unsettled ==
    {c \in Calls : call[c] \in {"queued", "running"}}
        \cup {t \in Streams : fetch[t] = "running"}

\* A promise settles: the deferred teardowns that awaited it do so no more.
Without(waits, x) == [s \in Slots |-> waits[s] \ {x}]

-----------------------------------------------------------------------------
(* Sessions *)

Removable(k) == k \notin Dirs

\* The constructor's refusals, before the addon is asked.
MayOpen(k) ==
    /\ PendingDefaultOps = {}
    /\ PendingTeardownPaths \subseteq {k}

\* The constructor.  A temporary directory is made first.
Open(s, k) ==
    /\ sess[s] = "none" /\ ~ exited
    /\ MayOpen(k)
    /\ AcquireSession(k)
    /\ sess' = [sess EXCEPT ![s] = "open"]
    /\ dir' = [dir EXCEPT ![s] = k]
    /\ handle' = [handle EXCEPT ![s] = Fresh(Kept)]
    /\ disk' = IF Removable(k) THEN disk \cup {k} ELSE disk
    /\ UNCHANGED <<worker, waitOps, waitCancels, waitCloses, callVars,
                   streamVars, exited>>

\* Mutant of OpenFails: the temporary directory is left behind.
OpenFailsLeaks(s, k) ==
    /\ sess[s] = "none" /\ ~ exited
    /\ MayOpen(k)
    /\ AcquireFails(k)
    /\ disk' = IF Removable(k) THEN disk \cup {k} ELSE disk
    /\ UNCHANGED <<worker, sessionVars, callVars, streamVars, exited>>

\* The constructor when the addon cannot connect: the temporary directory it
\* made is removed again.
OpenFails(s, k) ==
    /\ sess[s] = "none" /\ ~ exited
    /\ MayOpen(k)
    /\ AcquireFails(k)
    /\ UNCHANGED <<worker, sessionVars, callVars, streamVars, disk, exited>>

\* Mutant of Cancel: the handle is destroyed under its fetch.
CancelAtOnce(ts) ==
    /\ streamOf' = [t \in Streams |-> IF t \in ts THEN NoSession ELSE streamOf[t]]
    /\ cursor' = [t \in Streams |-> IF t \in ts THEN NoConn ELSE cursor[t]]
    /\ UNCHANGED <<cancelDue, fetch>>

\* ChdbQueryStream.cancel on open streams ts: the native handle is destroyed at
\* once, or after the fetch a thread is executing on it.
Cancel(ts) ==
    LET wait == {t \in ts : fetch[t] # "no"}
    IN /\ streamOf' = [t \in Streams |-> IF t \in ts THEN NoSession ELSE streamOf[t]]
       /\ cursor' = [t \in Streams |->
                        IF t \in ts \ wait THEN NoConn ELSE cursor[t]]
       /\ cancelDue' = cancelDue \cup wait
       /\ UNCHANGED fetch

ActiveStream(s) == {t \in Streams : streamOf[t] = s}

\* The teardown of a session: its connection, then its temporary directory.
\* `also` are directories the caller removes in the same step.
Teardown(s, also) ==
    /\ sess' = [sess EXCEPT ![s] = "none"]
    /\ handle' = [handle EXCEPT ![s] = NoConn]
    /\ ReleaseSession(handle[s])
    /\ disk' = disk \ (also \cup {k \in {dir[s]} : k = s})
    /\ dir' = [dir EXCEPT ![s] = InMemory]

\* close() with nothing pending.
CloseNow(s, also) ==
    /\ sess[s] = "open" /\ ~ exited
    /\ Drained
    /\ Cancel(ActiveStream(s))
    /\ Teardown(s, also)
    /\ UNCHANGED <<worker, waitOps, waitCancels, waitCloses, callVars, exited>>

\* Mutant of CloseDeferred: the snapshot is taken before the stream's cancel.
CloseDeferredEarly(s, also) ==
    /\ sess[s] = "open" /\ ~ exited
    /\ ~ Drained
    /\ Cancel(ActiveStream(s))
    /\ sess' = [sess EXCEPT ![s] = "closing"]
    /\ waitOps' = [waitOps EXCEPT ![s] = Unsettled]
    /\ waitCancels' = [waitCancels EXCEPT ![s] = cancelDue]
    /\ waitCloses' = [waitCloses EXCEPT ![s] = Closing]
    /\ disk' = disk \ also
    /\ UNCHANGED <<registry, worker, dir, handle, callVars, exited>>

\* Mutant of CloseDeferred: the teardown is registered before the snapshot.
CloseDeferredOnItself(s, also) ==
    /\ sess[s] = "open" /\ ~ exited
    /\ ~ Drained
    /\ Cancel(ActiveStream(s))
    /\ sess' = [sess EXCEPT ![s] = "closing"]
    /\ waitOps' = [waitOps EXCEPT ![s] = Unsettled]
    /\ waitCancels' = [waitCancels EXCEPT ![s] = cancelDue']
    /\ waitCloses' = [waitCloses EXCEPT ![s] = Closing \cup {s}]
    /\ disk' = disk \ also
    /\ UNCHANGED <<registry, worker, dir, handle, callVars, exited>>

\* close() over pending operations: the active stream is cancelled first, so
\* the snapshot holds its deferred destroy.
CloseDeferred(s, also) ==
    /\ sess[s] = "open" /\ ~ exited
    /\ ~ Drained
    /\ Cancel(ActiveStream(s))
    /\ sess' = [sess EXCEPT ![s] = "closing"]
    /\ waitOps' = [waitOps EXCEPT ![s] = Unsettled]
    /\ waitCancels' = [waitCancels EXCEPT ![s] = cancelDue']
    /\ waitCloses' = [waitCloses EXCEPT ![s] = Closing]
    /\ disk' = disk \ also
    /\ UNCHANGED <<registry, worker, dir, handle, callVars, exited>>

Close(s, also) == CloseNow(s, also) \/ CloseDeferred(s, also)

\* The deferred teardown: everything in the snapshot has settled.
DeferredTeardown(s) ==
    /\ sess[s] = "closing" /\ ~ exited
    /\ waitOps[s] = {} /\ waitCancels[s] = {} /\ waitCloses[s] = {}
    /\ Teardown(s, {})
    /\ waitCloses' = Without(waitCloses, s)
    /\ UNCHANGED <<worker, waitOps, waitCancels, callVars, streamVars, exited>>

-----------------------------------------------------------------------------
(* Calls *)

\* The connection a call is dispatched on: the session's own, or the default.
Target(o) == IF o = Default THEN defaultConn ELSE handle[o]

Usable(o) == o \in Slots => sess[o] = "open"

\* A call reaches the addon.  A standalone one opens the default connection
\* when nothing is bound; it is refused while a session is.
Runs(c, o) ==
    /\ Usable(o)
    /\ \/ /\ Target(o) # NoConn
          /\ Dispatch(c, Target(o))
          /\ UNCHANGED registry
       \/ /\ o = Default
          /\ OpenDefault
          /\ Dispatch(c, Fresh({}))
    /\ call' = [call EXCEPT ![c] = "running"]

\* queryAsync or insert.
StartCall(c, o) ==
    /\ call[c] = "idle" /\ ~ exited
    /\ Runs(c, o)
    /\ owner' = [owner EXCEPT ![c] = o]
    /\ UNCHANGED <<param, answered, chain, sessionVars, streamVars, disk, exited>>

\* queryBindAsync: runExclusiveParam puts the call on the chain.
QueueParam(c, o) ==
    /\ call[c] = "idle" /\ ~ exited
    /\ Usable(o)
    /\ call' = [call EXCEPT ![c] = "queued"]
    /\ owner' = [owner EXCEPT ![c] = o]
    /\ param' = param \cup {c}
    /\ chain' = Append(chain, c)
    /\ UNCHANGED <<registry, worker, answered, sessionVars, streamVars, disk,
                   exited>>

\* Mutant of AnswerEarly: the chain advances when the caller is answered.
AnswerEarlyOffChain(c) ==
    /\ call[c] \in {"queued", "running"} /\ c \notin answered /\ ~ exited
    /\ answered' = answered \cup {c}
    /\ chain' = SelectSeq(chain, LAMBDA d : d # c)
    /\ UNCHANGED <<registry, worker, call, owner, param, sessionVars,
                   streamVars, disk, exited>>

\* withAbortTimeout rejects the caller's promise.  Nothing below the promise
\* changes: a running call runs on, and keeps its place on the chain.
AnswerEarly(c) ==
    /\ call[c] \in {"queued", "running"} /\ c \notin answered /\ ~ exited
    /\ answered' = answered \cup {c}
    /\ UNCHANGED <<registry, worker, call, owner, param, chain, sessionVars,
                   streamVars, disk, exited>>

\* A queued call is next when the call before it on the chain has settled.
HasTurn(c) == chain # <<>> /\ Head(chain) = c /\ call[c] = "queued"

\* Mutant of ParamTurn: the caller's cancellation is not looked at again.
ParamTurnRegardless(c) ==
    /\ HasTurn(c) /\ ~ exited
    /\ Runs(c, owner[c])
    /\ UNCHANGED <<owner, param, answered, chain, sessionVars, streamVars, disk,
                   exited>>

\* guardedStart lets the call through.
ParamTurn(c) ==
    /\ HasTurn(c) /\ ~ exited
    /\ c \notin answered
    /\ Runs(c, owner[c])
    /\ UNCHANGED <<owner, param, answered, chain, sessionVars, streamVars, disk,
                   exited>>

\* A promise of the chain or of a worker settles.
Settle(c) ==
    /\ call' = [call EXCEPT ![c] = "settled"]
    /\ param' = param \ {c}
    /\ answered' = answered \ {c}
    /\ waitOps' = Without(waitOps, c)
    /\ UNCHANGED <<owner, sess, dir, handle, waitCancels, waitCloses>>

\* Mutant of ParamRefused: a rejected call blocks the chain.
ParamRefusedStays(c) ==
    /\ HasTurn(c) /\ ~ exited
    /\ Settle(c)
    /\ UNCHANGED <<registry, worker, chain, streamVars, disk, exited>>

\* guardedStart rejects: aborted, past its deadline, on a closed session, or
\* on a default connection the registry refuses.  Nothing reaches libchdb.
ParamRefused(c) ==
    /\ HasTurn(c) /\ ~ exited
    /\ Settle(c)
    /\ chain' = Tail(chain)
    /\ UNCHANGED <<registry, worker, streamVars, disk, exited>>

\* Mutant of CallSettles: a call nobody listens to any more keeps the chain.
CallSettlesUnheard(c) ==
    /\ call[c] = "running"
    /\ Retire(c)
    /\ Settle(c)
    /\ chain' = IF chain # <<>> /\ Head(chain) = c /\ c \notin answered THEN Tail(chain) ELSE chain
    /\ UNCHANGED <<registry, streamVars, disk, exited>>

\* The native call completes, with a result or an error; a parameterised one
\* hands the chain to the next.
CallSettles(c) ==
    /\ call[c] = "running"
    /\ Retire(c)
    /\ Settle(c)
    /\ chain' = IF chain # <<>> /\ Head(chain) = c THEN Tail(chain) ELSE chain
    /\ UNCHANGED <<registry, streamVars, disk, exited>>

\* trackNative deletes the settled entry.
Untrack(c) ==
    /\ call[c] = "settled" /\ ~ exited
    /\ call' = [call EXCEPT ![c] = "idle"]
    /\ owner' = [owner EXCEPT ![c] = Default]
    /\ UNCHANGED <<registry, worker, param, answered, chain,
                   sessionVars, streamVars, disk, exited>>

-----------------------------------------------------------------------------
(* Streams *)

\* A stream object that nothing refers to natively any more.
Free(t) == streamOf[t] = NoSession /\ fetch[t] = "no" /\ t \notin cancelDue

\* #startStream: one stream that JavaScript has not closed per session.
StartStream(t, s) ==
    /\ Free(t) /\ sess[s] = "open" /\ ~ exited
    /\ ActiveStream(s) = {}
    /\ streamOf' = [streamOf EXCEPT ![t] = s]
    /\ cursor' = [cursor EXCEPT ![t] = handle[s]]
    /\ UNCHANGED <<registry, worker, sessionVars, callVars, fetch, cancelDue,
                   disk, exited>>

\* The iterator asks for the next block; the fetch runs on a thread.
StartFetch(t) ==
    /\ streamOf[t] # NoSession /\ fetch[t] = "no" /\ ~ exited
    /\ Dispatch(t, cursor[t])
    /\ fetch' = [fetch EXCEPT ![t] = "running"]
    /\ UNCHANGED <<registry, sessionVars, callVars, streamOf, cursor,
                   cancelDue, disk, exited>>

\* StreamFetchWorker completes: with a block, or at the end of the stream or on
\* an error, when it destroys the native handle itself.
FetchSettles(t) ==
    /\ fetch[t] = "running"
    /\ Retire(t)
    /\ fetch' = [fetch EXCEPT ![t] = "settled"]
    /\ \/ UNCHANGED cursor
       \/ cursor' = [cursor EXCEPT ![t] = NoConn]
    /\ waitOps' = Without(waitOps, t)
    /\ UNCHANGED <<registry, sess, dir, handle, waitCancels, waitCloses,
                   callVars, streamOf, cancelDue, disk, exited>>

\* The iterator resumes with the fetch's outcome.
FetchReturns(t) ==
    /\ fetch[t] = "settled" /\ ~ exited
    /\ fetch' = [fetch EXCEPT ![t] = "no"]
    /\ streamOf' = [streamOf EXCEPT ![t] =
                       IF cursor[t] = NoConn THEN NoSession ELSE @]
    /\ UNCHANGED <<registry, worker, sessionVars, callVars, cursor,
                   cancelDue, disk, exited>>

\* cancel(), or the iterator's finally after a break, a throw or an abort.
CancelStream(t) ==
    /\ streamOf[t] # NoSession /\ ~ exited
    /\ Cancel({t})
    /\ UNCHANGED <<registry, worker, sessionVars, callVars, disk, exited>>

\* The destroy cancel() deferred; StreamCancel is a no-op on a finished handle.
DeferredCancel(t) ==
    /\ t \in cancelDue /\ fetch[t] # "running" /\ ~ exited
    /\ cursor' = [cursor EXCEPT ![t] = NoConn]
    /\ cancelDue' = cancelDue \ {t}
    /\ waitCancels' = Without(waitCancels, t)
    /\ UNCHANGED <<registry, worker, sess, dir, handle, waitOps, waitCloses,
                   callVars, streamOf, fetch, disk, exited>>

-----------------------------------------------------------------------------
(* Exit *)

\* The exit event's listener: every open session is closed -- at once when
\* nothing is pending, otherwise its deferred teardown never comes, as no
\* promise settles after the event -- and ExitTeardown goes through the rest.
Exit ==
    /\ ~ exited
    /\ Cancel({t \in Streams : streamOf[t] # NoSession})
    /\ ExitTeardown({handle[s] : s \in {x \in Slots : Drained /\ sess[x] = "open"}})
    /\ sess' = [s \in Slots |->
                    IF sess[s] # "open" THEN sess[s]
                    ELSE IF Drained THEN "none" ELSE "closing"]
    /\ disk' = IF Drained THEN disk \ {s \in Slots : sess[s] = "open"} ELSE disk
    /\ exited' = TRUE
    /\ UNCHANGED <<worker, dir, handle, waitOps, waitCancels, waitCloses, callVars>>

\* shutdown_on_process_exit, once Node has joined the libuv threads.
AtExit ==
    /\ exited
    /\ \A w \in Workers : worker[w] = NoConn
    /\ HardCloseAll
    /\ UNCHANGED <<worker, sessionVars, callVars, streamVars, disk, exited>>

-----------------------------------------------------------------------------
Owners == Slots \cup {Default}

CallNext ==
    \E c \in Calls :
        \/ \E o \in Owners : StartCall(c, o) \/ QueueParam(c, o)
        \/ AnswerEarly(c)
        \/ ParamTurn(c)
        \/ ParamRefused(c)
        \/ CallSettles(c)
        \/ Untrack(c)

StreamNext ==
    \E t \in Streams :
        \/ \E s \in Slots : StartStream(t, s)
        \/ StartFetch(t)
        \/ FetchSettles(t)
        \/ FetchReturns(t)
        \/ CancelStream(t)
        \/ DeferredCancel(t)

OpenNext(s) ==
    \E k \in Dirs \cup {s} : Open(s, k) \/ OpenFails(s, k)
=============================================================================
