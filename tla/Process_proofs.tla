--------------------------- MODULE Process_proofs ---------------------------
(***************************************************************************)
(* Proofs about Process: for any number of sessions, calls, streams and    *)
(* connections the addon's connections are on one directory, none is       *)
(* closed under a running call or a live stream handle, the parameterised  *)
(* calls of the chain exclude each other, a drained process holds nothing  *)
(* that is on its way out, every directory the library makes lasts exactly *)
(* as long as its users, and whatever a deferred teardown or a queued call *)
(* waits for is still to come.                                             *)
(***************************************************************************)
EXTENDS Process, FiniteSetTheorems, SequenceTheorems, TLAPS

-----------------------------------------------------------------------------
(* The inductive invariant. *)

\* The registry by itself: while nothing is bound, the default connection is
\* the only one there can be.
RegistryInv ==
    /\ conns \subseteq Conns
    /\ DOMAIN keyOf = Conns
    /\ defaultConn \in conns \cup {NoConn}
    /\ OneDirectory
    /\ boundKey = InMemory /\ conns # {} => conns = {defaultConn}

\* The types of the rest.
Types ==
    /\ worker \in [Workers -> Conns \cup {NoConn}]
    /\ sess \in [Slots -> {"none", "open", "closing"}]
    /\ dir \in [Slots -> {InMemory} \cup Dirs \cup Slots \cup MemDirs]
    /\ handle \in [Slots -> Conns \cup {NoConn}]
    /\ waitOps \in [Slots -> SUBSET (Calls \cup Streams)]
    /\ waitCancels \in [Slots -> SUBSET Streams]
    /\ call \in [Calls -> {"idle", "queued", "running", "settled"}]
    /\ owner \in [Calls -> Slots \cup {Default}]
    /\ streamOf \in [Streams -> Slots \cup {NoSession}]
    /\ cursor \in [Streams -> Conns \cup {NoConn}]
    /\ fetch \in [Streams -> {"no", "running", "settled"}]
    /\ cancelDue \subseteq Streams
    /\ exited \in BOOLEAN
    /\ eng \in {"none", "open", "closing"}
    /\ engConn \in Conns \cup {NoConn}

\* A call or a fetch is on a thread exactly while it runs.
Threads ==
    /\ \A c \in Calls : call[c] # "running" => worker[c] = NoConn
    /\ \A t \in Streams : fetch[t] # "running" => worker[t] = NoConn
    /\ \A t \in Streams : fetch[t] = "running" /\ ~ exited =>
           worker[t] = cursor[t] /\ cursor[t] # NoConn

\* The chain: a parameterised call that runs is at its head.
ChainInv ==
    /\ chain \in Seq(Calls)
    /\ param \subseteq Calls /\ answered \subseteq Calls
    /\ \A c \in param : call[c] \in {"queued", "running"}
    /\ \A c \in param : call[c] = "running" => chain # <<>> /\ Head(chain) = c

\* Every connection has one owner: the default, the engine, or one session that
\* is open or has yet to be torn down.
Owned ==
    /\ \A s \in Slots : sess[s] # "none" => handle[s] \in conns \ {defaultConn, engConn}
    /\ \A s, r \in Slots :
          sess[s] # "none" /\ sess[r] # "none" /\ handle[s] = handle[r] => s = r
    /\ IF eng = "none" THEN engConn = NoConn ELSE engConn \in conns \ {defaultConn}
    /\ \A c \in conns : c \in {defaultConn, engConn}
                        \/ \E s \in Slots : sess[s] # "none" /\ handle[s] = c

\* A running call is on its owner's connection, and an owner that closes waits
\* for it.
CallOn(c) ==
    call[c] = "running" =>
        /\ worker[c] # NoConn
        /\ worker[c] = Target(owner[c])
        /\ owner[c] \in Slots =>
              /\ sess[owner[c]] # "none"
              /\ sess[owner[c]] = "closing" => c \in waitOps[owner[c]]

\* A stream handle is on the connection of a session: an open one while
\* JavaScript has not closed it, one that waits for its destroy after.
StreamOn(t) ==
    /\ streamOf[t] # NoSession =>
          /\ sess[streamOf[t]] = "open"
          /\ t \notin cancelDue
          /\ \/ cursor[t] = handle[streamOf[t]]
             \/ cursor[t] = NoConn /\ fetch[t] = "settled"
    /\ streamOf[t] = NoSession /\ cursor[t] # NoConn =>
          /\ t \in cancelDue
          /\ \E s \in Slots :
                /\ sess[s] # "none" /\ cursor[t] = handle[s]
                /\ sess[s] = "closing" => t \in waitCancels[s]

\* An engine's call is on the engine's connection.
EngineOn(e) == worker[e] # NoConn => worker[e] = engConn

\* The ChdbConnections that hold the shared directory.
Holders == {s \in Slots : sess[s] = "open" /\ dir[s] \in MemDirs}

References ==
    /\ memoryRefs \in Nat
    /\ ~ exited => IsFiniteSet(Holders) /\ Cardinality(Holders) = memoryRefs

Clients ==
    /\ Owned
    /\ \A c \in Calls : CallOn(c)
    /\ \A t \in Streams : StreamOn(t)
    /\ \A e \in EngineCalls : EngineOn(e)

Held == ~ exited => Clients

IInv ==
    /\ RegistryInv
    /\ Types
    /\ Threads
    /\ ChainInv
    /\ References
    /\ Held

-----------------------------------------------------------------------------
(* The registry. *)

\* A new connection gets an address no live one has.
LEMMA FreshIsFree ==
    ASSUME NEW kept, Conns \ kept # {}
    PROVE  Fresh(kept) \in Conns \ kept
  BY DEF Fresh

\* What a step does to the registry, whoever takes it.
RegistryStep ==
    \/ UNCHANGED registry
    \/ \E k : k # InMemory /\ AcquireSession(k)
    \/ \E k : AcquireFails(k)
    \/ OpenDefault
    \/ \E cs : CloseAllOf(cs)

\* The directory names clients open are not the default connection's.
LEMMA DirsAreNames ==
    /\ \A s \in Slots : s # InMemory
    /\ \A k \in Dirs \cup MemDirs : k # InMemory
    /\ EngineDir # InMemory
  BY SessionsAssumption, ProcessAssumption

\* Every step does to the registry one of the things RegistryStep lists.
LEMMA RegistrySteps == [ProcessNext]_vars => RegistryStep
  <1> SUFFICES ASSUME [ProcessNext]_vars PROVE RegistryStep
    OBVIOUS
  <1>r. \A c : ReleaseSession(c) => RegistryStep
    BY DEF ReleaseSession, RegistryStep
  <1>c. ASSUME NEW s, NEW also, Close(s, also)
        PROVE  RegistryStep
    <2>1. CASE CloseNow(s, also)
      BY <1>r, <2>1 DEF CloseNow, Teardown
    <2>2. CASE CloseDeferred(s, also)
      BY <2>2 DEF CloseDeferred, RegistryStep, registry
    <2> QED
      BY <1>c, <2>1, <2>2 DEF Close
  <1>1. CASE CallNext
    <2> SUFFICES ASSUME NEW c \in Calls,
                        \/ \E o \in Owners : StartCall(c, o) \/ QueueParam(c, o)
                        \/ AnswerEarly(c) \/ ParamTurn(c) \/ ParamRefused(c)
                        \/ CallSettles(c) \/ Untrack(c)
                 PROVE  RegistryStep
      BY <1>1 DEF CallNext
    <2>1. \A o : Runs(c, o) => RegistryStep
      BY DEF Runs, RegistryStep
    <2> QED
      BY <2>1 DEF StartCall, QueueParam, AnswerEarly, ParamTurn, ParamRefused,
                  CallSettles, Untrack, RegistryStep, registry
  <1>2. CASE StreamNext
    BY <1>2 DEF StreamNext, StartStream, StartFetch, FetchSettles, FetchReturns,
                CancelStream, DeferredCancel, RegistryStep, registry
  <1>3. CASE SessionNext
    <2>1. ASSUME NEW s \in Slots, OpenNext(s) PROVE RegistryStep
      BY <2>1, DirsAreNames DEF OpenNext, Open, OpenFails, RegistryStep
    <2>2. ASSUME NEW s \in Slots, DeferredTeardown(s) PROVE RegistryStep
      BY <1>r, <2>2 DEF DeferredTeardown, Teardown
    <2> QED
      BY <1>3, <1>c, <2>1, <2>2 DEF SessionNext
  <1>4. CASE Exit \/ AtExit
    BY <1>4 DEF Exit, AtExit, ExitTeardown, HardCloseAll, RegistryStep
  <1>5. CASE MemoryNext
    <2>1. ASSUME NEW s \in Slots, MemoryOpen(s) PROVE RegistryStep
      BY <2>1, DirsAreNames DEF MemoryOpen, Open, RegistryStep
    <2>2. ASSUME NEW s \in Slots, MemoryOpenFails(s) PROVE RegistryStep
      BY <2>2 DEF MemoryOpenFails, OpenFails, RegistryStep
    <2>3. ASSUME NEW s \in Slots, MemoryClose(s) PROVE RegistryStep
      BY <1>c, <2>3 DEF MemoryClose
    <2> QED
      BY <1>5, <2>1, <2>2, <2>3 DEF MemoryNext
  <1>6. CASE EngineNext
    <2>1. CASE EngineStart
      BY <2>1, DirsAreNames DEF EngineStart, RegistryStep
    <2>2. CASE EngineRelease
      BY <1>r, <2>2 DEF EngineRelease
    <2>3. CASE EngineClose \/ \E e \in EngineCalls : EngineCall(e) \/ EngineCallSettles(e)
      BY <2>3 DEF EngineClose, EngineCall, EngineCallSettles, RegistryStep, registry
    <2> QED
      BY <1>6, <2>1, <2>2, <2>3 DEF EngineNext
  <1>7. CASE UNCHANGED vars
    BY <1>7 DEF vars, layer1Vars, registry, RegistryStep
  <1> QED
    BY <1>1, <1>2, <1>3, <1>4, <1>5, <1>6, <1>7 DEF ProcessNext, Layer1Next

\* Each of which keeps what RegistryInv says.
LEMMA RegistryKept == RegistryInv /\ RegistryStep => RegistryInv'
  <1> SUFFICES ASSUME RegistryInv, RegistryStep PROVE RegistryInv'
    OBVIOUS
  <1> USE RegistryAssumption DEF RegistryInv, OneDirectory
  <1>1. CASE UNCHANGED registry
    BY <1>1 DEF registry
  <1>o. ASSUME NEW kept \in SUBSET conns, NEW k, OpenRaw(kept, k),
               kept = {} \/ k = boundKey
        PROVE  /\ conns' = kept \cup {Fresh(kept)} /\ Fresh(kept) \in Conns \ kept
               /\ conns' \subseteq Conns /\ DOMAIN keyOf' = Conns
               /\ OneDirectory' /\ boundKey' = k
    <2>1. Fresh(kept) \in Conns \ kept
      BY <1>o, FreshIsFree DEF OpenRaw
    <2>2. /\ conns' = kept \cup {Fresh(kept)} /\ boundKey' = k
          /\ keyOf' = [KeysOf(kept) EXCEPT ![Fresh(kept)] = k]
      BY <1>o DEF OpenRaw
    <2>3. \A c \in kept : keyOf'[c] = keyOf[c]
      BY <2>1, <2>2 DEF KeysOf
    <2>4. keyOf'[Fresh(kept)] = k /\ DOMAIN keyOf' = Conns
      BY <2>1, <2>2 DEF KeysOf
    <2> QED
      BY <1>o, <2>1, <2>2, <2>3, <2>4
  <1>2. ASSUME NEW k, k # InMemory, AcquireSession(k) PROVE RegistryInv'
    <2>1. Kept \subseteq conns /\ (Kept = {} \/ k = boundKey)
      BY <1>2 DEF AcquireSession, MayBind, Kept, Evicts
    <2>2. OpenRaw(Kept, k) /\ defaultConn' = IF Evicts THEN NoConn ELSE defaultConn
      BY <1>2 DEF AcquireSession
    <2>3. /\ conns' = Kept \cup {Fresh(Kept)} /\ conns' \subseteq Conns
          /\ DOMAIN keyOf' = Conns /\ OneDirectory' /\ boundKey' = k
      BY <1>o, <2>1, <2>2
    <2>4. defaultConn' \in conns' \cup {NoConn}
      BY <2>2, <2>3 DEF Kept
    <2> QED
      BY <1>2, <2>3, <2>4
  <1>3. ASSUME NEW k, AcquireFails(k) PROVE RegistryInv'
    <2>1. /\ conns' = Kept /\ keyOf' = KeysOf(Kept) /\ boundKey' = boundKey
          /\ defaultConn' = IF Evicts THEN NoConn ELSE defaultConn
      BY <1>3 DEF AcquireFails
    <2> QED
      BY <2>1 DEF Kept, Evicts, KeysOf
  <1>4. CASE OpenDefault
    <2>1. conns = {} /\ OpenRaw({}, InMemory) /\ defaultConn' = Fresh({})
      BY <1>4 DEF OpenDefault
    <2>2. /\ conns' = {Fresh({})} /\ conns' \subseteq Conns
          /\ DOMAIN keyOf' = Conns /\ OneDirectory' /\ boundKey' = InMemory
      BY <1>o, <2>1
    <2> QED
      BY <2>1, <2>2
  <1>5. ASSUME NEW cs, CloseAllOf(cs) PROVE RegistryInv'
    BY <1>5 DEF CloseAllOf, KeysOf
  <1> QED
    BY <1>1, <1>2, <1>3, <1>4, <1>5 DEF RegistryStep

-----------------------------------------------------------------------------
(* Types. *)

\* Calls, streams and engine calls run on workers.
LEMMA WorkersAre == Calls \cup Streams \cup EngineCalls \subseteq Workers
  BY SessionsAssumption, ProcessAssumption

\* Where a call or a fetch is dispatched.
LEMMA RunsOn ==
    ASSUME RegistryInv, Types, NEW c \in Calls, NEW o \in Owners, Runs(c, o)
    PROVE  /\ worker' \in [Workers -> Conns \cup {NoConn}]
           /\ \A w \in Workers \ {c} : worker'[w] = worker[w]
           /\ worker'[c] \in Conns
           /\ call' = [call EXCEPT ![c] = "running"]
           /\ call' \in [Calls -> {"idle", "queued", "running", "settled"}]
           /\ \/ /\ worker'[c] = Target(o) /\ worker'[c] # NoConn
                 /\ UNCHANGED registry
              \/ /\ o = Default /\ worker'[c] = defaultConn'
                 /\ conns = {} /\ defaultConn = NoConn
                 /\ defaultConn' \in Conns /\ conns' = {defaultConn'}
  <1>t. /\ worker \in [Workers -> Conns \cup {NoConn}] /\ c \in Workers
        /\ call \in [Calls -> {"idle", "queued", "running", "settled"}]
    BY WorkersAre DEF Types
  <1>c. call' = [call EXCEPT ![c] = "running"]
    BY DEF Runs
  <1>1. CASE Target(o) # NoConn /\ Dispatch(c, Target(o)) /\ UNCHANGED registry
    <2>1. Target(o) \in Conns
      <3>1. CASE o = Default
        BY <1>1, <3>1 DEF Target, RegistryInv
      <3>2. CASE o # Default
        BY <1>1, <3>2 DEF Target, Types, Owners
      <3> QED
        BY <3>1, <3>2
    <2>2. worker' = [worker EXCEPT ![c] = Target(o)]
      BY <1>1 DEF Dispatch
    <2>3. worker' \in [Workers -> Conns \cup {NoConn}] /\ worker'[c] = Target(o)
      BY <1>t, <2>1, <2>2
    <2>4. \A w \in Workers \ {c} : worker'[w] = worker[w]
      BY <1>t, <2>2
    <2>5. call' \in [Calls -> {"idle", "queued", "running", "settled"}]
      BY <1>t, <1>c
    <2> QED
      BY <1>c, <1>1, <2>1, <2>3, <2>4, <2>5
  <1>2. CASE o = Default /\ OpenDefault /\ Dispatch(c, Fresh({}))
    <2>1. /\ Fresh({}) \in Conns /\ conns = {} /\ defaultConn = NoConn
          /\ defaultConn' = Fresh({}) /\ conns' = {Fresh({})}
      BY <1>2, FreshIsFree DEF OpenDefault, OpenRaw
    <2>2. worker' = [worker EXCEPT ![c] = Fresh({})]
      BY <1>2 DEF Dispatch
    <2>3. worker' \in [Workers -> Conns \cup {NoConn}] /\ worker'[c] = Fresh({})
      BY <1>t, <2>1, <2>2
    <2>4. \A w \in Workers \ {c} : worker'[w] = worker[w]
      BY <1>t, <2>2
    <2>5. call' \in [Calls -> {"idle", "queued", "running", "settled"}]
      BY <1>t, <1>c
    <2> QED
      BY <1>c, <1>2, <2>1, <2>3, <2>4, <2>5, RegistryAssumption
  <1>3. \/ Target(o) # NoConn /\ Dispatch(c, Target(o)) /\ UNCHANGED registry
        \/ o = Default /\ OpenDefault /\ Dispatch(c, Fresh({}))
    BY Zenon DEF Runs
  <1> QED
    BY <1>1, <1>2, <1>3, Zenon

\* Every step keeps the types.
LEMMA TypesKept == RegistryInv /\ Types /\ [ProcessNext]_vars => Types'
  <1> SUFFICES ASSUME RegistryInv, Types, [ProcessNext]_vars PROVE Types'
    OBVIOUS
  <1>a. ASSUME NEW k, AcquireSession(k)
        PROVE  Fresh(Kept) \in Conns
    BY <1>a, FreshIsFree DEF AcquireSession, OpenRaw
  <1>cl. ASSUME NEW s \in Slots, NEW also, Close(s, also),
                eng' = eng, engConn' = engConn
         PROVE  Types'
    <2>1. CASE CloseNow(s, also)
      <3>1. /\ Cancel(ActiveStream(s))
            /\ sess' = [sess EXCEPT ![s] = "none"]
            /\ handle' = [handle EXCEPT ![s] = NoConn]
            /\ dir' = [dir EXCEPT ![s] = InMemory]
            /\ UNCHANGED <<worker, waitOps, waitCancels, callVars, exited>>
        BY <2>1 DEF CloseNow, Teardown
      <3>2. cancelDue' \in SUBSET Streams
        BY <3>1 DEF Cancel, ActiveStream, Types
      <3> QED
        BY <1>cl, <3>1, <3>2 DEF Cancel, Types, callVars
    <2>2. CASE CloseDeferred(s, also)
      <3>1. Unsettled \in SUBSET (Calls \cup Streams)
        BY DEF Unsettled
      <3>2. cancelDue' \in SUBSET Streams
        BY <2>2 DEF CloseDeferred, Cancel, ActiveStream, Types
      <3> QED
        BY <1>cl, <2>2, <3>1, <3>2 DEF CloseDeferred, Cancel, Types, callVars
    <2> QED
      BY <1>cl, <2>1, <2>2 DEF Close
  <1>op. ASSUME NEW s \in Slots, NEW k \in Dirs \cup Slots \cup MemDirs, Open(s, k),
                eng' = eng, engConn' = engConn
         PROVE  Types'
    <2>1. Fresh(Kept) \in Conns
      BY <1>a, <1>op DEF Open
    <2> QED
      BY <1>op, <2>1 DEF Open, Types, callVars, streamVars
  <1>of. ASSUME NEW s \in Slots, NEW k, OpenFails(s, k), UNCHANGED processVars
         PROVE  Types'
    BY <1>of DEF OpenFails, Types, callVars, streamVars, sessionVars, processVars
  <1>1. CASE CallNext /\ UNCHANGED processVars
    <2>1. ASSUME NEW c \in Calls, NEW o \in Owners, StartCall(c, o) PROVE Types'
      <3>1. /\ worker' \in [Workers -> Conns \cup {NoConn}]
            /\ call' \in [Calls -> {"idle", "queued", "running", "settled"}]
        BY <2>1, RunsOn DEF StartCall
      <3> QED
        BY <1>1, <2>1, <3>1 DEF StartCall, Owners, Types, sessionVars, streamVars, processVars
    <2>2. ASSUME NEW c \in Calls, NEW o \in Owners, QueueParam(c, o) PROVE Types'
      BY <1>1, <2>2 DEF QueueParam, Owners, Types, sessionVars, streamVars, processVars
    <2>3. ASSUME NEW c \in Calls, AnswerEarly(c) PROVE Types'
      BY <1>1, <2>3 DEF AnswerEarly, Types, sessionVars, streamVars, processVars
    <2>4. ASSUME NEW c \in Calls, ParamTurn(c) PROVE Types'
      <3>0. owner[c] \in Owners
        BY DEF Types, Owners
      <3>1. /\ worker' \in [Workers -> Conns \cup {NoConn}]
            /\ call' \in [Calls -> {"idle", "queued", "running", "settled"}]
        BY <2>4, <3>0, RunsOn DEF ParamTurn
      <3> QED
        BY <1>1, <2>4, <3>1 DEF ParamTurn, Types, sessionVars, streamVars, processVars
    <2>5. ASSUME NEW c \in Calls, ParamRefused(c) PROVE Types'
      BY <1>1, <2>5 DEF ParamRefused, Settle, Without, Types, streamVars, processVars
    <2>6. ASSUME NEW c \in Calls, CallSettles(c) PROVE Types'
      BY <1>1, <2>6 DEF CallSettles, Settle, Retire, Without, Types, streamVars, processVars
    <2>7. ASSUME NEW c \in Calls, Untrack(c) PROVE Types'
      BY <1>1, <2>7 DEF Untrack, Types, sessionVars, streamVars, processVars
    <2> QED
      BY <1>1, <2>1, <2>2, <2>3, <2>4, <2>5, <2>6, <2>7 DEF CallNext
  <1>2. CASE StreamNext /\ UNCHANGED processVars
    <2>1. ASSUME NEW t \in Streams, NEW s \in Slots, StartStream(t, s) PROVE Types'
      BY <1>2, <2>1 DEF StartStream, Types, sessionVars, callVars, processVars
    <2>2. ASSUME NEW t \in Streams, StartFetch(t) PROVE Types'
      BY <1>2, <2>2, WorkersAre DEF StartFetch, Dispatch, Types, sessionVars, callVars, processVars
    <2>3. ASSUME NEW t \in Streams, FetchSettles(t) PROVE Types'
      BY <1>2, <2>3 DEF FetchSettles, Retire, Without, Types, callVars, processVars
    <2>4. ASSUME NEW t \in Streams, FetchReturns(t) PROVE Types'
      BY <1>2, <2>4 DEF FetchReturns, Types, sessionVars, callVars, processVars
    <2>5. ASSUME NEW t \in Streams, CancelStream(t) PROVE Types'
      BY <1>2, <2>5 DEF CancelStream, Cancel, Types, sessionVars, callVars, processVars
    <2>6. ASSUME NEW t \in Streams, DeferredCancel(t) PROVE Types'
      BY <1>2, <2>6 DEF DeferredCancel, Without, Types, callVars, processVars
    <2> QED
      BY <1>2, <2>1, <2>2, <2>3, <2>4, <2>5, <2>6 DEF StreamNext
  <1>3. CASE SessionNext /\ UNCHANGED processVars
    <2>1. ASSUME NEW s \in Slots, DeferredTeardown(s) PROVE Types'
      BY <1>3, <2>1 DEF DeferredTeardown, Teardown, Types, callVars, streamVars, processVars
    <2> QED
      BY <1>3, <1>cl, <1>op, <1>of, <2>1 DEF SessionNext, OpenNext, processVars
  <1>4. CASE Exit /\ UNCHANGED processVars
    BY <1>4 DEF Exit, Cancel, Types, callVars, processVars
  <1>5. CASE AtExit /\ UNCHANGED processVars
    BY <1>5 DEF AtExit, Types, sessionVars, callVars, streamVars, processVars
  <1>6. CASE MemoryNext
    BY <1>6, <1>cl, <1>op, <1>of DEF MemoryNext, MemoryOpen, MemoryOpenFails, MemoryClose
  <1>7. CASE EngineNext
    <2> USE DEF engineUnchanged, sessionVars, callVars, streamVars, Types
    <2>1. CASE EngineStart
      BY <1>a, <2>1 DEF EngineStart
    <2>2. ASSUME NEW e \in EngineCalls, EngineCall(e) PROVE Types'
      BY <2>2, WorkersAre DEF EngineCall, Dispatch
    <2>3. ASSUME NEW e \in EngineCalls, EngineCallSettles(e) PROVE Types'
      BY <2>3 DEF EngineCallSettles, Retire
    <2>4. CASE EngineClose \/ EngineRelease
      BY <2>4 DEF EngineClose, EngineRelease
    <2> QED
      BY <1>7, <2>1, <2>2, <2>3, <2>4 DEF EngineNext
  <1>8. CASE UNCHANGED vars
    BY <1>8 DEF vars, layer1Vars, Types, sessionVars, callVars, streamVars, processVars
  <1> QED
    BY <1>1, <1>2, <1>3, <1>4, <1>5, <1>6, <1>7, <1>8 DEF ProcessNext, Layer1Next

-----------------------------------------------------------------------------
(* Threads and the chain. *)

\* A worker runs one kind of work.
LEMMA KindsAreApart ==
    /\ Calls \cap Streams = {}
    /\ EngineCalls \cap (Calls \cup Streams) = {}
  BY SessionsAssumption, ProcessAssumption

\* A worker is on a thread only while its promise says so, after every step.
LEMMA ThreadsKept == IInv /\ [ProcessNext]_vars => Threads'
  <1> SUFFICES ASSUME IInv, [ProcessNext]_vars PROVE Threads'
    OBVIOUS
  <1>t. Types /\ Threads /\ RegistryInv
    BY DEF IInv
  <1>same. ASSUME worker' = worker, call' = call, fetch' = fetch, exited' = exited,
                  cursor' = cursor \/ \E ts \in SUBSET Streams : Cancel(ts)
           PROVE  Threads'
    BY <1>same, <1>t DEF Threads, Cancel, Types
  <1>run. ASSUME NEW c \in Calls, NEW o \in Owners, Runs(c, o), UNCHANGED streamVars,
                 exited' = exited
          PROVE  Threads'
    <2>1. /\ \A w \in Workers \ {c} : worker'[w] = worker[w]
          /\ call' = [call EXCEPT ![c] = "running"]
      BY <1>run, <1>t, RunsOn
    <2>2. \A d \in Calls : call'[d] # "running" => d # c /\ call'[d] = call[d]
      BY <1>t, <2>1 DEF Types
    <2> QED
      BY <1>run, <1>t, <2>1, <2>2, KindsAreApart, WorkersAre DEF Threads, streamVars
  <1>cl. ASSUME NEW s \in Slots, NEW also, Close(s, also)
         PROVE  Threads'
    <2>1. /\ Cancel(ActiveStream(s)) /\ worker' = worker /\ exited' = exited
          /\ UNCHANGED callVars
      BY <1>cl DEF Close, CloseNow, CloseDeferred
    <2> QED
      BY <2>1, <1>same DEF Cancel, callVars, ActiveStream
  <1>op. ASSUME NEW s \in Slots, NEW k, Open(s, k) \/ OpenFails(s, k)
         PROVE  Threads'
    BY <1>op, <1>same DEF Open, OpenFails, callVars, streamVars
  <1>1. CASE CallNext
    <2>1. ASSUME NEW c \in Calls, NEW o \in Owners, StartCall(c, o) PROVE Threads'
      BY <1>run, <2>1 DEF StartCall
    <2>2. ASSUME NEW c \in Calls, NEW o \in Owners, QueueParam(c, o) PROVE Threads'
      BY <1>t, <2>2 DEF QueueParam, streamVars, Types, Threads
    <2>3. ASSUME NEW c \in Calls, AnswerEarly(c) PROVE Threads'
      BY <1>same, <2>3 DEF AnswerEarly, streamVars
    <2>4. ASSUME NEW c \in Calls, ParamTurn(c) PROVE Threads'
      <3>1. owner[c] \in Owners
        BY <1>t DEF Types, Owners
      <3> QED
        BY <1>run, <2>4, <3>1 DEF ParamTurn
    <2>5. ASSUME NEW c \in Calls, ParamRefused(c) PROVE Threads'
      BY <1>t, <2>5 DEF ParamRefused, HasTurn, Settle, streamVars, Types, Threads
    <2>6. ASSUME NEW c \in Calls, CallSettles(c) PROVE Threads'
      <3>1. /\ worker' = [worker EXCEPT ![c] = NoConn] /\ call' = [call EXCEPT ![c] = "settled"]
            /\ UNCHANGED streamVars /\ exited' = exited
        BY <2>6 DEF CallSettles, Settle, Retire
      <3> QED
        BY <1>t, <3>1, KindsAreApart, WorkersAre DEF streamVars, Types, Threads
    <2>7. ASSUME NEW c \in Calls, Untrack(c) PROVE Threads'
      BY <1>t, <2>7 DEF Untrack, streamVars, Types, Threads
    <2> QED
      BY <1>1, <2>1, <2>2, <2>3, <2>4, <2>5, <2>6, <2>7 DEF CallNext
  <1>2. CASE StreamNext
    <2>1. ASSUME NEW t \in Streams, NEW s \in Slots, StartStream(t, s) PROVE Threads'
      BY <1>t, <2>1 DEF StartStream, Free, callVars, Types, Threads
    <2>2. ASSUME NEW t \in Streams, StartFetch(t) PROVE Threads'
      <3>1. /\ streamOf[t] # NoSession /\ fetch[t] = "no" /\ ~ exited
            /\ worker' = [worker EXCEPT ![t] = cursor[t]]
            /\ fetch' = [fetch EXCEPT ![t] = "running"]
            /\ cursor' = cursor /\ UNCHANGED callVars /\ exited' = exited
        BY <2>2 DEF StartFetch, Dispatch
      <3>2. cursor[t] = handle[streamOf[t]] /\ sess[streamOf[t]] = "open"
        BY <3>1 DEF IInv, Held, Clients, StreamOn
      <3>3. streamOf[t] \in Slots
        BY <1>t, <3>1 DEF Types
      <3>4. cursor[t] \in conns
        BY <3>1, <3>2, <3>3 DEF IInv, Held, Clients, Owned
      <3>5. cursor[t] # NoConn
        BY <1>t, <3>4, RegistryAssumption DEF RegistryInv
      <3> QED
        BY <1>t, <3>1, <3>5, KindsAreApart, WorkersAre DEF callVars, Types, Threads
    <2>3. ASSUME NEW t \in Streams, FetchSettles(t) PROVE Threads'
      <3>1. /\ worker' = [worker EXCEPT ![t] = NoConn] /\ fetch' = [fetch EXCEPT ![t] = "settled"]
            /\ cursor' = cursor \/ cursor' = [cursor EXCEPT ![t] = NoConn]
            /\ UNCHANGED callVars /\ exited' = exited
        BY <2>3 DEF FetchSettles, Retire
      <3> QED
        BY <1>t, <3>1, KindsAreApart, WorkersAre DEF callVars, Types, Threads
    <2>4. ASSUME NEW t \in Streams, FetchReturns(t) PROVE Threads'
      BY <1>t, <2>4 DEF FetchReturns, callVars, Types, Threads
    <2>5. ASSUME NEW t \in Streams, CancelStream(t) PROVE Threads'
      BY <1>same, <2>5 DEF CancelStream, Cancel, callVars
    <2>6. ASSUME NEW t \in Streams, DeferredCancel(t) PROVE Threads'
      BY <1>t, <2>6 DEF DeferredCancel, callVars, Types, Threads
    <2> QED
      BY <1>2, <2>1, <2>2, <2>3, <2>4, <2>5, <2>6 DEF StreamNext
  <1>3. CASE SessionNext
    <2>1. ASSUME NEW s \in Slots, DeferredTeardown(s) PROVE Threads'
      BY <1>same, <2>1 DEF DeferredTeardown, callVars, streamVars
    <2> QED
      BY <1>3, <1>cl, <1>op, <2>1 DEF SessionNext, OpenNext
  <1>4. CASE Exit
    BY <1>4, <1>t DEF Exit, Threads, Cancel, Types, callVars
  <1>5. CASE AtExit
    BY <1>5, <1>same DEF AtExit, callVars, streamVars
  <1>6. CASE MemoryNext
    BY <1>6, <1>cl, <1>op DEF MemoryNext, MemoryOpen, MemoryOpenFails, MemoryClose
  <1>7. CASE EngineNext
    <2>1. CASE EngineStart \/ EngineClose \/ EngineRelease
      BY <1>same, <2>1 DEF EngineStart, EngineClose, EngineRelease, engineUnchanged,
                           callVars, streamVars
    <2>2. ASSUME NEW e \in EngineCalls, EngineCall(e) \/ EngineCallSettles(e) PROVE Threads'
      <3>1. /\ \E x : worker' = [worker EXCEPT ![e] = x]
            /\ UNCHANGED <<callVars, streamVars, exited>>
        BY <2>2 DEF EngineCall, EngineCallSettles, Dispatch, Retire, engineUnchanged
      <3> QED
        BY <1>t, <3>1, KindsAreApart, WorkersAre DEF callVars, streamVars, Types, Threads
    <2> QED
      BY <1>7, <2>1, <2>2 DEF EngineNext
  <1>8. CASE UNCHANGED vars
    BY <1>8, <1>same DEF vars, layer1Vars, callVars, streamVars
  <1> QED
    BY <1>1, <1>2, <1>3, <1>4, <1>5, <1>6, <1>7, <1>8 DEF ProcessNext, Layer1Next

\* Calls change in their own steps only.
LEMMA CallsFrame == [ProcessNext]_vars => CallNext \/ UNCHANGED callVars
  <1>c. \A s, also : Close(s, also) => UNCHANGED callVars
    BY DEF Close, CloseNow, CloseDeferred
  <1>o. \A s, k : Open(s, k) \/ OpenFails(s, k) => UNCHANGED callVars
    BY DEF Open, OpenFails
  <1>1. StreamNext => UNCHANGED callVars
    BY DEF StreamNext, StartStream, StartFetch, FetchSettles, FetchReturns, CancelStream,
           DeferredCancel
  <1>2. SessionNext => UNCHANGED callVars
    BY <1>c, <1>o DEF SessionNext, OpenNext, DeferredTeardown
  <1>3. Exit \/ AtExit => UNCHANGED callVars
    BY DEF Exit, AtExit
  <1>4. MemoryNext => UNCHANGED callVars
    BY <1>c, <1>o DEF MemoryNext, MemoryOpen, MemoryOpenFails, MemoryClose
  <1>5. EngineNext => UNCHANGED callVars
    BY DEF EngineNext, EngineStart, EngineCall, EngineCallSettles, EngineClose,
           EngineRelease, engineUnchanged
  <1>6. UNCHANGED vars => UNCHANGED callVars
    BY DEF vars, layer1Vars
  <1> QED
    BY <1>1, <1>2, <1>3, <1>4, <1>5, <1>6 DEF ProcessNext, Layer1Next

\* ChainInv is kept: only the head of the chain runs.
LEMMA ChainKept == IInv /\ [ProcessNext]_vars => ChainInv'
  <1> SUFFICES ASSUME IInv, [ProcessNext]_vars PROVE ChainInv'
    OBVIOUS
  <1>t. ChainInv /\ call \in [Calls -> {"idle", "queued", "running", "settled"}]
    BY DEF IInv, Types
  <1>run. ASSUME NEW c, NEW o, Runs(c, o) PROVE call' = [call EXCEPT ![c] = "running"]
    BY <1>run DEF Runs
  <1>1. ASSUME NEW c \in Calls, NEW o \in Owners, StartCall(c, o) PROVE ChainInv'
    <2>1. call[c] = "idle" /\ UNCHANGED <<param, answered, chain>>
      BY <1>1 DEF StartCall
    <2>2. call' = [call EXCEPT ![c] = "running"]
      BY <1>1, <1>run DEF StartCall
    <2>3. c \notin param
      BY <1>t, <2>1 DEF ChainInv
    <2> QED
      BY <1>t, <2>1, <2>2, <2>3 DEF ChainInv
  <1>2. ASSUME NEW c \in Calls, NEW o \in Owners, QueueParam(c, o) PROVE ChainInv'
    <2>1. /\ call[c] = "idle" /\ call' = [call EXCEPT ![c] = "queued"]
          /\ param' = param \cup {c} /\ chain' = Append(chain, c) /\ answered' = answered
      BY <1>2 DEF QueueParam
    <2>2. chain' \in Seq(Calls) /\ (chain # <<>> => chain' # <<>> /\ Head(chain') = Head(chain))
      BY <1>t, <2>1 DEF ChainInv
    <2> QED
      BY <1>t, <2>1, <2>2 DEF ChainInv
  <1>3. ASSUME NEW c \in Calls, AnswerEarly(c) PROVE ChainInv'
    BY <1>t, <1>3 DEF AnswerEarly, ChainInv
  <1>4. ASSUME NEW c \in Calls, ParamTurn(c) PROVE ChainInv'
    <2>1. /\ chain # <<>> /\ Head(chain) = c /\ UNCHANGED <<param, answered, chain>>
      BY <1>4 DEF ParamTurn, HasTurn
    <2>2. call' = [call EXCEPT ![c] = "running"]
      BY <1>4, <1>run DEF ParamTurn
    <2> QED
      BY <1>t, <2>1, <2>2 DEF ChainInv
  <1>5. ASSUME NEW c \in Calls, ParamRefused(c) PROVE ChainInv'
    <2>1. /\ chain # <<>> /\ Head(chain) = c /\ call[c] = "queued"
          /\ chain' = Tail(chain) /\ param' = param \ {c} /\ answered' = answered \ {c}
          /\ call' = [call EXCEPT ![c] = "settled"]
      BY <1>5 DEF ParamRefused, HasTurn, Settle
    <2>2. chain' \in Seq(Calls)
      BY <1>t, <2>1 DEF ChainInv
    <2>3. \A d \in param : call[d] # "running"
      BY <1>t, <2>1 DEF ChainInv
    <2> QED
      BY <1>t, <2>1, <2>2, <2>3 DEF ChainInv
  <1>6. ASSUME NEW c \in Calls, CallSettles(c) PROVE ChainInv'
    <2>1. /\ chain' = IF chain # <<>> /\ Head(chain) = c THEN Tail(chain) ELSE chain
          /\ param' = param \ {c} /\ answered' = answered \ {c}
          /\ call' = [call EXCEPT ![c] = "settled"]
      BY <1>6 DEF CallSettles, Settle
    <2>2. chain' \in Seq(Calls)
      BY <1>t, <2>1 DEF ChainInv
    <2>3. \A d \in param \ {c} : call[d] = "running" => chain' = chain
      BY <1>t, <2>1 DEF ChainInv
    <2> QED
      BY <1>t, <2>1, <2>2, <2>3 DEF ChainInv
  <1>7. ASSUME NEW c \in Calls, Untrack(c) PROVE ChainInv'
    BY <1>t, <1>7 DEF Untrack, ChainInv
  <1>8. CASE UNCHANGED callVars
    BY <1>t, <1>8 DEF callVars, ChainInv
  <1> QED
    BY <1>1, <1>2, <1>3, <1>4, <1>5, <1>6, <1>7, <1>8, CallsFrame DEF CallNext

-----------------------------------------------------------------------------
(* The references to the shared directory. *)

\* The directory a connection opens, and which of its names are shared ones.
LEMMA SharedNames ==
    \A k : k \in MemDirs => k \notin Dirs \cup Slots \cup {InMemory, EngineDir}
  BY ProcessAssumption

\* The reference count is kept equal to the clients of the shared directory.
LEMMA ReferencesKept == IInv /\ [ProcessNext]_vars => References'
  <1> SUFFICES ASSUME IInv, [ProcessNext]_vars PROVE References'
    OBVIOUS
  <1>t. /\ References
        /\ sess \in [Slots -> {"none", "open", "closing"}]
        /\ dir \in [Slots -> {InMemory} \cup Dirs \cup Slots \cup MemDirs]
    BY DEF IInv, Types
  <1>same. ASSUME memoryRefs' = memoryRefs, exited' = exited, Holders' = Holders
           PROVE  References'
    BY <1>same, <1>t DEF References
  <1>frame. ASSUME UNCHANGED <<memoryRefs, exited, sess, dir>>
            PROVE  References'
    BY <1>same, <1>frame DEF Holders
  <1>op. ASSUME NEW s \in Slots, NEW k, Open(s, k)
         PROVE  /\ s \notin Holders /\ exited' = exited /\ ~ exited
                /\ Holders' = IF k \in MemDirs THEN Holders \cup {s} ELSE Holders
    BY <1>op, <1>t DEF Open, Holders
  <1>of. ASSUME NEW s \in Slots, NEW k, OpenFails(s, k), UNCHANGED processVars
         PROVE  References'
    BY <1>of, <1>frame DEF OpenFails, sessionVars, processVars
  <1>cl. ASSUME NEW s \in Slots, NEW also, Close(s, also)
         PROVE  /\ exited' = exited /\ ~ exited /\ sess[s] = "open"
                /\ Holders' = Holders \ {s}
    <2>1. CASE CloseNow(s, also)
      <3>1. /\ sess[s] = "open" /\ exited' = exited /\ ~ exited
            /\ sess' = [sess EXCEPT ![s] = "none"] /\ dir' = [dir EXCEPT ![s] = InMemory]
        BY <2>1 DEF CloseNow, Teardown
      <3> QED
        BY <1>t, <3>1 DEF Holders
    <2>2. CASE CloseDeferred(s, also)
      BY <1>t, <2>2 DEF CloseDeferred, Holders
    <2> QED
      BY <1>cl, <2>1, <2>2 DEF Close
  <1>1. CASE CallNext /\ UNCHANGED processVars
    BY <1>1, <1>frame DEF CallNext, StartCall, QueueParam, AnswerEarly, ParamTurn, ParamRefused,
         CallSettles, Untrack, Settle, sessionVars, processVars
  <1>2. CASE StreamNext /\ UNCHANGED processVars
    BY <1>2, <1>frame DEF StreamNext, StartStream, StartFetch, FetchSettles, FetchReturns,
         CancelStream, DeferredCancel, sessionVars, processVars
  <1>3. CASE SessionNext /\ UNCHANGED processVars
    <2>1. ASSUME NEW s \in Slots, OpenNext(s) PROVE References'
      <3>1. \A k \in Dirs \cup {s} : k \notin MemDirs
        BY SharedNames
      <3>2. ASSUME NEW k \in Dirs \cup {s}, Open(s, k) PROVE References'
        BY <1>3, <1>op, <1>same, <3>1, <3>2 DEF processVars
      <3> QED
        BY <1>3, <1>of, <2>1, <3>2 DEF OpenNext
    <2>2. ASSUME NEW s \in Slots, ~ InShared(s), Close(s, {}) PROVE References'
      <3>1. sess[s] = "open" /\ Holders' = Holders \ {s} /\ exited' = exited
        BY <1>cl, <2>2
      <3>2. s \notin Holders
        BY <2>2 DEF InShared, Holders
      <3> QED
        BY <1>3, <1>same, <3>1, <3>2 DEF processVars
    <2>3. ASSUME NEW s \in Slots, DeferredTeardown(s) PROVE References'
      <3>1. /\ sess[s] = "closing" /\ exited' = exited
            /\ sess' = [sess EXCEPT ![s] = "none"] /\ dir' = [dir EXCEPT ![s] = InMemory]
        BY <2>3 DEF DeferredTeardown, Teardown
      <3>2. Holders' = Holders
        BY <1>t, <3>1 DEF Holders
      <3> QED
        BY <1>3, <1>same, <3>1, <3>2 DEF processVars
    <2> QED
      BY <1>3, <2>1, <2>2, <2>3 DEF SessionNext
  <1>4. CASE Exit /\ UNCHANGED processVars
    BY <1>4, <1>t DEF Exit, References, processVars
  <1>5. CASE AtExit /\ UNCHANGED processVars
    BY <1>5, <1>frame DEF AtExit, sessionVars, processVars
  <1>6. CASE MemoryNext
    <2>1. ASSUME NEW s \in Slots, MemoryOpen(s) PROVE References'
      <3>1. PICK m \in MemDirs : Open(s, m) /\ memoryRefs' = memoryRefs + 1
        BY <2>1 DEF MemoryOpen
      <3>2. s \notin Holders /\ ~ exited /\ Holders' = Holders \cup {s}
        BY <1>op, <3>1
      <3>3. IsFiniteSet(Holders) /\ Cardinality(Holders) = memoryRefs /\ memoryRefs \in Nat
        BY <1>t, <3>2 DEF References
      <3>4. IsFiniteSet(Holders \cup {s}) /\ Cardinality(Holders \cup {s}) = memoryRefs + 1
        BY <3>2, <3>3, FS_AddElement
      <3> QED
        BY <3>1, <3>2, <3>3, <3>4 DEF References
    <2>2. ASSUME NEW s \in Slots, MemoryOpenFails(s) PROVE References'
      BY <1>of, <2>2 DEF MemoryOpenFails
    <2>3. ASSUME NEW s \in Slots, MemoryClose(s) PROVE References'
      <3>1. /\ sess[s] = "open" /\ ~ exited /\ Holders' = Holders \ {s}
            /\ dir[s] \in MemDirs /\ memoryRefs' = memoryRefs - 1
        BY <1>cl, <2>3 DEF MemoryClose, InShared
      <3>2. s \in Holders
        BY <3>1 DEF Holders
      <3>3. IsFiniteSet(Holders) /\ Cardinality(Holders) = memoryRefs /\ memoryRefs \in Nat
        BY <1>t, <3>1 DEF References
      <3>4. IsFiniteSet(Holders \ {s}) /\ Cardinality(Holders \ {s}) = memoryRefs - 1
        BY <3>2, <3>3, FS_RemoveElement
      <3>5. Cardinality(Holders \ {s}) \in Nat
        BY <3>4, FS_CardinalityType
      <3> QED
        BY <3>1, <3>4, <3>5 DEF References
    <2> QED
      BY <1>6, <2>1, <2>2, <2>3 DEF MemoryNext
  <1>7. CASE EngineNext
    BY <1>7, <1>frame DEF EngineNext, EngineStart, EngineCall, EngineCallSettles, EngineClose,
         EngineRelease, engineUnchanged, sessionVars
  <1>8. CASE UNCHANGED vars
    BY <1>8, <1>frame DEF vars, layer1Vars, sessionVars, processVars
  <1> QED
    BY <1>1, <1>2, <1>3, <1>4, <1>5, <1>6, <1>7, <1>8 DEF ProcessNext, Layer1Next

-----------------------------------------------------------------------------
(* What the clients hold: the calls. *)

\* A step of one call that changes neither sessions nor the registry.
LEMMA CallStepKeeps ==
    ASSUME IInv, Clients, NEW c \in Calls,
           UNCHANGED <<registry, sess, dir, handle, waitCancels, streamVars, eng, engConn>>,
           \A w \in Workers \ {c} : worker'[w] = worker[w],
           \A d \in Calls \ {c} : call'[d] = call[d] /\ owner'[d] = owner[d],
           \A s \in Slots, d \in Calls \ {c} : d \in waitOps[s] => d \in waitOps'[s],
           CallOn(c)'
    PROVE  Clients'
  <1>1. Owned'
    BY DEF Clients, Owned, registry
  <1>2. ASSUME NEW d \in Calls PROVE CallOn(d)'
    <2>1. CASE d # c
      BY <2>1, WorkersAre DEF Clients, CallOn, Target, registry
    <2> QED
      BY <2>1
  <1>3. ASSUME NEW t \in Streams PROVE StreamOn(t)'
    BY DEF Clients, StreamOn, streamVars
  <1>4. ASSUME NEW e \in EngineCalls PROVE EngineOn(e)'
    BY KindsAreApart, WorkersAre DEF Clients, EngineOn
  <1> QED
    BY <1>1, <1>2, <1>3, <1>4 DEF Clients

\* A call is dispatched on its owner's connection, or on a default connection
\* opened for it in an empty registry.
LEMMA RunsKeeps ==
    ASSUME IInv, Clients, NEW c \in Calls, NEW o \in Owners, Runs(c, o),
           call[c] # "running", owner' = [owner EXCEPT ![c] = o],
           UNCHANGED <<sessionVars, streamVars, eng, engConn>>
    PROVE  Clients'
  <1>t. RegistryInv /\ Types
    BY DEF IInv
  <1>r. /\ \A w \in Workers \ {c} : worker'[w] = worker[w]
        /\ worker'[c] \in Conns
        /\ call' = [call EXCEPT ![c] = "running"]
        /\ \/ /\ worker'[c] = Target(o) /\ worker'[c] # NoConn
              /\ UNCHANGED registry
           \/ /\ o = Default /\ worker'[c] = defaultConn'
              /\ conns = {} /\ defaultConn = NoConn
              /\ defaultConn' \in Conns /\ conns' = {defaultConn'}
    BY <1>t, RunsOn
  <1>o. /\ \A d \in Calls \ {c} : call'[d] = call[d] /\ owner'[d] = owner[d]
        /\ owner'[c] = o /\ call'[c] = "running"
    BY <1>t, <1>r DEF Types
  <1>u. o \in Slots => sess[o] = "open"
    BY DEF Runs, Usable
  <1>1. CASE UNCHANGED registry /\ worker'[c] = Target(o) /\ worker'[c] # NoConn
    <2>1. CallOn(c)'
      BY <1>1, <1>o, <1>u DEF CallOn, Target, registry, sessionVars
    <2> QED
      BY <1>1, <1>r, <1>o, <2>1, CallStepKeeps DEF sessionVars
  <1>2. CASE /\ o = Default /\ worker'[c] = defaultConn'
             /\ conns = {} /\ defaultConn = NoConn
             /\ defaultConn' \in Conns /\ conns' = {defaultConn'}
    <2>1. (\A s \in Slots : sess[s] = "none") /\ eng = "none" /\ engConn = NoConn
      BY <1>2 DEF Clients, Owned
    <2>2. \A d \in Calls : call[d] # "running"
      <3> SUFFICES ASSUME NEW d \in Calls, call[d] = "running" PROVE FALSE
        OBVIOUS
      <3>1. worker[d] = Target(owner[d]) /\ worker[d] # NoConn /\ owner[d] \notin Slots
        BY <2>1 DEF Clients, CallOn
      <3>2. owner[d] = Default
        BY <1>t, <3>1 DEF Types
      <3> QED
        BY <1>2, <3>1, <3>2 DEF Target
    <2>3. Owned'
      BY <1>2, <2>1 DEF Owned, sessionVars
    <2>4. ASSUME NEW d \in Calls PROVE CallOn(d)'
      <3>1. CASE d = c
        BY <1>2, <1>o, <3>1, RegistryAssumption, SessionsAssumption DEF CallOn, Target
      <3>2. CASE d # c
        BY <1>o, <2>2, <3>2 DEF CallOn
      <3> QED
        BY <3>1, <3>2
    <2>5. ASSUME NEW t \in Streams PROVE StreamOn(t)'
      BY DEF Clients, StreamOn, streamVars, sessionVars
    <2>6. ASSUME NEW e \in EngineCalls PROVE EngineOn(e)'
      BY <1>r, KindsAreApart, WorkersAre DEF Clients, EngineOn
    <2> QED
      BY <2>3, <2>4, <2>5, <2>6 DEF Clients
  <1> QED
    BY <1>1, <1>2, <1>r

\* A step of a call keeps what the clients hold.
LEMMA CallNextKeeps ==
    ASSUME IInv, Clients, CallNext, UNCHANGED processVars
    PROVE  Clients'
  <1>t. Types
    BY DEF IInv
  <1> USE DEF processVars
  <1>1. ASSUME NEW c \in Calls, NEW o \in Owners, StartCall(c, o) PROVE Clients'
    BY <1>1, RunsKeeps DEF StartCall
  <1>2. ASSUME NEW c \in Calls, NEW o \in Owners, QueueParam(c, o) PROVE Clients'
    <2>1. CallOn(c)' /\ \A d \in Calls \ {c} : call'[d] = call[d] /\ owner'[d] = owner[d]
      BY <1>t, <1>2 DEF QueueParam, CallOn, Types
    <2> QED
      BY <1>2, <2>1, CallStepKeeps DEF QueueParam, sessionVars
  <1>3. ASSUME NEW c \in Calls, AnswerEarly(c) PROVE Clients'
    <2>1. CallOn(c)'
      BY <1>3 DEF AnswerEarly, CallOn, Target, Clients, sessionVars, registry
    <2> QED
      BY <1>3, <2>1, CallStepKeeps DEF AnswerEarly, sessionVars
  <1>4. ASSUME NEW c \in Calls, ParamTurn(c) PROVE Clients'
    <2>1. owner[c] \in Owners /\ owner' = [owner EXCEPT ![c] = owner[c]]
      BY <1>t, <1>4 DEF Types, Owners, ParamTurn
    <2>2. /\ Runs(c, owner[c]) /\ call[c] # "running"
          /\ UNCHANGED <<sessionVars, streamVars>>
      BY <1>4 DEF ParamTurn, HasTurn
    <2> QED
      BY <2>1, <2>2, RunsKeeps
  <1>5. ASSUME NEW c \in Calls, ParamRefused(c) PROVE Clients'
    <2>1. /\ call' = [call EXCEPT ![c] = "settled"] /\ UNCHANGED <<owner, worker>>
          /\ UNCHANGED <<registry, sess, dir, handle, waitCancels, streamVars>>
          /\ waitOps' = Without(waitOps, c)
      BY <1>5 DEF ParamRefused, Settle
    <2>2. /\ CallOn(c)' /\ \A d \in Calls \ {c} : call'[d] = call[d]
          /\ \A s \in Slots, d \in Calls \ {c} : d \in waitOps[s] => d \in waitOps'[s]
      BY <1>t, <2>1 DEF CallOn, Types, Without
    <2> QED
      BY <2>1, <2>2, CallStepKeeps
  <1>6. ASSUME NEW c \in Calls, CallSettles(c) PROVE Clients'
    <2>1. /\ call' = [call EXCEPT ![c] = "settled"] /\ owner' = owner
          /\ worker' = [worker EXCEPT ![c] = NoConn]
          /\ UNCHANGED <<registry, sess, dir, handle, waitCancels, streamVars>>
          /\ waitOps' = Without(waitOps, c)
      BY <1>6 DEF CallSettles, Settle, Retire
    <2>2. /\ CallOn(c)' /\ \A d \in Calls \ {c} : call'[d] = call[d]
          /\ \A w \in Workers \ {c} : worker'[w] = worker[w]
          /\ \A s \in Slots, d \in Calls \ {c} : d \in waitOps[s] => d \in waitOps'[s]
      BY <1>t, <2>1 DEF CallOn, Types, Without
    <2> QED
      BY <2>1, <2>2, CallStepKeeps
  <1>7. ASSUME NEW c \in Calls, Untrack(c) PROVE Clients'
    <2>1. /\ CallOn(c)'
          /\ \A d \in Calls \ {c} : call'[d] = call[d] /\ owner'[d] = owner[d]
      BY <1>t, <1>7 DEF Untrack, CallOn, Types
    <2> QED
      BY <1>7, <2>1, CallStepKeeps DEF Untrack, sessionVars
  <1> QED
    BY <1>1, <1>2, <1>3, <1>4, <1>5, <1>6, <1>7 DEF CallNext

-----------------------------------------------------------------------------
(* What the clients hold: the streams. *)

\* A step of one stream.
LEMMA StreamStepKeeps ==
    ASSUME IInv, Clients, NEW t \in Streams,
           UNCHANGED <<registry, sess, dir, handle, callVars, eng, engConn>>,
           \A w \in Workers \ {t} : worker'[w] = worker[w],
           \A u \in Streams \ {t} : /\ streamOf'[u] = streamOf[u] /\ cursor'[u] = cursor[u]
                                    /\ fetch'[u] = fetch[u]
                                    /\ u \in cancelDue' <=> u \in cancelDue,
           \A s \in Slots, u \in Streams \ {t} : u \in waitCancels[s] => u \in waitCancels'[s],
           \A s \in Slots, c \in Calls : c \in waitOps[s] => c \in waitOps'[s],
           StreamOn(t)'
    PROVE  Clients'
  <1>1. Owned'
    BY DEF Clients, Owned, registry
  <1>2. ASSUME NEW d \in Calls PROVE CallOn(d)'
    <2>1. worker'[d] = worker[d]
      BY KindsAreApart, WorkersAre
    <2>2. CallOn(d)
      BY DEF Clients
    <2>3. owner[d] \in Slots \cup {Default}
      BY DEF IInv, Types
    <2> QED
      BY <2>1, <2>2, <2>3 DEF CallOn, Target, registry, callVars
  <1>3. ASSUME NEW u \in Streams PROVE StreamOn(u)'
    <2>1. CASE u # t
      BY <2>1 DEF Clients, StreamOn
    <2> QED
      BY <2>1
  <1>4. ASSUME NEW e \in EngineCalls PROVE EngineOn(e)'
    BY KindsAreApart, WorkersAre DEF Clients, EngineOn
  <1> QED
    BY <1>1, <1>2, <1>3, <1>4 DEF Clients

\* So does a step of a stream, before exit.
LEMMA StreamNextKeeps ==
    ASSUME IInv, Clients, ~ exited, StreamNext, UNCHANGED processVars
    PROVE  Clients'
  <1>t. Types
    BY DEF IInv
  <1> USE DEF processVars
  <1>1. ASSUME NEW t \in Streams, NEW s \in Slots, StartStream(t, s) PROVE Clients'
    <2>1. /\ sess[s] = "open" /\ t \notin cancelDue /\ fetch[t] = "no"
          /\ streamOf' = [streamOf EXCEPT ![t] = s]
          /\ cursor' = [cursor EXCEPT ![t] = handle[s]]
          /\ UNCHANGED <<registry, worker, sessionVars, callVars, fetch, cancelDue>>
      BY <1>1 DEF StartStream, Free
    <2>2. /\ StreamOn(t)'
          /\ \A u \in Streams \ {t} : streamOf'[u] = streamOf[u] /\ cursor'[u] = cursor[u]
      BY <1>t, <2>1, SessionsAssumption DEF StreamOn, Types, sessionVars
    <2> QED
      BY <2>1, <2>2, StreamStepKeeps DEF sessionVars
  <1>2. ASSUME NEW t \in Streams, StartFetch(t) PROVE Clients'
    <2>1. /\ fetch[t] = "no" /\ fetch' = [fetch EXCEPT ![t] = "running"]
          /\ worker' = [worker EXCEPT ![t] = cursor[t]]
          /\ UNCHANGED <<registry, sessionVars, callVars, streamOf, cursor, cancelDue>>
      BY <1>2 DEF StartFetch, Dispatch
    <2>2. /\ \A u \in Streams \ {t} : fetch'[u] = fetch[u]
          /\ \A w \in Workers \ {t} : worker'[w] = worker[w]
      BY <1>t, <2>1 DEF Types
    <2>3. StreamOn(t)'
      BY <1>t, <2>1 DEF Clients, StreamOn, Types, sessionVars
    <2> QED
      BY <2>1, <2>2, <2>3, StreamStepKeeps DEF sessionVars
  <1>3. ASSUME NEW t \in Streams, FetchSettles(t) PROVE Clients'
    <2>1. /\ fetch[t] = "running" /\ fetch' = [fetch EXCEPT ![t] = "settled"]
          /\ worker' = [worker EXCEPT ![t] = NoConn]
          /\ cursor' = cursor \/ cursor' = [cursor EXCEPT ![t] = NoConn]
          /\ waitOps' = Without(waitOps, t)
          /\ UNCHANGED <<registry, sess, dir, handle, waitCancels, callVars, streamOf, cancelDue>>
      BY <1>3 DEF FetchSettles, Retire
    <2>2. /\ \A u \in Streams \ {t} : fetch'[u] = fetch[u] /\ cursor'[u] = cursor[u]
          /\ \A w \in Workers \ {t} : worker'[w] = worker[w]
          /\ \A s \in Slots, c \in Calls : c \in waitOps[s] => c \in waitOps'[s]
      BY <1>t, <2>1, KindsAreApart DEF Types, Without
    <2>3. fetch'[t] = "settled" /\ (cursor'[t] = cursor[t] \/ cursor'[t] = NoConn)
      BY <1>t, <2>1 DEF Types
    <2>4. StreamOn(t)
      BY DEF Clients
    <2>5. StreamOn(t)'
      BY <2>1, <2>3, <2>4 DEF StreamOn
    <2> QED
      BY <2>1, <2>2, <2>5, StreamStepKeeps
  <1>4. ASSUME NEW t \in Streams, FetchReturns(t) PROVE Clients'
    <2>1. /\ fetch' = [fetch EXCEPT ![t] = "no"]
          /\ streamOf' = [streamOf EXCEPT ![t] =
                             IF cursor[t] = NoConn THEN NoSession ELSE streamOf[t]]
          /\ UNCHANGED <<registry, worker, sessionVars, callVars, cursor, cancelDue>>
      BY <1>4 DEF FetchReturns
    <2>2. /\ \A u \in Streams \ {t} : fetch'[u] = fetch[u] /\ streamOf'[u] = streamOf[u]
          /\ streamOf'[t] = IF cursor[t] = NoConn THEN NoSession ELSE streamOf[t]
      BY <1>t, <2>1 DEF Types
    <2>3. StreamOn(t)
      BY DEF Clients
    <2>4. StreamOn(t)'
      BY <2>1, <2>2, <2>3 DEF StreamOn, sessionVars
    <2> QED
      BY <2>1, <2>2, <2>4, StreamStepKeeps DEF sessionVars
  <1>5. ASSUME NEW t \in Streams, CancelStream(t) PROVE Clients'
    <2>1. /\ streamOf[t] # NoSession /\ Cancel({t})
          /\ UNCHANGED <<registry, worker, sessionVars, callVars>>
      BY <1>5 DEF CancelStream
    <2>2. /\ \A u \in Streams \ {t} : /\ fetch'[u] = fetch[u] /\ streamOf'[u] = streamOf[u]
                                      /\ cursor'[u] = cursor[u]
                                      /\ u \in cancelDue' <=> u \in cancelDue
          /\ streamOf'[t] = NoSession
          /\ cursor'[t] # NoConn => cursor'[t] = cursor[t] /\ t \in cancelDue'
      BY <2>1 DEF Cancel
    <2>3. StreamOn(t) /\ streamOf[t] \in Slots
      BY <1>t, <2>1 DEF Clients, Types
    <2>4. StreamOn(t)'
      BY <2>1, <2>2, <2>3 DEF StreamOn, sessionVars
    <2> QED
      BY <2>1, <2>2, <2>4, StreamStepKeeps DEF sessionVars
  <1>6. ASSUME NEW t \in Streams, DeferredCancel(t) PROVE Clients'
    <2>1. /\ t \in cancelDue /\ cancelDue' = cancelDue \ {t}
          /\ cursor' = [cursor EXCEPT ![t] = NoConn]
          /\ waitCancels' = Without(waitCancels, t)
          /\ UNCHANGED <<registry, worker, sess, dir, handle, waitOps, callVars, streamOf, fetch>>
      BY <1>6 DEF DeferredCancel
    <2>2. /\ \A u \in Streams \ {t} : cursor'[u] = cursor[u] /\ (u \in cancelDue' <=> u \in cancelDue)
          /\ \A s \in Slots, u \in Streams \ {t} : u \in waitCancels[s] => u \in waitCancels'[s]
          /\ cursor'[t] = NoConn
      BY <1>t, <2>1 DEF Types, Without
    <2>3. streamOf[t] = NoSession
      BY <2>1 DEF Clients, StreamOn
    <2>4. StreamOn(t)'
      BY <2>1, <2>2, <2>3 DEF StreamOn
    <2> QED
      BY <2>1, <2>2, <2>4, StreamStepKeeps
  <1> QED
    BY <1>1, <1>2, <1>3, <1>4, <1>5, <1>6 DEF StreamNext

-----------------------------------------------------------------------------
(* What the clients hold: sessions and the engine. *)

\* The default connection is evicted only from a registry in which nobody else
\* has a connection and no call runs.
LEMMA EvictionIsAlone ==
    ASSUME IInv, Clients, NEW k, MayBind(k), Evicts
    PROVE  /\ Kept = {}
           /\ \A s \in Slots : sess[s] = "none"
           /\ eng = "none" /\ engConn = NoConn
           /\ \A c \in Calls : call[c] # "running"
  <1>1. conns = {defaultConn} /\ defaultConn # NoConn /\ ~ InFlight(defaultConn)
    BY DEF IInv, RegistryInv, Evicts, MayBind
  <1>2. /\ \A s \in Slots : sess[s] = "none"
        /\ eng = "none" /\ engConn = NoConn
    BY <1>1 DEF Clients, Owned
  <1>3. ASSUME NEW c \in Calls, call[c] = "running" PROVE FALSE
    <2>1. worker[c] = Target(owner[c]) /\ owner[c] \notin Slots
      BY <1>2, <1>3 DEF Clients, CallOn
    <2>2. owner[c] = Default
      BY <2>1 DEF IInv, Types
    <2> QED
      BY <1>1, <2>1, <2>2, WorkersAre DEF Target, InFlight
  <1> QED
    BY <1>1, <1>2, <1>3 DEF Kept, Evicts

\* A registry that takes in another connection, or fails to.
LEMMA AcquireKeeps ==
    ASSUME IInv, Clients, NEW k,
           AcquireSession(k) \/ AcquireFails(k)
    PROVE  /\ Kept \subseteq conns
           /\ defaultConn' = defaultConn \/ \A c \in Calls : call[c] # "running"
           /\ defaultConn' \in Kept \cup {NoConn}
           /\ \A s \in Slots : sess[s] # "none" => handle[s] \in Kept \ {defaultConn', engConn}
           /\ eng # "none" => engConn \in Kept \ {defaultConn'}
           /\ \A c \in Kept : c \in {defaultConn', engConn}
                               \/ \E s \in Slots : sess[s] # "none" /\ handle[s] = c
           /\ AcquireSession(k) => /\ Fresh(Kept) \in Conns \ Kept
                                   /\ conns' = Kept \cup {Fresh(Kept)}
           /\ AcquireFails(k) => conns' = Kept
  <1>0. MayBind(k) /\ defaultConn' = IF Evicts THEN NoConn ELSE defaultConn
    BY DEF AcquireSession, AcquireFails
  <1>1. AcquireSession(k) => Fresh(Kept) \in Conns \ Kept /\ conns' = Kept \cup {Fresh(Kept)}
    BY FreshIsFree DEF AcquireSession, OpenRaw
  <1>2. AcquireFails(k) => conns' = Kept
    BY DEF AcquireFails
  <1>3. CASE Evicts
    <2>1. /\ Kept = {} /\ \A s \in Slots : sess[s] = "none"
          /\ eng = "none" /\ \A c \in Calls : call[c] # "running"
      BY <1>0, <1>3, EvictionIsAlone
    <2>2. defaultConn' = NoConn
      BY <1>0, <1>3
    <2> QED
      BY <1>1, <1>2, <2>1, <2>2
  <1>4. CASE ~ Evicts
    <2>1. Kept = conns /\ defaultConn' = defaultConn
      BY <1>0, <1>4 DEF Kept
    <2>2. defaultConn \in conns \cup {NoConn}
      BY DEF IInv, RegistryInv
    <2>3. eng # "none" => engConn \in conns \ {defaultConn}
      BY DEF Clients, Owned
    <2>4. \A s \in Slots : sess[s] # "none" => handle[s] \in conns \ {defaultConn, engConn}
      BY DEF Clients, Owned
    <2>5. \A c \in conns : c \in {defaultConn, engConn}
                           \/ \E s \in Slots : sess[s] # "none" /\ handle[s] = c
      BY DEF Clients, Owned
    <2> QED
      BY <1>1, <1>2, <2>1, <2>2, <2>3, <2>4, <2>5
  <1> QED
    BY <1>3, <1>4

\* Calls, streams and engine calls that stay as they are while sessions and the
\* registry change around them.
LEMMA UsersKeep ==
    ASSUME IInv, Clients,
           UNCHANGED <<worker, callVars, streamVars>>,
           defaultConn' = defaultConn \/ \A c \in Calls : call[c] # "running",
           engConn' = engConn \/ \A e \in EngineCalls : worker[e] = NoConn,
           \A s \in Slots : sess[s] # "none" => sess'[s] = sess[s] /\ handle'[s] = handle[s],
           waitOps' = waitOps, waitCancels' = waitCancels
    PROVE  /\ \A c \in Calls : CallOn(c)'
           /\ \A t \in Streams : StreamOn(t)'
           /\ \A e \in EngineCalls : EngineOn(e)'
  <1>1. ASSUME NEW c \in Calls PROVE CallOn(c)'
    <2>1. CallOn(c) /\ owner[c] \in Slots \cup {Default}
      BY DEF Clients, IInv, Types
    <2>2. call' = call /\ owner' = owner /\ worker' = worker
      BY DEF callVars
    <2>3. CASE call[c] = "running"
      <3>1. defaultConn' = defaultConn
        BY <2>3
      <3>2. owner[c] \in Slots => handle'[owner[c]] = handle[owner[c]]
        BY <2>1, <2>3 DEF CallOn
      <3>3. Target(owner[c])' = Target(owner[c])
        BY <2>1, <2>2, <3>1, <3>2 DEF Target
      <3>4. owner[c] \in Slots => sess'[owner[c]] = sess[owner[c]]
        BY <2>1, <2>3 DEF CallOn
      <3> QED
        BY <2>1, <2>2, <2>3, <3>3, <3>4 DEF CallOn
    <2>4. CASE call[c] # "running"
      BY <2>2, <2>4 DEF CallOn
    <2> QED
      BY <2>3, <2>4
  <1>2. ASSUME NEW t \in Streams PROVE StreamOn(t)'
    <2>1. StreamOn(t) /\ streamOf[t] \in Slots \cup {NoSession}
      BY DEF Clients, IInv, Types
    <2> QED
      BY <2>1 DEF StreamOn, streamVars
  <1>3. ASSUME NEW e \in EngineCalls PROVE EngineOn(e)'
    BY DEF Clients, EngineOn
  <1> QED
    BY <1>1, <1>2, <1>3

\* So does a session that opens: what it evicts nobody is running on.
LEMMA OpenKeeps ==
    ASSUME IInv, Clients, NEW s \in Slots, NEW k, Open(s, k), eng' = eng, engConn' = engConn
    PROVE  Clients'
  <1>t. Types
    BY DEF IInv
  <1>o. /\ sess[s] = "none" /\ AcquireSession(k)
        /\ sess' = [sess EXCEPT ![s] = "open"]
        /\ handle' = [handle EXCEPT ![s] = Fresh(Kept)]
        /\ UNCHANGED <<worker, waitOps, waitCancels, callVars, streamVars>>
    BY DEF Open
  <1>a. /\ defaultConn' = defaultConn \/ \A c \in Calls : call[c] # "running"
        /\ defaultConn' \in Kept \cup {NoConn}
        /\ \A r \in Slots : sess[r] # "none" => handle[r] \in Kept \ {defaultConn', engConn}
        /\ eng # "none" => engConn \in Kept \ {defaultConn'}
        /\ \A c \in Kept : c \in {defaultConn', engConn}
                            \/ \E r \in Slots : sess[r] # "none" /\ handle[r] = c
        /\ Fresh(Kept) \in Conns \ Kept
        /\ conns' = Kept \cup {Fresh(Kept)}
    BY <1>o, AcquireKeeps
  <1>s. /\ \A r \in Slots \ {s} : sess'[r] = sess[r] /\ handle'[r] = handle[r]
        /\ sess'[s] = "open" /\ handle'[s] = Fresh(Kept)
    BY <1>t, <1>o DEF Types
  <1>e. engConn = NoConn \/ engConn \in Kept
    BY <1>a DEF Clients, Owned
  <1>1. Owned'
    <2>1. \A r \in Slots : sess'[r] # "none" => handle'[r] \in conns' \ {defaultConn', engConn'}
      BY <1>a, <1>s, <1>e, RegistryAssumption
    <2>2. \A q, r \in Slots :
             sess'[q] # "none" /\ sess'[r] # "none" /\ handle'[q] = handle'[r] => q = r
      BY <1>a, <1>s DEF Clients, Owned
    <2>3. IF eng' = "none" THEN engConn' = NoConn ELSE engConn' \in conns' \ {defaultConn'}
      BY <1>a DEF Clients, Owned
    <2>4. \A c \in conns' : c \in {defaultConn', engConn'}
                            \/ \E r \in Slots : sess'[r] # "none" /\ handle'[r] = c
      BY <1>o, <1>a, <1>s
    <2> QED
      BY <2>1, <2>2, <2>3, <2>4 DEF Owned
  <1>2. \A r \in Slots : sess[r] # "none" => sess'[r] = sess[r] /\ handle'[r] = handle[r]
    BY <1>o, <1>s
  <1> QED
    BY <1>o, <1>a, <1>1, <1>2, UsersKeep DEF Clients

\* So does one that fails to.
LEMMA OpenFailsKeeps ==
    ASSUME IInv, Clients, NEW s, NEW k, OpenFails(s, k), eng' = eng, engConn' = engConn
    PROVE  Clients'
  <1>o. AcquireFails(k) /\ UNCHANGED <<worker, sessionVars, callVars, streamVars>>
    BY DEF OpenFails
  <1>a. /\ defaultConn' = defaultConn \/ \A c \in Calls : call[c] # "running"
        /\ \A r \in Slots : sess[r] # "none" => handle[r] \in Kept \ {defaultConn', engConn}
        /\ eng # "none" => engConn \in Kept \ {defaultConn'}
        /\ \A c \in Kept : c \in {defaultConn', engConn}
                            \/ \E r \in Slots : sess[r] # "none" /\ handle[r] = c
        /\ conns' = Kept
    BY <1>o, AcquireKeeps
  <1>1. Owned'
    BY <1>o, <1>a DEF Clients, Owned, sessionVars
  <1> QED
    BY <1>o, <1>a, <1>1, UsersKeep DEF Clients, sessionVars

\* Closing a connection of one session, or the engine's: the others stay.
LEMMA ReleaseRemoves ==
    ASSUME IInv, NEW c \in conns, ReleaseSession(c)
    PROVE  /\ conns' = conns \ {c}
           /\ defaultConn' = IF defaultConn = c THEN NoConn ELSE defaultConn
  BY DEF ReleaseSession, CloseAllOf

\* A session's connection goes, and the session with it.
LEMMA TeardownKeepsOwned ==
    ASSUME IInv, Clients, NEW s \in Slots, NEW also, sess[s] # "none", Teardown(s, also),
           eng' = eng, engConn' = engConn
    PROVE  /\ Owned' /\ defaultConn' = defaultConn
           /\ \A r \in Slots \ {s} : sess'[r] = sess[r] /\ handle'[r] = handle[r]
           /\ sess'[s] = "none"
           /\ conns' = conns \ {handle[s]}
  <1>1. handle[s] \in conns \ {defaultConn, engConn}
    BY DEF Clients, Owned
  <1>2. conns' = conns \ {handle[s]} /\ defaultConn' = defaultConn
    BY <1>1, ReleaseRemoves DEF Teardown
  <1>3. /\ \A r \in Slots \ {s} : sess'[r] = sess[r] /\ handle'[r] = handle[r]
        /\ sess'[s] = "none"
    BY DEF Teardown, IInv, Types
  <1>4. Owned'
    <2>1. \A r \in Slots : sess'[r] # "none" => handle'[r] \in conns' \ {defaultConn', engConn'}
      BY <1>2, <1>3 DEF Clients, Owned
    <2>2. \A q, r \in Slots :
             sess'[q] # "none" /\ sess'[r] # "none" /\ handle'[q] = handle'[r] => q = r
      BY <1>3 DEF Clients, Owned
    <2>3. IF eng' = "none" THEN engConn' = NoConn ELSE engConn' \in conns' \ {defaultConn'}
      BY <1>1, <1>2 DEF Clients, Owned
    <2>4. \A c \in conns' : c \in {defaultConn', engConn'}
                            \/ \E r \in Slots : sess'[r] # "none" /\ handle'[r] = c
      <3> SUFFICES ASSUME NEW c \in conns', c \notin {defaultConn', engConn'}
                   PROVE  \E r \in Slots : sess'[r] # "none" /\ handle'[r] = c
        OBVIOUS
      <3>1. PICK r \in Slots : sess[r] # "none" /\ handle[r] = c
        BY <1>2 DEF Clients, Owned
      <3>2. r # s
        BY <1>2, <3>1
      <3> QED
        BY <1>3, <3>1, <3>2
    <2> QED
      BY <2>1, <2>2, <2>3, <2>4 DEF Owned
  <1> QED
    BY <1>2, <1>3, <1>4

\* close() with nothing pending: no call runs and no stream but its own is left.
LEMMA CloseNowKeeps ==
    ASSUME IInv, Clients, NEW s \in Slots, NEW also, CloseNow(s, also),
           eng' = eng, engConn' = engConn
    PROVE  Clients'
  <1>t. Types
    BY DEF IInv
  <1>c. /\ sess[s] = "open" /\ Drained /\ Cancel(ActiveStream(s)) /\ Teardown(s, also)
        /\ UNCHANGED <<worker, waitOps, waitCancels, callVars>>
    BY DEF CloseNow
  <1>d. /\ \A c \in Calls : call[c] = "idle"
        /\ \A t \in Streams : fetch[t] = "no"
        /\ cancelDue = {}
    BY <1>c DEF Drained, TrackedOps
  <1>o. /\ Owned' /\ defaultConn' = defaultConn
        /\ \A r \in Slots \ {s} : sess'[r] = sess[r] /\ handle'[r] = handle[r]
        /\ sess'[s] = "none"
    BY <1>c, TeardownKeepsOwned
  <1>1. ASSUME NEW c \in Calls PROVE CallOn(c)'
    BY <1>c, <1>d DEF CallOn, callVars
  <1>2. ASSUME NEW t \in Streams PROVE StreamOn(t)'
    <2>1. /\ cancelDue' = {} /\ fetch' = fetch
          /\ streamOf'[t] = IF streamOf[t] = s THEN NoSession ELSE streamOf[t]
          /\ cursor'[t] = IF streamOf[t] = s THEN NoConn ELSE cursor[t]
      BY <1>c, <1>d DEF Cancel, ActiveStream
    <2>2. StreamOn(t) /\ streamOf[t] \in Slots \cup {NoSession}
      BY <1>t DEF Clients, Types
    <2> QED
      BY <1>d, <1>o, <2>1, <2>2 DEF StreamOn
  <1>3. ASSUME NEW e \in EngineCalls PROVE EngineOn(e)'
    BY <1>c DEF Clients, EngineOn
  <1> QED
    BY <1>o, <1>1, <1>2, <1>3 DEF Clients

\* close() over pending operations: the session waits for every call that runs
\* and for every stream handle that waits for its destroy.
LEMMA CloseDeferredKeeps ==
    ASSUME IInv, Clients, NEW s \in Slots, NEW also, CloseDeferred(s, also),
           eng' = eng, engConn' = engConn
    PROVE  Clients'
  <1>t. Types
    BY DEF IInv
  <1>c. /\ sess[s] = "open" /\ Cancel(ActiveStream(s))
        /\ sess' = [sess EXCEPT ![s] = "closing"]
        /\ waitOps' = [waitOps EXCEPT ![s] = Unsettled]
        /\ waitCancels' = [waitCancels EXCEPT ![s] = cancelDue']
        /\ UNCHANGED <<registry, worker, handle, callVars>>
    BY DEF CloseDeferred
  <1>s. /\ \A r \in Slots \ {s} : sess'[r] = sess[r] /\ waitOps'[r] = waitOps[r]
                                 /\ waitCancels'[r] = waitCancels[r]
        /\ sess'[s] = "closing" /\ waitOps'[s] = Unsettled /\ waitCancels'[s] = cancelDue'
    BY <1>t, <1>c DEF Types
  <1>1. Owned'
    BY <1>c, <1>s DEF Clients, Owned, registry
  <1>2. ASSUME NEW c \in Calls PROVE CallOn(c)'
    <2>1. call' = call /\ owner' = owner /\ worker' = worker /\ Target(owner[c])' = Target(owner[c])
      BY <1>c DEF callVars, Target, registry
    <2>2. CASE call[c] = "running"
      <3>1. CallOn(c) /\ c \in Unsettled
        BY <2>2 DEF Clients, Unsettled
      <3> QED
        BY <1>s, <2>1, <2>2, <3>1 DEF CallOn, Target
    <2>3. CASE call[c] # "running"
      BY <2>1, <2>3 DEF CallOn
    <2> QED
      BY <2>2, <2>3
  <1>3. ASSUME NEW t \in Streams PROVE StreamOn(t)'
    <2>1. /\ fetch' = fetch /\ handle' = handle
          /\ t \in cancelDue' <=> t \in cancelDue \/ (streamOf[t] = s /\ fetch[t] # "no")
          /\ streamOf'[t] = IF streamOf[t] = s THEN NoSession ELSE streamOf[t]
          /\ cursor'[t] = IF streamOf[t] = s /\ fetch[t] = "no" THEN NoConn ELSE cursor[t]
      BY <1>c DEF Cancel, ActiveStream
    <2>2. StreamOn(t) /\ streamOf[t] \in Slots \cup {NoSession}
      BY <1>t DEF Clients, Types
    <2>3. CASE streamOf[t] = s
      <3>1. cursor[t] # NoConn => cursor[t] = handle[s]
        BY <2>2, <2>3, SessionsAssumption DEF StreamOn
      <3>2. streamOf'[t] = NoSession
        BY <2>1, <2>3
      <3>3. cursor'[t] # NoConn => t \in cancelDue' /\ cursor'[t] = handle'[s] /\ t \in waitCancels'[s]
        BY <1>s, <2>1, <2>3, <3>1
      <3> QED
        BY <1>s, <3>2, <3>3 DEF StreamOn
    <2>4. CASE streamOf[t] # s
      <3>1. streamOf'[t] = streamOf[t] /\ cursor'[t] = cursor[t] /\ (t \in cancelDue' <=> t \in cancelDue)
        BY <2>1, <2>4
      <3> QED
        BY <1>s, <2>1, <2>2, <2>4, <3>1 DEF StreamOn
    <2> QED
      BY <2>3, <2>4
  <1>4. ASSUME NEW e \in EngineCalls PROVE EngineOn(e)'
    BY <1>c DEF Clients, EngineOn
  <1> QED
    BY <1>1, <1>2, <1>3, <1>4 DEF Clients

\* The deferred teardown: nothing that waited is left on the connection.
LEMMA TeardownKeeps ==
    ASSUME IInv, Clients, NEW s \in Slots, DeferredTeardown(s), eng' = eng, engConn' = engConn
    PROVE  Clients'
  <1>t. Types
    BY DEF IInv
  <1>c. /\ sess[s] = "closing" /\ waitOps[s] = {} /\ waitCancels[s] = {} /\ Teardown(s, {})
        /\ UNCHANGED <<worker, waitOps, waitCancels, callVars, streamVars>>
    BY DEF DeferredTeardown
  <1>o. /\ Owned' /\ defaultConn' = defaultConn
        /\ \A r \in Slots \ {s} : sess'[r] = sess[r] /\ handle'[r] = handle[r]
        /\ sess'[s] = "none"
    BY <1>c, TeardownKeepsOwned
  <1>1. ASSUME NEW c \in Calls PROVE CallOn(c)'
    <2>1. CallOn(c) /\ owner[c] \in Slots \cup {Default}
      BY <1>t DEF Clients, Types
    <2>2. call' = call /\ owner' = owner /\ worker' = worker
      BY <1>c DEF callVars
    <2>3. CASE call[c] = "running"
      <3>1. owner[c] # s
        BY <1>c, <2>1, <2>3 DEF CallOn
      <3>2. Target(owner[c])' = Target(owner[c])
        BY <1>o, <2>1, <2>2, <3>1 DEF Target
      <3> QED
        BY <1>o, <1>c, <2>1, <2>2, <2>3, <3>1, <3>2 DEF CallOn
    <2>4. CASE call[c] # "running"
      BY <2>2, <2>4 DEF CallOn
    <2> QED
      BY <2>3, <2>4
  <1>2. ASSUME NEW t \in Streams PROVE StreamOn(t)'
    <2>1. StreamOn(t) /\ streamOf[t] \in Slots \cup {NoSession}
      BY <1>t DEF Clients, Types
    <2>2. streamOf[t] # NoSession => streamOf[t] # s
      BY <1>c, <2>1 DEF StreamOn
    <2> QED
      BY <1>c, <1>o, <2>1, <2>2 DEF StreamOn, streamVars
  <1>3. ASSUME NEW e \in EngineCalls PROVE EngineOn(e)'
    BY <1>c DEF Clients, EngineOn
  <1> QED
    BY <1>o, <1>1, <1>2, <1>3 DEF Clients

\* So does a step of the durable engine.
LEMMA EngineNextKeeps ==
    ASSUME IInv, Clients, EngineNext
    PROVE  Clients'
  <1>t. Types /\ RegistryInv
    BY DEF IInv
  <1>1. CASE EngineStart
    <2>0. /\ eng = "none" /\ engConn = NoConn
          /\ UNCHANGED <<worker, sessionVars, callVars, streamVars>>
      BY <1>1 DEF EngineStart, engineUnchanged, Clients, Owned
    <2>a. /\ defaultConn' = defaultConn \/ \A c \in Calls : call[c] # "running"
          /\ defaultConn' \in Kept \cup {NoConn}
          /\ \A s \in Slots : sess[s] # "none" => handle[s] \in Kept \ {defaultConn', engConn}
          /\ \A c \in Kept : c \in {defaultConn', engConn}
                              \/ \E s \in Slots : sess[s] # "none" /\ handle[s] = c
          /\ Kept \subseteq conns
      BY <1>1, AcquireKeeps DEF EngineStart
    <2>n. NoConn \notin Kept
      BY <1>t, <2>a, RegistryAssumption DEF RegistryInv
    <2>1. CASE AcquireSession(EngineDir) /\ engConn' = Fresh(Kept) /\ eng' = "open"
      <3>1. Fresh(Kept) \in Conns \ Kept /\ conns' = Kept \cup {Fresh(Kept)}
        BY <2>1, AcquireKeeps
      <3>2. Owned'
        BY <2>0, <2>a, <2>n, <2>1, <3>1, RegistryAssumption DEF Clients, Owned, sessionVars
      <3>3. \A e \in EngineCalls : worker[e] = NoConn
        BY <2>0 DEF Clients, EngineOn
      <3> QED
        BY <2>0, <2>a, <3>2, <3>3, UsersKeep DEF Clients, sessionVars
    <2>2. CASE AcquireFails(EngineDir) /\ UNCHANGED <<eng, engConn>>
      <3>1. conns' = Kept
        BY <2>2, AcquireKeeps
      <3>2. Owned'
        BY <2>0, <2>a, <2>2, <3>1 DEF Clients, Owned, sessionVars
      <3> QED
        BY <2>0, <2>a, <2>2, <3>2, UsersKeep DEF Clients, sessionVars
    <2> QED
      BY <1>1, <2>1, <2>2 DEF EngineStart
  <1>2. ASSUME NEW e \in EngineCalls, EngineCall(e) \/ EngineCallSettles(e)
        PROVE  Clients'
    <2>1. /\ worker' = [worker EXCEPT ![e] = engConn] \/ worker' = [worker EXCEPT ![e] = NoConn]
          /\ UNCHANGED <<registry, eng, engConn, sessionVars, callVars, streamVars>>
      BY <1>2 DEF EngineCall, EngineCallSettles, Dispatch, Retire, engineUnchanged
    <2>2. /\ \A w \in Workers \ {e} : worker'[w] = worker[w]
          /\ worker'[e] # NoConn => worker'[e] = engConn
      BY <1>t, <2>1, WorkersAre DEF Types
    <2>3. Owned'
      BY <2>1 DEF Clients, Owned, registry, sessionVars
    <2>4. ASSUME NEW c \in Calls PROVE CallOn(c)'
      <3>1. worker'[c] = worker[c] /\ CallOn(c) /\ owner[c] \in Slots \cup {Default}
        BY <1>t, <2>2, KindsAreApart, WorkersAre DEF Clients, Types
      <3> QED
        BY <2>1, <3>1 DEF CallOn, Target, registry, sessionVars, callVars
    <2>5. ASSUME NEW t \in Streams PROVE StreamOn(t)'
      BY <2>1 DEF Clients, StreamOn, streamVars, sessionVars
    <2>6. ASSUME NEW d \in EngineCalls PROVE EngineOn(d)'
      BY <2>1, <2>2, WorkersAre DEF Clients, EngineOn
    <2> QED
      BY <2>3, <2>4, <2>5, <2>6 DEF Clients
  <1>3. CASE EngineClose
    <2>1. /\ eng = "open" /\ eng' = "closing"
          /\ UNCHANGED <<registry, worker, engConn, sessionVars, callVars, streamVars>>
      BY <1>3 DEF EngineClose, engineUnchanged
    <2>2. Owned'
      BY <2>1 DEF Clients, Owned, registry, sessionVars
    <2> QED
      BY <2>1, <2>2, UsersKeep DEF Clients, registry, sessionVars
  <1>4. CASE EngineRelease
    <2>1. /\ eng = "closing" /\ eng' = "none" /\ engConn' = NoConn /\ ReleaseSession(engConn)
          /\ \A e \in EngineCalls : worker[e] = NoConn
          /\ UNCHANGED <<worker, sessionVars, callVars, streamVars>>
      BY <1>4 DEF EngineRelease, engineUnchanged
    <2>2. engConn \in conns \ {defaultConn}
      BY <2>1 DEF Clients, Owned
    <2>3. conns' = conns \ {engConn} /\ defaultConn' = defaultConn
      BY <2>1, <2>2, ReleaseRemoves
    <2>n. NoConn \notin conns
      BY <1>t, RegistryAssumption DEF RegistryInv
    <2>4. Owned'
      BY <2>1, <2>2, <2>3, <2>n DEF Clients, Owned, sessionVars
    <2> QED
      BY <2>1, <2>3, <2>4, UsersKeep DEF Clients, sessionVars
  <1> QED
    BY <1>1, <1>2, <1>3, <1>4 DEF EngineNext

\* Held is kept by every step.
LEMMA HeldKept == IInv /\ [ProcessNext]_vars => Held'
  <1> SUFFICES ASSUME IInv, [ProcessNext]_vars, ~ exited' PROVE Clients'
    BY DEF Held
  <1>cl. ASSUME NEW s \in Slots, NEW also, Clients, Close(s, also), eng' = eng, engConn' = engConn
         PROVE  Clients'
    BY <1>cl, CloseNowKeeps, CloseDeferredKeeps DEF Close
  <1>1. CASE CallNext /\ UNCHANGED processVars
    <2>1. ~ exited
      BY <1>1 DEF CallNext, StartCall, QueueParam, AnswerEarly, ParamTurn, ParamRefused,
                  CallSettles, Untrack
    <2> QED
      BY <1>1, <2>1, CallNextKeeps DEF IInv, Held
  <1>2. CASE StreamNext /\ UNCHANGED processVars
    <2>1. ~ exited
      BY <1>2 DEF StreamNext, StartStream, StartFetch, FetchSettles, FetchReturns, CancelStream,
                  DeferredCancel
    <2> QED
      BY <1>2, <2>1, StreamNextKeeps DEF IInv, Held
  <1>3. CASE SessionNext /\ UNCHANGED processVars
    <2>1. PICK s \in Slots : OpenNext(s) \/ Close(s, {}) \/ DeferredTeardown(s)
      BY <1>3 DEF SessionNext
    <2>2. ~ exited
      BY <2>1 DEF OpenNext, Open, OpenFails, Close, CloseNow, CloseDeferred, DeferredTeardown
    <2>3. Clients
      BY <2>2 DEF IInv, Held
    <2>4. CASE OpenNext(s)
      BY <1>3, <2>3, <2>4, OpenKeeps, OpenFailsKeeps DEF OpenNext, processVars
    <2>5. CASE Close(s, {})
      BY <1>3, <1>cl, <2>3, <2>5 DEF processVars
    <2>6. CASE DeferredTeardown(s)
      BY <1>3, <2>3, <2>6, TeardownKeeps DEF processVars
    <2> QED
      BY <2>1, <2>4, <2>5, <2>6
  <1>4. CASE Exit \/ AtExit
    BY <1>4 DEF Exit, AtExit
  <1>5. CASE MemoryNext
    <2>1. PICK s \in Slots : MemoryOpen(s) \/ MemoryOpenFails(s) \/ MemoryClose(s)
      BY <1>5 DEF MemoryNext
    <2>2. ~ exited
      BY <2>1 DEF MemoryOpen, MemoryOpenFails, MemoryClose, Open, OpenFails, Close, CloseNow,
                  CloseDeferred
    <2>3. Clients
      BY <2>2 DEF IInv, Held
    <2>4. CASE MemoryOpen(s)
      BY <2>3, <2>4, OpenKeeps DEF MemoryOpen
    <2>5. CASE MemoryOpenFails(s)
      BY <2>3, <2>5, OpenFailsKeeps DEF MemoryOpenFails, processVars
    <2>6. CASE MemoryClose(s)
      BY <1>cl, <2>3, <2>6 DEF MemoryClose
    <2> QED
      BY <2>1, <2>4, <2>5, <2>6
  <1>6. CASE EngineNext
    <2>1. exited' = exited
      BY <1>6 DEF EngineNext, EngineStart, EngineCall, EngineCallSettles, EngineClose,
                  EngineRelease, engineUnchanged
    <2> QED
      BY <1>6, <2>1, EngineNextKeeps DEF IInv, Held
  <1>7. CASE UNCHANGED vars
    <2>1. /\ UNCHANGED <<registry, worker, sessionVars, callVars, streamVars, eng, engConn>>
          /\ exited' = exited
      BY <1>7 DEF vars, layer1Vars, processVars
    <2>2. Clients
      BY <2>1 DEF IInv, Held
    <2>3. Owned'
      BY <2>1, <2>2 DEF Clients, Owned, registry, sessionVars
    <2> QED
      BY <2>1, <2>2, <2>3, UsersKeep DEF Clients, registry, sessionVars
  <1> QED
    BY <1>1, <1>2, <1>3, <1>4, <1>5, <1>6, <1>7 DEF ProcessNext, Layer1Next

-----------------------------------------------------------------------------
(* The invariant holds. *)

\* The strengthening holds when the process starts.
THEOREM InitIsInductive == ProcessInit => IInv
  <1> SUFFICES ASSUME ProcessInit PROVE IInv
    OBVIOUS
  <1> USE DEF ProcessInit, Init, RegistryInit
  <1>1. RegistryInv
    BY DEF RegistryInv, OneDirectory
  <1>2. Types
    BY DEF Types
  <1>3. Threads
    BY SessionsAssumption DEF Threads
  <1>4. ChainInv
    BY DEF ChainInv
  <1>5. References
    <2>1. Holders = {}
      BY DEF Holders
    <2> QED
      BY <2>1, FS_EmptySet DEF References
  <1>6. Clients
    <2>1. Owned
      BY DEF Owned
    <2>2. \A c \in Calls : CallOn(c)
      BY DEF CallOn
    <2>3. \A t \in Streams : StreamOn(t)
      BY DEF StreamOn
    <2>4. \A e \in EngineCalls : EngineOn(e)
      BY WorkersAre DEF EngineOn
    <2> QED
      BY <2>1, <2>2, <2>3, <2>4 DEF Clients
  <1> QED
    BY <1>1, <1>2, <1>3, <1>4, <1>5, <1>6 DEF IInv, Held

\* And every step of the process, whoever takes it, keeps it.
THEOREM NextIsInductive == IInv /\ [ProcessNext]_vars => IInv'
  BY RegistrySteps, RegistryKept, TypesKept, ThreadsKept, ChainKept, ReferencesKept, HeldKept
  DEF IInv

\* The strengthening holds in every reachable state.
THEOREM Inductive == Spec => []IInv
  BY InitIsInductive, NextIsInductive, PTL DEF Spec

-----------------------------------------------------------------------------
(* The properties. *)

\* Every variable has its type; the count of references to the shared directory
\* never goes below zero.
THEOREM TypeCorrect == Spec => []TypeOK
  <1>1. IInv => TypeOK
    BY DEF IInv, RegistryInv, Types, ChainInv, References, TypeOK, RegistryType
  <1> QED
    BY <1>1, Inductive, PTL

\* All live connections of the process are on the directory recorded as bound.
THEOREM OneDirectoryHolds == Spec => []OneDirectory
  <1>1. IInv => OneDirectory
    BY DEF IInv, RegistryInv
  <1> QED
    BY <1>1, Inductive, PTL

\* A stream handle that is alive points into a connection that is.
THEOREM StreamsWithinConnections == Spec => []StreamWithinConnection
  <1>1. IInv => StreamWithinConnection
    <2> SUFFICES ASSUME IInv, ~ exited, NEW t \in Streams, cursor[t] # NoConn
                 PROVE  cursor[t] \in conns
      BY DEF StreamWithinConnection
    <2>1. Clients /\ Types
      BY DEF IInv, Held
    <2>2. StreamOn(t) /\ streamOf[t] \in Slots \cup {NoSession}
      BY <2>1 DEF Clients, Types
    <2>3. \E s \in Slots : sess[s] # "none" /\ cursor[t] = handle[s]
      BY <2>2 DEF StreamOn
    <2> QED
      BY <2>1, <2>3 DEF Clients, Owned
  <1> QED
    BY <1>1, Inductive, PTL

\* After drainPending nothing runs, nothing waits for a destroy, and every
\* connection is one somebody still uses.
THEOREM DrainedIsIdle == Spec => []DrainMeansIdle
  <1>1. IInv => DrainMeansIdle
    <2> SUFFICES ASSUME IInv, Drained, ~ exited
                 PROVE  /\ \A w \in Calls \cup Streams : worker[w] = NoConn
                        /\ \A t \in Streams : streamOf[t] = NoSession => cursor[t] = NoConn
                        /\ conns \ {defaultConn, engConn} =
                              {handle[s] : s \in {x \in Slots : sess[x] = "open"}}
      BY DEF DrainMeansIdle
    <2>1. Clients /\ Types /\ Threads
      BY DEF IInv, Held
    <2>2. /\ \A c \in Calls : call[c] = "idle"
          /\ \A t \in Streams : fetch[t] = "no"
          /\ cancelDue = {}
          /\ \A s \in Slots : sess[s] # "closing"
      BY DEF Drained, TrackedOps, Closing
    <2>3. \A w \in Calls \cup Streams : worker[w] = NoConn
      BY <2>1, <2>2 DEF Threads
    <2>4. \A t \in Streams : streamOf[t] = NoSession => cursor[t] = NoConn
      BY <2>1, <2>2 DEF Clients, StreamOn
    <2>5. \A s \in Slots : sess[s] # "none" <=> sess[s] = "open"
      BY <2>1, <2>2 DEF Types
    <2>6. conns \ {defaultConn, engConn} = {handle[s] : s \in {x \in Slots : sess[x] = "open"}}
      BY <2>1, <2>5 DEF Clients, Owned
    <2> QED
      BY <2>3, <2>4, <2>6
  <1> QED
    BY <1>1, Inductive, PTL

\* Parameterised calls of the chain exclude each other inside libchdb.
THEOREM ChainExcludes == Spec => []ChainedParamsExclusive
  <1>1. IInv => ChainedParamsExclusive
    BY DEF IInv, ChainedParamsExclusive, Threads, ChainInv
  <1> QED
    BY <1>1, Inductive, PTL

\* The connection a session or the engine gives up has no thread on it.
LEMMA IdleWhenReleased ==
    ASSUME IInv, Clients, ~ exited
    PROVE  /\ \A s \in Slots : sess[s] = "open" /\ Drained => ~ InFlight(handle[s])
           /\ \A s \in Slots :
                 sess[s] = "closing" /\ waitOps[s] = {} /\ waitCancels[s] = {} =>
                    ~ InFlight(handle[s])
           /\ eng # "none" /\ (\A e \in EngineCalls : worker[e] = NoConn) => ~ InFlight(engConn)
  <1>t. Types /\ Threads /\ RegistryInv /\ NoConn \notin conns
    BY RegistryAssumption DEF IInv, RegistryInv
  <1>w. \A w \in Workers : w \in Calls \/ w \in Streams \/ w \in EngineCalls
    BY ProcessAssumption
  <1>e. \A e \in EngineCalls, s \in Slots :
           worker[e] # NoConn /\ sess[s] # "none" => worker[e] # handle[s]
    BY DEF Clients, EngineOn, Owned
  <1>c. ASSUME NEW c \in Calls, worker[c] # NoConn
        PROVE  /\ call[c] = "running" /\ worker[c] = Target(owner[c])
               /\ owner[c] = Default => worker[c] = defaultConn
               /\ owner[c] # Default => /\ owner[c] \in Slots /\ sess[owner[c]] # "none"
                                        /\ worker[c] = handle[owner[c]]
                                        /\ sess[owner[c]] = "closing" => c \in waitOps[owner[c]]
    BY <1>c, <1>t DEF Clients, CallOn, Threads, Types, Target
  <1>s. ASSUME NEW t \in Streams, worker[t] # NoConn
        PROVE  /\ fetch[t] = "running"
               /\ \E s \in Slots : /\ sess[s] # "none" /\ worker[t] = handle[s]
                                   /\ sess[s] = "closing" => t \in waitCancels[s]
    <2>1. fetch[t] = "running" /\ worker[t] = cursor[t]
      BY <1>s, <1>t DEF Threads
    <2>2. StreamOn(t) /\ streamOf[t] \in Slots \cup {NoSession}
      BY <1>t DEF Clients, Types
    <2> QED
      BY <1>s, <2>1, <2>2 DEF StreamOn
  <1>h. \A s \in Slots : sess[s] # "none" =>
           /\ handle[s] # NoConn /\ handle[s] # defaultConn /\ handle[s] # engConn
           /\ \A r \in Slots : sess[r] # "none" /\ handle[r] = handle[s] => r = s
    BY <1>t DEF Clients, Owned
  <1>1. ASSUME NEW s \in Slots, sess[s] = "open", Drained, NEW w \in Workers, worker[w] = handle[s]
        PROVE  FALSE
    <2>1. /\ \A c \in Calls : call[c] = "idle"
          /\ \A t \in Streams : fetch[t] = "no"
      BY <1>1 DEF Drained, TrackedOps
    <2>2. worker[w] # NoConn
      BY <1>1, <1>h
    <2> QED
      BY <1>1, <1>w, <1>e, <1>t, <2>1, <2>2 DEF Threads
  <1>2. ASSUME NEW s \in Slots, sess[s] = "closing", waitOps[s] = {}, waitCancels[s] = {},
               NEW w \in Workers, worker[w] = handle[s]
        PROVE  FALSE
    <2>1. worker[w] # NoConn /\ worker[w] # defaultConn
      BY <1>2, <1>h
    <2>2. CASE w \in Calls
      <3>0. /\ owner[w] = Default => worker[w] = defaultConn
            /\ owner[w] # Default => /\ owner[w] \in Slots /\ sess[owner[w]] # "none"
                                     /\ worker[w] = handle[owner[w]]
                                     /\ sess[owner[w]] = "closing" => w \in waitOps[owner[w]]
        BY <1>c, <2>1, <2>2
      <3>1. /\ owner[w] \in Slots /\ sess[owner[w]] # "none" /\ handle[owner[w]] = handle[s]
            /\ sess[owner[w]] = "closing" => w \in waitOps[owner[w]]
        BY <1>2, <2>1, <3>0
      <3>2. owner[w] = s
        <4>1. sess[s] # "none"
          BY <1>2
        <4> QED
          BY <4>1, <1>h, <3>1
      <3> QED
        BY <1>2, <3>1, <3>2
    <2>3. CASE w \in Streams
      <3>1. PICK r \in Slots : /\ sess[r] # "none" /\ worker[w] = handle[r]
                               /\ sess[r] = "closing" => w \in waitCancels[r]
        BY <1>s, <2>1, <2>3
      <3>2. r = s
        <4>1. sess[s] # "none" /\ handle[r] = handle[s]
          BY <1>2, <3>1, Zenon
        <4> QED
          BY <4>1, <1>h, <3>1
      <3> QED
        BY <1>2, <3>1, <3>2
    <2>4. CASE w \in EngineCalls
      BY <1>2, <1>e, <2>1, <2>4
    <2> QED
      BY <1>w, <2>2, <2>3, <2>4
  <1>3. ASSUME eng # "none", \A e \in EngineCalls : worker[e] = NoConn,
               NEW w \in Workers, worker[w] = engConn
        PROVE  FALSE
    <2>1. engConn \in conns \ {defaultConn} /\ engConn # NoConn
      BY <1>3, <1>t DEF Clients, Owned
    <2>2. CASE w \in Calls
      <3>1. /\ owner[w] = Default => worker[w] = defaultConn
            /\ owner[w] # Default => /\ owner[w] \in Slots /\ sess[owner[w]] # "none"
                                     /\ worker[w] = handle[owner[w]]
        BY <1>3, <1>c, <2>1, <2>2
      <3> QED
        BY <1>3, <1>h, <2>1, <3>1
    <2>3. CASE w \in Streams
      <3>1. PICK r \in Slots : sess[r] # "none" /\ worker[w] = handle[r]
        BY <1>3, <1>s, <2>1, <2>3
      <3> QED
        BY <1>3, <1>h, <3>1
    <2>4. CASE w \in EngineCalls
      BY <1>3, <2>1, <2>4
    <2> QED
      BY <1>w, <2>2, <2>3, <2>4
  <1> QED
    BY <1>1, <1>2, <1>3 DEF InFlight

\* What a step closes: the connection a client gives up, the default one at an
\* eviction, the idle ones at exit, and all of them once no thread is left.
LEMMA StepsCloseIdle == IInv /\ [ProcessNext]_vars => ClosedIdle
  <1> SUFFICES ASSUME IInv, [ProcessNext]_vars PROVE ClosedIdle
    OBVIOUS
  <1>keep. conns \subseteq conns' => ClosedIdle
    BY DEF ClosedIdle
  <1>rel. ASSUME NEW c, ReleaseSession(c), c \in conns => ~ InFlight(c) PROVE ClosedIdle
    BY <1>rel DEF ReleaseSession, CloseAllOf, ClosedIdle, registry
  <1>acq. ASSUME NEW k, AcquireSession(k) \/ AcquireFails(k) PROVE ClosedIdle
    <2>1. MayBind(k) /\ Kept \subseteq conns'
      BY <1>acq DEF AcquireSession, AcquireFails, OpenRaw
    <2>2. CASE Evicts
      <3>1. ~ InFlight(defaultConn)
        BY <2>1, <2>2 DEF MayBind, Evicts
      <3> QED
        BY <2>1, <2>2, <3>1 DEF Kept, ClosedIdle
    <2>3. CASE ~ Evicts
      BY <1>keep, <2>1, <2>3 DEF Kept
    <2> QED
      BY <2>2, <2>3
  <1>run. ASSUME NEW c, NEW o, Runs(c, o) PROVE ClosedIdle
    <2>1. UNCHANGED registry \/ OpenDefault
      BY <1>run DEF Runs
    <2> QED
      BY <1>keep, <2>1 DEF OpenDefault, registry
  <1>cl. ASSUME NEW s \in Slots, NEW also, Close(s, also) PROVE ClosedIdle
    <2>1. CASE CloseNow(s, also)
      <3>1. sess[s] = "open" /\ Drained /\ ~ exited /\ ReleaseSession(handle[s])
        BY <2>1 DEF CloseNow, Teardown
      <3>2. ~ InFlight(handle[s])
        BY <3>1, IdleWhenReleased DEF IInv, Held
      <3> QED
        BY <1>rel, <3>1, <3>2
    <2>2. CASE CloseDeferred(s, also)
      BY <1>keep, <2>2 DEF CloseDeferred, registry
    <2> QED
      BY <1>cl, <2>1, <2>2 DEF Close
  <1>op. ASSUME NEW s, NEW k, Open(s, k) \/ OpenFails(s, k) PROVE ClosedIdle
    BY <1>acq, <1>op DEF Open, OpenFails
  <1>1. CASE CallNext
    BY <1>1, <1>run, <1>keep DEF CallNext, StartCall, QueueParam, AnswerEarly, ParamTurn,
         ParamRefused, CallSettles, Untrack, registry
  <1>2. CASE StreamNext
    BY <1>2, <1>keep DEF StreamNext, StartStream, StartFetch, FetchSettles, FetchReturns,
         CancelStream, DeferredCancel, registry
  <1>3. CASE SessionNext
    <2>1. ASSUME NEW s \in Slots, DeferredTeardown(s) PROVE ClosedIdle
      <3>1. /\ sess[s] = "closing" /\ waitOps[s] = {} /\ waitCancels[s] = {} /\ ~ exited
            /\ ReleaseSession(handle[s])
        BY <2>1 DEF DeferredTeardown, Teardown
      <3>2. ~ InFlight(handle[s])
        BY <3>1, IdleWhenReleased DEF IInv, Held
      <3> QED
        BY <1>rel, <3>1, <3>2
    <2> QED
      BY <1>3, <1>op, <1>cl, <2>1 DEF SessionNext, OpenNext
  <1>4. CASE Exit
    <2> DEFINE released == {handle[s] : s \in {x \in Slots : Drained /\ sess[x] = "open"}}
    <2>1. ~ exited /\ ExitTeardown(released)
      BY <1>4 DEF Exit
    <2>2. \A c \in released : ~ InFlight(c)
      BY <2>1, IdleWhenReleased DEF IInv, Held
    <2> QED
      BY <2>1, <2>2 DEF ExitTeardown, CloseAllOf, ClosedIdle
  <1>5. CASE AtExit
    <2>1. \A w \in Workers : worker[w] = NoConn
      BY <1>5 DEF AtExit
    <2>2. NoConn \notin conns
      BY RegistryAssumption DEF IInv, RegistryInv
    <2> QED
      BY <2>1, <2>2 DEF ClosedIdle, InFlight
  <1>6. CASE MemoryNext
    BY <1>6, <1>op, <1>cl DEF MemoryNext, MemoryOpen, MemoryOpenFails, MemoryClose
  <1>7. CASE EngineNext
    <2>1. CASE EngineStart
      BY <1>acq, <2>1 DEF EngineStart
    <2>2. CASE EngineRelease
      <3>1. /\ eng = "closing" /\ ~ exited /\ \A e \in EngineCalls : worker[e] = NoConn
            /\ ReleaseSession(engConn)
        BY <2>2 DEF EngineRelease
      <3>2. ~ InFlight(engConn)
        BY <3>1, IdleWhenReleased DEF IInv, Held
      <3> QED
        BY <1>rel, <3>1, <3>2
    <2>3. CASE EngineClose \/ \E e \in EngineCalls : EngineCall(e) \/ EngineCallSettles(e)
      BY <1>keep, <2>3 DEF EngineClose, EngineCall, EngineCallSettles, registry
    <2> QED
      BY <1>7, <2>1, <2>2, <2>3 DEF EngineNext
  <1>8. CASE UNCHANGED vars
    BY <1>8, <1>keep DEF vars, layer1Vars, registry
  <1> QED
    BY <1>1, <1>2, <1>3, <1>4, <1>5, <1>6, <1>7, <1>8 DEF ProcessNext, Layer1Next

\* No connection is closed under a running call, by whichever of the five ways
\* the code has to close one.
THEOREM NothingClosedUnderCalls == Spec => NoCloseUnderCall
  <1>1. IInv /\ [ProcessNext]_vars => [ClosedIdle]_vars
    BY StepsCloseIdle
  <1> QED
    BY <1>1, Inductive, PTL DEF Spec, NoCloseUnderCall

\* Only a fetch's own worker frees a stream handle it is executing on.
THEOREM NothingFreedUnderFetches == Spec => NoFreeUnderFetch
  <1> DEFINE A == \A t \in Streams :
                     fetch[t] = "running" /\ cursor'[t] # cursor[t] => fetch'[t] = "settled"
  <1>1. IInv /\ [ProcessNext]_vars => [A]_vars
    <2> SUFFICES ASSUME IInv, [ProcessNext]_vars PROVE A
      OBVIOUS
    <2>t. Types
      BY DEF IInv
    <2>can. \A ts : Cancel(ts) => A
      BY DEF Cancel
    <2>same. cursor' = cursor => A
      OBVIOUS
    <2>cl. \A s, also : Close(s, also) => A
      BY <2>can DEF Close, CloseNow, CloseDeferred
    <2>1. CASE CallNext
      <3>1. cursor' = cursor
        BY <2>1 DEF CallNext, StartCall, QueueParam, AnswerEarly, ParamTurn, ParamRefused,
             CallSettles, Untrack, streamVars
      <3> QED
        BY <2>same, <3>1
    <2>2. CASE StreamNext
      <3>1. ASSUME NEW t \in Streams, NEW s \in Slots, StartStream(t, s) PROVE A
        BY <2>t, <3>1 DEF StartStream, Free, Types
      <3>2. ASSUME NEW t \in Streams, StartFetch(t) \/ FetchReturns(t) PROVE A
        BY <3>2, <2>same DEF StartFetch, FetchReturns
      <3>3. ASSUME NEW t \in Streams, FetchSettles(t) PROVE A
        BY <2>t, <3>3 DEF FetchSettles, Types
      <3>4. ASSUME NEW t \in Streams, CancelStream(t) PROVE A
        BY <2>can, <3>4 DEF CancelStream
      <3>5. ASSUME NEW t \in Streams, DeferredCancel(t) PROVE A
        BY <2>t, <3>5 DEF DeferredCancel, Types
      <3> QED
        BY <2>2, <3>1, <3>2, <3>3, <3>4, <3>5 DEF StreamNext
    <2>3. CASE SessionNext
      BY <2>3, <2>cl, <2>same DEF SessionNext, OpenNext, Open, OpenFails, DeferredTeardown, streamVars
    <2>4. CASE Exit
      BY <2>4, <2>can DEF Exit
    <2>5. CASE AtExit
      BY <2>5, <2>same DEF AtExit, streamVars
    <2>6. CASE MemoryNext
      BY <2>6, <2>cl, <2>same DEF MemoryNext, MemoryOpen, MemoryOpenFails, MemoryClose, Open, OpenFails, streamVars
    <2>7. CASE EngineNext
      <3>1. cursor' = cursor
        BY <2>7 DEF EngineNext, EngineStart, EngineCall, EngineCallSettles, EngineClose,
             EngineRelease, engineUnchanged, streamVars
      <3> QED
        BY <2>same, <3>1
    <2>8. CASE UNCHANGED vars
      BY <2>8, <2>same DEF vars, layer1Vars, streamVars
    <2> QED
      BY <2>1, <2>2, <2>3, <2>4, <2>5, <2>6, <2>7, <2>8 DEF ProcessNext, Layer1Next
  <1> QED
    BY <1>1, Inductive, PTL DEF Spec, NoFreeUnderFetch

\* A queued call whose caller has its answer never reaches libchdb.
THEOREM AnsweredCallsStayOut == Spec => NoSideEffectAfterAnswer
  <1> DEFINE A == \A c \in answered : call[c] = "queued" => worker'[c] = NoConn
  <1>1. IInv /\ [ProcessNext]_vars => [A]_vars
    <2> SUFFICES ASSUME IInv, [ProcessNext]_vars, NEW c \in answered, call[c] = "queued"
                 PROVE  worker'[c] = NoConn
      OBVIOUS
    <2>t. Types /\ RegistryInv /\ c \in Calls /\ worker[c] = NoConn
      BY DEF IInv, ChainInv, Threads
    <2>same. worker' = worker => worker'[c] = NoConn
      BY <2>t
    <2>other. ASSUME NEW w, NEW x, w # c, worker' = [worker EXCEPT ![w] = x]
              PROVE  worker'[c] = NoConn
      BY <2>t, <2>other, WorkersAre DEF Types
    <2>run. ASSUME NEW d \in Calls, NEW o \in Owners, Runs(d, o), d # c PROVE worker'[c] = NoConn
      BY <2>t, <2>run, RunsOn, WorkersAre
    <2>ret. ASSUME NEW w, Retire(w) PROVE worker'[c] = NoConn
      BY <2>t, <2>ret, WorkersAre DEF Retire, Types
    <2>1. CASE CallNext
      <3>1. ASSUME NEW d \in Calls, NEW o \in Owners, StartCall(d, o) PROVE worker'[c] = NoConn
        BY <2>run, <3>1 DEF StartCall
      <3>2. ASSUME NEW d \in Calls, ParamTurn(d) PROVE worker'[c] = NoConn
        <4>1. owner[d] \in Owners /\ d # c
          BY <2>t, <3>2 DEF Types, Owners, ParamTurn
        <4> QED
          BY <2>run, <3>2, <4>1 DEF ParamTurn
      <3>3. ASSUME NEW d \in Calls, CallSettles(d) PROVE worker'[c] = NoConn
        BY <2>ret, <3>3 DEF CallSettles
      <3>4. ASSUME NEW d \in Calls, NEW o,
                   QueueParam(d, o) \/ AnswerEarly(d) \/ ParamRefused(d) \/ Untrack(d)
            PROVE  worker'[c] = NoConn
        BY <2>same, <3>4 DEF QueueParam, AnswerEarly, ParamRefused, Untrack
      <3> QED
        BY <2>1, <3>1, <3>2, <3>3, <3>4 DEF CallNext
    <2>2. CASE StreamNext
      <3>1. ASSUME NEW t \in Streams, StartFetch(t) PROVE worker'[c] = NoConn
        BY <2>t, <2>other, <3>1, KindsAreApart DEF StartFetch, Dispatch
      <3>2. ASSUME NEW t \in Streams, FetchSettles(t) PROVE worker'[c] = NoConn
        BY <2>ret, <3>2 DEF FetchSettles
      <3>3. ASSUME NEW t \in Streams,
                   (\E s \in Slots : StartStream(t, s)) \/ FetchReturns(t) \/ CancelStream(t)
                   \/ DeferredCancel(t)
            PROVE  worker'[c] = NoConn
        BY <2>same, <3>3 DEF StartStream, FetchReturns, CancelStream, DeferredCancel
      <3> QED
        BY <2>2, <3>1, <3>2, <3>3 DEF StreamNext
    <2>3. CASE SessionNext \/ Exit \/ AtExit \/ MemoryNext
      <3>1. worker' = worker
        BY <2>3 DEF SessionNext, OpenNext, Open, OpenFails, Close, CloseNow, CloseDeferred,
             DeferredTeardown, Exit, AtExit, MemoryNext, MemoryOpen, MemoryOpenFails, MemoryClose
      <3> QED
        BY <2>same, <3>1
    <2>4. CASE EngineNext
      <3>1. ASSUME NEW e \in EngineCalls, EngineCall(e) PROVE worker'[c] = NoConn
        BY <2>t, <2>other, <3>1, KindsAreApart DEF EngineCall, Dispatch
      <3>2. ASSUME NEW e \in EngineCalls, EngineCallSettles(e) PROVE worker'[c] = NoConn
        BY <2>ret, <3>2 DEF EngineCallSettles
      <3>3. CASE EngineStart \/ EngineClose \/ EngineRelease
        BY <2>same, <3>3 DEF EngineStart, EngineClose, EngineRelease
      <3> QED
        BY <2>4, <3>1, <3>2, <3>3 DEF EngineNext
    <2>5. CASE UNCHANGED vars
      BY <2>5, <2>same DEF vars, layer1Vars
    <2> QED
      BY <2>1, <2>2, <2>3, <2>4, <2>5 DEF ProcessNext, Layer1Next
  <1> QED
    BY <1>1, Inductive, PTL DEF Spec, NoSideEffectAfterAnswer


-----------------------------------------------------------------------------
(* The directories the library makes.                                      *)

\* Whoever holds a connection holds it on the bound directory: a session on its own, the engine on its
\* data path, the default connection on none.
Bound ==
    /\ \A s \in Slots : sess[s] # "none" => dir[s] = boundKey
    /\ eng # "none" => boundKey = EngineDir
    /\ defaultConn # NoConn => boundKey = InMemory

\* A temporary directory belongs to the session it was made for, and lasts as long as that.
Scratch ==
    /\ \A s \in Slots : dir[s] \in Slots => dir[s] = s
    /\ disk \cap Slots = {s \in Slots : sess[s] # "none" /\ dir[s] = s}

\* The shared directory is the one its holders are on, and is there while it has a name.
Shared ==
    /\ memoryDir \in MemDirs \cup {NoDir}
    /\ disk \cap MemDirs = {memoryDir} \ {NoDir}
    /\ \A s \in Holders : dir[s] = memoryDir
    /\ memoryDir # NoDir => Holders # {}

\* Until the process exits.
DirsInv == ~ exited => Bound /\ Scratch /\ Shared

\* A holder of a connection that keeps it keeps the directory bound.
LEMMA BoundStays ==
    ASSUME RegistryInv, RegistryStep, NEW c, c \in conns, c \in conns', c # defaultConn
    PROVE  boundKey' = boundKey
  <1>1. boundKey # InMemory /\ conns # {}
    BY DEF RegistryInv
  <1>2. ASSUME NEW k, AcquireSession(k) PROVE boundKey' = boundKey
    BY <1>1, <1>2 DEF AcquireSession, MayBind, OpenRaw
  <1>3. ASSUME NEW cs, CloseAllOf(cs) PROVE boundKey' = boundKey
    BY <1>3 DEF CloseAllOf
  <1> QED
    BY <1>1, <1>2, <1>3 DEF RegistryStep, registry, AcquireFails, OpenDefault

\* A default connection is there only while no directory is bound.
LEMMA DefaultIsUnbound ==
    ASSUME RegistryInv, RegistryStep, Bound, defaultConn' # NoConn
    PROVE  boundKey' = InMemory
  <1>1. ASSUME NEW k, AcquireSession(k) PROVE boundKey' = InMemory
    <2>1. defaultConn' = IF Evicts THEN NoConn ELSE defaultConn
      BY <1>1 DEF AcquireSession
    <2>2. ~ Evicts /\ defaultConn # NoConn
      BY <2>1
    <2> QED
      BY <2>2 DEF Bound, Evicts, RegistryInv
  <1>2. ASSUME NEW cs, CloseAllOf(cs) PROVE boundKey' = InMemory
    BY <1>2 DEF CloseAllOf, Bound
  <1>3. ASSUME NEW k, AcquireFails(k) PROVE boundKey' = InMemory
    BY <1>3 DEF AcquireFails, Bound
  <1>4. CASE OpenDefault
    BY <1>4 DEF OpenDefault, OpenRaw
  <1> QED
    BY <1>1, <1>2, <1>3, <1>4 DEF RegistryStep, registry, Bound

\* A session that is there after a step was just opened on the bound directory, or had the same connection
\* on the same directory.
StaysOn(s) ==
    sess'[s] # "none" =>
        \/ sess[s] # "none" /\ dir'[s] = dir[s] /\ handle'[s] = handle[s]
        \/ dir'[s] = boundKey'

\* Whatever the step.
LEMMA SessionMoves ==
    ASSUME IInv, [ProcessNext]_vars, ~ exited', NEW s \in Slots
    PROVE  StaysOn(s)
  <1>t. /\ sess \in [Slots -> {"none", "open", "closing"}]
        /\ dir \in [Slots -> {InMemory} \cup Dirs \cup Slots \cup MemDirs]
        /\ handle \in [Slots -> Conns \cup {NoConn}]
    BY DEF IInv, Types
  <1>frame. ASSUME UNCHANGED <<sess, dir, handle>> PROVE StaysOn(s)
    BY <1>frame DEF StaysOn
  <1>op. ASSUME NEW r \in Slots, NEW k, Open(r, k) PROVE StaysOn(s)
    BY <1>op, <1>t DEF Open, AcquireSession, OpenRaw, StaysOn
  <1>td. ASSUME NEW r \in Slots, NEW also, Teardown(r, also) PROVE StaysOn(s)
    BY <1>td, <1>t DEF Teardown, StaysOn
  <1>cl. ASSUME NEW r \in Slots, NEW also, Close(r, also) PROVE StaysOn(s)
    <2>1. CASE CloseNow(r, also)
      BY <2>1, <1>td DEF CloseNow
    <2>2. CASE CloseDeferred(r, also)
      BY <1>t, <2>2 DEF CloseDeferred, StaysOn
    <2> QED
      BY <1>cl, <2>1, <2>2 DEF Close
  <1>1. CASE CallNext
    BY <1>1, <1>frame DEF CallNext, StartCall, QueueParam, AnswerEarly, ParamTurn, ParamRefused,
         CallSettles, Untrack, Settle, sessionVars
  <1>2. CASE StreamNext
    BY <1>2, <1>frame DEF StreamNext, StartStream, StartFetch, FetchSettles, FetchReturns,
         CancelStream, DeferredCancel, sessionVars
  <1>3. CASE SessionNext
    <2>1. ASSUME NEW r \in Slots, NEW k, OpenFails(r, k) PROVE StaysOn(s)
      BY <1>frame, <2>1 DEF OpenFails, sessionVars
    <2>2. ASSUME NEW r \in Slots, DeferredTeardown(r) PROVE StaysOn(s)
      BY <1>td, <2>2 DEF DeferredTeardown
    <2>3. ASSUME NEW r \in Slots, OpenNext(r) PROVE StaysOn(s)
      BY <1>op, <2>1, <2>3 DEF OpenNext
    <2>4. ASSUME NEW r \in Slots, Close(r, {}) PROVE StaysOn(s)
      BY <1>cl, <2>4
    <2> QED
      BY <1>3, <2>2, <2>3, <2>4 DEF SessionNext
  <1>4. CASE Exit
    BY <1>4 DEF Exit
  <1>5. CASE AtExit
    BY <1>5, <1>frame DEF AtExit, sessionVars
  <1>6. CASE MemoryNext
    <2>1. ASSUME NEW r \in Slots, MemoryOpenFails(r) PROVE StaysOn(s)
      BY <1>frame, <2>1 DEF MemoryOpenFails, OpenFails, sessionVars
    <2>2. ASSUME NEW r \in Slots, MemoryOpen(r) PROVE StaysOn(s)
      BY <1>op, <2>2 DEF MemoryOpen
    <2>3. ASSUME NEW r \in Slots, MemoryClose(r) PROVE StaysOn(s)
      BY <1>cl, <2>3 DEF MemoryClose
    <2> QED
      BY <1>6, <2>1, <2>2, <2>3 DEF MemoryNext
  <1>7. CASE EngineNext
    BY <1>7, <1>frame DEF EngineNext, EngineStart, EngineCall, EngineCallSettles, EngineClose,
         EngineRelease, engineUnchanged, sessionVars
  <1>8. CASE UNCHANGED vars
    BY <1>8, <1>frame DEF vars, layer1Vars, sessionVars
  <1> QED
    BY <1>1, <1>2, <1>3, <1>4, <1>5, <1>6, <1>7, <1>8 DEF ProcessNext, Layer1Next

\* An engine not closed after a step was just started, or had the same connection.
LEMMA EngineMoves ==
    ASSUME IInv, [ProcessNext]_vars, eng' # "none"
    PROVE  \/ eng # "none" /\ engConn' = engConn
           \/ boundKey' = EngineDir
  <1>1. CASE UNCHANGED <<eng, engConn>>
    BY <1>1
  <1>2. CASE EngineNext
    BY <1>2 DEF EngineNext, EngineStart, EngineCall, EngineCallSettles, EngineClose,
         EngineRelease, AcquireSession, OpenRaw
  <1> QED
    BY <1>1, <1>2 DEF ProcessNext, processVars, MemoryNext, MemoryOpen, MemoryOpenFails, MemoryClose,
         vars

\* The process does not come back.
LEMMA ExitIsFinal ==
    ASSUME [ProcessNext]_vars, ~ exited'
    PROVE  ~ exited
  BY DEF ProcessNext, Layer1Next, CallNext, StreamNext, SessionNext, MemoryNext, EngineNext,
     StartCall, QueueParam, AnswerEarly, ParamTurn, ParamRefused, CallSettles, Untrack,
     StartStream, StartFetch, FetchSettles, FetchReturns, CancelStream, DeferredCancel,
     OpenNext, Open, OpenFails, Close, CloseNow, CloseDeferred, DeferredTeardown, Exit, AtExit,
     MemoryOpen, MemoryOpenFails, MemoryClose,
     EngineStart, EngineCall, EngineCallSettles, EngineClose, EngineRelease, engineUnchanged,
     vars, layer1Vars

\* What every holder says of the bound directory stays true.
LEMMA BoundKept ==
    ASSUME IInv, IInv', DirsInv, [ProcessNext]_vars, ~ exited'
    PROVE  Bound'
  <1>1. RegistryInv /\ RegistryStep /\ ~ exited /\ Bound
    BY RegistrySteps, ExitIsFinal DEF IInv, DirsInv
  <1>2. Owned /\ Owned'
    BY <1>1 DEF IInv, Held, Clients
  <1>3. ASSUME NEW s \in Slots, sess'[s] # "none" PROVE dir'[s] = boundKey'
    <2>1. CASE sess[s] # "none" /\ dir'[s] = dir[s] /\ handle'[s] = handle[s]
      <3>1. PICK c : c = handle[s]
        OBVIOUS
      <3>2. c \in conns /\ c \in conns' /\ c # defaultConn
        BY <1>2, <1>3, <2>1, <3>1 DEF Owned
      <3> QED
        BY <1>1, <2>1, <3>2, BoundStays DEF Bound
    <2> QED
      BY <1>3, <2>1, SessionMoves DEF StaysOn
  <1>4. ASSUME eng' # "none" PROVE boundKey' = EngineDir
    <2>1. CASE eng # "none" /\ engConn' = engConn
      <3>1. PICK c : c = engConn
        OBVIOUS
      <3>2. c \in conns /\ c \in conns' /\ c # defaultConn
        BY <1>2, <1>4, <2>1, <3>1 DEF Owned
      <3> QED
        BY <1>1, <2>1, <3>2, BoundStays DEF Bound
    <2> QED
      BY <1>4, <2>1, EngineMoves
  <1>5. defaultConn' # NoConn => boundKey' = InMemory
    BY <1>1, DefaultIsUnbound
  <1> QED
    BY <1>3, <1>4, <1>5 DEF Bound

\* Temporary directories come with their sessions and go with them.
LEMMA ScratchKept ==
    ASSUME IInv, DirsInv, [ProcessNext]_vars, ~ exited'
    PROVE  (Scratch /\ Shared)'
  <1>t. /\ sess \in [Slots -> {"none", "open", "closing"}]
        /\ dir \in [Slots -> {InMemory} \cup Dirs \cup Slots \cup MemDirs]
        /\ ~ exited /\ Scratch /\ Shared /\ References
    BY ExitIsFinal DEF IInv, Types, DirsInv
  <1>n. /\ InMemory \notin Slots /\ InMemory \notin MemDirs /\ Dirs \cap Slots = {}
        /\ MemDirs \cap Slots = {} /\ MemDirs \cap Dirs = {}
    BY SessionsAssumption, ProcessAssumption
  <1>frame. ASSUME UNCHANGED <<sess, dir, disk, memoryDir>> PROVE (Scratch /\ Shared)'
    BY <1>frame, <1>t DEF Scratch, Shared, Holders
  <1>of. ASSUME NEW s, NEW k, OpenFails(s, k), UNCHANGED processVars PROVE (Scratch /\ Shared)'
    BY <1>frame, <1>of DEF OpenFails, sessionVars, processVars
  <1>op. ASSUME NEW s \in Slots, NEW k, Open(s, k)
         PROVE  /\ sess[s] = "none" /\ sess' = [sess EXCEPT ![s] = "open"]
                /\ dir' = [dir EXCEPT ![s] = k]
                /\ disk' = IF k \notin Dirs THEN disk \cup {k} ELSE disk
    BY <1>op DEF Open, Removable
  <1>cl. ASSUME NEW s \in Slots, NEW also, Close(s, also)
         PROVE  /\ sess[s] = "open"
                /\ \/ /\ sess' = [sess EXCEPT ![s] = "none"] /\ dir' = [dir EXCEPT ![s] = InMemory]
                      /\ disk' = disk \ (also \cup {k \in {dir[s]} : k = s})
                   \/ sess' = [sess EXCEPT ![s] = "closing"] /\ dir' = dir /\ disk' = disk \ also
    BY <1>cl DEF Close, CloseNow, CloseDeferred, Teardown
  <1>cs. ASSUME NEW s \in Slots, NEW also, Close(s, also), also \cap Slots = {} PROVE Scratch'
    <2>1. dir[s] = s <=> s \in {k \in {dir[s]} : k = s}
      OBVIOUS
    <2> QED
      BY <1>t, <1>n, <1>cl, <1>cs, <2>1 DEF Scratch
  <1>1. CASE CallNext /\ UNCHANGED processVars
    BY <1>1, <1>frame DEF CallNext, StartCall, QueueParam, AnswerEarly, ParamTurn, ParamRefused,
         CallSettles, Untrack, Settle, sessionVars, processVars
  <1>2. CASE StreamNext /\ UNCHANGED processVars
    BY <1>2, <1>frame DEF StreamNext, StartStream, StartFetch, FetchSettles, FetchReturns,
         CancelStream, DeferredCancel, sessionVars, processVars
  <1>3. CASE SessionNext /\ UNCHANGED processVars
    <2>1. ASSUME NEW s \in Slots, OpenNext(s) PROVE (Scratch /\ Shared)'
      <3>1. ASSUME NEW k \in Dirs \cup {s}, Open(s, k) PROVE (Scratch /\ Shared)'
        <4>1. Scratch'
          BY <1>t, <1>n, <1>op, <3>1 DEF Scratch
        <4>2. Holders' = Holders
          BY <1>t, <1>n, <1>op, <3>1 DEF Holders
        <4>3. disk' \cap MemDirs = disk \cap MemDirs
          BY <1>n, <1>op, <3>1
        <4>4. \A r \in Holders : dir'[r] = dir[r]
          BY <1>t, <1>op, <3>1 DEF Holders
        <4>5. Shared'
          BY <1>3, <1>t, <4>2, <4>3, <4>4 DEF Shared, processVars
        <4> QED
          BY <4>1, <4>5
      <3> QED
        BY <1>3, <1>of, <2>1, <3>1 DEF OpenNext
    <2>2. ASSUME NEW s \in Slots, ~ InShared(s), Close(s, {}) PROVE (Scratch /\ Shared)'
      <3>1. Scratch'
        BY <1>cs, <2>2
      <3>2. Holders' = Holders /\ \A r \in Holders : dir'[r] = dir[r]
        BY <1>t, <1>n, <1>cl, <2>2 DEF Holders, InShared
      <3>3. disk' \cap MemDirs = disk \cap MemDirs
        BY <1>n, <1>cl, <2>2
      <3>4. Shared'
        BY <1>3, <1>t, <3>2, <3>3 DEF Shared, processVars
      <3> QED
        BY <3>1, <3>4
    <2>3. ASSUME NEW s \in Slots, DeferredTeardown(s) PROVE (Scratch /\ Shared)'
      <3>1. /\ sess[s] = "closing" /\ sess' = [sess EXCEPT ![s] = "none"]
            /\ dir' = [dir EXCEPT ![s] = InMemory]
            /\ disk' = disk \ {k \in {dir[s]} : k = s}
        BY <2>3 DEF DeferredTeardown, Teardown
      <3>2. Scratch'
        BY <1>t, <1>n, <3>1 DEF Scratch
      <3>3. Holders' = Holders /\ \A r \in Holders : dir'[r] = dir[r]
        BY <1>t, <3>1 DEF Holders
      <3>4. disk' \cap MemDirs = disk \cap MemDirs
        BY <1>n, <3>1
      <3>5. Shared'
        BY <1>3, <1>t, <3>3, <3>4 DEF Shared, processVars
      <3> QED
        BY <3>2, <3>5
    <2> QED
      BY <1>3, <2>1, <2>2, <2>3 DEF SessionNext
  <1>4. CASE Exit
    BY <1>4 DEF Exit
  <1>5. CASE AtExit /\ UNCHANGED processVars
    BY <1>5, <1>frame DEF AtExit, sessionVars, processVars
  <1>6. CASE MemoryNext
    <2>1. ASSUME NEW s \in Slots, MemoryOpen(s) PROVE (Scratch /\ Shared)'
      <3>1. PICK m \in MemDirs : SharedDir(m) /\ Open(s, m) /\ memoryDir' = m
        BY <2>1 DEF MemoryOpen
      <3>2. memoryDir \in {m, NoDir}
        BY <1>t, <3>1 DEF SharedDir
      <3>3. Scratch'
        BY <1>t, <1>n, <1>op, <3>1 DEF Scratch
      <3>4. \A r \in Holders : dir[r] = m
        BY <1>t, <1>n, <3>2 DEF Shared, Holders, NoDir
      <3>5. Holders' = Holders \cup {s} /\ dir'[s] = m /\ \A r \in Holders : dir'[r] = dir[r]
        BY <1>t, <1>op, <3>1 DEF Holders
      <3>6. disk' \cap MemDirs = {m} /\ m # NoDir
        BY <1>t, <1>n, <1>op, <3>1, <3>2 DEF Shared, NoDir
      <3>7. Shared'
        BY <3>1, <3>4, <3>5, <3>6 DEF Shared
      <3> QED
        BY <3>3, <3>7
    <2>2. ASSUME NEW s \in Slots, MemoryOpenFails(s) PROVE (Scratch /\ Shared)'
      BY <1>of, <2>2 DEF MemoryOpenFails
    <2>3. ASSUME NEW s \in Slots, MemoryClose(s) PROVE (Scratch /\ Shared)'
      <3> DEFINE also == IF LastOut THEN {memoryDir} ELSE {}
      <3>1. Close(s, also) /\ memoryDir' = (IF LastOut THEN NoDir ELSE memoryDir) /\ dir[s] \in MemDirs
        BY <2>3 DEF MemoryClose, InShared
      <3>2. also \cap Slots = {}
        BY <1>t, <1>n DEF Shared, NoDir
      <3> HIDE DEF also
      <3>3. Scratch' /\ sess[s] = "open"
        BY <1>cs, <1>cl, <3>1, <3>2
      <3>4. s \in Holders /\ Holders' = Holders \ {s} /\ \A r \in Holders \ {s} : dir'[r] = dir[r]
        BY <1>t, <1>n, <1>cl, <3>1, <3>3 DEF Holders
      <3>5. disk' \cap MemDirs = (disk \cap MemDirs) \ also
        BY <1>n, <1>cl, <3>1
      <3>6. IsFiniteSet(Holders) /\ Cardinality(Holders) = memoryRefs
            /\ Cardinality(Holders \ {s}) = memoryRefs - 1 /\ IsFiniteSet(Holders \ {s})
            /\ memoryRefs \in Nat
        BY <1>t, <3>4, FS_RemoveElement DEF References
      <3>7. CASE LastOut
        <4>1. Holders \ {s} = {}
          BY <3>6, <3>7, FS_EmptySet DEF LastOut
        <4> QED
          BY <1>t, <3>1, <3>3, <3>4, <3>5, <3>7, <4>1 DEF Shared, also
      <3>8. CASE ~ LastOut
        <4>1. Holders \ {s} # {}
          BY <3>6, <3>8, FS_EmptySet DEF LastOut
        <4> QED
          BY <1>t, <3>1, <3>3, <3>4, <3>5, <3>8, <4>1 DEF Shared, also
      <3> QED
        BY <3>7, <3>8
    <2> QED
      BY <1>6, <2>1, <2>2, <2>3 DEF MemoryNext
  <1>7. CASE EngineNext
    BY <1>7, <1>frame DEF EngineNext, EngineStart, EngineCall, EngineCallSettles, EngineClose,
         EngineRelease, engineUnchanged, sessionVars
  <1>8. CASE UNCHANGED vars
    BY <1>8, <1>frame DEF vars, layer1Vars, sessionVars, processVars
  <1> QED
    BY <1>1, <1>2, <1>3, <1>4, <1>5, <1>6, <1>7, <1>8 DEF ProcessNext, Layer1Next

\* Every directory the library makes is there exactly as long as somebody is on it: a temporary one as long
\* as its session, the shared one until the last ChdbConnection gives its reference back.
THEOREM DirectoriesLastAsLongAsTheirUsers == Spec => []ScratchDirs
  <1>1. ProcessInit => DirsInv
    BY SessionsAssumption, ProcessAssumption
    DEF ProcessInit, Init, RegistryInit, DirsInv, Bound, Scratch, Shared, Holders, NoDir
  <1>2. IInv /\ DirsInv /\ [ProcessNext]_vars /\ IInv' => DirsInv'
    BY BoundKept, ScratchKept DEF DirsInv
  <1>3. IInv /\ DirsInv => ScratchDirs
    <2> SUFFICES ASSUME IInv, DirsInv, ~ exited PROVE TempDirs /\ SharedMemory
      BY DEF ScratchDirs, TempDirs, SharedMemory
    <2>1. Bound /\ Scratch /\ Shared /\ Owned /\ OneDirectory
      BY DEF DirsInv, IInv, RegistryInv, Held, Clients
    <2>2. ASSUME NEW c \in conns, keyOf[c] \in Slots PROVE keyOf[c] \in disk
      <3>1. boundKey \in Slots /\ boundKey # InMemory /\ boundKey # EngineDir /\ c = c
        BY <2>1, <2>2, SessionsAssumption, ProcessAssumption DEF OneDirectory
      <3>2. c # defaultConn /\ c # engConn
        BY <2>1, <3>1, RegistryAssumption DEF Bound, Owned, IInv, RegistryInv
      <3>3. PICK s \in Slots : sess[s] # "none" /\ handle[s] = c
        BY <2>1, <3>2 DEF Owned
      <3>4. dir[s] = boundKey /\ dir[s] = s
        BY <2>1, <3>1, <3>3 DEF Bound, Scratch
      <3> QED
        BY <2>1, <2>2, <3>3, <3>4 DEF Scratch, OneDirectory
    <2> QED
      BY <2>1, <2>2 DEF TempDirs, SharedMemory, Scratch, Shared, Holders
  <1> QED
    BY <1>1, <1>2, <1>3, Inductive, PTL DEF Spec

-----------------------------------------------------------------------------
(* What is waited for.                                                     *)

\* A call on the chain carries parameters and is there once; a queued one is there.
Chained ==
    /\ \A i \in DOMAIN chain : chain[i] \in param
    /\ \A i, j \in DOMAIN chain : chain[i] = chain[j] => i = j
    /\ \A c \in Calls : call[c] = "queued" => \E i \in DOMAIN chain : chain[i] = c

\* A deferred teardown waits for what has not happened yet.
Awaited ==
    \A s \in Closing :
        /\ waitOps[s] \subseteq Unsettled
        /\ waitCancels[s] \subseteq cancelDue
        /\ waitCloses[s] \subseteq Closing

\* Of any sessions that wait, one waits for none of the others.
Ordered == \A S \in (SUBSET Closing) \ {{}} : \E s \in S : waitCloses[s] \cap S = {}

\* The calls' part for ever, the sessions' until the process exits.
WaitsInv ==
    /\ waitCloses \in [Slots -> SUBSET Slots]
    /\ Chained
    /\ ~ exited => Awaited /\ Ordered

\* The chain without its first call.
LEMMA TailChained ==
    ASSUME ChainInv, Chained, chain # <<>>, chain' = Tail(chain)
    PROVE  /\ \A i \in DOMAIN chain' : i + 1 \in DOMAIN chain /\ chain'[i] = chain[i + 1]
           /\ \A i \in DOMAIN chain : chain[i] # Head(chain) =>
                 i - 1 \in DOMAIN chain' /\ chain'[i - 1] = chain[i]
           /\ \A i \in DOMAIN chain' : chain'[i] # Head(chain)
           /\ \A i, j \in DOMAIN chain' : chain'[i] = chain'[j] => i = j
  <1>1. /\ chain \in Seq(Calls) /\ Len(chain) \in Nat /\ Len(chain) # 0
        /\ DOMAIN chain = 1 .. Len(chain) /\ Head(chain) = chain[1]
    BY EmptySeq, LenProperties DEF ChainInv
  <1>2. /\ chain' \in Seq(Calls) /\ Len(chain') = Len(chain) - 1
        /\ \A i \in 1 .. Len(chain') : chain'[i] = chain[i + 1]
    BY <1>1, HeadTailProperties
  <1>3. DOMAIN chain' = 1 .. (Len(chain) - 1)
    BY <1>2, LenProperties
  <1>4. \A i \in DOMAIN chain' : i + 1 \in DOMAIN chain /\ chain'[i] = chain[i + 1] /\ i + 1 # 1
    BY <1>1, <1>2, <1>3
  <1>5. \A i \in DOMAIN chain : chain[i] # Head(chain) =>
           i - 1 \in DOMAIN chain' /\ chain'[i - 1] = chain[i]
    BY <1>1, <1>2, <1>3
  <1>6. 1 \in DOMAIN chain
    BY <1>1
  <1>7. \A i \in DOMAIN chain' : chain'[i] # Head(chain)
    BY <1>1, <1>4, <1>6 DEF Chained
  <1>8. ASSUME NEW i \in DOMAIN chain', NEW j \in DOMAIN chain', chain'[i] = chain'[j] PROVE i = j
    <2>1. i + 1 = j + 1
      BY <1>4, <1>8 DEF Chained
    <2> QED
      BY <1>3, <2>1
  <1> QED
    BY <1>4, <1>5, <1>7, <1>8

\* Chained is kept: a call leaves the chain as it settles, and only then.
LEMMA ChainedKept == IInv /\ Chained /\ [ProcessNext]_vars => Chained'
  <1> SUFFICES ASSUME IInv, Chained, [ProcessNext]_vars PROVE Chained'
    OBVIOUS
  <1>t. /\ ChainInv /\ call \in [Calls -> {"idle", "queued", "running", "settled"}]
        /\ \A i \in DOMAIN chain : chain[i] \in Calls
    BY DEF IInv, Types, ChainInv
  <1>run. ASSUME NEW c, NEW o, Runs(c, o) PROVE call' = [call EXCEPT ![c] = "running"]
    BY <1>run DEF Runs
  <1>1. ASSUME NEW c \in Calls, NEW o \in Owners, StartCall(c, o) PROVE Chained'
    <2>1. UNCHANGED <<param, chain>> /\ call' = [call EXCEPT ![c] = "running"]
      BY <1>1, <1>run DEF StartCall
    <2> QED
      BY <1>t, <2>1 DEF Chained
  <1>2. ASSUME NEW c \in Calls, NEW o \in Owners, QueueParam(c, o) PROVE Chained'
    <2>1. /\ call[c] = "idle" /\ call' = [call EXCEPT ![c] = "queued"]
          /\ param' = param \cup {c} /\ chain' = Append(chain, c)
      BY <1>2 DEF QueueParam
    <2>2. /\ DOMAIN chain' = DOMAIN chain \cup {Len(chain) + 1}
          /\ \A i \in DOMAIN chain : chain'[i] = chain[i]
          /\ chain'[Len(chain) + 1] = c
      BY <1>t, <2>1 DEF ChainInv
    <2>3. \A i \in DOMAIN chain : chain[i] # c
      BY <1>t, <2>1 DEF Chained, ChainInv
    <2> QED
      BY <1>t, <2>1, <2>2, <2>3 DEF Chained
  <1>3. ASSUME NEW c \in Calls, AnswerEarly(c) PROVE Chained'
    BY <1>3 DEF AnswerEarly, Chained
  <1>4. ASSUME NEW c \in Calls, ParamTurn(c) PROVE Chained'
    <2>1. UNCHANGED <<param, chain>> /\ call' = [call EXCEPT ![c] = "running"]
      BY <1>4, <1>run DEF ParamTurn
    <2> QED
      BY <1>t, <2>1 DEF Chained
  <1>leaves. ASSUME NEW c \in Calls, chain # <<>>, Head(chain) = c, chain' = Tail(chain),
                    param' = param \ {c}, call' = [call EXCEPT ![c] = "settled"]
             PROVE  Chained'
    BY <1>t, <1>leaves, TailChained DEF Chained
  <1>5. ASSUME NEW c \in Calls, ParamRefused(c) PROVE Chained'
    BY <1>5, <1>leaves DEF ParamRefused, HasTurn, Settle
  <1>6. ASSUME NEW c \in Calls, CallSettles(c) PROVE Chained'
    <2>1. /\ chain' = IF chain # <<>> /\ Head(chain) = c THEN Tail(chain) ELSE chain
          /\ param' = param \ {c} /\ call' = [call EXCEPT ![c] = "settled"] /\ call[c] = "running"
      BY <1>6 DEF CallSettles, Settle
    <2>2. CASE ~ (chain # <<>> /\ Head(chain) = c)
      <3>1. chain' = chain /\ \A i \in DOMAIN chain : chain[i] # c
        BY <1>t, <2>1, <2>2 DEF Chained, ChainInv
      <3> QED
        BY <1>t, <2>1, <3>1 DEF Chained
    <2> QED
      BY <1>leaves, <2>1, <2>2
  <1>7. ASSUME NEW c \in Calls, Untrack(c) PROVE Chained'
    BY <1>t, <1>7 DEF Untrack, Chained
  <1>8. CASE UNCHANGED callVars
    BY <1>8 DEF callVars, Chained
  <1> QED
    BY <1>1, <1>2, <1>3, <1>4, <1>5, <1>6, <1>7, <1>8, CallsFrame DEF CallNext

\* Waits go on being for what is to come when calls and fetches xs settle and the
\* destroys ts are done, if nobody waits for them any more.
LEMMA WaitsShrink ==
    ASSUME Awaited, Ordered, Closing' = Closing, NEW xs, NEW ts,
           Unsettled \subseteq Unsettled' \cup xs,
           cancelDue \subseteq cancelDue' \cup ts,
           \A s \in Closing : /\ waitOps'[s] \subseteq waitOps[s] \ xs
                              /\ waitCancels'[s] \subseteq waitCancels[s] \ ts
                              /\ waitCloses'[s] = waitCloses[s]
    PROVE  Awaited' /\ Ordered'
  <1>1. Awaited'
    BY DEF Awaited
  <1>2. ASSUME NEW S \in (SUBSET Closing) \ {{}} PROVE \E s \in S : waitCloses'[s] \cap S = {}
    <2>1. PICK s \in S : waitCloses[s] \cap S = {}
      BY <1>2 DEF Ordered
    <2> QED
      BY <2>1
  <1> QED
    BY <1>1, <1>2 DEF Ordered

\* Steps that change no wait and no session's being closed, and settle nothing.
LEMMA WaitsStay ==
    ASSUME Awaited, Ordered, Closing' = Closing,
           UNCHANGED <<waitOps, waitCancels, waitCloses>>,
           Unsettled \subseteq Unsettled', cancelDue \subseteq cancelDue'
    PROVE  Awaited' /\ Ordered'
  <1>1. \A s \in Closing : /\ waitOps'[s] \subseteq waitOps[s] \ {}
                           /\ waitCancels'[s] \subseteq waitCancels[s] \ {}
                           /\ waitCloses'[s] = waitCloses[s]
    OBVIOUS
  <1>2. Unsettled \subseteq Unsettled' \cup {} /\ cancelDue \subseteq cancelDue' \cup {}
    OBVIOUS
  <1> QED
    BY <1>1, <1>2, WaitsShrink

\* A call's step: what settles is waited for no more.
LEMMA CallNextWaits ==
    ASSUME IInv, Awaited, Ordered, CallNext
    PROVE  Awaited' /\ Ordered'
  <1>t. /\ call \in [Calls -> {"idle", "queued", "running", "settled"}]
        /\ waitOps \in [Slots -> SUBSET (Calls \cup Streams)]
        /\ Closing \subseteq Slots
    BY DEF IInv, Types, Closing
  <1>up. ASSUME NEW c \in Calls, NEW x \in {"queued", "running"},
                call' = [call EXCEPT ![c] = x], UNCHANGED <<sessionVars, streamVars>>
         PROVE  Awaited' /\ Ordered'
    <2>1. Unsettled \subseteq Unsettled'
      BY <1>t, <1>up DEF Unsettled, streamVars
    <2> QED
      BY <1>up, <2>1, WaitsStay DEF sessionVars, streamVars, Closing
  <1>settles. ASSUME NEW c \in Calls, Settle(c), UNCHANGED streamVars
              PROVE  Awaited' /\ Ordered'
    <2>1. Unsettled \subseteq Unsettled' \cup {c}
      BY <1>t, <1>settles DEF Unsettled, streamVars, Settle
    <2>2. \A s \in Closing : waitOps'[s] \subseteq waitOps[s] \ {c}
      BY <1>t, <1>settles DEF Settle, Without
    <2>3. /\ Closing' = Closing /\ UNCHANGED <<waitCancels, waitCloses>>
          /\ cancelDue \subseteq cancelDue' \cup {}
      BY <1>settles DEF Settle, Closing, streamVars
    <2>4. \A s \in Closing : /\ waitCancels'[s] \subseteq waitCancels[s] \ {}
                             /\ waitCloses'[s] = waitCloses[s]
      BY <2>3
    <2> QED
      BY <2>1, <2>2, <2>3, <2>4, WaitsShrink
  <1>1. ASSUME NEW c \in Calls, NEW o \in Owners, StartCall(c, o) \/ QueueParam(c, o)
        PROVE  Awaited' /\ Ordered'
    BY <1>up, <1>1 DEF StartCall, QueueParam, Runs
  <1>2. ASSUME NEW c \in Calls, AnswerEarly(c) PROVE Awaited' /\ Ordered'
    BY <1>2, WaitsStay DEF AnswerEarly, sessionVars, streamVars, Closing, Unsettled
  <1>3. ASSUME NEW c \in Calls, ParamTurn(c) PROVE Awaited' /\ Ordered'
    BY <1>up, <1>3 DEF ParamTurn, Runs
  <1>4. ASSUME NEW c \in Calls, ParamRefused(c) \/ CallSettles(c) PROVE Awaited' /\ Ordered'
    BY <1>settles, <1>4 DEF ParamRefused, CallSettles
  <1>5. ASSUME NEW c \in Calls, Untrack(c) PROVE Awaited' /\ Ordered'
    <2>1. Unsettled \subseteq Unsettled'
      BY <1>t, <1>5 DEF Unsettled, Untrack, streamVars
    <2> QED
      BY <1>5, <2>1, WaitsStay DEF Untrack, sessionVars, streamVars, Closing
  <1> QED
    BY <1>1, <1>2, <1>3, <1>4, <1>5 DEF CallNext

\* A stream's step: a fetch that settles and a destroy that is done likewise.
LEMMA StreamNextWaits ==
    ASSUME IInv, Awaited, Ordered, StreamNext
    PROVE  Awaited' /\ Ordered'
  <1>t. /\ fetch \in [Streams -> {"no", "running", "settled"}]
        /\ waitOps \in [Slots -> SUBSET (Calls \cup Streams)]
        /\ waitCancels \in [Slots -> SUBSET Streams]
        /\ Closing \subseteq Slots
    BY DEF IInv, Types, Closing
  <1>1. ASSUME NEW t \in Streams, NEW s \in Slots, StartStream(t, s) PROVE Awaited' /\ Ordered'
    BY <1>1, WaitsStay DEF StartStream, sessionVars, callVars, Closing, Unsettled
  <1>2. ASSUME NEW t \in Streams, StartFetch(t) \/ FetchReturns(t) PROVE Awaited' /\ Ordered'
    <2>1. Unsettled \subseteq Unsettled'
      BY <1>t, <1>2 DEF StartFetch, FetchReturns, Unsettled, callVars
    <2>2. UNCHANGED sessionVars /\ cancelDue' = cancelDue
      BY <1>2 DEF StartFetch, FetchReturns
    <2> QED
      BY <2>1, <2>2, WaitsStay DEF sessionVars, Closing
  <1>3. ASSUME NEW t \in Streams, FetchSettles(t) PROVE Awaited' /\ Ordered'
    <2>1. Unsettled \subseteq Unsettled' \cup {t}
      BY <1>t, <1>3 DEF FetchSettles, Unsettled, callVars
    <2>2. \A s \in Closing : waitOps'[s] \subseteq waitOps[s] \ {t}
      BY <1>t, <1>3 DEF FetchSettles, Without
    <2>3. /\ Closing' = Closing /\ UNCHANGED <<waitCancels, waitCloses>>
          /\ cancelDue \subseteq cancelDue' \cup {}
      BY <1>3 DEF FetchSettles, Closing
    <2>4. \A s \in Closing : /\ waitCancels'[s] \subseteq waitCancels[s] \ {}
                             /\ waitCloses'[s] = waitCloses[s]
      BY <2>3
    <2> QED
      BY <2>1, <2>2, <2>3, <2>4, WaitsShrink
  <1>4. ASSUME NEW t \in Streams, CancelStream(t) PROVE Awaited' /\ Ordered'
    BY <1>4, WaitsStay DEF CancelStream, Cancel, sessionVars, callVars, Closing, Unsettled
  <1>5. ASSUME NEW t \in Streams, DeferredCancel(t) PROVE Awaited' /\ Ordered'
    <2>1. /\ Closing' = Closing /\ UNCHANGED <<waitOps, waitCloses>>
          /\ Unsettled \subseteq Unsettled' \cup {}
          /\ cancelDue \subseteq cancelDue' \cup {t}
      BY <1>5 DEF DeferredCancel, Closing, Unsettled, callVars
    <2>2. \A s \in Closing : waitCancels'[s] \subseteq waitCancels[s] \ {t}
      BY <1>t, <1>5 DEF DeferredCancel, Without
    <2>3. \A s \in Closing : /\ waitOps'[s] \subseteq waitOps[s] \ {}
                             /\ waitCloses'[s] = waitCloses[s]
      BY <2>1
    <2> QED
      BY <2>1, <2>2, <2>3, WaitsShrink
  <1> QED
    BY <1>1, <1>2, <1>3, <1>4, <1>5 DEF StreamNext

\* A close: nobody waits for the session that closes yet, and it waits for all
\* that there is.
LEMMA CloseWaits ==
    ASSUME IInv, waitCloses \in [Slots -> SUBSET Slots], Awaited, Ordered,
           NEW s \in Slots, NEW also, Close(s, also)
    PROVE  Awaited' /\ Ordered'
  <1>t. /\ sess \in [Slots -> {"none", "open", "closing"}]
        /\ waitOps \in [Slots -> SUBSET (Calls \cup Streams)]
        /\ waitCancels \in [Slots -> SUBSET Streams]
        /\ DOMAIN waitOps = Slots /\ DOMAIN waitCancels = Slots
        /\ Closing \subseteq Slots
    BY DEF IInv, Types, Closing
  <1>c. /\ sess[s] = "open" /\ UNCHANGED callVars /\ fetch' = fetch
        /\ cancelDue \subseteq cancelDue'
        /\ s \notin Closing
    BY DEF Close, CloseNow, CloseDeferred, Cancel, Closing
  <1>u. Unsettled' = Unsettled
    BY <1>c DEF Unsettled, callVars
  <1>1. CASE CloseNow(s, also)
    <2>1. Closing' = Closing
      BY <1>1, <1>t, <1>c DEF CloseNow, Teardown, Closing
    <2> QED
      BY <1>1, <1>c, <1>u, <2>1, WaitsStay DEF CloseNow
  <1>2. CASE CloseDeferred(s, also)
    <2>1. Closing' = Closing \cup {s}
      BY <1>2, <1>t DEF CloseDeferred, Closing
    <2>2. waitOps'[s] = Unsettled /\ waitCancels'[s] = cancelDue'
      BY <1>2, <1>t DEF CloseDeferred
    <2>3. waitCloses' = [waitCloses EXCEPT ![s] = Closing]
      BY <1>2 DEF CloseDeferred
    <2>4. \A r \in Closing : /\ waitOps'[r] = waitOps[r] /\ waitCancels'[r] = waitCancels[r]
                             /\ waitCloses'[r] = waitCloses[r]
      BY <1>2, <1>t, <1>c DEF CloseDeferred
    <2>5. waitCloses'[s] \subseteq Closing
      BY <2>3 DEF Closing
    <2>6. Awaited'
      BY <1>c, <1>u, <2>1, <2>2, <2>4, <2>5 DEF Awaited
    <2>7. ASSUME NEW S \in (SUBSET Closing') \ {{}} PROVE \E r \in S : waitCloses'[r] \cap S = {}
      <3>1. CASE S \cap Closing = {}
        BY <1>c, <2>1, <2>5, <2>7, <3>1
      <3>2. CASE S \cap Closing # {}
        <4>1. S \cap Closing \in (SUBSET Closing) \ {{}}
          BY <3>2
        <4>2. PICK r \in S \cap Closing : waitCloses[r] \cap (S \cap Closing) = {}
          BY <4>1 DEF Ordered
        <4>3. waitCloses'[r] \subseteq Closing
          BY <2>4, <4>2 DEF Awaited
        <4>4. waitCloses'[r] \cap S = {}
          BY <2>4, <4>2, <4>3
        <4> QED
          BY <4>2, <4>4
      <3> QED
        BY <3>1, <3>2
    <2> QED
      BY <2>6, <2>7 DEF Ordered
  <1> QED
    BY <1>1, <1>2 DEF Close

\* A deferred teardown: nobody waits for it any more.
LEMMA TeardownWaits ==
    ASSUME IInv, waitCloses \in [Slots -> SUBSET Slots], Awaited, Ordered,
           NEW s \in Slots, DeferredTeardown(s)
    PROVE  Awaited' /\ Ordered'
  <1>t. /\ sess \in [Slots -> {"none", "open", "closing"}] /\ Closing \subseteq Slots
    BY DEF IInv, Types, Closing
  <1>1. Closing' = Closing \ {s}
    BY <1>t DEF DeferredTeardown, Teardown, Closing
  <1>2. /\ UNCHANGED <<waitOps, waitCancels, cancelDue>>
        /\ \A r \in Slots : waitCloses'[r] = waitCloses[r] \ {s}
    BY DEF DeferredTeardown, Without, streamVars
  <1>3. Unsettled' = Unsettled
    BY DEF DeferredTeardown, Unsettled, callVars, streamVars
  <1>4. Awaited'
    BY <1>t, <1>1, <1>2, <1>3 DEF Awaited
  <1>5. ASSUME NEW S \in (SUBSET Closing') \ {{}} PROVE \E r \in S : waitCloses'[r] \cap S = {}
    <2>1. PICK r \in S : waitCloses[r] \cap S = {}
      BY <1>1, <1>5 DEF Ordered
    <2> QED
      BY <1>t, <1>1, <1>2, <2>1
  <1> QED
    BY <1>4, <1>5 DEF Ordered

\* Opening a session is nothing anybody waits for.
LEMMA OpenWaits ==
    ASSUME IInv, Awaited, Ordered, NEW s \in Slots, NEW k, Open(s, k) \/ OpenFails(s, k)
    PROVE  Awaited' /\ Ordered'
  <1>1. sess \in [Slots -> {"none", "open", "closing"}]
    BY DEF IInv, Types
  <1>2. Closing' = Closing
    BY <1>1 DEF Open, OpenFails, Closing, sessionVars
  <1> QED
    BY <1>2, WaitsStay DEF Open, OpenFails, sessionVars, callVars, streamVars, Unsettled

\* What the teardowns wait for is still to come after every step but the exit.
LEMMA WaitsKept ==
    ASSUME IInv, waitCloses \in [Slots -> SUBSET Slots], Awaited, Ordered,
           [ProcessNext]_vars, ~ exited'
    PROVE  Awaited' /\ Ordered'
  <1>1. CASE Exit
    BY <1>1 DEF Exit
  <1>2. CASE AtExit
    BY <1>2, WaitsStay DEF AtExit, sessionVars, callVars, streamVars, Closing, Unsettled
  <1>3. CASE SessionNext
    BY <1>3, OpenWaits, CloseWaits, TeardownWaits DEF SessionNext, OpenNext
  <1>4. CASE MemoryNext
    BY <1>4, OpenWaits, CloseWaits DEF MemoryNext, MemoryOpen, MemoryOpenFails, MemoryClose
  <1>5. CASE EngineNext
    <2>1. UNCHANGED <<sessionVars, callVars, streamVars>>
      BY <1>5 DEF EngineNext, EngineStart, EngineCall, EngineCallSettles, EngineClose,
                  EngineRelease, engineUnchanged
    <2> QED
      BY <2>1, WaitsStay DEF sessionVars, callVars, streamVars, Closing, Unsettled
  <1>6. CASE UNCHANGED vars
    BY <1>6, WaitsStay DEF vars, layer1Vars, sessionVars, callVars, streamVars, Closing, Unsettled
  <1> QED
    BY <1>1, <1>2, <1>3, <1>4, <1>5, <1>6, CallNextWaits, StreamNextWaits DEF ProcessNext, Layer1Next

\* A teardown waits for sessions.
LEMMA WaitTypeKept ==
    ASSUME waitCloses \in [Slots -> SUBSET Slots], [ProcessNext]_vars
    PROVE  waitCloses' \in [Slots -> SUBSET Slots]
  <1>same. CASE waitCloses' = waitCloses
    BY <1>same
  <1>cl. ASSUME NEW s \in Slots, NEW also, Close(s, also)
         PROVE  waitCloses' \in [Slots -> SUBSET Slots]
    <2>1. Closing \in SUBSET Slots
      BY DEF Closing
    <2> QED
      BY <1>cl, <2>1 DEF Close, CloseNow, CloseDeferred
  <1>td. ASSUME NEW s \in Slots, DeferredTeardown(s)
         PROVE  waitCloses' \in [Slots -> SUBSET Slots]
    BY <1>td DEF DeferredTeardown, Without
  <1>op. ASSUME NEW s, NEW k, Open(s, k) \/ OpenFails(s, k)
         PROVE  waitCloses' = waitCloses
    BY <1>op DEF Open, OpenFails, sessionVars
  <1>1. CASE CallNext
    BY <1>1, <1>same DEF CallNext, StartCall, QueueParam, AnswerEarly, ParamTurn, ParamRefused,
         CallSettles, Untrack, Settle, sessionVars
  <1>2. CASE StreamNext
    BY <1>2, <1>same DEF StreamNext, StartStream, StartFetch, FetchSettles, FetchReturns,
         CancelStream, DeferredCancel, sessionVars
  <1>3. CASE SessionNext
    BY <1>3, <1>same, <1>cl, <1>td, <1>op DEF SessionNext, OpenNext
  <1>4. CASE Exit \/ AtExit
    BY <1>4, <1>same DEF Exit, AtExit, sessionVars
  <1>5. CASE MemoryNext
    BY <1>5, <1>same, <1>cl, <1>op DEF MemoryNext, MemoryOpen, MemoryOpenFails, MemoryClose
  <1>6. CASE EngineNext
    BY <1>6, <1>same DEF EngineNext, EngineStart, EngineCall, EngineCallSettles, EngineClose,
         EngineRelease, engineUnchanged, sessionVars
  <1>7. CASE UNCHANGED vars
    BY <1>7, <1>same DEF vars, layer1Vars, sessionVars
  <1> QED
    BY <1>1, <1>2, <1>3, <1>4, <1>5, <1>6, <1>7 DEF ProcessNext, Layer1Next

\* What is waited for is on a thread, or on the chain behind a call that is or
\* that has its turn.
LEMMA NobodyWaits == IInv /\ WaitsInv => NobodyWaitsInVain
  <1> SUFFICES ASSUME IInv, WaitsInv, ~ exited PROVE NobodyWaitsInVain
    BY DEF NobodyWaitsInVain
  <1>1. Awaited /\ Ordered /\ Chained /\ ChainInv /\ Threads /\ Clients
    BY DEF IInv, WaitsInv, Held
  <1>2. \A c \in Calls : call[c] = "running" => worker[c] # NoConn
    BY <1>1 DEF Clients, CallOn
  <1>3. ASSUME NEW w \in Unsettled, worker[w] = NoConn PROVE \E i \in DOMAIN chain : chain[i] = w
    <2>1. CASE w \in Calls
      <3>1. call[w] \in {"queued", "running"}
        BY <1>3, <2>1, KindsAreApart DEF Unsettled
      <3> QED
        BY <1>1, <1>2, <1>3, <2>1, <3>1 DEF Chained
    <2>2. CASE w \in Streams
      BY <1>1, <1>3, <2>2, KindsAreApart DEF Unsettled, Threads
    <2> QED
      BY <1>3, <2>1, <2>2 DEF Unsettled
  <1>4. ASSUME chain # <<>> PROVE worker[Head(chain)] # NoConn \/ HasTurn(Head(chain))
    <2>1. 1 \in DOMAIN chain /\ Head(chain) = chain[1]
      BY <1>1, <1>4, EmptySeq, LenProperties DEF ChainInv
    <2>2. Head(chain) \in param /\ Head(chain) \in Calls
      BY <1>1, <2>1 DEF Chained, ChainInv
    <2> QED
      BY <1>1, <1>2, <1>4, <2>2 DEF ChainInv, HasTurn
  <1> QED
    BY <1>1, <1>3, <1>4 DEF NobodyWaitsInVain, Awaited, Ordered

\* No wake-up is lost: whatever a deferred teardown or a queued call waits for is
\* still to come, and no sessions wait for one another's teardown.
THEOREM WaitsAreNotInVain == Spec => []NobodyWaitsInVain
  <1>1. ProcessInit => WaitsInv
    BY DEF ProcessInit, Init, WaitsInv, Chained, Awaited, Ordered, Closing
  <1>2. IInv /\ WaitsInv /\ [ProcessNext]_vars => WaitsInv'
    BY WaitTypeKept, ChainedKept, WaitsKept, ExitIsFinal DEF WaitsInv
  <1> QED
    BY <1>1, <1>2, NobodyWaits, Inductive, PTL DEF Spec

=============================================================================
