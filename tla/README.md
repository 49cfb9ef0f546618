# chdb-node: specifications, model checks and proofs

chdb-node is the Node.js binding of chDB, an in-process ClickHouse. The repository
holds a native addon (`lib/chdb_node.cpp`), the Layer 1 binding over it (`index.js`),
helpers for inserts, connections, errors and results (`src/*.ts`, `src/connection`), a
typed query builder (`src/layer3`), integrations (`integrations/`), and the Durable V1
control plane (`src/durable`): databases whose authoritative copy lives in an object
store, written by one lease holder at a time. Paths below are the repository's.

This directory specifies what those parts promise each other and their callers, checks
the promises on small instances with TLC, and proves the ones that hold for every
instance with TLAPS. Section 1 is the inventory, 2 the modules and how they map to the
code, 3 the runs, 4 the bounds and the fairness, 5 the proofs, 6 where code and
documentation disagree, 7 what is not modelled, 8 how to run it.

## 1. Inventory

| component | state | operations | hard behaviour | what makes it correct | module |
|---|---|---|---|---|---|
| Durable object (`src/durable/object.ts`, `mutex.ts`) | lease (head, ETag, deadline, fenced), scratch database, WAL buffer, statement counters, two mutexes, heartbeat timer | open (cold create, acquire, force, read-only), execute, query, flush, flushThrough, checkpoint, heartbeat, close | several processes over one object; head writes whose answer is lost or late; clock skew; a heartbeat between any two awaits; crash anywhere; a step of open or close failing | acknowledged writes survive; one writer at a time; replay gives back exactly the holder's database; open and close settle | `DurableObject`, `StatementLog` |
| Store contract (`backend.ts`, `backends/s3.ts`) | `head.json`, immutable objects | conditional create, conditional replace, reads | timeouts, 5xx, SDK retries that hide a success | the head changes by compare-and-swap only | `ObjectStore` |
| Head, keys, WAL (`head.ts`, `keys.ts`, `wal.ts`, `types.ts`, `digest.ts`) | none | parse, serialise, mint keys, encode and decode segments | references, replay order | references resolve; replay is base then WAL in order | `ObjectStore` |
| Compatibility gates (`negotiate.ts`, `version.ts`) | the head's floor | compare releases and formats, gate an open, raise the floor | engines of several releases taking turns; absent fields; ties and pre-releases | never open what cannot be replayed; never refuse what can | `Compatibility` |
| Local backend (`backends/local.ts`) | version files, pointer symlink | the store contract by `link`, `symlink`, `rename` | racers between two system calls; crash between link and rename | refines the compare-and-swap | `LocalBackend`, `HeadRegister` |
| Native addon (`lib/chdb_node.cpp`) | connection registry, in-flight guards, default connection | connect, close, evict, run on workers, stream fetch, exit teardown | worker threads against the event loop; process exit; a second environment | no connection closed under a call; one directory per process | `NativeRegistry`, `WorkerThreads` |
| Layer 1 (`index.js`) | sessions, pending-operation sets, a process-wide parameter chain, streams | construct, query, insert, bind, stream, cancel, close, exit | an abort or timeout leaves the native call running; close over operations in flight; cancel over a fetch; parameters are process-global, and set by synchronous calls too | a connection outlives every call on it; each close and each waiter completes | `Sessions`, `SyncCalls` |
| Pluggable connection (`src/connection`) | shared in-memory directory with a reference count | open, close, calls | last user leaving while another enters; a constructor that fails | the directory is there exactly while somebody is on it | `Process` |
| Engine adapter (`engine-adapter.ts`, `adapters/chdb-node.ts`) | one connection, its own in-flight set | start, tracked calls, close | calls in flight at close; shares the registry with Layer 1 | no connection closed under a call | `Process` |
| Streaming insert (`streamInsert.ts`) | accumulator, chunk, progress | pull, cut, insert, count, fail, settle | items that straddle rows; a chunk failing, timing out, landing late; abort; stall | rows reported are rows landed; no row split; bounded memory | `StreamInsert` |
| Agent tool (`integrations/agents/tool.mjs`, `safety.mjs`) | session (own or lent), poison flag, parked sessions | construct, query, attachFile, close | a deadline passing while the call runs on; constructors that fail half way; sessions shared; four limits on a result, two of them the engine's | what is flagged as truncated is, and the tool's own limits never cut unflagged; no session leaks; read-only stays so | `AgentTool` |
| Query builder and compiler (`src/layer3/builder`, `compiler`) | immutable query nodes, parameter counter | verbs, compile | any chain of verbs; nesting; one numbering of placeholders | the statement means what was asked | `QueryBuilder`, `Compiler` |
| Federated connections (`src/layer3/connect`) | options | databases, tables, describe, snapshot | options from two places; qualified names; positional arguments | what a catalog names can be read under that name | `SourcePlan` |
| Record stores (`integrations/chdb-store.mjs`, `chdb-vector.mjs`) | rows of ReplacingMergeTree tables | save, read-modify-write update, delete by id, by threadId, by metadata | background merges; calls within one millisecond; awaits in the middle; versions from the caller; deletes that take some rows of a record | a record reads as its last save with the later updates, and not at all once deleted | `RecordStores` |
| Insert helpers, errors, results, loader, functions, execution, code generation, other integrations, scripts | none of their own | pure translation, data classes | none that interleaves | - | not modelled |

How they interact. A `DurableObject` is opened through the namespace registry, which
hands it a backend. It calls the backend for the head and the immutable objects, and
an engine adapter for its scratch database. The adapter, Layer 1's sessions and the
`ChdbConnection`s call the native addon, whose one registry they share; its workers run
on the libuv pool and settle promises on the main thread. Two durable objects, in one
process or on two machines, interact only through the store. Inside one object the
public methods interact through the operation mutex `ops`, and the running operation
and the heartbeat timer through `headLock`. A streaming insert, a query compiled by
Layer 3, a federated read, a record store's call are each a sequence of Layer 1 calls
and share nothing else with one another.

The hazards, one line each with the source line where they bite and the properties
aimed at them, are the list "hazards" of `PROJECT.json`.

## 2. Modules

| module | what it is |
|---|---|
| `ObjectStore` | the remote side: the head, the immutable objects, the conditional write with every answer it can give, and reading a manifest back (`Replay`, `RefsPresent`) |
| `DurableObject` | EXTENDS `ObjectStore`: the state machine of `object.ts`, one action per stretch between two awaits |
| `StatementLog` | the abstract specification of a durable object: who holds it, what each handle ran, what is durable, what callers were told; `DurableObject` implements it (`KeepsTheLog`) |
| `HeadRegister` | the abstract contract of `head.json`: a register replaced by compare-and-swap, for clients whose calls overlap, throw and die |
| `LocalBackend` | `backends/local.ts` system call by system call, with `INSTANCE HeadRegister WITH` a refinement mapping |
| `NativeRegistry` | the addon's registry of connections and its workers |
| `Sessions` | EXTENDS `NativeRegistry`: sessions, calls, the parameter chain, streams, deferred close, exit |
| `Process` | EXTENDS `Sessions`: one Node process, with the shared in-memory directory of `ChdbConnection` and a durable engine beside the sessions; the properties of all three modules |
| `WorkerThreads` | EXTENDS `Process`: a second JavaScript environment that loads the addon and ends |
| `SyncCalls` | EXTENDS `Process`: the synchronous calls with parameters, which run beside the parameter chain |
| `StreamInsert` | the pull, cut, insert loop of a streaming insert |
| `AgentTool` | the query tool handed to a language model, over abstract sessions and an engine with limits |
| `Compatibility` | release precedence, the gates, and opens and writes of engines of several releases |
| `Compiler`, `QueryBuilder` | compilation to tokens and the reading of tokens by SQL's grammar; the builder's verbs and what each one asks for |
| `SourcePlan` | the table function a federated connection builds, and what its arguments reach |
| `RecordStores` | saves, read-modify-write updates and deletes over rows that are merged in the background |
| `MCDurableObject`, `MCProcess`, `MCParts`, `MCStores` | instances for the model checker: constants, symmetry, views; the last two put modules that share no state side by side, five in `MCParts`, and in `MCStores` the local backend, the record stores and once more the agent tool |
| `DurableObject_proofs`, `DurableLease_proofs`, `DurableLog_proofs`, `DurableRefinement_proofs` | each EXTENDS the one before: types and references, the lease, the log, the refinement of `StatementLog` and exact replay |
| `LocalBackend_proofs`, `Process_proofs`, `AgentTool_proofs` | inductive invariants and theorems of one module each |
| `Parts_proofs` | the same for `StreamInsert`, `SourcePlan`, `Compatibility` and `RecordStores` |

The mutants listed in `PROJECT.json` are defined beside the definitions they vary
("Mutant of ..."); nothing else uses them.

### ObjectStore and the code

`DurableBackend` promises a read that returns an ETag, create-if-absent for immutable
objects, and replace-if-match for `head.json`. `head` is a record of the fields of
`DurableHead` a property can tell apart: the lease (generation, instance, expiry) and
the manifest (base, WAL references, seq). Comparing heads is comparing ETags. A head of
generation 0 stands for "no `head.json`", which no real head can be: `coldHead` writes
generation 1.

`HeadWrite(expect, next, answer)` is `replaceIfMatch` of the S3 backend together with
`isAmbiguous` and `isPreconditionFailure`:

- `replaced`: the ETag matched and the head is the new one;
- `not-replaced`: it did not match, or an SDK retry turned the write that landed into
  a precondition failure;
- `ambiguous`: a timeout or a 5xx, before or after the write, or while the write is
  still on its way: then it is kept in `late` and `LateWriteArrives` lets it reach the
  store at any later moment, still conditional on its ETag;
- `error`: the backend throws, before or after the write.

The constant `Faults` says which of these a run allows. WAL segments are expanded into
one `Line` per statement, so that `Replay` is a sequence of statements and the order
and the number of times each is replayed are visible.

### DurableObject and the code

An element of `Instances` is one `open()` call and the handle it may give, with the
fresh instance UUID the code mints for it. Reopening after a close or a crash is
another instance.

| state | code |
|---|---|
| `phase` | where `open()` or `close()` is, `status`, `closing` |
| `cache` | `this.head` with its ETag |
| `local`, `buffer` | the scratch database and `walBuffer` |
| `executed`, `committed` | `statementCounter`, `committedStatementCount` |
| `fenced`, `deadline` | the same fields |
| `job`, `key` | the operation `ops` is running and the key it minted |
| `at`, `lockq` | where the operation and the heartbeat are inside `commitHead`; the order in which they asked for `headLock` |
| `attempts`, `doubt`, `written` | `commitHead`'s loop counter, `sawAmbiguous`, and `renewLease`'s captured expiry |
| `result`, `unproven` | what callers were told; which handles left a commit neither proved nor refuted (history only) |

| actions | code |
|---|---|
| `OpenFindsObject`, `OpenFindsNothing`, `OpenReadOnly`, `OpenCannotReadHead` | the head read of `open()` |
| `Create`, `CreatedReadsBack`, `CreateReread` | `createCold` |
| `AcquireRefused`, `Acquire`, `AcquireReread` | `acquireLease` |
| `Restore`, `RestoreFails`, `RestoreSnapshot` | `restoreInto`, the constructor, and the confirming `renewLease()` that follows |
| `UnwindReadsHead`, `UnwindReleases` | `open()`'s catch and `releaseLease` |
| `Execute`, `StartFlush`, `StartCheckpoint`, `SelfFence` | the public methods and `assertWriter` |
| `Uploaded`, `UploadedTooLate`, `UploadFails` | `publishBytes`, `publishFile`, `reconcileUpload` and the `assertWriter` after them |
| `CommitReplaced`, `CommitUnsettled`, `CommitErrors`, `RereadSettles`, `RereadFenced`, `RereadRetries`, `RereadGivesUp`, `RereadErrors` | one round of `commitHead` and its re-read, with what the caller (`flushLocked`, `checkpointLocked`, `releaseLeaseLocked`, `renewLease`) does next |
| `HeartbeatFires` | the timer of `startHeartbeat` |
| `CloseStarts`, `CloseFenced`, `CloseFlushes`, `CloseLapsed`, `CloseReleases`, `CloseReader` | `closeInner` |
| `Crash`, `StoreDelivers`, `Tick` | the process dies; the store; time |

Atomicity. JavaScript runs between two awaits without interruption, and an action is
such a stretch. A conditional write, its effect and its answer are one step: between
sending and being answered the handle does nothing, and a write that lands after its
caller stopped waiting is a step of its own. `execute()` is one step although the
engine call is awaited: the operation mutex is held, and what a heartbeat does
meanwhile touches neither the buffer nor the database. `query()` changes no state.
`flushThrough(t)` is `flush()` behind a test of the watermark, and `checkpoint()`'s
archive is taken while the queue is held, so the database it holds is the one at the
start of the operation.

### StatementLog and DurableObject

`StatementLog` is the promise to callers with everything left out that they cannot see:
no store, no head, no keys, no clocks. `Run` is `execute()`; `Commit` a flush or a
checkpoint that reaches the head, is reported, or both; `Take` and `GiveUp` are the
lease. `DurableObject` instantiates it as `Log`: `holder` is the instance the head names,
`ran` is `statementCounter`, `told` is `committedStatementCount`, and `durable` the set of
statements `Replay(head)` gives. A commit whose answer was lost shows as a `Commit` that
moves `durable` and not `told`; the proof of it later, or of a write that landed late, as
one that moves `told` or `durable` alone. Everything else `DurableObject` does is a
stutter. What the log does not say is how often a statement is replayed and in which
order: that is `ReplayIsExact` and `ReplayTakesTurns`.

### HeadRegister, LocalBackend and the code

The local backend keeps `head.json` as a plain file until it is first replaced, and
from then on as a symlink into `.head-versions/`, where version `n + 1` is created by
`link(2)`, which fails if it exists.

| state | code |
|---|---|
| `plain`, `pointer` | `head.json` as a file, or the version number it links to |
| `versions` | the files of `.head-versions/` |
| `pc`, `op` | the system call a client is about to make, and in which method |
| `scan` | `start` and `latest` of `currentVersion` |
| `got` | the head and ETag the caller holds: `v<n>` is `n`, a digest `f<sha>` is 0 with the bytes |
| `want`, `outcome`, `told` | the bytes being written, what the method will return, what it returned |
| `seen`, `calls` | history of the heads a read overlapped with; the bound on writes |

| actions | code |
|---|---|
| `StartRead`, `ReadVersion`, `ReadPath` | `getBytesWithEtag` |
| `Readlink`, `Lstat`, `Repair` | `currentVersion`, `versionExists`, the opportunistic repair |
| `StartReplace`, `Digest`, `Link`, `Publish`, `Return` | `replaceIfMatch`, `linkIntoPlace`, `publishPointer` |
| `StartCreate`, `Create` | `putBytesIfAbsent` of `head.json` |
| `Throws`, `Dies` | a system call that fails, a process that dies |

The refinement mapping. `Current` is the highest version once `head.json` is a symlink,
and the plain file before that. `Pending` is the set of writes that may yet take effect:
those under way that have not `Landed`, and `Unnamed`, a version 1 linked over a plain
file whose symlink nobody has made yet. So the register's compare-and-swap
(`TakesEffect`) is `Link` in a chain, `Create` when there is nothing, and for the first
replacement it is the first `Publish` of version 1, whoever makes it: the loser of the
race or a repairing writer may be the one that makes a dead winner's write take effect.
Everything else is a stutter, the beginning of a call or its end.

Three things the register has because the code has them. A read that finds no symlink
and then reads through one returns a version's bytes under a digest ETag: the next
replace with it is refused although nobody wrote since (`Useless`), which costs a
re-read and no more. A write whose caller died can take effect later, by another
client's hand. And a write is refused only when the head differs from the one it
expected. The branch for finding one's own bytes in an existing version never fires: a
write repeated after an answer was lost has fresh bytes, and within one call `link(2)`
is made once.

### NativeRegistry, Sessions, Process and the code

libchdb cannot interrupt a call, so a promise and the native call under it part ways:
an abort or a timeout answers the caller while the call runs on, and `close()` returns
before the connection is gone. What holds the two together is the bookkeeping of
`index.js`, and it is modelled entry by entry.

| state | code |
|---|---|
| `conns`, `keyOf`, `boundKey`, `defaultConn` | `g_reg` of the addon |
| `worker` | the connection each `AsyncWorker` is executing on; the in-flight count of `ConnGuard` is the number of workers there |
| `sess`, `dir`, `handle` | a `Session`: closed or not, `_key`, its connection |
| `waitOps`, `waitCancels`, `waitCloses` | what a deferred teardown's `Promise.allSettled` still waits for |
| `call`, `owner`, `param`, `answered` | a call and its promise: queued on the chain, on a thread, settled; `answered` once its caller saw an abort or a timeout |
| `chain` | `globalParamChain` |
| `streamOf`, `cursor`, `fetch`, `cancelDue` | a `ChdbQueryStream`, its native handle, its fetch, its deferred destroy |
| `disk` | the temporary and shared directories that exist |
| `memoryDir`, `memoryRefs` | the same variables of `chdb-connection.ts` |
| `eng`, `engConn` | `ChdbNodeEngine` |

`pendingNativeOps` is derived (`TrackedOps`, `cancelDue`, `Closing`), with the delay the
code has: a settled entry leaves the set one microtask later, so user code may still
find it there; that is the "settled" phase. `Drained` is the condition on which
`drainPending` returns.

| actions | code |
|---|---|
| `Open`, `OpenFails`, `CloseNow`, `CloseDeferred`, `DeferredTeardown` | `Session`'s constructor and `close()` |
| `StartCall`, `CallSettles`, `Untrack`, `AnswerEarly` | `queryAsync`, `insert`, `trackNative`, `withAbortTimeout` |
| `QueueParam`, `ParamTurn`, `ParamRefused` | `runExclusiveParam`, `guardedStart` |
| `StartStream`, `StartFetch`, `FetchSettles`, `FetchReturns`, `CancelStream`, `DeferredCancel` | `ChdbQueryStream` and `StreamFetchWorker` |
| `Exit`, `AtExit` | the exit listener with `ExitTeardownWrapper`; the `atexit` backstop |
| `AcquireSession`, `OpenDefault`, `Evicts`, `ReleaseSession`, `HardCloseAll` | the addon's functions, called by the above |
| `MemoryOpen`, `MemoryOpenFails`, `MemoryClose` | `ChdbConnection` on `":memory:"` |
| `EngineStart`, `EngineCall`, `EngineCallSettles`, `EngineClose`, `EngineRelease` | `ChdbNodeEngine` |
| `WorkerLoads`, `WorkerEnds` | the addon's `Init` and its cleanup hook in a second environment |
| `BindEnters`, `StreamBindEnters`, `CallLeaves` (`SyncCalls`) | `queryBind`, `Session.queryBind`, `queryStreamBind`: the event loop enters libchdb and comes back |

Registry changes run on the event loop, so each is part of the step of its caller;
only the native calls run beside it. `ExitTeardown` closes connections up to the first
that is busy, whichever that is: the loop stops there. A synchronous call is a stretch in which no
JavaScript runs. One without parameters leaves nothing behind that an asynchronous call
does not, so it is no action; one with parameters sets them while calls on threads may
have set theirs, and `SyncCalls` gives its beginning and its end an action each. A handle is the address `chdb_connect` returned,
and the model hands a closed address out again at once, the worst case for a handle
somebody kept.

### The other modules and the code

`StreamInsert`: a byte is content or a newline, offsets count from the start of the
source. `data` and `cut` are the accumulator, `lastNl` its last newline, `chunk` the
stretch last handed to `insertChunk`, `running` whether that INSERT is on a thread (an
abort or a timeout rejects the promise while it runs on, `GivesUp`, and it may land
afterwards, `LateEnd`), `sent` the progress. `Top`, `Yields`, `CutLoop`, `Final`,
`ChunkLands`, `ChunkFails` are the loop; `Fail` is the `finally` block.

`AgentTool`: `Construct` and `ConstructFails` are the constructor with its setup and its
unwinding, `Query` and `EngineSettles` a query with its caps, `DeadlinePasses` and
`Reap` the race against the network deadline and what happens to the parked session
(`ABANDONED_SESSIONS`, a bag), `AttachFile`, `CloseTool` the other methods. A session is
abstracted to what `Sessions` establishes. The engine is external: `Produced` is what it
returns, all that matches or what it had when a limit of its session stopped it
(`StopsAt`: the rows of `max_result_rows`, the bytes of `max_result_bytes`, or anything
once a SETTINGS clause or a `SET` of the caller who lent the session is in play,
`swayed`).

`Compatibility`: a version is the numbers and pre-release identifiers the parser yields;
`Before` is `comparePrecedence`, and `rank` is the documented order it is compared with.
The head's absent fields are `Missing`. `Gate`, `CreateCold`, `CreatedReadsBack`, `CreateLost`, `Acquire`,
`AcquireLost`, `OpenReadOnly`, `Renew`, `Flush`, `Checkpoint`, `CloseWriter` are the
places of `object.ts` that call the gates or raise the floor; `CreatedReadsBack` is the
read after a conditional create that won, of whatever head is there by then (`raced` if
it is another). `Owns` is the compare-and-swap of `commitHead`: a holder reads a stale head
again and goes on, any other handle commits only on the very head it has.

`Compiler` and `QueryBuilder`: a node is the record the builder derives, the text a
sequence of tokens. The second half of `Compiler` reads tokens back by SQL's grammar
(brackets, AND before OR, clauses up to the next keyword), independently of the code
that wrote them; `QueryBuilder` keeps beside the node what each verb asked for, as sets
of rows, and the two must agree.

`SourcePlan`: `Table` and `Catalog` are the plan of a source, `Reaches` and `TakenAs`
what the engine makes of a table function's positional arguments; a connection lists
namespaces, lists tables, and reads what was named. A name is the sequence of its parts
between dots, for databases and schemas as for tables; `SplitName` takes off the first. User
and password come from the fields, the keys or the url, in the code's order.

`RecordStores`: `Save`, `SaveDated` (a thread that carries an `updatedAt`, which becomes
its version), `UpdateRecord`, `Reads`, `Lands` are the calls of `chdb-store.mjs` and
`chdb-vector.mjs` between their awaits, `Merge` the engine's background merges, `Latest` a
read with FINAL, `SetClock` `Date.now()`, which may stand still or be set back. The rows
are a set; `place` tells in which order they were inserted, which decides between equal
versions. A record carries the group it is deleted with, a message's threadId or a value
of a vector's metadata, and a save or an update may change it. `DeleteThread`,
`DeleteVector` and `DeleteVectors` take the rows their condition selects: all rows of an
id, but of a group only those rows that hold it, newest or not. `meant` is what the calls
on a record, taken one after the other, leave it with.

## 3. What the runs check

| run | module | question | properties |
|---|---|---|---|
| `durable_failures` | `MCDurableObject` | Two handles, each forced or not, and every failure but a late write: lost answers, backend errors, unreadable heads, failed uploads, failed restores, crashes. | `NothingNamedIsMissing`, `OnlyTheHolderCommits` |
| `durable_takeovers` | | Two handles that may force their way in while a head write of the other is still on its way: is what callers see a log with one holder? | `AckedIsDurable`, `TimeoutMeansNotCommitted`, `ReplayIsExact`, `ReplayTakesTurns`, `OpensAsHolder`, `KeepsTheLog` |
| `durable_handover` | | From no object at all: two cold opens race, two statements per segment, lost answers, failed uploads; one handle hands over to the other by closing. | `WatermarkAccounts`, `CloseIsABarrier` |
| `durable_lease` | | Clocks that disagree by exactly the skew allowance, a two-tick lease, a heartbeat, takeover by expiry, a read-only open beside the writer. | `OneBeliever`, `TakeoverIsLegal` |
| `durable_liveness` | | Do `open()` and `close()` always settle, with a heartbeat contending for the head lock? | `OpenReturns`, `CloseReturns` |
| `process` | `MCProcess` | One process: two session slots, two calls, a stream, the shared in-memory directory and a durable engine over two native addresses, in every order of closes, aborts, cancels, failing opens and exit. | `StreamWithinConnection`, `OneDirectory`, `DrainMeansIdle`, `ChainedParamsExclusive`, `ScratchDirs`, `NobodyWaitsInVain`, `NoCloseUnderCall`, `NoFreeUnderFetch`, `NoSideEffectAfterAnswer`, `CloseCompletes`, `ParamAnswered` |
| `parts` | `MCParts` | Five parts that share no state; an initial state picks one, and only that one moves: the streaming insert, the query builder, federated connections, the compatibility gates, and two agent tools with two queries that may outlive their deadlines. | `RowsStayWhole`, `LandsAsCounted`, `SuccessIsWhole`, `FailedRowIsAbsolute`, `BufferIsBounded`, `AlwaysSettles`, `StatementMeansWhatWasAsked`, `FederatedNamesRoundTrip`, `FloorCoversTheBytes`, `NothingLeaks`, `ReadOnlyHolds`, `AbandonedIsClosed` |
| `stores` | `MCStores` | Three parts in the same way. Two clients of one directory, two writes each, from an absent, a plain and a chained `head.json`, with failing system calls and processes dying between any two. | `ImplementsRegister` |
| | | A thread, a message and a vector, two callers; deletes by id, threadId and metadata; merges; a clock that stands still and goes back. | `UpdatesAccumulate` |
| | | Two agent tools with caps of their own over an engine with a row limit and a byte limit, SETTINGS clauses and a caller who SETs limits: is a cut result flagged? | `FlagIsExact` |
| `durable_cold_start` | `MCDurableObject` | A cold open overtaken by a forced one. | `OpensAsHolder` (violated) |
| `worker_exit` | `WorkerThreads` | A Worker that has loaded the addon ends. | `WorkerLeavesConnections` (violated) |
| `lease_race` | `MCParts` | An open that passed the gates loses the lease race to a later engine. | `ClaimsOnlyWhatItCanRead` (violated) |
| `sync_params` | `SyncCalls` | A synchronous parameterised call while an asynchronous one is on a thread. | `SerializedProcessWide` (violated) |

The type invariants (`TypeOK`) of the durable object, the local backend, the process, the
streaming insert and the agent's tools are theorems (section 5, `TypeCorrect`), so no run
spends itself on them.

What the properties say:

Durable objects.

- `AckedIsDurable`: every statement at or under a handle's committed watermark is in
  what the next `open()` replays, for ever, whatever takeovers, crashes, checkpoints
  and late writes follow. This is the promise of the reconcile loop; its mutant takes
  an unanswered write for committed because the lease is still ours.
- `ReplayIsExact`: while a handle holds the lease and no operation runs, its database
  is `Replay(head)` followed by its buffer: nothing lost, doubled or reordered. The
  handles in `unproven` are excepted; section 6 says why they must be.
- `ReplayTakesTurns`: what the head replays, at any moment and with anything in flight,
  is one handle's statements after another's, each handle's together and in the order it
  ran them, the current holder's last. A handle in `unproven` may have statements twice,
  but within its own turn: its retry cannot land behind its successor's. The mutant is a
  checkpoint that keeps the WAL it has folded into its base.
- `TimeoutMeansNotCommitted`: the distinction between `commit_timeout` and
  `commit_ambiguous` is true even of writes still under way.
- `OnlyTheHolderCommits`: the manifest changes only in the holder's name, within its
  generation, by one `seq`, and names only objects the holder uploaded or the old
  manifest named.
- `OneBeliever`: without force, no two handles would both start a write, at the
  boundary of lease and skew allowance. `TakeoverIsLegal`: the lease changes hands by
  the next generation only, and an unexpired one only by force. `OpensAsHolder`: a
  handle escapes `open()` only in a state in which the head names it.
- `KeepsTheLog`: every behaviour is one of `StatementLog`. `OnlyTheHolderCommits` looks
  at what the head names, `AckedIsDurable` at what was acknowledged; this one ties the
  statements replayed to who ran them and when: a step adds to them a prefix of what the
  holder ran or nothing, a takeover adds nothing, a handle that once ran something is
  not given the lease again. A late write that lands after its handle retried, and an
  acquire that lands after its handle gave up, must both fit. Its mutant is a flush that
  forgets the segments before its own.
- `NothingNamedIsMissing`: no head, stored, cached or in flight, names an object that
  was not uploaded.
- `WatermarkAccounts`, `CloseIsABarrier`: `flushThrough`'s tickets and `close()`'s
  promise, through failed flushes and lost release answers.
- `OpenReturns`, `CloseReturns`: every `open()` and `close()` settles.
- `ImplementsRegister`: the directory's every behaviour is one of `HeadRegister`: the
  orphan version of a process that died between link and rename, the slow loser that
  moves the pointer back, the window between the comparison of the ETag and the link,
  reads across the change from file to symlink. Its mutant takes the pointer for the
  authority.
- `FloorCoversTheBytes` (`parts`): through opens, takeovers, flushes and checkpoints of
  engines of several releases, an open restores only what its engine can, the head goes
  on declaring what its bytes need when an older engine writes it, and no engine as
  late as all the writers is refused. It excepts the opens of `lease_race` and a creating
  open that is overtaken before it reads its head back, for which it is not true either:
  both go on with a head no gate saw (section 6, 1 and 3).

One process.

- `NoCloseUnderCall`: no connection is closed while a native call runs on it, whether
  by a close, a deferred teardown, an eviction, the engine's release or the exit.
  `NoFreeUnderFetch` and `StreamWithinConnection` say the same of native cursors.
- `OneDirectory`: all live connections are on the bound directory.
- `DrainMeansIdle`: when the pending sets are empty, nothing is on a thread, no cursor
  JavaScript has closed is left, and no connection is on its way out.
- `ChainedParamsExclusive`, `NoSideEffectAfterAnswer`, `ParamAnswered`: the asynchronous
  parameterised calls, those on the chain, exclude each other, one whose caller was
  answered never starts, and the chain never stops: every waiter gets its turn. The
  synchronous ones are not on the chain; `SerializedProcessWide` is what the design
  document says of all, and it fails (section 6).
- `ScratchDirs`: temporary directories and the shared one are there while a client is
  on them and gone with the last one, failing constructors included.
- `CloseCompletes`: a deferred teardown happens. Its mutant lets a session wait for
  itself.
- `NobodyWaitsInVain`: no wake-up is lost. What a deferred teardown's snapshot still
  holds has not settled, of any closing sessions one waits for none of the others, and
  an unsettled call that is not on a thread is on the chain, whose first one is on a
  thread or has its turn. It is what `CloseCompletes` and `ParamAnswered` rest on,
  fairness aside. Its mutant forgets to advance the chain when nobody listens to the
  call any more.

The rest.

- `RowsStayWhole`, `LandsAsCounted`, `SuccessIsWhole`, `FailedRowIsAbsolute`,
  `BufferIsBounded`, `AlwaysSettles`: chunks end at row boundaries; what
  progress counts has landed, in order, once; success is the whole source; a refused
  row is numbered from the start; memory is bounded; the promise settles. That a failure
  stops the source and every further INSERT (`FailureStops`) is only proved.
- `StatementMeansWhatWasAsked`: read by SQL's grammar with its values put back, a
  compiled statement filters, selects, assigns and combines what the chain of verbs
  asked for.
- `FederatedNamesRoundTrip`: what `databases()` and `tables()` name, in a namespace whose
  name holds no dot, can be read under its qualified name, with the same account, wherever
  the account came from. A bare name reaches the default namespace, which is how one with
  a dot in its name is read. A location's credentials and format are taken for what they
  are, save the format of `azureBlobStorage` (section 6).
- `UpdatesAccumulate`: a record reads as its last save with every later update, and not
  at all once deleted, whatever merges ran and however many calls fell into one
  millisecond, with three exceptions: two calls on it overlapped, it was given a version
  later than the clock (a thread's own `updatedAt`, or a clock set back), or it was
  deleted by a threadId or metadata value that had changed. The first is what
  read-modify-write across an await costs; the other two are observations of section 6.
- `FlagIsExact`: a result that says `truncated` had rows left out. The converse, that a
  result with rows left out says so, is asked where the limits are the ones the tool set
  up (`AsSetUp`): no SETTINGS clause and no `SET` by the caller who lent the session,
  `maxResultBytes` absent or well above `maxBytes` as the code's comment demands, and one
  cap among the tools of a lent session. There the engine's row limit and byte limit,
  which cut without a flag, never cut first.
- `NothingLeaks`, `ReadOnlyHolds`, `AbandonedIsClosed`: a session a tool opened can always
  still be closed; a read-only tool stays on a locked session; the session of a poisoned
  tool is closed in the end.

Every property of a passing run has a mutant in `PROJECT.json`: a plausible slip in one
of the definitions it depends on, under which it fails in the same run.

## 4. Bounds and fairness

### Bounds

Durable runs. Each `.cfg` names them: `MaxStatements` statements per instance,
`MaxUploads` uploads before the one `close()` may need, `MaxLate` head writes in flight,
`MaxAttempts` rounds of `commitHead`, `MaxTime` ticks, `SegmentLimit` statements per
segment, and who may force, read or beat. Two instances are enough for every pairwise
race (holder and taker, two creators, writer and reader); a second takeover in a row
starts from a head of the same shape with a larger generation, which nothing compares
with anything but equality and the previous one. Two attempts give a refused attempt
followed by an ambiguous one and the reverse, which is what `doubt` must remember; two
statements and two uploads give a WAL with more than one line, a checkpoint over a
nonempty WAL and over a nonempty buffer. A lease of two ticks with offsets and an
allowance of one puts a state on each side of each comparison. The runs split the
faults because the product of all of them is too large: none of the properties of one
is affected by the other's faults other than through answers both have.

`VIEW Distinguished` drops what no later step and no property reads: the memory of a
handle that has ended, and the key of an operation that is over (unless it was reported
as a timeout). `SYMMETRY` is used only where every instance has the same roles and the
same clock and no liveness property is checked. The run for liveness uses neither.
Deadlock checking is off: when every handle has ended and nothing is in flight the
system has stopped, as it should.

Local backend. Two clients with two writes each, from each of the three ways a directory
can look, reach a chain of five versions, a pointer left two behind, and a winner that
dies with a loser mid-scan. Its `VIEW` drops `told`, which no step reads, and `want`,
which `calls` determines. A client can always read, so no state is a deadlock.

Process. Two slots with two addresses let two clients hold connections at once, and
make the third fail: the slots can be two sessions, a session and a `ChdbConnection`,
or one of them beside the engine. Two calls are a call in flight and a waiter behind it
on the parameter chain, on one session or on two; one stream suffices because a session
has at most one, and a stream of another session meets it only in the pending set,
which the calls fill too. Slots, calls and the stream are used again and again, so the
histories are unbounded: nothing is counted but references, bounded by the slots. One
directory name per kind gives equal and different keys (each temporary directory is a
name of its own). Deadlock checking is off because an exited process has stopped.

Agent tool. Two tools share or do not share; two calls are abandoned together or one
after the other. In `parts` they have one cap, since nothing asked there depends on it,
and the engine one limit. `stores` leaves the deadline and the allowlist out, of which no
limit depends, and has caps of 1 and 3, at most four rows of one byte of JSON and up to
two in the engine's memory, a byte cap of two and a byte limit of none or five, just above
the largest at which the engine could cut first: the cap of the call, the cap of the
constructor, the byte cap and each of the engine's limits is the lowest in some state.

Parts. Streaming insert: eight bytes, items of up to three, chunks of three and rows of
up to four: several chunks, rows across items and across the chunk limit, rows above the
ceiling. Builder: three verbs from every kind of root over two column tests: every pair
of filters in both orders, in operands, sources and set operations. Source plan: two
databases and two schemas, one of each with a dot in its name, table names of one and two
parts, and each option and each part of the url, its password and the service-role key
among them, given or not.
Compatibility: seven engines (the releases of `version.ts`'s comment in its order, a
two-digit candidate and minor, one release written in two ways, an unparseable one) in
pairs, five writes, heads of earlier and later revisions.

Record stores. One thread, one message and one vector, two groups of which one is the
thread's id, two callers, three saves or updates, a clock of two values: a save, a move to
another group and an update are three calls, and two versions are enough for ahead, equal
and behind. No spans: they differ from messages only in having no deletes.

`MCStores`. The clients, the callers and the tools bear the same two names: no part has
two of them, so that one permutation is a symmetry of all. The three properties are
invariants and a refinement without fairness, for which `SYMMETRY` and `VIEW` are sound. The
`VIEW` also drops `views`, which `ReadOnlyHolds` alone reads, and the rest of a call that
is done with a right flag.

Violation runs use the constants of the run whose module they share, or less.

### Fairness

Durable (`FairSpec`): a handle which has been asked to open or close proceeds
(`Proceeds`), and so does the thread inside `commitHead` (`Commit`). In the code: every
awaited store or engine call settles, and the event loop runs what is ready. S3 clients
time out and the local backend makes bounded system calls, so calls settle; a custom
backend whose call never does blocks `headLock` for ever (a hazard without a property,
since no per-call timeout exists). Nothing is assumed of callers: no fairness on `new`
handles, on `Execute`, on starting flushes or `close()`, on crashes, on late writes or
on time. Weak fairness of `Commit(w, t)` does not exclude the heartbeat from re-entering
the lock for ever; that an operation still gets it is the FIFO queue of `mutex.ts`, and
the mutant of `CloseReturns` breaks exactly that.

Process (`Fairness`): native calls and fetches end, and the event loop runs the
reactions of settled promises: the next waiter's turn, a deferred destroy, a deferred
teardown. libchdb's calls are bounded by the query they run; the event loop is fair
while the process lives, and after `exit` nothing is promised, which the two liveness
properties say. No fairness on anything a user does. Fairness is per call, per stream
and per session, and each of those actions, once enabled, stays enabled until it is
taken or the process exits, so weak fairness is enough.

Streaming insert: JavaScript runs, INSERTs end, timers fire. The source may stay silent
for ever; that is what the stall timeout is for, and the run sets it. A source that
yields for ever is the exception in `AlwaysSettles`.

Agent tool: a native call settles ("delayed, not hung forever", as the comment has it)
and its callback runs. Deadlines and closes are not asked to happen.

## 5. Proofs

| module | theorems |
|---|---|
| `DurableObject_proofs` | `TypeCorrect`, `NothingMissing` (`NothingNamedIsMissing`) |
| `DurableLease_proofs` | `LegalTakeovers` (`TakeoverIsLegal`), `OnlyHoldersCommit` (`OnlyTheHolderCommits`), `HandlesEscapeAsHolders` (`OpensAsHolder`), `AtMostOneBeliever` (`OneBeliever`) |
| `DurableLog_proofs` | `WatermarkIsExact` (`WatermarkAccounts`), `AckedWritesSurvive` (`AckedIsDurable`), `CloseIsDurable` (`CloseIsABarrier`) |
| `DurableRefinement_proofs` | `ObjectKeepsTheLog` (`KeepsTheLog`), `TimeoutsAreNotCommitted` (`TimeoutMeansNotCommitted`), `ReplayRebuildsTheHolder` (`ReplayIsExact`), `HandlesReplayInTurn` (`ReplayTakesTurns`) |
| `LocalBackend_proofs` | `TypeCorrect`, `ImplementsTheRegister` (`ImplementsRegister`) |
| `Process_proofs` | `NothingClosedUnderCalls` (`NoCloseUnderCall`), `NothingFreedUnderFetches` (`NoFreeUnderFetch`), `AnsweredCallsStayOut` (`NoSideEffectAfterAnswer`), `ChainExcludes` (`ChainedParamsExclusive`), `OneDirectoryHolds` (`OneDirectory`), `StreamsWithinConnections` (`StreamWithinConnection`), `DrainedIsIdle` (`DrainMeansIdle`), `DirectoriesLastAsLongAsTheirUsers` (`ScratchDirs`), `WaitsAreNotInVain` (`NobodyWaitsInVain`), `TypeCorrect` |
| `AgentTool_proofs` | `TruncationIsTold` (`FlagIsExact`), `SessionsAreKept` (`NothingLeaks`), `ReadOnlyStaysLocked` (`ReadOnlyHolds`), `TypeCorrect` |
| `Parts_proofs`, streaming insert | `NoRowIsSplit` (`RowsStayWhole`), `CountsWhatLands` (`LandsAsCounted`), `WholeOrFailed` (`SuccessIsWhole`), `RowNumbersAreAbsolute` (`FailedRowIsAbsolute`), `MemoryIsBounded` (`BufferIsBounded`), `FailedMeansStopped` (`FailureStops`, which no run checks), `TypeCorrect` |
| `Parts_proofs`, the rest | `NamesRoundTrip` (`FederatedNamesRoundTrip`), `PrecedenceIsAnOrder`, `TheFloorCoversTheBytes` (`FloorCoversTheBytes`), `UpdatesAreKept` (`UpdatesAccumulate`) |

Each property was checked on its run's instance before it was proved. The
assumptions are those named in the modules: null values are not values, sets that stand
for different things are disjoint, bounds are natural numbers, a start of `Compatibility` is a
head some engine left. They say nothing of the code's behaviour. The theorems about the
lease and the log of a durable object, and `TheFloorCoversTheBytes`, have premises
besides, named below.

### DurableObject: types and references

For any set of instances and all values of the other constants. Neither property is
inductive alone. That `Tail(lockq[w])` is a sequence needs to know the thread leaving
the lock is in it; that a flush's manifest is complete needs its segment to have been
uploaded; that an upload changes no existing object needs its key to be fresh at the
moment of the upload, not only when it was minted. So the invariant is

    IInv == TypeOK /\ LockOK /\ KeyOK /\ JobOK /\ NothingNamedIsMissing

`LockOK` is the head mutex (each thread inside `commitHead` is queued once, and only the
first has a write under way), `JobOK` the operation mutex (one operation, none before
the handle exists or after it is gone), `KeyOK` the keys (an operation's key is its own,
unused until its upload ends and published by the time it commits). `TypeStep`,
`LockStep`, `KeyStep`, `JobStep` and `NamedStep` prove each conjunct is kept, one step
per action. What the proof adds to the runs: any number of handles at once, of uploads,
of attempts, of late writes, and every combination of faults, which no run combines.

### DurableObject: the lease

The proof reduces the dozens of actions to what they do to the head. `Sends(w, e, n)`
lists the writes a handle can send, `SendsKinds` sorts them into four kinds (`Takes`,
`Gives`, `Extends`, `Publishes`), and `HeadStep` says a step changes the head only by
a write that is sent or one that arrives late. So it is enough that every write is
right when it is sent, and stays right while it travels.

`GrantsOK`: every write under way is a legal change of the lease. It stays one because
clocks only advance and `force` is not taken back. `LegalTakeovers` follows for any
object.

`HoldersOK`: a handle that restored last saw a head of its own, and every write under
way changes the manifest in the name of the instance it found there. On a cold start
this is false once the race of `durable_cold_start` has happened; so the theorems resting
on it, all but the first, have a premise on the behaviour,

    Undisturbed == \A w \in Instances : phase[w] = "created" => head.inst = w
    Unraced     == ColdStart => []Undisturbed

nobody takes the lease between the write with which `createCold` creates head.json and
its reading the head back. It excludes nothing else: an open that loses the creating
write to another, or whose creating write goes unanswered, late or lost, is in the
theorems, and where head.json exists, as it does for every open after the first, nothing
is assumed (`NobodyComesBetween`). A takeover of a lease that new needs force or its
expiry. So every theorem below says two things: that its property holds, and, of a cold
start, that this one race is the only way to break it. Before the proof TLC checked the
invariants on cold starts with `Undisturbed` as a constraint.

`BeliefOK`: no recorded expiry is further off than a renewal by its holder would put it
now, and, unless somebody forced, the deadline a handle believes is past on its own
clock or the head still names it, with an expiry no earlier. `AtMostOneBeliever` needs
`SkewCovers` besides: no two clocks differ by more than the skew allowance. That is the
assumption `clockSkewAllowanceMs` states, and the theorem says that the allowance is
enough, and used on the right side.

### DurableObject: the log

`AckedIsDurable` alone says nothing of a base checkpoint being uploaded by a handle, of
a segment whose commit is unanswered, or of a write of a former holder that is still on
its way. The invariant `LogInv` adds:

- `ClaimsAreOld`: a request for the lease that its handle left behind was sent over a
  generation that is past by the time the handle has the lease, so it cannot be granted
  a second time;
- `HeadsOK`: every write under way keeps what the head it was sent over replays, and a
  manifest names a segment with all its lines or not at all;
- `KnownOK`: while a handle holds the lease, nothing is in the head, or on its way into
  it in the handle's name, that it does not have in its own database, so its checkpoint
  loses nothing;
- `CountOK`: the watermark arithmetic, with what the running operation uploaded being
  what it took from the buffer or the database;
- `AckedOK`: what was acknowledged is in the head.

`Restored(h)`, the set of statements a manifest replays, stands for the sequence in
the proof; `OfReplay` links the two. `CloseIsDurable` needs `BarrierOK` besides, which
says how far `close()` got.

### DurableObject: the refinement

That nothing is lost does not exclude a gap. `RInv` adds `Adds`: each write under way
adds to what the head replays a prefix of what its handle executed, the part of it the
write does not carry being in the head already; and `PrefixOK`: what a handle saw last
is in the head, what else it has it executed, and a handle that executed something has
no request for the lease under way that could still be granted. From these `HeadAdds`
gives the prefix a step adds, and `StepMaps` the step of `StatementLog`: an `Execute` is
a `Run`, a change of the lease a `Take` or a `GiveUp` (`LeaseMoves`: it moves nothing
else), any other change a `Commit` by the holder (`ToldMoves`).

### DurableObject: timeouts and exact replay

The log speaks of sets of statements; how often and in which order they are replayed
needs sequences, and a word on keys. The invariant is

    XInv == LogInv /\ \A w \in Instances : NamedOK(w) /\ TimeoutOK(w) /\ ExactOK(w)

`NamedOK` follows the key of a commit under way. Until the head names it no cached head
does, and the only write that can still make the head name it is one in doubt; once the
head names it, only its own handle has that to learn. So when `commitHead` gives up with
a plain timeout, no write of it having gone unanswered and the head it re-read lacking
the key, nothing under way carries the key either: `TimeoutOK` says it is then named by
nothing, and `UnnamedStays` that it remains so, since only the operation that minted a
key sends it.

`ExactOK` says of the handle the lease names, unless it left a commit unproven, that its
database is the replay of its cached head followed by its buffer; that the head has the
cached manifest or the one its running operation means to write, which replays exactly
that database (`Carries`); and that a write of its own still under way keeps the
manifest, expects a head that has passed, or is the doubtful one of the running
operation. `unproven` has to be excepted for the reason section 6 gives. A handle starts
so (`ExactEntered`): it comes to hold the lease by seeing the head that names it, with no
request of its own under way, which is what `KnownOK` of the layer below says.

`ReplayTakesTurns` is about every head, also while an operation of its holder is under
way or its writes land late, so `TInv` adds to `XInv` and `RInv`:

- `InTurn(h)` of the head, of every cached head and of every write under way: it replays
  in turns, the statements of the handle it names last;
- `RanOK`: what the head replays, its handle executed, so a handle that has executed
  nothing has none in it, and a takeover can open a new turn (`FreshIsAbsent`);
- `TurnOK(w)`: the database of w is in turn, which a checkpoint makes the base, and of
  what w saw its own statements are committed, so that a flush appends later ones.

`SentInTurn` is the heart: whatever a handle sends is in turn because what it saw is.
`OrderlyConcat`, about two sequences, carries the flush; the checkpoint and the takeover
are read off.

### LocalBackend

For any sets of clients and of starting states, any number of writes and any faults.
The abstraction that every write has bytes of its own is in the model (`StartWrite`),
not an assumption. The inductive invariant is

    IInv == TypeOK /\ ChainOK /\ \A c \in Clients : ClientOK(c)

`ChainOK`: the versions are `1 .. k`, and before the symlink exists there is at most an
unnamed version 1 beside the plain file. `ClientOK(c)` says what each call knows at each
system call: `Holding`, that an ETag held is of a version still there with those bytes;
`Scanning`, that a scan found a version there is, and a replace's none older than its
ETag; `Writing`, that by the time a write publishes, somebody's version is linked, and
its own if it says so; `Own`, that a write's bytes are in a version only if it linked
them; `Seeing`, that what a read will return was the head while it read. A refusal is
right because the highest version passed the ETag's, which needs `Scanning`, which needs
`Holding`.

The proof uses that nothing in the directory ever goes away (`FilesStep`, `Grows`): so a
client that does not take the step keeps its part (`OthersKept`, once for all actions),
and each action has a lemma for the client that does. The refinement has a lemma per
action (`...Maps`), over three facts: `Pending` is the unnamed write, the others' and
one's own (`PendingParts`); no two writes are alike (`Apart`); a write not yet decided is
not the unnamed one (`NotUnnamed`).

### Process

For any number of sessions, calls, streams, engine calls, directories and addresses. The
central theorem is `NothingClosedUnderCalls`. It is not obvious because
`release_session_conn` does not look at the in-flight count: what protects a running
call is spread over the clients. The inductive invariant

    IInv == RegistryInv /\ Types /\ Threads /\ ChainInv /\ References /\ Held

collects it. `RegistryInv` is the addon alone: one directory, and while nothing is bound
at most the default connection. `Threads`: something is on a thread exactly while its
promise says so. `ChainInv`: a parameterised call that runs is the head of the chain.
`References`: the count is the number of `ChdbConnection`s that hold the directory.
`Held` says, until the exit event, who holds what: every connection has one owner, the
default, the engine or one session not yet torn down (`Owned`); a running call is on its
owner's connection, and an owner that is closing waits for it (`CallOn`); a live cursor
is on an open session, or its destroy is due and the closing session waits for that
(`StreamOn`); an engine's call is on the engine's connection (`EngineOn`). From these
`IdleWhenReleased` follows, that a connection being released has nobody on it, and
`StepsCloseIdle` goes through the steps that close one. `Held` is given up at exit,
where the code gives it up: `ExitTeardown` then looks at the in-flight counts itself,
and the backstop runs once no thread is left.

The steps are proved against interfaces rather than variable by variable:
`RegistryStep` lists the five things a step can do to the registry, and the lemmas
`CallStepKeeps`, `StreamStepKeeps`, `OpenKeeps`, `TeardownKeeps`, `EngineNextKeeps` show
each keeps `Held`.

`ScratchDirs` has an invariant on top, `DirsInv == ~exited => Bound /\ Scratch /\ Shared`.
`Bound`: a session that has a connection, the engine and the default connection are on
the directory the registry is bound to. `Scratch`: a temporary
directory has the name of its session and lasts as long. `Shared`: the shared one is
there while it has a name, and it has one only while somebody holds it. `BoundStays` is the
link to the registry: while a connection other than the default one is kept, the addon
binds nothing else. So when the second `ChdbConnection` opens, the bound directory, the
shared one and its own are the same.

`NobodyWaitsInVain` rests on `IInv` and `WaitsInv`. `Chained`: the calls on the chain
carry parameters and are there once, and a queued one is there; it holds for ever.
`Awaited`: a deferred teardown waits for calls and fetches that have not settled, for
destroys that are due and for sessions that are closing. `Ordered`: every non-empty set
of closing sessions has one that waits for none of the set, which is what a chain of
waits needs to end, whatever the number of sessions. Both hold until the exit event,
after which no promise settles. `WaitsShrink` is the step most actions are: something
settles, and nobody waits for it any more. A close adds a session nobody waits for yet
(`CloseWaits`), a teardown takes one away (`TeardownWaits`).

### AgentTool

For any number of tools and calls, any caps, byte limits and row weights. The inductive
invariant

    AInv == TypeOK /\ \A t : ToolOK(t) /\ Kept(t) /\ Locked(t) /\ ToolLimit(t)
                   /\ \A c : CallOK(c)

says where a tool's session can be (`ToolOK`), who still holds an open one (`Kept`: a
poisoned tool may forget its session only because an abandoned call has it parked),
what a read-only tool was promised from its construction on (`Locked`), that the engine's
limit on a session is one row past the cap of the tools whose results are judged
(`ToolLimit`), and what a call under way captured of the tool before it awaited
(`CallOK`): its session, its cap and the limit it was dispatched under. The last is where
the flag could go wrong: a call reads the cap when it is made and the limit is the
session's, which the constructor of another tool can set meanwhile. `Alike` excludes just
that, and says so in the property. An engine that stopped at the row limit returned a row
past the cap, so the tool's own cut says so; one that stopped at the byte limit holds more
rows than `maxBytes` admits, if the limit is above what the rows the byte cap keeps can
weigh (`Unswayed`). The proof asks of each action what it does to one
session, one tool and one call (`Wanes` and its neighbours), so that only the
constructors and the call's own steps are looked at closely.

### StreamInsert (`Parts_proofs`)

For any chunk size, row ceiling, item and source length. The inductive invariant

    IInv == Types /\ Accumulator /\ SourceDone /\ Writing /\ Landing /\ RefusedRow

says the accumulator starts at a row boundary and was below its ceiling before the item
at hand, where the source can be done, that the chunk handed out ends at the cut and
starts at what was sent, which of the two cases of `LandsAsCounted` a state is in, and
that a refused row lies in the bytes pulled. `CountSplits` (the rows of a stretch cut
after a newline are those of its parts) and `CountOfPrefix` (more bytes behind a stretch
do not change its rows) are what the counting properties rest on.

The proof corrected a bound: `BufferIsBounded` first allowed one byte too few when the
row ceiling equals the chunk size, a case in which none of the instance's constants
lie. A row of exactly `maxRowBytes` without its newline is kept, since the code compares
with `>`.

### SourcePlan (`Parts_proofs`)

For any databases, schemas and tables, whose names are sequences of one or more parts, and
any users and passwords, from whichever place. The property is about listed namespaces of
one part, since `splitName` gives the qualifier no more. `SourceInv` says a
connection keeps its options and lists only what its catalog holds, and that a catalog
which was read was not refused. With it the property is one of the operators: what
`Table` makes of a qualified name, `Reaches` takes apart again. The proof goes through
the schemes; a table's name that itself holds dots survives since only the first
part is split off, which is what the mutant gets wrong.

### Compatibility (`Parts_proofs`)

`PrecedenceIsAnOrder` is about `comparePrecedence` alone, over all versions the parser
can yield: irreflexive, transitive, and incomparable releases are interchangeable. The
gates rely on each of these: taking the higher of two floors covers both only then.

`TheFloorCoversTheBytes` is about the gates and the writes: for any engines, crews and
starting heads. Its premise `OrderAsDocumented` ties the comparison to the documented
order (`rank`) of the releases at hand; on the instance TLC evaluates it (`ASSUME MCOrder`
in `MCParts`), and `PrecedenceIsAnOrder` is why ranks that satisfy it exist for any set of
releases. The inductive invariant

    CInv == CompatTyped /\ AsksOfWriters /\ FloorCovers
                        /\ \A e : GateHolds(e) /\ RestoredOK(e)

has `AsksOfWriters`: the release and the format the head asks for are each those of some
engine that wrote it. Without it the third part of the property, that nobody is refused
needlessly, is not inductive. `GateHolds` says that a gated open whose ETag is still
current holds a head that lets it in, and that a created head whose creator has not been
overtaken names no bytes yet. So an open goes wrong only by losing a race, which is
`raced`: the one for the lease, which is the disagreement `lease_race` shows, or the one
between the creating write and its read-back, the corner of `durable_cold_start`.

### RecordStores (`Parts_proofs`)

For any records, groups, callers, calls and clock values. The inductive invariant

    StoreInv == StoreTyped /\ \A c : CallOK(c) /\ \A id : RecordOK(id)

speaks of the records that are `Plain`, none of the three exceptions. `RecordOK`: such a
record reads as meant, has at most one call under way, has no row later than the clock,
and unless it was moved all its rows are in its group. `CallOK`: what a call is about to
insert is a whole record, or what the record was meant to be with one patch appended,
with a version no lower than any there (a dated save apart) and not ahead of the clock.

A read with FINAL is the row no other replaces (`Foremost`; places differ, so there is
one: `HasForemost`, `ForemostIsRead`). A merge drops only rows that another replaces, so
it changes no read (`DropIsNotSeen`). That an insert is what is read from then on,
although the clock may not have moved since the row it is based on, is `InsertIsRead`: of
equal versions the row inserted later wins. A row that lands behind a higher version (a
thread saved with an older `updatedAt`) is not read, and `meant` says so. A delete by a
group takes all rows of an unmoved record or none; of a moved one that stays it leaves the
foremost row, which is the one in the record's group now (`ForemostIsMeant`,
`DeletesGroupIsFine`).

### What stays with the model checker

Every safety property of a passing run is a theorem, with one exception:
`StatementMeansWhatWasAsked`. The compiler and the grammar that reads its output back are
recursive over conditions of any depth, and what a recursive definition computes for
every input needs an induction the prover cannot be given.

The liveness properties, `OpenReturns`, `CloseReturns`, `CloseCompletes`,
`ParamAnswered`, `AbandonedIsClosed` and `AlwaysSettles`, are only model-checked: the
prover handles neither the fairness of `ENABLED` actions nor leads-to over them. Of
`CloseCompletes` and `ParamAnswered` the part that is about states is proved: by
`WaitsAreNotInVain` whatever they wait for is running, due or has its turn, and only
that it then happens is left to the fairness.

The theorems about a durable object other than `TypeCorrect`, `NothingMissing` and
`LegalTakeovers` exclude the race of `durable_cold_start` (`Unraced`). What still holds
once it has happened is not said by any of them; `durable_cold_start` shows that
`OpensAsHolder` does not.

## 6. Disagreements and observations

### Shown by a run

1. **A cold open can escape on somebody else's lease** (`durable_cold_start`).
   `createCold` adopts the head it reads back after `created` without the ownership
   test the other branch makes. If a forced open took over in between, the confirming
   renewal succeeds on the other's ETag, carrying the other's instance.
2. **A Worker that ends closes the main thread's connections** (`worker_exit`). The
   addon's cleanup hook runs `hard_close_all` on the registry of the whole process, also
   when the environment that ends is a `worker_threads` Worker; `index.js:582` excludes
   exactly that for the exit listener beside it.
3. **An open can claim an object it cannot read** (`lease_race`). `acquireLease` goes
   round its loop with a head it read again, without the gates `createCold` applies to
   the head that beat it; `object.ts:527` says compatibility is settled before anything
   is claimed.
4. **Synchronous parameterised calls run beside asynchronous ones** (`sync_params`).
   `queryBind` (`index.js:431`), `Session.queryBind` (722) and `queryStreamBind` (776) call
   the addon without a turn on `globalParamChain`, while an asynchronous call may be inside
   libchdb on another connection. `docs/design/layer1-native-binding.md:863` says
   parameterised queries are serialised process-wide, and `index.js:249-258` what happens
   if two run at a time: wrong values, or the engine aborts.
### Met while modelling

Durable objects.

- Retrying a flush that was reported as `commit_ambiguous` can replay its statements
  twice: if the unanswered write lands after the last re-read, the retry appends the
  same statements under a new key, though still before any successor's
  (`ReplayTakesTurns`). `errors.ts:172` says a caller that treats ambiguity
  as failure and retries is safe; `object.ts:974` says a blind retry could publish twice.
- `close()` of a handle that its heartbeat fenced resolves although buffered statements
  were dropped (`object.ts:761`, `809`); the design document (`docs/design/durable-control-plane.md:169`)
  says it rejects if the flush or the release failed.
- `publishPointer` renames its caller's version over whatever is there (`local.ts:361`),
  so a slow loser of the race leaves the symlink at an older version until the next
  `currentVersion` repairs it; a reader that only follows the symlink, as `local.ts:57`
  describes, sees the old head meanwhile. The backend looks past the pointer.
- An engine whose version does not parse can create an object cold that nobody,
  itself included, can then commit to or open.
- A re-read of the head that throws after an unanswered commit surfaces as a backend
  error rather than `commit_ambiguous`; a `close()` whose release landed rejects as
  fenced if somebody else acquired before the re-read; an `open()` that fails after its
  lease write went unanswered can leave its lease behind until it expires.

One process.

- `ChdbConnection.close()` lets the session defer its teardown but gives its reference to
  the shared directory back at once: the directory is removed while the connection of
  the closing session is still on it. `ScratchDirs` therefore speaks of open sessions.
- `cancel()` during a fetch lets the next `queryStream()` start while the old native
  cursor is live, where `index.js` says one streaming cursor per connection.
- Two concurrent iterators of one stream overwrite `_inflight`. A streaming insert on the
  default connection counts as no pending default operation between two chunks.
- A raw insert or `queryAsync` with a signal already aborted still dispatches natively.
- The shared directory is left behind when the process exits without `close()`.
  `process.exit()` in the microtask between a fetch's end and its deferred destroy leaves
  a stream handle on a closed connection; nothing uses it any more.

Streaming insert.

- An abort is not raced against the pull: with a silent source and no stall timeout the
  promise never settles, where the header says it always does. An item without bytes
  re-arms the stall timer. An insert whose signal was aborted beforehand leaves its
  source undestroyed.

Agent tool and record stores.

- `CONTRACT.md` says truncation is "never silent" (P3); `max_result_bytes` "truncates at
  block granularity WITHOUT a flag" (`tool.mjs:146`), which the option's comment tells, and
  a SETTINGS clause of the statement overrides the engine's limits, which P3 itself tells.
  `FlagIsExact` has both as premises of its converse part.

- Tools with different `maxRows` on one lent session share its engine limit, set by the
  last constructor; a constructor that fails late leaves its settings on a lent session;
  `attachFile()` does not look at the poison flag; `listTables`, `listDatabases` and
  `listFunctions` drop the truncated flag; a deadline that passes after `close()` parks
  nothing, which is harmless.
- A thread dated ahead of the clock swallows its updates. `saveThread` takes the thread's
  `updatedAt` for the version (`chdb-store.mjs:69`); until the clock passes it, every
  `updateThread` resolves and is never read, although none overlapped. The file's header
  promises upsert by id. `UpdatesAccumulate` without `ahead` fails on it.
- A delete can bring an older version back. `deleteThread` (`chdb-store.mjs:96`) and
  `deleteVectors` (`chdb-vector.mjs:149`) delete the physical rows whose own column holds
  the value. A record that was given the value later keeps the older row, if no merge has
  dropped it yet, and a read with FINAL returns it. The header says a re-saved id returns
  its latest version without waiting for a merge. `UpdatesAccumulate` without `returned`
  fails on it.
- Overlapping updates of one record lose one, as read-modify-write across an await must;
  `UpdatesAccumulate` speaks of calls that do not overlap. `saveThread` with an older
  `updatedAt` is superseded silently; a clock that is set back does to any record what a
  future `updatedAt` does to a thread; `deleteThread` is two statements, and the messages
  stay if the second throws; messages saved while `deleteThread` runs survive;
  `createIndex` on an existing index with another metric rewrites the catalogue row
  only, and beside `deleteIndex` it can leave one without a table.

Federated connections.

- `databases()` can list a database or schema with a dot in its name, and a table of it
  cannot be read under the qualified name: `splitName` (`url-scheme.ts:143`) ends the
  qualifier at the first dot. As the connection's own database, or its `schema`, it is read
  by a bare table name. Nothing in the repository says otherwise.
- For `azureBlobStorage` the format goes into the second position (`url-scheme.ts:212`),
  where the engine's function has the container; `connect.test.ts:103` asserts that call.

Query builder.

- `combine()` does not bracket a raw operand; a set operation drops its operand's own
  set operations, CTEs and settings; `executeStatement` ignores `opts.settings`; table
  names that contain dots have to be qualified. The model's operands and predicates
  leave the first two out.

## 7. What is not modelled

- Of the durable object: byte sizes (`SegmentLimit` counts statements; `head.json`
  outgrowing 1 MiB and a buffer growing past a segment are hazards without a property),
  corrupt bytes, digests, JSON validation and unknown fields, scratch directories,
  logging. `reconcileUpload`'s inner rounds are abstracted to their ends: proved present
  (`Uploaded`, `UploadedTooLate`) or failed, with or without leaving the object behind.
  A store call that never answers is excluded by fairness.
- Of the local backend: immutable objects (the same `link`, with staging and copying
  around it), key validation, scratch files, and the loss of power that its flushes are
  for.
- Of the addon: Arrow tables pinned on a connection, argument conversion, and an exit of
  the process while a second environment is loaded.
- Of Layer 1: `installSignalHandlers()`, which calls the teardown of the exit event from
  a signal; synchronous calls without parameters, which run on the event loop and leave
  behind no more than an asynchronous call that has settled. Of the synchronous calls with
  parameters, what libchdb makes of two at a time: `SyncCalls` says they meet.
- Of the engine adapter: the classification of statements and the SQL of backup and
  restore. Of the connection: settings and result mapping.
- Of Layer 3: names and quoting, placeholder types, modifiers that carry no value, result
  formats, and the generator of TypeScript. Of the federated connections: parsing of the
  url text.
- Of the agent tool: how a statement is scanned for table functions; the verdict is an
  input. Of the record stores: listing, paging, similarity search, the index
  catalogue with `createIndex` and `deleteIndex`.
- The components marked `not_modelled` in `PROJECT.json`, with their reasons: pure
  translations, data classes, re-exports and tooling.

What would come next: a compiler written with
recursive functions, so that at least its bracketing can be proved for one level on top of
any operand; the index catalogue of the vector store.

## 8. Running

    tlc -workers 2 -config MCDurableFailures.cfg MCDurableObject
    tlc -workers 2 -config MCDurableTakeovers.cfg MCDurableObject
    tlc -workers 2 -config MCProcess.cfg MCProcess
    tlc -workers 2 -config MCSyncCalls.cfg SyncCalls
    tlc -workers 2 -config MCStores.cfg MCStores
    tlc -workers 2 -config MCParts.cfg MCParts
    tlapm DurableObject_proofs.tla
    tlapm DurableLease_proofs.tla
    tlapm DurableLog_proofs.tla
    tlapm DurableRefinement_proofs.tla
    tlapm LocalBackend_proofs.tla
    tlapm Process_proofs.tla
    tlapm AgentTool_proofs.tla
    tlapm Parts_proofs.tla

The runs, their configurations and the mutants are listed in `PROJECT.json`; a mutant
replaces the body of the definition it names by the definition above it, and its
property must then fail.
