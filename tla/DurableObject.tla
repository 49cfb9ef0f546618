---------------------------- MODULE DurableObject ----------------------------
(***************************************************************************)
(* The Durable V1 object state machine (src/durable/object.ts): opening,   *)
(* the lease, the operation queue, WAL publication, checkpoint, heartbeat, *)
(* the reconcile of a head write whose answer was lost, and close.         *)
(*                                                                         *)
(* Every element of Instances is one open() call and the handle it may     *)
(* give; it is used once, as the code mints a fresh instance UUID per      *)
(* open.  Several run at once against one ObjectStore.                     *)
(*                                                                         *)
(* Atomicity.  An action is what runs between two awaits that another      *)
(* actor can observe.  The operation mutex `ops` runs one operation at a   *)
(* time, so a handle has one `job`; the head mutex serialises that job's   *)
(* commit with the heartbeat's, in the order they asked (`lockq`).  A      *)
(* conditional write, its effect and its answer are one step: the handle   *)
(* does nothing between sending and being answered, and a write that       *)
(* lands after its caller gave up is kept in `late`.                       *)
(***************************************************************************)
EXTENDS ObjectStore

CONSTANTS
    Forcing,        \* instances whose open() may pass force: true
    Readers,        \* instances whose open() may pass readOnly: true
    Beating,        \* bound: instances whose heartbeat timer fires
    Offset,         \* how far each instance's wall clock runs ahead
    LeaseTtl,       \* tuning.leaseTtlMs
    SkewAllowance,  \* tuning.clockSkewAllowanceMs
    MaxAttempts,    \* tuning.maxCommitAttempts
    SegmentLimit,   \* LIMITS.MAX_WAL_SEGMENT_BYTES, counted in statements
    MaxStatements,  \* bound: statements an instance executes
    MaxTime         \* bound: clock ticks

ASSUME RolesAssumption ==
    Forcing \subseteq Instances /\ Readers \subseteq Instances /\ Beating \subseteq Instances
ASSUME OffsetAssumption == Offset \in [Instances -> Nat]
ASSUME TuningAssumption ==
    /\ LeaseTtl \in Nat \ {0}
    /\ SkewAllowance \in Nat
    /\ MaxAttempts \in Nat \ {0}
    /\ SegmentLimit \in Nat \ {0}
    /\ MaxStatements \in Nat
    /\ MaxTime \in Nat

VARIABLES
    now,        \* true time; instance w reads now + Offset[w]
    phase,      \* where a handle is between open() and closed
    forced,     \* options.force of its open()
    cache,      \* this.head: the head, and so the ETag, it last saw
    local,      \* its scratch database: the statements applied, in order
    buffer,     \* walBuffer
    executed,   \* statementCounter
    committed,  \* committedStatementCount
    fenced,
    deadline,   \* leaseDeadlineMs
    job,        \* the operation the queue is running
    key,        \* the key that operation minted
    at,         \* where its thread and the heartbeat's are
    lockq,      \* headLock: its holder, then who waits for it
    attempts,   \* commitHead: attempts made
    doubt,      \*             sawAmbiguous
    written,    \*             the expiry a renewal wrote last
    result,     \* what the last operation told its caller
    unproven    \* history: handles that left a commit neither proved nor refuted

leaseVars  == <<phase, forced, cache, fenced, deadline>>
dataVars   == <<local, buffer, executed, committed>>
jobVars    == <<job, key, result, unproven>>
commitVars == <<at, lockq, attempts, doubt, written>>
vars == <<storeVars, now, leaseVars, dataVars, jobVars, commitVars>>

Threads == {"op", "hb"}
Steps   == {"idle", "upload", "commit", "reread"}
Jobs    == {"none", "flush", "checkpoint", "release", "confirm"}
Results == {"none", "ok", "timeout", "ambiguous", "fenced", "backend"}

Opening == {"acquiring", "acquireReread", "creating", "created", "createReread",
            "restoring", "confirming", "unwinding", "unwindRelease"}
Reading == {"snapshotting", "readonly"}
Writing == {"open", "draining", "closing"}
Ended   == {"closed", "closeFailed", "openFailed", "crashed"}
Phases  == {"new"} \union Opening \union Reading \union Writing \union Ended

Init ==
    /\ StoreInit
    /\ now       = 0
    /\ phase     = [w \in Instances |-> "new"]
    /\ forced    = [w \in Instances |-> FALSE]
    /\ cache     = [w \in Instances |-> Absent]
    /\ local     = [w \in Instances |-> <<>>]
    /\ buffer    = [w \in Instances |-> <<>>]
    /\ executed  = [w \in Instances |-> 0]
    /\ committed = [w \in Instances |-> 0]
    /\ fenced    = [w \in Instances |-> FALSE]
    /\ deadline  = [w \in Instances |-> 0]
    /\ job       = [w \in Instances |-> "none"]
    /\ key       = [w \in Instances |-> NoBase]
    /\ at        = [w \in Instances |-> [t \in Threads |-> "idle"]]
    /\ lockq     = [w \in Instances |-> <<>>]
    /\ attempts  = [w \in Instances |-> 0]
    /\ doubt     = [w \in Instances |-> FALSE]
    /\ written   = [w \in Instances |-> 0]
    /\ result    = [w \in Instances |-> "none"]
    /\ unproven  = {}

------------------------------------------------------------------------------
(* Clocks and the lease as a handle believes it. *)

Clock(w) == now + Offset[w]

LeaseUntil(w) == Clock(w) + LeaseTtl
Lapsed(w)     == Clock(w) >= deadline[w]

\* assertWriter() would let this handle through.
MayWrite(w) == ~fenced[w] /\ ~Lapsed(w)

Earlier(a, b) == IF a < b THEN a ELSE b

\* Believe what is stored, not what a fresh clock would allow.
Believed(w, h) == Earlier(h.exp, LeaseUntil(w))

Tick ==
    /\ now < MaxTime
    /\ now' = now + 1
    /\ UNCHANGED <<storeVars, leaseVars, dataVars, jobVars, commitVars>>

------------------------------------------------------------------------------
(* Taking the lease. *)

Go(w, p) == phase' = [phase EXCEPT ![w] = p]
See(w, h) == cache' = [cache EXCEPT ![w] = h]

\* open() reads head.json before it creates or claims anything.
OpenFindsObject(w) ==
    /\ phase[w] = "new"
    /\ head.gen > 0
    /\ \E f \in IF w \in Forcing THEN BOOLEAN ELSE {FALSE} :
          forced' = [forced EXCEPT ![w] = f]
    /\ See(w, head)
    /\ Go(w, "acquiring")
    /\ UNCHANGED <<storeVars, now, fenced, deadline, dataVars, jobVars, commitVars>>

OpenFindsNothing(w) ==
    /\ phase[w] = "new"
    /\ head.gen = 0
    /\ Go(w, "creating")
    /\ UNCHANGED <<storeVars, now, forced, cache, fenced, deadline, dataVars, jobVars, commitVars>>

\* createCold: one conditional create that also takes generation 1.
Created(w) == WithLease(Absent, 1, w, LeaseUntil(w))

Create(w) ==
    /\ phase[w] = "creating"
    /\ \E answer \in Answers :
          /\ HeadWrite(Absent, Created(w), answer)
          /\ Go(w, CASE answer = "replaced" -> "created"
                     [] answer = "error"    -> "openFailed"
                     [] OTHER               -> "createReread")
    /\ UNCHANGED <<now, forced, cache, fenced, deadline, dataVars, jobVars, commitVars>>

\* Told it was created, open() reads the head back and takes what it finds.
CreatedReadsBack(w) ==
    /\ phase[w] = "created"
    /\ See(w, head)
    /\ Go(w, "restoring")
    /\ UNCHANGED <<storeVars, now, forced, fenced, deadline, dataVars, jobVars, commitVars>>

\* Lost the race, or the answer: the head says whether the create landed, and
\* if another instance holds it this becomes an ordinary, unforced acquire.
CreateReread(w) ==
    /\ phase[w] = "createReread"
    /\ IF head.gen = 0
         THEN Go(w, "openFailed") /\ UNCHANGED <<cache, forced>>
         ELSE /\ See(w, head)
              /\ Go(w, IF head.inst = w THEN "restoring" ELSE "acquiring")
              /\ forced' = [forced EXCEPT ![w] = FALSE]
    /\ UNCHANGED <<storeVars, now, fenced, deadline, dataVars, jobVars, commitVars>>

\* Mutant of Takeable: no allowance for clock skew.
TakeableAtExpiry(w, h) ==
    h.inst = Nobody \/ forced[w] \/ Clock(w) >= h.exp

\* A held lease is free to take only once its recorded expiry is past by more
\* than the skew allowance, or by force.
Takeable(w, h) ==
    h.inst = Nobody \/ forced[w] \/ Clock(w) >= h.exp + SkewAllowance

\* Mutant of Acquired: the lease is taken within the old generation.
AcquiredSameGeneration(w, h) == WithLease(h, h.gen, w, LeaseUntil(w))

Acquired(w, h) == WithLease(h, h.gen + 1, w, LeaseUntil(w))

AcquireRefused(w) ==
    /\ phase[w] = "acquiring"
    /\ ~Takeable(w, cache[w])
    /\ Go(w, "openFailed")
    /\ UNCHANGED <<storeVars, now, forced, cache, fenced, deadline, dataVars, jobVars, commitVars>>

Acquire(w) ==
    /\ phase[w] = "acquiring"
    /\ Takeable(w, cache[w])
    /\ \E answer \in Answers :
          /\ HeadWrite(cache[w], Acquired(w, cache[w]), answer)
          /\ IF answer = "replaced" THEN See(w, Acquired(w, cache[w])) ELSE UNCHANGED cache
          /\ Go(w, CASE answer = "replaced" -> "restoring"
                     [] answer = "error"    -> "openFailed"
                     [] OTHER               -> "acquireReread")
    /\ attempts' = [attempts EXCEPT ![w] = @ + 1]
    /\ UNCHANGED <<now, forced, fenced, deadline, dataVars, jobVars, at, lockq, doubt, written>>

\* The re-read after an attempt that was not answered "replaced".  The commit
\* deadline may have passed by any of them.
AcquireReread(w) ==
    /\ phase[w] = "acquireReread"
    /\ IF head.inst = w
         THEN Go(w, "restoring") /\ See(w, head)
         ELSE \/ Go(w, "openFailed") /\ UNCHANGED cache
              \/ attempts[w] < MaxAttempts /\ Go(w, "acquiring") /\ See(w, head)
    /\ UNCHANGED <<storeVars, now, forced, fenced, deadline, dataVars, jobVars, commitVars>>

\* readHead() throws while the open is still taking the lease: nothing to undo
\* that open() knows of, even if the lease write had landed.
OpenCannotReadHead(w) ==
    /\ phase[w] \in {"new", "created", "createReread", "acquireReread"}
    /\ "unreadable" \in Faults
    /\ Go(w, "openFailed")
    /\ UNCHANGED <<storeVars, now, forced, cache, fenced, deadline, dataVars, jobVars, commitVars>>

------------------------------------------------------------------------------
(* Restoring, and confirming the lease before the handle escapes. *)

Step(w, t, s) == at' = [at EXCEPT ![w][t] = s]
Queue(w, t)   == lockq' = [lockq EXCEPT ![w] = Append(@, t)]
Run(w, j)     == job' = [job EXCEPT ![w] = j]

\* Mutant of Restore: the handle escapes without confirming its lease.
RestoreOpens(w) ==
    /\ phase[w] = "restoring"
    /\ RefsPresent(cache[w])
    /\ local'    = [local EXCEPT ![w] = Replay(cache[w])]
    /\ deadline' = [deadline EXCEPT ![w] = Believed(w, cache[w])]
    /\ attempts' = [attempts EXCEPT ![w] = 0]
    /\ Go(w, "open")
    /\ UNCHANGED <<storeVars, now, forced, cache, fenced, buffer, executed, committed,
                   jobVars, at, lockq, doubt, written>>

\* restoreInto() and the constructor; renewLease() queues for the head lock.
Restore(w) ==
    /\ phase[w] = "restoring"
    /\ RefsPresent(cache[w])
    /\ local'    = [local EXCEPT ![w] = Replay(cache[w])]
    /\ deadline' = [deadline EXCEPT ![w] = Believed(w, cache[w])]
    /\ attempts' = [attempts EXCEPT ![w] = 0]
    /\ Go(w, "confirming")
    /\ Run(w, "confirm")
    /\ Step(w, "op", "commit")
    /\ Queue(w, "op")
    /\ UNCHANGED <<storeVars, now, forced, cache, fenced, buffer, executed, committed,
                   key, result, unproven, doubt, written>>

\* A missing or corrupt object, an engine that cannot restore, a failed read.
RestoreFails(w) ==
    /\ phase[w] \in {"restoring", "snapshotting"}
    /\ "engine" \in Faults \/ ~RefsPresent(cache[w])
    /\ Go(w, IF phase[w] = "restoring" THEN "unwinding" ELSE "openFailed")
    /\ UNCHANGED <<storeVars, now, forced, cache, fenced, deadline, dataVars, jobVars, commitVars>>

\* open()'s catch: give the lease back, if the head still names this instance.
UnwindReadsHead(w) ==
    /\ phase[w] = "unwinding"
    /\ IF head.inst = w
         THEN See(w, head) /\ Go(w, "unwindRelease")
         ELSE Go(w, "openFailed") /\ UNCHANGED cache
    /\ UNCHANGED <<storeVars, now, forced, fenced, deadline, dataVars, jobVars, commitVars>>

Unheld(h) == WithLease(h, h.gen, Nobody, 0)

\* One attempt, whatever its answer.
UnwindReleases(w) ==
    /\ phase[w] = "unwindRelease"
    /\ \E answer \in Answers : HeadWrite(cache[w], Unheld(cache[w]), answer)
    /\ Go(w, "openFailed")
    /\ UNCHANGED <<now, forced, cache, fenced, deadline, dataVars, jobVars, commitVars>>

\* A read-only open: the manifest read here is all it will ever serve.
OpenReadOnly(w) ==
    /\ phase[w] = "new"
    /\ w \in Readers
    /\ head.gen > 0
    /\ See(w, head)
    /\ Go(w, "snapshotting")
    /\ UNCHANGED <<storeVars, now, forced, fenced, deadline, dataVars, jobVars, commitVars>>

RestoreSnapshot(w) ==
    /\ phase[w] = "snapshotting"
    /\ RefsPresent(cache[w])
    /\ local' = [local EXCEPT ![w] = Replay(cache[w])]
    /\ Go(w, "readonly")
    /\ UNCHANGED <<storeVars, now, forced, cache, fenced, deadline, buffer, executed, committed,
                   jobVars, commitVars>>

------------------------------------------------------------------------------
(* The operation queue: execute, flush, checkpoint. *)

\* The queue is free and close() has not sealed it.
Ready(w) == phase[w] = "open" /\ job[w] = "none"

\* An operation finds its lease lapsed: the handle fences itself for good.
SelfFence(w) ==
    /\ Ready(w)
    /\ ~fenced[w]
    /\ Lapsed(w)
    /\ fenced' = [fenced EXCEPT ![w] = TRUE]
    /\ UNCHANGED <<storeVars, now, phase, forced, cache, deadline, dataVars, jobVars, commitVars>>

\* execute(): budget first, then run, then buffer.  A statement the budget or
\* the engine refuses changes nothing.
Execute(w) ==
    /\ Ready(w)
    /\ MayWrite(w)
    /\ Len(buffer[w]) < SegmentLimit
    /\ executed[w] < MaxStatements
    /\ LET s == [inst |-> w, n |-> executed[w] + 1] IN
         /\ local'  = [local EXCEPT ![w] = Append(@, s)]
         /\ buffer' = [buffer EXCEPT ![w] = Append(@, s)]
    /\ executed' = [executed EXCEPT ![w] = @ + 1]
    /\ UNCHANGED <<storeVars, now, leaseVars, committed, jobVars, commitVars>>

\* The keys this instance has not used: the random suffix of walKey and
\* checkpointKey never gives it one twice.
Unused(w)  == {k \in Key : k.inst = w /\ k \notin published}
NextKey(w) == CHOOSE k \in Unused(w) : TRUE

\* MaxUploads leaves the final flush of close() a key.
MayStart(w) == MayWrite(w) /\ Cardinality(Unused(w)) > 1

StartUpload(w, j) ==
    /\ Unused(w) # {}
    /\ Run(w, j)
    /\ key'    = [key EXCEPT ![w] = NextKey(w)]
    /\ result' = [result EXCEPT ![w] = "none"]
    /\ Step(w, "op", "upload")
    /\ UNCHANGED <<unproven, lockq, attempts, doubt, written>>

StartFlush(w) ==
    /\ Ready(w)
    /\ MayStart(w)
    /\ buffer[w] # <<>>
    /\ StartUpload(w, "flush")
    /\ UNCHANGED <<storeVars, now, leaseVars, dataVars>>

\* The archive is taken here; the queue is held, so the database stays as it is.
StartCheckpoint(w) ==
    /\ Ready(w)
    /\ MayStart(w)
    /\ StartUpload(w, "checkpoint")
    /\ UNCHANGED <<storeVars, now, leaseVars, dataVars>>

\* What the caller of the running operation is told; a failed flush ends close().
EndJob(w, told) ==
    /\ Run(w, "none")
    /\ result' = [result EXCEPT ![w] = told]

\* Mutant of FailJob: a failed confirmation does not unwind the open().
FailJobForgetsOpen(w, told) ==
    /\ EndJob(w, told)
    /\ Go(w, IF phase[w] = "closing" THEN "closeFailed" ELSE phase[w])

FailJob(w, told) ==
    /\ EndJob(w, told)
    /\ Go(w, CASE phase[w] = "closing"    -> "closeFailed"
               [] phase[w] = "confirming" -> "unwinding"
               [] OTHER                   -> phase[w])

Uploading(w) == at[w]["op"] = "upload"

Payload(w) == IF job[w] = "flush" THEN buffer[w] ELSE local[w]

\* Mutant of Uploaded: an upload whose outcome is unknown is taken for done.
UploadedUnproven(w) ==
    /\ Uploading(w)
    /\ MayWrite(w)
    /\ Step(w, "op", "commit")
    /\ Queue(w, "op")
    /\ UNCHANGED <<storeVars, now, leaseVars, dataVars, jobVars, attempts, doubt, written>>

\* publishBytes/publishFile came back with the object proved to be there, and
\* the lease is still believed: queue for the head lock.
Uploaded(w) ==
    /\ Uploading(w)
    /\ MayWrite(w)
    /\ Publish(key[w], Payload(w))
    /\ Step(w, "op", "commit")
    /\ Queue(w, "op")
    /\ UNCHANGED <<now, leaseVars, dataVars, jobVars, attempts, doubt, written>>

\* The upload outlasted the lease, or a heartbeat fenced the handle meanwhile.
UploadedTooLate(w) ==
    /\ Uploading(w)
    /\ ~MayWrite(w)
    /\ Publish(key[w], Payload(w))
    /\ fenced' = [fenced EXCEPT ![w] = TRUE]
    /\ FailJob(w, "fenced")
    /\ Step(w, "op", "idle")
    /\ UNCHANGED <<now, forced, cache, deadline, dataVars, key, unproven, lockq, attempts,
                   doubt, written>>

\* The upload failed or could not be proved; an orphan may be left behind.
UploadFails(w) ==
    /\ Uploading(w)
    /\ "upload" \in Faults
    /\ \/ Publish(key[w], Payload(w))
       \/ UNCHANGED storeVars
    /\ FailJob(w, "backend")
    /\ Step(w, "op", "idle")
    /\ UNCHANGED <<now, forced, cache, fenced, deadline, dataVars, key, unproven, lockq,
                   attempts, doubt, written>>

------------------------------------------------------------------------------
(* commitHead: the one path that writes the head of an open handle. *)

\* What thread t of w is committing.
Intent(w, t) == IF t = "hb" \/ job[w] = "confirm" THEN "renew" ELSE job[w]

Lines(k) == [i \in 1 .. Len(content[k]) |-> [key |-> k, line |-> i]]

\* Mutant of Build: a flush names its own segment and drops those before it.
BuildNamesOwnSegment(w, t) ==
    LET h == cache[w]
        i == Intent(w, t)
    IN  CASE i = "flush"      -> WithManifest(h, h.base, Lines(key[w]))
          [] i = "checkpoint" -> WithManifest(h, key[w], <<>>)
          [] i = "release"    -> Unheld(h)
          [] OTHER            -> WithLease(h, h.gen, h.inst, LeaseUntil(w))

\* Mutant of Build: a checkpoint keeps the WAL segments its snapshot covers.
BuildKeepsWal(w, t) ==
    LET h == cache[w]
        i == Intent(w, t)
    IN  CASE i = "flush"      -> WithManifest(h, h.base, h.wal \o Lines(key[w]))
          [] i = "checkpoint" -> WithManifest(h, key[w], h.wal)
          [] i = "release"    -> Unheld(h)
          [] OTHER            -> WithLease(h, h.gen, h.inst, LeaseUntil(w))

\* params.build: the next head, from the one the handle last saw.
Build(w, t) ==
    LET h == cache[w]
        i == Intent(w, t)
    IN  CASE i = "flush"      -> WithManifest(h, h.base, h.wal \o Lines(key[w]))
          [] i = "checkpoint" -> WithManifest(h, key[w], <<>>)
          [] i = "release"    -> Unheld(h)
          [] OTHER            -> WithLease(h, h.gen, h.inst, LeaseUntil(w))

\* params.committed: this intent, recognised in a head someone may have written.
Intended(w, t, h) ==
    LET i == Intent(w, t)
    IN  CASE i = "flush"      -> \E n \in DOMAIN h.wal : h.wal[n].key = key[w]
          [] i = "checkpoint" -> h.base = key[w]
          [] i = "release"    -> h.inst = Nobody
          [] OTHER            -> h.inst = w /\ h.exp >= written[w]

StillOurs(w, h) == h.inst = w /\ h.gen = cache[w].gen

\* Mutant of Proven: an unanswered write is taken for committed while the lease
\* is still this instance's.
ProvenByOwnership(w, t, h) == StillOurs(w, h) \/ Intended(w, t, h)

Proven(w, t, h) == Intended(w, t, h) /\ (StillOurs(w, h) \/ Intent(w, t) = "release")

Holds(w, t) == lockq[w] # <<>> /\ Head(lockq[w]) = t

Attempting(w, t) == at[w][t] = "commit" /\ Holds(w, t)
Rereading(w, t)  == at[w][t] = "reread"

\* Mutant of LeaveLock: an operation that throws keeps the head lock.
LeaveLockHeld(w, t) ==
    /\ Step(w, t, "idle")
    /\ lockq'    = [lockq EXCEPT ![w] = IF doubt[w] THEN @ ELSE Tail(@)]
    /\ attempts' = [attempts EXCEPT ![w] = 0]
    /\ doubt'    = [doubt EXCEPT ![w] = FALSE]
    /\ written'  = [written EXCEPT ![w] = 0]

LeaveLock(w, t) ==
    /\ Step(w, t, "idle")
    /\ lockq'    = [lockq EXCEPT ![w] = Tail(@)]
    /\ attempts' = [attempts EXCEPT ![w] = 0]
    /\ doubt'    = [doubt EXCEPT ![w] = FALSE]
    /\ written'  = [written EXCEPT ![w] = 0]

\* Mutant of FlushDone: the watermark counts segments.
FlushDoneCountsSegments(w) ==
    LET n == Len(content[key[w]])
    IN  /\ buffer'    = [buffer EXCEPT ![w] = SubSeq(@, n + 1, Len(@))]
        /\ committed' = [committed EXCEPT ![w] = @ + 1]
        /\ EndJob(w, "ok")
        /\ UNCHANGED <<phase, fenced, deadline>>

\* A WAL segment is committed: its statements leave the buffer.
FlushDone(w) ==
    LET n == Len(content[key[w]])
    IN  /\ buffer'    = [buffer EXCEPT ![w] = SubSeq(@, n + 1, Len(@))]
        /\ committed' = [committed EXCEPT ![w] = @ + n]
        /\ EndJob(w, "ok")
        /\ UNCHANGED <<phase, fenced, deadline>>

\* Mutant of CheckpointDone: the buffer outlives the base that covers it.
CheckpointDoneKeepsBuffer(w) ==
    /\ committed' = [committed EXCEPT ![w] = @ + Len(buffer[w])]
    /\ EndJob(w, "ok")
    /\ UNCHANGED <<buffer, phase, fenced, deadline>>

\* A base is committed: everything executed so far is in it.
CheckpointDone(w) ==
    /\ buffer'    = [buffer EXCEPT ![w] = <<>>]
    /\ committed' = [committed EXCEPT ![w] = @ + Len(buffer[w])]
    /\ EndJob(w, "ok")
    /\ UNCHANGED <<phase, fenced, deadline>>

\* The lease is given back: close() can resolve.
ReleaseDone(w) ==
    /\ fenced'   = [fenced EXCEPT ![w] = FALSE]
    /\ deadline' = [deadline EXCEPT ![w] = 0]
    /\ EndJob(w, "ok")
    /\ Go(w, "closed")
    /\ UNCHANGED <<buffer, committed>>

\* A renewal: believe what is stored.  The first one lets the handle escape.
RenewDone(w, t, h) ==
    /\ deadline' = [deadline EXCEPT ![w] = Believed(w, h)]
    /\ IF t = "hb" THEN UNCHANGED <<phase, job, result>>
                   ELSE EndJob(w, "ok") /\ Go(w, "open")
    /\ UNCHANGED <<fenced, buffer, committed>>

\* adopt(), and what the caller of commitHead does next.
Settle(w, t, h) ==
    /\ See(w, h)
    /\ LeaveLock(w, t)
    /\ CASE Intent(w, t) = "flush"      -> FlushDone(w)
         [] Intent(w, t) = "checkpoint" -> CheckpointDone(w)
         [] Intent(w, t) = "release"    -> ReleaseDone(w)
         [] OTHER                       -> RenewDone(w, t, h)
    /\ UNCHANGED <<now, forced, local, executed, key, unproven>>

\* commitHead throws.  A heartbeat's failure is swallowed; an operation's ends
\* it, and close() or open() with it.  `open` says the outcome stayed unknown.
GiveUp(w, t, told, open) ==
    /\ LeaveLock(w, t)
    /\ IF t = "hb" THEN UNCHANGED <<phase, job, result, unproven>>
                   ELSE /\ FailJob(w, told)
                        /\ unproven' = IF open /\ job[w] \in {"flush", "checkpoint"}
                                         THEN unproven \union {w} ELSE unproven
    /\ UNCHANGED <<now, forced, deadline, dataVars, key>>

\* Answered "replaced": no re-read, the candidate is the head.
CommitReplaced(w, t) ==
    /\ Attempting(w, t)
    /\ HeadWrite(cache[w], Build(w, t), "replaced")
    /\ Settle(w, t, Build(w, t))

\* Refused, or the answer was lost: only the head itself can tell.
CommitUnsettled(w, t) ==
    /\ Attempting(w, t)
    /\ \E answer \in {"not-replaced", "ambiguous"} :
          /\ HeadWrite(cache[w], Build(w, t), answer)
          /\ doubt' = [doubt EXCEPT ![w] = @ \/ answer = "ambiguous"]
    /\ attempts' = [attempts EXCEPT ![w] = @ + 1]
    /\ written'  = [written EXCEPT ![w] = IF Intent(w, t) = "renew" THEN LeaseUntil(w) ELSE 0]
    /\ Step(w, t, "reread")
    /\ UNCHANGED <<now, leaseVars, dataVars, jobVars, lockq>>

CommitErrors(w, t) ==
    /\ Attempting(w, t)
    /\ HeadWrite(cache[w], Build(w, t), "error")
    /\ GiveUp(w, t, "backend", TRUE)
    /\ UNCHANGED <<cache, fenced>>

\* The re-read shows this commit's intent, and the lease is still this one's.
RereadSettles(w, t) ==
    /\ Rereading(w, t)
    /\ Proven(w, t, head)
    /\ Settle(w, t, head)
    /\ UNCHANGED storeVars

\* Someone else holds the lease: fenced.
RereadFenced(w, t) ==
    /\ Rereading(w, t)
    /\ ~Proven(w, t, head)
    /\ ~StillOurs(w, head)
    /\ fenced' = [fenced EXCEPT ![w] = TRUE]
    /\ GiveUp(w, t, "fenced", doubt[w])
    /\ UNCHANGED <<storeVars, cache>>

\* The ETag was stale: adopt the current one and try again...
RereadRetries(w, t) ==
    /\ Rereading(w, t)
    /\ ~Proven(w, t, head)
    /\ StillOurs(w, head)
    /\ attempts[w] < MaxAttempts
    /\ See(w, head)
    /\ Step(w, t, "commit")
    /\ UNCHANGED <<storeVars, now, phase, forced, fenced, deadline, dataVars, jobVars, lockq,
                   attempts, doubt, written>>

\* Mutant of RereadGivesUp: earlier ambiguous attempts are forgotten.
RereadGivesUpAsTimeout(w, t) ==
    /\ Rereading(w, t)
    /\ ~Proven(w, t, head)
    /\ StillOurs(w, head)
    /\ See(w, head)
    /\ GiveUp(w, t, "timeout", doubt[w])
    /\ UNCHANGED <<storeVars, fenced>>

\* ...unless the attempts, or the commit deadline, are spent.
RereadGivesUp(w, t) ==
    /\ Rereading(w, t)
    /\ ~Proven(w, t, head)
    /\ StillOurs(w, head)
    /\ See(w, head)
    /\ GiveUp(w, t, IF doubt[w] THEN "ambiguous" ELSE "timeout", doubt[w])
    /\ UNCHANGED <<storeVars, fenced>>

\* The re-read itself throws, and commitHead with it.
RereadErrors(w, t) ==
    /\ Rereading(w, t)
    /\ "unreadable" \in Faults
    /\ GiveUp(w, t, "backend", TRUE)
    /\ UNCHANGED <<storeVars, cache, fenced>>

------------------------------------------------------------------------------
(* Heartbeat, close, crash. *)

\* The timer.  Bound: one heartbeat inside commitHead at a time; the interval keeps
\* firing in the code, and a second would queue behind the first.
HeartbeatFires(w) ==
    /\ w \in Beating
    /\ phase[w] = "open"
    /\ ~fenced[w]
    /\ at[w]["hb"] = "idle"
    /\ Step(w, "hb", "commit")
    /\ Queue(w, "hb")
    /\ UNCHANGED <<storeVars, now, leaseVars, dataVars, jobVars, attempts, doubt, written>>

\* close() stops the timer and seals the queue; the running operation drains.
CloseStarts(w) ==
    /\ phase[w] = "open"
    /\ Go(w, "draining")
    /\ UNCHANGED <<storeVars, now, forced, cache, fenced, deadline, dataVars, jobVars, commitVars>>

Drained(w) == phase[w] = "draining" /\ job[w] = "none"

\* A handle already fenced has nothing remote left to do: close() resolves.
CloseFenced(w) ==
    /\ Drained(w)
    /\ fenced[w]
    /\ Go(w, "closed")
    /\ UNCHANGED <<storeVars, now, forced, cache, fenced, deadline, dataVars, jobVars, commitVars>>

CloseFlushes(w) ==
    /\ Drained(w)
    /\ buffer[w] # <<>>
    /\ MayWrite(w)
    /\ Go(w, "closing")
    /\ StartUpload(w, "flush")
    /\ UNCHANGED <<storeVars, now, forced, cache, fenced, deadline, dataVars>>

\* The final flush finds the lease lapsed: close() rejects.
CloseLapsed(w) ==
    /\ Drained(w)
    /\ buffer[w] # <<>>
    /\ ~fenced[w]
    /\ Lapsed(w)
    /\ fenced' = [fenced EXCEPT ![w] = TRUE]
    /\ Go(w, "closeFailed")
    /\ UNCHANGED <<storeVars, now, forced, cache, deadline, dataVars, jobVars, commitVars>>

\* Mutant of CloseReleases: the lease goes back before the final flush.
CloseReleasesUnflushed(w) ==
    /\ \/ Drained(w) /\ ~fenced[w]
       \/ phase[w] = "closing" /\ job[w] = "none"
    /\ Go(w, "closing")
    /\ Run(w, "release")
    /\ key' = [key EXCEPT ![w] = NoBase]
    /\ Step(w, "op", "commit")
    /\ Queue(w, "op")
    /\ UNCHANGED <<storeVars, now, forced, cache, fenced, deadline, dataVars, result,
                   unproven, attempts, doubt, written>>

\* Nothing left to flush: give the lease back.  Not guarded by assertWriter().
CloseReleases(w) ==
    /\ \/ Drained(w) /\ ~fenced[w] /\ buffer[w] = <<>>
       \/ phase[w] = "closing" /\ job[w] = "none"
    /\ Go(w, "closing")
    /\ Run(w, "release")
    /\ key' = [key EXCEPT ![w] = NoBase]
    /\ Step(w, "op", "commit")
    /\ Queue(w, "op")
    /\ UNCHANGED <<storeVars, now, forced, cache, fenced, deadline, dataVars, result,
                   unproven, attempts, doubt, written>>

CloseReader(w) ==
    /\ phase[w] = "readonly"
    /\ Go(w, "closed")
    /\ UNCHANGED <<storeVars, now, forced, cache, fenced, deadline, dataVars, jobVars, commitVars>>

\* The process dies: what was only in memory or in the scratch tree is gone.
Crash(w) ==
    /\ phase[w] \in Opening \union Reading \union Writing
    /\ Go(w, "crashed")
    /\ local'    = [local EXCEPT ![w] = <<>>]
    /\ buffer'   = [buffer EXCEPT ![w] = <<>>]
    /\ job'      = [job EXCEPT ![w] = "none"]
    /\ at'       = [at EXCEPT ![w] = [t \in Threads |-> "idle"]]
    /\ lockq'    = [lockq EXCEPT ![w] = <<>>]
    /\ attempts' = [attempts EXCEPT ![w] = 0]
    /\ doubt'    = [doubt EXCEPT ![w] = FALSE]
    /\ written'  = [written EXCEPT ![w] = 0]
    /\ UNCHANGED <<storeVars, now, forced, cache, fenced, deadline, executed, committed,
                   key, result, unproven>>

StoreDelivers ==
    /\ LateWriteArrives
    /\ UNCHANGED <<now, leaseVars, dataVars, jobVars, commitVars>>

------------------------------------------------------------------------------
Open(w) ==
    \/ OpenFindsObject(w) \/ OpenFindsNothing(w) \/ OpenReadOnly(w) \/ OpenCannotReadHead(w)
    \/ Create(w) \/ CreatedReadsBack(w) \/ CreateReread(w)
    \/ AcquireRefused(w) \/ Acquire(w) \/ AcquireReread(w)
    \/ Restore(w) \/ RestoreSnapshot(w) \/ RestoreFails(w)
    \/ UnwindReadsHead(w) \/ UnwindReleases(w)

Operate(w) ==
    \/ SelfFence(w) \/ Execute(w) \/ StartFlush(w) \/ StartCheckpoint(w)
    \/ Uploaded(w) \/ UploadedTooLate(w) \/ UploadFails(w)

Commit(w, t) ==
    \/ CommitReplaced(w, t) \/ CommitUnsettled(w, t) \/ CommitErrors(w, t)
    \/ RereadSettles(w, t) \/ RereadFenced(w, t) \/ RereadRetries(w, t)
    \/ RereadGivesUp(w, t) \/ RereadErrors(w, t)

Close(w) ==
    \/ CloseStarts(w) \/ CloseFenced(w) \/ CloseFlushes(w) \/ CloseLapsed(w)
    \/ CloseReleases(w) \/ CloseReader(w)

Next ==
    \/ \E w \in Instances :
         \/ Open(w) \/ Operate(w) \/ Close(w) \/ HeartbeatFires(w) \/ Crash(w)
         \/ \E t \in Threads : Commit(w, t)
    \/ StoreDelivers
    \/ Tick

Spec == Init /\ [][Next]_vars

\* What a handle does once it has been asked, with nothing more from its caller.
Proceeds(w) ==
    \/ /\ phase[w] # "new"
       /\ Open(w)
    \/ Uploaded(w) \/ UploadedTooLate(w) \/ UploadFails(w)
    \/ CloseFenced(w) \/ CloseFlushes(w) \/ CloseLapsed(w) \/ CloseReleases(w)

\* Every call to the store and the engine is answered at some time.
FairSpec ==
    /\ Spec
    /\ \A w \in Instances :
         /\ WF_vars(Proceeds(w))
         /\ \A t \in Threads : WF_vars(Commit(w, t))

------------------------------------------------------------------------------
(* Properties. *)

TypeOK ==
    /\ head \in HeadRecord
    /\ published \subseteq Key
    /\ content \in [Key -> Seq(Statement)]
    /\ late \subseteq [expect : HeadRecord, next : HeadRecord]
    /\ now \in Nat
    /\ phase \in [Instances -> Phases]
    /\ forced \in [Instances -> BOOLEAN]
    /\ cache \in [Instances -> HeadRecord]
    /\ local \in [Instances -> Seq(Statement)]
    /\ buffer \in [Instances -> Seq(Statement)]
    /\ executed \in [Instances -> Nat]
    /\ committed \in [Instances -> Nat]
    /\ fenced \in [Instances -> BOOLEAN]
    /\ deadline \in [Instances -> Nat]
    /\ job \in [Instances -> Jobs]
    /\ key \in [Instances -> Key \union {NoBase}]
    /\ at \in [Instances -> [Threads -> Steps]]
    /\ lockq \in [Instances -> Seq(Threads)]
    /\ attempts \in [Instances -> Nat]
    /\ doubt \in [Instances -> BOOLEAN]
    /\ written \in [Instances -> Nat]
    /\ result \in [Instances -> Results]
    /\ unproven \subseteq Instances

Occurs(s, h) == \E i \in DOMAIN Replay(h) : Replay(h)[i] = s

\* No acknowledged write is ever lost.  What flush(), flushThrough() or
\* checkpoint() told a caller is durable stays in what the next open() replays,
\* through takeovers, forced or not, crashes, checkpoints, and every way a head
\* write can go unanswered.
AckedIsDurable ==
    \A w \in Instances : \A n \in 1 .. committed[w] :
        Occurs([inst |-> w, n |-> n], head)

\* An object can always be opened: nothing the head names, or that a handle or a
\* request still under way might yet make it name, is missing.
NothingNamedIsMissing ==
    /\ RefsPresent(head)
    /\ \A w \in Instances : RefsPresent(cache[w])
    /\ \A r \in late : RefsPresent(r.next)

\* Replay rebuilds exactly the holder's database, less what it has not flushed:
\* every statement once, in order.  Only a handle that left a commit unproven is
\* excepted: its retry may publish a second time what the first write still can.
ReplayIsExact ==
    \A w \in Instances \ unproven :
        head.inst = w /\ phase[w] \in Writing /\ job[w] = "none"
            => local[w] = Replay(head) \o buffer[w]

\* Replaying the head runs what its holders ran, one handle after the other: the
\* statements of a handle come together, none of another's between them, and in the
\* order it ran them, each once.  Through takeovers, crashes, checkpoints and late
\* writes a statement can only be replayed twice if its handle left a commit unproven
\* (a retry after `ambiguous`), and then still in that handle's turn.
ReplayTakesTurns ==
    LET r == Replay(head) IN
    \A i, j \in DOMAIN r : i < j /\ r[i].inst = r[j].inst =>
        /\ \A k \in i .. j : r[k].inst = r[i].inst
        /\ r[i].inst \notin unproven => r[i].n < r[j].n

\* A flushThrough() ticket at or under committedStatementCount is committed, one
\* above it is still in the buffer: the watermark accounts for every statement,
\* whatever failed in between.
WatermarkAccounts ==
    \A w \in Instances : phase[w] \in Writing =>
        /\ executed[w] = committed[w] + Len(buffer[w])
        /\ \A i \in DOMAIN buffer[w] : buffer[w][i].n = committed[w] + i

\* A commit reported as `timeout` ("nothing was committed") never is, nor will be.
TimeoutMeansNotCommitted ==
    \A w \in Instances : result[w] = "timeout" /\ key[w] # NoBase =>
        \A h \in {head} \union {r.next : r \in late} :
            /\ h.base # key[w]
            /\ \A i \in DOMAIN h.wal : h.wal[i].key # key[w]

\* A close() that resolves on a handle that was not fenced has made everything it
\* executed durable, and this instance no longer holds the lease.
CloseIsABarrier ==
    \A w \in Instances : phase[w] = "closed" /\ ~fenced[w] =>
        committed[w] = executed[w] /\ head.inst # w

\* The handle would start, or carry on with, a write.
Believes(w) == phase[w] \in Writing /\ job[w] # "release" /\ MayWrite(w)

\* Two handles never both believe they are the writer, unless an administrator
\* forced a takeover.
OneBeliever ==
    (\A w \in Instances : ~forced[w]) =>
        \A v, w \in Instances : Believes(v) /\ Believes(w) => v = w

\* The head and the watermarks, as the promise of StatementLog.
Log == INSTANCE StatementLog WITH
           Handles  <- Instances,
           NoHandle <- Nobody,
           holder   <- head.inst,
           ran      <- executed,
           durable  <- {Replay(head)[i] : i \in DOMAIN Replay(head)},
           told     <- committed

\* The lease, commitHead, checkpoint and reconcile together keep that promise: only
\* the holder makes statements durable, in the order it ran them and without a gap,
\* callers are told of no more than that, and nothing durable goes away.
KeepsTheLog == Log!Spec

Manifest(h) == <<h.base, h.wal, h.seq>>

\* Only the instance the lease names changes the manifest: it does so under its
\* own generation, moves seq by one, and names only objects it uploaded itself.
OnlyTheHolderCommits ==
    [][Manifest(head') # Manifest(head) =>
         /\ head.inst # Nobody
         /\ head'.inst = head.inst
         /\ head'.gen = head.gen
         /\ head'.seq = head.seq + 1
         /\ head'.base \in {head.base, NoBase} \union {k \in Key : k.inst = head.inst}
         /\ \A i \in DOMAIN head'.wal :
              \/ i \in DOMAIN head.wal /\ head'.wal[i] = head.wal[i]
              \/ head'.wal[i].key.inst = head.inst]_storeVars

\* The lease changes hands only by the next generation, and one still held only by
\* force or once its expiry is past by the skew allowance on the taker's clock.
TakeoverIsLegal ==
    [][LET v == head'.inst
       IN  v # head.inst =>
             \/ v = Nobody /\ head'.gen = head.gen
             \/ /\ v \in Instances /\ head'.gen = head.gen + 1
                /\ \/ head.inst = Nobody \/ forced[v]
                   \/ Clock(v) >= head.exp + SkewAllowance]_vars

\* A handle escapes open() only while the head names it: open() confirms
\* ownership before the caller can start work.
OpensAsHolder ==
    [][\A w \in Instances :
         phase[w] # "open" /\ phase'[w] = "open" => head'.inst = w]_vars

\* open() settles: the caller gets a handle or an error.
OpenReturns ==
    \A w \in Instances :
        phase[w] \in Opening \union {"snapshotting"}
            ~> phase[w] \in {"open", "readonly"} \union Ended

\* close() settles, whatever the heartbeat and the running operation are doing.
CloseReturns ==
    \A w \in Instances : phase[w] = "draining" ~> phase[w] \in Ended

=============================================================================
