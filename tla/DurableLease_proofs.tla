------------------------- MODULE DurableLease_proofs -------------------------
(***************************************************************************)
(* Proofs about the lease of DurableObject: how it changes hands, what the *)
(* instance it names may do, and who believes to hold it.  As in           *)
(* DurableObject_proofs, for any number of handles and any faults.  Where  *)
(* head.json does not exist yet, the theorems but the first exclude one    *)
(* race: that another takes the lease between the creating write and the   *)
(* read-back of an open() (Unraced).                                       *)
(***************************************************************************)
EXTENDS DurableObject_proofs

------------------------------------------------------------------------------
(* Head writes. *)

\* A step of one handle.
Moves(w) ==
    Open(w) \/ Operate(w) \/ Close(w) \/ HeartbeatFires(w) \/ Crash(w)
        \/ \E t \in Threads : Commit(w, t)

\* The conditional writes a handle may send: e is what it expects to find, n what
\* it wants instead.
Sends(w, e, n) ==
    \/ phase[w] = "creating" /\ e = Absent /\ n = Created(w)
    \/ phase[w] = "acquiring" /\ Takeable(w, e) /\ e = cache[w] /\ n = Acquired(w, e)
    \/ phase[w] = "unwindRelease" /\ e = cache[w] /\ n = Unheld(e)
    \/ \E t \in Threads : Attempting(w, t) /\ e = cache[w] /\ n = Build(w, t)

\* A write as it was sent: what the store can make of it.
Sent(w, e, n) ==
    /\ Sends(w, e, n)
    /\ e \in HeadRecord /\ n \in HeadRecord
    /\ head' = head \/ (head = e /\ head' = n)
    /\ late' \subseteq late \union {Write(e, n)}

\* Types of what is sent, and what of it is carried over.
LEMMA SendsTypes ==
    ASSUME IInv, NEW w \in Instances, NEW e, NEW n, Sends(w, e, n)
    PROVE  /\ e \in HeadRecord /\ n \in HeadRecord
           /\ Write(e, n).expect = e /\ Write(e, n).next = n
<1> USE DEF IInv
<1>0. cache[w] \in HeadRecord /\ RefsPresent(cache[w])
    BY DEF TypeOK, NothingNamedIsMissing
<1>1. cache[w].gen \in Nat /\ cache[w].gen + 1 \in Nat
    BY <1>0 DEF HeadRecord
<1>2. Absent \in HeadRecord
    BY DEF Absent, HeadRecord
<1>3. Created(w) \in HeadRecord /\ Acquired(w, cache[w]) \in HeadRecord
      /\ Unheld(cache[w]) \in HeadRecord
    BY <1>0, <1>1, <1>2, TypeOfClock, LeaseChange DEF Created, Acquired, Unheld
<1>4. ASSUME NEW t \in Threads, Attempting(w, t) PROVE Build(w, t) \in HeadRecord
    BY <1>0, <1>4, TypeOfBuild DEF Attempting
<1> QED
    BY <1>0, <1>2, <1>3, <1>4 DEF Sends, Write

\* Nothing else writes head.json: a step leaves it and the requests under way
\* alone, or a late write arrives, or some handle sends one of its writes.
LEMMA HeadStep ==
    ASSUME IInv, [Next]_vars
    PROVE  \/ UNCHANGED <<head, late>>
           \/ LateWriteArrives
           \/ \E w \in Instances : Moves(w) /\ \E e, n : Sent(w, e, n)
<1> USE DEF storeVars
<1>1. ASSUME NEW w \in Instances, NEW e, NEW n, NEW answer, Sends(w, e, n),
             HeadWrite(e, n, answer)
      PROVE  Sent(w, e, n)
    BY <1>1, SendsTypes, WriteEffect DEF Sent
<1>2. ASSUME NEW w \in Instances, Open(w), ~Create(w), ~Acquire(w), ~UnwindReleases(w)
      PROVE  UNCHANGED <<head, late>>
    BY <1>2 DEF Open, OpenFindsObject, OpenFindsNothing, OpenReadOnly, OpenCannotReadHead,
            CreatedReadsBack, CreateReread, AcquireRefused, AcquireReread, Restore,
            RestoreSnapshot, RestoreFails, UnwindReadsHead
<1>3. ASSUME NEW w \in Instances, Create(w) PROVE \E e, n : Sent(w, e, n)
    BY <1>1, <1>3 DEF Create, Sends
<1>4. ASSUME NEW w \in Instances, Acquire(w) PROVE \E e, n : Sent(w, e, n)
    BY <1>1, <1>4 DEF Acquire, Sends
<1>5. ASSUME NEW w \in Instances, UnwindReleases(w) PROVE \E e, n : Sent(w, e, n)
    BY <1>1, <1>5 DEF UnwindReleases, Sends
<1>6. ASSUME NEW w \in Instances, Operate(w) \/ Close(w) \/ HeartbeatFires(w) \/ Crash(w)
      PROVE  UNCHANGED <<head, late>>
    BY <1>6
    DEF Operate, SelfFence, Execute, StartFlush, StartCheckpoint, Uploaded, UploadedTooLate,
        UploadFails, Publish, Close, CloseStarts, CloseFenced, CloseFlushes, CloseLapsed,
        CloseReleases, CloseReader, HeartbeatFires, Crash
<1>7. ASSUME NEW w \in Instances, NEW t \in Threads,
             CommitReplaced(w, t) \/ CommitUnsettled(w, t) \/ CommitErrors(w, t)
      PROVE  \E e, n : Sent(w, e, n)
    <2>1. Attempting(w, t) /\ \E answer : HeadWrite(cache[w], Build(w, t), answer)
        BY <1>7 DEF CommitReplaced, CommitUnsettled, CommitErrors
    <2> QED
        BY <1>1, <2>1 DEF Sends
<1>8. ASSUME NEW w \in Instances, NEW t \in Threads,
             \/ RereadSettles(w, t) \/ RereadFenced(w, t) \/ RereadRetries(w, t)
             \/ RereadGivesUp(w, t) \/ RereadErrors(w, t)
      PROVE  UNCHANGED <<head, late>>
    BY <1>8 DEF RereadSettles, RereadFenced, RereadRetries, RereadGivesUp, RereadErrors
<1>9. CASE StoreDelivers
    BY <1>9 DEF StoreDelivers
<1>10. CASE Tick \/ UNCHANGED vars
    BY <1>10 DEF Tick, vars
<1> QED
    BY <1>2, <1>3, <1>4, <1>5, <1>6, <1>7, <1>8, <1>9, <1>10 DEF Next, Commit, Moves

\* What a write makes of the lease and of the manifest.
SameManifest(e, n) == n.base = e.base /\ n.wal = e.wal /\ n.seq = e.seq

Takes(w, e, n) ==
    /\ phase[w] \in {"creating", "acquiring"}
    /\ Takeable(w, e)
    /\ n.inst = w /\ n.gen = e.gen + 1 /\ n.exp = LeaseUntil(w)
    /\ SameManifest(e, n)

Gives(w, e, n) ==
    /\ phase[w] = "unwindRelease" \/ job[w] = "release"
    /\ e = cache[w]
    /\ n.inst = Nobody /\ n.gen = e.gen /\ n.exp = 0
    /\ SameManifest(e, n)

Extends(w, e, n) ==
    /\ at[w]["hb"] # "idle" \/ job[w] = "confirm"
    /\ e = cache[w]
    /\ n.inst = e.inst /\ n.gen = e.gen /\ n.exp = LeaseUntil(w)
    /\ SameManifest(e, n)

Publishes(w, e, n) ==
    /\ job[w] \in {"flush", "checkpoint"}
    /\ at[w]["op"] = "commit"
    /\ e = cache[w]
    /\ n.inst = e.inst /\ n.gen = e.gen /\ n.exp = e.exp
    /\ n.seq = e.seq + 1
    /\ n.base = IF job[w] = "flush" THEN e.base ELSE key[w]
    /\ n.wal = IF job[w] = "flush" THEN e.wal \o Lines(key[w]) ELSE <<>>

\* A manifest that gained the lines of a segment is a manifest.
LEMMA TypeOfAppend ==
    ASSUME TypeOK, NEW h \in HeadRecord, NEW k \in Key
    PROVE  h.wal \o Lines(k) \in Seq(Line)
<1>1. h.wal \in Seq(Line) /\ Lines(k) \in Seq(Line)
    BY TypeOfLines DEF HeadRecord
<1> QED
    BY <1>1

\* Fields of a head with another lease.
LEMMA LeaseFields ==
    ASSUME NEW h \in HeadRecord, NEW gen \in Nat, NEW inst \in Instances \union {Nobody},
           NEW exp \in Nat, NEW n, n = WithLease(h, gen, inst, exp)
    PROVE  n.inst = inst /\ n.gen = gen /\ n.exp = exp /\ SameManifest(h, n)
BY LeaseChange DEF SameManifest

\* Fields of a head with another manifest.
LEMMA ManifestFields ==
    ASSUME NEW h \in HeadRecord, NEW base \in Key \union {NoBase}, NEW wal \in Seq(Line),
           NEW n, n = WithManifest(h, base, wal)
    PROVE  /\ n.base = base /\ n.wal = wal /\ n.seq = h.seq + 1
           /\ n.gen = h.gen /\ n.inst = h.inst /\ n.exp = h.exp
BY ManifestChange

\* What commitHead builds, by the thread that runs it and the operation it is for.
LEMMA BuildKinds ==
    ASSUME IInv, NEW w \in Instances, NEW t \in Threads, Attempting(w, t),
           NEW e, e = cache[w], NEW n, n = Build(w, t)
    PROVE  /\ t = "op" /\ job[w] \in {"flush", "checkpoint"} => Publishes(w, e, n)
           /\ t = "op" /\ job[w] = "release" => Gives(w, e, n)
           /\ t = "hb" \/ job[w] = "confirm" => Extends(w, e, n)
<1> USE DEF IInv
<1>a. e \in HeadRecord /\ job[w] \in Jobs
    BY DEF TypeOK
<1>b. /\ e.gen \in Nat /\ e.inst \in Instances \union {Nobody}
      /\ e.base \in Key \union {NoBase}
    BY <1>a DEF HeadRecord
<1>0. at[w][t] = "commit"
    BY DEF Attempting
<1>1. CASE t = "op" /\ job[w] \in {"flush", "checkpoint"}
    <2>1. key[w] \in Key
        BY <1>0, <1>1 DEF KeyOK, CommitKeyOK
    <2>2. CASE job[w] = "flush"
        <3>1. n = WithManifest(e, e.base, e.wal \o Lines(key[w]))
            BY <1>1, <2>2 DEF Build, Intent
        <3>2. e.wal \o Lines(key[w]) \in Seq(Line)
            BY <1>a, <2>1, TypeOfAppend
        <3> DEFINE wal == e.wal \o Lines(key[w])
                   base == e.base
        <3>a. e \in HeadRecord /\ base \in Key \union {NoBase}
            BY <1>a, <1>b
        <3>b. wal \in Seq(Line) /\ n = WithManifest(e, base, wal)
            BY <3>1, <3>2
        <3> HIDE DEF wal, base
        <3>3. /\ n.base = base /\ n.wal = wal /\ n.seq = e.seq + 1
              /\ n.gen = e.gen /\ n.inst = e.inst /\ n.exp = e.exp
            BY <3>a, <3>b, ManifestFields
        <3> QED
            BY <1>0, <1>1, <2>2, <3>3 DEF Publishes, wal, base
    <2>3. CASE job[w] = "checkpoint"
        <3> DEFINE none == <<>>
                   base == key[w]
        <3>1. n = WithManifest(e, base, none) /\ none \in Seq(Line)
            BY <1>1, <2>3 DEF Build, Intent
        <3>2. base \in Key \union {NoBase}
            BY <2>1
        <3> HIDE DEF none, base
        <3>3. /\ n.base = base /\ n.wal = none /\ n.seq = e.seq + 1
              /\ n.gen = e.gen /\ n.inst = e.inst /\ n.exp = e.exp
            BY <1>a, <3>1, <3>2, ManifestFields
        <3> QED
            BY <1>0, <1>1, <2>3, <3>3 DEF Publishes, none, base
    <2> QED
        BY <1>1, <2>2, <2>3
<1>2. CASE t = "op" /\ job[w] = "release"
    <2>1. n = Unheld(e)
        BY <1>2 DEF Build, Intent
    <2>2. /\ e \in HeadRecord /\ e.gen \in Nat /\ Nobody \in Instances \union {Nobody}
          /\ 0 \in Nat
        BY <1>a, <1>b
    <2>3. n = WithLease(e, e.gen, Nobody, 0)
        BY <2>1 DEF Unheld
    <2>4. n.inst = Nobody /\ n.gen = e.gen /\ n.exp = 0 /\ SameManifest(e, n)
        BY <2>2, <2>3, LeaseFields
    <2> QED
        BY <1>2, <2>4 DEF Gives
<1>3. CASE t = "hb" \/ job[w] = "confirm"
    <2>1. n = WithLease(e, e.gen, e.inst, LeaseUntil(w))
        BY <1>3 DEF Build, Intent
    <2>a. /\ e \in HeadRecord /\ e.gen \in Nat /\ e.inst \in Instances \union {Nobody}
          /\ LeaseUntil(w) \in Nat
        BY <1>a, <1>b, TypeOfClock
    <2>2. n.inst = e.inst /\ n.gen = e.gen /\ n.exp = LeaseUntil(w) /\ SameManifest(e, n)
        BY <2>1, <2>a, LeaseFields
    <2> QED
        BY <1>0, <1>3, <2>2 DEF Extends
<1> QED
    BY <1>1, <1>2, <1>3

\* A write is of one of four kinds: it takes the lease, gives it back, extends it,
\* or publishes.
LEMMA SendsKinds ==
    ASSUME IInv, NEW w \in Instances, NEW e, NEW n, Sends(w, e, n)
    PROVE  Takes(w, e, n) \/ Gives(w, e, n) \/ Extends(w, e, n) \/ Publishes(w, e, n)
<1> USE DEF IInv
<1>0. cache[w] \in HeadRecord /\ job[w] \in Jobs
    BY DEF TypeOK
<1>1. /\ cache[w].gen \in Nat /\ cache[w].gen + 1 \in Nat
      /\ cache[w].inst \in Instances \union {Nobody}
      /\ cache[w].base \in Key \union {NoBase} /\ cache[w].wal \in Seq(Line)
    BY <1>0 DEF HeadRecord
<1>2. CASE phase[w] = "creating" /\ e = Absent /\ n = Created(w)
    <2>1. Absent \in HeadRecord /\ Absent.gen = 0 /\ Absent.inst = Nobody
        BY DEF Absent, HeadRecord
    <2>2. n.inst = w /\ n.gen = e.gen + 1 /\ n.exp = LeaseUntil(w) /\ SameManifest(e, n)
        BY <1>2, <2>1, TypeOfClock, LeaseFields DEF Created
    <2> QED
        BY <1>2, <2>1, <2>2 DEF Takes, Takeable
<1>3. CASE phase[w] = "acquiring" /\ Takeable(w, e) /\ e = cache[w] /\ n = Acquired(w, e)
    <2>1. n.inst = w /\ n.gen = e.gen + 1 /\ n.exp = LeaseUntil(w) /\ SameManifest(e, n)
        BY <1>0, <1>1, <1>3, TypeOfClock, LeaseFields DEF Acquired
    <2> QED
        BY <1>3, <2>1 DEF Takes
<1>4. ASSUME n = Unheld(e), e = cache[w]
      PROVE  n.inst = Nobody /\ n.gen = e.gen /\ n.exp = 0 /\ SameManifest(e, n)
    <2>1. n = WithLease(e, e.gen, Nobody, 0)
        BY <1>4 DEF Unheld
    <2>2. e \in HeadRecord /\ e.gen \in Nat /\ Nobody \in Instances \union {Nobody} /\ 0 \in Nat
        BY <1>0, <1>1, <1>4
    <2> QED
        BY <2>1, <2>2, LeaseFields
<1>5. CASE phase[w] = "unwindRelease" /\ e = cache[w] /\ n = Unheld(e)
    BY <1>4, <1>5 DEF Gives
<1>6. ASSUME NEW t \in Threads, Attempting(w, t), e = cache[w], n = Build(w, t)
      PROVE  Gives(w, e, n) \/ Extends(w, e, n) \/ Publishes(w, e, n)
    <2>1. job[w] # "none" \/ t = "hb"
        BY <1>6 DEF Attempting, JobOK, Threads
    <2> QED
        BY <1>0, <1>6, <2>1, BuildKinds DEF Threads, Jobs
<1> QED
    BY <1>2, <1>3, <1>5, <1>6 DEF Sends

------------------------------------------------------------------------------
(* How the lease changes hands. *)

\* A write, or a late one, that moves the lease was entitled to.
Granted(e, n) ==
    n.inst # e.inst =>
        \/ n.inst = Nobody /\ n.gen = e.gen
        \/ /\ n.inst \in Instances /\ n.gen = e.gen + 1
           /\ \/ e.inst = Nobody \/ forced[n.inst]
              \/ Clock(n.inst) >= e.exp + SkewAllowance

\* An open() that has not met an object yet is not forced: once it is, it stays so.
Unclaimed == {"new", "creating", "created", "createReread"}

GrantsOK ==
    /\ \A r \in late : Granted(r.expect, r.next)
    /\ \A w \in Instances : phase[w] \in Unclaimed => ~forced[w]

\* What a handle sends is granted when it sends it.
LEMMA SentIsGranted ==
    ASSUME IInv, NEW w \in Instances, NEW e, NEW n, Sends(w, e, n)
    PROVE  Granted(e, n)
BY SendsKinds DEF Takes, Gives, Extends, Publishes, Takeable, Granted

\* Clocks run forward and force is never taken back: what was granted stays so.
LEMMA ForcedStays ==
    ASSUME IInv, GrantsOK, [Next]_vars
    PROVE  /\ now' \in Nat /\ now' >= now
           /\ \A w \in Instances : forced[w] => forced'[w]
           /\ \A w \in Instances : phase'[w] \in Unclaimed => ~forced'[w]
<1> USE DEF IInv, leaseVars, storeVars, dataVars, jobVars, commitVars
<1>0. TypeOK /\ now \in Nat /\ phase \in [Instances -> Phases]
      /\ forced \in [Instances -> BOOLEAN]
      /\ \A w \in Instances : phase[w] \in Unclaimed => ~forced[w]
    BY DEF TypeOK, GrantsOK
<1>1. CASE UNCHANGED <<now, forced>> /\ \A w \in Instances :
               phase'[w] \in Unclaimed => phase[w] \in Unclaimed
    BY <1>0, <1>1
<1>2. ASSUME NEW w \in Instances, OpenFindsObject(w) \/ CreateReread(w)
      PROVE  /\ now' = now
             /\ \A v \in Instances : forced[v] => forced'[v]
             /\ \A v \in Instances : phase'[v] \in Unclaimed => ~forced'[v]
    <2>1. CASE OpenFindsObject(w)
        <3>1. PICK f \in BOOLEAN : forced' = [forced EXCEPT ![w] = f]
            BY <2>1 DEF OpenFindsObject
        <3>2. phase[w] = "new" /\ phase'[w] = "acquiring" /\ now' = now
              /\ \A v \in Instances \ {w} : phase'[v] = phase[v]
            BY <1>0, <2>1 DEF OpenFindsObject, Go
        <3> QED
            BY <1>0, <3>1, <3>2 DEF Unclaimed
    <2>2. CASE CreateReread(w)
        <3>1. PICK p \in {"openFailed", "restoring", "acquiring"} :
                phase' = [phase EXCEPT ![w] = p]
            BY <2>2 DEF CreateReread, Go
        <3>2. phase[w] = "createReread" /\ now' = now
              /\ (forced' = forced \/ forced' = [forced EXCEPT ![w] = FALSE])
            BY <2>2 DEF CreateReread
        <3> QED
            BY <1>0, <3>1, <3>2 DEF Unclaimed
    <2> QED
        BY <1>2, <2>1, <2>2
<1>3. ASSUME NEW w \in Instances, Open(w), ~OpenFindsObject(w), ~CreateReread(w)
      PROVE  UNCHANGED <<now, forced>> /\ \A v \in Instances :
                phase'[v] \in Unclaimed => phase[v] \in Unclaimed
    <2>1. UNCHANGED <<now, forced>>
        BY <1>3 DEF Open, OpenFindsNothing, OpenReadOnly, OpenCannotReadHead, Create,
            CreatedReadsBack, AcquireRefused, Acquire, AcquireReread, Restore, RestoreSnapshot,
            RestoreFails, UnwindReadsHead, UnwindReleases
    <2>2. CASE Create(w) \/ OpenFindsNothing(w)
        <3>1. phase[w] \in Unclaimed /\ \A v \in Instances \ {w} : phase'[v] = phase[v]
            BY <1>0, <2>2 DEF Create, OpenFindsNothing, Unclaimed, Go
        <3> QED
            BY <2>1, <3>1
    <2>3. CASE ~Create(w) /\ ~OpenFindsNothing(w)
        <3>1. \E p \in {"snapshotting", "openFailed", "restoring", "acquiring", "acquireReread",
                       "confirming", "readonly", "unwinding", "unwindRelease"} :
                phase' = [phase EXCEPT ![w] = p]
            BY <1>3, <2>3 DEF Open, OpenReadOnly, OpenCannotReadHead,
                CreatedReadsBack, AcquireRefused, Acquire, AcquireReread, Restore,
                RestoreSnapshot, RestoreFails, UnwindReadsHead, UnwindReleases, Go
        <3> QED
            BY <1>0, <2>1, <3>1 DEF Unclaimed
    <2> QED
        BY <2>2, <2>3
<1>4. ASSUME NEW w \in Instances, NEW t \in Threads,
             Operate(w) \/ Close(w) \/ HeartbeatFires(w) \/ Crash(w) \/ Commit(w, t)
      PROVE  UNCHANGED <<now, forced>> /\ \A v \in Instances :
                phase'[v] \in Unclaimed => phase[v] \in Unclaimed
    <2>1. UNCHANGED <<now, forced>>
        BY <1>4 DEF Operate, SelfFence, Execute, StartFlush, StartCheckpoint, Uploaded,
            UploadedTooLate, UploadFails, Close, CloseStarts, CloseFenced, CloseFlushes,
            CloseLapsed, CloseReleases, CloseReader, HeartbeatFires, Crash, Commit,
            CommitReplaced, CommitUnsettled, CommitErrors, RereadSettles, RereadFenced,
            RereadRetries, RereadGivesUp, RereadErrors, Settle, GiveUp
    <2>2. phase' = phase \/ \E p \in {"draining", "closing", "closed", "closeFailed", "crashed",
                                     "open", "unwinding", phase[w]} :
              phase' = [phase EXCEPT ![w] = p]
        BY <1>4 DEF Operate, SelfFence, Execute, StartFlush, StartCheckpoint, Uploaded,
            UploadedTooLate, UploadFails, Close, CloseStarts, CloseFenced, CloseFlushes,
            CloseLapsed, CloseReleases, CloseReader, HeartbeatFires, Crash, Commit,
            CommitReplaced, CommitUnsettled, CommitErrors, RereadSettles, RereadFenced,
            RereadRetries, RereadGivesUp, RereadErrors, Settle, GiveUp, FailJob, Go, EndJob,
            FlushDone, CheckpointDone, ReleaseDone, RenewDone
    <2> QED
        BY <1>0, <2>1, <2>2 DEF Unclaimed
<1>5. CASE Tick
    BY <1>0, <1>5 DEF Tick
<1>6. CASE StoreDelivers \/ UNCHANGED vars
    BY <1>0, <1>6 DEF StoreDelivers, vars
<1> QED
    BY <1>0, <1>1, <1>2, <1>3, <1>4, <1>5, <1>6 DEF Next, Threads

\* What was granted stays so: the clock only advances, and force is never taken back.
LEMMA GrantedStays ==
    ASSUME IInv, GrantsOK, [Next]_vars, NEW e \in HeadRecord, NEW n \in HeadRecord, Granted(e, n)
    PROVE  Granted(e, n)'
<1>1. now \in Nat /\ now' \in Nat /\ now' >= now
    BY ForcedStays DEF IInv, TypeOK
<1>2. \A w \in Instances : forced[w] => forced'[w]
    BY ForcedStays
<1>3. e.exp \in Nat /\ SkewAllowance \in Nat
      /\ \A w \in Instances : Offset[w] \in Nat
    BY OffsetAssumption, TuningAssumption DEF HeadRecord
<1> QED
    BY <1>1, <1>2, <1>3 DEF Granted, Clock

\* Whatever changes the head was granted.
LEMMA ChangesAreGranted ==
    ASSUME IInv, GrantsOK, [Next]_vars, head' # head
    PROVE  Granted(head, head')
<1>1. ASSUME LateWriteArrives PROVE Granted(head, head')
    BY <1>1 DEF LateWriteArrives, Matches, GrantsOK
<1>2. ASSUME NEW w \in Instances, NEW e, NEW n, Sent(w, e, n) PROVE Granted(head, head')
    BY <1>2, SentIsGranted DEF Sent
<1> QED
    BY <1>1, <1>2, HeadStep

\* GrantsOK is kept.
LEMMA GrantsStep ==
    ASSUME IInv, GrantsOK, [Next]_vars
    PROVE  GrantsOK'
<1>0. \A r \in late : r.expect \in HeadRecord /\ r.next \in HeadRecord /\ Granted(r.expect, r.next)
    BY DEF IInv, TypeOK, GrantsOK
<1>1. \A r \in late : Granted(r.expect, r.next)'
    BY <1>0, GrantedStays
<1>2. ASSUME NEW w \in Instances, NEW e, NEW n, Sent(w, e, n)
      PROVE  \A r \in late' : Granted(r.expect, r.next)'
    <2>1. Granted(e, n)'
        BY <1>2, SentIsGranted, GrantedStays DEF Sent
    <2>2. Write(e, n).expect = e /\ Write(e, n).next = n
        BY DEF Write
    <2> QED
        BY <1>1, <1>2, <2>1, <2>2 DEF Sent
<1>3. \A r \in late' : Granted(r.expect, r.next)'
    BY <1>1, <1>2, HeadStep DEF LateWriteArrives
<1> QED
    BY <1>3, ForcedStays DEF GrantsOK

\* GrantsOK holds at first: nothing is on its way.
LEMMA InitGrants == Init => GrantsOK
BY DEF Init, StoreInit, GrantsOK

\* The body of TakeoverIsLegal.
TakeoverLegal ==
    LET v == head'.inst
    IN  v # head.inst =>
             \/ v = Nobody /\ head'.gen = head.gen
             \/ /\ v \in Instances /\ head'.gen = head.gen + 1
                /\ \/ head.inst = Nobody \/ forced[v]
                   \/ Clock(v) >= head.exp + SkewAllowance

\* The lease changes hands only by the next generation, and a lease still held only
\* by force or once its recorded expiry is past by the skew allowance: for writes
\* that arrive after their sender gave up as well (acquireLease, createCold).
THEOREM LegalTakeovers == Spec => TakeoverIsLegal
<1>1. Init => IInv /\ GrantsOK
    BY InitIInv, InitGrants
<1>2. IInv /\ GrantsOK /\ [Next]_vars => (IInv /\ GrantsOK)'
    BY IInvStep, GrantsStep
<1>3. IInv /\ GrantsOK /\ [Next]_vars => [TakeoverLegal]_vars
    BY ChangesAreGranted DEF Granted, TakeoverLegal
<1> QED
    BY <1>1, <1>2, <1>3, PTL DEF Spec, TakeoverIsLegal, TakeoverLegal

------------------------------------------------------------------------------
(* Who moves. *)

\* What the step of another handle leaves as it is.
Same(v) ==
    /\ phase'[v] = phase[v] /\ forced'[v] = forced[v] /\ cache'[v] = cache[v]
    /\ fenced'[v] = fenced[v] /\ deadline'[v] = deadline[v] /\ job'[v] = job[v]
    /\ key'[v] = key[v] /\ at'[v] = at[v] /\ local'[v] = local[v]
    /\ buffer'[v] = buffer[v] /\ executed'[v] = executed[v] /\ committed'[v] = committed[v]

\* The step of one handle leaves every other as it is.
LEMMA OthersKept ==
    ASSUME IInv, NEW w \in Instances, Moves(w), NEW v \in Instances, v # w
    PROVE  Same(v)
<1> USE DEF leaseVars, dataVars, jobVars, commitVars
<1>0. TypeOK
    BY DEF IInv
<1>1. CASE Open(w)
    <2>1. phase'[v] = phase[v] /\ forced'[v] = forced[v]
        BY <1>0, <1>1 DEF TypeOK, Open, OpenFindsObject, OpenFindsNothing, OpenReadOnly,
            OpenCannotReadHead, Create, CreatedReadsBack, CreateReread, AcquireRefused, Acquire,
            AcquireReread, Restore, RestoreSnapshot, RestoreFails, UnwindReadsHead,
            UnwindReleases, Go, See
    <2>2. cache'[v] = cache[v] /\ local'[v] = local[v]
        BY <1>0, <1>1 DEF TypeOK, Open, OpenFindsObject, OpenFindsNothing, OpenReadOnly,
            OpenCannotReadHead, Create, CreatedReadsBack, CreateReread, AcquireRefused, Acquire,
            AcquireReread, Restore, RestoreSnapshot, RestoreFails, UnwindReadsHead,
            UnwindReleases, Go, See
    <2>3. fenced'[v] = fenced[v] /\ deadline'[v] = deadline[v]
        BY <1>0, <1>1 DEF TypeOK, Open, OpenFindsObject, OpenFindsNothing, OpenReadOnly,
            OpenCannotReadHead, Create, CreatedReadsBack, CreateReread, AcquireRefused, Acquire,
            AcquireReread, Restore, RestoreSnapshot, RestoreFails, UnwindReadsHead,
            UnwindReleases, Go, See
    <2>4. job'[v] = job[v] /\ at'[v] = at[v]
        BY <1>0, <1>1 DEF TypeOK, Open, OpenFindsObject, OpenFindsNothing, OpenReadOnly,
            OpenCannotReadHead, Create, CreatedReadsBack, CreateReread, AcquireRefused, Acquire,
            AcquireReread, Restore, RestoreSnapshot, RestoreFails, UnwindReadsHead,
            UnwindReleases, Run, Step
    <2>5. UNCHANGED <<key, buffer, executed, committed>>
        BY <1>1 DEF Open, OpenFindsObject, OpenFindsNothing, OpenReadOnly,
            OpenCannotReadHead, Create, CreatedReadsBack, CreateReread, AcquireRefused, Acquire,
            AcquireReread, Restore, RestoreSnapshot, RestoreFails, UnwindReadsHead,
            UnwindReleases
    <2> QED
        BY <2>1, <2>2, <2>3, <2>4, <2>5 DEF Same
<1>2. CASE Operate(w)
    <2>1. phase'[v] = phase[v] /\ UNCHANGED <<forced, cache, deadline, committed>>
          /\ fenced'[v] = fenced[v] /\ job'[v] = job[v] /\ key'[v] = key[v] /\ at'[v] = at[v]
        BY <1>0, <1>2 DEF TypeOK, Operate, SelfFence, Execute, StartFlush, StartCheckpoint,
            StartUpload, Uploaded, UploadedTooLate, UploadFails, FailJob, EndJob, Run, Go, Step
    <2>2. local'[v] = local[v] /\ buffer'[v] = buffer[v] /\ executed'[v] = executed[v]
        BY <1>0, <1>2 DEF TypeOK, Operate, SelfFence, Execute, StartFlush, StartCheckpoint,
            Uploaded, UploadedTooLate, UploadFails
    <2> QED
        BY <2>1, <2>2 DEF Same
<1>3. CASE Close(w) \/ HeartbeatFires(w) \/ Crash(w)
    <2>1. phase'[v] = phase[v] /\ UNCHANGED <<forced, cache, deadline, executed, committed>>
          /\ fenced'[v] = fenced[v] /\ job'[v] = job[v] /\ key'[v] = key[v] /\ at'[v] = at[v]
          /\ local'[v] = local[v] /\ buffer'[v] = buffer[v]
        BY <1>0, <1>3 DEF TypeOK, Close, CloseStarts, CloseFenced, CloseFlushes, CloseLapsed,
            CloseReleases, CloseReader, HeartbeatFires, Crash, StartUpload, Run, Go, Step
    <2> QED
        BY <2>1 DEF Same
<1>4. ASSUME NEW t \in Threads, NEW h, Settle(w, t, h) PROVE Same(v)
    <2>1. cache'[v] = cache[v] /\ at'[v] = at[v] /\ UNCHANGED <<forced, local, executed, key>>
        BY <1>0, <1>4 DEF TypeOK, Settle, See, LeaveLock, Step
    <2>2. phase'[v] = phase[v] /\ fenced'[v] = fenced[v] /\ deadline'[v] = deadline[v]
          /\ job'[v] = job[v] /\ buffer'[v] = buffer[v] /\ committed'[v] = committed[v]
        <3>1. FlushDone(w) \/ CheckpointDone(w) \/ ReleaseDone(w) \/ RenewDone(w, t, h)
            BY <1>4 DEF Settle
        <3>2. CASE FlushDone(w)
            BY <1>0, <3>2 DEF TypeOK, FlushDone, EndJob, Run
        <3>3. CASE CheckpointDone(w)
            BY <1>0, <3>3 DEF TypeOK, CheckpointDone, EndJob, Run
        <3>4. CASE ReleaseDone(w)
            BY <1>0, <3>4 DEF TypeOK, ReleaseDone, EndJob, Run, Go
        <3>5. CASE RenewDone(w, t, h)
            BY <1>0, <3>5 DEF TypeOK, RenewDone, EndJob, Run, Go
        <3> QED
            BY <3>1, <3>2, <3>3, <3>4, <3>5
    <2> QED
        BY <2>1, <2>2 DEF Same
<1>5. ASSUME NEW t \in Threads, NEW told, NEW open, GiveUp(w, t, told, open),
             cache'[v] = cache[v], fenced'[v] = fenced[v]
      PROVE  Same(v)
    BY <1>0, <1>5 DEF TypeOK, GiveUp, LeaveLock, FailJob, EndJob, Run, Go, Step, Same
<1>6. ASSUME NEW t \in Threads, Commit(w, t) PROVE Same(v)
    <2>1. CASE CommitReplaced(w, t) \/ RereadSettles(w, t)
        BY <1>4, <2>1 DEF CommitReplaced, RereadSettles
    <2>2. CASE CommitUnsettled(w, t) \/ RereadRetries(w, t)
        BY <1>0, <2>2 DEF TypeOK, CommitUnsettled, RereadRetries, See, Step, Same
    <2>3. CASE CommitErrors(w, t) \/ RereadFenced(w, t) \/ RereadGivesUp(w, t) \/ RereadErrors(w, t)
        <3>1. /\ \E told, open : GiveUp(w, t, told, open)
              /\ cache'[v] = cache[v] /\ fenced'[v] = fenced[v]
            BY <1>0, <2>3 DEF TypeOK, CommitErrors, RereadFenced, RereadGivesUp, RereadErrors, See
        <3> QED
            BY <1>5, <3>1
    <2> QED
        BY <1>6, <2>1, <2>2, <2>3 DEF Commit
<1> QED
    BY <1>1, <1>2, <1>3, <1>6 DEF Moves

\* Every step is one handle's, the store's or the clock's.
LEMMA WhoMoves ==
    ASSUME [Next]_vars
    PROVE  \/ \E w \in Instances : Moves(w)
           \/ StoreDelivers
           \/ UNCHANGED <<storeVars, leaseVars, dataVars, jobVars, commitVars>>
BY DEF Next, Moves, Tick, vars, storeVars, leaseVars, dataVars, jobVars, commitVars

------------------------------------------------------------------------------
(* The instance the lease names, once the object exists. *)

Creating == {"creating", "created", "createReread"}

\* No open() that was told it created the object finds another's lease when it reads
\* the head back: nobody took over between the two.
Undisturbed == \A w \in Instances : phase[w] = "created" => head.inst = w

Holding  == {"restoring", "confirming", "unwindRelease"} \union Writing

\* What a handle that was given the lease last saw was a head of its own; so it is
\* for a heartbeat that outlives close(), or the lease is free.
HolderOK(w) ==
    /\ phase[w] \in {"new"} \union Creating => cache[w] = Absent
    /\ phase[w] \in Holding => cache[w].inst = w
    /\ at[w]["hb"] # "idle" =>
         phase[w] \in Writing \union Ended /\ cache[w].inst \in {w, Nobody}
    /\ job[w] \in {"flush", "checkpoint"} => phase[w] \in Writing
    /\ job[w] = "release" => phase[w] = "closing"

\* The body of OnlyTheHolderCommits, of the write of n over e.
Commits(e, n) ==
    Manifest(n) # Manifest(e) =>
         /\ e.inst # Nobody
         /\ n.inst = e.inst
         /\ n.gen = e.gen
         /\ n.seq = e.seq + 1
         /\ n.base \in {e.base, NoBase} \union {k \in Key : k.inst = e.inst}
         /\ \A i \in DOMAIN n.wal :
              \/ i \in DOMAIN e.wal /\ n.wal[i] = e.wal[i]
              \/ n.wal[i].key.inst = e.inst

HoldersOK ==
    /\ Undisturbed
    /\ \A w \in Instances : HolderOK(w)
    /\ \A r \in late : Commits(r.expect, r.next) /\ r.next.gen >= r.expect.gen

\* HolderOK: the steps of open() but for the confirmation.
LEMMA HolderOpen ==
    ASSUME IInv, HoldersOK, NEW w \in Instances, Open(w)
    PROVE  HolderOK(w)'
<1> USE DEF leaseVars, dataVars, jobVars, commitVars
<1>0. TypeOK /\ JobOK /\ HolderOK(w) /\ Undisturbed /\ cache[w] \in HeadRecord
    BY DEF IInv, HoldersOK, TypeOK
<1>1. phase[w] \notin Writing \union Ended /\ at[w]["hb"] = "idle"
    BY <1>0 DEF HolderOK, Open, OpenFindsObject, OpenFindsNothing, OpenReadOnly,
        OpenCannotReadHead, Create, CreatedReadsBack, CreateReread, AcquireRefused, Acquire,
        AcquireReread, Restore, RestoreSnapshot, RestoreFails, UnwindReadsHead, UnwindReleases,
        Writing, Ended
<1>2. CASE Restore(w)
    <2>1. phase[w] = "restoring" /\ phase'[w] = "confirming" /\ job'[w] = "confirm"
          /\ at'[w]["hb"] = at[w]["hb"] /\ UNCHANGED cache
        BY <1>0, <1>2 DEF Restore, TypeOK, Go, Run, Step, Threads
    <2> QED
        BY <1>0, <1>1, <2>1 DEF HolderOK, Creating, Holding, Writing
<1>3. CASE ~Restore(w)
    <2>0. UNCHANGED <<job, at>>
        BY <1>3 DEF Open, OpenFindsObject, OpenFindsNothing, OpenReadOnly, OpenCannotReadHead,
            Create, CreatedReadsBack, CreateReread, AcquireRefused, Acquire, AcquireReread,
            RestoreSnapshot, RestoreFails, UnwindReadsHead, UnwindReleases
    <2>1. job[w] = "none"
        BY <1>0, <1>3 DEF JobOK, Open, OpenFindsObject, OpenFindsNothing, OpenReadOnly,
            OpenCannotReadHead, Create, CreatedReadsBack, CreateReread, AcquireRefused, Acquire,
            AcquireReread, RestoreSnapshot, RestoreFails, UnwindReadsHead, UnwindReleases, Writing
    <2>2. CASE Acquire(w)
        <3>1. cache[w].gen + 1 \in Nat
            BY <1>0 DEF HeadRecord
        <3>2. Acquired(w, cache[w]).inst = w
            <4> DEFINE h == cache[w]
                       gen == cache[w].gen + 1
            <4>1. /\ h \in HeadRecord /\ gen \in Nat
                  /\ LeaseUntil(w) \in Nat /\ w \in Instances \union {Nobody}
                BY <1>0, <3>1, TypeOfClock
            <4> HIDE DEF h, gen
            <4>2. WithLease(h, gen, w, LeaseUntil(w)).inst = w
                BY <4>1, LeaseChange
            <4> QED
                BY <4>2 DEF Acquired, h, gen
        <3>3. \/ phase'[w] = "restoring" /\ cache'[w].inst = w
              \/ phase'[w] \in {"openFailed", "acquireReread"}
            BY <1>0, <2>2, <3>2 DEF Acquire, Go, See, TypeOK, Answers
        <3> QED
            BY <1>1, <2>0, <2>1, <3>3 DEF HolderOK, Creating, Holding, Writing
    <2>3. CASE Create(w) \/ OpenFindsNothing(w)
        <3>1. /\ phase[w] \in {"new"} \union Creating /\ UNCHANGED cache
              /\ phase'[w] \in {"openFailed"} \union Creating
            BY <1>0, <2>3 DEF Create, OpenFindsNothing, Go, TypeOK, Creating
        <3> QED
            BY <1>0, <1>1, <2>0, <2>1, <3>1 DEF HolderOK, Creating, Holding, Writing
    <2>4. CASE CreatedReadsBack(w) \/ CreateReread(w)
        <3>1. \/ phase'[w] = "restoring" /\ cache'[w].inst = w
              \/ phase'[w] \in {"acquiring", "openFailed"}
            BY <1>0, <2>4 DEF CreatedReadsBack, CreateReread, Undisturbed, Go, See, TypeOK
        <3> QED
            BY <1>1, <2>0, <2>1, <3>1 DEF HolderOK, Creating, Holding, Writing
    <2>5. CASE ~Acquire(w) /\ ~Create(w) /\ ~OpenFindsNothing(w) /\ ~CreatedReadsBack(w)
               /\ ~CreateReread(w)
        <3>1. \/ phase'[w] \in {"restoring", "unwindRelease"} /\ cache'[w].inst = w
              \/ phase'[w] \in {"acquiring", "snapshotting", "openFailed", "readonly", "unwinding"}
            BY <1>0, <1>3, <2>5 DEF Open, OpenFindsObject, OpenReadOnly, OpenCannotReadHead,
                AcquireRefused, AcquireReread, RestoreSnapshot, RestoreFails,
                UnwindReadsHead, UnwindReleases, Go, See, TypeOK
        <3> QED
            BY <1>1, <2>0, <2>1, <3>1 DEF HolderOK, Creating, Holding, Writing
    <2> QED
        BY <2>2, <2>3, <2>4, <2>5
<1> QED
    BY <1>2, <1>3

\* HolderOK: operations, close, the timer, the crash.
LEMMA HolderOperate ==
    ASSUME IInv, HoldersOK, NEW w \in Instances,
           Operate(w) \/ Close(w) \/ HeartbeatFires(w) \/ Crash(w)
    PROVE  HolderOK(w)'
<1> USE DEF leaseVars, dataVars, jobVars, commitVars
<1>0. TypeOK /\ JobOK /\ KeyOK /\ HolderOK(w)
    BY DEF IInv, HoldersOK
<1>1. UNCHANGED cache
    BY DEF Operate, SelfFence, Execute, StartFlush, StartCheckpoint, Uploaded, UploadedTooLate,
        UploadFails, Close, CloseStarts, CloseFenced, CloseFlushes, CloseLapsed, CloseReleases,
        CloseReader, HeartbeatFires, Crash
<1>2. CASE SelfFence(w) \/ Execute(w)
    BY <1>0, <1>2 DEF SelfFence, Execute, HolderOK
<1>3. CASE StartFlush(w) \/ StartCheckpoint(w) \/ CloseFlushes(w)
    <2>1. /\ phase[w] \in Writing /\ phase'[w] \in Writing /\ job'[w] \in {"flush", "checkpoint"}
          /\ at'[w]["hb"] = at[w]["hb"]
        BY <1>0, <1>3 DEF StartFlush, StartCheckpoint, CloseFlushes, StartUpload, Ready, Drained,
                          TypeOK, Go, Run, Step, Threads, Writing
    <2> QED
        BY <1>0, <1>1, <2>1 DEF HolderOK, Creating, Holding, Writing
<1>4. CASE Uploaded(w)
    <2>1. at'[w]["hb"] = at[w]["hb"] /\ UNCHANGED <<phase, job>>
        BY <1>0, <1>4 DEF Uploaded, TypeOK, Step, Threads
    <2> QED
        BY <1>0, <1>1, <2>1 DEF HolderOK
<1>5. CASE UploadedTooLate(w) \/ UploadFails(w)
    <2>1. phase[w] \in Writing
        BY <1>0, <1>5 DEF UploadedTooLate, UploadFails, Uploading, KeyOK, UploadKeyOK, HolderOK
    <2>2. \E told : FailJob(w, told)
        BY <1>5 DEF UploadedTooLate, UploadFails
    <2>3. /\ job'[w] = "none" /\ phase'[w] \in {phase[w], "closeFailed"}
          /\ at'[w]["hb"] = at[w]["hb"]
        BY <1>0, <1>5, <2>1, <2>2 DEF FailJob, EndJob, Run, Go, UploadedTooLate, UploadFails,
            TypeOK, Step, Threads, Writing
    <2> QED
        BY <1>0, <1>1, <2>1, <2>3 DEF HolderOK, Creating, Holding, Writing, Ended
<1>6. CASE CloseStarts(w) \/ CloseFenced(w) \/ CloseLapsed(w)
    <2>1. /\ phase[w] \in Writing /\ phase'[w] \in {"draining"} \union Ended
          /\ UNCHANGED <<job, at>> /\ job[w] # "release"
          /\ phase'[w] = "draining" \/ job[w] = "none"
        BY <1>0, <1>6 DEF CloseStarts, CloseFenced, CloseLapsed, Drained, TypeOK, Go, Writing, Ended,
                          HolderOK
    <2> QED
        BY <1>0, <1>1, <2>1 DEF HolderOK, Creating, Holding, Writing, Ended
<1>7. CASE CloseReader(w)
    <2>1. phase[w] = "readonly" /\ phase'[w] = "closed" /\ UNCHANGED <<job, at>>
        BY <1>0, <1>7 DEF CloseReader, TypeOK, Go
    <2> QED
        BY <1>0, <1>1, <2>1 DEF HolderOK, Creating, Holding, Writing, Ended, JobOK
<1>8. CASE CloseReleases(w)
    <2>1. /\ phase[w] \in Writing /\ phase'[w] = "closing" /\ job'[w] = "release"
          /\ at'[w]["hb"] = at[w]["hb"]
        BY <1>0, <1>8 DEF CloseReleases, Drained, TypeOK, Go, Run, Step, Threads, Writing
    <2> QED
        BY <1>0, <1>1, <2>1 DEF HolderOK, Creating, Holding, Writing
<1>9. CASE HeartbeatFires(w)
    <2>1. phase[w] = "open" /\ UNCHANGED <<phase, job>>
        BY <1>9 DEF HeartbeatFires
    <2> QED
        BY <1>0, <1>1, <2>1 DEF HolderOK, Creating, Holding, Writing
<1>10. CASE Crash(w)
    <2>1. phase'[w] = "crashed" /\ job'[w] = "none" /\ at'[w]["hb"] = "idle"
        BY <1>0, <1>10 DEF Crash, TypeOK, Go, Threads
    <2> QED
        BY <2>1 DEF HolderOK, Creating, Holding, Writing
<1> QED
    BY <1>2, <1>3, <1>4, <1>5, <1>6, <1>7, <1>8, <1>9, <1>10 DEF Operate, Close

\* The phase a failed operation leaves.
Failed(w) ==
    CASE phase[w] = "closing"    -> "closeFailed"
      [] phase[w] = "confirming" -> "unwinding"
      [] OTHER                   -> phase[w]

\* What a commit of a handle can make of its phase.
LEMMA CommitMoves ==
    ASSUME IInv, NEW w \in Instances, NEW t \in Threads, Commit(w, t)
    PROVE  /\ at[w][t] \in {"commit", "reread"}
           /\ t = "op" => job[w] # "none" /\ phase[w] \in {"confirming"} \union Writing
           /\ \A u \in Threads : u # t => at'[w][u] = at[w][u]
           /\ t = "hb" => phase'[w] = phase[w] /\ job'[w] = job[w]
           /\ \/ job'[w] = job[w] /\ phase'[w] = phase[w]
              \/ job'[w] = "none" /\ phase'[w] \in {phase[w], "closed", "open"}
              \/ job'[w] = "none" /\ phase'[w] = Failed(w)
<1>0. TypeOK /\ JobOK
    BY DEF IInv
<1>1. at[w][t] \in {"commit", "reread"}
    BY DEF Commit, CommitReplaced, CommitUnsettled, CommitErrors, RereadSettles, RereadFenced,
        RereadRetries, RereadGivesUp, RereadErrors, Attempting, Rereading
<1>2. \E s : Step(w, t, s)
    BY DEF Commit, CommitReplaced, CommitUnsettled, CommitErrors, RereadSettles, RereadFenced,
        RereadRetries, RereadGivesUp, RereadErrors, Settle, GiveUp, LeaveLock
<1>3. \/ UNCHANGED <<phase, job>>
      \/ \E h : Settle(w, t, h)
      \/ \E told, open : GiveUp(w, t, told, open)
    BY DEF Commit, CommitReplaced, CommitUnsettled, CommitErrors, RereadSettles, RereadFenced,
        RereadRetries, RereadGivesUp, RereadErrors, leaseVars, jobVars
<1>4. ASSUME NEW h, Settle(w, t, h)
      PROVE  /\ t = "hb" => UNCHANGED <<phase, job>>
             /\ t = "op" => job'[w] = "none" /\ phase'[w] \in {phase[w], "closed", "open"}
    <2>1. CASE t = "hb"
        BY <1>4, <2>1 DEF Settle, Intent, RenewDone
    <2>2. CASE t = "op"
        <3>1. /\ job' = [job EXCEPT ![w] = "none"]
              /\ phase' = phase \/ phase' = [phase EXCEPT ![w] = "closed"]
                    \/ phase' = [phase EXCEPT ![w] = "open"]
            BY <1>4, <2>2 DEF Settle, FlushDone, CheckpointDone, ReleaseDone, RenewDone, EndJob,
                Run, Go
        <3> QED
            BY <1>0, <2>2, <3>1 DEF TypeOK
    <2> QED
        BY <2>1, <2>2 DEF Threads
<1>5. ASSUME NEW told, NEW open, GiveUp(w, t, told, open)
      PROVE  /\ t = "hb" => UNCHANGED <<phase, job>>
             /\ t = "op" => job'[w] = "none" /\ phase'[w] = Failed(w)
    BY <1>0, <1>5 DEF GiveUp, FailJob, EndJob, Run, Go, Failed, TypeOK
<1>6. \A u \in Threads : u # t => at'[w][u] = at[w][u]
    BY <1>0, <1>2, StepEffect
<1>7. t = "op" => job[w] # "none" /\ phase[w] \in {"confirming"} \union Writing
    BY <1>0, <1>1 DEF JobOK
<1>8. CASE t = "hb"
    <2>1. UNCHANGED <<phase, job>>
        BY <1>3, <1>4, <1>5, <1>8
    <2> QED
        BY <1>1, <1>6, <1>7, <1>8, <2>1
<1>9. CASE t = "op"
    <2>1. CASE UNCHANGED <<phase, job>>
        BY <1>1, <1>6, <1>7, <1>9, <2>1
    <2>2. ASSUME NEW h, Settle(w, t, h)
          PROVE  job'[w] = "none" /\ phase'[w] \in {phase[w], "closed", "open"}
        BY <1>4, <1>9, <2>2
    <2>3. ASSUME NEW told, NEW open, GiveUp(w, t, told, open)
          PROVE  job'[w] = "none" /\ phase'[w] = Failed(w)
        BY <1>5, <1>9, <2>3
    <2> QED
        BY <1>1, <1>3, <1>6, <1>7, <1>9, <2>1, <2>2, <2>3
<1> QED
    BY <1>8, <1>9 DEF Threads

\* What a handle saw last after a commit: its own head, or a lease it gave back.
LEMMA CommitSees ==
    ASSUME IInv, NEW w \in Instances, NEW t \in Threads, Commit(w, t)
    PROVE  \/ cache'[w] = cache[w]
           \/ cache'[w] = head /\ head.inst = w /\ head.gen = cache[w].gen /\ UNCHANGED <<head, late>>
           \/ cache'[w].inst = cache[w].inst /\ head = cache[w] /\ head' = cache'[w] /\ UNCHANGED late
           \/ cache'[w].inst = Nobody /\ phase'[w] = "closed" /\ head'.inst = Nobody
<1> USE DEF storeVars
<1>0. TypeOK /\ JobOK
    BY DEF IInv
<1>1. ASSUME NEW h, Settle(w, t, h), t = "op", job[w] = "release"
      PROVE  cache'[w] = h /\ phase'[w] = "closed"
    BY <1>0, <1>1 DEF Settle, See, Intent, ReleaseDone, Go, TypeOK
<1>2. CASE CommitReplaced(w, t)
    <2>1. /\ Attempting(w, t) /\ cache'[w] = Build(w, t) /\ Settle(w, t, Build(w, t))
          /\ HeadWrite(cache[w], Build(w, t), "replaced")
        BY <1>0, <1>2 DEF CommitReplaced, Settle, See, TypeOK
    <2>2. head = cache[w] /\ head' = Build(w, t) /\ UNCHANGED late
        BY <2>1 DEF HeadWrite, Matches
    <2>3. CASE t = "op" /\ job[w] = "release"
        <3>1. Build(w, t).inst = Nobody
            BY <2>1, <2>3, BuildKinds DEF Gives
        <3> QED
            BY <1>1, <2>1, <2>2, <2>3, <3>1
    <2>4. CASE ~(t = "op" /\ job[w] = "release")
        <3>1. t = "op" => job[w] \in {"flush", "checkpoint", "confirm"}
            BY <1>0, <2>1, <2>4 DEF JobOK, TypeOK, Jobs, Attempting
        <3>2. Build(w, t).inst = cache[w].inst
            BY <2>1, <3>1, BuildKinds DEF Publishes, Extends, Threads
        <3> QED
            BY <2>1, <2>2, <3>2
    <2> QED
        BY <2>3, <2>4
<1>3. CASE RereadSettles(w, t)
    <2>1. Proven(w, t, head) /\ Settle(w, t, head) /\ UNCHANGED <<head, late>>
        BY <1>3 DEF RereadSettles
    <2>2. cache'[w] = head
        BY <1>0, <2>1 DEF Settle, See, TypeOK
    <2>3. CASE StillOurs(w, head)
        BY <2>1, <2>2, <2>3 DEF StillOurs
    <2>4. CASE ~StillOurs(w, head)
        <3>1. t = "op" /\ job[w] = "release" /\ head.inst = Nobody
            BY <2>1, <2>4 DEF Proven, Intended, Intent, Threads
        <3> QED
            BY <1>1, <2>1, <2>2, <3>1
    <2> QED
        BY <2>3, <2>4
<1>4. CASE RereadRetries(w, t) \/ RereadGivesUp(w, t)
    BY <1>0, <1>4 DEF RereadRetries, RereadGivesUp, StillOurs, See, TypeOK
<1>5. CASE CommitUnsettled(w, t) \/ CommitErrors(w, t) \/ RereadFenced(w, t) \/ RereadErrors(w, t)
    BY <1>5 DEF CommitUnsettled, CommitErrors, RereadFenced, RereadErrors, leaseVars
<1> QED
    BY <1>2, <1>3, <1>4, <1>5 DEF Commit

\* HolderOK: commits.
LEMMA HolderCommit ==
    ASSUME IInv, HoldersOK, NEW w \in Instances, NEW t \in Threads, Commit(w, t)
    PROVE  HolderOK(w)'
<1>0. HolderOK(w) /\ JobOK /\ TypeOK
    BY DEF HoldersOK, IInv
<1>1. at'[w]["hb"] # "idle" => phase[w] \in Writing \union Ended
    BY <1>0, CommitMoves DEF HolderOK, Threads
<1>2. phase[w] \in {"confirming"} \union Writing \union Ended
    BY <1>0, CommitMoves DEF HolderOK, Threads
<1>3. /\ phase'[w] \notin {"new"} \union Creating
      /\ phase'[w] \in Holding => phase[w] \in Holding
      /\ at'[w]["hb"] # "idle" => phase'[w] \in Writing \union Ended
    <2>1. CASE t = "hb"
        BY <1>1, <1>2, <2>1, CommitMoves DEF Creating, Holding, Writing, Ended
    <2>2. CASE t = "op"
        <3>1. phase[w] \in {"confirming"} \union Writing
            BY <2>2, CommitMoves
        <3>2. phase'[w] \in {phase[w], "closed", "open", Failed(w)}
            BY CommitMoves
        <3>3. \/ Failed(w) \in {phase[w], "closeFailed"}
              \/ Failed(w) = "unwinding" /\ phase[w] = "confirming"
            <4>1. CASE phase[w] = "closing"
                BY <4>1 DEF Failed
            <4>2. CASE phase[w] = "confirming"
                BY <4>2 DEF Failed
            <4>3. CASE phase[w] \notin {"closing", "confirming"}
                BY <4>3 DEF Failed
            <4> QED
                BY <4>1, <4>2, <4>3
        <3>4. CASE phase'[w] = phase[w]
            BY <1>1, <3>1, <3>4 DEF Creating, Holding, Writing, Ended
        <3>5. CASE phase'[w] \in {"closed", "open", "closeFailed"}
            BY <1>1, <3>1, <3>5 DEF Creating, Holding, Writing, Ended
        <3>6. CASE phase'[w] = "unwinding" /\ phase[w] = "confirming"
            BY <1>1, <3>6 DEF Creating, Holding, Writing, Ended
        <3> QED
            BY <3>2, <3>3, <3>4, <3>5, <3>6
    <2> QED
        BY <2>1, <2>2 DEF Threads
<1>4. /\ phase'[w] \in Holding => cache'[w].inst = w
      /\ at'[w]["hb"] # "idle" => cache'[w].inst \in {w, Nobody}
    <2>1. at'[w]["hb"] # "idle" => cache[w].inst \in {w, Nobody}
        <3>1. at'[w]["hb"] # "idle" => at[w]["hb"] # "idle"
            BY CommitMoves DEF Threads
        <3> QED
            BY <1>0, <3>1 DEF HolderOK
    <2>2. phase'[w] \in Holding => cache[w].inst = w
        BY <1>0, <1>3 DEF HolderOK
    <2>3. "closed" \notin Holding
        BY DEF Holding, Writing
    <2> QED
        BY <2>1, <2>2, <2>3, CommitSees
<1>5. /\ job'[w] \in {"flush", "checkpoint"} => phase'[w] \in Writing
      /\ job'[w] = "release" => phase'[w] = "closing"
    BY <1>0, CommitMoves DEF HolderOK
<1> QED
    BY <1>3, <1>4, <1>5 DEF HolderOK

\* A write over the head that publishes names objects of the holder's own.
LEMMA SentCommits ==
    ASSUME IInv, HoldersOK, NEW w \in Instances, NEW e, NEW n, Sends(w, e, n)
    PROVE  Commits(e, n) /\ n.gen >= e.gen
<1>0. /\ TypeOK /\ KeyOK /\ HolderOK(w) /\ e \in HeadRecord /\ n \in HeadRecord
      /\ cache[w] \in HeadRecord
    BY SendsTypes DEF IInv, HoldersOK, TypeOK
<1>1. e.gen \in Nat /\ e.wal \in Seq(Line)
    BY <1>0 DEF HeadRecord
<1>2. CASE ~Publishes(w, e, n)
    <2>1. SameManifest(e, n) /\ n.gen \in {e.gen, e.gen + 1}
        BY <1>2, SendsKinds DEF Takes, Gives, Extends
    <2> QED
        BY <1>1, <2>1 DEF SameManifest, Commits, Manifest
<1>3. CASE Publishes(w, e, n)
    <2>1. /\ e.inst = w /\ w # Nobody
          /\ key[w] \in Key /\ key[w].inst = w
        BY <1>0, <1>3, NobodyAssumption
        DEF Publishes, HolderOK, Holding, KeyOK, CommitKeyOK
    <2>2. /\ n.inst = e.inst /\ n.gen = e.gen /\ n.seq = e.seq + 1
          /\ n.base \in {e.base} \union {k \in Key : k.inst = e.inst}
        BY <1>3, <2>1 DEF Publishes
    <2>3. ASSUME NEW i \in DOMAIN n.wal
          PROVE  (i \in DOMAIN e.wal /\ n.wal[i] = e.wal[i]) \/ n.wal[i].key.inst = e.inst
        <3> DEFINE old == e.wal
                   new == Lines(key[w])
        <3>1. CASE job[w] = "flush"
            <4>1. old \in Seq(Line) /\ new \in Seq(Line)
                BY <1>0, <1>1, <2>1, TypeOfLines
            <4>2. \A l \in DOMAIN new : new[l].key = key[w]
                BY DEF Lines
            <4>3. n.wal = old \o new
                BY <1>3, <3>1 DEF Publishes
            <4> HIDE DEF old, new
            <4>4. \/ i \in DOMAIN old /\ n.wal[i] = old[i]
                  \/ \E l \in DOMAIN new : n.wal[i] = new[l]
                <5>1. /\ DOMAIN (old \o new) = 1 .. Len(old) + Len(new)
                      /\ Len(old) \in Nat /\ Len(new) \in Nat
                      /\ DOMAIN old = 1 .. Len(old) /\ DOMAIN new = 1 .. Len(new)
                      /\ \A l \in 1 .. Len(old) + Len(new) :
                            (old \o new)[l] = IF l <= Len(old) THEN old[l] ELSE new[l - Len(old)]
                    BY <4>1, ConcatProperties, LenProperties
                <5>2. i \in 1 .. Len(old) + Len(new)
                    BY <4>3, <5>1
                <5>3. CASE i <= Len(old)
                    BY <4>3, <5>1, <5>2, <5>3
                <5>4. CASE i > Len(old)
                    <6>1. i - Len(old) \in DOMAIN new /\ n.wal[i] = new[i - Len(old)]
                        BY <4>3, <5>1, <5>2, <5>4
                    <6> QED
                        BY <6>1
                <5> QED
                    BY <5>1, <5>2, <5>3, <5>4
            <4> QED
                BY <2>1, <4>2, <4>4 DEF old
        <3>2. CASE job[w] # "flush"
            <4>1. n.wal = <<>>
                BY <1>3, <3>2 DEF Publishes
            <4> QED
                BY <4>1
        <3> QED
            BY <3>1, <3>2
    <2> QED
        BY <1>1, <2>1, <2>2, <2>3 DEF Commits
<1> QED
    BY <1>2, <1>3

\* Whatever changes the head is such a write.
LEMMA ChangesAreCommits ==
    ASSUME IInv, HoldersOK, [Next]_vars, head' # head
    PROVE  Commits(head, head') /\ head'.gen >= head.gen
<1>1. ASSUME LateWriteArrives PROVE Commits(head, head') /\ head'.gen >= head.gen
    BY <1>1 DEF LateWriteArrives, Matches, HoldersOK
<1>2. ASSUME NEW w \in Instances, NEW e, NEW n, Sent(w, e, n)
      PROVE  Commits(head, head') /\ head'.gen >= head.gen
    BY <1>2, SentCommits DEF Sent
<1> QED
    BY <1>1, <1>2, HeadStep

\* HoldersOK is kept.
LEMMA HoldersStep ==
    ASSUME IInv, HoldersOK, [Next]_vars, Undisturbed'
    PROVE  HoldersOK'
<1>1. ASSUME NEW w \in Instances, NEW e, NEW n, Sent(w, e, n)
      PROVE  \A r \in late' : Commits(r.expect, r.next) /\ r.next.gen >= r.expect.gen
    <2>1. Write(e, n).expect = e /\ Write(e, n).next = n
        BY DEF Write
    <2> QED
        BY <1>1, <2>1, SentCommits DEF Sent, HoldersOK
<1>2. \A r \in late' : Commits(r.expect, r.next) /\ r.next.gen >= r.expect.gen
    BY <1>1, HeadStep DEF HoldersOK, LateWriteArrives
<1>3. ASSUME NEW w \in Instances, Moves(w), NEW v \in Instances PROVE HolderOK(v)'
    <2>1. CASE v = w
        BY <1>3, <2>1, HolderOpen, HolderOperate, HolderCommit DEF Moves
    <2>2. CASE v # w
        <3>1. HolderOK(v) /\ Same(v)
            BY <1>3, <2>2, OthersKept DEF HoldersOK
        <3> QED
            BY <3>1 DEF HolderOK, Same
    <2> QED
        BY <2>1, <2>2
<1>4. ASSUME UNCHANGED <<leaseVars, jobVars, commitVars>>, NEW v \in Instances PROVE HolderOK(v)'
    BY <1>4 DEF HoldersOK, HolderOK, leaseVars, jobVars, commitVars
<1>5. \A v \in Instances : HolderOK(v)'
    BY <1>3, <1>4, WhoMoves DEF StoreDelivers
<1> QED
    BY <1>2, <1>5 DEF HoldersOK

\* At first nobody has begun to open.
LEMMA InitHolders == Init => HoldersOK
<1> SUFFICES ASSUME Init PROVE HoldersOK
    OBVIOUS
<1> USE DEF Init, StoreInit
<1>1. Undisturbed
    BY DEF Undisturbed
<1>2. \A w \in Instances : HolderOK(w)
    BY DEF HolderOK, Creating, Holding, Writing, Threads
<1> QED
    BY <1>1, <1>2 DEF HoldersOK

------------------------------------------------------------------------------
(* From a cold start, and from an object that exists. *)

\* The premise of what follows: nobody takes the object from an open() that is still
\* creating it (createCold, src/durable/object.ts).  Where head.json exists there is
\* nothing to create, and nothing is assumed.
Unraced == ColdStart => []Undisturbed

\* The object exists and nobody is creating it.
Exists == head.gen > 0 /\ \A w \in Instances : phase[w] \notin Creating

\* On an object that exists nobody ever creates one.
LEMMA ExistsStep ==
    ASSUME IInv, HoldersOK, Exists, [Next]_vars
    PROVE  Exists'
<1>1. head'.gen > 0
    <2>1. IInv'
        BY IInvStep
    <2>2. head.gen \in Nat /\ head'.gen \in Nat
        BY <2>1 DEF IInv, TypeOK, HeadRecord
    <2> QED
        BY <2>2, ChangesAreCommits DEF Exists
<1>2. ASSUME NEW w \in Instances, Moves(w) PROVE phase'[w] \notin Creating
    <2>0. TypeOK /\ phase[w] \notin Creating /\ head.gen # 0
        BY DEF IInv, Exists
    <2>1. CASE Open(w)
        BY <2>0, <2>1 DEF Open, OpenFindsObject, OpenFindsNothing, OpenReadOnly,
            OpenCannotReadHead, Create, CreatedReadsBack, CreateReread, AcquireRefused, Acquire,
            AcquireReread, Restore, RestoreSnapshot, RestoreFails, UnwindReadsHead,
            UnwindReleases, Go, TypeOK, Creating
    <2>2. CASE Operate(w)
        <3>1. phase'[w] \in {phase[w], "closeFailed", "unwinding"}
            BY <2>0, <2>2 DEF Operate, SelfFence, Execute, StartFlush, StartCheckpoint, Uploaded,
                UploadedTooLate, UploadFails, FailJob, Go, TypeOK, leaseVars
        <3> QED
            BY <2>0, <3>1 DEF Creating
    <2>3. CASE Close(w) \/ HeartbeatFires(w) \/ Crash(w)
        BY <2>0, <2>3 DEF Close, CloseStarts, CloseFenced, CloseFlushes, CloseLapsed,
            CloseReleases, CloseReader, HeartbeatFires, Crash, Go, TypeOK, Creating, leaseVars
    <2>4. ASSUME NEW t \in Threads, Commit(w, t) PROVE phase'[w] \notin Creating
        <3>1. phase'[w] \in {phase[w], "closed", "open", Failed(w)}
            BY <2>4, CommitMoves
        <3>2. Failed(w) \in {phase[w], "closeFailed", "unwinding"}
            BY DEF Failed
        <3> QED
            BY <2>0, <3>1, <3>2 DEF Creating
    <2> QED
        BY <1>2, <2>1, <2>2, <2>3, <2>4 DEF Moves
<1>3. \A w \in Instances : phase'[w] \notin Creating
    <2>1. ASSUME NEW w \in Instances, Moves(w), NEW v \in Instances PROVE phase'[v] \notin Creating
        BY <1>2, <2>1, OthersKept DEF Same, Exists
    <2>2. CASE UNCHANGED leaseVars
        BY <2>2 DEF leaseVars, Exists
    <2> QED
        BY <2>1, <2>2, WhoMoves DEF StoreDelivers
<1> QED
    BY <1>1, <1>3 DEF Exists

\* The two premises are one: an object that exists is never raced for.
LEMMA NobodyComesBetween == Spec /\ Unraced => []Undisturbed
<1>1. Init /\ ~ColdStart => IInv /\ HoldersOK /\ Exists
    <2> SUFFICES ASSUME Init, ~ColdStart PROVE Exists
        BY InitIInv, InitHolders
    <2>1. head = Released /\ Released.gen = 1
        BY ColdAssumption DEF Init, StoreInit, Released, WithLease, Absent
    <2> QED
        BY <2>1 DEF Init, Exists, Creating
<1>2. Exists => Undisturbed
    BY DEF Exists, Undisturbed, Creating
<1>3. IInv /\ HoldersOK /\ Exists /\ [Next]_vars => (IInv /\ HoldersOK /\ Exists)'
    <2> SUFFICES ASSUME IInv, HoldersOK, Exists, [Next]_vars PROVE (IInv /\ HoldersOK /\ Exists)'
        OBVIOUS
    <2>1. Exists' /\ Undisturbed'
        BY ExistsStep DEF Exists, Undisturbed, Creating
    <2> QED
        BY <2>1, IInvStep, HoldersStep
<1>4. CASE ColdStart
    BY <1>4, PTL DEF Unraced
<1>5. CASE ~ColdStart
    <2>1. Init => IInv /\ HoldersOK /\ Exists
        BY <1>1, <1>5
    <2> QED
        BY <1>2, <1>3, <2>1, PTL DEF Spec
<1> QED
    BY <1>4, <1>5

------------------------------------------------------------------------------
(* Who commits, and who escapes. *)

\* The bodies of OnlyTheHolderCommits and OpensAsHolder.
HolderCommits ==
    Manifest(head') # Manifest(head) =>
         /\ head.inst # Nobody
         /\ head'.inst = head.inst
         /\ head'.gen = head.gen
         /\ head'.seq = head.seq + 1
         /\ head'.base \in {head.base, NoBase} \union {k \in Key : k.inst = head.inst}
         /\ \A i \in DOMAIN head'.wal :
              \/ i \in DOMAIN head.wal /\ head'.wal[i] = head.wal[i]
              \/ head'.wal[i].key.inst = head.inst

EscapesAsHolder ==
    \A w \in Instances : phase[w] # "open" /\ phase'[w] = "open" => head'.inst = w

\* Only the instance the lease names changes the manifest, under its own generation,
\* one version on, and naming only objects of its own.  Of an object that exists, and
\* of one being created unless that is raced: such an open() can be left with another's
\* lease (see OpensAsHolder).
THEOREM OnlyHoldersCommit == Spec /\ Unraced => OnlyTheHolderCommits
<1>1. Init => IInv /\ HoldersOK
    BY InitIInv, InitHolders
<1>2. IInv /\ HoldersOK /\ [Next]_vars /\ Undisturbed' => (IInv /\ HoldersOK)'
    BY IInvStep, HoldersStep
<1>3. IInv /\ HoldersOK /\ [Next]_vars => [HolderCommits]_storeVars
    BY ChangesAreCommits DEF Commits, HolderCommits
<1> QED
    BY <1>1, <1>2, <1>3, NobodyComesBetween, PTL DEF Spec, OnlyTheHolderCommits, HolderCommits

\* A commit that succeeds leaves the handle with the head that is stored.
LEMMA SettledSees ==
    ASSUME IInv, NEW w \in Instances, NEW t \in Threads,
           CommitReplaced(w, t) \/ RereadSettles(w, t)
    PROVE  cache'[w] = head' /\ Settle(w, t, head')
<1>1. CASE CommitReplaced(w, t)
    BY <1>1 DEF CommitReplaced, HeadWrite, Settle, See, IInv, TypeOK
<1>2. CASE RereadSettles(w, t)
    BY <1>2 DEF RereadSettles, Settle, See, IInv, TypeOK, storeVars
<1> QED
    BY <1>1, <1>2

\* The other steps of commitHead open nothing.
LEMMA UnsettledPhase ==
    ASSUME IInv, NEW w \in Instances, NEW t \in Threads, Commit(w, t),
           ~CommitReplaced(w, t), ~RereadSettles(w, t)
    PROVE  /\ UNCHANGED deadline
           /\ \/ phase'[w] = phase[w] /\ job'[w] = job[w]
              \/ phase'[w] = Failed(w) /\ job'[w] = "none" /\ t = "op"
<1>1. CASE CommitUnsettled(w, t) \/ RereadRetries(w, t)
    BY <1>1 DEF CommitUnsettled, RereadRetries, leaseVars, jobVars
<1>2. CASE CommitErrors(w, t) \/ RereadFenced(w, t) \/ RereadGivesUp(w, t) \/ RereadErrors(w, t)
    <2>1. \E told, open : GiveUp(w, t, told, open)
        BY <1>2 DEF CommitErrors, RereadFenced, RereadGivesUp, RereadErrors
    <2> QED
        BY <2>1 DEF GiveUp, FailJob, EndJob, Run, Go, Failed, IInv, TypeOK, Threads
<1> QED
    BY <1>1, <1>2 DEF Commit

\* What the steps of a handle that are not of commitHead can make of its phase.
LEMMA PhaseMoves ==
    ASSUME IInv, HoldersOK, NEW w \in Instances,
           Open(w) \/ Operate(w) \/ Close(w) \/ HeartbeatFires(w) \/ Crash(w)
    PROVE  /\ phase[w] \notin Ended
           /\ \/ phase'[w] = "restoring" /\ cache'[w] = head' /\ head'.inst = w
              \/ /\ phase[w] = "restoring" /\ phase'[w] = "confirming"
                 /\ deadline'[w] = Believed(w, cache[w]) /\ UNCHANGED <<head, late>>
              \/ /\ phase[w] \in Writing /\ phase'[w] \in Writing
                 /\ phase'[w] = "open" => phase[w] = "open"
                 /\ UNCHANGED deadline /\ job[w] # "release"
              \/ /\ phase[w] = "confirming" /\ phase'[w] = "confirming" /\ UNCHANGED deadline
                 /\ job[w] # "release"
              \/ phase'[w] \notin {"restoring", "confirming"} \union Writing
           /\ phase[w] = "unwindRelease" \/ job[w] = "release" => phase'[w] \in Ended
<1>0. TypeOK /\ JobOK /\ KeyOK /\ HolderOK(w) /\ Undisturbed /\ cache[w] \in HeadRecord
    BY DEF IInv, HoldersOK, TypeOK
<1>1. CASE Acquire(w)
    <2>1. phase[w] = "acquiring" /\ job[w] = "none"
        BY <1>0, <1>1 DEF Acquire, JobOK, Writing
    <2>2. PICK answer \in Answers :
            /\ HeadWrite(cache[w], Acquired(w, cache[w]), answer)
            /\ IF answer = "replaced" THEN See(w, Acquired(w, cache[w])) ELSE UNCHANGED cache
            /\ Go(w, CASE answer = "replaced" -> "restoring"
                       [] answer = "error"    -> "openFailed"
                       [] OTHER               -> "acquireReread")
        BY <1>1 DEF Acquire
    <2>3. CASE answer = "replaced"
        <3>1. phase'[w] = "restoring" /\ cache'[w] = Acquired(w, cache[w])
              /\ head' = Acquired(w, cache[w])
            BY <1>0, <2>2, <2>3 DEF TypeOK, Go, See, HeadWrite
        <3>2. Acquired(w, cache[w]).inst = w
            <4>1. Sends(w, cache[w], Acquired(w, cache[w]))
                BY <1>1 DEF Acquire, Sends
            <4>2. at[w]["hb"] = "idle"
                BY <1>0, <2>1 DEF HolderOK, Writing, Ended
            <4> QED
                BY <2>1, <4>1, <4>2, SendsKinds DEF Takes, Gives, Extends, Publishes
        <3> QED
            BY <2>1, <3>1, <3>2 DEF Ended
    <2>4. CASE answer # "replaced"
        <3>1. phase'[w] \in {"openFailed", "acquireReread"}
            BY <1>0, <2>2, <2>4 DEF TypeOK, Go, Answers
        <3> QED
            BY <2>1, <3>1 DEF Ended, Writing
    <2> QED
        BY <2>3, <2>4
<1>2. CASE AcquireReread(w)
    <2>1. phase[w] = "acquireReread" /\ job[w] = "none"
        BY <1>0, <1>2 DEF AcquireReread, JobOK, Writing
    <2>2. \/ phase'[w] = "restoring" /\ cache'[w] = head' /\ head'.inst = w
          \/ phase'[w] \in {"openFailed", "acquiring"}
        BY <1>0, <1>2 DEF AcquireReread, TypeOK, Go, See, storeVars
    <2> QED
        BY <2>1, <2>2 DEF Ended, Writing
<1>3. CASE Restore(w)
    <2>1. /\ phase[w] = "restoring" /\ phase'[w] = "confirming"
          /\ deadline'[w] = Believed(w, cache[w]) /\ UNCHANGED <<head, late>>
        BY <1>0, <1>3 DEF Restore, TypeOK, Go, storeVars
    <2>2. job[w] = "none"
        BY <1>0, <2>1 DEF JobOK, Writing
    <2> QED
        BY <2>1, <2>2 DEF Ended
<1>4. CASE Open(w) /\ ~Acquire(w) /\ ~AcquireReread(w) /\ ~Restore(w) /\ ~Create(w)
             /\ ~CreatedReadsBack(w) /\ ~CreateReread(w)
    <2>1. phase[w] \notin {"confirming"} \union Writing \union Ended
        BY <1>4 DEF Open, OpenFindsObject, OpenFindsNothing, OpenReadOnly, OpenCannotReadHead,
            AcquireRefused, RestoreSnapshot, RestoreFails, UnwindReadsHead, UnwindReleases,
            Writing, Ended
    <2>2. phase'[w] \in {"creating", "acquiring", "snapshotting", "openFailed", "readonly",
                        "unwinding", "unwindRelease"}
        BY <1>0, <1>4 DEF Open, OpenFindsObject, OpenFindsNothing, OpenReadOnly,
            OpenCannotReadHead, AcquireRefused, RestoreSnapshot, RestoreFails, UnwindReadsHead,
            UnwindReleases, Go, TypeOK
    <2>3. phase[w] = "unwindRelease" => phase'[w] \in Ended
        BY <1>0, <1>4 DEF Open, OpenFindsObject, OpenFindsNothing, OpenReadOnly,
            OpenCannotReadHead, AcquireRefused, RestoreSnapshot, RestoreFails, UnwindReadsHead,
            UnwindReleases, Go, TypeOK, Ended
    <2>4. job[w] # "release"
        BY <1>0, <2>1 DEF JobOK
    <2> QED
        BY <2>1, <2>2, <2>3, <2>4 DEF Writing
<1>10. CASE Create(w) \/ CreatedReadsBack(w) \/ CreateReread(w)
    <2>1. /\ phase[w] \in Creating
          /\ \/ phase'[w] = "restoring" /\ cache'[w] = head' /\ head'.inst = w
             \/ phase'[w] \in {"created", "createReread", "openFailed", "acquiring"}
        BY <1>0, <1>10 DEF Create, CreatedReadsBack, CreateReread, Undisturbed, TypeOK, Go, See,
            Creating, storeVars
    <2>2. phase[w] \notin {"unwindRelease"} \union Writing \union Ended /\ job[w] # "release"
        BY <1>0, <2>1 DEF Creating, Writing, Ended, JobOK
    <2> QED
        BY <2>1, <2>2 DEF Writing
<1>5. CASE Operate(w) /\ ~UploadedTooLate(w) /\ ~UploadFails(w)
    <2>1. UNCHANGED <<phase, deadline>> /\ (phase[w] = "open" \/ Uploading(w))
        BY <1>5 DEF Operate, SelfFence, Execute, StartFlush, StartCheckpoint, Uploaded, Ready,
            leaseVars
    <2>2. phase[w] \in Writing /\ job[w] # "release"
        <3>1. CASE Uploading(w)
            BY <1>0, <3>1 DEF Uploading, KeyOK, UploadKeyOK, HolderOK
        <3>2. CASE phase[w] = "open"
            BY <1>0, <3>2 DEF HolderOK, Writing
        <3> QED
            BY <2>1, <3>1, <3>2
    <2> QED
        BY <2>1, <2>2 DEF Writing, Ended
<1>6. CASE UploadedTooLate(w) \/ UploadFails(w)
    <2>1. phase[w] \in Writing /\ job[w] \in {"flush", "checkpoint"}
        BY <1>0, <1>6 DEF UploadedTooLate, UploadFails, Uploading, KeyOK, UploadKeyOK, HolderOK
    <2>2. UNCHANGED deadline /\ \E told : FailJob(w, told)
        BY <1>6 DEF UploadedTooLate, UploadFails
    <2>3. phase'[w] \in {phase[w], "closeFailed"}
        BY <1>0, <2>1, <2>2 DEF FailJob, Go, TypeOK, Writing
    <2> QED
        BY <2>1, <2>2, <2>3 DEF Writing, Ended
<1>7. CASE Close(w)
    <2>1. /\ phase[w] \in {"readonly"} \union Writing /\ UNCHANGED deadline
          /\ phase'[w] \in {"draining", "closing", "closed", "closeFailed"}
          /\ phase'[w] = "draining" => phase[w] = "open"
          /\ phase'[w] = "closing" => phase[w] \in Writing /\ job[w] # "release"
          /\ phase[w] = "closing" => job[w] # "release"
        BY <1>0, <1>7 DEF Close, CloseStarts, CloseFenced, CloseFlushes, CloseLapsed, CloseReleases,
            CloseReader, Drained, Writing, TypeOK, Go
    <2> QED
        BY <1>0, <2>1 DEF Writing, Ended, HolderOK
<1>8. CASE HeartbeatFires(w)
    <2>1. phase[w] = "open" /\ UNCHANGED <<phase, deadline>>
        BY <1>8 DEF HeartbeatFires, leaseVars
    <2> QED
        BY <1>0, <2>1 DEF Writing, Ended, HolderOK
<1>9. CASE Crash(w)
    <2>1. phase[w] \in Opening \union Reading \union Writing /\ phase'[w] = "crashed"
        BY <1>0, <1>9 DEF Crash, TypeOK, Go
    <2> QED
        BY <2>1 DEF Opening, Reading, Writing, Ended
<1> QED
    BY <1>1, <1>2, <1>3, <1>4, <1>5, <1>6, <1>7, <1>8, <1>9, <1>10 DEF Operate

\* What a commit that succeeds makes of the phase and of the lease believed.
LEMMA SettledPhase ==
    ASSUME IInv, NEW w \in Instances, NEW t \in Threads, NEW h, Settle(w, t, h),
           at[w][t] \in {"commit", "reread"}
    PROVE  \/ /\ t = "hb" /\ phase'[w] = phase[w] /\ job'[w] = job[w]
              /\ deadline'[w] = Believed(w, h)
           \/ /\ t = "op" /\ job[w] \in {"flush", "checkpoint"} /\ job'[w] = "none"
              /\ phase'[w] = phase[w] /\ UNCHANGED deadline
           \/ t = "op" /\ job[w] = "release" /\ job'[w] = "none" /\ phase'[w] = "closed"
           \/ /\ t = "op" /\ job[w] = "confirm" /\ job'[w] = "none" /\ phase'[w] = "open"
              /\ deadline'[w] = Believed(w, h)
<1>0. TypeOK /\ JobOK
    BY DEF IInv
<1>1. CASE t = "hb"
    <2>1. RenewDone(w, t, h)
        BY <1>1 DEF Settle, Intent
    <2> QED
        BY <1>0, <1>1, <2>1 DEF RenewDone, TypeOK
<1>2. CASE t = "op"
    <2>1. job[w] \in {"flush", "checkpoint", "release", "confirm"}
        BY <1>0, <1>2 DEF JobOK, TypeOK, Jobs
    <2>2. CASE job[w] = "flush"
        <3>1. FlushDone(w)
            BY <1>2, <2>2 DEF Settle, Intent
        <3> QED
            BY <1>0, <1>2, <2>2, <3>1 DEF FlushDone, EndJob, Run, TypeOK
    <2>3. CASE job[w] = "checkpoint"
        <3>1. CheckpointDone(w)
            BY <1>2, <2>3 DEF Settle, Intent
        <3> QED
            BY <1>0, <1>2, <2>3, <3>1 DEF CheckpointDone, EndJob, Run, TypeOK
    <2>4. CASE job[w] = "release"
        <3>1. ReleaseDone(w)
            BY <1>2, <2>4 DEF Settle, Intent
        <3> QED
            BY <1>0, <1>2, <2>4, <3>1 DEF ReleaseDone, EndJob, Run, Go, TypeOK
    <2>5. CASE job[w] = "confirm"
        <3>1. RenewDone(w, t, h)
            BY <1>2, <2>5 DEF Settle, Intent
        <3> QED
            BY <1>0, <1>2, <2>5, <3>1 DEF RenewDone, EndJob, Run, Go, TypeOK
    <2> QED
        BY <2>1, <2>2, <2>3, <2>4, <2>5
<1> QED
    BY <1>1, <1>2 DEF Threads

\* A thread that takes a step of commitHead is inside it.
LEMMA CommitThread ==
    ASSUME IInv, NEW w \in Instances, NEW t \in Threads, Commit(w, t)
    PROVE  at[w][t] \in {"commit", "reread"}
BY CommitMoves

\* A handle becomes `open` only by a confirmed renewal, which leaves it on the head.
LEMMA EscapeStep ==
    ASSUME IInv, HoldersOK, NEW w \in Instances, Moves(w), phase[w] # "open", phase'[w] = "open"
    PROVE  head'.inst = w
<1>1. PICK t \in Threads : Commit(w, t)
    <2>1. ASSUME Open(w) \/ Operate(w) \/ Close(w) \/ HeartbeatFires(w) \/ Crash(w) PROVE FALSE
        BY <2>1, PhaseMoves DEF Writing
    <2> QED
        BY <2>1 DEF Moves
<1>2. CommitReplaced(w, t) \/ RereadSettles(w, t)
    <2>1. Failed(w) # "open"
        BY DEF Failed
    <2> QED
        BY <1>1, <2>1, UnsettledPhase
<1>3. cache'[w] = head'
    BY <1>2, SettledSees
<1>4. HolderOK(w)'
    BY <1>1, HolderCommit
<1> QED
    BY <1>3, <1>4 DEF HolderOK, Holding, Writing

\* OpensAsHolder, of every step.
LEMMA EscapesStep ==
    ASSUME IInv, HoldersOK, [Next]_vars
    PROVE  EscapesAsHolder
<1>1. ASSUME NEW w \in Instances, Moves(w) PROVE EscapesAsHolder
    <2>1. \A v \in Instances : v # w => phase'[v] = phase[v]
        BY <1>1, OthersKept DEF Same
    <2> QED
        BY <1>1, <2>1, EscapeStep DEF EscapesAsHolder
<1>2. CASE UNCHANGED leaseVars
    BY <1>2 DEF leaseVars, EscapesAsHolder
<1> QED
    BY <1>1, <1>2, WhoMoves DEF StoreDelivers

\* A handle escapes open() only while the head names its instance: what a caller is
\* given was confirmed (acquire, then renewLease, in open()).  Run durable_cold_start
\* shows the race that has to be excluded, and the theorem that it is the only one.
THEOREM HandlesEscapeAsHolders == Spec /\ Unraced => OpensAsHolder
<1>1. Init => IInv /\ HoldersOK
    BY InitIInv, InitHolders
<1>2. IInv /\ HoldersOK /\ [Next]_vars /\ Undisturbed' => (IInv /\ HoldersOK)'
    BY IInvStep, HoldersStep
<1>3. IInv /\ HoldersOK /\ [Next]_vars => [EscapesAsHolder]_vars
    BY EscapesStep
<1> QED
    BY <1>1, <1>2, <1>3, NobodyComesBetween, PTL DEF Spec, OpensAsHolder, EscapesAsHolder

------------------------------------------------------------------------------
(* Who believes to be the writer. *)

\* Clocks differ by no more than the skew allowance covers.
SkewCovers == \A v, w \in Instances : Offset[v] <= Offset[w] + SkewAllowance

\* No recorded expiry is further off than a renewal by the holder, now, would put it.
Promised(h) == h.inst \in Instances => h.exp <= LeaseUntil(h.inst)

\* w is through with the lease, or is giving it back.
Gone(w) == phase[w] \in Ended \/ job[w] = "release"

\* What the write of n over e does to the belief of the instance e names.
Renews(e, n) ==
    /\ Promised(n)
    /\ e.inst \in Instances /\ n.inst = e.inst => e.exp <= n.exp
    /\ e.inst \in Instances /\ n.inst = Nobody => Gone(e.inst)

\* The lease is w's until exp, unless that is past.
Until(w, exp) == exp <= Clock(w) \/ (head.inst = w /\ exp <= head.exp)

BelievesRightly(w) ==
    /\ phase[w] = "restoring" => Until(w, cache[w].exp)
    /\ phase[w] \in {"confirming"} \union Writing /\ job[w] # "release" => Until(w, deadline[w])

Unforced == \A w \in Instances : ~forced[w]

BeliefOK ==
    /\ Promised(head)
    /\ \A w \in Instances : Promised(cache[w])
    /\ \A r \in late : Renews(r.expect, r.next)
    /\ Unforced => \A w \in Instances : BelievesRightly(w)

\* The invariant behind OneBeliever.
LInv == IInv /\ GrantsOK /\ HoldersOK

\* What a step of a handle makes of its lease and its belief.
LEMMA BeliefMoves ==
    ASSUME IInv, HoldersOK, NEW w \in Instances, Moves(w),
           phase'[w] \in {"restoring", "confirming"} \union Writing, job'[w] # "release"
    PROVE  \/ phase'[w] = "restoring" /\ cache'[w] = head' /\ head'.inst = w
           \/ /\ phase[w] = "restoring" /\ phase'[w] = "confirming"
              /\ deadline'[w] = Believed(w, cache[w]) /\ UNCHANGED <<head, late>>
           \/ /\ phase[w] \in {"confirming"} \union Writing /\ job[w] # "release"
              /\ phase'[w] # "restoring"
              /\ \/ deadline'[w] = deadline[w]
                 \/ deadline'[w] = Believed(w, head') /\ head'.inst = w
<1>0. TypeOK /\ JobOK /\ HolderOK(w)
    BY DEF IInv, HoldersOK
<1>1. CASE Open(w) \/ Operate(w) \/ Close(w) \/ HeartbeatFires(w) \/ Crash(w)
    BY <1>1, PhaseMoves DEF Writing
<1>2. ASSUME NEW t \in Threads, Commit(w, t), ~CommitReplaced(w, t), ~RereadSettles(w, t)
      PROVE  /\ phase[w] \in {"confirming"} \union Writing /\ job[w] # "release"
             /\ phase'[w] # "restoring" /\ deadline'[w] = deadline[w]
    <2>1. CASE phase'[w] = phase[w] /\ job'[w] = job[w]
        <3>1. phase[w] \in {"confirming"} \union Writing \union Ended
            BY <1>0, <1>2, CommitMoves DEF HolderOK, Threads
        <3> QED
            BY <1>2, <2>1, <3>1, UnsettledPhase DEF Writing, Ended
    <2>2. CASE phase'[w] = Failed(w) /\ job'[w] = "none" /\ t = "op"
        <3>1. phase[w] \in {"confirming"} \union Writing
            BY <1>2, <2>2, CommitMoves
        <3>2. phase[w] \notin {"closing", "confirming"} /\ Failed(w) = phase[w]
            <4>1. phase[w] = "closing" => Failed(w) = "closeFailed"
                BY DEF Failed
            <4>2. phase[w] = "confirming" => Failed(w) = "unwinding"
                BY DEF Failed
            <4>3. phase[w] \notin {"closing", "confirming"} => Failed(w) = phase[w]
                BY DEF Failed
            <4> QED
                BY <2>2, <4>1, <4>2, <4>3 DEF Writing
        <3> QED
            BY <1>0, <1>2, <2>2, <3>1, <3>2, UnsettledPhase DEF HolderOK, Writing
    <2> QED
        BY <1>2, <2>1, <2>2, UnsettledPhase
<1>3. ASSUME NEW t \in Threads, Commit(w, t), CommitReplaced(w, t) \/ RereadSettles(w, t)
      PROVE  /\ phase[w] \in {"confirming"} \union Writing /\ job[w] # "release"
             /\ phase'[w] # "restoring"
             /\ \/ deadline'[w] = deadline[w]
                \/ deadline'[w] = Believed(w, head') /\ head'.inst = w
    <2>1. cache'[w] = head' /\ Settle(w, t, head') /\ HolderOK(w)'
        BY <1>3, SettledSees, HolderCommit
    <2>2. phase[w] \in {"confirming"} \union Writing \union Ended
        BY <1>0, <1>3, CommitMoves DEF HolderOK, Threads
    <2>3. t = "op" => phase[w] \in {"confirming"} \union Writing
        BY <1>3, CommitMoves
    <2>4. phase'[w] \in {"confirming"} \union Writing => head'.inst = w
        BY <2>1 DEF HolderOK, Holding
    <2>5. at[w][t] \in {"commit", "reread"}
        BY <1>3, CommitThread
    <2>6. CASE t = "hb"
        BY <2>1, <2>2, <2>4, <2>5, <2>6, SettledPhase DEF Writing, Ended
    <2>7. CASE t = "op"
        BY <2>1, <2>3, <2>4, <2>5, <2>7, SettledPhase DEF Writing
    <2> QED
        BY <2>6, <2>7 DEF Threads
<1> QED
    BY <1>1, <1>2, <1>3 DEF Moves

\* Once through with the lease, a handle stays so.
LEMMA GoneStays ==
    ASSUME IInv, HoldersOK, NEW w \in Instances, Moves(w)
    PROVE  /\ Gone(w) => Gone(w)'
           /\ phase[w] = "unwindRelease" => Gone(w)'
<1>0. TypeOK /\ JobOK /\ HolderOK(w)
    BY DEF IInv, HoldersOK
<1>1. CASE Open(w) \/ Operate(w) \/ Close(w) \/ HeartbeatFires(w) \/ Crash(w)
    BY <1>1, PhaseMoves DEF Gone
<1>2. ASSUME NEW t \in Threads, Commit(w, t)
      PROVE  /\ Gone(w) => Gone(w)'
             /\ phase[w] # "unwindRelease"
    <2>1. phase[w] # "unwindRelease"
        BY <1>0, <1>2, CommitMoves DEF HolderOK, Threads, Writing, Ended
    <2>2. CASE phase[w] \in Ended
        <3>1. t = "hb"
            BY <1>2, <2>2, CommitMoves DEF Threads, Writing, Ended
        <3> QED
            BY <1>2, <2>1, <2>2, <3>1, CommitMoves DEF Gone
    <2>3. CASE job[w] = "release"
        <3>1. phase[w] = "closing"
            BY <1>0, <2>3 DEF HolderOK
        <3>2. Failed(w) = "closeFailed"
            BY <3>1 DEF Failed
        <3>3. CASE CommitReplaced(w, t) \/ RereadSettles(w, t)
            <4>1. Settle(w, t, head') /\ at[w][t] \in {"commit", "reread"}
                BY <1>2, <3>3, SettledSees, CommitThread
            <4> QED
                BY <2>1, <2>3, <4>1, SettledPhase DEF Gone, Ended
        <3>4. CASE ~(CommitReplaced(w, t) \/ RereadSettles(w, t))
            BY <1>2, <2>1, <2>3, <3>2, <3>4, UnsettledPhase DEF Gone, Ended
        <3> QED
            BY <3>3, <3>4
    <2> QED
        BY <2>1, <2>2, <2>3 DEF Gone
<1> QED
    BY <1>1, <1>2 DEF Moves

\* A handle that is through with the lease stays so, whoever moves.
LEMMA GoneStep ==
    ASSUME IInv, HoldersOK, [Next]_vars, NEW w \in Instances, Gone(w)
    PROVE  Gone(w)'
<1>1. ASSUME NEW v \in Instances, Moves(v) PROVE Gone(w)'
    <2>1. CASE v = w
        BY <1>1, <2>1, GoneStays
    <2>2. CASE v # w
        BY <1>1, <2>2, OthersKept DEF Same, Gone
    <2> QED
        BY <2>1, <2>2
<1>2. CASE UNCHANGED <<leaseVars, jobVars>>
    BY <1>2 DEF leaseVars, jobVars, Gone
<1> QED
    BY <1>1, <1>2, WhoMoves DEF StoreDelivers

\* Clocks run forward.
LEMMA ClockStep ==
    ASSUME IInv, GrantsOK, [Next]_vars, NEW w \in Instances
    PROVE  /\ Clock(w) \in Nat /\ Clock(w)' \in Nat /\ Clock(w) <= Clock(w)'
           /\ LeaseUntil(w) \in Nat /\ LeaseUntil(w)' \in Nat /\ LeaseUntil(w) <= LeaseUntil(w)'
<1>1. now \in Nat /\ now' \in Nat /\ now <= now'
    BY ForcedStays DEF IInv, TypeOK
<1>2. Offset[w] \in Nat /\ LeaseTtl \in Nat
    BY OffsetAssumption, TuningAssumption
<1>3. Clock(w) \in Nat /\ Clock(w)' \in Nat /\ Clock(w) <= Clock(w)'
    BY <1>1, <1>2 DEF Clock
<1> QED
    BY <1>2, <1>3 DEF LeaseUntil

\* A promise is kept as the clock advances.
LEMMA PromisedStays ==
    ASSUME LInv, [Next]_vars, NEW h \in HeadRecord, Promised(h)
    PROVE  Promised(h)'
BY ClockStep DEF LInv, Promised, HeadRecord

\* So is what a write on its way does to anybody's belief.
LEMMA RenewsStays ==
    ASSUME LInv, [Next]_vars, NEW e \in HeadRecord, NEW n \in HeadRecord, Renews(e, n)
    PROVE  Renews(e, n)'
BY PromisedStays, GoneStep DEF LInv, Renews

\* What a handle sends keeps promises and extends its own lease, or else gives it back.
LEMMA SentRenews ==
    ASSUME LInv, BeliefOK, [Next]_vars, NEW w \in Instances, Moves(w), NEW e, NEW n, Sends(w, e, n)
    PROVE  Renews(e, n)'
<1>0. /\ IInv /\ HoldersOK /\ TypeOK /\ JobOK /\ HolderOK(w) /\ Promised(cache[w])
      /\ e \in HeadRecord /\ n \in HeadRecord /\ cache[w] \in HeadRecord
    BY SendsTypes DEF LInv, IInv, HoldersOK, TypeOK, BeliefOK
<1>1. /\ e.exp \in Nat /\ n.exp \in Nat /\ e.inst \in Instances \union {Nobody}
      /\ LeaseUntil(w) \in Nat
    BY <1>0, TypeOfClock DEF HeadRecord
<1>2. Nobody \notin Instances
    BY NobodyAssumption
<1>3. CASE Takes(w, e, n)
    <2>1. Promised(n)
        BY <1>1, <1>3 DEF Takes, Promised
    <2>2. Promised(e)
        <3>1. e = cache[w] \/ e.inst = Nobody
            BY <1>3 DEF Sends, Takes, Absent
        <3> QED
            BY <1>0, <1>2, <3>1 DEF Promised
    <2>3. Renews(e, n)
        BY <1>1, <1>2, <1>3, <2>1, <2>2 DEF Takes, Renews, Promised
    <2> QED
        BY <1>0, <2>3, RenewsStays
<1>4. CASE Gives(w, e, n)
    <2>1. e.inst \in Instances => e.inst = w
        BY <1>0, <1>4 DEF Gives, HolderOK, Holding, Writing
    <2>2. Gone(w)'
        BY <1>0, <1>4, GoneStays DEF Gives, Gone
    <2> QED
        BY <1>2, <1>4, <2>1, <2>2 DEF Gives, Renews, Promised
<1>5. CASE Extends(w, e, n)
    <2>1. e.inst \in {w, Nobody}
        <3>1. job[w] = "confirm" => phase[w] \in {"confirming"} \union Writing
            BY <1>0 DEF JobOK
        <3> QED
            BY <1>0, <1>5, <3>1 DEF Extends, HolderOK, Holding
    <2>2. Renews(e, n)
        BY <1>0, <1>1, <1>2, <1>5, <2>1 DEF Extends, Renews, Promised
    <2> QED
        BY <1>0, <2>2, RenewsStays
<1>6. CASE Publishes(w, e, n)
    <2>1. e.inst = w
        BY <1>0, <1>6 DEF Publishes, HolderOK, Holding
    <2>2. Renews(e, n)
        BY <1>0, <1>1, <1>2, <1>6, <2>1 DEF Publishes, Renews, Promised
    <2> QED
        BY <1>0, <2>2, RenewsStays
<1> QED
    BY <1>0, <1>3, <1>4, <1>5, <1>6, SendsKinds

\* Every write on its way, old or new, is of that kind after a step.
LEMMA LateRenews ==
    ASSUME LInv, BeliefOK, [Next]_vars
    PROVE  \A r \in late' : Renews(r.expect, r.next)'
<1>0. \A r \in late : r.expect \in HeadRecord /\ r.next \in HeadRecord
    BY DEF LInv, IInv, TypeOK
<1>1. \A r \in late : Renews(r.expect, r.next)'
    BY <1>0, RenewsStays DEF BeliefOK
<1>2. ASSUME NEW w \in Instances, Moves(w), NEW e, NEW n, Sent(w, e, n)
      PROVE  \A r \in late' : Renews(r.expect, r.next)'
    <2>1. Write(e, n).expect = e /\ Write(e, n).next = n
        BY DEF Write
    <2> QED
        BY <1>1, <1>2, <2>1, SentRenews DEF Sent
<1> QED
    BY <1>1, <1>2, HeadStep DEF LInv, LateWriteArrives

\* And so is every change of the head.
LEMMA ChangesRenew ==
    ASSUME LInv, BeliefOK, [Next]_vars, head' # head
    PROVE  \E e, n \in HeadRecord : e = head /\ n = head' /\ Renews(e, n)'
<1>1. ASSUME LateWriteArrives
      PROVE  \E e, n \in HeadRecord : e = head /\ n = head' /\ Renews(e, n)'
    <2>1. PICK r \in late : r.expect = head /\ r.next = head'
        BY <1>1 DEF LateWriteArrives, Matches
    <2>2. r.expect \in HeadRecord /\ r.next \in HeadRecord /\ Renews(r.expect, r.next)
        BY DEF LInv, IInv, TypeOK, BeliefOK
    <2>3. Renews(r.expect, r.next)'
        BY <2>2, RenewsStays
    <2> QED
        BY <2>1, <2>2, <2>3
<1>2. ASSUME NEW w \in Instances, Moves(w), NEW e, NEW n, Sent(w, e, n)
      PROVE  \E f, m \in HeadRecord : f = head /\ m = head' /\ Renews(f, m)'
    <2>1. head = e /\ head' = n /\ e \in HeadRecord /\ n \in HeadRecord /\ Sends(w, e, n)
        BY <1>2 DEF Sent
    <2> QED
        BY <1>2, <2>1, SentRenews
<1> QED
    BY <1>1, <1>2, HeadStep DEF LInv

\* Unless w gives the lease up, or force is used, a lease it may rely on stays one.
LEMMA UntilStays ==
    ASSUME LInv, BeliefOK, [Next]_vars, SkewCovers, Unforced, NEW w \in Instances, ~Gone(w)',
           NEW exp \in Nat, Until(w, exp)
    PROVE  Until(w, exp)'
<1>1. /\ Clock(w) \in Nat /\ Clock(w)' \in Nat /\ Clock(w) <= Clock(w)'
    BY ClockStep DEF LInv
<1>2. CASE exp <= Clock(w)
    BY <1>1, <1>2 DEF Until
<1>3. CASE head.inst = w /\ exp <= head.exp /\ head' = head
    BY <1>3 DEF Until
<1>4. CASE head.inst = w /\ exp <= head.exp /\ head' # head
    <2>1. PICK e \in HeadRecord, n \in HeadRecord : e = head /\ n = head' /\ Renews(e, n)'
        BY <1>4, ChangesRenew
    <2>2. e.exp \in Nat /\ n.exp \in Nat /\ n.inst \in Instances \union {Nobody}
        BY DEF HeadRecord
    <2>3. Granted(e, n)
        BY <1>4, <2>1, ChangesAreGranted DEF LInv
    <2>4. CASE n.inst = w
        <3>1. e.exp <= n.exp
            BY <1>4, <2>1, <2>4 DEF Renews
        <3>2. exp <= n.exp
            BY <1>4, <2>1, <2>2, <3>1
        <3> QED
            BY <2>1, <2>4, <3>2 DEF Until
    <2>5. CASE n.inst = Nobody
        BY <1>4, <2>1, <2>5 DEF Renews
    <2>6. CASE n.inst # w /\ n.inst # Nobody
        <3> DEFINE v == n.inst
        <3>1. v \in Instances /\ ~forced[v]
            BY <2>2, <2>6 DEF Unforced
        <3>2. Clock(v) >= e.exp + SkewAllowance
            BY <1>4, <2>1, <2>3, <2>6, <3>1, NobodyAssumption DEF Granted
        <3>3. Clock(v) <= Clock(w) + SkewAllowance
            <4>1. /\ Offset[v] \in Nat /\ Offset[w] \in Nat /\ SkewAllowance \in Nat /\ now \in Nat
                  /\ Offset[v] <= Offset[w] + SkewAllowance
                BY <3>1, OffsetAssumption, TuningAssumption DEF SkewCovers, LInv, IInv, TypeOK
            <4> QED
                BY <4>1 DEF Clock
        <3>4. Clock(v) \in Nat /\ SkewAllowance \in Nat
            BY <3>1, TuningAssumption, ClockStep DEF LInv
        <3>5. exp <= Clock(w)
            <4> HIDE DEF v
            <4> QED BY <1>1, <1>4, <2>1, <2>2, <3>2, <3>3, <3>4
        <3> QED
            BY <1>1, <3>5 DEF Until
    <2> QED
        BY <2>4, <2>5, <2>6
<1> QED
    BY <1>2, <1>3, <1>4 DEF Until

\* What a handle believes is right after any step, if it was before.
LEMMA BelievesStep ==
    ASSUME LInv, BeliefOK, [Next]_vars, SkewCovers, Unforced, NEW w \in Instances
    PROVE  BelievesRightly(w)'
<1>0. /\ IInv /\ IInv' /\ HoldersOK /\ TypeOK /\ TypeOK' /\ JobOK' /\ BelievesRightly(w)
      /\ cache[w] \in HeadRecord /\ deadline[w] \in Nat /\ head' \in HeadRecord
    BY IInvStep DEF LInv, IInv, TypeOK, BeliefOK
<1>1. /\ cache[w].exp \in Nat /\ head'.exp \in Nat
      /\ \A h \in HeadRecord : Believed(w, h) \in Nat /\ Believed(w, h) <= h.exp
    <2>1. ASSUME NEW h \in HeadRecord
          PROVE  Believed(w, h) \in Nat /\ Believed(w, h) <= h.exp /\ h.exp \in Nat
        <3>1. h.exp \in Nat /\ LeaseUntil(w) \in Nat
            BY <1>0, TypeOfClock DEF HeadRecord
        <3> QED
            BY <3>1 DEF Believed, Earlier
    <2> QED
        BY <1>0, <2>1
<1>a. \A x, y \in Nat : x <= y /\ Until(w, y) => Until(w, x)
    <2>1. Clock(w) \in Nat /\ head.exp \in Nat
        BY <1>0, ClockStep DEF LInv, TypeOK, HeadRecord
    <2> QED
        BY <2>1 DEF Until
<1>2. CASE phase'[w] \notin {"restoring", "confirming"} \union Writing
    BY <1>2 DEF BelievesRightly
<1>3. CASE job'[w] = "release"
    <2>1. phase'[w] # "restoring"
        BY <1>0, <1>3 DEF JobOK, Writing
    <2> QED
        BY <1>3, <2>1 DEF BelievesRightly
<1>4. CASE phase'[w] \in {"restoring", "confirming"} \union Writing /\ job'[w] # "release"
    <2>0. ~Gone(w)'
        BY <1>4 DEF Gone, Writing, Ended
    <2>1. CASE phase'[w] = "restoring" /\ cache'[w] = head' /\ head'.inst = w
        <3>1. Until(w, cache[w].exp)'
            BY <1>1, <2>1 DEF Until
        <3> QED
            BY <2>1, <3>1 DEF BelievesRightly, Writing
    <2>2. CASE /\ phase[w] = "restoring" /\ phase'[w] = "confirming"
               /\ deadline'[w] = Believed(w, cache[w]) /\ UNCHANGED <<head, late>>
        <3>1. Until(w, Believed(w, cache[w]))
            BY <1>0, <1>1, <1>a, <2>2 DEF BelievesRightly
        <3>2. PICK d \in Nat : d = Believed(w, cache[w])
            BY <1>0, <1>1
        <3>3. Until(w, d)'
            BY <2>0, <3>1, <3>2, UntilStays
        <3> QED
            BY <2>2, <3>2, <3>3 DEF BelievesRightly, Until
    <2>3. CASE /\ phase[w] \in {"confirming"} \union Writing /\ job[w] # "release"
               /\ phase'[w] # "restoring" /\ deadline'[w] = deadline[w]
        <3>1. PICK d \in Nat : d = deadline[w]
            BY <1>0
        <3>2. Until(w, d)
            BY <1>0, <2>3, <3>1 DEF BelievesRightly
        <3>3. Until(w, d)'
            BY <2>0, <3>2, UntilStays
        <3> QED
            BY <2>3, <3>1, <3>3 DEF BelievesRightly, Until
    <2>4. CASE /\ phase'[w] # "restoring"
               /\ deadline'[w] = Believed(w, head') /\ head'.inst = w
        <3>1. deadline'[w] <= head'.exp
            BY <1>0, <1>1, <2>4
        <3> QED
            BY <2>4, <3>1 DEF BelievesRightly, Until
    <2>5. ASSUME NEW v \in Instances, Moves(v), v # w PROVE BelievesRightly(w)'
        <3>1. Same(w)
            BY <1>0, <2>5, OthersKept
        <3>2. CASE phase'[w] = "restoring"
            <4>1. PICK d \in Nat : d = cache[w].exp
                BY <1>1
            <4>2. Until(w, d)
                BY <1>0, <3>1, <3>2, <4>1 DEF BelievesRightly, Same
            <4>3. Until(w, d)'
                BY <2>0, <4>2, UntilStays
            <4>4. cache'[w] = cache[w]
                BY <3>1 DEF Same
            <4> QED
                BY <3>2, <4>1, <4>3, <4>4 DEF BelievesRightly, Until, Writing
        <3>3. CASE phase'[w] # "restoring"
            BY <1>4, <2>3, <3>1, <3>3 DEF Same
        <3> QED
            BY <3>2, <3>3
    <2>6. ASSUME Moves(w) PROVE BelievesRightly(w)'
        BY <1>0, <1>4, <2>1, <2>2, <2>3, <2>4, <2>6, BeliefMoves
    <2>7. ASSUME UNCHANGED <<leaseVars, jobVars>> PROVE BelievesRightly(w)'
        <3>1. CASE phase'[w] = "restoring"
            <4>1. PICK d \in Nat : d = cache[w].exp
                BY <1>1
            <4>2. cache' = cache /\ phase' = phase
                BY <2>7 DEF leaseVars
            <4>3. Until(w, d)
                BY <1>0, <3>1, <4>1, <4>2 DEF BelievesRightly
            <4>4. Until(w, d)'
                BY <2>0, <4>3, UntilStays
            <4> QED
                BY <3>1, <4>1, <4>2, <4>4 DEF BelievesRightly, Until, Writing
        <3>2. CASE phase'[w] # "restoring"
            BY <1>4, <2>3, <2>7, <3>2 DEF leaseVars, jobVars
        <3> QED
            BY <3>1, <3>2
    <2> QED
        BY <2>5, <2>6, <2>7, WhoMoves DEF StoreDelivers
<1> QED
    BY <1>2, <1>3, <1>4


\* What a handle has last seen is what it had seen, the head, or the head it writes.
LEMMA SeesHeads ==
    ASSUME IInv, NEW w \in Instances, Moves(w)
    PROVE  cache'[w] = cache[w] \/ cache'[w] = head \/ cache'[w] = head'
<1> USE DEF leaseVars, storeVars
<1>0. TypeOK
    BY DEF IInv
<1>1. CASE Open(w)
    <2>1. CASE Create(w) \/ Acquire(w)
        BY <1>0, <2>1 DEF TypeOK, Create, Acquire, HeadWrite, See
    <2>2. CASE ~(Create(w) \/ Acquire(w))
        BY <1>0, <1>1, <2>2 DEF TypeOK, Open, OpenFindsObject, OpenFindsNothing, OpenReadOnly,
            OpenCannotReadHead, CreatedReadsBack, CreateReread, AcquireRefused,
            AcquireReread, Restore, RestoreSnapshot, RestoreFails, UnwindReadsHead,
            UnwindReleases, See
    <2> QED
        BY <2>1, <2>2
<1>2. CASE Operate(w)
    BY <1>2 DEF Operate, SelfFence, Execute, StartFlush, StartCheckpoint,
        Uploaded, UploadedTooLate, UploadFails
<1>3. CASE Close(w) \/ HeartbeatFires(w) \/ Crash(w)
    BY <1>3 DEF Close, CloseStarts, CloseFenced, CloseFlushes, CloseLapsed,
        CloseReleases, CloseReader, HeartbeatFires, Crash
<1>4. ASSUME NEW t \in Threads, Commit(w, t)
      PROVE  cache'[w] = cache[w] \/ cache'[w] = head \/ cache'[w] = head'
    <2>1. CASE CommitReplaced(w, t) \/ RereadSettles(w, t)
        BY <2>1, SettledSees
    <2>2. CASE ~(CommitReplaced(w, t) \/ RereadSettles(w, t))
        BY <1>0, <1>4, <2>2 DEF TypeOK, Commit, CommitUnsettled, CommitErrors, RereadFenced,
            RereadRetries, RereadGivesUp, RereadErrors, See
    <2> QED
        BY <2>1, <2>2
<1> QED
    BY <1>1, <1>2, <1>3, <1>4 DEF Moves

\* The promises of BeliefOK, of the head and of what the handles last saw.
LEMMA PromisesStep ==
    ASSUME LInv, BeliefOK, [Next]_vars
    PROVE  Promised(head)' /\ \A w \in Instances : Promised(cache[w])'
<1>0. IInv /\ TypeOK /\ TypeOK'
    BY IInvStep DEF LInv, IInv
<1>1. Promised(head)'
    <2>1. CASE head' = head
        <3>1. PICK h \in HeadRecord : h = head
            BY <1>0 DEF TypeOK
        <3>2. Promised(h)'
            BY <3>1, PromisedStays DEF BeliefOK
        <3> QED
            BY <2>1, <3>1, <3>2 DEF Promised
    <2>2. CASE head' # head
        <3>1. PICK e \in HeadRecord, n \in HeadRecord : n = head' /\ Renews(e, n)'
            BY <2>2, ChangesRenew
        <3> QED
            BY <3>1 DEF Renews, Promised
    <2> QED
        BY <2>1, <2>2
<1>2. ASSUME NEW w \in Instances PROVE Promised(cache[w])'
    <2>1. CASE cache'[w] = head'
        BY <1>1, <2>1 DEF Promised
    <2>2. CASE cache'[w] = cache[w] \/ cache'[w] = head
        <3>1. PICK h \in HeadRecord : h = cache'[w] /\ Promised(h)
            BY <1>0, <2>2 DEF BeliefOK, TypeOK
        <3>2. Promised(h)'
            BY <3>1, PromisedStays
        <3> QED
            BY <3>1, <3>2 DEF Promised
    <2>3. CASE Same(w) \/ cache' = cache
        BY <2>2, <2>3 DEF Same
    <2>4. ASSUME NEW v \in Instances, Moves(v) PROVE Promised(cache[w])'
        BY <1>0, <2>1, <2>2, <2>3, <2>4, SeesHeads, OthersKept
    <2> QED
        BY <2>3, <2>4, WhoMoves DEF StoreDelivers, leaseVars
<1> QED
    BY <1>1, <1>2

\* BeliefOK is inductive, given the rest of the invariant.
LEMMA BeliefStep ==
    ASSUME LInv, BeliefOK, [Next]_vars, SkewCovers
    PROVE  BeliefOK'
<1>1. Promised(head)' /\ \A w \in Instances : Promised(cache[w])'
    BY PromisesStep
<1>2. \A r \in late' : Renews(r.expect, r.next)'
    BY LateRenews
<1>3. ASSUME Unforced' PROVE \A w \in Instances : BelievesRightly(w)'
    <2>1. Unforced
        BY <1>3, ForcedStays DEF Unforced, LInv
    <2> QED
        BY <2>1, BelievesStep
<1> QED
    BY <1>1, <1>2, <1>3 DEF BeliefOK

\* Nobody holds the lease at first, so nothing was promised.
LEMMA InitBelief == Init => BeliefOK
<1> SUFFICES ASSUME Init PROVE BeliefOK
    OBVIOUS
<1> USE DEF Init, StoreInit
<1>1. head.inst = Nobody /\ Absent.inst = Nobody
    BY ColdAssumption DEF Released, WithLease, Absent
<1>2. Promised(head) /\ \A w \in Instances : Promised(cache[w])
    BY <1>1, NobodyAssumption DEF Promised
<1>3. \A w \in Instances : BelievesRightly(w)
    BY DEF BelievesRightly, Writing
<1> QED
    BY <1>2, <1>3 DEF BeliefOK

\* No two handles believe at once that they may write, unless an administrator
\* forced a takeover, when no two clocks differ by more than the skew allowance: a
\* handle that believes it is the writer is the one head.json names.
THEOREM AtMostOneBeliever == SkewCovers => (Spec /\ Unraced => []OneBeliever)
<1> SUFFICES ASSUME SkewCovers PROVE Spec /\ Unraced => []OneBeliever
    OBVIOUS
<1>1. Init => LInv /\ BeliefOK
    BY InitIInv, InitGrants, InitHolders, InitBelief DEF LInv
<1>2. LInv /\ BeliefOK /\ [Next]_vars /\ Undisturbed' => (LInv /\ BeliefOK)'
    BY IInvStep, GrantsStep, HoldersStep, BeliefStep DEF LInv
<1>3. LInv /\ BeliefOK => OneBeliever
    <2> SUFFICES ASSUME LInv, BeliefOK, Unforced,
                        NEW w \in Instances, Believes(w)
                 PROVE  head.inst = w
        BY DEF OneBeliever, Unforced
    <2>1. Until(w, deadline[w])
        BY DEF BeliefOK, BelievesRightly, Believes
    <2>2. deadline[w] \in Nat /\ Clock(w) \in Nat
        BY TypeOfClock DEF LInv, IInv, TypeOK
    <2> QED
        BY <2>1, <2>2 DEF Until, Believes, MayWrite, Lapsed
<1> QED
    BY <1>1, <1>2, <1>3, NobodyComesBetween, PTL DEF Spec

=============================================================================
