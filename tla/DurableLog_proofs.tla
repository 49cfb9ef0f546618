-------------------------- MODULE DurableLog_proofs --------------------------
(***************************************************************************)
(* Proofs about what DurableObject keeps: the watermark of every handle,   *)
(* and that what it told a caller is durable stays in what the head        *)
(* restores.  As in DurableObject_proofs, for any number of handles and    *)
(* any faults; a cold start included, unless another takes the object from *)
(* the open() that is creating it.                                         *)
(***************************************************************************)
EXTENDS DurableLease_proofs

------------------------------------------------------------------------------
(* A handle is given the lease at most once. *)

\* An open() that may still take the lease: about to ask for it, or about to read
\* what became of that.
Asking  == {"acquiring", "creating"}
Waiting == {"acquireReread", "created", "createReread"}
Taking  == {"new"} \union Asking \union Waiting

\* A handle that sends no more lease requests of its own.
Past == Phases \ (Taking \union {"openFailed", "crashed"})

\* The write that gives w the lease, and one w makes while it has it.
Claim(w, r)    == r.expect.inst # w /\ r.next.inst = w
OwnWrite(w, r) == r.expect.inst = w /\ r.next.inst = w

\* Generations only grow; a request for the lease that w left behind can no longer
\* be granted once another was, nor once w has what it asked for.
ClaimsOK(w) ==
    /\ cache[w].gen <= head.gen
    /\ phase[w] = "new" => head.inst # w /\ \A r \in late : r.next.inst # w
    /\ phase[w] \in Asking \union Waiting =>
         cache[w].inst # w /\ (head.inst = w => cache[w].gen < head.gen)
    /\ \A r \in late : Claim(w, r) /\ (head.inst = w \/ phase[w] \in Past)
                         => r.expect.gen < head.gen

ClaimsAreOld ==
    /\ \A r \in late : r.expect.gen <= head.gen
    /\ \A w \in Instances : ClaimsOK(w)

\* The invariant so far, with what it says of types.
GInv == IInv /\ GrantsOK /\ HoldersOK /\ ClaimsAreOld

\* The heads there are, stored, cached or on their way, are heads.
LEMMA HeadTypes ==
    ASSUME IInv
    PROVE  /\ head \in HeadRecord /\ head.gen \in Nat
           /\ \A w \in Instances : cache[w] \in HeadRecord /\ cache[w].gen \in Nat
           /\ \A r \in late : /\ r.expect \in HeadRecord /\ r.next \in HeadRecord
                              /\ r.expect.gen \in Nat /\ r.next.gen \in Nat
BY DEF IInv, TypeOK, HeadRecord

\* What a handle sends names it or nobody, is over what it last saw, and is a claim
\* only while it asks for the lease.
LEMMA SentInst ==
    ASSUME IInv, HoldersOK, NEW w \in Instances, NEW e, NEW n, Sends(w, e, n)
    PROVE  /\ n.inst \in {w, Nobody}
           /\ e = cache[w]
           /\ phase[w] \in Asking => Takes(w, e, n)
           /\ phase[w] \notin Asking => n.inst = e.inst \/ n.inst = Nobody
           /\ phase[w] \notin {"new", "restoring"} \union Waiting
<1>0. /\ JobOK /\ HolderOK(w)
    BY DEF IInv, HoldersOK
<1>1. e = cache[w]
    BY <1>0 DEF Sends, HolderOK, Creating
<1>2. CASE Takes(w, e, n)
    BY <1>1, <1>2 DEF Takes, Asking, Waiting
<1>3. CASE Gives(w, e, n)
    BY <1>0, <1>1, <1>3 DEF Gives, JobOK, Writing, Asking, Waiting
<1>4. CASE Extends(w, e, n)
    <2>1. /\ phase[w] \in {"confirming"} \union Writing \union Ended
          /\ e.inst \in {w, Nobody}
        BY <1>0, <1>1, <1>4 DEF Extends, JobOK, HolderOK, Holding
    <2> QED
        BY <1>1, <1>4, <2>1 DEF Extends, Writing, Ended, Asking, Waiting
<1>5. CASE Publishes(w, e, n)
    <2>1. phase[w] \in Writing /\ e.inst = w
        BY <1>0, <1>1, <1>5 DEF Publishes, HolderOK, Holding
    <2> QED
        BY <1>1, <1>5, <2>1 DEF Publishes, Writing, Asking, Waiting
<1> QED
    BY <1>2, <1>3, <1>4, <1>5, SendsKinds

\* Generations only grow.
LEMMA GenGrows ==
    ASSUME IInv, HoldersOK, [Next]_vars
    PROVE  head.gen \in Nat /\ head'.gen \in Nat /\ head.gen <= head'.gen
<1>1. head.gen \in Nat /\ head'.gen \in Nat
    <2>1. IInv'
        BY IInvStep
    <2> QED
        BY <2>1 DEF IInv, TypeOK, HeadRecord
<1> QED
    BY <1>1, ChangesAreCommits

\* A handle that comes to hold the lease does so under a new generation.
LEMMA ComesToHold ==
    ASSUME GInv, [Next]_vars, NEW w \in Instances, head'.inst = w, head.inst # w
    PROVE  /\ head'.gen = head.gen + 1
           /\ phase[w] \notin Past
<1> USE DEF GInv
<1>1. head'.gen = head.gen + 1
    BY ChangesAreGranted, NobodyAssumption DEF Granted
<1>2. CASE LateWriteArrives
    <2>1. PICK r \in late : r.expect = head /\ r.next = head'
        BY <1>2 DEF LateWriteArrives, Matches
    <2>2. Claim(w, r)
        BY <2>1 DEF Claim
    <2>3. ~(r.expect.gen < head.gen)
        BY <2>1, HeadTypes
    <2> QED
        BY <1>1, <2>2, <2>3 DEF ClaimsAreOld, ClaimsOK
<1>3. ASSUME NEW v \in Instances, NEW e, NEW n, Sent(v, e, n)
      PROVE  phase[w] \notin Past
    <2>1. Sends(v, e, n) /\ head = e /\ head' = n
        BY <1>3 DEF Sent
    <2>2. v = w
        BY <2>1, SentInst, NobodyAssumption
    <2>3. phase[w] \in Asking
        BY <2>1, <2>2, SentInst, NobodyAssumption
    <2> QED
        BY <2>3 DEF Past, Taking
<1> QED
    BY <1>1, <1>2, <1>3, HeadStep

\* The phases of Past, by name.
LEMMA PastNames ==
    /\ \A p : p \in Past => p \notin Taking
    /\ \A p \in Opening \union Reading \union Writing : p \notin Taking => p \in Past
    /\ {"closed", "closeFailed"} \subseteq Past
    /\ Writing \union {"restoring", "confirming", "unwinding", "unwindRelease"}
          \subseteq Past
    /\ Reading \subseteq Past
    /\ {"openFailed", "crashed"} \intersect Past = {}
BY DEF Past, Phases, Taking, Asking, Waiting, Opening, Reading, Writing, Ended

\* How an open() comes to ask for the lease, and what it knows when it is done.
LEMMA TakingMoves ==
    ASSUME GInv, NEW w \in Instances, Moves(w)
    PROVE  /\ phase'[w] # "new"
           /\ phase'[w] \in Asking \union Waiting =>
                \/ /\ phase[w] \in {"new"} \union Waiting /\ cache'[w] \in {head, Absent}
                   /\ UNCHANGED <<head, late>>
                   /\ phase[w] \in Waiting => head.inst # w
                \/ phase[w] \in Asking /\ cache'[w] = cache[w]
           /\ phase'[w] \in Past /\ phase[w] \notin Past =>
                \/ phase[w] = "new" /\ UNCHANGED <<head, late>>
                \/ phase[w] \in Waiting /\ head.inst = w /\ UNCHANGED <<head, late>>
                \/ phase[w] \in Asking /\ head'.inst = w
<1> USE DEF storeVars, leaseVars
<1>0. IInv /\ HoldersOK /\ TypeOK /\ JobOK /\ HolderOK(w) /\ Undisturbed
    BY DEF GInv, IInv, HoldersOK
<1>1. CASE Open(w) /\ ~Acquire(w) /\ ~Create(w) /\ ~CreatedReadsBack(w) /\ ~CreateReread(w)
    <2>1. CASE OpenFindsObject(w) \/ OpenFindsNothing(w) \/ OpenReadOnly(w)
        <3>1. /\ phase[w] = "new" /\ cache'[w] \in {head, Absent} /\ UNCHANGED <<head, late>>
              /\ phase'[w] \in {"acquiring", "creating", "snapshotting"}
            BY <1>0, <2>1 DEF OpenFindsObject, OpenFindsNothing, OpenReadOnly, HolderOK, TypeOK,
                Go, See
        <3> QED
            BY <3>1 DEF Waiting
    <2>2. CASE OpenCannotReadHead(w) \/ AcquireRefused(w)
        <3>1. phase'[w] = "openFailed"
            BY <1>0, <2>2 DEF OpenCannotReadHead, AcquireRefused, TypeOK, Go
        <3> QED
            BY <3>1, PastNames DEF Asking, Waiting
    <2>3. CASE AcquireReread(w)
        <3>1. /\ phase[w] = "acquireReread" /\ UNCHANGED <<head, late>>
              /\ \/ head.inst = w /\ phase'[w] = "restoring"
                 \/ /\ head.inst # w /\ phase'[w] \in {"openFailed", "acquiring"}
                    /\ phase'[w] = "acquiring" => cache'[w] = head
            BY <1>0, <2>3 DEF AcquireReread, TypeOK, Go, See
        <3> QED
            BY <3>1, PastNames DEF Taking, Asking, Waiting
    <2>4. CASE Restore(w) \/ RestoreSnapshot(w) \/ RestoreFails(w) \/ UnwindReadsHead(w)
               \/ UnwindReleases(w)
        <3>1. /\ phase[w] \in {"restoring", "unwinding", "unwindRelease", "snapshotting"}
              /\ phase'[w] \in {"confirming", "readonly", "unwinding", "openFailed",
                                "unwindRelease"}
            BY <1>0, <2>4 DEF Restore, RestoreSnapshot, RestoreFails, UnwindReadsHead,
                UnwindReleases, TypeOK, Go
        <3>2. phase[w] \in Past
            BY <3>1, PastNames DEF Reading
        <3> QED
            BY <3>1, <3>2 DEF Asking, Waiting
    <2> QED
        BY <1>1, <2>1, <2>2, <2>3, <2>4 DEF Open
<1>6. CASE CreatedReadsBack(w) \/ CreateReread(w)
    BY <1>0, <1>6 DEF TypeOK, CreatedReadsBack, CreateReread, Undisturbed, Go, See, Past,
        Phases, Taking, Asking, Waiting
<1>7. CASE Create(w)
    <2>1. /\ phase[w] = "creating" /\ UNCHANGED cache
          /\ phase'[w] \in {"created", "createReread", "openFailed"}
        BY <1>0, <1>7 DEF TypeOK, Create, Go
    <2> QED
        BY <2>1 DEF Past, Taking, Asking, Waiting
<1>2. CASE Acquire(w)
    <2>1. PICK answer \in Answers :
            /\ HeadWrite(cache[w], Acquired(w, cache[w]), answer)
            /\ IF answer = "replaced" THEN See(w, Acquired(w, cache[w])) ELSE UNCHANGED cache
            /\ Go(w, CASE answer = "replaced" -> "restoring"
                       [] answer = "error"    -> "openFailed"
                       [] OTHER               -> "acquireReread")
        BY <1>2 DEF Acquire
    <2>2. phase[w] = "acquiring" /\ Sends(w, cache[w], Acquired(w, cache[w]))
        BY <1>2 DEF Acquire, Sends
    <2>3. Acquired(w, cache[w]).inst = w
        BY <1>0, <2>2, SentInst DEF GInv, Takes, Asking
    <2>4. CASE answer = "replaced"
        BY <1>0, <2>1, <2>2, <2>3, <2>4 DEF TypeOK, HeadWrite, Go, Asking, Waiting
    <2>5. CASE answer = "error"
        BY <1>0, <2>1, <2>2, <2>5 DEF TypeOK, Go, Past, Taking, Asking, Waiting
    <2>6. CASE answer \notin {"replaced", "error"}
        BY <1>0, <2>1, <2>2, <2>6 DEF TypeOK, Go, Past, Taking, Asking, Waiting
    <2> QED
        BY <2>4, <2>5, <2>6
<1>3. CASE Operate(w)
    <2>1. phase[w] \in {"confirming"} \union Writing
        BY <1>0, <1>3 DEF Operate, SelfFence, Execute, StartFlush, StartCheckpoint, Uploaded,
            UploadedTooLate, UploadFails, Ready, Uploading, JobOK, Writing
    <2>2. phase'[w] \in {phase[w], "closeFailed", "unwinding"}
        BY <1>0, <1>3, FailJobEffect DEF Operate, SelfFence, Execute, StartFlush,
            StartCheckpoint, Uploaded, UploadedTooLate, UploadFails
    <2>3. phase[w] \in Past /\ phase'[w] \in Past
        BY <2>1, <2>2, PastNames
    <2> QED
        BY <2>3, PastNames DEF Taking, Asking, Waiting
<1>4. CASE Close(w) \/ HeartbeatFires(w) \/ Crash(w)
    <2>1. /\ phase[w] \in Past \/ phase'[w] = "crashed"
          /\ phase'[w] \in Past \union {"crashed"}
        BY <1>0, <1>4, PastNames DEF TypeOK, Close, CloseStarts, CloseFenced, CloseFlushes,
            CloseLapsed, CloseReleases, CloseReader, Drained, HeartbeatFires, Crash, Go,
            Reading, Writing
    <2>2. phase'[w] \notin Taking
        BY <2>1, PastNames DEF Taking, Asking, Waiting
    <2> QED
        BY <2>1, <2>2, PastNames DEF Taking
<1>5. ASSUME NEW t \in Threads, Commit(w, t)
      PROVE  /\ phase'[w] \notin Taking
             /\ phase'[w] \in Past => phase[w] \in Past
    <2>1. CASE t = "hb"
        <3>1. phase'[w] = phase[w] /\ at[w]["hb"] # "idle"
            BY <1>0, <1>5, <2>1, CommitMoves
        <3> QED
            BY <1>0, <3>1 DEF HolderOK, Writing, Ended, Taking, Asking, Waiting
    <2>2. CASE t = "op"
        <3>1. /\ phase[w] \in {"confirming"} \union Writing
              /\ phase'[w] \in {phase[w], "closed", "open", Failed(w)}
            BY <1>0, <1>5, <2>2, CommitMoves
        <3>2. Failed(w) \in {phase[w], "closeFailed", "unwinding"}
            BY DEF Failed
        <3> QED
            BY <3>1, <3>2 DEF Past, Phases, Taking, Asking, Waiting, Opening, Writing, Ended
    <2> QED
        BY <2>1, <2>2 DEF Threads
<1> QED
    BY <1>1, <1>2, <1>3, <1>4, <1>5, <1>6, <1>7 DEF Moves, Taking

\* Nobody writes a head in the name of a handle that has not begun to open.
LEMMA NewIsUnnamed ==
    ASSUME GInv, [Next]_vars, NEW w \in Instances, phase[w] = "new"
    PROVE  head'.inst # w /\ \A r \in late' : r.next.inst # w
<1> USE DEF GInv
<1>0. head.inst # w /\ \A r \in late : r.next.inst # w
    BY DEF ClaimsAreOld, ClaimsOK
<1>1. CASE LateWriteArrives
    BY <1>0, <1>1 DEF LateWriteArrives
<1>2. ASSUME NEW v \in Instances, NEW e, NEW n, Sent(v, e, n)
      PROVE  head'.inst # w /\ \A r \in late' : r.next.inst # w
    <2>1. n.inst # w
        BY <1>2, SentInst, NobodyAssumption DEF Sent
    <2>2. Write(e, n).next = n
        BY DEF Write
    <2> QED
        BY <1>0, <1>2, <2>1, <2>2 DEF Sent
<1> QED
    BY <1>0, <1>1, <1>2, HeadStep

\* ClaimsOK is kept by every step.
LEMMA ClaimsStep ==
    ASSUME GInv, [Next]_vars
    PROVE  ClaimsAreOld'
<1>0. /\ IInv /\ HoldersOK /\ GrantsOK /\ ClaimsAreOld /\ IInv'
      /\ \A w \in Instances : ClaimsOK(w)
    BY IInvStep DEF GInv, ClaimsAreOld
<1>1. /\ head.gen \in Nat /\ head'.gen \in Nat /\ head.gen <= head'.gen
      /\ \A w \in Instances : cache[w].gen \in Nat /\ cache'[w].gen \in Nat
      /\ \A r \in late' : r.expect.gen \in Nat
    <2>1. /\ \A w \in Instances : cache'[w] \in HeadRecord
          /\ \A r \in late' : r.expect \in HeadRecord
        BY <1>0 DEF IInv, TypeOK
    <2> QED
        BY <1>0, <2>1, HeadTypes, GenGrows DEF HeadRecord
<1>2. ASSUME NEW w \in Instances PROVE cache'[w].gen <= head'.gen
    <2>1. cache[w].gen <= head.gen
        BY <1>0 DEF ClaimsOK
    <2>2. cache'[w] = cache[w] \/ cache'[w] = head \/ cache'[w] = head'
        BY <1>0, SeesHeads, OthersKept, WhoMoves DEF Same, StoreDelivers, leaseVars
    <2> QED
        BY <1>1, <2>1, <2>2
<1>3. ASSUME NEW r \in late', r \notin late
      PROVE  /\ r.expect.gen <= head.gen
             /\ \A w \in Instances : Claim(w, r) =>
                  phase[w] \in Asking /\ r.expect = cache[w] /\ Moves(w)
    <2>1. PICK v \in Instances : Moves(v) /\ \E e, n : Sent(v, e, n)
        BY <1>0, <1>3, HeadStep DEF LateWriteArrives
    <2>2. PICK e, n : Sends(v, e, n) /\ r = Write(e, n)
        BY <1>3, <2>1 DEF Sent
    <2>3. r.expect = e /\ r.next = n
        BY <2>2 DEF Write
    <2>4. e = cache[v] /\ e.gen <= head.gen
        BY <1>0, <2>2, SentInst DEF ClaimsOK
    <2>5. ASSUME NEW w \in Instances, Claim(w, r)
          PROVE  phase[w] \in Asking /\ v = w
        BY <1>0, <2>2, <2>3, <2>5, SentInst, NobodyAssumption DEF Claim
    <2> QED
        BY <2>1, <2>3, <2>4, <2>5
<1>4. ASSUME NEW r \in late' PROVE r.expect.gen <= head'.gen
    <2>1. r.expect.gen <= head.gen /\ r.expect.gen \in Nat
        BY <1>0, <1>1, <1>3, <1>4 DEF ClaimsAreOld
    <2> QED
        BY <1>1, <2>1
<1>5. ASSUME NEW w \in Instances, phase'[w] = "new"
      PROVE  head'.inst # w /\ \A r \in late' : r.next.inst # w
    <2>1. phase[w] = "new"
        BY <1>0, <1>5, TakingMoves, OthersKept, WhoMoves DEF Same, StoreDelivers, leaseVars
    <2> QED
        BY <2>1, NewIsUnnamed
<1>6. ASSUME NEW w \in Instances, phase'[w] \in Asking \union Waiting
      PROVE  cache'[w].inst # w /\ (head'.inst = w => cache'[w].gen < head'.gen)
    <2>1. CASE /\ phase[w] \in {"new"} \union Waiting /\ cache'[w] \in {head, Absent}
               /\ UNCHANGED <<head, late>>
               /\ phase[w] \in Waiting => head.inst # w
        BY <1>0, <2>1, NobodyAssumption DEF ClaimsOK, Absent
    <2>2. CASE phase[w] \in Asking \union Waiting /\ cache'[w] = cache[w]
        <3>1. cache[w].inst # w /\ (head.inst = w => cache[w].gen < head.gen)
              /\ cache[w].gen <= head.gen
            BY <1>0, <2>2 DEF ClaimsOK
        <3>2. head'.inst = w /\ head.inst # w => head'.gen = head.gen + 1
            BY ComesToHold
        <3> QED
            BY <1>1, <2>2, <3>1, <3>2
    <2> QED
        BY <1>0, <1>6, <2>1, <2>2, TakingMoves, OthersKept, WhoMoves
        DEF Same, StoreDelivers, leaseVars
<1>7. ASSUME NEW w \in Instances, NEW r \in late', Claim(w, r),
             head'.inst = w \/ phase'[w] \in Past
      PROVE  r.expect.gen < head'.gen
    <2>1. r.expect.gen <= head.gen /\ r.expect.gen \in Nat
        BY <1>0, <1>1, <1>3, <1>7 DEF ClaimsAreOld
    <2>2. CASE head'.inst = w /\ head.inst # w
        BY <1>1, <2>1, <2>2, ComesToHold
    <2>3. ASSUME head'.inst # w, phase[w] \notin Past PROVE r \in late /\ FALSE
        <3>1. Moves(w)
            BY <1>0, <1>7, <2>3, OthersKept, WhoMoves DEF Same, StoreDelivers, leaseVars
        <3>2. \/ phase[w] = "new" /\ UNCHANGED <<head, late>>
              \/ phase[w] \in Waiting /\ head.inst = w /\ UNCHANGED <<head, late>>
            BY <1>7, <2>3, <3>1, TakingMoves
        <3> QED
            BY <1>0, <1>7, <2>3, <3>2 DEF Claim, ClaimsOK
    <2>4. CASE r \in late
        BY <1>0, <1>1, <1>7, <2>1, <2>2, <2>3, <2>4 DEF ClaimsOK
    <2>5. CASE r \notin late
        <3>1. phase[w] \in Asking /\ r.expect = cache[w]
            BY <1>3, <1>7, <2>5
        <3>2. phase[w] \notin Past
            BY <3>1 DEF Past, Taking
        <3>3. head.inst = w \/ r.expect.gen < head'.gen
            BY <2>2, <2>3, <3>2
        <3> QED
            BY <1>0, <1>1, <3>1, <3>3 DEF ClaimsOK
    <2> QED
        BY <2>4, <2>5
<1> QED
    BY <1>2, <1>4, <1>5, <1>6, <1>7 DEF ClaimsAreOld, ClaimsOK

------------------------------------------------------------------------------
(* What a manifest restores. *)

Of(q) == {q[i] : i \in DOMAIN q}

\* The statements restoreInto() of a manifest executes, in whatever order.
Restored(h) == Of(BaseContent(h)) \union {content[l.key][l.line] : l \in Of(h.wal)}

\* A manifest names a segment with all its lines or not at all.
Whole(h) ==
    \A l \in Of(h.wal) : \A i \in DOMAIN content[l.key] :
        [key |-> l.key, line |-> i] \in Of(h.wal)

\* The members of a concatenation.
LEMMA OfConcat ==
    ASSUME NEW S, NEW p \in Seq(S), NEW q \in Seq(S)
    PROVE  Of(p \o q) = Of(p) \union Of(q)
<1>1. /\ DOMAIN (p \o q) = 1 .. Len(p) + Len(q)
      /\ Len(p) \in Nat /\ Len(q) \in Nat
      /\ DOMAIN p = 1 .. Len(p) /\ DOMAIN q = 1 .. Len(q)
      /\ \A l \in 1 .. Len(p) + Len(q) :
            (p \o q)[l] = IF l <= Len(p) THEN p[l] ELSE q[l - Len(p)]
    BY ConcatProperties, LenProperties
<1>2. ASSUME NEW x \in Of(p \o q) PROVE x \in Of(p) \union Of(q)
    <2>1. PICK i \in 1 .. Len(p) + Len(q) : x = (p \o q)[i]
        BY <1>1, <1>2 DEF Of
    <2>2. CASE i <= Len(p)
        BY <1>1, <2>1, <2>2 DEF Of
    <2>3. CASE i > Len(p)
        <3>1. i - Len(p) \in 1 .. Len(q) /\ x = q[i - Len(p)]
            BY <1>1, <2>1, <2>3
        <3> QED
            BY <1>1, <3>1 DEF Of
    <2> QED
        BY <1>1, <2>1, <2>2, <2>3
<1>3. ASSUME NEW x \in Of(p) PROVE x \in Of(p \o q)
    <2>1. PICK i \in 1 .. Len(p) : x = p[i]
        BY <1>1, <1>3 DEF Of
    <2>2. i \in 1 .. Len(p) + Len(q) /\ x = (p \o q)[i]
        BY <1>1, <2>1
    <2> QED
        BY <1>1, <2>2 DEF Of
<1>4. ASSUME NEW x \in Of(q) PROVE x \in Of(p \o q)
    <2>1. PICK i \in 1 .. Len(q) : x = q[i]
        BY <1>1, <1>4 DEF Of
    <2>2. i + Len(p) \in 1 .. Len(p) + Len(q) /\ x = (p \o q)[i + Len(p)]
        BY <1>1, <2>1
    <2> QED
        BY <1>1, <2>2 DEF Of
<1> QED
    BY <1>2, <1>3, <1>4

\* restoreInto() executes exactly the statements of Restored.
LEMMA OfReplay ==
    ASSUME TypeOK, NEW h \in HeadRecord, RefsPresent(h)
    PROVE  Of(Replay(h)) = Restored(h)
<1> DEFINE tail == [i \in 1 .. Len(h.wal) |-> content[h.wal[i].key][h.wal[i].line]]
<1>1. BaseContent(h) \in Seq(Statement)
    BY DEF BaseContent, RefsPresent, TypeOK
<1>2. Len(h.wal) \in Nat /\ DOMAIN h.wal = 1 .. Len(h.wal)
    BY DEF HeadRecord
<1>3. ASSUME NEW i \in 1 .. Len(h.wal)
      PROVE  content[h.wal[i].key][h.wal[i].line] \in Statement
    <2>1. /\ h.wal[i].key \in Key
          /\ h.wal[i].line \in DOMAIN content[h.wal[i].key]
        BY <1>2 DEF RefsPresent, TypeOK
    <2>2. content[h.wal[i].key] \in Seq(Statement)
        BY <2>1 DEF TypeOK
    <2> QED
        BY <2>1, <2>2
<1>4. tail \in Seq(Statement)
    BY <1>2, <1>3
<1>5. Of(tail) = {content[l.key][l.line] : l \in Of(h.wal)}
    BY <1>2 DEF Of
<1> HIDE DEF tail
<1>6. Of(BaseContent(h) \o tail) = Of(BaseContent(h)) \union Of(tail)
    BY <1>1, <1>4, OfConcat
<1> QED
    BY <1>5, <1>6 DEF Replay, Restored, tail

\* RefsPresent, of the lines instead of their places.
LEMMA RefsOfLines ==
    ASSUME NEW h, RefsPresent(h), NEW l \in Of(h.wal)
    PROVE  l.key \in published /\ l.line \in DOMAIN content[l.key]
BY DEF RefsPresent, Of

\* The lines a flush adds, the statements they restore, and that they are whole.
LEMMA FlushAdds ==
    ASSUME TypeOK, NEW h \in HeadRecord, RefsPresent(h), NEW k \in Key, k \in published,
           NEW n, n.base = h.base, n.wal = h.wal \o Lines(k)
    PROVE  /\ Restored(n) = Restored(h) \union Of(content[k])
           /\ RefsPresent(n)
           /\ Whole(h) => Whole(n)
           /\ \A i \in DOMAIN content[k] : [key |-> k, line |-> i] \in Of(n.wal)
<1>1. /\ h.wal \in Seq(Line) /\ Lines(k) \in Seq(Line)
      /\ content[k] \in Seq(Statement) /\ DOMAIN content[k] = 1 .. Len(content[k])
    <2>1. content[k] \in Seq(Statement)
        BY DEF TypeOK
    <2> QED
        BY <2>1, TypeOfLines, LenProperties DEF HeadRecord
<1>2. Of(n.wal) = Of(h.wal) \union Of(Lines(k))
    BY <1>1, OfConcat
<1>a. /\ DOMAIN Lines(k) = DOMAIN content[k]
      /\ \A i \in DOMAIN content[k] :
            /\ Lines(k)[i] = [key |-> k, line |-> i]
            /\ Lines(k)[i].key = k /\ Lines(k)[i].line = i
    <2>1. DOMAIN Lines(k) = 1 .. Len(content[k])
        BY DEF Lines
    <2>2. \A i \in 1 .. Len(content[k]) : Lines(k)[i] = [key |-> k, line |-> i]
        BY DEF Lines
    <2>3. \A i \in 1 .. Len(content[k]) : Lines(k)[i].key = k /\ Lines(k)[i].line = i
        BY DEF Lines
    <2> QED
        BY <1>1, <2>1, <2>2, <2>3
<1>3. Of(Lines(k)) = {[key |-> k, line |-> i] : i \in DOMAIN content[k]}
    BY <1>a DEF Of
<1>4. ASSUME NEW l \in Of(Lines(k)) PROVE l.key = k /\ l.line \in DOMAIN content[k]
    <2>1. PICK i \in DOMAIN content[k] : l = [key |-> k, line |-> i]
        BY <1>3
    <2> QED
        BY <2>1
<1>5. Restored(n) = Restored(h) \union Of(content[k])
    <2>1. BaseContent(n) = BaseContent(h)
        BY DEF BaseContent
    <2>2. {content[l.key][l.line] : l \in Of(Lines(k))} = Of(content[k])
        <3>1. ASSUME NEW l \in Of(Lines(k)) PROVE content[l.key][l.line] \in Of(content[k])
            BY <1>4, <3>1 DEF Of
        <3>2. ASSUME NEW s \in Of(content[k])
              PROVE  \E l \in Of(Lines(k)) : s = content[l.key][l.line]
            <4>1. PICK i \in DOMAIN content[k] : s = content[k][i]
                BY <3>2 DEF Of
            <4>2. Lines(k)[i] \in Of(Lines(k))
                BY <1>a DEF Of
            <4> QED
                BY <1>a, <4>1, <4>2
        <3> QED
            BY <3>1, <3>2
    <2> QED
        BY <1>2, <2>1, <2>2 DEF Restored
<1>6. RefsPresent(n)
    <2>1. ASSUME NEW l \in Of(n.wal)
          PROVE  l.key \in published /\ l.line \in DOMAIN content[l.key]
        <3>1. CASE l \in Of(h.wal)
            BY <3>1, RefsOfLines
        <3>2. CASE l \in Of(Lines(k))
            BY <1>4, <3>2
        <3> QED
            BY <1>2, <3>1, <3>2
    <2>2. n.base = NoBase \/ n.base \in published
        BY DEF RefsPresent
    <2> QED
        BY <2>1, <2>2 DEF RefsPresent, Of
<1>7. Whole(h) => Whole(n)
    BY <1>2, <1>3, <1>4 DEF Whole
<1> QED
    BY <1>2, <1>3, <1>5, <1>6, <1>7

\* A write that keeps the manifest restores the same.
LEMMA SameRestored ==
    ASSUME NEW e, NEW n, SameManifest(e, n)
    PROVE  /\ Restored(n) = Restored(e)
           /\ RefsPresent(e) => RefsPresent(n)
           /\ Whole(e) => Whole(n)
BY DEF SameManifest, Restored, BaseContent, RefsPresent, Whole

\* An object once published stays, with what it holds: an upload goes under a key
\* nothing was published under.
LEMMA ContentKept ==
    ASSUME IInv, [Next]_vars, NEW k \in published
    PROVE  k \in published' /\ content'[k] = content[k]
<1> USE DEF storeVars
<1>0. TypeOK /\ KeyOK
    BY DEF IInv
<1>1. ASSUME NEW w \in Instances, Uploading(w), Publish(key[w], Payload(w))
      PROVE  k \in published' /\ content'[k] = content[k]
    BY <1>0, <1>1 DEF KeyOK, UploadKeyOK, Uploading, Publish, TypeOK
<1>2. ASSUME NEW w \in Instances, Operate(w) PROVE k \in published' /\ content'[k] = content[k]
    BY <1>1, <1>2 DEF Operate, SelfFence, Execute, StartFlush, StartCheckpoint, Uploaded,
        UploadedTooLate, UploadFails
<1>3. ASSUME NEW w \in Instances, Open(w) PROVE UNCHANGED <<published, content>>
    BY <1>3, WriteEffect DEF Open, OpenFindsObject, OpenFindsNothing, OpenReadOnly,
        OpenCannotReadHead, Create, CreatedReadsBack, CreateReread, AcquireRefused, Acquire,
        AcquireReread, Restore, RestoreSnapshot, RestoreFails, UnwindReadsHead, UnwindReleases
<1>4. ASSUME NEW w \in Instances, Close(w) \/ HeartbeatFires(w) \/ Crash(w)
      PROVE  UNCHANGED <<published, content>>
    BY <1>4 DEF Close, CloseStarts, CloseFenced, CloseFlushes, CloseLapsed, CloseReleases,
        CloseReader, HeartbeatFires, Crash
<1>5. ASSUME NEW w \in Instances, NEW t \in Threads, Commit(w, t)
      PROVE  UNCHANGED <<published, content>>
    BY <1>5, WriteEffect DEF Commit, CommitReplaced, CommitUnsettled, CommitErrors,
        RereadSettles, RereadFenced, RereadRetries, RereadGivesUp, RereadErrors
<1>6. CASE StoreDelivers \/ Tick \/ UNCHANGED vars
    BY <1>6 DEF StoreDelivers, LateWriteArrives, Tick, vars
<1> QED
    BY <1>2, <1>3, <1>4, <1>5, <1>6 DEF Next

\* So a head restores after any step what it restored before.
LEMMA RestoredKept ==
    ASSUME IInv, [Next]_vars, NEW h \in HeadRecord, RefsPresent(h)
    PROVE  /\ RefsPresent(h)' /\ Restored(h)' = Restored(h)
           /\ Whole(h) => Whole(h)'
<1>1. /\ h.base # NoBase => h.base \in published
      /\ \A l \in Of(h.wal) : l.key \in published
      /\ \A i \in DOMAIN h.wal : h.wal[i].key \in published
    BY RefsOfLines DEF RefsPresent
<1>2. \A k \in published : k \in published' /\ content'[k] = content[k]
    BY ContentKept
<1>3. RefsPresent(h)'
    BY <1>1, <1>2 DEF RefsPresent
<1>4. Restored(h)' = Restored(h)
    <2>1. BaseContent(h)' = BaseContent(h)
        BY <1>1, <1>2 DEF BaseContent
    <2>2. {content'[l.key][l.line] : l \in Of(h.wal)} = {content[l.key][l.line] : l \in Of(h.wal)}
        BY <1>1, <1>2
    <2> QED
        BY <2>1, <2>2 DEF Restored, Of
<1>5. Whole(h) => Whole(h)'
    BY <1>1, <1>2 DEF Whole, Of
<1> QED
    BY <1>3, <1>4, <1>5

------------------------------------------------------------------------------
(* The invariant. *)

\* Every head write, answered or not, keeps what the head it replaces restores.
Grows(e, n) ==
    /\ RefsPresent(e) /\ RefsPresent(n)
    /\ Restored(e) \subseteq Restored(n)
    /\ Whole(n)

HeadsOK ==
    /\ Whole(head)
    /\ \A w \in Instances : Whole(cache[w])
    /\ \A r \in late : Grows(r.expect, r.next)

\* From the lease on, until close() or a failure.
Serving == {"restoring", "confirming"} \union Writing

\* What a handle has in its database, or is about to.
Known(w) == IF phase[w] = "restoring" THEN Restored(cache[w]) ELSE Of(local[w])

\* While w holds the lease nothing is in the head, or on its way into it, that w
\* does not have: its next checkpoint loses nothing.
KnownOK(w) ==
    /\ phase[w] \in Serving =>
         /\ head.inst = w => Restored(head) \subseteq Known(w)
         /\ Restored(cache[w]) \subseteq Known(w)
         /\ \A r \in late : OwnWrite(w, r) => Restored(r.next) \subseteq Known(w)
    /\ phase[w] \in Taking \union {"restoring"} => \A r \in late : ~OwnWrite(w, r)

Nth(w, n) == [inst |-> w, n |-> n]

\* The watermark: what is executed is committed, or next in the buffer, and in the
\* database; what the running operation uploaded is what it took.
CountOK(w) ==
    /\ phase[w] \notin Ended =>
         /\ executed[w] = committed[w] + Len(buffer[w])
         /\ \A i \in DOMAIN buffer[w] : buffer[w][i] = Nth(w, committed[w] + i)
    /\ phase[w] \notin Writing \union Ended => executed[w] = 0
    /\ phase[w] \in Writing => \A n \in 1 .. executed[w] : Nth(w, n) \in Of(local[w])
    /\ at[w]["op"] \in {"commit", "reread"} =>
         /\ job[w] = "flush" => content[key[w]] = buffer[w]
         /\ job[w] = "checkpoint" => content[key[w]] = local[w]

\* What w was told is durable is in the head.
AckedOK(w) == \A n \in 1 .. committed[w] : Nth(w, n) \in Restored(head)

LogInv ==
    /\ GInv
    /\ HeadsOK
    /\ \A w \in Instances : KnownOK(w) /\ CountOK(w) /\ AckedOK(w)

\* What waits in the buffer was executed.
LEMMA BufferIsLocal ==
    ASSUME LogInv, NEW w \in Instances, phase[w] \in Writing
    PROVE  Of(buffer[w]) \subseteq Of(local[w])
<1>0. /\ CountOK(w) /\ phase[w] \notin Ended
      /\ buffer[w] \in Seq(Statement) /\ executed[w] \in Nat /\ committed[w] \in Nat
    BY DEF LogInv, GInv, IInv, TypeOK, Writing, Ended
<1>1. Len(buffer[w]) \in Nat /\ DOMAIN buffer[w] = 1 .. Len(buffer[w])
    BY <1>0, LenProperties
<1>2. ASSUME NEW i \in DOMAIN buffer[w] PROVE buffer[w][i] \in Of(local[w])
    <2>1. committed[w] + i \in 1 .. executed[w] /\ buffer[w][i] = Nth(w, committed[w] + i)
        BY <1>0, <1>1 DEF CountOK
    <2> QED
        BY <1>0, <2>1 DEF CountOK
<1> QED
    BY <1>2 DEF Of

\* What a handle sends keeps what the head restores, and is nothing it does not have.
LEMMA SentGrows ==
    ASSUME LogInv, NEW w \in Instances, NEW e, NEW n, Sends(w, e, n)
    PROVE  /\ Grows(e, n)
           /\ phase[w] \in Serving => Restored(n) \subseteq Known(w)
<1>0. /\ IInv /\ HoldersOK /\ HolderOK(w) /\ TypeOK /\ KeyOK /\ KnownOK(w) /\ CountOK(w)
      /\ RefsPresent(cache[w]) /\ Whole(cache[w]) /\ cache[w] \in HeadRecord
    BY DEF LogInv, GInv, HeadsOK, IInv, HoldersOK, NothingNamedIsMissing, TypeOK
<1>1. e = cache[w]
    BY <1>0, SentInst
<1>2. CASE SameManifest(e, n)
    BY <1>0, <1>1, <1>2, SameRestored DEF Grows, KnownOK
<1>3. CASE Publishes(w, e, n)
    <2>1. /\ phase[w] \in Writing /\ phase[w] \in Serving /\ Known(w) = Of(local[w])
          /\ key[w] \in Key /\ key[w] \in published
        BY <1>0, <1>3 DEF Publishes, HolderOK, KeyOK, CommitKeyOK, Known, Serving, Writing
    <2>2. Restored(e) \subseteq Of(local[w])
        BY <1>0, <1>1, <2>1 DEF KnownOK
    <2>3. CASE job[w] = "flush"
        <3>1. n.base = e.base /\ n.wal = e.wal \o Lines(key[w])
            BY <1>3, <2>3 DEF Publishes
        <3>2. /\ Restored(n) = Restored(e) \union Of(content[key[w]])
              /\ RefsPresent(n) /\ Whole(n)
            BY <1>0, <1>1, <2>1, <3>1, FlushAdds
        <3>3. Of(content[key[w]]) \subseteq Of(local[w])
            BY <1>0, <1>3, <2>1, <2>3, BufferIsLocal DEF CountOK, Publishes
        <3> QED
            BY <1>0, <1>1, <2>1, <2>2, <3>2, <3>3 DEF Grows
    <2>4. CASE job[w] = "checkpoint"
        <3>1. n.base = key[w] /\ n.wal = <<>> /\ content[key[w]] = local[w]
            BY <1>0, <1>3, <2>4 DEF Publishes, CountOK
        <3>2. Of(n.wal) = {} /\ n.base # NoBase
            BY <2>1, <3>1, NoBaseAssumption DEF Of
        <3>3. Restored(n) = Of(local[w])
            BY <3>1, <3>2 DEF Restored, BaseContent
        <3>4. RefsPresent(n) /\ Whole(n)
            BY <2>1, <3>1, <3>2 DEF RefsPresent, Whole
        <3> QED
            BY <1>0, <1>1, <2>1, <2>2, <3>3, <3>4 DEF Grows
    <2> QED
        BY <1>3, <2>3, <2>4 DEF Publishes
<1> QED
    BY <1>0, <1>2, <1>3, SendsKinds DEF Takes, Gives, Extends

\* Grows is kept: what a head names never changes.
LEMMA GrowsKept ==
    ASSUME IInv, [Next]_vars, NEW e \in HeadRecord, NEW n \in HeadRecord, Grows(e, n)
    PROVE  Grows(e, n)'
BY RestoredKept DEF Grows

\* Every head write keeps what was there, also one that arrives late.
LEMMA HeadGrows ==
    ASSUME LogInv, [Next]_vars
    PROVE  /\ RefsPresent(head) /\ RefsPresent(head)' /\ head \in HeadRecord
           /\ Restored(head) \subseteq Restored(head)'
           /\ Whole(head)'
           /\ \A r \in late' : Grows(r.expect, r.next)'
<1>0. /\ IInv /\ TypeOK /\ head \in HeadRecord /\ RefsPresent(head) /\ Whole(head)
      /\ \A r \in late : r.expect \in HeadRecord /\ r.next \in HeadRecord
                         /\ Grows(r.expect, r.next)
    BY HeadTypes DEF LogInv, GInv, IInv, NothingNamedIsMissing, HeadsOK
<1>1. ASSUME NEW h \in HeadRecord, head' = h, RefsPresent(h), Whole(h),
             Restored(head) \subseteq Restored(h)
      PROVE  /\ RefsPresent(head)' /\ Whole(head)'
             /\ Restored(head) \subseteq Restored(head)'
    <2>1. RefsPresent(h)' /\ Restored(h)' = Restored(h) /\ Whole(h)'
        BY <1>0, <1>1, RestoredKept
    <2> QED
        BY <1>1, <2>1 DEF RefsPresent, Restored, Whole, BaseContent
<1>2. \A r \in late : Grows(r.expect, r.next)'
    BY <1>0, GrowsKept
<1>3. CASE UNCHANGED <<head, late>>
    BY <1>0, <1>1, <1>2, <1>3
<1>4. CASE LateWriteArrives
    <2>1. \/ head' = head
          \/ \E r \in late : r.expect = head /\ r.next = head'
        BY <1>4 DEF LateWriteArrives, Matches
    <2>2. /\ RefsPresent(head)' /\ Whole(head)' /\ Restored(head) \subseteq Restored(head)'
        BY <1>0, <1>1, <2>1 DEF Grows
    <2> QED
        BY <1>0, <1>2, <1>4, <2>2 DEF LateWriteArrives
<1>5. ASSUME NEW w \in Instances, NEW e, NEW n, Sent(w, e, n)
      PROVE  /\ RefsPresent(head)' /\ Whole(head)' /\ Restored(head) \subseteq Restored(head)'
             /\ \A r \in late' : Grows(r.expect, r.next)'
    <2>1. /\ e \in HeadRecord /\ n \in HeadRecord /\ Grows(e, n)
          /\ Write(e, n).expect = e /\ Write(e, n).next = n
        BY <1>0, <1>5, SentGrows, SendsTypes DEF Sent
    <2>2. Grows(e, n)'
        BY <1>0, <2>1, GrowsKept
    <2>3. /\ RefsPresent(head)' /\ Whole(head)' /\ Restored(head) \subseteq Restored(head)'
        BY <1>0, <1>1, <1>5, <2>1 DEF Sent, Grows
    <2> QED
        BY <1>2, <1>5, <2>1, <2>2, <2>3 DEF Sent
<1> QED
    BY <1>0, <1>3, <1>4, <1>5, HeadStep

\* HeadsOK is kept.
LEMMA HeadsStep ==
    ASSUME LogInv, [Next]_vars
    PROVE  HeadsOK'
<1>0. /\ IInv /\ HeadsOK /\ NothingNamedIsMissing
      /\ \A w \in Instances : cache[w] \in HeadRecord /\ Whole(cache[w]) /\ RefsPresent(cache[w])
      /\ head \in HeadRecord /\ Whole(head) /\ RefsPresent(head)
    BY HeadTypes DEF LogInv, GInv, IInv, HeadsOK, NothingNamedIsMissing
<1>1. ASSUME NEW w \in Instances PROVE Whole(cache[w])'
    <2>1. cache'[w] = cache[w] \/ cache'[w] = head \/ cache'[w] = head'
        BY <1>0, SeesHeads, OthersKept, WhoMoves DEF Same, StoreDelivers, leaseVars
    <2>2. CASE cache'[w] = head'
        BY <2>2, HeadGrows DEF Whole
    <2>3. CASE cache'[w] = cache[w] \/ cache'[w] = head
        <3>1. PICK h \in HeadRecord : h = cache'[w] /\ Whole(h) /\ RefsPresent(h)
            BY <1>0, <2>3
        <3>2. Whole(h)'
            BY <1>0, <3>1, RestoredKept
        <3> QED
            BY <3>1, <3>2 DEF Whole
    <2> QED
        BY <2>1, <2>2, <2>3
<1> QED
    BY <1>1, HeadGrows DEF HeadsOK

------------------------------------------------------------------------------
(* What a handle knows. *)

\* A handle restores what the head it then holds names.
LEMMA RestoringMoves ==
    ASSUME GInv, NEW w \in Instances, Moves(w), phase'[w] = "restoring"
    PROVE  /\ phase[w] \in Asking \union Waiting
           /\ cache'[w] = head' /\ head'.inst = w
<1>0. IInv /\ HoldersOK /\ TypeOK /\ JobOK /\ HolderOK(w)
    BY DEF GInv, IInv, HoldersOK
<1>1. ASSUME NEW t \in Threads, Commit(w, t) PROVE FALSE
    <2>1. phase'[w] \in {phase[w], "closed", "open", "closeFailed", "unwinding"}
        <3>1. Failed(w) \in {phase[w], "closeFailed", "unwinding"}
            BY DEF Failed
        <3> QED
            BY <1>0, <1>1, <3>1, CommitMoves
    <2>2. phase[w] \in {"confirming"} \union Writing \union Ended
        BY <1>0, <1>1, CommitMoves DEF HolderOK, Threads
    <2> QED
        BY <2>1, <2>2 DEF Writing, Ended
<1>2. Open(w) \/ Operate(w) \/ Close(w) \/ HeartbeatFires(w) \/ Crash(w)
    BY <1>1 DEF Moves
<1>3. cache'[w] = head' /\ head'.inst = w
    BY <1>0, <1>2, PhaseMoves DEF Writing
<1>4. Open(w)
    <2>1. ASSUME Operate(w) PROVE FALSE
        <3>1. phase[w] \in {"confirming"} \union Writing
            BY <1>0, <2>1 DEF Operate, SelfFence, Execute, StartFlush, StartCheckpoint,
                Uploaded, UploadedTooLate, UploadFails, Ready, Uploading, JobOK, Writing
        <3>2. phase'[w] \in {phase[w], "closeFailed", "unwinding"}
            BY <1>0, <2>1, FailJobEffect DEF Operate, SelfFence, Execute, StartFlush,
                StartCheckpoint, Uploaded, UploadedTooLate, UploadFails, leaseVars
        <3> QED
            BY <3>1, <3>2 DEF Writing
    <2>2. ASSUME Close(w) \/ HeartbeatFires(w) \/ Crash(w) PROVE FALSE
        BY <1>0, <2>2 DEF TypeOK, Close, CloseStarts, CloseFenced, CloseFlushes, CloseLapsed,
            CloseReleases, CloseReader, Drained, HeartbeatFires, Crash, Go, leaseVars
    <2> QED
        BY <1>2, <2>1, <2>2
<1>5. phase[w] \in Asking \union Waiting
    BY <1>0, <1>4 DEF TypeOK, Open, OpenFindsObject, OpenFindsNothing, OpenReadOnly,
        OpenCannotReadHead, Create, CreatedReadsBack, CreateReread, AcquireRefused, Acquire,
        AcquireReread, Restore, RestoreSnapshot, RestoreFails, UnwindReadsHead, UnwindReleases,
        Go, leaseVars, Asking, Waiting
<1> QED
    BY <1>3, <1>5

\* The scratch database of a handle only grows, from what it restored.
LEMMA LocalMoves ==
    ASSUME GInv, NEW w \in Instances, Moves(w), phase'[w] \in {"confirming"} \union Writing
    PROVE  \/ /\ phase[w] = "restoring" /\ phase'[w] = "confirming"
              /\ local'[w] = Replay(cache[w]) /\ cache'[w] = cache[w]
           \/ /\ phase[w] \in {"confirming"} \union Writing
              /\ Of(local[w]) \subseteq Of(local'[w])
<1> USE DEF leaseVars, dataVars, jobVars, commitVars
<1>0. IInv /\ HoldersOK /\ TypeOK /\ JobOK /\ HolderOK(w)
    BY DEF GInv, IInv, HoldersOK
<1>1. CASE Open(w)
    <2>1. Restore(w)
        <3>1. phase[w] \notin {"confirming"} \union Writing
            BY <1>0, <1>1 DEF Open, OpenFindsObject, OpenFindsNothing, OpenReadOnly,
                OpenCannotReadHead, Create, CreatedReadsBack, CreateReread, AcquireRefused,
                Acquire, AcquireReread, Restore, RestoreSnapshot, RestoreFails,
                UnwindReadsHead, UnwindReleases, Writing
        <3>2. /\ phase[w] = "restoring" /\ phase'[w] = "confirming"
            BY <1>0, <1>1, <3>1, PhaseMoves DEF Writing
        <3> QED
            BY <1>0, <1>1, <3>2 DEF TypeOK, Go, Open, OpenFindsObject, OpenFindsNothing, OpenReadOnly,
                OpenCannotReadHead, Create, CreatedReadsBack, CreateReread, AcquireRefused,
                Acquire, AcquireReread, RestoreSnapshot, RestoreFails,
                UnwindReadsHead, UnwindReleases
    <2> QED
        BY <1>0, <2>1 DEF Restore, TypeOK, Go
<1>2. CASE Operate(w)
    <2>1. phase[w] \in {"confirming"} \union Writing
        BY <1>0, <1>2 DEF Operate, SelfFence, Execute, StartFlush, StartCheckpoint,
            Uploaded, UploadedTooLate, UploadFails, Ready, Uploading, JobOK, Writing
    <2>2. CASE Execute(w)
        <3>1. \E s : local'[w] = Append(local[w], s)
            BY <1>0, <2>2 DEF Execute, TypeOK
        <3>2. local[w] \in Seq(Statement)
            BY <1>0 DEF TypeOK
        <3>3. PICK s : local'[w] = Append(local[w], s)
            BY <3>1
        <3>4. \A i \in DOMAIN local[w] : i \in DOMAIN local'[w] /\ local'[w][i] = local[w][i]
            BY <3>2, <3>3, AppendProperties, LenProperties
        <3> QED
            BY <2>1, <3>4 DEF Of
    <2>3. CASE ~Execute(w)
        <3>1. UNCHANGED local
            BY <1>2, <2>3 DEF Operate, SelfFence, StartFlush, StartCheckpoint,
                Uploaded, UploadedTooLate, UploadFails
        <3> QED
            BY <2>1, <3>1
    <2> QED
        BY <2>2, <2>3
<1>3. CASE Close(w) \/ HeartbeatFires(w) \/ Crash(w)
    BY <1>0, <1>3 DEF TypeOK, Close, CloseStarts, CloseFenced, CloseFlushes, CloseLapsed,
        CloseReleases, CloseReader, Drained, HeartbeatFires, Crash, Go, Writing
<1>4. ASSUME NEW t \in Threads, Commit(w, t)
      PROVE  phase[w] \in {"confirming"} \union Writing /\ UNCHANGED local
    <2>1. UNCHANGED local
        BY <1>4 DEF Commit, CommitReplaced, CommitUnsettled, CommitErrors, RereadSettles,
            RereadFenced, RereadRetries, RereadGivesUp, RereadErrors, Settle, GiveUp
    <2>2. phase[w] \in {"confirming"} \union Writing
        <3>1. t = "hb" => phase'[w] = phase[w]
            BY <1>0, <1>4, CommitMoves
        <3>2. t = "op" => phase[w] \in {"confirming"} \union Writing
            BY <1>0, <1>4, CommitMoves
        <3> QED
            BY <3>1, <3>2 DEF Threads
    <2> QED
        BY <2>1, <2>2
<1> QED
    BY <1>1, <1>2, <1>3, <1>4 DEF Moves

\* A handle that serves was serving, and forgot nothing, or has just come to hold
\* the head it restores.
LEMMA KnownGrows ==
    ASSUME LogInv, [Next]_vars, NEW w \in Instances, phase'[w] \in Serving
    PROVE  \/ /\ phase'[w] = "restoring" /\ phase[w] \in Asking \union Waiting
              /\ cache'[w] = head' /\ head'.inst = w /\ Moves(w)
           \/ phase[w] \in Serving /\ Known(w) \subseteq Known(w)'
<1>0. /\ GInv /\ IInv /\ TypeOK /\ cache[w] \in HeadRecord /\ RefsPresent(cache[w])
    BY DEF LogInv, GInv, IInv, TypeOK, NothingNamedIsMissing
<1>1. PICK h \in HeadRecord : h = cache[w] /\ Restored(h)' = Restored(h)
    BY <1>0, RestoredKept
<1>2. CASE phase'[w] = phase[w] /\ cache'[w] = cache[w] /\ local'[w] = local[w]
    BY <1>1, <1>2 DEF Known, Restored, BaseContent
<1>3. CASE Moves(w) /\ phase'[w] = "restoring"
    BY <1>0, <1>3, RestoringMoves
<1>4. CASE Moves(w) /\ phase'[w] # "restoring"
    <2>1. phase'[w] \in {"confirming"} \union Writing
        BY <1>4 DEF Serving
    <2>2. CASE /\ phase[w] = "restoring" /\ phase'[w] = "confirming"
               /\ local'[w] = Replay(cache[w]) /\ cache'[w] = cache[w]
        <3>1. Of(local'[w]) = Restored(cache[w])
            BY <1>0, <2>2, OfReplay
        <3> QED
            BY <2>2, <3>1 DEF Known, Serving, Of
    <2>3. CASE /\ phase[w] \in {"confirming"} \union Writing
               /\ Of(local[w]) \subseteq Of(local'[w])
        BY <1>4, <2>3 DEF Known, Serving, Of, Writing
    <2> QED
        BY <1>0, <1>4, <2>1, <2>2, <2>3, LocalMoves
<1> QED
    BY <1>0, <1>2, <1>3, <1>4, OthersKept, WhoMoves
    DEF Same, StoreDelivers, leaseVars, dataVars

\* KnownOK is kept: first the write that w itself sends.
LEMMA OwnWrites ==
    ASSUME LogInv, [Next]_vars, NEW w \in Instances, NEW r \in late', r \notin late,
           OwnWrite(w, r)
    PROVE  /\ Moves(w) /\ phase[w] \notin Taking \union {"restoring"}
           /\ phase[w] \in Serving => Restored(r.next) \subseteq Known(w)
<1>0. IInv /\ HoldersOK /\ ClaimsOK(w) /\ late' # late
    BY DEF LogInv, GInv, ClaimsAreOld
<1>1. PICK v \in Instances, e \in HeadRecord, n \in HeadRecord :
            Moves(v) /\ Sends(v, e, n) /\ r = Write(e, n)
    <2>1. PICK v \in Instances : Moves(v) /\ \E e, n : Sent(v, e, n)
        BY <1>0, HeadStep DEF LateWriteArrives
    <2> QED
        BY <2>1 DEF Sent
<1>2. r.expect = e /\ r.next = n
    BY <1>1 DEF Write
<1>3. v = w
    BY <1>0, <1>1, <1>2, SentInst, NobodyAssumption DEF OwnWrite
<1>4. phase[w] \notin Taking \union {"restoring"}
    <2>1. phase[w] \notin {"new", "restoring"} \union Waiting /\ e = cache[w]
        BY <1>0, <1>1, <1>3, SentInst
    <2>2. phase[w] \notin Asking
        BY <1>0, <1>2, <2>1 DEF OwnWrite, ClaimsOK
    <2> QED
        BY <2>1, <2>2 DEF Taking
<1> QED
    BY <1>1, <1>2, <1>3, <1>4, SentGrows

\* Whatever the head becomes while w serves and holds it, w knows.
LEMMA HeadIsKnown ==
    ASSUME LogInv, [Next]_vars, NEW w \in Instances, phase[w] \in Serving, head'.inst = w
    PROVE  \E h \in HeadRecord :
              h = head' /\ RefsPresent(h) /\ Restored(h) \subseteq Known(w)
<1>0. /\ GInv /\ IInv /\ HoldersOK /\ KnownOK(w)
      /\ head \in HeadRecord /\ RefsPresent(head)
      /\ \A r \in late : r.expect \in HeadRecord /\ r.next \in HeadRecord /\ RefsPresent(r.next)
    BY HeadTypes DEF LogInv, GInv, IInv, NothingNamedIsMissing
<1>1. head.inst = w
    <2>1. phase[w] \in Past
        BY PastNames DEF Serving
    <2> QED
        BY <1>0, <2>1, ComesToHold
<1>2. CASE head' = head
    BY <1>0, <1>1, <1>2 DEF KnownOK
<1>3. CASE LateWriteArrives /\ head' # head
    <2>1. PICK r \in late : r.expect = head /\ r.next = head'
        BY <1>3 DEF LateWriteArrives, Matches
    <2>2. Restored(r.next) \subseteq Known(w)
        BY <1>0, <1>1, <2>1 DEF OwnWrite, KnownOK
    <2> QED
        BY <1>0, <2>1, <2>2
<1>4. ASSUME NEW v \in Instances, NEW e, NEW n, Sent(v, e, n), head' # head
      PROVE  \E h \in HeadRecord : h = head' /\ RefsPresent(h) /\ Restored(h) \subseteq Known(w)
    <2>1. head' = n /\ n \in HeadRecord /\ Sends(v, e, n)
        BY <1>4 DEF Sent
    <2>2. v = w
        BY <1>0, <2>1, SentInst, NobodyAssumption
    <2> QED
        BY <2>1, <2>2, SentGrows DEF Grows
<1> QED
    BY <1>0, <1>2, <1>3, <1>4, HeadStep

\* KnownOK is kept.
LEMMA KnownStep ==
    ASSUME LogInv, [Next]_vars, Undisturbed', NEW w \in Instances
    PROVE  KnownOK(w)'
<1>0. /\ GInv /\ IInv /\ IInv' /\ HoldersOK /\ HoldersOK' /\ KnownOK(w) /\ ClaimsOK(w)
      /\ cache[w] \in HeadRecord /\ RefsPresent(cache[w])
      /\ head \in HeadRecord /\ RefsPresent(head)
      /\ \A r \in late : r.expect \in HeadRecord /\ r.next \in HeadRecord /\ RefsPresent(r.next)
    BY IInvStep, HoldersStep, HeadTypes
    DEF LogInv, GInv, IInv, ClaimsAreOld, NothingNamedIsMissing
<1>1. ASSUME phase'[w] \in Taking \union {"restoring"}, NEW r \in late'
      PROVE  ~OwnWrite(w, r)
    <2>1. phase[w] \in Taking \union {"restoring"}
        BY <1>0, <1>1, TakingMoves, RestoringMoves, OthersKept, WhoMoves
        DEF Same, StoreDelivers, leaseVars, Taking
    <2>2. r \in late \/ r \notin late
        OBVIOUS
    <2> QED
        BY <1>0, <1>1, <2>1, <2>2, OwnWrites DEF KnownOK
<1>2. CASE /\ phase'[w] = "restoring" /\ phase[w] \in Asking \union Waiting
           /\ cache'[w] = head' /\ head'.inst = w /\ Moves(w)
    <2>1. Known(w)' = Restored(head)' /\ Restored(cache[w])' = Restored(head)'
        BY <1>2 DEF Known, Restored, BaseContent
    <2> QED
        BY <1>1, <1>2, <2>1 DEF KnownOK
<1>3. CASE phase'[w] \in Serving /\ phase[w] \in Serving /\ Known(w) \subseteq Known(w)'
    <2>1. ASSUME NEW h \in HeadRecord, RefsPresent(h), Restored(h) \subseteq Known(w)
          PROVE  Restored(h)' \subseteq Known(w)'
        BY <1>0, <1>3, <2>1, RestoredKept
    <2>2. ASSUME head'.inst = w PROVE Restored(head)' \subseteq Known(w)'
        <3>1. PICK h \in HeadRecord :
                    h = head' /\ RefsPresent(h) /\ Restored(h) \subseteq Known(w)
            BY <1>3, <2>2, HeadIsKnown
        <3>2. Restored(h)' \subseteq Known(w)'
            BY <2>1, <3>1
        <3> QED
            BY <3>1, <3>2 DEF Restored, BaseContent
    <2>3. Restored(cache[w])' \subseteq Known(w)'
        <3>1. CASE cache'[w] = cache[w]
            <4>1. PICK h \in HeadRecord : h = cache'[w] /\ Restored(h)' \subseteq Known(w)'
                BY <1>0, <1>3, <2>1, <3>1 DEF KnownOK
            <4> QED
                BY <4>1 DEF Restored, BaseContent
        <3>2. cache'[w].inst = w
            BY <1>0, <1>3 DEF HoldersOK, HolderOK, Holding, Serving
        <3>3. CASE cache'[w] = head
            <4>1. PICK h \in HeadRecord : h = cache'[w] /\ Restored(h)' \subseteq Known(w)'
                BY <1>0, <1>3, <2>1, <3>2, <3>3 DEF KnownOK
            <4> QED
                BY <4>1 DEF Restored, BaseContent
        <3>4. CASE cache'[w] = head'
            BY <2>2, <3>2, <3>4 DEF Restored, BaseContent
        <3> QED
            BY <1>0, <3>1, <3>3, <3>4, SeesHeads, OthersKept, WhoMoves
            DEF Same, StoreDelivers, leaseVars
    <2>4. ASSUME NEW r \in late', OwnWrite(w, r) PROVE Restored(r.next)' \subseteq Known(w)'
        <3>1. r.next \in HeadRecord /\ RefsPresent(r.next) /\ Restored(r.next) \subseteq Known(w)
            <4>1. CASE r \in late
                BY <1>0, <1>3, <2>4, <4>1 DEF KnownOK
            <4>2. CASE r \notin late
                <5>1. PICK v \in Instances, e \in HeadRecord, n \in HeadRecord :
                            Sends(v, e, n) /\ r = Write(e, n)
                    <6>1. PICK v \in Instances : Moves(v) /\ \E e, n : Sent(v, e, n)
                        BY <1>0, <2>4, <4>2, HeadStep DEF LateWriteArrives
                    <6> QED
                        BY <2>4, <4>2, <6>1 DEF Sent
                <5>2. r.next = n /\ RefsPresent(n)
                    BY <5>1, SentGrows DEF Write, Grows
                <5> QED
                    BY <1>3, <2>4, <4>2, <5>1, <5>2, OwnWrites
            <4> QED
                BY <4>1, <4>2
        <3> QED
            BY <2>1, <3>1
    <2>5. \A r \in late' : OwnWrite(w, r) => Restored(r.next)' \subseteq Known(w)'
        BY <2>4
    <2> QED
        BY <1>1, <1>3, <2>2, <2>3, <2>5 DEF KnownOK, OwnWrite
<1>4. CASE phase'[w] \notin Serving
    BY <1>1, <1>4 DEF KnownOK, OwnWrite
<1> QED
    BY <1>2, <1>3, <1>4, KnownGrows

------------------------------------------------------------------------------
(* The watermark. *)

\* What a step of w leaves of its watermark.
Kept(w) ==
    /\ executed'[w] = executed[w] /\ committed'[w] = committed[w] /\ buffer'[w] = buffer[w]
    /\ Of(local[w]) \subseteq Of(local'[w])

\* CountOK is kept when nothing is executed or committed, no upload starts to
\* commit, and no handle that failed or has not begun comes to write.
LEMMA CountKept ==
    ASSUME LogInv, [Next]_vars, NEW w \in Instances,
           phase'[w] \notin Ended => phase[w] \notin Ended /\ Kept(w),
           phase'[w] \in Writing => phase[w] \in Writing \union {"confirming"},
           phase'[w] \notin Writing \union Ended => phase[w] \notin Writing \union Ended,
           at'[w]["op"] \in {"commit", "reread"} /\ job'[w] \in {"flush", "checkpoint"} =>
              /\ at[w]["op"] \in {"commit", "reread"} /\ job[w] = job'[w]
              /\ key'[w] = key[w] /\ buffer'[w] = buffer[w] /\ local'[w] = local[w]
    PROVE  CountOK(w)'
<1>0. /\ IInv /\ CountOK(w) /\ KeyOK /\ buffer[w] \in Seq(Statement) /\ committed[w] \in Nat
    BY DEF LogInv, GInv, IInv, TypeOK
<1>1. ASSUME phase'[w] \notin Ended
      PROVE  /\ executed'[w] = committed'[w] + Len(buffer'[w])
             /\ \A i \in DOMAIN buffer'[w] : buffer'[w][i] = Nth(w, committed'[w] + i)
    BY <1>0, <1>1 DEF CountOK, Kept
<1>2. ASSUME phase'[w] \notin Writing \union Ended PROVE executed'[w] = 0
    BY <1>0, <1>2 DEF CountOK, Kept
<1>3. ASSUME phase'[w] \in Writing PROVE \A n \in 1 .. executed'[w] : Nth(w, n) \in Of(local'[w])
    <2>1. phase'[w] \notin Ended
        BY <1>3 DEF Writing, Ended
    <2>2. CASE phase[w] \in Writing
        BY <1>0, <2>1, <2>2 DEF CountOK, Kept
    <2>3. CASE phase[w] = "confirming"
        <3>1. executed'[w] = 0
            BY <1>0, <2>1, <2>3 DEF CountOK, Kept, Writing, Ended
        <3> QED
            BY <3>1
    <2> QED
        BY <1>3, <2>2, <2>3
<1>4. ASSUME at'[w]["op"] \in {"commit", "reread"}
      PROVE  /\ job'[w] = "flush" => content'[key'[w]] = buffer'[w]
             /\ job'[w] = "checkpoint" => content'[key'[w]] = local'[w]
    <2>1. CASE job'[w] \in {"flush", "checkpoint"}
        <3>1. key[w] \in published
            BY <1>0, <1>4, <2>1 DEF KeyOK, CommitKeyOK
        <3>2. content'[key[w]] = content[key[w]]
            BY <1>0, <3>1, ContentKept
        <3> QED
            BY <1>0, <1>4, <2>1, <3>2 DEF CountOK
    <2> QED
        BY <2>1
<1> QED
    BY <1>1, <1>2, <1>3, <1>4 DEF CountOK, Nth, Of

\* CountOK, of a step of open().
LEMMA CountOpen ==
    ASSUME LogInv, [Next]_vars, NEW w \in Instances, Open(w)
    PROVE  CountOK(w)'
<1> USE DEF leaseVars, dataVars, jobVars, commitVars
<1>0. /\ GInv /\ IInv /\ IInv' /\ HoldersOK /\ TypeOK /\ JobOK /\ JobOK' /\ HolderOK(w)
    BY IInvStep DEF LogInv, GInv, IInv, HoldersOK
<1>1. UNCHANGED <<executed, committed, buffer>>
    BY DEF Open, OpenFindsObject, OpenFindsNothing, OpenReadOnly, OpenCannotReadHead, Create,
        CreatedReadsBack, CreateReread, AcquireRefused, Acquire, AcquireReread, Restore,
        RestoreSnapshot, RestoreFails, UnwindReadsHead, UnwindReleases
<1>2. phase[w] \notin Writing \union Ended \union {"confirming"}
    BY DEF Open, OpenFindsObject, OpenFindsNothing, OpenReadOnly, OpenCannotReadHead, Create,
        CreatedReadsBack, CreateReread, AcquireRefused, Acquire, AcquireReread, Restore,
        RestoreSnapshot, RestoreFails, UnwindReadsHead, UnwindReleases, Writing, Ended
<1>3. phase'[w] \notin Writing
    BY <1>0, <1>2, PhaseMoves DEF Writing
<1>4. job'[w] \notin {"flush", "checkpoint"}
    <2>1. Restore(w) \/ UNCHANGED job
        BY DEF Open, OpenFindsObject, OpenFindsNothing, OpenReadOnly, OpenCannotReadHead,
            Create, CreatedReadsBack, CreateReread, AcquireRefused, Acquire, AcquireReread,
            RestoreSnapshot, RestoreFails, UnwindReadsHead, UnwindReleases
    <2>2. Restore(w) => job'[w] = "confirm"
        BY <1>0 DEF TypeOK, Restore, Run
    <2>3. job[w] = "none"
        BY <1>0, <1>2 DEF JobOK
    <2> QED
        BY <2>1, <2>2, <2>3
<1>5. CountOK(w) /\ phase[w] \notin Ended /\ executed[w] = 0
    BY <1>2 DEF LogInv, CountOK
<1>6. /\ executed'[w] = committed'[w] + Len(buffer'[w])
      /\ \A i \in DOMAIN buffer'[w] : buffer'[w][i] = Nth(w, committed'[w] + i)
      /\ executed'[w] = 0
    BY <1>1, <1>5 DEF CountOK
<1> QED
    BY <1>3, <1>4, <1>6 DEF CountOK, Nth

\* CountOK, of execute().
LEMMA CountExecute ==
    ASSUME LogInv, [Next]_vars, NEW w \in Instances, Execute(w)
    PROVE  CountOK(w)'
<1> USE DEF leaseVars, dataVars, jobVars, commitVars
<1>0. /\ TypeOK /\ JobOK /\ CountOK(w) /\ phase[w] = "open" /\ job[w] = "none"
      /\ UNCHANGED <<phase, job, at, committed>>
    BY DEF LogInv, GInv, IInv, Execute, Ready
<1> DEFINE s == Nth(w, executed[w] + 1)
<1>1. /\ local'[w] = Append(local[w], s) /\ buffer'[w] = Append(buffer[w], s)
      /\ executed'[w] = executed[w] + 1
    BY <1>0 DEF Execute, TypeOK, Nth
<1>2. /\ local[w] \in Seq(Statement) /\ buffer[w] \in Seq(Statement)
      /\ executed[w] \in Nat /\ committed[w] \in Nat
    BY <1>0 DEF TypeOK
<1>3. s \in Statement
    BY <1>2 DEF Nth, Statement
<1>4. /\ executed[w] = committed[w] + Len(buffer[w])
      /\ \A i \in DOMAIN buffer[w] : buffer[w][i] = Nth(w, committed[w] + i)
      /\ \A n \in 1 .. executed[w] : Nth(w, n) \in Of(local[w])
    BY <1>0 DEF CountOK, Writing, Ended
<1> HIDE DEF s
<1>5. /\ Len(buffer'[w]) = Len(buffer[w]) + 1 /\ Len(buffer[w]) \in Nat
      /\ DOMAIN buffer'[w] = 1 .. Len(buffer[w]) + 1
      /\ DOMAIN buffer[w] = 1 .. Len(buffer[w])
      /\ \A i \in 1 .. Len(buffer[w]) : buffer'[w][i] = buffer[w][i]
      /\ buffer'[w][Len(buffer[w]) + 1] = s
    BY <1>1, <1>2, <1>3, AppendProperties, LenProperties
<1>6. /\ DOMAIN local'[w] = 1 .. Len(local[w]) + 1 /\ Len(local[w]) \in Nat
      /\ DOMAIN local[w] = 1 .. Len(local[w])
      /\ \A i \in 1 .. Len(local[w]) : local'[w][i] = local[w][i]
      /\ local'[w][Len(local[w]) + 1] = s
    BY <1>1, <1>2, <1>3, AppendProperties, LenProperties
<1>7. executed'[w] = committed'[w] + Len(buffer'[w])
    <2>1. /\ executed'[w] = committed[w] + Len(buffer[w]) + 1
          /\ committed'[w] = committed[w] /\ Len(buffer'[w]) = Len(buffer[w]) + 1
        BY <1>0, <1>1, <1>4, <1>5
    <2>2. committed[w] \in Nat /\ Len(buffer[w]) \in Nat
        BY <1>2, <1>5
    <2> QED
        BY <2>1, <2>2
<1>8. ASSUME NEW i \in DOMAIN buffer'[w] PROVE buffer'[w][i] = Nth(w, committed'[w] + i)
    <2>1. CASE i \in 1 .. Len(buffer[w])
        BY <1>0, <1>4, <1>5, <2>1
    <2>2. CASE i = Len(buffer[w]) + 1
        <3>1. executed[w] + 1 = committed'[w] + i
            BY <1>0, <1>2, <1>4, <1>5, <2>2
        <3> QED
            BY <1>5, <2>2, <3>1 DEF s
    <2> QED
        BY <1>5, <2>1, <2>2
<1>9. Of(local[w]) \union {s} \subseteq Of(local'[w])
    BY <1>6 DEF Of
<1>10. ASSUME NEW n \in 1 .. executed'[w] PROVE Nth(w, n) \in Of(local'[w])
    <2>1. CASE n \in 1 .. executed[w]
        BY <1>4, <1>9, <2>1
    <2>2. CASE n = executed[w] + 1
        BY <1>9, <2>2 DEF s
    <2> QED
        BY <1>1, <1>2, <2>1, <2>2
<1>11. phase'[w] \in Writing /\ at'[w]["op"] = "idle"
    BY <1>0 DEF JobOK, Writing
<1> QED
    BY <1>7, <1>8, <1>10, <1>11 DEF CountOK, Nth, Of

\* CountOK, of the rest of the operation queue: the upload holds what the operation
\* took, and the queue is held, so that is what the buffer and the database are still.
LEMMA CountOperate ==
    ASSUME LogInv, [Next]_vars, NEW w \in Instances, Operate(w), ~Execute(w)
    PROVE  CountOK(w)'
<1> USE DEF leaseVars, dataVars, jobVars, commitVars
<1>0. /\ IInv /\ TypeOK /\ JobOK /\ JobOK' /\ HolderOK(w) /\ KeyOK /\ CountOK(w)
    BY IInvStep DEF LogInv, GInv, IInv, HoldersOK
<1>1. Kept(w) /\ UNCHANGED <<local, buffer>>
    BY DEF Operate, SelfFence, StartFlush, StartCheckpoint, Uploaded, UploadedTooLate,
        UploadFails, Kept
<1>2. CASE SelfFence(w)
    <2>1. UNCHANGED <<phase, at, job, key>>
        BY <1>2 DEF SelfFence
    <2> QED
        BY <1>1, <2>1, CountKept
<1>3. CASE StartFlush(w) \/ StartCheckpoint(w)
    <2>1. UNCHANGED phase /\ at'[w]["op"] = "upload"
        BY <1>0, <1>3, StepEffect DEF StartFlush, StartCheckpoint, StartUpload, Threads
    <2> QED
        BY <1>1, <2>1, CountKept
<1>4. CASE UploadedTooLate(w) \/ UploadFails(w)
    <2>1. at[w]["op"] = "upload" /\ phase[w] \in Writing
        BY <1>0, <1>4 DEF UploadedTooLate, UploadFails, Uploading, KeyOK, UploadKeyOK, HolderOK
    <2>2. Failed(w) \in {phase[w], "closeFailed"}
        BY <2>1 DEF Failed, Writing
    <2>3. phase'[w] = Failed(w) /\ at'[w]["op"] = "idle"
        BY <1>0, <1>4, StepEffect DEF UploadedTooLate, UploadFails, FailJob, Go, TypeOK,
            Failed, Threads
    <2>4. phase'[w] \in Writing \union Ended
        BY <2>1, <2>2, <2>3 DEF Ended
    <2>5. phase[w] \notin Ended
        BY <2>1 DEF Writing, Ended
    <2> QED
        BY <1>1, <2>1, <2>3, <2>4, <2>5, CountKept
<1>5. CASE Uploaded(w)
    <2>1. /\ job[w] \in {"flush", "checkpoint"} /\ key[w] \in Key
          /\ UNCHANGED <<phase, job, key, executed, committed, local, buffer>>
          /\ content'[key[w]] = Payload(w)
        BY <1>0, <1>5 DEF Uploaded, Uploading, KeyOK, UploadKeyOK, Publish, TypeOK
    <2>2. /\ job[w] = "flush" => content'[key[w]] = buffer[w]
          /\ job[w] = "checkpoint" => content'[key[w]] = local[w]
        BY <2>1 DEF Payload
    <2> QED
        BY <1>0, <2>1, <2>2 DEF CountOK, Nth, Of
<1> QED
    BY <1>2, <1>3, <1>4, <1>5 DEF Operate

\* CountOK, of close(), the timer and a crash.
LEMMA CountClose ==
    ASSUME LogInv, [Next]_vars, NEW w \in Instances, Close(w) \/ HeartbeatFires(w) \/ Crash(w)
    PROVE  CountOK(w)'
<1> USE DEF leaseVars, dataVars, jobVars, commitVars
<1>0. /\ IInv /\ TypeOK /\ JobOK
    BY DEF LogInv, GInv, IInv
<1>1. CASE CloseFlushes(w) \/ CloseReleases(w)
    <2>1. /\ phase[w] \in Writing /\ phase'[w] \in Writing /\ UNCHANGED <<executed, committed, buffer, local>>
          /\ at'[w]["op"] = "upload" \/ job'[w] = "release"
        BY <1>0, <1>1, StepEffect DEF CloseFlushes, CloseReleases, Drained, StartUpload, Go,
            Run, TypeOK, Writing, Threads
    <2>2. phase[w] \notin Ended
        BY <2>1 DEF Writing, Ended
    <2> QED
        BY <2>1, <2>2, CountKept DEF Kept
<1>2. CASE CloseStarts(w) \/ CloseFenced(w) \/ CloseLapsed(w) \/ CloseReader(w)
    <2>1. /\ phase[w] \notin Ended
          /\ (phase[w] \in Writing /\ phase'[w] \in Writing) \/ phase'[w] \in Ended
          /\ UNCHANGED <<executed, committed, buffer, local, at, job, key>>
        BY <1>0, <1>2 DEF CloseStarts, CloseFenced, CloseLapsed, CloseReader, Drained, Go,
            TypeOK, Writing, Ended
    <2>2. phase'[w] \in Writing => phase[w] \in Writing
        BY <2>1 DEF Writing, Ended
    <2> QED
        BY <2>1, <2>2, CountKept DEF Kept
<1>3. CASE HeartbeatFires(w)
    <2>1. /\ UNCHANGED <<phase, executed, committed, buffer, local, job, key>>
          /\ at'[w]["op"] = at[w]["op"]
        BY <1>0, <1>3, StepEffect DEF HeartbeatFires, Threads
    <2> QED
        BY <2>1, CountKept DEF Kept
<1>4. CASE Crash(w)
    <2>1. phase'[w] = "crashed" /\ at'[w]["op"] = "idle"
        BY <1>0, <1>4 DEF Crash, Go, TypeOK, Threads
    <2> QED
        BY <2>1 DEF CountOK, Ended, Writing
<1> QED
    BY <1>1, <1>2, <1>3, <1>4 DEF Close

\* What commitHead is told is in the head: every statement of the segment it named,
\* or of the base.
LEMMA SettledHas ==
    ASSUME LogInv, [Next]_vars, NEW w \in Instances,
           CommitReplaced(w, "op") \/ RereadSettles(w, "op"),
           job[w] \in {"flush", "checkpoint"}
    PROVE  /\ content' = content
           /\ Of(content[key[w]]) \subseteq Restored(head)'
<1>0. /\ IInv /\ TypeOK /\ KeyOK /\ HeadsOK /\ "op" \in Threads
      /\ cache[w] \in HeadRecord /\ RefsPresent(cache[w])
    BY DEF LogInv, GInv, IInv, NothingNamedIsMissing, TypeOK, Threads
<1>1. at[w]["op"] \in {"commit", "reread"} /\ Intent(w, "op") = job[w]
    BY DEF CommitReplaced, RereadSettles, Attempting, Rereading, Intent
<1>2. key[w] \in Key /\ key[w] \in published
    BY <1>0, <1>1 DEF KeyOK, CommitKeyOK
<1>3. content' = content
    BY WriteEffect DEF CommitReplaced, RereadSettles, storeVars
<1>4. SUFFICES \E h : h = head' /\ Of(content[key[w]]) \subseteq Restored(h)
    BY <1>3 DEF Restored, BaseContent
<1>5. CASE CommitReplaced(w, "op")
    <2>1. head' = Build(w, "op") /\ Attempting(w, "op")
        BY <1>5 DEF CommitReplaced, HeadWrite
    <2>2. Publishes(w, cache[w], Build(w, "op"))
        BY <1>0, <2>1, BuildKinds
    <2>3. CASE job[w] = "flush"
        <3>1. PICK n : n = Build(w, "op")
            OBVIOUS
        <3>2. n.base = cache[w].base /\ n.wal = cache[w].wal \o Lines(key[w])
            BY <2>2, <2>3, <3>1 DEF Publishes
        <3>3. Restored(n) = Restored(cache[w]) \union Of(content[key[w]])
            BY <1>0, <1>2, <3>2, FlushAdds
        <3> QED
            BY <2>1, <3>1, <3>3
    <2>4. CASE job[w] = "checkpoint"
        <3>1. Build(w, "op").base = key[w] /\ key[w] # NoBase
            BY <1>2, <2>2, <2>4, NoBaseAssumption DEF Publishes
        <3> QED
            BY <2>1, <3>1 DEF Restored, BaseContent
    <2> QED
        BY <2>3, <2>4
<1>6. CASE RereadSettles(w, "op")
    <2>1. head' = head /\ Intended(w, "op", head)
        BY <1>6 DEF RereadSettles, Proven, storeVars
    <2>2. CASE job[w] = "flush"
        <3>1. PICK l \in Of(head.wal) : l.key = key[w]
            BY <1>1, <2>1, <2>2 DEF Intended, Of
        <3>2. ASSUME NEW i \in DOMAIN content[key[w]]
              PROVE  content[key[w]][i] \in Restored(head)
            <4>1. [key |-> key[w], line |-> i] \in Of(head.wal)
                BY <1>0, <3>1, <3>2 DEF HeadsOK, Whole
            <4>2. PICK m \in Of(head.wal) : m.key = key[w] /\ m.line = i
                BY <4>1
            <4> QED
                BY <4>2 DEF Restored
        <3> QED
            BY <2>1, <3>2 DEF Of
    <2>3. CASE job[w] = "checkpoint"
        <3>1. head.base = key[w] /\ key[w] # NoBase
            BY <1>1, <1>2, <2>1, <2>3, NoBaseAssumption DEF Intended
        <3> QED
            BY <2>1, <3>1 DEF Restored, BaseContent
    <2> QED
        BY <2>2, <2>3
<1> QED
    BY <1>5, <1>6

\* A flush or a checkpoint that settles: what was in the buffer is committed.
LEMMA SettledCounts ==
    ASSUME LogInv, NEW w \in Instances, NEW h, Settle(w, "op", h),
           at[w]["op"] \in {"commit", "reread"}, job[w] \in {"flush", "checkpoint"}
    PROVE  /\ committed'[w] = committed[w] + Len(buffer[w])
           /\ buffer'[w] = <<>>
           /\ phase'[w] = phase[w]
<1>0. /\ TypeOK /\ CountOK(w) /\ buffer[w] \in Seq(Statement)
    BY DEF LogInv, GInv, IInv, TypeOK
<1>1. CASE job[w] = "flush"
    <2>1. FlushDone(w) /\ content[key[w]] = buffer[w]
        BY <1>0, <1>1 DEF Settle, Intent, CountOK
    <2>2. SubSeq(buffer[w], Len(buffer[w]) + 1, Len(buffer[w])) = <<>>
        BY <1>0, LenProperties, SMT
    <2> QED
        BY <1>0, <2>1, <2>2 DEF FlushDone, TypeOK
<1>2. CASE job[w] = "checkpoint"
    <2>1. CheckpointDone(w)
        BY <1>2 DEF Settle, Intent
    <2> QED
        BY <1>0, <2>1 DEF CheckpointDone, TypeOK
<1> QED
    BY <1>1, <1>2

\* CountOK, of commitHead.
LEMMA CountCommit ==
    ASSUME LogInv, [Next]_vars, NEW w \in Instances, NEW t \in Threads, Commit(w, t)
    PROVE  CountOK(w)'
<1> USE DEF leaseVars, dataVars, jobVars
<1>0. /\ IInv /\ TypeOK /\ JobOK /\ HolderOK(w) /\ CountOK(w)
      /\ buffer[w] \in Seq(Statement) /\ committed[w] \in Nat /\ executed[w] \in Nat
    BY DEF LogInv, GInv, IInv, HoldersOK, TypeOK
<1>1. /\ at[w][t] \in {"commit", "reread"}
      /\ t = "op" => phase[w] \in {"confirming"} \union Writing
      /\ \A u \in Threads : u # t => at'[w][u] = at[w][u]
      /\ t = "hb" => phase'[w] = phase[w] /\ job'[w] = job[w]
    BY <1>0, CommitMoves
<1>2. t = "op" => phase[w] \notin Ended
    BY <1>1 DEF Writing, Ended
<1>3. at'[w]["op"] \in {"commit", "reread"} => at[w]["op"] \in {"commit", "reread"}
    BY <1>1 DEF Threads
<1>4. CASE CommitUnsettled(w, t) \/ RereadRetries(w, t)
    <2>1. UNCHANGED <<phase, job, key, executed, committed, buffer, local>>
        BY <1>4 DEF CommitUnsettled, RereadRetries
    <2> QED
        BY <1>3, <2>1, CountKept DEF Kept
<1>5. CASE \/ CommitErrors(w, t) \/ RereadFenced(w, t)
           \/ RereadGivesUp(w, t) \/ RereadErrors(w, t)
    <2>1. PICK told, open : GiveUp(w, t, told, open)
        BY <1>5 DEF CommitErrors, RereadFenced, RereadGivesUp, RereadErrors
    <2>2. UNCHANGED <<key, executed, committed, buffer, local>>
        BY <2>1 DEF GiveUp
    <2>3. CASE t = "hb"
        BY <1>1, <1>3, <2>2, <2>3, CountKept DEF Kept
    <2>4. CASE t = "op"
        <3>1. job'[w] = "none" /\ phase'[w] = Failed(w)
            BY <1>0, <2>1, <2>4 DEF GiveUp, FailJob, EndJob, Run, Go, Failed, TypeOK
        <3>2. \/ phase[w] = "confirming" /\ Failed(w) = "unwinding"
              \/ phase[w] \in Writing /\ Failed(w) \in {phase[w], "closeFailed"}
            BY <1>1, <2>4 DEF Failed, Writing
        <3>3. /\ phase'[w] \in Writing => phase[w] \in Writing
              /\ phase'[w] \notin Writing \union Ended => phase[w] \notin Writing \union Ended
            BY <3>1, <3>2 DEF Writing, Ended
        <3> QED
            BY <1>2, <2>2, <2>4, <3>1, <3>3, CountKept DEF Kept
    <2> QED
        BY <2>3, <2>4 DEF Threads
<1>6. CASE CommitReplaced(w, t) \/ RereadSettles(w, t)
    <2>1. PICK h : Settle(w, t, h)
        BY <1>6 DEF CommitReplaced, RereadSettles
    <2>2. UNCHANGED <<key, executed, local>> /\ at'[w][t] = "idle"
        BY <1>0, <2>1, StepEffect DEF Settle, LeaveLock
    <2>3. CASE t = "hb"
        <3>1. UNCHANGED <<buffer, committed>>
            BY <2>1, <2>3 DEF Settle, Intent, RenewDone
        <3> QED
            BY <1>1, <1>3, <2>2, <2>3, <3>1, CountKept DEF Kept
    <2>4. CASE t = "op" /\ job[w] \notin {"flush", "checkpoint"}
        <3>1. /\ UNCHANGED <<buffer, committed>>
              /\ phase'[w] \in {"closed", "open"}
            <4>1. ReleaseDone(w) \/ RenewDone(w, "op", h)
                BY <2>1, <2>4 DEF Settle, Intent
            <4> QED
                BY <1>0, <4>1 DEF ReleaseDone, RenewDone, Go, TypeOK
        <3> QED
            BY <1>1, <1>2, <2>2, <2>4, <3>1, CountKept DEF Kept, Writing, Ended
    <2>5. CASE t = "op" /\ job[w] \in {"flush", "checkpoint"}
        <3>1. /\ committed'[w] = committed[w] + Len(buffer[w])
              /\ buffer'[w] = <<>>
              /\ phase'[w] = phase[w]
            BY <1>1, <2>1, <2>5, SettledCounts
        <3>2. phase[w] \in Writing /\ phase[w] \notin Ended
            BY <1>0, <2>5 DEF HolderOK, Writing, Ended
        <3>3. /\ executed[w] = committed[w] + Len(buffer[w])
              /\ \A n \in 1 .. executed[w] : Nth(w, n) \in Of(local[w])
            BY <1>0, <3>2 DEF CountOK
        <3>4. executed'[w] = committed'[w] + Len(buffer'[w]) /\ DOMAIN buffer'[w] = {}
            <4>1. Len(<<>>) = 0 /\ DOMAIN <<>> = {}
                OBVIOUS
            <4>2. Len(buffer[w]) \in Nat
                BY <1>0, LenProperties
            <4> QED
                BY <1>0, <2>2, <3>1, <3>3, <4>1, <4>2
        <3> QED
            BY <2>2, <2>5, <3>1, <3>2, <3>3, <3>4 DEF CountOK, Nth, Of
    <2> QED
        BY <2>3, <2>4, <2>5 DEF Threads
<1> QED
    BY <1>4, <1>5, <1>6 DEF Commit

\* CountOK is kept.
LEMMA CountStep ==
    ASSUME LogInv, [Next]_vars, NEW w \in Instances
    PROVE  CountOK(w)'
<1>0. IInv /\ CountOK(w)
    BY DEF LogInv, GInv
<1>1. CASE Moves(w)
    BY <1>1, CountOpen, CountExecute, CountOperate, CountClose, CountCommit DEF Moves
<1>2. CASE Same(w)
    <2>1. Kept(w)
        BY <1>2 DEF Same, Kept
    <2> QED
        BY <1>2, <2>1, CountKept DEF Same
<1>3. Moves(w) \/ Same(w)
    BY <1>0, OthersKept, WhoMoves
    DEF Same, StoreDelivers, leaseVars, dataVars, jobVars, commitVars
<1> QED
    BY <1>1, <1>2, <1>3

------------------------------------------------------------------------------
(* What a caller was told is durable. *)

\* The watermark of w moves only as its own flush or checkpoint settles, by what
\* was in the buffer.
LEMMA CommittedMoves ==
    ASSUME LogInv, [Next]_vars, NEW w \in Instances, committed'[w] # committed[w]
    PROVE  /\ CommitReplaced(w, "op") \/ RereadSettles(w, "op")
           /\ job[w] \in {"flush", "checkpoint"}
           /\ committed'[w] = committed[w] + Len(buffer[w])
<1> USE DEF leaseVars, dataVars, jobVars, commitVars
<1>0. /\ IInv /\ TypeOK /\ CountOK(w) /\ committed[w] \in Nat
    BY DEF LogInv, GInv, IInv, TypeOK
<1>1. Moves(w)
    BY <1>0, OthersKept, WhoMoves DEF Same, StoreDelivers
<1>2. committed' # committed
    OBVIOUS
<1>3. PICK t \in Threads : Commit(w, t)
    BY <1>1, <1>2 DEF Moves, Open, OpenFindsObject, OpenFindsNothing, OpenReadOnly,
        OpenCannotReadHead, Create, CreatedReadsBack, CreateReread, AcquireRefused, Acquire,
        AcquireReread, Restore, RestoreSnapshot, RestoreFails, UnwindReadsHead,
        UnwindReleases, Operate, SelfFence, Execute, StartFlush, StartCheckpoint, Uploaded,
        UploadedTooLate, UploadFails, Close, CloseStarts, CloseFenced, CloseFlushes,
        CloseLapsed, CloseReleases, CloseReader, HeartbeatFires, Crash
<1>4. CommitReplaced(w, t) \/ RereadSettles(w, t)
    BY <1>2, <1>3 DEF Commit, CommitUnsettled, CommitErrors, RereadFenced, RereadRetries,
        RereadGivesUp, RereadErrors, GiveUp
<1>5. PICK h : Settle(w, t, h)
    BY <1>4 DEF CommitReplaced, RereadSettles
<1>6. t = "op" /\ job[w] \in {"flush", "checkpoint"}
    BY <1>2, <1>5 DEF Settle, Intent, ReleaseDone, RenewDone, Threads
<1>7. committed'[w] = committed[w] + Len(buffer[w])
    <2>1. at[w]["op"] \in {"commit", "reread"}
        BY <1>4, <1>6 DEF CommitReplaced, RereadSettles, Attempting, Rereading
    <2> QED
        BY <1>5, <1>6, <2>1, SettledCounts
<1> QED
    BY <1>4, <1>6, <1>7

\* AckedOK is kept: the head loses nothing, and it has what is newly acknowledged.
LEMMA AckedStep ==
    ASSUME LogInv, [Next]_vars, NEW w \in Instances
    PROVE  AckedOK(w)'
<1>0. /\ IInv /\ HolderOK(w) /\ CountOK(w) /\ AckedOK(w)
      /\ buffer[w] \in Seq(Statement) /\ committed[w] \in Nat
    BY DEF LogInv, GInv, IInv, HoldersOK, TypeOK
<1>1. \A n \in 1 .. committed[w] : Nth(w, n) \in Restored(head)'
    BY <1>0, HeadGrows DEF AckedOK
<1>2. CASE committed'[w] = committed[w]
    BY <1>1, <1>2 DEF AckedOK, Nth
<1>3. CASE committed'[w] # committed[w]
    <2>1. /\ CommitReplaced(w, "op") \/ RereadSettles(w, "op")
          /\ job[w] \in {"flush", "checkpoint"}
          /\ committed'[w] = committed[w] + Len(buffer[w])
        BY <1>3, CommittedMoves
    <2>2. Of(content[key[w]]) \subseteq Restored(head)'
        BY <2>1, SettledHas
    <2>3. at[w]["op"] \in {"commit", "reread"} /\ phase[w] \in Writing /\ phase[w] \notin Ended
        BY <1>0, <2>1 DEF HolderOK, Writing, Ended, CommitReplaced, RereadSettles, Attempting,
            Rereading
    <2>4. /\ executed[w] = committed[w] + Len(buffer[w])
          /\ \A i \in DOMAIN buffer[w] : buffer[w][i] = Nth(w, committed[w] + i)
          /\ \A n \in 1 .. executed[w] : Nth(w, n) \in Of(local[w])
          /\ job[w] = "flush" => content[key[w]] = buffer[w]
          /\ job[w] = "checkpoint" => content[key[w]] = local[w]
        BY <1>0, <2>3 DEF CountOK
    <2>5. Len(buffer[w]) \in Nat /\ DOMAIN buffer[w] = 1 .. Len(buffer[w])
        BY <1>0, LenProperties
    <2>6. ASSUME NEW i \in 1 .. Len(buffer[w]) PROVE Nth(w, committed[w] + i) \in Restored(head)'
        <3>1. CASE job[w] = "flush"
            BY <2>2, <2>4, <2>5, <3>1 DEF Of
        <3>2. CASE job[w] = "checkpoint"
            <4>1. committed[w] + i \in 1 .. executed[w]
                BY <1>0, <2>4, <2>5
            <4> QED
                BY <2>2, <2>4, <3>2, <4>1
        <3> QED
            BY <2>1, <3>1, <3>2
    <2>7. ASSUME NEW n \in 1 .. committed'[w] PROVE Nth(w, n) \in Restored(head)'
        <3>1. CASE n <= committed[w]
            <4>1. n \in 1 .. committed[w]
                BY <1>0, <2>1, <2>5, <3>1
            <4> QED
                BY <1>1, <4>1
        <3>2. CASE n > committed[w]
            <4>1. PICK i \in 1 .. Len(buffer[w]) : n = committed[w] + i
                <5>1. n - committed[w] \in 1 .. Len(buffer[w])
                    BY <1>0, <2>1, <2>5, <3>2
                <5>2. n = committed[w] + (n - committed[w])
                    BY <1>0, <2>1, <2>5
                <5> QED
                    BY <5>1, <5>2
            <4> QED
                BY <2>6, <4>1
        <3> QED
            BY <1>0, <2>1, <2>5, <3>1, <3>2
    <2> QED
        BY <2>7 DEF AckedOK, Nth
<1> QED
    BY <1>2, <1>3

\* LogInv is kept by every step.
LEMMA LogInvStep == LogInv /\ [Next]_vars /\ Undisturbed' => LogInv'
<1> SUFFICES ASSUME LogInv, [Next]_vars, Undisturbed'
             PROVE  LogInv'
    OBVIOUS
<1>1. GInv'
    BY IInvStep, GrantsStep, HoldersStep, ClaimsStep DEF LogInv, GInv
<1>2. HeadsOK'
    BY HeadsStep
<1>3. \A w \in Instances : (KnownOK(w) /\ CountOK(w) /\ AckedOK(w))'
    BY KnownStep, CountStep, AckedStep
<1> QED
    BY <1>1, <1>2, <1>3 DEF LogInv

\* LogInv holds at first.
LEMMA InitLog == Init => LogInv
<1> SUFFICES ASSUME Init
             PROVE  LogInv
    OBVIOUS
<1>1. IInv /\ GrantsOK /\ HoldersOK
    BY InitIInv, InitGrants, InitHolders
<1>2. /\ head.gen \in {0, 1} /\ head.inst = Nobody /\ head.wal = <<>> /\ head.base = NoBase
      /\ late = {}
    BY ColdAssumption DEF Init, StoreInit, Released, Absent, WithLease
<1>3. \A w \in Instances :
         /\ phase[w] = "new" /\ at[w]["op"] = "idle" /\ buffer[w] = <<>>
         /\ cache[w].gen = 0 /\ cache[w].wal = <<>> /\ executed[w] = 0 /\ committed[w] = 0
    BY DEF Init, Threads, Absent
<1>4. ClaimsAreOld
    BY <1>2, <1>3, NobodyAssumption DEF ClaimsAreOld, ClaimsOK, Asking, Waiting
<1>5. HeadsOK
    BY <1>2, <1>3 DEF HeadsOK, Whole, Of
<1>6. ASSUME NEW w \in Instances PROVE KnownOK(w) /\ CountOK(w) /\ AckedOK(w)
    <2>1. KnownOK(w)
        BY <1>2, <1>3 DEF KnownOK, Serving, Writing
    <2>2. CountOK(w)
        BY <1>3 DEF CountOK, Writing
    <2>3. AckedOK(w)
        BY <1>3 DEF AckedOK
    <2> QED
        BY <2>1, <2>2, <2>3
<1> QED
    BY <1>1, <1>4, <1>5, <1>6 DEF LogInv, GInv

\* Occurs, of what a head restores.
LEMMA RestoredOccurs ==
    ASSUME LogInv, NEW s, s \in Restored(head)
    PROVE  Occurs(s, head)
<1>1. TypeOK /\ head \in HeadRecord /\ RefsPresent(head)
    BY HeadTypes DEF LogInv, GInv, IInv, NothingNamedIsMissing
<1>2. s \in Of(Replay(head))
    BY <1>1, OfReplay
<1> QED
    BY <1>2 DEF Of, Occurs

\* A flushThrough() ticket at or under the watermark is committed, one above it is
\* still in the buffer, whatever failed in between (src/durable/object.ts).
THEOREM WatermarkIsExact == Spec /\ Unraced => []WatermarkAccounts
<1>1. Init => LogInv
    BY InitLog
<1>2. LogInv /\ [Next]_vars /\ Undisturbed' => LogInv'
    BY LogInvStep
<1>3. LogInv => WatermarkAccounts
    <2> SUFFICES ASSUME LogInv, NEW w \in Instances, phase[w] \in Writing
                 PROVE  /\ executed[w] = committed[w] + Len(buffer[w])
                        /\ \A i \in DOMAIN buffer[w] : buffer[w][i].n = committed[w] + i
        BY DEF WatermarkAccounts
    <2>1. CountOK(w) /\ phase[w] \notin Ended
        BY DEF LogInv, Writing, Ended
    <2>2. ASSUME NEW i \in DOMAIN buffer[w] PROVE buffer[w][i].n = committed[w] + i
        <3>1. buffer[w][i] = Nth(w, committed[w] + i)
            BY <2>1 DEF CountOK
        <3> QED
            BY <3>1 DEF Nth
    <2> QED
        BY <2>1, <2>2 DEF CountOK
<1> QED
    BY <1>1, <1>2, <1>3, NobodyComesBetween, PTL DEF Spec

\* What flush(), flushThrough() or checkpoint() told a caller is durable stays in
\* what the next open() replays: for any number of handles, through takeovers,
\* forced or not, crashes, checkpoints and every answer the store may give.
THEOREM AckedWritesSurvive == Spec /\ Unraced => []AckedIsDurable
<1>1. Init => LogInv
    BY InitLog
<1>2. LogInv /\ [Next]_vars /\ Undisturbed' => LogInv'
    BY LogInvStep
<1>3. LogInv => AckedIsDurable
    <2> SUFFICES ASSUME LogInv, NEW w \in Instances, NEW n \in 1 .. committed[w]
                 PROVE  Occurs([inst |-> w, n |-> n], head)
        BY DEF AckedIsDurable
    <2>1. Nth(w, n) \in Restored(head)
        BY DEF LogInv, AckedOK
    <2> QED
        BY <2>1, RestoredOccurs DEF Nth
<1> QED
    BY <1>1, <1>2, <1>3, NobodyComesBetween, PTL DEF Spec

------------------------------------------------------------------------------
(* What close() leaves behind. *)

\* Once the final flush is out of the way nothing waits in the buffer; a read-only
\* handle never holds the lease, nor does one that closed.
BarrierOK(w) ==
    /\ phase[w] = "closing" /\ job[w] # "flush" => buffer[w] = <<>>
    /\ phase[w] \in Reading => head.inst # w
    /\ phase[w] = "closed" /\ ~fenced[w] => committed[w] = executed[w] /\ head.inst # w

\* A handle whose operation settles has returned it, or goes on with close() on an
\* empty buffer; a released lease names nobody.
LEMMA SettledBarrier ==
    ASSUME LogInv, [Next]_vars, NEW w \in Instances, BarrierOK(w),
           NEW t \in Threads, CommitReplaced(w, t) \/ RereadSettles(w, t)
    PROVE  \/ phase'[w] = phase[w] /\ UNCHANGED <<fenced, executed>>
              /\ \/ job'[w] = job[w] /\ UNCHANGED <<buffer, committed>>
                 \/ buffer'[w] = <<>> /\ phase[w] \in Writing
           \/ phase'[w] = "open"
           \/ /\ phase[w] = "closing" /\ job[w] = "release" /\ phase'[w] = "closed"
              /\ head'.inst = Nobody /\ UNCHANGED <<buffer, executed, committed>>
<1>0. /\ IInv /\ TypeOK /\ JobOK /\ HolderOK(w) /\ cache[w] \in HeadRecord
    BY DEF LogInv, GInv, IInv, HoldersOK, TypeOK
<1>1. Settle(w, t, head') /\ UNCHANGED executed
    BY <1>0, SettledSees DEF Settle
<1>2. CASE t = "hb"
    <2>1. UNCHANGED <<phase, job, fenced, buffer, committed>>
        BY <1>1, <1>2 DEF Settle, Intent, RenewDone
    <2> QED
        BY <1>1, <2>1
<1>3. CASE t = "op" /\ job[w] \in {"flush", "checkpoint"}
    <2>1. at[w]["op"] \in {"commit", "reread"} /\ phase[w] \in Writing
        BY <1>0, <1>3 DEF CommitReplaced, RereadSettles, Attempting, Rereading, HolderOK
    <2>2. UNCHANGED fenced
        BY <1>1, <1>3 DEF Settle, Intent, FlushDone, CheckpointDone
    <2> QED
        BY <1>1, <1>3, <2>1, <2>2, SettledCounts
<1>4. CASE t = "op" /\ job[w] = "release"
    <2>1. ReleaseDone(w) /\ phase[w] = "closing"
        BY <1>0, <1>1, <1>4 DEF Settle, Intent, HolderOK
    <2>2. head'.inst = Nobody
        <3>1. CASE CommitReplaced(w, t)
            <4>1. head' = Build(w, "op") /\ Attempting(w, "op")
                BY <1>4, <3>1 DEF CommitReplaced, HeadWrite
            <4> QED
                BY <1>0, <1>4, <4>1, BuildKinds DEF Gives
        <3>2. CASE RereadSettles(w, t)
            BY <1>4, <3>2 DEF RereadSettles, Proven, Intended, Intent, storeVars
        <3> QED
            BY <3>1, <3>2
    <2> QED
        BY <1>0, <1>1, <1>4, <2>1, <2>2 DEF ReleaseDone, Go, TypeOK
<1>5. CASE t = "op" /\ job[w] \notin {"flush", "checkpoint", "release"}
    <2>1. RenewDone(w, "op", head')
        BY <1>1, <1>5 DEF Settle, Intent
    <2> QED
        BY <1>0, <2>1 DEF RenewDone, Go, TypeOK
<1> QED
    BY <1>2, <1>3, <1>4, <1>5 DEF Threads

\* BarrierOK is kept: the buffer of a closing handle.
LEMMA BarrierBuffer ==
    ASSUME LogInv, [Next]_vars, NEW w \in Instances, BarrierOK(w), Moves(w),
           phase'[w] = "closing", job'[w] # "flush"
    PROVE  buffer'[w] = <<>>
<1> USE DEF leaseVars, dataVars, jobVars, commitVars
<1>0. IInv /\ TypeOK /\ JobOK /\ HolderOK(w)
    BY DEF LogInv, GInv, IInv, HoldersOK
<1>1. CASE phase[w] = "closing" /\ job'[w] = job[w] /\ buffer'[w] = buffer[w]
    BY <1>1 DEF BarrierOK
<1>2. ~Open(w)
    <2>1. Open(w) => phase[w] \in Writing
        BY <1>0, PhaseMoves DEF LogInv, GInv, Writing
    <2>2. Open(w) => phase[w] \notin Writing
        BY DEF Open, OpenFindsObject, OpenFindsNothing, OpenReadOnly, OpenCannotReadHead,
            Create, CreatedReadsBack, CreateReread, AcquireRefused, Acquire, AcquireReread,
            Restore, RestoreSnapshot, RestoreFails, UnwindReadsHead, UnwindReleases, Writing
    <2> QED
        BY <2>1, <2>2
<1>3. CASE Operate(w)
    <2>1. ~SelfFence(w) /\ ~Execute(w) /\ ~StartFlush(w) /\ ~StartCheckpoint(w)
        BY DEF SelfFence, Execute, StartFlush, StartCheckpoint, Ready
    <2>2. ~UploadedTooLate(w) /\ ~UploadFails(w)
        <3>1. ASSUME NEW told, FailJob(w, told) PROVE FALSE
            <4>1. phase'[w] = Failed(w)
                BY <1>0, <3>1 DEF FailJob, Go, Failed, TypeOK
            <4> QED
                BY <4>1 DEF Failed
        <3> QED
            BY <3>1 DEF UploadedTooLate, UploadFails
    <2>3. UNCHANGED <<phase, job, buffer>>
        BY <1>3, <2>1, <2>2 DEF Operate, Uploaded
    <2> QED
        BY <1>1, <2>3
<1>4. CASE Close(w)
    <2>1. ~CloseFlushes(w)
        BY <1>0 DEF CloseFlushes, StartUpload, Run, TypeOK
    <2>2. CloseReleases(w)
        BY <1>0, <1>4, <2>1 DEF Close, CloseStarts, CloseFenced, CloseLapsed, CloseReader, Go,
            TypeOK
    <2> QED
        BY <2>2 DEF CloseReleases, BarrierOK
<1>5. CASE HeartbeatFires(w) \/ Crash(w)
    BY <1>0, <1>5 DEF HeartbeatFires, Crash, Go, TypeOK
<1>6. ASSUME NEW t \in Threads, Commit(w, t) PROVE buffer'[w] = <<>>
    <2>1. CASE CommitReplaced(w, t) \/ RereadSettles(w, t)
        BY <2>1, SettledBarrier DEF BarrierOK
    <2>2. CASE ~CommitReplaced(w, t) /\ ~RereadSettles(w, t)
        <3>1. UNCHANGED buffer
            BY <1>6, <2>2 DEF Commit, CommitUnsettled, CommitErrors, RereadFenced,
                RereadRetries, RereadGivesUp, RereadErrors, GiveUp
        <3>2. phase'[w] # Failed(w)
            BY DEF Failed
        <3> QED
            BY <1>0, <1>1, <1>6, <2>2, <3>1, <3>2, UnsettledPhase
    <2> QED
        BY <2>1, <2>2
<1> QED
    BY <1>2, <1>3, <1>4, <1>5, <1>6 DEF Moves

\* BarrierOK is kept: what a closed handle made durable.
LEMMA BarrierClosed ==
    ASSUME LogInv, [Next]_vars, NEW w \in Instances, BarrierOK(w), Moves(w),
           phase'[w] = "closed", ~fenced'[w]
    PROVE  committed'[w] = executed'[w] /\ head'.inst # w
<1> USE DEF leaseVars, dataVars, jobVars, commitVars
<1>0. /\ GInv /\ IInv /\ HoldersOK /\ TypeOK /\ JobOK /\ HolderOK(w) /\ CountOK(w)
      /\ buffer[w] \in Seq(Statement) /\ executed[w] \in Nat /\ committed[w] \in Nat
    BY DEF LogInv, GInv, IInv, HoldersOK, TypeOK
<1>1. ASSUME phase[w] = "closed", ~fenced[w], UNCHANGED <<executed, committed>>
      PROVE  committed'[w] = executed'[w] /\ head'.inst # w
    <2>1. head.inst # w /\ committed[w] = executed[w] /\ phase[w] \in Past
        BY <1>1 DEF BarrierOK, Past, Phases, Ended, Taking, Asking, Waiting
    <2> QED
        BY <1>0, <1>1, <2>1, ComesToHold
<1>2. CASE Open(w) \/ Operate(w) \/ HeartbeatFires(w) \/ Crash(w)
    <2>1. phase[w] # "closed"
        BY <1>0, <1>2, PhaseMoves DEF Ended
    <2>2. ~Open(w)
        BY <1>0, <2>1 DEF Open, OpenFindsObject, OpenFindsNothing, OpenReadOnly,
            OpenCannotReadHead, Create, CreatedReadsBack, CreateReread, AcquireRefused, Acquire,
            AcquireReread, Restore, RestoreSnapshot, RestoreFails, UnwindReadsHead,
            UnwindReleases, Go, TypeOK
    <2>3. ~Operate(w)
        BY <1>0, <2>1, FailJobEffect DEF Operate, SelfFence, Execute, StartFlush,
            StartCheckpoint, Uploaded, UploadedTooLate, UploadFails
    <2>4. ~HeartbeatFires(w) /\ ~Crash(w)
        BY <1>0 DEF HeartbeatFires, Crash, Go, TypeOK
    <2> QED
        BY <1>2, <2>2, <2>3, <2>4
<1>3. CASE Close(w)
    <2>1. ~CloseStarts(w) /\ ~CloseFenced(w) /\ ~CloseFlushes(w) /\ ~CloseLapsed(w) /\ ~CloseReleases(w)
        BY <1>0 DEF CloseStarts, CloseFenced, CloseFlushes, CloseLapsed, CloseReleases, Go, TypeOK
    <2>2. CloseReader(w)
        BY <1>3, <2>1 DEF Close
    <2>3. /\ phase[w] \in Reading /\ phase[w] \notin Writing \union Ended
          /\ UNCHANGED <<head, executed, committed>>
        BY <2>2 DEF CloseReader, Reading, Writing, Ended, storeVars
    <2>4. executed[w] = committed[w] + Len(buffer[w]) /\ executed[w] = 0
        BY <1>0, <2>3 DEF CountOK
    <2>5. committed[w] = executed[w]
        <3>1. Len(buffer[w]) \in Nat
            BY <1>0, LenProperties
        <3> QED
            BY <1>0, <2>4, <3>1
    <2> QED
        BY <2>3, <2>5 DEF BarrierOK
<1>4. ASSUME NEW t \in Threads, Commit(w, t)
      PROVE  committed'[w] = executed'[w] /\ head'.inst # w
    <2>1. CASE CommitReplaced(w, t) \/ RereadSettles(w, t)
        <3>1. CASE /\ phase[w] = "closing" /\ job[w] = "release" /\ phase'[w] = "closed"
                   /\ head'.inst = Nobody /\ UNCHANGED <<buffer, executed, committed>>
            <4>1. buffer[w] = <<>> /\ executed[w] = committed[w] + Len(buffer[w])
                BY <1>0, <3>1 DEF BarrierOK, CountOK, Ended
            <4>2. Len(<<>>) = 0
                OBVIOUS
            <4>3. executed[w] = committed[w]
                BY <1>0, <4>1, <4>2
            <4> QED
                BY <3>1, <4>3, NobodyAssumption
        <3>2. CASE phase'[w] = phase[w] /\ UNCHANGED <<fenced, executed>>
                   /\ \/ job'[w] = job[w] /\ UNCHANGED <<buffer, committed>>
                      \/ buffer'[w] = <<>> /\ phase[w] \in Writing
            BY <1>1, <3>2 DEF Writing
        <3> QED
            BY <2>1, <3>1, <3>2, SettledBarrier
    <2>2. CASE ~CommitReplaced(w, t) /\ ~RereadSettles(w, t)
        <3>1. UNCHANGED <<executed, committed>> /\ (~fenced'[w] => ~fenced[w])
            BY <1>0, <1>4, <2>2 DEF Commit, CommitUnsettled, CommitErrors, RereadFenced,
                RereadRetries, RereadGivesUp, RereadErrors, GiveUp, TypeOK
        <3>2. phase[w] = "closed"
            <4>1. Failed(w) \in {phase[w], "closeFailed", "unwinding"}
                BY DEF Failed
            <4> QED
                BY <1>0, <1>4, <2>2, <4>1, UnsettledPhase
        <3> QED
            BY <1>1, <3>1, <3>2
    <2> QED
        BY <2>1, <2>2
<1> QED
    BY <1>2, <1>3, <1>4 DEF Moves

\* BarrierOK is kept: a reader is never given the lease.
LEMMA BarrierReads ==
    ASSUME LogInv, [Next]_vars, NEW w \in Instances, BarrierOK(w), phase'[w] \in Reading
    PROVE  head'.inst # w
<1> USE DEF leaseVars, dataVars, jobVars, commitVars
<1>0. GInv /\ IInv /\ TypeOK /\ HoldersOK /\ JobOK /\ HolderOK(w) /\ ClaimsOK(w)
    BY DEF LogInv, GInv, IInv, HoldersOK, ClaimsAreOld
<1>1. CASE phase[w] \in Reading
    <2>1. phase[w] \in Past
        BY <1>1 DEF Reading, Past, Phases, Taking, Asking, Waiting
    <2> QED
        BY <1>0, <1>1, <2>1, ComesToHold DEF BarrierOK
<1>2. CASE phase[w] \notin Reading
    <2>1. Moves(w)
        BY <1>0, <1>2, OthersKept, WhoMoves DEF Same, StoreDelivers
    <2>2. ASSUME NEW t \in Threads PROVE ~Commit(w, t)
        <3>1. Failed(w) \in {phase[w], "closeFailed", "unwinding"}
            BY DEF Failed
        <3> QED
            BY <1>0, <1>2, <3>1, CommitMoves DEF Reading
    <2>3. ~Operate(w)
        BY <1>0, <1>2, FailJobEffect DEF Reading, Operate, SelfFence, Execute, StartFlush,
            StartCheckpoint, Uploaded, UploadedTooLate, UploadFails
    <2>4. ~Close(w) /\ ~HeartbeatFires(w) /\ ~Crash(w)
        BY <1>0 DEF Reading, Close, CloseStarts, CloseFenced, CloseFlushes, CloseLapsed,
            CloseReleases, CloseReader, HeartbeatFires, Crash, Go, TypeOK
    <2>5. OpenReadOnly(w)
        BY <1>0, <1>2, <2>1, <2>2, <2>3, <2>4 DEF Moves, Reading, Open, OpenFindsObject,
            OpenFindsNothing, OpenCannotReadHead, Create, CreatedReadsBack, CreateReread,
            AcquireRefused, Acquire, AcquireReread, Restore, RestoreSnapshot, RestoreFails,
            UnwindReadsHead, UnwindReleases, Go, TypeOK
    <2> QED
        BY <1>0, <2>5 DEF OpenReadOnly, ClaimsOK, storeVars
<1> QED
    BY <1>1, <1>2

\* BarrierOK is kept.
LEMMA BarrierStep ==
    ASSUME LogInv, [Next]_vars, NEW w \in Instances, BarrierOK(w)
    PROVE  BarrierOK(w)'
<1>0. GInv /\ IInv /\ HoldersOK
    BY DEF LogInv, GInv
<1>1. phase'[w] \in Reading => head'.inst # w
    BY BarrierReads
<1>2. CASE Moves(w)
    BY <1>1, <1>2, BarrierBuffer, BarrierClosed DEF BarrierOK
<1>3. CASE Same(w)
    <2>1. phase[w] = "closed" /\ ~fenced[w] => committed[w] = executed[w] /\ head'.inst # w
        <3>1. phase[w] = "closed" => phase[w] \in Past
            BY DEF Past, Phases, Ended, Taking, Asking, Waiting
        <3> QED
            BY <1>0, <3>1, ComesToHold DEF BarrierOK
    <2> QED
        BY <1>1, <1>3, <2>1 DEF BarrierOK, Same
<1> QED
    BY <1>0, <1>2, <1>3, OthersKept, WhoMoves
    DEF Same, StoreDelivers, leaseVars, dataVars, jobVars, commitVars

\* A close() that resolves on a handle that was not fenced has made everything it
\* executed durable, and the instance no longer holds the lease: not then, and not
\* by a request of its own that the store still has.
THEOREM CloseIsDurable == Spec /\ Unraced => []CloseIsABarrier
<1> DEFINE BInv == LogInv /\ \A w \in Instances : BarrierOK(w)
<1>1. Init => BInv
    BY InitLog DEF Init, BarrierOK, Reading
<1>2. BInv /\ [Next]_vars /\ Undisturbed' => BInv'
    BY LogInvStep, BarrierStep
<1>3. BInv => CloseIsABarrier
    BY DEF BarrierOK, CloseIsABarrier
<1> QED
    BY <1>1, <1>2, <1>3, NobodyComesBetween, PTL DEF Spec

=============================================================================
