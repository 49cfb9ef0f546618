------------------------ MODULE DurableObject_proofs ------------------------
(***************************************************************************)
(* Proofs about DurableObject, for any number of handles, statements,      *)
(* uploads and clock ticks, any clock offsets and any faults.              *)
(***************************************************************************)
EXTENDS DurableObject, SequenceTheorems, TLAPS

Queues == {<<>>, <<"op">>, <<"hb">>, <<"op", "hb">>, <<"hb", "op">>}
InQueue(q, t) == \E i \in DOMAIN q : q[i] = t

\* The head lock: exactly the threads inside commitHead are in its queue, once
\* each, and only the first of them has sent a write.
LockOK ==
    \A w \in Instances :
        /\ lockq[w] \in Queues
        /\ \A t \in Threads :
             /\ at[w][t] \in {"commit", "reread"} <=> InQueue(lockq[w], t)
             /\ at[w][t] = "reread" => Head(lockq[w]) = t

\* An operation's key is its own.  Nothing is published under it until its upload
\* ends...
UploadKeyOK(w) ==
    at[w]["op"] = "upload" =>
        /\ job[w] \in {"flush", "checkpoint"}
        /\ key[w] \in Key /\ key[w] \notin published
        /\ key[w].inst = w

\* ...and something is by the time it commits.
CommitKeyOK(w) ==
    at[w]["op"] \in {"commit", "reread"} /\ job[w] \in {"flush", "checkpoint"} =>
        /\ key[w] \in Key /\ key[w] \in published
        /\ key[w].inst = w

KeyOK == \A w \in Instances : UploadKeyOK(w) /\ CommitKeyOK(w)

\* The queue runs at most one operation, and none outside confirming..closing.
JobOK ==
    \A w \in Instances :
        /\ job[w] = "none" <=> at[w]["op"] = "idle"
        /\ phase[w] \notin {"confirming"} \union Writing => job[w] = "none"
        /\ at[w]["hb"] # "upload"

IInv == TypeOK /\ LockOK /\ KeyOK /\ JobOK /\ NothingNamedIsMissing

------------------------------------------------------------------------------
(* The store. *)

\* The lines of an uploaded segment, as the manifest of a flush names them.
LEMMA TypeOfLines ==
    ASSUME TypeOK, NEW k \in Key
    PROVE  Lines(k) \in Seq(Line) /\ Len(Lines(k)) = Len(content[k])
BY DEF TypeOK, Lines, Line

\* A new object disturbs no manifest: its key was not named by anything.
LEMMA PublishKeepsRefs ==
    ASSUME TypeOK, NEW k \in Key, k \notin published, NEW s \in Seq(Statement),
           Publish(k, s), NEW h \in HeadRecord, RefsPresent(h)
    PROVE  RefsPresent(h)'
BY DEF TypeOK, Publish, RefsPresent, HeadRecord, Line

\* What a conditional head write (replaceIfMatch) can do, whatever it answers:
\* the head is left alone or, if it is the one expected, replaced.
LEMMA WriteEffect ==
    ASSUME NEW e, NEW n, NEW answer, HeadWrite(e, n, answer)
    PROVE  /\ head' = head \/ (head = e /\ head' = n)
           /\ late' \subseteq late \union {Write(e, n)}
           /\ UNCHANGED <<published, content>>
           /\ answer \in Answers
BY DEF HeadWrite, Matches, Answers

\* A head with another manifest: flush and checkpoint change nothing else.
LEMMA ManifestChange ==
    ASSUME NEW h \in HeadRecord, NEW base \in Key \union {NoBase}, NEW wal \in Seq(Line)
    PROVE  /\ WithManifest(h, base, wal) \in HeadRecord
           /\ WithManifest(h, base, wal).base = base
           /\ WithManifest(h, base, wal).wal = wal
           /\ WithManifest(h, base, wal).seq = h.seq + 1
           /\ WithManifest(h, base, wal).gen = h.gen
           /\ WithManifest(h, base, wal).inst = h.inst
           /\ WithManifest(h, base, wal).exp = h.exp
<1>1. h.seq + 1 \in Nat
    BY DEF HeadRecord
<1>2. ASSUME NEW n \in Nat, NEW g, g = [h EXCEPT !.base = base, !.wal = wal, !.seq = n]
      PROVE  /\ g \in HeadRecord
             /\ g.base = base /\ g.wal = wal /\ g.seq = n /\ g.gen = h.gen /\ g.inst = h.inst
             /\ g.exp = h.exp
    BY <1>2 DEF HeadRecord
<1> QED
    BY <1>1, <1>2 DEF WithManifest

\* A head with another lease: acquire, renew and release keep the manifest.
LEMMA LeaseChange ==
    ASSUME NEW h \in HeadRecord, NEW gen \in Nat, NEW inst \in Instances \union {Nobody},
           NEW exp \in Nat
    PROVE  /\ WithLease(h, gen, inst, exp) \in HeadRecord
           /\ WithLease(h, gen, inst, exp).base = h.base
           /\ WithLease(h, gen, inst, exp).wal = h.wal
           /\ WithLease(h, gen, inst, exp).seq = h.seq
           /\ WithLease(h, gen, inst, exp).gen = gen
           /\ WithLease(h, gen, inst, exp).inst = inst
           /\ WithLease(h, gen, inst, exp).exp = exp
           /\ RefsPresent(h) => RefsPresent(WithLease(h, gen, inst, exp))
BY DEF WithLease, HeadRecord, RefsPresent

\* A handle's clock and the expiry it writes are natural numbers.
LEMMA TypeOfClock ==
    ASSUME TypeOK, NEW w \in Instances
    PROVE  Clock(w) \in Nat /\ LeaseUntil(w) \in Nat
BY OffsetAssumption, TuningAssumption DEF LeaseUntil, Clock, TypeOK

\* What commitHead's build writes over a complete head is a complete head: it names
\* what that one named and, once the upload ended, the operation's key.
LEMMA TypeOfBuild ==
    ASSUME TypeOK, KeyOK, NEW w \in Instances, NEW t \in Threads,
           at[w][t] \in {"commit", "reread"}, RefsPresent(cache[w])
    PROVE  Build(w, t) \in HeadRecord /\ RefsPresent(Build(w, t))
<1> DEFINE h == cache[w]
           i == Intent(w, t)
<1>a. h \in HeadRecord
    BY DEF TypeOK
<1>0. h \in HeadRecord /\ h.base \in Key \union {NoBase} /\ h.wal \in Seq(Line) 
          /\ h.gen \in Nat /\ h.inst \in Instances \union {Nobody} /\ RefsPresent(h)
    BY <1>a DEF HeadRecord
<1>1. CASE i = "flush"
    <2> DEFINE old == h.wal
               new == Lines(key[w])
               wal == old \o new
    <2>1. key[w] \in Key /\ key[w] \in published
        BY <1>1 DEF Intent, KeyOK, UploadKeyOK, CommitKeyOK, Threads
    <2>2. new \in Seq(Line) /\ Len(new) = Len(content[key[w]])
        BY <2>1, TypeOfLines
    <2>3. Build(w, t) = WithManifest(h, h.base, wal)
        BY <1>1 DEF Build
    <2>4. old \in Seq(Line)
        BY <1>0
    <2>5. /\ wal \in Seq(Line)
          /\ Len(wal) = Len(old) + Len(new)
          /\ Len(old) \in Nat /\ Len(new) \in Nat
          /\ DOMAIN wal = 1 .. Len(wal)
          /\ \A n \in 1 .. Len(old) + Len(new) :
                wal[n] = IF n <= Len(old) THEN old[n] ELSE new[n - Len(old)]
        <3> HIDE DEF old, new
        <3> QED BY <2>2, <2>4, ConcatProperties, LenProperties
    <2>6. Build(w, t) \in HeadRecord /\ Build(w, t).wal = wal /\ Build(w, t).base = h.base
        <3>1. wal \in Seq(Line)
            BY <2>5
        <3> HIDE DEF wal, h
        <3>2. /\ WithManifest(h, h.base, wal) \in HeadRecord
              /\ WithManifest(h, h.base, wal).wal = wal
              /\ WithManifest(h, h.base, wal).base = h.base
            BY <1>0, <3>1, ManifestChange
        <3> QED BY <2>3, <3>2
    <2>7. ASSUME NEW n \in DOMAIN wal
          PROVE  wal[n].key \in published /\ wal[n].line \in DOMAIN content[wal[n].key]
        <3>0. n \in 1 .. Len(old) + Len(new)
            <4> HIDE DEF wal, old, new
            <4> QED BY <2>5
        <3>1. CASE n <= Len(old)
            <4>1. wal[n] = old[n] /\ n \in DOMAIN old
                <5> HIDE DEF wal, old, new
                <5> QED BY <3>0, <3>1, <2>4, <2>5, LenProperties
            <4> QED
                BY <4>1 DEF RefsPresent
        <3>2. CASE n > Len(old)
            <4> DEFINE l == n - Len(old)
            <4>1. wal[n] = new[l] /\ l \in 1 .. Len(new)
                <5> HIDE DEF wal, old, new
                <5> QED BY <3>0, <3>2, <2>5
            <4>2. l \in 1 .. Len(content[key[w]])
                BY <4>1, <2>2
            <4>3. wal[n] = [key |-> key[w], line |-> l]
                <5> HIDE DEF wal, old, l
                <5> QED BY <4>1, <4>2 DEF Lines
            <4>4. DOMAIN content[key[w]] = 1 .. Len(content[key[w]])
                BY <2>1, LenProperties DEF TypeOK
            <4> QED
                <5> HIDE DEF wal, old, new, l
                <5> QED BY <4>2, <4>3, <4>4, <2>1
        <3> QED
            <4> HIDE DEF old, new
            <4> QED BY <3>0, <3>1, <3>2, <2>5
    <2> QED
        BY <2>6, <2>7 DEF RefsPresent
<1>2. CASE i = "checkpoint"
    <2>1. key[w] \in Key /\ key[w] \in published
        BY <1>2 DEF Intent, KeyOK, UploadKeyOK, CommitKeyOK, Threads
    <2>2. Build(w, t) = WithManifest(h, key[w], <<>>)
        BY <1>2 DEF Build
    <2>3. Build(w, t) \in HeadRecord /\ Build(w, t).wal = <<>> /\ Build(w, t).base = key[w]
        <3> DEFINE none == <<>>
        <3>1. none \in Seq(Line)
            OBVIOUS
        <3>2. Build(w, t) = WithManifest(h, key[w], none)
            BY <2>2
        <3>3. key[w] \in Key \union {NoBase}
            BY <2>1
        <3> HIDE DEF h, none
        <3>4. /\ WithManifest(h, key[w], none) \in HeadRecord
              /\ WithManifest(h, key[w], none).wal = none
              /\ WithManifest(h, key[w], none).base = key[w]
            BY <1>0, <3>1, <3>3, ManifestChange
        <3> QED BY <3>2, <3>4 DEF none
    <2> QED
        BY <2>1, <2>3 DEF RefsPresent
<1>3. CASE i = "release"
    <2>1. Build(w, t) = WithLease(h, h.gen, Nobody, 0)
        BY <1>3 DEF Build, Unheld
    <2> HIDE DEF h
    <2>2. /\ WithLease(h, h.gen, Nobody, 0) \in HeadRecord
          /\ RefsPresent(WithLease(h, h.gen, Nobody, 0))
        BY <1>0, LeaseChange
    <2> QED
        BY <2>1, <2>2
<1>4. CASE i \notin {"flush", "checkpoint", "release"}
    <2>1. Build(w, t) = WithLease(h, h.gen, h.inst, LeaseUntil(w))
        BY <1>4 DEF Build
    <2> HIDE DEF h
    <2>2. /\ WithLease(h, h.gen, h.inst, LeaseUntil(w)) \in HeadRecord
          /\ RefsPresent(WithLease(h, h.gen, h.inst, LeaseUntil(w)))
        BY <1>0, LeaseChange, TypeOfClock
    <2> QED
        BY <2>1, <2>2
<1> QED
    BY <1>1, <1>2, <1>3, <1>4

------------------------------------------------------------------------------
(* Types: TypeOK in three parts, and what each building block keeps. *)

StoreTypes ==
    /\ head \in HeadRecord
    /\ published \subseteq Key
    /\ content \in [Key -> Seq(Statement)]
    /\ late \subseteq [expect : HeadRecord, next : HeadRecord]

ThreadTypes ==
    /\ at \in [Instances -> [Threads -> Steps]]
    /\ lockq \in [Instances -> Seq(Threads)]
    /\ attempts \in [Instances -> Nat]
    /\ doubt \in [Instances -> BOOLEAN]
    /\ written \in [Instances -> Nat]

HandleTypes ==
    /\ now \in Nat
    /\ phase \in [Instances -> Phases]
    /\ forced \in [Instances -> BOOLEAN]
    /\ cache \in [Instances -> HeadRecord]
    /\ local \in [Instances -> Seq(Statement)]
    /\ buffer \in [Instances -> Seq(Statement)]
    /\ executed \in [Instances -> Nat]
    /\ committed \in [Instances -> Nat]
    /\ fenced \in [Instances -> BOOLEAN]
    /\ deadline \in [Instances -> Nat]
    /\ job \in [Instances -> Jobs]
    /\ key \in [Instances -> Key \union {NoBase}]
    /\ result \in [Instances -> Results]
    /\ unproven \subseteq Instances

\* The type invariant, split by who changes what.
LEMMA TypeParts ==
    /\ TypeOK <=> StoreTypes /\ ThreadTypes /\ HandleTypes
    /\ TypeOK' <=> StoreTypes' /\ ThreadTypes' /\ HandleTypes'
BY DEF TypeOK, StoreTypes, ThreadTypes, HandleTypes

\* restoreInto() of a manifest whose objects all exist gives a sequence of
\* statements.
LEMMA TypeOfReplay ==
    ASSUME TypeOK, NEW h \in HeadRecord, RefsPresent(h)
    PROVE  Replay(h) \in Seq(Statement)
<1>1. BaseContent(h) \in Seq(Statement)
    BY DEF BaseContent, RefsPresent, TypeOK
<1> DEFINE tail == [i \in 1 .. Len(h.wal) |-> content[h.wal[i].key][h.wal[i].line]]
<1>2. Len(h.wal) \in Nat /\ DOMAIN h.wal = 1 .. Len(h.wal)
    BY DEF HeadRecord
<1>3. ASSUME NEW i \in 1 .. Len(h.wal)
      PROVE  content[h.wal[i].key][h.wal[i].line] \in Statement
    <2>1. /\ h.wal[i].key \in Key
          /\ h.wal[i].line \in DOMAIN content[h.wal[i].key]
        BY <1>2 DEF RefsPresent, TypeOK
    <2>2. content[h.wal[i].key] \in Seq(Statement)
        BY <2>1 DEF TypeOK
    <2> QED
        BY <2>1, <2>2
<1>4. tail \in Seq(Statement)
    BY <1>2, <1>3
<1> QED
    <2> HIDE DEF tail
    <2>1. BaseContent(h) \o tail \in Seq(Statement)
        BY <1>1, <1>4
    <2> QED
        BY <2>1 DEF Replay, tail

\* The deadline a renewal believes is a natural number.
LEMMA TypeOfBelieved ==
    ASSUME TypeOK, NEW w \in Instances, NEW h \in HeadRecord
    PROVE  Believed(w, h) \in Nat
BY TypeOfClock DEF Believed, Earlier, HeadRecord

\* A head write keeps the store well typed.
LEMMA WriteTypes ==
    ASSUME StoreTypes, NEW e \in HeadRecord, NEW n \in HeadRecord, NEW answer,
           HeadWrite(e, n, answer)
    PROVE  StoreTypes'
<1>1. Write(e, n) \in [expect : HeadRecord, next : HeadRecord]
    BY DEF Write
<1> QED
    BY <1>1, WriteEffect DEF StoreTypes

\* So does an upload.
LEMMA PublishTypes ==
    ASSUME StoreTypes, NEW k \in Key, NEW s \in Seq(Statement), Publish(k, s)
    PROVE  StoreTypes'
BY DEF StoreTypes, Publish

\* Types: a thread queues for the head lock.
LEMMA EnterTypes ==
    ASSUME ThreadTypes, NEW w \in Instances, NEW t \in Threads, Step(w, t, "commit"), Queue(w, t),
           attempts' \in [Instances -> Nat], UNCHANGED <<doubt, written>>
    PROVE  ThreadTypes'
<1>1. at' \in [Instances -> [Threads -> Steps]]
    BY DEF ThreadTypes, Step, Steps
<1>2. lockq' \in [Instances -> Seq(Threads)]
    BY DEF ThreadTypes, Queue
<1> QED
    BY <1>1, <1>2 DEF ThreadTypes

\* Types: a thread moves without touching the lock.
LEMMA MoveTypes ==
    ASSUME ThreadTypes, NEW w \in Instances, NEW t \in Threads, NEW s \in Steps, Step(w, t, s),
           attempts' \in [Instances -> Nat], doubt' \in [Instances -> BOOLEAN],
           written' \in [Instances -> Nat], UNCHANGED lockq
    PROVE  ThreadTypes'
BY DEF ThreadTypes, Step

\* Types: a thread leaves the head lock.
LEMMA LeaveTypes ==
    ASSUME ThreadTypes, NEW w \in Instances, NEW t \in Threads, LeaveLock(w, t),
           lockq[w] # <<>>
    PROVE  ThreadTypes'
<1>1. at' \in [Instances -> [Threads -> Steps]]
    BY DEF ThreadTypes, LeaveLock, Step, Steps
<1>2. lockq' \in [Instances -> Seq(Threads)]
    BY DEF ThreadTypes, LeaveLock
<1> QED
    BY <1>1, <1>2 DEF ThreadTypes, LeaveLock

\* A thread inside commitHead finds the lock's queue nonempty: Tail is safe.
LEMMA InsideQueue ==
    ASSUME LockOK, NEW w \in Instances, NEW t \in Threads, at[w][t] \in {"commit", "reread"}
    PROVE  lockq[w] # <<>>
BY DEF LockOK, InQueue

\* Types: a commit is proven and its operation carries on.
LEMMA SettleTypes ==
    ASSUME IInv, NEW w \in Instances, NEW t \in Threads, NEW h \in HeadRecord,
           at[w][t] \in {"commit", "reread"}, Settle(w, t, h)
    PROVE  ThreadTypes' /\ HandleTypes'
<1> USE DEF IInv
<1>1. ThreadTypes'
    BY InsideQueue, LeaveTypes, TypeParts DEF Settle
<1>2. /\ cache' \in [Instances -> HeadRecord]
      /\ UNCHANGED <<now, forced, local, executed, key, unproven>>
    BY DEF Settle, See, TypeOK
<1>3. CASE Intent(w, t) = "flush"
    <2>1. t = "op" /\ key[w] \in Key
        BY <1>3 DEF Intent, KeyOK, UploadKeyOK, CommitKeyOK, Threads
    <2> DEFINE n == Len(content[key[w]])
    <2>2. n \in Nat
        BY <2>1 DEF TypeOK
    <2>3. SubSeq(buffer[w], n + 1, Len(buffer[w])) \in Seq(Statement)
        BY <2>2 DEF TypeOK
    <2>4. FlushDone(w)
        BY <1>3 DEF Settle
    <2>5. /\ buffer' = [buffer EXCEPT ![w] = SubSeq(buffer[w], n + 1, Len(buffer[w]))]
          /\ committed' = [committed EXCEPT ![w] = committed[w] + n]
          /\ job' = [job EXCEPT ![w] = "none"]
          /\ result' = [result EXCEPT ![w] = "ok"]
          /\ UNCHANGED <<phase, fenced, deadline>>
        BY <2>4 DEF FlushDone, EndJob, Run
    <2> HIDE DEF n
    <2>6. buffer' \in [Instances -> Seq(Statement)] /\ committed' \in [Instances -> Nat]
        BY <2>2, <2>3, <2>5 DEF TypeOK
    <2> QED
        BY <1>1, <1>2, <2>5, <2>6 DEF TypeOK, HandleTypes, Jobs, Results
<1>4. CASE Intent(w, t) = "checkpoint"
    <2>1. CheckpointDone(w)
        BY <1>4 DEF Settle
    <2> QED
        BY <1>1, <1>2, <2>1
        DEF TypeOK, HandleTypes, CheckpointDone, EndJob, Run, Jobs, Results
<1>5. CASE Intent(w, t) = "release"
    <2>1. ReleaseDone(w)
        BY <1>5 DEF Settle
    <2> QED
        BY <1>1, <1>2, <2>1
        DEF TypeOK, HandleTypes, ReleaseDone, EndJob, Run, Go, Jobs, Results, Phases, Ended
<1>6. CASE Intent(w, t) \notin {"flush", "checkpoint", "release"}
    <2>1. RenewDone(w, t, h)
        BY <1>6 DEF Settle
    <2> QED
        BY <1>1, <1>2, <2>1, TypeOfBelieved
        DEF TypeOK, HandleTypes, RenewDone, EndJob, Run, Go, Jobs, Results, Phases, Writing
<1> QED
    BY <1>3, <1>4, <1>5, <1>6

\* Types: commitHead throws and its operation fails.
LEMMA GiveUpTypes ==
    ASSUME IInv, NEW w \in Instances, NEW t \in Threads, NEW told \in Results, NEW open \in BOOLEAN,
           at[w][t] \in {"commit", "reread"}, GiveUp(w, t, told, open),
           cache' \in [Instances -> HeadRecord], fenced' \in [Instances -> BOOLEAN]
    PROVE  ThreadTypes' /\ HandleTypes'
<1> USE DEF IInv
<1>1. ThreadTypes'
    BY InsideQueue, LeaveTypes, TypeParts DEF GiveUp
<1>2. UNCHANGED <<now, forced, deadline, local, buffer, executed, committed, key>>
    BY DEF GiveUp, dataVars
<1>3. CASE t = "hb"
    <2>1. UNCHANGED <<phase, job, result, unproven>>
        BY <1>3 DEF GiveUp
    <2> QED
        BY <1>1, <1>2, <2>1 DEF TypeOK, HandleTypes
<1>4. CASE t # "hb"
    <2> DEFINE p == CASE phase[w] = "closing"    -> "closeFailed"
                      [] phase[w] = "confirming" -> "unwinding"
                      [] OTHER                   -> phase[w]
    <2>1. /\ phase' = [phase EXCEPT ![w] = p]
          /\ job' = [job EXCEPT ![w] = "none"]
          /\ result' = [result EXCEPT ![w] = told]
        BY <1>4 DEF GiveUp, FailJob, EndJob, Run, Go
    <2>2. p \in Phases
        BY DEF TypeOK, Phases, Ended, Opening
    <2>3. unproven' \subseteq Instances
        BY <1>4 DEF GiveUp, TypeOK
    <2> HIDE DEF p
    <2> QED
        BY <1>1, <1>2, <2>1, <2>2, <2>3 DEF TypeOK, HandleTypes, Jobs
<1> QED
    BY <1>3, <1>4

\* Every step keeps the types.
LEMMA TypeStep ==
    ASSUME IInv, [Next]_vars
    PROVE  TypeOK'
<1> USE DEF IInv, storeVars, leaseVars, dataVars, jobVars, commitVars
<1>a. StoreTypes /\ ThreadTypes /\ HandleTypes
    BY TypeParts
<1>b. \A w \in Instances : cache[w] \in HeadRecord /\ cache[w].gen \in Nat /\ RefsPresent(cache[w])
    BY DEF TypeOK, HeadRecord, NothingNamedIsMissing
\* Opening.
<1>1. ASSUME NEW w \in Instances, OpenFindsObject(w) PROVE TypeOK'
    BY <1>1 DEF TypeOK, OpenFindsObject, See, Go, Phases, Opening
<1>2. ASSUME NEW w \in Instances, OpenFindsNothing(w) PROVE TypeOK'
    BY <1>2 DEF TypeOK, OpenFindsNothing, Go, Phases, Opening
<1>3. ASSUME NEW w \in Instances, OpenReadOnly(w) PROVE TypeOK'
    BY <1>3 DEF TypeOK, OpenReadOnly, See, Go, Phases, Reading
<1>4. ASSUME NEW w \in Instances, OpenCannotReadHead(w) PROVE TypeOK'
    BY <1>4 DEF TypeOK, OpenCannotReadHead, Go, Phases, Ended
<1>5. ASSUME NEW w \in Instances, Create(w) PROVE TypeOK'
    <2>1. PICK answer \in Answers :
            /\ HeadWrite(Absent, Created(w), answer)
            /\ Go(w, CASE answer = "replaced" -> "created"
                       [] answer = "error"    -> "openFailed"
                       [] OTHER               -> "createReread")
        BY <1>5 DEF Create
    <2>2. Absent \in HeadRecord
        BY DEF Absent, HeadRecord
    <2>3. Created(w) \in HeadRecord
        BY <2>2, TypeOfClock, LeaseChange DEF Created
    <2>4. StoreTypes'
        BY <1>a, <2>1, <2>2, <2>3, WriteTypes
    <2>5. ThreadTypes'
        BY <1>5, <1>a DEF Create, ThreadTypes
    <2>6. HandleTypes'
        BY <1>5, <1>a, <2>1 DEF Create, HandleTypes, Go, Phases, Opening, Ended
    <2> QED
        BY <2>4, <2>5, <2>6, TypeParts
<1>6. ASSUME NEW w \in Instances, CreatedReadsBack(w) PROVE TypeOK'
    BY <1>6 DEF TypeOK, CreatedReadsBack, See, Go, Phases, Opening
<1>7. ASSUME NEW w \in Instances, CreateReread(w) PROVE TypeOK'
    BY <1>7 DEF TypeOK, CreateReread, See, Go, Phases, Opening, Ended
<1>8. ASSUME NEW w \in Instances, AcquireRefused(w) PROVE TypeOK'
    BY <1>8 DEF TypeOK, AcquireRefused, Go, Phases, Ended
<1>9. ASSUME NEW w \in Instances, Acquire(w) PROVE TypeOK'
    <2>1. PICK answer \in Answers :
            /\ HeadWrite(cache[w], Acquired(w, cache[w]), answer)
            /\ IF answer = "replaced" THEN See(w, Acquired(w, cache[w])) ELSE UNCHANGED cache
            /\ Go(w, CASE answer = "replaced" -> "restoring"
                       [] answer = "error"    -> "openFailed"
                       [] OTHER               -> "acquireReread")
        BY <1>9 DEF Acquire
    <2>2. Acquired(w, cache[w]) \in HeadRecord
        <3>1. cache[w].gen + 1 \in Nat /\ cache[w] \in HeadRecord
            BY <1>b
        <3> QED
            BY <3>1, TypeOfClock, LeaseChange DEF Acquired
    <2>3. StoreTypes'
        BY <1>a, <1>b, <2>1, <2>2, WriteTypes
    <2>4. ThreadTypes'
        BY <1>9, <1>a DEF Acquire, ThreadTypes
    <2>5. cache' \in [Instances -> HeadRecord]
        BY <1>a, <2>1, <2>2 DEF HandleTypes, See
    <2>6. phase' \in [Instances -> Phases]
        BY <1>a, <2>1 DEF HandleTypes, Go, Phases, Opening, Ended
    <2>7. HandleTypes'
        BY <1>9, <1>a, <2>5, <2>6 DEF Acquire, HandleTypes
    <2> QED
        BY <2>3, <2>4, <2>7, TypeParts
<1>10. ASSUME NEW w \in Instances, AcquireReread(w) PROVE TypeOK'
    BY <1>10 DEF TypeOK, AcquireReread, See, Go, Phases, Opening, Ended
<1>11. ASSUME NEW w \in Instances, Restore(w) PROVE TypeOK'
    <2>1. Replay(cache[w]) \in Seq(Statement) /\ Believed(w, cache[w]) \in Nat
        BY <1>b, TypeOfReplay, TypeOfBelieved
    <2>2. ThreadTypes'
        BY <1>11, <1>a, EnterTypes DEF Restore, ThreadTypes, Threads
    <2>3. HandleTypes' /\ StoreTypes'
        BY <1>11, <1>a, <2>1 DEF Restore, HandleTypes, StoreTypes, Go, Run, Phases, Opening, Jobs
    <2> QED
        BY <2>2, <2>3, TypeParts
<1>12. ASSUME NEW w \in Instances, RestoreSnapshot(w) PROVE TypeOK'
    <2>1. Replay(cache[w]) \in Seq(Statement)
        BY <1>b, TypeOfReplay
    <2> QED
        BY <1>12, <2>1 DEF TypeOK, RestoreSnapshot, Go, Phases, Reading
<1>13. ASSUME NEW w \in Instances, RestoreFails(w) PROVE TypeOK'
    BY <1>13 DEF TypeOK, RestoreFails, Go, Phases, Opening, Ended
<1>14. ASSUME NEW w \in Instances, UnwindReadsHead(w) PROVE TypeOK'
    BY <1>14 DEF TypeOK, UnwindReadsHead, See, Go, Phases, Opening, Ended
<1>15. ASSUME NEW w \in Instances, UnwindReleases(w) PROVE TypeOK'
    <2>1. PICK answer \in Answers : HeadWrite(cache[w], Unheld(cache[w]), answer)
        BY <1>15 DEF UnwindReleases
    <2>2. Unheld(cache[w]) \in HeadRecord
        BY <1>b, LeaseChange DEF Unheld
    <2>3. StoreTypes'
        BY <1>a, <1>b, <2>1, <2>2, WriteTypes
    <2>4. ThreadTypes' /\ HandleTypes'
        BY <1>15, <1>a DEF UnwindReleases, ThreadTypes, HandleTypes, Go, Phases, Ended
    <2> QED
        BY <2>3, <2>4, TypeParts
\* The operation queue.
<1>16. ASSUME NEW w \in Instances, SelfFence(w) PROVE TypeOK'
    BY <1>16 DEF TypeOK, SelfFence
<1>17. ASSUME NEW w \in Instances, Execute(w) PROVE TypeOK'
    <2> DEFINE s == [inst |-> w, n |-> executed[w] + 1]
    <2>1. s \in Statement
        BY DEF TypeOK, Statement
    <2> HIDE DEF s
    <2>2. Append(local[w], s) \in Seq(Statement) /\ Append(buffer[w], s) \in Seq(Statement)
        BY <2>1 DEF TypeOK
    <2>3. /\ local' = [local EXCEPT ![w] = Append(local[w], s)]
          /\ buffer' = [buffer EXCEPT ![w] = Append(buffer[w], s)]
        BY <1>17 DEF Execute, s
    <2>4. local' \in [Instances -> Seq(Statement)] /\ buffer' \in [Instances -> Seq(Statement)]
        BY <2>2, <2>3 DEF TypeOK
    <2> QED
        BY <1>17, <2>4 DEF TypeOK, Execute
<1>18. ASSUME NEW w \in Instances, StartFlush(w) PROVE TypeOK'
    BY <1>18 DEF TypeOK, StartFlush, StartUpload, Run, Step, NextKey, Unused, Jobs, Results, Steps, Threads
<1>19. ASSUME NEW w \in Instances, StartCheckpoint(w) PROVE TypeOK'
    BY <1>19 DEF TypeOK, StartCheckpoint, StartUpload, Run, Step, NextKey, Unused, Jobs, Results, Steps,
             Threads
<1>c. ASSUME NEW w \in Instances, Uploading(w)
      PROVE  key[w] \in Key /\ Payload(w) \in Seq(Statement)
    BY <1>c DEF Uploading, KeyOK, UploadKeyOK, CommitKeyOK, Payload, TypeOK
<1>20. ASSUME NEW w \in Instances, Uploaded(w) PROVE TypeOK'
    <2>1. StoreTypes'
        BY <1>20, <1>a, <1>c, PublishTypes DEF Uploaded
    <2>2. ThreadTypes'
        BY <1>20, <1>a, EnterTypes DEF Uploaded, ThreadTypes, Threads
    <2>3. HandleTypes'
        BY <1>20, <1>a DEF Uploaded, HandleTypes
    <2> QED
        BY <2>1, <2>2, <2>3, TypeParts
<1>d. ASSUME NEW w \in Instances, NEW told \in Results, FailJob(w, told)
      PROVE  /\ phase' \in [Instances -> Phases] /\ job' \in [Instances -> Jobs]
             /\ result' \in [Instances -> Results]
    <2> DEFINE p == CASE phase[w] = "closing"    -> "closeFailed"
                      [] phase[w] = "confirming" -> "unwinding"
                      [] OTHER                   -> phase[w]
    <2>1. /\ phase' = [phase EXCEPT ![w] = p]
          /\ job' = [job EXCEPT ![w] = "none"]
          /\ result' = [result EXCEPT ![w] = told]
        BY <1>d DEF FailJob, EndJob, Run, Go
    <2>2. p \in Phases
        BY DEF TypeOK, Phases, Ended, Opening
    <2> HIDE DEF p
    <2> QED
        BY <2>1, <2>2 DEF TypeOK, Jobs
<1>21. ASSUME NEW w \in Instances, UploadedTooLate(w) PROVE TypeOK'
    <2>1. StoreTypes'
        BY <1>21, <1>a, <1>c, PublishTypes DEF UploadedTooLate
    <2>2. ThreadTypes'
        BY <1>21, <1>a, MoveTypes DEF UploadedTooLate, ThreadTypes, Threads, Steps
    <2>3. "fenced" \in Results
        BY DEF Results
    <2>4. HandleTypes'
        BY <1>21, <1>a, <1>d, <2>3 DEF UploadedTooLate, HandleTypes
    <2> QED
        BY <2>1, <2>2, <2>4, TypeParts
<1>22. ASSUME NEW w \in Instances, UploadFails(w) PROVE TypeOK'
    <2>1. Publish(key[w], Payload(w)) \/ UNCHANGED <<head, published, content, late>>
        BY <1>22 DEF UploadFails
    <2>2. StoreTypes'
        BY <1>22, <2>1, <1>a, <1>c, PublishTypes DEF UploadFails, StoreTypes
    <2>3. ThreadTypes'
        BY <1>22, <1>a, MoveTypes DEF UploadFails, ThreadTypes, Threads, Steps
    <2>4. "backend" \in Results
        BY DEF Results
    <2>5. HandleTypes'
        BY <1>22, <1>a, <1>d, <2>4 DEF UploadFails, HandleTypes
    <2> QED
        BY <2>2, <2>3, <2>5, TypeParts
\* commitHead.
<1>e. ASSUME NEW w \in Instances, NEW t \in Threads, Attempting(w, t) \/ Rereading(w, t)
      PROVE  /\ at[w][t] \in {"commit", "reread"}
             /\ cache[w] \in HeadRecord /\ Build(w, t) \in HeadRecord
    <2>1. at[w][t] \in {"commit", "reread"}
        BY <1>e DEF Attempting, Rereading
    <2> QED
        BY <2>1, <1>b, TypeOfBuild
<1>23. ASSUME NEW w \in Instances, NEW t \in Threads, CommitReplaced(w, t) PROVE TypeOK'
    <2>1. Attempting(w, t) /\ HeadWrite(cache[w], Build(w, t), "replaced")
        BY <1>23 DEF CommitReplaced
    <2>2. StoreTypes'
        BY <2>1, <1>a, <1>e, WriteTypes
    <2>3. ThreadTypes' /\ HandleTypes'
        BY <1>23, <2>1, <1>e, SettleTypes DEF CommitReplaced
    <2> QED
        BY <2>2, <2>3, TypeParts
<1>24. ASSUME NEW w \in Instances, NEW t \in Threads, CommitUnsettled(w, t) PROVE TypeOK'
    <2>1. PICK answer \in {"not-replaced", "ambiguous"} :
            /\ HeadWrite(cache[w], Build(w, t), answer)
            /\ doubt' = [doubt EXCEPT ![w] = @ \/ answer = "ambiguous"]
        BY <1>24 DEF CommitUnsettled
    <2>2. StoreTypes'
        BY <1>24, <2>1, <1>a, <1>e, WriteTypes DEF CommitUnsettled
    <2>3. doubt' \in [Instances -> BOOLEAN]
        BY <2>1, <1>a DEF ThreadTypes
    <2>4. attempts' \in [Instances -> Nat] /\ written' \in [Instances -> Nat]
        BY <1>24, <1>a, TypeOfClock DEF CommitUnsettled, ThreadTypes
    <2>5. ThreadTypes'
        BY <1>24, <1>a, <2>3, <2>4, MoveTypes DEF CommitUnsettled, Steps
    <2>6. HandleTypes'
        BY <1>24, <1>a DEF CommitUnsettled, HandleTypes
    <2> QED
        BY <2>2, <2>5, <2>6, TypeParts
<1>25. ASSUME NEW w \in Instances, NEW t \in Threads, CommitErrors(w, t) PROVE TypeOK'
    <2>1. /\ Attempting(w, t) /\ HeadWrite(cache[w], Build(w, t), "error")
          /\ GiveUp(w, t, "backend", TRUE) /\ UNCHANGED <<cache, fenced>>
        BY <1>25 DEF CommitErrors
    <2>2. StoreTypes'
        BY <2>1, <1>a, <1>e, WriteTypes
    <2>3. "backend" \in Results /\ cache' \in [Instances -> HeadRecord]
          /\ fenced' \in [Instances -> BOOLEAN]
        BY <2>1 DEF Results, TypeOK
    <2>4. ThreadTypes' /\ HandleTypes'
        BY <2>1, <2>3, <1>e, GiveUpTypes
    <2> QED
        BY <2>2, <2>4, TypeParts
<1>26. ASSUME NEW w \in Instances, NEW t \in Threads, RereadSettles(w, t) PROVE TypeOK'
    <2>1. head \in HeadRecord /\ StoreTypes'
        BY <1>26, <1>a DEF RereadSettles, StoreTypes
    <2>2. ThreadTypes' /\ HandleTypes'
        BY <1>26, <2>1, <1>e, SettleTypes DEF RereadSettles
    <2> QED
        BY <2>1, <2>2, TypeParts
<1>f. ASSUME NEW w \in Instances, NEW t \in Threads, NEW told \in Results, NEW open \in BOOLEAN,
             Rereading(w, t), GiveUp(w, t, told, open), UNCHANGED storeVars,
             cache' \in [Instances -> HeadRecord], fenced' \in [Instances -> BOOLEAN]
      PROVE  TypeOK'
    <2>1. StoreTypes'
        BY <1>a, <1>f DEF StoreTypes
    <2>2. ThreadTypes' /\ HandleTypes'
        BY <1>e, <1>f, GiveUpTypes
    <2> QED
        BY <2>1, <2>2, TypeParts
<1>27. ASSUME NEW w \in Instances, NEW t \in Threads, RereadFenced(w, t) PROVE TypeOK'
    <2>1. /\ Rereading(w, t) /\ GiveUp(w, t, "fenced", doubt[w])
          /\ UNCHANGED storeVars
        BY <1>27 DEF RereadFenced
    <2>2. /\ "fenced" \in Results /\ doubt[w] \in BOOLEAN
          /\ cache' \in [Instances -> HeadRecord] /\ fenced' \in [Instances -> BOOLEAN]
        BY <1>27 DEF RereadFenced, Results, TypeOK
    <2> QED
        BY <2>1, <2>2, <1>f
<1>28. ASSUME NEW w \in Instances, NEW t \in Threads, RereadRetries(w, t) PROVE TypeOK'
    <2>1. StoreTypes' /\ HandleTypes'
        BY <1>28, <1>a DEF RereadRetries, StoreTypes, HandleTypes, See
    <2>2. ThreadTypes'
        BY <1>28, <1>a, MoveTypes DEF RereadRetries, ThreadTypes, Steps
    <2> QED
        BY <2>1, <2>2, TypeParts
<1>29. ASSUME NEW w \in Instances, NEW t \in Threads, RereadGivesUp(w, t) PROVE TypeOK'
    <2> DEFINE told == IF doubt[w] THEN "ambiguous" ELSE "timeout"
    <2>1. /\ Rereading(w, t) /\ GiveUp(w, t, told, doubt[w])
          /\ UNCHANGED storeVars
        BY <1>29 DEF RereadGivesUp
    <2>2. /\ told \in Results /\ doubt[w] \in BOOLEAN
          /\ cache' \in [Instances -> HeadRecord] /\ fenced' \in [Instances -> BOOLEAN]
        BY <1>29 DEF RereadGivesUp, Results, TypeOK, See
    <2> HIDE DEF told
    <2> QED
        BY <2>1, <2>2, <1>f
<1>30. ASSUME NEW w \in Instances, NEW t \in Threads, RereadErrors(w, t) PROVE TypeOK'
    <2>1. /\ Rereading(w, t) /\ GiveUp(w, t, "backend", TRUE)
          /\ UNCHANGED storeVars
        BY <1>30 DEF RereadErrors
    <2>2. /\ "backend" \in Results
          /\ cache' \in [Instances -> HeadRecord] /\ fenced' \in [Instances -> BOOLEAN]
        BY <1>30 DEF RereadErrors, Results, TypeOK
    <2> QED
        BY <2>1, <2>2, <1>f
\* Heartbeat, close, crash.
<1>31. ASSUME NEW w \in Instances, HeartbeatFires(w) PROVE TypeOK'
    <2>1. ThreadTypes'
        BY <1>31, <1>a, EnterTypes DEF HeartbeatFires, ThreadTypes, Threads
    <2>2. StoreTypes' /\ HandleTypes'
        BY <1>31, <1>a DEF HeartbeatFires, StoreTypes, HandleTypes
    <2> QED
        BY <2>1, <2>2, TypeParts
<1>32. ASSUME NEW w \in Instances, CloseStarts(w) PROVE TypeOK'
    BY <1>32 DEF TypeOK, CloseStarts, Go, Phases, Writing
<1>33. ASSUME NEW w \in Instances, CloseFenced(w) PROVE TypeOK'
    BY <1>33 DEF TypeOK, CloseFenced, Go, Phases, Ended
<1>34. ASSUME NEW w \in Instances, CloseFlushes(w) PROVE TypeOK'
    BY <1>34 DEF TypeOK, CloseFlushes, StartUpload, Run, Step, Go, NextKey, Unused, Jobs, Results,
             Steps, Threads, Phases, Writing
<1>35. ASSUME NEW w \in Instances, CloseLapsed(w) PROVE TypeOK'
    BY <1>35 DEF TypeOK, CloseLapsed, Go, Phases, Ended
<1>36. ASSUME NEW w \in Instances, CloseReleases(w) PROVE TypeOK'
    <2>1. ThreadTypes'
        BY <1>36, <1>a, EnterTypes DEF CloseReleases, ThreadTypes, Threads
    <2>2. StoreTypes' /\ HandleTypes'
        BY <1>36, <1>a DEF CloseReleases, StoreTypes, HandleTypes, Go, Run, Phases, Writing, Jobs
    <2> QED
        BY <2>1, <2>2, TypeParts
<1>37. ASSUME NEW w \in Instances, CloseReader(w) PROVE TypeOK'
    BY <1>37 DEF TypeOK, CloseReader, Go, Phases, Ended
<1>38. ASSUME NEW w \in Instances, Crash(w) PROVE TypeOK'
    BY <1>38 DEF TypeOK, Crash, Go, Phases, Ended, Jobs, Steps, Threads
<1>39. CASE StoreDelivers
    BY <1>39 DEF TypeOK, StoreDelivers, LateWriteArrives
<1>40. CASE Tick
    BY <1>40 DEF TypeOK, Tick
<1>41. CASE UNCHANGED vars
    BY <1>41 DEF TypeOK, vars
<1> QED
    BY <1>1, <1>2, <1>3, <1>4, <1>5, <1>6, <1>7, <1>8, <1>9, <1>10, <1>11, <1>12, <1>13, <1>14,
       <1>15, <1>16, <1>17, <1>18, <1>19, <1>20, <1>21, <1>22, <1>23, <1>24, <1>25, <1>26, <1>27,
       <1>28, <1>29, <1>30, <1>31, <1>32, <1>33, <1>34, <1>35, <1>36, <1>37, <1>38, <1>39, <1>40,
       <1>41
    DEF Next, Open, Operate, Commit, Close

------------------------------------------------------------------------------
(* The head lock. *)

\* A one-element queue and who joins it.
LEMMA AppendPair ==
    ASSUME NEW S, NEW a \in S, NEW b \in S
    PROVE  Append(<<a>>, b) = <<a, b>>
<1> DEFINE s == <<a>>
           p == <<a, b>>
<1>1. s \in Seq(S) /\ Len(s) = 1 /\ s[1] = a
    OBVIOUS
<1>2. p \in Seq(S) 
    OBVIOUS
<1>5. Len(p) = 2 
    OBVIOUS
<1>6. p[1] = a 
    OBVIOUS
<1>7. p[2] = b
    OBVIOUS
<1> HIDE DEF s, p
<1>3. /\ Append(s, b) \in Seq(S) /\ Len(Append(s, b)) = 2
      /\ Append(s, b)[1] = a /\ Append(s, b)[2] = b
    <2>1. /\ Append(s, b) \in Seq(S)
          /\ Len(Append(s, b)) = Len(s) + 1
          /\ \A i \in 1 .. Len(s) : Append(s, b)[i] = s[i]
          /\ Append(s, b)[Len(s) + 1] = b
        BY <1>1, AppendProperties, ZenonT(30)
    <2> QED BY <1>1, <2>1
<1>4. Append(s, b) = p
    <2> DEFINE q == Append(s, b)
    <2>1. q \in Seq(S) /\ Len(q) = Len(p) /\ \A i \in 1 .. Len(q) : q[i] = p[i]
        BY <1>2, <1>3, <1>5, <1>6, <1>7
    <2> HIDE DEF q
    <2>2. q = p
        BY <1>2, <2>1, SeqEqual
    <2> QED BY <2>2 DEF q
<1> QED
    BY <1>4 DEF s, p

\* The head lock's queue, computed: joins and departures of two threads.
LEMMA QueueSteps ==
    /\ Append(<<>>, "op") = <<"op">>
    /\ Append(<<>>, "hb") = <<"hb">>
    /\ Append(<<"op">>, "hb") = <<"op", "hb">>
    /\ Append(<<"hb">>, "op") = <<"hb", "op">>
    /\ Tail(<<"op">>) = <<>>
    /\ Tail(<<"hb">>) = <<>>
    /\ Tail(<<"op", "hb">>) = <<"hb">>
    /\ Tail(<<"hb", "op">>) = <<"op">>
    /\ Head(<<"op">>) = "op"
    /\ Head(<<"hb">>) = "hb"
    /\ Head(<<"op", "hb">>) = "op"
    /\ Head(<<"hb", "op">>) = "hb"
<1>1. /\ Append(<<>>, "op") = <<"op">>
      /\ Append(<<>>, "hb") = <<"hb">>
    OBVIOUS
<1>5. /\ Append(<<"op">>, "hb") = <<"op", "hb">>
      /\ Append(<<"hb">>, "op") = <<"hb", "op">>
    <2>1. "op" \in Threads /\ "hb" \in Threads
        BY DEF Threads
    <2> QED
        BY <2>1, AppendPair, Zenon
<1>2. /\ Tail(<<"op">>) = <<>>
      /\ Tail(<<"hb">>) = <<>>
    OBVIOUS
<1>3. /\ Tail(<<"op", "hb">>) = <<"hb">>
      /\ Tail(<<"hb", "op">>) = <<"op">>
    OBVIOUS
<1>4. /\ Head(<<"op">>) = "op"
      /\ Head(<<"hb">>) = "hb"
      /\ Head(<<"op", "hb">>) = "op"
      /\ Head(<<"hb", "op">>) = "hb"
    OBVIOUS
<1> QED
    BY <1>1, <1>2, <1>3, <1>4, <1>5

\* Who is in each queue.
LEMMA QueueMembers ==
    ASSUME NEW t \in Threads
    PROVE  /\ ~InQueue(<<>>, t)
           /\ InQueue(<<"op">>, t) <=> t = "op"
           /\ InQueue(<<"hb">>, t) <=> t = "hb"
           /\ InQueue(<<"op", "hb">>, t)
           /\ InQueue(<<"hb", "op">>, t)
BY DEF InQueue, Threads

\* Steps outside the mutex leave it alone.
LEMMA LockKeep ==
    ASSUME LockOK, UNCHANGED <<at, lockq>>
    PROVE  LockOK'
BY DEF LockOK

\* Mutex.run of the head lock: a thread not in the queue joins its end.
LEMMA LockEnter ==
    ASSUME TypeOK, LockOK, NEW w \in Instances, NEW t \in Threads,
           at[w][t] \notin {"commit", "reread"}, Step(w, t, "commit"), Queue(w, t)
    PROVE  LockOK'
<1>1. \A v \in Instances : v # w => at'[v] = at[v] /\ lockq'[v] = lockq[v]
    BY DEF TypeOK, Step, Queue
<1>2. /\ lockq'[w] = Append(lockq[w], t)
      /\ at'[w][t] = "commit"
      /\ \A u \in Threads : u # t => at'[w][u] = at[w][u]
    BY DEF TypeOK, Step, Queue
<1>3. lockq[w] \in Queues /\ ~InQueue(lockq[w], t)
    BY DEF LockOK
<1>4. \/ lockq[w] = <<>>
      \/ lockq[w] = <<"op">> /\ t = "hb"
      \/ lockq[w] = <<"hb">> /\ t = "op"
    BY <1>3, QueueMembers DEF Queues, Threads
<1>5. /\ lockq'[w] \in Queues
      /\ \A u \in Threads : InQueue(lockq'[w], u) <=> u = t \/ InQueue(lockq[w], u)
      /\ lockq[w] # <<>> => Head(lockq'[w]) = Head(lockq[w])
    BY <1>2, <1>4, QueueSteps, QueueMembers DEF Queues, Threads
<1>6. \A u \in Threads : at[w][u] = "reread" => lockq[w] # <<>>
    BY InsideQueue
<1>7. ASSUME NEW u \in Threads
      PROVE  /\ at'[w][u] \in {"commit", "reread"} <=> InQueue(lockq'[w], u)
             /\ at'[w][u] = "reread" => Head(lockq'[w]) = u
    <2>1. CASE u = t
        BY <2>1, <1>2, <1>5
    <2>2. CASE u # t
        BY <2>2, <1>2, <1>5, <1>6 DEF LockOK
    <2> QED
        BY <2>1, <2>2
<1>8. ASSUME NEW v \in Instances, v # w, NEW u \in Threads
      PROVE  /\ lockq'[v] \in Queues
             /\ at'[v][u] \in {"commit", "reread"} <=> InQueue(lockq'[v], u)
             /\ at'[v][u] = "reread" => Head(lockq'[v]) = u
    BY <1>1, <1>8 DEF LockOK
<1> QED
    BY <1>5, <1>7, <1>8 DEF LockOK, Queues, InQueue, Threads

\* The holder leaves, and the next one in the queue becomes the holder.
LEMMA LockLeave ==
    ASSUME TypeOK, LockOK, NEW w \in Instances, NEW t \in Threads,
           at[w][t] \in {"commit", "reread"}, Head(lockq[w]) = t, LeaveLock(w, t)
    PROVE  LockOK'
<1>1. \A v \in Instances : v # w => at'[v] = at[v] /\ lockq'[v] = lockq[v]
    BY DEF TypeOK, Step, LeaveLock
<1>2. /\ lockq'[w] = Tail(lockq[w])
      /\ at'[w][t] = "idle"
      /\ \A u \in Threads : u # t => at'[w][u] = at[w][u]
    BY DEF TypeOK, Step, LeaveLock
<1>3. lockq[w] \in Queues /\ lockq[w] # <<>>
    BY InsideQueue DEF LockOK
<1>4. /\ lockq'[w] \in Queues
      /\ \A u \in Threads : InQueue(lockq'[w], u) <=> u # t /\ InQueue(lockq[w], u)
    BY <1>2, <1>3, QueueSteps, QueueMembers DEF Queues, Threads
<1>5. \A u \in Threads : u # t => at[w][u] # "reread"
    BY DEF LockOK
<1> QED
    BY <1>1, <1>2, <1>4, <1>5 DEF LockOK

\* A thread moves within the lock, or without it.
LEMMA LockMove ==
    ASSUME TypeOK, LockOK, NEW w \in Instances, NEW t \in Threads, NEW s \in Steps,
           Step(w, t, s), UNCHANGED lockq,
           at[w][t] \in {"commit", "reread"} <=> s \in {"commit", "reread"},
           s = "reread" => Head(lockq[w]) = t
    PROVE  LockOK'
<1>1. \A v \in Instances : v # w => at'[v] = at[v]
    BY DEF TypeOK, Step
<1>2. /\ at'[w][t] = s
      /\ \A u \in Threads : u # t => at'[w][u] = at[w][u]
    BY DEF TypeOK, Step
<1> QED
    BY <1>1, <1>2 DEF LockOK

\* Every step keeps the head lock: the two threads are queued once each, and only
\* its holder has a write under way (src/durable/mutex.ts).
LEMMA LockStep ==
    ASSUME IInv, [Next]_vars
    PROVE  LockOK'
<1> USE DEF IInv, storeVars, leaseVars, dataVars, jobVars, commitVars
<1>1. ASSUME NEW w \in Instances, Open(w), ~Restore(w) PROVE LockOK'
    BY <1>1, LockKeep
    DEF Open, OpenFindsObject, OpenFindsNothing, OpenReadOnly, OpenCannotReadHead, Create,
        CreatedReadsBack, CreateReread, AcquireRefused, Acquire, AcquireReread,
        RestoreSnapshot, RestoreFails, UnwindReadsHead, UnwindReleases
<1>2. ASSUME NEW w \in Instances, Restore(w) PROVE LockOK'
    BY <1>2, LockEnter DEF Restore, JobOK, Writing, Threads
<1>3. ASSUME NEW w \in Instances, SelfFence(w) \/ Execute(w) PROVE LockOK'
    BY <1>3, LockKeep DEF SelfFence, Execute
<1>4. ASSUME NEW w \in Instances, StartFlush(w) \/ StartCheckpoint(w) \/ CloseFlushes(w)
      PROVE  LockOK'
    BY <1>4, LockMove
    DEF StartFlush, StartCheckpoint, CloseFlushes, StartUpload, Ready, Drained, JobOK, Threads, Steps
<1>5. ASSUME NEW w \in Instances, Uploaded(w) PROVE LockOK'
    BY <1>5, LockEnter DEF Uploaded, Uploading, Threads
<1>6. ASSUME NEW w \in Instances, UploadedTooLate(w) \/ UploadFails(w) PROVE LockOK'
    BY <1>6, LockMove DEF UploadedTooLate, UploadFails, Uploading, Threads, Steps
<1>7. ASSUME NEW w \in Instances, NEW t \in Threads,
             CommitReplaced(w, t) \/ CommitErrors(w, t) \/ RereadSettles(w, t)
               \/ RereadFenced(w, t) \/ RereadGivesUp(w, t) \/ RereadErrors(w, t)
      PROVE  LockOK'
    <2>1. LeaveLock(w, t)
        BY <1>7 DEF CommitReplaced, CommitErrors, RereadSettles, RereadFenced, RereadGivesUp,
                    RereadErrors, Settle, GiveUp
    <2>2. at[w][t] \in {"commit", "reread"} /\ Head(lockq[w]) = t
        BY <1>7 DEF CommitReplaced, CommitErrors, RereadSettles, RereadFenced, RereadGivesUp,
                    RereadErrors, Attempting, Rereading, Holds, LockOK
    <2> QED
        BY <2>1, <2>2, LockLeave
<1>8. ASSUME NEW w \in Instances, NEW t \in Threads, CommitUnsettled(w, t) \/ RereadRetries(w, t)
      PROVE  LockOK'
    BY <1>8, LockMove DEF CommitUnsettled, RereadRetries, Attempting, Rereading, Holds, Steps
<1>9. ASSUME NEW w \in Instances, HeartbeatFires(w) PROVE LockOK'
    BY <1>9, LockEnter DEF HeartbeatFires, Threads
<1>10. ASSUME NEW w \in Instances,
              CloseStarts(w) \/ CloseFenced(w) \/ CloseLapsed(w) \/ CloseReader(w)
       PROVE  LockOK'
    BY <1>10, LockKeep DEF CloseStarts, CloseFenced, CloseLapsed, CloseReader
<1>11. ASSUME NEW w \in Instances, CloseReleases(w) PROVE LockOK'
    BY <1>11, LockEnter DEF CloseReleases, Drained, JobOK, Threads
<1>12. ASSUME NEW w \in Instances, Crash(w) PROVE LockOK'
    <2>1. \A v \in Instances : v # w => at'[v] = at[v] /\ lockq'[v] = lockq[v]
        BY <1>12 DEF Crash, TypeOK
    <2>2. lockq'[w] = <<>> /\ \A t \in Threads : at'[w][t] = "idle"
        BY <1>12 DEF Crash, TypeOK
    <2> QED
        BY <2>1, <2>2, QueueMembers DEF LockOK, Queues
<1>13. CASE StoreDelivers \/ Tick \/ UNCHANGED vars
    BY <1>13, LockKeep DEF StoreDelivers, Tick, vars
<1> QED
    BY <1>1, <1>2, <1>3, <1>4, <1>5, <1>6, <1>7, <1>8, <1>9, <1>10, <1>11, <1>12, <1>13
    DEF Next, Open, Operate, Commit, Close

------------------------------------------------------------------------------
(* The operation queue. *)

\* A step of one handle disturbs the job invariant only where that handle does.
LEMMA JobLocal ==
    ASSUME JobOK, NEW w \in Instances,
           \A v \in Instances : v # w =>
               phase'[v] = phase[v] /\ job'[v] = job[v] /\ at'[v] = at[v],
           job'[w] = "none" <=> at'[w]["op"] = "idle",
           phase'[w] \notin {"confirming"} \union Writing => job'[w] = "none",
           at'[w]["hb"] # "upload"
    PROVE  JobOK'
BY DEF JobOK

\* A step that changes only the phase keeps it, if it does not abandon a job.
LEMMA JobKeep ==
    ASSUME TypeOK, JobOK, NEW w \in Instances, NEW p, Go(w, p), UNCHANGED <<job, at>>,
           p \notin {"confirming"} \union Writing => job[w] = "none"
    PROVE  JobOK'
<1>1. phase'[w] = p /\ \A v \in Instances : v # w => phase'[v] = phase[v]
    BY DEF TypeOK, Go
<1> QED
    BY <1>1, JobLocal DEF JobOK

\* What Step changes, pointwise.
LEMMA StepEffect ==
    ASSUME TypeOK, NEW w \in Instances, NEW t \in Threads, NEW s, Step(w, t, s)
    PROVE  /\ at'[w][t] = s
           /\ \A u \in Threads : u # t => at'[w][u] = at[w][u]
           /\ \A v \in Instances : v # w => at'[v] = at[v]
BY DEF TypeOK, Step

\* What FailJob changes, pointwise.
LEMMA FailJobEffect ==
    ASSUME TypeOK, NEW w \in Instances, NEW told, FailJob(w, told)
    PROVE  /\ job'[w] = "none"
           /\ phase'[w] \in {phase[w], "closeFailed", "unwinding"}
           /\ \A v \in Instances : v # w => job'[v] = job[v] /\ phase'[v] = phase[v]
BY DEF TypeOK, FailJob, EndJob, Run, Go

\* Job: a commit is proven; the operation, if it is one, is over.
LEMMA SettleJob ==
    ASSUME IInv, NEW w \in Instances, NEW t \in Threads, NEW h, Settle(w, t, h)
    PROVE  JobOK'
<1> USE DEF IInv
<1>1. /\ at'[w][t] = "idle"
      /\ \A u \in Threads : u # t => at'[w][u] = at[w][u]
      /\ \A v \in Instances : v # w => at'[v] = at[v]
    BY StepEffect DEF Settle, LeaveLock
<1>2. CASE t = "hb"
    <2>1. UNCHANGED <<phase, job>>
        BY <1>2 DEF Settle, Intent, RenewDone
    <2> QED
        BY <1>1, <1>2, <2>1 DEF JobOK, Threads
<1>3. CASE t = "op"
    <2>1. /\ job' = [job EXCEPT ![w] = "none"]
          /\ phase' = phase \/ phase' = [phase EXCEPT ![w] = "closed"]
                \/ phase' = [phase EXCEPT ![w] = "open"]
        BY <1>3 DEF Settle, FlushDone, CheckpointDone, ReleaseDone, RenewDone, EndJob, Run, Go
    <2>2. /\ job'[w] = "none"
          /\ \A v \in Instances : v # w => job'[v] = job[v] /\ phase'[v] = phase[v]
        BY <2>1 DEF TypeOK
    <2>3. at'[w]["hb"] = at[w]["hb"]
        BY <1>1, <1>3 DEF Threads
    <2> QED
        BY <1>1, <1>3, <2>2, <2>3, JobLocal DEF JobOK
<1> QED
    BY <1>2, <1>3 DEF Threads

\* Job: commitHead throws; likewise.
LEMMA GiveUpJob ==
    ASSUME IInv, NEW w \in Instances, NEW t \in Threads, NEW told, NEW open, GiveUp(w, t, told, open)
    PROVE  JobOK'
<1> USE DEF IInv
<1>1. /\ at'[w][t] = "idle"
      /\ \A u \in Threads : u # t => at'[w][u] = at[w][u]
      /\ \A v \in Instances : v # w => at'[v] = at[v]
    BY StepEffect DEF GiveUp, LeaveLock
<1>2. CASE t = "hb"
    <2>1. UNCHANGED <<phase, job>>
        BY <1>2 DEF GiveUp
    <2> QED
        BY <1>1, <1>2, <2>1 DEF JobOK, Threads
<1>3. CASE t = "op"
    <2>1. FailJob(w, told)
        BY <1>3 DEF GiveUp
    <2>2. at'[w]["hb"] = at[w]["hb"]
        BY <1>1, <1>3 DEF Threads
    <2> QED
        BY <1>1, <1>3, <2>1, <2>2, FailJobEffect, JobLocal DEF JobOK
<1> QED
    BY <1>2, <1>3 DEF Threads

\* Every step keeps the operation mutex: one operation at a time, none before the
\* handle exists or after it is gone (src/durable/object.ts, `ops`).
LEMMA JobStep ==
    ASSUME IInv, [Next]_vars
    PROVE  JobOK'
<1> USE DEF IInv, storeVars, leaseVars, dataVars, jobVars, commitVars
<1>1. ASSUME NEW w \in Instances, Open(w), ~Restore(w) PROVE JobOK'
    <2>1. phase[w] \notin {"confirming"} \union Writing
        BY <1>1
        DEF Open, OpenFindsObject, OpenFindsNothing, OpenReadOnly, OpenCannotReadHead, Create,
            CreatedReadsBack, CreateReread, AcquireRefused, Acquire, AcquireReread,
            RestoreSnapshot, RestoreFails, UnwindReadsHead, UnwindReleases, Writing
    <2>2. /\ UNCHANGED <<job, at>>
          /\ \E p : Go(w, p)
        BY <1>1
        DEF Open, OpenFindsObject, OpenFindsNothing, OpenReadOnly, OpenCannotReadHead, Create,
            CreatedReadsBack, CreateReread, AcquireRefused, Acquire, AcquireReread,
            RestoreSnapshot, RestoreFails, UnwindReadsHead, UnwindReleases
    <2> QED
        BY <2>1, <2>2, JobKeep DEF JobOK
<1>2. ASSUME NEW w \in Instances, Restore(w) PROVE JobOK'
    <2>1. /\ phase'[w] = "confirming" /\ job'[w] = "confirm"
          /\ at'[w]["op"] = "commit" /\ at'[w]["hb"] = at[w]["hb"]
          /\ \A v \in Instances : v # w =>
               phase'[v] = phase[v] /\ job'[v] = job[v] /\ at'[v] = at[v]
        BY <1>2 DEF Restore, TypeOK, Go, Run, Step, Threads
    <2> QED
        BY <2>1, JobLocal DEF JobOK
<1>3. ASSUME NEW w \in Instances, SelfFence(w) \/ Execute(w) PROVE JobOK'
    BY <1>3 DEF SelfFence, Execute, JobOK
<1>4. ASSUME NEW w \in Instances, StartFlush(w) \/ StartCheckpoint(w) \/ CloseFlushes(w)
      PROVE  JobOK'
    <2>1. /\ phase'[w] \in Writing /\ job'[w] # "none"
          /\ at'[w]["op"] = "upload" /\ at'[w]["hb"] = at[w]["hb"]
          /\ \A v \in Instances : v # w =>
               phase'[v] = phase[v] /\ job'[v] = job[v] /\ at'[v] = at[v]
        BY <1>4 DEF StartFlush, StartCheckpoint, CloseFlushes, StartUpload, Ready, TypeOK, Go, Run,
                    Step, Threads, Writing
    <2> QED
        BY <2>1, JobLocal DEF JobOK
<1>5. ASSUME NEW w \in Instances, Uploaded(w) PROVE JobOK'
    <2>1. /\ at'[w]["op"] = "commit" /\ at'[w]["hb"] = at[w]["hb"]
          /\ \A v \in Instances : v # w => at'[v] = at[v]
        BY <1>5 DEF Uploaded, TypeOK, Step, Threads
    <2> QED
        BY <1>5, <2>1, JobLocal DEF JobOK, Uploaded, Uploading
<1>6. ASSUME NEW w \in Instances, UploadedTooLate(w) \/ UploadFails(w) PROVE JobOK'
    <2>1. \E told : FailJob(w, told)
        BY <1>6 DEF UploadedTooLate, UploadFails
    <2>2. /\ at'[w]["op"] = "idle" /\ at'[w]["hb"] = at[w]["hb"]
          /\ \A v \in Instances : v # w => at'[v] = at[v]
        BY <1>6 DEF UploadedTooLate, UploadFails, TypeOK, Step, Threads
    <2> QED
        BY <2>1, <2>2, FailJobEffect, JobLocal DEF JobOK
<1>7. ASSUME NEW w \in Instances, NEW t \in Threads, CommitReplaced(w, t) \/ RereadSettles(w, t)
      PROVE  JobOK'
    BY <1>7, SettleJob DEF CommitReplaced, RereadSettles
<1>8. ASSUME NEW w \in Instances, NEW t \in Threads,
             CommitErrors(w, t) \/ RereadFenced(w, t) \/ RereadGivesUp(w, t) \/ RereadErrors(w, t)
      PROVE  JobOK'
    BY <1>8, GiveUpJob DEF CommitErrors, RereadFenced, RereadGivesUp, RereadErrors
<1>9. ASSUME NEW w \in Instances, NEW t \in Threads, CommitUnsettled(w, t) \/ RereadRetries(w, t)
      PROVE  JobOK'
    <2>1. \E s \in {"commit", "reread"} : Step(w, t, s)
        BY <1>9 DEF CommitUnsettled, RereadRetries
    <2>2. /\ at'[w][t] \in {"commit", "reread"} /\ at[w][t] \in {"commit", "reread"}
          /\ \A u \in Threads : u # t => at'[w][u] = at[w][u]
          /\ \A v \in Instances : v # w => at'[v] = at[v]
        BY <1>9, <2>1, StepEffect DEF CommitUnsettled, RereadRetries, Attempting, Rereading
    <2>3. UNCHANGED <<phase, job>>
        BY <1>9 DEF CommitUnsettled, RereadRetries
    <2> QED
        BY <2>2, <2>3 DEF JobOK, Threads
<1>10. ASSUME NEW w \in Instances, HeartbeatFires(w) PROVE JobOK'
    <2>1. /\ at'[w]["hb"] = "commit" /\ at'[w]["op"] = at[w]["op"]
          /\ \A v \in Instances : v # w => at'[v] = at[v]
        BY <1>10 DEF HeartbeatFires, TypeOK, Step, Threads
    <2> QED
        BY <1>10, <2>1, JobLocal DEF JobOK, HeartbeatFires
<1>11. ASSUME NEW w \in Instances,
              CloseStarts(w) \/ CloseFenced(w) \/ CloseLapsed(w) \/ CloseReader(w)
       PROVE  JobOK'
    <2>1. UNCHANGED <<job, at>>
        BY <1>11 DEF CloseStarts, CloseFenced, CloseLapsed, CloseReader
    <2>2. \E p : Go(w, p) /\ (p \notin {"confirming"} \union Writing => job[w] = "none")
        BY <1>11 DEF CloseStarts, CloseFenced, CloseLapsed, CloseReader, Drained, JobOK, Writing
    <2> QED
        BY <2>1, <2>2, JobKeep
<1>12. ASSUME NEW w \in Instances, CloseReleases(w) PROVE JobOK'
    <2>1. /\ phase'[w] = "closing" /\ job'[w] = "release"
          /\ at'[w]["op"] = "commit" /\ at'[w]["hb"] = at[w]["hb"]
          /\ \A v \in Instances : v # w =>
               phase'[v] = phase[v] /\ job'[v] = job[v] /\ at'[v] = at[v]
        BY <1>12 DEF CloseReleases, TypeOK, Go, Run, Step, Threads
    <2> QED
        BY <2>1, JobLocal DEF JobOK, Writing
<1>13. ASSUME NEW w \in Instances, Crash(w) PROVE JobOK'
    <2>1. /\ phase'[w] = "crashed" /\ job'[w] = "none"
          /\ at'[w]["op"] = "idle" /\ at'[w]["hb"] = "idle"
          /\ \A v \in Instances : v # w =>
               phase'[v] = phase[v] /\ job'[v] = job[v] /\ at'[v] = at[v]
        BY <1>13 DEF Crash, TypeOK, Go, Threads
    <2> QED
        BY <2>1, JobLocal DEF JobOK
<1>14. CASE StoreDelivers \/ Tick \/ UNCHANGED vars
    BY <1>14 DEF StoreDelivers, Tick, vars, JobOK
<1> QED
    BY <1>1, <1>2, <1>3, <1>4, <1>5, <1>6, <1>7, <1>8, <1>9, <1>10, <1>11, <1>12, <1>13, <1>14
    DEF Next, Open, Operate, Commit, Close

------------------------------------------------------------------------------
(* The keys of operations. *)

\* The key invariant, split by where the operation is.
LEMMA KeyParts ==
    /\ KeyOK <=> \A w \in Instances : UploadKeyOK(w) /\ CommitKeyOK(w)
    /\ KeyOK' <=> \A w \in Instances : UploadKeyOK(w)' /\ CommitKeyOK(w)'
BY DEF KeyOK

\* A step of one handle disturbs it only at that handle: other handles' keys
\* carry other instances.
LEMMA KeyLocal ==
    ASSUME KeyOK, NEW w \in Instances,
           \A v \in Instances : v # w =>
               at'[v] = at[v] /\ job'[v] = job[v] /\ key'[v] = key[v],
           published \subseteq published',
           \A k \in published' \ published : k.inst = w,
           UploadKeyOK(w)', CommitKeyOK(w)'
    PROVE  KeyOK'
<1>1. ASSUME NEW v \in Instances, v # w PROVE UploadKeyOK(v)' /\ CommitKeyOK(v)'
    BY <1>1, KeyParts DEF UploadKeyOK, CommitKeyOK
<1> QED
    BY <1>1, KeyParts

\* The operation ends, or is not one that holds a key.
LEMMA KeyDone ==
    ASSUME KeyOK, NEW w \in Instances,
           \A v \in Instances : v # w =>
               at'[v] = at[v] /\ job'[v] = job[v] /\ key'[v] = key[v],
           published \subseteq published',
           \A k \in published' \ published : k.inst = w,
           at'[w]["op"] # "upload",
           at'[w]["op"] = "idle" \/ job'[w] \notin {"flush", "checkpoint"}
    PROVE  KeyOK'
BY KeyLocal DEF UploadKeyOK, CommitKeyOK

\* Steps that leave operations and uploads alone keep it.
LEMMA KeyKeep ==
    ASSUME KeyOK, UNCHANGED <<at, job, key, published>>
    PROVE  KeyOK'
BY DEF KeyOK, UploadKeyOK, CommitKeyOK

\* Leaving commitHead: an operation is over; a heartbeat holds no key.
LEMMA KeyLeave ==
    ASSUME IInv, NEW w \in Instances, NEW t \in Threads, LeaveLock(w, t),
           UNCHANGED <<key, published>>,
           IF t = "hb" THEN UNCHANGED job ELSE job' = [job EXCEPT ![w] = "none"]
    PROVE  KeyOK'
<1> USE DEF IInv
<1>1. /\ at'[w][t] = "idle"
      /\ \A u \in Threads : u # t => at'[w][u] = at[w][u]
      /\ \A v \in Instances : v # w => at'[v] = at[v]
    BY StepEffect DEF LeaveLock
<1>2. CASE t = "hb"
    BY <1>1, <1>2 DEF KeyOK, UploadKeyOK, CommitKeyOK, Threads
<1>3. CASE t = "op"
    <2>1. \A v \in Instances : v # w => job'[v] = job[v]
        BY <1>3 DEF TypeOK
    <2> QED
        BY <1>1, <1>3, <2>1, KeyDone
<1> QED
    BY <1>2, <1>3 DEF Threads

\* Every step keeps the key invariant: an operation uploads under a fresh key and
\* commits only a key that is uploaded (publishBytes before commitHead).
LEMMA KeyStep ==
    ASSUME IInv, [Next]_vars
    PROVE  KeyOK'
<1> USE DEF IInv, storeVars, leaseVars, dataVars, jobVars, commitVars
<1>1. ASSUME NEW w \in Instances, Open(w), ~Restore(w) PROVE KeyOK'
    BY <1>1, KeyKeep, WriteEffect
    DEF Open, OpenFindsObject, OpenFindsNothing, OpenReadOnly, OpenCannotReadHead, Create,
        CreatedReadsBack, CreateReread, AcquireRefused, Acquire, AcquireReread,
        RestoreSnapshot, RestoreFails, UnwindReadsHead, UnwindReleases
<1>2. ASSUME NEW w \in Instances, Restore(w) PROVE KeyOK'
    <2>1. /\ job'[w] = "confirm" /\ at'[w]["op"] = "commit"
          /\ \A v \in Instances : v # w =>
               key'[v] = key[v] /\ job'[v] = job[v] /\ at'[v] = at[v]
        BY <1>2 DEF Restore, TypeOK, Run, Step, Threads
    <2> QED
        BY <1>2, <2>1, KeyDone DEF Restore
<1>3. ASSUME NEW w \in Instances, SelfFence(w) \/ Execute(w) PROVE KeyOK'
    BY <1>3, KeyKeep DEF SelfFence, Execute
<1>4. ASSUME NEW w \in Instances, StartFlush(w) \/ StartCheckpoint(w) \/ CloseFlushes(w)
      PROVE  KeyOK'
    <2>1. NextKey(w) \in Key /\ NextKey(w) \notin published /\ NextKey(w).inst = w
        BY <1>4 DEF StartFlush, StartCheckpoint, CloseFlushes, StartUpload, NextKey, Unused
    <2>2. /\ key'[w] = NextKey(w) /\ job'[w] \in {"flush", "checkpoint"}
          /\ at'[w]["op"] = "upload" /\ UNCHANGED published
          /\ \A v \in Instances : v # w =>
               key'[v] = key[v] /\ job'[v] = job[v] /\ at'[v] = at[v]
        BY <1>4 DEF StartFlush, StartCheckpoint, CloseFlushes, StartUpload, TypeOK, Run, Step, Threads
    <2>3. UploadKeyOK(w)' /\ CommitKeyOK(w)'
        BY <2>1, <2>2 DEF UploadKeyOK, CommitKeyOK
    <2> QED
        BY <2>2, <2>3, KeyLocal
<1>5. ASSUME NEW w \in Instances, Uploaded(w) PROVE KeyOK'
    <2>1. key[w] \in Key /\ key[w].inst = w
        BY <1>5 DEF Uploaded, Uploading, KeyOK, UploadKeyOK, CommitKeyOK
    <2>2. /\ at'[w]["op"] = "commit" /\ published' = published \union {key[w]}
          /\ UNCHANGED <<key, job>>
          /\ \A v \in Instances : v # w => at'[v] = at[v]
        BY <1>5 DEF Uploaded, TypeOK, Step, Threads, Publish
    <2>3. UploadKeyOK(w)' /\ CommitKeyOK(w)'
        BY <2>1, <2>2 DEF UploadKeyOK, CommitKeyOK
    <2> QED
        BY <2>1, <2>2, <2>3, KeyLocal
<1>6. ASSUME NEW w \in Instances, UploadedTooLate(w) \/ UploadFails(w) PROVE KeyOK'
    <2>1. key[w].inst = w
        BY <1>6 DEF UploadedTooLate, UploadFails, Uploading, KeyOK, UploadKeyOK, CommitKeyOK
    <2>2. /\ published \subseteq published' /\ published' \subseteq published \union {key[w]}
          /\ UNCHANGED key
        BY <1>6 DEF UploadedTooLate, UploadFails, Publish
    <2>3. \E told : FailJob(w, told)
        BY <1>6 DEF UploadedTooLate, UploadFails
    <2>4. /\ at'[w]["op"] = "idle"
          /\ \A v \in Instances : v # w => at'[v] = at[v]
        BY <1>6 DEF UploadedTooLate, UploadFails, TypeOK, Step, Threads
    <2> QED
        BY <2>1, <2>2, <2>3, <2>4, FailJobEffect, KeyDone
<1>7. ASSUME NEW w \in Instances, NEW t \in Threads, NEW h, Settle(w, t, h), UNCHANGED published
      PROVE  KeyOK'
    <2>1. LeaveLock(w, t) /\ UNCHANGED key
        BY <1>7 DEF Settle
    <2>2. CASE t = "hb"
        <3>1. UNCHANGED job
            BY <1>7, <2>2 DEF Settle, Intent, RenewDone
        <3> QED
            BY <1>7, <2>1, <2>2, <3>1, KeyLeave
    <2>3. CASE t # "hb"
        <3>1. job' = [job EXCEPT ![w] = "none"]
            BY <1>7, <2>3
            DEF Settle, FlushDone, CheckpointDone, ReleaseDone, RenewDone, EndJob, Run
        <3> QED
            BY <1>7, <2>1, <2>3, <3>1, KeyLeave
    <2> QED
        BY <2>2, <2>3
<1>8. ASSUME NEW w \in Instances, NEW t \in Threads, CommitReplaced(w, t) \/ RereadSettles(w, t)
      PROVE  KeyOK'
    BY <1>7, <1>8, WriteEffect DEF CommitReplaced, RereadSettles
<1>9. ASSUME NEW w \in Instances, NEW t \in Threads,
             CommitErrors(w, t) \/ RereadFenced(w, t) \/ RereadGivesUp(w, t) \/ RereadErrors(w, t)
      PROVE  KeyOK'
    <2>1. UNCHANGED published
        BY <1>9, WriteEffect DEF CommitErrors, RereadFenced, RereadGivesUp, RereadErrors
    <2>2. \E told, open : GiveUp(w, t, told, open)
        BY <1>9 DEF CommitErrors, RereadFenced, RereadGivesUp, RereadErrors
    <2>3. /\ LeaveLock(w, t) /\ UNCHANGED key
          /\ IF t = "hb" THEN UNCHANGED job ELSE job' = [job EXCEPT ![w] = "none"]
        BY <2>2 DEF GiveUp, FailJob, EndJob, Run
    <2> QED
        BY <2>1, <2>3, KeyLeave
<1>10. ASSUME NEW w \in Instances, NEW t \in Threads, CommitUnsettled(w, t) \/ RereadRetries(w, t)
      PROVE  KeyOK'
    <2>1. \E s \in {"commit", "reread"} : Step(w, t, s)
        BY <1>10 DEF CommitUnsettled, RereadRetries
    <2>2. /\ at'[w][t] \in {"commit", "reread"} /\ at[w][t] \in {"commit", "reread"}
          /\ \A u \in Threads : u # t => at'[w][u] = at[w][u]
          /\ \A v \in Instances : v # w => at'[v] = at[v]
        BY <1>10, <2>1, StepEffect DEF CommitUnsettled, RereadRetries, Attempting, Rereading
    <2>3. UNCHANGED <<key, job, published>>
        BY <1>10, WriteEffect DEF CommitUnsettled, RereadRetries
    <2> QED
        BY <2>2, <2>3 DEF KeyOK, UploadKeyOK, CommitKeyOK, Threads
<1>11. ASSUME NEW w \in Instances, HeartbeatFires(w) PROVE KeyOK'
    <2>1. \A v \in Instances : at'[v]["op"] = at[v]["op"]
        BY <1>11 DEF HeartbeatFires, TypeOK, Step, Threads
    <2> QED
        BY <1>11, <2>1 DEF KeyOK, UploadKeyOK, CommitKeyOK, HeartbeatFires
<1>12. ASSUME NEW w \in Instances,
              CloseStarts(w) \/ CloseFenced(w) \/ CloseLapsed(w) \/ CloseReader(w)
       PROVE  KeyOK'
    BY <1>12, KeyKeep DEF CloseStarts, CloseFenced, CloseLapsed, CloseReader
<1>13. ASSUME NEW w \in Instances, CloseReleases(w) PROVE KeyOK'
    <2>1. /\ job'[w] = "release" /\ at'[w]["op"] = "commit"
          /\ \A v \in Instances : v # w =>
               key'[v] = key[v] /\ job'[v] = job[v] /\ at'[v] = at[v]
        BY <1>13 DEF CloseReleases, TypeOK, Run, Step, Threads
    <2> QED
        BY <1>13, <2>1, KeyDone DEF CloseReleases
<1>14. ASSUME NEW w \in Instances, Crash(w) PROVE KeyOK'
    <2>1. /\ at'[w]["op"] = "idle"
          /\ \A v \in Instances : v # w => job'[v] = job[v] /\ at'[v] = at[v]
        BY <1>14 DEF Crash, TypeOK, Threads
    <2> QED
        BY <1>14, <2>1, KeyDone DEF Crash
<1>15. CASE StoreDelivers \/ Tick \/ UNCHANGED vars
    BY <1>15, KeyKeep DEF StoreDelivers, LateWriteArrives, Tick, vars
<1> QED
    BY <1>1, <1>2, <1>3, <1>4, <1>5, <1>6, <1>8, <1>9, <1>10, <1>11, <1>12, <1>13, <1>14, <1>15
    DEF Next, Open, Operate, Commit, Close

------------------------------------------------------------------------------
(* What manifests name. *)

\* Steps that publish nothing keep it when the heads they leave are complete.
LEMMA NamedKeep ==
    ASSUME NothingNamedIsMissing, UNCHANGED <<published, content>>,
           RefsPresent(head'), \A w \in Instances : RefsPresent(cache'[w]),
           \A r \in late' : RefsPresent(r.next)
    PROVE  NothingNamedIsMissing'
BY DEF NothingNamedIsMissing, RefsPresent

\* A handle adopts a complete head.
LEMMA NamedSee ==
    ASSUME TypeOK, NothingNamedIsMissing, NEW w \in Instances, NEW h, RefsPresent(h),
           See(w, h) \/ UNCHANGED cache
    PROVE  \A v \in Instances : RefsPresent(cache'[v])
BY DEF NothingNamedIsMissing, TypeOK, See

\* A conditional write of a complete head leaves complete heads.
LEMMA NamedWrite ==
    ASSUME NothingNamedIsMissing, NEW e, NEW n, RefsPresent(n), NEW answer, HeadWrite(e, n, answer)
    PROVE  /\ UNCHANGED <<published, content>>
           /\ RefsPresent(head')
           /\ \A r \in late' : RefsPresent(r.next)
<1>1. RefsPresent(Write(e, n).next)
    BY DEF Write
<1> QED
    BY <1>1, WriteEffect DEF NothingNamedIsMissing

\* An upload under a fresh key makes no named object disappear or change.
LEMMA NamedPublish ==
    ASSUME TypeOK, NothingNamedIsMissing, NEW k \in Key, k \notin published,
           NEW s \in Seq(Statement), Publish(k, s), UNCHANGED cache
    PROVE  NothingNamedIsMissing'
<1>1. /\ head \in HeadRecord /\ RefsPresent(head)
      /\ \A w \in Instances : cache[w] \in HeadRecord /\ RefsPresent(cache[w])
      /\ \A r \in late : r.next \in HeadRecord /\ RefsPresent(r.next)
    BY DEF TypeOK, NothingNamedIsMissing
<1>2. UNCHANGED <<head, late>>
    BY DEF Publish
<1>3. \A h \in HeadRecord : RefsPresent(h) => RefsPresent(h)'
    BY PublishKeepsRefs
<1> QED
    BY <1>1, <1>2, <1>3 DEF NothingNamedIsMissing

\* Every step keeps every head complete: the one stored, the ones held, the ones
\* under way.
LEMMA NamedStep ==
    ASSUME IInv, [Next]_vars
    PROVE  NothingNamedIsMissing'
<1> USE DEF IInv, storeVars, leaseVars, dataVars, jobVars, commitVars
<1>a. /\ RefsPresent(head)
      /\ \A w \in Instances : cache[w] \in HeadRecord /\ cache[w].gen \in Nat /\ RefsPresent(cache[w])
      /\ \A r \in late : RefsPresent(r.next)
    BY DEF TypeOK, HeadRecord, NothingNamedIsMissing
<1>1. ASSUME NEW w \in Instances, UNCHANGED storeVars, UNCHANGED cache \/ See(w, head)
      PROVE  NothingNamedIsMissing'
    BY <1>1, <1>a, NamedSee, NamedKeep
<1>2. ASSUME NEW w \in Instances, Open(w), ~Create(w), ~Acquire(w), ~UnwindReleases(w)
      PROVE  NothingNamedIsMissing'
    <2>1. UNCHANGED storeVars /\ (UNCHANGED cache \/ See(w, head))
        BY <1>2
        DEF Open, OpenFindsObject, OpenFindsNothing, OpenReadOnly, OpenCannotReadHead,
            CreatedReadsBack, CreateReread, AcquireRefused, AcquireReread, Restore,
            RestoreSnapshot, RestoreFails, UnwindReadsHead
    <2> QED
        BY <1>1, <2>1
<1>3. ASSUME NEW w \in Instances, NEW e, NEW n, NEW answer, HeadWrite(e, n, answer),
             RefsPresent(n), UNCHANGED cache \/ See(w, n)
      PROVE  NothingNamedIsMissing'
    BY <1>3, <1>a, NamedSee, NamedWrite, NamedKeep
<1>4. ASSUME NEW w \in Instances, Create(w) PROVE NothingNamedIsMissing'
    <2>1. Absent \in HeadRecord /\ RefsPresent(Absent)
        BY DEF Absent, HeadRecord, RefsPresent
    <2>2. RefsPresent(Created(w))
        BY <2>1, TypeOfClock, LeaseChange DEF Created
    <2> QED
        BY <1>3, <1>4, <2>2 DEF Create
<1>5. ASSUME NEW w \in Instances, Acquire(w) PROVE NothingNamedIsMissing'
    <2>1. cache[w].gen + 1 \in Nat
        BY <1>a
    <2>2. RefsPresent(Acquired(w, cache[w]))
        BY <1>a, <2>1, TypeOfClock, LeaseChange DEF Acquired
    <2>3. PICK answer \in Answers :
            /\ HeadWrite(cache[w], Acquired(w, cache[w]), answer)
            /\ UNCHANGED cache \/ See(w, Acquired(w, cache[w]))
        BY <1>5 DEF Acquire
    <2> QED
        BY <1>3, <2>2, <2>3
<1>6. ASSUME NEW w \in Instances, UnwindReleases(w) PROVE NothingNamedIsMissing'
    <2>1. RefsPresent(Unheld(cache[w]))
        BY <1>a, LeaseChange DEF Unheld
    <2> QED
        BY <1>3, <1>6, <2>1 DEF UnwindReleases
<1>7. ASSUME NEW w \in Instances,
             \/ SelfFence(w) \/ Execute(w) \/ StartFlush(w) \/ StartCheckpoint(w) \/ Close(w)
             \/ HeartbeatFires(w) \/ Crash(w)
      PROVE  NothingNamedIsMissing'
    <2>1. UNCHANGED storeVars /\ UNCHANGED cache
        BY <1>7
        DEF SelfFence, Execute, StartFlush, StartCheckpoint, Close, CloseStarts, CloseFenced,
            CloseFlushes, CloseLapsed, CloseReleases, CloseReader, HeartbeatFires, Crash
    <2> QED
        BY <1>1, <2>1
<1>8. ASSUME NEW w \in Instances, Uploaded(w) \/ UploadedTooLate(w) \/ UploadFails(w)
      PROVE  NothingNamedIsMissing'
    <2>1. /\ key[w] \in Key /\ key[w] \notin published
          /\ Payload(w) \in Seq(Statement)
        BY <1>8 DEF Uploaded, UploadedTooLate, UploadFails, Uploading, KeyOK, UploadKeyOK, CommitKeyOK, TypeOK, Payload
    <2>2. UNCHANGED cache /\ (Publish(key[w], Payload(w)) \/ UNCHANGED storeVars)
        BY <1>8 DEF Uploaded, UploadedTooLate, UploadFails
    <2> QED
        BY <1>1, <2>1, <2>2, NamedPublish
<1>9. ASSUME NEW w \in Instances, NEW t \in Threads, Attempting(w, t)
      PROVE  RefsPresent(Build(w, t))
    BY <1>9, <1>a, TypeOfBuild DEF Attempting
<1>10. ASSUME NEW w \in Instances, NEW t \in Threads,
              CommitReplaced(w, t) \/ CommitUnsettled(w, t) \/ CommitErrors(w, t)
       PROVE  NothingNamedIsMissing'
    <2>1. /\ Attempting(w, t)
          /\ \E answer : HeadWrite(cache[w], Build(w, t), answer)
          /\ UNCHANGED cache \/ See(w, Build(w, t))
        BY <1>10 DEF CommitReplaced, CommitUnsettled, CommitErrors, Settle
    <2> QED
        BY <1>3, <1>9, <2>1
<1>11. ASSUME NEW w \in Instances, NEW t \in Threads,
              \/ RereadSettles(w, t) \/ RereadFenced(w, t) \/ RereadRetries(w, t)
              \/ RereadGivesUp(w, t) \/ RereadErrors(w, t)
       PROVE  NothingNamedIsMissing'
    <2>1. UNCHANGED storeVars /\ (UNCHANGED cache \/ See(w, head))
        BY <1>11 DEF RereadSettles, RereadFenced, RereadRetries, RereadGivesUp, RereadErrors, Settle
    <2> QED
        BY <1>1, <2>1
<1>12. CASE StoreDelivers
    BY <1>12, <1>a, NamedKeep DEF StoreDelivers, LateWriteArrives
<1>13. CASE Tick \/ UNCHANGED vars
    <2>1. UNCHANGED storeVars /\ UNCHANGED cache
        BY <1>13 DEF Tick, vars
    <2> QED
        BY <1>a, <2>1, NamedKeep
<1> QED
    BY <1>2, <1>4, <1>5, <1>6, <1>7, <1>8, <1>10, <1>11, <1>12, <1>13
    DEF Next, Operate, Commit

------------------------------------------------------------------------------
(* The theorems. *)

\* The inductive invariant holds before any open(), for both stores open() can find.
LEMMA InitIInv == Init => IInv
<1> SUFFICES ASSUME Init PROVE IInv
    OBVIOUS
<1> USE DEF Init, StoreInit
<1>1. Absent \in HeadRecord /\ RefsPresent(Absent)
    BY DEF Absent, HeadRecord, RefsPresent
<1>2. Released \in HeadRecord /\ RefsPresent(Released)
    BY <1>1, LeaseChange DEF Released
<1>3. TypeOK
    BY <1>1, <1>2 DEF TypeOK, Phases, Jobs, Steps, Results, Threads
<1>4. LockOK
    BY QueueMembers DEF LockOK, Queues
<1>5. KeyOK /\ JobOK
    BY DEF KeyOK, UploadKeyOK, CommitKeyOK, JobOK, Writing, Threads
<1>6. NothingNamedIsMissing
    BY <1>1, <1>2 DEF NothingNamedIsMissing
<1> QED
    BY <1>3, <1>4, <1>5, <1>6 DEF IInv

\* It is inductive.
LEMMA IInvStep == IInv /\ [Next]_vars => IInv'
BY TypeStep, LockStep, KeyStep, JobStep, NamedStep DEF IInv

\* Type correctness of the state machine in src/durable/object.ts, for every value
\* of the constants.
THEOREM TypeCorrect == Spec => []TypeOK
<1>1. IInv => TypeOK
    BY DEF IInv
<1> QED
    BY <1>1, InitIInv, IInvStep, PTL DEF Spec

\* A durable object can always be opened: no head, stored, held by a handle or still
\* under way, names a base or a WAL segment that was never uploaded.  Uploads that
\* fail, crashes and unanswered writes included (flushLocked, checkpointLocked).
THEOREM NothingMissing == Spec => []NothingNamedIsMissing
<1>1. IInv => NothingNamedIsMissing
    BY DEF IInv
<1> QED
    BY <1>1, InitIInv, IInvStep, PTL DEF Spec

=============================================================================
