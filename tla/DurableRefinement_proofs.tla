----------------------- MODULE DurableRefinement_proofs -----------------------
(***************************************************************************)
(* DurableObject implements StatementLog, for any number of handles and    *)
(* any faults.                                                             *)
(*                                                                         *)
(* What has to be shown is that no head write, however late it arrives,    *)
(* leaves a gap: it adds to what the head restores a prefix of what the    *)
(* handle the head names has executed, and nothing else.                   *)
(*                                                                         *)
(* And the properties that turn on which key a head names and in what      *)
(* order: what commitHead reports as `timeout` is never in a head, what    *)
(* the head replays is, statement by statement, the database of its        *)
(* holder, and the handles replay one after the other, each in its order.  *)
(***************************************************************************)
EXTENDS DurableLog_proofs

------------------------------------------------------------------------------
(* The invariant. *)

\* The first n statements of w.
Mine(w, n) == {Nth(w, i) : i \in 1 .. n}

\* The write of n over e brings the head a prefix of what e's holder executed: what
\* of it the write does not carry is in the head already.
Adds(e, n) ==
    \E k \in Nat :
       /\ k > 0 => e.inst \in Instances /\ k <= executed[e.inst]
       /\ Restored(n) \subseteq Restored(head) \union Mine(e.inst, k)
       /\ Mine(e.inst, k) \subseteq Restored(head) \union Restored(n)

\* What w saw is in the head; what it has besides, it executed; and once it has, no
\* request of its own for the lease can be granted.
PrefixOK(w) ==
    /\ Restored(cache[w]) \subseteq Restored(head)
    /\ phase[w] \in {"confirming"} \union Writing =>
         Of(local[w]) \subseteq Restored(head) \union Mine(w, executed[w])
    /\ committed[w] <= executed[w]
    /\ executed[w] > 0 => \A r \in late : Claim(w, r) => r.expect.gen < head.gen

RInv ==
    /\ LogInv
    /\ \A w \in Instances : PrefixOK(w)
    /\ \A r \in late : Adds(r.expect, r.next)

------------------------------------------------------------------------------
(* What a step adds. *)

\* Only execute() counts a statement as executed, and it does nothing else.
LEMMA ExecutedMoves ==
    ASSUME IInv, [Next]_vars
    PROVE  \/ UNCHANGED executed
           \/ \E w \in Instances : /\ Execute(w)
                                   /\ executed' = [executed EXCEPT ![w] = @ + 1]
                                   /\ UNCHANGED <<storeVars, phase, committed>>
<1> USE DEF leaseVars, dataVars, jobVars, commitVars
<1>1. ASSUME NEW w \in Instances, Moves(w), ~Execute(w) PROVE UNCHANGED executed
    <2>1. Open(w) => UNCHANGED executed
        BY DEF Open, OpenFindsObject, OpenFindsNothing, OpenReadOnly, OpenCannotReadHead,
            Create, CreatedReadsBack, CreateReread, AcquireRefused, Acquire, AcquireReread,
            Restore, RestoreSnapshot, RestoreFails, UnwindReadsHead, UnwindReleases
    <2>2. Operate(w) => UNCHANGED executed
        BY <1>1 DEF Operate, SelfFence, StartFlush, StartCheckpoint, Uploaded,
            UploadedTooLate, UploadFails
    <2>3. Close(w) \/ HeartbeatFires(w) \/ Crash(w) => UNCHANGED executed
        BY DEF Close, CloseStarts, CloseFenced, CloseFlushes, CloseLapsed, CloseReleases,
            CloseReader, HeartbeatFires, Crash
    <2>4. ASSUME NEW t \in Threads, Commit(w, t) PROVE UNCHANGED executed
        BY <2>4 DEF Commit, CommitReplaced, CommitUnsettled, CommitErrors, RereadSettles,
            RereadFenced, RereadRetries, RereadGivesUp, RereadErrors, Settle, GiveUp
    <2> QED
        BY <1>1, <2>1, <2>2, <2>3, <2>4 DEF Moves
<1>2. ASSUME NEW w \in Instances, Execute(w)
      PROVE  /\ executed' = [executed EXCEPT ![w] = @ + 1]
             /\ UNCHANGED <<storeVars, phase, committed>>
    BY <1>2 DEF Execute
<1> QED
    BY <1>1, <1>2, WhoMoves DEF StoreDelivers

\* No statement is un-executed.
LEMMA ExecutedGrows ==
    ASSUME IInv, [Next]_vars, NEW w \in Instances
    PROVE  executed[w] \in Nat /\ executed'[w] \in Nat /\ executed[w] <= executed'[w]
<1>1. executed \in [Instances -> Nat]
    BY DEF IInv, TypeOK
<1>2. CASE UNCHANGED executed
    BY <1>1, <1>2
<1>3. ASSUME NEW v \in Instances, executed' = [executed EXCEPT ![v] = @ + 1]
      PROVE  executed'[w] \in Nat /\ executed[w] <= executed'[w]
    <2>1. executed'[w] = executed[w] \/ executed'[w] = executed[w] + 1
        BY <1>1, <1>3
    <2> QED
        BY <1>1, <2>1
<1> QED
    BY <1>1, <1>2, <1>3, ExecutedMoves

\* Mine grows with its bound.
LEMMA MineGrows ==
    ASSUME NEW w, NEW m \in Nat, NEW n \in Nat, m <= n
    PROVE  Mine(w, m) \subseteq Mine(w, n)
BY DEF Mine

\* A handle that sends a write sends one that adds a prefix of what it executed.
LEMMA SentAdds ==
    ASSUME RInv, NEW w \in Instances, NEW e, NEW n, Sends(w, e, n)
    PROVE  Adds(e, n)
<1>0. /\ LogInv /\ IInv /\ TypeOK /\ HoldersOK /\ KeyOK /\ HolderOK(w) /\ CountOK(w)
      /\ AckedOK(w) /\ PrefixOK(w)
      /\ RefsPresent(cache[w]) /\ cache[w] \in HeadRecord
      /\ executed[w] \in Nat /\ committed[w] \in Nat /\ buffer[w] \in Seq(Statement)
    BY DEF RInv, LogInv, GInv, IInv, HoldersOK, NothingNamedIsMissing, TypeOK
<1>1. e = cache[w]
    BY <1>0, SentInst
<1>2. CASE SameManifest(e, n)
    <2>1. Restored(n) \subseteq Restored(head)
        BY <1>0, <1>1, <1>2, SameRestored DEF PrefixOK
    <2>2. Mine(e.inst, 0) = {} /\ 0 \in Nat /\ ~(0 > 0)
        BY DEF Mine
    <2> QED
        BY <2>1, <2>2 DEF Adds
<1>3. CASE Publishes(w, e, n)
    <2>1. /\ phase[w] \in Writing /\ phase[w] \notin Ended /\ e.inst = w
          /\ key[w] \in Key /\ key[w] \in published
        BY <1>0, <1>1, <1>3 DEF Publishes, HolderOK, Holding, KeyOK, CommitKeyOK, Writing, Ended
    <2>2. /\ executed[w] = committed[w] + Len(buffer[w])
          /\ \A i \in DOMAIN buffer[w] : buffer[w][i] = Nth(w, committed[w] + i)
          /\ \A i \in 1 .. executed[w] : Nth(w, i) \in Of(local[w])
          /\ job[w] = "flush" => content[key[w]] = buffer[w]
          /\ job[w] = "checkpoint" => content[key[w]] = local[w]
        BY <1>0, <1>3, <2>1 DEF CountOK, Publishes
    <2>3. Len(buffer[w]) \in Nat /\ DOMAIN buffer[w] = 1 .. Len(buffer[w])
        BY <1>0, LenProperties
    <2>4. CASE job[w] = "flush"
        <3>1. n.base = e.base /\ n.wal = e.wal \o Lines(key[w])
            BY <1>3, <2>4 DEF Publishes
        <3>2. Restored(n) = Restored(e) \union Of(buffer[w])
            <4>1. n.base = cache[w].base /\ n.wal = cache[w].wal \o Lines(key[w])
                BY <1>1, <3>1
            <4>2. /\ TypeOK /\ cache[w] \in HeadRecord /\ RefsPresent(cache[w])
                  /\ key[w] \in Key /\ key[w] \in published
                BY <1>0, <2>1
            <4>3. Restored(n) = Restored(cache[w]) \union Of(content[key[w]])
                BY ONLY <4>1, <4>2, FlushAdds
            <4> QED
                BY <1>1, <2>2, <2>4, <4>3
        <3>3. Of(buffer[w]) \subseteq Mine(w, executed[w])
            <4>1. ASSUME NEW i \in DOMAIN buffer[w]
                  PROVE  buffer[w][i] \in Mine(w, executed[w])
                <5>1. committed[w] + i \in 1 .. executed[w]
                    BY <1>0, <2>2, <2>3
                <5> QED
                    BY <2>2, <5>1 DEF Mine
            <4> QED
                BY <4>1 DEF Of
        <3>4. ASSUME NEW i \in 1 .. executed[w]
              PROVE  Nth(w, i) \in Restored(head) \union Restored(n)
            <4>1. CASE i <= committed[w]
                <5>1. i \in 1 .. committed[w]
                    BY <1>0, <4>1
                <5> QED
                    BY <1>0, <5>1 DEF AckedOK
            <4>2. CASE i > committed[w]
                <5>1. /\ i - committed[w] \in 1 .. Len(buffer[w])
                      /\ i = committed[w] + (i - committed[w])
                    BY <1>0, <2>2, <2>3, <4>2
                <5>2. Nth(w, i) \in Of(buffer[w])
                    BY <2>2, <2>3, <5>1 DEF Of
                <5> QED
                    BY <3>2, <5>2
            <4> QED
                BY <1>0, <4>1, <4>2
        <3>5. Mine(w, executed[w]) \subseteq Restored(head) \union Restored(n)
            BY <3>4 DEF Mine
        <3>6. Restored(n) \subseteq Restored(head) \union Mine(w, executed[w])
            BY <1>0, <1>1, <3>2, <3>3 DEF PrefixOK
        <3> QED
            BY <1>0, <2>1, <3>5, <3>6 DEF Adds
    <2>5. CASE job[w] = "checkpoint"
        <3>1. n.base = key[w] /\ n.wal = <<>>
            BY <1>3, <2>5 DEF Publishes
        <3>2. Of(n.wal) = {} /\ n.base # NoBase
            BY <2>1, <3>1, NoBaseAssumption DEF Of
        <3>3. Restored(n) = Of(local[w])
            BY <2>2, <2>5, <3>1, <3>2 DEF Restored, BaseContent
        <3>4. Mine(w, executed[w]) \subseteq Restored(n)
            BY <2>2, <3>3 DEF Mine
        <3>5. Restored(n) \subseteq Restored(head) \union Mine(w, executed[w])
            BY <1>0, <2>1, <3>3 DEF PrefixOK
        <3> QED
            BY <1>0, <2>1, <3>4, <3>5 DEF Adds
    <2> QED
        BY <1>3, <2>4, <2>5 DEF Publishes
<1> QED
    BY <1>0, <1>2, <1>3, SendsKinds DEF Takes, Gives, Extends

\* Adds stays true: the head loses nothing, and nobody un-executes a statement.
LEMMA AddsKept ==
    ASSUME RInv, [Next]_vars, NEW e \in HeadRecord, NEW n \in HeadRecord, RefsPresent(n),
           Adds(e, n)
    PROVE  Adds(e, n)'
<1>0. LogInv /\ IInv
    BY DEF RInv, LogInv, GInv
<1>1. PICK k \in Nat :
         /\ k > 0 => e.inst \in Instances /\ k <= executed[e.inst]
         /\ Restored(n) \subseteq Restored(head) \union Mine(e.inst, k)
         /\ Mine(e.inst, k) \subseteq Restored(head) \union Restored(n)
    BY DEF Adds
<1>2. Restored(head) \subseteq Restored(head)' /\ Restored(n)' = Restored(n)
    BY <1>0, HeadGrows, RestoredKept
<1>3. k > 0 => k <= executed'[e.inst]
    BY <1>0, <1>1, ExecutedGrows
<1> QED
    BY <1>1, <1>2, <1>3 DEF Adds, Mine, Nth

------------------------------------------------------------------------------
(* The invariant is kept. *)

\* What w saw last, and the watermark.
LEMMA CachesStep ==
    ASSUME RInv, [Next]_vars, NEW w \in Instances
    PROVE  /\ Restored(cache[w])' \subseteq Restored(head)'
           /\ committed'[w] <= executed'[w]
<1>0. /\ LogInv /\ IInv /\ TypeOK /\ CountOK(w) /\ HoldersOK /\ HolderOK(w) /\ PrefixOK(w)
      /\ cache[w] \in HeadRecord /\ RefsPresent(cache[w])
      /\ buffer[w] \in Seq(Statement) /\ executed[w] \in Nat /\ committed[w] \in Nat
    BY DEF RInv, LogInv, GInv, IInv, HoldersOK, NothingNamedIsMissing, TypeOK
<1>1. Restored(head) \subseteq Restored(head)' /\ head \in HeadRecord /\ RefsPresent(head)
    BY <1>0, HeadGrows
<1>2. cache'[w] = cache[w] \/ cache'[w] = head \/ cache'[w] = head'
    BY <1>0, SeesHeads, OthersKept, WhoMoves DEF Same, StoreDelivers, leaseVars
<1>3. Restored(cache[w])' \subseteq Restored(head)'
    <2>1. CASE cache'[w] = head'
        BY <2>1 DEF Restored, BaseContent
    <2>2. CASE cache'[w] = cache[w] \/ cache'[w] = head
        <3>1. PICK h \in HeadRecord :
                    h = cache'[w] /\ RefsPresent(h) /\ Restored(h) \subseteq Restored(head)
            BY <1>0, <1>1, <2>2 DEF PrefixOK
        <3>2. Restored(h)' \subseteq Restored(head)'
            BY <1>0, <1>1, <3>1, RestoredKept
        <3> QED
            BY <3>1, <3>2 DEF Restored, BaseContent
    <2> QED
        BY <1>2, <2>1, <2>2
<1>4. committed'[w] <= executed'[w]
    <2>1. executed'[w] \in Nat /\ executed[w] <= executed'[w]
        BY <1>0, ExecutedGrows
    <2>2. committed'[w] \in Nat /\ committed'[w] <= executed[w]
        <3>1. CASE committed'[w] = committed[w]
            BY <1>0, <3>1 DEF PrefixOK
        <3>2. CASE committed'[w] # committed[w]
            <4>1. committed'[w] = committed[w] + Len(buffer[w]) /\ phase[w] \notin Ended
                BY <1>0, <3>2, CommittedMoves DEF HolderOK, Writing, Ended
            <4>2. executed[w] = committed[w] + Len(buffer[w])
                BY <1>0, <4>1 DEF CountOK
            <4> QED
                BY <1>0, <4>1, <4>2
        <3> QED
            BY <3>1, <3>2
    <2> QED
        BY <1>0, <2>1, <2>2
<1> QED
    BY <1>3, <1>4

\* The scratch database of a handle is what it restored, and what it executed since.
LEMMA LocalChanges ==
    ASSUME RInv, [Next]_vars, NEW w \in Instances, phase'[w] \in {"confirming"} \union Writing
    PROVE  \/ phase[w] \in {"confirming"} \union Writing /\ local'[w] = local[w]
           \/ /\ phase[w] \in {"confirming"} \union Writing
              /\ local'[w] = Append(local[w], Nth(w, executed[w] + 1))
              /\ executed'[w] = executed[w] + 1
           \/ /\ phase[w] = "restoring" /\ phase'[w] = "confirming"
              /\ local'[w] = Replay(cache[w]) /\ cache'[w] = cache[w]
<1> USE DEF leaseVars, dataVars, jobVars, commitVars
<1>0. GInv /\ IInv /\ TypeOK
    BY DEF RInv, LogInv, GInv, IInv
<1>1. CASE Execute(w)
    BY <1>0, <1>1 DEF Execute, Ready, TypeOK, Nth, Writing
<1>2. ASSUME Moves(w), ~Execute(w), phase[w] \in {"confirming"} \union Writing
      PROVE  UNCHANGED local
    <2>1. ~Open(w)
        BY <1>2 DEF Writing, Open, OpenFindsObject, OpenFindsNothing, OpenReadOnly,
            OpenCannotReadHead, Create, CreatedReadsBack, CreateReread,
            AcquireRefused, Acquire, AcquireReread, Restore, RestoreSnapshot,
            RestoreFails, UnwindReadsHead, UnwindReleases
    <2>2. Operate(w) \/ Close(w) \/ HeartbeatFires(w) => UNCHANGED local
        BY <1>2 DEF Operate, SelfFence, StartFlush, StartCheckpoint, Uploaded,
            UploadedTooLate, UploadFails, Close, CloseStarts, CloseFenced,
            CloseFlushes, CloseLapsed, CloseReleases, CloseReader, HeartbeatFires
    <2>3. ~Crash(w)
        BY <1>0 DEF Crash, Go, TypeOK, Writing
    <2>4. ASSUME NEW t \in Threads, Commit(w, t) PROVE UNCHANGED local
        BY <2>4 DEF Commit, CommitReplaced, CommitUnsettled, CommitErrors,
            RereadSettles, RereadFenced, RereadRetries, RereadGivesUp, RereadErrors,
            Settle, GiveUp
    <2> QED
        BY <1>2, <2>1, <2>2, <2>3, <2>4 DEF Moves
<1>3. CASE Moves(w) /\ ~Execute(w)
    BY <1>0, <1>2, <1>3, LocalMoves
<1> QED
    BY <1>0, <1>1, <1>3, OthersKept, WhoMoves DEF Same, StoreDelivers, Moves, Operate

\* What w has in its database.
LEMMA LocalStep ==
    ASSUME RInv, [Next]_vars, NEW w \in Instances, phase'[w] \in {"confirming"} \union Writing
    PROVE  Of(local'[w]) \subseteq Restored(head)' \union Mine(w, executed'[w])
<1>0. /\ IInv /\ PrefixOK(w) /\ cache[w] \in HeadRecord /\ RefsPresent(cache[w])
      /\ local[w] \in Seq(Statement) /\ TypeOK
    BY DEF RInv, LogInv, GInv, IInv, NothingNamedIsMissing, TypeOK
<1>1. Restored(head) \subseteq Restored(head)'
    BY HeadGrows DEF RInv
<1>2. executed[w] \in Nat /\ executed'[w] \in Nat /\ executed[w] <= executed'[w]
    BY <1>0, ExecutedGrows
<1>3. Mine(w, executed[w]) \subseteq Mine(w, executed'[w])
    BY <1>2, MineGrows
<1>4. CASE phase[w] \in {"confirming"} \union Writing /\ local'[w] = local[w]
    BY <1>0, <1>1, <1>3, <1>4 DEF PrefixOK
<1>5. ASSUME phase[w] \in {"confirming"} \union Writing,
             local'[w] = Append(local[w], Nth(w, executed[w] + 1)),
             executed'[w] = executed[w] + 1
      PROVE  Of(local'[w]) \subseteq Restored(head)' \union Mine(w, executed'[w])
    <2>1. Nth(w, executed[w] + 1) \in Mine(w, executed'[w])
        BY <1>2, <1>5 DEF Mine
    <2>2. Nth(w, executed[w] + 1) \in Statement
        BY <1>2 DEF Nth, Statement
    <2>3. PICK s \in Statement : s = Nth(w, executed[w] + 1)
        BY <2>2
    <2>4. Of(local'[w]) \subseteq Of(local[w]) \union {s}
        BY <1>0, <1>5, <2>3, AppendProperties, LenProperties DEF Of
    <2> QED
        BY <1>0, <1>1, <1>3, <1>5, <2>1, <2>3, <2>4 DEF PrefixOK
<1>6. CASE local'[w] = Replay(cache[w]) /\ phase[w] = "restoring"
    <2>1. Of(local'[w]) = Restored(cache[w])
        BY <1>0, <1>6, OfReplay
    <2> QED
        BY <1>0, <1>1, <2>1 DEF PrefixOK
<1> QED
    BY <1>4, <1>5, <1>6, LocalChanges

\* A handle that executed asks for the lease no more, and what it asked is too old.
LEMMA SpentStep ==
    ASSUME RInv, [Next]_vars, NEW w \in Instances, executed'[w] > 0,
           NEW r \in late', Claim(w, r)
    PROVE  r.expect.gen < head'.gen
<1>0. /\ LogInv /\ GInv /\ IInv /\ TypeOK /\ HoldersOK /\ ClaimsOK(w) /\ CountOK(w)
      /\ PrefixOK(w) /\ executed[w] \in Nat
      /\ \A q \in late : q.expect.gen \in Nat
    BY HeadTypes DEF RInv, LogInv, GInv, IInv, ClaimsAreOld, TypeOK
<1>1. head.gen \in Nat /\ head'.gen \in Nat /\ head.gen <= head'.gen
    BY <1>0, GenGrows
<1>2. CASE r \in late /\ executed[w] > 0
    <2>1. r.expect.gen < head.gen
        BY <1>0, <1>2 DEF PrefixOK
    <2> QED
        BY <1>0, <1>1, <1>2, <2>1
<1>3. CASE executed[w] = 0
    <2>1. PICK v \in Instances : /\ Execute(v) /\ executed' = [executed EXCEPT ![v] = @ + 1]
                                 /\ UNCHANGED storeVars
        BY <1>0, <1>3, ExecutedMoves
    <2>2. v = w
        BY <1>0, <1>3, <2>1 DEF TypeOK
    <2>3. phase[w] \in Past /\ r \in late
        BY <2>1, <2>2 DEF Execute, Ready, Past, Phases, Writing, Taking, Asking, Waiting, storeVars
    <2>4. r.expect.gen < head.gen
        BY <1>0, <2>3 DEF ClaimsOK
    <2> QED
        BY <1>0, <1>1, <2>3, <2>4
<1>4. CASE r \notin late /\ executed[w] > 0
    <2>1. PICK v \in Instances : Moves(v) /\ \E e, n : Sent(v, e, n)
        BY <1>0, <1>4, HeadStep DEF LateWriteArrives
    <2>2. PICK e, n : Sent(v, e, n)
        BY <2>1
    <2>3. Sends(v, e, n) /\ r = Write(e, n) /\ r.expect = e /\ r.next = n
        BY <1>0, <1>4, <2>2, SendsTypes DEF Sent
    <2>4. n.inst \in {v, Nobody} /\ (phase[v] \notin Asking => n.inst = e.inst \/ n.inst = Nobody)
        BY <1>0, <2>3, SentInst
    <2>5. v = w /\ phase[w] \in Asking
        BY <2>3, <2>4, NobodyAssumption DEF Claim
    <2>6. executed[w] = 0
        BY <1>0, <2>5 DEF CountOK, Writing, Ended, Asking
    <2> QED
        BY <1>4, <2>6
<1> QED
    BY <1>0, <1>2, <1>3, <1>4

\* What is on its way.
LEMMA AddsStep ==
    ASSUME RInv, [Next]_vars, NEW r \in late'
    PROVE  Adds(r.expect, r.next)'
<1>0. /\ LogInv /\ IInv
      /\ \A q \in late : /\ q.expect \in HeadRecord /\ q.next \in HeadRecord
                         /\ RefsPresent(q.next) /\ Adds(q.expect, q.next)
    BY HeadTypes DEF RInv, LogInv, GInv, IInv, NothingNamedIsMissing
<1>1. CASE r \in late
    <2>1. PICK e \in HeadRecord, n \in HeadRecord :
             e = r.expect /\ n = r.next /\ RefsPresent(n) /\ Adds(e, n)
        BY <1>0, <1>1
    <2>2. Adds(e, n)'
        BY <2>1, AddsKept
    <2> QED
        BY <2>1, <2>2
<1>2. CASE r \notin late
    <2>1. PICK v \in Instances : Moves(v) /\ \E e, n : Sent(v, e, n)
        BY <1>0, <1>2, HeadStep DEF LateWriteArrives
    <2>2. PICK e, n : Sent(v, e, n)
        BY <2>1
    <2>3. /\ Sends(v, e, n) /\ r = Write(e, n) /\ r.expect = e /\ r.next = n
          /\ e \in HeadRecord /\ n \in HeadRecord
        BY <1>0, <1>2, <2>2, SendsTypes DEF Sent
    <2>4. Adds(e, n) /\ RefsPresent(n)
        BY <1>0, <2>3, SentAdds, SentGrows DEF Grows
    <2>5. Adds(e, n)'
        BY <2>3, <2>4, AddsKept
    <2> QED
        BY <2>3, <2>5
<1> QED
    BY <1>1, <1>2

\* RInv is an invariant.
LEMMA RInvStep == RInv /\ [Next]_vars /\ Undisturbed' => RInv'
<1> SUFFICES ASSUME RInv, [Next]_vars, Undisturbed'
             PROVE  RInv'
    OBVIOUS
<1>1. LogInv'
    BY LogInvStep DEF RInv
<1>2. ASSUME NEW w \in Instances PROVE PrefixOK(w)'
    <2>1. \A r \in late' : executed'[w] > 0 /\ Claim(w, r) => r.expect.gen < head'.gen
        BY SpentStep
    <2>2. phase'[w] \in {"confirming"} \union Writing =>
             Of(local'[w]) \subseteq Restored(head)' \union Mine(w, executed'[w])
        BY LocalStep
    <2> QED
        BY <2>1, <2>2, CachesStep DEF PrefixOK, Claim, Of, Mine, Nth
<1>3. \A r \in late' : Adds(r.expect, r.next)'
    BY AddsStep
<1> QED
    BY <1>1, <1>2, <1>3 DEF RInv

\* RInv holds at first.
LEMMA InitR == Init => RInv
<1> SUFFICES ASSUME Init
             PROVE  RInv
    OBVIOUS
<1>1. LogInv /\ late = {}
    BY InitLog DEF Init, StoreInit
<1>2. ASSUME NEW w \in Instances PROVE PrefixOK(w)
    <2>1. /\ phase[w] = "new" /\ executed[w] = 0 /\ committed[w] = 0
          /\ cache[w].base = NoBase /\ cache[w].wal = <<>>
        BY DEF Init, Absent
    <2>2. Restored(cache[w]) = {}
        BY <2>1 DEF Restored, BaseContent, Of
    <2> QED
        BY <1>1, <2>1, <2>2 DEF PrefixOK, Writing
<1> QED
    BY <1>1, <1>2 DEF RInv

------------------------------------------------------------------------------
(* What each step is to the log. *)

\* Every step adds to the head a prefix of what its holder executed, or nothing.
LEMMA HeadAdds ==
    ASSUME RInv, [Next]_vars
    PROVE  \E k \in Nat, h \in HeadRecord :
              /\ h = head' /\ RefsPresent(h)
              /\ k > 0 => head.inst \in Instances /\ k <= executed[head.inst]
              /\ Restored(h) = Restored(head) \union Mine(head.inst, k)
<1>0. /\ LogInv /\ IInv /\ head \in HeadRecord /\ RefsPresent(head)
      /\ \A r \in late : /\ r.expect \in HeadRecord /\ r.next \in HeadRecord
                         /\ Grows(r.expect, r.next) /\ Adds(r.expect, r.next)
    BY HeadTypes DEF RInv, LogInv, GInv, IInv, NothingNamedIsMissing, HeadsOK
<1>1. CASE head' = head
    <2>1. Restored(head) = Restored(head) \union Mine(head.inst, 0) /\ 0 \in Nat /\ ~(0 > 0)
        BY DEF Mine
    <2> QED
        BY <1>0, <1>1, <2>1
<1>2. ASSUME NEW n \in HeadRecord, head' = n, Grows(head, n), Adds(head, n)
      PROVE  \E k \in Nat, h \in HeadRecord :
                /\ h = head' /\ RefsPresent(h)
                /\ k > 0 => head.inst \in Instances /\ k <= executed[head.inst]
                /\ Restored(h) = Restored(head) \union Mine(head.inst, k)
    <2>1. PICK k \in Nat :
             /\ k > 0 => head.inst \in Instances /\ k <= executed[head.inst]
             /\ Restored(n) \subseteq Restored(head) \union Mine(head.inst, k)
             /\ Mine(head.inst, k) \subseteq Restored(head) \union Restored(n)
        BY <1>2 DEF Adds
    <2>2. Restored(n) = Restored(head) \union Mine(head.inst, k) /\ RefsPresent(n)
        BY <1>2, <2>1 DEF Grows
    <2> QED
        BY <1>2, <2>1, <2>2
<1>3. CASE LateWriteArrives
    <2>1. \/ head' = head
          \/ \E r \in late : r.expect = head /\ r.next = head'
        BY <1>3 DEF LateWriteArrives, Matches
    <2>2. ASSUME NEW r \in late, r.expect = head, r.next = head'
          PROVE  \E n \in HeadRecord : head' = n /\ Grows(head, n) /\ Adds(head, n)
        <3>1. PICK n \in HeadRecord : n = r.next
            BY <1>0
        <3> QED
            BY <1>0, <2>2, <3>1
    <2> QED
        BY <1>1, <1>2, <2>1, <2>2
<1>4. ASSUME NEW w \in Instances, NEW e, NEW n, Sent(w, e, n), head' # head
      PROVE  n \in HeadRecord /\ head' = n /\ Grows(head, n) /\ Adds(head, n)
    <2>1. Sends(w, e, n) /\ n \in HeadRecord /\ e = head /\ head' = n
        BY <1>4 DEF Sent
    <2>2. Grows(e, n) /\ Adds(e, n)
        BY <1>0, <2>1, SentGrows, SentAdds
    <2> QED
        BY <2>1, <2>2
<1> QED
    BY <1>0, <1>1, <1>2, <1>3, <1>4, HeadStep

\* What a manifest replays stays what it is.
LEMMA ReplayKept ==
    ASSUME IInv, [Next]_vars, NEW h \in HeadRecord, RefsPresent(h)
    PROVE  Replay(h)' = Replay(h)
<1>1. /\ h.base # NoBase => h.base \in published
      /\ DOMAIN h.wal = 1 .. Len(h.wal)
      /\ \A i \in 1 .. Len(h.wal) : h.wal[i].key \in published
    BY DEF RefsPresent, HeadRecord
<1>2. \A k \in published : content'[k] = content[k]
    BY ContentKept
<1>3. BaseContent(h)' = BaseContent(h)
    BY <1>1, <1>2 DEF BaseContent
<1>4. [i \in 1 .. Len(h.wal) |-> content'[h.wal[i].key][h.wal[i].line]]
         = [i \in 1 .. Len(h.wal) |-> content[h.wal[i].key][h.wal[i].line]]
    BY <1>1, <1>2
<1> QED
    BY <1>3, <1>4 DEF Replay

\* So what the next open() replays grows by that prefix.
LEMMA DurableAdds ==
    ASSUME RInv, [Next]_vars
    PROVE  \E k \in Nat :
              /\ k > 0 => head.inst \in Instances /\ k <= executed[head.inst]
              /\ Of(Replay(head))' = Of(Replay(head)) \union Mine(head.inst, k)
              /\ Of(Replay(head))' = Restored(head)'
<1>0. IInv /\ TypeOK /\ head \in HeadRecord /\ RefsPresent(head)
    BY HeadTypes DEF RInv, LogInv, GInv, IInv, NothingNamedIsMissing
<1>1. PICK k \in Nat, h \in HeadRecord :
         /\ h = head' /\ RefsPresent(h)
         /\ k > 0 => head.inst \in Instances /\ k <= executed[head.inst]
         /\ Restored(h) = Restored(head) \union Mine(head.inst, k)
    BY HeadAdds
<1>2. Of(Replay(h)) = Restored(h) /\ Of(Replay(head)) = Restored(head)
    BY <1>0, <1>1, OfReplay
<1>3. Replay(h)' = Replay(h)
    BY <1>0, <1>1, ReplayKept
<1>4. Replay(head)' = Replay(h)'
    BY <1>1 DEF Replay, BaseContent
<1>5. Of(Replay(head))' = Of(Replay(h))
    BY <1>3, <1>4 DEF Of
<1>6. Restored(h)' = Restored(h)
    BY <1>0, <1>1, RestoredKept
<1>7. Restored(head)' = Restored(h)'
    BY <1>1 DEF Restored, BaseContent
<1> QED
    BY <1>1, <1>2, <1>5, <1>6, <1>7

\* A watermark moves only while the head names its handle, and stays a prefix.
LEMMA ToldMoves ==
    ASSUME RInv, [Next]_vars, NEW w \in Instances
    PROVE  /\ committed'[w] # committed[w] => head.inst = w /\ head'.inst = w
           /\ committed[w] \in Nat /\ committed'[w] \in Nat /\ executed'[w] \in Nat
           /\ committed[w] <= committed'[w] /\ committed'[w] <= executed'[w]
<1>0. /\ LogInv /\ IInv /\ TypeOK /\ HolderOK(w) /\ cache[w] \in HeadRecord
      /\ committed[w] \in Nat /\ buffer[w] \in Seq(Statement) /\ "op" \in Threads
    BY DEF RInv, LogInv, GInv, IInv, HoldersOK, TypeOK, Threads
<1>1. executed'[w] \in Nat /\ committed'[w] <= executed'[w]
    BY <1>0, ExecutedGrows, CachesStep
<1>2. ASSUME committed'[w] # committed[w]
      PROVE  head.inst = w /\ head'.inst = w /\ committed'[w] = committed[w] + Len(buffer[w])
    <2>1. /\ CommitReplaced(w, "op") \/ RereadSettles(w, "op")
          /\ job[w] \in {"flush", "checkpoint"}
          /\ committed'[w] = committed[w] + Len(buffer[w])
        BY <1>0, <1>2, CommittedMoves
    <2>2. cache[w].inst = w
        BY <1>0, <2>1 DEF HolderOK, Holding
    <2>3. CASE CommitReplaced(w, "op")
        <3>1. head = cache[w] /\ head' = Build(w, "op") /\ Attempting(w, "op")
            BY <2>3 DEF CommitReplaced, HeadWrite, Matches
        <3>2. PICK n : n = Build(w, "op")
            OBVIOUS
        <3>3. n.inst = cache[w].inst
            BY <1>0, <2>1, <3>1, <3>2, BuildKinds DEF Publishes
        <3> QED
            BY <2>1, <2>2, <3>1, <3>2, <3>3
    <2>4. CASE RereadSettles(w, "op")
        BY <2>1, <2>4 DEF RereadSettles, Proven, StillOurs, Intent, storeVars
    <2> QED
        BY <2>1, <2>3, <2>4
<1>3. Len(buffer[w]) \in Nat
    BY <1>0, LenProperties
<1> QED
    BY <1>0, <1>1, <1>2, <1>3

\* Only a handle that executed nothing is given the lease.
LEMMA TakenFresh ==
    ASSUME RInv, [Next]_vars, NEW w \in Instances, head'.inst = w, head.inst # w
    PROVE  executed[w] = 0
<1>0. /\ LogInv /\ IInv /\ HoldersOK /\ CountOK(w) /\ PrefixOK(w)
      /\ executed[w] \in Nat /\ head.gen \in Nat
    BY HeadTypes DEF RInv, LogInv, GInv, IInv, TypeOK
<1>1. CASE LateWriteArrives
    <2>1. PICK r \in late : r.expect = head /\ r.next = head'
        BY <1>1 DEF LateWriteArrives, Matches
    <2>2. Claim(w, r)
        BY <2>1 DEF Claim
    <2>3. ~(r.expect.gen < head.gen)
        BY <1>0, <2>1
    <2> QED
        BY <1>0, <2>2, <2>3 DEF PrefixOK
<1>2. ASSUME NEW v \in Instances, NEW e, NEW n, Sent(v, e, n)
      PROVE  executed[w] = 0
    <2>1. Sends(v, e, n) /\ head = e /\ head' = n
        BY <1>2 DEF Sent
    <2>2. v = w
        BY <1>0, <2>1, SentInst, NobodyAssumption
    <2>3. phase[w] \in Asking
        BY <1>0, <2>1, <2>2, SentInst, NobodyAssumption
    <2> QED
        BY <1>0, <2>3 DEF CountOK, Writing, Ended, Asking
<1> QED
    BY <1>0, <1>1, <1>2, HeadStep

\* A step that moves the lease moves nothing else.
LEMMA LeaseMoves ==
    ASSUME RInv, [Next]_vars, head'.inst # head.inst
    PROVE  Of(Replay(head))' = Of(Replay(head)) /\ UNCHANGED <<executed, committed>>
<1>0. /\ IInv /\ HoldersOK /\ TypeOK /\ head \in HeadRecord /\ RefsPresent(head)
    BY HeadTypes DEF RInv, LogInv, GInv, IInv, NothingNamedIsMissing
<1>1. Manifest(head') = Manifest(head)
    BY <1>0, ChangesAreCommits DEF Commits
<1>2. PICK h : h = head' /\ h.base = head.base /\ h.wal = head.wal
    BY <1>1 DEF Manifest
<1>3. Replay(head)' = Replay(head)
    <2>1. Replay(h)' = Replay(head)'
        BY <1>2 DEF Replay, BaseContent
    <2>2. PICK g \in HeadRecord : g = head /\ RefsPresent(g)
        BY <1>0
    <2>3. Replay(g)' = Replay(g)
        BY <1>0, <2>2, ReplayKept
    <2>4. Replay(h)' = Replay(g)'
        BY <1>2, <2>2 DEF Replay, BaseContent
    <2> QED
        BY <2>1, <2>2, <2>3, <2>4
<1>4. UNCHANGED executed
    BY <1>0, ExecutedMoves DEF storeVars
<1>5. UNCHANGED committed
    <2>1. TypeOK'
        BY <1>0, IInvStep DEF IInv
    <2>2. \A w \in Instances : committed'[w] = committed[w]
        BY ToldMoves
    <2> QED
        BY <1>0, <2>1, <2>2 DEF TypeOK
<1> QED
    BY <1>3, <1>4, <1>5 DEF Of

\* A step of the implementation is a step of the log, or none.
LEMMA StepMaps ==
    ASSUME RInv, [Next]_vars
    PROVE  [Log!Next]_(Log!vars)
<1>0. /\ LogInv /\ IInv /\ TypeOK /\ head \in HeadRecord /\ head' \in HeadRecord
      /\ committed \in [Instances -> Nat] /\ committed' \in [Instances -> Nat]
      /\ executed \in [Instances -> Nat]
    <2>1. IInv /\ IInv'
        BY IInvStep DEF RInv, LogInv, GInv
    <2> QED
        BY <2>1 DEF RInv, IInv, TypeOK
<1>1. head.inst \in Instances \union {Nobody} /\ head'.inst \in Instances \union {Nobody}
    BY <1>0 DEF HeadRecord
<1>2. CASE ~UNCHANGED executed
    <2>1. PICK w \in Instances : /\ executed' = [executed EXCEPT ![w] = @ + 1]
                                 /\ UNCHANGED <<storeVars, committed>>
        BY <1>0, <1>2, ExecutedMoves
    <2>2. Of(Replay(head))' = Of(Replay(head)) /\ head' = head
        BY <2>1 DEF Of, Replay, BaseContent, storeVars
    <2>3. Log!Run(w)
        BY <2>1, <2>2 DEF Log!Run, Of
    <2> QED
        BY <2>3 DEF Log!Next
<1>3. CASE UNCHANGED executed /\ head'.inst = head.inst /\ head.inst = Nobody
    <2>1. Of(Replay(head))' = Of(Replay(head))
        <3>1. PICK k \in Nat :
                 /\ k > 0 => head.inst \in Instances
                 /\ Of(Replay(head))' = Of(Replay(head)) \union Mine(head.inst, k)
            BY DurableAdds
        <3>2. k = 0
            BY <1>3, <3>1, NobodyAssumption
        <3>3. Mine(head.inst, k) = {}
            BY <3>2 DEF Mine
        <3> QED
            BY <3>1, <3>3
    <2>2. \A w \in Instances : committed'[w] = committed[w]
        BY <1>3, ToldMoves, NobodyAssumption
    <2>3. committed' = committed
        BY <1>0, <2>2
    <2> QED
        BY <1>3, <2>1, <2>3 DEF Log!vars, Of
<1>4. ASSUME NEW w \in Instances, UNCHANGED executed, head'.inst = head.inst, head.inst = w
      PROVE  Log!Commit(w)
    <2>1. PICK k \in Nat :
             /\ k > 0 => k <= executed[w]
             /\ Of(Replay(head))' = Of(Replay(head)) \union Mine(w, k)
             /\ Of(Replay(head))' = Restored(head)'
        BY <1>4, DurableAdds
    <2>2. k \in 0 .. executed[w]
        BY <1>0, <2>1
    <2>3. committed'[w] \in committed[w] .. executed[w]
        BY <1>0, <1>4, ToldMoves
    <2>4. AckedOK(w)'
        BY <1>0, AckedStep
    <2>5. Mine(w, committed'[w]) \subseteq Of(Replay(head))'
        BY <2>1, <2>4 DEF AckedOK, Mine, Nth
    <2>6. committed' = [committed EXCEPT ![w] = committed'[w]]
        <3>1. \A v \in Instances \ {w} : committed'[v] = committed[v]
            BY <1>4, ToldMoves
        <3> QED
            BY <1>0, <3>1
    <2>7. \A n : Mine(w, n) = Log!UpTo(w, n)
        BY DEF Mine, Nth, Log!UpTo
    <2> QED
        BY <1>4, <2>1, <2>2, <2>3, <2>5, <2>6, <2>7 DEF Log!Commit, Of
<1>5. CASE head'.inst # head.inst
    <2>1. Of(Replay(head))' = Of(Replay(head)) /\ UNCHANGED <<executed, committed>>
        BY <1>5, LeaseMoves
    <2>2. CASE head'.inst = Nobody
        <3>1. Log!GiveUp
            BY <2>1, <2>2 DEF Log!GiveUp, Of
        <3> QED
            BY <3>1 DEF Log!Next
    <2>3. ASSUME NEW w \in Instances, head'.inst = w
          PROVE  Log!Take(w)
        <3>1. executed[w] = 0
            BY <1>5, <2>3, TakenFresh
        <3> QED
            BY <1>5, <2>1, <2>3, <3>1 DEF Log!Take, Of
    <2> QED
        BY <1>1, <2>2, <2>3 DEF Log!Next
<1> QED
    BY <1>1, <1>2, <1>3, <1>4, <1>5 DEF Log!Next

\* At first nobody holds the lease and nothing is durable.
LEMMA InitMaps == Init => Log!Init
<1> SUFFICES ASSUME Init
             PROVE  Log!Init
    OBVIOUS
<1>1. head.inst = Nobody /\ head.base = NoBase /\ head.wal = <<>>
    BY DEF Init, StoreInit, Released, Absent, WithLease
<1>2. Replay(head) = <<>> \o [i \in 1 .. 0 |-> content[head.wal[i].key][head.wal[i].line]]
    BY <1>1 DEF Replay, BaseContent
<1>3. Of(Replay(head)) = {}
    BY <1>2 DEF Of
<1> QED
    BY <1>1, <1>3 DEF Log!Init, Init, Of

\* The lease, commitHead, checkpoint and reconcile together keep the promise of
\* StatementLog, with any number of handles and whatever goes wrong: only the holder
\* makes statements durable, in the order it ran them and without a gap, callers are
\* told of no more than that, and nothing durable goes away (src/durable/object.ts).
THEOREM ObjectKeepsTheLog == Spec /\ Unraced => KeepsTheLog
<1>1. Init => RInv /\ Log!Init
    BY InitR, InitMaps
<1>2. RInv /\ [Next]_vars /\ Undisturbed' => RInv' /\ [Log!Next]_(Log!vars)
    BY RInvStep, StepMaps
<1> QED
    BY <1>1, <1>2, NobodyComesBetween, PTL DEF Spec, KeepsTheLog, Log!Spec

------------------------------------------------------------------------------
(* What a head names, and how a key comes to be named. *)

\* The manifest of h refers to the object under k.
Names(h, k) == h.base = k \/ \E i \in DOMAIN h.wal : h.wal[i].key = k

\* The running operation of w has uploaded and is inside commitHead, and then also
\* holds the head lock: its write may be on its way.
Committing(w) == at[w]["op"] \in {"commit", "reread"} /\ job[w] \in {"flush", "checkpoint"}
Sending(w)    == Committing(w) /\ Holds(w, "op")

\* A named object has been published.
LEMMA NamedIsPublished ==
    ASSUME NEW h, RefsPresent(h), NEW k \in Key, Names(h, k)
    PROVE  k \in published
BY NoBaseAssumption DEF RefsPresent, Names

\* A segment that a write names the head it replaces named too, or it is the write's own.
LEMMA LinesSent ==
    ASSUME IInv, NEW w \in Instances, NEW e, NEW n, Sends(w, e, n), NEW i \in DOMAIN n.wal
    PROVE  \/ \E j \in DOMAIN e.wal : e.wal[j] = n.wal[i]
           \/ Publishes(w, e, n) /\ job[w] = "flush" /\ n.wal[i].key = key[w]
<1>0. TypeOK /\ KeyOK /\ e \in HeadRecord
    BY SendsTypes DEF IInv
<1>1. CASE SameManifest(e, n)
    BY <1>1 DEF SameManifest
<1>2. CASE Publishes(w, e, n) /\ job[w] = "checkpoint"
    BY <1>2 DEF Publishes
<1>3. CASE Publishes(w, e, n) /\ job[w] = "flush"
    <2> DEFINE old == e.wal
               new == Lines(key[w])
    <2>1. key[w] \in Key
        BY <1>0, <1>3 DEF Publishes, KeyOK, CommitKeyOK
    <2>2. old \in Seq(Line) /\ new \in Seq(Line)
        BY <1>0, <2>1, TypeOfLines DEF HeadRecord
    <2>3. \A l \in DOMAIN new : new[l].key = key[w]
        BY DEF Lines
    <2>4. n.wal = old \o new
        BY <1>3 DEF Publishes
    <2> HIDE DEF old, new
    <2>5. /\ DOMAIN (old \o new) = 1 .. Len(old) + Len(new)
          /\ Len(old) \in Nat /\ Len(new) \in Nat
          /\ DOMAIN old = 1 .. Len(old) /\ DOMAIN new = 1 .. Len(new)
          /\ \A l \in 1 .. Len(old) + Len(new) :
                (old \o new)[l] = IF l <= Len(old) THEN old[l] ELSE new[l - Len(old)]
        BY <2>2
    <2>6. i \in 1 .. Len(old) + Len(new)
        BY <2>4, <2>5
    <2>7. CASE i <= Len(old)
        <3>1. i \in DOMAIN old /\ old[i] = n.wal[i]
            BY <2>4, <2>5, <2>6, <2>7
        <3> QED
            BY <3>1 DEF old
    <2>8. CASE i > Len(old)
        <3>1. i - Len(old) \in DOMAIN new /\ n.wal[i] = new[i - Len(old)]
            BY <2>4, <2>5, <2>6, <2>8
        <3> QED
            BY <1>3, <2>3, <3>1
    <2> QED
        BY <2>5, <2>6, <2>7, <2>8
<1> QED
    BY <1>1, <1>2, <1>3, SendsKinds DEF Takes, Gives, Extends, Publishes

\* A write names what the head it replaces names, and the key it publishes.
LEMMA NamesSent ==
    ASSUME IInv, NEW w \in Instances, NEW e, NEW n, Sends(w, e, n), NEW k, Names(n, k)
    PROVE  Names(e, k) \/ (Publishes(w, e, n) /\ k = key[w])
<1>1. CASE n.base = k
    BY <1>1, SendsKinds DEF Takes, Gives, Extends, Publishes, SameManifest, Names
<1>2. CASE \E i \in DOMAIN n.wal : n.wal[i].key = k
    BY <1>2, LinesSent DEF Names
<1> QED
    BY <1>1, <1>2 DEF Names

\* No step of open() is one of a handle that has escaped it.
LEMMA OpenPhase ==
    ASSUME NEW w \in Instances, Open(w)
    PROVE  phase[w] \notin Writing
BY DEF Open, OpenFindsObject, OpenFindsNothing, OpenReadOnly, OpenCannotReadHead, Create,
    CreatedReadsBack, CreateReread, AcquireRefused, Acquire, AcquireReread, Restore,
    RestoreSnapshot, RestoreFails, UnwindReadsHead, UnwindReleases, Writing

\* The head changes as a request that was under way lands, or as a handle that last
\* saw it writes.
LEMMA HeadComes ==
    ASSUME IInv, HoldersOK, [Next]_vars, head' # head
    PROVE  \/ LateWriteArrives /\ \E r \in late : r.expect = head /\ r.next = head'
           \/ \E w \in Instances : Moves(w) /\ head = cache[w] /\ Sends(w, head, head')
<1>1. CASE LateWriteArrives
    BY <1>1 DEF LateWriteArrives, Matches
<1>2. ASSUME NEW w \in Instances, Moves(w), NEW e, NEW n, Sent(w, e, n)
      PROVE  Moves(w) /\ head = cache[w] /\ Sends(w, head, head')
    <2>1. Sends(w, e, n) /\ head = e /\ head' = n
        BY <1>2 DEF Sent
    <2> QED
        BY <1>2, <2>1, SentInst
<1> QED
    BY <1>1, <1>2, HeadStep

\* A request is left under way only by a write over what its handle last saw; one
\* that publishes only by commitHead, which then knows it is in doubt.
LEMMA LateComes ==
    ASSUME IInv, HoldersOK, [Next]_vars, NEW r \in late', r \notin late
    PROVE  \E w \in Instances :
              /\ Moves(w) /\ r.expect = cache[w] /\ Sends(w, r.expect, r.next)
              /\ \/ SameManifest(r.expect, r.next)
                 \/ /\ Publishes(w, r.expect, r.next)
                    /\ CommitUnsettled(w, "op") /\ doubt'[w]
<1>0. TypeOK
    BY DEF IInv
<1>1. PICK w \in Instances : Moves(w) /\ \E e, n : Sent(w, e, n)
    BY HeadStep DEF LateWriteArrives
<1>2. PICK e, n : Sends(w, e, n) /\ r = Write(e, n)
    BY <1>1 DEF Sent
<1>3. r.expect = e /\ r.next = n /\ e = cache[w]
    BY <1>2, SentInst DEF Write
<1>4. CASE Publishes(w, e, n)
    <2>1. phase[w] \in Writing
        BY <1>4 DEF Publishes, HoldersOK, HolderOK
    <2>2. ~(Operate(w) \/ Close(w) \/ HeartbeatFires(w) \/ Crash(w))
        BY DEF Operate, SelfFence, Execute, StartFlush, StartCheckpoint, Uploaded,
            UploadedTooLate, UploadFails, Publish, Close, CloseStarts, CloseFenced,
            CloseFlushes, CloseLapsed, CloseReleases, CloseReader, HeartbeatFires, Crash,
            storeVars
    <2>3. PICK t \in Threads : Commit(w, t)
        BY <1>1, <2>1, <2>2, OpenPhase DEF Moves
    <2>4. CommitUnsettled(w, t)
        BY <2>3 DEF Commit, CommitReplaced, CommitErrors, RereadSettles, RereadFenced,
            RereadRetries, RereadGivesUp, RereadErrors, HeadWrite, storeVars
    <2>5. PICK answer \in {"not-replaced", "ambiguous"} :
            /\ HeadWrite(cache[w], Build(w, t), answer)
            /\ doubt' = [doubt EXCEPT ![w] = @ \/ answer = "ambiguous"]
        BY <2>4 DEF CommitUnsettled
    <2>6. answer = "ambiguous" /\ r = Write(cache[w], Build(w, t))
        BY <2>5 DEF HeadWrite
    <2>7. doubt'[w]
        BY <1>0, <2>5, <2>6 DEF TypeOK
    <2>8. r.next = Build(w, t) /\ Attempting(w, t)
        BY <2>4, <2>6 DEF Write, CommitUnsettled
    <2>9. CASE t = "hb"
        <3>1. Extends(w, e, n)
            BY <1>3, <2>8, <2>9, BuildKinds
        <3> QED
            BY <1>1, <1>2, <1>3, <3>1 DEF Extends
    <2>10. CASE t = "op"
        BY <1>1, <1>2, <1>3, <1>4, <2>4, <2>7, <2>10
    <2> QED
        BY <2>9, <2>10 DEF Threads
<1>5. CASE ~Publishes(w, e, n)
    BY <1>1, <1>2, <1>3, <1>5, SendsKinds DEF Takes, Gives, Extends
<1> QED
    BY <1>4, <1>5

------------------------------------------------------------------------------
(* How an operation comes to commitHead, and what it does there. *)

\* What else the step of another handle leaves as it is.
SameToo(v) ==
    /\ result'[v] = result[v] /\ doubt'[v] = doubt[v] /\ lockq'[v] = lockq[v]
    /\ v \in unproven' <=> v \in unproven

\* A step of one handle leaves that too of every other.
LEMMA OthersToo ==
    ASSUME IInv, NEW w \in Instances, Moves(w), NEW v \in Instances, v # w
    PROVE  SameToo(v)
<1> USE DEF jobVars, commitVars
<1>0. TypeOK
    BY DEF IInv
<1>1. CASE Open(w)
    BY <1>0, <1>1 DEF TypeOK, SameToo, Open, OpenFindsObject, OpenFindsNothing, OpenReadOnly,
        OpenCannotReadHead, Create, CreatedReadsBack, CreateReread, AcquireRefused, Acquire,
        AcquireReread, Restore, RestoreSnapshot, RestoreFails, UnwindReadsHead,
        UnwindReleases, Queue
<1>2. CASE Operate(w)
    BY <1>0, <1>2 DEF TypeOK, SameToo, Operate, SelfFence, Execute, StartFlush,
        StartCheckpoint, StartUpload, Uploaded, UploadedTooLate, UploadFails, FailJob,
        EndJob, Queue
<1>3. CASE Close(w) \/ HeartbeatFires(w) \/ Crash(w)
    BY <1>0, <1>3 DEF TypeOK, SameToo, Close, CloseStarts, CloseFenced, CloseFlushes,
        CloseLapsed, CloseReleases, CloseReader, HeartbeatFires, Crash, StartUpload, Queue
<1>4. ASSUME NEW t \in Threads, NEW h, Settle(w, t, h) PROVE SameToo(v)
    <2>1. doubt'[v] = doubt[v] /\ lockq'[v] = lockq[v] /\ UNCHANGED unproven
        BY <1>0, <1>4 DEF TypeOK, Settle, LeaveLock
    <2>2. result'[v] = result[v]
        BY <1>0, <1>4 DEF TypeOK, Settle, FlushDone, CheckpointDone, ReleaseDone, RenewDone,
            EndJob
    <2> QED
        BY <2>1, <2>2 DEF SameToo
<1>5. ASSUME NEW t \in Threads, NEW told, NEW open, GiveUp(w, t, told, open) PROVE SameToo(v)
    BY <1>0, <1>5 DEF TypeOK, SameToo, GiveUp, LeaveLock, FailJob, EndJob
<1>6. ASSUME NEW t \in Threads, Commit(w, t) PROVE SameToo(v)
    <2>1. CASE CommitReplaced(w, t) \/ RereadSettles(w, t)
        BY <1>4, <2>1 DEF CommitReplaced, RereadSettles
    <2>2. CASE CommitUnsettled(w, t) \/ RereadRetries(w, t)
        BY <1>0, <2>2 DEF TypeOK, SameToo, CommitUnsettled, RereadRetries
    <2>3. CASE \/ CommitErrors(w, t) \/ RereadFenced(w, t)
               \/ RereadGivesUp(w, t) \/ RereadErrors(w, t)
        BY <1>5, <2>3 DEF CommitErrors, RereadFenced, RereadGivesUp, RereadErrors
    <2> QED
        BY <1>6, <2>1, <2>2, <2>3 DEF Commit
<1> QED
    BY <1>1, <1>2, <1>3, <1>6 DEF Moves

\* Only one thread of a handle is inside commitHead with the lock.
LEMMA LockHolder ==
    ASSUME IInv, NEW w \in Instances, NEW t \in Threads, Commit(w, t)
    PROVE  \A u \in Threads : Holds(w, u) => u = t
BY DEF IInv, LockOK, Commit, CommitReplaced, CommitUnsettled, CommitErrors, RereadSettles,
    RereadFenced, RereadRetries, RereadGivesUp, RereadErrors, Attempting, Rereading, Holds

\* A heartbeat that joins the queue of the lock is not at its head.
LEMMA QueuedBehind ==
    ASSUME TypeOK, NEW w \in Instances, NEW t \in Threads, Queue(w, t), lockq[w] # <<>>
    PROVE  lockq'[w] # <<>> /\ Head(lockq'[w]) = Head(lockq[w])
<1>1. lockq[w] \in Seq(Threads) /\ lockq'[w] = Append(lockq[w], t)
    BY DEF TypeOK, Queue
<1> QED
    BY <1>1, HeadTailProperties, AppendProperties, LenProperties

\* An operation comes to commitHead by its upload, and stays the same in there; what
\* it holds in doubt stays in doubt.
LEMMA CommittingMoves ==
    ASSUME IInv, NEW w \in Instances, Moves(w), Committing(w)'
    PROVE  \/ Uploaded(w) /\ UNCHANGED <<head, late, leaseVars, jobVars, dataVars>>
           \/ /\ Committing(w) /\ job'[w] = job[w] /\ key'[w] = key[w] /\ result'[w] = result[w]
              /\ w \in unproven' <=> w \in unproven
              /\ UNCHANGED <<published, content, local, buffer>>
              /\ Sending(w) =>
                        /\ Sending(w)' /\ (doubt[w] => doubt'[w])
                        /\ \/ cache'[w] = cache[w]
                           \/ cache'[w] = head /\ StillOurs(w, head) /\ ~Intended(w, "op", head)
                              /\ UNCHANGED <<head, late>>
<1> USE DEF jobVars, commitVars, dataVars, storeVars
<1>0. TypeOK /\ JobOK /\ job'[w] \in {"flush", "checkpoint"}
      /\ at'[w]["op"] \in {"commit", "reread"}
    BY DEF IInv, Committing
<1>1. CASE Open(w)
    <2>1. job[w] = "none"
        BY <1>0, <1>1 DEF JobOK, Open, OpenFindsObject, OpenFindsNothing, OpenReadOnly,
            OpenCannotReadHead, Create, CreatedReadsBack, CreateReread, AcquireRefused, Acquire,
            AcquireReread, Restore, RestoreSnapshot, RestoreFails, UnwindReadsHead,
            UnwindReleases, Writing
    <2>2. job'[w] \in {"none", "confirm"}
        BY <1>0, <1>1, <2>1 DEF TypeOK, Open, OpenFindsObject, OpenFindsNothing, OpenReadOnly,
            OpenCannotReadHead, Create, CreatedReadsBack, CreateReread, AcquireRefused, Acquire,
            AcquireReread, Restore, RestoreSnapshot, RestoreFails, UnwindReadsHead,
            UnwindReleases, Run
    <2> QED
        BY <1>0, <2>2
<1>2. CASE Uploaded(w)
    BY <1>2 DEF Uploaded, Publish
<1>3. CASE Operate(w) /\ ~Uploaded(w)
    <2>1. CASE SelfFence(w) \/ Execute(w)
        BY <1>0, <2>1 DEF SelfFence, Execute, Ready
    <2>2. CASE StartFlush(w) \/ StartCheckpoint(w)
        BY <1>0, <2>2 DEF StartFlush, StartCheckpoint, StartUpload, Step, TypeOK, Threads
    <2>3. CASE UploadedTooLate(w) \/ UploadFails(w)
        <3>1. \E told : FailJob(w, told)
            BY <2>3 DEF UploadedTooLate, UploadFails
        <3> QED
            BY <1>0, <3>1, FailJobEffect
    <2> QED
        BY <1>3, <2>1, <2>2, <2>3 DEF Operate
<1>4. CASE CloseStarts(w)
    BY <1>0, <1>4 DEF CloseStarts, Committing, Sending, Holds
<1>5. CASE Close(w) /\ ~CloseStarts(w)
    <2>1. CASE CloseFenced(w) \/ CloseLapsed(w)
        BY <1>0, <2>1 DEF CloseFenced, CloseLapsed, Drained
    <2>2. CASE CloseFlushes(w)
        <3>1. at'[w]["op"] = "upload"
            BY <1>0, <2>2, StepEffect DEF CloseFlushes, StartUpload, Threads
        <3> QED
            BY <1>0, <3>1
    <2>3. CASE CloseReleases(w)
        <3>1. job'[w] = "release"
            BY <1>0, <2>3 DEF CloseReleases, Run, TypeOK
        <3> QED
            BY <1>0, <3>1
    <2>4. CASE CloseReader(w)
        BY <1>0, <2>4 DEF CloseReader, JobOK, Writing
    <2> QED
        BY <1>5, <2>1, <2>2, <2>3, <2>4 DEF Close
<1>6. CASE HeartbeatFires(w)
    <2>1. at'[w]["op"] = at[w]["op"] /\ UNCHANGED <<jobVars, dataVars, storeVars, doubt, cache>>
          /\ Queue(w, "hb")
        BY <1>0, <1>6 DEF HeartbeatFires, Step, TypeOK, Threads, leaseVars
    <2>2. Holds(w, "op") => Holds(w, "op")'
        BY <1>0, <2>1, QueuedBehind DEF Holds, Threads
    <2> QED
        BY <1>0, <2>1, <2>2 DEF Committing, Sending
<1>7. CASE Crash(w)
    BY <1>0, <1>7 DEF Crash, TypeOK
<1>8. ASSUME NEW t \in Threads, Commit(w, t)
      PROVE  /\ Committing(w) /\ job'[w] = job[w] /\ key'[w] = key[w] /\ result'[w] = result[w]
             /\ w \in unproven' <=> w \in unproven
             /\ UNCHANGED <<published, content, local, buffer>>
             /\ Sending(w) =>
                  /\ Sending(w)' /\ (doubt[w] => doubt'[w])
                  /\ \/ cache'[w] = cache[w]
                     \/ cache'[w] = head /\ StillOurs(w, head) /\ ~Intended(w, "op", head)
                        /\ UNCHANGED <<head, late>>
    <2>0. UNCHANGED <<published, content>>
        BY <1>8, WriteEffect DEF Commit, CommitReplaced, CommitUnsettled, CommitErrors,
            RereadSettles, RereadFenced, RereadRetries, RereadGivesUp, RereadErrors
    <2>1. CASE t = "hb"
        <3>1. ~Sending(w) /\ job'[w] = job[w] /\ at'[w]["op"] = at[w]["op"]
            BY <1>8, <2>1, LockHolder, CommitMoves DEF Sending, Threads
        <3>2. UNCHANGED <<key, result, unproven, local, buffer>>
            <4>1. CASE CommitReplaced(w, t) \/ RereadSettles(w, t)
                BY <2>1, <4>1 DEF CommitReplaced, RereadSettles, Settle, Intent, RenewDone
            <4>2. CASE CommitUnsettled(w, t) \/ RereadRetries(w, t)
                BY <4>2 DEF CommitUnsettled, RereadRetries
            <4>3. CASE \/ CommitErrors(w, t) \/ RereadFenced(w, t)
                       \/ RereadGivesUp(w, t) \/ RereadErrors(w, t)
                BY <2>1, <4>3 DEF CommitErrors, RereadFenced, RereadGivesUp, RereadErrors, GiveUp
            <4> QED
                BY <1>8, <4>1, <4>2, <4>3 DEF Commit
        <3> QED
            BY <1>0, <2>0, <3>1, <3>2 DEF Committing
    <2>2. CASE t = "op"
        <3>1. ~(\E h : Settle(w, t, h)) /\ ~(\E told, open : GiveUp(w, t, told, open))
            BY <1>0, <2>2 DEF Settle, GiveUp, Intent, LeaveLock, Step, TypeOK, Threads
        <3>2. CommitUnsettled(w, t) \/ RereadRetries(w, t)
            BY <1>8, <3>1 DEF Commit, CommitReplaced, CommitErrors, RereadSettles, RereadFenced,
                RereadGivesUp, RereadErrors
        <3>3. /\ UNCHANGED <<jobVars, dataVars, lockq>> /\ (doubt[w] => doubt'[w])
              /\ at[w]["op"] \in {"commit", "reread"}
            BY <1>0, <2>2, <3>2 DEF CommitUnsettled, RereadRetries, TypeOK, Attempting, Rereading
        <3>4. CASE CommitUnsettled(w, t)
            BY <1>0, <2>0, <3>3, <3>4 DEF Committing, Sending, Holds, CommitUnsettled, leaseVars
        <3>5. CASE RereadRetries(w, t)
            <4>1. cache'[w] = head /\ StillOurs(w, head) /\ ~Intended(w, "op", head)
                  /\ UNCHANGED <<head, late>>
                BY <1>0, <2>2, <3>5 DEF RereadRetries, See, Proven, TypeOK
            <4> QED
                BY <1>0, <2>0, <3>3, <4>1 DEF Committing, Sending, Holds
        <3> QED
            BY <3>2, <3>4, <3>5
    <2> QED
        BY <2>1, <2>2 DEF Threads
<1> QED
    BY <1>1, <1>2, <1>3, <1>4, <1>5, <1>6, <1>7, <1>8 DEF Moves

\* A write that changes the manifest is the attempt of an operation that publishes.
LEMMA OpPublishes ==
    ASSUME IInv, NEW w \in Instances, NEW e, NEW n, Sends(w, e, n), ~SameManifest(e, n)
    PROVE  /\ Publishes(w, e, n) /\ Attempting(w, "op") /\ e = cache[w] /\ n = Build(w, "op")
           /\ key[w] \in Key /\ key[w].inst = w
<1>1. Publishes(w, e, n)
    BY SendsKinds DEF Takes, Gives, Extends
<1>2. phase[w] \notin {"creating", "acquiring", "unwindRelease"}
    BY <1>1 DEF Publishes, IInv, JobOK, Writing
<1>3. PICK t \in Threads : Attempting(w, t) /\ e = cache[w] /\ n = Build(w, t)
    BY <1>2 DEF Sends
<1>4. t # "hb"
    BY <1>3, BuildKinds DEF Extends
<1> QED
    BY <1>1, <1>3, <1>4 DEF Threads, IInv, KeyOK, CommitKeyOK, Publishes

\* What a handle comes to have seen was the head, or is.
LEMMA CachesSee ==
    ASSUME IInv, [Next]_vars, NEW v \in Instances
    PROVE  cache'[v] = cache[v] \/ cache'[v] = head \/ cache'[v] = head'
<1>1. CASE \E w \in Instances : Moves(w)
    <2>1. PICK w \in Instances : Moves(w)
        BY <1>1
    <2>2. CASE v = w
        BY <2>1, <2>2, SeesHeads
    <2>3. CASE v # w
        BY <2>1, <2>3, OthersKept DEF Same
    <2> QED
        BY <2>2, <2>3
<1>2. CASE ~\E w \in Instances : Moves(w)
    BY <1>2, WhoMoves DEF StoreDelivers, leaseVars
<1> QED
    BY <1>1, <1>2

\* No head a handle has seen, or a request under way might make of it, names k.
Unnamed(k) ==
    /\ ~Names(head, k)
    /\ \A v \in Instances : ~Names(cache[v], k)
    /\ \A r \in late : ~Names(r.next, k)

\* Only the operation that minted a key makes it named.
LEMMA UnnamedStays ==
    ASSUME IInv, HoldersOK, [Next]_vars, NEW k, Unnamed(k),
           \A u \in Instances : Sending(u) => key[u] # k
    PROVE  Unnamed(k)'
<1>1. ASSUME NEW u \in Instances, NEW e, NEW n, Sends(u, e, n), ~Names(e, k)
      PROVE  ~Names(n, k)
    <2>1. CASE SameManifest(e, n)
        BY <1>1, <2>1 DEF SameManifest, Names
    <2>2. CASE ~SameManifest(e, n)
        <3>1. Sending(u)
            BY <1>1, <2>2, OpPublishes DEF Publishes, Attempting, Sending, Committing
        <3> QED
            BY <1>1, <3>1, NamesSent
    <2> QED
        BY <2>1, <2>2
<1>2. ~Names(head', k)
    BY <1>1, HeadComes DEF Unnamed
<1>3. \A v \in Instances : ~Names(cache'[v], k)
    BY <1>2, CachesSee DEF Unnamed
<1>4. \A r \in late' : ~Names(r.next, k)
    BY <1>1, LateComes DEF Unnamed
<1> QED
    BY <1>2, <1>3, <1>4 DEF Unnamed, Names

------------------------------------------------------------------------------
(* Commits under way: the key of one is named by its own write only. *)

\* A flush never makes its key a base, nor a checkpoint its key a segment.
Crosswise(w, h) ==
    IF job[w] = "flush" THEN h.base # key[w]
                        ELSE \A i \in DOMAIN h.wal : h.wal[i].key # key[w]

\* A commit under way: until the head names its key nobody has seen a head that does,
\* and only a write in doubt can still make it so; once the head names it, only w has
\* that to learn.
NamedOK(w) ==
    Committing(w) =>
        /\ Crosswise(w, head)
        /\ \A v \in Instances : Crosswise(w, cache[v])
        /\ \A r \in late : Crosswise(w, r.next)
        /\ head.inst = w =>
             /\ ~Names(cache[w], key[w])
             /\ \A r \in late : OwnWrite(w, r) => SameManifest(r.expect, r.next)
                                                    \/ ~Names(r.expect, key[w])
             /\ Names(head, key[w]) => Holds(w, "op")
             /\ ~Names(head, key[w]) =>
                  /\ \A v \in Instances : ~Names(cache[v], key[w])
                  /\ \A r \in late : Names(r.next, key[w]) => doubt[w] /\ Holds(w, "op")

\* The key of a commit under way is the handle's own, and is published; the handle has
\* escaped open().
LEMMA CommittingKey ==
    ASSUME IInv, HoldersOK, NEW w \in Instances, Committing(w)
    PROVE  /\ key[w] \in Key /\ key[w].inst = w /\ key[w] \in published
           /\ phase[w] \in Writing /\ phase[w] \in Past
BY PastNames DEF IInv, KeyOK, CommitKeyOK, Committing, HoldersOK, HolderOK

\* What is sent over a head that names the key of an operation only in its own place
\* does the same.
LEMMA CrosswiseSent ==
    ASSUME IInv, HoldersOK, NEW w \in Instances, Committing(w), NEW u \in Instances,
           NEW e, NEW n, Sends(u, e, n), Crosswise(w, e)
    PROVE  Crosswise(w, n)
<1>0. key[w] \in Key /\ key[w].inst = w /\ NoBase \notin Key
    BY CommittingKey, NoBaseAssumption
<1>1. CASE SameManifest(e, n)
    BY <1>1 DEF SameManifest, Crosswise
<1>2. CASE ~SameManifest(e, n)
    <2>1. Publishes(u, e, n) /\ key[u].inst = u
        BY <1>2, OpPublishes
    <2>2. CASE job[w] = "flush"
        BY <1>0, <2>1, <2>2 DEF Publishes, Crosswise
    <2>3. CASE job[w] # "flush" /\ job[u] = "checkpoint"
        BY <2>1, <2>3 DEF Publishes, Crosswise
    <2>4. CASE job[w] # "flush" /\ job[u] = "flush"
        <3>1. u # w
            BY <2>4 DEF Committing
        <3> SUFFICES ASSUME NEW i \in DOMAIN n.wal, n.wal[i].key = key[w]
                     PROVE  FALSE
            BY <2>4 DEF Crosswise
        <3>2. \E j \in DOMAIN e.wal : e.wal[j].key = key[w]
            BY <1>0, <2>1, <3>1, LinesSent
        <3> QED
            BY <2>4, <3>2 DEF Crosswise
    <2> QED
        BY <2>1, <2>2, <2>3, <2>4 DEF Publishes
<1> QED
    BY <1>1, <1>2

\* No step makes a head name the key of a commit under way in the other place.
LEMMA CrosswiseStays ==
    ASSUME IInv, HoldersOK, [Next]_vars, NEW w \in Instances, Committing(w), NamedOK(w),
           job'[w] = job[w], key'[w] = key[w]
    PROVE  /\ Crosswise(w, head')
           /\ \A v \in Instances : Crosswise(w, cache'[v])
           /\ \A r \in late' : Crosswise(w, r.next)
           /\ \A h : Crosswise(w, h)' <=> Crosswise(w, h')
<1>1. Crosswise(w, head')
    BY HeadComes, CrosswiseSent DEF NamedOK
<1>2. \A v \in Instances : Crosswise(w, cache'[v])
    BY <1>1, CachesSee DEF NamedOK
<1>3. \A r \in late' : Crosswise(w, r.next)
    BY LateComes, CrosswiseSent DEF NamedOK
<1> QED
    BY <1>1, <1>2, <1>3 DEF Crosswise

\* The new head of w, or a request of w, that comes to name the key of its operation
\* is what that operation sends.
LEMMA OwnHeads ==
    ASSUME LogInv, [Next]_vars, NEW w \in Instances, Committing(w), NamedOK(w), head'.inst = w
    PROVE  /\ head.inst = w
           /\ Names(head, key[w]) => Names(head', key[w])
           /\ Names(head', key[w]) => Sending(w)
<1>0. IInv /\ HoldersOK /\ GInv
    BY DEF LogInv, GInv
<1>1. head.inst = w
    BY <1>0, ComesToHold, CommittingKey
<1>2. CASE head' = head
    BY <1>1, <1>2 DEF NamedOK, Sending
<1>3. ASSUME NEW r \in late, r.expect = head, r.next = head'
      PROVE  /\ Names(head, key[w]) => Names(head', key[w])
             /\ Names(head', key[w]) => Sending(w)
    <2>1. OwnWrite(w, r)
        BY <1>1, <1>3 DEF OwnWrite
    <2>2. Names(head, key[w]) => Names(head', key[w])
        BY <1>1, <1>3, <2>1 DEF NamedOK, SameManifest, Names
    <2> QED
        BY <1>1, <1>3, <2>2 DEF NamedOK, Sending
<1>4. ASSUME NEW u \in Instances, head = cache[u], Sends(u, head, head')
      PROVE  /\ Names(head, key[w]) => Names(head', key[w])
             /\ Names(head', key[w]) => Sending(w)
    <2>1. u = w
        BY <1>0, <1>4, SentInst, NobodyAssumption
    <2>2. ~Names(head, key[w])
        BY <1>1, <1>4, <2>1 DEF NamedOK
    <2>3. ASSUME Names(head', key[w]) PROVE Sending(w)
        <3>1. ~SameManifest(head, head')
            BY <2>2, <2>3 DEF SameManifest, Names
        <3> QED
            BY <1>0, <1>4, <2>1, <3>1, OpPublishes DEF Publishes, Attempting, Sending, Committing
    <2> QED
        BY <2>2, <2>3
<1> QED
    BY <1>0, <1>1, <1>2, <1>3, <1>4, HeadComes

\* While w holds the lease, what it saw does not name the key of the commit under way.
LEMMA OwnCache ==
    ASSUME LogInv, [Next]_vars, NEW w \in Instances, Committing(w), NamedOK(w), head'.inst = w,
           Sending(w) => \/ cache'[w] = cache[w]
                         \/ cache'[w] = head /\ StillOurs(w, head) /\ ~Intended(w, "op", head)
    PROVE  ~Names(cache'[w], key[w])
<1>0. IInv /\ HoldersOK /\ head.inst = w
    BY OwnHeads DEF LogInv, GInv
<1>1. CASE Sending(w) /\ cache'[w] = head /\ ~Intended(w, "op", head)
    <2>1. ~Names(head, key[w])
        BY <1>1 DEF NamedOK, Sending, Committing, Crosswise, Intended, Intent, Names
    <2> QED
        BY <1>1, <2>1
<1>2. CASE ~Sending(w)
    <2>1. ~Names(head, key[w]) /\ ~Names(head', key[w])
        BY <1>0, <1>2, OwnHeads DEF NamedOK, Sending
    <2> QED
        BY <1>0, <2>1, CachesSee DEF NamedOK
<1> QED
    BY <1>0, <1>1, <1>2 DEF NamedOK

\* A commit under way stays one that only its own writes can make named.
LEMMA NamedStays ==
    ASSUME LogInv, [Next]_vars, NEW w \in Instances, Committing(w), NamedOK(w),
           job'[w] = job[w], key'[w] = key[w],
           Sending(w) =>
               /\ Sending(w)' /\ (doubt[w] => doubt'[w])
               /\ \/ cache'[w] = cache[w]
                  \/ cache'[w] = head /\ StillOurs(w, head) /\ ~Intended(w, "op", head)
    PROVE  NamedOK(w)'
<1>0. IInv /\ HoldersOK
    BY DEF LogInv, GInv
<1>1. /\ Crosswise(w, head)' /\ \A v \in Instances : Crosswise(w, cache[v])'
      /\ \A r \in late' : Crosswise(w, r.next)'
    BY <1>0, CrosswiseStays
<1>2. SUFFICES ASSUME head'.inst = w
               PROVE  /\ ~Names(cache'[w], key[w])
                      /\ \A r \in late' : OwnWrite(w, r) => SameManifest(r.expect, r.next)
                                                    \/ ~Names(r.expect, key[w])
                      /\ Names(head', key[w]) => Holds(w, "op")'
                      /\ ~Names(head', key[w]) =>
                           /\ \A v \in Instances : ~Names(cache'[v], key[w])
                           /\ \A r \in late' : Names(r.next, key[w]) => doubt'[w] /\ Holds(w, "op")'
    BY <1>1 DEF NamedOK, Names, OwnWrite, SameManifest
<1>3. head.inst = w
    BY <1>2, OwnHeads
<1>4. ~Names(cache'[w], key[w])
    BY <1>2, OwnCache
<1>5. ASSUME NEW r \in late', OwnWrite(w, r)
      PROVE  SameManifest(r.expect, r.next) \/ ~Names(r.expect, key[w])
    <2>1. CASE r \in late
        BY <1>3, <1>5, <2>1 DEF NamedOK
    <2>2. CASE r \notin late
        <3>1. PICK u \in Instances : r.expect = cache[u] /\ Sends(u, r.expect, r.next)
            BY <1>0, <2>2, LateComes
        <3>2. u = w
            BY <1>0, <1>5, <3>1, SentInst, NobodyAssumption DEF OwnWrite
        <3> QED
            BY <1>3, <3>1, <3>2 DEF NamedOK
    <2> QED
        BY <2>1, <2>2
<1>6. Names(head', key[w]) => Holds(w, "op")'
    BY <1>2, OwnHeads DEF Sending
<1>7. ASSUME ~Names(head', key[w])
      PROVE  /\ \A v \in Instances : ~Names(cache'[v], key[w])
             /\ \A r \in late' : Names(r.next, key[w]) => doubt'[w] /\ Holds(w, "op")'
    <2>1. ~Names(head, key[w])
        BY <1>2, <1>7, OwnHeads
    <2>2. \A v \in Instances : ~Names(cache'[v], key[w])
        BY <1>0, <1>3, <1>7, <2>1, CachesSee DEF NamedOK
    <2>3. ASSUME NEW r \in late', Names(r.next, key[w])
          PROVE  doubt'[w] /\ Holds(w, "op")'
        <3>1. CASE r \in late
            BY <1>3, <2>1, <2>3, <3>1 DEF NamedOK, Sending
        <3>2. CASE r \notin late
            <4>1. PICK u \in Instances :
                    /\ r.expect = cache[u] /\ Sends(u, r.expect, r.next)
                    /\ \/ SameManifest(r.expect, r.next)
                       \/ CommitUnsettled(u, "op") /\ doubt'[u]
                BY <1>0, <3>2, LateComes
            <4>2. ~Names(r.expect, key[w])
                BY <1>3, <2>1, <4>1 DEF NamedOK
            <4>3. ~SameManifest(r.expect, r.next)
                BY <2>3, <4>2 DEF SameManifest, Names
            <4>4. Sending(u) /\ key[u] = key[w] /\ key[u].inst = u
                BY <1>0, <2>3, <4>1, <4>2, <4>3, NamesSent, OpPublishes
                    DEF Publishes, Attempting, Sending, Committing
            <4>5. u = w
                BY <1>0, <4>4, CommittingKey
            <4> QED
                BY <4>1, <4>3, <4>4, <4>5 DEF Sending
        <3> QED
            BY <3>1, <3>2
    <2> QED
        BY <2>2, <2>3
<1> QED
    BY <1>4, <1>5, <1>6, <1>7

\* Nobody has yet named the key of an upload that just landed.
LEMMA NamedUploaded ==
    ASSUME LogInv, [Next]_vars, NEW w \in Instances, Uploaded(w),
           UNCHANGED <<head, late, leaseVars, jobVars, dataVars>>
    PROVE  NamedOK(w)'
<1>0. /\ IInv /\ NothingNamedIsMissing /\ UploadKeyOK(w)
      /\ key'[w] = key[w] /\ job'[w] = job[w] /\ cache' = cache
    BY DEF LogInv, GInv, IInv, KeyOK, jobVars, leaseVars
<1>1. key[w] \in Key /\ key[w] \notin published
    BY <1>0 DEF Uploaded, Uploading, UploadKeyOK
<1>2. Unnamed(key[w]) /\ \A r \in late : ~Names(r.expect, key[w])
    BY <1>0, <1>1, NamedIsPublished DEF Unnamed, NothingNamedIsMissing, LogInv, HeadsOK, Grows
<1> QED
    BY <1>0, <1>2 DEF NamedOK, Unnamed, Names, Crosswise, OwnWrite, SameManifest

\* Every step keeps what is known of a commit under way.
LEMMA NamedKeysStep ==
    ASSUME LogInv, [Next]_vars, NEW w \in Instances, NamedOK(w)
    PROVE  NamedOK(w)'
<1>0. IInv
    BY DEF LogInv, GInv
<1>1. SUFFICES ASSUME Committing(w)'
               PROVE  NamedOK(w)'
    BY DEF NamedOK
<1>2. CASE Moves(w)
    <2>1. CASE Uploaded(w) /\ UNCHANGED <<head, late, leaseVars, jobVars, dataVars>>
        BY <2>1, NamedUploaded
    <2>2. CASE ~(Uploaded(w) /\ UNCHANGED <<head, late, leaseVars, jobVars, dataVars>>)
        BY <1>0, <1>1, <1>2, <2>2, CommittingMoves, NamedStays
    <2> QED
        BY <2>1, <2>2
<1>3. CASE ~Moves(w)
    <2>1. job'[w] = job[w] /\ key'[w] = key[w] /\ at'[w] = at[w] /\ cache'[w] = cache[w]
          /\ lockq'[w] = lockq[w] /\ doubt'[w] = doubt[w]
        BY <1>0, <1>3, WhoMoves, OthersKept, OthersToo
            DEF Same, SameToo, StoreDelivers, leaseVars, jobVars, commitVars
    <2>2. Committing(w) /\ (Sending(w) => Sending(w)')
        BY <1>1, <2>1 DEF Committing, Sending, Holds
    <2> QED
        BY <2>1, <2>2, NamedStays
<1> QED
    BY <1>2, <1>3

------------------------------------------------------------------------------
(* What a caller is told of a commit that gives up. *)

\* What a handle tells, and the key it tells it of: a running upload has told nothing
\* yet, only a flush or a checkpoint has a key, and a key reported as not committed is
\* one that nothing names.
TimeoutOK(w) ==
    /\ job[w] \in {"flush", "checkpoint"} => result[w] = "none"
    /\ job[w] \in {"confirm", "release"} => key[w] = NoBase
    /\ phase[w] \notin Writing \union Ended => key[w] = NoBase
    /\ result[w] = "timeout" /\ key[w] # NoBase =>
         key[w] \in Key /\ key[w].inst = w /\ Unnamed(key[w])

\* How the last word of a handle and its key change.
ResultMoves(w) ==
    \/ /\ key'[w] = key[w] /\ result'[w] = result[w]
       /\ job'[w] \in {job[w], "none"}
       /\ phase[w] \notin Writing \union Ended \/ phase'[w] \in Writing \union Ended
    \/ /\ key'[w] = key[w] /\ result'[w] = result[w]
       /\ job'[w] = "confirm" /\ phase[w] = "restoring"
    \/ /\ result'[w] = "none" /\ job'[w] \in {"flush", "checkpoint"}
       /\ phase'[w] \in Writing
    \/ /\ key'[w] = NoBase /\ job'[w] = "release"
       /\ result'[w] = result[w] /\ phase'[w] \in Writing
    \/ /\ key'[w] = key[w] /\ job'[w] = "none"
       /\ phase[w] \notin Writing \union Ended \/ phase'[w] \in Writing \union Ended
       /\ \/ result'[w] # "timeout"
          \/ RereadGivesUp(w, "op") /\ ~doubt[w]

\* Every step of a handle is one of these.
LEMMA TellMoves ==
    ASSUME IInv, NEW w \in Instances, Moves(w)
    PROVE  ResultMoves(w)
<1> USE DEF jobVars, commitVars, leaseVars
<1>0. TypeOK /\ JobOK /\ jobVars = jobVars
    BY DEF IInv
<1>1. CASE Open(w)
    <2>1. CASE Restore(w)
        BY <1>0, <2>1 DEF Restore, Run, TypeOK, ResultMoves
    <2>2. CASE ~Restore(w)
        BY <1>0, <1>1, <2>2 DEF ResultMoves, Open, OpenFindsObject, OpenFindsNothing,
            OpenReadOnly, OpenCannotReadHead, Create, CreatedReadsBack, CreateReread,
            AcquireRefused, Acquire, AcquireReread, RestoreSnapshot, RestoreFails,
            UnwindReadsHead, UnwindReleases, Writing, Ended
    <2> QED
        BY <2>1, <2>2
<1>2. CASE Operate(w)
    <2>1. CASE SelfFence(w) \/ Execute(w) \/ Uploaded(w)
        BY <1>0, <2>1 DEF SelfFence, Execute, Uploaded, ResultMoves
    <2>2. CASE StartFlush(w) \/ StartCheckpoint(w)
        BY <1>0, <2>2 DEF StartFlush, StartCheckpoint, StartUpload, Run, Ready, TypeOK,
            ResultMoves, Writing
    <2>3. CASE UploadedTooLate(w) \/ UploadFails(w)
        BY <1>0, <2>3 DEF UploadedTooLate, UploadFails, Uploading, FailJob, EndJob, Run, Go, TypeOK,
            ResultMoves, Writing, Ended
    <2> QED
        BY <1>2, <2>1, <2>2, <2>3 DEF Operate
<1>3. CASE Close(w) \/ HeartbeatFires(w) \/ Crash(w)
    <2>1. CASE CloseFlushes(w)
        BY <1>0, <2>1 DEF CloseFlushes, StartUpload, Run, Go, TypeOK, ResultMoves, Writing
    <2>2. CASE CloseReleases(w)
        BY <1>0, <2>2 DEF CloseReleases, Run, Go, TypeOK, ResultMoves, Writing
    <2>3. CASE \/ CloseStarts(w) \/ CloseFenced(w) \/ CloseLapsed(w) \/ CloseReader(w)
               \/ HeartbeatFires(w) \/ Crash(w)
        BY <1>0, <2>3 DEF CloseStarts, CloseFenced, CloseLapsed, CloseReader, HeartbeatFires,
            Crash, Go, TypeOK, ResultMoves, Writing, Ended
    <2> QED
        BY <1>3, <2>1, <2>2, <2>3 DEF Close
<1>4. ASSUME NEW t \in Threads, Commit(w, t)
      PROVE  ResultMoves(w)
    <2>1. CASE t = "hb"
        <3>1. job'[w] = job[w] /\ phase'[w] = phase[w]
            BY <1>4, <2>1, CommitMoves
        <3>2. key'[w] = key[w] /\ result'[w] = result[w]
            BY <1>4, <2>1 DEF Commit, CommitReplaced, CommitUnsettled, CommitErrors, RereadSettles,
                RereadFenced, RereadRetries, RereadGivesUp, RereadErrors, Settle, GiveUp, Intent,
                RenewDone
        <3> QED
            BY <3>1, <3>2 DEF ResultMoves
    <2>2. CASE t = "op" /\ (CommitUnsettled(w, t) \/ RereadRetries(w, t))
        BY <2>2 DEF CommitUnsettled, RereadRetries, ResultMoves
    <2>3. ASSUME t = "op", NEW h, Settle(w, t, h)
          PROVE  ResultMoves(w)
        <3>1. key'[w] = key[w] /\ result'[w] = "ok" /\ job'[w] = "none"
            BY <1>0, <2>3 DEF Settle, FlushDone, CheckpointDone, ReleaseDone, RenewDone, EndJob,
                Run, TypeOK
        <3>2. phase[w] \notin Writing \union Ended \/ phase'[w] \in Writing \union Ended
            BY <1>0, <1>4, <2>3, SettledPhase, CommitMoves DEF Writing, Ended
        <3> QED
            BY <3>1, <3>2 DEF ResultMoves
    <2>4. ASSUME t = "op", NEW told, NEW open, GiveUp(w, t, told, open),
                 told # "timeout" \/ (RereadGivesUp(w, "op") /\ ~doubt[w])
          PROVE  ResultMoves(w)
        <3>1. key'[w] = key[w] /\ result'[w] = told /\ job'[w] = "none"
            BY <1>0, <2>4 DEF GiveUp, FailJob, EndJob, Run, TypeOK
        <3>2. phase[w] \notin Writing \union Ended \/ phase'[w] \in Writing \union Ended
            BY <1>0, <2>4 DEF GiveUp, FailJob, Go, TypeOK, Writing, Ended
        <3> QED
            BY <2>4, <3>1, <3>2 DEF ResultMoves
    <2>5. CASE t = "op" /\ (CommitReplaced(w, t) \/ RereadSettles(w, t))
        BY <2>3, <2>5 DEF CommitReplaced, RereadSettles
    <2>6. CASE t = "op" /\ (CommitErrors(w, t) \/ RereadFenced(w, t) \/ RereadErrors(w, t))
        BY <2>4, <2>6 DEF CommitErrors, RereadFenced, RereadErrors
    <2>7. CASE t = "op" /\ RereadGivesUp(w, t)
        <3>1. CASE doubt[w]
            <4>1. GiveUp(w, t, "ambiguous", doubt[w])
                BY <2>7, <3>1 DEF RereadGivesUp
            <4> QED
                BY <2>4, <2>7, <4>1
        <3>2. CASE ~doubt[w]
            <4>1. GiveUp(w, t, "timeout", doubt[w])
                BY <2>7, <3>2 DEF RereadGivesUp
            <4> QED
                BY <2>4, <2>7, <3>2, <4>1
        <3> QED
            BY <3>1, <3>2
    <2> QED
        BY <1>4, <2>1, <2>2, <2>5, <2>6, <2>7 DEF Commit, Threads
<1> QED
    BY <1>1, <1>2, <1>3, <1>4 DEF Moves

\* A commit that gives up with nothing in doubt has a key that nothing names.
LEMMA GivesUpUnnamed ==
    ASSUME LogInv, NEW w \in Instances, NamedOK(w), TimeoutOK(w), RereadGivesUp(w, "op"),
           ~doubt[w], key[w] # NoBase
    PROVE  key[w] \in Key /\ key[w].inst = w /\ Unnamed(key[w])'
<1>0. IInv /\ HoldersOK /\ job[w] # "none"
    BY DEF LogInv, GInv, IInv, JobOK, RereadGivesUp, Rereading
<1>1. Committing(w)
    BY <1>0 DEF IInv, TypeOK, Jobs, TimeoutOK, RereadGivesUp, Rereading, Committing
<1>2. ~Names(head, key[w]) /\ head.inst = w
    BY <1>1 DEF NamedOK, RereadGivesUp, StillOurs, Proven, Intended, Intent, Committing, Crosswise,
        Names
<1>3. Unnamed(key[w])
    BY <1>1, <1>2 DEF NamedOK, Unnamed
<1>4. UNCHANGED <<head, late, key>> /\ \A v \in Instances : cache'[v] \in {cache[v], head}
    BY <1>0 DEF RereadGivesUp, GiveUp, storeVars, See, IInv, TypeOK
<1> QED
    BY <1>0, <1>1, <1>3, <1>4, CommittingKey DEF Unnamed, Names

\* What was reported as not committed stays in no head, and nothing under way names it.
LEMMA TimeoutStep ==
    ASSUME LogInv, [Next]_vars, NEW w \in Instances, NamedOK(w), TimeoutOK(w)
    PROVE  TimeoutOK(w)'
<1>0. IInv /\ HoldersOK /\ GInv /\ TypeOK
    BY DEF LogInv, GInv, IInv
<1>1. ASSUME result[w] = "timeout", key[w] # NoBase, key'[w] = key[w]
      PROVE  key[w] \in Key /\ key[w].inst = w /\ Unnamed(key[w])'
    <2>1. key[w] \in Key /\ key[w].inst = w /\ Unnamed(key[w])
        BY <1>1 DEF TimeoutOK
    <2>2. \A u \in Instances : Sending(u) => key[u] # key[w]
        <3> SUFFICES ASSUME NEW u \in Instances, Sending(u), key[u] = key[w]
                     PROVE  FALSE
            OBVIOUS
        <3>1. u = w
            BY <1>0, <2>1, CommittingKey DEF Sending
        <3> QED
            BY <1>1, <3>1 DEF Sending, Committing, TimeoutOK
    <2>3. Unnamed(key[w])'
        <3>1. PICK k : k = key[w]
            OBVIOUS
        <3>2. Unnamed(k)'
            BY <1>0, <2>1, <2>2, <3>1, UnnamedStays
        <3> QED
            BY <1>1, <3>1, <3>2 DEF Unnamed, Names
    <2> QED
        BY <2>1, <2>3
<1>2. CASE Moves(w)
    <2>1. ResultMoves(w)
        BY <1>0, <1>2, TellMoves
    <2>2. CASE /\ key'[w] = key[w] /\ result'[w] = result[w]
               /\ job'[w] \in {job[w], "none"}
               /\ phase[w] \notin Writing \union Ended \/ phase'[w] \in Writing \union Ended
        BY <1>1, <2>2 DEF TimeoutOK
    <2>3. CASE /\ key'[w] = key[w] /\ result'[w] = result[w]
               /\ job'[w] = "confirm" /\ phase[w] = "restoring"
        <3>1. key[w] = NoBase
            BY <2>3 DEF TimeoutOK, Writing, Ended
        <3> QED
            BY <2>3, <3>1 DEF TimeoutOK
    <2>4. CASE /\ result'[w] = "none" /\ job'[w] \in {"flush", "checkpoint"}
               /\ phase'[w] \in Writing
        BY <2>4 DEF TimeoutOK
    <2>5. CASE /\ key'[w] = NoBase /\ job'[w] = "release"
               /\ result'[w] = result[w] /\ phase'[w] \in Writing
        BY <2>5 DEF TimeoutOK
    <2>6. CASE /\ key'[w] = key[w] /\ job'[w] = "none"
               /\ phase[w] \notin Writing \union Ended \/ phase'[w] \in Writing \union Ended
               /\ \/ result'[w] # "timeout"
                  \/ RereadGivesUp(w, "op") /\ ~doubt[w]
        BY <2>6, GivesUpUnnamed DEF TimeoutOK
    <2> QED
        BY <2>1, <2>2, <2>3, <2>4, <2>5, <2>6 DEF ResultMoves
<1>3. CASE ~Moves(w)
    <2>1. job'[w] = job[w] /\ key'[w] = key[w] /\ phase'[w] = phase[w] /\ result'[w] = result[w]
        BY <1>0, <1>3, WhoMoves, OthersKept, OthersToo
            DEF Same, SameToo, StoreDelivers, leaseVars, jobVars
    <2> QED
        BY <1>1, <2>1 DEF TimeoutOK
<1> QED
    BY <1>2, <1>3

------------------------------------------------------------------------------
(* What a manifest replays, statement by statement. *)

\* Appending the segment of a key to the WAL appends what it holds to the replay.
LEMMA ReplayFlush ==
    ASSUME TypeOK, NEW h \in HeadRecord, RefsPresent(h), NEW k \in Key,
           NEW n, n.base = h.base, n.wal = h.wal \o Lines(k)
    PROVE  Replay(n) = Replay(h) \o content[k]
<1> DEFINE old == h.wal
           new == Lines(k)
           text == content[k]
           before == [i \in 1 .. Len(h.wal) |-> content[h.wal[i].key][h.wal[i].line]]
           after  == [i \in 1 .. Len(n.wal) |-> content[n.wal[i].key][n.wal[i].line]]
<1>1. /\ old \in Seq(Line) /\ new \in Seq(Line) /\ text \in Seq(Statement)
      /\ Len(new) = Len(text)
    BY TypeOfLines DEF HeadRecord, TypeOK
<1>2. BaseContent(h) \in Seq(Statement) /\ BaseContent(n) = BaseContent(h)
    BY DEF BaseContent, RefsPresent, TypeOK
<1>3. before \in Seq(Statement) /\ Len(before) = Len(old)
    <2>1. ASSUME NEW i \in 1 .. Len(h.wal)
          PROVE  content[h.wal[i].key][h.wal[i].line] \in Statement
        <3>1. h.wal[i].key \in Key /\ h.wal[i].line \in DOMAIN content[h.wal[i].key]
            BY <1>1 DEF RefsPresent, TypeOK
        <3>2. content[h.wal[i].key] \in Seq(Statement)
            BY <3>1 DEF TypeOK
        <3> QED
            BY <3>1, <3>2
    <2>2. Len(h.wal) \in Nat
        BY <1>1
    <2> QED
        BY <2>1, <2>2
<1>4. \A i \in 1 .. Len(text) : new[i].key = k /\ new[i].line = i
    BY DEF Lines
<1>a. n.wal = old \o new
    OBVIOUS
<1>b. Replay(h) = BaseContent(h) \o before /\ Replay(n) = BaseContent(n) \o after
    BY DEF Replay
<1> HIDE DEF new, text
<1>5. /\ Len(n.wal) = Len(old) + Len(new)
      /\ Len(old) \in Nat /\ Len(new) \in Nat
      /\ \A i \in 1 .. Len(old) + Len(new) :
            n.wal[i] = IF i <= Len(old) THEN old[i] ELSE new[i - Len(old)]
    <2> DEFINE both == old \o new
    <2> HIDE DEF old
    <2>1. /\ Len(old) \in Nat /\ Len(new) \in Nat
          /\ Len(both) = Len(old) + Len(new)
          /\ \A i \in 1 .. Len(old) + Len(new) :
                both[i] = IF i <= Len(old) THEN old[i] ELSE new[i - Len(old)]
        <3>1. old \in Seq(Line) /\ new \in Seq(Line)
            BY <1>1
        <3> QED
            BY <3>1
    <2>2. n.wal = both
        BY <1>a
    <2> HIDE DEF both
    <2> QED
        BY <2>1, <2>2
<1>6. after = before \o text
    <2> DEFINE whole == before \o text
    <2>1. /\ whole \in Seq(Statement) /\ Len(whole) = Len(before) + Len(text)
          /\ \A i \in 1 .. Len(before) + Len(text) :
                whole[i] = IF i <= Len(before) THEN before[i] ELSE text[i - Len(before)]
        BY <1>1, <1>3, ConcatProperties
    <2> HIDE DEF whole
    <2>2. DOMAIN whole = 1 .. Len(n.wal)
        BY <1>1, <1>3, <1>5, <2>1
    <2>3. whole = [i \in 1 .. Len(n.wal) |-> whole[i]]
        BY <2>1, <2>2
    <2>4. ASSUME NEW i \in 1 .. Len(n.wal)
          PROVE  content[n.wal[i].key][n.wal[i].line] = whole[i]
        <3>1. CASE i <= Len(old)
            <4>1. n.wal[i] = h.wal[i] /\ i \in 1 .. Len(h.wal)
                BY <1>5, <2>4, <3>1
            <4>2. whole[i] = before[i]
                BY <1>3, <1>5, <1>1, <2>1, <2>4, <3>1
            <4> QED
                BY <4>1, <4>2
        <3>2. CASE i > Len(old)
            <4> DEFINE j == i - Len(old)
            <4>1. n.wal[i] = new[j] /\ j \in 1 .. Len(text)
                BY <1>1, <1>5, <2>4, <3>2
            <4>2. whole[i] = text[j]
                <5>1. i \in 1 .. Len(before) + Len(text) /\ ~(i <= Len(before))
                      /\ i - Len(before) = j
                    BY <1>1, <1>3, <1>5, <2>4, <3>2
                <5> QED
                    BY <2>1, <5>1
            <4>3. new[j].key = k /\ new[j].line = j
                BY <1>4, <4>1
            <4> QED
                BY <4>1, <4>2, <4>3 DEF text
        <3> QED
            BY <1>5, <3>1, <3>2
    <2> QED
        BY <2>3, <2>4 DEF whole
<1> HIDE DEF before, after
<1>7. Replay(h) \o text = BaseContent(h) \o (before \o text)
    BY <1>1, <1>2, <1>3, <1>b, ConcatAssociative
<1> QED
    BY <1>2, <1>6, <1>7, <1>b DEF text

\* A base alone replays what it holds.
LEMMA ReplayBase ==
    ASSUME TypeOK, NEW k \in Key, NEW n, n.base = k, n.wal = <<>>
    PROVE  Replay(n) = content[k]
<1>1. content[k] \in Seq(Statement) /\ k # NoBase
    BY NoBaseAssumption DEF TypeOK
<1>2. [i \in 1 .. Len(n.wal) |-> content[n.wal[i].key][n.wal[i].line]] = <<>>
    BY EmptySeq
<1> QED
    BY <1>1, <1>2, ConcatEmptySeq DEF Replay, BaseContent

\* h is the head that the operation of w means to write: one further than what w
\* last saw, with its key, and restoring the database of w.
Carries(w, h) == h.seq = cache[w].seq + 1 /\ Intended(w, "op", h) /\ Replay(h) = local[w]

\* The database of w is what it last saw and what it has not flushed, and the head
\* is what it last saw or what its operation sends.
Exact(w) ==
    /\ phase[w] # "restoring" => local[w] = Replay(cache[w]) \o buffer[w]
    /\ head.gen = cache[w].gen
    /\ SameManifest(cache[w], head) \/ (Sending(w) /\ Carries(w, head))
    /\ \A r \in late : OwnWrite(w, r) =>
         /\ r.next.gen = r.expect.gen
         /\ \/ SameManifest(r.expect, r.next)
            \/ r.expect.seq < head.seq
            \/ /\ Sending(w) /\ doubt[w] /\ Carries(w, r.next)
               /\ r.expect.seq = cache[w].seq

\* That holds for the handle the lease names, from restoring on, unless it left a commit
\* unproven; and a flush has something to flush.
ExactOK(w) ==
    /\ job[w] = "flush" => buffer[w] # <<>>
    /\ phase[w] \in Serving /\ head.inst = w /\ w \notin unproven => Exact(w)

\* What the operation of a handle sends carries its database.
LEMMA BuildCarries ==
    ASSUME LogInv, NEW w \in Instances, Committing(w), Exact(w), ExactOK(w),
           NEW n, Publishes(w, cache[w], n)
    PROVE  Carries(w, n)
<1> DEFINE e == cache[w]
           k == key[w]
<1>1. /\ TypeOK /\ e \in HeadRecord /\ RefsPresent(e) /\ k \in Key /\ phase[w] # "restoring"
      /\ buffer[w] \in Seq(Statement) /\ e.wal \in Seq(Line) /\ local[w] \in Seq(Statement)
      /\ local[w] = Replay(e) \o buffer[w]
      /\ job[w] = "flush" => content[k] = buffer[w]
      /\ job[w] = "checkpoint" => content[k] = local[w]
    BY CommittingKey DEF LogInv, GInv, IInv, TypeOK, NothingNamedIsMissing, Exact, CountOK, Committing,
        Writing, HeadRecord
<1>2. CASE job[w] = "flush"
    <2>1. Replay(n) = local[w]
        BY <1>1, <1>2, ReplayFlush DEF Publishes
    <2>2. \E i \in DOMAIN n.wal : n.wal[i].key = k
        <3> DEFINE old == e.wal
                   new == Lines(k)
        <3>1. new \in Seq(Line) /\ Len(new) = Len(buffer[w]) /\ new[1].key = k
            <4>1. Lines(k) \in Seq(Line) /\ Len(Lines(k)) = Len(content[k]) /\ content[k] = buffer[w]
                BY <1>1, <1>2, TypeOfLines
            <4>2. Len(buffer[w]) \in Nat /\ Len(buffer[w]) # 0
                BY <1>1, <1>2, EmptySeq DEF ExactOK
            <4>3. 1 \in 1 .. Len(content[k])
                BY <4>1, <4>2
            <4> QED
                BY <4>1, <4>3 DEF Lines
        <3>2. Len(buffer[w]) \in Nat /\ Len(buffer[w]) # 0
            BY <1>1, <1>2, EmptySeq DEF ExactOK
        <3> HIDE DEF new
        <3>3. n.wal = old \o new
            BY <1>2 DEF Publishes, new
        <3>4. Len(old) + 1 \in DOMAIN n.wal /\ n.wal[Len(old) + 1] = new[1]
            BY <1>1, <3>1, <3>2, <3>3, ConcatProperties
        <3> QED
            BY <3>1, <3>4
    <2> QED
        BY <1>2, <2>1, <2>2 DEF Publishes, Carries, Intended, Intent
<1>3. CASE job[w] = "checkpoint"
    BY <1>1, <1>3, ReplayBase DEF Publishes, Carries, Intended, Intent
<1> QED
    BY <1>2, <1>3 DEF Publishes

------------------------------------------------------------------------------
(* How the head and the requests of its holder move. *)

\* The manifest only counts up.
LEMMA SeqGrows ==
    ASSUME IInv, HoldersOK, [Next]_vars
    PROVE  head.seq \in Nat /\ head'.seq \in Nat /\ head.seq <= head'.seq
<1>1. TypeOK /\ TypeOK'
    BY TypeStep DEF IInv
<1>2. head.seq \in Nat /\ head'.seq \in Nat
    BY <1>1 DEF TypeOK, HeadRecord
<1>3. CASE head' = head
    BY <1>2, <1>3
<1>4. CASE head' # head
    <2>1. Commits(head, head')
        BY <1>4, ChangesAreCommits
    <2>2. head'.seq = head.seq \/ head'.seq = head.seq + 1
        BY <2>1 DEF Commits, Manifest
    <2> QED
        BY <1>2, <2>2
<1> QED
    BY <1>3, <1>4

\* Another lease over the same manifest changes nothing of what it carries.
LEMMA CarriesSame ==
    ASSUME NEW w \in Instances, Committing(w), NEW e, NEW n, SameManifest(e, n)
    PROVE  /\ Replay(n) = Replay(e)
           /\ Carries(w, e) <=> Carries(w, n)
<1>1. Replay(n) = Replay(e)
    BY DEF SameManifest, Replay, BaseContent
<1>2. Intended(w, "op", e) <=> Intended(w, "op", n)
    BY DEF Committing, SameManifest, Intended, Intent
<1> QED
    BY <1>1, <1>2 DEF SameManifest, Carries

\* What carries the database of a handle goes on doing so while the operation runs.
LEMMA CarriesKept ==
    ASSUME IInv, [Next]_vars, NEW w \in Instances, Committing(w), NEW h \in HeadRecord,
           RefsPresent(h), Carries(w, h), cache'[w].seq = cache[w].seq,
           local'[w] = local[w], job'[w] = job[w], key'[w] = key[w]
    PROVE  Carries(w, h)'
<1>1. Replay(h)' = Replay(h)
    BY ReplayKept
<1>2. Intended(w, "op", h)'
    BY DEF Committing, Carries, Intended, Intent
<1> QED
    BY <1>1, <1>2 DEF Carries

\* What a handle that holds the lease sends over the head it last saw.
LEMMA OwnSends ==
    ASSUME LogInv, NEW w \in Instances, phase[w] \in Serving, Exact(w), ExactOK(w),
           NEW n, Sends(w, cache[w], n), n.inst = w
    PROVE  /\ n.gen = cache[w].gen
           /\ \/ SameManifest(cache[w], n)
              \/ Sending(w) /\ Carries(w, n)
<1>0. IInv /\ HoldersOK
    BY DEF LogInv, GInv
<1>1. CASE SameManifest(cache[w], n)
    <2>1. phase[w] \notin Asking
        BY DEF Serving, Writing, Asking
    <2> QED
        BY <1>0, <1>1, <2>1, SendsKinds, NobodyAssumption DEF Takes, Gives, Extends, Publishes, Asking
<1>2. CASE ~SameManifest(cache[w], n)
    <2>1. Publishes(w, cache[w], n) /\ Attempting(w, "op")
        BY <1>0, <1>2, OpPublishes
    <2>2. Sending(w)
        BY <2>1 DEF Publishes, Attempting, Sending, Committing
    <2> QED
        BY <2>1, <2>2, BuildCarries DEF Publishes, Sending
<1> QED
    BY <1>1, <1>2

\* How the head moves while the lease stays with w.
LEMMA OwnHead ==
    ASSUME LogInv, [Next]_vars, NEW w \in Instances, phase[w] \in Serving, Exact(w), ExactOK(w),
           head.inst = w, head'.inst = w
    PROVE  /\ head'.gen = head.gen
           /\ SameManifest(head, head') \/ (Sending(w) /\ Carries(w, head'))
<1>0. IInv /\ HoldersOK
    BY DEF LogInv, GInv
<1>1. CASE head' = head
    BY <1>1 DEF SameManifest
<1>2. ASSUME NEW r \in late, r.expect = head, r.next = head'
      PROVE  /\ head'.gen = head.gen
             /\ SameManifest(head, head') \/ (Sending(w) /\ Carries(w, head'))
    <2>1. OwnWrite(w, r)
        BY <1>2 DEF OwnWrite
    <2>2. ~(r.expect.seq < head.seq)
        BY <1>0, <1>2, SeqGrows
    <2> QED
        BY <1>2, <2>1, <2>2 DEF Exact
<1>3. ASSUME NEW u \in Instances, head = cache[u], Sends(u, head, head')
      PROVE  /\ head'.gen = head.gen
             /\ SameManifest(head, head') \/ (Sending(w) /\ Carries(w, head'))
    <2>1. u = w
        BY <1>0, <1>3, SentInst, NobodyAssumption
    <2> QED
        BY <1>3, <2>1, OwnSends
<1> QED
    BY <1>0, <1>1, <1>2, <1>3, HeadComes

\* The requests of w still under way while the lease stays with it.
LEMMA OwnLate ==
    ASSUME LogInv, [Next]_vars, NEW w \in Instances, phase[w] \in Serving, Exact(w), ExactOK(w),
           NEW r \in late', OwnWrite(w, r)
    PROVE  /\ r.next.gen = r.expect.gen
           /\ \/ SameManifest(r.expect, r.next)
              \/ r.expect.seq < head.seq
              \/ /\ Sending(w) /\ Carries(w, r.next) /\ r.expect.seq = cache[w].seq
                 /\ doubt[w] \/ (CommitUnsettled(w, "op") /\ doubt'[w])
<1>0. IInv /\ HoldersOK
    BY DEF LogInv, GInv
<1>1. CASE r \in late
    BY <1>1 DEF Exact
<1>2. CASE r \notin late
    <2>1. PICK u \in Instances :
            /\ r.expect = cache[u] /\ Sends(u, r.expect, r.next)
            /\ \/ SameManifest(r.expect, r.next)
               \/ CommitUnsettled(u, "op") /\ doubt'[u]
        BY <1>0, <1>2, LateComes
    <2>2. u = w
        BY <1>0, <2>1, SentInst, NobodyAssumption DEF OwnWrite
    <2>3. r.next.inst = w
        BY DEF OwnWrite
    <2> QED
        BY <2>1, <2>2, <2>3, OwnSends
<1> QED
    BY <1>1, <1>2

------------------------------------------------------------------------------
(* How what the holder has seen and what it holds move. *)

\* The operation on its way stays so.
OpStays(w) ==
    Sending(w) => Sending(w)' /\ job'[w] = job[w] /\ key'[w] = key[w] /\ (doubt[w] => doubt'[w])

\* What a step does to what a handle has seen and what it holds: nothing, it restores,
\* it executes, it sees the manifest it knew in the head, or its operation settles.
DataMoves(w) ==
    \/ /\ cache'[w] = cache[w] /\ local'[w] = local[w] /\ buffer'[w] = buffer[w]
       /\ OpStays(w)
       /\ phase[w] = "restoring" => phase'[w] = "restoring"
    \/ /\ phase[w] = "restoring" /\ ~Sending(w) /\ UNCHANGED <<head, late>>
       /\ cache'[w] = cache[w] /\ local'[w] = Replay(cache[w]) /\ buffer'[w] = <<>>
    \/ /\ phase[w] # "restoring" /\ ~Sending(w) /\ UNCHANGED <<head, late>>
       /\ cache'[w] = cache[w]
       /\ \E s \in Statement : /\ local'[w] = Append(local[w], s)
                               /\ buffer'[w] = Append(buffer[w], s)
    \/ /\ phase[w] # "restoring" /\ UNCHANGED late
       /\ cache'[w] = head' /\ SameManifest(cache[w], head')
       /\ local'[w] = local[w] /\ buffer'[w] = buffer[w]
       /\ OpStays(w) \/ ~doubt[w]
    \/ /\ Sending(w) /\ UNCHANGED late
       /\ cache'[w] = head' /\ Carries(w, head')
       /\ local'[w] = local[w] /\ buffer'[w] = <<>>

\* A handle that is restoring has buffered nothing and runs no operation.
LEMMA RestoringIsFresh ==
    ASSUME LogInv, NEW w \in Instances, phase[w] = "restoring"
    PROVE  buffer[w] = <<>> /\ ~Sending(w)
<1>1. /\ buffer[w] \in Seq(Statement) /\ committed[w] \in Nat /\ executed[w] = 0
      /\ executed[w] = committed[w] + Len(buffer[w]) /\ job[w] = "none"
    BY DEF LogInv, GInv, IInv, TypeOK, JobOK, CountOK, Writing, Ended
<1>2. Len(buffer[w]) \in Nat /\ (buffer[w] # <<>> => Len(buffer[w]) # 0)
    BY <1>1, EmptySeq
<1> QED
    BY <1>1, <1>2 DEF Sending, Committing

\* Outside commitHead, what a serving handle has seen and holds moves in one of the ways.
LEMMA FreeMoves ==
    ASSUME LogInv, NEW w \in Instances,
           Open(w) \/ Operate(w) \/ Close(w) \/ HeartbeatFires(w) \/ Crash(w),
           phase[w] \in Serving, phase'[w] \in Serving
    PROVE  DataMoves(w)
<1> USE DEF jobVars, commitVars, leaseVars, dataVars, storeVars
<1>0. IInv /\ TypeOK /\ JobOK
    BY DEF LogInv, GInv, IInv
<1>a. \A p \in Serving : p \notin Reading \union Ended
                            \union {"new", "creating", "created", "createReread", "acquiring",
                                    "acquireReread", "unwinding", "unwindRelease"}
    BY DEF Serving, Writing, Reading, Ended
<1>b. job[w] = "none" \/ at[w]["op"] = "upload" => ~Sending(w)
    BY DEF Sending, Committing
<1>1. CASE Open(w)
    <2>1. CASE Restore(w)
        BY <1>0, <2>1, RestoringIsFresh DEF Restore, TypeOK, DataMoves
    <2>2. CASE ~Restore(w)
        <3>1. phase[w] \notin {"new", "creating", "created", "createReread", "acquiring",
                               "acquireReread", "snapshotting", "unwinding", "unwindRelease"}
            BY <1>a DEF Reading
        <3>2. RestoreFails(w)
            BY <1>1, <2>2, <3>1 DEF Open, OpenFindsObject, OpenFindsNothing, OpenReadOnly,
                OpenCannotReadHead, Create, CreatedReadsBack, CreateReread, AcquireRefused,
                Acquire, AcquireReread, RestoreSnapshot, UnwindReadsHead, UnwindReleases
        <3>3. phase'[w] \in {"unwinding", "openFailed"}
            BY <1>0, <3>2 DEF RestoreFails, Go, TypeOK
        <3> QED
            BY <1>a, <3>3 DEF Ended
    <2> QED
        BY <2>1, <2>2
<1>2. CASE Operate(w)
    <2>1. CASE Execute(w)
        <3>1. phase[w] # "restoring" /\ ~Sending(w) /\ UNCHANGED <<head, late, cache>>
            BY <1>b, <2>1 DEF Execute, Ready
        <3>2. \E s \in Statement : /\ local'[w] = Append(local[w], s)
                                   /\ buffer'[w] = Append(buffer[w], s)
            <4> DEFINE s == [inst |-> w, n |-> executed[w] + 1]
            <4>1. s \in Statement
                BY <1>0 DEF TypeOK, Statement
            <4>2. local'[w] = Append(local[w], s) /\ buffer'[w] = Append(buffer[w], s)
                BY <1>0, <2>1 DEF Execute, TypeOK
            <4> QED
                BY <4>1, <4>2
        <3> QED
            BY <3>1, <3>2 DEF DataMoves
    <2>2. CASE ~Execute(w)
        <3>1. UNCHANGED <<cache, local, buffer>> /\ ~Sending(w) /\ phase[w] # "restoring"
            BY <1>0, <1>2, <1>b, <2>2 DEF Operate, SelfFence, StartFlush, StartCheckpoint, StartUpload,
                Uploaded, UploadedTooLate, UploadFails, Uploading, Ready, JobOK, Writing
        <3> QED
            BY <3>1 DEF DataMoves, OpStays
    <2> QED
        BY <2>1, <2>2
<1>3. CASE Close(w)
    <2>1. UNCHANGED <<cache, local, buffer>> /\ phase[w] # "restoring"
        BY <1>3 DEF Close, CloseStarts, CloseFenced, CloseFlushes, CloseLapsed, CloseReleases,
            CloseReader, Drained
    <2>2. CASE CloseStarts(w)
        BY <2>1, <2>2 DEF CloseStarts, DataMoves, OpStays, Sending, Committing, Holds
    <2>3. CASE ~CloseStarts(w)
        <3>1. ~Sending(w)
            BY <1>3, <1>a, <1>b, <2>3 DEF Close, CloseFenced, CloseFlushes, CloseLapsed,
                CloseReleases, CloseReader, Drained, Reading
        <3> QED
            BY <2>1, <3>1 DEF DataMoves, OpStays
    <2> QED
        BY <2>2, <2>3
<1>4. CASE HeartbeatFires(w)
    <2>1. UNCHANGED <<cache, local, buffer, job, key, doubt>> /\ phase[w] = "open" /\ Queue(w, "hb")
        BY <1>4 DEF HeartbeatFires
    <2>2. at'[w]["op"] = at[w]["op"]
        BY <1>0, <1>4, StepEffect DEF HeartbeatFires, Threads
    <2>3. Holds(w, "op") => Holds(w, "op")'
        BY <1>0, <2>1, QueuedBehind DEF Holds, Threads
    <2> QED
        BY <2>1, <2>2, <2>3 DEF DataMoves, OpStays, Sending, Committing
<1>5. CASE Crash(w)
    <2>1. phase'[w] = "crashed"
        BY <1>0, <1>5 DEF Crash, Go, TypeOK
    <2> QED
        BY <1>a, <2>1 DEF Ended
<1> QED
    BY <1>1, <1>2, <1>3, <1>4, <1>5

\* Inside commitHead too, while the lease stays with the handle and no commit of it is
\* left unproven.
LEMMA CommitData ==
    ASSUME LogInv, [Next]_vars, NEW w \in Instances, NamedOK(w), ExactOK(w), Exact(w),
           NEW t \in Threads, Commit(w, t), head.inst = w, head'.inst = w,
           phase[w] \in Serving, phase'[w] \in Serving, w \notin unproven'
    PROVE  DataMoves(w)
<1> USE DEF jobVars, commitVars, leaseVars, dataVars, storeVars
<1>0. IInv /\ HoldersOK /\ TypeOK /\ JobOK
    BY DEF LogInv, GInv, IInv
<1>1. /\ phase[w] # "restoring" /\ at[w][t] \in {"commit", "reread"}
      /\ t = "hb" \/ job[w] = "confirm" => ~Sending(w)
    <2>1. t = "hb" => ~Sending(w)
        BY <1>0, LockHolder DEF Sending, Threads
    <2>2. at[w][t] \in {"commit", "reread"}
        BY <1>0, CommitThread
    <2>3. phase[w] # "restoring"
        <3>1. CASE t = "op"
            BY <1>0, <3>1, CommitMoves DEF Writing
        <3>2. CASE t = "hb"
            BY <1>0, <2>2, <3>2 DEF HoldersOK, HolderOK, Writing, Ended
        <3> QED
            BY <3>1, <3>2 DEF Threads
    <2> QED
        BY <2>1, <2>2, <2>3 DEF Sending, Committing
<1>2. job[w] = "release" /\ t = "op" =>
          CommitUnsettled(w, t) \/ RereadRetries(w, t)
    <2> SUFFICES ASSUME job[w] = "release", t = "op", ~CommitUnsettled(w, t), ~RereadRetries(w, t)
                 PROVE  FALSE
        OBVIOUS
    <2>1. phase[w] = "closing"
        BY <1>0 DEF HoldersOK, HolderOK
    <2>2. phase'[w] \in {"closed", "closeFailed"}
        <3>1. CASE CommitReplaced(w, t) \/ RereadSettles(w, t)
            <4>1. phase'[w] = "closed"
                BY <1>0, <1>1, <3>1, SettledSees, SettledPhase
            <4> QED
                BY <4>1
        <3>2. CASE \E told, open : GiveUp(w, t, told, open)
            BY <1>0, <2>1, <3>2 DEF GiveUp, FailJob, Go, TypeOK
        <3> QED
            BY <3>1, <3>2 DEF Commit, CommitErrors, RereadFenced, RereadGivesUp, RereadErrors
    <2> QED
        BY <2>2 DEF Serving, Writing
<1>3. CASE CommitUnsettled(w, t) \/ RereadRetries(w, t)
    <2>1. CASE CommitUnsettled(w, t)
        <3>1. UNCHANGED <<cache, local, buffer, job, key, lockq, phase>> /\ (doubt[w] => doubt'[w])
            BY <1>0, <2>1 DEF CommitUnsettled, TypeOK
        <3>2. at'[w]["op"] = IF t = "op" THEN "reread" ELSE at[w]["op"]
            BY <1>0, <2>1, StepEffect DEF CommitUnsettled, Threads
        <3>3. OpStays(w)
            BY <3>1, <3>2 DEF OpStays, Sending, Committing, Holds
        <3> QED
            BY <1>1, <3>1, <3>3 DEF DataMoves
    <2>2. CASE RereadRetries(w, t)
        <3>1. /\ UNCHANGED <<head, late, local, buffer, job, key, lockq, doubt>>
              /\ cache'[w] = head /\ StillOurs(w, head) /\ ~Proven(w, t, head)
            BY <1>0, <2>2 DEF RereadRetries, See, TypeOK
        <3>2. at'[w]["op"] = IF t = "op" THEN "commit" ELSE at[w]["op"]
            BY <1>0, <2>2, StepEffect DEF RereadRetries, Threads
        <3>3. OpStays(w)
            BY <3>1, <3>2 DEF OpStays, Sending, Committing, Holds
        <3>4. ~(Sending(w) /\ Carries(w, head))
            BY <1>1, <3>1 DEF Proven, Carries, Threads
        <3>5. SameManifest(cache[w], head')
            BY <3>1, <3>4 DEF Exact
        <3> QED
            BY <1>1, <3>1, <3>3, <3>5 DEF DataMoves
    <2> QED
        BY <1>3, <2>1, <2>2
<1>4. CASE CommitReplaced(w, t) \/ RereadSettles(w, t)
    <2>1. cache'[w] = head' /\ Settle(w, t, head') /\ UNCHANGED <<late, local>>
        BY <1>0, <1>4, SettledSees DEF CommitReplaced, RereadSettles, HeadWrite, Settle
    <2>2. CASE t = "hb" \/ job[w] = "confirm"
        <3>1. UNCHANGED buffer
            BY <1>0, <2>1, <2>2 DEF Settle, Intent, RenewDone
        <3>2. ~Sending(w)
            BY <1>1, <2>2
        <3>3. SameManifest(cache[w], head')
            <4>1. CASE CommitReplaced(w, t)
                <5>1. PICK n : n = Build(w, t)
                    OBVIOUS
                <5>2. head' = n /\ Attempting(w, t)
                    BY <4>1, <5>1 DEF CommitReplaced, HeadWrite
                <5>3. Extends(w, cache[w], n)
                    BY <1>0, <2>2, <5>1, <5>2, BuildKinds
                <5> QED
                    BY <5>2, <5>3 DEF Extends
            <4>2. CASE RereadSettles(w, t)
                BY <3>2, <4>2 DEF RereadSettles, Exact
            <4> QED
                BY <1>4, <4>1, <4>2
        <3> QED
            BY <1>1, <2>1, <3>1, <3>2, <3>3 DEF DataMoves, OpStays
    <2>3. CASE t = "op" /\ job[w] \in {"flush", "checkpoint"}
        <3>1. buffer'[w] = <<>>
            BY <1>1, <2>1, <2>3, SettledCounts
        <3>2. Sending(w)
            BY <1>0, <1>1, <1>4, <2>3 DEF Sending, Committing, CommitReplaced, RereadSettles, Attempting,
                Rereading, IInv, LockOK, InQueue, Holds, Queues
        <3>3. Carries(w, head')
            <4>1. CASE CommitReplaced(w, t)
                <5>1. PICK n : n = Build(w, t)
                    OBVIOUS
                <5>2. head' = n /\ Attempting(w, t)
                    BY <4>1, <5>1 DEF CommitReplaced, HeadWrite
                <5>3. Publishes(w, cache[w], n)
                    BY <1>0, <2>3, <5>1, <5>2, BuildKinds
                <5> QED
                    BY <3>2, <5>2, <5>3, BuildCarries DEF Sending
            <4>2. CASE RereadSettles(w, t)
                <5>1. head' = head /\ Intended(w, "op", head)
                    BY <2>3, <4>2 DEF RereadSettles, Proven
                <5>2. Names(head, key[w])
                    BY <2>3, <5>1 DEF Intended, Intent, Names
                <5>3. ~Names(cache[w], key[w])
                    BY <3>2 DEF NamedOK, Sending
                <5>4. ~SameManifest(cache[w], head)
                    BY <5>2, <5>3 DEF SameManifest, Names
                <5> QED
                    BY <5>1, <5>4 DEF Exact
            <4> QED
                BY <1>4, <4>1, <4>2
        <3> QED
            BY <2>1, <3>1, <3>2, <3>3 DEF DataMoves
    <2> QED
        BY <1>0, <1>1, <1>2, <1>3, <2>2, <2>3, CommitMoves DEF TypeOK, Jobs, Threads
<1>5. CASE CommitErrors(w, t) \/ RereadFenced(w, t) \/ RereadErrors(w, t) \/ RereadGivesUp(w, t)
    <2>1. PICK told, open : GiveUp(w, t, told, open) /\ (open = doubt[w] \/ open = TRUE)
                            /\ (~RereadGivesUp(w, t) => UNCHANGED cache)
                            /\ (RereadGivesUp(w, t) => open = doubt[w])
        BY <1>5 DEF CommitErrors, RereadFenced, RereadErrors, RereadGivesUp
    <2>2. UNCHANGED <<local, buffer, key>>
        BY <2>1 DEF GiveUp
    <2>3. CASE t = "hb" \/ job[w] = "confirm"
        <3>1. ~Sending(w) /\ OpStays(w)
            BY <1>1, <2>3 DEF OpStays
        <3>2. CASE ~RereadGivesUp(w, t)
            BY <1>1, <2>1, <2>2, <3>1, <3>2 DEF DataMoves
        <3>3. CASE RereadGivesUp(w, t)
            <4>1. cache'[w] = head /\ UNCHANGED <<head, late>>
                BY <1>0, <3>3 DEF RereadGivesUp, See, TypeOK
            <4> QED
                BY <1>1, <2>2, <3>1, <4>1 DEF DataMoves, Exact
        <3> QED
            BY <3>2, <3>3
    <2>4. CASE t = "op" /\ job[w] \in {"flush", "checkpoint"}
        <3>1. ~open
            BY <1>0, <2>1, <2>4 DEF GiveUp
        <3>2. RereadGivesUp(w, t) /\ ~doubt[w]
            <4>1. ~CommitErrors(w, t) /\ ~RereadErrors(w, t)
                BY <2>4 DEF CommitErrors, RereadErrors, GiveUp
            <4>2. ~RereadFenced(w, t)
                BY DEF RereadFenced, StillOurs, Exact
            <4> QED
                BY <1>5, <2>1, <3>1, <4>1, <4>2
        <3>3. /\ UNCHANGED <<head, late>> /\ cache'[w] = head
              /\ StillOurs(w, head) /\ ~Proven(w, t, head)
            BY <1>0, <3>2 DEF RereadGivesUp, See, TypeOK
        <3>4. SameManifest(cache[w], head')
            BY <2>4, <3>3 DEF Proven, Carries, Exact
        <3> QED
            BY <1>1, <2>2, <3>2, <3>3, <3>4 DEF DataMoves
    <2> QED
        BY <1>0, <1>1, <1>2, <1>3, <2>3, <2>4, CommitMoves DEF TypeOK, Jobs, Threads
<1> QED
    BY <1>3, <1>4, <1>5 DEF Commit

------------------------------------------------------------------------------
(* The database of the holder is the one its log restores. *)

\* What a request under way writes is there to be read.
LEMMA LateRefs ==
    ASSUME LogInv, [Next]_vars, NEW r \in late'
    PROVE  r.next \in HeadRecord /\ RefsPresent(r.next)
<1>0. IInv /\ HoldersOK /\ TypeOK' /\ late' \subseteq [expect : HeadRecord, next : HeadRecord]
    BY TypeStep DEF LogInv, GInv, TypeOK
<1>1. CASE r \in late
    BY <1>0, <1>1 DEF LogInv, HeadsOK, Grows
<1>2. CASE r \notin late
    BY <1>0, <1>2, LateComes, SentGrows DEF Grows
<1> QED
    BY <1>1, <1>2

\* Three heads of one manifest.
LEMMA SameManifests ==
    /\ \A h : SameManifest(h, h)
    /\ \A a, b, c : SameManifest(a, b) /\ SameManifest(b, c) => SameManifest(a, c)
BY DEF SameManifest

\* Read in the next state, a manifest is the same manifest.
LEMMA ExactParts ==
    ASSUME NEW w \in Instances,
           phase'[w] # "restoring" => local'[w] = Replay(cache[w])' \o buffer'[w],
           head'.gen = cache'[w].gen,
           SameManifest(cache'[w], head') \/ (Sending(w)' /\ Carries(w, head)'),
           \A r \in late' : OwnWrite(w, r) =>
             /\ r.next.gen = r.expect.gen
             /\ \/ SameManifest(r.expect, r.next)
                \/ r.expect.seq < head'.seq
                \/ /\ Sending(w)' /\ doubt'[w] /\ Carries(w, r.next)'
                   /\ r.expect.seq = cache'[w].seq
    PROVE  Exact(w)'
BY DEF Exact, SameManifest, OwnWrite

\* While the lease stays with w, a step that leaves what w has seen alone keeps its
\* database the one that its log restores.
LEMMA ExactUnmoved ==
    ASSUME LogInv, [Next]_vars, NEW w \in Instances, phase[w] \in Serving, head.inst = w,
           head'.inst = w, Exact(w), ExactOK(w), cache'[w] = cache[w],
           local'[w] = local[w], buffer'[w] = buffer[w], OpStays(w),
           phase[w] = "restoring" => phase'[w] = "restoring"
    PROVE  Exact(w)'
<1>0. /\ IInv /\ HoldersOK /\ RefsPresent(cache[w]) /\ cache[w] \in HeadRecord
      /\ head.seq \in Nat /\ head'.seq \in Nat /\ head.seq <= head'.seq
    BY SeqGrows DEF LogInv, GInv, IInv, NothingNamedIsMissing, TypeOK
<1>1. Replay(cache[w])' = Replay(cache[w])
    <2>1. PICK h \in HeadRecord : h = cache[w] /\ RefsPresent(h)
        BY <1>0
    <2>2. Replay(h)' = Replay(h)
        BY <1>0, <2>1, ReplayKept
    <2> QED
        BY <2>1, <2>2 DEF Replay, BaseContent
<1>2. ASSUME NEW h \in HeadRecord, RefsPresent(h), Sending(w), Carries(w, h)
      PROVE  Sending(w)' /\ Carries(w, h)'
    BY <1>0, <1>2, CarriesKept DEF OpStays, Sending
<1>3. /\ head'.gen = cache'[w].gen
      /\ SameManifest(cache'[w], head') \/ (Sending(w)' /\ Carries(w, head)')
    <2>1. PICK h \in HeadRecord : h = head' /\ RefsPresent(h)
        BY HeadIsKnown
    <2>2. /\ h.gen = cache[w].gen
          /\ SameManifest(cache[w], h) \/ (Sending(w) /\ Carries(w, h))
        <3>1. /\ head'.gen = head.gen
              /\ SameManifest(head, head') \/ (Sending(w) /\ Carries(w, head'))
            BY OwnHead
        <3>2. CASE Sending(w) /\ Carries(w, head) /\ SameManifest(head, head')
            <4>1. Carries(w, head')
                BY <3>2, CarriesSame DEF Sending
            <4> QED
                BY <2>1, <3>1, <3>2, <4>1 DEF Exact
        <3> QED
            BY <2>1, <3>1, <3>2, SameManifests DEF Exact
    <2>3. Carries(w, h)' => Carries(w, head)'
        BY <2>1 DEF Carries, Intended, Replay, BaseContent
    <2> QED
        BY <1>2, <2>1, <2>2, <2>3
<1>4. ASSUME NEW r \in late', OwnWrite(w, r)
      PROVE  /\ r.next.gen = r.expect.gen
             /\ \/ SameManifest(r.expect, r.next)
                \/ r.expect.seq < head'.seq
                \/ /\ Sending(w)' /\ doubt'[w] /\ Carries(w, r.next)'
                   /\ r.expect.seq = cache'[w].seq
    <2>1. PICK n \in HeadRecord, e \in HeadRecord :
              n = r.next /\ e = r.expect /\ RefsPresent(n) /\ e.seq \in Nat
        <3>1. TypeOK'
            BY <1>0, TypeStep
        <3>2. r.expect \in HeadRecord /\ r.expect.seq \in Nat
            BY <3>1 DEF TypeOK, HeadRecord
        <3> QED
            BY <3>2, LateRefs
    <2>2. /\ n.gen = e.gen
          /\ \/ SameManifest(e, n)
             \/ e.seq < head.seq
             \/ /\ Sending(w) /\ Carries(w, n) /\ e.seq = cache[w].seq
                /\ doubt[w] \/ doubt'[w]
        BY <1>4, <2>1, OwnLate
    <2>3. CASE e.seq < head.seq
        BY <1>0, <2>1, <2>2, <2>3
    <2>4. CASE Sending(w) /\ Carries(w, n) /\ e.seq = cache[w].seq /\ (doubt[w] \/ doubt'[w])
        BY <1>2, <2>1, <2>2, <2>4 DEF OpStays
    <2> QED
        BY <2>1, <2>2, <2>3, <2>4
<1>5. phase'[w] # "restoring" => local'[w] = Replay(cache[w])' \o buffer'[w]
    BY <1>1 DEF Exact
<1> QED
    BY <1>3, <1>4, <1>5, ExactParts

\* The same for a step that shows w the manifest it knew, and for one that settles.
LEMMA ExactSeen ==
    ASSUME LogInv, [Next]_vars, NEW w \in Instances, phase[w] \in Serving, head'.inst = w,
           Exact(w), ExactOK(w), cache'[w] = head', UNCHANGED late,
           local'[w] = local[w],
           \/ /\ phase[w] # "restoring" /\ SameManifest(cache[w], head')
              /\ buffer'[w] = buffer[w] /\ (OpStays(w) \/ ~doubt[w])
           \/ Sending(w) /\ Carries(w, head') /\ buffer'[w] = <<>>
    PROVE  Exact(w)'
<1>0. /\ IInv /\ HoldersOK /\ cache[w] \in HeadRecord /\ local[w] \in Seq(Statement)
      /\ head.seq \in Nat /\ head'.seq \in Nat /\ head.seq <= head'.seq
      /\ cache[w].seq \in Nat
    BY SeqGrows DEF LogInv, GInv, IInv, TypeOK, HeadRecord
<1>1. PICK h \in HeadRecord : h = head' /\ RefsPresent(h)
    BY HeadIsKnown
<1>2. Replay(cache[w])' = Replay(h)
    <2>1. Replay(h)' = Replay(h)
        BY <1>0, <1>1, ReplayKept
    <2> QED
        BY <1>1, <2>1 DEF Replay, BaseContent
<1>3. local'[w] = Replay(cache[w])' \o buffer'[w]
    <2>1. CASE phase[w] # "restoring" /\ SameManifest(cache[w], head') /\ buffer'[w] = buffer[w]
        <3>1. Replay(h) = Replay(cache[w])
            BY <1>1, <2>1 DEF SameManifest, Replay, BaseContent
        <3> QED
            BY <1>2, <2>1, <3>1 DEF Exact
    <2>2. CASE Carries(w, head') /\ buffer'[w] = <<>>
        <3>1. Replay(h) = local[w]
            BY <1>1, <2>2 DEF Carries
        <3>2. local[w] \o <<>> = local[w]
            BY <1>0, ConcatEmptySeq
        <3> QED
            BY <1>2, <2>2, <3>1, <3>2
    <2> QED
        BY <2>1, <2>2
<1>4. ASSUME NEW r \in late', OwnWrite(w, r)
      PROVE  /\ r.next.gen = r.expect.gen
             /\ \/ SameManifest(r.expect, r.next)
                \/ r.expect.seq < head'.seq
                \/ /\ Sending(w)' /\ doubt'[w] /\ Carries(w, r.next)'
                   /\ r.expect.seq = cache'[w].seq
    <2>1. PICK n \in HeadRecord, e \in HeadRecord :
              n = r.next /\ e = r.expect /\ RefsPresent(n) /\ e.seq \in Nat
        <3>1. r \in late /\ r.expect \in HeadRecord /\ r.expect.seq \in Nat
            BY <1>0 DEF IInv, TypeOK, HeadRecord
        <3> QED
            BY <3>1, LateRefs
    <2>2. /\ n.gen = e.gen
          /\ \/ SameManifest(e, n)
             \/ e.seq < head.seq
             \/ Sending(w) /\ doubt[w] /\ Carries(w, n) /\ e.seq = cache[w].seq
        BY <1>4, <2>1 DEF Exact
    <2>3. CASE e.seq < head.seq
        BY <1>0, <2>1, <2>2, <2>3
    <2>4. CASE Sending(w) /\ doubt[w] /\ Carries(w, n) /\ e.seq = cache[w].seq
        <3>1. CASE Carries(w, head')
            <4>1. e.seq < head'.seq
                BY <1>0, <2>4, <3>1 DEF Carries
            <4> QED
                BY <2>1, <2>2, <4>1
        <3>2. CASE SameManifest(cache[w], head') /\ OpStays(w)
            <4>1. cache'[w].seq = cache[w].seq
                BY <3>2 DEF SameManifest
            <4>2. Sending(w)' /\ doubt'[w] /\ Carries(w, n)'
                BY <1>0, <2>1, <2>4, <3>2, <4>1, CarriesKept DEF OpStays, Sending
            <4>3. Carries(w, r.next)'
                BY <2>1, <4>2 DEF Carries, Intended, Replay, BaseContent
            <4> QED
                BY <2>1, <2>2, <2>4, <4>1, <4>2, <4>3
        <3> QED
            BY <2>4, <3>1, <3>2
    <2> QED
        BY <2>1, <2>2, <2>3, <2>4
<1> QED
    BY <1>3, <1>4, SameManifests, ExactParts

\* A step at which w restores, or executes a statement.
LEMMA ExactGrown ==
    ASSUME LogInv, [Next]_vars, NEW w \in Instances, phase[w] \in Serving, Exact(w),
           UNCHANGED <<head, late>>, cache'[w] = cache[w], ~Sending(w),
           \/ phase[w] = "restoring" /\ local'[w] = Replay(cache[w]) /\ buffer'[w] = <<>>
           \/ /\ phase[w] # "restoring"
              /\ \E s \in Statement : /\ local'[w] = Append(local[w], s)
                                      /\ buffer'[w] = Append(buffer[w], s)
    PROVE  Exact(w)'
<1>0. /\ IInv /\ TypeOK /\ cache[w] \in HeadRecord /\ RefsPresent(cache[w])
      /\ buffer[w] \in Seq(Statement)
    BY DEF LogInv, GInv, IInv, TypeOK, NothingNamedIsMissing
<1>1. Replay(cache[w])' = Replay(cache[w]) /\ Replay(cache[w]) \in Seq(Statement)
    <2>1. PICK h \in HeadRecord : h = cache[w] /\ RefsPresent(h)
        BY <1>0
    <2>2. Replay(h)' = Replay(h)
        BY <1>0, <2>1, ReplayKept
    <2> QED
        BY <1>0, <2>1, <2>2, TypeOfReplay DEF Replay, BaseContent
<1>2. local'[w] = Replay(cache[w])' \o buffer'[w]
    <2>1. CASE local'[w] = Replay(cache[w]) /\ buffer'[w] = <<>>
        BY <1>1, <2>1, ConcatEmptySeq
    <2>2. ASSUME phase[w] # "restoring", NEW s \in Statement, local'[w] = Append(local[w], s),
                 buffer'[w] = Append(buffer[w], s)
          PROVE  local'[w] = Replay(cache[w])' \o buffer'[w]
        <3> DEFINE p == Replay(cache[w])
                   q == buffer[w]
        <3>1. local[w] = p \o q
            BY <2>2 DEF Exact
        <3>2. p \in Seq(Statement) /\ q \in Seq(Statement)
            BY <1>0, <1>1
        <3> HIDE DEF p, q
        <3>3. Append(p \o q, s) = (p \o q) \o <<s>> /\ Append(q, s) = q \o <<s>>
            BY <3>2, AppendIsConcat, ConcatProperties
        <3>4. (p \o q) \o <<s>> = p \o (q \o <<s>>)
            BY <3>2, ConcatAssociative
        <3> QED
            BY <1>1, <2>2, <3>1, <3>3, <3>4 DEF p, q
    <2> QED
        BY <2>1, <2>2
<1> QED
    BY <1>2, ExactParts DEF Exact

\* A handle comes to serve by seeing the head that gives it the lease, with no request
\* of its own under way.
LEMMA ExactEntered ==
    ASSUME LogInv, [Next]_vars, Undisturbed', NEW w \in Instances, phase'[w] = "restoring", cache'[w] = head'
    PROVE  Exact(w)'
<1>1. KnownOK(w)'
    BY LogInvStep DEF LogInv
<1>2. \A r \in late' : ~OwnWrite(w, r)
    BY <1>1 DEF KnownOK, OwnWrite
<1> QED
    BY <1>2, SameManifests, ExactParts

\* A flush runs with statements to flush, and nothing takes them from it.
LEMMA FlushStep ==
    ASSUME IInv, HoldersOK, [Next]_vars, NEW w \in Instances, job[w] = "flush" => buffer[w] # <<>>
    PROVE  job'[w] = "flush" => buffer'[w] # <<>>
<1> USE DEF jobVars, commitVars, leaseVars, dataVars, storeVars
<1>0. TypeOK /\ JobOK
    BY DEF IInv
<1>1. CASE Open(w)
    <2>1. UNCHANGED buffer
        BY <1>1 DEF Open, OpenFindsObject, OpenFindsNothing, OpenReadOnly, OpenCannotReadHead,
            Create, CreatedReadsBack, CreateReread, AcquireRefused, Acquire, AcquireReread,
            Restore, RestoreSnapshot, RestoreFails, UnwindReadsHead, UnwindReleases
    <2>2. job'[w] \in {job[w], "confirm"}
        BY <1>0, <1>1 DEF TypeOK, Open, OpenFindsObject, OpenFindsNothing, OpenReadOnly,
            OpenCannotReadHead, Create, CreatedReadsBack, CreateReread, AcquireRefused, Acquire,
            AcquireReread, Restore, RestoreSnapshot, RestoreFails, UnwindReadsHead,
            UnwindReleases, Run
    <2> QED
        BY <2>1, <2>2
<1>2. CASE Operate(w)
    BY <1>0, <1>2 DEF TypeOK, Operate, SelfFence, Execute, StartFlush, StartCheckpoint,
        StartUpload, Run, Uploaded, UploadedTooLate, UploadFails, FailJob, EndJob, Ready
<1>3. CASE Close(w) \/ HeartbeatFires(w) \/ Crash(w)
    BY <1>0, <1>3 DEF TypeOK, Close, CloseStarts, CloseFenced, CloseFlushes, CloseLapsed,
        CloseReleases, CloseReader, HeartbeatFires, Crash, StartUpload, Run, Drained
<1>4. ASSUME NEW t \in Threads, Commit(w, t), job'[w] = "flush"
      PROVE  job[w] = "flush" /\ buffer'[w] = buffer[w]
    <2>1. job'[w] = job[w]
        BY <1>0, <1>4, CommitMoves
    <2>2. CASE CommitReplaced(w, t) \/ RereadSettles(w, t)
        <3>1. t = "hb"
            BY <1>0, <1>4, <2>1, <2>2, SettledSees, SettledPhase, CommitMoves DEF Threads
        <3>2. UNCHANGED buffer
            BY <2>2, <3>1 DEF CommitReplaced, RereadSettles, Settle, Intent, RenewDone
        <3> QED
            BY <1>4, <2>1, <3>2
    <2>3. CASE ~(CommitReplaced(w, t) \/ RereadSettles(w, t))
        BY <1>4, <2>1, <2>3 DEF Commit, CommitUnsettled, CommitErrors, RereadFenced, RereadRetries,
            RereadGivesUp, RereadErrors, GiveUp
    <2> QED
        BY <2>2, <2>3
<1>5. CASE ~Moves(w)
    BY <1>0, <1>5, WhoMoves, OthersKept DEF Same, StoreDelivers
<1> QED
    BY <1>1, <1>2, <1>3, <1>4, <1>5 DEF Moves

\* A handle that left a commit unproven stays marked.
LEMMA UnprovenStays ==
    ASSUME IInv, [Next]_vars
    PROVE  unproven \subseteq unproven'
<1> USE DEF jobVars, commitVars, leaseVars, dataVars, storeVars
<1>1. ASSUME NEW w \in Instances, NEW t \in Threads, Commit(w, t)
      PROVE  unproven \subseteq unproven'
    BY <1>1 DEF Commit, CommitReplaced, CommitUnsettled, CommitErrors, RereadSettles,
        RereadFenced, RereadRetries, RereadGivesUp, RereadErrors, Settle, GiveUp
<1>2. ASSUME NEW w \in Instances, Operate(w)
      PROVE  UNCHANGED unproven
    BY <1>2 DEF Operate, SelfFence, Execute, StartFlush, StartCheckpoint, StartUpload,
        Uploaded, UploadedTooLate, UploadFails
<1>3. ASSUME NEW w \in Instances, Close(w) \/ HeartbeatFires(w) \/ Crash(w)
      PROVE  UNCHANGED unproven
    BY <1>3 DEF Close, CloseStarts, CloseFenced, CloseFlushes, CloseLapsed, CloseReleases,
        CloseReader, HeartbeatFires, Crash, StartUpload
<1>4. ASSUME NEW w \in Instances, Open(w)
      PROVE  UNCHANGED unproven
    BY <1>4 DEF Open, OpenFindsObject, OpenFindsNothing, OpenReadOnly, OpenCannotReadHead,
        Create, CreatedReadsBack, CreateReread, AcquireRefused, Acquire, AcquireReread,
        Restore, RestoreSnapshot, RestoreFails, UnwindReadsHead, UnwindReleases
<1> QED
    BY <1>1, <1>2, <1>3, <1>4, WhoMoves DEF Moves, StoreDelivers

\* Every step keeps the database of the holder what its log restores.
LEMMA ExactStep ==
    ASSUME LogInv, [Next]_vars, Undisturbed', NEW w \in Instances, NamedOK(w), ExactOK(w)
    PROVE  ExactOK(w)'
<1>0. IInv /\ HoldersOK /\ GInv
    BY DEF LogInv, GInv
<1>1. job'[w] = "flush" => buffer'[w] # <<>>
    BY <1>0, FlushStep DEF ExactOK
<1>2. SUFFICES ASSUME phase'[w] \in Serving, head'.inst = w, w \notin unproven'
               PROVE  Exact(w)'
    BY <1>1 DEF ExactOK
<1>3. CASE phase'[w] = "restoring" /\ cache'[w] = head'
    BY <1>3, ExactEntered
<1>4. CASE ~(phase'[w] = "restoring" /\ cache'[w] = head')
    <2>1. phase[w] \in Serving
        BY <1>2, <1>4, KnownGrows
    <2>2. head.inst = w
        BY <1>0, <1>2, <2>1, ComesToHold, PastNames DEF Serving
    <2>3. Exact(w)
        BY <1>0, <1>2, <2>1, <2>2, UnprovenStays DEF ExactOK
    <2>4. CASE Moves(w)
        <3>1. DataMoves(w)
            BY <1>2, <2>1, <2>2, <2>3, <2>4, FreeMoves, CommitData DEF Moves
        <3> QED
            BY <1>2, <2>1, <2>2, <2>3, <3>1, ExactUnmoved, ExactGrown, ExactSeen DEF DataMoves
    <2>5. CASE ~Moves(w)
        <3>1. /\ job'[w] = job[w] /\ key'[w] = key[w] /\ at'[w] = at[w] /\ cache'[w] = cache[w]
              /\ lockq'[w] = lockq[w] /\ doubt'[w] = doubt[w] /\ phase'[w] = phase[w]
              /\ local'[w] = local[w] /\ buffer'[w] = buffer[w]
            BY <1>0, <2>5, WhoMoves, OthersKept, OthersToo
                DEF Same, SameToo, StoreDelivers, leaseVars, jobVars, commitVars, dataVars
        <3>2. OpStays(w)
            BY <3>1 DEF OpStays, Sending, Committing, Holds
        <3> QED
            BY <1>2, <2>1, <2>2, <2>3, <3>1, <3>2, ExactUnmoved
    <2> QED
        BY <2>4, <2>5
<1> QED
    BY <1>3, <1>4

\* The invariant of what heads name and replay.
XInv == LogInv /\ \A w \in Instances : NamedOK(w) /\ TimeoutOK(w) /\ ExactOK(w)

\* The invariant is inductive.
LEMMA XInvStep == XInv /\ [Next]_vars /\ Undisturbed' => XInv'
BY LogInvStep, NamedKeysStep, TimeoutStep, ExactStep DEF XInv

\* It holds at first.
LEMMA InitX == Init => XInv
<1> SUFFICES ASSUME Init PROVE XInv
    OBVIOUS
<1>1. LogInv
    BY InitLog
<1>2. ASSUME NEW w \in Instances
      PROVE  NamedOK(w) /\ TimeoutOK(w) /\ ExactOK(w)
    BY DEF Init, NamedOK, TimeoutOK, ExactOK, Committing, Serving, Writing
<1> QED
    BY <1>1, <1>2 DEF XInv

------------------------------------------------------------------------------
(* The turns of the handles. *)

\* The statements of each handle come together and in order, each once, those of w
\* last.  A handle that left a commit unproven may have its statements twice.
Orderly(s, w) ==
    \A i, j \in DOMAIN s : i < j =>
        /\ s[i].inst = w => s[j].inst = w
        /\ s[i].inst = s[j].inst =>
              /\ \A k \in i .. j : s[k].inst = s[i].inst
              /\ s[i].inst \notin unproven => s[i].n < s[j].n

\* So does a manifest replay them, those of the handle the head names last.
InTurn(h) == Orderly(Replay(h), h.inst)

\* Nothing is restored that its handle has not executed.
RanOK == \A s \in Restored(head) : s.n <= executed[s.inst]

\* What w saw, and what it has, is in turn; its part of what it saw is committed.
TurnOK(w) ==
    /\ InTurn(cache[w])
    /\ phase[w] \in {"confirming"} \union Writing => Orderly(local[w], w)
    /\ phase[w] \in Serving /\ w \notin unproven =>
         \A s \in Restored(cache[w]) : s.inst = w => s.n <= committed[w]

\* The invariant of the turns.
TInv ==
    /\ XInv
    /\ RInv
    /\ RanOK
    /\ InTurn(head)
    /\ \A w \in Instances : TurnOK(w)
    /\ \A r \in late : InTurn(r.next)

\* More statements of w at the end, later ones, leave it the last turn.
LEMMA OrderlyConcat ==
    ASSUME NEW p \in Seq(Statement), NEW q \in Seq(Statement), NEW w, Orderly(p, w),
           \A i \in DOMAIN q : q[i].inst = w,
           w \notin unproven =>
              /\ \A i, j \in DOMAIN q : i < j => q[i].n < q[j].n
              /\ \A i \in DOMAIN p : p[i].inst = w => \A j \in DOMAIN q : p[i].n < q[j].n
    PROVE  Orderly(p \o q, w)
<1> DEFINE s == p \o q
<1>1. /\ DOMAIN s = 1 .. Len(p) + Len(q) /\ Len(p) \in Nat /\ Len(q) \in Nat
      /\ DOMAIN p = 1 .. Len(p) /\ DOMAIN q = 1 .. Len(q)
      /\ \A i \in 1 .. Len(p) + Len(q) : s[i] = IF i <= Len(p) THEN p[i] ELSE q[i - Len(p)]
    BY ConcatProperties, LenProperties
<1> HIDE DEF s
<1>2. \A i \in 1 .. Len(p) : s[i] = p[i]
    BY <1>1
<1>3. ASSUME NEW i \in DOMAIN s, i > Len(p)
      PROVE  i - Len(p) \in DOMAIN q /\ s[i] = q[i - Len(p)] /\ s[i].inst = w
    <2>1. i - Len(p) \in 1 .. Len(q) /\ ~(i <= Len(p))
        BY <1>1, <1>3
    <2>2. s[i] = q[i - Len(p)]
        BY <1>1, <1>3, <2>1
    <2>3. i - Len(p) \in DOMAIN q
        BY <1>1, <2>1
    <2> QED
        BY <2>2, <2>3
<1>4. ASSUME NEW i \in DOMAIN s, NEW j \in DOMAIN s, i < j
      PROVE  /\ s[i].inst = w => s[j].inst = w
             /\ s[i].inst = s[j].inst =>
                   /\ \A k \in i .. j : s[k].inst = s[i].inst
                   /\ s[i].inst \notin unproven => s[i].n < s[j].n
    <2>1. CASE j <= Len(p)
        <3>1. i \in DOMAIN p /\ j \in DOMAIN p /\ \A k \in i .. j : k \in DOMAIN p /\ s[k] = p[k]
            BY <1>1, <1>2, <1>4, <2>1
        <3> QED
            BY <1>2, <1>4, <1>1, <3>1 DEF Orderly
    <2>2. CASE i > Len(p)
        <3>1. /\ i - Len(p) \in DOMAIN q /\ s[i] = q[i - Len(p)]
              /\ j - Len(p) \in DOMAIN q /\ s[j] = q[j - Len(p)]
              /\ s[i].inst = w /\ s[j].inst = w /\ i - Len(p) < j - Len(p)
            BY <1>1, <1>3, <1>4, <2>2
        <3>2. \A k \in i .. j : k \in DOMAIN s /\ k > Len(p)
            BY <1>1, <1>4, <2>2
        <3>3. \A k \in i .. j : s[k].inst = w
            BY <1>3, <3>2
        <3> QED
            BY <3>1, <3>3
    <2>3. CASE i <= Len(p) /\ j > Len(p)
        <3>1. i \in DOMAIN p /\ s[i] = p[i]
            BY <1>1, <1>2, <2>3
        <3>2. j - Len(p) \in DOMAIN q /\ s[j] = q[j - Len(p)] /\ s[j].inst = w
            BY <1>3, <2>3
        <3>3. ASSUME s[i].inst = w, NEW k \in i .. j PROVE s[k].inst = w
            <4>1. CASE k <= Len(p)
                <5>1. k \in DOMAIN p /\ s[k] = p[k] /\ (k = i \/ i < k)
                    BY <1>1, <1>2, <1>4, <4>1
                <5> QED
                    BY <3>1, <3>3, <5>1 DEF Orderly
            <4>2. CASE k > Len(p)
                <5>1. k \in DOMAIN s
                    BY <1>1, <1>4
                <5> QED
                    BY <1>3, <4>2, <5>1
            <4> QED
                BY <1>1, <1>4, <4>1, <4>2
        <3>4. s[i].inst = w /\ w \notin unproven => s[i].n < s[j].n
            BY <3>1, <3>2
        <3> QED
            BY <3>2, <3>3, <3>4
    <2> QED
        BY <1>1, <1>4, <2>1, <2>2, <2>3
<1> QED
    BY <1>4 DEF Orderly, s

\* The last turn can go to a handle that has had none, or to nobody.
LEMMA OrderlyNext ==
    ASSUME NEW s, NEW v, NEW w, Orderly(s, v), \A i \in DOMAIN s : s[i].inst # w
    PROVE  Orderly(s, w)
BY DEF Orderly

\* What is in turn stays so while nothing is un-doubted.
LEMMA InTurnStays ==
    ASSUME IInv, [Next]_vars, NEW h \in HeadRecord, RefsPresent(h), InTurn(h)
    PROVE  InTurn(h)'
<1>1. Replay(h)' = Replay(h) /\ unproven \subseteq unproven'
    BY ReplayKept, UnprovenStays
<1> QED
    BY <1>1 DEF InTurn, Orderly

\* What a manifest replays are statements, executed by their handles.
LEMMA ReplayRan ==
    ASSUME TInv, NEW w \in Instances
    PROVE  /\ Replay(cache[w]) \in Seq(Statement)
           /\ Of(Replay(cache[w])) = Restored(cache[w])
           /\ \A i \in DOMAIN Replay(cache[w]) :
                 /\ Replay(cache[w])[i] \in Statement
                 /\ Replay(cache[w])[i] \in Restored(cache[w])
                 /\ Replay(cache[w])[i].n <= executed[Replay(cache[w])[i].inst]
<1>1. TypeOK /\ cache[w] \in HeadRecord /\ RefsPresent(cache[w]) /\ PrefixOK(w)
    BY DEF TInv, RInv, LogInv, GInv, IInv, TypeOK, NothingNamedIsMissing
<1>2. Replay(cache[w]) \in Seq(Statement) /\ Of(Replay(cache[w])) = Restored(cache[w])
    BY <1>1, TypeOfReplay, OfReplay
<1>3. \A i \in DOMAIN Replay(cache[w]) : Replay(cache[w])[i] \in Restored(cache[w])
    BY <1>2 DEF Of
<1>4. \A i \in DOMAIN Replay(cache[w]) : Replay(cache[w])[i] \in Statement
    BY <1>2
<1>5. Restored(cache[w]) \subseteq Restored(head)
    BY <1>1 DEF PrefixOK
<1> QED
    BY <1>2, <1>3, <1>4, <1>5 DEF TInv, RanOK

\* A handle that executed nothing has no statement in what it saw.
LEMMA FreshIsAbsent ==
    ASSUME TInv, NEW w \in Instances, executed[w] = 0
    PROVE  /\ \A i \in DOMAIN Replay(cache[w]) : Replay(cache[w])[i].inst # w
           /\ \A s \in Restored(cache[w]) : s.inst # w
<1>1. \A s \in Statement : s.n # 0 /\ s.n \in Nat
    BY DEF Statement
<1>2. ASSUME NEW i \in DOMAIN Replay(cache[w]), Replay(cache[w])[i].inst = w PROVE FALSE
    <2>1. PICK s \in Statement : s = Replay(cache[w])[i] /\ s.n <= executed[s.inst]
        BY ReplayRan
    <2> QED
        BY <1>1, <1>2, <2>1
<1>3. \A s \in Restored(cache[w]) : \E i \in DOMAIN Replay(cache[w]) : s = Replay(cache[w])[i]
    BY ReplayRan DEF Of
<1> QED
    BY <1>2, <1>3

\* What a handle sends replays in turn: a takeover gives the turn to one that has had
\* none, a flush goes on with what the handle saw, a checkpoint is its database.
LEMMA SentInTurn ==
    ASSUME TInv, NEW w \in Instances, NEW e, NEW n, Sends(w, e, n)
    PROVE  InTurn(n)
<1>0. /\ LogInv /\ IInv /\ TypeOK /\ HoldersOK /\ HolderOK(w) /\ CountOK(w) /\ TurnOK(w)
      /\ cache[w] \in HeadRecord /\ RefsPresent(cache[w])
      /\ buffer[w] \in Seq(Statement) /\ committed[w] \in Nat
    BY DEF TInv, RInv, LogInv, GInv, IInv, HoldersOK, NothingNamedIsMissing, TypeOK
<1>1. e = cache[w]
    BY <1>0, SentInst
<1>2. CASE SameManifest(e, n)
    <2>1. Replay(n) = Replay(e) /\ Orderly(Replay(n), e.inst)
        BY <1>0, <1>1, <1>2 DEF SameManifest, Replay, BaseContent, TurnOK, InTurn
    <2>2. CASE n.inst = e.inst
        BY <2>1, <2>2 DEF InTurn
    <2>3. CASE n.inst = Nobody
        <3>1. \A s \in Statement : s.inst # Nobody
            BY NobodyAssumption DEF Statement
        <3>2. \A i \in DOMAIN Replay(n) : Replay(n)[i].inst # Nobody
            BY <1>1, <2>1, <3>1, ReplayRan
        <3> QED
            BY <2>1, <2>3, <3>2, OrderlyNext DEF InTurn
    <2>4. CASE phase[w] \in Asking /\ n.inst = w
        <3>1. executed[w] = 0
            BY <1>0, <2>4 DEF CountOK, Writing, Ended, Asking
        <3>2. \A i \in DOMAIN Replay(n) : Replay(n)[i].inst # w
            BY <1>1, <2>1, <3>1, FreshIsAbsent
        <3> QED
            BY <2>1, <2>4, <3>2, OrderlyNext DEF InTurn
    <2> QED
        BY <1>0, <2>2, <2>3, <2>4, SentInst
<1>3. CASE Publishes(w, e, n)
    <2>1. /\ phase[w] \in Writing /\ phase[w] \notin Ended /\ e.inst = w /\ n.inst = w
          /\ key[w] \in Key /\ at[w]["op"] = "commit" /\ phase[w] \in Serving
        BY <1>0, <1>1, <1>3 DEF Publishes, HolderOK, Holding, IInv, KeyOK, CommitKeyOK, Writing, Ended,
            Serving
    <2>2. CASE job[w] = "flush"
        <3>1. n.base = cache[w].base /\ n.wal = cache[w].wal \o Lines(key[w])
              /\ content[key[w]] = buffer[w]
            BY <1>0, <1>1, <1>3, <2>1, <2>2 DEF Publishes, CountOK
        <3>2. Replay(n) = Replay(cache[w]) \o buffer[w]
            BY <1>0, <2>1, <3>1, ReplayFlush
        <3>3. Orderly(Replay(cache[w]), w)
            BY <1>0, <1>1, <2>1 DEF TurnOK, InTurn
        <3>4. /\ \A i \in DOMAIN buffer[w] : buffer[w][i].inst = w
                                               /\ buffer[w][i].n = committed[w] + i
              /\ DOMAIN buffer[w] \subseteq Nat \ {0}
            <4>1. \A i \in DOMAIN buffer[w] : buffer[w][i] = Nth(w, committed[w] + i)
                BY <1>0, <2>1 DEF CountOK
            <4>2. DOMAIN buffer[w] = 1 .. Len(buffer[w]) /\ Len(buffer[w]) \in Nat
                BY <1>0, LenProperties
            <4>3. \A k : Nth(w, k).inst = w /\ Nth(w, k).n = k
                BY DEF Nth
            <4> QED
                BY <4>1, <4>2, <4>3
        <3>5. /\ Replay(cache[w]) \in Seq(Statement)
              /\ \A i \in DOMAIN Replay(cache[w]) : /\ Replay(cache[w])[i] \in Statement
                                                   /\ Replay(cache[w])[i] \in Restored(cache[w])
            BY ReplayRan
        <3>6. ASSUME w \notin unproven
              PROVE  /\ \A i, j \in DOMAIN buffer[w] : i < j => buffer[w][i].n < buffer[w][j].n
                     /\ \A i \in DOMAIN Replay(cache[w]) : Replay(cache[w])[i].inst = w =>
                           \A j \in DOMAIN buffer[w] : Replay(cache[w])[i].n < buffer[w][j].n
            <4>1. \A i, j \in DOMAIN buffer[w] : i < j => buffer[w][i].n < buffer[w][j].n
                BY <1>0, <3>4
            <4>2. ASSUME NEW i \in DOMAIN Replay(cache[w]), Replay(cache[w])[i].inst = w,
                         NEW j \in DOMAIN buffer[w]
                  PROVE  Replay(cache[w])[i].n < buffer[w][j].n
                <5>1. PICK s \in Statement : s = Replay(cache[w])[i] /\ s.n <= committed[w]
                    BY <1>0, <2>1, <3>5, <3>6, <4>2 DEF TurnOK
                <5>2. s.n \in Nat
                    BY DEF Statement
                <5> QED
                    BY <1>0, <3>4, <5>1, <5>2
            <4> QED
                BY <4>1, <4>2
        <3>7. Orderly(Replay(cache[w]) \o buffer[w], w)
            BY <1>0, <3>3, <3>4, <3>5, <3>6, OrderlyConcat
        <3> QED
            BY <2>1, <3>2, <3>7 DEF InTurn
    <2>3. CASE job[w] = "checkpoint"
        <3>1. n.base = key[w] /\ n.wal = <<>> /\ content[key[w]] = local[w]
            BY <1>0, <1>3, <2>1, <2>3 DEF Publishes, CountOK
        <3>2. Replay(n) = local[w]
            BY <1>0, <2>1, <3>1, ReplayBase
        <3> QED
            BY <1>0, <2>1, <3>2 DEF TurnOK, InTurn
    <2> QED
        BY <1>3, <2>2, <2>3 DEF Publishes
<1> QED
    BY <1>0, <1>2, <1>3, SendsKinds DEF Takes, Gives, Extends

\* The head, and what may yet become one, stay in turn.
LEMMA HeadsTurn ==
    ASSUME TInv, [Next]_vars
    PROVE  /\ \E h \in HeadRecord : h = head' /\ RefsPresent(h) /\ InTurn(h)
           /\ InTurn(head)'
           /\ \A r \in late' : InTurn(r.next)'
<1>0. /\ LogInv /\ IInv /\ HoldersOK /\ head \in HeadRecord /\ RefsPresent(head)
      /\ \A r \in late : r.next \in HeadRecord /\ RefsPresent(r.next)
    BY HeadTypes DEF TInv, RInv, LogInv, GInv, IInv, NothingNamedIsMissing
<1>1. ASSUME NEW w \in Instances, NEW e, NEW n, Sends(w, e, n)
      PROVE  n \in HeadRecord /\ RefsPresent(n) /\ InTurn(n)
    BY <1>0, <1>1, SentInTurn, SentGrows, SendsTypes DEF Grows
<1>2. PICK h \in HeadRecord : h = head' /\ RefsPresent(h) /\ InTurn(h)
    <2>1. head' = head \/ (\E r \in late : r.next = head')
              \/ \E w \in Instances : Sends(w, head, head')
        BY <1>0, HeadComes
    <2> QED
        BY <1>0, <1>1, <2>1 DEF TInv
<1>3. InTurn(head)'
    <2>1. InTurn(h)'
        BY <1>0, <1>2, InTurnStays
    <2> QED
        BY <1>2, <2>1 DEF InTurn, Replay, BaseContent
<1>4. ASSUME NEW r \in late' PROVE InTurn(r.next)'
    <2>1. PICK n \in HeadRecord : n = r.next /\ RefsPresent(n) /\ InTurn(n)
        <3>1. r \in late \/ \E w \in Instances : Sends(w, r.expect, r.next)
            BY <1>0, LateComes
        <3> QED
            BY <1>0, <1>1, <3>1 DEF TInv
    <2>2. InTurn(n)'
        BY <1>0, <2>1, InTurnStays
    <2> QED
        BY <2>1, <2>2
<1> QED
    BY <1>2, <1>3, <1>4

\* Nothing that is not executed comes to be restored.
LEMMA RanStep ==
    ASSUME TInv, [Next]_vars
    PROVE  RanOK'
<1>0. RInv /\ IInv /\ TypeOK /\ head \in HeadRecord /\ RefsPresent(head)
    BY HeadTypes DEF TInv, RInv, LogInv, GInv, IInv, NothingNamedIsMissing
<1>1. PICK k \in Nat, h \in HeadRecord :
         /\ h = head' /\ RefsPresent(h)
         /\ k > 0 => head.inst \in Instances /\ k <= executed[head.inst]
         /\ Restored(h) = Restored(head) \union Mine(head.inst, k)
    BY <1>0, HeadAdds
<1>2. Restored(head)' = Restored(h)
    <2>1. Restored(h)' = Restored(h)
        BY <1>0, <1>1, RestoredKept
    <2> QED
        BY <1>1, <2>1 DEF Restored, BaseContent
<1>3. Restored(head) \subseteq Statement
    BY <1>0, OfReplay, TypeOfReplay DEF Of
<1>4. ASSUME NEW s \in Restored(h) PROVE s.n <= executed'[s.inst]
    <2>1. CASE s \in Restored(head)
        <3>1. s.inst \in Instances /\ s.n \in Nat /\ s.n <= executed[s.inst]
            BY <1>3, <2>1 DEF Statement, TInv, RanOK
        <3>2. /\ executed[s.inst] \in Nat /\ executed'[s.inst] \in Nat
              /\ executed[s.inst] <= executed'[s.inst]
            BY <1>0, <3>1, ExecutedGrows
        <3> QED
            BY <3>1, <3>2
    <2>2. CASE s \in Mine(head.inst, k)
        <3>1. PICK i \in 1 .. k : s = Nth(head.inst, i)
            BY <2>2 DEF Mine
        <3>2. s.inst = head.inst /\ s.n = i /\ k > 0
            BY <3>1 DEF Nth
        <3>3. head.inst \in Instances /\ k <= executed[head.inst]
            BY <1>1, <3>2
        <3>4. /\ executed[head.inst] \in Nat /\ executed'[head.inst] \in Nat
              /\ executed[head.inst] <= executed'[head.inst]
            BY <1>0, <3>3, ExecutedGrows
        <3> QED
            BY <3>2, <3>3, <3>4
    <2> QED
        BY <1>1, <1>4, <2>1, <2>2
<1> QED
    BY <1>2, <1>4 DEF RanOK

\* What a serving handle saw last changes only to a head that names it.
LEMMA SeesOwn ==
    ASSUME LogInv, [Next]_vars, NEW w \in Instances, phase[w] \in Serving,
           phase'[w] \in Serving, cache'[w] # cache[w]
    PROVE  head'.inst = w
<1> USE DEF leaseVars, storeVars
<1>0. IInv /\ TypeOK /\ HoldersOK /\ HolderOK(w)
    BY DEF LogInv, GInv, IInv, HoldersOK
<1>a. \A p \in Serving : p \notin Reading \union Ended
                            \union {"new", "creating", "created", "createReread", "acquiring",
                                    "acquireReread", "unwinding", "unwindRelease"}
    BY DEF Serving, Writing, Reading, Ended
<1>1. Moves(w)
    BY <1>0, WhoMoves, OthersKept DEF Same, StoreDelivers
<1>2. ~Open(w)
    BY <1>0, <1>a DEF Open, OpenFindsObject, OpenFindsNothing, OpenReadOnly, OpenCannotReadHead,
        Create, CreatedReadsBack, CreateReread, AcquireRefused, Acquire, AcquireReread, Restore,
        RestoreSnapshot, RestoreFails, UnwindReadsHead, UnwindReleases, Reading
<1>3. ~(Operate(w) \/ Close(w) \/ HeartbeatFires(w) \/ Crash(w))
    BY DEF Operate, SelfFence, Execute, StartFlush, StartCheckpoint, Uploaded, UploadedTooLate,
        UploadFails, Close, CloseStarts, CloseFenced, CloseFlushes, CloseLapsed, CloseReleases,
        CloseReader, HeartbeatFires, Crash
<1>4. PICK t \in Threads : Commit(w, t)
    BY <1>1, <1>2, <1>3 DEF Moves
<1>5. \/ head.inst = w /\ UNCHANGED <<head, late>>
      \/ cache'[w].inst = cache[w].inst /\ head' = cache'[w]
    <2>1. phase'[w] # "closed"
        BY <1>a DEF Ended
    <2> QED
        BY <1>0, <1>4, <2>1, CommitSees
<1>6. cache[w].inst = w
    <2>1. phase[w] \in Holding
        BY DEF Serving, Holding
    <2> QED
        BY <1>0, <2>1 DEF HolderOK
<1> QED
    BY <1>5, <1>6

\* What a handle comes to see is there to be read, and in turn.
LEMMA SeenHead ==
    ASSUME TInv, [Next]_vars, NEW w \in Instances
    PROVE  \E h \in HeadRecord :
              /\ h = cache'[w] /\ RefsPresent(h) /\ InTurn(h)
              /\ Replay(h) \in Seq(Statement) /\ Of(Replay(h)) = Restored(h)
              /\ Replay(cache[w])' = Replay(h) /\ Restored(cache[w])' = Restored(h)
<1>0. /\ IInv /\ head \in HeadRecord /\ RefsPresent(head)
      /\ cache[w] \in HeadRecord /\ RefsPresent(cache[w])
    BY HeadTypes DEF TInv, RInv, LogInv, GInv, IInv, NothingNamedIsMissing
<1>1. PICK h \in HeadRecord : h = cache'[w] /\ RefsPresent(h) /\ InTurn(h)
    <2>1. cache'[w] = cache[w] \/ cache'[w] = head \/ cache'[w] = head'
        BY <1>0, CachesSee
    <2> QED
        BY <1>0, <2>1, HeadsTurn DEF TInv, TurnOK
<1>2. Replay(h) \in Seq(Statement) /\ Of(Replay(h)) = Restored(h)
    BY <1>0, <1>1, TypeOfReplay, OfReplay DEF IInv
<1>3. Replay(h)' = Replay(h) /\ Restored(h)' = Restored(h)
    BY <1>0, <1>1, ReplayKept, RestoredKept
<1>4. Replay(cache[w])' = Replay(h)' /\ Restored(cache[w])' = Restored(h)'
    BY <1>1 DEF Replay, Restored, BaseContent
<1> QED
    BY <1>1, <1>2, <1>3, <1>4

\* What w saw stays in turn.
LEMMA CacheTurn ==
    ASSUME TInv, [Next]_vars, NEW w \in Instances
    PROVE  InTurn(cache[w])'
<1>1. PICK h \in HeadRecord : h = cache'[w] /\ InTurn(h) /\ Replay(cache[w])' = Replay(h)
    BY SeenHead
<1>2. unproven \subseteq unproven'
    BY UnprovenStays DEF TInv, RInv, LogInv, GInv
<1> QED
    BY <1>1, <1>2 DEF InTurn, Orderly

\* The database of w stays in turn.
LEMMA LocalTurn ==
    ASSUME TInv, [Next]_vars, NEW w \in Instances, phase'[w] \in {"confirming"} \union Writing
    PROVE  Orderly(local[w], w)'
<1>0. /\ RInv /\ LogInv /\ IInv /\ TypeOK /\ HoldersOK /\ HolderOK(w) /\ CountOK(w) /\ TurnOK(w)
      /\ PrefixOK(w) /\ cache[w] \in HeadRecord /\ local[w] \in Seq(Statement)
      /\ executed[w] \in Nat /\ unproven \subseteq unproven'
    BY UnprovenStays DEF TInv, RInv, LogInv, GInv, IInv, HoldersOK, TypeOK
<1>1. PICK s : s = local'[w] /\ Orderly(s, w)
    <2>1. CASE phase[w] \in {"confirming"} \union Writing /\ local'[w] = local[w]
        BY <1>0, <2>1 DEF TurnOK
    <2>2. CASE /\ phase[w] \in {"confirming"} \union Writing
               /\ local'[w] = Append(local[w], Nth(w, executed[w] + 1))
        <3>1. Nth(w, executed[w] + 1) \in Statement
            BY <1>0 DEF Nth, Statement
        <3>2. PICK x \in Statement : x = Nth(w, executed[w] + 1)
            BY <3>1
        <3>3. x.inst = w /\ x.n = executed[w] + 1
            BY <3>2 DEF Nth
        <3>4. local'[w] = local[w] \o <<x>> /\ <<x>> \in Seq(Statement)
            BY <1>0, <2>2, <3>2, AppendIsConcat
        <3>5. ASSUME NEW i \in DOMAIN local[w], local[w][i].inst = w
              PROVE  local[w][i].n < x.n
            <4>1. local[w][i] \in Statement /\ local[w][i] \in Of(local[w])
                BY <1>0 DEF Of
            <4>2. local[w][i] \in Restored(head) \/ local[w][i] \in Mine(w, executed[w])
                BY <1>0, <2>2, <4>1 DEF PrefixOK
            <4>3. local[w][i].n <= executed[w]
                BY <1>0, <3>5, <4>2 DEF TInv, RanOK, Mine, Nth
            <4>4. local[w][i].n \in Nat
                BY <4>1 DEF Statement
            <4> QED
                BY <1>0, <3>3, <4>3, <4>4
        <3>6. DOMAIN <<x>> = {1} /\ <<x>>[1] = x
            OBVIOUS
        <3>7. \A i, j \in DOMAIN <<x>> : ~(i < j)
            BY <3>6
        <3>8. Orderly(local[w], w)
            BY <1>0, <2>2 DEF TurnOK
        <3> HIDE <3>2
        <3>9. Orderly(local[w] \o <<x>>, w)
            BY <1>0, <3>3, <3>4, <3>5, <3>6, <3>7, <3>8, OrderlyConcat
        <3> QED
            BY <3>4, <3>9
    <2>3. CASE phase[w] = "restoring" /\ local'[w] = Replay(cache[w])
        <3>1. executed[w] = 0
            BY <1>0, <2>3 DEF CountOK, Writing, Ended
        <3>2. Orderly(Replay(cache[w]), w)
            BY <1>0, <3>1, FreshIsAbsent, OrderlyNext DEF TurnOK, InTurn
        <3> QED
            BY <2>3, <3>2
    <2> QED
        BY <1>0, <2>1, <2>2, <2>3, LocalChanges
<1> QED
    BY <1>0, <1>1 DEF Orderly

\* What w saw of its own statements stays committed.
LEMMA SeenCommitted ==
    ASSUME TInv, [Next]_vars, Undisturbed', NEW w \in Instances, phase'[w] \in Serving, w \notin unproven',
           NEW s \in Restored(cache[w])', s.inst = w
    PROVE  s.n <= committed'[w]
<1>0. /\ XInv /\ RInv /\ LogInv /\ IInv /\ TypeOK /\ cache[w] \in HeadRecord
      /\ RefsPresent(cache[w]) /\ TurnOK(w) /\ w \notin unproven
    BY UnprovenStays DEF TInv, RInv, LogInv, GInv, IInv, TypeOK, NothingNamedIsMissing
<1>1. /\ XInv' /\ RInv' /\ LogInv' /\ TypeOK' /\ CountOK(w)' /\ ExactOK(w)' /\ RanOK' /\ PrefixOK(w)'
      /\ cache'[w] \in HeadRecord /\ RefsPresent(cache[w])'
      /\ buffer'[w] \in Seq(Statement) /\ committed'[w] \in Nat /\ executed'[w] \in Nat
    <2>1. XInv' /\ RInv' /\ RanOK'
        BY XInvStep, RInvStep, RanStep DEF TInv
    <2>2. LogInv' /\ IInv' /\ CountOK(w)' /\ ExactOK(w)' /\ PrefixOK(w)'
        BY <2>1 DEF XInv, RInv, LogInv, GInv
    <2>3. TypeOK' /\ RefsPresent(cache[w])'
        BY <2>2 DEF IInv, NothingNamedIsMissing
    <2> QED
        BY <2>1, <2>2, <2>3 DEF TypeOK
<1>2. Replay(cache[w])' \in Seq(Statement) /\ Of(Replay(cache[w]))' = Restored(cache[w])'
    <2>1. PICK h \in HeadRecord :
             /\ Replay(h) \in Seq(Statement) /\ Of(Replay(h)) = Restored(h)
             /\ Replay(cache[w])' = Replay(h) /\ Restored(cache[w])' = Restored(h)
        BY SeenHead
    <2> QED
        BY <2>1 DEF Of
<1>3. s \in Statement /\ s.n \in Nat
    <2>1. PICK i \in DOMAIN Replay(cache[w])' : s = Replay(cache[w])'[i]
        BY <1>2 DEF Of
    <2>2. s \in Statement
        BY <1>2, <2>1
    <2> QED
        BY <2>2 DEF Statement
<1>4. s.n <= executed'[w]
    BY <1>1, <1>3 DEF PrefixOK, RanOK
<1>5. CASE phase'[w] = "restoring"
    <2>1. executed'[w] = 0
        BY <1>1, <1>5 DEF CountOK, Writing, Ended
    <2> QED
        BY <1>1, <1>3, <1>4, <2>1
<1>6. CASE phase'[w] # "restoring" /\ cache'[w] = cache[w]
    <2>1. phase[w] \in Serving
        BY <1>0, <1>6, KnownGrows
    <2>2. s \in Restored(cache[w])
        <3>1. PICK h \in HeadRecord : h = cache[w] /\ RefsPresent(h)
            BY <1>0
        <3>2. Restored(h)' = Restored(h)
            BY <1>0, <3>1, RestoredKept
        <3>3. Restored(cache[w])' = Restored(h)'
            BY <1>6, <3>1 DEF Restored, BaseContent
        <3> QED
            BY <3>1, <3>2, <3>3
    <2>3. s.n <= committed[w]
        BY <1>0, <2>1, <2>2 DEF TurnOK
    <2>4. committed[w] \in Nat /\ committed[w] <= committed'[w]
        BY <1>0, ToldMoves
    <2> QED
        BY <1>1, <1>3, <2>3, <2>4
<1>7. CASE phase'[w] # "restoring" /\ cache'[w] # cache[w]
    <2>1. phase[w] \in Serving
        BY <1>0, <1>7, KnownGrows
    <2>2. head'.inst = w
        BY <1>0, <1>7, <2>1, SeesOwn
    <2>3. local'[w] = Replay(cache[w])' \o buffer'[w]
        BY <1>1, <1>7, <2>2 DEF ExactOK, Exact
    <2>4. /\ executed'[w] = committed'[w] + Len(buffer'[w])
          /\ \A i \in DOMAIN buffer'[w] : buffer'[w][i] = Nth(w, committed'[w] + i)
        BY <1>1 DEF CountOK, Serving, Writing, Ended
    <2>5. CASE buffer'[w] = <<>>
        <3>1. Len(buffer'[w]) = 0
            BY <2>5
        <3> QED
            BY <1>1, <1>4, <2>4, <3>1
    <2>6. CASE buffer'[w] # <<>>
        <3> DEFINE p == Replay(cache[w])'
                   q == buffer'[w]
        <3>1. \A i, j \in DOMAIN (p \o q) :
                 i < j /\ (p \o q)[i].inst = (p \o q)[j].inst /\ (p \o q)[i].inst \notin unproven'
                    => (p \o q)[i].n < (p \o q)[j].n
            <4>1. Orderly(local[w], w)'
                BY <1>7, LocalTurn DEF Serving
            <4>2. PICK r : r = local'[w]
                OBVIOUS
            <4>3. \A i, j \in DOMAIN r :
                     i < j /\ r[i].inst = r[j].inst /\ r[i].inst \notin unproven' => r[i].n < r[j].n
                BY <4>1, <4>2 DEF Orderly
            <4>4. r = p \o q
                BY <2>3, <4>2
            <4> QED
                BY <4>3, <4>4
        <3>2. /\ p \in Seq(Statement) /\ q \in Seq(Statement) /\ q # <<>>
              /\ q[1] = Nth(w, committed'[w] + 1)
            BY <1>1, <1>2, <2>4, <2>6, EmptySeq, LenProperties
        <3>3. PICK i \in DOMAIN p : p[i] = s
            BY <1>2 DEF Of
        <3> HIDE DEF p, q
        <3>4. /\ Len(p) \in Nat /\ Len(q) \in Nat /\ Len(q) # 0 /\ DOMAIN p = 1 .. Len(p)
              /\ i \in DOMAIN (p \o q) /\ (p \o q)[i] = p[i]
              /\ Len(p) + 1 \in DOMAIN (p \o q) /\ (p \o q)[Len(p) + 1] = q[1]
            BY <3>2, ConcatProperties, LenProperties, EmptySeq
        <3>5. q[1].inst = w /\ q[1].n = committed'[w] + 1
            BY <3>2 DEF Nth
        <3>6. p[i].n < q[1].n
            BY <3>1, <3>3, <3>4, <3>5
        <3> QED
            BY <1>1, <1>3, <3>3, <3>5, <3>6
    <2> QED
        BY <2>5, <2>6
<1> QED
    BY <1>5, <1>6, <1>7

\* The invariant of the turns is inductive.
LEMMA TInvStep == TInv /\ [Next]_vars /\ Undisturbed' => TInv'
<1> SUFFICES ASSUME TInv, [Next]_vars, Undisturbed'
             PROVE  TInv'
    OBVIOUS
<1>1. XInv' /\ RInv'
    BY XInvStep, RInvStep DEF TInv
<1>2. ASSUME NEW w \in Instances PROVE TurnOK(w)'
    BY CacheTurn, LocalTurn, SeenCommitted DEF TurnOK
<1> QED
    BY <1>1, <1>2, HeadsTurn, RanStep DEF TInv

\* It holds at first.
LEMMA InitT == Init => TInv
<1> SUFFICES ASSUME Init
             PROVE  TInv
    OBVIOUS
<1>1. XInv /\ RInv
    BY InitX, InitR
<1>2. ASSUME NEW h, h.base = NoBase, h.wal = <<>>
      PROVE  Replay(h) = <<>> /\ Restored(h) = {}
    <2>1. Replay(h) = <<>> \o [i \in 1 .. 0 |-> content[h.wal[i].key][h.wal[i].line]]
        BY <1>2 DEF Replay, BaseContent
    <2>2. Restored(h) = {}
        BY <1>2 DEF Restored, BaseContent, Of
    <2> QED
        BY <2>1, <2>2
<1>3. /\ head.base = NoBase /\ head.wal = <<>> /\ late = {}
      /\ \A w \in Instances : phase[w] = "new" /\ cache[w].base = NoBase /\ cache[w].wal = <<>>
    BY DEF Init, StoreInit, Released, Absent, WithLease
<1>4. RanOK /\ InTurn(head)
    BY <1>2, <1>3 DEF RanOK, InTurn, Orderly
<1>5. \A w \in Instances : TurnOK(w)
    BY <1>2, <1>3 DEF TurnOK, InTurn, Orderly, Serving, Writing
<1> QED
    BY <1>1, <1>3, <1>4, <1>5 DEF TInv

------------------------------------------------------------------------------
(* The theorems. *)

\* At any moment, for any number of handles and any faults: a
\* commit that commitHead reported as `timeout` is in no head, and no request still
\* under way will put it in one.
THEOREM TimeoutsAreNotCommitted == Spec /\ Unraced => []TimeoutMeansNotCommitted
<1>1. XInv => TimeoutMeansNotCommitted
    BY DEF XInv, TimeoutOK, Unnamed, Names, TimeoutMeansNotCommitted
<1> QED
    BY <1>1, InitX, XInvStep, NobodyComesBetween, PTL DEF Spec

\* At any moment: what the head of an object replays is the database of the handle
\* that holds the lease and has no operation running, less what it has not flushed.
THEOREM ReplayRebuildsTheHolder == Spec /\ Unraced => []ReplayIsExact
<1>1. ASSUME XInv, NEW w \in Instances \ unproven, head.inst = w, phase[w] \in Writing,
             job[w] = "none"
      PROVE  local[w] = Replay(head) \o buffer[w]
    <2>1. Exact(w) /\ ~Sending(w) /\ phase[w] # "restoring"
        BY <1>1 DEF XInv, ExactOK, Serving, Writing, Sending, Committing
    <2>2. SameManifest(cache[w], head)
        BY <2>1 DEF Exact
    <2> QED
        BY <2>1, <2>2 DEF Exact, SameManifest, Replay, BaseContent
<1>2. XInv => ReplayIsExact
    BY <1>1 DEF ReplayIsExact
<1> QED
    BY <1>2, InitX, XInvStep, NobodyComesBetween, PTL DEF Spec

\* At any moment: the head of an object replays its handles one after the other, each
\* one's statements together and in the order it ran them, and none twice but those of a
\* handle that left a commit unproven.
THEOREM HandlesReplayInTurn == Spec /\ Unraced => []ReplayTakesTurns
<1>1. TInv => ReplayTakesTurns
    BY DEF TInv, InTurn, Orderly, ReplayTakesTurns
<1> QED
    BY <1>1, InitT, TInvStep, NobodyComesBetween, PTL DEF Spec

=============================================================================
