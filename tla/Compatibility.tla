----------------------------- MODULE Compatibility -----------------------------
(***************************************************************************)
(* Who may open a durable object: src/src/durable/version.ts, negotiate.ts *)
(* and the parts of head.ts and object.ts that call them.  Engines of      *)
(* several releases open, write, checkpoint and hand over one object.      *)
(*                                                                         *)
(* A version is what the parser makes of it: the numbers of the release    *)
(* and the identifiers of the pre-release, <<"number", n>> or              *)
(* <<"name", place in the alphabet>>.  A field a head leaves out is Missing; *)
(* a version no parser understands is Unparsed.                            *)
(***************************************************************************)
EXTENDS Integers, Sequences, FiniteSets

CONSTANTS
    Engines,    \* sequence of [version, format, rank]; rank is the documented order of releases
    Missing, Unparsed,
    Heads,      \* what the object may start from: [head, wrote], wrote the places in Engines of its writers
    Crews,      \* sets of places in Engines: the engines that come to one object
    MaxWrites   \* bound: writes of the head

ASSUME MaxWritesAssumption == MaxWrites \in Nat

VARIABLES
    head,       \* head.json: Missing, or a record whose engine and protocol fields may be Missing
    wrote,      \* engines whose output the manifest names
    ever,       \* engines that ever wrote the head
    etag,       \* the head's compare-and-swap token
    opening,    \* [handle -> "away" | "idle" | "gated" | "created" | "open" | "reading"]
    seen,       \* the token of the head a gated open means to replace, or of the one an open handle has
    raced,      \* an open went on with a head it read again, past the gates
    restored    \* what an open handle restored

compatVars == <<head, wrote, ever, etag, opening, seen, raced, restored>>

Handles == DOMAIN Engines
Nobody == 0
Protocol == 1
Baseline == 1

\* Archive formats are counted from 1.
ASSUME EnginesAssumption ==
    \A e \in Handles :
        /\ Engines[e].version # Missing
        /\ Engines[e].format \in Nat \ {0} /\ Engines[e].format # Missing
        /\ Engines[e].rank \in Nat

-----------------------------------------------------------------------------
(* Release precedence.                                                     *)

\* comparePrerelease: the identifier x precedes y.
Precedes(x, y) == IF x[1] = y[1] THEN x[2] < y[2] ELSE x[1] = "number"

Larger(a, b) == IF a >= b THEN a ELSE b
Component(release, i) == IF i <= Len(release) THEN release[i] ELSE 0

\* The first of the places where two lists differ; Nobody if there is none.
FirstDifference(places) ==
    IF places = {} THEN Nobody ELSE CHOOSE i \in places : \A j \in places : i <= j

\* A list that is a prefix of the other precedes it.
PrereleaseBefore(a, b) ==
    LET n == IF Len(a) < Len(b) THEN Len(a) ELSE Len(b)
        i == FirstDifference({j \in 1 .. n : a[j] # b[j]})
    IN  IF i = Nobody THEN Len(a) < Len(b) ELSE Precedes(a[i], b[i])

\* comparePrecedence(a, b) < 0: a missing component is 0, and no pre-release outranks any.
Before(a, b) ==
    LET i == FirstDifference({j \in 1 .. Larger(Len(a.release), Len(b.release)) :
                                 Component(a.release, j) # Component(b.release, j)})
    IN  IF i # Nobody THEN Component(a.release, i) < Component(b.release, i)
        ELSE IF a.prerelease = <<>> THEN FALSE
        ELSE IF b.prerelease = <<>> THEN TRUE
        ELSE PrereleaseBefore(a.prerelease, b.prerelease)

Comparable(a, b) == a # Unparsed /\ b # Unparsed

\* maxEngineVersion
Later(a, b) == IF Before(a, b) THEN b ELSE a

-----------------------------------------------------------------------------
(* The gates.                                                              *)

\* parseEngine and parseProtocol: what an absent field stands for.
Default(value, otherwise) == IF value = Missing THEN otherwise ELSE value
MinReader(h) == Default(h.minReader, h.version)
Format(h) == Default(h.format, Baseline)
ProtocolVersion(h) == Default(h.protocol, Protocol)

Readable(h) == ProtocolVersion(h) <= Protocol /\ h.readerFeatures = {}
Writable(h) == h.writerFeatures = {}

EngineCompatible(h, e) ==
    /\ h.engine = "chdb"
    /\ Format(h) <= Engines[e].format
    /\ Comparable(Engines[e].version, MinReader(h))
    /\ ~Before(Engines[e].version, MinReader(h))

Gates(h, e) == Readable(h) /\ EngineCompatible(h, e)

\* parseHead: the fields of a head, of whatever revision.
Released == {Engines[e].version : e \in Handles}
Recorded ==
    [protocol : Nat \cup {Missing}, readerFeatures : SUBSET STRING, writerFeatures : SUBSET STRING,
     engine : {"chdb", "other"}, version : Released, minReader : Released \cup {Missing}, format : Nat \cup {Missing},
     lease : Handles \cup {Nobody}]

\* An object starts empty or as one engine left it, declaring what that engine's output needs.
ASSUME HeadsAssumption ==
    /\ Missing \notin Recorded
    /\ \A start \in Heads :
          IF start.head = Missing THEN start.wrote = {}
          ELSE /\ start.head \in Recorded
               /\ \E g \in Handles : /\ start.wrote = {g}
                                     /\ MinReader(start.head) = Engines[g].version
                                     /\ Format(start.head) = Engines[g].format

ColdHead(e) ==
    [protocol |-> Protocol, readerFeatures |-> {}, writerFeatures |-> {}, engine |-> "chdb",
     version |-> Engines[e].version, minReader |-> Engines[e].version, format |-> Engines[e].format,
     lease |-> e]

\* Mutant of RaiseCompatibilityFloor: the writer's own requirement replaces the recorded one.
FloorOverwritten(h, e) ==
    [h EXCEPT !.version = Engines[e].version, !.format = Engines[e].format, !.minReader = Engines[e].version]

\* raiseCompatibilityFloor: on every head a handle writes.
RaiseCompatibilityFloor(h, e) ==
    [h EXCEPT !.version = Engines[e].version,
              !.format = Larger(Format(h), Engines[e].format),
              !.minReader = Later(MinReader(h), Engines[e].version)]

-----------------------------------------------------------------------------
(* Opens and writes.                                                       *)

CompatInit(heads, crews) ==
    /\ \E start \in heads : head = start.head /\ wrote = start.wrote /\ ever = start.wrote
    /\ etag = 1
    /\ \E crew \in crews : opening = [e \in Handles |-> IF e \in crew THEN "idle" ELSE "away"]
    /\ seen = [e \in Handles |-> 0]
    /\ raced = [e \in Handles |-> FALSE]
    /\ restored = [e \in Handles |-> {}]

\* The handle is gone, and what it knew with it.
Gone(e) ==
    /\ opening' = [opening EXCEPT ![e] = "idle"]
    /\ seen' = [seen EXCEPT ![e] = 0]
    /\ raced' = [raced EXCEPT ![e] = FALSE]
    /\ restored' = [restored EXCEPT ![e] = {}]

Put(h) == etag < MaxWrites /\ head' = h /\ etag' = etag + 1

\* open() up to its first write: existing heads pass the gates before anything is claimed.
Gate(e) ==
    /\ opening[e] = "idle"
    /\ head # Missing => Gates(head, e) /\ Writable(head)
    /\ opening' = [opening EXCEPT ![e] = "gated"]
    /\ seen' = [seen EXCEPT ![e] = IF head = Missing THEN 0 ELSE etag]
    /\ UNCHANGED <<head, wrote, ever, etag, raced, restored>>

OpenReadOnly(e) ==
    /\ opening[e] = "idle" /\ head # Missing /\ Gates(head, e)
    /\ opening' = [opening EXCEPT ![e] = "reading"]
    /\ restored' = [restored EXCEPT ![e] = wrote]
    /\ UNCHANGED <<head, wrote, ever, etag, seen, raced>>

\* createCold: the conditional create wins, or the head that won it is gated in its turn.
CreateCold(e) ==
    /\ opening[e] = "gated" /\ seen[e] = 0 /\ head = Missing
    /\ Put(ColdHead(e))
    /\ ever' = ever \cup {e}
    /\ opening' = [opening EXCEPT ![e] = "created"]
    /\ seen' = [seen EXCEPT ![e] = etag']
    /\ UNCHANGED <<wrote, raced, restored>>

\* The head is read back, and taken for what was created whatever it is by now.
CreatedReadsBack(e) ==
    /\ opening[e] = "created"
    /\ opening' = [opening EXCEPT ![e] = "open"]
    /\ seen' = [seen EXCEPT ![e] = etag]
    /\ raced' = [raced EXCEPT ![e] = seen[e] # etag]
    /\ restored' = [restored EXCEPT ![e] = wrote]
    /\ UNCHANGED <<head, wrote, ever, etag>>

CreateLost(e) ==
    /\ opening[e] = "gated" /\ seen[e] = 0 /\ head # Missing
    /\ IF Gates(head, e) /\ Writable(head)
         THEN seen' = [seen EXCEPT ![e] = etag] /\ UNCHANGED <<opening, raced, restored>>
         ELSE Gone(e)
    /\ UNCHANGED <<head, wrote, ever, etag>>

\* acquireLease, on the head it read: a held lease is taken only once expired, or by force.
Acquire(e) ==
    /\ opening[e] = "gated" /\ seen[e] = etag
    /\ Put([head EXCEPT !.lease = e])
    /\ ever' = ever \cup {e}
    /\ opening' = [opening EXCEPT ![e] = "open"]
    /\ seen' = [seen EXCEPT ![e] = etag']
    /\ restored' = [restored EXCEPT ![e] = wrote]
    /\ UNCHANGED <<wrote, raced>>

\* The replace lost: the head is read again and the loop goes round with it.
AcquireLost(e) ==
    /\ opening[e] = "gated" /\ seen[e] \notin {0, etag}
    /\ seen' = [seen EXCEPT ![e] = etag]
    /\ raced' = [raced EXCEPT ![e] = TRUE]
    /\ UNCHANGED <<head, wrote, ever, etag, opening, restored>>

\* lease_held, or out of attempts.
GiveUp(e) ==
    /\ opening[e] = "gated" /\ head # Missing
    /\ Gone(e)
    /\ UNCHANGED <<head, wrote, ever, etag>>

\* The compare-and-swap of commitHead: the holder goes on with a head read again, any other only with its own.
Owns(e) == head.lease = e \/ seen[e] = etag

\* commitHead; an engine whose version cannot be ordered cannot write a head.
Commit(e, lease, written) ==
    /\ opening[e] = "open" /\ Owns(e)
    /\ Comparable(MinReader(head), Engines[e].version)
    /\ Put([RaiseCompatibilityFloor(head, e) EXCEPT !.lease = lease])
    /\ ever' = ever \cup {e}
    /\ wrote' = written

\* The handle goes on with the head it wrote, whose lease is as it was.
Continues(e, written) ==
    /\ Commit(e, head.lease, written)
    /\ seen' = [seen EXCEPT ![e] = etag']
    /\ UNCHANGED <<opening, raced, restored>>

Renew(e) == Continues(e, wrote)
Flush(e) == Continues(e, wrote \cup {e})
Checkpoint(e) == Continues(e, {e})
CloseWriter(e) == Commit(e, Nobody, wrote) /\ Gone(e)

\* A reader closes, a writer that lost its lease is fenced, a process dies.
Leave(e) ==
    /\ opening[e] \in {"created", "open", "reading"}
    /\ Gone(e)
    /\ UNCHANGED <<head, wrote, ever, etag>>

CompatNext ==
    \E e \in Handles :
        \/ Gate(e) \/ OpenReadOnly(e) \/ CreateCold(e) \/ CreatedReadsBack(e) \/ CreateLost(e)
        \/ Acquire(e) \/ AcquireLost(e) \/ GiveUp(e) \/ Renew(e) \/ Flush(e) \/ Checkpoint(e) \/ CloseWriter(e) \/ Leave(e)

CompatSpec == CompatInit(Heads, Crews) /\ [][CompatNext]_compatVars

-----------------------------------------------------------------------------
(* Properties.                                                             *)

\* e restores what w produced: it is as late by the documented order, and knows w's archive format.
Restores(e, w) == Engines[w].rank <= Engines[e].rank /\ Engines[w].format <= Engines[e].format

Parsed(e) == Engines[e].version # Unparsed

\* comparePrecedence puts the releases that meet in their documented order.
OrderAsDocumented ==
    \A d, e \in Handles :
        Parsed(d) /\ Parsed(e) =>
            (Before(Engines[d].version, Engines[e].version) <=> Engines[d].rank < Engines[e].rank)

\* Across opens, takeovers, flushes and checkpoints by engines of several releases, an open that neither lost
\* a race for the lease nor was overtaken between creating the object and reading it back restores only what
\* its engine can; the head goes on declaring what its bytes need,
\* also when an older engine is the one that writes it; and no engine as late as all its writers is refused.
FloorCoversTheBytes ==
    /\ \A e \in Handles : opening[e] \in {"open", "reading"} /\ ~raced[e] =>
          \A w \in restored[e] : Restores(e, w)
    /\ head # Missing =>
          \A e \in Handles : EngineCompatible(head, e) => \A w \in wrote : Restores(e, w)
    /\ head # Missing /\ head.engine = "chdb" /\ (\A w \in ever : Parsed(w)) =>
          \A e \in Handles : Parsed(e) /\ (\A w \in ever : Restores(e, w)) => EngineCompatible(head, e)

\* Compatibility is settled before anything is claimed: whoever holds the lease passed the gates on that head.
ClaimsOnlyWhatItCanRead ==
    \A e \in Handles : opening[e] = "open" /\ head.lease = e => \A w \in restored[e] : Restores(e, w)
=============================================================================
