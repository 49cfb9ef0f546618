----------------------------- MODULE ObjectStore -----------------------------
(***************************************************************************)
(* The remote side of a durable object: one mutable key (head.json) that   *)
(* is only ever created if absent or replaced by compare-and-swap, and     *)
(* immutable objects (WAL segments, base checkpoints) that are only ever   *)
(* created.  This is the contract src/durable/backend.ts states; nothing   *)
(* in it can delete an object, so nothing here does.                       *)
(*                                                                         *)
(* Abstractions.                                                           *)
(*  - An ETag stands for the content of the head it was issued for, as a   *)
(*    content-hash ETag does; comparing heads is comparing ETags.  The     *)
(*    `raw` JSON, the engine block and the protocol block ride along with  *)
(*    the head and no property looks at them.                              *)
(*  - A WAL segment reference is expanded into one entry per statement of  *)
(*    the segment: the segment's key and the line number in it.            *)
(*  - A key carries the instance that minted it and a number: what the     *)
(*    random suffix gives the code is that no key is minted twice.         *)
(*  - lease.owner and lease.instance are null together and never apart,    *)
(*    so one field stands for both; a null expires_at is 0.                *)
(***************************************************************************)
EXTENDS Naturals, Sequences, FiniteSets

CONSTANTS
    Instances,      \* the DurableObject instances, one per open() call
    Nobody,         \* lease.instance = null
    NoBase,         \* manifest.base = null
    MaxUploads,     \* bound: uploads an instance lands before it closes
    MaxLate,        \* bound: head writes under way at one time
    ColdStart,      \* TRUE: head.json does not exist yet
    Faults          \* which failures the store may answer with

ASSUME NobodyAssumption  == Nobody \notin Instances
ASSUME UploadsAssumption == MaxUploads \in Nat
ASSUME ColdAssumption    == ColdStart \in BOOLEAN

Key       == [inst : Instances, n : 1 .. MaxUploads + 1]
Statement == [inst : Instances, n : Nat \ {0}]
Line      == [key : Key, line : Nat \ {0}]

HeadRecord ==
    [gen  : Nat,                        \* lease.generation
     inst : Instances \union {Nobody},  \* lease.instance
     exp  : Nat,                        \* lease.expires_at
     base : Key \union {NoBase},        \* manifest.base
     wal  : Seq(Line),                  \* manifest.wal, one entry per statement
     seq  : Nat]                        \* manifest.seq

ASSUME NoBaseAssumption == NoBase \notin Key

\* A head with another lease, and a head with another manifest: everything a
\* writer is not changing is carried over, and every new manifest counts.
WithLease(h, gen, inst, exp) == [h EXCEPT !.gen = gen, !.inst = inst, !.exp = exp]
WithManifest(h, base, wal)   == [h EXCEPT !.base = base, !.wal = wal, !.seq = h.seq + 1]

\* No head.json: a real head never has generation 0, because the write that
\* creates the object takes generation 1 in the same breath.
Absent == [gen |-> 0, inst |-> Nobody, exp |-> 0, base |-> NoBase,
           wal |-> <<>>, seq |-> 0]

\* The head a created and cleanly closed object is left with.
Released == WithLease(Absent, 1, Nobody, 0)

VARIABLES
    head,       \* head.json
    published,  \* the keys of the immutable objects that exist
    content,    \* what each of them holds: the statements it replays
    late        \* head writes whose caller gave up on the answer

storeVars == <<head, published, content, late>>

StoreInit ==
    /\ head = IF ColdStart THEN Absent ELSE Released
    /\ published = {}
    /\ content = [k \in Key |-> <<>>]
    /\ late = {}

------------------------------------------------------------------------------
(* Reading a manifest back. *)

BaseContent(h) == IF h.base = NoBase THEN <<>> ELSE content[h.base]

\* Everything the manifest names is there to be read.
RefsPresent(h) ==
    /\ h.base = NoBase \/ h.base \in published
    /\ \A i \in DOMAIN h.wal :
         /\ h.wal[i].key \in published
         /\ h.wal[i].line \in DOMAIN content[h.wal[i].key]

\* What restoreInto() rebuilds from a manifest: the base, then the WAL in order.
Replay(h) ==
    BaseContent(h) \o
        [i \in 1 .. Len(h.wal) |-> content[h.wal[i].key][h.wal[i].line]]

------------------------------------------------------------------------------
(* Conditional writes of the head. *)

\* Mutant of Matches: a store that swaps without comparing.
MatchesAnything(expect) == TRUE

\* The compare of the compare-and-swap.
Matches(expect) == head = expect

\* A head write as the store receives it.
Write(expect, next) == [expect |-> expect, next |-> next]

Answers == {"replaced", "not-replaced", "ambiguous", "error"}

\* What a conditional head write may do to the store, with the answer its caller
\* gets.  Creating head.json is the same write with expect = Absent.
\*  - "lost": a timeout or a 5xx, whether or not the write landed before it; and
\*    an SDK retry that turns a write that landed into a precondition failure.
\*  - "late": the client times out while the request is still on its way.
\*  - "error": the backend throws, before the write or (the local backend, once
\*    the version file is linked) after it.
HeadWrite(expect, next, answer) ==
    /\ UNCHANGED <<published, content>>
    /\ \/ /\ answer = "replaced"
          /\ Matches(expect)
          /\ head' = next
          /\ UNCHANGED late
       \/ /\ answer = "not-replaced"
          /\ ~Matches(expect)
          /\ UNCHANGED <<head, late>>
       \/ /\ answer \in {"ambiguous", "not-replaced"}
          /\ "lost" \in Faults
          /\ Matches(expect)
          /\ head' = next
          /\ UNCHANGED late
       \/ /\ answer = "ambiguous"
          /\ "lost" \in Faults
          /\ UNCHANGED <<head, late>>
       \/ /\ answer = "ambiguous"
          /\ "late" \in Faults
          /\ Cardinality(late) < MaxLate
          /\ late' = late \union {Write(expect, next)}
          /\ UNCHANGED head
       \/ /\ answer = "error"
          /\ "error" \in Faults
          /\ head' \in {head} \union (IF Matches(expect) THEN {next} ELSE {})
          /\ UNCHANGED late

\* A write whose client stopped waiting reaches the store after all: it still
\* is conditional on the ETag it was sent with.
LateWriteArrives ==
    \E r \in late :
        /\ late' = late \ {r}
        /\ head' = IF Matches(r.expect) THEN r.next ELSE head
        /\ UNCHANGED <<published, content>>

\* The store takes an immutable object under a key nobody else mints.
Publish(key, statements) ==
    /\ published' = published \union {key}
    /\ content' = [content EXCEPT ![key] = statements]
    /\ UNCHANGED <<head, late>>

=============================================================================
