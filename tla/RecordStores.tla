----------------------------- MODULE RecordStores -----------------------------
(***************************************************************************)
(* The Mastra adapters: src/integrations/chdb-store.mjs (threads, messages *)
(* and spans) and chdb-vector.mjs.  Each keeps whole records as rows of a  *)
(* ReplacingMergeTree: an insert never changes a row, a read with FINAL    *)
(* takes the row of the highest version, and an update reads the record,   *)
(* awaits, merges its patch and inserts the outcome.  A delete takes the   *)
(* rows its condition selects, newest or not.                              *)
(*                                                                         *)
(* A record is the group it is deleted with (the threadId of a message,    *)
(* the metadata value of a vector) and the list of the patches it carries. *)
(* A call on several records is a call on each.  The engine is external:   *)
(* rows are merged away at any time, and an insert lands some time after   *)
(* it is handed over.                                                      *)
(***************************************************************************)
EXTENDS Integers, Sequences

CONSTANTS
    Threads, Messages, Spans, Vectors,  \* ids
    Groups,     \* values of a message's threadId and of the metadata deletes select on
    None,       \* no group, no id
    Callers,    \* callers of the adapters, each awaiting its call
    MaxWork,   \* bound: saves and updates
    MaxClock    \* bound: values of Date.now()

Records == Threads \cup Messages \cup Spans \cup Vectors

ASSUME RecordsAssumption ==
    /\ None \notin Records \cup Groups
    /\ MaxWork \in Nat /\ MaxClock \in Nat \ {0}
    /\ \A A, B \in {Threads, Messages, Spans, Vectors} : A # B => A \cap B = {}

VARIABLES
    rows,       \* the rows of the tables: [id, version, place, content], place telling which came later
    inserted,   \* how many rows were inserted
    now,        \* Date.now()
    awaited,    \* [caller -> the call it awaits]
    next,       \* number of the next save or update
    meant,      \* [id -> what the calls on it, one after the other, leave it with]
    overlapped, \* history: ids that had two calls at a time
    ahead,      \* history: ids that had a version later than the clock
    moved,      \* history: ids whose group a call changed
    returned    \* history: ids deleted by a group after that

engineVars == <<rows, inserted>>
historyVars == <<meant, overlapped, ahead, moved, returned>>
storeVars == <<engineVars, now, awaited, next, historyVars>>

Blank == [group |-> None, patches |-> <<>>]
Idle == [phase |-> "idle", id |-> None, how |-> "save", version |-> 0, patch |-> [n |-> 0, group |-> None],
         base |-> Blank]

\* The groups a record can be in: a thread and a span are in none that a delete selects on.
GroupsOf(id) == IF id \in Messages \cup Vectors THEN Groups ELSE {None}

-----------------------------------------------------------------------------
(* The engine.                                                             *)

RowsOf(id) == {r \in rows : r.id = id}

\* The higher version replaces the lower, and of equals the one inserted last.
Replaces(s, r) == s.version > r.version \/ (s.version = r.version /\ s.place > r.place)

\* Mutant of Latest: a read without FINAL meets a row that no merge has replaced yet.
FirstOf(id) ==
    IF RowsOf(id) = {} THEN Blank
    ELSE (CHOOSE r \in RowsOf(id) : \A s \in RowsOf(id) : r.place <= s.place).content

\* FINAL: the row that no other replaces.
Latest(id) ==
    IF RowsOf(id) = {} THEN Blank
    ELSE (CHOOSE r \in RowsOf(id) : \A s \in RowsOf(id) : ~Replaces(s, r)).content

\* A background merge drops a row that another replaces.
Merge ==
    \E r \in rows :
        /\ \E s \in RowsOf(r.id) : Replaces(s, r)
        /\ rows' = rows \ {r}
        /\ UNCHANGED <<inserted, now, awaited, next, historyVars>>

Behind(id, version) == \E r \in RowsOf(id) : r.version > version

\* The clock may be set back.
SetClock(time) ==
    /\ now' = time
    /\ ahead' = ahead \cup
         {id \in Records : \/ Behind(id, time)
                           \/ \E c \in Callers : awaited[c].id = id /\ awaited[c].version > time}
    /\ UNCHANGED <<engineVars, awaited, next, meant, overlapped, moved, returned>>

-----------------------------------------------------------------------------
(* Saves and updates.                                                      *)

Busy(id) == \E c \in Callers : awaited[c].id = id

Begins(c, request) ==
    /\ awaited[c] = Idle /\ next <= MaxWork
    /\ awaited' = [awaited EXCEPT ![c] = request]
    /\ next' = next + 1
    /\ overlapped' = IF Busy(request.id) THEN overlapped \cup {request.id} ELSE overlapped

\* saveThread, saveMessages, createSpan, upsert: a whole record, versioned by Date.now().
Save(c, id, group) ==
    /\ Begins(c, [Idle EXCEPT !.phase = "insert", !.id = id, !.version = now,
                              !.patch = [n |-> next, group |-> group]])
    /\ UNCHANGED <<engineVars, now, meant, ahead, moved, returned>>

\* saveThread of a thread that carries an updatedAt, any: that is its version.
SaveDated(c, t, updatedAt) ==
    /\ Begins(c, [Idle EXCEPT !.phase = "insert", !.id = t, !.how = "dated", !.version = updatedAt,
                              !.patch = [n |-> next, group |-> None]])
    /\ ahead' = IF updatedAt > now THEN ahead \cup {t} ELSE ahead
    /\ UNCHANGED <<engineVars, now, meant, moved, returned>>

\* updateThread, updateMessages, updateSpan, updateVector: the record is read first.
UpdateRecord(c, id, group) ==
    /\ Begins(c, [Idle EXCEPT !.phase = "read", !.id = id, !.how = "update",
                              !.patch = [n |-> next, group |-> group]])
    /\ UNCHANGED <<engineVars, now, meant, ahead, moved, returned>>

\* { ...existing, ...patch }, or the fields of a vector that the update leaves out.
Merged(existing, patch) ==
    [group |-> IF patch.group = None THEN existing.group ELSE patch.group,
     patches |-> Append(existing.patches, patch.n)]

\* The read comes back: a record that is not there is an error (or is skipped), any other is merged.
Reads(c) ==
    LET existing == Latest(awaited[c].id) IN
    /\ awaited[c].phase = "read"
    /\ awaited' = [awaited EXCEPT ![c] = IF existing = Blank THEN Idle
                                         ELSE [@ EXCEPT !.phase = "insert", !.version = now, !.base = existing]]
    /\ UNCHANGED <<engineVars, now, next, historyVars>>

\* The insert lands and the call resolves.  What is meant follows the order of the calls; only a thread saved
\* with an updatedAt of its own may be older than what is there.
Lands(c) ==
    LET id == awaited[c].id
        content == Merged(awaited[c].base, awaited[c].patch)
    IN  /\ awaited[c].phase = "insert"
        /\ inserted' = inserted + 1
        /\ rows' = rows \cup {[id |-> id, version |-> awaited[c].version, place |-> inserted', content |-> content]}
        /\ awaited' = [awaited EXCEPT ![c] = Idle]
        /\ meant' = IF awaited[c].how = "dated" /\ Behind(id, awaited[c].version) THEN meant
                    ELSE [meant EXCEPT ![id] = Merged(IF awaited[c].how = "update" THEN @ ELSE Blank,
                                                      awaited[c].patch)]
        /\ moved' = IF meant[id] # Blank /\ content.group # meant[id].group THEN moved \cup {id} ELSE moved
        /\ UNCHANGED <<now, next, overlapped, ahead, returned>>

-----------------------------------------------------------------------------
(* Deletes, at the point of the call where the engine makes them.          *)

Deletes(hit, gone) ==
    /\ rows' = rows \ hit
    /\ meant' = [id \in Records |-> IF id \in gone THEN Blank ELSE meant[id]]
    /\ overlapped' = overlapped \cup {id \in gone : Busy(id)}
    /\ UNCHANGED <<inserted, now, awaited, next, ahead, moved>>

\* Of a table, the rows whose column holds the group, and the records that are in it.
RowsOfGroup(table, group) == {r \in rows : r.id \in table /\ r.content.group = group}
MembersOf(table, group) == {id \in table : meant[id].group = group}

\* deleteThread: the thread, then its messages, unless the second statement throws.
DeleteThread(t) ==
    \/ Deletes(RowsOf(t), {t}) /\ UNCHANGED returned
    \/ /\ Deletes(RowsOf(t) \cup RowsOfGroup(Messages, t), {t} \cup MembersOf(Messages, t))
       /\ returned' = returned \cup (MembersOf(Messages, t) \cap moved)

DeleteVector(id) == Deletes(RowsOf(id), {id}) /\ UNCHANGED returned

\* deleteVectors: by a metadata filter.
DeleteVectors(group) ==
    /\ Deletes(RowsOfGroup(Vectors, group), MembersOf(Vectors, group))
    /\ returned' = returned \cup (MembersOf(Vectors, group) \cap moved)

-----------------------------------------------------------------------------
StoreInit ==
    /\ rows = {} /\ inserted = 0 /\ now = 1 /\ next = 1
    /\ awaited = [c \in Callers |-> Idle]
    /\ meant = [id \in Records |-> Blank]
    /\ overlapped = {} /\ ahead = {} /\ moved = {} /\ returned = {}

StoreNext ==
    \/ Merge \/ \E time \in (1 .. MaxClock) \ {now} : SetClock(time)
    \/ \E c \in Callers :
         \/ Reads(c) \/ Lands(c)
         \/ \E id \in Records :
              \/ \E group \in GroupsOf(id) : Save(c, id, group)
              \/ \E group \in GroupsOf(id) \cup {None} : UpdateRecord(c, id, group)
         \/ \E t \in Threads, updatedAt \in 1 .. MaxClock : SaveDated(c, t, updatedAt)
    \/ \E t \in Threads : DeleteThread(t)
    \/ \E id \in Vectors : DeleteVector(id)
    \/ \E group \in Groups : DeleteVectors(group)

StoreSpec == StoreInit /\ [][StoreNext]_storeVars

-----------------------------------------------------------------------------
(* Properties.                                                             *)

\* With no call on it under way, the record reads as the calls on it leave it: the last save with every later
\* update on top of it, and not at all once deleted.
ReadsAsMeant(id) == Busy(id) \/ Latest(id) = meant[id]

\* Whatever the background merges did, however many calls fell into one millisecond, and whatever went on beside
\* them on other records, a record reads as the calls on it leave it, unless two of its calls overlapped, it was
\* given a version later than the clock, or it was deleted by a threadId or metadata value that had changed.
UpdatesAccumulate == \A id \in Records \ (overlapped \cup ahead \cup returned) : ReadsAsMeant(id)
=============================================================================
