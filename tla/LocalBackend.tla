---------------------------- MODULE LocalBackend ----------------------------
(***************************************************************************)
(* The local filesystem backend (src/durable/backends/local.ts), as far as *)
(* it concerns head.json: a conditional create by link(2), a conditional   *)
(* replace by a chain of version files and a symlink to one of them, and   *)
(* the read that goes with it.  One action per system call another process *)
(* can observe; clients share nothing but the directory.                   *)
(*                                                                         *)
(* Abstractions.                                                           *)
(*  - Writing and flushing the scratch file, flushing directories, mkdir   *)
(*    and removing scratch files are steps nobody else sees: left out.     *)
(*    Power loss, which the flushes are for, is not modelled.              *)
(*  - A digest ETag stands for the bytes digested: comparing contents is   *)
(*    comparing digests.  Its `etag` here is 0; a version ETag is its      *)
(*    number.                                                              *)
(*  - Every write has bytes of its own: a head carries the lease expiry or *)
(*    the key that its writer just minted, and a call repeated with the    *)
(*    same bytes repeats one that was refused.                             *)
(***************************************************************************)
EXTENDS Naturals

CONSTANTS
    Clients,    \* users of the object, each with one call at a time
    Origin,     \* who wrote the head.json there is at first
    Nothing,    \* no bytes
    Starts,     \* how the directory may look at first
    MaxCalls,   \* bound: writes a client makes
    Faults      \* "io": a system call fails; "crash": a process dies

ASSUME OriginAssumption == Origin \notin Clients
ASSUME CallsAssumption  == MaxCalls \in Nat

Bytes == [by : Clients \union {Origin}, n : 0 .. MaxCalls]

ASSUME NothingIsNotBytes == Nothing \notin Bytes

Token  == [etag : Nat, content : Bytes \union {Nothing}]
NoHead == [etag |-> 0, content |-> Nothing]

VARIABLES
    plain,      \* head.json as an ordinary file
    pointer,    \* the version head.json is a symlink to, 0 if it is none
    versions,   \* .head-versions: the bytes of each version there is
    pc,         \* the system call each client is about to make
    op,         \* the operation it is in
    scan,       \* currentVersion: start, latest
    got,        \* the head it last got hold of, with its ETag
    want,       \* the bytes it is writing
    calls,      \* writes it has begun
    outcome,    \* what its write will return
    told,       \* what its last write returned
    seen        \* history: the heads there have been since its read began

files   == <<plain, pointer, versions>>
threads == <<pc, op, scan, got, want, calls, outcome, told>>
vars    == <<files, threads, seen>>

Steps == {"idle", "readlink", "lstat", "repair", "readVersion", "readPath",
          "digest", "link", "publish", "create", "return"}

------------------------------------------------------------------------------
(* The directory. *)

Exists(n) == n \in DOMAIN versions

\* readFile(path), which follows the symlink.
PathContent == IF pointer = 0 THEN plain ELSE versions[pointer]

Highest == CHOOSE n \in DOMAIN versions : \A m \in DOMAIN versions : m <= n

\* The head: the highest version there is, once head.json is a symlink at all.
Current ==
    IF pointer = 0 THEN [etag |-> 0, content |-> plain]
                   ELSE [etag |-> Highest, content |-> versions[Highest]]

Original == [by |-> Origin, n |-> 0]

Init ==
    /\ \E start \in Starts :
         /\ plain    = IF start = "plain" THEN Original ELSE Nothing
         /\ pointer  = IF start = "chain" THEN 1 ELSE 0
         /\ versions = [n \in (IF start = "chain" THEN {1} ELSE {}) |-> Original]
    /\ pc      = [c \in Clients |-> "idle"]
    /\ op      = [c \in Clients |-> "idle"]
    /\ scan    = [c \in Clients |-> <<0, 0>>]
    /\ got     = [c \in Clients |-> NoHead]
    /\ want    = [c \in Clients |-> Nothing]
    /\ calls   = [c \in Clients |-> 0]
    /\ outcome = [c \in Clients |-> "none"]
    /\ told    = [c \in Clients |-> "none"]
    /\ seen    = [c \in Clients |-> {}]

------------------------------------------------------------------------------
(* Calls begin and end. *)

At(c, s)   == pc[c] = s
Goto(c, s) == pc' = [pc EXCEPT ![c] = s]

\* The operation returns, and the client may begin another.
Leave(c) ==
    /\ Goto(c, "idle")
    /\ op'      = [op EXCEPT ![c] = "idle"]
    /\ scan'    = [scan EXCEPT ![c] = <<0, 0>>]
    /\ outcome' = [outcome EXCEPT ![c] = "none"]

\* getBytesWithEtag(head.json).
StartRead(c) ==
    /\ At(c, "idle")
    /\ op' = [op EXCEPT ![c] = "read"]
    /\ Goto(c, "readlink")
    /\ UNCHANGED <<files, scan, got, want, calls, outcome, told>>

StartWrite(c, s) ==
    /\ At(c, "idle")
    /\ calls[c] < MaxCalls
    /\ calls' = [calls EXCEPT ![c] = @ + 1]
    /\ want'  = [want EXCEPT ![c] = [by |-> c, n |-> calls[c] + 1]]
    /\ op'    = [op EXCEPT ![c] = "write"]
    /\ Goto(c, s)
    /\ UNCHANGED <<files, scan, got, outcome, told>>

\* putBytesIfAbsent(head.json), by a client that read and found none.
StartCreate(c) == got[c] = NoHead /\ StartWrite(c, "create")

\* replaceIfMatch(head.json) with the ETag the client holds.
StartReplace(c) ==
    /\ got[c].content # Nothing
    /\ StartWrite(c, IF got[c].etag = 0 THEN "digest" ELSE "readlink")

\* The number of the version a write creates: one above its ETag's.
NextVersion(c) == got[c].etag + 1

\* A write returns.  replaceIfMatch hands back the new ETag.
Return(c) ==
    /\ At(c, "return")
    /\ Leave(c)
    /\ told' = [told EXCEPT ![c] = outcome[c]]
    /\ got'  = IF outcome[c] = "replaced" /\ got[c] # NoHead
                 THEN [got EXCEPT ![c] = [etag |-> NextVersion(c), content |-> want[c]]]
                 ELSE got
    /\ UNCHANGED <<files, want, calls>>

\* Decided: nothing is left but to return.
Refuse(c) ==
    /\ outcome' = [outcome EXCEPT ![c] = "not-replaced"]
    /\ Goto(c, "return")

------------------------------------------------------------------------------
(* currentVersion, on behalf of a read or of a replace. *)

\* Where the pointer says the chain is.  No symlink: a read reads the plain file,
\* a replace against a version is refused.
Readlink(c) ==
    /\ At(c, "readlink")
    /\ \/ /\ pointer # 0
          /\ scan' = [scan EXCEPT ![c] = <<pointer, pointer>>]
          /\ Goto(c, "lstat")
          /\ UNCHANGED outcome
       \/ /\ pointer = 0
          /\ IF op[c] = "read" THEN Goto(c, "readPath") /\ UNCHANGED outcome ELSE Refuse(c)
          /\ UNCHANGED scan
    /\ UNCHANGED <<files, op, got, want, calls, told>>

\* The version found is `latest`: the read loads it, the replace compares it
\* with its ETag.
Found(c, latest) ==
    IF op[c] = "read" THEN Goto(c, "readVersion") /\ UNCHANGED outcome
    ELSE IF latest = got[c].etag THEN Goto(c, "link") /\ UNCHANGED outcome
    ELSE Refuse(c)

\* Look one version further, until there is none.
Lstat(c) ==
    LET start  == scan[c][1]
        latest == scan[c][2]
    IN  /\ At(c, "lstat")
        /\ \/ /\ Exists(latest + 1)
              /\ scan' = [scan EXCEPT ![c] = <<start, latest + 1>>]
              /\ UNCHANGED <<pc, outcome>>
           \/ /\ ~Exists(latest + 1)
              /\ IF latest = start THEN Found(c, latest)
                                   ELSE Goto(c, "repair") /\ UNCHANGED outcome
              /\ UNCHANGED scan
        /\ UNCHANGED <<files, op, got, want, calls, told>>

\* Repair the pointer; failing to is harmless.
Repair(c) ==
    /\ At(c, "repair")
    /\ pointer' \in {scan[c][2]} \union (IF "io" \in Faults THEN {pointer} ELSE {})
    /\ Found(c, scan[c][2])
    /\ UNCHANGED <<plain, versions, op, scan, got, want, calls, told>>

ReadVersion(c) ==
    /\ At(c, "readVersion")
    /\ got' = [got EXCEPT ![c] = [etag |-> scan[c][2], content |-> versions[scan[c][2]]]]
    /\ Leave(c)
    /\ UNCHANGED <<files, want, calls, told>>

\* There was no symlink when the read looked; there may be one by now.
ReadPath(c) ==
    /\ At(c, "readPath")
    /\ got' = [got EXCEPT ![c] = [etag |-> 0, content |-> PathContent]]
    /\ Leave(c)
    /\ UNCHANGED <<files, want, calls, told>>

------------------------------------------------------------------------------
(* Writes. *)

\* A digest ETag: the file must still hold those bytes.
Digest(c) ==
    /\ At(c, "digest")
    /\ IF PathContent = got[c].content THEN Goto(c, "link") /\ UNCHANGED outcome ELSE Refuse(c)
    /\ UNCHANGED <<files, op, scan, got, want, calls, told>>

\* link(2) of the scratch file to the next version: EEXIST is losing the
\* compare-and-swap, unless the bytes there are this write's own.
Link(c) ==
    /\ At(c, "link")
    /\ \/ /\ ~Exists(NextVersion(c))
          /\ versions' = [n \in DOMAIN versions \union {NextVersion(c)} |->
                            IF n = NextVersion(c) THEN want[c] ELSE versions[n]]
          /\ outcome' = [outcome EXCEPT ![c] = "replaced"]
       \/ /\ Exists(NextVersion(c))
          /\ outcome' = [outcome EXCEPT ![c] =
                IF versions[NextVersion(c)] = want[c] THEN "replaced" ELSE "not-replaced"]
          /\ UNCHANGED versions
    /\ Goto(c, "publish")
    /\ UNCHANGED <<plain, pointer, op, scan, got, want, calls, told>>

\* publishPointer, by the winner and by every loser: rename(2) of a new symlink
\* over head.json, whatever is there.
Publish(c) ==
    /\ At(c, "publish")
    /\ pointer' = NextVersion(c)
    /\ plain' = Nothing
    /\ Goto(c, "return")
    /\ UNCHANGED <<versions, op, scan, got, want, calls, outcome, told>>

\* Mutant of Create: rename(2), which replaces what another client created meanwhile.
CreateRenames(c) ==
    /\ At(c, "create")
    /\ plain' = want[c]
    /\ outcome' = [outcome EXCEPT ![c] = "replaced"]
    /\ Goto(c, "return")
    /\ UNCHANGED <<pointer, versions, op, scan, got, want, calls, told>>

\* link(2) of the scratch file to head.json.
Create(c) ==
    /\ At(c, "create")
    /\ \/ /\ PathContent = Nothing
          /\ plain' = want[c]
          /\ outcome' = [outcome EXCEPT ![c] = "replaced"]
          /\ Goto(c, "return")
       \/ /\ PathContent # Nothing
          /\ Refuse(c)
          /\ UNCHANGED plain
    /\ UNCHANGED <<pointer, versions, op, scan, got, want, calls, told>>

------------------------------------------------------------------------------
(* Failures. *)

\* A system call fails with something other than ENOENT or EEXIST: the operation
\* throws, before or after what it did.
Throws(c) ==
    /\ "io" \in Faults
    /\ ~At(c, "idle")
    /\ Leave(c)
    /\ told' = [told EXCEPT ![c] = "error"]
    /\ UNCHANGED <<files, got, want, calls>>

\* The process dies, and another takes its place, knowing nothing.
Dies(c) ==
    /\ "crash" \in Faults
    /\ ~At(c, "idle")
    /\ Leave(c)
    /\ told' = [told EXCEPT ![c] = "none"]
    /\ got'  = [got EXCEPT ![c] = NoHead]
    /\ UNCHANGED <<files, want, calls>>

------------------------------------------------------------------------------
CurrentVersion(c) == Readlink(c) \/ Lstat(c) \/ Repair(c)
GetBytes(c)       == StartRead(c) \/ ReadVersion(c) \/ ReadPath(c)
Replace(c)        == StartReplace(c) \/ Digest(c) \/ Link(c) \/ Publish(c)
Put(c)            == StartCreate(c) \/ Create(c)

Step(c) ==
    \/ GetBytes(c) \/ CurrentVersion(c) \/ Replace(c) \/ Put(c) \/ Return(c)
    \/ Throws(c) \/ Dies(c)

\* History: the heads a read has overlapped with.
Remember ==
    seen' = [c \in Clients |->
               IF op'[c] = "read" THEN seen[c] \union {Current'} ELSE {}]

Next == (\E c \in Clients : Step(c)) /\ Remember

Spec == Init /\ [][Next]_vars

------------------------------------------------------------------------------
(* What the directory promises. *)

\* Once head.json is a symlink, a write counts from the moment its version is
\* linked; before that, version 1 counts from the moment a symlink names it.
Landed(c) ==
    /\ pc[c] \in {"publish", "return"}
    /\ outcome[c] = "replaced"
    /\ got[c] = NoHead \/ NextVersion(c) > 1 \/ pointer # 0

Wanted(c) == [expect |-> got[c], bytes |-> want[c]]

\* Linked as version 1, named by no symlink: whoever made it may be gone.
Unnamed ==
    IF pointer = 0 /\ Exists(1)
      THEN {[expect |-> [etag |-> 0, content |-> plain], bytes |-> versions[1]]}
      ELSE {}

Pending == Unnamed \union {Wanted(c) : c \in {d \in Clients : op[d] = "write" /\ ~Landed(d)}}

Register == INSTANCE HeadRegister WITH current <- Current, pending <- Pending

TypeOK ==
    /\ plain \in Bytes \union {Nothing}
    /\ DOMAIN versions \subseteq Nat \ {0}
    /\ \A n \in DOMAIN versions : versions[n] \in Bytes
    /\ pointer \in {0} \union DOMAIN versions
    /\ pc \in [Clients -> Steps]
    /\ op \in [Clients -> {"idle", "read", "write"}]
    /\ scan \in [Clients -> Nat \X Nat]
    /\ got \in [Clients -> Token]
    /\ want \in [Clients -> Bytes \union {Nothing}]
    /\ calls \in [Clients -> 0 .. MaxCalls]
    /\ outcome \in [Clients -> {"none", "replaced", "not-replaced"}]
    /\ told \in [Clients -> {"none", "replaced", "not-replaced", "error"}]
    /\ seen \in [Clients -> SUBSET Token]

\* replaceIfMatch is a compare-and-swap: whatever its clients do at once, and
\* wherever they die, it behaves as a register that one conditional write at a
\* time replaces, whose reads return what was there while they read.
ImplementsRegister == Register!Spec

=============================================================================
