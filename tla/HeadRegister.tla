---------------------------- MODULE HeadRegister ----------------------------
(***************************************************************************)
(* What src/durable/backend.ts promises of head.json: a register read with *)
(* an ETag and replaced by compare-and-swap, used by clients whose calls   *)
(* overlap, fail, and die.  The abstract specification of a backend.       *)
(*                                                                         *)
(* A write whose caller was told nothing stays in `pending`: it takes      *)
(* effect later or never, but only on the head it was conditional on.      *)
(***************************************************************************)
EXTENDS Naturals

CONSTANTS
    Clients,    \* the handles and processes that use one object
    Bytes,      \* what they may write
    Nothing     \* no head.json

\* A head as a caller holds it: the ETag, and the bytes it was issued for.
Token == [etag : Nat, content : Bytes \union {Nothing}]

NoHead == [etag |-> 0, content |-> Nothing]

VARIABLES
    current,    \* the head
    pending,    \* the writes that may yet take effect
    op,         \* the call each client is in
    want,       \* the bytes it wants to write
    got,        \* the head it last got hold of: what its next write expects
    told,       \* what its last write was told
    seen        \* the heads there have been since its read began

vars == <<current, pending, op, want, got, told, seen>>

Init ==
    /\ current \in Token
    /\ pending = {}
    /\ op   = [c \in Clients |-> "idle"]
    /\ want = [c \in Clients |-> Nothing]
    /\ got  = [c \in Clients |-> NoHead]
    /\ told = [c \in Clients |-> "none"]
    /\ seen = [c \in Clients |-> {}]

\* The write a client is making: a create is a write that expects no head.
Wanted(c) == [expect |-> got[c], bytes |-> want[c]]

\* The head a write that takes effect leaves.
Written(w) ==
    [etag |-> IF w.expect = NoHead THEN 0 ELSE w.expect.etag + 1, content |-> w.bytes]

\* The same bytes under an ETag that matches no head written over another.
Useless(t) == [t EXCEPT !.etag = 0]

Read(c) ==
    /\ op[c] = "idle"
    /\ op'   = [op EXCEPT ![c] = "read"]
    /\ seen' = [seen EXCEPT ![c] = {current}]
    /\ UNCHANGED <<current, pending, want, got, told>>

\* A read returns bytes that were the head at some time during the read.  Their
\* ETag may be one that the next write is refused for, never one it is taken for.
ReadReturns(c) ==
    /\ op[c] = "read"
    /\ \E t \in seen[c] : got' \in {[got EXCEPT ![c] = t], [got EXCEPT ![c] = Useless(t)]}
    /\ op'   = [op EXCEPT ![c] = "idle"]
    /\ seen' = [seen EXCEPT ![c] = {}]
    /\ UNCHANGED <<current, pending, want, told>>

Write(c) ==
    /\ op[c] = "idle"
    /\ op' = [op EXCEPT ![c] = "write"]
    /\ \E b \in Bytes :
         /\ want'    = [want EXCEPT ![c] = b]
         /\ pending' = pending \union {[expect |-> got[c], bytes |-> b]}
    /\ UNCHANGED <<current, got, told, seen>>

\* The compare-and-swap.
TakesEffect ==
    /\ \E w \in pending :
         /\ w.expect = current
         /\ current' = Written(w)
         /\ pending' = pending \ {w}
    /\ seen' = [c \in Clients |->
                   IF op[c] = "read" THEN seen[c] \union {current'} ELSE seen[c]]
    /\ UNCHANGED <<op, want, got, told>>

Done(c, answer) ==
    /\ op[c] = "write"
    /\ op'   = [op EXCEPT ![c] = "idle"]
    /\ told' = [told EXCEPT ![c] = answer]
    /\ UNCHANGED <<current, want, seen>>

\* Told it replaced the head, and it did.  Only replaceIfMatch gives an ETag back.
Replaced(c) ==
    /\ Done(c, "replaced")
    /\ Wanted(c) \notin pending
    /\ got' = IF got[c] = NoHead THEN got ELSE [got EXCEPT ![c] = Written(Wanted(c))]
    /\ UNCHANGED pending

\* Told it did not: then it never will, and its ETag is no longer the head's.
Refused(c) ==
    /\ Done(c, "not-replaced")
    /\ Wanted(c) \in pending
    /\ current # got[c]
    /\ pending' = pending \ {Wanted(c)}
    /\ UNCHANGED got

\* The call throws, or the process dies: its write may be lost, or still pending.
Abandoned(c) ==
    /\ op[c] # "idle"
    /\ op'   = [op EXCEPT ![c] = "idle"]
    /\ seen' = [seen EXCEPT ![c] = {}]
    /\ pending' \in {pending, pending \ {Wanted(c)}}
    /\ UNCHANGED <<current, want>>

Throws(c)  == Abandoned(c) /\ told' = [told EXCEPT ![c] = "error"] /\ UNCHANGED got

Dies(c) ==
    /\ Abandoned(c)
    /\ told' = [told EXCEPT ![c] = "none"]
    /\ got'  = [got EXCEPT ![c] = NoHead]

Next ==
    \/ \E c \in Clients :
         \/ Read(c) \/ ReadReturns(c)
         \/ Write(c) \/ Replaced(c) \/ Refused(c)
         \/ Throws(c) \/ Dies(c)
    \/ TakesEffect

Spec == Init /\ [][Next]_vars

=============================================================================
