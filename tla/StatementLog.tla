----------------------------- MODULE StatementLog -----------------------------
(***************************************************************************)
(* What a durable object promises its callers (the header of               *)
(* src/durable/object.ts): the abstract specification of DurableObject.    *)
(*                                                                         *)
(* Each handle runs statements of its own, numbered from 1.  The holder of *)
(* the lease, and nobody else, makes a prefix of what it ran durable; what *)
(* it tells its callers is durable, is; nothing durable is ever lost.  A   *)
(* handle is given the lease before it runs anything and, once it ran      *)
(* something, never again: what it did not make durable by the time it     *)
(* lost the lease stays out.                                               *)
(***************************************************************************)
EXTENDS Naturals

CONSTANTS
    Handles,    \* the open() calls
    NoHandle    \* nobody holds the lease

VARIABLES
    holder,     \* the handle that holds the lease
    ran,        \* how many statements each handle ran
    durable,    \* the statements the next open() replays
    told        \* up to which one each handle's callers were told they are durable

vars == <<holder, ran, durable, told>>

\* The first n statements of h.
UpTo(h, n) == {[inst |-> h, n |-> i] : i \in 1 .. n}

Init ==
    /\ holder  = NoHandle
    /\ ran     = [h \in Handles |-> 0]
    /\ durable = {}
    /\ told    = [h \in Handles |-> 0]

Take(h) ==
    /\ holder # h
    /\ ran[h] = 0
    /\ holder' = h
    /\ UNCHANGED <<ran, durable, told>>

GiveUp ==
    /\ holder' = NoHandle
    /\ UNCHANGED <<ran, durable, told>>

Run(h) ==
    /\ ran' = [ran EXCEPT ![h] = @ + 1]
    /\ UNCHANGED <<holder, durable, told>>

\* A prefix becomes durable, the caller may be told so, or both: a commit whose
\* answer was lost lands without anybody knowing, and may be proved later or never.
Commit(h) ==
    /\ holder = h
    /\ \E n \in 0 .. ran[h] : durable' = durable \union UpTo(h, n)
    /\ \E n \in told[h] .. ran[h] :
         /\ UpTo(h, n) \subseteq durable'
         /\ told' = [told EXCEPT ![h] = n]
    /\ UNCHANGED <<holder, ran>>

Next == GiveUp \/ \E h \in Handles : Take(h) \/ Run(h) \/ Commit(h)

Spec == Init /\ [][Next]_vars

=============================================================================
