------------------------------- MODULE MCStores -------------------------------
(***************************************************************************)
(* Three more parts that share no state, each on its own as in MCParts:    *)
(* the backend of a durable object in a directory, the record stores, and  *)
(* the agent tool, here for what cuts its results.                         *)
(***************************************************************************)
EXTENDS LocalBackend, RecordStores, AgentTool, TLC

VARIABLE part

storesVars == <<part, vars, storeVars, toolVars>>

\* Clients are alike, callers are, tools are, and calls are.  No part has two of the first three, so that the
\* instance gives them the same names and one permutation serves all.
Symmetric == Permutations(Tools) \cup Permutations(Calls)

\* What TLC tells states apart by: all but `told` and `views`, which no step reads, `want`, which `calls`
\* determines, and the calls that are done, with a flag that is right whatever happens.
Sessions == [s \in SessionIds |-> [sess[s] EXCEPT !.views = FALSE]]
Queries == [c \in Calls |-> IF call[c].phase = "done" /\ call[c].partial = call[c].truncated THEN "done"
                            ELSE call[c]]
Distinguished ==
    <<part, files, pc, op, scan, got, calls, outcome, seen, storeVars, Sessions, tool, Queries, abandoned>>

-----------------------------------------------------------------------------
\* A part that does not move starts from one state only.
StoresInit ==
    /\ part \in {"local", "records", "agent"}
    /\ Init /\ (part # "local" => PathContent = Nothing)
    /\ StoreInit
    /\ ToolInit /\ (part # "agent" => sess[Ext].readonly = 0)

StoresNext ==
    \/ part = "local" /\ Next /\ UNCHANGED <<part, storeVars, toolVars>>
    \/ part = "records" /\ StoreNext /\ UNCHANGED <<part, vars, toolVars>>
    \/ part = "agent" /\ ToolNext /\ UNCHANGED <<part, vars, storeVars>>

StoresSpec == StoresInit /\ [][StoresNext]_storesVars
=============================================================================
