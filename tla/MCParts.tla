------------------------------- MODULE MCParts -------------------------------
(***************************************************************************)
(* Five parts of the library that share no state, each on its own: an      *)
(* initial state picks the part, and only that one moves.                  *)
(***************************************************************************)
EXTENDS StreamInsert, QueryBuilder, SourcePlan, Compatibility, AgentTool

VARIABLE part

allVars == <<part, vars, builderVars, sourceVars, compatVars, toolVars>>

-----------------------------------------------------------------------------
(* Instances.                                                              *)

MCTests == {<<"a", 1>>, <<"b", 2>>}

MCDatabases == {<<"d1">>, <<"d1", "x">>}
MCSchemas == {<<"s1">>, <<"s1", "x">>}
MCTableNames == {<<"t">>, <<"a", "b">>}

\* The releases of the comment of version.ts in its order, with a two-digit candidate and a two-digit minor,
\* one release written in two ways, and a string that is no version.
Release(numbers, prerelease, format, rank) ==
    [version |-> [release |-> numbers, prerelease |-> prerelease], format |-> format, rank |-> rank]
Candidate(n) == << <<"name", 1>>, <<"number", n>> >>
MCEngines ==
    << Release(<<26, 7, 2>>, Candidate(2), 1, 1), Release(<<26, 7, 2>>, Candidate(10), 1, 2),
       Release(<<26, 7, 2>>, <<>>, 1, 3), Release(<<26, 8, 1>>, <<>>, 1, 4),
       Release(<<26, 10>>, <<>>, 2, 5), Release(<<26, 10, 0>>, <<>>, 2, 5),
       [version |-> Unparsed, format |-> 1, rank |-> 6] >>
\* The comparison puts them in that order.
ASSUME MCOrder == OrderAsDocumented

MCCrews == {{1, 2}, {2, 3}, {4, 5}, {5, 6}, {3, 7}}

\* No object; objects from before min_reader, backup_format and protocol; and objects of later revisions.
Legacy(e) ==
    [head |-> [protocol |-> Missing, readerFeatures |-> {}, writerFeatures |-> {}, engine |-> "chdb",
               version |-> Engines[e].version, minReader |-> Missing, format |-> Missing, lease |-> Nobody],
     wrote |-> {e}]
MCHeads ==
    {[head |-> Missing, wrote |-> {}], Legacy(1), Legacy(4), [Legacy(1) EXCEPT !.head.protocol = 2],
     [Legacy(1) EXCEPT !.head.readerFeatures = {"new"}], [Legacy(1) EXCEPT !.head.writerFeatures = {"new"}],
     [Legacy(1) EXCEPT !.head.engine = "other"]}

-----------------------------------------------------------------------------
Parts == {"stream", "builder", "source", "compat", "agent"}

\* A part that does not move starts from one state only.
StartsOf(p, S) == IF part = p THEN S ELSE {CHOOSE x \in S : TRUE}

\* An insert of an empty source, settled.
StreamAtRest ==
    /\ pc = "ok" /\ data = <<>> /\ cut = 0 /\ lastNl = -1 /\ ended = TRUE
    /\ chunk = <<0, 0>> /\ running = FALSE /\ landed = <<>> /\ sent = [rows |-> 0, bytes |-> 0]
    /\ aborted = FALSE /\ reason = "none" /\ badRow = 0 /\ failedAt = 0 /\ stopped = FALSE

PartsInit ==
    /\ part \in Parts
    /\ IF part = "stream" THEN Init ELSE StreamAtRest
    /\ BuilderInit(StartsOf("builder", Roots))
    /\ SourceInit(StartsOf("source", ServerOptions \cup LocationOptions))
    /\ CompatInit(StartsOf("compat", Heads), StartsOf("compat", Crews))
    /\ ToolInit
    /\ part # "agent" => sess[Ext].readonly = 0

PartsNext ==
    \/ part = "stream" /\ Next /\ UNCHANGED <<part, builderVars, sourceVars, compatVars, toolVars>>
    \/ part = "builder" /\ BuilderNext /\ UNCHANGED <<part, vars, sourceVars, compatVars, toolVars>>
    \/ part = "source" /\ SourceNext /\ UNCHANGED <<part, vars, builderVars, compatVars, toolVars>>
    \/ part = "compat" /\ CompatNext /\ UNCHANGED <<part, vars, builderVars, sourceVars, toolVars>>
    \/ part = "agent" /\ ToolNext /\ UNCHANGED <<part, vars, builderVars, sourceVars, compatVars>>

PartsSpec == PartsInit /\ [][PartsNext]_allVars /\ Fairness /\ ToolFairness
=============================================================================
