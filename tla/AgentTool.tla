------------------------------ MODULE AgentTool ------------------------------
(***************************************************************************)
(* ChDBTool of integrations/agents/tool.mjs: the query tool handed to a    *)
(* language model.  A tool owns a Layer 1 session or is lent one by the    *)
(* caller (Ext), which other tools may share.  The constructor configures  *)
(* the session and locks it; query() caps what it hands back and, for a    *)
(* network source, races the engine against a deadline: the native call    *)
(* cannot be cancelled, so on expiry the tool is poisoned and its session  *)
(* is parked until the call settles.                                       *)
(*                                                                         *)
(* A Layer 1 session is abstracted to what module Sessions establishes:    *)
(* close() takes effect once the native calls it found under way have      *)
(* settled, and live sessions of one process share one data directory.     *)
(*                                                                         *)
(* The engine is external: a limit of the session stops it at the end of a *)
(* block, and a SETTINGS clause may set any limit, for its statement or,   *)
(* on some builds, for the session from then on.  A row's JSON weighs one  *)
(* byte; in the engine's memory it weighs up to RowBytes.                  *)
(***************************************************************************)
EXTENDS Integers, Bags, BagsExt

CONSTANTS
    Tools,      \* tools the process constructs, each at most once
    Calls,      \* query() calls, each made at most once
    Ext,        \* a session the caller opened and may lend
    NoSession,
    Caps,       \* values of maxRows
    ByteCap,    \* value of maxBytes
    ResultBytes, \* values of maxResultBytes, 0 for none
    RowBytes,   \* what a row can weigh in the engine's memory
    Watchdog,   \* networkTimeout is set
    Gated,      \* fileAllowlist is set
    Overrides,  \* statements may carry a SETTINGS clause, and the caller may SET limits
    MaxTotal    \* bound: rows a statement can match

ASSUME CapsAssumption == Caps \subseteq 1 .. MaxTotal /\ MaxTotal \in Nat /\ ByteCap \in Nat \ {0}
ASSUME EngineAssumption == ResultBytes \subseteq Nat /\ RowBytes \in Nat \ {0}
ASSUME NamesAssumption == Ext \notin Tools /\ NoSession \notin Tools \cup {Ext}
ASSUME OptionsAssumption == {Watchdog, Gated, Overrides} \subseteq BOOLEAN

VARIABLES
    sess,       \* Layer 1 sessions: one per owning tool, and Ext
    tool,       \* the tools' private fields
    call,       \* query() calls and the native call under each
    abandoned   \* ABANDONED_SESSIONS, a bag

toolVars == <<sess, tool, call, abandoned>>

SessionIds == Tools \cup {Ext}

Lower(a, b) == IF a < b THEN a ELSE b

\* ops are the native calls on a session, or those its close() waits for.
NewSession == [state |-> "none", dir |-> "temp", readonly |-> 0, limit |-> 0, bytes |-> 0,
               swayed |-> FALSE, views |-> FALSE, ops |-> {}]
Shut == [NewSession EXCEPT !.state = "closed"]
NewTool == [phase |-> "new", own |-> TRUE, readOnly |-> TRUE, cap |-> 1,
            poisoned |-> FALSE, session |-> NoSession]
NewCall == [phase |-> "new", tool |-> NoSession, on |-> NoSession, parked |-> NoSession,
            cap |-> 1, limit |-> 0, bytes |-> 0, swayed |-> FALSE, answer |-> "none", partial |-> FALSE, truncated |-> FALSE]

ToolInit ==
    /\ sess \in [SessionIds -> {NewSession} \cup
                    {[NewSession EXCEPT !.state = "open", !.dir = "db", !.readonly = r] : r \in {0, 2}}]
    /\ \A s \in SessionIds : (sess[s].state = "open") <=> (s = Ext)
    /\ tool = [t \in Tools |-> NewTool]
    /\ call = [c \in Calls |-> NewCall]
    /\ abandoned = EmptyBag

Live(s) == sess[s].state \in {"open", "closing"}

\* One data directory per process: a temporary one is like no other.
MayOpen(dir) == \A s \in SessionIds : Live(s) => sess[s].dir = dir /\ dir # "temp"

\* Session.close(): at once when the process is idle, otherwise when the native calls under way on any
\* session have settled.
UnderWay == UNION {sess[s].ops : s \in SessionIds}

Closed(s) ==
    [sess EXCEPT ![s] = IF @.state # "open" THEN @
                        ELSE IF UnderWay = {} THEN Shut
                        ELSE [@ EXCEPT !.state = "closing", !.ops = UnderWay]]

-----------------------------------------------------------------------------
(* The constructor, synchronous throughout.                                *)

Options == [own : BOOLEAN, readOnly : BOOLEAN, cap : Caps, bytes : ResultBytes, attach : BOOLEAN,
            dir : {"temp", "db"}]

Target(t, o) == IF o.own THEN t ELSE Ext

\* Mutant of Acceptable: the lent session's readonly setting is not probed.
AcceptableUnprobed(t, o) ==
    IF o.own THEN MayOpen(o.dir) ELSE sess[Ext].state = "open"

\* An owned session opens where the process's directory allows; a lent one must already be locked as declared.
Acceptable(t, o) ==
    IF o.own THEN MayOpen(o.dir)
    ELSE sess[Ext].state = "open" /\ sess[Ext].readonly = IF o.readOnly THEN 2 ELSE 0

\* The engine refuses CREATE VIEW on a locked session, so attachments need a session not locked yet.
MayAttach(o) == o.attach => o.own \/ sess[Ext].readonly = 0

\* SET max_result_rows = maxRows + 1: the row past the cap keeps the truncated flag exact.
RowLimit(o) == o.cap + 1

\* SET max_result_bytes, when given: a lent session keeps what another tool set otherwise.
ByteLimit(o, before) == IF o.bytes # 0 THEN o.bytes ELSE before

\* An owned session is locked last, after the attachments; a lent one is never locked.
Configured(t, o) ==
    IF o.own THEN [NewSession EXCEPT !.state = "open", !.dir = o.dir, !.limit = RowLimit(o),
                                     !.bytes = o.bytes,
                                     !.readonly = IF o.readOnly THEN 2 ELSE 0]
    ELSE [sess[Ext] EXCEPT !.limit = RowLimit(o), !.bytes = ByteLimit(o, @)]

Construct(t, o) ==
    /\ tool[t].phase = "new"
    /\ Acceptable(t, o) /\ MayAttach(o)
    /\ sess' = [sess EXCEPT ![Target(t, o)] = Configured(t, o)]
    /\ tool' = [tool EXCEPT ![t] = [phase |-> "ready", own |-> o.own, readOnly |-> o.readOnly,
                                    cap |-> o.cap, poisoned |-> FALSE,
                                    session |-> Target(t, o)]]
    /\ UNCHANGED <<call, abandoned>>

\* Mutant of AbortedSetup: the session a failed constructor opened is left to the collector.
AbortedSetupLeaks(t, o) ==
    IF o.own THEN {[NewSession EXCEPT !.state = "open", !.dir = o.dir, !.limit = RowLimit(o)]}
    ELSE {Configured(t, o)}

\* A setup step throws after the session is there: an owned one is closed, a lent one keeps the settings made so far.
AbortedSetup(t, o) ==
    IF o.own THEN {Shut}
    ELSE {[sess[Ext] EXCEPT !.limit = RowLimit(o)], Configured(t, o)}

ConstructFails(t, o) ==
    /\ tool[t].phase = "new"
    /\ \/ UNCHANGED sess      \* a bad argument, a directory conflict, a readonly mismatch
       \/ /\ Acceptable(t, o) \* a SET or an attachment fails
          /\ \E left \in AbortedSetup(t, o) : sess' = [sess EXCEPT ![Target(t, o)] = left]
    /\ tool' = [tool EXCEPT ![t].phase = "failed"]
    /\ UNCHANGED <<call, abandoned>>

-----------------------------------------------------------------------------
(* query(), and the introspection methods that are queries.                *)

\* A statement may read a network source, which matters to the deadline, read outside the allowlist, which
\* matters if there is one, and carry a SETTINGS clause.
Statements == [net : {FALSE, Watchdog}, outside : {FALSE, Gated}, settings : {FALSE, Overrides}, asked : Caps]

\* Mutant of EffectiveCap: the caller's cap is honoured as given.
EffectiveCapUnclamped(t, q) == q.asked

\* The per-call cap is clamped to the constructor's: the engine's limit was fixed then.
EffectiveCap(t, q) == Lower(q.asked, tool[t].cap)

Barred(t, q) ==
    \/ tool[t].poisoned
    \/ q.outside
    \/ tool[t].session \notin {s \in SessionIds : sess[s].state = "open"}

QueryRefused(c, t, q) ==
    /\ call[c].phase = "new" /\ tool[t].phase = "ready"
    /\ Barred(t, q)
    /\ call' = [call EXCEPT ![c] = [NewCall EXCEPT !.phase = "done", !.answer = "error"]]
    /\ UNCHANGED <<sess, tool, abandoned>>

Query(c, t, q) ==
    LET s == tool[t].session IN
    /\ call[c].phase = "new" /\ tool[t].phase = "ready"
    /\ ~Barred(t, q)
    /\ \E lasting \in BOOLEAN :
          sess' = [sess EXCEPT ![s].ops = @ \cup {c}, ![s].swayed = @ \/ (lasting /\ q.settings)]
    /\ call' = [call EXCEPT ![c] =
                  [NewCall EXCEPT !.phase = IF q.net THEN "racing" ELSE "awaiting",
                                  !.tool = t, !.on = s, !.cap = EffectiveCap(t, q),
                                  !.limit = sess[s].limit, !.bytes = sess[s].bytes,
                                  !.swayed = sess[s].swayed \/ q.settings]]
    /\ UNCHANGED <<tool, abandoned>>

\* result_overflow_mode = 'break': the engine stops at the end of the block in which a limit is passed.
StopsAt(c, n) ==
    \/ call[c].swayed
    \/ call[c].limit # 0 /\ n >= call[c].limit
    \/ call[c].bytes # 0 /\ n * RowBytes >= call[c].bytes

Produced(c, total) == {n \in 0 .. total : n = total \/ StopsAt(c, n)}

\* The row cap, then the byte cap, each flagged.
Answered(c, total, n) ==
    LET kept == Lower(n, call[c].cap) IN
    [NewCall EXCEPT !.phase = "done", !.tool = call[c].tool, !.answer = "rows",
                    !.bytes = call[c].bytes, !.swayed = call[c].swayed,
                    !.partial = Lower(kept, ByteCap) < total,
                    !.truncated = n > call[c].cap \/ kept > ByteCap]

\* What the call can answer, however many rows its statement matches.
Answers(c) == UNION {{Answered(c, total, n) : n \in Produced(c, total)} : total \in 0 .. MaxTotal}

\* The native call leaves the sessions; a deferred close takes effect with the last one it waits for.
LeftBy(c) ==
    [s \in SessionIds |->
        IF sess[s].state = "closing" /\ sess[s].ops \subseteq {c} THEN Shut
        ELSE [sess[s] EXCEPT !.ops = @ \ {c}]]

EngineSettles(c) ==
    /\ call[c].phase \in {"awaiting", "racing", "abandoned"}
    /\ sess' = LeftBy(c)
    /\ \/ /\ call[c].phase # "abandoned"
          /\ \/ \E answered \in Answers(c) : call' = [call EXCEPT ![c] = answered]
             \/ call' = [call EXCEPT ![c] = [NewCall EXCEPT !.phase = "done", !.answer = "error"]]
       \/ /\ call[c].phase = "abandoned"
          /\ call' = [call EXCEPT ![c].phase = "settled"]
    /\ UNCHANGED <<tool, abandoned>>

\* #raceNetworkDeadline, the deadline first.  The tool's session is read now: close() may have dropped it meanwhile.
DeadlinePasses(c) ==
    LET t == call[c].tool IN
    /\ call[c].phase = "racing"
    /\ call' = [call EXCEPT ![c].phase = "abandoned", ![c].answer = "timeout",
                            ![c].parked = tool[t].session]
    /\ tool' = [tool EXCEPT ![t].poisoned = TRUE]
    /\ abandoned' = BagAdd(abandoned, tool[t].session)
    /\ UNCHANGED sess

\* Mutant of Reaped: the parked session is let go of but not closed.
ReapedOnly(c) == sess

\* The session a settled call lets go of, and what becomes of it.
Reaped(c) == IF tool[call[c].tool].own /\ call[c].parked # NoSession THEN Closed(call[c].parked) ELSE sess

\* The callback on the abandoned native call.
Reap(c) ==
    /\ call[c].phase = "settled"
    /\ call' = [call EXCEPT ![c] = [NewCall EXCEPT !.phase = "done", !.answer = "timeout"]]
    /\ abandoned' = BagRemove(abandoned, call[c].parked)
    /\ sess' = Reaped(c)
    /\ UNCHANGED tool

-----------------------------------------------------------------------------
(* attachFile(), close(), and the caller who lent the session.             *)

\* A view created later, on a tool declared writable whose session takes the write.
AttachFile(t) ==
    LET s == tool[t].session IN
    /\ tool[t].phase = "ready" /\ ~tool[t].readOnly /\ s # NoSession
    /\ sess[s].state = "open" /\ sess[s].readonly = 0
    /\ sess' = [sess EXCEPT ![s].views = TRUE]
    /\ UNCHANGED <<tool, call, abandoned>>

\* close(): a poisoned tool only forgets its session; a lent session is kept.
CloseTool(t) ==
    /\ tool[t].phase = "ready" /\ tool[t].session # NoSession
    /\ tool[t].poisoned \/ tool[t].own
    /\ tool' = [tool EXCEPT ![t].session = NoSession]
    /\ sess' = IF tool[t].poisoned THEN sess ELSE Closed(tool[t].session)
    /\ UNCHANGED <<call, abandoned>>

CallerLocks ==
    /\ sess[Ext].state = "open"
    /\ sess' = [sess EXCEPT ![Ext].readonly = 2]
    /\ UNCHANGED <<tool, call, abandoned>>

\* The caller changes the limits of the session it lent, with a SET of its own.
CallerSets ==
    /\ Overrides
    /\ sess[Ext].state = "open"
    /\ sess' = [sess EXCEPT ![Ext].swayed = TRUE]
    /\ UNCHANGED <<tool, call, abandoned>>

CallerCloses ==
    /\ sess[Ext].state = "open"
    /\ sess' = Closed(Ext)
    /\ UNCHANGED <<tool, call, abandoned>>

-----------------------------------------------------------------------------
Unbuilt == {t \in Tools : tool[t].phase = "new"}
Unasked == {c \in Calls : call[c].phase = "new"}

ToolNext ==
    \/ \E t \in Unbuilt, o \in Options : Construct(t, o) \/ ConstructFails(t, o)
    \/ \E c \in Unasked, t \in Tools, q \in Statements : Query(c, t, q) \/ QueryRefused(c, t, q)
    \/ \E c \in Calls : EngineSettles(c) \/ DeadlinePasses(c) \/ Reap(c)
    \/ \E t \in Tools : AttachFile(t) \/ CloseTool(t)
    \/ CallerLocks \/ CallerSets \/ CallerCloses

\* A native call settles in the end ("delayed, not hung forever"), and its callback runs.
ToolFairness == \A c \in Calls : WF_toolVars(EngineSettles(c)) /\ WF_toolVars(Reap(c))

ToolSpec == ToolInit /\ [][ToolNext]_toolVars /\ ToolFairness

-----------------------------------------------------------------------------
\* The tools that may share the lent session with t have t's cap.
Alike(t) ==
    \A u \in Tools : /\ tool[u].phase = "ready" /\ ~tool[u].own => tool[u].cap = tool[t].cap
                     /\ tool[u].phase # "failed"

\* What the tool set up is what limits call c: no SETTINGS clause of its own or of an earlier statement, no
\* SET of the caller who lent the session, every tool on a lent session with the same cap (the last
\* constructor sets the limit for all), and a maxResultBytes, if any, "well above maxBytes".
AsSetUp(c) ==
    /\ ~call[c].swayed
    /\ call[c].bytes = 0 \/ call[c].bytes > RowBytes * ByteCap
    /\ tool[call[c].tool].own \/ Alike(call[c].tool)

\* A result that says truncated always had rows left out; and where the limits are the ones the tool set up,
\* one from which rows were left out says so, whichever of the four limits cut it: the engine's row limit and
\* its byte limit, fixed at construction and not flagged, and the row cap and the byte cap of the call.
FlagIsExact ==
    \A c \in Calls :
        call[c].answer = "rows" =>
            /\ call[c].truncated => call[c].partial
            /\ AsSetUp(c) /\ call[c].partial => call[c].truncated

\* No session a tool opened is lost: while it is open, a tool that can still close it holds it, or an
\* abandoned call will.  Construction failures, deadlines and close() in any order must keep this.
NothingLeaks ==
    \A s \in Tools :
        sess[s].state = "open" =>
            \/ tool[s].phase = "ready" /\ tool[s].session = s
            \/ \E c \in Calls : call[c].phase \in {"abandoned", "settled"} /\ call[c].parked = s

\* A tool declared read-only works on a locked session for as long as it has one, whether it locked the
\* session itself or was lent it, and an owned one gets no view after construction.
ReadOnlyHolds ==
    \A t \in Tools :
        tool[t].phase = "ready" /\ tool[t].readOnly /\ tool[t].session # NoSession /\ Live(tool[t].session)
            => /\ sess[tool[t].session].readonly = 2
               /\ tool[t].own => ~sess[t].views

\* The session of a poisoned tool that owns one is closed in the end, so that it stops holding the
\* process's data directory, even if close() came before the deadline, or several calls were abandoned.
AbandonedIsClosed ==
    \A t \in Tools : (tool[t].poisoned /\ tool[t].own) ~> (sess[t].state = "closed")
=============================================================================
