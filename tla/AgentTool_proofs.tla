--------------------------- MODULE AgentTool_proofs ---------------------------
(***************************************************************************)
(* What the agent tool promises, for any number of tools and calls, any    *)
(* row and byte caps and any size of result: a result that says truncated  *)
(* had rows left out, one that had says so wherever the tool's own limits  *)
(* cut it, no session a tool opened is lost, and a read-only tool works on *)
(* a locked session.                                                       *)
(*                                                                         *)
(* None of the three is inductive.  A result is judged when the native     *)
(* call settles, from the limit its session had when it started: ToolLimit *)
(* ties the session to the constructor of its tool, CallOK carries that    *)
(* through the call, while other tools are built on the same session and   *)
(* deadlines pass.  A poisoned tool's close() forgets an open session, so  *)
(* Kept says that poisoning alone already left a call that will close it.  *)
(***************************************************************************)
EXTENDS AgentTool, TLAPS

SessionRec ==
    [state : {"none", "open", "closing", "closed"}, dir : {"temp", "db"}, readonly : {0, 2},
     limit : Nat, bytes : Nat, swayed : BOOLEAN, views : BOOLEAN, ops : SUBSET Calls]

ToolRec ==
    [phase : {"new", "ready", "failed"}, own : BOOLEAN, readOnly : BOOLEAN, cap : Nat,
     poisoned : BOOLEAN, session : SessionIds \cup {NoSession}]

CallRec ==
    [phase : {"new", "awaiting", "racing", "abandoned", "settled", "done"},
     tool : Tools \cup {NoSession}, on : SessionIds \cup {NoSession},
     parked : SessionIds \cup {NoSession}, cap : Nat, limit : Nat, bytes : Nat, swayed : BOOLEAN,
     answer : {"none", "rows", "timeout", "error"}, partial : BOOLEAN, truncated : BOOLEAN]

\* The types of the sessions, the tools and the calls; the bag of parked sessions is never read.
TypeOK ==
    /\ sess \in [SessionIds -> SessionRec]
    /\ tool \in [Tools -> ToolRec]
    /\ call \in [Calls -> CallRec]

\* The session a tool works on for as long as it has one.
Home(t) == IF tool[t].own THEN t ELSE Ext

\* A tool holds its own session, or the lent one, or none; before construction it holds none.
ToolOK(t) ==
    tool[t].session = NoSession \/ (tool[t].phase = "ready" /\ tool[t].session = Home(t))

\* Some abandoned call will close session s.
Parked(s) == \E c \in Calls : call[c].phase \in {"abandoned", "settled"} /\ call[c].parked = s

\* Only an owning tool has a session of its own open; it or an abandoned call holds it, and a poisoned
\* tool can forget it because a call holds it already.
Kept(s) ==
    sess[s].state = "open" =>
        /\ tool[s].phase = "ready" /\ tool[s].own
        /\ tool[s].session = s \/ Parked(s)
        /\ tool[s].poisoned => Parked(s)

\* What a read-only tool was promised of its session, from construction until the session is gone.
Locked(t) ==
    tool[t].phase = "ready" /\ tool[t].readOnly /\ Live(Home(t))
        => /\ sess[Home(t)].readonly = 2
           /\ tool[t].own => ~sess[t].views

\* The tools whose results are judged: those that own their session or share it with tools of the same cap.
Judged(t) == tool[t].own \/ Alike(t)

\* An open session limits a judged tool's statements to one row past its cap.
ToolLimit(t) ==
    tool[t].phase = "ready" /\ Judged(t) /\ sess[Home(t)].state = "open"
        => sess[Home(t)].limit = RowLimit(tool[t])

\* No limit but the row limit of its session can stop call c before the byte cap tells.
Unswayed(c) == ~call[c].swayed /\ (call[c].bytes = 0 \/ call[c].bytes > RowBytes * ByteCap)

\* An answered call was flagged as FlagIsExact has it.
Honest(c) ==
    /\ call[c].truncated => call[c].partial
    /\ Unswayed(c) /\ Judged(call[c].tool) /\ call[c].partial => call[c].truncated

\* A call under way was made by a constructed tool, on its session, under its cap and its limit; an
\* abandoned one parks that session or none; an answered one was flagged exactly.
CallOK(c) ==
    LET t == call[c].tool IN
    /\ call[c].phase \in {"awaiting", "racing", "abandoned", "settled"} \/ call[c].answer = "rows" =>
           t \in Tools /\ tool[t].phase = "ready"
    /\ call[c].phase \in {"awaiting", "racing", "abandoned", "settled"} => call[c].on = Home(t)
    /\ call[c].phase \in {"awaiting", "racing"} =>
           call[c].cap <= tool[t].cap /\ (Judged(t) => call[c].limit = RowLimit(tool[t]))
    /\ call[c].phase \in {"abandoned", "settled"} => call[c].parked \in {Home(t), NoSession}
    /\ call[c].answer = "rows" => Honest(c)

AInv ==
    /\ TypeOK
    /\ \A t \in Tools : ToolOK(t) /\ Kept(t) /\ Locked(t) /\ ToolLimit(t)
    /\ \A c \in Calls : CallOK(c)

-----------------------------------------------------------------------------
(* What an action may do to a session, a tool and a call.                  *)

\* A session is closed, left by a call, entered by one, given a view while unlocked or locked, never
\* reopened, unlocked or given another limit: what every action but a constructor does to it.
Wanes(s) ==
    /\ (sess[s].state = "open")' => sess[s].state = "open"
    /\ Live(s)' =>
        /\ Live(s)
        /\ sess'[s].limit = sess[s].limit
        /\ sess[s].readonly = 2 => sess'[s].readonly = 2 /\ sess'[s].views = sess[s].views

\* A constructed tool keeps what it was constructed with, and its session until it drops it.
Keeps(t) ==
    /\ tool'[t].phase = tool[t].phase /\ tool'[t].own = tool[t].own
    /\ tool'[t].readOnly = tool[t].readOnly /\ tool'[t].cap = tool[t].cap
    /\ tool'[t].session \in {tool[t].session, NoSession}

\* A constructor makes one tool of one not constructed yet; every other action keeps the tools.
Made(t) ==
    /\ tool[t].phase = "new" /\ tool'[t].phase \in {"ready", "failed"}
    /\ tool'[t].phase = "failed" => tool'[t].session = tool[t].session
    /\ \A u \in Tools \ {t} : tool'[u] = tool[u]

\* A call still parks the session it parked, unless that session is no longer open.
ParkedStays(s) == Parked(s) => (Parked(s)' \/ (sess[s].state # "open")')

-----------------------------------------------------------------------------
\* The options are typed.
LEMMA OptionType ==
    ASSUME NEW o \in Options
    PROVE  /\ o.own \in BOOLEAN /\ o.readOnly \in BOOLEAN /\ o.cap \in Nat /\ o.attach \in BOOLEAN
           /\ o.dir \in {"temp", "db"} /\ RowLimit(o) \in Nat /\ o.bytes \in Nat
  <1>1. o.cap \in Caps /\ o.own \in BOOLEAN /\ o.readOnly \in BOOLEAN /\ o.attach \in BOOLEAN
        /\ o.dir \in {"temp", "db"} /\ o.bytes \in ResultBytes
    BY DEF Options
  <1>2. ASSUME NEW n \in Caps PROVE n \in Nat
    BY CapsAssumption
  <1>3. ASSUME NEW n \in ResultBytes PROVE n \in Nat
    BY EngineAssumption
  <1>4. o.cap \in Nat /\ o.bytes \in Nat
    BY <1>1, <1>2, <1>3
  <1>5. RowLimit(o) \in Nat
    BY <1>4 DEF RowLimit
  <1> QED
    BY <1>1, <1>4, <1>5

\* Closing a session keeps the sessions typed, and only wanes it.
LEMMA CloseWanes ==
    ASSUME TypeOK, NEW s \in SessionIds, sess' = Closed(s)
    PROVE  /\ sess' \in [SessionIds -> SessionRec]
           /\ \A x \in SessionIds : Wanes(x)
           /\ (sess[s].state # "open")'
  <1> DEFINE r == IF sess[s].state # "open" THEN sess[s]
                  ELSE IF UnderWay = {} THEN Shut
                  ELSE [sess[s] EXCEPT !.state = "closing", !.ops = UnderWay]
  <1>1. sess' = [sess EXCEPT ![s] = r]
    BY DEF Closed
  <1>0. UnderWay \in SUBSET Calls
    BY DEF TypeOK, SessionRec, UnderWay
  <1>2. r \in SessionRec
    BY <1>0 DEF TypeOK, SessionRec, Shut, NewSession
  <1>3. r.state # "open" /\ (r.state \in {"open", "closing"} =>
            /\ Live(s) /\ r.limit = sess[s].limit /\ r.readonly = sess[s].readonly
            /\ r.views = sess[s].views)
    BY DEF TypeOK, SessionRec, Shut, NewSession, Live
  <1> HIDE DEF r
  <1> QED
    BY <1>1, <1>2, <1>3 DEF TypeOK, Wanes, Live

\* A native call leaving the sessions keeps them typed, and only wanes them.
LEMMA LeaveWanes ==
    ASSUME TypeOK, NEW c \in Calls, sess' = LeftBy(c)
    PROVE  /\ sess' \in [SessionIds -> SessionRec]
           /\ \A x \in SessionIds : Wanes(x)
  <1> DEFINE r(s) == IF sess[s].state = "closing" /\ sess[s].ops \subseteq {c} THEN Shut
                     ELSE [sess[s] EXCEPT !.ops = sess[s].ops \ {c}]
  <1>1. sess' = [s \in SessionIds |-> r(s)]
    BY DEF LeftBy
  <1>2. ASSUME NEW s \in SessionIds PROVE r(s) \in SessionRec
    <2>1. sess[s] \in SessionRec /\ Shut \in SessionRec
      BY DEF TypeOK, SessionRec, Shut, NewSession
    <2>2. sess[s].ops \ {c} \in SUBSET Calls
      BY <2>1 DEF SessionRec
    <2> QED
      BY <2>1, <2>2 DEF SessionRec
  <1>3. ASSUME NEW s \in SessionIds
        PROVE  /\ r(s).state = "open" => sess[s].state = "open"
               /\ r(s).state \in {"open", "closing"} =>
                     /\ Live(s) /\ r(s).limit = sess[s].limit /\ r(s).readonly = sess[s].readonly
                     /\ r(s).views = sess[s].views
    BY DEF TypeOK, SessionRec, Shut, NewSession, Live
  <1> HIDE DEF r
  <1> QED
    BY <1>1, <1>2, <1>3 DEF TypeOK, Wanes, Live

\* The calls under way, and what they say of their tool.
LEMMA CallUnderWay ==
    ASSUME AInv, NEW c \in Calls, call[c].phase \in {"awaiting", "racing", "abandoned", "settled"}
    PROVE  /\ call[c].tool \in Tools /\ tool[call[c].tool].phase = "ready"
           /\ call[c].on = Home(call[c].tool) /\ call[c].on \in SessionIds
  BY DEF AInv, CallOK, Home, SessionIds

-----------------------------------------------------------------------------
(* What stays true, given how the sessions, the tools and the calls moved. *)

\* A tool judged after a step was judged before it: tools only get constructed, and one that failed or
\* has another cap stays that way.
LEMMA JudgedBefore ==
    ASSUME NEW t \in Tools, tool[t].phase = "ready", TypeOK,
           (\A u \in Tools : Keeps(u)) \/ (\E u \in Tools : Made(u)),
           Judged(t)'
    PROVE  Judged(t)
  <1>1. tool'[t].own = tool[t].own /\ tool'[t].cap = tool[t].cap
    BY DEF Keeps, Made
  <1>2. ASSUME NEW u \in Tools, Alike(t)'
        PROVE  /\ tool[u].phase = "ready" /\ ~tool[u].own => tool[u].cap = tool[t].cap
               /\ tool[u].phase # "failed"
    BY <1>1, <1>2 DEF Alike, Keeps, Made
  <1> QED
    BY <1>1, <1>2 DEF Judged, Alike

\* The tools' part of the invariant survives every action but a constructor.
LEMMA ToolsStay ==
    ASSUME AInv, TypeOK', NEW t \in Tools,
           \A s \in SessionIds : Wanes(s), \A u \in Tools : Keeps(u),
           ParkedStays(t),
           (sess[t].state = "open")' /\ tool'[t].poisoned => tool[t].poisoned \/ Parked(t)',
           (sess[t].state = "open")' /\ tool'[t].session # tool[t].session => Parked(t)'
    PROVE  (ToolOK(t) /\ Kept(t) /\ Locked(t) /\ ToolLimit(t))'
  <1>1. ToolOK(t) /\ Kept(t) /\ Locked(t) /\ ToolLimit(t) /\ Keeps(t) /\ Wanes(t)
    BY DEF AInv, SessionIds
  <1>2. Home(t)' = Home(t) /\ Home(t) \in SessionIds
    BY <1>1 DEF Home, Keeps, SessionIds
  <1>3. ToolOK(t)'
    BY <1>1, <1>2 DEF ToolOK, Keeps
  <1>4. Kept(t)'
    BY <1>1 DEF Kept, Keeps, Wanes, ParkedStays
  <1>5. Locked(t)'
    <2>0. PICK h \in SessionIds : h = Home(t)
      BY <1>2
    <2>1. Wanes(h)
      OBVIOUS
    <2>2. tool[t].own => h = t
      BY <2>0 DEF Home
    <2> QED
      BY <1>1, <1>2, <2>0, <2>1, <2>2 DEF Locked, Keeps, Wanes, Live
  <1>6. ToolLimit(t)'
    <2>0. PICK h \in SessionIds : h = Home(t)
      BY <1>2
    <2>1. Wanes(h)
      OBVIOUS
    <2>2. tool[t].phase = "ready" /\ Judged(t)' => Judged(t)
      BY JudgedBefore DEF AInv
    <2> QED
      BY <1>1, <1>2, <2>0, <2>1, <2>2 DEF ToolLimit, Keeps, Wanes, Live, RowLimit
  <1> QED
    BY <1>3, <1>4, <1>5, <1>6

\* A call that does not move stays as it should be.
LEMMA CallStays ==
    ASSUME AInv, NEW c \in Calls, call'[c] = call[c],
           (\A u \in Tools : Keeps(u)) \/ (\E u \in Tools : Made(u))
    PROVE  CallOK(c)'
  <1> DEFINE t == call[c].tool
  <1>1. CallOK(c) /\ TypeOK
    BY DEF AInv
  <1>2. CASE t \in Tools /\ tool[t].phase = "ready"
    <2>1. /\ tool'[t].phase = "ready" /\ tool'[t].own = tool[t].own /\ tool'[t].cap = tool[t].cap
      BY <1>2 DEF Keeps, Made
    <2>2. Judged(t)' => Judged(t)
      BY <1>1, <1>2, JudgedBefore
    <2>3. Home(t)' = Home(t) /\ RowLimit(tool[t])' = RowLimit(tool[t])
      BY <2>1 DEF Home, RowLimit
    <2>4. Honest(c) => Honest(c)'
      BY <2>2 DEF Honest, Unswayed
    <2> HIDE DEF t
    <2> QED
      BY <1>1, <1>2, <2>1, <2>2, <2>3, <2>4 DEF CallOK, t
  <1>3. CASE ~(t \in Tools /\ tool[t].phase = "ready")
    BY <1>1, <1>3 DEF CallOK
  <1> QED
    BY <1>2, <1>3

-----------------------------------------------------------------------------
(* The constructor.                                                        *)

\* What a lent session keeps through a constructor, whether that succeeds or not: all but its limits.
Relimited(r, o) ==
    /\ r.state = sess[Ext].state /\ r.readonly = sess[Ext].readonly /\ r.views = sess[Ext].views
    /\ r.limit = RowLimit(o)

\* The sessions after a constructor that got as far as its session: only the target moved, a lent one
\* only in its limits.
LEMMA Targets ==
    ASSUME AInv, NEW t \in Tools, NEW o \in Options, NEW r, r \in {Configured(t, o)} \cup AbortedSetup(t, o)
    PROVE  /\ r \in SessionRec
           /\ o.own => Target(t, o) = t
           /\ ~o.own => Target(t, o) = Ext /\ Relimited(r, o)
  <1>1. /\ o.own \in BOOLEAN /\ o.readOnly \in BOOLEAN /\ o.dir \in {"temp", "db"} /\ RowLimit(o) \in Nat
        /\ o.bytes \in Nat
    BY OptionType
  <1>2. sess[Ext] \in SessionRec
    BY DEF AInv, TypeOK, SessionIds
  <1>3. CASE o.own
    <2>1. Shut \in SessionRec
      BY DEF Shut, NewSession, SessionRec
    <2>2. Configured(t, o) \in SessionRec
      <3>1. NewSession \in SessionRec
        BY DEF NewSession, SessionRec
      <3> QED
        BY <1>1, <1>3, <3>1 DEF Configured, SessionRec
    <2> QED
      BY <1>3, <2>1, <2>2 DEF AbortedSetup, Target
  <1>4. CASE ~o.own
    <2> DEFINE lean == [sess[Ext] EXCEPT !.limit = RowLimit(o)]
               full == [sess[Ext] EXCEPT !.limit = RowLimit(o), !.bytes = ByteLimit(o, sess[Ext].bytes)]
    <2>1. r \in {lean, full}
      BY <1>4 DEF Configured, AbortedSetup
    <2>2. ByteLimit(o, sess[Ext].bytes) \in Nat
      BY <1>1, <1>2 DEF ByteLimit, SessionRec
    <2>3. lean \in SessionRec /\ full \in SessionRec
      BY <1>1, <1>2, <2>2 DEF SessionRec
    <2>4. Relimited(lean, o) /\ Relimited(full, o)
      BY <1>2 DEF Relimited, SessionRec
    <2> QED
      BY <1>4, <2>1, <2>3, <2>4 DEF Target
  <1> QED
    BY <1>3, <1>4

\* A constructor that succeeds keeps the invariant.
LEMMA ConstructStep ==
    ASSUME AInv, NEW t \in Tools, NEW o \in Options, Construct(t, o)
    PROVE  AInv'
  <1> DEFINE s == Target(t, o)
             r == Configured(t, o)
             n == [phase |-> "ready", own |-> o.own, readOnly |-> o.readOnly, cap |-> o.cap,
                   poisoned |-> FALSE, session |-> Target(t, o)]
  <1>1. TypeOK /\ ToolOK(t) /\ Kept(t) /\ (\A c \in Calls : CallOK(c))
    BY DEF AInv
  <1>2. /\ r \in SessionRec
        /\ o.own => s = t
        /\ ~o.own => s = Ext /\ Relimited(r, o)
    BY Targets
  <1>3. /\ o.own \in BOOLEAN /\ o.readOnly \in BOOLEAN /\ o.cap \in Nat /\ RowLimit(o) \in Nat
        /\ s \in SessionIds
    BY <1>2, OptionType DEF SessionIds
  <1>4. /\ sess' = [sess EXCEPT ![s] = r] /\ tool' = [tool EXCEPT ![t] = n] /\ call' = call
        /\ tool[t].phase = "new"
    BY DEF Construct
  <1>5. n \in ToolRec /\ r.limit = RowLimit(o) /\ (r.readonly = IF o.readOnly THEN 2 ELSE 0)
        /\ (o.own => ~r.views)
    <2>1. r.limit = RowLimit(o) /\ (o.own => ~r.views)
      BY <1>1, <1>2 DEF Configured, NewSession, TypeOK, SessionRec, SessionIds, Relimited
    <2>2. r.readonly = IF o.readOnly THEN 2 ELSE 0
      <3>1. CASE o.own
        BY <3>1 DEF Configured, NewSession
      <3>2. CASE ~o.own
        BY <1>1, <1>2, <3>2 DEF Construct, Acceptable, TypeOK, SessionRec, SessionIds, Relimited
      <3> QED
        BY <3>1, <3>2
    <2> QED
      BY <1>3, <2>1, <2>2 DEF ToolRec
  <1> HIDE DEF r, n, s
  <1>6. TypeOK'
    BY <1>1, <1>2, <1>3, <1>4, <1>5 DEF TypeOK
  <1>7. tool'[t] = n /\ (\A u \in Tools \ {t} : tool'[u] = tool[u]) /\ Made(t)
    BY <1>1, <1>4 DEF Made, TypeOK, n
  <1>8. \A u \in Tools : (ToolOK(u) /\ Kept(u) /\ Locked(u) /\ ToolLimit(u))'
    <2> SUFFICES ASSUME NEW u \in Tools
                 PROVE  (ToolOK(u) /\ Kept(u) /\ Locked(u) /\ ToolLimit(u))'
      OBVIOUS
    <2>0. ToolOK(u) /\ Kept(u) /\ Locked(u) /\ ToolLimit(u)
      BY DEF AInv
    <2>1. \A x \in SessionIds : sess'[x] = IF x = s THEN r ELSE sess[x]
      BY <1>1, <1>4 DEF TypeOK
    <2>2. u \in SessionIds /\ Ext \in SessionIds /\ u # Ext
      BY NamesAssumption DEF SessionIds
    <2>3. CASE u = t
      <3>1. Home(u)' = s /\ tool'[u] = n
        BY <1>2, <1>3, <1>7, <2>3 DEF Home, n
      <3>2. ToolOK(u)'
        BY <3>1 DEF ToolOK, n, s
      <3>3. Kept(u)'
        <4>1. CASE o.own
          BY <1>2, <3>1, <4>1, <2>3 DEF Kept, n, s
        <4>2. CASE ~o.own
          BY <1>2, <1>4, <2>0, <2>1, <2>2, <2>3, <4>2 DEF Kept
        <4> QED
          BY <4>1, <4>2
      <3>4. Locked(u)'
        BY <1>2, <1>3, <1>5, <2>1, <2>2, <2>3, <3>1 DEF Locked, n
      <3>5. ToolLimit(u)'
        BY <1>3, <1>5, <2>1, <3>1 DEF ToolLimit, RowLimit, n
      <3> QED
        BY <3>2, <3>3, <3>4, <3>5
    <2>4. CASE u # t
      <3>1. tool'[u] = tool[u] /\ Home(u)' = Home(u) /\ Home(u) \in SessionIds
            /\ (Home(u) = s => ~o.own /\ ~tool[u].own)
        BY <1>2, <1>7, <2>2, <2>4, NamesAssumption DEF Home, SessionIds
      <3>2. /\ sess'[Home(u)].state = sess[Home(u)].state
            /\ sess'[Home(u)].readonly = sess[Home(u)].readonly
            /\ sess'[Home(u)].views = sess[Home(u)].views
        <4>1. CASE Home(u) = s
          BY <1>1, <1>2, <2>1, <2>2, <3>1, <4>1 DEF TypeOK, SessionRec, Relimited
        <4>2. CASE Home(u) # s
          BY <2>1, <3>1, <4>2
        <4> QED
          BY <4>1, <4>2
      <3>3. ToolOK(u)'
        BY <2>0, <3>1 DEF ToolOK
      <3>4. Kept(u)'
        <4>1. sess'[u] = sess[u]
          BY <1>2, <2>1, <2>2, <2>4
        <4> QED
          BY <1>4, <2>0, <3>1, <4>1 DEF Kept, Parked
      <3>5. Locked(u)'
        <4>1. tool[u].own => Home(u) = u
          BY DEF Home
        <4> QED
          BY <2>0, <3>1, <3>2, <4>1 DEF Locked, Live
      <3>6. ToolLimit(u)'
        <4>1. tool[u].phase = "ready" /\ Judged(u)' => Judged(u)
          BY <1>1, <1>7, JudgedBefore
        <4>2. CASE Home(u) = s
          <5>1. Judged(u)' => o.cap = tool[u].cap
            BY <1>2, <1>7, <3>1, <4>2 DEF Judged, Alike, n
          <5>2. sess'[Home(u)].limit = RowLimit(o)
            BY <1>5, <2>1, <3>1, <4>2
          <5> QED
            BY <3>1, <5>1, <5>2 DEF ToolLimit, RowLimit
        <4>3. CASE Home(u) # s
          BY <2>0, <2>1, <3>1, <4>1, <4>3 DEF ToolLimit, RowLimit
        <4> QED
          BY <4>2, <4>3
      <3> QED
        BY <3>3, <3>4, <3>5, <3>6
    <2> QED
      BY <2>3, <2>4
  <1>9. \A c \in Calls : CallOK(c)'
    BY <1>4, <1>7, CallStays
  <1> QED
    BY <1>6, <1>8, <1>9 DEF AInv

\* A constructor that fails keeps the invariant: what it opened it closed, and no lent tool is judged
\* any more.
LEMMA ConstructFailsStep ==
    ASSUME AInv, NEW t \in Tools, NEW o \in Options, ConstructFails(t, o)
    PROVE  AInv'
  <1>0. PICK r \in AbortedSetup(t, o) : sess' = sess \/ sess' = [sess EXCEPT ![Target(t, o)] = r]
    BY DEF ConstructFails, AbortedSetup
  <1> DEFINE s == Target(t, o)
  <1>1. TypeOK /\ ToolOK(t) /\ Kept(t) /\ (\A c \in Calls : CallOK(c))
    BY DEF AInv
  <1>2. /\ r \in SessionRec
        /\ o.own => s = t /\ r = Shut
        /\ ~o.own => s = Ext /\ Relimited(r, o)
    BY <1>0, Targets DEF AbortedSetup
  <1>3. s \in SessionIds /\ RowLimit(o) \in Nat
    BY <1>2, OptionType DEF SessionIds
  <1>4. /\ sess' = sess \/ sess' = [sess EXCEPT ![s] = r]
        /\ tool' = [tool EXCEPT ![t].phase = "failed"] /\ call' = call
        /\ tool[t].phase = "new"
    BY <1>0 DEF ConstructFails
  <1> HIDE DEF s
  <1>6. TypeOK'
    <2>1. sess' \in [SessionIds -> SessionRec]
      BY <1>1, <1>2, <1>3, <1>4 DEF TypeOK
    <2>2. tool' \in [Tools -> ToolRec]
      BY <1>1, <1>4 DEF TypeOK, ToolRec
    <2> QED
      BY <1>1, <1>4, <2>1, <2>2 DEF TypeOK
  <1>7. /\ tool'[t] = [tool[t] EXCEPT !.phase = "failed"]
        /\ (\A u \in Tools \ {t} : tool'[u] = tool[u]) /\ Made(t)
    BY <1>1, <1>4 DEF Made, TypeOK, ToolRec
  <1>8. \A u \in Tools : (ToolOK(u) /\ Kept(u) /\ Locked(u) /\ ToolLimit(u))'
    <2> SUFFICES ASSUME NEW u \in Tools
                 PROVE  (ToolOK(u) /\ Kept(u) /\ Locked(u) /\ ToolLimit(u))'
      OBVIOUS
    <2>0. ToolOK(u) /\ Kept(u) /\ Locked(u) /\ ToolLimit(u)
      BY DEF AInv
    <2>1. (\A x \in SessionIds : sess'[x] = sess[x])
          \/ (\A x \in SessionIds : sess'[x] = IF x = s THEN r ELSE sess[x])
      BY <1>1, <1>4 DEF TypeOK
    <2>2. u \in SessionIds /\ Ext \in SessionIds /\ u # Ext
      BY NamesAssumption DEF SessionIds
    <2>3. CASE u = t
      <3>1. tool'[u].phase = "failed" /\ tool'[u].session = NoSession
        BY <1>1, <1>4, <1>7, <2>3 DEF ToolOK, TypeOK, ToolRec
      <3>2. (sess[u].state # "open")'
        <4>1. sess[u].state # "open"
          BY <1>4, <2>0, <2>3 DEF Kept
        <4>2. u = s => r = Shut
          BY <1>2, <2>2
        <4> QED
          BY <2>1, <2>2, <4>1, <4>2 DEF Shut, NewSession
      <3> QED
        BY <3>1, <3>2 DEF ToolOK, Kept, Locked, ToolLimit
    <2>4. CASE u # t
      <3>1. tool'[u] = tool[u] /\ Home(u)' = Home(u) /\ Home(u) \in SessionIds
            /\ (Home(u) = s => ~o.own /\ ~tool[u].own)
        BY <1>2, <1>7, <2>2, <2>4, NamesAssumption DEF Home, SessionIds
      <3>2. /\ sess'[Home(u)].state = sess[Home(u)].state
            /\ sess'[Home(u)].readonly = sess[Home(u)].readonly
            /\ sess'[Home(u)].views = sess[Home(u)].views
        <4>1. CASE Home(u) = s
          BY <1>1, <1>2, <2>1, <2>2, <3>1, <4>1 DEF TypeOK, SessionRec, Relimited
        <4>2. CASE Home(u) # s
          BY <2>1, <3>1, <4>2
        <4> QED
          BY <4>1, <4>2
      <3>3. ToolOK(u)'
        BY <2>0, <3>1 DEF ToolOK
      <3>4. Kept(u)'
        <4>1. sess'[u] = sess[u]
          BY <1>2, <2>1, <2>2, <2>4
        <4> QED
          BY <1>4, <2>0, <3>1, <4>1 DEF Kept, Parked
      <3>5. Locked(u)'
        <4>1. tool[u].own => Home(u) = u
          BY DEF Home
        <4> QED
          BY <2>0, <3>1, <3>2, <4>1 DEF Locked, Live
      <3>6. ToolLimit(u)'
        <4>1. tool'[t].phase = "failed"
          BY <1>1, <1>4 DEF TypeOK, ToolRec
        <4>2. Judged(u)' => tool[u].own
          BY <3>1, <4>1 DEF Judged, Alike
        <4>3. Judged(u)' => Judged(u) /\ Home(u) # s
          BY <3>1, <4>2 DEF Judged
        <4> QED
          BY <2>0, <2>1, <3>1, <4>3 DEF ToolLimit, RowLimit
      <3> QED
        BY <3>3, <3>4, <3>5, <3>6
    <2> QED
      BY <2>3, <2>4
  <1>9. \A c \in Calls : CallOK(c)'
    BY <1>4, <1>7, CallStays
  <1> QED
    BY <1>6, <1>8, <1>9 DEF AInv

-----------------------------------------------------------------------------
(* The other actions: sessions wane, tools keep what they are.             *)

\* A step that constructs nothing keeps the invariant when the calls it moved are as they should be and
\* what it says of poisoning and dropping sessions is covered by a parked one.
LEMMA QuietStep ==
    ASSUME AInv, TypeOK',
           \A s \in SessionIds : Wanes(s), \A t \in Tools : Keeps(t),
           \A c \in Calls : call'[c] = call[c] \/ CallOK(c)',
           \A t \in Tools :
               /\ ParkedStays(t)
               /\ (sess[t].state = "open")' =>
                      /\ tool'[t].poisoned => tool[t].poisoned \/ Parked(t)'
                      /\ tool'[t].session # tool[t].session => Parked(t)'
    PROVE  AInv'
  <1>1. \A t \in Tools : (ToolOK(t) /\ Kept(t) /\ Locked(t) /\ ToolLimit(t))'
    BY ToolsStay
  <1>2. \A c \in Calls : CallOK(c)'
    BY CallStays
  <1> QED
    BY <1>1, <1>2 DEF AInv

\* Sessions and tools that do not move wane and keep.
LEMMA Unmoved ==
    ASSUME AInv
    PROVE  /\ sess' = sess => \A s \in SessionIds : Wanes(s)
           /\ tool' = tool => \A t \in Tools : Keeps(t)
           /\ call' = call => \A t \in Tools : ParkedStays(t)
  BY DEF Wanes, Live, Keeps, ParkedStays, Parked

\* Calls typed one at a time.
LEMMA CallType ==
    ASSUME TypeOK, NEW c \in Calls
    PROVE  /\ call[c] \in CallRec /\ NewCall \in CallRec
           /\ \A r \in CallRec : [call EXCEPT ![c] = r] \in [Calls -> CallRec]
  BY DEF TypeOK, NewCall, CallRec

\* A refused query answers with an error and moves nothing else.
LEMMA QueryRefusedStep ==
    ASSUME AInv, NEW c \in Calls, NEW t \in Tools, NEW q \in Statements, QueryRefused(c, t, q)
    PROVE  AInv'
  <1> DEFINE r == [NewCall EXCEPT !.phase = "done", !.answer = "error"]
  <1>1. call' = [call EXCEPT ![c] = r] /\ sess' = sess /\ tool' = tool /\ call[c].phase = "new"
    BY DEF QueryRefused
  <1>2. TypeOK /\ r \in CallRec /\ r.phase = "done" /\ r.answer = "error"
    BY DEF AInv, NewCall, CallRec
  <1> HIDE DEF r
  <1>3. TypeOK'
    BY <1>1, <1>2 DEF TypeOK
  <1>4. call'[c] = r /\ \A d \in Calls : d # c => call'[d] = call[d]
    BY <1>1, <1>2 DEF TypeOK
  <1>5. CallOK(c)'
    BY <1>2, <1>4 DEF CallOK
  <1>6. \A u \in Tools : ParkedStays(u)
    BY <1>1, <1>4 DEF ParkedStays, Parked
  <1> QED
    BY <1>1, <1>3, <1>4, <1>5, <1>6, QuietStep, Unmoved

\* A query that starts carries the cap and the limit of its tool.
LEMMA QueryStep ==
    ASSUME AInv, NEW c \in Calls, NEW t \in Tools, NEW q \in Statements, Query(c, t, q)
    PROVE  AInv'
  <1>0. PICK s \in SessionIds : s = tool[t].session /\ sess[s].state = "open"
    BY DEF Query, Barred
  <1>0a. PICK lasting \in BOOLEAN :
             sess' = [sess EXCEPT ![s].ops = @ \cup {c}, ![s].swayed = @ \/ (lasting /\ q.settings)]
    BY <1>0 DEF Query
  <1> DEFINE r == [NewCall EXCEPT !.phase = IF q.net THEN "racing" ELSE "awaiting",
                                  !.tool = t, !.on = s, !.cap = EffectiveCap(t, q),
                                  !.limit = sess[s].limit, !.bytes = sess[s].bytes,
                                  !.swayed = sess[s].swayed \/ q.settings]
             n == [sess[s] EXCEPT !.ops = sess[s].ops \cup {c},
                                  !.swayed = sess[s].swayed \/ (lasting /\ q.settings)]
  <1>1. /\ call' = [call EXCEPT ![c] = r] /\ sess' = [sess EXCEPT ![s] = n] /\ tool' = tool
        /\ call[c].phase = "new" /\ tool[t].phase = "ready"
    <2>1. sess' = [sess EXCEPT ![s] = n]
      BY <1>0a DEF AInv, TypeOK
    <2> QED
      BY <1>0, <2>1 DEF Query
  <1>2. TypeOK /\ ToolOK(t) /\ ToolLimit(t) /\ sess[s] \in SessionRec /\ tool[t] \in ToolRec
    BY DEF AInv, TypeOK
  <1>3. EffectiveCap(t, q) \in Nat /\ EffectiveCap(t, q) <= tool[t].cap
    <2>1. q.asked \in Caps
      BY DEF Statements
    <2>2. ASSUME NEW k \in Caps PROVE k \in Nat
      BY CapsAssumption
    <2>3. q.asked \in Nat /\ tool[t].cap \in Nat
      BY <1>2, <2>1, <2>2 DEF ToolRec
    <2> QED
      BY <2>3 DEF EffectiveCap, Lower
  <1>4. r \in CallRec /\ r.phase \in {"racing", "awaiting"} /\ r.tool = t /\ r.on = s
        /\ r.answer = "none" /\ r.cap = EffectiveCap(t, q) /\ r.limit = sess[s].limit
    <2>1. sess[s].limit \in Nat /\ sess[s].bytes \in Nat
      BY <1>2 DEF SessionRec
    <2> DEFINE sw == sess[s].swayed \/ q.settings
    <2>2. sw \in BOOLEAN
      OBVIOUS
    <2> HIDE DEF sw
    <2>3. r = [NewCall EXCEPT !.phase = IF q.net THEN "racing" ELSE "awaiting",
                              !.tool = t, !.on = s, !.cap = EffectiveCap(t, q),
                              !.limit = sess[s].limit, !.bytes = sess[s].bytes, !.swayed = sw]
      BY DEF sw
    <2> HIDE DEF r
    <2> QED
      BY <1>2, <1>3, <2>1, <2>2, <2>3 DEF NewCall, CallRec, SessionRec
  <1>5. n \in SessionRec /\ n.state = sess[s].state /\ n.limit = sess[s].limit
        /\ n.readonly = sess[s].readonly /\ n.views = sess[s].views
    <2>1. sess[s].ops \cup {c} \in SUBSET Calls
      BY <1>2 DEF SessionRec
    <2> DEFINE sw == sess[s].swayed \/ (lasting /\ q.settings)
    <2>2. sw \in BOOLEAN
      OBVIOUS
    <2>3. n = [sess[s] EXCEPT !.ops = sess[s].ops \cup {c}, !.swayed = sw]
      OBVIOUS
    <2> HIDE DEF sw, n
    <2> QED
      BY <1>2, <2>1, <2>2, <2>3 DEF SessionRec
  <1> HIDE DEF r, n
  <1>6. TypeOK'
    BY <1>1, <1>2, <1>4, <1>5 DEF TypeOK
  <1>7. call'[c] = r /\ \A d \in Calls : d # c => call'[d] = call[d]
    BY <1>1, <1>2 DEF TypeOK
  <1>8. \A x \in SessionIds : Wanes(x)
    BY <1>1, <1>2, <1>5 DEF Wanes, Live, TypeOK
  <1>9. CallOK(c)'
    <2>1. s = Home(t)
      BY <1>0, <1>2, NamesAssumption DEF ToolOK, SessionIds
    <2>2. Home(t)' = Home(t) /\ RowLimit(tool[t])' = RowLimit(tool[t]) /\ (Judged(t)' <=> Judged(t))
      BY <1>1 DEF Home, RowLimit, Judged, Alike
    <2>3. Judged(t) => sess[s].limit = RowLimit(tool[t])
      BY <1>0, <1>1, <1>2, <2>1 DEF ToolLimit
    <2> QED
      BY <1>1, <1>3, <1>4, <1>7, <2>1, <2>2, <2>3 DEF CallOK
  <1>10. \A u \in Tools : ParkedStays(u)
    BY <1>1, <1>7 DEF ParkedStays, Parked
  <1> QED
    BY <1>1, <1>6, <1>7, <1>8, <1>9, <1>10, QuietStep, Unmoved

\* What is flagged is cut, whatever stopped the engine; and the engine's limits, one row past the tool's
\* cap and more bytes than the byte cap lets through, cut nothing that the flag does not tell.
LEMMA FlagsAgree ==
    ASSUME NEW total \in Nat, NEW n \in 0 .. total, NEW cap \in Nat, NEW most \in Nat
    PROVE  /\ n > cap \/ Lower(n, cap) > most => Lower(Lower(n, cap), most) < total
           /\ (n = total \/ n > cap \/ n > most) /\ Lower(Lower(n, cap), most) < total
                  => n > cap \/ Lower(n, cap) > most
  BY DEF Lower

\* A byte limit out of the byte cap's reach stops the engine past the byte cap.
LEMMA ByteStop ==
    ASSUME NEW n \in Nat, NEW bytes \in Nat, bytes > RowBytes * ByteCap, n * RowBytes >= bytes
    PROVE  n > ByteCap
  <1>1. RowBytes \in Nat /\ ByteCap \in Nat
    BY EngineAssumption, CapsAssumption
  <1>2. PICK r \in Nat, m \in Nat : r = RowBytes /\ m = ByteCap
    BY <1>1
  <1>3. n <= m => n * r <= m * r
    OBVIOUS
  <1>4. n * r \in Nat /\ m * r \in Nat /\ m * r = r * m
    OBVIOUS
  <1> QED
    BY <1>2, <1>3, <1>4

\* A native call that settles is answered or, when abandoned, waits for its callback.
LEMMA EngineSettlesStep ==
    ASSUME AInv, NEW c \in Calls, EngineSettles(c)
    PROVE  AInv'
  <1>1. TypeOK /\ CallOK(c) /\ call[c] \in CallRec
    BY DEF AInv, TypeOK
  <1>2. call[c].phase \in {"awaiting", "racing", "abandoned"} /\ sess' = LeftBy(c) /\ tool' = tool
    BY DEF EngineSettles
  <1>3. PICK t \in Tools : t = call[c].tool
    BY <1>2, CallUnderWay
  <1>3a. tool[t].phase = "ready" /\ call[c].on = Home(t) /\ call[c].on \in SessionIds
    BY <1>2, <1>3, CallUnderWay
  <1>4. sess' \in [SessionIds -> SessionRec] /\ \A x \in SessionIds : Wanes(x)
    BY <1>1, <1>2, <1>3a, LeaveWanes
  <1>5. Home(t)' = Home(t) /\ (Judged(t)' <=> Judged(t))
    BY <1>2 DEF Home, Judged, Alike
  <1>6. CASE call[c].phase # "abandoned"
    <2>1. ASSUME NEW r \in CallRec, call' = [call EXCEPT ![c] = r], r.phase = "done",
                 \/ r.answer # "rows"
                 \/ /\ r.tool = t /\ (r.truncated => r.partial)
                    /\ r.bytes = call[c].bytes /\ r.swayed = call[c].swayed
                    /\ (Unswayed(c) /\ Judged(t) /\ r.partial => r.truncated)
          PROVE  AInv'
      <3>1. TypeOK'
        BY <1>1, <1>2, <1>4, <2>1 DEF TypeOK
      <3>2. call'[c] = r /\ \A d \in Calls : d # c => call'[d] = call[d]
        BY <1>1, <2>1 DEF TypeOK
      <3>3. CallOK(c)'
        <4>1. r.answer = "rows" => Honest(c)'
          <5> SUFFICES ASSUME r.answer = "rows" PROVE Honest(c)'
            OBVIOUS
          <5>1. call'[c].tool = t /\ call'[c].bytes = call[c].bytes /\ call'[c].swayed = call[c].swayed
            BY <2>1, <3>2
          <5>2. Unswayed(c)' => Unswayed(c)
            BY <5>1 DEF Unswayed
          <5>3. Judged(call[c].tool)' => Judged(t)
            BY <1>5, <5>1
          <5>4. (call[c].truncated => call[c].partial)'
            BY <2>1, <3>2
          <5>5. (Unswayed(c) /\ Judged(call[c].tool) /\ call[c].partial => call[c].truncated)'
            BY <2>1, <3>2, <5>2, <5>3
          <5> QED
            BY <5>4, <5>5 DEF Honest
        <4>2. r.answer = "rows" => t \in Tools /\ tool'[t].phase = "ready" /\ r.tool = t
          BY <1>2, <1>3a, <2>1
        <4> QED
          BY <2>1, <3>2, <4>1, <4>2 DEF CallOK
      <3>4. \A u \in Tools : ParkedStays(u)
        BY <1>2, <1>6, <3>2 DEF ParkedStays, Parked
      <3> QED
        BY <1>2, <1>4, <3>1, <3>2, <3>3, <3>4, QuietStep, Unmoved
    <2>2. CASE call' = [call EXCEPT ![c] = [NewCall EXCEPT !.phase = "done", !.answer = "error"]]
      <3> DEFINE r == [NewCall EXCEPT !.phase = "done", !.answer = "error"]
      <3>1. r \in CallRec /\ r.phase = "done" /\ r.answer # "rows"
        BY DEF NewCall, CallRec
      <3> QED
        BY <2>1, <2>2, <3>1
    <2>3. CASE \E answered \in Answers(c) : call' = [call EXCEPT ![c] = answered]
      <3> PICK answered \in Answers(c) : call' = [call EXCEPT ![c] = answered]
        BY <2>3
      <3> PICK total \in 0 .. MaxTotal : answered \in {Answered(c, total, n) : n \in Produced(c, total)}
        BY DEF Answers
      <3>1. PICK n \in Produced(c, total) : call' = [call EXCEPT ![c] = Answered(c, total, n)]
        OBVIOUS
      <3> DEFINE r == Answered(c, total, n)
      <3>2. total \in Nat /\ n \in 0 .. total /\ ByteCap \in Nat /\ call[c].cap \in Nat
            /\ call[c].limit \in Nat /\ call[c].bytes \in Nat
        <4>1. total \in Nat /\ ByteCap \in Nat
          BY CapsAssumption
        <4>2. n \in 0 .. total
          BY DEF Produced
        <4>3. call[c].cap \in Nat /\ call[c].limit \in Nat /\ call[c].bytes \in Nat
          BY <1>1 DEF CallRec
        <4> QED
          BY <4>1, <4>2, <4>3
      <3>3. r \in CallRec /\ r.phase = "done" /\ r.tool = t
            /\ r.bytes = call[c].bytes /\ r.swayed = call[c].swayed
            /\ r.partial = (Lower(Lower(n, call[c].cap), ByteCap) < total)
            /\ r.truncated = (n > call[c].cap \/ Lower(n, call[c].cap) > ByteCap)
        <4> DEFINE p == Lower(Lower(n, call[c].cap), ByteCap) < total
                   f == n > call[c].cap \/ Lower(n, call[c].cap) > ByteCap
        <4>1. p \in BOOLEAN /\ f \in BOOLEAN
          OBVIOUS
        <4>2. r = [NewCall EXCEPT !.phase = "done", !.tool = t, !.answer = "rows",
                                  !.bytes = call[c].bytes, !.swayed = call[c].swayed,
                                  !.partial = p, !.truncated = f]
          BY <1>3 DEF Answered
        <4> HIDE DEF p, f, r
        <4>3. r \in CallRec /\ r.phase = "done" /\ r.tool = t /\ r.partial = p /\ r.truncated = f
              /\ r.bytes = call[c].bytes /\ r.swayed = call[c].swayed
          <5> DEFINE b == call[c].bytes
                     w == call[c].swayed
          <5>1. b \in Nat /\ w \in BOOLEAN
            BY <1>1 DEF CallRec
          <5>2. r = [NewCall EXCEPT !.phase = "done", !.tool = t, !.answer = "rows",
                                    !.bytes = b, !.swayed = w, !.partial = p, !.truncated = f]
            BY <4>2
          <5> HIDE DEF b, w
          <5>3. r.phase = "done" /\ r.tool = t /\ r.partial = p /\ r.truncated = f
                /\ r.bytes = b /\ r.swayed = w
            BY <5>2 DEF NewCall
          <5>4. r \in CallRec
            <6>1. r = [phase |-> "done", tool |-> t, on |-> NoSession, parked |-> NoSession, cap |-> 1,
                       limit |-> 0, bytes |-> b, swayed |-> w, answer |-> "rows", partial |-> p,
                       truncated |-> f]
              BY <5>2 DEF NewCall
            <6> QED
              BY <4>1, <5>1, <6>1 DEF CallRec
          <5> QED
            BY <5>3, <5>4 DEF b, w
        <4> QED
          BY <4>3 DEF p, f
      <3>4. r.truncated => r.partial
        BY <3>2, <3>3, FlagsAgree
      <3>5. ASSUME Unswayed(c), Judged(t), r.partial PROVE r.truncated
        <4>1. call[c].cap <= tool[t].cap /\ call[c].limit = RowLimit(tool[t])
          BY <1>1, <1>2, <1>3, <1>6, <3>5 DEF CallOK
        <4>2. tool[t].cap \in Nat
          BY <1>1 DEF TypeOK, ToolRec
        <4>3. call[c].limit > call[c].cap
          BY <3>2, <4>1, <4>2 DEF RowLimit
        <4>4. n = total \/ n >= call[c].limit
              \/ (call[c].bytes > RowBytes * ByteCap /\ n * RowBytes >= call[c].bytes)
          BY <3>5 DEF Produced, StopsAt, Unswayed
        <4>5. n = total \/ n > call[c].cap \/ n > ByteCap
          BY <3>2, <4>3, <4>4, ByteStop
        <4> QED
          BY <3>2, <3>3, <3>5, <4>5, FlagsAgree
      <3> HIDE DEF r
      <3> QED
        BY <2>1, <3>1, <3>3, <3>4, <3>5 DEF r
    <2> QED
      BY <1>6, <2>2, <2>3 DEF EngineSettles
  <1>7. CASE call[c].phase = "abandoned"
    <2> DEFINE r == [call[c] EXCEPT !.phase = "settled"]
    <2>1. call' = [call EXCEPT ![c] = r]
      BY <1>7 DEF EngineSettles
    <2>2. r \in CallRec /\ r.phase = "settled" /\ r.tool = t /\ r.on = call[c].on
          /\ r.parked = call[c].parked /\ r.answer = call[c].answer
          /\ r.truncated = call[c].truncated /\ r.partial = call[c].partial
          /\ r.bytes = call[c].bytes /\ r.swayed = call[c].swayed
      BY <1>1, <1>3 DEF CallRec
    <2> HIDE DEF r
    <2>3. TypeOK'
      BY <1>1, <1>2, <1>4, <2>1, <2>2 DEF TypeOK
    <2>4. call'[c] = r /\ \A d \in Calls : d # c => call'[d] = call[d]
      BY <1>1, <2>1 DEF TypeOK
    <2>5. CallOK(c)'
      <3>1. Honest(c) => Honest(c)'
        BY <1>3, <1>5, <2>2, <2>4 DEF Honest, Unswayed
      <3> QED
        BY <1>1, <1>2, <1>3, <1>3a, <1>5, <1>7, <2>2, <2>4, <3>1 DEF CallOK
    <2>6. \A u \in Tools : ParkedStays(u)
      BY <1>7, <2>2, <2>4 DEF ParkedStays, Parked
    <2> QED
      BY <1>2, <1>4, <2>3, <2>4, <2>5, <2>6, QuietStep, Unmoved
  <1> QED
    BY <1>6, <1>7

\* A deadline that passes poisons the tool and parks the session it has, or had: then another call holds
\* it, or it is closed.
LEMMA DeadlinePassesStep ==
    ASSUME AInv, NEW c \in Calls, DeadlinePasses(c)
    PROVE  AInv'
  <1>1. TypeOK /\ CallOK(c) /\ call[c] \in CallRec /\ call[c].phase = "racing" /\ sess' = sess
    BY DEF AInv, TypeOK, DeadlinePasses
  <1>2. PICK t \in Tools : t = call[c].tool
    BY <1>1, CallUnderWay
  <1>3. /\ tool[t].phase = "ready" /\ call[c].on = Home(t) /\ tool[t] \in ToolRec
        /\ ToolOK(t) /\ Kept(t)
    BY <1>1, <1>2, CallUnderWay DEF AInv, TypeOK
  <1> DEFINE r == [call[c] EXCEPT !.phase = "abandoned", !.answer = "timeout", !.parked = tool[t].session]
             n == [tool[t] EXCEPT !.poisoned = TRUE]
  <1>4. call' = [call EXCEPT ![c] = r] /\ tool' = [tool EXCEPT ![t] = n]
    BY <1>1, <1>2 DEF DeadlinePasses, CallRec, TypeOK
  <1>5. r \in CallRec /\ r.phase = "abandoned" /\ r.tool = t /\ r.on = call[c].on
        /\ r.parked = tool[t].session /\ r.answer = "timeout"
    BY <1>1, <1>2, <1>3 DEF CallRec, ToolRec
  <1>6. n \in ToolRec /\ n.phase = tool[t].phase /\ n.own = tool[t].own /\ n.readOnly = tool[t].readOnly
        /\ n.cap = tool[t].cap /\ n.session = tool[t].session
    BY <1>3 DEF ToolRec
  <1> HIDE DEF r, n
  <1>7. TypeOK'
    BY <1>1, <1>4, <1>5, <1>6 DEF TypeOK
  <1>8. /\ call'[c] = r /\ \A d \in Calls : d # c => call'[d] = call[d]
        /\ tool'[t] = n /\ \A u \in Tools : u # t => tool'[u] = tool[u]
    BY <1>1, <1>4 DEF TypeOK
  <1>9. \A u \in Tools : Keeps(u)
    BY <1>6, <1>8 DEF Keeps
  <1>10. CallOK(c)'
    <2>1. Home(t)' = Home(t)
      BY <1>6, <1>8 DEF Home
    <2> QED
      BY <1>3, <1>5, <1>6, <1>8, <2>1 DEF CallOK, ToolOK
  <1>11. \A u \in Tools : ParkedStays(u) /\ (Parked(u) => Parked(u)')
    BY <1>1, <1>8 DEF ParkedStays, Parked
  <1>12. ASSUME NEW u \in Tools, (sess[u].state = "open")'
         PROVE  /\ tool'[u].poisoned => tool[u].poisoned \/ Parked(u)'
                /\ tool'[u].session # tool[u].session => Parked(u)'
    <2>1. CASE u = t
      <3>1. sess[t].state = "open" => tool[t].session = t \/ Parked(t)
        BY <1>3 DEF Kept
      <3>2. tool[t].session = t => Parked(t)'
        BY <1>5, <1>8 DEF Parked
      <3> QED
        BY <1>1, <1>6, <1>8, <1>11, <1>12, <2>1, <3>1, <3>2
    <2>2. CASE u # t
      BY <1>8, <2>2
    <2> QED
      BY <2>1, <2>2
  <1>13. \A s \in SessionIds : Wanes(s)
    BY <1>1, Unmoved
  <1> QED
    BY <1>7, <1>8, <1>9, <1>10, <1>11, <1>12, <1>13, QuietStep

\* The callback of an abandoned call closes the session it parked, unless that was lent.
LEMMA ReapStep ==
    ASSUME AInv, NEW c \in Calls, Reap(c)
    PROVE  AInv'
  <1> DEFINE r == [NewCall EXCEPT !.phase = "done", !.answer = "timeout"]
  <1>1. /\ TypeOK /\ CallOK(c) /\ call[c] \in CallRec /\ call[c].phase = "settled"
        /\ call' = [call EXCEPT ![c] = r] /\ sess' = Reaped(c) /\ tool' = tool
    BY DEF AInv, TypeOK, Reap
  <1>2. PICK t \in Tools : t = call[c].tool
    BY <1>1, CallUnderWay
  <1>3. r \in CallRec /\ r.phase = "done" /\ r.answer = "timeout"
    BY DEF NewCall, CallRec
  <1> HIDE DEF r
  <1>4. call[c].parked \in {Home(t), NoSession}
    BY <1>1, <1>2 DEF CallOK
  <1>5. CASE tool[t].own /\ call[c].parked # NoSession
    <2>1. call[c].parked = t /\ sess' = Closed(t) /\ t \in SessionIds
      BY <1>1, <1>2, <1>4, <1>5 DEF Reaped, Home, SessionIds
    <2>2. sess' \in [SessionIds -> SessionRec] /\ (\A s \in SessionIds : Wanes(s))
          /\ (sess[t].state # "open")'
      BY <1>1, <2>1, CloseWanes
    <2>3. TypeOK'
      BY <1>1, <1>3, <2>2 DEF TypeOK
    <2>4. call'[c] = r /\ \A d \in Calls : d # c => call'[d] = call[d]
      BY <1>1 DEF TypeOK
    <2>5. CallOK(c)'
      BY <1>3, <2>4 DEF CallOK
    <2>6. \A u \in Tools : ParkedStays(u)
      BY <2>1, <2>2, <2>4 DEF ParkedStays, Parked
    <2> QED
      BY <1>1, <2>2, <2>3, <2>4, <2>5, <2>6, QuietStep, Unmoved
  <1>6. CASE ~(tool[t].own /\ call[c].parked # NoSession)
    <2>1. sess' = sess
      BY <1>1, <1>2, <1>6 DEF Reaped
    <2>2. call[c].parked \notin Tools
      BY <1>4, <1>6, NamesAssumption DEF Home
    <2>3. TypeOK'
      BY <1>1, <1>3, <2>1 DEF TypeOK
    <2>4. call'[c] = r /\ \A d \in Calls : d # c => call'[d] = call[d]
      BY <1>1 DEF TypeOK
    <2>5. CallOK(c)'
      BY <1>3, <2>4 DEF CallOK
    <2>6. \A u \in Tools : ParkedStays(u)
      BY <2>2, <2>4 DEF ParkedStays, Parked
    <2> QED
      BY <1>1, <2>1, <2>3, <2>4, <2>5, <2>6, QuietStep, Unmoved
  <1> QED
    BY <1>5, <1>6

\* A view created later needs a session that takes writes, so no read-only tool is on it.
LEMMA AttachFileStep ==
    ASSUME AInv, NEW t \in Tools, AttachFile(t)
    PROVE  AInv'
  <1>1. TypeOK /\ tool[t] \in ToolRec /\ tool' = tool /\ call' = call
    BY DEF AInv, TypeOK, AttachFile
  <1>2. PICK s \in SessionIds : s = tool[t].session
    BY <1>1 DEF AttachFile, ToolRec
  <1> DEFINE n == [sess[s] EXCEPT !.views = TRUE]
  <1>3. sess' = [sess EXCEPT ![s] = n] /\ sess[s].readonly = 0
    BY <1>2 DEF AttachFile
  <1>4. n \in SessionRec /\ n.state = sess[s].state /\ n.limit = sess[s].limit
        /\ n.readonly = sess[s].readonly
    BY <1>1 DEF TypeOK, SessionRec
  <1> HIDE DEF n
  <1>5. TypeOK'
    BY <1>1, <1>3, <1>4 DEF TypeOK
  <1>6. \A x \in SessionIds : Wanes(x)
    BY <1>1, <1>3, <1>4 DEF Wanes, Live, TypeOK
  <1> QED
    BY <1>1, <1>5, <1>6, QuietStep, Unmoved

\* close() of a healthy tool closes its session; of a poisoned one forgets what a parked call will close.
LEMMA CloseToolStep ==
    ASSUME AInv, NEW t \in Tools, CloseTool(t)
    PROVE  AInv'
  <1>1. TypeOK /\ tool[t] \in ToolRec /\ ToolOK(t) /\ Kept(t) /\ call' = call
        /\ tool[t].session # NoSession /\ tool' = [tool EXCEPT ![t].session = NoSession]
    BY DEF AInv, TypeOK, CloseTool
  <1> DEFINE n == [tool[t] EXCEPT !.session = NoSession]
  <1>2. n \in ToolRec /\ n.phase = tool[t].phase /\ n.own = tool[t].own /\ n.readOnly = tool[t].readOnly
        /\ n.cap = tool[t].cap /\ n.session = NoSession /\ n.poisoned = tool[t].poisoned
    BY <1>1 DEF ToolRec
  <1>3. tool' = [tool EXCEPT ![t] = n]
    BY <1>1
  <1> HIDE DEF n
  <1>4. tool' \in [Tools -> ToolRec] /\ tool'[t] = n /\ \A u \in Tools : u # t => tool'[u] = tool[u]
    BY <1>1, <1>2, <1>3 DEF TypeOK
  <1>5. \A u \in Tools : Keeps(u)
    BY <1>2, <1>4 DEF Keeps
  <1>6. \A u \in Tools : ParkedStays(u) /\ (Parked(u) <=> Parked(u)')
    BY <1>1 DEF ParkedStays, Parked
  <1>7. CASE tool[t].poisoned
    <2>1. sess' = sess
      BY <1>7 DEF CloseTool
    <2>2. TypeOK'
      BY <1>1, <1>4, <2>1 DEF TypeOK
    <2>3. sess[t].state = "open" => Parked(t)'
      BY <1>1, <1>6, <1>7 DEF Kept
    <2>4. \A u \in Tools :
             (sess[u].state = "open")' =>
                      /\ tool'[u].poisoned => tool[u].poisoned \/ Parked(u)'
                      /\ tool'[u].session # tool[u].session => Parked(u)'
      BY <1>2, <1>4, <2>1, <2>3
    <2> QED
      BY <1>1, <1>5, <1>6, <2>1, <2>2, <2>4, QuietStep, Unmoved
  <1>8. CASE ~tool[t].poisoned
    <2>1. tool[t].own /\ tool[t].session = t /\ t \in SessionIds /\ sess' = Closed(t)
      BY <1>1, <1>8 DEF CloseTool, ToolOK, Home, SessionIds
    <2>2. sess' \in [SessionIds -> SessionRec] /\ (\A s \in SessionIds : Wanes(s))
          /\ (sess[t].state # "open")'
      BY <1>1, <2>1, CloseWanes
    <2>3. TypeOK'
      BY <1>1, <1>4, <2>2 DEF TypeOK
    <2>4. \A u \in Tools :
             (sess[u].state = "open")' =>
                      /\ tool'[u].poisoned => tool[u].poisoned \/ Parked(u)'
                      /\ tool'[u].session # tool[u].session => Parked(u)'
      BY <1>2, <1>4, <2>2
    <2> QED
      BY <1>1, <1>5, <1>6, <2>2, <2>3, <2>4, QuietStep
  <1> QED
    BY <1>7, <1>8

\* The caller may lock or close the session it lent, or change its limits; it cannot unlock it.
LEMMA CallerStep ==
    ASSUME AInv, CallerLocks \/ CallerSets \/ CallerCloses
    PROVE  AInv'
  <1>1. TypeOK /\ Ext \in SessionIds /\ tool' = tool /\ call' = call
    BY DEF AInv, CallerLocks, CallerSets, CallerCloses, SessionIds
  <1>2. CASE CallerLocks
    <2> DEFINE n == [sess[Ext] EXCEPT !.readonly = 2]
    <2>1. sess' = [sess EXCEPT ![Ext] = n]
      BY <1>2 DEF CallerLocks
    <2>2. n \in SessionRec /\ n.state = sess[Ext].state /\ n.limit = sess[Ext].limit
          /\ n.readonly = 2 /\ n.views = sess[Ext].views
      BY <1>1 DEF TypeOK, SessionRec
    <2> HIDE DEF n
    <2>3. TypeOK'
      BY <1>1, <2>1, <2>2 DEF TypeOK
    <2>4. \A x \in SessionIds : Wanes(x)
      BY <1>1, <2>1, <2>2 DEF Wanes, Live, TypeOK
    <2> QED
      BY <1>1, <2>3, <2>4, QuietStep, Unmoved
  <1>3. CASE CallerCloses
    <2>1. sess' = Closed(Ext)
      BY <1>3 DEF CallerCloses
    <2>2. sess' \in [SessionIds -> SessionRec] /\ (\A s \in SessionIds : Wanes(s))
      BY <1>1, <2>1, CloseWanes
    <2>3. TypeOK'
      BY <1>1, <2>2 DEF TypeOK
    <2> QED
      BY <1>1, <2>2, <2>3, QuietStep, Unmoved
  <1>4. CASE CallerSets
    <2> DEFINE n == [sess[Ext] EXCEPT !.swayed = TRUE]
    <2>1. sess' = [sess EXCEPT ![Ext] = n]
      BY <1>4 DEF CallerSets
    <2>2. n \in SessionRec /\ n.state = sess[Ext].state /\ n.limit = sess[Ext].limit
          /\ n.readonly = sess[Ext].readonly /\ n.views = sess[Ext].views
      BY <1>1 DEF TypeOK, SessionRec
    <2> HIDE DEF n
    <2>3. TypeOK'
      BY <1>1, <2>1, <2>2 DEF TypeOK
    <2>4. \A x \in SessionIds : Wanes(x)
      BY <1>1, <2>1, <2>2 DEF Wanes, Live, TypeOK
    <2> QED
      BY <1>1, <2>3, <2>4, QuietStep, Unmoved
  <1> QED
    BY <1>2, <1>3, <1>4

-----------------------------------------------------------------------------
(* The theorems.                                                           *)

\* The invariant holds at the start: the lent session is open, no tool is constructed, no call made.
LEMMA InitA == ToolInit => AInv
  <1> SUFFICES ASSUME ToolInit PROVE AInv
    OBVIOUS
  <1>1. NewTool \in ToolRec /\ NewCall \in CallRec /\ NewSession \in SessionRec
    BY DEF NewTool, NewCall, NewSession, ToolRec, CallRec, SessionRec
  <1>2. \A r \in {0, 2} : [NewSession EXCEPT !.state = "open", !.dir = "db", !.readonly = r] \in SessionRec
    BY <1>1 DEF NewSession, SessionRec
  <1>3. TypeOK
    BY <1>1, <1>2 DEF ToolInit, TypeOK
  <1>4. \A t \in Tools : ToolOK(t) /\ Kept(t) /\ Locked(t) /\ ToolLimit(t)
    <2> SUFFICES ASSUME NEW t \in Tools PROVE ToolOK(t) /\ Kept(t) /\ Locked(t) /\ ToolLimit(t)
      OBVIOUS
    <2>1. tool[t].phase = "new" /\ tool[t].session = NoSession
      BY DEF ToolInit, NewTool
    <2>2. sess[t].state # "open"
      BY NamesAssumption DEF ToolInit, SessionIds
    <2> QED
      BY <2>1, <2>2 DEF ToolOK, Kept, Locked, ToolLimit
  <1>5. \A c \in Calls : CallOK(c)
    BY DEF ToolInit, NewCall, CallOK
  <1> QED
    BY <1>3, <1>4, <1>5 DEF AInv

\* Every step keeps it.
LEMMA NextA == AInv /\ [ToolNext]_toolVars => AInv'
  <1> SUFFICES ASSUME AInv, [ToolNext]_toolVars PROVE AInv'
    OBVIOUS
  <1>1. CASE UNCHANGED toolVars
    <2>1. sess' = sess /\ tool' = tool /\ call' = call
      BY <1>1 DEF toolVars
    <2>2. TypeOK'
      BY <2>1 DEF AInv, TypeOK
    <2> QED
      BY <2>1, <2>2, QuietStep, Unmoved
  <1>2. ASSUME NEW t \in Tools, NEW o \in Options, Construct(t, o) PROVE AInv'
    BY <1>2, ConstructStep
  <1>3. ASSUME NEW t \in Tools, NEW o \in Options, ConstructFails(t, o) PROVE AInv'
    BY <1>3, ConstructFailsStep
  <1>4. ASSUME NEW c \in Calls, NEW t \in Tools, NEW q \in Statements, Query(c, t, q) PROVE AInv'
    BY <1>4, QueryStep
  <1>5. ASSUME NEW c \in Calls, NEW t \in Tools, NEW q \in Statements, QueryRefused(c, t, q) PROVE AInv'
    BY <1>5, QueryRefusedStep
  <1>6. ASSUME NEW c \in Calls, EngineSettles(c) PROVE AInv'
    BY <1>6, EngineSettlesStep
  <1>7. ASSUME NEW c \in Calls, DeadlinePasses(c) PROVE AInv'
    BY <1>7, DeadlinePassesStep
  <1>8. ASSUME NEW c \in Calls, Reap(c) PROVE AInv'
    BY <1>8, ReapStep
  <1>9. ASSUME NEW t \in Tools, AttachFile(t) PROVE AInv'
    BY <1>9, AttachFileStep
  <1>10. ASSUME NEW t \in Tools, CloseTool(t) PROVE AInv'
    BY <1>10, CloseToolStep
  <1>11. ASSUME CallerLocks \/ CallerSets \/ CallerCloses PROVE AInv'
    BY <1>11, CallerStep
  <1> QED
    BY <1>1, <1>2, <1>3, <1>4, <1>5, <1>6, <1>7, <1>8, <1>9, <1>10, <1>11 DEF ToolNext, Unbuilt, Unasked

\* The invariant holds in every reachable state.
LEMMA Always == ToolSpec => []AInv
  <1>1. ToolInit => AInv
    BY InitA
  <1>2. AInv /\ [ToolNext]_toolVars => AInv'
    BY NextA
  <1> QED
    BY <1>1, <1>2, PTL DEF ToolSpec

\* Every reachable state of the tools, their sessions and their calls is well typed, for any number of each.
THEOREM TypeCorrect == ToolSpec => []TypeOK
  <1>1. AInv => TypeOK
    BY DEF AInv
  <1> QED
    BY <1>1, Always, PTL

\* A result that says truncated had rows left out, whatever limits were changed by whom; and one from which
\* the limits a tool set up left rows out says so, for any caps, byte limits and sizes of result.
THEOREM TruncationIsTold == ToolSpec => []FlagIsExact
  <1>1. AInv => FlagIsExact
    BY DEF AInv, CallOK, Honest, Unswayed, AsSetUp, Judged, FlagIsExact
  <1> QED
    BY <1>1, Always, PTL

\* No session a tool opened is lost, whatever fails, expires or is closed in whatever order.
THEOREM SessionsAreKept == ToolSpec => []NothingLeaks
  <1>1. AInv => NothingLeaks
    BY DEF AInv, Kept, Parked, NothingLeaks
  <1> QED
    BY <1>1, Always, PTL

\* A tool declared read-only works on a locked session, its own or lent, for as long as it has one.
THEOREM ReadOnlyStaysLocked == ToolSpec => []ReadOnlyHolds
  <1>1. AInv => ReadOnlyHolds
    <2> SUFFICES ASSUME AInv, NEW t \in Tools, tool[t].phase = "ready", tool[t].readOnly,
                        tool[t].session # NoSession, Live(tool[t].session)
                 PROVE  /\ sess[tool[t].session].readonly = 2
                        /\ tool[t].own => ~sess[t].views
      BY DEF ReadOnlyHolds
    <2>1. tool[t].session = Home(t) /\ Locked(t)
      BY DEF AInv, ToolOK
    <2> QED
      BY <2>1 DEF Locked
  <1> QED
    BY <1>1, Always, PTL
=============================================================================
