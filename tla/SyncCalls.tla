----------------------------- MODULE SyncCalls -----------------------------
(***************************************************************************)
(* The synchronous calls of module Process that carry parameters:          *)
(* queryBind() and Session.queryBind() (index.js), and queryStreamBind(),  *)
(* which opens its stream on the event loop.  They do not go through       *)
(* globalParamChain.  While the event loop is inside such a call no        *)
(* JavaScript runs; the libuv threads go on.                               *)
(*                                                                         *)
(* The others, query() and Session.query(), leave nothing behind that a    *)
(* call of module Sessions does not, and set no parameters.                *)
(***************************************************************************)
EXTENDS Process

VARIABLES
    inside,     \* the connection the event loop is inside a call on, or NoConn
    starts      \* the stream that call is to start, if it is to start one

syncVars == <<inside, starts>>

SInit == ProcessInit /\ inside = NoConn /\ starts = {}

\* queryBind() and Session.queryBind(): a standalone one opens the default
\* connection when nothing is bound.
BindEnters(o) ==
    /\ inside = NoConn /\ ~ exited
    /\ Usable(o)
    /\ \/ /\ Target(o) # NoConn
          /\ inside' = Target(o)
          /\ UNCHANGED registry
       \/ /\ o = Default
          /\ OpenDefault
          /\ inside' = Fresh({})
    /\ UNCHANGED <<worker, sessionVars, callVars, streamVars, disk, exited,
                   processVars, starts>>

\* queryStreamBind(), with the refusals of #startStream.
StreamBindEnters(t, s) ==
    /\ inside = NoConn /\ ~ exited
    /\ Free(t) /\ sess[s] = "open" /\ ActiveStream(s) = {}
    /\ inside' = handle[s]
    /\ starts' = {t}
    /\ UNCHANGED vars

\* The call returns or throws; a stream starts unless it threw.
CallLeaves ==
    /\ inside # NoConn
    /\ inside' = NoConn
    /\ starts' = {}
    /\ \/ UNCHANGED vars
       \/ \E t \in starts, s \in Slots :
             /\ handle[s] = inside
             /\ StartStream(t, s)
             /\ UNCHANGED processVars

\* Whatever else the event loop does comes before or after.
EventLoop ==
    /\ inside = NoConn
    /\ ProcessNext
    /\ UNCHANGED syncVars

SNext ==
    \/ \E o \in Owners : BindEnters(o)
    \/ \E t \in Streams, s \in Slots : StreamBindEnters(t, s)
    \/ CallLeaves
    \/ EventLoop

SSpec == SInit /\ [][SNext]_<<vars, syncVars>>

\* "Parameterized queries ... are serialized PROCESS-WIDE": none is inside
\* libchdb, setting and resetting its parameters, while another is on another
\* connection (docs/design/layer1-native-binding.md:863-868, index.js:247-262).
SerializedProcessWide ==
    \A c \in param : inside # NoConn /\ worker[c] # NoConn => worker[c] = inside
=============================================================================
