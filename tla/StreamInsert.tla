---------------------------- MODULE StreamInsert ----------------------------
(***************************************************************************)
(* A streaming insert (src/streamInsert.ts, with runStreamInsert and       *)
(* wrapRawNative of index.js and the addon's InsertRawWorker): bytes are   *)
(* pulled from a source, cut at newlines into chunks, and each chunk is    *)
(* one native INSERT, awaited before the next pull.                        *)
(*                                                                         *)
(* A byte is "x", content of a row, or "n", a newline.  Offsets count from *)
(* the start of the source: `data` is what was pulled, `cut` how much of   *)
(* it was handed to flush, so the accumulator is data after cut.           *)
(*                                                                         *)
(* The engine is external: a chunk lands whole or not at all, as the       *)
(* header of streamInsert.ts says of chunks below a block, and an INSERT   *)
(* may outlive the promise an abort or a timeout has rejected.             *)
(***************************************************************************)
EXTENDS Integers, Sequences, FiniteSets

CONSTANTS
    MaxChunk,      \* maxChunkBytes
    MaxRow,        \* maxRowBytes
    StallTimeout,  \* TRUE: a stall timeout is set
    MaxPull,       \* bound: bytes in one item of the source
    MaxBytes       \* bound: bytes in the source

ASSUME StreamInsertAssumption ==
    /\ {MaxChunk, MaxRow, MaxPull, MaxBytes} \subseteq Nat \ {0}
    /\ StallTimeout \in BOOLEAN

VARIABLES
    pc,        \* where streamInsert is; "ok" or "failed" once it has settled
    data,      \* the bytes pulled
    cut,       \* the bytes taken from the accumulator
    lastNl,    \* the last newline in the accumulator, -1 when there is none
    ended,     \* the source is done
    chunk,     \* the bytes <<from, to>> last given to insertChunk
    running,   \* that INSERT is on a thread
    landed,    \* the chunks the engine has, in order
    sent,      \* progress: the rows and bytes flushed
    aborted,   \* the signal
    reason,    \* why the promise rejected
    badRow,    \* the offset where the row the engine refused ends, 0 if none
    failedAt,  \* failedAtRow, 0 if undefined
    stopped    \* the source was destroyed or its generator returned

vars == <<pc, data, cut, lastNl, ended, chunk, running, landed, sent, aborted,
          reason, badRow, failedAt, stopped>>

accVars    == <<data, cut, lastNl, ended>>
writeVars  == <<chunk, running, landed>>
resultVars == <<reason, badRow, failedAt, stopped>>

\* The non-empty lines of the payload data[a + 1 .. b]: InsertRawWorker counts
\* a line when it has content, the last one without its newline too.
RowsIn(a, b) ==
    Cardinality({i \in a + 1 .. b : data[i] = "x" /\ (i = b \/ data[i + 1] = "n")})

accBytes == Len(data) - cut

Init ==
    /\ pc = "start"
    /\ data = <<>> /\ cut = 0 /\ lastNl = -1 /\ ended = FALSE
    /\ chunk = <<0, 0>> /\ running = FALSE /\ landed = <<>>
    /\ sent = [rows |-> 0, bytes |-> 0]
    /\ aborted \in BOOLEAN
    /\ reason = "none" /\ badRow = 0 /\ failedAt = 0 /\ stopped = FALSE

-----------------------------------------------------------------------------
\* The promise rejects; the finally block stops the producer.
Fail(why) ==
    /\ pc' = "failed"
    /\ reason' = why
    /\ stopped' = TRUE

\* A signal that is aborted already: nothing is pulled, and the source is the
\* caller's still.
Start ==
    /\ pc = "start"
    /\ IF aborted THEN pc' = "failed" /\ reason' = "abort"
                  ELSE pc' = "top" /\ UNCHANGED reason
    /\ UNCHANGED <<accVars, writeVars, sent, aborted, badRow, failedAt, stopped>>

\* The caller aborts, at any time.
Abort ==
    /\ ~ aborted /\ pc \notin {"ok", "failed"}
    /\ aborted' = TRUE
    /\ UNCHANGED <<pc, accVars, writeVars, sent, resultVars>>

\* The head of the loop: the signal, then the bounded-buffer gate, which a
\* push-style source may have outrun; then the pull.
Top ==
    /\ pc = "top"
    /\ \/ aborted /\ Fail("abort")
       \/ ~ aborted /\ Fail("backpressure-overflow")
       \/ ~ aborted /\ pc' = "pull" /\ UNCHANGED <<reason, stopped>>
    /\ UNCHANGED <<accVars, writeVars, sent, aborted, badRow, failedAt>>

Bytes(n) == [1 .. n -> {"x", "n"}]

\* Mutant of NewlineIn: the offset within the item, not within the accumulator.
NewlineInItem(item) ==
    LET nls == {i \in DOMAIN item : item[i] = "n"}
    IN IF nls = {} THEN lastNl
       ELSE (CHOOSE i \in nls : \A j \in nls : j <= i) - 1

\* lastIndexOf(0x0a), carried over to the accumulator.
NewlineIn(item) ==
    LET nls == {i \in DOMAIN item : item[i] = "n"}
    IN IF nls = {} THEN lastNl
       ELSE accBytes + (CHOOSE i \in nls : \A j \in nls : j <= i) - 1

\* The source yields an item; an empty one is skipped.
Yields ==
    /\ pc = "pull"
    /\ \E n \in 0 .. MaxPull :
          /\ Len(data) + n <= MaxBytes
          /\ \E item \in Bytes(n) :
                /\ data' = data \o item
                /\ lastNl' = NewlineIn(item)
          /\ pc' = IF n = 0 THEN "top" ELSE "cut"
    /\ UNCHANGED <<cut, ended, writeVars, sent, aborted, resultVars>>

\* The source is done.
Ends ==
    /\ pc = "pull"
    /\ ended' = TRUE
    /\ pc' = "final"
    /\ UNCHANGED <<data, cut, lastNl, writeVars, sent, aborted, resultVars>>

\* The source throws, yields something that is not bytes, or stays silent past
\* the stall timeout.
SourceFails ==
    /\ pc = "pull"
    /\ \E why \in {"source-error", "not-bytes"} : Fail(why)
    /\ UNCHANGED <<accVars, writeVars, sent, aborted, badRow, failedAt>>

\* Mutant of Stalls: the timer is armed for the first pull only.
StallsOnce ==
    /\ pc = "pull" /\ StallTimeout /\ data = <<>>
    /\ Fail("stall")
    /\ UNCHANGED <<accVars, writeVars, sent, aborted, badRow, failedAt>>

Stalls ==
    /\ pc = "pull" /\ StallTimeout
    /\ Fail("stall")
    /\ UNCHANGED <<accVars, writeVars, sent, aborted, badRow, failedAt>>

-----------------------------------------------------------------------------
\* insertChunk(data[from + 1 .. to]): the INSERT goes to a thread.
Insert(to) ==
    /\ chunk' = <<cut, to>>
    /\ running' = TRUE
    /\ cut' = to
    /\ lastNl' = -1
    /\ pc' = "flush"

\* cutChunk: up to and including the last newline seen.
CutAt == cut + lastNl + 1

\* Mutant of CutLoop: a row may grow without end.
CutLoopUnbounded ==
    /\ pc = "cut"
    /\ IF accBytes >= MaxChunk /\ lastNl >= 0
         THEN Insert(CutAt) /\ UNCHANGED landed
         ELSE pc' = "top" /\ UNCHANGED <<cut, lastNl, writeVars>>
    /\ UNCHANGED <<data, ended, sent, aborted, resultVars>>

\* The inner loop: flush while the accumulator holds a full chunk with a row
\* boundary in it; a row that outgrows its ceiling is an error.
CutLoop ==
    /\ pc = "cut"
    /\ \/ /\ accBytes >= MaxChunk /\ lastNl >= 0
          /\ Insert(CutAt)
          /\ UNCHANGED <<landed, reason, stopped>>
       \/ /\ accBytes >= MaxChunk /\ lastNl < 0 /\ accBytes > MaxRow
          /\ Fail("row-too-large")
          /\ UNCHANGED <<cut, lastNl, writeVars>>
       \/ /\ accBytes < MaxChunk \/ (lastNl < 0 /\ accBytes <= MaxRow)
          /\ pc' = "top"
          /\ UNCHANGED <<cut, lastNl, writeVars, reason, stopped>>
    /\ UNCHANGED <<data, ended, sent, aborted, badRow, failedAt>>

\* Mutant of Final: a last row without its newline is forgotten.
FinalDropsTail ==
    /\ pc = "final"
    /\ pc' = "ok"
    /\ UNCHANGED <<accVars, writeVars, sent, aborted, resultVars>>

\* The final flush: whatever remains, or nothing.
Final ==
    /\ pc = "final"
    /\ IF accBytes > 0
         THEN Insert(Len(data)) /\ UNCHANGED landed
         ELSE pc' = "ok" /\ UNCHANGED <<cut, lastNl, writeVars>>
    /\ UNCHANGED <<data, ended, sent, aborted, resultVars>>

\* The INSERT succeeds while its caller awaits it: progress is counted, then
\* the signal is looked at -- except after the final flush.
ChunkLands ==
    /\ pc = "flush" /\ running
    /\ running' = FALSE
    /\ landed' = Append(landed, chunk)
    /\ sent' = [rows  |-> sent.rows + RowsIn(chunk[1], chunk[2]),
                bytes |-> sent.bytes + (chunk[2] - chunk[1])]
    /\ IF ended THEN pc' = "ok" /\ UNCHANGED <<reason, stopped>>
       ELSE IF aborted THEN Fail("abort")
       ELSE pc' = "cut" /\ UNCHANGED <<reason, stopped>>
    /\ UNCHANGED <<accVars, chunk, aborted, badRow, failedAt>>

\* Mutant of RowNumber: the engine's row is reported as it is, within its chunk.
RowNumberInChunk(p) == RowsIn(chunk[1], p)

\* failedAtRow: the engine's "(at row N)" of the chunk, rebased.
RowNumber(p) == sent.rows + RowsIn(chunk[1], p)

\* The ends of the rows of the chunk.
RowEnds == {i \in chunk[1] + 1 .. chunk[2] :
               data[i] = "x" /\ (i = chunk[2] \/ data[i + 1] = "n")}

\* The INSERT fails, naming the row it choked on or none; nothing of it lands.
ChunkFails ==
    /\ pc = "flush" /\ running
    /\ running' = FALSE
    /\ Fail("write-failure")
    /\ \/ \E p \in RowEnds : badRow' = p /\ failedAt' = RowNumber(p)
       \/ UNCHANGED <<badRow, failedAt>>
    /\ UNCHANGED <<accVars, chunk, landed, sent, aborted>>

\* Mutant of GivesUp: a timed-out chunk is skipped and the loop goes on.
GivesUpOnChunk ==
    /\ pc = "flush" /\ running
    /\ pc' = "cut"
    /\ UNCHANGED <<accVars, writeVars, sent, aborted, resultVars>>

\* wrapRawNative: an abort or a timeout rejects the chunk's promise while the
\* INSERT runs on.
GivesUp ==
    /\ pc = "flush" /\ running
    /\ \/ aborted /\ Fail("abort")
       \/ Fail("timeout")
    /\ UNCHANGED <<accVars, writeVars, sent, aborted, badRow, failedAt>>

\* The INSERT nobody awaits any more lands after all, or fails.
LateEnd ==
    /\ running /\ pc = "failed"
    /\ running' = FALSE
    /\ landed' = landed \/ landed' = Append(landed, chunk)
    /\ UNCHANGED <<pc, accVars, chunk, sent, aborted, resultVars>>

-----------------------------------------------------------------------------
Code == Start \/ Top \/ CutLoop \/ Final
Engine == ChunkLands \/ ChunkFails
Source == Yields \/ Ends \/ SourceFails

Next == Code \/ Engine \/ Source \/ Stalls \/ GivesUp \/ LateEnd \/ Abort

\* JavaScript runs, native calls end and timers fire; nothing is asked of the
\* source, which may stay silent.
Fairness == WF_vars(Code) /\ WF_vars(Engine) /\ WF_vars(Stalls)

Spec == Init /\ [][Next]_vars
FairSpec == Spec /\ Fairness
-----------------------------------------------------------------------------
(* Properties *)

Settled == pc \in {"ok", "failed"}

TypeOK ==
    /\ pc \in {"start", "top", "pull", "cut", "flush", "final", "ok", "failed"}
    /\ data \in Seq({"x", "n"}) /\ Len(data) <= MaxBytes
    /\ cut \in 0 .. Len(data)
    /\ lastNl \in -1 .. accBytes - 1
    /\ chunk \in (0 .. Len(data)) \X (0 .. Len(data))
    /\ sent \in [rows : Nat, bytes : Nat]
    /\ running \in BOOLEAN /\ aborted \in BOOLEAN /\ stopped \in BOOLEAN

\* No row is split over two chunks: every chunk the engine is given ends at a
\* newline or at the end of the source.
RowsStayWhole ==
    chunk[2] > 0 => data[chunk[2]] = "n" \/ (ended /\ chunk[2] = Len(data))

\* The bytes in the engine once n chunks have landed.
LandedTo(n) == IF n = 0 THEN 0 ELSE landed[n][2]

\* The chunks land in order, without a gap and without a byte landing twice;
\* all that progress counts has landed, and beyond it at most the one chunk
\* whose outcome the promise did not wait for.
LandsAsCounted ==
    /\ \A i \in DOMAIN landed :
          landed[i][1] = LandedTo(i - 1)
    /\ \/ sent.bytes = LandedTo(Len(landed))
       \/ /\ pc = "failed" /\ landed # <<>> /\ landed[Len(landed)] = chunk
          /\ sent.bytes = LandedTo(Len(landed) - 1)
    /\ sent.rows = RowsIn(0, sent.bytes)

\* A success is the whole source: everything it yielded is in the engine, and
\* the summary's rows are the source's rows.
SuccessIsWhole ==
    pc = "ok" => /\ ended
                 /\ sent.bytes = Len(data)
                 /\ sent.rows = RowsIn(0, Len(data))

\* The row a failure names is numbered from the start of the source.
FailedRowIsAbsolute == badRow > 0 => failedAt = RowsIn(0, badRow)

\* What is buffered stays bounded however fast the source is: a full chunk, or
\* one row up to its ceiling, and the item just pulled.
BufferIsBounded ==
    accBytes <= (IF MaxRow >= MaxChunk THEN MaxRow ELSE MaxChunk - 1) + MaxPull

\* An insert that failed after it began to pull has stopped its source, and
\* starts no further INSERT.
FailureStops ==
    [][/\ pc = "failed" => pc' = "failed" /\ chunk' = chunk
       /\ pc # "start" /\ pc # "failed" /\ pc' = "failed" => stopped']_vars

\* "A typed error that always settles the returned promise"
\* (streamInsert.ts:10-12): with a stall timeout the insert settles, unless
\* its source goes on yielding for ever.  An item without bytes is one too: it
\* re-arms the timer.
AlwaysSettles == <>Settled \/ []<>(pc = "top")
=============================================================================
