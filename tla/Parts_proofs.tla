---------------------------- MODULE Parts_proofs ----------------------------
(***************************************************************************)
(* Proofs about four parts of the library that share no state.             *)
(*                                                                         *)
(* StreamInsert: for any chunk and row ceiling and any source a streaming  *)
(* insert never splits a row, buffers a bounded number of bytes, reports   *)
(* as sent what has landed, succeeds only when the whole source has        *)
(* landed, and numbers a refused row from the source's start.              *)
(*                                                                         *)
(* SourcePlan: for any server, names and options, what a connection lists  *)
(* can be read under the name it is listed by.                             *)
(*                                                                         *)
(* Compatibility: the comparison of versions is an order, and for any      *)
(* engines and writes the head's floor covers the bytes it names.          *)
(*                                                                         *)
(* RecordStores: for any records, callers and merges, calls on one record  *)
(* that come one after the other lose no update, unless the clock or a     *)
(* caller dates one ahead or a delete selects on a value that changed.     *)
(***************************************************************************)
EXTENDS StreamInsert, SourcePlan, Compatibility, RecordStores, FiniteSetTheorems, SequenceTheorems,
        WellFoundedInduction, TLAPS

------------------------------------------------------------------------------
(* Counting rows. *)

\* The last bytes of the rows in d[a + 1 .. b]; RowsIn counts those of data.
EndsOfRows(d, a, b) == {i \in a + 1 .. b : d[i] = "x" /\ (i = b \/ d[i + 1] = "n")}

\* There are finitely many rows in a stretch of bytes.
LEMMA CountIsNat ==
    ASSUME NEW d, NEW a \in Nat, NEW b \in Nat
    PROVE  IsFiniteSet(EndsOfRows(d, a, b)) /\ Cardinality(EndsOfRows(d, a, b)) \in Nat
  <1>1. IsFiniteSet(a + 1 .. b)
    BY FS_Interval
  <1>2. EndsOfRows(d, a, b) \in SUBSET (a + 1 .. b)
    BY DEF EndsOfRows
  <1>3. IsFiniteSet(EndsOfRows(d, a, b))
    BY <1>1, <1>2, FS_Subset
  <1> QED
    BY <1>3, FS_CardinalityType

\* The rows of a stretch cut after a newline, or at its start, are those of the
\* two parts.
LEMMA CountSplits ==
    ASSUME NEW d, NEW a \in Nat, NEW m \in Nat, NEW b \in Nat,
           a <= m, m <= b, m = a \/ d[m] = "n"
    PROVE  Cardinality(EndsOfRows(d, a, b)) =
              Cardinality(EndsOfRows(d, a, m)) + Cardinality(EndsOfRows(d, m, b))
  <1> DEFINE left == EndsOfRows(d, a, m)
             right == EndsOfRows(d, m, b)
  <1>1. IsFiniteSet(left) /\ IsFiniteSet(right)
    BY CountIsNat
  <1>2. left \cap right = {}
    BY DEF EndsOfRows
  <1>3. EndsOfRows(d, a, b) = left \cup right
    <2>1. ASSUME NEW i, i \in EndsOfRows(d, a, b)
          PROVE  i \in left \cup right
      <3>1. i \in a + 1 .. b /\ d[i] = "x" /\ (i = b \/ d[i + 1] = "n")
        BY <2>1 DEF EndsOfRows
      <3>2. CASE i <= m
        BY <3>1, <3>2 DEF EndsOfRows
      <3>3. CASE i > m
        BY <3>1, <3>3 DEF EndsOfRows
      <3> QED
        BY <3>1, <3>2, <3>3
    <2>2. ASSUME NEW i, i \in left
          PROVE  i \in EndsOfRows(d, a, b)
      <3>1. i \in a + 1 .. m /\ d[i] = "x" /\ (i = m \/ d[i + 1] = "n")
        BY <2>2 DEF EndsOfRows
      <3>2. i # m
        BY <3>1
      <3> QED
        BY <3>1, <3>2 DEF EndsOfRows
    <2>3. ASSUME NEW i, i \in right
          PROVE  i \in EndsOfRows(d, a, b)
      BY <2>3 DEF EndsOfRows
    <2> HIDE DEF left, right
    <2> QED
      BY <2>1, <2>2, <2>3
  <1>4. Cardinality(left \cap right) = 0
    BY <1>2, FS_EmptySet
  <1>5. Cardinality(left) \in Nat /\ Cardinality(right) \in Nat
    BY CountIsNat
  <1> HIDE DEF left, right
  <1>6. Cardinality(left \cup right) = Cardinality(left) + Cardinality(right)
    BY <1>1, <1>4, <1>5, FS_Union
  <1> QED
    BY <1>3, <1>6 DEF left, right

\* More bytes behind a stretch do not change its rows.
LEMMA CountOfPrefix ==
    ASSUME NEW S, NEW d \in Seq(S), NEW e \in Seq(S), NEW b \in 0 .. Len(d)
    PROVE  EndsOfRows(d \o e, 0, b) = EndsOfRows(d, 0, b)
  <1>1. \A i \in 1 .. b : (d \o e)[i] = d[i]
    OBVIOUS
  <1>2. \A i \in 1 .. b : i # b => (d \o e)[i + 1] = d[i + 1]
    OBVIOUS
  <1> QED
    BY <1>1, <1>2 DEF EndsOfRows

\* RowsIn counts the ends of rows.
LEMMA RowsInIsCount ==
    ASSUME NEW a, NEW b
    PROVE  RowsIn(a, b) = Cardinality(EndsOfRows(data, a, b))
  BY DEF RowsIn, EndsOfRows

\* The same, of the next state.
LEMMA RowsInIsCountNext ==
    ASSUME NEW a, NEW b
    PROVE  RowsIn(a, b)' = Cardinality(EndsOfRows(data', a', b'))
  BY DEF RowsIn, EndsOfRows

\* A non-empty set of offsets has a last one: NewlineIn's CHOOSE finds it.
LEMMA HasLast ==
    ASSUME NEW n \in Nat, NEW S, S \subseteq 1 .. n, S # {}
    PROVE  \E i \in S : \A j \in S : j <= i
  <1> DEFINE R == OpToRel(<, Nat)
             T == {n - i : i \in S}
  <1>1. IsWellFoundedOn(R, Nat)
    BY NatLessThanWellFounded
  <1>2. \A x, y \in Nat : x < y => <<x, y>> \in R
    BY DEF OpToRel
  <1> HIDE DEF R
  <1>3. T \subseteq Nat
    OBVIOUS
  <1>4. T # {}
    OBVIOUS
  <1>5. \A j \in S : n - j \in T
    OBVIOUS
  <1>6. \A x \in T : \E i \in S : x = n - i
    OBVIOUS
  <1> HIDE DEF T
  <1>7. PICK x \in T : \A y \in T : ~ (<<y, x>> \in R)
    BY <1>1, <1>3, <1>4, WFMin
  <1>8. PICK i \in S : x = n - i
    BY <1>6
  <1>9. \A j \in S : ~ (n - j < n - i)
    BY <1>2, <1>3, <1>5, <1>7, <1>8
  <1> QED
    BY <1>9

------------------------------------------------------------------------------
(* The inductive invariant. *)

\* Where a row ends: before the first byte, after a newline, at the end of a
\* source that is done.
RowBoundary(p) == p = 0 \/ data[p] = "n" \/ (ended /\ p = Len(data))

\* The bytes buffered when the next item is pulled.
Ceiling == IF MaxRow >= MaxChunk THEN MaxRow ELSE MaxChunk - 1

\* The types, those of the bookkeeping that TypeOK leaves out too.
Types ==
    /\ TypeOK
    /\ landed \in Seq(Nat \X Nat)
    /\ badRow \in Nat /\ failedAt \in Nat
    /\ ended \in BOOLEAN

\* The accumulator: it starts at a row boundary, lastNl is a newline in it, and
\* it was below its ceiling before the item at hand.
Accumulator ==
    /\ RowBoundary(cut)
    /\ lastNl >= 0 => data[cut + lastNl + 1] = "n"
    /\ accBytes <= Ceiling + MaxPull
    /\ pc \in {"start", "top", "pull", "final"} => accBytes <= Ceiling

\* Where the source can be done, and what is left to flush then.
SourceDone ==
    /\ pc = "final" => ended
    /\ ended => pc \in {"final", "flush", "ok", "failed"}
    /\ ended /\ pc = "flush" => cut = Len(data)
    /\ pc = "ok" => ended /\ cut = Len(data)

\* The chunk handed out last ends at the cut; while its INSERT runs, what was
\* sent ends where it starts.
Writing ==
    /\ chunk[2] = cut
    /\ running => pc \in {"flush", "failed"}
    /\ pc = "flush" => running
    /\ running => chunk[1] = sent.bytes /\ chunk[1] < chunk[2]
    /\ running => chunk[1] = 0 \/ data[chunk[1]] = "n"
    /\ pc \notin {"flush", "failed"} => sent.bytes = cut
    /\ sent.bytes <= cut
    /\ RowBoundary(sent.bytes)

\* LandsAsCounted, and which of its two cases a state is in.
Landing ==
    /\ \A i \in DOMAIN landed : landed[i][1] = LandedTo(i - 1)
    /\ \/ sent.bytes = LandedTo(Len(landed))
       \/ /\ pc = "failed" /\ ~ running
          /\ landed # <<>> /\ landed[Len(landed)] = chunk
          /\ sent.bytes = LandedTo(Len(landed) - 1)
    /\ sent.rows = RowsIn(0, sent.bytes)

\* A refused row lies in the bytes pulled.
RefusedRow ==
    /\ badRow > 0 => pc = "failed" /\ badRow <= Len(data)
    /\ FailedRowIsAbsolute

IInv ==
    /\ Types
    /\ Accumulator
    /\ SourceDone
    /\ Writing
    /\ Landing
    /\ RefusedRow

\* The strengthening holds before anything is pulled.
THEOREM InitIsInductive == Init => IInv
  <1> SUFFICES ASSUME Init PROVE IInv
    OBVIOUS
  <1> USE StreamInsertAssumption DEF Init
  <1>1. Types
    <2>1. data = <<>> /\ data \in Seq({"x", "n"}) /\ Len(data) = 0
      OBVIOUS
    <2>2. MaxBytes \in Nat
      OBVIOUS
    <2>3. lastNl \in -1 .. accBytes - 1
      BY <2>1 DEF accBytes
    <2>4. chunk \in (0 .. Len(data)) \X (0 .. Len(data))
      BY <2>1
    <2>5. landed \in Seq(Nat \X Nat)
      OBVIOUS
    <2>6. sent \in [rows : Nat, bytes : Nat] /\ cut \in 0 .. Len(data)
      BY <2>1
    <2>7. badRow \in Nat /\ failedAt \in Nat /\ Len(data) <= MaxBytes
      BY <2>1, <2>2
    <2>8. /\ running \in BOOLEAN /\ aborted \in BOOLEAN /\ stopped \in BOOLEAN
          /\ ended \in BOOLEAN
      OBVIOUS
    <2>9. pc \in {"start", "top", "pull", "cut", "flush", "final", "ok", "failed"}
      OBVIOUS
    <2> HIDE DEF Init
    <2> QED
      BY <2>1, <2>3, <2>4, <2>5, <2>6, <2>7, <2>8, <2>9 DEF Types, TypeOK
  <1>2. Accumulator
    BY DEF Accumulator, RowBoundary, accBytes, Ceiling
  <1>3. SourceDone /\ Writing
    BY DEF SourceDone, Writing, RowBoundary
  <1>4. Landing
    <2>1. EndsOfRows(data, 0, 0) = {}
      BY DEF EndsOfRows
    <2>2. RowsIn(0, 0) = 0
      BY <2>1, RowsInIsCount, FS_EmptySet
    <2> QED
      BY <2>2 DEF Landing, LandedTo
  <1>5. RefusedRow
    BY DEF RefusedRow, FailedRowIsAbsolute
  <1> QED
    BY <1>1, <1>2, <1>3, <1>4, <1>5 DEF IInv

------------------------------------------------------------------------------
(* Steps. *)

\* A step of the control alone: no byte is pulled, cut or landed.
Moves ==
    /\ data' = data /\ cut' = cut /\ lastNl' = lastNl /\ chunk' = chunk
    /\ running' = running /\ landed' = landed /\ sent' = sent
    /\ badRow' = badRow /\ failedAt' = failedAt
    /\ aborted' \in BOOLEAN /\ stopped' \in BOOLEAN
    /\ \/ pc' = pc /\ ended' = ended
       \/ pc' = "failed" /\ ended' = ended
       \/ pc = "start" /\ pc' = "top" /\ ended' = ended
       \/ pc = "top" /\ pc' = "pull" /\ ended' = ended
       \/ pc = "cut" /\ pc' = "top" /\ ended' = ended /\ accBytes <= Ceiling
       \/ pc = "pull" /\ pc' = "final" /\ ended' = TRUE
       \/ pc = "final" /\ pc' = "ok" /\ ended' = ended /\ cut = Len(data)

\* A step that moves only the control keeps the strengthening.
LEMMA MovesKeeps == IInv /\ Moves => IInv'
  <1> SUFFICES ASSUME IInv, Moves PROVE IInv'
    OBVIOUS
  <1>1. Types'
    <2>1. ended' \in BOOLEAN
      BY Zenon DEF Moves, IInv, Types
    <2>2. pc' \in {"start", "top", "pull", "cut", "flush", "final", "ok", "failed"}
      BY Zenon DEF Moves, IInv, Types, TypeOK
    <2> QED
      BY <2>1, <2>2, Zenon DEF Moves, IInv, Types, TypeOK, accBytes
  <1>2. ended => ended'
    BY Zenon DEF Moves
  <1>3. Accumulator'
    <2>1. RowBoundary(cut)'
      BY <1>2, Zenon DEF Moves, IInv, Accumulator, RowBoundary
    <2>2. accBytes' = accBytes /\ Ceiling' = Ceiling
      BY DEF Moves, accBytes, Ceiling
    <2>3. pc' \in {"start", "top", "pull", "final"} => accBytes' <= Ceiling'
      BY <2>2 DEF Moves, IInv, Accumulator
    <2> QED
      BY <2>1, <2>2, <2>3, Zenon DEF Moves, IInv, Accumulator
  <1>4. SourceDone'
    BY DEF Moves, IInv, SourceDone
  <1>5. Writing'
    <2>1. RowBoundary(sent.bytes)'
      BY <1>2, Zenon DEF Moves, IInv, Writing, RowBoundary
    <2>2. (running => pc \in {"flush", "failed"})' /\ (pc = "flush" => running)'
      BY DEF Moves, IInv, Writing
    <2>3. (pc \notin {"flush", "failed"} => sent.bytes = cut)'
      BY DEF Moves, IInv, Writing
    <2> QED
      BY <2>1, <2>2, <2>3, Zenon DEF Moves, IInv, Writing
  <1>6. Landing'
    <2>1. RowsIn(0, sent.bytes)' = RowsIn(0, sent.bytes)
      BY DEF Moves, RowsIn
    <2>2. \A n : LandedTo(n)' = LandedTo(n)
      BY DEF Moves, LandedTo
    <2>3. pc = "failed" => pc' = "failed"
      BY DEF Moves
    <2> QED
      BY <2>1, <2>2, <2>3, Zenon DEF Moves, IInv, Landing, LandedTo
  <1>7. RefusedRow'
    <2>1. RowsIn(0, badRow)' = RowsIn(0, badRow)
      BY DEF Moves, RowsIn
    <2>2. pc = "failed" => pc' = "failed"
      BY DEF Moves
    <2> QED
      BY <2>1, <2>2, Zenon DEF Moves, IInv, RefusedRow, FailedRowIsAbsolute
  <1> QED
    BY <1>1, <1>3, <1>4, <1>5, <1>6, <1>7 DEF IInv

\* insertChunk: up to a newline while the source lasts, to the end after.
LEMMA InsertKeeps ==
    ASSUME IInv, NEW to, Insert(to),
           pc \in {"cut", "final"},
           to \in cut + 1 .. Len(data),
           data[to] = "n" \/ (ended /\ to = Len(data)),
           pc = "final" => to = Len(data),
           data' = data, ended' = ended, landed' = landed, sent' = sent,
           aborted' = aborted, badRow' = badRow, failedAt' = failedAt,
           stopped' = stopped
    PROVE  IInv'
  <1>0. cut \in 0 .. Len(data) /\ Len(data) \in Nat /\ to \in Nat /\ cut \in Nat
    BY DEF IInv, Types, TypeOK
  <1>s. /\ chunk' = <<cut, to>> /\ running' = TRUE /\ cut' = to /\ lastNl' = -1
        /\ pc' = "flush"
    BY DEF Insert
  <1>c. chunk'[1] = cut /\ chunk'[2] = to
    BY <1>s
  <1>1. Types'
    <2>1. (chunk \in (0 .. Len(data)) \X (0 .. Len(data)))'
      BY <1>0, <1>s
    <2>2. (lastNl \in -1 .. accBytes - 1)' /\ (cut \in 0 .. Len(data))'
      BY <1>0, <1>s DEF accBytes
    <2> QED
      BY <1>s, <2>1, <2>2, Zenon DEF IInv, Types, TypeOK
  <1>2. Accumulator'
    <2>1. RowBoundary(cut)'
      BY <1>s DEF RowBoundary
    <2>2. accBytes' <= Ceiling' + MaxPull
      <3>1. accBytes <= Ceiling + MaxPull
        BY DEF IInv, Accumulator
      <3>2. accBytes' = Len(data) - to /\ accBytes = Len(data) - cut
        BY <1>s DEF accBytes
      <3>3. Ceiling' = Ceiling /\ Ceiling \in Int /\ MaxPull \in Nat
        BY StreamInsertAssumption DEF Ceiling
      <3> QED
        BY <1>0, <3>1, <3>2, <3>3
    <2> QED
      BY <1>s, <2>1, <2>2 DEF Accumulator
  <1>3. SourceDone'
    BY <1>s DEF IInv, SourceDone
  <1>4. Writing'
    <2>1. sent.bytes = cut /\ RowBoundary(cut)
      BY DEF IInv, Writing, Accumulator
    <2>2. cut = 0 \/ data[cut] = "n"
      BY <1>0, <2>1 DEF RowBoundary
    <2>3. RowBoundary(sent.bytes)'
      BY <2>1, <2>2 DEF RowBoundary
    <2> QED
      BY <1>0, <1>s, <1>c, <2>1, <2>2, <2>3 DEF Writing
  <1>5. Landing'
    <2>1. RowsIn(0, sent.bytes)' = RowsIn(0, sent.bytes)
      BY DEF RowsIn
    <2>2. pc # "failed"
      OBVIOUS
    <2>3. LandedTo(Len(landed))' = LandedTo(Len(landed))
      BY DEF LandedTo
    <2> QED
      BY <2>1, <2>2, <2>3, Zenon DEF IInv, Landing, LandedTo
  <1>6. RefusedRow'
    <2>1. RowsIn(0, badRow)' = RowsIn(0, badRow)
      BY DEF RowsIn
    <2>2. badRow \in Nat /\ ~ (badRow > 0)
      BY DEF IInv, RefusedRow, Types
    <2> QED
      BY <2>1, <2>2 DEF RefusedRow, FailedRowIsAbsolute
  <1> QED
    BY <1>1, <1>2, <1>3, <1>4, <1>5, <1>6 DEF IInv

\* The source yields: more bytes behind those there are.
LEMMA YieldsKeeps == IInv /\ Yields => IInv'
  <1> SUFFICES ASSUME IInv, Yields PROVE IInv'
    OBVIOUS
  <1>p. PICK n \in 0 .. MaxPull :
           /\ Len(data) + n <= MaxBytes
           /\ \E item \in Bytes(n) : data' = data \o item /\ lastNl' = NewlineIn(item)
           /\ pc' = IF n = 0 THEN "top" ELSE "cut"
    BY DEF Yields
  <1>q. PICK item \in Bytes(n) : data' = data \o item /\ lastNl' = NewlineIn(item)
    BY <1>p
  <1>1. /\ Len(data) + n <= MaxBytes
        /\ data' = data \o item
        /\ lastNl' = NewlineIn(item)
        /\ pc' = IF n = 0 THEN "top" ELSE "cut"
    BY <1>p, <1>q
  <1>u. /\ pc = "pull" /\ cut' = cut /\ ended' = ended /\ chunk' = chunk
        /\ running' = running /\ landed' = landed /\ sent' = sent
        /\ aborted' = aborted /\ badRow' = badRow /\ failedAt' = failedAt
        /\ stopped' = stopped
    BY DEF Yields, writeVars, resultVars
  <1>t. /\ data \in Seq({"x", "n"}) /\ Len(data) \in Nat
        /\ cut \in 0 .. Len(data) /\ cut \in Nat
        /\ lastNl \in -1 .. accBytes - 1
        /\ chunk \in (0 .. Len(data)) \X (0 .. Len(data))
        /\ sent.bytes \in Nat /\ sent.bytes <= cut
        /\ n \in Nat /\ MaxPull \in Nat
    <2>1. MaxPull \in Nat
      BY StreamInsertAssumption
    <2> QED
      BY <2>1 DEF IInv, Types, TypeOK, Writing
  <1>i. item \in Seq({"x", "n"}) /\ Len(item) = n /\ DOMAIN item = 1 .. n
    BY <1>t DEF Bytes
  <1>d. /\ data' \in Seq({"x", "n"}) /\ Len(data') = Len(data) + n
        /\ \A i \in 1 .. Len(data) : data'[i] = data[i]
        /\ \A i \in 1 .. n : data'[Len(data) + i] = item[i]
    <2>1. /\ data \o item \in Seq({"x", "n"})
          /\ Len(data \o item) = Len(data) + Len(item)
          /\ \A i \in 1 .. Len(data) + Len(item) :
                (data \o item)[i] = IF i <= Len(data) THEN data[i] ELSE item[i - Len(data)]
      BY <1>t, <1>i, ConcatProperties
    <2>2. \A i \in 1 .. n : (Len(data) + i) - Len(data) = i /\ ~ (Len(data) + i <= Len(data))
      BY <1>t
    <2>3. \A i \in 1 .. n : (data \o item)[Len(data) + i] = item[i]
      <3> SUFFICES ASSUME NEW i \in 1 .. n PROVE (data \o item)[Len(data) + i] = item[i]
        OBVIOUS
      <3>1. Len(data) + i \in 1 .. Len(data) + Len(item)
        BY <1>t, <1>i
      <3> QED
        BY <2>1, <2>2, <3>1
    <2>4. \A i \in 1 .. Len(data) : (data \o item)[i] = data[i]
      BY <1>t, <1>i, <2>1
    <2> QED
      BY <1>1, <1>i, <2>1, <2>3, <2>4
  <1>a. accBytes' = accBytes + n /\ accBytes = Len(data) - cut /\ accBytes \in Nat
    <2>1. accBytes' = Len(data') - cut
      BY <1>u DEF accBytes
    <2> QED
      BY <1>t, <1>d, <2>1 DEF accBytes
  <1>e. ~ ended
    BY <1>u DEF IInv, SourceDone
  <1>n. /\ lastNl' \in -1 .. accBytes' - 1
        /\ lastNl' >= 0 => data'[cut + lastNl' + 1] = "n"
    <2> DEFINE nls == {i \in DOMAIN item : item[i] = "n"}
               last == CHOOSE i \in nls : \A j \in nls : j <= i
    <2>1. CASE nls = {}
      <3>1. lastNl' = lastNl
        BY <1>1, <2>1 DEF NewlineIn
      <3>2. lastNl >= 0 => data[cut + lastNl + 1] = "n"
        BY DEF IInv, Accumulator
      <3>3. lastNl >= 0 => cut + lastNl + 1 \in 1 .. Len(data)
        BY <1>t, <1>a
      <3> QED
        BY <1>t, <1>a, <1>d, <3>1, <3>2, <3>3
    <2>2. CASE nls # {}
      <3>1. nls \subseteq 1 .. n
        BY <1>i
      <3>2. \E i \in nls : \A j \in nls : j <= i
        <4> HIDE DEF nls
        <4> QED
          BY <1>t, <2>2, <3>1, HasLast
      <3>3. last \in nls
        BY <3>2
      <3>4. lastNl' = accBytes + last - 1
        BY <1>1, <2>2 DEF NewlineIn
      <3>5. last \in 1 .. n /\ item[last] = "n"
        BY <3>1, <3>3
      <3> HIDE DEF last
      <3>6. cut + lastNl' + 1 = Len(data) + last
        BY <1>a, <1>t, <3>4, <3>5
      <3> QED
        BY <1>a, <1>t, <1>d, <3>4, <3>5, <3>6
    <2> QED
      BY <2>1, <2>2
  <1>2. Types'
    <2>1. (cut \in 0 .. Len(data))' /\ (Len(data) <= MaxBytes)'
      BY <1>1, <1>t, <1>u, <1>d
    <2>2. (chunk \in (0 .. Len(data)) \X (0 .. Len(data)))'
      <3>1. 0 .. Len(data) \subseteq 0 .. Len(data')
        BY <1>t, <1>d
      <3> QED
        BY <1>u, <1>t, <3>1
    <2>3. pc' \in {"start", "top", "pull", "cut", "flush", "final", "ok", "failed"}
      BY <1>1
    <2> QED
      BY <1>u, <1>d, <1>n, <2>1, <2>2, <2>3, Zenon DEF IInv, Types, TypeOK
  <1>3. Accumulator'
    <2>1. RowBoundary(cut)'
      BY <1>u, <1>t, <1>d, <1>e DEF IInv, Accumulator, RowBoundary
    <2>2. accBytes <= Ceiling /\ Ceiling' = Ceiling /\ Ceiling \in Int
      BY <1>u, StreamInsertAssumption DEF IInv, Accumulator, Ceiling
    <2>3. accBytes' <= Ceiling' + MaxPull
      BY <1>a, <1>t, <2>2
    <2>4. n = 0 => accBytes' <= Ceiling'
      BY <1>a, <2>2
    <2> QED
      BY <1>1, <1>u, <1>n, <2>1, <2>3, <2>4 DEF Accumulator
  <1>4. SourceDone'
    BY <1>1, <1>u, <1>e DEF SourceDone
  <1>5. Writing'
    <2>1. ~ running /\ sent.bytes = cut /\ chunk[2] = cut
      BY <1>u DEF IInv, Writing
    <2>2. RowBoundary(sent.bytes)'
      BY <1>u, <1>t, <1>d, <1>e DEF IInv, Writing, RowBoundary
    <2> QED
      BY <1>1, <1>u, <1>t, <2>1, <2>2 DEF Writing
  <1>6. Landing'
    <2>1. EndsOfRows(data', 0, sent.bytes) = EndsOfRows(data, 0, sent.bytes)
      BY <1>1, <1>t, <1>i, CountOfPrefix
    <2>2. RowsIn(0, sent.bytes)' = RowsIn(0, sent.bytes)
      BY <1>u, <2>1, RowsInIsCount, RowsInIsCountNext
    <2>3. pc # "failed"
      BY <1>u
    <2> QED
      BY <1>u, <2>2, <2>3, Zenon DEF IInv, Landing, LandedTo
  <1>7. RefusedRow'
    <2>1. badRow \in Nat /\ ~ (badRow > 0)
      BY <1>u DEF IInv, RefusedRow, Types
    <2> QED
      BY <1>u, <2>1 DEF RefusedRow, FailedRowIsAbsolute
  <1> QED
    BY <1>2, <1>3, <1>4, <1>5, <1>6, <1>7 DEF IInv

\* While an INSERT runs, what was sent ends at a row boundary at which it
\* starts: the rows up to a point in it are those sent and those in between.
LEMMA RowsAcrossChunks ==
    ASSUME IInv, running, NEW p \in chunk[1] .. Len(data)
    PROVE  /\ RowsIn(0, p) = sent.rows + RowsIn(chunk[1], p)
           /\ RowsIn(chunk[1], p) \in Nat
           /\ chunk[1] = sent.bytes /\ chunk[1] \in Nat
  <1>1. chunk[1] \in Nat /\ Len(data) \in Nat
    BY DEF IInv, Types, TypeOK
  <1>2. chunk[1] = sent.bytes /\ (chunk[1] = 0 \/ data[chunk[1]] = "n")
    BY DEF IInv, Writing
  <1>3. sent.rows = RowsIn(0, chunk[1])
    BY <1>2 DEF IInv, Landing
  <1>4. p \in Nat /\ chunk[1] <= p
    BY <1>1
  <1>5. Cardinality(EndsOfRows(data, 0, p)) =
           Cardinality(EndsOfRows(data, 0, chunk[1])) + Cardinality(EndsOfRows(data, chunk[1], p))
    BY <1>1, <1>2, <1>4, CountSplits
  <1>6. Cardinality(EndsOfRows(data, chunk[1], p)) \in Nat
    BY <1>1, <1>4, CountIsNat
  <1> QED
    BY <1>1, <1>2, <1>3, <1>5, <1>6, RowsInIsCount

\* A chunk more in the engine: LandedTo up to the old length is as it was.
LEMMA LandedGrows ==
    ASSUME IInv, landed' = Append(landed, chunk)
    PROVE  /\ Len(landed') = Len(landed) + 1 /\ Len(landed) \in Nat
           /\ landed' # <<>> /\ landed' \in Seq(Nat \X Nat)
           /\ landed'[Len(landed')] = chunk
           /\ \A n \in 0 .. Len(landed) : LandedTo(n)' = LandedTo(n)
           /\ chunk[1] = LandedTo(Len(landed)) =>
                 \A i \in DOMAIN landed' : landed'[i][1] = LandedTo(i - 1)'
  <1>1. landed \in Seq(Nat \X Nat) /\ chunk \in Nat \X Nat
    BY DEF IInv, Types, TypeOK
  <1>2. /\ landed' \in Seq(Nat \X Nat) /\ Len(landed') = Len(landed) + 1
        /\ Len(landed) \in Nat /\ DOMAIN landed = 1 .. Len(landed)
        /\ DOMAIN landed' = 1 .. Len(landed) + 1
        /\ \A i \in 1 .. Len(landed) : landed'[i] = landed[i]
        /\ landed'[Len(landed) + 1] = chunk
    BY <1>1, AppendProperties
  <1>3. landed' # <<>>
    BY <1>2
  <1>4. \A n \in 0 .. Len(landed) : LandedTo(n)' = LandedTo(n)
    BY <1>2 DEF LandedTo
  <1>5. ASSUME chunk[1] = LandedTo(Len(landed)), NEW i \in DOMAIN landed'
        PROVE  landed'[i][1] = LandedTo(i - 1)'
    <2>1. CASE i \in 1 .. Len(landed)
      <3>1. landed[i][1] = LandedTo(i - 1)
        BY <1>2, <2>1 DEF IInv, Landing
      <3>2. i - 1 \in 0 .. Len(landed)
        BY <1>2, <2>1
      <3> QED
        BY <1>2, <1>4, <2>1, <3>1, <3>2
    <2>2. CASE i = Len(landed) + 1
      <3>1. i - 1 = Len(landed) /\ Len(landed) \in 0 .. Len(landed)
        BY <1>2, <2>2
      <3>2. landed'[i] = chunk
        BY <1>2, <2>2
      <3>3. LandedTo(i - 1) = LandedTo(Len(landed))
        BY <3>1
      <3>4. LandedTo(i - 1)' = LandedTo(i - 1)
        BY <1>4, <3>1
      <3> QED
        BY <1>5, <3>2, <3>3, <3>4
    <2> QED
      BY <1>2, <1>5, <2>1, <2>2
  <1> QED
    BY <1>2, <1>3, <1>4, <1>5

\* What the three ends of an INSERT leave alone keeps its part of IInv.
LEMMA EndKeeps ==
    ASSUME IInv, running,
           data' = data, cut' = cut, lastNl' = lastNl, ended' = ended,
           chunk' = chunk, running' = FALSE, aborted' = aborted,
           stopped' \in BOOLEAN,
           landed' \in Seq(Nat \X Nat), badRow' \in Nat, failedAt' \in Nat,
           sent' \in [rows : Nat, bytes : Nat],
           sent'.bytes = sent.bytes \/ sent'.bytes = cut,
           \/ pc' = "failed"
           \/ pc' = "cut" /\ ~ ended /\ sent'.bytes = cut
           \/ pc' = "ok" /\ ended /\ cut = Len(data) /\ sent'.bytes = cut
    PROVE  Types' /\ Accumulator' /\ SourceDone' /\ Writing'
  <1>1. Types'
    <2>1. (lastNl \in -1 .. accBytes - 1)'
      BY DEF IInv, Types, TypeOK, accBytes
    <2>2. pc' \in {"start", "top", "pull", "cut", "flush", "final", "ok", "failed"}
      BY Zenon
    <2>3. (chunk \in (0 .. Len(data)) \X (0 .. Len(data)))' /\ (cut \in 0 .. Len(data))'
      BY Zenon DEF IInv, Types, TypeOK
    <2>4. running' \in BOOLEAN /\ ended' \in BOOLEAN /\ aborted' \in BOOLEAN
      BY Zenon DEF IInv, Types, TypeOK
    <2>5. data' \in Seq({"x", "n"}) /\ Len(data') <= MaxBytes
      BY Zenon DEF IInv, Types, TypeOK
    <2> QED
      BY <2>1, <2>2, <2>3, <2>4, <2>5, Zenon DEF Types, TypeOK
  <1>b. RowBoundary(cut) /\ RowBoundary(sent.bytes) /\ sent.bytes <= cut /\ cut \in Nat
    BY DEF IInv, Accumulator, Writing, Types, TypeOK
  <1>2. Accumulator'
    <2>1. RowBoundary(cut)'
      BY <1>b, Zenon DEF RowBoundary
    <2>2. accBytes' = accBytes /\ Ceiling' = Ceiling
      BY DEF accBytes, Ceiling
    <2>3. pc' \notin {"start", "top", "pull", "final"}
      OBVIOUS
    <2> QED
      BY <2>1, <2>2, <2>3, Zenon DEF IInv, Accumulator
  <1>3. SourceDone'
    <2>1. pc \in {"flush", "failed"}
      BY DEF IInv, Writing
    <2> QED
      BY <2>1 DEF IInv, SourceDone
  <1>4. Writing'
    <2>1. RowBoundary(sent.bytes)'
      <3>1. RowBoundary(sent'.bytes)
        BY <1>b, Zenon
      <3> QED
        BY <3>1, Zenon DEF RowBoundary
    <2>2. chunk'[2] = cut'
      BY DEF IInv, Writing
    <2>3. sent'.bytes <= cut'
      BY <1>b
    <2>4. ~ running' /\ pc' # "flush"
      OBVIOUS
    <2>5. pc' \notin {"flush", "failed"} => sent'.bytes = cut'
      OBVIOUS
    <2> QED
      BY <2>1, <2>2, <2>3, <2>4, <2>5, Zenon DEF Writing
  <1> QED
    BY <1>1, <1>2, <1>3, <1>4

\* A chunk lands and is counted.
LEMMA ChunkLandsKeeps == IInv /\ ChunkLands => IInv'
  <1> SUFFICES ASSUME IInv, ChunkLands PROVE IInv'
    OBVIOUS
  <1>u. /\ pc = "flush" /\ running /\ running' = FALSE
        /\ landed' = Append(landed, chunk)
        /\ sent' = [rows  |-> sent.rows + RowsIn(chunk[1], chunk[2]),
                    bytes |-> sent.bytes + (chunk[2] - chunk[1])]
        /\ data' = data /\ cut' = cut /\ lastNl' = lastNl /\ ended' = ended
        /\ chunk' = chunk /\ aborted' = aborted
        /\ badRow' = badRow /\ failedAt' = failedAt
    BY DEF ChunkLands, accVars
  <1>p. /\ \/ pc' = "failed"
           \/ pc' = "cut" /\ ~ ended
           \/ pc' = "ok" /\ ended
        /\ stopped' = TRUE \/ stopped' = stopped
    BY Zenon DEF ChunkLands, Fail
  <1>t. /\ chunk \in Nat \X Nat /\ chunk[2] = cut /\ cut \in chunk[1] .. Len(data)
        /\ chunk[1] \in Nat /\ cut \in Nat /\ Len(data) \in Nat
        /\ sent.rows \in Nat /\ badRow \in Nat /\ failedAt \in Nat
        /\ ended => cut = Len(data)
    BY <1>u DEF IInv, Types, TypeOK, Writing, SourceDone
  <1>r. /\ RowsIn(0, cut) = sent.rows + RowsIn(chunk[1], cut)
        /\ RowsIn(chunk[1], cut) \in Nat
        /\ chunk[1] = sent.bytes
    BY <1>u, <1>t, RowsAcrossChunks
  <1>s. /\ sent'.bytes = cut /\ sent'.rows = RowsIn(0, cut)
        /\ sent' \in [rows : Nat, bytes : Nat]
    BY <1>u, <1>t, <1>r
  <1>l. /\ Len(landed') = Len(landed) + 1 /\ Len(landed) \in Nat
        /\ landed' # <<>> /\ landed' \in Seq(Nat \X Nat)
        /\ landed'[Len(landed')] = chunk
        /\ chunk[1] = LandedTo(Len(landed)) =>
              \A i \in DOMAIN landed' : landed'[i][1] = LandedTo(i - 1)'
    BY <1>u, LandedGrows
  <1>1. Types' /\ Accumulator' /\ SourceDone' /\ Writing'
    <2>1. stopped' \in BOOLEAN
      BY <1>p, Zenon DEF IInv, Types, TypeOK
    <2>2. \/ pc' = "failed"
          \/ pc' = "cut" /\ ~ ended /\ sent'.bytes = cut
          \/ pc' = "ok" /\ ended /\ cut = Len(data) /\ sent'.bytes = cut
      BY <1>p, <1>t, <1>s, Zenon
    <2>3. badRow' \in Nat /\ failedAt' \in Nat
      BY <1>u, <1>t
    <2> QED
      BY <1>u, <1>s, <1>l, <2>1, <2>2, <2>3, EndKeeps
  <1>2. Landing'
    <2>1. sent.bytes = LandedTo(Len(landed))
      BY <1>u DEF IInv, Landing
    <2>2. LandedTo(Len(landed))' = cut
      <3>1. Len(landed') # 0
        BY <1>l
      <3> QED
        BY <1>l, <1>t, <3>1 DEF LandedTo
    <2>3. RowsIn(0, sent.bytes)' = RowsIn(0, cut)
      BY <1>u, <1>s DEF RowsIn
    <2>4. \A i \in DOMAIN landed' : landed'[i][1] = LandedTo(i - 1)'
      BY <1>l, <1>r, <2>1
    <2> QED
      BY <1>s, <2>2, <2>3, <2>4, Zenon DEF Landing
  <1>3. RefusedRow'
    <2>1. ~ (badRow > 0)
      BY <1>u DEF IInv, RefusedRow
    <2> QED
      BY <1>u, <1>t, <2>1 DEF RefusedRow, FailedRowIsAbsolute
  <1> QED
    BY <1>1, <1>2, <1>3 DEF IInv

\* A chunk is refused; the engine may name the row.
LEMMA ChunkFailsKeeps == IInv /\ ChunkFails => IInv'
  <1> SUFFICES ASSUME IInv, ChunkFails PROVE IInv'
    OBVIOUS
  <1>u. /\ pc = "flush" /\ running /\ running' = FALSE
        /\ landed' = landed /\ sent' = sent
        /\ data' = data /\ cut' = cut /\ lastNl' = lastNl /\ ended' = ended
        /\ chunk' = chunk /\ aborted' = aborted
        /\ pc' = "failed" /\ stopped' = TRUE
    BY DEF ChunkFails, accVars, Fail
  <1>b. \/ \E p \in RowEnds : badRow' = p /\ failedAt' = RowNumber(p)
        \/ badRow' = badRow /\ failedAt' = failedAt
    BY DEF ChunkFails
  <1>t. /\ chunk[1] \in Nat /\ chunk[2] \in 0 .. Len(data) /\ Len(data) \in Nat
        /\ badRow \in Nat /\ failedAt \in Nat /\ ~ (badRow > 0)
        /\ sent \in [rows : Nat, bytes : Nat] /\ landed \in Seq(Nat \X Nat)
    BY <1>u DEF IInv, Types, TypeOK, RefusedRow
  <1>f. /\ badRow' \in Nat /\ failedAt' \in Nat /\ badRow' <= Len(data)
        /\ badRow' > 0 => failedAt' = RowsIn(0, badRow')
    <2>1. ASSUME NEW p \in RowEnds, badRow' = p, failedAt' = RowNumber(p)
          PROVE  /\ badRow' \in Nat /\ failedAt' \in Nat /\ badRow' <= Len(data)
                 /\ failedAt' = RowsIn(0, badRow')
      <3>1. p \in chunk[1] + 1 .. chunk[2]
        BY DEF RowEnds
      <3>2. p \in chunk[1] .. Len(data) /\ p \in Nat /\ p <= Len(data)
        BY <1>t, <3>1
      <3>3. RowsIn(0, p) = sent.rows + RowsIn(chunk[1], p) /\ RowsIn(chunk[1], p) \in Nat
        BY <1>u, <3>2, RowsAcrossChunks
      <3>4. RowNumber(p) = RowsIn(0, p) /\ RowNumber(p) \in Nat
        BY <1>t, <3>3 DEF RowNumber
      <3> QED
        BY <2>1, <3>2, <3>4
    <2>2. CASE badRow' = badRow /\ failedAt' = failedAt
      BY <1>t, <2>2
    <2> QED
      BY <1>b, <2>1, <2>2
  <1>1. Types' /\ Accumulator' /\ SourceDone' /\ Writing'
    BY <1>u, <1>t, <1>f, EndKeeps
  <1>2. Landing'
    <2>1. RowsIn(0, sent.bytes)' = RowsIn(0, sent.bytes)
      BY <1>u DEF RowsIn
    <2>2. \A n : LandedTo(n)' = LandedTo(n)
      BY <1>u DEF LandedTo
    <2>3. sent.bytes = LandedTo(Len(landed)) /\ sent.rows = RowsIn(0, sent.bytes)
      BY <1>u DEF IInv, Landing
    <2> QED
      BY <1>u, <2>1, <2>2, <2>3, Zenon DEF IInv, Landing, LandedTo
  <1>3. RefusedRow'
    <2>1. RowsIn(0, badRow)' = RowsIn(0, badRow')
      BY <1>u DEF RowsIn
    <2> QED
      BY <1>u, <1>f, <2>1 DEF RefusedRow, FailedRowIsAbsolute
  <1> QED
    BY <1>1, <1>2, <1>3 DEF IInv

\* An INSERT nobody awaits ends: its chunk is the one beyond what was sent.
LEMMA LateEndKeeps == IInv /\ LateEnd => IInv'
  <1> SUFFICES ASSUME IInv, LateEnd PROVE IInv'
    OBVIOUS
  <1>u. /\ pc = "failed" /\ running /\ running' = FALSE
        /\ landed' = landed \/ landed' = Append(landed, chunk)
        /\ pc' = pc /\ sent' = sent
        /\ data' = data /\ cut' = cut /\ lastNl' = lastNl /\ ended' = ended
        /\ chunk' = chunk /\ aborted' = aborted
        /\ badRow' = badRow /\ failedAt' = failedAt /\ stopped' = stopped
    BY DEF LateEnd, accVars, resultVars
  <1>t. /\ badRow \in Nat /\ failedAt \in Nat
        /\ sent \in [rows : Nat, bytes : Nat] /\ landed \in Seq(Nat \X Nat)
        /\ chunk[1] = sent.bytes
    BY <1>u DEF IInv, Types, TypeOK, Writing
  <1>l. sent.bytes = LandedTo(Len(landed)) /\ sent.rows = RowsIn(0, sent.bytes)
    BY <1>u, Zenon DEF IInv, Landing
  <1>r. RowsIn(0, sent.bytes)' = RowsIn(0, sent.bytes)
    BY <1>u DEF RowsIn
  <1>1. landed' \in Seq(Nat \X Nat) /\ Landing'
    <2>1. CASE landed' = landed
      <3>1. \A n : LandedTo(n)' = LandedTo(n)
        BY <2>1 DEF LandedTo
      <3> QED
        BY <1>u, <1>t, <1>l, <1>r, <2>1, <3>1, Zenon DEF IInv, Landing, LandedTo
    <2>2. CASE landed' = Append(landed, chunk)
      <3>1. /\ Len(landed') = Len(landed) + 1 /\ Len(landed) \in Nat
            /\ landed' # <<>> /\ landed' \in Seq(Nat \X Nat)
            /\ landed'[Len(landed')] = chunk
            /\ \A n \in 0 .. Len(landed) : LandedTo(n)' = LandedTo(n)
            /\ chunk[1] = LandedTo(Len(landed)) =>
                  \A i \in DOMAIN landed' : landed'[i][1] = LandedTo(i - 1)'
        BY <2>2, LandedGrows
      <3>2. Len(landed') - 1 = Len(landed) /\ Len(landed) \in 0 .. Len(landed)
        BY <3>1
      <3>3. LandedTo(Len(landed) - 1)' = sent.bytes
        <4>1. LandedTo(Len(landed) - 1)' = IF Len(landed') - 1 = 0 THEN 0 ELSE landed'[Len(landed') - 1][2]
          BY DEF LandedTo
        <4>2. landed'[Len(landed)] = landed[Len(landed)] \/ Len(landed) = 0
          BY <1>t, <2>2, <3>1
        <4> QED
          BY <1>l, <3>2, <4>1, <4>2 DEF LandedTo
      <3>4. \A i \in DOMAIN landed' : landed'[i][1] = LandedTo(i - 1)'
        BY <1>t, <1>l, <3>1
      <3> QED
        BY <1>u, <1>l, <1>r, <3>1, <3>3, <3>4, Zenon DEF Landing
    <2> QED
      BY <1>u, <2>1, <2>2
  <1>2. Types' /\ Accumulator' /\ SourceDone' /\ Writing'
    <2>1. stopped' \in BOOLEAN
      BY <1>u, Zenon DEF IInv, Types, TypeOK
    <2> QED
      BY <1>u, <1>t, <1>1, <2>1, EndKeeps
  <1>3. RefusedRow'
    <2>1. RowsIn(0, badRow)' = RowsIn(0, badRow)
      BY <1>u DEF RowsIn
    <2> QED
      BY <1>u, <2>1, Zenon DEF IInv, RefusedRow, FailedRowIsAbsolute
  <1> QED
    BY <1>1, <1>2, <1>3 DEF IInv

\* The inner loop: a chunk, a row too large, or back to the source.
LEMMA CutLoopKeeps == IInv /\ CutLoop => IInv'
  <1> SUFFICES ASSUME IInv, CutLoop PROVE IInv'
    OBVIOUS
  <1>u. /\ pc = "cut" /\ data' = data /\ ended' = ended /\ sent' = sent
        /\ aborted' = aborted /\ badRow' = badRow /\ failedAt' = failedAt
    BY DEF CutLoop
  <1>t. /\ lastNl \in -1 .. accBytes - 1 /\ accBytes \in Int
        /\ accBytes = Len(data) - cut /\ cut \in Nat /\ Len(data) \in Nat
        /\ MaxChunk \in Nat /\ MaxRow \in Nat
    BY StreamInsertAssumption DEF IInv, Types, TypeOK, accBytes
  <1>1. CASE accBytes >= MaxChunk /\ lastNl >= 0 /\ Insert(CutAt)
             /\ landed' = landed /\ stopped' = stopped
    <2>1. CutAt \in cut + 1 .. Len(data)
      BY <1>t, <1>1 DEF CutAt
    <2>2. data[CutAt] = "n"
      BY <1>1 DEF IInv, Accumulator, CutAt
    <2> QED
      BY <1>u, <1>1, <2>1, <2>2, InsertKeeps
  <1>2. CASE /\ cut' = cut /\ lastNl' = lastNl /\ chunk' = chunk
             /\ running' = running /\ landed' = landed
             /\ \/ Fail("row-too-large")
                \/ /\ accBytes < MaxChunk \/ (lastNl < 0 /\ accBytes <= MaxRow)
                   /\ pc' = "top" /\ stopped' = stopped
    <2>1. aborted' \in BOOLEAN /\ stopped' \in BOOLEAN
      BY <1>u, <1>2, Zenon DEF IInv, Types, TypeOK, Fail
    <2>2. pc' = "failed" \/ (pc' = "top" /\ accBytes <= Ceiling)
      <3>1. \/ pc' = "failed"
            \/ pc' = "top" /\ (accBytes < MaxChunk \/ (lastNl < 0 /\ accBytes <= MaxRow))
        BY <1>2, Zenon DEF Fail
      <3>2. accBytes < MaxChunk \/ accBytes <= MaxRow => accBytes <= Ceiling
        BY <1>t DEF Ceiling
      <3> QED
        BY <3>1, <3>2, Zenon
    <2>3. Moves
      BY <1>u, <1>2, <2>1, <2>2, Zenon DEF Moves
    <2> QED
      BY <2>3, MovesKeeps
  <1> QED
    BY <1>1, <1>2 DEF CutLoop, writeVars

\* The final flush, or none.
LEMMA FinalKeeps == IInv /\ Final => IInv'
  <1> SUFFICES ASSUME IInv, Final PROVE IInv'
    OBVIOUS
  <1>u. /\ pc = "final" /\ data' = data /\ ended' = ended /\ sent' = sent
        /\ aborted' = aborted /\ badRow' = badRow /\ failedAt' = failedAt
        /\ stopped' = stopped
    BY DEF Final, resultVars
  <1>t. /\ accBytes = Len(data) - cut /\ cut \in 0 .. Len(data) /\ Len(data) \in Nat
        /\ ended
    BY <1>u DEF IInv, Types, TypeOK, accBytes, SourceDone
  <1>1. CASE accBytes > 0
    <2>1. Insert(Len(data)) /\ landed' = landed
      BY <1>1 DEF Final
    <2>2. Len(data) \in cut + 1 .. Len(data)
      BY <1>t, <1>1
    <2> QED
      BY <1>u, <1>t, <2>1, <2>2, InsertKeeps
  <1>2. CASE ~ (accBytes > 0)
    <2>1. /\ pc' = "ok" /\ cut' = cut /\ lastNl' = lastNl /\ chunk' = chunk
          /\ running' = running /\ landed' = landed
      BY <1>2 DEF Final, writeVars
    <2>2. cut = Len(data)
      BY <1>t, <1>2
    <2>3. aborted' \in BOOLEAN /\ stopped' \in BOOLEAN
      BY <1>u, Zenon DEF IInv, Types, TypeOK
    <2> QED
      BY <1>u, <2>1, <2>2, <2>3, MovesKeeps, Zenon DEF Moves
  <1> QED
    BY <1>1, <1>2

\* And so does every step of a streaming insert (src/streamInsert.ts).
THEOREM NextIsInductive == IInv /\ [Next]_vars => IInv'
  <1> SUFFICES ASSUME IInv, [Next]_vars PROVE IInv'
    OBVIOUS
  <1>b. aborted \in BOOLEAN /\ stopped \in BOOLEAN
    BY Zenon DEF IInv, Types, TypeOK
  <1> USE DEF accVars, writeVars, resultVars, Fail
  <1>1. CASE Start
    BY <1>1, <1>b, MovesKeeps, Zenon DEF Start, Moves
  <1>2. CASE Top
    BY <1>2, <1>b, MovesKeeps, Zenon DEF Top, Moves
  <1>3. CASE CutLoop
    BY <1>3, CutLoopKeeps
  <1>4. CASE Final
    BY <1>4, FinalKeeps
  <1>5. CASE ChunkLands
    BY <1>5, ChunkLandsKeeps
  <1>6. CASE ChunkFails
    BY <1>6, ChunkFailsKeeps
  <1>7. CASE Yields
    BY <1>7, YieldsKeeps
  <1>8. CASE Ends
    BY <1>8, <1>b, MovesKeeps, Zenon DEF Ends, Moves
  <1>9. CASE SourceFails
    BY <1>9, <1>b, MovesKeeps, Zenon DEF SourceFails, Moves
  <1>10. CASE Stalls
    BY <1>10, <1>b, MovesKeeps, Zenon DEF Stalls, Moves
  <1>11. CASE GivesUp
    BY <1>11, <1>b, MovesKeeps, Zenon DEF GivesUp, Moves
  <1>12. CASE LateEnd
    BY <1>12, LateEndKeeps
  <1>13. CASE Abort
    BY <1>13, <1>b, MovesKeeps, Zenon DEF Abort, Moves
  <1>14. CASE UNCHANGED vars
    BY <1>14, <1>b, MovesKeeps, Zenon DEF vars, Moves
  <1> QED
    BY <1>1, <1>2, <1>3, <1>4, <1>5, <1>6, <1>7, <1>8, <1>9, <1>10, <1>11, <1>12,
       <1>13, <1>14 DEF Next, Code, Engine, Source

\* The strengthening holds in every reachable state.
THEOREM Inductive == Spec => []IInv
  BY InitIsInductive, NextIsInductive, PTL DEF Spec

------------------------------------------------------------------------------
(* The properties. *)

\* Every variable has its type: among others, the last newline seen lies in the
\* accumulator, and what is cut was pulled.
THEOREM TypeCorrect == Spec => []TypeOK
  <1>1. IInv => TypeOK
    BY DEF IInv, Types
  <1> QED
    BY <1>1, Inductive, PTL

\* No row is split over two INSERTs, whatever the ceilings and however the
\* source cuts its items.
THEOREM NoRowIsSplit == Spec => []RowsStayWhole
  <1>1. IInv => RowsStayWhole
    BY DEF IInv, Accumulator, Writing, RowBoundary, RowsStayWhole, Types, TypeOK
  <1> QED
    BY <1>1, Inductive, PTL

\* The accumulator never outgrows its ceiling by more than one item of the
\* source.
THEOREM MemoryIsBounded == Spec => []BufferIsBounded
  <1>1. IInv => BufferIsBounded
    BY DEF IInv, Accumulator, Ceiling, BufferIsBounded
  <1> QED
    BY <1>1, Inductive, PTL

\* The chunks land without gap or overlap, and progress counts exactly what
\* landed, but for the one chunk whose outcome nobody waited for.
THEOREM CountsWhatLands == Spec => []LandsAsCounted
  <1>1. IInv => LandsAsCounted
    BY Zenon DEF IInv, Landing, LandsAsCounted
  <1> QED
    BY <1>1, Inductive, PTL

\* A promise that resolves has the whole source in the engine.
THEOREM WholeOrFailed == Spec => []SuccessIsWhole
  <1>1. IInv => SuccessIsWhole
    <2> SUFFICES ASSUME IInv, pc = "ok"
                 PROVE  ended /\ sent.bytes = Len(data) /\ sent.rows = RowsIn(0, Len(data))
      BY DEF SuccessIsWhole
    <2>1. ended /\ cut = Len(data)
      BY DEF IInv, SourceDone
    <2>2. sent.bytes = cut
      BY DEF IInv, Writing
    <2> QED
      BY <2>1, <2>2 DEF IInv, Landing
  <1> QED
    BY <1>1, Inductive, PTL

\* The row number of a failure counts from the start of the source, whatever
\* chunk the row was in.
THEOREM RowNumbersAreAbsolute == Spec => []FailedRowIsAbsolute
  <1>1. IInv => FailedRowIsAbsolute
    BY DEF IInv, RefusedRow
  <1> QED
    BY <1>1, Inductive, PTL

\* After a failure no chunk is handed out and the promise does not settle again;
\* a failure after the first pull stops the producer.
THEOREM FailedMeansStopped == Spec => FailureStops
  <1> DEFINE A == /\ pc = "failed" => pc' = "failed" /\ chunk' = chunk
                  /\ pc # "start" /\ pc # "failed" /\ pc' = "failed" => stopped'
  <1>1. [Next]_vars => [A]_vars
    BY DEF Next, Code, Engine, Source, Start, Top, CutLoop, Final, ChunkLands,
           ChunkFails, Yields, Ends, SourceFails, Stalls, GivesUp, LateEnd, Abort,
           Insert, Fail, accVars, writeVars, resultVars, vars
  <1> QED
    BY <1>1, PTL DEF Spec, FailureStops

-----------------------------------------------------------------------------
(* SourcePlan: names go round.                                             *)

\* What comes after the first part of a sequence.
LEMMA TailIsRest ==
    ASSUME NEW S, NEW s \in Seq(S), NEW t \in Seq(S), Len(s) = Len(t) + 1,
           \A i \in 1 .. Len(t) : s[i + 1] = t[i]
    PROVE  Tail(s) = t
  <1>1. Len(t) \in Nat /\ s # <<>>
    OBVIOUS
  <1>2. /\ Tail(s) \in Seq(S) /\ Len(Tail(s)) = Len(s) - 1
        /\ \A i \in 1 .. Len(Tail(s)) : Tail(s)[i] = s[i + 1]
    BY <1>1, HeadTailProperties
  <1>3. Len(Tail(s)) = Len(t) /\ \A i \in 1 .. Len(t) : Tail(s)[i] = t[i]
    BY <1>1, <1>2
  <1> QED
    BY <1>2, <1>3, SeqEqual

\* A sequence that holds those of two others is their concatenation.
LEMMA ConcatIs ==
    ASSUME NEW S, NEW s \in Seq(S), NEW t \in Seq(S), NEW u \in Seq(S),
           Len(u) = Len(s) + Len(t),
           \A i \in 1 .. Len(s) : u[i] = s[i],
           \A i \in 1 .. Len(t) : u[Len(s) + i] = t[i]
    PROVE  s \o t = u
  <1> DEFINE v == s \o t
  <1>1. Len(s) \in Nat /\ Len(t) \in Nat
    OBVIOUS
  <1>2. v \in Seq(S) /\ Len(v) = Len(s) + Len(t)
    BY ConcatProperties
  <1>3. \A i \in 1 .. Len(s) + Len(t) : v[i] = IF i <= Len(s) THEN s[i] ELSE t[i - Len(s)]
    BY ConcatProperties
  <1> HIDE DEF v
  <1>4. ASSUME NEW i \in 1 .. Len(s) + Len(t) PROVE v[i] = u[i]
    <2>1. CASE i <= Len(s)
      BY <1>1, <1>3, <2>1
    <2>2. CASE ~(i <= Len(s))
      <3>1. PICK k \in 1 .. Len(t) : i = Len(s) + k
        <4>1. i - Len(s) \in 1 .. Len(t) /\ i = Len(s) + (i - Len(s))
          BY <1>1, <2>2
        <4> QED
          BY <4>1
      <3>2. v[i] = t[i - Len(s)] /\ i - Len(s) = k
        BY <1>1, <1>3, <2>2, <3>1
      <3> QED
        BY <3>1, <3>2
    <2> QED
      BY <2>1, <2>2
  <1>5. v = u
    BY <1>2, <1>4, SeqEqual
  <1> QED
    BY <1>5 DEF v

\* The first part of a qualified name is its namespace, when that holds no dot, the rest the object.
LEMMA NamesSplit ==
    ASSUME NEW ns \in Databases \cup Schemas, Len(ns) = 1, NEW t \in TableNames
    PROVE  SplitName(ns \o t) = <<ns, t>>
  <1>0. PICK S : S = STRING
    OBVIOUS
  <1>1. /\ ns \in Seq(S) /\ Len(ns) = 1
        /\ t \in Seq(S) /\ Len(t) \in Nat \ {0}
    BY <1>0, SourceNamesAssumption, EmptySeq
  <1>2. /\ ns \o t \in Seq(S) /\ Len(ns \o t) = 1 + Len(t)
        /\ \A i \in 1 .. 1 + Len(t) : (ns \o t)[i] = IF i <= 1 THEN ns[i] ELSE t[i - 1]
    <2>1. ns \in Seq(S) /\ t \in Seq(S)
      BY <1>1
    <2>2. ns \o t \in Seq(S) /\ Len(ns \o t) = Len(ns) + Len(t)
      BY <2>1, ConcatProperties
    <2>3. \A i \in 1 .. Len(ns) + Len(t) : (ns \o t)[i] = IF i <= Len(ns) THEN ns[i] ELSE t[i - Len(ns)]
      BY <2>1, ConcatProperties
    <2> QED
      BY <1>1, <2>2, <2>3
  <1>3. (ns \o t)[1] = ns[1]
    BY <1>1, <1>2
  <1>4. <<ns[1]>> = ns
    BY <1>1
  <1>5. \A i \in 1 .. Len(t) : (ns \o t)[i + 1] = t[i]
    <2> TAKE i \in 1 .. Len(t)
    <2>1. i + 1 \in 1 .. 1 + Len(t) /\ ~(i + 1 <= 1) /\ (i + 1) - 1 = i
      BY <1>1
    <2> QED
      BY <1>2, <2>1
  <1>6. Tail(ns \o t) = t
    <2>1. ns \o t \in Seq(S) /\ t \in Seq(S) /\ Len(ns \o t) = Len(t) + 1
      BY <1>1, <1>2
    <2> QED
      BY <1>5, <2>1, TailIsRest
  <1>7. SplitName(ns \o t) = << <<(ns \o t)[1]>>, Tail(ns \o t)>>
    <2>1. Len(ns \o t) # 1
      BY <1>1, <1>2
    <2> QED
      BY <2>1 DEF SplitName
  <1> QED
    BY <1>3, <1>4, <1>6, <1>7

\* What a list of arguments is, written out.
LEMMA Appended ==
    ASSUME NEW a, NEW b, NEW c, NEW d, NEW e, NEW f
    PROVE  /\ <<a, b, c>> \o <<>> = <<a, b, c>>
           /\ <<a, b, c>> \o <<d>> = <<a, b, c, d>>
           /\ <<a, b, c>> \o <<d, e>> = <<a, b, c, d, e>>
           /\ <<a, b, c, d, e>> \o <<>> = <<a, b, c, d, e>>
           /\ <<a, b, c, d, e>> \o <<f>> = <<a, b, c, d, e, f>>
  <1> DEFINE S == {a, b, c, d, e, f}
  <1>1. PICK s \in Seq(S) : s = <<a, b, c>> /\ Len(s) = 3 /\ s[1] = a /\ s[2] = b /\ s[3] = c
    <2>1. <<a, b, c>> \in Seq(S)
      OBVIOUS
    <2> QED
      BY <2>1
  <1>2. s \o <<>> = s
    BY <1>1, ConcatEmptySeq
  <1>3. PICK x \in Seq(S) : x = <<d>> /\ Len(x) = 1 /\ x[1] = d
    <2>1. <<d>> \in Seq(S)
      OBVIOUS
    <2> QED
      BY <2>1
  <1>4. PICK y \in Seq(S) : y = <<d, e>> /\ Len(y) = 2 /\ y[1] = d /\ y[2] = e
    <2>1. <<d, e>> \in Seq(S)
      OBVIOUS
    <2> QED
      BY <2>1
  <1>5. PICK u \in Seq(S) : u = <<a, b, c, d>> /\ Len(u) = 4 /\ u[1] = a /\ u[2] = b /\ u[3] = c /\ u[4] = d
    <2>1. <<a, b, c, d>> \in Seq(S)
      OBVIOUS
    <2> QED
      BY <2>1
  <1>6. PICK v \in Seq(S) : v = <<a, b, c, d, e>> /\ Len(v) = 5 /\ v[1] = a /\ v[2] = b /\ v[3] = c /\ v[4] = d
                            /\ v[5] = e
    <2>1. <<a, b, c, d, e>> \in Seq(S)
      OBVIOUS
    <2> QED
      BY <2>1
  <1>7. PICK z \in Seq(S) : z = <<f>> /\ Len(z) = 1 /\ z[1] = f
    <2>1. <<f>> \in Seq(S)
      OBVIOUS
    <2> QED
      BY <2>1
  <1>8. PICK w \in Seq(S) : w = <<a, b, c, d, e, f>> /\ Len(w) = 6 /\ w[1] = a /\ w[2] = b /\ w[3] = c
                             /\ w[4] = d /\ w[5] = e /\ w[6] = f
    <2>1. <<a, b, c, d, e, f>> \in Seq(S)
      OBVIOUS
    <2> QED
      BY <2>1
  <1> HIDE DEF S
  <1>9. v \o z = w
    <2>1. \A i \in 1 .. Len(v) : w[i] = v[i]
      <3> TAKE i \in 1 .. Len(v)
      <3>1. i \in {1, 2, 3, 4, 5}
        BY <1>6
      <3> QED
        BY <1>6, <1>8, <3>1
    <2>2. \A i \in 1 .. Len(z) : w[Len(v) + i] = z[i]
      BY <1>6, <1>7, <1>8
    <2>3. Len(w) = Len(v) + Len(z)
      BY <1>6, <1>7, <1>8
    <2> QED
      BY <2>1, <2>2, <2>3, ConcatIs
  <1>10. v \o <<>> = v
    BY <1>6, ConcatEmptySeq
  <1>11. s \o x = u
    <2>1. \A i \in 1 .. Len(s) : u[i] = s[i]
      BY <1>1, <1>5
    <2>2. \A i \in 1 .. Len(x) : u[Len(s) + i] = x[i]
      BY <1>1, <1>3, <1>5
    <2>3. Len(u) = Len(s) + Len(x)
      BY <1>1, <1>3, <1>5
    <2> QED
      BY <2>1, <2>2, <2>3, ConcatIs
  <1>12. s \o y = v
    <2>1. \A i \in 1 .. Len(s) : v[i] = s[i]
      BY <1>1, <1>6
    <2>2. \A i \in 1 .. Len(y) : v[Len(s) + i] = y[i]
      BY <1>1, <1>4, <1>6
    <2>3. Len(v) = Len(s) + Len(y)
      BY <1>1, <1>4, <1>6
    <2> QED
      BY <2>1, <2>2, <2>3, ConcatIs
  <1> QED
    BY <1>1, <1>2, <1>3, <1>4, <1>5, <1>6, <1>7, <1>8, <1>9, <1>10, <1>11, <1>12

\* The server options of a connection, one by one.
LEMMA ServerOption ==
    ASSUME NEW c \in ServerOptions
    PROVE  /\ ~IsLocation(c)
           /\ <<c.spec.type, c.spec.fn>> \in
                {<<"clickhouse", "remote">>, <<"clickhouse", "remoteSecure">>, <<"postgres", "postgresql">>,
                 <<"mysql", "mysql">>, <<"mongodb", "mongodb">>}
           /\ Fn(c) # "postgresql" \/ c.spec.type = "postgres"
           /\ Fn(c) # "refused"
           /\ Database(c) \in Databases \cup {Unset}
           /\ c.schema \in Schemas \cup {Unset}
  <1>1. /\ c.spec \in Servers /\ c.secure \in BOOLEAN
        /\ c.database \in {Unset} \cup Databases /\ c.path \in {Unset} \cup Databases
        /\ c.schema \in {Unset} \cup Schemas
    BY DEF ServerOptions
  <1>2. <<c.spec.type, c.spec.fn>> \in
           {<<"clickhouse", "remote">>, <<"clickhouse", "remoteSecure">>, <<"postgres", "postgresql">>,
            <<"mysql", "mysql">>, <<"mongodb", "mongodb">>}
    BY <1>1 DEF Servers
  <1>3. ~IsLocation(c)
    <2>1. \A l \in Locations : l.fn \in Credentialed \cup TakesFormat
      BY DEF Locations
    <2> QED
      BY <1>2, <2>1 DEF IsLocation, Credentialed, TakesFormat
  <1> QED
    BY <1>1, <1>2, <1>3 DEF Fn, Database, Or

\* What a call carries.
LEMMA CallParts == \A fn, args : Call(fn, args).fn = fn /\ Call(fn, args).args = args
  BY DEF Call

\* The elements of a list of arguments that name the account.
LEMMA AccountParts ==
    ASSUME NEW s
    PROVE  /\ SubSeq(s, 4, 3) = <<>>
           /\ SubSeq(s, 4, 4) = <<s[4]>>
           /\ SubSeq(s, 4, 5) = <<s[4], s[5]>>
  <1>0. PICK d, e : d = s[4] /\ e = s[5]
    OBVIOUS
  <1> DEFINE S == {d, e}
  <1>1. SubSeq(s, 4, 3) = <<>>
    BY SubSeqEmpty
  <1>2. SubSeq(s, 4, 4) = <<d>>
    <2>1. /\ SubSeq(s, 4, 4) \in Seq(S)
          /\ Len(SubSeq(s, 4, 4)) = IF 4 <= 4 THEN 4 - 4 + 1 ELSE 0
          /\ \A i \in 1 .. 4 - 4 + 1 : SubSeq(s, 4, 4)[i] = s[4 + i - 1]
      <3>1. \A i \in 4 .. 4 : s[i] \in S
        BY <1>0
      <3> QED
        BY <3>1, SubSeqProperties
    <2>2. <<d>> \in Seq(S) /\ Len(<<d>>) = 1 /\ <<d>>[1] = d
      OBVIOUS
    <2>3. Len(SubSeq(s, 4, 4)) = 1 /\ SubSeq(s, 4, 4)[1] = d
      BY <1>0, <2>1
    <2>4. \A i \in 1 .. Len(<<d>>) : SubSeq(s, 4, 4)[i] = <<d>>[i]
      BY <2>2, <2>3
    <2> QED
      BY <2>1, <2>2, <2>3, <2>4, SeqEqual
  <1>3. SubSeq(s, 4, 5) = <<d, e>>
    <2>1. /\ SubSeq(s, 4, 5) \in Seq(S)
          /\ Len(SubSeq(s, 4, 5)) = IF 4 <= 5 THEN 5 - 4 + 1 ELSE 0
          /\ \A i \in 1 .. 5 - 4 + 1 : SubSeq(s, 4, 5)[i] = s[4 + i - 1]
      <3>1. \A i \in 4 .. 5 : s[i] \in S
        BY <1>0
      <3> QED
        BY <3>1, SubSeqProperties
    <2>2. <<d, e>> \in Seq(S) /\ Len(<<d, e>>) = 2 /\ <<d, e>>[1] = d /\ <<d, e>>[2] = e
      OBVIOUS
    <2>3. Len(SubSeq(s, 4, 5)) = 2 /\ SubSeq(s, 4, 5)[1] = d /\ SubSeq(s, 4, 5)[2] = e
      BY <1>0, <2>1
    <2>4. \A i \in 1 .. Len(<<d, e>>) : SubSeq(s, 4, 5)[i] = <<d, e>>[i]
      BY <2>2, <2>3
    <2> QED
      BY <2>1, <2>2, <2>3, <2>4, SeqEqual
  <1> QED
    BY <1>0, <1>1, <1>2, <1>3

\* What a call reaches and the account it names, by its arguments.
LEMMA CallReads ==
    ASSUME NEW fn, NEW args
    PROVE  /\ Account(Call(fn, args)) = SubSeq(args, 4, IF Len(args) < 5 THEN Len(args) ELSE 5)
           /\ fn # "postgresql" =>
                 Reaches(Call(fn, args)) = [namespace |-> args[2], within |-> Unset, object |-> args[3]]
           /\ fn = "postgresql" =>
                 Reaches(Call(fn, args)) =
                    [namespace |-> IF Len(args) > 5 THEN args[6] ELSE <<"public">>,
                     within |-> args[2], object |-> args[3]]
  <1>1. Call(fn, args).fn = fn /\ Call(fn, args).args = args
    BY CallParts
  <1> QED
    BY <1>1 DEF Account, Reaches

\* The account in a list of arguments, by how many there are.
LEMMA CallNames ==
    ASSUME NEW fn, NEW args
    PROVE  /\ Len(args) = 3 => Account(Call(fn, args)) = <<>>
           /\ Len(args) = 4 => Account(Call(fn, args)) = <<args[4]>>
           /\ Len(args) = 5 => Account(Call(fn, args)) = <<args[4], args[5]>>
           /\ Len(args) = 6 => Account(Call(fn, args)) = <<args[4], args[5]>>
  <1>1. Account(Call(fn, args)) = SubSeq(args, 4, IF Len(args) < 5 THEN Len(args) ELSE 5)
    BY CallReads
  <1>2. /\ SubSeq(args, 4, 3) = <<>>
        /\ SubSeq(args, 4, 4) = <<args[4]>>
        /\ SubSeq(args, 4, 5) = <<args[4], args[5]>>
    BY AccountParts
  <1>3. ASSUME Len(args) = 3 PROVE Account(Call(fn, args)) = <<>>
    BY <1>1, <1>2, <1>3
  <1>4. ASSUME Len(args) = 4 PROVE Account(Call(fn, args)) = <<args[4]>>
    BY <1>1, <1>2, <1>4
  <1>5. ASSUME Len(args) \in {5, 6} PROVE Account(Call(fn, args)) = <<args[4], args[5]>>
    BY <1>1, <1>2, <1>5
  <1> QED
    BY <1>3, <1>4, <1>5

\* The arguments of remote() and remoteSecure(), written out.
LEMMA RemoteParts ==
    ASSUME NEW c, NEW db, NEW object
    PROVE  RemoteArgs(c, db, object) =
              IF Username(c) = Unset THEN <<"addr", db, object>>
              ELSE IF Password(c) = Unset THEN <<"addr", db, object, Username(c)>>
              ELSE <<"addr", db, object, Username(c), Password(c)>>
  <1>1. CASE Username(c) = Unset
    BY <1>1, Appended DEF RemoteArgs
  <1>2. CASE Username(c) # Unset /\ Password(c) = Unset
    BY <1>2, Appended DEF RemoteArgs
  <1>3. CASE Username(c) # Unset /\ Password(c) # Unset
    BY <1>3, Appended DEF RemoteArgs
  <1> QED
    BY <1>1, <1>2, <1>3

\* A call of remote() or remoteSecure(): where it reaches, and the account it goes with.
LEMMA RemoteReaches ==
    ASSUME NEW c \in ServerOptions, c.spec.type = "clickhouse", NEW db, NEW object
    PROVE  /\ Remote(c, db, object) # Refused <=> (Password(c) # Unset => Username(c) # Unset)
           /\ Remote(c, db, object) # Refused =>
                /\ Reaches(Remote(c, db, object)) = [namespace |-> db, within |-> Unset, object |-> object]
                /\ Account(Remote(c, db, object)) =
                     IF Username(c) = Unset THEN <<>>
                     ELSE IF Password(c) = Unset THEN <<Username(c)>> ELSE <<Username(c), Password(c)>>
  <1>1. Fn(c) # "refused" /\ Fn(c) # "postgresql"
    BY ServerOption
  <1>2. Call(Fn(c), RemoteArgs(c, db, object)) # Refused
    BY <1>1, CallParts DEF Refused
  <1>3. Remote(c, db, object) # Refused <=> (Password(c) # Unset => Username(c) # Unset)
    BY <1>2 DEF Remote
  <1>4. ASSUME Remote(c, db, object) # Refused
        PROVE  /\ Reaches(Remote(c, db, object)) = [namespace |-> db, within |-> Unset, object |-> object]
               /\ Account(Remote(c, db, object)) =
                    IF Username(c) = Unset THEN <<>>
                    ELSE IF Password(c) = Unset THEN <<Username(c)>> ELSE <<Username(c), Password(c)>>
    <2>1. Remote(c, db, object) = Call(Fn(c), RemoteArgs(c, db, object))
      BY <1>4 DEF Remote
    <2>2. PICK args : args = RemoteArgs(c, db, object)
      OBVIOUS
    <2>3. args[2] = db /\ args[3] = object
          /\ IF Username(c) = Unset THEN Len(args) = 3
             ELSE IF Password(c) = Unset THEN Len(args) = 4 /\ args[4] = Username(c)
             ELSE Len(args) = 5 /\ args[4] = Username(c) /\ args[5] = Password(c)
      BY <2>2, RemoteParts
    <2> QED
      BY <1>1, <2>1, <2>2, <2>3, CallReads, CallNames
  <1> QED
    BY <1>3, <1>4

\* The reads and the listings of a server that is not ClickHouse, written out.
LEMMA OtherServers ==
    ASSUME NEW c \in ServerOptions, c.spec.type # "clickhouse", HasAuth(c), NEW name
    PROVE  LET q == SplitName(name)[1]  o == SplitName(name)[2] IN
           /\ c.spec.type = "postgres" /\ Database(c) # Unset =>
                /\ Or(q, c.schema) = Unset =>
                     Table(c, name) = Call("postgresql", <<"addr", Database(c), o, Username(c), Password(c)>>)
                /\ Or(q, c.schema) # Unset =>
                     Table(c, name) = Call("postgresql", <<"addr", Database(c), o, Username(c), Password(c),
                                                           Or(q, c.schema)>>)
           /\ c.spec.type # "postgres" /\ Or(q, Database(c)) # Unset =>
                Table(c, name) = Call(c.spec.fn, <<"addr", Or(q, Database(c)), o, Username(c), Password(c)>>)
  <1> DEFINE q == SplitName(name)[1]
             o == SplitName(name)[2]
             five == <<"addr", Database(c), o, Username(c), Password(c)>>
  <1>1. ~IsLocation(c) /\ Fn(c) = c.spec.fn
    BY ServerOption DEF Fn
  <1>2. ASSUME NEW x
        PROVE  five \o <<>> = five /\ five \o <<x>> = <<"addr", Database(c), o, Username(c), Password(c), x>>
    <2>1. PICK a, b, d, e, f : a = "addr" /\ b = Database(c) /\ d = o /\ e = Username(c) /\ f = Password(c)
      OBVIOUS
    <2>2. <<a, b, d, e, f>> \o <<>> = <<a, b, d, e, f>> /\ <<a, b, d, e, f>> \o <<x>> = <<a, b, d, e, f, x>>
      BY Appended
    <2> QED
      BY <2>1, <2>2
  <1>3. ASSUME c.spec.type = "postgres", Database(c) # Unset
        PROVE  /\ Or(q, c.schema) = Unset => Table(c, name) = Call("postgresql", five)
               /\ Or(q, c.schema) # Unset =>
                    Table(c, name) = Call("postgresql", <<"addr", Database(c), o, Username(c), Password(c),
                                                          Or(q, c.schema)>>)
    BY <1>1, <1>2, <1>3 DEF Table
  <1>4. ASSUME c.spec.type # "postgres", Or(q, Database(c)) # Unset
        PROVE  Table(c, name) = Call(c.spec.fn, <<"addr", Or(q, Database(c)), o, Username(c), Password(c)>>)
    BY <1>1, <1>4 DEF Table
  <1> QED
    BY <1>3, <1>4

\* A table listed in a namespace without a dot can be read under its qualified name, with the account of the
\* listing.
LEMMA ListedIsRead ==
    ASSUME NEW c \in ServerOptions, Catalog(c, <<"tables">>) # Refused,
           NEW ns \in Namespaces(Catalog(c, <<"databases">>)), Len(ns) = 1, NEW t \in TableNames
    PROVE  LET call == Table(c, ns \o t) IN
           /\ call # Refused
           /\ Account(call) = Account(Catalog(c, <<"tables">>))
           /\ Reaches(call).object = t
           /\ Reaches(call).namespace = ns
           /\ Reaches(call).within # Unset => Reaches(call).within = Database(c)
  <1> DEFINE name == ns \o t
             call == Table(c, name)
             listing == Catalog(c, <<"tables">>)
  <1>1. /\ ~IsLocation(c) /\ Fn(c) # "refused"
        /\ <<c.spec.type, c.spec.fn>> \in
             {<<"clickhouse", "remote">>, <<"clickhouse", "remoteSecure">>, <<"postgres", "postgresql">>,
              <<"mysql", "mysql">>, <<"mongodb", "mongodb">>}
        /\ Fn(c) # "postgresql" \/ c.spec.type = "postgres"
    BY ServerOption
  <1>2. ns \in Databases \cup Schemas /\ ns # Unset
    <2>1. ns \in Databases \cup Schemas
      BY DEF Namespaces
    <2> QED
      BY <2>1, SourceNamesAssumption
  <1>3. SplitName(name) = <<ns, t>> /\ SplitName(name)[1] = ns /\ SplitName(name)[2] = t
    BY <1>2, NamesSplit
  <1>4. \A x : Or(ns, x) = ns
    BY <1>2 DEF Or
  <1> HIDE DEF name
  <1>5. CASE c.spec.type = "clickhouse"
    <2>1. call = Remote(c, ns, t)
      BY <1>1, <1>2, <1>3, <1>4, <1>5 DEF Table
    <2>2. listing = Remote(c, <<"system">>, <<"tables">>)
      BY <1>5 DEF Catalog
    <2>3. call # Refused
      BY <1>5, <2>1, <2>2, RemoteReaches
    <2>4. Account(call) = Account(listing)
      BY <1>5, <2>1, <2>2, <2>3, RemoteReaches
    <2>5. Reaches(call) = [namespace |-> ns, within |-> Unset, object |-> t]
      BY <1>5, <2>1, <2>3, RemoteReaches
    <2> QED
      BY <2>3, <2>4, <2>5 DEF name
  <1>6. CASE c.spec.type = "postgres"
    <2>1. Database(c) # Unset /\ HasAuth(c)
          /\ listing = Call("postgresql", <<"addr", Database(c), <<"tables">>, Username(c), Password(c),
                                            <<"information_schema">> >>)
      BY <1>6 DEF Catalog
    <2>2. call = Call("postgresql", <<"addr", Database(c), t, Username(c), Password(c), ns>>)
      BY <1>2, <1>3, <1>4, <1>6, <2>1, OtherServers
    <2>3. PICK args : args = <<"addr", Database(c), t, Username(c), Password(c), ns>>
      OBVIOUS
    <2>3b. Len(args) = 6 /\ args[2] = Database(c) /\ args[3] = t /\ args[4] = Username(c) /\ args[5] = Password(c)
           /\ args[6] = ns
      BY <2>3
    <2>4. PICK largs : largs = <<"addr", Database(c), <<"tables">>, Username(c), Password(c),
                                 <<"information_schema">> >>
      OBVIOUS
    <2>4b. Len(largs) = 6 /\ largs[4] = Username(c) /\ largs[5] = Password(c)
      BY <2>4
    <2>5. call = Call("postgresql", args) /\ listing = Call("postgresql", largs)
      BY <2>1, <2>2, <2>3, <2>4
    <2>6. call # Refused
      BY <2>5, CallParts DEF Refused
    <2>7. Account(call) = Account(listing)
      BY <2>3b, <2>4b, <2>5, CallNames
    <2>8. Reaches(call) = [namespace |-> IF Len(args) > 5 THEN args[6] ELSE <<"public">>,
                           within |-> args[2], object |-> args[3]]
      BY <2>5, CallReads
    <2>9. Reaches(call) = [namespace |-> ns, within |-> Database(c), object |-> t]
      BY <2>3b, <2>8
    <2> QED
      BY <2>6, <2>7, <2>9 DEF name
  <1>7. CASE c.spec.type = "mysql"
    <2>1. HasAuth(c) /\ c.spec.fn = "mysql"
          /\ listing = Call("mysql", <<"addr", <<"information_schema">>, <<"tables">>, Username(c), Password(c)>>)
      BY <1>1, <1>7 DEF Catalog
    <2>2. call = Call("mysql", <<"addr", ns, t, Username(c), Password(c)>>)
      BY <1>2, <1>3, <1>4, <1>7, <2>1, OtherServers
    <2>3. PICK args : args = <<"addr", ns, t, Username(c), Password(c)>>
      OBVIOUS
    <2>3b. Len(args) = 5 /\ args[2] = ns /\ args[3] = t /\ args[4] = Username(c) /\ args[5] = Password(c)
      BY <2>3
    <2>4. PICK largs : largs = <<"addr", <<"information_schema">>, <<"tables">>, Username(c), Password(c)>>
      OBVIOUS
    <2>4b. Len(largs) = 5 /\ largs[4] = Username(c) /\ largs[5] = Password(c)
      BY <2>4
    <2>5. call = Call("mysql", args) /\ listing = Call("mysql", largs)
      BY <2>1, <2>2, <2>3, <2>4
    <2>6. call # Refused
      BY <2>5, CallParts DEF Refused
    <2>7. Account(call) = Account(listing)
      BY <2>3b, <2>4b, <2>5, CallNames
    <2>8. Reaches(call) = [namespace |-> ns, within |-> Unset, object |-> t]
      BY <2>3b, <2>5, CallReads
    <2> QED
      BY <2>6, <2>7, <2>8 DEF name
  <1>8. CASE c.spec.type = "mongodb"
    BY <1>8 DEF Catalog
  <1> QED
    BY <1>1, <1>5, <1>6, <1>7, <1>8

\* A bare name reaches the default namespace.
LEMMA BareNames ==
    ASSUME NEW c \in ServerOptions, NEW t \in TableNames, Len(t) = 1, Table(c, t) # Refused
    PROVE  /\ Reaches(Table(c, t)).object = t
           /\ Reaches(Table(c, t)).namespace =
                IF c.spec.type = "postgres" THEN Or(c.schema, <<"public">>) ELSE Database(c)
           /\ Reaches(Table(c, t)).within \in {Unset, Database(c)}
  <1>1. /\ ~IsLocation(c) /\ Fn(c) # "refused"
        /\ <<c.spec.type, c.spec.fn>> \in
             {<<"clickhouse", "remote">>, <<"clickhouse", "remoteSecure">>, <<"postgres", "postgresql">>,
              <<"mysql", "mysql">>, <<"mongodb", "mongodb">>}
        /\ Fn(c) # "postgresql" \/ c.spec.type = "postgres"
    BY ServerOption
  <1>2. SplitName(t)[1] = Unset /\ SplitName(t)[2] = t
    BY DEF SplitName
  <1>3. \A x : Or(Unset, x) = x
    BY DEF Or
  <1>4. CASE c.spec.type = "clickhouse"
    <2>1. Table(c, t) = Remote(c, Database(c), t)
      BY <1>1, <1>2, <1>3, <1>4 DEF Table
    <2>2. Reaches(Table(c, t)) = [namespace |-> Database(c), within |-> Unset, object |-> t]
      BY <1>4, <2>1, RemoteReaches
    <2> QED
      BY <1>4, <2>2
  <1>5. CASE c.spec.type # "clickhouse"
    <2>1. HasAuth(c) /\ Database(c) # Unset
      BY <1>1, <1>2, <1>3, <1>5 DEF Table
    <2>2. CASE c.spec.type = "postgres" /\ c.schema = Unset
      <3>1. PICK args : args = <<"addr", Database(c), t, Username(c), Password(c)>>
        OBVIOUS
      <3>1b. Len(args) = 5 /\ args[2] = Database(c) /\ args[3] = t
        BY <3>1
      <3>2. Table(c, t) = Call("postgresql", args)
        BY <1>2, <1>3, <1>5, <2>1, <2>2, <3>1, OtherServers
      <3>3. Reaches(Table(c, t)) = [namespace |-> <<"public">>, within |-> Database(c), object |-> t]
        BY <3>1b, <3>2, CallReads
      <3> QED
        BY <2>2, <3>3 DEF Or
    <2>3. CASE c.spec.type = "postgres" /\ c.schema # Unset
      <3>1. PICK args : args = <<"addr", Database(c), t, Username(c), Password(c), c.schema>>
        OBVIOUS
      <3>1b. Len(args) = 6 /\ args[2] = Database(c) /\ args[3] = t /\ args[6] = c.schema
        BY <3>1
      <3>2. Table(c, t) = Call("postgresql", args)
        BY <1>2, <1>3, <1>5, <2>1, <2>3, <3>1, OtherServers
      <3>4. Reaches(Table(c, t)) = [namespace |-> IF Len(args) > 5 THEN args[6] ELSE <<"public">>,
                                    within |-> args[2], object |-> args[3]]
        BY <3>2, CallReads
      <3>3. Reaches(Table(c, t)) = [namespace |-> c.schema, within |-> Database(c), object |-> t]
        BY <3>1b, <3>4
      <3> QED
        BY <2>3, <3>3 DEF Or
    <2>4. CASE c.spec.type # "postgres"
      <3>1. PICK args : args = <<"addr", Database(c), t, Username(c), Password(c)>>
        OBVIOUS
      <3>1b. Len(args) = 5 /\ args[2] = Database(c) /\ args[3] = t
        BY <3>1
      <3>4. c.spec.fn # "postgresql"
        BY <1>1, <2>4
      <3>5. Or(SplitName(t)[1], Database(c)) = Database(c)
        BY <1>2, <1>3
      <3>2. Table(c, t) = Call(c.spec.fn, args)
        BY <1>2, <1>5, <2>1, <2>4, <3>1, <3>5, OtherServers
      <3>3. Reaches(Table(c, t)) = [namespace |-> Database(c), within |-> Unset, object |-> t]
        BY <3>1b, <3>2, <3>4, CallReads
      <3> QED
        BY <2>4, <3>3
    <2> QED
      BY <2>2, <2>3, <2>4
  <1> QED
    BY <1>4, <1>5

\* How many arguments a location's function is called with.
LEMMA LocationCount ==
    ASSUME NEW c, NEW pair \in BOOLEAN, pair = (c.spec.fn \in Credentialed /\ c.accessKeyId # Unset),
           NEW format \in BOOLEAN, format = (c.spec.fn \in TakesFormat /\ c.format # Unset)
    PROVE  Len(LocationArgs(c)) = 1 + (IF pair THEN 2 ELSE 0) + (IF format THEN 1 ELSE 0)
  <1>0. PICK l, key, secret, fmt : l = "location" /\ key = c.accessKeyId /\ secret = c.secretAccessKey
                                  /\ fmt = c.format
    OBVIOUS
  <1> DEFINE S == {l, key, secret, fmt}
  <1>1. PICK one \in Seq(S) : one = <<l>> /\ Len(one) = 1
    <2>1. <<l>> \in Seq(S)
      OBVIOUS
    <2> QED
      BY <2>1
  <1>2. PICK two : two = IF pair THEN <<key, secret>> ELSE <<>>
    OBVIOUS
  <1>2a. two \in Seq(S) /\ Len(two) = IF pair THEN 2 ELSE 0
    <2>1. CASE pair
      <3>1. <<key, secret>> \in Seq(S) /\ Len(<<key, secret>>) = 2
        OBVIOUS
      <3>2. two = <<key, secret>>
        BY <1>2, <2>1
      <3> QED
        BY <2>1, <3>1, <3>2
    <2>2. CASE ~pair
      <3>1. <<>> \in Seq(S) /\ Len(<<>>) = 0
        OBVIOUS
      <3>2. two = <<>>
        BY <1>2, <2>2
      <3> QED
        BY <2>2, <3>1, <3>2
    <2> QED
      BY <2>1, <2>2
  <1>3. PICK three : three = IF format THEN <<fmt>> ELSE <<>>
    OBVIOUS
  <1>3a. three \in Seq(S) /\ Len(three) = IF format THEN 1 ELSE 0
    <2>1. CASE format
      <3>1. <<fmt>> \in Seq(S) /\ Len(<<fmt>>) = 1
        OBVIOUS
      <3>2. three = <<fmt>>
        BY <1>3, <2>1
      <3> QED
        BY <2>1, <3>1, <3>2
    <2>2. CASE ~format
      <3>1. <<>> \in Seq(S) /\ Len(<<>>) = 0
        OBVIOUS
      <3>2. three = <<>>
        BY <1>3, <2>2
      <3> QED
        BY <2>2, <3>1, <3>2
    <2> QED
      BY <2>1, <2>2
  <1> HIDE DEF S
  <1>4. one \o two \in Seq(S) /\ Len(one \o two) = Len(one) + Len(two)
    BY <1>2a, ConcatProperties
  <1>5. Len((one \o two) \o three) = Len(one \o two) + Len(three)
    BY <1>3a, <1>4, ConcatProperties
  <1>6. LocationArgs(c) = (one \o two) \o three
    BY <1>0, <1>1, <1>2, <1>3 DEF LocationArgs
  <1> QED
    BY <1>1, <1>2a, <1>3a, <1>4, <1>5, <1>6

\* The engine takes a location's credentials and format for what they are.
LEMMA LocationsAreTaken ==
    ASSUME NEW c \in LocationOptions, Location(c) # Refused
    PROVE  /\ TakenAs(Location(c)).credentials <=> (c.accessKeyId # Unset /\ c.spec.fn \in Credentialed)
           /\ c.spec.fn # "azureBlobStorage" =>
                 (TakenAs(Location(c)).format <=> (c.format # Unset /\ c.spec.fn \in TakesFormat))
  <1>1. PICK pair \in BOOLEAN : pair = (c.spec.fn \in Credentialed /\ c.accessKeyId # Unset)
    OBVIOUS
  <1>2. PICK format \in BOOLEAN : format = (c.spec.fn \in TakesFormat /\ c.format # Unset)
    OBVIOUS
  <1>3. PICK n : n = Len(LocationArgs(c)) /\ n = 1 + (IF pair THEN 2 ELSE 0) + (IF format THEN 1 ELSE 0)
    BY <1>1, <1>2, LocationCount
  <1>4. Location(c) = Call(c.spec.fn, LocationArgs(c))
    BY DEF Location
  <1>5. Location(c).fn = c.spec.fn /\ Location(c).args = LocationArgs(c)
    BY <1>4, CallParts
  <1>6. TakenAs(Location(c)) = [credentials |-> c.spec.fn \in Credentialed /\ n >= 3,
                                format |-> c.spec.fn \in TakesFormat \ {"azureBlobStorage"} /\ n \in {2, 4}]
    BY <1>3, <1>5 DEF TakenAs
  <1>7. n >= 3 <=> pair
    BY <1>3
  <1>8. n \in {2, 4} <=> format
    BY <1>3
  <1>9. TakenAs(Location(c)).credentials = (c.spec.fn \in Credentialed /\ n >= 3)
    BY <1>6
  <1>10. c.spec.fn # "azureBlobStorage" =>
            TakenAs(Location(c)).format = (c.spec.fn \in TakesFormat /\ n \in {2, 4})
    BY <1>6
  <1> QED
    BY <1>1, <1>2, <1>7, <1>8, <1>9, <1>10

\* A connection keeps its options, and what it lists is what its catalog holds.
SourceInv ==
    \/ /\ config \in ServerOptions
       /\ namespaces \subseteq Namespaces(Catalog(config, <<"databases">>))
       /\ \A entry \in listed :
             /\ entry \in Namespaces(Catalog(config, <<"databases">>)) \X TableNames
             /\ Catalog(config, <<"tables">>) # Refused
    \/ /\ config \in LocationOptions
       /\ namespaces = {} /\ listed = {}
       /\ issued \in {Refused, Location(config)}

\* Every connection starts so.
LEMMA SourceInitHolds == SourceInit(ServerOptions \cup LocationOptions) => SourceInv
  BY DEF SourceInit, SourceInv

\* A location is no server.
LEMMA LocationOption == \A c \in LocationOptions : IsLocation(c)
  BY DEF LocationOptions, IsLocation

\* Every call of a connection keeps it so.
LEMMA SourceNextHolds == SourceInv /\ [SourceNext]_sourceVars => SourceInv'
  <1> SUFFICES ASSUME SourceInv, [SourceNext]_sourceVars PROVE SourceInv'
    OBVIOUS
  <1>1. config' = config
    BY DEF SourceNext, sourceVars, ListDatabases, ListTables, Read
  <1>2. CASE config \in ServerOptions
    <2> DEFINE spaces == Namespaces(Catalog(config, <<"databases">>))
    <2>1. spaces' = spaces /\ Catalog(config, <<"tables">>)' = Catalog(config, <<"tables">>)
      BY <1>1 DEF Namespaces, Catalog, Remote, RemoteArgs, HasAuth, Username, Password, Database, Fn
    <2>2. ~(config \in LocationOptions)
      BY <1>2, LocationOption, ServerOption
    <2>3. /\ namespaces \subseteq spaces
          /\ \A entry \in listed : entry \in spaces \X TableNames /\ Catalog(config, <<"tables">>) # Refused
      BY <2>2 DEF SourceInv
    <2>4. namespaces' \subseteq spaces
      BY <2>3 DEF SourceNext, sourceVars, ListDatabases, ListTables, Read
    <2>5. ASSUME NEW entry \in listed'
          PROVE  entry \in spaces \X TableNames /\ Catalog(config, <<"tables">>) # Refused
      BY <2>3, <2>5 DEF SourceNext, sourceVars, ListDatabases, ListTables, Read
    <2> HIDE DEF spaces
    <2>6. /\ config' \in ServerOptions
          /\ namespaces' \subseteq spaces'
          /\ \A entry \in listed' : entry \in spaces' \X TableNames /\ Catalog(config, <<"tables">>)' # Refused
      BY <1>1, <1>2, <2>1, <2>4, <2>5
    <2> QED
      BY <2>6 DEF SourceInv, spaces, Refused
  <1>3. CASE config \in LocationOptions
    <2>1. IsLocation(config)
      BY <1>3, LocationOption
    <2>2. namespaces = {} /\ listed = {} /\ issued \in {Refused, Location(config)}
      BY <1>3, <2>1, ServerOption DEF SourceInv
    <2>3. \A name : Table(config, name) = Location(config)
      BY <2>1 DEF Table
    <2>4. namespaces' = {} /\ listed' = {} /\ issued' \in {Refused, Location(config)}
      BY <2>1, <2>2, <2>3 DEF SourceNext, sourceVars, ListDatabases, ListTables, Read, Issue
    <2>5. Location(config)' = Location(config)
      BY <1>1 DEF Location, LocationArgs
    <2> QED
      BY <1>1, <1>3, <2>4, <2>5 DEF SourceInv, Refused
  <1> QED
    BY <1>2, <1>3 DEF SourceInv

\* Then its names go round.
LEMMA SourceInvRoundTrips == SourceInv => FederatedNamesRoundTrip
  <1> SUFFICES ASSUME SourceInv PROVE FederatedNamesRoundTrip
    OBVIOUS
  <1>1. CASE config \in ServerOptions
    <2>1. ~IsLocation(config)
      BY <1>1, ServerOption
    <2>2. ASSUME NEW entry \in listed, Len(entry[1]) = 1
          PROVE  /\ ReadsFrom(Table(config, entry[1] \o entry[2]), entry[1], entry[2])
                 /\ Account(Table(config, entry[1] \o entry[2])) = Account(Catalog(config, <<"tables">>))
      <3>1. /\ entry \in Namespaces(Catalog(config, <<"databases">>)) \X TableNames
            /\ Catalog(config, <<"tables">>) # Refused
        BY <1>1, <2>1, <2>2, LocationOption DEF SourceInv
      <3>2. PICK ns \in Namespaces(Catalog(config, <<"databases">>)), t \in TableNames : entry = <<ns, t>>
        BY <3>1
      <3>3. entry[1] = ns /\ entry[2] = t
        BY <3>2
      <3> QED
        BY <1>1, <2>2, <3>1, <3>2, <3>3, ListedIsRead DEF ReadsFrom
    <2>3. ASSUME NEW t \in TableNames, Len(t) = 1, Table(config, t) # Refused
          PROVE  ReadsFrom(Table(config, t), DefaultNamespace, t)
      BY <1>1, <2>3, BareNames DEF ReadsFrom, DefaultNamespace
    <2> QED
      BY <2>1, <2>2, <2>3 DEF FederatedNamesRoundTrip
  <1>2. CASE config \in LocationOptions
    <2>1. IsLocation(config)
      BY <1>2, LocationOption
    <2>2. listed = {} /\ issued \in {Refused, Location(config)}
      BY <1>2, <2>1, ServerOption DEF SourceInv
    <2>3. ASSUME issued # Refused
          PROVE  /\ TakenAs(issued).credentials <=> (config.accessKeyId # Unset /\ config.spec.fn \in Credentialed)
                 /\ config.spec.fn # "azureBlobStorage" =>
                       (TakenAs(issued).format <=> (config.format # Unset /\ config.spec.fn \in TakesFormat))
      <3>1. issued = Location(config) /\ Location(config) # Refused
        BY <2>2, <2>3
      <3> QED
        BY <1>2, <3>1, LocationsAreTaken
    <2> QED
      BY <2>1, <2>2, <2>3 DEF FederatedNamesRoundTrip
  <1> QED
    BY <1>1, <1>2 DEF SourceInv

\* For any server, account (from fields or url), schemas, databases and table names, and for any location: what
\* databases() and tables() list in a namespace without a dot is read under its qualified name, with the account
\* of the listing; bare names reach the default namespace, dotted or not (splitName, table and catalog of
\* src/src/layer3/connect).
THEOREM NamesRoundTrip == SourceSpec => []FederatedNamesRoundTrip
  <1>1. SourceInit(ServerOptions \cup LocationOptions) => SourceInv
    BY SourceInitHolds
  <1>2. SourceInv /\ [SourceNext]_sourceVars => SourceInv'
    BY SourceNextHolds
  <1>3. SourceInv => FederatedNamesRoundTrip
    BY SourceInvRoundTrips
  <1> QED
    BY <1>1, <1>2, <1>3, PTL DEF SourceSpec

-----------------------------------------------------------------------------
(* Compatibility: release precedence.                                      *)

\* What the parser makes of a version.
Identifiers == {"name", "number"} \X Nat
Versions == [release : Seq(Nat), prerelease : Seq(Identifiers)]

\* There is a first place where two lists differ, if they differ.
LEMMA FirstPlace ==
    ASSUME NEW S, S \subseteq Nat \ {0}
    PROVE  IF S = {} THEN FirstDifference(S) = Nobody
           ELSE FirstDifference(S) \in S /\ \A j \in S : FirstDifference(S) <= j
  <1>1. CASE S = {}
    BY <1>1 DEF FirstDifference
  <1>2. CASE S # {}
    <2> DEFINE R == OpToRel(<, Nat)
    <2>1. IsWellFoundedOn(R, Nat)
      BY NatLessThanWellFounded
    <2>2. \A x, y \in Nat : y < x => <<y, x>> \in R
      BY DEF OpToRel
    <2> HIDE DEF R
    <2>3. PICK x \in S : \A y \in S : ~ (<<y, x>> \in R)
      BY <1>2, <2>1, WFMin
    <2>4. \A y \in S : x \in Nat /\ y \in Nat /\ ~ (y < x)
      BY <2>2, <2>3
    <2>5. \A y \in S : x <= y
      BY <2>4
    <2> QED
      BY <1>2, <2>5 DEF FirstDifference
  <1> QED
    BY <1>1, <1>2

\* The releases of a and b agree in every component; a's is lower in the first where they do not.
SameRelease(a, b) == \A i \in Nat \ {0} : Component(a.release, i) = Component(b.release, i)
LowerRelease(a, b) ==
    \E i \in Nat \ {0} :
        /\ \A j \in 1 .. i - 1 : Component(a.release, j) = Component(b.release, j)
        /\ Component(a.release, i) < Component(b.release, i)

\* An identifier that is there, and the place after the last: nothing comes before any identifier.
At(p, i) == IF i <= Len(p) THEN p[i] ELSE <<"none", 0>>
Below(x, y) == (x[1] = "none" /\ y[1] # "none") \/ (x[1] # "none" /\ y[1] # "none" /\ Precedes(x, y))

\* The pre-release list p is before q at the first place where they differ, the end of a list counting.
LowerPrerelease(p, q) ==
    \E i \in Nat \ {0} : (\A j \in 1 .. i - 1 : At(p, j) = At(q, j)) /\ Below(At(p, i), At(q, i))

\* The components of a release are numbers.
LEMMA ComponentType ==
    ASSUME NEW a \in Versions, NEW i \in Nat \ {0}
    PROVE  Component(a.release, i) \in Nat
  <1>1. a.release \in Seq(Nat)
    BY DEF Versions
  <1> QED
    BY <1>1 DEF Component

\* comparePrecedence looks at the first component where two releases differ.
LEMMA ReleaseOrder ==
    ASSUME NEW a \in Versions, NEW b \in Versions
    PROVE  LET i == FirstDifference({j \in 1 .. Larger(Len(a.release), Len(b.release)) :
                                        Component(a.release, j) # Component(b.release, j)})
           IN  /\ i = Nobody <=> SameRelease(a, b)
               /\ i # Nobody => (Component(a.release, i) < Component(b.release, i) <=> LowerRelease(a, b))
  <1> DEFINE S == {j \in 1 .. Larger(Len(a.release), Len(b.release)) :
                      Component(a.release, j) # Component(b.release, j)}
             i == FirstDifference(S)
  <1>1. Len(a.release) \in Nat /\ Len(b.release) \in Nat
    BY DEF Versions
  <1>2. S \subseteq Nat \ {0}
    OBVIOUS
  <1>3. \A j \in Nat \ {0} : Component(a.release, j) # Component(b.release, j) => j \in S
    BY <1>1 DEF Component, Larger
  <1>4. IF S = {} THEN i = Nobody ELSE i \in S /\ \A j \in S : i <= j
    BY <1>2, FirstPlace
  <1>5. CASE S = {}
    BY <1>3, <1>4, <1>5 DEF SameRelease
  <1>6. CASE S # {}
    <2>1. i \in Nat \ {0} /\ Component(a.release, i) # Component(b.release, i) /\ \A j \in S : i <= j
      BY <1>2, <1>4, <1>6
    <2> HIDE DEF i, S
    <2>2. \A j \in 1 .. i - 1 : Component(a.release, j) = Component(b.release, j)
      BY <1>3, <2>1
    <2>3. i # Nobody /\ ~SameRelease(a, b)
      BY <2>1 DEF Nobody, SameRelease
    <2>4. Component(a.release, i) < Component(b.release, i) => LowerRelease(a, b)
      BY <2>1, <2>2 DEF LowerRelease
    <2>5. ASSUME LowerRelease(a, b) PROVE Component(a.release, i) < Component(b.release, i)
      <3>1. PICK k \in Nat \ {0} :
                /\ \A j \in 1 .. k - 1 : Component(a.release, j) = Component(b.release, j)
                /\ Component(a.release, k) < Component(b.release, k)
        BY <2>5 DEF LowerRelease
      <3>2. k \in S
        BY <1>3, <3>1, ComponentType
      <3>3. i <= k /\ ~(i < k)
        BY <2>1, <3>1, <3>2
      <3>4. i = k
        BY <2>1, <3>3
      <3> QED
        BY <3>1, <3>4
    <2> QED
      BY <2>3, <2>4, <2>5 DEF i, S
  <1> QED
    BY <1>5, <1>6

\* comparePrerelease looks at the first identifier where two lists differ, or at their lengths.
LEMMA PrereleaseOrder ==
    ASSUME NEW p \in Seq(Identifiers), NEW q \in Seq(Identifiers)
    PROVE  PrereleaseBefore(p, q) <=> LowerPrerelease(p, q)
  <1> DEFINE n == IF Len(p) < Len(q) THEN Len(p) ELSE Len(q)
             S == {j \in 1 .. n : p[j] # q[j]}
             i == FirstDifference(S)
  <1>1. /\ Len(p) \in Nat /\ Len(q) \in Nat /\ n \in Nat /\ n <= Len(p) /\ n <= Len(q)
        /\ n = Len(p) \/ n = Len(q)
    OBVIOUS
  <1>2. S \subseteq Nat \ {0}
    OBVIOUS
  <1>3. IF S = {} THEN i = Nobody ELSE i \in S /\ \A j \in S : i <= j
    BY <1>2, FirstPlace
  <1>4. /\ \A j \in 1 .. Len(p) : p[j] \in Identifiers /\ p[j][1] # "none"
        /\ \A j \in 1 .. Len(q) : q[j] \in Identifiers /\ q[j][1] # "none"
    BY DEF Identifiers
  <1>5. PrereleaseBefore(p, q) <=> IF i = Nobody THEN Len(p) < Len(q) ELSE Precedes(p[i], q[i])
    BY DEF PrereleaseBefore
  <1>6. CASE S = {}
    <2>1. \A j \in 1 .. n : p[j] = q[j]
      BY <1>6
    <2>2. PrereleaseBefore(p, q) <=> Len(p) < Len(q)
      BY <1>3, <1>5, <1>6
    <2> HIDE DEF i, S, n
    <2>3. ASSUME Len(p) < Len(q) PROVE LowerPrerelease(p, q)
      <3>1. n = Len(p) /\ n + 1 \in Nat \ {0}
        BY <1>1, <2>3
      <3>2. \A j \in 1 .. n : At(p, j) = At(q, j)
        BY <1>1, <2>1 DEF At
      <3>3. At(p, n + 1) = <<"none", 0>> /\ At(q, n + 1) = q[n + 1] /\ n + 1 \in 1 .. Len(q)
        BY <1>1, <2>3, <3>1 DEF At
      <3>4. Below(At(p, n + 1), At(q, n + 1))
        BY <1>4, <3>3 DEF Below
      <3> QED
        BY <3>1, <3>2, <3>4, <1>1 DEF LowerPrerelease
    <2>4. ASSUME LowerPrerelease(p, q) PROVE Len(p) < Len(q)
      <3>1. PICK k \in Nat \ {0} : (\A j \in 1 .. k - 1 : At(p, j) = At(q, j)) /\ Below(At(p, k), At(q, k))
        BY <2>4 DEF LowerPrerelease
      <3>2. k <= Len(q)
        BY <3>1 DEF Below, At
      <3>3. CASE k <= Len(p)
        <4>1. k \in 1 .. n /\ p[k] = q[k] /\ p[k] \in Identifiers
          BY <1>1, <1>4, <2>1, <3>2, <3>3
        <4>2. ~Below(p[k], p[k])
          BY <4>1 DEF Below, Precedes, Identifiers
        <4> QED
          BY <3>1, <3>2, <3>3, <4>1, <4>2 DEF At
      <3> QED
        BY <1>1, <3>2, <3>3
    <2> QED
      BY <2>2, <2>3, <2>4
  <1>7. CASE S # {}
    <2>1. i \in 1 .. n /\ p[i] # q[i] /\ \A j \in S : i <= j
      BY <1>3, <1>7
    <2>2. PrereleaseBefore(p, q) <=> Precedes(p[i], q[i])
      BY <1>5, <2>1 DEF Nobody
    <2>3. \A j \in 1 .. n : j < i => p[j] = q[j]
      BY <1>1, <2>1
    <2> HIDE DEF i, S, n
    <2>4. i \in Nat \ {0} /\ (\A j \in 1 .. i : At(p, j) = p[j] /\ At(q, j) = q[j])
          /\ p[i] \in Identifiers /\ q[i] \in Identifiers
      BY <1>1, <1>4, <2>1 DEF At
    <2>5. Below(p[i], q[i]) <=> Precedes(p[i], q[i])
      BY <1>1, <1>4, <2>1 DEF Below
    <2>6. ASSUME Precedes(p[i], q[i]) PROVE LowerPrerelease(p, q)
      <3>1. \A j \in 1 .. i - 1 : At(p, j) = At(q, j)
        BY <1>1, <2>1, <2>3, <2>4
      <3> QED
        BY <2>4, <2>5, <2>6, <3>1 DEF LowerPrerelease
    <2>7. ASSUME LowerPrerelease(p, q) PROVE Precedes(p[i], q[i])
      <3>1. PICK k \in Nat \ {0} : (\A j \in 1 .. k - 1 : At(p, j) = At(q, j)) /\ Below(At(p, k), At(q, k))
        BY <2>7 DEF LowerPrerelease
      <3>2. ~(i < k)
        BY <2>1, <2>4, <3>1
      <3>3. CASE k < i
        <4>1. At(p, k) = At(q, k) /\ At(p, k) = p[k] /\ p[k] \in Identifiers
          BY <1>1, <1>4, <2>1, <2>3, <2>4, <3>3
        <4>2. ~Below(p[k], p[k])
          BY <4>1 DEF Below, Precedes, Identifiers
        <4> QED
          BY <3>1, <4>1, <4>2
      <3>4. CASE k = i
        BY <2>4, <2>5, <3>1, <3>4
      <3> QED
        BY <2>4, <3>2, <3>3, <3>4
    <2> QED
      BY <2>2, <2>6, <2>7
  <1> QED
    BY <1>6, <1>7

\* Two lists of places to infinity compared at the first where they differ, by the relation R.
LexBefore(R, f, g) ==
    \E i \in Nat \ {0} : (\A j \in 1 .. i - 1 : f[j] = g[j]) /\ <<f[i], g[i]>> \in R

\* That is an order when R is one.
LEMMA LexIsAnOrder ==
    ASSUME NEW X, NEW R,
           \A x \in X : <<x, x>> \notin R,
           \A x, y \in X : x # y => <<x, y>> \in R \/ <<y, x>> \in R,
           \A x, y, z \in X : <<x, y>> \in R /\ <<y, z>> \in R => <<x, z>> \in R,
           NEW f \in [Nat \ {0} -> X], NEW g \in [Nat \ {0} -> X], NEW h \in [Nat \ {0} -> X]
    PROVE  /\ ~LexBefore(R, f, f)
           /\ f # g => LexBefore(R, f, g) \/ LexBefore(R, g, f)
           /\ LexBefore(R, f, g) /\ LexBefore(R, g, h) => LexBefore(R, f, h)
  <1>1. ~LexBefore(R, f, f)
    BY DEF LexBefore
  <1>2. ASSUME f # g PROVE LexBefore(R, f, g) \/ LexBefore(R, g, f)
    <2> DEFINE S == {i \in Nat \ {0} : f[i] # g[i]}
               i == FirstDifference(S)
    <2>1. S # {}
      BY <1>2
    <2>2. i \in S /\ \A j \in S : i <= j
      BY <2>1, FirstPlace
    <2>3. i \in Nat \ {0} /\ f[i] # g[i]
      BY <2>2
    <2> HIDE DEF i
    <2>4. \A j \in 1 .. i - 1 : f[j] = g[j]
      BY <2>2, <2>3
    <2>5. <<f[i], g[i]>> \in R \/ <<g[i], f[i]>> \in R
      BY <2>3
    <2> QED
      BY <2>3, <2>4, <2>5 DEF LexBefore
  <1>3. ASSUME LexBefore(R, f, g), LexBefore(R, g, h) PROVE LexBefore(R, f, h)
    <2>1. PICK i \in Nat \ {0} : (\A j \in 1 .. i - 1 : f[j] = g[j]) /\ <<f[i], g[i]>> \in R
      BY <1>3 DEF LexBefore
    <2>2. PICK k \in Nat \ {0} : (\A j \in 1 .. k - 1 : g[j] = h[j]) /\ <<g[k], h[k]>> \in R
      BY <1>3 DEF LexBefore
    <2>3. CASE i < k
      <3>1. g[i] = h[i] /\ \A j \in 1 .. i - 1 : f[j] = h[j]
        BY <2>1, <2>2, <2>3
      <3> QED
        BY <2>1, <3>1 DEF LexBefore
    <2>4. CASE k < i
      <3>1. f[k] = g[k] /\ \A j \in 1 .. k - 1 : f[j] = h[j]
        BY <2>1, <2>2, <2>4
      <3> QED
        BY <2>2, <3>1 DEF LexBefore
    <2>5. CASE i = k
      <3>1. <<f[i], h[i]>> \in R /\ \A j \in 1 .. i - 1 : f[j] = h[j]
        BY <2>1, <2>2, <2>5
      <3> QED
        BY <3>1 DEF LexBefore
    <2> QED
      BY <2>3, <2>4, <2>5
  <1> QED
    BY <1>1, <1>2, <1>3

\* The two comparisons as lists of places.
ReleaseKey(a) == [i \in Nat \ {0} |-> Component(a.release, i)]
PrereleaseKey(a) == [i \in Nat \ {0} |-> At(a.prerelease, i)]
Places == Identifiers \cup {<<"none", 0>>}
NumberOrder == {x \in Nat \X Nat : x[1] < x[2]}
PlaceOrder == {x \in Places \X Places : Below(x[1], x[2])}

\* The order of the numbers of a release.
LEMMA ReleaseKeys ==
    ASSUME NEW a \in Versions, NEW b \in Versions
    PROVE  /\ ReleaseKey(a) \in [Nat \ {0} -> Nat]
           /\ ReleaseKey(a) = ReleaseKey(b) <=> SameRelease(a, b)
           /\ LowerRelease(a, b) <=> LexBefore(NumberOrder, ReleaseKey(a), ReleaseKey(b))
  <1>1. \A i \in Nat \ {0} : /\ ReleaseKey(a)[i] = Component(a.release, i)
                             /\ ReleaseKey(b)[i] = Component(b.release, i)
                             /\ Component(a.release, i) \in Nat /\ Component(b.release, i) \in Nat
    BY ComponentType DEF ReleaseKey
  <1>2. ReleaseKey(a) \in [Nat \ {0} -> Nat]
    BY <1>1 DEF ReleaseKey
  <1>3. ReleaseKey(a) = ReleaseKey(b) <=> SameRelease(a, b)
    BY <1>1 DEF SameRelease, ReleaseKey
  <1>4. \A m, n \in Nat : <<m, n>> \in NumberOrder <=> m < n
    BY DEF NumberOrder
  <1>5. LowerRelease(a, b) <=> LexBefore(NumberOrder, ReleaseKey(a), ReleaseKey(b))
    <2>1. ASSUME LowerRelease(a, b) PROVE LexBefore(NumberOrder, ReleaseKey(a), ReleaseKey(b))
      <3>1. PICK i \in Nat \ {0} :
                /\ \A j \in 1 .. i - 1 : Component(a.release, j) = Component(b.release, j)
                /\ Component(a.release, i) < Component(b.release, i)
        BY <2>1 DEF LowerRelease
      <3>2. <<ReleaseKey(a)[i], ReleaseKey(b)[i]>> \in NumberOrder
        BY <1>1, <1>4, <3>1
      <3>3. \A j \in 1 .. i - 1 : ReleaseKey(a)[j] = ReleaseKey(b)[j]
        BY <1>1, <3>1
      <3> QED
        BY <3>2, <3>3 DEF LexBefore
    <2>2. ASSUME LexBefore(NumberOrder, ReleaseKey(a), ReleaseKey(b)) PROVE LowerRelease(a, b)
      <3>1. PICK i \in Nat \ {0} : /\ \A j \in 1 .. i - 1 : ReleaseKey(a)[j] = ReleaseKey(b)[j]
                                   /\ <<ReleaseKey(a)[i], ReleaseKey(b)[i]>> \in NumberOrder
        BY <2>2 DEF LexBefore
      <3>2. Component(a.release, i) < Component(b.release, i)
        BY <1>1, <1>4, <3>1
      <3>3. \A j \in 1 .. i - 1 : Component(a.release, j) = Component(b.release, j)
        BY <1>1, <3>1
      <3> QED
        BY <3>2, <3>3 DEF LowerRelease
    <2> QED
      BY <2>1, <2>2
  <1> QED
    BY <1>2, <1>3, <1>5

\* The order of the identifiers of a pre-release.
LEMMA PrereleaseKeys ==
    ASSUME NEW a \in Versions, NEW b \in Versions
    PROVE  /\ PrereleaseKey(a) \in [Nat \ {0} -> Places]
           /\ PrereleaseKey(a) = PrereleaseKey(b) => a.prerelease = b.prerelease
           /\ PrereleaseBefore(a.prerelease, b.prerelease)
                 <=> LexBefore(PlaceOrder, PrereleaseKey(a), PrereleaseKey(b))
  <1> DEFINE p == a.prerelease
             q == b.prerelease
  <1>1. p \in Seq(Identifiers) /\ q \in Seq(Identifiers)
    BY DEF Versions
  <1> HIDE DEF p, q
  <1>2. \A i \in Nat \ {0} : At(p, i) \in Places /\ At(q, i) \in Places
    BY <1>1 DEF At, Places
  <1>3. /\ PrereleaseKey(a) = [i \in Nat \ {0} |-> At(p, i)]
        /\ PrereleaseKey(b) = [i \in Nat \ {0} |-> At(q, i)]
    BY DEF PrereleaseKey, p, q
  <1>4. ASSUME PrereleaseKey(a) = PrereleaseKey(b) PROVE p = q
    <2>1. \A i \in Nat \ {0} : At(p, i) = At(q, i)
      BY <1>3, <1>4
    <2>2. ASSUME NEW r \in Seq(Identifiers), NEW i \in Nat \ {0}
          PROVE  At(r, i)[1] = "none" <=> i > Len(r)
      <3>1. CASE i <= Len(r)
        <4>1. At(r, i) = r[i] /\ r[i] \in Identifiers /\ ~(i > Len(r))
          BY <3>1 DEF At
        <4> QED
          BY <4>1 DEF Identifiers
      <3>2. CASE ~(i <= Len(r))
        <4>1. Len(r) \in Nat
          OBVIOUS
        <4> QED
          BY <3>2, <4>1 DEF At
      <3> QED
        BY <3>1, <3>2
    <2>3. Len(p) = Len(q)
      <3>1. Len(p) \in Nat /\ Len(q) \in Nat
        BY <1>1
      <3>2. ASSUME Len(p) < Len(q) PROVE FALSE
        <4>1. Len(q) \in Nat \ {0} /\ Len(q) > Len(p) /\ ~(Len(q) > Len(q))
          BY <3>1, <3>2
        <4> QED
          BY <1>1, <2>1, <2>2, <4>1
      <3>3. ASSUME Len(q) < Len(p) PROVE FALSE
        <4>1. Len(p) \in Nat \ {0} /\ Len(p) > Len(q) /\ ~(Len(p) > Len(p))
          BY <3>1, <3>3
        <4> QED
          BY <1>1, <2>1, <2>2, <4>1
      <3> QED
        BY <3>1, <3>2, <3>3
    <2>4. \A i \in 1 .. Len(p) : p[i] = q[i]
      BY <1>1, <2>1, <2>3 DEF At
    <2> QED
      BY <1>1, <2>3, <2>4, SeqEqual
  <1>5. \A x, y \in Places : <<x, y>> \in PlaceOrder <=> Below(x, y)
    BY DEF PlaceOrder
  <1>6. LowerPrerelease(p, q) <=> LexBefore(PlaceOrder, PrereleaseKey(a), PrereleaseKey(b))
    <2>0. \A i \in Nat \ {0} : PrereleaseKey(a)[i] = At(p, i) /\ PrereleaseKey(b)[i] = At(q, i)
      BY <1>3
    <2>1. ASSUME LowerPrerelease(p, q) PROVE LexBefore(PlaceOrder, PrereleaseKey(a), PrereleaseKey(b))
      <3>1. PICK i \in Nat \ {0} : (\A j \in 1 .. i - 1 : At(p, j) = At(q, j)) /\ Below(At(p, i), At(q, i))
        BY <2>1 DEF LowerPrerelease
      <3>2. <<PrereleaseKey(a)[i], PrereleaseKey(b)[i]>> \in PlaceOrder
        BY <1>2, <1>5, <2>0, <3>1
      <3>3. \A j \in 1 .. i - 1 : PrereleaseKey(a)[j] = PrereleaseKey(b)[j]
        BY <2>0, <3>1
      <3> QED
        BY <3>2, <3>3 DEF LexBefore
    <2>2. ASSUME LexBefore(PlaceOrder, PrereleaseKey(a), PrereleaseKey(b)) PROVE LowerPrerelease(p, q)
      <3>1. PICK i \in Nat \ {0} : /\ \A j \in 1 .. i - 1 : PrereleaseKey(a)[j] = PrereleaseKey(b)[j]
                                   /\ <<PrereleaseKey(a)[i], PrereleaseKey(b)[i]>> \in PlaceOrder
        BY <2>2 DEF LexBefore
      <3>2. Below(At(p, i), At(q, i))
        BY <1>2, <1>5, <2>0, <3>1
      <3>3. \A j \in 1 .. i - 1 : At(p, j) = At(q, j)
        BY <2>0, <3>1
      <3> QED
        BY <3>2, <3>3 DEF LowerPrerelease
    <2> QED
      BY <2>1, <2>2
  <1>7. PrereleaseBefore(p, q) <=> LowerPrerelease(p, q)
    BY <1>1, PrereleaseOrder
  <1> QED
    BY <1>2, <1>3, <1>4, <1>6, <1>7 DEF p, q

\* The relations the keys are compared by are orders.
LEMMA NumbersAreOrdered ==
    /\ \A x \in Nat : <<x, x>> \notin NumberOrder
    /\ \A x, y \in Nat : x # y => <<x, y>> \in NumberOrder \/ <<y, x>> \in NumberOrder
    /\ \A x, y, z \in Nat : <<x, y>> \in NumberOrder /\ <<y, z>> \in NumberOrder => <<x, z>> \in NumberOrder
  BY DEF NumberOrder

\* A number is before any name, and no identifier before any.
LEMMA PlacesAreOrdered ==
    /\ \A x \in Places : <<x, x>> \notin PlaceOrder
    /\ \A x, y \in Places : x # y => <<x, y>> \in PlaceOrder \/ <<y, x>> \in PlaceOrder
    /\ \A x, y, z \in Places : <<x, y>> \in PlaceOrder /\ <<y, z>> \in PlaceOrder => <<x, z>> \in PlaceOrder
  <1>1. \A x \in Places : /\ x = <<x[1], x[2]>> /\ x[2] \in Nat /\ x[1] \in {"none", "name", "number"}
                          /\ x[1] = "none" => x[2] = 0
    BY DEF Places, Identifiers
  <1>2. \A x, y \in Places : <<x, y>> \in PlaceOrder <=> Below(x, y)
    BY DEF PlaceOrder
  <1>3. \A x \in Places : ~Below(x, x)
    BY <1>1 DEF Below, Precedes
  <1>4. \A x, y \in Places : x # y => Below(x, y) \/ Below(y, x)
    BY <1>1 DEF Below, Precedes
  <1>5. \A x, y, z \in Places : Below(x, y) /\ Below(y, z) => Below(x, z)
    BY <1>1 DEF Below, Precedes
  <1> QED
    BY <1>2, <1>3, <1>4, <1>5

\* comparePrecedence orders first by the release, then by the pre-release, none being the highest.
LEMMA PrecedenceByKeys ==
    ASSUME NEW a \in Versions, NEW b \in Versions
    PROVE  Before(a, b) <=>
              \/ LexBefore(NumberOrder, ReleaseKey(a), ReleaseKey(b))
              \/ /\ ReleaseKey(a) = ReleaseKey(b)
                 /\ a.prerelease # <<>>
                 /\ b.prerelease = <<>> \/ LexBefore(PlaceOrder, PrereleaseKey(a), PrereleaseKey(b))
  <1> DEFINE i == FirstDifference({j \in 1 .. Larger(Len(a.release), Len(b.release)) :
                                      Component(a.release, j) # Component(b.release, j)})
  <1>1. /\ i = Nobody <=> SameRelease(a, b)
        /\ i # Nobody => (Component(a.release, i) < Component(b.release, i) <=> LowerRelease(a, b))
    BY ReleaseOrder
  <1>2. Before(a, b) <=>
            IF i # Nobody THEN Component(a.release, i) < Component(b.release, i)
            ELSE IF a.prerelease = <<>> THEN FALSE
            ELSE IF b.prerelease = <<>> THEN TRUE
            ELSE PrereleaseBefore(a.prerelease, b.prerelease)
    BY DEF Before
  <1> HIDE DEF i
  <1>3. /\ ReleaseKey(a) = ReleaseKey(b) <=> SameRelease(a, b)
        /\ LowerRelease(a, b) <=> LexBefore(NumberOrder, ReleaseKey(a), ReleaseKey(b))
    BY ReleaseKeys
  <1>4. PrereleaseBefore(a.prerelease, b.prerelease)
           <=> LexBefore(PlaceOrder, PrereleaseKey(a), PrereleaseKey(b))
    BY PrereleaseKeys
  <1>5. SameRelease(a, b) => ~LowerRelease(a, b)
    <2>1. \A k \in Nat \ {0} : Component(a.release, k) \in Nat /\ Component(b.release, k) \in Nat
      BY ComponentType
    <2> QED
      BY <2>1 DEF SameRelease, LowerRelease
  <1> QED
    BY <1>1, <1>2, <1>3, <1>4, <1>5

\* Two versions are of one release and pre-release: 26.10 and 26.10.0 are.
SameVersion(a, b) == ReleaseKey(a) = ReleaseKey(b) /\ a.prerelease = b.prerelease

\* comparePrecedence is a strict order of the versions the parser can make of a
\* string, of any number of components and identifiers, and total but for two
\* spellings of one release: nothing is before itself, no three go round, and of
\* two different versions one is before the other.
THEOREM PrecedenceIsAnOrder ==
    ASSUME NEW a \in Versions, NEW b \in Versions, NEW c \in Versions
    PROVE  /\ ~Before(a, a)
           /\ Before(a, b) /\ Before(b, c) => Before(a, c)
           /\ SameVersion(a, b) \/ Before(a, b) \/ Before(b, a)
           /\ SameVersion(a, b) => ~Before(a, b) /\ (Before(a, c) <=> Before(b, c))
  <1> DEFINE N(x, y) == LexBefore(NumberOrder, ReleaseKey(x), ReleaseKey(y))
             P(x, y) == LexBefore(PlaceOrder, PrereleaseKey(x), PrereleaseKey(y))
  <1>1. \A x, y \in Versions :
           Before(x, y) <=> \/ N(x, y)
                            \/ /\ ReleaseKey(x) = ReleaseKey(y)
                               /\ x.prerelease # <<>>
                               /\ y.prerelease = <<>> \/ P(x, y)
    BY PrecedenceByKeys
  <1>2. \A x, y, z \in Versions :
           /\ ~N(x, x)
           /\ ReleaseKey(x) # ReleaseKey(y) => N(x, y) \/ N(y, x)
           /\ N(x, y) /\ N(y, z) => N(x, z)
    <2>1. \A x \in Versions : ReleaseKey(x) \in [Nat \ {0} -> Nat]
      BY ReleaseKeys
    <2> TAKE x, y, z \in Versions
    <2> QED
      BY <2>1, NumbersAreOrdered, LexIsAnOrder
  <1>3. \A x, y, z \in Versions :
           /\ ~P(x, x)
           /\ x.prerelease # y.prerelease => P(x, y) \/ P(y, x)
           /\ P(x, y) /\ P(y, z) => P(x, z)
    <2>1. \A x \in Versions : PrereleaseKey(x) \in [Nat \ {0} -> Places]
      BY PrereleaseKeys
    <2>2. \A x, y \in Versions : PrereleaseKey(x) = PrereleaseKey(y) => x.prerelease = y.prerelease
      BY PrereleaseKeys
    <2> TAKE x, y, z \in Versions
    <2> QED
      BY <2>1, <2>2, PlacesAreOrdered, LexIsAnOrder
  <1>4. \A x, y, z \in Versions : ReleaseKey(x) = ReleaseKey(y) => (N(x, z) <=> N(y, z)) /\ (N(z, x) <=> N(z, y))
    OBVIOUS
  <1>5. \A x, y, z \in Versions : x.prerelease = y.prerelease => (P(x, z) <=> P(y, z)) /\ (P(z, x) <=> P(z, y))
    <2>1. \A x, y \in Versions : x.prerelease = y.prerelease => PrereleaseKey(x) = PrereleaseKey(y)
      BY DEF PrereleaseKey
    <2> QED
      BY <2>1
  <1> HIDE DEF N, P
  <1>6. ~Before(a, a)
    BY <1>1, <1>2, <1>3
  <1>7. ASSUME Before(a, b), Before(b, c) PROVE Before(a, c)
    BY <1>1, <1>2, <1>3, <1>4, <1>7
  <1>8. SameVersion(a, b) \/ Before(a, b) \/ Before(b, a)
    BY <1>1, <1>2, <1>3 DEF SameVersion
  <1>9. ASSUME SameVersion(a, b) PROVE ~Before(a, b) /\ (Before(a, c) <=> Before(b, c))
    BY <1>1, <1>2, <1>3, <1>4, <1>5, <1>9 DEF SameVersion
  <1> QED
    BY <1>6, <1>7, <1>8, <1>9

-----------------------------------------------------------------------------
(* Compatibility: the floor covers the bytes.                              *)

\* The types of a head's history and of the handles on it.
CompatTyped ==
    /\ head \in Recorded \cup {Missing}
    /\ wrote \subseteq ever /\ ever \subseteq Handles
    /\ etag \in Nat \ {0}
    /\ opening \in [Handles -> {"away", "idle", "gated", "created", "open", "reading"}]
    /\ seen \in [Handles -> Nat] /\ \A e \in Handles : seen[e] <= etag
    /\ raced \in [Handles -> BOOLEAN]
    /\ restored \in [Handles -> SUBSET Handles]

\* What the head asks for is some writer's.
AsksOfWriters ==
    IF head = Missing THEN wrote = {} /\ \A e \in Handles : seen[e] = 0 /\ opening[e] \notin {"created", "open"}
    ELSE /\ \E g \in ever : MinReader(head) = Engines[g].version
         /\ \E g \in ever : Format(head) = Engines[g].format

\* Whom the head lets in restores what every engine named by the manifest wrote.
FloorCovers ==
    head # Missing => \A e \in Handles : EngineCompatible(head, e) => \A w \in wrote : Restores(e, w)

\* A gated open that lost no race would replace a head that lets it in; one that created the object and was
\* not overtaken finds it as it left it.
GateHolds(e) ==
    /\ opening[e] = "gated" /\ seen[e] = etag /\ ~raced[e] => head # Missing /\ EngineCompatible(head, e)
    /\ opening[e] = "created" /\ seen[e] = etag => wrote = {}

\* A handle that lost no race restored only what its engine can.
RestoredOK(e) ==
    opening[e] \in {"open", "reading"} /\ ~raced[e] => \A w \in restored[e] : Restores(e, w)

\* The inductive invariant of the gates.
CInv == CompatTyped /\ AsksOfWriters /\ FloorCovers /\ \A e \in Handles : GateHolds(e) /\ RestoredOK(e)

\* The fields that raiseCompatibilityFloor leaves alone and those it raises.
LEMMA RaisedFloor ==
    ASSUME OrderAsDocumented, NEW h \in Recorded, NEW e \in Handles, NEW l \in Handles \cup {Nobody},
           NEW g \in Handles, MinReader(h) = Engines[g].version,
           NEW f \in Handles, Format(h) = Engines[f].format,
           Comparable(MinReader(h), Engines[e].version),
           NEW r, r = [RaiseCompatibilityFloor(h, e) EXCEPT !.lease = l]
    PROVE  /\ r \in Recorded
           /\ r # Missing
           /\ MinReader(r) \in {Engines[g].version, Engines[e].version}
           /\ Format(r) \in {Engines[f].format, Engines[e].format}
           /\ \A d \in Handles : EngineCompatible(r, d) => EngineCompatible(h, d) /\ Restores(d, e)
  <1> DEFINE m == Later(MinReader(h), Engines[e].version)
             k == Larger(Format(h), Engines[e].format)
  <1>1. /\ r \in Recorded
        /\ r.minReader = m /\ r.format = k /\ r.engine = h.engine
    <2>1. m \in Released /\ Engines[e].version \in Released
      BY DEF Later, Released
    <2>2. k \in Nat
      BY EnginesAssumption DEF Larger
    <2> HIDE DEF m, k
    <2>3. RaiseCompatibilityFloor(h, e) =
            [h EXCEPT !.version = Engines[e].version, !.format = k, !.minReader = m]
      BY DEF RaiseCompatibilityFloor, m, k
    <2> QED
      BY <2>1, <2>2, <2>3 DEF Recorded
  <1>2. r # Missing
    BY <1>1, HeadsAssumption
  <1>3. MinReader(r) = m /\ m \in {Engines[g].version, Engines[e].version}
    BY <1>1, EnginesAssumption DEF MinReader, Default, Later
  <1>4. Format(r) = k /\ k \in {Engines[f].format, Engines[e].format}
        /\ k >= Engines[f].format /\ k >= Engines[e].format
    BY <1>1, EnginesAssumption DEF Format, Default, Larger
  <1>5. ASSUME NEW d \in Handles, EngineCompatible(r, d)
        PROVE  EngineCompatible(h, d) /\ Restores(d, e)
    <2>1. h.engine = "chdb" /\ k <= Engines[d].format /\ Comparable(Engines[d].version, m)
          /\ ~Before(Engines[d].version, m)
      BY <1>1, <1>3, <1>4, <1>5 DEF EngineCompatible
    <2>2. Parsed(d) /\ Parsed(g) /\ Parsed(e)
      BY <2>1 DEF Comparable, Parsed
    <2>3. /\ Before(Engines[g].version, Engines[e].version) <=> Engines[g].rank < Engines[e].rank
          /\ Before(Engines[d].version, Engines[e].version) <=> Engines[d].rank < Engines[e].rank
          /\ Before(Engines[d].version, Engines[g].version) <=> Engines[d].rank < Engines[g].rank
      BY <2>2 DEF OrderAsDocumented
    <2>4. Engines[d].rank >= Engines[g].rank /\ Engines[d].rank >= Engines[e].rank
      BY <2>1, <2>3, EnginesAssumption DEF Later
    <2>5. Format(h) <= Engines[d].format /\ Engines[e].format <= Engines[d].format
      BY <1>4, <2>1, EnginesAssumption
    <2>6. ~Before(Engines[d].version, MinReader(h)) /\ Comparable(Engines[d].version, MinReader(h))
      BY <2>2, <2>3, <2>4, EnginesAssumption DEF Comparable, Parsed
    <2> QED
      BY <2>1, <2>4, <2>5, <2>6 DEF EngineCompatible, Restores
  <1> QED
    BY <1>1, <1>2, <1>3, <1>4, <1>5

\* An object as one engine left it declares what that engine's output needs.
LEMMA CompatInitHolds == OrderAsDocumented /\ CompatInit(Heads, Crews) => CInv
  <1> SUFFICES ASSUME OrderAsDocumented, CompatInit(Heads, Crews) PROVE CInv
    OBVIOUS
  <1>1. PICK start \in Heads : head = start.head /\ wrote = start.wrote /\ ever = start.wrote
    BY DEF CompatInit
  <1>2. /\ etag = 1
        /\ seen = [e \in Handles |-> 0]
        /\ raced = [e \in Handles |-> FALSE]
        /\ restored = [e \in Handles |-> {}]
    BY DEF CompatInit
  <1>3. /\ opening \in [Handles -> {"away", "idle", "gated", "created", "open", "reading"}]
        /\ \A e \in Handles : opening[e] \in {"away", "idle"}
    BY DEF CompatInit
  <1>4. IF head = Missing THEN wrote = {}
        ELSE /\ head \in Recorded
             /\ \E g \in Handles : /\ wrote = {g}
                                   /\ MinReader(head) = Engines[g].version
                                   /\ Format(head) = Engines[g].format
    BY <1>1, HeadsAssumption
  <1>5. CompatTyped
    BY <1>1, <1>2, <1>3, <1>4 DEF CompatTyped
  <1>6. AsksOfWriters
    <2>1. \A e \in Handles : seen[e] = 0 /\ opening[e] \notin {"created", "open"}
      BY <1>2, <1>3
    <2>2. CASE head = Missing
      BY <1>4, <2>1, <2>2 DEF AsksOfWriters
    <2>3. CASE head # Missing
      BY <1>1, <1>4, <2>3 DEF AsksOfWriters
    <2> QED
      BY <2>2, <2>3
  <1>7. FloorCovers
    <2> SUFFICES ASSUME head # Missing, NEW e \in Handles, EngineCompatible(head, e), NEW w \in wrote
                 PROVE  Restores(e, w)
      BY DEF FloorCovers
    <2>1. w \in Handles /\ MinReader(head) = Engines[w].version /\ Format(head) = Engines[w].format
      BY <1>4
    <2>2. Comparable(Engines[e].version, Engines[w].version) /\ ~Before(Engines[e].version, Engines[w].version)
          /\ Engines[w].format <= Engines[e].format
      BY <2>1 DEF EngineCompatible
    <2>3. ~(Engines[e].rank < Engines[w].rank)
      BY <2>1, <2>2 DEF OrderAsDocumented, Comparable, Parsed
    <2> QED
      BY <2>1, <2>2, <2>3, EnginesAssumption DEF Restores
  <1> QED
    BY <1>2, <1>3, <1>5, <1>6, <1>7 DEF CInv, GateHolds, RestoredOK

\* A handle that is gone holds nothing.
LEMMA GoneIsFine ==
    ASSUME CInv, NEW e \in Handles, Gone(e), UNCHANGED <<head, wrote, ever, etag>>
    PROVE  CInv'
  <1>1. CompatTyped'
    BY DEF CInv, CompatTyped, Gone
  <1>2. AsksOfWriters' /\ FloorCovers'
    BY DEF CInv, CompatTyped, AsksOfWriters, FloorCovers, Gone, MinReader, Format, Default, EngineCompatible
  <1>3. \A d \in Handles : GateHolds(d)' /\ RestoredOK(d)'
    BY DEF CInv, CompatTyped, GateHolds, RestoredOK, Gone, EngineCompatible, MinReader, Format, Default
  <1> QED
    BY <1>1, <1>2, <1>3 DEF CInv

\* A write of the head leaves no gated open in step with it.
LEMMA WriteOutruns ==
    ASSUME CompatTyped, NEW h, Put(h)
    PROVE  /\ head' = h /\ etag' \in Nat \ {0}
           /\ \A d \in Handles : seen[d] <= etag' /\ seen[d] # etag'
  BY DEF CompatTyped, Put

\* A holder renews, flushes, checkpoints or closes: the floor rises with what it adds.
LEMMA CommitIsFine ==
    ASSUME OrderAsDocumented, CInv, NEW e \in Handles, NEW l \in Handles \cup {Nobody}, NEW written,
           Commit(e, l, written), written \subseteq wrote \cup {e},
           \/ seen' = [seen EXCEPT ![e] = etag'] /\ UNCHANGED <<opening, raced, restored>>
           \/ Gone(e)
    PROVE  CInv'
  <1> DEFINE h == [RaiseCompatibilityFloor(head, e) EXCEPT !.lease = l]
  <1>1. /\ opening[e] = "open" /\ Comparable(MinReader(head), Engines[e].version)
        /\ Put(h) /\ ever' = ever \cup {e} /\ wrote' = written
    BY DEF Commit
  <1>2. CompatTyped /\ head # Missing /\ head \in Recorded
    BY <1>1 DEF CInv, CompatTyped, AsksOfWriters
  <1>3. PICK g \in ever : MinReader(head) = Engines[g].version
    BY <1>2 DEF CInv, AsksOfWriters
  <1>4. PICK f \in ever : Format(head) = Engines[f].format
    BY <1>2 DEF CInv, AsksOfWriters
  <1>5. g \in Handles /\ f \in Handles
    BY <1>2, <1>3, <1>4 DEF CompatTyped
  <1>6. PICK r : r = h
    OBVIOUS
  <1>7. /\ r \in Recorded
        /\ r # Missing
        /\ MinReader(r) \in {Engines[g].version, Engines[e].version}
        /\ Format(r) \in {Engines[f].format, Engines[e].format}
        /\ \A d \in Handles : EngineCompatible(r, d) => EngineCompatible(head, d) /\ Restores(d, e)
    BY <1>1, <1>2, <1>3, <1>4, <1>5, <1>6, RaisedFloor
  <1>8. /\ head' = r /\ etag' \in Nat \ {0}
        /\ \A d \in Handles : seen[d] <= etag' /\ seen[d] # etag'
    BY <1>1, <1>2, <1>6, WriteOutruns
  <1> HIDE DEF h
  <1>9. CompatTyped'
    <2>1. /\ opening' \in [Handles -> {"away", "idle", "gated", "created", "open", "reading"}]
          /\ seen' \in [Handles -> Nat] /\ \A d \in Handles : seen'[d] <= etag'
          /\ raced' \in [Handles -> BOOLEAN]
          /\ restored' \in [Handles -> SUBSET Handles]
      <3>1. CASE seen' = [seen EXCEPT ![e] = etag'] /\ UNCHANGED <<opening, raced, restored>>
        BY <1>2, <1>8, <3>1 DEF CompatTyped
      <3>2. CASE Gone(e)
        BY <1>2, <1>8, <3>2 DEF CompatTyped, Gone
      <3> QED
        BY <3>1, <3>2
    <2> QED
      BY <1>1, <1>2, <1>7, <1>8, <2>1 DEF CompatTyped
  <1>10. AsksOfWriters'
    BY <1>1, <1>3, <1>4, <1>7, <1>8 DEF AsksOfWriters, MinReader, Format, Default
  <1>11. FloorCovers'
    <2>1. ASSUME NEW d \in Handles, EngineCompatible(r, d), NEW w \in written PROVE Restores(d, w)
      BY <1>2, <1>7, <2>1 DEF CInv, FloorCovers
    <2> QED
      BY <1>1, <1>8, <2>1 DEF FloorCovers, EngineCompatible, MinReader, Format, Default
  <1>12. \A d \in Handles : GateHolds(d)' /\ RestoredOK(d)'
    <2> SUFFICES ASSUME NEW d \in Handles PROVE GateHolds(d)' /\ RestoredOK(d)'
      OBVIOUS
    <2>1. CASE seen' = [seen EXCEPT ![e] = etag'] /\ UNCHANGED <<opening, raced, restored>>
      BY <1>1, <1>2, <1>8, <2>1 DEF CInv, CompatTyped, GateHolds, RestoredOK
    <2>2. CASE Gone(e)
      BY <1>2, <1>8, <2>2 DEF CInv, CompatTyped, GateHolds, RestoredOK, Gone
    <2> QED
      BY <2>1, <2>2
  <1> QED
    BY <1>9, <1>10, <1>11, <1>12 DEF CInv

\* What EngineCompatible and the floor read of a head does not change with its lease.
LEMMA LeaseIsBeside ==
    ASSUME NEW h \in Recorded, NEW e \in Handles, NEW r, r = [h EXCEPT !.lease = e]
    PROVE  /\ r \in Recorded
           /\ MinReader(r) = MinReader(h) /\ Format(r) = Format(h)
           /\ \A d \in Handles : EngineCompatible(r, d) <=> EngineCompatible(h, d)
  <1>1. r \in Recorded /\ r.minReader = h.minReader /\ r.version = h.version
        /\ r.format = h.format /\ r.engine = h.engine
    BY DEF Recorded
  <1> QED
    BY <1>1 DEF MinReader, Format, Default, EngineCompatible

\* A head is created: it names nobody's output, and asks for its writer's engine.
LEMMA CreateColdIsFine ==
    ASSUME CInv, NEW e \in Handles, CreateCold(e)
    PROVE  CInv'
  <1>1. PICK r : r = ColdHead(e)
    OBVIOUS
  <1>2. r \in Recorded /\ r.minReader = Engines[e].version /\ r.format = Engines[e].format
    <2>1. r = [protocol |-> 1, readerFeatures |-> {}, writerFeatures |-> {}, engine |-> "chdb",
               version |-> Engines[e].version, minReader |-> Engines[e].version,
               format |-> Engines[e].format, lease |-> e]
      BY <1>1 DEF ColdHead, Protocol
    <2>2. Engines[e].version \in Released /\ Engines[e].format \in Nat
      BY EnginesAssumption DEF Released
    <2> QED
      BY <2>1, <2>2 DEF Recorded
  <1>3. MinReader(r) = Engines[e].version /\ Format(r) = Engines[e].format
    BY <1>2, EnginesAssumption DEF MinReader, Format, Default
  <1>4. CompatTyped
    BY DEF CInv
  <1>5. /\ head' = r /\ etag' \in Nat \ {0}
        /\ \A d \in Handles : seen[d] <= etag' /\ seen[d] # etag'
    BY <1>1, <1>4, WriteOutruns DEF CreateCold
  <1>6. wrote = {}
    BY DEF CInv, AsksOfWriters, CreateCold
  <1>7. CompatTyped'
    BY <1>2, <1>4, <1>5 DEF CompatTyped, CreateCold
  <1>8. AsksOfWriters'
    BY <1>2, <1>3, <1>5, HeadsAssumption DEF AsksOfWriters, CreateCold, MinReader, Format, Default
  <1>9. FloorCovers'
    BY <1>6 DEF FloorCovers, CreateCold
  <1>10. \A d \in Handles : GateHolds(d)' /\ RestoredOK(d)'
    <2>1. wrote' = {} /\ opening' = [opening EXCEPT ![e] = "created"] /\ seen' = [seen EXCEPT ![e] = etag']
          /\ UNCHANGED <<raced, restored>>
      BY <1>6 DEF CreateCold
    <2> SUFFICES ASSUME NEW d \in Handles PROVE GateHolds(d)' /\ RestoredOK(d)'
      OBVIOUS
    <2>2. GateHolds(d)'
      BY <1>4, <1>5, <2>1 DEF CompatTyped, GateHolds
    <2>3. RestoredOK(d)'
      BY <1>4, <2>1 DEF CInv, CompatTyped, RestoredOK
    <2> QED
      BY <2>2, <2>3
  <1> QED
    BY <1>7, <1>8, <1>9, <1>10 DEF CInv

\* A lease is taken on the head that was gated, or after a lost race on another.
LEMMA AcquireIsFine ==
    ASSUME CInv, NEW e \in Handles, Acquire(e)
    PROVE  CInv'
  <1>1. CompatTyped /\ seen[e] = etag /\ opening[e] = "gated" /\ ever' = ever \cup {e} /\ wrote' = wrote
        /\ seen' = [seen EXCEPT ![e] = etag'] /\ UNCHANGED raced
        /\ opening' = [opening EXCEPT ![e] = "open"]
        /\ restored' = [restored EXCEPT ![e] = wrote]
    BY DEF CInv, Acquire
  <1>2. head # Missing /\ head \in Recorded
    BY <1>1 DEF CInv, CompatTyped, AsksOfWriters
  <1>3. PICK r : r = [head EXCEPT !.lease = e]
    OBVIOUS
  <1>4. /\ r \in Recorded
        /\ MinReader(r) = MinReader(head) /\ Format(r) = Format(head)
        /\ \A d \in Handles : EngineCompatible(r, d) <=> EngineCompatible(head, d)
    BY <1>2, <1>3, LeaseIsBeside
  <1>5. /\ head' = r /\ etag' \in Nat \ {0}
        /\ \A d \in Handles : seen[d] <= etag' /\ seen[d] # etag'
    BY <1>1, <1>3, WriteOutruns DEF Acquire
  <1>6. CompatTyped'
    BY <1>1, <1>4, <1>5 DEF CompatTyped
  <1>7. AsksOfWriters'
    BY <1>1, <1>2, <1>4, <1>5, HeadsAssumption DEF CInv, AsksOfWriters, MinReader, Format, Default
  <1>8. FloorCovers'
    <2>1. \A d \in Handles : EngineCompatible(r, d) => \A w \in wrote : Restores(d, w)
      BY <1>2, <1>4 DEF CInv, FloorCovers
    <2> QED
      BY <1>1, <1>5, <2>1 DEF FloorCovers, EngineCompatible, MinReader, Format, Default
  <1>9. \A d \in Handles : GateHolds(d)' /\ RestoredOK(d)'
    <2> SUFFICES ASSUME NEW d \in Handles PROVE GateHolds(d)' /\ RestoredOK(d)'
      OBVIOUS
    <2>1. GateHolds(d)'
      BY <1>1, <1>5 DEF CompatTyped, GateHolds
    <2>4. GateHolds(d) /\ RestoredOK(d) /\ FloorCovers
      BY DEF CInv
    <2>2. CASE d = e
      BY <1>1, <2>2, <2>4 DEF CompatTyped, GateHolds, RestoredOK, FloorCovers
    <2>3. CASE d # e
      <3>1. opening'[d] = opening[d] /\ raced'[d] = raced[d] /\ restored'[d] = restored[d]
        BY <1>1, <2>3 DEF CompatTyped
      <3> QED
        BY <2>1, <2>4, <3>1 DEF RestoredOK
    <2> QED
      BY <2>1, <2>2, <2>3
  <1> QED
    BY <1>6, <1>7, <1>8, <1>9 DEF CInv

\* The created head is read back: with nothing in it yet, or past the gates.
LEMMA ReadBackIsFine ==
    ASSUME CInv, NEW e \in Handles, CreatedReadsBack(e)
    PROVE  CInv'
  <1>1. /\ opening[e] = "created" /\ UNCHANGED <<head, wrote, ever, etag>>
        /\ opening' = [opening EXCEPT ![e] = "open"]
        /\ seen' = [seen EXCEPT ![e] = etag]
        /\ raced' = [raced EXCEPT ![e] = seen[e] # etag]
        /\ restored' = [restored EXCEPT ![e] = wrote]
    BY DEF CreatedReadsBack
  <1>2. CompatTyped /\ AsksOfWriters /\ FloorCovers
    BY DEF CInv
  <1>3. CompatTyped'
    BY <1>1, <1>2 DEF CompatTyped
  <1>4. AsksOfWriters' /\ FloorCovers'
    BY <1>1, <1>2 DEF AsksOfWriters, FloorCovers, EngineCompatible, MinReader, Format, Default
  <1>5. ASSUME NEW d \in Handles PROVE GateHolds(d)' /\ RestoredOK(d)'
    <2>1. GateHolds(d) /\ RestoredOK(d) /\ (EngineCompatible(head, d)' <=> EngineCompatible(head, d))
      BY <1>1 DEF CInv, EngineCompatible, MinReader, Format, Default
    <2>2. CASE d = e
      BY <1>1, <1>2, <2>1, <2>2 DEF CompatTyped, GateHolds, RestoredOK
    <2>3. CASE d # e
      BY <1>1, <1>2, <2>1, <2>3 DEF CompatTyped, GateHolds, RestoredOK
    <2> QED
      BY <2>2, <2>3
  <1> QED
    BY <1>3, <1>4, <1>5 DEF CInv

\* The steps of an open before it writes, and those of a reader.
LEMMA WaitingIsFine ==
    ASSUME CInv, NEW e \in Handles,
           Gate(e) \/ OpenReadOnly(e) \/ CreateLost(e) \/ AcquireLost(e)
    PROVE  CInv'
  <1>1. CASE CreateLost(e) /\ Gone(e)
    BY <1>1, GoneIsFine DEF CreateLost
  <1>2. CASE ~Gone(e)
    <2>1. UNCHANGED <<head, wrote, ever, etag>>
      BY <1>2 DEF Gate, OpenReadOnly, CreateLost, AcquireLost
    <2>2. CompatTyped'
      <3>1. CompatTyped
        BY DEF CInv
      <3>2. CASE Gate(e)
        BY <2>1, <3>1, <3>2 DEF CompatTyped, Gate
      <3>3. CASE OpenReadOnly(e)
        BY <2>1, <3>1, <3>3 DEF CompatTyped, OpenReadOnly
      <3>4. CASE CreateLost(e)
        BY <1>2, <2>1, <3>1, <3>4 DEF CompatTyped, CreateLost
      <3>5. CASE AcquireLost(e)
        BY <2>1, <3>1, <3>5 DEF CompatTyped, AcquireLost
      <3> QED
        BY <3>2, <3>3, <3>4, <3>5
    <2>3. AsksOfWriters'
      BY <1>2, <2>1 DEF CInv, CompatTyped, AsksOfWriters, Gate, OpenReadOnly, CreateLost, AcquireLost,
                        MinReader, Format, Default
    <2>4. FloorCovers'
      BY <2>1 DEF CInv, FloorCovers, EngineCompatible, MinReader, Format, Default
    <2>5. \A d \in Handles : GateHolds(d)' /\ RestoredOK(d)'
      <3> SUFFICES ASSUME NEW d \in Handles PROVE GateHolds(d)' /\ RestoredOK(d)'
        OBVIOUS
      <3>1. EngineCompatible(head, d)' <=> EngineCompatible(head, d)
        BY <2>1 DEF EngineCompatible, MinReader, Format, Default
      <3>2. CompatTyped /\ FloorCovers /\ AsksOfWriters /\ GateHolds(d) /\ RestoredOK(d)
        BY DEF CInv
      <3> HIDE DEF CInv
      <3>3. CASE d # e
        BY <1>2, <2>1, <3>1, <3>2, <3>3 DEF CompatTyped, GateHolds, RestoredOK, Gate, OpenReadOnly, CreateLost,
                                           AcquireLost
      <3>4. CASE d = e /\ Gate(e)
        BY <2>1, <3>1, <3>2, <3>4 DEF CompatTyped, GateHolds, RestoredOK, Gate, Gates
      <3>5. CASE d = e /\ OpenReadOnly(e)
        BY <2>1, <3>1, <3>2, <3>5 DEF CompatTyped, GateHolds, RestoredOK, OpenReadOnly, Gates, FloorCovers
      <3>6. CASE d = e /\ CreateLost(e)
        BY <1>2, <2>1, <3>1, <3>2, <3>6 DEF CompatTyped, GateHolds, RestoredOK, CreateLost, Gates
      <3>7. CASE d = e /\ AcquireLost(e)
        BY <2>1, <3>1, <3>2, <3>7 DEF CompatTyped, GateHolds, RestoredOK, AcquireLost
      <3> QED
        BY <3>3, <3>4, <3>5, <3>6, <3>7
    <2> QED
      BY <2>2, <2>3, <2>4, <2>5 DEF CInv
  <1>3. CASE Gone(e)
    BY <1>3, GoneIsFine DEF Gate, OpenReadOnly, CreateLost, AcquireLost
  <1> QED
    BY <1>2, <1>3

\* Every step of every engine keeps the invariant.
LEMMA CompatNextHolds == OrderAsDocumented /\ CInv /\ [CompatNext]_compatVars => CInv'
  <1> SUFFICES ASSUME OrderAsDocumented, CInv, [CompatNext]_compatVars PROVE CInv'
    OBVIOUS
  <1>1. CASE UNCHANGED compatVars
    BY <1>1 DEF CInv, compatVars, CompatTyped, AsksOfWriters, FloorCovers, GateHolds, RestoredOK,
                EngineCompatible, MinReader, Format, Default
  <1>2. ASSUME NEW e \in Handles, Gate(e) \/ OpenReadOnly(e) \/ CreateLost(e) \/ AcquireLost(e)
        PROVE  CInv'
    BY <1>2, WaitingIsFine
  <1>3. ASSUME NEW e \in Handles, CreateCold(e) \/ CreatedReadsBack(e) PROVE CInv'
    BY <1>3, CreateColdIsFine, ReadBackIsFine
  <1>4. ASSUME NEW e \in Handles, Acquire(e) PROVE CInv'
    BY <1>4, AcquireIsFine
  <1>5. ASSUME NEW e \in Handles, GiveUp(e) \/ Leave(e) PROVE CInv'
    BY <1>5, GoneIsFine DEF GiveUp, Leave
  <1>6. ASSUME NEW e \in Handles, NEW written, Continues(e, written), written \subseteq wrote \cup {e} PROVE CInv'
    <2>1. Commit(e, head.lease, written) /\ opening[e] = "open"
      BY <1>6 DEF Continues, Commit
    <2>2. head.lease \in Handles \cup {Nobody}
      BY <2>1 DEF CInv, CompatTyped, AsksOfWriters, Recorded
    <2> QED
      BY <1>6, <2>1, <2>2, CommitIsFine DEF Continues
  <1>7. ASSUME NEW e \in Handles, Renew(e) \/ Flush(e) \/ Checkpoint(e) PROVE CInv'
    BY <1>6, <1>7 DEF Renew, Flush, Checkpoint
  <1>8. ASSUME NEW e \in Handles, CloseWriter(e) PROVE CInv'
    BY <1>8, CommitIsFine DEF CloseWriter
  <1> QED
    BY <1>1, <1>2, <1>3, <1>4, <1>5, <1>7, <1>8 DEF CompatNext

\* The invariant says that the floor covers the bytes; that no engine as late as all
\* the writers is refused, because what the head asks for is one writer's.
LEMMA CInvCovers == OrderAsDocumented /\ CInv => FloorCoversTheBytes
  <1> SUFFICES ASSUME OrderAsDocumented, CInv PROVE FloorCoversTheBytes
    OBVIOUS
  <1>1. \A e \in Handles : opening[e] \in {"open", "reading"} /\ ~raced[e] =>
           \A w \in restored[e] : Restores(e, w)
    BY DEF CInv, RestoredOK
  <1>2. head # Missing => \A e \in Handles : EngineCompatible(head, e) => \A w \in wrote : Restores(e, w)
    BY DEF CInv, FloorCovers
  <1>3. ASSUME head # Missing, head.engine = "chdb", \A w \in ever : Parsed(w),
               NEW e \in Handles, Parsed(e), \A w \in ever : Restores(e, w)
        PROVE  EngineCompatible(head, e)
    <2>1. PICK g \in ever : MinReader(head) = Engines[g].version
      BY <1>3 DEF CInv, AsksOfWriters
    <2>2. PICK f \in ever : Format(head) = Engines[f].format
      BY <1>3 DEF CInv, AsksOfWriters
    <2>3. g \in Handles /\ Parsed(g)
      BY <1>3, <2>1 DEF CInv, CompatTyped
    <2>4. ~(Engines[e].rank < Engines[g].rank)
      BY <1>3, <2>3, EnginesAssumption DEF Restores
    <2>5. ~Before(Engines[e].version, Engines[g].version)
      BY <1>3, <2>3, <2>4 DEF OrderAsDocumented
    <2> QED
      BY <1>3, <2>1, <2>2, <2>3, <2>5 DEF EngineCompatible, Restores, Comparable, Parsed
  <1> QED
    BY <1>1, <1>2, <1>3 DEF FloorCoversTheBytes

\* For any number of engines and of opens, takeovers, flushes and checkpoints by them: if comparePrecedence puts
\* their releases in the documented order, whom the head's floor lets in restores what its manifest names, and no
\* engine as late as all the writers is refused (negotiate.ts, raiseCompatibilityFloor).
THEOREM TheFloorCoversTheBytes == OrderAsDocumented => (CompatSpec => []FloorCoversTheBytes)
  <1> SUFFICES ASSUME OrderAsDocumented PROVE CompatSpec => []FloorCoversTheBytes
    OBVIOUS
  <1>1. CompatInit(Heads, Crews) => CInv
    BY CompatInitHolds
  <1>2. CInv /\ [CompatNext]_compatVars => CInv'
    BY CompatNextHolds
  <1>3. CInv => FloorCoversTheBytes
    BY CInvCovers
  <1> QED
    BY <1>1, <1>2, <1>3, PTL DEF CompatSpec

-----------------------------------------------------------------------------
(* RecordStores: updates accumulate.                                       *)

\* Of some rows of one record, the one that no other replaces.
Foremost(R, r) == r \in R /\ \A s \in R : ~Replaces(s, r)

\* What a read with FINAL makes of a set of rows.
ReadOf(R) == IF R = {} THEN Blank ELSE (CHOOSE r \in R : \A s \in R : ~Replaces(s, r)).content

Contents == [group : Groups \cup {None}, patches : Seq(Nat)]
Patches == [n : Nat, group : Groups \cup {None}]
StoreRows == [id : Records, version : 1 .. MaxClock, place : Nat \ {0}, content : Contents]
StoreCalls ==
    [phase : {"idle", "read", "insert"}, id : Records \cup {None}, how : {"save", "dated", "update"},
     version : Nat, patch : Patches, base : Contents]

\* The types of the rows and of the calls; rows are numbered as they land, and hold at least a patch.
StoreTyped ==
    /\ rows \subseteq StoreRows
    /\ \A r \in rows : r.place <= inserted /\ r.content # Blank
    /\ \A r, s \in rows : r.place = s.place => r = s
    /\ inserted \in Nat /\ now \in 1 .. MaxClock /\ next \in Nat
    /\ awaited \in [Callers -> StoreCalls]
    /\ meant \in [Records -> Contents]
    /\ overlapped \subseteq Records /\ ahead \subseteq Records
    /\ moved \subseteq Records /\ returned \subseteq Records

\* The records the theorem speaks of.
Plain == Records \ (overlapped \cup ahead \cup returned)

\* What a call is about to insert: a record of its own, or its patch on top of what the record is meant to hold;
\* dated no later than now, and no earlier than what is there unless its caller dated it.
CallOK(c) ==
    LET id == awaited[c].id IN
    /\ awaited[c].phase = "idle" <=> id = None
    /\ awaited[c].phase = "read" => awaited[c].how = "update"
    /\ awaited[c].phase = "insert" =>
         /\ awaited[c].version \in 1 .. MaxClock
         /\ awaited[c].how # "update" => awaited[c].base = Blank
         /\ id \in Plain =>
              /\ awaited[c].how = "update" => awaited[c].base = meant[id]
              /\ awaited[c].how # "dated" => \A r \in RowsOf(id) : r.version <= awaited[c].version
              /\ awaited[c].version <= now

\* The calls on a plain record are one at a time, what is read is what they meant, no row is dated later than
\* now, and all are in the group of the record unless a call changed it.
RecordOK(id) ==
    id \in Plain =>
        /\ Latest(id) = meant[id]
        /\ \A c, d \in Callers : awaited[c].id = id /\ awaited[d].id = id => c = d
        /\ \A r \in RowsOf(id) : r.version <= now
        /\ id \notin moved => \A r \in RowsOf(id) : r.content.group = meant[id].group

\* The inductive invariant of the stores.
StoreInv == StoreTyped /\ (\A c \in Callers : CallOK(c)) /\ \A id \in Records : RecordOK(id)

\* Among rows there is always one that no other replaces: of the highest version, the one inserted last.
LEMMA HasForemost ==
    ASSUME StoreTyped, NEW R, R \subseteq rows, R # {}
    PROVE  \E r \in R : Foremost(R, r)
  <1>0. \A r \in R : r.version \in 1 .. MaxClock /\ r.place \in 1 .. inserted
    BY DEF StoreTyped, StoreRows
  <1>1. MaxClock \in Nat /\ inserted \in Nat
    BY RecordsAssumption DEF StoreTyped
  <1>2. PICK v \in {r.version : r \in R} : \A w \in {r.version : r \in R} : w <= v
    <2>1. {r.version : r \in R} \subseteq 1 .. MaxClock /\ {r.version : r \in R} # {}
      BY <1>0
    <2> QED
      BY <1>1, <2>1, HasLast
  <1> DEFINE T == {r \in R : r.version = v}
  <1>3. PICK p \in {r.place : r \in T} : \A q \in {r.place : r \in T} : q <= p
    <2>1. {r.place : r \in T} \subseteq 1 .. inserted /\ {r.place : r \in T} # {}
      BY <1>0, <1>2
    <2> QED
      BY <1>1, <2>1, HasLast
  <1>4. PICK t \in R : t.version = v /\ t.place = p
    BY <1>3
  <1>5. ASSUME NEW s \in R, Replaces(s, t) PROVE FALSE
    <2>1. s.version <= v /\ (s.version = v => s.place <= p)
      BY <1>2, <1>3
    <2> QED
      BY <1>0, <1>4, <1>5, <2>1 DEF Replaces
  <1> QED
    BY <1>4, <1>5 DEF Foremost

\* That is the row that is read.
LEMMA ForemostIsRead ==
    ASSUME NEW R, \A r \in R : r.version \in Nat /\ r.place \in Nat,
           \A r, s \in R : r.place = s.place => r = s,
           NEW r, Foremost(R, r)
    PROVE  ReadOf(R) = r.content
  <1> DEFINE c == CHOOSE q \in R : \A s \in R : ~Replaces(s, q)
  <1>1. c \in R /\ \A s \in R : ~Replaces(s, c)
    BY DEF Foremost
  <1> HIDE DEF c
  <1>2. c.version = r.version /\ c.place = r.place
    BY <1>1 DEF Foremost, Replaces
  <1>3. c = r
    BY <1>1, <1>2 DEF Foremost
  <1> QED
    BY <1>3 DEF ReadOf, Foremost, c

\* The same, of rows of the store.
LEMMA ReadIsForemost ==
    ASSUME StoreTyped, NEW R, R \subseteq rows, NEW r, Foremost(R, r)
    PROVE  ReadOf(R) = r.content
  <1>1. \A s \in R : s.version \in Nat /\ s.place \in Nat
    BY DEF StoreTyped, StoreRows
  <1>2. \A s, t \in R : s.place = t.place => s = t
    BY DEF StoreTyped
  <1> QED
    BY <1>1, <1>2, ForemostIsRead

\* A read finds nothing only where there are no rows, and otherwise what one of them holds.
LEMMA ReadIsTyped ==
    ASSUME StoreTyped, NEW R, R \subseteq rows
    PROVE  ReadOf(R) \in Contents /\ (ReadOf(R) = Blank <=> R = {})
  <1>1. CASE R = {}
    <2>1. <<>> \in Seq(Nat)
      OBVIOUS
    <2> QED
      BY <1>1, <2>1 DEF ReadOf, Blank, Contents
  <1>2. CASE R # {}
    <2>1. PICK t \in R : Foremost(R, t)
      BY <1>2, HasForemost
    <2>2. ReadOf(R) = t.content
      BY <2>1, ReadIsForemost
    <2> QED
      BY <1>2, <2>1, <2>2 DEF StoreTyped, StoreRows
  <1> QED
    BY <1>1, <1>2

\* The row inserted last is read unless another has a higher version.
LEMMA InsertIsRead ==
    ASSUME StoreTyped, NEW R, R \subseteq rows,
           NEW n, n.version \in Nat, n.place \in Nat, \A r \in R : r.place < n.place
    PROVE  ReadOf(R \cup {n}) = IF \E r \in R : r.version > n.version THEN ReadOf(R) ELSE n.content
  <1> DEFINE U == R \cup {n}
  <1>0. \A r \in R : r.version \in Nat /\ r.place \in Nat
    BY DEF StoreTyped, StoreRows
  <1>1. /\ \A r \in U : r.version \in Nat /\ r.place \in Nat
        /\ \A r, s \in U : r.place = s.place => r = s
    <2>1. \A r, s \in R : r.place = s.place => r = s
      BY DEF StoreTyped
    <2> QED
      BY <1>0, <2>1
  <1>2. CASE \E r \in R : r.version > n.version
    <2>1. PICK t \in R : Foremost(R, t)
      BY <1>2, HasForemost
    <2>2. PICK r \in R : r.version > n.version
      BY <1>2
    <2>3. t.version >= r.version
      BY <1>0, <2>1, <2>2 DEF Foremost, Replaces
    <2>4. Foremost(U, t)
      BY <1>0, <2>1, <2>2, <2>3 DEF Foremost, Replaces
    <2>5. ReadOf(R) = t.content
      BY <2>1, ReadIsForemost
    <2>6. ReadOf(U) = t.content
      BY <1>1, <2>4, ForemostIsRead
    <2> QED
      BY <1>2, <2>5, <2>6
  <1>3. CASE ~ \E r \in R : r.version > n.version
    <2>1. Foremost(U, n)
      BY <1>0, <1>3 DEF Foremost, Replaces
    <2>2. ReadOf(U) = n.content
      BY <1>1, <2>1, ForemostIsRead
    <2> QED
      BY <1>3, <2>2
  <1> QED
    BY <1>2, <1>3

\* What leaves the row that is read alone is not seen.
LEMMA DropIsNotSeen ==
    ASSUME StoreTyped, NEW R, R \subseteq rows, NEW D, NEW t, Foremost(R, t), t \notin D
    PROVE  ReadOf(R \ D) = ReadOf(R)
  <1>1. Foremost(R \ D, t)
    BY DEF Foremost
  <1>2. R \ D \subseteq rows
    OBVIOUS
  <1> QED
    BY <1>1, <1>2, ReadIsForemost

\* Latest is the read of the record's rows.
LEMMA LatestIsRead ==
    \A id : Latest(id) = ReadOf(RowsOf(id)) /\ Latest(id)' = ReadOf(RowsOf(id)') /\ RowsOf(id) \subseteq rows
  BY DEF Latest, ReadOf, RowsOf

\* A call that awaits nothing, and a record that holds nothing.
LEMMA BlankIsTyped == Blank \in Contents /\ Idle \in StoreCalls /\ Idle.id = None /\ Idle.phase = "idle"
  <1>1. <<>> \in Seq(Nat)
    OBVIOUS
  <1> QED
    BY <1>1 DEF Blank, Contents, Idle, StoreCalls, Patches

\* What a patch makes of a record.
LEMMA MergedIsTyped ==
    ASSUME NEW existing \in Contents, NEW patch \in Patches
    PROVE  Merged(existing, patch) \in Contents /\ Merged(existing, patch) # Blank
  <1>1. existing.patches \in Seq(Nat) /\ patch.n \in Nat
    BY DEF Contents, Patches
  <1>2. Append(existing.patches, patch.n) \in Seq(Nat) /\ Append(existing.patches, patch.n) # <<>>
    BY <1>1
  <1>3. Merged(existing, patch) = [group |-> IF patch.group = None THEN existing.group ELSE patch.group,
                                   patches |-> Append(existing.patches, patch.n)]
    BY DEF Merged
  <1>4. Blank.patches = <<>>
    BY DEF Blank
  <1> QED
    BY <1>2, <1>3, <1>4 DEF Contents, Patches

\* A store starts empty.
LEMMA StoreInitHolds == StoreInit => StoreInv
  <1> SUFFICES ASSUME StoreInit PROVE StoreInv
    OBVIOUS
  <1>1. StoreTyped
    BY BlankIsTyped, RecordsAssumption DEF StoreInit, StoreTyped
  <1>2. \A c \in Callers : CallOK(c)
    BY BlankIsTyped DEF StoreInit, CallOK
  <1>3. \A id \in Records : RecordOK(id)
    BY BlankIsTyped, RecordsAssumption DEF StoreInit, RecordOK, RowsOf, Latest
  <1> QED
    BY <1>1, <1>2, <1>3 DEF StoreInv

\* A call starts.
LEMMA BeginsIsFine ==
    ASSUME StoreInv, NEW c \in Callers, NEW q \in StoreCalls, Begins(c, q), q.id \in Records,
           UNCHANGED <<rows, inserted, now, meant, moved, returned>>,
           ahead \subseteq ahead', ahead' \subseteq Records,
           \/ q.phase = "read" /\ q.how = "update"
           \/ /\ q.phase = "insert" /\ q.how # "update" /\ q.base = Blank /\ q.version \in 1 .. MaxClock
              /\ q.how # "dated" => q.version = now
              /\ q.id \notin ahead' => q.version <= now
    PROVE  StoreInv'
  <1>1. StoreTyped
    BY DEF StoreInv
  <1>2. /\ awaited[c] = Idle /\ awaited' = [awaited EXCEPT ![c] = q] /\ next' = next + 1
        /\ overlapped' = IF Busy(q.id) THEN overlapped \cup {q.id} ELSE overlapped
    BY DEF Begins
  <1>3. StoreTyped'
    <2>1. awaited' \in [Callers -> StoreCalls]
      BY <1>1, <1>2 DEF StoreTyped
    <2>2. overlapped' \subseteq Records /\ next' \in Nat
      BY <1>1, <1>2 DEF StoreTyped
    <2> QED
      BY <1>1, <2>1, <2>2 DEF StoreTyped
  <1>4. awaited'[c] = q /\ \A d \in Callers : d # c => awaited'[d] = awaited[d]
    BY <1>1, <1>2 DEF StoreTyped
  <1>5. Plain' \subseteq Plain /\ (q.id \in Plain' => ~Busy(q.id)) /\ (q.id \in Plain' => q.id \notin ahead')
    BY <1>2 DEF Plain
  <1>6. \A id : RowsOf(id)' = RowsOf(id)
    BY DEF RowsOf
  <1>7. q.id # None
    BY RecordsAssumption
  <1>8. ASSUME NEW d \in Callers PROVE CallOK(d)'
    <2>1. CASE d = c
      <3>1. CASE q.phase = "read"
        BY <1>4, <1>7, <2>1, <3>1 DEF CallOK
      <3>2. CASE q.phase = "insert"
        <4>1. ASSUME q.id \in Plain', q.how # "dated", NEW r \in RowsOf(q.id) PROVE r.version <= q.version
          BY <1>5, <3>2, <4>1 DEF StoreInv, RecordOK
        <4>2. (q.id \in Plain' => q.version <= now) /\ q.how # "update" /\ q.base = Blank
              /\ q.version \in 1 .. MaxClock
          BY <1>5, <3>2
        <4> QED
          BY <1>4, <1>6, <1>7, <2>1, <3>2, <4>1, <4>2 DEF CallOK
      <3> QED
        BY <3>1, <3>2
    <2>2. CASE d # c
      <3>1. CallOK(d) /\ awaited'[d] = awaited[d]
        BY <1>4, <2>2 DEF StoreInv
      <3> QED
        BY <1>5, <1>6, <3>1 DEF CallOK
    <2> QED
      BY <2>1, <2>2
  <1>9. ASSUME NEW i \in Records PROVE RecordOK(i)'
    <2> SUFFICES ASSUME i \in Plain' PROVE RecordOK(i)'
      BY DEF RecordOK
    <2>1. RecordOK(i) /\ i \in Plain
      BY <1>5 DEF StoreInv
    <2>2. Latest(i)' = Latest(i)
      BY <1>6, LatestIsRead
    <2>3. ASSUME NEW d \in Callers, NEW e \in Callers, awaited'[d].id = i, awaited'[e].id = i PROVE d = e
      <3>1. CASE i = q.id
        <4>1. \A k \in Callers : awaited[k].id # i
          BY <1>5, <3>1 DEF Busy
        <4> QED
          BY <1>4, <2>3, <4>1
      <3>2. CASE i # q.id
        BY <1>4, <2>1, <2>3, <3>2 DEF RecordOK
      <3> QED
        BY <3>1, <3>2
    <2> QED
      BY <1>6, <2>1, <2>2, <2>3 DEF RecordOK
  <1> QED
    BY <1>3, <1>8, <1>9 DEF StoreInv

\* The record comes back: the call ends, or will insert its patch on top of what was read.
LEMMA ReadsIsFine ==
    ASSUME StoreInv, NEW c \in Callers, Reads(c)
    PROVE  StoreInv'
  <1> DEFINE id == awaited[c].id
             existing == Latest(id)
             more == [awaited[c] EXCEPT !.phase = "insert", !.version = now, !.base = existing]
  <1>1. StoreTyped /\ CallOK(c) /\ awaited[c] \in StoreCalls /\ awaited[c].phase = "read"
    BY DEF StoreInv, StoreTyped, Reads
  <1>2. id \in Records /\ awaited[c].how = "update"
    BY <1>1 DEF CallOK, StoreCalls
  <1>3. existing \in Contents
    BY <1>1, LatestIsRead, ReadIsTyped
  <1>4. now \in 1 .. MaxClock /\ now \in Nat
    BY <1>1, RecordsAssumption DEF StoreTyped
  <1>5. /\ more \in StoreCalls /\ more.phase = "insert" /\ more.id = id /\ more.how = "update"
        /\ more.version = now /\ more.base = existing
    <2>1. PICK e \in Contents : e = existing
      BY <1>3
    <2>2. more = [awaited[c] EXCEPT !.phase = "insert", !.version = now, !.base = e]
      BY <2>1
    <2> HIDE DEF more, existing
    <2> QED
      BY <1>1, <1>2, <1>4, <2>1, <2>2 DEF StoreCalls
  <1>6. UNCHANGED <<rows, inserted, now, next, meant, overlapped, ahead, moved, returned>>
    BY DEF Reads, engineVars, historyVars
  <1>7. awaited' = [awaited EXCEPT ![c] = IF existing = Blank THEN Idle ELSE more]
    BY DEF Reads
  <1>8. /\ \A d \in Callers : d # c => awaited'[d] = awaited[d]
        /\ awaited'[c] = IF existing = Blank THEN Idle ELSE more
        /\ awaited' \in [Callers -> StoreCalls]
    BY <1>1, <1>5, <1>7, BlankIsTyped DEF StoreTyped
  <1>9. RecordOK(id) /\ id # None
    BY <1>2, RecordsAssumption DEF StoreInv
  <1>10. id \in Plain => existing = meant[id] /\ \A r \in RowsOf(id) : r.version <= now
    BY <1>9 DEF RecordOK
  <1> HIDE DEF existing, more
  <1>11. StoreTyped'
    BY <1>1, <1>6, <1>8 DEF StoreTyped
  <1>12. Plain' = Plain /\ \A i : RowsOf(i)' = RowsOf(i)
    BY <1>6 DEF Plain, RowsOf
  <1>13. ASSUME NEW d \in Callers PROVE CallOK(d)'
    <2>1. CASE d # c
      <3>1. CallOK(d) /\ awaited'[d] = awaited[d]
        BY <1>8, <2>1 DEF StoreInv
      <3> QED
        BY <1>6, <1>12, <3>1 DEF CallOK
    <2>2. CASE d = c /\ awaited'[c] = Idle
      BY <2>2, BlankIsTyped DEF CallOK
    <2>3. CASE d = c /\ awaited'[c] = more
      BY <1>4, <1>5, <1>6, <1>9, <1>10, <1>12, <2>3 DEF CallOK
    <2> QED
      BY <1>8, <2>1, <2>2, <2>3
  <1>14. ASSUME NEW i \in Records PROVE RecordOK(i)'
    <2>1. RecordOK(i) /\ Latest(i)' = Latest(i)
      BY <1>12, LatestIsRead DEF StoreInv
    <2>2. \A d \in Callers : awaited'[d].id = i => awaited[d].id = i
      BY <1>5, <1>8, BlankIsTyped, RecordsAssumption
    <2> QED
      BY <1>6, <1>12, <2>1, <2>2 DEF RecordOK
  <1> QED
    BY <1>11, <1>13, <1>14 DEF StoreInv

\* An insert lands.
LEMMA LandsIsFine ==
    ASSUME StoreInv, NEW c \in Callers, Lands(c)
    PROVE  StoreInv'
  <1> DEFINE q == awaited[c]
  <1>1. StoreTyped /\ CallOK(c) /\ q \in StoreCalls /\ q.phase = "insert"
    BY DEF StoreInv, StoreTyped, Lands
  <1>2. PICK id \in Records : id = q.id
    BY <1>1 DEF CallOK, StoreCalls
  <1> DEFINE content == Merged(q.base, q.patch)
             n == [id |-> id, version |-> q.version, place |-> inserted + 1, content |-> content]
             kept == q.how = "dated" /\ Behind(id, q.version)
  <1>3. q.version \in 1 .. MaxClock /\ (q.how # "update" => q.base = Blank)
    BY <1>1 DEF CallOK
  <1>4. content \in Contents /\ content # Blank
    BY <1>1, MergedIsTyped DEF StoreCalls
  <1>5. RecordOK(id) /\ id # None
    BY <1>2, RecordsAssumption DEF StoreInv
  <1>6. /\ rows' = rows \cup {n} /\ inserted' = inserted + 1
        /\ awaited' = [awaited EXCEPT ![c] = Idle]
        /\ meant' = IF kept THEN meant
                    ELSE [meant EXCEPT ![id] = Merged(IF q.how = "update" THEN meant[id] ELSE Blank, q.patch)]
        /\ moved' = IF meant[id] # Blank /\ content.group # meant[id].group THEN moved \cup {id} ELSE moved
        /\ UNCHANGED <<now, next, overlapped, ahead, returned>>
    BY <1>2 DEF Lands
  <1>7. Plain' = Plain
    BY <1>6 DEF Plain
  <1>8. /\ awaited'[c] = Idle /\ (\A d \in Callers : d # c => awaited'[d] = awaited[d])
        /\ awaited' \in [Callers -> StoreCalls]
    BY <1>1, <1>6, BlankIsTyped DEF StoreTyped
  <1>9. n.id = id /\ n.version = q.version /\ n.place = inserted + 1 /\ n.content = content
    OBVIOUS
  <1>10. /\ RowsOf(id)' = RowsOf(id) \cup {n}
        /\ \A i : i # id => RowsOf(i)' = RowsOf(i)
    BY <1>2, <1>6, <1>9 DEF RowsOf
  <1>11. /\ \A i \in Records : i # id => meant'[i] = meant[i]
         /\ kept => meant'[id] = meant[id]
         /\ ~kept => meant'[id] = Merged(IF q.how = "update" THEN meant[id] ELSE Blank, q.patch)
         /\ meant' \in [Records -> Contents]
    <2>1. Merged(IF q.how = "update" THEN meant[id] ELSE Blank, q.patch) \in Contents
      <3>1. (IF q.how = "update" THEN meant[id] ELSE Blank) \in Contents
        BY <1>1, <1>2, BlankIsTyped DEF StoreTyped
      <3> QED
        BY <1>1, <3>1, MergedIsTyped DEF StoreCalls
    <2> QED
      BY <1>1, <1>2, <1>6, <2>1 DEF StoreTyped
  <1>12. \A i : i \notin moved' => i \notin moved
    BY <1>6
  <1>13. \A r \in rows : r.place < n.place
    BY <1>1 DEF StoreTyped, StoreRows
  <1> HIDE DEF n, content
  <1>14. StoreTyped'
    <2>1. n \in StoreRows
      BY <1>1, <1>2, <1>4, <1>3 DEF n, StoreRows, StoreTyped
    <2>2. \A r \in rows' : r.place <= inserted' /\ r.content # Blank
      BY <1>1, <1>4, <1>6, <1>9, <1>13, <2>1 DEF StoreTyped, StoreRows
    <2>3. \A r, s \in rows' : r.place = s.place => r = s
      BY <1>1, <1>6, <1>13, <2>1 DEF StoreTyped, StoreRows
    <2>4. moved' \subseteq Records /\ inserted' \in Nat /\ rows' \subseteq StoreRows
      BY <1>1, <1>2, <1>6, <2>1 DEF StoreTyped
    <2> QED
      BY <1>1, <1>6, <1>8, <1>11, <2>2, <2>3, <2>4 DEF StoreTyped
  <1>15. ASSUME NEW d \in Callers PROVE CallOK(d)'
    <2>1. CASE d = c
      BY <1>8, <2>1, BlankIsTyped DEF CallOK
    <2>2. CASE d # c
      <3>1. CallOK(d) /\ awaited'[d] = awaited[d]
        BY <1>8, <2>2 DEF StoreInv
      <3>2. \A k \in Plain : awaited[d].id = k => meant'[k] = meant[k] /\ RowsOf(k)' = RowsOf(k)
        BY <1>2, <1>5, <1>10, <1>11, <2>2 DEF RecordOK, Plain
      <3> QED
        BY <1>6, <1>7, <3>1, <3>2 DEF CallOK
    <2> QED
      BY <2>1, <2>2
  <1>16. \A d \in Callers : \A i \in Records : awaited'[d].id = i => awaited[d].id = i
    BY <1>8, BlankIsTyped, RecordsAssumption
  <1>17. ASSUME NEW i \in Records, i # id PROVE RecordOK(i)'
    <2>1. RecordOK(i) /\ RowsOf(i)' = RowsOf(i) /\ Latest(i)' = Latest(i) /\ meant'[i] = meant[i]
      BY <1>10, <1>11, <1>17, LatestIsRead DEF StoreInv
    <2> QED
      BY <1>6, <1>7, <1>12, <1>16, <2>1 DEF RecordOK
  <1>18. ASSUME id \in Plain PROVE RecordOK(id)'
    <2>1. /\ Latest(id) = meant[id]
          /\ \A d, e \in Callers : awaited[d].id = id /\ awaited[e].id = id => d = e
          /\ \A r \in RowsOf(id) : r.version <= now
          /\ id \notin moved => \A r \in RowsOf(id) : r.content.group = meant[id].group
      BY <1>5, <1>18 DEF RecordOK
    <2>2. /\ q.how = "update" => q.base = meant[id]
          /\ q.how # "dated" => \A r \in RowsOf(id) : r.version <= q.version
          /\ q.version <= now
      BY <1>1, <1>2, <1>18 DEF CallOK
    <2>3. Latest(id)' = IF \E r \in RowsOf(id) : r.version > n.version THEN Latest(id) ELSE content
      <3>1. RowsOf(id) \subseteq rows /\ n.version \in Nat /\ n.place \in Nat
        BY <1>1, <1>9, <1>3, RecordsAssumption DEF RowsOf, StoreTyped
      <3>2. ReadOf(RowsOf(id) \cup {n})
              = IF \E r \in RowsOf(id) : r.version > n.version THEN ReadOf(RowsOf(id)) ELSE n.content
        BY <1>1, <1>13, <3>1, InsertIsRead
      <3> QED
        BY <1>9, <1>10, <3>2, LatestIsRead
    <2>4. \A r \in RowsOf(id) : r.version \in Nat
      BY <1>1 DEF StoreTyped, StoreRows, RowsOf
    <2>5. Behind(id, q.version) <=> \E r \in RowsOf(id) : r.version > n.version
      BY <1>9 DEF Behind
    <2>6. ~kept => ~Behind(id, q.version) /\ meant'[id] = content
      <3>1. q.how # "dated" => ~Behind(id, q.version)
        BY <1>3, <2>2, <2>4, RecordsAssumption DEF Behind
      <3>2. Merged(IF q.how = "update" THEN meant[id] ELSE Blank, q.patch) = content
        BY <1>3, <2>2 DEF content
      <3> QED
        BY <1>11, <3>1, <3>2
    <2>7. Latest(id)' = meant'[id]
      BY <1>11, <2>1, <2>3, <2>5, <2>6
    <2>8. \A r \in RowsOf(id)' : r.version <= now
      BY <1>9, <1>10, <2>1, <2>2
    <2>9. ASSUME id \notin moved', NEW r \in RowsOf(id)' PROVE r.content.group = meant'[id].group
      <3>1. CASE RowsOf(id) = {}
        <4>1. ~Behind(id, q.version)
          BY <3>1 DEF Behind
        <4> QED
          BY <1>9, <1>10, <2>6, <2>9, <3>1, <4>1
      <3>2. CASE RowsOf(id) # {}
        <4>1. meant[id] # Blank
          BY <1>1, <2>1, <3>2, LatestIsRead, ReadIsTyped
        <4>2. content.group = meant[id].group
          BY <1>6, <2>9, <4>1
        <4>3. meant'[id].group = meant[id].group
          BY <1>11, <2>6, <4>2
        <4>4. \A s \in RowsOf(id) : s.content.group = meant[id].group
          BY <1>12, <2>1, <2>9
        <4> QED
          BY <1>9, <1>10, <2>9, <4>2, <4>3, <4>4
      <3> QED
        BY <3>1, <3>2
    <2>10. \A d, e \in Callers : awaited'[d].id = id /\ awaited'[e].id = id => d = e
      BY <1>2, <1>16, <2>1
    <2> QED
      BY <1>6, <2>7, <2>8, <2>9, <2>10 DEF RecordOK
  <1>19. id \notin Plain => RecordOK(id)'
    BY <1>7 DEF RecordOK
  <1> QED
    BY <1>14, <1>15, <1>17, <1>18, <1>19 DEF StoreInv

\* A background merge.
LEMMA MergeIsFine ==
    ASSUME StoreInv, Merge
    PROVE  StoreInv'
  <1>1. PICK r \in rows : /\ \E s \in RowsOf(r.id) : Replaces(s, r)
                          /\ rows' = rows \ {r}
                          /\ UNCHANGED <<inserted, now, awaited, next, historyVars>>
    BY DEF Merge
  <1>2. UNCHANGED <<inserted, now, awaited, next, meant, overlapped, ahead, moved, returned>>
    BY <1>1 DEF historyVars
  <1>3. StoreTyped /\ Plain' = Plain
    BY <1>2 DEF StoreInv, Plain
  <1>4. StoreTyped'
    BY <1>1, <1>2, <1>3 DEF StoreTyped
  <1>5. \A i : RowsOf(i)' = RowsOf(i) \ {r} /\ RowsOf(i)' \subseteq RowsOf(i)
    BY <1>1 DEF RowsOf
  <1>6. ASSUME NEW i PROVE Latest(i)' = Latest(i)
    <2>1. CASE r \in RowsOf(i)
      <3>1. PICK t \in RowsOf(i) : Foremost(RowsOf(i), t)
        BY <1>3, <2>1, LatestIsRead, HasForemost
      <3>2. t # r
        BY <1>1, <2>1, <3>1 DEF Foremost, RowsOf
      <3>3. ReadOf(RowsOf(i) \ {r}) = ReadOf(RowsOf(i))
        BY <1>3, <3>1, <3>2, LatestIsRead, DropIsNotSeen
      <3> QED
        BY <1>5, <3>3, LatestIsRead
    <2>2. CASE r \notin RowsOf(i)
      <3>1. RowsOf(i)' = RowsOf(i)
        BY <1>5, <2>2
      <3> QED
        BY <3>1, LatestIsRead
    <2> QED
      BY <2>1, <2>2
  <1>7. ASSUME NEW c \in Callers PROVE CallOK(c)'
    <2>1. CallOK(c)
      BY DEF StoreInv
    <2> QED
      BY <1>2, <1>3, <1>5, <2>1 DEF CallOK
  <1>8. ASSUME NEW i \in Records PROVE RecordOK(i)'
    <2>1. RecordOK(i)
      BY DEF StoreInv
    <2> QED
      BY <1>2, <1>3, <1>5, <1>6, <2>1 DEF RecordOK
  <1> QED
    BY <1>4, <1>7, <1>8 DEF StoreInv

\* The clock is set, forward or back.
LEMMA SetClockIsFine ==
    ASSUME StoreInv, NEW time \in 1 .. MaxClock, SetClock(time)
    PROVE  StoreInv'
  <1>1. /\ UNCHANGED <<rows, inserted, awaited, next, meant, overlapped, moved, returned>>
        /\ now' = time
        /\ ahead' = ahead \cup {id \in Records : \/ Behind(id, time)
                                                 \/ \E c \in Callers : /\ awaited[c].id = id
                                                                       /\ awaited[c].version > time}
    BY DEF SetClock, engineVars
  <1>2. StoreTyped /\ StoreTyped'
    BY <1>1 DEF StoreInv, StoreTyped
  <1>3. \A i : RowsOf(i)' = RowsOf(i) /\ Latest(i)' = Latest(i)
    BY <1>1 DEF RowsOf, Latest
  <1>4. Plain' \subseteq Plain
    BY <1>1 DEF Plain
  <1>5. ASSUME NEW i \in Plain'
        PROVE  /\ \A r \in RowsOf(i) : r.version <= time
               /\ \A c \in Callers : awaited[c].id = i => awaited[c].version <= time
    <2>1. i \in Records /\ ~Behind(i, time) /\ \A c \in Callers : awaited[c].id = i => ~(awaited[c].version > time)
      BY <1>1, <1>5 DEF Plain
    <2>2. (\A r \in RowsOf(i) : r.version \in Nat) /\ (\A c \in Callers : awaited[c].version \in Nat) /\ time \in Nat
      BY <1>2, RecordsAssumption DEF StoreTyped, StoreRows, StoreCalls, RowsOf
    <2> QED
      BY <2>1, <2>2 DEF Behind
  <1>6. ASSUME NEW c \in Callers PROVE CallOK(c)'
    <2>1. CallOK(c)
      BY DEF StoreInv
    <2> QED
      BY <1>1, <1>3, <1>4, <1>5, <2>1 DEF CallOK
  <1>7. ASSUME NEW i \in Records PROVE RecordOK(i)'
    <2>1. RecordOK(i)
      BY DEF StoreInv
    <2> QED
      BY <1>1, <1>3, <1>4, <1>5, <2>1 DEF RecordOK
  <1> QED
    BY <1>2, <1>6, <1>7 DEF StoreInv

\* A delete: of a plain record that is gone it takes every row, and of any other it leaves the row that is read.
LEMMA DeletesIsFine ==
    ASSUME StoreInv, NEW hit, NEW gone, gone \subseteq Records, Deletes(hit, gone),
           returned \subseteq returned', returned' \subseteq Records,
           \A id \in gone : id \in Plain \ returned' => RowsOf(id) \subseteq hit,
           \A id \in Plain \ gone : \A r \in RowsOf(id) : Foremost(RowsOf(id), r) => r \notin hit
    PROVE  StoreInv'
  <1>1. /\ rows' = rows \ hit
        /\ meant' = [id \in Records |-> IF id \in gone THEN Blank ELSE meant[id]]
        /\ overlapped' = overlapped \cup {id \in gone : Busy(id)}
        /\ UNCHANGED <<inserted, now, awaited, next, ahead, moved>>
    BY DEF Deletes
  <1>2. StoreTyped
    BY DEF StoreInv
  <1>3. StoreTyped'
    <2>1. meant' \in [Records -> Contents]
      BY <1>1, <1>2, BlankIsTyped DEF StoreTyped
    <2>2. overlapped' \subseteq Records
      BY <1>1, <1>2 DEF StoreTyped
    <2> QED
      BY <1>1, <1>2, <2>1, <2>2 DEF StoreTyped
  <1>4. \A i : RowsOf(i)' = RowsOf(i) \ hit
    BY <1>1 DEF RowsOf
  <1>5. Plain' \subseteq Plain /\ Plain' \cap returned' = {} /\ \A i \in Plain' \cap gone : ~Busy(i)
    BY <1>1 DEF Plain
  <1>6. \A i \in Plain' \cap gone : RowsOf(i)' = {} /\ meant'[i] = Blank
    <2>1. \A i \in Plain' \cap gone : RowsOf(i) \subseteq hit
      BY <1>5
    <2> QED
      BY <1>1, <1>4, <2>1
  <1>7. ASSUME NEW i \in Plain' \ gone PROVE meant'[i] = meant[i] /\ Latest(i)' = Latest(i)
    <2>1. i \in Records /\ i \in Plain
      BY <1>5, <1>7 DEF Plain
    <2>2. CASE RowsOf(i) = {}
      <3>1. RowsOf(i)' = RowsOf(i)
        BY <1>4, <2>2
      <3> QED
        BY <1>1, <2>1, <3>1, LatestIsRead
    <2>3. CASE RowsOf(i) # {}
      <3>1. PICK t \in RowsOf(i) : Foremost(RowsOf(i), t)
        BY <1>2, <2>3, LatestIsRead, HasForemost
      <3>2. t \notin hit
        BY <2>1, <3>1
      <3>3. ReadOf(RowsOf(i) \ hit) = ReadOf(RowsOf(i))
        BY <1>2, <3>1, <3>2, LatestIsRead, DropIsNotSeen
      <3> QED
        BY <1>1, <1>4, <2>1, <3>3, LatestIsRead
    <2> QED
      BY <2>2, <2>3
  <1>8. ASSUME NEW c \in Callers PROVE CallOK(c)'
    <2>1. CallOK(c)
      BY DEF StoreInv
    <2>2. \A i \in Plain' : awaited[c].id = i => meant'[i] = meant[i]
      BY <1>5, <1>7 DEF Busy
    <2> QED
      BY <1>1, <1>4, <1>5, <2>1, <2>2 DEF CallOK
  <1>9. ASSUME NEW i \in Records PROVE RecordOK(i)'
    <2> SUFFICES ASSUME i \in Plain' PROVE RecordOK(i)'
      BY DEF RecordOK
    <2>1. RecordOK(i) /\ i \in Plain
      BY <1>5 DEF StoreInv
    <2>2. CASE i \in gone
      <3>1. Latest(i)' = Blank
        BY <1>6, <2>2 DEF Latest
      <3> QED
        BY <1>1, <1>6, <2>1, <2>2, <3>1 DEF RecordOK
    <2>3. CASE i \notin gone
      BY <1>1, <1>4, <1>7, <2>1, <2>3 DEF RecordOK
    <2> QED
      BY <2>2, <2>3
  <1> QED
    BY <1>3, <1>8, <1>9 DEF StoreInv

\* Of a plain record, the row that is read holds what the record is meant to hold.
LEMMA ForemostIsMeant ==
    ASSUME StoreInv, NEW id \in Plain, NEW r \in RowsOf(id), Foremost(RowsOf(id), r)
    PROVE  r.content = meant[id]
  <1>1. StoreTyped /\ Latest(id) = meant[id]
    BY DEF StoreInv, RecordOK, Plain
  <1>2. ReadOf(RowsOf(id)) = r.content
    BY <1>1, LatestIsRead, ReadIsForemost
  <1> QED
    BY <1>1, <1>2, LatestIsRead

\* A delete by a group, and by an id beside it.
LEMMA DeletesGroupIsFine ==
    ASSUME StoreInv, NEW table, table \subseteq Records, NEW group, NEW ids, ids \subseteq Records,
           Deletes({r \in rows : r.id \in ids} \cup RowsOfGroup(table, group), ids \cup MembersOf(table, group)),
           returned' = returned \cup (MembersOf(table, group) \cap moved)
    PROVE  StoreInv'
  <1> DEFINE hit == {r \in rows : r.id \in ids} \cup RowsOfGroup(table, group)
             gone == ids \cup MembersOf(table, group)
  <1>1. StoreTyped /\ gone \subseteq Records
    BY DEF StoreInv, MembersOf
  <1>2. returned \subseteq returned' /\ returned' \subseteq Records
    BY <1>1 DEF StoreTyped
  <1>3. ASSUME NEW id \in gone, id \in Plain \ returned' PROVE RowsOf(id) \subseteq hit
    <2>1. CASE id \in ids
      BY <2>1 DEF RowsOf
    <2>2. CASE id \in MembersOf(table, group)
      <3>1. id \notin moved /\ id \in table /\ meant[id].group = group
        BY <1>3, <2>2 DEF MembersOf
      <3>2. \A r \in RowsOf(id) : r.content.group = group
        BY <1>1, <1>3, <3>1 DEF StoreInv, RecordOK
      <3> QED
        BY <3>1, <3>2 DEF RowsOf, RowsOfGroup
    <2> QED
      BY <2>1, <2>2
  <1>4. ASSUME NEW id \in Plain \ gone, NEW r \in RowsOf(id), Foremost(RowsOf(id), r) PROVE r \notin hit
    <2>1. r.content = meant[id] /\ r.id = id
      BY <1>4, ForemostIsMeant DEF RowsOf
    <2> QED
      BY <2>1 DEF RowsOfGroup, MembersOf
  <1> HIDE DEF hit, gone
  <1>5. Deletes(hit, gone)
    BY DEF hit, gone
  <1> QED
    BY <1>1, <1>2, <1>3, <1>4, <1>5, DeletesIsFine

\* A delete by an id.
LEMMA DeletesOneIsFine ==
    ASSUME StoreInv, NEW id \in Records, Deletes(RowsOf(id), {id}), UNCHANGED returned
    PROVE  StoreInv'
  <1>1. StoreTyped
    BY DEF StoreInv
  <1>2. \A i \in Plain \ {id} : \A r \in RowsOf(i) : r \notin RowsOf(id)
    BY DEF RowsOf
  <1> QED
    BY <1>1, <1>2, DeletesIsFine DEF StoreTyped

\* Every step of the stores keeps the invariant.
LEMMA StoreNextHolds == StoreInv /\ [StoreNext]_storeVars => StoreInv'
  <1> SUFFICES ASSUME StoreInv, [StoreNext]_storeVars PROVE StoreInv'
    OBVIOUS
  <1>1. StoreTyped
    BY DEF StoreInv
  <1>2. ASSUME NEW id \in Records, NEW group \in GroupsOf(id) \cup {None}
        PROVE  [n |-> next, group |-> group] \in Patches
    BY <1>1 DEF StoreTyped, Patches, GroupsOf
  <1>3. now \in 1 .. MaxClock /\ now \in Nat
    BY <1>1, RecordsAssumption DEF StoreTyped
  <1>4. ASSUME NEW c \in Callers, NEW id \in Records, NEW group \in GroupsOf(id), Save(c, id, group) PROVE StoreInv'
    <2> DEFINE p == [n |-> next, group |-> group]
               q == [Idle EXCEPT !.phase = "insert", !.id = id, !.version = now, !.patch = p]
    <2>1. p \in Patches
      BY <1>2
    <2> HIDE DEF p
    <2>2. /\ q \in StoreCalls /\ q.phase = "insert" /\ q.how = "save" /\ q.base = Blank
          /\ q.version = now /\ q.id = id
      BY <1>3, <2>1, BlankIsTyped DEF Idle, StoreCalls
    <2>3. Begins(c, q) /\ UNCHANGED <<rows, inserted, now, meant, ahead, moved, returned>>
      BY <1>4 DEF Save, engineVars, p
    <2> HIDE DEF q
    <2> QED
      BY <1>1, <1>3, <2>2, <2>3, BeginsIsFine DEF StoreTyped
  <1>5. ASSUME NEW c \in Callers, NEW t \in Threads, NEW updatedAt \in 1 .. MaxClock, SaveDated(c, t, updatedAt)
        PROVE  StoreInv'
    <2> DEFINE p == [n |-> next, group |-> None]
               q == [Idle EXCEPT !.phase = "insert", !.id = t, !.how = "dated", !.version = updatedAt, !.patch = p]
    <2>0. t \in Records /\ updatedAt \in Nat
      BY RecordsAssumption DEF Records
    <2>1. p \in Patches
      BY <1>2, <2>0
    <2> HIDE DEF p
    <2>2. /\ q \in StoreCalls /\ q.phase = "insert" /\ q.how = "dated" /\ q.base = Blank
          /\ q.version = updatedAt /\ q.id = t
      BY <2>0, <2>1, BlankIsTyped DEF Idle, StoreCalls
    <2>3. /\ Begins(c, q) /\ UNCHANGED <<rows, inserted, now, meant, moved, returned>>
          /\ ahead' = IF updatedAt > now THEN ahead \cup {t} ELSE ahead
      BY <1>5 DEF SaveDated, engineVars, p
    <2>4. ahead \subseteq ahead' /\ ahead' \subseteq Records /\ (t \notin ahead' => updatedAt <= now)
      BY <1>1, <1>3, <2>0, <2>3 DEF StoreTyped
    <2> HIDE DEF q
    <2> QED
      BY <2>0, <2>2, <2>3, <2>4, BeginsIsFine
  <1>6. ASSUME NEW c \in Callers, NEW id \in Records, NEW group \in GroupsOf(id) \cup {None},
               UpdateRecord(c, id, group)
        PROVE  StoreInv'
    <2> DEFINE p == [n |-> next, group |-> group]
               q == [Idle EXCEPT !.phase = "read", !.id = id, !.how = "update", !.patch = p]
    <2>1. p \in Patches
      BY <1>2
    <2> HIDE DEF p
    <2>2. q \in StoreCalls /\ q.phase = "read" /\ q.how = "update" /\ q.id = id
      BY <2>1, BlankIsTyped DEF Idle, StoreCalls
    <2>3. Begins(c, q) /\ UNCHANGED <<rows, inserted, now, meant, ahead, moved, returned>>
      BY <1>6 DEF UpdateRecord, engineVars, p
    <2> HIDE DEF q
    <2> QED
      BY <1>1, <2>2, <2>3, BeginsIsFine DEF StoreTyped
  <1>7. ASSUME NEW t \in Threads, DeleteThread(t) PROVE StoreInv'
    <2>1. t \in Records /\ Messages \subseteq Records /\ RowsOf(t) = {r \in rows : r.id \in {t}}
      BY DEF Records, RowsOf
    <2>2. CASE Deletes(RowsOf(t), {t}) /\ UNCHANGED returned
      BY <2>1, <2>2, DeletesOneIsFine
    <2>3. CASE /\ Deletes(RowsOf(t) \cup RowsOfGroup(Messages, t), {t} \cup MembersOf(Messages, t))
               /\ returned' = returned \cup (MembersOf(Messages, t) \cap moved)
      <3>1. Deletes({r \in rows : r.id \in {t}} \cup RowsOfGroup(Messages, t), {t} \cup MembersOf(Messages, t))
        BY <2>1, <2>3
      <3> QED
        BY <2>1, <2>3, <3>1, DeletesGroupIsFine
    <2> QED
      BY <1>7, <2>2, <2>3 DEF DeleteThread
  <1>8. ASSUME NEW group \in Groups, DeleteVectors(group) PROVE StoreInv'
    <2>1. /\ {r \in rows : r.id \in {}} \cup RowsOfGroup(Vectors, group) = RowsOfGroup(Vectors, group)
          /\ {} \cup MembersOf(Vectors, group) = MembersOf(Vectors, group)
          /\ Vectors \subseteq Records
      BY DEF Records
    <2>2. Deletes({r \in rows : r.id \in {}} \cup RowsOfGroup(Vectors, group), {} \cup MembersOf(Vectors, group))
      BY <1>8, <2>1 DEF DeleteVectors
    <2> QED
      BY <1>8, <2>1, <2>2, DeletesGroupIsFine DEF DeleteVectors
  <1>9. ASSUME NEW id \in Vectors, DeleteVector(id) PROVE StoreInv'
    BY <1>9, DeletesOneIsFine DEF DeleteVector, Records
  <1>10. CASE UNCHANGED storeVars
    <2>1. UNCHANGED <<rows, inserted, now, awaited, next, meant, overlapped, ahead, moved, returned>>
      BY <1>10 DEF storeVars, engineVars, historyVars
    <2> QED
      BY <2>1 DEF StoreInv, StoreTyped, CallOK, RecordOK, Plain, RowsOf, Latest, Replaces
  <1> QED
    BY <1>4, <1>5, <1>6, <1>7, <1>8, <1>9, <1>10, MergeIsFine, SetClockIsFine, ReadsIsFine, LandsIsFine DEF StoreNext

\* With no two calls on one record at a time, no version later than the clock and no delete by a value that had
\* changed, every call on a record is kept and is read back, however many fell into one millisecond, in whatever
\* order merges ran and calls on other records landed: chdb-store.mjs and chdb-vector.mjs (UpdatesAccumulate).
THEOREM UpdatesAreKept == StoreSpec => []UpdatesAccumulate
  <1>1. StoreInv => UpdatesAccumulate
    BY DEF StoreInv, RecordOK, UpdatesAccumulate, ReadsAsMeant, Plain
  <1> QED
    BY <1>1, StoreInitHolds, StoreNextHolds, PTL DEF StoreSpec
=============================================================================
