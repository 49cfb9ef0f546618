------------------------ MODULE LocalBackend_proofs ------------------------
(***************************************************************************)
(* Proofs about LocalBackend: its types, and that the directory of         *)
(* version files and symlinks implements the compare-and-swap register of  *)
(* HeadRegister, for any number of clients, writes, failures and crashes.  *)
(***************************************************************************)
EXTENDS LocalBackend, TLAPS

------------------------------------------------------------------------------
(* The inductive invariant. *)

\* The versions are 1 .. k.  Before head.json is a symlink there is at most the
\* first, linked by a write over the plain file; then there is no plain file.
ChainOK ==
    /\ \E k \in Nat : DOMAIN versions = 1 .. k
    /\ pointer = 0 => DOMAIN versions \subseteq {1}
    /\ pointer # 0 => plain = Nothing
    /\ (pointer = 0 /\ plain = Nothing) => DOMAIN versions = {}

\* The system calls of each operation.
Going(c) ==
    /\ op[c] = "idle"  => pc[c] = "idle"
    /\ op[c] = "read"  => pc[c] \in {"readlink", "lstat", "repair", "readVersion", "readPath"}
    /\ op[c] = "write" => pc[c] \in {"readlink", "lstat", "repair", "digest", "link",
                                     "publish", "create", "return"}

\* What a client holds is, or was, in the directory.
Holding(c) ==
    /\ got[c].etag > 0 =>
         /\ got[c].etag \in DOMAIN versions
         /\ got[c].content = versions[got[c].etag]
         /\ pointer # 0
    /\ (got[c].etag = 0 /\ got[c].content # Nothing) =>
         (pointer # 0 \/ got[c].content = plain)

\* A scan starts at a version there is, and a replace's ends at or after its own.
Scanning(c) ==
    pc[c] \in {"lstat", "repair", "readVersion"} =>
      /\ scan[c][2] \in DOMAIN versions
      /\ pointer # 0
      /\ (op[c] = "write" /\ pc[c] = "repair") => scan[c][2] >= got[c].etag

\* What a write expects, and what has become of it by the time it is decided.
Writing(c) ==
    op[c] = "write" =>
      /\ pc[c] \in {"readlink", "lstat", "repair"} => got[c].etag > 0
      /\ pc[c] \in {"digest", "link", "publish"} => got[c].content # Nothing
      /\ pc[c] = "digest" => got[c].etag = 0
      /\ pc[c] = "create" => got[c] = NoHead
      /\ pc[c] = "publish" => NextVersion(c) \in DOMAIN versions
      /\ pc[c] \in {"publish", "return"} => outcome[c] # "none"
      /\ (pc[c] \in {"publish", "return"} /\ outcome[c] = "replaced" /\ got[c] # NoHead) =>
           (NextVersion(c) \in DOMAIN versions /\ versions[NextVersion(c)] = want[c])
      /\ (pc[c] = "return" /\ got[c] # NoHead) => pointer # 0
      /\ (pc[c] = "return" /\ outcome[c] = "not-replaced") =>
           IF got[c] = NoHead THEN plain # Nothing \/ pointer # 0
                              ELSE NextVersion(c) \in DOMAIN versions

\* Every write has bytes of its own, and only a write that was told so has its
\* bytes in a version.
Own(c) ==
    /\ op[c] = "write" => want[c] = [by |-> c, n |-> calls[c]]
    /\ \A m \in DOMAIN versions :
         /\ versions[m].by = c => versions[m].n <= calls[c]
         /\ (op[c] = "write" /\ versions[m] = want[c]) =>
              (pc[c] \in {"publish", "return"} /\ outcome[c] = "replaced")

\* What a read is about to return was the head while it read.
Seeing(c) ==
    /\ op[c] # "read" => seen[c] = {}
    /\ op[c] = "read" =>
         /\ Current \in seen[c]
         /\ pc[c] \in {"repair", "readVersion"} =>
              [etag |-> scan[c][2], content |-> versions[scan[c][2]]] \in seen[c]
         /\ (pc[c] = "readPath" /\ pointer # 0) =>
              \A m \in DOMAIN versions : [etag |-> m, content |-> versions[m]] \in seen[c]

ClientOK(c) == Going(c) /\ Holding(c) /\ Scanning(c) /\ Writing(c) /\ Own(c) /\ Seeing(c)

IInv == TypeOK /\ ChainOK /\ \A c \in Clients : ClientOK(c)

------------------------------------------------------------------------------
(* What a step does to the directory, whoever takes it. *)

\* The directory's part of TypeOK.
FilesTyped ==
    /\ plain \in Bytes \union {Nothing}
    /\ DOMAIN versions \subseteq Nat \ {0}
    /\ \A n \in DOMAIN versions : versions[n] \in Bytes
    /\ pointer \in {0} \union DOMAIN versions

\* The calls' part of it.
ThreadsTyped ==
    /\ pc \in [Clients -> Steps]
    /\ op \in [Clients -> {"idle", "read", "write"}]
    /\ scan \in [Clients -> Nat \X Nat]
    /\ got \in [Clients -> Token]
    /\ want \in [Clients -> Bytes \union {Nothing}]
    /\ calls \in [Clients -> 0 .. MaxCalls]
    /\ outcome \in [Clients -> {"none", "replaced", "not-replaced"}]
    /\ told \in [Clients -> {"none", "replaced", "not-replaced", "error"}]

\* Nothing there is ever goes away, and what is added is c's.
Grows(c) ==
    /\ DOMAIN versions \subseteq DOMAIN versions'
    /\ \A m \in DOMAIN versions : versions'[m] = versions[m]
    /\ \A m \in DOMAIN versions' : m \notin DOMAIN versions => versions'[m].by = c
    /\ pointer # 0 => pointer' # 0
    /\ plain # Nothing => (plain' = plain \/ pointer' # 0)

\* A version that counts is the head, or counted before.
Appends ==
    pointer' # 0 =>
      \A m \in DOMAIN versions' :
        \/ Current' = [etag |-> m, content |-> versions'[m]]
        \/ m \in DOMAIN versions /\ pointer # 0

\* The largest number of an interval of versions.
LEMMA TopIs ==
    ASSUME NEW v, NEW k \in Nat, k # 0, DOMAIN v = 1 .. k
    PROVE  (CHOOSE n \in DOMAIN v : \A m \in DOMAIN v : m <= n) = k
<1> DEFINE Top(n) == n \in DOMAIN v /\ \A m \in DOMAIN v : m <= n
<1>1. Top(k)
  OBVIOUS
<1>2. \A n : Top(n) => n = k
  OBVIOUS
<1> QED
  BY <1>1, <1>2

\* Highest is the last of the chain.
LEMMA HighestIs ==
    ASSUME FilesTyped, ChainOK
    PROVE  \E k \in Nat : DOMAIN versions = 1 .. k /\ (k # 0 => Highest = k)
<1>1. PICK k \in Nat : DOMAIN versions = 1 .. k
  BY DEF ChainOK
<1>2. CASE k # 0
  BY <1>1, <1>2, TopIs DEF Highest
<1>3. CASE k = 0
  BY <1>1, <1>3
<1> QED
  BY <1>2, <1>3

\* The same after a step.
LEMMA HighestIsNext ==
    ASSUME FilesTyped', ChainOK'
    PROVE  \E k \in Nat : DOMAIN versions' = 1 .. k /\ (k # 0 => Highest' = k)
<1>1. PICK k \in Nat : DOMAIN versions' = 1 .. k
  BY DEF ChainOK
<1>2. CASE k # 0
  BY <1>1, <1>2, TopIs DEF Highest
<1>3. CASE k = 0
  BY <1>1, <1>3
<1> QED
  BY <1>2, <1>3

\* The head after a step is a token.
LEMMA CurrentTyped ==
    ASSUME FilesTyped', ChainOK'
    PROVE  Current' \in Token
<1>1. CASE pointer' = 0
  BY <1>1 DEF Current, Token, FilesTyped
<1>2. CASE pointer' # 0
  <2>1. PICK k \in Nat : DOMAIN versions' = 1 .. k /\ (k # 0 => Highest' = k)
    BY HighestIsNext
  <2>2. k # 0 /\ Highest' = k /\ versions'[k] \in Bytes
    BY <1>2, <2>1 DEF FilesTyped
  <2> QED
    BY <1>2, <2>2 DEF Current, Token
<1> QED
  BY <1>1, <1>2

\* Only four calls change the directory.
LEMMA FilesKept ==
    ASSUME IInv, UNCHANGED files, NEW c
    PROVE  FilesTyped' /\ ChainOK' /\ Grows(c) /\ Appends
<1>1. plain' = plain /\ pointer' = pointer /\ versions' = versions
  BY DEF files
<1>2. FilesTyped' /\ ChainOK' /\ Grows(c)
  BY <1>1 DEF IInv, TypeOK, FilesTyped, ChainOK, Grows
<1>3. Appends
  BY <1>1 DEF Appends
<1> QED
  BY <1>2, <1>3

\* The last conjunct of FilesStep, for a step that links no version.
LEMMA AppendsNothing ==
    ASSUME IInv, versions' = versions, pointer # 0
    PROVE  Appends
BY DEF Appends

\* Linking, repairing, publishing and creating leave a chain, and only add to it.
LEMMA FilesStep ==
    ASSUME IInv, NEW c \in Clients, Step(c)
    PROVE  FilesTyped' /\ ChainOK' /\ Grows(c) /\ Appends
<1> USE DEF IInv, At
<1>0. FilesTyped /\ ChainOK /\ ClientOK(c) /\ ThreadsTyped
  BY DEF TypeOK, FilesTyped, ThreadsTyped
<1>1. CASE Repair(c)
  <2>1. pointer' \in DOMAIN versions /\ pointer # 0 /\ plain' = plain /\ versions' = versions
    BY <1>0, <1>1 DEF Repair, ClientOK, Scanning, FilesTyped
  <2>2. pointer' # 0
    BY <1>0, <2>1 DEF FilesTyped
  <2>3. FilesTyped' /\ ChainOK' /\ Grows(c)
    BY <1>0, <2>1, <2>2 DEF FilesTyped, ChainOK, Grows
  <2> QED
    BY <2>1, <2>3, AppendsNothing
<1>2. CASE Link(c)
  <2>1. CASE UNCHANGED versions
    <3>1. UNCHANGED files
      BY <1>2, <2>1 DEF Link, files
    <3> QED
      BY <3>1, FilesKept
  <2>2. CASE ~Exists(NextVersion(c)) /\ ~UNCHANGED versions
    <3>1. /\ DOMAIN versions' = DOMAIN versions \union {NextVersion(c)}
          /\ \A n \in DOMAIN versions : versions'[n] = versions[n]
          /\ versions'[NextVersion(c)] = want[c]
          /\ plain' = plain /\ pointer' = pointer
          /\ NextVersion(c) \notin DOMAIN versions
      BY <1>2, <2>2 DEF Link, Exists
    <3>2. /\ op[c] = "write"
          /\ want[c] = [by |-> c, n |-> calls[c]]
          /\ got[c].etag \in Nat
          /\ got[c].content # Nothing
      BY <1>0, <1>2 DEF Link, ClientOK, Going, Own, Writing, ThreadsTyped, Token
    <3>3. want[c] \in Bytes /\ want[c].by = c
      BY <1>0, <3>2 DEF ThreadsTyped, Bytes
    <3>4. PICK k \in Nat : DOMAIN versions = 1 .. k /\ (k # 0 => Highest = k)
      BY <1>0, HighestIs
    <3>5. NextVersion(c) = k + 1 /\ (pointer = 0 <=> k = 0)
      <4>1. CASE got[c].etag = 0
        BY <1>0, <3>1, <3>2, <3>4, <4>1 DEF NextVersion, FilesTyped, ChainOK
      <4>2. CASE got[c].etag # 0
        BY <1>0, <3>1, <3>2, <3>4, <4>2 DEF NextVersion, FilesTyped, ChainOK, ClientOK, Holding
      <4> QED
        BY <4>1, <4>2
    <3>6. DOMAIN versions' = 1 .. (k + 1)
      BY <3>1, <3>4, <3>5
    <3>7. FilesTyped'
      BY <1>0, <3>1, <3>3, <3>5 DEF FilesTyped
    <3>8. plain # Nothing \/ pointer # 0
      BY <1>0, <3>2 DEF ClientOK, Holding
    <3>9. ChainOK'
      BY <1>0, <3>1, <3>4, <3>5, <3>6, <3>8 DEF ChainOK
    <3>10. Grows(c)
      BY <3>1, <3>3 DEF Grows
    <3>11. Appends
      <4>1. SUFFICES ASSUME pointer' # 0
                     PROVE  Current' = [etag |-> k + 1, content |-> versions'[k + 1]]
        BY <3>1, <3>5 DEF Appends
      <4>2. Highest' = k + 1
        BY <3>6, <3>4, TopIs DEF Highest
      <4> QED
        BY <4>1, <4>2 DEF Current
    <3> QED
      BY <3>7, <3>9, <3>10, <3>11
  <2> QED
    BY <1>2, <2>1, <2>2 DEF Link
<1>3. CASE Publish(c)
  <2>1. /\ pointer' = NextVersion(c) /\ plain' = Nothing /\ versions' = versions
        /\ NextVersion(c) \in DOMAIN versions
    BY <1>0, <1>3 DEF Publish, ClientOK, Going, Writing, ThreadsTyped
  <2>2. pointer' # 0
    BY <1>0, <2>1 DEF FilesTyped
  <2>3. FilesTyped' /\ ChainOK' /\ Grows(c)
    BY <1>0, <2>1, <2>2 DEF FilesTyped, ChainOK, Grows
  <2>4. CASE pointer # 0
    BY <2>1, <2>3, <2>4, AppendsNothing
  <2>5. CASE pointer = 0
    <3>1. DOMAIN versions' = 1 .. 1 /\ DOMAIN versions' = {1}
      BY <1>0, <2>1, <2>5 DEF ChainOK
    <3>2. Highest' = 1
      BY <3>1, TopIs DEF Highest
    <3>3. Appends
      BY <2>2, <3>1, <3>2 DEF Appends, Current
    <3> QED
      BY <2>3, <3>3
  <2> QED
    BY <2>4, <2>5
<1>4. CASE Create(c)
  <2>1. CASE UNCHANGED plain
    <3>1. UNCHANGED files
      BY <1>4, <2>1 DEF Create, files
    <3> QED
      BY <3>1, FilesKept
  <2>2. CASE ~UNCHANGED plain
    <3>1. /\ PathContent = Nothing /\ plain' = want[c]
          /\ versions' = versions /\ pointer' = pointer
      BY <1>4, <2>2 DEF Create
    <3>2. pointer = 0 /\ plain = Nothing
      BY <1>0, <3>1, NothingIsNotBytes DEF PathContent, FilesTyped
    <3>3. want[c] \in Bytes \union {Nothing} /\ DOMAIN versions = {}
      BY <1>0, <3>2 DEF ThreadsTyped, ChainOK
    <3>4. FilesTyped' /\ ChainOK' /\ Grows(c)
      BY <1>0, <3>1, <3>2, <3>3 DEF FilesTyped, ChainOK, Grows
    <3>5. Appends
      BY <3>1, <3>2 DEF Appends
    <3> QED
      BY <3>4, <3>5
  <2> QED
    BY <2>1, <2>2
<1>5. CASE ~(Repair(c) \/ Link(c) \/ Publish(c) \/ Create(c))
  <2>1. UNCHANGED files
    BY <1>5 DEF Step, GetBytes, CurrentVersion, Replace, Put, Return, Throws, Dies, StartRead,
                ReadVersion, ReadPath, Readlink, Lstat, StartReplace, StartCreate, StartWrite,
                Digest
  <2> QED
    BY <2>1, FilesKept
<1> QED
  BY <1>1, <1>2, <1>3, <1>4, <1>5

------------------------------------------------------------------------------
(* What a step does to the calls. *)

\* A step is of one client.
Same(d) ==
    /\ pc'[d] = pc[d] /\ op'[d] = op[d] /\ scan'[d] = scan[d] /\ got'[d] = got[d]
    /\ want'[d] = want[d] /\ calls'[d] = calls[d] /\ outcome'[d] = outcome[d]

\* A call keeps its types, and touches no other client's.
LEMMA ThreadsStep ==
    ASSUME IInv, NEW c \in Clients, Step(c)
    PROVE  ThreadsTyped' /\ \A d \in Clients \ {c} : Same(d)
<1> USE CallsAssumption, NothingIsNotBytes DEF At, Goto, Same
<1>0. ThreadsTyped /\ FilesTyped /\ ClientOK(c)
  BY DEF IInv, TypeOK, FilesTyped, ThreadsTyped
<1>1. CASE StartRead(c)
  BY <1>0, <1>1 DEF StartRead, ThreadsTyped, Steps
<1>2. CASE StartCreate(c) \/ StartReplace(c)
  <2>1. PICK s \in Steps : StartWrite(c, s)
    BY <1>2 DEF StartCreate, StartReplace, Steps
  <2>2. calls[c] + 1 \in 0 .. MaxCalls
    BY <1>0, <2>1 DEF StartWrite, ThreadsTyped
  <2>3. [by |-> c, n |-> calls[c] + 1] \in Bytes
    BY <2>2 DEF Bytes
  <2> QED
    BY <1>0, <2>1, <2>2, <2>3 DEF StartWrite, ThreadsTyped
<1>3. CASE Return(c)
  <2>1. [etag |-> NextVersion(c), content |-> want[c]] \in Token
    BY <1>0 DEF ThreadsTyped, Token, NextVersion
  <2>2. got' \in [Clients -> Token]
    BY <1>0, <1>3, <2>1 DEF Return, ThreadsTyped
  <2> QED
    BY <1>0, <1>3, <2>2 DEF Return, Leave, ThreadsTyped, Steps
<1>4. CASE Readlink(c)
  <2>1. <<pointer, pointer>> \in Nat \X Nat
    BY <1>0 DEF FilesTyped
  <2>2. scan' \in [Clients -> Nat \X Nat] /\ \A d \in Clients \ {c} : scan'[d] = scan[d]
    BY <1>0, <1>4, <2>1 DEF Readlink, ThreadsTyped
  <2> QED
    BY <1>0, <1>4, <2>2 DEF Readlink, Refuse, ThreadsTyped, Steps
<1>5. CASE Lstat(c)
  <2>1. scan[c] \in Nat \X Nat /\ <<scan[c][1], scan[c][2] + 1>> \in Nat \X Nat
    BY <1>0 DEF ThreadsTyped
  <2>2. scan' \in [Clients -> Nat \X Nat] /\ \A d \in Clients \ {c} : scan'[d] = scan[d]
    BY <1>0, <1>5, <2>1 DEF Lstat, ThreadsTyped
  <2> QED
    BY <1>0, <1>5, <2>2 DEF Lstat, Found, Refuse, ThreadsTyped, Steps
<1>6. CASE Repair(c)
  BY <1>0, <1>6 DEF Repair, Found, Refuse, ThreadsTyped, Steps
<1>7. CASE ReadVersion(c)
  <2>1. [etag |-> scan[c][2], content |-> versions[scan[c][2]]] \in Token
    <3>1. scan[c][2] \in Nat /\ scan[c][2] \in DOMAIN versions
      BY <1>0, <1>7 DEF ReadVersion, ThreadsTyped, ClientOK, Scanning
    <3> QED
      BY <1>0, <3>1 DEF FilesTyped, Token
  <2> QED
    BY <1>0, <1>7, <2>1 DEF ReadVersion, Leave, ThreadsTyped, Steps
<1>8. CASE ReadPath(c)
  <2>1. [etag |-> 0, content |-> PathContent] \in Token
    BY <1>0 DEF PathContent, FilesTyped, Token
  <2> QED
    BY <1>0, <1>8, <2>1 DEF ReadPath, Leave, ThreadsTyped, Steps
<1>9. CASE Digest(c)
  BY <1>0, <1>9 DEF Digest, Refuse, ThreadsTyped, Steps
<1>10. CASE Link(c)
  BY <1>0, <1>10 DEF Link, ThreadsTyped, Steps
<1>11. CASE Publish(c)
  BY <1>0, <1>11 DEF Publish, ThreadsTyped, Steps
<1>12. CASE Create(c)
  BY <1>0, <1>12 DEF Create, Refuse, ThreadsTyped, Steps
<1>13. CASE Throws(c)
  BY <1>0, <1>13 DEF Throws, Leave, ThreadsTyped, Steps
<1>14. CASE Dies(c)
  <2>1. NoHead \in Token
    BY DEF NoHead, Token
  <2> QED
    BY <1>0, <1>14, <2>1 DEF Dies, Leave, ThreadsTyped, Steps
<1> QED
  BY <1>1, <1>2, <1>3, <1>4, <1>5, <1>6, <1>7, <1>8, <1>9, <1>10, <1>11, <1>12, <1>13, <1>14
     DEF Step, GetBytes, CurrentVersion, Replace, Put

\* The types are kept.
LEMMA TypeStep ==
    ASSUME IInv, NEW c \in Clients, Step(c), Remember
    PROVE  TypeOK'
<1>1. FilesTyped' /\ ChainOK'
  BY FilesStep
<1>2. ThreadsTyped'
  BY ThreadsStep
<1>3. seen' \in [Clients -> SUBSET Token]
  BY <1>1, CurrentTyped DEF Remember, IInv, TypeOK
<1> QED
  BY <1>1, <1>2, <1>3 DEF TypeOK, FilesTyped, ThreadsTyped

\* The clients that do not take the step keep their part of the invariant.
LEMMA OthersKept ==
    ASSUME IInv, NEW c \in Clients, Step(c), Remember, NEW d \in Clients \ {c}
    PROVE  ClientOK(d)'
<1>1. FilesTyped /\ ChainOK /\ ThreadsTyped /\ ClientOK(d)
  BY DEF IInv, TypeOK, FilesTyped, ThreadsTyped
<1>2. FilesTyped' /\ ChainOK' /\ Grows(c) /\ Appends
  BY FilesStep
<1>3. Same(d)
  BY ThreadsStep
<1>4. Going(d)'
  BY <1>1, <1>3 DEF Going, Same, ClientOK
<1>5. Holding(d)'
  BY <1>1, <1>2, <1>3 DEF Holding, Same, ClientOK, Grows, ChainOK
<1>6. Scanning(d)'
  BY <1>1, <1>2, <1>3 DEF Scanning, Same, ClientOK, Grows
<1>7. Writing(d)'
  <2>1. NextVersion(d)' = NextVersion(d)
    BY <1>3 DEF NextVersion, Same
  <2> QED
    BY <1>1, <1>2, <1>3, <2>1 DEF Writing, Same, ClientOK, Grows
<1>8. Own(d)'
  <2>1. (op[d] = "write")' => want'[d] = [by |-> d, n |-> calls'[d]]
    BY <1>1, <1>3 DEF Own, Same, ClientOK
  <2>2. SUFFICES ASSUME NEW m \in DOMAIN versions'
                 PROVE  /\ versions'[m].by = d => versions'[m].n <= calls'[d]
                        /\ (op'[d] = "write" /\ versions'[m] = want'[d]) =>
                              (pc'[d] \in {"publish", "return"} /\ outcome'[d] = "replaced")
    BY <2>1 DEF Own
  <2>3. CASE m \in DOMAIN versions
    BY <1>1, <1>2, <1>3, <2>3 DEF Own, Same, ClientOK, Grows
  <2>4. CASE m \notin DOMAIN versions
    <3>1. versions'[m].by = c
      BY <1>2, <2>4 DEF Grows
    <3> QED
      BY <2>1, <3>1
  <2> QED
    BY <2>3, <2>4
<1>9. Seeing(d)'
  <2>1. op'[d] # "read" => seen'[d] = {}
    BY DEF Remember
  <2>2. op'[d] = "read" => seen'[d] = seen[d] \union {Current'}
    BY DEF Remember
  <2>3. ASSUME op'[d] = "read", pc'[d] \in {"repair", "readVersion"}
        PROVE  [etag |-> scan'[d][2], content |-> versions'[scan'[d][2]]] \in seen'[d]
    BY <1>1, <1>2, <1>3, <2>2, <2>3 DEF Seeing, Scanning, Same, ClientOK, Grows
  <2>4. ASSUME op'[d] = "read", pc'[d] = "readPath", pointer' # 0, NEW m \in DOMAIN versions'
        PROVE  [etag |-> m, content |-> versions'[m]] \in seen'[d]
    BY <1>1, <1>2, <1>3, <2>2, <2>4 DEF Seeing, Same, ClientOK, Grows, Appends
  <2> QED
    BY <2>1, <2>2, <2>3, <2>4 DEF Seeing
<1> QED
  BY <1>4, <1>5, <1>6, <1>7, <1>8, <1>9 DEF ClientOK

------------------------------------------------------------------------------
(* The client that takes the step keeps its part, call by call. *)

\* What the lemmas below start from.
LEMMA Before ==
    ASSUME IInv, NEW c \in Clients
    PROVE  /\ FilesTyped /\ ChainOK /\ ThreadsTyped
           /\ Going(c) /\ Holding(c) /\ Scanning(c) /\ Writing(c) /\ Own(c) /\ Seeing(c)
           /\ pc[c] \in Steps /\ op[c] \in {"idle", "read", "write"}
           /\ scan[c] \in Nat \X Nat /\ got[c] \in Token /\ got[c].etag \in Nat
           /\ got[c] = [etag |-> got[c].etag, content |-> got[c].content]
           /\ calls[c] \in 0 .. MaxCalls /\ calls[c] \in Nat
<1>1. FilesTyped /\ ChainOK /\ ThreadsTyped /\ ClientOK(c)
  BY DEF IInv, TypeOK, FilesTyped, ThreadsTyped
<1>2. /\ pc[c] \in Steps /\ op[c] \in {"idle", "read", "write"}
      /\ scan[c] \in Nat \X Nat /\ got[c] \in Token /\ calls[c] \in 0 .. MaxCalls
  BY <1>1 DEF ThreadsTyped
<1>3. /\ got[c].etag \in Nat
      /\ got[c] = [etag |-> got[c].etag, content |-> got[c].content]
  BY <1>2 DEF Token
<1> QED
  BY <1>1, <1>2, <1>3, CallsAssumption DEF ClientOK

\* The operation ends: it is left with what it holds.
LEMMA Left ==
    ASSUME IInv, NEW c \in Clients, Remember, UNCHANGED files, Holding(c)',
           pc'[c] = "idle", op'[c] = "idle", calls'[c] = calls[c]
    PROVE  ClientOK(c)'
<1>1. versions' = versions /\ Own(c)
  BY Before DEF files
<1>2. Going(c)' /\ Scanning(c)' /\ Writing(c)'
  BY DEF Going, Scanning, Writing
<1>3. Own(c)'
  BY <1>1 DEF Own
<1>4. Seeing(c)'
  BY DEF Seeing, Remember
<1> QED
  BY <1>2, <1>3, <1>4 DEF ClientOK

\* What replaceIfMatch hands back is a version there is, and holds the bytes written.
LEMMA ReturnOwn ==
    ASSUME IInv, NEW c \in Clients, Return(c), Remember
    PROVE  ClientOK(c)'
<1>1. /\ pc'[c] = "idle" /\ op'[c] = "idle" /\ calls' = calls /\ UNCHANGED files
      /\ pc[c] = "return" /\ op[c] = "write"
  BY Before DEF Return, Leave, Goto, At, ThreadsTyped, Going
<1>2. Holding(c)'
  <2>1. CASE outcome[c] = "replaced" /\ got[c] # NoHead
    <3>1. got'[c] = [etag |-> NextVersion(c), content |-> want[c]]
      BY <2>1, Before DEF Return, ThreadsTyped
    <3>2. pointer # 0 /\ NextVersion(c) \in DOMAIN versions /\ versions[NextVersion(c)] = want[c]
      BY <1>1, <2>1, Before DEF Writing
    <3>3. got'[c].etag \in Nat \ {0}
      <4>1. got[c].etag \in Nat
        BY Before
      <4> QED
        BY <3>1, <4>1 DEF NextVersion
    <3> QED
      BY <1>1, <3>1, <3>2, <3>3 DEF Holding, files
  <2>2. CASE ~(outcome[c] = "replaced" /\ got[c] # NoHead)
    BY <1>1, <2>2, Before DEF Return, Holding, files
  <2> QED
    BY <2>1, <2>2
<1> QED
  BY <1>1, <1>2, Left

\* A version read is one there is.
LEMMA ReadVersionOwn ==
    ASSUME IInv, NEW c \in Clients, ReadVersion(c), Remember
    PROVE  ClientOK(c)'
<1>1. /\ pc'[c] = "idle" /\ op'[c] = "idle" /\ calls' = calls /\ UNCHANGED files
      /\ pc[c] = "readVersion"
      /\ got'[c] = [etag |-> scan[c][2], content |-> versions[scan[c][2]]]
  BY Before DEF ReadVersion, Leave, Goto, At, ThreadsTyped
<1>2. scan[c][2] \in DOMAIN versions /\ pointer # 0 /\ scan[c][2] \in Nat \ {0}
  BY <1>1, Before DEF Scanning, FilesTyped
<1>3. Holding(c)'
  BY <1>1, <1>2 DEF Holding, files
<1> QED
  BY <1>1, <1>3, Left

\* What is read at the path is the plain file, or comes through a symlink.
LEMMA ReadPathOwn ==
    ASSUME IInv, NEW c \in Clients, ReadPath(c), Remember
    PROVE  ClientOK(c)'
<1>1. /\ pc'[c] = "idle" /\ op'[c] = "idle" /\ calls' = calls /\ UNCHANGED files
      /\ got'[c] = [etag |-> 0, content |-> PathContent]
  BY Before DEF ReadPath, Leave, Goto, At, ThreadsTyped
<1>2. Holding(c)'
  BY <1>1 DEF Holding, files, PathContent
<1> QED
  BY <1>1, <1>2, Left

\* An operation that throws leaves the client what it held.
LEMMA ThrowsOwn ==
    ASSUME IInv, NEW c \in Clients, Throws(c), Remember
    PROVE  ClientOK(c)'
<1>1. pc'[c] = "idle" /\ op'[c] = "idle" /\ calls' = calls /\ got' = got /\ UNCHANGED files
  BY Before DEF Throws, Leave, Goto, ThreadsTyped
<1>2. Holding(c)'
  BY <1>1, Before DEF Holding, files
<1> QED
  BY <1>1, <1>2, Left

\* A process that died left nothing to be wrong about.
LEMMA DiesOwn ==
    ASSUME IInv, NEW c \in Clients, Dies(c), Remember
    PROVE  ClientOK(c)'
<1>1. pc'[c] = "idle" /\ op'[c] = "idle" /\ calls' = calls /\ got'[c] = NoHead /\ UNCHANGED files
  BY Before DEF Dies, Leave, Goto, ThreadsTyped
<1>2. Holding(c)'
  BY <1>1 DEF Holding, NoHead
<1> QED
  BY <1>1, <1>2, Left

\* A read begins with the head there is.
LEMMA StartReadOwn ==
    ASSUME IInv, NEW c \in Clients, StartRead(c), Remember
    PROVE  ClientOK(c)'
<1>1. /\ pc'[c] = "readlink" /\ op'[c] = "read" /\ calls' = calls /\ got' = got
      /\ UNCHANGED files
  BY Before DEF StartRead, Goto, ThreadsTyped
<1>2. Going(c)' /\ Scanning(c)' /\ Writing(c)'
  BY <1>1 DEF Going, Scanning, Writing
<1>3. Holding(c)' /\ Own(c)'
  BY <1>1, Before DEF Holding, Own, files
<1>4. Seeing(c)'
  BY <1>1 DEF Seeing, Remember
<1> QED
  BY <1>2, <1>3, <1>4 DEF ClientOK

\* A write begins with bytes that are in no version.
LEMMA StartWriteOwn ==
    ASSUME IInv, NEW c \in Clients, StartCreate(c) \/ StartReplace(c), Remember
    PROVE  ClientOK(c)'
<1>1. PICK s \in Steps :
        /\ StartWrite(c, s)
        /\ \/ s = "create" /\ got[c] = NoHead
           \/ s = "digest" /\ got[c].etag = 0 /\ got[c].content # Nothing
           \/ s = "readlink" /\ got[c].etag # 0
  BY DEF StartCreate, StartReplace, Steps
<1>2. /\ pc'[c] = s /\ op'[c] = "write" /\ calls'[c] = calls[c] + 1 /\ got' = got
      /\ want'[c] = [by |-> c, n |-> calls[c] + 1] /\ UNCHANGED files
  BY <1>1, Before DEF StartWrite, Goto, ThreadsTyped
<1>3. Going(c)' /\ Scanning(c)'
  BY <1>1, <1>2 DEF Going, Scanning
<1>4. Writing(c)'
  <2>1. got[c].etag \in Nat
    BY Before
  <2> QED
    BY <1>1, <1>2, <2>1 DEF Writing
<1>5. Holding(c)'
  BY <1>2, Before DEF Holding, files
<1>6. Own(c)'
  <2>1. versions' = versions /\ Own(c) /\ calls[c] \in Nat /\ FilesTyped
    BY <1>2, Before DEF files
  <2>2. ASSUME NEW m \in DOMAIN versions
        PROVE  /\ versions[m].by = c => versions[m].n <= calls[c]
               /\ versions[m].n \in Nat
    BY <2>1, <2>2 DEF Own, FilesTyped, Bytes
  <2>3. \A m \in DOMAIN versions : versions[m].by = c => versions[m].n <= calls[c] + 1
    BY <2>1, <2>2
  <2>4. \A m \in DOMAIN versions : versions[m] # [by |-> c, n |-> calls[c] + 1]
    BY <2>1, <2>2
  <2> QED
    BY <1>2, <2>1, <2>3, <2>4 DEF Own
<1>7. Seeing(c)'
  BY <1>2 DEF Seeing, Remember
<1> QED
  BY <1>3, <1>4, <1>5, <1>6, <1>7 DEF ClientOK

\* What an undecided operation keeps when it goes on to its next call.
LEMMA GoesOn ==
    ASSUME IInv, NEW c \in Clients, Remember,
           versions' = versions, plain' = plain, pointer' # 0 <=> pointer # 0,
           op'[c] = op[c], got'[c] = got[c], want'[c] = want[c], calls'[c] = calls[c],
           pc[c] \notin {"publish", "return"}
    PROVE  /\ Holding(c)' /\ Own(c)'
           /\ op[c] # "read" => Seeing(c)'
           /\ NextVersion(c)' = NextVersion(c)
<1>0. Holding(c) /\ Own(c)
  BY Before
<1>1. Holding(c)' /\ Own(c)'
  <2>1. Holding(c)'
    BY <1>0 DEF Holding
  <2>2. Own(c)'
    BY <1>0 DEF Own
  <2> QED
    BY <2>1, <2>2
<1>2. op[c] # "read" => Seeing(c)'
  BY DEF Seeing, Remember
<1> QED
  BY <1>1, <1>2 DEF NextVersion

\* A write refused: there is a head it does not expect.
LEMMA Refused ==
    ASSUME IInv, NEW c \in Clients, Remember,
           versions' = versions, plain' = plain, pointer' # 0 <=> pointer # 0,
           op'[c] = op[c], got'[c] = got[c], want'[c] = want[c], calls'[c] = calls[c],
           pc[c] \notin {"publish", "return"}, op[c] = "write",
           pc'[c] = "return", outcome'[c] = "not-replaced",
           IF got[c] = NoHead THEN plain # Nothing \/ pointer # 0
                              ELSE pointer # 0 /\ NextVersion(c) \in DOMAIN versions
    PROVE  ClientOK(c)'
<1>1. Holding(c)' /\ Own(c)' /\ Seeing(c)' /\ NextVersion(c)' = NextVersion(c)
  BY GoesOn
<1>2. Going(c)' /\ Scanning(c)'
  BY DEF Going, Scanning
<1>3. Writing(c)'
  BY <1>1 DEF Writing
<1> QED
  BY <1>1, <1>2, <1>3 DEF ClientOK

\* Once there is a symlink there always is: a replace against a version finds it.
LEMMA ReadlinkOwn ==
    ASSUME IInv, NEW c \in Clients, Readlink(c), Remember
    PROVE  ClientOK(c)'
<1>1. /\ versions' = versions /\ plain' = plain /\ pointer' = pointer
      /\ op' = op /\ got' = got /\ want' = want /\ calls' = calls
      /\ pc[c] = "readlink" /\ op[c] \in {"read", "write"}
  BY Before DEF Readlink, files, At, Going
<1>2. Holding(c)' /\ Own(c)' /\ (op[c] # "read" => Seeing(c)')
  BY <1>1, GoesOn
<1>3. CASE pointer # 0
  <2>1. pc'[c] = "lstat" /\ scan'[c] = <<pointer, pointer>>
    BY <1>1, <1>3, Before DEF Readlink, Goto, ThreadsTyped
  <2>2. pointer \in DOMAIN versions
    BY <1>3, Before DEF FilesTyped
  <2>3. Going(c)' /\ Scanning(c)' /\ Writing(c)'
    <3>1. Writing(c)
      BY Before
    <3> QED
      BY <1>1, <1>3, <2>1, <2>2, <3>1 DEF Going, Scanning, Writing
  <2>4. op[c] = "read" => Seeing(c)'
    BY <1>1, <2>1 DEF Seeing, Remember
  <2> QED
    BY <1>1, <1>2, <2>3, <2>4 DEF ClientOK
<1>4. CASE pointer = 0 /\ op[c] = "read"
  <2>1. pc'[c] = "readPath"
    BY <1>1, <1>4, Before DEF Readlink, Goto, ThreadsTyped
  <2>2. Going(c)' /\ Scanning(c)' /\ Writing(c)'
    BY <1>1, <1>4, <2>1 DEF Going, Scanning, Writing
  <2>3. Seeing(c)'
    BY <1>1, <1>4, <2>1 DEF Seeing, Remember
  <2> QED
    BY <1>2, <2>2, <2>3 DEF ClientOK
<1>5. CASE pointer = 0 /\ op[c] = "write"
  <2>1. got[c].etag > 0
    BY <1>1, <1>5, Before DEF Writing
  <2> QED
    BY <1>5, <2>1, Before DEF Holding
<1> QED
  BY <1>1, <1>3, <1>4, <1>5

\* Leaving the scan with the version it found.
LEMMA FoundOwn ==
    ASSUME IInv, NEW c \in Clients, Remember, Found(c, scan[c][2]),
           pc[c] \in {"lstat", "repair"}, versions' = versions, plain' = plain, pointer' # 0,
           op' = op, scan' = scan, got' = got, want' = want, calls' = calls,
           op[c] = "write" => scan[c][2] >= got[c].etag,
           op[c] = "read" => [etag |-> scan[c][2], content |-> versions[scan[c][2]]]
                               \in seen[c] \union {Current'}
    PROVE  ClientOK(c)'
<1>1. scan[c][2] \in DOMAIN versions /\ pointer # 0 /\ op[c] \in {"read", "write"}
  BY Before DEF Scanning, Going
<1>2. Holding(c)' /\ Own(c)' /\ (op[c] # "read" => Seeing(c)')
  BY <1>1, GoesOn
<1>3. CASE op[c] = "read"
  <2>1. pc'[c] = "readVersion"
    BY <1>3, Before DEF Found, Goto, ThreadsTyped
  <2>2. Going(c)' /\ Scanning(c)' /\ Writing(c)'
    BY <1>1, <1>3, <2>1 DEF Going, Scanning, Writing
  <2>3. Seeing(c)'
    BY <1>3, <2>1 DEF Seeing, Remember
  <2> QED
    BY <1>2, <2>2, <2>3 DEF ClientOK
<1>4. CASE op[c] = "write" /\ scan[c][2] = got[c].etag
  <2>1. pc'[c] = "link"
    BY <1>4, Before DEF Found, Goto, ThreadsTyped
  <2>2. got[c].etag # 0 /\ got[c].content # Nothing
    <3>1. got[c].etag \in Nat \ {0} /\ versions[got[c].etag] \in Bytes
      BY <1>1, <1>4, Before DEF FilesTyped
    <3>2. Holding(c)
      BY Before
    <3> QED
      BY <3>1, <3>2, NothingIsNotBytes DEF Holding
  <2>3. Going(c)' /\ Scanning(c)' /\ Writing(c)'
    BY <1>4, <2>1, <2>2 DEF Going, Scanning, Writing
  <2> QED
    BY <1>2, <1>4, <2>3 DEF ClientOK
<1>5. CASE op[c] = "write" /\ scan[c][2] # got[c].etag
  <2>1. pc'[c] = "return" /\ outcome'[c] = "not-replaced"
    BY <1>5, Before DEF Found, Refuse, Goto, ThreadsTyped
  <2>2. scan[c][2] \in Nat /\ got[c].etag \in Nat
    BY Before
  <2>3. NextVersion(c) \in 1 .. scan[c][2]
    BY <1>5, <2>2 DEF NextVersion
  <2>4. NextVersion(c) \in DOMAIN versions
    BY <1>1, <2>2, <2>3, Before DEF ChainOK
  <2>5. got[c] # NoHead
    BY <1>5, Before DEF Writing, NoHead
  <2> QED
    BY <1>1, <1>5, <2>1, <2>4, <2>5, Refused
<1> QED
  BY <1>1, <1>3, <1>4, <1>5

\* The version a scan ends at is the head, and no older than the one expected.
LEMMA LstatOwn ==
    ASSUME IInv, NEW c \in Clients, Lstat(c), Remember
    PROVE  ClientOK(c)'
<1>1. /\ versions' = versions /\ plain' = plain /\ pointer' = pointer
      /\ op' = op /\ got' = got /\ want' = want /\ calls' = calls
      /\ pc[c] = "lstat" /\ op[c] \in {"read", "write"}
  BY Before DEF Lstat, files, At, Going
<1>2. scan[c][2] \in DOMAIN versions /\ pointer # 0 /\ scan[c][2] \in Nat /\ got[c].etag \in Nat
  BY <1>1, Before DEF Scanning
<1>3. Holding(c)' /\ Own(c)' /\ (op[c] # "read" => Seeing(c)')
  BY <1>1, GoesOn
<1>4. CASE Exists(scan[c][2] + 1)
  <2>0. pc' = pc /\ scan' = [scan EXCEPT ![c] = <<scan[c][1], scan[c][2] + 1>>]
    BY <1>4 DEF Lstat
  <2>1. pc' = pc /\ scan'[c][2] = scan[c][2] + 1
    BY <2>0, Before DEF ThreadsTyped
  <2>2. Going(c)' /\ Scanning(c)' /\ Writing(c)'
    BY <1>1, <1>2, <1>4, <2>1, Before DEF Going, Scanning, Writing, Exists
  <2>3. op[c] = "read" => Seeing(c)'
    BY <1>1, <2>1 DEF Seeing, Remember
  <2> QED
    BY <1>1, <1>3, <2>2, <2>3 DEF ClientOK
<1>5. CASE ~Exists(scan[c][2] + 1)
  <2>1. PICK k \in Nat : DOMAIN versions = 1 .. k /\ (k # 0 => Highest = k)
    BY Before, HighestIs
  <2>2. scan[c][2] = k /\ k # 0
    BY <1>2, <1>5, <2>1 DEF Exists
  <2>3. Current = [etag |-> scan[c][2], content |-> versions[scan[c][2]]]
    BY <1>2, <2>1, <2>2 DEF Current
  <2>4. op[c] = "read" => [etag |-> scan[c][2], content |-> versions[scan[c][2]]] \in seen[c]
    BY <2>3, Before DEF Seeing
  <2>5. scan[c][2] >= got[c].etag
    <3>1. Holding(c)
      BY Before
    <3> QED
      BY <1>2, <2>1, <2>2, <3>1 DEF Holding
  <2>6. scan' = scan
    BY <1>5 DEF Lstat
  <2>7. CASE scan[c][2] = scan[c][1]
    <3>1. Found(c, scan[c][2])
      BY <1>5, <2>7 DEF Lstat
    <3> QED
      BY <1>1, <1>2, <2>4, <2>5, <2>6, <3>1, FoundOwn
  <2>8. CASE scan[c][2] # scan[c][1]
    <3>1. pc'[c] = "repair"
      BY <1>5, <2>8, Before DEF Lstat, Goto, ThreadsTyped
    <3>2. Going(c)' /\ Scanning(c)' /\ Writing(c)'
      BY <1>1, <1>2, <2>5, <2>6, <3>1, Before DEF Going, Scanning, Writing
    <3>3. op[c] = "read" => Seeing(c)'
      BY <1>1, <2>4, <2>6, <3>1 DEF Seeing, Remember
    <3> QED
      BY <1>1, <1>3, <3>2, <3>3 DEF ClientOK
  <2> QED
    BY <2>7, <2>8
<1> QED
  BY <1>4, <1>5

\* A repaired pointer names a version there is.
LEMMA RepairOwn ==
    ASSUME IInv, NEW c \in Clients, Repair(c), Remember
    PROVE  ClientOK(c)'
<1>1. /\ versions' = versions /\ plain' = plain
      /\ op' = op /\ scan' = scan /\ got' = got /\ want' = want /\ calls' = calls
      /\ pc[c] = "repair" /\ op[c] \in {"read", "write"} /\ Found(c, scan[c][2])
  BY Before DEF Repair, At, Going
<1>2. scan[c][2] \in DOMAIN versions /\ pointer # 0
  BY <1>1, Before DEF Scanning
<1>3. pointer' # 0
  BY <1>2, Before DEF Repair, FilesTyped
<1>4. op[c] = "write" => scan[c][2] >= got[c].etag
  BY <1>1, Before DEF Scanning
<1>5. op[c] = "read" => [etag |-> scan[c][2], content |-> versions[scan[c][2]]] \in seen[c]
  BY <1>1, Before DEF Seeing
<1> QED
  BY <1>1, <1>3, <1>4, <1>5, FoundOwn

\* A digest that no longer matches means somebody published a version.
LEMMA DigestOwn ==
    ASSUME IInv, NEW c \in Clients, Digest(c), Remember
    PROVE  ClientOK(c)'
<1>1. /\ versions' = versions /\ plain' = plain /\ pointer' = pointer
      /\ op' = op /\ got' = got /\ want' = want /\ calls' = calls
      /\ pc[c] = "digest" /\ op[c] = "write"
  BY Before DEF Digest, files, At, Going
<1>2. got[c].etag = 0 /\ got[c].content # Nothing /\ Holding(c)
  BY <1>1, Before DEF Writing
<1>3. Holding(c)' /\ Own(c)' /\ Seeing(c)'
  BY <1>1, GoesOn
<1>4. CASE PathContent = got[c].content
  <2>1. pc'[c] = "link"
    BY <1>4, Before DEF Digest, Goto, ThreadsTyped
  <2>2. Going(c)' /\ Scanning(c)' /\ Writing(c)'
    BY <1>1, <1>2, <2>1 DEF Going, Scanning, Writing
  <2> QED
    BY <1>3, <2>2 DEF ClientOK
<1>5. CASE PathContent # got[c].content
  <2>1. pc'[c] = "return" /\ outcome'[c] = "not-replaced"
    BY <1>5, Before DEF Digest, Refuse, Goto, ThreadsTyped
  <2>2. pointer # 0
    BY <1>2, <1>5 DEF Holding, PathContent
  <2>3. 1 \in DOMAIN versions
    <3>1. PICK k \in Nat : DOMAIN versions = 1 .. k
      BY Before DEF ChainOK
    <3>2. pointer \in 1 .. k
      BY <2>2, <3>1, Before DEF FilesTyped
    <3> QED
      BY <3>1, <3>2
  <2>4. NextVersion(c) = 1 /\ got[c] # NoHead
    BY <1>2 DEF NextVersion, NoHead
  <2> QED
    BY <1>1, <2>1, <2>2, <2>3, <2>4, Refused
<1> QED
  BY <1>4, <1>5

\* The link decides: the bytes in the version are the winner's.
LEMMA LinkOwn ==
    ASSUME IInv, NEW c \in Clients, Link(c), Remember
    PROVE  ClientOK(c)'
<1>1. /\ plain' = plain /\ pointer' = pointer
      /\ op' = op /\ got' = got /\ want' = want /\ calls' = calls
      /\ pc[c] = "link" /\ op[c] = "write" /\ pc'[c] = "publish"
  BY Before DEF Link, At, Going, Goto, ThreadsTyped
<1>2. got[c].content # Nothing /\ Own(c) /\ Holding(c)
  BY <1>1, Before DEF Writing
<1>3. Grows(c)
  BY FilesStep DEF Step, Replace
<1>4. NextVersion(c)' = NextVersion(c)
  BY <1>1 DEF NextVersion
<1>5. Going(c)' /\ Scanning(c)'
  BY <1>1 DEF Going, Scanning
<1>6. Holding(c)'
  BY <1>1, <1>2, <1>3 DEF Holding, Grows
<1>7. Seeing(c)'
  BY <1>1 DEF Seeing, Remember
<1>8. CASE ~Exists(NextVersion(c))
  <2>1. /\ DOMAIN versions' = DOMAIN versions \union {NextVersion(c)}
        /\ versions'[NextVersion(c)] = want[c]
        /\ outcome'[c] = "replaced"
    BY <1>8, Before DEF Link, ThreadsTyped, Exists
  <2>2. Writing(c)'
    BY <1>1, <1>2, <1>4, <2>1 DEF Writing
  <2>3. Own(c)'
    <3>1. ASSUME NEW m \in DOMAIN versions'
          PROVE  versions'[m].by = c => versions'[m].n <= calls'[c]
      <4>1. CASE m \in DOMAIN versions
        BY <1>1, <1>2, <1>3, <4>1 DEF Own, Grows
      <4>2. CASE m = NextVersion(c)
        <5>1. calls[c] \in Nat
          BY Before
        <5> QED
          BY <1>1, <1>2, <2>1, <4>2, <5>1 DEF Own
      <4> QED
        BY <2>1, <4>1, <4>2
    <3> QED
      BY <1>1, <1>2, <2>1, <3>1 DEF Own
  <2> QED
    BY <1>5, <1>6, <1>7, <2>2, <2>3 DEF ClientOK
<1>9. CASE Exists(NextVersion(c))
  <2>1. versions[NextVersion(c)] # want[c] /\ NextVersion(c) \in DOMAIN versions
    BY <1>1, <1>2, <1>9 DEF Own, Exists
  <2>2. outcome'[c] = "not-replaced" /\ versions' = versions
    BY <1>9, <2>1, Before DEF Link, ThreadsTyped
  <2>3. Writing(c)' /\ Own(c)'
    BY <1>1, <1>2, <1>4, <2>1, <2>2 DEF Writing, Own
  <2> QED
    BY <1>5, <1>6, <1>7, <2>3 DEF ClientOK
<1> QED
  BY <1>8, <1>9

\* The version a write publishes was linked, by itself or by whoever won.
LEMMA PublishOwn ==
    ASSUME IInv, NEW c \in Clients, Publish(c), Remember
    PROVE  ClientOK(c)'
<1>1. /\ versions' = versions /\ plain' = Nothing /\ pointer' = NextVersion(c)
      /\ op' = op /\ got' = got /\ want' = want /\ calls' = calls /\ outcome' = outcome
      /\ pc[c] = "publish" /\ op[c] = "write" /\ pc'[c] = "return"
  BY Before DEF Publish, At, Going, Goto, ThreadsTyped
<1>2. /\ NextVersion(c) \in DOMAIN versions /\ pointer' # 0
      /\ NextVersion(c)' = NextVersion(c)
      /\ Own(c) /\ Holding(c) /\ Writing(c)
  BY <1>1, Before DEF Writing, FilesTyped, NextVersion
<1>3. got[c] # NoHead
  BY <1>1, <1>2 DEF Writing, NoHead
<1>4. Going(c)' /\ Scanning(c)'
  BY <1>1 DEF Going, Scanning
<1>5. Holding(c)'
  BY <1>1, <1>2 DEF Holding
<1>6. Writing(c)'
  BY <1>1, <1>2, <1>3 DEF Writing
<1>7. Own(c)'
  BY <1>1, <1>2 DEF Own
<1>8. Seeing(c)'
  BY <1>1 DEF Seeing, Remember
<1> QED
  BY <1>4, <1>5, <1>6, <1>7, <1>8 DEF ClientOK

\* A create finds nothing, or is refused for what it finds.
LEMMA CreateOwn ==
    ASSUME IInv, NEW c \in Clients, Create(c), Remember
    PROVE  ClientOK(c)'
<1>1. /\ versions' = versions /\ pointer' = pointer
      /\ op' = op /\ got' = got /\ want' = want /\ calls' = calls
      /\ pc[c] = "create" /\ op[c] = "write"
  BY Before DEF Create, At, Going
<1>2. got[c] = NoHead /\ Holding(c) /\ Own(c) /\ FilesTyped
  BY <1>1, Before DEF Writing
<1>3. CASE PathContent = Nothing
  <2>1. pointer = 0 /\ plain = Nothing
    BY <1>2, <1>3, NothingIsNotBytes DEF PathContent, FilesTyped
  <2>2. pc'[c] = "return" /\ outcome'[c] = "replaced"
    BY <1>3, Before DEF Create, Goto, ThreadsTyped
  <2>3. Going(c)' /\ Scanning(c)'
    BY <1>1, <2>2 DEF Going, Scanning
  <2>4. Holding(c)'
    BY <1>1, <1>2 DEF Holding, NoHead
  <2>5. Writing(c)'
    BY <1>1, <1>2, <2>2 DEF Writing
  <2>6. Own(c)'
    BY <1>1, <1>2, <2>2 DEF Own
  <2>7. Seeing(c)'
    BY <1>1 DEF Seeing, Remember
  <2> QED
    BY <2>3, <2>4, <2>5, <2>6, <2>7 DEF ClientOK
<1>4. CASE PathContent # Nothing
  <2>1. pc'[c] = "return" /\ outcome'[c] = "not-replaced" /\ plain' = plain
    BY <1>4, Before DEF Create, Refuse, Goto, ThreadsTyped
  <2>2. plain # Nothing \/ pointer # 0
    BY <1>4 DEF PathContent
  <2> QED
    BY <1>1, <1>2, <2>1, <2>2, Refused
<1> QED
  BY <1>3, <1>4

------------------------------------------------------------------------------
(* The invariant holds. *)

\* The invariant holds at first,
LEMMA InitIInv == Init => IInv
<1> SUFFICES ASSUME Init
             PROVE  IInv
  OBVIOUS
<1>1. PICK start \in Starts :
        /\ plain    = IF start = "plain" THEN Original ELSE Nothing
        /\ pointer  = IF start = "chain" THEN 1 ELSE 0
        /\ versions = [n \in (IF start = "chain" THEN {1} ELSE {}) |-> Original]
  BY DEF Init
<1>2. Original \in Bytes /\ NoHead \in Token /\ 0 \in 0 .. MaxCalls
  BY CallsAssumption DEF Original, Bytes, NoHead, Token
<1>3. FilesTyped
  BY <1>1, <1>2 DEF FilesTyped
<1>4. ThreadsTyped
  BY <1>2 DEF Init, ThreadsTyped, Steps
<1>5. TypeOK
  BY <1>3, <1>4 DEF Init, TypeOK, FilesTyped, ThreadsTyped
<1>6. ChainOK
  <2>1. CASE start = "chain"
    <3>1. DOMAIN versions = 1 .. 1
      BY <1>1, <2>1
    <3> QED
      BY <1>1, <2>1, <3>1 DEF ChainOK
  <2>2. CASE start # "chain"
    <3>1. DOMAIN versions = 1 .. 0
      BY <1>1, <2>2
    <3> QED
      BY <1>1, <2>2, <3>1 DEF ChainOK
  <2> QED
    BY <2>1, <2>2
<1>7. ASSUME NEW c \in Clients
      PROVE  ClientOK(c)
  <2>1. /\ pc[c] = "idle" /\ op[c] = "idle" /\ got[c] = NoHead /\ calls[c] = 0 /\ seen[c] = {}
    BY DEF Init
  <2>2. Going(c) /\ Holding(c) /\ Scanning(c) /\ Writing(c) /\ Seeing(c)
    BY <2>1 DEF Going, Holding, Scanning, Writing, Seeing, NoHead
  <2>3. Own(c)
    BY <1>1, <2>1, OriginAssumption DEF Own, Original
  <2> QED
    BY <2>2, <2>3 DEF ClientOK
<1> QED
  BY <1>5, <1>6, <1>7 DEF IInv

\* and every step keeps it.
LEMMA IInvStep == IInv /\ [Next]_vars => IInv'
<1> SUFFICES ASSUME IInv, [Next]_vars
             PROVE  IInv'
  OBVIOUS
<1>1. CASE UNCHANGED vars
  <2>1. /\ plain' = plain /\ pointer' = pointer /\ versions' = versions /\ pc' = pc /\ op' = op
        /\ scan' = scan /\ got' = got /\ want' = want /\ calls' = calls /\ outcome' = outcome
        /\ told' = told /\ seen' = seen
    BY <1>1 DEF vars, files, threads
  <2>2. TypeOK' /\ ChainOK'
    BY <2>1 DEF IInv, TypeOK, ChainOK
  <2>3. ASSUME NEW d \in Clients
        PROVE  ClientOK(d)'
    <3>1. Current' = Current /\ NextVersion(d)' = NextVersion(d) /\ ClientOK(d)
      BY <2>1 DEF Current, Highest, NextVersion, IInv
    <3>2. Going(d)' /\ Holding(d)' /\ Scanning(d)' /\ Own(d)'
      BY <2>1, <3>1 DEF ClientOK, Going, Holding, Scanning, Own
    <3>3. Writing(d)' /\ Seeing(d)'
      BY <2>1, <3>1 DEF ClientOK, Writing, Seeing
    <3> QED
      BY <3>2, <3>3 DEF ClientOK
  <2> QED
    BY <2>2, <2>3 DEF IInv
<1>2. CASE Next
  <2>1. PICK c \in Clients : Step(c) /\ Remember
    BY <1>2 DEF Next
  <2>2. TypeOK' /\ ChainOK'
    BY <2>1, TypeStep, FilesStep
  <2>3. \A d \in Clients \ {c} : ClientOK(d)'
    BY <2>1, OthersKept
  <2>4. ClientOK(c)'
    BY <2>1, StartReadOwn, ReadVersionOwn, ReadPathOwn, ReadlinkOwn, LstatOwn, RepairOwn,
       StartWriteOwn, DigestOwn, LinkOwn, PublishOwn, CreateOwn, ReturnOwn, ThrowsOwn, DiesOwn
       DEF Step, GetBytes, CurrentVersion, Replace, Put
  <2> QED
    BY <2>2, <2>3, <2>4 DEF IInv
<1> QED
  BY <1>1, <1>2

\* The directory and the calls keep their types.
THEOREM TypeCorrect == Spec => []TypeOK
<1>1. Init => IInv
  BY InitIInv
<1>2. IInv /\ [Next]_vars => IInv'
  BY IInvStep
<1>3. IInv => TypeOK
  BY DEF IInv
<1> QED
  BY <1>1, <1>2, <1>3, PTL DEF Spec

------------------------------------------------------------------------------
(* The refinement: what each step is to the register. *)

\* The pending writes are the unnamed one, the other clients' and c's own.
Live(c) == {Wanted(d) : d \in {e \in Clients \ {c} : op[e] = "write" /\ ~Landed(e)}}

Mine(c) == IF op[c] = "write" /\ ~Landed(c) THEN {Wanted(c)} ELSE {}

\* They are nothing else, before a step and after it.
LEMMA PendingParts ==
    ASSUME NEW c \in Clients
    PROVE  /\ Pending = Unnamed \union Live(c) \union Mine(c)
           /\ Pending' = Unnamed' \union Live(c)' \union Mine(c)'
BY DEF Pending, Live, Mine

\* Unless the step turns head.json into a symlink, the others' stay as they are.
LEMMA LiveKept ==
    ASSUME IInv, NEW c \in Clients, Step(c), pointer' # 0 <=> pointer # 0
    PROVE  Live(c)' = Live(c)
<1>1. ASSUME NEW d \in Clients \ {c}
      PROVE  /\ Wanted(d)' = Wanted(d)
             /\ (op[d] = "write" /\ ~Landed(d))' <=> (op[d] = "write" /\ ~Landed(d))
  <2>1. Same(d)
    BY ThreadsStep
  <2> QED
    BY <2>1 DEF Same, Wanted, Landed, NextVersion
<1> QED
  BY <1>1 DEF Live

\* No two writes are alike.
LEMMA Apart ==
    ASSUME IInv, NEW c \in Clients, op[c] = "write"
    PROVE  Wanted(c) \notin Live(c)
<1>0. ASSUME NEW d \in Clients, op[d] = "write"
      PROVE  want[d].by = d
  <2>1. Own(d)
    BY Before
  <2>2. want[d] = [by |-> d, n |-> calls[d]]
    BY <1>0, <2>1 DEF Own
  <2> QED
    BY <2>2
<1>1. want[c].by = c
  BY <1>0
<1>2. ASSUME NEW d \in Clients \ {c}, op[d] = "write"
      PROVE  Wanted(d) # Wanted(c)
  <2>1. want[d].by = d
    BY <1>0, <1>2
  <2> QED
    BY <1>1, <2>1 DEF Wanted
<1> QED
  BY <1>2 DEF Live

\* An undecided write, or one refused, is not what is linked unnamed.
LEMMA NotUnnamed ==
    ASSUME IInv, NEW c \in Clients, op[c] = "write", Wanted(c) \in Unnamed
    PROVE  /\ pc[c] \in {"publish", "return"} /\ outcome[c] = "replaced"
           /\ got[c] # NoHead /\ pointer = 0 /\ 1 \in DOMAIN versions
<1>1. /\ pointer = 0 /\ 1 \in DOMAIN versions
      /\ got[c] = [etag |-> 0, content |-> plain] /\ want[c] = versions[1]
  BY DEF Unnamed, Exists, Wanted
<1>2. pc[c] \in {"publish", "return"} /\ outcome[c] = "replaced"
  BY <1>1, Before DEF Own
<1>3. plain # Nothing
  BY <1>1, Before DEF ChainOK
<1> QED
  BY <1>1, <1>2, <1>3 DEF NoHead

\* Where the head stays, so do the others' reads.
LEMMA SeenKept ==
    ASSUME IInv, NEW c \in Clients, Step(c), Remember, Current' = Current
    PROVE  /\ \A d \in Clients \ {c} : seen'[d] = seen[d]
           /\ seen' = [seen EXCEPT ![c] = seen'[c]]
           /\ op'[c] = op[c] => seen' = seen
<1>1. ASSUME NEW d \in Clients, op'[d] = op[d]
      PROVE  seen'[d] = seen[d]
  <2>1. op[d] = "read" => Current \in seen[d]
    BY Before DEF Seeing
  <2>2. op[d] # "read" => seen[d] = {}
    BY Before DEF Seeing
  <2> QED
    BY <1>1, <2>1, <2>2 DEF Remember
<1>2. \A d \in Clients \ {c} : seen'[d] = seen[d]
  BY <1>1, ThreadsStep DEF Same
<1>3. seen' = [d \in Clients |-> seen'[d]] /\ seen = [d \in Clients |-> seen[d]]
  BY DEF Remember, IInv, TypeOK
<1> QED
  BY <1>1, <1>2, <1>3

\* The directory as it was: so is the head, and what is linked unnamed.
LEMMA DirectoryKept ==
    ASSUME UNCHANGED files
    PROVE  Current' = Current /\ Unnamed' = Unnamed
BY DEF files, Current, Highest, Unnamed, Exists

\* A step within an operation that the register does not see.
LEMMA Stutters ==
    ASSUME IInv, NEW c \in Clients, Step(c), Remember,
           Current' = Current, Unnamed' = Unnamed, pointer' # 0 <=> pointer # 0,
           op' = op, want' = want, got' = got, told' = told, Landed(c)' = Landed(c)
    PROVE  UNCHANGED Register!vars
<1>1. Live(c)' = Live(c)
  BY LiveKept
<1>2. Mine(c)' = Mine(c)
  BY DEF Mine, Wanted
<1>3. Pending' = Pending
  BY <1>1, <1>2, PendingParts
<1>4. seen' = seen
  BY SeenKept
<1> QED
  BY <1>3, <1>4 DEF Register!vars

\* The register's names for what has the same definition here.
LEMMA SameTerms ==
    /\ Register!NoHead = NoHead
    /\ \A c : Register!Wanted(c) = Wanted(c)
    /\ Register!Token = Token
BY DEF Register!NoHead, NoHead, Register!Wanted, Wanted, Register!Token, Token

\* getBytesWithEtag begins.
LEMMA StartReadMaps ==
    ASSUME IInv, NEW c \in Clients, StartRead(c), Remember
    PROVE  Register!Read(c)
<1>1. /\ UNCHANGED files /\ pc[c] = "idle" /\ want' = want /\ got' = got /\ told' = told
      /\ op' = [op EXCEPT ![c] = "read"] /\ op'[c] = "read" /\ op[c] = "idle"
  BY Before DEF StartRead, At, ThreadsTyped, Going
<1>2. Step(c)
  BY DEF Step, GetBytes
<1>3. Current' = Current /\ Unnamed' = Unnamed /\ pointer' = pointer
  BY <1>1, DirectoryKept DEF files
<1>4. Pending' = Pending
  <2>1. Mine(c)' = Mine(c)
    BY <1>1 DEF Mine
  <2> QED
    BY <1>2, <1>3, <2>1, LiveKept, PendingParts
<1>5. seen' = [seen EXCEPT ![c] = {Current}]
  <2>1. seen'[c] = {Current}
    <3>1. seen[c] = {}
      BY <1>1, Before DEF Seeing
    <3> QED
      BY <1>1, <1>3, <3>1 DEF Remember
  <2> QED
    BY <1>2, <1>3, <2>1, SeenKept
<1> QED
  BY <1>1, <1>3, <1>4, <1>5 DEF Register!Read

\* putBytesIfAbsent or replaceIfMatch begins: one more write is pending.
LEMMA StartWriteMaps ==
    ASSUME IInv, NEW c \in Clients, StartCreate(c) \/ StartReplace(c), Remember
    PROVE  Register!Write(c)
<1>1. PICK s \in Steps : StartWrite(c, s) /\ s \notin {"publish", "return"}
  BY DEF StartCreate, StartReplace, Steps
<1>2. /\ UNCHANGED files /\ pc[c] = "idle" /\ got' = got /\ told' = told
      /\ op' = [op EXCEPT ![c] = "write"] /\ op'[c] = "write" /\ op[c] = "idle"
      /\ want' = [want EXCEPT ![c] = want'[c]] /\ pc'[c] = s
      /\ want'[c] = [by |-> c, n |-> calls[c] + 1] /\ calls[c] + 1 \in 0 .. MaxCalls
  <2>1. calls[c] < MaxCalls /\ calls[c] \in 0 .. MaxCalls
    BY <1>1, Before DEF StartWrite
  <2>2. calls[c] + 1 \in 0 .. MaxCalls
    BY <2>1, CallsAssumption
  <2> QED
    BY <1>1, <2>2, Before DEF StartWrite, At, Goto, ThreadsTyped, Going
<1>3. Step(c)
  BY DEF Step, Replace, Put
<1>4. Current' = Current /\ Unnamed' = Unnamed /\ pointer' = pointer
  BY <1>2, DirectoryKept DEF files
<1>5. want'[c] \in Bytes
  BY <1>2 DEF Bytes
<1>6. Pending' = Pending \union {[expect |-> got[c], bytes |-> want'[c]]}
  <2>1. Mine(c) = {}
    BY <1>2 DEF Mine
  <2>2. Mine(c)' = {[expect |-> got[c], bytes |-> want'[c]]}
    BY <1>1, <1>2 DEF Mine, Landed, Wanted
  <2> QED
    BY <1>3, <1>4, <2>1, <2>2, LiveKept, PendingParts
<1>7. seen' = seen
  <2>1. seen'[c] = {} /\ seen[c] = {} /\ seen = [d \in Clients |-> seen[d]]
    BY <1>2, Before DEF Seeing, Remember, IInv, TypeOK
  <2> QED
    BY <1>3, <1>4, <2>1, SeenKept
<1> QED
  BY <1>2, <1>4, <1>5, <1>6, <1>7 DEF Register!Write

\* An operation that ends, seen from the rest of the register.
LEMMA Leaves ==
    ASSUME IInv, NEW c \in Clients, Step(c), Remember, UNCHANGED files, Leave(c), want' = want
    PROVE  /\ Current' = Current /\ Unnamed' = Unnamed
           /\ op' = [op EXCEPT ![c] = "idle"] /\ seen' = [seen EXCEPT ![c] = {}]
           /\ Pending' = Unnamed \union Live(c)
           /\ op[c] # "write" => Pending' = Pending
           /\ (op[c] = "write" /\ Landed(c)) => (Pending' = Pending /\ Wanted(c) \notin Live(c))
           /\ (op[c] = "write" /\ ~Landed(c)) =>
                 /\ Wanted(c) \in Pending
                 /\ Wanted(c) \notin Unnamed => Pending' = Pending \ {Wanted(c)}
                 /\ Wanted(c) \in Unnamed => Pending' = Pending
<1>1. Current' = Current /\ Unnamed' = Unnamed /\ pointer' = pointer
  BY DirectoryKept DEF files
<1>2. op' = [op EXCEPT ![c] = "idle"] /\ op'[c] = "idle"
  BY Before DEF Leave, ThreadsTyped
<1>3. seen'[c] = {}
  BY <1>2 DEF Remember
<1>4. seen' = [seen EXCEPT ![c] = {}]
  BY <1>1, <1>3, SeenKept
<1>5. Live(c)' = Live(c) /\ Mine(c)' = {}
  BY <1>1, <1>2, LiveKept DEF Mine
<1>6. Pending' = Unnamed \union Live(c) /\ Pending = Unnamed \union Live(c) \union Mine(c)
  BY <1>1, <1>5, PendingParts
<1>7. op[c] # "write" => Pending' = Pending
  BY <1>6 DEF Mine
<1>8. (op[c] = "write" /\ Landed(c)) => (Pending' = Pending /\ Wanted(c) \notin Live(c))
  BY <1>6, Apart DEF Mine
<1>9. ASSUME op[c] = "write", ~Landed(c)
      PROVE  /\ Wanted(c) \in Pending
             /\ Wanted(c) \notin Unnamed => Pending' = Pending \ {Wanted(c)}
             /\ Wanted(c) \in Unnamed => Pending' = Pending
  <2>1. Mine(c) = {Wanted(c)} /\ Wanted(c) \notin Live(c)
    BY <1>9, Apart DEF Mine
  <2> QED
    BY <1>6, <2>1
<1> QED
  BY <1>1, <1>2, <1>4, <1>6, <1>7, <1>8, <1>9

\* A read returns a version that was the head while it read, with its ETag.
LEMMA ReadVersionMaps ==
    ASSUME IInv, NEW c \in Clients, ReadVersion(c), Remember
    PROVE  Register!ReadReturns(c)
<1>1. Step(c)
  BY DEF Step, GetBytes
<1>2. /\ UNCHANGED files /\ Leave(c) /\ want' = want /\ told' = told /\ pc[c] = "readVersion"
      /\ got' = [got EXCEPT ![c] = [etag |-> scan[c][2], content |-> versions[scan[c][2]]]]
  BY DEF ReadVersion, At
<1>3. op[c] = "read"
  BY <1>2, Before DEF Going
<1>4. [etag |-> scan[c][2], content |-> versions[scan[c][2]]] \in seen[c]
  BY <1>2, <1>3, Before DEF Seeing
<1>5. /\ Current' = Current /\ Pending' = Pending
      /\ op' = [op EXCEPT ![c] = "idle"] /\ seen' = [seen EXCEPT ![c] = {}]
  BY <1>1, <1>2, <1>3, Leaves
<1> QED
  BY <1>2, <1>3, <1>4, <1>5 DEF Register!ReadReturns

\* A read that saw no symlink returns a head there was, though perhaps with a digest
\* for an ETag when a version number was due.
LEMMA ReadPathMaps ==
    ASSUME IInv, NEW c \in Clients, ReadPath(c), Remember
    PROVE  Register!ReadReturns(c)
<1>1. Step(c)
  BY DEF Step, GetBytes
<1>2. /\ UNCHANGED files /\ Leave(c) /\ want' = want /\ told' = told /\ pc[c] = "readPath"
      /\ got' = [got EXCEPT ![c] = [etag |-> 0, content |-> PathContent]]
  BY DEF ReadPath, At
<1>3. op[c] = "read"
  BY <1>2, Before DEF Going
<1>4. PICK t \in seen[c] : Register!Useless(t) = [etag |-> 0, content |-> PathContent]
  <2>1. CASE pointer = 0
    <3>1. Current = [etag |-> 0, content |-> PathContent] /\ Current \in seen[c]
      BY <1>3, <2>1, Before DEF Current, PathContent, Seeing
    <3>2. Register!Useless(Current) = [etag |-> 0, content |-> PathContent]
      BY <3>1 DEF Register!Useless
    <3> QED
      BY <3>1, <3>2
  <2>2. CASE pointer # 0
    <3>1. pointer \in DOMAIN versions /\ PathContent = versions[pointer]
      BY <2>2, Before DEF FilesTyped, PathContent
    <3>2. [etag |-> pointer, content |-> versions[pointer]] \in seen[c]
      BY <1>2, <1>3, <2>2, <3>1, Before DEF Seeing
    <3>3. Register!Useless([etag |-> pointer, content |-> versions[pointer]])
            = [etag |-> 0, content |-> PathContent]
      BY <3>1 DEF Register!Useless
    <3> QED
      BY <3>2, <3>3
  <2> QED
    BY <2>1, <2>2
<1>5. /\ Current' = Current /\ Pending' = Pending
      /\ op' = [op EXCEPT ![c] = "idle"] /\ seen' = [seen EXCEPT ![c] = {}]
  BY <1>1, <1>2, <1>3, Leaves
<1>6. got' = [got EXCEPT ![c] = Register!Useless(t)]
  BY <1>2, <1>4
<1> QED
  BY <1>2, <1>3, <1>4, <1>5, <1>6 DEF Register!ReadReturns

\* A write says it replaced the head only if it did, and that it did not only if it
\* never will.
LEMMA ReturnMaps ==
    ASSUME IInv, NEW c \in Clients, Return(c), Remember
    PROVE  Register!Replaced(c) \/ Register!Refused(c)
<1>1. Step(c)
  BY DEF Step
<1>2. /\ UNCHANGED files /\ Leave(c) /\ want' = want /\ pc[c] = "return"
      /\ told' = [told EXCEPT ![c] = outcome[c]]
  BY DEF Return, At
<1>3. op[c] = "write" /\ outcome[c] \in {"replaced", "not-replaced"} /\ Writing(c)
  BY <1>2, Before DEF Going, Writing, ThreadsTyped
<1>4. /\ Current' = Current /\ op' = [op EXCEPT ![c] = "idle"]
      /\ seen' = [seen EXCEPT ![c] = {}]
  BY <1>1, <1>2, Leaves
<1>5. seen' = seen
  <2>1. seen[c] = {} /\ seen = [d \in Clients |-> seen[d]]
    BY <1>3, Before DEF Seeing, IInv, TypeOK
  <2> QED
    BY <1>4, <2>1
<1>6. CASE outcome[c] = "replaced"
  <2>1. got[c] = NoHead \/ pointer # 0
    BY <1>2, <1>3 DEF Writing
  <2>2. Landed(c)
    BY <1>2, <1>6, <2>1 DEF Landed
  <2>3. Wanted(c) \notin Unnamed
    BY <1>3, <2>1, NotUnnamed
  <2>4. Pending' = Pending /\ Wanted(c) \notin Pending
    <3>1. /\ Pending' = Unnamed \union Live(c) /\ Pending' = Pending
          /\ Wanted(c) \notin Live(c)
      BY <1>1, <1>2, <1>3, <2>2, Leaves
    <3> QED
      BY <2>3, <3>1
  <2>5. got' = IF got[c] = Register!NoHead THEN got
               ELSE [got EXCEPT ![c] = Register!Written(Register!Wanted(c))]
    <3>1. CASE got[c] = NoHead
      BY <3>1, SameTerms DEF Return
    <3>2. CASE got[c] # NoHead
      <4>1. Register!Written(Wanted(c)) = [etag |-> NextVersion(c), content |-> want[c]]
        BY <3>2, SameTerms DEF Register!Written, Wanted, NextVersion
      <4>2. got' = [got EXCEPT ![c] = [etag |-> NextVersion(c), content |-> want[c]]]
        BY <1>6, <3>2 DEF Return
      <4> QED
        BY <3>2, <4>1, <4>2, SameTerms
    <3> QED
      BY <3>1, <3>2
  <2>6. Register!Done(c, "replaced")
    BY <1>2, <1>3, <1>4, <1>5, <1>6 DEF Register!Done
  <2> QED
    BY <2>4, <2>5, <2>6, SameTerms DEF Register!Replaced
<1>7. CASE outcome[c] = "not-replaced"
  <2>1. ~Landed(c)
    BY <1>7 DEF Landed
  <2>2. Wanted(c) \notin Unnamed
    BY <1>3, <1>7, NotUnnamed
  <2>3. Wanted(c) \in Pending /\ Pending' = Pending \ {Wanted(c)}
    BY <1>1, <1>2, <1>3, <2>1, <2>2, Leaves
  <2>4. Current # got[c]
    <3>1. CASE got[c] = NoHead
      <4>1. plain # Nothing \/ pointer # 0
        BY <1>2, <1>3, <1>7, <3>1 DEF Writing
      <4>2. pointer # 0 => Current.content \in Bytes
        <5>1. PICK k \in Nat : DOMAIN versions = 1 .. k /\ (k # 0 => Highest = k)
          BY Before, HighestIs
        <5>2. FilesTyped
          BY Before
        <5>3. pointer # 0 => Highest \in DOMAIN versions
          BY <5>1, <5>2 DEF FilesTyped
        <5> QED
          BY <5>2, <5>3 DEF Current, FilesTyped
      <4> QED
        BY <3>1, <4>1, <4>2, NothingIsNotBytes DEF Current, NoHead
    <3>2. CASE got[c] # NoHead
      <4>1. pointer # 0 /\ NextVersion(c) \in DOMAIN versions /\ got[c].etag \in Nat
        BY <1>2, <1>3, <1>7, <3>2, Before DEF Writing
      <4>2. PICK k \in Nat : DOMAIN versions = 1 .. k /\ (k # 0 => Highest = k)
        BY Before, HighestIs
      <4>3. Highest > got[c].etag
        BY <4>1, <4>2 DEF NextVersion
      <4> QED
        BY <4>1, <4>2, <4>3 DEF Current
    <3> QED
      BY <3>1, <3>2
  <2>5. got' = got
    BY <1>7 DEF Return
  <2>6. Register!Done(c, "not-replaced")
    BY <1>2, <1>3, <1>4, <1>5, <1>7 DEF Register!Done
  <2> QED
    BY <2>3, <2>4, <2>5, <2>6, SameTerms DEF Register!Refused
<1> QED
  BY <1>3, <1>6, <1>7

\* A write that throws may have taken effect, may still, or may never.
LEMMA ThrowsMaps ==
    ASSUME IInv, NEW c \in Clients, Throws(c), Remember
    PROVE  Register!Throws(c)
<1>1. Step(c)
  BY DEF Step
<1>2. /\ UNCHANGED files /\ Leave(c) /\ want' = want /\ got' = got /\ op[c] # "idle"
      /\ told' = [told EXCEPT ![c] = "error"]
  BY Before DEF Throws, At, Going
<1>3. /\ Current' = Current /\ op' = [op EXCEPT ![c] = "idle"]
      /\ seen' = [seen EXCEPT ![c] = {}] /\ Pending' \in {Pending, Pending \ {Wanted(c)}}
  BY <1>1, <1>2, Leaves
<1> QED
  BY <1>2, <1>3, SameTerms DEF Register!Throws, Register!Abandoned

\* So may the write of a process that dies.
LEMMA DiesMaps ==
    ASSUME IInv, NEW c \in Clients, Dies(c), Remember
    PROVE  Register!Dies(c)
<1>1. Step(c)
  BY DEF Step
<1>2. /\ UNCHANGED files /\ Leave(c) /\ want' = want /\ op[c] # "idle"
      /\ got' = [got EXCEPT ![c] = NoHead] /\ told' = [told EXCEPT ![c] = "none"]
  BY Before DEF Dies, At, Going
<1>3. /\ Current' = Current /\ op' = [op EXCEPT ![c] = "idle"]
      /\ seen' = [seen EXCEPT ![c] = {}] /\ Pending' \in {Pending, Pending \ {Wanted(c)}}
  BY <1>1, <1>2, Leaves
<1> QED
  BY <1>2, <1>3, SameTerms DEF Register!Dies, Register!Abandoned

\* The steps that decide nothing, and the ones that refuse.
LEMMA ScanStutters ==
    ASSUME IInv, NEW c \in Clients, Remember,
           Readlink(c) \/ Lstat(c) \/ Repair(c) \/ Digest(c)
    PROVE  UNCHANGED Register!vars
<1>1. Step(c)
  BY DEF Step, CurrentVersion, Replace
<1>2. /\ op' = op /\ want' = want /\ got' = got /\ told' = told
      /\ pc[c] \in {"readlink", "lstat", "repair", "digest"}
  BY DEF Readlink, Lstat, Repair, Digest, At
<1>3. Current' = Current /\ Unnamed' = Unnamed /\ (pointer' # 0 <=> pointer # 0)
  <2>1. CASE Repair(c)
    <3>1. plain' = plain /\ versions' = versions /\ pointer # 0 /\ pointer' # 0
      BY <1>2, <2>1, Before DEF Repair, At, Scanning, FilesTyped
    <3> QED
      BY <3>1 DEF Current, Highest, Unnamed
  <2>2. CASE Readlink(c) \/ Lstat(c) \/ Digest(c)
    <3>1. UNCHANGED files
      BY <2>2 DEF Readlink, Lstat, Digest
    <3> QED
      BY <3>1, DirectoryKept DEF files
  <2> QED
    BY <2>1, <2>2
<1>4. Landed(c)' = Landed(c)
  <2>1. ~Landed(c)
    BY <1>2 DEF Landed
  <2>2. pc'[c] \notin {"publish", "return"} \/ outcome'[c] = "not-replaced"
    BY <1>2, Before DEF Readlink, Lstat, Repair, Digest, Found, Refuse, Goto, ThreadsTyped
  <2> QED
    BY <2>1, <2>2 DEF Landed
<1> QED
  BY <1>1, <1>2, <1>3, <1>4, Stutters

\* What a step to a new head needs to be the register's compare-and-swap.
LEMMA Takes ==
    ASSUME IInv, NEW c \in Clients, Remember, NEW w \in Pending,
           op' = op, want' = want, got' = got, told' = told,
           w.expect = Current, Current' = Register!Written(w), Pending' = Pending \ {w}
    PROVE  Register!TakesEffect
<1>1. seen' = [d \in Clients |->
                 IF op[d] = "read" THEN seen[d] \union {Current'} ELSE seen[d]]
  <2>1. \A d \in Clients : op[d] # "read" => seen[d] = {}
    BY Before DEF Seeing
  <2> QED
    BY <2>1 DEF Remember
<1> QED
  BY <1>1 DEF Register!TakesEffect

\* The link to the next version is the compare-and-swap, once head.json is a symlink.
LEMMA LinkMaps ==
    ASSUME IInv, NEW c \in Clients, Link(c), Remember
    PROVE  Register!TakesEffect \/ UNCHANGED Register!vars
<1>1. Step(c)
  BY DEF Step, Replace
<1>2. /\ op' = op /\ want' = want /\ got' = got /\ told' = told
      /\ plain' = plain /\ pointer' = pointer
      /\ pc[c] = "link" /\ op[c] = "write" /\ pc'[c] = "publish"
  BY Before DEF Link, At, Going, Goto, ThreadsTyped
<1>3. /\ got[c].content # Nothing /\ Own(c) /\ Holding(c) /\ FilesTyped
      /\ got[c].etag \in Nat /\ got[c] = [etag |-> got[c].etag, content |-> got[c].content]
  BY <1>2, Before DEF Writing
<1>4. ~Landed(c) /\ Mine(c) = {Wanted(c)} /\ Live(c)' = Live(c)
  BY <1>1, <1>2, LiveKept DEF Landed, Mine
<1>5. PICK k \in Nat : DOMAIN versions = 1 .. k /\ (k # 0 => Highest = k)
  BY Before, HighestIs
<1>6. Pending = Unnamed \union Live(c) \union {Wanted(c)} /\ Wanted(c) \notin Live(c)
  BY <1>2, <1>4, PendingParts, Apart
<1>7. CASE Exists(NextVersion(c))
  <2>1. versions[NextVersion(c)] # want[c]
    BY <1>2, <1>3, <1>7 DEF Own, Exists
  <2>2. outcome'[c] = "not-replaced" /\ versions' = versions
    BY <1>7, <2>1, Before DEF Link, ThreadsTyped
  <2>3. Current' = Current /\ Unnamed' = Unnamed /\ Landed(c)' = Landed(c)
    BY <1>2, <1>4, <2>2 DEF Current, Highest, Unnamed, Exists, Landed
  <2> QED
    BY <1>1, <1>2, <2>3, Stutters
<1>8. CASE ~Exists(NextVersion(c)) /\ got[c].etag = 0
  <2>1. NextVersion(c) = 1 /\ k = 0 /\ pointer = 0 /\ DOMAIN versions = {}
    BY <1>3, <1>5, <1>8 DEF NextVersion, Exists, FilesTyped
  <2>2. got[c] = [etag |-> 0, content |-> plain]
    BY <1>3, <1>8, <2>1 DEF Holding
  <2>3. 1 \in DOMAIN versions' /\ versions'[1] = want[c]
    BY <1>8, <2>1 DEF Link
  <2>4. Unnamed = {} /\ Unnamed' = {Wanted(c)}
    BY <1>2, <2>1, <2>2, <2>3 DEF Unnamed, Exists, Wanted
  <2>5. Current' = Current
    BY <1>2, <2>1 DEF Current
  <2>6. Pending' = Pending
    <3>1. Mine(c)' \subseteq {Wanted(c)}
      BY <1>2 DEF Mine, Wanted
    <3> QED
      BY <1>4, <1>6, <2>4, <3>1, PendingParts
  <2>7. seen' = seen
    BY <1>1, <1>2, <2>5, SeenKept
  <2> QED
    BY <1>2, <2>5, <2>6, <2>7 DEF Register!vars
<1>9. CASE ~Exists(NextVersion(c)) /\ got[c].etag # 0
  <2>1. /\ got[c].etag \in DOMAIN versions /\ got[c].content = versions[got[c].etag]
        /\ pointer # 0
    BY <1>3, <1>9 DEF Holding
  <2>2. got[c].etag = k /\ k # 0 /\ NextVersion(c) = k + 1
    BY <1>5, <1>9, <2>1 DEF NextVersion, Exists
  <2>3. Current = got[c]
    BY <1>3, <1>5, <2>1, <2>2 DEF Current
  <2>4. DOMAIN versions' = 1 .. (k + 1) /\ versions'[k + 1] = want[c] /\ outcome'[c] = "replaced"
    <3>1. /\ DOMAIN versions' = DOMAIN versions \union {k + 1} /\ versions'[k + 1] = want[c]
          /\ outcome'[c] = "replaced"
      BY <1>9, <2>2, Before DEF Link, ThreadsTyped
    <3> QED
      BY <1>5, <3>1
  <2>5. Highest' = k + 1
    BY <2>4, TopIs DEF Highest
  <2>6. Current' = [etag |-> k + 1, content |-> want[c]]
    BY <1>2, <2>1, <2>4, <2>5 DEF Current
  <2>7. Register!Written(Wanted(c)) = [etag |-> k + 1, content |-> want[c]]
    <3>1. got[c] # NoHead
      BY <1>9 DEF NoHead
    <3> QED
      BY <2>2, <3>1, SameTerms DEF Register!Written, Wanted
  <2>8. Unnamed = {} /\ Unnamed' = {}
    BY <1>2, <2>1 DEF Unnamed
  <2>9. Mine(c)' = {}
    <3>1. Landed(c)'
      BY <1>2, <2>1, <2>4 DEF Landed
    <3> QED
      BY <3>1 DEF Mine
  <2>10. Pending' = Pending \ {Wanted(c)} /\ Wanted(c) \in Pending
    BY <1>4, <1>6, <2>8, <2>9, PendingParts
  <2>11. Wanted(c).expect = Current
    BY <2>3 DEF Wanted
  <2> QED
    BY <1>2, <2>6, <2>7, <2>10, <2>11, Takes
<1> QED
  BY <1>7, <1>8, <1>9

\* The first symlink is the compare-and-swap for version 1, whoever publishes it.
LEMMA PublishMaps ==
    ASSUME IInv, NEW c \in Clients, Publish(c), Remember
    PROVE  Register!TakesEffect \/ UNCHANGED Register!vars
<1>1. Step(c)
  BY DEF Step, Replace
<1>2. /\ op' = op /\ want' = want /\ got' = got /\ told' = told /\ outcome' = outcome
      /\ plain' = Nothing /\ pointer' = NextVersion(c) /\ versions' = versions
      /\ pc[c] = "publish" /\ op[c] = "write" /\ pc'[c] = "return"
  BY Before DEF Publish, At, Going, Goto, ThreadsTyped
<1>3. /\ NextVersion(c) \in DOMAIN versions /\ pointer' # 0 /\ FilesTyped /\ ChainOK
  BY <1>2, Before DEF Writing, FilesTyped
<1>4. CASE pointer # 0
  <2>1. plain = Nothing /\ Current' = Current /\ Unnamed' = Unnamed
    BY <1>2, <1>3, <1>4 DEF ChainOK, Current, Highest, Unnamed
  <2>2. Landed(c)' = Landed(c)
    BY <1>2, <1>3, <1>4 DEF Landed
  <2> QED
    BY <1>1, <1>2, <1>3, <1>4, <2>1, <2>2, Stutters
<1>5. CASE pointer = 0
  <2> DEFINE w == [expect |-> [etag |-> 0, content |-> plain], bytes |-> versions[1]]
  <2>1. DOMAIN versions = {1} /\ plain # Nothing
    BY <1>3, <1>5 DEF ChainOK
  <2>2. Unnamed = {w} /\ Unnamed' = {} /\ Current = w.expect
    BY <1>3, <1>5, <2>1 DEF Unnamed, Exists, Current
  <2>3. Current' = [etag |-> 1, content |-> versions[1]]
    <3>1. DOMAIN versions' = 1 .. 1
      BY <1>2, <2>1
    <3>2. Highest' = 1
      BY <3>1, TopIs DEF Highest
    <3> QED
      BY <1>2, <1>3, <3>2 DEF Current
  <2>4. Register!Written(w) = [etag |-> 1, content |-> versions[1]]
    BY <2>1 DEF Register!Written, Register!NoHead
  <2>5. ASSUME NEW d \in Clients, op[d] = "write"
        PROVE  /\ Wanted(d)' = Wanted(d)
               /\ ~Landed(d)' <=> (~Landed(d) /\ Wanted(d) # w)
    <3>1. /\ outcome'[d] = outcome[d] /\ got'[d] = got[d]
          /\ pc'[d] \in {"publish", "return"} <=> pc[d] \in {"publish", "return"}
          /\ NextVersion(d)' = NextVersion(d)
      BY <1>1, <1>2, ThreadsStep DEF Same, NextVersion
    <3>2. Landed(d)' <=> (pc[d] \in {"publish", "return"} /\ outcome[d] = "replaced")
      BY <1>3, <3>1 DEF Landed
    <3>3. Writing(d) /\ Holding(d) /\ Own(d) /\ got[d].etag \in Nat
          /\ got[d] = [etag |-> got[d].etag, content |-> got[d].content]
      BY Before
    <3>4. ASSUME Wanted(d) = w
          PROVE  pc[d] \in {"publish", "return"} /\ outcome[d] = "replaced"
      <4>1. want[d] = versions[1]
        BY <3>4 DEF Wanted
      <4> QED
        BY <2>1, <2>5, <3>3, <4>1 DEF Own
    <3>5. ASSUME pc[d] \in {"publish", "return"}, outcome[d] = "replaced", ~Landed(d)
          PROVE  Wanted(d) = w
      <4>1. got[d] # NoHead /\ ~(NextVersion(d) > 1)
        BY <3>5 DEF Landed
      <4>2. NextVersion(d) = 1 /\ got[d].etag = 0
        BY <3>3, <4>1 DEF NextVersion
      <4>3. got[d].content = plain
        BY <1>5, <3>3, <4>1, <4>2 DEF Holding, NoHead
      <4>4. want[d] = versions[1]
        BY <2>5, <3>3, <3>5, <4>1, <4>2 DEF Writing
      <4> QED
        BY <3>3, <4>2, <4>3, <4>4 DEF Wanted
    <3>6. ASSUME Wanted(d) = w
          PROVE  ~Landed(d)
      <4>1. got[d] = [etag |-> 0, content |-> plain]
        BY <3>6 DEF Wanted
      <4> QED
        BY <1>5, <2>1, <4>1 DEF Landed, NoHead, NextVersion
    <3> QED
      BY <1>2, <3>1, <3>2, <3>4, <3>5 DEF Wanted, Landed
  <2>6. Pending' = Pending \ {w}
    <3>1. Pending' = {Wanted(d) :
                        d \in {e \in Clients : op[e] = "write" /\ ~Landed(e) /\ Wanted(e) # w}}
      BY <1>2, <2>2, <2>5 DEF Pending
    <3>2. Pending = {w} \union {Wanted(d) : d \in {e \in Clients : op[e] = "write" /\ ~Landed(e)}}
      BY <2>2 DEF Pending
    <3> HIDE DEF w
    <3> QED
      BY <3>1, <3>2
  <2>7. w \in Pending
    BY <2>2 DEF Pending
  <2> HIDE DEF w
  <2> QED
    BY <1>2, <2>2, <2>3, <2>4, <2>6, <2>7, Takes
<1> QED
  BY <1>4, <1>5

\* The link to head.json is the conditional create.
LEMMA CreateMaps ==
    ASSUME IInv, NEW c \in Clients, Create(c), Remember
    PROVE  Register!TakesEffect \/ UNCHANGED Register!vars
<1>1. Step(c)
  BY DEF Step, Put
<1>2. /\ op' = op /\ want' = want /\ got' = got /\ told' = told
      /\ versions' = versions /\ pointer' = pointer
      /\ pc[c] = "create" /\ op[c] = "write"
  BY Before DEF Create, At, Going
<1>3. got[c] = NoHead /\ FilesTyped /\ ChainOK /\ ~Landed(c)
  BY <1>2, Before DEF Writing, Landed
<1>4. CASE PathContent = Nothing
  <2>1. pointer = 0 /\ plain = Nothing /\ DOMAIN versions = {}
    BY <1>3, <1>4, NothingIsNotBytes DEF PathContent, FilesTyped, ChainOK
  <2>2. pc'[c] = "return" /\ outcome'[c] = "replaced" /\ plain' = want[c]
    BY <1>4, Before DEF Create, Goto, ThreadsTyped
  <2>3. Current = NoHead /\ Current' = [etag |-> 0, content |-> want[c]]
    BY <1>2, <2>1, <2>2 DEF Current, NoHead
  <2>4. Wanted(c).expect = Current /\ Register!Written(Wanted(c)) = Current'
    BY <1>3, <2>3, SameTerms DEF Wanted, Register!Written
  <2>5. Unnamed = {} /\ Unnamed' = {}
    BY <1>2, <2>1 DEF Unnamed, Exists
  <2>6. Mine(c) = {Wanted(c)} /\ Mine(c)' = {}
    BY <1>2, <1>3, <2>2 DEF Mine, Landed
  <2>7. Pending' = Pending \ {Wanted(c)} /\ Wanted(c) \in Pending
    BY <1>1, <1>2, <2>5, <2>6, LiveKept, Apart, PendingParts
  <2> QED
    BY <1>2, <2>4, <2>7, Takes
<1>5. CASE PathContent # Nothing
  <2>1. pc'[c] = "return" /\ outcome'[c] = "not-replaced" /\ plain' = plain
    BY <1>5, Before DEF Create, Refuse, Goto, ThreadsTyped
  <2>2. Current' = Current /\ Unnamed' = Unnamed /\ Landed(c)' = Landed(c)
    BY <1>2, <1>3, <2>1 DEF Current, Highest, Unnamed, Exists, Landed
  <2> QED
    BY <1>1, <1>2, <2>2, Stutters
<1> QED
  BY <1>4, <1>5

\* The directory begins as a register does,
LEMMA InitMaps == Init => Register!Init
<1> SUFFICES ASSUME Init
             PROVE  Register!Init
  OBVIOUS
<1>1. TypeOK /\ ChainOK
  BY InitIInv DEF IInv
<1>2. Current \in Register!Token
  <2>1. PICK k \in Nat : DOMAIN versions = 1 .. k /\ (k # 0 => Highest = k)
    BY <1>1, HighestIs DEF TypeOK, FilesTyped
  <2>2. pointer # 0 => (Highest \in Nat /\ Highest \in DOMAIN versions)
    BY <1>1, <2>1 DEF TypeOK
  <2> QED
    BY <1>1, <2>2, SameTerms DEF Current, Token, TypeOK
<1>3. Pending = {}
  <2>1. Unnamed = {}
    BY DEF Init, Unnamed, Exists
  <2> QED
    BY <2>1 DEF Init, Pending
<1> QED
  BY <1>2, <1>3, SameTerms DEF Init, Register!Init

\* and every step is one of the register's, or one it does not see.
LEMMA StepMaps == IInv /\ [Next]_vars => [Register!Next]_Register!vars
<1> SUFFICES ASSUME IInv, [Next]_vars
             PROVE  [Register!Next]_Register!vars
  OBVIOUS
<1>1. CASE UNCHANGED vars
  <2>1. /\ UNCHANGED files /\ pointer' = pointer /\ pc' = pc /\ op' = op /\ got' = got
        /\ want' = want /\ outcome' = outcome /\ told' = told /\ seen' = seen
    BY <1>1 DEF vars, files, threads
  <2>2. Current' = Current /\ Unnamed' = Unnamed
    BY <2>1, DirectoryKept
  <2>3. \A c \in Clients : Landed(c)' = Landed(c) /\ Wanted(c)' = Wanted(c)
    BY <2>1 DEF Landed, Wanted, NextVersion
  <2>4. Pending' = Pending
    BY <2>1, <2>2, <2>3 DEF Pending
  <2> QED
    BY <2>1, <2>2, <2>4 DEF Register!vars
<1>2. CASE Next
  <2>1. PICK c \in Clients : Step(c) /\ Remember
    BY <1>2 DEF Next
  <2>2. CASE GetBytes(c) \/ Put(c) \/ Replace(c) \/ CurrentVersion(c)
    BY <2>1, <2>2, StartReadMaps, ReadVersionMaps, ReadPathMaps, StartWriteMaps, ScanStutters,
       LinkMaps, PublishMaps, CreateMaps
       DEF GetBytes, Put, Replace, CurrentVersion, Register!Next
  <2>3. CASE Return(c) \/ Throws(c) \/ Dies(c)
    BY <2>1, <2>3, ReturnMaps, ThrowsMaps, DiesMaps DEF Register!Next
  <2> QED
    BY <2>1, <2>2, <2>3 DEF Step
<1> QED
  BY <1>1, <1>2

\* Whatever its clients do at once, and wherever they fail or die, local.ts's
\* directory behaves as a register replaced by one conditional write at a time.
THEOREM ImplementsTheRegister == Spec => ImplementsRegister
<1>1. Init => IInv /\ Register!Init
  BY InitIInv, InitMaps
<1>2. IInv /\ [Next]_vars => IInv' /\ [Register!Next]_Register!vars
  BY IInvStep, StepMaps
<1> QED
  BY <1>1, <1>2, PTL DEF Spec, ImplementsRegister, Register!Spec

=============================================================================
