--------------------------- MODULE EventLogProofs ---------------------------
(***************************************************************************)
(* Proofs about EventLog for any number of clients, logs and events.       *)
(***************************************************************************)
EXTENDS EventLog, TLAPS

Written(s) == \E i \in DOMAIN lines : lines[i] = s

\* Memory and disk speak of the same log; requests live in the process.
SameLog ==
    /\ up => mem # None /\ meta # None /\ mem.logId = meta.logId
    /\ meta # None => meta.logId \in used
    /\ \A c \in Clients : request[c] # None => up

\* A serving engine: every line parses and the numbering is complete.
Numbered ==
    up /\ ~safeMode =>
        /\ ~torn
        /\ mem = meta
        /\ lines = [i \in 1 .. MaxSeqOf(mem) |-> i]

\* While a replay is in progress, also after an append has failed, memory has
\* counted every line; and the replay holds lines only.
RequestsCounted ==
    \A c \in Clients : request[c] # None =>
        /\ \A i \in DOMAIN lines : lines[i] < mem.nextSeq
        /\ request[c].step = "replayed" => \A s \in request[c].got : Written(s)

\* Whatever was delivered of the present log is still in it.
DeliveredWritten ==
    \A c \in Clients : \A d \in delivered[c] :
        /\ d[1] \in used
        /\ meta # None /\ d[1] = meta.logId => Written(d[2])

Inv ==
    /\ TypeOK
    /\ SameLog
    /\ Numbered
    /\ RequestsCounted
    /\ DeliveredWritten
    /\ NothingTwice

-----------------------------------------------------------------------------

\* An empty directory satisfies the invariant.
LEMMA InitInv == Init => Inv
<1> SUFFICES ASSUME Init PROVE Inv
  OBVIOUS
<1>1. lines \in Seq(Nat)
  BY DEF Init
<1>2. torn \in BOOLEAN /\ up \in BOOLEAN /\ safeMode \in BOOLEAN
  BY Zenon DEF Init
<1>3. TypeOK
  BY <1>1, <1>2 DEF Init, TypeOK
<1>4. SameLog /\ Numbered /\ RequestsCounted
  BY DEF Init, SameLog, Numbered, RequestsCounted
<1>5. DeliveredWritten /\ NothingTwice
  BY DEF Init, DeliveredWritten, NothingTwice
<1> QED BY <1>3, <1>4, <1>5 DEF Inv

\* Lines only ever grow while the meta.json is there.
LEMMA WrittenGrows ==
    ASSUME TypeOK, NEW n \in Nat, lines' = Append(lines, n)
    PROVE  /\ lines' \in Seq(Nat)
           /\ DOMAIN lines = 1 .. Len(lines) /\ Len(lines) \in Nat
           /\ DOMAIN lines' = 1 .. Len(lines) + 1
           /\ \A i \in DOMAIN lines : i \in DOMAIN lines' /\ lines'[i] = lines[i]
           /\ lines'[Len(lines) + 1] = n
           /\ \A s : Written(s) => Written(s)'
<1>1. lines \in Seq(Nat)
  BY DEF TypeOK
<1>2. DOMAIN lines = 1 .. Len(lines) /\ Len(lines) \in Nat
  BY <1>1
<1>3. lines' \in Seq(Nat) /\ Len(lines') = Len(lines) + 1
  BY <1>1
<1>4. DOMAIN lines' = 1 .. Len(lines) + 1
  BY <1>3
<1>5. \A i \in 1 .. Len(lines) : lines'[i] = lines[i]
  BY <1>1
<1>6. lines'[Len(lines) + 1] = n
  BY <1>1
<1>7. \A i \in DOMAIN lines : i \in DOMAIN lines' /\ lines'[i] = lines[i]
  BY <1>2, <1>4, <1>5
<1>8. \A s : Written(s) => Written(s)'
  BY <1>7 DEF Written
<1> QED BY <1>2, <1>3, <1>4, <1>6, <1>7, <1>8

\* open, on the files as they are or with a new log id.
LEMMA OpenInv == ASSUME Inv, Open PROVE Inv'
<1> USE DEF Inv
<1>1. meta' \in EventMeta /\ mem' = meta' /\ up' /\ meta'.logId \in used'
      /\ used \subseteq used' /\ used' \subseteq Logs
      /\ (meta = None => meta'.logId \notin used)
      /\ (meta # None => meta' = meta)
  BY DEF Open, TypeOK, EventMeta, SameLog
<1>2. UNCHANGED <<lines, torn, request, cursor, delivered>>
  BY DEF Open, clients
<1>3. \A c \in Clients : request[c] = None
  BY DEF SameLog, Open
<1>4. safeMode' \in BOOLEAN /\ safeMode' = ~ValidateIntegrity(meta')
  BY DEF Open
<1>5. TypeOK'
  BY <1>1, <1>2, <1>4 DEF TypeOK
<1>6. SameLog'
  BY <1>1, <1>2, <1>3, AbsentAssumption DEF SameLog
<1>7. Numbered'
  <2> SUFFICES ASSUME ~safeMode'
               PROVE  ~torn' /\ mem' = meta' /\ lines' = [i \in 1 .. MaxSeqOf(mem') |-> i]
    BY DEF Numbered
  <2>1. ~torn /\ meta'.nextSeq = Len(lines) + 1 /\ \A i \in DOMAIN lines : lines[i] = i
    BY <1>2, <1>4 DEF ValidateIntegrity
  <2>2. meta'.nextSeq - 1 = Len(lines)
    BY <2>1 DEF TypeOK
  <2>3. lines = [i \in 1 .. Len(lines) |-> i]
    BY <2>1 DEF TypeOK
  <2> QED
    BY <1>1, <1>2, <2>1, <2>2, <2>3 DEF MaxSeqOf
<1>8. RequestsCounted'
  BY <1>2, <1>3 DEF RequestsCounted
<1>9. DeliveredWritten'
  BY <1>1, <1>2 DEF DeliveredWritten, Written
<1>10. NothingTwice'
  BY <1>2 DEF NothingTwice
<1> QED BY <1>5, <1>6, <1>7, <1>8, <1>9, <1>10

\* The end of the process, with lines that are at least the old ones.
LEMMA DieInv ==
    ASSUME Inv, Die, UNCHANGED <<clients, used>>,
           lines' \in Seq(Nat), torn' \in BOOLEAN,
           meta' \in EventMeta \cup {None},
           meta' # None => /\ meta # None /\ meta'.logId = meta.logId
                           /\ \A s : Written(s) => Written(s)'
    PROVE  Inv'
<1> USE DEF Inv
<1>1. \A c \in Clients : request'[c] = None
  BY DEF Die
<1>2. TypeOK'
  BY DEF Die, TypeOK, clients
<1>3. SameLog' /\ Numbered' /\ RequestsCounted'
  BY <1>1 DEF Die, SameLog, Numbered, RequestsCounted
<1>4. DeliveredWritten' /\ NothingTwice'
  BY DEF DeliveredWritten, NothingTwice, clients
<1> QED BY <1>2, <1>3, <1>4

\* append, with every outcome of its writes.
LEMMA AppendInv == ASSUME Inv, AppendEvent PROVE Inv'
<1> USE DEF Inv
<1> DEFINE n == mem.nextSeq
           next == [mem EXCEPT !.nextSeq = @ + 1]
<1>1. up /\ ~safeMode /\ mem \in EventMeta /\ mem = meta /\ ~torn
      /\ n \in Nat /\ n > 0
      /\ next \in EventMeta /\ next.logId = mem.logId /\ next.nextSeq = n + 1
  BY DEF AppendEvent, SameLog, Numbered, TypeOK, EventMeta
<1>2. Len(lines) = n - 1 /\ (\A i \in DOMAIN lines : lines[i] = i)
      /\ DOMAIN lines = 1 .. n - 1
  <2>1. lines = [i \in 1 .. n - 1 |-> i]
    BY <1>1 DEF Numbered, MaxSeqOf
  <2>2. n - 1 \in Nat
    BY <1>1
  <2> QED BY <2>1, <2>2
<1>3. UNCHANGED <<cursor, delivered, used>>
  BY DEF AppendEvent, clients
<1>4. ASSUME lines' = Append(lines, n), meta' = next, mem' = next,
             UNCHANGED <<torn, up, safeMode, request>>
      PROVE  Inv'
  <2>1. lines' \in Seq(Nat) /\ DOMAIN lines' = 1 .. n
        /\ (\A i \in 1 .. n : lines'[i] = i)
        /\ \A s : Written(s) => Written(s)'
    BY <1>1, <1>2, <1>4, WrittenGrows
  <2>2. next # None
    BY <1>1, AbsentAssumption
  <2>3. TypeOK'
    BY <1>1, <1>3, <1>4, <2>1 DEF TypeOK
  <2>4. SameLog'
    BY <1>1, <1>3, <1>4, <2>2 DEF SameLog
  <2>5. Numbered'
    <3>1. MaxSeqOf(mem') = n
      BY <1>1, <1>4 DEF MaxSeqOf
    <3>2. lines' = [i \in 1 .. n |-> i]
      BY <2>1
    <3> QED BY <1>1, <1>4, <3>1, <3>2 DEF Numbered
  <2>6. RequestsCounted'
    <3>1. \A i \in DOMAIN lines' : lines'[i] < mem'.nextSeq
      BY <1>1, <1>4, <2>1
    <3> QED BY <1>4, <2>1, <3>1 DEF RequestsCounted
  <2>7. DeliveredWritten'
    <3>1. meta # None /\ meta'.logId = meta.logId
      BY <1>1, <1>4, AbsentAssumption
    <3>2. \A s : Written(s) => Written(s)'
      BY <2>1
    <3>3. DeliveredWritten
      OBVIOUS
    <3> QED BY <1>3, <3>1, <3>2, <3>3 DEF DeliveredWritten
  <2>8. NothingTwice'
    BY <1>3 DEF NothingTwice
  <2> QED BY <2>3, <2>4, <2>5, <2>6, <2>7, <2>8
<1>5. ASSUME AppendInterrupted
      PROVE  /\ lines' \in Seq(Nat) /\ torn' \in BOOLEAN
             /\ meta' \in EventMeta /\ meta'.logId = meta.logId /\ meta' # None
             /\ \A s : Written(s) => Written(s)'
             /\ \A i \in DOMAIN lines' : lines'[i] < n + 1
  <2>0. torn' \in BOOLEAN /\ meta' \in {meta, next}
    <3>1. torn \in BOOLEAN
      BY DEF TypeOK
    <3>2. (torn' = torn \/ torn' = TRUE) /\ (meta' = meta \/ meta' = next)
      BY <1>5 DEF AppendInterrupted, files
    <3>3. torn' \in BOOLEAN
      BY <3>1, <3>2, Zenon
    <3> QED BY <3>2, <3>3
  <2>1. CASE lines' = Append(lines, n)
    <3>1. lines' \in Seq(Nat) /\ DOMAIN lines' = 1 .. n
          /\ (\A i \in 1 .. n : lines'[i] = i)
          /\ \A s : Written(s) => Written(s)'
      BY <1>1, <1>2, <2>1, WrittenGrows
    <3>2. torn' \in BOOLEAN /\ meta' \in {meta, next}
      BY <2>0
    <3>3. \A i \in DOMAIN lines' : lines'[i] < n + 1
      BY <1>1, <3>1
    <3> QED BY <1>1, <3>1, <3>2, <3>3, AbsentAssumption
  <2>2. CASE lines' = lines
    <3>1. torn' \in BOOLEAN /\ meta' \in {meta, next}
      BY <2>0
    <3>2. \A i \in DOMAIN lines' : lines'[i] < n + 1
      BY <1>1, <1>2, <2>2
    <3> QED BY <1>1, <2>2, <3>1, <3>2, AbsentAssumption DEF TypeOK, Written
  <2> QED BY <1>5, <2>1, <2>2 DEF AppendInterrupted, files
<1>6. ASSUME AppendInterrupted, mem' = next, safeMode' = TRUE, UNCHANGED <<up, request>>
      PROVE  Inv'
  <2>1. TypeOK'
    BY <1>1, <1>3, <1>5, <1>6 DEF TypeOK
  <2>2. SameLog'
    BY <1>1, <1>3, <1>5, <1>6, AbsentAssumption DEF SameLog
  <2>3. Numbered'
    BY <1>6 DEF Numbered
  <2>4. RequestsCounted'
    BY <1>1, <1>5, <1>6 DEF RequestsCounted
  <2>6. meta # None
    BY <1>1, AbsentAssumption
  <2>5. DeliveredWritten' /\ NothingTwice'
    BY <1>1, <1>3, <1>5, <1>6, <2>6 DEF DeliveredWritten, NothingTwice
  <2> QED BY <2>1, <2>2, <2>3, <2>4, <2>5
<1>7. ASSUME AppendInterrupted, Die
      PROVE  Inv'
  <2>1. meta # None
    BY <1>1, AbsentAssumption
  <2> QED BY <1>3, <1>5, <1>7, <2>1, DieInv DEF clients
<1> QED
  BY <1>4, <1>6, <1>7 DEF AppendEvent

\* The three steps of events_replay.
LEMMA ReplayInv ==
    ASSUME Inv, NEW c \in Clients,
           ReplayBegins(c) \/ ReplayReads(c) \/ ReplayAnswers(c)
    PROVE  Inv'
<1> USE DEF Inv
<1>1. UNCHANGED <<lines, torn, meta, up, safeMode, mem, used>>
  BY DEF ReplayBegins, ReplayReads, ReplayAnswers, files
<1>2. up /\ mem \in EventMeta /\ mem # None /\ meta # None /\ mem.logId = meta.logId
      /\ mem.logId \in Logs /\ mem.nextSeq \in Nat /\ mem.nextSeq > 0
      /\ mem.logId \in used
  BY AbsentAssumption
     DEF ReplayBegins, ReplayReads, ReplayAnswers, SameLog, TypeOK, EventMeta
<1>3. Numbered'
  BY <1>1 DEF Numbered
<1>4. CASE ReplayBegins(c)
  <2> DEFINE r == [step |-> "checked",
                   from |-> IF cursor[c] = None THEN [logId |-> mem.logId, seq |-> 0]
                            ELSE cursor[c]]
  <2>1. request' = [request EXCEPT ![c] = r] /\ UNCHANGED <<cursor, delivered>>
        /\ ~safeMode
    BY <1>4 DEF ReplayBegins, clients
  <2>2. r \in Requests
    BY <1>2 DEF Requests, TypeOK, Cursor
  <2>3. TypeOK'
    BY <1>1, <2>1, <2>2 DEF TypeOK
  <2>4. SameLog'
    BY <1>1, <1>2, <2>1 DEF SameLog, TypeOK
  <2>5. \A i \in DOMAIN lines : lines[i] < mem.nextSeq
    <3>1. lines = [i \in 1 .. mem.nextSeq - 1 |-> i]
      BY <1>2, <2>1 DEF Numbered, MaxSeqOf
    <3> QED BY <1>2, <3>1
  <2>6. RequestsCounted'
    BY <1>1, <2>1, <2>5 DEF RequestsCounted, TypeOK, Written
  <2>7. DeliveredWritten' /\ NothingTwice'
    BY <1>1, <2>1 DEF DeliveredWritten, NothingTwice, Written
  <2> QED BY <1>3, <2>3, <2>4, <2>6, <2>7
<1>5. CASE ReplayReads(c)
  <2> DEFINE from == request[c].from
             r == [step |-> "replayed", from |-> from, got |-> ReplayedEvents(from)]
  <2>1. request[c] \in Requests /\ request[c] # None
        /\ UNCHANGED <<cursor, delivered>>
        /\ request' = [request EXCEPT ![c] = IF ReplayAccepts(from) THEN r ELSE None]
    BY <1>5 DEF ReplayReads, clients, TypeOK
  <2>2. \A s \in ReplayedEvents(from) : s \in Nat /\ Written(s)
    BY DEF ReplayedEvents, Written, TypeOK
  <2>3. r \in Requests
    BY <2>1, <2>2 DEF Requests
  <2>4. TypeOK'
    BY <1>1, <2>1, <2>3 DEF TypeOK
  <2>5. SameLog'
    BY <1>1, <1>2, <2>1 DEF SameLog, TypeOK
  <2>6. RequestsCounted'
    BY <1>1, <2>1, <2>2 DEF RequestsCounted, TypeOK, Written
  <2>7. DeliveredWritten' /\ NothingTwice'
    BY <1>1, <2>1 DEF DeliveredWritten, NothingTwice, Written
  <2> QED BY <1>3, <2>4, <2>5, <2>6, <2>7
<1>6. CASE ReplayAnswers(c)
  <2> DEFINE cur == [logId |-> mem.logId, seq |-> MaxSeqOf(mem)]
             got == request[c].got
  <2>1. request[c] # None /\ request[c] \in Requests /\ request[c].step = "replayed"
        /\ request' = [request EXCEPT ![c] = None]
        /\ cursor' = [cursor EXCEPT ![c] = cur]
        /\ delivered' = [delivered EXCEPT ![c] = @ \cup ({mem.logId} \X got)]
    BY <1>6 DEF ReplayAnswers, TypeOK
  <2>2. got \subseteq Nat /\ \A s \in got : Written(s)
    BY <2>1 DEF Requests, RequestsCounted
  <2>3. cur \in Cursor /\ cur.logId = mem.logId /\ cur.seq = mem.nextSeq - 1
    BY <1>2 DEF Cursor, MaxSeqOf
  <2>4. TypeOK'
    <3>1. cursor' \in [Clients -> Cursor \cup {None}]
      BY <2>1, <2>3 DEF TypeOK
    <3>2. delivered' \in [Clients -> SUBSET (Logs \X Nat)]
      BY <1>2, <2>1, <2>2 DEF TypeOK
    <3>3. request' \in [Clients -> Requests \cup {None}]
      BY <2>1 DEF TypeOK
    <3> QED BY <1>1, <3>1, <3>2, <3>3 DEF TypeOK
  <2>5. SameLog' /\ RequestsCounted'
    BY <1>1, <1>2, <2>1 DEF SameLog, RequestsCounted, TypeOK, Written
  <2>6. \A e \in Clients : \A d \in delivered'[e] :
            d \in delivered[e] \/ (e = c /\ d[1] = mem.logId /\ d[2] \in got)
    BY <2>1 DEF TypeOK
  <2>7. DeliveredWritten'
    BY <1>1, <1>2, <2>2, <2>6 DEF DeliveredWritten, Written
  <2>8. \A s : Written(s) => s \in Nat /\ s <= mem.nextSeq - 1
    BY <1>2, <2>1 DEF Written, RequestsCounted, TypeOK
  <2>9. NothingTwice'
    <3> SUFFICES ASSUME NEW e \in Clients, cursor'[e] # None, NEW d \in delivered'[e],
                        d[1] = cursor'[e].logId
                 PROVE  d[2] <= cursor'[e].seq
      BY DEF NothingTwice
    <3>1. CASE e = c
      <4>1. cursor'[e] = cur
        BY <2>1, <3>1 DEF TypeOK
      <4>2. Written(d[2])
        BY <1>2, <2>2, <2>3, <2>6, <3>1, <4>1 DEF DeliveredWritten
      <4> QED BY <2>3, <2>8, <4>1, <4>2
    <3>2. CASE e # c
      BY <2>1, <3>2 DEF NothingTwice, TypeOK
    <3> QED BY <3>1, <3>2
  <2> QED BY <1>3, <2>4, <2>5, <2>7, <2>9
<1> QED BY <1>4, <1>5, <1>6

\* A client that starts over has received nothing.
LEMMA CursorDroppedInv ==
    ASSUME Inv, NEW c \in Clients, CursorDropped(c) PROVE Inv'
<1> USE DEF Inv
<1>1. UNCHANGED <<lines, torn, meta, up, safeMode, mem, request, used>>
      /\ cursor' = [cursor EXCEPT ![c] = None]
      /\ delivered' = [delivered EXCEPT ![c] = {}]
  BY DEF CursorDropped, files, process
<1>2. TypeOK'
  BY <1>1 DEF TypeOK
<1>3. SameLog' /\ Numbered' /\ RequestsCounted'
  BY <1>1 DEF SameLog, Numbered, RequestsCounted, Written
<1>4. \A e \in Clients : /\ delivered'[e] \subseteq delivered[e]
                         /\ cursor'[e] \in {cursor[e], None}
  BY <1>1 DEF TypeOK
<1>5. DeliveredWritten' /\ NothingTwice'
  BY <1>1, <1>4 DEF DeliveredWritten, NothingTwice, Written
<1> QED BY <1>2, <1>3, <1>5

\* Every step preserves the invariant.
LEMMA NextInv == Inv /\ [Next]_vars => Inv'
<1> SUFFICES ASSUME Inv, [Next]_vars PROVE Inv'
  OBVIOUS
<1>1. CASE UNCHANGED vars
  BY <1>1 DEF vars, files, process, clients, Inv, TypeOK, SameLog, Numbered,
              RequestsCounted, DeliveredWritten, NothingTwice, Written
<1>2. CASE Crash
  <2>1. lines' = lines /\ torn' = torn /\ meta' = meta /\ UNCHANGED <<clients, used>> /\ Die
    BY <1>2 DEF Crash, files
  <2> QED BY <2>1, DieInv DEF Inv, TypeOK, Written
<1>3. CASE LogRemoved
  <2>1. meta' = None /\ UNCHANGED <<up, safeMode, mem, request, cursor, delivered, used>>
        /\ ~up /\ (lines' = <<>> \/ lines' = lines) /\ (torn' = FALSE \/ torn' = torn)
    BY <1>3 DEF LogRemoved, process, clients
  <2>2. lines' \in Seq(Nat)
    <3>1. lines \in Seq(Nat) /\ <<>> \in Seq(Nat)
      BY DEF Inv, TypeOK
    <3>2. lines' = <<>> \/ lines' = lines
      BY <2>1
    <3> QED BY <3>1, <3>2
  <2>3. torn \in BOOLEAN
    BY DEF Inv, TypeOK
  <2>4. torn' \in BOOLEAN
    BY <2>1, <2>3, Zenon
  <2> QED BY <2>1, <2>2, <2>4 DEF Inv, TypeOK, SameLog, Numbered, RequestsCounted,
                      DeliveredWritten, NothingTwice
<1> QED
  BY <1>1, <1>2, <1>3, OpenInv, AppendInv, ReplayInv, CursorDroppedInv DEF Next

-----------------------------------------------------------------------------

\* The inductive invariant holds in every reachable state of the event log.
THEOREM Invariance == Spec => []Inv
  BY InitInv, NextInv, PTL DEF Spec

\* Files, memory, requests and cursors always have their types: in particular a
\* cursor handed out is never negative.
THEOREM TypeCorrect == Spec => []TypeOK
<1>1. Inv => TypeOK
  BY DEF Inv
<1> QED BY <1>1, Invariance, PTL

\* A serving engine's log is numbered from 1 without gap or repetition,
\* whatever appends failed and wherever the process died before.
THEOREM LogStaysNumbered == Spec => []LogNumbered
<1>1. Inv => LogNumbered
  BY DEF Inv, Numbered, LogNumbered
<1> QED BY <1>1, Invariance, PTL

\* No client is given an event twice by following its cursor.
THEOREM NoEventTwice == Spec => []NothingTwice
<1>1. Inv => NothingTwice
  BY DEF Inv
<1> QED BY <1>1, Invariance, PTL

\* What a client holds of the log that is served is in that log.
THEOREM DeliveredAreWritten == Spec => []OnlyWrittenDelivered
<1>1. Inv => OnlyWrittenDelivered
  <2> SUFFICES ASSUME Inv, up, ~safeMode, NEW c \in Clients, NEW d \in delivered[c],
                      d[1] = mem.logId
               PROVE  d[2] \in 1 .. Len(lines)
    BY DEF OnlyWrittenDelivered
  <2>1. Written(d[2])
    BY DEF Inv, DeliveredWritten, SameLog
  <2>2. \A i \in DOMAIN lines : lines[i] = i
    BY DEF Inv, Numbered
  <2> QED BY <2>1, <2>2 DEF Written, Inv, TypeOK
<1> QED BY <1>1, Invariance, PTL
=============================================================================
