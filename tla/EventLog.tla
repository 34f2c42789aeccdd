------------------------------ MODULE EventLog ------------------------------
(***************************************************************************)
(* The broker's durable event log and its cursor replay.                   *)
(* (broker/src/events.rs, events_replay in broker/src/transaction/engine.rs *)
(* and the safe mode it reads)                                             *)
(*                                                                         *)
(* append and replay each hold the meta lock throughout, so each is one    *)
(* step; events_replay takes that lock twice, once for the events and once *)
(* for the cursor, after a look at the safe-mode flag, so it is three.     *)
(* The clients run in threads of their own.                                *)
(***************************************************************************)
EXTENDS Integers, Sequences

CONSTANTS
    Clients,
    Logs,          \* log ids, generated fresh (UUIDs)
    None,
    MaxEvents,     \* bound: events appended to a log
    StorageFails   \* whether a write may fail without the process dying

ASSUME MaxEventsAssumption == MaxEvents \in Nat
ASSUME FailsAssumption     == StorageFails \in BOOLEAN
ASSUME LogsAssumption      == None \notin Logs

VARIABLES
    \* events/
    lines,         \* log.jsonl: the sequence number of each line
    torn,          \* a line does not parse
    meta,          \* meta.json, None when it is missing
    \* the process
    up,
    safeMode,      \* the engine's flag
    mem,           \* EventLog::meta
    request,       \* per client: the events_replay in progress
    \* the clients and the outside
    cursor,        \* per client: the cursor it holds, None at first
    delivered,     \* per client: what it received, as <<log, seq>>
    used           \* log ids generated so far

files   == <<lines, torn, meta>>
process == <<up, safeMode, mem, request>>
clients == <<cursor, delivered>>
vars    == <<files, process, clients, used>>

EventMeta == [logId : Logs, nextSeq : Nat \ {0}]
Cursor    == [logId : Logs, seq : Nat]

\* events_replay has passed the safe-mode check, or has the events.
Requests ==
    [step : {"checked"}, from : Cursor] \cup
    [step : {"replayed"}, from : Cursor, got : SUBSET Nat]

ASSUME AbsentAssumption == None \notin EventMeta \cup Cursor \cup Requests

TypeOK ==
    /\ lines \in Seq(Nat)
    /\ torn \in BOOLEAN
    /\ meta \in EventMeta \cup {None}
    /\ up \in BOOLEAN
    /\ safeMode \in BOOLEAN
    /\ mem \in EventMeta \cup {None}
    /\ request \in [Clients -> Requests \cup {None}]
    /\ cursor \in [Clients -> Cursor \cup {None}]
    /\ delivered \in [Clients -> SUBSET (Logs \X Nat)]
    /\ used \subseteq Logs

Init ==
    /\ lines = <<>> /\ torn = FALSE /\ meta = None
    /\ up = FALSE /\ safeMode = FALSE /\ mem = None
    /\ request = [c \in Clients |-> None]
    /\ cursor = [c \in Clients |-> None]
    /\ delivered = [c \in Clients |-> {}]
    /\ used = {}

-----------------------------------------------------------------------------

\* Mutant: the lines are not compared with meta.json.
ValidateIntegrityOfLines(m) ==
    ~torn /\ \A i \in DOMAIN lines : lines[i] = i

\* validate_integrity: numbered from 1, and meta holds the next number.
ValidateIntegrity(m) ==
    /\ ~torn
    /\ m.nextSeq = Len(lines) + 1
    /\ \A i \in DOMAIN lines : lines[i] = i

\* EventLog::open makes a new meta when there is none; the engine then
\* enters safe mode if the log does not fit it.
Open ==
    /\ ~up
    /\ up' = TRUE
    /\ \/ meta # None /\ UNCHANGED <<meta, used>>
       \/ /\ meta = None
          /\ \E id \in Logs \ used :
               /\ meta' = [logId |-> id, nextSeq |-> 1]
               /\ used' = used \cup {id}
    /\ mem' = meta'
    /\ safeMode' = ~ValidateIntegrity(meta')
    /\ UNCHANGED <<lines, torn, request, clients>>

\* The process is gone; so are the requests in progress.
Die ==
    /\ up' = FALSE /\ safeMode' = FALSE /\ mem' = None
    /\ request' = [c \in Clients |-> None]

\* append without Ok: no line, a torn one, a line without its meta, or all.
AppendInterrupted ==
    LET next == [mem EXCEPT !.nextSeq = @ + 1] IN
    \/ UNCHANGED files
    \/ torn' = TRUE /\ UNCHANGED <<lines, meta>>
    \/ lines' = Append(lines, mem.nextSeq) /\ UNCHANGED <<torn, meta>>
    \/ lines' = Append(lines, mem.nextSeq) /\ meta' = next /\ UNCHANGED torn

\* append, called with dm_lock by an engine that is not in safe mode.  The
\* number is taken in memory before anything is written; after an error the
\* caller enters safe mode, which a crash may forestall.
AppendEvent ==
    /\ up /\ ~safeMode
    /\ mem.nextSeq <= MaxEvents
    /\ LET next == [mem EXCEPT !.nextSeq = @ + 1] IN
       \/ /\ lines' = Append(lines, mem.nextSeq)
          /\ meta' = next
          /\ mem' = next
          /\ UNCHANGED <<torn, up, safeMode, request>>
       \/ /\ StorageFails
          /\ AppendInterrupted
          /\ mem' = next
          /\ safeMode' = TRUE
          /\ UNCHANGED <<up, request>>
       \/ AppendInterrupted /\ Die
    /\ UNCHANGED <<clients, used>>

-----------------------------------------------------------------------------
(* events_replay. *)

\* The safe-mode check and the cursor; without one, from the start of the log.
ReplayBegins(c) ==
    /\ up /\ ~safeMode
    /\ request[c] = None
    /\ request' = [request EXCEPT ![c] =
          [step |-> "checked",
           from |-> IF cursor[c] = None THEN [logId |-> mem.logId, seq |-> 0]
                    ELSE cursor[c]]]
    /\ UNCHANGED <<files, up, safeMode, mem, clients, used>>

\* Mutant: one too few.
MaxSeqOfLess(m) == m.nextSeq - 2

MaxSeqOf(m) == m.nextSeq - 1

\* replay: a cursor of another log, or one beyond the tail, is refused.
ReplayAccepts(from) ==
    /\ from.logId = mem.logId
    /\ ~(from.seq > MaxSeqOf(mem) /\ MaxSeqOf(mem) > 0)
    /\ ~torn

\* Mutant: the events are counted from memory, not read from the log.
ReplayedEventsFromMemory(from) == (from.seq + 1) .. MaxSeqOf(mem)

ReplayedEvents(from) == {s \in {lines[i] : i \in DOMAIN lines} : s > from.seq}

ReplayReads(c) ==
    /\ up /\ request[c] # None /\ request[c].step = "checked"
    /\ LET from == request[c].from IN
       request' = [request EXCEPT ![c] =
          IF ReplayAccepts(from)
          THEN [step |-> "replayed", from |-> from, got |-> ReplayedEvents(from)]
          ELSE None]
    /\ UNCHANGED <<files, up, safeMode, mem, clients, used>>

\* latest_cursor, and the answer.
ReplayAnswers(c) ==
    /\ up /\ request[c] # None /\ request[c].step = "replayed"
    /\ request' = [request EXCEPT ![c] = None]
    /\ cursor' = [cursor EXCEPT ![c] =
          [logId |-> mem.logId, seq |-> MaxSeqOf(mem)]]
    /\ delivered' = [delivered EXCEPT ![c] =
          @ \cup ({mem.logId} \X request[c].got)]
    /\ UNCHANGED <<files, up, safeMode, mem, used>>

-----------------------------------------------------------------------------
(* The outside. *)

Crash ==
    /\ up
    /\ Die
    /\ UNCHANGED <<files, clients, used>>

\* With the broker down, the directory or its meta.json is removed.
LogRemoved ==
    /\ ~up
    /\ meta # None
    /\ meta' = None
    /\ \/ lines' = <<>> /\ torn' = FALSE
       \/ UNCHANGED <<lines, torn>>
    /\ UNCHANGED <<process, clients, used>>

\* A client that gave up on its cursor starts over.
CursorDropped(c) ==
    /\ request[c] = None /\ cursor[c] # None
    /\ cursor' = [cursor EXCEPT ![c] = None]
    /\ delivered' = [delivered EXCEPT ![c] = {}]
    /\ UNCHANGED <<files, process, used>>

Next ==
    \/ Open \/ AppendEvent \/ Crash \/ LogRemoved
    \/ \E c \in Clients : 
        ReplayBegins(c) \/ ReplayReads(c) \/ ReplayAnswers(c) \/ CursorDropped(c)

Spec == Init /\ [][Next]_vars

-----------------------------------------------------------------------------
(* Properties. *)

\* Whatever crashed or failed before, an engine that serves has a log that is
\* numbered without gap or repetition and continues with a fresh number.
LogNumbered ==
    up /\ ~safeMode =>
        /\ lines = [i \in 1 .. MaxSeqOf(mem) |-> i]
        /\ mem = meta

\* A client's cursor is at or after everything it received from that log, so
\* replay never delivers an event a second time.
NothingTwice ==
    \A c \in Clients : cursor[c] # None =>
        \A d \in delivered[c] : d[1] = cursor[c].logId => d[2] <= cursor[c].seq

\* A client only ever receives events that its log holds as complete lines,
\* for as long as that log is served.
OnlyWrittenDelivered ==
    up /\ ~safeMode =>
        \A c \in Clients : \A d \in delivered[c] :
            d[1] = mem.logId => d[2] \in 1 .. Len(lines)

\* AGB-4 PLAN: replay never skips an event.  Every event at or before the
\* cursor a client was given has been delivered to it.
NothingSkipped ==
    \A c \in Clients : cursor[c] # None /\ meta # None /\ meta.logId = cursor[c].logId =>
        \A i \in DOMAIN lines :
            lines[i] <= cursor[c].seq => <<cursor[c].logId, lines[i]>> \in delivered[c]
=============================================================================
