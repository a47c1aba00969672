---------------------------- MODULE Sv1Session ----------------------------
(***************************************************************************)
(* A Stratum V1 connection as a stream.  The pool's lines arrive in pieces *)
(* of any size and are cut out of a receive buffer that grows up to the    *)
(* longest legal line.  The submission task writes shares at the same time *)
(* and notes each in a table by its message id; the receive loop looks up  *)
(* the answers there without a lock, and counts them.  Both tasks change   *)
(* the plain counter of pending shares, the one under the transport mutex, *)
(* the other without it: each change is a load and, later, a store.        *)
(*                                                                         *)
(* A line is a number of bytes and the message id it answers (0 for a      *)
(* notification); a byte is the number of its line and what it is.         *)
(***************************************************************************)
EXTENDS Integers, Sequences, FiniteSets, SequencesExt

CONSTANTS
    MaxLine,        \* STRATUM_V1_MAX_JSON_LINE_SIZE
    BufferSize,     \* BUFFER_SIZE, of a read and of a step of growth
    MaxIds,         \* MAX_REQUEST_IDS
    Sizes,          \* sizes of the pool's lines
    MaxLines, MaxShares, MaxSessions    \* bounds

VARIABLES
    link,           \* the connection: closed, up, or shut down by a failed write
    lines,          \* the lines the pool has sent, in this and in earlier sessions
    wire,           \* bytes on their way from the pool
    buffer,         \* json_rpc_buffer
    size,           \* json_rpc_buffer_size
    send_uid,
    submit,         \* the share being submitted and what remains to be noted of it
    timings,        \* request_timings: the id tracked at each index
    unanswered,     \* shares the pool has and has not answered
    shares_pending,
    answer,         \* shares_pending as the receive loop loaded it to decrement, or 0
    counted,        \* shares counted as answered, as a sequence
    sessions,       \* connections opened (history)
    first, got,     \* number of the session's first line; the last line taken
    taken,          \* lines taken in the session (history)
    fault,          \* why the last receive failed (history)
    drift           \* how far shares_pending has come off what it counts (history)

vars == <<link, lines, wire, buffer, size, send_uid, submit, timings, unanswered,
          shares_pending, answer, counted, sessions, first, got, taken, fault, drift>>

stream == <<lines, wire, buffer, size, first, got, taken, fault>>
pending == <<shares_pending, answer, drift>>
shares == <<send_uid, submit, timings, unanswered, pending, counted>>

Idle == [id |-> 0, step |-> "idle", loaded |-> 0]
SetupIds == 1 .. 3      \* configure, subscribe, authorize
open == link # "closed"

----------------------------------------------------------------------------
(* The connection                                                          *)

\* Mutant: the buffer outlives the connection.
InitializeTimingsOnly ==
    /\ UNCHANGED <<buffer, size>>
    /\ timings' = [i \in 0 .. MaxIds - 1 |-> 0]

\* A new run starts with an empty buffer and table, and sends the setup messages.
STRATUM_V1_initialize_buffer ==
    /\ buffer' = <<>> /\ size' = BufferSize
    /\ timings' = [i \in 0 .. MaxIds - 1 |-> 0]

Connect ==
    /\ ~open /\ sessions < MaxSessions
    /\ link' = "up" /\ sessions' = sessions + 1
    /\ STRATUM_V1_initialize_buffer
    /\ send_uid' = 4
    /\ wire' = <<>> /\ first' = Len(lines) + 1 /\ taken' = 0 /\ got' = <<>>
    /\ fault' = "none"
    /\ shares_pending' = 0 /\ unanswered' = {} /\ counted' = <<>> /\ drift' = 0
    /\ UNCHANGED <<lines, submit, answer>>

\* The end of the run; the transport mutex waits for a share that is being written.
Closed ==
    /\ submit = Idle /\ answer = 0
    /\ link' = "closed" /\ wire' = <<>> /\ shares_pending' = 0

\* The receive gives up: the buffer is emptied and the run ends.
Fail(why) ==
    /\ Closed
    /\ buffer' = <<>> /\ fault' = why
    /\ UNCHANGED <<lines, size, send_uid, submit, timings, unanswered, answer, counted,
                   sessions, first, got, taken, drift>>

\* A reconnect request or a pause between two lines.
stratum_v1_close_connection ==
    /\ open /\ Closed
    /\ UNCHANGED <<lines, buffer, size, send_uid, submit, timings, unanswered, answer, counted,
                   sessions, first, got, taken, fault, drift>>

----------------------------------------------------------------------------
(* Receiving                                                               *)

Newlines == {i \in DOMAIN buffer : buffer[i].byte = "newline"}

\* Mutant: no room is left for the line's end.
ReceiveCapacityTight == MaxLine - Len(buffer)

ReceiveCapacity == (MaxLine + 1) - Len(buffer)

\* Mutant: no room for the terminating zero of a longest line.
ensure_json_buffer_capacity_short(required) == required <= MaxLine + 1

\* The buffer grows in steps up to its limit, if there is memory.
Grown(required) ==
    IF required <= size THEN size
    ELSE LET steps == (required - size + BufferSize - 1) \div BufferSize
             grown == size + steps * BufferSize
         IN IF grown > MaxLine + 2 THEN MaxLine + 2 ELSE grown

ensure_json_buffer_capacity(required) == required <= MaxLine + 2

\* One read, of what has arrived and fits; a complete line is left to TakeLine.
Read ==
    /\ open /\ Newlines = {} /\ answer = 0
    /\ \E n \in 1 .. Len(wire) :
        LET bytes == SubSeq(wire, 1, n)
            next == buffer \o bytes
            complete == \E b \in ToSet(next) : b.byte = "newline"
        IN /\ n <= BufferSize /\ n <= ReceiveCapacity
           /\ IF \E b \in ToSet(bytes) : b.byte = "nul" THEN Fail("nul")
              ELSE IF ~ensure_json_buffer_capacity(Len(next) + 1) THEN Fail("long")
              ELSE IF ~complete /\ Len(next) > MaxLine THEN Fail("long")
              ELSE /\ buffer' = next
                   /\ size' = Grown(Len(next) + 1)
                   /\ wire' = SubSeq(wire, n + 1, Len(wire))
                   /\ UNCHANGED <<link, lines, shares, sessions, first, got, taken, fault>>

\* The deadline passes, the read fails, or memory runs out.
ReceiveFails == open /\ Newlines = {} /\ Fail("transport")

\* STRATUM_V1_get_response_time_ms: the answer to a share that is tracked.
Tracked(id) == timings[id % MaxIds] # 0

Distance(m, n) == IF m > n THEN m - n ELSE n - m

\* The decrement begins, unless there is nothing to take off: the answer then came
\* before its share was counted.
LoadDecrement ==
    /\ answer' = shares_pending
    /\ drift' = IF shares_pending > 0 THEN drift ELSE drift + 1

\* Mutant: the entry is not taken out of the table.
AnswerKept(id) ==
    IF Tracked(id)
    THEN counted' = Append(counted, id) /\ LoadDecrement /\ UNCHANGED timings
    ELSE UNCHANGED <<timings, counted, answer, drift>>

\* STRATUM_RESULT: a tracked id is a share's answer, any other that of a setup message.
Answer(id) ==
    IF Tracked(id)
    THEN /\ timings' = [timings EXCEPT ![id % MaxIds] = 0]
         /\ counted' = Append(counted, id)
         /\ LoadDecrement
    ELSE UNCHANGED <<timings, counted, answer, drift>>

\* shares_pending--; what the submission task stored since the load is lost.
StoreDecrement ==
    /\ answer > 0
    /\ shares_pending' = answer - 1 /\ answer' = 0
    /\ drift' = drift + Distance(shares_pending, answer)
    /\ UNCHANGED <<link, stream, send_uid, submit, timings, unanswered, counted, sessions>>

\* The line up to the first newline is cut out and handled.
TakeLine ==
    /\ open /\ Newlines # {} /\ answer = 0
    /\ LET cut == CHOOSE i \in Newlines : \A j \in Newlines : i <= j
           line == SubSeq(buffer, 1, cut - 1)
           id == lines[buffer[cut].line].id
       IN /\ got' = [i \in DOMAIN line |-> line[i].line] \o <<buffer[cut].line>>
          /\ buffer' = SubSeq(buffer, cut + 1, Len(buffer))
          /\ IF id = 0 THEN UNCHANGED <<timings, counted, answer, drift>> ELSE Answer(id)
    /\ taken' = taken + 1
    /\ UNCHANGED <<link, lines, wire, size, send_uid, submit, unanswered, shares_pending,
                   sessions, first, fault>>

----------------------------------------------------------------------------
(* Submitting, under the transport mutex                                   *)

\* The share is written in full, or in part: then the socket is shut down.
STRATUM_V1_submit_share ==
    /\ open /\ submit = Idle /\ send_uid < 4 + MaxShares
    /\ send_uid' = send_uid + 1
    /\ \/ /\ link = "up" /\ submit' = [Idle EXCEPT !.id = send_uid, !.step = "stamp"]
          /\ unanswered' = unanswered \union {send_uid}
          /\ UNCHANGED <<link, wire>>
       \/ link' = "shut" /\ wire' = <<>> /\ UNCHANGED <<submit, unanswered>>
    /\ UNCHANGED <<lines, buffer, size, timings, pending, counted, sessions,
                   first, got, taken, fault>>

stamp_tx ==
    /\ submit.step = "stamp"
    /\ timings' = [timings EXCEPT ![submit.id % MaxIds] = submit.id]
    /\ submit' = [submit EXCEPT !.step = "count"]
    /\ UNCHANGED <<link, stream, send_uid, unanswered, pending, counted, sessions>>

\* shares_pending++; what the receive loop stored since the load is lost.
LoadIncrement ==
    /\ submit.step = "count"
    /\ submit' = [submit EXCEPT !.step = "store", !.loaded = shares_pending]
    /\ UNCHANGED <<link, stream, send_uid, timings, unanswered, pending, counted, sessions>>

StoreIncrement ==
    /\ submit.step = "store"
    /\ shares_pending' = submit.loaded + 1
    /\ drift' = drift + Distance(shares_pending, submit.loaded)
    /\ submit' = Idle
    /\ UNCHANGED <<link, stream, send_uid, timings, unanswered, answer, counted, sessions>>

----------------------------------------------------------------------------
(* The pool                                                                *)

\* A notification, or the one answer to a setup message or to a share; a line may
\* hold a NUL or be longer than is legal.
PoolSends ==
    /\ link = "up" /\ Len(lines) < MaxLines
    /\ \E n \in Sizes, nul \in BOOLEAN, id \in {0, 3} \union unanswered :
        LET this == Len(lines) + 1 IN
        /\ id = 3 => \A i \in first .. Len(lines) : lines[i].id # 3
        /\ nul => n > 0 /\ id = 0
        /\ lines' = Append(lines, [size |-> n, id |-> id])
        /\ wire' = wire \o [i \in 1 .. n |-> [line |-> this,
                                             byte |-> IF nul /\ i = n THEN "nul" ELSE "text"]]
                        \o <<[line |-> this, byte |-> "newline"]>>
        /\ unanswered' = unanswered \ {id}
    /\ UNCHANGED <<link, buffer, size, send_uid, submit, timings, pending, counted,
                   sessions, first, got, taken, fault>>

Init ==
    /\ link = "closed" /\ lines = <<>> /\ wire = <<>> /\ buffer = <<>> /\ size = BufferSize
    /\ send_uid = 1 /\ submit = Idle /\ timings = [i \in 0 .. MaxIds - 1 |-> 0]
    /\ unanswered = {} /\ shares_pending = 0 /\ answer = 0 /\ counted = <<>>
    /\ sessions = 0 /\ first = 1 /\ got = <<>> /\ taken = 0 /\ fault = "none" /\ drift = 0

Next ==
    \/ Connect
    \/ stratum_v1_close_connection
    \/ Read
    \/ ReceiveFails
    \/ TakeLine
    \/ StoreDecrement
    \/ STRATUM_V1_submit_share
    \/ stamp_tx
    \/ LoadIncrement
    \/ StoreIncrement
    \/ PoolSends

Spec == Init /\ [][Next]_vars

----------------------------------------------------------------------------
(* However the stream is cut into reads, the lines handled are the lines   *)
(* the pool sent in this session, whole, each once and in order; nothing   *)
(* of an earlier connection is left in the buffer.                         *)
LinesInStep ==
    got # <<>> =>
        LET line == first + taken - 1 IN
        /\ \A i \in DOMAIN got : got[i] = line
        /\ Len(got) = lines[line].size + 1

(* A line of legal length is never the reason to drop the connection, up   *)
(* to the very limit: the buffer has room for it, its newline and the      *)
(* terminating zero, and a read is never asked for nothing.                *)
LegalLineIsTaken ==
    /\ fault = "long" => \E i \in first .. Len(lines) : lines[i].size > MaxLine
    /\ open => Len(buffer) + 1 <= size
    /\ open /\ Newlines = {} => ReceiveCapacity > 0

(* The answers of a session count the shares of the session: each at most  *)
(* once, no setup message for a share.  The shares pending are those       *)
(* without an answer but for what the two tasks are allowed to lose by     *)
(* changing the counter at the same time, one per change of the other that *)
(* a store undoes and one per answer that comes before its share is        *)
(* counted; and the counter never runs away below zero or above the shares *)
(* submitted.  (What is lost stays lost until the connection ends: the     *)
(* number shown may be off, and no decision rests on it.)                  *)
AnswersCounted ==
    /\ IsInjective(counted)
    /\ ToSet(counted) \intersect SetupIds = {}
    /\ open /\ submit = Idle /\ answer = 0 =>
        Distance(shares_pending, Cardinality({i \in 0 .. MaxIds - 1 : timings[i] # 0})) <= drift
    /\ open => shares_pending \in 0 .. send_uid - 4
=============================================================================
