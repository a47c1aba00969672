---------------------------- MODULE LogBuffer ----------------------------
(***************************************************************************)
(* The log of the firmware: a ring in RAM that survives a soft restart,    *)
(* written by every task and read by three readers, each with an absolute  *)
(* position of its own: the UART (stdout_flush_task), the WebSocket        *)
(* stream and a download over HTTP.  A slow reader is overrun.             *)
(*                                                                         *)
(* A byte is written as <<position, ends a line>>, so that a reader that   *)
(* is given the wrong byte is given the wrong position.                    *)
(***************************************************************************)
EXTENDS Integers, Sequences

CONSTANTS
    Size,           \* LOG_BUFFER_SIZE
    MaxLine,        \* bound: length of a line
    MaxTotal,       \* bound: bytes written
    FlushSize,      \* chunk of the UART
    ChunkSize,      \* chunk of the other readers
    ScanLimit,      \* how far a reader looks for the end of a line
    MaxBoots        \* bound: restarts

VARIABLES
    ring,           \* s_buffer
    total,          \* s_header.total_written
    stdout,         \* s_stdout_pos; where it began, bytes dropped and printed
    ws,             \* last_read_abs of websocket_log_task, and its clients
    download,       \* position of a GET_system_logs under way, or Nowhere
    chunk,          \* the chunk a reader was given last: where, and what
    boots           \* restarts so far

vars == <<ring, total, stdout, ws, download, chunk, boots>>

Nowhere == -1
Blank == <<Nowhere, FALSE>>
NoChunk == [from |-> 0, bytes |-> <<>>]
StdoutFrom(pos) == [pos |-> pos, base |-> pos, dropped |-> 0, printed |-> 0]

Least(a, b) == IF a < b THEN a ELSE b

----------------------------------------------------------------------------
(* Writing                                                                 *)

\* A line of n bytes goes to the ring in one piece or, at its end, in two.
ring_write(n) ==
    /\ ring' = [o \in 0..(Size - 1) |->
                  IF \E i \in 0..(n - 1) : (total + i) % Size = o
                  THEN LET i == CHOOSE i \in 0..(n - 1) : (total + i) % Size = o
                       IN <<total + i, i = n - 1>>
                  ELSE ring[o]]
    /\ total' = total + n

\* Any task, under the mutex of the log.
log_buffer_vprintf(n) ==
    /\ total + n <= MaxTotal
    /\ ring_write(n)
    /\ UNCHANGED <<stdout, ws, download, chunk, boots>>

----------------------------------------------------------------------------
(* Reading                                                                 *)

Oldest == IF total >= Size THEN total - Size ELSE 0
Read(from, n) == [i \in 1..n |-> ring[(from + i - 1) % Size]]

\* Mutant: the reader believes the ring holds one byte more.
OverrunLate(pos) == total > Size /\ pos < total - Size - 1

\* The reader's place has been written over.
Overrun(pos) == total >= Size /\ pos < total - Size

\* The UART drops what was lost, counts it and goes on with the oldest byte.
stdout_flush_task ==
    LET start == IF stdout.pos > total THEN total
                 ELSE IF Overrun(stdout.pos) THEN Oldest ELSE stdout.pos
        n == Least(total - start, FlushSize)
    IN
    /\ n > 0
    /\ stdout' = [stdout EXCEPT !.pos = start + n, !.printed = @ + n,
                    !.dropped = @ + IF Overrun(stdout.pos)
                                    THEN Oldest - stdout.pos ELSE 0]
    /\ chunk' = [from |-> start, bytes |-> Read(start, n)]
    /\ UNCHANGED <<ring, total, ws, download, boots>>

\* The first end of a line among n bytes from a position, or 0.
LineEnd(from, n) ==
    LET ends == {i \in 1..n : ring[(from + i - 1) % Size][2]}
    IN IF ends = {} THEN 0 ELSE CHOOSE i \in ends : \A j \in ends : i <= j

\* An overrun reader goes on with the next line it can find nearby.
Resync(pos) ==
    IF pos > total THEN total
    ELSE IF Overrun(pos)
         THEN Oldest + LineEnd(Oldest, Least(total - Oldest, ScanLimit))
         ELSE pos

\* At most one line at a time, and not more than fits the reader's buffer.
log_buffer_read_absolute(pos) ==
    LET start == Resync(pos)
        most == Least(total - start, ChunkSize)
        line == LineEnd(start, most)
        n == IF line > 0 THEN line ELSE most
    IN [from |-> start, n |-> n,
        chunk |-> [from |-> start, bytes |-> Read(start, n)]]

\* websocket_log_task: without clients it only keeps up.
WebsocketLog ==
    IF ~ws.clients
    THEN ws' = [ws EXCEPT !.pos = total] /\ UNCHANGED <<ring, total,
                                              stdout, download, chunk, boots>>
    ELSE LET r == log_buffer_read_absolute(ws.pos) IN
         /\ r.n > 0
         /\ ws' = [ws EXCEPT !.pos = r.from + r.n]
         /\ chunk' = r.chunk
         /\ UNCHANGED <<ring, total, stdout, download, boots>>

Clients ==
    /\ ws' = [ws EXCEPT !.clients = ~@]
    /\ UNCHANGED <<ring, total, stdout, download, chunk, boots>>

\* GET_system_logs: from the beginning, until nothing is left or it fails.
GET_system_logs ==
    \/ /\ download = Nowhere
       /\ download' = 0
       /\ UNCHANGED <<ring, total, stdout, ws, chunk, boots>>
    \/ /\ download # Nowhere
       /\ LET r == log_buffer_read_absolute(download) IN
          \/ /\ r.n > 0
             /\ download' = r.from + r.n
             /\ chunk' = r.chunk
          \/ download' = Nowhere /\ UNCHANGED chunk
       /\ UNCHANGED <<ring, total, stdout, ws, boots>>

----------------------------------------------------------------------------
(* Restarts                                                                *)

\* log_buffer_init: after a soft restart the header is found again and the
\* restart is written to the log; without power, or with a header whose
\* checksum does not fit, the ring starts empty.  The readers start over.
log_buffer_init(soft) ==
    /\ boots < MaxBoots
    /\ boots' = boots + 1
    /\ \/ soft /\ total < MaxTotal /\ ring_write(1)
       \/ ~soft /\ total' = 0 /\ ring' = [o \in 0..(Size - 1) |-> Blank]
    /\ stdout' = StdoutFrom(total')
    /\ ws' = [pos |-> total', clients |-> FALSE]
    /\ download' = Nowhere
    /\ chunk' = NoChunk

Init ==
    /\ ring = [o \in 0..(Size - 1) |-> Blank]
    /\ total = 0
    /\ stdout = StdoutFrom(0)
    /\ ws = [pos |-> 0, clients |-> FALSE]
    /\ download = Nowhere
    /\ chunk = NoChunk
    /\ boots = 0

Next ==
    \/ \E n \in 1..MaxLine : log_buffer_vprintf(n)
    \/ stdout_flush_task
    \/ WebsocketLog
    \/ Clients
    \/ GET_system_logs
    \/ \E soft \in BOOLEAN : log_buffer_init(soft)

Spec == Init /\ [][Next]_vars

----------------------------------------------------------------------------
(* What a reader is given at a position is what was written there, however *)
(* often the ring went round and whoever wrote meanwhile; and the UART     *)
(* accounts for every byte since the restart: it printed it, counted it as *)
(* dropped, or will still print it.                                        *)
ReadersSeeTheLog ==
    /\ \A i \in 1..Len(chunk.bytes) : chunk.bytes[i][1] = chunk.from + i - 1
    /\ stdout.pos = stdout.base + stdout.printed + stdout.dropped
============================================================================
