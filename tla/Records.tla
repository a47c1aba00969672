------------------------------ MODULE Records ------------------------------
(***************************************************************************)
(* What a miner keeps of its work over restarts: the best difficulty and    *)
(* the scoreboard (SYSTEM_notify_found_nonce, main/tasks/scoreboard.c), and *)
(* the hashes counted in memory that a restart leaves alone, saved every    *)
(* hour (SYSTEM_noinit_update, SYSTEM_init_system).                         *)
(*                                                                         *)
(* Every value goes to flash by itself, through the queue of the settings   *)
(* task, which may be full, and a restart or power cut loses what is still  *)
(* in it (module Settings has that queue and its failures; here a write     *)
(* that is taken out of it works).  Difficulties are integers in parts of   *)
(* Unit, of which a saved row keeps tenths.  The total uptime, saved the    *)
(* same way as a single number, is left out.                                *)
(***************************************************************************)
EXTENDS Integers, Sequences, FiniteSets

CONSTANTS Diffs,     \* difficulties of the shares that are found, each once
          Empty,     \* those found with an empty extranonce2
          Unit,      \* parts of a difficulty of 1, a multiple of 10
          Rows,      \* MAX_SCOREBOARD
          Base,      \* 2^64: hashes are counted in two limbs
          Steps,     \* hashes counted in one update, less than Base
          QueueSize, \* NVS_QUEUE_LENGTH
          MaxHigh,   \* bound: the high limb
          MaxBoots   \* bound: restarts

VARIABLES
    plays,    \* bound: whether a behaviour finds shares or counts hashes
    board,    \* the Scoreboard: rows and count; 0 in a row never used
    best,     \* best_nonce_diff
    writer,   \* the result task: its place, the share and the row it is at
    left,     \* bound: shares not found yet
    noinit,   \* NoinitState: both limbs
    queue,    \* nvs_save_queue
    flash,    \* what is stored: best difficulty, rows, both limbs
    boots,    \* restarts
    skipped,  \* a stored row could not be parsed at a boot (history)
    counted,  \* hashes that must not be forgotten (history)
    durable   \* hashes last saved whole, both limbs (history)

vars == <<plays, board, best, writer, left, noinit, queue, flash, boots, skipped, counted, durable>>

Indices == 0 .. Rows - 1
NoRow == 0
Idle == [pc |-> "idle", share |-> NoRow, i |-> 0]
Zero == [high |-> 0, low |-> 0]
Value(n) == n.high * Base + n.low

\* snprintf with %.1f, and the cast to uint64_t.
Rounded(d) == (Unit \div 10) * ((d + Unit \div 20) \div (Unit \div 10))
Whole(d) == d \div Unit

\* sscanf takes no empty field: such a row is left out.
Parses(row) == row \notin {Rounded(d) : d \in Empty}

Init ==
    /\ plays \in {"shares", "hashes"}
    /\ board = [rows |-> [i \in Indices |-> NoRow], count |-> 0]
    /\ best = 0 /\ writer = Idle /\ left = Diffs
    /\ noinit = Zero /\ queue = <<>>
    /\ flash = [best |-> 0, rows |-> [i \in Indices |-> NoRow], high |-> 0, low |-> 0]
    /\ boots = 0 /\ skipped = FALSE /\ counted = 0 /\ durable = 0

\* The settings task is handed one value.
Room == Len(queue) < QueueSize
Queued(key, index, value) == Append(queue, [key |-> key, index |-> index, value |-> value])

-----------------------------------------------------------------------------
(* A share is found: account_share of the ASIC result task *)

Found(d) ==
    /\ plays = "shares" /\ writer.pc = "idle" /\ d \in left
    /\ writer' = [pc |-> "best", share |-> d, i |-> 0] /\ left' = left \ {d}
    /\ UNCHANGED <<plays, board, best, noinit, queue, flash, boots, skipped, counted, durable>>

\* SYSTEM_notify_found_nonce.
SYSTEM_notify_found_nonce ==
    /\ writer.pc = "best"
    /\ IF Whole(writer.share) > best
       THEN /\ Room
            /\ best' = Whole(writer.share) /\ queue' = Queued("best", 0, Whole(writer.share))
       ELSE UNCHANGED <<best, queue>>
    /\ writer' = [writer EXCEPT !.pc = "add"]
    /\ UNCHANGED <<plays, board, left, noinit, flash, boots, skipped, counted, durable>>

\* scoreboard_add: a share below a full board is none of its business; otherwise
\* the mutex is taken, with the row below the last one or the last one.
AddBegin ==
    /\ writer.pc = "add"
    /\ IF board.count = Rows /\ writer.share <= board.rows[Rows - 1]
       THEN writer' = Idle
       ELSE writer' = [writer EXCEPT !.pc = "shift",
                                     !.i = IF board.count < Rows THEN board.count ELSE Rows - 1]
    /\ UNCHANGED <<plays, board, best, left, noinit, queue, flash, boots, skipped, counted, durable>>

\* Mutant: rows move down without being saved.
ShiftUnsaved ==
    /\ writer.pc = "shift"
    /\ writer.i > 0 /\ writer.share > board.rows[writer.i - 1]
    /\ board' = [board EXCEPT !.rows[writer.i] = board.rows[writer.i - 1]]
    /\ writer' = [writer EXCEPT !.i = @ - 1]
    /\ UNCHANGED <<plays, best, left, noinit, queue, flash, boots, skipped, counted, durable>>

\* A row above the share moves down by one and is saved there, from below.
Shift ==
    /\ writer.pc = "shift" /\ Room
    /\ writer.i > 0 /\ writer.share > board.rows[writer.i - 1]
    /\ board' = [board EXCEPT !.rows[writer.i] = board.rows[writer.i - 1]]
    /\ queue' = Queued("row", writer.i, Rounded(board.rows[writer.i - 1]))
    /\ writer' = [writer EXCEPT !.i = @ - 1]
    /\ UNCHANGED <<plays, best, left, noinit, flash, boots, skipped, counted, durable>>

\* The share takes its row, is saved, and the mutex is given back.
AddEnd ==
    /\ writer.pc = "shift" /\ Room
    /\ writer.i > 0 => writer.share <= board.rows[writer.i - 1]
    /\ board' = [rows  |-> [board.rows EXCEPT ![writer.i] = writer.share],
                 count |-> IF board.count < Rows THEN board.count + 1 ELSE board.count]
    /\ queue' = Queued("row", writer.i, Rounded(writer.share))
    /\ writer' = Idle
    /\ UNCHANGED <<plays, best, left, noinit, flash, boots, skipped, counted, durable>>

-----------------------------------------------------------------------------
(* Hashes are counted: SYSTEM_noinit_update of the hashrate monitor *)

\* Mutant: the wrap of the low limb is not carried.
CountWithoutCarry(h) ==
    /\ plays = "hashes"
    /\ noinit' = [noinit EXCEPT !.low = (@ + h) % Base]
    /\ counted' = counted + h /\ counted' <= MaxHigh * Base
    /\ UNCHANGED <<plays, board, best, writer, left, queue, flash, boots, skipped, durable>>

\* Once a second.  Both limbs are one step: they are written a few instructions
\* apart.
Count(h) ==
    /\ plays = "hashes"
    /\ LET low == (noinit.low + h) % Base
       IN noinit' = [high |-> IF low < noinit.low THEN noinit.high + 1 ELSE noinit.high,
                     low  |-> low]
    /\ noinit'.high <= MaxHigh
    /\ counted' = counted + h
    /\ UNCHANGED <<plays, board, best, writer, left, queue, flash, boots, skipped, durable>>

\* Once an hour: the high limb is saved before the low one.
SaveHashes ==
    /\ plays = "hashes" /\ Len(queue) + 2 <= QueueSize
    /\ queue' = queue \o << [key |-> "high", index |-> 0, value |-> noinit.high],
                            [key |-> "low", index |-> 0, value |-> noinit.low] >>
    /\ UNCHANGED <<plays, board, best, writer, left, noinit, flash, boots, skipped, counted, durable>>

-----------------------------------------------------------------------------
(* The settings task and restarts *)

\* nvs_task writes one value.
Store ==
    /\ queue # <<>>
    /\ LET u == Head(queue)
       IN flash' = CASE u.key = "row"  -> [flash EXCEPT !.rows[u.index] = u.value]
                     [] u.key = "best" -> [flash EXCEPT !.best = u.value]
                     [] u.key = "high" -> [flash EXCEPT !.high = u.value]
                     [] u.key = "low"  -> [flash EXCEPT !.low = u.value]
    /\ durable' = IF Head(queue).key \in {"high", "low"} /\ Tail(queue) = <<>>
                   THEN Value(flash') ELSE durable
    /\ queue' = Tail(queue)
    /\ UNCHANGED <<plays, board, best, writer, left, noinit, boots, skipped, counted>>

\* scoreboard_init: the stored rows up to the first one never used, without
\* those that do not parse.
Stored == [i \in 1 .. Rows |-> flash.rows[i - 1]]
Used == {i \in 1 .. Rows : \A j \in 1 .. i : Stored[j] # NoRow}
Loaded == SelectSeq(SubSeq(Stored, 1, Cardinality(Used)), Parses)

\* Mutant: what flash has, whatever memory kept.
MergedFlash(kept) == [high |-> flash.high, low |-> flash.low]

\* SYSTEM_init_system: the larger of what memory kept and what flash has.
Merged(kept) ==
    IF flash.high > kept.high THEN [high |-> flash.high, low |-> flash.low]
    ELSE IF flash.high = kept.high /\ flash.low > kept.low
         THEN [kept EXCEPT !.low = flash.low]
         ELSE kept

\* A restart, which leaves noinit memory alone, or a power cut, which does not.
Restart(warm) ==
    /\ boots < MaxBoots /\ boots' = boots + 1
    /\ board' = [rows  |-> [i \in Indices |-> IF i < Len(Loaded) THEN Loaded[i + 1] ELSE NoRow],
                 count |-> Len(Loaded)]
    /\ skipped' = (skipped \/ Len(Loaded) < Cardinality(Used))
    /\ best' = flash.best
    /\ noinit' = Merged(IF warm THEN noinit ELSE Zero)
    /\ counted' = IF warm THEN counted ELSE durable
    /\ writer' = Idle /\ queue' = <<>>
    /\ UNCHANGED <<plays, left, flash, durable>>

Next ==
    \/ \E d \in Diffs : Found(d)
    \/ SYSTEM_notify_found_nonce \/ AddBegin \/ Shift \/ AddEnd
    \/ \E h \in Steps : Count(h)
    \/ SaveHashes \/ Store
    \/ \E warm \in BOOLEAN : Restart(warm)

Spec == Init /\ [][Next]_vars

-----------------------------------------------------------------------------
(* Properties *)

Descending(rows, n) == \A i \in 0 .. n - 2 : rows[i] >= rows[i + 1]

\* The web interface, which takes the mutex, sees the scoreboard in order,
\* whatever insertion a restart tore apart and whatever rows were dropped for their
\* empty extranonce2 since (scoreboard_add, scoreboard_init).
ScoreboardInOrder ==
    writer.pc # "shift" => Descending(board.rows, board.count)

\* The step of KeptScores: a stored row that the scoreboard still has stays stored.
RowKept ==
    boots' = boots /\ ~skipped =>
        \A i \in Indices :
            LET row == flash.rows[i]
            IN (\E j \in Indices : Rounded(board.rows[j]) = row)
                   => \E j \in Indices : flash'.rows[j] = row

\* A row that is still on the scoreboard is never overwritten in flash by one
\* that moved in before it has been saved in its own new place: a power cut in the
\* middle of an insertion loses at most the share being inserted (scoreboard_add
\* saves from below).  That is so as long as scoreboard_init has dropped no row: the
\* rows after a dropped one are saved one place too high afterwards.
KeptScores == [][RowKept]_vars

\* The best difficulty in flash is never below that of a row in flash, but for
\* what the rounding of the row adds: the record is saved first.
BestCoversBoard ==
    \A i \in Indices : flash.rows[i] <= (flash.best + 1) * Unit

\* Counted hashes are not forgotten: a restart keeps all of them, a power cut those
\* of the last hour that was saved whole, with the two limbs torn apart or not and
\* the low one wrapping around (SYSTEM_noinit_update, SYSTEM_init_system).
HashesKept == Value(noinit) >= counted

=============================================================================
