--------------------------- MODULE BridgeUpdate ---------------------------
(***************************************************************************)
(* The control link to the RP2040 bridge and the update of its firmware:    *)
(* bzm_bridge.c, bzm_bridge_update.c, bzm_bridge_swd.c and the flash stub.   *)
(*                                                                         *)
(* Two tasks of the host use the link.  The power task transacts at any     *)
(* time; the update task takes the maintenance lease, closes the link,      *)
(* rewrites the flash over SWD, opens the link again and asks the new       *)
(* firmware who it is.  Every step over a wire may fail; an answer may come *)
(* after its transaction has given up.                                     *)
(*                                                                         *)
(* Flash and image are counted in units: a page is PageSize units, a chunk  *)
(* ChunkSize, a sector SectorSize.                                          *)
(***************************************************************************)
EXTENDS Integers, Sequences

CONSTANTS PageSize, ChunkSize, SectorSize,  \* BZM_BRIDGE_FLASH_*_SIZE, SWD_FLASH_SECTOR_SIZE
          Capacity,                         \* BZM_BRIDGE_FLASH_CAPACITY
          IdSpace,                          \* command identifiers, 256 in the code
          MaxFlight                         \* bound: answers on the line

VARIABLES
    link,      \* INITIALIZED, MAINTENANCE and NEXT_COMMAND_ID
    txn,       \* the transaction that holds BRIDGE_LOCK, or None
    line,      \* answers on their way to the host, oldest first
    mistaken,  \* history: an answer to another request was accepted
    update,    \* UPDATE_STATUS and the image of the update task
    pc,        \* the update task
    offset,    \* offset of swd_flash's loops
    cores,     \* the RP2040: halted cores, its firmware, the stub's context, seen running
    flash,     \* what each unit of its flash holds
    faulty     \* history: something failed during this update

vars == <<link, txn, line, mistaken, update, pc, offset, cores, flash, faulty>>
linkVars == <<link, txn, line, mistaken>>
None == [who |-> "none"]
Units == 0 .. Capacity - 1
NoCores == [halted |-> {}, firmware |-> "dead", ctx |-> "none", ran |-> FALSE]
Alive == cores.firmware \in {"old", "new"}
LeaseHeld == pc \notin {"idle", "acquire", "query", "end", "over"}

(***************************************************************************)
(* Transactions: transact, bzm_bridge_encode_request, decode_response       *)
(***************************************************************************)
\* The answers still on the line belong to requests that are over.  One that is IdSpace
\* requests late has arrived or is lost.
Aged(answers) ==
    LET old == [i \in DOMAIN answers |-> [answers[i] EXCEPT !.own = FALSE, !.age = @ + 1]]
    IN SelectSeq(old, LAMBDA a : a.age < IdSpace)

Usable == link.initialized /\ ~link.maintenance

\* Mutant: every request carries the same identifier.
NextIdConstant == link

NextId == [link EXCEPT !.next_id = (@ + 1) % IdSpace]

\* The lock is taken, the input flushed and the request written.  A bridge whose
\* firmware runs will answer.
Send(who, what) ==
    /\ txn = None /\ Usable
    /\ txn' = [who |-> who, what |-> what, id |-> link.next_id]
    /\ link' = NextId
    /\ line' = IF Alive /\ Len(line) < MaxFlight
               THEN Append(Aged(line), [id |-> link.next_id, own |-> TRUE, age |-> 0])
               ELSE Aged(line)
    /\ UNCHANGED mistaken

DecodeResponse(answer) == answer.id = txn.id

\* An answer arrives for the transaction that waits: it is its own, or it is refused.
Received(ok) ==
    /\ txn # None /\ line # <<>>
    /\ ok = DecodeResponse(Head(line))
    /\ mistaken' = (mistaken \/ (ok /\ ~Head(line).own))
    /\ line' = Tail(line) /\ txn' = None /\ UNCHANGED link

\* read_exact gives up, the answer says error, or the write does not finish.  The answer
\* may still come.
TimedOut == /\ txn # None /\ txn' = None /\ UNCHANGED <<link, line, mistaken>>

\* Nobody waits: the answer stays in the buffer until the next request flushes it.
Unread == /\ txn = None /\ line # <<>> /\ line' = Tail(line)
          /\ UNCHANGED <<link, txn, mistaken, update, pc, offset, cores, flash, faulty>>

(***************************************************************************)
(* The power task on the link                                              *)
(***************************************************************************)
PowerAsks == /\ Send("power", "poll")
             /\ UNCHANGED <<update, pc, offset, cores, flash, faulty>>
PowerDone == /\ txn.who = "power" /\ ((\E ok \in BOOLEAN : Received(ok)) \/ TimedOut)
             /\ UNCHANGED <<update, pc, offset, cores, flash, faulty>>

\* asic_reset_platform calls BZM_bridge_init before every reset: a link that is closed
\* is opened, and closed again when the bridge does not obey.
\* Its board I/O excludes the maintenance lease.
PowerInit == /\ txn = None /\ ~link.initialized /\ ~LeaseHeld
             /\ link' = [link EXCEPT !.initialized = Alive]
             /\ UNCHANGED <<txn, line, mistaken, update, pc, offset, cores, flash, faulty>>

(***************************************************************************)
(* BZM_bridge_update_start and production_prepare                           *)
(***************************************************************************)
\* bzm_bridge_update_validate_image and validate_manifest look at the image only.
ValidateUpload(size, valid, force) == size \in PageSize + 1 .. Capacity /\ (valid \/ force)

Start(size, valid, force) ==
    /\ ~update.running /\ pc = "idle"
    /\ ValidateUpload(size, valid, force)
    /\ \/ /\ update' = [state |-> "PREPARING", running |-> TRUE, size |-> size,
                        manifest |-> valid, err |-> FALSE]
          /\ pc' = "acquire" /\ faulty' = FALSE
       \/ /\ update' = [state |-> "FAILED", running |-> FALSE, size |-> size,
                        manifest |-> valid, err |-> TRUE]      \* xTaskCreateWithCaps fails
          /\ faulty' = TRUE /\ UNCHANGED pc
    /\ offset' = 0
    /\ UNCHANGED <<linkVars, cores, flash>>

\* A step of the update task goes on, or it fails and the task goes on with the error.
Reports(state) == update' = [update EXCEPT !.state = state]
Goto(label) == pc' = label /\ UNCHANGED <<update, faulty>>
GotoReporting(label, state) == pc' = label /\ Reports(state) /\ UNCHANGED faulty
Error(label) == pc' = label /\ update' = [update EXCEPT !.err = TRUE]
Fail(label) == Error(label) /\ faulty' = TRUE

\* The hooks of the supervisor grant or refuse the lease.
Acquire == /\ pc = "acquire" /\ (Goto("begin") \/ Fail("over"))
           /\ UNCHANGED <<linkVars, offset, cores, flash>>

\* BZM_bridge_begin_maintenance: waits for the lock, closes the link.
BeginMaintenance ==
    /\ pc = "begin" /\ txn = None
    /\ link' = [link EXCEPT !.maintenance = TRUE, !.initialized = FALSE]
    /\ line' = <<>>
    /\ Goto("pins")
    /\ UNCHANGED <<txn, mistaken, offset, cores, flash>>

(***************************************************************************)
(* bzm_bridge_swd_flash                                                     *)
(***************************************************************************)
ConfigurePins ==
    /\ pc = "pins" /\ (Goto("core1") \/ Fail("restore"))
    /\ UNCHANGED <<linkVars, offset, cores, flash>>

\* swd_halt_core, then swd_attach_target and swd_halt_attached_core on core 0.
HaltCore1 ==
    /\ pc = "core1"
    /\ \/ cores' = [cores EXCEPT !.halted = @ \cup {1}] /\ Goto("core0")
       \/ UNCHANGED cores /\ Fail("restore")
    /\ UNCHANGED <<linkVars, offset, flash>>
HaltCore0 ==
    /\ pc = "core0"
    /\ \/ cores' = [cores EXCEPT !.halted = @ \cup {0}, !.firmware = "halted"] /\ Goto("stub")
       \/ UNCHANGED cores /\ Fail("restore")
    /\ UNCHANGED <<linkVars, offset, flash>>

\* swd_mem_write_block of the stub.
UploadStub ==
    /\ pc = "stub"
    /\ \/ cores' = [cores EXCEPT !.ctx = "idle"] /\ GotoReporting("erase", "ERASING")
       \/ Fail("restore") /\ UNCHANGED cores
    /\ UNCHANGED <<linkVars, offset, flash>>

EraseLength(size) == ((size + SectorSize - 1) \div SectorSize) * SectorSize

\* Mutant: the rest of the image that is longer than a page is programmed as it is.
NextChunkUnrounded(size, at) ==
    LET source == IF size - at < ChunkSize THEN size - at ELSE ChunkSize
    IN [source |-> source, program |-> IF source < PageSize THEN PageSize
                                       ELSE source - (source % PageSize)]

\* bzm_bridge_flash_next_chunk: whole pages; a last part of a page is filled up.
NextChunk(size, at) ==
    LET most   == IF size - at < ChunkSize THEN size - at ELSE ChunkSize
        source == IF most >= PageSize THEN most - (most % PageSize) ELSE most
    IN [source |-> source, program |-> IF source < PageSize THEN PageSize ELSE source]

\* rp2040_flash_stub_entry, its two operations: programming is only as good as the
\* erasing was.
StubErase == [u \in Units |-> IF u < EraseLength(update.size) THEN "erased" ELSE flash[u]]
StubProgram(damaged) ==
    LET chunk == NextChunk(update.size, offset)
        data(u) == CASE damaged -> "bad"
                     [] u < offset + chunk.source -> "image"
                     [] OTHER -> "pad"
    IN [u \in Units |-> IF u \notin offset .. offset + chunk.program - 1 THEN flash[u]
                        ELSE IF flash[u] = "erased" THEN data(u) ELSE "bad"]

\* swd_run_flash_operation up to the resumption of the core: the context is fresh, the
\* core may still look halted.
RunStub ==
    /\ pc \in {"erase", "program"} /\ cores.ctx # "busy" /\ (pc = "program" => offset < update.size)
    /\ \/ /\ cores' = [cores EXCEPT !.ctx = "idle", !.ran = FALSE]
          /\ Goto(IF pc = "erase" THEN "poll_erase" ELSE "poll_program")
       \/ Fail("restore") /\ UNCHANGED cores
    /\ UNCHANGED <<linkVars, offset, flash>>

\* The core leaves the halt, does the operation and stops at its breakpoint.  The last
\* word of the data block was not acknowledged: it may be damaged without an error.
StubStarts ==
    /\ pc \in {"poll_erase", "poll_program"} /\ cores.ctx = "idle"
    /\ cores' = [cores EXCEPT !.ctx = "busy"]
    /\ UNCHANGED <<linkVars, update, pc, offset, flash, faulty>>
StubStops ==
    /\ pc \in {"poll_erase", "poll_program"} /\ cores.ctx = "busy"
    /\ \/ /\ cores' = [cores EXCEPT !.ctx = "done"]
          /\ \/ pc = "poll_erase" /\ flash' = StubErase /\ UNCHANGED faulty
             \/ \E damaged \in BOOLEAN : /\ pc = "poll_program"
                                         /\ flash' = StubProgram(damaged)
                                         /\ faulty' = (faulty \/ damaged)
       \/ cores' = [cores EXCEPT !.ctx = "error"] /\ faulty' = TRUE /\ UNCHANGED flash
    /\ UNCHANGED <<linkVars, update, pc, offset>>

\* Mutant: a halted core without the stub's verdict is a failure.
PollResultHasty(ran, halted, ctx) ==
    CASE ~halted -> "WAIT" [] ctx = "done" -> "COMPLETE" [] OTHER -> "FAILED"

\* bzm_bridge_flash_stub_poll_result: a core that has not been seen running and whose
\* context is untouched is waited for.
PollResult(ran, halted, ctx) ==
    CASE ~halted                 -> "WAIT"
      [] ctx = "done"            -> "COMPLETE"
      [] ~ran /\ ctx = "idle"    -> "WAIT"
      [] OTHER                   -> "FAILED"

\* swd_run_stub_attached, one poll; after the last one the core is halted.
Poll ==
    /\ pc \in {"poll_erase", "poll_program"}
    /\ LET halted == cores.ctx # "busy"
           result == PollResult(cores.ran, halted, cores.ctx)
       IN CASE result = "WAIT" -> /\ cores' = [cores EXCEPT !.ran = @ \/ ~halted]
                                  /\ UNCHANGED <<pc, offset, update, faulty>>
            [] result = "COMPLETE" ->
                  /\ UNCHANGED cores
                  /\ IF pc = "poll_erase"
                     THEN GotoReporting("program", "PROGRAMMING") /\ UNCHANGED offset
                     ELSE /\ Goto("program")
                          /\ offset' = offset + NextChunk(update.size, offset).source
            [] OTHER -> Error("restore") /\ UNCHANGED <<cores, offset, faulty>>
    /\ UNCHANGED <<linkVars, flash>>
PollLimit == /\ pc \in {"poll_erase", "poll_program"} /\ Fail("restore")
             /\ cores' = [cores EXCEPT !.ctx = IF @ = "busy" THEN "error" ELSE @]
             /\ UNCHANGED <<linkVars, offset, flash>>

Programmed ==
    /\ pc = "program" /\ offset >= update.size
    /\ offset' = 0 /\ GotoReporting("verify", "VERIFYING")
    /\ UNCHANGED <<linkVars, cores, flash>>

\* Mutant: the verification stops one chunk short.
VerifyLengthShort(size, at) == IF size - at > ChunkSize THEN ChunkSize ELSE 0

VerifyLength(size, at) == IF size - at > ChunkSize THEN ChunkSize ELSE size - at

\* swd_mem_verify_block: every unit of the image is read back.
VerifyChunk ==
    /\ pc = "verify" /\ offset < update.size
    /\ LET length == VerifyLength(update.size, offset)
           same   == \A u \in offset .. offset + length - 1 : flash[u] = "image"
       IN \/ same /\ offset' = offset + ChunkSize /\ Goto("verify")
          \/ ~same /\ Error("restore") /\ UNCHANGED <<offset, faulty>>
          \/ Fail("restore") /\ UNCHANGED offset
    /\ UNCHANGED <<linkVars, cores, flash>>
Verified ==
    /\ pc = "verify" /\ offset >= update.size
    /\ GotoReporting("reset", "RESETTING")
    /\ UNCHANGED <<linkVars, offset, cores, flash>>

\* The firmware a reset starts: one with damaged units may run all the same.
Booted == IF \A u \in 0 .. update.size - 1 : flash[u] = "image" THEN {"new"} ELSE {"new", "dead"}

\* swd_reset_system_attached.
ResetSystem ==
    /\ pc = "reset"
    /\ \/ /\ \E firmware \in Booted : cores' = [NoCores EXCEPT !.firmware = firmware]
          /\ Goto("restore")
       \/ UNCHANGED cores /\ Fail("restore")
    /\ UNCHANGED <<linkVars, offset, flash>>

(***************************************************************************)
(* production_restore, production_query and the end of update_task          *)
(***************************************************************************)
\* BZM_bridge_end_maintenance and the first half of BZM_bridge_init, which releases the
\* lock before the two commands that make the board safe.
EndMaintenance ==
    /\ pc = "restore" /\ txn = None
    /\ \/ link' = [link EXCEPT !.maintenance = FALSE, !.initialized = TRUE] /\ Goto("init")
       \/ link' = [link EXCEPT !.maintenance = FALSE] /\ Fail("release")   \* no UART
    /\ UNCHANGED <<txn, line, mistaken, offset, cores, flash>>

\* The commands of the update task: 5 V off, reset low, the fan, the identity.
Commands == {"init", "reset_low", "fan", "query"}
AfterCommand == [init |-> "reset_low", reset_low |-> "fan", fan |-> "release", query |-> "end"]

UpdateAsks == /\ pc \in Commands /\ Send("update", pc)
              /\ UNCHANGED <<update, pc, offset, cores, flash, faulty>>
CommandDone == /\ txn.who = "update" /\ Received(TRUE) /\ Goto(AfterCommand[txn.what])
               /\ UNCHANGED <<offset, cores, flash>>

\* A command that fails closes the link in BZM_bridge_init, is ignored for the fan and
\* fails the update for the identity.
CommandFails ==
    /\ txn.who = "update" /\ (Received(FALSE) \/ TimedOut)
    /\ CASE txn.what = "fan"   -> Goto("release")
         [] txn.what = "query" -> Error("over") /\ faulty' = (faulty \/ Alive)
         [] OTHER              -> Error("close") /\ faulty' = (faulty \/ Alive)
    /\ UNCHANGED <<offset, cores, flash>>
Close == /\ pc = "close" /\ txn = None
         /\ link' = [link EXCEPT !.initialized = FALSE]
         /\ line' = <<>> /\ Goto("release")
         /\ UNCHANGED <<txn, mistaken, offset, cores, flash>>

\* The lease is given back, which the hook may refuse; without an error the identity
\* is asked.
Release ==
    /\ pc = "release"
    /\ \/ update.err /\ Goto("over")
       \/ ~update.err /\ GotoReporting("query", "QUERYING")
       \/ Fail("over")
    /\ UNCHANGED <<linkVars, offset, cores, flash>>

\* update_task: an image with a manifest must say the same of itself when it runs.
Identified ==
    /\ pc = "end"
    /\ \/ Goto("over")
       \/ update.manifest /\ Fail("over")
    /\ UNCHANGED <<linkVars, offset, cores, flash>>
Over == /\ pc = "over" /\ pc' = "idle"
        /\ update' = [update EXCEPT !.state = IF update.err THEN "FAILED" ELSE "COMPLETE",
                                    !.running = FALSE]
        /\ UNCHANGED <<linkVars, offset, cores, flash, faulty>>

Init ==
    /\ link = [initialized |-> TRUE, maintenance |-> FALSE, next_id |-> 0]
    /\ txn = None /\ line = <<>> /\ mistaken = FALSE
    /\ update = [state |-> "IDLE", running |-> FALSE, size |-> 0, manifest |-> FALSE,
                 err |-> FALSE]
    /\ pc = "idle" /\ offset = 0 /\ faulty = FALSE
    /\ cores = [NoCores EXCEPT !.firmware = "old"]
    /\ flash = [u \in Units |-> "old"]

Next == \/ Unread \/ PowerAsks \/ PowerDone \/ PowerInit
        \/ \E size \in 0 .. Capacity, valid, force \in BOOLEAN : Start(size, valid, force)
        \/ Acquire \/ BeginMaintenance \/ ConfigurePins \/ HaltCore1 \/ HaltCore0 \/ UploadStub
        \/ RunStub \/ StubStarts \/ StubStops \/ Poll \/ PollLimit \/ Programmed \/ VerifyChunk \/ Verified \/ ResetSystem
        \/ EndMaintenance \/ UpdateAsks \/ CommandDone \/ CommandFails \/ Close
        \/ Release \/ Identified \/ Over

Spec == Init /\ [][Next]_vars

\* bzm_bridge_update_run and bzm_bridge_swd_flash: an update that is reported complete has
\* every unit of the image in the flash and the bridge running it over an open link, even
\* if a block was damaged on its way; one that is reported failed has met a failure; and
\* whatever happens the link leaves maintenance when the update ends.
VerdictIsTrue ==
    /\ update.state = "COMPLETE" => /\ \A u \in 0 .. update.size - 1 : flash[u] = "image"
                                    /\ cores.firmware = "new" /\ link.initialized
    /\ update.state = "FAILED" => faulty
    /\ ~update.running => ~link.maintenance

\* transact: an answer that is accepted is the answer to the request just made, although
\* answers to requests that timed out come in later.
OwnAnswer == ~mistaken
===========================================================================
