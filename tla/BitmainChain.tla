---------------------------- MODULE BitmainChain ----------------------------
(***************************************************************************)
(* Starting, stopping and retuning a chain of Bitmain chips.  Two tasks    *)
(* share its UART: the power task, which probes the chain for its chips    *)
(* each time it powers it, and the result task, which takes whatever       *)
(* arrives once ASIC_initalized is set and may sit in SERIAL_rx for 10 s   *)
(* after it was cleared.  An answer to the probe that the result task      *)
(* takes is a chip that was not counted.                                   *)
(*                                                                         *)
(* uart_read_bytes and uart_flush hold the driver's receive mutex (ESP-IDF,*)
(* external), so a flush waits for a read under way.  A task that has seen *)
(* ASIC_initalized is in SERIAL_rx by the end of a 500 ms delay.           *)
(***************************************************************************)
EXTENDS Integers, Sequences, SequencesExt

CONSTANTS
    Families,       \* the chips of this instance, of 1397 .. 1373
    AsicCount,      \* chips the board should have
    Frequencies,    \* clock targets above the 50 MHz of a chain in reset
    MaxFrames       \* bound: frames waiting in the receive buffer

VARIABLES
    family,         \* the driver of the board
    pc,             \* where the power task is
    started,        \* bitmain_started
    initialized,    \* ASIC_initalized
    attempt,        \* attempt of asic_initialize at probing
    uart,           \* the UART driver: installed, baud
    chain,          \* the chips: baud, addressed, clock, hcn, work
    target,         \* POWER_MANAGEMENT_MODULE.frequency_value
    actual,         \* POWER_MANAGEMENT_MODULE.actual_frequency
    rx,             \* frames received and not read yet
    reader,         \* the result task
    taken           \* the frame the result task took last

vars == <<family, pc, started, initialized, attempt, uart, chain, target,
          actual, rx, reader, taken>>

ResetClock == 50
\* A chain out of reset: slow, without addresses, clock at its default.
FreshChain == [baud |-> "slow", addressed |-> 0, clock |-> ResetClock,
               hcn |-> ResetClock, work |-> FALSE]

\* init_retry_attempts of the family.
MaxAttempts == IF family = 1373 THEN 3 ELSE 1

\* SERIAL_clear_buffer and uart_flush wait for the receive mutex.
SERIAL_clear_buffer == reader # "reading" /\ rx' = <<>>

----------------------------------------------------------------------------
(* The clock and what depends on it                                        *)

\* do_frequency_transition trusts what it remembers of the clock.
Ramped(c, from, to) == IF from = to THEN c ELSE [c EXCEPT !.clock = to]

\* The nonce range of a chip depends on its clock; the BM1397 has no such
\* register and the BM1373 uses a constant.
BM1366_set_nonce_space(c, f) == [c EXCEPT !.hcn = f]
BM1368_set_nonce_space(c, f) == [c EXCEPT !.hcn = f]
BM1370_set_nonce_space(c, f) == [c EXCEPT !.hcn = f]
BM1373_set_nonce_space(c, f) == c

NonceSpace(c, f) == CASE family = 1366 -> BM1366_set_nonce_space(c, f)
                      [] family = 1368 -> BM1368_set_nonce_space(c, f)
                      [] family = 1370 -> BM1370_set_nonce_space(c, f)
                      [] family = 1373 -> BM1373_set_nonce_space(c, f)
                      [] family = 1397 -> c

----------------------------------------------------------------------------
(* bitmain_stop                                                            *)

\* Clock down, core voltage off, reset held; either of the two cuts the chain.
StopCut(off, reset) ==
    /\ pc \in {"up", "failed"}
    /\ initialized' = FALSE
    /\ target' = IF initialized THEN ResetClock ELSE target
    /\ chain' = IF off \/ reset THEN FreshChain
                ELSE IF initialized THEN NonceSpace(Ramped(chain, actual, ResetClock), ResetClock)
                ELSE chain
    /\ actual' = 0
    /\ pc' = IF off /\ reset THEN "draining" ELSE "draining_failed"
    /\ UNCHANGED <<family, started, attempt, uart, rx, reader, taken>>

\* 500 ms later: throw away what the chain still said.
StopFlush ==
    /\ pc \in {"draining", "draining_failed"}
    /\ IF started THEN reader # "checked" /\ SERIAL_clear_buffer
                  ELSE UNCHANGED rx
    /\ pc' = IF pc = "draining" THEN "off" ELSE "failed"
    /\ UNCHANGED <<family, started, initialized, attempt, uart, chain, target,
                   actual, reader, taken>>

----------------------------------------------------------------------------
(* bitmain_start                                                           *)

StartVoltage(ok) ==
    /\ pc = "off"
    /\ pc' = IF ok THEN "powered" ELSE "failed"
    /\ UNCHANGED <<family, started, initialized, attempt, uart, chain, target,
                   actual, rx, reader, taken>>

\* Mutant: the memory of the clock outlives the power of the chain.
POWER_MANAGEMENT_init_frequency_target(f) == target' = f /\ actual' = f
POWER_MANAGEMENT_init_frequency(f) == target' = f /\ actual' = ResetClock

StartFlush ==
    /\ pc = "powered"
    /\ IF started THEN reader # "checked" /\ SERIAL_clear_buffer
                  ELSE UNCHANGED rx
    /\ \E f \in Frequencies : POWER_MANAGEMENT_init_frequency(f)
    /\ pc' = "reset"
    /\ started' = TRUE
    /\ UNCHANGED <<family, initialized, attempt, uart, chain, reader, taken>>

\* SERIAL_set_baud fails when the transmit buffer does not drain.
SERIAL_set_baud(u, baud, ok) == IF ok THEN [u EXCEPT !.baud = baud] ELSE u
SERIAL_init(ok) == [installed |-> ok, baud |-> "slow"]

\* asic_initialize up to its loop: its reset is checked, its UART set-up not.
InitReset(reset, serial) ==
    /\ pc = "reset"
    /\ chain' = IF reset THEN FreshChain ELSE chain
    /\ pc' = IF reset THEN "probe" ELSE "failed"
    /\ uart' = IF ~reset THEN uart
               ELSE IF uart.installed THEN SERIAL_set_baud(uart, "slow", serial)
               ELSE SERIAL_init(serial)
    /\ attempt' = 1
    /\ UNCHANGED <<family, started, initialized, target, actual, rx, reader, taken>>

\* A later attempt starts from a slow UART and a reset chain, or gives up.
RetryReset(serial, reset) ==
    /\ pc = "retry"
    /\ uart' = SERIAL_set_baud(uart, "slow", serial)
    /\ chain' = IF serial /\ reset THEN FreshChain ELSE chain
    /\ pc' = IF serial /\ reset THEN "probe" ELSE "failed"
    /\ UNCHANGED <<family, started, initialized, attempt, target, actual, rx,
                   reader, taken>>

\* External: the present chips answer a request for their id if they can
\* understand it, and a bad contact may spoil some of the answers.
Answers(present) ==
    IF uart.installed /\ uart.baud = chain.baud
    THEN [i \in 1..present |-> "id"] ELSE <<>>

\* Mutant: the flag is raised before the chain was probed.
SendProbeAnnounced(present) ==
    /\ pc = "probe"
    /\ reader # "reading"
    /\ rx' = Answers(present)
    /\ initialized' = TRUE
    /\ pc' = "count"
    /\ UNCHANGED <<family, started, attempt, uart, chain, target,
                   actual, reader, taken>>

\* Clear the buffer and ask every chip for its id.
SendProbe(present) ==
    /\ pc = "probe"
    /\ reader # "reading"
    /\ rx' = Answers(present)
    /\ pc' = "count"
    /\ UNCHANGED <<family, started, initialized, attempt, uart, chain, target,
                   actual, reader, taken>>

\* The answers that are well formed; anything else is skipped.
count_asic_chips_with_id_alias == Len(SelectSeq(rx, LAMBDA f : f = "id"))

NextAttempt == IF attempt < MaxAttempts
               THEN pc' = "retry" /\ attempt' = attempt + 1
               ELSE pc' = "failed" /\ UNCHANGED attempt

\* Mutant: any chip that answers is enough.
ChainCompleteAny == count_asic_chips_with_id_alias > 0

ChainComplete == count_asic_chips_with_id_alias = AsicCount

CountChips ==
    /\ pc = "count"
    /\ reader # "reading"
    /\ rx' = <<>>
    /\ IF ChainComplete
       THEN pc' = "configure" /\ UNCHANGED attempt
       ELSE NextAttempt
    /\ chain' = [chain EXCEPT !.addressed = count_asic_chips_with_id_alias]
    /\ UNCHANGED <<family, started, initialized, uart, target, actual, reader, taken>>

\* What the rest of each driver's init leaves of the chain, when it succeeds.
BM1397_init == Ramped(chain, actual, target)
BM1366_init == BM1366_set_nonce_space(Ramped(chain, actual, target), target)
BM1368_init == BM1368_set_nonce_space(Ramped(chain, actual, target), target)
BM1370_init == BM1370_set_nonce_space(Ramped(chain, actual, target), target)

Configured == CASE family = 1397 -> BM1397_init
                [] family = 1366 -> BM1366_init
                [] family = 1368 -> BM1368_init
                [] family = 1370 -> BM1370_init

\* These drivers do not look at the outcome of a write, and leave the baud
\* rate to set_max_baud.
Configure ==
    /\ pc = "configure" /\ family # 1373
    /\ chain' = Configured
    /\ actual' = target
    /\ pc' = "baud"
    /\ UNCHANGED <<family, started, initialized, attempt, uart, target, rx,
                   reader, taken>>

\* Mutant: the clock of an earlier attempt is still believed.
BM1373_clock_base_kept == actual

\* A reset puts the PLL back, whatever an earlier attempt had made of it.
BM1373_clock_base == ResetClock

\* The BM1373 driver checks every write.  It may stop before it touches the
\* baud rate, between the chips' rate and the UART's, or at the PLL, after
\* the ramp has recorded clocks that were not all written.
BM1373_init(stop) ==
    /\ pc = "configure" /\ family = 1373
    /\ chain' = CASE stop = "write" -> chain
                  [] stop \in {"serial", "reset"} -> [chain EXCEPT !.baud = "fast"]
                  [] stop = "pll" -> [chain EXCEPT !.baud = "fast"]
                  [] stop = "none" ->
                        BM1373_set_nonce_space(
                            Ramped([chain EXCEPT !.baud = "fast"],
                                   BM1373_clock_base, target), target)
    /\ uart' = SERIAL_set_baud(uart, "fast", stop \notin {"write", "serial"})
    /\ actual' = IF stop \in {"pll", "none"} THEN target ELSE actual
    /\ rx' = <<>>
    /\ IF stop = "none" THEN pc' = "baud" /\ UNCHANGED attempt ELSE NextAttempt
    /\ UNCHANGED <<family, started, initialized, target, reader, taken>>

\* set_max_baud: the BM1373 has its rate already.
BM1397_set_max_baud(c) == [c EXCEPT !.baud = "fast"]
BM1366_set_max_baud(c) == [c EXCEPT !.baud = "fast"]
BM1368_set_max_baud(c) == [c EXCEPT !.baud = "fast"]
BM1370_set_max_baud(c) == [c EXCEPT !.baud = "fast"]
BM1373_set_max_baud(c) == c

MaxBaud(c) == CASE family = 1397 -> BM1397_set_max_baud(c)
                [] family = 1366 -> BM1366_set_max_baud(c)
                [] family = 1368 -> BM1368_set_max_baud(c)
                [] family = 1370 -> BM1370_set_max_baud(c)
                [] family = 1373 -> BM1373_set_max_baud(c)

\* Mutant: the UART is taken to follow the chips.
FinishAnyway(ok) ==
    /\ pc = "baud"
    /\ chain' = MaxBaud(chain)
    /\ uart' = SERIAL_set_baud(uart, "fast", ok)
    /\ rx' = <<>> /\ initialized' = TRUE /\ pc' = "up"
    /\ UNCHANGED <<family, started, attempt, target, actual, reader, taken>>

\* The end of asic_initialize.
Finish(ok) ==
    /\ pc = "baud"
    /\ chain' = MaxBaud(chain)
    /\ uart' = SERIAL_set_baud(uart, "fast", ok)
    /\ IF ok THEN rx' = <<>> /\ initialized' = TRUE /\ pc' = "up"
             ELSE pc' = "failed" /\ UNCHANGED <<rx, initialized>>
    /\ UNCHANGED <<family, started, attempt, target, actual, reader, taken>>

\* bitmain_apply: a new clock, and the nonce range that belongs to it.
Apply(f) ==
    /\ pc = "up"
    /\ f # target
    /\ target' = f
    /\ actual' = f
    /\ chain' = NonceSpace(Ramped(chain, actual, f), f)
    /\ UNCHANGED <<family, pc, started, initialized, attempt, uart, rx, reader, taken>>

----------------------------------------------------------------------------
(* The mining tasks and the chips                                          *)

SendWork ==
    /\ initialized /\ ~chain.work
    /\ chain' = [chain EXCEPT !.work = TRUE]
    /\ UNCHANGED <<family, pc, started, initialized, attempt, uart, target,
                   actual, rx, reader, taken>>

\* External: chips with work answer; over a UART at another rate it is noise.
Emit ==
    /\ chain.work /\ uart.installed
    /\ Len(rx) < MaxFrames
    /\ rx' = Append(rx, IF uart.baud = chain.baud THEN "result" ELSE "noise")
    /\ UNCHANGED <<family, pc, started, initialized, attempt, uart, chain,
                   target, actual, reader, taken>>

\* ASIC_result_task: the flag, then the read.
CheckInitialized ==
    /\ reader = "idle" /\ initialized
    /\ reader' = "checked"
    /\ UNCHANGED <<family, pc, started, initialized, attempt, uart, chain,
                   target, actual, rx, taken>>

SERIAL_rx ==
    /\ reader = "checked"
    /\ reader' = IF uart.installed THEN "reading" ELSE "idle"
    /\ UNCHANGED <<family, pc, started, initialized, attempt, uart, chain,
                   target, actual, rx, taken>>

\* A frame, with the buffer thrown away behind a bad one, or the timeout.
receive_work ==
    /\ reader = "reading"
    /\ reader' = "idle"
    /\ IF rx = <<>> THEN UNCHANGED <<rx, taken>>
       ELSE /\ taken' = Head(rx)
            /\ rx' = IF Head(rx) = "noise" THEN <<>> ELSE Tail(rx)
    /\ UNCHANGED <<family, pc, started, initialized, attempt, uart, chain,
                   target, actual>>

----------------------------------------------------------------------------
Init ==
    /\ family \in Families
    /\ pc = "off"
    /\ started = FALSE /\ initialized = FALSE
    /\ attempt = 1
    /\ uart = [installed |-> FALSE, baud |-> "slow"]
    /\ chain = FreshChain
    /\ target = ResetClock /\ actual = 0
    /\ rx = <<>>
    /\ reader = "idle" /\ taken = "none"

Next ==
    \/ \E off, reset \in BOOLEAN : StopCut(off, reset)
    \/ StopFlush
    \/ \E ok \in BOOLEAN : StartVoltage(ok)
    \/ StartFlush
    \/ \E reset, serial \in BOOLEAN : InitReset(reset, serial)
    \/ \E serial, reset \in BOOLEAN : RetryReset(serial, reset)
    \/ \E present \in 0..AsicCount : SendProbe(present)
    \/ CountChips
    \/ Configure
    \/ \E stop \in {"write", "serial", "reset", "pll", "none"} : BM1373_init(stop)
    \/ \E ok \in BOOLEAN : Finish(ok)
    \/ \E f \in Frequencies : Apply(f)
    \/ SendWork
    \/ Emit
    \/ CheckInitialized
    \/ SERIAL_rx
    \/ receive_work

Spec == Init /\ [][Next]_vars

----------------------------------------------------------------------------
(* The result task never takes an answer to the probe: a chain is not      *)
(* declared short of a chip because a task of the last round was still     *)
(* reading its UART.                                                       *)
ProbeUndisturbed == taken # "id"

(* Work is only ever given to a chain whose every chip was counted and     *)
(* whose UART talks at the chips' rate, whichever step of a start failed   *)
(* and however often it was repeated.                                      *)
RunningChainIsWhole ==
    initialized => /\ uart.installed
                   /\ uart.baud = chain.baud
                   /\ chain.addressed = AsicCount

(* A running chain has the clock the power task believes it has, and its   *)
(* nonce range was computed for that clock, although a reset changes both  *)
(* behind the back of what the drivers remember.                           *)
ClockAsBelieved ==
    pc = "up" => /\ chain.clock = target /\ actual = target
                 /\ family \in {1366, 1368, 1370} => chain.hcn = target
============================================================================
