--------------------------- MODULE HashMonitor ---------------------------
(***************************************************************************)
(* The displayed hashrate.  The monitor task wakes every second, asks the  *)
(* chips for their hash counters (Bitmain) or takes the driver's counters  *)
(* (Bonanza); the result task records the answers.  A rate is the          *)
(* difference of two readings, and only readings of the same run of the    *)
(* chips may be compared: their counters start again with every reset.     *)
(* A reading is abstracted to the run it was taken in and its time.        *)
(***************************************************************************)
EXTENDS Integers, Sequences, SequencesExt

CONSTANTS
    Window,         \* HASHRATE_COUNTER_WINDOW_US
    Snapshots,      \* HASHRATE_COUNTER_WINDOW_SNAPSHOTS
    MaxTime, MaxRuns        \* bounds

VARIABLES
    driver,         \* the driver has counters of its own (Bonanza)
    now,
    run,            \* number of the chips' current run
    ASIC_initalized,
    was,            \* the monitor task's was_asic_initialized
    asked,          \* the monitor task waits for the answers
    uart,           \* the chips have answered
    event,          \* the reading the result task holds
    measurement,    \* the last reading and the rate, as the runs it compares
    window,         \* the snapshots of the driver's counters
    shown,          \* current_hashrate
    late            \* a reading was recorded after its run had ended

vars == <<driver, now, run, ASIC_initalized, was, asked, uart, event,
          measurement, window, shown, late>>

None == [run |-> 0, time |-> 0]
NoRate == <<>>
NoMeasurement == [reading |-> None, rate |-> NoRate]

----------------------------------------------------------------------------
\* Mutant: the times of the last readings survive.
hashrate_monitor_reset_measurements_rates ==
    /\ measurement' = [measurement EXCEPT !.rate = NoRate]
    /\ window' = window

hashrate_monitor_reset_measurements ==
    /\ measurement' = NoMeasurement
    /\ window' = <<>>

\* Two readings give a rate if they are a second apart; the first gives none.
update_hash_counter(reading) ==
    LET last == measurement.reading IN
    IF last.time # 0 /\ reading.time - last.time < 1
    THEN measurement' = measurement
    ELSE measurement' = [reading |-> reading,
             rate |-> IF last.time = 0 THEN measurement.rate
                                       ELSE <<last.run, reading.run>>]

\* The ring of snapshots; the rate is taken over the youngest that is old enough.
hashrate_counter_window_update(reading) ==
    LET next == Append(IF Len(window) = Snapshots THEN Tail(window) ELSE window, reading)
        Old == {s \in ToSet(next) : reading.time - s.time >= Window}
    IN IF window # <<>> /\ reading.time <= Last(window).time
       THEN UNCHANGED <<window, measurement>>
       ELSE /\ window' = next
            /\ measurement' = [reading |-> reading,
                  rate |-> IF Old = {} THEN measurement.rate
                           ELSE LET base == CHOOSE s \in Old : \A o \in Old : o.time <= s.time
                                IN <<base.run, reading.run>>]

----------------------------------------------------------------------------
(* The monitor task                                                        *)

\* One wake-up: a stop since the last one clears the measurements.
Wake ==
    /\ ~asked
    /\ was' = ASIC_initalized
    /\ asked' = ASIC_initalized
    /\ IF was /\ ~ASIC_initalized
       THEN hashrate_monitor_reset_measurements
       ELSE IF ASIC_initalized /\ driver
            THEN hashrate_counter_window_update([run |-> run, time |-> now])
            ELSE UNCHANGED <<measurement, window>>
    /\ uart' = (uart \/ (ASIC_initalized /\ ~driver))
    /\ shown' = IF ASIC_initalized THEN shown ELSE NoRate
    /\ UNCHANGED <<driver, now, run, ASIC_initalized, event, late>>

\* 100 ms later: the sum of what has come is displayed.
Show ==
    /\ asked
    /\ asked' = FALSE
    /\ shown' = measurement.rate
    /\ UNCHANGED <<driver, now, run, ASIC_initalized, was, uart, event,
                   measurement, window, late>>

----------------------------------------------------------------------------
(* The result task                                                         *)

\* ASIC_process_work returns a register answer, stamped as it is received.
ReceiveRegister ==
    /\ ASIC_initalized /\ uart /\ event = None
    /\ uart' = FALSE
    /\ event' = [run |-> run, time |-> now]
    /\ UNCHANGED <<driver, now, run, ASIC_initalized, was, asked, measurement,
                   window, shown, late>>

hashrate_monitor_register_read ==
    /\ event # None
    /\ update_hash_counter(event)
    /\ event' = None
    /\ late' = (late \/ event.run < run \/ ~ASIC_initalized)
    /\ UNCHANGED <<driver, now, run, ASIC_initalized, was, asked, uart, window, shown>>

----------------------------------------------------------------------------
(* The rest of the system                                                  *)

\* The board is stopped.
Stop ==
    /\ ASIC_initalized
    /\ ASIC_initalized' = FALSE
    /\ UNCHANGED <<driver, now, run, was, asked, uart, event, measurement, window,
                   shown, late>>

\* It comes up again with cleared counters and an empty line.  Bring-up takes
\* several seconds, so the monitor task has woken since the stop.
Start ==
    /\ ~ASIC_initalized /\ ~was /\ ~asked /\ run < MaxRuns
    /\ ASIC_initalized' = TRUE
    /\ run' = run + 1
    /\ uart' = FALSE
    /\ UNCHANGED <<driver, now, was, asked, event, measurement, window, shown, late>>

\* SYSTEM_clean_jobs_queue, after a clean job or a reconnect.
CleanQueue ==
    /\ hashrate_monitor_reset_measurements
    /\ UNCHANGED <<driver, now, run, ASIC_initalized, was, asked, uart, event, shown, late>>

Tick ==
    /\ now < MaxTime
    /\ now' = now + 1
    /\ UNCHANGED <<driver, run, ASIC_initalized, was, asked, uart, event, measurement,
                   window, shown, late>>

Init ==
    /\ driver \in BOOLEAN
    /\ now = 1 /\ run = 1
    /\ ASIC_initalized = TRUE /\ was = FALSE /\ asked = FALSE
    /\ uart = FALSE /\ event = None
    /\ measurement = NoMeasurement /\ window = <<>> /\ shown = NoRate
    /\ late = FALSE

Next ==
    \/ Wake
    \/ Show
    \/ ReceiveRegister
    \/ hashrate_monitor_register_read
    \/ Stop
    \/ Start
    \/ CleanQueue
    \/ Tick

Spec == Init /\ [][Next]_vars

----------------------------------------------------------------------------
(* A displayed rate never compares a reading with one from before the      *)
(* chips were reset (the "hashrate spike when resuming" that the reset in  *)
(* hashrate_monitor_task is there to prevent).  Excepted, by the history   *)
(* late, is a register answer of the last run that the result task records *)
(* after that reset: the reset does not prevent that one, and the first    *)
(* reading of the next run is then compared with it.                       *)
RateWithinRun == shown # NoRate /\ ~late => shown[1] = shown[2]
=============================================================================
