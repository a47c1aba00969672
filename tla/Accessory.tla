---------------------------- MODULE Accessory ----------------------------
(***************************************************************************)
(* The accessory port: sentences $BAP,command,parameter,value*sum CR LF on *)
(* a UART without flow control, the handlers that read and change settings,*)
(* and the subscriptions, served by a task of their own once the device is *)
(* connected.  A sentence is a sequence of tokens: its start, its text,    *)
(* its checksum, CR and LF.  A token of the host may be lost or damaged on *)
(* the line, once each, which the checksum of the text then shows.         *)
(***************************************************************************)
EXTENDS Integers, Sequences

CONSTANTS
    Commands,       \* what the host says: records [cmd, param, value]
    MaxLength,      \* BAP_MAX_MESSAGE_LEN, in tokens
    QueueSize,      \* messages of bap_uart_send_queue
    Timeout,        \* SUBSCRIPTION_TIMEOUT_MS, in ticks
    Window,         \* ticks in which a repeated message is a duplicate
    Interval,       \* update_interval_ms, in ticks
    Wrap,           \* the clock is unsigned
    MaxTime, MaxSent, MaxDamage     \* bounds

VARIABLES
    line,           \* tokens on their way to the device
    heard,          \* sentences sent by the host, damaged tokens, commands sent
    rx,             \* uart_receive_task: in_message, message, and its state
    filter,         \* last_processed_message and last_message_time
    nvs,            \* the settings a sentence can change
    sub,            \* the subscription of the hashrate
    shown,          \* last_values.hashrate and last_values_valid.hashrate
    update,         \* subscription_update_task and the mode task
    queue,          \* bap_uart_send_queue
    connected,      \* SYSTEM_MODULE.is_connected
    now,            \* esp_timer_get_time
    done            \* the commands dispatched

vars == <<line, heard, rx, filter, nvs, sub, shown, update, queue, connected,
          now, done>>

NoCommand == [cmd |-> "", param |-> "", value |-> ""]
Start == [k |-> "$", v |-> NoCommand]
CR == [k |-> "cr", v |-> NoCommand]
LF == [k |-> "lf", v |-> NoCommand]
Text(c) == [k |-> "text", v |-> c]
Sum(c) == [k |-> "sum", v |-> c]
Garbled(c) == [c EXCEPT !.value = "garbled"]

NoFilter == [message |-> <<>>, time |-> 0]
NoSubscription == [active |-> FALSE, last_subscribe |-> 0, last_response |-> 0]
Unsent == [valid |-> FALSE, value |-> 0]
Quiet == [in_message |-> FALSE, message |-> <<>>, at |-> "reading"]

\* Unsigned milliseconds.
Age(time) == (time[1] - time[2]) % Wrap

Message(kind, param, value) == <<kind, param, value>>

----------------------------------------------------------------------------
(* Sending                                                                 *)

\* BAP_send_message writes at once; what the queue has no room for is lost.
BAP_send_message_with_queue(messages) ==
    IF Len(queue) < QueueSize THEN queue' = queue \o messages
                              ELSE UNCHANGED queue

\* Written, or dropped because the UART is full or its mutex taken.
uart_send_task ==
    /\ queue # <<>>
    /\ queue' = Tail(queue)
    /\ UNCHANGED <<line, heard, rx, filter, nvs, sub, shown, update, connected,
                   now, done>>

----------------------------------------------------------------------------
(* Subscriptions                                                           *)

BAP_subscription_handle_subscribe ==
    /\ sub' = [active |-> TRUE, last_subscribe |-> now, last_response |-> 0]
    /\ shown' = [shown EXCEPT !.valid = FALSE]

BAP_subscription_handle_unsubscribe ==
    /\ sub' = [sub EXCEPT !.active = FALSE]
    /\ UNCHANGED shown

\* Only a connected device takes subscriptions.  The subscription's mutex
\* may stay taken too long, and the request is lost.
BAP_handle_subscription ==
    IF ~connected THEN UNCHANGED <<sub, shown>>
    ELSE \/ update.at # "sending" /\ BAP_subscription_handle_subscribe
         \/ update.at = "sending" /\ UNCHANGED <<sub, shown>>

BAP_handle_unsubscription ==
    \/ update.at # "sending" /\ BAP_subscription_handle_unsubscribe
    \/ update.at = "sending" /\ UNCHANGED <<sub, shown>>

\* BAP_send_subscription_update reads the clock before it takes the mutex.
UpdateBegin ==
    /\ update.started /\ update.at = "idle"
    /\ update' = [update EXCEPT !.at = "begun", !.time = now]
    /\ UNCHANGED <<line, heard, rx, filter, nvs, sub, shown, queue, connected,
                   now, done>>

Due(time) == sub.active /\ Age(<<time, sub.last_response>>) >= Interval

\* Mutant: a subscription that is being served does not end.
TimedOutIdle(time) ==
    sub.active /\ ~Due(time) /\ Age(<<time, sub.last_subscribe>>) > Timeout

TimedOut(time) == sub.active /\ Age(<<time, sub.last_subscribe>>) > Timeout

\* The hashrate of the moment is 0 or 1.
BAP_send_if_changed(hashrate) ==
    IF shown.valid /\ shown.value = hashrate THEN UNCHANGED <<shown, queue>>
    ELSE /\ shown' = [valid |-> TRUE, value |-> hashrate]
         /\ BAP_send_message_with_queue(<<Message("RES", "hashrate", hashrate)>>)

UpdateRun ==
    /\ update.at = "begun"
    /\ IF TimedOut(update.time)
       THEN /\ sub' = [sub EXCEPT !.active = FALSE]
            /\ BAP_send_message_with_queue(<<Message("STA", "hashrate", "timeout")>>)
            /\ UNCHANGED shown
       ELSE IF Due(update.time)
       THEN /\ sub' = [sub EXCEPT !.last_response = update.time]
            /\ \E hashrate \in 0..1 : BAP_send_if_changed(hashrate)
       ELSE UNCHANGED <<sub, shown, queue>>
    /\ update' = [update EXCEPT !.at = "sending"]
    /\ UNCHANGED <<line, heard, rx, filter, nvs, connected, now, done>>

UpdateEnd ==
    /\ update.at = "sending"
    /\ update' = [update EXCEPT !.at = "idle"]
    /\ UNCHANGED <<line, heard, rx, filter, nvs, sub, shown, queue, connected,
                   now, done>>

\* The mode task starts the subscription task once, when Wi-Fi is there.
mode_management_task ==
    /\ update.was # connected
    /\ update' = [update EXCEPT !.was = connected,
                                !.started = @ \/ connected]
    /\ UNCHANGED <<line, heard, rx, filter, nvs, sub, shown, queue, connected,
                   now, done>>

----------------------------------------------------------------------------
(* Settings.  A handler gives the settings after it and whether the device *)
(* then restarts.                                                          *)

InRange(v) == v # "out"
After(settings, restart) == [nvs |-> settings, restart |-> restart]
Kept == After(nvs, FALSE)

SetFrequency(v) == IF InRange(v)
                   THEN After([nvs EXCEPT !["frequency"] = v], FALSE) ELSE Kept
SetVoltage(v) == IF InRange(v)
                 THEN After([nvs EXCEPT !["asic_voltage"] = v], FALSE) ELSE Kept

\* A new name of the network is applied at once if a password is known.
SetSsid(v) == IF nvs["ssid"] = v THEN Kept
              ELSE After([nvs EXCEPT !["ssid"] = v], nvs["password"] # "")
SetPassword(v) == IF nvs["password"] = v THEN Kept
                  ELSE After([nvs EXCEPT !["password"] = v], TRUE)

SetFan(v) == IF InRange(v)
             THEN After([nvs EXCEPT !["auto_fan"] = "off", !["fan_speed"] = v], FALSE)
             ELSE Kept
SetAutoFan(v) == IF InRange(v)
                 THEN After([nvs EXCEPT !["auto_fan"] = v], FALSE) ELSE Kept
SetBlock(p, v) == After([nvs EXCEPT ![p] = v], FALSE)

\* Without Wi-Fi only its credentials can be set.
Allowed(param) == connected \/ param \in {"ssid", "password"}

BAP_handle_settings(c) ==
    LET v == c.value IN
    CASE ~Allowed(c.param) -> Kept
      [] c.param = "frequency" -> SetFrequency(v)
      [] c.param = "asic_voltage" -> SetVoltage(v)
      [] c.param = "ssid" -> SetSsid(v)
      [] c.param = "password" -> SetPassword(v)
      [] c.param = "fan_speed" -> SetFan(v)
      [] c.param = "auto_fan" -> SetAutoFan(v)
      [] c.param \in {"found_block", "show_new_block"} -> SetBlock(c.param, v)
      [] OTHER -> Kept

\* A request is answered and changes nothing.
BAP_handle_request == Kept

----------------------------------------------------------------------------
(* Receiving                                                               *)

Parts(message, kind) == SelectSeq(message, LAMBDA t : t.k = kind)

\* Mutant: the checksum is compared and its verdict ignored.
CheckedNever(message) == Parts(message, "text") # <<>>

\* Only a subscription may come without a checksum, or with one that does
\* not fit; texts that ran together fit none.
Checked(message) ==
    LET texts == Parts(message, "text")
        sums == Parts(message, "sum")
    IN /\ texts # <<>>
       /\ \/ sums # <<>> /\ texts = <<Text(Head(sums).v)>>
          \/ sums # <<>> /\ Head(texts).v.cmd = "SUB"
          \/ sums = <<>> /\ Head(texts).v.cmd \in {"SUB", "UNSUB"}

\* The same bytes as the last message, less than a second later.
Duplicate(message) ==
    message = filter.message /\ Age(<<now, filter.time>>) < Window

\* handlers[cmd](parameter, value), and then the receiving task goes on.
Dispatch(c, reading) ==
    LET after == IF c.cmd = "SET" THEN BAP_handle_settings(c)
                                  ELSE BAP_handle_request
    IN
    /\ done' = done \cup {c}
    /\ nvs' = after.nvs
    /\ rx' = IF after.restart THEN [reading EXCEPT !.at = "restarting"] ELSE reading
    /\ \/ c.cmd = "SUB" /\ BAP_handle_subscription
       \/ c.cmd = "UNSUB" /\ BAP_handle_unsubscription
       \/ c.cmd \in {"REQ", "SET"} /\ UNCHANGED <<sub, shown>>

\* After a CR the message stays open for the LF that may follow.
BAP_parse_message ==
    /\ rx.at = "parse"
    /\ LET m == rx.message
           reading == [rx EXCEPT !.at = "reading", !.in_message = m[Len(m)] = CR]
       IN
       \/ /\ Duplicate(m)
          /\ rx' = reading
          /\ UNCHANGED <<filter, nvs, sub, shown, done>>
       \/ /\ ~Duplicate(m)
          /\ filter' = [message |-> m, time |-> now]
          /\ \/ Checked(m) /\ Dispatch(Head(Parts(m, "text")).v, reading)
             \/ ~Checked(m) /\ rx' = reading /\ UNCHANGED <<nvs, sub, shown, done>>
    /\ UNCHANGED <<line, heard, update, queue, connected, now>>

\* One token: a start begins anew wherever it stands, an end closes what fits.
uart_receive_task ==
    /\ rx.at = "reading" /\ line # <<>>
    /\ line' = Tail(line)
    /\ LET t == Head(line)
           fits == Len(rx.message) < MaxLength
       IN
       rx' = IF t = Start
             THEN [rx EXCEPT !.in_message = TRUE, !.message = <<t>>]
             ELSE IF ~rx.in_message THEN rx
             ELSE IF t \notin {CR, LF}
             THEN [rx EXCEPT !.message = IF fits THEN Append(@, t) ELSE @]
             ELSE IF ~fits THEN [rx EXCEPT !.in_message = FALSE]
             ELSE IF Len(rx.message) > 1
             THEN [rx EXCEPT !.at = "parse", !.message = Append(@, t)]
             ELSE rx
    /\ UNCHANGED <<heard, filter, nvs, sub, shown, update, queue, connected,
                   now, done>>

\* POWER_MANAGEMENT_prepare_restart may refuse, and then nothing happens.
Restart(ok) ==
    /\ rx.at = "restarting"
    /\ IF ok
       THEN /\ line' = <<>> /\ queue' = <<>>
            /\ rx' = Quiet /\ filter' = NoFilter
            /\ sub' = NoSubscription /\ shown' = Unsent
            /\ update' = [at |-> "idle", time |-> 0, was |-> FALSE, started |-> FALSE]
            /\ connected' = FALSE /\ now' = 0
       ELSE /\ rx' = [rx EXCEPT !.at = "reading"]
            /\ UNCHANGED <<line, queue, filter, sub, shown, update, connected, now>>
    /\ UNCHANGED <<heard, nvs, done>>

----------------------------------------------------------------------------
(* The host, the line and the rest of the device.                          *)

\* External: a sentence, with its checksum or, for a subscription, without.
HostSends(c, sum) ==
    /\ heard.count < MaxSent
    /\ sum \/ c.cmd \in {"SUB", "UNSUB"}
    /\ heard' = [heard EXCEPT !.count = @ + 1, !.commands = @ \cup {c}]
    /\ line' = line \o <<Start, Text(c)>> \o (IF sum THEN <<Sum(c)>> ELSE <<>>)
                    \o <<CR, LF>>
    /\ UNCHANGED <<rx, filter, nvs, sub, shown, update, queue, connected,
                   now, done>>

\* External: a token is lost, or its text damaged.
LineNoise ==
    /\ heard.damage < MaxDamage
    /\ heard' = [heard EXCEPT !.damage = @ + 1]
    /\ \E i \in 1..Len(line) :
          \/ line' = SubSeq(line, 1, i - 1) \o SubSeq(line, i + 1, Len(line))
          \/ /\ line[i].k = "text"
             /\ line' = [line EXCEPT ![i] = Text(Garbled(@.v))]
    /\ UNCHANGED <<rx, filter, nvs, sub, shown, update, queue, connected,
                   now, done>>

\* External: time passes, Wi-Fi comes and goes.
World ==
    /\ \/ now < MaxTime /\ now' = now + 1 /\ UNCHANGED connected
       \/ connected' = ~connected /\ UNCHANGED now
    /\ UNCHANGED <<line, heard, rx, filter, nvs, sub, shown, update, queue, done>>

Init ==
    /\ line = <<>> /\ heard = [count |-> 0, damage |-> 0, commands |-> {}]
    /\ rx = Quiet /\ filter = NoFilter
    /\ nvs = [p \in {"frequency", "asic_voltage", "ssid", "password", "fan_speed",
                     "auto_fan", "found_block", "show_new_block"} |-> ""]
    /\ sub = NoSubscription /\ shown = Unsent
    /\ update = [at |-> "idle", time |-> 0, was |-> FALSE, started |-> FALSE]
    /\ queue = <<>> /\ connected = FALSE /\ now = 0
    /\ done = {}

Next ==
    \/ \E c \in Commands, sum \in BOOLEAN : HostSends(c, sum)
    \/ LineNoise
    \/ World
    \/ uart_receive_task
    \/ BAP_parse_message
    \/ \E ok \in BOOLEAN : Restart(ok)
    \/ uart_send_task
    \/ UpdateBegin
    \/ UpdateRun
    \/ UpdateEnd
    \/ mode_management_task

Spec == Init /\ [][Next]_vars

----------------------------------------------------------------------------
(* A setting is only changed by a sentence the host sent as it stands,     *)
(* whatever the line loses and however sentences run together.             *)
SettingsAsSent ==
    \A c \in done : c.cmd \in {"SET", "REQ"} => c \in heard.commands

(* A subscription nobody renewed for the time limit has ended when the     *)
(* subscription task is through, also while answers are still queued.      *)
AbandonedSubscriptionEnds ==
    update.at = "sending" /\ sub.active =>
        \/ sub.last_subscribe >= update.time
        \/ update.time - sub.last_subscribe <= Timeout
==========================================================================
