---------------------------- MODULE ShareDelivery ----------------------------
(***************************************************************************)
(* What the pool side of the miner promises: a share is written to a pool   *)
(* only in the session that announced its job, and only while no clean job  *)
(* of that session has retired it.  There are no generations, slots, tasks  *)
(* or queues here; WorkPipeline implements this module.                     *)
(***************************************************************************)
EXTENDS Naturals

VARIABLES open,      \* there is a session with the pool
          session,   \* the number of the last session
          era,       \* clean jobs in effect in it
          delivered  \* the last share written in it: session and era of its job

vars == <<open, session, era, delivered>>

Nothing == [session |-> 0, era |-> 0]

Init ==
    /\ open = FALSE /\ session = 0 /\ era = 0
    /\ delivered = Nothing

Open ==
    /\ ~open
    /\ open' = TRUE
    /\ session' = session + 1 /\ era' = 0
    /\ UNCHANGED delivered

\* A clean job retires every earlier job of the session.
Retire ==
    /\ open
    /\ era' = era + 1
    /\ UNCHANGED <<open, session, delivered>>

Close ==
    /\ open
    /\ open' = FALSE /\ era' = 0
    /\ delivered' = Nothing
    /\ UNCHANGED session

\* Only a job of this session that no clean job has retired earns a share.  A
\* clean job that has been announced but has not retired the others yet belongs
\* to the next era.
Deliver ==
    /\ open
    /\ delivered' = [session |-> session, era |-> delivered'.era]
    /\ delivered'.era >= era
    /\ UNCHANGED <<open, session, era>>

Next == Open \/ Retire \/ Close \/ Deliver

Spec == Init /\ [][Next]_vars

=============================================================================
