--------------------------- MODULE MCTimeoutLive ---------------------------
(* The driver as the application uses it: the initialisation creates timers, *)
(* and after it every call of the driver is made from a callback, of any    *)
(* timer: cloudTask and what it calls delete and create the timers of the   *)
(* MQTT client and of the watchdog (mqtt_core.c:1066, 1096-1131,            *)
(* cloud_service.c:184, 298), the LED services each other's (led.c:69), and *)
(* most callbacks return the delay of their own timer.  What the code gives *)
(* is that a callback makes finitely many calls.  Without that, timers that *)
(* are put at the head of the list again and again, or deleted from it,     *)
(* would start its period anew for ever.  MaxTime is beyond what can be     *)
(* reached: the absolute times pass Modulus and are counted anew.           *)
EXTENDS Timeout

CONSTANT MaxCalls   \* bound: the calls of one callback, or of the initialisation

VARIABLE calls      \* that the callback under way may still make

liveVars == <<vars, calls>>

\* A callback, or before all callbacks the initialisation, calls the driver.
CallFromCallback ==
    /\ calls > 0 /\ calls' = calls - 1
    /\ \E t \in Timers : Delete(t) \/ \E timeout \in Timeouts : Create(t, timeout)

EndOfCallback ==
    /\ CallbackDone \/ \E reschedule \in Timeouts : CallbackReschedule(reschedule)
    /\ calls' = 0

DriverStep ==
    \/ SearchList \/ CheckQueue \/ SearchQueue
    \/ CreateAbs \/ CreateInsert
    \/ CallNextCallback
    \/ Tick \/ Isr

LiveNext ==
    /\ ~fault
    /\ \/ DriverStep /\ UNCHANGED calls
       \/ Pop /\ calls' = MaxCalls
       \/ CallFromCallback
       \/ EndOfCallback

LiveSpec == Init /\ calls = MaxCalls /\ [][LiveNext]_liveVars /\ Fairness

\* A call that deletes the timer or starts it anew.
Replaced(t) == op.timer = t

\* Every running timer expires, unless somebody deletes it or starts it anew: whatever
\* callbacks put before it or take from before it, which starts the period of the
\* counter again each time, and whatever times have wrapped meanwhile.
EveryTimerExpires ==
    \A t \in Timers : t \in Range(listHead) ~> t \in Range(executeQueueHead) \/ Replaced(t)

\* Every expired timer is called, unless somebody deletes it or starts it anew, whatever
\* the other callbacks create, delete and reschedule before its turn.
EveryExpiryIsServed ==
    \A t \in Timers : t \in Range(executeQueueHead) ~> calling = t \/ Replaced(t)
=============================================================================
