--------------------------- MODULE MCTimeoutEarly ---------------------------
(* The timer driver with a stopwatch beside it: how many ticks each timer   *)
(* still has to wait before it may expire.                                  *)
EXTENDS Timeout

VARIABLE left   \* the ticks left of the delay timeout_create was called with

TimedNext ==
    \/ /\ ~fault /\ Tick
       /\ left' = [t \in Timers |-> IF left[t] = 0 THEN 0 ELSE left[t] - 1]
    \/ /\ ~fault /\ CreateAbs
       /\ left' = [left EXCEPT ![op.timer] = op.timeout]
    \/ /\ ~fault /\ pc # "createAbs" /\ (MainStep \/ ClientCall)
       /\ UNCHANGED left
    \/ ~fault /\ Isr /\ UNCHANGED left

TimedSpec == Init /\ left = [t \in Timers |-> 0] /\ [][TimedNext]_<<vars, left>>

\* "This function starts the timer provided with an expiry equal to timeout"
\* (timeout.c:323): a timer does not expire before its delay is over.
NeverEarly == \A t \in Range(executeQueueHead) : left[t] = 0
=============================================================================
