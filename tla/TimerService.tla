---------------------------- MODULE TimerService ----------------------------
(***************************************************************************)
(* What drivers/timeout.h promises its clients, without counter, lists or  *)
(* interrupt: a timer is stopped, running or expired; it expires only if   *)
(* it was started and not cancelled since; expired timers are called once  *)
(* each, in the order in which they expired.                               *)
(***************************************************************************)
EXTENDS Sequences, SequencesExt

CONSTANT Timers

VARIABLES
    running,   \* the timers started and not yet expired
    expired    \* the timers whose callbacks are due, in order of expiry

svars == <<running, expired>>

ServiceTypeOK ==
    /\ running \in SUBSET Timers
    /\ expired \in Seq(Timers)

ServiceInit ==
    /\ running = {}
    /\ expired = <<>>

Start(t) ==
    /\ t \notin running /\ t \notin Range(expired)
    /\ running' = running \cup {t}
    /\ UNCHANGED expired

Expire(t) ==
    /\ t \in running
    /\ running' = running \ {t}
    /\ expired' = Append(expired, t)

CancelRunning(t) ==
    /\ t \in running
    /\ running' = running \ {t}
    /\ UNCHANGED expired

CancelExpired(i) ==
    /\ expired' = RemoveAt(expired, i)
    /\ UNCHANGED running

\* The first expired timer is taken off to be called.
Serve ==
    /\ expired # <<>>
    /\ expired' = Tail(expired)
    /\ UNCHANGED running

ServiceNext ==
    \/ \E t \in Timers : Start(t) \/ Expire(t) \/ CancelRunning(t)
    \/ \E i \in 1..Len(expired) : CancelExpired(i)
    \/ Serve

ServiceSpec == ServiceInit /\ [][ServiceNext]_svars

=============================================================================
