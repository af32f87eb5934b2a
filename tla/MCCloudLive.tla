---------------------------- MODULE MCCloudLive ----------------------------
(***************************************************************************)
(* Does the device find its way back?  The cloud service in a world that   *)
(* answers: what the WINC and the broker owe comes before the next task,   *)
(* except for a bounded number of faults.                                  *)
(*                                                                         *)
(* A fault happens only while no PINGRESP and no SUBACK is awaited and the *)
(* client notices it at once: by OverdueLocksOut of MqttClient one such    *)
(* response that does not come in time ends everything.  Nor must it come  *)
(* in one receive with another packet, which MaxInbox > 1 allows.          *)
(*                                                                         *)
(* cloudTask runs every 500 ms, so it runs at most Patience times (20 in   *)
(* the code) while mqttTimeoutTaskTimer runs, and not before               *)
(* checkBackTimer (50 ms).  MAIN_dataTask publishes once a second, so that *)
(* one round finds nothing to publish before the next one does.            *)
(***************************************************************************)
EXTENDS WifiCredentials

CONSTANTS
    Faults,         \* bound: the faults of a behaviour
    Patience        \* rounds of cloudTask before mqttTimeoutTask: 10 s / 500 ms

VARIABLES
    faults,
    rounds,      \* of cloudTask since mqttTimeoutTaskTimer was started
    published    \* since the last round without a PUBLISH to send?

liveVars == <<wifiVars, faults, rounds, published>>

OnlyClient == UNCHANGED <<watchdog, cloudTimers, haveDataConnection, params, winc>>

\* What the world owes the device.
Prompt ==
    \/ Elsewhere(
          \/ /\ \/ BrokerTakes /\ (inbox' # inbox =>
                      inbox'[Len(inbox')] \notin {"CONN_REFUSED", "SUBSCRIBE_FAILURE"})
                \/ SocketConnect(wifi = "leased")
                \/ \E count \in 1..MaxInbox : SocketRecv(count)
                \/ SocketRecvError
             /\ OnlyClient
          \/ wifi = "joined" /\ DhcpConf(TRUE)
          \/ dnsHandler(TRUE)
          \/ SysTime)
    \/ wifi = "joining" /\ Joined
    \/ association = "asked" /\ Left

Settled == turn = "idle" /\ ~ENABLED Prompt

NoneAwaited ==
    /\ Responses \cap (timers \cup mqttTimeouts \cup mqttRxFlags) = {}
    /\ broker = "none" \/ recvPending

Sent == socketState # "NOT_A_SOCKET"

Count(more) ==
    /\ rounds' = IF "mqttTimeout" \in cloudTimers \cap cloudTimers'
                 THEN IF rounds + more > Patience THEN Patience ELSE rounds + more
                 ELSE 0
    /\ published' = ("PUBLISH" \in mqttTxFlags' \/ (published /\ more = 0))

Round == Settled /\ "checkBack" \notin cloudTimers /\ cloudTask /\ Count(1)

\* What the superloop does when nothing fails.
Task ==
    \/ /\ Elsewhere(Round)
       /\ socketState = "NOT_A_SOCKET" /\ haveAPConnection /\ mqttBrokerIP
             => socketState' = "SOCKET_IN_PROGRESS"
    \/ /\ \/ SendConnect(Sent) \/ SendPublish(Sent) \/ SendSubscribe(Sent) \/ SendPingreq(Sent)
          \/ SendNothing
       /\ Elsewhere(OnlyClient) /\ Count(0)
    \/ Elsewhere(FinishTask) /\ UNCHANGED mqttState /\ Count(0)

Timer ==
    /\ \/ Elsewhere(
             \/ Settled /\ rounds = Patience /\ mqttTimeoutTask
             \/ checkBackTask
             \/ Settled /\ rxbuff = <<>> /\ OnlyClient
                    /\ \E name \in TimerNames : CheckTimeoutState(name))
       \/ Settled /\ Reset(TRUE)
    /\ Count(0)

Fault ==
    /\ faults > 0 /\ faults' = faults - 1
    /\ NoneAwaited
    /\ \/ Elsewhere(Round)
       \/ /\ \/ Left \/ Reset(FALSE)
             \/ \E asked \in BOOLEAN : SetWifi(asked)
             \/ Elsewhere(DhcpConf(FALSE) \/ dnsHandler(FALSE) \/ reconnect_cmd \/ set_mqtt
                             \/ FinishTask)
          /\ Count(0)
       \/ /\ \/ SocketConnect(FALSE) \/ ConnectionLost
             \/ BrokerTakes \/ BrokerPublishes
             \/ SendConnect(FALSE) \/ SendPublish(FALSE) \/ SendSubscribe(FALSE)
             \/ SendPingreq(FALSE)
          /\ Elsewhere(OnlyClient) /\ Count(0)

LiveNext ==
    \/ /\ \/ Task \/ Timer
          \/ (Prompt \/ Joined) /\ Count(0)
          \/ ~published /\ MQTT_CreatePublishPacket /\ Elsewhere(OnlyClient) /\ Count(0)
       /\ UNCHANGED faults
    \/ Fault

LiveInit == CredentialsInit /\ faults = Faults /\ rounds = 0 /\ published = FALSE

LiveSpec ==
    /\ LiveInit
    /\ [][LiveNext]_liveVars
    /\ WF_liveVars(Prompt /\ Count(0) /\ UNCHANGED faults)
    /\ WF_liveVars(Task /\ UNCHANGED faults)
    /\ WF_liveVars(Timer /\ UNCHANGED faults)

\* Whatever failed, wherever it left the flags and timers, the client is connected
\* again and again, on a connection that exists.
Reconnects == []<>(mqttState = "CONNECTED" /\ broker \in Accepted /\ ~gone)

\* And not only connected: its commands reach it again, as the subscription is made on
\* each new connection, although CLOUD_subscribe is refused while an older SUBACK is
\* awaited and its flag is set and cleared in other tasks.
Resubscribes == []<>(mqttState = "CONNECTED" /\ broker = "subscribed" /\ ~gone)

\* And on the network that was commanded: its credentials are kept over every failure
\* and restart until it is joined, and then forgotten.  There are two exceptions: the
\* CONNECTED of another network, which the WINC was joining or came back to by itself,
\* has cleared them; or the WINC could not be asked to leave, the network it is in goes
\* on working, and nothing restarts it.
JoinsCommanded ==
    \/ []<>(joins /\ ~credentials)
    \/ <>[](fate = "lost")
    \/ <>[](fate = "refused" /\ credentials /\ haveAPConnection)

=============================================================================
