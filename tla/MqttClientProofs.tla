-------------------------- MODULE MqttClientProofs --------------------------
(***************************************************************************)
(* Theorems about the MQTT client, for every value of its constants.       *)
(***************************************************************************)
EXTENDS MqttClient, SequenceTheorems, TLAPS

(***************************************************************************)
(* The type invariant, in three parts: what is Boolean, the state of       *)
(* mqtt_core.c, and the buffers with the connection.                       *)
(***************************************************************************)

FlagsOK == sendSubscribe \in BOOLEAN /\ recvPending \in BOOLEAN /\ gone \in BOOLEAN

CoreOK ==
    /\ mqttState \in States
    /\ mqttTxFlags \subseteq Requests
    /\ mqttRxFlags \subseteq Responses
    /\ mqttTimeouts \subseteq TimerNames
    /\ timers \subseteq TimerNames

NetOK ==
    /\ rxbuff \in Seq(FromBroker)
    /\ socketState \in {"NOT_A_SOCKET", "SOCKET_IN_PROGRESS", "SOCKET_CONNECTED"}
    /\ turn \in {"idle", "transmit", "finish"}
    /\ broker \in {"none", "open"} \cup Accepted
    /\ wire \in Seq(Requests \cup {"DISCONNECT"})
    /\ inbox \in Seq(FromBroker)

\* The parts are the type invariant.
LEMMA TypeParts == ClientTypeOK <=> FlagsOK /\ CoreOK /\ NetOK
  BY DEF ClientTypeOK, FlagsOK, CoreOK, NetOK

\* The initial state of mqtt_core.c and of the socket table is well typed.
LEMMA TypeInit == ClientInit => FlagsOK /\ CoreOK /\ NetOK
<1>1. ClientInit => FlagsOK
  BY DEF ClientInit, FlagsOK
<1>2. ClientInit => CoreOK
  BY DEF ClientInit, CoreOK, States
<1>3. ClientInit => NetOK
  BY DEF ClientInit, NetOK, Accepted
<1> QED
  BY <1>1, <1>2, <1>3

\* The keep-alive adds at most the name PINGREQ to timers or to mqttTxFlags.
LEMMA KeepAliveIsPingreq == KeepAliveTimer \subseteq {"PINGREQ"}
  BY DEF KeepAliveTimer

\* The steps that do not reach mqtt_core.c, or find nothing to do there.
OutsideCore ==
    \/ WaitForSocket \/ ReceiveNothing \/ SendNothing \/ CLI_set_mqtt
    \/ \E success \in BOOLEAN : SocketConnect(success)
    \/ \E count \in 1..MaxInbox : SocketRecv(count)
    \/ SocketRecvError \/ Network

\* The events of the WINC, the network and the command mqtt do not touch mqtt_core.c.
LEMMA OutsideKeepsCore == OutsideCore => UNCHANGED core
  BY DEF OutsideCore, WaitForSocket, ReceiveNothing, SendNothing, CLI_set_mqtt, SocketConnect,
         SocketRecv, SocketRecvError, Network, BrokerTakes, BrokerPublishes, ConnectionLost,
         mqttVars

\* The flags and timers of mqtt_core.c stay within their types, whatever handler,
\* callback or event comes.
LEMMA CoreStep == CoreOK /\ [ClientNext]_mqttVars => CoreOK'
<1> SUFFICES ASSUME CoreOK, [ClientNext]_mqttVars PROVE CoreOK'
  OBVIOUS
<1> USE KeepAliveIsPingreq DEF CoreOK, States, Requests, Responses, TimerNames
<1>1. ASSUME NEW haveAddress, NEW success, CLOUD_connectSocket(haveAddress, success)
      PROVE  CoreOK'
  BY <1>1 DEF CLOUD_connectSocket, MQTT_ClientInitialise
<1>2. ASSUME NEW haveTime, CLOUD_connectAppProtocol(haveTime) PROVE CoreOK'
  BY <1>2 DEF CLOUD_connectAppProtocol
<1>3. CASE ReceiveOverdue
  BY <1>3 DEF ReceiveOverdue
<1>4. CASE ReceiveConnack
  BY <1>4 DEF ReceiveConnack
<1>5. CASE ReceivePacket
  BY <1>5 DEF ReceivePacket
<1>6. ASSUME NEW sent, SendConnect(sent) PROVE CoreOK'
  BY <1>6 DEF SendConnect
<1>7. ASSUME NEW sent, SendPublish(sent) PROVE CoreOK'
  BY <1>7 DEF SendPublish
<1>8. ASSUME NEW sent, SendSubscribe(sent) PROVE CoreOK'
  <2>1. CASE sent
    BY <1>8, <2>1 DEF SendSubscribe
  <2>2. CASE ~sent
    BY <1>8, <2>2 DEF SendSubscribe
  <2> QED
    BY <2>1, <2>2
<1>9. ASSUME NEW sent, SendPingreq(sent) PROVE CoreOK'
  BY <1>9 DEF SendPingreq
<1>10. CASE Finish
  BY <1>10 DEF Finish, CLOUD_subscribe
<1>11. ASSUME NEW sent, FinishAged(sent) PROVE CoreOK'
  BY <1>11 DEF FinishAged
<1>12. CASE MQTT_CreatePublishPacket
  BY <1>12 DEF MQTT_CreatePublishPacket
<1>13. CASE LoseWifi
  BY <1>13 DEF LoseWifi
<1>14. CASE ReInit
  BY <1>14 DEF ReInit, MQTT_ClientInitialise
<1>15. ASSUME NEW name \in TimerNames, CheckTimeoutState(name) PROVE CoreOK'
  BY <1>15 DEF CheckTimeoutState
<1>16. ASSUME NEW sent, MQTT_Disconnect(sent) PROVE CoreOK'
  BY <1>16 DEF MQTT_Disconnect, core
<1>17. ASSUME NEW sent, CLI_reconnect(sent) PROVE CoreOK'
  BY <1>16, <1>17 DEF CLI_reconnect
<1>18. ASSUME UNCHANGED core PROVE CoreOK'
  BY <1>18 DEF core
<1>19. ASSUME NEW haveDataConnection, NEW sent, CLI_set_wifi(haveDataConnection, sent)
       PROVE  CoreOK'
  BY <1>16, <1>18, <1>19 DEF CLI_set_wifi, core
<1>20. ASSUME OutsideCore PROVE CoreOK'
  BY <1>18, <1>20, OutsideKeepsCore
<1>21. CASE UNCHANGED mqttVars
  BY <1>18, <1>21 DEF mqttVars
<1> QED
  BY <1>1, <1>2, <1>3, <1>4, <1>5, <1>6, <1>7, <1>8, <1>9, <1>10, <1>11, <1>12, <1>13,
     <1>14, <1>15, <1>17, <1>19, <1>20, <1>21
  DEF ClientNext, HandleSocketState, TransmissionHandler, Callbacks, OutsideCore

\* A receive buffer that is emptied or left alone stays well typed.
LEMMA EmptiedTyped ==
    ASSUME NetOK, rxbuff' = <<>> \/ rxbuff' = rxbuff PROVE rxbuff' \in Seq(FromBroker)
<1>1. CASE rxbuff' = <<>>
  BY <1>1
<1>2. CASE rxbuff' = rxbuff
  BY <1>2 DEF NetOK
<1> QED
  BY <1>1, <1>2

\* A packet of the client that is taken goes to the end of what is under way.
LEMMA SendTyped ==
    ASSUME NetOK, NEW packet \in Requests \cup {"DISCONNECT"}, NEW sent, MQTT_Send(packet, sent)
    PROVE  wire' \in Seq(Requests \cup {"DISCONNECT"}) /\ inbox' = inbox /\ broker' = broker
  BY DEF NetOK, MQTT_Send

\* A socket that is closed leaves nothing under way.
LEMMA CloseTyped ==
    BSD_close => /\ socketState' = "NOT_A_SOCKET" /\ broker' = "none"
                 /\ wire' = <<>> /\ inbox' = <<>>
  BY DEF BSD_close

\* The buffers, the socket and the connection stay within their types.
LEMMA NetStep == NetOK /\ [ClientNext]_mqttVars => NetOK'
<1> SUFFICES ASSUME NetOK, [ClientNext]_mqttVars PROVE NetOK'
  OBVIOUS
<1> USE DEF NetOK
<1>1. ASSUME NEW haveAddress, NEW success, CLOUD_connectSocket(haveAddress, success)
      PROVE  NetOK'
  BY <1>1 DEF CLOUD_connectSocket, MQTT_ClientInitialise, net
<1>2. ASSUME NEW haveTime, CLOUD_connectAppProtocol(haveTime) PROVE NetOK'
  BY <1>2 DEF CLOUD_connectAppProtocol, net
<1>3. CASE ReceiveOverdue
  BY <1>3, CloseTyped DEF ReceiveOverdue, BeginReception
<1>4. CASE ReceiveNothing
  BY <1>4 DEF ReceiveNothing, BeginReception, net
<1>5. CASE ReceiveConnack
  <2>1. turn' = "transmit"
    BY <1>5 DEF ReceiveConnack, BeginReception
  <2>2. rxbuff # <<>> /\ (rxbuff' = Tail(rxbuff) \/ rxbuff' = rxbuff)
    BY <1>5 DEF ReceiveConnack
  <2>3. BSD_close \/ UNCHANGED <<socketState, broker, wire, inbox>>
    BY <1>5 DEF ReceiveConnack, net
  <2>4. rxbuff' \in Seq(FromBroker)
    BY <2>2
  <2>5. CASE BSD_close
    BY <2>1, <2>4, <2>5, CloseTyped
  <2>6. CASE UNCHANGED <<socketState, broker, wire, inbox>>
    BY <2>1, <2>4, <2>6
  <2> QED
    BY <2>3, <2>5, <2>6
<1>6. CASE ReceivePacket
  <2>1. rxbuff' \in Seq(FromBroker)
    <3>1. rxbuff' = <<>> \/ rxbuff' = rxbuff
      BY <1>6 DEF ReceivePacket
    <3> QED
      BY <3>1, EmptiedTyped
  <2>2. turn' = "transmit" /\ UNCHANGED <<socketState, broker, wire, inbox>>
    BY <1>6 DEF ReceivePacket, BeginReception, net
  <2> QED
    BY <2>1, <2>2
<1>7. ASSUME NEW sent,
             SendConnect(sent) \/ SendPublish(sent) \/ SendSubscribe(sent) \/ SendPingreq(sent)
      PROVE  NetOK'
  <2>1. PICK packet \in Requests : MQTT_Send(packet, sent)
    BY <1>7 DEF SendConnect, SendPublish, SendSubscribe, SendPingreq, Requests
  <2>2. rxbuff' = <<>> /\ turn' = "finish" /\ socketState' = socketState
    BY <1>7 DEF SendConnect, SendPublish, SendSubscribe, SendPingreq, BeginTransmission
  <2> QED
    BY <2>1, <2>2, SendTyped
<1>8. CASE SendNothing
  BY <1>8 DEF SendNothing, BeginTransmission, net
<1>9. CASE Finish
  BY <1>9 DEF Finish
<1>10. ASSUME NEW sent, FinishAged(sent) PROVE NetOK'
  <2>1. rxbuff' = <<>> /\ turn' = "idle" /\ BSD_close
    BY <1>10 DEF FinishAged
  <2> QED
    BY <2>1, CloseTyped
<1>11. CASE MQTT_CreatePublishPacket
  BY <1>11 DEF MQTT_CreatePublishPacket, net
<1>12. CASE LoseWifi
  BY <1>12 DEF LoseWifi, net
<1>13. CASE ReInit
  BY <1>13, CloseTyped DEF ReInit, MQTT_ClientInitialise
<1>14. ASSUME NEW name, CheckTimeoutState(name) PROVE NetOK'
  BY <1>14 DEF CheckTimeoutState, net
<1>15. CASE CLI_set_mqtt
  BY <1>15, CloseTyped DEF CLI_set_mqtt
<1>16. ASSUME NEW sent, MQTT_Disconnect(sent) PROVE rxbuff' \in Seq(FromBroker)
  <2>1. rxbuff' = <<>> \/ rxbuff' = rxbuff
    BY <1>16 DEF MQTT_Disconnect
  <2> QED
    BY <2>1, EmptiedTyped
<1>17. ASSUME NEW sent, CLI_reconnect(sent) PROVE NetOK'
  <2>1. rxbuff' \in Seq(FromBroker)
    BY <1>16, <1>17 DEF CLI_reconnect
  <2>2. MQTT_Send("DISCONNECT", sent) \/ UNCHANGED net
    BY <1>17 DEF CLI_reconnect
  <2>3. socketState' = socketState /\ turn' = turn
    BY <1>17 DEF CLI_reconnect
  <2>4. CASE MQTT_Send("DISCONNECT", sent)
    BY <2>1, <2>3, <2>4, SendTyped
  <2>5. CASE UNCHANGED net
    BY <2>1, <2>3, <2>5 DEF net
  <2> QED
    BY <2>2, <2>4, <2>5
<1>18. ASSUME NEW haveDataConnection, NEW sent, CLI_set_wifi(haveDataConnection, sent)
       PROVE  NetOK'
  <2>1. rxbuff' \in Seq(FromBroker)
    BY <1>16, <1>18 DEF CLI_set_wifi
  <2>2. \/ BSD_close
        \/ /\ MQTT_Send("DISCONNECT", sent) \/ UNCHANGED net
           /\ UNCHANGED socketState
    BY <1>18 DEF CLI_set_wifi
  <2>3. turn' = turn
    BY <1>18 DEF CLI_set_wifi
  <2>4. CASE BSD_close
    BY <2>1, <2>3, <2>4, CloseTyped
  <2>5. CASE MQTT_Send("DISCONNECT", sent) /\ UNCHANGED socketState
    BY <2>1, <2>3, <2>5, SendTyped
  <2>6. CASE UNCHANGED <<net, socketState>>
    BY <2>1, <2>3, <2>6 DEF net
  <2> QED
    BY <2>2, <2>4, <2>5, <2>6
<1>19. ASSUME NEW success, SocketConnect(success) PROVE NetOK'
  <2>1. rxbuff' = rxbuff /\ turn' = turn
    BY <1>19 DEF SocketConnect
  <2>2. CASE success
    BY <1>19, <2>1, <2>2 DEF SocketConnect
  <2>3. CASE ~success
    BY <1>19, <2>1, <2>3, CloseTyped DEF SocketConnect
  <2> QED
    BY <2>2, <2>3
<1>20. ASSUME NEW count \in 1..MaxInbox, SocketRecv(count) PROVE NetOK'
  <2>1. SubSeq(inbox, 1, count) \in Seq(FromBroker)
    BY <1>20, SubSeqProperties DEF SocketRecv
  <2>2. SubSeq(inbox, count + 1, Len(inbox)) \in Seq(FromBroker)
    BY <1>20, SubSeqProperties DEF SocketRecv
  <2> QED
    BY <1>20, <2>1, <2>2 DEF SocketRecv
<1>21. CASE SocketRecvError
  BY <1>21, CloseTyped DEF SocketRecvError
<1>22. CASE BrokerTakes
  <2>1. wire' \in Seq(Requests \cup {"DISCONNECT"})
    BY <1>22 DEF BrokerTakes
  <2>2. broker' \in {"none", "open"} \cup Accepted
    BY <1>22 DEF BrokerTakes, Accepted
  <2>3. inbox' = inbox \/ \E packet \in FromBroker : inbox' = Append(inbox, packet)
    BY <1>22 DEF BrokerTakes, Answer, FromBroker
  <2> QED
    BY <1>22, <2>1, <2>2, <2>3 DEF BrokerTakes
<1>23. CASE BrokerPublishes
  BY <1>23 DEF BrokerPublishes, Answer, FromBroker
<1>24. CASE ConnectionLost
  BY <1>24 DEF ConnectionLost
<1>25. CASE WaitForSocket \/ UNCHANGED mqttVars
  BY <1>25 DEF WaitForSocket, mqttVars, net
<1> QED
  BY <1>1, <1>2, <1>3, <1>4, <1>5, <1>6, <1>7, <1>8, <1>9, <1>10, <1>11, <1>12, <1>13,
     <1>14, <1>15, <1>17, <1>18, <1>19, <1>20, <1>21, <1>22, <1>23, <1>24, <1>25
  DEF ClientNext, HandleSocketState, TransmissionHandler, Callbacks, Network

\* The Boolean variables stay Boolean.
LEMMA FlagsStep == FlagsOK /\ [ClientNext]_mqttVars => FlagsOK'
<1> SUFFICES ASSUME FlagsOK, [ClientNext]_mqttVars PROVE FlagsOK'
  OBVIOUS
<1>1. sendSubscribe' \in BOOLEAN
  <2>1. \/ sendSubscribe' = sendSubscribe
        \/ sendSubscribe' = TRUE
        \/ sendSubscribe' = FALSE
        \/ sendSubscribe' = (sendSubscribe /\ "SUBACK" \in mqttRxFlags)
    BY DEF ClientNext, HandleSocketState, TransmissionHandler, Callbacks, Network,
           CLOUD_connectSocket, WaitForSocket, CLOUD_connectAppProtocol, ReceiveOverdue,
           ReceiveNothing, ReceiveConnack, ReceivePacket, SendConnect, SendPublish,
           SendSubscribe, SendPingreq, SendNothing, BeginTransmission, Finish,
           CLOUD_subscribe, FinishAged, MQTT_CreatePublishPacket, LoseWifi, ReInit,
           CheckTimeoutState, CLI_set_mqtt, CLI_reconnect, CLI_set_wifi, SocketConnect,
           SocketRecv, SocketRecvError, BrokerTakes, BrokerPublishes, ConnectionLost, mqttVars
  <2> QED
    BY <2>1 DEF FlagsOK
<1>2. recvPending' \in BOOLEAN
  <2>1. \/ recvPending' = recvPending
        \/ recvPending' = FALSE
        \/ recvPending' = (socketState # "NOT_A_SOCKET")
    BY DEF ClientNext, HandleSocketState, TransmissionHandler, Callbacks, Network,
           CLOUD_connectSocket, WaitForSocket, CLOUD_connectAppProtocol, ReceiveOverdue,
           ReceiveNothing, ReceiveConnack, ReceivePacket, SendConnect, SendPublish,
           SendSubscribe, SendPingreq, SendNothing, BSD_close, MQTT_Send, Finish,
           FinishAged, MQTT_CreatePublishPacket, LoseWifi, ReInit, CheckTimeoutState,
           CLI_set_mqtt, CLI_reconnect, CLI_set_wifi, SocketConnect, SocketRecv,
           SocketRecvError, BrokerTakes, BrokerPublishes, ConnectionLost, mqttVars, net
  <2> QED
    BY <2>1 DEF FlagsOK
<1>3. gone' \in BOOLEAN
  <2>1. gone' = gone \/ gone' = FALSE \/ gone' = TRUE
    BY DEF ClientNext, HandleSocketState, TransmissionHandler, Callbacks, Network,
           CLOUD_connectSocket, WaitForSocket, CLOUD_connectAppProtocol, ReceiveOverdue,
           ReceiveNothing, ReceiveConnack, ReceivePacket, SendConnect, SendPublish,
           SendSubscribe, SendPingreq, SendNothing, BSD_close, MQTT_Send, Finish,
           FinishAged, MQTT_CreatePublishPacket, LoseWifi, ReInit, CheckTimeoutState,
           CLI_set_mqtt, CLI_reconnect, CLI_set_wifi, SocketConnect, SocketRecv,
           SocketRecvError, BrokerTakes, BrokerPublishes, ConnectionLost, mqttVars, net
  <2> QED
    BY <2>1 DEF FlagsOK
<1> QED
  BY <1>1, <1>2, <1>3 DEF FlagsOK

\* The state of mqtt_core.c, its buffers and the socket table is always well typed: no
\* flag but those of the packets the client sends is ever set in mqttTxFlags.
THEOREM ClientTypeCorrect == ClientSpec => []ClientTypeOK
<1>1. ClientInit => ClientTypeOK
  BY TypeInit, TypeParts
<1>2. ClientTypeOK /\ [ClientNext]_mqttVars => ClientTypeOK'
  <2> SUFFICES ASSUME FlagsOK, CoreOK, NetOK, [ClientNext]_mqttVars
               PROVE  FlagsOK' /\ CoreOK' /\ NetOK'
    BY DEF ClientTypeOK, FlagsOK, CoreOK, NetOK
  <2> QED
    BY FlagsStep, CoreStep, NetStep
<1> QED
  BY <1>1, <1>2, PTL DEF ClientSpec

-----------------------------------------------------------------------------
(***************************************************************************)
(* Every wait is timed, and the keep-alive runs.  Both are inductive with  *)
(* the types of the flags: the names of the two kinds of timers differ.    *)
(***************************************************************************)

\* No step starts a wait without its timer, or ends a timer without the wait: in
\* particular PINGRESP is not deleted with PINGREQ, nor a flag cleared by another's send.
LEMMA WaitStep == CoreOK /\ EveryWaitIsTimed /\ [ClientNext]_mqttVars => EveryWaitIsTimed'
<1> SUFFICES ASSUME CoreOK, EveryWaitIsTimed, [ClientNext]_mqttVars PROVE EveryWaitIsTimed'
  OBVIOUS
<1> USE KeepAliveIsPingreq DEF EveryWaitIsTimed
<1>1. ASSUME NEW haveAddress, NEW success, CLOUD_connectSocket(haveAddress, success)
      PROVE  EveryWaitIsTimed'
  BY <1>1 DEF CLOUD_connectSocket, MQTT_ClientInitialise
<1>2. ASSUME NEW haveTime, CLOUD_connectAppProtocol(haveTime) PROVE EveryWaitIsTimed'
  BY <1>2 DEF CLOUD_connectAppProtocol
<1>3. CASE ReceiveOverdue
  BY <1>3 DEF ReceiveOverdue
<1>4. CASE ReceiveConnack
  BY <1>4 DEF ReceiveConnack, CoreOK, Responses
<1>5. CASE ReceivePacket
  BY <1>5 DEF ReceivePacket, CoreOK, Responses
<1>6. ASSUME NEW sent, SendConnect(sent) PROVE EveryWaitIsTimed'
  BY <1>6 DEF SendConnect, CoreOK, Responses
<1>7. ASSUME NEW sent, SendPublish(sent) PROVE EveryWaitIsTimed'
  BY <1>7 DEF SendPublish, CoreOK, Responses
<1>8. ASSUME NEW sent, SendSubscribe(sent) PROVE EveryWaitIsTimed'
  BY <1>8 DEF SendSubscribe, CoreOK, Responses
<1>9. ASSUME NEW sent, SendPingreq(sent) PROVE EveryWaitIsTimed'
  BY <1>9 DEF SendPingreq, CoreOK, Responses
<1>10. CASE Finish
  BY <1>10 DEF Finish
<1>11. ASSUME NEW sent, FinishAged(sent) PROVE EveryWaitIsTimed'
  BY <1>11 DEF FinishAged, CoreOK, Responses
<1>12. CASE MQTT_CreatePublishPacket
  BY <1>12 DEF MQTT_CreatePublishPacket
<1>13. CASE LoseWifi
  BY <1>13 DEF LoseWifi
<1>14. CASE ReInit
  BY <1>14 DEF ReInit, MQTT_ClientInitialise
<1>15. ASSUME NEW name \in TimerNames, CheckTimeoutState(name) PROVE EveryWaitIsTimed'
  BY <1>15 DEF CheckTimeoutState
<1>16. ASSUME NEW sent, MQTT_Disconnect(sent) PROVE EveryWaitIsTimed'
  BY <1>16 DEF MQTT_Disconnect, core, CoreOK, Responses
<1>17. ASSUME NEW sent, CLI_reconnect(sent) PROVE EveryWaitIsTimed'
  BY <1>16, <1>17 DEF CLI_reconnect
<1>18. ASSUME UNCHANGED core PROVE EveryWaitIsTimed'
  BY <1>18 DEF core
<1>19. ASSUME NEW haveDataConnection, NEW sent, CLI_set_wifi(haveDataConnection, sent)
       PROVE  EveryWaitIsTimed'
  BY <1>16, <1>18, <1>19 DEF CLI_set_wifi, core
<1>20. ASSUME OutsideCore PROVE EveryWaitIsTimed'
  BY <1>18, <1>20, OutsideKeepsCore
<1>21. CASE UNCHANGED mqttVars
  BY <1>18, <1>21 DEF mqttVars
<1> QED
  BY <1>1, <1>2, <1>3, <1>4, <1>5, <1>6, <1>7, <1>8, <1>9, <1>10, <1>11, <1>12, <1>13,
     <1>14, <1>15, <1>17, <1>19, <1>20, <1>21
  DEF ClientNext, HandleSocketState, TransmissionHandler, Callbacks, OutsideCore

\* A response that is waited for, and a CONNACK, always has a timer that runs or has
\* run out (the flags and timers of mqtt_core.c).
THEOREM WaitsTimed == ClientSpec => []EveryWaitIsTimed
<1>1. ClientInit => CoreOK /\ EveryWaitIsTimed
  BY TypeInit DEF ClientInit, EveryWaitIsTimed
<1>2. CoreOK /\ EveryWaitIsTimed /\ [ClientNext]_mqttVars => CoreOK' /\ EveryWaitIsTimed'
  BY CoreStep, WaitStep
<1> QED
  BY <1>1, <1>2, PTL DEF ClientSpec

\* No step of a connected client stops its keep-alive: a PUBLISH that restarts the
\* timer, a PINGRESP, or a ping that cannot be sent.
LEMMA KeepAliveStep == CoreOK /\ KeepAliveRuns /\ [ClientNext]_mqttVars => KeepAliveRuns'
<1> SUFFICES ASSUME CoreOK, KeepAliveRuns, KeepAlive, [ClientNext]_mqttVars PROVE KeepAliveRuns'
  BY DEF KeepAliveRuns
<1>0. KeepAliveTimer = {"PINGREQ"}
  BY DEF KeepAliveTimer
<1> USE <1>0 DEF KeepAliveRuns
<1>1. ASSUME NEW haveAddress, NEW success, CLOUD_connectSocket(haveAddress, success)
      PROVE  KeepAliveRuns'
  BY <1>1 DEF CLOUD_connectSocket, MQTT_ClientInitialise
<1>2. ASSUME NEW haveTime, CLOUD_connectAppProtocol(haveTime) PROVE KeepAliveRuns'
  BY <1>2 DEF CLOUD_connectAppProtocol
<1>3. CASE ReceiveOverdue
  BY <1>3 DEF ReceiveOverdue
<1>4. CASE ReceiveConnack
  BY <1>4 DEF ReceiveConnack
<1>5. CASE ReceivePacket
  BY <1>5 DEF ReceivePacket
<1>6. ASSUME NEW sent, SendConnect(sent) PROVE KeepAliveRuns'
  BY <1>6 DEF SendConnect
<1>7. ASSUME NEW sent, SendPublish(sent) PROVE KeepAliveRuns'
  BY <1>7 DEF SendPublish
<1>8. ASSUME NEW sent, SendSubscribe(sent) PROVE KeepAliveRuns'
  BY <1>8 DEF SendSubscribe
<1>9. ASSUME NEW sent, SendPingreq(sent) PROVE KeepAliveRuns'
  BY <1>9 DEF SendPingreq
<1>10. CASE Finish
  BY <1>10 DEF Finish, CLOUD_subscribe
<1>11. ASSUME NEW sent, FinishAged(sent) PROVE KeepAliveRuns'
  BY <1>11 DEF FinishAged
<1>12. CASE MQTT_CreatePublishPacket
  BY <1>12 DEF MQTT_CreatePublishPacket
<1>13. CASE LoseWifi
  BY <1>13 DEF LoseWifi
<1>14. CASE ReInit
  BY <1>14 DEF ReInit, MQTT_ClientInitialise
<1>15. ASSUME NEW name \in TimerNames, CheckTimeoutState(name) PROVE KeepAliveRuns'
  BY <1>15 DEF CheckTimeoutState
<1>16. ASSUME NEW sent, MQTT_Disconnect(sent) PROVE KeepAliveRuns'
  BY <1>16 DEF MQTT_Disconnect, core
<1>17. ASSUME NEW sent, CLI_reconnect(sent) PROVE KeepAliveRuns'
  BY <1>16, <1>17 DEF CLI_reconnect
<1>18. ASSUME UNCHANGED core PROVE KeepAliveRuns'
  BY <1>18 DEF core
<1>19. ASSUME NEW haveDataConnection, NEW sent, CLI_set_wifi(haveDataConnection, sent)
       PROVE  KeepAliveRuns'
  BY <1>16, <1>18, <1>19 DEF CLI_set_wifi, core
<1>20. ASSUME OutsideCore PROVE KeepAliveRuns'
  BY <1>18, <1>20, OutsideKeepsCore
<1>21. CASE UNCHANGED mqttVars
  BY <1>18, <1>21 DEF mqttVars
<1> QED
  BY <1>1, <1>2, <1>3, <1>4, <1>5, <1>6, <1>7, <1>8, <1>9, <1>10, <1>11, <1>12, <1>13,
     <1>14, <1>15, <1>17, <1>19, <1>20, <1>21
  DEF ClientNext, HandleSocketState, TransmissionHandler, Callbacks, OutsideCore

\* While the client is connected and keepAliveTimer is not 0, the timer of PINGREQ runs
\* and a ping is to be sent or its response is waited for.
THEOREM KeepsAlive == ClientSpec => []KeepAliveRuns
<1>1. ClientInit => CoreOK /\ KeepAliveRuns
  BY TypeInit DEF ClientInit, KeepAliveRuns
<1>2. CoreOK /\ KeepAliveRuns /\ [ClientNext]_mqttVars => CoreOK' /\ KeepAliveRuns'
  BY CoreStep, KeepAliveStep
<1> QED
  BY <1>1, <1>2, PTL DEF ClientSpec

-----------------------------------------------------------------------------
(***************************************************************************)
(* The order of the protocol.  The invariant ties what the client believes *)
(* to what the broker has done on the socket that is open now: nothing of  *)
(* an earlier connection is in a buffer when a connection comes up.        *)
(***************************************************************************)

OrderInv ==
    /\ socketState # "SOCKET_CONNECTED" => broker = "none" /\ inbox = <<>>
    /\ socketState = "SOCKET_IN_PROGRESS" =>
          mqttState = "DISCONNECTED" /\ rxbuff = <<>> /\ turn = "idle"
    /\ socketState = "SOCKET_CONNECTED" /\ broker \notin Accepted =>
          /\ mqttState # "CONNECTED"
          /\ \A i \in 1..Len(rxbuff) : rxbuff[i] # "CONNACK"
          /\ \A i \in 1..Len(inbox) : inbox[i] # "CONNACK"

\* A socket that is closed leaves the order alone: nothing of the connection remains.
LEMMA OrderAfterClose == BSD_close => OrderInv'
  BY CloseTyped DEF OrderInv

\* So does a step that reads, empties the receive buffer or leaves CONNECTED.
LEMMA OrderKept ==
    ASSUME OrderInv, UNCHANGED <<socketState, broker, inbox>>,
           rxbuff' = <<>> \/ rxbuff' = rxbuff,
           mqttState' = "CONNECTED" => mqttState = "CONNECTED",
           socketState = "SOCKET_IN_PROGRESS" => mqttState' = "DISCONNECTED" /\ turn' = "idle"
    PROVE  OrderInv'
<1>1. CASE rxbuff' = <<>>
  BY <1>1 DEF OrderInv
<1>2. CASE rxbuff' = rxbuff
  BY <1>2 DEF OrderInv
<1> QED
  BY <1>1, <1>2

\* Every step of the client, its callers, the WINC and the broker keeps the order.
LEMMA OrderStep == NetOK /\ OrderInv /\ [ClientNext]_mqttVars => OrderInv'
<1> SUFFICES ASSUME NetOK, OrderInv, [ClientNext]_mqttVars PROVE OrderInv'
  OBVIOUS
<1>1. ASSUME NEW haveAddress, NEW success, CLOUD_connectSocket(haveAddress, success)
      PROVE  OrderInv'
  BY <1>1 DEF CLOUD_connectSocket, MQTT_ClientInitialise, net, OrderInv
<1>2. ASSUME NEW haveTime, CLOUD_connectAppProtocol(haveTime) PROVE OrderInv'
  BY <1>2, OrderKept DEF CLOUD_connectAppProtocol, net
<1>3. CASE ReceiveOverdue
  BY <1>3, OrderAfterClose DEF ReceiveOverdue
<1>4. CASE ReceiveNothing
  BY <1>4, OrderKept DEF ReceiveNothing, BeginReception, core, net
<1>5. CASE ReceiveConnack
  <2>1. socketState = "SOCKET_CONNECTED" /\ rxbuff # <<>> /\ Len(rxbuff) \in Nat
    BY <1>5 DEF ReceiveConnack, BeginReception, NetOK
  <2>2. CASE BSD_close
    BY <2>2, OrderAfterClose
  <2>3. CASE /\ rxbuff' = Tail(rxbuff) /\ UNCHANGED <<socketState, net>>
             /\ mqttState' = "CONNECTED" => Head(rxbuff) = "CONNACK"
    <3>1. ASSUME broker \notin Accepted PROVE \A i \in 1..Len(rxbuff) : rxbuff[i] # "CONNACK"
      BY <2>1, <3>1 DEF OrderInv
    <3>2. broker \notin Accepted => mqttState' # "CONNECTED"
      <4>1. Head(rxbuff) = rxbuff[1] /\ 1 \in 1..Len(rxbuff)
        BY <2>1 DEF NetOK
      <4> QED
        BY <2>3, <3>1, <4>1
    <3>3. broker \notin Accepted => \A i \in 1..Len(rxbuff') : rxbuff'[i] # "CONNACK"
      <4>1. Len(rxbuff') = Len(rxbuff) - 1
        BY <2>1, <2>3 DEF NetOK
      <4>2. \A i \in 1..Len(rxbuff') : rxbuff'[i] = rxbuff[i + 1] /\ i + 1 \in 1..Len(rxbuff)
        BY <2>1, <2>3, <4>1 DEF NetOK
      <4> QED
        BY <3>1, <4>2
    <3> QED
      BY <2>1, <2>3, <3>2, <3>3 DEF OrderInv, net
  <2> QED
    BY <1>5, <2>2, <2>3 DEF ReceiveConnack
<1>6. CASE ReceivePacket
  <2>1. rxbuff' = <<>> \/ rxbuff' = rxbuff
    BY <1>6 DEF ReceivePacket
  <2> QED
    BY <1>6, <2>1, OrderKept DEF ReceivePacket, BeginReception, net
<1>7. ASSUME NEW sent,
             SendConnect(sent) \/ SendPublish(sent) \/ SendSubscribe(sent) \/ SendPingreq(sent)
      PROVE  OrderInv'
  <2>1. UNCHANGED <<socketState, broker, inbox>> /\ turn = "transmit" /\ rxbuff' = <<>>
    BY <1>7 DEF SendConnect, SendPublish, SendSubscribe, SendPingreq, BeginTransmission,
                MQTT_Send
  <2>2. mqttState' = "CONNECTED" => mqttState = "CONNECTED"
    BY <1>7 DEF SendConnect, SendPublish, SendSubscribe, SendPingreq
  <2>3. socketState # "SOCKET_IN_PROGRESS"
    BY <2>1 DEF OrderInv
  <2> QED
    BY <2>1, <2>2, <2>3, OrderKept
<1>8. CASE SendNothing
  BY <1>8 DEF SendNothing, BeginTransmission, core, net, OrderInv
<1>9. CASE Finish
  BY <1>9 DEF Finish, OrderInv
<1>10. ASSUME NEW sent, FinishAged(sent) PROVE OrderInv'
  BY <1>10, OrderAfterClose DEF FinishAged
<1>11. CASE MQTT_CreatePublishPacket
  BY <1>11 DEF MQTT_CreatePublishPacket, net, OrderInv
<1>12. CASE LoseWifi
  BY <1>12, OrderKept DEF LoseWifi, net, OrderInv
<1>13. CASE ReInit
  BY <1>13, OrderAfterClose DEF ReInit
<1>14. ASSUME NEW name, CheckTimeoutState(name) PROVE OrderInv'
  BY <1>14 DEF CheckTimeoutState, net, OrderInv
<1>15. CASE CLI_set_mqtt
  BY <1>15, OrderAfterClose DEF CLI_set_mqtt
<1>16. ASSUME NEW sent, MQTT_Disconnect(sent)
       PROVE  /\ rxbuff' = <<>> \/ rxbuff' = rxbuff
              /\ mqttState' = "DISCONNECTED" \/ mqttState' = mqttState
  BY <1>16 DEF MQTT_Disconnect, core
<1>17. ASSUME NEW sent, CLI_reconnect(sent) PROVE OrderInv'
  <2>1. UNCHANGED <<socketState, broker, inbox, turn>>
    BY <1>17 DEF CLI_reconnect, MQTT_Send, net
  <2>2. MQTT_Disconnect(sent)
    BY <1>17 DEF CLI_reconnect
  <2>3. socketState = "SOCKET_IN_PROGRESS" => mqttState = "DISCONNECTED" /\ turn = "idle"
    BY DEF OrderInv
  <2> QED
    BY <1>16, <2>1, <2>2, <2>3, OrderKept
<1>18. ASSUME NEW haveDataConnection, NEW sent, CLI_set_wifi(haveDataConnection, sent)
       PROVE  OrderInv'
  <2>1. BSD_close \/ UNCHANGED <<socketState, broker, inbox>>
    BY <1>18 DEF CLI_set_wifi, MQTT_Send, net
  <2>2. turn' = turn
    BY <1>18 DEF CLI_set_wifi
  <2>3. MQTT_Disconnect(sent) \/ UNCHANGED <<core, rxbuff>>
    BY <1>18 DEF CLI_set_wifi
  <2>4. /\ rxbuff' = <<>> \/ rxbuff' = rxbuff
        /\ mqttState' = "DISCONNECTED" \/ mqttState' = mqttState
    BY <1>16, <2>3 DEF core
  <2>5. socketState = "SOCKET_IN_PROGRESS" => mqttState = "DISCONNECTED" /\ turn = "idle"
    BY DEF OrderInv
  <2> QED
    BY <2>1, <2>2, <2>4, <2>5, OrderKept, OrderAfterClose
<1>19. ASSUME NEW success, SocketConnect(success) PROVE OrderInv'
  <2>1. CASE success
    BY <1>19, <2>1 DEF SocketConnect, OrderInv, core
  <2>2. CASE ~success
    BY <1>19, <2>2, OrderAfterClose DEF SocketConnect
  <2> QED
    BY <2>1, <2>2
<1>20. ASSUME NEW count \in 1..MaxInbox, SocketRecv(count) PROVE OrderInv'
  <2>1. UNCHANGED <<socketState, mqttState, turn, broker>>
    BY <1>20 DEF SocketRecv, core
  <2>2. count \in 1..Len(inbox) /\ Len(inbox) \in Nat
    BY <1>20 DEF SocketRecv, NetOK
  <2>3. inbox # <<>> /\ socketState = "SOCKET_CONNECTED"
    BY <2>2 DEF OrderInv, NetOK
  <2>4. \A i \in 1..Len(rxbuff') : rxbuff'[i] = inbox[i] /\ i \in 1..Len(inbox)
    BY <1>20, <2>2, SubSeqProperties DEF SocketRecv, NetOK
  <2>5. \A i \in 1..Len(inbox') : inbox'[i] = inbox[count + i] /\ count + i \in 1..Len(inbox)
    <3>1. inbox' = SubSeq(inbox, count + 1, Len(inbox)) /\ inbox \in Seq(FromBroker)
      BY <1>20 DEF SocketRecv, NetOK
    <3> QED
      BY <2>2, <3>1, SubSeqProperties
  <2> QED
    BY <2>1, <2>3, <2>4, <2>5 DEF OrderInv
<1>21. CASE SocketRecvError
  BY <1>21, OrderAfterClose DEF SocketRecvError
<1>22. CASE BrokerTakes
  <2>1. UNCHANGED <<socketState, mqttState, turn, rxbuff>> /\ broker # "none"
    BY <1>22 DEF BrokerTakes, core
  <2>2. socketState = "SOCKET_CONNECTED"
    BY <2>1 DEF OrderInv
  <2>3. broker' \notin Accepted => broker \notin Accepted
    BY <1>22 DEF BrokerTakes, Accepted
  <2>4. \/ inbox' = inbox \/ broker' \in Accepted
        \/ inbox' = Append(inbox, "CONN_REFUSED")
    BY <1>22 DEF BrokerTakes, Answer, Accepted
  <2>5. inbox' = Append(inbox, "CONN_REFUSED") /\ broker \notin Accepted
            => \A i \in 1..Len(inbox') : inbox'[i] # "CONNACK"
    BY <2>2 DEF OrderInv, NetOK
  <2> QED
    BY <2>1, <2>2, <2>3, <2>4, <2>5 DEF OrderInv
<1>23. CASE BrokerPublishes
  <2>1. UNCHANGED <<socketState, mqttState, turn, rxbuff, broker>> /\ broker \in Accepted
    BY <1>23 DEF BrokerPublishes, core, Accepted
  <2>2. socketState = "SOCKET_CONNECTED"
    BY <2>1 DEF OrderInv, Accepted
  <2> QED
    BY <2>1, <2>2 DEF OrderInv
<1>24. CASE ConnectionLost
  BY <1>24 DEF ConnectionLost, core, OrderInv
<1>25. CASE WaitForSocket \/ UNCHANGED mqttVars
  BY <1>25 DEF WaitForSocket, mqttVars, core, net, OrderInv
<1> QED
  BY <1>1, <1>2, <1>3, <1>4, <1>5, <1>6, <1>7, <1>8, <1>9, <1>10, <1>11, <1>12, <1>13,
     <1>14, <1>15, <1>17, <1>18, <1>19, <1>20, <1>21, <1>22, <1>23, <1>24, <1>25
  DEF ClientNext, HandleSocketState, TransmissionHandler, Callbacks, Network

\* What a step can do to the packets under way to the broker.
LEMMA WireStep ==
    ASSUME [ClientNext]_mqttVars
    PROVE  \/ wire' = wire \/ wire' = <<>>
           \/ wire # <<>> /\ wire' = Tail(wire)
           \/ \E packet \in {"CONNECT", "DISCONNECT"} : wire' = Append(wire, packet)
           \/ \E sent \in BOOLEAN : SendPublish(sent) \/ SendSubscribe(sent) \/ SendPingreq(sent)
<1> DEFINE Goal ==
      \/ wire' = wire \/ wire' = <<>>
      \/ wire # <<>> /\ wire' = Tail(wire)
      \/ \E packet \in {"CONNECT", "DISCONNECT"} : wire' = Append(wire, packet)
      \/ \E sent \in BOOLEAN : SendPublish(sent) \/ SendSubscribe(sent) \/ SendPingreq(sent)
<1> SUFFICES Goal
  OBVIOUS
<1>1. CASE HandleSocketState
  <2>1. wire' = wire \/ wire' = <<>>
    BY <1>1, CloseTyped DEF HandleSocketState, CLOUD_connectSocket, WaitForSocket, mqttVars,
       CLOUD_connectAppProtocol, ReceiveOverdue, ReceiveNothing, ReceiveConnack,
       ReceivePacket, net
  <2> QED
    BY <2>1
<1>2. CASE TransmissionHandler
  <2>1. CASE SendNothing
    BY <2>1 DEF SendNothing, net
  <2>2. ASSUME NEW sent \in BOOLEAN, SendConnect(sent) PROVE Goal
    BY <2>2 DEF SendConnect, MQTT_Send
  <2> QED
    BY <1>2, <2>1, <2>2 DEF TransmissionHandler
<1>3. CASE Finish \/ \E sent \in BOOLEAN : FinishAged(sent)
  BY <1>3, CloseTyped DEF Finish, FinishAged
<1>4. CASE Callbacks
  <2>1. ASSUME NEW sent, CLI_reconnect(sent) PROVE Goal
    BY <2>1 DEF CLI_reconnect, MQTT_Send, net
  <2>2. ASSUME NEW haveDataConnection, NEW sent, CLI_set_wifi(haveDataConnection, sent)
        PROVE  Goal
    BY <2>2, CloseTyped DEF CLI_set_wifi, MQTT_Send, net
  <2>3. ASSUME NEW success, SocketConnect(success) PROVE Goal
    BY <2>3, CloseTyped DEF SocketConnect
  <2>4. CASE \/ MQTT_CreatePublishPacket \/ LoseWifi \/ ReInit \/ CLI_set_mqtt
             \/ \E name \in TimerNames : CheckTimeoutState(name)
             \/ \E count \in 1..MaxInbox : SocketRecv(count)
             \/ SocketRecvError
    BY <2>4, CloseTyped DEF MQTT_CreatePublishPacket, LoseWifi, ReInit, CLI_set_mqtt,
       CheckTimeoutState, SocketRecv, SocketRecvError, net
  <2> QED
    BY <1>4, <2>1, <2>2, <2>3, <2>4 DEF Callbacks
<1>5. CASE Network
  BY <1>5 DEF Network, BrokerTakes, BrokerPublishes, ConnectionLost
<1>6. CASE UNCHANGED mqttVars
  BY <1>6 DEF mqttVars, net
<1> QED
  BY <1>1, <1>2, <1>3, <1>4, <1>5, <1>6 DEF ClientNext

\* What is put on the connection is sent while the client is CONNECTED on it.
LEMMA SentOnlyAccepted ==
    ASSUME NetOK, OrderInv, [ClientNext]_mqttVars,
           NEW packet \in Requests \ {"CONNECT"}, wire' = Append(wire, packet)
    PROVE  broker \in Accepted
<1>1. /\ wire' # wire /\ wire' # <<>>
      /\ wire # <<>> => wire' # Tail(wire)
  <2>1. Len(wire') = Len(wire) + 1 /\ Len(wire) \in Nat
    BY DEF NetOK
  <2>2. wire # <<>> => Len(Tail(wire)) = Len(wire) - 1
    BY DEF NetOK
  <2> QED
    BY <2>1, <2>2
<1>2. packet \notin {"CONNECT", "DISCONNECT"}
  BY DEF Requests
<1>3. ASSUME NEW other \in {"CONNECT", "DISCONNECT"} PROVE wire' # Append(wire, other)
  <2>1. wire \in Seq(Requests \cup {"DISCONNECT"}) /\ other \in Requests \cup {"DISCONNECT"}
    BY DEF NetOK, Requests
  <2>2. Append(wire, packet)[Len(wire) + 1] = packet
    BY <2>1
  <2>3. Append(wire, other)[Len(wire) + 1] = other
    BY <2>1
  <2> QED
    BY <1>2, <2>2, <2>3
<1>4. PICK sent \in BOOLEAN : SendPublish(sent) \/ SendSubscribe(sent) \/ SendPingreq(sent)
  BY <1>1, <1>3, WireStep
<1>5. mqttState = "CONNECTED" /\ turn = "transmit" /\ \E p \in Requests : MQTT_Send(p, sent)
  BY <1>4 DEF SendPublish, SendSubscribe, SendPingreq, BeginTransmission, Requests
<1>6. socketState # "NOT_A_SOCKET"
  BY <1>1, <1>5 DEF MQTT_Send
<1>7. socketState = "SOCKET_CONNECTED"
  BY <1>5, <1>6 DEF OrderInv, NetOK
<1> QED
  BY <1>5, <1>7 DEF OrderInv

\* What the client believes agrees with what the broker has done on the open socket.
LEMMA OrderHolds == ClientSpec => [](NetOK /\ OrderInv)
<1>1. ClientInit => NetOK /\ OrderInv
  BY TypeInit DEF ClientInit, OrderInv
<1>2. NetOK /\ OrderInv /\ [ClientNext]_mqttVars => NetOK' /\ OrderInv'
  BY NetStep, OrderStep
<1> QED
  BY <1>1, <1>2, PTL DEF ClientSpec

\* Nothing but CONNECT and DISCONNECT is sent before the broker has accepted a CONNECT
\* on the very connection that it is sent on (MQTT_TransmissionHandler).
THEOREM SendsOnlyAfterConnack == ClientSpec => OnlyAfterConnack
<1>1. NetOK /\ OrderInv /\ [ClientNext]_mqttVars =>
        [\A packet \in Requests \ {"CONNECT"} :
            wire' = Append(wire, packet) => broker \in Accepted]_mqttVars
  BY SentOnlyAccepted
<1> QED
  BY <1>1, OrderHolds, PTL DEF ClientSpec, OnlyAfterConnack

\* A connecting socket is left alone: the client is DISCONNECTED with nothing received.
THEOREM ConnectingLeftAlone == ClientSpec => []ConnectingUndisturbed
<1>1. OrderInv => ConnectingUndisturbed
  BY DEF OrderInv, ConnectingUndisturbed
<1> QED
  BY <1>1, OrderHolds, PTL

-----------------------------------------------------------------------------
(***************************************************************************)
(* The lock-out.                                                           *)
(***************************************************************************)

\* A client that is not CONNECTED, with an overdue response, sends no PINGREQ and no
\* SUBSCRIBE and takes no CONNACK, so every step of it keeps both.
LEMMA LockOutStep ==
    ASSUME [ClientNext]_mqttVars, Overdue, mqttState # "CONNECTED"
    PROVE  Overdue' /\ mqttState' # "CONNECTED"
<1> DEFINE Locked == Overdue' /\ mqttState' # "CONNECTED"
<1> SUFFICES Locked
  OBVIOUS
<1> USE DEF Overdue, Responses
<1>1. ASSUME UNCHANGED core PROVE Locked
  BY <1>1 DEF core
<1>2. ASSUME NEW sent, MQTT_Disconnect(sent) PROVE Locked
  BY <1>1, <1>2 DEF MQTT_Disconnect
<1>3. CASE HandleSocketState
  BY <1>1, <1>3, OutsideKeepsCore
  DEF HandleSocketState, OutsideCore, CLOUD_connectSocket, MQTT_ClientInitialise,
      CLOUD_connectAppProtocol, ReceiveOverdue, ReceiveConnack, ReceivePacket
<1>4. CASE TransmissionHandler
  BY <1>1, <1>4 DEF TransmissionHandler, SendConnect, SendPublish, SendSubscribe, SendPingreq,
                    SendNothing
<1>5. CASE Finish \/ \E sent \in BOOLEAN : FinishAged(sent)
  BY <1>5 DEF Finish, FinishAged
<1>6. CASE Callbacks
  <2>1. CASE \E sent \in BOOLEAN : CLI_reconnect(sent)
    BY <1>2, <2>1 DEF CLI_reconnect
  <2>2. CASE \E haveDataConnection, sent \in BOOLEAN : CLI_set_wifi(haveDataConnection, sent)
    BY <1>1, <1>2, <2>2 DEF CLI_set_wifi, core
  <2>3. CASE MQTT_CreatePublishPacket \/ LoseWifi \/ ReInit
    BY <2>3 DEF MQTT_CreatePublishPacket, LoseWifi, ReInit, MQTT_ClientInitialise
  <2>4. CASE \E name \in TimerNames : CheckTimeoutState(name)
    BY <2>4 DEF CheckTimeoutState
  <2> QED
    BY <1>1, <1>6, <2>1, <2>2, <2>3, <2>4, OutsideKeepsCore DEF Callbacks, OutsideCore
<1>7. CASE Network \/ UNCHANGED mqttVars
  BY <1>1, <1>7, OutsideKeepsCore DEF OutsideCore, mqttVars
<1> QED
  BY <1>3, <1>4, <1>5, <1>6, <1>7 DEF ClientNext

\* After the timeout of a PINGRESP or SUBACK ends a session, the client never connects
\* again: nothing but a PINGREQ or a SUBSCRIBE of a session resets the timeout.
THEOREM LockedOutForGood == ClientSpec => OverdueLocksOut
<1>1. [ClientNext]_mqttVars =>
        [mqttTimeouts \cap Responses # {} /\ mqttState # "CONNECTED" =>
            mqttTimeouts' \cap Responses # {} /\ mqttState' # "CONNECTED"]_mqttVars
  BY LockOutStep DEF Overdue
<1> QED
  BY <1>1, PTL DEF ClientSpec, OverdueLocksOut

=============================================================================
