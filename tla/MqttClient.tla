----------------------------- MODULE MqttClient -----------------------------
(***************************************************************************)
(* The MQTT client: the two handlers of mqtt_core.c, the exchange buffer   *)
(* and socket calls of mqtt_comm_layer.c, the socket state kept by         *)
(* mqtt_winc_adapter.c, and the caller of the handlers, handleSocketState  *)
(* of cloud_service.c.                                                     *)
(*                                                                         *)
(* Everything runs in the superloop, one callback of the timer driver at a *)
(* time.  turn splits the one callback that calls several handlers: while  *)
(* it is not "idle" nothing else runs.  Time is left out: a running timer  *)
(* may fire whenever the superloop is between two callbacks.               *)
(*                                                                         *)
(* The WINC's TCP connection and the broker at its other end are external. *)
(* A packet is its type.  UNSUBSCRIBE and QoS 1 are left out, because      *)
(* nothing calls MQTT_CreateUnsubscribePacket and sendToCloud asks for     *)
(* QoS 0.  SOCKET_CLOSED is left out: it never outlives CLOUD_connectSocket. *)
(***************************************************************************)
EXTENDS Integers, Sequences

CONSTANTS
    KeepAlive,   \* is keepAliveTimer non-zero?
    MaxWire,     \* bound: packets under way to the broker
    MaxInbox     \* bound: packets under way to the client

ASSUME ClientAssumption ==
    KeepAlive \in BOOLEAN /\ MaxWire \in Nat \ {0} /\ MaxInbox \in Nat \ {0}

VARIABLES
    mqttState,
    mqttTxFlags,    \* the packets to send: newTx...Packet
    mqttRxFlags,    \* the responses waited for: newRx...Packet
    mqttTimeouts,   \* the timeouts that occurred
    timers,         \* the timers of mqtt_core.c that run, named like the timeouts
    rxbuff,         \* the packets in the receive buffer
    socketState,
    turn,           \* what cloudTask does next
    sendSubscribe,  \* cloudStatus.sendSubscribe
    recvPending,    \* has the WINC been given the buffer for received data?
    broker,         \* what the broker knows of this TCP connection
    gone,           \* the connection is lost, and the client does not know
    wire,           \* packets under way to the broker
    inbox           \* packets under way to the client

core == <<mqttState, mqttTxFlags, mqttRxFlags, mqttTimeouts, timers>>
net  == <<recvPending, broker, gone, wire, inbox>>
mqttVars == <<core, rxbuff, socketState, turn, sendSubscribe, net>>

States    == {"DISCONNECTED", "CONNECTING", "WAITFORCONNACK", "CONNECTED",
              "MQTT_UNKNOWN_RECEIVE_STATE"}
Requests  == {"CONNECT", "PUBLISH", "SUBSCRIBE", "PINGREQ"}
Responses == {"PINGRESP", "SUBACK"}
TimerNames == {"CONNACK", "PINGREQ"} \cup Responses
FromBroker == {"CONNACK", "CONN_REFUSED", "SUBACK", "SUBSCRIBE_FAILURE", "PINGRESP",
               "PUBLISH"}

Accepted == {"accepted", "subscribed"}

ClientTypeOK ==
    /\ mqttState \in States
    /\ mqttTxFlags \subseteq Requests
    /\ mqttRxFlags \subseteq Responses
    /\ mqttTimeouts \subseteq TimerNames
    /\ timers \subseteq TimerNames
    /\ rxbuff \in Seq(FromBroker)
    /\ socketState \in {"NOT_A_SOCKET", "SOCKET_IN_PROGRESS", "SOCKET_CONNECTED"}
    /\ turn \in {"idle", "transmit", "finish"}
    /\ sendSubscribe \in BOOLEAN
    /\ recvPending \in BOOLEAN
    /\ broker \in {"none", "open"} \cup Accepted
    /\ gone \in BOOLEAN
    /\ wire \in Seq(Requests \cup {"DISCONNECT"})
    /\ inbox \in Seq(FromBroker)

ClientInit ==
    /\ mqttState = "DISCONNECTED"
    /\ mqttTxFlags = {}
    /\ mqttRxFlags = {}
    /\ mqttTimeouts = {}
    /\ timers = {}
    /\ rxbuff = <<>>
    /\ socketState = "NOT_A_SOCKET"
    /\ turn = "idle"
    /\ sendSubscribe = FALSE
    /\ recvPending = FALSE
    /\ broker = "none"
    /\ gone = FALSE
    /\ wire = <<>>
    /\ inbox = <<>>

-----------------------------------------------------------------------------
(***************************************************************************)
(* Calls of the lower layers.                                              *)
(***************************************************************************)

\* BSD_close: data under way on the connection is lost.
BSD_close ==
    /\ socketState' = "NOT_A_SOCKET"
    /\ recvPending' = FALSE
    /\ broker' = "none"
    /\ gone' = FALSE
    /\ wire' = <<>>
    /\ inbox' = <<>>

\* MQTT_Send of one packet, with its result: the WINC takes it, or refuses it.
MQTT_Send(packet, sent) ==
    /\ sent => socketState # "NOT_A_SOCKET" /\ Len(wire) < MaxWire
    /\ wire' = IF sent /\ ~gone THEN Append(wire, packet) ELSE wire
    /\ UNCHANGED <<recvPending, broker, gone, inbox>>

\* The first packet to send, in the order of the bits of mqttTxFlags.
Next2Send(packet) ==
    /\ packet \in mqttTxFlags
    /\ packet = "SUBSCRIBE" => "PUBLISH" \notin mqttTxFlags
    /\ packet = "PINGREQ" => mqttTxFlags \cap {"PUBLISH", "SUBSCRIBE"} = {}

KeepAliveTimer == IF KeepAlive THEN {"PINGREQ"} ELSE {}

-----------------------------------------------------------------------------
(***************************************************************************)
(* handleSocketState: a socket is opened, or MQTT_ReceptionHandler and     *)
(* MQTT_TransmissionHandler are called for it.                             *)
(***************************************************************************)

\* Mutant: the state of the client is left as it is when its socket is gone.
KeepClientState == UNCHANGED <<mqttState, rxbuff>>

MQTT_ClientInitialise ==
    /\ mqttState' = "DISCONNECTED"
    /\ rxbuff' = <<>>

\* NOT_A_SOCKET: CLOUD_connectSocket, which has no address before the DNS answers.
CLOUD_connectSocket(haveAddress, success) ==
    /\ turn = "idle" /\ socketState = "NOT_A_SOCKET"
    /\ MQTT_ClientInitialise
    /\ socketState' = IF haveAddress /\ success THEN "SOCKET_IN_PROGRESS"
                                                ELSE "NOT_A_SOCKET"
    /\ UNCHANGED <<mqttTxFlags, mqttRxFlags, mqttTimeouts, timers, turn, sendSubscribe, net>>

WaitForSocket ==
    /\ turn = "idle" /\ socketState = "SOCKET_IN_PROGRESS"
    /\ UNCHANGED mqttVars

\* Mutant: the subscription is not asked for again on a new connection.
CLOUD_connectAppProtocolOnly(haveTime) ==
    /\ turn = "idle" /\ socketState = "SOCKET_CONNECTED" /\ mqttState = "DISCONNECTED"
    /\ IF haveTime
       THEN mqttTxFlags' = {"CONNECT"} /\ mqttState' = "CONNECTING"
       ELSE UNCHANGED <<mqttTxFlags, mqttState>>
    /\ UNCHANGED <<mqttRxFlags, mqttTimeouts, timers, rxbuff, socketState, turn,
                   sendSubscribe, net>>

\* The socket is up and MQTT is not: MQTT_CreateConnectPacket once the time is known.
CLOUD_connectAppProtocol(haveTime) ==
    /\ turn = "idle" /\ socketState = "SOCKET_CONNECTED" /\ mqttState = "DISCONNECTED"
    /\ sendSubscribe' = TRUE
    /\ IF haveTime
       THEN mqttTxFlags' = {"CONNECT"} /\ mqttState' = "CONNECTING"
       ELSE UNCHANGED <<mqttTxFlags, mqttState>>
    /\ UNCHANGED <<mqttRxFlags, mqttTimeouts, timers, rxbuff, socketState, turn, net>>

(***************************************************************************)
(* MQTT_ReceptionHandler.                                                  *)
(***************************************************************************)

BeginReception ==
    /\ turn = "idle" /\ socketState = "SOCKET_CONNECTED" /\ mqttState # "DISCONNECTED"
    /\ turn' = "transmit"

\* Mutant: the timeout of a SUBACK is left out of the test.
OverduePing == "PINGRESP" \in mqttTimeouts

Overdue == mqttTimeouts \cap Responses # {}

\* A response is overdue: the connection is closed, and a packet that is in the
\* buffer meets the state DISCONNECTED.
ReceiveOverdue ==
    /\ BeginReception /\ Overdue
    /\ mqttState' = IF rxbuff = <<>> THEN "DISCONNECTED" ELSE "MQTT_UNKNOWN_RECEIVE_STATE"
    /\ BSD_close
    /\ UNCHANGED <<mqttTxFlags, mqttRxFlags, mqttTimeouts, timers, rxbuff, sendSubscribe>>

ReceiveNothing ==
    /\ BeginReception /\ ~Overdue
    /\ \/ rxbuff = <<>>
       \/ mqttState \in {"CONNECTING", "MQTT_UNKNOWN_RECEIVE_STATE"}
    /\ UNCHANGED <<core, rxbuff, socketState, sendSubscribe, net>>

\* Waiting for CONNACK, and something has come: too late, CONNACK, or not a CONNACK.
ReceiveConnack ==
    /\ BeginReception /\ ~Overdue
    /\ mqttState = "WAITFORCONNACK" /\ rxbuff # <<>>
    /\ \/ /\ "CONNACK" \notin mqttTimeouts /\ Head(rxbuff) = "CONNACK"
          /\ mqttState' = "CONNECTED"
          /\ timers' = (timers \ {"CONNACK"}) \cup KeepAliveTimer
          /\ mqttTxFlags' = mqttTxFlags \cup KeepAliveTimer
          /\ mqttRxFlags' = IF KeepAlive THEN mqttRxFlags \ {"PINGRESP"} ELSE mqttRxFlags
          /\ rxbuff' = Tail(rxbuff)
          /\ UNCHANGED <<socketState, net>>
       \/ /\ "CONNACK" \notin mqttTimeouts /\ Head(rxbuff) = "CONN_REFUSED"
          /\ mqttState' = "DISCONNECTED"
          /\ timers' = timers \ {"CONNACK"}
          /\ rxbuff' = Tail(rxbuff)
          /\ UNCHANGED <<mqttTxFlags, mqttRxFlags, socketState, net>>
       \/ /\ "CONNACK" \in mqttTimeouts \/ Head(rxbuff) \notin {"CONNACK", "CONN_REFUSED"}
          /\ mqttState' = "DISCONNECTED"
          /\ timers' = IF "CONNACK" \in mqttTimeouts THEN timers ELSE timers \ {"CONNACK"}
          /\ BSD_close
          /\ UNCHANGED <<mqttTxFlags, mqttRxFlags, rxbuff>>
    /\ UNCHANGED <<mqttTimeouts, sendSubscribe>>

\* Connected, and something has come.  Whatever stands behind a PINGRESP, a SUBACK or
\* a PUBLISH in the buffer is dropped with it.
ReceivePacket ==
    /\ BeginReception /\ ~Overdue
    /\ mqttState = "CONNECTED" /\ rxbuff # <<>>
    /\ \/ /\ Head(rxbuff) = "PINGRESP" /\ "PINGRESP" \in mqttRxFlags
          /\ timers' = timers \ {"PINGRESP"}
          /\ mqttRxFlags' = mqttRxFlags \ {"PINGRESP"}
          /\ mqttTxFlags' = mqttTxFlags \cup KeepAliveTimer
          /\ rxbuff' = <<>>
          /\ UNCHANGED mqttState
       \/ /\ Head(rxbuff) \in {"SUBACK", "SUBSCRIBE_FAILURE"} /\ "SUBACK" \in mqttRxFlags
          /\ timers' = timers \ {"SUBACK"}
          /\ mqttRxFlags' = mqttRxFlags \ {"SUBACK"}
          /\ mqttState' = IF Head(rxbuff) = "SUBACK" THEN "CONNECTED" ELSE "DISCONNECTED"
          /\ rxbuff' = <<>>
          /\ UNCHANGED mqttTxFlags
       \/ /\ Head(rxbuff) = "PUBLISH"
          /\ rxbuff' = <<>>
          /\ UNCHANGED <<mqttState, mqttTxFlags, mqttRxFlags, timers>>
       \/ /\ Head(rxbuff) = "PINGRESP" => "PINGRESP" \notin mqttRxFlags
          /\ Head(rxbuff) \in {"SUBACK", "SUBSCRIBE_FAILURE"} => "SUBACK" \notin mqttRxFlags
          /\ Head(rxbuff) # "PUBLISH"
          /\ UNCHANGED <<mqttState, mqttTxFlags, mqttRxFlags, timers, rxbuff>>
    /\ UNCHANGED <<mqttTimeouts, socketState, sendSubscribe, net>>

(***************************************************************************)
(* MQTT_TransmissionHandler.  Every attempt to send a packet empties both  *)
(* buffers first.                                                          *)
(***************************************************************************)

BeginTransmission ==
    /\ turn = "transmit"
    /\ turn' = "finish"
    /\ UNCHANGED <<socketState, sendSubscribe>>

SendConnect(sent) ==
    /\ BeginTransmission
    /\ mqttState \in {"CONNECTING", "DISCONNECTED"} /\ "CONNECT" \in mqttTxFlags
    /\ MQTT_Send("CONNECT", sent)
    /\ rxbuff' = <<>>
    /\ IF sent
       THEN /\ mqttState' = "WAITFORCONNACK"
            /\ mqttTxFlags' = mqttTxFlags \ {"CONNECT"}
            /\ timers' = timers \cup {"CONNACK"}
            /\ mqttTimeouts' = mqttTimeouts \ {"CONNACK"}
       ELSE UNCHANGED <<mqttState, mqttTxFlags, timers, mqttTimeouts>>
    /\ UNCHANGED mqttRxFlags

\* Mutant: a PUBLISH that cannot be sent leaves the client connected.
SendPublishKeep(sent) ==
    /\ BeginTransmission
    /\ mqttState = "CONNECTED" /\ Next2Send("PUBLISH")
    /\ MQTT_Send("PUBLISH", sent)
    /\ rxbuff' = <<>>
    /\ timers' = (timers \ {"PINGREQ"}) \cup (IF sent THEN KeepAliveTimer ELSE {})
    /\ mqttTxFlags' = IF sent THEN mqttTxFlags \ {"PUBLISH"} ELSE mqttTxFlags
    /\ UNCHANGED <<mqttState, mqttRxFlags, mqttTimeouts>>

SendPublish(sent) ==
    /\ BeginTransmission
    /\ mqttState = "CONNECTED" /\ Next2Send("PUBLISH")
    /\ MQTT_Send("PUBLISH", sent)
    /\ rxbuff' = <<>>
    /\ timers' = (timers \ {"PINGREQ"}) \cup (IF sent THEN KeepAliveTimer ELSE {})
    /\ mqttTxFlags' = IF sent THEN mqttTxFlags \ {"PUBLISH"} ELSE mqttTxFlags
    /\ mqttState' = IF sent THEN "CONNECTED" ELSE "DISCONNECTED"
    /\ UNCHANGED <<mqttRxFlags, mqttTimeouts>>

SendSubscribe(sent) ==
    /\ BeginTransmission
    /\ mqttState = "CONNECTED" /\ Next2Send("SUBSCRIBE")
    /\ MQTT_Send("SUBSCRIBE", sent)
    /\ rxbuff' = <<>>
    /\ timers' = timers \cup KeepAliveTimer \cup (IF sent THEN {"SUBACK"} ELSE {})
    /\ IF sent
       THEN /\ mqttTxFlags' = mqttTxFlags \ {"SUBSCRIBE"}
            /\ mqttRxFlags' = mqttRxFlags \cup {"SUBACK"}
            /\ mqttTimeouts' = mqttTimeouts \ {"SUBACK"}
       ELSE UNCHANGED <<mqttTxFlags, mqttRxFlags, mqttTimeouts>>
    /\ UNCHANGED mqttState

\* Mutant: the response to a ping is waited for without a timer.
SendPingreqUntimed(sent) ==
    /\ BeginTransmission
    /\ mqttState = "CONNECTED" /\ Next2Send("PINGREQ") /\ "PINGREQ" \in mqttTimeouts
    /\ MQTT_Send("PINGREQ", sent)
    /\ rxbuff' = <<>>
    /\ IF sent
       THEN /\ mqttTxFlags' = mqttTxFlags \ {"PINGREQ"}
            /\ mqttRxFlags' = mqttRxFlags \cup {"PINGRESP"}
            /\ mqttTimeouts' = mqttTimeouts \ {"PINGREQ", "PINGRESP"}
       ELSE /\ mqttTimeouts' = mqttTimeouts \ {"PINGREQ"}
            /\ UNCHANGED <<mqttTxFlags, mqttRxFlags>>
    /\ UNCHANGED <<mqttState, timers>>

\* A ping is sent when its timeout has occurred; one that cannot be sent waits for
\* the next timeout.
SendPingreq(sent) ==
    /\ BeginTransmission
    /\ mqttState = "CONNECTED" /\ Next2Send("PINGREQ") /\ "PINGREQ" \in mqttTimeouts
    /\ MQTT_Send("PINGREQ", sent)
    /\ rxbuff' = <<>>
    /\ IF sent
       THEN /\ mqttTxFlags' = mqttTxFlags \ {"PINGREQ"}
            /\ mqttRxFlags' = mqttRxFlags \cup {"PINGRESP"}
            /\ mqttTimeouts' = mqttTimeouts \ {"PINGREQ", "PINGRESP"}
            /\ timers' = timers \cup {"PINGRESP"}
       ELSE /\ mqttTimeouts' = mqttTimeouts \ {"PINGREQ"}
            /\ UNCHANGED <<mqttTxFlags, mqttRxFlags, timers>>
    /\ UNCHANGED mqttState

SendNothing ==
    /\ BeginTransmission
    /\ mqttState \in {"CONNECTING", "DISCONNECTED"} => "CONNECT" \notin mqttTxFlags
    /\ mqttState = "CONNECTED" =>
          \/ mqttTxFlags = {}
          \/ Next2Send("PINGREQ") /\ "PINGREQ" \notin mqttTimeouts
    /\ UNCHANGED <<core, rxbuff, net>>

(***************************************************************************)
(* What follows the handlers: the buffer is given to the WINC, the         *)
(* subscription is asked for, and a connection older than                  *)
(* MQTT_CONN_AGE_TIMEOUT is closed.                                        *)
(***************************************************************************)

\* Mutant: a DISCONNECT that cannot be sent is left to be sent.
MQTT_DisconnectKept(sent) ==
    IF mqttState \in {"CONNECTED", "WAITFORCONNACK"}
    THEN /\ timers' = timers \ {"PINGREQ"}
         /\ mqttState' = "DISCONNECTED"
         /\ mqttTxFlags' = IF sent THEN {} ELSE mqttTxFlags \cup {"DISCONNECT"}
         /\ rxbuff' = <<>>
         /\ UNCHANGED <<mqttRxFlags, mqttTimeouts>>
    ELSE UNCHANGED <<core, rxbuff>>

\* MQTT_Disconnect: the state is changed whether the packet can be sent or not.
MQTT_Disconnect(sent) ==
    IF mqttState \in {"CONNECTED", "WAITFORCONNACK"}
    THEN /\ timers' = timers \ {"PINGREQ"}
         /\ mqttState' = "DISCONNECTED"
         /\ mqttTxFlags' = IF sent THEN {} ELSE mqttTxFlags
         /\ rxbuff' = <<>>
         /\ UNCHANGED <<mqttRxFlags, mqttTimeouts>>
    ELSE UNCHANGED <<core, rxbuff>>

\* CLOUD_subscribe: MQTT_CreateSubscribePacket refuses while a SUBACK is waited for.
CLOUD_subscribe ==
    IF sendSubscribe /\ "SUBACK" \notin mqttRxFlags
    THEN /\ mqttTxFlags' = mqttTxFlags \cup {"SUBSCRIBE"}
         /\ sendSubscribe' = FALSE
    ELSE UNCHANGED <<mqttTxFlags, sendSubscribe>>

Finish ==
    /\ turn = "finish" /\ turn' = "idle"
    /\ recvPending' = (socketState # "NOT_A_SOCKET")
    /\ IF mqttState = "CONNECTED"
       THEN CLOUD_subscribe
       ELSE UNCHANGED <<mqttTxFlags, sendSubscribe>>
    /\ UNCHANGED <<mqttState, mqttRxFlags, mqttTimeouts, timers, rxbuff, socketState,
                   broker, gone, wire, inbox>>

\* The same when the connection has aged: CLOUD_disconnect and BSD_close.  A SUBSCRIBE
\* that was to be sent stays so only if the DISCONNECT cannot be sent.
FinishAged(sent) ==
    /\ turn = "finish" /\ turn' = "idle"
    /\ mqttState = "CONNECTED"
    /\ sendSubscribe' = (sendSubscribe /\ "SUBACK" \in mqttRxFlags)
    /\ timers' = timers \ {"PINGREQ"}
    /\ mqttState' = "DISCONNECTED"
    /\ mqttTxFlags' = CASE sent -> {}
                        [] ~sent /\ sendSubscribe' # sendSubscribe
                             -> mqttTxFlags \cup {"SUBSCRIBE"}
                        [] OTHER -> mqttTxFlags
    /\ rxbuff' = <<>>
    /\ BSD_close
    /\ UNCHANGED <<mqttRxFlags, mqttTimeouts>>

-----------------------------------------------------------------------------
(***************************************************************************)
(* The other callbacks of the superloop.                                   *)
(***************************************************************************)

\* CLOUD_publishData, called by MAIN_dataTask while the client is connected.
MQTT_CreatePublishPacket ==
    /\ turn = "idle" /\ mqttState = "CONNECTED"
    /\ mqttTxFlags' = mqttTxFlags \cup {"PUBLISH"}
    /\ UNCHANGED <<mqttState, mqttRxFlags, mqttTimeouts, timers, rxbuff, socketState, turn,
                   sendSubscribe, net>>

\* The callbacks of the timers: those of PINGREQ and PINGRESP restart themselves.
CheckTimeoutState(name) ==
    /\ turn = "idle" /\ name \in timers
    /\ mqttTimeouts' = mqttTimeouts \cup {name}
    /\ timers' = IF name \in {"CONNACK", "SUBACK"} THEN timers \ {name} ELSE timers
    /\ UNCHANGED <<mqttState, mqttTxFlags, mqttRxFlags, rxbuff, socketState, turn,
                   sendSubscribe, net>>

\* The CLI commands mqtt and broker: MQTT_Close, and the client stays CONNECTED.
CLI_set_mqtt ==
    /\ turn = "idle" /\ mqttState = "CONNECTED"
    /\ BSD_close
    /\ UNCHANGED <<core, rxbuff, turn, sendSubscribe>>

CLI_reconnect(sent) ==
    /\ turn = "idle"
    /\ MQTT_Disconnect(sent)
    /\ IF mqttState \in {"CONNECTED", "WAITFORCONNACK"}
       THEN MQTT_Send("DISCONNECT", sent)
       ELSE UNCHANGED net
    /\ UNCHANGED <<socketState, turn, sendSubscribe>>

\* The CLI command wifi: MQTT_Close, then MQTT_Disconnect if the application had a
\* data connection; the DISCONNECT meets a closed socket, or one that waits for CONNACK.
CLI_set_wifi(haveDataConnection, sent) ==
    /\ turn = "idle"
    /\ IF haveDataConnection
       THEN MQTT_Disconnect(sent)
       ELSE sent = FALSE /\ UNCHANGED <<core, rxbuff>>
    /\ IF mqttState = "CONNECTED" THEN sent = FALSE /\ BSD_close
       ELSE /\ IF haveDataConnection /\ mqttState = "WAITFORCONNACK"
               THEN MQTT_Send("DISCONNECT", sent)
               ELSE UNCHANGED net
            /\ UNCHANGED socketState
    /\ UNCHANGED <<turn, sendSubscribe>>

\* setMqttStateToDisconnected, when the access point is lost.
LoseWifi ==
    /\ turn = "idle"
    /\ mqttState' = IF mqttState = "CONNECTED" THEN "DISCONNECTED" ELSE mqttState
    /\ UNCHANGED <<mqttTxFlags, mqttRxFlags, mqttTimeouts, timers, rxbuff, socketState, turn,
                   sendSubscribe, net>>

\* reInit: the WINC is restarted, the socket table cleared and the client initialised.
ReInit ==
    /\ turn = "idle"
    /\ MQTT_ClientInitialise
    /\ BSD_close
    /\ UNCHANGED <<mqttTxFlags, mqttRxFlags, mqttTimeouts, timers, turn, sendSubscribe>>

\* BSD_SocketHandler, called by wifiHandlerTask: SOCKET_MSG_CONNECT.
SocketConnect(success) ==
    /\ turn = "idle" /\ socketState = "SOCKET_IN_PROGRESS"
    /\ IF success
       THEN /\ socketState' = "SOCKET_CONNECTED"
            /\ broker' = "open"
            /\ UNCHANGED <<recvPending, gone, wire, inbox>>
       ELSE BSD_close
    /\ UNCHANGED <<core, rxbuff, turn, sendSubscribe>>

\* SOCKET_MSG_RECV with data, once per BSD_recv: one or more packets that have come.
SocketRecv(count) ==
    /\ turn = "idle" /\ recvPending
    /\ count \in 1..Len(inbox)
    /\ rxbuff' = SubSeq(inbox, 1, count)
    /\ inbox' = SubSeq(inbox, count + 1, Len(inbox))
    /\ recvPending' = FALSE
    /\ UNCHANGED <<core, socketState, turn, sendSubscribe, broker, gone, wire>>

\* SOCKET_MSG_RECV with an error: the client learns that the connection is lost.
SocketRecvError ==
    /\ turn = "idle" /\ recvPending /\ gone
    /\ BSD_close
    /\ UNCHANGED <<core, rxbuff, turn, sendSubscribe>>

-----------------------------------------------------------------------------
(***************************************************************************)
(* External: the broker and the network between.                           *)
(***************************************************************************)

Answer(packet) ==
    /\ Len(inbox) < MaxInbox
    /\ inbox' = Append(inbox, packet)

\* The broker takes the next packet, in the order of MQTT: a first CONNECT is accepted
\* or refused, nothing else is answered before, and nothing after a DISCONNECT.
BrokerTakes ==
    /\ turn = "idle" /\ wire # <<>> /\ broker # "none"
    /\ wire' = Tail(wire)
    /\ \/ /\ Head(wire) = "CONNECT" /\ broker = "open"
          /\ \/ Answer("CONNACK") /\ broker' = "accepted"
             \/ Answer("CONN_REFUSED") /\ UNCHANGED broker
          /\ UNCHANGED gone
       \/ /\ Head(wire) = "SUBSCRIBE" /\ broker \in Accepted
          /\ \/ Answer("SUBACK") /\ broker' = "subscribed"
             \/ Answer("SUBSCRIBE_FAILURE") /\ UNCHANGED broker
          /\ UNCHANGED gone
       \/ /\ Head(wire) = "PINGREQ" /\ broker \in Accepted
          /\ Answer("PINGRESP")
          /\ UNCHANGED <<broker, gone>>
       \/ /\ Head(wire) = "PUBLISH" /\ broker \in Accepted
          /\ UNCHANGED <<broker, gone, inbox>>
       \/ /\ \/ Head(wire) = "DISCONNECT"
             \/ Head(wire) = "CONNECT" /\ broker \in Accepted
             \/ Head(wire) # "CONNECT" /\ broker = "open"
          /\ gone' = TRUE
          /\ UNCHANGED <<broker, inbox>>
    /\ ~gone
    /\ UNCHANGED <<core, rxbuff, socketState, turn, sendSubscribe, recvPending>>

\* Another client publishes on the topic subscribed to.
BrokerPublishes ==
    /\ turn = "idle" /\ broker = "subscribed" /\ ~gone
    /\ Answer("PUBLISH")
    /\ UNCHANGED <<core, rxbuff, socketState, turn, sendSubscribe, recvPending, broker, gone,
                   wire>>

\* The connection is lost, with all that is under way.
ConnectionLost ==
    /\ turn = "idle" /\ broker # "none" /\ ~gone
    /\ gone' = TRUE
    /\ wire' = <<>> /\ inbox' = <<>>
    /\ UNCHANGED <<core, rxbuff, socketState, turn, sendSubscribe, recvPending, broker>>

-----------------------------------------------------------------------------
HandleSocketState ==
    \/ \E haveAddress, success \in BOOLEAN : CLOUD_connectSocket(haveAddress, success)
    \/ WaitForSocket
    \/ \E haveTime \in BOOLEAN : CLOUD_connectAppProtocol(haveTime)
    \/ ReceiveOverdue \/ ReceiveNothing \/ ReceiveConnack \/ ReceivePacket

TransmissionHandler ==
    \/ \E sent \in BOOLEAN :
          SendConnect(sent) \/ SendPublish(sent) \/ SendSubscribe(sent) \/ SendPingreq(sent)
    \/ SendNothing

Callbacks ==
    \/ MQTT_CreatePublishPacket \/ LoseWifi \/ ReInit
    \/ \E name \in TimerNames : CheckTimeoutState(name)
    \/ CLI_set_mqtt
    \/ \E sent \in BOOLEAN : CLI_reconnect(sent)
    \/ \E haveDataConnection, sent \in BOOLEAN : CLI_set_wifi(haveDataConnection, sent)
    \/ \E success \in BOOLEAN : SocketConnect(success)
    \/ \E count \in 1..MaxInbox : SocketRecv(count)
    \/ SocketRecvError

Network == BrokerTakes \/ BrokerPublishes \/ ConnectionLost

ClientNext ==
    \/ HandleSocketState
    \/ TransmissionHandler
    \/ Finish
    \/ \E sent \in BOOLEAN : FinishAged(sent)
    \/ Callbacks
    \/ Network

ClientSpec == ClientInit /\ [][ClientNext]_mqttVars

-----------------------------------------------------------------------------
(***************************************************************************)
(* Properties.                                                             *)
(***************************************************************************)

\* Nothing but CONNECT and DISCONNECT is sent on a connection on which the broker has
\* not accepted a CONNECT, whatever connection the client believes it is CONNECTED on.
OnlyAfterConnack ==
    [][\A packet \in Requests \ {"CONNECT"} :
          wire' = Append(wire, packet) => broker \in Accepted]_mqttVars

\* Every wait has an end: a response that is waited for has a timer that runs, or its
\* timeout has occurred.
EveryWaitIsTimed ==
    /\ \A response \in mqttRxFlags : response \in timers \cup mqttTimeouts
    /\ mqttState = "WAITFORCONNACK" => "CONNACK" \in timers \cup mqttTimeouts

\* The keep-alive of a session never stops: its timer runs, and a ping is to be sent or
\* its response is waited for.
KeepAliveRuns ==
    mqttState = "CONNECTED" /\ KeepAlive =>
        /\ "PINGREQ" \in timers
        /\ "PINGREQ" \in mqttTxFlags \/ "PINGRESP" \in mqttRxFlags

\* While a socket is connecting the client is DISCONNECTED with nothing received, so
\* that no handler, command or timeout sends on the socket or closes it: the WINC's
\* answer to the connect names no session, and one that comes after a close would be
\* taken for the next socket.
ConnectingUndisturbed ==
    socketState = "SOCKET_IN_PROGRESS" =>
        mqttState = "DISCONNECTED" /\ rxbuff = <<>> /\ turn = "idle"

\* Once a response is overdue and its session is over, no later session begins: the
\* timeout is reset only when the next PINGREQ or SUBSCRIBE is sent (mqtt_core.c:1308,
\* 1382), for which the client must be CONNECTED, and until then MQTT_ReceptionHandler
\* closes every connection before it reads a CONNACK.
OverdueLocksOut ==
    [][mqttTimeouts \cap Responses # {} /\ mqttState # "CONNECTED" =>
          mqttTimeouts' \cap Responses # {} /\ mqttState' # "CONNECTED"]_mqttVars

=============================================================================
