------------------------- MODULE CloudServiceProofs -------------------------
(***************************************************************************)
(* Theorems about the cloud service, for every value of its constants.     *)
(***************************************************************************)
EXTENDS CloudService, MqttClientProofs

(***************************************************************************)
(* The type invariant without the client's: the Booleans, and the rest.    *)
(***************************************************************************)

CloudFlagsOK ==
    /\ cloudInitialized \in BOOLEAN
    /\ isResetting \in BOOLEAN
    /\ waitingForMQTT \in BOOLEAN
    /\ cloudResetTimerFlag \in BOOLEAN
    /\ haveDataConnection \in BOOLEAN
    /\ haveAPConnection \in BOOLEAN
    /\ amDisconnecting \in BOOLEAN
    /\ mqttBrokerIP \in BOOLEAN
    /\ haveTime \in BOOLEAN
    /\ dnsPending \in BOOLEAN

CloudDataOK ==
    /\ cloudTimers \subseteq WatchdogTimers \cup {"checkBack"}
    /\ wifi \in {"off", "joining"} \cup Associated

\* After application_init everything is well typed.
LEMMA CloudTypeInit == CloudInit => CloudFlagsOK /\ CloudDataOK
<1>1. CloudInit => CloudFlagsOK
  BY DEF CloudInit, CloudFlagsOK
<1>2. CloudInit => CloudDataOK
  BY DEF CloudInit, CloudDataOK
<1> QED
  BY <1>1, <1>2

\* The timers of the service and the state of the WINC stay within their types.
LEMMA CloudDataStep == CloudDataOK /\ [CloudNext]_cloudVars => CloudDataOK'
<1> SUFFICES ASSUME CloudDataOK, [CloudNext]_cloudVars PROVE CloudDataOK'
  OBVIOUS
<1> USE DEF CloudDataOK, WatchdogTimers, Associated
<1>1. CASE cloudTask
  BY <1>1 DEF cloudTask, Supervise, CLOUD_init, startMqttConnectionTimeout, winc
<1>2. CASE Transmit
  BY <1>2 DEF Transmit, winc
<1>3. CASE FinishTask
  BY <1>3 DEF FinishTask, Connected, winc
<1>4. CASE mqttTimeoutTask
  BY <1>4 DEF mqttTimeoutTask, winc
<1>5. ASSUME NEW success, cloudResetTask(success) PROVE CloudDataOK'
  BY <1>5 DEF cloudResetTask
<1>6. CASE WifiConnected
  BY <1>6 DEF WifiConnected
<1>7. CASE WifiDisconnected
  BY <1>7 DEF WifiDisconnected
<1>8. CASE SysTime
  BY <1>8 DEF SysTime, winc
<1>9. CASE checkBackTask
  BY <1>9 DEF checkBackTask, winc
<1>10. ASSUME NEW success, DhcpConf(success) PROVE CloudDataOK'
  BY <1>10 DEF DhcpConf
<1>11. ASSUME NEW found, dnsHandler(found) PROVE CloudDataOK'
  BY <1>11 DEF dnsHandler
<1>12. CASE Command \/ ClientEvent \/ UNCHANGED cloudVars
  BY <1>12 DEF Command, set_wifi_auth, reconnect_cmd, set_mqtt,
         ClientEvent, cloudVars, winc
<1> QED
  BY <1>1, <1>2, <1>3, <1>4, <1>5, <1>6, <1>7, <1>8, <1>9, <1>10, <1>11, <1>12 DEF CloudNext

\* The Boolean variables of the service stay Boolean.
LEMMA CloudFlagsStep == CloudFlagsOK /\ [CloudNext]_cloudVars => CloudFlagsOK'
<1> SUFFICES ASSUME CloudFlagsOK, [CloudNext]_cloudVars PROVE CloudFlagsOK'
  OBVIOUS
<1> USE DEF CloudFlagsOK
<1>1. CASE cloudTask
  <2>1. haveDataConnection' \in BOOLEAN
    BY <1>1 DEF cloudTask, setHaveSocketFor
  <2> QED
    BY <1>1, <2>1 DEF cloudTask, Supervise, CLOUD_init, startMqttConnectionTimeout, watchdog,
       params, winc
<1>2. CASE Transmit
  BY <1>2 DEF Transmit, watchdog, params, winc
<1>3. CASE FinishTask
  BY <1>3 DEF FinishTask, Connected, watchdog, params, winc
<1>4. CASE mqttTimeoutTask
  BY <1>4 DEF mqttTimeoutTask, params, winc
<1>5. ASSUME NEW success \in BOOLEAN, cloudResetTask(success) PROVE CloudFlagsOK'
  BY <1>5 DEF cloudResetTask
<1>6. CASE WifiConnected
  BY <1>6 DEF WifiConnected, wifiConnectionStateChanged
<1>7. CASE WifiDisconnected
  BY <1>7 DEF WifiDisconnected, wifiConnectionStateChanged
<1>8. CASE SysTime
  BY <1>8 DEF SysTime, watchdog, winc
<1>9. CASE checkBackTask
  BY <1>9 DEF checkBackTask, watchdog, winc
<1>10. ASSUME NEW success \in BOOLEAN, DhcpConf(success) PROVE CloudFlagsOK'
  BY <1>10 DEF DhcpConf, watchdog
<1>11. ASSUME NEW found \in BOOLEAN, dnsHandler(found) PROVE CloudFlagsOK'
  BY <1>11 DEF dnsHandler, watchdog
<1>12. CASE Command \/ ClientEvent \/ UNCHANGED cloudVars
  BY <1>12 DEF Command, set_wifi_auth, reconnect_cmd, set_mqtt,
         ClientEvent, cloudVars, watchdog, params, winc
<1> QED
  BY <1>1, <1>2, <1>3, <1>4, <1>5, <1>6, <1>7, <1>8, <1>9, <1>10, <1>11, <1>12 DEF CloudNext

-----------------------------------------------------------------------------
(***************************************************************************)
(* The service adds to the client and does nothing that the client's own   *)
(* specification does not allow, so that every theorem about the client    *)
(* holds of it.                                                            *)
(***************************************************************************)

\* Every step of the service is a step of the client, or leaves it alone.
LEMMA CloudStepIsClientStep ==
    CloudFlagsOK /\ [CloudNext]_cloudVars => [ClientNext]_mqttVars
<1> SUFFICES ASSUME CloudFlagsOK, [CloudNext]_cloudVars PROVE ClientNext \/ UNCHANGED mqttVars
  OBVIOUS
<1>1. CASE cloudTask
  <2>1. CASE LoseWifi
    BY <2>1 DEF ClientNext, Callbacks
  <2>2. CASE HandleSocket
    <3>1. mqttBrokerIP \in BOOLEAN /\ haveTime \in BOOLEAN
      BY DEF CloudFlagsOK
    <3>2. HandleSocketState
      BY <2>2, <3>1 DEF HandleSocket, HandleSocketState
    <3> QED
      BY <3>2 DEF ClientNext
  <2> QED
    BY <1>1, <2>1, <2>2 DEF cloudTask
<1>2. CASE Transmit
  BY <1>2 DEF Transmit, ClientNext
<1>3. CASE FinishTask
  BY <1>3 DEF FinishTask, ClientNext
<1>4. ASSUME NEW success, cloudResetTask(success) PROVE ClientNext
  BY <1>4 DEF cloudResetTask, ClientNext, Callbacks
<1>5. CASE WifiDisconnected
  BY <1>5 DEF WifiDisconnected, ClientNext, Network
<1>6. CASE Command
  <2>1. haveDataConnection \in BOOLEAN
    BY DEF CloudFlagsOK
  <2>2. Callbacks
    BY <1>6, <2>1 DEF Command, set_wifi_auth, reconnect_cmd, set_mqtt, Callbacks
  <2> QED
    BY <2>2 DEF ClientNext
<1>7. CASE ClientEvent
  BY <1>7 DEF ClientEvent, ClientNext, Callbacks
<1>8. CASE \/ mqttTimeoutTask \/ WifiConnected \/ SysTime \/ checkBackTask
           \/ \E success \in BOOLEAN : DhcpConf(success) \/ dnsHandler(success)
           \/ UNCHANGED cloudVars
  BY <1>8 DEF mqttTimeoutTask, WifiConnected, SysTime, checkBackTask, DhcpConf, dnsHandler,
     cloudVars
<1> QED
  BY <1>1, <1>2, <1>3, <1>4, <1>5, <1>6, <1>7, <1>8 DEF CloudNext

\* The cloud service around it leaves the MQTT client what it is (cloud_service.c calls
\* the client only as MqttClient describes).
THEOREM CloudImplementsClient == CloudSpec => ClientSpec
<1>1. CloudInit => ClientInit /\ CloudFlagsOK
  BY CloudTypeInit DEF CloudInit
<1>2. CloudFlagsOK /\ [CloudNext]_cloudVars => CloudFlagsOK'
  BY CloudFlagsStep
<1>3. CloudFlagsOK /\ [CloudNext]_cloudVars => [ClientNext]_mqttVars
  BY CloudStepIsClientStep
<1> QED
  BY <1>1, <1>2, <1>3, PTL DEF CloudSpec, ClientSpec

\* The flags of cloudStatus and of shared_networking_params, the timers of the service
\* and the state of the client under it are always well typed.
THEOREM CloudTypeCorrect == CloudSpec => []CloudTypeOK
<1>1. CloudSpec => []ClientTypeOK
  BY CloudImplementsClient, ClientTypeCorrect, PTL
<1>2. CloudInit => CloudFlagsOK /\ CloudDataOK
  BY CloudTypeInit
<1>3. CloudFlagsOK /\ CloudDataOK /\ [CloudNext]_cloudVars => CloudFlagsOK' /\ CloudDataOK'
  BY CloudFlagsStep, CloudDataStep
<1>4. ClientTypeOK /\ CloudFlagsOK /\ CloudDataOK => CloudTypeOK
  BY DEF CloudTypeOK, CloudFlagsOK, CloudDataOK
<1> QED
  BY <1>1, <1>2, <1>3, <1>4, PTL DEF CloudSpec

-----------------------------------------------------------------------------
(***************************************************************************)
(* The watchdog.  What makes WatchdogArmed inductive is that each flag     *)
(* that keeps cloudTask from acting has its timer.                         *)
(***************************************************************************)

WatchdogInv ==
    /\ cloudInitialized => ~cloudResetTimerFlag
    /\ cloudInitialized /\ waitingForMQTT => "mqttTimeout" \in cloudTimers
    /\ isResetting => "cloudReset" \in cloudTimers

\* No task, timer or event leaves a flag set whose timer does not run.
LEMMA WatchdogStep == WatchdogInv /\ [CloudNext]_cloudVars => WatchdogInv'
<1> SUFFICES ASSUME WatchdogInv, [CloudNext]_cloudVars PROVE WatchdogInv'
  OBVIOUS
<1> USE DEF WatchdogInv
<1>1. CASE cloudTask
  BY <1>1 DEF cloudTask, Supervise, CLOUD_init, startMqttConnectionTimeout, MustInit, MustStart,
     watchdog
<1>2. CASE Transmit
  BY <1>2 DEF Transmit, watchdog
<1>3. CASE FinishTask
  BY <1>3 DEF FinishTask, Connected, watchdog
<1>4. CASE mqttTimeoutTask
  BY <1>4 DEF mqttTimeoutTask
<1>5. ASSUME NEW success \in BOOLEAN, cloudResetTask(success) PROVE WatchdogInv'
  BY <1>5 DEF cloudResetTask
<1>6. CASE WifiConnected
  BY <1>6 DEF WifiConnected, wifiConnectionStateChanged
<1>7. CASE WifiDisconnected
  BY <1>7 DEF WifiDisconnected, wifiConnectionStateChanged
<1>8. CASE SysTime
  BY <1>8 DEF SysTime, watchdog
<1>9. CASE checkBackTask
  BY <1>9 DEF checkBackTask, watchdog
<1>10. ASSUME NEW success, DhcpConf(success) PROVE WatchdogInv'
  BY <1>10 DEF DhcpConf, watchdog
<1>11. ASSUME NEW found, dnsHandler(found) PROVE WatchdogInv'
  BY <1>11 DEF dnsHandler, watchdog
<1>12. CASE Command \/ ClientEvent \/ UNCHANGED cloudVars
  BY <1>12 DEF Command, set_wifi_auth, reconnect_cmd, set_mqtt,
         ClientEvent, cloudVars, watchdog
<1> QED
  BY <1>1, <1>2, <1>3, <1>4, <1>5, <1>6, <1>7, <1>8, <1>9, <1>10, <1>11, <1>12 DEF CloudNext

\* While the client is not connected, a timer runs at whose end the WINC is restarted, or
\* the next cloudTask starts one (cloudTask, mqttTimeoutTask, cloudResetTask).
THEOREM WatchdogAlwaysArmed == CloudSpec => []WatchdogArmed
<1>1. CloudInit => WatchdogInv
  BY DEF CloudInit, WatchdogInv
<1>2. WatchdogInv /\ [CloudNext]_cloudVars => WatchdogInv'
  BY WatchdogStep
<1>3. WatchdogInv => WatchdogArmed
  BY DEF WatchdogInv, WatchdogArmed, MustInit, MustStart, WatchdogTimers
<1> QED
  BY <1>1, <1>2, <1>3, PTL DEF CloudSpec

\* The service believes in an access point only while the WINC is associated with one,
\* whichever of wifiCallback, checkBackTask and reInit runs last.
THEOREM BelievesOnlyInRealAP == CloudSpec => []BelievesInRealAP
<1>1. CloudInit => BelievesInRealAP
  BY DEF CloudInit, BelievesInRealAP
<1>2. BelievesInRealAP /\ [CloudNext]_cloudVars => BelievesInRealAP'
  <2> SUFFICES ASSUME BelievesInRealAP, [CloudNext]_cloudVars PROVE BelievesInRealAP'
    OBVIOUS
  <2> USE DEF BelievesInRealAP
  <2>1. CASE WifiConnected
    BY <2>1 DEF WifiConnected, Associated
  <2>2. CASE WifiDisconnected
    BY <2>2 DEF WifiDisconnected
  <2>3. ASSUME NEW success, DhcpConf(success) PROVE BelievesInRealAP'
    BY <2>3 DEF DhcpConf, Associated
  <2>4. ASSUME NEW success, cloudResetTask(success) PROVE BelievesInRealAP'
    BY <2>4 DEF cloudResetTask
  <2>5. CASE checkBackTask
    BY <2>5 DEF checkBackTask
  <2>6. CASE \/ cloudTask \/ Transmit \/ FinishTask \/ mqttTimeoutTask \/ SysTime
             \/ \E found \in BOOLEAN : dnsHandler(found)
             \/ Command \/ ClientEvent \/ UNCHANGED cloudVars
    <3>1. UNCHANGED <<haveAPConnection, wifi>>
      BY <2>6 DEF cloudTask, Transmit, FinishTask, mqttTimeoutTask, SysTime, dnsHandler,
         Command, set_wifi_auth, reconnect_cmd, set_mqtt, ClientEvent, cloudVars, params, winc
    <3> QED
      BY <3>1
  <2> QED
    BY <2>1, <2>2, <2>3, <2>4, <2>5, <2>6 DEF CloudNext
<1> QED
  BY <1>1, <1>2, PTL DEF CloudSpec

-----------------------------------------------------------------------------
(***************************************************************************)
(* The watchdog lets a working connection alone.                           *)
(***************************************************************************)

\* An event or a command never brings the client from another state to CONNECTED, and
\* keeps the timers of the watchdog.
LEMMA EventsDoNotConnect ==
    ASSUME Command \/ ClientEvent
    PROVE  /\ UNCHANGED <<turn, cloudTimers>>
           /\ mqttState' = "CONNECTED" => mqttState = "CONNECTED"
<1>1. CASE ClientEvent
  <2>1. UNCHANGED <<turn, mqttState>>
    BY <1>1 DEF ClientEvent, MQTT_CreatePublishPacket, CheckTimeoutState, SocketConnect,
       SocketRecv, SocketRecvError, Network, BrokerTakes, BrokerPublishes, ConnectionLost, core
  <2> QED
    BY <1>1, <2>1 DEF ClientEvent
<1>2. CASE Command
  <2>1. \/ CLI_set_mqtt
        \/ \E sent \in BOOLEAN : CLI_reconnect(sent) \/ CLI_set_wifi(haveDataConnection, sent)
    BY <1>2 DEF Command, set_wifi_auth, reconnect_cmd, set_mqtt
  <2>2. UNCHANGED turn /\ (mqttState' = "CONNECTED" => mqttState = "CONNECTED")
    BY <2>1 DEF CLI_set_mqtt, CLI_reconnect, CLI_set_wifi, MQTT_Disconnect, core
  <2> QED
    BY <1>2, <2>2 DEF Command, set_wifi_auth, reconnect_cmd, set_mqtt
<1> QED
  BY <1>1, <1>2

\* Between a task and the next, a client that is connected has no watchdog behind it: the
\* next cloudTask may ask for a reset, but its own end calls it off.
LEMMA NoResetStep ==
    OrderInv /\ NoResetWhileConnected /\ [CloudNext]_cloudVars => NoResetWhileConnected'
<1> SUFFICES ASSUME OrderInv, NoResetWhileConnected, [CloudNext]_cloudVars
             PROVE  NoResetWhileConnected'
  OBVIOUS
<1>1. CASE cloudTask
  <2>1. CASE LoseWifi
    BY <2>1 DEF LoseWifi, NoResetWhileConnected
  <2>2. ASSUME NEW success, CLOUD_connectSocket(mqttBrokerIP, success)
        PROVE  NoResetWhileConnected'
    BY <2>2 DEF CLOUD_connectSocket, MQTT_ClientInitialise, NoResetWhileConnected
  <2>3. CASE WaitForSocket
    BY <2>3 DEF WaitForSocket, mqttVars, core, OrderInv, NoResetWhileConnected
  <2>4. CASE CLOUD_connectAppProtocol(haveTime)
    BY <2>4 DEF CLOUD_connectAppProtocol, NoResetWhileConnected
  <2>5. CASE ReceiveOverdue \/ ReceiveNothing \/ ReceiveConnack \/ ReceivePacket
    BY <2>5 DEF ReceiveOverdue, ReceiveNothing, ReceiveConnack, ReceivePacket,
       BeginReception, NoResetWhileConnected
  <2> QED
    BY <1>1, <2>1, <2>2, <2>3, <2>4, <2>5 DEF cloudTask, HandleSocket
<1>2. CASE Transmit
  <2>1. turn' = "finish"
    BY <1>2 DEF Transmit, TransmissionHandler, SendConnect, SendPublish, SendSubscribe,
       SendPingreq, SendNothing, BeginTransmission
  <2> QED
    BY <2>1 DEF NoResetWhileConnected
<1>3. CASE FinishTask
  <2>1. mqttState' = "CONNECTED" => mqttState = "CONNECTED"
    BY <1>3 DEF FinishTask, Finish, FinishAged
  <2>2. mqttState = "CONNECTED" => cloudTimers' \cap WatchdogTimers = {}
    BY <1>3 DEF FinishTask, Connected
  <2> QED
    BY <2>1, <2>2 DEF NoResetWhileConnected
<1>4. CASE mqttTimeoutTask
  BY <1>4 DEF mqttTimeoutTask, mqttVars, core, NoResetWhileConnected
<1>5. ASSUME NEW success, cloudResetTask(success) PROVE NoResetWhileConnected'
  BY <1>5 DEF cloudResetTask, ReInit, MQTT_ClientInitialise, NoResetWhileConnected
<1>6. CASE WifiDisconnected
  <2>1. UNCHANGED <<turn, mqttState>>
    BY <1>6 DEF WifiDisconnected, ConnectionLost, mqttVars, core
  <2>2. cloudTimers' = cloudTimers \cup {"checkBack"}
    BY <1>6 DEF WifiDisconnected
  <2> QED
    BY <2>1, <2>2 DEF NoResetWhileConnected, WatchdogTimers
<1>7. CASE \/ WifiConnected \/ SysTime \/ checkBackTask
           \/ \E success \in BOOLEAN : DhcpConf(success) \/ dnsHandler(success)
           \/ UNCHANGED cloudVars
  <2>1. UNCHANGED <<turn, mqttState>> /\ cloudTimers' \subseteq cloudTimers
    BY <1>7 DEF WifiConnected, SysTime, checkBackTask, DhcpConf, dnsHandler, cloudVars,
       mqttVars, core
  <2> QED
    BY <2>1 DEF NoResetWhileConnected
<1>8. CASE Command \/ ClientEvent
  BY <1>8, EventsDoNotConnect DEF NoResetWhileConnected
<1> QED
  BY <1>1, <1>2, <1>3, <1>4, <1>5, <1>6, <1>7, <1>8 DEF CloudNext

\* Between two tasks, neither timer of the watchdog runs while the client is connected
\* (handleSocketState deletes both, cloud_service.c).
THEOREM NeverResetsWhileConnected == CloudSpec => []NoResetWhileConnected
<1>1. CloudSpec => []OrderInv
  BY CloudImplementsClient, OrderHolds, PTL
<1>2. CloudInit => NoResetWhileConnected
  BY DEF CloudInit, ClientInit, NoResetWhileConnected
<1>3. OrderInv /\ NoResetWhileConnected /\ [CloudNext]_cloudVars => NoResetWhileConnected'
  BY NoResetStep
<1> QED
  BY <1>1, <1>2, <1>3, PTL DEF CloudSpec

=============================================================================
