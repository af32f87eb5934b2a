---------------------------- MODULE CloudService ----------------------------
(***************************************************************************)
(* The cloud service: cloudTask of cloud_service.c, which supervises the   *)
(* MQTT client with two timers, the hooks of mosquitto_cloud_service.c,    *)
(* and the Wi-Fi callbacks of wifi_service.c, around the MQTT client.      *)
(*                                                                         *)
(* The device was started to connect to an access point: the soft AP       *)
(* (amSoftAP, provisioning) is left out, and amConnectingAP is then always *)
(* the negation of haveAPConnection.  haveError, amConnectingSocket and    *)
(* amDefaultCred only choose LEDs.  wifi and dnsPending stand for what the *)
(* WINC does between its events; they are external.                        *)
(***************************************************************************)
EXTENDS MqttClient

VARIABLES
    cloudInitialized,
    isResetting,
    waitingForMQTT,
    cloudResetTimerFlag,
    cloudTimers,         \* mqttTimeoutTaskTimer, cloudResetTaskTimer, checkBackTimer
    haveDataConnection,
    haveAPConnection,
    amDisconnecting,
    mqttBrokerIP,        \* has the DNS given an address?
    haveTime,            \* is TIME_getCurrent() > 0?
    wifi,                \* the WINC's association with the access point
    dnsPending           \* a host name is being looked up

watchdog == <<cloudInitialized, isResetting, waitingForMQTT, cloudResetTimerFlag>>
params   == <<haveAPConnection, amDisconnecting, mqttBrokerIP, haveTime>>
winc     == <<wifi, dnsPending>>
cloudVars == <<mqttVars, watchdog, cloudTimers, haveDataConnection, params, winc>>

WatchdogTimers == {"mqttTimeout", "cloudReset"}
Associated == {"joined", "leased"}

CloudTypeOK ==
    /\ ClientTypeOK
    /\ cloudInitialized \in BOOLEAN
    /\ isResetting \in BOOLEAN
    /\ waitingForMQTT \in BOOLEAN
    /\ cloudResetTimerFlag \in BOOLEAN
    /\ cloudTimers \subseteq WatchdogTimers \cup {"checkBack"}
    /\ haveDataConnection \in BOOLEAN
    /\ haveAPConnection \in BOOLEAN
    /\ amDisconnecting \in BOOLEAN
    /\ mqttBrokerIP \in BOOLEAN
    /\ haveTime \in BOOLEAN
    /\ wifi \in {"off", "joining"} \cup Associated
    /\ dnsPending \in BOOLEAN

\* After application_init: nobody has connected to an access point yet.
CloudInit ==
    /\ ClientInit
    /\ cloudInitialized = FALSE
    /\ isResetting = FALSE
    /\ waitingForMQTT = FALSE
    /\ cloudResetTimerFlag = FALSE
    /\ cloudTimers = {}
    /\ haveDataConnection = FALSE
    /\ haveAPConnection = FALSE
    /\ amDisconnecting = FALSE
    /\ mqttBrokerIP = FALSE
    /\ haveTime = FALSE
    /\ wifi = "off"
    /\ dnsPending = FALSE

-----------------------------------------------------------------------------
(***************************************************************************)
(* cloudTask.                                                              *)
(***************************************************************************)

CLOUD_init ==
    /\ isResetting' = TRUE
    /\ cloudTimers' = (cloudTimers \ {"mqttTimeout"}) \cup {"cloudReset"}
    /\ cloudResetTimerFlag' = TRUE
    /\ UNCHANGED <<cloudInitialized, waitingForMQTT>>

startMqttConnectionTimeout ==
    /\ cloudTimers' = cloudTimers \cup {"mqttTimeout"}
    /\ waitingForMQTT' = TRUE
    /\ UNCHANGED <<cloudInitialized, isResetting, cloudResetTimerFlag>>

MustInit == ~cloudInitialized /\ ~isResetting
MustStart == ~MustInit /\ ~waitingForMQTT /\ mqttState # "CONNECTED" /\ ~cloudResetTimerFlag

\* Mutant: the reset is asked for again only when its timer has never been set.
SuperviseOnce ==
    \/ MustInit /\ ~cloudResetTimerFlag /\ CLOUD_init
    \/ MustStart /\ startMqttConnectionTimeout
    \/ ~(MustInit /\ ~cloudResetTimerFlag) /\ ~MustStart /\ UNCHANGED <<watchdog, cloudTimers>>

\* The first half of cloudTask.
Supervise ==
    \/ MustInit /\ CLOUD_init
    \/ MustStart /\ startMqttConnectionTimeout
    \/ ~MustInit /\ ~MustStart /\ UNCHANGED <<watchdog, cloudTimers>>

setHaveSocketFor ==
    haveDataConnection' =
        \/ haveAPConnection /\ haveTime /\ mqttState = "CONNECTED"
        \/ haveDataConnection /\ ~MustStart

\* handleSocketState up to MQTT_ReceptionHandler.
HandleSocket ==
    \/ \E success \in BOOLEAN : CLOUD_connectSocket(mqttBrokerIP, success)
    \/ WaitForSocket
    \/ CLOUD_connectAppProtocol(haveTime)
    \/ ReceiveOverdue \/ ReceiveNothing \/ ReceiveConnack \/ ReceivePacket

cloudTask ==
    /\ turn = "idle"
    /\ Supervise
    /\ setHaveSocketFor
    /\ IF haveAPConnection THEN HandleSocket ELSE LoseWifi
    /\ UNCHANGED <<params, winc>>

Transmit == TransmissionHandler /\ UNCHANGED <<watchdog, cloudTimers, haveDataConnection, params, winc>>

\* Mutant: the timer of the reset still runs when the client is connected.
ConnectedKeepReset ==
    /\ cloudTimers' = cloudTimers \ {"mqttTimeout"}
    /\ isResetting' = FALSE
    /\ waitingForMQTT' = FALSE
    /\ UNCHANGED <<cloudInitialized, cloudResetTimerFlag>>

\* The client is connected: the watchdog is called off.
Connected ==
    /\ cloudTimers' = cloudTimers \ WatchdogTimers
    /\ isResetting' = FALSE
    /\ waitingForMQTT' = FALSE
    /\ UNCHANGED <<cloudInitialized, cloudResetTimerFlag>>

FinishTask ==
    /\ Finish \/ \E sent \in BOOLEAN : FinishAged(sent)
    /\ IF mqttState = "CONNECTED" THEN Connected ELSE UNCHANGED <<watchdog, cloudTimers>>
    /\ UNCHANGED <<haveDataConnection, params, winc>>

-----------------------------------------------------------------------------
(***************************************************************************)
(* The two timers.                                                         *)
(***************************************************************************)

\* Mutant: the flag that a connection is waited for is not reset.
mqttTimeoutTaskWaiting ==
    /\ turn = "idle" /\ "mqttTimeout" \in cloudTimers
    /\ cloudTimers' = cloudTimers \ {"mqttTimeout"}
    /\ UNCHANGED <<mqttVars, watchdog, haveDataConnection, params, winc>>

\* mqttTimeoutTask: CLOUD_reset.
mqttTimeoutTask ==
    /\ turn = "idle" /\ "mqttTimeout" \in cloudTimers
    /\ cloudTimers' = cloudTimers \ {"mqttTimeout"}
    /\ cloudInitialized' = FALSE
    /\ waitingForMQTT' = FALSE
    /\ UNCHANGED <<mqttVars, isResetting, cloudResetTimerFlag, haveDataConnection, params, winc>>

\* Mutant: the belief that there is an access point survives the restart of the WINC.
cloudResetTaskKeepAP(success) ==
    /\ "cloudReset" \in cloudTimers
    /\ ReInit
    /\ isResetting' = FALSE
    /\ cloudInitialized' = success
    /\ waitingForMQTT' = success
    /\ cloudResetTimerFlag' = (cloudResetTimerFlag /\ ~success)
    /\ cloudTimers' = (cloudTimers \ {"cloudReset"})
                          \cup (IF success THEN {"mqttTimeout"} ELSE {})
    /\ mqttBrokerIP' = FALSE
    /\ wifi' = IF success THEN "joining" ELSE "off"
    /\ dnsPending' = FALSE
    /\ UNCHANGED <<haveDataConnection, haveAPConnection, amDisconnecting, haveTime>>

\* cloudResetTask: reInit, which restarts the WINC and asks it to join the access point.
cloudResetTask(success) ==
    /\ "cloudReset" \in cloudTimers
    /\ ReInit
    /\ isResetting' = FALSE
    /\ cloudInitialized' = success
    /\ waitingForMQTT' = success
    /\ cloudResetTimerFlag' = (cloudResetTimerFlag /\ ~success)
    /\ cloudTimers' = (cloudTimers \ {"cloudReset"})
                          \cup (IF success THEN {"mqttTimeout"} ELSE {})
    /\ mqttBrokerIP' = FALSE
    /\ haveAPConnection' = FALSE
    /\ wifi' = IF success THEN "joining" ELSE "off"
    /\ dnsPending' = FALSE
    /\ UNCHANGED <<haveDataConnection, amDisconnecting, haveTime>>

-----------------------------------------------------------------------------
(***************************************************************************)
(* wifiCallback, called by wifiHandlerTask, and checkBackTask.             *)
(***************************************************************************)

\* Called only while amDisconnecting is 0; a status other than connected is CLOUD_reset.
wifiConnectionStateChanged(connected, disconnecting) ==
    cloudInitialized' = (cloudInitialized /\ (connected \/ disconnecting))

\* CON_STATE_CHANGED: CONNECTED.  The WINC may come back by itself from a disconnection.
WifiConnected ==
    /\ turn = "idle" /\ wifi \notin Associated
    /\ wifi' = "joined"
    /\ haveAPConnection' = TRUE
    /\ wifiConnectionStateChanged(TRUE, amDisconnecting)
    /\ UNCHANGED <<mqttVars, isResetting, waitingForMQTT, cloudResetTimerFlag, cloudTimers,
                   haveDataConnection, amDisconnecting, mqttBrokerIP, haveTime, dnsPending>>

\* CON_STATE_CHANGED: DISCONNECTED.  With it goes the TCP connection.
WifiDisconnected ==
    /\ turn = "idle" /\ wifi # "off"
    /\ wifi' = "off" /\ dnsPending' = FALSE
    /\ IF broker # "none" /\ ~gone THEN ConnectionLost ELSE UNCHANGED mqttVars
    /\ haveAPConnection' = FALSE
    /\ cloudTimers' = cloudTimers \cup {"checkBack"}
    /\ amDisconnecting' = TRUE
    /\ wifiConnectionStateChanged(FALSE, amDisconnecting')
    /\ UNCHANGED <<isResetting, waitingForMQTT, cloudResetTimerFlag, haveDataConnection,
                   mqttBrokerIP, haveTime>>

\* DHCP_CONF, at first and at every renewal: the broker's name is looked up.
DhcpConf(success) ==
    /\ turn = "idle" /\ wifi \in Associated
    /\ wifi' = "leased"
    /\ dnsPending' = (dnsPending \/ success)
    /\ cloudTimers' = IF success /\ amDisconnecting THEN cloudTimers \ {"checkBack"}
                                                    ELSE cloudTimers
    /\ amDisconnecting' = (amDisconnecting /\ ~success)
    /\ UNCHANGED <<mqttVars, watchdog, haveDataConnection, haveAPConnection, mqttBrokerIP,
                   haveTime>>

dnsHandler(found) ==
    /\ turn = "idle" /\ dnsPending
    /\ dnsPending' = FALSE
    /\ mqttBrokerIP' = (mqttBrokerIP \/ found)
    /\ UNCHANGED <<mqttVars, watchdog, cloudTimers, haveDataConnection, haveAPConnection,
                   amDisconnecting, haveTime, wifi>>

\* RESP_GET_SYS_TIME, once the WINC has the time.
SysTime ==
    /\ turn = "idle" /\ wifi = "leased" /\ ~haveTime
    /\ haveTime' = TRUE
    /\ UNCHANGED <<mqttVars, watchdog, cloudTimers, haveDataConnection, haveAPConnection,
                   amDisconnecting, mqttBrokerIP, winc>>

checkBackTask ==
    /\ turn = "idle" /\ "checkBack" \in cloudTimers
    /\ cloudTimers' = cloudTimers \ {"checkBack"}
    /\ haveAPConnection' = FALSE
    /\ amDisconnecting' = FALSE
    /\ UNCHANGED <<mqttVars, watchdog, haveDataConnection, mqttBrokerIP, haveTime, winc>>

-----------------------------------------------------------------------------
(***************************************************************************)
(* The commands of the CLI, and what else the MQTT client does.            *)
(***************************************************************************)

\* The commands wifi and reconnect end the data connection.
set_wifi_auth ==
    /\ haveDataConnection' = FALSE
    /\ \E sent \in BOOLEAN : CLI_set_wifi(haveDataConnection, sent)
    /\ UNCHANGED <<watchdog, cloudTimers, params, winc>>

reconnect_cmd ==
    /\ haveDataConnection' = FALSE
    /\ \E sent \in BOOLEAN : CLI_reconnect(sent)
    /\ UNCHANGED <<watchdog, cloudTimers, params, winc>>

\* The commands mqtt and broker.
set_mqtt ==
    /\ CLI_set_mqtt
    /\ UNCHANGED <<haveDataConnection, watchdog, cloudTimers, params, winc>>

Command == set_wifi_auth \/ reconnect_cmd \/ set_mqtt

\* A socket connects only over an access point.
ClientEvent ==
    /\ \/ MQTT_CreatePublishPacket
       \/ \E name \in TimerNames : CheckTimeoutState(name)
       \/ \E success \in BOOLEAN : (success => wifi = "leased") /\ SocketConnect(success)
       \/ \E count \in 1..MaxInbox : SocketRecv(count)
       \/ SocketRecvError
       \/ Network
    /\ UNCHANGED <<watchdog, cloudTimers, haveDataConnection, params, winc>>

CloudNext ==
    \/ cloudTask \/ Transmit \/ FinishTask
    \/ mqttTimeoutTask
    \/ \E success \in BOOLEAN : cloudResetTask(success)
    \/ WifiConnected \/ WifiDisconnected \/ SysTime \/ checkBackTask
    \/ \E success \in BOOLEAN : DhcpConf(success) \/ dnsHandler(success)
    \/ Command
    \/ ClientEvent

CloudSpec == CloudInit /\ [][CloudNext]_cloudVars

-----------------------------------------------------------------------------
(***************************************************************************)
(* Properties.                                                             *)
(***************************************************************************)

\* The device is never given up: while the client is not connected a timer runs at
\* whose end the WINC is restarted, or the next cloudTask starts one, however the
\* flags, the restarts that fail and the connections that come and go interleave.
WatchdogArmed ==
    turn = "idle" /\ mqttState # "CONNECTED" =>
        cloudTimers \cap WatchdogTimers # {} \/ MustInit \/ MustStart

\* A connection that works is never torn down by the watchdog: between two tasks,
\* neither of its timers runs while the client is connected.
NoResetWhileConnected ==
    turn = "idle" /\ mqttState = "CONNECTED" => cloudTimers \cap WatchdogTimers = {}

\* The service never believes in an access point that the WINC is not associated with.
BelievesInRealAP == haveAPConnection => wifi \in Associated

\* "If we have no AP access we want to retry" (application_manager.c:322): when the WINC
\* loses the access point, the cloud service is reset.
LossOfAPResets ==
    [][wifi # "off" /\ wifi' = "off" => ~cloudInitialized']_cloudVars

=============================================================================
