-------------------------- MODULE MCConnackTimeout --------------------------
(* What the MQTT client does about a CONNACK that does not come.            *)
EXTENDS MqttClient

\* "If the Client does not receive a CONNACK Packet from the Server within a reasonable
\* amount of time, the Client SHOULD close the Network Connection" (mqtt_core.c:1209):
\* the reception that finds the CONNACK overdue closes it.
ConnackTimeoutCloses ==
    [][turn = "idle" /\ turn' = "transmit" /\ mqttState = "WAITFORCONNACK"
          /\ "CONNACK" \in mqttTimeouts => socketState' = "NOT_A_SOCKET"]_mqttVars
=============================================================================
