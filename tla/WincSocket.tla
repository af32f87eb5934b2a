----------------------------- MODULE WincSocket -----------------------------
(***************************************************************************)
(* The one TCP socket of the MQTT client below the BSD interface: the      *)
(* socket table of winc/socket/socket.c and the socket state kept by       *)
(* mqtt_winc_adapter.c, over the host interface to the WINC.               *)
(*                                                                         *)
(* Everything runs in the superloop: turn splits a cloudTask that makes    *)
(* several requests, and hif a wifiHandlerTask; while one of them is under *)
(* way the other does not start.                                           *)
(*                                                                         *)
(* The MQTT client above is what MqttClient.tla shows of it: it sends and  *)
(* closes only after a round of its handlers, which start with a connected *)
(* socket.  It awaits responses, and one that is overdue closes every      *)
(* connection from then on (OverdueLocksOut of MqttClient).                *)
(* The firmware, which keeps the connections and answers by messages, is   *)
(* external.                                                               *)
(***************************************************************************)
EXTENDS WincHif, Sequences

CONSTANTS
    TCP_SOCK_MAX,   \* 7
    LastSession,    \* 65535, the last of 16 bits
    MaxOutbox,      \* bound: answers of the firmware that wait to be announced
    MaxLockedOut,   \* bound: a client that is locked out opens no socket after this
                    \* session, but waits for the restart
    MaxFaults       \* bound: failures of the bus, the firmware and the network, and
                    \* commands and resets that the connection gives no reason for

ASSUME SocketAssumption ==
    /\ TCP_SOCK_MAX \in Nat \ {0} /\ LastSession \in Nat \ {0}
    /\ MaxOutbox \in Nat \ {0} /\ MaxLockedOut \in Nat \ {0} /\ MaxFaults \in Nat

VARIABLES
    sockets,        \* gastrSockets
    nextTcpSock,    \* u8NextTcpSock of socket()
    sessionID,      \* gu16SessionID
    mqttSocket,     \* mqqtSocket: the number of the client's socket
    socketState,    \* of the client's socket
    rxSession,      \* the session that the received data came from, 0 without data
    deaf,           \* was a request to receive refused on this connection?
    response,       \* to a PINGREQ or SUBSCRIBE: "none", "awaited" or "overdue"
    started,        \* has there been an MQTT round since MQTT_ClientInitialise?
    turn,           \* what cloudTask does next
    conn,           \* the firmware's connections
    jobs,           \* the requests it has not answered
    outbox,         \* its answers
    faults

hostVars == <<sockets, nextTcpSock, sessionID, mqttSocket, socketState, rxSession, deaf,
              response, started, turn>>
chipVars == <<conn, jobs, outbox>>
wincVars == <<hifVars, hostVars, chipVars, faults>>

Numbers  == 0 .. TCP_SOCK_MAX - 1
NoSocket == -1
Sessions == 0 .. LastSession
Cleared  == [used |-> FALSE, session |-> 0, pending |-> FALSE]
NoConnection == [session |-> 0, state |-> "free"]
Operations == {"CONNECT", "SEND", "RECV"}

Job(op, number, session) == [op |-> op, sock |-> number, session |-> session]

WincTypeOK ==
    /\ HifTypeOK
    /\ sockets \in [Numbers -> [used : BOOLEAN, session : Sessions, pending : BOOLEAN]]
    /\ nextTcpSock \in Numbers
    /\ sessionID \in Sessions
    /\ mqttSocket \in Numbers \cup {NoSocket}
    /\ socketState \in {"NOT_A_SOCKET", "SOCKET_CLOSED", "SOCKET_IN_PROGRESS",
                        "SOCKET_CONNECTED"}
    /\ socketState = "SOCKET_CLOSED" => turn = "close"
    /\ rxSession \in Sessions
    /\ deaf \in BOOLEAN
    /\ response \in {"none", "awaited", "overdue"}
    /\ started \in BOOLEAN
    /\ turn \in {"idle", "close", "transmit", "receive"}
    /\ conn \in [Numbers -> [session : Sessions,
                             state : {"free", "connecting", "connected", "lost"}]]
    /\ \A job \in jobs : /\ job.op \in Operations
                         /\ job.sock \in Numbers /\ job.session \in Sessions
    /\ Len(outbox) <= MaxOutbox
    /\ faults \in 0 .. MaxFaults

WincInit ==
    /\ HifInit
    /\ sockets = [n \in Numbers |-> Cleared]
    /\ nextTcpSock = 0
    /\ sessionID = 0
    /\ mqttSocket = NoSocket
    /\ socketState = "NOT_A_SOCKET"
    /\ rxSession = 0
    /\ deaf = FALSE
    /\ response = "none"
    /\ started = FALSE
    /\ turn = "idle"
    /\ conn = [n \in Numbers |-> NoConnection]
    /\ jobs = {}
    /\ outbox = <<>>
    /\ faults = 0

-----------------------------------------------------------------------------
(***************************************************************************)
(* Requests to the firmware.                                               *)
(***************************************************************************)

Idle == turn = "idle" /\ hif = "idle"

Fault(happens) ==
    /\ faults' = IF happens THEN faults + 1 ELSE faults
    /\ faults' <= MaxFaults

NewFault(outcome) == outcome # "sent" /\ ~busError

\* A request, and the job that it gives the firmware.
Ask(job, outcome) ==
    /\ winc_hif_send(outcome)
    /\ jobs' = IF Delivered(outcome) THEN jobs \cup {job} ELSE jobs
    /\ UNCHANGED outbox

IsUsed == mqttSocket # NoSocket /\ sockets[mqttSocket].used

mySession == sockets[mqttSocket].session

\* Mutant: the entry is given up although the request to close it did not go out.
BSD_closeAlways(table, outcome) ==
    /\ socketState' = "NOT_A_SOCKET"
    /\ IF IsUsed
       THEN /\ winc_hif_send(outcome)
            /\ conn' = IF Delivered(outcome) THEN [conn EXCEPT ![mqttSocket] = NoConnection]
                       ELSE conn
            /\ sockets' = [table EXCEPT ![mqttSocket] = Cleared]
       ELSE /\ outcome = "sent"
            /\ sockets' = table
            /\ UNCHANGED <<intVars, message, busError, conn>>
    /\ UNCHANGED jobs

\* BSD_close, and close() on the given table: a request that fails leaves the entry in
\* use.  The firmware forgets the connection, not the answers it is working on.
BSD_close(table, outcome) ==
    /\ socketState' = "NOT_A_SOCKET"
    /\ IF IsUsed
       THEN /\ winc_hif_send(outcome)
            /\ conn' = IF Delivered(outcome) THEN [conn EXCEPT ![mqttSocket] = NoConnection]
                       ELSE conn
            /\ sockets' = IF outcome = "sent" THEN [table EXCEPT ![mqttSocket] = Cleared]
                          ELSE table
       ELSE /\ outcome = "sent"
            /\ sockets' = table
            /\ UNCHANGED <<intVars, message, busError, conn>>
    /\ UNCHANGED jobs

BSD_send(outcome) ==
    /\ IF IsUsed
       THEN Ask(Job("SEND", mqttSocket, mySession), outcome)
       ELSE outcome = "sent" /\ UNCHANGED <<intVars, message, busError, jobs, outbox>>
    /\ UNCHANGED <<sockets, socketState, deaf, conn>>

\* recv() asks once until an answer comes; the flag stays when the request fails.
BSD_recv(outcome) ==
    /\ IF IsUsed /\ ~sockets[mqttSocket].pending
       THEN /\ Ask(Job("RECV", mqttSocket, mySession), outcome)
            /\ sockets' = [sockets EXCEPT ![mqttSocket].pending = TRUE]
            /\ deaf' = (deaf \/ ~Delivered(outcome))
       ELSE /\ outcome = "sent"
            /\ UNCHANGED <<intVars, message, busError, jobs, outbox, sockets, deaf>>
    /\ UNCHANGED <<socketState, conn>>

-----------------------------------------------------------------------------
(***************************************************************************)
(* cloudTask, as far as the socket sees it.                                *)
(***************************************************************************)

\* The n-th number that socket() looks at.
Probe(n) == (nextTcpSock + n) % TCP_SOCK_MAX

IsFree(n) == ~sockets[Probe(n)].used

\* socket() takes the first that is free; without one it ends with the last.
Taken(n) ==
    /\ \A earlier \in 0 .. n - 1 : ~IsFree(earlier)
    /\ ~IsFree(n) => n = TCP_SOCK_MAX - 1

\* Mutant: a connect that fails is not followed by a close.
NoClose(outcome) == "idle"

TurnAfterConnect(outcome) == IF outcome = "sent" THEN "idle" ELSE "close"

\* socket(): the entry is cleared and numbered anew, also the one that is not free.
socket(n) ==
    /\ Taken(n)
    /\ nextTcpSock' = Probe(n + 1)
    /\ sessionID' = (sessionID % LastSession) + 1
    /\ sockets' = [sockets EXCEPT ![Probe(n)] =
                      [used |-> TRUE, session |-> sessionID', pending |-> FALSE]]
    /\ mqttSocket' = IF IsFree(n) THEN Probe(n) ELSE NoSocket

CLOUD_connectSocket(n, outcome) ==
    /\ Idle /\ socketState = "NOT_A_SOCKET"
    /\ response = "overdue" => sessionID < MaxLockedOut
    /\ socket(n)
    /\ IF ~IsFree(n)
       THEN /\ outcome = "sent"
            /\ UNCHANGED <<socketState, turn, intVars, message, busError, chipVars>>
       ELSE /\ Ask(Job("CONNECT", Probe(n), sessionID'), outcome)
            /\ conn' = IF Delivered(outcome)
                       THEN [conn EXCEPT ![Probe(n)] =
                                [session |-> sessionID', state |-> "connecting"]]
                       ELSE conn
            /\ turn' = TurnAfterConnect(outcome)
            /\ socketState' = IF outcome = "sent" THEN "SOCKET_IN_PROGRESS"
                              ELSE "SOCKET_CLOSED"
    /\ rxSession' = 0       \* MQTT_ClientInitialise
    /\ deaf' = FALSE
    /\ started' = FALSE
    /\ Fault(NewFault(outcome))
    /\ UNCHANGED <<hif, response>>

CloseFailed(outcome) ==
    /\ turn = "close"
    /\ BSD_close(sockets, outcome)
    /\ turn' = "idle"
    /\ Fault(NewFault(outcome))
    /\ UNCHANGED <<hif, nextTcpSock, sessionID, mqttSocket, rxSession, deaf, response, started,
                   outbox>>

\* Nothing comes on this connection any more, and the WINC does not know.
Unasked == IsUsed /\ sockets[mqttSocket].pending /\ deaf

\* A round of the MQTT handlers; MQTT_ReceptionHandler closes when a response is overdue.
BeginRound(outcome) ==
    /\ Idle /\ socketState = "SOCKET_CONNECTED"
    /\ turn' = "transmit"
    /\ started' = TRUE
    /\ IF response = "overdue" THEN BSD_close(sockets, outcome)
       ELSE /\ outcome = "sent"
            /\ UNCHANGED <<intVars, message, busError, sockets, socketState, conn, jobs>>
    /\ Fault(NewFault(outcome))
    /\ UNCHANGED <<hif, nextTcpSock, sessionID, mqttSocket, rxSession, deaf, response, outbox>>

\* A response is awaited to a packet that went out, and only a client that has received
\* its CONNACK sends such packets.
AwaitResponse(outcome) ==
    /\ IsUsed /\ rxSession # 0 /\ outcome = "sent"
    /\ response' = IF response = "overdue" THEN response ELSE "awaited"

\* Bound: one packet under way.
Transmit(outcome) ==
    /\ turn = "transmit"
    /\ turn' = "receive"
    /\ \/ /\ \A job \in jobs : job.op # "SEND"
          /\ BSD_send(outcome)
          /\ UNCHANGED response \/ AwaitResponse(outcome)
       \/ /\ outcome = "sent"
          /\ UNCHANGED <<intVars, message, busError, sockets, socketState, deaf, response,
                         chipVars>>
    /\ Fault(NewFault(outcome))
    /\ UNCHANGED <<hif, nextTcpSock, sessionID, mqttSocket, rxSession, started>>

Receive(outcome) ==
    /\ turn = "receive"
    /\ turn' = "idle"
    /\ BSD_recv(outcome)
    /\ Fault(NewFault(outcome))
    /\ UNCHANGED <<hif, nextTcpSock, sessionID, mqttSocket, rxSession, response, started>>

cloudTask ==
    \E outcome \in Outcomes :
        \/ \E n \in Numbers : CLOUD_connectSocket(n, outcome)
        \/ CloseFailed(outcome)
        \/ BeginRound(outcome)
        \/ Transmit(outcome)
        \/ Receive(outcome)

\* A command, or the age of the connection: a DISCONNECT is sent, or the socket closed.
Command(outcome) ==
    /\ Idle /\ started
    /\ \/ BSD_send(outcome)
       \/ BSD_close(sockets, outcome) /\ UNCHANGED <<deaf, outbox>>
    /\ Fault(TRUE)
    /\ UNCHANGED <<hif, nextTcpSock, sessionID, mqttSocket, rxSession, response, started, turn>>

\* checkTimeoutState of the timer of a response.  One is always awaited in the end on a
\* connection that has gone deaf after the CONNACK, as the client pings (KeepAliveRuns
\* of MqttClient) and no command comes that it would report by a PUBLISH instead; a bus in
\* error refuses the PINGREQ.
ResponseOverdue ==
    /\ Idle
    /\ response = "awaited" \/ (Unasked /\ rxSession # 0 /\ ~busError)
    /\ response' = "overdue"
    /\ UNCHANGED <<hifVars, sockets, nextTcpSock, sessionID, mqttSocket, socketState, rxSession,
                   deaf, started, turn, chipVars, faults>>

-----------------------------------------------------------------------------
(***************************************************************************)
(* wifiHandlerTask: m2m_ip_cb and BSD_SocketHandler.                       *)
(***************************************************************************)

reply == Head(outbox)

IsClientSocket == reply.sock = mqttSocket

\* Mutant: an answer is taken for the number it comes for, whatever the session.
AnySession == TRUE

OwnSession == reply.session = sockets[reply.sock].session

Ignored ==
    /\ UNCHANGED <<sockets, socketState, rxSession, response, conn, jobs, busError>>

\* The answer to a CONNECT names no session.
ConnectReply(outcome) ==
    /\ reply.op = "CONNECT"
    /\ IF ~IsClientSocket THEN outcome = "sent" /\ Ignored
       ELSE IF reply.ok
       THEN /\ outcome = "sent"
            /\ socketState' = "SOCKET_CONNECTED"
            /\ UNCHANGED <<sockets, rxSession, response, conn, jobs, busError>>
       ELSE BSD_close(sockets, outcome) /\ UNCHANGED <<rxSession, response>>

SendReply ==
    /\ reply.op = "SEND"
    /\ IF IsClientSocket /\ OwnSession
       THEN /\ socketState' = "SOCKET_CONNECTED"
            /\ UNCHANGED <<sockets, rxSession, response, conn, jobs, busError>>
       ELSE Ignored

\* Mutant: the flag is left to the next request.
StillPending == sockets

\* The flag is cleared before the session is looked at.
NotPending == [sockets EXCEPT ![reply.sock].pending = FALSE]

RecvReply(outcome) ==
    /\ reply.op = "RECV"
    /\ IF ~(IsClientSocket /\ OwnSession)
       THEN /\ outcome = "sent"
            /\ sockets' = NotPending
            /\ UNCHANGED <<socketState, rxSession, response, conn, jobs, busError>>
       ELSE IF reply.ok
       THEN \/ /\ outcome = "sent"
               /\ sockets' = NotPending
               /\ socketState' = "SOCKET_CONNECTED"
               /\ rxSession' = reply.session
               /\ response' \in {response, IF response = "awaited" THEN "none" ELSE response}
               /\ UNCHANGED <<conn, jobs, busError>>
            \/ /\ outcome = "lost"          \* the data cannot be read
               /\ sockets' = NotPending
               /\ busError' = TRUE
               /\ UNCHANGED <<socketState, rxSession, response, conn, jobs>>
       ELSE BSD_close(NotPending, outcome) /\ UNCHANGED <<rxSession, response>>

Callback(outcome) ==
    /\ CallbackDone
    /\ outbox' = Tail(outbox)
    /\ \/ ConnectReply(outcome)
       \/ outcome = "sent" /\ SendReply
       \/ RecvReply(outcome)
       \/ outcome = "lost" /\ busError' = TRUE     \* the answer cannot be read
          /\ UNCHANGED <<sockets, socketState, rxSession, response, conn, jobs>>
    /\ Fault(NewFault(outcome))
    /\ UNCHANGED <<nextTcpSock, sessionID, mqttSocket, deaf, started, turn>>

wifiHandlerTask ==
    \/ turn = "idle" /\ TakeMessage /\ UNCHANGED <<hostVars, chipVars, faults>>
    \/ turn = "idle" /\ TakeFails /\ Fault(TRUE) /\ UNCHANGED <<hostVars, chipVars>>
    \/ \E outcome \in Outcomes : Callback(outcome)
    \/ Serviced /\ Fault(busError' # busError) /\ UNCHANGED <<hostVars, chipVars>>

Interrupt == winc_interrupt_handler /\ UNCHANGED <<hostVars, chipVars, faults>>

-----------------------------------------------------------------------------
(***************************************************************************)
(* wifi_reinit and reInit.  The watchdog of the cloud service restarts the *)
(* WINC when the MQTT client is not CONNECTED: with a bus in error (which  *)
(* the client notices when it sends, or when its connection has aged), no  *)
(* free socket, a CONNACK that cannot come, or an overdue response.  On a  *)
(* connection that goes deaf after the CONNACK it may be CONNECTED still.  *)
(***************************************************************************)

Hopeless ==
    \/ busError
    \/ mqttSocket = NoSocket /\ sessionID # 0
    \/ Unasked /\ rxSession = 0

MayRestart == Hopeless \/ Unasked \/ response = "overdue"

\* Mutant: the table is kept.
KeepTable == sockets

ClearedTable == [n \in Numbers |-> Cleared]

Restart ==
    /\ turn = "idle" /\ AdapterInit
    /\ Fault(~MayRestart)
    /\ sockets' = ClearedTable
    /\ UNCHANGED <<nextTcpSock, sessionID, mqttSocket, socketState, rxSession, deaf, response,
                   started, turn, chipVars>>

FinishRestart ==
    /\ ChipReset
    /\ Fault(busError')
    /\ sessionID' = 0
    /\ socketState' = "NOT_A_SOCKET"
    /\ rxSession' = 0
    /\ started' = FALSE
    /\ conn' = [n \in Numbers |-> NoConnection]
    /\ jobs' = {}
    /\ outbox' = <<>>
    /\ UNCHANGED <<sockets, nextTcpSock, mqttSocket, deaf, response, turn>>

-----------------------------------------------------------------------------
(***************************************************************************)
(* External: the firmware and the network.                                 *)
(***************************************************************************)

Answer(job, ok) ==
    /\ Len(outbox) < MaxOutbox
    /\ outbox' = Append(outbox, [op |-> job.op, sock |-> job.sock,
                                 session |-> job.session, ok |-> ok])

IsOpen(job) == conn[job.sock].session = job.session

\* The firmware completes a request.  A RECV or SEND of a connection closed meanwhile is
\* answered in any way or not at all; a CONNECT, whose answer names no session, is not.
Complete(job) ==
    /\ jobs' = jobs \ {job}
    /\ \/ /\ job.op = "CONNECT" /\ IsOpen(job)
          /\ \E ok \in BOOLEAN :
                /\ Answer(job, ok)
                /\ conn' = [conn EXCEPT ![job.sock].state = IF ok THEN "connected" ELSE "lost"]
                /\ Fault(~ok)
       \/ /\ job.op # "CONNECT" /\ IsOpen(job)
          /\ Answer(job, conn[job.sock].state = "connected")
          /\ UNCHANGED <<conn, faults>>
       \/ /\ ~IsOpen(job)
          /\ \/ job.op # "CONNECT" /\ \E ok \in BOOLEAN : Answer(job, ok)
             \/ UNCHANGED outbox
          /\ UNCHANGED <<conn, faults>>
    /\ UNCHANGED <<hifVars, hostVars>>

CompleteSome(op) == \E job \in jobs : job.op = op /\ Complete(job)

AnnounceNext == outbox # <<>> /\ Announce /\ UNCHANGED <<hostVars, chipVars, faults>>

ConnectionLost(n) ==
    /\ conn[n].state = "connected"
    /\ conn' = [conn EXCEPT ![n].state = "lost"]
    /\ Fault(TRUE)
    /\ UNCHANGED <<hifVars, hostVars, jobs, outbox>>

-----------------------------------------------------------------------------
WincNext ==
    \/ cloudTask
    \/ \E outcome \in Outcomes : Command(outcome)
    \/ ResponseOverdue
    \/ wifiHandlerTask \/ Interrupt
    \/ Restart \/ FinishRestart
    \/ \E op \in Operations : CompleteSome(op)
    \/ AnnounceNext
    \/ \E n \in Numbers : ConnectionLost(n)

\* The tasks are periodic timers, and the superloop serves every one that expires, also
\* that of a response that cannot come; the firmware answers every request of a
\* connection that is open.
WincFairness ==
    /\ SF_wincVars(cloudTask)
    /\ SF_wincVars(wifiHandlerTask)
    /\ SF_wincVars((Hopeless /\ Restart) \/ (Unasked /\ ResponseOverdue))
    /\ WF_wincVars(FinishRestart \/ Interrupt \/ AnnounceNext)
    /\ \A op \in {"CONNECT", "RECV"} : SF_wincVars(CompleteSome(op))

WincSpec == WincInit /\ [][WincNext]_wincVars /\ WincFairness

-----------------------------------------------------------------------------
\* A socket that the client takes for connected is one whose CONNECT the firmware has
\* answered: the answer names no session, so an old one must never come for a new
\* socket, nor any answer revive a socket that is closed.
ConnectedMeansConnected ==
    socketState = "SOCKET_CONNECTED" /\ hif # "reset" =>
        /\ IsUsed
        /\ conn[mqttSocket].session = mySession
        /\ conn[mqttSocket].state \in {"connected", "lost"}

\* The receive buffer never holds the data of an earlier connection.
OwnDataOnly ==
    rxSession # 0 /\ socketState = "SOCKET_CONNECTED" /\ hif # "reset" => rxSession = mySession

\* The firmware keeps no connection that the table has given up: no number is used for
\* a new socket while the old one is open.
NoneLeaked ==
    \A n \in Numbers : conn[n].state # "free" /\ hif # "reset" => sockets[n].used

\* Received data is waited for only if the firmware has been asked for it, unless the
\* request failed: a late answer of an earlier session clears the flag, never sets it.
AwaitedMeansAsked ==
    socketState = "SOCKET_CONNECTED" /\ hif # "reset" /\ ~busError
        /\ sockets[mqttSocket].pending /\ ~deaf =>
        \/ Job("RECV", mqttSocket, mySession) \in jobs
        \/ \E i \in 1 .. Len(outbox) :
              /\ outbox[i].op = "RECV" /\ outbox[i].sock = mqttSocket
              /\ outbox[i].session = mySession

Receiving ==
    /\ hif = "callback" /\ ~busError
    /\ reply.op = "RECV" /\ reply.ok
    /\ IsClientSocket /\ OwnSession

\* After the last fault the device receives, again and again, on a connection of its own,
\* unless a response was overdue: then it is locked out.  So a request to receive that is
\* refused before the CONNACK is made good by a restart, and nothing else ends receiving.
KeepsReceiving == []<>Receiving \/ <>[](response = "overdue")

=============================================================================
