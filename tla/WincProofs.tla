----------------------------- MODULE WincProofs -----------------------------
(***************************************************************************)
(* Proofs about WincHif.tla and WincSocket.tla: the socket layer uses the  *)
(* host interface as WincHif.tla describes it, so that what is proved of   *)
(* the interface holds below every socket; the table of the sockets never  *)
(* gives up a connection that the firmware keeps; and the answers of       *)
(* earlier sessions are told from those of the present one.                *)
(***************************************************************************)
EXTENDS WincSocket, TLAPS

-----------------------------------------------------------------------------
(***************************************************************************)
(* The host interface.                                                     *)
(***************************************************************************)

Servicing == {"callback", "disable", "decrement", "enable", "done"}

\* What the counter may hold.  A message that is taken is not announced, and its edge is
\* not counted; a restart clears the counter, and counts again at most the one message
\* that is announced before the reset of the chip.
HifInv ==
    /\ HifTypeOK
    /\ hif \in Servicing => message = "taken"
    /\ hif \notin {"decrement", "enable"} => sensing
    /\ message = "announced" /\ hif # "reset" => serviceRequest # 0 \/ edge
    /\ message = "announced" /\ edge => serviceRequest <= 1
    /\ message = "none" \/ hif \in {"enable", "done", "reset"} => serviceRequest <= 1
    /\ hif = "reset" /\ (edge \/ message # "announced") => serviceRequest = 0
    /\ serviceRequest <= 2

\* The count is right at the start.
LEMMA HifInitial == HifInit => HifInv
<1> SUFFICES ASSUME HifInit PROVE HifInv
  OBVIOUS
<1>1. serviceRequest \in 0 .. 127
  BY DEF HifInit
<1>2. HifTypeOK
  BY <1>1, Zenon DEF HifInit, HifTypeOK
<1> QED
  BY <1>2 DEF HifInit, HifInv, Servicing

\* Every step of the firmware, the interrupt and the main program keeps the count.
LEMMA HifStep == HifInv /\ [HifNext]_hifVars => HifInv'
<1> SUFFICES ASSUME HifInv, [HifNext]_hifVars PROVE HifInv'
  OBVIOUS
<1> USE DEF HifInv, HifTypeOK, Servicing
<1>1. CASE Announce
  BY <1>1 DEF Announce
<1>2. CASE winc_interrupt_handler
  <2>1. CASE message = "announced"
    <3>1. /\ edge /\ ~edge' /\ serviceRequest' = serviceRequest + 1
          /\ UNCHANGED <<sensing, message, busError, hif>>
      BY <1>2, <2>1 DEF winc_interrupt_handler
    <3>2. serviceRequest' \in 0 .. 127
      BY <2>1, <3>1
    <3>3. HifTypeOK'
      BY <1>2, <3>1, <3>2, Zenon DEF winc_interrupt_handler
    <3> QED
      BY <2>1, <3>1, <3>3
  <2>2. CASE message # "announced"
    BY <1>2, <2>2 DEF winc_interrupt_handler
  <2> QED
    BY <2>1, <2>2
<1>3. CASE TakeMessage
  BY <1>3 DEF TakeMessage, Requested, intVars
<1>4. CASE TakeFails
  BY <1>4 DEF TakeFails, Requested, intVars
<1>5. CASE CallbackDone /\ busError' \in {busError, TRUE}
  BY <1>5 DEF CallbackDone, intVars
<1>6. CASE DisableInterrupt
  BY <1>6 DEF DisableInterrupt
<1>7. CASE CountServiced
  BY <1>7 DEF CountServiced
<1>8. CASE EnableInterrupt
  BY <1>8 DEF EnableInterrupt
<1>9. CASE RxDone
  BY <1>9 DEF RxDone, intVars
<1>10. ASSUME NEW outcome \in Outcomes, winc_hif_send(outcome), UNCHANGED hif
       PROVE  HifInv'
  BY <1>10 DEF winc_hif_send, intVars
<1>11. CASE AdapterInit
  BY <1>11 DEF AdapterInit
<1>12. CASE ChipReset
  BY <1>12 DEF ChipReset, intVars
<1>13. CASE UNCHANGED hifVars
  BY <1>13 DEF hifVars, intVars
<1> QED
  BY <1>1, <1>2, <1>3, <1>4, <1>5, <1>6, <1>7, <1>8, <1>9, <1>10, <1>11, <1>12, <1>13
     DEF HifNext, Serviced

\* It is an invariant of the interface.
LEMMA HifHolds == HifSpec => []HifInv
  BY HifInitial, HifStep, PTL DEF HifSpec

\* No announced message is left without a request, and at most one request too many is
\* counted, for every interleaving of the interrupt with winc_hif_handle_isr.
THEOREM MessagesRequested == HifSpec => []EveryMessageRequested
<1>1. HifInv => EveryMessageRequested
  BY DEF HifInv, EveryMessageRequested
<1> QED
  BY <1>1, HifHolds, PTL


-----------------------------------------------------------------------------
(***************************************************************************)
(* The socket layer implements the host interface: a request is one        *)
(* winc_hif_send, a callback changes nothing of the interface but the      *)
(* error of the bus.                                                       *)
(***************************************************************************)

\* What the calls of the socket layer do to the interface.
HifCall(outcome) ==
    winc_hif_send(outcome) \/ UNCHANGED <<intVars, message, busError>>

\* A call of a task is a step of the interface, or none of its business.
LEMMA CallIsHif ==
    ASSUME NEW outcome \in Outcomes, HifCall(outcome), UNCHANGED hif
    PROVE  [HifNext]_hifVars
  BY DEF HifCall, HifNext, hifVars

\* So is a callback, whose only trace is an error of the bus.
LEMMA CallbackIsHif ==
    ASSUME NEW outcome \in Outcomes, busError \in BOOLEAN, CallbackDone,
           HifCall(outcome) \/ busError' \in {busError, TRUE}
    PROVE  HifNext
<1>1. busError' \in {busError, TRUE}
  <2>1. CASE outcome \in {"lost", "unsure"}
    BY <2>1, Zenon DEF HifCall, winc_hif_send
  <2>2. CASE outcome \notin {"lost", "unsure"}
    <3>1. outcome # "lost"
      BY <2>2
    <3>2. CASE winc_hif_send(outcome)
      <4>1. ~busError
        BY <3>1, <3>2 DEF winc_hif_send
      <4>2. ~busError'
        BY <2>2, <3>2 DEF winc_hif_send
      <4>3. busError' \in BOOLEAN
        BY <3>2 DEF winc_hif_send
      <4> QED
        BY <4>1, <4>2, <4>3, Zenon
    <3> QED
      BY <2>2, <3>2, Zenon DEF HifCall
  <2> QED
    BY <2>1, <2>2
<1> QED
  BY <1>1 DEF HifNext

\* Every step of the socket layer is a step of the interface.
LEMMA SocketStepIsHif ==
    busError \in BOOLEAN /\ [WincNext]_wincVars => [HifNext]_hifVars
<1> SUFFICES ASSUME busError \in BOOLEAN, [WincNext]_wincVars PROVE [HifNext]_hifVars
  OBVIOUS
<1>1. ASSUME NEW outcome \in Outcomes, NEW n \in Numbers, CLOUD_connectSocket(n, outcome)
      PROVE  [HifNext]_hifVars
  BY <1>1, CallIsHif DEF CLOUD_connectSocket, Ask, HifCall
<1>2. ASSUME NEW outcome \in Outcomes, CloseFailed(outcome)
      PROVE  [HifNext]_hifVars
  BY <1>2, CallIsHif DEF CloseFailed, BSD_close, HifCall
<1>3. ASSUME NEW outcome \in Outcomes, BeginRound(outcome)
      PROVE  [HifNext]_hifVars
  BY <1>3, CallIsHif DEF BeginRound, BSD_close, HifCall
<1>4. ASSUME NEW outcome \in Outcomes, Transmit(outcome)
      PROVE  [HifNext]_hifVars
  BY <1>4, CallIsHif DEF Transmit, BSD_send, Ask, HifCall
<1>5. ASSUME NEW outcome \in Outcomes, Receive(outcome)
      PROVE  [HifNext]_hifVars
  BY <1>5, CallIsHif DEF Receive, BSD_recv, Ask, HifCall
<1>6. ASSUME NEW outcome \in Outcomes, Command(outcome)
      PROVE  [HifNext]_hifVars
  BY <1>6, CallIsHif DEF Command, BSD_send, BSD_close, Ask, HifCall
<1>7. ASSUME NEW outcome \in Outcomes, Callback(outcome)
      PROVE  [HifNext]_hifVars
  <2>1. CallbackDone
    BY <1>7 DEF Callback
  <2>2. HifCall(outcome) \/ busError' \in {busError, TRUE}
    BY <1>7 DEF Callback, ConnectReply, SendReply, RecvReply, Ignored, BSD_close, HifCall
  <2> QED
    BY <2>1, <2>2, CallbackIsHif
<1>8. CASE (TakeMessage \/ TakeFails) \/ (Serviced \/ winc_interrupt_handler)
  BY <1>8 DEF HifNext
<1>9. CASE AdapterInit \/ ChipReset \/ Announce
  BY <1>9 DEF HifNext
<1>10. ASSUME NEW job \in jobs, Complete(job)
       PROVE  [HifNext]_hifVars
  BY <1>10 DEF Complete
<1>11. ASSUME NEW n \in Numbers, ConnectionLost(n)
       PROVE  [HifNext]_hifVars
  BY <1>11 DEF ConnectionLost
<1>12. CASE ResponseOverdue \/ UNCHANGED wincVars
  BY <1>12 DEF ResponseOverdue, wincVars
<1> QED
  <2>1. CASE cloudTask
    BY <2>1, <1>1, <1>2, <1>3, <1>4, <1>5 DEF cloudTask
  <2>2. CASE wifiHandlerTask \/ Interrupt
    BY <2>2, <1>7, <1>8 DEF wifiHandlerTask, Interrupt
  <2>3. CASE Restart \/ FinishRestart \/ AnnounceNext
    BY <2>3, <1>9 DEF Restart, FinishRestart, AnnounceNext
  <2>4. CASE \E op \in Operations : CompleteSome(op)
    BY <2>4, <1>10 DEF CompleteSome
  <2> QED
    BY <2>1, <2>2, <2>3, <2>4, <1>6, <1>11, <1>12 DEF WincNext

\* Whatever the sockets do, the interface below them behaves as WincHif.tla says.
THEOREM SocketsImplementHif == WincSpec => HifSpec
<1>1. WincInit => HifInit
  BY DEF WincInit
<1>2. HifInv => busError \in BOOLEAN
  BY DEF HifInv, HifTypeOK
<1> QED
  BY <1>1, <1>2, HifInitial, HifStep, SocketStepIsHif, PTL DEF WincSpec, HifSpec

\* So no message for a socket is left without a request.
THEOREM SocketMessagesRequested == WincSpec => []EveryMessageRequested
  BY SocketsImplementHif, MessagesRequested, PTL


-----------------------------------------------------------------------------
(***************************************************************************)
(* The table of the sockets.  A connection of the firmware has a used      *)
(* entry; the sessions of used entries, of open connections and of         *)
(* requests are not 0, so that the answer to an old request never opens a  *)
(* connection that is closed.                                              *)
(***************************************************************************)

Table == [Numbers -> [used : BOOLEAN, session : Sessions, pending : BOOLEAN]]
Connections == [Numbers -> [session : Sessions,
                            state : {"free", "connecting", "connected", "lost"}]]

TableOK ==
    /\ sockets \in Table
    /\ conn \in Connections
    /\ mqttSocket \in Numbers \cup {NoSocket}
    /\ \A n \in Numbers : sockets[n].used => sockets[n].session # 0
    /\ \A n \in Numbers : conn[n].state = "free" => conn[n].session = 0

JobsOK == \A job \in jobs : job.session # 0

CountersOK == nextTcpSock \in Numbers /\ sessionID \in Sessions

LeakInv ==
    /\ TableOK
    /\ JobsOK
    /\ NoneLeaked

\* The same with another table for the one that is in use.
SameUse(table) ==
    /\ table \in Table
    /\ \A n \in Numbers : /\ table[n].used = sockets[n].used
                          /\ table[n].session = sockets[n].session

\* A remainder is less than the divisor.
LEMMA ModRange == \A a \in Nat, b \in Nat \ {0} : a % b \in 0 .. b - 1
  OBVIOUS

\* At the start nothing is in use.
LEMMA LeakInit == WincInit => LeakInv
  BY SocketAssumption DEF WincInit, LeakInv, TableOK, JobsOK, NoneLeaked, Table, Connections,
     Numbers, Sessions, Cleared, NoConnection

\* What close() does keeps the table right.
LEMMA CloseKeeps ==
    ASSUME LeakInv, NEW table, SameUse(table), NEW outcome \in Outcomes,
           BSD_close(table, outcome), UNCHANGED mqttSocket, hif = "reset" => hif' = "reset"
    PROVE  LeakInv'
<1>1. CASE ~IsUsed
  BY <1>1 DEF BSD_close, LeakInv, TableOK, JobsOK, NoneLeaked, SameUse
<1>2. CASE IsUsed
  <2>1. mqttSocket \in Numbers /\ jobs' = jobs
    BY <1>2 DEF IsUsed, LeakInv, TableOK, BSD_close
  <2>2. conn' = [conn EXCEPT ![mqttSocket] = NoConnection] \/ conn' = conn
    BY <1>2 DEF BSD_close
  <2>3. \/ sockets' = [table EXCEPT ![mqttSocket] = Cleared] /\ outcome = "sent"
        \/ sockets' = table
    BY <1>2 DEF BSD_close
  <2>4. outcome = "sent" => conn' = [conn EXCEPT ![mqttSocket] = NoConnection]
    BY <1>2 DEF BSD_close, Delivered
  <2>5. NoConnection \in [session : Sessions,
                          state : {"free", "connecting", "connected", "lost"}]
    BY SocketAssumption DEF NoConnection, Sessions
  <2>6. Cleared \in [used : BOOLEAN, session : Sessions, pending : BOOLEAN]
    BY SocketAssumption DEF Cleared, Sessions
  <2>7. NoConnection.state = "free" /\ NoConnection.session = 0 /\ ~Cleared.used
    BY DEF NoConnection, Cleared
  <2> HIDE DEF NoConnection, Cleared
  <2>8. sockets' \in Table /\ \A n \in Numbers : sockets'[n].used => sockets'[n].session # 0
    BY <2>1, <2>3, <2>6, <2>7 DEF LeakInv, TableOK, SameUse, Table
  <2>9. conn' \in Connections
        /\ \A n \in Numbers : conn'[n].state = "free" => conn'[n].session = 0
    BY <2>1, <2>2, <2>5, <2>7 DEF LeakInv, TableOK, Connections
  <2>10. TableOK'
    BY <2>8, <2>9 DEF LeakInv, TableOK, Table, Connections, Numbers, Sessions
  <2>11. NoneLeaked'
    BY <2>1, <2>2, <2>3, <2>4, <2>5, <2>6, <2>7
       DEF LeakInv, TableOK, SameUse, Table, Connections, NoneLeaked
  <2> QED
    BY <2>1, <2>10, <2>11 DEF LeakInv, JobsOK
<1> QED
  BY <1>1, <1>2


\* A step that leaves the connections alone and the entries in use.
LEMMA UseKept ==
    ASSUME LeakInv, SameUse(sockets'), UNCHANGED <<conn, mqttSocket>>, JobsOK',
           hif = "reset" => hif' = "reset"
    PROVE  LeakInv'
  BY DEF LeakInv, TableOK, NoneLeaked, SameUse, Table, Connections

\* The table has the same entries in use as itself.
LEMMA SameTable == LeakInv => SameUse(sockets)
  BY DEF LeakInv, TableOK, SameUse

\* A request is for the session of an entry in use.
LEMMA AskKeeps ==
    ASSUME LeakInv, NEW op, NEW outcome, IsUsed, Ask(Job(op, mqttSocket, mySession), outcome)
    PROVE  JobsOK'
<1>1. mySession # 0
  BY DEF IsUsed, LeakInv, TableOK, mySession
<1> QED
  BY <1>1 DEF Ask, Job, JobsOK, LeakInv

\* What send() does keeps the table right.
LEMMA SendKeeps ==
    ASSUME LeakInv, NEW outcome, BSD_send(outcome), UNCHANGED <<mqttSocket, hif>>
    PROVE  LeakInv'
<1>1. JobsOK'
  BY AskKeeps DEF BSD_send, LeakInv, JobsOK
<1> QED
  BY <1>1, UseKept, SameTable DEF BSD_send

\* So does recv(), which marks the entry as pending.
LEMMA RecvKeeps ==
    ASSUME LeakInv, NEW outcome, BSD_recv(outcome), UNCHANGED <<mqttSocket, hif>>
    PROVE  LeakInv'
<1>1. JobsOK'
  BY AskKeeps DEF BSD_recv, LeakInv, JobsOK
<1>2. sockets' = [sockets EXCEPT ![mqttSocket].pending = TRUE] \/ sockets' = sockets
  BY DEF BSD_recv
<1>3. SameUse(sockets')
  <2>1. CASE sockets' = sockets
    BY <2>1, SameTable DEF SameUse, LeakInv, TableOK, Table
  <2>2. CASE sockets' = [sockets EXCEPT ![mqttSocket].pending = TRUE]
    BY <2>2 DEF SameUse, LeakInv, TableOK, Table
  <2> QED
    BY <1>2, <2>1, <2>2
<1> QED
  BY <1>1, <1>3, UseKept DEF BSD_recv

\* A socket is opened at an entry that is free, or at none: then the entry looked at
\* last stays in use.
LEMMA ConnectKeeps ==
    ASSUME LeakInv, CountersOK, NEW n \in Numbers, NEW outcome,
           CLOUD_connectSocket(n, outcome)
    PROVE  LeakInv' /\ CountersOK'
<1> DEFINE number == Probe(n)
           entry == [used |-> TRUE, session |-> sessionID', pending |-> FALSE]
           open == [session |-> sessionID', state |-> "connecting"]
<1>1. sessionID' = (sessionID % LastSession) + 1 /\ nextTcpSock' = Probe(n + 1)
  BY DEF CLOUD_connectSocket, socket
<1>2. sessionID % LastSession \in 0 .. LastSession - 1
  BY SocketAssumption, ModRange DEF CountersOK, Sessions
<1>3. sessionID' \in Sessions /\ sessionID' # 0
  BY <1>1, <1>2, SocketAssumption DEF Sessions
<1>4. entry \in [used : BOOLEAN, session : Sessions, pending : BOOLEAN]
      /\ entry.used /\ entry.session # 0
  BY <1>3
<1>5. open \in [session : Sessions, state : {"free", "connecting", "connected", "lost"}]
      /\ open.state # "free"
  BY <1>3
<1>6. number \in Numbers /\ Probe(n + 1) \in Numbers
  BY SocketAssumption, ModRange DEF Probe, Numbers, CountersOK
<1>7. sockets' = [sockets EXCEPT ![number] = entry] /\ UNCHANGED hif /\ hif = "idle"
  BY DEF CLOUD_connectSocket, socket, Idle
<1>8. mqttSocket' = number \/ mqttSocket' = NoSocket
  BY DEF CLOUD_connectSocket, socket
<1>9. conn' = [conn EXCEPT ![number] = open] \/ conn' = conn
  BY DEF CLOUD_connectSocket, chipVars
<1>10. JobsOK'
  BY <1>3 DEF CLOUD_connectSocket, Ask, Job, JobsOK, LeakInv, chipVars
<1> HIDE DEF number, entry, open
<1>11. sockets' \in Table /\ \A k \in Numbers : sockets'[k].used => sockets'[k].session # 0
  BY <1>4, <1>6, <1>7 DEF LeakInv, TableOK, Table
<1>12. conn' \in Connections
      /\ \A k \in Numbers : conn'[k].state = "free" => conn'[k].session = 0
  BY <1>5, <1>6, <1>9 DEF LeakInv, TableOK, Connections
<1>13. NoneLeaked'
  BY <1>4, <1>6, <1>7, <1>9 DEF LeakInv, TableOK, NoneLeaked, Table, Connections
<1>14. mqttSocket' \in Numbers \cup {NoSocket}
  BY <1>6, <1>8
<1> QED
  BY <1>1, <1>3, <1>6, <1>10, <1>11, <1>12, <1>13, <1>14
     DEF LeakInv, TableOK, CountersOK, Table, Connections, Numbers, Sessions


\* The answers: none but a failed one, which closes the socket, touches an entry in use.
LEMMA CallbackKeeps ==
    ASSUME LeakInv, NEW outcome \in Outcomes, Callback(outcome)
    PROVE  LeakInv'
<1>1. hif # "reset" /\ UNCHANGED mqttSocket
  BY DEF Callback, CallbackDone
<1>2. SameUse(sockets) /\ SameUse(NotPending)
  BY SameTable DEF SameUse, NotPending, LeakInv, TableOK, Table
<1>3. JobsOK
  BY DEF LeakInv
<1>4. CASE UNCHANGED <<conn, jobs>> /\ (sockets' = sockets \/ sockets' = NotPending)
  <2>1. SameUse(sockets')
    BY <1>2, <1>4
  <2>2. JobsOK'
    BY <1>3, <1>4 DEF JobsOK
  <2> QED
    BY <2>1, <2>2, <1>1, <1>4, UseKept
<1>5. CASE BSD_close(sockets, outcome) \/ BSD_close(NotPending, outcome)
  BY <1>1, <1>2, <1>5, CloseKeeps
<1> QED
  BY <1>4, <1>5 DEF Callback, ConnectReply, SendReply, RecvReply, Ignored

\* The firmware's answer to a connect opens a connection that it keeps already.
LEMMA CompleteKeeps ==
    ASSUME LeakInv, NEW job \in jobs, Complete(job)
    PROVE  LeakInv'
<1>1. UNCHANGED <<sockets, mqttSocket, hif>> /\ JobsOK'
  BY DEF Complete, hostVars, hifVars, JobsOK, LeakInv
<1>2. CASE conn' = conn
  BY <1>1, <1>2, SameTable, UseKept DEF SameUse, Table
<1>3. CASE IsOpen(job) /\ \E ok \in BOOLEAN :
              conn' = [conn EXCEPT ![job.sock].state = IF ok THEN "connected" ELSE "lost"]
  <2>1. PICK state \in {"connected", "lost"} : conn' = [conn EXCEPT ![job.sock].state = state]
    BY <1>3
  <2>2. job.sock \in Numbers => conn[job.sock].session # 0
    BY <1>3 DEF IsOpen, LeakInv, JobsOK
  <2>3. job.sock \in Numbers => conn[job.sock].state # "free"
    BY <2>2 DEF LeakInv, TableOK
  <2>4. \A n \in Numbers : conn'[n].session = conn[n].session
                           /\ (conn'[n].state = "free" <=> conn[n].state = "free")
    BY <2>1, <2>3 DEF LeakInv, TableOK, Connections
  <2>5. conn' \in Connections
    BY <2>1 DEF LeakInv, TableOK, Connections
  <2> QED
    BY <1>1, <2>4, <2>5 DEF LeakInv, TableOK, NoneLeaked, Table, Connections, Numbers, Sessions
<1> QED
  BY <1>2, <1>3 DEF Complete

\* The firmware keeps a connection that is lost.
LEMMA LostKeeps ==
    ASSUME LeakInv, NEW n \in Numbers, ConnectionLost(n)
    PROVE  LeakInv'
<1>1. UNCHANGED <<sockets, mqttSocket, jobs, hif>>
  BY DEF ConnectionLost, hostVars, hifVars
<1>2. conn' = [conn EXCEPT ![n].state = "lost"] /\ conn[n].state # "free"
  BY DEF ConnectionLost
<1>3. conn' \in Connections
  BY <1>2 DEF LeakInv, TableOK, Connections
<1>4. \A k \in Numbers : conn'[k].session = conn[k].session
                         /\ (conn'[k].state = "free" <=> conn[k].state = "free")
  BY <1>2 DEF LeakInv, TableOK, Connections
<1> QED
  BY <1>1, <1>3, <1>4
     DEF LeakInv, TableOK, JobsOK, NoneLeaked, Table, Connections, Numbers, Sessions

\* A restart gives up every entry before the chip gives up its connections.
LEMMA RestartKeeps == LeakInv /\ Restart => LeakInv'
<1> SUFFICES ASSUME LeakInv, Restart PROVE LeakInv'
  OBVIOUS
<1>1. hif' = "reset" /\ sockets' = ClearedTable /\ UNCHANGED <<mqttSocket, conn, jobs>>
  BY DEF Restart, AdapterInit, chipVars
<1>2. ClearedTable \in Table /\ \A n \in Numbers : ~ClearedTable[n].used
  BY SocketAssumption DEF ClearedTable, Cleared, Table, Sessions
<1> QED
  BY <1>1, <1>2 DEF LeakInv, TableOK, JobsOK, NoneLeaked, Table, Connections, Numbers, Sessions

\* After the reset of the chip there is no connection.
LEMMA FinishRestartKeeps == LeakInv /\ FinishRestart => LeakInv'
<1> SUFFICES ASSUME LeakInv, FinishRestart PROVE LeakInv'
  OBVIOUS
<1>1. /\ conn' = [n \in Numbers |-> NoConnection] /\ jobs' = {}
      /\ UNCHANGED <<sockets, mqttSocket>>
  BY DEF FinishRestart
<1>2. conn' \in Connections
      /\ \A n \in Numbers : conn'[n].state = "free" /\ conn'[n].session = 0
  BY <1>1, SocketAssumption DEF NoConnection, Connections, Sessions
<1> QED
  BY <1>1, <1>2 DEF LeakInv, TableOK, JobsOK, NoneLeaked, Table, Connections, Numbers, Sessions

\* A step that touches neither the table nor the connections, nor ends a restart.
LEMMA AsideKeeps ==
    ASSUME LeakInv, UNCHANGED <<sockets, mqttSocket, conn, jobs>>,
           hif = "reset" => hif' = "reset"
    PROVE  LeakInv'
<1>1. JobsOK'
  BY DEF LeakInv, JobsOK
<1> QED
  BY <1>1, SameTable, UseKept DEF SameUse, Table

\* Every step of the socket layer keeps the table right.
LEMMA LeakStep == LeakInv /\ CountersOK /\ [WincNext]_wincVars => LeakInv' /\ CountersOK'
<1> SUFFICES ASSUME LeakInv, CountersOK, [WincNext]_wincVars PROVE LeakInv' /\ CountersOK'
  OBVIOUS
<1>1. ASSUME NEW outcome \in Outcomes, NEW n \in Numbers, CLOUD_connectSocket(n, outcome)
      PROVE  LeakInv' /\ CountersOK'
  BY <1>1, ConnectKeeps
<1>2. ASSUME NEW outcome \in Outcomes, CloseFailed(outcome) PROVE LeakInv' /\ CountersOK'
  BY <1>2, CloseKeeps, SameTable DEF CloseFailed, CountersOK
<1>3. ASSUME NEW outcome \in Outcomes, BeginRound(outcome) PROVE LeakInv' /\ CountersOK'
  BY <1>3, CloseKeeps, SameTable, AsideKeeps DEF BeginRound, CountersOK
<1>4. ASSUME NEW outcome \in Outcomes, Transmit(outcome) PROVE LeakInv' /\ CountersOK'
  BY <1>4, SendKeeps, AsideKeeps DEF Transmit, CountersOK, chipVars
<1>5. ASSUME NEW outcome \in Outcomes, Receive(outcome) PROVE LeakInv' /\ CountersOK'
  BY <1>5, RecvKeeps DEF Receive, CountersOK
<1>6. ASSUME NEW outcome \in Outcomes, Command(outcome) PROVE LeakInv' /\ CountersOK'
  BY <1>6, SendKeeps, CloseKeeps, SameTable DEF Command, CountersOK
<1>7. ASSUME NEW outcome \in Outcomes, Callback(outcome) PROVE LeakInv' /\ CountersOK'
  BY <1>7, CallbackKeeps DEF Callback, CountersOK
<1>8. CASE (TakeMessage \/ TakeFails \/ Serviced) /\ UNCHANGED <<hostVars, chipVars>>
  BY <1>8, AsideKeeps
     DEF TakeMessage, TakeFails, Requested, Serviced, DisableInterrupt, CountServiced,
         EnableInterrupt, RxDone, hostVars, chipVars, CountersOK
<1>9. CASE Interrupt \/ AnnounceNext
  BY <1>9, AsideKeeps
     DEF Interrupt, AnnounceNext, winc_interrupt_handler, Announce, hostVars, chipVars,
         CountersOK
<1>10. CASE Restart
  BY <1>10, RestartKeeps DEF Restart, CountersOK
<1>11. CASE FinishRestart
  BY <1>11, FinishRestartKeeps, SocketAssumption DEF FinishRestart, CountersOK, Sessions
<1>12. ASSUME NEW job \in jobs, Complete(job) PROVE LeakInv' /\ CountersOK'
  BY <1>12, CompleteKeeps DEF Complete, hostVars, CountersOK
<1>13. ASSUME NEW n \in Numbers, ConnectionLost(n) PROVE LeakInv' /\ CountersOK'
  BY <1>13, LostKeeps DEF ConnectionLost, hostVars, CountersOK
<1>14. CASE UNCHANGED wincVars
  BY <1>14, AsideKeeps DEF wincVars, hifVars, hostVars, chipVars, CountersOK
<1>15. CASE ResponseOverdue
  BY <1>15, AsideKeeps DEF ResponseOverdue, hifVars, chipVars, CountersOK
<1> QED
  <2>1. CASE cloudTask
    BY <2>1, <1>1, <1>2, <1>3, <1>4, <1>5 DEF cloudTask
  <2>2. CASE wifiHandlerTask
    BY <2>2, <1>7, <1>8 DEF wifiHandlerTask
  <2>3. CASE \E op \in Operations : CompleteSome(op)
    BY <2>3, <1>12 DEF CompleteSome
  <2> QED
    BY <2>1, <2>2, <2>3, <1>6, <1>9, <1>10, <1>11, <1>13, <1>14, <1>15 DEF WincNext

\* The firmware keeps no connection that the table has given up, however requests to
\* close fail, answers come late and the WINC is restarted.
THEOREM NoConnectionLeaks == WincSpec => []NoneLeaked
<1>1. WincInit => LeakInv /\ CountersOK
  BY LeakInit, SocketAssumption DEF WincInit, CountersOK, Numbers, Sessions
<1>2. LeakInv => NoneLeaked
  BY DEF LeakInv
<1> QED
  BY <1>1, <1>2, LeakStep, PTL DEF WincSpec

-----------------------------------------------------------------------------
(***************************************************************************)
(* Types.  A reply is read only while there is one: a message is announced *)
(* for the first of the answers, and stays the first until its callback    *)
(* has taken it.                                                           *)
(***************************************************************************)

Requests == [op : Operations, sock : Numbers, session : Sessions \ {0}]
Answers  == [op : Operations, sock : Numbers, session : Sessions \ {0}, ok : BOOLEAN]

ScalarsOK ==
    /\ socketState \in {"NOT_A_SOCKET", "SOCKET_CLOSED", "SOCKET_IN_PROGRESS",
                        "SOCKET_CONNECTED"}
    /\ rxSession \in Sessions
    /\ deaf \in BOOLEAN
    /\ response \in {"none", "awaited", "overdue"}
    /\ started \in BOOLEAN
    /\ turn \in {"idle", "close", "transmit", "receive"}
    /\ faults \in 0 .. MaxFaults

QueuesOK ==
    /\ jobs \subseteq Requests
    /\ outbox \in Seq(Answers)
    /\ Len(outbox) <= MaxOutbox
    /\ message = "announced" \/ hif = "callback" => outbox # <<>>

\* A task that is half done finds the other one at rest, and the socket as it left it.
TurnsOK ==
    /\ turn # "idle" => hif = "idle"
    /\ turn \in {"transmit", "receive"} => started
    /\ socketState = "SOCKET_CLOSED" <=> turn = "close"
    /\ socketState \in {"SOCKET_IN_PROGRESS", "SOCKET_CLOSED"} => ~started
    /\ hif = "callback" => ~busError

\* An entry that is not in use has no session, and no answer is for it.
Blank == \A n \in Numbers : ~sockets[n].used => sockets[n].session = 0

TypingInv == ScalarsOK /\ QueuesOK /\ TurnsOK /\ Blank

\* What else is known of every state.
Known == HifInv /\ LeakInv /\ CountersOK

\* wifiHandlerTask outside its callback, and the interrupt.
HifAlone ==
    /\ \/ turn = "idle" /\ (TakeMessage \/ TakeFails)
       \/ Serviced
       \/ winc_interrupt_handler
    /\ UNCHANGED faults \/ \E happens \in BOOLEAN : Fault(happens)
    /\ UNCHANGED <<hostVars, chipVars>>

CloudStep(outcome) ==
    \/ \E n \in Numbers : CLOUD_connectSocket(n, outcome)
    \/ CloseFailed(outcome) \/ BeginRound(outcome)
    \/ Transmit(outcome) \/ Receive(outcome) \/ Command(outcome)

\* The kinds of steps.
LEMMA StepCases ==
    ASSUME [WincNext]_wincVars
    PROVE  \/ \E outcome \in Outcomes : CloudStep(outcome) \/ Callback(outcome)
           \/ HifAlone \/ Restart \/ FinishRestart \/ AnnounceNext
           \/ \E job \in jobs : Complete(job)
           \/ \E n \in Numbers : ConnectionLost(n)
           \/ ResponseOverdue \/ UNCHANGED wincVars
<1>1. CASE cloudTask
  BY <1>1 DEF cloudTask, CloudStep
<1>2. CASE \E outcome \in Outcomes : Command(outcome)
  BY <1>2 DEF CloudStep
<1>3. CASE wifiHandlerTask \/ Interrupt
  BY <1>3 DEF wifiHandlerTask, Interrupt, HifAlone
<1>4. CASE \E op \in Operations : CompleteSome(op)
  BY <1>4 DEF CompleteSome
<1> QED
  BY <1>1, <1>2, <1>3, <1>4 DEF WincNext

\* Numbers of faults stay in their bound.
LEMMA FaultBound ==
    ASSUME faults \in 0 .. MaxFaults, NEW happens, Fault(happens)
    PROVE  faults' \in 0 .. MaxFaults
  BY SocketAssumption DEF Fault

\* A session that is new is one of 16 bits, and not 0.
LEMMA NextSession ==
    ASSUME CountersOK, NEW n, socket(n)
    PROVE  sessionID' \in Sessions \ {0}
<1>1. sessionID % LastSession \in 0 .. LastSession - 1
  BY SocketAssumption, ModRange DEF CountersOK, Sessions
<1> QED
  BY <1>1, SocketAssumption DEF socket, Sessions

\* The first of the answers, when there is one.
LEMMA FirstAnswer ==
    ASSUME QueuesOK, outbox # <<>>
    PROVE  /\ reply \in Answers /\ reply = outbox[1] /\ 1 \in 1 .. Len(outbox)
           /\ Tail(outbox) \in Seq(Answers) /\ Len(Tail(outbox)) = Len(outbox) - 1
           /\ \A i \in 1 .. Len(Tail(outbox)) :
                 Tail(outbox)[i] = outbox[i + 1] /\ i + 1 \in 1 .. Len(outbox)
<1> HIDE DEF Answers
<1> QED
  BY DEF QueuesOK, reply

\* A callback has an answer to take.
LEMMA CallbackHasAnswer ==
    ASSUME QueuesOK, NEW outcome, Callback(outcome)
    PROVE  outbox # <<>> /\ reply \in Answers
<1>1. outbox # <<>>
  BY DEF Callback, CallbackDone, QueuesOK
<1> QED
  BY <1>1, FirstAnswer

\* The flags and counters.
LEMMA ScalarsStep ==
    ASSUME Known, TypingInv, [WincNext]_wincVars
    PROVE  ScalarsOK'
<1>0. 0 \in Sessions
  BY SocketAssumption DEF Sessions
<1> USE DEF TypingInv, ScalarsOK
<1>1. ASSUME NEW outcome \in Outcomes, CloudStep(outcome) PROVE ScalarsOK'
  <2>1. faults' \in 0 .. MaxFaults
    BY <1>1, FaultBound
       DEF CloudStep, CLOUD_connectSocket, CloseFailed, BeginRound, Transmit, Receive, Command
  <2>2. ASSUME NEW n \in Numbers, CLOUD_connectSocket(n, outcome) PROVE ScalarsOK'
    BY <1>0, <2>1, <2>2 DEF CLOUD_connectSocket, TurnAfterConnect
  <2>3. CASE CloseFailed(outcome) \/ BeginRound(outcome)
    BY <2>1, <2>3 DEF CloseFailed, BeginRound, BSD_close
  <2>4. CASE Transmit(outcome) \/ Receive(outcome)
    BY <2>1, <2>4 DEF Transmit, AwaitResponse, Receive, BSD_send, BSD_recv
  <2>5. CASE Command(outcome)
    BY <2>1, <2>5 DEF Command, BSD_send, BSD_close
  <2> QED
    BY <1>1, <2>2, <2>3, <2>4, <2>5 DEF CloudStep
<1>2. ASSUME NEW outcome \in Outcomes, Callback(outcome) PROVE ScalarsOK'
  <2>1. reply.session \in Sessions
    BY <1>2, CallbackHasAnswer DEF Answers
  <2>2. faults' \in 0 .. MaxFaults /\ UNCHANGED <<deaf, started, turn>>
    BY <1>2, FaultBound DEF Callback
  <2> QED
    BY <1>2, <2>1, <2>2
       DEF Callback, ConnectReply, SendReply, RecvReply, Ignored, BSD_close
<1>3. CASE HifAlone
  <2>1. faults' \in 0 .. MaxFaults
    BY <1>3, FaultBound DEF HifAlone
  <2> QED
    BY <1>3, <2>1 DEF HifAlone, hostVars
<1>4. CASE Restart \/ FinishRestart
  <2>1. faults' \in 0 .. MaxFaults
    BY <1>4, FaultBound DEF Restart, FinishRestart
  <2> QED
    BY <1>0, <1>4, <2>1 DEF Restart, FinishRestart
<1>5. CASE AnnounceNext
  BY <1>5 DEF AnnounceNext, hostVars
<1>6. ASSUME NEW job \in jobs, Complete(job) PROVE ScalarsOK'
  <2>1. faults' \in 0 .. MaxFaults
    BY <1>6, FaultBound DEF Complete
  <2> QED
    BY <1>6, <2>1 DEF Complete, hostVars
<1>7. ASSUME NEW n \in Numbers, ConnectionLost(n) PROVE ScalarsOK'
  <2>1. faults' \in 0 .. MaxFaults
    BY <1>7, FaultBound DEF ConnectionLost
  <2> QED
    BY <1>7, <2>1 DEF ConnectionLost, hostVars
<1>8. CASE ResponseOverdue \/ UNCHANGED wincVars
  BY <1>8 DEF ResponseOverdue, wincVars, hostVars
<1> QED
  BY <1>1, <1>2, <1>3, <1>4, <1>5, <1>6, <1>7, <1>8, StepCases

\* Where neither requests nor answers change.
LEMMA QueuesKept ==
    ASSUME QueuesOK, UNCHANGED <<jobs, outbox>>,
           message' = "announced" \/ hif' = "callback"
              => message = "announced" \/ hif = "callback"
    PROVE  QueuesOK'
  BY DEF QueuesOK, Requests, Answers, Operations, Numbers, Sessions

\* Where a request may be added.
LEMMA QueuesAsked ==
    ASSUME QueuesOK, NEW op \in Operations, NEW number \in Numbers,
           NEW session \in Sessions \ {0}, NEW outcome,
           Ask(Job(op, number, session), outcome), UNCHANGED hif
    PROVE  QueuesOK'
<1> DEFINE job == Job(op, number, session)
<1>1. job \in Requests
  BY DEF Job, Requests
<1>2. (jobs' = jobs \/ jobs' = jobs \cup {job}) /\ UNCHANGED <<outbox, message>>
  BY DEF Ask, winc_hif_send
<1> HIDE DEF job
<1> QED
  BY <1>1, <1>2 DEF QueuesOK, Requests, Answers, Operations, Numbers, Sessions

\* The number and the session of a socket in use.
LEMMA InUse ==
    ASSUME LeakInv, IsUsed
    PROVE  mqttSocket \in Numbers /\ mySession \in Sessions \ {0}
  BY DEF LeakInv, TableOK, IsUsed, mySession, Table

\* Requests and answers, and that there is an answer to take.
LEMMA QueuesStep ==
    ASSUME Known, TypingInv, [WincNext]_wincVars
    PROVE  QueuesOK'
<1> USE DEF TypingInv, Known
<1>1. ASSUME NEW outcome \in Outcomes, CloudStep(outcome) PROVE QueuesOK'
  <2>1. UNCHANGED hif
    BY <1>1
       DEF CloudStep, CLOUD_connectSocket, CloseFailed, BeginRound, Transmit, Receive, Command
  <2>2. ASSUME UNCHANGED <<message, jobs, outbox>> PROVE QueuesOK'
    BY <2>1, <2>2, QueuesKept
  <2>3. ASSUME NEW n \in Numbers, CLOUD_connectSocket(n, outcome) PROVE QueuesOK'
    <3>1. CASE IsFree(n)
      <4>1. Ask(Job("CONNECT", Probe(n), sessionID'), outcome) /\ socket(n)
        BY <2>3, <3>1 DEF CLOUD_connectSocket
      <4>2. Probe(n) \in Numbers /\ sessionID' \in Sessions \ {0}
        BY <4>1, NextSession, SocketAssumption, ModRange DEF Probe, Numbers, CountersOK
      <4> QED
        BY <2>1, <4>1, <4>2, QueuesAsked DEF Operations
    <3>2. CASE ~IsFree(n)
      BY <2>2, <2>3, <3>2 DEF CLOUD_connectSocket, chipVars
    <3> QED
      BY <3>1, <3>2
  <2>4. ASSUME NEW table, BSD_close(table, outcome), UNCHANGED outbox PROVE QueuesOK'
    BY <2>2, <2>4 DEF BSD_close, winc_hif_send
  <2>5. CASE CloseFailed(outcome) \/ BeginRound(outcome)
    BY <2>2, <2>4, <2>5 DEF CloseFailed, BeginRound
  <2>6. ASSUME BSD_send(outcome) PROVE QueuesOK'
    BY <2>1, <2>2, <2>6, InUse, QueuesAsked DEF BSD_send, Operations
  <2>7. CASE Transmit(outcome)
    BY <2>2, <2>6, <2>7 DEF Transmit, chipVars
  <2>8. CASE Receive(outcome)
    BY <2>1, <2>2, <2>8, InUse, QueuesAsked DEF Receive, BSD_recv, Operations
  <2>9. CASE Command(outcome)
    BY <2>4, <2>6, <2>9 DEF Command
  <2> QED
    BY <1>1, <2>3, <2>5, <2>7, <2>8, <2>9 DEF CloudStep
<1>2. ASSUME NEW outcome \in Outcomes, Callback(outcome) PROVE QueuesOK'
  <2>1. outbox # <<>> /\ outbox' = Tail(outbox)
    BY <1>2, CallbackHasAnswer DEF Callback
  <2>2. outbox' \in Seq(Answers) /\ Len(outbox') <= MaxOutbox
    BY <2>1, FirstAnswer, SocketAssumption DEF QueuesOK
  <2>3. message' # "announced" /\ hif' # "callback"
    BY <1>2 DEF Callback, CallbackDone, HifInv, Servicing
  <2>4. jobs' = jobs
    BY <1>2 DEF Callback, ConnectReply, SendReply, RecvReply, Ignored, BSD_close
  <2> QED
    BY <2>2, <2>3, <2>4 DEF QueuesOK, Requests, Answers, Operations, Numbers, Sessions
<1>3. CASE HifAlone
  BY <1>3, QueuesKept
     DEF HifAlone, TakeMessage, TakeFails, Requested, Serviced, DisableInterrupt,
         CountServiced, EnableInterrupt, RxDone, winc_interrupt_handler, chipVars
<1>4. CASE Restart
  BY <1>4, QueuesKept DEF Restart, AdapterInit, chipVars
<1>5. CASE FinishRestart
  <2>1. jobs' = {} /\ outbox' = <<>> /\ message' = "none" /\ hif' = "idle"
    BY <1>5 DEF FinishRestart, ChipReset
  <2> QED
    BY <2>1, SocketAssumption DEF QueuesOK, Requests, Answers, Operations, Numbers, Sessions
<1>6. CASE AnnounceNext
  <2>1. outbox # <<>> /\ UNCHANGED <<jobs, outbox>>
    BY <1>6 DEF AnnounceNext, chipVars
  <2> QED
    BY <2>1 DEF QueuesOK, Requests, Answers, Operations, Numbers, Sessions
<1>7. ASSUME NEW job \in jobs, Complete(job) PROVE QueuesOK'
  <2>1. jobs' \subseteq Requests /\ UNCHANGED <<message, hif>>
    BY <1>7 DEF Complete, QueuesOK, hifVars
  <2>2. CASE outbox' = outbox
    BY <2>1, <2>2 DEF QueuesOK, Requests, Answers, Operations, Numbers, Sessions
  <2>3. ASSUME NEW ok \in BOOLEAN, Answer(job, ok) PROVE QueuesOK'
    <3> DEFINE answer == [op |-> job.op, sock |-> job.sock, session |-> job.session,
                          ok |-> ok]
    <3>1. answer \in Answers
      BY DEF QueuesOK, Requests, Answers
    <3>2. outbox' = Append(outbox, answer) /\ Len(outbox) < MaxOutbox
      BY <2>3 DEF Answer
    <3> HIDE DEF answer, Answers
    <3>3. /\ outbox' \in Seq(Answers) /\ Len(outbox') = Len(outbox) + 1
          /\ outbox' # <<>>
      BY <3>1, <3>2 DEF QueuesOK
    <3>4. Len(outbox') <= MaxOutbox
      BY <3>2, <3>3, SocketAssumption DEF QueuesOK
    <3> QED
      BY <2>1, <3>3, <3>4 DEF QueuesOK, Requests, Answers, Operations, Numbers, Sessions
  <2>4. job.op # "CONNECT" /\ IsOpen(job) => (conn[job.sock].state = "connected") \in BOOLEAN
    OBVIOUS
  <2> QED
    BY <1>7, <2>2, <2>3, <2>4 DEF Complete
<1>8. ASSUME NEW n \in Numbers, ConnectionLost(n) PROVE QueuesOK'
  BY <1>8, QueuesKept DEF ConnectionLost, hifVars
<1>9. CASE ResponseOverdue \/ UNCHANGED wincVars
  BY <1>9, QueuesKept DEF ResponseOverdue, wincVars, hifVars, chipVars
<1> QED
  BY <1>1, <1>2, <1>3, <1>4, <1>5, <1>6, <1>7, <1>8, <1>9, StepCases

\* A table that has the same entries in use is as blank.
LEMMA BlankKept ==
    ASSUME LeakInv, Blank, NEW table, SameUse(table), sockets' = table
    PROVE  Blank'
  BY DEF Blank, SameUse, Numbers

\* So is a table from which an entry is given up.
LEMMA BlankClosed ==
    ASSUME LeakInv, Blank, NEW table, SameUse(table), NEW outcome, BSD_close(table, outcome)
    PROVE  Blank'
<1>1. CASE sockets' = table
  BY <1>1, BlankKept
<1>2. CASE sockets' = [table EXCEPT ![mqttSocket] = Cleared] /\ IsUsed
  BY <1>2, InUse DEF Blank, SameUse, Cleared, Table, Numbers
<1> QED
  BY <1>1, <1>2 DEF BSD_close

\* Marking an entry, or clearing its mark, leaves the entries in use.
LEMMA MarksKeepUse ==
    ASSUME LeakInv
    PROVE  /\ SameUse(sockets) /\ SameUse(NotPending)
           /\ SameUse([sockets EXCEPT ![mqttSocket].pending = TRUE])
  BY SameTable DEF SameUse, NotPending, LeakInv, TableOK, Table

\* No entry that is given up keeps its session.
LEMMA BlankStep ==
    ASSUME Known, TypingInv, [WincNext]_wincVars
    PROVE  Blank'
<1> USE DEF TypingInv, Known
<1>0. ASSUME UNCHANGED sockets PROVE Blank'
  BY <1>0, BlankKept, SameTable
<1>1. ASSUME NEW outcome \in Outcomes, CloudStep(outcome) PROVE Blank'
  <2>1. ASSUME NEW n \in Numbers, CLOUD_connectSocket(n, outcome) PROVE Blank'
    <3> DEFINE entry == [used |-> TRUE, session |-> sessionID', pending |-> FALSE]
    <3>1. sockets' = [sockets EXCEPT ![Probe(n)] = entry]
      BY <2>1 DEF CLOUD_connectSocket, socket
    <3>2. entry.used
      OBVIOUS
    <3> HIDE DEF entry
    <3> QED
      BY <3>1, <3>2 DEF Blank, LeakInv, TableOK, Table, Numbers
  <2>2. CASE CloseFailed(outcome) \/ BeginRound(outcome)
    BY <1>0, <2>2, BlankClosed, SameTable DEF CloseFailed, BeginRound
  <2>3. CASE Transmit(outcome) \/ Command(outcome)
    BY <1>0, <2>3, BlankClosed, SameTable DEF Transmit, Command, BSD_send
  <2>4. CASE Receive(outcome)
    BY <1>0, <2>4, BlankKept, MarksKeepUse DEF Receive, BSD_recv
  <2> QED
    BY <1>1, <2>1, <2>2, <2>3, <2>4 DEF CloudStep
<1>2. ASSUME NEW outcome \in Outcomes, Callback(outcome) PROVE Blank'
  <2>1. CASE sockets' = sockets \/ sockets' = NotPending
    BY <2>1, BlankKept, MarksKeepUse
  <2>2. CASE BSD_close(sockets, outcome) \/ BSD_close(NotPending, outcome)
    BY <2>2, BlankClosed, MarksKeepUse
  <2> QED
    BY <1>2, <2>1, <2>2 DEF Callback, ConnectReply, SendReply, RecvReply, Ignored
<1>3. CASE Restart
  BY <1>3 DEF Restart, ClearedTable, Cleared, Blank
<1>4. CASE HifAlone \/ FinishRestart \/ AnnounceNext \/ UNCHANGED wincVars
  BY <1>0, <1>4 DEF HifAlone, FinishRestart, AnnounceNext, wincVars, hostVars
<1>5. CASE ResponseOverdue \/ (\E job \in jobs : Complete(job))
              \/ \E n \in Numbers : ConnectionLost(n)
  BY <1>0, <1>5 DEF ResponseOverdue, Complete, ConnectionLost, hostVars
<1> QED
  BY <1>1, <1>2, <1>3, <1>4, <1>5, StepCases

\* What the socket is between the parts of a task.
LEMMA TurnsStep ==
    ASSUME Known, TypingInv, [WincNext]_wincVars
    PROVE  TurnsOK'
<1> USE DEF TypingInv, Known, ScalarsOK, TurnsOK
<1>1. ASSUME NEW outcome \in Outcomes, CloudStep(outcome) PROVE TurnsOK'
  <2>1. hif = "idle" /\ UNCHANGED hif
    BY <1>1
       DEF CloudStep, CLOUD_connectSocket, CloseFailed, BeginRound, Transmit, Receive,
           Command, Idle
  <2>2. ASSUME NEW n \in Numbers, CLOUD_connectSocket(n, outcome) PROVE TurnsOK'
    BY <2>1, <2>2 DEF CLOUD_connectSocket, Idle, TurnAfterConnect
  <2>3. CASE CloseFailed(outcome) \/ BeginRound(outcome)
    BY <2>1, <2>3 DEF CloseFailed, BeginRound, BSD_close, Idle
  <2>4. CASE Transmit(outcome) \/ Receive(outcome)
    BY <2>1, <2>4 DEF Transmit, Receive, BSD_send, BSD_recv
  <2>5. CASE Command(outcome)
    BY <2>1, <2>5 DEF Command, BSD_send, BSD_close, Idle
  <2> QED
    BY <1>1, <2>2, <2>3, <2>4, <2>5 DEF CloudStep
<1>2. ASSUME NEW outcome \in Outcomes, Callback(outcome) PROVE TurnsOK'
  <2>1. hif = "callback" /\ hif' = "disable" /\ turn = "idle" /\ UNCHANGED <<turn, started>>
    BY <1>2 DEF Callback, CallbackDone
  <2>2. socketState' \in {socketState, "SOCKET_CONNECTED", "NOT_A_SOCKET"}
    BY <1>2 DEF Callback, ConnectReply, SendReply, RecvReply, Ignored, BSD_close
  <2> QED
    BY <2>1, <2>2
<1>3. CASE HifAlone
  <2>1. UNCHANGED <<turn, started, socketState>>
    BY <1>3 DEF HifAlone, hostVars
  <2>2. CASE turn = "idle" /\ (TakeMessage \/ TakeFails)
    BY <2>1, <2>2 DEF TakeMessage, TakeFails, Requested, intVars
  <2>3. CASE Serviced
    BY <2>1, <2>3
       DEF Serviced, DisableInterrupt, CountServiced, EnableInterrupt, RxDone, intVars
  <2>4. CASE winc_interrupt_handler
    BY <2>1, <2>4 DEF winc_interrupt_handler
  <2> QED
    BY <1>3, <2>2, <2>3, <2>4 DEF HifAlone
<1>4. CASE Restart
  BY <1>4 DEF Restart, AdapterInit
<1>5. CASE FinishRestart
  BY <1>5 DEF FinishRestart, ChipReset
<1>6. CASE AnnounceNext
  BY <1>6 DEF AnnounceNext, Announce, hostVars
<1>7. CASE (\E job \in jobs : Complete(job)) \/ \E n \in Numbers : ConnectionLost(n)
  <2>1. UNCHANGED hifVars /\ UNCHANGED hostVars
    BY <1>7 DEF Complete, ConnectionLost
  <2> QED
    BY <2>1 DEF hostVars, hifVars
<1>8. CASE ResponseOverdue \/ UNCHANGED wincVars
  BY <1>8 DEF ResponseOverdue, wincVars, hostVars, hifVars
<1> QED
  BY <1>1, <1>2, <1>3, <1>4, <1>5, <1>6, <1>7, <1>8, StepCases

\* The start.
LEMMA TypingInit == WincInit => TypingInv
<1> SUFFICES ASSUME WincInit PROVE TypingInv
  OBVIOUS
<1>1. ScalarsOK /\ TurnsOK
  <2>1. 0 \in Sessions /\ 0 \in 0 .. MaxFaults
    BY SocketAssumption DEF Sessions
  <2>2. ScalarsOK
    BY <2>1, Zenon DEF WincInit, ScalarsOK
  <2>3. TurnsOK
    BY Zenon DEF WincInit, HifInit, TurnsOK
  <2> QED
    BY <2>2, <2>3
<1>2. QueuesOK
  BY SocketAssumption DEF WincInit, HifInit, QueuesOK
<1>3. Blank
  BY DEF WincInit, Blank, Cleared
<1> QED
  BY <1>1, <1>2, <1>3 DEF TypingInv

\* What is known of every state.
LEMMA KnownHolds == WincSpec => [](Known /\ TypingInv)
<1>1. WincInit => Known /\ TypingInv
  BY LeakInit, TypingInit, HifInitial, SocketAssumption
     DEF WincInit, Known, CountersOK, Numbers, Sessions
<1>2. HifInv => busError \in BOOLEAN
  BY Zenon DEF HifInv, HifTypeOK
<1>3. Known /\ TypingInv /\ [WincNext]_wincVars => (Known /\ TypingInv)'
  BY <1>2, SocketStepIsHif, HifStep, LeakStep, ScalarsStep, QueuesStep, TurnsStep, BlankStep
     DEF Known, TypingInv
<1> QED
  BY <1>1, <1>3, PTL DEF WincSpec

\* Type correctness of the socket layer. That an answer is only read while there is
\* one, and the answers stay within their queue, is part of it; so is that a
\* socket is left CLOSED only by a connect that failed, until it is closed.
THEOREM SocketTypesHold == WincSpec => []WincTypeOK
<1>1. ASSUME Known, TypingInv PROVE WincTypeOK
  <2> USE <1>1 DEF Known, TypingInv
  <2>1. HifTypeOK
    BY Zenon DEF HifInv
  <2>2. socketState = "SOCKET_CLOSED" => turn = "close"
    BY Zenon DEF TurnsOK
  <2>3. \A job \in jobs : /\ job.op \in Operations
                          /\ job.sock \in Numbers /\ job.session \in Sessions
    BY DEF QueuesOK, Requests
  <2>4. Len(outbox) <= MaxOutbox
    BY DEF QueuesOK
  <2>5. sockets \in Table /\ conn \in Connections /\ mqttSocket \in Numbers \cup {NoSocket}
    BY DEF LeakInv, TableOK
  <2> QED
    BY <2>1, <2>2, <2>3, <2>4, <2>5, Zenon
       DEF WincTypeOK, ScalarsOK, CountersOK, Table, Connections
<1> QED
  BY <1>1, KnownHolds, PTL

-----------------------------------------------------------------------------
(***************************************************************************)
(* Sessions.  The answer to a CONNECT names no session, and those to other *)
(* requests may come after their connection is closed.  What keeps them    *)
(* apart is that nothing closes a socket that is connecting, and that a    *)
(* request carries the session of its socket.                              *)
(***************************************************************************)

\* Requests, and answers that have not been read.
UnderWay == jobs \cup {outbox[i] : i \in 1 .. Len(outbox)}

\* For the client's socket as it is now.
Own(e) == e.sock = mqttSocket /\ e.session = mySession

\* No restart is under way, and none is needed to go on.
Live == hif # "reset" /\ ~busError

Answering == conn[mqttSocket].state \in {"connected", "lost"}

Matched == IsUsed /\ conn[mqttSocket].session = mySession

\* Only after MQTT has begun on a connection is anything sent or asked for on it.
OwnStarted == Live => \A e \in UnderWay : e.op # "CONNECT" /\ Own(e) => started

\* The answer to a CONNECT is for the socket that is connecting, and there is one.
ConnectOwn ==
    Live => \A e \in UnderWay :
                e.op = "CONNECT" => socketState = "SOCKET_IN_PROGRESS" /\ Own(e)

ConnectOnce ==
    Live => \A i \in 1 .. Len(outbox) :
                outbox[i].op = "CONNECT" =>
                    /\ Answering
                    /\ \A j \in 1 .. Len(outbox) : outbox[j].op = "CONNECT" => i = j
                    /\ \A e \in jobs : e.op # "CONNECT"

\* The firmware has the connection that the client believes in, also when a request to
\* close it has been refused and an answer may yet revive the socket.
Believed ==
    /\ socketState = "SOCKET_CONNECTED" /\ hif # "reset" => Matched /\ Answering
    /\ socketState = "SOCKET_IN_PROGRESS" /\ hif # "reset" => Matched
    /\ started /\ IsUsed /\ Live => Matched /\ Answering

DataOwn == IsUsed /\ rxSession # 0 /\ hif # "reset" => rxSession = mySession

Asked ==
    Live /\ IsUsed /\ sockets[mqttSocket].pending /\ ~deaf =>
        \E e \in UnderWay : e.op = "RECV" /\ Own(e)

ResetBlank == hif = "reset" => ~IsUsed

SessionInv ==
    OwnStarted /\ ConnectOwn /\ ConnectOnce /\ Believed /\ DataOwn /\ Asked /\ ResetBlank

\* The hypothesis: while the bus works, a socket is not opened with a number and a
\* session that a request or an answer still carries. The sessions have 16 bits, so
\* this says that they have not gone round before the firmware has answered.
FreshNumber ==
    \A n \in Numbers, outcome \in Outcomes :
        CLOUD_connectSocket(n, outcome) /\ ~busError =>
            \A e \in UnderWay : e.sock = mqttSocket' => e.session # sessionID'

Context == Known /\ TypingInv /\ SessionInv

\* What is under way has a number and a session.
LEMMA EntryFacts ==
    ASSUME QueuesOK, NEW e \in UnderWay
    PROVE  e.op \in Operations /\ e.sock \in Numbers /\ e.session \in Sessions
           /\ e.session # 0 /\ e.sock # NoSocket
<1>1. e \in Requests \/ e \in Answers
  <2> HIDE DEF Requests, Answers
  <2> QED
    BY DEF UnderWay, QueuesOK
<1>2. e.op \in Operations /\ e.sock \in Numbers /\ e.session \in Sessions \ {0}
  BY <1>1 DEF Requests, Answers
<1> QED
  BY <1>2, SocketAssumption DEF Numbers, NoSocket

\* Taking an answer.
LEMMA TakeAnswer ==
    ASSUME QueuesOK, outbox # <<>>, outbox' = Tail(outbox), jobs' = jobs
    PROVE  /\ UnderWay' \subseteq UnderWay
           /\ \A e \in UnderWay : e = reply \/ e \in UnderWay'
           /\ reply \in UnderWay
<1> USE FirstAnswer DEF UnderWay
<1>1. Len(outbox) \in Nat /\ Len(outbox') = Len(outbox) - 1
  BY DEF QueuesOK
<1>2. UnderWay' \subseteq UnderWay
  BY <1>1
<1>3. ASSUME NEW i \in 1 .. Len(outbox), i # 1 PROVE outbox[i] \in UnderWay'
  <2>1. i - 1 \in 1 .. Len(outbox')
    BY <1>1, <1>3
  <2>2. outbox[i] = outbox'[i - 1]
    BY <1>1, <1>3, <2>1
  <2> QED
    BY <2>1, <2>2
<1> QED
  BY <1>2, <1>3

\* What close() does to the client's entry: given up, or left as it was, and then the
\* firmware has not heard of it, or the bus is in error.
LEMMA CloseEffect ==
    ASSUME LeakInv, Blank, NEW table, SameUse(table), NEW outcome \in Outcomes,
           BSD_close(table, outcome), UNCHANGED mqttSocket
    PROVE  /\ socketState' = "NOT_A_SOCKET" /\ jobs' = jobs
           /\ busError => busError'
           /\ IsUsed' => /\ IsUsed /\ mySession' = mySession
                         /\ sockets'[mqttSocket] = table[mqttSocket]
                         /\ conn' = conn \/ busError'
           /\ mqttSocket \in Numbers => mySession' \in {mySession, 0}
<1>1. CASE ~IsUsed
  BY <1>1 DEF BSD_close, IsUsed, mySession, SameUse, LeakInv, TableOK
<1>2. CASE IsUsed
  <2>1. mqttSocket \in Numbers
    BY <1>2, InUse
  <2>2. \/ sockets' = table
        \/ sockets' = [table EXCEPT ![mqttSocket] = Cleared] /\ outcome = "sent"
    BY <1>2 DEF BSD_close
  <2>3. busError => busError'
    BY <1>2 DEF BSD_close, winc_hif_send
  <2>4. conn' = conn \/ outcome = "sent" \/ busError'
    BY <1>2 DEF BSD_close, winc_hif_send, Delivered
  <2>5. CASE sockets' = table
    <3>1. ASSUME outcome = "sent" PROVE ~table[mqttSocket].used
      <4>1. sockets' = [table EXCEPT ![mqttSocket] = Cleared]
        BY <1>2, <3>1 DEF BSD_close
      <4>2. table[mqttSocket] = Cleared
        BY <2>1, <2>5, <4>1 DEF SameUse, Table
      <4> QED
        BY <4>2 DEF Cleared
    <3> QED
      BY <1>2, <2>1, <2>3, <2>4, <2>5, <3>1 DEF BSD_close, IsUsed, mySession, SameUse
  <2>6. CASE sockets' = [table EXCEPT ![mqttSocket] = Cleared]
    <3>1. sockets'[mqttSocket] = Cleared
      BY <2>1, <2>6 DEF SameUse, Table
    <3>2. ~Cleared.used /\ Cleared.session = 0
      BY DEF Cleared
    <3>3. mySession' = 0 /\ ~IsUsed'
      BY <3>1, <3>2 DEF IsUsed, mySession
    <3>4. socketState' = "NOT_A_SOCKET" /\ jobs' = jobs
      BY DEF BSD_close
    <3> QED
      BY <1>2, <2>3, <3>3, <3>4
  <2> QED
    BY <2>2, <2>5, <2>6
<1> QED
  BY <1>1, <1>2

\* A close, also that of a callback: what is asked for is asked for still, or the mark
\* is cleared.
LEMMA CloseKeepsSessions ==
    ASSUME Context, NEW table, SameUse(table), NEW outcome \in Outcomes,
           BSD_close(table, outcome), UNCHANGED <<mqttSocket, rxSession, deaf>>,
           hif # "reset", hif' # "reset",
           UnderWay' \subseteq UnderWay,
           Len(outbox') \in Nat,
           Live' => \A e \in UnderWay' : e.op # "CONNECT",
           started => started', started' => started \/ (Matched /\ Answering),
           mqttSocket \in Numbers /\ table[mqttSocket].pending
              => sockets[mqttSocket].pending,
           \A e \in UnderWay : e.op = "RECV" /\ Own(e)
              => e \in UnderWay' \/ ~table[mqttSocket].pending
    PROVE  SessionInv'
<1> USE DEF Context, Known, TypingInv
<1>1. /\ socketState' = "NOT_A_SOCKET"
      /\ Live' => Live
      /\ IsUsed' => /\ IsUsed /\ mySession' = mySession
                    /\ sockets'[mqttSocket] = table[mqttSocket]
      /\ IsUsed' /\ Live' => conn' = conn
      /\ mqttSocket \in Numbers => mySession' \in {mySession, 0}
  BY CloseEffect DEF Live
<1> HIDE DEF Known
<1>2. ASSUME NEW e \in UnderWay', Own(e)' PROVE Own(e) /\ mySession' = mySession
  <2>1. e.sock \in Numbers /\ e.session # 0
    BY <1>2, EntryFacts
  <2> QED
    BY <1>1, <1>2, <2>1 DEF Own
<1>3. OwnStarted'
  BY <1>1, <1>2 DEF OwnStarted, SessionInv
<1>4. ConnectOwn'
  BY DEF ConnectOwn
<1>5. ConnectOnce'
  <2>1. \A i \in 1 .. Len(outbox') : outbox'[i] \in UnderWay'
    BY DEF UnderWay
  <2> QED
    BY <2>1 DEF ConnectOnce
<1>6. Believed'
  <2>1. ASSUME started', IsUsed', Live' PROVE (Matched /\ Answering)'
    <3>1. Matched /\ Answering
      BY <1>1, <2>1 DEF SessionInv, Believed
    <3> QED
      BY <1>1, <2>1, <3>1 DEF Matched, Answering
  <2> QED
    BY <1>1, <2>1 DEF Believed
<1>7. DataOwn'
  BY <1>1 DEF DataOwn, SessionInv
<1>8. Asked'
  <2>1. ASSUME Live', IsUsed', sockets'[mqttSocket].pending, ~deaf
        PROVE  \E e \in UnderWay' : e.op = "RECV" /\ Own(e)'
    <3>1. /\ Live /\ IsUsed /\ mySession' = mySession /\ table[mqttSocket].pending
          /\ mqttSocket \in Numbers
      BY <1>1, <2>1, InUse DEF Known
    <3>2. PICK e \in UnderWay : e.op = "RECV" /\ Own(e)
      BY <2>1, <3>1 DEF SessionInv, Asked
    <3>3. e \in UnderWay'
      BY <3>1, <3>2
    <3> QED
      BY <3>1, <3>2, <3>3 DEF Own
  <2> QED
    BY <2>1 DEF Asked
<1>9. ResetBlank'
  BY DEF ResetBlank
<1> QED
  BY <1>3, <1>4, <1>5, <1>6, <1>7, <1>8, <1>9 DEF SessionInv

\* A request to send or to receive is made on a connection that MQTT has begun on.
LEMMA AskKeepsSessions ==
    ASSUME Context, NEW op \in {"SEND", "RECV"}, NEW outcome \in Outcomes, started,
           IsUsed, Ask(Job(op, mqttSocket, mySession), outcome),
           UNCHANGED <<mqttSocket, socketState, rxSession, conn, started>>,
           hif = "idle", hif' = "idle", SameUse(sockets'),
           op = "SEND" => UNCHANGED <<sockets, deaf>>,
           op = "RECV" => deaf' = (deaf \/ ~Delivered(outcome))
    PROVE  SessionInv'
<1> DEFINE job == Job(op, mqttSocket, mySession)
<1>1. /\ jobs' = (IF Delivered(outcome) THEN jobs \cup {job} ELSE jobs) /\ outbox' = outbox
      /\ busError => busError'
  BY DEF Ask, winc_hif_send
<1>2. job.op = op /\ job.sock = mqttSocket /\ job.session = mySession
  BY DEF Job
<1> HIDE DEF job
<1>3. mqttSocket \in Numbers
  BY InUse DEF Context, Known
<1>4. mySession' = mySession /\ IsUsed'
  BY <1>3 DEF SameUse, mySession, IsUsed
<1>5. Live' => Live
  BY <1>1 DEF Live
<1>6. UnderWay \subseteq UnderWay' /\ UnderWay' \subseteq UnderWay \cup {job}
  BY <1>1 DEF UnderWay
<1>7. \A e : Own(e)' <=> Own(e)
  BY <1>4 DEF Own
<1> USE DEF Context, SessionInv
<1> HIDE DEF IsUsed, mySession
<1>8. OwnStarted'
  BY DEF OwnStarted
<1>9. ConnectOwn'
  BY <1>2, <1>5, <1>6, <1>7 DEF ConnectOwn
<1>10. ConnectOnce'
  BY <1>1, <1>2, <1>5 DEF ConnectOnce, Answering
<1>11. Believed'
  BY <1>4, <1>5 DEF Believed, Matched, Answering
<1>12. DataOwn'
  BY <1>4 DEF DataOwn
<1>13. Asked'
  <2>1. CASE op = "SEND"
    BY <1>4, <1>5, <1>6, <1>7, <2>1 DEF Asked
  <2>2. CASE op = "RECV"
    <3>1. ~deaf' => job \in UnderWay'
      BY <1>1, <2>2 DEF UnderWay
    <3>2. \A e : e = job => e.op = "RECV" /\ Own(e)'
      BY <1>2, <1>4, <2>2 DEF Own
    <3> QED
      BY <3>1, <3>2 DEF Asked
  <2> QED
    BY <2>1, <2>2
<1>14. ResetBlank'
  BY DEF ResetBlank
<1> QED
  BY <1>8, <1>9, <1>10, <1>11, <1>12, <1>13, <1>14

\* A step that leaves the client's socket and all that is under way alone; a round of
\* the client may begin on a connection.
LEMMA AsideKeepsSessions ==
    ASSUME SessionInv, UNCHANGED <<sockets, mqttSocket, socketState, rxSession, deaf>>,
           UNCHANGED <<conn, jobs, outbox>>, busError => busError',
           hif' = "reset" <=> hif = "reset",
           started => started', started' => started \/ (Matched /\ Answering)
    PROVE  SessionInv'
<1>1. /\ UNCHANGED <<UnderWay, IsUsed, mySession, Matched, Answering>>
      /\ \A e : Own(e)' <=> Own(e)
  BY DEF UnderWay, IsUsed, mySession, Matched, Answering, Own
<1>2. Live' => Live
  BY DEF Live
<1> USE <1>1, <1>2 DEF SessionInv
<1>3. OwnStarted' /\ ConnectOwn'
  BY DEF OwnStarted, ConnectOwn
<1>4. ConnectOnce'
  BY DEF ConnectOnce
<1>5. Believed' /\ DataOwn' /\ ResetBlank'
  BY DEF Believed, DataOwn, ResetBlank
<1>6. Asked'
  BY DEF Asked
<1> QED
  BY <1>3, <1>4, <1>5, <1>6

\* A callback that closes nothing: the answer is ignored, or is the client's own.
LEMMA CallbackKeepsSessions ==
    ASSUME Context, outbox # <<>>, outbox' = Tail(outbox),
           UNCHANGED <<jobs, conn, mqttSocket, started, deaf>>,
           hif # "reset", hif' # "reset", busError => busError',
           SameUse(sockets'),
           mqttSocket \in Numbers /\ sockets'[mqttSocket].pending
              => sockets[mqttSocket].pending,
           \/ UNCHANGED socketState
           \/ /\ socketState' = "SOCKET_CONNECTED" /\ Matched /\ Answering
              /\ Live' => \A e \in UnderWay' : e.op # "CONNECT",
           rxSession' \in {rxSession, mySession},
           Live' /\ reply.op = "RECV" /\ Own(reply) => ~sockets'[mqttSocket].pending
    PROVE  SessionInv'
<1> USE DEF Context, SessionInv
<1>1. /\ UnderWay' \subseteq UnderWay
      /\ \A e \in UnderWay : e = reply \/ e \in UnderWay'
  BY TakeAnswer DEF TypingInv
<1>2. mqttSocket \in Numbers => mySession' = mySession /\ IsUsed' = IsUsed
  BY DEF SameUse, mySession, IsUsed
<1>3. mqttSocket \in Numbers \cup {NoSocket}
  BY DEF Known, LeakInv, TableOK
<1>4. IsUsed' => IsUsed /\ mqttSocket \in Numbers /\ mySession' = mySession
  BY <1>2, <1>3 DEF IsUsed
<1>5. Live' => Live
  BY DEF Live
<1>6. ASSUME NEW e \in UnderWay PROVE Own(e)' <=> Own(e)
  <2>1. e.sock \in Numbers
    BY EntryFacts DEF TypingInv
  <2> QED
    BY <1>2, <2>1 DEF Own
<1>7. Matched => Matched'
  <2>1. IsUsed => mqttSocket \in Numbers
    BY InUse DEF Known
  <2> QED
    BY <1>2, <2>1 DEF Matched
<1>8. Answering' <=> Answering
  BY DEF Answering
<1>. SessionInv
  OBVIOUS
<1> HIDE DEF Context
<1>9. OwnStarted'
  BY <1>1, <1>5, <1>6 DEF OwnStarted
<1>10. ConnectOwn'
  BY <1>1, <1>5, <1>6 DEF ConnectOwn
<1>11. ConnectOnce'
  <2>1. \A i \in 1 .. Len(outbox') : outbox'[i] = outbox[i + 1] /\ i + 1 \in 1 .. Len(outbox)
    BY FirstAnswer DEF Context, TypingInv
  <2>2. \A i \in 1 .. Len(outbox') : \A j \in 1 .. Len(outbox') : i + 1 = j + 1 => i = j
    OBVIOUS
  <2> QED
    BY <1>5, <1>8, <2>1, <2>2 DEF ConnectOnce
<1>12. Believed'
  <2>1. started' /\ IsUsed' /\ Live' => (Matched /\ Answering)'
    BY <1>4, <1>5, <1>7, <1>8 DEF Believed
  <2>2. socketState' = "SOCKET_CONNECTED" => (Matched /\ Answering)'
    BY <1>7, <1>8 DEF Believed
  <2>3. socketState' = "SOCKET_IN_PROGRESS" => Matched'
    BY <1>7 DEF Believed
  <2> QED
    BY <2>1, <2>2, <2>3 DEF Believed
<1>13. DataOwn'
  BY <1>4 DEF DataOwn
<1>14. Asked'
  <2>1. ASSUME Live', IsUsed', sockets'[mqttSocket].pending, ~deaf
        PROVE  \E e \in UnderWay' : e.op = "RECV" /\ Own(e)'
    <3>1. PICK e \in UnderWay : e.op = "RECV" /\ Own(e)
      BY <1>4, <1>5, <2>1 DEF Asked
    <3>2. e \in UnderWay'
      BY <1>1, <2>1, <3>1
    <3> QED
      BY <1>6, <3>1, <3>2
  <2> QED
    BY <2>1 DEF Asked
<1>15. ResetBlank'
  BY DEF ResetBlank
<1> QED
  BY <1>9, <1>10, <1>11, <1>12, <1>13, <1>14, <1>15

\* The firmware answers a request, or gives up one of a connection that is closed.
LEMMA CompleteKeepsSessions ==
    ASSUME Context, NEW job \in jobs, Complete(job)
    PROVE  SessionInv'
<1> USE DEF Context, SessionInv
<1>1. UNCHANGED hifVars /\ UNCHANGED hostVars
  BY DEF Complete
<1>2. /\ UNCHANGED <<sockets, mqttSocket, socketState, rxSession, deaf, started>>
      /\ UNCHANGED <<hif, busError>>
  BY <1>1 DEF hostVars, hifVars
<1>3. /\ UNCHANGED <<IsUsed, mySession, Live>>
      /\ \A e : Own(e)' <=> Own(e)
  BY <1>2 DEF IsUsed, mySession, Own, Live
<1>4. job \in Requests /\ job \in UnderWay /\ jobs' = jobs \ {job}
  BY DEF TypingInv, QueuesOK, UnderWay, Complete
<1>5. /\ job.sock \in Numbers
      /\ conn \in Connections
  BY <1>4 DEF Requests, Known, LeakInv, TableOK
<1>6. \/ outbox' = outbox /\ conn' = conn /\ ~IsOpen(job)
      \/ \E ok \in BOOLEAN : /\ Answer(job, ok)
                             /\ conn' = conn
                             /\ job.op # "CONNECT"
      \/ \E ok \in BOOLEAN :
            /\ Answer(job, ok)
            /\ conn' = [conn EXCEPT ![job.sock].state = IF ok THEN "connected" ELSE "lost"]
            /\ job.op = "CONNECT" /\ IsOpen(job)
  BY DEF Complete
<1>7. /\ \A n \in Numbers : conn'[n].session = conn[n].session
      /\ \A n \in Numbers : conn[n].state \in {"connected", "lost"}
                               => conn'[n].state \in {"connected", "lost"}
      /\ job.op = "CONNECT" /\ outbox' # outbox
            => conn'[job.sock].state \in {"connected", "lost"}
  <2>1. CASE conn' = conn /\ (outbox' = outbox \/ job.op # "CONNECT")
    BY <2>1
  <2>2. ASSUME NEW ok \in BOOLEAN,
               conn' = [conn EXCEPT ![job.sock].state = IF ok THEN "connected" ELSE "lost"]
        PROVE  \A n \in Numbers :
                  /\ conn'[n].session = conn[n].session
                  /\ conn[n].state \in {"connected", "lost"} \/ n = job.sock
                        => conn'[n].state \in {"connected", "lost"}
    BY <1>5, <2>2 DEF Connections
  <2> QED
    BY <1>5, <1>6, <2>1, <2>2
<1>8. mqttSocket \in Numbers => (Matched => Matched') /\ (Answering => Answering')
  BY <1>2, <1>3, <1>7 DEF Matched, Answering
<1>9. IsUsed => mqttSocket \in Numbers
  BY InUse DEF Known
<1>10. \/ outbox' = outbox /\ ~IsOpen(job)
       \/ \E answer \in Answers : /\ outbox' = Append(outbox, answer)
                                  /\ answer.op = job.op
                                  /\ answer.sock = job.sock /\ answer.session = job.session
  <2>1. ASSUME NEW ok \in BOOLEAN, Answer(job, ok)
        PROVE  \E answer \in Answers :
                  /\ outbox' = Append(outbox, answer)
                  /\ answer.op = job.op
                  /\ answer.sock = job.sock /\ answer.session = job.session
    <3> DEFINE answer == [op |-> job.op, sock |-> job.sock, session |-> job.session,
                          ok |-> ok]
    <3>1. /\ answer.op = job.op
          /\ answer.sock = job.sock /\ answer.session = job.session
      OBVIOUS
    <3>2. answer \in Answers
      BY <1>4 DEF Requests, Answers
    <3>3. outbox' = Append(outbox, answer)
      BY <2>1 DEF Answer
    <3> HIDE DEF answer
    <3> QED
      BY <3>1, <3>2, <3>3
  <2> QED
    BY <1>6, <2>1
<1>11. outbox \in Seq(Answers) /\ Len(outbox) \in Nat
  BY DEF TypingInv, QueuesOK
<1>12. ASSUME NEW answer \in Answers, outbox' = Append(outbox, answer)
       PROVE  /\ Len(outbox') = Len(outbox) + 1 /\ outbox' # outbox
              /\ \A i \in 1 .. Len(outbox) : outbox'[i] = outbox[i]
              /\ outbox'[Len(outbox) + 1] = answer
  <2> HIDE DEF Answers, Context
  <2> QED
    BY <1>11, <1>12
<1>13. ASSUME NEW e \in UnderWay'
       PROVE  \/ e \in UnderWay
              \/ e.op = job.op /\ e.sock = job.sock /\ e.session = job.session
  <2> HIDE DEF Context
  <2>1. e \in jobs' \/ \E i \in 1 .. Len(outbox') : e = outbox'[i]
    BY DEF UnderWay
  <2>2. ASSUME e \in jobs' PROVE e \in UnderWay
    BY <1>4, <2>2 DEF UnderWay
  <2>3. ASSUME NEW i \in 1 .. Len(outbox), e = outbox[i] PROVE e \in UnderWay
    BY <2>3 DEF UnderWay
  <2>4. ASSUME NEW answer \in Answers, outbox' = Append(outbox, answer),
               answer.op = job.op, answer.sock = job.sock, answer.session = job.session,
               NEW i \in 1 .. Len(outbox'), e = outbox'[i]
        PROVE  \/ e \in UnderWay
               \/ e.op = job.op /\ e.sock = job.sock /\ e.session = job.session
    <3>1. i \in 1 .. Len(outbox) \/ i = Len(outbox) + 1
      BY <1>11, <1>12, <2>4
    <3>2. CASE i \in 1 .. Len(outbox)
      <4>1. e = outbox[i]
        BY <1>12, <2>4, <3>2
      <4> QED
        BY <2>3, <3>2, <4>1
    <3>3. CASE i = Len(outbox) + 1
      BY <1>12, <2>4, <3>3
    <3> QED
      BY <3>1, <3>2, <3>3
  <2>5. CASE outbox' = outbox
    BY <2>1, <2>2, <2>3, <2>5
  <2> QED
    BY <1>10, <2>1, <2>2, <2>4, <2>5
<1>14. ASSUME NEW e \in UnderWay, e # job PROVE e \in UnderWay'
  <2> HIDE DEF Context
  <2>1. CASE e \in jobs
    BY <1>4, <1>14, <2>1 DEF UnderWay
  <2>2. ASSUME NEW i \in 1 .. Len(outbox), e = outbox[i] PROVE e \in UnderWay'
    <3>1. i \in 1 .. Len(outbox') /\ outbox'[i] = outbox[i]
      BY <1>10, <1>11, <1>12
    <3> QED
      BY <2>2, <3>1 DEF UnderWay
  <2> QED
    BY <2>1, <2>2 DEF UnderWay
<1>. SessionInv
  OBVIOUS
<1>. QueuesOK
  BY DEF TypingInv
<1> HIDE DEF Context
<1>15. OwnStarted'
  BY <1>2, <1>3, <1>4, <1>13 DEF OwnStarted, Own
<1>16. ConnectOwn'
  BY <1>2, <1>3, <1>4, <1>13 DEF ConnectOwn, Own
<1>17. ConnectOnce'
  <2> SUFFICES ASSUME Live, NEW i \in 1 .. Len(outbox'), outbox'[i].op = "CONNECT"
               PROVE  /\ Answering'
                      /\ \A j \in 1 .. Len(outbox') : outbox'[j].op = "CONNECT" => i = j
                      /\ \A e \in jobs' : e.op # "CONNECT"
    BY <1>3 DEF ConnectOnce
  <2>1. CASE outbox' = outbox \/ (job.op # "CONNECT" /\ i \in 1 .. Len(outbox))
    <3>1. i \in 1 .. Len(outbox) /\ outbox[i].op = "CONNECT"
      BY <1>10, <1>12, <2>1
    <3>2. socketState = "SOCKET_IN_PROGRESS"
      BY <3>1 DEF ConnectOwn, UnderWay
    <3>3. mqttSocket \in Numbers
      BY <1>9, <3>2 DEF Live, Believed, Matched
    <3>4. Answering'
      BY <1>8, <3>1, <3>3 DEF ConnectOnce
    <3>5. ASSUME NEW j \in 1 .. Len(outbox'), outbox'[j].op = "CONNECT" PROVE i = j
      <4>1. j \in 1 .. Len(outbox) /\ outbox[j].op = "CONNECT"
        <5>1. CASE outbox' = outbox
          BY <3>5, <5>1
        <5>2. ASSUME NEW answer \in Answers, outbox' = Append(outbox, answer),
                     answer.op = job.op, job.op # "CONNECT"
              PROVE  j \in 1 .. Len(outbox) /\ outbox[j].op = "CONNECT"
          <6>1. j \in 1 .. Len(outbox) \/ j = Len(outbox) + 1
            BY <1>11, <1>12, <5>2
          <6> QED
            BY <1>12, <3>5, <5>2, <6>1
        <5> QED
          BY <1>10, <2>1, <5>1, <5>2
      <4> QED
        BY <3>1, <4>1 DEF ConnectOnce
    <3>6. \A e \in jobs' : e.op # "CONNECT"
      BY <1>4, <3>1 DEF ConnectOnce
    <3> QED
      BY <3>4, <3>5, <3>6
  <2>2. ASSUME NEW answer \in Answers, outbox' = Append(outbox, answer),
               answer.op = job.op,
               ~(job.op # "CONNECT" /\ i \in 1 .. Len(outbox))
        PROVE  /\ Answering'
               /\ \A j \in 1 .. Len(outbox') : outbox'[j].op = "CONNECT" => i = j
               /\ \A e \in jobs' : e.op # "CONNECT"
    <3>1. i \in 1 .. Len(outbox) \/ i = Len(outbox) + 1
      BY <1>11, <1>12, <2>2
    <3>2. job.op = "CONNECT"
      BY <1>12, <2>2, <3>1
    <3>3. Own(job) /\ socketState = "SOCKET_IN_PROGRESS"
      BY <1>4, <3>2 DEF ConnectOwn
    <3>4. \A j \in 1 .. Len(outbox) : outbox[j].op # "CONNECT"
      BY <3>2 DEF ConnectOnce
    <3>5. Answering'
      BY <1>2, <1>7, <1>12, <2>2, <3>2, <3>3 DEF Answering, Own
    <3>6. ASSUME NEW j \in 1 .. Len(outbox'), outbox'[j].op = "CONNECT"
          PROVE  j = Len(outbox) + 1
      <4>1. j \in 1 .. Len(outbox) \/ j = Len(outbox) + 1
        BY <1>11, <1>12, <2>2
      <4> QED
        BY <1>12, <2>2, <3>4, <3>6, <4>1
    <3>7. ASSUME NEW e \in jobs', e.op = "CONNECT" PROVE FALSE
      <4>1. e \in Requests /\ e # job /\ Own(e)
        BY <1>4, <3>7 DEF ConnectOwn, QueuesOK, UnderWay
      <4> QED
        BY <1>4, <3>2, <3>3, <3>7, <4>1 DEF Own, Requests
    <3> QED
      BY <3>5, <3>6, <3>7
  <2> QED
    BY <1>10, <2>1, <2>2
<1>18. Believed'
  BY <1>2, <1>3, <1>8, <1>9 DEF Believed, Matched
<1>19. DataOwn' /\ ResetBlank'
  BY <1>2, <1>3 DEF DataOwn, ResetBlank
<1>20. Asked'
  <2> SUFFICES ASSUME Live, IsUsed, sockets[mqttSocket].pending, ~deaf
               PROVE  \E e \in UnderWay' : e.op = "RECV" /\ Own(e)'
    BY <1>2, <1>3 DEF Asked
  <2>1. PICK e \in UnderWay : e.op = "RECV" /\ Own(e)
    BY DEF Asked
  <2>2. CASE e # job
    BY <1>3, <1>14, <2>1, <2>2
  <2>3. CASE e = job
    <3>1. started
      BY <2>1, <2>3 DEF OwnStarted
    <3>2. IsOpen(job)
      BY <2>1, <2>3, <3>1 DEF Believed, Matched, IsOpen, Own
    <3>3. PICK answer \in Answers :
             /\ outbox' = Append(outbox, answer)
             /\ answer.op = job.op
             /\ answer.sock = job.sock /\ answer.session = job.session
      BY <1>10, <3>2
    <3>4. answer \in UnderWay'
      <4>1. Len(outbox) + 1 \in 1 .. Len(outbox') /\ outbox'[Len(outbox) + 1] = answer
        BY <1>11, <1>12, <3>3
      <4> QED
        BY <4>1 DEF UnderWay
    <3>5. Own(answer)'
      BY <1>2, <1>3, <2>1, <2>3, <3>3 DEF Own
    <3> QED
      BY <2>1, <2>3, <3>3, <3>4, <3>5
  <2> QED
    BY <2>2, <2>3
<1> QED
  BY <1>15, <1>16, <1>17, <1>18, <1>19, <1>20

\* A connection that the firmware has lost is the client's still.
LEMMA LostKeepsSessions ==
    ASSUME Context, NEW n \in Numbers, ConnectionLost(n)
    PROVE  SessionInv'
<1>. SessionInv
  BY DEF Context
<1>1. UNCHANGED hifVars /\ UNCHANGED hostVars /\ UNCHANGED <<jobs, outbox>>
  BY DEF ConnectionLost
<1>2. /\ UNCHANGED <<sockets, mqttSocket, socketState, rxSession, deaf, started>>
      /\ UNCHANGED <<hif, busError>>
  BY <1>1 DEF hostVars, hifVars
<1>3. /\ UNCHANGED <<IsUsed, mySession, Live, UnderWay>>
      /\ \A e : Own(e)' <=> Own(e)
  BY <1>1, <1>2 DEF IsUsed, mySession, Own, Live, UnderWay
<1>4. \A k \in Numbers : /\ conn'[k].session = conn[k].session
                         /\ conn[k].state \in {"connected", "lost"}
                               => conn'[k].state \in {"connected", "lost"}
  BY DEF ConnectionLost, Context, Known, LeakInv, TableOK, Connections
<1>5. IsUsed => mqttSocket \in Numbers
  BY InUse DEF Context, Known
<1>6. mqttSocket \in Numbers => (Matched => Matched') /\ (Answering => Answering')
  BY <1>2, <1>3, <1>4 DEF Matched, Answering
<1> USE DEF SessionInv
<1>7. OwnStarted' /\ ConnectOwn'
  BY <1>2, <1>3 DEF OwnStarted, ConnectOwn
<1>8. ConnectOnce'
  <2>1. \A i \in 1 .. Len(outbox) : outbox[i] \in UnderWay
    BY DEF UnderWay
  <2>2. Live /\ socketState = "SOCKET_IN_PROGRESS" => mqttSocket \in Numbers
    BY <1>5 DEF Live, Believed, Matched
  <2> QED
    BY <1>1, <1>3, <1>6, <2>1, <2>2 DEF ConnectOnce, ConnectOwn
<1>9. Believed'
  BY <1>2, <1>3, <1>5, <1>6 DEF Believed, Matched
<1>10. DataOwn' /\ ResetBlank'
  BY <1>2, <1>3 DEF DataOwn, ResetBlank
<1>11. Asked'
  BY <1>2, <1>3 DEF Asked
<1> QED
  BY <1>7, <1>8, <1>9, <1>10, <1>11

\* A new socket: nothing that is under way is for it.
LEMMA ConnectKeepsSessions ==
    ASSUME Context, FreshNumber, NEW n \in Numbers, NEW outcome \in Outcomes,
           CLOUD_connectSocket(n, outcome)
    PROVE  SessionInv'
<1>1. socket(n) /\ hif = "idle" /\ hif' = "idle" /\ socketState = "NOT_A_SOCKET"
  BY DEF CLOUD_connectSocket, Idle
<1>2. /\ socketState' # "SOCKET_CONNECTED" /\ ~started' /\ rxSession' = 0
  BY <1>1 DEF CLOUD_connectSocket
<1>3. Probe(n) \in Numbers
  BY SocketAssumption, ModRange DEF Probe, Numbers, Context, Known, CountersOK
<1>4. /\ outbox' = outbox
      /\ busError => busError'
      /\ busError \/ jobs' \subseteq jobs
            \/ jobs' = jobs \cup {Job("CONNECT", Probe(n), sessionID')}
  BY DEF CLOUD_connectSocket, Ask, winc_hif_send, chipVars
<1>. SessionInv
  BY DEF Context
<1>. QueuesOK
  BY DEF Context, TypingInv
<1> USE DEF SessionInv
<1>5. Live' => Live
  BY <1>1, <1>4 DEF Live
<1>6. Live' => \A e \in UnderWay : e.op # "CONNECT"
  BY <1>1, <1>5 DEF ConnectOwn
<1>7. CASE ~IsFree(n)
  <2>1. /\ mqttSocket' = NoSocket /\ UNCHANGED <<socketState, jobs, outbox>>
    BY <1>7 DEF CLOUD_connectSocket, socket, chipVars
  <2>2. UnderWay' = UnderWay /\ ~IsUsed'
    BY <2>1 DEF UnderWay, IsUsed
  <2>3. \A e \in UnderWay : ~Own(e)'
    BY <2>1, EntryFacts DEF Own
  <2>4. \A i \in 1 .. Len(outbox) : outbox[i] \in UnderWay
    BY DEF UnderWay
  <2>5. OwnStarted' /\ ConnectOwn' /\ ConnectOnce'
    BY <1>6, <2>1, <2>2, <2>3, <2>4 DEF OwnStarted, ConnectOwn, ConnectOnce
  <2>6. Believed' /\ DataOwn' /\ Asked' /\ ResetBlank'
    BY <1>1, <2>1, <2>2 DEF Believed, DataOwn, Asked, ResetBlank
  <2> QED
    BY <2>5, <2>6
<1>8. CASE IsFree(n)
  <2> DEFINE job == Job("CONNECT", Probe(n), sessionID')
             entry == [used |-> TRUE, session |-> sessionID', pending |-> FALSE]
             open == [session |-> sessionID', state |-> "connecting"]
  <2>1. /\ mqttSocket' = Probe(n) /\ sockets' = [sockets EXCEPT ![Probe(n)] = entry]
    BY <1>1, <1>8 DEF socket
  <2>2. /\ jobs' = (IF Delivered(outcome) THEN jobs \cup {job} ELSE jobs)
        /\ conn' = (IF Delivered(outcome) THEN [conn EXCEPT ![Probe(n)] = open] ELSE conn)
        /\ socketState' = "SOCKET_IN_PROGRESS" <=> outcome = "sent"
        /\ ~busError' <=> outcome \notin {"lost", "unsure"}
    BY <1>8 DEF CLOUD_connectSocket, Ask, winc_hif_send
  <2>3. job.op = "CONNECT" /\ job.sock = Probe(n) /\ job.session = sessionID'
    BY DEF Job
  <2>4. entry.used /\ entry.session = sessionID' /\ ~entry.pending
        /\ open.session = sessionID'
    OBVIOUS
  <2> HIDE DEF job, entry, open
  <2>5. sockets'[mqttSocket'] = entry
    BY <1>3, <2>1 DEF Context, Known, LeakInv, TableOK, Table
  <2>6. mySession' = sessionID' /\ IsUsed' /\ ~sockets'[mqttSocket'].pending
    BY <1>3, <2>1, <2>4, <2>5, SocketAssumption DEF mySession, IsUsed, Numbers, NoSocket
  <2>7. outcome = "sent" => Matched'
    <3>1. outcome = "sent" => conn'[mqttSocket'] = open
      BY <1>3, <2>1, <2>2 DEF Delivered, Context, Known, LeakInv, TableOK, Connections
    <3> QED
      BY <2>4, <2>6, <3>1 DEF Matched
  <2>8. Live' => \A e \in UnderWay : ~Own(e)'
    BY <1>5, <2>1, <2>6 DEF FreshNumber, Own, Live
  <2>9. \A e \in UnderWay' : e \in UnderWay \/ (e = job /\ Delivered(outcome))
    BY <1>4, <2>2 DEF UnderWay
  <2>10. \A e : e = job => Own(e)' /\ e.op = "CONNECT"
    BY <2>1, <2>3, <2>6 DEF Own
  <2>11. Live' /\ Delivered(outcome) => outcome = "sent"
    BY <2>2 DEF Live, Delivered
  <2>12. OwnStarted'
    BY <2>8, <2>9, <2>10 DEF OwnStarted
  <2>13. ConnectOwn'
    BY <1>6, <2>2, <2>9, <2>10, <2>11 DEF ConnectOwn
  <2>14. ConnectOnce'
    BY <1>4, <1>6 DEF ConnectOnce, UnderWay
  <2>15. Believed'
    BY <1>2, <2>2, <2>7 DEF Believed
  <2>16. DataOwn' /\ ResetBlank'
    BY <1>1, <1>2 DEF DataOwn, ResetBlank
  <2>17. Asked'
    BY <2>6 DEF Asked
  <2> QED
    BY <2>12, <2>13, <2>14, <2>15, <2>16, <2>17
<1> QED
  BY <1>7, <1>8

\* Nothing that is under way is a CONNECT unless the socket is connecting.
LEMMA NoConnectUnderWay ==
    ASSUME SessionInv, Live, socketState # "SOCKET_IN_PROGRESS"
    PROVE  \A e \in UnderWay : e.op # "CONNECT"
  BY DEF SessionInv, ConnectOwn

\* A close by cloudTask or by a command.
LEMMA TaskCloses ==
    ASSUME Context, NEW outcome \in Outcomes, BSD_close(sockets, outcome),
           hif = "idle", hif' = "idle", socketState # "SOCKET_IN_PROGRESS",
           UNCHANGED <<mqttSocket, rxSession, deaf, outbox>>,
           started => started', started' => started \/ (Matched /\ Answering)
    PROVE  SessionInv'
<1>. SessionInv /\ LeakInv /\ Blank /\ QueuesOK
  BY DEF Context, Known, TypingInv
<1>1. jobs' = jobs /\ (busError => busError')
  BY SameTable, CloseEffect
<1>2. UnderWay' = UnderWay
  BY <1>1 DEF UnderWay
<1>3. Live' => \A e \in UnderWay' : e.op # "CONNECT"
  BY <1>1, <1>2, NoConnectUnderWay DEF Live
<1>4. Len(outbox') \in Nat
  BY DEF QueuesOK
<1> QED
  BY <1>2, <1>3, <1>4, SameTable, CloseKeepsSessions

\* The parts of cloudTask, and commands.
LEMMA CloudKeepsSessions ==
    ASSUME Context, FreshNumber, NEW outcome \in Outcomes, CloudStep(outcome)
    PROVE  SessionInv'
<1>. SessionInv /\ TurnsOK /\ LeakInv
  BY DEF Context, Known, TypingInv
<1>1. ASSUME NEW n \in Numbers, CLOUD_connectSocket(n, outcome) PROVE SessionInv'
  BY <1>1, ConnectKeepsSessions
<1>2. CASE CloseFailed(outcome)
  <2>1. hif = "idle" /\ hif' = "idle" /\ socketState # "SOCKET_IN_PROGRESS"
    BY <1>2 DEF CloseFailed, TurnsOK
  <2> QED
    BY <1>2, <2>1, TaskCloses DEF CloseFailed
<1>3. CASE BeginRound(outcome)
  <2>1. hif = "idle" /\ hif' = "idle" /\ socketState = "SOCKET_CONNECTED"
    BY <1>3 DEF BeginRound, Idle
  <2>2. Matched /\ Answering
    BY <2>1 DEF SessionInv, Believed
  <2>3. started' /\ UNCHANGED <<mqttSocket, rxSession, deaf, outbox>>
    BY <1>3 DEF BeginRound
  <2>4. CASE BSD_close(sockets, outcome)
    BY <2>1, <2>2, <2>3, <2>4, TaskCloses
  <2>5. CASE UNCHANGED <<busError, sockets, socketState, conn, jobs>>
    BY <2>1, <2>2, <2>3, <2>5, AsideKeepsSessions
  <2> QED
    BY <1>3, <2>4, <2>5 DEF BeginRound
<1>4. ASSUME BSD_send(outcome), UNCHANGED <<mqttSocket, rxSession, started>>,
             started, hif = "idle", hif' = "idle"
      PROVE  SessionInv'
  <2>1. CASE IsUsed
    <3>1. Ask(Job("SEND", mqttSocket, mySession), outcome)
      BY <1>4, <2>1 DEF BSD_send
    <3>2. UNCHANGED <<sockets, socketState, deaf, conn>>
      BY <1>4 DEF BSD_send
    <3>3. SameUse(sockets')
      BY <3>2, SameTable DEF SameUse, Table
    <3> QED
      BY <1>4, <2>1, <3>1, <3>2, <3>3, AskKeepsSessions
  <2>2. CASE ~IsUsed
    BY <1>4, <2>2, AsideKeepsSessions DEF BSD_send
  <2> QED
    BY <2>1, <2>2
<1>5. CASE Transmit(outcome)
  <2>1. started /\ hif = "idle" /\ hif' = "idle" /\ UNCHANGED <<mqttSocket, rxSession, started>>
    BY <1>5 DEF Transmit, TurnsOK
  <2>2. CASE BSD_send(outcome)
    BY <1>4, <2>1, <2>2
  <2>3. CASE UNCHANGED <<busError, sockets, socketState, deaf>> /\ UNCHANGED chipVars
    BY <2>1, <2>3, AsideKeepsSessions DEF chipVars
  <2> QED
    BY <1>5, <2>2, <2>3 DEF Transmit
<1>6. CASE Receive(outcome)
  <2>1. started /\ hif = "idle" /\ hif' = "idle" /\ UNCHANGED <<mqttSocket, rxSession, started>>
    BY <1>6 DEF Receive, TurnsOK
  <2>2. UNCHANGED <<socketState, conn>>
    BY <1>6 DEF Receive, BSD_recv
  <2>3. CASE IsUsed /\ ~sockets[mqttSocket].pending
    <3>1. /\ Ask(Job("RECV", mqttSocket, mySession), outcome)
          /\ sockets' = [sockets EXCEPT ![mqttSocket].pending = TRUE]
          /\ deaf' = (deaf \/ ~Delivered(outcome))
      BY <1>6, <2>3 DEF Receive, BSD_recv
    <3>2. SameUse(sockets')
      BY <3>1, MarksKeepUse
    <3> QED
      BY <2>1, <2>2, <2>3, <3>1, <3>2, AskKeepsSessions
  <2>4. CASE ~(IsUsed /\ ~sockets[mqttSocket].pending)
    BY <1>6, <2>1, <2>2, <2>4, AsideKeepsSessions DEF Receive, BSD_recv
  <2> QED
    BY <2>3, <2>4
<1>7. CASE Command(outcome)
  <2>1. /\ started /\ hif = "idle" /\ hif' = "idle"
        /\ UNCHANGED <<mqttSocket, rxSession, started>>
        /\ socketState # "SOCKET_IN_PROGRESS"
    BY <1>7 DEF Command, Idle, TurnsOK
  <2>2. CASE BSD_send(outcome)
    BY <1>4, <2>1, <2>2
  <2>3. CASE BSD_close(sockets, outcome) /\ UNCHANGED <<deaf, outbox>>
    BY <2>1, <2>3, TaskCloses
  <2> QED
    BY <1>7, <2>2, <2>3 DEF Command
<1> QED
  BY <1>1, <1>2, <1>3, <1>5, <1>6, <1>7 DEF CloudStep

\* An answer for the client's socket, but of a CONNECT: MQTT has begun on the connection.
LEMMA OwnAnswer ==
    ASSUME Context, hif = "callback", NEW e \in UnderWay, e.op # "CONNECT", Own(e)
    PROVE  /\ Matched /\ Answering
           /\ \A other \in UnderWay : other.op # "CONNECT"
<1>. SessionInv /\ TurnsOK /\ LeakInv /\ Blank /\ QueuesOK
  BY DEF Context, Known, TypingInv
<1>1. Live
  BY DEF Live, TurnsOK
<1>2. started
  BY <1>1 DEF SessionInv, OwnStarted
<1>3. mqttSocket \in Numbers /\ mySession # 0 /\ mqttSocket # NoSocket
  BY EntryFacts DEF Own
<1>4. IsUsed
  <2>1. ~sockets[mqttSocket].used => sockets[mqttSocket].session = 0
    BY <1>3 DEF Blank
  <2> QED
    BY <1>3, <2>1 DEF IsUsed, mySession
<1>5. socketState # "SOCKET_IN_PROGRESS"
  BY <1>2 DEF TurnsOK
<1> QED
  BY <1>1, <1>2, <1>4, <1>5, NoConnectUnderWay DEF SessionInv, Believed

\* The answer to a CONNECT is the only one, and the firmware has the connection.
LEMMA OwnConnectAnswer ==
    ASSUME Context, hif = "callback", outbox # <<>>, reply.op = "CONNECT",
           outbox' = Tail(outbox), jobs' = jobs
    PROVE  /\ Matched /\ Answering /\ ~started
           /\ \A e \in UnderWay' : e.op # "CONNECT"
<1>. SessionInv /\ TurnsOK /\ QueuesOK
  BY DEF Context, Known, TypingInv
<1>1. Live
  BY DEF Live, TurnsOK
<1>2. reply \in UnderWay /\ reply = outbox[1] /\ 1 \in 1 .. Len(outbox)
  BY FirstAnswer, TakeAnswer
<1>3. socketState = "SOCKET_IN_PROGRESS"
  BY <1>1, <1>2 DEF SessionInv, ConnectOwn
<1>4. Matched /\ ~started
  BY <1>1, <1>3 DEF SessionInv, Believed, TurnsOK, Live
<1>5. /\ Answering
      /\ \A j \in 1 .. Len(outbox) : outbox[j].op = "CONNECT" => 1 = j
      /\ \A e \in jobs : e.op # "CONNECT"
  BY <1>1, <1>2 DEF SessionInv, ConnectOnce
<1>6. \A i \in 1 .. Len(outbox') : outbox'[i].op # "CONNECT"
  <2>1. \A i \in 1 .. Len(outbox') : outbox'[i] = outbox[i + 1] /\ i + 1 \in 1 .. Len(outbox)
    BY FirstAnswer
  <2>2. \A i \in 1 .. Len(outbox') : i + 1 # 1
    OBVIOUS
  <2> QED
    BY <1>5, <2>1, <2>2
<1> QED
  BY <1>4, <1>5, <1>6 DEF UnderWay

\* A callback: an answer of an earlier session is not taken for the socket's own.
LEMMA AnswerKeepsSessions ==
    ASSUME Context, NEW outcome \in Outcomes, Callback(outcome)
    PROVE  SessionInv'
<1>. SessionInv /\ TurnsOK /\ LeakInv /\ Blank /\ QueuesOK
  BY DEF Context, Known, TypingInv
<1>1. /\ hif = "callback" /\ hif' = "disable" /\ ~busError
      /\ outbox' = Tail(outbox) /\ UNCHANGED <<mqttSocket, started, deaf>>
  BY DEF Callback, CallbackDone, TurnsOK
<1>2. outbox # <<>> /\ reply \in Answers
  BY CallbackHasAnswer
<1>3. jobs' = jobs
  BY DEF Callback, ConnectReply, SendReply, RecvReply, Ignored, BSD_close
<1>4. /\ UnderWay' \subseteq UnderWay
      /\ \A e \in UnderWay : e = reply \/ e \in UnderWay'
      /\ reply \in UnderWay
  BY <1>1, <1>2, <1>3, TakeAnswer
<1>5. reply.sock \in Numbers
  BY <1>2 DEF Answers
<1>6. /\ SameUse(sockets) /\ SameUse(NotPending)
      /\ \A n \in Numbers : NotPending[n].pending => sockets[n].pending
      /\ ~NotPending[reply.sock].pending
  BY <1>5, MarksKeepUse DEF NotPending, LeakInv, TableOK, Table
<1>7. Len(outbox') \in Nat
  BY <1>1, <1>2, FirstAnswer DEF QueuesOK
<1>8. ASSUME sockets' = sockets \/ sockets' = NotPending,
             UNCHANGED <<conn, socketState, rxSession>>,
             Live' /\ reply.op = "RECV" /\ Own(reply) => sockets' = NotPending
      PROVE  SessionInv'
  <2>1. /\ SameUse(sockets')
        /\ mqttSocket \in Numbers /\ sockets'[mqttSocket].pending
              => sockets[mqttSocket].pending
    BY <1>6, <1>8
  <2>2. Live' /\ reply.op = "RECV" /\ Own(reply) => ~sockets'[mqttSocket].pending
    BY <1>6, <1>8 DEF Own
  <2> QED
    BY <1>1, <1>2, <1>3, <1>8, <2>1, <2>2, CallbackKeepsSessions
<1>9. ASSUME sockets' = sockets \/ sockets' = NotPending, UNCHANGED conn,
             socketState' = "SOCKET_CONNECTED", rxSession' \in {rxSession, mySession},
             Matched, Answering, \A e \in UnderWay' : e.op # "CONNECT",
             reply.op = "RECV" /\ Own(reply) => sockets' = NotPending
      PROVE  SessionInv'
  <2>1. /\ SameUse(sockets')
        /\ mqttSocket \in Numbers /\ sockets'[mqttSocket].pending
              => sockets[mqttSocket].pending
    BY <1>6, <1>9
  <2>2. Live' /\ reply.op = "RECV" /\ Own(reply) => ~sockets'[mqttSocket].pending
    BY <1>6, <1>9 DEF Own
  <2> QED
    BY <1>1, <1>2, <1>3, <1>9, <2>1, <2>2, CallbackKeepsSessions
<1>10. ASSUME NEW table \in {sockets, NotPending}, BSD_close(table, outcome),
              UNCHANGED rxSession,
              \A e \in UnderWay' : e.op # "CONNECT",
              reply.op = "RECV" /\ Own(reply) => table = NotPending
       PROVE  SessionInv'
  <2>1. /\ SameUse(table)
        /\ mqttSocket \in Numbers /\ table[mqttSocket].pending
              => sockets[mqttSocket].pending
    BY <1>6
  <2>2. \A e \in UnderWay : e.op = "RECV" /\ Own(e)
           => e \in UnderWay' \/ ~table[mqttSocket].pending
    BY <1>4, <1>6, <1>10 DEF Own
  <2> QED
    BY <1>1, <1>4, <1>7, <1>10, <2>1, <2>2, CloseKeepsSessions
<1>11. ASSUME reply.op # "CONNECT", Own(reply)
       PROVE  Matched /\ Answering /\ \A e \in UnderWay' : e.op # "CONNECT"
  BY <1>1, <1>4, <1>11, OwnAnswer
<1>12. Own(reply) <=> IsClientSocket /\ OwnSession
  BY DEF Own, IsClientSocket, OwnSession, mySession
<1>13. CASE ConnectReply(outcome)
  <2>1. reply.op = "CONNECT"
    BY <1>13 DEF ConnectReply
  <2>2. Matched /\ Answering /\ \A e \in UnderWay' : e.op # "CONNECT"
    BY <1>1, <1>2, <1>3, <2>1, OwnConnectAnswer
  <2>3. CASE ~IsClientSocket
    BY <1>8, <1>13, <2>1, <2>3 DEF ConnectReply, Ignored
  <2>4. CASE IsClientSocket /\ reply.ok
    BY <1>9, <1>13, <2>1, <2>2, <2>4 DEF ConnectReply
  <2>5. CASE IsClientSocket /\ ~reply.ok
    BY <1>10, <1>13, <2>1, <2>2, <2>5 DEF ConnectReply
  <2> QED
    BY <2>3, <2>4, <2>5
<1>14. CASE SendReply
  <2>1. reply.op = "SEND"
    BY <1>14 DEF SendReply
  <2>2. CASE Own(reply)
    BY <1>9, <1>11, <1>12, <1>14, <2>1, <2>2 DEF SendReply
  <2>3. CASE ~Own(reply)
    BY <1>8, <1>12, <1>14, <2>1, <2>3 DEF SendReply, Ignored
  <2> QED
    BY <2>2, <2>3
<1>15. CASE RecvReply(outcome)
  <2>1. reply.op = "RECV"
    BY <1>15 DEF RecvReply
  <2>2. CASE ~Own(reply)
    BY <1>8, <1>12, <1>15, <2>2 DEF RecvReply
  <2>3. CASE Own(reply) /\ reply.ok
    <3>1. CASE socketState' = "SOCKET_CONNECTED" /\ rxSession' = reply.session
               /\ sockets' = NotPending /\ UNCHANGED conn
      <4>1. reply.session = mySession
        BY <2>3 DEF Own
      <4> QED
        BY <1>9, <1>11, <2>1, <2>3, <3>1, <4>1
    <3>2. CASE sockets' = NotPending /\ UNCHANGED <<conn, socketState, rxSession>>
      BY <1>8, <3>2
    <3> QED
      BY <1>12, <1>15, <2>3, <3>1, <3>2 DEF RecvReply
  <2>4. CASE Own(reply) /\ ~reply.ok
    <3>1. BSD_close(NotPending, outcome) /\ UNCHANGED rxSession
      BY <1>12, <1>15, <2>4 DEF RecvReply
    <3> QED
      BY <1>10, <1>11, <2>1, <2>4, <3>1
  <2> QED
    BY <2>2, <2>3, <2>4
<1>16. CASE busError' = TRUE /\ UNCHANGED <<sockets, socketState, rxSession, conn, jobs>>
  BY <1>8, <1>16 DEF Live
<1> QED
  BY <1>13, <1>14, <1>15, <1>16 DEF Callback

\* The steps of the host interface alone, and a timer that expires.
LEMMA HifKeepsSessions ==
    ASSUME Context, HifAlone \/ AnnounceNext \/ ResponseOverdue \/ UNCHANGED wincVars
    PROVE  SessionInv'
<1>. SessionInv
  BY DEF Context
<1>1. UNCHANGED <<hostVars, chipVars>> \/ ResponseOverdue
  BY DEF HifAlone, AnnounceNext, wincVars
<1>2. /\ UNCHANGED <<sockets, mqttSocket, socketState, rxSession, deaf, started>>
      /\ UNCHANGED <<conn, jobs, outbox>>
  BY <1>1 DEF hostVars, chipVars, ResponseOverdue
<1>3. (busError => busError') /\ (hif' = "reset" <=> hif = "reset")
  <2>1. CASE TakeMessage \/ TakeFails
    BY <2>1 DEF TakeMessage, TakeFails, Requested, intVars
  <2>2. CASE DisableInterrupt \/ CountServiced \/ EnableInterrupt
    BY <2>2 DEF DisableInterrupt, CountServiced, EnableInterrupt
  <2>3. CASE RxDone
    BY <2>3 DEF RxDone
  <2>4. CASE winc_interrupt_handler \/ Announce \/ UNCHANGED hifVars
    BY <2>4 DEF winc_interrupt_handler, Announce, hifVars
  <2> QED
    BY <2>1, <2>2, <2>3, <2>4 DEF HifAlone, Serviced, AnnounceNext, ResponseOverdue, wincVars
<1> QED
  BY <1>2, <1>3, AsideKeepsSessions

\* A restart gives up the table; when it ends nothing is under way.
LEMMA RestartKeepsSessions ==
    ASSUME Context, Restart \/ FinishRestart
    PROVE  SessionInv'
<1>. SessionInv
  BY DEF Context
<1>1. CASE Restart
  <2>1. hif' = "reset" /\ sockets' = ClearedTable /\ UNCHANGED mqttSocket
    BY <1>1 DEF Restart, AdapterInit
  <2>2. ~IsUsed'
    <3>1. mqttSocket \in Numbers \cup {NoSocket}
      BY DEF Context, Known, LeakInv, TableOK
    <3> QED
      BY <2>1, <3>1 DEF IsUsed, ClearedTable, Cleared
  <2> QED
    BY <2>1, <2>2
       DEF SessionInv, OwnStarted, ConnectOwn, ConnectOnce, Believed, DataOwn, Asked,
           ResetBlank, Live
<1>2. CASE FinishRestart
  <2>1. /\ hif = "reset" /\ hif' = "idle" /\ jobs' = {} /\ outbox' = <<>>
        /\ socketState' = "NOT_A_SOCKET" /\ rxSession' = 0 /\ ~started'
        /\ UNCHANGED <<sockets, mqttSocket>>
    BY <1>2 DEF FinishRestart, ChipReset
  <2>2. ~IsUsed'
    BY <2>1 DEF SessionInv, ResetBlank, IsUsed
  <2>3. UnderWay' = {} /\ Len(outbox') = 0
    BY <2>1 DEF UnderWay
  <2> QED
    BY <2>1, <2>2, <2>3
       DEF SessionInv, OwnStarted, ConnectOwn, ConnectOnce, Believed, DataOwn, Asked,
           ResetBlank
<1> QED
  BY <1>1, <1>2

\* Every step keeps the sessions apart.
LEMMA SessionStep ==
    ASSUME Context, [WincNext]_wincVars, [FreshNumber]_wincVars
    PROVE  SessionInv'
<1>1. ASSUME NEW outcome \in Outcomes, CloudStep(outcome) PROVE SessionInv'
  <2>1. CASE FreshNumber
    BY <1>1, <2>1, CloudKeepsSessions
  <2>2. CASE UNCHANGED wincVars
    BY <2>2, HifKeepsSessions
  <2> QED
    BY <2>1, <2>2
<1>2. ASSUME NEW outcome \in Outcomes, Callback(outcome) PROVE SessionInv'
  BY <1>2, AnswerKeepsSessions
<1>3. ASSUME NEW job \in jobs, Complete(job) PROVE SessionInv'
  BY <1>3, CompleteKeepsSessions
<1>4. ASSUME NEW n \in Numbers, ConnectionLost(n) PROVE SessionInv'
  BY <1>4, LostKeepsSessions
<1> QED
  BY <1>1, <1>2, <1>3, <1>4, HifKeepsSessions, RestartKeepsSessions, StepCases

\* At the start nothing is under way.
LEMMA SessionInitial == WincInit => SessionInv
<1> SUFFICES ASSUME WincInit PROVE SessionInv
  OBVIOUS
<1>1. /\ UnderWay = {} /\ Len(outbox) = 0 /\ ~IsUsed /\ ~started
      /\ socketState = "NOT_A_SOCKET"
  BY DEF WincInit, UnderWay, IsUsed
<1> QED
  BY <1>1 DEF SessionInv, OwnStarted, ConnectOwn, ConnectOnce, Believed, DataOwn, Asked,
              ResetBlank

\* The sessions are kept apart as long as their numbers are.
LEMMA SessionsHold ==
    WincSpec /\ [][FreshNumber]_wincVars => [](Known /\ TypingInv /\ SessionInv)
<1>1. WincInit => SessionInv
  BY SessionInitial
<1>2. Known /\ TypingInv /\ SessionInv /\ [WincNext]_wincVars /\ [FreshNumber]_wincVars
         => SessionInv'
  BY SessionStep DEF Context
<1> QED
  BY <1>1, <1>2, KnownHolds, PTL DEF WincSpec

\* A socket that the client takes for connected is one whose CONNECT the firmware has
\* answered, through closes that fail, answers that come late and restarts: as long as
\* a number and session are not given again while an answer carries them.
THEOREM ConnectedMeansConnectedHolds ==
    WincSpec /\ [][FreshNumber]_wincVars => []ConnectedMeansConnected
<1>1. SessionInv => ConnectedMeansConnected
  BY DEF SessionInv, Believed, Matched, Answering, ConnectedMeansConnected
<1> QED
  BY <1>1, SessionsHold, PTL

\* The receive buffer never holds the data of an earlier connection, under the same
\* hypothesis.
THEOREM OwnDataOnlyHolds ==
    WincSpec /\ [][FreshNumber]_wincVars => []OwnDataOnly
<1>1. SessionInv => OwnDataOnly
  BY DEF SessionInv, Believed, Matched, DataOwn, OwnDataOnly
<1> QED
  BY <1>1, SessionsHold, PTL

\* Data is waited for only if the firmware has been asked for it, or the request is
\* known to have failed, under the same hypothesis: an answer of an earlier session does
\* not use up the request of this one.
THEOREM AwaitedMeansAskedHolds ==
    WincSpec /\ [][FreshNumber]_wincVars => []AwaitedMeansAsked
<1>1. ASSUME Known, TypingInv, SessionInv PROVE AwaitedMeansAsked
  <2> SUFFICES ASSUME socketState = "SOCKET_CONNECTED", hif # "reset", ~busError,
                      sockets[mqttSocket].pending, ~deaf
               PROVE  \/ Job("RECV", mqttSocket, mySession) \in jobs
                      \/ \E i \in 1 .. Len(outbox) :
                            /\ outbox[i].op = "RECV" /\ outbox[i].sock = mqttSocket
                            /\ outbox[i].session = mySession
    BY DEF AwaitedMeansAsked
  <2>1. IsUsed
    BY <1>1 DEF SessionInv, Believed, Matched
  <2>2. PICK e \in UnderWay : e.op = "RECV" /\ Own(e)
    BY <1>1, <2>1 DEF SessionInv, Asked, Live
  <2>3. CASE e \in jobs
    <3>1. e \in Requests
      BY <1>1, <2>3 DEF TypingInv, QueuesOK
    <3>2. e = Job("RECV", mqttSocket, mySession)
      BY <2>2, <3>1 DEF Own, Job, Requests
    <3> QED
      BY <2>3, <3>2
  <2>4. CASE \E i \in 1 .. Len(outbox) : e = outbox[i]
    BY <2>2, <2>4 DEF Own
  <2> QED
    BY <2>3, <2>4 DEF UnderWay
<1> QED
  BY <1>1, SessionsHold, PTL

=============================================================================
