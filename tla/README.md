# TLA+ models of the AVR-IoT MQTT light

The repository is the firmware of an AVR-IoT board: a light of NeoPixels that
Home Assistant commands over MQTT. There is no operating system. `main.c` runs a
superloop, `runScheduler` calls the callbacks of a software timer driver one
after the other, and interrupts (RTC overflow, USART, the WINC1510 Wi-Fi
module's line) feed it. This directory holds TLA+ modules of the parts whose
behaviour depends on the order of events, the TLC runs that check them, and
theorems about them checked by TLAPS.

## 1. The system

| Part | Source (below `src/AVRIoT.X/`) | State | Operations | Driven by |
|---|---|---|---|---|
| timer driver | `mcc_generated_files/drivers/timeout.c`, `src/rtc.c` | list of running timers, FIFO of expired ones, time base, RTC counter and flags | `timeout_create`, `timeout_delete`, `timeout_flushAll`, `timeout_callNextCallback`, `timeout_isr` | the superloop, RTC interrupt |
| MQTT client | `mqtt/mqtt_core` | `mqttState`, flags of packets to send, of responses awaited, of timeouts; four timers | the reception and the transmission handler, `MQTT_Create...Packet`, `MQTT_Disconnect`, four timer callbacks | `cloudTask`, `MAIN_dataTask`, CLI |
| communication layer, exchange buffers | `mqtt/mqtt_comm_bsd`, `mqtt/mqtt_exchange_buffer` | two ring buffers | init, read, write, terminate, send, receive, close | the MQTT client |
| BSD adapter | `mqtt/mqtt_winc_adapter.c` | table of sockets and their states | `BSD_socket/connect/send/recv/close`, `BSD_SocketHandler` | the layers above and the WINC's events |
| WINC socket layer | `winc/socket/socket.c` | table of sockets with session and receive-pending flag | requests, `m2m_ip_cb` | adapter, WINC |
| WINC host interface | `winc/driver/winc_hif.c`, `winc_adapter.c`, `winc_spi.c` | `serviceRequest`, `bSPIBusError`, the interrupt of the INT line | `winc_hif_send`, `winc_hif_handle_isr`, the interrupt handler, `wifi_reinit` | `wifiHandlerTask`, interrupt, the layers above |
| cloud service | `cloud/cloud_service.c`, `cloud/mosquitto_cloud_service.c`, `cloud/mqtt_service.c` | `cloudStatus` flags, two watchdog timers, address of the broker | `cloudTask` every 500 ms, `mqttTimeoutTask`, `cloudResetTask`, `dnsHandler` | timer driver, WINC |
| Wi-Fi service | `cloud/wifi_service.c` | `shared_networking_params`, `checkBackTimer` | `wifiCallback`, `checkBackTask`, `wifi_connectToAp` | `wifiHandlerTask` every 50 ms, timer |
| application | `main.c`, `application_manager.c` | the light: `control` with its `changed` bits, `lights`, the announcement, number of LEDs | the loop of `main`, `sendToCloud`, `receivedFromCloud`, `update_led_config` | superloop, timer, MQTT client |
| command line | `cli/cli.c` | line buffer, flags of the line | `CLI_task`, the commands | timer |
| serial port | `src/usart2.c` | receive and transmit ring, each with a count | `USART2_Read`, `USART2_Write`, two interrupt routines | command line, USART interrupts |
| credentials storage | `credentials_storage/credentials_storage.c` | the network commanded (`wifi`), in memory; user, broker and number of LEDs in EEPROM | set, clear, write | command line, Wi-Fi service |
| LEDs, time, TWI, crypto, WINC drivers | several | blink timers, epoch | | |

How they interact. Every task is a timer callback that returns its next delay.
`cloudTask` supervises (must the WINC be restarted, must a connection be waited
for?), then looks at the socket: it opens it, creates a CONNECT, or calls the
reception handler, the transmission handler and `BSD_recv`. The WINC answers by
events that `wifiHandlerTask` delivers to `wifiCallback`, `BSD_SocketHandler`
and `dnsHandler`. The commands of the CLI change the connection beside all that.
Nothing else runs while a callback runs, except the interrupts.

What is hard:

* Interrupts. The lists of the timer driver, the counts of the two rings and the
  counter of the WINC's requests are shared with an interrupt routine, and the RTC
  keeps running inside critical sections.
* What outlives its connection. Flags and timers of one MQTT session survive into
  the next; an answer of the WINC to a socket that is closed comes when its number
  is in use again.
* Faults in every order. A packet that cannot be sent, a request the WINC refuses,
  a bus that fails in the middle of a handshake, a command, a lost access point or
  connection, a failed restart and the watchdog's own timers meet in every order.
* One place for many things. Two packets may come in one receive, and the second is
  dropped; one slot holds the PUBLISH to be sent, whoever overwrites it; one line
  buffer is filled while the answer to an earlier line is printed.

What makes each part correct is the list of properties in section 3; the
`hazards` of PROJECT.json name the lines where they are at stake.

## 2. The modules

| Module | Models | Builds on |
|---|---|---|
| `TimerService` | what `timeout.h` promises: a timer is stopped, running or expired | |
| `Timeout` | `timeout.c` over the RTC, step by step with its interrupt | refines `TimerService` |
| `MqttClient` | MQTT core, communication layer, BSD adapter and the state machine of `handleSocketState`; the TCP connection and the broker as external actions | |
| `CloudService` | `cloudTask`, the watchdog timers, `reInit`, the Wi-Fi callbacks, CLI commands | extends and refines `MqttClient` |
| `WifiCredentials` | which network is joined: the command `wifi`, the credentials in memory, the WINC's last network | extends `CloudService` |
| `ByteFifo` | what a ring promises: a bounded queue with at most one byte in a hand | |
| `UsartRing` | `usart2.c`: both rings, step by step with both interrupts | refines `ByteFifo` twice |
| `CommandLine` | `CLI_task` over the rings, and the terminal | extends and refines `UsartRing` |
| `WincHif` | the WINC's interrupt, `winc_hif_handle_isr`, `winc_hif_send`, the restart | |
| `WincSocket` | the socket table of `socket.c` and the socket state of the BSD adapter, with the firmware's connections | extends and refines `WincHif` |
| `LightColour` | hue, saturation and value to red, green and blue, in the widths of the code | |
| `Light` | the light of `main.c`: commands, LEDs, reports, announcements | extends `LightColour` |
| `MC*` | instances for TLC; `MCTimeoutEarly` and `MCConnackTimeout` add a history variable, `MCTimeoutLive` and `MCCloudLive` a scheduler and fairness | the above |
| `TimeoutProofs`, `MqttClientProofs`, `CloudServiceProofs`, `UsartRingProofs`, `CommandLineProofs`, `WincProofs`, `LightProofs` | theorems and proofs | the above, TLAPS |

### Timeout

`listHead` and `executeQueueHead` are sequences (a linked list from its head);
`absoluteTime` is a function on the timers, in words of `Modulus` values;
`cnt`, `ovf`, `ovfIE` are the registers of the RTC. `pc` names the points of the
main program at which the interrupt can be taken, or inside a critical section at
which the counter can advance: the test for NULL before the first search, each
search, `makeAbsolute`, the insertion, the removal of an expired timer. The
interrupt is one step, as the comment at `timeout.c:345` assumes. `createAbs`
merges `RTC_DisableOVFInterrupt` with `makeAbsolute`, because an interrupt
between them is the same as one before. `RTC_ClearOVFInterruptFlag` is what the
hardware makes of it: the flag is cleared by writing a one, and `rtc.c:179`
writes a zero.
A callback is the step that takes its timer off the queue (`calling`), any calls
it makes, and its end.

`SlowMain` says whether the main program may leave an empty list for a whole
period of the counter (64 s) while callbacks are due or the interrupt is
enabled. The safety run allows it; where it is false it only excludes that.

### MqttClient

A packet is its type. `turn` splits `cloudTask` into the reception, the
transmission and what follows; while it is not `"idle"` no other callback runs.
Time is left out: a timer that runs may fire whenever the superloop is between
two callbacks. `MQTT_Send` may be refused at any time. `SocketRecv(count)`
delivers up to `MaxInbox` packets in one receive; the handlers process the first
and drop what stands behind a PINGRESP, SUBACK or PUBLISH, as the buffer is
initialised again after them. Left out: UNSUBSCRIBE and QoS 1 publishing (no
caller), the encoding of packets, the topic table.

`BSD_close` sets the socket to `NOT_A_SOCKET` and ends the TCP connection; the
broker's side and all data under way go with it (`broker`, `gone`, `wire`,
`inbox` are external).

### CloudService

`Supervise` is the first half of `cloudTask`, `setHaveSocketFor` what the rest
does to `haveDataConnection`, `HandleSocket` the socket state machine with the
real `mqttBrokerIP` and `haveTime` where `MqttClient` alone takes any.
`cloudTimers` holds the timers that run of `mqttTimeoutTaskTimer` (10 s),
`cloudResetTaskTimer` and `checkBackTimer` (50 ms). `wifi` and `dnsPending` are
what the WINC does between its events. Left out: the soft AP used for
provisioning (with it `amConnectingAP`, which is otherwise the negation of
`haveAPConnection`), and flags that only choose LEDs.

### WifiCredentials

The command `wifi` leaves credentials in memory (`SetWifi`) and, with an access point,
asks the WINC to leave the network it is in, which may fail without notice; `reInit` asks for the network of the credentials, or
for the WINC's last one if there are none (`AskedFor`, `Reset`); every CONNECTED
clears them (`Joined`). A network is only told apart from the one that was
commanded last (`joins`). `fate` is a history of the last command: `"safe"` when the WINC was asked to leave,
`"refused"` when that failed, at `"risk"` when it was typed without an access point. In
the last two cases the CONNECTED of another network, one that was being joined or
that the WINC comes back to by itself, may clear its credentials, which are then `"lost"`.

### UsartRing and CommandLine

The rings have the indices and counts of the code. `USART2_Read` and
`USART2_Write` are split where an interrupt can come between two of their
statements (`pc`); the count alone is changed with interrupts off. Waiting for a
byte or for room is a guard. The mask of the code is `Place`, as both sizes are
powers of two.

`ByteFifo` is a queue with a hand, which holds the byte on its way out. With it
each ring is an instance: `Rx` holds `RxSize - 1` bytes (the test for a full
ring compares the indices) and its hand is the byte that `USART2_Read` has moved
past and not yet returned; `Tx` holds `TxSize` (it compares the count) and its hand is the
data register.

In `CommandLine` a line is a short sequence of characters and a command with its
argument is a text of its own; what a command does elsewhere is in `MqttClient`,
`CloudService` and `Light`, and here it is known by its answer. `EndLine` keeps
the order of `CLI_task`: the terminating zero, which may hit a variable behind
the buffer, the too-long reply, the end-of-line test, the one command per task.
The terminal (external) types a line to a device whose answer it has not seen in
whole; `sure` says whether the answer is determined: the device was idle
and every byte was accepted.

### WincHif and WincSocket

`WincHif` splits `winc_hif_handle_isr` where the interrupt of the INT line can
come between: the callback, the pin unsensed, the counter, the pin sensed, RX
Done. The firmware announces one message at a time. An operation of the bus may
fail at each access, and `bSPIBusError` then makes every later one fail until
`winc_bus_init`, which is part of `ChipReset`.

`WincSocket` runs two tasks over it, which exclude each other: `cloudTask`, split
by `turn` into its requests, and `wifiHandlerTask`, split by `hif`. Every request
has an outcome: sent, refused for want of memory, lost on the bus, or `unsure`
(the firmware has it and the host takes it for failed). A socket is a number and
a session; jobs and answers of the firmware (external) name both, except that the
answer to a CONNECT names no session in the code. `deaf` is a ghost: a request to
receive failed on this connection, whose receive-pending flag then stays. The
MQTT client above is no more than its interface, as `MqttClient` shows it: rounds
of its handlers, commands after the first of them, a restart by the watchdog, and
`response`: after the CONNACK a packet that is sent may await one, which what is received
may bring, and whose timer may make it overdue (`ResponseOverdue`). An overdue
response closes the connection at the next round (`BeginRound`), and, as nothing
resets it, every later one: `OverdueLocksOut` at the level of the sockets. A
connection that goes deaf before the CONNACK leaves the client waiting until the
watchdog restarts the WINC; on one that goes deaf after it, the PINGRESP of the
keep-alive cannot come and is overdue.
The interface is checked on the other side: `ConnectingUndisturbed` in
`MqttClient` says that nothing sends on, or closes, a socket that is connecting,
and `WincSocket` relies on it.

### Light

`Update` is the first half of the loop of `main`, a callback the second. `changed`
has its two bits: 1 the LEDs are to be shown, 2 the state is to be reported.
A state report is a record of what it says; `Report` of a light that is off says no
more. `slot` is the one PUBLISH that waits, which `MQTT_CreatePublishPacket`
overwrites and `MQTT_CreateConnectPacket` drops; `told` and `lost` are ghosts of
what has reached Home Assistant. `LightColour` keeps the widths of the products:
16 bits where `uint8_t` operands are promoted to the `int` of an AVR, 32 bits
where the code casts.

## 3. The runs

| Run | Question | Result |
|---|---|---|
| `timeout_safety` | do the lists survive every interleaving of main program, interrupt and counter? does the driver implement `TimerService`? | holds |
| `timeout_live` | does every running timer expire and every expired one get its callback, whatever callbacks do to it and the other timers, and over the wrap of the time after 48 days? | holds under fairness |
| `timeout_early` | does a timer wait for its delay? | violated |
| `timeout_null` | is `listHead` there when the interrupt comes? | violated |
| `cloud_safety` | are waits timed, does the keep-alive run, is the order of the protocol kept? is the watchdog armed while the client is not connected, and off while it is? | holds |
| `cloud_live` | is the device connected and subscribed again after faults, on the network it was told to join, but for two named cases? | holds under fairness |
| `locked_out` | and if the response to a ping comes together with a command? | violated |
| `connack_timeout` | does an overdue CONNACK close the connection? | violated |
| `lost_ap` | is the cloud service reset when the access point is lost? | violated |
| `console` | are the rings queues at every interleaving? is every line answered, once and by its own command? does the console come to rest? | holds; the last under fairness |
| `winc` | is any message left lying, any answer taken for another connection's, any connection leaked, and does the device receive again after faults, unless a response was overdue? | holds; the last under fairness |
| `light` | is what is reported what the LEDs show? is Home Assistant left with a wrong state, and is the last command reported in the end? | holds; the last under fairness |

The properties are stated, each with its reason, at the end of the modules.

`OverdueLocksOut` in `cloud_safety` states the disagreement of `locked_out` as an
action property, which holds: once a response is overdue and the client not CONNECTED,
both stay so. The run shows one behaviour that ends there, the property that
there is no way out.

### Bounds

* `Timeout`: a counter of 3 values (`MaxLoad` = 2) and delays of 1 and 3 ticks,
  so that a delay is below and above one period of the counter and the dummy is
  needed; three timers, so that a third is inserted between and behind two
  others. In `timeout_safety` no delay ends after `MaxTime`, below `Modulus`: the
  order of the list is not claimed beyond it (48 days). Timers are symmetric in
  `timeout_safety`.
* `timeout_live`: a counter of 2 values, delays of 1 and 2 ticks (one below and one at
  a period), and a time that goes round without a bound, with a `Modulus` of 7: beyond
  every delay, one period of the counter and the period that `sortedInsert` adds, as 2^32
  is. A callback makes up to two calls (`MaxCalls`), of either timer on either, so that
  one may delete another timer and put it, or itself, at the head, again and again. Two
  timers are enough for what a third could do to one that waits: be put before it, be
  taken from before it, be served before it. With three the graph is out of reach.
  492 thousand states.
* `cloud_safety`: `MaxWire` = 1 packet under way in each direction, and
  `MaxInbox` = 2, so that a second packet waits behind the first and both come in
  one receive. Everything else is finite. 1.5 million states.
* `cloud_live`: four faults of any kind, `Patience` = 6 rounds of `cloudTask`
  before `mqttTimeoutTask`; the code has 10 s / 500 ms = 20, six is more than a
  connection takes here. `MaxInbox` = 1, since two packets in one receive are what
  `locked_out` is about. A command is a fault too, so that `wifi` is typed before, while
  and after another network is joined, and the request to leave that network may be
  refused. 253 thousand states.
* `console`: a receive ring of 4 and a transmit ring of 2 bytes, so that both fill and
  wrap several times in a line; `MAX_COMMAND_SIZE` = 2 with lines of 0, 1 and 3
  characters, of which CR and LF make more, so that a line fits, is too long, and
  overflows the ring. One command, one unknown text. 1 million states.
* `winc`: a table of 2 sockets (7 in the code), so that numbers are used again and the
  table can be exhausted by leaked entries; one answer that waits to be announced, beside
  any number of requests that are not answered yet and may be in any order; two faults,
  each of them any of: a failed request, a failed bus, a lost connection, a command or a
  restart without a reason. Two are enough for a fault while the device recovers
  from another. `LastSession` = 6: the behaviours with two faults use fewer sessions between
  two restarts, so that a number of a session is not used again while an answer to it is
  under way, as in the code, where there are 65,535. A client that is locked out would
  open connections for ever; it stops after session `MaxLockedOut` = 2 and waits for a
  restart. What it opens does not matter to `KeepsReceiving`, which excuses it. 296
  thousand states. With two answers waiting and `MaxLockedOut` = 3 the invariants hold
  too (1.2 million states).
* `light`: `MaxDiscover` = 10 as in the code; one colour and one brightness beside
  those of the start, the colour in a slice of the wheel and with a saturation that
  make the conversion work, and with red, green and blue that differ
  from what hue and saturation come to; strips of 0 and 2 LEDs. 97 thousand states.

### Fairness

The superloop runs `runScheduler` in every iteration and callbacks return, so the
steps of the main program are weakly fair; the counter runs and a pending,
enabled interrupt is taken. In `timeout_live` the timers are created by the
initialisation, and after that every call of the driver comes from a callback, of any
timer on any timer. That is how the application calls it: `cloudTask`, a callback itself,
deletes and creates the timers of the MQTT client (`mqtt_core.c:1066, 1096-1131`)
and of the watchdog (`cloud_service.c:184, 298`), and LED services each other's.
What is assumed of them is that each callback makes finitely many calls, as
each in the code does. It is needed: a main program that calls the driver without end
can put a timer at the head, or delete it there, in every period of the counter,
and TLC then shows another timer that never expires.

`cloud_live` lets the world's answers come before the next task (a WINC or a
broker that never answers refutes any claim about reconnection), and lets no
more than `Faults` answers fail. Its faults keep clear of one thing: they
happen only while no PINGRESP or SUBACK is awaited and the client notices them
at once, because by `locked_out` the device gives up for ever otherwise. The WINC
leaves a network when it has been asked to, and comes back by itself only to one that it
has lost. The request to leave may be refused.
`MAIN_dataTask` publishes every second and `cloudTask` runs every 500 ms, so that
one round without a PUBLISH comes between two with one (`published`).

`console`: the main program goes on, the transmit interrupt is taken and the USART
shifts its bytes out.

`winc`: `cloudTask` and `wifiHandlerTask` are periodic timers and the superloop
serves every one that expires; as each waits while the other is in the middle of
its work, the fairness is strong. A restart comes in the end when the client is again and
again in a state that it cannot leave otherwise (`Hopeless`): with the bus in error, with
no socket, or before the CONNACK on a connection that is deaf. `WatchdogArmed` of
`CloudService` is the reason for the last two, where the client is not CONNECTED. With
the bus in error it may be CONNECTED still; it leaves that state at a PUBLISH that is
refused, or at the latest when the connection has aged
(`MQTT_CONN_AGE_TIMEOUT`, `cloud_service.c:310`), and then
the watchdog runs. After the CONNACK a deaf connection, on a bus that works, ends
by its keep-alive (`KeepAliveRuns` of `MqttClient`; no command comes there whose report,
a PUBLISH, would start the keep-alive's time anew): the fairness makes a response
overdue there, and the client is locked out. No restart is promised to help then. The
interrupt is taken, the firmware announces its answers and gives one to every request of a
connection that is open.

`light`: the loop of `main` goes on (weak), and while the client is connected its
data task and `cloudTask` get their turns; a client that can connect again and again
does (strong). This last assumes a client that is not locked out: by `locked_out` there
are behaviours in which it never connects again, and of those `TellsInTheEnd` says nothing.
The property itself assumes that the access point stays and that commands end.

### Disagreements between the code and what is said of it

* `timeout_early`: the overflow flag stays set while no timer runs, and the next
  timer created expires at once (`rtc.c:179`).
* `timeout_null`: `timeout_delete` enables the interrupt at the end of every
  search, also when no timer runs, and `timeout_isr` reads `listHead->next`.
* `locked_out`: a response is overdue when it has not come within its timeout, and
  `MQTT_ReceptionHandler` then closes the connection at its first reception.
  `mqttTimeouts`, `mqttRxFlags` and the timers of PINGRESP and SUBACK are not reset
  with the connection; only a further PINGREQ or SUBSCRIBE resets them
  (`mqtt_core.c:1308, 1382`), which needs the state CONNECTED, which the first
  reception leaves before a CONNACK is read. Neither `MQTT_initialiseState` nor `reInit`
  clears them: after one such timeout no connection lasts. No fault of the network is
  needed for it: a command and the PINGRESP behind it come in one receive, the
  command is processed and the PINGRESP dropped with the buffer.
* `connack_timeout`: with an empty buffer the reception returns before it looks
  at the timeout of CONNACK; only the 10 s timer of the cloud service helps.
* `lost_ap`: `amDisconnecting` is set two lines before it is tested, so the
  application is never told of a lost access point.

### What is also seen in the models

No document speaks of these; they are what the code does, and the models have them.

* Timers. When a new timer's time has wrapped, `sortedInsert` counts all others from now
  and adds 65,536 to the new one: it, and those created before the next expiry, are
  late by one period of the counter (64 s, once in 48 days). Nothing is lost by
  it, and without the rebase the list would stand still (`timeout_live` and its mutant).
* Cloud. The CLI commands `mqtt` and `broker` leave the client CONNECTED on a closed
  socket until the next `cloudTask` opens another, and a new address of the broker is
  used only after the next reset. `wifi` typed while another network is being joined is
  forgotten at its CONNECTED (`wifi_service.c:294`), and the device stays in the old one,
  although the command has answered "OK". The result of `wifi_disconnectFromAp` is ignored
  (`cli.c:254`): if the WINC could not be asked to leave, the device stays in the old network
  and connects there again, with the credentials of the new one pending until something
  else makes it restart. `JoinsCommanded` names the two cases as exceptions.
* Console. `command[index] = 0` at the length of the buffer writes into a variable of
  `cli.c` behind it; which one is the linker's choice, and the model takes any.
  Therefore `LineAnswered` is claimed of lines shorter than the buffer. The LF of a CR
  LF that was too long runs an empty command. A task runs one command, and the lines
  read with it are dropped. The replies `debug`, `reconnect` and too-long end without
  the EOT of the others.
* WINC. The answer to a CONNECT names no session; no old one meets a new socket
  because nothing closes a socket that is connecting. `bSPIBusError` stays until
  `winc_bus_init`; a client that is CONNECTED notices it only when it sends a PUBLISH, or
  when its connection has aged (3,600 s). A close that is refused leaves its entry in use
  until the next restart. A request to receive that fails leaves its flag set, so that
  nothing is asked again on that connection. Before the CONNACK a restart makes it good; after it
  the keep-alive's PINGRESP is overdue, and the client is locked out: one request refused
  for want of memory has the end that `locked_out` shows. With no free entry
  `socket()` clears the last one and returns -1; the restart recovers.
  `winc_adapter_init` clears the counter before the chip is reset, hence at most one
  request too many.
* Light. `main.c:167` asks "Do we really need this one?": it is needed, because
  `haveAPConnection` is cleared at once and the client still CONNECTED for a while.
  A state report can be overwritten by the attributes within the 100 ms after it, or
  lost with its connection, and is not repeated. A lost announcement is repeated only
  after the next loss of the access point. If the number of LEDs is changed to and fro
  around a command, the strip keeps the length it had.
  While commands come back to back, Home Assistant is one behind.

## 4. The theorems

TLC checks the instances above; TLAPS proves the following for every value of the
constants, from the assumptions on them: `TimerAssumption` (any set of timers, the
dummy not among them), `CounterAssumption` (a counter of any size, absolute times of
more than twice that size, delays of any length below it), `ClientAssumption`
(`KeepAlive` is a Boolean, `MaxWire` and `MaxInbox` are positive), `RingAssumption`
(rings of at least two bytes), `ConsoleAssumption`, `SocketAssumption` (tables,
sessions and queues of any size) and `LightAssumption` (commands are in the
ranges of their types). Three theorems have one hypothesis more: `NoWrap`, that no delay
ends after the absolute times wrap. It is the bound `MaxTime` of the model, not a fact of
the code: it is true of the first 48 days of a running list, less one period of the counter.
Behind it the three are false, as a timer whose time has wrapped is inserted by a time
that is a period too late (above, "What is also seen" in section 3).
Three theorems about sessions have the hypothesis `[][FreshNumber]_wincVars`: while the
bus works, `socket` does not give out a number and a session that a request or an answer
under way still carries. The sessions are a counter of 16 bits, so it says that the
firmware does not leave a request unanswered for 65,535 connections; the model
leaves it unanswered as long as it likes. A restart starts the numbers anew, but then nothing is under
way. The instance of `winc` satisfies it.

| Theorem | Module | States |
|---|---|---|
| `TimerTypesHold` | `TimeoutProofs` | `Spec => []TypeOK` |
| `NeverLinkedTwiceHolds` | | `Spec => []NeverLinkedTwice` |
| `DeleteUnlinksHolds` | | `Spec => DeleteUnlinks` |
| `ImplementsServiceHolds` | | `Spec => ImplementsService` |
| `ListSortedHolds` | | `NoWrap` and `Spec` give `[]ListSorted` |
| `DummyOnlyAtHeadHolds` | | `NoWrap` and `Spec` give `[]DummyOnlyAtHead` |
| `ArmedForHeadHolds` | | `NoWrap` and `Spec` give `[]ArmedForHead` |
| `ClientTypeCorrect` | `MqttClientProofs` | `ClientSpec => []ClientTypeOK` |
| `WaitsTimed` | | `ClientSpec => []EveryWaitIsTimed` |
| `KeepsAlive` | | `ClientSpec => []KeepAliveRuns` |
| `SendsOnlyAfterConnack` | | `ClientSpec => OnlyAfterConnack` |
| `ConnectingLeftAlone` | | `ClientSpec => []ConnectingUndisturbed` |
| `LockedOutForGood` | | `ClientSpec => OverdueLocksOut` |
| `CloudImplementsClient` | `CloudServiceProofs` | `CloudSpec => ClientSpec` |
| `CloudTypeCorrect` | | `CloudSpec => []CloudTypeOK` |
| `WatchdogAlwaysArmed` | | `CloudSpec => []WatchdogArmed` |
| `NeverResetsWhileConnected` | | `CloudSpec => []NoResetWhileConnected` |
| `BelievesOnlyInRealAP` | | `CloudSpec => []BelievesInRealAP` |
| `NeverStrandedHolds` | `UsartRingProofs` | `RingSpec => []NeverStranded` |
| `RxRefinesFifo`, `TxRefinesFifo` | | `RingSpec => RxIsFifo`, `RingSpec => TxIsFifo` |
| `ConsoleTyping` | `CommandLineProofs` | `ConsoleSpec => []ConsoleTypeOK` |
| `ConsoleUsesRing`, `ConsoleRings` | | `ConsoleSpec => RingSpec`, and what follows of the rings |
| `LineAnsweredHolds` | | `ConsoleSpec => []LineAnswered` |
| `MessagesRequested` | `WincProofs` | `HifSpec => []EveryMessageRequested` |
| `SocketsImplementHif`, `SocketMessagesRequested` | | `WincSpec => HifSpec`, and what follows |
| `NoConnectionLeaks` | | `WincSpec => []NoneLeaked` |
| `SocketTypesHold` | | `WincSpec => []WincTypeOK` |
| `ConnectedMeansConnectedHolds` | | `WincSpec /\ [][FreshNumber]_wincVars => []ConnectedMeansConnected` |
| `OwnDataOnlyHolds` | | the same for `OwnDataOnly` |
| `AwaitedMeansAskedHolds` | | the same for `AwaitedMeansAsked` |
| `ColoursFit` | `LightProofs` | the conversion of colours gives bytes and cuts off nothing |
| `LightTypeCorrect` | | `LightSpec => []LightTypeOK` |
| `ReportsTheShown` | | `LightSpec => ReportsWhatShows` |
| `TellsTheTruth` | | `LightSpec => []ToldTheTruth` |

How the proofs go.

* Timers, links. `LinkInv` is inductive, over the wrap of the times too. Beside the types
  it says what each search has left behind (a timer looked for in the list is not in
  it, one that is about to be inserted is in neither), that the dummy is only ever at
  the head, and how the counter is armed: the load and the head's distance from the
  time base make `MaxLoad`, where the distance is taken on the circle of words. The
  last is what the unlinked head's successor needs to be armed again, and it fails
  at one place only, between `timeout_flushAll`'s reset of the time base and its first
  deletion (`FlushBegun`). `RebaseKeepsDistances` shows that the rebase of
  `sortedInsert` leaves every distance as it was.
* Timers, order. `TimesInv` adds `ListSorted` and that the time in hand has not wrapped:
  the insertion finds the first timer that is later (`PlaceFound`) and puts the new one
  before it (`InsertIntoList`, `InsertIsSorted`). That `ArmedForHead` follows, without the
  circle, needs the sorted list.
* Timers, refinement. `ServiceStep` maps each step: the search of the list cancels a
  running timer, that of the queue an expired one, the insertion starts it, the removal
  from the queue serves it, the interrupt expires the head, unless that is the dummy; the
  other steps stutter. What must be shown is that the interrupt cannot expire a timer that
  is in the main program's hand, and that is `Unlinked`.
* Types. `ClientTypeOK` is inductive. It is proved in three parts (`FlagsOK`,
  `CoreOK`, `NetOK`), as the solver for sets and sequences is weak on Booleans.
* Waits and keep-alive. `EveryWaitIsTimed` and `KeepAliveRuns` are inductive
  together with `CoreOK`: what is needed is that the names of the responses are
  not those of the other timers, so that deleting PINGREQ's or CONNACK's timer
  leaves a response's alone.
* Order of the protocol. `OnlyAfterConnack` needs the invariant `OrderInv`, which
  relates the client to the broker: the client is CONNECTED on an open socket
  only if the broker has accepted a CONNECT on it; as long as it has not, no
  CONNACK is in a buffer; and while a socket is being connected the client is
  DISCONNECTED, its buffer empty and no task half done. The third part is what
  `MQTT_ClientInitialise` in `CLOUD_connectSocket` is for. `WireStep` then says
  which steps put anything on the connection.
* Refinement. Each action of `CloudService` is an action of `MqttClient` or leaves
  its variables alone, so all theorems about the client hold of the service.
* Watchdog. `WatchdogArmed` is not inductive. `WatchdogInv` is: a flag that keeps
  `cloudTask` from acting has its timer (`isResetting` that of the reset,
  `waitingForMQTT` after a successful `reInit` that of the connection), and
  `cloudResetTimerFlag` is off when the service is initialised. The flag outlives a
  reset that a connection called off, but then the service is not initialised
  and `cloudTask` asks for the reset again.
* `NoResetWhileConnected` uses `OrderInv` through the refinement: a socket that is
  still being connected never has a CONNECTED client.

* Locked out. `LockOutStep` shows of each action that an overdue response stays
  overdue unless the client is CONNECTED, and that the reception that could make it
  CONNECTED closes the socket before it reads what has come.
* Rings. `RingInv` says where head, tail and count stand to each other at every `pc`: the
  bytes between tail and head are as many as the count, one more or one less by
  what the main program has begun. The refinement maps the ring to the sequence of
  its bytes from the tail. A step then appends to that sequence, or takes its head, by
  arithmetic on `Place`, which is why `Place` is written without a modulus.
* Console. Each step of the console is one of the rings or leaves them alone, so
  their theorems hold of it. Typing needs that no character is stored behind the
  buffer.
* The answer to a line. Two sequences run through the whole console: `coming`, the bytes
  typed and not consumed yet (in the terminal, the ring, the hand of `USART2_Read`), and
  `going`, those printed since the line was typed (left in `printf`, in the ring, in the
  data register, shown). No interrupt changes either, wherever it comes; that is
  `ComingReceived` and `GoingKept`, and rests on the rings being FIFOs. A sure line is first
  `Asking` (`command` and `coming` together are the line and its end) and then
  `Answering` (`going` is the answer, and at most the LF of a CR LF is coming). That it starts
  `Asking` is `Ended`: unless the last byte of a line was dropped, nothing is left in
  `command` when the device is quiet, whatever was lost before. `NoReturn` keeps a
  terminal that sends LF alone from having a line's end taken for the second half of one.
* WINC. `HifInv` says who answers for an announced message at every point of
  `winc_hif_handle_isr`: while the pin is not sensed, no message can be announced, as the
  one before has not been given back. `LeakInv` relates the firmware's connections to
  the entries of the table, also while a restart has cleared one and not yet the
  other.
* Sessions. `SessionInv` says of everything under way, requests and answers, whom it
  concerns. An answer to a CONNECT is the only one and is for the socket that is
  connecting: no other close comes between, as every other needs a socket that was
  connected. Any other entry of the client's number and session belongs to a connection on which MQTT
  has begun (`OwnStarted`), and on such a connection the firmware's session is the table's
  (`Believed`), also when a refused close has left the entry in use and a late answer
  makes the socket connected again. When the bus is in error nothing of this need
  hold, and nothing is read until a restart; therefore `Live`.
* Light. `ColoursFit` bounds the products slice by slice of the wheel; with it a value of
  255 changes nothing, so a report's colour scaled by its brightness is the colour
  shown, although both are computed apart. `ShownInv` ties `lights` to `control` while bit
  0 is clear, `SettledInv` what Home Assistant knows to `control` while
  nothing is left to report.

Every safety invariant and action property that the passing runs check is proved, some
of the timers' and the sessions' under the hypotheses named above. Only model-checked is
liveness (`EveryTimerExpires`,
`EveryExpiryIsServed`, `Reconnects`, `Resubscribes`, `JoinsCommanded`, `ComesToRest`, `KeepsReceiving`,
`TellsInTheEnd`). Liveness under fairness and `ENABLED` are out of
the prover's reach, as is induction over data, that is, what a recursive
definition computes for every input. The violations are counterexamples and
need no proof.

## 5. What is not modelled

Most of the repository's lines are vendored or generated and not this program's own
logic: the CryptoAuthenticationLibrary (linked for one serial number), the WINC's
headers and management drivers, `spi_flash.c`, the drivers of pins, clock, SPI and
ADC. Models of them would describe code that the firmware does not call. The rest:

* QoS 1, UNSUBSCRIBE, server and UDP sockets, TLS, ping, power save: no caller in
  this firmware.
* Provisioning through the soft AP, the endpoint read from flash, the topic table, the
  splitting of a command's argument, the texts of JSON and of answers: they do not
  change the order of events that the models are about.
* The exchange buffers: their ring is initialised before every write, never wraps,
  and a packet of this device is shorter than it (850 and 870 bytes). One cut is noted and
  not modelled: `mqtt_comm_layer.c:88` keeps a length in 8 bits.
* The TWI master: a generated state machine for one client that waits for its end in
  a loop, used once at the start.
* LEDs: four blink timers, whose behaviour is the timer driver's. The time of day is
  the C library's; the user and broker of MQTT are strings in EEPROM.
* The gamma table and the driving of the NeoPixels: a fixed function of `lights`.
* Malformed messages of the WINC, whose sizes `winc_hif_handle_isr` checks.

## 6. Plan

Done: `Timeout` and `TimerService`; `MqttClient`; `CloudService` and
`WifiCredentials`; `UsartRing` and
`CommandLine`; `WincHif` and `WincSocket`; `Light`; the theorems above.

In order of what is left to gain:

1. `ExchangeBuffer` against a sequence of bytes, and the topic table, should a caller
   come that does not empty the buffer first.
