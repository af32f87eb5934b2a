------------------------------- MODULE Light -------------------------------
(***************************************************************************)
(* The light of main.c: what Home Assistant commands, what the LEDs show,  *)
(* and what Home Assistant is told.                                        *)
(*                                                                         *)
(* An iteration of main() updates the LEDs if bit 0 of control.changed is  *)
(* set, then calls one callback, then looks at the access point.  The      *)
(* MQTT client has one slot for a PUBLISH: MQTT_CreatePublishPacket        *)
(* overwrites it, and a CONNECT drops it.  Topics and payloads are what    *)
(* they say; the strings are left out.  The gamma table, applied to all    *)
(* that is shown, is left out too.                                         *)
(***************************************************************************)
EXTENDS LightColour

CONSTANTS
    Colours,        \* the colours that are commanded
    Brightnesses,   \* the brightnesses that are commanded
    Leds,           \* numbers of LEDs that are set
    MaxDiscover     \* bound: rounds of an announcement, 10 in the code

\* A colour is commanded twice over, as red, green and blue and as hue and saturation.
ColourCommand == [rgb : [Channels -> Byte], hue : 0..HueMax, saturation : Byte]

ASSUME LightAssumption ==
    /\ Colours \subseteq ColourCommand
    /\ Brightnesses \subseteq Byte
    /\ Leds \subseteq Nat
    /\ MaxDiscover \in Nat /\ MaxDiscover >= 2

VARIABLES
    changed,     \* control.changed: bit 0 to show, bit 1 to report
    control,
    lights,
    discover,
    numLeds,     \* eeprom->num_leds
    prevNumLeds,
    step,        \* where main() is in its loop
    slot,        \* the PUBLISH to be sent
    connected,   \* is the MQTT client CONNECTED?
    haveAP,      \* shared_networking_params.haveAPConnection
    told,        \* the last state that has reached Home Assistant
    lost         \* has a state been lost that was to reach it after that one?

light == <<changed, control, lights, discover, numLeds, prevNumLeds>>
mqtt  == <<slot, connected, told, lost>>
lightVars == <<light, step, mqtt, haveAP>>

Control == [on : BOOLEAN, brightness : Byte, rgb : [Channels -> Byte],
            hue : 0..HueMax, saturation : Byte]

\* What a state report says; of a light that is off it says no more.
Off == [on |-> FALSE, brightness |-> 0, rgb |-> Black]
Reports == [on : BOOLEAN, brightness : Byte, rgb : [Channels -> Byte]]
Report == IF control.on
          THEN [on |-> TRUE, brightness |-> control.brightness, rgb |-> control.rgb]
          ELSE Off

Message(kind, report) == [kind |-> kind, report |-> report]
Empty == Message("none", Off)
Messages == [kind : {"none", "config", "attr", "state"}, report : Reports]

LightTypeOK ==
    /\ changed \in 0..3
    /\ control \in Control
    /\ lights \in [Channels -> Byte]
    /\ discover \in 0..MaxDiscover
    /\ numLeds \in Leds
    /\ prevNumLeds \in Leds \cup {0}
    /\ step \in {"update", "callback"}
    /\ slot \in Messages
    /\ connected \in BOOLEAN
    /\ haveAP \in BOOLEAN
    /\ told \in [known : BOOLEAN, report : Reports]
    /\ lost \in BOOLEAN

LightInit ==
    /\ changed = 3
    /\ control = [on |-> FALSE, brightness |-> 20, rgb |-> Black,
                  hue |-> HueMax, saturation |-> 255]
    /\ lights = Black
    /\ discover = MaxDiscover
    /\ numLeds \in Leds
    /\ prevNumLeds = 0
    /\ step = "update"
    /\ slot = Empty
    /\ connected = FALSE
    /\ haveAP = FALSE
    /\ told = [known |-> FALSE, report |-> Off]
    /\ lost = FALSE

-----------------------------------------------------------------------------
(***************************************************************************)
(* main().                                                                 *)
(***************************************************************************)

update_led_config ==
    IF control.on
    THEN /\ control' = [control EXCEPT !.rgb = HSV(control.hue, control.saturation, 255)]
         /\ lights' = HSV(control.hue, control.saturation, control.brightness)
    ELSE lights' = Black /\ UNCHANGED control

\* Mutant: the LEDs are updated, and with them what was to be reported is forgotten.
UpdateAndForget ==
    /\ step = "update" /\ step' = "callback"
    /\ IF changed \in {1, 3}
       THEN changed' = 0 /\ update_led_config
       ELSE UNCHANGED <<changed, control, lights>>
    /\ UNCHANGED <<discover, numLeds, prevNumLeds, mqtt, haveAP>>

\* Bit 0 is set: it is cleared, and the LEDs are updated.
Update ==
    /\ step = "update" /\ step' = "callback"
    /\ IF changed \in {1, 3}
       THEN changed' = changed - 1 /\ update_led_config
       ELSE UNCHANGED <<changed, control, lights>>
    /\ UNCHANGED <<discover, numLeds, prevNumLeds, mqtt, haveAP>>

\* Mutant: an announcement that has ended starts again.
CallbackAnnounces(rounds, ap) ==
    /\ step = "callback" /\ step' = "update"
    /\ haveAP' = ap
    /\ discover' = IF ap /\ rounds > 0 THEN rounds ELSE MaxDiscover

\* runScheduler calls one callback, after which the announcement starts again if there
\* is no access point; rounds and ap are what the callback leaves.
Callback(rounds, ap) ==
    /\ step = "callback" /\ step' = "update"
    /\ haveAP' = ap
    /\ discover' = IF ap THEN rounds ELSE MaxDiscover

NoCallback ==
    /\ Callback(discover, haveAP)
    /\ UNCHANGED <<changed, control, lights, numLeds, prevNumLeds, mqtt>>

-----------------------------------------------------------------------------
(***************************************************************************)
(* MAIN_dataTask, every second while the client is connected.              *)
(***************************************************************************)

\* CLOUD_publishData: the slot is overwritten, whatever it still held.
CLOUD_publishData(message) ==
    /\ slot' = message
    /\ lost' = (lost \/ (slot.kind = "state" /\ message.kind # "state"))
    /\ UNCHANGED <<connected, told>>

\* Mutant: the announcement counts on below 0.
sendToCloudUncounted ==
    /\ connected /\ haveAP
    /\ Callback(discover - 1, haveAP)
    /\ UNCHANGED <<changed, control, lights, numLeds, prevNumLeds, mqtt>>

sendToCloud ==
    /\ connected /\ haveAP
    /\ \/ /\ discover > 0
          /\ Callback(discover - 1, haveAP)
          /\ IF discover - 1 = MaxDiscover \div 2
             THEN CLOUD_publishData(Message("config", Off))
             ELSE UNCHANGED mqtt
          /\ UNCHANGED <<changed, control, lights, numLeds, prevNumLeds>>
       \/ /\ discover = 0 /\ changed = 2
          /\ changed' = 0
          /\ CLOUD_publishData(Message("state", Report))
          /\ Callback(discover, haveAP)
          /\ UNCHANGED <<control, lights, numLeds, prevNumLeds>>
       \/ /\ discover = 0 /\ changed # 2 /\ numLeds # prevNumLeds
          /\ CLOUD_publishData(Message("attr", Off))
          /\ prevNumLeds' = numLeds
          /\ changed' = IF changed \in {1, 3} THEN changed ELSE changed + 1
          /\ Callback(discover, haveAP)
          /\ UNCHANGED <<control, lights, numLeds>>
       \/ /\ discover = 0 /\ changed # 2 /\ numLeds = prevNumLeds
          /\ Callback(discover, haveAP)
          /\ UNCHANGED <<changed, control, lights, numLeds, prevNumLeds, mqtt>>

-----------------------------------------------------------------------------
(***************************************************************************)
(* cloudTask while the client is connected: a command that has come, then  *)
(* the PUBLISH that is to be sent.                                         *)
(***************************************************************************)

\* Mutant: a command is to be reported, and not to be shown.
receivedFromCloudUnshown ==
    /\ \/ control' = [control EXCEPT !.on = FALSE]
       \/ \E b \in Brightnesses : control' = [control EXCEPT !.on = TRUE, !.brightness = b]
       \/ \E c \in Colours : control' = [control EXCEPT !.on = TRUE, !.rgb = c.rgb,
                                         !.hue = c.hue, !.saturation = c.saturation]
       \/ control' = [control EXCEPT !.on = TRUE]
    /\ changed' = 2

\* Off, or on with a brightness, with a colour, or with neither.
receivedFromCloud ==
    /\ \/ control' = [control EXCEPT !.on = FALSE]
       \/ \E b \in Brightnesses : control' = [control EXCEPT !.on = TRUE, !.brightness = b]
       \/ \E c \in Colours : control' = [control EXCEPT !.on = TRUE, !.rgb = c.rgb,
                                         !.hue = c.hue, !.saturation = c.saturation]
       \/ control' = [control EXCEPT !.on = TRUE]
    /\ changed' = 3

\* Does the PUBLISH reach Home Assistant, is it taken and lost, or is it refused?
\* One that is refused leaves the client DISCONNECTED, and stays in its slot.
Transmit(sent, arrives) ==
    IF slot = Empty
    THEN sent /\ arrives /\ UNCHANGED mqtt
    ELSE /\ connected' = sent
         /\ slot' = IF sent THEN Empty ELSE slot
         /\ told' = IF sent /\ arrives /\ slot.kind = "state"
                    THEN [known |-> TRUE, report |-> slot.report] ELSE told
         /\ IF sent /\ slot.kind = "state" THEN lost' = ~arrives ELSE UNCHANGED lost

cloudTask ==
    /\ connected
    /\ receivedFromCloud \/ UNCHANGED <<changed, control>>
    /\ \E sent, arrives \in BOOLEAN : Transmit(sent, arrives)
    /\ Callback(discover, haveAP)
    /\ UNCHANGED <<lights, numLeds, prevNumLeds>>

-----------------------------------------------------------------------------
(***************************************************************************)
(* What else a callback does.                                              *)
(***************************************************************************)

\* The CLI command leds.
set_num_leds ==
    /\ numLeds' \in Leds
    /\ Callback(discover, haveAP)
    /\ UNCHANGED <<changed, control, lights, prevNumLeds, mqtt>>

\* A new session: MQTT_CreateConnectPacket drops what was to be sent.
Connect ==
    /\ haveAP /\ ~connected
    /\ connected' = TRUE
    /\ slot' = Empty
    /\ lost' = (lost \/ slot.kind = "state")
    /\ Callback(discover, haveAP)
    /\ UNCHANGED <<changed, control, lights, numLeds, prevNumLeds, told>>

Disconnect ==
    /\ connected /\ connected' = FALSE
    /\ Callback(discover, haveAP)
    /\ UNCHANGED <<changed, control, lights, numLeds, prevNumLeds, slot, told, lost>>

\* The access point is found, or lost: the client learns of that later.
WifiCallback ==
    /\ Callback(discover, ~haveAP)
    /\ UNCHANGED <<changed, control, lights, numLeds, prevNumLeds, mqtt>>

-----------------------------------------------------------------------------
LightNext ==
    \/ Update
    \/ NoCallback \/ sendToCloud \/ cloudTask \/ set_num_leds
    \/ Connect \/ Disconnect \/ WifiCallback

LightSpec == LightInit /\ [][LightNext]_lightVars

\* main() goes on; a client that can connect does; while it is connected its data task
\* and cloudTask get their turns (each is a timer of the superloop).
LightFairSpec ==
    /\ LightSpec
    /\ WF_lightVars(Update) /\ SF_lightVars(Connect)
    /\ SF_lightVars(sendToCloud) /\ SF_lightVars(cloudTask)

-----------------------------------------------------------------------------
(***************************************************************************)
(* Properties.                                                             *)
(***************************************************************************)

\* The light that a report describes: its colour scaled by its brightness.
Shown(report) ==
    [c \in Channels |-> IF report.on
                        THEN (report.rgb[c] * (1 + report.brightness)) \div 256 ELSE 0]

\* "Update neopixels before sending update" (main.c:196): what is reported is what the
\* LEDs show at that moment, although the command, the update and the report are made in
\* three places and the colour commanded is replaced by one computed anew.
ReportsWhatShows ==
    [][slot' # slot /\ slot'.kind = "state" => lights = Shown(slot'.report)]_lightVars

\* Home Assistant is not left with a wrong state: with nothing to report and no report
\* to be sent it has been told of the light as it is, or a report has been lost.
ToldTheTruth ==
    changed \in {0, 1} /\ slot.kind # "state" =>
        lost \/ (told.known /\ told.report = Report)

\* The last command is reported in the end, or its report is lost, if the access point
\* stays: no announcement, attribute or earlier report keeps it for ever.
TellsInTheEnd ==
    <>[]haveAP /\ <>[][changed' # 3]_lightVars
        => <>[](lost \/ (told.known /\ told.report = Report))

=============================================================================
