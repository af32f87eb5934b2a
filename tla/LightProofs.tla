---------------------------- MODULE LightProofs ----------------------------
(***************************************************************************)
(* Theorems about the light, for all colours, brightnesses and numbers of  *)
(* LEDs that can be commanded.                                             *)
(***************************************************************************)
EXTENDS Light, TLAPS

(***************************************************************************)
(* The arithmetic of the colours.                                          *)
(***************************************************************************)

\* A product of two factors is at most the product of their bounds.
LEMMA ProductBound ==
    ASSUME NEW a \in Nat, NEW b \in Nat, NEW m \in Nat, NEW n \in Nat, a <= m, b <= n
    PROVE  a * b \in 0..(m * n)
<1>1. a * b <= m * b /\ m * b <= m * n /\ a * b >= 0
  OBVIOUS
<1> QED
  BY <1>1

\* Each channel of a colour is what it was made of.
LEMMA ColourTyped ==
    ASSUME NEW red \in Byte, NEW green \in Byte, NEW blue \in Byte
    PROVE  Colour(red, green, blue) \in [Channels -> Byte]
  BY DEF Colour, Channels

\* No slice of the wheel, nor its ends, leaves the range of a uint8_t.
LEMMA WheelTyped == \A hue \in 0..HueMax : Wheel(hue) \in [Channels -> Byte]
<1> TAKE hue \in 0..HueMax
<1>0. hue \in Nat /\ 0 \in Byte /\ 255 \in Byte
  BY DEF HueMax, Byte
<1>1. CASE hue < 255
  <2>1. Wheel(hue) = Colour(255, hue, 0)
    BY <1>0, <1>1 DEF Wheel
  <2>2. hue \in Byte
    BY <1>0, <1>1 DEF Byte
  <2> QED
    BY <1>0, <2>1, <2>2, ColourTyped
<1>2. CASE 255 <= hue /\ hue < 510
  <2>1. Wheel(hue) = Colour(510 - hue, 255, 0)
    BY <1>0, <1>2 DEF Wheel
  <2>2. 510 - hue \in Byte
    BY <1>0, <1>2 DEF Byte
  <2> QED
    BY <1>0, <2>1, <2>2, ColourTyped
<1>3. CASE 510 <= hue /\ hue < 765
  <2>1. Wheel(hue) = Colour(0, 255, hue - 510)
    BY <1>0, <1>3 DEF Wheel
  <2>2. hue - 510 \in Byte
    BY <1>0, <1>3 DEF Byte
  <2> QED
    BY <1>0, <2>1, <2>2, ColourTyped
<1>4. CASE 765 <= hue /\ hue < 1020
  <2>1. Wheel(hue) = Colour(0, 1020 - hue, 255)
    BY <1>0, <1>4 DEF Wheel
  <2>2. 1020 - hue \in Byte
    BY <1>0, <1>4 DEF Byte
  <2> QED
    BY <1>0, <2>1, <2>2, ColourTyped
<1>5. CASE 1020 <= hue /\ hue < 1275
  <2>1. Wheel(hue) = Colour(hue - 1020, 0, 255)
    BY <1>0, <1>5 DEF Wheel
  <2>2. hue - 1020 \in Byte
    BY <1>0, <1>5 DEF Byte
  <2> QED
    BY <1>0, <2>1, <2>2, ColourTyped
<1>6. CASE 1275 <= hue /\ hue < 1530
  <2>1. Wheel(hue) = Colour(255, 0, 1530 - hue)
    BY <1>0, <1>6 DEF Wheel
  <2>2. 1530 - hue \in Byte
    BY <1>0, <1>6 DEF Byte
  <2> QED
    BY <1>0, <2>1, <2>2, ColourTyped
<1>7. CASE 1530 <= hue
  <2>1. Wheel(hue) = Colour(255, 0, 0)
    BY <1>0, <1>7 DEF Wheel
  <2> QED
    BY <1>0, <2>1, ColourTyped
<1> QED
  BY <1>0, <1>1, <1>2, <1>3, <1>4, <1>5, <1>6, <1>7

\* The product with the saturation fits in 16 bits, and the sum in 8.
LEMMA SaturatedFits ==
    ASSUME NEW channel \in Byte, NEW sat \in Byte
    PROVE  /\ channel * (1 + sat) < 65536
           /\ Saturated(channel, sat) \in Byte
           /\ Saturated(channel, sat) = (channel * (1 + sat)) \div 256 + (255 - sat)
<1> DEFINE product == channel * (1 + sat)
<1>1. product \in 0..(255 * (1 + sat))
  BY ProductBound DEF Byte
<1>2. product < 65536 /\ product \in Nat
  BY <1>1 DEF Byte
<1>3. product % 65536 = product
  BY <1>2
<1>4. product \div 256 \in 0..sat
  BY <1>1 DEF Byte
<1> QED
  BY <1>2, <1>3, <1>4 DEF Saturated, Byte

\* Cutting the product with the value to a uint8_t cuts nothing off.
LEMMA ValuedFits ==
    ASSUME NEW channel \in Byte, NEW val \in Byte
    PROVE  /\ Valued(channel, val) \in Byte
           /\ Valued(channel, val) = (channel * (1 + val)) \div 256
           /\ Valued(channel, 255) = channel
<1> DEFINE product == channel * (1 + val)
<1>1. product \in 0..(255 * (1 + val))
  BY ProductBound DEF Byte
<1>2. product \div 256 \in 0..255
  BY <1>1 DEF Byte
<1>3. (product \div 256) % 256 = product \div 256
  BY <1>2
<1>4. (channel * (1 + 255)) \div 256 = channel /\ channel % 256 = channel
  BY DEF Byte
<1> QED
  BY <1>2, <1>3, <1>4 DEF Valued, Byte

\* The conversion of NeoPixel_HSV_Adafruit_Float overflows nowhere, for every hue,
\* saturation and value, and a darker light has the colour of the bright one, scaled.
THEOREM ColoursFit ==
    \A hue \in 0..HueMax, sat \in Byte, val \in Byte :
        /\ HSV(hue, sat, val) \in [Channels -> Byte]
        /\ \A c \in Channels :
              /\ Wheel(hue)[c] * (1 + sat) < 65536
              /\ HSV(hue, sat, val)[c] = (HSV(hue, sat, 255)[c] * (1 + val)) \div 256
<1> TAKE hue \in 0..HueMax, sat \in Byte, val \in Byte
<1>1. \A c \in Channels : Wheel(hue)[c] \in Byte
  BY WheelTyped
<1>2. ASSUME NEW c \in Channels
      PROVE  /\ Wheel(hue)[c] * (1 + sat) < 65536
             /\ HSV(hue, sat, val)[c] \in Byte
             /\ HSV(hue, sat, val)[c] = (HSV(hue, sat, 255)[c] * (1 + val)) \div 256
  <2>1. Wheel(hue)[c] \in Byte
    BY <1>1
  <2>2. Wheel(hue)[c] * (1 + sat) < 65536 /\ Saturated(Wheel(hue)[c], sat) \in Byte
    BY <2>1, SaturatedFits
  <2>3. /\ HSV(hue, sat, val)[c] = Valued(Saturated(Wheel(hue)[c], sat), val)
        /\ HSV(hue, sat, 255)[c] = Valued(Saturated(Wheel(hue)[c], sat), 255)
    BY DEF HSV
  <2> QED
    BY <2>2, <2>3, ValuedFits
<1>3. HSV(hue, sat, val) \in [Channels -> Byte]
  BY <1>2 DEF HSV
<1> QED
  BY <1>2, <1>3

-----------------------------------------------------------------------------
(***************************************************************************)
(* The light is well typed.  The types are split: what is Boolean, the     *)
(* light itself, and the slot with what Home Assistant knows.              *)
(***************************************************************************)

BooleansOK == connected \in BOOLEAN /\ haveAP \in BOOLEAN /\ lost \in BOOLEAN

StateOK ==
    /\ changed \in 0..3
    /\ control \in Control
    /\ lights \in [Channels -> Byte]
    /\ discover \in 0..MaxDiscover
    /\ numLeds \in Leds
    /\ prevNumLeds \in Leds \cup {0}
    /\ step \in {"update", "callback"}

ReportsOK ==
    /\ slot \in Messages
    /\ told \in [known : BOOLEAN, report : Reports]

\* The parts are the type invariant.
LEMMA TypeParts == LightTypeOK <=> BooleansOK /\ StateOK /\ ReportsOK
  BY DEF LightTypeOK, BooleansOK, StateOK, ReportsOK

\* A light that is off, or has been commanded, is reported within the types.
LEMMA ReportTyped == control \in Control => Report \in Reports /\ Off \in Reports
<1>1. Black \in [Channels -> Byte]
  BY DEF Black, Byte
<1>2. Off \in Reports
  BY <1>1 DEF Off, Reports, Byte
<1> QED
  BY <1>2 DEF Report, Control, Reports

\* The light that main() starts with is well typed.
LEMMA TypeInit == LightInit => BooleansOK /\ StateOK /\ ReportsOK
<1> SUFFICES ASSUME LightInit PROVE BooleansOK /\ StateOK /\ ReportsOK
  OBVIOUS
<1>1. Black \in [Channels -> Byte]
  BY DEF Black, Byte
<1>2. BooleansOK
  BY DEF LightInit, BooleansOK
<1>3. control \in Control
  BY <1>1 DEF LightInit, Control, Byte, HueMax
<1>4. StateOK
  <2>1. MaxDiscover \in 0..MaxDiscover
    BY LightAssumption
  <2> QED
    BY <1>1, <1>3, <2>1 DEF LightInit, StateOK
<1>5. ReportsOK
  BY <1>3, ReportTyped DEF LightInit, ReportsOK, Empty, Message, Messages
<1> QED
  BY <1>2, <1>4, <1>5

\* The Boolean variables stay Boolean.
LEMMA BooleansStep == BooleansOK /\ [LightNext]_lightVars => BooleansOK'
<1> SUFFICES ASSUME BooleansOK, [LightNext]_lightVars PROVE BooleansOK'
  OBVIOUS
<1> USE DEF LightNext, Update, NoCallback, sendToCloud, CLOUD_publishData, cloudTask, Transmit,
            set_num_leds, Connect, Disconnect, WifiCallback, Callback, lightVars, mqtt
<1>1. connected' \in BOOLEAN
  BY DEF BooleansOK
<1>2. haveAP' \in BOOLEAN
  <2>1. haveAP' = haveAP \/ haveAP' = ~haveAP
    OBVIOUS
  <2> QED
    BY <2>1 DEF BooleansOK
<1>3. lost' \in BOOLEAN
  <2>1. \/ lost' = lost
        \/ \E kind : lost' = (lost \/ (slot.kind = "state" /\ kind # "state"))
        \/ lost' = (lost \/ slot.kind = "state")
        \/ \E arrives \in BOOLEAN : lost' = ~arrives
    OBVIOUS
  <2> QED
    BY <2>1 DEF BooleansOK
<1> QED
  BY <1>1, <1>2, <1>3 DEF BooleansOK

\* What a command leaves of the light.
LEMMA CommandTyped ==
    ASSUME control \in Control, receivedFromCloud
    PROVE  control' \in Control /\ changed' = 3
<1>1. \A b \in Brightnesses : b \in Byte
  BY LightAssumption
<1>2. \A c \in Colours : c \in ColourCommand
  BY LightAssumption
<1>3. CASE control' = [control EXCEPT !.on = FALSE] \/ control' = [control EXCEPT !.on = TRUE]
  BY <1>3 DEF Control, receivedFromCloud
<1>4. ASSUME NEW b \in Brightnesses,
             control' = [control EXCEPT !.on = TRUE, !.brightness = b]
      PROVE  control' \in Control
  BY <1>1, <1>4 DEF Control
<1>5. ASSUME NEW c \in Colours,
             control' = [control EXCEPT !.on = TRUE, !.rgb = c.rgb, !.hue = c.hue,
                                        !.saturation = c.saturation]
      PROVE  control' \in Control
  BY <1>2, <1>5 DEF Control, ColourCommand
<1> QED
  BY <1>3, <1>4, <1>5 DEF receivedFromCloud

\* An update of the LEDs computes colours that fit.
LEMMA UpdateTyped ==
    ASSUME control \in Control, update_led_config
    PROVE  control' \in Control /\ lights' \in [Channels -> Byte]
<1>1. /\ control.hue \in 0..HueMax /\ control.saturation \in Byte
      /\ control.brightness \in Byte /\ 255 \in Byte
  BY DEF Control, Byte
<1>2. /\ HSV(control.hue, control.saturation, 255) \in [Channels -> Byte]
      /\ HSV(control.hue, control.saturation, control.brightness) \in [Channels -> Byte]
  <2>1. \A hue \in 0..HueMax, sat \in Byte, val \in Byte :
            HSV(hue, sat, val) \in [Channels -> Byte]
    BY ColoursFit
  <2> QED
    BY <1>1, <2>1
<1>3. Black \in [Channels -> Byte]
  BY DEF Black, Byte
<1> QED
  BY <1>2, <1>3 DEF update_led_config, Control

\* The light and its announcement stay within their types.
LEMMA StateStep == StateOK /\ [LightNext]_lightVars => StateOK'
<1> SUFFICES ASSUME StateOK, [LightNext]_lightVars PROVE StateOK'
  OBVIOUS
<1> USE DEF StateOK
<1>1. MaxDiscover \in Nat
  BY LightAssumption
<1>2. ASSUME NEW rounds \in 0..MaxDiscover, NEW ap, Callback(rounds, ap)
      PROVE  step' = "update" /\ discover' \in 0..MaxDiscover
  BY <1>1, <1>2 DEF Callback
<1>3. CASE Update
  <2>1. changed' \in 0..3 /\ step' = "callback"
    BY <1>3 DEF Update
  <2>2. control' \in Control /\ lights' \in [Channels -> Byte]
    BY <1>3, UpdateTyped DEF Update
  <2> QED
    BY <1>3, <2>1, <2>2 DEF Update
<1>4. CASE NoCallback \/ Connect \/ Disconnect \/ WifiCallback \/ set_num_leds
  <2>1. \E ap : Callback(discover, ap)
    BY <1>4 DEF NoCallback, Connect, Disconnect, WifiCallback, set_num_leds
  <2> QED
    BY <1>2, <1>4, <2>1 DEF NoCallback, Connect, Disconnect, WifiCallback, set_num_leds
<1>5. CASE sendToCloud
  <2>1. \E rounds \in 0..MaxDiscover : \E ap : Callback(rounds, ap)
    <3>1. discover > 0 => discover - 1 \in 0..MaxDiscover
      BY <1>1
    <3> QED
      BY <1>5, <3>1 DEF sendToCloud
  <2>2. step' = "update" /\ discover' \in 0..MaxDiscover
    BY <1>2, <2>1
  <2>3. changed' \in 0..3
    <3>1. changed' \in {changed, 0} \/ (changed \notin {1, 2, 3} /\ changed' = changed + 1)
      BY <1>5 DEF sendToCloud
    <3> QED
      BY <3>1
  <2>4. UNCHANGED <<control, lights, numLeds>> /\ prevNumLeds' \in {prevNumLeds, numLeds}
    BY <1>5 DEF sendToCloud
  <2> QED
    BY <2>2, <2>3, <2>4
<1>6. CASE cloudTask
  <2>1. step' = "update" /\ discover' \in 0..MaxDiscover
    BY <1>2, <1>6 DEF cloudTask
  <2>2. control' \in Control /\ changed' \in 0..3
    BY <1>6, CommandTyped DEF cloudTask
  <2> QED
    BY <1>6, <2>1, <2>2 DEF cloudTask
<1>7. CASE UNCHANGED lightVars
  BY <1>7 DEF lightVars, light
<1> QED
  BY <1>3, <1>4, <1>5, <1>6, <1>7 DEF LightNext

\* What is in the slot, and what has come of it, stays within its types.
LEMMA ReportsStep == StateOK /\ ReportsOK /\ [LightNext]_lightVars => ReportsOK'
<1> SUFFICES ASSUME StateOK, ReportsOK, [LightNext]_lightVars PROVE ReportsOK'
  OBVIOUS
<1>1. Report \in Reports /\ Off \in Reports
  BY ReportTyped DEF StateOK
<1>2. ASSUME UNCHANGED <<slot, told>> PROVE ReportsOK'
  BY <1>2 DEF ReportsOK
<1>3. CASE Update \/ NoCallback \/ Disconnect \/ WifiCallback \/ set_num_leds
           \/ UNCHANGED lightVars
  BY <1>2, <1>3 DEF Update, NoCallback, Disconnect, WifiCallback, set_num_leds, lightVars, mqtt
<1>4. CASE sendToCloud
  <2>1. told' = told
    BY <1>4 DEF sendToCloud, CLOUD_publishData, mqtt
  <2>2. \/ slot' = slot
        \/ slot' = Message("config", Off) \/ slot' = Message("attr", Off)
        \/ slot' = Message("state", Report)
    BY <1>4 DEF sendToCloud, CLOUD_publishData, mqtt
  <2>3. slot' \in Messages
    BY <1>1, <2>2 DEF ReportsOK, Message, Messages
  <2> QED
    BY <2>1, <2>3 DEF ReportsOK
<1>5. CASE cloudTask
  <2>1. PICK sent \in BOOLEAN, arrives \in BOOLEAN : Transmit(sent, arrives)
    BY <1>5 DEF cloudTask
  <2>2. slot' = slot \/ slot' = Message("none", Off)
    BY <2>1 DEF Transmit, mqtt, Empty
  <2>3. slot' \in Messages
    BY <1>1, <2>2 DEF ReportsOK, Message, Messages
  <2>4. told' = told \/ told' = [known |-> TRUE, report |-> slot.report]
    BY <2>1 DEF Transmit, mqtt
  <2>5. slot.report \in Reports /\ told \in [known : BOOLEAN, report : Reports]
    BY DEF ReportsOK, Messages
  <2>6. told' \in [known : BOOLEAN, report : Reports]
    <3>1. ASSUME NEW r \in Reports
          PROVE  [known |-> TRUE, report |-> r] \in [known : BOOLEAN, report : Reports]
      OBVIOUS
    <3> QED
      BY <2>4, <2>5, <3>1, Zenon
  <2> QED
    BY <2>3, <2>6 DEF ReportsOK
<1>6. CASE Connect
  <2>1. slot' = Message("none", Off) /\ told' = told
    BY <1>6 DEF Connect, Empty
  <2> QED
    BY <1>1, <2>1 DEF ReportsOK, Message, Messages
<1> QED
  BY <1>3, <1>4, <1>5, <1>6 DEF LightNext

\* The light of main.c is well typed, whatever is commanded: no colour that is computed
\* from a hue, a saturation and a brightness leaves the range of its bytes.
THEOREM LightTypeCorrect == LightSpec => []LightTypeOK
<1>1. LightInit => BooleansOK /\ StateOK /\ ReportsOK
  BY TypeInit
<1>2. BooleansOK /\ StateOK /\ ReportsOK /\ [LightNext]_lightVars
        => BooleansOK' /\ StateOK' /\ ReportsOK'
  BY BooleansStep, StateStep, ReportsStep
<1>3. BooleansOK /\ StateOK /\ ReportsOK => LightTypeOK
  BY TypeParts
<1> QED
  BY <1>1, <1>2, <1>3, PTL DEF LightSpec

-----------------------------------------------------------------------------
(***************************************************************************)
(* What is shown, reported and believed.  Between commands the colour that *)
(* would be reported is the one computed from hue and saturation, the LEDs *)
(* show it, and a report that waits to be sent is of the light as it is.   *)
(***************************************************************************)

ShownInv ==
    changed # 3 =>
        /\ control.on => control.rgb = HSV(control.hue, control.saturation, 255)
        /\ lights = Shown(Report)

SettledInv ==
    /\ step = "callback" => changed \in {0, 2}
    /\ changed \in {0, 1} =>
          IF slot.kind = "state" THEN slot.report = Report
          ELSE lost \/ (told.known /\ told.report = Report)

\* A light that has been updated shows what it would report.
LEMMA UpdateShown ==
    ASSUME control \in Control, update_led_config
    PROVE  /\ control'.on => control'.rgb = HSV(control'.hue, control'.saturation, 255)
           /\ lights' = Shown(Report')
<1>1. CASE control.on
  <2>1. /\ control' = [control EXCEPT !.rgb = HSV(control.hue, control.saturation, 255)]
        /\ lights' = HSV(control.hue, control.saturation, control.brightness)
    BY <1>1 DEF update_led_config
  <2>2. /\ control'.on /\ control'.hue = control.hue
        /\ control'.saturation = control.saturation
        /\ control'.brightness = control.brightness
        /\ control'.rgb = HSV(control.hue, control.saturation, 255)
    BY <1>1, <2>1 DEF Control
  <2>3. Report' = [on |-> TRUE, brightness |-> control.brightness,
                   rgb |-> HSV(control.hue, control.saturation, 255)]
    BY <2>2 DEF Report
  <2>4. /\ control.hue \in 0..HueMax /\ control.saturation \in Byte
        /\ control.brightness \in Byte
    BY DEF Control
  <2>5. \A c \in Channels :
            lights'[c] = (HSV(control.hue, control.saturation, 255)[c]
                            * (1 + control.brightness)) \div 256
    <3>1. \A hue \in 0..HueMax, sat \in Byte, val \in Byte, c \in Channels :
              HSV(hue, sat, val)[c] = (HSV(hue, sat, 255)[c] * (1 + val)) \div 256
      BY ColoursFit
    <3> QED
      BY <2>1, <2>4, <3>1
  <2>6. lights' = [c \in Channels |-> lights'[c]]
    BY <2>1 DEF HSV
  <2>7. Shown(Report') = [c \in Channels |->
                            (HSV(control.hue, control.saturation, 255)[c]
                                * (1 + control.brightness)) \div 256]
    BY <2>3 DEF Shown
  <2> QED
    BY <2>2, <2>5, <2>6, <2>7
<1>2. CASE ~control.on
  <2>1. lights' = Black /\ control' = control
    BY <1>2 DEF update_led_config
  <2>2. Report' = Off
    BY <1>2, <2>1 DEF Report
  <2> QED
    BY <1>2, <2>1, <2>2 DEF Shown, Off, Black
<1> QED
  BY <1>1, <1>2

\* An update changes nothing of a report if no command has come since the last one.
LEMMA UpdateKeepsReport ==
    ASSUME control \in Control, update_led_config,
           control.on => control.rgb = HSV(control.hue, control.saturation, 255)
    PROVE  Report' = Report
<1>1. CASE control.on
  <2>1. control' = [control EXCEPT !.rgb = control.rgb]
    BY <1>1 DEF update_led_config
  <2>2. control' = control
    BY <2>1 DEF Control
  <2> QED
    BY <2>2 DEF Report
<1>2. CASE ~control.on
  BY <1>2 DEF update_led_config, Report
<1> QED
  BY <1>1, <1>2

\* A step that neither commands nor updates leaves the light and its report alone, and
\* sets bit 0 of changed only of a light that is up to date.
LEMMA ShownStep == StateOK /\ ShownInv /\ [LightNext]_lightVars => ShownInv'
<1> SUFFICES ASSUME StateOK, ShownInv, [LightNext]_lightVars PROVE ShownInv'
  OBVIOUS
<1>0. control \in Control /\ changed \in 0..3
  BY DEF StateOK
<1>1. ASSUME UNCHANGED <<control, lights>>, changed' # 3 => changed # 3 PROVE ShownInv'
  BY <1>1 DEF ShownInv, Report
<1>2. CASE Update
  <2>1. CASE changed \in {1, 3}
    <3>1. update_led_config
      BY <1>2, <2>1 DEF Update
    <3> QED
      BY <1>0, <3>1, UpdateShown DEF ShownInv
  <2>2. CASE changed \notin {1, 3}
    BY <1>1, <1>2, <2>2 DEF Update
  <2> QED
    BY <2>1, <2>2
<1>3. CASE sendToCloud
  <2>1. UNCHANGED <<control, lights>>
    BY <1>3 DEF sendToCloud
  <2>2. changed' # 3 => changed # 3
    <3>1. changed' = changed \/ changed = 2 \/ changed \notin {1, 3}
      BY <1>3 DEF sendToCloud
    <3> QED
      BY <3>1
  <2> QED
    BY <1>1, <2>1, <2>2
<1>4. CASE cloudTask
  <2>1. CASE receivedFromCloud
    BY <1>0, <2>1, CommandTyped DEF ShownInv
  <2>2. CASE UNCHANGED <<changed, control>>
    BY <1>1, <1>4, <2>2 DEF cloudTask
  <2> QED
    BY <1>4, <2>1, <2>2 DEF cloudTask
<1>5. CASE \/ NoCallback \/ Connect \/ Disconnect \/ WifiCallback \/ set_num_leds
           \/ UNCHANGED lightVars
  BY <1>1, <1>5 DEF NoCallback, Connect, Disconnect, WifiCallback, set_num_leds, lightVars, light
<1> QED
  BY <1>2, <1>3, <1>4, <1>5 DEF LightNext

\* The light that main() starts with is dark, and is to be shown and to be reported.
LEMMA ShownInit == LightInit => ShownInv /\ SettledInv
  BY DEF LightInit, ShownInv, SettledInv

\* What the LEDs show is what would be reported, whenever no command is new.
LEMMA ShownHolds == LightSpec => [](StateOK /\ ShownInv)
<1>1. LightInit => StateOK /\ ShownInv
  BY TypeInit, ShownInit
<1>2. StateOK /\ ShownInv /\ [LightNext]_lightVars => StateOK' /\ ShownInv'
  BY StateStep, ShownStep
<1> QED
  BY <1>1, <1>2, PTL DEF LightSpec

\* A state report is written only by sendToCloud, of a light that has been updated.
THEOREM ReportsTheShown == LightSpec => ReportsWhatShows
<1>1. ASSUME StateOK, ShownInv, [LightNext]_lightVars, slot' # slot, slot'.kind = "state"
      PROVE  lights = Shown(slot'.report)
  <2>1. ~(\E message : slot' = Message("config", message) \/ slot' = Message("attr", message))
    BY <1>1 DEF Message
  <2>2. slot' # Empty
    BY <1>1 DEF Empty, Message
  <2>3. sendToCloud
    BY <1>1, <2>2 DEF LightNext, Update, NoCallback, cloudTask, Transmit, set_num_leds, Connect,
                      Disconnect, WifiCallback, lightVars, mqtt
  <2>4. changed = 2 /\ slot' = Message("state", Report)
    BY <1>1, <2>1, <2>3 DEF sendToCloud, CLOUD_publishData, mqtt
  <2>5. slot'.report = Report
    BY <2>4 DEF Message
  <2> QED
    BY <1>1, <2>4, <2>5 DEF ShownInv
<1>2. StateOK /\ ShownInv /\ [LightNext]_lightVars =>
        [slot' # slot /\ slot'.kind = "state" => lights = Shown(slot'.report)]_lightVars
  BY <1>1
<1> QED
  BY <1>2, ShownHolds, PTL DEF LightSpec, ReportsWhatShows

\* What SettledInv says of the slot and of Home Assistant.
SlotSettled ==
    IF slot.kind = "state" THEN slot.report = Report
    ELSE lost \/ (told.known /\ told.report = Report)

\* A slot that is overwritten or dropped, with its report counted as lost, leaves Home
\* Assistant told the truth or a report lost.
LEMMA SlotDropped ==
    ASSUME SlotSettled, UNCHANGED <<control, told>>, slot'.kind # "state",
           lost' = (lost \/ slot.kind = "state")
    PROVE  SlotSettled'
<1>1. Report' = Report
  BY DEF Report
<1>2. CASE slot.kind = "state"
  <2>1. lost'
    BY <1>2
  <2> QED
    BY <2>1 DEF SlotSettled
<1>3. CASE slot.kind # "state"
  BY <1>1, <1>3 DEF SlotSettled
<1> QED
  BY <1>2, <1>3

\* Sending it, or failing to, keeps the account of what Home Assistant knows.
LEMMA SlotSent ==
    ASSUME SlotSettled, UNCHANGED control,
           NEW sent \in BOOLEAN, NEW arrives \in BOOLEAN, Transmit(sent, arrives)
    PROVE  SlotSettled'
<1>1. Report' = Report
  BY DEF Report
<1>2. CASE slot = Empty \/ ~sent
  <2>1. UNCHANGED <<slot, told, lost>>
    BY <1>2 DEF Transmit, mqtt
  <2> QED
    BY <1>1, <2>1 DEF SlotSettled
<1>3. CASE slot # Empty /\ sent
  <2>1. slot' = Empty
    BY <1>3 DEF Transmit
  <2>2. slot'.kind # "state"
    <3>1. Empty.kind = "none"
      BY DEF Empty, Message
    <3> QED
      BY <2>1, <3>1
  <2>3. CASE slot.kind # "state"
    <3>1. UNCHANGED <<told, lost>>
      BY <1>3, <2>3 DEF Transmit
    <3> QED
      BY <1>1, <2>2, <2>3, <3>1 DEF SlotSettled
  <2>4. CASE slot.kind = "state" /\ arrives
    <3>1. told' = [known |-> TRUE, report |-> slot.report]
      BY <1>3, <2>4 DEF Transmit
    <3>2. told'.known /\ told'.report = Report
      BY <2>4, <3>1 DEF SlotSettled
    <3> QED
      BY <1>1, <2>2, <3>2 DEF SlotSettled
  <2>5. CASE slot.kind = "state" /\ ~arrives
    <3>1. lost'
      BY <1>3, <2>5 DEF Transmit
    <3> QED
      BY <2>2, <3>1 DEF SlotSettled
  <2> QED
    BY <2>3, <2>4, <2>5
<1> QED
  BY <1>2, <1>3

\* Every step of main() and of its callbacks keeps the account.
LEMMA SettledStep ==
    StateOK /\ ShownInv /\ SettledInv /\ [LightNext]_lightVars => SettledInv'
<1> SUFFICES ASSUME StateOK, ShownInv, SettledInv, [LightNext]_lightVars PROVE SettledInv'
  OBVIOUS
<1>1. /\ changed \in {0, 1} => SlotSettled
      /\ step = "callback" => changed \in {0, 2}
      /\ control \in Control /\ changed \in {0, 1, 2, 3}
  BY DEF SettledInv, SlotSettled, StateOK
<1>2. ASSUME step' = "update", changed' \in {0, 1} => SlotSettled' PROVE SettledInv'
  BY <1>2 DEF SettledInv, SlotSettled
<1>3. ASSUME UNCHANGED <<control, slot, told, lost>>, SlotSettled PROVE SlotSettled'
  BY <1>3 DEF SlotSettled, Report
<1>4. CASE Update
  <2>1. UNCHANGED <<slot, told, lost>> /\ step' = "callback"
    BY <1>4 DEF Update, mqtt
  <2>2. CASE changed = 3
    BY <1>4, <2>1, <2>2 DEF Update, SettledInv
  <2>3. CASE changed = 1
    <3>1. update_led_config /\ changed' = 0
      BY <1>4, <2>3 DEF Update
    <3>2. Report' = Report
      BY <1>1, <2>3, <3>1, UpdateKeepsReport DEF ShownInv
    <3> QED
      BY <2>1, <2>3, <3>1, <3>2 DEF SettledInv
  <2>4. CASE changed \in {0, 2}
    <3>1. UNCHANGED <<changed, control>>
      BY <1>4, <2>4 DEF Update
    <3> QED
      BY <2>1, <2>4, <3>1 DEF SettledInv, Report
  <2> QED
    BY <1>1, <2>2, <2>3, <2>4
<1>5. CASE NoCallback \/ Disconnect \/ WifiCallback \/ set_num_leds
  <2>1. step' = "update" /\ UNCHANGED <<changed, control, slot, told, lost>>
    BY <1>5 DEF NoCallback, Disconnect, WifiCallback, set_num_leds, Callback, mqtt
  <2> QED
    BY <1>1, <1>2, <1>3, <2>1
<1>6. CASE Connect
  <2>1. /\ step' = "update" /\ UNCHANGED <<changed, control, told>>
        /\ slot'.kind # "state" /\ lost' = (lost \/ slot.kind = "state")
    BY <1>6 DEF Connect, Callback, Empty, Message
  <2> QED
    BY <1>1, <1>2, <2>1, SlotDropped
<1>7. CASE sendToCloud
  <2>1. /\ step = "callback" /\ step' = "update"
        /\ UNCHANGED <<control, told>>
    BY <1>7 DEF sendToCloud, Callback, CLOUD_publishData, mqtt
  <2>2. CASE changed' = 0 /\ slot' = Message("state", Report)
    <3>1. slot'.kind = "state" /\ slot'.report = Report /\ Report' = Report
      BY <2>1, <2>2 DEF Message, Report
    <3> QED
      BY <1>2, <2>1, <3>1 DEF SlotSettled
  <2>3. CASE /\ changed = 0 \/ changed' = changed
             /\ slot' = Message("config", Off) \/ slot' = Message("attr", Off)
             /\ lost' = (lost \/ slot.kind = "state")
    <3>1. slot'.kind # "state"
      BY <2>3 DEF Message
    <3>2. changed' \in {0, 1} => SlotSettled
      BY <1>1, <2>3
    <3> QED
      BY <1>2, <2>1, <2>3, <3>1, <3>2, SlotDropped
  <2>4. CASE UNCHANGED <<changed, slot, lost>>
    BY <1>1, <1>2, <1>3, <2>1, <2>4
  <2>5. ASSUME NEW kind \in {"config", "attr"}, CLOUD_publishData(Message(kind, Off))
        PROVE  slot' = Message(kind, Off) /\ lost' = (lost \/ slot.kind = "state")
    BY <2>5 DEF CLOUD_publishData, Message
  <2>6. CASE discover > 0 /\ UNCHANGED changed
             /\ (CLOUD_publishData(Message("config", Off)) \/ UNCHANGED mqtt)
    BY <2>3, <2>4, <2>5, <2>6 DEF mqtt
  <2>7. CASE changed \in {0, 2} /\ changed # 2 /\ CLOUD_publishData(Message("attr", Off))
    BY <2>3, <2>5, <2>7
  <2> QED
    BY <1>1, <1>7, <2>1, <2>2, <2>4, <2>6, <2>7 DEF sendToCloud, CLOUD_publishData, mqtt
<1>8. CASE cloudTask
  <2>1. step' = "update"
    BY <1>8 DEF cloudTask, Callback
  <2>2. CASE receivedFromCloud
    BY <1>1, <1>2, <2>1, <2>2, CommandTyped
  <2>3. CASE UNCHANGED <<changed, control>>
    <3>1. PICK sent \in BOOLEAN, arrives \in BOOLEAN : Transmit(sent, arrives)
      BY <1>8 DEF cloudTask
    <3> QED
      BY <1>1, <1>2, <2>1, <2>3, <3>1, SlotSent
  <2> QED
    BY <1>8, <2>2, <2>3 DEF cloudTask
<1>9. CASE UNCHANGED lightVars
  BY <1>9 DEF lightVars, light, mqtt, SettledInv, Report
<1> QED
  BY <1>4, <1>5, <1>6, <1>7, <1>8, <1>9 DEF LightNext

\* Home Assistant is never left with a wrong state: with nothing to report and no report
\* to be sent, it was told of the light as it is, or a report was lost on the way.
THEOREM TellsTheTruth == LightSpec => []ToldTheTruth
<1>1. LightInit => SettledInv
  BY ShownInit
<1>2. StateOK /\ ShownInv /\ SettledInv /\ [LightNext]_lightVars => SettledInv'
  BY SettledStep
<1>3. SettledInv => ToldTheTruth
  BY DEF SettledInv, ToldTheTruth
<1> QED
  BY <1>1, <1>2, <1>3, ShownHolds, PTL DEF LightSpec

=============================================================================
