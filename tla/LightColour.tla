---------------------------- MODULE LightColour ----------------------------
(***************************************************************************)
(* The colours of the light: NeoPixel_HSV_Adafruit_Float of main.c, after  *)
(* its rounding of hue and saturation, in the widths of the code.  uint8_t *)
(* operands are promoted to the 16 bits of an int of the AVR.              *)
(***************************************************************************)
EXTENDS Integers

HueMax == 1530
Byte == 0..255
Channels == {"r", "g", "b"}
Black == [c \in Channels |-> 0]

Colour(red, green, blue) ==
    [c \in Channels |-> CASE c = "r" -> red [] c = "g" -> green [] c = "b" -> blue]

\* The six slices of the colour wheel, from red over green and blue to red again.
Wheel(hue) ==
    IF hue < 255 THEN Colour(255, hue, 0)
    ELSE IF hue < 510 THEN Colour(510 - hue, 255, 0)
    ELSE IF hue < 765 THEN Colour(0, 255, hue - 510)
    ELSE IF hue < 1020 THEN Colour(0, 1020 - hue, 255)
    ELSE IF hue < 1275 THEN Colour(hue - 1020, 0, 255)
    ELSE IF hue < 1530 THEN Colour(255, 0, 1530 - hue)
    ELSE Colour(255, 0, 0)

\* A channel with its saturation: in 16 bits.
Saturated(channel, sat) == ((channel * (1 + sat)) % 65536) \div 256 + (255 - sat)

\* And its value: in 32 bits, cut to a uint8_t.
Valued(channel, val) == ((channel * (1 + val)) \div 256) % 256

HSV(hue, sat, val) ==
    [c \in Channels |-> Valued(Saturated(Wheel(hue)[c], sat), val)]

=============================================================================
