------------------------------ MODULE Keyboard ------------------------------
(***************************************************************************)
(* The keyboard's driver (src/kernel/devices/keyboard).  Every code of the *)
(* keyboard is an interrupt; Keyboard_GetChar keeps the state of the       *)
(* modifier keys in the bits of shift and turns the codes of a key into a  *)
(* character, which the handler prints.                                    *)
(*                                                                         *)
(* External is the keyboard: pressing a key, again while it is held down,  *)
(* sends its make codes and releasing it its break codes, those of one key *)
(* after those of another.  Of the maps of characters only the keys the    *)
(* console tells apart are kept, one glyph for all others.                 *)
(***************************************************************************)
EXTENDS Integers, Sequences, FiniteSets

CONSTANTS Keys,      \* records: the codes make and break of a key
          MaxHeld    \* bound: keys held down at a time

VARIABLES shift,   \* the static variable of Keyboard_GetChar, a set of bits
          held,    \* the keys that are down
          sent     \* codes on their way

keyboardvars == <<shift, held, sent>>

Codes == 0 .. 255

(* The keys there are: a code, alone or after an escape, with 0x80 added   *)
(* when the key is released; the key that sends the codes of control and   *)
(* num lock, and none when it is released; and the key that sends those of *)
(* an escaped shift around its own.                                        *)
Key(code) == [make |-> <<code>>, break |-> <<code + 128>>]
Extended(code) == [make |-> <<\hE0, code>>, break |-> <<\hE0, code + 128>>]
Pause == [make |-> <<\hE1, \h1D, \h45, \hE1, \h9D, \hC5>>, break |-> << >>]
PrintScreen == [make |-> <<\hE0, \h2A, \hE0, \h37>>, break |-> <<\hE0, \hB7, \hE0, \hAA>>]

MakeCodes == (0 .. 127) \ {\h60}

ASSUME KeysAssumption ==
    \A k \in Keys : k \in {Pause, PrintScreen} \/ \E code \in MakeCodes : k = Key(code) \/ k = Extended(code)

Keyboard_shiftcode ==
    [code \in Codes |-> CASE code \in {\h1D, \h9D} -> {"CTL"}
                          [] code \in {\h2A, \h36} -> {"SHIFT"}
                          [] code \in {\h38, \hB8} -> {"ALT"}
                          [] OTHER -> {}]

Keyboard_togglecode ==
    [code \in Codes |-> CASE code = \h3A -> {"CAPSLOCK"}
                          [] code = \h45 -> {"NUMLOCK"}
                          [] code = \h46 -> {"SCROLLLOCK"}
                          [] OTHER -> {}]

(* Backspace, tab, enter, H, I, J, the enter of the keypad, and an arrow.  *)
(* Keyboard_shiftmap has the same kinds of characters in the same places.  *)
Keyboard_normalmap ==
    [code \in Codes |-> CASE code = \h0E -> "BS"
                          [] code = \h0F -> "TAB"
                          [] code \in {\h1C, \h9C} -> "NL"
                          [] code \in {\h17, \h23, \h24, \hC8} -> "glyph"
                          [] OTHER -> "NO"]

(* Control with H, I or J is a backspace, a tab or a new line; with enter  *)
(* it is a carriage return, which the console takes for a glyph.           *)
Keyboard_ctlmap ==
    [code \in Codes |-> CASE code = \h23 -> "BS"
                          [] code = \h17 -> "TAB"
                          [] code = \h24 -> "NL"
                          [] code \in {\h1C, \h9C, \hC8} -> "glyph"
                          [] OTHER -> "NO"]

Toggled(S, T) == (S \ T) \cup (T \ S)

-----------------------------------------------------------------------------
(* Keyboard_GetChar, on the first of the codes that were sent.             *)

Escaped == "E0ESC" \in shift

Escape == sent[1] = \hE0 /\ shift' = shift \cup {"E0ESC"}

(* A key is released.                                                      *)
ReleasedCode_Raw(code) == code
ReleasedCode(code) == IF Escaped THEN code ELSE code % 128

KeyReleased ==
    /\ sent[1] # \hE0 /\ sent[1] >= 128
    /\ shift' = shift \ (Keyboard_shiftcode[ReleasedCode(sent[1])] \cup {"E0ESC"})

(* A key is pressed, which was the code with 0x80 after an escape.         *)
PressedCode == IF Escaped THEN sent[1] + 128 ELSE sent[1]

KeyPressed ==
    /\ sent[1] < 128
    /\ shift' = Toggled((shift \ {"E0ESC"}) \cup Keyboard_shiftcode[PressedCode], Keyboard_togglecode[PressedCode])

Keyboard_GetChar ==
    IF sent[1] >= 128 THEN "NO"
    ELSE IF "CTL" \in shift' THEN Keyboard_ctlmap[PressedCode] ELSE Keyboard_normalmap[PressedCode]

TakeCode ==
    /\ sent # << >>
    /\ Escape \/ KeyReleased \/ KeyPressed
    /\ sent' = Tail(sent)
    /\ UNCHANGED held

-----------------------------------------------------------------------------
Press(k) ==
    /\ sent = << >>
    /\ Cardinality(held \cup {k}) <= MaxHeld
    /\ held' = IF k.break = << >> THEN held ELSE held \cup {k}
    /\ sent' = k.make
    /\ UNCHANGED shift

Release(k) ==
    /\ sent = << >>
    /\ k \in held
    /\ held' = held \ {k}
    /\ sent' = k.break
    /\ UNCHANGED shift

KeyboardInit == shift = {} /\ held = {} /\ sent = << >>

-----------------------------------------------------------------------------
(* The modifiers a key stands for, with or without an escape.              *)
Modifiers(k) == Keyboard_shiftcode[k.make[Len(k.make)]]

(* No modifier gets stuck: between keys no escape is pending, and a bit is *)
(* set only while one of its keys is held down, whatever keys with codes   *)
(* alike, escaped or not, are pressed and released in between.             *)
ModifiersReleased ==
    sent = << >> =>
        /\ "E0ESC" \notin shift
        /\ shift \cap {"SHIFT", "CTL", "ALT"} \subseteq UNION {Modifiers(k) : k \in held}
=============================================================================
