--------------------------- MODULE TerminalProofs ---------------------------
(***************************************************************************)
(* Proofs that no modifier key gets stuck, whatever keys the keyboard has, *)
(* and that the interrupts of the keyboard leave the cursor on the screen. *)
(***************************************************************************)
EXTENDS Terminal, TLAPS

MODIFIERS == {"SHIFT", "CTL", "ALT"}

(* The bits of the modifiers that are set.                                 *)
Down == shift \cap MODIFIERS

(* The modifiers that pressing a key sets, and releasing it clears.        *)
Sets(k) == IF Len(k.make) = 1 THEN Keyboard_shiftcode[k.make[1]]
           ELSE IF Len(k.make) = 2 THEN Keyboard_shiftcode[k.make[2] + 128]
           ELSE {}
Justified == UNION {Sets(k) : k \in held}

(* What is still to come of a key's codes, after an escape or not, and the *)
(* modifiers that are to be cleared yet.                                   *)
Coming(codes, escaped, clears) == sent = codes /\ (Escaped <=> escaped) /\ Down \subseteq Justified \cup clears

Making ==
    \E code \in MakeCodes :
        \/ Key(code) \in held /\ Coming(<<code>>, FALSE, {})
        \/ Extended(code) \in held /\ (Coming(<<\hE0, code>>, FALSE, {}) \/ Coming(<<code>>, TRUE, {}))
Breaking ==
    \E code \in MakeCodes :
        \/ Coming(<<code + 128>>, FALSE, Keyboard_shiftcode[code])
        \/ Coming(<<\hE0, code + 128>>, FALSE, Keyboard_shiftcode[code + 128])
        \/ Coming(<<code + 128>>, TRUE, Keyboard_shiftcode[code + 128])
Pausing ==
    \/ Coming(<<\hE1, \h1D, \h45, \hE1, \h9D, \hC5>>, FALSE, {})
    \/ Coming(<<\h1D, \h45, \hE1, \h9D, \hC5>>, FALSE, {})
    \/ Coming(<<\h45, \hE1, \h9D, \hC5>>, FALSE, {"CTL"})
    \/ Coming(<<\hE1, \h9D, \hC5>>, FALSE, {"CTL"})
    \/ Coming(<<\h9D, \hC5>>, FALSE, {"CTL"})
    \/ Coming(<<\hC5>>, FALSE, {})
ScreenPrinting ==
    \/ Coming(<<\hE0, \h2A, \hE0, \h37>>, FALSE, {}) \/ Coming(<<\hE0, \hB7, \hE0, \hAA>>, FALSE, {})
    \/ Coming(<<\h2A, \hE0, \h37>>, TRUE, {}) \/ Coming(<<\hB7, \hE0, \hAA>>, TRUE, {})
    \/ Coming(<<\hE0, \h37>>, FALSE, {}) \/ Coming(<<\hE0, \hAA>>, FALSE, {})
    \/ Coming(<<\h37>>, TRUE, {}) \/ Coming(<<\hAA>>, TRUE, {})

(* A bit is set only while one of its keys is down or its last code is on  *)
(* the way, and the escape is pending only between two codes.              *)
KeyboardInv ==
    /\ held \subseteq Keys
    /\ Coming(<< >>, FALSE, {}) \/ Making \/ Breaking \/ Pausing \/ ScreenPrinting

-----------------------------------------------------------------------------
(* The tables of codes.                                                    *)
LEMMA ShiftCodes ==
  /\ \A code \in Codes : Keyboard_shiftcode[code] \subseteq MODIFIERS
  /\ \A code \in Codes : Keyboard_togglecode[code] \cap (MODIFIERS \cup {"E0ESC"}) = {}
  /\ \A code \in MakeCodes : code + 128 \in Codes /\ Keyboard_shiftcode[code + 128] \subseteq Keyboard_shiftcode[code]
<1>1. \A code \in Codes : Keyboard_shiftcode[code] \subseteq MODIFIERS
  BY DEF Keyboard_shiftcode, MODIFIERS
<1>2. \A code \in Codes : Keyboard_togglecode[code] \cap (MODIFIERS \cup {"E0ESC"}) = {}
  BY DEF Keyboard_togglecode, MODIFIERS
<1>3. ASSUME NEW code \in MakeCodes
      PROVE  code + 128 \in Codes /\ Keyboard_shiftcode[code + 128] \subseteq Keyboard_shiftcode[code]
  <2>1. code \in Codes /\ code + 128 \in Codes /\ code < 128
    BY DEF MakeCodes, Codes
  <2>2. CASE code = \h1D
    BY <2>1, <2>2 DEF Keyboard_shiftcode
  <2>3. CASE code = \h38
    BY <2>1, <2>3 DEF Keyboard_shiftcode
  <2>4. CASE code # \h1D /\ code # \h38
    <3>1. code + 128 \notin {\h1D, \h9D, \h2A, \h36, \h38, \hB8}
      BY <2>1, <2>4 DEF Codes
    <3>2. Keyboard_shiftcode[code + 128] = {}
      BY <2>1, <3>1 DEF Keyboard_shiftcode
    <3>. QED  BY <2>1, <3>2
  <2>. QED  BY <2>2, <2>3, <2>4
<1>. QED  BY <1>1, <1>2, <1>3

LEMMA Named ==
  /\ Keyboard_shiftcode[\h1D] = {"CTL"} /\ Keyboard_shiftcode[\h45] = {} /\ Keyboard_shiftcode[\hC5 % 128] = {}
  /\ Keyboard_shiftcode[\hE1 % 128] = {} /\ Keyboard_shiftcode[\h9D % 128] = {"CTL"}
  /\ Keyboard_shiftcode[\h2A + 128] = {} /\ Keyboard_shiftcode[\h37 + 128] = {}
  /\ Keyboard_shiftcode[\hB7] = {} /\ Keyboard_shiftcode[\hAA] = {}
<1>1. /\ {\h1D, \h45, \h61, \hB7, \hAA} \subseteq Codes
      /\ \hC5 % 128 = \h45 /\ \hE1 % 128 = \h61 /\ \h9D % 128 = \h1D
      /\ \h2A + 128 = \hAA /\ \h37 + 128 = \hB7
  BY DEF Codes
<1>2. \A code \in Codes : /\ code = \h1D => Keyboard_shiftcode[code] = {"CTL"}
                          /\ code \in {\h45, \h61, \hB7, \hAA} => Keyboard_shiftcode[code] = {}
  BY DEF Keyboard_shiftcode
<1>. QED  BY <1>1, <1>2

(* Taking the first of the codes.                                          *)
LEMMA TakeEscape ==
  ASSUME TakeCode, sent[1] = \hE0
  PROVE  Escaped' /\ Down' = Down
<1>1. shift' = shift \cup {"E0ESC"}
  BY DEF TakeCode, Escape, KeyReleased, KeyPressed
<1>. QED  BY <1>1 DEF Escaped, Down, MODIFIERS

LEMMA TakeReleased ==
  ASSUME TakeCode, sent[1] \in 128 .. 255, sent[1] # \hE0
  PROVE  ~Escaped' /\ Down' = Down \ Keyboard_shiftcode[IF Escaped THEN sent[1] ELSE sent[1] % 128]
<1>1. shift' = shift \ (Keyboard_shiftcode[IF Escaped THEN sent[1] ELSE sent[1] % 128] \cup {"E0ESC"})
  <2>1. ~(sent[1] < 128)
    OBVIOUS
  <2>2. ~Escape /\ ~KeyPressed
    BY <2>1 DEF Escape, KeyPressed
  <2>3. KeyReleased
    BY <2>2 DEF TakeCode
  <2>. QED  BY <2>3 DEF KeyReleased, ReleasedCode
<1>. QED  BY <1>1 DEF Escaped, Down, MODIFIERS

LEMMA TakePressed ==
  ASSUME TakeCode, sent[1] \in 0 .. 127
  PROVE  ~Escaped' /\ Down' = Down \cup Keyboard_shiftcode[IF Escaped THEN sent[1] + 128 ELSE sent[1]]
<1>. DEFINE code == IF Escaped THEN sent[1] + 128 ELSE sent[1]
<1>1. shift' = Toggled((shift \ {"E0ESC"}) \cup Keyboard_shiftcode[code], Keyboard_togglecode[code])
  <2>1. ~(sent[1] >= 128) /\ sent[1] # \hE0
    OBVIOUS
  <2>2. ~Escape /\ ~KeyReleased
    BY <2>1 DEF Escape, KeyReleased
  <2>3. KeyPressed
    BY <2>2 DEF TakeCode
  <2>. QED  BY <2>3 DEF KeyPressed, PressedCode
<1>2. code \in Codes
  BY DEF Codes
<1>. HIDE DEF code
<1>3. Keyboard_shiftcode[code] \subseteq MODIFIERS /\ Keyboard_togglecode[code] \cap (MODIFIERS \cup {"E0ESC"}) = {}
  BY <1>2, ShiftCodes
<1>4. ~Escaped'
  BY <1>1, <1>3 DEF Escaped, Toggled, MODIFIERS
<1>5. Down' = Down \cup Keyboard_shiftcode[code]
  BY <1>1, <1>3 DEF Down, Toggled, MODIFIERS
<1>. QED  BY <1>4, <1>5 DEF code

(* The codes that are left.                                                *)
LEMMA Tails ==
  /\ \A a : Tail(<<a>>) = << >>
  /\ \A a, b : Tail(<<a, b>>) = <<b>>
  /\ \A a, b, c : Tail(<<a, b, c>>) = <<b, c>>
  /\ \A a, b, c, d : Tail(<<a, b, c, d>>) = <<b, c, d>>
  /\ \A a, b, c, d, e : Tail(<<a, b, c, d, e>>) = <<b, c, d, e>>
  /\ \A a, b, c, d, e, f : Tail(<<a, b, c, d, e, f>>) = <<b, c, d, e, f>>
OBVIOUS

(* Pressing and releasing keys leaves alone what is set, taking a code     *)
(* leaves alone what is held.                                              *)
LEMMA ComingEscape ==
  ASSUME TakeCode, NEW codes, NEW clears, Coming(codes, FALSE, clears), codes[1] = \hE0
  PROVE  Coming(Tail(codes), TRUE, clears)'
<1>1. sent = codes /\ Down \subseteq Justified \cup clears
  BY DEF Coming
<1>2. sent' = Tail(codes) /\ Justified' = Justified
  BY <1>1 DEF TakeCode, Justified
<1>3. Escaped' /\ Down' = Down
  BY <1>1, TakeEscape
<1>. QED  BY <1>1, <1>2, <1>3 DEF Coming

LEMMA ComingReleased ==
  ASSUME TakeCode, NEW codes, NEW escaped \in BOOLEAN, NEW clears, Coming(codes, escaped, clears),
         codes[1] \in 128 .. 255, codes[1] # \hE0, NEW left,
         clears \ Keyboard_shiftcode[IF escaped THEN codes[1] ELSE codes[1] % 128] \subseteq left
  PROVE  Coming(Tail(codes), FALSE, left)'
<1>1. sent = codes /\ (Escaped <=> escaped) /\ Down \subseteq Justified \cup clears
  BY DEF Coming
<1>2. sent' = Tail(codes) /\ Justified' = Justified
  BY <1>1 DEF TakeCode, Justified
<1>3. ~Escaped' /\ Down' = Down \ Keyboard_shiftcode[IF Escaped THEN codes[1] ELSE codes[1] % 128]
  BY <1>1, TakeReleased
<1>4. Down' = Down \ Keyboard_shiftcode[IF escaped THEN codes[1] ELSE codes[1] % 128]
  BY <1>1, <1>3
<1>5. Down' \subseteq Justified' \cup left
  BY <1>1, <1>2, <1>4
<1>. QED  BY <1>2, <1>3, <1>5 DEF Coming

LEMMA ComingPressed ==
  ASSUME TakeCode, NEW codes, NEW escaped \in BOOLEAN, NEW clears, Coming(codes, escaped, clears),
         codes[1] \in 0 .. 127, NEW left,
         clears \cup Keyboard_shiftcode[IF escaped THEN codes[1] + 128 ELSE codes[1]] \subseteq Justified \cup left
  PROVE  Coming(Tail(codes), FALSE, left)'
<1>1. sent = codes /\ (Escaped <=> escaped) /\ Down \subseteq Justified \cup clears
  BY DEF Coming
<1>2. sent' = Tail(codes) /\ Justified' = Justified
  BY <1>1 DEF TakeCode, Justified
<1>3. ~Escaped' /\ Down' = Down \cup Keyboard_shiftcode[IF Escaped THEN codes[1] + 128 ELSE codes[1]]
  BY <1>1, TakePressed
<1>4. Down' = Down \cup Keyboard_shiftcode[IF escaped THEN codes[1] + 128 ELSE codes[1]]
  BY <1>1, <1>3
<1>5. Down' \subseteq Justified' \cup left
  BY <1>1, <1>2, <1>4
<1>. QED  BY <1>2, <1>3, <1>5 DEF Coming

(* Keyboard_GetChar, code by code.                                         *)
LEMMA MakingStep ==
  ASSUME TakeCode, Making
  PROVE  Coming(<< >>, FALSE, {})' \/ Making'
<1>1. PICK code \in MakeCodes :
        \/ Key(code) \in held /\ Coming(<<code>>, FALSE, {})
        \/ Extended(code) \in held /\ (Coming(<<\hE0, code>>, FALSE, {}) \/ Coming(<<code>>, TRUE, {}))
  BY DEF Making
<1>2. held' = held /\ code \in 0 .. 127 /\ <<code>>[1] = code
  BY DEF TakeCode, MakeCodes
<1>3. CASE Key(code) \in held /\ Coming(<<code>>, FALSE, {})
  <2>1. Keyboard_shiftcode[code] \subseteq Justified
    BY <1>3 DEF Justified, Sets, Key
  <2>. DEFINE codes == <<code>>
  <2>2. /\ Coming(codes, FALSE, {}) /\ codes[1] \in 0 .. 127
        /\ {} \cup Keyboard_shiftcode[IF FALSE THEN codes[1] + 128 ELSE codes[1]] \subseteq Justified \cup {}
    BY <1>2, <1>3, <2>1
  <2>. HIDE DEF codes
  <2>3. Coming(Tail(codes), FALSE, {})'
    BY <2>2, ComingPressed
  <2>. QED  BY <2>3, Tails DEF codes
<1>4. CASE Extended(code) \in held /\ Coming(<<\hE0, code>>, FALSE, {})
  <2>1. Coming(Tail(<<\hE0, code>>), TRUE, {})'
    BY <1>4, ComingEscape
  <2>2. Coming(<<code>>, TRUE, {})'
    BY <2>1, Tails
  <2>. QED  BY <1>2, <1>4, <2>2 DEF Making
<1>5. CASE Extended(code) \in held /\ Coming(<<code>>, TRUE, {})
  <2>1. Keyboard_shiftcode[code + 128] \subseteq Justified
    BY <1>5 DEF Justified, Sets, Extended
  <2>. DEFINE codes == <<code>>
  <2>2. /\ Coming(codes, TRUE, {}) /\ codes[1] \in 0 .. 127
        /\ {} \cup Keyboard_shiftcode[IF TRUE THEN codes[1] + 128 ELSE codes[1]] \subseteq Justified \cup {}
    BY <1>2, <1>5, <2>1
  <2>. HIDE DEF codes
  <2>3. Coming(Tail(codes), FALSE, {})'
    BY <2>2, ComingPressed
  <2>. QED  BY <2>3, Tails DEF codes
<1>. QED  BY <1>1, <1>3, <1>4, <1>5

LEMMA BreakingStep ==
  ASSUME TakeCode, Breaking
  PROVE  Coming(<< >>, FALSE, {})' \/ Breaking'
<1>1. PICK code \in MakeCodes :
        \/ Coming(<<code + 128>>, FALSE, Keyboard_shiftcode[code])
        \/ Coming(<<\hE0, code + 128>>, FALSE, Keyboard_shiftcode[code + 128])
        \/ Coming(<<code + 128>>, TRUE, Keyboard_shiftcode[code + 128])
  BY DEF Breaking
<1>2. code + 128 \in 128 .. 255 /\ code + 128 # \hE0 /\ (code + 128) % 128 = code /\ <<code + 128>>[1] = code + 128
  BY DEF MakeCodes
<1>3. CASE Coming(<<code + 128>>, FALSE, Keyboard_shiftcode[code])
  <2>1. Coming(Tail(<<code + 128>>), FALSE, {})'
    BY <1>2, <1>3, ComingReleased, ZenonT(60)
  <2>. QED  BY <2>1, Tails
<1>4. CASE Coming(<<\hE0, code + 128>>, FALSE, Keyboard_shiftcode[code + 128])
  <2>1. Coming(Tail(<<\hE0, code + 128>>), TRUE, Keyboard_shiftcode[code + 128])'
    BY <1>4, ComingEscape
  <2>2. Coming(<<code + 128>>, TRUE, Keyboard_shiftcode[code + 128])'
    BY <2>1, Tails, ZenonT(60)
  <2>. QED  BY <2>2 DEF Breaking
<1>5. CASE Coming(<<code + 128>>, TRUE, Keyboard_shiftcode[code + 128])
  <2>1. Coming(Tail(<<code + 128>>), FALSE, {})'
    BY <1>2, <1>5, ComingReleased, ZenonT(60)
  <2>. QED  BY <2>1, Tails
<1>. QED  BY <1>1, <1>3, <1>4, <1>5

LEMMA PausingStep ==
  ASSUME TakeCode, Pausing
  PROVE  Coming(<< >>, FALSE, {})' \/ Pausing'
<1>1. CASE Coming(<<\hE1, \h1D, \h45, \hE1, \h9D, \hC5>>, FALSE, {})
  <2>. DEFINE codes == <<\hE1, \h1D, \h45, \hE1, \h9D, \hC5>>
  <2>1. codes[1] = \hE1
    OBVIOUS
  <2>2. Tail(codes) = <<\h1D, \h45, \hE1, \h9D, \hC5>>
    OBVIOUS
  <2>3. Coming(codes, FALSE, {})
    BY <1>1
  <2>. HIDE DEF codes
  <2>4. /\ codes[1] \in 128 .. 255 /\ codes[1] # \hE0
        /\ {} \ Keyboard_shiftcode[IF FALSE THEN codes[1] ELSE codes[1] % 128] \subseteq {}
    BY <2>1, Named
  <2>5. Coming(Tail(codes), FALSE, {})'
    BY <2>3, <2>4, ComingReleased
  <2>6. Coming(<<\h1D, \h45, \hE1, \h9D, \hC5>>, FALSE, {})'
    BY <2>2, <2>5
  <2>. QED  BY <2>6 DEF Pausing
<1>2. CASE Coming(<<\h1D, \h45, \hE1, \h9D, \hC5>>, FALSE, {})
  <2>. DEFINE codes == <<\h1D, \h45, \hE1, \h9D, \hC5>>
  <2>1. codes[1] = \h1D
    OBVIOUS
  <2>2. Tail(codes) = <<\h45, \hE1, \h9D, \hC5>>
    OBVIOUS
  <2>3. Coming(codes, FALSE, {})
    BY <1>2
  <2>. HIDE DEF codes
  <2>4. /\ codes[1] \in 0 .. 127
        /\ {} \cup Keyboard_shiftcode[IF FALSE THEN codes[1] + 128 ELSE codes[1]] \subseteq Justified \cup {"CTL"}
    BY <2>1, Named
  <2>5. Coming(Tail(codes), FALSE, {"CTL"})'
    BY <2>3, <2>4, ComingPressed
  <2>6. Coming(<<\h45, \hE1, \h9D, \hC5>>, FALSE, {"CTL"})'
    BY <2>2, <2>5
  <2>. QED  BY <2>6 DEF Pausing
<1>3. CASE Coming(<<\h45, \hE1, \h9D, \hC5>>, FALSE, {"CTL"})
  <2>. DEFINE codes == <<\h45, \hE1, \h9D, \hC5>>
  <2>1. codes[1] = \h45
    OBVIOUS
  <2>2. Tail(codes) = <<\hE1, \h9D, \hC5>>
    OBVIOUS
  <2>3. Coming(codes, FALSE, {"CTL"})
    BY <1>3
  <2>. HIDE DEF codes
  <2>4. /\ codes[1] \in 0 .. 127
        /\ {"CTL"} \cup Keyboard_shiftcode[IF FALSE THEN codes[1] + 128 ELSE codes[1]] \subseteq Justified \cup {"CTL"}
    BY <2>1, Named
  <2>5. Coming(Tail(codes), FALSE, {"CTL"})'
    BY <2>3, <2>4, ComingPressed
  <2>6. Coming(<<\hE1, \h9D, \hC5>>, FALSE, {"CTL"})'
    BY <2>2, <2>5
  <2>. QED  BY <2>6 DEF Pausing
<1>4. CASE Coming(<<\hE1, \h9D, \hC5>>, FALSE, {"CTL"})
  <2>. DEFINE codes == <<\hE1, \h9D, \hC5>>
  <2>1. codes[1] = \hE1
    OBVIOUS
  <2>2. Tail(codes) = <<\h9D, \hC5>>
    OBVIOUS
  <2>3. Coming(codes, FALSE, {"CTL"})
    BY <1>4
  <2>. HIDE DEF codes
  <2>4. /\ codes[1] \in 128 .. 255 /\ codes[1] # \hE0
        /\ {"CTL"} \ Keyboard_shiftcode[IF FALSE THEN codes[1] ELSE codes[1] % 128] \subseteq {"CTL"}
    BY <2>1, Named
  <2>5. Coming(Tail(codes), FALSE, {"CTL"})'
    BY <2>3, <2>4, ComingReleased
  <2>6. Coming(<<\h9D, \hC5>>, FALSE, {"CTL"})'
    BY <2>2, <2>5
  <2>. QED  BY <2>6 DEF Pausing
<1>5. CASE Coming(<<\h9D, \hC5>>, FALSE, {"CTL"})
  <2>. DEFINE codes == <<\h9D, \hC5>>
  <2>1. codes[1] = \h9D
    OBVIOUS
  <2>2. Tail(codes) = <<\hC5>>
    OBVIOUS
  <2>3. Coming(codes, FALSE, {"CTL"})
    BY <1>5
  <2>. HIDE DEF codes
  <2>4. /\ codes[1] \in 128 .. 255 /\ codes[1] # \hE0
        /\ {"CTL"} \ Keyboard_shiftcode[IF FALSE THEN codes[1] ELSE codes[1] % 128] \subseteq {}
    BY <2>1, Named
  <2>5. Coming(Tail(codes), FALSE, {})'
    BY <2>3, <2>4, ComingReleased
  <2>6. Coming(<<\hC5>>, FALSE, {})'
    BY <2>2, <2>5
  <2>. QED  BY <2>6 DEF Pausing
<1>6. CASE Coming(<<\hC5>>, FALSE, {})
  <2>. DEFINE codes == <<\hC5>>
  <2>1. codes[1] = \hC5
    OBVIOUS
  <2>2. Tail(codes) = << >>
    OBVIOUS
  <2>3. Coming(codes, FALSE, {})
    BY <1>6
  <2>. HIDE DEF codes
  <2>4. /\ codes[1] \in 128 .. 255 /\ codes[1] # \hE0
        /\ {} \ Keyboard_shiftcode[IF FALSE THEN codes[1] ELSE codes[1] % 128] \subseteq {}
    BY <2>1, Named
  <2>5. Coming(Tail(codes), FALSE, {})'
    BY <2>3, <2>4, ComingReleased
  <2>6. Coming(<< >>, FALSE, {})'
    BY <2>2, <2>5
  <2>. QED  BY <2>6
<1>. QED  BY <1>1, <1>2, <1>3, <1>4, <1>5, <1>6, ZenonT(60) DEF Pausing

LEMMA ScreenPrintingStep ==
  ASSUME TakeCode, ScreenPrinting
  PROVE  Coming(<< >>, FALSE, {})' \/ ScreenPrinting'
<1>1. CASE Coming(<<\hE0, \h2A, \hE0, \h37>>, FALSE, {})
  <2>. DEFINE codes == <<\hE0, \h2A, \hE0, \h37>>
  <2>1. codes[1] = \hE0
    OBVIOUS
  <2>2. Tail(codes) = <<\h2A, \hE0, \h37>>
    OBVIOUS
  <2>3. Coming(codes, FALSE, {})
    BY <1>1
  <2>. HIDE DEF codes
  <2>4. Coming(Tail(codes), TRUE, {})'
    BY <2>1, <2>3, ComingEscape
  <2>5. Coming(<<\h2A, \hE0, \h37>>, TRUE, {})'
    BY <2>2, <2>4
  <2>. QED  BY <2>5 DEF ScreenPrinting
<1>2. CASE Coming(<<\h2A, \hE0, \h37>>, TRUE, {})
  <2>. DEFINE codes == <<\h2A, \hE0, \h37>>
  <2>1. codes[1] = \h2A
    OBVIOUS
  <2>2. Tail(codes) = <<\hE0, \h37>>
    OBVIOUS
  <2>3. Coming(codes, TRUE, {})
    BY <1>2
  <2>. HIDE DEF codes
  <2>4. /\ codes[1] \in 0 .. 127
        /\ {} \cup Keyboard_shiftcode[IF TRUE THEN codes[1] + 128 ELSE codes[1]] \subseteq Justified \cup {}
    BY <2>1, Named
  <2>5. Coming(Tail(codes), FALSE, {})'
    BY <2>3, <2>4, ComingPressed
  <2>6. Coming(<<\hE0, \h37>>, FALSE, {})'
    BY <2>2, <2>5
  <2>. QED  BY <2>6 DEF ScreenPrinting
<1>3. CASE Coming(<<\hE0, \h37>>, FALSE, {})
  <2>. DEFINE codes == <<\hE0, \h37>>
  <2>1. codes[1] = \hE0
    OBVIOUS
  <2>2. Tail(codes) = <<\h37>>
    OBVIOUS
  <2>3. Coming(codes, FALSE, {})
    BY <1>3
  <2>. HIDE DEF codes
  <2>4. Coming(Tail(codes), TRUE, {})'
    BY <2>1, <2>3, ComingEscape
  <2>5. Coming(<<\h37>>, TRUE, {})'
    BY <2>2, <2>4
  <2>. QED  BY <2>5 DEF ScreenPrinting
<1>4. CASE Coming(<<\h37>>, TRUE, {})
  <2>. DEFINE codes == <<\h37>>
  <2>1. codes[1] = \h37
    OBVIOUS
  <2>2. Tail(codes) = << >>
    OBVIOUS
  <2>3. Coming(codes, TRUE, {})
    BY <1>4
  <2>. HIDE DEF codes
  <2>4. /\ codes[1] \in 0 .. 127
        /\ {} \cup Keyboard_shiftcode[IF TRUE THEN codes[1] + 128 ELSE codes[1]] \subseteq Justified \cup {}
    BY <2>1, Named
  <2>5. Coming(Tail(codes), FALSE, {})'
    BY <2>3, <2>4, ComingPressed
  <2>6. Coming(<< >>, FALSE, {})'
    BY <2>2, <2>5
  <2>. QED  BY <2>6
<1>5. CASE Coming(<<\hE0, \hB7, \hE0, \hAA>>, FALSE, {})
  <2>. DEFINE codes == <<\hE0, \hB7, \hE0, \hAA>>
  <2>1. codes[1] = \hE0
    OBVIOUS
  <2>2. Tail(codes) = <<\hB7, \hE0, \hAA>>
    OBVIOUS
  <2>3. Coming(codes, FALSE, {})
    BY <1>5
  <2>. HIDE DEF codes
  <2>4. Coming(Tail(codes), TRUE, {})'
    BY <2>1, <2>3, ComingEscape
  <2>5. Coming(<<\hB7, \hE0, \hAA>>, TRUE, {})'
    BY <2>2, <2>4
  <2>. QED  BY <2>5 DEF ScreenPrinting
<1>6. CASE Coming(<<\hB7, \hE0, \hAA>>, TRUE, {})
  <2>. DEFINE codes == <<\hB7, \hE0, \hAA>>
  <2>1. codes[1] = \hB7
    OBVIOUS
  <2>2. Tail(codes) = <<\hE0, \hAA>>
    OBVIOUS
  <2>3. Coming(codes, TRUE, {})
    BY <1>6
  <2>. HIDE DEF codes
  <2>4. /\ codes[1] \in 128 .. 255 /\ codes[1] # \hE0
        /\ {} \ Keyboard_shiftcode[IF TRUE THEN codes[1] ELSE codes[1] % 128] \subseteq {}
    BY <2>1, Named
  <2>5. Coming(Tail(codes), FALSE, {})'
    BY <2>3, <2>4, ComingReleased
  <2>6. Coming(<<\hE0, \hAA>>, FALSE, {})'
    BY <2>2, <2>5
  <2>. QED  BY <2>6 DEF ScreenPrinting
<1>7. CASE Coming(<<\hE0, \hAA>>, FALSE, {})
  <2>. DEFINE codes == <<\hE0, \hAA>>
  <2>1. codes[1] = \hE0
    OBVIOUS
  <2>2. Tail(codes) = <<\hAA>>
    OBVIOUS
  <2>3. Coming(codes, FALSE, {})
    BY <1>7
  <2>. HIDE DEF codes
  <2>4. Coming(Tail(codes), TRUE, {})'
    BY <2>1, <2>3, ComingEscape
  <2>5. Coming(<<\hAA>>, TRUE, {})'
    BY <2>2, <2>4
  <2>. QED  BY <2>5 DEF ScreenPrinting
<1>8. CASE Coming(<<\hAA>>, TRUE, {})
  <2>. DEFINE codes == <<\hAA>>
  <2>1. codes[1] = \hAA
    OBVIOUS
  <2>2. Tail(codes) = << >>
    OBVIOUS
  <2>3. Coming(codes, TRUE, {})
    BY <1>8
  <2>. HIDE DEF codes
  <2>4. /\ codes[1] \in 128 .. 255 /\ codes[1] # \hE0
        /\ {} \ Keyboard_shiftcode[IF TRUE THEN codes[1] ELSE codes[1] % 128] \subseteq {}
    BY <2>1, Named
  <2>5. Coming(Tail(codes), FALSE, {})'
    BY <2>3, <2>4, ComingReleased
  <2>6. Coming(<< >>, FALSE, {})'
    BY <2>2, <2>5
  <2>. QED  BY <2>6
<1>. QED  BY <1>1, <1>2, <1>3, <1>4, <1>5, <1>6, <1>7, <1>8, ZenonT(60) DEF ScreenPrinting

LEMMA TakeCodeKeeps == KeyboardInv /\ TakeCode => KeyboardInv'
<1>1. SUFFICES ASSUME KeyboardInv, TakeCode PROVE KeyboardInv'
  OBVIOUS
<1>2. held' = held
  BY <1>1 DEF TakeCode
<1>3. ~Coming(<< >>, FALSE, {})
  BY <1>1 DEF TakeCode, Coming
<1>. QED  BY <1>1, <1>2, <1>3, MakingStep, BreakingStep, PausingStep, ScreenPrintingStep DEF KeyboardInv

-----------------------------------------------------------------------------
(* A key is pressed or released when no code of another is on its way.     *)
LEMMA PressKeeps ==
  ASSUME KeyboardInv, NEW k \in Keys, Press(k)
  PROVE  KeyboardInv'
<1>1. sent = << >> /\ shift' = shift /\ sent' = k.make /\ held' = IF k.break = << >> THEN held ELSE held \cup {k}
  BY DEF Press
<1>2. ~Escaped /\ Down \subseteq Justified
  <2>2. ~Making /\ ~Breaking /\ ~Pausing /\ ~ScreenPrinting
    BY <1>1 DEF Making, Breaking, Pausing, ScreenPrinting, Coming
  <2>3. Coming(<< >>, FALSE, {})
    BY <2>2 DEF KeyboardInv
  <2>. QED  BY <2>3 DEF Coming
<1>3. held' \subseteq Keys /\ ~Escaped' /\ Down' = Down /\ Justified \subseteq Justified'
  <2>1. held \subseteq held' /\ held' \subseteq Keys
    BY <1>1 DEF KeyboardInv
  <2>. QED  BY <1>1, <1>2, <2>1 DEF Escaped, Down, Justified
<1>4. Coming(k.make, FALSE, {})'
  BY <1>1, <1>2, <1>3 DEF Coming
<1>5. CASE k = Pause
  <2>1. Coming(<<\hE1, \h1D, \h45, \hE1, \h9D, \hC5>>, FALSE, {})'
    BY <1>4, <1>5 DEF Pause
  <2>. QED  BY <1>3, <2>1 DEF KeyboardInv, Pausing
<1>6. CASE k = PrintScreen
  <2>1. Coming(<<\hE0, \h2A, \hE0, \h37>>, FALSE, {})'
    BY <1>4, <1>6 DEF PrintScreen
  <2>. QED  BY <1>3, <2>1 DEF KeyboardInv, ScreenPrinting
<1>7. CASE \E code \in MakeCodes : k = Key(code) \/ k = Extended(code)
  <2>1. PICK code \in MakeCodes : k = Key(code) \/ k = Extended(code)
    BY <1>7
  <2>2. CASE k = Key(code)
    <3>1. k.make = <<code>> /\ k.break # << >>
      BY <2>2 DEF Key
    <3>2. Key(code) \in held' /\ Coming(<<code>>, FALSE, {})'
      BY <1>1, <1>4, <2>2, <3>1
    <3>. QED  BY <1>3, <3>2 DEF KeyboardInv, Making
  <2>3. CASE k = Extended(code)
    <3>1. k.make = <<\hE0, code>> /\ k.break # << >>
      BY <2>3 DEF Extended
    <3>2. Extended(code) \in held' /\ Coming(<<\hE0, code>>, FALSE, {})'
      BY <1>1, <1>4, <2>3, <3>1
    <3>. QED  BY <1>3, <3>2 DEF KeyboardInv, Making
  <2>. QED  BY <2>1, <2>2, <2>3
<1>. QED  BY <1>5, <1>6, <1>7, KeysAssumption

LEMMA ReleaseKeeps ==
  ASSUME KeyboardInv, NEW k \in Keys, Release(k)
  PROVE  KeyboardInv'
<1>1. sent = << >> /\ shift' = shift /\ sent' = k.break /\ k \in held /\ held' = held \ {k}
  BY DEF Release
<1>2. ~Escaped /\ Down \subseteq Justified
  <2>2. ~Making /\ ~Breaking /\ ~Pausing /\ ~ScreenPrinting
    BY <1>1 DEF Making, Breaking, Pausing, ScreenPrinting, Coming
  <2>3. Coming(<< >>, FALSE, {})
    BY <2>2 DEF KeyboardInv
  <2>. QED  BY <2>3 DEF Coming
<1>3. held' \subseteq Keys /\ ~Escaped' /\ Down' = Down /\ Justified \subseteq Justified' \cup Sets(k)
  <2>1. held \subseteq held' \cup {k} /\ held' \subseteq Keys
    BY <1>1 DEF KeyboardInv
  <2>2. Sets(k)' = Sets(k) /\ Justified' = UNION {Sets(l) : l \in held'}
    BY DEF Sets, Justified
  <2>3. Justified \subseteq Justified' \cup Sets(k)
    BY <2>1, <2>2 DEF Justified
  <2>. QED  BY <1>1, <1>2, <2>1, <2>3 DEF Escaped, Down
<1>4. ASSUME NEW clears, Sets(k) \subseteq clears PROVE Coming(k.break, FALSE, clears)'
  BY <1>1, <1>2, <1>3, <1>4 DEF Coming
<1>5. CASE k = Pause
  <2>1. k.make = <<\hE1, \h1D, \h45, \hE1, \h9D, \hC5>> /\ k.break = << >>
    BY <1>5 DEF Pause
  <2>2. Sets(k) = {}
    <3>1. Len(k.make) = 6
      BY <2>1
    <3>. QED  BY <3>1 DEF Sets
  <2>3. Coming(<< >>, FALSE, {})'
    BY <1>4, <2>1, <2>2
  <2>. QED  BY <1>3, <2>3 DEF KeyboardInv
<1>6. CASE k = PrintScreen
  <2>1. k.make = <<\hE0, \h2A, \hE0, \h37>> /\ k.break = <<\hE0, \hB7, \hE0, \hAA>>
    BY <1>6 DEF PrintScreen
  <2>2. Sets(k) = {}
    <3>1. Len(k.make) = 4
      BY <2>1
    <3>. QED  BY <3>1 DEF Sets
  <2>3. Coming(<<\hE0, \hB7, \hE0, \hAA>>, FALSE, {})'
    BY <1>4, <2>1, <2>2
  <2>. QED  BY <1>3, <2>3 DEF KeyboardInv, ScreenPrinting
<1>7. CASE \E code \in MakeCodes : k = Key(code) \/ k = Extended(code)
  <2>1. PICK code \in MakeCodes : k = Key(code) \/ k = Extended(code)
    BY <1>7
  <2>2. CASE k = Key(code)
    <3>1. k.make = <<code>> /\ k.break = <<code + 128>>
      BY <2>2 DEF Key
    <3>2. Sets(k) = Keyboard_shiftcode[code]
      BY <3>1 DEF Sets
    <3>3. Coming(<<code + 128>>, FALSE, Keyboard_shiftcode[code])'
      BY <1>4, <3>1, <3>2
    <3>. QED  BY <1>3, <3>3 DEF KeyboardInv, Breaking
  <2>3. CASE k = Extended(code)
    <3>1. k.make = <<\hE0, code>> /\ k.break = <<\hE0, code + 128>>
      BY <2>3 DEF Extended
    <3>2. Sets(k) = Keyboard_shiftcode[code + 128]
      BY <3>1 DEF Sets
    <3>3. Coming(<<\hE0, code + 128>>, FALSE, Keyboard_shiftcode[code + 128])'
      BY <1>4, <3>1, <3>2, ZenonT(60)
    <3>. QED  BY <1>3, <3>3 DEF KeyboardInv, Breaking
  <2>. QED  BY <2>1, <2>2, <2>3
<1>. QED  BY <1>5, <1>6, <1>7, KeysAssumption

(* KeyboardInv is inductive: the escapes and the codes of Keyboard_GetChar *)
(* are taken one interrupt at a time, and the printers do not touch shift. *)
THEOREM KeyboardInvariance == Spec => []KeyboardInv
<1>1. Init => KeyboardInv
  BY DEF Init, KeyboardInit, KeyboardInv, Coming, Escaped, Down, Justified
<1>2. KeyboardInv /\ [Next]_vars => KeyboardInv'
  <2>1. SUFFICES ASSUME KeyboardInv, [Next]_vars PROVE KeyboardInv'
    OBVIOUS
  <2>2. CASE UNCHANGED keyboardvars
    <3>1. shift' = shift /\ held' = held /\ sent' = sent
      BY <2>2 DEF keyboardvars
    <3>2. (Escaped' <=> Escaped) /\ Down' = Down /\ Justified' = Justified
      BY <3>1 DEF Escaped, Down, Justified
    <3>3. (Making => Making') /\ (Breaking => Breaking')
      BY <3>1, <3>2 DEF Making, Breaking, Coming
    <3>4. (Pausing => Pausing') /\ (ScreenPrinting => ScreenPrinting')
      BY <3>1, <3>2 DEF Pausing, ScreenPrinting, Coming
    <3>5. Coming(<< >>, FALSE, {}) => Coming(<< >>, FALSE, {})'
      BY <3>1, <3>2 DEF Coming
    <3>. QED  BY <2>1, <3>1, <3>3, <3>4, <3>5 DEF KeyboardInv
  <2>3. CASE Type
    BY <2>1, <2>3, PressKeeps, ReleaseKeeps DEF Type
  <2>4. CASE Keyboard_HandleInterrupt
    BY <2>1, <2>4, TakeCodeKeeps DEF Keyboard_HandleInterrupt
  <2>5. Type \/ Keyboard_HandleInterrupt \/ UNCHANGED keyboardvars
    BY <2>1 DEF Next, vars, ProcessorStep, GetToWork, PrintStep, SpuriousInterrupt, HandlerStep
  <2>. QED  BY <2>2, <2>3, <2>4, <2>5
<1>. QED  BY <1>1, <1>2, PTL DEF Spec

(* No modifier gets stuck, for any set of keys, however their codes        *)
(* resemble one another and in whatever order keys are pressed and         *)
(* released (Keyboard_GetChar, the bits of shift).                         *)
THEOREM NoModifierStuck == Spec => []ModifiersReleased
<1>1. KeyboardInv => ModifiersReleased
  <2>1. SUFFICES ASSUME KeyboardInv, sent = << >>
                 PROVE  "E0ESC" \notin shift
                        /\ shift \cap {"SHIFT", "CTL", "ALT"} \subseteq UNION {Modifiers(k) : k \in held}
    BY DEF ModifiersReleased
  <2>2. ~Making /\ ~Breaking /\ ~Pausing /\ ~ScreenPrinting
    BY <2>1 DEF Making, Breaking, Pausing, ScreenPrinting, Coming
  <2>3. ~Escaped /\ Down \subseteq Justified
    BY <2>1, <2>2 DEF KeyboardInv, Coming
  <2>4. ASSUME NEW k \in held PROVE Sets(k) \subseteq Modifiers(k)
    <3>1. k \in {Pause, PrintScreen} \/ \E code \in MakeCodes : k = Key(code) \/ k = Extended(code)
      BY <2>1, <2>4, KeysAssumption DEF KeyboardInv
    <3>2. CASE k = Pause
      <4>1. Len(k.make) = 6
        BY <3>2 DEF Pause
      <4>. QED  BY <4>1 DEF Sets
    <3>3. CASE k = PrintScreen
      <4>1. Len(k.make) = 4
        BY <3>3 DEF PrintScreen
      <4>. QED  BY <4>1 DEF Sets
    <3>4. CASE \E code \in MakeCodes : k = Key(code)
      <4>1. PICK code \in MakeCodes : k = Key(code)
        BY <3>4
      <4>2. Len(k.make) = 1
        BY <4>1 DEF Key
      <4>. QED  BY <4>2 DEF Sets, Modifiers
    <3>5. CASE \E code \in MakeCodes : k = Extended(code)
      <4>1. PICK code \in MakeCodes : k = Extended(code)
        BY <3>5
      <4>2. Len(k.make) = 2 /\ k.make[2] = code
        BY <4>1 DEF Extended
      <4>. QED  BY <4>2, ShiftCodes DEF Sets, Modifiers
    <3>. QED  BY <3>1, <3>2, <3>3, <3>4, <3>5
  <2>. QED  BY <2>3, <2>4 DEF Escaped, Down, Justified, MODIFIERS
<1>. QED  BY <1>1, KeyboardInvariance, PTL

-----------------------------------------------------------------------------
(* The console.                                                            *)

Plain == {"NO", "NL", "TAB", "glyph"}

Early == {"char", "back", "store"}
Late == {"erase", "check", "scroll", "reload", "up"}
Scrolling == {"scroll", "reload"}

At(a) == print[a].at

PrintType ==
    /\ DOMAIN print = Actors
    /\ \A a \in Actors :
        /\ "at" \in DOMAIN print[a]
        /\ At(a) \in {"out", "spin", "next"} \cup Early \cup Late
        /\ Printing(a) <=> At(a) \in Early \cup Late
        /\ Printing(a) => print[a].c \in Plain \cup {"BS"}
        /\ At(a) \in {"store", "up"} => "pos" \in DOMAIN print[a] /\ print[a].pos \in Int
        /\ At(a) \in {"back", "erase"} => print[a].c = "BS"
    /\ \A p \in Printers : Printing(p) => print[p].c \in Plain
    /\ At(Handler) \notin {"spin", "next"}

ConsoleType ==
    /\ PrintType
    /\ Console_pos \in Int /\ stray \in BOOLEAN
    /\ message \in [Printers -> Seq(Plain)]
    /\ nested \in 0 .. MaxNested /\ races \in Nat

(* One printer has the lock.                                               *)
Owns(p) == At(p) = "next" \/ Printing(p)
OnePrinter ==
    /\ \A p \in Printers : Owns(p) => Console_lock
    /\ \A p, q \in Printers : Owns(p) /\ Owns(q) => p = q

(* Where the position may be between two characters of the handler.  While *)
(* a printer that has found the position below the screen is about to load *)
(* it, the handler may move it back, by a line and a cell a character.     *)
LineBack == CONSOLE_POS_END - CONSOLE_VGA_NUM_COLUMNS - nested
Low == IF At(Host) \in Scrolling THEN LineBack ELSE CONSOLE_POS_START
High == IF At(Host) \in Late THEN CONSOLE_POS_END + CONSOLE_VGA_NUM_COLUMNS ELSE CONSOLE_POS_END

PrinterPlaces(p) ==
    /\ At(p) = "store" => CONSOLE_POS_START <= print[p].pos /\ print[p].pos < CONSOLE_POS_END
    /\ At(p) = "up" => LineBack <= print[p].pos /\ print[p].pos < CONSOLE_POS_END + CONSOLE_VGA_NUM_COLUMNS
    /\ ~Printing(Handler) =>
        /\ At(p) \in Early => Console_pos < CONSOLE_POS_END
        /\ At(p) \in Late => Console_pos < CONSOLE_POS_END + CONSOLE_VGA_NUM_COLUMNS
        /\ At(p) \in Scrolling => LineBack <= Console_pos

HandlerPlaces ==
    /\ At(Handler) \in Early =>
        /\ Console_pos < High
        /\ At(Host) \in Scrolling => LineBack < Console_pos
    /\ At(Handler) \in {"store", "up"} => print[Handler].pos = Console_pos
    /\ At(Handler) = "back" \/ (At(Handler) = "store" /\ print[Handler].c = "BS") => Console_pos # CONSOLE_POS_START
    /\ At(Handler) = "erase" => Low <= Console_pos /\ Console_pos < High
    /\ At(Handler) = "check" => Low <= Console_pos /\ Console_pos < High + CONSOLE_VGA_NUM_COLUMNS
    /\ At(Handler) \in {"scroll", "reload", "up"} => CONSOLE_POS_END <= Console_pos /\ Console_pos < High + CONSOLE_VGA_NUM_COLUMNS

(* As long as no two CPUs raced, the handler runs alone or inside a        *)
(* character of its own CPU, and every position that is loaded or stored   *)
(* is on the screen or on the line below it.                               *)
Places ==
    /\ ~stray
    /\ Console_pos >= CONSOLE_POS_START
    /\ Printing(Handler) => \A p \in Printers \ {Host} : ~Printing(p)
    /\ (\A a \in Actors : ~Printing(a)) => Console_pos < CONSOLE_POS_END
    /\ \A p \in Printers : PrinterPlaces(p)
    /\ HandlerPlaces

CursorInv == ConsoleType /\ OnePrinter /\ (races = 0 => Places)

-----------------------------------------------------------------------------
(* The screen has room for a line, the line behind it, and the cells that  *)
(* the handler may take back meanwhile; the buffer, for two lines more.    *)
LEMMA Geometry ==
    /\ CONSOLE_VGA_NUM_COLUMNS \in Nat /\ CONSOLE_VGA_NUM_COLUMNS > TabWidth
    /\ TabWidth \in Nat /\ TabWidth > 0
    /\ MaxNested \in Nat
    /\ CONSOLE_POS_START = CONSOLE_VGA_NUM_COLUMNS
    /\ CONSOLE_POS_END \in Nat
    /\ CONSOLE_POS_END >= 3 * CONSOLE_VGA_NUM_COLUMNS + MaxNested
  <1>. DEFINE C == CONSOLE_VGA_NUM_COLUMNS
              L == CONSOLE_VGA_NUM_LINES
  <1>1. /\ C \in Nat /\ L \in Nat /\ C > TabWidth /\ TabWidth \in Nat /\ TabWidth > 0
        /\ MaxNested \in Nat /\ MaxNested <= (L - 3) * C
    BY ConsoleAssumption
  <1>2. (L - 3) * C = C * L - 3 * C /\ C * L \in Nat
    BY <1>1
  <1>. QED BY <1>1, <1>2 DEF CONSOLE_POS_START, CONSOLE_POS_END

LEMMA InBuffer ==
    ASSUME NEW cell \in Int, CONSOLE_POS_START <= cell,
           cell < CONSOLE_POS_END + 2 * CONSOLE_VGA_NUM_COLUMNS
    PROVE  ~Outside(cell)
  <1>. DEFINE C == CONSOLE_VGA_NUM_COLUMNS
              L == CONSOLE_VGA_NUM_LINES
  <1>1. C \in Nat /\ L \in Nat /\ BufferLines \in Nat /\ BufferLines >= L + 2
    BY ConsoleAssumption
  <1>2. BufferLines * C >= (L + 2) * C
    BY <1>1
  <1>3. (L + 2) * C = C * L + 2 * C /\ C * L \in Nat /\ BufferLines * C \in Nat
    BY <1>1
  <1>4. BufferLines * C >= CONSOLE_POS_END + 2 * C /\ CONSOLE_POS_END \in Nat
    BY <1>1, <1>2, <1>3 DEF CONSOLE_POS_END
  <1>. QED BY <1>1, <1>3, <1>4, Geometry DEF Outside

(* Any character but a backspace moves forward, by a line at most.         *)
LEMMA MovedForward ==
    ASSUME NEW c \in Plain \cup {"BS"}, NEW pos \in Int
    PROVE  /\ Moved(c, pos) \in Int
           /\ c = "BS" => Moved(c, pos) = pos - 1
           /\ c # "BS" => pos < Moved(c, pos) /\ Moved(c, pos) <= pos + CONSOLE_VGA_NUM_COLUMNS
  <1>. DEFINE C == CONSOLE_VGA_NUM_COLUMNS
  <1>1. C \in Nat /\ C > 1 /\ TabWidth \in Nat /\ TabWidth > 0 /\ TabWidth < C
    BY Geometry
  <1>2. pos \div C \in Int /\ pos = C * (pos \div C) + (pos % C) /\ pos % C \in 0 .. C - 1
    BY <1>1
  <1>3. (pos \div C + 1) * C = C * (pos \div C) + C /\ C * (pos \div C) \in Int
    BY <1>1, <1>2
  <1>4. pos < (pos \div C + 1) * C /\ (pos \div C + 1) * C <= pos + C /\ (pos \div C + 1) * C \in Int
    BY <1>1, <1>2, <1>3
  <1>. QED BY <1>1, <1>4 DEF Moved, Plain

(* A step of Console_PrintChar leaves the other actors alone.              *)
LEMMA PrintCharType ==
    ASSUME PrintType, Console_pos \in Int, NEW a \in Actors, PrintCharStep(a)
    PROVE  PrintType' /\ \A b \in Actors \ {a} : print'[b] = print[b]
  <1>. USE DEF PrintType, Actors, In, To, LoadPos, Return, At, Printing, Early, Late, Plain
  <1>1. CASE Branch(a)
    <2>1. CASE print[a].c = "NO"
      BY <1>1, <2>1 DEF Branch
    <2>2. CASE print[a].c = "BS"
      BY <1>1, <2>2 DEF Branch
    <2>3. CASE print[a].c # "NO" /\ print[a].c # "BS"
      BY <1>1, <2>3 DEF Branch
    <2>. QED BY <2>1, <2>2, <2>3
  <1>2. CASE BackSpace(a)
    BY <1>2 DEF BackSpace
  <1>3. CASE StorePos(a)
    BY <1>3 DEF StorePos
  <1>4. CASE Erase(a)
    BY <1>4 DEF Erase
  <1>5. CASE Check(a)
    BY <1>5 DEF Check
  <1>6. CASE Scroll(a)
    BY <1>6 DEF Scroll
  <1>7. CASE Reload(a)
    BY <1>7 DEF Reload
  <1>8. CASE LineUp(a)
    BY <1>8 DEF LineUp
  <1>. QED BY <1>1, <1>2, <1>3, <1>4, <1>5, <1>6, <1>7, <1>8 DEF PrintCharStep

LEMMA PrintCharPosition ==
    ASSUME ConsoleType, NEW a \in Actors, PrintCharStep(a)
    PROVE  /\ Console_pos' \in Int /\ stray' \in BOOLEAN
           /\ UNCHANGED <<Console_lock, message, nested, races>>
  <1>1. CASE StorePos(a)
    <2>1. Moved(print[a].c, print[a].pos) \in Int
      BY <1>1, MovedForward DEF StorePos, ConsoleType, PrintType, In, At, Printing, Early, Late
    <2>. QED BY <1>1, <2>1 DEF StorePos
  <1>2. CASE LineUp(a)
    BY <1>2, Geometry DEF LineUp, ConsoleType, PrintType, In, At, history
  <1>3. CASE Erase(a)
    BY <1>3 DEF Erase, ConsoleType
  <1>4. CASE Scroll(a)
    BY <1>4 DEF Scroll, ConsoleType
  <1>5. CASE Branch(a) \/ BackSpace(a) \/ Check(a) \/ Reload(a)
    BY <1>5 DEF Branch, BackSpace, Check, Reload, ConsoleType, history
  <1>. QED BY <1>1, <1>2, <1>3, <1>4, <1>5 DEF PrintCharStep

-----------------------------------------------------------------------------
(* A printer that is not interrupted has the console for itself.           *)
LEMMA Alone ==
    ASSUME ConsoleType, OnePrinter, Places, NEW p \in Printers, Running(p), Printing(p)
    PROVE  \A b \in Actors \ {p} : ~Printing(b)
  <1>1. \A q \in Printers \ {p} : ~Printing(q)
    BY DEF OnePrinter, Owns
  <1>2. ~Printing(Handler)
    BY DEF Running, In, Places, ConsoleType, PrintType, At, Early, Late, Actors
  <1>. QED BY <1>1, <1>2 DEF Actors

LEMMA AlonePlaces ==
    ASSUME PrintType', NEW p \in Printers, \A b \in Actors \ {p} : ~Printing(b)',
           ~stray', Console_pos' \in Int, Console_pos' >= CONSOLE_POS_START,
           ~Printing(p)' => Console_pos' < CONSOLE_POS_END,
           PrinterPlaces(p)'
    PROVE  Places'
  <1>1. \A b \in Actors \ {p} : At(b)' \notin Early \cup Late
    BY DEF PrintType
  <1>2. Handler \in Actors \ {p} /\ Printers \subseteq Actors
    BY ConsoleAssumption DEF Actors
  <1>3. \A q \in Printers \ {p} : PrinterPlaces(q)'
    <2>. TAKE q \in Printers \ {p}
    <2>1. At(q)' \notin Early \cup Late
      BY <1>1, <1>2
    <2>. QED BY <2>1 DEF PrinterPlaces, Early, Late, Scrolling
  <1>4. HandlerPlaces'
    BY <1>1, <1>2 DEF HandlerPlaces, Early, Late
  <1>5. (\A a \in Actors : ~Printing(a)') => Console_pos' < CONSOLE_POS_END
    BY <1>2
  <1>. QED BY <1>2, <1>3, <1>4, <1>5 DEF Places

LEMMA PrinterKeepsPlaces ==
    ASSUME ConsoleType, OnePrinter, Places, NEW p \in Printers, Running(p), PrintCharStep(p)
    PROVE  Places'
  <1>. DEFINE C == CONSOLE_VGA_NUM_COLUMNS
              start == CONSOLE_POS_START
              end == CONSOLE_POS_END
              pos == print[p].pos
  <1>1. p \in Actors /\ Handler \in Actors \ {p}
    BY ConsoleAssumption DEF Actors
  <1>2. Printing(p)
    BY <1>1 DEF PrintCharStep, Branch, BackSpace, StorePos, Erase, Check, Scroll, Reload, LineUp, In,
                At, ConsoleType, PrintType, Early, Late
  <1>3. \A b \in Actors \ {p} : ~Printing(b) /\ print'[b] = print[b]
    BY <1>1, <1>2, Alone, PrintCharType DEF ConsoleType
  <1>4. PrintType' /\ Console_pos' \in Int /\ stray' \in BOOLEAN /\ UNCHANGED nested
    BY <1>1, PrintCharType, PrintCharPosition DEF ConsoleType
  <1>5. \A b \in Actors \ {p} : ~Printing(b)'
    BY <1>3 DEF Printing
  <1>6. /\ print[p].c \in Plain /\ At(p) \notin {"back", "erase"} /\ p \in DOMAIN print
        /\ "at" \in DOMAIN print[p] /\ Console_pos \in Int
        /\ At(p) \in {"store", "up"} => pos \in Int
    BY <1>1, <1>2 DEF ConsoleType, PrintType, Plain
  <1>7. /\ ~stray /\ Console_pos >= start
        /\ At(p) = "store" => start <= pos /\ pos < end
        /\ At(p) = "up" => LineBack <= pos /\ pos < end + C
        /\ At(p) \in Early => Console_pos < end
        /\ At(p) \in Late => Console_pos < end + C
        /\ At(p) \in Scrolling => LineBack <= Console_pos
    BY <1>1, <1>3 DEF Places, PrinterPlaces
  <1>8. /\ C \in Nat /\ start = C /\ end \in Nat /\ nested \in Nat /\ end >= 3 * C + nested /\ C > 1
        /\ LineBack = end - C - nested /\ LineBack' = LineBack
    BY <1>4, Geometry DEF ConsoleType, LineBack
  <1>. DEFINE Placed == /\ ~stray' /\ Console_pos' >= start
                        /\ ~Printing(p)' => Console_pos' < end
                        /\ PrinterPlaces(p)'
  <1>9. SUFFICES Placed
    BY <1>4, <1>5, AlonePlaces
  <1>. USE DEF At, Printing, In, To, LoadPos, Return, PrinterPlaces, Early, Late, Scrolling
  <1>10. CASE Branch(p)
    <2>1. print[p].c # "BS" /\ Console_pos' = Console_pos /\ stray' = stray
      BY <1>6, <1>10 DEF Branch, Plain, history
    <2>2. CASE print[p].c = "NO"
      BY <1>6, <1>7, <1>8, <1>10, <2>1, <2>2, <1>1, <1>2 DEF Branch
    <2>3. CASE print[p].c # "NO"
      BY <1>6, <1>7, <1>8, <1>10, <2>1, <2>3, <1>1, <1>2 DEF Branch
    <2>. QED BY <2>2, <2>3
  <1>11. CASE StorePos(p)
    <2>1. /\ print[p].c # "BS" => pos < Console_pos' /\ Console_pos' <= pos + C
          /\ Console_pos' \in Int
      BY <1>6, <1>11, MovedForward DEF StorePos
    <2>2. ~Outside(pos)
      BY <1>6, <1>7, <1>8, <1>11, InBuffer DEF StorePos
    <2>3. ~stray'
      BY <1>7, <1>11, <2>2 DEF StorePos
    <2>4. print[p].c # "BS"
      BY <1>6 DEF Plain
    <2>. QED BY <1>6, <1>7, <1>8, <1>11, <2>1, <2>3, <2>4 DEF StorePos
  <1>12. CASE Check(p)
    BY <1>1, <1>2, <1>6, <1>7, <1>8, <1>12 DEF Check, BelowScreen, history
  <1>13. CASE Scroll(p)
    <2>1. Console_pos - 1 >= start /\ Console_pos - 1 < end + 2 * C
      BY <1>6, <1>7, <1>8, <1>13 DEF Scroll
    <2>2. ~Outside(Console_pos - 1)
      BY <1>6, <2>1, InBuffer
    <2>3. ~(Console_pos < start)
      BY <1>6, <1>7, <1>8
    <2>4. ~stray'
      BY <1>7, <1>13, <2>2, <2>3 DEF Scroll
    <2>. QED BY <1>2, <1>6, <1>7, <1>8, <1>13, <2>4 DEF Scroll
  <1>14. CASE Reload(p)
    BY <1>6, <1>7, <1>8, <1>14 DEF Reload, history
  <1>15. CASE LineUp(p)
    <2>1. Console_pos' = pos - C
      BY <1>15 DEF LineUp
    <2>. QED BY <1>6, <1>7, <1>8, <1>15, <1>1, <2>1 DEF LineUp, history
  <1>16. ~BackSpace(p) /\ ~Erase(p)
    BY <1>6 DEF BackSpace, Erase
  <1>. QED BY <1>10, <1>11, <1>12, <1>13, <1>14, <1>15, <1>16 DEF PrintCharStep

-----------------------------------------------------------------------------
(* The handler, inside a character of the processor it interrupts.         *)
LEMMA InsidePlaces ==
    ASSUME ConsoleType, Places, PrintType', Printing(Handler),
           \A p \in Printers : print'[p] = print[p], nested' = nested,
           ~stray', Console_pos' \in Int, Console_pos' >= CONSOLE_POS_START, HandlerPlaces',
           ~Printing(Handler)' => /\ Console_pos' < High
                                  /\ At(Host) \in Scrolling => LineBack <= Console_pos'
    PROVE  Places'
  <1>1. Host \in Printers /\ Printers \subseteq Actors /\ Handler \in Actors
    BY ConsoleAssumption DEF Actors
  <1>2. \A p \in Printers : At(p)' = At(p) /\ print'[p].pos = print[p].pos /\ (Printing(p)' <=> Printing(p))
    BY DEF At, Printing
  <1>3. \A p \in Printers \ {Host} : ~Printing(p) /\ At(p) \notin Early \cup Late
    BY <1>1 DEF Places, ConsoleType, PrintType
  <1>4. LineBack' = LineBack
    BY DEF LineBack
  <1>5. \A p \in Printers : PrinterPlaces(p)'
    <2>. TAKE p \in Printers
    <2>1. PrinterPlaces(p)
      BY DEF Places
    <2>2. CASE p = Host
      BY <1>1, <1>2, <1>4, <2>1, <2>2 DEF PrinterPlaces, High, Early, Late, Scrolling
    <2>3. CASE p # Host
      BY <1>2, <1>3, <1>4, <2>1, <2>3 DEF PrinterPlaces, Early, Late, Scrolling
    <2>. QED BY <2>2, <2>3
  <1>6. ASSUME \A a \in Actors : ~Printing(a)'
        PROVE  Console_pos' < CONSOLE_POS_END
    <2>1. ~Printing(Host) /\ At(Host) \notin Late
      BY <1>1, <1>2, <1>6 DEF ConsoleType, PrintType
    <2>. QED BY <1>1, <1>6, <2>1 DEF High
  <1>7. Printing(Handler)' => \A p \in Printers \ {Host} : ~Printing(p)'
    BY <1>2, <1>3
  <1>. QED BY <1>5, <1>6, <1>7 DEF Places

LEMMA HandlerKeepsPlaces ==
    ASSUME ConsoleType, Places, PrintCharStep(Handler)
    PROVE  Places'
  <1>. DEFINE C == CONSOLE_VGA_NUM_COLUMNS
              start == CONSOLE_POS_START
              end == CONSOLE_POS_END
              c == print[Handler].c
              pos == print[Handler].pos
              Returns == ~Printing(Handler)' => /\ Console_pos' < High
                                                /\ At(Host) \in Scrolling => LineBack <= Console_pos'
  <1>1. Handler \in Actors /\ Handler \in DOMAIN print /\ Handler \notin Printers
        /\ Host \in Printers /\ Host \in Actors /\ Host # Handler
    BY ConsoleAssumption DEF Actors, ConsoleType, PrintType
  <1>2. Printing(Handler)
    BY <1>1 DEF PrintCharStep, Branch, BackSpace, StorePos, Erase, Check, Scroll, Reload, LineUp, In,
                At, ConsoleType, PrintType, Early, Late
  <1>3. PrintType' /\ (\A p \in Printers : print'[p] = print[p])
    BY <1>1, PrintCharType DEF ConsoleType, Actors
  <1>4. Console_pos' \in Int /\ stray' \in BOOLEAN /\ nested' = nested
    BY <1>1, PrintCharPosition
  <1>5. /\ c \in Plain \cup {"BS"} /\ "at" \in DOMAIN print[Handler] /\ Console_pos \in Int
        /\ At(Handler) \in {"store", "up"} => pos \in Int
        /\ At(Handler) \in {"back", "erase"} => c = "BS"
    BY <1>1, <1>2 DEF ConsoleType, PrintType
  <1>6. /\ C \in Nat /\ start = C /\ end \in Nat /\ nested \in Nat /\ end >= 3 * C + nested /\ C > 1
        /\ LineBack = end - C - nested
    BY Geometry DEF ConsoleType, LineBack
  <1>7. /\ Low \in Int /\ High \in Int /\ Low >= start /\ Low <= end - C
        /\ High >= end /\ High <= end + C
        /\ At(Host) \in Scrolling => Low = LineBack
        /\ At(Host) \notin Scrolling => Low = start
    BY <1>6 DEF Low, High
  <1>8. Low' = Low /\ High' = High /\ At(Host)' = At(Host) /\ LineBack' = LineBack
    BY <1>1, <1>3, <1>4 DEF Low, High, LineBack, At
  <1>9. ~stray /\ Console_pos >= start /\ HandlerPlaces
    BY DEF Places
  <1>10. SUFFICES ~stray' /\ Console_pos' >= start /\ HandlerPlaces' /\ Returns
    BY <1>2, <1>3, <1>4, InsidePlaces
  <1>. USE DEF At, Printing, In, To, LoadPos, Return, HandlerPlaces, Early, Late
  <1>11. CASE Branch(Handler)
    <2>1. Console_pos' = Console_pos /\ stray' = stray
      BY <1>11 DEF Branch, history
    <2>2. CASE c = "NO"
      BY <1>1, <1>2, <1>5, <1>6, <1>7, <1>8, <1>9, <1>11, <2>1, <2>2 DEF Branch
    <2>3. CASE c = "BS"
      BY <1>1, <1>2, <1>5, <1>6, <1>7, <1>8, <1>9, <1>11, <2>1, <2>3 DEF Branch, AtStart
    <2>4. CASE c # "NO" /\ c # "BS"
      BY <1>1, <1>2, <1>5, <1>6, <1>7, <1>8, <1>9, <1>11, <2>1, <2>4 DEF Branch
    <2>. QED BY <2>2, <2>3, <2>4
  <1>12. CASE BackSpace(Handler)
    BY <1>1, <1>2, <1>5, <1>6, <1>7, <1>8, <1>9, <1>12 DEF BackSpace, history
  <1>13. CASE StorePos(Handler)
    <2>1. /\ c = "BS" => Console_pos' = pos - 1
          /\ c # "BS" => pos < Console_pos' /\ Console_pos' <= pos + C
      BY <1>5, <1>13, MovedForward DEF StorePos
    <2>2. ~Outside(pos)
      BY <1>5, <1>6, <1>7, <1>9, <1>13, InBuffer DEF StorePos
    <2>3. ~stray'
      BY <1>9, <1>13, <2>2 DEF StorePos
    <2>4. CASE c = "BS"
      BY <1>1, <1>2, <1>4, <1>5, <1>6, <1>7, <1>8, <1>9, <1>13, <2>1, <2>3, <2>4 DEF StorePos
    <2>5. CASE c # "BS"
      BY <1>1, <1>2, <1>4, <1>5, <1>6, <1>7, <1>8, <1>9, <1>13, <2>1, <2>3, <2>5 DEF StorePos
    <2>. QED BY <2>4, <2>5
  <1>14. CASE Erase(Handler)
    <2>1. ~Outside(Console_pos)
      BY <1>5, <1>6, <1>7, <1>9, <1>14, InBuffer DEF Erase
    <2>2. ~stray'
      BY <1>9, <1>14, <2>1 DEF Erase
    <2>. QED BY <1>1, <1>2, <1>5, <1>6, <1>7, <1>8, <1>9, <1>14, <2>2 DEF Erase
  <1>15. CASE Check(Handler)
    BY <1>1, <1>2, <1>5, <1>6, <1>7, <1>8, <1>9, <1>15 DEF Check, BelowScreen, history
  <1>16. CASE Scroll(Handler)
    <2>1. ~Outside(Console_pos - 1) /\ ~(Console_pos < start)
      BY <1>5, <1>6, <1>7, <1>9, <1>16, InBuffer DEF Scroll
    <2>2. ~stray'
      BY <1>9, <1>16, <2>1 DEF Scroll
    <2>. QED BY <1>1, <1>2, <1>5, <1>6, <1>7, <1>8, <1>9, <1>16, <2>2 DEF Scroll
  <1>17. CASE Reload(Handler)
    BY <1>1, <1>2, <1>5, <1>6, <1>7, <1>8, <1>9, <1>17 DEF Reload, history
  <1>18. CASE LineUp(Handler)
    <2>1. Console_pos' = pos - C
      BY <1>18 DEF LineUp
    <2>. QED BY <1>1, <1>2, <1>5, <1>6, <1>7, <1>8, <1>9, <1>18, <2>1 DEF LineUp, history
  <1>. QED BY <1>11, <1>12, <1>13, <1>14, <1>15, <1>16, <1>17, <1>18 DEF PrintCharStep

-----------------------------------------------------------------------------
(* What a key types.                                                       *)
LEMMA KeyTypes ==
    ASSUME sent[1] \in Codes
    PROVE  Keyboard_GetChar \in Plain \cup {"BS"}
  <1>1. \A code \in Codes : /\ Keyboard_normalmap[code] \in Plain \cup {"BS"}
                            /\ Keyboard_ctlmap[code] \in Plain \cup {"BS"}
    BY DEF Keyboard_normalmap, Keyboard_ctlmap, Plain
  <1>2. sent[1] < 128 => PressedCode \in Codes
    BY DEF PressedCode, Codes
  <1>3. sent[1] < 128 \/ sent[1] >= 128
    BY DEF Codes
  <1>4. CASE sent[1] >= 128
    BY <1>4 DEF Keyboard_GetChar, Plain
  <1>5. CASE ~(sent[1] >= 128)
    BY <1>1, <1>2, <1>3, <1>5 DEF Keyboard_GetChar
  <1>. QED BY <1>4, <1>5

-----------------------------------------------------------------------------
(* The beginnings of characters, while nobody races.                       *)
LEMMA PrinterBegins ==
    ASSUME ConsoleType, OnePrinter, Places, NEW p \in Printers, Running(p), Console_VPrint(p), races' = 0, races = 0
    PROVE  PrintType' /\ Places'
  <1>1. p \in Actors /\ Handler \in Actors /\ p # Handler /\ Printers \subseteq Actors /\ Host \in Printers
    BY ConsoleAssumption DEF Actors
  <1>2. At(p) = "next" /\ ~Printing(p) /\ Console_PrintChar(p, Head(message[p]))
    BY <1>1 DEF Console_VPrint, In, At, ConsoleType, PrintType, Early, Late
  <1>3. \A q \in Printers : ~Printing(q)
    BY <1>2 DEF OnePrinter, Owns
  <1>4. ~Printing(Handler)
    <2>1. CASE p = Host
      BY <1>1, <2>1 DEF Running, In, At, ConsoleType, PrintType, Early, Late
    <2>2. CASE p # Host
      <3>1. ~Race(p)
        BY <1>2 DEF Console_PrintChar
      <3>. QED BY <1>1, <2>2, <3>1 DEF Race
    <2>. QED BY <2>1, <2>2
  <1>5. Console_pos < CONSOLE_POS_END
    BY <1>3, <1>4 DEF Places, Actors
  <1>6. /\ print' = [print EXCEPT ![p] = [at |-> "char", c |-> Head(message[p])]]
        /\ Console_pos' = Console_pos /\ stray' = stray
    BY <1>2 DEF Console_PrintChar, Console_VPrint
  <1>7. Head(message[p]) \in Plain
    BY DEF ConsoleType, Console_VPrint
  <1>8. PrintType' /\ Printing(p)' /\ \A b \in Actors \ {p} : ~Printing(b)'
    BY <1>1, <1>3, <1>4, <1>6, <1>7 DEF ConsoleType, PrintType, Printing, At, Actors, Early, Late, Plain
  <1>9. PrinterPlaces(p)'
    BY <1>1, <1>5, <1>6 DEF PrinterPlaces, At, Early, Late, Scrolling, ConsoleType, PrintType
  <1>. QED BY <1>6, <1>8, <1>9, AlonePlaces DEF Places, ConsoleType

LEMMA HandlerBegins ==
    ASSUME ConsoleType, Places, In(Handler, "out"), NEW c \in Plain \cup {"BS"},
           Console_PrintChar(Handler, c), UNCHANGED <<Console_pos, stray>>, races' = 0, races = 0
    PROVE  PrintType' /\ Places'
  <1>1. Host \in Actors /\ Handler \in Actors /\ Handler \notin Printers /\ Printers \subseteq Actors /\ Host \in Printers
    BY ConsoleAssumption DEF Actors
  <1>2. ~Printing(Handler)
    BY <1>1 DEF In, At, ConsoleType, PrintType, Early, Late
  <1>3. \A p \in Printers \ {Host} : ~Printing(p)
    <2>. SUFFICES ASSUME NEW p \in Printers \ {Host}, Printing(p) PROVE FALSE
      OBVIOUS
    <2>1. ~Race(Handler)
      BY DEF Console_PrintChar
    <2>2. {Handler, p} # {Host, Handler}
      BY <1>1
    <2>. QED BY <1>1, <2>1, <2>2 DEF Race
  <1>4. /\ print' = [print EXCEPT ![Handler] = [at |-> "char", c |-> c]]
        /\ nested' = nested + IF Printing(Host) THEN 1 ELSE 0
        /\ nested \in Nat
    BY <1>1 DEF Console_PrintChar, ConsoleType
  <1>5. PrintType'
    BY <1>1, <1>4 DEF ConsoleType, PrintType, Printing, At, Actors, Early, Late, Plain
  <1>6. At(Handler)' = "char" /\ Printing(Handler)' /\ \A p \in Printers : print'[p] = print[p]
    BY <1>1, <1>4 DEF ConsoleType, PrintType, Printing, At, Actors
  <1>7. \A p \in Printers : At(p)' = At(p) /\ print'[p].pos = print[p].pos /\ (Printing(p)' <=> Printing(p))
    BY <1>6 DEF At, Printing
  <1>8. /\ LineBack \in Int /\ LineBack' \in Int /\ LineBack' <= LineBack /\ Console_pos \in Int
        /\ Printing(Host) => LineBack' < LineBack
        /\ CONSOLE_POS_END \in Nat /\ CONSOLE_VGA_NUM_COLUMNS \in Nat
    BY <1>4, Geometry DEF LineBack, ConsoleType
  <1>9. \A p \in Printers : PrinterPlaces(p)'
    <2>. TAKE p \in Printers
    <2>1. PrinterPlaces(p) /\ (At(p) = "up" => print[p].pos \in Int)
      BY <1>1 DEF Places, ConsoleType, PrintType
    <2>. QED BY <1>6, <1>7, <1>8, <2>1 DEF PrinterPlaces
  <1>10. Console_pos < High /\ (At(Host) \in Scrolling => LineBack <= Console_pos /\ Printing(Host))
    <2>1. PrinterPlaces(Host)
      BY <1>1 DEF Places
    <2>2. CASE Printing(Host)
      BY <1>1, <1>2, <1>8, <2>1, <2>2 DEF PrinterPlaces, High, ConsoleType, PrintType, Early, Late, Scrolling
    <2>3. CASE ~Printing(Host)
      <3>1. Console_pos < CONSOLE_POS_END
        BY <1>2, <1>3, <2>3 DEF Places, Actors
      <3>2. At(Host) \notin Late
        BY <1>1, <2>3 DEF ConsoleType, PrintType
      <3>. QED BY <3>1, <3>2 DEF High, Late, Scrolling
    <2>. QED BY <2>2, <2>3
  <1>11. High' = High
    BY <1>1, <1>7 DEF High
  <1>12. HandlerPlaces'
    BY <1>1, <1>6, <1>7, <1>8, <1>10, <1>11 DEF HandlerPlaces, Early, Late
  <1>13. Printing(Handler)' => \A p \in Printers \ {Host} : ~Printing(p)'
    BY <1>3, <1>7
  <1>. QED BY <1>1, <1>5, <1>6, <1>9, <1>12, <1>13 DEF Places

-----------------------------------------------------------------------------
(* A printer outside a character: it calls, takes the lock, releases it.   *)
Labelled(p, label) ==
    /\ print' = [print EXCEPT ![p].at = label]
    /\ ~Printing(p) /\ label \in {"out", "spin", "next"}
    /\ UNCHANGED <<Console_pos, history>>

LEMMA LabelledKeeps ==
    ASSUME ConsoleType, NEW p \in Printers, NEW label, Labelled(p, label)
    PROVE  /\ PrintType' /\ ~Printing(p)' /\ At(p)' = label
           /\ \A b \in Actors \ {p} : print'[b] = print[b]
           /\ Places => Places'
  <1>1. p \in Actors /\ Handler \in Actors \ {p} /\ Printers \subseteq Actors /\ Host \in Printers
    BY ConsoleAssumption DEF Actors
  <1>2. PrintType' /\ ~Printing(p)' /\ At(p)' = label /\ \A b \in Actors \ {p} : print'[b] = print[b]
    BY <1>1 DEF Labelled, ConsoleType, PrintType, Printing, At, Actors, Early, Late
  <1>3. At(p) \notin Early \cup Late /\ At(p)' \notin Early \cup Late
    BY <1>1, <1>2 DEF Labelled, ConsoleType, PrintType
  <1>4. /\ \A b \in Actors \ {p} : At(b)' = At(b) /\ (Printing(b)' <=> Printing(b))
        /\ Console_pos' = Console_pos /\ stray' = stray /\ nested' = nested
    BY <1>2 DEF At, Printing, Labelled, history
  <1>5. ASSUME Places PROVE Places'
    <2>1. LineBack' = LineBack /\ Low' = Low /\ High' = High
      BY <1>1, <1>3, <1>4 DEF LineBack, Low, High, Early, Late, Scrolling
    <2>2. \A q \in Printers : PrinterPlaces(q)'
      <3>. TAKE q \in Printers
      <3>1. PrinterPlaces(q)
        BY <1>5 DEF Places
      <3>2. CASE q = p
        BY <1>3, <3>2 DEF PrinterPlaces, Early, Late, Scrolling
      <3>3. CASE q # p
        <4>1. print'[q] = print[q] /\ At(q)' = At(q) /\ (Printing(Handler)' <=> Printing(Handler))
          BY <1>1, <1>2, <1>4, <3>3
        <4>. QED BY <1>4, <2>1, <3>1, <4>1 DEF PrinterPlaces
      <3>. QED BY <3>2, <3>3
    <2>3. HandlerPlaces'
      <3>1. /\ print'[Handler] = print[Handler] /\ At(Handler)' = At(Handler) /\ HandlerPlaces
            /\ At(Host) \in Scrolling <=> At(Host)' \in Scrolling
        BY <1>1, <1>2, <1>3, <1>4, <1>5 DEF Places, Late, Scrolling
      <3>. QED BY <1>4, <2>1, <3>1 DEF HandlerPlaces
    <2>4. \A a \in Actors : Printing(a)' <=> Printing(a)
      BY <1>2, <1>4 DEF Labelled
    <2>. QED BY <1>1, <1>4, <1>5, <2>2, <2>3, <2>4 DEF Places
  <1>. QED BY <1>2, <1>5

LEMMA BeginsType ==
    ASSUME ConsoleType, NEW a \in Actors, NEW c \in Plain \cup {"BS"}, a \in Printers => c \in Plain,
           Console_PrintChar(a, c)
    PROVE  /\ PrintType' /\ nested' \in 0 .. MaxNested /\ races' \in Nat /\ races' >= races
           /\ \A b \in Actors \ {a} : print'[b] = print[b]
  <1>1. PrintType' /\ \A b \in Actors \ {a} : print'[b] = print[b]
    BY ConsoleAssumption DEF Console_PrintChar, ConsoleType, PrintType, Printing, At, Actors, Early, Late, Plain
  <1>2. nested' \in 0 .. MaxNested
    BY Geometry DEF Console_PrintChar, ConsoleType
  <1>3. races' \in Nat /\ races' >= races
    BY DEF Console_PrintChar, ConsoleType
  <1>. QED BY <1>1, <1>2, <1>3

(* The lock keeps the printers apart.                                      *)
LEMMA OwnersKeep ==
    ASSUME OnePrinter, Console_lock' = Console_lock, \A q \in Printers : Owns(q)' => Owns(q)
    PROVE  OnePrinter'
  BY DEF OnePrinter

-----------------------------------------------------------------------------
(* The steps of the printers and of the handler.                           *)
LEMMA PrintCharKeeps ==
    ASSUME CursorInv, NEW a \in Actors, PrintCharStep(a), a \in Printers => Running(a)
    PROVE  CursorInv'
  <1>1. ConsoleType /\ OnePrinter /\ (races = 0 => Places)
    BY DEF CursorInv
  <1>2. /\ PrintType' /\ (\A b \in Actors \ {a} : print'[b] = print[b])
        /\ Console_pos' \in Int /\ stray' \in BOOLEAN
        /\ UNCHANGED <<Console_lock, message, nested, races>>
    BY <1>1, PrintCharType, PrintCharPosition DEF ConsoleType
  <1>3. ConsoleType'
    BY <1>1, <1>2 DEF ConsoleType
  <1>4. Printing(a)
    BY <1>1 DEF PrintCharStep, Branch, BackSpace, StorePos, Erase, Check, Scroll, Reload, LineUp, In,
                At, ConsoleType, PrintType, Early, Late
  <1>5. \A q \in Printers : Owns(q)' => Owns(q)
    BY <1>2, <1>4 DEF Owns, At, Printing, Actors
  <1>6. OnePrinter'
    BY <1>1, <1>2, <1>5, OwnersKeep
  <1>7. races = 0 => Places'
    BY <1>1, PrinterKeepsPlaces, HandlerKeepsPlaces DEF Actors
  <1>. QED BY <1>2, <1>3, <1>6, <1>7 DEF CursorInv

LEMMA LabelKeeps ==
    ASSUME CursorInv, NEW p \in Printers, NEW label, Labelled(p, label),
           message' \in [Printers -> Seq(Plain)],
           \/ Console_lock' = Console_lock /\ label # "next"
           \/ ~Console_lock /\ Console_lock'
           \/ Owns(p) /\ label # "next"
    PROVE  CursorInv'
  <1>1. ConsoleType /\ OnePrinter /\ (races = 0 => Places)
    BY DEF CursorInv
  <1>2. /\ PrintType' /\ ~Printing(p)' /\ At(p)' = label
        /\ \A b \in Actors \ {p} : print'[b] = print[b]
        /\ races = 0 => Places'
    BY <1>1, LabelledKeeps
  <1>3. UNCHANGED <<Console_pos, stray, nested, races>>
    BY DEF Labelled, history
  <1>4. ConsoleType'
    BY <1>1, <1>2, <1>3 DEF ConsoleType
  <1>5. /\ \A q \in Printers \ {p} : Owns(q)' <=> Owns(q)
        /\ Owns(p)' <=> label = "next"
    BY <1>2 DEF Owns, At, Printing, Actors
  <1>6. OnePrinter'
    BY <1>1, <1>5 DEF OnePrinter
  <1>. QED BY <1>2, <1>3, <1>4, <1>6 DEF CursorInv

LEMMA VPrintKeeps ==
    ASSUME CursorInv, NEW p \in Printers, Running(p), Console_VPrint(p)
    PROVE  CursorInv'
  <1>. DEFINE c == Head(message[p])
  <1>1. ConsoleType /\ OnePrinter /\ (races = 0 => Places) /\ p \in Actors /\ Printers \subseteq Actors
    BY DEF CursorInv, Actors
  <1>2. c \in Plain /\ message' \in [Printers -> Seq(Plain)]
    BY <1>1 DEF ConsoleType, Console_VPrint
  <1>3. /\ Console_PrintChar(p, c) /\ At(p) = "next"
        /\ UNCHANGED <<Console_pos, Console_lock, stray>>
    BY DEF Console_VPrint, In, At
  <1>4. /\ PrintType' /\ nested' \in 0 .. MaxNested /\ races' \in Nat /\ races' >= races
        /\ \A b \in Actors \ {p} : print'[b] = print[b]
    BY <1>1, <1>2, <1>3, BeginsType
  <1>5. ConsoleType'
    BY <1>1, <1>2, <1>3, <1>4 DEF ConsoleType
  <1>6. OnePrinter'
    BY <1>1, <1>3, <1>4, OwnersKeep DEF Owns, At, Printing
  <1>7. races' = 0 => Places'
    BY <1>1, <1>4, PrinterBegins DEF ConsoleType
  <1>. QED BY <1>5, <1>6, <1>7 DEF CursorInv

LEMMA InterruptKeeps ==
    ASSUME CursorInv, In(Handler, "out"), NEW c \in Plain \cup {"BS"}, Console_PrintChar(Handler, c),
           UNCHANGED <<Console_pos, Console_lock, message, stray>>
    PROVE  CursorInv'
  <1>1. /\ ConsoleType /\ OnePrinter /\ (races = 0 => Places)
        /\ Handler \in Actors /\ Handler \notin Printers /\ Printers \subseteq Actors
    BY ConsoleAssumption DEF CursorInv, Actors
  <1>2. /\ PrintType' /\ nested' \in 0 .. MaxNested /\ races' \in Nat /\ races' >= races
        /\ \A b \in Actors \ {Handler} : print'[b] = print[b]
    BY <1>1, BeginsType
  <1>3. ConsoleType'
    BY <1>1, <1>2 DEF ConsoleType
  <1>4. OnePrinter'
    BY <1>1, <1>2, OwnersKeep DEF Owns, At, Printing
  <1>5. races' = 0 => Places'
    BY <1>1, <1>2, HandlerBegins DEF ConsoleType
  <1>. QED BY <1>3, <1>4, <1>5 DEF CursorInv

-----------------------------------------------------------------------------
(* The first code that is on its way is one.                               *)
LEMMA SentCodes ==
    ASSUME KeyboardInv, sent # << >>
    PROVE  sent[1] \in Codes
  <1>1. ASSUME NEW codes, NEW escaped, NEW clears, Coming(codes, escaped, clears)
        PROVE  sent = codes
    BY <1>1 DEF Coming
  <1>2. CASE Making
    <2>1. PICK code \in MakeCodes : sent = <<code>> \/ sent = <<\hE0, code>>
      BY <1>1, <1>2 DEF Making
    <2>2. sent[1] = code \/ sent[1] = \hE0
      BY <2>1
    <2>3. code \in Codes /\ \hE0 \in Codes
      BY DEF Codes, MakeCodes
    <2>. QED BY <2>2, <2>3
  <1>3. CASE Breaking
    <2>1. PICK code \in MakeCodes : sent = <<code + 128>> \/ sent = <<\hE0, code + 128>>
      BY <1>1, <1>3, ZenonT(60) DEF Breaking
    <2>2. sent[1] = code + 128 \/ sent[1] = \hE0
      BY <2>1
    <2>3. code + 128 \in Codes /\ \hE0 \in Codes
      BY DEF Codes, MakeCodes
    <2>. QED BY <2>2, <2>3
  <1>4. CASE Pausing
    <2>1. \/ sent = <<\hE1, \h1D, \h45, \hE1, \h9D, \hC5>> \/ sent = <<\h1D, \h45, \hE1, \h9D, \hC5>>
          \/ sent = <<\h45, \hE1, \h9D, \hC5>> \/ sent = <<\hE1, \h9D, \hC5>>
          \/ sent = <<\h9D, \hC5>> \/ sent = <<\hC5>>
      BY <1>1, <1>4, ZenonT(60) DEF Pausing
    <2>2. sent[1] \in {\hE1, \h1D, \h45, \h9D, \hC5}
      BY <2>1
    <2>. QED BY <2>2 DEF Codes
  <1>5. CASE ScreenPrinting
    <2>1. \/ sent = <<\hE0, \h2A, \hE0, \h37>> \/ sent = <<\hE0, \hB7, \hE0, \hAA>>
          \/ sent = <<\h2A, \hE0, \h37>> \/ sent = <<\hB7, \hE0, \hAA>>
          \/ sent = <<\hE0, \h37>> \/ sent = <<\hE0, \hAA>> \/ sent = <<\h37>> \/ sent = <<\hAA>>
      BY <1>1, <1>5, ZenonT(60) DEF ScreenPrinting
    <2>2. sent[1] \in {\hE0, \h2A, \hB7, \h37, \hAA}
      BY <2>1
    <2>. QED BY <2>2 DEF Codes
  <1>. QED BY <1>2, <1>3, <1>4, <1>5 DEF KeyboardInv, Coming

LEMMA CursorStep ==
    ASSUME KeyboardInv, CursorInv, [Next]_vars
    PROVE  CursorInv'
  <1>1. ConsoleType /\ OnePrinter /\ Handler \in Actors /\ Handler \notin Printers /\ Printers \subseteq Actors
    BY ConsoleAssumption DEF CursorInv, Actors
  <1>2. ASSUME NEW p \in Printers, GetToWork(p)
        PROVE  CursorInv'
    <2>1. Message \in Seq(Plain)
      BY MessageAssumption DEF Plain
    <2>2. message' \in [Printers -> Seq(Plain)]
      BY <1>1, <1>2, <2>1 DEF GetToWork, Console_Print, ConsoleType
    <2>3. Labelled(p, "spin") /\ Console_lock' = Console_lock
      BY <1>1, <1>2 DEF GetToWork, Console_Print, Labelled, In, To, At, ConsoleType, PrintType, Early, Late
    <2>. QED BY <2>2, <2>3, LabelKeeps
  <1>3. ASSUME NEW p \in Printers, PrintStep(p)
        PROVE  CursorInv'
    <2>1. CASE TakeConsole(p)
      <3>1. Labelled(p, "next") /\ ~Console_lock /\ Console_lock' /\ message' \in [Printers -> Seq(Plain)]
        BY <1>1, <2>1 DEF TakeConsole, Labelled, In, To, At, ConsoleType, PrintType, Early, Late
      <3>. QED BY <3>1, LabelKeeps
    <2>2. CASE ReleaseConsole(p)
      <3>1. /\ Labelled(p, "out") /\ Owns(p) /\ message' \in [Printers -> Seq(Plain)]
        BY <1>1, <2>2 DEF ReleaseConsole, Labelled, Owns, In, To, At, ConsoleType, PrintType, Early, Late
      <3>. QED BY <3>1, LabelKeeps
    <2>3. CASE Console_VPrint(p)
      BY <1>3, <2>3, VPrintKeeps DEF PrintStep
    <2>4. CASE PrintCharStep(p)
      BY <1>1, <1>3, <2>4, PrintCharKeeps DEF PrintStep
    <2>. QED BY <1>3, <2>1, <2>2, <2>3, <2>4 DEF PrintStep, PrinterStep
  <1>4. CASE Keyboard_HandleInterrupt
    <2>1. Keyboard_GetChar \in Plain \cup {"BS"}
      BY <1>4, SentCodes, KeyTypes DEF Keyboard_HandleInterrupt, TakeCode
    <2>. QED BY <1>4, <2>1, InterruptKeeps DEF Keyboard_HandleInterrupt
  <1>5. CASE SpuriousInterrupt
    BY <1>5, InterruptKeeps DEF SpuriousInterrupt, Plain
  <1>6. CASE HandlerStep
    BY <1>1, <1>6, PrintCharKeeps DEF HandlerStep
  <1>7. CASE UNCHANGED consolevars
    <2>1. UNCHANGED <<Console_pos, Console_lock, message, print, stray, nested, races>>
      BY <1>7 DEF consolevars, history
    <2>2. ConsoleType'
      BY <1>1, <2>1 DEF ConsoleType, PrintType, At, Printing
    <2>3. OnePrinter'
      BY <1>1, <2>1 DEF OnePrinter, Owns, At, Printing
    <2>4. Places => Places'
      BY <2>1 DEF Places, PrinterPlaces, HandlerPlaces, LineBack, Low, High, At, Printing
    <2>. QED BY <2>1, <2>2, <2>3, <2>4 DEF CursorInv
  <1>. QED BY <1>2, <1>3, <1>4, <1>5, <1>6, <1>7 DEF Next, ProcessorStep, Type, vars

(* CursorInv is inductive: a character of the handler begins and ends      *)
(* inside a character of the processor it interrupts, and moves the        *)
(* position back by no more than a cell, or a line once it is below the    *)
(* screen.                                                                 *)
THEOREM CursorInvariance == Spec => []CursorInv
  <1>1. Init => CursorInv
    <2>. SUFFICES ASSUME Init PROVE CursorInv
      OBVIOUS
    <2>1. /\ print = [a \in Actors |-> [at |-> "out"]] /\ Console_pos = CONSOLE_POS_START
          /\ message = [p \in Printers |-> << >>] /\ ~stray /\ nested = 0 /\ races = 0
          /\ stray \in BOOLEAN
      BY DEF Init, ConsoleInit
    <2>2. \A a \in Actors : At(a) = "out" /\ ~Printing(a) /\ "at" \in DOMAIN print[a]
      BY <2>1 DEF At, Printing
    <2>3. Handler \in Actors /\ Printers \subseteq Actors
      BY DEF Actors
    <2>4. ConsoleType
      BY <2>1, <2>2, <2>3, Geometry DEF ConsoleType, PrintType, Early, Late
    <2>5. OnePrinter
      BY <2>2, <2>3 DEF OnePrinter, Owns
    <2>6. Places
      BY <2>1, <2>2, <2>3, Geometry DEF Places, PrinterPlaces, HandlerPlaces, Early, Late, Scrolling
    <2>. QED BY <2>4, <2>5, <2>6 DEF CursorInv
  <1>2. KeyboardInv /\ CursorInv /\ [Next]_vars => CursorInv'
    BY CursorStep
  <1>. QED BY <1>1, <1>2, KeyboardInvariance, PTL DEF Spec

(* Interrupts in the middle of a character do no harm: unless two CPUs     *)
(* print characters at once, no write of Console_PrintChar leaves the text *)
(* lines of the buffer, and the cursor is on the screen when nobody        *)
(* prints, whatever the size of the screen, the messages and the keys.     *)
THEOREM InterruptsDoNoHarm == Spec => [](races = 0 => CursorOnScreen)
  <1>1. CursorInv => (races = 0 => CursorOnScreen)
    BY Geometry DEF CursorInv, Places, CursorOnScreen
  <1>. QED BY <1>1, CursorInvariance, PTL
=============================================================================
