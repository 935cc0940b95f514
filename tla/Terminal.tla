------------------------------ MODULE Terminal ------------------------------
(***************************************************************************)
(* The console and the keyboard together, while processors get to work:    *)
(* each of them prints a message (GetToWork) and then the frequency of its *)
(* timer (LocalAPIC_GetTimerFrequency), and the keyboard interrupts        *)
(* the boot processor, wherever it is.                                     *)
(***************************************************************************)
EXTENDS Console, Keyboard

CONSTANTS Message,   \* the characters of a message
          MaxTyped   \* bound: what the keyboard does while messages are printed

VARIABLES said,      \* how many messages each processor has begun
          typed      \* keys pressed or released, and spurious interrupts, meanwhile

vars == <<consolevars, keyboardvars, said, typed>>

(* The kernel's messages have no backspaces in them.                       *)
ASSUME MessageAssumption == Message \in Seq({"NO", "NL", "TAB", "glyph"}) \ {<< >>}

(* The handler runs with the boot processor's interrupts disabled.         *)
Running(p) == p = Host => In(Handler, "out")

GetToWork(p) ==
    /\ Running(p) /\ said[p] < 2
    /\ Console_Print(p, Message)
    /\ said' = [said EXCEPT ![p] = @ + 1]
    /\ UNCHANGED <<keyboardvars, typed>>

PrintStep(p) == Running(p) /\ PrinterStep(p) /\ UNCHANGED <<keyboardvars, said, typed>>

AllSaid == \A p \in Printers : said[p] = 2 /\ In(p, "out")

Typed ==
    /\ typed' = IF AllSaid THEN 0 ELSE typed + 1
    /\ typed' <= MaxTyped

Type ==
    /\ \E k \in Keys : Press(k) \/ Release(k)
    /\ Typed
    /\ UNCHANGED <<consolevars, said>>

Keyboard_HandleInterrupt ==
    /\ In(Handler, "out")
    /\ TakeCode
    /\ Console_PrintChar(Handler, Keyboard_GetChar)
    /\ UNCHANGED <<Console_pos, Console_lock, message, stray, said, typed>>

(* An interrupt without a code: Keyboard_GetChar returns -1, a glyph.      *)
SpuriousInterrupt ==
    /\ In(Handler, "out")
    /\ sent = << >>
    /\ Typed
    /\ Console_PrintChar(Handler, "glyph")
    /\ UNCHANGED <<Console_pos, Console_lock, message, stray, keyboardvars, said>>

HandlerStep == PrintCharStep(Handler) /\ UNCHANGED <<keyboardvars, said, typed>>

Init ==
    /\ ConsoleInit
    /\ KeyboardInit
    /\ said = [p \in Printers |-> 0]
    /\ typed = 0

ProcessorStep(p) == GetToWork(p) \/ PrintStep(p)

Next == \/ \E p \in Printers : ProcessorStep(p)
        \/ Type \/ Keyboard_HandleInterrupt \/ SpuriousInterrupt \/ HandlerStep

Spec == Init /\ [][Next]_vars
=============================================================================
