------------------------------ MODULE Console ------------------------------
(***************************************************************************)
(* The kernel's console (src/kernel/devices/console): Console_Print puts   *)
(* the characters of a message on the screen under Console_lock; the       *)
(* interrupt handler of the keyboard puts single characters there without  *)
(* the lock.  Both call Console_PrintChar, and nothing guards Console_pos. *)
(*                                                                         *)
(* The build does not optimise: every use of Console_pos is a load or a    *)
(* store of its own, and each is a step.  What is on the screen is left    *)
(* out; kept is whether a write went outside the text buffer or into the   *)
(* line of the banner.  A message is the sequence of characters that       *)
(* Console_VPrint makes of it: NO, the three control characters, or a      *)
(* glyph.  The preemption veto that Console_lock brings is in Scheduler.   *)
(***************************************************************************)
EXTENDS Integers, Sequences

CONSTANTS Printers,    \* CPUs that call Console_Print
          Host,        \* the one of them that the keyboard interrupts
          Handler,     \* the keyboard's interrupt handler
          CONSOLE_VGA_NUM_LINES,
          CONSOLE_VGA_NUM_COLUMNS,
          TabWidth,    \* 3
          BufferLines, \* lines of the text buffer (204)
          MaxNested,   \* bound: interrupts during one Console_PrintChar
          MaxRaces     \* bound on races

(* A screen of 25 lines of 80 cells, in a buffer that goes on behind it;   *)
(* keys do not come a screen full at a time.                               *)
ASSUME ConsoleAssumption ==
    /\ Host \in Printers /\ Handler \notin Printers
    /\ {CONSOLE_VGA_NUM_LINES, CONSOLE_VGA_NUM_COLUMNS, BufferLines} \subseteq Nat \ {0}
    /\ TabWidth \in 1 .. CONSOLE_VGA_NUM_COLUMNS - 1
    /\ MaxNested \in Nat /\ MaxNested <= (CONSOLE_VGA_NUM_LINES - 3) * CONSOLE_VGA_NUM_COLUMNS
    /\ BufferLines >= CONSOLE_VGA_NUM_LINES + 2

VARIABLES Console_pos,
          Console_lock,
          message,    \* what each printer's Console_Print has still to put out
          print,      \* where each actor is in Console_Print and Console_PrintChar
          stray,      \* history: a write missed the text lines of the buffer
          nested,     \* interrupts since Host began a character
          races       \* characters begun while another CPU was printing one

history == <<stray, nested, races>>
consolevars == <<Console_pos, Console_lock, message, print, history>>

Actors == Printers \cup {Handler}

CONSOLE_POS_START == CONSOLE_VGA_NUM_COLUMNS
CONSOLE_POS_END == CONSOLE_VGA_NUM_COLUMNS * CONSOLE_VGA_NUM_LINES

Outside(cell) == cell < CONSOLE_POS_START \/ cell >= BufferLines * CONSOLE_VGA_NUM_COLUMNS

In(a, label) == print[a].at = label
To(a, label) == print' = [print EXCEPT ![a].at = label]
LoadPos(a, label) == print' = [print EXCEPT ![a] = [at |-> label, c |-> print[a].c, pos |-> Console_pos]]

Printing(a) == "c" \in DOMAIN print[a]

-----------------------------------------------------------------------------
(* Console_PrintChar                                                       *)

Race(a) == \E b \in Actors \ {a} : Printing(b) /\ {a, b} # {Host, Handler}

Console_PrintChar(a, char) ==
    /\ print' = [print EXCEPT ![a] = [at |-> "char", c |-> char]]
    /\ races' = races + IF Race(a) THEN 1 ELSE 0
    /\ races' <= MaxRaces
    /\ nested' = IF a = Handler /\ Printing(Host) THEN nested + 1 ELSE IF a = Host THEN 0 ELSE nested
    /\ nested' <= MaxNested

(* Back to the loop of Console_VPrint, or out of the interrupt handler.    *)
Return(a) == [at |-> IF a = Handler THEN "out" ELSE "next"]

AtStart == Console_pos = CONSOLE_POS_START

(* The branches on the character, up to their first load of Console_pos.   *)
Branch(a) ==
    LET c == print[a].c IN
    /\ In(a, "char")
    /\ CASE c = "NO" -> To(a, "check")
         [] c = "BS" -> IF AtStart THEN print' = [print EXCEPT ![a] = Return(a)] ELSE To(a, "back")
         [] OTHER -> LoadPos(a, "store")
    /\ UNCHANGED <<Console_pos, Console_lock, message, history>>

BackSpace(a) ==
    /\ In(a, "back")
    /\ LoadPos(a, "store")
    /\ UNCHANGED <<Console_pos, Console_lock, message, history>>

Moved(c, pos) ==
    CASE c = "NL" -> (pos \div CONSOLE_VGA_NUM_COLUMNS + 1) * CONSOLE_VGA_NUM_COLUMNS
      [] c = "TAB" -> pos + TabWidth
      [] c = "BS" -> pos - 1
      [] OTHER -> pos + 1

StorePos(a) ==
    LET c == print[a].c
        pos == print[a].pos IN
    /\ In(a, "store")
    /\ Console_pos' = Moved(c, pos)
    /\ stray' = (stray \/ (c = "glyph" /\ Outside(pos)))
    /\ print' = [print EXCEPT ![a] = [at |-> IF c = "BS" THEN "erase" ELSE "check", c |-> c]]
    /\ UNCHANGED <<Console_lock, message, nested, races>>

Erase(a) ==
    /\ In(a, "erase")
    /\ stray' = (stray \/ Outside(Console_pos))
    /\ To(a, "check")
    /\ UNCHANGED <<Console_pos, Console_lock, message, nested, races>>

(* The screen scrolls, or the call ends: Console_ClearLine clears the line *)
(* behind the last, and Console_SetCursorPosition shows the cursor.        *)
BelowScreen_Late == Console_pos > CONSOLE_POS_END
BelowScreen == Console_pos >= CONSOLE_POS_END

Check(a) ==
    /\ In(a, "check")
    /\ print' = [print EXCEPT ![a] = IF BelowScreen THEN [@ EXCEPT !.at = "scroll"] ELSE Return(a)]
    /\ UNCHANGED <<Console_pos, Console_lock, message, history>>

(* memmove of the cells up to Console_pos; a Console_pos before the start  *)
(* makes its size negative.                                                *)
Scroll(a) ==
    /\ In(a, "scroll")
    /\ stray' = (stray \/ Console_pos < CONSOLE_POS_START \/ Outside(Console_pos - 1))
    /\ To(a, "reload")
    /\ UNCHANGED <<Console_pos, Console_lock, message, nested, races>>

Reload(a) ==
    /\ In(a, "reload")
    /\ LoadPos(a, "up")
    /\ UNCHANGED <<Console_pos, Console_lock, message, history>>

LineUp(a) ==
    /\ In(a, "up")
    /\ Console_pos' = print[a].pos - CONSOLE_VGA_NUM_COLUMNS
    /\ print' = [print EXCEPT ![a] = Return(a)]
    /\ UNCHANGED <<Console_lock, message, history>>

PrintCharStep(a) == \/ Branch(a) \/ BackSpace(a) \/ StorePos(a) \/ Erase(a)
                    \/ Check(a) \/ Scroll(a) \/ Reload(a) \/ LineUp(a)

-----------------------------------------------------------------------------
(* Console_Print                                                           *)

(* The call, with a message that is not empty.                             *)
Console_Print(p, text) ==
    /\ In(p, "out")
    /\ To(p, "spin")
    /\ message' = [message EXCEPT ![p] = text]
    /\ UNCHANGED <<Console_pos, Console_lock, history>>

TakeConsole(p) ==
    /\ In(p, "spin") /\ ~Console_lock
    /\ Console_lock' = TRUE
    /\ To(p, "next")
    /\ UNCHANGED <<Console_pos, message, history>>

Console_VPrint(p) ==
    /\ In(p, "next") /\ message[p] # << >>
    /\ Console_PrintChar(p, Head(message[p]))
    /\ message' = [message EXCEPT ![p] = Tail(@)]
    /\ UNCHANGED <<Console_pos, Console_lock, stray>>

ReleaseConsole(p) ==
    /\ In(p, "next") /\ message[p] = << >>
    /\ Console_lock' = FALSE
    /\ To(p, "out")
    /\ UNCHANGED <<Console_pos, message, history>>

PrinterStep(p) == TakeConsole(p) \/ Console_VPrint(p) \/ PrintCharStep(p) \/ ReleaseConsole(p)

ConsoleInit ==
    /\ Console_pos = CONSOLE_POS_START
    /\ Console_lock = FALSE
    /\ message = [p \in Printers |-> << >>]
    /\ print = [a \in Actors |-> [at |-> "out"]]
    /\ stray = FALSE
    /\ nested = 0
    /\ races = 0

-----------------------------------------------------------------------------
(* Whatever the loads and stores of a printer and of the handler do to one *)
(* another, no write of Console_PrintChar hits the line of the banner or   *)
(* leaves the text buffer, Console_pos does not move before the first      *)
(* line, and when nobody prints the cursor is on the screen: interrupts in *)
(* the middle of a character do no harm, and a race with a character of    *)
(* another CPU costs at most one line.                                     *)
CursorOnScreen ==
    /\ ~stray
    /\ Console_pos >= CONSOLE_POS_START
    /\ (\A a \in Actors : ~Printing(a)) =>
           Console_pos < CONSOLE_POS_END + races * CONSOLE_VGA_NUM_COLUMNS
=============================================================================
