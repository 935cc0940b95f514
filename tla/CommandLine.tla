---------------------------- MODULE CommandLine ----------------------------
(***************************************************************************)
(* Console_ReadCommand (src/bootloader/multiboot/src/console.c): the boot  *)
(* loader's line editor, which reads the kernel's command line into the    *)
(* tag that is being made for it.  The editor keeps its place twice: as a  *)
(* line and a column on the screen, by which it knows the beginning and    *)
(* the end of its input, and as a position in the buffer, to which it      *)
(* writes.                                                                 *)
(*                                                                         *)
(* Keys are inputs: a character, backspace, enter, or another key (or none *)
(* that the BIOS could read).  What is typed is left out.                  *)
(***************************************************************************)
EXTENDS Integers

CONSTANTS CONSOLE_VGA_NUM_COLUMNS,
          PromptLine,      \* 2
          PromptLength,    \* 7: the columns of "[BOOT:]"
          CommandLimit     \* characters the buffer has room for, 0x3FF and the 0

ASSUME CommandAssumption ==
    /\ {CONSOLE_VGA_NUM_COLUMNS, CommandLimit} \subseteq Nat \ {0} /\ PromptLine \in Nat
    /\ PromptLength \in 0 .. CONSOLE_VGA_NUM_COLUMNS - 1

VARIABLE command   \* the locals line, column and pos, and whether the buffer is full

Cell(line, column) == line * CONSOLE_VGA_NUM_COLUMNS + column
LineOf(cell) == cell \div CONSOLE_VGA_NUM_COLUMNS
ColumnOf(cell) == cell % CONSOLE_VGA_NUM_COLUMNS

CommandStart == Cell(PromptLine, PromptLength)
CommandEnd == CommandStart + CommandLimit

EmptyCommand == [line |-> PromptLine, column |-> PromptLength, pos |-> 0, full |-> FALSE]

AtStart == command.line = PromptLine /\ command.column = PromptLength

LastColumn == CONSOLE_VGA_NUM_COLUMNS - 1

(* The end of the input on the screen.                                     *)
AtEnd_NextLine(line, column) == line > LineOf(CommandEnd)
AtEnd(line, column) == line = LineOf(CommandEnd) /\ column = ColumnOf(CommandEnd)

Place(line, column, pos) ==
    command' = [line |-> line, column |-> column, pos |-> pos, full |-> AtEnd(line, column)]

TypeCharacter ==
    /\ ~command.full
    /\ IF command.column = LastColumn THEN Place(command.line + 1, 0, command.pos + 1)
       ELSE Place(command.line, command.column + 1, command.pos + 1)

TypeBackspace ==
    /\ ~command.full /\ ~AtStart
    /\ IF command.column = 0 THEN Place(command.line - 1, LastColumn, command.pos - 1)
       ELSE Place(command.line, command.column - 1, command.pos - 1)

(* Keys without effect: any but enter when the buffer is full, a backspace *)
(* at the start, and keys that are none of the others.                     *)
Console_ReadCommand == TypeCharacter \/ TypeBackspace

-----------------------------------------------------------------------------
(* The two places of the editor stay in step across the ends of lines,     *)
(* however characters and backspaces alternate, so that it stops where the *)
(* buffer ends and not one character later, and never writes before the    *)
(* buffer.                                                                 *)
CommandInStep ==
    /\ command.pos \in 0 .. CommandLimit
    /\ Cell(command.line, command.column) = CommandStart + command.pos
    /\ command.column \in 0 .. LastColumn
    /\ command.full <=> command.pos = CommandLimit
=============================================================================
