-------------------------------- MODULE A20 --------------------------------
(***************************************************************************)
(* A20_Enable (src/bootloader/initial/src/a20.asm): three ways to enable   *)
(* the A20 line, each followed by a test of the line.  The second talks to *)
(* the PS/2 controller, which works on its own, while the keyboard and the *)
(* BIOS's keyboard interrupt use the same output buffer; interrupts are    *)
(* enabled all the while.                                                  *)
(*                                                                         *)
(* External are the BIOS, the port 0x92 gate, the controller, the keyboard *)
(* and the interrupt handler.  Any of the three ways may be without        *)
(* effect.                                                                 *)
(***************************************************************************)
EXTENDS Integers, Sequences

CONSTANTS MaxKeys,       \* bound on the keys pressed meanwhile
          Controllers    \* subset of BOOLEAN: may there be a PS/2 controller

ASSUME A20Assumption == MaxKeys \in Nat /\ Controllers \subseteq BOOLEAN

VARIABLES pc,
          al,          \* what A20_IsEnabled returned
          step,        \* position in A20_EnableWithPS2Keyboard
          byte,        \* the byte it has read from the controller
          a20,         \* the line is enabled
          controller,  \* there is a PS/2 controller
          ibf, obf,    \* the controller's input and output buffers
          keyboard,    \* PS/2 port 1 is enabled
          outport,     \* the controller's output port: as it was, or overwritten
          keys

a20vars == <<al, step, byte, a20, controller, ibf, obf, keyboard, outport, keys>>

-----------------------------------------------------------------------------
(* A20_IsEnabled stores 0x00 at 0x0000:0x0500 and 0xFF at 0xFFFF:0x0510,   *)
(* which is the same byte unless the line is enabled, and compares.        *)
A20_IsEnabled == LET low == IF a20 THEN 0 ELSE 255
                 IN  low # 255

Check(from, else) ==
    /\ pc = from
    /\ al' = A20_IsEnabled
    /\ pc' = IF al' THEN "A20_Return" ELSE else
    /\ UNCHANGED <<step, byte, a20, controller, ibf, obf, keyboard, outport, keys>>

(* A BIOS call, or a bit of port 0x92.                                     *)
Try(from, to) ==
    /\ pc = from
    /\ a20' \in {a20, TRUE}
    /\ pc' = to
    /\ UNCHANGED <<al, step, byte, controller, ibf, obf, keyboard, outport, keys>>

A20_EnableWithBIOS == Try("A20_BIOS", "A20_Check2")
A20_EnableWithFastGate == Try("A20_FastGate", "A20_Check4")

(* What A20_EnableWithPS2Keyboard does, in order: commands and data, which *)
(* wait for write access, and one read, which waits for read access.       *)
PS2_KeyboardOn == << "DISABLE_PORT2", "READ_OUT_PORT", "read", "WRITE_OUT_PORT",
                     "data", "ENABLE_PORT1", "ENABLE_PORT2" >>
PS2 == << "DISABLE_PORT1", "DISABLE_PORT2", "READ_OUT_PORT", "read",
          "WRITE_OUT_PORT", "data", "ENABLE_PORT1", "ENABLE_PORT2" >>

WriteWait == controller /\ ibf = "empty"
ReadWait == controller /\ obf # "empty"

PS2Advance ==
    /\ step' = (step % Len(PS2)) + 1
    /\ pc' = IF step = Len(PS2) THEN "A20_Check3" ELSE pc

PS2Write ==
    /\ pc = "A20_PS2" /\ PS2[step] # "read"
    /\ WriteWait
    /\ ibf' = PS2[step]
    /\ PS2Advance
    /\ UNCHANGED <<al, byte, a20, controller, obf, keyboard, outport, keys>>

PS2Read ==
    /\ pc = "A20_PS2" /\ PS2[step] = "read"
    /\ ReadWait
    /\ byte' = obf
    /\ obf' = "empty"
    /\ PS2Advance
    /\ UNCHANGED <<al, a20, controller, ibf, keyboard, outport, keys>>

A20Step == \/ Check("A20_Enable", "A20_BIOS")
           \/ A20_EnableWithBIOS
           \/ Check("A20_Check2", "A20_PS2")
           \/ PS2Write
           \/ PS2Read
           \/ Check("A20_Check3", "A20_FastGate")
           \/ A20_EnableWithFastGate
           \/ Check("A20_Check4", "A20_Return")

-----------------------------------------------------------------------------
(* The controller takes a byte from its input buffer; to answer it needs   *)
(* the output buffer empty.                                                *)
Controller ==
    /\ ibf # "empty"
    /\ ibf = "READ_OUT_PORT" => obf = "empty"
    /\ ibf' = "empty"
    /\ obf' = IF ibf = "READ_OUT_PORT" THEN outport ELSE obf
    /\ keyboard' = CASE ibf = "DISABLE_PORT1" -> FALSE
                     [] ibf = "ENABLE_PORT1" -> TRUE
                     [] OTHER -> keyboard
    /\ IF ibf = "data"
       THEN outport' = byte /\ a20' \in {a20, TRUE}
       ELSE UNCHANGED <<outport, a20>>
    /\ UNCHANGED <<pc, al, step, byte, controller, keys>>

InA20 == pc \in {"A20_Enable", "A20_BIOS", "A20_Check2", "A20_PS2", "A20_Check3", "A20_FastGate", "A20_Check4"}

KeyPressed ==
    /\ InA20
    /\ controller /\ keyboard /\ obf = "empty" /\ keys < MaxKeys
    /\ obf' = "scan_code"
    /\ keys' = keys + 1
    /\ UNCHANGED <<pc, al, step, byte, a20, controller, ibf, keyboard, outport>>

(* The interrupt is raised while port 1 is enabled; its handler empties    *)
(* the output buffer.                                                      *)
KeyboardInterrupt ==
    /\ InA20
    /\ keyboard /\ obf # "empty"
    /\ obf' = "empty"
    /\ UNCHANGED <<pc, al, step, byte, a20, controller, ibf, keyboard, outport, keys>>

A20Init ==
    /\ al = FALSE
    /\ step = 1
    /\ byte = "none"
    /\ a20 \in BOOLEAN
    /\ controller \in Controllers
    /\ ibf = "empty" /\ obf = "empty"
    /\ keyboard = TRUE
    /\ outport = "port"
    /\ keys = 0
=============================================================================
