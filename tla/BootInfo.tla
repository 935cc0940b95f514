------------------------------ MODULE BootInfo ------------------------------
(***************************************************************************)
(* The multiboot information the boot loader builds for the kernel         *)
(* (src/bootloader/multiboot/src/multiboot.c): a total size followed by    *)
(* tags, each a type, a size and a payload, and a tag that ends the list.  *)
(* A tag is added where the end tag is, and may be taken back.             *)
(*                                                                         *)
(* Addresses count from the start of the record, which is aligned.  Only   *)
(* the headers of tags are kept: mbi maps the addresses that were written  *)
(* as headers to what was written there.                                   *)
(***************************************************************************)
EXTENDS Integers, Sequences

CONSTANT MaxTags   \* bound on the tags a walk along the list passes

VARIABLES mbi, total_size

End == [type |-> "END", size |-> 8]
Payload == [type |-> "payload", size |-> 8]
Header(a) == IF a \in DOMAIN mbi THEN mbi[a] ELSE Payload

Padded(n) == n + ((-n) % 8)

Multiboot_CreateEmptyMBI == mbi' = [a \in {8} |-> End] /\ total_size' = 16

-----------------------------------------------------------------------------
NULL == -1

(* Where the walk for a type stands after k tags: at a tag of that type,   *)
(* at the end tag, or at the end of the record.                            *)
Steps(type) ==
    LET at[k \in 0 .. MaxTags] ==
            IF k = 0 THEN 8
            ELSE LET a == at[k - 1] IN
                 IF Header(a).type \in {"END", type} \/ a >= total_size THEN a
                 ELSE a + Header(a).size
    IN  at
Walk(type) == Steps(type)[MaxTags]

Multiboot_CheckForValidMBI == total_size >= 16 /\ total_size % 8 = 0 /\ Header(total_size - 8) = End

(* The tag of a type, or the place for a new one.                          *)
Multiboot_FindMBITagAddress(type) ==
    IF ~Multiboot_CheckForValidMBI THEN NULL
    ELSE IF Header(Walk(type)).type = type THEN Walk(type)
    ELSE total_size - 8

(* Every function that adds a tag gives up when there is no place or the   *)
(* tag is there already.                                                   *)
HasPlace(type) ==
    LET a == Multiboot_FindMBITagAddress(type) IN a # NULL /\ Header(a).type = "END"

(* The end tag behind a tag of this size in the place a, or in its place.  *)
Terminated(a, type, size) ==
    [b \in DOMAIN mbi \cup {a, a + size} |->
        IF b = a + size THEN End ELSE IF b = a THEN [type |-> type, size |-> size] ELSE mbi[b]]

(* Multiboot_TerminateTag: size 0 takes the tag back.                      *)
TerminateTag_Keep(a, type, size) ==
    mbi' = Terminated(a, type, size) /\ total_size' = total_size + IF size = 0 THEN 8 ELSE size
TerminateTag(a, type, size) ==
    mbi' = Terminated(a, type, size) /\ total_size' = total_size + size

AddTag(type, size) == TerminateTag(Multiboot_FindMBITagAddress(type), type, size)

-----------------------------------------------------------------------------
(* The places a reader visits who rounds sizes up to 8, as the kernel does *)
(* (apic.c).                                                               *)
KernelSteps ==
    LET at[k \in 0 .. MaxTags] ==
            IF k = 0 THEN 8
            ELSE LET a == at[k - 1] IN
                 IF Header(a).type = "END" THEN a ELSE a + Padded(Header(a).size)
    IN  at
Places == {KernelSteps[k] : k \in 0 .. MaxTags}

Types == {Header(a).type : a \in Places} \ {"END"}

(* The list is whole after every call, the ones that give up or take a tag *)
(* back included: the kernel's walk passes over tags only, meets no type   *)
(* twice, and finds the end tag where the record ends.                     *)
TagList ==
    total_size # 0 =>
        /\ total_size - 8 \in Places
        /\ Header(total_size - 8) = End
        /\ "payload" \notin Types
        /\ \A a, b \in Places : a # b => Header(a).type # Header(b).type
=============================================================================
