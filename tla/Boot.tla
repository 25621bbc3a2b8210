-------------------------------- MODULE Boot --------------------------------
(***************************************************************************)
(* From GRUB to kernel_main: boot.asm builds the page tables, turns paging *)
(* on and calls the kernel, which calls on, takes interrupts and, for each *)
(* `reboot`, calls shell_run once more.  Memory is what .bss holds from    *)
(* p4_table on, in dwords; the label stack_top stands BEFORE the 32 KB     *)
(* reserved for the stack, right behind p2_table, and a push stores below. *)
(***************************************************************************)
EXTENDS Integers

CONSTANTS
    ENTRIES,           \* of a table, 512
    HIGHER_HALF,       \* the PML4 entry of the higher half, 256, not 0
    STACK_DWORDS,      \* reserved for the stack
    FrameSizes,        \* qwords that calls and interrupts of the kernel push
    MaxDepth           \* bound: dwords the kernel has on the stack at most

p4_table == 0
p3_table == 2 * ENTRIES
p2_table == 4 * ENTRIES
stack_top == 6 * ENTRIES
Dword == 0 .. stack_top + STACK_DWORDS - 1

ZERO == [kind |-> "zero", n |-> 0]
Table(a) == [kind |-> "table", n |-> a]     \* address, present, writable
Page(n) == [kind |-> "page", n |-> n]       \* n * 2 MiB, present, writable, huge
Saved(n) == [kind |-> "saved", n |-> n]     \* on the stack: an address, a register

VARIABLES pc, esp, bss, depth
vars == <<pc, esp, bss, depth>>

Init ==
    /\ pc = "start" /\ esp = stack_top
    /\ bss = [a \in Dword |-> ZERO]
    /\ depth = 0

Entry(table, n) == table + 2 * n

(* 32-bit code. *)
Push(d) == esp' = esp - 1 /\ bss' = [bss EXCEPT ![esp - 1] = Saved(d)]
Ret(d, to) ==
    /\ esp' = esp + 1 /\ UNCHANGED bss
    /\ pc' = IF bss[esp] = Saved(d) THEN to ELSE "lost"

start ==
    /\ pc = "start"
    /\ \/ pc' = "panic" /\ UNCHANGED <<esp, bss>>    \* not the magic of Multiboot2
       \/ pc' = "setup_page_tables" /\ Push(1)
    /\ UNCHANGED depth

(* The tables are written in dwords, the low half of each entry. *)
setup_page_tables ==
    /\ pc = "setup_page_tables" /\ pc' = "setup ret"
    /\ bss' = [a \in Dword |->
                IF a \in {Entry(p4_table, 0), Entry(p4_table, HIGHER_HALF)}
                THEN Table(p3_table)
                ELSE IF a = Entry(p3_table, 0) THEN Table(p2_table)
                ELSE IF \E n \in 0 .. ENTRIES - 1 : a = Entry(p2_table, n)
                THEN Page((a - p2_table) \div 2)
                ELSE bss[a]]
    /\ UNCHANGED <<esp, depth>>

SetupReturns ==
    /\ pc = "setup ret" /\ Ret(1, "call enable_paging")
    /\ UNCHANGED depth

CallEnablePaging ==
    /\ pc = "call enable_paging" /\ pc' = "enable_paging"
    /\ Push(2)
    /\ UNCHANGED depth

enable_paging ==
    /\ pc = "enable_paging" /\ Ret(2, "long_mode_start_64")
    /\ UNCHANGED depth

(* 64-bit code: rsp is set again, a push stores two dwords, the upper half  *)
(* of the addresses is 0.                                                   *)
Pushed(qwords) ==
    [a \in Dword |->
        IF a < esp - 2 * qwords \/ a >= esp THEN bss[a]
        ELSE IF (a - esp) % 2 = 0 THEN Saved(3) ELSE ZERO]

long_mode_start_64 ==
    /\ pc = "long_mode_start_64" /\ pc' = "kernel_main"
    /\ esp' = stack_top - 2 /\ bss' = Pushed(1)
    /\ UNCHANGED depth

(* A call, an interrupt or one more shell_run, and the return from it. *)
Call(qwords) ==
    /\ pc = "kernel_main" /\ depth + 2 * qwords <= MaxDepth
    /\ esp' = esp - 2 * qwords /\ bss' = Pushed(qwords)
    /\ depth' = depth + 2 * qwords
    /\ UNCHANGED pc

Return(qwords) ==
    /\ pc = "kernel_main" /\ depth >= 2 * qwords
    /\ esp' = esp + 2 * qwords /\ depth' = depth - 2 * qwords
    /\ UNCHANGED <<pc, bss>>

Next ==
    \/ start \/ setup_page_tables \/ SetupReturns
    \/ CallEnablePaging \/ enable_paging \/ long_mode_start_64
    \/ \E q \in FrameSizes : Call(q) \/ Return(q)

Spec == Init /\ [][Next]_vars

-----------------------------------------------------------------------------
(* boot.asm:78, "Identity mapping: 1 GiB con paginas de 2 MiB (512          *)
(* entradas)": once the tables are built, entry n maps the n-th 2 MiB, for  *)
(* every n, for as long as the kernel runs, whatever is pushed.             *)
IdentityMapped ==
    pc \notin {"start", "panic", "setup_page_tables"} =>
        \A n \in 0 .. ENTRIES - 1 :
            /\ bss[Entry(p2_table, n)] = Page(n)
            /\ bss[Entry(p2_table, n) + 1] = ZERO
=============================================================================
