------------------------------ MODULE FreeList ------------------------------
(***************************************************************************)
(* The free list of src/verilog/freelist.sv: a ring of free physical        *)
(* registers.  In one clock cycle the registers freed by retirement are     *)
(* pushed at the tail; then either registers are popped at the head for a   *)
(* dispatch group, or the registers of rewound instructions are pushed back *)
(* at the head.  Register 0 is never in the ring: it stands for "none".     *)
(***************************************************************************)
EXTENDS Integers, Sequences, FiniteSets

CONSTANTS
    FREELIST_SIZE,  \* entries of the ring
    WAY,            \* width of dispatch, retirement and rewind
    ARCH_REG_SIZE   \* registers mapped, hence not free, after reset

VARIABLES
    head,               \* index of the next register to give out
    tail,               \* index of the last register freed
    free_list_entry,    \* the ring
    isEmpty             \* tells the empty ring from the full one

freeListVars == <<head, tail, free_list_entry, isEmpty>>

FreeIndex == 0 .. FREELIST_SIZE - 1
PhyReg == 0 .. ARCH_REG_SIZE + FREELIST_SIZE - 1

Wrap(i) == IF i >= FREELIST_SIZE THEN i - FREELIST_SIZE ELSE i
\* Mutated form of Back: does not wrap.
BackUnwrapped(i, d) == i - d

Back(i, d) == IF i >= d THEN i - d ELSE i + FREELIST_SIZE - d

RingCount(h, t, e) ==
    IF e THEN 0 ELSE IF t >= h THEN t - h + 1 ELSE t + FREELIST_SIZE - h + 1

free_reg_number == RingCount(head, tail, isEmpty)

\* The wire rename.free_reg_valid: how many registers dispatch may count on,
\* before what retires in this cycle is added.
free_reg_valid == IF free_reg_number > WAY THEN WAY ELSE free_reg_number

\* The registers in the ring.
FreeRegs == {free_list_entry[Wrap(head + d)] : d \in 0 .. free_reg_number - 1}

\* The loops skip register 0: how many of s[from .. to] they do not skip.
Used(s, from, to) == Cardinality({k \in from .. to : s[k] # 0})

-----------------------------------------------------------------------------
(* Retire: push the registers Told at the tail.                             *)

TailNext(Told) == Wrap(tail + Used(Told, 1, Len(Told)))

EntryAfterRetire(i, Told) ==
    LET at == {k \in 1 .. Len(Told) :
                  Told[k] # 0 /\ i = Wrap(tail + Used(Told, 1, k))}
    IN IF at = {} THEN free_list_entry[i] ELSE Told[CHOOSE k \in at : TRUE]

\* Mutated form of EmptyAfterRetire: a push does not end emptiness.
EmptyAfterRetireKept(Told) == isEmpty

EmptyAfterRetire(Told) == isEmpty /\ Used(Told, 1, Len(Told)) = 0

CountAfterRetire(Told) ==
    RingCount(head, TailNext(Told), EmptyAfterRetire(Told))

-----------------------------------------------------------------------------
(* Dispatch: pop one register for each destination other than register 0,   *)
(* as long as there is one.                                                 *)

\* Mutated form of dispatch_free_reg: never gives the last register.
dispatch_free_regKeepsLast(k, Told, arch_dest_reg) ==
    IF arch_dest_reg[k] # 0 /\ Used(arch_dest_reg, 1, k) < CountAfterRetire(Told)
    THEN EntryAfterRetire(Wrap(head + Used(arch_dest_reg, 1, k - 1)), Told)
    ELSE 0

dispatch_free_reg(k, Told, arch_dest_reg) ==
    IF arch_dest_reg[k] # 0 /\ Used(arch_dest_reg, 1, k) <= CountAfterRetire(Told)
    THEN EntryAfterRetire(Wrap(head + Used(arch_dest_reg, 1, k - 1)), Told)
    ELSE 0

Popped(Told, arch_dest_reg) ==
    LET asked == Used(arch_dest_reg, 1, Len(arch_dest_reg)) IN
    IF asked <= CountAfterRetire(Told) THEN asked ELSE CountAfterRetire(Told)

Dispatch(Told, arch_dest_reg) ==
    /\ head' = Wrap(head + Popped(Told, arch_dest_reg))
    /\ free_list_entry' = [i \in FreeIndex |-> EntryAfterRetire(i, Told)]
    /\ isEmpty' = (Popped(Told, arch_dest_reg) = CountAfterRetire(Told))

-----------------------------------------------------------------------------
(* Rewind: push the registers reg_T back at the head, the oldest (last) one *)
(* first.                                                                   *)

Rewind(Told, reg_T) ==
    LET num == Len(reg_T)
        at(i) == {k \in 1 .. num :
                     reg_T[k] # 0 /\ i = Back(head, Used(reg_T, k, num))}
    IN
    /\ head' = Back(head, Used(reg_T, 1, num))
    /\ free_list_entry' = [i \in FreeIndex |->
          IF at(i) = {} THEN EntryAfterRetire(i, Told)
          ELSE reg_T[CHOOSE k \in at(i) : TRUE]]
    /\ isEmpty' = (EmptyAfterRetire(Told) /\ Used(reg_T, 1, num) = 0)

-----------------------------------------------------------------------------

Init ==
    /\ head = 0
    /\ tail = FREELIST_SIZE - 1
    /\ free_list_entry = [i \in FreeIndex |-> i + ARCH_REG_SIZE]
    /\ isEmpty = FALSE

\* One clock cycle.
Cycle(Told, reg_T, arch_dest_reg) ==
    /\ tail' = TailNext(Told)
    /\ IF reg_T = <<>> THEN Dispatch(Told, arch_dest_reg)
                       ELSE Rewind(Told, reg_T)

TypeOK ==
    /\ head \in FreeIndex
    /\ tail \in FreeIndex
    /\ free_list_entry \in [FreeIndex -> PhyReg]
    /\ isEmpty \in BOOLEAN
=============================================================================
