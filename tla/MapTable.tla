------------------------------ MODULE MapTable ------------------------------
(***************************************************************************)
(* The map table of src/verilog/map_table.sv: for each architectural        *)
(* register the physical register that holds its newest value, and whether  *)
(* that value has been computed.  In one clock cycle the completed tags set *)
(* ready bits; then either a dispatch group is renamed in order, or the     *)
(* renamings of rewound instructions are undone, youngest first.            *)
(***************************************************************************)
EXTENDS Integers, Sequences

CONSTANTS
    ARCH_REG_SIZE,  \* number of architectural registers
    PhyReg          \* physical register indices, a superset of 0 .. ARCH_REG_SIZE - 1

VARIABLES map, ready

mapTableVars == <<map, ready>>

ArchReg == 0 .. ARCH_REG_SIZE - 1

\* The ready bits after the completion loop.
ReadyAfterComplete(CDB_tag) ==
    [a \in ArchReg |-> ready[a] \/ map[a] \in CDB_tag]

\* The map after the first k instructions of a group.
MapAfter(arch_dest_reg, free_tag) ==
    LET m[k \in 0 .. Len(arch_dest_reg)] ==
          IF k = 0 THEN map
          ELSE [a \in ArchReg |->
                  IF a # 0 /\ a = arch_dest_reg[k] THEN free_tag[k] ELSE m[k - 1][a]]
    IN m

\* Mutated form of phy_src_reg: looks at the map before the group.
phy_src_regOld(k, a, arch_dest_reg, free_tag) == map[a]

\* The outputs for the k-th instruction of a group: the register of its source
\* a, and the register it replaces.
phy_src_reg(k, a, arch_dest_reg, free_tag) == MapAfter(arch_dest_reg, free_tag)[k - 1][a]

Told_out(k, arch_dest_reg, free_tag) ==
    IF arch_dest_reg[k] = 0 THEN 0
    ELSE MapAfter(arch_dest_reg, free_tag)[k - 1][arch_dest_reg[k]]

Dispatch(CDB_tag, arch_dest_reg, free_tag) ==
    LET num == Len(arch_dest_reg) IN
    /\ map' = MapAfter(arch_dest_reg, free_tag)[num]
    /\ ready' = [a \in ArchReg |->
          /\ ReadyAfterComplete(CDB_tag)[a]
          /\ a # 0 => \A k \in 1 .. num : arch_dest_reg[k] # a]

\* Mutated form of MapUndone: undoes the oldest instruction first.
MapUndoneOldestFirst(reg_T, reg_Told) ==
    LET num == Len(reg_T)
        m[k \in 0 .. num] ==
          IF k = 0 THEN map
          ELSE [a \in ArchReg |->
                  IF m[k - 1][a] = reg_T[num + 1 - k] THEN reg_Told[num + 1 - k]
                  ELSE m[k - 1][a]]
    IN m

\* The map after the first k rewound instructions.
MapUndone(reg_T, reg_Told) ==
    LET m[k \in 0 .. Len(reg_T)] ==
          IF k = 0 THEN map
          ELSE [a \in ArchReg |->
                  IF m[k - 1][a] = reg_T[k] THEN reg_Told[k] ELSE m[k - 1][a]]
    IN m

\* Mutated form of Rewind: leaves the ready bit of a restored mapping alone.
RewindNotReady(CDB_tag, reg_T, reg_Told) ==
    /\ map' = MapUndone(reg_T, reg_Told)[Len(reg_T)]
    /\ ready' = ReadyAfterComplete(CDB_tag)

Rewind(CDB_tag, reg_T, reg_Told) ==
    LET num == Len(reg_T)
        m == MapUndone(reg_T, reg_Told)
    IN
    /\ map' = m[num]
    /\ ready' = [a \in ArchReg |->
          \/ ReadyAfterComplete(CDB_tag)[a]
          \/ \E k \in 1 .. num : m[k - 1][a] = reg_T[k]]

Init ==
    /\ map = [a \in ArchReg |-> a]
    /\ ready = [a \in ArchReg |-> TRUE]

\* One clock cycle.
Cycle(CDB_tag, arch_dest_reg, free_tag, reg_T, reg_Told) ==
    IF reg_T = <<>> THEN Dispatch(CDB_tag, arch_dest_reg, free_tag)
                    ELSE Rewind(CDB_tag, reg_T, reg_Told)

TypeOK ==
    /\ map \in [ArchReg -> PhyReg]
    /\ ready \in [ArchReg -> BOOLEAN]
=============================================================================
