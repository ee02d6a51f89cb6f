----------------------------- MODULE RenameCore -----------------------------
(***************************************************************************)
(* Rename, in-order commit and recovery: the ROB, the free list and the map *)
(* table wired together by the dispatch stage (src/verilog/p.sv,            *)
(* dispatch_stage.sv).  All three take a step at every clock edge; the      *)
(* wires between them are operators of the state before the edge.           *)
(*                                                                         *)
(* The instruction buffer and the reservation station offer any group that  *)
(* fits.  The functional units are the environment: they resolve a branch   *)
(* before they complete it, and answer only for instructions in the ROB     *)
(* (module Backend says when the real ones do).                             *)
(***************************************************************************)
EXTENDS Integers, Sequences, FiniteSets

CONSTANTS
    ROB_SIZE,       \* entries of the ROB, and of the free list
    WAY,            \* superscalar width
    ARCH_REG_SIZE,  \* number of architectural registers
    PC,             \* instruction addresses
    Decoded         \* what the decoder can deliver

VARIABLES
    rob_mem, head, tail, is_empty, has_rewind, in_rewind,
    oldest_exc_rob_index, rewind_target_PC, fetch_flush, store_flush,
    exception_code,
    fl_head, fl_tail, free_list_entry, fl_isEmpty,
    map, ready,
    resolved,       \* branches in the ROB whose resolution has been sent
    operand         \* for each ROB entry, its source register and the tag given for it

robVars == <<rob_mem, head, tail, is_empty, has_rewind, in_rewind,
             oldest_exc_rob_index, rewind_target_PC, fetch_flush, store_flush,
             exception_code>>
freeListVars == <<fl_head, fl_tail, free_list_entry, fl_isEmpty>>
mapTableVars == <<map, ready>>

vars == <<robVars, freeListVars, mapTableVars, resolved, operand>>

FREELIST_SIZE == ROB_SIZE
ArchReg == 0 .. ARCH_REG_SIZE - 1
PhyReg == 0 .. ARCH_REG_SIZE + FREELIST_SIZE - 1

\* ROB_SIZE and FREELIST_SIZE are both PHY_REG_SIZE - ARCH_REG_SIZE.
FL == INSTANCE FreeList WITH
         head <- fl_head, tail <- fl_tail, isEmpty <- fl_isEmpty
MT == INSTANCE MapTable
ROB == INSTANCE Rob WITH Insts <- {}

Index == ROB!Index
Live(i) == ROB!Live(i)
Dist(i) == ROB!Dist(i)

\* An instruction as the decoder delivers it; stores, halts and illegal
\* instructions write register 0, as do the branches without a link register.
DecodedInst ==
    {d \in [kind : ROB!Kind, arch_dest_reg : ArchReg, arch_src_reg : ArchReg,
            target_pc : PC, code : ROB!Code \ {"INST_ADDR_MISALIGN"}] :
        (d.kind = "store" \/ d.code # "NO_ERROR") => d.arch_dest_reg = 0}

ASSUME RenameAssumption ==
    /\ ROB_SIZE \in Nat
    /\ WAY \in 1 .. ROB_SIZE - 1
    /\ ARCH_REG_SIZE \in Nat \ {0}
    /\ 0 \in PC
    /\ Decoded \subseteq DecodedInst

Group == UNION {[1 .. k -> Decoded] : k \in 0 .. WAY}

-----------------------------------------------------------------------------
(* The environment's answers.                                               *)

InFlight == {i \in Index : Live(i) /\ ~rob_mem[i].complete}

CanComplete ==
    {i \in InFlight : rob_mem[i].kind = "branch" => i \in resolved}

Completions == {C \in SUBSET CanComplete : Cardinality(C) <= WAY}

Resolutions ==
    {ROB!NoResolution} \cup
    [valid : {TRUE},
     rob_index : {i \in InFlight \ resolved : rob_mem[i].kind = "branch"},
     target_pc : PC]

\* The data cache takes a store only when one is offered.
StoreAnswers ==
    IF \E i \in Index : Live(i) /\ rob_mem[i].kind = "store" THEN BOOLEAN ELSE {FALSE}

\* The tags on complete_dest_reg_tag; a channel without a completion carries 0.
CDB_tag(complete) ==
    {rob_mem[i].T : i \in complete}
        \cup IF Cardinality(complete) < WAY THEN {0} ELSE {}

-----------------------------------------------------------------------------
(* The dispatch stage.                                                      *)

dispatch_stage_num_can_fetch(n, store_accepted, resolve) ==
    ROB!Least(ROB!NumCanDispatch(n, store_accepted, resolve), FL!free_reg_valid)

\* The tags popped for the group, and the group as the ROB receives it.
FreeTags(Told, dests) ==
    [k \in 1 .. Len(dests) |-> FL!dispatch_free_reg(k, Told, dests)]

ToRob(insts, dests, free_tag) ==
    [k \in 1 .. Len(insts) |->
        [kind |-> insts[k].kind,
         arch_dest_reg |-> dests[k],
         T |-> free_tag[k],
         Told |-> MT!Told_out(k, dests, free_tag),
         target_pc |-> insts[k].target_pc,
         code |-> insts[k].code]]

\* The source tags the reservation station holds for the instructions still in
\* flight.
NoOperand == [src |-> 0, tag |-> 0]

OperandsAfter(insts, dests, free_tag) ==
    [i \in Index |->
        LET k == ROB!Place(i) IN
        IF ~rob_mem'[i].valid \/ rob_mem'[i].complete THEN NoOperand
        ELSE IF k <= Len(insts)
        THEN [src |-> insts[k].arch_src_reg,
              tag |-> MT!phy_src_reg(k, insts[k].arch_src_reg, dests, free_tag)]
        ELSE operand[i]]

\* Branches resolved and still waiting for their completion.
ResolvedAfter(resolve) ==
    {i \in resolved \cup IF resolve.valid THEN {resolve.rob_index} ELSE {} :
        rob_mem'[i].valid /\ ~rob_mem'[i].complete}

-----------------------------------------------------------------------------

Init ==
    /\ ROB!Init
    /\ FL!Init
    /\ MT!Init
    /\ resolved = {}
    /\ operand = [i \in Index |-> NoOperand]

\* One clock cycle of the three components without a rewind.
RunCycle(n, store_accepted, complete, resolve, insts) ==
    LET Told == ROB!RetireTold(n)
        dests == [k \in 1 .. Len(insts) |-> insts[k].arch_dest_reg]
        free_tag == FreeTags(Told, dests)
    IN
    /\ Len(insts) <= dispatch_stage_num_can_fetch(n, store_accepted, resolve)
    /\ ROB!Run(n, store_accepted, complete, resolve, ToRob(insts, dests, free_tag))
    /\ FL!Cycle(Told, <<>>, dests)
    /\ MT!Cycle(CDB_tag(complete), dests, free_tag, <<>>, <<>>)
    /\ operand' = OperandsAfter(insts, dests, free_tag)
    /\ resolved' = ResolvedAfter(resolve)

\* One clock cycle of the three components with a rewind.  The map table hears
\* the completions that the ROB drops.
RewindCycle(n, store_accepted, complete, resolve) ==
    LET r == ROB!RewindNum(n, store_accepted) IN
    /\ ROB!Rewind(n, store_accepted)
    /\ FL!Cycle(ROB!RetireTold(n), ROB!RewindT(r), <<>>)
    /\ MT!Cycle(CDB_tag(complete), <<>>, <<>>, ROB!RewindT(r), ROB!RewindTold(r))
    /\ operand' = OperandsAfter(<<>>, <<>>, <<>>)
    /\ resolved' = ResolvedAfter(resolve)

\* The test bench stops the clock once an exception code is out.
Running == exception_code = "NO_ERROR"

Tick(store_accepted, complete, resolve) ==
    /\ Running
    /\ \E n \in ROB!RetireNum(store_accepted) :
          \/ RewindCycle(n, store_accepted, complete, resolve)
          \/ \E insts \in Group :
                RunCycle(n, store_accepted, complete, resolve, insts)

Next ==
    \/ \E store_accepted \in StoreAnswers, complete \in Completions, resolve \in Resolutions :
          Tick(store_accepted, complete, resolve)
    \/ ~Running /\ UNCHANGED vars

Spec == Init /\ [][Next]_vars

-----------------------------------------------------------------------------
(* Properties.                                                              *)

TypeOK ==
    /\ ROB!TypeOK
    /\ FL!TypeOK
    /\ MT!TypeOK
    /\ resolved \subseteq Index
    /\ operand \in [Index -> [src : ArchReg, tag : PhyReg]]

\* The ROB entries in program order, as distances from the head.
Window == 0 .. ROB!Occupied - 1
Writes(d, a) == a # 0 /\ ROB!At(d).arch_dest_reg = a

\* The mapping of register a seen by an instruction d places behind the head:
\* the newest older writer in the ROB, else the committed mapping, which is
\* what the oldest writer in the ROB replaced.
Committed(a) ==
    IF \E d \in Window : Writes(d, a)
    THEN ROB!At(CHOOSE d \in Window :
                   Writes(d, a) /\ \A e \in 0 .. d - 1 : ~Writes(e, a)).Told
    ELSE map[a]

SeenBy(d, a) ==
    IF \E e \in 0 .. d - 1 : Writes(e, a)
    THEN ROB!At(CHOOSE e \in 0 .. d - 1 :
                   Writes(e, a) /\ \A f \in e + 1 .. d - 1 : ~Writes(f, a)).T
    ELSE Committed(a)

\* Every physical register has exactly one owner: a row of the map table, the
\* instruction in the ROB that will free it, or a place of the free list.  So
\* none is leaked and none is allocated twice, across dispatch, retirement and
\* rewind, which all three touch them (freelist.sv:77-108, map_table.sv:57-86,
\* rob.sv:222-228, 343-348).
OneOwner ==
    \A p \in PhyReg :
        LET rows == {a \in ArchReg : map[a] = p}
            olds == {d \in Window : p # 0 /\ ROB!At(d).Told = p}
            free == {d \in 0 .. FL!free_reg_number - 1 :
                       free_list_entry[FL!Wrap(fl_head + d)] = p}
        IN Cardinality(rows) + Cardinality(olds) + Cardinality(free) = 1

\* The map table is the committed mapping overlaid with the instructions of
\* the ROB in program order, also in the middle of a rewind, when part of the
\* youngest renamings is undone (map_table.sv:57-86, rob.sv:326-349).
MapIsOverlay ==
    /\ \A a \in ArchReg : map[a] = SeenBy(ROB!Occupied, a)
    /\ \A d \in Window : \A a \in ArchReg \ {0} :
          Writes(d, a) => ROB!At(d).Told = SeenBy(d, a)

\* The tag an instruction got for its source stays the right one for as long
\* as it waits, whatever retires, is renamed or is squashed around it
\* (dispatch_stage.sv:124-129, map_table.sv:62-64).
OperandsExact ==
    \A d \in Window :
        LET i == ROB!Wrap(head + d) IN
        ~rob_mem[i].complete => operand[i].tag = SeenBy(d, operand[i].src)

\* A cleared ready bit has an instruction in flight that will set it again, and
\* a set one has none, so that no instruction waits for ever and none reads a
\* register too early.  (During a rewind the ROB drops completions that the
\* map table takes; those instructions are squashed.)  The rewind sets the bit
\* of every restored mapping (map_table.sv:50-55, 73, 77-85; rob.sv:235-243).
ReadyExact ==
    \A a \in ArchReg :
        LET producers == {i \in InFlight : rob_mem[i].T # 0 /\ rob_mem[i].T = map[a]} IN
        /\ ~ready[a] => producers # {}
        /\ ready[a] /\ ~in_rewind => producers = {}

\* The point fetch restarts from belongs to the oldest mispredicted branch,
\* however many branches and in whatever order they were resolved
\* (rob.sv:249-271).
TargetOfOldest ==
    LET e == rob_mem[oldest_exc_rob_index] IN
    has_rewind /\ e.code = "NO_ERROR" => rewind_target_PC = e.target_pc

\* Every instruction with a destination got a register of its own: the count
\* the dispatch stage waits for suffices (freelist.sv:71-73, 89-97;
\* dispatch_stage.sv:62-72).
DestinationsRenamed ==
    \A d \in Window :
        /\ (ROB!At(d).arch_dest_reg = 0) <=> (ROB!At(d).T = 0)
        /\ (ROB!At(d).arch_dest_reg = 0) <=> (ROB!At(d).Told = 0)

\* The rename core is an in-order window: whatever the core does in a cycle,
\* only retirement changes the committed mapping, a rewind restores exactly the
\* mapping that the retired instructions left, spares the faulty instruction
\* and everything older, and every register given out is a free one
\* (rob.sv:182-349, map_table.sv:57-86, freelist.sv:77-108).
Abstract == INSTANCE InOrderWindow WITH
    SIZE <- ROB_SIZE,
    committed <- [a \in ArchReg |-> Committed(a)],
    window <- [d \in 1 .. ROB!Occupied |->
                  [dest |-> ROB!At(d - 1).arch_dest_reg,
                   T |-> ROB!At(d - 1).T,
                   fault |-> ROB!At(d - 1).exception]],
    free <- FL!FreeRegs

IsInOrderWindow == Abstract!Spec
=============================================================================
