-------------------------------- MODULE Rob --------------------------------
(***************************************************************************)
(* The reorder buffer of src/verilog/rob.sv: a ring of instructions in      *)
(* program order.  One clock cycle retires a prefix of the ring, then       *)
(* either takes completions, one branch resolution and a dispatch group, or *)
(* rewinds the ring from its tail towards the faulty instruction at its     *)
(* head.  A cycle is one step; the wires into the ROB are the parameters of *)
(* the step, the wires out of it are operators of the state and of them.    *)
(*                                                                         *)
(* Payloads that only pass through (pc, taken, correct, the retire counter) *)
(* are left out.                                                            *)
(***************************************************************************)
EXTENDS Integers, Sequences, FiniteSets

CONSTANTS
    ROB_SIZE,   \* entries of the ring
    WAY,        \* width of dispatch, completion, retirement and rewind
    ArchReg,    \* architectural register indices, 0 is the zero register
    PhyReg,     \* physical register indices, 0 backs the zero register
    PC,         \* instruction addresses
    Insts       \* the instructions that can be dispatched

VARIABLES
    rob_mem,                \* the ring
    head,                   \* index of the oldest instruction
    tail,                   \* index of the youngest instruction
    is_empty,               \* tells the empty ring from the full one
    has_rewind,             \* some instruction in the ring carries an exception
    in_rewind,              \* the ring is being rewound
    oldest_exc_rob_index,   \* the oldest instruction with an exception
    rewind_target_PC,       \* where fetch restarts
    fetch_flush,            \* one-cycle pulse: restart fetch at rewind_target_PC
    store_flush,            \* one-cycle pulse: the rewind has finished
    exception_code          \* output of the processor

robVars == <<rob_mem, head, tail, is_empty, has_rewind, in_rewind,
             oldest_exc_rob_index, rewind_target_PC, fetch_flush, store_flush,
             exception_code>>

Index == 0 .. ROB_SIZE - 1

(***************************************************************************)
(* fu_type and fu_func as far as the ROB looks at them, and the exception   *)
(* codes it can hold; a cleared entry (all bits zero) reads as a load with  *)
(* code INST_ADDR_MISALIGN.                                                 *)
(***************************************************************************)
Kind == {"load", "store", "branch", "int"}
Code == {"NO_ERROR", "HALTED_ON_WFI", "ILLEGAL_INST", "INST_ADDR_MISALIGN"}

Entry == [kind : Kind, arch_dest_reg : ArchReg, T : PhyReg, Told : PhyReg,
          valid : BOOLEAN, complete : BOOLEAN, exception : BOOLEAN,
          target_pc : PC, code : Code]

Cleared == [kind |-> "load", arch_dest_reg |-> 0, T |-> 0, Told |-> 0,
            valid |-> FALSE, complete |-> FALSE, exception |-> FALSE,
            target_pc |-> 0, code |-> "INST_ADDR_MISALIGN"]

\* One instruction of a dispatch group; its code says whether it is a WFI
\* (halt), an illegal instruction, or neither.
Inst == [kind : Kind, arch_dest_reg : ArchReg, T : PhyReg, Told : PhyReg,
         target_pc : PC, code : Code \ {"INST_ADDR_MISALIGN"}]

ASSUME RobAssumption ==
    /\ ROB_SIZE \in Nat \ {0}
    /\ WAY \in Nat \ {0}
    /\ 0 \in ArchReg
    /\ 0 \in PhyReg
    /\ 0 \in PC
    /\ Insts \subseteq Inst

Group == UNION {[1 .. k -> Insts] : k \in 0 .. WAY}

\* The single resolve channel; its fields are zero when it is not valid.
NoResolution == [valid |-> FALSE, rob_index |-> 0, target_pc |-> 0]

Resolution ==
    [valid : {TRUE}, rob_index : Index, target_pc : PC] \cup {NoResolution}

-----------------------------------------------------------------------------
(* Ring arithmetic.                                                         *)

Least(a, b) == IF a < b THEN a ELSE b

\* Mutated form of Wrap: compares with the wrong bound.
WrapLate(i) == IF i > ROB_SIZE THEN i - ROB_SIZE ELSE i

Wrap(i) == IF i >= ROB_SIZE THEN i - ROB_SIZE ELSE i

Back(i, d) == IF i >= d THEN i - d ELSE i + ROB_SIZE - d

\* How many places i is behind the head: dist1 and dist2 of the code.
Dist(i) == IF i >= head THEN i - head ELSE i + ROB_SIZE - head

Occupied ==
    IF is_empty THEN 0
    ELSE IF tail >= head THEN tail - head + 1 ELSE tail + ROB_SIZE - head + 1

At(d) == rob_mem[Wrap(head + d)]

Live(i) == Dist(i) < Occupied

-----------------------------------------------------------------------------
(* Retire.  The loop examines the entries behind the head in order.         *)

\* The loop gets as far as testing the exception bit of the d-th entry: it is
\* complete and, when a store, the first of the cycle and taken by the SQ.
Examines(d, store_accepted) ==
    /\ d < Occupied
    /\ At(d).complete
    /\ At(d).kind = "store" =>
          store_accepted /\ \A e \in 0 .. d - 1 : At(e).kind # "store"

Retires(d, store_accepted) ==
    Examines(d, store_accepted) /\ ~At(d).exception

\* How many instructions retire in this cycle (a set of one number).
RetireNum(store_accepted) ==
    {n \in 0 .. WAY :
        /\ in_rewind => n = 0
        /\ ~in_rewind =>
              /\ \A d \in 0 .. n - 1 : Retires(d, store_accepted)
              /\ n < WAY => ~Retires(n, store_accepted)}

\* The loop breaks at the n-th entry because of its exception.
StartsRewind(n, store_accepted) ==
    /\ ~in_rewind
    /\ n < WAY
    /\ Examines(n, store_accepted)
    /\ At(n).exception

InRewindNext(n, store_accepted) == in_rewind \/ StartsRewind(n, store_accepted)

HeadNext(n) == Wrap(head + n)

Left(n) == Occupied - n

\* The wire retire.Told, as a sequence.
RetireTold(n) == [d \in 1 .. n |-> At(d - 1).Told]

-----------------------------------------------------------------------------
(* Complete and resolve.                                                    *)

Retired(i, n) == Dist(i) < n

AfterRetire(i, n) == IF Retired(i, n) THEN Cleared ELSE rob_mem[i]

AfterComplete(i, n, complete) ==
    IF i \in complete THEN [AfterRetire(i, n) EXCEPT !.complete = TRUE]
    ELSE AfterRetire(i, n)

\* The resolution names a valid entry and its target is not the predicted one.
Mispredict(n, resolve) ==
    /\ resolve.valid
    /\ AfterRetire(resolve.rob_index, n).valid
    /\ AfterRetire(resolve.rob_index, n).target_pc # resolve.target_pc

\* Mutated forms of TakesOver: any mispredicted branch, and the one with the
\* lower index.
TakesOverAlways(n, resolve) == Mispredict(n, resolve)

TakesOverByIndex(n, resolve) ==
    /\ Mispredict(n, resolve)
    /\ resolve.rob_index < oldest_exc_rob_index \/ ~has_rewind

\* The mispredicted branch becomes the point to rewind to.
TakesOver(n, resolve) ==
    /\ Mispredict(n, resolve)
    /\ Dist(resolve.rob_index) < Dist(oldest_exc_rob_index) \/ ~has_rewind

\* Mutated form of AfterResolve: keeps the predicted target.
AfterResolveOldTarget(i, n, complete, resolve) ==
    IF Mispredict(n, resolve) /\ i = resolve.rob_index
    THEN [AfterComplete(i, n, complete) EXCEPT !.exception = TRUE,
             !.code = "NO_ERROR"]
    ELSE AfterComplete(i, n, complete)

AfterResolve(i, n, complete, resolve) ==
    IF Mispredict(n, resolve) /\ i = resolve.rob_index
    THEN [AfterComplete(i, n, complete) EXCEPT !.exception = TRUE,
             !.code = "NO_ERROR", !.target_pc = resolve.target_pc]
    ELSE AfterComplete(i, n, complete)

-----------------------------------------------------------------------------
(* Dispatch.                                                                *)

\* Mutated form of NumCanDispatch: takes instructions again while fetch restarts.
NumCanDispatchEarly(n, store_accepted, resolve) ==
    IF InRewindNext(n, store_accepted) \/ Mispredict(n, resolve)
    THEN 0
    ELSE Least(WAY, ROB_SIZE - Left(n))

NumCanDispatch(n, store_accepted, resolve) ==
    IF InRewindNext(n, store_accepted) \/ has_rewind \/ Mispredict(n, resolve)
    THEN 0
    ELSE Least(WAY, ROB_SIZE - Left(n))

\* The place of entry i in a group placed behind the tail, starting at 1.
Place(i) == IF i > tail THEN i - tail ELSE i + ROB_SIZE - tail

RobIndexOf(k) == Wrap(tail + k)

Faulty(inst) == inst.code # "NO_ERROR"

NewEntry(inst) ==
    [kind |-> inst.kind, arch_dest_reg |-> inst.arch_dest_reg, T |-> inst.T,
     Told |-> inst.Told, valid |-> TRUE, complete |-> Faulty(inst),
     exception |-> Faulty(inst), target_pc |-> inst.target_pc,
     code |-> inst.code]

\* The place of the first halt or illegal instruction of a group (no place or
\* a single one).
FirstFaulty(group) ==
    {k \in 1 .. Len(group) :
        Faulty(group[k]) /\ \A j \in 1 .. k - 1 : ~Faulty(group[j])}

-----------------------------------------------------------------------------
(* Rewind.                                                                  *)

\* Mutated form of RewindNum: takes the faulty instruction too.
RewindNumWithHead(n, store_accepted) ==
    IF InRewindNext(n, store_accepted) THEN Least(WAY, Left(n)) ELSE 0

RewindNum(n, store_accepted) ==
    IF InRewindNext(n, store_accepted) THEN Least(WAY, Left(n) - 1) ELSE 0

\* The loop reaches the faulty instruction itself.
RewindDone(n) == Left(n) - 1 < WAY

\* Mutated form of RewindIndex: starts in front of the youngest instruction.
RewindIndexOneOff(k) == Back(tail, k)

\* The wires rewind.reg_T, reg_Told and rob_index, youngest instruction first.
RewindIndex(k) == Back(tail, k - 1)
RewindT(r) == [k \in 1 .. r |-> rob_mem[RewindIndex(k)].T]
RewindTold(r) == [k \in 1 .. r |-> rob_mem[RewindIndex(k)].Told]

\* Mutated form of Rewound: leaves the last one.
RewoundOneLess(i, r) == Back(tail, i) < r - 1

Rewound(i, r) == Back(tail, i) < r

-----------------------------------------------------------------------------
(* One clock cycle.                                                         *)

Init ==
    /\ rob_mem = [i \in Index |-> Cleared]
    /\ head = 0
    /\ tail = ROB_SIZE - 1
    /\ is_empty = TRUE
    /\ has_rewind = FALSE
    /\ in_rewind = FALSE
    /\ oldest_exc_rob_index = 0
    /\ rewind_target_PC = 0
    /\ fetch_flush = FALSE
    /\ store_flush = FALSE
    /\ exception_code = "NO_ERROR"

\* A cycle that does not rewind: retire, complete, resolve, dispatch.
Run(n, store_accepted, complete, resolve, group) ==
    /\ ~InRewindNext(n, store_accepted)
    /\ Len(group) <= NumCanDispatch(n, store_accepted, resolve)
    /\ rob_mem' = [i \in Index |->
          IF Place(i) <= Len(group) THEN NewEntry(group[Place(i)])
          ELSE AfterResolve(i, n, complete, resolve)]
    /\ head' = HeadNext(n)
    /\ tail' = RobIndexOf(Len(group))
    /\ is_empty' = (Left(n) = 0 /\ Len(group) = 0)
    /\ has_rewind' = (\/ has_rewind
                      \/ Mispredict(n, resolve)
                      \/ \E k \in 1 .. Len(group) : Faulty(group[k]))
    /\ oldest_exc_rob_index' \in
          IF TakesOver(n, resolve) THEN {resolve.rob_index}
          ELSE IF FirstFaulty(group) = {} THEN {oldest_exc_rob_index}
          ELSE {RobIndexOf(k) : k \in FirstFaulty(group)}
    /\ rewind_target_PC' =
          IF TakesOver(n, resolve) THEN resolve.target_pc ELSE rewind_target_PC
    /\ fetch_flush' = TakesOver(n, resolve)
    /\ store_flush' = FALSE
    /\ exception_code' = "NO_ERROR"
    /\ UNCHANGED in_rewind

\* A cycle that rewinds, the one that starts the rewind included.  The wires
\* complete and resolve are not looked at and nothing is dispatched.
Rewind(n, store_accepted) ==
    /\ InRewindNext(n, store_accepted)
    /\ LET r == RewindNum(n, store_accepted) IN
          /\ rob_mem' = [i \in Index |->
                IF Retired(i, n) \/ Rewound(i, r) THEN Cleared
                ELSE IF RewindDone(n) /\ i = HeadNext(n)
                THEN [rob_mem[i] EXCEPT !.exception = FALSE]
                ELSE rob_mem[i]]
          /\ tail' = Back(tail, r)
    /\ head' = HeadNext(n)
    /\ in_rewind' = ~RewindDone(n)
    /\ has_rewind' = (has_rewind /\ ~RewindDone(n))
    /\ oldest_exc_rob_index' =
          IF RewindDone(n) THEN 0 ELSE oldest_exc_rob_index
    /\ rewind_target_PC' = IF RewindDone(n) THEN 0 ELSE rewind_target_PC
    /\ fetch_flush' = FALSE
    /\ store_flush' = RewindDone(n)
    /\ exception_code' =
          IF StartsRewind(n, store_accepted) THEN At(n).code ELSE "NO_ERROR"
    /\ UNCHANGED is_empty

(***************************************************************************)
(* The ROB by itself, under any inputs: completions and resolutions may     *)
(* name any entry, a live one or not.                                       *)
(***************************************************************************)
Next ==
    \E store_accepted \in BOOLEAN : \E n \in RetireNum(store_accepted) :
        \/ Rewind(n, store_accepted)
        \/ \E complete \in SUBSET Index, resolve \in Resolution, group \in Group :
              /\ Cardinality(complete) <= WAY
              /\ Run(n, store_accepted, complete, resolve, group)

Spec == Init /\ [][Next]_robVars

-----------------------------------------------------------------------------
(* Properties.                                                              *)

\* Every register of rob.sv holds a value of its type.
TypeOK ==
    /\ rob_mem \in [Index -> Entry]
    /\ head \in Index
    /\ tail \in Index
    /\ is_empty \in BOOLEAN
    /\ has_rewind \in BOOLEAN
    /\ in_rewind \in BOOLEAN
    /\ oldest_exc_rob_index \in Index
    /\ rewind_target_PC \in PC
    /\ fetch_flush \in BOOLEAN
    /\ store_flush \in BOOLEAN
    /\ exception_code \in Code

\* The valid entries are exactly those from head to tail, also when
\* retirement, rewind and dispatch wrap around the ring (rob.sv:226-231,
\* 289-291, 346-348); resolution relies on it to ignore squashed entries.
ValidIffLive ==
    /\ \A i \in Index : rob_mem[i].valid <=> Live(i)
    /\ is_empty => head = Wrap(tail + 1)

\* has_rewind is up exactly while an instruction of the ring carries an
\* exception, and oldest_exc_rob_index is then the oldest one, whatever the
\* order in which faults were found and wherever the ring wraps
\* (rob.sv:249-269, 307-319, 332-338).
OldestException ==
    /\ has_rewind => /\ Live(oldest_exc_rob_index)
                     /\ rob_mem[oldest_exc_rob_index].exception
    /\ \A i \in Index : Live(i) /\ rob_mem[i].exception =>
          has_rewind /\ Dist(oldest_exc_rob_index) <= Dist(i)

\* While the ring is rewound the instruction at the head is the oldest faulty
\* one, so that nothing older than it is squashed (rob.sv:209-219, 329-349).
RewindsToOldest ==
    in_rewind => has_rewind /\ oldest_exc_rob_index = head /\ ~is_empty

\* An instruction leaves the ring in one of two ways only: it retires, complete
\* and without an exception, with everything older than it; or it is squashed,
\* because an instruction older than it is the oldest faulty one.  The faulty
\* instruction itself is never squashed (rob.sv:182-232, 326-348).
LeavesInOrder ==
    [][\A i \in Index : Live(i) /\ ~rob_mem'[i].valid =>
          \/ /\ rob_mem[i].complete /\ ~rob_mem[i].exception
             /\ \A j \in Index : Dist(j) < Dist(i) =>
                   rob_mem[j].complete /\ ~rob_mem[j].exception
          \/ has_rewind /\ Dist(oldest_exc_rob_index) < Dist(i)]_robVars

\* While fetch restarts, nothing enters the ring: from the cycle of the
\* resolution to the end of the one with fetch_flush, the instructions offered
\* are those behind the mispredicted branch (rob.sv:174-178, 254-286).  Every
\* entry was there before and no nearer to the head, so that none is one that
\* has retired and been filled again.
QuietRestart ==
    [][fetch_flush \/ fetch_flush' =>
          \A i \in Index : rob_mem'[i].valid =>
             rob_mem[i].valid /\ Dist(i)' <= Dist(i)]_robVars
=============================================================================
