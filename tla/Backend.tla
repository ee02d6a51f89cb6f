------------------------------- MODULE Backend -------------------------------
(***************************************************************************)
(* From dispatch to completion: the ROB, the reservation station, the issue  *)
(* queue, the functional units and the completion queue, wired as in         *)
(* src/verilog/p.sv.  All take a step at every clock edge.                    *)
(*                                                                         *)
(* A packet is an instruction on its way.  It carries its ROB index, which   *)
(* is also its tag, and the tags it waits for.  The program has no stores;   *)
(* RenameCore has the registers and LoadStorePath the memory.                *)
(***************************************************************************)
EXTENDS Integers, Sequences, FiniteSets

CONSTANTS
    ROB_SIZE, RS_SIZE, IQ_SIZE, CQ_SIZE,    \* entries of the queues
    WAY,            \* superscalar width
    NUM_STAGE,      \* stages of a multiplier
    NoInst,         \* an empty register
    Kinds,          \* the types of instruction in the program
    Speculated,     \* those of them that follow a branch not yet completed
    MAX_SOURCES     \* most sources an instruction waits for

VARIABLES
    rob_mem, head, tail, is_empty, has_rewind, in_rewind,
    oldest_exc_rob_index, rewind_target_PC, fetch_flush, store_flush,
    exception_code,
    rs, iq, fast_int, mult, branch, mem, queue

robVars == <<rob_mem, head, tail, is_empty, has_rewind, in_rewind,
             oldest_exc_rob_index, rewind_target_PC, fetch_flush, store_flush,
             exception_code>>
vars == <<robVars, rs, iq, fast_int, mult, branch, mem, queue>>

PC == {0, 1}

ROB == INSTANCE Rob WITH ArchReg <- {0}, PhyReg <- {0}, Insts <- {}
RS == INSTANCE ReservationStation
IQ == INSTANCE IssueQueue
FU == INSTANCE FunctionalUnits
CQ == INSTANCE CompletionQueue

Index == ROB!Index
Dist(i) == ROB!Dist(i)
InFlight == {i \in Index : ROB!Live(i) /\ ~rob_mem[i].complete}

(***************************************************************************)
(* needs and current are not in the code: the sources that the ROB still     *)
(* has in flight, and whether the instruction is still in the ROB.           *)
(***************************************************************************)
Packet == [rob_index : Index, kind : FU!FuType, waits : SUBSET Index,
           needs : SUBSET Index, current : BOOLEAN]

ASSUME BackendAssumption ==
    /\ {ROB_SIZE, WAY, NUM_STAGE, RS_SIZE, IQ_SIZE, CQ_SIZE} \subseteq Nat \ {0}
    /\ WAY < ROB_SIZE
    /\ Speculated \subseteq Kinds /\ Kinds \subseteq FU!FuType
    /\ NoInst \notin Packet    \* the valid bit of a register

\* The packets in the registers of each part.
InUnits ==
    {p \in {fast_int[k] : k \in DOMAIN fast_int} \cup {branch, mem}
              \cup {mult[i][s] : i \in 1 .. WAY, s \in 0 .. NUM_STAGE} : p # NoInst}
InQueue == {queue[k] : k \in DOMAIN queue}
InIssueQueue == {iq[k] : k \in DOMAIN iq}
Issued == InIssueQueue \cup InUnits \cup InQueue

-----------------------------------------------------------------------------
(* Wires between the parts.                                                 *)

MemAnswers == IF mem = NoInst THEN {FALSE} ELSE BOOLEAN

\* The branch unit takes one cycle, then resolves its instruction.
Resolutions ==
    IF branch = NoInst THEN {ROB!NoResolution}
    ELSE [valid : {TRUE}, rob_index : {branch.rob_index}, target_pc : PC]

RobIndexes(packets) == {packets[k].rob_index : k \in DOMAIN packets}

num_can_fetch(n, resolve) ==
    ROB!Least(ROB!NumCanDispatch(n, FALSE, resolve), RS!dispatch_empty_slots)

\* Mutated form of Sources: the ready bits before the completions.
SourcesBeforeCompletion(k, complete) ==
    InFlight \cup {ROB!RobIndexOf(j) : j \in 1 .. k - 1}

\* What an instruction can have to wait for when it is the k-th of its group:
\* an instruction in flight that does not complete in this cycle, or an
\* earlier one of the group.
Sources(k, complete) ==
    (InFlight \ complete) \cup {ROB!RobIndexOf(j) : j \in 1 .. k - 1}

UnresolvedBranch(complete) ==
    \E i \in InFlight \ complete : rob_mem[i].kind = "branch"

\* The dispatch groups of the program, any that follows its rules.
Groups(num, complete) ==
    LET waits == {w \in SUBSET Sources(WAY, complete) : Cardinality(w) <= MAX_SOURCES}
        kinds == IF UnresolvedBranch(complete) THEN Speculated ELSE Kinds
    IN {g \in UNION {[1 .. len -> [kind : kinds, waits : waits]] : len \in 0 .. num} :
           \A k \in DOMAIN g :
              /\ g[k].waits \subseteq Sources(k, complete)
              /\ g[k].kind \in Speculated \/ \A j \in 1 .. k - 1 : g[j].kind # "branch"}

RobKind(kind) == [mem |-> "load", int |-> "int", mult |-> "int", branch |-> "branch"][kind]

ToRob(group) ==
    [k \in DOMAIN group |->
        [kind |-> RobKind(group[k].kind), arch_dest_reg |-> 0, T |-> 0, Told |-> 0,
         target_pc |-> 0, code |-> "NO_ERROR"]]

ToRS(group) ==
    {[rob_index |-> ROB!RobIndexOf(k), kind |-> group[k].kind, waits |-> group[k].waits,
      needs |-> group[k].waits, current |-> TRUE] : k \in DOMAIN group}

-----------------------------------------------------------------------------
(* A packet after the step: instructions that retire or are squashed leave   *)
(* the ROB; the others need what is still in flight.                         *)

After(gone, p) ==
    IF p = NoInst THEN p
    ELSE IF ~p.current \/ p.rob_index \in gone
    THEN [p EXCEPT !.needs = {}, !.current = FALSE]
    ELSE [p EXCEPT !.needs = {i \in @ : rob_mem'[i].valid /\ ~rob_mem'[i].complete}]

AllAfter(gone, s) == [k \in DOMAIN s |-> After(gone, s[k])]

-----------------------------------------------------------------------------

Init ==
    /\ ROB!Init
    /\ RS!ReservationStationInit
    /\ IQ!IssueQueueInit
    /\ FU!UnitsInit
    /\ CQ!QueueInit

\* Everything behind dispatch, when the ROB entries in gone are retired or
\* squashed, those in rewind squashed, and group is dispatched.
Pipeline(gone, rewind, complete, mem_done, issue, group) ==
    LET slots == FU!execute_empty_slots(mem_done)
        execute == IQ!execute(slots)
    IN
    /\ rs' = {After(gone, p) : p \in RS!Remaining(issue, rewind, RobIndexes(complete))}
                \cup ToRS(group)
    /\ iq' = AllAfter(gone, IQ!iq_next(slots, issue, store_flush))
    /\ fast_int' = AllAfter(gone, FU!fast_int_next(execute, store_flush))
    /\ mult' = [i \in 1 .. WAY |-> AllAfter(gone, FU!mult_next(execute)[i])]
    /\ branch' = After(gone, FU!branch_next(execute))
    /\ mem' = After(gone, FU!mem_next(execute, mem_done, store_flush))
    /\ queue' = AllAfter(gone, CQ!queue_next(FU!Results(mem_done, store_flush), store_flush))

RunCycle(n, complete, resolve, mem_done, issue) ==
    \E group \in Groups(num_can_fetch(n, resolve), RobIndexes(complete)) :
        /\ ROB!Run(n, FALSE, RobIndexes(complete), resolve, ToRob(group))
        /\ Pipeline({i \in Index : Dist(i) < n}, {}, complete, mem_done, issue, group)

RewindCycle(n, complete, mem_done, issue) ==
    LET squashed == {i \in Index : ROB!Rewound(i, ROB!RewindNum(n, FALSE))} IN
    /\ ROB!Rewind(n, FALSE)
    /\ Pipeline({i \in Index : Dist(i) < n} \cup squashed, squashed, complete,
                mem_done, issue, <<>>)

Tick(mem_done) ==
    \E n \in ROB!RetireNum(FALSE), complete \in CQ!Completions(store_flush),
       resolve \in Resolutions :
        \E issue \in RS!Issues(IQ!issue_empty_slots(FU!execute_empty_slots(mem_done))) :
            \/ RewindCycle(n, complete, mem_done, issue)
            \/ RunCycle(n, complete, resolve, mem_done, issue)

Next == \E mem_done \in MemAnswers : Tick(mem_done)

Spec == Init /\ [][Next]_vars

\* The clock ticks: WF_vars(Next), as every step is a step of Next.
ClockTicks == []<><<TRUE>>_vars \/ []<>~ENABLED <<Next>>_vars

\* The memory unit does not keep an instruction for ever.
MemoryAnswers == []<><<mem # NoInst>>_mem \/ []<>(mem = NoInst)

FairSpec == Spec /\ ClockTicks /\ MemoryAnswers

-----------------------------------------------------------------------------
(* Properties.                                                              *)

TypeOK ==
    /\ ROB!TypeOK
    /\ rs \subseteq Packet /\ Cardinality(rs) <= RS_SIZE
    /\ InIssueQueue \subseteq Packet /\ Len(iq) <= IQ_SIZE
    /\ InUnits \subseteq Packet
    /\ InQueue \subseteq Packet /\ Len(queue) <= CQ_SIZE

\* How many places behind dispatch hold the instruction i of the ROB.
Places(i) ==
    LET at(p) == p # NoInst /\ p.current /\ p.rob_index = i IN
    Cardinality({p \in rs : at(p)})
    + Cardinality({k \in DOMAIN iq : at(iq[k])})
    + Cardinality({k \in DOMAIN fast_int : at(fast_int[k])})
    + Cardinality({u \in (1 .. WAY) \X (0 .. NUM_STAGE) : at(mult[u[1]][u[2]])})
    + Cardinality({p \in {branch, mem} : at(p)})
    + Cardinality({k \in DOMAIN queue : at(queue[k])})

\* An instruction is in one place only, from its dispatch until its completion:
\* no instruction is lost between two parts, none is sent twice, and none
\* completes without having been executed (rs.sv:141-167,
\* issue_queue.sv:84-189, fu.sv:645-669, cq.sv:51-76).
OnePlace ==
    ~in_rewind => \A i \in Index : Places(i) = IF i \in InFlight THEN 1 ELSE 0

\* No instruction is ever in two places, also when squashed multiplications
\* complete others before their time, and one that has left the ROB is in none:
\* nothing is issued or sent twice (rs.sv:141-167, issue_queue.sv:84-189,
\* fu.sv:645-669, cq.sv:51-76).
NeverTwice == \A i \in Index : Places(i) <= IF ROB!Live(i) THEN 1 ELSE 0

\* The completion queue is not full and has room for the results of this cycle.
RoomForResults ==
    /\ Len(queue) < CQ_SIZE
    /\ \A mem_done \in MemAnswers :
          Len(queue) + Len(FU!Results(mem_done, FALSE)) <= CQ_SIZE

\* An instruction in flight keeps a place in every step without a rewind; it
\* loses it only from a unit or the completion queue, and only when the queue
\* has no room (cq.sv:51-76): no handshake between two parts loses one
\* (rs.sv:151-154, issue_queue.sv:84-181), and no flush takes one that is
\* still in flight (rob.sv:339-342, issue_queue.sv:193, cq.sv:80).
LostOnlyForRoom ==
    [][~in_rewind' =>
          \A i \in Index : i \in InFlight' =>
             \/ Places(i)' = 1
             \/ i \in InFlight /\ Places(i) = 0
             \/ /\ ~RoomForResults
                /\ \E p \in InUnits \cup InQueue : p.current /\ p.rob_index = i]_vars

\* An instruction in the reservation station waits for exactly those of its
\* sources that are in flight, and an issued one for none, whatever completes
\* in the cycle of its dispatch or of its issue (rs.sv:118-140;
\* dispatch_stage.sv:124-131).
WakesExactly ==
    ~in_rewind => /\ \A p \in rs : p.waits = p.needs
                  /\ \A p \in Issued : p.needs = {}

\* When a rewind and the flush after it are over, nothing squashed is left
\* where a flush or a rewind reaches, although an instruction may be issued or
\* sent in the very cycle that squashes it (rs.sv:108-117, issue_queue.sv:193,
\* fu_macro.svh:70-77, cq.sv:80).
NoLeftovers ==
    /\ \A p \in rs : p.current
    /\ ~in_rewind /\ ~store_flush =>
          \A p \in Issued : p.current \/ p.kind \in {"mult", "branch"}

\* Only its own result completes an instruction, and only its own resolution
\* makes a branch mispredicted (complete.svh:9, rob.sv:235-271).
OwnResults ==
    [][\A i \in Index :
          LET own(p) == p # NoInst /\ p.current /\ p.rob_index = i
              kept == ROB!Live(i) /\ rob_mem'[i].valid
          IN
          /\ kept /\ ~rob_mem[i].complete /\ rob_mem'[i].complete =>
                \E p \in InQueue : own(p)
          /\ kept /\ ~rob_mem[i].exception /\ rob_mem'[i].exception => own(branch)]_vars

\* No instruction stays at the head for ever: it gets its sources, a place in
\* the issue queue, a unit and a completion, whatever else is ready, and
\* retires or rewinds (rob.sv:182-232, rs.sv:141-154, issue_queue.sv:84-181).
HeadMoves == \A i \in Index : ~is_empty /\ head = i ~> head # i \/ is_empty
=============================================================================
