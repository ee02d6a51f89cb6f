------------------------------ MODULE DataCache ------------------------------
(***************************************************************************)
(* The data cache and its controller, src/verilog/dcache.sv and              *)
(* cache_ctrl.sv, with the arbiter in front of memory (mem_ctrl.sv).  A line  *)
(* is written through: a store first reads its line over load port 1, then   *)
(* writes the combined line to the cache and to memory.  The other load port  *)
(* belongs to the load unit.                                                *)
(*                                                                         *)
(* The wires of a cycle are those after its falling edge, when memory has    *)
(* answered the command of the cycle.  Left out:                             *)
(*  - prev_addr: operation_next equals an operation other than none only     *)
(*    while current_miss holds, so a changed address makes no difference;    *)
(*  - ORIG_LOAD: p.sv:219-220 never loads over port 1.                       *)
(***************************************************************************)
EXTENDS LineData, FiniteSets

CONSTANTS
    CacheIndex,     \* the sets of the cache
    IndexOf,        \* the set of each line
    Tag             \* tags of memory transactions, without 0

ASSUME DataCacheAssumption ==
    /\ IndexOf \in [Line -> CacheIndex]
    /\ Tag \subseteq Nat \ {0}

VARIABLES
    dcache_data,        \* the line in each set
    MSHR_table,         \* the accepted miss of each load port
    operation,          \* the port whose command is on the bus, or 3
    miss_outstanding,   \* that command was not answered when it was last looked at
    state               \* NO_LOAD or PROC_STORE of the controller

dataCacheVars == <<dcache_data, MSHR_table, operation, miss_outstanding, state>>

Port == 0 .. 2
NoPort == 3

NoMiss == [mem_tag |-> 0, miss_addr |-> ZeroLine]
NoLine == [valids |-> FALSE, tags |-> ZeroLine, data |-> ZeroContent]

DataCacheTypeOK ==
    /\ dcache_data \in [CacheIndex -> [valids : BOOLEAN, tags : Line, data : LineContent]]
    /\ MSHR_table \in [0 .. 1 -> [mem_tag : Tag \cup {0}, miss_addr : Line]]
    /\ operation \in Port \cup {NoPort}
    /\ miss_outstanding \in BOOLEAN
    /\ state \in {"NO_LOAD", "PROC_STORE"}

\* The reset leaves miss_outstanding as it is.
DataCacheInit ==
    /\ dcache_data = [i \in CacheIndex |-> NoLine]
    /\ MSHR_table = [i \in 0 .. 1 |-> NoMiss]
    /\ operation = NoPort
    /\ miss_outstanding \in BOOLEAN
    /\ state = "NO_LOAD"

-----------------------------------------------------------------------------
(* in is what the other components drive in the cycle:                      *)
(*   load : the load unit is in its queue state and there is no flush        *)
(*   line : the line of the load unit                                       *)
(*   store, addr, func, data : the store that the store queue offers         *)
(*   response : the tag under which memory took the command, or 0            *)
(*   tag, content : the transaction that memory answers, or 0                *)
(*   flush                                                                  *)

\* The line on each port.  Port 1 reads for the store, and is 0 without one.
PortLine(in, i) ==
    IF i = 0 THEN in.line
    ELSE IF i = 2 \/ in.store \/ state = "PROC_STORE" THEN in.addr.line
    ELSE ZeroLine

CacheLine(in, i) == dcache_data[IndexOf[PortLine(in, i)]]
Hit(in, i) == CacheLine(in, i).valids /\ CacheLine(in, i).tags = PortLine(in, i)

MissOn(j, line) == MSHR_table[j].mem_tag # 0 /\ MSHR_table[j].miss_addr = line

\* A load finds the line on its way for the other port, a store for either.
relevant_to_pending_miss(in, i) ==
    IF i < 2 THEN MissOn(1 - i, PortLine(in, i))
    ELSE \E j \in 0 .. 1 : MissOn(j, PortLine(in, i))

\* The arbiter passes a response on only while the cache is on the bus.
current_miss(in) == miss_outstanding /\ (operation = NoPort \/ in.response = 0)

Answered(in, i) == ~current_miss(in) /\ operation = i

load_store_accepted(in, i) ==
    \/ Answered(in, i)
    \/ i < 2 /\ relevant_to_pending_miss(in, i)

\* The store is done.
store_accepted(in) ==
    /\ state = "PROC_STORE"
    /\ Hit(in, 1)
    /\ load_store_accepted(in, 2)

StoreActive(in) == state = "PROC_STORE" \/ in.store

\* The load unit and the store meet in a line, and the load is stalled.  When the
\* load is accepted in this cycle, load_en and load_accepted form a loop with two
\* solutions, stalled and not stalled.
Stalls(in) ==
    IF ~(in.load /\ StoreActive(in) /\ PortLine(in, 0) = PortLine(in, 2)) THEN {FALSE}
    ELSE IF load_store_accepted(in, 0) THEN BOOLEAN
    ELSE {TRUE}

load_accepted(in, stalled) == ~stalled /\ load_store_accepted(in, 0)
load_valid(in, stalled) == ~stalled /\ Hit(in, 0)

\* The ports that ask for the bus.
waiting_for_response(in, stalled) ==
    {i \in Port :
        /\ ~relevant_to_pending_miss(in, i)
        /\ \/ i = 0 /\ in.load /\ ~stalled /\ ~load_store_accepted(in, 0) /\ ~Hit(in, 0)
           \/ i = 1 /\ in.store /\ state = "NO_LOAD"
                    /\ ~load_store_accepted(in, 1) /\ ~Hit(in, 1)
           \/ i = 2 /\ in.store /\ state = "PROC_STORE" /\ Hit(in, 1) /\ ~store_accepted(in)}

\* A port keeps the bus until it is accepted; then the highest waiting port gets it.
operation_next(in, stalled) ==
    LET waiting == waiting_for_response(in, stalled) IN
    IF operation # NoPort
    THEN IF load_store_accepted(in, operation) THEN NoPort ELSE operation
    ELSE IF waiting = {} THEN NoPort
    ELSE CHOOSE i \in waiting : \A j \in waiting : j <= i

\* Dcache2Dmem_command, _addr and _data.
Command == IF operation = 2 THEN "BUS_STORE" ELSE IF operation = NoPort THEN "BUS_NONE"
           ELSE "BUS_LOAD"
CommandLine(in) == PortLine(in, operation)
Combined(in) == combine_store(in.func, in.addr, CacheLine(in, 1).data, in.data)

\* Mutated form of data_write_enable: stores go to memory only.
data_write_enable_loads(in, stalled, i) ==
    i < 2 /\ MSHR_table[i].mem_tag # 0 /\ MSHR_table[i].mem_tag = in.tag

data_write_enable(in, stalled, i) ==
    IF i = 2 THEN operation_next(in, stalled) = 2
    ELSE MSHR_table[i].mem_tag # 0 /\ MSHR_table[i].mem_tag = in.tag

\* The last port that writes a set wins.
Writer(in, stalled, index) ==
    LET writers == {i \in Port : data_write_enable(in, stalled, i)
                                 /\ IndexOf[PortLine(in, i)] = index}
    IN IF writers = {} THEN NoPort
       ELSE CHOOSE i \in writers : \A j \in writers : j <= i

\* Mutated form of MissesAfter: the entry keeps its tag when its line has come.
MissesAfterKept(in) ==
    [i \in 0 .. 1 |->
        IF Answered(in, i) /\ ~relevant_to_pending_miss(in, i)
        THEN [mem_tag |-> in.response, miss_addr |-> PortLine(in, i)]
        ELSE MSHR_table[i]]

MissesAfter(in) ==
    [i \in 0 .. 1 |->
        IF Answered(in, i) /\ ~relevant_to_pending_miss(in, i)
        THEN [mem_tag |-> in.response, miss_addr |-> PortLine(in, i)]
        ELSE IF MSHR_table[i].mem_tag # 0 /\ MSHR_table[i].mem_tag = in.tag THEN NoMiss
        ELSE MSHR_table[i]]

\* Mutated form of StateAfter: the controller stays with a store that is done.
StateAfterStays(in) ==
    IF state = "PROC_STORE" \/ (in.store /\ (load_store_accepted(in, 1) \/ Hit(in, 1)))
    THEN "PROC_STORE" ELSE "NO_LOAD"

\* Mutated form of StateAfter: a store whose line is in the cache is not started.
StateAfterMiss(in) ==
    IF state = "PROC_STORE" THEN IF store_accepted(in) THEN "NO_LOAD" ELSE "PROC_STORE"
    ELSE IF in.store /\ load_store_accepted(in, 1) THEN "PROC_STORE"
    ELSE "NO_LOAD"

StateAfter(in) ==
    IF state = "PROC_STORE" THEN IF store_accepted(in) THEN "NO_LOAD" ELSE "PROC_STORE"
    ELSE IF in.store /\ (load_store_accepted(in, 1) \/ Hit(in, 1)) THEN "PROC_STORE"
    ELSE "NO_LOAD"

\* One clock cycle.  A fill goes to the line that its port carries now.
DataCacheCycle(in, stalled) ==
    IF in.flush
    THEN /\ MSHR_table' = [i \in 0 .. 1 |-> NoMiss]
         /\ operation' = NoPort
         /\ state' = "NO_LOAD"
         /\ UNCHANGED <<dcache_data, miss_outstanding>>
    ELSE /\ MSHR_table' = MissesAfter(in)
         /\ operation' = operation_next(in, stalled)
         /\ miss_outstanding' =
               (operation_next(in, stalled) \notin {NoPort, operation} \/ current_miss(in))
         /\ state' = StateAfter(in)
         /\ dcache_data' =
               [index \in CacheIndex |->
                   LET i == Writer(in, stalled, index) IN
                   IF i = NoPort THEN dcache_data[index]
                   ELSE [valids |-> TRUE, tags |-> PortLine(in, i),
                         data |-> IF i = 2 THEN Combined(in) ELSE in.content]]
=============================================================================
