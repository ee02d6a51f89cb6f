---------------------------- MODULE LoadStorePath ----------------------------
(***************************************************************************)
(* The way of loads and stores: the memory unit, the store queue, the data    *)
(* cache with its controller, and memory (src/verilog/mem.sv), wired as in     *)
(* p.sv.  All take a step at every clock edge.                               *)
(*                                                                         *)
(* The surroundings are described by window, the loads and stores in flight  *)
(* in program order: dispatch adds any group for which the store queue has    *)
(* room, the reservation station issues stores in any order and a load once   *)
(* the older stores have executed, and the ROB retires in order.             *)
(*                                                                         *)
(* Memory may refuse a command, because the transactions of the instruction  *)
(* cache take its tags too, and answers loads in any order.                  *)
(***************************************************************************)
EXTENDS StoreQueue, LoadUnit, DataCache, FiniteSetsExt

CONSTANTS
    Ops,            \* the operations of the programs
    MAX_WINDOW      \* bound on the operations in flight

VARIABLES
    unified_memory,     \* the lines in memory
    loaded_data,        \* for each tag, the line to be sent, or NoContent
    window              \* the loads and stores in flight

vars == <<storeQueueVars, loadUnitVars, dataCacheVars, unified_memory, loaded_data, window>>

NoContent == [w \in {} |-> 0]
NoValue == [b \in {} |-> 0]

ASSUME LoadStorePathAssumption ==
    /\ MAX_WINDOW \in Nat
    /\ \A o \in Ops : /\ o \in [rw : {"read", "write"}, func : Func, addr : Addr,
                                store_data : WordData]
                      /\ Aligned(o.func, o.addr)

Stage == {"waiting", "ready", "issued", "done"}

TypeOK ==
    /\ StoreQueueTypeOK
    /\ LoadUnitTypeOK
    /\ DataCacheTypeOK
    /\ unified_memory \in [Line -> LineContent]
    /\ loaded_data \in [Tag -> LineContent \cup {NoContent}]
    /\ window \in Seq([op : Ops, sq_index : Slot, stage : Stage,
                        value : WordData \cup {NoValue}])
    /\ Len(window) <= MAX_WINDOW

Init ==
    /\ StoreQueueInit
    /\ LoadUnitInit
    /\ DataCacheInit
    /\ unified_memory = [l \in Line |-> ZeroContent]
    /\ loaded_data = [t \in Tag |-> NoContent]
    /\ window = <<>>

-----------------------------------------------------------------------------
(* The surroundings.                                                        *)

IsStore(w) == w.op.rw = "write"

\* The ROB offers its oldest instruction when that is a completed store, at some
\* cycle after its completion, and until it is taken (rob.sv:189-198).
RetireIsStore ==
    IF store_en_prev THEN {TRUE}
    ELSE IF window # <<>> /\ IsStore(window[1]) /\ window[1].stage = "done" THEN BOOLEAN
    ELSE {FALSE}

\* store_flush comes after a rewind.  The rewind started when the branch was the
\* oldest instruction, so nothing older than it is in flight, and while it goes
\* on no store retires.
Flushes(is_store) == IF is_store THEN {FALSE} ELSE BOOLEAN

\* What the issue queue may send to the memory unit: an operation of the window.
Issuable ==
    {k \in DOMAIN window :
        window[k].stage = IF IsStore(window[k]) THEN "waiting" ELSE "ready"}

Packet(k) ==
    [rw |-> window[k].op.rw, func |-> window[k].op.func, addr |-> window[k].op.addr,
     store_data |-> window[k].op.store_data, sq_index |-> window[k].sq_index]

\* Memory takes a command under a tag that is free, or refuses it with 0.
Responses ==
    IF Command = "BUS_NONE" THEN {0}
    ELSE {0} \cup {t \in Tag : loaded_data[t] = NoContent
                               /\ \A u \in Tag : u < t => loaded_data[u] # NoContent}

\* The transaction that is answered, or 0.
Answers == {0} \cup {t \in Tag : loaded_data[t] # NoContent}

StoresBefore(group, k) == Cardinality({j \in 1 .. k - 1 : group[j].rw = "write"})

\* The groups that the instruction buffer can give out: the store queue has
\* room for their stores.
Groups(flush, accepted, kept) ==
    {g \in UNION {[1 .. n -> Ops] : n \in 0 .. WAY} :
        /\ kept + Len(g) <= MAX_WINDOW
        /\ StoresBefore(g, Len(g) + 1) <= dispatch_empty_slots(flush, accepted)}

\* The group with its places in the store queue (dispatch_stage.sv:114-140).
Dispatched(flush, group) ==
    [k \in DOMAIN group |->
        [op |-> group[k],
         sq_index |-> (tail_index(flush) + StoresBefore(group, k)) % SQ_SIZE,
         stage |-> "waiting",
         value |-> NoValue]]

\* How many leave the window: the accepted store and the completed loads.
Leaving(accepted) ==
    LET goes(k) == IF IsStore(window[k]) THEN k = 1 /\ accepted
                   ELSE window[k].stage = "done"
        stay == {k \in DOMAIN window : ~goes(k)}
    IN IF stay = {} THEN Len(window) ELSE Min(stay) - 1

-----------------------------------------------------------------------------

\* What the other components drive into the cache.
CacheInputs(flush, is_store, response, tag) ==
    LET offered == Offered(flush, is_store) IN
    [flush |-> flush,
     load |-> ~flush /\ load_state = "queue", line |-> load_line,
     store |-> store_en(flush, is_store),
     addr |-> offered.addr, func |-> offered.func, data |-> offered.data,
     response |-> response, tag |-> tag,
     content |-> IF tag = 0 THEN ZeroContent ELSE loaded_data[tag]]

\* The store that the memory unit executes in this cycle.
StoreSent(flush) ==
    IF Starts(flush, "write")
    THEN [valid |-> TRUE, sq_index |-> execute_data.sq_index, func |-> execute_data.func,
          addr |-> execute_data.addr, data |-> execute_data.store_data]
    ELSE NoStore

\* Memory at the falling edge of the clock.
MemoryCycle(in) ==
    /\ unified_memory' =
          IF Command = "BUS_STORE" /\ in.response # 0
          THEN [unified_memory EXCEPT ![CommandLine(in)] = Combined(in)]
          ELSE unified_memory
    /\ loaded_data' =
          [t \in Tag |->
              IF Command = "BUS_LOAD" /\ t = in.response
              THEN unified_memory[CommandLine(in)]
              ELSE IF t = in.tag THEN NoContent
              ELSE loaded_data[t]]

\* The operations in flight: the unit finishes one and takes another, loads
\* become ready, some leave and a group enters.
WindowCycle(in, finished, issued, group) ==
    LET accepted == store_accepted(in)
        moved ==
            [k \in DOMAIN window |->
                IF window[k].stage = "issued" /\ finished
                THEN [window[k] EXCEPT !.stage = "done",
                                       !.value = IF IsStore(window[k]) THEN NoValue
                                                 ELSE LoadResultValue(CacheLine(in, 0).data)]
                ELSE IF k = issued THEN [window[k] EXCEPT !.stage = "issued"]
                ELSE window[k]]
        kept == IF in.flush THEN <<>>
                ELSE SubSeq(moved, Leaving(accepted) + 1, Len(window))
        all == kept \o Dispatched(in.flush, group)
        woken(w) == /\ ~IsStore(w) /\ w.stage = "waiting"
                    /\ OlderComplete(in.flush, accepted, StoreSent(in.flush), w.sq_index)
    IN window' = [k \in DOMAIN all |->
                    IF woken(all[k]) THEN [all[k] EXCEPT !.stage = "ready"] ELSE all[k]]

\* One clock cycle of everything, with the given inputs.
Tick(is_store, flush, response, tag) ==
    LET in == CacheInputs(flush, is_store, response, tag)
        accepted == store_accepted(in)
        store == StoreSent(flush)
        forwarded == Forwarded(flush, accepted, store, execute_data.sq_index,
                               execute_data.addr)
        kept == IF flush THEN 0 ELSE Len(window) - Leaving(accepted)
    IN \E stalled \in Stalls(in) :
        LET valid == load_valid(in, stalled)
            taken == load_accepted(in, stalled)
        IN
        /\ DataCacheCycle(in, stalled)
        /\ MemoryCycle(in)
        /\ \E issued \in {0} \cup IF flush THEN {} ELSE Issuable :
              /\ LoadUnitCycle(flush, valid, taken, forwarded,
                               IF issued = 0 THEN NoOp ELSE Packet(issued))
              /\ \E group \in Groups(flush, accepted, kept) :
                    /\ StoreQueueCycle(flush, is_store, accepted, store,
                                       StoresBefore(group, Len(group) + 1))
                    /\ WindowCycle(in, ResultValid(flush, valid, taken), issued, group)

Next ==
    \E is_store \in RetireIsStore :
        \E flush \in Flushes(is_store), response \in Responses, tag \in Answers :
            Tick(is_store, flush, response, tag)

Spec == Init /\ [][Next]_vars

(***************************************************************************)
(* Fairness.  The clock ticks, and not every cycle is one of a flush          *)
(* (rob.sv:179-180).  Memory takes a command in the end and answers each load *)
(* in the end: a transaction lasts MEM_LATENCY_IN_CYCLES and the instruction  *)
(* cache has the bus only when the data cache does not want it.              *)
(***************************************************************************)
Runs ==
    \E is_store \in RetireIsStore, response \in Responses, tag \in Answers :
        Tick(is_store, FALSE, response, tag)

Takes ==
    \E is_store \in RetireIsStore :
        \E flush \in Flushes(is_store), response \in Responses \ {0}, tag \in Answers :
            Tick(is_store, flush, response, tag)

Sends(t) ==
    /\ t \in Answers
    /\ \E is_store \in RetireIsStore :
          \E flush \in Flushes(is_store), response \in Responses :
              Tick(is_store, flush, response, t)

FairSpec ==
    /\ Spec
    /\ WF_vars(Runs)
    /\ WF_vars(Takes)
    /\ \A t \in Tag : WF_vars(Sends(t))

-----------------------------------------------------------------------------
(* Properties.                                                              *)

\* Loads return what the older stores leave in memory, and stores enter memory
\* one by one in program order, each once (sq.sv:140-174, cache_ctrl.sv:182-260,
\* dcache.sv:134-160): the path implements a flat memory.
Flat == INSTANCE FlatMemory WITH
            memory <- unified_memory,
            window <- [k \in DOMAIN window |->
                          [rw |-> window[k].op.rw, func |-> window[k].op.func,
                           addr |-> window[k].op.addr, data |-> window[k].op.store_data,
                           value |-> window[k].value]]
IsFlatMemory == Flat!Spec

\* The cache holds what memory holds, except that a store whose command is on the
\* bus has been written to the cache and not yet to memory (dcache.sv:119, 193-199).
CacheIsMemory ==
    \A index \in CacheIndex :
        LET c == dcache_data[index] IN
        c.valids =>
            \/ c.data = unified_memory[c.tags]
            \/ /\ operation = 2 /\ sq[head].addr.line = c.tags
               /\ c.data = combine_store(sq[head].func, sq[head].addr,
                                         unified_memory[c.tags], sq[head].data)

\* A pending miss is for the line that its port still carries, so that the fill
\* goes where it belongs, and the line on its way is not older than memory
\* (dcache.sv:82, 182-199).
FillsAreCurrent ==
    \A i \in 0 .. 1 :
        LET m == MSHR_table[i] IN
        m.mem_tag # 0 =>
            /\ m.miss_addr = IF i = 0 THEN execute_data.addr.line ELSE sq[head].addr.line
            /\ i = 0 => execute_data.rw = "read"
            /\ i = 1 => store_en_prev
            /\ loaded_data[m.mem_tag] = unified_memory[m.miss_addr]

\* A load in the unit is finished or flushed in the end (fu.sv:354-358).
LoadsFinish == load_state # "idle" ~> load_state = "idle"

\* A store that has been offered to the cache is taken in the end
\* (sq.sv:105-128, cache_ctrl.sv:250-258).
StoresFinish == store_en_prev ~> ~store_en_prev
=============================================================================
