-------------------------- MODULE LoadStoreProofs --------------------------
(***************************************************************************)
(* Proofs about the load and store path: the types of its registers, that    *)
(* the data cache holds what memory holds, and that the lines on their way    *)
(* into it are those of memory.                                             *)
(***************************************************************************)
EXTENDS LoadStorePath, FiniteSetTheorems, SequenceTheorems, NaturalLemmas

-----------------------------------------------------------------------------
(* The inductive invariant.                                                 *)

\* The stores among the first k operations of a window.
StoresUpTo(ops, k) == {j \in 1 .. k : IsStore(ops[j])}
StoreCount(ops, k) == Cardinality(StoresUpTo(ops, k))

\* The ring holds the stores of the window, in order, from head to tail; the unit
\* executes an operation of the window; and the store that is offered to the cache
\* is the oldest operation and done.
RingInv ==
    /\ \A k \in DOMAIN window :
          IsStore(window[k]) => window[k].sq_index = (head + StoreCount(window, k - 1)) % SQ_SIZE
    /\ StoreCount(window, Len(window)) <= WAY
    /\ tail = (head + StoreCount(window, Len(window))) % SQ_SIZE
    /\ empty <=> StoreCount(window, Len(window)) = 0
    /\ execute_data # NoOp =>
          \E k \in DOMAIN window : window[k].stage = "issued" /\ execute_data = Packet(k)
    /\ store_en_prev => /\ window # <<>>
                        /\ IsStore(window[1]) /\ window[1].stage = "done"

PendingMiss(i) == MSHR_table[i].mem_tag # 0
InCache(line) == dcache_data[IndexOf[line]].valids /\ dcache_data[IndexOf[line]].tags = line
StoreLine == sq[head].addr.line

\* Every line is in its set, and a line on its way is not in the cache.
LinesInv ==
    /\ \A index \in CacheIndex :
          dcache_data[index].valids => IndexOf[dcache_data[index].tags] = index
    /\ \A i \in 0 .. 1 : PendingMiss(i) => ~InCache(MSHR_table[i].miss_addr)

\* What the controller and the load unit are doing while a miss is pending.
MissInv ==
    /\ PendingMiss(0) /\ PendingMiss(1) =>
          /\ MSHR_table[0].mem_tag # MSHR_table[1].mem_tag
          /\ MSHR_table[0].miss_addr # MSHR_table[1].miss_addr
    /\ PendingMiss(0) => /\ load_state # "idle"
                         /\ load_state = "queue" => store_en_prev /\ StoreLine = load_line
    /\ PendingMiss(1) => state = "PROC_STORE"
    /\ state = "PROC_STORE" => store_en_prev
    /\ load_state # "idle" => execute_data.rw = "read" /\ ~alu_start

\* What holds as long as a command is on the bus.
BusInv ==
    /\ operation # NoPort => miss_outstanding
    /\ operation = 0 => /\ load_state = "queue" /\ ~PendingMiss(0)
                        /\ ~MissOn(1, load_line) /\ ~InCache(load_line)
    /\ operation = 1 => /\ state = "NO_LOAD" /\ store_en_prev
                        /\ ~MissOn(0, StoreLine) /\ ~InCache(StoreLine)
    /\ operation = 2 => /\ state = "PROC_STORE" /\ InCache(StoreLine)
                        /\ \A j \in 0 .. 1 : ~MissOn(j, StoreLine)
                        /\ dcache_data[IndexOf[StoreLine]].data =
                             combine_store(sq[head].func, sq[head].addr,
                                           unified_memory[StoreLine], sq[head].data)

PathInv ==
    /\ TypeOK
    /\ RingInv
    /\ LinesInv
    /\ MissInv
    /\ BusInv
    /\ CacheIsMemory
    /\ FillsAreCurrent

-----------------------------------------------------------------------------
(* Words, lines and addresses.                                              *)

USE LineDataAssumption, DataCacheAssumption, StoreQueueAssumption, LoadStorePathAssumption

\* The contents and addresses of idle ports have their types.
LEMMA ZeroTypes ==
    /\ ZeroWord \in WordData
    /\ ZeroContent \in LineContent
    /\ ZeroAddr \in Addr
    /\ NoEntry \in Entry
    /\ NoContent \notin LineContent
<1>1. 0 \in Byte /\ 0 \in 0 .. WORDS - 1
  BY DEF Byte
<1>2. ZeroWord \in WordData
  BY DEF ZeroWord, WordData
<1>3. ZeroContent \in LineContent
  BY <1>2 DEF ZeroContent, LineContent
<1>4. ZeroAddr \in Addr
  BY <1>1 DEF ZeroAddr, Addr
<1>5. NoEntry \in Entry
  BY <1>2, <1>4 DEF NoEntry, Entry, Func
<1>6. NoContent \notin LineContent
  BY <1>1 DEF NoContent, LineContent
<1> QED BY <1>2, <1>3, <1>4, <1>5, <1>6

\* A store leaves a line.
LEMMA CombineType ==
    ASSUME NEW func \in Func, NEW addr \in Addr, NEW content \in LineContent,
           NEW word \in WordData
    PROVE  combine_store(func, addr, content, word) \in LineContent
<1>1. addr.word \in 0 .. WORDS - 1 /\ addr.byte \in Byte /\ 0 \in Byte
  BY DEF Addr, Byte
<1>2. content[addr.word] \in WordData /\ word[0] \in Value
  BY <1>1 DEF LineContent, WordData
<1>3. [content[addr.word] EXCEPT ![addr.byte] = word[0]] \in WordData
  BY <1>1, <1>2 DEF WordData
<1>4. [content EXCEPT ![addr.word] = word] \in LineContent
  BY <1>1 DEF LineContent
<1>5. [content EXCEPT ![addr.word] = [content[addr.word] EXCEPT ![addr.byte] = word[0]]]
        \in LineContent
  BY <1>1, <1>3 DEF LineContent
<1> QED BY <1>4, <1>5 DEF combine_store

\* A store that is done twice is done once (dcache.sv writes the combined line in
\* every cycle in which the command is on the bus).
LEMMA CombineTwice ==
    ASSUME NEW func \in Func, NEW addr \in Addr, NEW content \in LineContent,
           NEW word \in WordData
    PROVE  combine_store(func, addr, combine_store(func, addr, content, word), word)
             = combine_store(func, addr, content, word)
<1>1. addr.word \in 0 .. WORDS - 1 /\ addr.byte \in Byte
  BY DEF Addr, Byte
<1>2. CASE func = "word"
  <2>1. [[content EXCEPT ![addr.word] = word] EXCEPT ![addr.word] = word]
          = [content EXCEPT ![addr.word] = word]
    BY <1>1 DEF LineContent
  <2> QED BY <1>2, <2>1 DEF combine_store
<1>3. CASE func # "word"
  <2> DEFINE once == [content[addr.word] EXCEPT ![addr.byte] = word[0]]
             line == [content EXCEPT ![addr.word] = once]
  <2>1. content[addr.word] \in WordData
    BY <1>1 DEF LineContent
  <2>2. [once EXCEPT ![addr.byte] = word[0]] = once
    BY <1>1, <2>1 DEF WordData
  <2>3. line[addr.word] = once
    BY <1>1 DEF LineContent
  <2>4. [line EXCEPT ![addr.word] = once] = line
    BY <1>1 DEF LineContent
  <2>5. combine_store(func, addr, content, word) = line
    BY <1>3 DEF combine_store
  <2>6. combine_store(func, addr, line, word)
          = [line EXCEPT ![addr.word] = [line[addr.word] EXCEPT ![addr.byte] = word[0]]]
    BY <1>3 DEF combine_store
  <2> QED BY <2>2, <2>3, <2>4, <2>5, <2>6
<1> QED BY <1>2, <1>3

\* A load gets a word.
LEMMA ExtractType ==
    ASSUME NEW func \in Func, NEW addr \in Addr, NEW content \in LineContent
    PROVE  Extract(func, addr, content) \in WordData
<1>1. addr.word \in 0 .. WORDS - 1 /\ addr.byte \in Byte /\ 0 \in Byte
  BY DEF Addr, Byte
<1>2. content[addr.word] \in WordData /\ content[addr.word][addr.byte] \in Value
  BY <1>1 DEF LineContent, WordData
<1> QED BY <1>1, <1>2, ZeroTypes DEF Extract, WordData

-----------------------------------------------------------------------------
(* One clock cycle, with the inputs of Next named.                          *)

\* in is what the surroundings and memory drive in a cycle.
Drives(in, is_store, flush, response, tag) ==
    /\ is_store \in RetireIsStore
    /\ flush \in Flushes(is_store)
    /\ response \in Responses
    /\ tag \in Answers
    /\ in = CacheInputs(flush, is_store, response, tag)

\* What the wires of a cycle say: a store is offered from the head of the ring, and
\* without a flush; memory answers what it holds and takes commands under free tags.
LEMMA InputFacts ==
    ASSUME PathInv, NEW in, NEW is_store, NEW flush, NEW response, NEW tag,
           Drives(in, is_store, flush, response, tag)
    PROVE  /\ is_store \in BOOLEAN /\ flush \in BOOLEAN
           /\ in.flush = flush /\ in.line = load_line
           /\ in.response = response /\ in.tag = tag
           /\ in.load = (~flush /\ load_state = "queue")
           /\ in.store = store_en(flush, is_store)
           /\ in.store => /\ ~flush
                          /\ window # <<>> /\ IsStore(window[1]) /\ window[1].stage = "done"
                          /\ in.addr = sq[head].addr /\ in.func = sq[head].func
                          /\ in.data = sq[head].data
           /\ store_en_prev => in.store
           /\ response # 0 => /\ response \in Tag /\ loaded_data[response] = NoContent
                              /\ operation # NoPort
           /\ tag # 0 => /\ tag \in Tag
                         /\ in.content = loaded_data[tag]
                         /\ loaded_data[tag] \in LineContent
<1> USE DEF Drives
<1>1. /\ in.flush = flush /\ in.line = load_line
      /\ in.response = response /\ in.tag = tag
      /\ in.load = (~flush /\ load_state = "queue")
      /\ in.store = store_en(flush, is_store)
      /\ in.addr = Offered(flush, is_store).addr
      /\ in.func = Offered(flush, is_store).func
      /\ in.data = Offered(flush, is_store).data
      /\ in.content = IF tag = 0 THEN ZeroContent ELSE loaded_data[tag]
  BY DEF CacheInputs
<1>2. /\ is_store \in BOOLEAN /\ flush \in BOOLEAN
      /\ is_store => ~flush
      /\ store_en_prev => is_store
      /\ is_store => store_en_prev \/ /\ window # <<>>
                                      /\ IsStore(window[1]) /\ window[1].stage = "done"
  BY DEF RetireIsStore, Flushes
<1>3. store_en_prev \in BOOLEAN /\ empty \in BOOLEAN
  BY DEF PathInv, TypeOK, StoreQueueTypeOK
<1>4. ASSUME in.store
      PROVE  /\ ~flush
             /\ window # <<>> /\ IsStore(window[1]) /\ window[1].stage = "done"
             /\ in.addr = sq[head].addr /\ in.func = sq[head].func
             /\ in.data = sq[head].data
  <2>1. store_en(flush, is_store)
    BY <1>1, <1>4
  <2>2. ~flush /\ (store_en_prev \/ is_store)
    BY <2>1 DEF store_en
  <2>3. window # <<>> /\ IsStore(window[1]) /\ window[1].stage = "done"
    BY <2>2, <1>2 DEF PathInv, RingInv
  <2> QED BY <2>1, <2>2, <2>3, <1>1 DEF Offered
<1>5. store_en_prev => in.store
  BY <1>1, <1>2, <1>3 DEF store_en
<1>6. response # 0 => /\ response \in Tag /\ loaded_data[response] = NoContent
                      /\ operation # NoPort
  BY DEF Responses, Command, NoPort
<1>7. ASSUME tag # 0
      PROVE  /\ tag \in Tag /\ in.content = loaded_data[tag]
             /\ loaded_data[tag] \in LineContent
  BY <1>1, <1>7 DEF Answers, PathInv, TypeOK
<1> QED BY <1>1, <1>2, <1>4, <1>5, <1>6, <1>7

\* The lines on the ports of the cache.
LEMMA PortLines ==
    ASSUME PathInv, NEW in, NEW is_store, NEW flush, NEW response, NEW tag,
           Drives(in, is_store, flush, response, tag)
    PROVE  /\ PortLine(in, 0) = load_line /\ load_line \in Line
           /\ in.store => PortLine(in, 1) = StoreLine /\ PortLine(in, 2) = StoreLine
           /\ StoreLine \in Line
           /\ \A i \in Port : PortLine(in, i) \in Line
           /\ Hit(in, 0) <=> InCache(load_line)
           /\ in.store => (Hit(in, 1) <=> InCache(StoreLine))
<1>1. load_line \in Line
  BY ZeroTypes DEF PathInv, TypeOK, LoadUnitTypeOK, MemOp, NoOp, load_line, Addr
<1>2. StoreLine \in Line
  BY DEF PathInv, TypeOK, StoreQueueTypeOK, StoreLine, Entry, Addr
<1>3. PortLine(in, 0) = load_line
  BY InputFacts DEF PortLine
<1>4. in.store => PortLine(in, 1) = StoreLine /\ PortLine(in, 2) = StoreLine
  BY InputFacts DEF PortLine, StoreLine
<1>5. in.addr.line \in Line
  <2>1. in.addr = Offered(flush, is_store).addr
    BY DEF Drives, CacheInputs
  <2> QED BY <1>2, <2>1, ZeroTypes DEF Offered, StoreLine, NoEntry, Addr
<1>6. \A i \in Port : PortLine(in, i) \in Line
  BY <1>1, <1>3, <1>5 DEF PortLine
<1> QED BY <1>1, <1>2, <1>3, <1>4, <1>6 DEF Hit, CacheLine, InCache

\* A command on the bus is taken when memory responds; then its port is accepted.
\* A store is done when its command is taken.
LEMMA BusAccepts ==
    ASSUME PathInv, NEW in, NEW is_store, NEW flush, NEW response, NEW tag,
           Drives(in, is_store, flush, response, tag)
    PROVE  /\ \A i \in Port : Answered(in, i) <=> operation = i /\ response # 0
           /\ operation # NoPort =>
                 (load_store_accepted(in, operation) <=> response # 0)
           /\ store_accepted(in) <=> operation = 2 /\ response # 0
           /\ store_accepted(in) => in.store
           /\ \A i \in 0 .. 1 : operation = i => ~relevant_to_pending_miss(in, i)
<1>1. operation \in {0, 1, 2, 3} /\ (operation # 3 => miss_outstanding)
  BY DEF PathInv, TypeOK, DataCacheTypeOK, BusInv, Port, NoPort
<1>2. in.response = response /\ (response # 0 => operation # 3)
  BY InputFacts DEF NoPort
<1>3. \A i \in Port : Answered(in, i) <=> operation = i /\ response # 0
  BY <1>1, <1>2 DEF Answered, current_miss, Port, NoPort
<1>4. \A i \in 0 .. 1 : operation = i => ~relevant_to_pending_miss(in, i)
  <2>1. operation = 0 => ~relevant_to_pending_miss(in, 0)
    BY PortLines DEF PathInv, BusInv, relevant_to_pending_miss
  <2>2. operation = 1 => ~relevant_to_pending_miss(in, 1)
    BY PortLines, InputFacts DEF PathInv, BusInv, relevant_to_pending_miss
  <2> QED BY <2>1, <2>2
<1>5. operation # NoPort => (load_store_accepted(in, operation) <=> response # 0)
  BY <1>1, <1>3, <1>4 DEF load_store_accepted, Port, NoPort
<1>6. load_store_accepted(in, 2) <=> operation = 2 /\ response # 0
  BY <1>3 DEF load_store_accepted, Port
<1>7. operation = 2 => state = "PROC_STORE" /\ Hit(in, 1)
  <2>1. operation = 2 => state = "PROC_STORE" /\ store_en_prev /\ InCache(StoreLine)
    BY DEF PathInv, BusInv, MissInv
  <2> QED BY <2>1, PortLines, InputFacts
<1>8. store_accepted(in) <=> operation = 2 /\ response # 0
  BY <1>6, <1>7 DEF store_accepted
<1>9. store_accepted(in) => in.store
  BY InputFacts DEF store_accepted, PathInv, MissInv
<1> QED BY <1>3, <1>4, <1>5, <1>8, <1>9

\* The cache and memory take the step of a cycle.
Clocked(in, stalled) ==
    /\ stalled \in Stalls(in)
    /\ DataCacheCycle(in, stalled)
    /\ MemoryCycle(in)

\* The bus: a command stays until it is taken, then a waiting port gets the bus.
LEMMA BusGoesOn ==
    ASSUME PathInv, NEW in, NEW is_store, NEW flush, NEW response, NEW tag,
           Drives(in, is_store, flush, response, tag), ~flush,
           NEW stalled, Clocked(in, stalled)
    PROVE  /\ operation # NoPort =>
                 operation' = IF response # 0 THEN NoPort ELSE operation
           /\ operation = NoPort =>
                 operation' = NoPort \/ operation' \in waiting_for_response(in, stalled)
           /\ operation' = operation_next(in, stalled)
           /\ operation' \in Port \cup {NoPort}
           /\ miss_outstanding' \in BOOLEAN
           /\ operation' # NoPort => miss_outstanding'
<1>1. /\ operation' = operation_next(in, stalled)
      /\ miss_outstanding' =
               (operation_next(in, stalled) \notin {NoPort, operation} \/ current_miss(in))
  BY InputFacts DEF Clocked, DataCacheCycle
<1>2. operation \in {0, 1, 2, 3} /\ miss_outstanding \in BOOLEAN
  BY DEF PathInv, TypeOK, DataCacheTypeOK, Port, NoPort
<1>3. operation # NoPort => operation' = IF response # 0 THEN NoPort ELSE operation
  BY <1>1, BusAccepts DEF operation_next
<1>4. operation = NoPort =>
         operation' = NoPort \/ operation' \in waiting_for_response(in, stalled)
  <2> DEFINE waiting == waiting_for_response(in, stalled)
  <2>1. CASE waiting = {}
    BY <1>1, <2>1 DEF operation_next
  <2>2. CASE waiting # {}
    <3>1. waiting \subseteq {0, 1, 2}
      BY DEF waiting_for_response, Port
    <3> HIDE DEF waiting
    <3>2. \E i \in waiting : \A j \in waiting : j <= i
      <4>1. CASE 2 \in waiting
        BY <3>1, <4>1
      <4>2. CASE 2 \notin waiting /\ 1 \in waiting
        BY <3>1, <4>2
      <4>3. CASE 2 \notin waiting /\ 1 \notin waiting
        <5>1. PICK i \in waiting : TRUE
          BY <2>2
        <5>2. \A j \in waiting : j = 0
          BY <3>1, <4>3
        <5> QED BY <5>1, <5>2
      <4> QED BY <4>1, <4>2, <4>3
    <3>3. (CHOOSE i \in waiting : \A j \in waiting : j <= i) \in waiting
      BY <3>2
    <3> QED BY <1>1, <2>2, <3>3 DEF operation_next, waiting
  <2> QED BY <2>1, <2>2
<1>5. operation' \in Port \cup {NoPort}
  BY <1>2, <1>3, <1>4 DEF waiting_for_response, Port, NoPort
<1>6. miss_outstanding' \in BOOLEAN
  BY <1>1, <1>2 DEF current_miss
<1>7. ASSUME operation' # NoPort PROVE miss_outstanding'
  <2>1. CASE operation' = operation
    <3>1. response = 0 /\ miss_outstanding
      BY <1>3, <1>7, <2>1 DEF PathInv, BusInv
    <3> QED BY <3>1, <1>1, InputFacts DEF current_miss
  <2>2. CASE operation' # operation
    BY <1>1, <1>7, <2>2
  <2> QED BY <2>1, <2>2
<1> QED BY <1>1, <1>3, <1>4, <1>5, <1>6, <1>7

\* What it takes to get the bus: port 0 asks for a line that neither the cache nor
\* the store has, port 1 for one that neither the cache nor the load has, port 2
\* writes a line that is in the cache.
LEMMA BusGiven ==
    ASSUME PathInv, NEW in, NEW is_store, NEW flush, NEW response, NEW tag,
           Drives(in, is_store, flush, response, tag), ~flush,
           NEW stalled, Clocked(in, stalled), operation = NoPort
    PROVE  /\ operation' = 0 => /\ load_state = "queue" /\ ~stalled
                                /\ ~MissOn(1, load_line) /\ ~InCache(load_line)
                                /\ ~load_store_accepted(in, 0)
           /\ operation' = 1 => /\ in.store /\ state = "NO_LOAD"
                                /\ ~MissOn(0, StoreLine) /\ ~InCache(StoreLine)
                                /\ ~load_store_accepted(in, 1)
           /\ operation' = 2 => /\ in.store /\ state = "PROC_STORE" /\ InCache(StoreLine)
                                /\ \A j \in 0 .. 1 : ~MissOn(j, StoreLine)
<1>1. operation' # NoPort => operation' \in waiting_for_response(in, stalled)
  BY BusGoesOn
<1>2. CASE operation' = 0
  BY <1>1, <1>2, PortLines, InputFacts
     DEF waiting_for_response, NoPort, Port, relevant_to_pending_miss
<1>3. CASE operation' = 1
  BY <1>1, <1>3, PortLines, InputFacts
     DEF waiting_for_response, NoPort, Port, relevant_to_pending_miss
<1>4. CASE operation' = 2
  BY <1>1, <1>4, PortLines, InputFacts
     DEF waiting_for_response, NoPort, Port, relevant_to_pending_miss
<1> QED BY <1>2, <1>3, <1>4

\* A pending miss after the cycle.
MissAfter(in, response, tag, i) ==
    IF operation = i /\ response # 0
    THEN [mem_tag |-> response, miss_addr |-> PortLine(in, i)]
    ELSE IF PendingMiss(i) /\ MSHR_table[i].mem_tag = tag THEN NoMiss
    ELSE MSHR_table[i]

\* The pending misses after the cycle: a command that is taken becomes a pending miss,
\* and an answer ends its miss.
LEMMA MissesGoOn ==
    ASSUME PathInv, NEW in, NEW is_store, NEW flush, NEW response, NEW tag,
           Drives(in, is_store, flush, response, tag), ~flush,
           NEW stalled, Clocked(in, stalled)
    PROVE  MSHR_table' = [i \in 0 .. 1 |-> MissAfter(in, response, tag, i)]
<1>1. MSHR_table' = MissesAfter(in)
  BY InputFacts DEF Clocked, DataCacheCycle
<1>2. \A i \in 0 .. 1 :
         Answered(in, i) /\ ~relevant_to_pending_miss(in, i) <=> operation = i /\ response # 0
  BY BusAccepts DEF Port
<1>3. in.response = response /\ in.tag = tag
  BY InputFacts
<1> QED BY <1>1, <1>2, <1>3 DEF MissesAfter, MissAfter, PendingMiss

\* Their types.
LEMMA MissTypes ==
    ASSUME PathInv, NEW in, NEW is_store, NEW flush, NEW response, NEW tag,
           Drives(in, is_store, flush, response, tag), NEW i \in 0 .. 1
    PROVE  MissAfter(in, response, tag, i) \in [mem_tag : Tag \cup {0}, miss_addr : Line]
<1>1. NoMiss \in [mem_tag : Tag \cup {0}, miss_addr : Line]
  BY DEF NoMiss
<1>2. MSHR_table[i] \in [mem_tag : Tag \cup {0}, miss_addr : Line]
  BY DEF PathInv, TypeOK, DataCacheTypeOK
<1>3. PortLine(in, i) \in Line
  BY PortLines DEF Port
<1>4. response # 0 => response \in Tag
  BY InputFacts
<1> QED BY <1>1, <1>2, <1>3, <1>4 DEF MissAfter

\* Memory after the cycle: only the command of a store changes it, and only the line
\* of that store.  A load takes its line along under the tag of the response.
LEMMA MemoryGoesOn ==
    ASSUME PathInv, NEW in, NEW is_store, NEW flush, NEW response, NEW tag,
           Drives(in, is_store, flush, response, tag), MemoryCycle(in)
    PROVE  /\ unified_memory' =
                 IF operation = 2 /\ response # 0
                 THEN [unified_memory EXCEPT ![StoreLine] =
                         combine_store(sq[head].func, sq[head].addr,
                                       unified_memory[StoreLine], sq[head].data)]
                 ELSE unified_memory
           /\ unified_memory' \in [Line -> LineContent]
           /\ \A t \in Tag :
                 loaded_data'[t] =
                    IF operation \in 0 .. 1 /\ t = response
                    THEN unified_memory[PortLine(in, operation)]
                    ELSE IF t = tag THEN NoContent
                    ELSE loaded_data[t]
           /\ loaded_data' \in [Tag -> LineContent \cup {NoContent}]
<1> DEFINE stored == combine_store(sq[head].func, sq[head].addr,
                                   unified_memory[StoreLine], sq[head].data)
<1>1. /\ operation \in {0, 1, 2, 3}
      /\ unified_memory \in [Line -> LineContent]
      /\ loaded_data \in [Tag -> LineContent \cup {NoContent}]
      /\ sq[head].func \in Func /\ sq[head].addr \in Addr /\ sq[head].data \in WordData
      /\ StoreLine \in Line
  BY DEF PathInv, TypeOK, DataCacheTypeOK, StoreQueueTypeOK, Port, NoPort, Entry, StoreLine, Addr
<1>2. in.response = response /\ in.tag = tag
  BY InputFacts
<1>3. ASSUME operation = 2
      PROVE  CommandLine(in) = StoreLine /\ Combined(in) = stored
  <2>1. in.store
    BY <1>3, InputFacts DEF PathInv, BusInv, MissInv
  <2>2. /\ PortLine(in, 1) = StoreLine /\ PortLine(in, 2) = StoreLine
        /\ in.func = sq[head].func /\ in.addr = sq[head].addr /\ in.data = sq[head].data
    BY <2>1, InputFacts, PortLines
  <2>3. CacheLine(in, 1).data = stored
    BY <1>3, <2>2 DEF CacheLine, PathInv, BusInv
  <2>4. Combined(in) = stored
    BY <1>1, <2>2, <2>3, CombineTwice DEF Combined
  <2> QED BY <1>3, <2>2, <2>4 DEF CommandLine
<1>4. Command = "BUS_STORE" <=> operation = 2
  BY <1>1 DEF Command, NoPort
<1>5. Command = "BUS_LOAD" <=> operation \in 0 .. 1
  BY <1>1 DEF Command, NoPort
<1>6. unified_memory' = IF operation = 2 /\ response # 0
                        THEN [unified_memory EXCEPT ![StoreLine] = stored]
                        ELSE unified_memory
  BY <1>2, <1>3, <1>4 DEF MemoryCycle
<1>7. stored \in LineContent
  BY <1>1, CombineType
<1>8. unified_memory' \in [Line -> LineContent]
  BY <1>1, <1>6, <1>7
<1>9. ASSUME NEW t \in Tag
      PROVE  /\ loaded_data'[t] =
                   IF operation \in 0 .. 1 /\ t = response
                   THEN unified_memory[PortLine(in, operation)]
                   ELSE IF t = tag THEN NoContent
                   ELSE loaded_data[t]
             /\ loaded_data'[t] \in LineContent \cup {NoContent}
  <2>1. operation \in 0 .. 1 => PortLine(in, operation) \in Line
    BY PortLines DEF Port
  <2> QED BY <1>1, <1>2, <1>5, <2>1 DEF MemoryCycle, CommandLine
<1>10. loaded_data' \in [Tag -> LineContent \cup {NoContent}]
  BY <1>9 DEF MemoryCycle
<1> QED BY <1>6, <1>8, <1>9, <1>10

\* What a port writes into the cache: a fill the line that its miss is for, with the
\* contents that memory has; a store its line, which is in the cache, with the store
\* laid over what memory has.
LEMMA WhatPortsWrite ==
    ASSUME PathInv, NEW in, NEW is_store, NEW flush, NEW response, NEW tag,
           Drives(in, is_store, flush, response, tag), ~flush,
           NEW stalled, Clocked(in, stalled)
    PROVE  /\ \A i \in 0 .. 1 :
                 data_write_enable(in, stalled, i) =>
                    /\ PendingMiss(i) /\ MSHR_table[i].mem_tag = tag
                    /\ PortLine(in, i) = MSHR_table[i].miss_addr
                    /\ in.content = unified_memory[MSHR_table[i].miss_addr]
           /\ data_write_enable(in, stalled, 2) <=> operation' = 2
           /\ operation' = 2 =>
                 /\ in.store /\ state = "PROC_STORE" /\ InCache(StoreLine)
                 /\ \A j \in 0 .. 1 : ~MissOn(j, StoreLine)
                 /\ Combined(in) = combine_store(sq[head].func, sq[head].addr,
                                                 unified_memory[StoreLine], sq[head].data)
                 /\ ~(operation = 2 /\ response # 0)
<1>1. in.response = response /\ in.tag = tag
  BY InputFacts
<1>2. ASSUME NEW i \in 0 .. 1, data_write_enable(in, stalled, i)
      PROVE  /\ PendingMiss(i) /\ MSHR_table[i].mem_tag = tag
             /\ PortLine(in, i) = MSHR_table[i].miss_addr
             /\ in.content = unified_memory[MSHR_table[i].miss_addr]
  <2>1. PendingMiss(i) /\ MSHR_table[i].mem_tag = tag
    BY <1>1, <1>2 DEF data_write_enable, PendingMiss
  <2>2. loaded_data[tag] = unified_memory[MSHR_table[i].miss_addr]
    BY <2>1 DEF PathInv, FillsAreCurrent, PendingMiss
  <2>3. in.content = loaded_data[tag]
    BY <2>1, InputFacts DEF PendingMiss
  <2>4. CASE i = 0
    <3>1. MSHR_table[0].miss_addr = load_line
      BY <2>1, <2>4 DEF PathInv, FillsAreCurrent, PendingMiss, load_line
    <3> QED BY <2>1, <2>2, <2>3, <2>4, <3>1, PortLines
  <2>5. CASE i = 1
    <3>1. MSHR_table[1].miss_addr = StoreLine /\ store_en_prev
      BY <2>1, <2>5 DEF PathInv, FillsAreCurrent, PendingMiss, StoreLine
    <3> QED BY <2>1, <2>2, <2>3, <2>5, <3>1, PortLines, InputFacts
  <2> QED BY <2>4, <2>5
<1>3. data_write_enable(in, stalled, 2) <=> operation' = 2
  BY BusGoesOn DEF data_write_enable
<1>4. ASSUME operation' = 2
      PROVE  /\ in.store /\ state = "PROC_STORE" /\ InCache(StoreLine)
             /\ \A j \in 0 .. 1 : ~MissOn(j, StoreLine)
             /\ Combined(in) = combine_store(sq[head].func, sq[head].addr,
                                             unified_memory[StoreLine], sq[head].data)
             /\ ~(operation = 2 /\ response # 0)
  <2> DEFINE stored == combine_store(sq[head].func, sq[head].addr,
                                     unified_memory[StoreLine], sq[head].data)
  <2>1. /\ unified_memory \in [Line -> LineContent] /\ StoreLine \in Line
        /\ sq[head].func \in Func /\ sq[head].addr \in Addr /\ sq[head].data \in WordData
        /\ IndexOf[StoreLine] \in CacheIndex
    BY DEF PathInv, TypeOK, StoreQueueTypeOK, Entry, StoreLine, Addr
  <2>2. /\ in.store /\ state = "PROC_STORE" /\ InCache(StoreLine)
        /\ \A j \in 0 .. 1 : ~MissOn(j, StoreLine)
        /\ \/ dcache_data[IndexOf[StoreLine]].data = unified_memory[StoreLine]
           \/ dcache_data[IndexOf[StoreLine]].data = stored
        /\ ~(operation = 2 /\ response # 0)
    <3>1. CASE operation = NoPort
      <4>1. /\ in.store /\ state = "PROC_STORE" /\ InCache(StoreLine)
            /\ \A j \in 0 .. 1 : ~MissOn(j, StoreLine)
        BY <1>4, <3>1, BusGiven
      <4>2. dcache_data[IndexOf[StoreLine]].data = unified_memory[StoreLine]
        BY <2>1, <3>1, <4>1 DEF NoPort, PathInv, CacheIsMemory, InCache
      <4> QED BY <3>1, <4>1, <4>2 DEF NoPort
    <3>2. CASE operation # NoPort
      <4>1. operation = 2 /\ response = 0
        BY <1>4, <3>2, BusGoesOn DEF NoPort
      <4> QED BY <4>1, InputFacts DEF PathInv, BusInv, MissInv
    <3> QED BY <3>1, <3>2
  <2>3. /\ PortLine(in, 1) = StoreLine
        /\ in.func = sq[head].func /\ in.addr = sq[head].addr /\ in.data = sq[head].data
    BY <2>2, InputFacts, PortLines
  <2>4. Combined(in) = combine_store(sq[head].func, sq[head].addr,
                                     dcache_data[IndexOf[StoreLine]].data, sq[head].data)
    BY <2>3 DEF Combined, CacheLine
  <2>5. Combined(in) = stored
    BY <2>1, <2>2, <2>4, CombineTwice
  <2> QED BY <2>2, <2>5
<1> QED BY <1>2, <1>3, <1>4

\* The store that is offered, laid over what memory has.
StoredLine == combine_store(sq[head].func, sq[head].addr, unified_memory[StoreLine], sq[head].data)

\* A set of the cache after the cycle: a fill, the line of a store, or as before.  The
\* write of a store wins over a fill of the same set.
LEMMA CacheGoesOn ==
    ASSUME PathInv, NEW in, NEW is_store, NEW flush, NEW response, NEW tag,
           Drives(in, is_store, flush, response, tag), ~flush,
           NEW stalled, Clocked(in, stalled), NEW index \in CacheIndex
    PROVE  \/ /\ operation' = 2 /\ IndexOf[StoreLine] = index
              /\ dcache_data'[index] = [valids |-> TRUE, tags |-> StoreLine, data |-> StoredLine]
           \/ /\ ~(operation' = 2 /\ IndexOf[StoreLine] = index)
              /\ \/ dcache_data'[index] = dcache_data[index]
                 \/ \E i \in 0 .. 1 :
                       LET line == MSHR_table[i].miss_addr IN
                       /\ PendingMiss(i) /\ MSHR_table[i].mem_tag = tag
                       /\ IndexOf[line] = index
                       /\ dcache_data'[index] = [valids |-> TRUE, tags |-> line,
                                                 data |-> unified_memory[line]]
<1> DEFINE writers == {i \in Port : data_write_enable(in, stalled, i)
                                    /\ IndexOf[PortLine(in, i)] = index}
           w == Writer(in, stalled, index)
<1>1. dcache_data'[index] = IF w = NoPort THEN dcache_data[index]
                            ELSE [valids |-> TRUE, tags |-> PortLine(in, w),
                                  data |-> IF w = 2 THEN Combined(in) ELSE in.content]
  <2>1. ~in.flush
    BY InputFacts
  <2>2. dcache_data' =
               [d \in CacheIndex |->
                   LET i == Writer(in, stalled, d) IN
                   IF i = NoPort THEN dcache_data[d]
                   ELSE [valids |-> TRUE, tags |-> PortLine(in, i),
                         data |-> IF i = 2 THEN Combined(in) ELSE in.content]]
    BY <2>1 DEF Clocked, DataCacheCycle
  <2> QED BY <2>2
<1>2. writers \subseteq {0, 1, 2}
  BY DEF Port
<1>3. 2 \in writers <=> operation' = 2 /\ IndexOf[StoreLine] = index
  BY WhatPortsWrite, PortLines DEF Port
<1>4. CASE writers = {}
  <2>1. w = NoPort
    BY <1>4 DEF Writer
  <2> QED BY <1>1, <1>3, <1>4, <2>1
<1>5. CASE writers # {}
  <2>1. w = CHOOSE i \in writers : \A j \in writers : j <= i
    BY <1>5 DEF Writer
  <2> HIDE DEF writers, w
  <2>2. \E i \in writers : \A j \in writers : j <= i
    <3>1. CASE 2 \in writers
      BY <1>2, <3>1
    <3>2. CASE 2 \notin writers /\ 1 \in writers
      BY <1>2, <3>2
    <3>3. CASE 2 \notin writers /\ 1 \notin writers
      <4>1. PICK i \in writers : TRUE
        BY <1>5
      <4>2. \A j \in writers : j = 0
        BY <1>2, <3>3
      <4> QED BY <4>1, <4>2
    <3> QED BY <3>1, <3>2, <3>3
  <2>3. w \in writers /\ \A j \in writers : j <= w
    BY <2>1, <2>2
  <2>4. w \in {0, 1, 2} /\ w # NoPort
    BY <1>2, <2>3 DEF NoPort
  <2>5. data_write_enable(in, stalled, w) /\ IndexOf[PortLine(in, w)] = index
    BY <2>3 DEF writers
  <2>6. CASE w = 2
    <3>1. operation' = 2 /\ IndexOf[StoreLine] = index
      BY <1>3, <2>3, <2>6
    <3>2. PortLine(in, 2) = StoreLine /\ Combined(in) = StoredLine
      BY <3>1, WhatPortsWrite, PortLines DEF StoredLine
    <3> QED BY <1>1, <2>4, <2>6, <3>1, <3>2
  <2>7. CASE w # 2
    <3>1. w \in 0 .. 1 /\ ~(operation' = 2 /\ IndexOf[StoreLine] = index)
      BY <1>2, <1>3, <2>3, <2>4, <2>7
    <3>2. /\ PendingMiss(w) /\ MSHR_table[w].mem_tag = tag
          /\ PortLine(in, w) = MSHR_table[w].miss_addr
          /\ in.content = unified_memory[MSHR_table[w].miss_addr]
      BY <2>5, <3>1, WhatPortsWrite
    <3> QED BY <1>1, <2>4, <2>5, <2>7, <3>1, <3>2
  <2> QED BY <2>6, <2>7
<1> QED BY <1>4, <1>5

\* The types of what the invariant speaks of.
LEMMA PathTypes ==
    ASSUME PathInv
    PROVE  /\ unified_memory \in [Line -> LineContent]
           /\ StoreLine \in Line /\ load_line \in Line
           /\ StoredLine \in LineContent
           /\ \A i \in 0 .. 1 : MSHR_table[i] \in [mem_tag : Tag \cup {0}, miss_addr : Line]
           /\ \A i \in CacheIndex :
                 dcache_data[i] \in [valids : BOOLEAN, tags : Line, data : LineContent]
           /\ operation \in {0, 1, 2, 3}
           /\ store_en_prev \in BOOLEAN
<1>1. /\ unified_memory \in [Line -> LineContent]
      /\ StoreLine \in Line
      /\ sq[head].func \in Func /\ sq[head].addr \in Addr /\ sq[head].data \in WordData
      /\ \A i \in 0 .. 1 : MSHR_table[i] \in [mem_tag : Tag \cup {0}, miss_addr : Line]
      /\ \A i \in CacheIndex :
                 dcache_data[i] \in [valids : BOOLEAN, tags : Line, data : LineContent]
      /\ operation \in {0, 1, 2, 3}
      /\ store_en_prev \in BOOLEAN
  BY DEF PathInv, TypeOK, StoreQueueTypeOK, DataCacheTypeOK, Entry, StoreLine, Addr, Port, NoPort
<1>2. StoredLine \in LineContent
  BY <1>1, CombineType DEF StoredLine
<1>3. load_line \in Line
  BY ZeroTypes DEF PathInv, TypeOK, LoadUnitTypeOK, MemOp, NoOp, load_line, Addr
<1> QED BY <1>1, <1>2, <1>3

\* The registers of the cache keep their types.
LEMMA CacheTypes ==
    ASSUME PathInv, NEW in, NEW is_store, NEW flush, NEW response, NEW tag,
           Drives(in, is_store, flush, response, tag), ~flush,
           NEW stalled, Clocked(in, stalled)
    PROVE  DataCacheTypeOK'
<1>1. dcache_data' \in [CacheIndex -> [valids : BOOLEAN, tags : Line, data : LineContent]]
  <2>1. ASSUME NEW index \in CacheIndex
        PROVE  dcache_data'[index] \in [valids : BOOLEAN, tags : Line, data : LineContent]
    <3>1. \A i \in 0 .. 1 : unified_memory[MSHR_table[i].miss_addr] \in LineContent
                            /\ MSHR_table[i].miss_addr \in Line
      BY PathTypes
    <3> DEFINE L == [valids : BOOLEAN, tags : Line, data : LineContent]
    <3>2. \A line \in Line : [valids |-> TRUE, tags |-> line,
                              data |-> unified_memory[line]] \in L
      BY PathTypes
    <3>3. [valids |-> TRUE, tags |-> StoreLine, data |-> StoredLine] \in L
      BY PathTypes
    <3>4. dcache_data[index] \in L
      BY PathTypes
    <3> HIDE DEF L
    <3>5. dcache_data'[index] \in L
      BY CacheGoesOn, <3>1, <3>2, <3>3, <3>4
    <3> QED BY <3>5 DEF L
  <2>2. ~in.flush
    BY InputFacts
  <2>3. dcache_data' = [d \in CacheIndex |-> dcache_data'[d]]
    BY <2>2 DEF Clocked, DataCacheCycle
  <2> QED BY <2>1, <2>3
<1>2. state' \in {"NO_LOAD", "PROC_STORE"}
  BY InputFacts DEF Clocked, DataCacheCycle, StateAfter
<1>3. operation' \in Port \cup {NoPort} /\ miss_outstanding' \in BOOLEAN
  BY BusGoesOn
<1>4. MSHR_table' \in [0 .. 1 -> [mem_tag : Tag \cup {0}, miss_addr : Line]]
  <2>1. \A i \in 0 .. 1 : MissAfter(in, response, tag, i) \in
                             [mem_tag : Tag \cup {0}, miss_addr : Line]
    BY MissTypes
  <2>2. MSHR_table' = [i \in 0 .. 1 |-> MissAfter(in, response, tag, i)]
    BY MissesGoOn
  <2> QED BY <2>1, <2>2
<1> QED BY <1>1, <1>2, <1>3, <1>4 DEF DataCacheTypeOK, Port, NoPort

\* Lines stay in their sets.
LEMMA LinesStay ==
    ASSUME PathInv, NEW in, NEW is_store, NEW flush, NEW response, NEW tag,
           Drives(in, is_store, flush, response, tag), ~flush,
           NEW stalled, Clocked(in, stalled), NEW index \in CacheIndex, dcache_data'[index].valids
    PROVE  IndexOf[dcache_data'[index].tags] = index
BY CacheGoesOn, PathTypes DEF PathInv, LinesInv

\* A line that is asked for, or on its way and not yet answered, does not come into the
\* cache in another way.
LEMMA StaysOut ==
    ASSUME PathInv, NEW in, NEW is_store, NEW flush, NEW response, NEW tag,
           Drives(in, is_store, flush, response, tag), ~flush,
           NEW stalled, Clocked(in, stalled), NEW line \in Line, ~InCache(line),
           \A i \in 0 .. 1 : MissOn(i, line) => MSHR_table[i].mem_tag # tag
    PROVE  ~InCache(line)'
<1> SUFFICES ASSUME InCache(line)' PROVE FALSE
  OBVIOUS
<1>1. dcache_data'[IndexOf[line]].valids /\ dcache_data'[IndexOf[line]].tags = line
  BY DEF InCache
<1>2. IndexOf[line] \in CacheIndex
  OBVIOUS
<1>3. \A i \in 0 .. 1 : PendingMiss(i) /\ MSHR_table[i].mem_tag = tag
                          => MSHR_table[i].miss_addr # line
  BY DEF MissOn, PendingMiss
<1>4. operation' = 2 => StoreLine # line
  BY WhatPortsWrite
<1> QED BY <1>1, <1>2, <1>3, <1>4, CacheGoesOn DEF InCache

-----------------------------------------------------------------------------
(* The ring of the store queue and the window of operations in flight.      *)

\* Places of the ring, for what goes around it at most once.
LEMMA RingPlace ==
    \A x \in Nat : x < 2 * SQ_SIZE =>
        /\ x % SQ_SIZE \in Slot
        /\ x % SQ_SIZE = IF x < SQ_SIZE THEN x ELSE x - SQ_SIZE
<1>1. SQ_SIZE \in Nat \ {0}
  OBVIOUS
<1>2. \A q \in Int, r \in 0 .. SQ_SIZE - 1 : (SQ_SIZE * q + r) % SQ_SIZE = r
  BY <1>1
<1>3. \A r \in 0 .. SQ_SIZE - 1 : r % SQ_SIZE = r
  BY <1>1
<1>4. \A r \in 0 .. SQ_SIZE - 1 : (SQ_SIZE * 1 + r) % SQ_SIZE = r
  BY <1>1, <1>2
<1> TAKE x \in Nat
<1>5. CASE x < SQ_SIZE
  BY <1>1, <1>3, <1>5 DEF Slot
<1>6. CASE x >= SQ_SIZE /\ x < 2 * SQ_SIZE
  <2>1. x - SQ_SIZE \in 0 .. SQ_SIZE - 1 /\ SQ_SIZE * 1 + (x - SQ_SIZE) = x
    BY <1>1, <1>6
  <2>2. x % SQ_SIZE = x - SQ_SIZE
    BY <1>4, <2>1
  <2> QED BY <1>1, <1>6, <2>1, <2>2 DEF Slot
<1> QED BY <1>1, <1>5, <1>6

\* Counts of stores are natural numbers that grow with the part that is counted.
LEMMA CountTypes ==
    ASSUME NEW ops, NEW k \in Int, NEW l \in Int, k <= l
    PROVE  /\ IsFiniteSet(StoresUpTo(ops, k))
           /\ StoreCount(ops, k) \in Nat
           /\ StoreCount(ops, k) <= StoreCount(ops, l)
<1>1. IsFiniteSet(1 .. l) /\ IsFiniteSet(1 .. k)
  BY FS_Interval
<1>2. StoresUpTo(ops, k) \subseteq 1 .. k /\ StoresUpTo(ops, l) \subseteq 1 .. l
      /\ StoresUpTo(ops, k) \subseteq StoresUpTo(ops, l)
  BY DEF StoresUpTo
<1>3. IsFiniteSet(StoresUpTo(ops, k)) /\ IsFiniteSet(StoresUpTo(ops, l))
  BY <1>1, <1>2, FS_Subset
<1> QED BY <1>2, <1>3, FS_Subset, FS_CardinalityType DEF StoreCount

\* One operation more.
LEMMA CountNext ==
    ASSUME NEW ops, NEW k \in Nat
    PROVE  /\ StoreCount(ops, 0) = 0
           /\ StoreCount(ops, k + 1) = StoreCount(ops, k) + IF IsStore(ops[k + 1]) THEN 1 ELSE 0
<1>1. StoresUpTo(ops, 0) = {}
  BY DEF StoresUpTo
<1>2. IsFiniteSet(StoresUpTo(ops, k)) /\ StoreCount(ops, k) \in Nat
  BY CountTypes
<1>3. CASE IsStore(ops[k + 1])
  <2>1. StoresUpTo(ops, k + 1) = StoresUpTo(ops, k) \cup {k + 1} /\ k + 1 \notin StoresUpTo(ops, k)
    BY <1>3 DEF StoresUpTo
  <2>2. Cardinality(StoresUpTo(ops, k) \cup {k + 1}) = Cardinality(StoresUpTo(ops, k)) + 1
    BY <1>2, <2>1, FS_AddElement
  <2> QED BY <1>1, <1>3, <2>1, <2>2, FS_EmptySet DEF StoreCount
<1>4. CASE ~IsStore(ops[k + 1])
  <2>1. StoresUpTo(ops, k + 1) = StoresUpTo(ops, k)
    BY <1>4 DEF StoresUpTo
  <2> QED BY <1>1, <1>2, <1>4, <2>1, FS_EmptySet DEF StoreCount
<1> QED BY <1>3, <1>4

\* An operation in flight.
InFlight == [op : Ops, sq_index : Slot, stage : Stage, value : WordData \cup {NoValue}]

\* The types of ring and window.
LEMMA WindowTypes ==
    ASSUME PathInv
    PROVE  /\ DOMAIN window = 1 .. Len(window) /\ Len(window) \in Nat
           /\ \A k \in 1 .. Len(window) :
                 window[k] \in [op : Ops, sq_index : Slot, stage : Stage,
                                value : WordData \cup {NoValue}]
           /\ head \in Slot /\ tail \in Slot /\ head \in Nat /\ tail \in Nat
           /\ SQ_SIZE \in Nat /\ 0 \in Slot
           /\ StoreCount(window, Len(window)) \in 0 .. WAY
           /\ \A k \in 0 .. Len(window) :
                 StoreCount(window, k) \in 0 .. StoreCount(window, Len(window))
<1>1. window \in Seq([op : Ops, sq_index : Slot, stage : Stage, value : WordData \cup {NoValue}])
      /\ head \in Slot /\ tail \in Slot
  BY DEF PathInv, TypeOK, StoreQueueTypeOK
<1> DEFINE W == [op : Ops, sq_index : Slot, stage : Stage, value : WordData \cup {NoValue}]
<1>2. DOMAIN window = 1 .. Len(window) /\ Len(window) \in Nat
      /\ \A k \in 1 .. Len(window) : window[k] \in W
  <2> HIDE DEF W
  <2>1. window \in Seq(W)
    BY <1>1 DEF W
  <2> QED BY <2>1
<1>3. StoreCount(window, Len(window)) <= WAY
  BY DEF PathInv, RingInv
<1>4. \A k \in 0 .. Len(window) :
         StoreCount(window, k) \in 0 .. StoreCount(window, Len(window))
      /\ StoreCount(window, Len(window)) \in Nat
  BY <1>2, CountTypes
<1> QED BY <1>1, <1>2, <1>3, <1>4 DEF Slot

\* The oldest store is at the head, and every other store somewhere else.
LEMMA OldestAtHead ==
    ASSUME PathInv, window # <<>>, IsStore(window[1])
    PROVE  /\ window[1].sq_index = head
           /\ StoreCount(window, Len(window)) >= 1
           /\ ~empty
           /\ \A k \in 2 .. Len(window) : IsStore(window[k]) => window[k].sq_index # head
<1>1. 1 \in 1 .. Len(window)
  BY WindowTypes DEF PathInv, TypeOK
<1>2. StoreCount(window, 0) = 0 /\ StoreCount(window, 1) = 1
  BY CountNext
<1>3. window[1].sq_index = head
  <2>1. window[1].sq_index = (head + 0) % SQ_SIZE
    BY <1>1, <1>2, WindowTypes DEF PathInv, RingInv
  <2> QED BY <2>1, WindowTypes, RingPlace DEF Slot
<1>4. StoreCount(window, Len(window)) >= 1
  BY <1>1, <1>2, WindowTypes
<1>5. ASSUME NEW k \in 2 .. Len(window), IsStore(window[k])
      PROVE  window[k].sq_index # head
  <2> DEFINE c == StoreCount(window, k - 1)
  <2>1. window[k].sq_index = (head + c) % SQ_SIZE
    BY <1>5, WindowTypes DEF PathInv, RingInv
  <2>2. c >= 1
    BY <1>2, <1>5, CountTypes
  <2>3. StoreCount(window, k) = c + 1
    <3>1. k - 1 \in Nat /\ (k - 1) + 1 = k
      BY <1>5
    <3> QED BY <1>5, <3>1, CountNext
  <2>4. c + 1 <= WAY
    BY <1>5, <2>3, WindowTypes
  <2> HIDE DEF c
  <2>5. c \in Nat
    BY <1>5, CountTypes DEF c
  <2>6. (head + c) % SQ_SIZE # head
    <3> DEFINE x == head + c
    <3>1. head \in 0 .. WAY /\ x \in Nat /\ x < 2 * SQ_SIZE
      BY <2>4, <2>5, WindowTypes DEF Slot
    <3>2. x # head /\ x - SQ_SIZE # head
      BY <2>2, <2>4, <2>5, <3>1
    <3> HIDE DEF x
    <3>3. x % SQ_SIZE # head
      BY <3>1, <3>2, RingPlace
    <3> QED BY <3>3 DEF x
  <2> QED BY <2>1, <2>6
<1>6. ~empty
  BY <1>4 DEF PathInv, RingInv
<1> QED BY <1>3, <1>4, <1>5, <1>6

\* The unit executes stores into the ring, but never into the head when the oldest
\* operation is a store that is done.
LEMMA ExecutesElsewhere ==
    ASSUME PathInv, NEW flush \in BOOLEAN, StoreSent(flush).valid
    PROVE  /\ StoreSent(flush) = [valid |-> TRUE, sq_index |-> execute_data.sq_index,
                                  func |-> execute_data.func, addr |-> execute_data.addr,
                                  data |-> execute_data.store_data]
           /\ execute_data.sq_index \in Slot
           /\ window # <<>> /\ IsStore(window[1]) /\ window[1].stage = "done"
                => execute_data.sq_index # head
<1>1. Starts(flush, "write")
  BY DEF StoreSent, NoStore
<1>2. execute_data.rw = "write" /\ execute_data # NoOp
  BY <1>1 DEF Starts, NoOp
<1>3. PICK k \in 1 .. Len(window) : window[k].stage = "issued" /\ execute_data = Packet(k)
  BY <1>2, WindowTypes DEF PathInv, RingInv
<1>4. execute_data.sq_index = window[k].sq_index /\ IsStore(window[k])
  BY <1>2, <1>3 DEF Packet, IsStore
<1>5. window # <<>> /\ IsStore(window[1]) /\ window[1].stage = "done"
        => execute_data.sq_index # head
  BY <1>3, <1>4, OldestAtHead
<1> QED BY <1>1, <1>4, <1>5, WindowTypes DEF StoreSent

\* The head moves on by one place; what is behind it gets nearer by one.
LEMMA RingShift ==
    ASSUME NEW h \in Slot, NEW c \in 0 .. WAY
    PROVE  /\ Inc(h) \in Slot
           /\ (Inc(h) + c) % SQ_SIZE = (h + (c + 1)) % SQ_SIZE
<1>1. SQ_SIZE \in Nat \ {0} /\ h \in 0 .. SQ_SIZE - 1 /\ c < SQ_SIZE
  BY DEF Slot
<1>2. CASE h + 1 < SQ_SIZE
  <2>1. Inc(h) = h + 1
    <3> DEFINE x == h + 1
    <3>1. x \in Nat /\ x < SQ_SIZE /\ x < 2 * SQ_SIZE
      BY <1>1, <1>2
    <3> HIDE DEF x
    <3>2. x % SQ_SIZE = x
      BY <3>1, RingPlace
    <3> QED BY <3>2 DEF x, Inc
  <2>2. (h + 1) + c = h + (c + 1)
    BY <1>1
  <2> QED BY <1>1, <1>2, <2>1, <2>2 DEF Slot
<1>3. CASE h + 1 >= SQ_SIZE
  <2> DEFINE x == h + 1
             y == h + (c + 1)
  <2>1. x = SQ_SIZE /\ x < 2 * SQ_SIZE /\ y = SQ_SIZE + c /\ y < 2 * SQ_SIZE /\ y \in Nat
    BY <1>1, <1>3
  <2> HIDE DEF x, y
  <2>2. x % SQ_SIZE = 0
    BY <1>1, <2>1, RingPlace
  <2>3. y % SQ_SIZE = c
    BY <1>1, <2>1, RingPlace
  <2>4. c % SQ_SIZE = c /\ c \in Nat
    BY <1>1, RingPlace
  <2>5. Inc(h) = 0
    BY <2>2 DEF x, Inc
  <2>6. 0 + c = c
    BY <2>4
  <2> QED BY <1>1, <2>3, <2>4, <2>5, <2>6 DEF y, Slot
<1> QED BY <1>1, <1>2, <1>3

\* Less than once around, a place is the head only at distance 0.
LEMMA RingDistance ==
    ASSUME NEW h \in Slot, NEW c \in 0 .. WAY
    PROVE  /\ (h + c) % SQ_SIZE \in Slot
           /\ (h + c) % SQ_SIZE = h <=> c = 0
<1> DEFINE x == h + c
<1>1. /\ SQ_SIZE \in Nat \ {0} /\ x \in Nat /\ x < 2 * SQ_SIZE
      /\ x = h <=> c = 0
      /\ x >= SQ_SIZE => x - SQ_SIZE # h /\ c # 0
  BY DEF Slot
<1> HIDE DEF x
<1>2. x % SQ_SIZE \in Slot /\ (x % SQ_SIZE = h <=> c = 0)
  BY <1>1, RingPlace DEF Slot
<1> QED BY <1>2 DEF x

\* While there are stores in the ring none is dispatched: the free places never exceed
\* the width then (sq.sv:205-209).
LEMMA DispatchIntoEmpty ==
    ASSUME PathInv, NEW flush \in BOOLEAN, NEW accepted \in BOOLEAN
    PROVE  /\ head_next(flush, accepted) \in Slot
           /\ tail_index(flush) \in Slot
           /\ dispatch_empty_slots(flush, accepted) \in 0 .. WAY
           /\ ~EmptyAfter(flush, accepted) => dispatch_empty_slots(flush, accepted) = 0
<1>1. head \in Slot /\ tail \in Slot /\ 0 \in Slot
  BY WindowTypes
<1>2. head_next(flush, accepted) \in Slot
  <2>1. Inc(head) \in Slot
    BY <1>1, RingShift
  <2> QED BY <1>1, <2>1 DEF head_next
<1>3. tail_index(flush) \in Slot
  BY <1>1 DEF tail_index
<1>4. \A h, t \in Slot : (IF t > h THEN SQ_SIZE - t + h ELSE h - t) <= WAY
  BY DEF Slot
<1>5. ~EmptyAfter(flush, accepted) => dispatch_empty_slots(flush, accepted) = 0
  <2>1. ~((IF tail_index(flush) > head_next(flush, accepted)
           THEN SQ_SIZE - tail_index(flush) + head_next(flush, accepted)
           ELSE head_next(flush, accepted) - tail_index(flush)) > WAY)
    <3> DEFINE h == head_next(flush, accepted)
               t == tail_index(flush)
    <3>1. h \in Slot /\ t \in Slot
      BY <1>2, <1>3
    <3> HIDE DEF h, t
    <3>2. ~((IF t > h THEN SQ_SIZE - t + h ELSE h - t) > WAY)
      BY <3>1 DEF Slot
    <3> QED BY <3>2 DEF h, t
  <2> QED BY <2>1 DEF dispatch_empty_slots
<1>6. EmptyAfter(flush, accepted) => dispatch_empty_slots(flush, accepted) = WAY
  BY DEF dispatch_empty_slots
<1> QED BY <1>2, <1>3, <1>5, <1>6

\* What the entries become before anything is dispatched.
LEMMA ExecutedTypes ==
    ASSUME PathInv, NEW flush \in BOOLEAN, NEW accepted \in BOOLEAN
    PROVE  Executed(flush, accepted, StoreSent(flush)) \in [Slot -> Entry]
<1> DEFINE kept == IF flush THEN [i \in Slot |-> NoEntry]
                   ELSE IF accepted THEN [sq EXCEPT ![head] = NoEntry]
                   ELSE sq
           store == StoreSent(flush)
           new == [valid |-> TRUE, func |-> store.func, addr |-> store.addr,
                   data |-> store.data]
<1>1. sq \in [Slot -> Entry] /\ NoEntry \in Entry
  BY ZeroTypes DEF PathInv, TypeOK, StoreQueueTypeOK
<1>2. kept \in [Slot -> Entry]
  BY <1>1
<1>3. store.valid => new \in Entry
  <2> SUFFICES ASSUME store.valid PROVE new \in Entry
    OBVIOUS
  <2>1. /\ store.func = execute_data.func /\ store.addr = execute_data.addr
        /\ store.data = execute_data.store_data
    BY ExecutesElsewhere
  <2>2. execute_data \in MemOp \cup {NoOp}
    BY DEF PathInv, TypeOK, LoadUnitTypeOK
  <2>3. execute_data.func \in Func /\ execute_data.addr \in Addr
        /\ execute_data.store_data \in WordData
    BY <2>2, ZeroTypes DEF MemOp, NoOp, Func
  <2> QED BY <2>1, <2>3 DEF Entry
<1> HIDE DEF kept, new, store
<1>4. (IF ~store.valid THEN kept ELSE [kept EXCEPT ![store.sq_index] = new]) \in [Slot -> Entry]
  BY <1>2, <1>3
<1> QED BY <1>4 DEF Executed, kept, store, new

\* A store that is offered and not taken stays at the head, as it is.
LEMMA OfferStays ==
    ASSUME PathInv, NEW in, NEW is_store, NEW flush, NEW response, NEW tag,
           Drives(in, is_store, flush, response, tag), in.store, NEW n \in Nat,
           n <= dispatch_empty_slots(flush, FALSE),
           StoreQueueCycle(flush, is_store, FALSE, StoreSent(flush), n)
    PROVE  n = 0 /\ head' = head /\ sq'[head] = sq[head] /\ store_en_prev'
<1>1. /\ ~flush /\ flush \in BOOLEAN
      /\ window # <<>> /\ IsStore(window[1]) /\ window[1].stage = "done"
      /\ store_en(flush, is_store)
  BY InputFacts
<1>2. ~empty
  BY <1>1, OldestAtHead
<1>3. ~EmptyAfter(flush, FALSE)
  BY <1>1, <1>2 DEF EmptyAfter
<1>4. n = 0
  <2>1. dispatch_empty_slots(flush, FALSE) = 0
    BY <1>1, <1>3, DispatchIntoEmpty
  <2>2. n <= 0
    BY <2>1, Zenon
  <2> QED BY <2>2
<1>5. head' = head /\ store_en_prev'
  BY <1>1 DEF StoreQueueCycle, head_next
<1>6. sq' = [i \in Slot |-> Executed(flush, FALSE, StoreSent(flush))[i]]
  <2>1. 0 .. n - 1 = {}
    BY <1>4
  <2>2. {(tail_index(flush) + k) % SQ_SIZE : k \in 0 .. n - 1} = {}
    BY <2>1
  <2> QED BY <2>2 DEF StoreQueueCycle
<1>7. Executed(flush, FALSE, StoreSent(flush))[head] = sq[head]
  <2>1. sq \in [Slot -> Entry] /\ head \in Slot
    BY DEF PathInv, TypeOK, StoreQueueTypeOK
  <2>2. CASE ~StoreSent(flush).valid
    BY <1>1, <2>2 DEF Executed
  <2>3. CASE StoreSent(flush).valid
    <3>1. StoreSent(flush).sq_index # head
      BY <1>1, <2>3, ExecutesElsewhere
    <3> QED BY <1>1, <2>1, <2>3, <3>1 DEF Executed
  <2> QED BY <2>2, <2>3
<1> QED BY <1>4, <1>5, <1>6, <1>7, WindowTypes

\* What leaves the window: the accepted store, which is the oldest operation, and
\* completed loads.  What the unit works on stays.
LEMMA LeavingFacts ==
    ASSUME PathInv, NEW accepted \in BOOLEAN,
           accepted => window # <<>> /\ IsStore(window[1]) /\ window[1].stage = "done"
    PROVE  /\ Leaving(accepted) \in 0 .. Len(window)
           /\ \A k \in 1 .. Leaving(accepted) :
                 IF IsStore(window[k]) THEN k = 1 /\ accepted ELSE window[k].stage = "done"
           /\ accepted => Leaving(accepted) >= 1
           /\ ~accepted /\ window # <<>> /\ IsStore(window[1]) => Leaving(accepted) = 0
           /\ \A k \in 1 .. Len(window) : window[k].stage # "done" => k > Leaving(accepted)
<1> DEFINE goes(k) == IF IsStore(window[k]) THEN k = 1 /\ accepted ELSE window[k].stage = "done"
           stay == {k \in DOMAIN window : ~goes(k)}
           n == Leaving(accepted)
<1>1. n = IF stay = {} THEN Len(window) ELSE Min(stay) - 1
  BY DEF Leaving
<1>2. DOMAIN window = 1 .. Len(window) /\ Len(window) \in Nat
  BY WindowTypes
<1>3. stay # {} => Min(stay) \in stay /\ \A k \in stay : Min(stay) <= k
  <2> HIDE DEF stay
  <2> SUFFICES ASSUME stay # {} PROVE Min(stay) \in stay /\ \A k \in stay : Min(stay) <= k
    OBVIOUS
  <2>1. stay \in SUBSET Nat
    BY <1>2 DEF stay
  <2>2. \E x \in stay : \A y \in stay : x <= y
    BY <2>1, LeastElement
  <2>3. Min(stay) = CHOOSE x \in stay : \A y \in stay : x <= y
    BY DEF Min
  <2> QED BY <2>2, <2>3
<1>4. \A k \in stay : k \in 1 .. Len(window) /\ ~goes(k)
  BY <1>2
<1>5. \A k \in 1 .. Len(window) : ~goes(k) => k \in stay
  BY <1>2
<1> HIDE DEF stay, goes, n
<1>6. n \in 0 .. Len(window)
  BY <1>1, <1>2, <1>3, <1>4
<1>7. \A k \in 1 .. n : goes(k)
  <2> SUFFICES ASSUME NEW k \in 1 .. n, ~goes(k) PROVE FALSE
    OBVIOUS
  <2>1. k \in stay
    BY <1>2, <1>5, <1>6
  <2>2. n = Min(stay) - 1 /\ Min(stay) <= k /\ Min(stay) \in Nat
    <3>1. stay # {}
      BY <2>1
    <3>2. Min(stay) \in stay /\ Min(stay) <= k
      BY <1>3, <2>1, <3>1
    <3>3. Min(stay) \in 1 .. Len(window)
      BY <1>4, <3>2
    <3>4. n = Min(stay) - 1
      BY <1>1, <3>1
    <3> QED BY <1>2, <3>2, <3>3, <3>4
  <2> QED BY <1>6, <2>2
<1>8. \A k \in 1 .. Len(window) : ~goes(k) => k > n
  <2> SUFFICES ASSUME NEW k \in 1 .. Len(window), ~goes(k) PROVE k > n
    OBVIOUS
  <2>1. k \in stay
    BY <1>5
  <2>2. n = Min(stay) - 1 /\ Min(stay) <= k /\ Min(stay) \in Nat
    <3>1. stay # {}
      BY <2>1
    <3>2. Min(stay) \in stay /\ Min(stay) <= k
      BY <1>3, <2>1, <3>1
    <3>3. Min(stay) \in 1 .. Len(window)
      BY <1>4, <3>2
    <3>4. n = Min(stay) - 1
      BY <1>1, <3>1
    <3> QED BY <1>2, <3>2, <3>3, <3>4
  <2> QED BY <1>2, <2>2
<1>9. ASSUME accepted PROVE n >= 1
  <2>1. 1 \in 1 .. Len(window)
    BY <1>2, <1>9 DEF PathInv, TypeOK
  <2>2. goes(1)
    BY <1>9 DEF goes
  <2>3. 1 \notin stay
    BY <2>2, <1>4
  <2> QED BY <1>1, <1>2, <1>3, <1>4, <2>1, <2>3
<1>10. ASSUME ~accepted, window # <<>>, IsStore(window[1]) PROVE n = 0
  <2>1. 1 \in 1 .. Len(window)
    BY <1>2, <1>10 DEF PathInv, TypeOK
  <2>2. 1 > n
    BY <1>8, <1>10, <2>1 DEF goes
  <2> QED BY <1>6, <2>2
<1>11. ASSUME NEW k \in 1 .. Len(window), window[k].stage # "done" PROVE k > n
  <2>1. ~goes(k)
    BY <1>11 DEF goes
  <2> QED BY <1>8, <2>1
<1> QED BY <1>6, <1>7, <1>9, <1>10, <1>11 DEF goes, n

\* The window after the cycle: what stays moves to the front, what enters comes behind
\* it.  What is done stays done, and what the unit works on is issued.
LEMMA WindowGoesOn ==
    ASSUME PathInv, NEW in, NEW is_store, NEW flush, NEW response, NEW tag,
           Drives(in, is_store, flush, response, tag), NEW finished \in BOOLEAN,
           NEW issued \in {0} \cup IF flush THEN {} ELSE Issuable,
           NEW kept, kept = (IF flush THEN 0 ELSE Len(window) - Leaving(store_accepted(in))),
           NEW group \in Groups(flush, store_accepted(in), kept),
           WindowCycle(in, finished, issued, group)
    PROVE  /\ kept \in Nat /\ Len(group) \in 0 .. WAY
           /\ \A k \in 1 .. Len(group) : group[k] \in Ops
           /\ Len(window') = kept + Len(group)
           /\ window' \in Seq(InFlight)
           /\ Len(window') <= MAX_WINDOW
           /\ \A k \in 1 .. kept :
                 LET w == window[k + Leaving(store_accepted(in))] IN
                 /\ window'[k].op = w.op /\ window'[k].sq_index = w.sq_index
                 /\ w.stage = "done" => window'[k].stage = "done"
                 /\ w.stage = "issued" /\ ~finished => window'[k].stage = "issued"
                 /\ k + Leaving(store_accepted(in)) = issued => window'[k].stage = "issued"
           /\ \A k \in 1 .. Len(group) :
                 /\ window'[kept + k].op = group[k]
                 /\ window'[kept + k].sq_index =
                       (tail_index(flush) + StoresBefore(group, k)) % SQ_SIZE
<1> DEFINE W == [op : Ops, sq_index : Slot, stage : Stage, value : WordData \cup {NoValue}]
           n == Leaving(store_accepted(in))
           moved ==
            [k \in DOMAIN window |->
                IF window[k].stage = "issued" /\ finished
                THEN [window[k] EXCEPT !.stage = "done",
                                       !.value = IF IsStore(window[k]) THEN NoValue
                                                 ELSE LoadResultValue(CacheLine(in, 0).data)]
                ELSE IF k = issued THEN [window[k] EXCEPT !.stage = "issued"]
                ELSE window[k]]
           front == IF in.flush THEN <<>> ELSE SubSeq(moved, n + 1, Len(window))
           back == Dispatched(in.flush, group)
           all == front \o back
           woken(w) == /\ ~IsStore(w) /\ w.stage = "waiting"
                       /\ OlderComplete(in.flush, store_accepted(in), StoreSent(in.flush),
                                        w.sq_index)
<1>1. window' = [k \in DOMAIN all |->
                    IF woken(all[k]) THEN [all[k] EXCEPT !.stage = "ready"] ELSE all[k]]
  BY DEF WindowCycle
<1>2. /\ flush \in BOOLEAN /\ in.flush = flush
      /\ store_accepted(in) \in BOOLEAN
      /\ store_accepted(in) => /\ window # <<>> /\ IsStore(window[1])
                               /\ window[1].stage = "done"
  BY InputFacts, BusAccepts DEF store_accepted
<1>3. /\ n \in 0 .. Len(window) /\ Len(window) \in Nat /\ DOMAIN window = 1 .. Len(window)
      /\ \A k \in 1 .. Len(window) : window[k] \in W
      /\ \A k \in 1 .. Len(window) : window[k].stage # "done" => k > n
  BY <1>2, LeavingFacts, WindowTypes
<1>4. kept \in Nat /\ (~flush => kept = Len(window) - n) /\ (flush => kept = 0)
  BY <1>2, <1>3
<1>5. /\ Len(group) \in 0 .. WAY /\ DOMAIN group = 1 .. Len(group)
      /\ \A k \in 1 .. Len(group) : group[k] \in Ops
      /\ kept + Len(group) <= MAX_WINDOW
  <2>1. PICK m \in 0 .. WAY : group \in [1 .. m -> Ops]
    BY DEF Groups
  <2>2. Len(group) = m
    BY <2>1
  <2> QED BY <2>1, <2>2 DEF Groups
<1>6. moved \in Seq(W) /\ Len(moved) = Len(window)
  <2>1. LoadResultValue(CacheLine(in, 0).data) \in WordData
    <3>1. CacheLine(in, 0).data \in LineContent
      <4>1. PortLine(in, 0) \in Line
        BY PortLines
      <4> QED BY <4>1, PathTypes DEF CacheLine
    <3>2. execute_data.func \in Func /\ execute_data.addr \in Addr
      <4>1. execute_data \in MemOp \cup {NoOp}
        BY DEF PathInv, TypeOK, LoadUnitTypeOK
      <4> QED BY <4>1, ZeroTypes DEF MemOp, NoOp, Func
    <3>3. Extract(execute_data.func, execute_data.addr, CacheLine(in, 0).data) \in WordData
      BY <3>1, <3>2, ExtractType
    <3>4. /\ internal_load_result.data \in WordData
      BY DEF PathInv, TypeOK, LoadUnitTypeOK
    <3> QED BY <3>3, <3>4 DEF LoadResultValue, Merged, WordData
  <2>2. \A k \in 1 .. Len(window) : moved[k] \in W
    <3> SUFFICES ASSUME NEW k \in 1 .. Len(window) PROVE moved[k] \in W
      OBVIOUS
    <3>1. window[k] \in W
      BY <1>3
    <3>2. moved[k] = IF window[k].stage = "issued" /\ finished
                     THEN [window[k] EXCEPT !.stage = "done",
                                       !.value = IF IsStore(window[k]) THEN NoValue
                                                 ELSE LoadResultValue(CacheLine(in, 0).data)]
                     ELSE IF k = issued THEN [window[k] EXCEPT !.stage = "issued"]
                     ELSE window[k]
      BY <1>3
    <3> HIDE DEF moved
    <3> QED BY <2>1, <3>1, <3>2 DEF Stage
  <2>3. moved = [k \in 1 .. Len(window) |-> moved[k]]
    BY <1>3
  <2> HIDE DEF moved, W
  <2>4. moved \in [1 .. Len(window) -> W]
    BY <2>2, <2>3
  <2> QED BY <1>3, <2>4
<1>7. /\ front \in Seq(W) /\ Len(front) = kept
      /\ \A k \in 1 .. kept : front[k] = moved[k + n]
  <2>1. CASE flush
    BY <1>2, <1>4, <2>1
  <2>2. CASE ~flush
    <3>1. front = SubSeq(moved, n + 1, Len(window))
      BY <1>2, <2>2
    <3> HIDE DEF moved, W, front, n
    <3>2. front = [k \in 1 .. kept |-> moved[k + n]]
      BY <1>3, <1>4, <1>6, <2>2, <3>1
    <3>3. \A k \in 1 .. kept : moved[k + n] \in W
      BY <1>3, <1>4, <1>6, <2>2
    <3>4. front \in [1 .. kept -> W]
      BY <3>2, <3>3
    <3> QED BY <1>4, <3>2, <3>4
  <2> QED BY <1>2, <2>1, <2>2
<1>8. /\ back \in Seq(W) /\ Len(back) = Len(group)
      /\ \A k \in 1 .. Len(group) :
            /\ back[k].op = group[k]
            /\ back[k].sq_index = (tail_index(flush) + StoresBefore(group, k)) % SQ_SIZE
  <2>1. back = [k \in 1 .. Len(group) |->
                  [op |-> group[k],
                   sq_index |-> (tail_index(flush) + StoresBefore(group, k)) % SQ_SIZE,
                   stage |-> "waiting", value |-> NoValue]]
    BY <1>2, <1>5 DEF Dispatched
  <2>2. \A k \in 1 .. Len(group) :
           (tail_index(flush) + StoresBefore(group, k)) % SQ_SIZE \in Slot
    <3> TAKE k \in 1 .. Len(group)
    <3>1. StoresBefore(group, k) \in Nat
      <4>1. IsFiniteSet(1 .. k - 1)
        BY FS_Interval
      <4>2. IsFiniteSet({j \in 1 .. k - 1 : group[j].rw = "write"})
        BY <4>1, FS_Subset
      <4> QED BY <4>2, FS_CardinalityType DEF StoresBefore
    <3>2. tail_index(flush) \in Nat
      BY WindowTypes DEF tail_index
    <3>3. SQ_SIZE \in Nat \ {0} /\ tail_index(flush) + StoresBefore(group, k) \in Nat
      BY <3>1, <3>2
    <3> QED BY <3>3 DEF Slot
  <2>3. \A k \in 1 .. Len(group) : back[k] \in W
    BY <1>5, <2>1, <2>2 DEF Stage
  <2> HIDE DEF back, W
  <2>4. back \in [1 .. Len(group) -> W]
    BY <2>1, <2>3
  <2>5. back \in Seq(W) /\ Len(back) = Len(group)
    BY <1>5, <2>4
  <2> QED BY <2>1, <2>5
<1>9. /\ all \in Seq(W) /\ Len(all) = kept + Len(group) /\ DOMAIN all = 1 .. Len(all)
      /\ \A k \in 1 .. kept : all[k] = front[k]
      /\ \A k \in 1 .. Len(group) : all[kept + k] = back[k]
  <2>1. front \in Seq(W) /\ back \in Seq(W) /\ Len(front) = kept /\ Len(back) = Len(group)
    BY <1>7, <1>8
  <2>2. all = front \o back
    OBVIOUS
  <2> HIDE DEF front, back, W, all
  <2>3. /\ front \o back \in Seq(W)
        /\ Len(front \o back) = Len(front) + Len(back)
        /\ \A k \in 1 .. Len(front) + Len(back) :
              (front \o back)[k] = IF k <= Len(front) THEN front[k] ELSE back[k - Len(front)]
    BY <2>1, ConcatProperties
  <2>4. all \in Seq(W) /\ Len(all) = kept + Len(group)
    BY <2>1, <2>2, <2>3
  <2>5. DOMAIN all = 1 .. Len(all)
    BY <2>4
  <2>6. \A k \in 1 .. kept + Len(group) :
           all[k] = IF k <= kept THEN front[k] ELSE back[k - kept]
    BY <2>1, <2>2, <2>3
  <2>7. \A k \in 1 .. kept : all[k] = front[k]
    <3> TAKE k \in 1 .. kept
    <3>1. k \in 1 .. kept + Len(group) /\ k <= kept
      BY <1>4, <1>5
    <3> QED BY <2>6, <3>1
  <2>8. \A k \in 1 .. Len(group) : all[kept + k] = back[k]
    <3> TAKE k \in 1 .. Len(group)
    <3>1. kept + k \in 1 .. kept + Len(group) /\ ~(kept + k <= kept) /\ (kept + k) - kept = k
      BY <1>4, <1>5
    <3> QED BY <2>6, <3>1
  <2> QED BY <2>4, <2>5, <2>7, <2>8
<1>10. /\ window' \in Seq(W) /\ Len(window') = Len(all)
       /\ \A k \in 1 .. Len(all) :
             window'[k] = IF woken(all[k]) THEN [all[k] EXCEPT !.stage = "ready"] ELSE all[k]
  <2> HIDE DEF all, woken
  <2>1. \A k \in 1 .. Len(all) : all[k] \in W
    <3>1. all \in Seq(W)
      BY <1>9
    <3> HIDE DEF W
    <3> QED BY <3>1
  <2>2. \A k \in 1 .. Len(all) :
           (IF woken(all[k]) THEN [all[k] EXCEPT !.stage = "ready"] ELSE all[k]) \in W
    BY <2>1 DEF Stage
  <2>3. Len(all) \in Nat /\ DOMAIN all = 1 .. Len(all)
    <3>1. Len(all) = kept + Len(group) /\ DOMAIN all = 1 .. Len(all)
      BY <1>9
    <3> QED BY <1>4, <1>5, <3>1
  <2>4. window' \in [1 .. Len(all) -> W]
    <3> HIDE DEF W
    <3> QED BY <1>1, <2>2, <2>3
  <2> HIDE DEF W
  <2>5. window' \in Seq(W) /\ Len(window') = Len(all)
    BY <2>3, <2>4
  <2> QED BY <1>1, <2>3, <2>5
<1>11. ASSUME NEW k \in 1 .. kept
       PROVE  LET w == window[k + n] IN
                 /\ window'[k].op = w.op /\ window'[k].sq_index = w.sq_index
                 /\ w.stage = "done" => window'[k].stage = "done"
                 /\ w.stage = "issued" /\ ~finished => window'[k].stage = "issued"
                 /\ k + n = issued => window'[k].stage = "issued"
  <2>1. ~flush /\ k + n \in 1 .. Len(window)
    BY <1>2, <1>3, <1>4
  <2>2. k \in 1 .. Len(all)
    <3>1. Len(all) = kept + Len(group)
      BY <1>9
    <3> HIDE DEF all
    <3> QED BY <1>4, <1>5, <3>1
  <2>3. all[k] = moved[k + n]
    BY <1>7, <1>9
  <2>4. moved[k + n] = IF window[k + n].stage = "issued" /\ finished
                     THEN [window[k + n] EXCEPT !.stage = "done",
                                       !.value = IF IsStore(window[k + n]) THEN NoValue
                                                 ELSE LoadResultValue(CacheLine(in, 0).data)]
                     ELSE IF k + n = issued THEN [window[k + n] EXCEPT !.stage = "issued"]
                     ELSE window[k + n]
    BY <1>3, <2>1
  <2>5. k + n = issued => window[k + n].stage \in {"waiting", "ready"}
    BY <2>1, <1>3 DEF Issuable
  <2>6. window[k + n] \in W
    BY <1>3, <2>1
  <2> HIDE DEF all, moved, n
  <2>7. /\ all[k].op = window[k + n].op /\ all[k].sq_index = window[k + n].sq_index
        /\ window[k + n].stage = "done" => all[k].stage = "done"
        /\ window[k + n].stage = "issued" /\ ~finished => all[k].stage = "issued"
        /\ k + n = issued => all[k].stage = "issued"
        /\ all[k] \in W
    <3>1. all[k] \in W
      <4>1. all \in Seq(W)
        BY <1>9
      <4> HIDE DEF W
      <4> QED BY <4>1, <2>2
    <3> QED BY <2>3, <2>4, <2>5, <2>6, <3>1
  <2>8. window'[k] = IF woken(all[k]) THEN [all[k] EXCEPT !.stage = "ready"] ELSE all[k]
    BY <1>10, <2>2
  <2> HIDE DEF woken
  <2>9. woken(all[k]) => all[k].stage = "waiting"
    BY DEF woken
  <2> QED BY <2>7, <2>8, <2>9
<1>12. ASSUME NEW k \in 1 .. Len(group)
       PROVE  /\ window'[kept + k].op = group[k]
              /\ window'[kept + k].sq_index =
                    (tail_index(flush) + StoresBefore(group, k)) % SQ_SIZE
  <2>1. kept + k \in 1 .. Len(all) /\ all[kept + k] = back[k]
    <3>1. Len(all) = kept + Len(group) /\ all[kept + k] = back[k]
      BY <1>9
    <3> HIDE DEF all, back
    <3> QED BY <1>4, <1>5, <3>1
  <2>2. all[kept + k] \in W
    <3>1. all \in Seq(W)
      BY <1>9
    <3> HIDE DEF all, W
    <3> QED BY <3>1, <2>1
  <2> HIDE DEF all, back, woken
  <2>3. window'[kept + k] = IF woken(all[kept + k]) THEN [all[kept + k] EXCEPT !.stage = "ready"]
                            ELSE all[kept + k]
    BY <1>10, <2>1
  <2> QED BY <1>8, <2>1, <2>2, <2>3
<1> HIDE DEF all, front, back, moved, woken, W
<1>13. Len(window') = kept + Len(group) /\ Len(window') <= MAX_WINDOW
  BY <1>5, <1>9, <1>10
<1> QED BY <1>4, <1>5, <1>10, <1>11, <1>12, <1>13 DEF W, InFlight

-----------------------------------------------------------------------------
(* What a load takes from the store queue.                                  *)

\* The turns of the search through the older stores.
LEMMA ResultTurns ==
    ASSUME NEW older, NEW entries, NEW addr, Len(older) \in Nat
    PROVE  /\ ResultAfter(older, entries, addr)[0] = NoLoadResult
           /\ \A k \in 1 .. Len(older) :
                 ResultAfter(older, entries, addr)[k] =
                    Overlaid(ResultAfter(older, entries, addr)[k - 1], entries[older[k]], addr)
<1> DEFINE n == Len(older)
           Turn(f, k) == Overlaid(f[k - 1], entries[older[k]], addr)
           Turns(f, j) == f = [k \in 0 .. j |-> IF k = 0 THEN NoLoadResult ELSE Turn(f, k)]
           S == {j \in 0 .. n : \E f : Turns(f, j)}
<1>1. 0 \in S
  <2> DEFINE f == [k \in 0 .. 0 |-> NoLoadResult]
  <2>1. \A k \in 0 .. 0 : (IF k = 0 THEN NoLoadResult ELSE Turn(f, k)) = NoLoadResult
    OBVIOUS
  <2>2. f = [k \in 0 .. 0 |-> IF k = 0 THEN NoLoadResult ELSE Turn(f, k)]
    BY <2>1, Zenon
  <2> HIDE DEF f, Turn
  <2> QED BY <2>2
<1>2. ASSUME NEW j \in 0 .. n - 1, j \in S PROVE j + 1 \in S
  <2>1. PICK f : Turns(f, j)
    BY <1>2
  <2> DEFINE g == [k \in 0 .. j + 1 |-> IF k <= j THEN f[k] ELSE Turn(f, k)]
  <2> HIDE DEF Turn
  <2>2. ASSUME NEW k \in 0 .. j + 1
        PROVE  g[k] = IF k = 0 THEN NoLoadResult ELSE Turn(g, k)
    <3>1. CASE k = 0
      BY <2>1, <3>1
    <3>2. CASE k # 0
      <4>1. k - 1 \in 0 .. j + 1 /\ k - 1 <= j
        BY <3>2
      <4>2. g[k - 1] = f[k - 1]
        BY <4>1
      <4>3. Turn(g, k) = Turn(f, k)
        BY <4>2 DEF Turn
      <4>4. g[k] = Turn(f, k)
        BY <2>1, <3>2
      <4> QED BY <3>2, <4>3, <4>4
    <3> QED BY <3>1, <3>2
  <2>3. Turns(g, j + 1)
    <3>1. g = [k \in 0 .. j + 1 |-> g[k]]
      OBVIOUS
    <3> HIDE DEF g
    <3>2. [k \in 0 .. j + 1 |-> g[k]] =
            [k \in 0 .. j + 1 |-> IF k = 0 THEN NoLoadResult ELSE Turn(g, k)]
      BY <2>2, Zenon
    <3> QED BY <3>1, <3>2
  <2>4. j + 1 \in 0 .. n
    OBVIOUS
  <2> HIDE DEF g, Turns
  <2> QED BY <2>3, <2>4
<1> HIDE DEF S, Turns
<1>3. \A k \in 0 .. n : k \in S
  BY <1>1, <1>2, IntervalInduction
<1>4. \E f : Turns(f, n)
  BY <1>3 DEF S
<1> DEFINE m == ResultAfter(older, entries, addr)
<1>5. m = CHOOSE f : Turns(f, n)
  BY Zenon DEF ResultAfter, Turns
<1> HIDE DEF m
<1>6. Turns(m, n)
  BY <1>4, <1>5
<1>7. m[0] = NoLoadResult /\ \A k \in 1 .. n : m[k] = Turn(m, k)
  <2>1. m = [k \in 0 .. n |-> IF k = 0 THEN NoLoadResult ELSE Turn(m, k)]
    BY <1>6 DEF Turns
  <2>2. 0 \in 0 .. n /\ \A k \in 1 .. n : k \in 0 .. n /\ k # 0
    OBVIOUS
  <2> HIDE DEF Turn, n
  <2>3. \A k \in 0 .. n : m[k] = IF k = 0 THEN NoLoadResult ELSE Turn(m, k)
    BY <2>1
  <2> QED BY <2>2, <2>3
<1> QED BY <1>7 DEF m

\* What a load takes from the queue is a load result.
LEMMA ForwardedType ==
    ASSUME PathInv, NEW flush \in BOOLEAN, NEW accepted \in BOOLEAN, NEW sq_index \in Nat, NEW addr
    PROVE  Forwarded(flush, accepted, StoreSent(flush), sq_index, addr) \in LoadResult
<1> DEFINE h == head_next(flush, accepted)
           older == SlotsBefore(h, sq_index)
           entries == Executed(flush, accepted, StoreSent(flush))
           r == ResultAfter(older, entries, addr)
<1>1. h \in Slot
  BY DispatchIntoEmpty
<1>2. entries \in [Slot -> Entry]
  BY ExecutedTypes
<1>3. Len(older) \in Nat /\ \A k \in 1 .. Len(older) : older[k] \in Slot
  <2> DEFINE m == (sq_index + SQ_SIZE - h) % SQ_SIZE
  <2> HIDE DEF h
  <2>1. SQ_SIZE \in Nat \ {0} /\ h \in 0 .. SQ_SIZE - 1 /\ sq_index + SQ_SIZE - h \in Nat
    BY <1>1 DEF Slot
  <2>2. m \in Nat
    BY <2>1
  <2> HIDE DEF m
  <2>3. older = [j \in 1 .. m |-> (h + j - 1) % SQ_SIZE]
    BY DEF SlotsBefore, m
  <2>4. \A j \in 1 .. m : h + j - 1 \in Nat /\ (h + j - 1) % SQ_SIZE \in Slot
    BY <2>1, <2>2 DEF Slot
  <2> HIDE DEF older
  <2>5. Len(older) = m
    BY <2>2, <2>3
  <2> QED BY <2>2, <2>3, <2>4, <2>5
<1> HIDE DEF older, entries, h, r
<1>4. NoLoadResult \in LoadResult
  BY ZeroTypes DEF NoLoadResult, LoadResult
<1>5. \A s \in LoadResult, e \in Entry : Overlaid(s, e, addr) \in LoadResult
  <2> TAKE s \in LoadResult, e \in Entry
  <2>1. 0 \in Byte /\ e.addr.byte \in Byte
    BY DEF Entry, Addr, Byte
  <2>2. e.data[e.addr.byte] \in Value /\ e.data \in WordData
    BY <2>1 DEF Entry, WordData
  <2>3. [s.data EXCEPT ![0] = e.data[e.addr.byte]] \in WordData
    BY <2>1, <2>2 DEF LoadResult, WordData
  <2> QED BY <2>1, <2>2, <2>3 DEF Overlaid, LoadResult
<1>6. r[0] = NoLoadResult
      /\ \A k \in 1 .. Len(older) : r[k] = Overlaid(r[k - 1], entries[older[k]], addr)
  BY <1>3, ResultTurns DEF r
<1> DEFINE S == {k \in 0 .. Len(older) : r[k] \in LoadResult}
<1>7. 0 \in S
  BY <1>3, <1>4, <1>6
<1>8. \A k \in 0 .. Len(older) - 1 : k \in S => k + 1 \in S
  <2> SUFFICES ASSUME NEW k \in 0 .. Len(older) - 1, k \in S PROVE k + 1 \in S
    OBVIOUS
  <2>1. k + 1 \in 1 .. Len(older) /\ (k + 1) - 1 = k
    BY <1>3
  <2>2. r[k + 1] = Overlaid(r[k], entries[older[k + 1]], addr)
    BY <1>6, <2>1
  <2>3. entries[older[k + 1]] \in Entry
    BY <1>2, <1>3, <2>1
  <2> QED BY <1>3, <1>5, <2>1, <2>2, <2>3
<1> HIDE DEF S
<1>9. \A k \in 0 .. Len(older) : k \in S
  BY <1>3, <1>7, <1>8, IntervalInduction
<1>10. r[Len(older)] \in LoadResult
  BY <1>3, <1>9 DEF S
<1> QED BY <1>10 DEF Forwarded, r, older, entries, h

-----------------------------------------------------------------------------
(* The whole step.                                                          *)

\* What the unit hands out and takes in, and what is dispatched, in a cycle.
Finished(in, stalled) == ResultValid(in.flush, load_valid(in, stalled), load_accepted(in, stalled))
Taken(issued) == IF issued = 0 THEN NoOp ELSE Packet(issued)
Kept(in) == IF in.flush THEN 0 ELSE Len(window) - Leaving(store_accepted(in))

\* Everything that happens in a cycle.
Steps(in, is_store, flush, stalled, issued, group) ==
    /\ Clocked(in, stalled)
    /\ issued \in {0} \cup IF flush THEN {} ELSE Issuable
    /\ LoadUnitCycle(flush, load_valid(in, stalled), load_accepted(in, stalled),
                     Forwarded(flush, store_accepted(in), StoreSent(flush),
                               execute_data.sq_index, execute_data.addr),
                     Taken(issued))
    /\ group \in Groups(flush, store_accepted(in), Kept(in))
    /\ StoreQueueCycle(flush, is_store, store_accepted(in), StoreSent(flush),
                       StoresBefore(group, Len(group) + 1))
    /\ WindowCycle(in, Finished(in, stalled), issued, group)

\* A step of the specification is a cycle.
LEMMA NextIsCycle ==
    ASSUME PathInv, Next
    PROVE  \E in, is_store, flush, response, tag, stalled, issued, group :
              /\ Drives(in, is_store, flush, response, tag)
              /\ Steps(in, is_store, flush, stalled, issued, group)
<1>1. PICK is_store \in RetireIsStore :
        \E flush \in Flushes(is_store), response \in Responses, tag \in Answers :
            Tick(is_store, flush, response, tag)
  BY DEF Next
<1>2. PICK flush \in Flushes(is_store), response \in Responses, tag \in Answers :
            Tick(is_store, flush, response, tag)
  BY <1>1
<1> DEFINE in == CacheInputs(flush, is_store, response, tag)
<1>3. Drives(in, is_store, flush, response, tag)
  BY DEF Drives
<1>4. in.flush = flush
  BY <1>3, InputFacts
<1> HIDE DEF in
<1>5. PICK stalled \in Stalls(in) :
        /\ DataCacheCycle(in, stalled)
        /\ MemoryCycle(in)
        /\ \E issued \in {0} \cup IF flush THEN {} ELSE Issuable :
              /\ LoadUnitCycle(flush, load_valid(in, stalled), load_accepted(in, stalled),
                     Forwarded(flush, store_accepted(in), StoreSent(flush),
                               execute_data.sq_index, execute_data.addr),
                     Taken(issued))
              /\ \E group \in Groups(flush, store_accepted(in),
                                     IF flush THEN 0 ELSE Len(window) - Leaving(store_accepted(in))) :
                    /\ StoreQueueCycle(flush, is_store, store_accepted(in), StoreSent(flush),
                                       StoresBefore(group, Len(group) + 1))
                    /\ WindowCycle(in, ResultValid(flush, load_valid(in, stalled),
                                                   load_accepted(in, stalled)), issued, group)
  BY <1>2 DEF Tick, in, Taken
<1> QED BY <1>3, <1>4, <1>5 DEF Steps, Clocked, Finished, Kept

\* Stores of a group.
LEMMA GroupCount ==
    ASSUME NEW group, NEW k \in Nat
    PROVE  /\ IsFiniteSet({j \in 1 .. k - 1 : group[j].rw = "write"})
           /\ StoresBefore(group, k) \in Nat
<1>1. IsFiniteSet(1 .. k - 1)
  BY FS_Interval
<1>2. IsFiniteSet({j \in 1 .. k - 1 : group[j].rw = "write"})
  BY <1>1, FS_Subset
<1> QED BY <1>2, FS_CardinalityType DEF StoresBefore

\* How many stores a cycle dispatches.
LEMMA DispatchFacts ==
    ASSUME PathInv, NEW flush \in BOOLEAN, NEW accepted \in BOOLEAN, NEW kept \in Nat,
           NEW group \in Groups(flush, accepted, kept)
    PROVE  /\ Len(group) \in 0 .. WAY
           /\ StoresBefore(group, Len(group) + 1) \in 0 .. WAY
           /\ StoresBefore(group, Len(group) + 1) <= dispatch_empty_slots(flush, accepted)
           /\ ~EmptyAfter(flush, accepted) => StoresBefore(group, Len(group) + 1) = 0
<1>1. PICK m \in 0 .. WAY : group \in [1 .. m -> Ops]
  BY DEF Groups
<1>2. Len(group) = m /\ m \in Nat
  BY <1>1
<1>3. StoresBefore(group, Len(group) + 1) <= dispatch_empty_slots(flush, accepted)
  BY DEF Groups
<1>4. StoresBefore(group, Len(group) + 1) \in Nat
  <2>1. Len(group) + 1 \in Nat
    BY <1>2
  <2> QED BY <2>1, GroupCount
<1>5. /\ dispatch_empty_slots(flush, accepted) \in 0 .. WAY
      /\ ~EmptyAfter(flush, accepted) => dispatch_empty_slots(flush, accepted) = 0
  BY DispatchIntoEmpty
<1> QED BY <1>1, <1>2, <1>3, <1>4, <1>5

\* The basic facts of a cycle, together.
LEMMA CycleFacts ==
    ASSUME PathInv, NEW in, NEW is_store, NEW flush, NEW response, NEW tag,
           Drives(in, is_store, flush, response, tag),
           NEW stalled, NEW issued, NEW group, Steps(in, is_store, flush, stalled, issued, group)
    PROVE  /\ flush \in BOOLEAN /\ in.flush = flush /\ is_store \in BOOLEAN
           /\ store_accepted(in) \in BOOLEAN
           /\ Finished(in, stalled) \in BOOLEAN
           /\ Kept(in) \in Nat
           /\ store_accepted(in) => /\ in.store /\ ~flush /\ window # <<>>
                                    /\ IsStore(window[1]) /\ window[1].stage = "done"
           /\ Kept(in) = IF flush THEN 0 ELSE Len(window) - Leaving(store_accepted(in))
           /\ StoresBefore(group, Len(group) + 1) \in 0 .. WAY
           /\ Len(group) \in 0 .. WAY
<1>1. flush \in BOOLEAN /\ in.flush = flush /\ is_store \in BOOLEAN
  BY InputFacts
<1>2. store_accepted(in) \in BOOLEAN
  BY DEF store_accepted
<1>3. store_accepted(in) => /\ in.store /\ ~flush /\ window # <<>>
                            /\ IsStore(window[1]) /\ window[1].stage = "done"
  BY InputFacts, BusAccepts
<1>4. Kept(in) = IF flush THEN 0 ELSE Len(window) - Leaving(store_accepted(in))
  BY <1>1 DEF Kept
<1>5. Leaving(store_accepted(in)) \in 0 .. Len(window) /\ Len(window) \in Nat
  BY <1>2, <1>3, LeavingFacts, WindowTypes
<1>6. Kept(in) \in Nat
  BY <1>4, <1>5
<1>7. Finished(in, stalled) \in BOOLEAN
  BY DEF Finished, ResultValid
<1>8. group \in Groups(flush, store_accepted(in), Kept(in))
  BY DEF Steps
<1>9. StoresBefore(group, Len(group) + 1) \in 0 .. WAY /\ Len(group) \in 0 .. WAY
  BY <1>1, <1>2, <1>6, <1>8, DispatchFacts
<1> QED BY <1>1, <1>2, <1>3, <1>4, <1>6, <1>7, <1>9

\* The store queue keeps its types.
LEMMA QueueTypes ==
    ASSUME PathInv, NEW in, NEW is_store, NEW flush, NEW response, NEW tag,
           Drives(in, is_store, flush, response, tag),
           NEW stalled, NEW issued, NEW group, Steps(in, is_store, flush, stalled, issued, group)
    PROVE  StoreQueueTypeOK'
<1> DEFINE accepted == store_accepted(in)
           n == StoresBefore(group, Len(group) + 1)
           e == Executed(flush, accepted, StoreSent(flush))
           new == {(tail_index(flush) + k) % SQ_SIZE : k \in 0 .. n - 1}
<1>1. flush \in BOOLEAN /\ accepted \in BOOLEAN /\ is_store \in BOOLEAN /\ n \in 0 .. WAY
  BY CycleFacts
<1>2. StoreQueueCycle(flush, is_store, accepted, StoreSent(flush), n)
  BY DEF Steps
<1> HIDE DEF accepted, n
<1>3. e \in [Slot -> Entry] /\ NoEntry \in Entry
  BY <1>1, ExecutedTypes, ZeroTypes
<1>4. sq' = [i \in Slot |-> IF i \in new THEN NoEntry ELSE e[i]]
  BY <1>2 DEF StoreQueueCycle
<1>5. sq' \in [Slot -> Entry]
  <2> HIDE DEF e, new
  <2> QED BY <1>3, <1>4
<1>6. head' \in Slot
  <2>1. head' = head_next(flush, accepted)
    BY <1>2 DEF StoreQueueCycle
  <2>2. head_next(flush, accepted) \in Slot
    BY <1>1, DispatchIntoEmpty
  <2> QED BY <2>1, <2>2
<1>7. tail' \in Slot
  <2>1. tail' = (tail_index(flush) + n) % SQ_SIZE
    BY <1>2 DEF StoreQueueCycle
  <2>2. tail_index(flush) \in Slot
    BY <1>1, DispatchIntoEmpty
  <2> QED BY <1>1, <2>1, <2>2, RingDistance
<1>8. empty' \in BOOLEAN /\ store_en_prev' \in BOOLEAN
  BY <1>1, <1>2 DEF StoreQueueCycle, EmptyAfter, store_en
<1> QED BY <1>5, <1>6, <1>7, <1>8 DEF StoreQueueTypeOK

\* No operation of a group holds no store.
LEMMA GroupCountNone == ASSUME NEW group PROVE StoresBefore(group, 1) = 0
<1>1. {j \in 1 .. 1 - 1 : group[j].rw = "write"} = {}
  OBVIOUS
<1> QED BY <1>1, FS_EmptySet DEF StoresBefore

\* One more operation of a group counts when it is a store.
LEMMA GroupCountNext ==
    ASSUME NEW group, NEW k \in Nat
    PROVE  StoresBefore(group, k + 2) =
              StoresBefore(group, k + 1) + IF group[k + 1].rw = "write" THEN 1 ELSE 0
<1> DEFINE S(m) == {j \in 1 .. m : group[j].rw = "write"}
<1>1. (k + 1) - 1 = k /\ (k + 2) - 1 = k + 1
  OBVIOUS
<1>2. /\ StoresBefore(group, k + 1) = Cardinality(S(k))
      /\ StoresBefore(group, k + 2) = Cardinality(S(k + 1))
  BY <1>1 DEF StoresBefore
<1>3. IsFiniteSet(S(k)) /\ Cardinality(S(k)) \in Nat
  <2>1. IsFiniteSet(1 .. k)
    BY FS_Interval
  <2>2. IsFiniteSet(S(k))
    BY <2>1, FS_Subset
  <2> QED BY <2>2, FS_CardinalityType
<1>4. CASE group[k + 1].rw = "write"
  <2>1. S(k + 1) = S(k) \cup {k + 1} /\ k + 1 \notin S(k)
    BY <1>4
  <2> HIDE DEF S
  <2>2. Cardinality(S(k) \cup {k + 1}) = Cardinality(S(k)) + 1
    BY <1>3, <2>1, FS_AddElement
  <2> QED BY <1>2, <1>4, <2>1, <2>2
<1>5. CASE group[k + 1].rw # "write"
  <2>1. S(k + 1) = S(k)
    BY <1>5
  <2> HIDE DEF S
  <2> QED BY <1>2, <1>3, <1>5, <2>1
<1> QED BY <1>4, <1>5

\* The stores in the window after the cycle: without the one that was accepted, and
\* with those of the group behind them.
LEMMA CountsGoOn ==
    ASSUME PathInv, NEW in, NEW is_store, NEW flush, NEW response, NEW tag,
           Drives(in, is_store, flush, response, tag),
           NEW stalled, NEW issued, NEW group, Steps(in, is_store, flush, stalled, issued, group)
    PROVE  /\ ~flush => \A k \in 0 .. Kept(in) :
                 StoreCount(window', k) + (IF store_accepted(in) THEN 1 ELSE 0)
                    = StoreCount(window, k + Leaving(store_accepted(in)))
           /\ flush => StoreCount(window', Kept(in)) = 0
           /\ \A k \in 0 .. Len(group) :
                 StoreCount(window', Kept(in) + k)
                    = StoreCount(window', Kept(in)) + StoresBefore(group, k + 1)
<1> DEFINE n == Leaving(store_accepted(in))
           kept == Kept(in)
           a == IF store_accepted(in) THEN 1 ELSE 0
           Before(k) == StoreCount(window, k)
           After(k) == StoreCount(window', k)
<1>1. /\ flush \in BOOLEAN /\ store_accepted(in) \in BOOLEAN
      /\ kept \in Nat /\ kept = (IF flush THEN 0 ELSE Len(window) - n)
      /\ Len(group) \in 0 .. WAY
      /\ store_accepted(in) => window # <<>> /\ IsStore(window[1]) /\ window[1].stage = "done"
  BY CycleFacts
<1>2. /\ n \in 0 .. Len(window) /\ Len(window) \in Nat
      /\ \A k \in 1 .. n : IsStore(window[k]) => k = 1 /\ store_accepted(in)
      /\ store_accepted(in) => n >= 1
  BY <1>1, LeavingFacts, WindowTypes
<1>3. /\ \A k \in 1 .. kept : window'[k].op = window[k + n].op
      /\ \A k \in 1 .. Len(group) : window'[kept + k].op = group[k]
  <2>1. /\ issued \in {0} \cup IF flush THEN {} ELSE Issuable
        /\ group \in Groups(flush, store_accepted(in), Kept(in))
        /\ WindowCycle(in, Finished(in, stalled), issued, group)
        /\ Finished(in, stalled) \in BOOLEAN
    BY CycleFacts DEF Steps
  <2> QED BY <1>1, <2>1, WindowGoesOn
<1>4. Before(n) = a
  <2>1. CASE store_accepted(in)
    <3>1. StoresUpTo(window, n) = {1}
      <4>1. 1 \in 1 .. n /\ IsStore(window[1])
        <5>1. n >= 1 /\ IsStore(window[1])
          BY <1>1, <1>2, <2>1
        <5>2. n \in Nat
          BY <1>2
        <5> HIDE DEF n
        <5> QED BY <5>1, <5>2
      <4>2. \A k \in 1 .. n : IsStore(window[k]) => k = 1
        BY <1>2
      <4> HIDE DEF n
      <4> QED BY <4>1, <4>2 DEF StoresUpTo
    <3> QED BY <2>1, <3>1, FS_Singleton DEF StoreCount
  <2>2. CASE ~store_accepted(in)
    <3>1. StoresUpTo(window, n) = {}
      BY <1>2, <2>2 DEF StoresUpTo
    <3> QED BY <2>2, <3>1, FS_EmptySet DEF StoreCount
  <2> QED BY <2>1, <2>2
<1>5. /\ \A k \in Nat : /\ Before(k) \in Nat /\ After(k) \in Nat
                        /\ Before(k + 1) = Before(k) + IF IsStore(window[k + 1]) THEN 1 ELSE 0
                        /\ After(k + 1) = After(k) + IF IsStore(window'[k + 1]) THEN 1 ELSE 0
      /\ After(0) = 0
  BY CountTypes, CountNext
<1>6. a \in Nat
  OBVIOUS
<1> HIDE DEF n, kept, a, Before, After
<1>7. ASSUME ~flush PROVE \A k \in 0 .. kept : After(k) + a = Before(k + n)
  <2> DEFINE S == {k \in 0 .. kept : After(k) + a = Before(k + n)}
  <2>1. 0 \in S
    BY <1>1, <1>2, <1>4, <1>5, <1>6
  <2>2. \A k \in 0 .. kept - 1 : k \in S => k + 1 \in S
    <3> SUFFICES ASSUME NEW k \in 0 .. kept - 1, k \in S PROVE k + 1 \in S
      OBVIOUS
    <3>1. k \in Nat /\ k + 1 \in 1 .. kept /\ k + n \in Nat /\ (k + 1) + n = (k + n) + 1
      BY <1>1, <1>2
    <3>2. IsStore(window'[k + 1]) <=> IsStore(window[(k + n) + 1])
      BY <1>3, <3>1 DEF IsStore
    <3>3. After(k + 1) = After(k) + IF IsStore(window'[k + 1]) THEN 1 ELSE 0
      BY <1>5, <3>1
    <3>4. Before((k + n) + 1) = Before(k + n) + IF IsStore(window[(k + n) + 1]) THEN 1 ELSE 0
      BY <1>5, <3>1
    <3>5. After(k) \in Nat /\ Before(k + n) \in Nat /\ After(k) + a = Before(k + n)
      BY <1>5, <3>1
    <3>6. After(k + 1) + a = Before((k + 1) + n)
      BY <1>6, <3>1, <3>2, <3>3, <3>4, <3>5
    <3> QED BY <1>1, <3>1, <3>6
  <2> HIDE DEF S
  <2>3. \A k \in 0 .. kept : k \in S
    BY <1>1, <2>1, <2>2, IntervalInduction
  <2> QED BY <2>3 DEF S
<1>8. flush => After(kept) = 0
  BY <1>1, <1>5
<1>9. \A k \in 0 .. Len(group) : After(kept + k) = After(kept) + StoresBefore(group, k + 1)
  <2> DEFINE S == {k \in 0 .. Len(group) :
                     After(kept + k) = After(kept) + StoresBefore(group, k + 1)}
  <2>1. 0 \in S
    <3>1. StoresBefore(group, 1) = 0 /\ 0 + 1 = 1
      BY GroupCountNone
    <3>2. kept \in Nat
      BY <1>1
    <3>3. After(kept) \in Nat
      BY <1>5, <3>2
    <3>4. kept + 0 = kept /\ 0 \in 0 .. Len(group)
      BY <1>1, <3>2
    <3> QED BY <3>1, <3>3, <3>4
  <2>2. \A k \in 0 .. Len(group) - 1 : k \in S => k + 1 \in S
    <3> SUFFICES ASSUME NEW k \in 0 .. Len(group) - 1, k \in S PROVE k + 1 \in S
      OBVIOUS
    <3>1. k \in Nat /\ k + 1 \in 1 .. Len(group) /\ kept + k \in Nat
          /\ kept + (k + 1) = (kept + k) + 1 /\ (k + 1) + 1 = k + 2
      BY <1>1
    <3>2. IsStore(window'[(kept + k) + 1]) <=> group[k + 1].rw = "write"
      BY <1>3, <3>1 DEF IsStore
    <3>3. After((kept + k) + 1) = After(kept + k)
                                    + IF IsStore(window'[(kept + k) + 1]) THEN 1 ELSE 0
      BY <1>5, <3>1
    <3>4. /\ StoresBefore(group, k + 2) =
                StoresBefore(group, k + 1) + IF group[k + 1].rw = "write" THEN 1 ELSE 0
          /\ StoresBefore(group, k + 1) \in Nat
      <4>1. k \in Nat /\ k + 1 \in Nat
        BY <3>1
      <4> QED BY <4>1, GroupCountNext, GroupCount
    <3>5. After(kept + k) \in Nat /\ After(kept) \in Nat
          /\ After(kept + k) = After(kept) + StoresBefore(group, k + 1)
      BY <1>1, <1>5, <3>1
    <3>6. After(kept + (k + 1)) = After(kept) + StoresBefore(group, (k + 1) + 1)
      BY <3>1, <3>2, <3>3, <3>4, <3>5
    <3> QED BY <1>1, <3>1, <3>6
  <2> HIDE DEF S
  <2>3. \A k \in 0 .. Len(group) : k \in S
    <3>1. Len(group) \in Nat
      BY <1>1
    <3> QED BY <2>1, <2>2, <3>1, IntervalInduction
  <2> QED BY <2>3 DEF S
<1> QED BY <1>7, <1>8, <1>9 DEF n, kept, a, Before, After

\* The ring still holds the stores of the window.
LEMMA RingStep ==
    ASSUME PathInv, NEW in, NEW is_store, NEW flush, NEW response, NEW tag,
           Drives(in, is_store, flush, response, tag),
           NEW stalled, NEW issued, NEW group, Steps(in, is_store, flush, stalled, issued, group)
    PROVE  RingInv'
<1> DEFINE accepted == store_accepted(in)
           n == Leaving(accepted)
           kept == Kept(in)
           a == IF accepted THEN 1 ELSE 0
           g == StoresBefore(group, Len(group) + 1)
           F == StoreCount(window, Len(window))
           K == StoreCount(window', kept)
           h == head_next(flush, accepted)
           t == tail_index(flush)
<1>1. /\ flush \in BOOLEAN /\ in.flush = flush /\ is_store \in BOOLEAN /\ accepted \in BOOLEAN
      /\ Finished(in, stalled) \in BOOLEAN
      /\ kept \in Nat /\ kept = (IF flush THEN 0 ELSE Len(window) - n)
      /\ Len(group) \in 0 .. WAY /\ g \in 0 .. WAY
      /\ accepted => /\ ~flush /\ window # <<>>
                     /\ IsStore(window[1]) /\ window[1].stage = "done"
  BY CycleFacts
<1>2. /\ n \in 0 .. Len(window) /\ Len(window) \in Nat /\ F \in 0 .. WAY
      /\ head \in Slot /\ tail \in Slot /\ SQ_SIZE \in Nat
      /\ DOMAIN window = 1 .. Len(window)
      /\ tail = (head + F) % SQ_SIZE
      /\ empty <=> F = 0
  BY <1>1, LeavingFacts, WindowTypes DEF PathInv, RingInv
<1>3. /\ ~flush => \A k \in 0 .. kept : StoreCount(window', k) + a = StoreCount(window, k + n)
      /\ flush => K = 0
      /\ \A k \in 0 .. Len(group) :
            StoreCount(window', kept + k) = K + StoresBefore(group, k + 1)
  BY CountsGoOn
<1>4. /\ issued \in {0} \cup IF flush THEN {} ELSE Issuable
      /\ group \in Groups(flush, accepted, kept)
      /\ WindowCycle(in, Finished(in, stalled), issued, group)
      /\ StoreQueueCycle(flush, is_store, accepted, StoreSent(flush), g)
      /\ LoadUnitCycle(flush, load_valid(in, stalled), load_accepted(in, stalled),
                       Forwarded(flush, accepted, StoreSent(flush),
                                 execute_data.sq_index, execute_data.addr),
                       Taken(issued))
  BY DEF Steps
<1>5. /\ Len(window') = kept + Len(group)
      /\ DOMAIN window' = 1 .. Len(window')
      /\ \A k \in 1 .. kept :
            /\ window'[k].op = window[k + n].op /\ window'[k].sq_index = window[k + n].sq_index
            /\ window[k + n].stage = "done" => window'[k].stage = "done"
            /\ window[k + n].stage = "issued" /\ ~Finished(in, stalled)
                  => window'[k].stage = "issued"
            /\ k + n = issued => window'[k].stage = "issued"
      /\ \A k \in 1 .. Len(group) :
            /\ window'[kept + k].op = group[k]
            /\ window'[kept + k].sq_index = (t + StoresBefore(group, k)) % SQ_SIZE
  <2>1. /\ window' \in Seq(InFlight)
        /\ Len(window') = kept + Len(group)
        /\ \A k \in 1 .. kept :
              /\ window'[k].op = window[k + n].op
              /\ window'[k].sq_index = window[k + n].sq_index
              /\ window[k + n].stage = "done" => window'[k].stage = "done"
              /\ window[k + n].stage = "issued" /\ ~Finished(in, stalled)
                    => window'[k].stage = "issued"
              /\ k + n = issued => window'[k].stage = "issued"
        /\ \A k \in 1 .. Len(group) :
              /\ window'[kept + k].op = group[k]
              /\ window'[kept + k].sq_index = (t + StoresBefore(group, k)) % SQ_SIZE
    BY <1>1, <1>4, WindowGoesOn
  <2>2. DOMAIN window' = 1 .. Len(window')
    BY <2>1
  <2> QED BY <2>1, <2>2
<1>6. K \in Nat /\ (flush => K = 0) /\ (~flush => K + a = F)
  <2>1. K \in Nat
    BY <1>1, CountTypes
  <2>2. ~flush => kept + n = Len(window) /\ kept \in 0 .. kept
    BY <1>1, <1>2
  <2>3. ~flush => K + a = StoreCount(window, kept + n)
    BY <1>3, <2>2
  <2> QED BY <1>3, <2>1, <2>2, <2>3
<1>7. K \in 0 .. WAY
  BY <1>1, <1>2, <1>6
<1>8. /\ h \in Slot /\ t \in Slot
      /\ ~EmptyAfter(flush, accepted) => g = 0
  BY <1>1, <1>4, DispatchIntoEmpty, DispatchFacts
<1>9. t = (h + K) % SQ_SIZE
  <2>1. CASE flush
    <3>1. h = 0 /\ t = 0 /\ K = 0
      BY <1>6, <2>1 DEF head_next, tail_index
    <3>2. (0 + 0) % SQ_SIZE = 0
      BY <1>7, <1>8, <3>1, RingDistance
    <3> QED BY <3>1, <3>2
  <2>2. CASE ~flush /\ accepted
    <3>1. h = Inc(head) /\ t = tail /\ K + 1 = F
      BY <1>6, <2>2 DEF head_next, tail_index
    <3>2. (Inc(head) + K) % SQ_SIZE = (head + (K + 1)) % SQ_SIZE
      BY <1>2, <1>7, RingShift
    <3> QED BY <1>2, <3>1, <3>2
  <2>3. CASE ~flush /\ ~accepted
    <3>1. h = head /\ t = tail /\ K = F
      BY <1>6, <2>3 DEF head_next, tail_index
    <3> QED BY <1>2, <3>1
  <2> QED BY <1>1, <2>1, <2>2, <2>3
<1>10. EmptyAfter(flush, accepted) <=> K = 0
  <2>1. CASE flush
    BY <1>6, <2>1 DEF EmptyAfter
  <2>2. CASE ~flush /\ accepted
    <3>1. ~empty
      BY <1>1, <2>2, OldestAtHead
    <3>2. t = tail
      BY <2>2 DEF tail_index
    <3>3. (h + K) % SQ_SIZE = h <=> K = 0
      BY <1>7, <1>8, RingDistance
    <3>4. EmptyAfter(flush, accepted) <=> h = tail
      BY <2>2, <3>1 DEF EmptyAfter
    <3> QED BY <1>9, <3>2, <3>3, <3>4
  <2>3. CASE ~flush /\ ~accepted
    <3>1. K = F
      BY <1>6, <2>3
    <3> QED BY <1>2, <2>3, <3>1 DEF EmptyAfter
  <2> QED BY <1>1, <2>1, <2>2, <2>3
<1>11. /\ head' = h /\ tail' = (t + g) % SQ_SIZE
       /\ empty' = (EmptyAfter(flush, accepted) /\ g = 0)
       /\ store_en_prev' = (store_en(flush, is_store) /\ ~accepted)
  BY <1>4 DEF StoreQueueCycle
<1>12. StoreCount(window', Len(window')) = K + g
  <2>1. Len(group) \in 0 .. Len(group)
    BY <1>1
  <2> QED BY <1>3, <1>5, <2>1
<1>13. StoreCount(window, Len(window))' = K + g
  BY <1>12
<1> HIDE DEF accepted, n, kept, a, g, F, K, h, t
<1>14. K + g \in 0 .. WAY /\ (K + g = 0 <=> K = 0 /\ g = 0) /\ (K = 0 \/ g = 0)
  BY <1>1, <1>7, <1>8, <1>10
<1>15. tail' = (head' + (K + g)) % SQ_SIZE
  <2>1. CASE K = 0
    <3>1. (h + 0) % SQ_SIZE = h
      <4>1. 0 \in 0 .. WAY
        OBVIOUS
      <4> QED BY <1>8, <4>1, RingDistance
    <3>2. t = h /\ K + g = g
      BY <1>1, <1>9, <2>1, <3>1
    <3> QED BY <1>11, <3>2
  <2>2. CASE g = 0
    <3>1. t + 0 = t /\ K + g = K
      BY <1>7, <1>8, <2>2 DEF Slot
    <3>2. (t + 0) % SQ_SIZE = t
      <4>1. 0 \in 0 .. WAY
        OBVIOUS
      <4> QED BY <1>8, <4>1, RingDistance
    <3> QED BY <1>9, <1>11, <2>2, <3>1, <3>2
  <2> QED BY <1>14, <2>1, <2>2
<1>16. ASSUME NEW k \in 1 .. Len(window'), IsStore(window'[k])
       PROVE  window'[k].sq_index = (head' + StoreCount(window', k - 1)) % SQ_SIZE
  <2> DEFINE c == StoreCount(window', k - 1)
  <2>1. CASE k \in 1 .. kept
    <3>1. /\ ~flush /\ k + n \in 1 .. Len(window) /\ k - 1 \in 0 .. kept
          /\ (k - 1) + n = (k + n) - 1
      <4>1. ~flush
        BY <1>1, <2>1
      <4>2. kept = Len(window) - n /\ n \in Nat /\ Len(window) \in Nat
        BY <1>1, <1>2, <4>1
      <4> QED BY <2>1, <4>1, <4>2
    <3>2. IsStore(window[k + n])
      BY <1>5, <1>16, <2>1 DEF IsStore
    <3>3. window[k + n].sq_index = (head + StoreCount(window, (k + n) - 1)) % SQ_SIZE
      BY <1>2, <3>1, <3>2 DEF PathInv, RingInv
    <3>4. c + a = StoreCount(window, (k + n) - 1)
      BY <1>3, <3>1
    <3>5. c \in 0 .. WAY
      <4>1. c \in Nat /\ c <= StoreCount(window', kept)
        BY <1>1, <3>1, CountTypes
      <4> QED BY <1>7, <4>1 DEF K
    <3> HIDE DEF c
    <3>6. (head + (c + a)) % SQ_SIZE = (h + c) % SQ_SIZE
      <4>1. CASE accepted
        <5>1. (Inc(head) + c) % SQ_SIZE = (head + (c + 1)) % SQ_SIZE
          BY <1>2, <3>5, RingShift
        <5>2. h = Inc(head) /\ a = 1
          BY <3>1, <4>1 DEF h, a, head_next
        <5> QED BY <5>1, <5>2
      <4>2. CASE ~accepted
        <5>1. h = head /\ a = 0 /\ c + 0 = c
          BY <3>1, <3>5, <4>2 DEF h, a, head_next
        <5> QED BY <5>1
      <4> QED BY <1>1, <4>1, <4>2
    <3>7. window'[k].sq_index = window[k + n].sq_index
      BY <1>5, <2>1
    <3> QED BY <1>11, <3>3, <3>4, <3>6, <3>7 DEF c
  <2>2. CASE k \notin 1 .. kept
    <3> DEFINE j == k - kept
    <3>1. j \in 1 .. Len(group) /\ kept + j = k /\ j - 1 \in 0 .. Len(group)
          /\ kept + (j - 1) = k - 1 /\ (j - 1) + 1 = j
      BY <1>1, <1>5, <2>2
    <3> HIDE DEF j
    <3>2. window'[k].op = group[j]
          /\ window'[k].sq_index = (t + StoresBefore(group, j)) % SQ_SIZE
      BY <1>5, <3>1
    <3>3. c = K + StoresBefore(group, j)
      BY <1>3, <3>1
    <3>4. StoresBefore(group, j) \in Nat /\ StoresBefore(group, j) + 1 <= g
      <4>1. StoresBefore(group, j + 1) = StoresBefore(group, j) + 1
        <5>1. group[j].rw = "write"
          BY <1>16, <3>2 DEF IsStore
        <5>2. j - 1 \in Nat /\ (j - 1) + 2 = j + 1 /\ (j - 1) + 1 = j
          BY <3>1
        <5>3. StoresBefore(group, (j - 1) + 2) =
                 StoresBefore(group, (j - 1) + 1)
                   + IF group[(j - 1) + 1].rw = "write" THEN 1 ELSE 0
          BY <5>2, GroupCountNext
        <5> QED BY <5>1, <5>2, <5>3
      <4>2. StoresBefore(group, j) \in Nat
        <5>1. j \in Nat
          BY <3>1
        <5> QED BY <5>1, GroupCount
      <4>3. StoreCount(window', k) = K + StoresBefore(group, j + 1)
        BY <1>3, <3>1
      <4>4. StoreCount(window', k) <= StoreCount(window', Len(window'))
        <5>1. k \in Int /\ Len(window') \in Int /\ k <= Len(window')
          BY <1>1, <1>5, <1>16
        <5> QED BY <5>1, CountTypes
      <4>5. StoresBefore(group, j + 1) <= g
        BY <1>1, <1>7, <1>12, <4>1, <4>2, <4>3, <4>4
      <4> QED BY <4>1, <4>2, <4>5
    <3>5. K = 0
      BY <1>1, <1>14, <3>4
    <3>6. t = h
      <4>1. (h + 0) % SQ_SIZE = h
        <5>1. 0 \in 0 .. WAY
          OBVIOUS
        <5> QED BY <1>8, <5>1, RingDistance
      <4> QED BY <1>9, <3>5, <4>1
    <3>7. c = StoresBefore(group, j)
      BY <3>3, <3>4, <3>5
    <3> QED BY <1>11, <3>2, <3>6, <3>7
  <2> QED BY <2>1, <2>2
<1>17. ASSUME execute_data' # NoOp
       PROVE  \E k \in 1 .. Len(window') :
                 window'[k].stage = "issued" /\ execute_data' = Packet(k)'
  <2>1. ~flush
    BY <1>1, <1>4, <1>17 DEF LoadUnitCycle
  <2> DEFINE free == Free(flush, load_valid(in, stalled), load_accepted(in, stalled))
  <2>2. execute_data' = IF free THEN Taken(issued) ELSE execute_data
    BY <1>4, <2>1 DEF LoadUnitCycle
  <2>3. SUFFICES ASSUME NEW m \in 1 .. Len(window), execute_data' = Packet(m), m > n,
                        window'[m - n].stage = "issued"
                 PROVE  \E k \in 1 .. Len(window') :
                           window'[k].stage = "issued" /\ execute_data' = Packet(k)'
    <3>1. CASE free
      <4>1. execute_data' = Taken(issued) /\ issued # 0
        BY <1>17, <2>2, <3>1 DEF Taken
      <4>2. issued \in 1 .. Len(window) /\ window[issued].stage # "done"
        BY <1>2, <1>4, <2>1, <4>1 DEF Issuable
      <4>3. issued > n
        BY <1>1, <4>2, LeavingFacts DEF n
      <4>4. issued - n \in 1 .. kept /\ (issued - n) + n = issued
        BY <1>1, <1>2, <2>1, <4>2, <4>3
      <4>5. window'[issued - n].stage = "issued"
        BY <1>5, <4>4
      <4> QED BY <2>3, <4>1, <4>2, <4>3, <4>5 DEF Taken
    <3>2. CASE ~free
      <4>1. execute_data' = execute_data /\ ~Finished(in, stalled)
        BY <1>1, <2>2, <3>2 DEF Free, Finished
      <4>2. PICK m \in 1 .. Len(window) :
               window[m].stage = "issued" /\ execute_data = Packet(m)
        BY <1>2, <1>17, <4>1 DEF PathInv, RingInv
      <4>3. m > n
        BY <1>1, <4>2, LeavingFacts DEF n
      <4>4. m - n \in 1 .. kept /\ (m - n) + n = m
        BY <1>1, <1>2, <2>1, <4>2, <4>3
      <4>5. window'[m - n].stage = "issued"
        BY <1>5, <4>1, <4>2, <4>4
      <4> QED BY <2>3, <4>1, <4>2, <4>3, <4>5
    <3> QED BY <3>1, <3>2
  <2>4. m - n \in 1 .. kept /\ (m - n) + n = m
    BY <1>1, <1>2, <2>1, <2>3
  <2>5. PICK k \in 1 .. kept : k = m - n /\ k + n = m
    BY <2>4
  <2>6. window'[k].op = window[m].op /\ window'[k].sq_index = window[m].sq_index
    BY <1>5, <2>5
  <2>7. Packet(m) = Packet(k)'
    BY <2>6 DEF Packet
  <2>8. k \in 1 .. Len(window') /\ window'[k].stage = "issued"
    BY <1>1, <1>5, <2>3, <2>5
  <2> QED BY <2>3, <2>7, <2>8
<1>18. ASSUME store_en_prev'
       PROVE  window' # <<>> /\ IsStore(window'[1]) /\ window'[1].stage = "done"
  <2>1. ~accepted /\ store_en(flush, is_store)
    BY <1>11, <1>18
  <2>2. ~flush /\ window # <<>> /\ IsStore(window[1]) /\ window[1].stage = "done"
    BY <2>1, InputFacts
  <2>3. n = 0
    BY <1>1, <2>1, <2>2, LeavingFacts DEF n
  <2>4. 1 \in 1 .. kept /\ 1 + n = 1
    <3>1. Len(window) # 0
      BY <2>2 DEF PathInv, TypeOK
    <3> QED BY <1>1, <1>2, <2>2, <2>3, <3>1
  <2>5. window'[1].op = window[1].op /\ window'[1].stage = "done"
    BY <1>5, <2>2, <2>4
  <2>6. window' # <<>>
    <3>1. Len(window') # 0
      BY <1>1, <1>5, <2>4
    <3> QED BY <3>1
  <2> QED BY <2>2, <2>5, <2>6 DEF IsStore
<1>19. empty' <=> StoreCount(window, Len(window))' = 0
  BY <1>10, <1>11, <1>13, <1>14
<1> QED BY <1>5, <1>11, <1>12, <1>13, <1>14, <1>15, <1>16, <1>17, <1>18, <1>19
        DEF RingInv

-----------------------------------------------------------------------------
(* The memory unit.                                                         *)

\* The unit keeps its types.
LEMMA UnitTypes ==
    ASSUME PathInv, NEW in, NEW is_store, NEW flush, NEW response, NEW tag,
           Drives(in, is_store, flush, response, tag),
           NEW stalled, NEW issued, NEW group, Steps(in, is_store, flush, stalled, issued, group)
    PROVE  LoadUnitTypeOK'
<1> DEFINE valid == load_valid(in, stalled)
           accepted == load_accepted(in, stalled)
           answer == Forwarded(flush, store_accepted(in), StoreSent(flush),
                               execute_data.sq_index, execute_data.addr)
           op == Taken(issued)
<1>1. /\ execute_data \in MemOp \cup {NoOp}
      /\ alu_start \in BOOLEAN
      /\ load_state \in {"idle", "queue", "wait"}
      /\ internal_load_result \in LoadResult
  BY DEF PathInv, TypeOK, LoadUnitTypeOK, LoadResult
<1>2. /\ LoadUnitCycle(flush, valid, accepted, answer, op)
      /\ issued \in {0} \cup IF flush THEN {} ELSE Issuable
  BY DEF Steps
<1>3. answer \in LoadResult
  <2>1. execute_data.sq_index \in Nat
    BY <1>1 DEF MemOp, NoOp
  <2> QED BY <2>1, CycleFacts, ForwardedType
<1>4. op \in MemOp \cup {NoOp}
  <2>1. CASE issued = 0
    BY <2>1 DEF Taken
  <2>2. CASE issued # 0
    <3>1. issued \in 1 .. Len(window)
      BY <1>2, <2>2, WindowTypes DEF Issuable
    <3>2. window[issued].op \in Ops /\ window[issued].sq_index \in Slot
      BY <3>1, WindowTypes
    <3>3. window[issued].op \in [rw : {"read", "write"}, func : Func, addr : Addr,
                                 store_data : WordData]
      BY <3>2
    <3>4. window[issued].sq_index \in Nat
      BY <3>2 DEF Slot
    <3> QED BY <2>2, <3>3, <3>4 DEF Taken, Packet, MemOp
  <2> QED BY <2>1, <2>2
<1> HIDE DEF valid, accepted, answer, op
<1>5. LUNoLoadResult \in LoadResult
  BY ZeroTypes DEF LUNoLoadResult, LoadResult
<1>6. CASE flush
  BY <1>2, <1>5, <1>6 DEF LoadUnitCycle, LoadUnitTypeOK, LoadResult
<1>7. CASE ~flush
  <2>1. execute_data' \in MemOp \cup {NoOp}
    BY <1>1, <1>2, <1>4, <1>7 DEF LoadUnitCycle
  <2>2. alu_start' \in BOOLEAN
    BY <1>2, <1>7 DEF LoadUnitCycle
  <2>3. load_state' \in {"idle", "queue", "wait"}
    BY <1>1, <1>2, <1>7 DEF LoadUnitCycle, load_state_next
  <2>4. internal_load_result' \in LoadResult
    BY <1>1, <1>2, <1>3, <1>5, <1>7 DEF LoadUnitCycle
  <2> QED BY <2>1, <2>2, <2>3, <2>4 DEF LoadUnitTypeOK, LoadResult
<1> QED BY <1>6, <1>7

\* A load that is not finished stays in the unit and takes its state from the cache;
\* a flush empties the unit.
LEMMA UnitGoesOn ==
    ASSUME PathInv, NEW in, NEW is_store, NEW flush, NEW response, NEW tag,
           Drives(in, is_store, flush, response, tag),
           NEW stalled, NEW issued, NEW group, Steps(in, is_store, flush, stalled, issued, group)
    PROVE  /\ load_state' # "idle" => /\ ~flush /\ execute_data' = execute_data
                                      /\ execute_data.rw = "read" /\ ~alu_start'
           /\ ~flush /\ load_state # "idle" =>
                 load_state' = IF load_valid(in, stalled) THEN "idle"
                               ELSE IF load_accepted(in, stalled) THEN "wait"
                               ELSE load_state
<1> DEFINE valid == load_valid(in, stalled)
           accepted == load_accepted(in, stalled)
           op == Taken(issued)
<1>1. LoadUnitCycle(flush, valid, accepted,
                    Forwarded(flush, store_accepted(in), StoreSent(flush),
                              execute_data.sq_index, execute_data.addr), op)
  BY DEF Steps
<1>2. load_state # "idle" => execute_data.rw = "read" /\ ~alu_start
  BY DEF PathInv, MissInv
<1> HIDE DEF valid, accepted, op
<1>3. CASE flush
  BY <1>1, <1>3 DEF LoadUnitCycle
<1>4. CASE ~flush
  <2>1. load_state' = load_state_next(flush, valid, accepted)
    BY <1>1, <1>4 DEF LoadUnitCycle
  <2>2. ASSUME load_state' # "idle"
        PROVE  execute_data' = execute_data /\ execute_data.rw = "read" /\ ~alu_start'
    <3>1. execute_data.rw = "read"
      BY <1>2, <2>1, <2>2 DEF load_state_next, Starts
    <3>2. execute_data # NoOp
      BY <3>1 DEF NoOp
    <3>3. ~Free(flush, valid, accepted)
      BY <1>4, <2>1, <2>2, <3>2 DEF Free, ResultValid
    <3> QED BY <1>1, <1>4, <3>1, <3>3 DEF LoadUnitCycle
  <2>3. load_state # "idle" =>
           load_state' = IF valid THEN "idle" ELSE IF accepted THEN "wait" ELSE load_state
    BY <1>2, <2>1 DEF load_state_next, Starts
  <2> QED BY <1>4, <2>2, <2>3 DEF valid, accepted
<1> QED BY <1>3, <1>4

\* A store that is offered and not taken is offered again.
LEMMA OfferGoesOn ==
    ASSUME PathInv, NEW in, NEW is_store, NEW flush, NEW response, NEW tag,
           Drives(in, is_store, flush, response, tag), in.store, ~store_accepted(in),
           NEW stalled, NEW issued, NEW group, Steps(in, is_store, flush, stalled, issued, group)
    PROVE  head' = head /\ sq'[head] = sq[head] /\ store_en_prev' /\ StoreLine' = StoreLine
<1> DEFINE n == StoresBefore(group, Len(group) + 1)
<1>1. /\ flush \in BOOLEAN /\ store_accepted(in) = FALSE /\ Kept(in) \in Nat
      /\ n \in 0 .. WAY
  BY CycleFacts
<1>2. /\ group \in Groups(flush, FALSE, Kept(in))
      /\ StoreQueueCycle(flush, is_store, FALSE, StoreSent(flush), n)
  BY <1>1 DEF Steps
<1>3. n <= dispatch_empty_slots(flush, FALSE)
  BY <1>1, <1>2, DispatchFacts
<1>4. n \in Nat
  BY <1>1
<1> HIDE DEF n
<1>5. head' = head /\ sq'[head] = sq[head] /\ store_en_prev'
  BY <1>2, <1>3, <1>4, OfferStays
<1> QED BY <1>5 DEF StoreLine

\* A load whose line is not in the cache goes on.
LEMMA LoadGoesOn ==
    ASSUME PathInv, NEW in, NEW is_store, NEW flush, NEW response, NEW tag,
           Drives(in, is_store, flush, response, tag), ~flush,
           NEW stalled, NEW issued, NEW group, Steps(in, is_store, flush, stalled, issued, group),
           load_state # "idle", ~InCache(load_line)
    PROVE  /\ load_state' = IF load_accepted(in, stalled) THEN "wait" ELSE load_state
           /\ load_state' # "idle"
           /\ execute_data' = execute_data /\ load_line' = load_line
           /\ execute_data.rw = "read" /\ ~alu_start'
<1>1. ~load_valid(in, stalled)
  BY PortLines DEF load_valid
<1>2. load_state' = IF load_accepted(in, stalled) THEN "wait" ELSE load_state
  BY <1>1, UnitGoesOn
<1>3. load_state' # "idle"
  BY <1>2
<1>4. execute_data' = execute_data /\ execute_data.rw = "read" /\ ~alu_start'
  BY <1>3, UnitGoesOn
<1> QED BY <1>2, <1>3, <1>4 DEF load_line

-----------------------------------------------------------------------------
(* The invariant after a flush.                                             *)

\* A flush empties unit, queue and controller, and leaves cache and memory alone: no
\* store is on the bus.
LEMMA FlushStep ==
    ASSUME PathInv, NEW in, NEW is_store, NEW flush, NEW response, NEW tag,
           Drives(in, is_store, flush, response, tag), flush,
           NEW stalled, NEW issued, NEW group, Steps(in, is_store, flush, stalled, issued, group)
    PROVE  DataCacheTypeOK' /\ LinesInv' /\ MissInv' /\ BusInv' /\ CacheIsMemory'
           /\ FillsAreCurrent'
<1>1. in.flush /\ ~in.store /\ ~store_en_prev
  BY InputFacts
<1>2. Clocked(in, stalled)
  BY DEF Steps
<1>3. /\ MSHR_table' = [i \in 0 .. 1 |-> NoMiss] /\ operation' = NoPort
      /\ state' = "NO_LOAD" /\ dcache_data' = dcache_data
      /\ miss_outstanding' = miss_outstanding
  BY <1>1, <1>2 DEF Clocked, DataCacheCycle
<1>4. operation # 2
  BY <1>1 DEF PathInv, BusInv, MissInv
<1>5. unified_memory' = unified_memory
  BY <1>2, <1>4, MemoryGoesOn DEF Clocked
<1>6. load_state' = "idle"
  BY DEF Steps, LoadUnitCycle
<1>7. \A i \in 0 .. 1 : MSHR_table'[i].mem_tag = 0
  BY <1>3 DEF NoMiss
<1>8. DataCacheTypeOK'
  <2>1. NoMiss \in [mem_tag : Tag \cup {0}, miss_addr : Line]
    BY DEF NoMiss
  <2> QED BY <1>3, <2>1 DEF PathInv, TypeOK, DataCacheTypeOK
<1>9. LinesInv'
  BY <1>3, <1>7 DEF PathInv, LinesInv, PendingMiss
<1>10. MissInv'
  BY <1>3, <1>6, <1>7 DEF MissInv, PendingMiss
<1>11. BusInv'
  BY <1>3 DEF BusInv, NoPort
<1>12. CacheIsMemory'
  BY <1>3, <1>4, <1>5 DEF PathInv, CacheIsMemory
<1>13. FillsAreCurrent'
  BY <1>7 DEF FillsAreCurrent
<1> QED BY <1>8, <1>9, <1>10, <1>11, <1>12, <1>13

-----------------------------------------------------------------------------
(* The invariant after a cycle without a flush.                             *)

\* A command that is on the bus is for a line that is neither in the cache nor on its
\* way, and its port waits for no other.
LEMMA AskedLine ==
    ASSUME PathInv, NEW in, NEW is_store, NEW flush, NEW response, NEW tag,
           Drives(in, is_store, flush, response, tag), NEW i \in 0 .. 1, operation = i
    PROVE  /\ PortLine(in, i) = (IF i = 0 THEN load_line ELSE StoreLine)
           /\ PortLine(in, i) \in Line /\ ~InCache(PortLine(in, i))
           /\ \A j \in 0 .. 1 : ~MissOn(j, PortLine(in, i))
           /\ ~PendingMiss(i)
           /\ i = 0 => load_state = "queue"
           /\ i = 1 => store_en_prev /\ in.store /\ state = "NO_LOAD"
<1>1. CASE i = 0
  <2>1. /\ load_state = "queue" /\ ~PendingMiss(0)
        /\ ~MissOn(1, load_line) /\ ~InCache(load_line)
    BY <1>1 DEF PathInv, BusInv
  <2>2. ~MissOn(0, load_line)
    BY <2>1 DEF MissOn, PendingMiss
  <2>3. PortLine(in, 0) = load_line /\ load_line \in Line
    BY PortLines
  <2>4. \A j \in 0 .. 1 : ~MissOn(j, load_line)
    BY <2>1, <2>2
  <2> QED BY <1>1, <2>1, <2>3, <2>4
<1>2. CASE i = 1
  <2>1. state = "NO_LOAD" /\ store_en_prev /\ ~MissOn(0, StoreLine) /\ ~InCache(StoreLine)
    BY <1>2 DEF PathInv, BusInv
  <2>2. ~PendingMiss(1)
    BY <2>1 DEF PathInv, MissInv
  <2>3. ~MissOn(1, StoreLine)
    BY <2>2 DEF MissOn, PendingMiss
  <2>4. in.store
    BY <2>1, InputFacts
  <2>5. PortLine(in, 1) = StoreLine /\ StoreLine \in Line
    BY <2>4, PortLines
  <2>6. \A j \in 0 .. 1 : ~MissOn(j, StoreLine)
    BY <2>1, <2>3
  <2> QED BY <1>2, <2>1, <2>2, <2>4, <2>5, <2>6
<1> QED BY <1>1, <1>2

\* A miss that is pending after the cycle is new, or it was pending before and has not
\* been answered.
LEMMA MissIsNewOrOld ==
    ASSUME PathInv, NEW in, NEW is_store, NEW flush, NEW response, NEW tag,
           Drives(in, is_store, flush, response, tag), ~flush,
           NEW stalled, Clocked(in, stalled), NEW i \in 0 .. 1, MSHR_table'[i].mem_tag # 0
    PROVE  \/ /\ operation = i /\ response # 0
              /\ MSHR_table'[i].mem_tag = response
              /\ MSHR_table'[i].miss_addr = PortLine(in, i)
              /\ response \in Tag /\ loaded_data[response] = NoContent
           \/ /\ ~(operation = i /\ response # 0)
              /\ PendingMiss(i) /\ MSHR_table'[i] = MSHR_table[i]
              /\ MSHR_table[i].mem_tag # tag /\ MSHR_table[i].mem_tag \in Tag
              /\ MSHR_table[i].miss_addr = (IF i = 0 THEN load_line ELSE StoreLine)
              /\ MSHR_table[i].miss_addr \in Line /\ ~InCache(MSHR_table[i].miss_addr)
              /\ loaded_data[MSHR_table[i].mem_tag] = unified_memory[MSHR_table[i].miss_addr]
              /\ loaded_data[MSHR_table[i].mem_tag] \in LineContent
<1>1. MSHR_table'[i] = MissAfter(in, response, tag, i)
  BY MissesGoOn
<1>2. CASE operation = i /\ response # 0
  BY <1>1, <1>2, InputFacts DEF MissAfter
<1>3. CASE ~(operation = i /\ response # 0)
  <2>1. PendingMiss(i) /\ MSHR_table[i].mem_tag # tag /\ MSHR_table'[i] = MSHR_table[i]
    BY <1>1, <1>3 DEF MissAfter, NoMiss, PendingMiss
  <2>2. /\ MSHR_table[i].mem_tag \in Tag /\ MSHR_table[i].miss_addr \in Line
        /\ unified_memory[MSHR_table[i].miss_addr] \in LineContent
    BY <2>1, PathTypes DEF PendingMiss
  <2>3. /\ MSHR_table[i].miss_addr = (IF i = 0 THEN load_line ELSE StoreLine)
        /\ loaded_data[MSHR_table[i].mem_tag] = unified_memory[MSHR_table[i].miss_addr]
    BY <2>1 DEF PathInv, FillsAreCurrent, PendingMiss, load_line, StoreLine
  <2>4. ~InCache(MSHR_table[i].miss_addr)
    BY <2>1 DEF PathInv, LinesInv
  <2> QED BY <1>3, <2>1, <2>2, <2>3, <2>4
<1> QED BY <1>2, <1>3

\* The store that is taken has no miss pending, and while a miss of the store is pending
\* the store is offered.
LEMMA StoreTaken ==
    ASSUME PathInv, NEW in, NEW is_store, NEW flush, NEW response, NEW tag,
           Drives(in, is_store, flush, response, tag)
    PROVE  /\ operation = 2 => /\ \A j \in 0 .. 1 : ~MissOn(j, StoreLine)
                               /\ InCache(StoreLine)
                               /\ dcache_data[IndexOf[StoreLine]].data = StoredLine
           /\ PendingMiss(1) => in.store /\ state = "PROC_STORE" /\ ~store_accepted(in)
<1>1. operation = 2 => /\ \A j \in 0 .. 1 : ~MissOn(j, StoreLine)
                       /\ InCache(StoreLine)
                       /\ dcache_data[IndexOf[StoreLine]].data = StoredLine
  BY DEF PathInv, BusInv, StoredLine
<1>2. ASSUME PendingMiss(1)
      PROVE  in.store /\ state = "PROC_STORE" /\ ~store_accepted(in)
  <2>1. state = "PROC_STORE" /\ store_en_prev
    BY <1>2 DEF PathInv, MissInv
  <2>2. MissOn(1, StoreLine)
    BY <1>2 DEF PathInv, FillsAreCurrent, MissOn, PendingMiss, StoreLine
  <2>3. operation # 2
    BY <1>1, <2>2
  <2> QED BY <2>1, <2>3, InputFacts, BusAccepts
<1> QED BY <1>1, <1>2

\* Lines stay in their sets, and a line on its way is still not in the cache.
LEMMA LinesStep ==
    ASSUME PathInv, NEW in, NEW is_store, NEW flush, NEW response, NEW tag,
           Drives(in, is_store, flush, response, tag), ~flush,
           NEW stalled, Clocked(in, stalled)
    PROVE  LinesInv'
<1>1. ASSUME NEW index \in CacheIndex, dcache_data'[index].valids
      PROVE  IndexOf[dcache_data'[index].tags] = index
  BY <1>1, LinesStay
<1>2. ASSUME NEW i \in 0 .. 1, MSHR_table'[i].mem_tag # 0
      PROVE  ~InCache(MSHR_table[i].miss_addr)'
  <2> DEFINE line == IF operation = i /\ response # 0 THEN PortLine(in, i)
                     ELSE MSHR_table[i].miss_addr
  <2>1. /\ MSHR_table'[i].miss_addr = line
        /\ line \in Line /\ ~InCache(line)
        /\ \A j \in 0 .. 1 : MissOn(j, line) => MSHR_table[j].mem_tag # tag
    <3>1. CASE operation = i /\ response # 0
      <4>1. MSHR_table'[i].miss_addr = PortLine(in, i)
        BY <1>2, <3>1, MissIsNewOrOld
      <4>2. /\ PortLine(in, i) \in Line /\ ~InCache(PortLine(in, i))
            /\ \A j \in 0 .. 1 : ~MissOn(j, PortLine(in, i))
        BY <3>1, AskedLine
      <4>3. line = PortLine(in, i)
        BY <3>1
      <4> HIDE DEF line
      <4> QED BY <4>1, <4>2, <4>3
    <3>2. CASE ~(operation = i /\ response # 0)
      <4>0. line = MSHR_table[i].miss_addr
        BY <3>2, Zenon
      <4>1. /\ PendingMiss(i) /\ MSHR_table'[i] = MSHR_table[i]
            /\ MSHR_table[i].mem_tag # tag
            /\ line \in Line /\ ~InCache(line)
        <5> HIDE DEF line
        <5> QED BY <1>2, <3>2, <4>0, MissIsNewOrOld
      <4>2. ASSUME NEW j \in 0 .. 1, MissOn(j, line) PROVE j = i
        BY <3>2, <4>1, <4>2 DEF PathInv, MissInv, MissOn, PendingMiss
      <4> QED BY <3>2, <4>1, <4>2
    <3> QED BY <3>1, <3>2
  <2> HIDE DEF line
  <2>2. PICK l \in Line : l = line
    BY <2>1
  <2>3. ~InCache(l)'
    BY <2>1, <2>2, StaysOut
  <2> QED BY <2>1, <2>2, <2>3 DEF InCache
<1> QED BY <1>1, <1>2 DEF LinesInv, PendingMiss

\* While its miss is pending, or its command on the bus, the load goes on, and waits in its
\* queue state only for the store to its line.
LEMMA LoadWaits ==
    ASSUME PathInv, NEW in, NEW is_store, NEW flush, NEW response, NEW tag,
           Drives(in, is_store, flush, response, tag), ~flush,
           NEW stalled, NEW issued, NEW group, Steps(in, is_store, flush, stalled, issued, group),
           MSHR_table'[0].mem_tag # 0
    PROVE  /\ load_state' # "idle" /\ execute_data' = execute_data /\ load_line' = load_line
           /\ execute_data.rw = "read"
           /\ load_state' = "queue" =>
                 store_en_prev' /\ StoreLine' = StoreLine /\ StoreLine = load_line
<1>1. Clocked(in, stalled)
  BY DEF Steps
<1>2. load_state # "idle" /\ ~InCache(load_line)
  <2>1. CASE operation = 0 /\ response # 0
    BY <2>1, AskedLine, PortLines
  <2>2. CASE ~(operation = 0 /\ response # 0)
    <3>1. PendingMiss(0) /\ ~InCache(MSHR_table[0].miss_addr)
          /\ MSHR_table[0].miss_addr = load_line
      BY <1>1, <2>2, MissIsNewOrOld
    <3>2. load_state # "idle"
      BY <3>1 DEF PathInv, MissInv
    <3> QED BY <3>1, <3>2
  <2> QED BY <2>1, <2>2
<1>3. /\ load_state' = IF load_accepted(in, stalled) THEN "wait" ELSE load_state
      /\ load_state' # "idle"
      /\ execute_data' = execute_data /\ load_line' = load_line
      /\ execute_data.rw = "read"
  BY <1>2, LoadGoesOn
<1>4. ASSUME load_state' = "queue"
      PROVE  store_en_prev' /\ StoreLine' = StoreLine /\ StoreLine = load_line
  <2>1. load_state = "queue" /\ ~load_accepted(in, stalled)
    BY <1>3, <1>4
  <2>2. in.store /\ StoreLine = load_line
    <3>1. CASE operation = 0 /\ response # 0
      <4>1. load_store_accepted(in, 0)
        BY <3>1, BusAccepts DEF NoPort
      <4>2. stalled \in Stalls(in) /\ stalled # FALSE
        BY <1>1, <2>1, <4>1 DEF load_accepted, Clocked
      <4>3. StoreActive(in) /\ PortLine(in, 0) = PortLine(in, 2)
        BY <4>2 DEF Stalls
      <4>4. in.store
        BY <4>3, InputFacts DEF StoreActive, PathInv, MissInv
      <4> QED BY <4>3, <4>4, PortLines
    <3>2. CASE ~(operation = 0 /\ response # 0)
      <4>1. PendingMiss(0)
        BY <1>1, <3>2, MissIsNewOrOld
      <4>2. store_en_prev /\ StoreLine = load_line
        BY <2>1, <4>1 DEF PathInv, MissInv
      <4> QED BY <4>2, InputFacts
    <3> QED BY <3>1, <3>2
  <2>3. ~store_accepted(in)
    BY <1>2, <2>2, BusAccepts, StoreTaken
  <2> QED BY <2>2, <2>3, OfferGoesOn
<1> QED BY <1>3, <1>4

\* Controller and load unit after the cycle, while a miss is pending.
LEMMA MissStep ==
    ASSUME PathInv, NEW in, NEW is_store, NEW flush, NEW response, NEW tag,
           Drives(in, is_store, flush, response, tag), ~flush,
           NEW stalled, NEW issued, NEW group, Steps(in, is_store, flush, stalled, issued, group)
    PROVE  MissInv'
<1>1. Clocked(in, stalled)
  BY DEF Steps
<1>2. state' = StateAfter(in)
  BY <1>1, InputFacts DEF Clocked, DataCacheCycle
<1>3. ASSUME MSHR_table'[0].mem_tag # 0, MSHR_table'[1].mem_tag # 0
      PROVE  /\ MSHR_table'[0].mem_tag # MSHR_table'[1].mem_tag
             /\ MSHR_table'[0].miss_addr # MSHR_table'[1].miss_addr
  <2>1. CASE operation = 0 /\ response # 0
    <3>1. /\ MSHR_table'[0].mem_tag = response
          /\ MSHR_table'[0].miss_addr = PortLine(in, 0)
          /\ loaded_data[response] = NoContent
      BY <1>1, <1>3, <2>1, MissIsNewOrOld
    <3>2. /\ MSHR_table'[1] = MSHR_table[1] /\ PendingMiss(1)
          /\ loaded_data[MSHR_table[1].mem_tag] \in LineContent
      BY <1>1, <1>3, <2>1, MissIsNewOrOld
    <3>3. ~MissOn(1, PortLine(in, 0))
      BY <2>1, AskedLine
    <3> QED BY <3>1, <3>2, <3>3, ZeroTypes DEF MissOn, PendingMiss
  <2>2. CASE operation = 1 /\ response # 0
    <3>1. /\ MSHR_table'[1].mem_tag = response
          /\ MSHR_table'[1].miss_addr = PortLine(in, 1)
          /\ loaded_data[response] = NoContent
      BY <1>1, <1>3, <2>2, MissIsNewOrOld
    <3>2. /\ MSHR_table'[0] = MSHR_table[0] /\ PendingMiss(0)
          /\ loaded_data[MSHR_table[0].mem_tag] \in LineContent
      BY <1>1, <1>3, <2>2, MissIsNewOrOld
    <3>3. ~MissOn(0, PortLine(in, 1))
      BY <2>2, AskedLine
    <3> QED BY <3>1, <3>2, <3>3, ZeroTypes DEF MissOn, PendingMiss
  <2>3. CASE ~(operation \in 0 .. 1 /\ response # 0)
    <3>1. /\ MSHR_table'[0] = MSHR_table[0] /\ PendingMiss(0)
          /\ MSHR_table'[1] = MSHR_table[1] /\ PendingMiss(1)
      BY <1>1, <1>3, <2>3, MissIsNewOrOld
    <3> QED BY <3>1 DEF PathInv, MissInv
  <2> QED BY <2>1, <2>2, <2>3
<1>4. ASSUME MSHR_table'[0].mem_tag # 0
      PROVE  /\ load_state' # "idle"
             /\ load_state' = "queue" => store_en_prev' /\ StoreLine' = load_line'
  <2>1. /\ load_state' # "idle" /\ load_line' = load_line
        /\ load_state' = "queue" =>
              store_en_prev' /\ StoreLine' = StoreLine /\ StoreLine = load_line
    BY <1>4, LoadWaits
  <2> QED BY <2>1
<1>5. ASSUME MSHR_table'[1].mem_tag # 0
      PROVE  state' = "PROC_STORE"
  <2>1. CASE operation = 1 /\ response # 0
    <3>1. in.store /\ state = "NO_LOAD"
      BY <2>1, AskedLine
    <3>2. load_store_accepted(in, 1)
      BY <2>1, BusAccepts DEF NoPort
    <3> QED BY <1>2, <3>1, <3>2 DEF StateAfter
  <2>2. CASE ~(operation = 1 /\ response # 0)
    <3>1. PendingMiss(1)
      BY <1>1, <1>5, <2>2, MissIsNewOrOld
    <3>2. state = "PROC_STORE" /\ ~store_accepted(in)
      BY <3>1, StoreTaken
    <3> QED BY <1>2, <3>2 DEF StateAfter
  <2> QED BY <2>1, <2>2
<1>6. ASSUME state' = "PROC_STORE"
      PROVE  store_en_prev'
  <2>1. in.store /\ ~store_accepted(in)
    <3>1. CASE state = "PROC_STORE"
      <4>1. ~store_accepted(in)
        BY <1>2, <1>6, <3>1 DEF StateAfter
      <4>2. store_en_prev
        BY <3>1 DEF PathInv, MissInv
      <4> QED BY <4>1, <4>2, InputFacts
    <3>2. CASE state # "PROC_STORE"
      <4>1. ~store_accepted(in)
        BY <3>2 DEF store_accepted
      <4>2. in.store
        BY <1>2, <1>6, <3>2 DEF StateAfter
      <4> QED BY <4>1, <4>2
    <3> QED BY <3>1, <3>2
  <2> QED BY <2>1, OfferGoesOn
<1>7. load_state' # "idle" => execute_data'.rw = "read" /\ ~alu_start'
  BY UnitGoesOn
<1> QED BY <1>3, <1>4, <1>5, <1>6, <1>7 DEF MissInv, PendingMiss

\* What holds of the command that is on the bus after the cycle.
LEMMA BusStep ==
    ASSUME PathInv, NEW in, NEW is_store, NEW flush, NEW response, NEW tag,
           Drives(in, is_store, flush, response, tag), ~flush,
           NEW stalled, NEW issued, NEW group, Steps(in, is_store, flush, stalled, issued, group)
    PROVE  BusInv'
<1>1. Clocked(in, stalled)
  BY DEF Steps
<1>2. state' = StateAfter(in)
  BY <1>1, InputFacts DEF Clocked, DataCacheCycle
<1>3. /\ operation # NoPort => operation' = IF response # 0 THEN NoPort ELSE operation
      /\ operation' # NoPort => miss_outstanding'
  BY <1>1, BusGoesOn
<1>4. ASSUME operation' = 0
      PROVE  /\ load_state' = "queue" /\ MSHR_table'[0].mem_tag = 0
             /\ ~MissOn(1, load_line)' /\ ~InCache(load_line)'
  <2>1. operation \in {0, 3} /\ ~(operation \in 0 .. 1 /\ response # 0)
    BY <1>3, <1>4 DEF NoPort
  <2>2. /\ load_state = "queue" /\ ~PendingMiss(0)
        /\ ~MissOn(1, load_line) /\ ~InCache(load_line)
        /\ ~load_store_accepted(in, 0)
    <3>1. CASE operation = 0
      <4>1. ~load_store_accepted(in, 0)
        BY <2>1, <3>1, BusAccepts DEF NoPort
      <4> QED BY <3>1, <4>1 DEF PathInv, BusInv
    <3>2. CASE operation = 3
      <4>1. /\ load_state = "queue" /\ ~stalled
            /\ ~MissOn(1, load_line) /\ ~InCache(load_line)
            /\ ~load_store_accepted(in, 0)
        BY <1>1, <1>4, <3>2, BusGiven DEF NoPort
      <4>2. ASSUME PendingMiss(0) PROVE FALSE
        <5>1. store_en_prev /\ StoreLine = load_line
          BY <4>1, <4>2 DEF PathInv, MissInv
        <5>2. in.store /\ in.load /\ PortLine(in, 0) = PortLine(in, 2)
          BY <4>1, <5>1, InputFacts, PortLines
        <5>3. Stalls(in) = {TRUE}
          BY <4>1, <5>2 DEF Stalls, StoreActive
        <5> QED BY <1>1, <4>1, <5>3 DEF Clocked
      <4> QED BY <4>1, <4>2
    <3> QED BY <2>1, <3>1, <3>2
  <2>3. load_state' = "queue" /\ load_line' = load_line
    BY <2>2, LoadGoesOn DEF load_accepted
  <2>4. MSHR_table'[0].mem_tag = 0
    BY <1>1, <2>1, <2>2, MissIsNewOrOld
  <2>5. MSHR_table'[1].mem_tag # 0 => MSHR_table'[1] = MSHR_table[1] /\ PendingMiss(1)
    BY <1>1, <2>1, MissIsNewOrOld
  <2>6. ~MissOn(1, load_line)'
    BY <2>2, <2>3, <2>5 DEF MissOn, PendingMiss
  <2>7. ~InCache(load_line)'
    <3>1. PICK l \in Line : l = load_line
      BY PathTypes
    <3>2. \A i \in 0 .. 1 : ~MissOn(i, l)
      BY <2>2, <3>1 DEF MissOn, PendingMiss
    <3>3. ~InCache(l)'
      BY <1>1, <2>2, <3>1, <3>2, StaysOut
    <3> QED BY <2>3, <3>1, <3>3 DEF InCache
  <2> QED BY <2>3, <2>4, <2>6, <2>7
<1>5. ASSUME operation' = 1
      PROVE  /\ state' = "NO_LOAD" /\ store_en_prev'
             /\ ~MissOn(0, StoreLine)' /\ ~InCache(StoreLine)'
  <2>1. operation \in {1, 3} /\ ~(operation \in 0 .. 1 /\ response # 0)
    BY <1>3, <1>5 DEF NoPort
  <2>2. /\ in.store /\ state = "NO_LOAD"
        /\ ~MissOn(0, StoreLine) /\ ~InCache(StoreLine)
        /\ ~load_store_accepted(in, 1)
    <3>1. CASE operation = 1
      <4>1. ~load_store_accepted(in, 1)
        BY <2>1, <3>1, BusAccepts DEF NoPort
      <4> QED BY <3>1, <4>1, InputFacts DEF PathInv, BusInv
    <3>2. CASE operation = 3
      BY <1>1, <1>5, <3>2, BusGiven DEF NoPort
    <3> QED BY <2>1, <3>1, <3>2
  <2>3. ~Hit(in, 1) /\ ~store_accepted(in) /\ ~PendingMiss(1)
    BY <2>2, PortLines DEF store_accepted, PathInv, MissInv
  <2>4. state' = "NO_LOAD"
    BY <1>2, <2>2, <2>3 DEF StateAfter
  <2>5. store_en_prev' /\ StoreLine' = StoreLine
    BY <2>2, <2>3, OfferGoesOn
  <2>6. MSHR_table'[0].mem_tag # 0 => MSHR_table'[0] = MSHR_table[0] /\ PendingMiss(0)
    BY <1>1, <2>1, MissIsNewOrOld
  <2>7. ~MissOn(0, StoreLine)'
    BY <2>2, <2>5, <2>6 DEF MissOn, PendingMiss
  <2>8. ~InCache(StoreLine)'
    <3>1. PICK l \in Line : l = StoreLine
      BY PathTypes
    <3>2. \A i \in 0 .. 1 : ~MissOn(i, l)
      BY <2>2, <2>3, <3>1 DEF MissOn, PendingMiss
    <3>3. ~InCache(l)'
      BY <1>1, <2>2, <3>1, <3>2, StaysOut
    <3> QED BY <2>5, <3>1, <3>3 DEF InCache
  <2> QED BY <2>4, <2>5, <2>7, <2>8
<1>6. ASSUME operation' = 2
      PROVE  /\ state' = "PROC_STORE" /\ InCache(StoreLine)'
             /\ \A j \in 0 .. 1 : ~MissOn(j, StoreLine)'
             /\ dcache_data'[IndexOf[StoreLine']].data = StoredLine'
  <2>1. /\ in.store /\ state = "PROC_STORE" /\ InCache(StoreLine)
        /\ \A j \in 0 .. 1 : ~MissOn(j, StoreLine)
        /\ ~(operation = 2 /\ response # 0)
    BY <1>1, <1>6, WhatPortsWrite
  <2>2. ~store_accepted(in)
    BY <2>1, BusAccepts
  <2>3. /\ store_en_prev' /\ StoreLine' = StoreLine /\ head' = head /\ sq'[head] = sq[head]
    BY <2>1, <2>2, OfferGoesOn
  <2>4. state' = "PROC_STORE"
    BY <1>2, <2>1, <2>2 DEF StateAfter
  <2>5. unified_memory' = unified_memory
    BY <1>1, <2>1, MemoryGoesOn DEF Clocked
  <2>6. StoredLine' = StoredLine
    BY <2>3, <2>5 DEF StoredLine
  <2>7. /\ dcache_data'[IndexOf[StoreLine]].valids
        /\ dcache_data'[IndexOf[StoreLine]].tags = StoreLine
        /\ dcache_data'[IndexOf[StoreLine]].data = StoredLine
    <3>1. IndexOf[StoreLine] \in CacheIndex
      BY PathTypes
    <3> QED BY <1>1, <1>6, <3>1, CacheGoesOn
  <2>8. ASSUME NEW j \in 0 .. 1 PROVE ~MissOn(j, StoreLine)'
    <3>1. ~(operation = j /\ response # 0)
      BY <1>3, <1>6 DEF NoPort
    <3>2. MSHR_table'[j].mem_tag # 0 => MSHR_table'[j] = MSHR_table[j] /\ PendingMiss(j)
      BY <1>1, <3>1, MissIsNewOrOld
    <3> QED BY <2>1, <2>3, <3>2 DEF MissOn, PendingMiss
  <2> QED BY <2>3, <2>4, <2>6, <2>7, <2>8 DEF InCache
<1> QED BY <1>3, <1>4, <1>5, <1>6 DEF BusInv, PendingMiss, StoredLine

\* The cache still holds what memory holds, or the store that is on its way there.
LEMMA CacheStep ==
    ASSUME PathInv, NEW in, NEW is_store, NEW flush, NEW response, NEW tag,
           Drives(in, is_store, flush, response, tag), ~flush,
           NEW stalled, NEW issued, NEW group, Steps(in, is_store, flush, stalled, issued, group)
    PROVE  CacheIsMemory'
<1>1. Clocked(in, stalled)
  BY DEF Steps
<1>2. /\ unified_memory' = IF operation = 2 /\ response # 0
                           THEN [unified_memory EXCEPT ![StoreLine] = StoredLine]
                           ELSE unified_memory
      /\ unified_memory \in [Line -> LineContent] /\ StoreLine \in Line
  BY <1>1, MemoryGoesOn, PathTypes DEF Clocked, StoredLine
<1>3. /\ operation = 2 /\ response # 0 => unified_memory'[StoreLine] = StoredLine
      /\ \A l \in Line : ~(operation = 2 /\ response # 0 /\ l = StoreLine)
                            => unified_memory'[l] = unified_memory[l]
  BY <1>2
<1>4. SUFFICES ASSUME NEW index \in CacheIndex, dcache_data'[index].valids
      PROVE  LET c == dcache_data'[index] IN
             \/ c.data = unified_memory'[c.tags]
             \/ /\ operation' = 2 /\ StoreLine' = c.tags /\ c.data = StoredLine'
  BY DEF CacheIsMemory, StoreLine, StoredLine
<1> DEFINE c == dcache_data'[index]
           d == dcache_data[index]
<1>5. CASE operation' = 2 /\ IndexOf[StoreLine] = index
  <2>1. c.tags = StoreLine /\ c.data = StoredLine
    BY <1>1, <1>5, CacheGoesOn
  <2>2. in.store /\ ~(operation = 2 /\ response # 0)
    BY <1>1, <1>5, WhatPortsWrite
  <2>3. ~store_accepted(in)
    BY <2>2, BusAccepts
  <2>4. StoreLine' = StoreLine /\ head' = head /\ sq'[head] = sq[head]
    BY <2>2, <2>3, OfferGoesOn
  <2>5. unified_memory' = unified_memory
    BY <1>2, <2>2
  <2>6. StoredLine' = StoredLine
    BY <2>4, <2>5 DEF StoredLine
  <2> QED BY <1>5, <2>1, <2>4, <2>6
<1>6. CASE ~(operation' = 2 /\ IndexOf[StoreLine] = index) /\ c = d
  <2>1. d.valids /\ IndexOf[d.tags] = index /\ d.tags \in Line
    BY <1>4, <1>6, PathTypes DEF PathInv, LinesInv
  <2>2. CASE operation = 2 /\ d.tags = StoreLine
    <3>1. response # 0
      BY <1>1, <1>6, <2>1, <2>2, BusGoesOn DEF NoPort
    <3>2. d.data = StoredLine
      BY <2>1, <2>2, StoreTaken
    <3>3. c.data = unified_memory'[c.tags]
      BY <1>3, <1>6, <2>2, <3>1, <3>2
    <3> QED BY <3>3
  <2>3. CASE ~(operation = 2 /\ d.tags = StoreLine)
    <3>1. d.data = unified_memory[d.tags]
      BY <2>1, <2>3 DEF PathInv, CacheIsMemory, StoreLine
    <3>2. c.data = unified_memory'[c.tags]
      BY <1>3, <1>6, <2>1, <2>3, <3>1
    <3> QED BY <3>2
  <2> QED BY <2>2, <2>3
<1>7. CASE \E i \in 0 .. 1 : /\ PendingMiss(i)
                             /\ c.tags = MSHR_table[i].miss_addr
                             /\ c.data = unified_memory[MSHR_table[i].miss_addr]
  <2>1. PICK i \in 0 .. 1 :
           /\ PendingMiss(i)
           /\ c.tags = MSHR_table[i].miss_addr
           /\ c.data = unified_memory[MSHR_table[i].miss_addr]
    BY <1>7
  <2>2. MSHR_table[i].miss_addr \in Line
    BY PathTypes
  <2>3. ~(operation = 2 /\ MSHR_table[i].miss_addr = StoreLine)
    BY <2>1, StoreTaken DEF MissOn, PendingMiss
  <2>4. c.data = unified_memory'[c.tags]
    BY <1>3, <2>1, <2>2, <2>3
  <2> QED BY <2>4
<1>8. \/ operation' = 2 /\ IndexOf[StoreLine] = index
      \/ ~(operation' = 2 /\ IndexOf[StoreLine] = index) /\ c = d
      \/ \E i \in 0 .. 1 : /\ PendingMiss(i)
                          /\ c.tags = MSHR_table[i].miss_addr
                          /\ c.data = unified_memory[MSHR_table[i].miss_addr]
  BY <1>1, CacheGoesOn
<1> QED BY <1>5, <1>6, <1>7, <1>8

\* A pending miss is still for the line of its port, and its line is still current.
LEMMA FillStep ==
    ASSUME PathInv, NEW in, NEW is_store, NEW flush, NEW response, NEW tag,
           Drives(in, is_store, flush, response, tag), ~flush,
           NEW stalled, NEW issued, NEW group, Steps(in, is_store, flush, stalled, issued, group)
    PROVE  FillsAreCurrent'
<1>1. Clocked(in, stalled)
  BY DEF Steps
<1>2. SUFFICES ASSUME NEW i \in 0 .. 1, MSHR_table'[i].mem_tag # 0
      PROVE  LET m == MSHR_table'[i] IN
             /\ m.miss_addr = IF i = 0 THEN load_line' ELSE StoreLine'
             /\ i = 0 => execute_data'.rw = "read"
             /\ i = 1 => store_en_prev'
             /\ loaded_data'[m.mem_tag] = unified_memory'[m.miss_addr]
  BY DEF FillsAreCurrent, load_line, StoreLine
<1> DEFINE m == MSHR_table'[i]
<1>3. m.miss_addr = IF i = 0 THEN load_line ELSE StoreLine
  <2>1. CASE operation = i /\ response # 0
    <3>1. m.miss_addr = PortLine(in, i)
      BY <1>1, <1>2, <2>1, MissIsNewOrOld
    <3> QED BY <2>1, <3>1, AskedLine
  <2>2. CASE ~(operation = i /\ response # 0)
    BY <1>1, <1>2, <2>2, MissIsNewOrOld
  <2> QED BY <2>1, <2>2
<1>4. i = 0 => load_line' = load_line /\ execute_data'.rw = "read"
  BY <1>2, LoadWaits
<1>5. i = 1 => StoreLine' = StoreLine /\ store_en_prev'
  <2>1. SUFFICES ASSUME i = 1 PROVE StoreLine' = StoreLine /\ store_en_prev'
    OBVIOUS
  <2>2. in.store /\ ~store_accepted(in)
    <3>1. CASE operation = 1 /\ response # 0
      BY <3>1, AskedLine, BusAccepts
    <3>2. CASE ~(operation = 1 /\ response # 0)
      <4>1. PendingMiss(1)
        BY <1>1, <1>2, <2>1, <3>2, MissIsNewOrOld
      <4> QED BY <4>1, StoreTaken
    <3> QED BY <3>1, <3>2
  <2> QED BY <2>2, OfferGoesOn
<1>6. loaded_data'[m.mem_tag] = unified_memory'[m.miss_addr]
  <2>1. /\ unified_memory' = IF operation = 2 /\ response # 0
                             THEN [unified_memory EXCEPT ![StoreLine] = StoredLine]
                             ELSE unified_memory
        /\ \A t \in Tag :
              loaded_data'[t] =
                 IF operation \in 0 .. 1 /\ t = response
                 THEN unified_memory[PortLine(in, operation)]
                 ELSE IF t = tag THEN NoContent
                 ELSE loaded_data[t]
        /\ unified_memory \in [Line -> LineContent] /\ StoreLine \in Line
    BY <1>1, MemoryGoesOn, PathTypes DEF Clocked, StoredLine
  <2>2. CASE operation = i /\ response # 0
    <3>1. m.mem_tag = response /\ m.miss_addr = PortLine(in, i) /\ response \in Tag
      BY <1>1, <1>2, <2>2, MissIsNewOrOld
    <3>2. loaded_data'[response] = unified_memory[PortLine(in, i)]
      BY <2>1, <2>2, <3>1
    <3>3. unified_memory' = unified_memory
      BY <2>1, <2>2
    <3> QED BY <3>1, <3>2, <3>3
  <2>3. CASE ~(operation = i /\ response # 0)
    <3>1. /\ m = MSHR_table[i] /\ PendingMiss(i)
          /\ m.mem_tag # tag /\ m.mem_tag \in Tag /\ m.miss_addr \in Line
          /\ loaded_data[m.mem_tag] = unified_memory[m.miss_addr]
          /\ loaded_data[m.mem_tag] \in LineContent
      BY <1>1, <1>2, <2>3, MissIsNewOrOld
    <3>2. m.mem_tag # response
      <4>1. response # 0 => loaded_data[response] = NoContent
        BY InputFacts
      <4> QED BY <1>2, <3>1, <4>1, ZeroTypes
    <3>3. loaded_data'[m.mem_tag] = loaded_data[m.mem_tag]
      BY <2>1, <3>1, <3>2
    <3>4. ~(operation = 2 /\ m.miss_addr = StoreLine)
      BY <3>1, StoreTaken DEF MissOn, PendingMiss
    <3>5. unified_memory'[m.miss_addr] = unified_memory[m.miss_addr]
      BY <2>1, <3>1, <3>4
    <3> QED BY <3>1, <3>3, <3>5
  <2> QED BY <2>2, <2>3
<1> QED BY <1>3, <1>4, <1>5, <1>6

-----------------------------------------------------------------------------
(* The theorems.                                                            *)

\* A cycle leaves the invariant.
LEMMA CycleStep ==
    ASSUME PathInv, NEW in, NEW is_store, NEW flush, NEW response, NEW tag,
           Drives(in, is_store, flush, response, tag),
           NEW stalled, NEW issued, NEW group, Steps(in, is_store, flush, stalled, issued, group)
    PROVE  PathInv'
<1>1. Clocked(in, stalled)
  BY DEF Steps
<1>2. TypeOK /\ flush \in BOOLEAN
  BY CycleFacts DEF PathInv
<1>3. /\ unified_memory' \in [Line -> LineContent]
      /\ loaded_data' \in [Tag -> LineContent \cup {NoContent}]
  BY <1>1, MemoryGoesOn DEF Clocked
<1>4. window' \in Seq(InFlight) /\ Len(window') <= MAX_WINDOW
  <2> DEFINE kept == Kept(in)
             finished == Finished(in, stalled)
  <2>1. /\ finished \in BOOLEAN
        /\ kept = (IF flush THEN 0 ELSE Len(window) - Leaving(store_accepted(in)))
    BY CycleFacts
  <2>2. /\ issued \in {0} \cup IF flush THEN {} ELSE Issuable
        /\ group \in Groups(flush, store_accepted(in), kept)
        /\ WindowCycle(in, finished, issued, group)
    BY DEF Steps
  <2> HIDE DEF kept, finished
  <2> QED BY <2>1, <2>2, WindowGoesOn
<1>5. CASE flush
  <2>1. DataCacheTypeOK' /\ LinesInv' /\ MissInv' /\ BusInv' /\ CacheIsMemory'
        /\ FillsAreCurrent'
    BY <1>5, FlushStep
  <2>2. TypeOK'
    BY <1>3, <1>4, <2>1, QueueTypes, UnitTypes DEF TypeOK, InFlight
  <2> QED BY <2>1, <2>2, RingStep DEF PathInv
<1>6. CASE ~flush
  <2>1. DataCacheTypeOK'
    BY <1>1, <1>6, CacheTypes
  <2>2. TypeOK'
    BY <1>3, <1>4, <2>1, QueueTypes, UnitTypes DEF TypeOK, InFlight
  <2>3. LinesInv'
    BY <1>1, <1>6, LinesStep
  <2>4. MissInv' /\ BusInv' /\ CacheIsMemory' /\ FillsAreCurrent'
    BY <1>6, MissStep, BusStep, CacheStep, FillStep
  <2> QED BY <2>2, <2>3, <2>4, RingStep DEF PathInv
<1> QED BY <1>5, <1>6

\* After the reset nothing is in flight, and neither cache nor controller is busy.
LEMMA PathInit == Init => PathInv
<1> SUFFICES ASSUME Init PROVE PathInv
  OBVIOUS
<1> USE DEF Init, StoreQueueInit, LoadUnitInit, DataCacheInit
<1>1. 0 \in Slot /\ 0 \in 0 .. WAY
  BY DEF Slot
<1>2. window = <<>> /\ Len(window) = 0 /\ DOMAIN window = {}
  OBVIOUS
<1>3. StoreCount(window, Len(window)) = 0
  <2>1. 0 \in Nat
    OBVIOUS
  <2> QED BY <1>2, <2>1, CountNext
<1>4. RingInv
  <2>1. (0 + 0) % SQ_SIZE = 0
    BY <1>1, RingDistance
  <2> QED BY <1>1, <1>2, <1>3, <2>1 DEF RingInv
<1>5. \A i \in 0 .. 1 : ~PendingMiss(i)
  BY DEF PendingMiss, NoMiss
<1>6. \A index \in CacheIndex : ~dcache_data[index].valids
  BY DEF NoLine
<1>7. LinesInv /\ CacheIsMemory /\ FillsAreCurrent
  BY <1>5, <1>6 DEF LinesInv, CacheIsMemory, FillsAreCurrent, PendingMiss
<1>8. MissInv
  BY <1>5 DEF MissInv
<1>9. BusInv
  BY DEF BusInv, NoPort
<1>10. StoreQueueTypeOK
  BY <1>1, ZeroTypes DEF StoreQueueTypeOK
<1>11. LoadUnitTypeOK
  BY ZeroTypes DEF LoadUnitTypeOK, LUNoLoadResult
<1>12. DataCacheTypeOK
  BY ZeroTypes DEF DataCacheTypeOK, NoLine, NoMiss
<1>13. /\ unified_memory \in [Line -> LineContent]
       /\ loaded_data \in [Tag -> LineContent \cup {NoContent}]
  BY ZeroTypes
<1>14. window \in Seq(InFlight) /\ Len(window) <= MAX_WINDOW
  BY <1>2
<1>15. TypeOK
  BY <1>10, <1>11, <1>12, <1>13, <1>14 DEF TypeOK, InFlight
<1> QED BY <1>4, <1>7, <1>8, <1>9, <1>15 DEF PathInv

\* Every step leaves the invariant.
LEMMA PathStep == PathInv /\ [Next]_vars => PathInv'
<1> SUFFICES ASSUME PathInv, [Next]_vars PROVE PathInv'
  OBVIOUS
<1>1. CASE Next
  <2>1. PICK in, is_store, flush, response, tag, stalled, issued, group :
           /\ Drives(in, is_store, flush, response, tag)
           /\ Steps(in, is_store, flush, stalled, issued, group)
    BY <1>1, NextIsCycle
  <2> QED BY <2>1, CycleStep
<1>2. CASE UNCHANGED vars
  <2> USE <1>2 DEF vars, storeQueueVars, loadUnitVars, dataCacheVars
  <2>1. TypeOK'
    BY DEF PathInv, TypeOK, StoreQueueTypeOK, LoadUnitTypeOK, DataCacheTypeOK
  <2>2. RingInv'
    BY DEF PathInv, RingInv, StoreCount, StoresUpTo, Packet
  <2>3. LinesInv' /\ MissInv'
    BY DEF PathInv, LinesInv, MissInv, PendingMiss, InCache, StoreLine, load_line
  <2>4. BusInv'
    BY DEF PathInv, BusInv, PendingMiss, MissOn, InCache, StoreLine, load_line
  <2>5. CacheIsMemory' /\ FillsAreCurrent'
    BY DEF PathInv, CacheIsMemory, FillsAreCurrent
  <2> QED BY <2>1, <2>2, <2>3, <2>4, <2>5 DEF PathInv
<1> QED BY <1>1, <1>2

\* The invariant of the load and store path (sq.sv, fu.sv, dcache.sv, cache_ctrl.sv and
\* mem_ctrl.sv, wired as in p.sv): the ring of the store queue holds the stores in flight
\* in program order, the misses and the command on the bus belong to the load in the unit
\* and to the oldest store, and no line is asked for that the cache has.
THEOREM LoadStoreInvariant == Spec => []PathInv
BY PathInit, PathStep, PTL DEF Spec

\* Every register of the path keeps its type: head and tail stay in the ring
\* (sq.sv:94-138, 189-198), miss tags and operation in their ranges
\* (dcache.sv:134-161, 180-190).
THEOREM LoadStoreTypes == Spec => []TypeOK
<1>1. PathInv => TypeOK
  BY DEF PathInv
<1> QED BY <1>1, LoadStoreInvariant, PTL

\* The data cache holds what memory holds, up to the store whose command is on the bus
\* (dcache.sv:119, 193-199).
THEOREM CacheAgreesWithMemory == Spec => []CacheIsMemory
<1>1. PathInv => CacheIsMemory
  BY DEF PathInv
<1> QED BY <1>1, LoadStoreInvariant, PTL

\* A pending miss is for the line that its port carries, and the line on its way is that
\* of memory: no store overtakes a fill of its line (dcache.sv:82, 182-199).
THEOREM FillsAgreeWithMemory == Spec => []FillsAreCurrent
<1>1. PathInv => FillsAreCurrent
  BY DEF PathInv
<1> QED BY <1>1, LoadStoreInvariant, PTL
=============================================================================
