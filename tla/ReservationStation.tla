------------------------- MODULE ReservationStation -------------------------
(***************************************************************************)
(* The reservation station of src/verilog/rs.sv with its selector: it holds  *)
(* the instructions that wait for sources and issues those that wait for     *)
(* none.  The place of an instruction in the table matters only to the       *)
(* selector, whose order is unspecified, so the table is a set.  A tag is    *)
(* the ROB index of its producer.                                            *)
(***************************************************************************)
EXTENDS Integers, Sequences, FiniteSets

CONSTANTS
    WAY,        \* width of dispatch and issue
    RS_SIZE     \* entries of the table

VARIABLE rs     \* the entries in use

Lower(a, b) == IF a < b THEN a ELSE b

\* The bits ready are registers: an instruction that the completions of this
\* cycle make ready is issued in the next one.
ready_source == {p \in rs : p.waits = {}}

\* The wires issue, any choice of the ready entries in any order; an entry
\* that a rewind removes in this cycle may be among them.
Issues(issue_empty_slots) ==
    LET num == Lower(issue_empty_slots, Cardinality(ready_source))
    IN {s \in [1 .. num -> ready_source] :
           \A j, k \in 1 .. num : s[j] = s[k] => j = k}

dispatch_empty_slots == Lower(WAY, RS_SIZE - Cardinality(rs))

\* Mutated form of Remaining: what is issued stays.
RemainingWithIssued(issue, rewind, complete) ==
    {[p EXCEPT !.waits = @ \ complete] : p \in {q \in rs : q.rob_index \notin rewind}}

\* The entries left, when the instructions in issue leave, those in rewind
\* are squashed and those in complete have their results.
Remaining(issue, rewind, complete) ==
    {[p EXCEPT !.waits = @ \ complete] :
        p \in {q \in rs : q.rob_index \notin rewind /\ \A k \in DOMAIN issue : issue[k] # q}}

ReservationStationInit == rs = {}
=============================================================================
