------------------------------- MODULE MCRob -------------------------------
(***************************************************************************)
(* Instances of the reorder buffer for TLC.  Registers do not influence the *)
(* control of the ROB: one of each is enough here.                          *)
(***************************************************************************)
EXTENDS Rob

MCInst(kind, target_pc, code) ==
    [kind |-> kind, arch_dest_reg |-> 0, T |-> 0, Told |-> 0,
     target_pc |-> target_pc, code |-> code]

MCInsts ==
    {MCInst("int", 0, "NO_ERROR"), MCInst("store", 0, "NO_ERROR"),
     MCInst("int", 0, "HALTED_ON_WFI")}
=============================================================================
