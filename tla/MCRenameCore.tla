---------------------------- MODULE MCRenameCore ----------------------------
(***************************************************************************)
(* Instances of the rename core for TLC.                                    *)
(***************************************************************************)
EXTENDS RenameCore

Op(kind, dest, src, code) ==
    [kind |-> kind, arch_dest_reg |-> dest, arch_src_reg |-> src,
     target_pc |-> 0, code |-> code]

\* Two registers, each written from the other; the branch links.
TwoRegisters == {Op("branch", 1, 2, "NO_ERROR"), Op("int", 2, 1, "NO_ERROR")}

\* One register: a linking branch that overwrites its source, and an instruction
\* without registers that ends the program.
LinkAndHalt == {Op("branch", 1, 1, "NO_ERROR"), Op("int", 0, 0, "HALTED_ON_WFI")}
=============================================================================
