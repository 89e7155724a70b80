--------------------------- MODULE MCRemoteFence ----------------------------
(***************************************************************************)
(* Three harts.  Few: hart 0 asks for one page, hart 1 for a range above    *)
(* the flush limit, hart 2 for a page of one address space, so that entries *)
(* are merged in both directions, upgraded, and kept apart, and a fifo of   *)
(* one entry overflows.  Edge: hart 1 asks for the last page, whose end is  *)
(* 0 modulo the width of an address, and hart 2 for start 0, size 0, which  *)
(* stands for everything.                                                   *)
(***************************************************************************)
EXTENDS RemoteFence, TLC

Ask(fn, start, size, asid) ==
    [local_fn |-> fn, start |-> start, size |-> size, asid |-> asid, vmid |-> 0]

Few == (0 :> {Ask("sfence_vma", 2, 2, 0)})
    @@ (1 :> {Ask("sfence_vma", 0, 6, 0)})
    @@ (2 :> {Ask("sfence_vma_asid", 2, 2, 1)})

Edge == (0 :> {Ask("sfence_vma", 0, 2, 0), Ask("sfence_vma", 2, 2, 0)})
     @@ (1 :> {Ask("sfence_vma", 6, 2, 0)})
     @@ (2 :> {Ask("sfence_vma", 0, 0, 0)})

Chosen == (0 :> {{0, 2}}) @@ (1 :> {{0, 2}}) @@ (2 :> {{0, 1}})
=============================================================================
