---------------------------- MODULE MCNvIndices -----------------------------
(* Small instances of NvIndices. *)
EXTENDS NvIndices, TLC

CONSTANTS a, b, p

Plain(nt) ==
    [nt |-> nt, size |-> 1,
     orderly |-> FALSE, owner |-> FALSE, policy_delete |-> FALSE, clear_stclear |-> FALSE,
     writedefine |-> FALSE, write_stclear |-> FALSE, read_stclear |-> FALSE, globallock |-> FALSE]

OrderlyCounter == [Plain("counter") EXCEPT !.orderly = TRUE, !.globallock = TRUE]
OwnerCounter   == [Plain("counter") EXCEPT !.owner = TRUE]
LockedOnce     == [Plain("ordinary") EXCEPT !.size = 2, !.writedefine = TRUE, !.write_stclear = TRUE]
Scratch        == [Plain("ordinary") EXCEPT !.orderly = TRUE, !.clear_stclear = TRUE]
SavedBits      == [Plain("bits") EXCEPT !.orderly = TRUE, !.owner = TRUE]
Log            == [Plain("extend") EXCEPT !.clear_stclear = TRUE, !.read_stclear = TRUE]

Kinds == {OrderlyCounter, OwnerCounter, LockedOnce, Scratch, SavedBits, Log}

\* The orderly counter of the owner, which TPM2_Clear deletes.
OwnersOrderlyCounter == {[OrderlyCounter EXCEPT !.owner = TRUE]}

Symmetry == Permutations(Handles)

=============================================================================
