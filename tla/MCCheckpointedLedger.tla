------------------------ MODULE MCCheckpointedLedger ------------------------
EXTENDS CheckpointedLedger

CONSTANTS p1, p2, l1, l2, e1, e2

MCProc == {p1, p2}
MCLedgerId == {l1, l2}
MCOneLedger == {l1}
MCEvent == {e1, e2}

OneLedgerSymmetry == Permutations(MCProc) \cup Permutations(MCEvent)
Symmetry == Permutations(MCProc) \cup Permutations(MCLedgerId) \cup Permutations(MCEvent)
=============================================================================
