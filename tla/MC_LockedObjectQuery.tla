------------------------ MODULE MC_LockedObjectQuery ------------------------
EXTENDS LockedObjectQuery, TLC

CONSTANTS l1, l2, i1, i2

MC_Lockeds == {l1, l2}
MC_Items == {i1, i2}

=============================================================================
