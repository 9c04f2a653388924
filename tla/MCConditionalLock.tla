------------------------- MODULE MCConditionalLock -------------------------
(* Two readers, one of which upgrades, and one writer. *)
EXTENDS ConditionalLock

CONSTANTS r1, r2, w1

MCLockReaders == {r1, r2}
MCLockWriters == {w1}
MCUpgraders == {r1}
=============================================================================
