--------------------------- MODULE MCNotifications ---------------------------
(* Small instances of Notifications for TLC. *)
EXTENDS Notifications, TLC

CONSTANTS r1, r2, r3

\* r1 and r2 have one signature, r3 has none or, untraced, needs none.
MCFingerprint == [r \in Reports |-> IF r = r3 THEN None ELSE "crash"]

\* All reports have one signature.
MCOneFingerprint == [r \in Reports |-> "crash"]

\* One report after the other; with a Window of 1 the third is recent for the second only.
MCCreatedAt == [r \in Reports |-> CASE r = r1 -> 0 [] r = r2 -> 1 [] OTHER -> 2]

MCSymmetry == Permutations(Replicas) \cup Permutations(Issues)
=============================================================================
