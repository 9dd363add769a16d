--------------------------- MODULE MCIssueTracking ---------------------------
(* Small instances of IssueTracking for TLC. *)
EXTENDS IssueTracking, TLC

MCSymmetry == Permutations(Reports) \cup Permutations(Issues) \cup Permutations(Maintainers)
                  \cup Permutations(Workers)
=============================================================================
