----------------------------- MODULE MCIngestion -----------------------------
(* Small instances of Ingestion for TLC. *)
EXTENDS Ingestion, TLC

CONSTANT sub1

\* Two manifests with one submission id: the second is what a client sends that reuses the id.
MCSubmissionOf == [m \in Manifests |-> sub1]

MCSymmetry == Permutations(Requests) \cup Permutations(Servers) \cup Permutations(Clients)
                  \cup Permutations(Challenges) \cup Permutations(Manifests)
=============================================================================
