------------------------------ MODULE ReportLog ------------------------------
(* What ingestion promises: a log of accepted manifests, one per submission id, that are published
   once and for all before any client is told that its report was received. *)
CONSTANTS Manifests, Submissions, SubmissionOf

VARIABLES
    accepted,   \* manifests with a report row
    published,  \* manifests whose report is ready
    receipts    \* manifests some client holds a receipt for

vars == <<accepted, published, receipts>>

Init == accepted = {} /\ published = {} /\ receipts = {}

Accept(m) ==
    /\ \A n \in accepted : SubmissionOf[n] # SubmissionOf[m]
    /\ accepted' = accepted \cup {m}
    /\ UNCHANGED <<published, receipts>>

\* The step that publishes a report may also answer the request that took it.
Publish(m) ==
    /\ m \in accepted
    /\ published' = published \cup {m}
    /\ receipts' \in {receipts, receipts \cup {m}}
    /\ UNCHANGED accepted

Answer(m) ==
    /\ m \in published
    /\ receipts' = receipts \cup {m}
    /\ UNCHANGED <<accepted, published>>

Next == \E m \in Manifests : Accept(m) \/ Publish(m) \/ Answer(m)

Spec == Init /\ [][Next]_vars
=============================================================================
