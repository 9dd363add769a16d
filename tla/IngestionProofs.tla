--------------------------- MODULE IngestionProofs ---------------------------
(***************************************************************************)
(* Ingestion's safety properties proved for every number of requests,      *)
(* servers, manifests, challenges and clients, every limit and every kind  *)
(* of failure.  One lemma per part of the inductive invariant, one step of *)
(* it per action.                                                          *)
(***************************************************************************)
EXTENDS Ingestion, FiniteSetTheorems, TLAPS

\* Every step of the specification keeps every variable in its type.
LEMMA TypeStep == TypeOK /\ [Next]_vars => TypeOK'
  <1> SUFFICES ASSUME TypeOK, [Next]_vars PROVE TypeOK'
    OBVIOUS
  <1> USE IngestionAssumption DEF TypeOK, Actors, RequestPc, ServerPc, UploadPc, FinalizePc, DonePc
  <1>1. ASSUME NEW c \in Challenges, NEW m \in Manifests, IssueChallenge(c, m) PROVE TypeOK'
    BY <1>1 DEF IssueChallenge, dbVars, fileVars, sweepVars, inputVars, flowVars
  <1>2. ASSUME NEW r \in Requests, NEW s \in Servers, NEW m \in Manifests, NEW c \in Challenges,
        NEW cl \in Clients, Submit(r, s, m, c, cl)
        PROVE TypeOK'
    BY <1>2 DEF Submit, Go, dbVars, fileVars, sweepVars, inputVars, flowVars
  <1>3. ASSUME NEW c \in Challenges, ExpireChallenge(c) PROVE TypeOK'
    BY <1>3 DEF ExpireChallenge, dbVars, fileVars, sweepVars, inputVars, flowVars
  <1>4. ASSUME NEW r \in Requests, LapseLease(r) PROVE TypeOK'
    BY <1>4 DEF LapseLease, dbVars, fileVars, sweepVars, inputVars, flowVars
  <1>5. ASSUME NEW x \in Actors, Fail(x) PROVE TypeOK'
    BY <1>5 DEF Fail, Go, Return, DropStaging, FaultOf, OwnsReport, dbVars, fileVars, sweepVars, inputVars,
       flowVars
  <1>6. ASSUME NEW r \in Requests, CommitUnacknowledged(r) PROVE TypeOK'
    <2>1. storage' \in [Requests -> {"none", "pending_files",
          "ready"}] /\ chReport' \in [Challenges -> Requests \cup {None}]
      BY <1>6 DEF CommitUnacknowledged, InsertReport
    <2>2. /\ pc' \in [Actors -> RequestPc \cup ServerPc]
          /\ \A q \in Requests : pc'[q] \in RequestPc
          /\ \A s \in Servers : pc'[s] \in ServerPc
      BY <1>6 DEF CommitUnacknowledged, Go
    <2> QED
      BY <1>6, <2>1, <2>2 DEF CommitUnacknowledged, fileVars, sweepVars, inputVars, flowVars
  <1>7. ASSUME NEW r \in Requests, MarkUnacknowledged(r) PROVE TypeOK'
    <2>1. storage' \in [Requests -> {"none", "pending_files", "ready"}]
      BY <1>7 DEF MarkUnacknowledged, SetReady
    <2>2. /\ pc' \in [Actors -> RequestPc \cup ServerPc]
          /\ \A q \in Requests : pc'[q] \in RequestPc
          /\ \A s \in Servers : pc'[s] \in ServerPc
          /\ result' \in [Requests -> Requests \cup {None}]
          /\ doomed' \subseteq Requests
      BY <1>7 DEF MarkUnacknowledged, Return, DropStaging, Go
    <2> QED
      BY <1>7, <2>1, <2>2 DEF MarkUnacknowledged, dbVars, fileVars, sweepVars, inputVars, flowVars
  <1>8. ASSUME NEW r \in Requests, Disconnect(r) PROVE TypeOK'
    BY <1>8 DEF Disconnect, Go, OwnsReport, LeaseAvailable, dbVars, fileVars, sweepVars, inputVars, flowVars
  <1>9. ASSUME NEW r \in Requests, RemovalFails(r) PROVE TypeOK'
    BY <1>9 DEF RemovalFails, dbVars, fileVars, sweepVars, inputVars, flowVars
  <1>10. ASSUME NEW s \in Servers, Crash(s) PROVE TypeOK'
    BY <1>10 DEF Crash, dbVars, fileVars, sweepVars, inputVars, flowVars
  <1>11. ASSUME SweepExpired PROVE TypeOK'
    BY <1>11 DEF SweepExpired, MaintenanceRuns, dbVars, fileVars, sweepVars, inputVars, flowVars
  <1>12. ASSUME NEW r \in Requests, FindReceipt(r) PROVE TypeOK'
    BY <1>12 DEF FindReceipt, Go, RowsOf, Referenced, dbVars, fileVars, sweepVars, inputVars, flowVars
  <1>13. ASSUME NEW r \in Requests, BeginStaging(r) PROVE TypeOK'
    BY <1>13 DEF BeginStaging, Go, dbVars, fileVars, sweepVars, inputVars, flowVars
  <1>14. ASSUME NEW r \in Requests, AcquireLease(r) PROVE TypeOK'
    BY <1>14 DEF AcquireLease, Go, dbVars, fileVars, sweepVars, inputVars, flowVars
  <1>15. ASSUME NEW r \in Requests, AcceptReport(r) PROVE TypeOK'
    BY <1>15 DEF AcceptReport, Go, InsertReport, dbVars, fileVars, sweepVars, inputVars, flowVars
  <1>16. ASSUME NEW r \in Requests, ReadReceipt(r) PROVE TypeOK'
    BY <1>16 DEF ReadReceipt, Go, RowsOf, Referenced, dbVars, fileVars, sweepVars, inputVars, flowVars
  <1>17. ASSUME NEW r \in Requests, DiscardUpload(r) PROVE TypeOK'
    BY <1>17 DEF DiscardUpload, StartRemoval, Go, dbVars, fileVars, sweepVars, inputVars, flowVars
  <1>18. ASSUME NEW x \in Actors, Finalize(x) PROVE TypeOK'
    BY <1>18 DEF Finalize, Return, DropStaging, Go, OwnsReport, dbVars, fileVars, sweepVars, inputVars, flowVars
  <1>19. ASSUME NEW x \in Actors, Rename(x) PROVE TypeOK'
    BY <1>19 DEF Rename, MoveDirectory, Return, DropStaging, Go, OwnsReport, dbVars, fileVars, sweepVars,
       inputVars, flowVars
  <1>20. ASSUME NEW x \in Actors, MarkReady(x) PROVE TypeOK'
    BY <1>20 DEF MarkReady, SetReady, Return, DropStaging, Go, OwnsReport, dbVars, fileVars, sweepVars,
       inputVars, flowVars
  <1>21. ASSUME NEW r \in Requests, Release(r) PROVE TypeOK'
    BY <1>21 DEF Release, ReleaseLease, Go, dbVars, fileVars, sweepVars, inputVars, flowVars
  <1>22. ASSUME NEW r \in Requests, Abandon(r) PROVE TypeOK'
    BY <1>22 DEF Abandon, StartRemoval, Go, OwnsReport, dbVars, fileVars, sweepVars, inputVars, flowVars
  <1>23. ASSUME NEW r \in Requests, RunDrop(r) PROVE TypeOK'
    BY <1>23 DEF RunDrop, StartRemoval, dbVars, fileVars, sweepVars, inputVars, flowVars
  <1>24. ASSUME NEW r \in Requests, RemoveDirectory(r) PROVE TypeOK'
    BY <1>24 DEF RemoveDirectory, dbVars, fileVars, sweepVars, inputVars, flowVars
  <1>25. ASSUME NEW r \in Requests, RunDetached(r) PROVE TypeOK'
    BY <1>25 DEF RunDetached, MoveDirectory, dbVars, fileVars, sweepVars, inputVars, flowVars
  <1>26. ASSUME NEW r \in Requests, ReleaseDropped(r) PROVE TypeOK'
    BY <1>26 DEF ReleaseDropped, ReleaseLease, dbVars, fileVars, sweepVars, inputVars, flowVars
  <1>27. ASSUME NEW r \in Requests, SweepList(r) PROVE TypeOK'
    BY <1>27 DEF SweepList, MaintenanceRuns, dbVars, fileVars, sweepVars, inputVars, flowVars
  <1>28. ASSUME NEW r \in Requests, SweepCheck(r) PROVE TypeOK'
    BY <1>28 DEF SweepCheck, MaintenanceRuns, dbVars, fileVars, sweepVars, inputVars, flowVars
  <1>29. ASSUME NEW r \in Requests, SweepRemove(r) PROVE TypeOK'
    BY <1>29 DEF SweepRemove, StartRemoval, MaintenanceRuns, dbVars, fileVars, sweepVars, inputVars, flowVars
  <1>30. ASSUME NEW s \in Servers, StartServer(s) PROVE TypeOK'
    BY <1>30 DEF StartServer, Go, Pending, dbVars, fileVars, sweepVars, inputVars, flowVars
  <1>31. ASSUME NEW s \in Servers, RecoverNext(s) PROVE TypeOK'
    BY <1>31 DEF RecoverNext, Go, dbVars, fileVars, sweepVars, inputVars, flowVars
  <1>32. CASE UNCHANGED vars
    BY <1>32 DEF vars, dbVars, fileVars, sweepVars, inputVars, flowVars
  <1> QED
    BY <1>1, <1>2, <1>3, <1>4, <1>5, <1>6, <1>7, <1>8, <1>9, <1>10, <1>11, <1>12, <1>13, <1>14, <1>15, <1>16,
       <1>17, <1>18, <1>19, <1>20, <1>21, <1>22, <1>23, <1>24, <1>25, <1>26, <1>27, <1>28, <1>29, <1>30, <1>31,
       <1>32 DEF Next, ClientStep, TimeStep, FaultStep, RequestStep, TaskStep, SweepStep, ServerStep

\* Every step respects the order of a request's steps: inputs first, a lease before the upload, a
\* report only from the commit on.
LEMMA FlowStep == IngestionInv /\ TypeOK' /\ [Next]_vars => FlowInv'
  <1> SUFFICES ASSUME IngestionInv, TypeOK', [Next]_vars PROVE FlowInv'
    OBVIOUS
  <1> USE IngestionAssumption DEF Actors, RequestPc, ServerPc, UploadPc, FinalizePc, DonePc, Referenced,
      IngestionInv, TypeOK, FlowInv
  <1>1. ASSUME NEW c \in Challenges, NEW m \in Manifests, IssueChallenge(c, m) PROVE FlowInv'
    BY <1>1 DEF IssueChallenge, dbVars, fileVars, sweepVars, inputVars, flowVars
  <1>2. ASSUME NEW r \in Requests, NEW s \in Servers, NEW m \in Manifests, NEW c \in Challenges,
        NEW cl \in Clients, Submit(r, s, m, c, cl)
        PROVE FlowInv'
    BY <1>2 DEF Submit, Go, dbVars, fileVars, sweepVars, inputVars, flowVars
  <1>3. ASSUME NEW c \in Challenges, ExpireChallenge(c) PROVE FlowInv'
    BY <1>3 DEF ExpireChallenge, dbVars, fileVars, sweepVars, inputVars, flowVars
  <1>4. ASSUME NEW r \in Requests, LapseLease(r) PROVE FlowInv'
    BY <1>4 DEF LapseLease, dbVars, fileVars, sweepVars, inputVars, flowVars
  <1>5. ASSUME NEW x \in Actors, Fail(x) PROVE FlowInv'
    BY <1>5 DEF Fail, Go, Return, DropStaging, FaultOf, OwnsReport, dbVars, fileVars, sweepVars, inputVars,
       flowVars
  <1>6. ASSUME NEW r \in Requests, CommitUnacknowledged(r) PROVE FlowInv'
    BY <1>6 DEF CommitUnacknowledged, InsertReport, Go, ChallengeValid, RowsOf, dbVars, fileVars, sweepVars,
       inputVars, flowVars
  <1>7. ASSUME NEW r \in Requests, MarkUnacknowledged(r) PROVE FlowInv'
    BY <1>7 DEF MarkUnacknowledged, SetReady, Return, DropStaging, Go, FaultOf, OwnsReport, dbVars, fileVars,
       sweepVars, inputVars, flowVars
  <1>8. ASSUME NEW r \in Requests, Disconnect(r) PROVE FlowInv'
    BY <1>8 DEF Disconnect, Go, OwnsReport, LeaseAvailable, dbVars, fileVars, sweepVars, inputVars, flowVars
  <1>9. ASSUME NEW r \in Requests, RemovalFails(r) PROVE FlowInv'
    BY <1>9 DEF RemovalFails, dbVars, fileVars, sweepVars, inputVars, flowVars
  <1>10. ASSUME NEW s \in Servers, Crash(s) PROVE FlowInv'
    BY <1>10 DEF Crash, dbVars, fileVars, sweepVars, inputVars, flowVars
  <1>11. ASSUME SweepExpired PROVE FlowInv'
    BY <1>11 DEF SweepExpired, MaintenanceRuns, dbVars, fileVars, sweepVars, inputVars, flowVars
  <1>12. ASSUME NEW r \in Requests, FindReceipt(r) PROVE FlowInv'
    BY <1>12 DEF FindReceipt, Go, RowsOf, dbVars, fileVars, sweepVars, inputVars, flowVars
  <1>13. ASSUME NEW r \in Requests, BeginStaging(r) PROVE FlowInv'
    BY <1>13 DEF BeginStaging, Go, dbVars, fileVars, sweepVars, inputVars, flowVars
  <1>14. ASSUME NEW r \in Requests, AcquireLease(r) PROVE FlowInv'
    BY <1>14 DEF AcquireLease, Go, dbVars, fileVars, sweepVars, inputVars, flowVars
  <1>15. ASSUME NEW r \in Requests, AcceptReport(r) PROVE FlowInv'
    BY <1>15 DEF AcceptReport, Go, InsertReport, ChallengeValid, RowsOf, dbVars, fileVars, sweepVars, inputVars,
       flowVars
  <1>16. ASSUME NEW r \in Requests, ReadReceipt(r) PROVE FlowInv'
    BY <1>16 DEF ReadReceipt, Go, RowsOf, dbVars, fileVars, sweepVars, inputVars, flowVars
  <1>17. ASSUME NEW r \in Requests, DiscardUpload(r) PROVE FlowInv'
    BY <1>17 DEF DiscardUpload, StartRemoval, Go, dbVars, fileVars, sweepVars, inputVars, flowVars
  <1>18. ASSUME NEW x \in Actors, Finalize(x) PROVE FlowInv'
    BY <1>18 DEF Finalize, Return, DropStaging, Go, OwnsReport, dbVars, fileVars, sweepVars, inputVars, flowVars
  <1>19. ASSUME NEW x \in Actors, Rename(x) PROVE FlowInv'
    BY <1>19 DEF Rename, MoveDirectory, Return, DropStaging, Go, OwnsReport, dbVars, fileVars, sweepVars,
       inputVars, flowVars
  <1>20. ASSUME NEW x \in Actors, MarkReady(x) PROVE FlowInv'
    BY <1>20 DEF MarkReady, SetReady, Return, DropStaging, Go, OwnsReport, dbVars, fileVars, sweepVars,
       inputVars, flowVars
  <1>21. ASSUME NEW r \in Requests, Release(r) PROVE FlowInv'
    BY <1>21 DEF Release, ReleaseLease, Go, dbVars, fileVars, sweepVars, inputVars, flowVars
  <1>22. ASSUME NEW r \in Requests, Abandon(r) PROVE FlowInv'
    BY <1>22 DEF Abandon, StartRemoval, Go, OwnsReport, dbVars, fileVars, sweepVars, inputVars, flowVars
  <1>23. ASSUME NEW r \in Requests, RunDrop(r) PROVE FlowInv'
    BY <1>23 DEF RunDrop, StartRemoval, dbVars, fileVars, sweepVars, inputVars, flowVars
  <1>24. ASSUME NEW r \in Requests, RemoveDirectory(r) PROVE FlowInv'
    BY <1>24 DEF RemoveDirectory, dbVars, fileVars, sweepVars, inputVars, flowVars
  <1>25. ASSUME NEW r \in Requests, RunDetached(r) PROVE FlowInv'
    BY <1>25 DEF RunDetached, MoveDirectory, dbVars, fileVars, sweepVars, inputVars, flowVars
  <1>26. ASSUME NEW r \in Requests, ReleaseDropped(r) PROVE FlowInv'
    BY <1>26 DEF ReleaseDropped, ReleaseLease, dbVars, fileVars, sweepVars, inputVars, flowVars
  <1>27. ASSUME NEW r \in Requests, SweepList(r) PROVE FlowInv'
    BY <1>27 DEF SweepList, MaintenanceRuns, dbVars, fileVars, sweepVars, inputVars, flowVars
  <1>28. ASSUME NEW r \in Requests, SweepCheck(r) PROVE FlowInv'
    BY <1>28 DEF SweepCheck, MaintenanceRuns, dbVars, fileVars, sweepVars, inputVars, flowVars
  <1>29. ASSUME NEW r \in Requests, SweepRemove(r) PROVE FlowInv'
    BY <1>29 DEF SweepRemove, StartRemoval, MaintenanceRuns, dbVars, fileVars, sweepVars, inputVars, flowVars
  <1>30. ASSUME NEW s \in Servers, StartServer(s) PROVE FlowInv'
    BY <1>30 DEF StartServer, Go, Pending, dbVars, fileVars, sweepVars, inputVars, flowVars
  <1>31. ASSUME NEW s \in Servers, RecoverNext(s) PROVE FlowInv'
    BY <1>31 DEF RecoverNext, Go, dbVars, fileVars, sweepVars, inputVars, flowVars
  <1>32. CASE UNCHANGED vars
    BY <1>32 DEF vars, dbVars, fileVars, sweepVars, inputVars, flowVars
  <1> QED
    BY <1>1, <1>2, <1>3, <1>4, <1>5, <1>6, <1>7, <1>8, <1>9, <1>10, <1>11, <1>12, <1>13, <1>14, <1>15, <1>16,
       <1>17, <1>18, <1>19, <1>20, <1>21, <1>22, <1>23, <1>24, <1>25, <1>26, <1>27, <1>28, <1>29, <1>30, <1>31,
       <1>32 DEF Next, ClientStep, TimeStep, FaultStep, RequestStep, TaskStep, SweepStep, ServerStep

\* No step gives a submission id a second report, or a report a challenge that is not its own.
LEMMA OneReportStep == IngestionInv /\ TypeOK' /\ [Next]_vars => OneReportPerSubmission'
  <1> SUFFICES ASSUME IngestionInv, TypeOK', [Next]_vars PROVE OneReportPerSubmission'
    OBVIOUS
  <1> USE IngestionAssumption DEF Actors, RequestPc, ServerPc, UploadPc, FinalizePc, DonePc, Referenced,
      IngestionInv, TypeOK, FlowInv, OneReportPerSubmission
  <1>1. ASSUME NEW c \in Challenges, NEW m \in Manifests, IssueChallenge(c, m) PROVE OneReportPerSubmission'
    BY <1>1 DEF IssueChallenge, dbVars, fileVars, sweepVars, inputVars, flowVars
  <1>2. ASSUME NEW r \in Requests, NEW s \in Servers, NEW m \in Manifests, NEW c \in Challenges,
        NEW cl \in Clients, Submit(r, s, m, c, cl)
        PROVE OneReportPerSubmission'
    BY <1>2 DEF Submit, Go, dbVars, fileVars, sweepVars, inputVars, flowVars
  <1>3. ASSUME NEW c \in Challenges, ExpireChallenge(c) PROVE OneReportPerSubmission'
    BY <1>3 DEF ExpireChallenge, dbVars, fileVars, sweepVars, inputVars, flowVars
  <1>4. ASSUME NEW r \in Requests, LapseLease(r) PROVE OneReportPerSubmission'
    BY <1>4 DEF LapseLease, dbVars, fileVars, sweepVars, inputVars, flowVars
  <1>5. ASSUME NEW x \in Actors, Fail(x) PROVE OneReportPerSubmission'
    BY <1>5 DEF Fail, Go, Return, DropStaging, FaultOf, OwnsReport, dbVars, fileVars, sweepVars, inputVars,
       flowVars
  <1>6. ASSUME NEW r \in Requests, CommitUnacknowledged(r) PROVE OneReportPerSubmission'
    BY <1>6 DEF CommitUnacknowledged, InsertReport, Go, ChallengeValid, RowsOf, dbVars, fileVars, sweepVars,
       inputVars, flowVars
  <1>7. ASSUME NEW r \in Requests, MarkUnacknowledged(r) PROVE OneReportPerSubmission'
    BY <1>7 DEF MarkUnacknowledged, SetReady, Return, DropStaging, Go, FaultOf, OwnsReport, dbVars, fileVars,
       sweepVars, inputVars, flowVars
  <1>8. ASSUME NEW r \in Requests, Disconnect(r) PROVE OneReportPerSubmission'
    BY <1>8 DEF Disconnect, Go, OwnsReport, LeaseAvailable, dbVars, fileVars, sweepVars, inputVars, flowVars
  <1>9. ASSUME NEW r \in Requests, RemovalFails(r) PROVE OneReportPerSubmission'
    BY <1>9 DEF RemovalFails, dbVars, fileVars, sweepVars, inputVars, flowVars
  <1>10. ASSUME NEW s \in Servers, Crash(s) PROVE OneReportPerSubmission'
    BY <1>10 DEF Crash, dbVars, fileVars, sweepVars, inputVars, flowVars
  <1>11. ASSUME SweepExpired PROVE OneReportPerSubmission'
    BY <1>11 DEF SweepExpired, MaintenanceRuns, dbVars, fileVars, sweepVars, inputVars, flowVars
  <1>12. ASSUME NEW r \in Requests, FindReceipt(r) PROVE OneReportPerSubmission'
    BY <1>12 DEF FindReceipt, Go, RowsOf, dbVars, fileVars, sweepVars, inputVars, flowVars
  <1>13. ASSUME NEW r \in Requests, BeginStaging(r) PROVE OneReportPerSubmission'
    BY <1>13 DEF BeginStaging, Go, dbVars, fileVars, sweepVars, inputVars, flowVars
  <1>14. ASSUME NEW r \in Requests, AcquireLease(r) PROVE OneReportPerSubmission'
    BY <1>14 DEF AcquireLease, Go, dbVars, fileVars, sweepVars, inputVars, flowVars
  <1>15. ASSUME NEW r \in Requests, AcceptReport(r) PROVE OneReportPerSubmission'
    BY <1>15 DEF AcceptReport, Go, InsertReport, ChallengeValid, RowsOf, dbVars, fileVars, sweepVars, inputVars,
       flowVars
  <1>16. ASSUME NEW r \in Requests, ReadReceipt(r) PROVE OneReportPerSubmission'
    BY <1>16 DEF ReadReceipt, Go, RowsOf, dbVars, fileVars, sweepVars, inputVars, flowVars
  <1>17. ASSUME NEW r \in Requests, DiscardUpload(r) PROVE OneReportPerSubmission'
    BY <1>17 DEF DiscardUpload, StartRemoval, Go, dbVars, fileVars, sweepVars, inputVars, flowVars
  <1>18. ASSUME NEW x \in Actors, Finalize(x) PROVE OneReportPerSubmission'
    BY <1>18 DEF Finalize, Return, DropStaging, Go, OwnsReport, dbVars, fileVars, sweepVars, inputVars, flowVars
  <1>19. ASSUME NEW x \in Actors, Rename(x) PROVE OneReportPerSubmission'
    BY <1>19 DEF Rename, MoveDirectory, Return, DropStaging, Go, OwnsReport, dbVars, fileVars, sweepVars,
       inputVars, flowVars
  <1>20. ASSUME NEW x \in Actors, MarkReady(x) PROVE OneReportPerSubmission'
    BY <1>20 DEF MarkReady, SetReady, Return, DropStaging, Go, OwnsReport, dbVars, fileVars, sweepVars,
       inputVars, flowVars
  <1>21. ASSUME NEW r \in Requests, Release(r) PROVE OneReportPerSubmission'
    BY <1>21 DEF Release, ReleaseLease, Go, dbVars, fileVars, sweepVars, inputVars, flowVars
  <1>22. ASSUME NEW r \in Requests, Abandon(r) PROVE OneReportPerSubmission'
    BY <1>22 DEF Abandon, StartRemoval, Go, OwnsReport, dbVars, fileVars, sweepVars, inputVars, flowVars
  <1>23. ASSUME NEW r \in Requests, RunDrop(r) PROVE OneReportPerSubmission'
    BY <1>23 DEF RunDrop, StartRemoval, dbVars, fileVars, sweepVars, inputVars, flowVars
  <1>24. ASSUME NEW r \in Requests, RemoveDirectory(r) PROVE OneReportPerSubmission'
    BY <1>24 DEF RemoveDirectory, dbVars, fileVars, sweepVars, inputVars, flowVars
  <1>25. ASSUME NEW r \in Requests, RunDetached(r) PROVE OneReportPerSubmission'
    BY <1>25 DEF RunDetached, MoveDirectory, dbVars, fileVars, sweepVars, inputVars, flowVars
  <1>26. ASSUME NEW r \in Requests, ReleaseDropped(r) PROVE OneReportPerSubmission'
    BY <1>26 DEF ReleaseDropped, ReleaseLease, dbVars, fileVars, sweepVars, inputVars, flowVars
  <1>27. ASSUME NEW r \in Requests, SweepList(r) PROVE OneReportPerSubmission'
    BY <1>27 DEF SweepList, MaintenanceRuns, dbVars, fileVars, sweepVars, inputVars, flowVars
  <1>28. ASSUME NEW r \in Requests, SweepCheck(r) PROVE OneReportPerSubmission'
    BY <1>28 DEF SweepCheck, MaintenanceRuns, dbVars, fileVars, sweepVars, inputVars, flowVars
  <1>29. ASSUME NEW r \in Requests, SweepRemove(r) PROVE OneReportPerSubmission'
    BY <1>29 DEF SweepRemove, StartRemoval, MaintenanceRuns, dbVars, fileVars, sweepVars, inputVars, flowVars
  <1>30. ASSUME NEW s \in Servers, StartServer(s) PROVE OneReportPerSubmission'
    BY <1>30 DEF StartServer, Go, Pending, dbVars, fileVars, sweepVars, inputVars, flowVars
  <1>31. ASSUME NEW s \in Servers, RecoverNext(s) PROVE OneReportPerSubmission'
    BY <1>31 DEF RecoverNext, Go, dbVars, fileVars, sweepVars, inputVars, flowVars
  <1>32. CASE UNCHANGED vars
    BY <1>32 DEF vars, dbVars, fileVars, sweepVars, inputVars, flowVars
  <1> QED
    BY <1>1, <1>2, <1>3, <1>4, <1>5, <1>6, <1>7, <1>8, <1>9, <1>10, <1>11, <1>12, <1>13, <1>14, <1>15, <1>16,
       <1>17, <1>18, <1>19, <1>20, <1>21, <1>22, <1>23, <1>24, <1>25, <1>26, <1>27, <1>28, <1>29, <1>30, <1>31,
       <1>32 DEF Next, ClientStep, TimeStep, FaultStep, RequestStep, TaskStep, SweepStep, ServerStep

\* Whoever finishes a report keeps finishing an existing one, made from its own manifest.
LEMMA TargetStep == IngestionInv /\ TypeOK' /\ [Next]_vars => TargetInv'
  <1> SUFFICES ASSUME IngestionInv, TypeOK', [Next]_vars PROVE TargetInv'
    OBVIOUS
  <1> USE IngestionAssumption DEF Actors, RequestPc, ServerPc, UploadPc, FinalizePc, DonePc, Referenced,
      IngestionInv, TypeOK, FlowInv, OneReportPerSubmission, TargetInv, ReportDirectoriesOwned
  <1>1. ASSUME NEW c \in Challenges, NEW m \in Manifests, IssueChallenge(c, m) PROVE TargetInv'
    BY <1>1 DEF IssueChallenge, dbVars, fileVars, sweepVars, inputVars, flowVars
  <1>2. ASSUME NEW r \in Requests, NEW s \in Servers, NEW m \in Manifests, NEW c \in Challenges,
        NEW cl \in Clients, Submit(r, s, m, c, cl)
        PROVE TargetInv'
    <2>1. \A x \in Actors : pc'[x] \in FinalizePc => target'[x] \in Referenced'
      BY <1>2 DEF Submit, Go, dbVars, fileVars, sweepVars, inputVars, flowVars
    <2>2. \A x \in Actors : pc'[x] = "mark" => target'[x] \in reportDirs'
      BY <1>2 DEF Submit, Go, dbVars, fileVars, sweepVars, inputVars, flowVars
    <2>3. \A q \in Requests : pc'[q] \in FinalizePc => manifest'[target'[q]] = manifest'[q]
      BY <1>2 DEF Submit, Go, dbVars, fileVars, sweepVars, inputVars, flowVars
    <2>4. \A q \in detached' : target'[q] \in Referenced'
      BY <1>2 DEF Submit, Go, dbVars, fileVars, sweepVars, inputVars, flowVars
    <2>5. \A t \in Servers : todo'[t] \subseteq Referenced'
      BY <1>2 DEF Submit, Go, dbVars, fileVars, sweepVars, inputVars, flowVars
    <2>6. \A q \in Requests : pc'[q] = "discard" => target'[q] \in Referenced' /\ manifest'[target'[q]] = manifest'[q]
      BY <1>2 DEF Submit, Go, dbVars, fileVars, sweepVars, inputVars, flowVars
    <2>7. \A q \in Requests : pc'[q] = "existing" => \E u \in Referenced' : manifest'[u] = manifest'[q]
      BY <1>2 DEF Submit, Go, dbVars, fileVars, sweepVars, inputVars, flowVars
    <2> QED
      BY <2>1, <2>2, <2>3, <2>4, <2>5, <2>6, <2>7
  <1>3. ASSUME NEW c \in Challenges, ExpireChallenge(c) PROVE TargetInv'
    BY <1>3 DEF ExpireChallenge, dbVars, fileVars, sweepVars, inputVars, flowVars
  <1>4. ASSUME NEW r \in Requests, LapseLease(r) PROVE TargetInv'
    BY <1>4 DEF LapseLease, dbVars, fileVars, sweepVars, inputVars, flowVars
  <1>5. ASSUME NEW x \in Actors, Fail(x) PROVE TargetInv'
    BY <1>5 DEF Fail, Go, Return, DropStaging, FaultOf, OwnsReport, dbVars, fileVars, sweepVars, inputVars,
       flowVars
  <1>6. ASSUME NEW r \in Requests, CommitUnacknowledged(r) PROVE TargetInv'
    BY <1>6 DEF CommitUnacknowledged, InsertReport, Go, ChallengeValid, RowsOf, dbVars, fileVars, sweepVars,
       inputVars, flowVars
  <1>7. ASSUME NEW r \in Requests, MarkUnacknowledged(r) PROVE TargetInv'
    BY <1>7 DEF MarkUnacknowledged, SetReady, Return, DropStaging, Go, FaultOf, OwnsReport, dbVars, fileVars,
       sweepVars, inputVars, flowVars
  <1>8. ASSUME NEW r \in Requests, Disconnect(r) PROVE TargetInv'
    BY <1>8 DEF Disconnect, Go, OwnsReport, LeaseAvailable, dbVars, fileVars, sweepVars, inputVars, flowVars
  <1>9. ASSUME NEW r \in Requests, RemovalFails(r) PROVE TargetInv'
    BY <1>9 DEF RemovalFails, dbVars, fileVars, sweepVars, inputVars, flowVars
  <1>10. ASSUME NEW s \in Servers, Crash(s) PROVE TargetInv'
    BY <1>10 DEF Crash, dbVars, fileVars, sweepVars, inputVars, flowVars
  <1>11. ASSUME SweepExpired PROVE TargetInv'
    BY <1>11 DEF SweepExpired, MaintenanceRuns, dbVars, fileVars, sweepVars, inputVars, flowVars
  <1>12. ASSUME NEW r \in Requests, FindReceipt(r) PROVE TargetInv'
    <2>1. \A x \in Actors : pc'[x] \in FinalizePc => target'[x] \in Referenced'
      BY <1>12 DEF FindReceipt, Go, RowsOf, dbVars, fileVars, sweepVars, inputVars, flowVars
    <2>2. \A x \in Actors : pc'[x] = "mark" => target'[x] \in reportDirs'
      BY <1>12 DEF FindReceipt, Go, RowsOf, dbVars, fileVars, sweepVars, inputVars, flowVars
    <2>3. \A q \in Requests : pc'[q] \in FinalizePc => manifest'[target'[q]] = manifest'[q]
      BY <1>12 DEF FindReceipt, Go, RowsOf, dbVars, fileVars, sweepVars, inputVars, flowVars
    <2>4. \A q \in detached' : target'[q] \in Referenced'
      BY <1>12 DEF FindReceipt, Go, RowsOf, dbVars, fileVars, sweepVars, inputVars, flowVars
    <2>5. \A t \in Servers : todo'[t] \subseteq Referenced'
      BY <1>12 DEF FindReceipt, Go, RowsOf, dbVars, fileVars, sweepVars, inputVars, flowVars
    <2>6. \A q \in Requests : pc'[q] = "discard" => target'[q] \in Referenced' /\ manifest'[target'[q]] = manifest'[q]
      BY <1>12 DEF FindReceipt, Go, RowsOf, dbVars, fileVars, sweepVars, inputVars, flowVars
    <2>7. \A q \in Requests : pc'[q] = "existing" => \E u \in Referenced' : manifest'[u] = manifest'[q]
      BY <1>12 DEF FindReceipt, Go, RowsOf, dbVars, fileVars, sweepVars, inputVars, flowVars
    <2> QED
      BY <2>1, <2>2, <2>3, <2>4, <2>5, <2>6, <2>7
  <1>13. ASSUME NEW r \in Requests, BeginStaging(r) PROVE TargetInv'
    BY <1>13 DEF BeginStaging, Go, dbVars, fileVars, sweepVars, inputVars, flowVars
  <1>14. ASSUME NEW r \in Requests, AcquireLease(r) PROVE TargetInv'
    BY <1>14 DEF AcquireLease, Go, dbVars, fileVars, sweepVars, inputVars, flowVars
  <1>15. ASSUME NEW r \in Requests, AcceptReport(r) PROVE TargetInv'
    <2>1. \A x \in Actors : pc'[x] \in FinalizePc => target'[x] \in Referenced'
      BY <1>15 DEF AcceptReport, Go, InsertReport, ChallengeValid, RowsOf, dbVars, fileVars, sweepVars,
         inputVars, flowVars
    <2>2. \A x \in Actors : pc'[x] = "mark" => target'[x] \in reportDirs'
      BY <1>15 DEF AcceptReport, Go, InsertReport, ChallengeValid, RowsOf, dbVars, fileVars, sweepVars,
         inputVars, flowVars
    <2>3. \A q \in Requests : pc'[q] \in FinalizePc => manifest'[target'[q]] = manifest'[q]
      BY <1>15 DEF AcceptReport, Go, InsertReport, ChallengeValid, RowsOf, dbVars, fileVars, sweepVars,
         inputVars, flowVars
    <2>4. \A q \in detached' : target'[q] \in Referenced'
      BY <1>15 DEF AcceptReport, Go, InsertReport, ChallengeValid, RowsOf, dbVars, fileVars, sweepVars,
         inputVars, flowVars
    <2>5. \A t \in Servers : todo'[t] \subseteq Referenced'
      BY <1>15 DEF AcceptReport, Go, InsertReport, ChallengeValid, RowsOf, dbVars, fileVars, sweepVars,
         inputVars, flowVars
    <2>6. \A q \in Requests : pc'[q] = "discard" => target'[q] \in Referenced' /\ manifest'[target'[q]] = manifest'[q]
      BY <1>15 DEF AcceptReport, Go, InsertReport, ChallengeValid, RowsOf, dbVars, fileVars, sweepVars,
         inputVars, flowVars
    <2>7. \A q \in Requests : pc'[q] = "existing" => \E u \in Referenced' : manifest'[u] = manifest'[q]
      BY <1>15 DEF AcceptReport, Go, InsertReport, ChallengeValid, RowsOf, dbVars, fileVars, sweepVars,
         inputVars, flowVars
    <2> QED
      BY <2>1, <2>2, <2>3, <2>4, <2>5, <2>6, <2>7
  <1>16. ASSUME NEW r \in Requests, ReadReceipt(r) PROVE TargetInv'
    <2>1. \A x \in Actors : pc'[x] \in FinalizePc => target'[x] \in Referenced'
      BY <1>16 DEF ReadReceipt, Go, RowsOf, dbVars, fileVars, sweepVars, inputVars, flowVars
    <2>2. \A x \in Actors : pc'[x] = "mark" => target'[x] \in reportDirs'
      BY <1>16 DEF ReadReceipt, Go, RowsOf, dbVars, fileVars, sweepVars, inputVars, flowVars
    <2>3. \A q \in Requests : pc'[q] \in FinalizePc => manifest'[target'[q]] = manifest'[q]
      BY <1>16 DEF ReadReceipt, Go, RowsOf, dbVars, fileVars, sweepVars, inputVars, flowVars
    <2>4. \A q \in detached' : target'[q] \in Referenced'
      BY <1>16 DEF ReadReceipt, Go, RowsOf, dbVars, fileVars, sweepVars, inputVars, flowVars
    <2>5. \A t \in Servers : todo'[t] \subseteq Referenced'
      BY <1>16 DEF ReadReceipt, Go, RowsOf, dbVars, fileVars, sweepVars, inputVars, flowVars
    <2>6. \A q \in Requests : pc'[q] = "discard" => target'[q] \in Referenced' /\ manifest'[target'[q]] = manifest'[q]
      BY <1>16 DEF ReadReceipt, Go, RowsOf, dbVars, fileVars, sweepVars, inputVars, flowVars
    <2>7. \A q \in Requests : pc'[q] = "existing" => \E u \in Referenced' : manifest'[u] = manifest'[q]
      BY <1>16 DEF ReadReceipt, Go, RowsOf, dbVars, fileVars, sweepVars, inputVars, flowVars
    <2> QED
      BY <2>1, <2>2, <2>3, <2>4, <2>5, <2>6, <2>7
  <1>17. ASSUME NEW r \in Requests, DiscardUpload(r) PROVE TargetInv'
    <2>1. \A x \in Actors : pc'[x] \in FinalizePc => target'[x] \in Referenced'
      BY <1>17 DEF DiscardUpload, StartRemoval, Go, dbVars, fileVars, sweepVars, inputVars, flowVars
    <2>2. \A x \in Actors : pc'[x] = "mark" => target'[x] \in reportDirs'
      BY <1>17 DEF DiscardUpload, StartRemoval, Go, dbVars, fileVars, sweepVars, inputVars, flowVars
    <2>3. \A q \in Requests : pc'[q] \in FinalizePc => manifest'[target'[q]] = manifest'[q]
      BY <1>17 DEF DiscardUpload, StartRemoval, Go, dbVars, fileVars, sweepVars, inputVars, flowVars
    <2>4. \A q \in detached' : target'[q] \in Referenced'
      BY <1>17 DEF DiscardUpload, StartRemoval, Go, dbVars, fileVars, sweepVars, inputVars, flowVars
    <2>5. \A t \in Servers : todo'[t] \subseteq Referenced'
      BY <1>17 DEF DiscardUpload, StartRemoval, Go, dbVars, fileVars, sweepVars, inputVars, flowVars
    <2>6. \A q \in Requests : pc'[q] = "discard" => target'[q] \in Referenced' /\ manifest'[target'[q]] = manifest'[q]
      BY <1>17 DEF DiscardUpload, StartRemoval, Go, dbVars, fileVars, sweepVars, inputVars, flowVars
    <2>7. \A q \in Requests : pc'[q] = "existing" => \E u \in Referenced' : manifest'[u] = manifest'[q]
      BY <1>17 DEF DiscardUpload, StartRemoval, Go, dbVars, fileVars, sweepVars, inputVars, flowVars
    <2> QED
      BY <2>1, <2>2, <2>3, <2>4, <2>5, <2>6, <2>7
  <1>18. ASSUME NEW x \in Actors, Finalize(x) PROVE TargetInv'
    BY <1>18 DEF Finalize, Return, DropStaging, Go, OwnsReport, dbVars, fileVars, sweepVars, inputVars, flowVars
  <1>19. ASSUME NEW x \in Actors, Rename(x) PROVE TargetInv'
    BY <1>19 DEF Rename, MoveDirectory, Return, DropStaging, Go, OwnsReport, dbVars, fileVars, sweepVars,
       inputVars, flowVars
  <1>20. ASSUME NEW x \in Actors, MarkReady(x) PROVE TargetInv'
    BY <1>20 DEF MarkReady, SetReady, Return, DropStaging, Go, OwnsReport, dbVars, fileVars, sweepVars,
       inputVars, flowVars
  <1>21. ASSUME NEW r \in Requests, Release(r) PROVE TargetInv'
    BY <1>21 DEF Release, ReleaseLease, Go, dbVars, fileVars, sweepVars, inputVars, flowVars
  <1>22. ASSUME NEW r \in Requests, Abandon(r) PROVE TargetInv'
    BY <1>22 DEF Abandon, StartRemoval, Go, OwnsReport, dbVars, fileVars, sweepVars, inputVars, flowVars
  <1>23. ASSUME NEW r \in Requests, RunDrop(r) PROVE TargetInv'
    BY <1>23 DEF RunDrop, StartRemoval, dbVars, fileVars, sweepVars, inputVars, flowVars
  <1>24. ASSUME NEW r \in Requests, RemoveDirectory(r) PROVE TargetInv'
    BY <1>24 DEF RemoveDirectory, dbVars, fileVars, sweepVars, inputVars, flowVars
  <1>25. ASSUME NEW r \in Requests, RunDetached(r) PROVE TargetInv'
    BY <1>25 DEF RunDetached, MoveDirectory, dbVars, fileVars, sweepVars, inputVars, flowVars
  <1>26. ASSUME NEW r \in Requests, ReleaseDropped(r) PROVE TargetInv'
    BY <1>26 DEF ReleaseDropped, ReleaseLease, dbVars, fileVars, sweepVars, inputVars, flowVars
  <1>27. ASSUME NEW r \in Requests, SweepList(r) PROVE TargetInv'
    BY <1>27 DEF SweepList, MaintenanceRuns, dbVars, fileVars, sweepVars, inputVars, flowVars
  <1>28. ASSUME NEW r \in Requests, SweepCheck(r) PROVE TargetInv'
    BY <1>28 DEF SweepCheck, MaintenanceRuns, dbVars, fileVars, sweepVars, inputVars, flowVars
  <1>29. ASSUME NEW r \in Requests, SweepRemove(r) PROVE TargetInv'
    BY <1>29 DEF SweepRemove, StartRemoval, MaintenanceRuns, dbVars, fileVars, sweepVars, inputVars, flowVars
  <1>30. ASSUME NEW s \in Servers, StartServer(s) PROVE TargetInv'
    BY <1>30 DEF StartServer, Go, Pending, dbVars, fileVars, sweepVars, inputVars, flowVars
  <1>31. ASSUME NEW s \in Servers, RecoverNext(s) PROVE TargetInv'
    <2>1. UNCHANGED <<storage, manifest, reportDirs, detached>>
      BY <1>31 DEF RecoverNext, dbVars, fileVars, inputVars
    <2>2. \A x \in Actors \ {s} : pc'[x] = pc[x] /\ target'[x] = target[x]
      BY <1>31 DEF RecoverNext, Go
    <2>3. pc'[s] \in FinalizePc => pc'[s] = "finalize" /\ target'[s] \in Referenced
      BY <1>31 DEF RecoverNext, Go
    <2>4. \A t \in Servers : todo'[t] \subseteq Referenced
      BY <1>31 DEF RecoverNext
    <2>5. \A q \in Requests : q \in Actors \ {s}
      OBVIOUS
    <2>6. Referenced' = Referenced
      BY <2>1
    <2>7. \A x \in Actors : pc'[x] \in FinalizePc => target'[x] \in Referenced
      BY <2>2, <2>3
    <2>8. \A x \in Actors : pc'[x] = "mark" => target'[x] \in reportDirs
      BY <2>2, <2>3
    <2>9. \A q \in Requests : pc'[q] = pc[q] /\ target'[q] = target[q]
      BY <2>2, <2>5
    <2>10. /\ \A q \in Requests : pc[q] \in FinalizePc => manifest[target[q]] = manifest[q]
           /\ \A q \in detached : q \in Requests /\ target[q] \in Referenced
           /\ \A q \in Requests : pc[q] = "discard" => target[q] \in Referenced /\ manifest[target[q]] = manifest[q]
           /\ \A q \in Requests : pc[q] = "existing" => \E u \in Referenced : manifest[u] = manifest[q]
      OBVIOUS
    <2> HIDE DEF IngestionInv, TypeOK, FlowInv, OneReportPerSubmission, Referenced
    <2> QED
      BY <2>1, <2>4, <2>6, <2>7, <2>8, <2>9, <2>10 DEF TargetInv
  <1>32. CASE UNCHANGED vars
    BY <1>32 DEF vars, dbVars, fileVars, sweepVars, inputVars, flowVars
  <1> QED
    BY <1>1, <1>2, <1>3, <1>4, <1>5, <1>6, <1>7, <1>8, <1>9, <1>10, <1>11, <1>12, <1>13, <1>14, <1>15, <1>16,
       <1>17, <1>18, <1>19, <1>20, <1>21, <1>22, <1>23, <1>24, <1>25, <1>26, <1>27, <1>28, <1>29, <1>30, <1>31,
       <1>32 DEF Next, ClientStep, TimeStep, FaultStep, RequestStep, TaskStep, SweepStep, ServerStep

\* A receipt once noted stays good: rows are never unmade, nor ready ones' directories removed.
LEMMA ResultStep == IngestionInv /\ TypeOK' /\ [Next]_vars => ResultInv'
  <1> SUFFICES ASSUME IngestionInv, TypeOK', [Next]_vars PROVE ResultInv'
    OBVIOUS
  <1> USE IngestionAssumption DEF Actors, RequestPc, ServerPc, UploadPc, FinalizePc, DonePc, Referenced,
      IngestionInv, TypeOK, FlowInv, OneReportPerSubmission, TargetInv, ResultInv
  <1>1. ASSUME NEW c \in Challenges, NEW m \in Manifests, IssueChallenge(c, m) PROVE ResultInv'
    BY <1>1 DEF IssueChallenge, dbVars, fileVars, sweepVars, inputVars, flowVars
  <1>2. ASSUME NEW r \in Requests, NEW s \in Servers, NEW m \in Manifests, NEW c \in Challenges,
        NEW cl \in Clients, Submit(r, s, m, c, cl)
        PROVE ResultInv'
    BY <1>2 DEF Submit, Go, dbVars, fileVars, sweepVars, inputVars, flowVars
  <1>3. ASSUME NEW c \in Challenges, ExpireChallenge(c) PROVE ResultInv'
    BY <1>3 DEF ExpireChallenge, dbVars, fileVars, sweepVars, inputVars, flowVars
  <1>4. ASSUME NEW r \in Requests, LapseLease(r) PROVE ResultInv'
    BY <1>4 DEF LapseLease, dbVars, fileVars, sweepVars, inputVars, flowVars
  <1>5. ASSUME NEW x \in Actors, Fail(x) PROVE ResultInv'
    BY <1>5 DEF Fail, Go, Return, DropStaging, FaultOf, OwnsReport, dbVars, fileVars, sweepVars, inputVars,
       flowVars
  <1>6. ASSUME NEW r \in Requests, CommitUnacknowledged(r) PROVE ResultInv'
    BY <1>6 DEF CommitUnacknowledged, InsertReport, Go, ChallengeValid, RowsOf, dbVars, fileVars, sweepVars,
       inputVars, flowVars
  <1>7. ASSUME NEW r \in Requests, MarkUnacknowledged(r) PROVE ResultInv'
    BY <1>7 DEF MarkUnacknowledged, SetReady, Return, DropStaging, Go, FaultOf, OwnsReport, dbVars, fileVars,
       sweepVars, inputVars, flowVars
  <1>8. ASSUME NEW r \in Requests, Disconnect(r) PROVE ResultInv'
    BY <1>8 DEF Disconnect, Go, OwnsReport, LeaseAvailable, dbVars, fileVars, sweepVars, inputVars, flowVars
  <1>9. ASSUME NEW r \in Requests, RemovalFails(r) PROVE ResultInv'
    BY <1>9 DEF RemovalFails, dbVars, fileVars, sweepVars, inputVars, flowVars
  <1>10. ASSUME NEW s \in Servers, Crash(s) PROVE ResultInv'
    BY <1>10 DEF Crash, dbVars, fileVars, sweepVars, inputVars, flowVars
  <1>11. ASSUME SweepExpired PROVE ResultInv'
    BY <1>11 DEF SweepExpired, MaintenanceRuns, dbVars, fileVars, sweepVars, inputVars, flowVars
  <1>12. ASSUME NEW r \in Requests, FindReceipt(r) PROVE ResultInv'
    BY <1>12 DEF FindReceipt, Go, RowsOf, dbVars, fileVars, sweepVars, inputVars, flowVars
  <1>13. ASSUME NEW r \in Requests, BeginStaging(r) PROVE ResultInv'
    BY <1>13 DEF BeginStaging, Go, dbVars, fileVars, sweepVars, inputVars, flowVars
  <1>14. ASSUME NEW r \in Requests, AcquireLease(r) PROVE ResultInv'
    BY <1>14 DEF AcquireLease, Go, dbVars, fileVars, sweepVars, inputVars, flowVars
  <1>15. ASSUME NEW r \in Requests, AcceptReport(r) PROVE ResultInv'
    BY <1>15 DEF AcceptReport, Go, InsertReport, ChallengeValid, RowsOf, dbVars, fileVars, sweepVars, inputVars,
       flowVars
  <1>16. ASSUME NEW r \in Requests, ReadReceipt(r) PROVE ResultInv'
    BY <1>16 DEF ReadReceipt, Go, RowsOf, dbVars, fileVars, sweepVars, inputVars, flowVars
  <1>17. ASSUME NEW r \in Requests, DiscardUpload(r) PROVE ResultInv'
    BY <1>17 DEF DiscardUpload, StartRemoval, Go, dbVars, fileVars, sweepVars, inputVars, flowVars
  <1>18. ASSUME NEW x \in Actors, Finalize(x) PROVE ResultInv'
    BY <1>18 DEF Finalize, Return, DropStaging, Go, OwnsReport, dbVars, fileVars, sweepVars, inputVars, flowVars
  <1>19. ASSUME NEW x \in Actors, Rename(x) PROVE ResultInv'
    BY <1>19 DEF Rename, MoveDirectory, Return, DropStaging, Go, OwnsReport, dbVars, fileVars, sweepVars,
       inputVars, flowVars
  <1>20. ASSUME NEW x \in Actors, MarkReady(x) PROVE ResultInv'
    BY <1>20 DEF MarkReady, SetReady, Return, DropStaging, Go, OwnsReport, dbVars, fileVars, sweepVars,
       inputVars, flowVars
  <1>21. ASSUME NEW r \in Requests, Release(r) PROVE ResultInv'
    BY <1>21 DEF Release, ReleaseLease, Go, dbVars, fileVars, sweepVars, inputVars, flowVars
  <1>22. ASSUME NEW r \in Requests, Abandon(r) PROVE ResultInv'
    BY <1>22 DEF Abandon, StartRemoval, Go, OwnsReport, dbVars, fileVars, sweepVars, inputVars, flowVars
  <1>23. ASSUME NEW r \in Requests, RunDrop(r) PROVE ResultInv'
    BY <1>23 DEF RunDrop, StartRemoval, dbVars, fileVars, sweepVars, inputVars, flowVars
  <1>24. ASSUME NEW r \in Requests, RemoveDirectory(r) PROVE ResultInv'
    BY <1>24 DEF RemoveDirectory, dbVars, fileVars, sweepVars, inputVars, flowVars
  <1>25. ASSUME NEW r \in Requests, RunDetached(r) PROVE ResultInv'
    BY <1>25 DEF RunDetached, MoveDirectory, dbVars, fileVars, sweepVars, inputVars, flowVars
  <1>26. ASSUME NEW r \in Requests, ReleaseDropped(r) PROVE ResultInv'
    BY <1>26 DEF ReleaseDropped, ReleaseLease, dbVars, fileVars, sweepVars, inputVars, flowVars
  <1>27. ASSUME NEW r \in Requests, SweepList(r) PROVE ResultInv'
    BY <1>27 DEF SweepList, MaintenanceRuns, dbVars, fileVars, sweepVars, inputVars, flowVars
  <1>28. ASSUME NEW r \in Requests, SweepCheck(r) PROVE ResultInv'
    BY <1>28 DEF SweepCheck, MaintenanceRuns, dbVars, fileVars, sweepVars, inputVars, flowVars
  <1>29. ASSUME NEW r \in Requests, SweepRemove(r) PROVE ResultInv'
    BY <1>29 DEF SweepRemove, StartRemoval, MaintenanceRuns, dbVars, fileVars, sweepVars, inputVars, flowVars
  <1>30. ASSUME NEW s \in Servers, StartServer(s) PROVE ResultInv'
    BY <1>30 DEF StartServer, Go, Pending, dbVars, fileVars, sweepVars, inputVars, flowVars
  <1>31. ASSUME NEW s \in Servers, RecoverNext(s) PROVE ResultInv'
    BY <1>31 DEF RecoverNext, Go, dbVars, fileVars, sweepVars, inputVars, flowVars
  <1>32. CASE UNCHANGED vars
    BY <1>32 DEF vars, dbVars, fileVars, sweepVars, inputVars, flowVars
  <1> QED
    BY <1>1, <1>2, <1>3, <1>4, <1>5, <1>6, <1>7, <1>8, <1>9, <1>10, <1>11, <1>12, <1>13, <1>14, <1>15, <1>16,
       <1>17, <1>18, <1>19, <1>20, <1>21, <1>22, <1>23, <1>24, <1>25, <1>26, <1>27, <1>28, <1>29, <1>30, <1>31,
       <1>32 DEF Next, ClientStep, TimeStep, FaultStep, RequestStep, TaskStep, SweepStep, ServerStep

\* No step leaves a report directory without a row, or with a twin in staging.
LEMMA DirectoriesStep == IngestionInv /\ TypeOK' /\ [Next]_vars => ReportDirectoriesOwned'
  <1> SUFFICES ASSUME IngestionInv, TypeOK', [Next]_vars PROVE ReportDirectoriesOwned'
    OBVIOUS
  <1> USE IngestionAssumption DEF Actors, RequestPc, ServerPc, UploadPc, FinalizePc, DonePc, Referenced,
      IngestionInv, TypeOK, FlowInv, TargetInv, ReportDirectoriesOwned
  <1>1. ASSUME NEW c \in Challenges, NEW m \in Manifests, IssueChallenge(c, m) PROVE ReportDirectoriesOwned'
    BY <1>1 DEF IssueChallenge, dbVars, fileVars, sweepVars, inputVars, flowVars
  <1>2. ASSUME NEW r \in Requests, NEW s \in Servers, NEW m \in Manifests, NEW c \in Challenges,
        NEW cl \in Clients, Submit(r, s, m, c, cl)
        PROVE ReportDirectoriesOwned'
    BY <1>2 DEF Submit, Go, dbVars, fileVars, sweepVars, inputVars, flowVars
  <1>3. ASSUME NEW c \in Challenges, ExpireChallenge(c) PROVE ReportDirectoriesOwned'
    BY <1>3 DEF ExpireChallenge, dbVars, fileVars, sweepVars, inputVars, flowVars
  <1>4. ASSUME NEW r \in Requests, LapseLease(r) PROVE ReportDirectoriesOwned'
    BY <1>4 DEF LapseLease, dbVars, fileVars, sweepVars, inputVars, flowVars
  <1>5. ASSUME NEW x \in Actors, Fail(x) PROVE ReportDirectoriesOwned'
    BY <1>5 DEF Fail, Go, Return, DropStaging, FaultOf, OwnsReport, dbVars, fileVars, sweepVars, inputVars,
       flowVars
  <1>6. ASSUME NEW r \in Requests, CommitUnacknowledged(r) PROVE ReportDirectoriesOwned'
    BY <1>6 DEF CommitUnacknowledged, InsertReport, Go, ChallengeValid, RowsOf, dbVars, fileVars, sweepVars,
       inputVars, flowVars
  <1>7. ASSUME NEW r \in Requests, MarkUnacknowledged(r) PROVE ReportDirectoriesOwned'
    BY <1>7 DEF MarkUnacknowledged, SetReady, Return, DropStaging, Go, FaultOf, OwnsReport, dbVars, fileVars,
       sweepVars, inputVars, flowVars
  <1>8. ASSUME NEW r \in Requests, Disconnect(r) PROVE ReportDirectoriesOwned'
    BY <1>8 DEF Disconnect, Go, OwnsReport, LeaseAvailable, dbVars, fileVars, sweepVars, inputVars, flowVars
  <1>9. ASSUME NEW r \in Requests, RemovalFails(r) PROVE ReportDirectoriesOwned'
    BY <1>9 DEF RemovalFails, dbVars, fileVars, sweepVars, inputVars, flowVars
  <1>10. ASSUME NEW s \in Servers, Crash(s) PROVE ReportDirectoriesOwned'
    BY <1>10 DEF Crash, dbVars, fileVars, sweepVars, inputVars, flowVars
  <1>11. ASSUME SweepExpired PROVE ReportDirectoriesOwned'
    BY <1>11 DEF SweepExpired, MaintenanceRuns, dbVars, fileVars, sweepVars, inputVars, flowVars
  <1>12. ASSUME NEW r \in Requests, FindReceipt(r) PROVE ReportDirectoriesOwned'
    BY <1>12 DEF FindReceipt, Go, RowsOf, dbVars, fileVars, sweepVars, inputVars, flowVars
  <1>13. ASSUME NEW r \in Requests, BeginStaging(r) PROVE ReportDirectoriesOwned'
    BY <1>13 DEF BeginStaging, Go, dbVars, fileVars, sweepVars, inputVars, flowVars
  <1>14. ASSUME NEW r \in Requests, AcquireLease(r) PROVE ReportDirectoriesOwned'
    BY <1>14 DEF AcquireLease, Go, dbVars, fileVars, sweepVars, inputVars, flowVars
  <1>15. ASSUME NEW r \in Requests, AcceptReport(r) PROVE ReportDirectoriesOwned'
    BY <1>15 DEF AcceptReport, Go, InsertReport, ChallengeValid, RowsOf, dbVars, fileVars, sweepVars, inputVars,
       flowVars
  <1>16. ASSUME NEW r \in Requests, ReadReceipt(r) PROVE ReportDirectoriesOwned'
    BY <1>16 DEF ReadReceipt, Go, RowsOf, dbVars, fileVars, sweepVars, inputVars, flowVars
  <1>17. ASSUME NEW r \in Requests, DiscardUpload(r) PROVE ReportDirectoriesOwned'
    BY <1>17 DEF DiscardUpload, StartRemoval, Go, dbVars, fileVars, sweepVars, inputVars, flowVars
  <1>18. ASSUME NEW x \in Actors, Finalize(x) PROVE ReportDirectoriesOwned'
    BY <1>18 DEF Finalize, Return, DropStaging, Go, OwnsReport, dbVars, fileVars, sweepVars, inputVars, flowVars
  <1>19. ASSUME NEW x \in Actors, Rename(x) PROVE ReportDirectoriesOwned'
    BY <1>19 DEF Rename, MoveDirectory, Return, DropStaging, Go, OwnsReport, dbVars, fileVars, sweepVars,
       inputVars, flowVars
  <1>20. ASSUME NEW x \in Actors, MarkReady(x) PROVE ReportDirectoriesOwned'
    BY <1>20 DEF MarkReady, SetReady, Return, DropStaging, Go, OwnsReport, dbVars, fileVars, sweepVars,
       inputVars, flowVars
  <1>21. ASSUME NEW r \in Requests, Release(r) PROVE ReportDirectoriesOwned'
    BY <1>21 DEF Release, ReleaseLease, Go, dbVars, fileVars, sweepVars, inputVars, flowVars
  <1>22. ASSUME NEW r \in Requests, Abandon(r) PROVE ReportDirectoriesOwned'
    BY <1>22 DEF Abandon, StartRemoval, Go, OwnsReport, dbVars, fileVars, sweepVars, inputVars, flowVars
  <1>23. ASSUME NEW r \in Requests, RunDrop(r) PROVE ReportDirectoriesOwned'
    BY <1>23 DEF RunDrop, StartRemoval, dbVars, fileVars, sweepVars, inputVars, flowVars
  <1>24. ASSUME NEW r \in Requests, RemoveDirectory(r) PROVE ReportDirectoriesOwned'
    BY <1>24 DEF RemoveDirectory, dbVars, fileVars, sweepVars, inputVars, flowVars
  <1>25. ASSUME NEW r \in Requests, RunDetached(r) PROVE ReportDirectoriesOwned'
    BY <1>25 DEF RunDetached, MoveDirectory, dbVars, fileVars, sweepVars, inputVars, flowVars
  <1>26. ASSUME NEW r \in Requests, ReleaseDropped(r) PROVE ReportDirectoriesOwned'
    BY <1>26 DEF ReleaseDropped, ReleaseLease, dbVars, fileVars, sweepVars, inputVars, flowVars
  <1>27. ASSUME NEW r \in Requests, SweepList(r) PROVE ReportDirectoriesOwned'
    BY <1>27 DEF SweepList, MaintenanceRuns, dbVars, fileVars, sweepVars, inputVars, flowVars
  <1>28. ASSUME NEW r \in Requests, SweepCheck(r) PROVE ReportDirectoriesOwned'
    BY <1>28 DEF SweepCheck, MaintenanceRuns, dbVars, fileVars, sweepVars, inputVars, flowVars
  <1>29. ASSUME NEW r \in Requests, SweepRemove(r) PROVE ReportDirectoriesOwned'
    BY <1>29 DEF SweepRemove, StartRemoval, MaintenanceRuns, dbVars, fileVars, sweepVars, inputVars, flowVars
  <1>30. ASSUME NEW s \in Servers, StartServer(s) PROVE ReportDirectoriesOwned'
    BY <1>30 DEF StartServer, Go, Pending, dbVars, fileVars, sweepVars, inputVars, flowVars
  <1>31. ASSUME NEW s \in Servers, RecoverNext(s) PROVE ReportDirectoriesOwned'
    BY <1>31 DEF RecoverNext, Go, dbVars, fileVars, sweepVars, inputVars, flowVars
  <1>32. CASE UNCHANGED vars
    BY <1>32 DEF vars, dbVars, fileVars, sweepVars, inputVars, flowVars
  <1> QED
    BY <1>1, <1>2, <1>3, <1>4, <1>5, <1>6, <1>7, <1>8, <1>9, <1>10, <1>11, <1>12, <1>13, <1>14, <1>15, <1>16,
       <1>17, <1>18, <1>19, <1>20, <1>21, <1>22, <1>23, <1>24, <1>25, <1>26, <1>27, <1>28, <1>29, <1>30, <1>31,
       <1>32 DEF Next, ClientStep, TimeStep, FaultStep, RequestStep, TaskStep, SweepStep, ServerStep

\* Without late failures no step lets a removal reach an upload that is under way or committed.
LEMMA FilesStep == IngestionInv /\ FilesInv /\ TypeOK' /\ [Next]_vars => FilesInv'
  <1> SUFFICES ASSUME IngestionInv /\ FilesInv, TypeOK', [Next]_vars PROVE FilesInv'
    OBVIOUS
  <1> USE IngestionAssumption DEF Actors, RequestPc, ServerPc, UploadPc, FinalizePc, DonePc, Referenced,
      IngestionInv, TypeOK, FlowInv, TargetInv, ResultInv, ReportDirectoriesOwned, FilesInv
  <1>1. ASSUME NEW c \in Challenges, NEW m \in Manifests, IssueChallenge(c, m) PROVE FilesInv'
    BY <1>1 DEF IssueChallenge, dbVars, fileVars, sweepVars, inputVars, flowVars
  <1>2. ASSUME NEW r \in Requests, NEW s \in Servers, NEW m \in Manifests, NEW c \in Challenges,
        NEW cl \in Clients, Submit(r, s, m, c, cl)
        PROVE FilesInv'
    BY <1>2 DEF Submit, Go, dbVars, fileVars, sweepVars, inputVars, flowVars
  <1>3. ASSUME NEW c \in Challenges, ExpireChallenge(c) PROVE FilesInv'
    BY <1>3 DEF ExpireChallenge, dbVars, fileVars, sweepVars, inputVars, flowVars
  <1>4. ASSUME NEW r \in Requests, LapseLease(r) PROVE FilesInv'
    BY <1>4 DEF LapseLease, dbVars, fileVars, sweepVars, inputVars, flowVars
  <1>5. ASSUME NEW x \in Actors, Fail(x) PROVE FilesInv'
    BY <1>5 DEF Fail, Go, Return, DropStaging, FaultOf, OwnsReport, dbVars, fileVars, sweepVars, inputVars,
       flowVars
  <1>6. ASSUME NEW r \in Requests, CommitUnacknowledged(r) PROVE FilesInv'
    BY <1>6 DEF CommitUnacknowledged, InsertReport, Go, ChallengeValid, RowsOf, dbVars, fileVars, sweepVars,
       inputVars, flowVars
  <1>7. ASSUME NEW r \in Requests, MarkUnacknowledged(r) PROVE FilesInv'
    BY <1>7 DEF MarkUnacknowledged, SetReady, Return, DropStaging, Go, FaultOf, OwnsReport, dbVars, fileVars,
       sweepVars, inputVars, flowVars
  <1>8. ASSUME NEW r \in Requests, Disconnect(r) PROVE FilesInv'
    BY <1>8 DEF Disconnect, Go, OwnsReport, LeaseAvailable, dbVars, fileVars, sweepVars, inputVars, flowVars
  <1>9. ASSUME NEW r \in Requests, RemovalFails(r) PROVE FilesInv'
    BY <1>9 DEF RemovalFails, dbVars, fileVars, sweepVars, inputVars, flowVars
  <1>10. ASSUME NEW s \in Servers, Crash(s) PROVE FilesInv'
    BY <1>10 DEF Crash, dbVars, fileVars, sweepVars, inputVars, flowVars
  <1>11. ASSUME SweepExpired PROVE FilesInv'
    BY <1>11 DEF SweepExpired, MaintenanceRuns, dbVars, fileVars, sweepVars, inputVars, flowVars
  <1>12. ASSUME NEW r \in Requests, FindReceipt(r) PROVE FilesInv'
    <2>1. UNCHANGED <<storage, staging, reportDirs, damaged, removing, doomed, sweepSeen, sweepDel, guarded>>
      BY <1>12 DEF FindReceipt, dbVars, fileVars, sweepVars
    <2>2. \A q \in Requests \ {r} : pc'[q] = pc[q] /\ target'[q] = target[q] /\ result'[q] = result[q]
      BY <1>12 DEF FindReceipt, Go
    <2>3. pc[r] = "prepare" /\ pc'[r] \in {"checked", "finalize", "failed", "ok"}
      <3>1. pc[r] = "prepare" /\ pc \in [Actors -> RequestPc \cup ServerPc] /\ r \in Actors
        BY <1>12 DEF FindReceipt
      <3> HIDE DEF IngestionInv, TypeOK, FlowInv, TargetInv, ResultInv, ReportDirectoriesOwned, FilesInv
      <3> QED
        BY <1>12, <3>1 DEF FindReceipt, Go
    <2>5. r \notin Referenced
      BY <2>3
    <2>4. Referenced' = Referenced
      BY <2>1
    <2> HIDE DEF IngestionInv, TypeOK, FlowInv, TargetInv, ResultInv, ReportDirectoriesOwned, Referenced
    <2> QED
      BY <2>1, <2>2, <2>3, <2>5, <2>4
  <1>13. ASSUME NEW r \in Requests, BeginStaging(r) PROVE FilesInv'
    BY <1>13 DEF BeginStaging, Go, dbVars, fileVars, sweepVars, inputVars, flowVars
  <1>14. ASSUME NEW r \in Requests, AcquireLease(r) PROVE FilesInv'
    BY <1>14 DEF AcquireLease, Go, dbVars, fileVars, sweepVars, inputVars, flowVars
  <1>15. ASSUME NEW r \in Requests, AcceptReport(r) PROVE FilesInv'
    BY <1>15 DEF AcceptReport, Go, InsertReport, ChallengeValid, RowsOf, dbVars, fileVars, sweepVars, inputVars,
       flowVars
  <1>16. ASSUME NEW r \in Requests, ReadReceipt(r) PROVE FilesInv'
    BY <1>16 DEF ReadReceipt, Go, RowsOf, dbVars, fileVars, sweepVars, inputVars, flowVars
  <1>17. ASSUME NEW r \in Requests, DiscardUpload(r) PROVE FilesInv'
    BY <1>17 DEF DiscardUpload, StartRemoval, Go, dbVars, fileVars, sweepVars, inputVars, flowVars
  <1>18. ASSUME NEW x \in Actors, Finalize(x) PROVE FilesInv'
    BY <1>18 DEF Finalize, Return, DropStaging, Go, OwnsReport, dbVars, fileVars, sweepVars, inputVars, flowVars
  <1>19. ASSUME NEW x \in Actors, Rename(x) PROVE FilesInv'
    BY <1>19 DEF Rename, MoveDirectory, Return, DropStaging, Go, OwnsReport, dbVars, fileVars, sweepVars,
       inputVars, flowVars
  <1>20. ASSUME NEW x \in Actors, MarkReady(x) PROVE FilesInv'
    BY <1>20 DEF MarkReady, SetReady, Return, DropStaging, Go, OwnsReport, dbVars, fileVars, sweepVars,
       inputVars, flowVars
  <1>21. ASSUME NEW r \in Requests, Release(r) PROVE FilesInv'
    BY <1>21 DEF Release, ReleaseLease, Go, dbVars, fileVars, sweepVars, inputVars, flowVars
  <1>22. ASSUME NEW r \in Requests, Abandon(r) PROVE FilesInv'
    BY <1>22 DEF Abandon, StartRemoval, Go, OwnsReport, dbVars, fileVars, sweepVars, inputVars, flowVars
  <1>23. ASSUME NEW r \in Requests, RunDrop(r) PROVE FilesInv'
    BY <1>23 DEF RunDrop, StartRemoval, dbVars, fileVars, sweepVars, inputVars, flowVars
  <1>24. ASSUME NEW r \in Requests, RemoveDirectory(r) PROVE FilesInv'
    BY <1>24 DEF RemoveDirectory, dbVars, fileVars, sweepVars, inputVars, flowVars
  <1>25. ASSUME NEW r \in Requests, RunDetached(r) PROVE FilesInv'
    BY <1>25 DEF RunDetached, MoveDirectory, dbVars, fileVars, sweepVars, inputVars, flowVars
  <1>26. ASSUME NEW r \in Requests, ReleaseDropped(r) PROVE FilesInv'
    BY <1>26 DEF ReleaseDropped, ReleaseLease, dbVars, fileVars, sweepVars, inputVars, flowVars
  <1>27. ASSUME NEW r \in Requests, SweepList(r) PROVE FilesInv'
    BY <1>27 DEF SweepList, MaintenanceRuns, dbVars, fileVars, sweepVars, inputVars, flowVars
  <1>28. ASSUME NEW r \in Requests, SweepCheck(r) PROVE FilesInv'
    BY <1>28 DEF SweepCheck, MaintenanceRuns, dbVars, fileVars, sweepVars, inputVars, flowVars
  <1>29. ASSUME NEW r \in Requests, SweepRemove(r) PROVE FilesInv'
    BY <1>29 DEF SweepRemove, StartRemoval, MaintenanceRuns, dbVars, fileVars, sweepVars, inputVars, flowVars
  <1>30. ASSUME NEW s \in Servers, StartServer(s) PROVE FilesInv'
    BY <1>30 DEF StartServer, Go, Pending, dbVars, fileVars, sweepVars, inputVars, flowVars
  <1>31. ASSUME NEW s \in Servers, RecoverNext(s) PROVE FilesInv'
    BY <1>31 DEF RecoverNext, Go, dbVars, fileVars, sweepVars, inputVars, flowVars
  <1>32. CASE UNCHANGED vars
    BY <1>32 DEF vars, dbVars, fileVars, sweepVars, inputVars, flowVars
  <1> QED
    BY <1>1, <1>2, <1>3, <1>4, <1>5, <1>6, <1>7, <1>8, <1>9, <1>10, <1>11, <1>12, <1>13, <1>14, <1>15, <1>16,
       <1>17, <1>18, <1>19, <1>20, <1>21, <1>22, <1>23, <1>24, <1>25, <1>26, <1>27, <1>28, <1>29, <1>30, <1>31,
       <1>32 DEF Next, ClientStep, TimeStep, FaultStep, RequestStep, TaskStep, SweepStep, ServerStep

\* A table that keeps some of its leases keeps within the limits.
LEMMA FewerLeases ==
    ASSUME IngestionInv, LeaseInv, NEW kept, kept \subseteq leases
    PROVE  /\ Cardinality(kept) <= GlobalLimit
           /\ \A cl \in Clients : Cardinality({q \in kept : client[q] = cl}) <= ClientLimit
  <1>1. IsFiniteSet(leases) /\ IsFiniteSet(kept)
    BY FS_Subset, IngestionAssumption DEF IngestionInv, TypeOK
  <1>2. Cardinality(kept) <= GlobalLimit
    <2>1. Cardinality(kept) <= Cardinality(leases)
      BY <1>1, FS_Subset
    <2> QED
      BY <2>1, <1>1, FS_CardinalityType, IngestionAssumption DEF LeaseInv
  <1>3. ASSUME NEW cl \in Clients PROVE Cardinality({q \in kept : client[q] = cl}) <= ClientLimit
    <2> DEFINE A == {q \in kept : client[q] = cl}
               B == {q \in leases : client[q] = cl}
    <2>1. A \subseteq B /\ B \subseteq leases
      OBVIOUS
    <2>2. IsFiniteSet(B) /\ IsFiniteSet(A)
      BY <1>1, <2>1, FS_Subset
    <2>3. Cardinality(A) <= Cardinality(B)
      BY <2>1, <2>2, FS_Subset
    <2>4. Cardinality(B) <= ClientLimit
      BY DEF LeaseInv
    <2>5. Cardinality(A) \in Nat /\ Cardinality(B) \in Nat
      BY <2>2, FS_CardinalityType
    <2> QED
      BY <2>3, <2>4, <2>5, IngestionAssumption
  <1> QED
    BY <1>2, <1>3

\* A lease that is granted keeps the table within the limits.
LEMMA GrantedLease ==
    ASSUME IngestionInv, NEW r \in Requests, LeaseAvailable(r)
    PROVE  /\ Cardinality((leases \ lapsed) \cup {r}) <= GlobalLimit
           /\ LeaseInv => \A cl \in Clients :
                Cardinality({q \in (leases \ lapsed) \cup {r} : client[q] = cl}) <= ClientLimit
  <1> DEFINE held == leases \ lapsed
  <1>1. IsFiniteSet(held) /\ held \subseteq leases
    BY FS_Subset, IngestionAssumption DEF IngestionInv, TypeOK
  <1>2. Cardinality(held) \in Nat /\ Cardinality(held \cup {r}) <= Cardinality(held) + 1
    <2>1. Cardinality(held \cup {r}) = IF r \in held THEN Cardinality(held) ELSE Cardinality(held) + 1
      BY <1>1, FS_AddElement
    <2> QED
      BY <1>1, <2>1, FS_CardinalityType
  <1>3. Cardinality(held) < GlobalLimit
    BY DEF LeaseAvailable
  <1>4. Cardinality(held \cup {r}) <= GlobalLimit
    <2>1. Cardinality(held \cup {r}) \in Nat
      BY <1>1, FS_AddElement, FS_CardinalityType
    <2> QED
      BY <1>2, <1>3, <2>1, IngestionAssumption
  <1>5. ASSUME LeaseInv, NEW cl \in Clients
        PROVE  Cardinality({q \in held \cup {r} : client[q] = cl}) <= ClientLimit
    <2> DEFINE A == {q \in held : client[q] = cl}
    <2>1. CASE client[r] # cl
      <3>1. {q \in held \cup {r} : client[q] = cl} = A
        BY <2>1
      <3> QED
        BY <3>1, <1>1, <1>5, FewerLeases
    <2>2. CASE client[r] = cl
      <3>1. {q \in held \cup {r} : client[q] = cl} = A \cup {r}
        BY <2>2
      <3>2. Cardinality(A) < ClientLimit
        BY <2>2 DEF LeaseAvailable
      <3>3. IsFiniteSet(A)
        BY <1>1, FS_Subset
      <3>4. Cardinality(A \cup {r}) = IF r \in A THEN Cardinality(A) ELSE Cardinality(A) + 1
        BY <3>3, FS_AddElement
      <3>5. Cardinality(A) \in Nat
        BY <3>3, FS_CardinalityType
      <3>6. Cardinality(A \cup {r}) <= ClientLimit
        BY <3>2, <3>4, <3>5, IngestionAssumption
      <3> QED
        BY <3>1, <3>6
    <2> QED
      BY <2>1, <2>2
  <1> QED
    BY <1>4, <1>5

\* Steps that grant no lease: the table keeps some of its rows and their clients, and an upload
\* that is still under way keeps its own.
LEMMA NoGrant ==
    ASSUME IngestionInv, LeaseInv, TypeOK',
           leases' \subseteq leases,
           \A q \in leases : client'[q] = client[q],
           \A q \in guarded' : pc'[q] \in UploadPc => q \in leases' \ lapsed'
    PROVE  LeaseInv'
  <1>1. /\ Cardinality(leases') <= GlobalLimit
        /\ \A cl \in Clients : Cardinality({q \in leases' : client[q] = cl}) <= ClientLimit
    BY FewerLeases
  <1>2. \A cl : {q \in leases' : client'[q] = cl} = {q \in leases' : client[q] = cl}
    OBVIOUS
  <1>3. \A cl \in Clients : Cardinality({q \in leases' : client'[q] = cl}) <= ClientLimit
    BY <1>1, <1>2
  <1> QED
    BY <1>1, <1>3 DEF LeaseInv

\* Every step keeps the lease table within the limits and leaves a running upload its lease.
LEMMA LeaseStep == IngestionInv /\ LeaseInv /\ TypeOK' /\ [Next]_vars => LeaseInv'
  <1> SUFFICES ASSUME IngestionInv, LeaseInv, TypeOK', [Next]_vars PROVE LeaseInv'
    OBVIOUS
  <1> DEFINE Kept ==
        /\ leases' \subseteq leases
        /\ \A q \in leases : client'[q] = client[q]
        /\ \A q \in guarded' : pc'[q] \in UploadPc => q \in leases' \ lapsed'
  <1>0. Kept => LeaseInv'
    BY NoGrant
  <1>b. ASSUME NEW r \in Requests, LeaseAvailable(r), leases' = (leases \ lapsed) \cup {r}, client' = client,
               \A q \in guarded' : pc'[q] \in UploadPc => q \in leases' \ lapsed'
        PROVE  LeaseInv'
    BY <1>b, GrantedLease DEF LeaseInv
  <1>a. /\ \A q \in guarded : pc[q] \in UploadPc => q \in leases \ lapsed
        /\ IngestionInv /\ TypeOK'
    BY DEF LeaseInv
  <1> USE IngestionAssumption DEF Actors, RequestPc, ServerPc, UploadPc, FinalizePc, DonePc, IngestionInv, TypeOK, FlowInv
  <1>1. ASSUME NEW c \in Challenges, NEW m \in Manifests, IssueChallenge(c, m) PROVE LeaseInv'
    <2>1. Kept
      BY <1>a, <1>1 DEF IssueChallenge, dbVars, fileVars, sweepVars, inputVars, flowVars
    <2> QED
      BY <2>1, <1>0
  <1>2. ASSUME NEW r \in Requests, NEW s \in Servers, NEW m \in Manifests, NEW c \in Challenges,
        NEW cl \in Clients, Submit(r, s, m, c, cl)
        PROVE LeaseInv'
    <2>1. Kept
      BY <1>a, <1>2 DEF Submit, Go, dbVars, fileVars, sweepVars, inputVars, flowVars
    <2> QED
      BY <2>1, <1>0
  <1>3. ASSUME NEW c \in Challenges, ExpireChallenge(c) PROVE LeaseInv'
    <2>1. Kept
      BY <1>a, <1>3 DEF ExpireChallenge, dbVars, fileVars, sweepVars, inputVars, flowVars
    <2> QED
      BY <2>1, <1>0
  <1>4. ASSUME NEW r \in Requests, LapseLease(r) PROVE LeaseInv'
    <2>1. Kept
      BY <1>a, <1>4 DEF LapseLease, dbVars, fileVars, sweepVars, inputVars, flowVars
    <2> QED
      BY <2>1, <1>0
  <1>5. ASSUME NEW x \in Actors, Fail(x) PROVE LeaseInv'
    <2>1. Kept
      BY <1>a, <1>5 DEF Fail, Go, Return, DropStaging, FaultOf, OwnsReport, dbVars, fileVars, sweepVars, inputVars,
         flowVars
    <2> QED
      BY <2>1, <1>0
  <1>6. ASSUME NEW r \in Requests, CommitUnacknowledged(r) PROVE LeaseInv'
    <2>1. Kept
      BY <1>a, <1>6 DEF CommitUnacknowledged, InsertReport, Go, ChallengeValid, RowsOf, Referenced, dbVars, fileVars,
         sweepVars, inputVars, flowVars
    <2> QED
      BY <2>1, <1>0
  <1>7. ASSUME NEW r \in Requests, MarkUnacknowledged(r) PROVE LeaseInv'
    <2>1. Kept
      BY <1>a, <1>7 DEF MarkUnacknowledged, SetReady, Return, DropStaging, Go, FaultOf, OwnsReport, dbVars, fileVars,
         sweepVars, inputVars, flowVars
    <2> QED
      BY <2>1, <1>0
  <1>8. ASSUME NEW r \in Requests, Disconnect(r) PROVE LeaseInv'
    <2>1. \A q \in guarded' : pc'[q] \in UploadPc => q \in leases' \ lapsed'
      BY <1>a, <1>8 DEF Disconnect, Go, OwnsReport, dbVars, fileVars, sweepVars, inputVars, flowVars
    <2>2. client' = client
      BY <1>8 DEF Disconnect, inputVars
    <2>3. CASE leases' = leases
      BY <2>1, <2>2, <2>3, <1>0
    <2>4. CASE LeaseAvailable(r) /\ leases' = (leases \ lapsed) \cup {r}
      BY <2>1, <2>2, <2>4, <1>b
    <2> QED
      BY <1>8, <2>3, <2>4 DEF Disconnect
  <1>9. ASSUME NEW r \in Requests, RemovalFails(r) PROVE LeaseInv'
    <2>1. Kept
      BY <1>a, <1>9 DEF RemovalFails, dbVars, fileVars, sweepVars, inputVars, flowVars
    <2> QED
      BY <2>1, <1>0
  <1>10. ASSUME NEW s \in Servers, Crash(s) PROVE LeaseInv'
    <2>1. Kept
      BY <1>a, <1>10 DEF Crash, dbVars, fileVars, sweepVars, inputVars, flowVars
    <2> QED
      BY <2>1, <1>0
  <1>11. ASSUME SweepExpired PROVE LeaseInv'
    <2>1. Kept
      BY <1>a, <1>11 DEF SweepExpired, MaintenanceRuns, dbVars, fileVars, sweepVars, inputVars, flowVars
    <2> QED
      BY <2>1, <1>0
  <1>12. ASSUME NEW r \in Requests, FindReceipt(r) PROVE LeaseInv'
    <2>1. Kept
      BY <1>a, <1>12 DEF FindReceipt, Go, RowsOf, Referenced, dbVars, fileVars, sweepVars, inputVars, flowVars
    <2> QED
      BY <2>1, <1>0
  <1>13. ASSUME NEW r \in Requests, BeginStaging(r) PROVE LeaseInv'
    <2>1. Kept
      BY <1>a, <1>13 DEF BeginStaging, Go, dbVars, fileVars, sweepVars, inputVars, flowVars
    <2> QED
      BY <2>1, <1>0
  <1>14. ASSUME NEW r \in Requests, AcquireLease(r) PROVE LeaseInv'
    <2>1. CASE ~LeaseAvailable(r)
      <3>1. Kept
        BY <1>a, <1>14, <2>1 DEF AcquireLease, Go, dbVars, fileVars, sweepVars, inputVars, flowVars
      <3> QED
        BY <3>1, <1>0
    <2>2. CASE LeaseAvailable(r)
      <3>1. leases' = (leases \ lapsed) \cup {r} /\ client' = client
        BY <1>14, <2>2 DEF AcquireLease, inputVars
      <3>2. \A q \in guarded' : pc'[q] \in UploadPc => q \in leases' \ lapsed'
        BY <1>a, <1>14, <2>2 DEF AcquireLease, Go, dbVars, fileVars, sweepVars, inputVars, flowVars
      <3> QED
        BY <3>1, <3>2, <2>2, <1>b
    <2> QED
      BY <2>1, <2>2
  <1>15. ASSUME NEW r \in Requests, AcceptReport(r) PROVE LeaseInv'
    <2>1. Kept
      BY <1>a, <1>15 DEF AcceptReport, Go, InsertReport, ChallengeValid, RowsOf, Referenced, dbVars, fileVars,
         sweepVars, inputVars, flowVars
    <2> QED
      BY <2>1, <1>0
  <1>16. ASSUME NEW r \in Requests, ReadReceipt(r) PROVE LeaseInv'
    <2>1. Kept
      BY <1>a, <1>16 DEF ReadReceipt, Go, RowsOf, Referenced, dbVars, fileVars, sweepVars, inputVars, flowVars
    <2> QED
      BY <2>1, <1>0
  <1>17. ASSUME NEW r \in Requests, DiscardUpload(r) PROVE LeaseInv'
    <2>1. Kept
      BY <1>a, <1>17 DEF DiscardUpload, StartRemoval, Go, dbVars, fileVars, sweepVars, inputVars, flowVars
    <2> QED
      BY <2>1, <1>0
  <1>18. ASSUME NEW x \in Actors, Finalize(x) PROVE LeaseInv'
    <2>1. Kept
      BY <1>a, <1>18 DEF Finalize, Return, DropStaging, Go, OwnsReport, dbVars, fileVars, sweepVars, inputVars,
         flowVars
    <2> QED
      BY <2>1, <1>0
  <1>19. ASSUME NEW x \in Actors, Rename(x) PROVE LeaseInv'
    <2>1. Kept
      BY <1>a, <1>19 DEF Rename, MoveDirectory, Return, DropStaging, Go, OwnsReport, dbVars, fileVars, sweepVars,
         inputVars, flowVars
    <2> QED
      BY <2>1, <1>0
  <1>20. ASSUME NEW x \in Actors, MarkReady(x) PROVE LeaseInv'
    <2>1. Kept
      BY <1>a, <1>20 DEF MarkReady, SetReady, Return, DropStaging, Go, OwnsReport, dbVars, fileVars, sweepVars,
         inputVars, flowVars
    <2> QED
      BY <2>1, <1>0
  <1>21. ASSUME NEW r \in Requests, Release(r) PROVE LeaseInv'
    <2>1. Kept
      BY <1>a, <1>21 DEF Release, ReleaseLease, Go, dbVars, fileVars, sweepVars, inputVars, flowVars
    <2> QED
      BY <2>1, <1>0
  <1>22. ASSUME NEW r \in Requests, Abandon(r) PROVE LeaseInv'
    <2>1. Kept
      BY <1>a, <1>22 DEF Abandon, StartRemoval, Go, OwnsReport, dbVars, fileVars, sweepVars, inputVars, flowVars
    <2> QED
      BY <2>1, <1>0
  <1>23. ASSUME NEW r \in Requests, RunDrop(r) PROVE LeaseInv'
    <2>1. Kept
      BY <1>a, <1>23 DEF RunDrop, StartRemoval, dbVars, fileVars, sweepVars, inputVars, flowVars
    <2> QED
      BY <2>1, <1>0
  <1>24. ASSUME NEW r \in Requests, RemoveDirectory(r) PROVE LeaseInv'
    <2>1. Kept
      BY <1>a, <1>24 DEF RemoveDirectory, dbVars, fileVars, sweepVars, inputVars, flowVars
    <2> QED
      BY <2>1, <1>0
  <1>25. ASSUME NEW r \in Requests, RunDetached(r) PROVE LeaseInv'
    <2>1. Kept
      BY <1>a, <1>25 DEF RunDetached, MoveDirectory, dbVars, fileVars, sweepVars, inputVars, flowVars
    <2> QED
      BY <2>1, <1>0
  <1>26. ASSUME NEW r \in Requests, ReleaseDropped(r) PROVE LeaseInv'
    <2>1. Kept
      BY <1>a, <1>26 DEF ReleaseDropped, ReleaseLease, dbVars, fileVars, sweepVars, inputVars, flowVars
    <2> QED
      BY <2>1, <1>0
  <1>27. ASSUME NEW r \in Requests, SweepList(r) PROVE LeaseInv'
    <2>1. Kept
      BY <1>a, <1>27 DEF SweepList, MaintenanceRuns, dbVars, fileVars, sweepVars, inputVars, flowVars
    <2> QED
      BY <2>1, <1>0
  <1>28. ASSUME NEW r \in Requests, SweepCheck(r) PROVE LeaseInv'
    <2>1. Kept
      BY <1>a, <1>28 DEF SweepCheck, MaintenanceRuns, dbVars, fileVars, sweepVars, inputVars, flowVars
    <2> QED
      BY <2>1, <1>0
  <1>29. ASSUME NEW r \in Requests, SweepRemove(r) PROVE LeaseInv'
    <2>1. Kept
      BY <1>a, <1>29 DEF SweepRemove, StartRemoval, MaintenanceRuns, dbVars, fileVars, sweepVars, inputVars, flowVars
    <2> QED
      BY <2>1, <1>0
  <1>30. ASSUME NEW s \in Servers, StartServer(s) PROVE LeaseInv'
    <2>1. Kept
      BY <1>a, <1>30 DEF StartServer, Go, Pending, dbVars, fileVars, sweepVars, inputVars, flowVars
    <2> QED
      BY <2>1, <1>0
  <1>31. ASSUME NEW s \in Servers, RecoverNext(s) PROVE LeaseInv'
    <2>1. Kept
      BY <1>a, <1>31 DEF RecoverNext, Go, dbVars, fileVars, sweepVars, inputVars, flowVars
    <2> QED
      BY <2>1, <1>0
  <1>32. CASE UNCHANGED vars
    <2>1. Kept
      BY <1>a, <1>32 DEF vars, dbVars, fileVars, sweepVars, inputVars, flowVars
    <2> QED
      BY <2>1, <1>0
  <1> QED
    BY <1>1, <1>2, <1>3, <1>4, <1>5, <1>6, <1>7, <1>8, <1>9, <1>10, <1>11, <1>12, <1>13, <1>14, <1>15, <1>16,
       <1>17, <1>18, <1>19, <1>20, <1>21, <1>22, <1>23, <1>24, <1>25, <1>26, <1>27, <1>28, <1>29, <1>30, <1>31,
       <1>32 DEF Next, ClientStep, TimeStep, FaultStep, RequestStep, TaskStep, SweepStep, ServerStep

-----------------------------------------------------------------------------

\* The initial state, with no report, no upload and no lease, satisfies every part.
LEMMA InitOK == Init => IngestionInv /\ LeaseInv /\ FilesInv
  <1> SUFFICES ASSUME Init PROVE IngestionInv /\ LeaseInv /\ FilesInv
    OBVIOUS
  <1> USE IngestionAssumption DEF Init, Actors
  <1>1. TypeOK
    BY DEF TypeOK, RequestPc, ServerPc
  <1>2. Referenced = {}
    BY DEF Referenced
  <1>3. \A r \in Requests : pc[r] = "idle"
    OBVIOUS
  <1>4. \A s \in Servers : pc[s] = "serving"
    OBVIOUS
  <1>5. FlowInv /\ OneReportPerSubmission /\ ReportDirectoriesOwned
    BY <1>2, <1>3 DEF FlowInv, OneReportPerSubmission, ReportDirectoriesOwned, UploadPc, FinalizePc, DonePc
  <1>6. TargetInv
    BY <1>2, <1>3, <1>4 DEF TargetInv, FinalizePc
  <1>7. ResultInv
    BY <1>2, <1>3 DEF ResultInv, Referenced
  <1>8. LeaseInv
    <2>1. Cardinality({}) = 0
      BY FS_EmptySet
    <2>2. \A cl : {r \in leases : client[r] = cl} = {}
      OBVIOUS
    <2> QED
      BY <2>1, <2>2 DEF LeaseInv
  <1>9. FilesInv
    BY <1>2, <1>3 DEF FilesInv, FinalizePc
  <1> QED
    BY <1>1, <1>5, <1>6, <1>7, <1>8, <1>9 DEF IngestionInv

\* TypeOK, the shape of the report rows, leases and directories, holds in every reachable state.
THEOREM TypeCorrect == Spec => []TypeOK
  <1>1. Init => TypeOK
    BY InitOK DEF IngestionInv
  <1> QED
    BY <1>1, TypeStep, PTL DEF Spec

\* The inductive invariant holds in every reachable state, whatever fails and whenever.
THEOREM Inductive == Spec => []IngestionInv
  <1>1. IngestionInv /\ [Next]_vars => IngestionInv'
    <2> SUFFICES ASSUME IngestionInv, [Next]_vars PROVE IngestionInv'
      OBVIOUS
    <2>1. TypeOK'
      BY TypeStep DEF IngestionInv
    <2>2. FlowInv' /\ OneReportPerSubmission' /\ TargetInv'
      BY <2>1, FlowStep, OneReportStep, TargetStep
    <2>3. ResultInv' /\ ReportDirectoriesOwned'
      BY <2>1, ResultStep, DirectoriesStep
    <2> QED
      BY <2>1, <2>2, <2>3 DEF IngestionInv
  <1> QED
    BY <1>1, InitOK, PTL DEF Spec

\* However requests and retries interleave and fail, a submission id has at most one report, which
\* used up the challenge of the request that made it (accept_report).
THEOREM OneReport == Spec => []OneReportPerSubmission
  <1>1. IngestionInv => OneReportPerSubmission
    BY DEF IngestionInv
  <1> QED
    BY <1>1, Inductive, PTL

\* Every answered client has a ready report of its own manifest, with its directory in place
\* (submit_report, recover_receipt).
THEOREM ReceiptsHonored == Spec => []ReceiptIsHonored
  <1>1. IngestionInv => ReceiptIsHonored
    BY DEF IngestionInv, ResultInv, ReceiptIsHonored, TypeOK
  <1> QED
    BY <1>1, Inductive, PTL

\* A directory under reports/ has a row and no twin in staging (finalize).
THEOREM DirectoriesOwned == Spec => []ReportDirectoriesOwned
  <1>1. IngestionInv => ReportDirectoriesOwned
    BY DEF IngestionInv
  <1> QED
    BY <1>1, Inductive, PTL

\* The uploads under way respect the global and the per-client limit (acquire_upload_lease).
THEOREM LimitsKept == Spec => []UploadLimits
  <1>1. IngestionInv /\ LeaseInv => UploadLimits
    <2> SUFFICES ASSUME IngestionInv, LeaseInv PROVE UploadLimits
      OBVIOUS
    <2> DEFINE active == {r \in Requests : pc[r] \in UploadPc /\ r \in guarded}
    <2>1. active \subseteq leases
      BY DEF LeaseInv
    <2> QED
      BY <2>1, FewerLeases DEF UploadLimits
  <1>2. IngestionInv /\ IngestionInv' /\ LeaseInv /\ [Next]_vars => LeaseInv'
    BY LeaseStep DEF IngestionInv
  <1> QED
    BY <1>1, <1>2, InitOK, Inductive, PTL DEF Spec

\* If no failure strikes during or after a request's own commit, a committed report's attachments
\* stay whole until they are published: retries, disconnects, crashes and the sweep leave them be.
THEOREM FilesKept ==
    ASSUME "late" \notin Faults
    PROVE  Spec => []CommittedFilesKept
  <1>1. FilesInv => CommittedFilesKept
    BY DEF FilesInv, CommittedFilesKept, Referenced
  <1>2. IngestionInv /\ IngestionInv' /\ FilesInv /\ [Next]_vars => FilesInv'
    BY FilesStep DEF IngestionInv
  <1> QED
    BY <1>1, <1>2, InitOK, Inductive, PTL DEF Spec

-----------------------------------------------------------------------------
(* Ingestion implements the report log: what the clients and the readers of reports see of it. *)

\* A step that leaves every report row, and the set of answered requests, as they are is a
\* stuttering step of the report log.
LEMMA LogQuiet ==
    ASSUME storage' = storage,
           \A q \in Requests : pc'[q] = "ok" <=> pc[q] = "ok",
           \A q \in Requests : q \in Referenced \/ pc[q] = "ok" => manifest'[q] = manifest[q]
    PROVE  UNCHANGED Log!vars
  <1>1. {manifest[u] : u \in Referenced}' = {manifest[u] : u \in Referenced}
    BY DEF Referenced
  <1>2. {manifest[u] : u \in {v \in Requests : storage[v] = "ready"}}'
            = {manifest[u] : u \in {v \in Requests : storage[v] = "ready"}}
    <2>1. \A v \in Requests : storage[v] = "ready" => manifest'[v] = manifest[v]
      BY DEF Referenced
    <2> QED
      BY <2>1
  <1>3. {manifest[r] : r \in {q \in Requests : pc[q] = "ok"}}' = {manifest[r] : r \in {q \in Requests : pc[q] = "ok"}}
    OBVIOUS
  <1> QED
    BY <1>1, <1>2, <1>3 DEF Log!vars

\* The insertion of a report, by a transaction that saw no other with its submission id, accepts
\* its manifest.
LEMMA LogAccept ==
    ASSUME IngestionInv, NEW r \in Requests, pc[r] = "accept",
           RowsOf(manifest[r]) = {}, InsertReport(r), manifest' = manifest,
           \A q \in Requests : pc'[q] = "ok" <=> pc[q] = "ok"
    PROVE  Log!Next
  <1> USE DEF IngestionInv, TypeOK
  <1>1. manifest[r] \in Manifests
    BY DEF FlowInv
  <1>2. Referenced' = Referenced \cup {r}
    BY DEF Referenced, InsertReport
  <1>3. {manifest[u] : u \in Referenced}' = {manifest[u] : u \in Referenced} \cup {manifest[r]}
    BY <1>2
  <1>4. \A n \in {manifest[u] : u \in Referenced} : SubmissionOf[n] # SubmissionOf[manifest[r]]
    BY DEF RowsOf
  <1>5. r \notin Referenced
    BY DEF FlowInv, FinalizePc, DonePc
  <1>6. {v \in Requests : storage'[v] = "ready"} = {v \in Requests : storage[v] = "ready"}
    BY <1>5 DEF InsertReport, Referenced
  <1>7. {manifest[u] : u \in {v \in Requests : storage[v] = "ready"}}'
            = {manifest[u] : u \in {v \in Requests : storage[v] = "ready"}}
    BY <1>6
  <1>8. {manifest[q] : q \in {p \in Requests : pc[p] = "ok"}}' = {manifest[q] : q \in {p \in Requests : pc[p] = "ok"}}
    OBVIOUS
  <1>9. PICK m \in Manifests : m = manifest[r]
    BY <1>1
  <1>10. Log!Accept(m)
    BY <1>3, <1>4, <1>7, <1>8, <1>9 DEF Log!Accept
  <1> QED
    BY <1>10 DEF Log!Next

\* Marking a report ready publishes its manifest, and answers at most a request with that manifest.
LEMMA LogPublish ==
    ASSUME IngestionInv, NEW u \in Referenced, SetReady(u), manifest' = manifest,
           \/ \A q \in Requests : pc'[q] = "ok" <=> pc[q] = "ok"
           \/ \E r \in Requests : /\ manifest[r] = manifest[u]
                                  /\ \A q \in Requests : pc'[q] = "ok" <=> pc[q] = "ok" \/ q = r
    PROVE  Log!Next
  <1> USE DEF IngestionInv, TypeOK
  <1>1. u \in Requests /\ manifest[u] \in Manifests
    BY DEF FlowInv, Referenced, FinalizePc, DonePc
  <1>2. Referenced' = Referenced
    BY DEF Referenced, SetReady
  <1>3. {manifest[v] : v \in Referenced}' = {manifest[v] : v \in Referenced}
    BY <1>2
  <1>4. {v \in Requests : storage'[v] = "ready"} = {v \in Requests : storage[v] = "ready"} \cup {u}
    BY <1>1 DEF SetReady, Referenced
  <1>5. {manifest[w] : w \in {v \in Requests : storage[v] = "ready"}}'
            = {manifest[w] : w \in {v \in Requests : storage[v] = "ready"}} \cup {manifest[u]}
    BY <1>4
  <1> DEFINE receipts == {manifest[q] : q \in {p \in Requests : pc[p] = "ok"}}
  <1>6. receipts' \in {receipts, receipts \cup {manifest[u]}}
    <2>1. CASE \A q \in Requests : pc'[q] = "ok" <=> pc[q] = "ok"
      BY <2>1
    <2>2. ASSUME NEW r \in Requests, manifest[r] = manifest[u],
                 \A q \in Requests : pc'[q] = "ok" <=> pc[q] = "ok" \/ q = r
          PROVE  receipts' = receipts \cup {manifest[u]}
      <3>1. {p \in Requests : pc'[p] = "ok"} = {p \in Requests : pc[p] = "ok"} \cup {r}
        BY <2>2
      <3> QED
        BY <3>1, <2>2
    <2> QED
      BY <2>1, <2>2
  <1>7. PICK m \in Manifests : m = manifest[u]
    BY <1>1
  <1>8. Log!Publish(m)
    BY <1>3, <1>5, <1>6, <1>7 DEF Log!Publish
  <1> QED
    BY <1>8 DEF Log!Next

\* Answering a request with the receipt of a ready report is an answer of the log.
LEMMA LogAnswer ==
    ASSUME IngestionInv, NEW r \in Requests, NEW u \in Requests, storage[u] = "ready",
      manifest[u] = manifest[r],
           storage' = storage, manifest' = manifest,
           \A q \in Requests : pc'[q] = "ok" <=> pc[q] = "ok" \/ q = r
    PROVE  Log!Next
  <1> USE DEF IngestionInv, TypeOK
  <1>1. manifest[u] \in Manifests
    BY DEF FlowInv, Referenced, FinalizePc, DonePc
  <1>2. {manifest[v] : v \in Referenced}' = {manifest[v] : v \in Referenced}
    BY DEF Referenced
  <1>3. {manifest[w] : w \in {v \in Requests : storage[v] = "ready"}}'
            = {manifest[w] : w \in {v \in Requests : storage[v] = "ready"}}
    OBVIOUS
  <1>4. {p \in Requests : pc'[p] = "ok"} = {p \in Requests : pc[p] = "ok"} \cup {r}
    OBVIOUS
  <1>5. {manifest[q] : q \in {p \in Requests : pc[p] = "ok"}}'
            = {manifest[q] : q \in {p \in Requests : pc[p] = "ok"}} \cup {manifest[u]}
    BY <1>4
  <1>6. PICK m \in Manifests : m = manifest[u]
    BY <1>1
  <1>7. Log!Answer(m)
    BY <1>2, <1>3, <1>5, <1>6 DEF Log!Answer
  <1> QED
    BY <1>7 DEF Log!Next

\* Every step of ingestion is a step of the report log, or none of its business.
LEMMA LogStep == IngestionInv /\ TypeOK' /\ [Next]_vars => [Log!Next]_(Log!vars)
  <1> SUFFICES ASSUME IngestionInv, TypeOK', [Next]_vars PROVE [Log!Next]_(Log!vars)
    OBVIOUS
  <1> DEFINE Quiet ==
        /\ storage' = storage
        /\ \A q \in Requests : pc'[q] = "ok" <=> pc[q] = "ok"
        /\ \A q \in Requests : q \in Referenced \/ pc[q] = "ok" => manifest'[q] = manifest[q]
  <1>0. Quiet => [Log!Next]_(Log!vars)
    BY LogQuiet
  <1> USE IngestionAssumption DEF Actors, RequestPc, ServerPc, UploadPc, FinalizePc, DonePc, Referenced, IngestionInv, TypeOK, FlowInv
  <1>1. ASSUME NEW c \in Challenges, NEW m \in Manifests, IssueChallenge(c, m) PROVE [Log!Next]_(Log!vars)
    <2>1. Quiet
      BY <1>1 DEF IssueChallenge, dbVars, fileVars, sweepVars, inputVars, flowVars
    <2> QED
      BY <2>1, <1>0
  <1>2. ASSUME NEW r \in Requests, NEW s \in Servers, NEW m \in Manifests, NEW c \in Challenges,
        NEW cl \in Clients, Submit(r, s, m, c, cl)
        PROVE [Log!Next]_(Log!vars)
    <2>1. Quiet
      BY <1>2 DEF Submit, Go, dbVars, fileVars, sweepVars, inputVars, flowVars
    <2> QED
      BY <2>1, <1>0
  <1>3. ASSUME NEW c \in Challenges, ExpireChallenge(c) PROVE [Log!Next]_(Log!vars)
    <2>1. Quiet
      BY <1>3 DEF ExpireChallenge, dbVars, fileVars, sweepVars, inputVars, flowVars
    <2> QED
      BY <2>1, <1>0
  <1>4. ASSUME NEW r \in Requests, LapseLease(r) PROVE [Log!Next]_(Log!vars)
    <2>1. Quiet
      BY <1>4 DEF LapseLease, dbVars, fileVars, sweepVars, inputVars, flowVars
    <2> QED
      BY <2>1, <1>0
  <1>5. ASSUME NEW x \in Actors, Fail(x) PROVE [Log!Next]_(Log!vars)
    <2>1. Quiet
      BY <1>5 DEF Fail, Go, Return, DropStaging, FaultOf, OwnsReport, dbVars, fileVars, sweepVars, inputVars,
         flowVars
    <2> QED
      BY <2>1, <1>0
  <1>6. ASSUME NEW r \in Requests, CommitUnacknowledged(r) PROVE [Log!Next]_(Log!vars)
    <2>1. manifest' = manifest /\ \A q \in Requests : pc'[q] = "ok" <=> pc[q] = "ok"
      BY <1>6 DEF CommitUnacknowledged, InsertReport, Go, ChallengeValid, RowsOf, dbVars, fileVars, sweepVars,
         inputVars, flowVars
    <2>2. pc[r] = "accept" /\ RowsOf(manifest[r]) = {} /\ InsertReport(r)
      BY <1>6 DEF CommitUnacknowledged
    <2> QED
      BY <2>1, <2>2, LogAccept
  <1>7. ASSUME NEW r \in Requests, MarkUnacknowledged(r) PROVE [Log!Next]_(Log!vars)
    <2>1. manifest' = manifest /\ \A q \in Requests : pc'[q] = "ok" <=> pc[q] = "ok"
      BY <1>7 DEF MarkUnacknowledged, SetReady, Return, DropStaging, Go, FaultOf, OwnsReport, dbVars, fileVars,
         sweepVars, inputVars, flowVars
    <2>2. target[r] \in Referenced /\ SetReady(target[r])
      BY <1>7 DEF MarkUnacknowledged, IngestionInv, TargetInv, Actors, FinalizePc
    <2> QED
      BY <2>1, <2>2, LogPublish
  <1>8. ASSUME NEW r \in Requests, Disconnect(r) PROVE [Log!Next]_(Log!vars)
    <2>1. Quiet
      BY <1>8 DEF Disconnect, Go, OwnsReport, dbVars, fileVars, sweepVars, inputVars, flowVars
    <2> QED
      BY <2>1, <1>0
  <1>9. ASSUME NEW r \in Requests, RemovalFails(r) PROVE [Log!Next]_(Log!vars)
    <2>1. Quiet
      BY <1>9 DEF RemovalFails, dbVars, fileVars, sweepVars, inputVars, flowVars
    <2> QED
      BY <2>1, <1>0
  <1>10. ASSUME NEW s \in Servers, Crash(s) PROVE [Log!Next]_(Log!vars)
    <2>1. Quiet
      BY <1>10 DEF Crash, dbVars, fileVars, sweepVars, inputVars, flowVars
    <2> QED
      BY <2>1, <1>0
  <1>11. ASSUME SweepExpired PROVE [Log!Next]_(Log!vars)
    <2>1. Quiet
      BY <1>11 DEF SweepExpired, MaintenanceRuns, dbVars, fileVars, sweepVars, inputVars, flowVars
    <2> QED
      BY <2>1, <1>0
  <1>12. ASSUME NEW r \in Requests, FindReceipt(r) PROVE [Log!Next]_(Log!vars)
    <2>1. storage' = storage /\ manifest' = manifest
      BY <1>12 DEF FindReceipt, dbVars, inputVars
    <2>2. \/ \A q \in Requests : pc'[q] = "ok" <=> pc[q] = "ok"
          \/ \E u \in Requests : storage[u] = "ready" /\ manifest[u] = manifest[r] /\ \A q \in Requests : pc'[q] = "ok" <=> pc[q] = "ok" \/ q = r
      BY <1>12 DEF FindReceipt, Go, RowsOf, dbVars, fileVars, sweepVars, inputVars, flowVars
    <2> QED
      BY <1>0, <2>1, <2>2, LogAnswer
  <1>13. ASSUME NEW r \in Requests, BeginStaging(r) PROVE [Log!Next]_(Log!vars)
    <2>1. Quiet
      BY <1>13 DEF BeginStaging, Go, dbVars, fileVars, sweepVars, inputVars, flowVars
    <2> QED
      BY <2>1, <1>0
  <1>14. ASSUME NEW r \in Requests, AcquireLease(r) PROVE [Log!Next]_(Log!vars)
    <2>1. Quiet
      BY <1>14 DEF AcquireLease, Go, dbVars, fileVars, sweepVars, inputVars, flowVars
    <2> QED
      BY <2>1, <1>0
  <1>15. ASSUME NEW r \in Requests, AcceptReport(r) PROVE [Log!Next]_(Log!vars)
    <2>1. manifest' = manifest /\ \A q \in Requests : pc'[q] = "ok" <=> pc[q] = "ok"
      BY <1>15 DEF AcceptReport, Go, InsertReport, ChallengeValid, RowsOf, dbVars, fileVars, sweepVars,
         inputVars, flowVars
    <2>2. CASE storage' = storage
      BY <1>0, <2>1, <2>2
    <2>3. CASE pc[r] = "accept" /\ RowsOf(manifest[r]) = {} /\ InsertReport(r)
      BY <2>1, <2>3, LogAccept
    <2> QED
      BY <1>15, <2>2, <2>3 DEF AcceptReport
  <1>16. ASSUME NEW r \in Requests, ReadReceipt(r) PROVE [Log!Next]_(Log!vars)
    <2>1. Quiet
      BY <1>16 DEF ReadReceipt, Go, RowsOf, dbVars, fileVars, sweepVars, inputVars, flowVars
    <2> QED
      BY <2>1, <1>0
  <1>17. ASSUME NEW r \in Requests, DiscardUpload(r) PROVE [Log!Next]_(Log!vars)
    <2>1. Quiet
      BY <1>17 DEF DiscardUpload, StartRemoval, Go, dbVars, fileVars, sweepVars, inputVars, flowVars
    <2> QED
      BY <2>1, <1>0
  <1>18. ASSUME NEW x \in Actors, Finalize(x) PROVE [Log!Next]_(Log!vars)
    <2>1. Quiet
      BY <1>18 DEF Finalize, Return, DropStaging, Go, OwnsReport, dbVars, fileVars, sweepVars, inputVars,
         flowVars
    <2> QED
      BY <2>1, <1>0
  <1>19. ASSUME NEW x \in Actors, Rename(x) PROVE [Log!Next]_(Log!vars)
    <2>1. Quiet
      BY <1>19 DEF Rename, MoveDirectory, Return, DropStaging, Go, OwnsReport, dbVars, fileVars, sweepVars,
         inputVars, flowVars
    <2> QED
      BY <2>1, <1>0
  <1>20. ASSUME NEW x \in Actors, MarkReady(x) PROVE [Log!Next]_(Log!vars)
    <2>1. manifest' = manifest
      BY <1>20 DEF MarkReady, inputVars
    <2>2. target[x] \in Referenced /\ SetReady(target[x])
      BY <1>20 DEF MarkReady, IngestionInv, TargetInv, FinalizePc
    <2>3. x \in Requests => manifest[x] = manifest[target[x]]
      BY <1>20 DEF MarkReady, IngestionInv, TargetInv, FinalizePc
    <2>4. \/ \A q \in Requests : pc'[q] = "ok" <=> pc[q] = "ok"
          \/ x \in Requests /\ \A q \in Requests : pc'[q] = "ok" <=> pc[q] = "ok" \/ q = x
      BY <1>20 DEF MarkReady, SetReady, Return, DropStaging, Go, OwnsReport, dbVars, fileVars, sweepVars,
         inputVars, flowVars
    <2> QED
      BY <2>1, <2>2, <2>3, <2>4, LogPublish
  <1>21. ASSUME NEW r \in Requests, Release(r) PROVE [Log!Next]_(Log!vars)
    <2>1. storage' = storage /\ manifest' = manifest
      BY <1>21 DEF Release, ReleaseLease, inputVars
    <2>2. CASE result[r] = None
      <3>1. Quiet
        BY <1>21, <2>2 DEF Release, ReleaseLease, Go, dbVars, fileVars, sweepVars, inputVars, flowVars
      <3> QED
        BY <3>1, <1>0
    <2>3. CASE result[r] # None
      <3>1. result[r] \in Requests /\ storage[result[r]] = "ready" /\ manifest[result[r]] = manifest[r]
        BY <2>3 DEF IngestionInv, ResultInv, TypeOK
      <3>2. \A q \in Requests : pc'[q] = "ok" <=> pc[q] = "ok" \/ q = r
        BY <1>21, <2>3 DEF Release, ReleaseLease, Go, dbVars, fileVars, sweepVars, inputVars, flowVars
      <3> QED
        BY <2>1, <3>1, <3>2, LogAnswer
    <2> QED
      BY <2>2, <2>3
  <1>22. ASSUME NEW r \in Requests, Abandon(r) PROVE [Log!Next]_(Log!vars)
    <2>1. Quiet
      BY <1>22 DEF Abandon, StartRemoval, Go, OwnsReport, dbVars, fileVars, sweepVars, inputVars, flowVars
    <2> QED
      BY <2>1, <1>0
  <1>23. ASSUME NEW r \in Requests, RunDrop(r) PROVE [Log!Next]_(Log!vars)
    <2>1. Quiet
      BY <1>23 DEF RunDrop, StartRemoval, dbVars, fileVars, sweepVars, inputVars, flowVars
    <2> QED
      BY <2>1, <1>0
  <1>24. ASSUME NEW r \in Requests, RemoveDirectory(r) PROVE [Log!Next]_(Log!vars)
    <2>1. Quiet
      BY <1>24 DEF RemoveDirectory, dbVars, fileVars, sweepVars, inputVars, flowVars
    <2> QED
      BY <2>1, <1>0
  <1>25. ASSUME NEW r \in Requests, RunDetached(r) PROVE [Log!Next]_(Log!vars)
    <2>1. Quiet
      BY <1>25 DEF RunDetached, MoveDirectory, dbVars, fileVars, sweepVars, inputVars, flowVars
    <2> QED
      BY <2>1, <1>0
  <1>26. ASSUME NEW r \in Requests, ReleaseDropped(r) PROVE [Log!Next]_(Log!vars)
    <2>1. Quiet
      BY <1>26 DEF ReleaseDropped, ReleaseLease, dbVars, fileVars, sweepVars, inputVars, flowVars
    <2> QED
      BY <2>1, <1>0
  <1>27. ASSUME NEW r \in Requests, SweepList(r) PROVE [Log!Next]_(Log!vars)
    <2>1. Quiet
      BY <1>27 DEF SweepList, MaintenanceRuns, dbVars, fileVars, sweepVars, inputVars, flowVars
    <2> QED
      BY <2>1, <1>0
  <1>28. ASSUME NEW r \in Requests, SweepCheck(r) PROVE [Log!Next]_(Log!vars)
    <2>1. Quiet
      BY <1>28 DEF SweepCheck, MaintenanceRuns, dbVars, fileVars, sweepVars, inputVars, flowVars
    <2> QED
      BY <2>1, <1>0
  <1>29. ASSUME NEW r \in Requests, SweepRemove(r) PROVE [Log!Next]_(Log!vars)
    <2>1. Quiet
      BY <1>29 DEF SweepRemove, StartRemoval, MaintenanceRuns, dbVars, fileVars, sweepVars, inputVars, flowVars
    <2> QED
      BY <2>1, <1>0
  <1>30. ASSUME NEW s \in Servers, StartServer(s) PROVE [Log!Next]_(Log!vars)
    <2>1. Quiet
      BY <1>30 DEF StartServer, Go, Pending, dbVars, fileVars, sweepVars, inputVars, flowVars
    <2> QED
      BY <2>1, <1>0
  <1>31. ASSUME NEW s \in Servers, RecoverNext(s) PROVE [Log!Next]_(Log!vars)
    <2>1. Quiet
      BY <1>31 DEF RecoverNext, Go, dbVars, fileVars, sweepVars, inputVars, flowVars
    <2> QED
      BY <2>1, <1>0
  <1>32. CASE UNCHANGED vars
    <2>1. Quiet
      BY <1>32 DEF vars, dbVars, fileVars, sweepVars, inputVars, flowVars
    <2> QED
      BY <2>1, <1>0
  <1> QED
    BY <1>1, <1>2, <1>3, <1>4, <1>5, <1>6, <1>7, <1>8, <1>9, <1>10, <1>11, <1>12, <1>13, <1>14, <1>15, <1>16,
       <1>17, <1>18, <1>19, <1>20, <1>21, <1>22, <1>23, <1>24, <1>25, <1>26, <1>27, <1>28, <1>29, <1>30, <1>31,
       <1>32 DEF Next, ClientStep, TimeStep, FaultStep, RequestStep, TaskStep, SweepStep, ServerStep

\* Every behaviour of ingestion, with all its retries and failures, is a behaviour of the report
\* log: its initial states and its steps map to the log's (ImplementsReportLog).
THEOREM Refinement == Spec => ImplementsReportLog
  <1>1. Init => Log!Init
    BY DEF Init, Log!Init, Referenced, Actors
  <1>2. IngestionInv /\ IngestionInv' /\ [Next]_vars => [Log!Next]_(Log!vars)
    BY LogStep DEF IngestionInv
  <1> QED
    BY <1>1, <1>2, Inductive, PTL DEF Spec, ImplementsReportLog, Log!Spec
=============================================================================
