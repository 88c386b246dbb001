------------------------- MODULE WorkspaceStoreProofs -------------------------
(***************************************************************************)
(* Proofs about WorkspaceStore, for every value of its constants.  First   *)
(* the types and the history; then what the store promises its callers:    *)
(* what is decided is never rewritten, stages expire on time, commits and  *)
(* revisions correspond, retries stand, the log tells what became of each  *)
(* import, the counts add up, and the store implements the ledger.         *)
(***************************************************************************)
EXTENDS WorkspaceStore, FiniteSetTheorems, WellFoundedInduction, TLAPS

(* Tables. *)

\* Inserting or updating a row of the right type keeps a table one of its type.
LEMMA PutTyped ==
    ASSUME NEW table, NEW Keys, NEW Rows, NEW key \in Keys, NEW row \in Rows,
           IsTableOf(table, Keys, Rows)
    PROVE  IsTableOf(Put(table, key, row), Keys, Rows)
BY DEF IsTableOf, IsTable, Put

\* Inserting a row adds one key, so a finite table stays finite.
LEMMA PutFinite ==
    ASSUME NEW table, NEW key, NEW row, IsFiniteSet(DOMAIN table)
    PROVE  IsFiniteSet(DOMAIN Put(table, key, row))
<1>1. DOMAIN Put(table, key, row) = DOMAIN table \cup {key}
  BY DEF Put
<1>2. IsFiniteSet(DOMAIN table \cup {key})
  BY FS_AddElement
<1> QED
  BY <1>1, <1>2

(* The invariance of TypeOK. *)

\* Signing one more entry leaves a log of entries.
LEMMA AppendTyped ==
    ASSUME NEW entry \in AuditEntries, TypeOK, AppendAudit(entry)
    PROVE  audit' \in Seq(AuditEntries)
BY DEF TypeOK, AppendAudit

\* The next sequence number is one.
LEMMA NextSeqTyped == TypeOK => NextSeq \in Nat
BY DEF TypeOK, NextSeq

\* Storing a response keeps the idempotency table one.
LEMMA ResponseTyped ==
    ASSUME TypeOK, NEW req \in Requests, NEW call, NEW response, NEW seq \in Nat,
           StoreResponse(req, call, response, seq)
    PROVE  /\ IsTable(idempotency')
           /\ DOMAIN idempotency' \subseteq Requests
           /\ \A r \in DOMAIN idempotency' : idempotency'[r].auditSeq \in Nat
BY DEF TypeOK, StoreResponse, Put, IsTable

\* The earliest of a non-empty set of positions in the log is one of them.
LEMMA EarliestIn ==
    ASSUME NEW seqs \in SUBSET Nat, seqs # {}
    PROVE  Earliest(seqs) \in seqs
<1> DEFINE Less == OpToRel(<, Nat)
<1>1. \A x, y \in Nat : x < y => <<x, y>> \in Less
  BY DEF OpToRel
<1>2. IsWellFoundedOn(Less, Nat)
  BY NatLessThanWellFounded
<1> HIDE DEF Less
<1>3. \E n \in seqs : \A m \in seqs : <<m, n>> \notin Less
  BY <1>2, WFMin
<1>4. PICK n \in seqs : \A m \in seqs : <<m, n>> \notin Less
  BY <1>3
<1>5. ASSUME NEW m \in seqs PROVE n <= m
  <2>1. n \in Nat /\ m \in Nat
    OBVIOUS
  <2>2. ~(m < n)
    BY <1>1, <1>4, <2>1
  <2> QED
    BY <2>1, <2>2
<1> QED
  BY <1>5 DEF Earliest

\* The positions a replayed answer may name are positions of the log.
LEMMA LookupTyped ==
    ASSUME TypeOK, NEW seqs \in SUBSET DOMAIN audit, seqs # {}
    PROVE  Earliest(seqs) \in DOMAIN audit /\ Earliest(seqs) \in Nat
<1>1. DOMAIN audit \subseteq Nat
  BY DEF TypeOK
<1>2. Earliest(seqs) \in seqs
  BY <1>1, EarliestIn
<1> QED
  BY <1>1, <1>2

\* The graph a commit makes is one.
LEMMA GraphTyped ==
    ASSUME TypeOK, NEW b \in Batches
    PROVE  GraphAfter(b) \in Graphs
BY DEF TypeOK, GraphAfter, Graphs, Pinned, AllSteps, AllOrigins

\* The result of a commit is one, its counts included.
LEMMA ResultTyped ==
    ASSUME TypeOK, NEW b \in Batches, traces[b.trace] \in Nat
    PROVE  CommitResult(b) \in CommitResults
<1>1. b.trace \in Traces /\ IsFiniteSet(b.steps)
  BY BatchAssumption
<1>2. IsFiniteSet(AddedSteps(b)) /\ IsFiniteSet(b.steps \cap steps)
  BY <1>1, FS_Subset DEF AddedSteps
<1>3. IsFiniteSet(FirstVersions(b))
  <2> DEFINE keys == {<<s.source, s.record>> : s \in AddedSteps(b)}
  <2>1. IsFiniteSet(keys)
    <3> DEFINE f == [s \in AddedSteps(b) |-> <<s.source, s.record>>]
    <3>1. f \in Surjection(AddedSteps(b), keys)
      BY DEF Surjection
    <3> HIDE DEF f, keys
    <3> QED
      BY <1>2, <3>1, FS_Surjection
  <2>2. FirstVersions(b) \subseteq keys
    BY DEF FirstVersions
  <2> HIDE DEF keys
  <2> QED
    BY <2>1, <2>2, FS_Subset
<1>4. /\ Cardinality(AddedSteps(b)) \in Nat
      /\ Cardinality(b.steps \cap steps) \in Nat
      /\ Cardinality(FirstVersions(b)) \in Nat
  BY <1>2, <1>3, FS_CardinalityType
<1>5. NextSeq \in Nat /\ NextRevision(b.trace) \in Nat
  BY NextSeqTyped DEF NextRevision
<1> QED
  BY <1>1, <1>4, <1>5, GraphTyped DEF CommitResult, CommitResults

\* A query over the log yields positions of the log.
LEMMA LookupsAreInLog ==
    /\ \A s : Registrations(s) \subseteq DOMAIN audit
    /\ \A tr : Creations(tr) \subseteq DOMAIN audit
    /\ \A i : /\ Stagings(i) \subseteq DOMAIN audit
              /\ Commits(i) \subseteq DOMAIN audit
              /\ Cancellations(i) \subseteq DOMAIN audit
BY DEF Registrations, Creations, Stagings, Commits, Cancellations

\* A call that repeats what another request did touches the idempotency table only.
LEMMA AgainTyped ==
    ASSUME TypeOK, NEW req \in Requests, NEW call, NEW response,
           NEW seqs \in SUBSET DOMAIN audit, seqs # {},
           StoreResponse(req, call, response, Earliest(seqs)),
           UNCHANGED <<state, now, sources, traces, content, imports, audit>>
    PROVE  TypeOK'
<1>1. Earliest(seqs) \in Nat
  BY LookupTyped
<1>2. /\ IsTable(idempotency')
      /\ DOMAIN idempotency' \subseteq Requests
      /\ \A r \in DOMAIN idempotency' : idempotency'[r].auditSeq \in Nat
  BY <1>1, ResponseTyped
<1> QED
  BY <1>2 DEF TypeOK, content

\* An import row that turns committed or cancelled stays a row.
LEMMA DecidedRowsTyped ==
    ASSUME TypeOK, NEW i \in DOMAIN imports
    PROVE  /\ imports[i].batch \in Batches
           /\ imports[i].expires \in Nat
           /\ \A result \in CommitResults : CommittedRow(imports[i], result) \in ImportRows
           /\ \A reason \in Reasons : CancelledRow(imports[i], reason) \in ImportRows
<1>1. imports[i] \in ImportRows
  BY DEF TypeOK, IsTableOf
<1>2. imports[i].batch \in Batches /\ imports[i].expires \in Nat
  BY <1>1 DEF ImportRows
<1> QED
  BY <1>2 DEF ImportRows, CommittedRow, CancelledRow


\* A fresh workspace is well typed.
LEMMA InitTyped == Init => TypeOK
<1> SUFFICES ASSUME Init PROVE TypeOK
  OBVIOUS
<1>1. DOMAIN EmptyTable = {} /\ IsTable(EmptyTable)
  BY DEF EmptyTable, IsTable
<1>2. IsFiniteSet(DOMAIN imports)
  BY <1>1, FS_EmptySet DEF Init
<1>3. audit \in Seq(AuditEntries)
  BY DEF Init, AuditEntries, AuditRequests
<1> QED
  BY <1>1, <1>2, <1>3 DEF Init, TypeOK, ServiceStates, IsTableOf

\* Registering a source keeps the types.
LEMMA SourceRegisterTyped ==
    ASSUME TypeOK, NEW req \in Requests, NEW s \in Sources, NEW body \in Profiles,
           SourceRegister(req, s, body)
    PROVE  TypeOK'
<1> DEFINE entry == [kind |-> "SourceRegistered", request |-> req, source |-> s, body |-> body]
<1>1. entry \in AuditEntries
  BY DEF AuditEntries, AuditRequests
<1>2. audit' \in Seq(AuditEntries)
  BY <1>1, AppendTyped DEF SourceRegister
<1>3. IsTableOf(sources', Sources, Profiles)
  BY PutTyped DEF SourceRegister, TypeOK
<1>4. /\ IsTable(idempotency')
      /\ DOMAIN idempotency' \subseteq Requests
      /\ \A r \in DOMAIN idempotency' : idempotency'[r].auditSeq \in Nat
  BY NextSeqTyped, ResponseTyped DEF SourceRegister
<1> QED
  BY <1>2, <1>3, <1>4 DEF TypeOK, SourceRegister, content

\* Creating a trace keeps the types.
LEMMA TraceCreateTyped ==
    ASSUME TypeOK, NEW req \in Requests, NEW tr \in Traces, TraceCreate(req, tr)
    PROVE  TypeOK'
<1> DEFINE entry == [kind |-> "TraceCreated", request |-> req, trace |-> tr]
           row == [graph |-> EmptyGraph, auditSeq |-> NextSeq]
<1>1. entry \in AuditEntries
  BY DEF AuditEntries, AuditRequests
<1>2. audit' \in Seq(AuditEntries)
  BY <1>1, AppendTyped DEF TraceCreate
<1>3. IsTableOf(traces', Traces, Nat)
  BY PutTyped DEF TraceCreate, TypeOK
<1>4. IsTableOf(revisions', Traces \X Nat, RevisionRows)
  <2>1. row \in RevisionRows
    BY NextSeqTyped DEF RevisionRows, Graphs, EmptyGraph
  <2>2. <<tr, 0>> \in Traces \X Nat
    OBVIOUS
  <2>3. IsTableOf(revisions, Traces \X Nat, RevisionRows)
    BY DEF TypeOK
  <2>4. revisions' = Put(revisions, <<tr, 0>>, row)
    BY DEF TraceCreate
  <2> HIDE DEF row
  <2> QED
    BY <2>1, <2>2, <2>3, <2>4, PutTyped
<1>5. /\ IsTable(idempotency')
      /\ DOMAIN idempotency' \subseteq Requests
      /\ \A r \in DOMAIN idempotency' : idempotency'[r].auditSeq \in Nat
  BY NextSeqTyped, ResponseTyped DEF TraceCreate
<1> QED
  BY <1>2, <1>3, <1>4, <1>5 DEF TypeOK, TraceCreate

\* A reading of the clock is a time, and a whole second of it too.
LEMMA ReadingTyped ==
    ASSUME TypeOK, NEW t \in Readings
    PROVE  t \in Nat /\ Seconds(t) \in Nat
<1>1. t \in Nat
  BY NumberAssumption DEF TypeOK, Readings
<1> QED
  BY <1>1, NumberAssumption, SMTT(30) DEF Seconds

\* Staging an import keeps the types.
LEMMA ImportStageTyped ==
    ASSUME TypeOK, NEW req \in Requests, NEW i \in Imports, NEW b \in Batches,
           ImportStage(req, i, b)
    PROVE  TypeOK'
<1> DEFINE entry == [kind |-> "ImportStaged", request |-> req, import |-> i, batch |-> b]
<1>1. entry \in AuditEntries
  BY DEF AuditEntries, AuditRequests
<1>2. audit' \in Seq(AuditEntries)
  BY <1>1, AppendTyped DEF ImportStage
<1>3. PICK t \in Readings :
          /\ now' = t
          /\ imports' = Put(imports, i, [state |-> "STAGED", batch |-> b,
                                         expires |-> Seconds(t) + StageTtl])
  BY DEF ImportStage
<1> DEFINE row == [state |-> "STAGED", batch |-> b, expires |-> Seconds(t) + StageTtl]
<1>4. now' \in Nat /\ Seconds(t) + StageTtl \in Nat
  BY <1>3, ReadingTyped, NumberAssumption
<1>5. row \in ImportRows
  BY <1>4 DEF ImportRows
<1>6. IsTableOf(imports', Imports, ImportRows) /\ IsFiniteSet(DOMAIN imports')
  BY <1>3, <1>5, PutTyped, PutFinite DEF TypeOK
<1>7. /\ IsTable(idempotency')
      /\ DOMAIN idempotency' \subseteq Requests
      /\ \A r \in DOMAIN idempotency' : idempotency'[r].auditSeq \in Nat
  BY NextSeqTyped, ResponseTyped DEF ImportStage
<1> QED
  BY <1>2, <1>4, <1>6, <1>7 DEF TypeOK, ImportStage, content

\* Committing an import keeps the types.
LEMMA ImportCommitTyped ==
    ASSUME TypeOK, NEW req \in Requests, NEW i \in Imports, NEW expected \in 0..MaxRevision,
           ImportCommit(req, i, expected)
    PROVE  TypeOK'
<1> DEFINE b == imports[i].batch
           result == CommitResult(b)
           entry == [kind |-> "ImportCommitted", request |-> req, import |-> i, batch |-> b,
                     trace |-> b.trace, revision |-> result.revision, graph |-> result.graph]
           row == [graph |-> result.graph, auditSeq |-> NextSeq]
<1>1. i \in DOMAIN imports /\ b \in Batches
  BY DecidedRowsTyped DEF ImportCommit
<1>2. b.trace \in Traces /\ traces[b.trace] \in Nat
  BY <1>1, BatchAssumption, NumberAssumption DEF ImportCommit, HeadIs
<1>3. result \in CommitResults
  BY <1>1, <1>2, ResultTyped
<1>4. result.revision \in Nat /\ result.graph \in Graphs
  BY <1>3 DEF CommitResults
<1>5. b.steps \subseteq AllSteps /\ b.origins \subseteq AllOrigins
  BY <1>1 DEF AllSteps, AllOrigins
<1>6. \A a \in b.artifacts : a.digest \in Digests /\ a.format \in Formats
  BY <1>1 DEF Digests, Formats
<1>7. now' \in Nat
  BY ReadingTyped DEF ImportCommit
<1>8. IsTableOf(traces', Traces, Nat)
  <2>1. traces' = Put(traces, b.trace, result.revision)
    BY DEF ImportCommit
  <2> HIDE DEF result
  <2> QED
    BY <1>2, <1>4, <2>1, PutTyped DEF TypeOK
<1>9. IsTableOf(natives', {<<s.source, s.native>> : s \in AllSteps}, Traces)
  <2>1. natives' = Bound(b)
    BY DEF ImportCommit
  <2> QED
    BY <1>2, <1>5, <2>1 DEF TypeOK, IsTableOf, IsTable, Bound
<1>10. steps' \subseteq AllSteps /\ origins' \subseteq AllOrigins
  BY <1>5 DEF TypeOK, ImportCommit
<1>11. IsTableOf(artifacts', Digests, Formats) /\ files' \subseteq Digests
  <2>1. artifacts' = WithArtifacts(b) /\ files' = files \cup NewDigests(b)
    BY DEF ImportCommit
  <2>2. ASSUME NEW d, \E a \in b.artifacts : d = a.digest
        PROVE  (CHOOSE a \in b.artifacts : a.digest = d).format \in Formats
    BY <1>6, <2>2
  <2> QED
    BY <1>6, <2>1, <2>2 DEF TypeOK, IsTableOf, IsTable, WithArtifacts, NewDigests
<1>12. IsTableOf(imports', Imports, ImportRows) /\ IsFiniteSet(DOMAIN imports')
  <2>1. imports' = Put(imports, i, CommittedRow(imports[i], result))
    BY DEF ImportCommit
  <2>2. CommittedRow(imports[i], result) \in ImportRows
    BY <1>1, <1>3, DecidedRowsTyped
  <2> HIDE DEF result
  <2> QED
    BY <2>1, <2>2, PutTyped, PutFinite DEF TypeOK
<1>13. IsTableOf(revisions', Traces \X Nat, RevisionRows)
  <2>1. revisions' = Put(revisions, <<b.trace, result.revision>>, row)
    BY DEF ImportCommit
  <2>2. row \in RevisionRows
    BY <1>4, NextSeqTyped DEF RevisionRows
  <2>3. <<b.trace, result.revision>> \in Traces \X Nat
    BY <1>2, <1>4
  <2>4. IsTableOf(revisions, Traces \X Nat, RevisionRows)
    BY DEF TypeOK
  <2> HIDE DEF row, result
  <2> QED
    BY <2>1, <2>2, <2>3, <2>4, PutTyped
<1>14. audit' \in Seq(AuditEntries)
  <2>1. entry \in AuditEntries
    BY <1>1, <1>2, <1>4 DEF AuditEntries, AuditRequests
  <2>2. AppendAudit(entry)
    BY DEF ImportCommit
  <2> HIDE DEF entry
  <2> QED
    BY <2>1, <2>2, AppendTyped
<1>15. /\ IsTable(idempotency')
       /\ DOMAIN idempotency' \subseteq Requests
       /\ \A r \in DOMAIN idempotency' : idempotency'[r].auditSeq \in Nat
  BY NextSeqTyped, ResponseTyped DEF ImportCommit
<1>16. state' \in ServiceStates /\ sources' = sources
  BY DEF ImportCommit, TypeOK
<1> QED
  BY <1>7, <1>8, <1>9, <1>10, <1>11, <1>12, <1>13, <1>14, <1>15, <1>16 DEF TypeOK


\* A commit past the stage's time keeps the types.
LEMMA ImportCommitExpiredTyped ==
    ASSUME TypeOK, NEW req \in Requests, NEW i \in Imports, ImportCommitExpired(req, i)
    PROVE  TypeOK'
<1> DEFINE entry == [kind |-> "ImportCancelled", request |-> req, import |-> i,
                     reason |-> "EXPIRED"]
<1>1. audit' \in Seq(AuditEntries)
  <2>1. entry \in AuditEntries
    BY DEF AuditEntries, AuditRequests
  <2> QED
    BY <2>1, AppendTyped DEF ImportCommitExpired
<1>2. now' \in Nat
  BY ReadingTyped DEF ImportCommitExpired
<1>3. IsTableOf(imports', Imports, ImportRows) /\ IsFiniteSet(DOMAIN imports')
  <2>1. CancelledRow(imports[i], "EXPIRED") \in ImportRows
    BY DecidedRowsTyped DEF ImportCommitExpired, Reasons
  <2> QED
    BY <2>1, PutTyped, PutFinite DEF TypeOK, ImportCommitExpired
<1> QED
  BY <1>1, <1>2, <1>3 DEF TypeOK, ImportCommitExpired, content

\* Cancelling an import keeps the types.
LEMMA ImportCancelTyped ==
    ASSUME TypeOK, NEW req \in Requests, NEW i \in Imports, ImportCancel(req, i)
    PROVE  TypeOK'
<1> DEFINE entry == [kind |-> "ImportCancelled", request |-> req, import |-> i,
                     reason |-> "USER"]
<1>1. audit' \in Seq(AuditEntries)
  <2>1. entry \in AuditEntries
    BY DEF AuditEntries, AuditRequests
  <2> QED
    BY <2>1, AppendTyped DEF ImportCancel
<1>2. IsTableOf(imports', Imports, ImportRows) /\ IsFiniteSet(DOMAIN imports')
  <2>1. CancelledRow(imports[i], "USER") \in ImportRows
    BY DecidedRowsTyped DEF ImportCancel, Reasons
  <2> QED
    BY <2>1, PutTyped, PutFinite DEF TypeOK, ImportCancel
<1>3. /\ IsTable(idempotency')
      /\ DOMAIN idempotency' \subseteq Requests
      /\ \A r \in DOMAIN idempotency' : idempotency'[r].auditSeq \in Nat
  BY NextSeqTyped, ResponseTyped DEF ImportCancel
<1> QED
  BY <1>1, <1>2, <1>3 DEF TypeOK, ImportCancel, content

\* The entries a sweep signs, as a sequence.
SweptEntries(order) ==
    [n \in 1..Cardinality(Expired) |->
        [kind |-> "ImportCancelled", request |-> GeneratedId,
         import |-> order[n], reason |-> "EXPIRED"]]

\* What a sweep appends to the log is a sequence of entries.
LEMMA SweptEntriesTyped ==
    ASSUME TypeOK, NEW order \in Orders(Expired)
    PROVE  /\ Cardinality(Expired) \in Nat
           /\ SweptEntries(order) \in Seq(AuditEntries)
<1>1. Expired \subseteq DOMAIN imports /\ DOMAIN imports \subseteq Imports
  BY DEF Expired, TypeOK, IsTableOf
<1>2. Cardinality(Expired) \in Nat
  BY <1>1, FS_Subset, FS_CardinalityType DEF TypeOK
<1>3. ASSUME NEW n \in 1..Cardinality(Expired)
      PROVE  [kind |-> "ImportCancelled", request |-> GeneratedId,
              import |-> order[n], reason |-> "EXPIRED"] \in AuditEntries
  <2>1. order[n] \in Imports
    BY <1>1 DEF Orders
  <2> QED
    BY <2>1 DEF AuditEntries, AuditRequests
<1> QED
  BY <1>2, <1>3 DEF SweptEntries

\* A sweep keeps the types.
LEMMA SweepTyped ==
    ASSUME TypeOK, Sweep
    PROVE  TypeOK'
<1>1. audit' \in Seq(AuditEntries)
  <2>1. PICK order \in Orders(Expired) : audit' = audit \o SweptEntries(order)
    BY DEF Sweep, SweptEntries
  <2> QED
    BY <2>1, SweptEntriesTyped DEF TypeOK
<1>2. IsTableOf(imports', Imports, ImportRows) /\ IsFiniteSet(DOMAIN imports')
  <2>1. imports' = [i \in DOMAIN imports |->
                      IF i \in Expired THEN CancelledRow(imports[i], "UNSAID") ELSE imports[i]]
    BY DEF Sweep
  <2>2. \A i \in DOMAIN imports : CancelledRow(imports[i], "UNSAID") \in ImportRows
    BY DecidedRowsTyped DEF Reasons
  <2> QED
    BY <2>1, <2>2 DEF TypeOK, IsTableOf, IsTable
<1> QED
  BY <1>1, <1>2 DEF TypeOK, Sweep, content

\* A commit that breaks leaves files of digests behind, at most.
LEMMA CommitBrokenTyped ==
    ASSUME TypeOK, NEW i \in Imports, CommitBroken(i)
    PROVE  TypeOK'
<1>1. imports[i].batch \in Batches
  BY DecidedRowsTyped DEF CommitBroken
<1>2. NewDigests(imports[i].batch) \subseteq Digests
  BY <1>1 DEF NewDigests, Digests
<1>3. files' \subseteq Digests
  BY <1>2 DEF CommitBroken, TypeOK
<1> QED
  BY <1>3 DEF TypeOK, CommitBroken, ServiceStates

\* Every step keeps the types.
LEMMA NextTyped == TypeOK /\ [Next]_vars => TypeOK'
<1> SUFFICES ASSUME TypeOK, [Next]_vars PROVE TypeOK'
  OBVIOUS
<1>1. CASE \E req \in Requests, s \in Sources, body \in Profiles :
              SourceRegister(req, s, body)
  BY <1>1, SourceRegisterTyped
<1>2. CASE \E req \in Requests, s \in Sources, body \in Profiles :
              SourceRegisterAgain(req, s, body)
  BY <1>2, LookupsAreInLog, AgainTyped DEF SourceRegisterAgain
<1>3. CASE \E req \in Requests, tr \in Traces : TraceCreate(req, tr)
  BY <1>3, TraceCreateTyped
<1>4. CASE \E req \in Requests, tr \in Traces : TraceCreateAgain(req, tr)
  BY <1>4, LookupsAreInLog, AgainTyped DEF TraceCreateAgain
<1>5. CASE \E req \in Requests, i \in Imports, b \in Batches : ImportStage(req, i, b)
  BY <1>5, ImportStageTyped
<1>6. CASE \E req \in Requests, i \in Imports, b \in Batches : ImportStageAgain(req, i, b)
  BY <1>6, LookupsAreInLog, AgainTyped DEF ImportStageAgain
<1>7. CASE \E req \in Requests, i \in Imports, expected \in 0..MaxRevision :
              ImportCommit(req, i, expected)
  BY <1>7, ImportCommitTyped
<1>8. CASE \E req \in Requests, i \in Imports, expected \in 0..MaxRevision :
              ImportCommitAgain(req, i, expected)
  BY <1>8, LookupsAreInLog, AgainTyped DEF ImportCommitAgain
<1>9. CASE \E req \in Requests, i \in Imports : ImportCommitExpired(req, i)
  BY <1>9, ImportCommitExpiredTyped
<1>10. CASE \E req \in Requests, i \in Imports : ImportCancel(req, i)
  BY <1>10, ImportCancelTyped
<1>11. CASE \E req \in Requests, i \in Imports : ImportCancelAgain(req, i)
  BY <1>11, LookupsAreInLog, AgainTyped DEF ImportCancelAgain
<1>12. CASE \E i \in Imports : CommitBroken(i)
  BY <1>12, CommitBrokenTyped
<1>13. CASE Sweep
  BY <1>13, SweepTyped
<1>14. CASE Open
  BY <1>14 DEF Open, TypeOK, content, ServiceStates
<1>15. CASE Stop
  BY <1>15 DEF Stop, TypeOK, content, ServiceStates
<1>16. CASE Tick
  BY <1>16 DEF Tick, TypeOK, content
<1>17. CASE UNCHANGED vars
  BY <1>17 DEF vars, TypeOK, content
<1> QED
  BY <1>1, <1>2, <1>3, <1>4, <1>5, <1>6, <1>7, <1>8, <1>9, <1>10, <1>11, <1>12,
     <1>13, <1>14, <1>15, <1>16, <1>17 DEF Next

\* Whatever clients send and whenever the process stops, every table keeps rows
\* of its type and the log a sequence of signed entries.
THEOREM TypeCorrect == Spec => []TypeOK
<1>1. Init => TypeOK
  BY InitTyped
<1>2. TypeOK /\ [Next]_vars => TypeOK'
  BY NextTyped
<1> QED
  BY <1>1, <1>2, PTL DEF Spec

-------------------------------------------------------------------------------
(* The invariance of HistoryAudited.  On its own it is not inductive: that a  *)
(* commit numbers its revision freshly needs the log to know no revision past *)
(* a trace's head, and that it numbers one at all needs the trace to exist.   *)

\* Every import was staged for a trace that exists.
ImportsTraced == \A i \in DOMAIN imports : imports[i].batch.trace \in DOMAIN traces

\* The log publishes no revision past its trace's head.
LogBounded ==
    \A n \in DOMAIN audit :
        audit[n].kind = "ImportCommitted" =>
            audit[n].trace \in DOMAIN traces /\ audit[n].revision <= traces[audit[n].trace]

HistoryInv == TypeOK /\ HistoryAudited /\ ImportsTraced /\ LogBounded

\* The log only grew, and by no commit.
LogGrewQuietly ==
    /\ \A n \in DOMAIN audit : n \in DOMAIN audit' /\ audit'[n] = audit[n]
    /\ \A n \in DOMAIN audit' \ DOMAIN audit : audit'[n].kind # "ImportCommitted"

\* A fresh workspace has published nothing.
LEMMA InitHistory == Init => HistoryInv
<1> SUFFICES ASSUME Init PROVE HistoryInv
  OBVIOUS
<1>1. TypeOK
  BY InitTyped
<1>2. DOMAIN traces = {} /\ DOMAIN revisions = {} /\ DOMAIN imports = {}
  BY DEF Init, EmptyTable
<1>3. \A n \in DOMAIN audit : audit[n].kind = "WorkspaceCreated"
  BY DEF Init
<1>4. HistoryAudited
  BY <1>2, <1>3 DEF HistoryAudited, RevisionsDense, RevisionsSigned, PublishedOnce
<1> QED
  BY <1>1, <1>2, <1>3, <1>4 DEF HistoryInv, ImportsTraced, LogBounded

\* A step that makes no revision, signs no commit, and stages for known traces
\* only, keeps the history.
LEMMA QuietStepKeepsHistory ==
    ASSUME HistoryInv, TypeOK', traces' = traces, revisions' = revisions,
           LogGrewQuietly, ImportsTraced'
    PROVE  HistoryInv'
<1>1. RevisionsDense'
  BY DEF HistoryInv, HistoryAudited, RevisionsDense
<1>2. RevisionsSigned'
  <2> SUFFICES ASSUME NEW key \in DOMAIN revisions
               PROVE  /\ revisions[key].auditSeq \in DOMAIN audit'
                      /\ Publishes(audit'[revisions[key].auditSeq], key[1], key[2],
                                   revisions[key].graph)
    BY DEF RevisionsSigned, Publishes
  <2>1. /\ revisions[key].auditSeq \in DOMAIN audit
        /\ Publishes(audit[revisions[key].auditSeq], key[1], key[2], revisions[key].graph)
    BY DEF HistoryInv, HistoryAudited, RevisionsSigned
  <2> QED
    BY <2>1 DEF LogGrewQuietly
<1>3. PublishedOnce'
  BY DEF HistoryInv, HistoryAudited, PublishedOnce, LogGrewQuietly
<1>4. LogBounded'
  BY DEF HistoryInv, LogBounded, LogGrewQuietly
<1> QED
  BY <1>1, <1>2, <1>3, <1>4 DEF HistoryInv, HistoryAudited

\* Appending an entry keeps those before it.
LEMMA AppendKeeps ==
    ASSUME TypeOK, NEW entry, AppendAudit(entry)
    PROVE  /\ DOMAIN audit' = DOMAIN audit \cup {NextSeq}
           /\ NextSeq \notin DOMAIN audit
           /\ audit'[NextSeq] = entry
           /\ \A n \in DOMAIN audit : audit'[n] = audit[n]
BY DEF TypeOK, AppendAudit, NextSeq

\* Signing anything but a commit leaves the published history as it is.
LEMMA AppendQuietly ==
    ASSUME TypeOK, NEW entry, entry.kind # "ImportCommitted", AppendAudit(entry)
    PROVE  LogGrewQuietly
BY AppendKeeps DEF LogGrewQuietly

\* A new trace starts its history with an empty, signed revision 0.
LEMMA TraceCreateKeepsHistory ==
    ASSUME HistoryInv, TypeOK', NEW req \in Requests, NEW tr \in Traces, TraceCreate(req, tr)
    PROVE  HistoryInv'
<1> DEFINE entry == [kind |-> "TraceCreated", request |-> req, trace |-> tr]
           row == [graph |-> EmptyGraph, auditSeq |-> NextSeq]
<1>1. /\ tr \notin DOMAIN traces
      /\ traces' = Put(traces, tr, 0)
      /\ revisions' = Put(revisions, <<tr, 0>>, row)
      /\ AppendAudit(entry)
      /\ imports' = imports
  BY DEF TraceCreate
<1>2. TypeOK /\ RevisionsDense /\ RevisionsSigned /\ PublishedOnce
  BY DEF HistoryInv, HistoryAudited
<1>3. /\ DOMAIN audit' = DOMAIN audit \cup {NextSeq}
      /\ audit'[NextSeq] = entry
      /\ \A n \in DOMAIN audit : audit'[n] = audit[n]
  BY <1>1, <1>2, AppendKeeps
<1>4. /\ DOMAIN traces' = DOMAIN traces \cup {tr}
      /\ traces'[tr] = 0
      /\ \A u \in DOMAIN traces : traces'[u] = traces[u]
  BY <1>1 DEF Put
<1>5. /\ DOMAIN revisions' = DOMAIN revisions \cup {<<tr, 0>>}
      /\ revisions'[<<tr, 0>>] = row
      /\ \A key \in DOMAIN revisions : key # <<tr, 0>> /\ revisions'[key] = revisions[key]
  BY <1>1, <1>2 DEF Put, RevisionsDense
<1>6. RevisionsDense'
  <2>1. ASSUME NEW key \in DOMAIN revisions'
        PROVE  key[1] \in DOMAIN traces' /\ key[2] <= traces'[key[1]]
    BY <1>2, <1>4, <1>5 DEF RevisionsDense
  <2>2. ASSUME NEW u \in DOMAIN traces', NEW n \in 0..traces'[u]
        PROVE  <<u, n>> \in DOMAIN revisions'
    BY <1>2, <1>4, <1>5 DEF RevisionsDense
  <2> QED
    BY <2>1, <2>2 DEF RevisionsDense
<1>7. RevisionsSigned'
  <2> SUFFICES ASSUME NEW key \in DOMAIN revisions'
               PROVE  /\ revisions'[key].auditSeq \in DOMAIN audit'
                      /\ Publishes(audit'[revisions'[key].auditSeq], key[1], key[2],
                                   revisions'[key].graph)
    BY DEF RevisionsSigned, Publishes
  <2>1. CASE key \in DOMAIN revisions
    <3>1. /\ revisions[key].auditSeq \in DOMAIN audit
          /\ Publishes(audit[revisions[key].auditSeq], key[1], key[2], revisions[key].graph)
      BY <1>2, <2>1 DEF RevisionsSigned
    <3> QED
      BY <1>3, <1>5, <2>1, <3>1
  <2>2. CASE key = <<tr, 0>>
    BY <1>3, <1>5, <2>2 DEF Publishes
  <2> QED
    BY <1>5, <2>1, <2>2
<1>8. PublishedOnce'
  BY <1>2, <1>3 DEF PublishedOnce
<1>9. LogBounded' /\ ImportsTraced'
  BY <1>1, <1>3, <1>4 DEF HistoryInv, LogBounded, ImportsTraced
<1> QED
  BY <1>6, <1>7, <1>8, <1>9 DEF HistoryInv, HistoryAudited

\* A commit publishes the revision after its trace's head, and that revision was
\* never published before.
LEMMA ImportCommitKeepsHistory ==
    ASSUME HistoryInv, TypeOK', NEW req \in Requests, NEW i \in Imports,
           NEW expected \in 0..MaxRevision, ImportCommit(req, i, expected)
    PROVE  HistoryInv'
<1> DEFINE b == imports[i].batch
           tr == b.trace
           result == CommitResult(b)
           entry == [kind |-> "ImportCommitted", request |-> req, import |-> i, batch |-> b,
                     trace |-> tr, revision |-> result.revision, graph |-> result.graph]
           row == [graph |-> result.graph, auditSeq |-> NextSeq]
<1>1. /\ i \in DOMAIN imports
      /\ traces' = Put(traces, tr, result.revision)
      /\ revisions' = Put(revisions, <<tr, result.revision>>, row)
      /\ AppendAudit(entry)
      /\ imports' = Put(imports, i, CommittedRow(imports[i], result))
  BY DEF ImportCommit
<1>2. TypeOK /\ RevisionsDense /\ RevisionsSigned /\ PublishedOnce /\ ImportsTraced /\ LogBounded
  BY DEF HistoryInv, HistoryAudited
<1>3. /\ tr \in DOMAIN traces
      /\ \A u \in DOMAIN traces : traces[u] \in Nat
      /\ result.revision = traces[tr] + 1
  BY <1>1, <1>2 DEF ImportsTraced, TypeOK, IsTableOf, CommitResult, NextRevision
<1> DEFINE next == traces[tr] + 1
           graph == result.graph
<1>4. /\ DOMAIN audit' = DOMAIN audit \cup {NextSeq}
      /\ audit'[NextSeq] = entry
      /\ \A n \in DOMAIN audit : audit'[n] = audit[n]
  BY <1>1, <1>2, AppendKeeps
<1>5. entry.kind = "ImportCommitted" /\ entry.trace = tr /\ entry.revision = next /\ entry.graph = graph
  BY <1>3
<1>6. /\ DOMAIN traces' = DOMAIN traces
      /\ traces'[tr] = next
      /\ \A u \in DOMAIN traces : u # tr => traces'[u] = traces[u]
  BY <1>1, <1>3 DEF Put
<1>7. row.graph = graph /\ row.auditSeq = NextSeq
  OBVIOUS
<1> HIDE DEF entry, row, result
<1>8. \A key \in DOMAIN revisions : key # <<tr, next>>
  <2> SUFFICES ASSUME <<tr, next>> \in DOMAIN revisions PROVE FALSE
    OBVIOUS
  <2>1. next <= traces[tr]
    BY <1>2 DEF RevisionsDense
  <2> QED
    BY <1>3, <2>1
<1>9. /\ DOMAIN revisions' = DOMAIN revisions \cup {<<tr, next>>}
      /\ revisions'[<<tr, next>>] = row
      /\ \A key \in DOMAIN revisions : revisions'[key] = revisions[key]
  BY <1>1, <1>3, <1>8 DEF Put
<1>10. RevisionsDense'
  <2>1. ASSUME NEW key \in DOMAIN revisions'
        PROVE  key[1] \in DOMAIN traces' /\ key[2] <= traces'[key[1]]
    <3>1. CASE key = <<tr, next>>
      BY <1>3, <1>6, <3>1
    <3>2. CASE key \in DOMAIN revisions
      <4>1. key[1] \in DOMAIN traces /\ key[2] <= traces[key[1]] /\ key[2] \in Nat
        BY <1>2, <3>2 DEF RevisionsDense, TypeOK, IsTableOf
      <4> QED
        BY <1>3, <1>6, <4>1
    <3> QED
      BY <1>9, <3>1, <3>2
  <2>2. ASSUME NEW u \in DOMAIN traces', NEW n \in 0..traces'[u]
        PROVE  <<u, n>> \in DOMAIN revisions'
    <3>1. CASE u = tr /\ n = next
      BY <1>9, <3>1
    <3>2. CASE ~(u = tr /\ n = next)
      <4>1. u \in DOMAIN traces /\ n \in 0..traces[u]
        BY <1>3, <1>6, <3>2
      <4> QED
        BY <1>2, <1>9, <4>1 DEF RevisionsDense
    <3> QED
      BY <3>1, <3>2
  <2> QED
    BY <2>1, <2>2 DEF RevisionsDense
<1>11. RevisionsSigned'
  <2> SUFFICES ASSUME NEW key \in DOMAIN revisions'
               PROVE  /\ revisions'[key].auditSeq \in DOMAIN audit'
                      /\ Publishes(audit'[revisions'[key].auditSeq], key[1], key[2],
                                   revisions'[key].graph)
    BY DEF RevisionsSigned, Publishes
  <2>1. CASE key \in DOMAIN revisions
    <3>1. /\ revisions[key].auditSeq \in DOMAIN audit
          /\ Publishes(audit[revisions[key].auditSeq], key[1], key[2], revisions[key].graph)
      BY <1>2, <2>1 DEF RevisionsSigned
    <3> QED
      BY <1>4, <1>9, <2>1, <3>1
  <2>2. CASE key = <<tr, next>>
    BY <1>4, <1>5, <1>7, <1>9, <2>2 DEF Publishes
  <2> QED
    BY <1>9, <2>1, <2>2
<1>12. \A n \in DOMAIN audit :
          audit[n].kind = "ImportCommitted" /\ audit[n].trace = tr => audit[n].revision # next
  <2> SUFFICES ASSUME NEW n \in DOMAIN audit, audit[n].kind = "ImportCommitted",
                      audit[n].trace = tr, audit[n].revision = next
               PROVE  FALSE
    OBVIOUS
  <2>1. next <= traces[tr]
    BY <1>2 DEF LogBounded
  <2> QED
    BY <1>3, <2>1
<1>13. PublishedOnce'
  BY <1>2, <1>4, <1>5, <1>12 DEF PublishedOnce
<1>14. LogBounded'
  <2> SUFFICES ASSUME NEW n \in DOMAIN audit', audit'[n].kind = "ImportCommitted"
               PROVE  audit'[n].trace \in DOMAIN traces' /\ audit'[n].revision <= traces'[audit'[n].trace]
    BY DEF LogBounded
  <2>1. CASE n = NextSeq
    BY <1>3, <1>4, <1>5, <1>6, <2>1
  <2>2. CASE n \in DOMAIN audit
    <3>1. /\ audit'[n] = audit[n]
          /\ audit[n].trace \in DOMAIN traces
          /\ audit[n].revision <= traces[audit[n].trace]
      BY <1>2, <1>4, <2>2 DEF LogBounded
    <3>2. audit[n] \in AuditEntries
      BY <1>2, <2>2 DEF TypeOK
    <3>3. audit[n].revision \in Nat
      BY <1>4, <2>2, <3>2 DEF AuditEntries
    <3> QED
      BY <1>3, <1>6, <3>1, <3>3
  <2> QED
    BY <1>4, <2>1, <2>2
<1>15. ImportsTraced'
  BY <1>1, <1>2, <1>6 DEF ImportsTraced, Put, CommittedRow
<1> QED
  BY <1>10, <1>11, <1>13, <1>14, <1>15 DEF HistoryInv, HistoryAudited

\* An action that changes imports at most by deciding some leaves them traced.
LEMMA DecidedStayTraced ==
    ASSUME ImportsTraced, traces' = traces, DOMAIN imports' = DOMAIN imports,
           \A i \in DOMAIN imports : imports'[i].batch = imports[i].batch
    PROVE  ImportsTraced'
BY DEF ImportsTraced

\* Every step keeps the history.
LEMMA NextKeepsHistory == HistoryInv /\ [Next]_vars => HistoryInv'
<1> SUFFICES ASSUME HistoryInv, [Next]_vars PROVE HistoryInv'
  OBVIOUS
<1>1. TypeOK /\ TypeOK' /\ ImportsTraced
  BY NextTyped DEF HistoryInv
<1>2. CASE /\ traces' = traces
           /\ revisions' = revisions
           /\ imports' = imports
           /\ audit' = audit
  <2>1. LogGrewQuietly /\ ImportsTraced'
    BY <1>1, <1>2 DEF LogGrewQuietly, ImportsTraced
  <2> QED
    BY <1>1, <1>2, <2>1, QuietStepKeepsHistory
<1>3. ASSUME NEW req \in Requests, NEW s \in Sources, NEW body \in Profiles,
             SourceRegister(req, s, body)
      PROVE  HistoryInv'
  <2>1. LogGrewQuietly
    BY <1>1, <1>3, AppendQuietly DEF SourceRegister
  <2>2. traces' = traces /\ revisions' = revisions /\ imports' = imports
    BY <1>3 DEF SourceRegister, content
  <2> QED
    BY <1>1, <2>1, <2>2, QuietStepKeepsHistory DEF ImportsTraced
<1>4. ASSUME NEW req \in Requests, NEW i \in Imports, NEW b \in Batches,
             ImportStage(req, i, b)
      PROVE  HistoryInv'
  <2>1. LogGrewQuietly
    BY <1>1, <1>4, AppendQuietly DEF ImportStage
  <2>2. traces' = traces /\ revisions' = revisions
    BY <1>4 DEF ImportStage, content
  <2>3. ImportsTraced'
    BY <1>1, <1>4, <2>2 DEF ImportStage, Stageable, ImportsTraced, Put
  <2> QED
    BY <1>1, <2>1, <2>2, <2>3, QuietStepKeepsHistory
<1>5. ASSUME NEW req \in Requests, NEW i \in Imports, ImportCommitExpired(req, i)
      PROVE  HistoryInv'
  <2>1. LogGrewQuietly
    BY <1>1, <1>5, AppendQuietly DEF ImportCommitExpired
  <2>2. traces' = traces /\ revisions' = revisions
    BY <1>5 DEF ImportCommitExpired, content
  <2>3. ImportsTraced'
    BY <1>1, <1>5, <2>2, DecidedStayTraced DEF ImportCommitExpired, Put, CancelledRow
  <2> QED
    BY <1>1, <2>1, <2>2, <2>3, QuietStepKeepsHistory
<1>6. ASSUME NEW req \in Requests, NEW i \in Imports, ImportCancel(req, i)
      PROVE  HistoryInv'
  <2>1. LogGrewQuietly
    BY <1>1, <1>6, AppendQuietly DEF ImportCancel
  <2>2. traces' = traces /\ revisions' = revisions
    BY <1>6 DEF ImportCancel, content
  <2>3. ImportsTraced'
    BY <1>1, <1>6, <2>2, DecidedStayTraced DEF ImportCancel, Put, CancelledRow
  <2> QED
    BY <1>1, <2>1, <2>2, <2>3, QuietStepKeepsHistory
<1>7. ASSUME Sweep
      PROVE  HistoryInv'
  <2>1. LogGrewQuietly
    <3>1. PICK order \in Orders(Expired) : audit' = audit \o SweptEntries(order)
      BY <1>7 DEF Sweep, SweptEntries
    <3>2. SweptEntries(order) \in Seq(AuditEntries)
      BY <1>1, SweptEntriesTyped
    <3>3. \A n \in DOMAIN SweptEntries(order) : SweptEntries(order)[n].kind = "ImportCancelled"
      BY DEF SweptEntries
    <3>4. audit \in Seq(AuditEntries)
      BY <1>1 DEF TypeOK
    <3> HIDE DEF SweptEntries
    <3> QED
      BY <3>1, <3>2, <3>3, <3>4 DEF LogGrewQuietly
  <2>2. traces' = traces /\ revisions' = revisions
    BY <1>7 DEF Sweep, content
  <2>3. ImportsTraced'
    BY <1>1, <1>7, <2>2, DecidedStayTraced DEF Sweep, CancelledRow
  <2> QED
    BY <1>1, <2>1, <2>2, <2>3, QuietStepKeepsHistory
<1>8. CASE \E req \in Requests, tr \in Traces : TraceCreate(req, tr)
  BY <1>1, <1>8, TraceCreateKeepsHistory
<1>9. CASE \E req \in Requests, i \in Imports, expected \in 0..MaxRevision :
              ImportCommit(req, i, expected)
  BY <1>1, <1>9, ImportCommitKeepsHistory
<1>10. CASE \/ \E req \in Requests, s \in Sources, body \in Profiles :
                  SourceRegisterAgain(req, s, body)
            \/ \E req \in Requests, tr \in Traces : TraceCreateAgain(req, tr)
            \/ \E req \in Requests, i \in Imports, b \in Batches : ImportStageAgain(req, i, b)
            \/ \E req \in Requests, i \in Imports, expected \in 0..MaxRevision :
                  ImportCommitAgain(req, i, expected)
            \/ \E req \in Requests, i \in Imports : ImportCancelAgain(req, i)
            \/ \E i \in Imports : CommitBroken(i)
            \/ Open \/ Stop \/ Tick \/ UNCHANGED vars
  BY <1>2, <1>10 DEF SourceRegisterAgain, TraceCreateAgain, ImportStageAgain,
     ImportCommitAgain, ImportCancelAgain, CommitBroken, Open, Stop, Tick, vars, content
<1> QED
  BY <1>3, <1>4, <1>5, <1>6, <1>7, <1>8, <1>9, <1>10 DEF Next

\* Each trace's revisions are dense from 0 to its head, each is signed by the
\* audit entry its row names, and no revision is ever published twice: commits
\* that race for one head, retries and crashes included.
THEOREM HistoryIsAudited == Spec => []HistoryAudited
<1>1. Init => HistoryInv
  BY InitHistory
<1>2. HistoryInv /\ [Next]_vars => HistoryInv'
  BY NextKeepsHistory
<1>3. HistoryInv => HistoryAudited
  BY DEF HistoryInv
<1> QED
  BY <1>1, <1>2, <1>3, PTL DEF Spec

-------------------------------------------------------------------------------
(* What a step may do to the tables at all. *)

\* A row that is put under a new key, or in place of an old one, leaves the
\* others alone.
LEMMA PutKeeps ==
    ASSUME NEW table, NEW key, NEW row
    PROVE  /\ DOMAIN Put(table, key, row) = DOMAIN table \cup {key}
           /\ Put(table, key, row)[key] = row
           /\ \A k \in DOMAIN table : k # key => Put(table, key, row)[k] = table[k]
BY DEF Put

\* Imports only come and are decided once.
ImportsGrow ==
    \A i \in DOMAIN imports :
        /\ i \in DOMAIN imports'
        /\ imports'[i].batch = imports[i].batch
        /\ imports[i].state # "STAGED" => imports'[i] = imports[i]

ResponsesGrow ==
    \A r \in DOMAIN idempotency : r \in DOMAIN idempotency' /\ idempotency'[r] = idempotency[r]

LogGrows == \A n \in DOMAIN audit : n \in DOMAIN audit' /\ audit'[n] = audit[n]

RevisionsStay ==
    \A key \in DOMAIN revisions : key \in DOMAIN revisions' /\ revisions'[key] = revisions[key]

SourcesStay == \A s \in DOMAIN sources : s \in DOMAIN sources' /\ sources'[s] = sources[s]

TracesGrow == \A tr \in DOMAIN traces : tr \in DOMAIN traces' /\ traces[tr] <= traces'[tr]

ContentGrows ==
    /\ steps \subseteq steps'
    /\ origins \subseteq origins'
    /\ files \subseteq files'
    /\ DOMAIN artifacts \subseteq DOMAIN artifacts'

Grows ==
    /\ ImportsGrow
    /\ ResponsesGrow
    /\ LogGrows
    /\ RevisionsStay
    /\ SourcesStay
    /\ TracesGrow
    /\ ContentGrows

\* What does not change grows.
LEMMA SameGrows ==
    ASSUME TypeOK
    PROVE  /\ UNCHANGED imports => ImportsGrow
           /\ UNCHANGED idempotency => ResponsesGrow
           /\ UNCHANGED audit => LogGrows
           /\ UNCHANGED revisions => RevisionsStay
           /\ UNCHANGED sources => SourcesStay
           /\ UNCHANGED traces => TracesGrow
           /\ UNCHANGED <<steps, origins, artifacts>> /\ files \subseteq files' => ContentGrows
BY DEF ImportsGrow, ResponsesGrow, LogGrows, RevisionsStay, SourcesStay, TracesGrow,
   ContentGrows, TypeOK, IsTableOf

\* A response is stored for a fresh request only.
LEMMA FreshGrows ==
    ASSUME NEW req, NEW call, NEW response, NEW seq,
           Fresh(req), StoreResponse(req, call, response, seq)
    PROVE  ResponsesGrow
BY DEF Fresh, StoreResponse, ResponsesGrow, Put

\* An entry is signed after all others.
LEMMA SignedGrows ==
    ASSUME TypeOK, NEW entry, AppendAudit(entry)
    PROVE  LogGrows
BY AppendKeeps DEF LogGrows

\* Deciding a staged import changes no other and keeps its batch.
LEMMA DecidedGrows ==
    ASSUME NEW i \in DOMAIN imports, imports[i].state = "STAGED",
           NEW row, row.batch = imports[i].batch, imports' = Put(imports, i, row)
    PROVE  ImportsGrow /\ DOMAIN imports' = DOMAIN imports
BY DEF ImportsGrow, Put

\* A sweep decides staged imports.
LEMMA SweptGrows ==
    ASSUME Sweep
    PROVE  ImportsGrow /\ DOMAIN imports' = DOMAIN imports
BY DEF Sweep, ImportsGrow, Expired, SweepExpires, CancelledRow

\* A commit only adds: to the head's revisions, to the content and to the log.
LEMMA CommitGrows ==
    ASSUME HistoryInv, NEW req \in Requests, NEW i \in Imports,
           NEW expected \in 0..MaxRevision, ImportCommit(req, i, expected)
    PROVE  Grows
<1> DEFINE b == imports[i].batch
           result == CommitResult(b)
           row == [graph |-> result.graph, auditSeq |-> NextSeq]
<1>1. TypeOK /\ i \in DOMAIN imports /\ imports[i].state = "STAGED"
  BY DEF HistoryInv, ImportCommit, Undecided
<1>2. b.trace \in DOMAIN traces /\ traces[b.trace] \in Nat
  BY <1>1 DEF HistoryInv, ImportsTraced, TypeOK, IsTableOf
<1>3. result.revision = traces[b.trace] + 1
  BY DEF CommitResult, NextRevision
<1>4. ImportsGrow
  <2>1. CommittedRow(imports[i], result).batch = b
    BY DEF CommittedRow
  <2>2. imports' = Put(imports, i, CommittedRow(imports[i], result))
    BY DEF ImportCommit
  <2> QED
    BY <1>1, <2>1, <2>2, DecidedGrows
<1>5. ResponsesGrow
  BY FreshGrows DEF ImportCommit
<1>6. LogGrows
  BY <1>1, SignedGrows DEF ImportCommit
<1>7. RevisionsStay
  <2>1. <<b.trace, result.revision>> \notin DOMAIN revisions
    <3> SUFFICES ASSUME <<b.trace, traces[b.trace] + 1>> \in DOMAIN revisions PROVE FALSE
      BY <1>3
    <3>1. traces[b.trace] + 1 <= traces[b.trace]
      BY DEF HistoryInv, HistoryAudited, RevisionsDense
    <3> QED
      BY <1>2, <3>1
  <2>2. revisions' = Put(revisions, <<b.trace, result.revision>>, row)
    BY DEF ImportCommit
  <2> HIDE DEF row, result
  <2> QED
    BY <2>1, <2>2 DEF RevisionsStay, Put
<1>8. TracesGrow
  <2>1. traces' = Put(traces, b.trace, traces[b.trace] + 1)
    BY <1>3 DEF ImportCommit
  <2>2. \A u \in DOMAIN traces : traces[u] \in Nat
    BY <1>1 DEF TypeOK, IsTableOf
  <2> QED
    BY <1>2, <2>1, <2>2 DEF TracesGrow, Put
<1>9. SourcesStay
  BY <1>1, SameGrows DEF ImportCommit
<1>10. ContentGrows
  <2>1. DOMAIN artifacts' = DOMAIN artifacts \cup {a.digest : a \in b.artifacts}
    BY DEF ImportCommit, WithArtifacts
  <2> QED
    BY <2>1 DEF ImportCommit, ContentGrows
<1> QED
  BY <1>4, <1>5, <1>6, <1>7, <1>8, <1>9, <1>10 DEF Grows

\* No step takes anything back.
LEMMA NextGrows == HistoryInv /\ [Next]_vars => Grows
<1> SUFFICES ASSUME HistoryInv, [Next]_vars PROVE Grows
  OBVIOUS
<1>1. TypeOK
  BY DEF HistoryInv
<1>2. ASSUME NEW req \in Requests, NEW s \in Sources, NEW body \in Profiles,
             SourceRegister(req, s, body)
      PROVE  Grows
  <2>1. ResponsesGrow /\ LogGrows
    BY <1>1, <1>2, FreshGrows, SignedGrows DEF SourceRegister
  <2>2. SourcesStay
    BY <1>2 DEF SourceRegister, SourcesStay, Put
  <2> QED
    BY <1>1, <1>2, <2>1, <2>2, SameGrows DEF Grows, SourceRegister, content
<1>3. ASSUME NEW req \in Requests, NEW tr \in Traces, TraceCreate(req, tr)
      PROVE  Grows
  <2>1. ResponsesGrow /\ LogGrows
    BY <1>1, <1>3, FreshGrows, SignedGrows DEF TraceCreate
  <2>2. TracesGrow
    <3>1. tr \notin DOMAIN traces /\ traces' = Put(traces, tr, 0)
      BY <1>3 DEF TraceCreate
    <3>2. \A u \in DOMAIN traces : traces[u] \in Nat
      BY <1>1 DEF TypeOK, IsTableOf
    <3> QED
      BY <3>1, <3>2 DEF TracesGrow, Put
  <2>3. RevisionsStay
    <3>1. <<tr, 0>> \notin DOMAIN revisions
      BY <1>3 DEF TraceCreate, HistoryInv, HistoryAudited, RevisionsDense
    <3> QED
      BY <1>3, <3>1 DEF TraceCreate, RevisionsStay, Put
  <2> QED
    BY <1>1, <1>3, <2>1, <2>2, <2>3, SameGrows DEF Grows, TraceCreate
<1>4. ASSUME NEW req \in Requests, NEW i \in Imports, NEW b \in Batches,
             ImportStage(req, i, b)
      PROVE  Grows
  <2>1. ResponsesGrow /\ LogGrows
    BY <1>1, <1>4, FreshGrows, SignedGrows DEF ImportStage
  <2>2. ImportsGrow
    BY <1>4 DEF ImportStage, ImportsGrow, Put
  <2> QED
    BY <1>1, <1>4, <2>1, <2>2, SameGrows DEF Grows, ImportStage, content
<1>5. ASSUME NEW req \in Requests, NEW i \in Imports, ImportCommitExpired(req, i)
      PROVE  Grows
  <2>1. LogGrows
    BY <1>1, <1>5, SignedGrows DEF ImportCommitExpired
  <2>2. ImportsGrow
    BY <1>5, DecidedGrows DEF ImportCommitExpired, CommitExpires, CancelledRow
  <2> QED
    BY <1>1, <1>5, <2>1, <2>2, SameGrows DEF Grows, ImportCommitExpired, content
<1>6. ASSUME NEW req \in Requests, NEW i \in Imports, ImportCancel(req, i)
      PROVE  Grows
  <2>1. ResponsesGrow /\ LogGrows
    BY <1>1, <1>6, FreshGrows, SignedGrows DEF ImportCancel
  <2>2. ImportsGrow
    BY <1>6, DecidedGrows DEF ImportCancel, Undecided, CancelledRow
  <2> QED
    BY <1>1, <1>6, <2>1, <2>2, SameGrows DEF Grows, ImportCancel, content
<1>7. CASE Sweep
  <2>1. LogGrows
    <3>1. PICK order \in Orders(Expired) : audit' = audit \o SweptEntries(order)
      BY <1>7 DEF Sweep, SweptEntries
    <3>2. SweptEntries(order) \in Seq(AuditEntries) /\ audit \in Seq(AuditEntries)
      BY <1>1, SweptEntriesTyped DEF TypeOK
    <3> HIDE DEF SweptEntries
    <3> QED
      BY <3>1, <3>2 DEF LogGrows
  <2> QED
    BY <1>1, <1>7, <2>1, SweptGrows, SameGrows DEF Grows, Sweep, content
<1>8. CASE \E req \in Requests, i \in Imports, expected \in 0..MaxRevision :
              ImportCommit(req, i, expected)
  BY <1>8, CommitGrows
<1>9. CASE \/ \E req \in Requests, s \in Sources, body \in Profiles :
                 SourceRegisterAgain(req, s, body)
           \/ \E req \in Requests, tr \in Traces : TraceCreateAgain(req, tr)
           \/ \E req \in Requests, i \in Imports, b \in Batches : ImportStageAgain(req, i, b)
           \/ \E req \in Requests, i \in Imports, expected \in 0..MaxRevision :
                 ImportCommitAgain(req, i, expected)
           \/ \E req \in Requests, i \in Imports : ImportCancelAgain(req, i)
  <2>1. ResponsesGrow
    BY <1>9, FreshGrows DEF SourceRegisterAgain, TraceCreateAgain, ImportStageAgain,
       ImportCommitAgain, ImportCancelAgain
  <2>2. UNCHANGED <<state, now, sources, traces, content, imports, audit>>
    BY <1>9 DEF SourceRegisterAgain, TraceCreateAgain, ImportStageAgain,
       ImportCommitAgain, ImportCancelAgain
  <2> QED
    BY <1>1, <2>1, <2>2, SameGrows DEF Grows, content
<1>10. CASE \/ \E i \in Imports : CommitBroken(i)
            \/ Open \/ Stop \/ Tick \/ UNCHANGED vars
  BY <1>1, <1>10, SameGrows DEF Grows, CommitBroken, Open, Stop, Tick, vars, content
<1> QED
  BY <1>2, <1>3, <1>4, <1>5, <1>6, <1>7, <1>8, <1>9, <1>10 DEF Next

-------------------------------------------------------------------------------
(* NothingRewritten. *)

\* A log that kept its entries starts with what it was.
LEMMA LogIsPrefix ==
    ASSUME TypeOK, TypeOK', LogGrows
    PROVE  Len(audit) <= Len(audit') /\ SubSeq(audit', 1, Len(audit)) = audit
<1>1. audit \in Seq(AuditEntries) /\ audit' \in Seq(AuditEntries)
  BY DEF TypeOK
<1>2. Len(audit) <= Len(audit')
  BY <1>1 DEF LogGrows
<1> QED
  BY <1>1, <1>2 DEF LogGrows

LEMMA HistoryInvHolds == Spec => []HistoryInv
BY InitHistory, NextKeepsHistory, PTL DEF Spec

\* Whatever is called, retried or crashes, no step changes a decided import, a
\* published revision, a stored response or a signed entry.
THEOREM NothingIsRewritten == Spec => NothingRewritten
<1> DEFINE Kept ==
        /\ \A i \in DOMAIN imports :
              /\ i \in DOMAIN imports'
              /\ imports[i].state # "STAGED" => imports'[i] = imports[i]
              /\ imports'[i].batch = imports[i].batch
        /\ \A key \in DOMAIN revisions : key \in DOMAIN revisions' /\ revisions'[key] = revisions[key]
        /\ \A r \in DOMAIN idempotency :
              r \in DOMAIN idempotency' /\ idempotency'[r] = idempotency[r]
        /\ Len(audit) <= Len(audit')
        /\ SubSeq(audit', 1, Len(audit)) = audit
<1>1. HistoryInv /\ HistoryInv' /\ [Next]_vars => [Kept]_vars
  <2> SUFFICES ASSUME HistoryInv, HistoryInv', [Next]_vars PROVE Kept
    OBVIOUS
  <2>1. Grows
    BY NextGrows
  <2>2. Len(audit) <= Len(audit') /\ SubSeq(audit', 1, Len(audit)) = audit
    BY <2>1, LogIsPrefix DEF Grows, HistoryInv
  <2> QED
    BY <2>1, <2>2 DEF Grows, ImportsGrow, RevisionsStay, ResponsesGrow
<1> QED
  BY <1>1, HistoryInvHolds, PTL DEF Spec, NothingRewritten

-------------------------------------------------------------------------------
(* ExpiryRespected. *)

\* A time past a whole second is past its first tick too.
LEMMA SecondIsPast ==
    ASSUME NEW t \in Nat, NEW e \in Nat, e < Seconds(t)
    PROVE  e * TicksPerSecond < t
<1>1. TicksPerSecond \in Nat /\ TicksPerSecond > 0
  BY NumberAssumption
<1>2. Seconds(t) \in Nat /\ Seconds(t) * TicksPerSecond <= t
  BY <1>1, Z3 DEF Seconds
<1>3. (e + 1) * TicksPerSecond <= Seconds(t) * TicksPerSecond
  BY <1>1, <1>2
<1>4. (e + 1) * TicksPerSecond = e * TicksPerSecond + TicksPerSecond
  BY <1>1
<1>5. e * TicksPerSecond \in Nat /\ Seconds(t) * TicksPerSecond \in Nat
  BY <1>1, <1>2
<1> QED
  BY <1>1, <1>2, <1>3, <1>4, <1>5

\* What a step decides of the staged import i, it decides in time.
InTime(i) ==
    imports[i].state = "STAGED" =>
        /\ imports'[i].state = "COMMITTED" => Seconds(now') <= imports[i].expires
        /\ imports'[i].state = "CANCELLED" /\ imports'[i].reason \in {"EXPIRED", "UNSAID"}
              => imports[i].expires * TicksPerSecond < now'

\* An import whose row stays is not decided.
LEMMA UntouchedInTime ==
    ASSUME NEW i \in DOMAIN imports, imports'[i] = imports[i]
    PROVE  InTime(i)
BY DEF InTime

\* A commit takes no stage whose second has passed.
LEMMA CommitInTime ==
    ASSUME TypeOK, NEW req, NEW i, NEW expected, ImportCommit(req, i, expected),
           NEW j \in DOMAIN imports
    PROVE  InTime(j)
<1> DEFINE row == CommittedRow(imports[i], CommitResult(imports[i].batch))
<1>1. i \in DOMAIN imports /\ imports[i].state = "STAGED" /\ imports' = Put(imports, i, row)
  BY DEF ImportCommit, Undecided
<1>2. CASE j # i
  <2> HIDE DEF row
  <2> QED
    BY <1>1, <1>2, UntouchedInTime DEF Put
<1>3. CASE j = i
  <2>1. PICK t \in Readings : ~CommitExpires(i, t) /\ now' = t
    BY DEF ImportCommit
  <2>2. Seconds(t) \in Nat /\ imports[i].expires \in Nat
    BY <1>1, <2>1, ReadingTyped, DecidedRowsTyped
  <2>3. Seconds(now') <= imports[i].expires
    BY <1>1, <2>1, <2>2 DEF CommitExpires
  <2>4. imports'[i].state = "COMMITTED"
    BY <1>1 DEF Put, CommittedRow
  <2> QED
    BY <1>3, <2>3, <2>4 DEF InTime
<1> QED
  BY <1>2, <1>3

\* A commit that finds the stage expired finds it past its last tick.
LEMMA ExpiredInTime ==
    ASSUME TypeOK, NEW req, NEW i, ImportCommitExpired(req, i), NEW j \in DOMAIN imports
    PROVE  InTime(j)
<1>1. i \in DOMAIN imports /\ imports' = Put(imports, i, CancelledRow(imports[i], "EXPIRED"))
  BY DEF ImportCommitExpired
<1>2. CASE j # i
  BY <1>1, <1>2, UntouchedInTime DEF Put
<1>3. CASE j = i
  <2>1. PICK t \in Readings : CommitExpires(i, t) /\ now' = t
    BY DEF ImportCommitExpired
  <2>2. t \in Nat /\ imports[i].expires \in Nat
    BY <1>1, <2>1, ReadingTyped, DecidedRowsTyped
  <2>3. imports[i].expires * TicksPerSecond < now'
    BY <2>1, <2>2, SecondIsPast DEF CommitExpires
  <2>4. imports'[i].state = "CANCELLED"
    BY <1>1 DEF Put, CancelledRow
  <2> QED
    BY <1>3, <2>3, <2>4 DEF InTime
<1> QED
  BY <1>2, <1>3

\* A sweep takes only what expired.
LEMMA SweepInTime ==
    ASSUME Sweep, NEW i \in DOMAIN imports
    PROVE  InTime(i)
<1>1. CASE i \in Expired
  <2>1. imports'[i].state = "CANCELLED" /\ now' = now
    BY <1>1 DEF Sweep, CancelledRow
  <2>2. imports[i].expires * TicksPerSecond < now
    BY <1>1 DEF Expired, SweepExpires
  <2> QED
    BY <2>1, <2>2 DEF InTime
<1>2. CASE i \notin Expired
  BY <1>2, UntouchedInTime DEF Sweep
<1> QED
  BY <1>1, <1>2

\* The owner's cancellation is not called an expiry.
LEMMA CancelInTime ==
    ASSUME NEW req, NEW i, ImportCancel(req, i), NEW j \in DOMAIN imports
    PROVE  InTime(j)
<1>1. i \in DOMAIN imports /\ imports' = Put(imports, i, CancelledRow(imports[i], "USER"))
  BY DEF ImportCancel
<1>2. CASE j # i
  BY <1>1, <1>2, UntouchedInTime DEF Put
<1>3. CASE j = i
  BY <1>1, <1>3 DEF Put, CancelledRow, InTime
<1> QED
  BY <1>2, <1>3

\* Every step decides in time.
LEMMA NextInTime ==
    ASSUME TypeOK, [Next]_vars, NEW i \in DOMAIN imports
    PROVE  InTime(i)
<1>1. CASE UNCHANGED imports
  BY <1>1, UntouchedInTime
<1>2. CASE \E req \in Requests, j \in Imports, b \in Batches : ImportStage(req, j, b)
  BY <1>2, UntouchedInTime DEF ImportStage, Put
<1>3. CASE \E req \in Requests, j \in Imports, expected \in 0..MaxRevision :
              ImportCommit(req, j, expected)
  BY <1>3, CommitInTime
<1>4. CASE \E req \in Requests, j \in Imports : ImportCommitExpired(req, j)
  BY <1>4, ExpiredInTime
<1>5. CASE \E req \in Requests, j \in Imports : ImportCancel(req, j)
  BY <1>5, CancelInTime
<1>6. CASE Sweep
  BY <1>6, SweepInTime
<1>7. CASE \/ \E req \in Requests, s \in Sources, body \in Profiles :
                 SourceRegister(req, s, body) \/ SourceRegisterAgain(req, s, body)
           \/ \E req \in Requests, tr \in Traces :
                 TraceCreate(req, tr) \/ TraceCreateAgain(req, tr)
           \/ \E req \in Requests, j \in Imports, b \in Batches : ImportStageAgain(req, j, b)
           \/ \E req \in Requests, j \in Imports, expected \in 0..MaxRevision :
                 ImportCommitAgain(req, j, expected)
           \/ \E req \in Requests, j \in Imports : ImportCancelAgain(req, j)
           \/ \E j \in Imports : CommitBroken(j)
           \/ Open \/ Stop \/ Tick \/ UNCHANGED vars
  BY <1>1, <1>7 DEF SourceRegister, SourceRegisterAgain, TraceCreate, TraceCreateAgain,
     ImportStageAgain, ImportCommitAgain, ImportCancelAgain, CommitBroken, Open, Stop, Tick, vars
<1> QED
  BY <1>2, <1>3, <1>4, <1>5, <1>6, <1>7 DEF Next

\* However far the clock runs on between the sweep and the method, a commit
\* never takes a stage past its time, and no stage that still has time is said
\* to have expired.
THEOREM StagesExpireOnTime == Spec => ExpiryRespected
<1> DEFINE Timely ==
        \A i \in DOMAIN imports :
            imports[i].state = "STAGED" =>
                /\ imports'[i].state = "COMMITTED" => Seconds(now') <= imports[i].expires
                /\ imports'[i].state = "CANCELLED" /\ imports'[i].reason \in {"EXPIRED", "UNSAID"}
                      => imports[i].expires * TicksPerSecond < now'
<1>1. TypeOK /\ [Next]_vars => [Timely]_vars
  BY NextInTime DEF InTime
<1> QED
  BY <1>1, TypeCorrect, PTL DEF Spec, ExpiryRespected

-------------------------------------------------------------------------------
(* What only a commit does. *)

IsCommit ==
    \E req \in Requests, i \in Imports, expected \in 0..MaxRevision : ImportCommit(req, i, expected)

\* Without a commit no content is added, and no import becomes committed.
LEMMA QuietContent ==
    ASSUME TypeOK, [Next]_vars, ~IsCommit
    PROVE  UNCHANGED <<natives, steps, origins, artifacts, Committed>>
<1>1. CASE UNCHANGED <<natives, steps, origins, artifacts, imports>>
  BY <1>1 DEF Committed
<1>2. CASE \E req \in Requests, i \in Imports, b \in Batches : ImportStage(req, i, b)
  BY <1>2 DEF ImportStage, Committed, Put, content
<1>3. CASE \E req \in Requests, i \in Imports : ImportCommitExpired(req, i)
  BY <1>3 DEF ImportCommitExpired, CommitExpires, CancelledRow, Committed, Put, content
<1>4. CASE \E req \in Requests, i \in Imports : ImportCancel(req, i)
  BY <1>4 DEF ImportCancel, Undecided, CancelledRow, Committed, Put, content
<1>5. CASE Sweep
  BY <1>5 DEF Sweep, Expired, SweepExpires, CancelledRow, Committed, content
<1>6. CASE \/ \E req \in Requests, s \in Sources, body \in Profiles :
                 SourceRegister(req, s, body) \/ SourceRegisterAgain(req, s, body)
           \/ \E req \in Requests, tr \in Traces :
                 TraceCreate(req, tr) \/ TraceCreateAgain(req, tr)
           \/ \E req \in Requests, j \in Imports, b \in Batches : ImportStageAgain(req, j, b)
           \/ \E req \in Requests, j \in Imports, expected \in 0..MaxRevision :
                 ImportCommitAgain(req, j, expected)
           \/ \E req \in Requests, j \in Imports : ImportCancelAgain(req, j)
           \/ \E j \in Imports : CommitBroken(j)
           \/ Open \/ Stop \/ Tick \/ UNCHANGED vars
  BY <1>1, <1>6 DEF SourceRegister, SourceRegisterAgain, TraceCreate, TraceCreateAgain,
     ImportStageAgain, ImportCommitAgain, ImportCancelAgain, CommitBroken, Open, Stop, Tick,
     vars, content
<1> QED
  BY <1>2, <1>3, <1>4, <1>5, <1>6 DEF Next, IsCommit

\* What a commit of i adds, in the terms of its batch.
LEMMA CommitEffect ==
    ASSUME HistoryInv, NEW req \in Requests, NEW i \in Imports,
           NEW expected \in 0..MaxRevision, ImportCommit(req, i, expected)
    PROVE  LET b == imports[i].batch
               next == traces[b.trace] + 1
               result == CommitResult(b)
           IN  /\ i \in DOMAIN imports /\ imports[i].state = "STAGED"
               /\ b \in Batches
               /\ b.trace \in DOMAIN traces /\ traces[b.trace] \in Nat /\ expected = traces[b.trace]
               /\ \A s \in b.steps : s.trace = b.trace
               /\ result.trace = b.trace /\ result.revision = next
               /\ result.graph = GraphAfter(b) /\ result.audit = NextSeq
               /\ steps' = steps \cup b.steps
               /\ origins' = origins \cup b.origins
               /\ DOMAIN traces' = DOMAIN traces
               /\ \A tr \in DOMAIN traces : traces'[tr] = IF tr = b.trace THEN next ELSE traces[tr]
               /\ <<b.trace, next>> \notin DOMAIN revisions
               /\ DOMAIN revisions' = DOMAIN revisions \cup {<<b.trace, next>>}
               /\ revisions'[<<b.trace, next>>] = [graph |-> GraphAfter(b), auditSeq |-> NextSeq]
               /\ DOMAIN imports' = DOMAIN imports
               /\ \A j \in DOMAIN imports : j # i => imports'[j] = imports[j]
               /\ imports'[i] = CommittedRow(imports[i], result)
<1> DEFINE b == imports[i].batch
           next == traces[b.trace] + 1
           result == CommitResult(b)
           row == [graph |-> result.graph, auditSeq |-> NextSeq]
<1>1. i \in DOMAIN imports /\ imports[i].state = "STAGED" /\ TypeOK
  BY DEF HistoryInv, ImportCommit, Undecided
<1>2. b \in Batches /\ \A s \in b.steps : s.trace = b.trace
  BY <1>1, DecidedRowsTyped, BatchAssumption
<1>3. b.trace \in DOMAIN traces /\ traces[b.trace] \in Nat /\ expected = traces[b.trace]
  BY <1>1 DEF HistoryInv, ImportsTraced, TypeOK, IsTableOf, ImportCommit, HeadIs
<1>4. /\ result.trace = b.trace /\ result.revision = next
      /\ result.graph = GraphAfter(b) /\ result.audit = NextSeq
  BY DEF CommitResult, NextRevision
<1>5. steps' = steps \cup b.steps /\ origins' = origins \cup b.origins
  BY DEF ImportCommit
<1>6. /\ traces' = Put(traces, b.trace, result.revision)
      /\ revisions' = Put(revisions, <<b.trace, result.revision>>, row)
      /\ imports' = Put(imports, i, CommittedRow(imports[i], result))
  BY DEF ImportCommit
<1>7. row = [graph |-> GraphAfter(b), auditSeq |-> NextSeq]
  BY <1>4
<1> HIDE DEF result, row
<1>8. <<b.trace, next>> \notin DOMAIN revisions
  <2> SUFFICES ASSUME <<b.trace, next>> \in DOMAIN revisions PROVE FALSE
    OBVIOUS
  <2>1. next <= traces[b.trace]
    BY DEF HistoryInv, HistoryAudited, RevisionsDense
  <2> QED
    BY <1>3, <2>1
<1>9. /\ DOMAIN traces' = DOMAIN traces
      /\ \A tr \in DOMAIN traces : traces'[tr] = IF tr = b.trace THEN next ELSE traces[tr]
  BY <1>3, <1>4, <1>6 DEF Put
<1>10. /\ DOMAIN revisions' = DOMAIN revisions \cup {<<b.trace, next>>}
       /\ revisions'[<<b.trace, next>>] = row
  BY <1>4, <1>6 DEF Put
<1>11. /\ DOMAIN imports' = DOMAIN imports
       /\ \A j \in DOMAIN imports : j # i => imports'[j] = imports[j]
       /\ imports'[i] = CommittedRow(imports[i], result)
  BY <1>1, <1>6 DEF Put
<1> QED
  BY <1>1, <1>2, <1>3, <1>4, <1>5, <1>7, <1>8, <1>9, <1>10, <1>11 DEF result

-------------------------------------------------------------------------------
(* OneTracePerRecord. *)

\* A commit binds what it adds to its own trace only.
LEMMA CommitBindsOnce ==
    ASSUME HistoryInv, OneTracePerRecord, NEW req \in Requests, NEW i \in Imports,
           NEW expected \in 0..MaxRevision, ImportCommit(req, i, expected)
    PROVE  OneTracePerRecord'
<1> DEFINE b == imports[i].batch
           key(s) == <<s.source, s.native>>
<1>1. steps' = steps \cup b.steps /\ \A s \in b.steps : s.trace = b.trace
  BY CommitEffect
<1>2. natives' = Bound(b) /\ BindingsAgree(b)
  BY DEF ImportCommit
<1>3. ASSUME NEW s \in steps', NEW u \in steps', s.source = u.source, s.record = u.record
      PROVE  s.trace = u.trace
  <2>1. \A p \in steps, q \in b.steps :
           p.source = q.source /\ p.record = q.record => p.trace = b.trace
    BY <1>2 DEF BindingsAgree
  <2> QED
    BY <1>1, <1>3, <2>1 DEF OneTracePerRecord
<1>4. \A k \in DOMAIN natives : k \in DOMAIN natives' /\ natives'[k] = natives[k]
  BY <1>2 DEF Bound
<1>5. ASSUME NEW s \in b.steps
      PROVE  key(s) \in DOMAIN natives' /\ natives'[key(s)] = b.trace
  <2>1. key(s) \in DOMAIN natives'
    BY <1>2 DEF Bound
  <2>2. key(s) \in DOMAIN natives => natives[key(s)] = b.trace
    BY <1>2 DEF BindingsAgree
  <2>3. key(s) \notin DOMAIN natives => natives'[key(s)] = b.trace
    BY <1>2, <2>1 DEF Bound
  <2> QED
    BY <1>4, <2>1, <2>2, <2>3
<1>6. ASSUME NEW s \in steps'
      PROVE  key(s) \in DOMAIN natives' /\ natives'[key(s)] = s.trace
  <2>1. CASE s \in steps
    BY <1>4, <2>1 DEF OneTracePerRecord
  <2>2. CASE s \in b.steps
    BY <1>1, <1>5, <2>2
  <2> QED
    BY <1>1, <2>1, <2>2
<1> QED
  BY <1>3, <1>6 DEF OneTracePerRecord

\* However imports into different traces interleave, a record of a provider and
\* its native trace live in one trace only.
THEOREM RecordsHaveOneTrace == Spec => []OneTracePerRecord
<1>1. Init => OneTracePerRecord
  BY DEF Init, OneTracePerRecord
<1>2. HistoryInv /\ OneTracePerRecord /\ [Next]_vars => OneTracePerRecord'
  <2> SUFFICES ASSUME HistoryInv, OneTracePerRecord, [Next]_vars PROVE OneTracePerRecord'
    OBVIOUS
  <2>1. CASE IsCommit
    BY <2>1, CommitBindsOnce DEF IsCommit
  <2>2. CASE ~IsCommit
    BY <2>2, QuietContent DEF HistoryInv, OneTracePerRecord
  <2> QED
    BY <2>1, <2>2
<1> QED
  BY <1>1, <1>2, HistoryInvHolds, PTL DEF Spec

-------------------------------------------------------------------------------
(* RevisionsGrow.  It needs to know that no step is stored for a trace that    *)
(* is yet to be created, and of which origins a revision may hold.             *)

StepsTraced == \A s \in steps : s.trace \in DOMAIN traces

\* The origins of a revision are still pinned by the trace's steps.
OriginsPinned ==
    \A key \in DOMAIN revisions :
        revisions[key].graph.origins \subseteq Pinned(origins, TraceSteps(key[1]))

ContentInv == HistoryInv /\ RevisionsGrow /\ StepsTraced /\ OriginsPinned

\* What more steps and more origins pin.
LEMMA PinnedGrows ==
    ASSUME NEW all, NEW more, all \subseteq more, NEW pool, NEW wider, pool \subseteq wider
    PROVE  Pinned(all, pool) \subseteq Pinned(more, wider)
BY DEF Pinned, Caps

\* Without a commit no head moves, and a new trace has an empty revision 0 only.
LEMMA QuietHeads ==
    ASSUME TypeOK, RevisionsDense, [Next]_vars, ~IsCommit
    PROVE  /\ \A tr \in DOMAIN traces : tr \in DOMAIN traces' /\ traces'[tr] = traces[tr]
           /\ \A tr \in DOMAIN traces' \ DOMAIN traces :
                 traces'[tr] = 0 /\ revisions'[<<tr, 0>>].graph = EmptyGraph
           /\ \A key \in DOMAIN revisions' \ DOMAIN revisions :
                 key[2] = 0 /\ revisions'[key].graph = EmptyGraph
           /\ \A key \in DOMAIN revisions : revisions'[key] = revisions[key]
<1>1. CASE UNCHANGED <<traces, revisions>>
  BY <1>1
<1>2. ASSUME NEW req \in Requests, NEW tr \in Traces, TraceCreate(req, tr)
      PROVE  /\ tr \notin DOMAIN traces
             /\ traces' = Put(traces, tr, 0)
             /\ <<tr, 0>> \notin DOMAIN revisions
             /\ \E row : row.graph = EmptyGraph /\ revisions' = Put(revisions, <<tr, 0>>, row)
  <2>1. tr \notin DOMAIN traces /\ traces' = Put(traces, tr, 0)
    BY <1>2 DEF TraceCreate
  <2>2. <<tr, 0>> \notin DOMAIN revisions
    BY <2>1 DEF RevisionsDense
  <2>3. /\ [graph |-> EmptyGraph, auditSeq |-> NextSeq].graph = EmptyGraph
        /\ revisions' = Put(revisions, <<tr, 0>>, [graph |-> EmptyGraph, auditSeq |-> NextSeq])
    BY <1>2 DEF TraceCreate
  <2> QED
    BY <2>1, <2>2, <2>3
<1>3. CASE \E req \in Requests, tr \in Traces : TraceCreate(req, tr)
  <2>1. PICK req \in Requests, tr \in Traces : TraceCreate(req, tr)
    BY <1>3
  <2>2. PICK row : row.graph = EmptyGraph /\ revisions' = Put(revisions, <<tr, 0>>, row)
    BY <1>2, <2>1
  <2>3. /\ tr \notin DOMAIN traces
        /\ traces' = Put(traces, tr, 0)
        /\ <<tr, 0>> \notin DOMAIN revisions
    BY <1>2, <2>1
  <2>4. \A key \in DOMAIN revisions : revisions'[key] = revisions[key]
    BY <2>2, <2>3 DEF Put
  <2>5. DOMAIN revisions' \ DOMAIN revisions = {<<tr, 0>>} /\ revisions'[<<tr, 0>>] = row
    BY <2>2, <2>3 DEF Put
  <2>6. DOMAIN traces' \ DOMAIN traces = {tr} /\ traces'[tr] = 0
    BY <2>3 DEF Put
  <2>7. \A u \in DOMAIN traces : u \in DOMAIN traces' /\ traces'[u] = traces[u]
    BY <2>3 DEF Put
  <2> QED
    BY <2>2, <2>4, <2>5, <2>6, <2>7
<1>4. CASE \/ \E req \in Requests, s \in Sources, body \in Profiles :
                 SourceRegister(req, s, body) \/ SourceRegisterAgain(req, s, body)
           \/ \E req \in Requests, tr \in Traces : TraceCreateAgain(req, tr)
           \/ \E req \in Requests, i \in Imports, b \in Batches :
                 ImportStage(req, i, b) \/ ImportStageAgain(req, i, b)
           \/ \E req \in Requests, i \in Imports, expected \in 0..MaxRevision :
                 ImportCommitAgain(req, i, expected)
           \/ \E req \in Requests, i \in Imports :
                 \/ ImportCommitExpired(req, i)
                 \/ ImportCancel(req, i)
                 \/ ImportCancelAgain(req, i)
           \/ \E i \in Imports : CommitBroken(i)
           \/ Sweep \/ Open \/ Stop \/ Tick \/ UNCHANGED vars
  BY <1>1, <1>4 DEF SourceRegister, SourceRegisterAgain, TraceCreateAgain, ImportStage,
     ImportStageAgain, ImportCommitAgain, ImportCommitExpired, ImportCancel, ImportCancelAgain,
     CommitBroken, Sweep, Open, Stop, Tick, vars, content
<1> QED
  BY <1>3, <1>4 DEF Next, IsCommit

\* Without a commit revisions grow as they did.
LEMMA QuietRevisionsGrow ==
    ASSUME ContentInv, [Next]_vars, ~IsCommit
    PROVE  RevisionsGrow' /\ StepsTraced' /\ OriginsPinned'
<1>1. TypeOK /\ RevisionsDense /\ UNCHANGED <<steps, origins>>
  BY QuietContent DEF ContentInv, HistoryInv, HistoryAudited
<1>2. /\ \A tr \in DOMAIN traces : tr \in DOMAIN traces' /\ traces'[tr] = traces[tr]
      /\ \A tr \in DOMAIN traces' \ DOMAIN traces :
            traces'[tr] = 0 /\ revisions'[<<tr, 0>>].graph = EmptyGraph
      /\ \A key \in DOMAIN revisions' \ DOMAIN revisions :
            key[2] = 0 /\ revisions'[key].graph = EmptyGraph
      /\ \A key \in DOMAIN revisions : revisions'[key] = revisions[key]
  BY <1>1, QuietHeads
<1>3. \A tr : TraceSteps(tr)' = TraceSteps(tr)
  BY <1>1 DEF TraceSteps
<1>4. ASSUME NEW tr \in DOMAIN traces'
      PROVE  /\ revisions'[<<tr, traces'[tr]>>].graph.steps = TraceSteps(tr)
             /\ \A m, n \in 0..traces'[tr] :
                   m <= n =>
                     /\ revisions'[<<tr, m>>].graph.steps \subseteq revisions'[<<tr, n>>].graph.steps
                     /\ revisions'[<<tr, m>>].graph.origins
                           \subseteq revisions'[<<tr, n>>].graph.origins
  <2>1. CASE tr \in DOMAIN traces
    <3>1. traces[tr] \in Nat /\ \A n \in 0..traces[tr] : <<tr, n>> \in DOMAIN revisions
      BY <1>1, <2>1 DEF TypeOK, IsTableOf, RevisionsDense
    <3>2. traces'[tr] = traces[tr] /\ \A n \in 0..traces[tr] : revisions'[<<tr, n>>] = revisions[<<tr, n>>]
      BY <1>2, <2>1, <3>1
    <3>3. traces[tr] \in 0..traces[tr]
      BY <3>1
    <3> QED
      BY <2>1, <3>2, <3>3 DEF ContentInv, RevisionsGrow
  <2>2. CASE tr \notin DOMAIN traces
    <3>1. traces'[tr] = 0 /\ revisions'[<<tr, 0>>].graph = EmptyGraph
      BY <1>2, <2>2
    <3>2. TraceSteps(tr) = {}
      BY <2>2 DEF ContentInv, StepsTraced, TraceSteps
    <3>3. \A m \in 0..traces'[tr] : m = 0
      BY <3>1
    <3> QED
      BY <3>1, <3>2, <3>3 DEF EmptyGraph
  <2> QED
    BY <2>1, <2>2
<1>5. RevisionsGrow'
  BY <1>3, <1>4 DEF RevisionsGrow
<1>6. StepsTraced'
  BY <1>1, <1>2 DEF ContentInv, StepsTraced
<1>7. OriginsPinned'
  <2> SUFFICES ASSUME NEW key \in DOMAIN revisions'
               PROVE  revisions'[key].graph.origins \subseteq Pinned(origins, TraceSteps(key[1]))
    BY <1>1, <1>3 DEF OriginsPinned, Pinned
  <2>1. CASE key \in DOMAIN revisions
    BY <1>2, <2>1 DEF ContentInv, OriginsPinned
  <2>2. CASE key \notin DOMAIN revisions
    BY <1>2, <2>2 DEF EmptyGraph
  <2> QED
    BY <2>1, <2>2
<1> QED
  BY <1>5, <1>6, <1>7

\* The revision a commit makes holds what those before it hold.
LEMMA CommitRevisionsGrow ==
    ASSUME ContentInv, NEW req \in Requests, NEW i \in Imports,
           NEW expected \in 0..MaxRevision, ImportCommit(req, i, expected)
    PROVE  RevisionsGrow' /\ StepsTraced' /\ OriginsPinned'
<1>0. PICK b, u, next : b = imports[i].batch /\ u = b.trace /\ next = traces[u] + 1
  OBVIOUS
<1> DEFINE pool == {s \in steps \cup b.steps : s.trace = u}
<1>1. /\ HistoryInv /\ TypeOK /\ RevisionsDense /\ RevisionsStay
  BY CommitGrows DEF ContentInv, HistoryInv, HistoryAudited, Grows
<1>2. /\ steps' = steps \cup b.steps
      /\ origins' = origins \cup b.origins
      /\ \A s \in b.steps : s.trace = u
      /\ u \in DOMAIN traces /\ traces[u] \in Nat
      /\ DOMAIN traces' = DOMAIN traces
      /\ \A tr \in DOMAIN traces : traces'[tr] = IF tr = u THEN next ELSE traces[tr]
      /\ DOMAIN revisions' = DOMAIN revisions \cup {<<u, next>>}
      /\ revisions'[<<u, next>>] = [graph |-> GraphAfter(b), auditSeq |-> NextSeq]
  BY <1>1, <1>0, CommitEffect
<1>3. /\ revisions'[<<u, next>>].graph.steps = pool
      /\ revisions'[<<u, next>>].graph.origins = Pinned(origins \cup b.origins, pool)
  <2>1. revisions'[<<u, next>>].graph = GraphAfter(b)
    BY <1>2
  <2>2. GraphAfter(b).steps = pool /\ GraphAfter(b).origins = Pinned(origins \cup b.origins, pool)
    BY <1>0 DEF GraphAfter
  <2> QED
    BY <2>1, <2>2
<1>4. /\ TraceSteps(u)' = pool
      /\ TraceSteps(u) \subseteq pool
      /\ \A tr : tr # u => TraceSteps(tr)' = TraceSteps(tr)
      /\ \A tr : TraceSteps(tr) \subseteq TraceSteps(tr)'
  <2>1. \A tr : TraceSteps(tr)' = {s \in steps' : s.trace = tr}
    BY DEF TraceSteps
  <2>2. \A tr : TraceSteps(tr) = {s \in steps : s.trace = tr}
    BY DEF TraceSteps
  <2>3. steps' = steps \cup b.steps /\ \A s \in b.steps : s.trace = u
    BY <1>2
  <2> QED
    BY <2>1, <2>2, <2>3
<1>5. next \in Nat
  BY <1>2, <1>0
<1> HIDE DEF pool
<1>6. ASSUME NEW tr \in DOMAIN traces
      PROVE  /\ traces[tr] \in Nat
             /\ \A n \in 0..traces[tr] :
                   <<tr, n>> \in DOMAIN revisions /\ revisions'[<<tr, n>>] = revisions[<<tr, n>>]
  BY <1>1, <1>6 DEF TypeOK, IsTableOf, RevisionsDense, RevisionsStay
<1>7. ASSUME NEW m \in 0..traces[u]
      PROVE  /\ revisions'[<<u, m>>].graph.steps \subseteq pool
             /\ revisions'[<<u, m>>].graph.origins \subseteq Pinned(origins \cup b.origins, pool)
  <2>1. <<u, m>> \in DOMAIN revisions /\ revisions'[<<u, m>>] = revisions[<<u, m>>]
    BY <1>2, <1>6
  <2>2. revisions[<<u, m>>].graph.steps \subseteq TraceSteps(u)
    <3>1. traces[u] \in 0..traces[u] /\ m <= traces[u]
      BY <1>2
    <3>2. u \in DOMAIN traces
      BY <1>2
    <3>3. /\ revisions[<<u, traces[u]>>].graph.steps = TraceSteps(u)
          /\ revisions[<<u, m>>].graph.steps \subseteq revisions[<<u, traces[u]>>].graph.steps
      BY <3>1, <3>2 DEF ContentInv, RevisionsGrow
    <3> QED
      BY <3>3
  <2>3. revisions[<<u, m>>].graph.origins \subseteq Pinned(origins, TraceSteps(u))
    BY <2>1 DEF ContentInv, OriginsPinned
  <2>4. Pinned(origins, TraceSteps(u)) \subseteq Pinned(origins \cup b.origins, pool)
    BY <1>4, PinnedGrows
  <2> QED
    BY <1>4, <2>1, <2>2, <2>3, <2>4
<1>8. ASSUME NEW tr \in DOMAIN traces'
      PROVE  /\ revisions'[<<tr, traces'[tr]>>].graph.steps = TraceSteps(tr)'
             /\ \A m, n \in 0..traces'[tr] :
                   m <= n =>
                     /\ revisions'[<<tr, m>>].graph.steps \subseteq revisions'[<<tr, n>>].graph.steps
                     /\ revisions'[<<tr, m>>].graph.origins
                           \subseteq revisions'[<<tr, n>>].graph.origins
  <2>1. tr \in DOMAIN traces
    BY <1>2
  <2>2. CASE tr # u
    <3>1. traces'[tr] = traces[tr]
      BY <1>2, <2>1, <2>2
    <3>2. traces[tr] \in 0..traces[tr]
      BY <1>6, <2>1
    <3> QED
      BY <1>4, <1>6, <2>1, <2>2, <3>1, <3>2 DEF ContentInv, RevisionsGrow
  <2>3. CASE tr = u
    <3>1. traces'[u] = next
      BY <1>2
    <3>2. ASSUME NEW m \in 0..next, NEW n \in 0..next, m <= n
          PROVE  /\ revisions'[<<u, m>>].graph.steps \subseteq revisions'[<<u, n>>].graph.steps
                 /\ revisions'[<<u, m>>].graph.origins \subseteq revisions'[<<u, n>>].graph.origins
      <4>1. CASE m = n
        BY <4>1
      <4>2. CASE m # n /\ n = next
        <5>1. m \in 0..traces[u]
          BY <1>2, <1>0, <1>5, <3>2, <4>2
        <5> QED
          BY <1>3, <1>7, <4>2, <5>1
      <4>3. CASE n # next
        <5>1. m \in 0..traces[u] /\ n \in 0..traces[u]
          BY <1>2, <1>0, <1>5, <3>2, <4>3
        <5>2. u \in DOMAIN traces
          BY <1>2
        <5>3. /\ revisions[<<u, m>>].graph.steps \subseteq revisions[<<u, n>>].graph.steps
              /\ revisions[<<u, m>>].graph.origins \subseteq revisions[<<u, n>>].graph.origins
          BY <3>2, <5>1, <5>2 DEF ContentInv, RevisionsGrow
        <5> QED
          BY <1>6, <5>1, <5>2, <5>3
      <4> QED
        BY <4>1, <4>2, <4>3
    <3>3. /\ revisions'[<<u, traces'[u]>>].graph.steps = TraceSteps(u)'
      BY <1>3, <1>4, <3>1
    <3> QED
      BY <2>3, <3>1, <3>2, <3>3
  <2> QED
    BY <2>2, <2>3
<1>9. RevisionsGrow'
  BY <1>8 DEF RevisionsGrow
<1>10. StepsTraced'
  BY <1>2 DEF ContentInv, StepsTraced
<1>11. OriginsPinned'
  <2> SUFFICES ASSUME NEW key \in DOMAIN revisions'
               PROVE  revisions'[key].graph.origins \subseteq Pinned(origins', TraceSteps(key[1])')
    BY DEF OriginsPinned, Pinned, TraceSteps
  <2>1. CASE key = <<u, next>>
    <3>1. key[1] = u /\ origins' = origins \cup b.origins
      BY <1>2, <2>1
    <3> QED
      BY <1>3, <1>4, <2>1, <3>1
  <2>2. CASE key \in DOMAIN revisions
    <3>1. revisions'[key] = revisions[key]
      BY <1>1, <2>2 DEF RevisionsStay
    <3>2. revisions[key].graph.origins \subseteq Pinned(origins, TraceSteps(key[1]))
      BY <2>2 DEF ContentInv, OriginsPinned
    <3>3. Pinned(origins, TraceSteps(key[1])) \subseteq Pinned(origins', TraceSteps(key[1])')
      BY <1>2, <1>4, PinnedGrows
    <3> QED
      BY <3>1, <3>2, <3>3
  <2> QED
    BY <1>2, <2>1, <2>2
<1> QED
  BY <1>9, <1>10, <1>11

LEMMA ContentInvHolds == Spec => []ContentInv
<1>1. Init => ContentInv
  <2> SUFFICES ASSUME Init PROVE ContentInv
    OBVIOUS
  <2>1. DOMAIN traces = {} /\ DOMAIN revisions = {} /\ steps = {}
    BY DEF Init, EmptyTable
  <2> QED
    BY <2>1, InitHistory DEF ContentInv, RevisionsGrow, StepsTraced, OriginsPinned
<1>2. ContentInv /\ [Next]_vars => ContentInv'
  <2> SUFFICES ASSUME ContentInv, [Next]_vars PROVE ContentInv'
    OBVIOUS
  <2>1. HistoryInv'
    BY NextKeepsHistory DEF ContentInv
  <2>2. CASE IsCommit
    BY <2>1, <2>2, CommitRevisionsGrow DEF IsCommit, ContentInv
  <2>3. CASE ~IsCommit
    BY <2>1, <2>3, QuietRevisionsGrow DEF ContentInv
  <2> QED
    BY <2>2, <2>3
<1> QED
  BY <1>1, <1>2, PTL DEF Spec

\* A later revision of a trace holds all that an earlier one did, and the head
\* every step that is stored for the trace, whichever imports were committed.
THEOREM RevisionsOnlyGrow == Spec => []RevisionsGrow
BY ContentInvHolds, PTL DEF ContentInv

-------------------------------------------------------------------------------
(* Sums over a finite set.  SumFunction folds a function over its domain: the  *)
(* fold is a recursive function on the subsets of the domain, and what it sums *)
(* to is found by induction on their number of elements.                       *)

\* A set of numbers that has an element has a least one.
LEMMA LeastNatural ==
    ASSUME NEW T, T \subseteq Nat, T # {}
    PROVE  \E m \in T : \A n \in T : m <= n
<1> DEFINE Less == {ss \in Nat \X Nat : ss[1] < ss[2]}
<1>1. Less = OpToRel(<, Nat)
  BY DEF OpToRel
<1>2. IsWellFoundedOn(Less, Nat)
  BY <1>1, NatLessThanWellFounded
<1>3. \E m \in T : \A n \in T : ~(<<n, m>> \in Less)
  <2> HIDE DEF Less
  <2> QED
    BY <1>2, WFMin
<1>4. \A m, n \in Nat : ~(<<n, m>> \in Less) => m <= n
  OBVIOUS
<1> QED
  BY <1>3, <1>4

\* A set of numbers that holds 0 and, with a number, the next holds them all.
LEMMA HoldsAll ==
    ASSUME NEW N \in SUBSET Nat, 0 \in N, \A n \in N : n + 1 \in N
    PROVE  N = Nat
<1> DEFINE Out == Nat \ N
<1> SUFFICES ASSUME Out # {} PROVE FALSE
  OBVIOUS
<1>1. PICK n \in Out : \A m \in Out : n <= m
  <2>1. Out \subseteq Nat
    OBVIOUS
  <2> HIDE DEF Out
  <2> QED
    BY <2>1, LeastNatural
<1>2. n - 1 \in Nat /\ ~(n <= n - 1) /\ (n - 1) + 1 = n
  BY <1>1
<1> QED
  BY <1>1, <1>2

\* Some element of a set, the same one each time.
Some(s) == CHOOSE x \in s : TRUE

\* t is what the sums of f over the sets in D are made of, one element at a time.
Sums(t, f, D) == t = [s \in D |-> IF s = {} THEN 0 ELSE f[Some(s)] + t[s \ {Some(s)}]]

LEMMA SumIs ==
    ASSUME NEW f
    PROVE  SumFunction(f) = (CHOOSE t : Sums(t, f, SUBSET DOMAIN f))[DOMAIN f]
BY DEF SumFunction, SumFunctionOnSet, FoldFunctionOnSet, MapThenFoldSet, Sums, Some

\* The subsets of S of at most n elements.
Upto(S, n) == {s \in SUBSET S : Cardinality(s) <= n}

LEMMA OneLess ==
    ASSUME NEW S, IsFiniteSet(S), NEW s \in SUBSET S, s # {}
    PROVE  /\ IsFiniteSet(s) /\ Cardinality(s) \in Nat /\ Some(s) \in s
           /\ \A x \in s : /\ s \ {x} \in SUBSET S
                           /\ Cardinality(s \ {x}) = Cardinality(s) - 1
<1>1. IsFiniteSet(s)
  BY FS_Subset
<1>2. \A x \in s : Cardinality(s \ {x}) = Cardinality(s) - 1
  BY <1>1, FS_RemoveElement
<1> QED
  BY <1>1, <1>2, FS_CardinalityType DEF Some

\* The same for the sets of so many elements.
LEMMA UptoLess ==
    ASSUME NEW S, IsFiniteSet(S)
    PROVE  /\ Upto(S, 0) = {{}}
           /\ \A n \in Nat : Upto(S, n) \subseteq Upto(S, n + 1) /\ Upto(S, n) \subseteq SUBSET S
           /\ \A n \in Nat : \A s \in Upto(S, n + 1) : \A x \in s : s \ {x} \in Upto(S, n)
           /\ Cardinality(S) \in Nat /\ Upto(S, Cardinality(S)) = SUBSET S
<1>1. \A s \in SUBSET S : Cardinality(s) \in Nat /\ Cardinality(s) <= Cardinality(S)
  BY FS_Subset, FS_CardinalityType
<1>2. \A s \in Upto(S, 0) : s = {}
  <2> SUFFICES ASSUME NEW s \in Upto(S, 0), s # {} PROVE FALSE
    OBVIOUS
  <2>1. s \in SUBSET S /\ Cardinality(s) <= 0
    BY DEF Upto
  <2>2. PICK x \in s : Cardinality(s \ {x}) = Cardinality(s) - 1 /\ s \ {x} \in SUBSET S
    BY <2>1, OneLess
  <2> QED
    BY <1>1, <2>1, <2>2
<1>3. {} \in Upto(S, 0)
  BY FS_EmptySet DEF Upto
<1>4. \A n \in Nat : Upto(S, n) \subseteq Upto(S, n + 1) /\ Upto(S, n) \subseteq SUBSET S
  BY <1>1 DEF Upto
<1>5. ASSUME NEW n \in Nat, NEW s \in Upto(S, n + 1), NEW x \in s PROVE s \ {x} \in Upto(S, n)
  <2>1. s \in SUBSET S /\ s # {} /\ Cardinality(s) <= n + 1 /\ Cardinality(s) \in Nat
    BY <1>1 DEF Upto
  <2>2. Cardinality(s \ {x}) = Cardinality(s) - 1 /\ s \ {x} \in SUBSET S
    BY <2>1, OneLess
  <2> QED
    BY <2>1, <2>2 DEF Upto
<1>6. Cardinality(S) \in Nat /\ Upto(S, Cardinality(S)) = SUBSET S
  BY <1>1 DEF Upto
<1> QED
  BY <1>2, <1>3, <1>4, <1>5, <1>6

LEMMA SumsExist ==
    ASSUME NEW f, NEW S, IsFiniteSet(S)
    PROVE  \E t : Sums(t, f, SUBSET S)
<1> DEFINE N == {n \in Nat : \E t : Sums(t, f, Upto(S, n))}
<1>1. 0 \in N
  <2> DEFINE t == [s \in Upto(S, 0) |-> 0]
  <2>1. \A s \in Upto(S, 0) : s = {}
    BY UptoLess
  <2>2. Sums(t, f, Upto(S, 0))
    BY <2>1 DEF Sums
  <2> HIDE DEF t
  <2> QED
    BY <2>2
<1>2. ASSUME NEW n \in N PROVE n + 1 \in N
  <2>1. PICK t : Sums(t, f, Upto(S, n))
    OBVIOUS
  <2> DEFINE value(u, s) == IF s = {} THEN 0 ELSE f[Some(s)] + u[s \ {Some(s)}]
             more == [s \in Upto(S, n + 1) |-> value(t, s)]
  <2>2. \A s \in Upto(S, n) : t[s] = value(t, s)
    BY <2>1 DEF Sums
  <2>3. ASSUME NEW s \in Upto(S, n + 1) PROVE value(t, s) = value(more, s)
    <3>1. CASE s = {}
      BY <3>1
    <3>2. CASE s # {}
      <4> DEFINE less == s \ {Some(s)}
      <4>1. less \in Upto(S, n) /\ less \in Upto(S, n + 1)
        BY <3>2, OneLess, UptoLess
      <4>2. more[less] = t[less]
        BY <2>2, <4>1
      <4> HIDE DEF more
      <4> QED
        BY <3>2, <4>2
    <3> QED
      BY <3>1, <3>2
  <2>4. more = [s \in Upto(S, n + 1) |-> value(more, s)]
    BY <2>3
  <2> HIDE DEF more
  <2>5. Sums(more, f, Upto(S, n + 1))
    BY <2>4 DEF Sums
  <2> QED
    BY <2>5
<1>3. N = Nat
  <2>1. N \in SUBSET Nat
    OBVIOUS
  <2> HIDE DEF N
  <2> QED
    BY <1>1, <1>2, <2>1, HoldsAll
<1>4. Cardinality(S) \in N /\ Upto(S, Cardinality(S)) = SUBSET S
  BY <1>3, UptoLess
<1> QED
  BY <1>4

\* It does not matter which element is taken first.
LEMMA SumsTakeAny ==
    ASSUME NEW S, IsFiniteSet(S), NEW f, \A x \in S : f[x] \in Int,
           NEW t, Sums(t, f, SUBSET S)
    PROVE  \A s \in SUBSET S : /\ t[s] \in Int
                               /\ s = {} => t[s] = 0
                               /\ \A x \in s : t[s] = f[x] + t[s \ {x}]
<1> DEFINE Any(s) == /\ t[s] \in Int
                     /\ s = {} => t[s] = 0
                     /\ \A x \in s : t[s] = f[x] + t[s \ {x}]
           N == {n \in Nat : \A s \in Upto(S, n) : Any(s)}
<1>1. \A s \in SUBSET S : t[s] = IF s = {} THEN 0 ELSE f[Some(s)] + t[s \ {Some(s)}]
  BY DEF Sums
<1>2. 0 \in N
  <2>1. \A s \in Upto(S, 0) : s = {}
    BY UptoLess
  <2> QED
    BY <1>1, <2>1
<1>3. ASSUME NEW n \in N PROVE n + 1 \in N
  <2> SUFFICES ASSUME NEW s \in Upto(S, n + 1) PROVE Any(s)
    OBVIOUS
  <2>1. CASE s = {}
    <3>1. s \in SUBSET S /\ t[s] = 0
      BY <1>1, <2>1
    <3> QED
      BY <2>1, <3>1
  <2>2. CASE s # {}
    <3> DEFINE c == Some(s)
    <3>1. c \in s /\ s \in SUBSET S /\ t[s] = f[c] + t[s \ {c}]
      BY <1>1, <2>2, OneLess, UptoLess
    <3>2. \A x \in s : s \ {x} \in Upto(S, n) /\ Any(s \ {x})
      BY UptoLess
    <3>3. t[s] \in Int
      BY <3>1, <3>2
    <3>4. ASSUME NEW x \in s PROVE t[s] = f[x] + t[s \ {x}]
      <4>1. CASE x = c
        BY <3>1, <4>1
      <4>2. CASE x # c
        <5>1. t[s \ {c}] = f[x] + t[(s \ {c}) \ {x}] /\ t[s \ {x}] = f[c] + t[(s \ {x}) \ {c}]
          BY <3>1, <3>2, <4>2
        <5>2. (s \ {c}) \ {x} = (s \ {x}) \ {c} /\ (s \ {x}) \ {c} \in Upto(S, n)
          <6>1. s \ {x} \in Upto(S, n + 1) /\ c \in s \ {x}
            BY <3>1, <3>2, <4>2, UptoLess
          <6> QED
            BY <6>1, UptoLess
        <5>3. t[(s \ {x}) \ {c}] \in Int /\ f[x] \in Int /\ f[c] \in Int
          BY <3>1, <5>2
        <5>4. PICK a, b, r : a = f[x] /\ b = f[c] /\ r = t[(s \ {x}) \ {c}]
          OBVIOUS
        <5>5. t[s] = b + (a + r) /\ t[s \ {x}] = b + r
          BY <3>1, <5>1, <5>2, <5>4
        <5> QED
          BY <5>3, <5>4, <5>5
      <4> QED
        BY <4>1, <4>2
    <3> QED
      BY <2>2, <3>3, <3>4
  <2> QED
    BY <2>1, <2>2
<1>4. N = Nat
  <2>1. N \in SUBSET Nat
    OBVIOUS
  <2> HIDE DEF N
  <2> QED
    BY <1>2, <1>3, <2>1, HoldsAll
<1>5. ASSUME NEW s \in SUBSET S PROVE Any(s)
  <2>1. Cardinality(S) \in N /\ s \in Upto(S, Cardinality(S))
    BY <1>4, UptoLess
  <2> QED
    BY <2>1
<1> QED
  BY <1>5

\* The sum over no element, and over one more.
LEMMA SumOfNone == ASSUME NEW f, DOMAIN f = {} PROVE SumFunction(f) = 0
<1> DEFINE t == CHOOSE u : Sums(u, f, SUBSET DOMAIN f)
<1>1. Sums(t, f, SUBSET DOMAIN f)
  BY SumsExist, FS_EmptySet
<1>2. SumFunction(f) = t[DOMAIN f]
  BY SumIs
<1> HIDE DEF t
<1> QED
  BY <1>1, <1>2 DEF Sums

LEMMA SumOfMore ==
    ASSUME NEW S, IsFiniteSet(S), NEW f \in [S -> Int],
           NEW x, x \notin S, NEW g \in [S \cup {x} -> Int], \A y \in S : g[y] = f[y]
    PROVE  SumFunction(f) \in Int /\ SumFunction(g) = SumFunction(f) + g[x]
<1>1. PICK T : T = S \cup {x}
  OBVIOUS
<1>2. IsFiniteSet(T) /\ S \subseteq T /\ x \in T /\ T \in SUBSET T /\ S \in SUBSET S /\ T \ {x} = S
  BY <1>1, FS_AddElement
<1>3. PICK t : t = (CHOOSE v : Sums(v, f, SUBSET S))
  OBVIOUS
<1>4. PICK u : u = (CHOOSE v : Sums(v, g, SUBSET T))
  OBVIOUS
<1>5. Sums(t, f, SUBSET S) /\ Sums(u, g, SUBSET T)
  BY <1>2, <1>3, <1>4, SumsExist
<1>6. SumFunction(f) = t[S] /\ SumFunction(g) = u[T]
  <2>1. DOMAIN f = S /\ DOMAIN g = T
    BY <1>1
  <2> QED
    BY <1>3, <1>4, <2>1, SumIs
<1>7. (\A y \in S : f[y] = g[y]) /\ (\A y \in S : f[y] \in Int) /\ IsFiniteSet(S)
  OBVIOUS
<1>8. \A y \in T : g[y] \in Int
  BY <1>1
<1>9. t[S] = u[S]
  <2> DEFINE N == {n \in Nat : \A s \in Upto(S, n) : t[s] = u[s]}
  <2>1. \A s \in SUBSET S : /\ t[s] = IF s = {} THEN 0 ELSE f[Some(s)] + t[s \ {Some(s)}]
                            /\ u[s] = IF s = {} THEN 0 ELSE g[Some(s)] + u[s \ {Some(s)}]
    BY <1>2, <1>5 DEF Sums
  <2>2. 0 \in N
    <3>1. \A s \in Upto(S, 0) : s = {}
      BY UptoLess
    <3> QED
      BY <2>1, <3>1
  <2>3. ASSUME NEW n \in N PROVE n + 1 \in N
    <3> SUFFICES ASSUME NEW s \in Upto(S, n + 1) PROVE t[s] = u[s]
      OBVIOUS
    <3>1. CASE s = {}
      BY <2>1, <3>1
    <3>2. CASE s # {}
      <4>1. Some(s) \in S /\ s \in SUBSET S /\ s \ {Some(s)} \in Upto(S, n)
        BY <3>2, OneLess, UptoLess
      <4>2. t[s \ {Some(s)}] = u[s \ {Some(s)}] /\ f[Some(s)] = g[Some(s)]
        BY <1>7, <4>1
      <4> QED
        BY <2>1, <3>2, <4>1, <4>2
    <3> QED
      BY <3>1, <3>2
  <2>4. N = Nat
    <3>1. N \in SUBSET Nat
      OBVIOUS
    <3> HIDE DEF N
    <3> QED
      BY <2>2, <2>3, <3>1, HoldsAll
  <2> QED
    BY <2>4, UptoLess
<1>10. t[S] \in Int
  BY ONLY <1>2, <1>5, <1>7, SumsTakeAny
<1>11. u[T] = g[x] + u[T \ {x}]
  BY ONLY <1>2, <1>5, <1>8, SumsTakeAny
<1>12. PICK a, b : a = g[x] /\ b = t[S] /\ a \in Int /\ b \in Int
  BY <1>2, <1>8, <1>10
<1>13. SumFunction(f) = b /\ SumFunction(g) = a + b
  BY ONLY <1>2, <1>6, <1>9, <1>11, <1>12
<1> QED
  BY ONLY <1>12, <1>13

-------------------------------------------------------------------------------
(* CountsAccount.  A record that a commit adds a version of has its other       *)
(* versions in the same trace (OneTracePerRecord), so that a first version for  *)
(* the store is one for the trace.                                              *)

\* What the commits of a trace reported, import by import.
AddedBy(tr) == [i \in CommitsOf(tr) |-> imports[i].result.added]
ConflictsOf(tr) == [i \in CommitsOf(tr) |-> imports[i].result.conflicts]

\* How many steps a set holds beyond one of each record.
Versions(S) == Cardinality(S) - Cardinality(RecordsOf(S))

CountsInv == CountsAccount /\ IsFiniteSet(steps)

LEMMA CountsOfTrace ==
    CountsAccount <=>
        \A tr \in DOMAIN traces :
            /\ SumFunction(AddedBy(tr)) = Cardinality(TraceSteps(tr))
            /\ SumFunction(ConflictsOf(tr)) = Versions(TraceSteps(tr))
BY DEF CountsAccount, AddedBy, ConflictsOf, Versions

\* The counts are numbers, of finitely many commits and steps.
LEMMA CountsTyped ==
    ASSUME TypeOK, IsFiniteSet(steps), NEW tr
    PROVE  /\ IsFiniteSet(CommitsOf(tr)) /\ IsFiniteSet(TraceSteps(tr))
           /\ IsFiniteSet(RecordsOf(TraceSteps(tr)))
           /\ AddedBy(tr) \in [CommitsOf(tr) -> Int]
           /\ ConflictsOf(tr) \in [CommitsOf(tr) -> Int]
<1>1. IsFiniteSet(CommitsOf(tr))
  BY FS_Subset DEF CommitsOf, Committed, TypeOK
<1>2. IsFiniteSet(TraceSteps(tr))
  BY FS_Subset DEF TraceSteps
<1>3. IsFiniteSet(RecordsOf(TraceSteps(tr)))
  <2> DEFINE S == TraceSteps(tr)
             record == [s \in S |-> <<s.source, s.record>>]
  <2>1. record \in Surjection(S, RecordsOf(S))
    BY DEF RecordsOf, Surjection
  <2> HIDE DEF record
  <2> QED
    BY <1>2, <2>1, FS_Surjection
<1>4. ASSUME NEW i \in CommitsOf(tr)
      PROVE  imports[i].result.added \in Int /\ imports[i].result.conflicts \in Int
  <2>1. imports[i] \in ImportRows /\ imports[i].state = "COMMITTED"
    BY DEF CommitsOf, Committed, TypeOK, IsTableOf
  <2>2. imports[i].result \in CommitResults
    BY <2>1 DEF ImportRows
  <2> QED
    BY <2>2 DEF CommitResults
<1> QED
  BY <1>1, <1>2, <1>3, <1>4 DEF AddedBy, ConflictsOf

\* The same of the next state.
CountsFinite ==
    \A tr : /\ IsFiniteSet(TraceSteps(tr)) /\ IsFiniteSet(RecordsOf(TraceSteps(tr)))
            /\ AddedBy(tr) \in [CommitsOf(tr) -> Int]
            /\ ConflictsOf(tr) \in [CommitsOf(tr) -> Int]

LEMMA CountsTypedNext == (TypeOK /\ IsFiniteSet(steps) => CountsFinite)'
<1>1. TypeOK /\ IsFiniteSet(steps) => CountsFinite
  BY CountsTyped DEF CountsFinite
<1> QED
  BY <1>1, PTL

\* What is put beside a finite set is counted with it.
LEMMA DisjointUnion ==
    ASSUME NEW S, NEW A, IsFiniteSet(S), IsFiniteSet(A), S \cap A = {}
    PROVE  Cardinality(S \cup A) = Cardinality(S) + Cardinality(A)
<1>1. Cardinality(S) \in Nat /\ Cardinality(A) \in Nat /\ Cardinality({}) = 0
  BY FS_CardinalityType, FS_EmptySet
<1>2. Cardinality(S \cup A) = Cardinality(S) + Cardinality(A) - Cardinality({})
  BY FS_Union
<1> QED
  BY <1>1, <1>2

\* A trace whose commits and steps stay as they are keeps its counts.
LEMMA CountsStay ==
    ASSUME ImportsGrow, NEW tr,
           CommitsOf(tr)' = CommitsOf(tr), TraceSteps(tr)' = TraceSteps(tr)
    PROVE  /\ AddedBy(tr)' = AddedBy(tr)
           /\ ConflictsOf(tr)' = ConflictsOf(tr)
           /\ Versions(TraceSteps(tr))' = Versions(TraceSteps(tr))
<1>1. \A i \in CommitsOf(tr) : imports'[i] = imports[i]
  BY DEF CommitsOf, Committed, ImportsGrow
<1> QED
  BY <1>1 DEF AddedBy, ConflictsOf, Versions, RecordsOf

\* Nothing is counted of a trace that is not there.
LEMMA NoCounts ==
    ASSUME HistoryInv, StepsTraced, NEW tr, tr \notin DOMAIN traces
    PROVE  /\ SumFunction(AddedBy(tr)) = Cardinality(TraceSteps(tr))
           /\ SumFunction(ConflictsOf(tr)) = Versions(TraceSteps(tr))
<1>1. CommitsOf(tr) = {} /\ TraceSteps(tr) = {}
  BY DEF HistoryInv, ImportsTraced, StepsTraced, CommitsOf, Committed, TraceSteps
<1>2. RecordsOf({}) = {} /\ Cardinality({}) = 0
  BY FS_EmptySet DEF RecordsOf
<1>3. SumFunction(AddedBy(tr)) = 0 /\ SumFunction(ConflictsOf(tr)) = 0
  BY <1>1, SumOfNone DEF AddedBy, ConflictsOf
<1> QED
  BY <1>1, <1>2, <1>3 DEF Versions

\* Without a commit every count stays, and a new trace has none.
LEMMA QuietCounts ==
    ASSUME HistoryInv, StepsTraced, CountsInv, [Next]_vars, ~IsCommit
    PROVE  CountsInv'
<1>1. UNCHANGED <<steps, Committed>> /\ ImportsGrow
  BY QuietContent, NextGrows DEF HistoryInv, Grows
<1>2. \A tr : CommitsOf(tr)' = CommitsOf(tr) /\ TraceSteps(tr)' = TraceSteps(tr)
  BY <1>1 DEF CommitsOf, Committed, TraceSteps, ImportsGrow
<1>3. ASSUME NEW tr
      PROVE  /\ SumFunction(AddedBy(tr)) = Cardinality(TraceSteps(tr))
             /\ SumFunction(ConflictsOf(tr)) = Versions(TraceSteps(tr))
  BY NoCounts, CountsOfTrace DEF CountsInv
<1>4. ASSUME NEW tr
      PROVE  /\ SumFunction(AddedBy(tr))' = Cardinality(TraceSteps(tr))'
             /\ SumFunction(ConflictsOf(tr))' = Versions(TraceSteps(tr))'
  BY <1>1, <1>2, <1>3, CountsStay
<1> QED
  BY <1>1, <1>4, CountsOfTrace DEF CountsInv, CountsAccount, AddedBy, ConflictsOf, Versions

\* A commit reports just what the steps and the records of its trace grow by.
LEMMA CommitCounts ==
    ASSUME HistoryInv, CountsInv, NEW req \in Requests, NEW i \in Imports,
           NEW expected \in 0..MaxRevision, ImportCommit(req, i, expected)
    PROVE  CountsInv'
<1>1. PICK b, u : b = imports[i].batch /\ u = b.trace
  OBVIOUS
<1>2. PICK A, F : A = AddedSteps(b) /\ F = FirstVersions(b)
  OBVIOUS
<1>3. /\ i \in DOMAIN imports /\ imports[i].state = "STAGED"
      /\ b \in Batches /\ IsFiniteSet(b.steps)
      /\ \A s \in b.steps : s.trace = u
      /\ steps' = steps \cup b.steps
      /\ DOMAIN traces' = DOMAIN traces
      /\ DOMAIN imports' = DOMAIN imports
      /\ \A j \in DOMAIN imports : j # i => imports'[j] = imports[j]
      /\ imports'[i] = CommittedRow(imports[i], CommitResult(b))
  BY <1>1, CommitEffect, BatchAssumption
<1>4. /\ imports'[i].state = "COMMITTED" /\ imports'[i].batch = b
      /\ imports'[i].result.added = Cardinality(A)
      /\ imports'[i].result.conflicts = Cardinality(A) - Cardinality(F)
  BY <1>1, <1>2, <1>3 DEF CommittedRow, CommitResult
<1>5. TypeOK /\ ImportsGrow /\ HistoryInv'
  <2>1. [Next]_vars
    BY DEF Next
  <2> QED
    BY <2>1, NextGrows, NextKeepsHistory DEF HistoryInv, Grows
<1>6. IsFiniteSet(steps) /\ IsFiniteSet(steps') /\ TypeOK'
  BY <1>3, <1>5, FS_Union DEF CountsInv, HistoryInv
<1>7. /\ \A tr : tr # u => CommitsOf(tr)' = CommitsOf(tr) /\ TraceSteps(tr)' = TraceSteps(tr)
      /\ CommitsOf(u)' = CommitsOf(u) \cup {i} /\ i \notin CommitsOf(u)
  BY <1>1, <1>3, <1>4 DEF CommitsOf, Committed, TraceSteps, ImportsGrow
<1>8. PICK S, T, R : S = TraceSteps(u) /\ T = TraceSteps(u)' /\ R = RecordsOf(S)
  OBVIOUS
<1>9. T = S \cup A /\ S \cap A = {}
  BY <1>2, <1>3, <1>8 DEF TraceSteps, AddedSteps
<1>10. RecordsOf(T) = R \cup F /\ R \cap F = {}
  <2>1. \A p \in steps : \A q \in b.steps :
            p.source = q.source /\ p.record = q.record => p.trace = u
    BY <1>1 DEF ImportCommit, BindingsAgree
  <2>2. RecordsOf(T) = R \cup RecordsOf(A)
    BY <1>8, <1>9 DEF RecordsOf
  <2>3. F = RecordsOf(A) \ RecordsOf(steps)
    BY <1>2 DEF FirstVersions, RecordsOf
  <2>4. RecordsOf(A) \cap RecordsOf(steps) \subseteq R
    <3> SUFFICES ASSUME NEW q \in A, NEW p \in steps,
                        <<q.source, q.record>> = <<p.source, p.record>>
                 PROVE  <<p.source, p.record>> \in R
      BY DEF RecordsOf
    <3>1. p.trace = u
      BY <1>2, <2>1 DEF AddedSteps
    <3> QED
      BY <1>8, <3>1 DEF RecordsOf, TraceSteps
  <2>5. R \subseteq RecordsOf(steps)
    BY <1>8 DEF RecordsOf, TraceSteps
  <2> QED
    BY <2>2, <2>3, <2>4, <2>5
<1>11. /\ IsFiniteSet(S) /\ IsFiniteSet(T) /\ IsFiniteSet(R) /\ IsFiniteSet(RecordsOf(T))
  <2>1. IsFiniteSet(S) /\ IsFiniteSet(R)
    BY <1>5, <1>6, <1>8, CountsTyped
  <2>2. (IsFiniteSet(TraceSteps(u)) /\ IsFiniteSet(RecordsOf(TraceSteps(u))))'
    BY <1>6, CountsTypedNext DEF CountsFinite
  <2> QED
    BY <1>8, <2>1, <2>2 DEF RecordsOf
<1>12. PICK cs, cr, ca, cf : /\ cs = Cardinality(S) /\ cr = Cardinality(R)
                             /\ ca = Cardinality(A) /\ cf = Cardinality(F)
  OBVIOUS
<1>13. /\ Cardinality(T) = cs + ca /\ Cardinality(RecordsOf(T)) = cr + cf
       /\ cs \in Nat /\ cr \in Nat /\ ca \in Nat /\ cf \in Nat
  <2>1. IsFiniteSet(A) /\ IsFiniteSet(F)
    BY <1>9, <1>10, <1>11, FS_Subset
  <2>2. /\ cs \in Nat /\ cr \in Nat /\ ca \in Nat /\ cf \in Nat
    BY <1>11, <1>12, <2>1, FS_CardinalityType
  <2>3. Cardinality(T) = cs + ca
    BY ONLY <1>9, <1>11, <1>12, <2>1, DisjointUnion
  <2>4. Cardinality(RecordsOf(T)) = cr + cf
    BY ONLY <1>10, <1>11, <1>12, <2>1, DisjointUnion
  <2> QED
    BY <2>3, <2>4, <2>2
<1>14. /\ SumFunction(AddedBy(u))' = SumFunction(AddedBy(u)) + ca
       /\ SumFunction(ConflictsOf(u))' = SumFunction(ConflictsOf(u)) + (ca - cf)
  <2>1. PICK C, f, g, ff, gg : /\ C = CommitsOf(u)
                               /\ f = AddedBy(u) /\ g = AddedBy(u)'
                               /\ ff = ConflictsOf(u) /\ gg = ConflictsOf(u)'
    OBVIOUS
  <2>2. IsFiniteSet(C) /\ f \in [C -> Int] /\ ff \in [C -> Int] /\ i \notin C
    BY <1>5, <1>6, <1>7, <2>1, CountsTyped
  <2>3. g \in [C \cup {i} -> Int] /\ gg \in [C \cup {i} -> Int]
    BY <1>6, <1>7, <2>1, CountsTypedNext DEF CountsFinite
  <2>4. (\A j \in C : g[j] = f[j]) /\ (\A j \in C : gg[j] = ff[j])
    <3>1. \A j \in C : imports'[j] = imports[j]
      BY <1>5, <2>1 DEF CommitsOf, Committed, ImportsGrow
    <3> QED
      BY <1>7, <2>1, <3>1 DEF AddedBy, ConflictsOf
  <2>5. g[i] = ca /\ gg[i] = ca - cf
    BY <1>4, <1>7, <1>12, <2>1 DEF AddedBy, ConflictsOf
  <2>6. SumFunction(g) = SumFunction(f) + g[i]
    <3>1. /\ IsFiniteSet(C) /\ i \notin C /\ f \in [C -> Int]
          /\ g \in [C \cup {i} -> Int] /\ (\A j \in C : g[j] = f[j])
      BY ONLY <2>2, <2>3, <2>4
    <3> QED
      BY ONLY <3>1, SumOfMore
  <2>7. SumFunction(gg) = SumFunction(ff) + gg[i]
    BY ONLY <2>2, <2>3, <2>4, SumOfMore
  <2> QED
    BY <2>1, <2>5, <2>6, <2>7
<1>15. ASSUME NEW tr \in DOMAIN traces
       PROVE  /\ SumFunction(AddedBy(tr))' = Cardinality(TraceSteps(tr))'
              /\ SumFunction(ConflictsOf(tr))' = Versions(TraceSteps(tr))'
  <2>1. /\ SumFunction(AddedBy(tr)) = Cardinality(TraceSteps(tr))
        /\ SumFunction(ConflictsOf(tr)) = Versions(TraceSteps(tr))
    BY CountsOfTrace DEF CountsInv
  <2>2. CASE tr # u
    BY <1>5, <1>7, <2>1, <2>2, CountsStay
  <2>3. CASE tr = u
    <3>1. SumFunction(AddedBy(u)) = cs /\ SumFunction(ConflictsOf(u)) = cs - cr
      BY <1>8, <1>12, <2>1, <2>3 DEF Versions
    <3>2. SumFunction(AddedBy(u))' = cs + ca
      BY <1>14, <3>1
    <3>3. SumFunction(ConflictsOf(u))' = (cs + ca) - (cr + cf)
      BY <1>13, <1>14, <3>1
    <3> QED
      BY <1>8, <1>13, <2>3, <3>2, <3>3 DEF Versions, RecordsOf
  <2> QED
    BY <2>2, <2>3
<1> QED
  BY <1>3, <1>6, <1>15 DEF CountsInv, CountsAccount, AddedBy, ConflictsOf, Versions

\* Over any number of commits, of overlapping imports and of new versions, the
\* counts that callers were given add up to what the store holds.
THEOREM CountsAddUp == Spec => []CountsAccount
<1>1. Init => CountsInv
  BY FS_EmptySet DEF Init, EmptyTable, CountsInv, CountsAccount
<1>2. ContentInv /\ CountsInv /\ [Next]_vars => CountsInv'
  BY CommitCounts, QuietCounts DEF ContentInv, IsCommit
<1>3. CountsInv => CountsAccount
  BY DEF CountsInv
<1> QED
  BY <1>1, <1>2, <1>3, ContentInvHolds, PTL DEF Spec

-------------------------------------------------------------------------------
(* NothingStagedIsDropped.  Stage accepted an origin because of what was       *)
(* stored or staged with it; that must still hold when the commit relies on    *)
(* it, and every artifact row must have its file.                              *)

StagedReferenced ==
    \A i \in DOMAIN imports :
        imports[i].state = "STAGED" =>
            \A o \in imports[i].batch.origins : OriginReferenced(o, imports[i].batch)

ArtifactsFiled == DOMAIN artifacts \subseteq files

StagedInv == StagedReferenced /\ ArtifactsFiled /\ NothingStagedIsDropped

\* What an origin was accepted for is not taken away.
LEMMA ReferencedStays ==
    ASSUME NEW b, NEW o, steps \subseteq steps', origins \subseteq origins', OriginReferenced(o, b)
    PROVE  OriginReferenced(o, b)'
<1>1. \A tr : TraceSteps(tr) \subseteq TraceSteps(tr)'
  BY DEF TraceSteps
<1>2. CASE o.step \in b.steps \cup TraceSteps(b.trace)
  BY <1>1, <1>2 DEF OriginReferenced
<1>3. CASE \E ahead \in b.origins : Caps(ahead, o, b.steps \cup TraceSteps(b.trace))
  BY <1>1, <1>3 DEF OriginReferenced, Caps
<1>4. CASE \E ahead \in origins : Caps(ahead, o, TraceSteps(b.trace))
  BY <1>1, <1>4 DEF OriginReferenced, Caps
<1> QED
  BY <1>2, <1>3, <1>4 DEF OriginReferenced

\* An import that a step adds is staged, and what stage checks was checked.
LEMMA AddedIsStageable ==
    ASSUME HistoryInv, [Next]_vars, NEW i \in DOMAIN imports', i \notin DOMAIN imports
    PROVE  /\ imports'[i].state = "STAGED"
           /\ imports'[i].batch \in Batches
           /\ Stageable(imports'[i].batch)
           /\ ~IsCommit
<1>1. ASSUME NEW req \in Requests, NEW j \in Imports, NEW b \in Batches,
             ImportStage(req, j, b)
      PROVE  /\ imports'[i].state = "STAGED"
             /\ imports'[i].batch \in Batches
             /\ Stageable(imports'[i].batch)
  <2>1. PICK t : imports' = Put(imports, j, [state |-> "STAGED", batch |-> b, expires |-> t])
    BY <1>1 DEF ImportStage
  <2>2. imports'[i].state = "STAGED" /\ imports'[i].batch = b
    BY <2>1 DEF Put
  <2>3. Stageable(b)
    BY <1>1 DEF ImportStage
  <2> QED
    BY <2>2, <2>3
<1>2. ~IsCommit
  <2>1. ASSUME NEW req \in Requests, NEW j \in Imports, NEW expected \in 0..MaxRevision,
               ImportCommit(req, j, expected)
        PROVE  FALSE
    <3>1. DOMAIN imports' = DOMAIN imports
      BY <2>1, CommitEffect
    <3> QED
      BY <3>1
  <2> QED
    BY <2>1 DEF IsCommit
<1>3. CASE DOMAIN imports' = DOMAIN imports
  BY <1>3
<1>4. CASE \/ \E req \in Requests, s \in Sources, body \in Profiles :
                 SourceRegister(req, s, body) \/ SourceRegisterAgain(req, s, body)
           \/ \E req \in Requests, tr \in Traces :
                 TraceCreate(req, tr) \/ TraceCreateAgain(req, tr)
           \/ \E req \in Requests, j \in Imports, b \in Batches : ImportStageAgain(req, j, b)
           \/ \E req \in Requests, j \in Imports, expected \in 0..MaxRevision :
                 ImportCommitAgain(req, j, expected)
           \/ \E req \in Requests, j \in Imports :
                 \/ ImportCommitExpired(req, j)
                 \/ ImportCancel(req, j)
                 \/ ImportCancelAgain(req, j)
           \/ \E j \in Imports : CommitBroken(j)
           \/ Sweep \/ Open \/ Stop \/ Tick \/ UNCHANGED vars
  BY <1>3, <1>4 DEF SourceRegister, SourceRegisterAgain, TraceCreate, TraceCreateAgain,
     ImportStageAgain, ImportCommitAgain, ImportCommitExpired, ImportCancel, ImportCancelAgain,
     CommitBroken, Sweep, Open, Stop, Tick, vars, Put
<1> QED
  BY <1>1, <1>2, <1>4 DEF Next, IsCommit

\* Staged imports stay acceptable.
LEMMA StagedStayReferenced ==
    ASSUME HistoryInv, StagedReferenced, [Next]_vars
    PROVE  StagedReferenced'
<1> SUFFICES ASSUME NEW i \in DOMAIN imports', imports'[i].state = "STAGED",
                    NEW b, b = imports'[i].batch, NEW o \in b.origins
             PROVE  OriginReferenced(o, b)'
  BY DEF StagedReferenced, OriginReferenced, TraceSteps, Caps
<1>1. ImportsGrow /\ steps \subseteq steps' /\ origins \subseteq origins'
  BY NextGrows DEF Grows, ContentGrows
<1>2. OriginReferenced(o, b)
  <2>1. CASE i \in DOMAIN imports
    <3>1. imports[i].state = "STAGED" /\ imports[i].batch = b
      BY <1>1, <2>1 DEF ImportsGrow
    <3> QED
      BY <2>1, <3>1 DEF StagedReferenced
  <2>2. CASE i \notin DOMAIN imports
    <3>1. Stageable(b)
      BY <2>2, AddedIsStageable
    <3> QED
      BY <3>1 DEF Stageable
  <2> QED
    BY <2>1, <2>2
<1> QED
  BY <1>1, <1>2, ReferencedStays

\* Every artifact that gets a row gets a file first.
LEMMA ArtifactsStayFiled ==
    ASSUME HistoryInv, ArtifactsFiled, [Next]_vars
    PROVE  ArtifactsFiled'
<1>1. CASE IsCommit
  <2>1. PICK req \in Requests, i \in Imports, expected \in 0..MaxRevision :
                ImportCommit(req, i, expected)
    BY <1>1 DEF IsCommit
  <2>2. PICK b : b = imports[i].batch
    OBVIOUS
  <2>3. artifacts' = WithArtifacts(b) /\ files' = files \cup NewDigests(b)
    BY <2>1, <2>2 DEF ImportCommit
  <2> QED
    BY <2>3 DEF ArtifactsFiled, WithArtifacts, NewDigests
<1>2. CASE ~IsCommit
  <2>1. artifacts' = artifacts /\ files \subseteq files'
    BY <1>2, QuietContent, NextGrows DEF HistoryInv, Grows, ContentGrows
  <2> QED
    BY <2>1 DEF ArtifactsFiled
<1> QED
  BY <1>1, <1>2

\* A commit of a staged import drops none of its batch.
LEMMA CommitDropsNothing ==
    ASSUME HistoryInv, StagedInv, NEW req \in Requests, NEW i \in Imports,
           NEW expected \in 0..MaxRevision, ImportCommit(req, i, expected)
    PROVE  LET b == imports[i].batch
           IN  /\ b.steps \subseteq GraphAfter(b).steps
               /\ b.origins \subseteq GraphAfter(b).origins
               /\ \A a \in b.artifacts : a.digest \in DOMAIN artifacts' \cap files'
<1>1. PICK b : b = imports[i].batch
  OBVIOUS
<1> DEFINE pool == {s \in steps \cup b.steps : s.trace = b.trace}
<1>2. /\ imports[i].state = "STAGED" /\ i \in DOMAIN imports /\ b \in Batches
      /\ \A s \in b.steps : s.trace = b.trace
  BY <1>1, CommitEffect
<1>3. GraphAfter(b).steps = pool /\ GraphAfter(b).origins = Pinned(origins \cup b.origins, pool)
  BY DEF GraphAfter
<1>4. b.steps \subseteq pool /\ TraceSteps(b.trace) \subseteq pool
  BY <1>2 DEF TraceSteps
<1> HIDE DEF pool
<1>5. ASSUME NEW o \in b.origins
      PROVE  o \in Pinned(origins \cup b.origins, pool)
  <2>1. OriginReferenced(o, b)
    BY <1>1, <1>2 DEF StagedInv, StagedReferenced
  <2>2. CASE o.step \in b.steps \cup TraceSteps(b.trace)
    <3>1. o.seq \in Nat
      BY <1>2, BatchAssumption
    <3>2. o.step \in pool /\ o.seq >= o.seq
      BY <1>4, <2>2, <3>1
    <3>3. Caps(o, o, pool)
      BY <3>2 DEF Caps
    <3> QED
      BY <3>3 DEF Pinned
  <2>3. CASE \E ahead \in b.origins : Caps(ahead, o, b.steps \cup TraceSteps(b.trace))
    BY <1>4, <2>3 DEF Pinned, Caps
  <2>4. CASE \E ahead \in origins : Caps(ahead, o, TraceSteps(b.trace))
    BY <1>4, <2>4 DEF Pinned, Caps
  <2> QED
    BY <2>1, <2>2, <2>3, <2>4 DEF OriginReferenced
<1>6. \A a \in b.artifacts : a.digest \in DOMAIN artifacts' \cap files'
  <2>1. artifacts' = WithArtifacts(b) /\ files' = files \cup NewDigests(b)
    BY <1>1 DEF ImportCommit
  <2> QED
    BY <2>1 DEF WithArtifacts, NewDigests, StagedInv, ArtifactsFiled
<1> QED
  BY <1>1, <1>3, <1>4, <1>5, <1>6

\* What was committed keeps its content, and what is now committed has it.
LEMMA NothingIsDropped ==
    ASSUME HistoryInv, StagedInv, [Next]_vars
    PROVE  NothingStagedIsDropped'
<1>1. Grows
  BY NextGrows
<1>2. ASSUME NEW i \in Committed
      PROVE  /\ imports'[i] = imports[i]
             /\ imports[i].batch.steps \subseteq imports[i].result.graph.steps
             /\ imports[i].batch.origins \subseteq imports[i].result.graph.origins
             /\ \A a \in imports[i].batch.artifacts : a.digest \in DOMAIN artifacts' \cap files'
  <2>1. i \in DOMAIN imports /\ imports[i].state # "STAGED"
    BY DEF Committed
  <2>2. imports'[i] = imports[i]
    BY <1>1, <2>1 DEF Grows, ImportsGrow
  <2> QED
    BY <1>1, <2>2 DEF StagedInv, NothingStagedIsDropped, Grows, ContentGrows
<1>3. CASE ~IsCommit
  <2>1. Committed' = Committed
    BY <1>3, QuietContent DEF HistoryInv
  <2> QED
    BY <1>2, <2>1 DEF NothingStagedIsDropped
<1>4. CASE IsCommit
  <2>1. PICK req \in Requests, i \in Imports, expected \in 0..MaxRevision :
                ImportCommit(req, i, expected)
    BY <1>4 DEF IsCommit
  <2>2. PICK b, result : b = imports[i].batch /\ result = CommitResult(b)
    OBVIOUS
  <2>3. /\ DOMAIN imports' = DOMAIN imports
        /\ \A j \in DOMAIN imports : j # i => imports'[j] = imports[j]
        /\ imports'[i] = CommittedRow(imports[i], result)
        /\ result.graph = GraphAfter(b)
    BY <2>1, <2>2, CommitEffect
  <2>4. /\ b.steps \subseteq GraphAfter(b).steps
        /\ b.origins \subseteq GraphAfter(b).origins
        /\ \A a \in b.artifacts : a.digest \in DOMAIN artifacts' \cap files'
    BY <2>1, <2>2, CommitDropsNothing
  <2>5. imports'[i].batch = b /\ imports'[i].result = result
    BY <2>2, <2>3 DEF CommittedRow
  <2>6. ASSUME NEW j \in Committed', j # i PROVE j \in Committed
    BY <2>3, <2>6 DEF Committed
  <2> QED
    BY <1>2, <2>3, <2>4, <2>5, <2>6 DEF NothingStagedIsDropped
<1> QED
  BY <1>3, <1>4

LEMMA StagedInvHolds == Spec => []StagedInv
<1>1. Init => StagedInv
  BY DEF Init, EmptyTable, StagedInv, StagedReferenced, ArtifactsFiled, NothingStagedIsDropped,
     Committed
<1>2. HistoryInv /\ StagedInv /\ [Next]_vars => StagedInv'
  BY StagedStayReferenced, ArtifactsStayFiled, NothingIsDropped DEF StagedInv
<1> QED
  BY <1>1, <1>2, HistoryInvHolds, PTL DEF Spec

\* Whatever is committed between the stage and the commit of an import, each step
\* and origin of its batch is in the revision it makes, and each artifact has a
\* row and a file.
THEOREM StagedIsNotDropped == Spec => []NothingStagedIsDropped
BY StagedInvHolds, PTL DEF StagedInv

-------------------------------------------------------------------------------
(* CommitsAreRevisions.  That a commit's entry is kept apart from the entry    *)
(* that created the trace needs its revision to be past 0.                     *)

CommitsSigned ==
    \A i \in Committed : imports[i].result.revision > 0 /\ imports[i].result.audit \in Commits(i)

CommitInv == CommitsAreRevisions /\ CommitsSigned

\* What the commit of i leaves in the log and in the idempotency table.
LEMMA CommitSigns ==
    ASSUME TypeOK, NEW req \in Requests, NEW i \in Imports,
           NEW expected \in 0..MaxRevision, ImportCommit(req, i, expected)
    PROVE  /\ DOMAIN audit' = DOMAIN audit \cup {NextSeq}
           /\ NextSeq \notin DOMAIN audit
           /\ audit'[NextSeq].kind = "ImportCommitted"
           /\ audit'[NextSeq].import = i
           /\ audit'[NextSeq].request = req
           /\ audit'[NextSeq].trace = imports[i].batch.trace
           /\ DOMAIN idempotency' = DOMAIN idempotency \cup {req}
           /\ idempotency'[req] = [call |-> CommitCall(i, expected),
                                   response |-> CommitResult(imports[i].batch),
                                   auditSeq |-> NextSeq]
<1>1. PICK b, result : b = imports[i].batch /\ result = CommitResult(b)
  OBVIOUS
<1> DEFINE entry == [kind |-> "ImportCommitted", request |-> req, import |-> i, batch |-> b,
                     trace |-> b.trace, revision |-> result.revision, graph |-> result.graph]
<1>2. /\ AppendAudit(entry)
      /\ StoreResponse(req, CommitCall(i, expected), result, NextSeq)
  BY <1>1 DEF ImportCommit
<1>3. /\ entry.kind = "ImportCommitted" /\ entry.import = i /\ entry.request = req
      /\ entry.trace = b.trace
  OBVIOUS
<1> HIDE DEF entry
<1>4. /\ DOMAIN audit' = DOMAIN audit \cup {NextSeq}
      /\ NextSeq \notin DOMAIN audit
      /\ audit'[NextSeq] = entry
  BY <1>2, AppendKeeps
<1>5. /\ DOMAIN idempotency' = DOMAIN idempotency \cup {req}
      /\ idempotency'[req] = [call |-> CommitCall(i, expected), response |-> result,
                              auditSeq |-> NextSeq]
  BY <1>2 DEF StoreResponse, Put
<1> QED
  BY <1>1, <1>3, <1>4, <1>5

\* What was committed stays what it is: its revision, its entry and its response.
LEMMA CommittedStands ==
    ASSUME CommitInv, Grows, NEW i \in Committed
    PROVE  /\ imports'[i] = imports[i]
           /\ LET result == imports[i].result
              IN  /\ result.revision > 0
                  /\ result.audit \in Commits(i)'
                  /\ result.trace = imports[i].batch.trace
                  /\ <<result.trace, result.revision>> \in DOMAIN revisions'
                  /\ revisions'[<<result.trace, result.revision>>] =
                        [graph |-> result.graph, auditSeq |-> result.audit]
                  /\ audit'[result.audit].import = i
                  /\ LET signer == audit'[result.audit].request
                     IN  /\ signer \in DOMAIN idempotency'
                         /\ idempotency'[signer].call = CommitCall(i, result.revision - 1)
<1>1. PICK result : result = imports[i].result
  OBVIOUS
<1>2. imports'[i] = imports[i]
  BY DEF Committed, Grows, ImportsGrow
<1>3. result.revision > 0 /\ result.audit \in Commits(i)
  BY <1>1 DEF CommitInv, CommitsSigned
<1>4. result.audit \in DOMAIN audit /\ audit'[result.audit] = audit[result.audit]
  BY <1>3 DEF Commits, Grows, LogGrows
<1>5. result.audit \in Commits(i)'
  BY <1>3, <1>4 DEF Commits, Grows, LogGrows
<1>6. /\ result.trace = imports[i].batch.trace
      /\ <<result.trace, result.revision>> \in DOMAIN revisions
      /\ revisions[<<result.trace, result.revision>>] =
            [graph |-> result.graph, auditSeq |-> result.audit]
      /\ audit[result.audit].import = i
      /\ audit[result.audit].request \in DOMAIN idempotency
      /\ idempotency[audit[result.audit].request].call = CommitCall(i, result.revision - 1)
  BY <1>1 DEF CommitInv, CommitsAreRevisions
<1>7. /\ <<result.trace, result.revision>> \in DOMAIN revisions'
      /\ revisions'[<<result.trace, result.revision>>] =
            [graph |-> result.graph, auditSeq |-> result.audit]
  BY <1>6 DEF Grows, RevisionsStay
<1>8. /\ audit'[result.audit].request \in DOMAIN idempotency'
      /\ idempotency'[audit'[result.audit].request].call = CommitCall(i, result.revision - 1)
  BY <1>4, <1>6 DEF Grows, ResponsesGrow
<1> QED
  BY <1>1, <1>2, <1>3, <1>4, <1>5, <1>6, <1>7, <1>8

\* The new commit and the new revision are each other's.
LEMMA CommitKeepsCommitInv ==
    ASSUME HistoryInv, CommitInv, NEW req \in Requests, NEW i \in Imports,
           NEW expected \in 0..MaxRevision, ImportCommit(req, i, expected)
    PROVE  CommitInv'
<1>1. PICK b, next, result :
          b = imports[i].batch /\ next = traces[b.trace] + 1 /\ result = CommitResult(b)
  OBVIOUS
<1>2. Grows /\ TypeOK
  BY CommitGrows DEF HistoryInv
<1>3. /\ i \in DOMAIN imports
      /\ traces[b.trace] \in Nat /\ expected = traces[b.trace]
      /\ result.trace = b.trace /\ result.revision = next
      /\ result.graph = GraphAfter(b) /\ result.audit = NextSeq
      /\ DOMAIN revisions' = DOMAIN revisions \cup {<<b.trace, next>>}
      /\ revisions'[<<b.trace, next>>] = [graph |-> GraphAfter(b), auditSeq |-> NextSeq]
      /\ DOMAIN imports' = DOMAIN imports
      /\ \A j \in DOMAIN imports : j # i => imports'[j] = imports[j]
      /\ imports'[i] = CommittedRow(imports[i], result)
  <2>1. i \in DOMAIN imports /\ traces[imports[i].batch.trace] \in Nat
    BY CommitEffect
  <2>2. expected = traces[imports[i].batch.trace]
    BY DEF ImportCommit, HeadIs
  <2>3. LET batch == imports[i].batch
            key == <<batch.trace, traces[batch.trace] + 1>>
        IN  /\ DOMAIN revisions' = DOMAIN revisions \cup {key}
            /\ revisions'[key] = [graph |-> GraphAfter(batch), auditSeq |-> NextSeq]
    BY CommitEffect
  <2>4. /\ DOMAIN imports' = DOMAIN imports
        /\ \A j \in DOMAIN imports : j # i => imports'[j] = imports[j]
        /\ imports'[i] = CommittedRow(imports[i], CommitResult(imports[i].batch))
    BY CommitEffect
  <2>5. /\ result.trace = b.trace /\ result.revision = next
        /\ result.graph = GraphAfter(b) /\ result.audit = NextSeq
    BY <1>1 DEF CommitResult, NextRevision
  <2> QED
    BY <1>1, <2>1, <2>2, <2>3, <2>4, <2>5
<1>4. imports'[i].batch = b /\ imports'[i].result = result /\ imports'[i].state = "COMMITTED"
  BY <1>1, <1>3 DEF CommittedRow
<1>5. next > 0 /\ next - 1 = expected
  BY <1>1, <1>3
<1>6. /\ NextSeq \in DOMAIN audit'
      /\ audit'[NextSeq].kind = "ImportCommitted"
      /\ audit'[NextSeq].import = i
      /\ audit'[NextSeq].request = req
      /\ req \in DOMAIN idempotency'
      /\ idempotency'[req].call = CommitCall(i, expected)
  <2>1. /\ DOMAIN audit' = DOMAIN audit \cup {NextSeq}
        /\ audit'[NextSeq].kind = "ImportCommitted"
        /\ audit'[NextSeq].import = i
        /\ audit'[NextSeq].request = req
        /\ DOMAIN idempotency' = DOMAIN idempotency \cup {req}
        /\ idempotency'[req] = [call |-> CommitCall(i, expected),
                                response |-> CommitResult(imports[i].batch),
                                auditSeq |-> NextSeq]
    BY <1>2, CommitSigns
  <2> QED
    BY <2>1
<1>7. NextSeq \in Commits(i)'
  BY <1>6 DEF Commits
<1>8. ASSUME NEW j \in Committed', j # i PROVE j \in Committed
  BY <1>3, <1>8 DEF Committed
<1>9. Committed \subseteq Committed' /\ i \in Committed'
  BY <1>2, <1>3, <1>4 DEF Committed, Grows, ImportsGrow
<1>10. ASSUME NEW j \in Committed'
       PROVE  LET r == imports'[j].result
              IN  /\ r.revision > 0 /\ r.audit \in Commits(j)'
                  /\ r.trace = imports'[j].batch.trace
                  /\ <<r.trace, r.revision>> \in DOMAIN revisions'
                  /\ revisions'[<<r.trace, r.revision>>] = [graph |-> r.graph, auditSeq |-> r.audit]
                  /\ audit'[r.audit].import = j
                  /\ audit'[r.audit].request \in DOMAIN idempotency'
                  /\ idempotency'[audit'[r.audit].request].call = CommitCall(j, r.revision - 1)
  <2>1. CASE j = i
    BY <1>3, <1>4, <1>5, <1>6, <1>7, <2>1
  <2>2. CASE j # i
    BY <1>2, <1>8, <2>2, CommittedStands
  <2> QED
    BY <2>1, <2>2
<1>11. ASSUME NEW key \in DOMAIN revisions', key[2] > 0
       PROVE  \E j \in Committed' : <<imports'[j].result.trace, imports'[j].result.revision>> = key
  <2>1. CASE key = <<b.trace, next>>
    BY <1>3, <1>4, <1>9, <2>1
  <2>2. CASE key \in DOMAIN revisions
    <3>1. PICK j \in Committed : <<imports[j].result.trace, imports[j].result.revision>> = key
      BY <1>11, <2>2 DEF CommitInv, CommitsAreRevisions
    <3>2. imports'[j] = imports[j]
      BY <1>2 DEF Committed, Grows, ImportsGrow
    <3> QED
      BY <1>9, <3>1, <3>2
  <2> QED
    BY <1>3, <2>1, <2>2
<1> QED
  BY <1>10, <1>11 DEF CommitInv, CommitsAreRevisions, CommitsSigned

\* Without a commit they stay as they are.
LEMMA QuietKeepsCommitInv ==
    ASSUME HistoryInv, CommitInv, [Next]_vars, ~IsCommit
    PROVE  CommitInv'
<1>1. Grows /\ Committed' = Committed
  BY NextGrows, QuietContent DEF HistoryInv
<1>2. \A key \in DOMAIN revisions' : key[2] > 0 => key \in DOMAIN revisions
  <2>1. \A key \in DOMAIN revisions' \ DOMAIN revisions : key[2] = 0
    BY QuietHeads DEF HistoryInv, HistoryAudited
  <2> QED
    BY <2>1
<1>3. ASSUME NEW j \in Committed'
      PROVE  LET r == imports'[j].result
             IN  /\ r.revision > 0 /\ r.audit \in Commits(j)'
                 /\ r.trace = imports'[j].batch.trace
                 /\ <<r.trace, r.revision>> \in DOMAIN revisions'
                 /\ revisions'[<<r.trace, r.revision>>] = [graph |-> r.graph, auditSeq |-> r.audit]
                 /\ audit'[r.audit].import = j
                 /\ audit'[r.audit].request \in DOMAIN idempotency'
                 /\ idempotency'[audit'[r.audit].request].call = CommitCall(j, r.revision - 1)
  BY <1>1, CommittedStands
<1>4. ASSUME NEW key \in DOMAIN revisions', key[2] > 0
      PROVE  \E j \in Committed' : <<imports'[j].result.trace, imports'[j].result.revision>> = key
  <2>1. PICK j \in Committed : <<imports[j].result.trace, imports[j].result.revision>> = key
    BY <1>2, <1>4 DEF CommitInv, CommitsAreRevisions
  <2>2. imports'[j] = imports[j]
    BY <1>1 DEF Committed, Grows, ImportsGrow
  <2> QED
    BY <1>1, <2>1, <2>2
<1> QED
  BY <1>3, <1>4 DEF CommitInv, CommitsAreRevisions, CommitsSigned

LEMMA CommitInvHolds == Spec => []CommitInv
<1>1. Init => CommitInv
  BY DEF Init, EmptyTable, CommitInv, CommitsAreRevisions, CommitsSigned, Committed
<1>2. HistoryInv /\ CommitInv /\ [Next]_vars => CommitInv'
  BY CommitKeepsCommitInv, QuietKeepsCommitInv DEF IsCommit
<1> QED
  BY <1>1, <1>2, HistoryInvHolds, PTL DEF Spec

\* Committed imports and revisions after 0 correspond one to one, and each was
\* signed for a call that expected the revision just before: with any clients
\* racing and retrying, no update is lost and none happens twice.
THEOREM CommitsMatchRevisions == Spec => []CommitsAreRevisions
BY CommitInvHolds, PTL DEF CommitInv

-------------------------------------------------------------------------------
(* LogDecidesImports.  Counted as singletons: the one entry that staged an     *)
(* import, and the one that decided it if it is decided.                       *)

ImportKinds == {"ImportStaged", "ImportCommitted", "ImportCancelled"}

\* What the log says of i is what its row says.
ImportLogged(i) ==
    /\ \E n : Stagings(i) = {n}
    /\ IF imports[i].state = "COMMITTED" THEN \E n : Commits(i) = {n} ELSE Commits(i) = {}
    /\ IF imports[i].state = "CANCELLED"
       THEN \E n : Cancellations(i) = {n}
       ELSE Cancellations(i) = {}
    /\ \A n \in Cancellations(i) : audit[n].reason = ReasonOf(imports[i])
    /\ \A n \in Decisions(i), m \in Stagings(i) : m < n

LogInv ==
    /\ \A n \in DOMAIN audit : audit[n].kind \in ImportKinds => audit[n].import \in DOMAIN imports
    /\ \A i \in DOMAIN imports : ImportLogged(i)

\* The entries a step signs about i.
NewAbout(i) ==
    {n \in DOMAIN audit' \ DOMAIN audit :
        audit'[n].kind \in ImportKinds /\ audit'[n].import = i}

\* What the queries over the log find after a step.
LEMMA LookupsGrow ==
    ASSUME LogGrows, NEW i
    PROVE  /\ Stagings(i)' =
                Stagings(i) \cup {n \in NewAbout(i) : audit'[n].kind = "ImportStaged"}
           /\ Commits(i)' =
                Commits(i) \cup {n \in NewAbout(i) : audit'[n].kind = "ImportCommitted"}
           /\ Cancellations(i)' =
                Cancellations(i) \cup {n \in NewAbout(i) : audit'[n].kind = "ImportCancelled"}
<1>1. Stagings(i)' = Stagings(i) \cup {n \in NewAbout(i) : audit'[n].kind = "ImportStaged"}
  BY DEF LogGrows, NewAbout, ImportKinds, Stagings
<1>2. Commits(i)' = Commits(i) \cup {n \in NewAbout(i) : audit'[n].kind = "ImportCommitted"}
  BY DEF LogGrows, NewAbout, ImportKinds, Commits
<1>3. Cancellations(i)' =
        Cancellations(i) \cup {n \in NewAbout(i) : audit'[n].kind = "ImportCancelled"}
  BY DEF LogGrows, NewAbout, ImportKinds, Cancellations
<1> QED
  BY <1>1, <1>2, <1>3

\* An import nothing is signed about stays as the log has it.
LEMMA UntouchedLogged ==
    ASSUME LogGrows, NEW i, ImportLogged(i), NewAbout(i) = {}, imports'[i] = imports[i]
    PROVE  ImportLogged(i)'
<1>1. /\ Stagings(i)' = Stagings(i)
      /\ Commits(i)' = Commits(i)
      /\ Cancellations(i)' = Cancellations(i)
  BY LookupsGrow
<1>2. \A n \in Cancellations(i) : audit'[n] = audit[n]
  BY DEF LogGrows, Cancellations
<1> QED
  BY <1>1, <1>2 DEF ImportLogged, Decisions

\* A new entry comes after every old one.
LEMMA NewAreLater ==
    ASSUME TypeOK, TypeOK', NEW i, NEW n \in NewAbout(i), NEW m \in DOMAIN audit
    PROVE  m < n
<1>1. audit \in Seq(AuditEntries) /\ audit' \in Seq(AuditEntries)
  BY DEF TypeOK
<1>2. n \in DOMAIN audit' /\ n \notin DOMAIN audit
  BY DEF NewAbout
<1> QED
  BY <1>1, <1>2

\* A staged import that gets the entry of its decision is decided by it.
LEMMA DecidedLogged ==
    ASSUME TypeOK, TypeOK', LogGrows, NEW i, ImportLogged(i), imports[i].state = "STAGED",
           NEW n, NewAbout(i) = {n},
           \/ audit'[n].kind = "ImportCommitted" /\ imports'[i].state = "COMMITTED"
           \/ /\ audit'[n].kind = "ImportCancelled" /\ imports'[i].state = "CANCELLED"
              /\ audit'[n].reason = ReasonOf(imports'[i])
    PROVE  ImportLogged(i)'
<1>1. PICK m : Stagings(i) = {m}
  BY DEF ImportLogged
<1>2. Commits(i) = {} /\ Cancellations(i) = {}
  BY DEF ImportLogged
<1>3. m < n
  BY <1>1, NewAreLater, LookupsAreInLog
<1>4. CASE audit'[n].kind = "ImportCommitted" /\ imports'[i].state = "COMMITTED"
  <2>1. Stagings(i)' = {m} /\ Commits(i)' = {n} /\ Cancellations(i)' = {}
    BY <1>1, <1>2, <1>4, LookupsGrow
  <2> QED
    BY <1>3, <1>4, <2>1 DEF ImportLogged, Decisions
<1>5. CASE /\ audit'[n].kind = "ImportCancelled" /\ imports'[i].state = "CANCELLED"
           /\ audit'[n].reason = ReasonOf(imports'[i])
  <2>1. Stagings(i)' = {m} /\ Commits(i)' = {} /\ Cancellations(i)' = {n}
    BY <1>1, <1>2, <1>5, LookupsGrow
  <2> QED
    BY <1>3, <1>5, <2>1 DEF ImportLogged, Decisions
<1> QED
  BY <1>4, <1>5

\* An import the log did not know is staged by its first entry.
LEMMA StagedLogged ==
    ASSUME LogGrows, LogInv, NEW i, i \notin DOMAIN imports,
           NEW n, NewAbout(i) = {n}, audit'[n].kind = "ImportStaged",
           imports'[i].state = "STAGED"
    PROVE  ImportLogged(i)'
<1>1. Stagings(i) = {} /\ Commits(i) = {} /\ Cancellations(i) = {}
  BY DEF LogInv, ImportKinds, Stagings, Commits, Cancellations
<1>2. Stagings(i)' = {n} /\ Commits(i)' = {} /\ Cancellations(i)' = {}
  BY <1>1, LookupsGrow
<1> QED
  BY <1>2 DEF ImportLogged, Decisions

\* What one more entry says of i.
LEMMA AppendAbout ==
    ASSUME TypeOK, NEW entry, AppendAudit(entry), NEW i
    PROVE  /\ audit'[NextSeq] = entry
           /\ NewAbout(i) =
                IF entry.kind \in ImportKinds /\ entry.import = i THEN {NextSeq} ELSE {}
<1>1. /\ DOMAIN audit' = DOMAIN audit \cup {NextSeq}
      /\ NextSeq \notin DOMAIN audit
      /\ audit'[NextSeq] = entry
  BY AppendKeeps
<1> QED
  BY <1>1 DEF NewAbout

\* A sweep signs one entry about each expired import, for the rows it reads
\* come in some order, each once.
LEMMA SweepAbout ==
    ASSUME TypeOK, Sweep
    PROVE  /\ \A i \in Expired :
                 \E n : /\ NewAbout(i) = {n}
                       /\ audit'[n].kind = "ImportCancelled" /\ audit'[n].reason = "EXPIRED"
           /\ \A i : i \notin Expired => NewAbout(i) = {}
<1>1. PICK order \in Orders(Expired) : audit' = audit \o SweptEntries(order)
  BY DEF Sweep, SweptEntries
<1>2. /\ Cardinality(Expired) \in Nat
      /\ SweptEntries(order) \in Seq(AuditEntries)
      /\ audit \in Seq(AuditEntries)
  BY SweptEntriesTyped DEF TypeOK
<1> DEFINE size == Cardinality(Expired)
           swept == SweptEntries(order)
<1>3. /\ DOMAIN swept = 1..size
      /\ \A k \in 1..size : /\ swept[k].kind = "ImportCancelled" /\ swept[k].import = order[k]
                             /\ swept[k].reason = "EXPIRED"
  BY DEF SweptEntries
<1>4. Len(swept) = size
  BY <1>2, <1>3
<1> HIDE DEF swept
<1>5. /\ DOMAIN audit' = 1..(Len(audit) + size)
      /\ \A k \in 1..size : audit'[Len(audit) + k] = swept[k]
  BY <1>1, <1>2, <1>4 DEF swept
<1>6. DOMAIN audit = 1..Len(audit) /\ Len(audit) \in Nat
  BY <1>2
<1>7. \A n \in DOMAIN audit' \ DOMAIN audit : \E k \in 1..size : n = Len(audit) + k
  <2> SUFFICES ASSUME NEW n \in DOMAIN audit' \ DOMAIN audit
               PROVE  \E k \in 1..size : n = Len(audit) + k
    OBVIOUS
  <2>1. n - Len(audit) \in 1..size /\ n = Len(audit) + (n - Len(audit))
    BY <1>2, <1>5, <1>6
  <2> QED
    BY <2>1
<1>8. /\ order \in [1..size -> Expired]
      /\ \A k, l \in 1..size : order[k] = order[l] => k = l
  BY DEF Orders
<1>9. ASSUME NEW i, NEW n \in NewAbout(i)
      PROVE  \E k \in 1..size : n = Len(audit) + k /\ order[k] = i
  BY <1>3, <1>5, <1>7 DEF NewAbout
<1>10. ASSUME NEW i \in Expired
       PROVE  \E n : /\ NewAbout(i) = {n}
                     /\ audit'[n].kind = "ImportCancelled" /\ audit'[n].reason = "EXPIRED"
  <2>1. \E k \in 1..size : order[k] = i
    <3>1. IsFiniteSet(Expired)
      BY FS_Subset DEF TypeOK, Expired
    <3>2. Cardinality(1..size) = size
      BY <1>2, FS_Interval
    <3>3. order \in Injection(1..size, Expired)
      BY <1>8 DEF Injection, IsInjective
    <3>4. order \in Surjection(1..size, Expired)
      BY <3>1, <3>2, <3>3, FS_Injection
    <3> QED
      BY <3>4 DEF Surjection
  <2>2. PICK k \in 1..size : order[k] = i
    BY <2>1
  <2>3. Len(audit) + k \in DOMAIN audit' \ DOMAIN audit
    BY <1>2, <1>5, <1>6
  <2>4. /\ Len(audit) + k \in NewAbout(i)
        /\ audit'[Len(audit) + k].kind = "ImportCancelled"
        /\ audit'[Len(audit) + k].reason = "EXPIRED"
    BY <1>3, <1>5, <2>2, <2>3 DEF NewAbout, ImportKinds
  <2>5. \A n \in NewAbout(i) : n = Len(audit) + k
    BY <1>8, <1>9, <2>2
  <2> QED
    BY <2>4, <2>5
<1>11. ASSUME NEW i, i \notin Expired PROVE NewAbout(i) = {}
  BY <1>8, <1>9, <1>11
<1> QED
  BY <1>10, <1>11

\* The log of a step that signs about known imports only, import by import.
LEMMA LoggedEach ==
    ASSUME LogInv, Grows,
           \A i : NewAbout(i) # {} => i \in DOMAIN imports',
           \A i \in DOMAIN imports' : ImportLogged(i)'
    PROVE  LogInv'
<1>1. ASSUME NEW n \in DOMAIN audit', audit'[n].kind \in ImportKinds
      PROVE  audit'[n].import \in DOMAIN imports'
  <2>1. CASE n \in DOMAIN audit
    BY <1>1, <2>1 DEF LogInv, Grows, LogGrows, ImportsGrow
  <2>2. CASE n \notin DOMAIN audit
    <3>1. n \in NewAbout(audit'[n].import)
      BY <1>1, <2>2 DEF NewAbout
    <3> QED
      BY <3>1
  <2> QED
    BY <2>1, <2>2
<1> QED
  BY <1>1 DEF LogInv

\* A step that decides the staged import i and signs one entry about it.
LEMMA DecisionKeepsLog ==
    ASSUME TypeOK, TypeOK', LogInv, Grows,
           NEW i \in DOMAIN imports, imports[i].state = "STAGED",
           NEW row, imports' = Put(imports, i, row),
           NEW entry, AppendAudit(entry), entry.import = i,
           \/ entry.kind = "ImportCommitted" /\ row.state = "COMMITTED"
           \/ /\ entry.kind = "ImportCancelled" /\ row.state = "CANCELLED"
              /\ entry.reason = ReasonOf(row)
    PROVE  LogInv'
<1>1. /\ DOMAIN imports' = DOMAIN imports
      /\ imports'[i] = row
      /\ \A j \in DOMAIN imports : j # i => imports'[j] = imports[j]
  BY DEF Put
<1>2. /\ NewAbout(i) = {NextSeq}
      /\ audit'[NextSeq] = entry
      /\ \A j : j # i => NewAbout(j) = {}
  BY AppendAbout DEF ImportKinds
<1>3. ImportLogged(i)'
  BY <1>1, <1>2, DecidedLogged DEF LogInv, Grows
<1>4. ASSUME NEW j \in DOMAIN imports, j # i PROVE ImportLogged(j)'
  BY <1>1, <1>2, <1>4, UntouchedLogged DEF LogInv, Grows
<1> QED
  BY <1>1, <1>2, <1>3, <1>4, LoggedEach

\* A step that leaves the imports alone and signs about none.
LEMMA QuietKeepsLog ==
    ASSUME LogInv, Grows, imports' = imports, \A i : NewAbout(i) = {}
    PROVE  LogInv'
<1>1. ASSUME NEW i \in DOMAIN imports PROVE ImportLogged(i)'
  BY UntouchedLogged DEF LogInv, Grows
<1> QED
  BY <1>1, LoggedEach

\* Every step keeps the log and the imports in agreement.
LEMMA NextKeepsLog == HistoryInv /\ LogInv /\ [Next]_vars => LogInv'
<1> SUFFICES ASSUME HistoryInv, LogInv, [Next]_vars PROVE LogInv'
  OBVIOUS
<1>1. TypeOK /\ TypeOK' /\ Grows
  BY NextGrows, NextTyped DEF HistoryInv
<1>2. ASSUME NEW req \in Requests, NEW i \in Imports, NEW b \in Batches,
             ImportStage(req, i, b)
      PROVE  LogInv'
  <2>1. PICK t \in Readings :
            imports' = Put(imports, i, [state |-> "STAGED", batch |-> b,
                                        expires |-> Seconds(t) + StageTtl])
    BY <1>2 DEF ImportStage
  <2>2. /\ i \notin DOMAIN imports
        /\ DOMAIN imports' = DOMAIN imports \cup {i}
        /\ imports'[i].state = "STAGED"
        /\ \A j \in DOMAIN imports : imports'[j] = imports[j]
    BY <1>2, <2>1 DEF ImportStage, Put
  <2> DEFINE entry == [kind |-> "ImportStaged", request |-> req, import |-> i, batch |-> b]
  <2>3. AppendAudit(entry) /\ entry.kind = "ImportStaged" /\ entry.import = i
    BY <1>2 DEF ImportStage
  <2> HIDE DEF entry
  <2>4. /\ NewAbout(i) = {NextSeq}
        /\ audit'[NextSeq] = entry
        /\ \A j : j # i => NewAbout(j) = {}
    BY <1>1, <2>3, AppendAbout DEF ImportKinds
  <2>5. ImportLogged(i)'
    BY <1>1, <2>2, <2>3, <2>4, StagedLogged DEF Grows
  <2>6. ASSUME NEW j \in DOMAIN imports PROVE ImportLogged(j)'
    <3>1. j # i
      BY <2>2
    <3> QED
      BY <1>1, <2>2, <2>4, <3>1, UntouchedLogged DEF LogInv, Grows
  <2> QED
    BY <1>1, <2>2, <2>4, <2>5, <2>6, LoggedEach
<1>3. ASSUME NEW req \in Requests, NEW i \in Imports, NEW expected \in 0..MaxRevision,
             ImportCommit(req, i, expected)
      PROVE  LogInv'
  <2>1. PICK b, result : b = imports[i].batch /\ result = CommitResult(b)
    OBVIOUS
  <2> DEFINE row == CommittedRow(imports[i], result)
             entry == [kind |-> "ImportCommitted", request |-> req, import |-> i, batch |-> b,
                       trace |-> b.trace, revision |-> result.revision, graph |-> result.graph]
  <2>2. /\ i \in DOMAIN imports /\ imports[i].state = "STAGED"
        /\ imports' = Put(imports, i, row)
        /\ AppendAudit(entry)
    BY <1>3, <2>1 DEF ImportCommit, Undecided
  <2>3. entry.kind = "ImportCommitted" /\ entry.import = i /\ row.state = "COMMITTED"
    BY DEF CommittedRow
  <2> HIDE DEF row, entry
  <2> QED
    BY <1>1, <2>2, <2>3, DecisionKeepsLog
<1>4. ASSUME NEW req \in Requests, NEW i \in Imports, ImportCommitExpired(req, i)
      PROVE  LogInv'
  <2> DEFINE row == CancelledRow(imports[i], "EXPIRED")
             entry == [kind |-> "ImportCancelled", request |-> req, import |-> i,
                       reason |-> "EXPIRED"]
  <2>1. /\ i \in DOMAIN imports /\ imports[i].state = "STAGED"
        /\ imports' = Put(imports, i, row)
        /\ AppendAudit(entry)
    BY <1>4 DEF ImportCommitExpired, CommitExpires
  <2>2. /\ entry.kind = "ImportCancelled" /\ entry.import = i /\ row.state = "CANCELLED"
        /\ entry.reason = ReasonOf(row)
    BY DEF CancelledRow, ReasonOf
  <2> HIDE DEF row, entry
  <2> QED
    BY <1>1, <2>1, <2>2, DecisionKeepsLog
<1>5. ASSUME NEW req \in Requests, NEW i \in Imports, ImportCancel(req, i)
      PROVE  LogInv'
  <2> DEFINE row == CancelledRow(imports[i], "USER")
             entry == [kind |-> "ImportCancelled", request |-> req, import |-> i,
                       reason |-> "USER"]
  <2>1. /\ i \in DOMAIN imports /\ imports[i].state = "STAGED"
        /\ imports' = Put(imports, i, row)
        /\ AppendAudit(entry)
    BY <1>5 DEF ImportCancel, Undecided
  <2>2. /\ entry.kind = "ImportCancelled" /\ entry.import = i /\ row.state = "CANCELLED"
        /\ entry.reason = ReasonOf(row)
    BY DEF CancelledRow, ReasonOf
  <2> HIDE DEF row, entry
  <2> QED
    BY <1>1, <2>1, <2>2, DecisionKeepsLog
<1>6. CASE Sweep
  <2>1. /\ DOMAIN imports' = DOMAIN imports
        /\ \A i \in Expired : imports'[i].state = "CANCELLED" /\ imports[i].state = "STAGED"
        /\ \A i \in Expired : ReasonOf(imports'[i]) = "EXPIRED"
        /\ \A i \in DOMAIN imports \ Expired : imports'[i] = imports[i]
        /\ Expired \subseteq DOMAIN imports
    BY <1>6 DEF Sweep, Expired, SweepExpires, CancelledRow, ReasonOf
  <2>2. /\ \A i \in Expired :
              \E n : /\ NewAbout(i) = {n}
                     /\ audit'[n].kind = "ImportCancelled" /\ audit'[n].reason = "EXPIRED"
        /\ \A i : i \notin Expired => NewAbout(i) = {}
    BY <1>1, <1>6, SweepAbout
  <2>3. ASSUME NEW i \in Expired PROVE ImportLogged(i)'
    <3>1. PICK n : /\ NewAbout(i) = {n}
                   /\ audit'[n].kind = "ImportCancelled" /\ audit'[n].reason = "EXPIRED"
      BY <2>2
    <3> QED
      BY <1>1, <2>1, <3>1, DecidedLogged DEF LogInv, Grows
  <2>4. ASSUME NEW i \in DOMAIN imports \ Expired PROVE ImportLogged(i)'
    BY <1>1, <2>1, <2>2, UntouchedLogged DEF LogInv, Grows
  <2> QED
    BY <1>1, <2>1, <2>2, <2>3, <2>4, LoggedEach
<1>7. CASE \E req \in Requests, s \in Sources, body \in Profiles : SourceRegister(req, s, body)
  <2>1. PICK req \in Requests, s \in Sources, body \in Profiles : SourceRegister(req, s, body)
    BY <1>7
  <2>2. \A i : NewAbout(i) = {}
    BY <1>1, <2>1, AppendAbout DEF SourceRegister, ImportKinds
  <2> QED
    BY <1>1, <2>1, <2>2, QuietKeepsLog DEF SourceRegister
<1>8. CASE \E req \in Requests, tr \in Traces : TraceCreate(req, tr)
  <2>1. PICK req \in Requests, tr \in Traces : TraceCreate(req, tr)
    BY <1>8
  <2>2. \A i : NewAbout(i) = {}
    BY <1>1, <2>1, AppendAbout DEF TraceCreate, ImportKinds
  <2> QED
    BY <1>1, <2>1, <2>2, QuietKeepsLog DEF TraceCreate
<1>9. CASE \/ \E req \in Requests, s \in Sources, body \in Profiles :
                 SourceRegisterAgain(req, s, body)
           \/ \E req \in Requests, tr \in Traces : TraceCreateAgain(req, tr)
           \/ \E req \in Requests, i \in Imports, b \in Batches : ImportStageAgain(req, i, b)
           \/ \E req \in Requests, i \in Imports, expected \in 0..MaxRevision :
                 ImportCommitAgain(req, i, expected)
           \/ \E req \in Requests, i \in Imports : ImportCancelAgain(req, i)
           \/ \E i \in Imports : CommitBroken(i)
           \/ Open \/ Stop \/ Tick \/ UNCHANGED vars
  <2>1. audit' = audit /\ imports' = imports
    BY <1>9 DEF SourceRegisterAgain, TraceCreateAgain, ImportStageAgain, ImportCommitAgain,
       ImportCancelAgain, CommitBroken, Open, Stop, Tick, vars
  <2>2. \A i : NewAbout(i) = {}
    BY <2>1 DEF NewAbout
  <2> QED
    BY <1>1, <2>1, <2>2, QuietKeepsLog
<1> QED
  BY <1>2, <1>3, <1>4, <1>5, <1>6, <1>7, <1>8, <1>9 DEF Next

LEMMA LogInvHolds == Spec => []LogInv
<1>1. Init => LogInv
  BY DEF Init, EmptyTable, LogInv, ImportKinds
<1> QED
  BY <1>1, NextKeepsLog, HistoryInvHolds, PTL DEF Spec

\* However stages, commits, cancellations and sweeps interleave, an import is in
\* the log once as staged, and then once as committed or once as cancelled,
\* exactly as its row says, and for the reason that the row has.
THEOREM LogTellsDecisions == Spec => []LogDecidesImports
<1>1. TypeOK /\ LogInv => LogDecidesImports
  <2> SUFFICES ASSUME LogInv, NEW i \in DOMAIN imports
               PROVE  /\ Cardinality(Stagings(i)) = 1
                      /\ \A n \in Decisions(i), m \in Stagings(i) : m < n
                      /\ Cardinality(Commits(i)) =
                            IF imports[i].state = "COMMITTED" THEN 1 ELSE 0
                      /\ Cardinality(Cancellations(i)) =
                            IF imports[i].state = "CANCELLED" THEN 1 ELSE 0
                      /\ \A n \in Cancellations(i) : audit[n].reason = ReasonOf(imports[i])
    BY DEF LogDecidesImports, LogInv, ImportKinds
  <2>1. ImportLogged(i)
    BY DEF LogInv
  <2>2. Cardinality({}) = 0 /\ \A n : Cardinality({n}) = 1
    BY FS_EmptySet, FS_Singleton
  <2> QED
    BY <2>1, <2>2 DEF ImportLogged
<1> QED
  BY <1>1, TypeCorrect, LogInvHolds, PTL

-------------------------------------------------------------------------------
(* RetriesStand.  An answer says nothing of a method that is none of the five; *)
(* and the entry a repeated commit names is the one its result names because   *)
(* the log has no other.                                                       *)

Methods == {"source.register", "trace.create", "import.stage", "import.commit", "import.cancel"}

RetryInv ==
    \A r \in DOMAIN idempotency :
        /\ idempotency[r].auditSeq \in DOMAIN audit
        /\ idempotency[r].call.method \in Methods
        /\ AnswerStands(idempotency[r])

\* What the store stood by once, it stands by for good.
LEMMA AnswerKept ==
    ASSUME Grows, NEW row, row.auditSeq \in DOMAIN audit, row.call.method \in Methods,
           AnswerStands(row)
    PROVE  row.auditSeq \in DOMAIN audit' /\ AnswerStands(row)'
<1>1. row.auditSeq \in DOMAIN audit' /\ audit'[row.auditSeq] = audit[row.auditSeq]
  BY DEF Grows, LogGrows
<1>2. CASE row.call.method = "source.register"
  BY <1>1, <1>2 DEF AnswerStands, Grows, SourcesStay
<1>3. CASE row.call.method = "trace.create"
  BY <1>1, <1>3 DEF AnswerStands, Grows, TracesGrow
<1>4. CASE row.call.method = "import.stage"
  BY <1>1, <1>4 DEF AnswerStands, Grows, ImportsGrow
<1>5. CASE row.call.method = "import.commit"
  BY <1>1, <1>5 DEF AnswerStands, Grows, ImportsGrow, Committed
<1>6. CASE row.call.method = "import.cancel"
  BY <1>1, <1>6 DEF AnswerStands, Grows, ImportsGrow
<1> QED
  BY <1>2, <1>3, <1>4, <1>5, <1>6 DEF Methods

\* Where no response is stored, the answers stand as they did.
LEMMA UnansweredStand ==
    ASSUME RetryInv, Grows, idempotency' = idempotency
    PROVE  RetryInv'
BY AnswerKept DEF RetryInv

\* A stored response that stands joins those that do.
LEMMA StoredStands ==
    ASSUME RetryInv, Grows, NEW req, NEW call, NEW response, NEW seq, NEW row,
           row = [call |-> call, response |-> response, auditSeq |-> seq],
           StoreResponse(req, call, response, seq), Fresh(req),
           seq \in DOMAIN audit', call.method \in Methods, AnswerStands(row)'
    PROVE  RetryInv'
<1>1. /\ DOMAIN idempotency' = DOMAIN idempotency \cup {req}
      /\ idempotency'[req] = row
      /\ \A r \in DOMAIN idempotency : idempotency'[r] = idempotency[r]
  BY DEF StoreResponse, Put, Fresh
<1>2. row.auditSeq = seq /\ row.call = call
  OBVIOUS
<1>3. ASSUME NEW r \in DOMAIN idempotency
      PROVE  /\ idempotency[r].auditSeq \in DOMAIN audit'
             /\ idempotency[r].call.method \in Methods
             /\ AnswerStands(idempotency[r])'
  <2>1. PICK old : old = idempotency[r]
    OBVIOUS
  <2>2. old.auditSeq \in DOMAIN audit' /\ AnswerStands(old)'
    BY <2>1, AnswerKept DEF RetryInv
  <2>3. idempotency'[r] = old
    BY <1>1, <2>1
  <2>4. AnswerStands(idempotency[r])'
    BY <2>2, <2>3 DEF AnswerStands
  <2> QED
    BY <2>1, <2>2, <2>4 DEF RetryInv
<1> QED
  BY <1>1, <1>2, <1>3 DEF RetryInv

\* The earliest entry a query finds is one it finds.
LEMMA EarliestFound ==
    ASSUME TypeOK, NEW seqs \in SUBSET DOMAIN audit, seqs # {}
    PROVE  Earliest(seqs) \in seqs
<1>1. DOMAIN audit \subseteq Nat
  BY DEF TypeOK
<1> QED
  BY <1>1, EarliestIn

\* A registration answers with the source it stored, the first one or a repeated one.
LEMMA RegisterStands ==
    ASSUME HistoryInv, RetryInv, Grows, NEW req \in Requests, NEW s \in Sources,
           NEW body \in Profiles,
           SourceRegister(req, s, body) \/ SourceRegisterAgain(req, s, body)
    PROVE  RetryInv'
<1> DEFINE call == RegisterCall(s, body)
<1>1. call.method = "source.register" /\ call.source = s
  BY DEF RegisterCall
<1>2. CASE SourceRegister(req, s, body)
  <2>1. PICK row : row = [call |-> call, response |-> body, auditSeq |-> NextSeq]
    OBVIOUS
  <2> DEFINE entry == [kind |-> "SourceRegistered", request |-> req, source |-> s, body |-> body]
  <2>2. Fresh(req) /\ StoreResponse(req, call, body, NextSeq) /\ AppendAudit(entry)
    BY <1>2 DEF SourceRegister
  <2>3. entry.kind = "SourceRegistered" /\ entry.source = s
    OBVIOUS
  <2> HIDE DEF entry
  <2>4. NextSeq \in DOMAIN audit' /\ audit'[NextSeq] = entry
    BY <2>2, AppendKeeps DEF HistoryInv
  <2>5. s \in DOMAIN sources' /\ sources'[s] = body
    BY <1>2 DEF SourceRegister, Put
  <2> HIDE DEF call
  <2>6. AnswerStands(row)'
    BY <1>1, <2>1, <2>3, <2>4, <2>5 DEF AnswerStands
  <2> QED
    BY <1>1, <2>1, <2>2, <2>4, <2>6, StoredStands DEF Methods
<1>3. CASE SourceRegisterAgain(req, s, body)
  <2>1. PICK response, seq, row :
            /\ response = sources[s] /\ seq = Earliest(Registrations(s))
            /\ row = [call |-> call, response |-> response, auditSeq |-> seq]
    OBVIOUS
  <2>2. Fresh(req) /\ StoreResponse(req, call, response, seq)
    BY <1>3, <2>1 DEF SourceRegisterAgain
  <2>3. seq \in Registrations(s)
    BY <1>3, <2>1, EarliestFound, LookupsAreInLog DEF HistoryInv, SourceRegisterAgain
  <2>4. s \in DOMAIN sources /\ sources' = sources /\ audit' = audit
    BY <1>3 DEF SourceRegisterAgain
  <2> HIDE DEF call
  <2>5. AnswerStands(row)'
    BY <1>1, <2>1, <2>3, <2>4 DEF AnswerStands, Registrations
  <2> QED
    BY <1>1, <2>1, <2>2, <2>3, <2>4, <2>5, StoredStands DEF Methods, Registrations
<1> QED
  BY <1>2, <1>3

\* The creation of a trace answers with a trace that exists.
LEMMA CreateStands ==
    ASSUME HistoryInv, RetryInv, Grows, NEW req \in Requests, NEW tr \in Traces,
           TraceCreate(req, tr) \/ TraceCreateAgain(req, tr)
    PROVE  RetryInv'
<1> DEFINE call == CreateCall(tr)
<1>1. call.method = "trace.create" /\ call.trace = tr
  BY DEF CreateCall
<1>2. CASE TraceCreate(req, tr)
  <2>1. PICK row : row = [call |-> call, response |-> 0, auditSeq |-> NextSeq]
    OBVIOUS
  <2> DEFINE entry == [kind |-> "TraceCreated", request |-> req, trace |-> tr]
  <2>2. Fresh(req) /\ StoreResponse(req, call, 0, NextSeq) /\ AppendAudit(entry)
    BY <1>2 DEF TraceCreate
  <2>3. entry.kind = "TraceCreated" /\ entry.trace = tr
    OBVIOUS
  <2> HIDE DEF entry
  <2>4. NextSeq \in DOMAIN audit' /\ audit'[NextSeq] = entry
    BY <2>2, AppendKeeps DEF HistoryInv
  <2>5. tr \in DOMAIN traces'
    BY <1>2 DEF TraceCreate, Put
  <2> HIDE DEF call
  <2>6. AnswerStands(row)'
    BY <1>1, <2>1, <2>3, <2>4, <2>5 DEF AnswerStands
  <2> QED
    BY <1>1, <2>1, <2>2, <2>4, <2>6, StoredStands DEF Methods
<1>3. CASE TraceCreateAgain(req, tr)
  <2>1. PICK seq, row :
            /\ seq = Earliest(Creations(tr))
            /\ row = [call |-> call, response |-> 0, auditSeq |-> seq]
    OBVIOUS
  <2>2. Fresh(req) /\ StoreResponse(req, call, 0, seq)
    BY <1>3, <2>1 DEF TraceCreateAgain
  <2>3. seq \in Creations(tr)
    BY <1>3, <2>1, EarliestFound, LookupsAreInLog DEF HistoryInv, TraceCreateAgain
  <2>4. tr \in DOMAIN traces /\ traces' = traces /\ audit' = audit
    BY <1>3 DEF TraceCreateAgain
  <2> HIDE DEF call
  <2>5. AnswerStands(row)'
    BY <1>1, <2>1, <2>3, <2>4 DEF AnswerStands, Creations
  <2> QED
    BY <1>1, <2>1, <2>2, <2>3, <2>4, <2>5, StoredStands DEF Methods, Creations
<1> QED
  BY <1>2, <1>3

\* A stage answers with the batch that the import keeps.
LEMMA StageStands ==
    ASSUME HistoryInv, RetryInv, Grows, NEW req \in Requests, NEW i \in Imports,
           NEW b \in Batches, ImportStage(req, i, b) \/ ImportStageAgain(req, i, b)
    PROVE  RetryInv'
<1> DEFINE call == StageCall(i, b)
<1>1. call.method = "import.stage" /\ call.import = i /\ call.batch = b
  BY DEF StageCall
<1>2. CASE ImportStage(req, i, b)
  <2>1. PICK response, row :
            /\ response = StageResult(i, b)
            /\ row = [call |-> call, response |-> response, auditSeq |-> NextSeq]
    OBVIOUS
  <2> DEFINE entry == [kind |-> "ImportStaged", request |-> req, import |-> i, batch |-> b]
  <2>2. Fresh(req) /\ StoreResponse(req, call, response, NextSeq) /\ AppendAudit(entry)
    BY <1>2, <2>1 DEF ImportStage
  <2>3. entry.kind = "ImportStaged" /\ entry.import = i
    OBVIOUS
  <2> HIDE DEF entry
  <2>4. NextSeq \in DOMAIN audit' /\ audit'[NextSeq] = entry
    BY <2>2, AppendKeeps DEF HistoryInv
  <2>5. i \in DOMAIN imports' /\ imports'[i].batch = b
    BY <1>2 DEF ImportStage, Put
  <2> HIDE DEF call
  <2>6. AnswerStands(row)'
    BY <1>1, <2>1, <2>3, <2>4, <2>5 DEF AnswerStands
  <2> QED
    BY <1>1, <2>1, <2>2, <2>4, <2>6, StoredStands DEF Methods
<1>3. CASE ImportStageAgain(req, i, b)
  <2>1. PICK response, seq, row :
            /\ response = StageResult(i, b) /\ seq = Earliest(Stagings(i))
            /\ row = [call |-> call, response |-> response, auditSeq |-> seq]
    OBVIOUS
  <2>2. Fresh(req) /\ StoreResponse(req, call, response, seq)
    BY <1>3, <2>1 DEF ImportStageAgain
  <2>3. seq \in Stagings(i)
    BY <1>3, <2>1, EarliestFound, LookupsAreInLog DEF HistoryInv, ImportStageAgain
  <2>4. i \in DOMAIN imports /\ imports[i].batch = b /\ imports' = imports /\ audit' = audit
    BY <1>3 DEF ImportStageAgain
  <2> HIDE DEF call
  <2>5. AnswerStands(row)'
    BY <1>1, <2>1, <2>3, <2>4 DEF AnswerStands, Stagings
  <2> QED
    BY <1>1, <2>1, <2>2, <2>3, <2>4, <2>5, StoredStands DEF Methods, Stagings
<1> QED
  BY <1>2, <1>3

\* A commit answers with the import's result, which names the entry of the commit.
LEMMA CommitStands ==
    ASSUME HistoryInv, CommitInv, LogInv, RetryInv, Grows, NEW req \in Requests,
           NEW i \in Imports, NEW expected \in 0..MaxRevision,
           ImportCommit(req, i, expected) \/ ImportCommitAgain(req, i, expected)
    PROVE  RetryInv'
<1> DEFINE call == CommitCall(i, expected)
<1>1. call.method = "import.commit" /\ call.import = i
  BY DEF CommitCall
<1>2. CASE ImportCommit(req, i, expected)
  <2>1. PICK result, row :
            /\ result = CommitResult(imports[i].batch)
            /\ row = [call |-> call, response |-> result, auditSeq |-> NextSeq]
    OBVIOUS
  <2>2. Fresh(req) /\ StoreResponse(req, call, result, NextSeq)
    BY <1>2, <2>1 DEF ImportCommit
  <2>3. /\ NextSeq \in DOMAIN audit'
        /\ audit'[NextSeq].kind = "ImportCommitted"
        /\ audit'[NextSeq].import = i
    BY <1>2, CommitSigns DEF HistoryInv
  <2>4. result.audit = NextSeq
    BY <2>1 DEF CommitResult
  <2>5. i \in DOMAIN imports' /\ imports'[i].state = "COMMITTED" /\ imports'[i].result = result
    BY <1>2, <2>1 DEF ImportCommit, Put, CommittedRow
  <2> HIDE DEF call
  <2>6. AnswerStands(row)'
    BY <1>1, <2>1, <2>3, <2>4, <2>5 DEF AnswerStands, Committed
  <2> QED
    BY <1>1, <2>1, <2>2, <2>3, <2>6, StoredStands DEF Methods
<1>3. CASE ImportCommitAgain(req, i, expected)
  <2>1. PICK result, seq, row :
            /\ result = imports[i].result /\ seq = Earliest(Commits(i))
            /\ row = [call |-> call, response |-> result, auditSeq |-> seq]
    OBVIOUS
  <2>2. Fresh(req) /\ StoreResponse(req, call, result, seq)
    BY <1>3, <2>1 DEF ImportCommitAgain
  <2>3. seq \in Commits(i)
    BY <1>3, <2>1, EarliestFound, LookupsAreInLog DEF HistoryInv, ImportCommitAgain
  <2>4. i \in Committed /\ imports' = imports /\ audit' = audit
    BY <1>3 DEF ImportCommitAgain, Committed
  <2>5. result.audit = seq
    <3>1. result.audit \in Commits(i)
      BY <2>1, <2>4 DEF CommitInv, CommitsSigned
    <3>2. \E n : Commits(i) = {n}
      BY <2>4 DEF LogInv, ImportLogged, Committed
    <3> QED
      BY <2>3, <3>1, <3>2
  <2> HIDE DEF call
  <2>6. AnswerStands(row)'
    BY <1>1, <2>1, <2>3, <2>4, <2>5 DEF AnswerStands, Commits, Committed
  <2> QED
    BY <1>1, <2>1, <2>2, <2>3, <2>4, <2>6, StoredStands DEF Methods, Commits
<1> QED
  BY <1>2, <1>3

\* A cancellation answers for an import that is cancelled.
LEMMA CancelStands ==
    ASSUME HistoryInv, RetryInv, Grows, NEW req \in Requests, NEW i \in Imports,
           ImportCancel(req, i) \/ ImportCancelAgain(req, i)
    PROVE  RetryInv'
<1> DEFINE call == CancelCall(i)
<1>1. call.method = "import.cancel" /\ call.import = i
  BY DEF CancelCall
<1>2. CASE ImportCancel(req, i)
  <2>1. PICK row : row = [call |-> call, response |-> i, auditSeq |-> NextSeq]
    OBVIOUS
  <2> DEFINE entry == [kind |-> "ImportCancelled", request |-> req, import |-> i,
                       reason |-> "USER"]
  <2>2. Fresh(req) /\ StoreResponse(req, call, i, NextSeq) /\ AppendAudit(entry)
    BY <1>2 DEF ImportCancel
  <2>3. entry.kind = "ImportCancelled" /\ entry.import = i
    OBVIOUS
  <2> HIDE DEF entry
  <2>4. NextSeq \in DOMAIN audit' /\ audit'[NextSeq] = entry
    BY <2>2, AppendKeeps DEF HistoryInv
  <2>5. i \in DOMAIN imports' /\ imports'[i].state = "CANCELLED"
    BY <1>2 DEF ImportCancel, Put, CancelledRow
  <2> HIDE DEF call
  <2>6. AnswerStands(row)'
    BY <1>1, <2>1, <2>3, <2>4, <2>5 DEF AnswerStands
  <2> QED
    BY <1>1, <2>1, <2>2, <2>4, <2>6, StoredStands DEF Methods
<1>3. CASE ImportCancelAgain(req, i)
  <2>1. PICK seq, row :
            /\ seq = Earliest(Cancellations(i))
            /\ row = [call |-> call, response |-> i, auditSeq |-> seq]
    OBVIOUS
  <2>2. Fresh(req) /\ StoreResponse(req, call, i, seq)
    BY <1>3, <2>1 DEF ImportCancelAgain
  <2>3. seq \in Cancellations(i)
    BY <1>3, <2>1, EarliestFound, LookupsAreInLog DEF HistoryInv, ImportCancelAgain
  <2>4. /\ i \in DOMAIN imports /\ imports[i].state = "CANCELLED"
        /\ imports' = imports /\ audit' = audit
    BY <1>3 DEF ImportCancelAgain
  <2> HIDE DEF call
  <2>5. AnswerStands(row)'
    BY <1>1, <2>1, <2>3, <2>4 DEF AnswerStands, Cancellations
  <2> QED
    BY <1>1, <2>1, <2>2, <2>3, <2>4, <2>5, StoredStands DEF Methods, Cancellations
<1> QED
  BY <1>2, <1>3

LEMMA RetryInvHolds == Spec => []RetryInv
<1>1. Init => RetryInv
  BY DEF Init, EmptyTable, RetryInv
<1>2. HistoryInv /\ CommitInv /\ LogInv /\ RetryInv /\ [Next]_vars => RetryInv'
  <2> SUFFICES ASSUME HistoryInv, CommitInv, LogInv, RetryInv, [Next]_vars PROVE RetryInv'
    OBVIOUS
  <2>1. Grows
    BY NextGrows
  <2>2. CASE \E req \in Requests, s \in Sources, body \in Profiles :
                SourceRegister(req, s, body) \/ SourceRegisterAgain(req, s, body)
    BY <2>1, <2>2, RegisterStands
  <2>3. CASE \E req \in Requests, tr \in Traces : TraceCreate(req, tr) \/ TraceCreateAgain(req, tr)
    BY <2>1, <2>3, CreateStands
  <2>4. CASE \E req \in Requests, i \in Imports, b \in Batches :
                ImportStage(req, i, b) \/ ImportStageAgain(req, i, b)
    BY <2>1, <2>4, StageStands
  <2>5. CASE \E req \in Requests, i \in Imports, expected \in 0..MaxRevision :
                ImportCommit(req, i, expected) \/ ImportCommitAgain(req, i, expected)
    BY <2>1, <2>5, CommitStands
  <2>6. CASE \E req \in Requests, i \in Imports :
                ImportCancel(req, i) \/ ImportCancelAgain(req, i)
    BY <2>1, <2>6, CancelStands
  <2>7. CASE \/ \E req \in Requests, i \in Imports : ImportCommitExpired(req, i)
             \/ \E i \in Imports : CommitBroken(i)
             \/ Sweep \/ Open \/ Stop \/ Tick \/ UNCHANGED vars
    <3>1. idempotency' = idempotency
      BY <2>7 DEF ImportCommitExpired, CommitBroken, Sweep, Open, Stop, Tick, vars
    <3> QED
      BY <2>1, <3>1, UnansweredStand
  <2> QED
    BY <2>2, <2>3, <2>4, <2>5, <2>6, <2>7 DEF Next
<1> QED
  BY <1>1, <1>2, HistoryInvHolds, CommitInvHolds, LogInvHolds, PTL DEF Spec

\* Every stored response stays what the store stands by, and names the entry
\* that made it so: a retry, under its own request id or another's, is never
\* told what is no longer the case.
THEOREM RetriesAreAnswered == Spec => []RetriesStand
<1>1. RetryInv => RetriesStand
  BY DEF RetryInv, RetriesStand
<1> QED
  BY <1>1, RetryInvHolds, PTL

-------------------------------------------------------------------------------
(* ImplementsLedger.  The refinement maps a trace to the list of its revisions *)
(* past 0, each with its import and its steps; that an import adds its steps   *)
(* to those of the entry before needs the head to hold the trace's steps, and  *)
(* revision 0 none.                                                            *)

TheLedger ==
    [tr \in DOMAIN traces |->
        [n \in 1..traces[tr] |->
            [import |-> ImportOf(tr, n), steps |-> revisions[<<tr, n>>].graph.steps]]]

TheOffers == [i \in DOMAIN imports |-> imports[i].batch]

TheFates == [i \in DOMAIN imports |-> imports[i].state]

\* The ledger's actions, told of the store's image.
LEMMA LedgerCreates ==
    ASSUME NEW tr, tr \notin DOMAIN TheLedger,
           TheLedger' = Ledger!With(TheLedger, tr, <<>>),
           TheOffers' = TheOffers, TheFates' = TheFates
    PROVE  Ledger!Create(tr)
BY DEF Ledger!Create, TheLedger, TheOffers, TheFates

LEMMA LedgerOffers ==
    ASSUME NEW i, NEW b, i \notin DOMAIN TheOffers, b.trace \in DOMAIN TheLedger,
           TheOffers' = Ledger!With(TheOffers, i, b),
           TheFates' = Ledger!With(TheFates, i, "STAGED"),
           TheLedger' = TheLedger
    PROVE  Ledger!Offer(i, b)
BY DEF Ledger!Offer, TheLedger, TheOffers, TheFates

LEMMA LedgerCommits ==
    ASSUME NEW i, i \in DOMAIN TheOffers, TheFates[i] = "STAGED",
           TheFates' = [TheFates EXCEPT ![i] = "COMMITTED"],
           TheLedger' = [TheLedger EXCEPT ![TheOffers[i].trace] =
                            Append(@, [import |-> i,
                                       steps |-> Ledger!Contents(@) \cup TheOffers[i].steps])],
           TheOffers' = TheOffers
    PROVE  Ledger!Commit(i)
BY DEF Ledger!Commit, TheLedger, TheOffers, TheFates

LEMMA LedgerCancels ==
    ASSUME NEW S, S # {}, \A i \in S : TheFates[i] = "STAGED",
           TheFates' = [i \in DOMAIN TheFates |-> IF i \in S THEN "CANCELLED" ELSE TheFates[i]],
           TheLedger' = TheLedger, TheOffers' = TheOffers
    PROVE  Ledger!Cancel(S)
BY DEF Ledger!Cancel, TheLedger, TheOffers, TheFates

LEMMA LedgerIdles ==
    ASSUME TheLedger' = TheLedger, TheOffers' = TheOffers, TheFates' = TheFates
    PROVE  UNCHANGED Ledger!ledgerVars
BY DEF Ledger!ledgerVars, TheLedger, TheOffers, TheFates

\* A trace's revision 0 is empty.
EmptyStart == \A tr \in DOMAIN traces : revisions[<<tr, 0>>].graph = EmptyGraph

LEMMA StartStaysEmpty ==
    ASSUME HistoryInv, EmptyStart, [Next]_vars
    PROVE  EmptyStart'
<1>1. TypeOK /\ RevisionsDense /\ RevisionsStay
  BY NextGrows DEF HistoryInv, HistoryAudited, Grows
<1>2. ASSUME NEW tr \in DOMAIN traces PROVE revisions'[<<tr, 0>>].graph = EmptyGraph
  <2>1. traces[tr] \in Nat /\ 0 \in 0..traces[tr]
    BY <1>1 DEF TypeOK, IsTableOf
  <2>2. <<tr, 0>> \in DOMAIN revisions
    BY <1>1, <2>1 DEF RevisionsDense
  <2> QED
    BY <1>1, <2>2 DEF RevisionsStay, EmptyStart
<1>3. CASE IsCommit
  <2>1. DOMAIN traces' = DOMAIN traces
    BY <1>3, CommitEffect DEF IsCommit
  <2> QED
    BY <1>2, <2>1 DEF EmptyStart
<1>4. CASE ~IsCommit
  <2>1. \A tr \in DOMAIN traces' \ DOMAIN traces : revisions'[<<tr, 0>>].graph = EmptyGraph
    BY <1>1, <1>4, QuietHeads
  <2> QED
    BY <1>2, <2>1 DEF EmptyStart
<1> QED
  BY <1>3, <1>4

LedgerInv == ContentInv /\ CommitInv /\ EmptyStart

LEMMA LedgerInvHolds == Spec => []LedgerInv
<1>1. Init => EmptyStart
  BY DEF Init, EmptyTable, EmptyStart
<1>2. HistoryInv /\ EmptyStart /\ [Next]_vars => EmptyStart'
  BY StartStaysEmpty
<1> QED
  BY <1>1, <1>2, HistoryInvHolds, ContentInvHolds, CommitInvHolds, PTL DEF Spec, LedgerInv

\* A revision is made by one import, for its entry names it.
OneImportEach ==
    \A i, j \in Committed :
        /\ imports[i].result.trace = imports[j].result.trace
        /\ imports[i].result.revision = imports[j].result.revision
        => i = j

LEMMA RevisionsHaveOneImport == CommitsAreRevisions => OneImportEach
<1> SUFFICES ASSUME CommitsAreRevisions, NEW i \in Committed, NEW j \in Committed,
                    imports[i].result.trace = imports[j].result.trace,
                    imports[i].result.revision = imports[j].result.revision
             PROVE  i = j
  BY DEF OneImportEach
<1>1. PICK r, s : r = imports[i].result /\ s = imports[j].result
  OBVIOUS
<1>2. audit[r.audit].import = i /\ audit[s.audit].import = j
  BY <1>1 DEF CommitsAreRevisions
<1>3. /\ revisions[<<r.trace, r.revision>>] = [graph |-> r.graph, auditSeq |-> r.audit]
      /\ revisions[<<s.trace, s.revision>>] = [graph |-> s.graph, auditSeq |-> s.audit]
  BY <1>1 DEF CommitsAreRevisions
<1>4. r.audit = s.audit
  BY <1>1, <1>3
<1> QED
  BY <1>2, <1>4

\* The entries of a trace stay as they are.
LEMMA EntriesStay ==
    ASSUME HistoryInv, CommitInv, OneImportEach', Grows,
           NEW tr \in DOMAIN traces, NEW n \in 1..traces[tr]
    PROVE  ImportOf(tr, n)' = ImportOf(tr, n) /\ revisions'[<<tr, n>>] = revisions[<<tr, n>>]
<1>1. traces[tr] \in Nat /\ n \in 0..traces[tr] /\ n > 0
  BY DEF HistoryInv, TypeOK, IsTableOf
<1>2. <<tr, n>> \in DOMAIN revisions
  BY <1>1 DEF HistoryInv, HistoryAudited, RevisionsDense
<1>3. PICK i \in Committed : <<imports[i].result.trace, imports[i].result.revision>> = <<tr, n>>
  BY <1>1, <1>2 DEF CommitInv, CommitsAreRevisions
<1>4. i \in Committed' /\ imports'[i] = imports[i]
  BY <1>3 DEF Grows, ImportsGrow, Committed
<1>5. ImportOf(tr, n) = i
  BY <1>3, RevisionsHaveOneImport DEF CommitInv, OneImportEach, ImportOf
<1>6. ImportOf(tr, n)' = i
  BY <1>3, <1>4 DEF OneImportEach, ImportOf
<1> QED
  BY <1>2, <1>5, <1>6 DEF Grows, RevisionsStay

\* Where no head moves the ledger stays.
LEMMA LedgerStays ==
    ASSUME HistoryInv, CommitInv, OneImportEach', Grows, DOMAIN traces' = DOMAIN traces,
           \A tr \in DOMAIN traces : traces'[tr] = traces[tr]
    PROVE  TheLedger' = TheLedger
BY EntriesStay DEF TheLedger

\* A list with one more element.
LEMMA AppendIs ==
    ASSUME NEW S, NEW list \in Seq(S), NEW x \in S
    PROVE  Append(list, x) =
             [n \in 1..(Len(list) + 1) |-> IF n = Len(list) + 1 THEN x ELSE list[n]]
<1> DEFINE size == Len(list) + 1
           more == [n \in 1..size |-> IF n = size THEN x ELSE list[n]]
<1>1. more \in Seq(S) /\ Len(more) = size
  OBVIOUS
<1>2. /\ Append(list, x) \in Seq(S)
      /\ Len(Append(list, x)) = size
      /\ \A n \in 1..size : Append(list, x)[n] = more[n]
  OBVIOUS
<1> HIDE DEF more
<1>3. Append(list, x) = more
  BY <1>1, <1>2
<1> QED
  BY <1>3 DEF more

\* A commit appends to its trace's entries the import, with what the entry before
\* held and the import's own steps.
LEMMA CommitAppends ==
    ASSUME LedgerInv, LedgerInv', NEW req \in Requests, NEW i \in Imports,
           NEW expected \in 0..MaxRevision, ImportCommit(req, i, expected)
    PROVE  TheLedger' = [TheLedger EXCEPT ![imports[i].batch.trace] =
                            Append(@, [import |-> i,
                                       steps |-> Ledger!Contents(@) \cup imports[i].batch.steps])]
<1>0. PICK b, u, head, next :
          b = imports[i].batch /\ u = b.trace /\ head = traces[u] /\ next = head + 1
  OBVIOUS
<1>1. HistoryInv /\ CommitInv /\ OneImportEach' /\ Grows
  <2>1. HistoryInv /\ CommitInv /\ CommitsAreRevisions'
    BY DEF LedgerInv, ContentInv, CommitInv
  <2>2. CommitsAreRevisions' => OneImportEach'
    BY RevisionsHaveOneImport, PTL
  <2> QED
    BY <2>1, <2>2, CommitGrows
<1>2. /\ u \in DOMAIN traces /\ head \in Nat
      /\ DOMAIN traces' = DOMAIN traces
      /\ \A tr \in DOMAIN traces : traces'[tr] = IF tr = u THEN next ELSE traces[tr]
      /\ \A s \in b.steps : s.trace = u
      /\ revisions'[<<u, next>>] = [graph |-> GraphAfter(b), auditSeq |-> NextSeq]
  BY <1>0, <1>1, CommitEffect
<1>3. /\ i \in DOMAIN imports /\ DOMAIN imports' = DOMAIN imports
      /\ imports'[i] = CommittedRow(imports[i], CommitResult(imports[i].batch))
  BY <1>1, CommitEffect
<1> DEFINE Entry(n) == [import |-> ImportOf(u, n), steps |-> revisions[<<u, n>>].graph.steps]
           list == [n \in 1..head |-> Entry(n)]
           added == [import |-> i, steps |-> TraceSteps(u) \cup b.steps]
           Entries == {Entry(n) : n \in 1..head} \cup {added}
<1>4. list \in Seq(Entries) /\ Len(list) = head /\ added \in Entries
  BY <1>2
<1>5. ImportOf(u, next)' = i
  <2>1. i \in Committed' /\ imports'[i].result.trace = u /\ imports'[i].result.revision = next
    BY <1>0, <1>3 DEF CommittedRow, CommitResult, NextRevision, Committed
  <2> QED
    BY <1>1, <2>1 DEF OneImportEach, ImportOf
<1>6. revisions'[<<u, next>>].graph.steps = TraceSteps(u) \cup b.steps
  <2>1. revisions'[<<u, next>>].graph = GraphAfter(b)
    BY <1>2
  <2>2. GraphAfter(b).steps = {s \in steps \cup b.steps : s.trace = b.trace}
    BY DEF GraphAfter
  <2>3. {s \in steps \cup b.steps : s.trace = b.trace} = TraceSteps(u) \cup b.steps
    BY <1>0, <1>2 DEF TraceSteps
  <2> QED
    BY <2>1, <2>2, <2>3
<1>7. Ledger!Contents(list) = TraceSteps(u)
  <2>1. revisions[<<u, head>>].graph.steps = TraceSteps(u)
    BY <1>0, <1>2 DEF LedgerInv, ContentInv, RevisionsGrow
  <2>2. CASE head = 0
    <3>1. list = <<>>
      BY <1>4, <2>2
    <3>2. revisions[<<u, 0>>].graph.steps = {}
      BY <1>2 DEF LedgerInv, EmptyStart, EmptyGraph
    <3> QED
      BY <2>1, <2>2, <3>1, <3>2 DEF Ledger!Contents
  <2>3. CASE head > 0
    <3>1. list # <<>> /\ list[Len(list)] = Entry(head)
      <4>1. list[head] = Entry(head) /\ Len(<<>>) = 0
        BY <1>2, <2>3
      <4> HIDE DEF list, Entry, Entries
      <4> QED
        BY <1>4, <2>3, <4>1
    <3>2. Entry(head).steps = TraceSteps(u)
      BY <2>1
    <3> HIDE DEF list, Entry
    <3> QED
      BY <3>1, <3>2 DEF Ledger!Contents
  <2> QED
    BY <1>2, <2>2, <2>3
<1>8. TheLedger[u] = list /\ DOMAIN TheLedger = DOMAIN traces
  BY <1>0, <1>2 DEF TheLedger
<1>9. TheLedger'[u] = Append(list, added)
  <2>1. Append(list, added) = [n \in 1..next |-> IF n = next THEN added ELSE list[n]]
    <3> HIDE DEF list, added, Entries
    <3> QED
      BY <1>0, <1>4, AppendIs
  <2>2. TheLedger'[u] =
          [n \in 1..next |->
              [import |-> ImportOf(u, n)', steps |-> revisions'[<<u, n>>].graph.steps]]
    BY <1>2 DEF TheLedger
  <2>3. ASSUME NEW n \in 1..next
        PROVE  [import |-> ImportOf(u, n)', steps |-> revisions'[<<u, n>>].graph.steps] =
                  IF n = next THEN added ELSE list[n]
    <3>1. CASE n = next
      BY <1>5, <1>6, <3>1
    <3>2. CASE n # next
      <4>1. n \in 1..traces[u]
        BY <1>0, <1>2, <3>2
      <4>2. ImportOf(u, n)' = ImportOf(u, n) /\ revisions'[<<u, n>>] = revisions[<<u, n>>]
        BY <1>1, <1>2, <4>1, EntriesStay
      <4> QED
        BY <1>0, <3>2, <4>1, <4>2
    <3> QED
      BY <3>1, <3>2
  <2> HIDE DEF list, added
  <2> QED
    BY <2>1, <2>2, <2>3
<1>10. ASSUME NEW tr \in DOMAIN traces, tr # u PROVE TheLedger'[tr] = TheLedger[tr]
  <2>1. /\ TheLedger'[tr] =
             [n \in 1..traces[tr] |->
                 [import |-> ImportOf(tr, n)', steps |-> revisions'[<<tr, n>>].graph.steps]]
        /\ TheLedger[tr] =
             [n \in 1..traces[tr] |->
                 [import |-> ImportOf(tr, n), steps |-> revisions[<<tr, n>>].graph.steps]]
    BY <1>2, <1>10 DEF TheLedger
  <2> QED
    BY <1>1, <1>10, <2>1, EntriesStay
<1>11. /\ TheLedger' = [tr \in DOMAIN traces |-> TheLedger'[tr]]
       /\ TheLedger = [tr \in DOMAIN traces |-> TheLedger[tr]]
  BY <1>2 DEF TheLedger
<1> HIDE DEF list
<1> QED
  BY <1>0, <1>2, <1>7, <1>8, <1>9, <1>10, <1>11

\* Where only imports are decided, the ledger cancels them.
LEMMA DecidedCancels ==
    ASSUME HistoryInv, CommitInv, OneImportEach', Grows, traces' = traces,
           NEW S, S # {}, S \subseteq DOMAIN imports,
           \A i \in S : imports[i].state = "STAGED" /\ imports'[i].state = "CANCELLED",
           DOMAIN imports' = DOMAIN imports,
           \A i \in DOMAIN imports \ S : imports'[i] = imports[i]
    PROVE  Ledger!Cancel(S)
<1>1. TheLedger' = TheLedger
  BY LedgerStays
<1>2. TheOffers' = TheOffers
  BY DEF TheOffers, Grows, ImportsGrow
<1>3. /\ \A i \in S : TheFates[i] = "STAGED"
      /\ TheFates' = [i \in DOMAIN TheFates |-> IF i \in S THEN "CANCELLED" ELSE TheFates[i]]
  BY DEF TheFates
<1> QED
  BY <1>1, <1>2, <1>3, LedgerCancels

\* Every step of the store is a step of the ledger, or none.
LEMMA NextIsLedgerNext ==
    LedgerInv /\ LedgerInv' /\ [Next]_vars => [Ledger!LedgerNext]_(Ledger!ledgerVars)
<1> SUFFICES ASSUME LedgerInv, LedgerInv', [Next]_vars
             PROVE  Ledger!LedgerNext \/ UNCHANGED Ledger!ledgerVars
  OBVIOUS
<1>1. HistoryInv /\ CommitInv /\ OneImportEach' /\ Grows
  <2>1. HistoryInv /\ CommitInv /\ CommitsAreRevisions'
    BY DEF LedgerInv, ContentInv, CommitInv
  <2>2. CommitsAreRevisions' => OneImportEach'
    BY RevisionsHaveOneImport, PTL
  <2> QED
    BY <2>1, <2>2, NextGrows
<1>2. ASSUME NEW req \in Requests, NEW tr \in Traces, TraceCreate(req, tr)
      PROVE  Ledger!LedgerNext
  <2>1. /\ tr \notin DOMAIN traces
        /\ DOMAIN traces' = DOMAIN traces \cup {tr}
        /\ traces'[tr] = 0
        /\ \A u \in DOMAIN traces : traces'[u] = traces[u]
        /\ imports' = imports
    BY <1>2 DEF TraceCreate, Put
  <2>2. TheLedger' = Ledger!With(TheLedger, tr, <<>>)
    <3>1. TheLedger'[tr] = <<>>
      BY <2>1 DEF TheLedger
    <3>2. \A u \in DOMAIN traces : TheLedger'[u] = TheLedger[u]
      BY <1>1, <2>1, EntriesStay DEF TheLedger
    <3>3. /\ TheLedger' = [u \in DOMAIN traces \cup {tr} |-> TheLedger'[u]]
          /\ DOMAIN TheLedger = DOMAIN traces
      BY <2>1 DEF TheLedger
    <3> QED
      BY <2>1, <3>1, <3>2, <3>3 DEF Ledger!With
  <2>3. TheOffers' = TheOffers /\ TheFates' = TheFates /\ tr \notin DOMAIN TheLedger
    BY <2>1 DEF TheOffers, TheFates, TheLedger
  <2> QED
    BY <2>2, <2>3, LedgerCreates DEF Ledger!LedgerNext
<1>3. ASSUME NEW req \in Requests, NEW i \in Imports, NEW b \in Batches,
             ImportStage(req, i, b)
      PROVE  Ledger!LedgerNext
  <2>1. PICK t \in Readings :
            imports' = Put(imports, i, [state |-> "STAGED", batch |-> b,
                                        expires |-> Seconds(t) + StageTtl])
    BY <1>3 DEF ImportStage
  <2>2. /\ i \notin DOMAIN imports
        /\ DOMAIN imports' = DOMAIN imports \cup {i}
        /\ imports'[i].state = "STAGED" /\ imports'[i].batch = b
        /\ \A j \in DOMAIN imports : imports'[j] = imports[j]
        /\ traces' = traces
        /\ b.trace \in DOMAIN traces
    BY <1>3, <2>1 DEF ImportStage, Stageable, Put
  <2>3. TheLedger' = TheLedger /\ b.trace \in DOMAIN TheLedger
    BY <1>1, <2>2, LedgerStays DEF TheLedger
  <2>4. /\ i \notin DOMAIN TheOffers
        /\ TheOffers' = Ledger!With(TheOffers, i, b)
    BY <2>2 DEF TheOffers, Ledger!With
  <2>5. TheFates' = Ledger!With(TheFates, i, "STAGED")
    BY <2>2 DEF TheFates, Ledger!With
  <2> QED
    BY <2>3, <2>4, <2>5, LedgerOffers DEF Ledger!LedgerNext
<1>4. ASSUME NEW req \in Requests, NEW i \in Imports, NEW expected \in 0..MaxRevision,
             ImportCommit(req, i, expected)
      PROVE  Ledger!LedgerNext
  <2>1. /\ i \in DOMAIN imports /\ imports[i].state = "STAGED"
        /\ DOMAIN imports' = DOMAIN imports
        /\ \A j \in DOMAIN imports : j # i => imports'[j] = imports[j]
    BY <1>1, <1>4, CommitEffect
  <2>2. imports'[i].state = "COMMITTED" /\ imports'[i].batch = imports[i].batch
    BY <1>4 DEF ImportCommit, Put, CommittedRow
  <2>3. /\ i \in DOMAIN TheOffers /\ TheFates[i] = "STAGED"
        /\ TheFates' = [TheFates EXCEPT ![i] = "COMMITTED"]
    BY <2>1, <2>2 DEF TheFates, TheOffers
  <2>4. TheOffers' = TheOffers /\ TheOffers[i] = imports[i].batch
    BY <2>1, <2>2 DEF TheOffers
  <2>5. Ledger!Commit(i)
    BY <1>4, <2>3, <2>4, CommitAppends, LedgerCommits
  <2> QED
    BY <2>5 DEF Ledger!LedgerNext
<1>5. ASSUME NEW S, S # {}, S \subseteq DOMAIN imports, Ledger!Cancel(S)
      PROVE  Ledger!LedgerNext
  BY <1>5 DEF Ledger!LedgerNext
<1>6. ASSUME NEW req \in Requests, NEW i \in Imports,
             ImportCommitExpired(req, i) \/ ImportCancel(req, i)
      PROVE  Ledger!LedgerNext
  <2>1. /\ i \in DOMAIN imports /\ imports[i].state = "STAGED"
        /\ DOMAIN imports' = DOMAIN imports
        /\ imports'[i].state = "CANCELLED"
        /\ \A j \in DOMAIN imports \ {i} : imports'[j] = imports[j]
        /\ traces' = traces
    BY <1>6 DEF ImportCommitExpired, CommitExpires, ImportCancel, Undecided, Put, CancelledRow
  <2>2. Ledger!Cancel({i})
    BY <1>1, <2>1, DecidedCancels
  <2> QED
    BY <1>5, <2>1, <2>2
<1>7. CASE Sweep
  <2>1. /\ Expired # {} /\ Expired \subseteq DOMAIN imports
        /\ \A i \in Expired : imports[i].state = "STAGED" /\ imports'[i].state = "CANCELLED"
        /\ DOMAIN imports' = DOMAIN imports
        /\ \A i \in DOMAIN imports \ Expired : imports'[i] = imports[i]
        /\ traces' = traces
    BY <1>7 DEF Sweep, Expired, SweepExpires, CancelledRow
  <2>2. PICK S : S = Expired
    OBVIOUS
  <2>3. Ledger!Cancel(S)
    BY <1>1, <2>1, <2>2, DecidedCancels
  <2> QED
    BY <1>5, <2>1, <2>2, <2>3
<1>8. CASE \/ \E req \in Requests, s \in Sources, body \in Profiles :
                 SourceRegister(req, s, body) \/ SourceRegisterAgain(req, s, body)
           \/ \E req \in Requests, tr \in Traces : TraceCreateAgain(req, tr)
           \/ \E req \in Requests, i \in Imports, b \in Batches : ImportStageAgain(req, i, b)
           \/ \E req \in Requests, i \in Imports, expected \in 0..MaxRevision :
                 ImportCommitAgain(req, i, expected)
           \/ \E req \in Requests, i \in Imports : ImportCancelAgain(req, i)
           \/ \E i \in Imports : CommitBroken(i)
           \/ Open \/ Stop \/ Tick \/ UNCHANGED vars
  <2>1. traces' = traces /\ imports' = imports
    BY <1>8 DEF SourceRegister, SourceRegisterAgain, TraceCreateAgain, ImportStageAgain,
       ImportCommitAgain, ImportCancelAgain, CommitBroken, Open, Stop, Tick, vars
  <2>2. TheLedger' = TheLedger
    BY <1>1, <2>1, LedgerStays
  <2>3. TheOffers' = TheOffers /\ TheFates' = TheFates
    BY <2>1 DEF TheOffers, TheFates
  <2> QED
    BY <2>2, <2>3, LedgerIdles
<1> QED
  BY <1>2, <1>3, <1>4, <1>6, <1>7, <1>8 DEF Next

\* The store implements the ledger: whatever the interleaving of clients, retries,
\* sweeps and crashes, a trace's revisions are the committed imports in one order,
\* each holding the one before, and an import is offered once and decided once.
THEOREM StoreIsLedger == Spec => ImplementsLedger
<1>1. Init => Ledger!LedgerInit
  BY DEF Init, EmptyTable, Ledger!LedgerInit
<1> QED
  BY <1>1, NextIsLedgerNext, LedgerInvHolds, PTL DEF Spec, ImplementsLedger, Ledger!LedgerSpec

===============================================================================
