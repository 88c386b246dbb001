----------------------------- MODULE RecoveryProofs -----------------------------
(***************************************************************************)
(* Proofs about Recovery and Retention, for any traces, artifacts, imports  *)
(* and bounds.                                                             *)
(***************************************************************************)
EXTENDS Recovery, FiniteSetTheorems, TLAPS

(* Tables. *)

Row == [refs : SUBSET Digests, pruned : BOOLEAN]
Revisions == Seq(Row)
Stages == [Imports -> [state : {"NEW", "STAGED", "DECIDED"}, expires : Int]]
Leases == [trace : Traces, revision : Nat, expires : Int]
Rows == [Digests -> ArtifactRows \cup {NoRow}]

\* The tables of a database have their types.
LEMMA DbFields ==
    ASSUME NEW x \in Databases
    PROVE  /\ x.revisions \in [Traces -> Revisions]
           /\ x.rows \in Rows
           /\ x.imports \in Stages
           /\ x.leases \subseteq Leases
           /\ x.log \in Seq(Entries)
BY DEF Databases, Row, Revisions, Stages, Leases, Rows

\* A database is what its tables are.
LEMMA DbMade ==
    ASSUME NEW revisions \in [Traces -> Revisions], NEW rows \in Rows, NEW imports \in Stages,
           NEW leases \in SUBSET Leases, NEW log \in Seq(Entries)
    PROVE  [revisions |-> revisions, rows |-> rows, imports |-> imports, leases |-> leases,
            log |-> log] \in Databases
BY DEF Databases, Row, Revisions, Stages, Leases, Rows

\* A sequence more by one element.
LEMMA Appended ==
    ASSUME NEW S, NEW s \in Seq(S), NEW x \in S
    PROVE  /\ Append(s, x) \in Seq(S)
           /\ Len(Append(s, x)) = Len(s) + 1
           /\ \A n \in DOMAIN s : Append(s, x)[n] = s[n]
           /\ Append(s, x)[Len(s) + 1] = x
OBVIOUS

\* The elements of a sequence.
LEMMA Elements ==
    ASSUME NEW S, NEW s \in Seq(S)
    PROVE  /\ Len(s) \in Nat
           /\ DOMAIN s = 1..Len(s)
           /\ \A n \in DOMAIN s : s[n] \in S
           /\ s # <<>> => Len(s) \in DOMAIN s
OBVIOUS

\* A function on the first numbers is a sequence.
LEMMA Listed ==
    ASSUME NEW S, NEW n \in Nat, NEW f \in [1..n -> S]
    PROVE  f \in Seq(S) /\ Len(f) = n
OBVIOUS

(* What the operations do to the tables.  A staged import has a trace, and a *)
(* lease a revision: without that an operation would not be well defined.   *)

ImportsTraced(x) ==
    \A i \in Imports : x.imports[i].state # "NEW" => x.revisions[Batch[i].trace] # <<>>

LeasesGrounded(x) == \A l \in x.leases : l.revision + 1 \in DOMAIN x.revisions[l.trace]

Typed ==
    /\ TypeOK
    /\ ImportsTraced(db) /\ LeasesGrounded(db)
    /\ backup # NoBackup => ImportsTraced(backup.db) /\ LeasesGrounded(backup.db)

\* Entries of the kinds that prune nothing.
Quiet == {e \in Entries : e.kind # "RetentionPruned"}

LEMMA QuietEntries ==
    ASSUME Typed
    PROVE  /\ [kind |-> "WorkspaceCreated", epoch |-> epoch] \in Quiet
           /\ \A t \in Traces : [kind |-> "TraceCreated", epoch |-> epoch, trace |-> t] \in Quiet
           /\ \A i \in Imports : /\ [kind |-> "ImportStaged", epoch |-> epoch, import |-> i] \in Quiet
                                 /\ [kind |-> "ImportCancelled", epoch |-> epoch, import |-> i] \in Quiet
           /\ \A i \in Imports, t \in Traces, r \in Nat :
                 [kind |-> "ImportCommitted", epoch |-> epoch, import |-> i, trace |-> t,
                  revision |-> r] \in Quiet
<1>1. epoch \in Nat
  BY BoundsAssumption DEF Typed, TypeOK
<1> QED
  BY <1>1 DEF Quiet, Entries

LEMMA GenesisEffect ==
    ASSUME Typed, Genesis
    PROVE  /\ db' \in Databases
           /\ UNCHANGED <<db.revisions, db.rows, db.imports, db.leases>>
           /\ \E e \in Quiet : db'.log = Append(db.log, e)
<1>1. db \in Databases
  BY DEF Typed, TypeOK
<1> DEFINE e == [kind |-> "WorkspaceCreated", epoch |-> epoch]
<1>2. e \in Quiet /\ e \in Entries
  BY QuietEntries DEF Quiet
<1>3. Append(db.log, e) \in Seq(Entries)
  BY <1>1, <1>2, DbFields
<1>4. db' = [revisions |-> db.revisions, rows |-> db.rows, imports |-> db.imports,
              leases |-> db.leases, log |-> Append(db.log, e)]
  BY <1>1 DEF Genesis, Log, Databases
<1> HIDE DEF e
<1>5. /\ db' \in Databases /\ db'.revisions = db.revisions /\ db'.rows = db.rows
      /\ db'.imports = db.imports /\ db'.leases = db.leases /\ db'.log = Append(db.log, e)
  BY <1>1, <1>3, <1>4, DbFields, DbMade
<1> QED
  BY <1>2, <1>5

LEMMA TraceCreateEffect ==
    ASSUME Typed, NEW t \in Traces, TraceCreate(t)
    PROVE  /\ db' \in Databases
           /\ db.revisions[t] = <<>>
           /\ db'.revisions = [db.revisions EXCEPT ![t] = <<[refs |-> {}, pruned |-> FALSE]>>]
           /\ UNCHANGED <<db.rows, db.imports, db.leases>>
           /\ \E e \in Quiet : db'.log = Append(db.log, e)
<1>1. db \in Databases
  BY DEF Typed, TypeOK
<1> DEFINE e == [kind |-> "TraceCreated", epoch |-> epoch, trace |-> t]
           r == [db.revisions EXCEPT ![t] = <<[refs |-> {}, pruned |-> FALSE]>>]
<1>2. e \in Quiet /\ e \in Entries
  BY QuietEntries DEF Quiet
<1>3. Append(db.log, e) \in Seq(Entries) /\ r \in [Traces -> Revisions]
  <2>1. <<[refs |-> {}, pruned |-> FALSE]>> \in Revisions
    BY DEF Revisions, Row
  <2>2. db.revisions \in [Traces -> Revisions] /\ db.log \in Seq(Entries)
    BY <1>1, DbFields
  <2> HIDE DEF e
  <2> QED
    BY <1>2, <2>1, <2>2
<1>4. db' = [revisions |-> r, rows |-> db.rows, imports |-> db.imports,
              leases |-> db.leases, log |-> Append(db.log, e)]
  BY <1>1 DEF TraceCreate, Log, Databases
<1>6. db.revisions[t] = <<>>
  BY DEF TraceCreate
<1> HIDE DEF e, r
<1>5. /\ db' \in Databases /\ db'.revisions = r /\ db'.rows = db.rows
      /\ db'.imports = db.imports /\ db'.leases = db.leases /\ db'.log = Append(db.log, e)
  BY <1>1, <1>3, <1>4, DbFields, DbMade
<1> QED
  BY <1>2, <1>5, <1>6 DEF r

LEMMA ImportStageEffect ==
    ASSUME Typed, NEW i \in Imports, ImportStage(i)
    PROVE  /\ db' \in Databases
           /\ \A j \in Imports \ {i} : db'.imports[j] = db.imports[j]
           /\ db.revisions[Batch[i].trace] # <<>>
           /\ UNCHANGED <<db.revisions, db.rows, db.leases>>
           /\ \E e \in Quiet : db'.log = Append(db.log, e)
<1>1. db \in Databases /\ time \in Int
  BY DEF Typed, TypeOK
<1> DEFINE e == [kind |-> "ImportStaged", epoch |-> epoch, import |-> i]
           stage == [state |-> "STAGED", expires |-> time + StageTtl]
           imports == [db.imports EXCEPT ![i] = stage]
<1>2. e \in Quiet /\ e \in Entries
  BY QuietEntries DEF Quiet
<1>3. stage \in [state : {"NEW", "STAGED", "DECIDED"}, expires : Int]
  BY <1>1, NumberAssumption
<1>4. db.imports \in Stages /\ db.log \in Seq(Entries)
  BY <1>1, DbFields
<1>5. db' = [revisions |-> db.revisions, rows |-> db.rows, imports |-> imports,
             leases |-> db.leases, log |-> Append(db.log, e)]
  BY <1>1 DEF ImportStage, Log, Databases
<1>6. db.revisions[Batch[i].trace] # <<>>
  BY DEF ImportStage
<1> HIDE DEF e, stage
<1>7. Append(db.log, e) \in Seq(Entries)
  BY <1>2, <1>4
<1>8. imports \in Stages /\ \A j \in Imports \ {i} : imports[j] = db.imports[j]
  BY <1>3, <1>4 DEF Stages
<1> HIDE DEF imports
<1>9. /\ db' \in Databases /\ db'.revisions = db.revisions /\ db'.rows = db.rows
      /\ db'.imports = imports /\ db'.leases = db.leases /\ db'.log = Append(db.log, e)
  BY <1>1, <1>5, <1>7, <1>8, DbFields, DbMade
<1> QED
  BY <1>2, <1>6, <1>8, <1>9

\* The rows of a commit.
Committed(b) ==
    [d \in Digests |-> IF d \in NewRows(b) THEN [state |-> "AVAILABLE", created |-> time]
                       ELSE db.rows[d]]

LEMMA ImportCommitEffect ==
    ASSUME Typed, NEW i \in Staged, ImportCommit(i)
    PROVE  /\ db' \in Databases
           /\ db.revisions[Batch[i].trace] # <<>>
           /\ \E refs \in SUBSET Digests :
                 db'.revisions = [db.revisions EXCEPT ![Batch[i].trace] =
                                     Append(@, [refs |-> refs, pruned |-> FALSE])]
           /\ db'.rows = Committed(Batch[i])
           /\ \A j \in Imports \ {i} : db'.imports[j] = db.imports[j]
           /\ UNCHANGED db.leases
           /\ \E e \in Quiet : db'.log = Append(db.log, e)
<1> DEFINE b == Batch[i]
           t == b.trace
           refs == Referred(t) \cup b.refs
           e == [kind |-> "ImportCommitted", epoch |-> epoch, import |-> i, trace |-> t,
                 revision |-> Current(t) + 1]
           revisions == [db.revisions EXCEPT ![t] = Append(@, [refs |-> refs, pruned |-> FALSE])]
           imports == [db.imports EXCEPT ![i].state = "DECIDED"]
<1>1. db \in Databases /\ time \in Int /\ i \in Imports
  BY DEF Typed, TypeOK, Staged
<1>2. /\ db.revisions \in [Traces -> Revisions] /\ db.rows \in Rows /\ db.imports \in Stages
      /\ db.leases \subseteq Leases /\ db.log \in Seq(Entries)
  BY <1>1, DbFields
<1>3. t \in Traces /\ b.refs \subseteq Digests /\ b.supplied \subseteq Digests
  BY <1>1, BatchAssumption
<1>4. db.revisions[t] # <<>>
  BY <1>1 DEF Typed, ImportsTraced, Staged
<1>5. Len(db.revisions[t]) \in Nat /\ Len(db.revisions[t]) \in DOMAIN db.revisions[t]
  BY <1>2, <1>3, <1>4 DEF Revisions
<1>6. refs \in SUBSET Digests
  <2>1. Revision(t, Current(t)) = db.revisions[t][Len(db.revisions[t])]
    BY <1>5 DEF Revision, Current
  <2>2. db.revisions[t] \in Seq(Row)
    BY <1>2, <1>3 DEF Revisions
  <2>3. db.revisions[t][Len(db.revisions[t])] \in Row
    BY <1>5, <2>2, Elements
  <2> QED
    BY <1>3, <2>1, <2>3 DEF Referred, Row
<1>7. Current(t) + 1 \in Nat
  BY <1>5 DEF Current
<1>8. e \in Quiet /\ e \in Entries
  BY <1>1, <1>3, <1>7, QuietEntries DEF Quiet
<1>9. db' = [revisions |-> revisions, rows |-> Committed(b), imports |-> imports,
             leases |-> db.leases, log |-> Append(db.log, e)]
  BY <1>1 DEF ImportCommit, Log, Databases, Committed
<1> HIDE DEF b, refs, e
<1>10. Append(db.log, e) \in Seq(Entries)
  BY <1>2, <1>8
<1>11. revisions \in [Traces -> Revisions]
  <2>1. db.revisions[t] \in Seq(Row) /\ [refs |-> refs, pruned |-> FALSE] \in Row
    BY <1>2, <1>3, <1>6 DEF Revisions, Row
  <2>2. Append(db.revisions[t], [refs |-> refs, pruned |-> FALSE]) \in Revisions
    BY <2>1, Appended DEF Revisions
  <2> QED
    BY <1>2, <1>3, <2>2
<1>12. Committed(b) \in Rows
  BY <1>1, <1>2 DEF Committed, Rows, ArtifactRows
<1>13. imports \in Stages /\ \A j \in Imports \ {i} : imports[j] = db.imports[j]
  BY <1>1, <1>2 DEF Stages
<1> HIDE DEF imports
<1>14. /\ db' \in Databases /\ db'.revisions = revisions /\ db'.rows = Committed(b)
       /\ db'.imports = imports /\ db'.leases = db.leases /\ db'.log = Append(db.log, e)
  <2> HIDE DEF revisions
  <2> QED
    BY <1>2, <1>9, <1>10, <1>11, <1>12, <1>13, DbMade
<1> QED
  BY <1>4, <1>6, <1>8, <1>13, <1>14 DEF b

LEMMA SweepEffect ==
    ASSUME Typed, Sweep
    PROVE  /\ db' \in Databases
           /\ \A j \in Imports : db'.imports[j].state # "NEW" => db.imports[j].state # "NEW"
           /\ UNCHANGED <<db.revisions, db.rows, db.leases>>
           /\ \E s \in Seq(Quiet) : db'.log = db.log \o s
<1>1. PICK s \in Cancellations :
         db' = [db EXCEPT
                  !.imports = [i \in Imports |-> IF i \in Expired
                                                 THEN [@[i] EXCEPT !.state = "DECIDED"] ELSE @[i]],
                  !.log = @ \o s]
  BY DEF Sweep
<1>2. db \in Databases
  BY DEF Typed, TypeOK
<1>3. db.imports \in Stages /\ db.log \in Seq(Entries)
  BY <1>2, DbFields
<1> DEFINE imports == [i \in Imports |-> IF i \in Expired
                                         THEN [db.imports[i] EXCEPT !.state = "DECIDED"]
                                         ELSE db.imports[i]]
<1>4. s \in Seq(Quiet)
  <2>1. Expired \subseteq Imports /\ IsFiniteSet(Expired)
    BY BatchAssumption, FS_Subset DEF Expired, Staged
  <2>2. Cardinality(Expired) \in Nat
    BY <2>1, FS_CardinalityType
  <2>3. PICK order \in [1..Cardinality(Expired) -> Expired] :
           s = [n \in DOMAIN order |-> [kind |-> "ImportCancelled", epoch |-> epoch,
                                        import |-> order[n]]]
    BY DEF Cancellations
  <2>4. \A n \in 1..Cardinality(Expired) : s[n] \in Quiet
    BY <2>1, <2>3, QuietEntries
  <2>5. DOMAIN s = 1..Cardinality(Expired) /\ s = [n \in 1..Cardinality(Expired) |-> s[n]]
    BY <2>3
  <2> HIDE DEF Expired
  <2> QED
    BY <2>2, <2>4, <2>5
<1>5. s \in Seq(Entries)
  BY <1>4 DEF Quiet
<1>6. /\ imports \in Stages
      /\ \A j \in Imports : imports[j].state # "NEW" => db.imports[j].state # "NEW"
  BY <1>3 DEF Stages, Expired, Staged
<1>7. db' = [revisions |-> db.revisions, rows |-> db.rows, imports |-> imports,
             leases |-> db.leases, log |-> db.log \o s]
  BY <1>1, <1>2 DEF Databases
<1>8. db.log \o s \in Seq(Entries)
  BY <1>3, <1>5
<1> HIDE DEF imports
<1>9. /\ db' \in Databases /\ db'.revisions = db.revisions /\ db'.rows = db.rows
      /\ db'.imports = imports /\ db'.leases = db.leases /\ db'.log = db.log \o s
  BY <1>2, <1>6, <1>7, <1>8, DbFields, DbMade
<1> QED
  BY <1>4, <1>6, <1>9

LEMMA ExportCutEffect ==
    ASSUME Typed, NEW t \in Traces, NEW r \in 0..Current(t), ExportCut(t, r)
    PROVE  /\ db' \in Databases
           /\ r + 1 \in DOMAIN db.revisions[t]
           /\ \E expires \in Int :
                 db'.leases = db.leases \cup {[trace |-> t, revision |-> r, expires |-> expires]}
           /\ UNCHANGED <<db.revisions, db.rows, db.imports, db.log>>
<1>1. db \in Databases /\ time + LeaseTime \in Int
  BY NumberAssumption DEF Typed, TypeOK
<1> DEFINE l == [trace |-> t, revision |-> r, expires |-> time + LeaseTime]
<1>2. r + 1 \in DOMAIN db.revisions[t] /\ r \in Nat
  <2>1. db.revisions[t] \in Revisions
    BY <1>1, DbFields
  <2> QED
    BY <2>1 DEF Current, Revisions
<1>3. db' = [revisions |-> db.revisions, rows |-> db.rows, imports |-> db.imports,
             leases |-> db.leases \cup {l}, log |-> db.log]
  BY <1>1 DEF ExportCut, Databases
<1>4. db.leases \cup {l} \in SUBSET Leases
  BY <1>1, <1>2, DbFields DEF Leases
<1>5. /\ db' \in Databases /\ db'.revisions = db.revisions /\ db'.rows = db.rows
      /\ db'.imports = db.imports /\ db'.leases = db.leases \cup {l} /\ db'.log = db.log
  <2> HIDE DEF l
  <2> QED
    BY <1>1, <1>3, <1>4, DbFields, DbMade
<1> QED
  BY <1>1, <1>2, <1>5

\* A trace after a prune.
Thinned(t, before) ==
    [n \in DOMAIN db.revisions[t] |->
        IF n - 1 \in PlannedRevisions(t, before) THEN [db.revisions[t][n] EXCEPT !.pruned = TRUE]
        ELSE db.revisions[t][n]]

\* The rows after it.
Cleared(t) ==
    [d \in Digests |-> IF d \in PlannedArtifacts(t) THEN [db.rows[d] EXCEPT !.state = "PRUNED"]
                       ELSE db.rows[d]]

\* What a plan takes is there to be taken.
LEMMA PlanTyped ==
    ASSUME Typed, NEW t \in Traces, NEW before
    PROVE  /\ PlannedRevisions(t, before) \subseteq Nat
           /\ \A r \in PlannedRevisions(t, before) :
                 /\ r + 1 \in DOMAIN db.revisions[t]
                 /\ ~db.revisions[t][r + 1].pruned
                 /\ r + 1 < Len(db.revisions[t])
                 /\ r + HistoryRevisions < Len(db.revisions[t])
           /\ PlannedArtifacts(t) \subseteq Digests
           /\ \A d \in PlannedArtifacts(t) :
                 db.rows[d] \in ArtifactRows /\ db.rows[d].state = "AVAILABLE"
<1>1. db \in Databases
  BY DEF Typed, TypeOK
<1>2. db.revisions[t] \in Seq(Row) /\ db.rows \in Rows
  BY <1>1, DbFields DEF Revisions
<1>3. Len(db.revisions[t]) \in Nat /\ DOMAIN db.revisions[t] = 1..Len(db.revisions[t])
  BY <1>2, Elements
<1>4. ASSUME NEW r \in PlannedRevisions(t, before)
      PROVE  /\ r \in Nat /\ r + 1 \in DOMAIN db.revisions[t]
             /\ ~db.revisions[t][r + 1].pruned
             /\ r + 1 < Len(db.revisions[t])
             /\ r + HistoryRevisions < Len(db.revisions[t])
  <2>1. /\ r \in 0..Len(db.revisions[t]) - 1 - 1
        /\ ~db.revisions[t][r + 1].pruned
        /\ r < Len(db.revisions[t]) - 1 - HistoryRevisions + 1
    BY DEF PlannedRevisions, Superseded, Current, KeepFrom, Revision
  <2> QED
    BY <1>3, <2>1, NumberAssumption
<1>5. ASSUME NEW d \in PlannedArtifacts(t)
      PROVE  d \in Digests /\ db.rows[d] \in ArtifactRows /\ db.rows[d].state = "AVAILABLE"
  BY <1>2 DEF PlannedArtifacts, Aged, Available, Rows
<1> QED
  BY <1>4, <1>5

\* The entry of a prune.
PruneEntry(t, before) ==
    [kind |-> "RetentionPruned", epoch |-> epoch, trace |-> t,
     revisions |-> PlannedRevisions(t, before), artifacts |-> PlannedArtifacts(t)]

LEMMA PruneEffect ==
    ASSUME Typed, NEW t \in Traces, NEW before, Prune(t, before)
    PROVE  /\ db' \in Databases
           /\ db'.revisions = [db.revisions EXCEPT ![t] = Thinned(t, before)]
           /\ db'.rows = Cleared(t)
           /\ UNCHANGED <<db.imports, db.leases>>
           /\ PruneEntry(t, before) \in Entries
           /\ db'.log = Append(db.log, PruneEntry(t, before))
<1> DEFINE e == PruneEntry(t, before)
           revisions == [db.revisions EXCEPT ![t] = Thinned(t, before)]
<1>1. db \in Databases /\ epoch \in Nat
  BY BoundsAssumption DEF Typed, TypeOK
<1>2. /\ db.revisions \in [Traces -> Revisions] /\ db.rows \in Rows /\ db.imports \in Stages
      /\ db.leases \in SUBSET Leases /\ db.log \in Seq(Entries)
  BY <1>1, DbFields
<1>3. db.revisions[t] \in Seq(Row)
  BY <1>2 DEF Revisions
<1>4. e \in Entries
  BY <1>1, PlanTyped DEF Entries, PruneEntry
<1>5. Thinned(t, before) \in Revisions
  <2>1. /\ Len(db.revisions[t]) \in Nat /\ DOMAIN db.revisions[t] = 1..Len(db.revisions[t])
        /\ \A n \in DOMAIN db.revisions[t] : db.revisions[t][n] \in Row
    BY <1>3, Elements
  <2>2. \A n \in DOMAIN db.revisions[t] : Thinned(t, before)[n] \in Row
    BY <2>1 DEF Thinned, Row
  <2>3. Thinned(t, before) \in [1..Len(db.revisions[t]) -> Row]
    BY <2>1, <2>2 DEF Thinned
  <2> QED
    BY <2>1, <2>2, <2>3, Listed DEF Revisions
<1>6. revisions \in [Traces -> Revisions]
  BY <1>2, <1>5
<1>7. Cleared(t) \in Rows
  BY <1>2, PlanTyped DEF Cleared, Rows, ArtifactRows
<1>8. db' = [revisions |-> revisions, rows |-> Cleared(t), imports |-> db.imports,
             leases |-> db.leases, log |-> Append(db.log, e)]
  BY <1>1 DEF Prune, Log, Databases, Thinned, Cleared, PruneEntry
<1> HIDE DEF revisions
<1>9. /\ db' \in Databases /\ db'.revisions = revisions /\ db'.rows = Cleared(t)
      /\ db'.imports = db.imports /\ db'.leases = db.leases /\ db'.log = Append(db.log, e)
  <2> HIDE DEF e
  <2>1. Append(db.log, e) \in Seq(Entries)
    BY <1>2, <1>4, Appended
  <2> QED
    BY <1>2, <1>6, <1>7, <1>8, <2>1, DbMade
<1> QED
  BY <1>4, <1>9 DEF revisions

(* The invariance of Typed. *)

\* No operation takes a revision from a trace.
Grows(x, y) == \A t \in Traces : DOMAIN x.revisions[t] \subseteq DOMAIN y.revisions[t]

LEMMA GrowingKeepsGround ==
    ASSUME NEW x \in Databases, NEW y \in Databases, Grows(x, y), y.leases = x.leases,
           ImportsTraced(x), LeasesGrounded(x),
           \A i \in Imports : y.imports[i].state # "NEW" =>
                x.imports[i].state # "NEW" \/ x.revisions[Batch[i].trace] # <<>>
    PROVE  ImportsTraced(y) /\ LeasesGrounded(y)
<1>1. /\ x.revisions \in [Traces -> Revisions] /\ y.revisions \in [Traces -> Revisions]
      /\ x.leases \subseteq Leases
  BY DbFields
<1>2. \A t \in Traces : x.revisions[t] # <<>> => y.revisions[t] # <<>>
  <2> SUFFICES ASSUME NEW t \in Traces, x.revisions[t] # <<>> PROVE y.revisions[t] # <<>>
    OBVIOUS
  <2>1. x.revisions[t] \in Seq(Row)
    BY <1>1 DEF Revisions
  <2>2. Len(x.revisions[t]) \in DOMAIN x.revisions[t]
    BY <2>1, Elements
  <2>3. Len(x.revisions[t]) \in DOMAIN y.revisions[t]
    BY <2>2 DEF Grows
  <2> QED
    BY <2>3
<1>3. ImportsTraced(y)
  BY <1>2, BatchAssumption DEF ImportsTraced
<1>4. LeasesGrounded(y)
  BY <1>1 DEF LeasesGrounded, Grows, Leases
<1> QED
  BY <1>3, <1>4

LEMMA WorkTyped ==
    ASSUME Typed, Work \/ Genesis
    PROVE  db' \in Databases /\ ImportsTraced(db') /\ LeasesGrounded(db')
<1>1. db \in Databases /\ ImportsTraced(db) /\ LeasesGrounded(db)
  BY DEF Typed, TypeOK
<1>2. db.revisions \in [Traces -> Revisions] /\ \A t \in Traces : db.revisions[t] \in Seq(Row)
  BY <1>1, DbFields DEF Revisions
<1>3. CASE Genesis
  BY <1>1, <1>3, GenesisEffect, GrowingKeepsGround DEF Grows
<1>4. ASSUME NEW t \in Traces, TraceCreate(t)
      PROVE  db' \in Databases /\ ImportsTraced(db') /\ LeasesGrounded(db')
  <2>1. Grows(db, db')
    <3>1. /\ db.revisions[t] = <<>>
          /\ \A k \in Traces \ {t} : db'.revisions[k] = db.revisions[k]
      BY <1>2, <1>4, TraceCreateEffect
    <3>2. DOMAIN db.revisions[t] = {}
      BY <3>1
    <3> QED
      BY <3>1, <3>2 DEF Grows
  <2> QED
    BY <1>1, <1>4, <2>1, TraceCreateEffect, GrowingKeepsGround
<1>5. ASSUME NEW i \in Imports, ImportStage(i)
      PROVE  db' \in Databases /\ ImportsTraced(db') /\ LeasesGrounded(db')
  <2>1. Grows(db, db')
    BY <1>5, ImportStageEffect DEF Grows
  <2> QED
    BY <1>1, <1>5, <2>1, ImportStageEffect, GrowingKeepsGround
<1>6. ASSUME NEW i \in Staged, ImportCommit(i)
      PROVE  db' \in Databases /\ ImportsTraced(db') /\ LeasesGrounded(db')
  <2>1. i \in Imports /\ Batch[i].trace \in Traces
    BY BatchAssumption DEF Staged
  <2>2. PICK refs \in SUBSET Digests :
           db'.revisions = [db.revisions EXCEPT ![Batch[i].trace] =
                               Append(@, [refs |-> refs, pruned |-> FALSE])]
    BY <1>6, ImportCommitEffect
  <2>3. \A t \in Traces : db'.revisions[t] =
           IF t = Batch[i].trace THEN Append(db.revisions[t], [refs |-> refs, pruned |-> FALSE])
           ELSE db.revisions[t]
    BY <1>2, <2>1, <2>2
  <2>4. [refs |-> refs, pruned |-> FALSE] \in Row
    BY DEF Row
  <2>5. Grows(db, db')
    <3> SUFFICES ASSUME NEW t \in Traces
                 PROVE  DOMAIN db.revisions[t] \subseteq DOMAIN db'.revisions[t]
      BY DEF Grows
    <3>1. /\ Append(db.revisions[t], [refs |-> refs, pruned |-> FALSE]) \in Seq(Row)
          /\ Len(Append(db.revisions[t], [refs |-> refs, pruned |-> FALSE])) = Len(db.revisions[t]) + 1
      BY <1>2, <2>4, Appended
    <3>2. DOMAIN db.revisions[t] \subseteq DOMAIN Append(db.revisions[t], [refs |-> refs, pruned |-> FALSE])
      BY <1>2, <3>1, Elements
    <3> QED
      BY <2>3, <3>2
  <2> QED
    BY <1>1, <1>6, <2>1, <2>5, ImportCommitEffect, GrowingKeepsGround
<1>7. ASSUME Sweep PROVE db' \in Databases /\ ImportsTraced(db') /\ LeasesGrounded(db')
  <2>1. Grows(db, db')
    BY <1>7, SweepEffect DEF Grows
  <2> QED
    BY <1>1, <1>7, <2>1, SweepEffect, GrowingKeepsGround
<1>8. ASSUME NEW t \in Traces, NEW r \in 0..Current(t), ExportCut(t, r)
      PROVE  db' \in Databases /\ ImportsTraced(db') /\ LeasesGrounded(db')
  BY <1>1, <1>8, ExportCutEffect DEF ImportsTraced, LeasesGrounded
<1>9. ASSUME NEW t \in Traces, NEW before, Prune(t, before)
      PROVE  db' \in Databases /\ ImportsTraced(db') /\ LeasesGrounded(db')
  <2>1. Grows(db, db')
    <3>1. /\ db'.revisions[t] = Thinned(t, before)
          /\ \A k \in Traces \ {t} : db'.revisions[k] = db.revisions[k]
      <4>1. db'.revisions = [db.revisions EXCEPT ![t] = Thinned(t, before)]
        BY <1>9, PruneEffect
      <4> QED
        BY <1>2, <4>1
    <3>2. DOMAIN Thinned(t, before) = DOMAIN db.revisions[t]
      BY DEF Thinned
    <3> QED
      BY <3>1, <3>2 DEF Grows
  <2> QED
    BY <1>1, <1>9, <2>1, PruneEffect, GrowingKeepsGround
<1>10. ASSUME UNCHANGED db PROVE db' \in Databases /\ ImportsTraced(db') /\ LeasesGrounded(db')
  BY <1>1, <1>10
<1> QED
  BY <1>3, <1>4, <1>5, <1>6, <1>7, <1>8, <1>9, <1>10
     DEF Work, ImportCommitBroken, SweepKeyless, PruneCut, Tick

\* What Retention's operations and the creation of the log leave alone.
LEMMA WorkRest ==
    ASSUME Typed, Work /\ UNCHANGED recoveryVars
    PROVE  /\ UNCHANGED <<bounds, epoch, pin, backup, restoring, left, kept, promised, overridden>>
           /\ time' \in 0..MaxTime
           /\ state' \in States /\ keyed' \in BOOLEAN
           /\ keyed' => state' \in {"READY", "READ_ONLY"}
           /\ files' \subseteq Digests /\ lost' \subseteq Digests
<1> USE DEF Typed, TypeOK, recoveryVars
<1>1. ASSUME NEW t \in Traces, TraceCreate(t)
      PROVE  UNCHANGED <<bounds, time, state, keyed, files, epoch, lost>>
  BY <1>1 DEF TraceCreate
<1>2. ASSUME NEW i \in Imports, ImportStage(i)
      PROVE  UNCHANGED <<bounds, time, state, keyed, files, epoch, lost>>
  BY <1>2 DEF ImportStage
<1>3. ASSUME NEW i \in Staged, ImportCommit(i)
      PROVE  UNCHANGED <<bounds, time, state, keyed, epoch, lost>> /\ files' \subseteq Digests
  BY <1>3, BatchAssumption DEF ImportCommit, NewRows, Staged
<1>4. ASSUME NEW i \in Staged, ImportCommitBroken(i)
      PROVE  /\ UNCHANGED <<bounds, time, epoch, lost>> /\ files' \subseteq Digests
             /\ Closed \/ UNCHANGED <<state, keyed>>
  BY <1>4, BatchAssumption DEF ImportCommitBroken, NewRows, Staged
<1>5. ASSUME Sweep PROVE UNCHANGED <<bounds, time, state, keyed, files, epoch, lost>>
  BY <1>5 DEF Sweep
<1>6. ASSUME SweepKeyless PROVE UNCHANGED <<bounds, time, files, epoch, lost>> /\ Closed
  BY <1>6 DEF SweepKeyless
<1>7. ASSUME NEW t \in Traces, NEW r \in 0..Current(t), ExportCut(t, r)
      PROVE  UNCHANGED <<bounds, time, files, epoch, lost>> /\ Closed
  BY <1>7 DEF ExportCut
<1>8. ASSUME NEW t \in Traces, NEW before, Prune(t, before)
      PROVE  UNCHANGED <<bounds, time, state, keyed, epoch, lost>> /\ files' \subseteq Digests
  BY <1>8 DEF Prune
<1>9. ASSUME NEW t \in Traces, NEW before, PruneCut(t, before)
      PROVE  UNCHANGED <<bounds, time, epoch>> /\ files' \subseteq Digests /\ lost' \subseteq Digests /\ Closed
  BY <1>9, PlanTyped DEF PruneCut
<1>10. ASSUME Tick
       PROVE  UNCHANGED <<bounds, state, keyed, files, epoch, lost>> /\ time' \in 0..MaxTime
  BY <1>10, NumberAssumption DEF Tick
<1>11. Closed => state' \in States /\ keyed' \in BOOLEAN /\ ~keyed'
  BY DEF Closed, States
<1> QED
  BY <1>1, <1>2, <1>3, <1>4, <1>5, <1>6, <1>7, <1>8, <1>9, <1>10, <1>11 DEF Work

LEMMA InitTyped == Init => Typed
<1> SUFFICES ASSUME Init PROVE Typed
  OBVIOUS
<1> USE DEF Init
<1>1. EmptyDb \in Databases
  <2>1. [t \in Traces |-> <<>>] \in [Traces -> Revisions]
    BY DEF Revisions
  <2>2. [d \in Digests |-> NoRow] \in Rows
    BY DEF Rows
  <2>3. [i \in Imports |-> [state |-> "NEW", expires |-> 0]] \in Stages
    BY DEF Stages
  <2>4. {} \in SUBSET Leases /\ <<>> \in Seq(Entries)
    OBVIOUS
  <2> HIDE DEF Init
  <2> QED
    BY ONLY <2>1, <2>2, <2>3, <2>4, DbMade DEF EmptyDb
<1>2. TypeOK
  <2>1. /\ time \in 0..MaxTime /\ epoch \in 0..bounds.epochs
    BY NumberAssumption, BoundsAssumption
  <2>2. promised \in Seq(Entries)
    OBVIOUS
  <2> QED
    BY <1>1, <2>1, <2>2 DEF TypeOK, States
<1>3. ImportsTraced(db) /\ LeasesGrounded(db)
  BY DEF EmptyDb, ImportsTraced, LeasesGrounded
<1> QED
  BY <1>2, <1>3 DEF Typed

LEMMA NextTyped == Typed /\ [Next]_allVars => Typed'
<1> SUFFICES ASSUME Typed, [Next]_allVars PROVE Typed'
  OBVIOUS
<1>1. TypeOK /\ ImportsTraced(db) /\ LeasesGrounded(db)
  BY DEF Typed
<1>2. ASSUME Work, UNCHANGED recoveryVars PROVE Typed'
  BY <1>1, <1>2, WorkTyped, WorkRest DEF Typed, TypeOK
<1>3. ASSUME UNCHANGED <<db, backup>>, TypeOK' PROVE Typed'
  BY <1>3 DEF Typed
<1>4. ASSUME InitDb PROVE Typed'
  BY <1>1, <1>3, <1>4 DEF InitDb, TypeOK, recoveryVars, States
<1>5. ASSUME Genesis PROVE Typed'
  BY <1>1, <1>5, WorkTyped DEF Genesis, Typed, TypeOK, recoveryVars
<1>6. db.log \in Seq(Entries)
  BY <1>1, DbFields DEF TypeOK
<1>7. ASSUME InitPin PROVE Typed'
  BY <1>1, <1>3, <1>6, <1>7 DEF InitPin, Closed, Keep, TypeOK, States
<1>8. ASSUME NEW withKey \in BOOLEAN, Open(withKey) PROVE Typed'
  BY <1>1, <1>3, <1>8 DEF Open, Reconcile, TypeOK, recoveryVars, States
<1>9. ASSUME Stop PROVE Typed'
  BY <1>1, <1>3, <1>9 DEF Stop, Closed, TypeOK, recoveryVars, States
<1>10. ASSUME Backup PROVE Typed'
  <2>1. backup' = backup \/ backup' = [db |-> db, files |-> Copied]
    BY <1>10 DEF Backup
  <2>2. Copied \subseteq Digests /\ Missing \subseteq Digests
    BY DEF Copied, Missing
  <2>3. TypeOK'
    BY <1>1, <1>10, <2>1, <2>2 DEF Backup, TypeOK, States
  <2> QED
    BY <1>10, <2>1, <2>3 DEF Backup, Typed
<1>11. ASSUME BackupPin PROVE Typed'
  BY <1>1, <1>3, <1>6, <1>11 DEF BackupPin, Closed, Keep, TypeOK, States
<1>12. ASSUME RestoreDb PROVE Typed'
  <2>1. backup \in [db : Databases, files : SUBSET Digests]
    BY <1>1, <1>12 DEF RestoreDb, TypeOK
  <2>2. epoch' \in 0..bounds'.epochs
    BY <1>1, <1>12, BoundsAssumption DEF RestoreDb, TypeOK
  <2>3. TypeOK'
    BY <1>1, <1>12, <2>1, <2>2 DEF RestoreDb, TypeOK
  <2> QED
    BY <1>12, <2>3 DEF RestoreDb, Typed
<1>13. ASSUME NEW d \in left, RestoreFile(d) PROVE Typed'
  BY <1>1, <1>3, <1>13 DEF RestoreFile, TypeOK
<1>14. ASSUME NEW supplied \in kept \cup {db.log}, RestorePin(supplied) PROVE Typed'
  BY <1>1, <1>3, <1>6, <1>14 DEF RestorePin, MayInstall, TypeOK
<1>15. ASSUME RestoreCut PROVE Typed'
  BY <1>1, <1>3, <1>15 DEF RestoreCut, TypeOK
<1>16. CASE UNCHANGED allVars
  BY <1>1, <1>3, <1>16 DEF allVars, vars, recoveryVars, TypeOK
<1> QED
  BY <1>2, <1>4, <1>5, <1>7, <1>8, <1>9, <1>10, <1>11, <1>12, <1>13, <1>14, <1>15, <1>16 DEF Next

\* The database, the files, the pin, the backup and the histories keep their
\* types, in any workspace and over any number of restores (store.ts:8-29).
THEOREM RecoveryTyped == Spec => []TypeOK
<1>1. Typed => TypeOK
  BY DEF Typed
<1> QED
  BY <1>1, InitTyped, NextTyped, PTL DEF Spec

(* The pin. *)

LEMMA ExtendedFurther ==
    ASSUME NEW S, NEW log \in Seq(S), NEW more \in Seq(S), NEW head \in Seq(S), Extends(log, head)
    PROVE  Extends(log \o more, head)
<1>1. Len(head) \in Nat /\ Len(log) \in Nat /\ Len(more) \in Nat /\ Len(head) <= Len(log)
  BY DEF Extends
<1>2. log \o more \in Seq(S) /\ Len(log \o more) = Len(log) + Len(more)
  OBVIOUS
<1>3. \A n \in 1..Len(log) : (log \o more)[n] = log[n]
  OBVIOUS
<1>4. SubSeq(log \o more, 1, Len(head)) = [n \in 1..Len(head) |-> log[n]]
  BY <1>1, <1>2, <1>3
<1>5. SubSeq(log, 1, Len(head)) = [n \in 1..Len(head) |-> log[n]]
  BY <1>1
<1> QED
  BY <1>1, <1>2, <1>4, <1>5 DEF Extends

LEMMA ExtendedByOne ==
    ASSUME NEW S, NEW log \in Seq(S), NEW e \in S
    PROVE  Append(log, e) = log \o <<e>> /\ <<e>> \in Seq(S)
OBVIOUS

\* The log of an open workspace only grows.
LEMMA WorkLogs ==
    ASSUME Typed, Work
    PROVE  \E more \in Seq(Entries) : db'.log = db.log \o more
<1>1. db.log \in Seq(Entries) /\ Quiet \subseteq Entries
  BY DbFields DEF Typed, TypeOK, Quiet
<1>2. ASSUME NEW e \in Entries, db'.log = Append(db.log, e)
      PROVE  \E more \in Seq(Entries) : db'.log = db.log \o more
  BY <1>1, <1>2, ExtendedByOne
<1>3. ASSUME db'.log = db.log PROVE \E more \in Seq(Entries) : db'.log = db.log \o more
  <2>1. <<>> \in Seq(Entries) /\ db.log = db.log \o <<>>
    BY <1>1
  <2> QED
    BY <1>3, <2>1
<1>4. ASSUME NEW t \in Traces, TraceCreate(t) PROVE \E more \in Seq(Entries) : db'.log = db.log \o more
  BY <1>1, <1>2, <1>4, TraceCreateEffect
<1>5. ASSUME NEW i \in Imports, ImportStage(i) PROVE \E more \in Seq(Entries) : db'.log = db.log \o more
  BY <1>1, <1>2, <1>5, ImportStageEffect
<1>6. ASSUME NEW i \in Staged, ImportCommit(i) PROVE \E more \in Seq(Entries) : db'.log = db.log \o more
  BY <1>1, <1>2, <1>6, ImportCommitEffect
<1>7. ASSUME Sweep PROVE \E more \in Seq(Entries) : db'.log = db.log \o more
  <2>1. PICK s \in Seq(Quiet) : db'.log = db.log \o s
    BY <1>7, SweepEffect
  <2>2. s \in Seq(Entries)
    BY DEF Quiet
  <2> QED
    BY <2>1, <2>2
<1>8. ASSUME NEW t \in Traces, NEW before, Prune(t, before)
      PROVE  \E more \in Seq(Entries) : db'.log = db.log \o more
  BY <1>2, <1>8, PruneEffect
<1>9. ASSUME NEW t \in Traces, NEW r \in 0..Current(t), ExportCut(t, r)
      PROVE  \E more \in Seq(Entries) : db'.log = db.log \o more
  BY <1>3, <1>9, ExportCutEffect
<1>10. UNCHANGED db => \E more \in Seq(Entries) : db'.log = db.log \o more
  BY <1>3
<1> QED
  BY <1>4, <1>5, <1>6, <1>7, <1>8, <1>9, <1>10
     DEF Work, ImportCommitBroken, SweepKeyless, PruneCut, Tick

\* No operation of an open workspace opens one.
LEMMA WorkOpensNone == Work => state' = state \/ state' = "NONE"
BY DEF Work, TraceCreate, ImportStage, ImportCommit, ImportCommitBroken, Sweep, SweepKeyless,
       ExportCut, Prune, PruneCut, Tick, Closed

(* PinHolds alone says nothing of the next open, which looks at the pin: the *)
(* pin is what was promised, and a workspace that is READY has one.          *)

PinIsPromise == pin # NoPin => overridden \/ pin = promised

PinInv ==
    /\ PinIsPromise
    /\ state = "READY" => pin # NoPin
    /\ PinHolds

LEMMA InitPinInv == Init => PinInv
BY DEF Init, PinInv, PinIsPromise, PinHolds

LEMMA NextPinInv == Typed /\ PinInv /\ [Next]_allVars => PinInv'
<1> SUFFICES ASSUME Typed, PinInv, [Next]_allVars PROVE PinInv'
  OBVIOUS
<1> USE DEF PinInv, PinIsPromise, PinHolds
<1>1. promised \in Seq(Entries) /\ db.log \in Seq(Entries)
  BY DbFields DEF Typed, TypeOK
<1>2. ASSUME Work, UNCHANGED recoveryVars PROVE PinInv'
  <2>1. PICK more \in Seq(Entries) : db'.log = db.log \o more
    BY <1>2, WorkLogs
  <2>2. Extends(db.log, promised) => Extends(db.log, promised)'
    BY <1>1, <1>2, <2>1, ExtendedFurther DEF recoveryVars
  <2> QED
    BY <1>2, <2>2, WorkOpensNone DEF recoveryVars
<1>3. ASSUME InitDb PROVE PinInv'
  BY <1>3 DEF InitDb, recoveryVars
<1>4. ASSUME Genesis PROVE PinInv'
  BY <1>4 DEF Genesis, recoveryVars
<1>5. ASSUME InitPin PROVE PinInv'
  BY <1>5 DEF InitPin, Closed
<1>6. ASSUME NEW withKey \in BOOLEAN, Open(withKey) PROVE PinInv'
  BY <1>6 DEF Open, Reconcile, Extends, recoveryVars
<1>7. ASSUME Stop PROVE PinInv'
  BY <1>7 DEF Stop, Closed, recoveryVars
<1>8. ASSUME Backup PROVE PinInv'
  BY <1>8 DEF Backup
<1>9. ASSUME BackupPin PROVE PinInv'
  BY <1>9 DEF BackupPin, Closed
<1>10. ASSUME RestoreDb PROVE PinInv'
  BY <1>10 DEF RestoreDb
<1>11. ASSUME NEW d \in left, RestoreFile(d) PROVE PinInv'
  BY <1>11 DEF RestoreFile
<1>12. ASSUME NEW supplied \in kept \cup {db.log}, RestorePin(supplied) PROVE PinInv'
  BY <1>12 DEF RestorePin, MayInstall
<1>13. ASSUME RestoreCut PROVE PinInv'
  BY <1>13 DEF RestoreCut
<1>14. CASE UNCHANGED allVars
  BY <1>14 DEF allVars, vars, recoveryVars, Extends
<1> QED
  BY <1>2, <1>3, <1>4, <1>5, <1>6, <1>7, <1>8, <1>9, <1>10, <1>11, <1>12, <1>13, <1>14 DEF Next

\* A workspace that is open for writing goes back to what it was promised by init,
\* a backup or a restore, whatever was cut off and however often it was restored,
\* unless a backup was made of a log that does not (reconcilePin, main.ts:473).
THEOREM WritersKeepPin == Spec => []PinHolds
<1>1. PinInv => PinHolds
  BY DEF PinInv
<1> QED
  BY <1>1, InitTyped, NextTyped, InitPinInv, NextPinInv, PTL DEF Spec

(* Artifacts that are missing.  A backup has, of the artifacts that its       *)
(* database says are there, those that were not missing when it was made.     *)

Said(x) == {d \in Digests : x.rows[d] # NoRow /\ x.rows[d].state = "AVAILABLE"}

BackupExplained == backup # NoBackup => Said(backup.db) \subseteq backup.files \cup lost

LossInv == BackupExplained /\ LossExplained

LEMMA MissingSaid == Missing = Said(db) \ files /\ Missing' = Said(db') \ files'
BY DEF Missing, Said, Available

LEMMA InitLossInv == Init => LossInv
BY DEF Init, EmptyDb, LossInv, BackupExplained, LossExplained, Missing, Available

\* Work loses nothing but to a prune that is cut off.
LEMMA WorkLoses ==
    ASSUME Typed, Work
    PROVE  Missing' \ Missing \subseteq lost' /\ lost \subseteq lost'
<1> USE MissingSaid
<1>1. db \in Databases /\ db.rows \in Rows
  BY DbFields DEF Typed, TypeOK
<1>2. ASSUME Said(db') = Said(db), files \subseteq files', lost' = lost
      PROVE  Missing' \ Missing \subseteq lost' /\ lost \subseteq lost'
  BY <1>2
<1>3. ASSUME NEW t \in Traces, TraceCreate(t)
      PROVE  Missing' \ Missing \subseteq lost' /\ lost \subseteq lost'
  BY <1>2, <1>3, TraceCreateEffect DEF Said, TraceCreate
<1>4. ASSUME NEW i \in Imports, ImportStage(i)
      PROVE  Missing' \ Missing \subseteq lost' /\ lost \subseteq lost'
  BY <1>2, <1>4, ImportStageEffect DEF Said, ImportStage
<1>5. ASSUME NEW i \in Staged, ImportCommit(i)
      PROVE  Missing' \ Missing \subseteq lost' /\ lost \subseteq lost'
  <2>1. db'.rows = Committed(Batch[i])
    BY <1>5, ImportCommitEffect
  <2>2. files' = files \cup NewRows(Batch[i]) /\ lost' = lost
    BY <1>5 DEF ImportCommit
  <2>3. Said(db') \subseteq Said(db) \cup NewRows(Batch[i])
    BY <2>1 DEF Said, Committed
  <2> QED
    BY <2>2, <2>3
<1>6. ASSUME NEW i \in Staged, ImportCommitBroken(i)
      PROVE  Missing' \ Missing \subseteq lost' /\ lost \subseteq lost'
  BY <1>2, <1>6 DEF ImportCommitBroken
<1>7. ASSUME Sweep
      PROVE  Missing' \ Missing \subseteq lost' /\ lost \subseteq lost'
  BY <1>2, <1>7, SweepEffect DEF Said, Sweep
<1>8. ASSUME SweepKeyless
      PROVE  Missing' \ Missing \subseteq lost' /\ lost \subseteq lost'
  BY <1>2, <1>8 DEF SweepKeyless
<1>9. ASSUME NEW t \in Traces, NEW r \in 0..Current(t), ExportCut(t, r)
      PROVE  Missing' \ Missing \subseteq lost' /\ lost \subseteq lost'
  BY <1>2, <1>9, ExportCutEffect DEF Said, ExportCut
<1>10. ASSUME NEW t \in Traces, NEW before, Prune(t, before)
       PROVE  Missing' \ Missing \subseteq lost' /\ lost \subseteq lost'
  <2>1. db'.rows = Cleared(t)
    BY <1>10, PruneEffect
  <2>2. files \ PlannedArtifacts(t) \subseteq files' /\ lost' = lost
    BY <1>10 DEF Prune
  <2>3. Said(db') \subseteq Said(db) \ PlannedArtifacts(t)
    <3>1. ASSUME NEW d \in PlannedArtifacts(t) PROVE db'.rows[d].state = "PRUNED"
      BY <2>1, PlanTyped DEF Cleared, ArtifactRows
    <3>2. \A d \in Digests \ PlannedArtifacts(t) : db'.rows[d] = db.rows[d]
      BY <2>1 DEF Cleared
    <3> QED
      BY <3>1, <3>2 DEF Said
  <2> QED
    BY <2>2, <2>3
<1>11. ASSUME NEW t \in Traces, NEW before, PruneCut(t, before)
       PROVE  Missing' \ Missing \subseteq lost' /\ lost \subseteq lost'
  BY <1>11 DEF PruneCut
<1>12. ASSUME Tick
      PROVE  Missing' \ Missing \subseteq lost' /\ lost \subseteq lost'
  BY <1>2, <1>12 DEF Tick
<1> QED
  BY <1>3, <1>4, <1>5, <1>6, <1>7, <1>8, <1>9, <1>10, <1>11, <1>12 DEF Work

LEMMA NextLossInv == Typed /\ LossInv /\ [Next]_allVars => LossInv'
<1> SUFFICES ASSUME Typed, LossInv, [Next]_allVars PROVE LossInv'
  OBVIOUS
<1> USE MissingSaid DEF LossInv, BackupExplained, LossExplained, Left
<1>1. ASSUME Work, UNCHANGED recoveryVars PROVE LossInv'
  BY <1>1, WorkLoses DEF recoveryVars
<1>2. ASSUME UNCHANGED <<db, files, lost, backup, restoring, left>> PROVE LossInv'
  BY <1>2
<1>3. ASSUME InitDb \/ InitPin \/ Stop \/ BackupPin PROVE LossInv'
  BY <1>2, <1>3 DEF InitDb, InitPin, Stop, BackupPin, recoveryVars
<1>4. ASSUME Genesis PROVE LossInv'
  <2>1. Said(db') = Said(db)
    BY <1>4, GenesisEffect DEF Said
  <2> QED
    BY <1>4, <2>1 DEF Genesis, recoveryVars
<1>5. ASSUME NEW withKey \in BOOLEAN, Open(withKey) PROVE LossInv'
  BY <1>2, <1>5 DEF Open, recoveryVars
<1>6. ASSUME Backup PROVE LossInv'
  <2>1. backup' = backup \/ backup' = [db |-> db, files |-> Copied]
    BY <1>6 DEF Backup
  <2>2. Said(db) \subseteq Copied \cup Missing
    BY DEF Said, Copied, Missing, Served, Available
  <2>3. UNCHANGED <<db, files, restoring, left>> /\ lost' = lost \cup Missing
    BY <1>6 DEF Backup
  <2> QED
    BY <2>1, <2>2, <2>3
<1>7. ASSUME RestoreDb PROVE LossInv'
  BY <1>7 DEF RestoreDb
<1>8. ASSUME NEW d \in left, RestoreFile(d) PROVE LossInv'
  BY <1>8 DEF RestoreFile
<1>9. ASSUME NEW supplied \in kept \cup {db.log}, RestorePin(supplied) PROVE LossInv'
  BY <1>9 DEF RestorePin, MayInstall
<1>10. ASSUME RestoreCut PROVE LossInv'
  BY <1>10 DEF RestoreCut
<1>11. CASE UNCHANGED allVars
  BY <1>2, <1>11 DEF allVars, vars, recoveryVars
<1> QED
  BY <1>1, <1>3, <1>4, <1>5, <1>6, <1>7, <1>8, <1>9, <1>10, <1>11 DEF Next

\* An artifact that is said to be there has its file, unless a prune or a copy that
\* was cut off took it, through any number of imports, prunes, crashes, backups and
\* restores (applyPrune, backup, restore, execCommit).
THEOREM LossIsExplained == Spec => []LossExplained
<1>1. LossInv => LossExplained
  BY DEF LossInv
<1> QED
  BY <1>1, InitTyped, NextTyped, InitLossInv, NextLossInv, PTL DEF Spec

(* What was pruned, and what the log says of it.  That the log says nothing of *)
(* a revision that is yet to come is what makes PrunesTold inductive, and that  *)
(* it holds of the backup too what makes it survive a restore.                  *)

ArtifactTold(x, d) ==
    {n \in DOMAIN x.log : x.log[n].kind = "RetentionPruned" /\ d \in x.log[n].artifacts}

RevisionTold(x, t, r) ==
    {n \in DOMAIN x.log : /\ x.log[n].kind = "RetentionPruned" /\ x.log[n].trace = t
                          /\ r \in x.log[n].revisions}

RowGone(x, d) == x.rows[d] # NoRow /\ x.rows[d].state # "AVAILABLE"

Gone(x, t, r) == r + 1 \in DOMAIN x.revisions[t] /\ x.revisions[t][r + 1].pruned

ToldOnce(x) ==
    /\ \A d \in Digests : /\ ArtifactTold(x, d) # {} <=> RowGone(x, d)
                          /\ \A m, n \in ArtifactTold(x, d) : m = n
    /\ \A t \in Traces, r \in Nat : /\ RevisionTold(x, t, r) # {} <=> Gone(x, t, r)
                                    /\ \A m, n \in RevisionTold(x, t, r) : m = n

InWindow(x) ==
    \A t \in Traces, r \in Nat :
        Gone(x, t, r) => r + 1 < Len(x.revisions[t]) /\ r + HistoryRevisions < Len(x.revisions[t])

ToldInv ==
    /\ ToldOnce(db) /\ InWindow(db)
    /\ backup # NoBackup => ToldOnce(backup.db) /\ InWindow(backup.db)

LEMMA ToldIsPrunesTold == Typed /\ ToldInv => PrunesTold
<1> SUFFICES ASSUME Typed, ToldInv PROVE PrunesTold
  OBVIOUS
<1>1. db \in Databases
  BY DEF Typed, TypeOK
<1>2. \A t \in Traces : /\ Len(db.revisions[t]) \in Nat
                        /\ DOMAIN db.revisions[t] = 1..Len(db.revisions[t])
  <2>1. \A t \in Traces : db.revisions[t] \in Seq(Row)
    BY <1>1, DbFields DEF Revisions
  <2> QED
    BY <2>1, Elements
<1>3. ASSUME NEW t \in Traces, NEW r \in 0..Current(t)
      PROVE  r \in Nat /\ (Gone(db, t, r) <=> Revision(t, r).pruned)
  <2>1. r \in Nat /\ r + 1 \in DOMAIN db.revisions[t]
    BY <1>2 DEF Current
  <2> QED
    BY <2>1 DEF Gone, Revision
<1>4. /\ \A d \in Digests : ArtifactTold(db, d) = {n \in Prunes : d \in db.log[n].artifacts}
      /\ \A t \in Traces, r \in Nat :
            RevisionTold(db, t, r) = {n \in Prunes : db.log[n].trace = t /\ r \in db.log[n].revisions}
  BY DEF ArtifactTold, RevisionTold, Prunes
<1>5. \A d \in Digests : RowGone(db, d) <=> db.rows[d] # NoRow /\ ~Available(d)
  BY DEF RowGone, Available
<1>6. EachPruneTold
  BY <1>3, <1>4, <1>5 DEF EachPruneTold, ToldInv, ToldOnce
<1>7. WindowKept
  <2> SUFFICES ASSUME NEW t \in Traces, NEW r \in 0..Current(t), Revision(t, r).pruned
               PROVE  r < Current(t) /\ r + HistoryRevisions <= Current(t)
    BY DEF WindowKept
  <2>1. r \in Nat /\ r + 1 < Len(db.revisions[t]) /\ r + HistoryRevisions < Len(db.revisions[t])
    BY <1>3 DEF ToldInv, InWindow
  <2> QED
    BY <1>2, <2>1, NumberAssumption DEF Current
<1> QED
  BY <1>6, <1>7 DEF PrunesTold

\* Entries that prune nothing tell nothing.
LEMMA QuietTells ==
    ASSUME NEW x \in Databases, NEW y, NEW more \in Seq(Quiet), y.log = x.log \o more
    PROVE  /\ \A d \in Digests : ArtifactTold(y, d) = ArtifactTold(x, d)
           /\ \A t \in Traces, r \in Nat : RevisionTold(y, t, r) = RevisionTold(x, t, r)
<1>1. x.log \in Seq(Entries) /\ more \in Seq(Entries)
  BY DbFields DEF Quiet
<1>2. /\ Len(x.log) \in Nat /\ Len(more) \in Nat
      /\ DOMAIN x.log = 1..Len(x.log) /\ DOMAIN y.log = 1..Len(x.log) + Len(more)
      /\ \A n \in 1..Len(x.log) : y.log[n] = x.log[n]
      /\ \A n \in Len(x.log) + 1..Len(x.log) + Len(more) : y.log[n] = more[n - Len(x.log)]
  BY <1>1
<1>3. \A n \in 1..Len(more) : more[n] \in Quiet
  OBVIOUS
<1>4. ASSUME NEW n \in DOMAIN y.log, y.log[n].kind = "RetentionPruned" PROVE n \in DOMAIN x.log
  <2> SUFFICES ASSUME n \notin DOMAIN x.log PROVE FALSE
    OBVIOUS
  <2>1. n \in Len(x.log) + 1..Len(x.log) + Len(more) /\ n - Len(x.log) \in 1..Len(more)
    BY <1>2
  <2>2. y.log[n] \in Quiet
    BY <1>2, <1>3, <2>1
  <2> QED
    BY <1>4, <2>2 DEF Quiet
<1>5. \A n \in DOMAIN x.log : n \in DOMAIN y.log /\ y.log[n] = x.log[n]
  BY <1>2
<1> QED
  BY <1>4, <1>5 DEF ArtifactTold, RevisionTold

\* A step that prunes nothing and tells nothing.
LEMMA QuietKeepsTold ==
    ASSUME NEW x \in Databases, NEW y \in Databases,
           NEW more \in Seq(Quiet), y.log = x.log \o more,
           \A d \in Digests : RowGone(y, d) <=> RowGone(x, d),
           \A t \in Traces, r \in Nat : Gone(y, t, r) <=> Gone(x, t, r),
           \A t \in Traces : Len(x.revisions[t]) <= Len(y.revisions[t]),
           ToldOnce(x), InWindow(x)
    PROVE  ToldOnce(y) /\ InWindow(y)
<1>1. ToldOnce(y)
  <2>1. /\ \A d \in Digests : ArtifactTold(y, d) = ArtifactTold(x, d)
        /\ \A t \in Traces, r \in Nat : RevisionTold(y, t, r) = RevisionTold(x, t, r)
    BY QuietTells
  <2> QED
    BY <2>1 DEF ToldOnce
<1>2. \A t \in Traces : Len(x.revisions[t]) \in Nat /\ Len(y.revisions[t]) \in Nat
  <2>1. \A t \in Traces : x.revisions[t] \in Seq(Row) /\ y.revisions[t] \in Seq(Row)
    BY DbFields DEF Revisions
  <2> QED
    BY <2>1, Elements
<1>3. InWindow(y)
  <2> SUFFICES ASSUME NEW t \in Traces, NEW r \in Nat, Gone(y, t, r)
               PROVE  r + 1 < Len(y.revisions[t]) /\ r + HistoryRevisions < Len(y.revisions[t])
    BY DEF InWindow
  <2>1. r + 1 < Len(x.revisions[t]) /\ r + HistoryRevisions < Len(x.revisions[t])
    BY DEF InWindow
  <2> QED
    BY <1>2, <2>1, NumberAssumption
<1> QED
  BY <1>1, <1>3

\* One entry that prunes nothing is a log that does.
LEMMA OneQuiet ==
    ASSUME Typed, NEW e \in Quiet
    PROVE  \E more \in Seq(Quiet) : Append(db.log, e) = db.log \o more
<1>1. db.log \in Seq(Entries) /\ e \in Entries
  BY DbFields DEF Typed, TypeOK, Quiet
<1>2. Append(db.log, e) = db.log \o <<e>> /\ <<e>> \in Seq(Quiet)
  BY <1>1, ExtendedByOne
<1> QED
  BY <1>2

\* A step that leaves revisions and rows as they are.
LEMMA SameTablesTold ==
    ASSUME Typed, db' \in Databases, ToldOnce(db), InWindow(db),
           db'.revisions = db.revisions, db'.rows = db.rows,
           \E more \in Seq(Quiet) : db'.log = db.log \o more
    PROVE  ToldOnce(db') /\ InWindow(db')
<1>1. PICK more \in Seq(Quiet) : db'.log = db.log \o more
  OBVIOUS
<1>2. db \in Databases
  BY DEF Typed, TypeOK
<1>3. \A t \in Traces : Len(db.revisions[t]) <= Len(db'.revisions[t])
  <2>1. \A t \in Traces : db.revisions[t] \in Seq(Row)
    BY <1>2, DbFields DEF Revisions
  <2>2. \A t \in Traces : Len(db.revisions[t]) \in Nat
    BY <2>1, Elements
  <2> QED
    BY <2>2
<1>4. /\ \A d \in Digests : RowGone(db', d) <=> RowGone(db, d)
      /\ \A t \in Traces, r \in Nat : Gone(db', t, r) <=> Gone(db, t, r)
  BY DEF RowGone, Gone
<1> QED
  BY <1>1, <1>2, <1>3, <1>4, QuietKeepsTold

\* A step that adds a revision to one trace, with what has a row keeping it.
LEMMA AddedRevisionTold ==
    ASSUME Typed, db' \in Databases, ToldOnce(db), InWindow(db),
           NEW t \in Traces, NEW row \in Row, ~row.pruned,
           db'.revisions = [db.revisions EXCEPT ![t] = Append(@, row)],
           \A d \in Digests : RowGone(db', d) <=> RowGone(db, d),
           \E more \in Seq(Quiet) : db'.log = db.log \o more
    PROVE  ToldOnce(db') /\ InWindow(db')
<1>1. PICK more \in Seq(Quiet) : db'.log = db.log \o more
  OBVIOUS
<1>2. db \in Databases
  BY DEF Typed, TypeOK
<1>3. db.revisions \in [Traces -> Revisions]
  BY <1>2, DbFields
<1>4. /\ \A k \in Traces : db.revisions[k] \in Seq(Row)
      /\ db'.revisions[t] = Append(db.revisions[t], row)
      /\ \A k \in Traces \ {t} : db'.revisions[k] = db.revisions[k]
  BY <1>3 DEF Revisions
<1>5. /\ \A k \in Traces : /\ Len(db.revisions[k]) \in Nat
                           /\ DOMAIN db.revisions[k] = 1..Len(db.revisions[k])
      /\ Len(db'.revisions[t]) = Len(db.revisions[t]) + 1
      /\ DOMAIN db'.revisions[t] = 1..Len(db.revisions[t]) + 1
      /\ \A n \in DOMAIN db.revisions[t] : db'.revisions[t][n] = db.revisions[t][n]
      /\ db'.revisions[t][Len(db.revisions[t]) + 1] = row
  BY <1>4, Elements, Appended
<1>6. \A k \in Traces : Len(db.revisions[k]) <= Len(db'.revisions[k])
  BY <1>4, <1>5
<1>7. ASSUME NEW k \in Traces, NEW r \in Nat PROVE Gone(db', k, r) <=> Gone(db, k, r)
  <2>1. CASE k # t
    BY <1>4, <2>1 DEF Gone
  <2>2. CASE k = t
    <3>1. CASE r + 1 \in DOMAIN db.revisions[t]
      BY <1>5, <2>2, <3>1 DEF Gone
    <3>2. CASE r + 1 \notin DOMAIN db.revisions[t]
      <4>1. r + 1 \in DOMAIN db'.revisions[t] => r + 1 = Len(db.revisions[t]) + 1
        BY <1>5, <3>2
      <4> QED
        BY <1>5, <2>2, <3>2, <4>1 DEF Gone
    <3> QED
      BY <3>1, <3>2
  <2> QED
    BY <2>1, <2>2
<1> QED
  BY <1>1, <1>2, <1>6, <1>7, QuietKeepsTold

LEMMA PruneTells ==
    ASSUME Typed, ToldOnce(db), InWindow(db), NEW t \in Traces, NEW before, Prune(t, before)
    PROVE  ToldOnce(db') /\ InWindow(db')
<1> DEFINE P == PlannedRevisions(t, before)
           A == PlannedArtifacts(t)
           e == PruneEntry(t, before)
<1>0. db \in Databases /\ db' \in Databases
  BY PruneEffect DEF Typed, TypeOK
<1>1. e \in Entries /\ db'.log = Append(db.log, e)
  BY PruneEffect
<1>2. /\ e.kind = "RetentionPruned" /\ e.trace = t
      /\ e.revisions = P /\ e.artifacts = A
  BY DEF PruneEntry
<1> HIDE DEF e
<1>3. /\ db.revisions \in [Traces -> Revisions] /\ db.log \in Seq(Entries)
      /\ db'.revisions = [db.revisions EXCEPT ![t] = Thinned(t, before)]
      /\ db'.rows = Cleared(t)
  BY <1>0, DbFields, PruneEffect
<1>4. /\ \A k \in Traces : db.revisions[k] \in Seq(Row)
      /\ db'.revisions[t] = Thinned(t, before)
      /\ \A k \in Traces \ {t} : db'.revisions[k] = db.revisions[k]
  BY <1>3 DEF Revisions
<1>5. /\ Len(db.log) \in Nat
      /\ DOMAIN db.log = 1..Len(db.log) /\ DOMAIN db'.log = 1..Len(db.log) + 1
      /\ \A n \in DOMAIN db.log : db'.log[n] = db.log[n]
      /\ db'.log[Len(db.log) + 1] = e
  BY <1>1, <1>3, Elements, Appended
<1>6. /\ \A k \in Traces : Len(db.revisions[k]) \in Nat
      /\ Len(Thinned(t, before)) = Len(db.revisions[t])
      /\ DOMAIN Thinned(t, before) = DOMAIN db.revisions[t]
  <2>1. /\ \A k \in Traces : Len(db.revisions[k]) \in Nat
        /\ DOMAIN db.revisions[t] = 1..Len(db.revisions[t])
    BY <1>4, Elements
  <2>2. DOMAIN Thinned(t, before) = 1..Len(db.revisions[t])
    BY <2>1 DEF Thinned
  <2>3. Thinned(t, before) \in [1..Len(db.revisions[t]) -> {Thinned(t, before)[n] : n \in 1..Len(db.revisions[t])}]
    BY <2>2 DEF Thinned
  <2>4. Len(Thinned(t, before)) = Len(db.revisions[t])
    BY <2>1, <2>3, Listed
  <2> QED
    BY <2>1, <2>2, <2>4
<1>7. ASSUME NEW k \in Traces, NEW r \in Nat
      PROVE  Gone(db', k, r) <=> Gone(db, k, r) \/ (k = t /\ r \in P)
  <2>1. CASE k # t
    BY <1>4, <2>1 DEF Gone
  <2>2. CASE k = t
    <3>1. \A q \in P : q + 1 \in DOMAIN db.revisions[t] /\ ~db.revisions[t][q + 1].pruned
      BY PlanTyped
    <3>2. \A n \in DOMAIN db.revisions[t] : db.revisions[t][n] \in Row
      BY <1>4, Elements
    <3>3. \A n \in DOMAIN db.revisions[t] :
             Thinned(t, before)[n].pruned <=> db.revisions[t][n].pruned \/ n - 1 \in P
      BY <3>2 DEF Thinned, Row
    <3>4. r + 1 - 1 = r
      OBVIOUS
    <3> QED
      BY <1>4, <1>6, <2>2, <3>1, <3>3, <3>4 DEF Gone
  <2> QED
    BY <2>1, <2>2
<1>8. \A r \in P : ~Gone(db, t, r)
  BY PlanTyped DEF Gone
<1>9. ASSUME NEW d \in Digests
      PROVE  /\ RowGone(db', d) <=> RowGone(db, d) \/ d \in A
             /\ d \in A => ~RowGone(db, d)
  <2>1. CASE d \in A
    <3>1. db.rows[d] \in ArtifactRows /\ db.rows[d].state = "AVAILABLE"
      BY <2>1, PlanTyped
    <3>2. db'.rows[d] = [db.rows[d] EXCEPT !.state = "PRUNED"]
      BY <1>3, <2>1 DEF Cleared
    <3>3. db'.rows[d] \in ArtifactRows /\ db'.rows[d].state = "PRUNED"
      BY <3>1, <3>2 DEF ArtifactRows
    <3> QED
      BY <2>1, <3>1, <3>3, NoRowAssumption DEF RowGone, ArtifactRows
  <2>2. CASE d \notin A
    BY <1>3, <2>2 DEF Cleared, RowGone
  <2> QED
    BY <2>1, <2>2
<1> HIDE DEF P, A
<1>10. ASSUME NEW d \in Digests
       PROVE  ArtifactTold(db', d) = ArtifactTold(db, d) \cup (IF d \in A THEN {Len(db.log) + 1} ELSE {})
  BY <1>2, <1>5 DEF ArtifactTold
<1>11. ASSUME NEW k \in Traces, NEW r \in Nat
       PROVE  RevisionTold(db', k, r) =
                 RevisionTold(db, k, r) \cup (IF k = t /\ r \in P THEN {Len(db.log) + 1} ELSE {})
  BY <1>2, <1>5 DEF RevisionTold
<1>12. ToldOnce(db')
  <2>1. ASSUME NEW d \in Digests
        PROVE  /\ ArtifactTold(db', d) # {} <=> RowGone(db', d)
               /\ \A m, n \in ArtifactTold(db', d) : m = n
    BY <1>9, <1>10 DEF ToldOnce
  <2>2. ASSUME NEW k \in Traces, NEW r \in Nat
        PROVE  /\ RevisionTold(db', k, r) # {} <=> Gone(db', k, r)
               /\ \A m, n \in RevisionTold(db', k, r) : m = n
    <3>1. /\ RevisionTold(db, k, r) # {} <=> Gone(db, k, r)
          /\ \A m, n \in RevisionTold(db, k, r) : m = n
      BY DEF ToldOnce
    <3>2. CASE k = t /\ r \in P
      <4>1. RevisionTold(db, k, r) = {}
        BY <1>8, <3>1, <3>2
      <4> QED
        BY <1>7, <1>11, <3>2, <4>1
    <3>3. CASE ~(k = t /\ r \in P)
      <4>1. RevisionTold(db', k, r) = RevisionTold(db, k, r)
        BY <1>11, <3>3
      <4>2. Gone(db', k, r) <=> Gone(db, k, r)
        BY <1>7, <3>3
      <4> QED
        BY <3>1, <4>1, <4>2
    <3> QED
      BY <3>2, <3>3
  <2> QED
    BY <2>1, <2>2 DEF ToldOnce
<1>13. InWindow(db')
  <2>1. \A r \in P : r + 1 < Len(db.revisions[t]) /\ r + HistoryRevisions < Len(db.revisions[t])
    BY PlanTyped DEF P
  <2>2. \A k \in Traces : Len(db'.revisions[k]) = Len(db.revisions[k])
    BY <1>4, <1>6
  <2> QED
    BY <1>7, <2>1, <2>2 DEF InWindow
<1> QED
  BY <1>12, <1>13

LEMMA WorkTold ==
    ASSUME Typed, ToldOnce(db), InWindow(db), Work \/ Genesis
    PROVE  ToldOnce(db') /\ InWindow(db')
<1>1. db \in Databases /\ db' \in Databases /\ db.rows \in Rows /\ db.revisions \in [Traces -> Revisions]
  BY WorkTyped, DbFields DEF Typed, TypeOK
<1>2. db.log \in Seq(Entries)
  BY <1>1, DbFields
<1>3. db.log = db.log \o <<>> /\ <<>> \in Seq(Quiet)
  BY <1>2
<1>4. ASSUME Genesis PROVE ToldOnce(db') /\ InWindow(db')
  BY <1>1, <1>4, GenesisEffect, OneQuiet, SameTablesTold
<1>5. ASSUME NEW t \in Traces, TraceCreate(t) PROVE ToldOnce(db') /\ InWindow(db')
  <2> DEFINE row == [refs |-> {}, pruned |-> FALSE]
  <2>1. row \in Row /\ ~row.pruned
    BY DEF Row
  <2>2. <<row>> = Append(<<>>, row) /\ db.revisions[t] = <<>>
    <3>1. db.revisions[t] = <<>>
      BY <1>5, TraceCreateEffect
    <3>2. \A x : <<x>> = Append(<<>>, x)
      OBVIOUS
    <3> QED
      BY <3>1, <3>2
  <2>3. db'.revisions = [db.revisions EXCEPT ![t] = Append(@, row)]
    BY <1>5, <2>2, TraceCreateEffect
  <2>4. \A d \in Digests : RowGone(db', d) <=> RowGone(db, d)
    BY <1>5, TraceCreateEffect DEF RowGone
  <2>5. \E more \in Seq(Quiet) : db'.log = db.log \o more
    BY <1>5, TraceCreateEffect, OneQuiet
  <2> HIDE DEF row
  <2> QED
    BY <1>1, <2>1, <2>3, <2>4, <2>5, AddedRevisionTold
<1>6. ASSUME NEW i \in Imports, ImportStage(i) PROVE ToldOnce(db') /\ InWindow(db')
  BY <1>1, <1>6, ImportStageEffect, OneQuiet, SameTablesTold
<1>7. ASSUME NEW i \in Staged, ImportCommit(i) PROVE ToldOnce(db') /\ InWindow(db')
  <2>1. PICK refs \in SUBSET Digests :
           db'.revisions = [db.revisions EXCEPT ![Batch[i].trace] =
                               Append(@, [refs |-> refs, pruned |-> FALSE])]
    BY <1>7, ImportCommitEffect
  <2> DEFINE row == [refs |-> refs, pruned |-> FALSE]
  <2>2. row \in Row /\ ~row.pruned
    BY DEF Row
  <2>3. Batch[i].trace \in Traces
    BY BatchAssumption DEF Staged
  <2>4. \A d \in Digests : RowGone(db', d) <=> RowGone(db, d)
    <3>1. db'.rows = Committed(Batch[i])
      BY <1>7, ImportCommitEffect
    <3> QED
      BY <3>1 DEF RowGone, Committed, NewRows
  <2>5. \E more \in Seq(Quiet) : db'.log = db.log \o more
    <3>1. \E e \in Quiet : db'.log = Append(db.log, e)
      BY <1>7, ImportCommitEffect
    <3> QED
      BY <3>1, OneQuiet
  <2>6. db'.revisions = [db.revisions EXCEPT ![Batch[i].trace] = Append(@, row)]
    BY <2>1
  <2> HIDE DEF row
  <2> QED
    BY <1>1, <2>2, <2>3, <2>4, <2>5, <2>6, AddedRevisionTold
<1>8. ASSUME Sweep PROVE ToldOnce(db') /\ InWindow(db')
  BY <1>1, <1>8, SweepEffect, SameTablesTold
<1>9. ASSUME NEW t \in Traces, NEW r \in 0..Current(t), ExportCut(t, r) PROVE ToldOnce(db') /\ InWindow(db')
  BY <1>1, <1>3, <1>9, ExportCutEffect, SameTablesTold
<1>10. ASSUME NEW t \in Traces, NEW before, Prune(t, before) PROVE ToldOnce(db') /\ InWindow(db')
  BY <1>10, PruneTells
<1>11. ASSUME UNCHANGED db PROVE ToldOnce(db') /\ InWindow(db')
  BY <1>11
<1> QED
  BY <1>4, <1>5, <1>6, <1>7, <1>8, <1>9, <1>10, <1>11
     DEF Work, ImportCommitBroken, SweepKeyless, PruneCut, Tick

LEMMA InitToldInv == Init => ToldInv
BY DEF Init, EmptyDb, ToldInv, ToldOnce, InWindow, ArtifactTold, RevisionTold, RowGone, Gone

LEMMA NextToldInv == Typed /\ ToldInv /\ [Next]_allVars => ToldInv'
<1> SUFFICES ASSUME Typed, ToldInv, [Next]_allVars PROVE ToldInv'
  OBVIOUS
<1> USE DEF ToldInv
<1>1. ASSUME Work, UNCHANGED recoveryVars PROVE ToldInv'
  BY <1>1, WorkTold DEF recoveryVars
<1>2. ASSUME Genesis PROVE ToldInv'
  BY <1>2, WorkTold DEF Genesis, recoveryVars
<1>3. ASSUME UNCHANGED <<db, backup>> PROVE ToldInv'
  BY <1>3
<1>4. ASSUME InitDb \/ InitPin \/ Stop \/ BackupPin \/ RestoreCut PROVE ToldInv'
  BY <1>3, <1>4 DEF InitDb, InitPin, Stop, BackupPin, RestoreCut, recoveryVars
<1>5. ASSUME NEW withKey \in BOOLEAN, Open(withKey) PROVE ToldInv'
  BY <1>3, <1>5 DEF Open, recoveryVars
<1>6. ASSUME Backup PROVE ToldInv'
  <2>1. backup' = backup \/ backup' = [db |-> db, files |-> Copied]
    BY <1>6 DEF Backup
  <2>2. UNCHANGED db
    BY <1>6 DEF Backup
  <2> QED
    BY <2>1, <2>2
<1>7. ASSUME RestoreDb PROVE ToldInv'
  BY <1>7 DEF RestoreDb
<1>8. ASSUME NEW d \in left, RestoreFile(d) PROVE ToldInv'
  BY <1>3, <1>8 DEF RestoreFile
<1>9. ASSUME NEW supplied \in kept \cup {db.log}, RestorePin(supplied) PROVE ToldInv'
  BY <1>3, <1>9 DEF RestorePin
<1>10. CASE UNCHANGED allVars
  BY <1>3, <1>10 DEF allVars, vars, recoveryVars
<1> QED
  BY <1>1, <1>2, <1>4, <1>5, <1>6, <1>7, <1>8, <1>9, <1>10 DEF Next

\* What was given up is told by exactly one entry of the log and was out of the
\* window, in any workspace, after prunes that were cut off, after an artifact was
\* supplied again, and after any number of restores (applyPrune, execCommit).
THEOREM PrunesAreTold == Spec => []PrunesTold
BY InitTyped, NextTyped, InitToldInv, NextToldInv, ToldIsPrunesTold, PTL DEF Spec

(* Leases. *)

KeepsLeases ==
    epoch' = epoch =>
        \A l \in {k \in db.leases : k.expires > time} :
            ~Revision(l.trace, l.revision).pruned =>
              /\ ~Revision(l.trace, l.revision)'.pruned
              /\ \A d \in Revision(l.trace, l.revision).refs :
                    Served(d) /\ ~Served(d)' =>
                        \E t \in Traces \ {l.trace} : \E before \in 0..Current(t) :
                            Prune(t, before) \/ PruneCut(t, before)

\* A lease is on a revision of a trace.
LEMMA LeaseTyped ==
    ASSUME Typed, NEW l \in db.leases
    PROVE  /\ l.trace \in Traces /\ l.revision \in Nat /\ l.expires \in Int
           /\ l.revision + 1 \in DOMAIN db.revisions[l.trace]
           /\ Revision(l.trace, l.revision) = db.revisions[l.trace][l.revision + 1]
           /\ Revision(l.trace, l.revision)' = db'.revisions[l.trace][l.revision + 1]
           /\ Revision(l.trace, l.revision) \in Row
<1>1. db \in Databases /\ LeasesGrounded(db)
  BY DEF Typed, TypeOK
<1>2. /\ l.trace \in Traces /\ l.revision \in Nat /\ l.expires \in Int
      /\ l.revision + 1 \in DOMAIN db.revisions[l.trace]
  BY <1>1, DbFields DEF LeasesGrounded, Leases
<1>3. /\ Revision(l.trace, l.revision) = db.revisions[l.trace][l.revision + 1]
      /\ Revision(l.trace, l.revision)' = db'.revisions[l.trace][l.revision + 1]
  BY DEF Revision
<1>4. db.revisions[l.trace] \in Seq(Row)
  BY <1>1, <1>2, DbFields DEF Revisions
<1> QED
  BY <1>2, <1>3, <1>4, Elements

\* A step that changes no revision and takes no artifact.
LEMMA UndisturbedLeases ==
    ASSUME Typed,
           \A t \in Traces : \A n \in DOMAIN db.revisions[t] : db'.revisions[t][n] = db.revisions[t][n],
           \A d \in Digests : Served(d) => Served(d)'
    PROVE  KeepsLeases
<1> SUFFICES ASSUME NEW l \in db.leases, ~Revision(l.trace, l.revision).pruned
             PROVE  /\ ~Revision(l.trace, l.revision)'.pruned
                    /\ \A d \in Revision(l.trace, l.revision).refs : Served(d) => Served(d)'
  BY DEF KeepsLeases
<1>1. Revision(l.trace, l.revision)' = Revision(l.trace, l.revision)
  BY LeaseTyped
<1>2. Revision(l.trace, l.revision).refs \subseteq Digests
  BY LeaseTyped DEF Row
<1> QED
  BY <1>1, <1>2

LEMMA UnchangedLeases ==
    ASSUME Typed, db'.revisions = db.revisions, db'.rows = db.rows, files \subseteq files'
    PROVE  KeepsLeases
<1>1. \A d \in Digests : Served(d) => Served(d)'
  BY DEF Served, Available
<1> QED
  BY <1>1, UndisturbedLeases

\* What a lease of the trace that is pruned holds is in no plan.
LEMMA PlanSparesLeases ==
    ASSUME Typed, NEW l \in db.leases, l.expires > time, ~Revision(l.trace, l.revision).pruned,
           NEW before
    PROVE  /\ l.revision \notin PlannedRevisions(l.trace, before)
           /\ PlannedArtifacts(l.trace) \cap Revision(l.trace, l.revision).refs = {}
<1>1. l.revision \in Leased(l.trace)
  BY DEF Leased
<1>2. Revision(l.trace, l.revision).refs \subseteq HeldByLease(l.trace)
  BY <1>1 DEF HeldByLease
<1> QED
  BY <1>1, <1>2 DEF PlannedRevisions, PlannedArtifacts

LEMMA PruneKeepsLeases ==
    ASSUME Typed, NEW t \in Traces, NEW before \in 0..Current(t), Prune(t, before)
    PROVE  KeepsLeases
<1> SUFFICES ASSUME NEW l \in db.leases, l.expires > time, ~Revision(l.trace, l.revision).pruned
             PROVE  /\ ~Revision(l.trace, l.revision)'.pruned
                    /\ \A d \in Revision(l.trace, l.revision).refs :
                          Served(d) /\ ~Served(d)' =>
                              \E k \in Traces \ {l.trace} : \E b \in 0..Current(k) :
                                  Prune(k, b) \/ PruneCut(k, b)
  BY DEF KeepsLeases
<1>1. /\ db'.revisions = [db.revisions EXCEPT ![t] = Thinned(t, before)]
      /\ db'.rows = Cleared(t)
      /\ files \ PlannedArtifacts(t) \subseteq files'
  <2>1. /\ db'.revisions = [db.revisions EXCEPT ![t] = Thinned(t, before)]
        /\ db'.rows = Cleared(t)
    BY PruneEffect
  <2>2. files \ PlannedArtifacts(t) \subseteq files'
    BY DEF Prune
  <2> QED
    BY <2>1, <2>2
<1>2. db \in Databases
  BY DEF Typed, TypeOK
<1>3. db.revisions \in [Traces -> Revisions]
  BY <1>2, DbFields
<1>4. CASE l.trace # t
  <2>1. db'.revisions[l.trace] = db.revisions[l.trace]
    BY <1>1, <1>3, <1>4, LeaseTyped
  <2>2. ~Revision(l.trace, l.revision)'.pruned
    BY <2>1, LeaseTyped
  <2> QED
    BY <1>4, <2>2
<1>5. CASE l.trace = t
  <2>1. db'.revisions[t] = Thinned(t, before)
    <3>1. db'.revisions = [db.revisions EXCEPT ![t] = Thinned(t, before)]
      BY <1>1
    <3> QED
      BY ONLY t \in Traces, <1>3, <3>1
  <2>2. l.revision + 1 - 1 \notin PlannedRevisions(t, before)
    <3>1. l.revision \in Nat
      BY LeaseTyped
    <3>2. l.revision + 1 - 1 = l.revision
      BY <3>1
    <3>3. l.revision \notin PlannedRevisions(l.trace, before)
      BY PlanSparesLeases
    <3> QED
      BY <1>5, <3>2, <3>3
  <2>3. Thinned(t, before)[l.revision + 1] = db.revisions[t][l.revision + 1]
    BY <1>5, <2>2, LeaseTyped DEF Thinned
  <2>4. ~Revision(l.trace, l.revision)'.pruned
    BY <1>5, <2>1, <2>3, LeaseTyped
  <2>5. \A d \in Revision(l.trace, l.revision).refs : Served(d) => Served(d)'
    <3> SUFFICES ASSUME NEW d \in Revision(l.trace, l.revision).refs, Served(d) PROVE Served(d)'
      OBVIOUS
    <3>1. d \notin PlannedArtifacts(t)
      BY <1>5, PlanSparesLeases
    <3>2. d \in Digests
      BY LeaseTyped DEF Row
    <3>3. db'.rows[d] = db.rows[d] /\ (d \in files => d \in files')
      BY <1>1, <3>1, <3>2 DEF Cleared
    <3> QED
      BY <3>3 DEF Served, Available
  <2> QED
    BY <2>4, <2>5
<1> QED
  BY <1>4, <1>5

LEMMA PruneCutKeepsLeases ==
    ASSUME Typed, NEW t \in Traces, NEW before \in 0..Current(t), PruneCut(t, before)
    PROVE  KeepsLeases
<1> SUFFICES ASSUME NEW l \in db.leases, l.expires > time, ~Revision(l.trace, l.revision).pruned
             PROVE  /\ ~Revision(l.trace, l.revision)'.pruned
                    /\ \A d \in Revision(l.trace, l.revision).refs :
                          Served(d) /\ ~Served(d)' =>
                              \E k \in Traces \ {l.trace} : \E b \in 0..Current(k) :
                                  Prune(k, b) \/ PruneCut(k, b)
  BY DEF KeepsLeases
<1>1. db' = db /\ files \ PlannedArtifacts(t) \subseteq files'
  BY DEF PruneCut
<1>2. ~Revision(l.trace, l.revision)'.pruned
  BY <1>1, LeaseTyped
<1>3. CASE l.trace # t
  BY <1>2, <1>3
<1>4. CASE l.trace = t
  <2>1. \A d \in Revision(l.trace, l.revision).refs : Served(d) => Served(d)'
    BY <1>1, <1>4, PlanSparesLeases DEF Served, Available
  <2> QED
    BY <1>2, <2>1
<1> QED
  BY <1>3, <1>4

LEMMA WorkKeepsLeases == Typed /\ Work => KeepsLeases
<1> SUFFICES ASSUME Typed, Work PROVE KeepsLeases
  OBVIOUS
<1>1. db \in Databases
  BY DEF Typed, TypeOK
<1>2. db.revisions \in [Traces -> Revisions] /\ \A t \in Traces : db.revisions[t] \in Seq(Row)
  BY <1>1, DbFields DEF Revisions
<1>3. ASSUME NEW t \in Traces, TraceCreate(t) PROVE KeepsLeases
  <2>1. /\ db.revisions[t] = <<>>
        /\ db'.rows = db.rows
        /\ \A k \in Traces \ {t} : db'.revisions[k] = db.revisions[k]
    <3>1. /\ db.revisions[t] = <<>> /\ db'.rows = db.rows
          /\ db'.revisions = [db.revisions EXCEPT ![t] = <<[refs |-> {}, pruned |-> FALSE]>>]
      BY <1>3, TraceCreateEffect
    <3> QED
      BY <1>2, <3>1
  <2>2. DOMAIN db.revisions[t] = {}
    BY <2>1
  <2>3. files' = files
    BY <1>3 DEF TraceCreate
  <2>4. \A d \in Digests : Served(d) => Served(d)'
    BY <2>1, <2>3 DEF Served, Available
  <2> QED
    BY <2>1, <2>2, <2>4, UndisturbedLeases
<1>4. ASSUME NEW i \in Imports, ImportStage(i) PROVE KeepsLeases
  BY <1>4, ImportStageEffect, UnchangedLeases DEF ImportStage
<1>5. ASSUME NEW i \in Staged, ImportCommit(i) PROVE KeepsLeases
  <2>1. PICK refs \in SUBSET Digests :
           db'.revisions = [db.revisions EXCEPT ![Batch[i].trace] =
                               Append(@, [refs |-> refs, pruned |-> FALSE])]
    BY <1>5, ImportCommitEffect
  <2>2. Batch[i].trace \in Traces /\ [refs |-> refs, pruned |-> FALSE] \in Row
    BY BatchAssumption DEF Staged, Row
  <2>3. \A t \in Traces : db'.revisions[t] =
           IF t = Batch[i].trace THEN Append(db.revisions[t], [refs |-> refs, pruned |-> FALSE])
           ELSE db.revisions[t]
    BY <1>2, <2>1, <2>2
  <2>4. \A t \in Traces : \A n \in DOMAIN db.revisions[t] :
           Append(db.revisions[t], [refs |-> refs, pruned |-> FALSE])[n] = db.revisions[t][n]
    BY <1>2, <2>2, Appended
  <2>5. db'.rows = Committed(Batch[i])
    BY <1>5, ImportCommitEffect
  <2>6. files \subseteq files'
    BY <1>5 DEF ImportCommit
  <2>7. \A d \in Digests : Served(d) => Served(d)'
    BY <2>5, <2>6 DEF Served, Available, Committed, NewRows
  <2>8. \A t \in Traces : \A n \in DOMAIN db.revisions[t] : db'.revisions[t][n] = db.revisions[t][n]
    BY <2>3, <2>4
  <2> QED
    BY <2>7, <2>8, UndisturbedLeases
<1>6. ASSUME NEW i \in Staged, ImportCommitBroken(i) PROVE KeepsLeases
  BY <1>6, UnchangedLeases DEF ImportCommitBroken
<1>7. ASSUME Sweep PROVE KeepsLeases
  BY <1>7, SweepEffect, UnchangedLeases DEF Sweep
<1>8. ASSUME SweepKeyless \/ Tick PROVE KeepsLeases
  BY <1>8, UnchangedLeases DEF SweepKeyless, Tick
<1>9. ASSUME NEW t \in Traces, NEW r \in 0..Current(t), ExportCut(t, r) PROVE KeepsLeases
  BY <1>9, ExportCutEffect, UnchangedLeases DEF ExportCut
<1> QED
  BY <1>3, <1>4, <1>5, <1>6, <1>7, <1>8, <1>9, PruneKeepsLeases, PruneCutKeepsLeases DEF Work

LEMMA NextKeepsLeases == Typed /\ [Next]_allVars => [KeepsLeases]_allVars
<1> SUFFICES ASSUME Typed, Next PROVE KeepsLeases
  OBVIOUS
<1>1. ASSUME Work PROVE KeepsLeases
  BY <1>1, WorkKeepsLeases
<1>2. ASSUME InitDb \/ InitPin \/ Stop \/ Backup \/ BackupPin \/ RestoreCut PROVE KeepsLeases
  BY <1>2, UnchangedLeases DEF InitDb, InitPin, Stop, Backup, BackupPin, RestoreCut
<1>3. ASSUME Genesis PROVE KeepsLeases
  BY <1>3, GenesisEffect, UnchangedLeases DEF Genesis
<1>4. ASSUME NEW withKey \in BOOLEAN, Open(withKey) PROVE KeepsLeases
  BY <1>4, UnchangedLeases DEF Open
<1>5. ASSUME RestoreDb PROVE KeepsLeases
  <2>1. epoch \in Nat
    BY BoundsAssumption DEF Typed, TypeOK
  <2> QED
    BY <1>5, <2>1 DEF RestoreDb, KeepsLeases
<1>6. ASSUME NEW d \in left, RestoreFile(d) PROVE KeepsLeases
  BY <1>6, UnchangedLeases DEF RestoreFile
<1>7. ASSUME NEW supplied \in kept \cup {db.log}, RestorePin(supplied) PROVE KeepsLeases
  BY <1>7, UnchangedLeases DEF RestorePin
<1> QED
  BY <1>1, <1>2, <1>3, <1>4, <1>5, <1>6, <1>7 DEF Next

\* An unexpired lease keeps its revision and what the revision refers to, in any
\* workspace and at any time of the prune, except from the prune of another trace
\* (prunePlan).
THEOREM LeasesAreHeld == Spec => LeasesHold
<1>1. LeasesHold <=> [][KeepsLeases]_allVars
  BY DEF LeasesHold, KeepsLeases
<1> QED
  BY <1>1, InitTyped, NextTyped, NextKeepsLeases, PTL DEF Spec
=============================================================================
