---------------------------- MODULE WorkspaceStore ----------------------------
(***************************************************************************)
(* The durable workspace store: the five mutating methods that             *)
(* WorkspaceService.dispatch accepts, the retention sweep that runs before *)
(* them, and the signed audit log they all append to                       *)
(* (packages/sqlite/src/service.ts over the tables of store.ts).           *)
(*                                                                         *)
(* dispatch is synchronous and every method body runs in one               *)
(* BEGIN IMMEDIATE transaction, so a transaction is one step here.  The    *)
(* sweep is a transaction of its own that dispatch runs first: a method    *)
(* step is enabled only when the sweep has nothing left to do, and the     *)
(* clock may advance between the sweep's reading and the method's own.     *)
(* A call that is refused, or that replays a stored response, changes no   *)
(* table and is a stuttering step.                                         *)
(*                                                                         *)
(* A table is a function whose domain is the set of its primary keys.      *)
(* A batch is the normalised content of one stage call; its digest is the  *)
(* batch itself, and so is a graph's hash its content (hashes are taken to *)
(* be injective).                                                          *)
(***************************************************************************)
EXTENDS Integers, Sequences, FiniteSets, Functions

CONSTANTS
    Sources,        \* source ids
    Profiles,       \* the bodies a source id may be registered with
    Traces,         \* trace ids
    Imports,        \* import ids
    Requests,       \* request ids, chosen by clients
    GeneratedId,    \* stands for the request ids the sweep draws for itself
    Batches,        \* the batches clients stage
    SourceCap,      \* 256 in the code
    StageTtl,       \* retention.stage_ttl_seconds
    TicksPerSecond, \* resolution of now(), whose value has a fraction
    MaxClock,       \* bound on the clock, in ticks
    MaxRevision     \* bound on the revision a client may say it expects

AllSteps   == UNION {b.steps : b \in Batches}
AllOrigins == UNION {b.origins : b \in Batches}
Digests    == {a.digest : a \in UNION {b.artifacts : b \in Batches}}
Formats    == {a.format : a \in UNION {b.artifacts : b \in Batches}}

\* A batch's steps carry the batch's own trace and source: normalize writes
\* them from its context (service.ts:555, normalize.ts).  An origin's seq is a
\* decimal counter (schema.ts).
ASSUME BatchAssumption ==
    \A b \in Batches :
        /\ b.trace \in Traces
        /\ b.source \in Sources
        /\ IsFiniteSet(b.steps)
        /\ \A s \in b.steps : s.trace = b.trace /\ s.source = b.source
        /\ \A o \in b.origins : o.seq \in Nat

ASSUME NumberAssumption ==
    /\ StageTtl \in Nat
    /\ TicksPerSecond \in Nat \ {0}
    /\ MaxClock \in Nat
    /\ MaxRevision \in Nat

ASSUME IdAssumption == GeneratedId \notin Requests

VARIABLES
    state,        \* the service: STOPPED, READY or READ_ONLY
    now,          \* wall clock, in ticks
    sources,      \* table sources: id -> body
    traces,       \* table traces: id -> head revision
    natives,      \* table native_traces: <<source, native>> -> trace
    steps,        \* table steps: the rows, their hash being the row
    origins,      \* table origins: the envelopes
    artifacts,    \* table artifacts: digest -> format
    files,        \* digests with a file under artifactsDir
    imports,      \* table imports: id -> row
    revisions,    \* tables revisions, revision_steps, revision_origins
    audit,        \* table audit: the entries in order of seq
    idempotency   \* table idempotency: request id -> row

content == <<natives, steps, origins, artifacts, files, revisions>>
vars == <<state, now, sources, traces, content, imports, audit, idempotency>>

-------------------------------------------------------------------------------
(* Rows. *)

ServiceStates == {"STOPPED", "READY", "READ_ONLY"}
Reasons == {"USER", "EXPIRED", "UNSAID"}

Graphs == [steps : SUBSET AllSteps, origins : SUBSET AllOrigins]

CommitResults ==
    [trace : Traces, revision : Nat, graph : Graphs,
     added : Nat, duplicates : Nat, conflicts : Int, audit : Nat]

\* `result` and `reason` are what the result column holds once the import is
\* decided; a cancellation's stored object may have no reason (UNSAID).
ImportRows ==
    [state : {"STAGED"}, batch : Batches, expires : Nat]
    \cup [state : {"COMMITTED"}, batch : Batches, expires : Nat, result : CommitResults]
    \cup [state : {"CANCELLED"}, batch : Batches, expires : Nat, reason : Reasons]

\* The result is stored and the state is not.
CommittedRowStaged(row, result) ==
    [state |-> "STAGED", batch |-> row.batch, expires |-> row.expires, result |-> result]

CommittedRow(row, result) ==
    [state |-> "COMMITTED", batch |-> row.batch, expires |-> row.expires, result |-> result]

CancelledRow(row, reason) ==
    [state |-> "CANCELLED", batch |-> row.batch, expires |-> row.expires, reason |-> reason]

AuditRequests == Requests \cup {GeneratedId}

AuditEntries ==
    [kind : {"WorkspaceCreated"}, request : AuditRequests]
    \cup [kind : {"SourceRegistered"}, request : AuditRequests, source : Sources, body : Profiles]
    \cup [kind : {"TraceCreated"}, request : AuditRequests, trace : Traces]
    \cup [kind : {"ImportStaged"}, request : AuditRequests, import : Imports, batch : Batches]
    \cup [kind : {"ImportCommitted"}, request : AuditRequests, import : Imports,
          batch : Batches, trace : Traces, revision : Nat, graph : Graphs]
    \cup [kind : {"ImportCancelled"}, request : AuditRequests, import : Imports,
          reason : {"USER", "EXPIRED"}]

RevisionRows == [graph : Graphs, auditSeq : Nat]

\* The table with `row` inserted or updated at `key`.
Put(table, key, row) ==
    [k \in DOMAIN table \cup {key} |-> IF k = key THEN row ELSE table[k]]

EmptyTable == [k \in {} |-> {}]

-------------------------------------------------------------------------------
(* Time. *)

Seconds(t) == t \div TicksPerSecond

\* What this.now() may return to a method whose sweep read the clock at `now`:
\* BEGIN IMMEDIATE may have waited for the database in between.
Readings == now..MaxClock

\* A sweep that forgets which imports are staged.
SweepExpiresDecided(i) == imports[i].expires * TicksPerSecond < now

\* The sweep compares the stored whole second with the clock's fraction...
SweepExpires(i) ==
    /\ imports[i].state = "STAGED"
    /\ imports[i].expires * TicksPerSecond < now

\* A commit that grants a second more than the stage was given.
CommitExpiresLate(i, t) ==
    /\ imports[i].state = "STAGED"
    /\ imports[i].expires < Seconds(t) - 1

\* ...import.commit compares it with the clock's whole second.
CommitExpires(i, t) ==
    /\ imports[i].state = "STAGED"
    /\ imports[i].expires < Seconds(t)

\* A decided import taken for an undecided one.
UndecidedOrCommitted(i) == imports[i].state # "CANCELLED"

Undecided(i) == imports[i].state = "STAGED"

Expired == {i \in DOMAIN imports : SweepExpires(i)}

\* dispatch lets a mutating method run: the service is READY, and the sweep it
\* just ran left no expired stage behind.
Admitted == state = "READY" /\ Expired = {}

-------------------------------------------------------------------------------
(* The audit log and the idempotency table. *)

AppendAudit(entry) == audit' = Append(audit, entry)

\* A lookup that misses the stored response of an earlier call.
FreshAlways(req) == req \in Requests

\* The request id has no stored response; a call that has one is answered from
\* it, or refused with IDEMPOTENCY_CONFLICT, and changes nothing.
Fresh(req) == req \notin DOMAIN idempotency

StoreResponse(req, call, response, seq) ==
    idempotency' =
        Put(idempotency, req, [call |-> call, response |-> response, auditSeq |-> seq])

NextSeq == Len(audit) + 1

\* auditSeqForKind, sourceAuditSeq, traceAuditSeq: where a replayed answer says
\* its audit entry is.  The lookup fails the call when there is none.
Earliest(seqs) == CHOOSE n \in seqs : \A m \in seqs : n <= m

-------------------------------------------------------------------------------
(* source.register and trace.create. *)

RegisterCall(s, body) == [method |-> "source.register", source |-> s, body |-> body]

Registrations(s) ==
    {n \in DOMAIN audit : audit[n].kind = "SourceRegistered" /\ audit[n].source = s}

SourceRegister(req, s, body) ==
    /\ Admitted
    /\ Fresh(req)
    /\ s \notin DOMAIN sources
    /\ Cardinality(DOMAIN sources) < SourceCap
    /\ sources' = Put(sources, s, body)
    /\ AppendAudit([kind |-> "SourceRegistered", request |-> req, source |-> s, body |-> body])
    /\ StoreResponse(req, RegisterCall(s, body), body, NextSeq)
    /\ UNCHANGED <<state, now, traces, content, imports>>

\* The same body again, under another request id: the stored source is the
\* answer.  Another body is refused (SOURCE_CONFLICT).
SourceRegisterAgain(req, s, body) ==
    /\ Admitted
    /\ Fresh(req)
    /\ s \in DOMAIN sources
    /\ sources[s] = body
    /\ Registrations(s) # {}
    /\ StoreResponse(req, RegisterCall(s, body), sources[s], Earliest(Registrations(s)))
    /\ UNCHANGED <<state, now, sources, traces, content, imports, audit>>

CreateCall(tr) == [method |-> "trace.create", trace |-> tr]
Creations(tr) ==
    {n \in DOMAIN audit : audit[n].kind = "TraceCreated" /\ audit[n].trace = tr}

EmptyGraph == [steps |-> {}, origins |-> {}]

TraceCreate(req, tr) ==
    /\ Admitted
    /\ Fresh(req)
    /\ tr \notin DOMAIN traces
    /\ traces' = Put(traces, tr, 0)
    /\ AppendAudit([kind |-> "TraceCreated", request |-> req, trace |-> tr])
    /\ revisions' = Put(revisions, <<tr, 0>>, [graph |-> EmptyGraph, auditSeq |-> NextSeq])
    /\ StoreResponse(req, CreateCall(tr), 0, NextSeq)
    /\ UNCHANGED <<state, now, sources, natives, steps, origins, artifacts, files, imports>>

\* A known trace answers with its revision 0, whatever its head is by now.
TraceCreateAgain(req, tr) ==
    /\ Admitted
    /\ Fresh(req)
    /\ tr \in DOMAIN traces
    /\ Creations(tr) # {}
    /\ StoreResponse(req, CreateCall(tr), 0, Earliest(Creations(tr)))
    /\ UNCHANGED <<state, now, sources, traces, content, imports, audit>>

-------------------------------------------------------------------------------
(* import.stage. *)

StageCall(i, b) == [method |-> "import.stage", import |-> i, batch |-> b]

TraceSteps(tr) == {s \in steps : s.trace = tr}

OneNativeTrace(b) == \A s, u \in b.steps : s.native = u.native

\* `ahead` attests a step of `pool` at or beyond o's place in o's stream.
Caps(ahead, o, pool) ==
    /\ ahead.source = o.source
    /\ ahead.stream = o.stream
    /\ ahead.seq >= o.seq
    /\ ahead.step \in pool

\* originOk: an origin attests a staged or stored step of the trace, or precedes
\* an origin, staged with it or stored, that does.
OriginReferenced(o, b) ==
    \/ o.step \in b.steps \cup TraceSteps(b.trace)
    \/ \E ahead \in b.origins : Caps(ahead, o, b.steps \cup TraceSteps(b.trace))
    \/ \E ahead \in origins : Caps(ahead, o, TraceSteps(b.trace))

\* The reference an artifact is held against is the last one the loops over the
\* staged and then the stored steps met; the rows come in no particular order.
ArtifactRefs(d, b) ==
    LET Refs(pool) == {r \in UNION {s.refs : s \in pool} : r.digest = d}
    IN  IF Refs(TraceSteps(b.trace)) # {} THEN Refs(TraceSteps(b.trace)) ELSE Refs(b.steps)

ArtifactAccepted(a, b) ==
    /\ \E r \in ArtifactRefs(a.digest, b) : r.format = a.format
    /\ a.digest \in DOMAIN artifacts => artifacts[a.digest] = a.format

\* Everything stage checks before its transaction, storage pressure aside (a
\* refusal the environment may choose at any time).
Stageable(b) ==
    /\ b.source \in DOMAIN sources
    /\ b.trace \in DOMAIN traces
    /\ OneNativeTrace(b)
    /\ \A o \in b.origins : o.source \in DOMAIN sources /\ OriginReferenced(o, b)
    /\ \A a \in b.artifacts : ArtifactAccepted(a, b)

StageResult(i, b) == [import |-> i, batch |-> b, rows |-> Cardinality(b.steps)]

ImportStage(req, i, b) ==
    /\ Admitted
    /\ Fresh(req)
    /\ Stageable(b)
    /\ i \notin DOMAIN imports
    /\ \E t \in Readings :
          /\ now' = t
          /\ imports' = Put(imports, i, [state |-> "STAGED", batch |-> b,
                                         expires |-> Seconds(t) + StageTtl])
    /\ AppendAudit([kind |-> "ImportStaged", request |-> req, import |-> i, batch |-> b])
    /\ StoreResponse(req, StageCall(i, b), StageResult(i, b), NextSeq)
    /\ UNCHANGED <<state, sources, traces, content>>

Stagings(i) ==
    {n \in DOMAIN audit : audit[n].kind = "ImportStaged" /\ audit[n].import = i}

\* The same batch under a known import id answers with the stored stage result,
\* whatever became of the import; another batch is refused (IMPORT_CONFLICT).
ImportStageAgain(req, i, b) ==
    /\ Admitted
    /\ Fresh(req)
    /\ Stageable(b)
    /\ i \in DOMAIN imports
    /\ imports[i].batch = b
    /\ Stagings(i) # {}
    /\ StoreResponse(req, StageCall(i, b), StageResult(i, b), Earliest(Stagings(i)))
    /\ UNCHANGED <<state, now, sources, traces, content, imports, audit>>

-------------------------------------------------------------------------------
(* import.commit. *)

CommitCall(i, expected) == [method |-> "import.commit", import |-> i, expected |-> expected]

\* Bindings that look at native traces only.
NativesAgree(b) ==
    \A s \in b.steps :
        <<s.source, s.native>> \in DOMAIN natives => natives[<<s.source, s.native>>] = b.trace

\* No native trace and no record of the batch belongs to another trace.
BindingsAgree(b) ==
    \A s \in b.steps :
        /\ <<s.source, s.native>> \in DOMAIN natives => natives[<<s.source, s.native>>] = b.trace
        /\ \A p \in steps : p.source = s.source /\ p.record = s.record => p.trace = b.trace

Bound(b) ==
    LET keys == {<<s.source, s.native>> : s \in b.steps}
    IN  [k \in DOMAIN natives \cup keys |->
            IF k \in DOMAIN natives THEN natives[k] ELSE b.trace]

\* A digest that already has a row keeps it.
WithArtifacts(b) ==
    [d \in DOMAIN artifacts \cup {a.digest : a \in b.artifacts} |->
        IF d \in DOMAIN artifacts
        THEN artifacts[d]
        ELSE (CHOOSE a \in b.artifacts : a.digest = d).format]

NewDigests(b) == {a.digest : a \in b.artifacts} \ DOMAIN artifacts

\* Pins only what attests a step of the revision.
PinnedAttesting(all, pool) == {o \in all : o.step \in pool}

\* The origins a revision pins: those capped by one that attests a step of it.
Pinned(all, pool) == {o \in all : \E ahead \in all : Caps(ahead, o, pool)}

\* A graph of the import alone.
GraphOfBatch(b) == [steps |-> b.steps, origins |-> Pinned(origins \cup b.origins, b.steps)]

GraphAfter(b) ==
    LET pool == {s \in steps \cup b.steps : s.trace = b.trace}
    IN  [steps |-> pool, origins |-> Pinned(origins \cup b.origins, pool)]

\* Rows added, and how many of them are a further version of their record.
AddedSteps(b) == b.steps \ steps

\* Counts the new steps, not the new records.
FirstVersionsPerStep(b) ==
    {s \in AddedSteps(b) : \A p \in steps : <<p.source, p.record>> # <<s.source, s.record>>}

FirstVersions(b) ==
    {<<s.source, s.record>> : s \in AddedSteps(b)} \ {<<p.source, p.record>> : p \in steps}

\* The head's own number, used again.
SameRevision(tr) == traces[tr]

NextRevision(tr) == traces[tr] + 1

CommitResult(b) ==
    [trace |-> b.trace, revision |-> NextRevision(b.trace), graph |-> GraphAfter(b),
     added |-> Cardinality(AddedSteps(b)),
     duplicates |-> Cardinality(b.steps \cap steps),
     conflicts |-> Cardinality(AddedSteps(b)) - Cardinality(FirstVersions(b)),
     audit |-> NextSeq]

\* A commit that does not look where it lands.
HeadIsAny(tr, expected) == traces[tr] \in Nat

HeadIs(tr, expected) == traces[tr] = expected

\* execCommit on a staged import, from the revision check to the imports row.
ImportCommit(req, i, expected) ==
    LET b == imports[i].batch
        result == CommitResult(b)
    IN  /\ Admitted
        /\ i \in DOMAIN imports
        /\ Undecided(i)
        /\ \E t \in Readings : ~CommitExpires(i, t) /\ now' = t
        /\ Fresh(req)
        /\ HeadIs(b.trace, expected)
        /\ BindingsAgree(b)
        /\ steps' = steps \cup b.steps
        /\ natives' = Bound(b)
        /\ origins' = origins \cup b.origins
        /\ artifacts' = WithArtifacts(b)
        /\ files' = files \cup NewDigests(b)
        /\ AppendAudit([kind |-> "ImportCommitted", request |-> req, import |-> i, batch |-> b,
                        trace |-> b.trace, revision |-> result.revision, graph |-> result.graph])
        /\ revisions' = Put(revisions, <<b.trace, result.revision>>,
                            [graph |-> result.graph, auditSeq |-> NextSeq])
        /\ traces' = Put(traces, b.trace, result.revision)
        /\ imports' = Put(imports, i, CommittedRow(imports[i], result))
        /\ StoreResponse(req, CommitCall(i, expected), result, NextSeq)
        /\ UNCHANGED <<state, sources>>

\* A commit that finds the stage past its time cancels it, and fails: the
\* cancellation stays, and the request id gets no stored response.
ImportCommitExpired(req, i) ==
    /\ Admitted
    /\ i \in DOMAIN imports
    /\ \E t \in Readings : CommitExpires(i, t) /\ now' = t
    /\ imports' = Put(imports, i, CancelledRow(imports[i], "EXPIRED"))
    /\ AppendAudit([kind |-> "ImportCancelled", request |-> req, import |-> i, reason |-> "EXPIRED"])
    /\ UNCHANGED <<state, sources, traces, content, idempotency>>

Commits(i) ==
    {n \in DOMAIN audit : audit[n].kind = "ImportCommitted" /\ audit[n].import = i}

\* Another request commits a committed import: the stored result is the answer,
\* and its expected revision is not looked at.
ImportCommitAgain(req, i, expected) ==
    /\ Admitted
    /\ Fresh(req)
    /\ i \in DOMAIN imports
    /\ imports[i].state = "COMMITTED"
    /\ Commits(i) # {}
    /\ StoreResponse(req, CommitCall(i, expected), imports[i].result, Earliest(Commits(i)))
    /\ UNCHANGED <<state, now, sources, traces, content, imports, audit>>

\* A write fails, or the process dies, inside the transaction of a commit: SQLite
\* rolls it back, and the artifact files already renamed into place stay.
CommitBroken(i) ==
    /\ Admitted
    /\ i \in DOMAIN imports
    /\ Undecided(i)
    /\ BindingsAgree(imports[i].batch)
    /\ \E written \in SUBSET NewDigests(imports[i].batch) : files' = files \cup written
    /\ state' \in {"READY", "STOPPED"}
    /\ UNCHANGED <<now, sources, traces, natives, steps, origins, artifacts, revisions,
                   imports, audit, idempotency>>

-------------------------------------------------------------------------------
(* import.cancel, and the retention sweep. *)

CancelCall(i) == [method |-> "import.cancel", import |-> i]

ImportCancel(req, i) ==
    /\ Admitted
    /\ Fresh(req)
    /\ i \in DOMAIN imports
    /\ Undecided(i)
    /\ AppendAudit([kind |-> "ImportCancelled", request |-> req, import |-> i, reason |-> "USER"])
    /\ imports' = Put(imports, i, CancelledRow(imports[i], "USER"))
    /\ StoreResponse(req, CancelCall(i), i, NextSeq)
    /\ UNCHANGED <<state, now, sources, traces, content>>

Cancellations(i) ==
    {n \in DOMAIN audit : audit[n].kind = "ImportCancelled" /\ audit[n].import = i}

ImportCancelAgain(req, i) ==
    /\ Admitted
    /\ Fresh(req)
    /\ i \in DOMAIN imports
    /\ imports[i].state = "CANCELLED"
    /\ Cancellations(i) # {}
    /\ StoreResponse(req, CancelCall(i), i, Earliest(Cancellations(i)))
    /\ UNCHANGED <<state, now, sources, traces, content, imports, audit>>

\* The orders in which a SELECT may return a finite set of rows.
Orders(S) == {f \in [1..Cardinality(S) -> S] : \A m, n \in DOMAIN f : f[m] = f[n] => m = n}

\* sweepExpiredStages: every expired stage is cancelled in one transaction, with
\* an audit entry each.  The stored result has no reason.
Sweep ==
    /\ state = "READY"
    /\ Expired # {}
    /\ imports' = [i \in DOMAIN imports |->
                     IF i \in Expired THEN CancelledRow(imports[i], "UNSAID") ELSE imports[i]]
    /\ \E order \in Orders(Expired) :
          audit' = audit \o [n \in 1..Cardinality(Expired) |->
                      [kind |-> "ImportCancelled", request |-> GeneratedId,
                       import |-> order[n], reason |-> "EXPIRED"]]
    /\ UNCHANGED <<state, now, sources, traces, content, idempotency>>

-------------------------------------------------------------------------------
(* The process and the clock. *)

\* The constructor opens the store writable, or READ_ONLY when the recovery pin
\* or the storage pressure says so.
Open ==
    /\ state = "STOPPED"
    /\ state' \in {"READY", "READ_ONLY"}
    /\ UNCHANGED <<now, sources, traces, content, imports, audit, idempotency>>

\* close(), or a crash outside every transaction.
Stop ==
    /\ state # "STOPPED"
    /\ state' = "STOPPED"
    /\ UNCHANGED <<now, sources, traces, content, imports, audit, idempotency>>

Tick ==
    /\ now < MaxClock
    /\ now' = now + 1
    /\ UNCHANGED <<state, sources, traces, content, imports, audit, idempotency>>

-------------------------------------------------------------------------------

\* WorkspaceService.create: an empty store but for the genesis audit entry, and
\* its service READY.
Init ==
    /\ state = "READY"
    /\ now = 0
    /\ sources = EmptyTable
    /\ traces = EmptyTable
    /\ natives = EmptyTable
    /\ steps = {}
    /\ origins = {}
    /\ artifacts = EmptyTable
    /\ files = {}
    /\ imports = EmptyTable
    /\ revisions = EmptyTable
    /\ audit = <<[kind |-> "WorkspaceCreated", request |-> GeneratedId]>>
    /\ idempotency = EmptyTable

Next ==
    \/ \E req \in Requests :
          \/ \E s \in Sources, body \in Profiles :
                SourceRegister(req, s, body) \/ SourceRegisterAgain(req, s, body)
          \/ \E tr \in Traces : TraceCreate(req, tr) \/ TraceCreateAgain(req, tr)
          \/ \E i \in Imports, b \in Batches :
                ImportStage(req, i, b) \/ ImportStageAgain(req, i, b)
          \/ \E i \in Imports :
                \/ \E expected \in 0..MaxRevision :
                      ImportCommit(req, i, expected) \/ ImportCommitAgain(req, i, expected)
                \/ ImportCommitExpired(req, i)
                \/ ImportCancel(req, i)
                \/ ImportCancelAgain(req, i)
    \/ \E i \in Imports : CommitBroken(i)
    \/ Sweep
    \/ Open
    \/ Stop
    \/ Tick

Spec == Init /\ [][Next]_vars

-------------------------------------------------------------------------------
(* Types. *)

IsTable(table) == table = [k \in DOMAIN table |-> table[k]]

IsTableOf(table, Keys, Rows) ==
    /\ IsTable(table)
    /\ DOMAIN table \subseteq Keys
    /\ \A k \in DOMAIN table : table[k] \in Rows

\* Every table holds rows of its type, the log is a sequence of entries, and the
\* clock and the service are what they may be.
TypeOK ==
    /\ state \in ServiceStates
    /\ now \in Nat
    /\ IsTableOf(sources, Sources, Profiles)
    /\ IsTableOf(traces, Traces, Nat)
    /\ IsTableOf(natives, {<<s.source, s.native>> : s \in AllSteps}, Traces)
    /\ steps \subseteq AllSteps
    /\ origins \subseteq AllOrigins
    /\ IsTableOf(artifacts, Digests, Formats)
    /\ files \subseteq Digests
    /\ IsTableOf(imports, Imports, ImportRows)
    /\ IsFiniteSet(DOMAIN imports)
    /\ IsTableOf(revisions, Traces \X Nat, RevisionRows)
    /\ audit \in Seq(AuditEntries)
    /\ IsTable(idempotency)
    /\ DOMAIN idempotency \subseteq Requests
    /\ \A r \in DOMAIN idempotency : idempotency[r].auditSeq \in Nat

-------------------------------------------------------------------------------
(* What must hold of the store. *)

\* entry publishes revision n of the trace with this graph.
Publishes(entry, tr, n, graph) ==
    \/ /\ entry.kind = "TraceCreated"
       /\ entry.trace = tr
       /\ n = 0
       /\ graph = EmptyGraph
    \/ /\ entry.kind = "ImportCommitted"
       /\ entry.trace = tr
       /\ entry.revision = n
       /\ entry.graph = graph

\* A trace's revisions are numbered from 0 to its head without a hole.
RevisionsDense ==
    /\ \A key \in DOMAIN revisions : key[1] \in DOMAIN traces /\ key[2] <= traces[key[1]]
    /\ \A tr \in DOMAIN traces : \A n \in 0..traces[tr] : <<tr, n>> \in DOMAIN revisions

\* Each revision row names the audit entry that publishes exactly its graph:
\* what execBundleExport searches the log for.
RevisionsSigned ==
    \A key \in DOMAIN revisions :
        LET row == revisions[key]
        IN  /\ row.auditSeq \in DOMAIN audit
            /\ Publishes(audit[row.auditSeq], key[1], key[2], row.graph)

\* Two audit entries never publish the same revision of a trace: two commits
\* that expected one head cannot both go through, and a retried commit signs
\* nothing.
PublishedOnce ==
    \A m, n \in DOMAIN audit :
        /\ audit[m].kind = "ImportCommitted"
        /\ audit[n].kind = "ImportCommitted"
        /\ audit[m].trace = audit[n].trace
        /\ audit[m].revision = audit[n].revision
        => m = n

\* The log, the revision rows and the trace heads tell one history.
HistoryAudited == RevisionsDense /\ RevisionsSigned /\ PublishedOnce

Committed == {i \in DOMAIN imports : imports[i].state = "COMMITTED"}

\* Committed imports and the revisions after 0 correspond one to one, the stored
\* result is that of the revision, and the call that is signed for it expected
\* the revision just before: no update is lost, and none happens twice.
CommitsAreRevisions ==
    /\ \A i \in Committed :
          LET result == imports[i].result
          IN  /\ result.trace = imports[i].batch.trace
              /\ <<result.trace, result.revision>> \in DOMAIN revisions
              /\ revisions[<<result.trace, result.revision>>] =
                    [graph |-> result.graph, auditSeq |-> result.audit]
              /\ audit[result.audit].import = i
              /\ LET signer == audit[result.audit].request
                 IN  /\ signer \in DOMAIN idempotency
                     /\ idempotency[signer].call = CommitCall(i, result.revision - 1)
    /\ \A key \in DOMAIN revisions :
          key[2] > 0 => \E i \in Committed :
                           <<imports[i].result.trace, imports[i].result.revision>> = key

\* A later revision of a trace holds all that an earlier one did, and the head
\* holds every step stored for the trace.
RevisionsGrow ==
    \A tr \in DOMAIN traces :
        /\ revisions[<<tr, traces[tr]>>].graph.steps = TraceSteps(tr)
        /\ \A m, n \in 0..traces[tr] :
              m <= n =>
                /\ revisions[<<tr, m>>].graph.steps \subseteq revisions[<<tr, n>>].graph.steps
                /\ revisions[<<tr, m>>].graph.origins \subseteq revisions[<<tr, n>>].graph.origins

\* What stage checked still holds when commit relies on it, however many other
\* imports were committed in between: every origin and step of a committed batch
\* is in the revision it made, and every artifact has a row and a file.
NothingStagedIsDropped ==
    \A i \in Committed :
        LET b == imports[i].batch
        IN  /\ b.steps \subseteq imports[i].result.graph.steps
            /\ b.origins \subseteq imports[i].result.graph.origins
            /\ \A a \in b.artifacts : a.digest \in DOMAIN artifacts \cap files

\* A provider's record, and its native trace, live in one trace only.
OneTracePerRecord ==
    /\ \A s, u \in steps : s.source = u.source /\ s.record = u.record => s.trace = u.trace
    /\ \A s \in steps :
          /\ <<s.source, s.native>> \in DOMAIN natives
          /\ natives[<<s.source, s.native>>] = s.trace

CommitsOf(tr) == {i \in Committed : imports[i].batch.trace = tr}
RecordsOf(S) == {<<s.source, s.record>> : s \in S}

\* Every stored step was reported as added by exactly one commit, and of one
\* record every stored version but the first was reported as a conflict: the
\* counts that callers were given, over any number of commits, add up to what
\* the store holds (execCommit's added and conflicts).
CountsAccount ==
    \A tr \in DOMAIN traces :
        /\ SumFunction([i \in CommitsOf(tr) |-> imports[i].result.added]) =
              Cardinality(TraceSteps(tr))
        /\ SumFunction([i \in CommitsOf(tr) |-> imports[i].result.conflicts]) =
              Cardinality(TraceSteps(tr)) - Cardinality(RecordsOf(TraceSteps(tr)))

\* The row stored for a call is the answer the store still stands by, and the
\* audit entry it names is the one that made it so.
AnswerStands(row) ==
    LET call == row.call
        entry == audit[row.auditSeq]
    IN  CASE call.method = "source.register" ->
                /\ call.source \in DOMAIN sources
                /\ row.response = sources[call.source]
                /\ entry.kind = "SourceRegistered"
                /\ entry.source = call.source
          [] call.method = "trace.create" ->
                /\ call.trace \in DOMAIN traces
                /\ entry.kind = "TraceCreated"
                /\ entry.trace = call.trace
          [] call.method = "import.stage" ->
                /\ call.import \in DOMAIN imports
                /\ imports[call.import].batch = call.batch
                /\ entry.kind = "ImportStaged"
                /\ entry.import = call.import
          [] call.method = "import.commit" ->
                /\ call.import \in Committed
                /\ row.response = imports[call.import].result
                /\ row.response.audit = row.auditSeq
                /\ entry.kind = "ImportCommitted"
                /\ entry.import = call.import
          [] call.method = "import.cancel" ->
                /\ call.import \in DOMAIN imports
                /\ imports[call.import].state = "CANCELLED"
                /\ entry.kind = "ImportCancelled"
                /\ entry.import = call.import

\* A retry, at any later time and after any other calls, is answered with what
\* still is the case.
RetriesStand ==
    \A r \in DOMAIN idempotency :
        idempotency[r].auditSeq \in DOMAIN audit /\ AnswerStands(idempotency[r])

\* The log says of an import what its row says: staged once, and then decided
\* at most once, after it was staged, and cancelled for the reason that the row
\* has; only one that has expired has none.
Decisions(i) == Commits(i) \cup Cancellations(i)

ReasonOf(row) == IF row.reason = "UNSAID" THEN "EXPIRED" ELSE row.reason

LogDecidesImports ==
    /\ \A n \in DOMAIN audit :
          audit[n].kind \in {"ImportStaged", "ImportCommitted", "ImportCancelled"}
              => audit[n].import \in DOMAIN imports
    /\ \A i \in DOMAIN imports :
          /\ Cardinality(Stagings(i)) = 1
          /\ \A n \in Decisions(i), m \in Stagings(i) : m < n
          /\ Cardinality(Commits(i)) = IF imports[i].state = "COMMITTED" THEN 1 ELSE 0
          /\ Cardinality(Cancellations(i)) = IF imports[i].state = "CANCELLED" THEN 1 ELSE 0
          /\ \A n \in Cancellations(i) : audit[n].reason = ReasonOf(imports[i])

\* What is decided stays decided: no step changes a decided import, a published
\* revision, a stored response or a signed entry.
NothingRewritten ==
    [][/\ \A i \in DOMAIN imports :
             /\ i \in DOMAIN imports'
             /\ imports[i].state # "STAGED" => imports'[i] = imports[i]
             /\ imports'[i].batch = imports[i].batch
       /\ \A key \in DOMAIN revisions : key \in DOMAIN revisions' /\ revisions'[key] = revisions[key]
       /\ \A r \in DOMAIN idempotency :
             r \in DOMAIN idempotency' /\ idempotency'[r] = idempotency[r]
       /\ Len(audit) <= Len(audit')
       /\ SubSeq(audit', 1, Len(audit)) = audit]_vars

\* Time decides as the two clocks say: a commit never takes a stage past its
\* time, and EXPIRED is never said of a stage that still has time.
ExpiryRespected ==
    [][\A i \in DOMAIN imports :
          imports[i].state = "STAGED" =>
            /\ imports'[i].state = "COMMITTED" => Seconds(now') <= imports[i].expires
            /\ imports'[i].state = "CANCELLED" /\ imports'[i].reason \in {"EXPIRED", "UNSAID"}
                  => imports[i].expires * TicksPerSecond < now']_vars

-------------------------------------------------------------------------------
(* The store implements the ledger. *)

ImportOf(tr, n) == CHOOSE i \in Committed : imports[i].result.trace = tr /\ imports[i].result.revision = n

Ledger == INSTANCE TraceLedger WITH
    ledger  <- [tr \in DOMAIN traces |->
                  [n \in 1..traces[tr] |->
                     [import |-> ImportOf(tr, n), steps |-> revisions[<<tr, n>>].graph.steps]]],
    offered <- [i \in DOMAIN imports |-> imports[i].batch],
    fate    <- [i \in DOMAIN imports |-> imports[i].state]

\* Whatever the interleaving of clients, retries, crashes and the clock, clients
\* see a ledger: each trace's revisions are the committed imports in one order,
\* every entry holds the one before, and an import is decided once.
ImplementsLedger == Ledger!LedgerSpec

===============================================================================
