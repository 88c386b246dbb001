------------------------------- MODULE Retention -------------------------------
(***************************************************************************)
(* What a workspace keeps and what it gives up: artifact rows and their    *)
(* files, leases, and the command prune (prunePlan and applyPrune in       *)
(* packages/sqlite/src/maintenance.ts), together with the operations of    *)
(* packages/sqlite/src/service.ts that decide what a prune may take: the   *)
(* stage and the commit of an import, the sweep, and the exports.          *)
(*                                                                         *)
(* The writer lock admits one process at a time, and in it one dispatch at *)
(* a time, so an operation is a step unless it is cut off.  The database   *)
(* changes in transactions; the artifact files are outside of it, and a    *)
(* prune removes them before it commits.                                   *)
(*                                                                         *)
(* The state of the process is opened, and the directory replaced, by      *)
(* module Recovery, which extends this one.                                *)
(***************************************************************************)
EXTENDS Integers, Sequences, FiniteSets

CONSTANTS
    Traces,           \* trace ids
    Digests,          \* digests of artifacts
    Imports,          \* import ids
    Batch,            \* what each brings: the trace, the digests that its steps
                      \* refer to, and those that come with their bytes
    NoRow,            \* a digest without a row in table artifacts
    HistoryRevisions, \* retention.history_revisions
    ArtifactAge,      \* retention.artifacts_days, in ticks
    LeaseTime,        \* 60 seconds in the code, in ticks
    StageTtl,         \* retention.stage_ttl_seconds, in ticks
    MaxTime,          \* bound on the clock
    Bounds            \* bounds of a behaviour: the traces and the imports there
                      \* may be, the length of the log, the leases that crashes
                      \* leave behind, and the restores

ASSUME BatchAssumption ==
    /\ IsFiniteSet(Imports)
    /\ Batch \in [Imports -> [trace : Traces, refs : SUBSET Digests, supplied : SUBSET Digests]]

ASSUME NoRowAssumption == NoRow \notin [state : {"AVAILABLE", "PRUNED"}, created : Int]

ASSUME NumberAssumption ==
    /\ HistoryRevisions \in Nat
    /\ ArtifactAge \in Nat
    /\ LeaseTime \in Nat
    /\ StageTtl \in Nat
    /\ MaxTime \in Nat

ASSUME BoundsAssumption ==
    Bounds \subseteq [traces : SUBSET Traces, imports : SUBSET Imports, entries : Nat, leases : Nat,
                epochs : Nat]

VARIABLES
    bounds, \* which of Bounds this behaviour is explored within
    time,   \* the clock
    state,  \* the process at work, if any: see States
    keyed,  \* whether it was opened with the audit key
    db,     \* the database
    files,  \* digests with a file below artifactsDir
    epoch,  \* how often the directory was replaced: stands for request ids,
            \* which are new each time
    lost    \* history: files removed or left out by an operation cut off

vars == <<bounds, time, state, keyed, db, files, epoch, lost>>

-------------------------------------------------------------------------------
(* Tables. *)

\* ABSENT: there is no database; NONE: there is, and nobody has it open.
States == {"ABSENT", "NONE", "CREATING", "READY", "READ_ONLY", "PINNING"}

ArtifactRows == [state : {"AVAILABLE", "PRUNED"}, created : Int]

\* A hash is what precedes it, so an entry has none here.
Entries ==
    [kind : {"WorkspaceCreated"}, epoch : Nat]
    \cup [kind : {"TraceCreated"}, epoch : Nat, trace : Traces]
    \cup [kind : {"ImportStaged", "ImportCancelled"}, epoch : Nat, import : Imports]
    \cup [kind : {"ImportCommitted"}, epoch : Nat, import : Imports, trace : Traces, revision : Nat]
    \cup [kind : {"RetentionPruned"}, epoch : Nat, trace : Traces,
          revisions : SUBSET Nat, artifacts : SUBSET Digests]

\* A revision is its steps' references to artifacts; a trace without any
\* revision was not created, nor an import that is NEW staged.
Databases ==
    [revisions : [Traces -> Seq([refs : SUBSET Digests, pruned : BOOLEAN])],
     rows      : [Digests -> ArtifactRows \cup {NoRow}],
     imports   : [Imports -> [state : {"NEW", "STAGED", "DECIDED"}, expires : Int]],
     leases    : SUBSET [trace : Traces, revision : Nat, expires : Int],
     log       : Seq(Entries)]

EmptyDb ==
    [revisions |-> [t \in Traces |-> <<>>], rows |-> [d \in Digests |-> NoRow],
     imports |-> [i \in Imports |-> [state |-> "NEW", expires |-> 0]], leases |-> {}, log |-> <<>>]

Current(t) == Len(db.revisions[t]) - 1
Revision(t, r) == db.revisions[t][r + 1]

Available(d) == db.rows[d] # NoRow /\ db.rows[d].state = "AVAILABLE"

\* The bytes that an export with INCLUDE can hand out.
Served(d) == Available(d) /\ d \in files

WithRoom == Len(db.log) < bounds.entries

Log(entry) == Append(db.log, entry)

\* openService for a command that writes, and a workspace that lets it.
Writable == state = "READY" /\ keyed

Closed == state' = "NONE" /\ keyed' = FALSE

-------------------------------------------------------------------------------
(* Traces and imports. *)

Staged == {i \in Imports : db.imports[i].state = "STAGED"}

Expired == {i \in Staged : db.imports[i].expires < time}

TraceCreate(t) ==
    /\ Writable
    /\ WithRoom
    /\ Expired = {}
    /\ t \in bounds.traces
    /\ db.revisions[t] = <<>>
    /\ db' = [db EXCEPT !.revisions[t] = <<[refs |-> {}, pruned |-> FALSE]>>,
                        !.log = Log([kind |-> "TraceCreated", epoch |-> epoch, trace |-> t])]
    /\ UNCHANGED <<bounds, time, state, keyed, files, epoch, lost>>

\* What the steps of a trace refer to: those of its last revision.
Referred(t) == Revision(t, Current(t)).refs

ImportStage(i) ==
    LET b == Batch[i]
    IN  /\ Writable
        /\ WithRoom
        /\ Expired = {}
        /\ i \in bounds.imports
        /\ db.imports[i].state = "NEW"
        /\ db.revisions[b.trace] # <<>>
        /\ b.supplied \subseteq b.refs \cup Referred(b.trace)
        /\ db' = [db EXCEPT
                    !.imports[i] = [state |-> "STAGED", expires |-> time + StageTtl],
                    !.log = Log([kind |-> "ImportStaged", epoch |-> epoch, import |-> i])]
        /\ UNCHANGED <<bounds, time, state, keyed, files, epoch, lost>>

\* An artifact that has a row, pruned or not, is passed over.
NewRows(b) == {d \in b.supplied : db.rows[d] = NoRow}

ImportCommit(i) ==
    LET b == Batch[i]
    IN  /\ Writable
        /\ WithRoom
        /\ Expired = {}
        /\ files' = files \cup NewRows(b)
        /\ db' = [db EXCEPT
                    !.imports[i].state = "DECIDED",
                    !.rows = [d \in Digests |-> IF d \in NewRows(b)
                                                THEN [state |-> "AVAILABLE", created |-> time]
                                                ELSE db.rows[d]],
                    !.revisions[b.trace] =
                        Append(@, [refs |-> Referred(b.trace) \cup b.refs, pruned |-> FALSE]),
                    !.log = Log([kind |-> "ImportCommitted", epoch |-> epoch, import |-> i,
                                 trace |-> b.trace, revision |-> Current(b.trace) + 1])]
        /\ UNCHANGED <<bounds, time, state, keyed, epoch, lost>>

\* A commit that fails or dies after some of its files are in place.
ImportCommitBroken(i) ==
    /\ Writable
    /\ Expired = {}
    /\ \E written \in SUBSET NewRows(Batch[i]) : files' = files \cup written
    /\ Closed \/ UNCHANGED <<state, keyed>>
    /\ UNCHANGED <<bounds, time, db, epoch, lost>>

\* The entries of a sweep, one for each stage, in any order.
Cancellations ==
    {[n \in DOMAIN order |-> [kind |-> "ImportCancelled", epoch |-> epoch, import |-> order[n]]] :
        order \in {o \in [1..Cardinality(Expired) -> Expired] :
                      \A m, n \in DOMAIN o : o[m] = o[n] => m = n}}

\* Every dispatch of a READY service sweeps first, a read too.
Sweep ==
    /\ Writable
    /\ Expired # {}
    /\ \E cancels \in Cancellations :
          /\ Len(db.log) + Len(cancels) <= bounds.entries
          /\ db' = [db EXCEPT
                      !.imports = [i \in Imports |-> IF i \in Expired
                                                     THEN [@[i] EXCEPT !.state = "DECIDED"]
                                                     ELSE @[i]],
                      !.log = @ \o cancels]
    /\ UNCHANGED <<bounds, time, state, keyed, files, epoch, lost>>

\* Without a key the sweep of a read cannot sign: its transaction rolls back,
\* and the command fails.
SweepKeyless ==
    /\ state = "READY" /\ ~keyed
    /\ Expired # {}
    /\ Closed
    /\ UNCHANGED <<bounds, time, db, files, epoch, lost>>

-------------------------------------------------------------------------------
(* Leases.  path.get and bundle.export hold one while they read, and release *)
(* it before they answer: it outlives them only if the process dies.         *)

ExportCut(t, r) ==
    /\ state \in {"READY", "READ_ONLY"}
    /\ state = "READY" => Expired = {}
    /\ Cardinality(db.leases) < bounds.leases
    /\ r \in 0..Current(t)
    /\ db' = [db EXCEPT !.leases =
                 @ \cup {[trace |-> t, revision |-> r, expires |-> time + LeaseTime]}]
    /\ Closed
    /\ UNCHANGED <<bounds, time, files, epoch, lost>>

Leased(t) == {l.revision : l \in {k \in db.leases : k.trace = t /\ k.expires > time}}

-------------------------------------------------------------------------------
(* Prune. *)

\* keepFrom of a plan that counts the head out of the window.
KeepFromCurrent(t) == Current(t) + 1

KeepFrom(t) == Current(t) - HistoryRevisions + 1

Superseded(t, before) ==
    {r \in 0..Current(t) - 1 : ~Revision(t, r).pruned /\ r < before /\ r < KeepFrom(t)}

PlannedRevisions(t, before) == Superseded(t, before) \ Leased(t)

\* A plan that does not look for leases.
HeldByNoLease(t) == {}

\* artifactReferencedByLeasedRevision: what a leased revision of this trace
\* refers to; a pruned one has no steps left.
HeldByLease(t) == UNION {Revision(t, r).refs : r \in {q \in Leased(t) : ~Revision(t, q).pruned}}

StagedDigests == UNION {Batch[i].supplied : i \in Staged}

Aged == {d \in Digests : Available(d) /\ db.rows[d].created <= time - ArtifactAge}

PlannedArtifacts(t) == (Aged \ StagedDigests) \ HeldByLease(t)

BlockedByLease(t, before) ==
    \/ Superseded(t, before) \cap Leased(t) # {}
    \/ (Aged \ StagedDigests) \cap HeldByLease(t) # {}

\* applyPrune: READY, a trace that exists, a plan that no lease blocks.  The
\* operator has confirmed the graph of the head; another one is refused.
Prunable(t, before) ==
    /\ Writable
    /\ db.revisions[t] # <<>>
    /\ ~BlockedByLease(t, before)

\* A removal that fails is passed over: the file stays.
Prune(t, before) ==
    /\ Prunable(t, before)
    /\ WithRoom
    /\ \E gone \in SUBSET PlannedArtifacts(t) : files' = files \ gone
    /\ db' = [db EXCEPT
                !.revisions[t] =
                    [n \in DOMAIN @ |-> IF n - 1 \in PlannedRevisions(t, before)
                                        THEN [@[n] EXCEPT !.pruned = TRUE] ELSE @[n]],
                !.rows = [d \in Digests |-> IF d \in PlannedArtifacts(t)
                                            THEN [db.rows[d] EXCEPT !.state = "PRUNED"]
                                            ELSE db.rows[d]],
                !.log = Log([kind |-> "RetentionPruned", epoch |-> epoch, trace |-> t,
                             revisions |-> PlannedRevisions(t, before),
                             artifacts |-> PlannedArtifacts(t)])]
    /\ UNCHANGED <<bounds, time, state, keyed, epoch, lost>>

\* The process fails or dies after some of the files are removed: the tables
\* roll back, the files do not.
PruneCut(t, before) ==
    /\ Prunable(t, before)
    /\ \E gone \in SUBSET PlannedArtifacts(t) :
          /\ files' = files \ gone
          /\ lost' = lost \cup gone
    /\ Closed
    /\ UNCHANGED <<bounds, time, db, epoch>>

-------------------------------------------------------------------------------
Tick ==
    /\ time < MaxTime
    /\ time' = time + 1
    /\ UNCHANGED <<bounds, state, keyed, db, files, epoch, lost>>

Work ==
    \/ \E t \in Traces : TraceCreate(t)
    \/ \E i \in Imports : ImportStage(i)
    \/ \E i \in Staged : ImportCommit(i) \/ ImportCommitBroken(i)
    \/ Sweep
    \/ SweepKeyless
    \/ \E t \in Traces : \E r \in 0..Current(t) : ExportCut(t, r)
    \/ \E t \in Traces : \E before \in 0..Current(t) : Prune(t, before) \/ PruneCut(t, before)
    \/ Tick
=============================================================================
