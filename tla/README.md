# VisLineage: a verification project

VisLineage keeps the lineage of agent traces. Providers' exports are imported
into a workspace, a SQLite database with an audit log signed by the operator;
steps and the signed attestations about them form the revisions of a trace; a
path query walks from an action to its ancestors; a bundle carries a revision
to someone who does not trust the workspace, and a verifier, in TypeScript and
again in Python, checks it against a trust package.

This directory holds TLA+ modules that model the parts of the program where
state, order and failure matter, TLC configurations that check them on small
instances, and proofs that TLAPS checks for every instance. `PROJECT.json` says
which definition stands for which lines, which property has which mutant, and
which hazard of the code is covered by which property.

Paths below are relative to `src/packages/` unless they begin with `python/`.

## 1. The system

### Components

| component | source | state it keeps | operations |
|---|---|---|---|
| workspace store | `sqlite/src/service.ts`, `store.ts` | tables sources, traces, native_traces, steps, origins, artifacts, imports, revisions, audit, idempotency; artifact files; the state READY, READ_ONLY or STOPPED | source.register, trace.create, import.stage, .get, .commit, .cancel, path.get, bundle.export, bundle.verify; the sweep of expired stages before each of them; open, close |
| path query | `core/src/path.ts`, `python/vislineage/verify.py` | none: a function of a graph and a request | the walk over incoming edges, its bounds, the topological order |
| writer lock | `sqlite/src/store.ts` 44-86 | the file `writer.lock` | acquire, release |
| trust chains | `core/src/trust.ts`, `schema.ts` 356-404, `verify.py` | none: a function of a package and envelopes | the package's rules; structure, pins, anchors, key scope, coverage, verdict |
| key rotation | `sqlite/src/maintenance.ts` 458-485, `cli/src/main.ts` 505-535 | the configuration, trust files, the log | key rotate and the commands that sign |
| retention | `maintenance.ts` 307-452, `service.ts` 989-1004 | artifact states, files, leases | lease by an export, plan a prune, apply it |
| recovery | `store.ts` 149-174, `maintenance.ts` 182-301, 592-601, `main.ts` 465-484 | the recovery pin, backups | the pin that init and backup write, its comparison at open; backup, restore, reconcile |
| graph reduction | `core/src/reduce.ts`, `verify.py` 682-890 | none | native parents, delegations, cycles, origin streams |
| bundles | `core/src/bundle.ts`, `verify.ts`, `service.ts` 1006-1116 | none | export, verify |
| HTTP service | `cli/src/serve.ts` | token buckets, counters | admit, dispatch, deadline |
| command line | `cli/src/main.ts`, `config.ts`, `journal.ts`, `remote.ts`, `render.ts` | the request journal | one per command |
| doctor, migration | `maintenance.ts` 60-175, 491-590 | a new database beside the old | report, copy, rename |
| normalization | `core/src/normalize.ts` | none | a provider's record to a step |
| formats | `core/src/{schema,json,jcs,hash,ids,crypto,errors}.ts` | none | validate, canonicalise, hash, sign |

### How they interact

A command reads the configuration, takes the writer lock, opens the database
and compares it with the recovery pin; then it runs one operation, or serves
HTTP and runs many. `WorkspaceService.dispatch` is one synchronous call: it
sweeps the expired stages in a transaction of their own, then runs the method
in another, and a response that was given once is stored in the same
transaction under its request id. Every change of state signs an audit entry in
the transaction that makes it. What is outside the database cannot be in the
transaction: the lock file, artifact files, the recovery pin, the
configuration, trust files. Exports hand a revision, its origins and the log to
verifiers, which call `reduce`, `computePath` and `evalChains` again on what
they were handed.

### What is hard

- **Retries.** A client that lost an answer repeats the call under the same
  request id or under another one, after any number of other calls.
- **Two-phase imports.** A batch is checked when it is staged and again, in
  part, when it is committed; other imports are committed in between, the clock
  runs, the process restarts.
- **Two clocks for one expiry.** The sweep compares a whole second with a
  fraction, the commit compares whole seconds, and `BEGIN IMMEDIATE` may wait
  between the two.
- **Processes.** The lock is a file made empty and filled later; the
  configuration is read before it is taken.
- **Crashes** between the transaction and what belongs to it outside.
- **Arbitrary order.** Rows and edges come in the order of an index here and in
  the order of a bundle there; envelopes come from anybody.

`PROJECT.json` lists these at their lines under `hazards`, with the properties
that would catch each of them, or with the reason why none does.

### What makes each component correct

- Store: the log, the tables and the answers given tell one history; a commit
  happens once or not at all; a revision never changes and never shrinks; what
  was accepted at staging is in the revision; a record lives in one trace; an
  expiry is said of nothing that still has time.
- Path: exactly the ancestors, in an order that depends on nothing but the
  graph, refused only if a bound is exceeded.
- Lock: one holder; a live holder is not displaced; a dead one's lock is
  reclaimed; an attempt ends.
- Trust: what is trusted is a chain the pins determine; all who trust agree; no
  further evidence clears a conflict.
- Rotation: every signature's key was announced by the log; a trust file tells
  the truth about the log; a rotation that was carried through is in force.
- Retention: an artifact that an unpruned revision or a live lease needs keeps
  its bytes; a row that says AVAILABLE has its file.
- Recovery: nothing is written over a log that is older than the pin.
- Reduction: the edges left are those on no cycle, whatever order the steps
  come in; what is no edge is told as a gap.
- Bundles: what an honest export made verifies.

## 2. Plan

In order of importance; all nine are built.

1. `WorkspaceStore`, with `TraceLedger` as its abstract specification.
2. `PathWalk`.
3. `WriterLock`.
4. `ChainTrust`.
5. `KeyRotation`.
6. `GraphReduce`: its result is the input of `PathWalk`.
7. `Retention`: artifact rows and files, leases, the plan of a prune and its
   application, a crash between the removal of files and the commit.
8. `Recovery`, which extends `Retention`: init, the pin, backup, restore,
   reconcile, an open with and without a key.
9. `BundleExchange`: what an export takes from a revision against what the
   verifier demands, over the operators of `GraphReduce`.

The proofs followed in the order of the modules; section 5 says what they rest on.
Every safety property of the passing runs is a theorem. Left, of the program: the
rename of a migration, once there is something to say of SQLite's own recovery.

## 3. The modules

### WorkspaceStore

The tables are functions from primary keys to rows, the log is a sequence, and
a batch is the normalised content of one stage call. A hash stands for what it
is the hash of. A transaction is one step: `dispatch` is synchronous and holds
`BEGIN IMMEDIATE`. The sweep is a step of its own, because it is a transaction
of its own, and `Admitted` lets a method run only after it. The clock may
advance between the two (`Readings`), for the method reads it again after
waiting for the database.

| action | code |
|---|---|
| `SourceRegister`, `SourceRegisterAgain` | source.register: a new source, or the stored one under a new request id |
| `TraceCreate`, `TraceCreateAgain` | trace.create |
| `ImportStage`, `ImportStageAgain` | `mImportStage`, with everything it checks in `Stageable` |
| `ImportCommit` | `execCommit` from the revision check to the imports row, with the stored response |
| `ImportCommitExpired` | the commit that cancels a late stage and fails, keeping the cancellation |
| `ImportCommitAgain` | the stored result to another request id |
| `CommitBroken` | a failure or a crash inside a commit: the tables roll back, renamed files stay |
| `ImportCancel`, `ImportCancelAgain` | `mImportCancel` |
| `Sweep` | `sweepExpiredStages`, in any order of the rows |
| `Open`, `Stop`, `Tick` | the constructor, close or a crash, the clock |

A call that is refused, or answered from the idempotency table, changes no
table: it is a stuttering step. `import.get` reads the row, and is left out.

`TraceLedger` is what clients may rely on: an import is offered once and
decided once; a committed one is the next entry of its trace; an entry holds
the steps of the one before and those of the import; entries never change.
`ImplementsLedger` says that the store implements it, with the revisions as the
ledger and the imports' states as their fates.

### PathWalk

`computePath` step by step: `Find`, `Pop` (the work list's last element),
`Look` (one incoming edge), `Measure` (the bounds on the whole), `Order`,
`Return`. The input is the graph as the order of each step's incoming edges,
since that is what differs between the exporter and the verifier. Gaps and
origins, which the function only filters by the steps returned, are left out.

### WriterLock

Each call to the file system and to `kill` is a step: `OpenFile`, `WritePid`,
`ReadPid`, `Kill`, `Remove`, `Release`. A process may die anywhere (`Die`), and
its pid be given out again (`Reuse`). The pid is written to the file that was
opened, even if another has since taken its path: `lock.by` remembers whose
file it is. The proofs are few and stand at the end of the module.

### ChainTrust

`validateTrust` and `evalChains` as operators over a set of envelopes, one per
check, and `Verdict` in the code's order of precedence. Verifiers are handed
envelopes one at a time (`Supply`), in any order and by anybody, under one
package. An envelope is its body's hash and whether the signature is that of
the pinned key. The Python verifier's `_eval_chains` is the same function.

### KeyRotation

A command loads the configuration (`LoadConfig`), takes the lock (`Open`), then
signs (`Sign`) or rotates: the entry (`Rotate`), the trust file (`WriteTrust`),
the configuration (`RewriteConfig`), in that order, and may be cut off between
any two (`Leave`). The lock is taken to exclude here. An open that ends
READ_ONLY signs nothing, which `Leave` stands for. `cut` is a history: where the
log has rotations that were cut off before the configuration was written.

### GraphReduce

What `reduce` derives step by step does not look at the order of its input: it is
one step (`Derive`), from sets. The walk that finds the strongly connected
components does: `Start`, `Look` (one child), `Retreat` (which may close a
component), with the next start and the next child any of those left, since the
order is that of rows in a database here and of a bundle there. `Finish` drops
the edges inside components and adds what is said of origin streams. Hashes are
numbers, because the lowest of several is told. `reduce` in `verify.py` is the
same function.

### Retention and Recovery

`Retention` has the database (revisions with the digests their steps refer to,
artifact rows, stages, leases, the log) and the files beside it; `Recovery`
extends it with the directory's life: it is made, opened, backed up, restored.
One process at a time is at work, which is what `WriterLock` is about, and in it
one dispatch at a time, so that an operation is one step unless it is cut off.
Files are not in the transaction: what is cut off rolls the tables back and
leaves the files. Request ids are new after each restore; `epoch` stands for that.

| action | code |
|---|---|
| `TraceCreate`, `ImportStage`, `ImportCommit` | what they do to revisions, artifact rows and files: a digest that has a row, pruned or not, gets neither a new row nor its bytes (service.ts:820) |
| `ImportCommitBroken` | a commit that fails after some of its files are in place |
| `Sweep`, `SweepKeyless` | the sweep before every dispatch; without the audit key it fails, and the command with it |
| `ExportCut` | a process that dies while it holds a lease; otherwise a lease does not outlive its dispatch |
| `Prune`, `PruneCut` | `prunePlan` and `applyPrune`; cut off after some of the files are gone |
| `InitDb`, `Genesis`, `InitPin` | the command init, cut off anywhere |
| `Open`, `Stop` | the constructor with `reconcilePin`, with or without a key; close or a crash |
| `Backup`, `BackupPin` | `backup`, and the pin that the command writes afterwards from the log it finds |
| `RestoreDb`, `RestoreFile`, `RestorePin`, `RestoreCut` | `restore`: the database first, the artifacts, the pin last; cut off anywhere |

An entry's hash stands for all that precedes it, so the pin is the log up to
its entry, and `AUDIT_FORK` is a log that is as long and is another.

### BundleExchange

`Stage` and `Commit` bring steps, origins and artifacts and publish revisions;
`Other` is an entry or an origin that another trace brings; `Lose` takes an
artifact's bytes away. `Export` is `execBundleExport` with `buildBundle`; `Verify`
gives the code of the first phase of `verify` that fails, or `CHAINS` if it comes
as far as `evalChains`, which is `ChainTrust`. `Reassemble` is a bundle made of
parts of several exports, which nobody exported as it is.

An origin is an envelope: a body, told by its hash, and a signature. `import.stage`
compares the hash with the body (service.ts:617) and does not look at the
signature, so that the table may hold one body under two. The graph names bodies:
two bundles of one revision, each taken as far as the signatures, may differ in
those of their origins, and `ValidIsRevision` claims the bodies only.
`evalChains` judges the rest.

`reduce` and `computePath` run on both sides and do not sort everything they are
given. The orders are part of the model: steps come to the export by
the primary key of revision_steps, that is by hash (`ReadSteps`), and its edges,
a SELECT without ORDER BY (service.ts:966), by the index edges_child and then
by row (`ReadEdges`); the query plan of SQLite says so. Rows were inserted in
the order in which `reduce` made them from the table of steps (`EdgeList`). The
verifier has what `reduce` makes of the sorted bundle. An order of
edges is a set of pairs beside the set of edges, and `Incoming` takes from it the
list of the edges into each step, as `computePath` does first. The two orders
differ as a whole and agree on the edges of each child, and that is all that
`computePath` looks at. By another index they would not agree: that is the
mutant of `HonestVerifies`. Revisions are not pruned here.

## 4. What is checked

`tlc -config <cfg> <module>`; every passing run is exhaustive within its bounds.

| run | what it shows |
|---|---|
| `store_one_trace` | `TypeOK`; `HistoryAudited`: revisions are dense, each is signed by the entry its row names, none is published twice; `CommitsAreRevisions`: committed imports and revisions correspond one to one, at the revision that the caller expected; `NothingStagedIsDropped`; `RetriesStand`: every stored answer is still true, and its entry is the one that made it so; `LogDecidesImports`: the log holds one decision per import and the row agrees, also on the reason it has; `CountsAccount`: the steps and conflicts told to callers add up to the steps stored and to the further versions among them; `NothingRewritten`; `ExpiryRespected`; `ImplementsLedger` |
| `store_two_traces` | `OneTracePerRecord`, `RevisionsGrow`, for batches of two traces that claim one record or one native trace |
| `path_walk` | `TypeOK`; `ReturnsAncestors`: the least set closed under parents; `AcceptedWithinBounds`; `ParentsFirst`; `LowestFirst`: the order is a function of the graph alone |
| `writer_lock` | `TypeOK`; `SettledExcludes`: a holder whose pid is in the file, with no late remover about, is not displaced; `AttemptsEnd`; `DeadLockReclaimed` |
| `chain_trust` | `TypeOK`; `PinsDecide`: all who trust have the same entries below a pinned head; `TrustedIsPinnedChain`: the verdict is exactly a chain described without gaps, anchors or precedence; `DistrustStays` |
| `key_rotation` | `TypeOK`: the lock's owner is the one past it; `KeysAnnounced`: no entry is signed with a key the log has not named; `RotationsTakeEffect`: a trust file tells of a committed rotation, at its place, and when none is under way the configuration names the key of the last rotation that was not cut off, and each of those has its trust file |
| `graph_reduce` | `TypeOK`; `CyclesSuppressed`: the edges left are exactly the candidates on no cycle, by reachability and not by Tarjan's numbers; `CyclesReported`: each cycle once, whole, under its lowest hash; `NothingDropped`: of each parent that a step names, and of each delegation, there is an edge or a gap that says why there is none; `OriginGapsAreHoles`: the gap is told of the steps whose stream does not go back to a first origin, and of no other |
| `recovery` | `TypeOK`; `PrunesTold`: what was given up is told by exactly one entry, and was out of the window; `LossExplained`: an artifact that is said to be there has its file, unless an operation that was cut off took it; `LeasesHold`: an unexpired lease keeps its revision and what it refers to; `PinHolds`: a log that does not go back to its pin is not opened for writing |
| `bundle_exchange` | `HonestVerifies`: every export verifies; `ValidIsRevision`: a bundle that comes as far as the signatures has the steps, origins and path of the revision it names |

Two of these have an exception that the code makes and a comment does not (what
else a property leaves open is said at the hazard in `PROJECT.json`):

- `LeasesHold`. maintenance.ts:366 says "held by a lease iff any unexpired
  lease covers a revision whose steps reference it"; the plan looks at the leases of the trace that
  is pruned (`Leased(t)`), and artifacts are shared between traces. The property
  excepts the prune of another trace.
- `PinHolds`. maintenance.ts:267 says that a restored service "opens READ_ONLY
  until reconciliation/doctor passes", and conformance test TV-V-42 that a stale
  restore cannot resume writes. Neither holds past a backup: the command writes
  the pin from the log it finds (main.ts:473), READ_ONLY or not, and the stale
  log then opens READY. The property excepts it by `overridden`.

Three runs refute what a comment of the code says:

| run | the comment | what the code does |
|---|---|---|
| `path_depth` | path.ts:41 "Iterative BFS ... tracking minimum depth" | the walk takes the newest step first and keeps the depth a step was first met at; a path within `max_depth` may be refused, depending on the order of the edges |
| `writer_lock_one` | store.ts:41 "Single-writer workspace lock" | two processes that open at once may both hold it |
| `key_rotation_window` | maintenance.ts:459 "the OLD key signs KeyRotated" | the trust file gives that very entry to the new key; once it is merged, the log is no longer trusted. A rotation of a key to itself, which the command does not refuse, is left out of the property |

Two more disagreements are plain in the code and have no run:

- reduce.ts:121 says "conflicted endpoint suppresses the edge", and only the
  child is looked at (reduce.ts:108, and verify.py:713): a parent named by its
  span keeps its edge though its record has two versions.
- types.ts:241 gives a cancelled import the reason USER or EXPIRED. The sweep
  stores the result without one (service.ts:237), so import.get says USER
  (service.ts:713) of an import that the log says EXPIRED of.

### Bounds, and why they are enough

- `store_one_trace`: one trace, two imports, three batches, of which one
  overlaps another with a second version of a record and carries an origin that
  is acceptable only once the other is stored, and one brings the same artifact
  under another format. Each pair of imports races, in each order, with every
  combination of cancel, sweep, late commit and restart. Seven request ids:
  enough for every entry the log can reach and one answer more
  (`MaxReplays = 1`; a stored answer changes nothing that a second one could
  depend on). The clock has two ticks to the second and runs for two, with a
  time to live of zero seconds, so that the sweep's comparison and the commit's
  differ within the run. Request ids and import ids are interchangeable:
  `InOrder` and the symmetry say so.
- `store_two_traces`: the clock stands still, since expiry has nothing to do
  with the bindings; three batches collide in every way two can.
- `path_walk`: five steps and at most two parents each, all acyclic graphs of
  that shape and every order of each step's parents; the numbering that stands
  for the hashes runs against the age of the steps. Depth 2, four nodes and four
  edges, so that each bound is met from both sides. `ReturnsAncestors` and the
  walk's types are proved for any graph.
- `writer_lock`: three processes and five attempts: an owner that died, one that
  reclaims, one that interferes. `SettledExcludes` is proved for any number.
- `chain_trust`: three entries under two keys, a branch after the first, an
  entry of another stream, a forged signature; ten packages with good, narrow,
  overlapping, foreign and compromised keys and with right, wrong, missing and
  contradictory pins, of which `ValidTrust` refuses the overlapping and the
  contradictory; two verifiers with all subsets. `Role` is "origin": the
  audit role differs by having one stream and nothing required.
- `graph_reduce`: graphs of three records, of which one may name itself, and of
  four, of which one may name two others: every shape of component up to four
  steps, nested and side by side, with each order of the walk; every three of
  twelve steps that share records, spans and delegations in all the ways `reduce`
  tells apart, and the cycle of two delegations and two native parents; every
  set of six origins with a fork, a hole, a wrong first and a second stream.
- `key_rotation`: two processes, three keys, three entries after the first,
  each a rotation or a signature, with the old key or the new: enough for a
  rotation that is cut off, a signature after it and another rotation.

- `recovery`: an artifact that two imports bring, two revisions kept
  (`HistoryRevisions = 2`), one tick of the clock, after which leases and stages
  have run out and artifacts are old enough. A behaviour runs within one of four
  bounds, each made for one kind of history, since their product is too large:
  one trace, both imports and seven entries, for a prune whose artifact comes
  again and is pruned no second time; two traces, both imports, six entries and
  a lease, for a prune of one trace with a lease on the other; one import, five
  entries and a restore, for artifacts that a copy leaves out; two traces, no
  import, three entries and two restores, where a log that was restored grows
  another way than the one whose pin was kept. One backup at a time is kept, the
  one that the next restore is made from.
- `bundle_exchange`: seven steps in three batches that overlap, committed in
  every order: an action with two parents, whose ancestors are within a depth of
  two or not as the walk takes its edges, a record with two versions, a
  delegation, a digest under two formats, a stream of origins that another trace
  shares and where one body comes again under another signature; of this kind is a
  bundle whose path has an envelope that its revision has not. Three requests, with the path refused and not. Four log entries, so
  that entries of others stand before, between and after the three commits.

Deadlock is checked for the store and for recovery. It is not for the others,
which do stop: the walk returns, the verifiers have everything, attempts,
entries and the log are bounded.

### Fairness

Only `WriterLock` states any, and only two properties use it: a process that
has begun an attempt goes on with it (`WF` of `Step(p)`), because
`acquireWriterLock` is a synchronous loop without waiting. Nothing is assumed
of a process starting, releasing or dying. All other properties are safety.

## 5. What is proved

For every value of the constants, from the `ASSUME`s of the modules: ids are
distinct from the special ones, counters are numbers (`o.seq`, a decimal counter
by schema.ts, among them), an origin's hash is that of its body, a batch's steps
carry its own trace and source, steps are finitely many, a
graph's parents are its steps, and a graph that is walked has no cycle. The last,
`AcyclicAssumption`, is what `CyclesSuppressed` proves of `reduce`, whose graphs
both callers of `computePath` hand it.

- **WorkspaceStoreProofs.** `TypeCorrect`, by one lemma per action.
  `HistoryIsAudited`: `HistoryAudited` alone is not inductive. That a commit
  numbers its revision freshly needs the log to know no revision past a trace's
  head (`LogBounded`), and that it numbers one at all needs the trace of each
  import to exist (`ImportsTraced`). `HistoryInv` adds both. Most steps are
  disposed of by one lemma: a step that signs no commit and touches no revision
  keeps it. The two that remain are `TraceCreate` and `ImportCommit`.
  Then everything else that the two runs of the store check. `NothingIsRewritten`
  and `StagesExpireOnTime` go action by action; most that follows rests on the
  first, as `Grows`: what any step may do to the tables.
  - `RecordsHaveOneTrace`: the bindings that a commit checks are those it makes.
  - `RevisionsOnlyGrow`: that a revision's origins are in the next one needs them
    to be pinned by the trace's steps still (`OriginsPinned` in `ContentInv`).
  - `StagedIsNotDropped`: an origin that a stage accepted for its batch or for a
    stored step stays referenced until the commit, whatever is stored meanwhile,
    and an artifact's row has its file (`StagedInv`).
  - `CommitsMatchRevisions`: the entry an import's result names is its own commit
    (`CommitsSigned`); else one entry could speak for two.
  - `LogTellsDecisions`: `LogInv` says of each import which entries are about it
    and that no entry is about one that is not in the table.
  - `RetriesAreAnswered`: of a stored response, what it says stays said (`AnswerKept`);
    that the entry it names is the right one needs `CommitInv` and `LogInv`.
  - `StoreIsLedger`: initial states map to initial states, and each step to a step
    of `TraceLedger` or to a stutter. A commit is the ledger's, with the next entry;
    that the entry holds the one before is `RevisionsGrow`, that it is told by no
    other import is `CommitsAreRevisions` (`RevisionsHaveOneImport`), and that a trace
    starts from nothing is `EmptyStart`.
  - `CountsAddUp`: the steps and conflicts that the commits were told of, summed over
    all imports. A sum is a fold, and a fold is a recursive function that CHOOSE
    takes; `SumsExist` says that there is one up to every size of the set, `SumsTakeAny`
    that the order of the elements does not matter, and `SumOfMore` what one more
    element adds. A commit adds to the sums what it adds to the table of steps, and
    each conflict is a row beyond the first of its record (`CountsInv`).
- **PathWalkProofs.** `WalkTyped`; `WalkReturnsAncestors`: while it walks, each
  step met is on the work list, or is the one at hand with the rest of its edges
  to come, or has all its parents met (`Settled`), and whatever was met is in
  every set closed under parents (`WalkInv`). When nothing is left to do, the
  steps met are the least closed set. Graphs need not be finite.
  `PathIsTopological` and `PathIsLowestFirst`: `OrderInv` says that the counts are
  those of the edges from steps not yet listed, and that the ready ones are those
  whose count is 0; that none is left over when nothing is ready is where the graph
  must have no cycle. `PathKeepsBounds`: a step's depth is one more than that of a
  step it is a parent of (`DepthInv`), which is enough for a way of at most that
  many edges, though not for the shortest.
- **WriterLock.** `LockTyped`; `LockExcludesOnceSettled`: `Settled` is kept
  by every step of the others.
- **ChainTrustProofs.** `ChainsTyped`; `PinsDecideHistory`: what is trusted has
  no fork, no gap and reaches its pins, so it has an entry at every position
  below one; of two trusted sets that differ below a head, take the least
  distance from it at which they do: one position up they agree, and so does the
  `prev` of that entry, which is a contradiction. `DistrustIsFinal`: a set that
  is trusted has no fork, no wrong pin and no distrusted entry in any of its
  parts, so what was not trusted for one of these is not made good by more.
  `TrustIsPinnedChain`: the recursive function that anchors have exists at every
  length (`HeldExists`); where every entry has one before it or a pin, the least that
  does not lead back would follow one that does (`FollowsAnchored`). Heads at
  position 1 or later are what `PinsInv` adds, which `ValidTrust` demands.
- **KeyRotationProofs.** `RotationTyped`, `KeysAreAnnounced`,
  `RotationsAreEffective`. The invariant `Known` adds that the configured key and
  every loaded one are announced, that a rotation's next key is announced once
  it is in the log, which is what makes the rewriting of the configuration safe,
  and that the rotation is still the last entry when its trust file and the
  configuration are written, which is where the lock is needed. `EffectInv` says of
  a rotation under way that the configuration still follows the ones before it
  (`Settled`), so that cutting it off changes nothing that was in force.
- **RecoveryProofs.** All five properties of the run. `Typed` is `TypeOK` with the
  two facts that make the operations well defined: a staged import has a trace,
  a lease a revision, in the database and in the backup. `WritersKeepPin`:
  `PinHolds` says nothing of the next open, which looks at the pin; `PinInv` adds
  that the pin is what was promised, unless it was overridden. `LossIsExplained`:
  `LossInv` adds that of what a backup's database says is there, the backup has
  whatever was not lost when it was made, so that a restore that runs to its end
  loses nothing. `PrunesAreTold`: `ToldInv` counts the entries that tell of each
  artifact and revision, says that none tells of a revision to come, and says it
  of the backup too; all steps but a prune are disposed of by `QuietKeepsTold`.
  `LeasesAreHeld`: each step against each lease; `PlanSparesLeases` is what the plan
  leaves out, and the prune of another trace is the exception the code makes.
- **GraphReduceProofs.** `WalkTyped`: that a closed component is what is above
  a step on the stack needs the steps being visited to lie on it in the order of
  their visits (`Ordered`), each once (`Once`). `GraphDropsNothing`: an edge is
  left out only inside a component, and a component with an edge inside has been
  reported (`Reported`), with both ends, for it has two steps, or one that follows
  itself. The
  correctness of the numbering is not needed for it. `OriginGapsAreChains`: a stream
  that is not broken at or below an entry has a chain up to it, built from its
  first entry (`UnbrokenRooted`), and one that has a chain is not broken.
  `SuppressedAreCycles` and `ReportedAreCycles`: the correctness of Tarjan's
  algorithm, for any order of the walk. While it runs (`VisitInv`), numbers rise
  along the stack and along the visits (`NumbersRise`); a child of a visited step
  is visited or still waits (`SeenOrWaits`); a step being visited leads to all above
  it on the stack, and each of these leads to one being visited (`Hangs`); a low
  number is that of a step that is led to (`LowLeads`), and covers every edge that
  was looked at from there up (`LowCovers`); no edge leaves what is closed
  (`ClosedOff`). So what is closed when low and number agree is a class of the steps
  that lead to one another (`ClosedIsClass`), and an edge is inside one exactly if it
  lies on a cycle.

- **BundleExchangeProofs.** `ExportsVerify` and `ValidBundlesAreRevisions`, for any
  steps, batches, requests and bound on the log. `StoreInv` is what both rest on:
  each revision's manifest, edges and origins are those of its steps
  (`RevisionSound`), its edges those of `reduce` up to the order between children
  (`EdgesOf`), its origins pinned by its own steps (`PinnedTwice`); each entry that
  names a revision has its graph, and each revision has such an entry (`LogTrue`).
  That two lists of the same steps give each child's edges in one order is
  `EdgeListSame`; that SQLite's index keeps that order, `ReadAsReduced`; that the path
  is then the same, `SamePath`. The folds of the walk need not be looked into: they
  are given the same lists. A bundle that is taken ends with an entry
  that binds its graph, which is a revision's (`TakenIsRevision`); its graph names
  its steps and the bodies of its origins by their hashes (`OriginAssumption`), and a
  path looks at no more of an origin than its body (`PathsAgree`). `SortedAll` and `ArrangedAll` are about the orders: a finite
  set that is put in order is all there. `StoreInv` was checked by TLC on the instance
  of `bundle_exchange` before it was proved.

`HoldsAll` and `LeastNumber` stand in for induction: the natural numbers are well
founded, so a set of them that holds 0 and with each number the next holds all.
That is how the recursive functions of `Within` and of the anchors are reasoned
about: a function of the required form exists up to every number, and so CHOOSE
takes one. `VisitInv` and `SccInv` were checked by TLC on the instance of
`graph_reduce` before they were proved.

### What is only model-checked

- Liveness (`AttemptsEnd`, `DeadLockReclaimed`): outside the prover's reach.
- What the three violation runs refute is no theorem.

## 6. What is not modelled

- `WorkspaceStore` takes the graph of a revision to be determined by what is
  committed, opens READY or READ_ONLY at will and never prunes: the graph is
  `GraphReduce`, the open `Recovery`, the prune `Retention`. The three are not
  composed into one state space, which would be too large to explore.
- A revision that is pruned between the check of its number and its reading
  (service.ts:952) needs two processes at once, which the lock is there to
  prevent; `path.get` and `bundle.export` of a pruned revision are refused.
- Size caps of bundles, the hashes of envelopes, and the writing of the bundle's
  file.
- The HTTP service. Its dispatch is synchronous, so that no request runs between
  another's start and end and its counters never exceed one; its deadline cannot
  fire inside a dispatch. What is left is parsing, roles and a token bucket.
- The doctor reads. A migration is one copy and one rename; its risk lies in
  SQLite's own recovery, outside the source.
- Normalization, schemas, canonical JSON, hashes and signatures are pure
  functions on bytes. Hashes are taken to be injective and signatures to tell
  their signer.
- The command line prints and parses; its request journal is written and never
  read.
- SQLite is taken to be what it says: transactions are atomic and durable.
