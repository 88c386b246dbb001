----------------------------- MODULE BundleExchange ----------------------------
(***************************************************************************)
(* A revision on its way to somebody else: the import that publishes it,   *)
(* bundle.export (packages/sqlite/src/service.ts, buildBundle in           *)
(* packages/core/src/bundle.ts), and the verifier (verify.ts).             *)
(*                                                                         *)
(* Both sides reduce the same steps and walk the same graph, but neither   *)
(* sorts everything: the exporter has rows in the order of an index, the   *)
(* verifier has what reduce makes of a sorted bundle.  So steps are        *)
(* sequences here, and edges a set with the order they come in.  Module    *)
(* GraphReduce says which edges and gaps there are; hashes stand for what  *)
(* they are hashes of, and a graph for its manifest.  One trace is         *)
(* modelled, with what others leave in its tables.                         *)
(***************************************************************************)
EXTENDS Integers, FiniteSets, SequencesExt

CONSTANTS
    Steps, Body, Origins, Zero, Nothing, \* see GraphReduce; Body has also:
                \*   named: the parents in the order of the body
                \*   attachments: the references to artifacts
    Digests,
    Length,     \* digest -> the bytes it is the digest of, as their number
    Elsewhere,  \* origins that imports into other traces bring
    Imports,
    Batch,      \* import -> the rows, origins and artifacts it brings
    Requests,   \* source, record, max_depth, max_nodes
    Refused,    \* path.get throws
    NoBundle,
    MaxEntries  \* bound on the log

ASSUME StepAssumption == Steps \subseteq Nat /\ IsFiniteSet(Steps)

\* A seq is a decimal counter.  The hash is that of the body, which import.stage
\* compares; it does not look at the signature, so that one body may come with two.
ASSUME OriginAssumption ==
    /\ \A o \in Origins : o.seq \in Nat
    /\ \A o, p \in Origins :
          o.hash = p.hash => o.stream = p.stream /\ o.seq = p.seq /\ o.step = p.step
    /\ Elsewhere \subseteq Origins

ASSUME BatchAssumption ==
    \A i \in Imports : Batch[i].rows \in Seq(Steps) /\ Batch[i].origins \subseteq Origins

VARIABLES
    steps,     \* table steps, in the order of its rows
    origins,   \* table origins
    artifacts, \* digest -> the format of its row, and whether its bytes are there
    imports,   \* import -> NEW, STAGED or COMMITTED
    revisions, \* number + 1 -> its steps, origins, edges in the order of their rows, manifest
    log,       \* audit entries
    bundle,    \* the bundle that a verifier is handed
    honest     \* whether an export made it as it is

tables == <<steps, origins, artifacts, imports, revisions, log>>
vars == <<tables, bundle, honest>>

-------------------------------------------------------------------------------
(* reduce. *)

Reduction(S, O) ==
    INSTANCE GraphReduce WITH
        Inputs <- {}, steps <- S, origins <- O, phase <- "done", edges <- {}, gaps <- {},
        index <- <<>>, low <- <<>>, stack <- <<>>, work <- <<>>, components <- {}

CycleGap(S, s) ==
    LET C == {w \in S : Reduction(S, {})!Reaches(s, w) /\ Reduction(S, {})!Reaches(w, s)}
    IN  Reduction(S, {})!Gap("CYCLE", Reduction(S, {})!Lowest(C), C)

\* What the steps of a trace make: the candidates that are on no cycle, and gaps.
Reduced ==
    [S \in SUBSET Steps |->
        LET cyclic == {e \in Reduction(S, {})!Candidates : Reduction(S, {})!Reaches(e.child, e.parent)}
        IN  [edges |-> Reduction(S, {})!Candidates \ cyclic,
             gaps |-> Reduction(S, {})!SourceConflicts \cup Reduction(S, {})!ParentGaps
                      \cup Reduction(S, {})!DelegationGaps
                      \cup {CycleGap(S, e.child) : e \in cyclic}]]

Manifest(S, O) ==
    [steps |-> S, origins |-> {o.hash : o \in O}, edges |-> Reduced[S].edges,
     gaps |-> Reduced[S].gaps \cup Reduction(S, O)!OriginGaps]

\* The elements of S in an order of them.
Arranged(S, before) ==
    [n \in 1..Cardinality(S) |->
        CHOOSE x \in S : Cardinality({y \in S : <<y, x>> \in before}) = n - 1]

Sorted(S) == Arranged(S, {p \in S \X S : p[1] < p[2]})

\* The first place of x in a list.
Place(list, x) == CHOOSE n \in DOMAIN list : list[n] = x /\ \A k \in 1..n - 1 : list[k] # x

\* Where the body of e's child names e's parent.
NamedAt(S, e) ==
    LET named == Body[e.child].named
    IN  Place([n \in DOMAIN named |-> Reduction(S, {})!Named(e.child, named[n])], {e.parent})

\* The edges, and the order in which reduce makes them from a list of steps: first
\* the native ones, as each step names its parents, then the delegations (a step
\* accepts one at most).
EdgeList(list) ==
    LET S == ToSet(list)
        native(e) == e.delegation = Nothing
        before(e, f) ==
            native(e) /\ (native(f) => IF e.child = f.child
                                      THEN NamedAt(S, e) < NamedAt(S, f)
                                      ELSE Place(list, e.child) < Place(list, f.child))
        left == Reduced[S].edges
    IN  [set |-> left, before |-> {p \in left \X left : before(p[1], p[2])}]

-------------------------------------------------------------------------------
(* computePath. *)

\* The edges into each step, in their order.
Incoming(edges) == [v \in Steps |-> Arranged({e \in edges.set : e.child = v}, edges.before)]

\* One incoming edge of v.
Meet(walk, v, p, max) ==
    IF p \in DOMAIN walk.depth \/ walk.refused THEN walk
    ELSE IF walk.depth[v] + 1 > max THEN [walk EXCEPT !.refused = TRUE]
    ELSE [walk EXCEPT !.depth = [s \in DOMAIN @ \cup {p} |-> IF s = p THEN @[v] + 1 ELSE @[s]],
                      !.wl = Append(@, p)]

\* Each step is taken from the work list once.
Walk(action, incoming, max) ==
    LET pop(walk) ==
            LET v == Last(walk.wl)
            IN  FoldLeft(LAMBDA w, e : Meet(w, v, e.parent, max), [walk EXCEPT !.wl = Front(@)],
                         incoming[v])
        first == [depth |-> [s \in {action} |-> 0], wl |-> <<action>>, refused |-> FALSE]
    IN  FoldLeft(LAMBDA w, n : IF w.wl = <<>> \/ w.refused THEN w ELSE pop(w),
                 first, [n \in 1..Cardinality(Steps) |-> n])

Path(S, edges, O, gaps, revision, request) ==
    LET candidates == {s \in S : /\ Body[s].source = request.source
                                 /\ Body[s].record = request.record}
        walk == Walk(CHOOSE s \in candidates : TRUE, Incoming(edges), request.max_depth)
        met == DOMAIN walk.depth
    IN  IF Cardinality(candidates) # 1 THEN Refused
        ELSE IF walk.refused \/ Cardinality(met) > request.max_nodes THEN Refused
        ELSE [request |-> request,
              revision |-> revision,
              steps |-> met,
              edges |-> {e \in edges.set : e.parent \in met /\ e.child \in met},
              origins |-> {o \in O : \E p \in O : p.stream = o.stream /\ p.step \in met /\ o.seq <= p.seq},
              gaps |-> {g \in gaps : ({g.subject} \cup g.related) \cap met # {}}]

-------------------------------------------------------------------------------
(* import.stage and import.commit. *)

\* The reference to a digest that a list of steps is left with: the last.
Refs(list) ==
    LET all == FlattenSeq([n \in DOMAIN list |-> Body[list[n]].attachments])
        places(d) == {n \in DOMAIN all : all[n].digest = d}
    IN  {all[CHOOSE n \in places(d) : \A k \in places(d) : k <= n] :
            d \in {all[n].digest : n \in DOMAIN all}}

Attesting(i, o) == o.step \in ToSet(steps) \cup ToSet(Batch[i].rows)

OriginAccepted(i, o) ==
    \/ Attesting(i, o)
    \/ \E p \in Batch[i].origins :
          p.stream = o.stream /\ p.seq >= o.seq /\ Attesting(i, p)
    \/ \E p \in origins :
          p.stream = o.stream /\ p.seq >= o.seq /\ p.step \in ToSet(steps)

\* The references of stored steps come after those of the rows.
ArtifactAccepted(i, a) ==
    /\ \E r \in Refs(Batch[i].rows \o steps) :
          r.digest = a.digest /\ r.format = a.format /\ r.bytes = Length[a.digest]
    /\ artifacts[a.digest].format \in {Nothing, a.format}

Stage(i) ==
    /\ imports[i] = "NEW"
    /\ \A o \in Batch[i].origins : OriginAccepted(i, o)
    /\ \A a \in Batch[i].artifacts : ArtifactAccepted(i, a)
    /\ imports' = [imports EXCEPT ![i] = "STAGED"]
    /\ UNCHANGED <<steps, origins, artifacts, revisions, log, bundle, honest>>

\* The origins up to the last of their stream that attests a step of S.
Pinned(S, O) ==
    {o \in O : \E p \in O : p.stream = o.stream /\ p.step \in S /\ p.seq >= o.seq}

\* The rows that are new, as the batch has them.
NewRows(i) ==
    LET new == ToSet(Batch[i].rows) \ ToSet(steps)
    IN  Arranged(new, {p \in new \X new : Place(Batch[i].rows, p[1]) < Place(Batch[i].rows, p[2])})

Commit(i) ==
    /\ imports[i] = "STAGED"
    /\ Len(log) < MaxEntries
    /\ imports' = [imports EXCEPT ![i] = "COMMITTED"]
    /\ artifacts' = [d \in Digests |->
                        IF artifacts[d].format = Nothing /\ \E a \in Batch[i].artifacts : a.digest = d
                        THEN [format |-> (CHOOSE a \in Batch[i].artifacts : a.digest = d).format,
                              there |-> TRUE]
                        ELSE artifacts[d]]
    /\ LET list == steps \o NewRows(i)
           pinned == Pinned(ToSet(list), origins \cup Batch[i].origins)
           manifest == Manifest(ToSet(list), pinned)
       IN  /\ steps' = list
           /\ origins' = origins \cup Batch[i].origins
           /\ revisions' = Append(revisions, [steps |-> ToSet(list), origins |-> pinned,
                                              manifest |-> manifest, edges |-> EdgeList(list)])
           /\ log' = Append(log, [kind |-> "ImportCommitted", seq |-> Len(log) + 1,
                                  revision |-> Len(revisions), graph |-> manifest])
    /\ UNCHANGED <<bundle, honest>>

\* An entry of another kind, or of another trace; tables of origins and entries
\* are those of the workspace.
Other(O) ==
    /\ Len(log) < MaxEntries
    /\ origins' = origins \cup O
    /\ log' = Append(log, [kind |-> "Other", seq |-> Len(log) + 1])
    /\ UNCHANGED <<steps, artifacts, imports, revisions, bundle, honest>>

\* The prune of an artifact (module Retention), or the loss of its file.
Lose(d) ==
    /\ artifacts[d].there
    /\ artifacts' = [artifacts EXCEPT ![d].there = FALSE]
    /\ UNCHANGED <<steps, origins, imports, revisions, log, bundle, honest>>

-------------------------------------------------------------------------------
(* bundle.export. *)

\* The steps of a revision come by the primary key of revision_steps.
ReadSteps(r) == Sorted(r.steps)

\* Edges by their hashes, as the primary key has them; here by their parents.
ReadEdgesByHash(r) ==
    LET edges == r.edges.set
    IN  [set |-> edges, before |-> {p \in edges \X edges : p[1].parent < p[2].parent}]

\* SQLite takes the edges of a revision by the index edges_child: by child, and
\* those of a child in the order of their rows.
ReadEdges(r) ==
    LET edges == r.edges.set
        before(e, f) == IF e.child = f.child THEN <<e, f>> \in r.edges.before
                                             ELSE e.child < f.child
    IN  [set |-> edges, before |-> {p \in edges \X edges : before(p[1], p[2])}]

\* What path.get answers.
PathOf(revision, request) ==
    LET r == revisions[revision + 1]
    IN  Path(r.steps, ReadEdges(r), r.origins, r.manifest.gaps, revision, request)

\* The first entry that says of the revision what its graph is.
Binds(entry, revision, graph) ==
    IF revision = 0 THEN entry.kind = "TraceCreated" /\ entry.graph = graph
    ELSE entry.kind = "ImportCommitted" /\ entry.revision = revision /\ entry.graph = graph

Binding(revision) ==
    CHOOSE n \in DOMAIN log :
        /\ Binds(log[n], revision, revisions[revision + 1].manifest)
        /\ \A k \in 1..n - 1 : ~Binds(log[k], revision, revisions[revision + 1].manifest)

\* The bytes are there, and as many as the reference says.
Fetched(r) == artifacts[r.digest].format # Nothing /\ artifacts[r.digest].there /\ Length[r.digest] = r.bytes

Item(kind, of, bytes) == [kind |-> kind, of |-> of, bytes |-> bytes]

\* The digest of an envelope stands for it, its size with it.
Inventory(list, O, audit, refs) ==
    {Item("step", s, 0) : s \in ToSet(list)} \cup {Item("origin", o, 0) : o \in O}
    \cup {Item("audit", a, 0) : a \in ToSet(audit)} \cup {Item("attachment", r.digest, r.bytes) : r \in refs}

\* buildBundle.
Bundle(revision, graph, request, path, list, O, audit, refs, policy) ==
    [revision |-> revision, graph |-> graph, request |-> request, path |-> path,
     inventory |-> Inventory(list, O, audit, refs), policy |-> policy,
     steps |-> list, origins |-> O, audit |-> audit,
     attachments |-> IF policy = "INCLUDE" THEN refs ELSE {}]

Export(revision, request, policy) ==
    LET r == revisions[revision + 1]
        path == PathOf(revision, request)
        refs == Refs(ReadSteps(r))
    IN  /\ path # Refused
        /\ policy = "INCLUDE" => \A f \in refs : Fetched(f)
        /\ bundle' = Bundle(revision, r.manifest, request, path, Sorted(r.steps), r.origins,
                            SubSeq(log, 1, Binding(revision)), refs, policy)
        /\ honest' = TRUE
        /\ UNCHANGED tables

-------------------------------------------------------------------------------
(* verify. *)

\* The parts are those of the inventory, and the attachments those of the steps.
Inventoried(b) ==
    LET refs == Refs(b.steps)
    IN  /\ b.inventory = Inventory(b.steps, b.origins, b.audit, refs)
        /\ \A a \in b.attachments : a.bytes = Length[a.digest] /\ a \in refs
        /\ b.policy = "OMIT" => b.attachments = {}
        /\ b.policy = "INCLUDE" => refs \subseteq b.attachments

\* No origin is supplied beyond those that the steps need.
InScope(b) ==
    \A o \in b.origins :
        \E p \in b.origins : p.stream = o.stream /\ p.step \in ToSet(b.steps) /\ p.seq >= o.seq

GraphAgrees(b) == b.graph = Manifest(ToSet(b.steps), b.origins)

PathAgrees(b) ==
    LET path == Path(ToSet(b.steps), EdgeList(b.steps), b.origins, b.graph.gaps,
                     b.revision, b.request)
    IN  path # Refused /\ path = b.path

\* The last entry is of the revision, whatever its graph.
BoundToRevision(b) ==
    b.audit # <<>> /\ Last(b.audit).kind = "ImportCommitted" /\ Last(b.audit).revision = b.revision

Bound(b) == b.audit # <<>> /\ Binds(Last(b.audit), b.revision, b.graph)

\* Signatures and pins are then judged by evalChains (module ChainTrust).
Verify(b) ==
    IF ~Inventoried(b) \/ ~InScope(b) THEN "INVENTORY_MISMATCH"
    ELSE IF ~GraphAgrees(b) THEN "GRAPH_MISMATCH"
    ELSE IF ~PathAgrees(b) THEN "PATH_MISMATCH"
    ELSE IF ~Bound(b) THEN "AUDIT_BINDING_MISMATCH"
    ELSE "CHAINS"

\* Somebody puts a bundle together again from what exports have: the steps of a
\* revision, one of them perhaps lost, with origins, a number, a graph, a path and the
\* log up to an entry that need not belong to them.
Reassemble ==
    \E n, k \in 1..Len(revisions), request \in Requests :
    \E missing \in revisions[n].steps \cup {Nothing}, upTo \in {Binding(k - 1), Len(log)},
       O \in {revisions[n].origins, revisions[Len(revisions)].origins} :
        LET list == Sorted(revisions[n].steps \ {missing})
        IN  \E graph \in {revisions[k].manifest, Manifest(ToSet(list), O)} :
            \E path \in {PathOf(k - 1, request),
                         Path(ToSet(list), EdgeList(list), O, graph.gaps, k - 1, request)} \ {Refused} :
                /\ bundle' = Bundle(k - 1, graph, request, path, list, O, SubSeq(log, 1, upTo),
                                    Refs(list), "OMIT")
                /\ honest' = FALSE
                /\ UNCHANGED tables

Discard == bundle # NoBundle /\ bundle' = NoBundle /\ honest' = FALSE /\ UNCHANGED tables

-------------------------------------------------------------------------------
Init ==
    /\ steps = <<>>
    /\ origins = {}
    /\ artifacts = [d \in Digests |-> [format |-> Nothing, there |-> FALSE]]
    /\ imports = [i \in Imports |-> "NEW"]
    /\ revisions = <<[steps |-> {}, origins |-> {}, manifest |-> Manifest({}, {}), edges |-> EdgeList(<<>>)]>>
    /\ log = <<[kind |-> "TraceCreated", seq |-> 1, graph |-> Manifest({}, {})]>>
    /\ bundle = NoBundle
    /\ honest = FALSE

Next ==
    \/ bundle = NoBundle /\
          \/ \E i \in Imports : Stage(i) \/ Commit(i)
          \/ \E O \in {{}, Elsewhere} : Other(O)
          \/ \E d \in Digests : Lose(d)
          \/ \E r \in 1..Len(revisions), request \in Requests, policy \in {"INCLUDE", "OMIT"} :
                Export(r - 1, request, policy)
          \/ Len(log) = MaxEntries /\ Reassemble
    \/ Discard

Spec == Init /\ [][Next]_vars

-------------------------------------------------------------------------------
(* Properties. *)

\* "Construct a proof bundle" (bundle.ts:44): whatever was imported in whatever
\* order, a verifier that is handed an export finds the inventory, the graph, the
\* path and the binding as they should be, though it takes steps and edges in
\* another order than the exporter (execBundleExport, verify).
HonestVerifies == honest => Verify(bundle) = "CHAINS"

\* A bundle that comes as far as the signatures, with a log that is the workspace's,
\* has the steps and the path of the revision that it names, and the bodies of its
\* origins, whose signatures are yet to be judged (phases 2 to 6 of verify).
ValidIsRevision ==
    bundle # NoBundle /\ Verify(bundle) = "CHAINS" =>
        LET r == revisions[bundle.revision + 1]
            path == PathOf(bundle.revision, bundle.request)
            bodies(O) == {o.hash : o \in O}
        IN  /\ ToSet(bundle.steps) = r.steps
            /\ bodies(bundle.origins) = bodies(r.origins)
            /\ path = [bundle.path EXCEPT !.origins = path.origins]
            /\ bodies(bundle.path.origins) = bodies(path.origins)
===============================================================================
