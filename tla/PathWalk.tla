------------------------------- MODULE PathWalk -------------------------------
(***************************************************************************)
(* computePath (packages/core/src/path.ts, compute_path in                 *)
(* python/vislineage/verify.py): the ancestors of an action in a           *)
(* revision's graph, walked over incoming edges with a work list, under a  *)
(* bound on depth, nodes and edges, and put in topological order.          *)
(*                                                                         *)
(* The exporter runs it over the edges as SQLite returns them, the         *)
(* verifier over the edges as reduce() makes them: the order in which a    *)
(* step's incoming edges come is arbitrary, and is the input here.  What   *)
(* the function only filters by the set of returned steps (gaps, origins)  *)
(* is left out.                                                            *)
(***************************************************************************)
EXTENDS Integers, Sequences, FiniteSets

CONSTANTS
    Steps,       \* step hashes, ordered as positive numbers are
    Graphs,      \* the incoming edges: step -> its parents, in edge order
    VersionSets, \* the steps that carry the requested source and record
    MaxDepth,    \* req.max_depth
    MaxNodes,    \* req.max_nodes
    MaxEdges     \* 16384 in the code

ASSUME StepAssumption == Steps \subseteq Nat \ {0}

\* Every parent is a step of the graph: reduce() makes edges between its steps.
ASSUME GraphAssumption ==
    /\ Graphs \subseteq [Steps -> Seq(Steps)]
    /\ \A V \in VersionSets : V \subseteq Steps /\ IsFiniteSet(V)

\* No step is its own ancestor: reduce() leaves out every edge that lies on a cycle
\* (CyclesSuppressed in GraphReduce).  Of any steps, one has no parent among them.
ASSUME AcyclicAssumption ==
    \A g \in Graphs : \A S \in SUBSET Steps :
        S # {} => \E s \in S : \A n \in DOMAIN g[s] : g[s][n] \notin S

ASSUME BoundAssumption == MaxDepth \in Nat /\ MaxNodes \in Nat /\ MaxEdges \in Nat

VARIABLES
    incoming,  \* step -> parents, in the order of g.edges
    versions,  \* candidates for the action
    phase,     \* where the function is, or what it threw
    depth,     \* step -> the depth it was first met at
    wl,        \* the work list
    at,        \* the step whose edges are being looked at, 0 before the first
    todo,      \* those of its parents not yet looked at
    indeg,     \* step -> edges to it from steps not yet in order
    ready,     \* the ready vertices, which the code keeps sorted
    order      \* the returned steps

walkVars == <<depth, wl, at, todo>>
orderVars == <<indeg, ready, order>>
vars == <<incoming, versions, phase, walkVars, orderVars>>

Thrown == {"NOT_FOUND", "ACTION_CONFLICT", "PATH_LIMIT"}
Phases == {"find", "walk", "order", "done"} \cup Thrown

Nobody == [s \in {} |-> 0]

Parents(s) == {incoming[s][n] : n \in DOMAIN incoming[s]}

\* The steps met so far; those the function returns once the walk is over.
Returned == DOMAIN depth

PathEdges == {e \in Returned \X Returned : e[1] \in Parents(e[2])}

-------------------------------------------------------------------------------

Find ==
    /\ phase = "find"
    /\ \/ /\ versions = {}
          /\ phase' = "NOT_FOUND"
          /\ UNCHANGED walkVars
       \/ /\ Cardinality(versions) > 1
          /\ phase' = "ACTION_CONFLICT"
          /\ UNCHANGED walkVars
       \/ \E s \in versions :
             /\ Cardinality(versions) = 1
             /\ phase' = "walk"
             /\ depth' = [v \in {s} |-> 0]
             /\ wl' = <<s>>
             /\ UNCHANGED <<at, todo>>
    /\ UNCHANGED <<incoming, versions, orderVars>>

\* wl.pop(): the step met last.
TakeStep == at' = wl[Len(wl)] /\ wl' = SubSeq(wl, 1, Len(wl) - 1)

Pop ==
    /\ phase = "walk"
    /\ todo = <<>>
    /\ wl # <<>>
    /\ TakeStep
    /\ todo' = incoming[at']
    /\ UNCHANGED <<incoming, versions, phase, depth, orderVars>>

\* A bound that lets one more generation in.
TooDeepLate(d) == d > MaxDepth

TooDeep(d) == d + 1 > MaxDepth

\* A walk that marks a parent and does not walk on from it.
EnqueuedNever(p) == IF p \in Parents(at) THEN wl ELSE Append(wl, p)

Enqueued(p) == Append(wl, p)

\* One incoming edge of the step at hand.
Look ==
    /\ phase = "walk"
    /\ todo # <<>>
    /\ LET p == Head(todo)
       IN  \/ /\ p \in Returned
              /\ todo' = Tail(todo)
              /\ UNCHANGED <<phase, depth, wl>>
           \/ /\ p \notin Returned
              /\ TooDeep(depth[at])
              /\ phase' = "PATH_LIMIT"
              /\ UNCHANGED <<depth, wl, todo>>
           \/ /\ p \notin Returned
              /\ ~TooDeep(depth[at])
              /\ depth' = [s \in Returned \cup {p} |-> IF s = p THEN depth[at] + 1 ELSE depth[s]]
              /\ wl' = Enqueued(p)
              /\ todo' = Tail(todo)
              /\ UNCHANGED phase
    /\ UNCHANGED <<incoming, versions, at, orderVars>>

\* The walk is over: the bounds on the whole, then the vertices that are ready.
Measure ==
    /\ phase = "walk"
    /\ todo = <<>>
    /\ wl = <<>>
    /\ \/ /\ Cardinality(Returned) > MaxNodes \/ Cardinality(PathEdges) > MaxEdges
          /\ phase' = "PATH_LIMIT"
          /\ UNCHANGED orderVars
       \/ /\ Cardinality(Returned) <= MaxNodes
          /\ Cardinality(PathEdges) <= MaxEdges
          /\ phase' = "order"
          /\ indeg' = [s \in Returned |-> Cardinality({e \in PathEdges : e[2] = s})]
          /\ ready' = {s \in Returned : indeg'[s] = 0}
          /\ UNCHANGED order
    /\ UNCHANGED <<incoming, versions, walkVars>>

\* Ready as soon as one parent is ordered.
FreedByOne(v) == {w \in Returned : <<v, w>> \in PathEdges}

\* The steps whose last unordered parent is v.
Freed(v) == {w \in Returned : <<v, w>> \in PathEdges /\ indeg[w] = 1}

\* The ready vertices as a queue that is not sorted again.
Newest(v) == \A u \in ready : u <= v

\* ready.shift() of the sorted array.
Lowest(v) == \A u \in ready : v <= u

Order ==
    /\ phase = "order"
    /\ \E v \in ready :
          /\ Lowest(v)
          /\ order' = Append(order, v)
          /\ indeg' = [w \in Returned |-> IF <<v, w>> \in PathEdges THEN indeg[w] - 1 ELSE indeg[w]]
          /\ ready' = (ready \ {v}) \cup Freed(v)
    /\ UNCHANGED <<incoming, versions, phase, walkVars>>

Return ==
    /\ phase = "order"
    /\ ready = {}
    /\ phase' = "done"
    /\ UNCHANGED <<incoming, versions, walkVars, orderVars>>

Init ==
    /\ incoming \in Graphs
    /\ versions \in VersionSets
    /\ phase = "find"
    /\ depth = Nobody
    /\ wl = <<>>
    /\ at = 0
    /\ todo = <<>>
    /\ indeg = Nobody
    /\ ready = {}
    /\ order = <<>>

Next == Find \/ Pop \/ Look \/ Measure \/ Order \/ Return

Spec == Init /\ [][Next]_vars

-------------------------------------------------------------------------------
(* Types. *)

\* The walk's state is what its variables say.
TypeOK ==
    /\ incoming \in Graphs
    /\ versions \in VersionSets
    /\ phase \in Phases
    /\ depth \in [Returned -> 0..MaxDepth]
    /\ Returned \subseteq Steps
    /\ wl \in Seq(Returned)
    /\ at \in Returned \cup {0}
    /\ todo \in Seq(Steps)
    /\ ready \subseteq Returned
    /\ order \in Seq(Returned)

-------------------------------------------------------------------------------
(* What the function promises. *)

\* S holds the action and, with a step, all its parents.
ClosedOver(S) == versions \subseteq S /\ \A s \in S : Parents(s) \subseteq S

Accepted == phase \in {"order", "done"}

\* The steps returned are the action, its parents, their parents and so on, and
\* no others: the least set that is closed under parents.
ReturnsAncestors ==
    Accepted => ClosedOver(Returned) /\ \A S \in SUBSET Steps : ClosedOver(S) => Returned \subseteq S

\* The steps at most n generations up from the action.
Within(n) ==
    LET up[m \in 0..n] ==
            IF m = 0 THEN versions ELSE up[m - 1] \cup UNION {Parents(s) : s \in up[m - 1]}
    IN  up[n]

\* A path that is returned keeps its bounds: no ancestor is further up than
\* max_depth, and there are at most max_nodes of them.
AcceptedWithinBounds ==
    Accepted =>
        /\ Returned \subseteq Within(MaxDepth)
        /\ Cardinality(Returned) <= MaxNodes

Before(n) == {order[m] : m \in 1..(n - 1)}

\* Each returned step is listed once, after all its parents.
ParentsFirst ==
    phase = "done" =>
        /\ {order[n] : n \in DOMAIN order} = Returned
        /\ \A n \in DOMAIN order : order[n] \notin Before(n) /\ Parents(order[n]) \subseteq Before(n)

\* The list is the same whatever order the edges came in: each step in it is the
\* lowest of those whose parents are all listed before.
LowestFirst ==
    phase = "done" =>
        \A n \in DOMAIN order :
            \A s \in Returned \ Before(n) : Parents(s) \subseteq Before(n) => order[n] <= s

\* "Iterative BFS over incoming edges, tracking minimum depth" (path.ts:41): a
\* path is refused only when an ancestor really is further up than max_depth, or
\* there are too many.
LimitMeansExceeded ==
    phase = "PATH_LIMIT" =>
        \/ ~(Within(Cardinality(Steps)) \subseteq Within(MaxDepth))
        \/ Cardinality(Within(Cardinality(Steps))) > MaxNodes

===============================================================================
