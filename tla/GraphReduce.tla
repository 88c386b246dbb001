------------------------------ MODULE GraphReduce ------------------------------
(***************************************************************************)
(* reduce (packages/core/src/reduce.ts, and reduce in                      *)
(* python/vislineage/verify.py): from the steps and origins of a trace to  *)
(* the edges of its graph, and to the gaps that say what is no edge.       *)
(*                                                                         *)
(* The exporter gives the steps as SQLite returns them and the verifier as *)
(* the bundle lists them.  What is derived step by step does not look at   *)
(* their order and is a set here; the walk that finds the cycles (Tarjan's *)
(* algorithm, with its call stack in a list) does, and is taken step by    *)
(* step, with the next start and the next child any of those left.         *)
(***************************************************************************)
EXTENDS Integers, Sequences, FiniteSets

CONSTANTS
    Steps,      \* hashes of steps, ordered as numbers are
    Body,       \* hash -> source, record, native, span, parents, agent, offers, accept
    Origins,    \* signed attestations: hash, stream, seq, prev, step
    Inputs,     \* the steps and origins of a trace
    Zero,       \* the prev of a first origin
    Nothing     \* no accept, no delegation

ASSUME InputAssumption ==
    /\ Inputs \subseteq [steps : SUBSET Steps, origins : SUBSET Origins]
    /\ \A i \in Inputs : IsFiniteSet(i.steps)
    /\ Steps \subseteq Nat
    /\ \A o \in Origins : o.seq \in Nat \ {0}

VARIABLES
    steps, origins, \* the input
    phase,          \* derive, visit or done
    edges,          \* the candidate edges, and those that are left
    gaps,
    index, low,     \* step -> its number, and the lowest it leads back to
    stack,          \* steps not yet in a component
    work,           \* the steps being visited, with the children not yet seen
    components

walkVars == <<index, low, stack, work, components>>
vars == <<steps, origins, phase, edges, gaps, walkVars>>

Lowest(S) == CHOOSE n \in S : \A m \in S : n <= m

Gap(code, subject, related) == [code |-> code, subject |-> subject, related |-> related]

-------------------------------------------------------------------------------
(* Records and native parents. *)

Versions(source, record) ==
    {u \in steps : Body[u].source = source /\ Body[u].record = record}

Conflicted(s) == Cardinality(Versions(Body[s].source, Body[s].record)) > 1

SourceConflicts ==
    {LET vs == Versions(Body[s].source, Body[s].record)
     IN  Gap("SOURCE_CONFLICT", Lowest(vs), vs) : s \in {u \in steps : Conflicted(u)}}

\* The steps that a parent named by s may be.
Named(s, p) ==
    {u \in steps :
        /\ Body[u].source = Body[s].source
        /\ Body[u].native = Body[s].native
        /\ p.value = IF p.kind = "record" THEN Body[u].record ELSE Body[u].span}

Links == UNION {{[child |-> s, parent |-> p] : p \in Body[s].parents} : s \in steps}

ParentGaps ==
    {Gap("PARENT_MISSING", l.child, {}) : l \in {k \in Links : Named(k.child, k.parent) = {}}}
    \cup
    {Gap("PARENT_AMBIGUOUS", l.child, Named(l.child, l.parent)) :
        l \in {k \in Links : Cardinality(Named(k.child, k.parent)) > 1}}

\* Suppresses by the trace a step belongs to and the name of its span.
SuppressedBySpan(s) ==
    \E u \in steps \ {s} : Body[u].native = Body[s].native /\ Body[u].span = Body[s].span

\* A step whose record has another version gets no native parent.
Suppressed(s) == Conflicted(s)

Edge(parent, child, delegation) == [parent |-> parent, child |-> child, delegation |-> delegation]

NativeEdges ==
    UNION {{Edge(u, l.child, Nothing) : u \in Named(l.child, l.parent)} :
              l \in {k \in Links : Cardinality(Named(k.child, k.parent)) = 1 /\ ~Suppressed(k.child)}}

-------------------------------------------------------------------------------
(* Delegations. *)

Offers == UNION {Body[s].offers : s \in steps}
Offerers(d) == {s \in steps : \E o \in Body[s].offers : o.id = d}
Accepters(d) == {s \in steps : Body[s].accept # Nothing /\ Body[s].accept.id = d}

Delegations ==
    {o.id : o \in Offers} \cup {Body[s].accept.id : s \in {u \in steps : Body[u].accept # Nothing}}

Reused(d) == Cardinality(Offerers(d)) > 1 \/ Cardinality(Accepters(d)) > 1

\* The steps of the record that an accept says its offer came from.
AcceptedFrom(b) == Versions(Body[b].accept.parent.source, Body[b].accept.parent.record)

\* a's offer and b's accept of d say the same.
Agree(a, b, d) ==
    /\ Body[b].accept.parent.hash = a
    /\ Body[a].source # Body[b].source
    /\ \E o \in Body[a].offers :
          /\ o.id = d
          /\ o.child_source = Body[b].source
          /\ o.child_agent = Body[b].agent
          /\ o.scope = Body[b].accept.scope

\* What becomes of a delegation that was offered once and accepted once.
PairGap(a, b, d) ==
    CASE AcceptedFrom(b) = {} ->
            {Gap("DELEGATION_MISMATCH", b, {})}
      [] AcceptedFrom(b) # {} /\ Body[b].accept.parent.hash \notin AcceptedFrom(b) ->
            {Gap("PARENT_HASH_MISMATCH", b, AcceptedFrom(b))}
      [] Body[b].accept.parent.hash \in AcceptedFrom(b) /\ ~Agree(a, b, d) ->
            {Gap("DELEGATION_MISMATCH", b, AcceptedFrom(b))}
      [] OTHER -> {}

DelegationGap(d) ==
    LET involved == Offerers(d) \cup Accepters(d)
    IN  CASE Reused(d) -> {Gap("DELEGATION_REUSED", Lowest(involved), involved)}
          [] ~Reused(d) /\ Offerers(d) = {} -> {Gap("OFFER_MISSING", s, {}) : s \in Accepters(d)}
          [] ~Reused(d) /\ Accepters(d) = {} -> {Gap("ACCEPT_MISSING", s, {}) : s \in Offerers(d)}
          [] OTHER -> UNION {PairGap(a, b, d) : a \in Offerers(d), b \in Accepters(d)}

DelegationGaps == UNION {DelegationGap(d) : d \in Delegations}

DelegationEdges ==
    UNION {{Edge(a, b, d) : a \in Offerers(d), b \in Accepters(d)} :
              d \in {c \in Delegations : DelegationGap(c) = {}}}

Derive ==
    /\ phase = "derive"
    /\ phase' = "visit"
    /\ edges' = NativeEdges \cup DelegationEdges
    /\ gaps' = SourceConflicts \cup ParentGaps \cup DelegationGaps
    /\ UNCHANGED <<steps, origins, walkVars>>

-------------------------------------------------------------------------------
(* Cycles. *)

Nodes == {e.parent : e \in edges} \cup {e.child : e \in edges}
Children(v) == {e.child : e \in {f \in edges : f.parent = v}}

Visited == DOMAIN index
Stacked == {stack[n] : n \in DOMAIN stack}

Top == work[Len(work)]

\* index and low get the next number.
Enter(v) ==
    /\ index' = [u \in Visited \cup {v} |-> IF u = v THEN Cardinality(Visited) ELSE index[u]]
    /\ low' = [u \in Visited \cup {v} |-> IF u = v THEN Cardinality(Visited) ELSE low[u]]
    /\ stack' = Append(stack, v)

Start ==
    /\ phase = "visit"
    /\ work = <<>>
    /\ \E v \in Nodes \ Visited :
          /\ Enter(v)
          /\ work' = <<[at |-> v, todo |-> Children(v)]>>
    /\ UNCHANGED <<steps, origins, phase, edges, gaps, components>>

\* A child that is met again, also when its component is closed.
MetAgain(w) == w \in Visited

\* The child is still on the stack: the step leads back to it.
LeadsBack(w) == w \in Stacked

\* Takes the last number met for the lowest.
LoweredToLast(v, n) == low' = [low EXCEPT ![v] = n]

LoweredTo(v, n) == low' = [low EXCEPT ![v] = IF n < @ THEN n ELSE @]

Look ==
    /\ phase = "visit"
    /\ work # <<>>
    /\ \E w \in Top.todo :
          LET rest == [work EXCEPT ![Len(work)].todo = @ \ {w}]
          IN  \/ /\ w \notin Visited
                 /\ Enter(w)
                 /\ work' = Append(rest, [at |-> w, todo |-> Children(w)])
              \/ /\ w \in Visited
                 /\ LeadsBack(w)
                 /\ LoweredTo(Top.at, index[w])
                 /\ work' = rest
                 /\ UNCHANGED <<index, stack>>
              \/ /\ w \in Visited
                 /\ ~LeadsBack(w)
                 /\ work' = rest
                 /\ UNCHANGED <<index, low, stack>>
    /\ UNCHANGED <<steps, origins, phase, edges, gaps, components>>

\* Where v is on the stack; it and what is above it are its component.
PlaceOf(v) == CHOOSE n \in DOMAIN stack : stack[n] = v
Above(v) == {stack[n] : n \in PlaceOf(v)..Len(stack)}

\* Components of one step are no cycle.
CycleOfMany(C, v) == Cardinality(C) > 1

\* More than one step, or one with an edge to itself.
IsCycle(C, v) == Cardinality(C) > 1 \/ v \in Children(v)

Close(v) ==
    /\ components' = components \cup {Above(v)}
    /\ stack' = SubSeq(stack, 1, PlaceOf(v) - 1)
    /\ gaps' = gaps \cup
          (IF IsCycle(Above(v), v) THEN {Gap("CYCLE", Lowest(Above(v)), Above(v))} ELSE {})

\* A visit ends: the step before it leads back as far, and the component is closed
\* where it was entered.
Retreat ==
    /\ phase = "visit"
    /\ work # <<>>
    /\ Top.todo = {}
    /\ work' = SubSeq(work, 1, Len(work) - 1)
    /\ IF Len(work) > 1 THEN LoweredTo(work[Len(work) - 1].at, low[Top.at]) ELSE UNCHANGED low
    /\ \/ low[Top.at] = index[Top.at] /\ Close(Top.at)
       \/ low[Top.at] # index[Top.at] /\ UNCHANGED <<stack, gaps, components>>
    /\ UNCHANGED <<steps, origins, phase, edges, index>>

Inside(e) == \E C \in components : e.parent \in C /\ e.child \in C

-------------------------------------------------------------------------------
(* The streams of origins. *)

At(stream, n) == {o \in origins : o.stream = stream /\ o.seq = n}
HashesAt(stream, n) == {o.hash : o \in At(stream, n)}

\* Only an empty place breaks a stream.
BrokenByHole(o) == o.seq > 1 /\ At(o.stream, o.seq - 1) = {}

Broken(o) ==
    IF o.seq = 1 THEN o.prev # Zero ELSE o.prev \notin HashesAt(o.stream, o.seq - 1)

Attesting == {o \in origins : o.step \in steps}

\* A step is marked when it is attested at or beyond the place.
OriginGaps ==
    {Gap("ORIGIN_GAP", o.step, {}) :
        o \in {a \in Attesting :
                  \E b \in origins : b.stream = a.stream /\ b.seq <= a.seq /\ Broken(b)}}
    \cup UNION
    {{Gap("ORIGIN_FORK", o.step, HashesAt(o.stream, n)) :
        n \in {m \in 1..o.seq : Cardinality(HashesAt(o.stream, m)) > 1}} : o \in Attesting}

Finish ==
    /\ phase = "visit"
    /\ work = <<>>
    /\ Nodes \subseteq Visited
    /\ phase' = "done"
    /\ edges' = {e \in edges : ~Inside(e)}
    /\ gaps' = gaps \cup OriginGaps
    /\ UNCHANGED <<steps, origins, walkVars>>

-------------------------------------------------------------------------------

Init ==
    /\ \E i \in Inputs : steps = i.steps /\ origins = i.origins
    /\ phase = "derive"
    /\ edges = {}
    /\ gaps = {}
    /\ index = [s \in {} |-> 0]
    /\ low = [s \in {} |-> 0]
    /\ stack = <<>>
    /\ work = <<>>
    /\ components = {}

Next == Derive \/ Start \/ Look \/ Retreat \/ Finish

Spec == Init /\ [][Next]_vars

-------------------------------------------------------------------------------
(* Types. *)

\* What is visited is on the stack or in one component, and what is being visited
\* is on the stack.
TypeOK ==
    /\ [steps |-> steps, origins |-> origins] \in Inputs
    /\ phase \in {"derive", "visit", "done"}
    /\ \A e \in edges : e.parent \in steps /\ e.child \in steps
    /\ index \in [Visited -> Nat]
    /\ low \in [Visited -> Nat]
    /\ \A v \in Visited : low[v] <= index[v]
    /\ stack \in Seq(Visited)
    /\ \A n \in DOMAIN work : work[n].at \in Stacked /\ work[n].todo \subseteq steps
    /\ Visited = Stacked \cup UNION components
    /\ \A C \in components : Stacked \cap C = {}
    /\ \A C, D \in components : C # D => C \cap D = {}

-------------------------------------------------------------------------------
(* What the graph says. *)

Done == phase = "done"

Candidates == NativeEdges \cup DelegationEdges

\* w comes after v: every set of steps that holds v, and with a step the children
\* it may have, holds w.
Reaches(v, w) ==
    LET candidates == Candidates
    IN  \A S \in SUBSET steps :
            v \in S /\ (\A e \in candidates : e.parent \in S => e.child \in S) => w \in S

\* "Unsuppressed edges (candidate edges minus SCC-internal/self-loop edges)"
\* (reduce.ts:13): an edge is left out if and only if it is part of a cycle, in
\* whatever order the steps and their children are taken.
CyclesSuppressed ==
    Done => edges = {e \in Candidates : ~Reaches(e.child, e.parent)}

\* Each cycle is reported once, as the largest set of steps that lead to one
\* another, under its lowest hash.
CyclesReported ==
    Done =>
        {g \in gaps : g.code = "CYCLE"} =
            {LET C == {w \in steps : Reaches(e.child, w) /\ Reaches(w, e.child)}
             IN  Gap("CYCLE", Lowest(C), C) : e \in {f \in Candidates : Reaches(f.child, f.parent)}}

Mentions(g, s) == s = g.subject \/ s \in g.related

InCycle(S) == \E g \in gaps : g.code = "CYCLE" /\ S \subseteq g.related

\* What is said of the parent that l.child names as l.parent: an edge, or
\* that no step has that name, or which ones have it, or, of the one that has it,
\* that the child has other versions or that the two lead to one another.
LinkKept(l) ==
    LET named == Named(l.child, l.parent)
    IN  \/ named = {} /\ Gap("PARENT_MISSING", l.child, {}) \in gaps
        \/ Cardinality(named) > 1 /\ Gap("PARENT_AMBIGUOUS", l.child, named) \in gaps
        \/ \E u \in named :
              /\ named = {u}
              /\ \/ Edge(u, l.child, Nothing) \in edges
                 \/ \E g \in gaps : g.code = "SOURCE_CONFLICT" /\ l.child \in g.related
                 \/ InCycle({u, l.child})

\* Of a delegation: an edge between its parties, or that they lead to one another,
\* or a gap about one of them that says why they were not paired.
DelegationKept(d) ==
    \/ \E a \in Offerers(d), b \in Accepters(d) : Edge(a, b, d) \in edges \/ InCycle({a, b})
    \/ \E g \in gaps, s \in Offerers(d) \cup Accepters(d) :
          /\ Mentions(g, s)
          /\ g.code \in {"DELEGATION_REUSED", "OFFER_MISSING", "ACCEPT_MISSING",
                         "DELEGATION_MISMATCH", "PARENT_HASH_MISMATCH"}

\* "Conflicts, cycles, and ambiguous parents are retained as explicit gap
\* evidence, not silently resolved" (README.md:31-33): each parent that a step
\* names and each delegation is an edge, or a gap says of it why it is not.
NothingDropped ==
    Done => (\A l \in Links : LinkKept(l)) /\ (\A d \in Delegations : DelegationKept(d))

\* o is the last of a chain that begins the stream.
Rooted(o) ==
    \E chain \in [1..o.seq -> origins] :
        /\ chain[o.seq] = o
        /\ chain[1].prev = Zero
        /\ \A n \in 1..o.seq : chain[n].stream = o.stream /\ chain[n].seq = n
        /\ \A n \in 2..o.seq : chain[n].prev = chain[n - 1].hash

\* ORIGIN_GAP is said of a step if and only if one of its attestations, or an
\* origin at or below it in the stream, is not the end of a chain from the first.
OriginGapsAreHoles ==
    Done =>
        \A s \in steps :
            Gap("ORIGIN_GAP", s, {}) \in gaps <=>
                \E o \in origins : o.step = s /\
                    \E b \in origins : b.stream = o.stream /\ b.seq <= o.seq /\ ~Rooted(b)

===============================================================================
