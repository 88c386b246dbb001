------------------------- MODULE BundleExchangeProofs -------------------------
(***************************************************************************)
(* Proofs about BundleExchange, for any steps, batches, requests and log:  *)
(* what an export makes verifies, and what comes as far as the signatures  *)
(* is the revision it names.                                               *)
(***************************************************************************)
EXTENDS BundleExchange, FiniteSetTheorems, WellFoundedInduction, TLAPS

(* Sequences and places. *)

\* A set of numbers that has an element has a least one.
LEMMA LeastNatural ==
    ASSUME NEW T, T \subseteq Nat, T # {}
    PROVE  \E m \in T : \A n \in T : m <= n
<1> DEFINE Less == {ss \in Nat \X Nat : ss[1] < ss[2]}
<1>1. Less = OpToRel(<, Nat)
  BY DEF OpToRel
<1>2. IsWellFoundedOn(Less, Nat)
  BY <1>1, NatLessThanWellFounded
<1>3. \E m \in T : \A n \in T : ~(<<n, m>> \in Less)
  <2> HIDE DEF Less
  <2> QED
    BY <1>2, WFMin
<1>4. \A m, n \in Nat : ~(<<n, m>> \in Less) => m <= n
  OBVIOUS
<1> QED
  BY <1>3, <1>4

IsList(list) == list \in Seq(ToSet(list))

\* A list with one more entry, and a list after another.
LEMMA AppendList ==
    ASSUME NEW list, IsList(list), NEW x
    PROVE  /\ IsList(Append(list, x))
           /\ Len(list) \in Nat /\ DOMAIN list = 1..Len(list)
           /\ Len(Append(list, x)) = Len(list) + 1
           /\ DOMAIN Append(list, x) = 1..Len(list) + 1
           /\ \A n \in DOMAIN list : Append(list, x)[n] = list[n]
           /\ Append(list, x)[Len(list) + 1] = x
<1>1. PICK T : T = ToSet(list) \cup {x}
  OBVIOUS
<1>2. list \in Seq(T) /\ x \in T
  BY <1>1 DEF IsList
<1>3. Append(list, x) \in Seq(ToSet(Append(list, x)))
  BY <1>2 DEF ToSet
<1> QED
  BY <1>2, <1>3 DEF IsList

LEMMA ConcatenatedSet ==
    ASSUME NEW T, NEW list \in Seq(T), NEW more \in Seq(T)
    PROVE  list \o more \in Seq(T) /\ ToSet(list \o more) = ToSet(list) \cup ToSet(more)
<1>1. PICK both : both = list \o more
  OBVIOUS
<1>2. /\ both \in Seq(T) /\ Len(both) = Len(list) + Len(more)
      /\ \A n \in 1..Len(both) : both[n] = IF n <= Len(list) THEN list[n] ELSE more[n - Len(list)]
  BY <1>1
<1>3. PICK a \in Nat, b \in Nat : a = Len(list) /\ b = Len(more)
  <2>1. Len(list) \in Nat /\ Len(more) \in Nat
    OBVIOUS
  <2> QED
    BY <2>1
<1>4. DOMAIN list = 1..a /\ DOMAIN more = 1..b /\ DOMAIN both = 1..a + b
  BY <1>2, <1>3
<1>5. \A n \in 1..a : n \in 1..a + b /\ both[n] = list[n]
  BY <1>2, <1>3
<1>6. \A n \in 1..b : n + a \in 1..a + b /\ both[n + a] = more[n]
  <2> SUFFICES ASSUME NEW n \in 1..b PROVE n + a \in 1..a + b /\ both[n + a] = more[n]
    OBVIOUS
  <2>1. n + a \in 1..a + b /\ ~(n + a <= a) /\ n + a - a = n
    BY <1>3
  <2> QED
    BY <1>2, <1>3, <2>1
<1>7. \A n \in 1..a + b : n \in 1..a \/ (n - a \in 1..b /\ both[n] = more[n - a])
  BY <1>2, <1>3
<1>8. ToSet(both) = ToSet(list) \cup ToSet(more)
  <2>1. \A x \in ToSet(list) \cup ToSet(more) : x \in ToSet(both)
    BY <1>4, <1>5, <1>6 DEF ToSet
  <2>2. \A n \in 1..a + b : both[n] \in ToSet(list) \cup ToSet(more)
    BY <1>4, <1>5, <1>7 DEF ToSet
  <2>3. \A x \in ToSet(both) : x \in ToSet(list) \cup ToSet(more)
    BY <1>4, <2>2 DEF ToSet
  <2> QED
    BY <2>1, <2>3
<1> QED
  BY <1>1, <1>2, <1>8

\* What is in a list has a place.
LEMMA PlaceIs ==
    ASSUME NEW T, NEW list \in Seq(T), NEW x \in ToSet(list)
    PROVE  Place(list, x) \in DOMAIN list /\ list[Place(list, x)] = x
<1> DEFINE At == {n \in DOMAIN list : list[n] = x}
<1>1. At \subseteq Nat /\ At # {}
  BY DEF ToSet
<1>2. PICK m \in At : \A n \in At : m <= n
  <2> HIDE DEF At
  <2> QED
    BY <1>1, LeastNatural
<1>3. \A k \in 1..m - 1 : list[k] # x
  <2> SUFFICES ASSUME NEW k \in 1..m - 1, list[k] = x PROVE FALSE
    OBVIOUS
  <2>1. m \in 1..Len(list) /\ k \in DOMAIN list /\ k < m
    BY <1>2
  <2> QED
    BY <1>2, <2>1
<1> QED
  BY <1>2, <1>3 DEF Place

-------------------------------------------------------------------------------
(* Sets put in order. *)

\* before puts the elements of S one after another.
Lines(before, S) ==
    /\ \A x \in S : <<x, x>> \notin before
    /\ \A x, y \in S : x # y => <<x, y>> \in before \/ <<y, x>> \in before
    /\ \A x, y, z \in S : <<x, y>> \in before /\ <<y, z>> \in before => <<x, z>> \in before

\* A finite set that is put in order is all there: the number of elements before
\* one is its place.
LEMMA ArrangedAll ==
    ASSUME NEW S, IsFiniteSet(S), NEW before, Lines(before, S)
    PROVE  Arranged(S, before) \in Seq(S) /\ ToSet(Arranged(S, before)) = S
<1> DEFINE Below(x) == {y \in S : <<y, x>> \in before}
           rank == [x \in S |-> Cardinality(Below(x)) + 1]
<1>1. PICK c : c = Cardinality(S) /\ c \in Nat
  BY FS_CardinalityType
<1>2. ASSUME NEW x \in S
      PROVE  /\ IsFiniteSet(Below(x)) /\ Cardinality(Below(x)) \in Nat
             /\ rank[x] = Cardinality(Below(x)) + 1 /\ rank[x] \in 1..c
  <2>1. Below(x) \in SUBSET S /\ Below(x) # S
    BY DEF Lines
  <2>2. /\ IsFiniteSet(Below(x)) /\ Cardinality(Below(x)) <= c
        /\ Cardinality(Below(x)) # c /\ Cardinality(Below(x)) \in Nat
    BY <1>1, <2>1, FS_Subset, FS_CardinalityType
  <2> QED
    BY <1>1, <2>2
<1>3. ASSUME NEW x \in S, NEW y \in S, <<x, y>> \in before PROVE rank[x] < rank[y]
  <2>1. Below(x) \in SUBSET Below(y) /\ Below(x) # Below(y)
    BY <1>3 DEF Lines
  <2>2. Cardinality(Below(x)) <= Cardinality(Below(y)) /\ Cardinality(Below(x)) # Cardinality(Below(y))
    BY <1>2, <2>1, FS_Subset
  <2> QED
    BY <1>2, <2>2
<1>4. \A x, y \in S : rank[x] = rank[y] => x = y
  <2> SUFFICES ASSUME NEW x \in S, NEW y \in S, rank[x] = rank[y], x # y PROVE FALSE
    OBVIOUS
  <2>1. rank[x] < rank[y] \/ rank[y] < rank[x]
    BY <1>3 DEF Lines
  <2>2. rank[x] \in Int /\ rank[y] \in Int
    BY <1>2
  <2> HIDE DEF rank
  <2> QED
    BY <2>1, <2>2
<1>5. \A n \in 1..c : \E x \in S : rank[x] = n
  <2>1. rank \in Injection(S, 1..c)
    <3>1. rank \in [S -> 1..c]
      BY <1>2
    <3> HIDE DEF rank
    <3> QED
      BY <1>4, <3>1 DEF Injection, IsInjective
  <2>2. IsFiniteSet(1..c) /\ Cardinality(1..c) = c
    <3>1. IsFiniteSet(1..c)
      BY <1>1, FS_Interval
    <3>2. Cardinality(1..c) = c
      BY <1>1, FS_Interval
    <3> QED
      BY <3>1, <3>2
  <2>3. rank \in Surjection(S, 1..c)
    <3> HIDE DEF rank
    <3> QED
      BY <1>1, <2>1, <2>2, FS_Injection
  <2> HIDE DEF rank
  <2> QED
    BY <2>3 DEF Surjection
<1>6. PICK list : list = Arranged(S, before)
  OBVIOUS
<1>7. ASSUME NEW n \in 1..c
      PROVE  list[n] \in S /\ rank[list[n]] = n
  <2>1. list[n] = CHOOSE x \in S : Cardinality(Below(x)) = n - 1
    BY <1>1, <1>6 DEF Arranged
  <2>2. \E x \in S : Cardinality(Below(x)) = n - 1
    <3>1. PICK x \in S : rank[x] = n
      BY <1>5
    <3>2. PICK k \in Nat : k = Cardinality(Below(x)) /\ k + 1 = n
      BY <1>2, <3>1
    <3>3. Cardinality(Below(x)) = n - 1
      BY <3>2
    <3> QED
      BY <3>3
  <2>3. list[n] \in S /\ Cardinality(Below(list[n])) = n - 1
    BY <2>1, <2>2
  <2>4. rank[list[n]] = (n - 1) + 1
    BY <2>3
  <2> QED
    BY <2>3, <2>4
<1>8. DOMAIN list = 1..c /\ list \in Seq(S)
  <2> DEFINE at(n) == CHOOSE x \in S : Cardinality(Below(x)) = n - 1
  <2>1. list = [n \in 1..c |-> at(n)]
    BY <1>1, <1>6 DEF Arranged
  <2> HIDE DEF at
  <2>2. list \in [1..c -> S]
    BY <1>7, <2>1
  <2> QED
    BY <1>1, <2>2
<1>9. ASSUME NEW x \in S PROVE x \in ToSet(list)
  <2>1. rank[x] \in 1..c
    BY <1>2
  <2>2. list[rank[x]] = x
    BY <1>4, <1>7, <2>1
  <2> QED
    BY <1>8, <2>1, <2>2 DEF ToSet
<1>10. ToSet(list) \subseteq S
  BY <1>7, <1>8 DEF ToSet
<1> QED
  BY <1>6, <1>8, <1>9, <1>10

\* What is before what outside the set does not matter.
LEMMA ArrangedSame ==
    ASSUME NEW S, NEW before, NEW other,
           \A x, y \in S : <<x, y>> \in before <=> <<x, y>> \in other
    PROVE  Arranged(S, before) = Arranged(S, other)
<1> DEFINE at(n) == CHOOSE x \in S : Cardinality({y \in S : <<y, x>> \in before}) = n - 1
           too(n) == CHOOSE x \in S : Cardinality({y \in S : <<y, x>> \in other}) = n - 1
<1>1. ASSUME NEW n PROVE at(n) = too(n)
  <2>1. \A x \in S : {y \in S : <<y, x>> \in before} = {y \in S : <<y, x>> \in other}
    OBVIOUS
  <2>2. \A x : (x \in S /\ Cardinality({y \in S : <<y, x>> \in before}) = n - 1)
                  <=> (x \in S /\ Cardinality({y \in S : <<y, x>> \in other}) = n - 1)
    BY <2>1
  <2> QED
    BY <2>2
<1>2. /\ Arranged(S, before) = [n \in 1..Cardinality(S) |-> at(n)]
      /\ Arranged(S, other) = [n \in 1..Cardinality(S) |-> too(n)]
  BY DEF Arranged
<1> HIDE DEF at, too
<1> QED
  BY <1>1, <1>2

\* Steps that are sorted by their hashes are all there.
LEMMA SortedAll ==
    ASSUME NEW S \in SUBSET Steps
    PROVE  Sorted(S) \in Seq(S) /\ ToSet(Sorted(S)) = S
<1>1. IsFiniteSet(S) /\ S \subseteq Nat
  BY StepAssumption, FS_Subset
<1>2. Lines({p \in S \X S : p[1] < p[2]}, S)
  BY <1>1 DEF Lines
<1> QED
  BY <1>1, <1>2, ArrangedAll DEF Sorted

-------------------------------------------------------------------------------
(* Edges.  What reduce makes of the same steps in another order has the edges  *)
(* into each step in the same order, and so has what SQLite reads back.        *)

\* The edges are those of S, and those into a step come as its body names them.
EdgesOf(edges, S) ==
    LET sorted == EdgeList(Sorted(S))
    IN  /\ edges.set = sorted.set
        /\ \A e, f \in edges.set :
              e.child = f.child => (<<e, f>> \in edges.before <=> <<e, f>> \in sorted.before)

LEMMA EdgeListSame ==
    ASSUME NEW list, NEW other, ToSet(other) = ToSet(list)
    PROVE  /\ EdgeList(list).set = EdgeList(other).set
           /\ \A e, f \in EdgeList(list).set :
                 e.child = f.child =>
                    (<<e, f>> \in EdgeList(list).before <=> <<e, f>> \in EdgeList(other).before)
<1> DEFINE left == Reduced[ToSet(list)].edges
           native(e) == e.delegation = Nothing
           before(l, e, f) ==
               native(e) /\ (native(f) => IF e.child = f.child
                                         THEN NamedAt(ToSet(list), e) < NamedAt(ToSet(list), f)
                                         ELSE Place(l, e.child) < Place(l, f.child))
<1>1. /\ EdgeList(list).set = left
      /\ EdgeList(list).before = {p \in left \X left : before(list, p[1], p[2])}
  BY DEF EdgeList
<1>2. /\ EdgeList(other).set = left
      /\ EdgeList(other).before = {p \in left \X left : before(other, p[1], p[2])}
  BY DEF EdgeList
<1>3. \A e, f : e.child = f.child => (before(list, e, f) <=> before(other, e, f))
  OBVIOUS
<1> HIDE DEF before, left
<1>4. ASSUME NEW e \in left, NEW f \in left, e.child = f.child
      PROVE  <<e, f>> \in EdgeList(list).before <=> <<e, f>> \in EdgeList(other).before
  BY <1>1, <1>2, <1>3, <1>4
<1> QED
  BY <1>1, <1>2, <1>4

LEMMA SameIncoming ==
    ASSUME NEW edges, NEW other, edges.set = other.set,
           \A e, f \in edges.set :
               e.child = f.child => (<<e, f>> \in edges.before <=> <<e, f>> \in other.before)
    PROVE  Incoming(edges) = Incoming(other)
<1>1. ASSUME NEW v
      PROVE  Arranged({e \in edges.set : e.child = v}, edges.before)
                = Arranged({e \in other.set : e.child = v}, other.before)
  <2>1. PICK E : E = {e \in edges.set : e.child = v}
    OBVIOUS
  <2>2. \A e, f \in E : <<e, f>> \in edges.before <=> <<e, f>> \in other.before
    BY <2>1
  <2>3. E = {e \in other.set : e.child = v}
    BY <2>1
  <2>4. Arranged(E, edges.before) = Arranged(E, other.before)
    BY ONLY <2>2, ArrangedSame
  <2> QED
    BY <2>1, <2>3, <2>4
<1> QED
  BY <1>1 DEF Incoming

\* The exporter's edges of a revision and the verifier's, into each step.
LEMMA ReadAsReduced ==
    ASSUME NEW r, EdgesOf(r.edges, r.steps), r.steps \in SUBSET Steps,
           NEW list, ToSet(list) = r.steps
    PROVE  /\ ReadEdges(r).set = EdgeList(list).set
           /\ Incoming(ReadEdges(r)) = Incoming(EdgeList(list))
<1>1. PICK edges, read, sorted, mine : /\ edges = r.edges
                                       /\ read = ReadEdges(r)
                                       /\ sorted = EdgeList(Sorted(r.steps))
                                       /\ mine = EdgeList(list)
  OBVIOUS
<1>2. ToSet(Sorted(r.steps)) = ToSet(list)
  BY SortedAll
<1>3. /\ mine.set = sorted.set
      /\ \A e, f \in mine.set :
            e.child = f.child => (<<e, f>> \in mine.before <=> <<e, f>> \in sorted.before)
  BY <1>1, <1>2, EdgeListSame
<1>4. /\ edges.set = sorted.set
      /\ \A e, f \in edges.set :
            e.child = f.child => (<<e, f>> \in edges.before <=> <<e, f>> \in sorted.before)
  BY <1>1 DEF EdgesOf
<1> DEFINE comes(e, f) == IF e.child = f.child THEN <<e, f>> \in edges.before ELSE e.child < f.child
<1>5. /\ read.set = edges.set
      /\ read.before = {p \in edges.set \X edges.set : comes(p[1], p[2])}
  BY <1>1 DEF ReadEdges
<1>6. ASSUME NEW e \in edges.set, NEW f \in edges.set, e.child = f.child
      PROVE  <<e, f>> \in read.before <=> <<e, f>> \in edges.before
  <2>1. comes(e, f) <=> <<e, f>> \in edges.before
    BY <1>6
  <2> HIDE DEF comes
  <2> QED
    BY <1>5, <2>1
<1>7. \A e, f \in read.set :
          e.child = f.child => (<<e, f>> \in read.before <=> <<e, f>> \in mine.before)
  BY <1>3, <1>4, <1>5, <1>6
<1>8. read.set = mine.set
  BY <1>3, <1>4, <1>5
<1>9. Incoming(read) = Incoming(mine)
  BY ONLY <1>7, <1>8, SameIncoming
<1> QED
  BY <1>1, <1>8, <1>9

\* So they find the same path, of the same origins and gaps.
LEMMA SamePath ==
    ASSUME NEW r, EdgesOf(r.edges, r.steps), r.steps \in SUBSET Steps,
           NEW list, ToSet(list) = r.steps, NEW O, NEW gaps, NEW n, NEW request
    PROVE  Path(r.steps, ReadEdges(r), O, gaps, n, request)
             = Path(r.steps, EdgeList(list), O, gaps, n, request)
<1>1. PICK read, mine : read = ReadEdges(r) /\ mine = EdgeList(list)
  OBVIOUS
<1>2. read.set = mine.set /\ Incoming(read) = Incoming(mine)
  BY <1>1, ReadAsReduced
<1>3. Path(r.steps, read, O, gaps, n, request) = Path(r.steps, mine, O, gaps, n, request)
  BY <1>2 DEF Path
<1> QED
  BY <1>1, <1>3

-------------------------------------------------------------------------------
(* What the tables and the log hold. *)

\* The manifest, the edges and the origins of a revision are those of its steps.
RevisionSound(r) ==
    /\ r.steps \in SUBSET Steps
    /\ r.origins \in SUBSET Origins
    /\ r.manifest = Manifest(r.steps, r.origins)
    /\ EdgesOf(r.edges, r.steps)
    /\ r.origins = Pinned(r.steps, r.origins)

TablesSound ==
    /\ steps \in Seq(Steps)
    /\ origins \in SUBSET Origins
    /\ IsList(revisions) /\ Len(revisions) > 0
    /\ IsList(log)
    /\ \A n \in DOMAIN revisions : RevisionSound(revisions[n])

\* An entry says of a revision what its graph is, and each revision has one.
EntryTrue(entry) ==
    /\ entry.kind = "TraceCreated" => entry.graph = revisions[1].manifest
    /\ entry.kind = "ImportCommitted" =>
          /\ entry.revision \in 1..Len(revisions) - 1
          /\ entry.graph = revisions[entry.revision + 1].manifest

LogTrue ==
    /\ \A n \in DOMAIN log : EntryTrue(log[n])
    /\ \A k \in DOMAIN revisions :
          \E n \in DOMAIN log : Binds(log[n], k - 1, revisions[k].manifest)

StoreInv == TablesSound /\ LogTrue

LEMMA PinnedTwice ==
    ASSUME NEW S, NEW O \in SUBSET Origins
    PROVE  Pinned(S, O) \in SUBSET Origins /\ Pinned(S, Pinned(S, O)) = Pinned(S, O)
<1>1. \A p \in O : p.step \in S => p \in Pinned(S, O)
  <2> SUFFICES ASSUME NEW p \in O, p.step \in S PROVE p \in Pinned(S, O)
    OBVIOUS
  <2>1. p.seq \in Nat
    BY OriginAssumption
  <2> QED
    BY <2>1 DEF Pinned
<1>2. Pinned(S, O) \subseteq Pinned(S, Pinned(S, O))
  BY <1>1 DEF Pinned
<1> QED
  BY <1>2 DEF Pinned

\* The new rows are those that are not stored.
LEMMA NewRowsAll ==
    ASSUME NEW i \in Imports, steps \in Seq(Steps)
    PROVE  NewRows(i) \in Seq(Steps)
<1>1. PICK rows, new : rows = Batch[i].rows /\ new = ToSet(rows) \ ToSet(steps)
  OBVIOUS
<1>2. rows \in Seq(Steps) /\ new \in SUBSET Steps /\ new \subseteq ToSet(rows)
  BY <1>1, BatchAssumption DEF ToSet
<1> DEFINE before == {p \in new \X new : Place(rows, p[1]) < Place(rows, p[2])}
<1>3. IsFiniteSet(new)
  BY <1>2, StepAssumption, FS_Subset
<1>4. Lines(before, new)
  <2>1. \A x \in new : Place(rows, x) \in DOMAIN rows /\ rows[Place(rows, x)] = x
    BY <1>2, PlaceIs
  <2>2. \A x \in new : Place(rows, x) \in Int
    BY <1>2, <2>1
  <2>3. \A x, y \in new : x # y => Place(rows, x) # Place(rows, y)
    BY <2>1
  <2>4. \A x, y \in new : <<x, y>> \in before <=> Place(rows, x) < Place(rows, y)
    OBVIOUS
  <2> HIDE DEF before
  <2> QED
    BY <2>2, <2>3, <2>4 DEF Lines
<1>5. NewRows(i) = Arranged(new, before)
  BY <1>1 DEF NewRows
<1>6. Arranged(new, before) \in Seq(new)
  <2> HIDE DEF before
  <2> QED
    BY <1>3, <1>4, ArrangedAll
<1> QED
  BY <1>2, <1>5, <1>6

\* The edges that reduce has just made.
LEMMA NewEdges ==
    ASSUME NEW list, ToSet(list) \in SUBSET Steps
    PROVE  EdgesOf(EdgeList(list), ToSet(list))
<1>1. PICK mine, sorted : mine = EdgeList(list) /\ sorted = EdgeList(Sorted(ToSet(list)))
  OBVIOUS
<1>2. ToSet(Sorted(ToSet(list))) = ToSet(list)
  BY SortedAll
<1>3. /\ mine.set = sorted.set
      /\ \A e, f \in mine.set :
            e.child = f.child => (<<e, f>> \in mine.before <=> <<e, f>> \in sorted.before)
  BY <1>1, <1>2, EdgeListSame
<1> QED
  BY <1>1, <1>3 DEF EdgesOf

LEMMA InitSound == Init => StoreInv
<1> SUFFICES ASSUME Init PROVE StoreInv
  OBVIOUS
<1>1. PICK row, entry : /\ row = revisions[1] /\ entry = log[1]
                        /\ revisions = <<row>> /\ log = <<entry>>
                        /\ row.steps = {} /\ row.origins = {}
                        /\ row.manifest = Manifest({}, {}) /\ row.edges = EdgeList(<<>>)
                        /\ entry.kind = "TraceCreated" /\ entry.graph = Manifest({}, {})
  BY DEF Init
<1>2. RevisionSound(row)
  <2>1. ToSet(<<>>) = {}
    BY DEF ToSet
  <2>2. EdgesOf(row.edges, {})
    BY <1>1, <2>1, NewEdges
  <2> QED
    BY <1>1, <2>2 DEF RevisionSound, Pinned
<1>3. /\ revisions \in Seq({row}) /\ Len(revisions) = 1 /\ DOMAIN revisions = {1}
      /\ log \in Seq({entry}) /\ Len(log) = 1 /\ DOMAIN log = {1}
  BY <1>1
<1>4. ToSet(revisions) = {row} /\ ToSet(log) = {entry}
  BY <1>1, <1>3 DEF ToSet
<1>5. TablesSound
  <2>1. steps = <<>> /\ <<>> \in Seq(Steps) /\ origins \in SUBSET Origins
    BY DEF Init
  <2>2. \A n \in DOMAIN revisions : RevisionSound(revisions[n])
    <3>1. \A n \in DOMAIN revisions : n = 1
      BY <1>3
    <3> QED
      BY <1>1, <1>2, <3>1
  <2>3. IsList(revisions) /\ IsList(log) /\ Len(revisions) > 0
    BY <1>3, <1>4 DEF IsList
  <2> QED
    BY <2>1, <2>2, <2>3 DEF TablesSound
<1>6. LogTrue
  BY <1>1, <1>3 DEF LogTrue, EntryTrue, Binds
<1> QED
  BY <1>5, <1>6 DEF StoreInv

\* A commit publishes the next revision and says so.
LEMMA CommitSound ==
    ASSUME StoreInv, NEW i \in Imports, Commit(i)
    PROVE  StoreInv'
<1>1. PICK list, pinned, row, entry, len :
          /\ list = steps \o NewRows(i)
          /\ pinned = Pinned(ToSet(list), origins \cup Batch[i].origins)
          /\ len = Len(revisions)
          /\ row = [steps |-> ToSet(list), origins |-> pinned,
                    manifest |-> Manifest(ToSet(list), pinned), edges |-> EdgeList(list)]
          /\ entry = [kind |-> "ImportCommitted", seq |-> Len(log) + 1,
                      revision |-> len, graph |-> Manifest(ToSet(list), pinned)]
          /\ steps' = list /\ origins' = origins \cup Batch[i].origins
          /\ revisions' = Append(revisions, row) /\ log' = Append(log, entry)
  BY DEF Commit
<1>2. TablesSound /\ LogTrue
  BY DEF StoreInv
<1>3. list \in Seq(Steps) /\ ToSet(list) \in SUBSET Steps
  <2>1. steps \in Seq(Steps) /\ NewRows(i) \in Seq(Steps)
    BY <1>2, NewRowsAll DEF TablesSound
  <2>2. list \in Seq(Steps)
    BY <1>1, <2>1, ConcatenatedSet
  <2> QED
    BY <2>2 DEF ToSet
<1>4. origins' \in SUBSET Origins
  BY <1>1, <1>2, BatchAssumption DEF TablesSound
<1>5. RevisionSound(row)
  <2>1. pinned \in SUBSET Origins /\ Pinned(ToSet(list), pinned) = pinned
    BY <1>1, <1>4, PinnedTwice
  <2>2. EdgesOf(EdgeList(list), ToSet(list))
    BY <1>3, NewEdges
  <2> QED
    BY <1>1, <1>3, <2>1, <2>2 DEF RevisionSound
<1>6. /\ IsList(revisions') /\ len \in Nat /\ len > 0
      /\ DOMAIN revisions = 1..len /\ DOMAIN revisions' = 1..len + 1 /\ Len(revisions') = len + 1
      /\ \A n \in DOMAIN revisions : revisions'[n] = revisions[n]
      /\ revisions'[len + 1] = row
  BY <1>1, <1>2, AppendList DEF TablesSound
<1>7. PICK last : last = Len(log)
  OBVIOUS
<1>8. /\ IsList(log') /\ last \in Nat
      /\ DOMAIN log = 1..last /\ DOMAIN log' = 1..last + 1
      /\ \A n \in DOMAIN log : log'[n] = log[n]
      /\ log'[last + 1] = entry
  <2>1. IsList(log)
    BY <1>2 DEF TablesSound
  <2> QED
    BY <1>1, <1>7, <2>1, AppendList
<1>9. TablesSound'
  <2>1. \A n \in DOMAIN revisions' : \E r : r = revisions'[n] /\ RevisionSound(r)
    BY <1>2, <1>5, <1>6 DEF TablesSound
  <2>2. \A n \in DOMAIN revisions' : RevisionSound(revisions[n])'
    BY <2>1 DEF RevisionSound
  <2>3. steps' \in Seq(Steps)
    BY <1>1, <1>3
  <2>4. IsList(revisions)' /\ IsList(log)' /\ Len(revisions') > 0
    BY <1>6, <1>8 DEF IsList
  <2> QED
    BY <1>4, <2>2, <2>3, <2>4 DEF TablesSound
<1>10. \A n \in DOMAIN log' : EntryTrue(log[n])'
  <2>1. ASSUME NEW n \in DOMAIN log PROVE EntryTrue(log[n])'
    <3>1. PICK e : e = log[n] /\ e = log'[n] /\ EntryTrue(e)
      BY <1>2, <1>8 DEF LogTrue
    <3>2. revisions'[1] = revisions[1]
      BY <1>6
    <3>3. ASSUME e.kind = "ImportCommitted"
          PROVE  /\ e.revision \in 1..Len(revisions') - 1
                 /\ e.graph = revisions'[e.revision + 1].manifest
      <4>1. e.revision \in 1..len - 1 /\ e.graph = revisions[e.revision + 1].manifest
        BY <1>1, <3>1, <3>3 DEF EntryTrue
      <4>2. e.revision \in 1..len + 1 - 1 /\ e.revision + 1 \in 1..len
        BY <1>6, <4>1
      <4> QED
        BY <1>6, <4>1, <4>2
    <3> QED
      BY <3>1, <3>2, <3>3 DEF EntryTrue
  <2>2. EntryTrue(log[last + 1])'
    <3>1. entry.kind = "ImportCommitted" /\ entry.revision = len /\ entry.graph = row.manifest
      BY <1>1
    <3> QED
      BY <1>6, <1>8, <3>1 DEF EntryTrue
  <2> QED
    BY <1>8, <2>1, <2>2
<1>11. \A k \in DOMAIN revisions' : \E n \in DOMAIN log' : Binds(log'[n], k - 1, revisions'[k].manifest)
  <2>1. ASSUME NEW k \in DOMAIN revisions
        PROVE  \E n \in DOMAIN log' : Binds(log'[n], k - 1, revisions'[k].manifest)
    <3>1. PICK n \in DOMAIN log : Binds(log[n], k - 1, revisions[k].manifest)
      BY <1>2 DEF LogTrue
    <3>2. n \in DOMAIN log' /\ log'[n] = log[n]
      BY <1>8
    <3> QED
      BY <1>6, <3>1, <3>2
  <2>2. Binds(log'[last + 1], len + 1 - 1, row.manifest)
    <3>1. /\ entry.kind = "ImportCommitted" /\ entry.revision = len
          /\ entry.graph = row.manifest /\ len + 1 - 1 = len /\ len # 0
      BY <1>1, <1>6
    <3> QED
      BY <1>8, <3>1 DEF Binds
  <2>3. last + 1 \in DOMAIN log' /\ \A k \in DOMAIN revisions' : k \in DOMAIN revisions \/ k = len + 1
    BY <1>6, <1>8
  <2> QED
    BY <1>6, <2>1, <2>2, <2>3
<1>12. LogTrue'
  BY <1>10, <1>11 DEF LogTrue, Binds
<1> QED
  BY <1>9, <1>12 DEF StoreInv

\* What another trace does says nothing of this one's revisions.
LEMMA OtherSound ==
    ASSUME StoreInv, NEW O \in {{}, Elsewhere}, Other(O)
    PROVE  StoreInv'
<1>1. PICK entry : entry.kind = "Other" /\ log' = Append(log, entry)
  BY DEF Other
<1>2. TablesSound /\ LogTrue /\ UNCHANGED <<steps, revisions>> /\ origins' = origins \cup O
  BY DEF StoreInv, Other
<1>3. PICK last : last = Len(log)
  OBVIOUS
<1>4. /\ IsList(log') /\ last \in Nat
      /\ DOMAIN log = 1..last /\ DOMAIN log' = 1..last + 1
      /\ \A n \in DOMAIN log : log'[n] = log[n]
      /\ log'[last + 1] = entry
  <2>1. IsList(log)
    BY <1>2 DEF TablesSound
  <2> QED
    BY <1>1, <1>3, <2>1, AppendList
<1>5. TablesSound'
  BY <1>2, <1>4, OriginAssumption DEF TablesSound, IsList
<1>6. LogTrue'
  <2>1. \A n \in DOMAIN log' : n \in DOMAIN log \/ log'[n] = entry
    BY <1>4
  <2>2. \A n \in DOMAIN log' : EntryTrue(log[n])'
    BY <1>1, <1>2, <1>4, <2>1 DEF LogTrue, EntryTrue
  <2>3. DOMAIN log \subseteq DOMAIN log'
    BY <1>4
  <2>4. ASSUME NEW k \in DOMAIN revisions
        PROVE  \E n \in DOMAIN log' : Binds(log'[n], k - 1, revisions[k].manifest)
    BY <1>2, <1>4, <2>3 DEF LogTrue
  <2> QED
    BY <1>2, <2>2, <2>4 DEF LogTrue, Binds
<1> QED
  BY <1>5, <1>6 DEF StoreInv

LEMMA NextSound == StoreInv /\ [Next]_vars => StoreInv'
<1> SUFFICES ASSUME StoreInv, [Next]_vars PROVE StoreInv'
  OBVIOUS
<1>1. CASE UNCHANGED <<steps, origins, revisions, log>>
  BY <1>1 DEF StoreInv, TablesSound, LogTrue, EntryTrue, Binds, IsList, RevisionSound
<1>2. ASSUME NEW i \in Imports, Stage(i) PROVE StoreInv'
  BY <1>1, <1>2 DEF Stage
<1>3. ASSUME NEW i \in Imports, Commit(i) PROVE StoreInv'
  BY <1>3, CommitSound
<1>4. ASSUME NEW O \in {{}, Elsewhere}, Other(O) PROVE StoreInv'
  BY <1>4, OtherSound
<1>5. ASSUME NEW d \in Digests, Lose(d) PROVE StoreInv'
  BY <1>1, <1>5 DEF Lose
<1>6. ASSUME NEW n, NEW request, NEW policy, Export(n, request, policy) PROVE StoreInv'
  BY <1>1, <1>6 DEF Export, tables
<1>7. CASE Reassemble
  <2>1. UNCHANGED tables
    BY <1>7 DEF Reassemble
  <2> QED
    BY <1>1, <2>1 DEF tables
<1>8. CASE Discard
  BY <1>1, <1>8 DEF Discard, tables
<1>9. CASE UNCHANGED vars
  BY <1>1, <1>9 DEF tables, vars
<1> QED
  BY <1>2, <1>3, <1>4, <1>5, <1>6, <1>7, <1>8, <1>9 DEF Next

LEMMA StoreSound == Spec => []StoreInv
BY InitSound, NextSound, PTL DEF Spec

-------------------------------------------------------------------------------
(* What a verifier finds in a bundle. *)

\* There is an entry that binds a revision to its graph, and the first is found.
LEMMA BindingIs ==
    ASSUME StoreInv, NEW k \in DOMAIN revisions
    PROVE  /\ Binding(k - 1) \in DOMAIN log
           /\ Binds(log[Binding(k - 1)], k - 1, revisions[k].manifest)
<1> DEFINE binds(n) == Binds(log[n], k - 1, revisions[k].manifest)
           All == {n \in DOMAIN log : binds(n)}
<1>1. IsList(revisions) /\ IsList(log)
  BY DEF StoreInv, TablesSound
<1>2. k - 1 + 1 = k /\ DOMAIN log = 1..Len(log) /\ Len(log) \in Nat
  BY <1>1 DEF IsList
<1>3. \E n \in DOMAIN log : binds(n)
  BY DEF StoreInv, LogTrue
<1>4. Binding(k - 1) = CHOOSE n \in DOMAIN log : binds(n) /\ \A j \in 1..n - 1 : ~binds(j)
  BY <1>2 DEF Binding
<1> HIDE DEF binds
<1>5. All \subseteq Nat /\ All # {}
  BY <1>2, <1>3
<1>6. PICK m \in All : \A n \in All : m <= n
  <2> HIDE DEF All
  <2> QED
    BY <1>5, LeastNatural
<1>7. \A j \in 1..m - 1 : ~binds(j)
  <2> SUFFICES ASSUME NEW j \in 1..m - 1, binds(j) PROVE FALSE
    OBVIOUS
  <2>1. m \in 1..Len(log) /\ j \in DOMAIN log /\ j < m
    BY <1>2, <1>6
  <2> QED
    BY <1>6, <2>1
<1>8. Binding(k - 1) \in DOMAIN log /\ binds(Binding(k - 1))
  BY <1>4, <1>6, <1>7
<1> QED
  BY <1>8 DEF binds

\* The log up to an entry ends with that entry.
LEMMA LogUpTo ==
    ASSUME NEW list, IsList(list), NEW m \in DOMAIN list
    PROVE  SubSeq(list, 1, m) # <<>> /\ Last(SubSeq(list, 1, m)) = list[m]
<1>1. PICK T : T = ToSet(list)
  OBVIOUS
<1>2. list \in Seq(T) /\ m \in 1..Len(list) /\ Len(list) \in Nat
  BY <1>1 DEF IsList
<1>3. PICK part : part = SubSeq(list, 1, m)
  OBVIOUS
<1>4. part \in Seq(T) /\ Len(part) = m /\ part[m] = list[m]
  BY <1>2, <1>3
<1>5. part # <<>>
  BY <1>2, <1>4
<1> QED
  BY <1>3, <1>4, <1>5 DEF Last

\* The verifier agrees with an export about its parts, its graph, its path and the
\* entry that binds them.
LEMMA ExportVerifies ==
    ASSUME StoreInv, NEW k \in DOMAIN revisions, NEW request,
           NEW policy \in {"INCLUDE", "OMIT"}, Export(k - 1, request, policy),
           NEW b, b = bundle'
    PROVE  Verify(b) = "CHAINS"
<1>1. PICK r, list, refs, audit :
          /\ r = revisions[k] /\ list = Sorted(r.steps) /\ refs = Refs(list)
          /\ audit = SubSeq(log, 1, Binding(k - 1))
  OBVIOUS
<1>2. IsList(revisions) /\ IsList(log) /\ RevisionSound(r)
  BY <1>1 DEF StoreInv, TablesSound
<1>3. k \in Nat /\ k - 1 + 1 = k
  BY <1>2 DEF IsList
<1>4. PICK path : path = PathOf(k - 1, request)
  OBVIOUS
<1>5. /\ path # Refused
      /\ policy = "INCLUDE" => \A f \in refs : Fetched(f)
      /\ b = Bundle(k - 1, r.manifest, request, path, list, r.origins, audit, refs, policy)
  BY <1>1, <1>3, <1>4 DEF Export, ReadSteps
<1>6. /\ b.revision = k - 1 /\ b.graph = r.manifest /\ b.request = request /\ b.path = path
      /\ b.steps = list /\ b.origins = r.origins /\ b.audit = audit
      /\ b.inventory = Inventory(list, r.origins, audit, refs)
      /\ b.policy = policy /\ b.attachments = (IF policy = "INCLUDE" THEN refs ELSE {})
  BY <1>5 DEF Bundle
<1>7. ToSet(list) = r.steps
  BY <1>1, <1>2, SortedAll DEF RevisionSound
<1>8. Inventoried(b)
  BY <1>1, <1>5, <1>6 DEF Inventoried, Fetched
<1>9. InScope(b)
  <2>1. r.origins = {o \in r.origins : \E p \in r.origins :
                        p.stream = o.stream /\ p.step \in r.steps /\ p.seq >= o.seq}
    BY <1>2 DEF RevisionSound, Pinned
  <2> QED
    BY <1>6, <1>7, <2>1 DEF InScope
<1>10. GraphAgrees(b)
  BY <1>2, <1>6, <1>7 DEF GraphAgrees, RevisionSound
<1>11. PathAgrees(b)
  <2>1. path = Path(r.steps, ReadEdges(r), r.origins, r.manifest.gaps, k - 1, request)
    BY <1>1, <1>3, <1>4 DEF PathOf
  <2>2. path = Path(r.steps, EdgeList(list), r.origins, r.manifest.gaps, k - 1, request)
    BY <1>2, <1>7, <2>1, SamePath DEF RevisionSound
  <2> QED
    BY <1>5, <1>6, <1>7, <2>2 DEF PathAgrees
<1>12. Bound(b)
  <2>1. PICK m : m = Binding(k - 1)
    OBVIOUS
  <2>2. m \in DOMAIN log /\ Binds(log[m], k - 1, r.manifest)
    BY <1>1, <2>1, BindingIs
  <2>3. audit # <<>> /\ Last(audit) = log[m]
    BY <1>1, <1>2, <2>1, <2>2, LogUpTo
  <2> QED
    BY <1>6, <2>2, <2>3 DEF Bound
<1> QED
  BY <1>1, <1>8, <1>9, <1>10, <1>11, <1>12 DEF Verify

\* Two sets of origins with the same bodies.
SameBodies(O, P) == {o.hash : o \in O} = {o.hash : o \in P}

\* The path looks at the bodies of origins only.
LEMMA PathsAgree ==
    ASSUME NEW S, NEW edges, NEW gaps, NEW n, NEW request,
           NEW O \in SUBSET Origins, NEW P \in SUBSET Origins, SameBodies(O, P),
           NEW path, path = Path(S, edges, O, gaps, n, request), path # Refused,
           NEW other, other = Path(S, edges, P, gaps, n, request)
    PROVE  /\ other = [path EXCEPT !.origins = other.origins]
           /\ SameBodies(path.origins, other.origins)
<1> DEFINE told(Q, met) ==
               {o \in Q : \E p \in Q : p.stream = o.stream /\ p.step \in met /\ o.seq <= p.seq}
           as(Q, met) ==
               [request |-> request, revision |-> n, steps |-> met,
                edges |-> {e \in edges.set : e.parent \in met /\ e.child \in met},
                origins |-> told(Q, met),
                gaps |-> {g \in gaps : ({g.subject} \cup g.related) \cap met # {}}]
<1>1. PICK met : path = as(O, met) /\ other = as(P, met)
  BY DEF Path
<1>2. ASSUME NEW Q \in SUBSET Origins, NEW R \in SUBSET Origins, SameBodies(Q, R),
             NEW o \in told(Q, met)
      PROVE  \E q \in told(R, met) : q.hash = o.hash
  <2>1. PICK p \in Q : p.stream = o.stream /\ p.step \in met /\ o.seq <= p.seq
    OBVIOUS
  <2>2. PICK q \in R, s \in R : q.hash = o.hash /\ s.hash = p.hash
    BY <1>2 DEF SameBodies
  <2>3. /\ q.stream = o.stream /\ q.seq = o.seq
        /\ s.stream = p.stream /\ s.seq = p.seq /\ s.step = p.step
    BY <2>2, OriginAssumption
  <2> QED
    BY <2>1, <2>2, <2>3
<1>3. SameBodies(told(O, met), told(P, met))
  <2>1. SameBodies(P, O)
    BY DEF SameBodies
  <2>2. \A o \in told(O, met) : \E q \in told(P, met) : q.hash = o.hash
    BY <1>2
  <2>3. \A o \in told(P, met) : \E q \in told(O, met) : q.hash = o.hash
    BY <1>2, <2>1
  <2> HIDE DEF told
  <2> QED
    BY <2>2, <2>3 DEF SameBodies
<1>4. path.origins = told(O, met) /\ other.origins = told(P, met)
  BY <1>1
<1>5. other = [path EXCEPT !.origins = other.origins]
  <2>1. PICK E, G, Q, R :
            /\ path = [request |-> request, revision |-> n, steps |-> met, edges |-> E,
                       origins |-> Q, gaps |-> G]
            /\ other = [request |-> request, revision |-> n, steps |-> met, edges |-> E,
                        origins |-> R, gaps |-> G]
    BY <1>1
  <2> QED
    BY ONLY <2>1
<1> QED
  BY <1>3, <1>4, <1>5

\* A bundle that the verifier takes as far as the signatures, with the log of the
\* workspace up to some entry: that entry binds the graph to the number, the graph
\* names its steps and the bodies of its origins, and these have one path only.
LEMMA TakenIsRevision ==
    ASSUME StoreInv, NEW b, NEW k \in DOMAIN revisions, b.revision = k - 1,
           NEW m \in DOMAIN log, b.audit = SubSeq(log, 1, m),
           b.origins \in SUBSET Origins, Verify(b) = "CHAINS",
           NEW path, path = PathOf(k - 1, b.request)
    PROVE  /\ ToSet(b.steps) = revisions[k].steps
           /\ SameBodies(b.origins, revisions[k].origins)
           /\ path = [b.path EXCEPT !.origins = path.origins]
           /\ SameBodies(b.path.origins, path.origins)
<1>1. PICK r : r = revisions[k]
  OBVIOUS
<1>2. IsList(revisions) /\ IsList(log) /\ RevisionSound(r)
  BY <1>1 DEF StoreInv, TablesSound
<1>3. k \in Nat /\ k - 1 + 1 = k
  BY <1>2 DEF IsList
<1>4. GraphAgrees(b) /\ PathAgrees(b) /\ Bound(b)
  BY DEF Verify
<1>5. b.graph = r.manifest
  <2>1. PICK entry : entry = log[m]
    OBVIOUS
  <2>2. Binds(entry, k - 1, b.graph)
    BY <1>2, <1>4, <2>1, LogUpTo DEF Bound
  <2>3. EntryTrue(entry)
    BY <2>1 DEF StoreInv, LogTrue
  <2>4. CASE k - 1 = 0
    <3>1. k = 1 /\ entry.kind = "TraceCreated" /\ entry.graph = b.graph
      BY <1>3, <2>2, <2>4 DEF Binds
    <3> QED
      BY <1>1, <2>3, <3>1 DEF EntryTrue
  <2>5. CASE k - 1 # 0
    <3>1. entry.kind = "ImportCommitted" /\ entry.revision = k - 1 /\ entry.graph = b.graph
      BY <2>2, <2>5 DEF Binds
    <3> QED
      BY <1>1, <1>3, <2>3, <3>1 DEF EntryTrue
  <2> QED
    BY <2>4, <2>5
<1>6. Manifest(ToSet(b.steps), b.origins) = Manifest(r.steps, r.origins)
  BY <1>2, <1>4, <1>5 DEF GraphAgrees, RevisionSound
<1>7. ToSet(b.steps) = r.steps /\ SameBodies(b.origins, r.origins)
  BY <1>6 DEF Manifest, SameBodies
<1>8. path = [b.path EXCEPT !.origins = path.origins] /\ SameBodies(b.path.origins, path.origins)
  <2>1. PICK list, request, O, P, gaps, mine :
            /\ list = b.steps /\ request = b.request /\ O = b.origins /\ P = r.origins
            /\ gaps = r.manifest.gaps /\ mine = b.path
    OBVIOUS
  <2>2. mine = Path(r.steps, EdgeList(list), O, gaps, k - 1, request) /\ mine # Refused
    BY <1>4, <1>5, <1>7, <2>1 DEF PathAgrees
  <2>3. EdgesOf(r.edges, r.steps) /\ r.steps \in SUBSET Steps /\ ToSet(list) = r.steps
    BY <1>2, <1>7, <2>1 DEF RevisionSound
  <2>4. Path(r.steps, ReadEdges(r), P, gaps, k - 1, request)
          = Path(r.steps, EdgeList(list), P, gaps, k - 1, request)
    BY ONLY <2>3, SamePath
  <2>5. path = Path(r.steps, EdgeList(list), P, gaps, k - 1, request)
    BY <1>1, <1>3, <2>1, <2>4 DEF PathOf
  <2>6. O \in SUBSET Origins /\ P \in SUBSET Origins /\ SameBodies(O, P)
    BY <1>2, <1>7, <2>1 DEF RevisionSound
  <2>7. path = [mine EXCEPT !.origins = path.origins] /\ SameBodies(mine.origins, path.origins)
    BY ONLY <2>2, <2>5, <2>6, PathsAgree
  <2> QED
    BY <2>1, <2>7
<1> QED
  BY <1>1, <1>7, <1>8

-------------------------------------------------------------------------------
(* The theorems. *)

BundleInv == HonestVerifies /\ ValidIsRevision

LEMMA ExportKeeps ==
    ASSUME StoreInv, NEW k \in DOMAIN revisions, NEW request,
           NEW policy \in {"INCLUDE", "OMIT"}, Export(k - 1, request, policy)
    PROVE  BundleInv'
<1>1. PICK b : b = bundle'
  OBVIOUS
<1>2. Verify(b) = "CHAINS"
  BY <1>1, ExportVerifies
<1>3. IsList(revisions) /\ RevisionSound(revisions[k])
  BY DEF StoreInv, TablesSound
<1>4. k \in Nat /\ k - 1 + 1 = k
  BY <1>3 DEF IsList
<1>5. PICK m : m = Binding(k - 1)
  OBVIOUS
<1>6. m \in DOMAIN log
  BY <1>5, BindingIs
<1>7. /\ b.revision = k - 1 /\ b.origins = revisions[k].origins
      /\ b.audit = SubSeq(log, 1, m)
  BY <1>1, <1>4, <1>5 DEF Export, Bundle
<1>8. UNCHANGED revisions
  BY DEF Export, tables
<1>9. b.origins \in SUBSET Origins
  BY <1>3, <1>7 DEF RevisionSound
<1>10. PICK path : path = PathOf(k - 1, b.request)
  OBVIOUS
<1>11. /\ ToSet(b.steps) = revisions[k].steps /\ SameBodies(b.origins, revisions[k].origins)
       /\ path = [b.path EXCEPT !.origins = path.origins]
       /\ SameBodies(b.path.origins, path.origins)
  BY ONLY StoreInv, k \in DOMAIN revisions, <1>2, <1>6, <1>7, <1>9, <1>10, TakenIsRevision
<1>12. path = PathOf(k - 1, b.request)'
  BY <1>1, <1>8, <1>10 DEF PathOf
<1> QED
  BY <1>1, <1>2, <1>4, <1>7, <1>8, <1>11, <1>12
     DEF BundleInv, HonestVerifies, ValidIsRevision, SameBodies

\* Of what is put together again, only what is a revision is taken.
LEMMA ReassembleKeeps ==
    ASSUME StoreInv, Reassemble
    PROVE  BundleInv'
<1> DEFINE made(k, request, upTo, O, graph, path, list) ==
               /\ bundle' = Bundle(k - 1, graph, request, path, list, O,
                                   SubSeq(log, 1, upTo), Refs(list), "OMIT")
               /\ honest' = FALSE
               /\ UNCHANGED tables
           ofRevisions == {revisions[m].origins : m \in 1..Len(revisions)}
<1>1. PICK k, request, upTo, O, graph, path, list :
          /\ k \in 1..Len(revisions)
          /\ upTo \in {Binding(k - 1), Len(log)} /\ O \in ofRevisions
          /\ made(k, request, upTo, O, graph, path, list)
  <2>1. PICK n \in 1..Len(revisions), k \in 1..Len(revisions), request \in Requests :
            \E missing \in revisions[n].steps \cup {Nothing}, upTo \in {Binding(k - 1), Len(log)},
               O \in {revisions[n].origins, revisions[Len(revisions)].origins} :
                LET list == Sorted(revisions[n].steps \ {missing})
                IN  \E graph \in {revisions[k].manifest, Manifest(ToSet(list), O)} :
                    \E path \in {PathOf(k - 1, request),
                                 Path(ToSet(list), EdgeList(list), O, graph.gaps, k - 1, request)} \ {Refused} :
                        made(k, request, upTo, O, graph, path, list)
    BY DEF Reassemble
  <2> HIDE DEF made
  <2>2. PICK missing \in revisions[n].steps \cup {Nothing}, upTo \in {Binding(k - 1), Len(log)},
             O \in {revisions[n].origins, revisions[Len(revisions)].origins} :
            \E graph, path : made(k, request, upTo, O, graph, path, Sorted(revisions[n].steps \ {missing}))
    BY <2>1
  <2>3. O \in ofRevisions
    <3>1. Len(revisions) \in 1..Len(revisions)
      BY DEF StoreInv, TablesSound, IsList
    <3> QED
      BY <3>1
  <2> HIDE DEF ofRevisions
  <2> QED
    BY <2>2, <2>3
<1>2. PICK b : b = bundle'
  OBVIOUS
<1>3. IsList(revisions) /\ IsList(log) /\ k \in DOMAIN revisions /\ DOMAIN revisions = 1..Len(revisions)
  BY <1>1 DEF StoreInv, TablesSound, IsList
<1>4. k \in Nat /\ k - 1 + 1 = k
  BY <1>3 DEF IsList
<1>5. upTo \in DOMAIN log
  <2>1. Binding(k - 1) \in DOMAIN log
    BY <1>3, BindingIs
  <2>2. DOMAIN log = 1..Len(log) /\ Len(log) \in Nat
    BY <1>3 DEF IsList
  <2>3. Len(log) \in DOMAIN log
    BY <2>1, <2>2
  <2> QED
    BY <1>1, <2>1, <2>3
<1>6. b.revision = k - 1 /\ b.origins = O /\ b.audit = SubSeq(log, 1, upTo)
  BY <1>1, <1>2 DEF Bundle
<1>7. b.origins \in SUBSET Origins
  <2>1. PICK m \in DOMAIN revisions : O = revisions[m].origins
    BY <1>1, <1>3
  <2>2. RevisionSound(revisions[m])
    BY DEF StoreInv, TablesSound
  <2> QED
    BY <1>6, <2>1, <2>2 DEF RevisionSound
<1>8. ~honest' /\ UNCHANGED revisions
  BY <1>1 DEF tables
<1>9. PICK told : told = PathOf(k - 1, b.request)
  OBVIOUS
<1>10. ASSUME Verify(b) = "CHAINS"
       PROVE  /\ ToSet(b.steps) = revisions[k].steps /\ SameBodies(b.origins, revisions[k].origins)
              /\ told = [b.path EXCEPT !.origins = told.origins]
              /\ SameBodies(b.path.origins, told.origins)
  BY ONLY StoreInv, <1>3, <1>5, <1>6, <1>7, <1>9, <1>10, TakenIsRevision
<1>11. told = PathOf(k - 1, b.request)'
  BY <1>2, <1>8, <1>9 DEF PathOf
<1>12. HonestVerifies'
  BY <1>8 DEF HonestVerifies
<1>13. ValidIsRevision'
  BY <1>2, <1>4, <1>6, <1>8, <1>10, <1>11 DEF ValidIsRevision, SameBodies
<1> QED
  BY <1>12, <1>13 DEF BundleInv

LEMMA NextKeeps == StoreInv /\ BundleInv /\ [Next]_vars => BundleInv'
<1> SUFFICES ASSUME StoreInv, BundleInv, [Next]_vars PROVE BundleInv'
  OBVIOUS
<1>1. CASE UNCHANGED vars
  BY <1>1 DEF BundleInv, HonestVerifies, ValidIsRevision, PathOf, vars, tables
<1>2. CASE Discard
  BY <1>2 DEF Discard, BundleInv, HonestVerifies, ValidIsRevision
<1>3. ASSUME bundle = NoBundle, UNCHANGED <<bundle, honest>> PROVE BundleInv'
  BY <1>3 DEF BundleInv, HonestVerifies, ValidIsRevision
<1>4. ASSUME bundle = NoBundle, NEW i \in Imports, Stage(i) \/ Commit(i) PROVE BundleInv'
  BY <1>3, <1>4 DEF Stage, Commit
<1>5. ASSUME bundle = NoBundle, NEW O \in {{}, Elsewhere}, Other(O) PROVE BundleInv'
  BY <1>3, <1>5 DEF Other
<1>6. ASSUME bundle = NoBundle, NEW d \in Digests, Lose(d) PROVE BundleInv'
  BY <1>3, <1>6 DEF Lose
<1>7. ASSUME NEW k \in 1..Len(revisions), NEW request \in Requests,
             NEW policy \in {"INCLUDE", "OMIT"}, Export(k - 1, request, policy)
      PROVE  BundleInv'
  <2>1. k \in DOMAIN revisions
    BY DEF StoreInv, TablesSound, IsList
  <2> QED
    BY <1>7, <2>1, ExportKeeps
<1>8. CASE Reassemble
  BY <1>8, ReassembleKeeps
<1> QED
  BY <1>1, <1>2, <1>4, <1>5, <1>6, <1>7, <1>8 DEF Next

LEMMA BundlesSound == Spec => []BundleInv
<1>1. Init => BundleInv
  BY DEF Init, BundleInv, HonestVerifies, ValidIsRevision
<1> QED
  BY <1>1, StoreSound, NextKeeps, PTL DEF Spec

\* Every bundle that execBundleExport makes is found consistent by verify, whatever
\* was imported in whatever order, and whichever artifacts are gone meanwhile: the
\* two sides order steps and edges differently, but the edges into each step come in
\* the same order.
THEOREM ExportsVerify == Spec => []HonestVerifies
BY BundlesSound, PTL DEF BundleInv

\* What verify takes as far as the signatures, with the workspace's log up to some
\* entry, has the steps, the origins' bodies and the path of the revision that it
\* names: the last entry binds its graph, and the graph names the rest.
THEOREM ValidBundlesAreRevisions == Spec => []ValidIsRevision
BY BundlesSound, PTL DEF BundleInv

===============================================================================
