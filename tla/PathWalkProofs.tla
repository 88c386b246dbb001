---------------------------- MODULE PathWalkProofs ----------------------------
(***************************************************************************)
(* Proofs about PathWalk, for every graph and every order of its edges.    *)
(***************************************************************************)
EXTENDS PathWalk, FiniteSetTheorems, WellFoundedInduction, TLAPS

\* A step's parents are steps.
LEMMA ParentsAreSteps ==
    ASSUME TypeOK, NEW s \in Steps
    PROVE  Parents(s) \subseteq Steps /\ incoming[s] \in Seq(Steps)
BY GraphAssumption DEF TypeOK, Parents

\* What is left of a sequence without its last entry, or its first.
LEMMA Shorter ==
    ASSUME NEW S, NEW q \in Seq(S), q # <<>>
    PROVE  /\ q[Len(q)] \in S
           /\ SubSeq(q, 1, Len(q) - 1) \in Seq(S)
           /\ Head(q) \in S
           /\ Tail(q) \in Seq(S)
OBVIOUS

\* The candidate for the action, when there is just one.
LEMMA OneVersionOnly ==
    ASSUME TypeOK, NEW s \in versions, Cardinality(versions) = 1
    PROVE  versions = {s} /\ s \in Steps
<1>1. IsFiniteSet(versions) /\ versions \subseteq Steps
  BY GraphAssumption DEF TypeOK
<1>2. PICK x : versions = {x}
  BY <1>1, FS_Singleton
<1> QED
  BY <1>1, <1>2

-------------------------------------------------------------------------------
(* The invariance of TypeOK. *)

\* The function has looked at nothing yet.
Untouched == depth = Nobody /\ wl = <<>> /\ at = 0 /\ todo = <<>> /\ ready = {} /\ order = <<>>

TypeInv ==
    /\ TypeOK
    /\ phase = "find" => Untouched
    /\ todo # <<>> => at \in Returned

\* The function starts well typed.
LEMMA InitTyped == Init => TypeInv
BY BoundAssumption DEF Init, TypeInv, TypeOK, Untouched, Phases, Returned, Nobody

\* Finding the action keeps the types.
LEMMA FindTyped == TypeInv /\ Find => TypeInv'
<1> SUFFICES ASSUME TypeInv, Find PROVE TypeInv'
  OBVIOUS
<1>1. ASSUME NEW s \in versions, Cardinality(versions) = 1, phase' = "walk",
             depth' = [v \in {s} |-> 0], wl' = <<s>>, UNCHANGED <<at, todo>>
      PROVE  TypeInv'
  <2>1. s \in Steps
    BY <1>1, OneVersionOnly DEF TypeInv
  <2>2. Untouched
    BY DEF TypeInv, Find
  <2> QED
    BY <1>1, <2>1, <2>2, BoundAssumption
    DEF Find, TypeInv, TypeOK, Untouched, Returned, Phases, orderVars
<1> QED
  BY <1>1 DEF Find, TypeInv, TypeOK, Returned, walkVars, orderVars, Phases, Thrown

\* Taking a step from the work list keeps the types.
LEMMA PopTyped == TypeInv /\ Pop => TypeInv'
<1> SUFFICES ASSUME TypeInv, Pop PROVE TypeInv'
  OBVIOUS
<1>1. at' \in Returned /\ wl' \in Seq(Returned)
  BY Shorter DEF TypeInv, TypeOK, Pop, TakeStep
<1>2. todo' \in Seq(Steps)
  BY <1>1, ParentsAreSteps DEF TypeInv, TypeOK, Pop
<1> QED
  BY <1>1, <1>2 DEF TypeInv, TypeOK, Pop, Returned, orderVars

\* Looking at an edge keeps the types: a depth that is kept is within bounds.
LEMMA LookTyped == TypeInv /\ Look => TypeInv'
<1> SUFFICES ASSUME TypeInv, Look PROVE TypeInv'
  OBVIOUS
<1> DEFINE p == Head(todo)
<1>1. p \in Steps /\ Tail(todo) \in Seq(Steps)
  BY Shorter DEF TypeInv, TypeOK, Look
<1>2. CASE UNCHANGED <<depth, wl>>
  <2>1. phase' \in {"walk", "PATH_LIMIT"} /\ todo' \in Seq(Steps)
    BY <1>1 DEF TypeInv, TypeOK, Look
  <2>2. at \in Returned /\ UNCHANGED <<incoming, versions, at, ready, order>>
    BY DEF TypeInv, Look, orderVars
  <2>3. Returned' = Returned
    BY <1>2 DEF Returned
  <2> QED
    BY <1>2, <2>1, <2>2, <2>3 DEF TypeInv, TypeOK, Phases, Thrown
<1>3. CASE /\ p \notin Returned
           /\ ~TooDeep(depth[at])
           /\ depth' = [s \in Returned \cup {p} |-> IF s = p THEN depth[at] + 1 ELSE depth[s]]
           /\ wl' = Enqueued(p)
           /\ todo' = Tail(todo)
           /\ UNCHANGED phase
  <2>1. UNCHANGED <<incoming, versions, at, ready, order>>
    BY DEF Look, orderVars
  <2>2. at \in Returned
    BY DEF TypeInv, Look
  <2>3. depth[at] + 1 \in 0..MaxDepth
    BY <1>3, <2>2, BoundAssumption DEF TypeInv, TypeOK, TooDeep
  <2>4. Returned' = Returned \cup {p}
    BY <1>3 DEF Returned
  <2>5. depth' \in [Returned \cup {p} -> 0..MaxDepth]
    BY <1>3, <2>3 DEF TypeInv, TypeOK
  <2>6. wl' \in Seq(Returned \cup {p})
    BY <1>3 DEF TypeInv, TypeOK, Enqueued
  <2> QED
    BY <1>1, <1>3, <2>1, <2>2, <2>4, <2>5, <2>6 DEF TypeInv, TypeOK, Look
<1> QED
  BY <1>2, <1>3 DEF Look

\* Every step keeps the types.
LEMMA NextTyped == TypeInv /\ [Next]_vars => TypeInv'
<1> SUFFICES ASSUME TypeInv, [Next]_vars PROVE TypeInv'
  OBVIOUS
<1>1. CASE Measure
  BY <1>1 DEF Measure, TypeInv, TypeOK, Returned, Phases, Thrown, walkVars, orderVars
<1>2. CASE Order
  BY <1>2 DEF Order, Freed, TypeInv, TypeOK, Returned, walkVars
<1>3. CASE Return
  BY <1>3 DEF Return, TypeInv, TypeOK, Returned, Phases, walkVars, orderVars
<1>4. CASE UNCHANGED vars
  BY <1>4 DEF vars, TypeInv, TypeOK, Untouched, Returned, walkVars, orderVars
<1> QED
  BY <1>1, <1>2, <1>3, <1>4, FindTyped, PopTyped, LookTyped DEF Next

\* For every graph and every order of its edges, the walk keeps to its types: in
\* particular no step is ever given a depth beyond max_depth.
THEOREM WalkTyped == Spec => []TypeOK
<1>1. TypeInv => TypeOK
  BY DEF TypeInv
<1> QED
  BY <1>1, InitTyped, NextTyped, PTL DEF Spec

-------------------------------------------------------------------------------
(* The invariance of ReturnsAncestors.  While the walk runs, the steps met so  *)
(* far need not be closed under parents: what is missing is still owed by the  *)
(* work list, or by the edges not yet looked at.                               *)

Entries(q) == {q[n] : n \in DOMAIN q}

\* The parents of s have been met, or will be.
Settled(s) ==
    \/ s \in Entries(wl)
    \/ s = at /\ Parents(s) \subseteq Returned \cup Entries(todo)
    \/ Parents(s) \subseteq Returned

\* Whatever is closed under parents and holds the action holds what was met.
Least == \A S \in SUBSET Steps : ClosedOver(S) => Returned \subseteq S

WalkInv ==
    /\ TypeInv
    /\ Least
    /\ phase \in {"walk", "order", "done"} => versions \subseteq Returned
    /\ phase = "walk" => Entries(todo) \subseteq Parents(at) \/ todo = <<>>
    /\ phase = "walk" => \A s \in Returned : Settled(s)
    /\ Accepted => \A s \in Returned : Parents(s) \subseteq Returned

\* The first entry of a sequence, and the others.
LEMMA EntriesSplit ==
    ASSUME NEW S, NEW q \in Seq(S), q # <<>>
    PROVE  /\ Entries(q) = {Head(q)} \cup Entries(Tail(q))
           /\ Entries(q) = {q[Len(q)]} \cup Entries(SubSeq(q, 1, Len(q) - 1))
<1>1. Len(q) \in Nat \ {0} /\ DOMAIN q = 1..Len(q)
  OBVIOUS
<1>2. DOMAIN Tail(q) = 1..(Len(q) - 1) /\ \A n \in DOMAIN Tail(q) : Tail(q)[n] = q[n + 1]
  BY <1>1
<1>3. \A n \in DOMAIN q : n # 1 => n - 1 \in DOMAIN Tail(q) /\ Tail(q)[n - 1] = q[n]
  BY <1>1, <1>2
<1>4. Head(q) = q[1] /\ 1 \in DOMAIN q
  BY <1>1
<1>5. Entries(q) = {Head(q)} \cup Entries(Tail(q))
  <2>1. ASSUME NEW x \in Entries(q) PROVE x \in {Head(q)} \cup Entries(Tail(q))
    BY <1>3, <1>4 DEF Entries
  <2>2. ASSUME NEW x \in Entries(Tail(q)) PROVE x \in Entries(q)
    <3>1. PICK n \in DOMAIN Tail(q) : x = Tail(q)[n]
      BY DEF Entries
    <3>2. n + 1 \in DOMAIN q /\ x = q[n + 1]
      BY <1>1, <1>2, <3>1
    <3> QED
      BY <3>2 DEF Entries
  <2>3. Head(q) \in Entries(q)
    BY <1>4 DEF Entries
  <2> QED
    BY <2>1, <2>2, <2>3
<1> DEFINE front == SubSeq(q, 1, Len(q) - 1)
<1>6. DOMAIN front = 1..(Len(q) - 1) /\ \A n \in DOMAIN front : front[n] = q[n]
  BY <1>1
<1> HIDE DEF front
<1>7. Entries(q) = {q[Len(q)]} \cup Entries(front)
  <2>1. \A n \in DOMAIN q : n = Len(q) \/ n \in DOMAIN front
    BY <1>1, <1>6
  <2>2. \A n \in DOMAIN front : n \in DOMAIN q
    BY <1>1, <1>6
  <2>3. Len(q) \in DOMAIN q
    BY <1>1
  <2> QED
    BY <1>6, <2>1, <2>2, <2>3 DEF Entries
<1> QED
  BY <1>5, <1>7 DEF front

\* Appending adds one entry.
LEMMA EntriesAppend ==
    ASSUME NEW S, NEW q \in Seq(S), NEW x
    PROVE  Entries(Append(q, x)) = Entries(q) \cup {x}
<1>1. ASSUME NEW y \in Entries(q) PROVE y \in Entries(Append(q, x))
  <2>1. PICK n \in DOMAIN q : y = q[n]
    BY DEF Entries
  <2>2. n \in DOMAIN Append(q, x) /\ Append(q, x)[n] = q[n]
    OBVIOUS
  <2> QED
    BY <2>1, <2>2 DEF Entries
<1>2. x \in Entries(Append(q, x))
  <2>1. Len(q) + 1 \in DOMAIN Append(q, x) /\ Append(q, x)[Len(q) + 1] = x
    OBVIOUS
  <2> QED
    BY <2>1 DEF Entries
<1>3. ASSUME NEW y \in Entries(Append(q, x)) PROVE y \in Entries(q) \cup {x}
  <2>1. PICK n \in DOMAIN Append(q, x) : y = Append(q, x)[n]
    BY DEF Entries
  <2>2. n \in DOMAIN q \/ n = Len(q) + 1
    OBVIOUS
  <2> QED
    BY <2>1, <2>2 DEF Entries
<1> QED
  BY <1>1, <1>2, <1>3

\* Nothing is met before the action is found.
LEMMA InitWalk == Init => WalkInv
<1> SUFFICES ASSUME Init PROVE WalkInv
  OBVIOUS
<1>1. Returned = {} /\ phase = "find"
  BY DEF Init, Returned, Nobody
<1> QED
  BY <1>1, InitTyped DEF WalkInv, Least, Accepted

\* The action itself is met first.
LEMMA FindWalks == WalkInv /\ Find => WalkInv'
<1> SUFFICES ASSUME WalkInv, Find PROVE WalkInv'
  OBVIOUS
<1>1. TypeInv' /\ Untouched /\ TypeOK
  BY FindTyped DEF WalkInv, TypeInv, Find
<1>2. ASSUME NEW s \in versions, Cardinality(versions) = 1, phase' = "walk",
             depth' = [v \in {s} |-> 0], wl' = <<s>>, UNCHANGED <<at, todo>>
      PROVE  WalkInv'
  <2>1. versions = {s} /\ versions' = versions
    BY <1>1, <1>2, OneVersionOnly DEF Find
  <2>2. Returned' = {s} /\ todo' = <<>>
    BY <1>1, <1>2 DEF Returned, Untouched
  <2>3. s \in Entries(wl)'
    BY <1>2 DEF Entries
  <2> QED
    BY <1>1, <1>2, <2>1, <2>2, <2>3 DEF WalkInv, Least, ClosedOver, Accepted, Settled
<1>3. CASE phase' \in {"NOT_FOUND", "ACTION_CONFLICT"} /\ UNCHANGED walkVars
  <2>1. Returned' = Returned /\ UNCHANGED <<incoming, versions>>
    BY <1>3 DEF Find, Returned, walkVars
  <2> QED
    BY <1>1, <1>3, <2>1 DEF WalkInv, Least, ClosedOver, Parents, Accepted
<1> QED
  BY <1>2, <1>3 DEF Find

\* The step taken from the work list is the one whose edges come next.
LEMMA PopWalks == WalkInv /\ Pop => WalkInv'
<1> SUFFICES ASSUME WalkInv, Pop PROVE WalkInv'
  OBVIOUS
<1>1. TypeInv' /\ TypeOK /\ phase = "walk" /\ todo = <<>> /\ wl # <<>>
  BY PopTyped DEF WalkInv, TypeInv, Pop
<1>2. UNCHANGED <<incoming, versions, phase, depth>> /\ Returned' = Returned
  BY DEF Pop, Returned
<1>3. Entries(wl) = {at'} \cup Entries(wl')
  BY <1>1, EntriesSplit DEF TypeOK, Pop, TakeStep
<1>4. Entries(todo') = Parents(at')
  BY DEF Pop, Entries, Parents
<1>5. ASSUME NEW s \in Returned PROVE Settled(s)'
  <2>1. Settled(s)
    BY <1>1 DEF WalkInv
  <2>2. Entries(todo) = {}
    BY <1>1 DEF Entries
  <2>3. s \in Entries(wl) \/ Parents(s) \subseteq Returned
    BY <2>1, <2>2 DEF Settled
  <2>4. Parents(s)' = Parents(s)
    BY <1>2 DEF Parents
  <2> QED
    BY <1>2, <1>3, <1>4, <2>3, <2>4 DEF Settled, Entries
<1>6. Least'
  BY <1>2 DEF WalkInv, Least, ClosedOver, Parents
<1> QED
  BY <1>1, <1>2, <1>4, <1>5, <1>6 DEF WalkInv, Accepted, Entries, Parents

\* A parent that is met is an ancestor, and owes its own parents.
LEMMA LookWalks == WalkInv /\ Look => WalkInv'
<1> SUFFICES ASSUME WalkInv, Look PROVE WalkInv'
  OBVIOUS
<1> DEFINE p == Head(todo)
<1>1. TypeInv' /\ TypeInv /\ TypeOK /\ phase = "walk" /\ todo # <<>> /\ at \in Returned
  BY LookTyped DEF WalkInv, TypeInv, Look
<1>2. UNCHANGED <<incoming, versions, at>> /\ \A s : Parents(s)' = Parents(s)
  BY DEF Look, Parents
<1>3. Entries(todo) = {p} \cup Entries(Tail(todo))
  BY <1>1, EntriesSplit DEF TypeOK
<1>4. p \in Parents(at)
  BY <1>1, <1>3 DEF WalkInv
<1>5. CASE phase' = "PATH_LIMIT" /\ UNCHANGED <<depth, wl, todo>>
  <2>1. Returned' = Returned
    BY <1>5 DEF Returned
  <2> QED
    BY <1>1, <1>2, <1>5, <2>1 DEF WalkInv, Least, ClosedOver, Accepted
<1>6. CASE p \in Returned /\ todo' = Tail(todo) /\ UNCHANGED <<phase, depth, wl>>
  <2>1. Returned' = Returned
    BY <1>6 DEF Returned
  <2>2. ASSUME NEW s \in Returned PROVE Settled(s)'
    BY <1>1, <1>2, <1>3, <1>6, <2>1 DEF WalkInv, Settled, Entries
  <2> QED
    BY <1>1, <1>2, <1>3, <1>6, <2>1, <2>2 DEF WalkInv, Least, ClosedOver, Accepted, Entries
<1>7. CASE /\ p \notin Returned
           /\ depth' = [s \in Returned \cup {p} |-> IF s = p THEN depth[at] + 1 ELSE depth[s]]
           /\ wl' = Enqueued(p)
           /\ todo' = Tail(todo)
           /\ UNCHANGED phase
  <2>1. Returned' = Returned \cup {p}
    BY <1>7 DEF Returned
  <2>2. Entries(wl') = Entries(wl) \cup {p}
    BY <1>1, <1>7, EntriesAppend DEF TypeOK, Enqueued
  <2>3. Least'
    <3> SUFFICES ASSUME NEW S \in SUBSET Steps, ClosedOver(S) PROVE Returned \cup {p} \subseteq S
      BY <1>2, <2>1 DEF Least, ClosedOver
    <3>1. Returned \subseteq S
      BY DEF WalkInv, Least
    <3> QED
      BY <1>1, <1>4, <3>1 DEF ClosedOver
  <2>4. ASSUME NEW s \in Returned' PROVE Settled(s)'
    <3>1. CASE s = p
      BY <2>2, <3>1 DEF Settled, Entries
    <3>2. CASE s \in Returned
      <4>1. Settled(s)
        BY <1>1, <3>2 DEF WalkInv
      <4>2. Entries(todo)' = Entries(Tail(todo)) /\ Entries(wl)' = Entries(wl')
        BY <1>7 DEF Entries
      <4> QED
        BY <1>2, <1>3, <2>1, <2>2, <4>1, <4>2 DEF Settled
    <3> QED
      BY <2>1, <3>1, <3>2
  <2> QED
    BY <1>1, <1>2, <1>3, <1>7, <2>1, <2>3, <2>4 DEF WalkInv, Accepted, Entries
<1> QED
  BY <1>5, <1>6, <1>7 DEF Look

\* With the work list and the edges used up, nothing is owed.
LEMMA MeasureWalks == WalkInv /\ Measure => WalkInv'
<1> SUFFICES ASSUME WalkInv, Measure PROVE WalkInv'
  OBVIOUS
<1>1. TypeInv'
  BY NextTyped DEF WalkInv, Next
<1>2. /\ UNCHANGED <<incoming, versions, depth>>
      /\ Returned' = Returned
      /\ \A s : Parents(s)' = Parents(s)
  BY DEF Measure, walkVars, Returned, Parents
<1>3. ASSUME NEW s \in Returned PROVE Parents(s) \subseteq Returned
  <2>1. Settled(s) /\ wl = <<>> /\ todo = <<>>
    BY DEF WalkInv, Measure
  <2> QED
    BY <2>1 DEF Settled, Entries
<1>4. phase' \in {"PATH_LIMIT", "order"} /\ versions \subseteq Returned
  BY DEF WalkInv, Measure
<1> QED
  BY <1>1, <1>2, <1>3, <1>4 DEF WalkInv, Least, ClosedOver, Accepted

\* Every step keeps the walk's account.
LEMMA NextWalks == WalkInv /\ [Next]_vars => WalkInv'
<1> SUFFICES ASSUME WalkInv, [Next]_vars PROVE WalkInv'
  OBVIOUS
<1>1. TypeInv'
  BY NextTyped DEF WalkInv
<1>2. CASE Order \/ Return
  <2>1. phase \in {"order", "done"} /\ phase' \in {"order", "done"}
    BY <1>2 DEF Order, Return
  <2>2. UNCHANGED <<incoming, versions, depth>>
    BY <1>2 DEF Order, Return, walkVars
  <2> QED
    BY <1>1, <2>1, <2>2 DEF WalkInv, Least, ClosedOver, Accepted, Returned, Parents
<1>3. CASE UNCHANGED vars
  BY <1>1, <1>3 DEF vars, walkVars, WalkInv, Least, ClosedOver, Accepted, Returned, Parents,
     Settled, Entries
<1> QED
  BY <1>2, <1>3, FindWalks, PopWalks, LookWalks, MeasureWalks DEF Next

\* Whatever the graph and the order of its edges, the steps a path holds are the
\* action and its ancestors, all of them and no others.
THEOREM WalkReturnsAncestors == Spec => []ReturnsAncestors
<1>1. WalkInv => ReturnsAncestors
  BY DEF WalkInv, ReturnsAncestors, Least, ClosedOver, Accepted
<1> QED
  BY <1>1, InitWalk, NextWalks, PTL DEF Spec

-------------------------------------------------------------------------------
(* The order.  A step that is not yet listed counts the parents it still waits *)
(* for, and is ready when it waits for none.                                   *)

Listed == Entries(order)

\* The edges to w from steps not yet listed.
Owed(w) == {e \in PathEdges : e[2] = w /\ e[1] \notin Listed}

CountsRight ==
    \A w \in Returned \ Listed :
        /\ indeg[w] = Cardinality(Owed(w))
        /\ w \in ready <=> Owed(w) = {}

OrderSoFar ==
    \A n \in DOMAIN order :
        /\ order[n] \notin Before(n)
        /\ Parents(order[n]) \subseteq Before(n)
        /\ \A s \in Returned \ Before(n) : Parents(s) \subseteq Before(n) => order[n] <= s

OrderInv ==
    /\ IsFiniteSet(Returned)
    /\ phase \in {"find", "walk"} => order = <<>>
    /\ Accepted => CountsRight /\ OrderSoFar /\ ready \cap Listed = {}
    /\ phase = "done" => ready = {}

\* The steps listed before the n-th are those of the list up to there.
LEMMA BeforeListed ==
    ASSUME TypeOK
    PROVE  /\ Before(Len(order) + 1) = Listed
           /\ \A n \in DOMAIN order : Before(n) \subseteq Listed
<1>1. order \in Seq(Returned)
  BY DEF TypeOK
<1>2. DOMAIN order = 1..Len(order) /\ Len(order) \in Nat
  BY <1>1
<1>3. 1..((Len(order) + 1) - 1) = DOMAIN order
  BY <1>2
<1>4. \A n \in DOMAIN order : 1..(n - 1) \subseteq DOMAIN order
  BY <1>2
<1> QED
  BY <1>3, <1>4 DEF Before, Listed, Entries

\* The edges of a finite path are finite.
LEMMA EdgesFinite ==
    ASSUME IsFiniteSet(Returned)
    PROVE  /\ IsFiniteSet(PathEdges)
           /\ \A w : IsFiniteSet(Owed(w)) /\ Cardinality(Owed(w)) \in Nat
<1>1. IsFiniteSet(Returned \X Returned)
  BY FS_Product
<1>2. IsFiniteSet(PathEdges)
  BY <1>1, FS_Subset DEF PathEdges
<1>3. \A w : IsFiniteSet(Owed(w))
  BY <1>2, FS_Subset DEF Owed
<1> QED
  BY <1>2, <1>3, FS_CardinalityType

\* The walk meets finitely many steps and lists none.
LEMMA WalkingOrders ==
    ASSUME TypeInv, OrderInv, Find \/ Pop \/ Look
    PROVE  OrderInv'
<1>1. IsFiniteSet(Returned')
  <2>1. CASE Find
    <3>1. Returned' = Returned \/ \E s : Returned' = {s}
      BY <2>1 DEF Find, Returned, walkVars
    <3> QED
      BY <3>1, FS_Singleton DEF OrderInv
  <2>2. CASE Pop
    BY <2>2 DEF Pop, Returned, OrderInv
  <2>3. CASE Look
    <3>1. Returned' = Returned \/ \E s : Returned' = Returned \cup {s}
      BY <2>3 DEF Look, Returned
    <3> QED
      BY <3>1, FS_AddElement DEF OrderInv
  <2> QED
    BY <2>1, <2>2, <2>3
<1>2. order' = order /\ phase \in {"find", "walk"}
  BY DEF Find, Pop, Look, orderVars
<1>3. phase' \notin {"order", "done"}
  BY DEF Find, Pop, Look
<1> QED
  BY <1>1, <1>2, <1>3 DEF OrderInv, Accepted

\* What the order phase starts from.
LEMMA MeasureOrders ==
    ASSUME TypeInv, OrderInv, Measure
    PROVE  OrderInv'
<1>1. Returned' = Returned /\ PathEdges' = PathEdges /\ order = <<>> /\ order' = order
  BY DEF Measure, walkVars, orderVars, OrderInv, Returned, PathEdges, Parents
<1>2. Listed = {} /\ Listed' = {} /\ DOMAIN order' = {}
  BY <1>1 DEF Listed, Entries
<1>3. CASE phase' = "PATH_LIMIT"
  BY <1>1, <1>3 DEF OrderInv, Accepted
<1>4. CASE /\ phase' = "order"
           /\ indeg' = [s \in Returned |-> Cardinality({e \in PathEdges : e[2] = s})]
           /\ ready' = {s \in Returned : indeg'[s] = 0}
  <2>1. \A w : Owed(w)' = Owed(w) /\ Owed(w) = {e \in PathEdges : e[2] = w}
    BY <1>1, <1>2 DEF Owed
  <2>2. \A w \in Returned : indeg'[w] = Cardinality(Owed(w))
    BY <1>4, <2>1
  <2>3. \A w \in Returned : w \in ready' <=> Owed(w) = {}
    BY <1>4, <2>2, EdgesFinite, FS_EmptySet DEF OrderInv
  <2>4. CountsRight'
    BY <1>1, <1>2, <2>1, <2>2, <2>3 DEF CountsRight
  <2> QED
    BY <1>1, <1>2, <1>4, <2>4 DEF OrderInv, OrderSoFar, Accepted
<1> QED
  BY <1>3, <1>4 DEF Measure

\* The step listed next waits for none, and those that waited for it wait for one
\* less.
LEMMA OrderOrders ==
    ASSUME WalkInv, OrderInv, Order
    PROVE  OrderInv'
<1>1. PICK v \in ready :
          /\ Lowest(v)
          /\ order' = Append(order, v)
          /\ indeg' = [w \in Returned |-> IF <<v, w>> \in PathEdges THEN indeg[w] - 1 ELSE indeg[w]]
          /\ ready' = (ready \ {v}) \cup Freed(v)
  BY DEF Order
<1>2. /\ TypeOK /\ IsFiniteSet(Returned) /\ CountsRight /\ OrderSoFar /\ ready \cap Listed = {}
      /\ \A s \in Returned : Parents(s) \subseteq Returned
      /\ phase = "order" /\ phase' = "order"
  BY DEF WalkInv, TypeInv, OrderInv, Order, Accepted
<1>3. /\ Returned' = Returned /\ PathEdges' = PathEdges
      /\ \A s : Parents(s)' = Parents(s)
  BY DEF Order, walkVars, Returned, PathEdges, Parents
<1>4. order \in Seq(Returned) /\ ready \subseteq Returned /\ v \in Returned \ Listed
  BY <1>1, <1>2 DEF TypeOK
<1>5. Listed' = Listed \cup {v}
  BY <1>1, <1>4, EntriesAppend DEF Listed
<1>6. Owed(v) = {}
  BY <1>1, <1>2, <1>4 DEF CountsRight
<1>7. Parents(v) \subseteq Listed
  <2> SUFFICES ASSUME NEW p \in Parents(v), p \notin Listed PROVE FALSE
    OBVIOUS
  <2>1. <<p, v>> \in PathEdges
    BY <1>2, <1>4 DEF PathEdges
  <2> QED
    BY <1>6, <2>1 DEF Owed
<1>8. ASSUME NEW w \in Returned, w \notin Listed, w # v
      PROVE  /\ indeg'[w] = Cardinality(Owed(w)')
             /\ w \in ready' <=> Owed(w)' = {}
  <2>1. Owed(w)' = Owed(w) \ {<<v, w>>}
    <3>1. \A e \in PathEdges : e = <<e[1], e[2]>>
      BY DEF PathEdges
    <3> QED
      BY <1>3, <1>5, <3>1 DEF Owed
  <2>2. /\ IsFiniteSet(Owed(w)) /\ Cardinality(Owed(w)) \in Nat
        /\ IsFiniteSet(Owed(w) \ {<<v, w>>}) /\ Cardinality(Owed(w) \ {<<v, w>>}) \in Nat
    <3>1. IsFiniteSet(Owed(w)) /\ Cardinality(Owed(w)) \in Nat
      BY <1>2, EdgesFinite
    <3> QED
      BY <3>1, FS_RemoveElement, FS_CardinalityType
  <2>3. indeg[w] = Cardinality(Owed(w)) /\ (w \in ready <=> Owed(w) = {})
    BY <1>2, <1>8 DEF CountsRight
  <2>4. Owed(w)' = {} <=> Cardinality(Owed(w)') = 0
    BY <2>1, <2>2, FS_EmptySet
  <2>5. CASE <<v, w>> \in PathEdges
    <3>1. <<v, w>> \in Owed(w)
      BY <1>4, <2>5 DEF Owed
    <3>2. Cardinality(Owed(w)') = indeg[w] - 1
      BY <2>1, <2>2, <2>3, <3>1, FS_RemoveElement
    <3>3. w \notin ready
      BY <2>3, <3>1
    <3>4. w \in ready' <=> indeg[w] = 1
      BY <1>1, <1>8, <2>5, <3>3 DEF Freed
    <3> QED
      BY <1>1, <2>2, <2>3, <2>4, <2>5, <3>2, <3>4
  <2>6. CASE <<v, w>> \notin PathEdges
    <3>1. Owed(w)' = Owed(w)
      BY <2>1, <2>6 DEF Owed
    <3>2. w \in ready' <=> w \in ready
      BY <1>1, <1>8, <2>6 DEF Freed
    <3> QED
      BY <1>1, <2>3, <2>6, <3>1, <3>2
  <2> QED
    BY <2>5, <2>6
<1>9. CountsRight'
  BY <1>3, <1>5, <1>8 DEF CountsRight
<1>10. ready' \cap Listed' = {}
  <2>1. ASSUME NEW w \in Freed(v) PROVE w \notin Listed /\ w # v
    <3>1. <<v, w>> \in PathEdges /\ v \in Parents(w)
      BY DEF Freed, PathEdges
    <3>2. CASE w \in Listed
      <4>1. PICK n \in DOMAIN order : w = order[n]
        BY <3>2 DEF Listed, Entries
      <4> QED
        BY <1>2, <1>4, <3>1, <4>1, BeforeListed DEF OrderSoFar
    <3>3. CASE w = v
      BY <1>4, <1>7, <3>1, <3>3
    <3> QED
      BY <3>2, <3>3
  <2> QED
    BY <1>1, <1>2, <1>5, <2>1
<1>11. OrderSoFar'
  <2>1. /\ DOMAIN order' = DOMAIN order \cup {Len(order) + 1}
        /\ order'[Len(order) + 1] = v
        /\ \A n \in DOMAIN order : order'[n] = order[n]
        /\ DOMAIN order = 1..Len(order) /\ Len(order) \in Nat
    BY <1>1, <1>4
  <2>2. Before(Len(order) + 1) = Listed
    BY <1>2, BeforeListed
  <2>3. ASSUME NEW n \in DOMAIN order' PROVE Before(n)' = Before(n)
    <3>1. \A m \in 1..(n - 1) : order'[m] = order[m]
      BY <2>1
    <3> QED
      BY <3>1 DEF Before
  <2>4. ASSUME NEW s \in Returned \ Listed, Parents(s) \subseteq Listed PROVE v <= s
    <3>1. Owed(s) = {}
      BY <2>4 DEF Owed, PathEdges
    <3> QED
      BY <1>1, <1>2, <2>4, <3>1 DEF CountsRight, Lowest
  <2>5. ASSUME NEW n \in DOMAIN order'
        PROVE  /\ order'[n] \notin Before(n)
               /\ Parents(order'[n]) \subseteq Before(n)
               /\ \A s \in Returned \ Before(n) : Parents(s) \subseteq Before(n) => order'[n] <= s
    <3>1. CASE n \in DOMAIN order
      BY <1>2, <2>1, <3>1 DEF OrderSoFar
    <3>2. CASE n = Len(order) + 1
      BY <1>4, <1>7, <2>1, <2>2, <2>4, <3>2
    <3> QED
      BY <2>1, <3>1, <3>2
  <2> QED
    BY <1>3, <2>3, <2>5 DEF OrderSoFar
<1> QED
  BY <1>2, <1>3, <1>9, <1>10, <1>11 DEF OrderInv, Accepted

\* The account is of the graph, the steps met and the order, and of nothing else.
LEMMA OrderStands ==
    ASSUME UNCHANGED <<incoming, depth, orderVars>>, CountsRight, OrderSoFar
    PROVE  CountsRight' /\ OrderSoFar'
<1>1. /\ incoming' = incoming /\ depth' = depth /\ indeg' = indeg /\ ready' = ready
      /\ order' = order
  BY DEF orderVars
<1>2. /\ Returned' = Returned /\ Listed' = Listed
      /\ \A s : Parents(s)' = Parents(s)
      /\ \A n : Before(n)' = Before(n)
  BY <1>1 DEF Returned, Listed, Entries, Parents, Before
<1>3. PathEdges' = PathEdges
  BY <1>2 DEF PathEdges
<1>4. \A w : Owed(w)' = Owed(w)
  BY <1>2, <1>3 DEF Owed
<1>5. CountsRight'
  BY <1>1, <1>2, <1>4 DEF CountsRight
<1>6. OrderSoFar'
  BY <1>1, <1>2 DEF OrderSoFar
<1> QED
  BY <1>5, <1>6

\* Every step keeps the order's account.
LEMMA NextOrders == WalkInv /\ OrderInv /\ [Next]_vars => OrderInv'
<1> SUFFICES ASSUME WalkInv, OrderInv, [Next]_vars PROVE OrderInv'
  OBVIOUS
<1>1. CASE Return \/ UNCHANGED vars
  <2>1. UNCHANGED <<incoming, depth, orderVars>>
    BY <1>1 DEF Return, vars, walkVars
  <2>2. Returned' = Returned /\ Listed' = Listed /\ order' = order /\ ready' = ready
    BY <2>1 DEF Returned, Listed, Entries, orderVars
  <2>3. phase' = phase \/ (phase = "order" /\ phase' = "done" /\ ready = {})
    BY <1>1 DEF Return, vars
  <2>4. Accepted' => Accepted
    BY <2>3 DEF Accepted
  <2>5. Accepted => CountsRight' /\ OrderSoFar'
    BY <2>1, OrderStands DEF OrderInv
  <2> QED
    BY <2>2, <2>3, <2>4, <2>5 DEF OrderInv
<1> QED
  BY <1>1, WalkingOrders, MeasureOrders, OrderOrders DEF Next, WalkInv

LEMMA OrderInvHolds == Spec => []OrderInv
<1>1. Init => OrderInv
  <2>1. Init => Returned = {}
    BY DEF Init, Returned, Nobody
  <2> QED
    BY <2>1, FS_EmptySet DEF Init, OrderInv, Accepted
<1> QED
  BY <1>1, InitWalk, NextWalks, NextOrders, PTL DEF Spec

\* In a graph without a cycle every ancestor is listed, once, and after all its
\* parents, in whatever order the edges came.
THEOREM PathIsTopological == Spec => []ParentsFirst
<1>1. WalkInv /\ OrderInv => ParentsFirst
  <2> SUFFICES ASSUME WalkInv, OrderInv, phase = "done"
               PROVE  /\ Listed = Returned
                      /\ \A n \in DOMAIN order :
                            order[n] \notin Before(n) /\ Parents(order[n]) \subseteq Before(n)
    BY DEF ParentsFirst, Listed, Entries
  <2>1. TypeOK /\ CountsRight /\ OrderSoFar /\ ready = {}
    BY DEF WalkInv, TypeInv, OrderInv, Accepted
  <2>2. Listed \subseteq Returned
    BY <2>1 DEF TypeOK, Listed, Entries
  <2>3. Returned \ Listed = {}
    <3> DEFINE S == Returned \ Listed
    <3> SUFFICES ASSUME S # {} PROVE FALSE
      OBVIOUS
    <3>1. S \in SUBSET Steps /\ incoming \in Graphs
      BY <2>1 DEF TypeOK
    <3>2. PICK s \in S : \A n \in DOMAIN incoming[s] : incoming[s][n] \notin S
      BY <3>1, AcyclicAssumption
    <3>3. Owed(s) = {}
      BY <3>2 DEF Owed, PathEdges, Parents
    <3> QED
      BY <2>1, <3>3 DEF CountsRight
  <2> QED
    BY <2>1, <2>2, <2>3 DEF OrderSoFar
<1> QED
  BY <1>1, InitWalk, NextWalks, OrderInvHolds, PTL DEF Spec

\* The list does not depend on the order in which the edges came: each step in it
\* is the lowest of those whose parents are all listed before it.
THEOREM PathIsLowestFirst == Spec => []LowestFirst
<1>1. OrderInv => LowestFirst
  BY DEF OrderInv, OrderSoFar, LowestFirst, Accepted
<1> QED
  BY <1>1, OrderInvHolds, PTL

-------------------------------------------------------------------------------
(* The bounds.  The depth a step was first met at need not be its least, since *)
(* the work list is a stack, but it is that of some way down to the action.    *)

\* A step's depth is one more than that of a step it is a parent of.
DepthInv ==
    /\ \A s \in Returned :
          \/ s \in versions
          \/ \E c \in Returned : s \in Parents(c) /\ depth[s] = depth[c] + 1
    /\ Accepted => Cardinality(Returned) <= MaxNodes

\* A set of numbers that holds 0 and, with a number, the next holds them all.
LEMMA HoldsAll ==
    ASSUME NEW N \in SUBSET Nat, 0 \in N, \A n \in N : n + 1 \in N
    PROVE  N = Nat
<1> DEFINE Less == OpToRel(<, Nat)
           Out == Nat \ N
<1>1. \A x, y \in Nat : x < y => <<x, y>> \in Less
  BY DEF OpToRel
<1>2. IsWellFoundedOn(Less, Nat)
  BY NatLessThanWellFounded
<1> HIDE DEF Less
<1> SUFFICES ASSUME Out # {} PROVE FALSE
  OBVIOUS
<1>3. \E n \in Out : \A m \in Out : <<m, n>> \notin Less
  BY <1>2, WFMin
<1>4. PICK n \in Out : \A m \in Out : <<m, n>> \notin Less
  BY <1>3
<1>5. n \in Nat /\ n # 0
  OBVIOUS
<1>6. n - 1 \in Nat /\ n - 1 < n /\ (n - 1) + 1 = n
  BY <1>5
<1>7. n - 1 \in N
  BY <1>1, <1>4, <1>5, <1>6
<1> QED
  BY <1>6, <1>7

\* The generations up to the n-th, one from the other.
IsUp(up, n) ==
    up = [m \in 0..n |->
            IF m = 0 THEN versions ELSE up[m - 1] \cup UNION {Parents(s) : s \in up[m - 1]}]

\* There are such generations, for every n.
LEMMA UpExists == \A n \in Nat : \E up : IsUp(up, n)
<1> DEFINE N == {n \in Nat : \E up : IsUp(up, n)}
<1>1. 0 \in N
  <2>1. IsUp([m \in 0..0 |-> versions], 0)
    BY DEF IsUp
  <2> QED
    BY <2>1
<1>2. ASSUME NEW n \in N PROVE n + 1 \in N
  <2>1. PICK up : IsUp(up, n)
    OBVIOUS
  <2> DEFINE top == up[n] \cup UNION {Parents(s) : s \in up[n]}
             one == [m \in 0..(n + 1) |-> IF m = n + 1 THEN top ELSE up[m]]
  <2>2. n \in Nat /\ n + 1 \in Nat /\ (n + 1) - 1 = n /\ n + 1 # 0
    OBVIOUS
  <2>3. \A m \in 0..n : up[m] =
            IF m = 0 THEN versions ELSE up[m - 1] \cup UNION {Parents(s) : s \in up[m - 1]}
    BY <2>1 DEF IsUp
  <2>4. ASSUME NEW m \in 0..(n + 1)
        PROVE  one[m] =
            IF m = 0 THEN versions ELSE one[m - 1] \cup UNION {Parents(s) : s \in one[m - 1]}
    <3>1. CASE m = n + 1
      <4>1. one[m] = top /\ one[m - 1] = up[n] /\ m # 0
        BY <2>2, <3>1
      <4> QED
        BY <4>1
    <3>2. CASE m = 0
      <4>1. one[m] = up[m] /\ m \in 0..n
        BY <2>2, <3>2
      <4> QED
        BY <2>3, <3>2, <4>1
    <3>3. CASE m \in 1..n
      <4>1. one[m] = up[m] /\ one[m - 1] = up[m - 1] /\ m \in 0..n /\ m # 0
        BY <2>2, <3>3
      <4> QED
        BY <2>3, <4>1
    <3> QED
      BY <2>2, <3>1, <3>2, <3>3
  <2>5. one = [m \in 0..(n + 1) |-> one[m]]
    OBVIOUS
  <2> HIDE DEF one
  <2>6. IsUp(one, n + 1)
    BY <2>4, <2>5 DEF IsUp
  <2> QED
    BY <2>2, <2>6
<1> HIDE DEF N
<1>3. N = Nat
  <2>1. N \in SUBSET Nat
    BY DEF N
  <2> QED
    BY <1>1, <1>2, <2>1, HoldsAll
<1> QED
  BY <1>3 DEF N

\* What Within speaks of.
LEMMA WithinIsUp ==
    ASSUME NEW n \in Nat
    PROVE  \E up : IsUp(up, n) /\ Within(n) = up[n]
<1> DEFINE up == CHOOSE f : IsUp(f, n)
<1>1. IsUp(up, n)
  BY UpExists
<1>2. Within(n) = up[n]
  BY DEF Within, IsUp
<1> QED
  BY <1>1, <1>2

\* The step a walk was asked for, and then one generation more at a time.
LEMMA DepthIsWithin ==
    ASSUME TypeOK, DepthInv, NEW s \in Returned
    PROVE  s \in Within(MaxDepth)
<1>1. MaxDepth \in Nat /\ depth \in [Returned -> 0..MaxDepth]
  BY BoundAssumption DEF TypeOK
<1>2. PICK up : IsUp(up, MaxDepth) /\ Within(MaxDepth) = up[MaxDepth]
  BY <1>1, WithinIsUp
<1>3. /\ up[0] = versions
      /\ \A m \in 1..MaxDepth : up[m] = up[m - 1] \cup UNION {Parents(c) : c \in up[m - 1]}
  <2>1. \A m \in 0..MaxDepth : up[m] =
            IF m = 0 THEN versions ELSE up[m - 1] \cup UNION {Parents(c) : c \in up[m - 1]}
    BY <1>2 DEF IsUp
  <2>2. 0 \in 0..MaxDepth /\ \A m \in 1..MaxDepth : m \in 0..MaxDepth /\ m # 0
    BY <1>1
  <2> QED
    BY <2>1, <2>2
<1> DEFINE Upto(n) == {c \in Returned : depth[c] <= n}
           N == {n \in Nat : n <= MaxDepth => versions \subseteq up[n] /\ Upto(n) \subseteq up[n]}
<1>4. \A c \in Returned : depth[c] \in Nat /\ depth[c] <= MaxDepth
  BY <1>1
<1>5. 0 \in N
  <2>1. ASSUME NEW c \in Upto(0) PROVE c \in versions
    <3>1. depth[c] = 0 /\ \A d \in Returned : depth[c] # depth[d] + 1
      BY <1>4
    <3> QED
      BY <3>1 DEF DepthInv
  <2> QED
    BY <1>3, <2>1
<1>6. ASSUME NEW n \in N PROVE n + 1 \in N
  <2> SUFFICES ASSUME n + 1 <= MaxDepth
               PROVE  versions \subseteq up[n + 1] /\ Upto(n + 1) \subseteq up[n + 1]
    OBVIOUS
  <2>1. n \in Nat /\ n <= MaxDepth /\ n + 1 \in 1..MaxDepth /\ (n + 1) - 1 = n
    BY <1>1
  <2>2. up[n + 1] = up[n] \cup UNION {Parents(c) : c \in up[n]}
    BY <1>3, <2>1
  <2>3. versions \subseteq up[n] /\ Upto(n) \subseteq up[n]
    BY <2>1
  <2>4. ASSUME NEW c \in Upto(n + 1), c \notin versions PROVE c \in up[n + 1]
    <3>1. PICK d \in Returned : c \in Parents(d) /\ depth[c] = depth[d] + 1
      BY <2>4 DEF DepthInv
    <3>2. d \in Upto(n)
      BY <1>4, <2>1, <3>1
    <3> QED
      BY <2>2, <2>3, <3>1, <3>2
  <2> QED
    BY <2>2, <2>3, <2>4
<1>7. N = Nat
  <2>1. N \in SUBSET Nat
    OBVIOUS
  <2> HIDE DEF N
  <2> QED
    BY <1>5, <1>6, <2>1, HoldsAll
<1>8. MaxDepth \in N /\ s \in Upto(MaxDepth)
  BY <1>1, <1>4, <1>7
<1> QED
  BY <1>1, <1>2, <1>8

\* Every step keeps the depths' account.
LEMMA NextDepths == WalkInv /\ DepthInv /\ [Next]_vars => DepthInv'
<1> SUFFICES ASSUME WalkInv, DepthInv, [Next]_vars PROVE DepthInv'
  OBVIOUS
<1>1. CASE Find
  <2>1. TypeOK /\ Untouched /\ ~Accepted'
    BY <1>1 DEF WalkInv, TypeInv, Find, Accepted
  <2>2. Returned' \subseteq versions /\ versions' = versions
    <3>1. Returned = {}
      BY <2>1 DEF Untouched, Returned, Nobody
    <3> QED
      BY <1>1, <3>1 DEF Find, Returned, walkVars
  <2> QED
    BY <2>1, <2>2 DEF DepthInv
<1>2. CASE Look
  <2> DEFINE p == Head(todo)
  <2>1. /\ UNCHANGED <<incoming, versions>> /\ \A s : Parents(s)' = Parents(s)
        /\ ~Accepted'
    BY <1>2 DEF Look, Parents, Accepted
  <2>2. CASE UNCHANGED depth
    BY <2>1, <2>2 DEF DepthInv, Returned
  <2>3. CASE /\ p \notin Returned
             /\ depth' = [s \in Returned \cup {p} |-> IF s = p THEN depth[at] + 1 ELSE depth[s]]
    <3>1. at \in Returned /\ p \in Parents(at)
      <4>1. TypeOK /\ at \in Returned /\ todo # <<>> /\ Entries(todo) \subseteq Parents(at)
        BY <1>2 DEF WalkInv, TypeInv, Look
      <4> QED
        BY <4>1, EntriesSplit DEF TypeOK
    <3>2. Returned' = Returned \cup {p}
      BY <2>3 DEF Returned
    <3>3. ASSUME NEW s \in Returned', s \notin versions
          PROVE  \E c \in Returned' : s \in Parents(c) /\ depth'[s] = depth'[c] + 1
      <4>1. CASE s = p
        BY <2>3, <3>1, <3>2, <4>1
      <4>2. CASE s \in Returned
        BY <2>3, <3>2, <3>3, <4>2 DEF DepthInv
      <4> QED
        BY <3>2, <4>1, <4>2
    <3> QED
      BY <2>1, <3>3 DEF DepthInv
  <2> QED
    BY <1>2, <2>2, <2>3 DEF Look
<1>3. CASE Pop \/ Measure \/ Order \/ Return \/ UNCHANGED vars
  <2>1. UNCHANGED <<incoming, versions, depth>>
    BY <1>3 DEF Pop, Measure, Order, Return, vars, walkVars
  <2>2. Returned' = Returned /\ \A s : Parents(s)' = Parents(s)
    BY <2>1 DEF Returned, Parents
  <2>3. Accepted' => Accepted \/ Cardinality(Returned) <= MaxNodes
    BY <1>3 DEF Pop, Measure, Order, Return, vars, Accepted
  <2> QED
    BY <2>1, <2>2, <2>3 DEF DepthInv
<1> QED
  BY <1>1, <1>2, <1>3 DEF Next

\* A path that is returned keeps the bounds it was asked for: each of its steps is
\* within max_depth generations of the action, and there are at most max_nodes.
THEOREM PathKeepsBounds == Spec => []AcceptedWithinBounds
<1>1. Init => DepthInv
  BY DEF Init, DepthInv, Accepted, Returned, Nobody
<1>2. WalkInv /\ DepthInv => AcceptedWithinBounds
  BY DepthIsWithin DEF WalkInv, TypeInv, DepthInv, AcceptedWithinBounds
<1> QED
  BY <1>1, <1>2, InitWalk, NextWalks, NextDepths, PTL DEF Spec

===============================================================================
