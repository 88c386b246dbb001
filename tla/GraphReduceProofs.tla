--------------------------- MODULE GraphReduceProofs ---------------------------
(***************************************************************************)
(* What GraphReduce promises of every trace: the walk keeps its stack and  *)
(* its components apart, no parent that a step names and no delegation     *)
(* gets lost between the edges and the gaps, the components it closes are  *)
(* the cycles, and the gaps of origin streams are their holes.             *)
(***************************************************************************)
EXTENDS GraphReduce, FiniteSetTheorems, WellFoundedInduction, TLAPS

-------------------------------------------------------------------------------
(* Numbers. *)

\* A set of numbers that has an element has a least one.
LEMMA LeastNumber ==
  ASSUME NEW T \in SUBSET Nat, T # {}
  PROVE  \E m \in T : \A n \in T : m <= n
  <1> DEFINE Less == OpToRel(<, Nat)
  <1>1. \A x, y \in Nat : x < y => <<x, y>> \in Less
    BY DEF OpToRel
  <1>2. IsWellFoundedOn(Less, Nat)
    BY NatLessThanWellFounded
  <1> HIDE DEF Less
  <1>3. \E m \in T : \A n \in T : <<n, m>> \notin Less
    BY <1>2, WFMin
  <1>4. \A m, n \in Nat : <<n, m>> \notin Less => m <= n
    BY <1>1
  <1> QED BY <1>3, <1>4

\* One that holds 0 and, with a number, the next holds them all.
LEMMA HoldsAll ==
  ASSUME NEW N \in SUBSET Nat, 0 \in N, \A n \in N : n + 1 \in N
  PROVE  N = Nat
  <1> DEFINE Out == Nat \ N
  <1> SUFFICES ASSUME Out # {} PROVE FALSE
    OBVIOUS
  <1>1. PICK n \in Out : \A m \in Out : n <= m
    <2>1. Out \in SUBSET Nat
      OBVIOUS
    <2> HIDE DEF Out
    <2> QED BY <2>1, LeastNumber
  <1>2. n - 1 \in Nat /\ ~(n <= n - 1) /\ (n - 1) + 1 = n
    BY <1>1
  <1> QED BY <1>1, <1>2

-------------------------------------------------------------------------------
(* Sequences. *)

LEMMA AppendIsSeq ==
  ASSUME NEW S, NEW s \in Seq(S), NEW x \in S
  PROVE  /\ Append(s, x) \in Seq(S)
         /\ Len(Append(s, x)) = Len(s) + 1
         /\ Append(s, x)[Len(s) + 1] = x
         /\ \A n \in 1..Len(s) : Append(s, x)[n] = s[n]
  OBVIOUS

LEMMA LastIsElement ==
  ASSUME NEW S, NEW s \in Seq(S), s # <<>>
  PROVE  s[Len(s)] \in S
  OBVIOUS

LEMMA ElementIsTyped ==
  ASSUME NEW S, NEW s \in Seq(S), NEW n \in DOMAIN s
  PROVE  s[n] \in S
  OBVIOUS

LEMMA FrontIsSeq ==
  ASSUME NEW S, NEW s \in Seq(S), NEW k \in 0..Len(s)
  PROVE  /\ SubSeq(s, 1, k) \in Seq(S)
         /\ Len(SubSeq(s, 1, k)) = k
         /\ DOMAIN SubSeq(s, 1, k) = 1..k
         /\ \A n \in 1..k : SubSeq(s, 1, k)[n] = s[n]
  OBVIOUS

-------------------------------------------------------------------------------
(* The walk. *)

\* No step is on the stack twice.
Once == \A i, j \in DOMAIN stack : stack[i] = stack[j] => i = j

\* The steps being visited are on the stack in the order of their visits.
Ordered ==
    \A m, n \in DOMAIN work : \A i, j \in DOMAIN stack :
        m < n /\ stack[i] = work[m].at /\ stack[j] = work[n].at => i < j

NodesTyped ==
    /\ [steps |-> steps, origins |-> origins] \in Inputs
    /\ phase \in {"derive", "visit", "done"}
    /\ \A e \in edges : e.parent \in steps /\ e.child \in steps

NumbersTyped ==
    /\ Visited \subseteq steps
    /\ index \in [Visited -> Nat]
    /\ low \in [Visited -> Nat]
    /\ \A v \in Visited : low[v] <= index[v]

VisitsTyped ==
    /\ work \in Seq([at : steps, todo : SUBSET steps])
    /\ stack \in Seq(Visited)
    /\ \A n \in DOMAIN work : work[n].at \in Stacked
    /\ Once
    /\ Ordered

Apart ==
    /\ Visited = Stacked \cup UNION components
    /\ \A C \in components : Stacked \cap C = {}
    /\ \A C, D \in components : C # D => C \cap D = {}

WalkInv == NodesTyped /\ NumbersTyped /\ VisitsTyped /\ Apart

\* What is derived are edges between steps of the trace.
LEMMA CandidatesTyped == \A e \in Candidates : e.parent \in steps /\ e.child \in steps
  <1>1. \A e \in NativeEdges : e.parent \in steps /\ e.child \in steps
    <2>1. \A l \in Links : l.child \in steps
      BY DEF Links
    <2>2. \A l \in Links : Named(l.child, l.parent) \subseteq steps
      BY DEF Named
    <2> QED BY <2>1, <2>2 DEF NativeEdges, Edge
  <1>2. \A e \in DelegationEdges : e.parent \in steps /\ e.child \in steps
    BY DEF DelegationEdges, Offerers, Accepters, Edge
  <1> QED BY <1>1, <1>2 DEF Candidates

LEMMA StepsFinite == NodesTyped => IsFiniteSet(steps)
  BY InputAssumption DEF NodesTyped

\* The children and the ends of edges are steps.
LEMMA ChildrenTyped ==
  ASSUME NodesTyped
  PROVE  Nodes \subseteq steps /\ \A v : Children(v) \subseteq steps
  BY DEF NodesTyped, Nodes, Children

\* A step that is entered gets a number and goes on top of the stack.
LEMMA EnterKeeps ==
  ASSUME WalkInv, UNCHANGED <<steps, components>>,
         NEW v \in steps \ Visited, Enter(v)
  PROVE  /\ NumbersTyped'
         /\ stack' \in Seq(Visited')
         /\ Stacked' = Stacked \cup {v}
         /\ Once'
         /\ Apart'
         /\ Len(stack') = Len(stack) + 1
         /\ stack'[Len(stack) + 1] = v
         /\ \A i \in DOMAIN stack : stack'[i] = stack[i]
  <1>1. Cardinality(Visited) \in Nat
    BY StepsFinite, FS_Subset, FS_CardinalityType DEF WalkInv, NumbersTyped
  <1>2. Visited' = Visited \cup {v}
    BY DEF Enter, Visited
  <1>3. NumbersTyped'
    BY <1>1, <1>2 DEF Enter, NumbersTyped, WalkInv
  <1>4. /\ stack \in Seq(Visited)
        /\ stack' = Append(stack, v)
    BY DEF Enter, WalkInv, VisitsTyped
  <1>5. /\ Len(stack') = Len(stack) + 1
        /\ stack'[Len(stack) + 1] = v
        /\ \A i \in DOMAIN stack : stack'[i] = stack[i]
        /\ DOMAIN stack = 1..Len(stack)
        /\ DOMAIN stack' = 1..(Len(stack) + 1)
        /\ Len(stack) \in Nat
    BY <1>4
  <1>6. stack' \in Seq(Visited')
    BY <1>2, <1>4
  <1>7. Stacked' = Stacked \cup {v}
    BY <1>5 DEF Stacked
  <1>8. \A i \in DOMAIN stack : stack[i] # v
    BY <1>4
  <1>9. Once'
    BY <1>5, <1>8 DEF Once, WalkInv, VisitsTyped
  <1>10. Apart'
    <2>1. \A C \in components : v \notin C
      BY DEF WalkInv, Apart
    <2> QED BY <1>2, <1>7, <2>1 DEF WalkInv, Apart
  <1> QED BY <1>3, <1>5, <1>6, <1>7, <1>9, <1>10

\* A lower number is a number.
LEMMA LoweredKeeps ==
  ASSUME NumbersTyped, UNCHANGED <<steps, index>>,
         NEW v \in Visited, NEW n \in Nat, LoweredTo(v, n)
  PROVE  NumbersTyped'
  BY DEF NumbersTyped, LoweredTo, Visited

LEMMA TypedAtFirst == Init => WalkInv
  <1> SUFFICES ASSUME Init PROVE WalkInv
    OBVIOUS
  <1>1. [steps |-> steps, origins |-> origins] \in Inputs
    BY InputAssumption DEF Init
  <1>2. Visited = {} /\ stack = <<>> /\ work = <<>> /\ components = {} /\ edges = {}
    BY DEF Init, Visited
  <1>3. Stacked = {}
    BY <1>2 DEF Stacked
  <1> QED BY <1>1, <1>2, <1>3 DEF Init, WalkInv, NodesTyped, NumbersTyped, VisitsTyped, Apart, Once, Ordered

LEMMA TypedByDerive == WalkInv /\ Derive => WalkInv'
  <1> SUFFICES ASSUME WalkInv, Derive PROVE WalkInv'
    OBVIOUS
  <1>1. NodesTyped'
    BY CandidatesTyped DEF WalkInv, NodesTyped, Derive, Candidates
  <1> QED BY <1>1 DEF WalkInv, Derive, walkVars, NumbersTyped, VisitsTyped, Apart, Once, Ordered, Visited, Stacked

LEMMA TypedByFinish == WalkInv /\ Finish => WalkInv'
  BY DEF WalkInv, Finish, walkVars, NodesTyped, NumbersTyped, VisitsTyped, Apart, Once, Ordered, Visited, Stacked

LEMMA TypedByStart == WalkInv /\ Start => WalkInv'
  <1> SUFFICES ASSUME WalkInv, Start PROVE WalkInv'
    OBVIOUS
  <1>1. PICK v \in Nodes \ Visited : Enter(v) /\ work' = <<[at |-> v, todo |-> Children(v)]>>
    BY DEF Start
  <1>2. v \in steps /\ Children(v) \subseteq steps
    BY <1>1, ChildrenTyped DEF WalkInv
  <1>3. UNCHANGED <<steps, components>>
    BY DEF Start
  <1>4. /\ NumbersTyped' /\ stack' \in Seq(Visited') /\ Stacked' = Stacked \cup {v}
        /\ Once' /\ Apart'
    BY <1>1, <1>2, <1>3, EnterKeeps
  <1>5. NodesTyped'
    BY DEF Start, WalkInv, NodesTyped
  <1>6. /\ work' \in Seq([at : steps, todo : SUBSET steps])'
        /\ \A n \in DOMAIN work' : work'[n].at \in Stacked'
        /\ Ordered'
    BY <1>1, <1>2, <1>3, <1>4 DEF Ordered
  <1> QED BY <1>4, <1>5, <1>6 DEF WalkInv, VisitsTyped

LEMMA TypedByLook == WalkInv /\ Look => WalkInv'
  <1> SUFFICES ASSUME WalkInv, Look PROVE WalkInv'
    OBVIOUS
  <1> DEFINE Rest(w) == [work EXCEPT ![Len(work)].todo = @ \ {w}]
  <1>1. work \in Seq([at : steps, todo : SUBSET steps]) /\ work # <<>>
    BY DEF WalkInv, VisitsTyped, Look
  <1>2. Len(work) \in Nat \ {0} /\ DOMAIN work = 1..Len(work)
    BY <1>1
  <1>3. Top \in [at : steps, todo : SUBSET steps]
    BY <1>1, LastIsElement DEF Top
  <1>4. NodesTyped' /\ UNCHANGED <<steps, edges, components>>
    BY DEF Look, WalkInv, NodesTyped
  <1>5. ASSUME NEW w \in Top.todo
        PROVE  /\ Rest(w) \in Seq([at : steps, todo : SUBSET steps])
               /\ Len(Rest(w)) = Len(work)
               /\ \A n \in DOMAIN work : Rest(w)[n].at = work[n].at
    <2>1. [Top EXCEPT !.todo = @ \ {w}] \in [at : steps, todo : SUBSET steps]
      BY <1>3
    <2>2. Rest(w) = [work EXCEPT ![Len(work)] = [Top EXCEPT !.todo = @ \ {w}]]
      BY Zenon DEF Top
    <2>3. [Top EXCEPT !.todo = @ \ {w}].at = Top.at
      BY <1>3
    <2> HIDE DEF Rest
    <2> QED BY <2>1, <2>2, <2>3, <1>1, <1>2 DEF Top
  <1> HIDE DEF Rest
  <1>6. ASSUME NEW w \in Top.todo, work' = Rest(w), stack' = stack
        PROVE  /\ work' \in Seq([at : steps, todo : SUBSET steps])'
               /\ \A n \in DOMAIN work' : work'[n].at \in Stacked'
               /\ Once' /\ Ordered' /\ Stacked' = Stacked
    <2>1. Stacked' = Stacked /\ Once'
      BY <1>6 DEF Stacked, WalkInv, VisitsTyped, Once
    <2>2. DOMAIN work' = DOMAIN work /\ \A n \in DOMAIN work : work'[n].at = work[n].at
      BY <1>2, <1>5, <1>6
    <2>3. Ordered'
      BY <2>2, <1>6 DEF Ordered, WalkInv, VisitsTyped
    <2> QED BY <2>1, <2>2, <2>3, <1>4, <1>5, <1>6 DEF WalkInv, VisitsTyped
  <1>7. ASSUME NEW w \in Top.todo, w \notin Visited, Enter(w),
               work' = Append(Rest(w), [at |-> w, todo |-> Children(w)])
        PROVE  NumbersTyped' /\ VisitsTyped' /\ Apart'
    <2>1. w \in steps /\ Children(w) \subseteq steps
      BY <1>3, ChildrenTyped DEF WalkInv
    <2>2. /\ NumbersTyped' /\ stack' \in Seq(Visited') /\ Stacked' = Stacked \cup {w}
          /\ Once' /\ Apart'
          /\ Len(stack') = Len(stack) + 1
          /\ stack'[Len(stack) + 1] = w
          /\ \A i \in DOMAIN stack : stack'[i] = stack[i]
      BY <1>4, <1>7, <2>1, EnterKeeps
    <2>3. /\ DOMAIN work' = 1..(Len(work) + 1)
          /\ \A n \in DOMAIN work : work'[n].at = work[n].at
          /\ work'[Len(work) + 1].at = w
          /\ work' \in Seq([at : steps, todo : SUBSET steps])
      <3> DEFINE new == [at |-> w, todo |-> Children(w)]
      <3>1. new \in [at : steps, todo : SUBSET steps] /\ new.at = w
        BY <2>1
      <3>2. work' = Append(Rest(w), new)
        BY <1>7
      <3> HIDE DEF new
      <3>3. /\ work' \in Seq([at : steps, todo : SUBSET steps])
            /\ Len(work') = Len(work) + 1
            /\ work'[Len(work) + 1] = new
            /\ \A n \in DOMAIN work : work'[n] = Rest(w)[n]
        <4>1. Rest(w) \in Seq([at : steps, todo : SUBSET steps])
          BY <1>5
        <4>2. /\ Append(Rest(w), new) \in Seq([at : steps, todo : SUBSET steps])
              /\ Len(Append(Rest(w), new)) = Len(Rest(w)) + 1
              /\ Append(Rest(w), new)[Len(Rest(w)) + 1] = new
              /\ \A n \in 1..Len(Rest(w)) : Append(Rest(w), new)[n] = Rest(w)[n]
          BY ONLY <4>1, <3>1, AppendIsSeq
        <4> QED BY <1>2, <1>5, <3>2, <4>2
      <3> QED BY <1>2, <1>5, <3>1, <3>3
    <2>4. \A n \in DOMAIN work' : work'[n].at \in Stacked'
      BY <1>2, <2>2, <2>3 DEF WalkInv, VisitsTyped
    <2>5. Ordered'
      <3> SUFFICES ASSUME NEW m \in DOMAIN work', NEW n \in DOMAIN work',
                          NEW i \in DOMAIN stack', NEW j \in DOMAIN stack',
                          m < n, stack'[i] = work'[m].at, stack'[j] = work'[n].at
                   PROVE  i < j
        BY DEF Ordered
      <3>1. /\ stack \in Seq(Visited) /\ Len(stack) \in Nat /\ DOMAIN stack = 1..Len(stack)
            /\ DOMAIN stack' = 1..(Len(stack) + 1)
        BY <2>2 DEF WalkInv, VisitsTyped
      <3>2. m \in DOMAIN work
        BY <1>2, <2>3
      <3>3. work[m].at # w
        BY <1>7, <3>1, <3>2 DEF WalkInv, VisitsTyped, Stacked
      <3>4. i \in DOMAIN stack
        BY <2>2, <2>3, <3>1, <3>2, <3>3
      <3>5. CASE n = Len(work) + 1
        BY <1>7, <2>2, <2>3, <3>1, <3>4, <3>5 DEF WalkInv, VisitsTyped, Stacked
      <3>6. CASE n \in DOMAIN work
        <4>1. work[n].at # w
          BY <1>7, <3>1, <3>6 DEF WalkInv, VisitsTyped, Stacked
        <4>2. j \in DOMAIN stack
          BY <2>2, <2>3, <3>1, <3>6, <4>1
        <4> QED BY <2>2, <2>3, <3>2, <3>4, <3>6, <4>2 DEF WalkInv, VisitsTyped, Ordered
      <3> QED BY <1>2, <2>3, <3>5, <3>6
    <2> QED BY <1>4, <2>2, <2>3, <2>4, <2>5 DEF VisitsTyped
  <1>8. ASSUME NEW w \in Top.todo, w \in Visited, LeadsBack(w), LoweredTo(Top.at, index[w]),
               work' = Rest(w), UNCHANGED <<index, stack>>
        PROVE  NumbersTyped' /\ VisitsTyped' /\ Apart'
    <2>1. Top.at \in Visited /\ index[w] \in Nat
      <3>1. Top.at \in Stacked
        BY <1>2 DEF WalkInv, VisitsTyped, Top
      <3> QED BY <1>8, <3>1 DEF WalkInv, NumbersTyped, Apart
    <2>2. NumbersTyped'
      BY <1>4, <1>8, <2>1, LoweredKeeps DEF WalkInv
    <2> QED BY <1>4, <1>6, <1>8, <2>2 DEF WalkInv, VisitsTyped, Apart, Visited
  <1>9. ASSUME NEW w \in Top.todo, work' = Rest(w), UNCHANGED <<index, low, stack>>
        PROVE  NumbersTyped' /\ VisitsTyped' /\ Apart'
    BY <1>4, <1>6, <1>9 DEF WalkInv, NumbersTyped, VisitsTyped, Apart, Visited
  <1> QED BY <1>4, <1>7, <1>8, <1>9 DEF Look, WalkInv, Rest

LEMMA TypedByRetreat == WalkInv /\ Retreat => WalkInv'
  <1> SUFFICES ASSUME WalkInv, Retreat PROVE WalkInv'
    OBVIOUS
  <1>1. /\ work \in Seq([at : steps, todo : SUBSET steps]) /\ work # <<>>
        /\ work' = SubSeq(work, 1, Len(work) - 1)
        /\ Len(work) \in Nat \ {0} /\ DOMAIN work = 1..Len(work)
    BY DEF WalkInv, VisitsTyped, Retreat
  <1>2. /\ work' \in Seq([at : steps, todo : SUBSET steps])'
        /\ DOMAIN work' = 1..(Len(work) - 1)
        /\ \A n \in DOMAIN work' : work'[n] = work[n]
    <2> DEFINE Visits == [at : steps, todo : SUBSET steps]
    <2>1. Len(work) - 1 \in 0..Len(work) /\ Visits' = Visits /\ work \in Seq(Visits)
      BY <1>1 DEF Retreat
    <2>2. work' = SubSeq(work, 1, Len(work) - 1)
      BY <1>1
    <2> HIDE DEF Visits
    <2>3. /\ work' \in Seq(Visits)
          /\ DOMAIN work' = 1..(Len(work) - 1)
          /\ \A n \in 1..(Len(work) - 1) : work'[n] = work[n]
      BY ONLY <2>1, <2>2, FrontIsSeq
    <2> QED BY <2>1, <2>3 DEF Visits
  <1>3. NodesTyped' /\ UNCHANGED <<steps, edges, index>>
    BY DEF Retreat, WalkInv, NodesTyped
  <1>4. /\ stack \in Seq(Visited) /\ Len(stack) \in Nat /\ DOMAIN stack = 1..Len(stack)
        /\ \A n \in DOMAIN work : work[n].at \in Stacked /\ work[n].at \in Visited
    BY DEF WalkInv, VisitsTyped, Apart
  <1>5. NumbersTyped'
    <2>1. CASE Len(work) > 1
      <3>1. Len(work) - 1 \in DOMAIN work /\ Len(work) \in DOMAIN work
        BY <1>1, <2>1
      <3>2. work[Len(work) - 1].at \in Visited /\ low[Top.at] \in Nat
        BY <1>4, <3>1 DEF Top, WalkInv, NumbersTyped
      <3>3. LoweredTo(work[Len(work) - 1].at, low[Top.at])
        BY <2>1 DEF Retreat
      <3> QED BY <1>3, <3>2, <3>3, LoweredKeeps DEF WalkInv
    <2>2. CASE ~(Len(work) > 1)
      BY <1>3, <2>2 DEF Retreat, WalkInv, NumbersTyped, Visited
    <2> QED BY <2>1, <2>2
  <1>6. CASE UNCHANGED <<stack, gaps, components>>
    <2>1. Stacked' = Stacked /\ Visited' = Visited
      BY <1>3, <1>6 DEF Stacked, Visited
    <2>2. Ordered'
      BY <1>1, <1>2, <1>6 DEF WalkInv, VisitsTyped, Ordered
    <2>3. VisitsTyped'
      BY <1>1, <1>2, <1>6, <2>1, <2>2 DEF WalkInv, VisitsTyped, Once
    <2> QED BY <1>3, <1>5, <1>6, <2>1, <2>3 DEF WalkInv, Apart
  <1>7. CASE Close(Top.at)
    <2> DEFINE p == PlaceOf(Top.at)
    <2>1. p \in DOMAIN stack /\ stack[p] = Top.at
      <3>1. \E n \in DOMAIN stack : stack[n] = Top.at
        BY <1>1, <1>4 DEF Top, Stacked
      <3> QED BY <3>1 DEF PlaceOf
    <2>2. /\ stack' = SubSeq(stack, 1, p - 1)
          /\ components' = components \cup {Above(Top.at)}
          /\ Above(Top.at) = {stack[n] : n \in p..Len(stack)}
      BY <1>7 DEF Close, Above
    <2> HIDE DEF p
    <2>3. /\ stack' \in Seq(Visited) /\ DOMAIN stack' = 1..(p - 1)
          /\ \A n \in 1..(p - 1) : stack'[n] = stack[n]
          /\ p \in 1..Len(stack) /\ p \in Nat
      <3>1. p \in 1..Len(stack) /\ p - 1 \in 0..Len(stack)
        BY <1>4, <2>1
      <3> QED BY <1>4, <2>2, <3>1, FrontIsSeq
    <2>4. Visited' = Visited
      BY <1>3 DEF Visited
    <2>5. /\ Stacked' = {stack[n] : n \in 1..(p - 1)}
          /\ Stacked = Stacked' \cup Above(Top.at)
      <3>1. Stacked' = {stack[n] : n \in 1..(p - 1)}
        BY <2>3 DEF Stacked
      <3>2. 1..Len(stack) = (1..(p - 1)) \cup (p..Len(stack))
        BY <1>4, <2>3
      <3> QED BY <1>4, <2>2, <3>1, <3>2 DEF Stacked
    <2>6. Once' /\ Stacked' \cap Above(Top.at) = {}
      <3>1. Once
        BY DEF WalkInv, VisitsTyped
      <3> QED BY <1>4, <2>2, <2>3, <2>5, <3>1 DEF Once
    <2>7. Apart'
      <3> DEFINE A == Above(Top.at)
      <3>1. /\ Visited = Stacked \cup UNION components
            /\ \A C \in components : Stacked \cap C = {}
            /\ \A C, D \in components : C # D => C \cap D = {}
        BY DEF WalkInv, Apart
      <3>2. components' = components \cup {A} /\ Stacked = Stacked' \cup A /\ Stacked' \cap A = {}
        BY <2>2, <2>5, <2>6
      <3> HIDE DEF A
      <3>3. Visited' = Stacked' \cup UNION components'
        BY <2>4, <3>1, <3>2
      <3>4. \A C \in components' : Stacked' \cap C = {}
        BY <3>1, <3>2
      <3>5. \A C \in components : C \cap A = {}
        BY <3>1, <3>2
      <3>6. \A C, D \in components' : C # D => C \cap D = {}
        BY <3>1, <3>2, <3>5
      <3> QED BY <3>3, <3>4, <3>6 DEF Apart
    <2>8. \A n \in DOMAIN work' : work'[n].at \in Stacked'
      <3> SUFFICES ASSUME NEW n \in DOMAIN work' PROVE work[n].at \in Stacked'
        BY <1>2
      <3>1. n \in DOMAIN work /\ n < Len(work) /\ Len(work) \in DOMAIN work
        BY <1>1, <1>2
      <3>2. PICK i \in DOMAIN stack : stack[i] = work[n].at
        BY <1>4, <3>1 DEF Stacked
      <3>3. i < p
        BY <2>1, <3>1, <3>2 DEF WalkInv, VisitsTyped, Ordered, Top
      <3> QED BY <1>4, <2>3, <2>5, <3>2, <3>3
    <2>9. Ordered'
      <3>1. Ordered
        BY DEF WalkInv, VisitsTyped
      <3> QED BY <1>1, <1>2, <1>4, <2>3, <3>1 DEF Ordered
    <2> QED BY <1>2, <1>3, <1>5, <2>3, <2>4, <2>6, <2>7, <2>8, <2>9 DEF WalkInv, VisitsTyped
  <1> QED BY <1>6, <1>7 DEF Retreat

LEMMA TypedByStuttering == WalkInv /\ UNCHANGED vars => WalkInv'
  BY DEF WalkInv, vars, walkVars, NodesTyped, NumbersTyped, VisitsTyped, Apart, Once, Ordered, Visited, Stacked

LEMMA WalkInvHolds == Spec => []WalkInv
  <1>1. WalkInv /\ [Next]_vars => WalkInv'
    BY TypedByDerive, TypedByStart, TypedByLook, TypedByRetreat, TypedByFinish, TypedByStuttering DEF Next
  <1> QED BY TypedAtFirst, <1>1, PTL DEF Spec

\* The stack, the components and the visits of a walk fit together, for every
\* trace and every order in which its steps and their children are taken.
THEOREM WalkTyped == Spec => []TypeOK
  <1>1. WalkInv => TypeOK
    <2>1. ASSUME WalkInv, NEW n \in DOMAIN work PROVE work[n].todo \subseteq steps
      <3>1. work[n] \in [at : steps, todo : SUBSET steps]
        <4>1. work \in Seq([at : steps, todo : SUBSET steps])
          BY <2>1 DEF WalkInv, VisitsTyped
        <4> QED BY ONLY <2>1, <4>1, ElementIsTyped
      <3> QED BY <3>1
    <2> QED BY <2>1 DEF WalkInv, NodesTyped, NumbersTyped, VisitsTyped, Apart, TypeOK
  <1> QED BY WalkInvHolds, <1>1, PTL

-------------------------------------------------------------------------------
(* Edges and gaps. *)

Derived == SourceConflicts \cup ParentGaps \cup DelegationGaps

\* A component with an edge inside is reported as a cycle.
Reported(C) ==
    \A e \in Candidates : e.parent \in C /\ e.child \in C => Gap("CYCLE", Lowest(C), C) \in gaps

GraphInv ==
    /\ phase = "derive" => components = {}
    /\ phase = "visit" => edges = Candidates
    /\ phase = "done" => edges = {e \in Candidates : ~Inside(e)}
    /\ phase # "derive" => Derived \subseteq gaps
    /\ \A C \in components : Reported(C)

LEMMA InputFixed ==
  ASSUME UNCHANGED steps
  PROVE  Candidates' = Candidates /\ Derived' = Derived
  <1>1. \A q, r : Versions(q, r)' = Versions(q, r)
    BY DEF Versions
  <1>2. \A q, r : Named(q, r)' = Named(q, r)
    BY DEF Named
  <1>3. \A q : Conflicted(q)' = Conflicted(q)
    BY <1>1 DEF Conflicted
  <1>4. Links' = Links
    BY DEF Links
  <1>5. \A d : Offerers(d)' = Offerers(d) /\ Accepters(d)' = Accepters(d)
    BY DEF Offerers, Accepters
  <1>6. Delegations' = Delegations
    BY DEF Delegations, Offers
  <1>7. SourceConflicts' = SourceConflicts
    BY <1>1, <1>3 DEF SourceConflicts
  <1>8. ParentGaps' = ParentGaps
    BY <1>2, <1>4 DEF ParentGaps
  <1>9. NativeEdges' = NativeEdges
    BY <1>2, <1>3, <1>4 DEF NativeEdges, Suppressed
  <1>10. \A a, b, d : PairGap(a, b, d)' = PairGap(a, b, d)
    BY <1>1 DEF PairGap, AcceptedFrom, Agree
  <1>11. \A d : DelegationGap(d)' = DelegationGap(d)
    <2> TAKE d
    <2>1. Offerers(d)' = Offerers(d) /\ Accepters(d)' = Accepters(d) /\ Reused(d)' = Reused(d)
      BY <1>5 DEF Reused
    <2>2. (UNION {PairGap(a, b, d) : a \in Offerers(d), b \in Accepters(d)})'
            = UNION {PairGap(a, b, d) : a \in Offerers(d), b \in Accepters(d)}
      BY <1>10, <2>1
    <2>3. CASE Reused(d)
      BY <2>1, <2>3 DEF DelegationGap
    <2>4. CASE ~Reused(d) /\ Offerers(d) = {}
      BY <2>1, <2>4 DEF DelegationGap
    <2>5. CASE ~Reused(d) /\ Offerers(d) # {} /\ Accepters(d) = {}
      BY <2>1, <2>5 DEF DelegationGap
    <2>6. CASE ~Reused(d) /\ Offerers(d) # {} /\ Accepters(d) # {}
      BY <2>1, <2>2, <2>6 DEF DelegationGap
    <2> QED BY <2>3, <2>4, <2>5, <2>6
  <1>12. DelegationGaps' = DelegationGaps
    BY <1>6, <1>11 DEF DelegationGaps
  <1>13. DelegationEdges' = DelegationEdges
    BY <1>5, <1>6, <1>11 DEF DelegationEdges
  <1> QED BY <1>7, <1>8, <1>9, <1>12, <1>13 DEF Candidates, Derived

\* What is closed with an edge inside has several steps, or one that follows itself.
LEMMA ClosedIsReported ==
  ASSUME WalkInv, GraphInv, Retreat, Close(Top.at),
         NEW C, C = Above(Top.at)
  PROVE  Reported(C)'
  <1> DEFINE v == Top.at
  <1>1. v \in C /\ C \subseteq Stacked
    <2>1. Len(work) \in DOMAIN work /\ Len(stack) \in Nat /\ DOMAIN stack = 1..Len(stack)
      <3>1. work \in Seq([at : steps, todo : SUBSET steps]) /\ work # <<>> /\ stack \in Seq(Visited)
        BY DEF Retreat, WalkInv, VisitsTyped
      <3> QED BY <3>1
    <2>2. \E n \in DOMAIN stack : stack[n] = v
      BY <2>1 DEF Top, WalkInv, VisitsTyped, Stacked
    <2>3. PlaceOf(v) \in DOMAIN stack /\ stack[PlaceOf(v)] = v
      BY <2>2 DEF PlaceOf
    <2> QED BY <2>1, <2>3 DEF Above, Stacked
  <1>2. IsFiniteSet(C)
    BY <1>1, StepsFinite, FS_Subset DEF WalkInv, NumbersTyped, Apart
  <1> HIDE DEF v
  <1>3. ASSUME NEW e \in edges, e.parent \in C, e.child \in C PROVE IsCycle(C, v)
    <2>1. CASE Cardinality(C) > 1
      BY <2>1 DEF IsCycle
    <2>2. CASE ~(Cardinality(C) > 1)
      <3>1. Cardinality(C) = 0 \/ Cardinality(C) = 1
        BY <1>2, <2>2, FS_CardinalityType
      <3>2. C = {v}
        BY <1>1, <1>2, <3>1, FS_EmptySet, FS_Singleton
      <3> QED BY <1>3, <3>2 DEF IsCycle, Children
    <2> QED BY <2>1, <2>2
  <1>4. edges = Candidates /\ Candidates' = Candidates
    BY InputFixed DEF Retreat, GraphInv
  <1>5. IsCycle(C, v) => Gap("CYCLE", Lowest(C), C) \in gaps'
    BY DEF Close, v
  <1>6. ASSUME NEW e \in Candidates', e.parent \in C, e.child \in C
        PROVE  Gap("CYCLE", Lowest(C), C) \in gaps'
    BY <1>3, <1>4, <1>5, <1>6
  <1> QED BY <1>6 DEF Reported

LEMMA GraphInvKept == WalkInv /\ GraphInv /\ [Next]_vars => GraphInv'
  <1> SUFFICES ASSUME WalkInv, GraphInv, [Next]_vars PROVE GraphInv'
    OBVIOUS
  <1> USE DEF GraphInv
  <1>1. Candidates' = Candidates /\ Derived' = Derived
    BY InputFixed DEF Next, Derive, Start, Look, Retreat, Finish, vars
  <1>2. ASSUME UNCHANGED <<phase, edges, gaps, components>> PROVE GraphInv'
    <2>1. \A e : Inside(e)' = Inside(e)
      BY <1>2 DEF Inside
    <2>2. \A C \in components : Reported(C)'
      BY <1>1, <1>2 DEF Reported
    <2> QED BY <1>1, <1>2, <2>1, <2>2
  <1>3. CASE Derive
    <2>1. edges' = Candidates /\ gaps' = Derived /\ components' = {} /\ phase' = "visit"
      BY <1>3 DEF Derive, walkVars, Candidates, Derived
    <2> QED BY <1>1, <2>1
  <1>4. CASE Start
    BY <1>2, <1>4 DEF Start
  <1>5. CASE Look
    BY <1>2, <1>5 DEF Look
  <1>6. CASE Retreat
    <2>1. CASE UNCHANGED <<stack, gaps, components>>
      BY <1>2, <1>6, <2>1 DEF Retreat
    <2>2. CASE Close(Top.at)
      <3>1. phase = "visit" /\ phase' = "visit" /\ edges' = edges /\ gaps \subseteq gaps'
        BY <1>6, <2>2 DEF Retreat, Close
      <3>2. components' = components \cup {Above(Top.at)}
        BY <2>2 DEF Close
      <3>3. \A C \in components : Reported(C)'
        BY <1>1, <3>1 DEF Reported
      <3>4. \A C : C = Above(Top.at) => Reported(C)'
        BY <1>6, <2>2, ClosedIsReported
      <3>5. \A C \in components' : Reported(C)'
        BY <3>2, <3>3, <3>4
      <3> QED BY <1>1, <3>1, <3>5
    <2> QED BY <1>6, <2>1, <2>2 DEF Retreat
  <1>7. CASE Finish
    <2>1. /\ phase = "visit" /\ phase' = "done" /\ components' = components
          /\ edges' = {e \in edges : ~Inside(e)} /\ gaps \subseteq gaps'
      BY <1>7 DEF Finish, walkVars
    <2>2. \A e : Inside(e)' = Inside(e)
      BY <2>1 DEF Inside
    <2>3. \A C \in components : Reported(C)'
      BY <1>1, <2>1 DEF Reported
    <2> QED BY <1>1, <2>1, <2>2, <2>3
  <1>8. CASE UNCHANGED vars
    BY <1>2, <1>8 DEF vars, walkVars
  <1> QED BY <1>3, <1>4, <1>5, <1>6, <1>7, <1>8 DEF Next

\* An edge that is left out is reported.
LEMMA EdgeOrCycle ==
  ASSUME GraphInv, Done, NEW e \in Candidates
  PROVE  e \in edges \/ InCycle({e.parent, e.child})
  <1>1. CASE ~Inside(e)
    BY <1>1 DEF GraphInv, Done
  <1>2. CASE Inside(e)
    <2>1. PICK C \in components : e.parent \in C /\ e.child \in C
      BY <1>2 DEF Inside
    <2>2. Gap("CYCLE", Lowest(C), C) \in gaps
      BY <2>1 DEF GraphInv, Reported
    <2>3. PICK g \in gaps : g.code = "CYCLE" /\ g.related = C
      BY <2>2 DEF Gap
    <2> QED BY <2>1, <2>3 DEF InCycle
  <1> QED BY <1>1, <1>2

LEMMA ParentsKept ==
  ASSUME WalkInv, GraphInv, Done, NEW l \in Links
  PROVE  LinkKept(l)
  <1> DEFINE N == Named(l.child, l.parent)
             V == Versions(Body[l.child].source, Body[l.child].record)
  <1>1. l.child \in steps
    BY DEF Links
  <1>2. Derived \subseteq gaps
    BY DEF GraphInv, Done
  <1>3. IsFiniteSet(N)
    BY StepsFinite, FS_Subset DEF WalkInv, Named
  <1>4. CASE N = {}
    <2>1. Gap("PARENT_MISSING", l.child, {}) \in ParentGaps
      BY <1>4 DEF ParentGaps
    <2> QED BY <1>2, <1>4, <2>1 DEF Derived, LinkKept
  <1>5. CASE Cardinality(N) > 1
    <2>1. Gap("PARENT_AMBIGUOUS", l.child, N) \in ParentGaps
      BY <1>5 DEF ParentGaps
    <2> QED BY <1>2, <1>5, <2>1 DEF Derived, LinkKept
  <1>6. ASSUME Cardinality(N) = 1 PROVE LinkKept(l)
    <2>1. PICK u : N = {u}
      BY <1>3, <1>6, FS_Singleton
    <2> SUFFICES \/ Edge(u, l.child, Nothing) \in edges
                 \/ \E g \in gaps : g.code = "SOURCE_CONFLICT" /\ l.child \in g.related
                 \/ InCycle({u, l.child})
      BY <2>1 DEF LinkKept
    <2>2. CASE Conflicted(l.child)
      <3>1. Gap("SOURCE_CONFLICT", Lowest(V), V) \in SourceConflicts
        BY <1>1, <2>2 DEF SourceConflicts
      <3>2. l.child \in V
        BY <1>1 DEF Versions
      <3> QED BY <1>2, <3>1, <3>2 DEF Derived, Gap
    <2>3. CASE ~Conflicted(l.child)
      <3>1. Edge(u, l.child, Nothing) \in NativeEdges
        BY <1>6, <2>1, <2>3 DEF NativeEdges, Suppressed
      <3> QED BY <3>1, EdgeOrCycle DEF Candidates, Edge
    <2> QED BY <2>2, <2>3
  <1>8. Cardinality(N) = 0 => N = {}
    BY <1>3, FS_EmptySet
  <1> HIDE DEF N
  <1>9. Cardinality(N) \in Nat
    BY <1>3, FS_CardinalityType
  <1>10. Cardinality(N) = 0 \/ Cardinality(N) = 1 \/ Cardinality(N) > 1
    BY <1>9
  <1> QED BY <1>4, <1>5, <1>6, <1>8, <1>10

\* A delegation has a party, and what is said of it is said of its parties.
LEMMA DelegationSaid ==
  ASSUME WalkInv, NEW d \in Delegations, NEW g \in DelegationGap(d)
  PROVE  /\ \E s \in Offerers(d) \cup Accepters(d) : Mentions(g, s)
         /\ g.code \in {"DELEGATION_REUSED", "OFFER_MISSING", "ACCEPT_MISSING",
                        "DELEGATION_MISMATCH", "PARENT_HASH_MISMATCH"}
  <1> DEFINE I == Offerers(d) \cup Accepters(d)
  <1>1. \E s \in I : TRUE
    BY DEF Delegations, Offers, Offerers, Accepters
  <1>2. CASE Reused(d)
    <2>1. g = Gap("DELEGATION_REUSED", Lowest(I), I)
      BY <1>2 DEF DelegationGap
    <2> QED BY <1>1, <2>1 DEF Gap, Mentions
  <1>3. CASE ~Reused(d) /\ Offerers(d) = {}
    <2>1. PICK s \in Accepters(d) : g = Gap("OFFER_MISSING", s, {})
      BY <1>3 DEF DelegationGap
    <2> QED BY <2>1 DEF Gap, Mentions
  <1>4. CASE ~Reused(d) /\ Offerers(d) # {} /\ Accepters(d) = {}
    <2>1. PICK s \in Offerers(d) : g = Gap("ACCEPT_MISSING", s, {})
      BY <1>4 DEF DelegationGap
    <2> QED BY <2>1 DEF Gap, Mentions
  <1>5. CASE ~Reused(d) /\ Offerers(d) # {} /\ Accepters(d) # {}
    <2>1. g \in UNION {PairGap(a, b, d) : a \in Offerers(d), b \in Accepters(d)}
      BY <1>5 DEF DelegationGap
    <2>2. PICK a \in Offerers(d), b \in Accepters(d) : g \in PairGap(a, b, d)
      BY <2>1
    <2>3. /\ g.subject = b
          /\ g.code \in {"DELEGATION_MISMATCH", "PARENT_HASH_MISMATCH"}
      BY <2>2 DEF PairGap, Gap
    <2> QED BY <2>2, <2>3 DEF Mentions
  <1> QED BY <1>2, <1>3, <1>4, <1>5

LEMMA DelegationsKept ==
  ASSUME WalkInv, GraphInv, Done, NEW d \in Delegations
  PROVE  DelegationKept(d)
  <1>1. CASE DelegationGap(d) # {}
    <2>1. PICK g \in DelegationGap(d) : TRUE
      BY <1>1
    <2>2. g \in gaps
      BY <2>1 DEF DelegationGaps, Derived, GraphInv, Done
    <2> QED BY <2>1, <2>2, DelegationSaid DEF DelegationKept
  <1>2. CASE DelegationGap(d) = {}
    <2>1. ~Reused(d)
      BY <1>2 DEF DelegationGap
    <2>2. \E s \in Offerers(d) \cup Accepters(d) : TRUE
      BY DEF Delegations, Offers, Offerers, Accepters
    <2>3. Offerers(d) # {}
      <3>1. SUFFICES ASSUME Offerers(d) = {} PROVE FALSE
        OBVIOUS
      <3>2. PICK s \in Accepters(d) : TRUE
        BY <2>2, <3>1
      <3>3. Gap("OFFER_MISSING", s, {}) \in DelegationGap(d)
        BY <2>1, <3>1, <3>2 DEF DelegationGap
      <3> QED BY <1>2, <3>3
    <2>4. Accepters(d) # {}
      BY <1>2, <2>1, <2>3 DEF DelegationGap
    <2>5. PICK a \in Offerers(d), b \in Accepters(d) : TRUE
      BY <2>3, <2>4
    <2>6. Edge(a, b, d) \in DelegationEdges
      BY <1>2, <2>5 DEF DelegationEdges
    <2>7. Edge(a, b, d) \in edges \/ InCycle({a, b})
      BY <2>6, EdgeOrCycle DEF Candidates, Edge
    <2> QED BY <2>5, <2>7 DEF DelegationKept
  <1> QED BY <1>1, <1>2

\* Conflicts, cycles and ambiguous parents are retained as gaps: for every trace,
\* each parent that a step names and each delegation is an edge of the graph, or a
\* gap says of it why it is not, whatever the walk over the cycles does first.
THEOREM GraphDropsNothing == Spec => []NothingDropped
  <1>1. Init => GraphInv
    BY DEF Init, GraphInv
  <1>2. WalkInv /\ GraphInv => NothingDropped
    BY ParentsKept, DelegationsKept DEF NothingDropped
  <1> QED BY WalkInvHolds, GraphInvKept, <1>1, <1>2, PTL DEF Spec

-------------------------------------------------------------------------------
(* Origins. *)

\* A step of which ORIGIN_GAP is said: one of its attestations is at or beyond a
\* place where the stream is broken.
Holed(s) ==
    \E o \in Attesting :
        /\ o.step = s
        /\ \E b \in origins : b.stream = o.stream /\ b.seq <= o.seq /\ Broken(b)

OriginInv ==
    /\ phase # "done" => \A g \in gaps : g.code # "ORIGIN_GAP"
    /\ phase = "done" => \A s : Gap("ORIGIN_GAP", s, {}) \in gaps <=> Holed(s)

\* What is derived are no gaps of a stream and no cycles.
LEMMA DerivedCodes == \A g \in Derived : g.code \notin {"ORIGIN_GAP", "CYCLE"}
  <1>1. \A g \in SourceConflicts : g.code = "SOURCE_CONFLICT"
    BY DEF SourceConflicts, Gap
  <1>2. \A g \in ParentGaps : g.code \in {"PARENT_MISSING", "PARENT_AMBIGUOUS"}
    BY DEF ParentGaps, Gap
  <1>3. ASSUME NEW d \in Delegations, NEW g \in DelegationGap(d) PROVE g.code \notin {"ORIGIN_GAP", "CYCLE"}
    <2>1. CASE Reused(d)
      BY <2>1, <1>3 DEF DelegationGap, Gap
    <2>2. CASE ~Reused(d) /\ Offerers(d) = {}
      BY <2>2, <1>3 DEF DelegationGap, Gap
    <2>3. CASE ~Reused(d) /\ Offerers(d) # {} /\ Accepters(d) = {}
      BY <2>3, <1>3 DEF DelegationGap, Gap
    <2>4. CASE ~Reused(d) /\ Offerers(d) # {} /\ Accepters(d) # {}
      <3>1. g \in UNION {PairGap(a, b, d) : a \in Offerers(d), b \in Accepters(d)}
        BY <1>3, <2>4 DEF DelegationGap
      <3>2. PICK a \in Offerers(d), b \in Accepters(d) : g \in PairGap(a, b, d)
        BY <3>1
      <3> QED BY <3>2 DEF PairGap, Gap
    <2> QED BY <2>1, <2>2, <2>3, <2>4
  <1>4. \A g \in DelegationGaps : g.code \notin {"ORIGIN_GAP", "CYCLE"}
    BY <1>3 DEF DelegationGaps
  <1> QED BY <1>1, <1>2, <1>4 DEF Derived

\* What the end says of the streams.
LEMMA OriginGapsSay ==
  ASSUME NEW s
  PROVE  Gap("ORIGIN_GAP", s, {}) \in OriginGaps <=> Holed(s)
  <1> DEFINE A == {Gap("ORIGIN_GAP", o.step, {}) :
                      o \in {a \in Attesting :
                                \E b \in origins : b.stream = a.stream /\ b.seq <= a.seq /\ Broken(b)}}
             B == UNION {{Gap("ORIGIN_FORK", o.step, HashesAt(o.stream, n)) :
                      n \in {m \in 1..o.seq : Cardinality(HashesAt(o.stream, m)) > 1}} : o \in Attesting}
  <1>1. OriginGaps = A \cup B
    BY DEF OriginGaps
  <1>2. \A g \in B : g.code = "ORIGIN_FORK"
    BY DEF Gap
  <1>3. Gap("ORIGIN_GAP", s, {}) \in A <=> Holed(s)
    BY DEF Gap, Holed
  <1>4. Gap("ORIGIN_GAP", s, {}).code = "ORIGIN_GAP"
    BY DEF Gap
  <1> HIDE DEF A, B
  <1> QED BY <1>1, <1>2, <1>3, <1>4

LEMMA OriginInvKept == OriginInv /\ [Next]_vars => OriginInv'
  <1> SUFFICES ASSUME OriginInv, [Next]_vars PROVE OriginInv'
    OBVIOUS
  <1>1. UNCHANGED <<steps, origins>>
    BY DEF Next, Derive, Start, Look, Retreat, Finish, vars
  <1>2. \A s : Holed(s)' = Holed(s)
    BY <1>1 DEF Holed, Attesting, Broken, HashesAt, At
  <1>3. CASE Derive
    <2>1. gaps' = Derived /\ phase' # "done"
      BY <1>3 DEF Derive, Derived
    <2> QED BY <2>1, DerivedCodes DEF OriginInv
  <1>4. CASE Retreat
    <2>1. phase # "done" /\ phase' # "done"
      BY <1>4 DEF Retreat
    <2>2. \A g \in gaps' \ gaps : g.code = "CYCLE"
      BY <1>4 DEF Retreat, Close, Gap
    <2> QED BY <2>1, <2>2 DEF OriginInv
  <1>5. CASE Finish
    <2>1. phase = "visit" /\ phase' = "done" /\ gaps' = gaps \cup OriginGaps
      BY <1>5 DEF Finish
    <2>2. \A s : Gap("ORIGIN_GAP", s, {}) \notin gaps
      <3>1. \A s : Gap("ORIGIN_GAP", s, {}).code = "ORIGIN_GAP"
        BY DEF Gap
      <3> QED BY <2>1, <3>1 DEF OriginInv
    <2>3. \A s : Gap("ORIGIN_GAP", s, {}) \in OriginGaps <=> Holed(s)
      BY OriginGapsSay
    <2> QED BY <1>2, <2>1, <2>2, <2>3 DEF OriginInv
  <1>6. CASE UNCHANGED <<phase, gaps>>
    BY <1>2, <1>6 DEF OriginInv
  <1> QED BY <1>3, <1>4, <1>5, <1>6 DEF Next, Start, Look, vars

\* A chain that ends at o and begins the stream.
ChainTo(chain, o) ==
    /\ chain \in [1..o.seq -> origins]
    /\ chain[o.seq] = o
    /\ chain[1].prev = Zero
    /\ \A n \in 1..o.seq : chain[n].stream = o.stream /\ chain[n].seq = n
    /\ \A n \in 2..o.seq : chain[n].prev = chain[n - 1].hash

LEMMA RootedIsChain == \A o : Rooted(o) <=> \E chain : ChainTo(chain, o)
  BY DEF Rooted, ChainTo

\* The last of a chain is not broken.
LEMMA RootedNotBroken ==
  ASSUME NEW o \in origins, o.seq \in Nat \ {0}, Rooted(o)
  PROVE  ~Broken(o)
  <1>1. PICK chain : ChainTo(chain, o)
    BY RootedIsChain
  <1>2. CASE o.seq = 1
    BY <1>1, <1>2 DEF ChainTo, Broken
  <1>3. CASE o.seq # 1
    <2>1. o.seq - 1 \in 1..o.seq /\ o.seq \in 2..o.seq
      BY <1>3
    <2>2. chain[o.seq - 1] \in At(o.stream, o.seq - 1) /\ o.prev = chain[o.seq - 1].hash
      BY <1>1, <2>1 DEF ChainTo, At
    <2> QED BY <1>3, <2>2 DEF Broken, HashesAt
  <1> QED BY <1>2, <1>3

\* An origin that is not broken ends a chain if all those just below it do.
LEMMA ChainGrows ==
  ASSUME NEW o \in origins, o.seq \in Nat \ {0}, ~Broken(o),
         \A c \in At(o.stream, o.seq - 1) : Rooted(c)
  PROVE  Rooted(o)
  <1>1. CASE o.seq = 1
    <2>1. ChainTo([n \in 1..o.seq |-> o], o)
      BY <1>1 DEF ChainTo, Broken
    <2> QED BY <2>1, RootedIsChain
  <1>2. CASE o.seq # 1
    <2>1. PICK c \in At(o.stream, o.seq - 1) : c.hash = o.prev
      BY <1>2 DEF Broken, HashesAt
    <2>2. c.seq = o.seq - 1 /\ c.stream = o.stream
      BY <2>1 DEF At
    <2>3. PICK chain : ChainTo(chain, c)
      BY <2>1, RootedIsChain
    <2> DEFINE one == [n \in 1..o.seq |-> IF n = o.seq THEN o ELSE chain[n]]
    <2>4. \A n \in 1..o.seq : n # o.seq => n \in 1..c.seq
      BY <2>2
    <2>5. /\ one[o.seq] = o /\ one[1] = chain[1] /\ one[o.seq - 1] = c
          /\ \A n \in 1..c.seq : one[n] = chain[n]
      BY <1>2, <2>2, <2>3 DEF ChainTo
    <2>6. one \in [1..o.seq -> origins]
      BY <2>3, <2>4 DEF ChainTo
    <2> HIDE DEF one
    <2>7. \A n \in 1..o.seq : one[n].stream = o.stream /\ one[n].seq = n
      BY <2>2, <2>3, <2>4, <2>5 DEF ChainTo
    <2>8. ASSUME NEW n \in 2..o.seq PROVE one[n].prev = one[n - 1].hash
      <3>1. CASE n = o.seq
        BY <2>1, <2>5, <3>1
      <3>2. CASE n # o.seq
        <4>1. n \in 2..c.seq /\ n \in 1..c.seq /\ n - 1 \in 1..c.seq
          BY <2>2, <3>2
        <4> QED BY <2>3, <2>5, <4>1 DEF ChainTo
      <3> QED BY <3>1, <3>2
    <2>9. ChainTo(one, o)
      BY <2>3, <2>5, <2>6, <2>7, <2>8 DEF ChainTo
    <2> QED BY <2>9, RootedIsChain
  <1> QED BY <1>1, <1>2

\* Where no origin up to a place is broken, each of them ends a chain.
LEMMA UnbrokenRooted ==
  ASSUME NodesTyped, NEW q, NEW top \in Nat,
         \A b \in origins : b.stream = q /\ b.seq <= top => ~Broken(b)
  PROVE  \A b \in origins : b.stream = q /\ b.seq <= top => Rooted(b)
  <1>1. \A b \in origins : b.seq \in Nat \ {0}
    BY InputAssumption DEF NodesTyped
  <1> DEFINE N == {n \in Nat : n <= top => \A b \in origins : b.stream = q /\ b.seq = n => Rooted(b)}
  <1>2. 0 \in N
    BY <1>1
  <1>3. ASSUME NEW n \in N PROVE n + 1 \in N
    <2> SUFFICES ASSUME n + 1 <= top, NEW b \in origins, b.stream = q, b.seq = n + 1
                 PROVE  Rooted(b)
      OBVIOUS
    <2>1. n \in Nat /\ n <= top /\ b.seq - 1 = n
      OBVIOUS
    <2>2. \A c \in At(b.stream, b.seq - 1) : Rooted(c)
      BY <2>1 DEF At
    <2> QED BY <1>1, <2>2, ChainGrows
  <1>4. N = Nat
    <2>1. N \in SUBSET Nat
      OBVIOUS
    <2> HIDE DEF N
    <2> QED BY <1>2, <1>3, <2>1, HoldsAll
  <1> QED BY <1>1, <1>4

\* ORIGIN_GAP is said of just the steps with an attestation that no chain from the
\* first of its stream leads up to, or that is above such an origin: a hole or a
\* wrong link, which the code looks for one link at a time, is a missing chain.
THEOREM OriginGapsAreChains == Spec => []OriginGapsAreHoles
  <1>1. ASSUME WalkInv, OriginInv, phase = "done", NEW s \in steps
        PROVE  Gap("ORIGIN_GAP", s, {}) \in gaps <=>
                  \E o \in origins : o.step = s /\
                      \E b \in origins : b.stream = o.stream /\ b.seq <= o.seq /\ ~Rooted(b)
    <2>1. NodesTyped /\ \A b \in origins : b.seq \in Nat \ {0}
      BY <1>1, InputAssumption DEF WalkInv, NodesTyped
    <2>2. Gap("ORIGIN_GAP", s, {}) \in gaps <=> Holed(s)
      BY <1>1 DEF OriginInv
    <2>3. ASSUME NEW o \in origins
          PROVE  (\E b \in origins : b.stream = o.stream /\ b.seq <= o.seq /\ Broken(b))
                   <=> \E b \in origins : b.stream = o.stream /\ b.seq <= o.seq /\ ~Rooted(b)
      <3>1. \A b \in origins : Broken(b) => ~Rooted(b)
        BY <2>1, RootedNotBroken
      <3>2. o.seq \in Nat
        BY <2>1
      <3> QED BY <2>1, <3>1, <3>2, UnbrokenRooted
    <2>4. Holed(s) <=> \E o \in origins : o.step = s /\
                          \E b \in origins : b.stream = o.stream /\ b.seq <= o.seq /\ Broken(b)
      BY <1>1 DEF Holed, Attesting
    <2> QED BY <2>2, <2>3, <2>4
  <1>2. WalkInv /\ OriginInv => OriginGapsAreHoles
    BY <1>1 DEF OriginGapsAreHoles, Done
  <1>3. Init => OriginInv
    BY DEF Init, OriginInv
  <1> QED BY <1>2, <1>3, WalkInvHolds, OriginInvKept, PTL DEF Spec

-------------------------------------------------------------------------------
(* What comes after what. *)

LEMMA ReachSelf == \A v : Reaches(v, v)
  BY DEF Reaches

LEMMA ReachOn ==
  ASSUME NEW u, NEW v, NEW w, Reaches(u, v), Reaches(v, w)
  PROVE  Reaches(u, w)
  BY DEF Reaches

LEMMA ReachEdge == \A e \in Candidates : Reaches(e.parent, e.child)
  BY DEF Reaches

\* What leads nowhere else holds all that its steps lead to.
LEMMA ReachWithin ==
  ASSUME NEW S \in SUBSET steps, \A e \in Candidates : e.parent \in S => e.child \in S,
         NEW v \in S, NEW w, Reaches(v, w)
  PROVE  w \in S
  BY DEF Reaches

LEMMA ReachStays ==
  ASSUME UNCHANGED steps
  PROVE  \A v, w : Reaches(v, w)' = Reaches(v, w)
  BY InputFixed DEF Reaches

LEMMA ReachChild ==
  ASSUME edges = Candidates, NEW v, NEW w \in Children(v)
  PROVE  Reaches(v, w)
  <1>1. PICK e \in Candidates : e.parent = v /\ e.child = w
    BY DEF Children
  <1> QED BY <1>1, ReachEdge

-------------------------------------------------------------------------------
(* Tarjan's algorithm.  The steps being visited lead one to the next and to    *)
(* all that is above them on the stack; each step on the stack leads down to   *)
(* one being visited; and the lowest number that the edges looked at lead back *)
(* to is kept by the step being visited, or by one visited after it.           *)

\* Steps are numbered as they come, on the stack and among the visits.
NumbersRise ==
    /\ \A v \in Visited : index[v] < Cardinality(Visited)
    /\ \A i, j \in DOMAIN stack : i < j => index[stack[i]] < index[stack[j]]
    /\ \A m, n \in DOMAIN work : m < n => index[work[m].at] < index[work[n].at]

\* The edge from v to w has yet to be looked at.
Waits(v, w) == \E n \in DOMAIN work : work[n].at = v /\ w \in work[n].todo

SeenOrWaits ==
    /\ \A n \in DOMAIN work : work[n].todo \subseteq Children(work[n].at)
    /\ \A v \in Visited : \A w \in Children(v) : w \in Visited \/ Waits(v, w)

Hangs ==
    /\ \A n \in DOMAIN work : \A u \in Stacked :
          index[work[n].at] <= index[u] => Reaches(work[n].at, u)
    /\ \A u \in Stacked : \E n \in DOMAIN work :
          index[work[n].at] <= index[u] /\ Reaches(u, work[n].at)

LowLeads ==
    \A n \in DOMAIN work : \E x \in Stacked :
        index[x] = low[work[n].at] /\ Reaches(work[n].at, x)

LowCovers ==
    \A n \in DOMAIN work : \A u \in Stacked : \A w \in Children(u) \cap Stacked :
        \/ index[u] < index[work[n].at]
        \/ Waits(u, w)
        \/ \E m \in n..Len(work) : low[work[m].at] <= index[w]

\* No edge leads out of the components that are closed.
ClosedOff == \A v \in UNION components : Children(v) \subseteq UNION components

VisitInv == NumbersRise /\ SeenOrWaits /\ Hangs /\ LowLeads /\ LowCovers /\ ClosedOff

\* What an induction over the visits starts from.
LEMMA WalkFacts ==
  ASSUME WalkInv
  PROVE  /\ work \in Seq([at : steps, todo : SUBSET steps])
         /\ Len(work) \in Nat /\ DOMAIN work = 1..Len(work)
         /\ stack \in Seq(Visited) /\ Len(stack) \in Nat /\ DOMAIN stack = 1..Len(stack)
         /\ Stacked \subseteq Visited /\ Visited \subseteq steps
         /\ \A n \in DOMAIN work : work[n].at \in Stacked
         /\ \A v \in Visited : index[v] \in Nat /\ low[v] \in Nat /\ low[v] <= index[v]
         /\ IsFiniteSet(Visited) /\ Cardinality(Visited) \in Nat
  <1>1. work \in Seq([at : steps, todo : SUBSET steps]) /\ stack \in Seq(Visited)
    BY DEF WalkInv, VisitsTyped
  <1>2. /\ Len(work) \in Nat /\ DOMAIN work = 1..Len(work)
        /\ Len(stack) \in Nat /\ DOMAIN stack = 1..Len(stack)
    BY <1>1
  <1>3. IsFiniteSet(Visited) /\ Cardinality(Visited) \in Nat
    BY StepsFinite, FS_Subset, FS_CardinalityType DEF WalkInv, NumbersTyped
  <1> QED BY <1>1, <1>2, <1>3 DEF WalkInv, NumbersTyped, VisitsTyped, Apart

\* Where a step is on the stack; what is above it has no lower number.
LEMMA AboveIs ==
  ASSUME WalkInv, NumbersRise, NEW v \in Stacked
  PROVE  /\ PlaceOf(v) \in DOMAIN stack /\ stack[PlaceOf(v)] = v
         /\ Above(v) = {u \in Stacked : index[v] <= index[u]}
         /\ {stack[n] : n \in 1..(PlaceOf(v) - 1)} = {u \in Stacked : index[u] < index[v]}
  <1> DEFINE p == PlaceOf(v)
  <1>1. p \in DOMAIN stack /\ stack[p] = v
    BY DEF PlaceOf, Stacked
  <1>2. Len(stack) \in Nat /\ DOMAIN stack = 1..Len(stack)
        /\ \A n \in DOMAIN stack : stack[n] \in Stacked /\ index[stack[n]] \in Nat
    BY WalkFacts DEF Stacked
  <1>3. \A i, j \in DOMAIN stack : i < j => index[stack[i]] < index[stack[j]]
    BY DEF NumbersRise
  <1>4. Above(v) = {stack[n] : n \in p..Len(stack)}
    BY DEF Above
  <1> HIDE DEF p
  <1>5. \A n \in DOMAIN stack : n \in p..Len(stack) <=> index[v] <= index[stack[n]]
    BY <1>1, <1>2, <1>3
  <1>6. \A n \in DOMAIN stack : n \in 1..(p - 1) <=> index[stack[n]] < index[v]
    BY <1>1, <1>2, <1>3
  <1>7. p..Len(stack) \subseteq DOMAIN stack /\ 1..(p - 1) \subseteq DOMAIN stack
    BY <1>1, <1>2
  <1>8. Above(v) = {u \in Stacked : index[v] <= index[u]}
    BY <1>4, <1>5, <1>7 DEF Stacked
  <1>9. {stack[n] : n \in 1..(p - 1)} = {u \in Stacked : index[u] < index[v]}
    BY <1>6, <1>7 DEF Stacked
  <1> QED BY <1>1, <1>8, <1>9 DEF p

\* What entering a step does to the numbers.
LEMMA EnterNumbers ==
  ASSUME WalkInv, NumbersRise, UNCHANGED <<steps, components>>,
         NEW v \in steps \ Visited, Enter(v)
  PROVE  /\ Visited' = Visited \cup {v} /\ Stacked' = Stacked \cup {v}
         /\ \A u \in Visited : index'[u] = index[u] /\ low'[u] = low[u] /\ index'[u] < index'[v]
         /\ low'[v] = index'[v] /\ index'[v] \in Nat
         /\ \A u \in Visited' : index'[u] < Cardinality(Visited')
         /\ \A i, j \in DOMAIN stack' : i < j => index'[stack'[i]] < index'[stack'[j]]
  <1>1. /\ Stacked' = Stacked \cup {v}
        /\ Len(stack') = Len(stack) + 1 /\ stack'[Len(stack) + 1] = v
        /\ \A i \in DOMAIN stack : stack'[i] = stack[i]
        /\ stack' \in Seq(Visited')
    BY EnterKeeps
  <1>2. Visited' = Visited \cup {v}
    BY DEF Enter, Visited
  <1>3. /\ index'[v] = Cardinality(Visited) /\ low'[v] = Cardinality(Visited)
        /\ \A u \in Visited : index'[u] = index[u] /\ low'[u] = low[u]
    BY DEF Enter
  <1>4. /\ \A u \in Visited : index[u] \in Nat /\ index[u] < Cardinality(Visited)
        /\ Cardinality(Visited) \in Nat /\ IsFiniteSet(Visited)
    BY WalkFacts DEF NumbersRise
  <1>5. Cardinality(Visited') = Cardinality(Visited) + 1
    BY <1>2, <1>4, FS_AddElement
  <1>6. /\ Len(stack) \in Nat /\ DOMAIN stack = 1..Len(stack) /\ DOMAIN stack' = 1..(Len(stack) + 1)
        /\ \A n \in DOMAIN stack : stack[n] \in Visited
    BY <1>1, WalkFacts
  <1>7. ASSUME NEW i \in DOMAIN stack', NEW j \in DOMAIN stack', i < j
        PROVE  index'[stack'[i]] < index'[stack'[j]]
    <2>1. i \in DOMAIN stack
      BY <1>6, <1>7
    <2>2. CASE j \in DOMAIN stack
      BY <1>1, <1>3, <1>6, <1>7, <2>1, <2>2 DEF NumbersRise
    <2>3. CASE j = Len(stack) + 1
      BY <1>1, <1>3, <1>4, <1>6, <2>1, <2>3
    <2> QED BY <1>6, <2>2, <2>3
  <1>8. \A u \in Visited' : index'[u] < Cardinality(Visited')
    BY <1>2, <1>3, <1>4, <1>5
  <1> QED BY <1>1, <1>2, <1>3, <1>4, <1>7, <1>8

\* Nothing is on the stack when nothing is being visited.
LEMMA StackEmpty ==
  ASSUME Hangs, work = <<>>
  PROVE  Stacked = {}
  BY DEF Hangs

LEMMA VisitByStart == WalkInv /\ VisitInv /\ Start => VisitInv'
  <1> SUFFICES ASSUME WalkInv, VisitInv, Start PROVE VisitInv'
    OBVIOUS
  <1> USE DEF VisitInv
  <1>1. PICK v \in Nodes \ Visited : Enter(v) /\ work' = <<[at |-> v, todo |-> Children(v)]>>
    BY DEF Start
  <1>2. v \in steps /\ UNCHANGED <<steps, components, edges>>
    BY <1>1, ChildrenTyped DEF WalkInv, Start
  <1>3. Stacked = {} /\ work = <<>>
    BY StackEmpty DEF Start
  <1>4. /\ Visited' = Visited \cup {v} /\ Stacked' = {v}
        /\ \A u \in Visited : index'[u] = index[u]
        /\ low'[v] = index'[v] /\ index'[v] \in Nat
        /\ \A u \in Visited' : index'[u] < Cardinality(Visited')
        /\ \A i, j \in DOMAIN stack' : i < j => index'[stack'[i]] < index'[stack'[j]]
    BY <1>1, <1>2, <1>3, EnterNumbers
  <1>5. DOMAIN work' = {1} /\ work'[1].at = v /\ work'[1].todo = Children(v) /\ Len(work') = 1
    BY <1>1
  <1>6. \A u : Children(u)' = Children(u)
    BY <1>2 DEF Children
  <1>7. NumbersRise'
    <2>1. \A m, n \in DOMAIN work' : ~(m < n)
      BY <1>5
    <2> QED BY <1>4, <2>1 DEF NumbersRise
  <1>8. \A w \in Children(v) : Waits(v, w)'
    BY <1>5 DEF Waits
  <1>9. SeenOrWaits'
    <2>1. \A u \in Visited : \A w \in Children(u) : w \in Visited
      BY <1>3 DEF SeenOrWaits, Waits
    <2> QED BY <1>4, <1>5, <1>6, <1>8, <2>1 DEF SeenOrWaits
  <1>10. Hangs' /\ LowLeads'
    <2>1. Reaches(v, v)'
      BY <1>2, ReachSelf, ReachStays
    <2> QED BY <1>4, <1>5, <2>1 DEF Hangs, LowLeads
  <1>11. LowCovers'
    BY <1>4, <1>5, <1>6, <1>8 DEF LowCovers
  <1>12. ClosedOff'
    BY <1>2, <1>6 DEF ClosedOff
  <1> QED BY <1>7, <1>9, <1>10, <1>11, <1>12

\* The visits once an edge has been looked at.
Rest(w) == [work EXCEPT ![Len(work)].todo = @ \ {w}]

LEMMA RestIs ==
  ASSUME WalkInv, work # <<>>, NEW w, NEW L, L = Len(work)
  PROVE  /\ Rest(w) \in Seq([at : steps, todo : SUBSET steps])
         /\ L \in Nat \ {0} /\ DOMAIN work = 1..L /\ Top = work[L]
         /\ DOMAIN Rest(w) = 1..L /\ Len(Rest(w)) = L
         /\ \A n \in 1..L : Rest(w)[n].at = work[n].at
         /\ \A n \in 1..L : n # L => Rest(w)[n].todo = work[n].todo
         /\ Rest(w)[L].todo = Top.todo \ {w}
  <1> DEFINE new == [Top EXCEPT !.todo = @ \ {w}]
  <1>1. /\ work \in Seq([at : steps, todo : SUBSET steps])
        /\ L \in Nat \ {0} /\ DOMAIN work = 1..L
    BY WalkFacts
  <1>2. Top \in [at : steps, todo : SUBSET steps] /\ Top = work[L]
    BY <1>1, LastIsElement DEF Top
  <1>3. new \in [at : steps, todo : SUBSET steps] /\ new.at = Top.at /\ new.todo = Top.todo \ {w}
    BY <1>2
  <1>4. Rest(w) = [work EXCEPT ![L] = new]
    BY Zenon DEF Top, Rest
  <1> HIDE DEF new
  <1>5. Rest(w) \in Seq([at : steps, todo : SUBSET steps]) /\ Len(Rest(w)) = L
    BY <1>1, <1>3, <1>4
  <1>6. DOMAIN Rest(w) = DOMAIN work /\ Rest(w)[L] = new
        /\ \A n \in DOMAIN work : n # L => Rest(w)[n] = work[n]
    BY <1>1, <1>4
  <1> QED BY <1>1, <1>2, <1>3, <1>5, <1>6

\* The edge looked at leads to a step not yet numbered.
LEMMA VisitByEntering ==
  ASSUME WalkInv, VisitInv, edges = Candidates, work # <<>>,
         UNCHANGED <<steps, edges, components>>,
         NEW w \in Top.todo, w \notin Visited, Enter(w),
         work' = Append(Rest(w), [at |-> w, todo |-> Children(w)])
  PROVE  VisitInv'
  <1> USE DEF VisitInv
  <1>0. PICK L, v : L = Len(work) /\ v = Top.at
    OBVIOUS
  <1>1. /\ Rest(w) \in Seq([at : steps, todo : SUBSET steps])
        /\ L \in Nat \ {0} /\ DOMAIN work = 1..L /\ Top = work[L] /\ v = work[L].at
        /\ DOMAIN Rest(w) = 1..L /\ Len(Rest(w)) = L
        /\ \A n \in 1..L : Rest(w)[n].at = work[n].at
        /\ \A n \in 1..L : n # L => Rest(w)[n].todo = work[n].todo
        /\ Rest(w)[L].todo = Top.todo \ {w}
    BY <1>0, RestIs
  <1>2. /\ L \in Nat \ {0} /\ DOMAIN work = 1..L
        /\ \A n \in DOMAIN work : work[n].at \in Stacked /\ work[n].at \in Visited
        /\ Stacked \subseteq Visited
        /\ \A u \in Visited : index[u] \in Nat /\ low[u] \in Nat /\ low[u] <= index[u]
    BY <1>1, WalkFacts
  <1>3. w \in Children(v) /\ w \in steps /\ v \in Stacked
    <2>1. L \in DOMAIN work
      BY <1>1
    <2>2. work[L].todo \subseteq Children(v) /\ v \in Stacked
      BY <1>1, <1>2, <2>1 DEF SeenOrWaits
    <2>3. w \in Children(v)
      BY <1>1, <2>2
    <2> QED BY <2>2, <2>3, ChildrenTyped DEF WalkInv
  <1>4. /\ Visited' = Visited \cup {w} /\ Stacked' = Stacked \cup {w}
        /\ \A u \in Visited : index'[u] = index[u] /\ low'[u] = low[u] /\ index'[u] < index'[w]
        /\ low'[w] = index'[w] /\ index'[w] \in Nat
        /\ \A u \in Visited' : index'[u] < Cardinality(Visited')
        /\ \A i, j \in DOMAIN stack' : i < j => index'[stack'[i]] < index'[stack'[j]]
    BY <1>3, EnterNumbers
  <1>5. /\ DOMAIN work' = 1..(L + 1) /\ Len(work') = L + 1
        /\ work'[L + 1].at = w /\ work'[L + 1].todo = Children(w)
        /\ \A n \in 1..L : work'[n] = Rest(w)[n]
    <2> DEFINE new == [at |-> w, todo |-> Children(w)]
    <2>1. new \in [at : steps, todo : SUBSET steps] /\ new.at = w /\ new.todo = Children(w)
      BY <1>3, ChildrenTyped DEF WalkInv
    <2> HIDE DEF new
    <2>2. work' = Append(Rest(w), new)
      BY DEF new
    <2>3. /\ work' \in Seq([at : steps, todo : SUBSET steps])
          /\ Len(work') = L + 1
          /\ work'[L + 1] = new
          /\ \A n \in 1..L : work'[n] = Rest(w)[n]
      BY ONLY <1>1, <2>1, <2>2, AppendIsSeq
    <2> QED BY <1>1, <2>1, <2>3
  <1>6. /\ \A u : Children(u)' = Children(u)
        /\ \A u, x : Reaches(u, x)' = Reaches(u, x)
    BY ReachStays DEF Children
  <1>7. \A n \in 1..L : work'[n].at = work[n].at /\ index'[work[n].at] = index[work[n].at]
                        /\ low'[work[n].at] = low[work[n].at]
    BY <1>1, <1>2, <1>4, <1>5
  <1>8. \A u, x : Waits(u, x) /\ x # w => Waits(u, x)'
    <2> SUFFICES ASSUME NEW u, NEW x, x # w, NEW n \in DOMAIN work, work[n].at = u, x \in work[n].todo
                 PROVE  work'[n].at = u /\ x \in work'[n].todo /\ n \in DOMAIN work'
      BY DEF Waits
    <2> QED BY <1>1, <1>2, <1>5, <1>7 DEF Top
  <1>9. \A x \in Children(w) : Waits(w, x)'
    BY <1>2, <1>5 DEF Waits
  <1>10. NumbersRise'
    <2>1. ASSUME NEW m \in DOMAIN work', NEW n \in DOMAIN work', m < n
          PROVE  index'[work'[m].at] < index'[work'[n].at]
      <3>1. m \in 1..L
        BY <1>2, <1>5, <2>1
      <3>2. CASE n \in 1..L
        BY <1>2, <1>7, <2>1, <3>1, <3>2 DEF NumbersRise
      <3>3. CASE n = L + 1
        BY <1>2, <1>4, <1>5, <1>7, <3>1, <3>3
      <3> QED BY <1>2, <1>5, <3>2, <3>3
    <2> QED BY <1>4, <2>1 DEF NumbersRise
  <1>11. SeenOrWaits'
    <2>1. ASSUME NEW n \in DOMAIN work' PROVE work'[n].todo \subseteq Children(work'[n].at)
      <3>1. CASE n = L + 1
        BY <1>5, <1>6, <3>1
      <3>2. CASE n \in 1..L
        <4>1. work[n].todo \subseteq Children(work[n].at)
          BY <1>2, <3>2 DEF SeenOrWaits
        <4>2. work'[n].todo \subseteq work[n].todo
          BY <1>1, <1>5, <3>2
        <4> QED BY <1>7, <3>2, <4>1, <4>2
      <3> QED BY <1>2, <1>5, <3>1, <3>2
    <2>2. ASSUME NEW u \in Visited', NEW x \in Children(u)' PROVE x \in Visited' \/ Waits(u, x)'
      <3>1. CASE u = w
        BY <1>6, <1>9, <3>1
      <3>2. CASE u \in Visited
        BY <1>4, <1>6, <1>8, <3>2 DEF SeenOrWaits
      <3> QED BY <1>4, <3>1, <3>2
    <2> QED BY <1>6, <2>1, <2>2 DEF SeenOrWaits
  <1>12. \A n \in 1..L : Reaches(work[n].at, w)
    <2> TAKE n \in 1..L
    <2>1. index[work[n].at] <= index[v]
      <3>1. n = L \/ n < L
        BY <1>1
      <3>2. n < L => index[work[n].at] < index[work[L].at]
        BY <1>1, <1>2 DEF NumbersRise
      <3> QED BY <1>1, <1>2, <3>1, <3>2
    <2>2. Reaches(work[n].at, v)
      BY <1>2, <1>3, <2>1 DEF Hangs
    <2>3. Reaches(v, w)
      BY <1>3, ReachChild
    <2> QED BY <2>2, <2>3, ReachOn
  <1>13. Hangs'
    <2>1. ASSUME NEW n \in DOMAIN work', NEW u \in Stacked', index'[work'[n].at] <= index'[u]
          PROVE  Reaches(work'[n].at, u)
      <3>1. CASE n = L + 1
        <4>1. u = w
          BY <1>2, <1>4, <1>5, <2>1, <3>1
        <4> QED BY <1>5, <3>1, <4>1, ReachSelf
      <3>2. CASE n \in 1..L /\ u = w
        BY <1>7, <1>12, <3>2
      <3>3. CASE n \in 1..L /\ u \in Stacked
        <4>1. index[work[n].at] <= index[u]
          BY <1>2, <1>4, <1>7, <2>1, <3>3
        <4> QED BY <1>2, <1>7, <3>3, <4>1 DEF Hangs
      <3> QED BY <1>2, <1>4, <1>5, <3>1, <3>2, <3>3
    <2>2. ASSUME NEW u \in Stacked'
          PROVE  \E n \in DOMAIN work' : index'[work'[n].at] <= index'[u] /\ Reaches(u, work'[n].at)
      <3>1. CASE u = w
        <4>1. L + 1 \in DOMAIN work' /\ work'[L + 1].at = u /\ index'[u] <= index'[u]
          BY <1>2, <1>4, <1>5, <3>1
        <4> QED BY <4>1, ReachSelf
      <3>2. CASE u \in Stacked
        <4>1. PICK n \in DOMAIN work : index[work[n].at] <= index[u] /\ Reaches(u, work[n].at)
          BY <3>2 DEF Hangs
        <4>2. n \in DOMAIN work' /\ work'[n].at = work[n].at
              /\ index'[work[n].at] = index[work[n].at] /\ index'[u] = index[u]
          BY <1>2, <1>4, <1>5, <1>7, <3>2
        <4> QED BY <4>1, <4>2
      <3> QED BY <1>4, <3>1, <3>2
    <2> QED BY <1>6, <2>1, <2>2 DEF Hangs
  <1>14. LowLeads'
    <2>1. ASSUME NEW n \in DOMAIN work'
          PROVE  \E x \in Stacked' : index'[x] = low'[work'[n].at] /\ Reaches(work'[n].at, x)
      <3>1. CASE n = L + 1
        BY <1>4, <1>5, <3>1, ReachSelf
      <3>2. CASE n \in 1..L
        <4>1. PICK x \in Stacked : index[x] = low[work[n].at] /\ Reaches(work[n].at, x)
          BY <1>2, <3>2 DEF LowLeads
        <4> QED BY <1>2, <1>4, <1>7, <3>2, <4>1
      <3> QED BY <1>2, <1>5, <3>1, <3>2
    <2> QED BY <1>6, <2>1 DEF LowLeads
  <1>15. LowCovers'
    <2>1. ASSUME NEW n \in DOMAIN work', NEW u \in Stacked', NEW x \in Children(u) \cap Stacked'
          PROVE  \/ index'[u] < index'[work'[n].at]
                 \/ Waits(u, x)'
                 \/ \E m \in n..(L + 1) : low'[work'[m].at] <= index'[x]
      <3>1. CASE u = w
        BY <1>9, <3>1
      <3>2. CASE u \in Stacked /\ n = L + 1
        BY <1>2, <1>4, <1>5, <3>2
      <3>3. CASE u \in Stacked /\ n \in 1..L /\ x = w
        <4>1. low[work[n].at] \in Nat /\ low[work[n].at] <= index[work[n].at]
              /\ index[work[n].at] < index'[w]
          BY <1>2, <1>4, <1>7, <3>3
        <4>2. low'[work'[n].at] <= index'[x] /\ n \in n..(L + 1)
          <5>1. low'[work'[n].at] = low[work[n].at] /\ index'[w] \in Nat
            BY <1>2, <1>4, <1>7, <3>3
          <5>2. index[work[n].at] \in Nat
            BY <1>2, <3>3
          <5>3. n \in n..(L + 1)
            BY <1>1, <3>3
          <5> QED BY ONLY <3>3, <4>1, <5>1, <5>2, <5>3
        <4> QED BY <4>2
      <3>4. CASE u \in Stacked /\ n \in 1..L /\ x \in Stacked
        <4>1. x # w /\ index'[u] = index[u] /\ index'[x] = index[x]
          BY <1>2, <1>4, <3>4
        <4>2. \/ index[u] < index[work[n].at]
              \/ Waits(u, x)
              \/ \E m \in n..L : low[work[m].at] <= index[x]
          BY <1>2, <3>4 DEF LowCovers
        <4>3. ASSUME NEW m \in n..L, low[work[m].at] <= index[x]
              PROVE  m \in n..(L + 1) /\ low'[work'[m].at] <= index'[x]
          <5>1. m \in 1..L /\ m \in n..(L + 1)
            BY <1>1, <3>4
          <5> QED BY <1>7, <4>1, <4>3, <5>1
        <4> QED BY <1>7, <1>8, <3>4, <4>1, <4>2, <4>3
      <3> QED BY <1>2, <1>4, <1>5, <3>1, <3>2, <3>3, <3>4
    <2> QED BY <1>5, <1>6, <2>1 DEF LowCovers
  <1>16. ClosedOff'
    BY <1>6 DEF ClosedOff
  <1> QED BY <1>10, <1>11, <1>13, <1>14, <1>15, <1>16

\* The edge looked at leads to a step with a number: the lowest number counts when
\* that step is still on the stack.
LEMMA VisitByLooking ==
  ASSUME WalkInv, VisitInv, edges = Candidates, work # <<>>,
         UNCHANGED <<steps, edges, components, index, stack>>,
         NEW w \in Top.todo, w \in Visited,
         work' = Rest(w),
         \/ w \in Stacked /\ LoweredTo(Top.at, index[w])
         \/ w \notin Stacked /\ low' = low
  PROVE  VisitInv'
  <1> USE DEF VisitInv
  <1>0. PICK L, v : L = Len(work) /\ v = Top.at
    OBVIOUS
  <1>1. /\ L \in Nat \ {0} /\ DOMAIN work = 1..L /\ Top = work[L] /\ v = work[L].at
        /\ DOMAIN work' = 1..L /\ Len(work') = L
        /\ \A n \in 1..L : work'[n].at = work[n].at
        /\ \A n \in 1..L : n # L => work'[n].todo = work[n].todo
        /\ work'[L].todo = Top.todo \ {w}
    <2>1. /\ L \in Nat \ {0} /\ DOMAIN work = 1..L /\ Top = work[L]
          /\ DOMAIN Rest(w) = 1..L /\ Len(Rest(w)) = L
          /\ \A n \in 1..L : Rest(w)[n].at = work[n].at
          /\ \A n \in 1..L : n # L => Rest(w)[n].todo = work[n].todo
          /\ Rest(w)[L].todo = Top.todo \ {w}
      BY <1>0, RestIs
    <2> QED BY <1>0, <2>1
  <1>2. /\ L \in Nat \ {0} /\ DOMAIN work = 1..L
        /\ \A n \in DOMAIN work : work[n].at \in Stacked /\ work[n].at \in Visited
        /\ Stacked \subseteq Visited
        /\ low \in [Visited -> Nat]
        /\ \A u \in Visited : index[u] \in Nat /\ low[u] \in Nat /\ low[u] <= index[u]
    BY <1>1, WalkFacts DEF WalkInv, NumbersTyped
  <1>3. w \in Children(v) /\ v \in Stacked /\ v \in Visited
    <2>1. L \in DOMAIN work
      BY <1>1
    <2>2. work[L].todo \subseteq Children(v) /\ v \in Stacked
      BY <1>1, <1>2, <2>1 DEF SeenOrWaits
    <2> QED BY <1>1, <1>2, <2>2
  <1>4. /\ Visited' = Visited /\ Stacked' = Stacked
        /\ \A u : Children(u)' = Children(u)
        /\ \A u, x : Reaches(u, x)' = Reaches(u, x)
    BY ReachStays DEF Children, Visited, Stacked
  <1>5. /\ \A u \in Visited : u # v => low'[u] = low[u]
        /\ w \in Stacked => low'[v] = IF index[w] < low[v] THEN index[w] ELSE low[v]
        /\ w \notin Stacked => low'[v] = low[v]
    BY <1>0, <1>2, <1>3 DEF LoweredTo
  <1>6. \A u \in Visited : low'[u] \in Nat /\ low'[u] <= low[u]
    BY <1>2, <1>3, <1>5
  <1>7. \A u, x : Waits(u, x) => Waits(u, x)' \/ (u = v /\ x = w)
    <2> SUFFICES ASSUME NEW u, NEW x, NEW n \in DOMAIN work, work[n].at = u, x \in work[n].todo
                 PROVE  (work'[n].at = u /\ x \in work'[n].todo) \/ (u = v /\ x = w)
      BY <1>1 DEF Waits
    <2> QED BY <1>1
  <1>8. NumbersRise'
    BY <1>1, <1>4 DEF NumbersRise
  <1>9. SeenOrWaits'
    <2>1. \A n \in DOMAIN work' : work'[n].todo \subseteq Children(work'[n].at)
      BY <1>1 DEF SeenOrWaits, Top
    <2> QED BY <1>1, <1>4, <1>7, <2>1 DEF SeenOrWaits
  <1>10. Hangs'
    BY <1>1, <1>4 DEF Hangs
  <1>11. LowLeads'
    <2>1. ASSUME NEW n \in DOMAIN work
          PROVE  \E x \in Stacked : index[x] = low'[work[n].at] /\ Reaches(work[n].at, x)
      <3>1. PICK x \in Stacked : index[x] = low[work[n].at] /\ Reaches(work[n].at, x)
        BY DEF LowLeads
      <3>2. CASE low'[work[n].at] = low[work[n].at]
        BY <3>1, <3>2
      <3>3. CASE low'[work[n].at] # low[work[n].at]
        <4>1. work[n].at = v /\ w \in Stacked /\ low'[v] = index[w]
          BY <1>2, <1>5, <3>3
        <4> QED BY <1>3, <4>1, ReachChild
      <3> QED BY <3>2, <3>3
    <2> QED BY <1>1, <1>4, <2>1 DEF LowLeads
  <1>12. LowCovers'
    <2>1. ASSUME NEW n \in DOMAIN work, NEW u \in Stacked, NEW x \in Children(u) \cap Stacked
          PROVE  \/ index[u] < index[work[n].at]
                 \/ Waits(u, x)'
                 \/ \E m \in n..L : low'[work[m].at] <= index[x]
      <3>1. ASSUME NEW m \in n..L, low[work[m].at] <= index[x] PROVE low'[work[m].at] <= index[x]
        <4>1. work[m].at \in Visited /\ x \in Visited
          BY <1>2
        <4> QED BY <1>2, <1>6, <3>1, <4>1
      <3>2. CASE u = v /\ x = w
        <4>1. low'[v] <= index[x]
          BY <1>2, <1>3, <1>5, <3>2
        <4>2. L \in n..L /\ work[L].at = v
          BY <1>1
        <4> QED BY <4>1, <4>2
      <3>3. CASE ~(u = v /\ x = w)
        <4>1. \/ index[u] < index[work[n].at]
              \/ Waits(u, x)
              \/ \E m \in n..L : low[work[m].at] <= index[x]
          BY <1>0 DEF LowCovers
        <4> QED BY <1>7, <3>1, <3>3, <4>1
      <3> QED BY <3>2, <3>3
    <2>2. \A n \in DOMAIN work : \A m \in n..L : work'[m].at = work[m].at
      BY <1>1, <1>2
    <2> QED BY <1>1, <1>4, <2>1, <2>2 DEF LowCovers
  <1>13. ClosedOff'
    BY <1>4 DEF ClosedOff
  <1> QED BY <1>8, <1>9, <1>10, <1>11, <1>12, <1>13

LEMMA VisitByLook == WalkInv /\ VisitInv /\ edges = Candidates /\ Look => VisitInv'
  <1> SUFFICES ASSUME WalkInv, VisitInv, edges = Candidates, Look PROVE VisitInv'
    OBVIOUS
  <1>1. work # <<>> /\ UNCHANGED <<steps, edges, components>>
    BY DEF Look
  <1>2. PICK w \in Top.todo :
            \/ /\ w \notin Visited
               /\ Enter(w)
               /\ work' = Append(Rest(w), [at |-> w, todo |-> Children(w)])
            \/ /\ w \in Visited
               /\ w \in Stacked /\ LoweredTo(Top.at, index[w])
               /\ work' = Rest(w) /\ UNCHANGED <<index, stack>>
            \/ /\ w \in Visited
               /\ w \notin Stacked /\ low' = low
               /\ work' = Rest(w) /\ UNCHANGED <<index, stack>>
    BY DEF Look, LeadsBack, Rest
  <1> QED BY <1>1, <1>2, VisitByEntering, VisitByLooking

\* A visit that ends below the number of its step leaves it to the step before.
LEMMA VisitByLeading ==
  ASSUME WalkInv, VisitInv, work # <<>>, Top.todo = {},
         UNCHANGED <<steps, edges, components, index, stack>>,
         work' = SubSeq(work, 1, Len(work) - 1),
         Len(work) > 1 => LoweredTo(work[Len(work) - 1].at, low[Top.at]),
         low[Top.at] # index[Top.at]
  PROVE  VisitInv'
  <1> USE DEF VisitInv
  <1>0. PICK L, v : L = Len(work) /\ v = Top.at
    OBVIOUS
  <1>1. /\ L \in Nat \ {0} /\ DOMAIN work = 1..L /\ Top = work[L] /\ v = work[L].at
        /\ DOMAIN work' = 1..(L - 1) /\ Len(work') = L - 1
        /\ \A n \in 1..(L - 1) : work'[n] = work[n]
    <2>1. work \in Seq([at : steps, todo : SUBSET steps]) /\ L \in Nat \ {0} /\ DOMAIN work = 1..L
      BY <1>0, WalkFacts
    <2>2. L - 1 \in 0..Len(work) /\ work' = SubSeq(work, 1, L - 1)
      BY <1>0, <2>1
    <2>3. /\ Len(work') = L - 1 /\ DOMAIN work' = 1..(L - 1)
          /\ \A n \in 1..(L - 1) : work'[n] = work[n]
      BY ONLY <2>1, <2>2, FrontIsSeq
    <2> QED BY <1>0, <2>1, <2>3 DEF Top
  <1>2. /\ \A n \in 1..L : work[n].at \in Stacked /\ work[n].at \in Visited
        /\ Stacked \subseteq Visited
        /\ low \in [Visited -> Nat]
        /\ \A u \in Visited : index[u] \in Nat /\ low[u] \in Nat /\ low[u] <= index[u]
    BY <1>1, WalkFacts DEF WalkInv, NumbersTyped
  <1>3. \A n \in 1..(L - 1) : n \in 1..L /\ index[work[n].at] < index[v]
    <2> TAKE n \in 1..(L - 1)
    <2>1. n \in 1..L /\ L \in 1..L /\ n < L
      BY <1>1
    <2>2. index[work[n].at] < index[work[L].at]
      BY <1>1, <2>1 DEF NumbersRise
    <2> QED BY <1>1, <2>1, <2>2
  <1>4. v \in Stacked /\ v \in Visited /\ L \in 1..L
    BY <1>1, <1>2
  <1>5. low[v] < index[v]
    <2>1. low[v] # index[v]
      BY <1>0
    <2> QED BY <1>2, <1>4, <2>1
  \* v leads to a lower step, and that to one being visited before v.
  <1>6. PICK x \in Stacked : index[x] = low[v] /\ Reaches(v, x)
    BY <1>1, <1>4 DEF LowLeads
  <1>7. PICK k \in 1..L : index[work[k].at] <= index[x] /\ Reaches(x, work[k].at)
    BY <1>1, <1>6 DEF Hangs
  <1>8. k \in 1..(L - 1) /\ index[work[k].at] < index[v] /\ L > 1
    <2>1. index[work[k].at] \in Nat /\ index[x] \in Nat /\ index[v] \in Nat
      BY <1>2, <1>4
    <2>2. index[work[k].at] < index[v]
      BY <1>5, <1>6, <1>7, <2>1
    <2>3. k # L
      BY <1>1, <2>1, <2>2
    <2> QED BY <1>1, <2>2, <2>3
  <1>9. PICK p : p = work[L - 1].at
    OBVIOUS
  <1>10. L - 1 \in 1..(L - 1) /\ L - 1 \in 1..L /\ p \in Visited /\ p \in Stacked /\ index[p] < index[v]
    BY <1>1, <1>2, <1>3, <1>8, <1>9
  <1>11. /\ low'[p] = IF low[v] < low[p] THEN low[v] ELSE low[p]
         /\ \A u \in Visited : u # p => low'[u] = low[u]
    <2>1. LoweredTo(p, low[v])
      BY <1>0, <1>8, <1>9
    <2> QED BY <1>2, <1>10, <2>1 DEF LoweredTo
  <1>12. low'[p] <= low[v] /\ \A u \in Visited : low'[u] \in Nat /\ low'[u] <= low[u]
    BY <1>2, <1>4, <1>10, <1>11
  <1>13. /\ Visited' = Visited /\ Stacked' = Stacked
         /\ \A u : Children(u)' = Children(u)
         /\ \A u, y : Reaches(u, y)' = Reaches(u, y)
    BY ReachStays DEF Children, Visited, Stacked
  <1>14. \A u, y : Waits(u, y) => Waits(u, y)'
    <2> SUFFICES ASSUME NEW u, NEW y, Waits(u, y) PROVE Waits(u, y)'
      OBVIOUS
    <2>1. PICK n \in 1..L : work[n].at = u /\ y \in work[n].todo
      BY <1>1 DEF Waits
    <2>2. n \in 1..(L - 1)
      BY <1>1, <2>1
    <2>3. n \in DOMAIN work' /\ work'[n].at = u /\ y \in work'[n].todo
      BY <1>1, <2>1, <2>2
    <2> QED BY <2>3 DEF Waits
  <1>15. NumbersRise'
    <2>1. \A m, n \in 1..(L - 1) : m < n => index[work[m].at] < index[work[n].at]
      <3>1. NumbersRise /\ DOMAIN work = 1..L /\ L \in Nat
        BY <1>1
      <3>2. ASSUME NEW m \in 1..(L - 1), NEW n \in 1..(L - 1) PROVE m \in 1..L /\ n \in 1..L
        BY <3>1
      <3> QED BY ONLY <3>1, <3>2 DEF NumbersRise
    <2>2. \A m, n \in DOMAIN work' : m < n => index'[work'[m].at] < index'[work'[n].at]
      BY <1>1, <2>1
    <2> QED BY <1>13, <2>2 DEF NumbersRise
  <1>16. SeenOrWaits'
    <2>1. \A n \in DOMAIN work' : work'[n].todo \subseteq Children(work'[n].at)
      BY <1>1, <1>3 DEF SeenOrWaits
    <2> QED BY <1>13, <1>14, <2>1 DEF SeenOrWaits
  <1>17. Hangs'
    <2>1. \A n \in 1..(L - 1) : \A u \in Stacked :
              index[work[n].at] <= index[u] => Reaches(work[n].at, u)
      BY <1>1, <1>3 DEF Hangs
    <2>2. ASSUME NEW u \in Stacked
          PROVE  \E n \in 1..(L - 1) : index[work[n].at] <= index[u] /\ Reaches(u, work[n].at)
      <3>1. PICK n \in 1..L : index[work[n].at] <= index[u] /\ Reaches(u, work[n].at)
        BY <1>1 DEF Hangs
      <3>2. CASE n \in 1..(L - 1)
        BY <3>1, <3>2
      <3>3. CASE n = L
        <4>1. index[work[k].at] <= index[u]
          <5>1. index[v] <= index[u]
            BY <1>1, <3>1, <3>3
          <5> QED BY <1>2, <1>4, <1>8, <5>1
        <4>2. Reaches(u, v)
          BY <1>1, <3>1, <3>3
        <4>3. Reaches(u, work[k].at)
          BY <1>6, <1>7, <4>2, ReachOn
        <4> QED BY <1>8, <4>1, <4>3
      <3> QED BY <1>1, <3>2, <3>3
    <2>3. \A n \in DOMAIN work' : \A u \in Stacked' :
              index'[work'[n].at] <= index'[u] => Reaches(work'[n].at, u)
      BY <1>1, <1>13, <2>1
    <2>4. \A u \in Stacked' : \E n \in DOMAIN work' :
              index'[work'[n].at] <= index'[u] /\ Reaches(u, work'[n].at)
      BY <1>1, <1>13, <2>2
    <2> QED BY <1>13, <2>3, <2>4 DEF Hangs
  <1>18. LowLeads'
    <2>1. ASSUME NEW n \in 1..(L - 1)
          PROVE  \E y \in Stacked : index[y] = low'[work[n].at] /\ Reaches(work[n].at, y)
      <3>1. CASE low'[work[n].at] = low[work[n].at]
        BY <1>1, <1>3, <3>1 DEF LowLeads
      <3>2. CASE low'[work[n].at] # low[work[n].at]
        <4>1. work[n].at = p /\ low'[p] = low[v]
          BY <1>2, <1>3, <1>11, <3>2
        <4>2. Reaches(p, v)
          <5>1. index[p] <= index[v]
            BY <1>2, <1>4, <1>10
          <5> QED BY <1>1, <1>4, <1>9, <1>10, <5>1 DEF Hangs
        <4>3. Reaches(p, x)
          BY <1>6, <4>2, ReachOn
        <4> QED BY <1>6, <4>1, <4>3
      <3> QED BY <3>1, <3>2
    <2> QED BY <1>1, <1>13, <2>1 DEF LowLeads
  <1>19. LowCovers'
    <2>1. ASSUME NEW n \in 1..(L - 1), NEW u \in Stacked, NEW y \in Children(u) \cap Stacked
          PROVE  \/ index[u] < index[work[n].at]
                 \/ Waits(u, y)'
                 \/ \E m \in n..(L - 1) : low'[work[m].at] <= index[y]
      <3>1. \/ index[u] < index[work[n].at]
            \/ Waits(u, y)
            \/ \E m \in n..L : low[work[m].at] <= index[y]
        BY <1>0, <1>1, <1>3 DEF LowCovers
      <3>2. ASSUME NEW m \in n..L, low[work[m].at] <= index[y]
            PROVE  \E j \in n..(L - 1) : low'[work[j].at] <= index[y]
        <4>1. index[y] \in Nat
          BY <1>2
        <4>2. CASE m = L
          <5>1. low'[p] <= index[y]
            BY <1>1, <1>2, <1>4, <1>10, <1>12, <3>2, <4>1, <4>2
          <5> QED BY <1>1, <1>9, <5>1
        <4>3. CASE m \in n..(L - 1)
          <5>1. PICK a \in Visited : a = work[m].at
            BY <1>1, <1>2, <4>3
          <5>2. low'[a] \in Nat /\ low[a] \in Nat /\ low'[a] <= low[a] /\ low[a] <= index[y]
            BY <1>2, <1>12, <3>2, <5>1
          <5>3. low'[a] <= index[y]
            BY <4>1, <5>2
          <5> QED BY <4>3, <5>1, <5>3
        <4> QED BY <1>1, <4>2, <4>3
      <3> QED BY <1>14, <3>1, <3>2
    <2>2. \A n \in 1..(L - 1) : \A m \in n..(L - 1) : work'[m].at = work[m].at
      BY <1>1
    <2>3. ASSUME NEW n \in DOMAIN work', NEW u \in Stacked', NEW y \in Children(u)' \cap Stacked'
          PROVE  \/ index'[u] < index'[work'[n].at]
                 \/ Waits(u, y)'
                 \/ \E m \in n..Len(work') : low'[work'[m].at] <= index'[y]
      <3>1. n \in 1..(L - 1) /\ work'[n].at = work[n].at
        BY <1>1
      <3>2. u \in Stacked /\ y \in Children(u) \cap Stacked
        BY <1>13
      <3>3. \/ index[u] < index[work[n].at]
            \/ Waits(u, y)'
            \/ \E m \in n..(L - 1) : low'[work[m].at] <= index[y]
        BY <2>1, <3>1, <3>2
      <3>4. index' = index /\ Len(work') = L - 1
        BY <1>1
      <3>5. \A m \in n..(L - 1) : work'[m].at = work[m].at
        BY <2>2, <3>1
      <3> QED BY <3>1, <3>3, <3>4, <3>5
    <2> QED BY <2>3 DEF LowCovers
  <1>20. ClosedOff'
    BY <1>13 DEF ClosedOff
  <1> QED BY <1>15, <1>16, <1>17, <1>18, <1>19, <1>20

-------------------------------------------------------------------------------
(* Components. *)

\* The steps of C lead to one another, and to and from no other step.
IsClass(C) ==
    /\ C # {} /\ C \subseteq steps
    /\ \A v \in C : \A w \in steps : w \in C <=> Reaches(v, w) /\ Reaches(w, v)

LEMMA ClassStays ==
  ASSUME UNCHANGED steps
  PROVE  \A C : IsClass(C)' = IsClass(C)
  BY ReachStays DEF IsClass

\* What is closed when a visit ends at its step's number is a class.
LEMMA ClosedIsClass ==
  ASSUME WalkInv, VisitInv, edges = Candidates, work # <<>>, Top.todo = {},
         low[Top.at] = index[Top.at]
  PROVE  /\ IsClass(Above(Top.at)) /\ Top.at \in Above(Top.at)
         /\ \A u \in Above(Top.at) : Children(u) \subseteq Above(Top.at) \cup UNION components
  <1> USE DEF VisitInv
  <1>0. PICK L, v, A, U : L = Len(work) /\ v = Top.at /\ A = Above(v) /\ U = UNION components
    OBVIOUS
  <1>1. /\ L \in Nat \ {0} /\ DOMAIN work = 1..L /\ Top = work[L] /\ v = work[L].at /\ L \in 1..L
    <2>1. work \in Seq([at : steps, todo : SUBSET steps]) /\ L \in Nat \ {0} /\ DOMAIN work = 1..L
      BY <1>0, WalkFacts
    <2> QED BY <1>0, <2>1 DEF Top
  <1>2. /\ \A n \in 1..L : work[n].at \in Stacked /\ work[n].at \in Visited
        /\ Stacked \subseteq Visited /\ Visited \subseteq steps
        /\ \A u \in Visited : index[u] \in Nat
        /\ v \in Stacked
    BY <1>1, WalkFacts
  <1>3. A = {u \in Stacked : index[v] <= index[u]}
    BY <1>0, <1>2, AboveIs
  <1>4. v \in A /\ A \subseteq steps
    BY <1>2, <1>3
  <1>5. \A n \in 1..L : index[work[n].at] <= index[v] /\ (n # L => index[work[n].at] < index[v])
    <2> TAKE n \in 1..L
    <2>1. n = L \/ n < L
      BY <1>1
    <2>2. n < L => index[work[n].at] < index[v]
      BY <1>1 DEF NumbersRise
    <2> QED BY <1>1, <1>2, <2>1, <2>2
  <1>6. ASSUME NEW u \in A PROVE Reaches(v, u) /\ Reaches(u, v)
    <2>1. Reaches(v, u)
      BY <1>1, <1>3 DEF Hangs
    <2>2. PICK n \in 1..L : Reaches(u, work[n].at)
      BY <1>1, <1>3 DEF Hangs
    <2>3. Reaches(work[n].at, v)
      BY <1>1, <1>2, <1>5 DEF Hangs
    <2> QED BY <2>1, <2>2, <2>3, ReachOn
  <1>7. ASSUME NEW u \in A, NEW x \in Children(u) PROVE x \in A \cup U
    <2>1. u \in Stacked /\ u \in Visited /\ index[v] <= index[u]
      BY <1>2, <1>3
    <2>2. ~Waits(u, x)
      <3> SUFFICES ASSUME NEW n \in 1..L, work[n].at = u, x \in work[n].todo PROVE FALSE
        BY <1>1 DEF Waits
      <3>1. n # L
        BY <1>1
      <3>2. index[u] < index[v]
        BY <1>5, <3>1
      <3> QED BY <1>2, <2>1, <3>2
    <2>3. x \in Visited
      BY <2>1, <2>2 DEF SeenOrWaits
    <2>4. x \in Stacked \/ x \in U
      BY <1>0, <2>3 DEF WalkInv, Apart
    <2>5. ASSUME x \in Stacked PROVE index[v] <= index[x]
      <3>1. \/ index[u] < index[work[L].at]
            \/ \E m \in L..Len(work) : low[work[m].at] <= index[x]
        BY <1>1, <2>1, <2>2, <2>5 DEF LowCovers
      <3>2. ~(index[u] < index[v])
        BY <1>2, <2>1
      <3>3. PICK m \in L..L : low[work[m].at] <= index[x]
        BY <1>0, <1>1, <3>1, <3>2
      <3>4. m = L
        BY <1>1
      <3> QED BY <1>0, <1>1, <3>3, <3>4
    <2> QED BY <1>3, <2>4, <2>5
  <1>8. \A u \in U : Children(u) \subseteq U
    BY <1>0 DEF ClosedOff
  <1>9. U \subseteq steps /\ A \cap U = {}
    <2>1. U \subseteq Visited /\ Stacked \cap U = {}
      BY <1>0 DEF WalkInv, Apart
    <2> QED BY <1>2, <1>3, <2>1
  <1>10. \A e \in Candidates : e.child \in Children(e.parent)
    BY DEF Children
  <1>11. ASSUME NEW a \in A, NEW w \in steps PROVE w \in A <=> Reaches(a, w) /\ Reaches(w, a)
    <2>1. ASSUME w \in A PROVE Reaches(a, w) /\ Reaches(w, a)
      BY <1>6, <2>1, ReachOn
    <2>2. ASSUME Reaches(a, w), Reaches(w, a) PROVE w \in A
      <3>1. w \in A \cup U
        <4>1. A \cup U \in SUBSET steps
          BY <1>4, <1>9
        <4>2. \A e \in Candidates : e.parent \in A \cup U => e.child \in A \cup U
          BY <1>7, <1>8, <1>10
        <4>3. a \in A \cup U
          OBVIOUS
        <4> QED BY <2>2, <4>1, <4>2, <4>3, ReachWithin
      <3>2. w \notin U
        <4> SUFFICES ASSUME w \in U PROVE FALSE
          OBVIOUS
        <4>1. U \in SUBSET steps
          BY <1>9
        <4>2. \A e \in Candidates : e.parent \in U => e.child \in U
          BY <1>8, <1>10
        <4>3. a \in U
          BY <2>2, <4>1, <4>2, ReachWithin
        <4> QED BY <1>9, <4>3
      <3> QED BY <3>1, <3>2
    <2> QED BY <2>1, <2>2
  <1>12. IsClass(A)
    BY <1>4, <1>11 DEF IsClass
  <1>13. \A u \in A : Children(u) \subseteq A \cup U
    BY <1>7
  <1>14. A = Above(Top.at)
    BY <1>0
  <1> QED BY <1>0, <1>4, <1>12, <1>13, <1>14

\* A visit that ends at the number of its step closes a component.
LEMMA VisitByClosing ==
  ASSUME WalkInv, VisitInv, edges = Candidates, work # <<>>, Top.todo = {},
         UNCHANGED <<steps, edges, index>>,
         work' = SubSeq(work, 1, Len(work) - 1),
         Len(work) > 1 => LoweredTo(work[Len(work) - 1].at, low[Top.at]),
         Len(work) <= 1 => low' = low,
         low[Top.at] = index[Top.at], Close(Top.at)
  PROVE  VisitInv'
  <1> USE DEF VisitInv
  <1>0. PICK L, v : L = Len(work) /\ v = Top.at
    OBVIOUS
  <1>1. /\ L \in Nat \ {0} /\ DOMAIN work = 1..L /\ Top = work[L] /\ v = work[L].at
        /\ DOMAIN work' = 1..(L - 1) /\ Len(work') = L - 1
        /\ \A n \in 1..(L - 1) : work'[n] = work[n]
    <2>1. work \in Seq([at : steps, todo : SUBSET steps]) /\ L \in Nat \ {0} /\ DOMAIN work = 1..L
      BY <1>0, WalkFacts
    <2>2. L - 1 \in 0..Len(work) /\ work' = SubSeq(work, 1, L - 1)
      BY <1>0, <2>1
    <2>3. /\ Len(work') = L - 1 /\ DOMAIN work' = 1..(L - 1)
          /\ \A n \in 1..(L - 1) : work'[n] = work[n]
      BY ONLY <2>1, <2>2, FrontIsSeq
    <2> QED BY <1>0, <2>1, <2>3 DEF Top
  <1>2. /\ \A n \in 1..L : work[n].at \in Stacked /\ work[n].at \in Visited
        /\ Stacked \subseteq Visited
        /\ low \in [Visited -> Nat]
        /\ \A u \in Visited : index[u] \in Nat /\ low[u] \in Nat /\ low[u] <= index[u]
    BY <1>1, WalkFacts DEF WalkInv, NumbersTyped
  <1>3. \A n \in 1..(L - 1) : n \in 1..L /\ index[work[n].at] < index[v]
    <2> TAKE n \in 1..(L - 1)
    <2>1. n \in 1..L /\ L \in 1..L /\ n < L
      BY <1>1
    <2>2. index[work[n].at] < index[work[L].at]
      BY <1>1, <2>1 DEF NumbersRise
    <2> QED BY <1>1, <2>1, <2>2
  <1>4. v \in Stacked /\ v \in Visited /\ L \in 1..L /\ low[v] = index[v]
    BY <1>0, <1>1, <1>2
  \* The step before v has a lower number, so what v led back to changes nothing.
  <1>5. low' = low
    <2>1. CASE L > 1
      <3>1. PICK p : p = work[L - 1].at
        OBVIOUS
      <3>2. p \in Visited /\ index[p] < index[v]
        BY <1>1, <1>2, <1>3, <2>1, <3>1
      <3>3. ~(low[v] < low[p])
        BY <1>2, <1>4, <3>2
      <3>4. LoweredTo(p, low[v])
        BY <1>0, <2>1, <3>1
      <3> QED BY <1>2, <3>2, <3>3, <3>4 DEF LoweredTo
    <2>2. CASE L <= 1
      BY <1>0, <2>2
    <2> QED BY <1>1, <2>1, <2>2
  <1>6. /\ PlaceOf(v) \in DOMAIN stack
        /\ Above(v) = {u \in Stacked : index[v] <= index[u]}
        /\ {stack[n] : n \in 1..(PlaceOf(v) - 1)} = {u \in Stacked : index[u] < index[v]}
    BY <1>4, AboveIs
  <1>7. /\ DOMAIN stack' = 1..(PlaceOf(v) - 1)
        /\ \A n \in DOMAIN stack' : stack'[n] = stack[n] /\ n \in DOMAIN stack
        /\ components' = components \cup {Above(v)}
    <2>1. /\ stack \in Seq(Visited) /\ Len(stack) \in Nat /\ DOMAIN stack = 1..Len(stack)
          /\ PlaceOf(v) - 1 \in 0..Len(stack)
      BY <1>6, WalkFacts
    <2>2. stack' = SubSeq(stack, 1, PlaceOf(v) - 1) /\ components' = components \cup {Above(v)}
      BY <1>0 DEF Close
    <2>3. /\ DOMAIN stack' = 1..(PlaceOf(v) - 1)
          /\ \A n \in 1..(PlaceOf(v) - 1) : stack'[n] = stack[n]
      BY ONLY <2>1, <2>2, FrontIsSeq
    <2> QED BY <2>1, <2>2, <2>3
  <1>8. Stacked' = {u \in Stacked : index[u] < index[v]}
    <2>1. Stacked' = {stack[n] : n \in 1..(PlaceOf(v) - 1)}
      BY <1>7 DEF Stacked
    <2> QED BY <1>6, <2>1
  <1>9. /\ Visited' = Visited
        /\ \A u : Children(u)' = Children(u)
        /\ \A u, y : Reaches(u, y)' = Reaches(u, y)
    BY ReachStays DEF Children, Visited
  <1>10. \A u, y : Waits(u, y) => Waits(u, y)'
    <2> SUFFICES ASSUME NEW u, NEW y, Waits(u, y) PROVE Waits(u, y)'
      OBVIOUS
    <2>1. PICK n \in 1..L : work[n].at = u /\ y \in work[n].todo
      BY <1>1 DEF Waits
    <2>2. n \in 1..(L - 1)
      BY <1>1, <2>1
    <2>3. n \in DOMAIN work' /\ work'[n].at = u /\ y \in work'[n].todo
      BY <1>1, <2>1, <2>2
    <2> QED BY <2>3 DEF Waits
  <1>11. NumbersRise'
    <2>1. \A m, n \in DOMAIN work' : m < n => index'[work'[m].at] < index'[work'[n].at]
      BY <1>1, <1>3 DEF NumbersRise
    <2>2. \A i, j \in DOMAIN stack' : i < j => index'[stack'[i]] < index'[stack'[j]]
      BY <1>7 DEF NumbersRise
    <2> QED BY <1>9, <2>1, <2>2 DEF NumbersRise
  <1>12. SeenOrWaits'
    <2>1. \A n \in DOMAIN work' : work'[n].todo \subseteq Children(work'[n].at)
      BY <1>1, <1>3 DEF SeenOrWaits
    <2> QED BY <1>9, <1>10, <2>1 DEF SeenOrWaits
  <1>13. Hangs'
    <2>1. \A n \in 1..(L - 1) : \A u \in Stacked :
              index[work[n].at] <= index[u] => Reaches(work[n].at, u)
      BY <1>1, <1>3 DEF Hangs
    <2>2. ASSUME NEW u \in Stacked'
          PROVE  \E n \in 1..(L - 1) : index[work[n].at] <= index[u] /\ Reaches(u, work[n].at)
      <3>1. u \in Stacked /\ index[u] < index[v]
        BY <1>8
      <3>2. PICK n \in 1..L : index[work[n].at] <= index[u] /\ Reaches(u, work[n].at)
        BY <1>1, <3>1 DEF Hangs
      <3>3. n # L
        BY <1>1, <1>2, <1>4, <3>1, <3>2
      <3> QED BY <1>1, <3>2, <3>3
    <2> QED BY <1>1, <1>8, <1>9, <2>1, <2>2 DEF Hangs
  <1>14. LowLeads'
    <2>1. ASSUME NEW n \in 1..(L - 1)
          PROVE  \E y \in Stacked' : index[y] = low[work[n].at] /\ Reaches(work[n].at, y)
      <3>1. PICK y \in Stacked : index[y] = low[work[n].at] /\ Reaches(work[n].at, y)
        BY <1>1, <1>3 DEF LowLeads
      <3>2. work[n].at \in Visited /\ index[work[n].at] < index[v]
        BY <1>2, <1>3
      <3>3. index[y] < index[v]
        BY <1>2, <1>4, <3>1, <3>2
      <3> QED BY <1>8, <3>1, <3>3
    <2> QED BY <1>1, <1>5, <1>9, <2>1 DEF LowLeads
  <1>15. LowCovers'
    <2>1. ASSUME NEW n \in 1..(L - 1), NEW u \in Stacked', NEW y \in Children(u) \cap Stacked'
          PROVE  \/ index[u] < index[work[n].at]
                 \/ Waits(u, y)'
                 \/ \E m \in n..(L - 1) : low[work[m].at] <= index[y]
      <3>1. u \in Stacked /\ y \in Stacked /\ index[y] < index[v]
        BY <1>8
      <3>2. \/ index[u] < index[work[n].at]
            \/ Waits(u, y)
            \/ \E m \in n..L : low[work[m].at] <= index[y]
        BY <1>0, <1>1, <1>3, <3>1 DEF LowCovers
      <3>3. ASSUME NEW m \in n..L, low[work[m].at] <= index[y] PROVE m \in n..(L - 1)
        <4>1. m # L
          BY <1>1, <1>2, <1>4, <3>1, <3>3
        <4> QED BY <1>1, <4>1
      <3> QED BY <1>10, <3>2, <3>3
    <2>2. \A n \in 1..(L - 1) : \A m \in n..(L - 1) : work'[m].at = work[m].at
      BY <1>1
    <2>3. ASSUME NEW n \in DOMAIN work', NEW u \in Stacked', NEW y \in Children(u)' \cap Stacked'
          PROVE  \/ index'[u] < index'[work'[n].at]
                 \/ Waits(u, y)'
                 \/ \E m \in n..Len(work') : low'[work'[m].at] <= index'[y]
      <3>1. n \in 1..(L - 1) /\ work'[n].at = work[n].at
        BY <1>1
      <3> QED BY <1>1, <1>5, <1>9, <2>1, <2>2, <3>1
    <2> QED BY <2>3 DEF LowCovers
  <1>16. ClosedOff'
    <2>1. \A u \in Above(v) : Children(u) \subseteq Above(v) \cup UNION components
      BY <1>0, ClosedIsClass
    <2>2. UNION components' = Above(v) \cup UNION components
      BY <1>7
    <2> QED BY <1>9, <2>1, <2>2 DEF ClosedOff
  <1> QED BY <1>11, <1>12, <1>13, <1>14, <1>15, <1>16

\* An edge inside, when there are several steps in the class.
LEMMA ClassHasEdge ==
  ASSUME NEW C, IsClass(C), NEW v \in C, NEW u \in C, u # v
  PROVE  \E e \in Candidates : e.parent \in C /\ e.child \in C
  <1> SUFFICES ASSUME \A e \in Candidates : ~(e.parent \in C /\ e.child \in C)
               PROVE  FALSE
    OBVIOUS
  <1> DEFINE S == {x \in steps : Reaches(v, x) /\ (x \in C => x = v)}
  <1>1. v \in S /\ S \in SUBSET steps /\ u \notin S
    BY ReachSelf DEF IsClass
  <1>2. ASSUME NEW e \in Candidates, e.parent \in S PROVE e.child \in S
    <2>1. e.child \in steps /\ Reaches(e.parent, e.child)
      BY CandidatesTyped, ReachEdge
    <2>2. Reaches(v, e.parent) /\ Reaches(v, e.child)
      BY <1>2, <2>1, ReachOn
    <2>3. e.child \notin C
      <3> SUFFICES ASSUME e.child \in C PROVE FALSE
        OBVIOUS
      <3>1. Reaches(e.child, v)
        BY <2>1 DEF IsClass
      <3>2. Reaches(e.parent, v)
        BY <2>1, <3>1, ReachOn
      <3>3. e.parent \in C
        BY <1>2, <2>2, <3>2 DEF IsClass
      <3> QED BY <3>3
    <2> QED BY <2>1, <2>2, <2>3
  <1>3. Reaches(v, u)
    BY DEF IsClass
  <1> HIDE DEF S
  <1>4. u \in S
    BY <1>1, <1>2, <1>3, ReachWithin
  <1> QED BY <1>1, <1>4

\* What the code takes for a cycle is a class with an edge inside.
LEMMA CycleIsEdge ==
  ASSUME edges = Candidates, IsFiniteSet(steps), NEW C, IsClass(C), NEW v \in C
  PROVE  IsCycle(C, v) <=> \E e \in Candidates : e.parent \in C /\ e.child \in C
  <1>1. IsFiniteSet(C) /\ Cardinality(C) \in Nat
    <2>1. IsFiniteSet(C)
      BY FS_Subset DEF IsClass
    <2> QED BY <2>1, FS_CardinalityType
  <1>2. Cardinality(C) > 1 <=> \E u \in C : u # v
    <2>1. CASE C = {v}
      BY <2>1, FS_Singleton
    <2>2. CASE C # {v}
      <3>1. PICK u \in C : u # v
        BY <2>2
      <3>2. Cardinality(C) # 0
        BY <1>1, FS_EmptySet
      <3>3. Cardinality(C) # 1
        BY <1>1, <3>1, FS_Singleton
      <3> QED BY <1>1, <3>1, <3>2, <3>3
    <2> QED BY <2>1, <2>2
  <1>3. ASSUME NEW u \in C, u # v PROVE \E e \in Candidates : e.parent \in C /\ e.child \in C
    BY <1>3, ClassHasEdge
  <1>4. v \in Children(v) <=> \E e \in Candidates : e.parent = v /\ e.child = v
    BY DEF Children
  <1>5. ASSUME NEW e \in Candidates, e.parent \in C, e.child \in C, ~\E u \in C : u # v
        PROVE  e.parent = v /\ e.child = v
    BY <1>5
  <1> QED BY <1>2, <1>3, <1>4, <1>5 DEF IsCycle

-------------------------------------------------------------------------------
(* The verdict on the cycles. *)

\* The components with an edge inside.
Cyclic == {C \in components : \E e \in Candidates : e.parent \in C /\ e.child \in C}

CyclesTold == {g \in gaps : g.code = "CYCLE"} = {Gap("CYCLE", Lowest(C), C) : C \in Cyclic}

SccInv ==
    /\ phase = "derive" => Visited = {} /\ stack = <<>> /\ work = <<>> /\ components = {}
    /\ phase = "visit" => VisitInv
    /\ phase = "done" => \A e \in Candidates : e.parent \in UNION components /\ e.child \in UNION components
    /\ phase # "derive" => CyclesTold
    /\ \A C \in components : IsClass(C)

LEMMA SccByDerive == WalkInv /\ SccInv /\ Derive => SccInv'
  <1> SUFFICES ASSUME WalkInv, SccInv, Derive PROVE SccInv'
    OBVIOUS
  <1>1. /\ Visited = {} /\ stack = <<>> /\ work = <<>> /\ components = {}
        /\ UNCHANGED <<steps, walkVars>> /\ gaps' = Derived /\ phase' = "visit"
    BY DEF Derive, SccInv, Derived
  <1>2. /\ Visited' = {} /\ stack' = <<>> /\ work' = <<>> /\ components' = {}
        /\ Stacked' = {} /\ DOMAIN stack' = {} /\ DOMAIN work' = {}
    BY <1>1 DEF Visited, walkVars, Stacked
  <1>3. VisitInv'
    BY <1>2 DEF VisitInv, NumbersRise, SeenOrWaits, Hangs, LowLeads, LowCovers, ClosedOff
  <1>4. CyclesTold'
    <2>1. {g \in Derived : g.code = "CYCLE"} = {}
      BY DerivedCodes
    <2>2. Cyclic' = {}
      BY <1>2 DEF Cyclic
    <2> QED BY <1>1, <2>1, <2>2 DEF CyclesTold
  <1> QED BY <1>1, <1>2, <1>3, <1>4 DEF SccInv

\* A step that closes nothing and says nothing.
LEMMA ToldStays ==
  ASSUME SccInv, UNCHANGED <<steps, components>>,
         {g \in gaps' : g.code = "CYCLE"} = {g \in gaps : g.code = "CYCLE"}
  PROVE  /\ phase # "derive" => CyclesTold'
         /\ \A C \in components' : IsClass(C)'
         /\ Candidates' = Candidates
  <1>1. Cyclic' = Cyclic /\ Candidates' = Candidates
    BY InputFixed DEF Cyclic
  <1>2. \A C \in components' : IsClass(C)'
    BY ClassStays DEF SccInv
  <1>3. CyclesTold => CyclesTold'
    BY <1>1 DEF CyclesTold
  <1> QED BY <1>1, <1>2, <1>3 DEF SccInv

LEMMA SccByWalking == WalkInv /\ GraphInv /\ SccInv /\ (Start \/ Look) => SccInv'
  <1> SUFFICES ASSUME WalkInv, GraphInv, SccInv, Start \/ Look PROVE SccInv'
    OBVIOUS
  <1>1. phase = "visit" /\ phase' = "visit" /\ UNCHANGED <<steps, gaps, components>>
    BY DEF Start, Look
  <1>2. VisitInv /\ edges = Candidates
    BY <1>1 DEF SccInv, GraphInv
  <1>3. VisitInv'
    BY <1>2, VisitByStart, VisitByLook
  <1>4. CyclesTold' /\ \A C \in components' : IsClass(C)'
    BY <1>1, ToldStays
  <1> QED BY <1>1, <1>3, <1>4 DEF SccInv

LEMMA SccByRetreat == WalkInv /\ GraphInv /\ SccInv /\ Retreat => SccInv'
  <1> SUFFICES ASSUME WalkInv, GraphInv, SccInv, Retreat PROVE SccInv'
    OBVIOUS
  <1>1. /\ phase = "visit" /\ phase' = "visit" /\ UNCHANGED <<steps, edges, index>>
        /\ work # <<>> /\ Top.todo = {} /\ work' = SubSeq(work, 1, Len(work) - 1)
        /\ Len(work) > 1 => LoweredTo(work[Len(work) - 1].at, low[Top.at])
        /\ ~(Len(work) > 1) => low' = low
    BY DEF Retreat
  <1>2. VisitInv /\ edges = Candidates /\ Candidates' = Candidates /\ CyclesTold
        /\ \A C \in components : IsClass(C)
    BY <1>1, InputFixed DEF SccInv, GraphInv
  <1>3. CASE low[Top.at] # index[Top.at] /\ UNCHANGED <<stack, gaps, components>>
    <2>1. VisitInv'
      BY <1>1, <1>2, <1>3, VisitByLeading
    <2>2. CyclesTold' /\ \A C \in components' : IsClass(C)'
      BY <1>1, <1>3, ToldStays
    <2> QED BY <1>1, <2>1, <2>2 DEF SccInv
  <1>4. CASE low[Top.at] = index[Top.at] /\ Close(Top.at)
    <2>0. Len(work) <= 1 => low' = low
      <3>1. Len(work) \in Nat
        BY WalkFacts
      <3> QED BY <1>1, <3>1
    <2>1. VisitInv'
      BY <1>1, <1>2, <1>4, <2>0, VisitByClosing
    <2>2. PICK A, v : v = Top.at /\ A = Above(v)
      OBVIOUS
    <2>3. IsClass(A) /\ v \in A
      BY <1>1, <1>2, <1>4, <2>2, ClosedIsClass
    <2>4. IsCycle(A, v) <=> \E e \in Candidates : e.parent \in A /\ e.child \in A
      BY <1>2, <2>3, CycleIsEdge, StepsFinite DEF WalkInv
    <2>5. /\ components' = components \cup {A}
          /\ gaps' = gaps \cup (IF IsCycle(A, v) THEN {Gap("CYCLE", Lowest(A), A)} ELSE {})
      BY <1>4, <2>2 DEF Close
    <2>6. Cyclic' = Cyclic \cup (IF IsCycle(A, v) THEN {A} ELSE {})
      BY <1>2, <2>4, <2>5 DEF Cyclic
    <2>7. CyclesTold'
      <3> DEFINE Said(G) == {g \in G : g.code = "CYCLE"}
                 Told(S) == {Gap("CYCLE", Lowest(C), C) : C \in S}
      <3>1. Said(gaps) = Told(Cyclic)
        BY <1>2 DEF CyclesTold
      <3>2. Gap("CYCLE", Lowest(A), A).code = "CYCLE"
        BY DEF Gap
      <3>3. CASE IsCycle(A, v)
        <4>1. Said(gaps') = Said(gaps) \cup {Gap("CYCLE", Lowest(A), A)}
          BY <2>5, <3>2, <3>3
        <4>2. Told(Cyclic') = Told(Cyclic) \cup {Gap("CYCLE", Lowest(A), A)}
          BY <2>6, <3>3
        <4> QED BY <3>1, <4>1, <4>2 DEF CyclesTold
      <3>4. CASE ~IsCycle(A, v)
        <4>1. gaps' = gaps /\ Cyclic' = Cyclic
          BY <2>5, <2>6, <3>4
        <4> QED BY <3>1, <4>1 DEF CyclesTold
      <3> QED BY <3>3, <3>4
    <2>8. \A C \in components' : IsClass(C)'
      BY <1>1, <1>2, <2>3, <2>5, ClassStays
    <2> QED BY <1>1, <2>1, <2>7, <2>8 DEF SccInv
  <1> QED BY <1>3, <1>4 DEF Retreat

LEMMA SccByFinish == WalkInv /\ GraphInv /\ SccInv /\ Finish => SccInv'
  <1> SUFFICES ASSUME WalkInv, GraphInv, SccInv, Finish PROVE SccInv'
    OBVIOUS
  <1>1. /\ phase = "visit" /\ phase' = "done" /\ UNCHANGED <<steps, components>>
        /\ work = <<>> /\ Nodes \subseteq Visited /\ gaps' = gaps \cup OriginGaps
    BY DEF Finish, walkVars
  <1>2. VisitInv /\ edges = Candidates
    BY <1>1 DEF SccInv, GraphInv
  <1>3. Visited = UNION components
    BY <1>1, <1>2, StackEmpty DEF WalkInv, Apart, VisitInv
  <1>4. \A e \in Candidates : e.parent \in UNION components /\ e.child \in UNION components
    BY <1>1, <1>2, <1>3 DEF Nodes
  <1>5. {g \in gaps' : g.code = "CYCLE"} = {g \in gaps : g.code = "CYCLE"}
    <2>1. \A g \in OriginGaps : g.code # "CYCLE"
      BY DEF OriginGaps, Gap
    <2> QED BY <1>1, <2>1
  <1>6. CyclesTold' /\ Candidates' = Candidates /\ \A C \in components' : IsClass(C)'
    BY <1>1, <1>5, ToldStays
  <1> QED BY <1>1, <1>4, <1>6 DEF SccInv

LEMMA SccStuttering == WalkInv /\ SccInv /\ UNCHANGED vars => SccInv'
  <1> SUFFICES ASSUME WalkInv, SccInv, UNCHANGED vars PROVE SccInv'
    OBVIOUS
  <1>1. UNCHANGED <<steps, phase, edges, gaps, index, low, stack, work, components>>
    BY DEF vars, walkVars
  <1>2. /\ CyclesTold' \/ phase = "derive"
        /\ \A C \in components' : IsClass(C)'
        /\ Candidates' = Candidates
    BY <1>1, ToldStays
  <1>3. /\ Visited' = Visited /\ Stacked' = Stacked
        /\ \A u : Children(u)' = Children(u)
        /\ \A u, y : Reaches(u, y)' = Reaches(u, y)
        /\ \A u, y : Waits(u, y)' = Waits(u, y)
    BY <1>1, ReachStays DEF Children, Visited, Stacked, Waits
  <1>4. VisitInv => VisitInv'
    <2>1. NumbersRise => NumbersRise'
      BY <1>1, <1>3 DEF NumbersRise
    <2>2. SeenOrWaits => SeenOrWaits'
      BY <1>1, <1>3 DEF SeenOrWaits
    <2>3. Hangs => Hangs'
      BY <1>1, <1>3 DEF Hangs
    <2>4. LowLeads => LowLeads'
      BY <1>1, <1>3 DEF LowLeads
    <2>5. LowCovers => LowCovers'
      BY <1>1, <1>3 DEF LowCovers
    <2>6. ClosedOff => ClosedOff'
      BY <1>1, <1>3 DEF ClosedOff
    <2> QED BY <2>1, <2>2, <2>3, <2>4, <2>5, <2>6 DEF VisitInv
  <1> QED BY <1>1, <1>2, <1>3, <1>4 DEF SccInv

LEMMA SccInvHolds == Spec => [](WalkInv /\ GraphInv /\ SccInv)
  <1>1. Init => GraphInv /\ SccInv
    BY DEF Init, GraphInv, SccInv, Visited
  <1>2. WalkInv /\ GraphInv /\ SccInv /\ [Next]_vars => SccInv'
    BY SccByDerive, SccByWalking, SccByRetreat, SccByFinish, SccStuttering DEF Next
  <1> QED BY WalkInvHolds, GraphInvKept, <1>1, <1>2, PTL DEF Spec

\* The class of a step on a cycle is the component that holds it.
LEMMA ClassOfEdge ==
  ASSUME SccInv, Done, NEW e \in Candidates, NEW D \in components, e.child \in D
  PROVE  /\ D = {w \in steps : Reaches(e.child, w) /\ Reaches(w, e.child)}
         /\ e.parent \in D <=> Reaches(e.child, e.parent)
  <1>1. IsClass(D)
    BY DEF SccInv
  <1>2. D = {w \in steps : Reaches(e.child, w) /\ Reaches(w, e.child)}
    BY <1>1 DEF IsClass
  <1>3. e.parent \in steps /\ Reaches(e.parent, e.child)
    BY CandidatesTyped, ReachEdge
  <1> QED BY <1>2, <1>3

\* Whatever the order of the walk, the edges left out are those of the cycles, and
\* no others: Tarjan's algorithm, as the code unrolls it, is right.
THEOREM SuppressedAreCycles == Spec => []CyclesSuppressed
  <1>1. ASSUME GraphInv, SccInv, Done
        PROVE  edges = {e \in Candidates : ~Reaches(e.child, e.parent)}
    <2>1. edges = {e \in Candidates : ~Inside(e)}
      BY <1>1 DEF GraphInv, Done
    <2>2. ASSUME NEW e \in Candidates PROVE Inside(e) <=> Reaches(e.child, e.parent)
      <3>1. PICK D \in components : e.child \in D
        BY <1>1 DEF SccInv, Done
      <3>2. e.parent \in D <=> Reaches(e.child, e.parent)
        BY <1>1, <3>1, ClassOfEdge
      <3>3. \A C \in components : e.parent \in C /\ e.child \in C => Reaches(e.child, e.parent)
        BY <1>1, ClassOfEdge
      <3> QED BY <3>1, <3>2, <3>3 DEF Inside
    <2> QED BY <2>1, <2>2
  <1>2. GraphInv /\ SccInv => CyclesSuppressed
    BY <1>1 DEF CyclesSuppressed
  <1> QED BY <1>2, SccInvHolds, PTL

\* Each cycle is reported once, as the largest set of steps that lead to one another.
THEOREM ReportedAreCycles == Spec => []CyclesReported
  <1>1. ASSUME GraphInv, SccInv, Done
        PROVE  {g \in gaps : g.code = "CYCLE"} =
                 {LET C == {w \in steps : Reaches(e.child, w) /\ Reaches(w, e.child)}
                  IN  Gap("CYCLE", Lowest(C), C) :
                        e \in {f \in Candidates : Reaches(f.child, f.parent)}}
    <2> DEFINE Class(e) == {w \in steps : Reaches(e.child, w) /\ Reaches(w, e.child)}
               Back == {f \in Candidates : Reaches(f.child, f.parent)}
    <2>1. CyclesTold
      BY <1>1 DEF SccInv, Done
    <2>2. ASSUME NEW e \in Back PROVE Class(e) \in Cyclic
      <3>1. PICK D \in components : e.child \in D
        BY <1>1 DEF SccInv, Done
      <3>2. D = Class(e) /\ e.parent \in D
        BY <1>1, <3>1, ClassOfEdge
      <3> HIDE DEF Class
      <3> QED BY <3>1, <3>2 DEF Cyclic
    <2>3. ASSUME NEW C \in Cyclic PROVE \E e \in Back : C = Class(e)
      <3>1. PICK e \in Candidates : e.parent \in C /\ e.child \in C
        BY DEF Cyclic
      <3>2. C = Class(e) /\ Reaches(e.child, e.parent)
        BY <1>1, <3>1, ClassOfEdge DEF Cyclic
      <3> HIDE DEF Class
      <3> QED BY <3>1, <3>2
    <2>4. {Gap("CYCLE", Lowest(C), C) : C \in Cyclic}
            = {Gap("CYCLE", Lowest(Class(e)), Class(e)) : e \in Back}
      <3> HIDE DEF Class, Back
      <3> QED BY <2>2, <2>3
    <2> QED BY <2>1, <2>4 DEF CyclesTold
  <1>2. GraphInv /\ SccInv => CyclesReported
    BY <1>1 DEF CyclesReported
  <1> QED BY <1>2, SccInvHolds, PTL

===============================================================================
