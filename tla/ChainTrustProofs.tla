--------------------------- MODULE ChainTrustProofs ---------------------------
(***************************************************************************)
(* Proofs about ChainTrust, for every package, any envelopes and any       *)
(* number of verifiers.                                                    *)
(***************************************************************************)
EXTENDS ChainTrust, WellFoundedInduction, TLAPS

\* A set of naturals that has an element has a least one.
LEMMA LeastNatural ==
    ASSUME NEW T, T \subseteq Nat, T # {}
    PROVE  \E m \in T : \A n \in T : m <= n
<1> DEFINE Less == {ss \in Nat \X Nat : ss[1] < ss[2]}
<1>1. Less = OpToRel(<, Nat)
  BY DEF OpToRel
<1>2. IsWellFoundedOn(Less, Nat)
  BY <1>1, NatLessThanWellFounded
<1>3. \E m \in T : \A n \in T : ~(<<n, m>> \in Less)
  <2> HIDE DEF Less
  <2> QED
    BY <1>2, WFMin
<1>4. \A m, n \in Nat : ~(<<n, m>> \in Less) => m <= n
  OBVIOUS
<1> QED
  BY <1>3, <1>4

\* What is known of an envelope.
LEMMA EnvelopeTyped ==
    ASSUME NEW e \in Envelopes
    PROVE  e.hash \in Hashes /\ Seq(e) \in Nat \ {0}
BY EnvelopeAssumption, HashAssumption DEF Seq

(* The invariance of TypeOK. *)

LEMMA InitTyped == Init => TypeOK
<1> SUFFICES ASSUME Init PROVE TypeOK
  OBVIOUS
<1>1. trust \in Packages /\ ValidTrust(trust) /\ given \in [Verifiers -> SUBSET Envelopes]
  BY DEF Init
<1>2. ASSUME NEW k \in trust.keys, NEW l \in trust.keys, NEW e \in Envelopes,
             k.role = l.role, k.stream = l.stream, Covers(k, Seq(e)), Covers(l, Seq(e))
      PROVE  k = l
  <2>1. k # l => k.last < l.first \/ l.last < k.first
    BY <1>1, <1>2 DEF ValidTrust
  <2> QED
    BY <2>1, <1>1, <1>2, EnvelopeTyped, PackageAssumption DEF Covers
<1> QED
  BY <1>1, <1>2 DEF TypeOK

LEMMA NextTyped == TypeOK /\ [Next]_vars => TypeOK'
<1> SUFFICES ASSUME TypeOK, [Next]_vars PROVE TypeOK'
  OBVIOUS
<1>1. trust' = trust
  BY DEF Next, Supply, vars
<1>2. given' \in [Verifiers -> SUBSET Envelopes]
  BY DEF TypeOK, Next, Supply, vars
<1> QED
  BY <1>1, <1>2 DEF TypeOK, Covers, Seq

\* A package that passed its rules puts one key at most in charge of a position,
\* and verifiers hold envelopes: of any package, any circulating envelopes.
THEOREM ChainsTyped == Spec => []TypeOK
BY InitTyped, NextTyped, PTL DEF Spec

(* Agreement. *)

\* What a verdict of trust rules out.
Sound(E) == ~Fork(E) /\ ~PinMismatch(E) /\ ~Gap(E) /\ ~PinAhead(E)

LEMMA TrustedSound ==
    ASSUME NEW E, Verdict(E) = "TRUSTED_AT_PIN"
    PROVE  Sound(E)
BY DEF Verdict, Sound, Conflicted, Untrusted, Incomplete

\* The entries of a stream have an earliest one.
LEMMA EarliestExists ==
    ASSUME NEW E \in SUBSET Envelopes, NEW e \in E
    PROVE  \E f \in E : Stream(f) = Stream(e) /\ Earliest(E, Stream(e), Seq(f)) /\ Seq(f) <= Seq(e)
<1> DEFINE T == {Seq(f) : f \in {g \in E : Stream(g) = Stream(e)}}
<1>1. T \subseteq Nat /\ T # {}
  BY EnvelopeTyped
<1>2. PICK m \in T : \A n \in T : m <= n
  <2> HIDE DEF T
  <2> QED
    BY <1>1, LeastNatural
<1>3. PICK f \in E : Stream(f) = Stream(e) /\ Seq(f) = m
  BY <1>2
<1>4. f.hash \in Slot(E, Stream(e), Seq(f))
  BY <1>3 DEF Slot
<1>5. \A g \in E : Stream(g) = Stream(e) => Seq(f) <= Seq(g)
  BY <1>2, <1>3
<1> QED
  BY <1>3, <1>4, <1>5 DEF Earliest

\* A pinned position at or above an entry holds the pinned hash.
LEMMA PinReached ==
    ASSUME TypeOK, NEW E \in SUBSET Envelopes, Sound(E), NEW e \in E,
           NEW p \in Heads(Stream(e)), Seq(e) <= p.seq
    PROVE  \E f \in E : Stream(f) = Stream(e) /\ Seq(f) = p.seq /\ f.hash = p.hash
<1>1. PICK g \in E : Stream(g) = Stream(e) /\ Earliest(E, Stream(e), Seq(g)) /\ Seq(g) <= Seq(e)
  BY EarliestExists
<1>2. p.seq \in Nat
  BY PackageAssumption DEF TypeOK, Heads
<1>3. p.seq >= Seq(g)
  BY <1>1, <1>2, EnvelopeTyped
<1>4. Slot(E, Stream(e), p.seq) # {}
  BY <1>1, <1>3 DEF Sound, PinAhead
<1>5. p.hash \in Slot(E, Stream(e), p.seq)
  BY <1>1, <1>3, <1>4 DEF Sound, PinMismatch
<1> QED
  BY <1>5 DEF Slot

\* An entry above another of its stream has an entry just below it, and links to
\* that.
LEMMA LinkedBelow ==
    ASSUME TypeOK, NEW E \in SUBSET Envelopes, Sound(E), NEW e \in E, NEW g \in E,
           Stream(e) = Stream(g), Seq(e) < Seq(g)
    PROVE  \E f \in E : Stream(f) = Stream(e) /\ Seq(f) = Seq(g) - 1 /\ f.hash = Prev(g)
<1>1. Seq(e) \in Nat \ {0} /\ Seq(g) \in Nat \ {0}
  BY EnvelopeTyped
<1>2. ~Broken(E, g) \/ AnchorCovered(g)
  BY DEF Sound, Gap
<1>3. CASE ~Broken(E, g)
  <2>1. Prev(g) \in Slot(E, Stream(g), Seq(g) - 1)
    BY <1>1, <1>3 DEF Broken
  <2> QED
    BY <2>1 DEF Slot
<1>4. CASE AnchorCovered(g)
  <2>1. PICK p \in Heads(Stream(g)) : p.seq = Seq(g) - 1 /\ p.hash = Prev(g)
    BY <1>4 DEF AnchorCovered
  <2>2. Seq(e) <= p.seq
    BY <1>1, <2>1
  <2> QED
    BY <2>1, <2>2, PinReached
<1> QED
  BY <1>2, <1>3, <1>4

\* From an entry up to a pin there is no hole.
LEMMA NoHole ==
    ASSUME TypeOK, NEW E \in SUBSET Envelopes, Sound(E), NEW e \in E,
           NEW p \in Heads(Stream(e)), NEW n \in Nat, Seq(e) <= n, n <= p.seq
    PROVE  \E f \in E : Stream(f) = Stream(e) /\ Seq(f) = n
<1> DEFINE Holes == {m \in Nat : /\ Seq(e) <= p.seq - m
                                 /\ ~\E f \in E : Stream(f) = Stream(e) /\ Seq(f) = p.seq - m}
<1>1. p.seq \in Nat /\ Seq(e) \in Nat
  BY PackageAssumption, EnvelopeTyped DEF TypeOK, Heads
<1>2. Holes = {}
  <2> SUFFICES ASSUME Holes # {} PROVE FALSE
    OBVIOUS
  <2>1. PICK m \in Holes : \A k \in Holes : m <= k
    <3>1. Holes \subseteq Nat
      OBVIOUS
    <3> HIDE DEF Holes
    <3> QED
      BY <3>1, LeastNatural
  <2>2. m # 0
    BY <1>1, <2>1, PinReached
  <2>3. m - 1 \in Nat /\ ~(m <= m - 1) /\ Seq(e) <= p.seq - (m - 1)
    BY <1>1, <2>1, <2>2
  <2>4. m - 1 \notin Holes
    BY <2>1, <2>3
  <2>5. PICK g \in E : Stream(g) = Stream(e) /\ Seq(g) = p.seq - (m - 1)
    BY <2>3, <2>4
  <2>6. Seq(e) < Seq(g) /\ Seq(g) - 1 = p.seq - m
    BY <1>1, <2>1, <2>5
  <2>7. \E f \in E : Stream(f) = Stream(e) /\ Seq(f) = p.seq - m
    BY <2>5, <2>6, LinkedBelow
  <2> QED
    BY <2>1, <2>7
<1>3. p.seq - n \in Nat /\ p.seq - (p.seq - n) = n
  BY <1>1
<1> QED
  BY <1>2, <1>3

\* Two sound sets of envelopes agree up to a pin.
LEMMA SoundAgree ==
    ASSUME TypeOK, NEW A \in SUBSET Envelopes, NEW B \in SUBSET Envelopes, Sound(A), Sound(B),
           NEW s, NEW p \in Heads(s),
           NEW e \in A, NEW f \in B, Stream(e) = s, Stream(f) = s, Seq(e) = Seq(f), Seq(e) <= p.seq
    PROVE  e.hash = f.hash
<1> DEFINE Differ(n) ==
             \E x \in A, y \in B : /\ Stream(x) = s /\ Stream(y) = s
                                   /\ Seq(x) = p.seq - n /\ Seq(y) = p.seq - n
                                   /\ x.hash # y.hash
           Bad == {n \in Nat : Differ(n)}
<1>1. p.seq \in Nat
  BY PackageAssumption DEF TypeOK, Heads
<1>2. Bad = {}
  <2> SUFFICES ASSUME Bad # {} PROVE FALSE
    OBVIOUS
  <2>1. PICK n \in Bad : \A k \in Bad : n <= k
    <3>1. Bad \subseteq Nat
      OBVIOUS
    <3> HIDE DEF Bad
    <3> QED
      BY <3>1, LeastNatural
  <2>2. PICK x \in A, y \in B : /\ Stream(x) = s /\ Stream(y) = s
                                /\ Seq(x) = p.seq - n /\ Seq(y) = p.seq - n
                                /\ x.hash # y.hash
    BY <2>1
  <2>3. Seq(x) \in Nat /\ Seq(y) \in Nat /\ n \in Nat
    BY <2>1, EnvelopeTyped
  <2>4. CASE n = 0
    <3>1. Seq(x) <= p.seq /\ Seq(y) <= p.seq
      BY <1>1, <2>2, <2>4
    <3>2. PICK a \in A : Stream(a) = s /\ Seq(a) = p.seq /\ a.hash = p.hash
      BY <2>2, <3>1, PinReached
    <3>3. PICK b \in B : Stream(b) = s /\ Seq(b) = p.seq /\ b.hash = p.hash
      BY <2>2, <3>1, PinReached
    <3>4. x.hash = a.hash /\ y.hash = b.hash
      BY <1>1, <2>2, <2>4, <3>2, <3>3 DEF Sound, Fork
    <3> QED
      BY <2>2, <3>2, <3>3, <3>4
  <2>5. CASE n # 0
    <3>1. n - 1 \in Nat /\ ~(n <= n - 1) /\ Seq(x) + 1 \in Nat
          /\ Seq(x) <= Seq(x) + 1 /\ Seq(y) <= Seq(x) + 1 /\ Seq(x) + 1 <= p.seq
          /\ Seq(x) + 1 = p.seq - (n - 1)
      BY <1>1, <2>2, <2>3, <2>5
    <3>2. PICK a \in A : Stream(a) = s /\ Seq(a) = Seq(x) + 1
      BY <2>2, <3>1, NoHole
    <3>3. PICK b \in B : Stream(b) = s /\ Seq(b) = Seq(x) + 1
      BY <2>2, <3>1, NoHole
    <3>4. a.hash = b.hash
      <4>1. n - 1 \notin Bad
        BY <2>1, <3>1
      <4>2. ~Differ(n - 1)
        BY <3>1, <4>1
      <4> QED
        BY <3>1, <3>2, <3>3, <4>2
    <3>5. Prev(a) = Prev(b)
      BY <3>4 DEF Prev
    <3>6. Seq(x) < Seq(a) /\ Seq(y) < Seq(b) /\ Seq(a) - 1 = Seq(x) /\ Seq(b) - 1 = Seq(y)
      BY <2>2, <2>3, <3>2, <3>3
    <3>7. x.hash = Prev(a)
      BY <2>2, <3>2, <3>6, LinkedBelow DEF Sound, Fork
    <3>8. y.hash = Prev(b)
      BY <2>2, <3>3, <3>6, LinkedBelow DEF Sound, Fork
    <3> QED
      BY <2>2, <3>5, <3>7, <3>8
  <2> QED
    BY <2>4, <2>5
<1>3. p.seq - Seq(e) \in Nat /\ p.seq - (p.seq - Seq(e)) = Seq(e)
  BY <1>1, EnvelopeTyped
<1>4. ~Differ(p.seq - Seq(e))
  BY <1>2, <1>3
<1> QED
  BY <1>3, <1>4

\* Verifiers that trust what they have agree on every entry at or below a pinned
\* head: the package decides the history, and not whoever hands it over.
THEOREM PinsDecideHistory == Spec => []PinsDecide
<1>1. TypeOK => PinsDecide
  <2> SUFFICES ASSUME TypeOK, NEW v \in Verifiers, NEW w \in Verifiers, Trusts(v), Trusts(w),
                      NEW e \in given[v], NEW f \in given[w], Stream(e) = Stream(f), Seq(e) = Seq(f),
                      NEW p \in Heads(Stream(e)), Seq(e) <= p.seq
               PROVE  e.hash = f.hash
    BY DEF PinsDecide
  <2>1. given[v] \in SUBSET Envelopes /\ given[w] \in SUBSET Envelopes
    BY DEF TypeOK
  <2>2. Sound(given[v]) /\ Sound(given[w])
    BY TrustedSound DEF Trusts
  <2> QED
    BY <2>1, <2>2, SoundAgree
<1> QED
  BY <1>1, ChainsTyped, PTL

(* Distrust. *)

\* A pin just below an entry of a sound set is what the entry links to.
LEMMA PinJustBelow ==
    ASSUME TypeOK, NEW E \in SUBSET Envelopes, Sound(E), NEW e \in E,
           NEW p \in Heads(Stream(e)), p.seq = Seq(e) - 1
    PROVE  Prev(e) = p.hash
<1>1. Seq(e) \in Nat \ {0} /\ p.seq \in Nat /\ \A g \in E : Seq(g) \in Nat \ {0}
  BY EnvelopeTyped, PackageAssumption DEF TypeOK, Heads
<1>2. CASE \E g \in E : Stream(g) = Stream(e) /\ Seq(g) <= p.seq
  <2>1. PICK x \in E : Stream(x) = Stream(e) /\ Seq(x) = p.seq /\ x.hash = p.hash
    BY <1>2, PinReached
  <2>2. Seq(x) < Seq(e)
    BY <1>1, <2>1
  <2>3. PICK f \in E : Stream(f) = Stream(x) /\ Seq(f) = Seq(e) - 1 /\ f.hash = Prev(e)
    BY <2>1, <2>2, LinkedBelow
  <2> QED
    BY <2>1, <2>3 DEF Sound, Fork
<1>3. CASE ~\E g \in E : Stream(g) = Stream(e) /\ Seq(g) <= p.seq
  <2>1. \A g \in E : Stream(g) = Stream(e) => Seq(e) <= Seq(g)
    BY <1>1, <1>3
  <2>2. Earliest(E, Stream(e), Seq(e))
    BY <2>1 DEF Earliest, Slot
  <2>3. PICK f \in E : Stream(f) = Stream(e) /\ Seq(f) = Seq(e) /\ Prev(f) = p.hash
    BY <2>2 DEF Sound, PinMismatch
  <2>4. f.hash = e.hash
    BY <2>3 DEF Sound, Fork
  <2> QED
    BY <2>3, <2>4 DEF Prev
<1> QED
  BY <1>2, <1>3

\* A sound set of envelopes has no wrong pin in any of its parts.
LEMMA SoundParts ==
    ASSUME TypeOK, NEW F \in SUBSET Envelopes, NEW E \in SUBSET F, Sound(F)
    PROVE  ~Fork(E) /\ ~PinMismatch(E)
<1>1. ~Fork(E)
  BY DEF Sound, Fork
<1>2. ASSUME PinMismatch(E) PROVE FALSE
  <2> DEFINE Wrong(e, p) ==
          /\ Earliest(E, Stream(e), Seq(e))
          /\ \/ /\ p.seq = Seq(e) - 1
                /\ \A f \in E : Stream(f) = Stream(e) /\ Seq(f) = Seq(e) => Prev(f) # p.hash
             \/ /\ p.seq >= Seq(e)
                /\ Slot(E, Stream(e), p.seq) # {}
                /\ p.hash \notin Slot(E, Stream(e), p.seq)
  <2>0. PICK e \in E : \E p \in Heads(Stream(e)) : Wrong(e, p)
    BY <1>2 DEF PinMismatch
  <2>1. PICK p \in Heads(Stream(e)) : Wrong(e, p)
    BY <2>0
  <2>2. e \in F /\ e \in Envelopes /\ Seq(e) \in Nat \ {0} /\ p.seq \in Nat
    BY EnvelopeTyped, PackageAssumption DEF TypeOK, Heads
  <2>3. CASE p.seq = Seq(e) - 1 /\ Prev(e) # p.hash
    BY <2>2, <2>3, PinJustBelow
  <2>4. CASE p.seq >= Seq(e) /\ Slot(E, Stream(e), p.seq) # {} /\ p.hash \notin Slot(E, Stream(e), p.seq)
    <3>1. PICK x \in E : Stream(x) = Stream(e) /\ Seq(x) = p.seq
      BY <2>4 DEF Slot
    <3>2. x.hash # p.hash
      BY <2>4, <3>1 DEF Slot
    <3>3. PICK f \in F : Stream(f) = Stream(e) /\ Seq(f) = p.seq /\ f.hash = p.hash
      BY <2>2, <2>4, PinReached
    <3> QED
      BY <3>1, <3>2, <3>3 DEF Sound, Fork
  <2> QED
    BY <2>1, <2>3, <2>4
<1> QED
  BY <1>1, <1>2

\* More envelopes never turn distrust or conflict into trust.
THEOREM DistrustIsFinal == Spec => DistrustStays
<1>1. ASSUME TypeOK, [Next]_vars, NEW v \in Verifiers,
             Verdict(given[v]) \in {"CONFLICTED", "UNTRUSTED"},
             Verdict(given'[v]) = "TRUSTED_AT_PIN"
      PROVE  FALSE
  <2> DEFINE E == given[v]
             F == given'[v]
  <2>1. E \in SUBSET F /\ F \in SUBSET Envelopes
    BY <1>1 DEF TypeOK, Next, Supply, vars
  <2>2. Sound(F)
    BY <1>1, TrustedSound
  <2>3. \A e \in F : ~Distrusted(e)
    BY <1>1 DEF Verdict, Untrusted
  <2>4. ~Fork(E) /\ ~PinMismatch(E)
    BY <1>1, <2>1, <2>2, SoundParts
  <2>5. \A e \in E : ~Distrusted(e)
    BY <2>1, <2>3
  <2>6. ~Conflicted(E) /\ ~Untrusted(E)
    BY <2>4, <2>5 DEF Conflicted, Untrusted
  <2> QED
    BY <1>1, <2>6 DEF Verdict
<1>2. TypeOK /\ [Next]_vars =>
        [\A v \in Verifiers :
            Verdict(given[v]) \in {"CONFLICTED", "UNTRUSTED"} => Verdict(given'[v]) # "TRUSTED_AT_PIN"]_vars
  BY <1>1
<1> QED
  BY <1>2, ChainsTyped, PTL DEF Spec, DistrustStays

(* What trust amounts to. *)

\* The package's heads are at positions of a stream.
PinsInv == TypeOK /\ \A p \in trust.heads : p.seq >= 1

LEMMA PinsInvHolds == Spec => []PinsInv
<1>1. Init => \A p \in trust.heads : p.seq >= 1
  BY DEF Init, ValidTrust
<1>2. (\A p \in trust.heads : p.seq >= 1) /\ [Next]_vars => (\A p \in trust.heads : p.seq >= 1)'
  BY DEF Next, Supply, vars
<1> QED
  BY <1>1, <1>2, ChainsTyped, PTL DEF Spec, PinsInv

\* A set of numbers that holds 0 and, with a number, the next holds them all.
LEMMA HoldsAll ==
    ASSUME NEW N \in SUBSET Nat, 0 \in N, \A n \in N : n + 1 \in N
    PROVE  N = Nat
<1> DEFINE Out == Nat \ N
<1> SUFFICES ASSUME Out # {} PROVE FALSE
  OBVIOUS
<1>1. PICK n \in Out : \A m \in Out : n <= m
  <2>1. Out \subseteq Nat
    OBVIOUS
  <2> HIDE DEF Out
  <2> QED
    BY <2>1, LeastNatural
<1>2. n - 1 \in Nat /\ ~(n <= n - 1) /\ (n - 1) + 1 = n
  BY <1>1
<1> QED
  BY <1>1, <1>2

\* The entries of E at the n-th position of s that lead back, given those below.
HeldAt(E, s, n, below) ==
    {f.hash : f \in {g \in {h \in E : Stream(h) = s} :
        /\ Seq(g) = n
        /\ \/ n = 1 /\ Prev(g) = Zero
           \/ n > 1 /\ (AnchorCovered(g) \/ Prev(g) \in below)}}

IsHeld(held, E, s, top) == held = [n \in 1..top |-> HeldAt(E, s, n, held[n - 1])]

\* There are such sets of entries, up to every position.
LEMMA HeldExists ==
    ASSUME NEW E, NEW s
    PROVE  \A top \in Nat : \E held : IsHeld(held, E, s, top)
<1> DEFINE N == {n \in Nat : \E held : IsHeld(held, E, s, n)}
<1>1. 0 \in N
  <2>1. IsHeld([n \in 1..0 |-> {}], E, s, 0)
    BY DEF IsHeld
  <2> QED
    BY <2>1
<1>2. ASSUME NEW n \in N PROVE n + 1 \in N
  <2>1. PICK held : IsHeld(held, E, s, n)
    OBVIOUS
  <2> DEFINE last == HeldAt(E, s, n + 1, held[n])
             one == [m \in 1..(n + 1) |-> IF m = n + 1 THEN last ELSE held[m]]
  <2>2. n \in Nat /\ n + 1 \in Nat /\ (n + 1) - 1 = n
    OBVIOUS
  <2>3. \A m \in 1..n : held[m] = HeldAt(E, s, m, held[m - 1])
    BY <2>1 DEF IsHeld
  <2>4. ASSUME NEW m \in 1..(n + 1) PROVE one[m] = HeldAt(E, s, m, one[m - 1])
    <3>1. CASE m = 1
      <4>1. \A b, c : HeldAt(E, s, 1, b) = HeldAt(E, s, 1, c)
        BY DEF HeldAt
      <4>2. one[m] = HeldAt(E, s, 1, IF n = 0 THEN held[0] ELSE held[1 - 1])
        BY <2>2, <2>3, <3>1
      <4> HIDE DEF one
      <4> QED
        BY <3>1, <4>1, <4>2
    <3>2. CASE m = n + 1 /\ m # 1
      <4>1. one[m] = last /\ one[m - 1] = held[n]
        BY <2>2, <3>2
      <4> HIDE DEF one
      <4> QED
        BY <3>2, <4>1
    <3>3. CASE m # n + 1 /\ m # 1
      <4>1. one[m] = held[m] /\ one[m - 1] = held[m - 1] /\ m \in 1..n
        BY <2>2, <3>3
      <4> HIDE DEF one
      <4> QED
        BY <2>3, <4>1
    <3> QED
      BY <3>1, <3>2, <3>3
  <2>5. one = [m \in 1..(n + 1) |-> one[m]]
    OBVIOUS
  <2> HIDE DEF one
  <2>6. IsHeld(one, E, s, n + 1)
    BY <2>4, <2>5 DEF IsHeld
  <2> QED
    BY <2>2, <2>6
<1>3. N = Nat
  <2>1. N \in SUBSET Nat
    OBVIOUS
  <2> HIDE DEF N
  <2> QED
    BY <1>1, <1>2, <2>1, HoldsAll
<1> QED
  BY <1>3

\* Where every entry has one before it, or a pin, all of them lead back.
LEMMA FollowsAnchored ==
    ASSUME PinsInv, NEW E \in SUBSET Envelopes, \A f \in E : Follows(E, f), NEW e \in E
    PROVE  Anchored(E, e)
<1> DEFINE s == Stream(e)
           held == CHOOSE h : IsHeld(h, E, s, Seq(e))
<1>1. Seq(e) \in Nat \ {0} /\ \A f \in E : Seq(f) \in Nat \ {0}
  BY EnvelopeTyped
<1>2. IsHeld(held, E, s, Seq(e))
  BY <1>1, HeldExists
<1>3. Anchored(E, e) <=> e.hash \in held[Seq(e)]
  BY DEF Anchored, IsHeld, HeldAt
<1> HIDE DEF held
<1>4. \A n \in 1..Seq(e) : held[n] = HeldAt(E, s, n, held[n - 1])
  BY <1>2 DEF IsHeld
<1> DEFINE All(n) == \A f \in E : Stream(f) = s /\ Seq(f) = n => f.hash \in held[n]
           N == {n \in Nat : n <= Seq(e) => All(n)}
<1>5. 0 \in N
  BY <1>1
<1>6. ASSUME NEW n \in N PROVE n + 1 \in N
  <2> SUFFICES ASSUME n + 1 <= Seq(e), NEW f \in E, Stream(f) = s, Seq(f) = n + 1
               PROVE  f.hash \in held[n + 1]
    OBVIOUS
  <2>1. n \in Nat /\ n + 1 \in 1..Seq(e) /\ (n + 1) - 1 = n /\ n <= Seq(e)
    BY <1>1
  <2>2. held[n + 1] = HeldAt(E, s, n + 1, held[n])
    BY <1>4, <2>1
  <2>3. All(n)
    BY <2>1
  <2>4. CASE Seq(f) = 1 /\ Prev(f) = Zero
    BY <2>2, <2>4 DEF HeldAt
  <2>5. CASE \E g \in E : Stream(g) = Stream(f) /\ Seq(g) = Seq(f) - 1 /\ g.hash = Prev(f)
    <3>1. PICK g \in E : Stream(g) = Stream(f) /\ Seq(g) = Seq(f) - 1 /\ g.hash = Prev(f)
      BY <2>5
    <3>2. Seq(g) = n /\ n + 1 > 1
      BY <1>1, <2>1, <3>1
    <3>3. Prev(f) \in held[n]
      BY <2>3, <3>1, <3>2
    <3> QED
      BY <2>2, <3>2, <3>3 DEF HeldAt
  <2>6. CASE \E p \in Heads(Stream(f)) : p.seq = Seq(f) - 1 /\ p.hash = Prev(f)
    <3>1. PICK p \in Heads(Stream(f)) : p.seq = Seq(f) - 1 /\ p.hash = Prev(f)
      BY <2>6
    <3>2. p.seq = n /\ p.seq >= 1
      BY <2>1, <3>1 DEF PinsInv, Heads
    <3>3. n + 1 > 1 /\ AnchorCovered(f)
      BY <2>1, <3>1, <3>2 DEF AnchorCovered
    <3> QED
      BY <2>2, <3>3 DEF HeldAt
  <2> QED
    BY <2>4, <2>5, <2>6 DEF Follows
<1>7. N = Nat
  <2>1. N \in SUBSET Nat
    OBVIOUS
  <2> HIDE DEF N
  <2> QED
    BY <1>5, <1>6, <2>1, HoldsAll
<1>8. All(Seq(e))
  BY <1>1, <1>7
<1> QED
  BY <1>3, <1>8

\* What is trusted is a pinned chain.
LEMMA TrustedIsChain ==
    ASSUME TypeOK, NEW E \in SUBSET Envelopes, Verdict(E) = "TRUSTED_AT_PIN"
    PROVE  IsPinnedChain(E)
<1>1. Sound(E)
  BY TrustedSound
<1>2. E # {} /\ ~Untrusted(E) /\ Required \subseteq Attested(E)
  BY DEF Verdict
<1>3. \A e, f \in E : Stream(e) = Stream(f) /\ Seq(e) = Seq(f) => e.hash = f.hash
  BY <1>1 DEF Sound, Fork
<1>4. ASSUME NEW e \in E PROVE Follows(E, e)
  <2>1. ~Broken(E, e) \/ AnchorCovered(e)
    BY <1>1 DEF Sound, Gap
  <2> QED
    BY <2>1 DEF Broken, AnchorCovered, Follows, Slot
<1>5. ASSUME NEW e \in E PROVE SignedInCharge(e)
  <2>1. ~KeyUnknown(e) /\ ~ScopeMismatch(e) /\ ~Compromised(e) /\ ~SignatureInvalid(e)
    BY <1>2 DEF Untrusted, Distrusted
  <2>2. PICK k \in Covering(e) : k.status # "COMPROMISED"
    BY <2>1 DEF KeyUnknown, ScopeMismatch, Compromised
  <2>3. e.genuine
    BY <2>1, <2>2 DEF SignatureInvalid
  <2> QED
    BY <2>2, <2>3 DEF Covering, Scoped, RolePins, Covers, SignedInCharge
<1>6. ASSUME NEW e \in E, NEW p \in Heads(Stream(e))
      PROVE  /\ p.seq >= Seq(e) =>
                    \E f \in E : f.hash = p.hash /\ Stream(f) = Stream(e) /\ Seq(f) = p.seq
             /\ p.seq = Seq(e) - 1 => Prev(e) = p.hash
  <2>1. Seq(e) \in Nat /\ p.seq \in Nat
    BY EnvelopeTyped, PackageAssumption DEF TypeOK, Heads
  <2>2. p.seq >= Seq(e) <=> Seq(e) <= p.seq
    BY <2>1
  <2> QED
    BY <1>1, <2>2, PinReached, PinJustBelow
<1>7. Required \subseteq {Step(e) : e \in E}
  BY <1>2 DEF Attested
<1> QED
  BY <1>2, <1>3, <1>4, <1>5, <1>6, <1>7 DEF IsPinnedChain

\* A pinned chain is trusted.
LEMMA ChainIsTrusted ==
    ASSUME PinsInv, NEW E \in SUBSET Envelopes, IsPinnedChain(E)
    PROVE  Verdict(E) = "TRUSTED_AT_PIN"
<1>1. /\ E # {}
      /\ \A e, f \in E : Stream(e) = Stream(f) /\ Seq(e) = Seq(f) => e.hash = f.hash
      /\ \A e \in E : Follows(E, e) /\ SignedInCharge(e)
      /\ \A e \in E : \A p \in Heads(Stream(e)) :
            /\ p.seq >= Seq(e) =>
                  \E f \in E : f.hash = p.hash /\ Stream(f) = Stream(e) /\ Seq(f) = p.seq
            /\ p.seq = Seq(e) - 1 => Prev(e) = p.hash
      /\ Required \subseteq {Step(e) : e \in E}
  BY DEF IsPinnedChain
<1>2. ~Fork(E)
  BY <1>1 DEF Fork
<1>3. ASSUME NEW e \in E, NEW p \in Heads(Stream(e)), p.seq >= Seq(e)
      PROVE  p.hash \in Slot(E, Stream(e), p.seq)
  BY <1>1, <1>3 DEF Slot
<1>4. ~PinMismatch(E)
  BY <1>1, <1>3 DEF PinMismatch
<1>5. ~PinAhead(E)
  BY <1>3 DEF PinAhead
<1>6. ASSUME NEW e \in E PROVE ~Distrusted(e)
  <2>1. PICK k \in trust.keys :
            /\ k.id = Key(e) /\ k.role = Role /\ k.stream = Stream(e)
            /\ k.first <= Seq(e) /\ Seq(e) <= k.last
            /\ k.status # "COMPROMISED"
            /\ e.genuine
    BY <1>1 DEF SignedInCharge
  <2>2. k \in RolePins(e) /\ k \in Scoped(e) /\ k \in Covering(e)
    BY <2>1 DEF RolePins, Scoped, Covering, Covers
  <2>3. \A l \in Covering(e) : l = k
    <3>1. e \in Envelopes
      OBVIOUS
    <3> QED
      BY <2>1, <2>2, <3>1 DEF PinsInv, TypeOK, RolePins, Scoped, Covering
  <2>4. ~Compromised(e)
    BY <2>1, <2>3 DEF Compromised
  <2> QED
    BY <2>1, <2>2, <2>4 DEF Distrusted, KeyUnknown, ScopeMismatch, SignatureInvalid
<1>7. ASSUME NEW e \in E, Broken(E, e) PROVE AnchorCovered(e)
  <2>1. Follows(E, e)
    BY <1>1
  <2>2. CASE Seq(e) = 1 /\ Prev(e) = Zero
    BY <1>7, <2>2 DEF Broken
  <2>3. CASE \E f \in E : Stream(f) = Stream(e) /\ Seq(f) = Seq(e) - 1 /\ f.hash = Prev(e)
    <3>1. PICK f \in E : Stream(f) = Stream(e) /\ Seq(f) = Seq(e) - 1 /\ f.hash = Prev(e)
      BY <2>3
    <3>2. Seq(e) # 1
      BY <3>1, EnvelopeTyped
    <3> QED
      BY <1>7, <3>1, <3>2 DEF Broken, Slot
  <2>4. CASE \E p \in Heads(Stream(e)) : p.seq = Seq(e) - 1 /\ p.hash = Prev(e)
    BY <2>4 DEF AnchorCovered
  <2> QED
    BY <2>1, <2>2, <2>3, <2>4 DEF Follows
<1>8. ~Gap(E)
  BY <1>7 DEF Gap
<1>9. \A e \in E : Anchored(E, e)
  BY <1>1, FollowsAnchored
<1>10. Required \subseteq Attested(E)
  BY <1>1, <1>6, <1>9 DEF Attested
<1>11. ~CoverageMissing(E)
  BY <1>10 DEF CoverageMissing
<1>12. ~Conflicted(E) /\ ~Untrusted(E) /\ ~Incomplete(E)
  BY <1>2, <1>4, <1>5, <1>6, <1>8, <1>11 DEF Conflicted, Untrusted, Incomplete
<1> QED
  BY <1>1, <1>10, <1>12 DEF Verdict

\* A verifier says TRUSTED_AT_PIN of single, whole, signed chains that pass through
\* the pins, and of all of those, although the code judges each part apart.
THEOREM TrustIsPinnedChain == Spec => []TrustedIsPinnedChain
<1>1. PinsInv => TrustedIsPinnedChain
  <2> SUFFICES ASSUME PinsInv, NEW v \in Verifiers
               PROVE  Trusts(v) <=> IsPinnedChain(given[v])
    BY DEF TrustedIsPinnedChain
  <2>1. TypeOK /\ given[v] \in SUBSET Envelopes
    BY DEF PinsInv, TypeOK
  <2> QED
    BY <2>1, TrustedIsChain, ChainIsTrusted DEF Trusts
<1> QED
  BY <1>1, PinsInvHolds, PTL

===============================================================================
