------------------------------ MODULE ChainTrust ------------------------------
(***************************************************************************)
(* What a trust package makes of signed chains: evalChains                 *)
(* (packages/core/src/trust.ts, _eval_chains in                            *)
(* python/vislineage/verify.py) and the rules for a package that comes     *)
(* before it (validateTrust in packages/core/src/schema.ts).               *)
(*                                                                         *)
(* Several verifiers hold the same package.  Each gets envelopes from      *)
(* whoever hands them over, in any order and from any number of bundles,   *)
(* and judges what it has.  A hash stands for one body, as SHA-256 does:   *)
(* the verifier recomputes it before the chains are evaluated.  An         *)
(* envelope is a hash and whether its signature is that of the public key  *)
(* that the package pins for the body's key.                               *)
(***************************************************************************)
EXTENDS Integers, FiniteSets

CONSTANTS
    Verifiers,
    Role,      \* "origin" or "audit"
    Hashes,
    Body,      \* hash -> [stream, seq, prev, key, step]
    Zero,      \* the prev of a first entry
    Required,  \* the steps that need an attestation; none for the audit role
    Envelopes, \* those in circulation
    Packages   \* trust packages

ASSUME RoleAssumption == Role \in {"origin", "audit"}

ASSUME HashAssumption == Zero \notin Hashes /\ \A h \in Hashes : Body[h].seq \in Nat \ {0}

ASSUME EnvelopeAssumption == Envelopes \subseteq [hash : Hashes, genuine : BOOLEAN]

\* Counters are decimal numbers (schema.ts).
ASSUME PackageAssumption ==
    \A t \in Packages :
        /\ \A k \in t.keys : k.first \in Nat /\ k.last \in Nat
        /\ \A p \in t.heads : p.seq \in Nat

ASSUME AuditAssumption == Role = "audit" => Required = {}

VARIABLES
    trust, \* the package: keys and heads
    given  \* verifier -> the envelopes it has

vars == <<trust, given>>

-------------------------------------------------------------------------------
(* The package. *)

Covers(k, n) == k.first <= n /\ n <= k.last

\* Rules that let two keys share a position.
ValidTrustOverlapping(t) ==
    /\ \A k, l \in t.keys : k # l => k.id # l.id
    /\ \A k \in t.keys : 1 <= k.first /\ k.first <= k.last

\* Key ids are unique, keys of one scope follow one another, and a position is
\* pinned once.
ValidTrust(t) ==
    /\ \A k, l \in t.keys : k # l =>
          /\ k.id # l.id
          /\ k.role = l.role /\ k.stream = l.stream => k.last < l.first \/ l.last < k.first
    /\ \A k \in t.keys : 1 <= k.first /\ k.first <= k.last
    /\ \A p \in t.heads : p.seq >= 1
    /\ \A p, q \in t.heads :
          p.role = q.role /\ p.stream = q.stream /\ p.seq = q.seq => p.hash = q.hash

-------------------------------------------------------------------------------
(* The structure of the chains: bodies and links only. *)

Stream(e) == Body[e.hash].stream
Seq(e) == Body[e.hash].seq
Prev(e) == Body[e.hash].prev
Key(e) == Body[e.hash].key
Step(e) == Body[e.hash].step

\* The hashes that E has at a position of a stream.
Slot(E, s, n) == {e.hash : e \in {f \in E : Stream(f) = s /\ Seq(f) = n}}

Heads(s) == {p \in trust.heads : p.role = Role /\ p.stream = s}

Broken(E, e) ==
    IF Seq(e) = 1 THEN Prev(e) # Zero ELSE Prev(e) \notin Slot(E, Stream(e), Seq(e) - 1)

AnchorCovered(e) == \E p \in Heads(Stream(e)) : p.seq = Seq(e) - 1 /\ p.hash = Prev(e)

\* A gap that only the earliest entry of a stream can have.
GapAtStart(E) ==
    \E e \in E :
        /\ Broken(E, e) /\ ~AnchorCovered(e)
        /\ \A f \in E : Stream(f) = Stream(e) => Seq(e) <= Seq(f)

Gap(E) == \E e \in E : Broken(E, e) /\ ~AnchorCovered(e)

Fork(E) == \E e, f \in E : Stream(e) = Stream(f) /\ Seq(e) = Seq(f) /\ e.hash # f.hash

Earliest(E, s, n) == Slot(E, s, n) # {} /\ \A e \in E : Stream(e) = s => n <= Seq(e)

\* A pin just below the earliest entry must be what that links to; one below
\* that says nothing; any other must be the hash at its position.
PinMismatch(E) ==
    \E e \in E : \E p \in Heads(Stream(e)) :
        /\ Earliest(E, Stream(e), Seq(e))
        /\ \/ /\ p.seq = Seq(e) - 1
              /\ \A f \in E : Stream(f) = Stream(e) /\ Seq(f) = Seq(e) => Prev(f) # p.hash
           \/ /\ p.seq >= Seq(e)
              /\ Slot(E, Stream(e), p.seq) # {}
              /\ p.hash \notin Slot(E, Stream(e), p.seq)

\* A pin is passed over when the entries end before it.
PinAheadNever(E) == FALSE

\* The entries do not reach the pin.
PinAhead(E) ==
    \E e \in E : \E p \in Heads(Stream(e)) :
        /\ Earliest(E, Stream(e), Seq(e))
        /\ p.seq >= Seq(e)
        /\ Slot(E, Stream(e), p.seq) = {}

\* The entries that lead back to the first of their stream or to a pin.
Anchored(E, e) ==
    LET entries == {f \in E : Stream(f) = Stream(e)}
        held[n \in 1..Seq(e)] ==
            {f.hash : f \in {g \in entries :
                /\ Seq(g) = n
                /\ \/ n = 1 /\ Prev(g) = Zero
                   \/ n > 1 /\ (AnchorCovered(g) \/ Prev(g) \in held[n - 1])}}
    IN  e.hash \in held[Seq(e)]

-------------------------------------------------------------------------------
(* Signatures and the scope of keys. *)

RolePins(e) == {k \in trust.keys : k.id = Key(e) /\ k.role = Role}
Scoped(e) == {k \in RolePins(e) : k.stream = Stream(e)}
Covering(e) == {k \in Scoped(e) : Covers(k, Seq(e))}

KeyUnknown(e) == RolePins(e) = {} \/ (Scoped(e) # {} /\ Covering(e) = {})
ScopeMismatch(e) == RolePins(e) # {} /\ Scoped(e) = {}

Compromised(e) == \E k \in Covering(e) : k.status = "COMPROMISED"

\* Covered by a pin that does not say COMPROMISED, and signed with another key.
SignatureInvalid(e) == Covering(e) # {} /\ ~Compromised(e) /\ ~e.genuine

Distrusted(e) ==
    KeyUnknown(e) \/ ScopeMismatch(e) \/ Compromised(e) \/ SignatureInvalid(e)

\* The steps with an attestation that holds in full, and those with one that
\* does not.
Attested(E) == {Step(e) : e \in {f \in E : ~Distrusted(f) /\ Anchored(E, f)}}
Explained(E) == {Step(e) : e \in {f \in E : Distrusted(f) \/ ~Anchored(E, f)}}

CoverageMissing(E) == E # {} /\ ~(Required \subseteq Attested(E) \cup Explained(E))

-------------------------------------------------------------------------------
(* The verdict, in the order of precedence. *)

Conflicted(E) == Role = "origin" /\ (Fork(E) \/ PinMismatch(E))

\* One good signature makes up for the others.
UntrustedByAll(E) == Fork(E) \/ PinMismatch(E) \/ (E # {} /\ \A e \in E : Distrusted(e))

Untrusted(E) == Fork(E) \/ PinMismatch(E) \/ \E e \in E : Distrusted(e)

Incomplete(E) == Gap(E) \/ PinAhead(E) \/ CoverageMissing(E)

Verdict(E) ==
    IF Conflicted(E) THEN "CONFLICTED"
    ELSE IF Untrusted(E) THEN "UNTRUSTED"
    ELSE IF Incomplete(E) THEN "INCOMPLETE"
    ELSE IF E = {} THEN (IF Role = "origin" THEN "UNSIGNED" ELSE "INCOMPLETE")
    ELSE IF Required \subseteq Attested(E) THEN "TRUSTED_AT_PIN"
    ELSE "INCOMPLETE"

-------------------------------------------------------------------------------

\* A verifier is handed one more envelope.
Supply(v) ==
    \E e \in Envelopes \ given[v] :
        /\ given' = [given EXCEPT ![v] = @ \cup {e}]
        /\ UNCHANGED trust

Init ==
    /\ trust \in {t \in Packages : ValidTrust(t)}
    /\ given = [v \in Verifiers |-> {}]

Next == \E v \in Verifiers : Supply(v)

Spec == Init /\ [][Next]_vars

-------------------------------------------------------------------------------
(* Types. *)

\* The package puts at most one key in charge of an entry's position.
TypeOK ==
    /\ trust \in Packages
    /\ given \in [Verifiers -> SUBSET Envelopes]
    /\ \A k, l \in trust.keys : \A e \in Envelopes :
          k.role = l.role /\ k.stream = l.stream /\ Covers(k, Seq(e)) /\ Covers(l, Seq(e)) => k = l

-------------------------------------------------------------------------------
(* What a verdict is worth. *)

Trusts(v) == Verdict(given[v]) = "TRUSTED_AT_PIN"

\* Two verifiers that trust what they have, under one package, have the same
\* entries at every position of a stream up to a head that it pins, whatever
\* they were handed and by whom.
PinsDecide ==
    \A v, w \in Verifiers :
        Trusts(v) /\ Trusts(w) =>
            \A e \in given[v], f \in given[w] :
                Stream(e) = Stream(f) /\ Seq(e) = Seq(f) /\ (\E p \in Heads(Stream(e)) : Seq(e) <= p.seq)
                    => e.hash = f.hash

\* What is in conflict or not trusted is not made good by handing over more: no
\* envelope clears a fork, a wrong pin or a bad signature.
DistrustStays ==
    [][\A v \in Verifiers :
          Verdict(given[v]) \in {"CONFLICTED", "UNTRUSTED"} => Verdict(given'[v]) # "TRUSTED_AT_PIN"]_vars

\* The entry before e, in E or pinned.
Follows(E, e) ==
    \/ Seq(e) = 1 /\ Prev(e) = Zero
    \/ \E f \in E : Stream(f) = Stream(e) /\ Seq(f) = Seq(e) - 1 /\ f.hash = Prev(e)
    \/ \E p \in Heads(Stream(e)) : p.seq = Seq(e) - 1 /\ p.hash = Prev(e)

\* The key the package has in charge of e's position, if any, signed it.
SignedInCharge(e) ==
    \E k \in trust.keys :
        /\ k.id = Key(e) /\ k.role = Role /\ k.stream = Stream(e)
        /\ k.first <= Seq(e) /\ Seq(e) <= k.last
        /\ k.status # "COMPROMISED"
        /\ e.genuine

\* A single chain per stream, without holes from its first entry on, that passes
\* through every pin it comes as low as, is signed by the keys in charge and
\* attests to every step that must be.
IsPinnedChain(E) ==
    /\ E # {}
    /\ \A e, f \in E : Stream(e) = Stream(f) /\ Seq(e) = Seq(f) => e.hash = f.hash
    /\ \A e \in E : Follows(E, e) /\ SignedInCharge(e)
    /\ \A e \in E : \A p \in Heads(Stream(e)) :
          /\ p.seq >= Seq(e) => \E f \in E : f.hash = p.hash /\ Stream(f) = Stream(e) /\ Seq(f) = p.seq
          /\ p.seq = Seq(e) - 1 => Prev(e) = p.hash
    /\ Required \subseteq {Step(e) : e \in E}

\* TRUSTED_AT_PIN is said of those chains and of no others, although gaps,
\* anchors, pins, signatures and coverage are each judged apart.
TrustedIsPinnedChain ==
    \A v \in Verifiers : Trusts(v) <=> IsPinnedChain(given[v])

===============================================================================
