---------------------------- MODULE MCChainTrust ----------------------------
(***************************************************************************)
(* A stream of three entries under two keys, a branch that leaves it after *)
(* the first, and the second entry of another source's stream.            *)
(***************************************************************************)
EXTENDS ChainTrust, TLC

Entry(stream, seq, prev, key, step) ==
    [stream |-> stream, seq |-> seq, prev |-> prev, key |-> key, step |-> step]

Bodies ==
    "a1" :> Entry("A", 1, "zero", "k1", "s1") @@
    "a2" :> Entry("A", 2, "a1", "k1", "s2") @@
    "a3" :> Entry("A", 3, "a2", "k2", "s3") @@
    "b2" :> Entry("A", 2, "a1", "k1", "s2") @@
    "c2" :> Entry("C", 2, "c1", "k3", "s3")

Forged == {"a2"}

Circulating ==
    {[hash |-> h, genuine |-> TRUE] : h \in DOMAIN Bodies} \cup
    {[hash |-> h, genuine |-> FALSE] : h \in Forged}

KeyPin(id, stream, first, last, status) ==
    [id |-> id, role |-> "origin", stream |-> stream, first |-> first, last |-> last, status |-> status]

HeadPin(stream, seq, hash) == [role |-> "origin", stream |-> stream, seq |-> seq, hash |-> hash]

Others == {KeyPin("k2", "A", 3, 9, "ACTIVE"), KeyPin("k3", "C", 1, 9, "ACTIVE")}
Good == Others \cup {KeyPin("k1", "A", 1, 2, "RETIRED")}

KeySets ==
    {Others \cup {KeyPin("k1", "A", 1, 2, "COMPROMISED")},
     Others \cup {KeyPin("k1", "C", 10, 12, "ACTIVE")},
     Others \cup {KeyPin("k1", "A", 1, 3, "ACTIVE")},
     Others \cup {KeyPin("k1", "A", 2, 2, "ACTIVE")}}

HeadSets ==
    {{}, {HeadPin("A", 1, "a1")}, {HeadPin("A", 2, "b2")}, {HeadPin("A", 2, "a2"), HeadPin("A", 2, "b2")},
     {HeadPin("A", 3, "a3"), HeadPin("C", 1, "c1")}, {HeadPin("A", 2, "a2"), HeadPin("C", 1, "x1")}}

\* Every set of keys with the first entry pinned, every set of heads with good keys.
AllPackages ==
    {[keys |-> K, heads |-> {HeadPin("A", 1, "a1")}] : K \in KeySets} \cup
    {[keys |-> Good, heads |-> H] : H \in HeadSets}

VerifierSymmetry == Permutations(Verifiers)

===============================================================================
