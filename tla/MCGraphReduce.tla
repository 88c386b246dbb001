----------------------------- MODULE MCGraphReduce -----------------------------
(***************************************************************************)
(* Traces for GraphReduce: native graphs of three and of four records,     *)
(* every three of a set of steps that share names and delegations, and     *)
(* every set of a few origins.                                             *)
(***************************************************************************)
EXTENDS GraphReduce, TLC

CONSTANT Nobody

Record(q) == [kind |-> "record", value |-> q]
Span(x) == [kind |-> "span", value |-> x]

Plain(source, record, span, parents) ==
    [source |-> source, record |-> record, native |-> "n", span |-> span, parents |-> parents,
     agent |-> Nobody, offers |-> {}, accept |-> Nothing]

OfferTo(step, d, source) ==
    [step EXCEPT !.offers = {[id |-> d, child_source |-> source, child_agent |-> "agent", scope |-> "z"]}]

Accept(step, d, source, record, hash, scope) ==
    [step EXCEPT !.agent = "agent",
                 !.accept = [id |-> d, scope |-> scope,
                             parent |-> [source |-> source, record |-> record, hash |-> hash]]]

\* Step 16 * r + v is the record r with the parents whose bits are set in v.
Parents(v) == {Record(q) : q \in {p \in 0..3 : (v \div (2 ^ p)) % 2 = 1}}
Numbered == [h \in 0..63 |-> Plain("s", h \div 16, <<h>>, Parents(h % 16))]

A == OfferTo(Plain("s", "a", "x", {Record("k")}), "d1", "t")

Special ==
    100 :> A @@
    101 :> Plain("s", "a", "y", {}) @@
    102 :> [A EXCEPT !.parents = {Record("c")}] @@
    103 :> Plain("s", "b", "b", {Span("x")}) @@
    104 :> Plain("s", "c", "x", {Record("b")}) @@
    105 :> [Plain("s", "e", "x", {Record("a"), Span("b")}) EXCEPT !.native = "m"] @@
    106 :> Accept(Plain("s", "k", "k", {}), "d2", "t", "g", 115, "z") @@
    110 :> Accept(Plain("t", "e", "e", {}), "d1", "s", "a", 100, "z") @@
    111 :> Accept(Plain("t", "f", "f", {}), "d1", "s", "a", 100, "z") @@
    112 :> Accept(Plain("t", "f", "f", {}), "d1", "s", "a", 100, "w") @@
    113 :> Accept(Plain("t", "f", "f", {}), "d1", "s", "b", 103, "z") @@
    115 :> OfferTo(Plain("t", "g", "g", {Record("e"), Span("e")}), "d2", "s")

Bodies == Numbered @@ Special

AllSteps == DOMAIN Bodies

\* One record may name itself.
ThreeRecords == {{a, 16 + b, 32 + c} : a \in 0..7, b \in {0, 1, 4, 5}, c \in {0, 1, 2, 3}}

Fewer(r, n) ==
    {16 * r + v : v \in {u \in 0..15 : Cardinality(Parents(u)) <= n /\ Record(r) \notin Parents(u)}}

\* One record may name two others.
FourRecords ==
    {{a, b, c, d} : a \in Fewer(0, 2), b \in Fewer(1, 1), c \in Fewer(2, 1), d \in Fewer(3, 1)}

\* Every three, and the cycle of two delegations and two native parents.
Few == {S \in SUBSET DOMAIN Special : Cardinality(S) <= 3} \cup {{100, 110, 115, 106}}

Origin(hash, stream, seq, prev, step) ==
    [hash |-> hash, stream |-> stream, seq |-> seq, prev |-> prev, step |-> step]

Attestations ==
    {Origin("o1", "o", 1, "zero", 0), Origin("o2", "o", 2, "o1", 16), Origin("o3", "o", 3, "o2", 0),
     Origin("p2", "o", 2, "o1", 99), Origin("p3", "o", 3, "q2", 16), Origin("r1", "r", 1, "r0", 16)}

Traces ==
    {[steps |-> S, origins |-> {}] : S \in ThreeRecords \cup FourRecords \cup Few} \cup
    {[steps |-> {0, 16}, origins |-> O] : O \in SUBSET Attestations}

===============================================================================
