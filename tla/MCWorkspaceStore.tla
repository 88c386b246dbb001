--------------------------- MODULE MCWorkspaceStore ---------------------------
(***************************************************************************)
(* Small instances of WorkspaceStore for TLC.                              *)
(***************************************************************************)
EXTENDS WorkspaceStore, TLC

Step(tr, rec, native, version, refs) ==
    [trace |-> tr, source |-> "langsmith", record |-> rec, native |-> native,
     version |-> version, refs |-> refs]

Origin(seq, step) == [source |-> "langsmith", stream |-> "o", seq |-> seq, step |-> step]

Text  == [digest |-> "d", format |-> "text"]
Other == [digest |-> "d", format |-> "json"]

Batch(tr, ss, os, as) ==
    [trace |-> tr, source |-> "langsmith", steps |-> ss, origins |-> os, artifacts |-> as]

A1 == Step("t1", "a", "n1", 1, {Text})
A2 == Step("t1", "a", "n1", 2, {})
B1 == Step("t1", "b", "n1", 1, {Other})
A3 == Step("t2", "a", "n2", 1, {})
C1 == Step("t2", "c", "n1", 1, {})

\* Three batches of one trace: Later overlaps Both with the second version of a
\* record, and its origin is acceptable only once Both's is stored; Aside can be
\* staged beside Both, and holds other bytes to be the same artifact.  And two
\* batches of another trace whose record, or native trace, is that of Both.
Both    == Batch("t1", {A1, A2}, {Origin(2, A1)}, {Text})
Later   == Batch("t1", {A2, B1}, {Origin(1, C1)}, {})
Aside   == Batch("t1", {B1}, {}, {Other})
Record  == Batch("t2", {A3}, {}, {})
Native  == Batch("t2", {C1}, {Origin(1, C1)}, {})

OneTrace  == {Both, Later, Aside}
TwoTraces == {Both, Record, Native}

\* Request ids are interchangeable: look only at behaviours that store the
\* responses of 1, 2, 3... in that order.
InOrder == \A r \in DOMAIN idempotency : \A q \in Requests : q < r => q \in DOMAIN idempotency

\* Bound: at most MaxReplays stored responses repeat what another request did.
MaxReplays == 1

FewReplays ==
    Cardinality(DOMAIN idempotency)
        <= MaxReplays + Cardinality({n \in DOMAIN audit : audit[n].request \in Requests})

\* Import ids are interchangeable.
ImportSymmetry == Permutations(Imports)

===============================================================================
