------------------------------- MODULE MCRecovery -------------------------------
(***************************************************************************)
(* A workspace of two traces that share an artifact.                       *)
(***************************************************************************)
EXTENDS Recovery

CONSTANTS t1, t2, i1, i2, d1

\* The second import brings the artifact again.
Content ==
    [i \in {i1, i2} |->
        [trace |-> t1, refs |-> {d1}, supplied |-> {d1}]]

\* Prunes of a trace whose artifact comes again; prunes of a trace with leases
\* on another; a restore of a workspace with an artifact; and two restores, of
\* which the second may find a log that has forked.
SomeBounds ==
    {[traces |-> {t1}, imports |-> {i1, i2}, entries |-> 7, leases |-> 0, epochs |-> 0],
     [traces |-> {t1, t2}, imports |-> {i1, i2}, entries |-> 6, leases |-> 1, epochs |-> 0],
     [traces |-> {t1}, imports |-> {i1}, entries |-> 5, leases |-> 0, epochs |-> 1],
     [traces |-> {t1, t2}, imports |-> {}, entries |-> 3, leases |-> 0, epochs |-> 2]}
=============================================================================
