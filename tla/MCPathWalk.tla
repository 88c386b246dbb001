------------------------------ MODULE MCPathWalk ------------------------------
(***************************************************************************)
(* Small instances of PathWalk for TLC: five steps, every acyclic graph of *)
(* a shape, every order of each step's incoming edges.                     *)
(***************************************************************************)
EXTENDS PathWalk, FiniteSetsExt, SequencesExt

\* Bound: a step has at most two parents.
MaxParents == 2

Lists(S) == UNION {SetToSeqs(T) : T \in {U \in SUBSET S : Cardinality(U) <= MaxParents}}

\* Age numbers the steps so that a parent is older than its child.  Hashes are
\* no such numbering, so the steps are ordered against it.
Age(s) == (3 * s) % 5

Older(s) == Lists({p \in Steps : Age(p) > Age(s)})

\* The steps are 1 to 5, so a tuple says what each one's parents are.
Acyclic ==
    {<<a, b, c, d, e>> : a \in Older(1), b \in Older(2), c \in Older(3), d \in Older(4), e \in Older(5)}

OneVersion == {{s} : s \in Steps} \cup {{}, {1, 2}}

Youngest == {{CHOOSE s \in Steps : \A p \in Steps : Age(s) <= Age(p)}}

===============================================================================
