------------------------------ MODULE TraceLedger ------------------------------
(***************************************************************************)
(* What a workspace promises its clients, and no more: an import is        *)
(* offered once and decided once; a committed one is the next entry of its *)
(* trace's ledger; an entry holds the steps of the entry before it and     *)
(* those of the import; and no entry is ever changed.  WorkspaceStore      *)
(* implements it.                                                          *)
(***************************************************************************)
EXTENDS Sequences, FiniteSets, Integers

CONSTANTS Traces, Imports, Batches

VARIABLES
    ledger,    \* trace -> its entries
    offered,   \* import -> the batch offered under it
    fate       \* import -> STAGED, COMMITTED or CANCELLED

ledgerVars == <<ledger, offered, fate>>

With(table, key, row) ==
    [k \in DOMAIN table \cup {key} |-> IF k = key THEN row ELSE table[k]]

Contents(entries) == IF entries = <<>> THEN {} ELSE entries[Len(entries)].steps

Create(tr) ==
    /\ tr \notin DOMAIN ledger
    /\ ledger' = With(ledger, tr, <<>>)
    /\ UNCHANGED <<offered, fate>>

Offer(i, b) ==
    /\ i \notin DOMAIN offered
    /\ b.trace \in DOMAIN ledger
    /\ offered' = With(offered, i, b)
    /\ fate' = With(fate, i, "STAGED")
    /\ UNCHANGED ledger

Commit(i) ==
    LET b == offered[i]
    IN  /\ i \in DOMAIN offered
        /\ fate[i] = "STAGED"
        /\ fate' = [fate EXCEPT ![i] = "COMMITTED"]
        /\ ledger' = [ledger EXCEPT ![b.trace] =
                        Append(@, [import |-> i, steps |-> Contents(@) \cup b.steps])]
        /\ UNCHANGED offered

\* One import is cancelled by its owner, or any number by the passing of time.
Cancel(S) ==
    /\ S # {}
    /\ \A i \in S : fate[i] = "STAGED"
    /\ fate' = [i \in DOMAIN fate |-> IF i \in S THEN "CANCELLED" ELSE fate[i]]
    /\ UNCHANGED <<ledger, offered>>

LedgerInit ==
    /\ ledger = [tr \in {} |-> <<>>]
    /\ offered = [i \in {} |-> {}]
    /\ fate = [i \in {} |-> "STAGED"]

LedgerNext ==
    \/ \E tr \in Traces : Create(tr)
    \/ \E i \in Imports, b \in Batches : Offer(i, b)
    \/ \E i \in Imports : Commit(i)
    \/ \E S \in SUBSET DOMAIN fate : Cancel(S)

LedgerSpec == LedgerInit /\ [][LedgerNext]_ledgerVars

================================================================================
