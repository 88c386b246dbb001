------------------------------ MODULE KeyRotation ------------------------------
(***************************************************************************)
(* Rotation of the audit key: the command key rotate                       *)
(* (packages/cli/src/main.ts), keyRotate                                   *)
(* (packages/sqlite/src/maintenance.ts), and the commands that sign with   *)
(* the key the configuration names.                                        *)
(*                                                                         *)
(* A command reads the configuration first and takes the writer lock then. *)
(* A rotation is three writes, of which only the first is in the           *)
(* transaction: the entry KeyRotated, the file for the verifiers, the      *)
(* configuration.  A command may fail or be killed between any two.  The   *)
(* lock is taken to exclude here; WriterLock says when it does.            *)
(***************************************************************************)
EXTENDS Integers, Sequences

CONSTANTS
    Procs,     \* processes that run commands
    Nobody,
    Keys,      \* key ids
    FirstKey,  \* the key init makes
    NoKey,     \* what an entry that is no rotation names as next
    MaxEntries \* bound on the log

ASSUME ProcAssumption == Nobody \notin Procs

ASSUME KeyAssumption == FirstKey \in Keys /\ NoKey \notin Keys

ASSUME MaxAssumption == MaxEntries \in Nat

VARIABLES
    log,     \* the audit log: who signed, and the key a rotation names
    config,  \* audit_key_id of the configuration file
    updates, \* the trust files written
    owner,   \* who holds the writer lock
    pc,      \* process -> where its command is
    key,     \* process -> the key id it loaded
    next,    \* process -> the key id a rotation is to bring
    cut      \* history: where the log has rotations that were cut off

vars == <<log, config, updates, owner, pc, key, next, cut>>

Entries == [key : Keys, next : Keys \cup {NoKey}]

Goto(p, place) == pc' = [pc EXCEPT ![p] = place]

-------------------------------------------------------------------------------

\* loadConfig, before the lock.
LoadConfig(p) ==
    /\ pc[p] = "out"
    /\ key' = [key EXCEPT ![p] = config]
    /\ \E k \in Keys : next' = [next EXCEPT ![p] = k]
    /\ Goto(p, "loaded")
    /\ UNCHANGED <<log, config, updates, owner, cut>>

\* A lock that is taken whoever holds it.
FreeOrHeld == TRUE

Free == owner = Nobody

\* openService takes the lock, or is BUSY and the command ends.
Open(p) ==
    /\ pc[p] = "loaded"
    /\ \/ /\ Free
          /\ owner' = p
          /\ Goto(p, "open")
       \/ /\ ~Free
          /\ Goto(p, "out")
          /\ UNCHANGED owner
    /\ UNCHANGED <<log, config, updates, key, next, cut>>

\* Any transaction that signs an entry.
Sign(p) ==
    /\ pc[p] = "open"
    /\ Len(log) < MaxEntries
    /\ log' = Append(log, [key |-> key[p], next |-> NoKey])
    /\ UNCHANGED <<config, updates, owner, pc, key, next, cut>>

\* keyRotate: the transaction, signed with the old key.
Rotate(p) ==
    /\ pc[p] = "open"
    /\ Len(log) < MaxEntries
    /\ log' = Append(log, [key |-> key[p], next |-> next[p]])
    /\ Goto(p, "rotated")
    /\ UNCHANGED <<config, updates, owner, key, next, cut>>

\* What the rotation tells the verifiers: the head before it was the old key's
\* last entry.  Nothing is signed between the transaction and here.
Update(p) ==
    [retire |-> key[p], last |-> Len(log) - 1, activate |-> next[p], first |-> Len(log)]

Committed(p) == pc[p] = "rotated"

WriteTrust(p) ==
    /\ Committed(p)
    /\ updates' = updates \cup {Update(p)}
    /\ Goto(p, "told")
    /\ UNCHANGED <<log, config, owner, key, next, cut>>

\* A configuration that is rewritten as soon as the lock is held.
ToldOrOpen(p) == pc[p] \in {"told", "open"}

\* A configuration that is rewritten before the trust file is written.
ToldOrRotated(p) == pc[p] \in {"told", "rotated"}

Told(p) == pc[p] = "told"

RewriteConfig(p) ==
    /\ Told(p)
    /\ config' = next[p]
    /\ Goto(p, "done")
    /\ UNCHANGED <<log, updates, owner, key, next, cut>>

Rotating(p) == pc[p] \in {"rotated", "told"}

\* A command ends, fails on a file that exists, or is killed.
Leave(p) ==
    /\ pc[p] # "out"
    /\ Goto(p, "out")
    /\ owner' = IF owner = p THEN Nobody ELSE owner
    /\ cut' = IF Rotating(p) THEN cut \cup {Len(log)} ELSE cut
    /\ UNCHANGED <<log, config, updates, key, next>>

\* init signs WorkspaceCreated and writes the configuration.
Init ==
    /\ log = <<[key |-> FirstKey, next |-> NoKey]>>
    /\ config = FirstKey
    /\ updates = {}
    /\ owner = Nobody
    /\ pc = [p \in Procs |-> "out"]
    /\ key = [p \in Procs |-> FirstKey]
    /\ next = [p \in Procs |-> FirstKey]
    /\ cut = {}

Next ==
    \E p \in Procs :
        \/ LoadConfig(p) \/ Open(p) \/ Sign(p) \/ Leave(p)
        \/ Rotate(p) \/ WriteTrust(p) \/ RewriteConfig(p)

Spec == Init /\ [][Next]_vars

-------------------------------------------------------------------------------
(* Types. *)

\* A process past the lock is its owner.
TypeOK ==
    /\ log \in Seq(Entries)
    /\ config \in Keys
    /\ updates \subseteq [retire : Keys, last : Nat, activate : Keys, first : Nat]
    /\ owner \in Procs \cup {Nobody}
    /\ pc \in [Procs -> {"out", "loaded", "open", "rotated", "told", "done"}]
    /\ \A p \in Procs : pc[p] \in {"open", "rotated", "told", "done"} => owner = p
    /\ key \in [Procs -> Keys]
    /\ next \in [Procs -> Keys]
    /\ cut \subseteq DOMAIN log

-------------------------------------------------------------------------------
(* What the log says of the keys. *)

\* The keys that the first n entries name, and the first key.
Announced(n) == {FirstKey} \cup {log[m].next : m \in 1..n}

\* No entry is signed with a key that the log has not named before: a reader of
\* the log never meets a signature that the key before it did not vouch for,
\* wherever rotations were cut off.
KeysAnnounced == \A n \in DOMAIN log : log[n].key \in Announced(n - 1)

\* A trust file tells of a rotation that is in the log, at the position where it
\* says that the new key begins.
UpdatesSigned ==
    \A u \in updates :
        u.first \in DOMAIN log /\ log[u.first] = [key |-> u.retire, next |-> u.activate]

\* The rotations that were not cut off, or not yet.
Unbroken == {n \in DOMAIN log : log[n].next # NoKey} \ cut

\* Whatever commands do before, between and after, with whatever configuration
\* they loaded: when no rotation is under way, the configuration names the key of
\* the last one that was not cut off, which each have a trust file, and no trust
\* file tells of anything else than a rotation in the log (main.ts:514-521).
RotationsTakeEffect ==
    /\ UpdatesSigned
    /\ (\A p \in Procs : ~Rotating(p)) =>
          /\ \A n \in Unbroken : \E u \in updates : u.first = n
          /\ Unbroken = {} => config = FirstKey
          /\ \A n \in Unbroken : (\A m \in Unbroken : m <= n) => config = log[n].next

\* "the OLD key signs KeyRotated" (maintenance.ts:459): of a rotation to another
\* key, a verifier that merges the file leaves the entry to the key that signed it.
OldKeySignsRotation ==
    \A u \in updates :
        u.retire # u.activate =>
            \E n \in 1..u.last : log[n] = [key |-> u.retire, next |-> u.activate]

===============================================================================
