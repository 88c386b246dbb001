--------------------------- MODULE KeyRotationProofs ---------------------------
(***************************************************************************)
(* Proofs about KeyRotation, for any number of processes, keys and entries. *)
(***************************************************************************)
EXTENDS KeyRotation, TLAPS

(* The inductive invariant: what a process is about to sign, to tell or to  *)
(* configure is already in the log.                                         *)

\* The configured key, and those that processes have loaded.
LoadedAnnounced ==
    /\ config \in Announced(Len(log))
    /\ \A p \in Procs : key[p] \in Announced(Len(log))

\* The key that a rotation brings, once it is in the log.
NextAnnounced ==
    \A p \in Procs : pc[p] \in {"rotated", "told"} => next[p] \in Announced(Len(log))

\* Between the transaction and the configuration nobody signs.
RotationIsLast ==
    \A p \in Procs :
        Rotating(p) => log[Len(log)] = [key |-> key[p], next |-> next[p]]

Known ==
    /\ TypeOK
    /\ Len(log) # 0
    /\ LoadedAnnounced
    /\ NextAnnounced
    /\ RotationIsLast
    /\ KeysAnnounced
    /\ UpdatesSigned

LEMMA InitKnown == Init => Known
<1> SUFFICES ASSUME Init PROVE Known
  OBVIOUS
<1> USE DEF Init
<1>1. TypeOK
  BY ProcAssumption, KeyAssumption DEF TypeOK, Entries
<1>2. Len(log) = 1 /\ log[1].key = FirstKey
  OBVIOUS
<1>3. LoadedAnnounced /\ NextAnnounced /\ RotationIsLast
  BY DEF LoadedAnnounced, NextAnnounced, RotationIsLast, Rotating, Announced
<1>4. KeysAnnounced /\ UpdatesSigned
  BY <1>2 DEF KeysAnnounced, UpdatesSigned, Announced
<1> QED
  BY <1>1, <1>2, <1>3, <1>4 DEF Known

(* An entry more keeps what the log has announced. *)

LEMMA AppendAnnounces ==
    ASSUME NEW e \in Entries, log \in Seq(Entries), log' = Append(log, e)
    PROVE  /\ Len(log') = Len(log) + 1
           /\ \A n \in DOMAIN log : log'[n] = log[n]
           /\ log'[Len(log')] = e
           /\ \A n \in 0..Len(log) : Announced(n)' = Announced(n)
           /\ Announced(Len(log)) \subseteq Announced(Len(log))'
           /\ e.next \in Announced(Len(log))'
<1>1. Len(log') = Len(log) + 1 /\ Len(log) \in Nat
  OBVIOUS
<1>2. \A n \in DOMAIN log : log'[n] = log[n]
  OBVIOUS
<1>3. log'[Len(log')] = e
  OBVIOUS
<1>4. \A n \in 0..Len(log) : Announced(n)' = Announced(n)
  BY <1>1, <1>2 DEF Announced
<1>5. Announced(Len(log)) \subseteq Announced(Len(log))'
  BY <1>1, <1>2 DEF Announced
<1>6. e.next \in Announced(Len(log))'
  BY <1>1, <1>3 DEF Announced
<1> QED
  BY <1>1, <1>2, <1>3, <1>4, <1>5, <1>6

(* Every step keeps each part. *)

LEMMA NextTyped == TypeOK /\ Len(log) # 0 /\ [Next]_vars => TypeOK'
<1> SUFFICES ASSUME TypeOK, Len(log) # 0, [Next]_vars PROVE TypeOK'
  OBVIOUS
<1> USE ProcAssumption, KeyAssumption DEF TypeOK, Entries
<1>1. ASSUME NEW p \in Procs, LoadConfig(p) PROVE TypeOK'
  BY <1>1 DEF LoadConfig, Goto
<1>2. ASSUME NEW p \in Procs, Open(p) PROVE TypeOK'
  BY <1>2 DEF Open, Free, Goto
<1>3. ASSUME NEW p \in Procs, Sign(p) PROVE TypeOK'
  BY <1>3 DEF Sign
<1>4. ASSUME NEW p \in Procs, Rotate(p) PROVE TypeOK'
  BY <1>4 DEF Rotate, Goto
<1>5. ASSUME NEW p \in Procs, WriteTrust(p) PROVE TypeOK'
  <2>1. Len(log) \in Nat /\ Len(log) - 1 \in Nat
    OBVIOUS
  <2>2. Update(p) \in [retire : Keys, last : Nat, activate : Keys, first : Nat]
    BY <2>1 DEF Update
  <2> QED
    BY <1>5, <2>2 DEF WriteTrust, Committed, Goto
<1>6. ASSUME NEW p \in Procs, RewriteConfig(p) PROVE TypeOK'
  BY <1>6 DEF RewriteConfig, Told, Goto
<1>7. ASSUME NEW p \in Procs, Leave(p) PROVE TypeOK'
  <2>1. Len(log) \in DOMAIN log
    OBVIOUS
  <2> QED
    BY <1>7, <2>1 DEF Leave, Goto
<1>8. CASE UNCHANGED vars
  BY <1>8 DEF vars
<1> QED
  BY <1>1, <1>2, <1>3, <1>4, <1>5, <1>6, <1>7, <1>8 DEF Next

\* The steps that sign: the entry is announced, and a rotation announces.
LEMMA SigningKeepsKnown ==
    ASSUME Known, TypeOK', NEW p \in Procs, Sign(p) \/ Rotate(p)
    PROVE  Known'
<1> DEFINE e == log'[Len(log')]
<1>1. /\ TypeOK /\ Len(log) \in Nat /\ Len(log) # 0
      /\ UNCHANGED <<config, updates, owner, key, next, cut>>
  BY DEF Known, TypeOK, Sign, Rotate
<1>2. \E k \in Keys \cup {NoKey} :
          /\ log' = Append(log, [key |-> key[p], next |-> k])
          /\ Rotate(p) => k = next[p]
  BY <1>1 DEF TypeOK, Sign, Rotate
<1>3. PICK k \in Keys \cup {NoKey} :
          /\ log' = Append(log, [key |-> key[p], next |-> k])
          /\ Rotate(p) => k = next[p]
  BY <1>2
<1>4. [key |-> key[p], next |-> k] \in Entries
  BY <1>1 DEF TypeOK, Entries
<1> HIDE DEF e
<1>5. /\ Len(log') = Len(log) + 1
      /\ \A n \in DOMAIN log : log'[n] = log[n]
      /\ log'[Len(log')] = [key |-> key[p], next |-> k]
      /\ \A n \in 0..Len(log) : Announced(n)' = Announced(n)
      /\ Announced(Len(log)) \subseteq Announced(Len(log))'
      /\ k \in Announced(Len(log))'
  BY <1>1, <1>3, <1>4, AppendAnnounces DEF TypeOK
<1>6. /\ DOMAIN log = 1..Len(log)
      /\ DOMAIN log' = 1..(Len(log) + 1)
  BY <1>1, <1>3, <1>5 DEF TypeOK
<1>7. LoadedAnnounced'
  BY <1>1, <1>5 DEF Known, LoadedAnnounced
<1>8. \A q \in Procs : q # p => pc'[q] = pc[q] /\ ~Rotating(q)
  BY <1>1 DEF TypeOK, Sign, Rotate, Rotating, Goto
<1>9. Sign(p) => pc'[p] = "open"
  BY DEF Sign
<1>10. NextAnnounced'
  <2>1. \A q \in Procs : pc[q] \in {"rotated", "told"} => next[q] \in Announced(Len(log))'
    BY <1>5 DEF Known, NextAnnounced
  <2>2. Rotate(p) => next[p] \in Announced(Len(log))'
    BY <1>3, <1>5
  <2> QED
    BY <1>1, <1>8, <1>9, <2>1, <2>2 DEF NextAnnounced, Rotating
<1>11. RotationIsLast'
  BY <1>1, <1>3, <1>5, <1>8, <1>9 DEF RotationIsLast, Rotating
<1>12. KeysAnnounced'
  <2> SUFFICES ASSUME NEW n \in 1..(Len(log) + 1)
               PROVE  log'[n].key \in Announced(n - 1)'
    BY <1>6 DEF KeysAnnounced
  <2>1. CASE n \in 1..Len(log)
    <3>1. n - 1 \in 0..Len(log)
      BY <1>1, <2>1
    <3>2. log[n].key \in Announced(n - 1)
      BY <1>6, <2>1 DEF Known, KeysAnnounced
    <3>3. Announced(n - 1)' = Announced(n - 1)
      BY <1>5, <3>1
    <3> QED
      BY <1>5, <1>6, <2>1, <3>2, <3>3
  <2>2. CASE n = Len(log) + 1
    <3>1. n - 1 = Len(log) /\ Len(log) \in 0..Len(log)
      BY <1>1, <2>2
    <3>2. key[p] \in Announced(n - 1)
      BY <3>1 DEF Known, LoadedAnnounced
    <3>3. Announced(n - 1)' = Announced(n - 1)
      BY <1>5, <3>1
    <3> QED
      BY <1>5, <2>2, <3>2, <3>3
  <2> QED
    BY <1>1, <2>1, <2>2
<1>13. UpdatesSigned'
  <2> SUFFICES ASSUME NEW u \in updates
               PROVE  /\ u.first \in DOMAIN log'
                      /\ log'[u.first] = [key |-> u.retire, next |-> u.activate]
    BY <1>1 DEF UpdatesSigned
  <2>1. u.first \in DOMAIN log /\ log[u.first] = [key |-> u.retire, next |-> u.activate]
    BY DEF Known, UpdatesSigned
  <2> QED
    BY <1>1, <1>5, <1>6, <2>1
<1> QED
  BY <1>1, <1>5, <1>7, <1>10, <1>11, <1>12, <1>13 DEF Known

\* The steps that do not sign.
LEMMA OthersKeepKnown ==
    ASSUME Known, TypeOK', NEW p \in Procs,
           \/ LoadConfig(p) \/ Open(p) \/ Leave(p)
           \/ WriteTrust(p) \/ RewriteConfig(p)
    PROVE  Known'
<1>1. TypeOK /\ Len(log) # 0 /\ log' = log
  BY DEF Known, LoadConfig, Open, Leave, WriteTrust, RewriteConfig
<1>2. \A n : Announced(n)' = Announced(n)
  BY <1>1 DEF Announced
<1>3. KeysAnnounced'
  BY <1>1, <1>2 DEF Known, KeysAnnounced
<1>4. LoadedAnnounced'
  BY <1>1, <1>2 DEF Known, TypeOK, LoadedAnnounced, NextAnnounced,
     LoadConfig, Open, Leave, WriteTrust, RewriteConfig, Told
<1>5. \A q \in Procs :
          /\ Rotating(q)' => Rotating(q)
          /\ pc'[q] \in {"rotated", "told"} => pc[q] \in {"rotated", "told"}
          /\ pc'[q] \in {"rotated", "told"} => next'[q] = next[q] /\ key'[q] = key[q]
  BY <1>1 DEF TypeOK, Rotating, LoadConfig, Open, Leave, WriteTrust, Committed, RewriteConfig,
     Told, Goto
<1>6. NextAnnounced'
  BY <1>1, <1>2, <1>5 DEF Known, NextAnnounced
<1>7. RotationIsLast'
  BY <1>1, <1>5 DEF Known, RotationIsLast, Rotating
<1>8. UpdatesSigned'
  <2>1. \A u \in updates :
            u.first \in DOMAIN log /\ log[u.first] = [key |-> u.retire, next |-> u.activate]
    BY DEF Known, UpdatesSigned
  <2>2. CASE WriteTrust(p)
    <3>1. updates' = updates \cup {Update(p)} /\ pc[p] = "rotated"
      BY <2>2 DEF WriteTrust, Committed
    <3>2. Update(p).first = Len(log) /\ Len(log) \in DOMAIN log
      BY <1>1 DEF TypeOK, Update
    <3>3. log[Len(log)] = [key |-> key[p], next |-> next[p]]
      BY <3>1 DEF Known, RotationIsLast, Rotating
    <3>4. Update(p).retire = key[p] /\ Update(p).activate = next[p]
      BY DEF Update
    <3> QED
      BY <1>1, <2>1, <3>1, <3>2, <3>3, <3>4 DEF UpdatesSigned
  <2>3. CASE ~WriteTrust(p)
    <3>1. updates' = updates
      BY <2>3 DEF LoadConfig, Open, Leave, RewriteConfig
    <3> QED
      BY <1>1, <2>1, <3>1 DEF UpdatesSigned
  <2> QED
    BY <2>2, <2>3
<1> QED
  BY <1>1, <1>3, <1>4, <1>6, <1>7, <1>8 DEF Known

LEMMA NextKnown == Known /\ [Next]_vars => Known'
<1> SUFFICES ASSUME Known, [Next]_vars PROVE Known'
  OBVIOUS
<1>1. TypeOK'
  BY NextTyped DEF Known
<1>2. CASE Next
  BY <1>1, <1>2, SigningKeepsKnown, OthersKeepKnown DEF Next
<1>3. CASE UNCHANGED vars
  BY <1>1, <1>3 DEF vars, Known, LoadedAnnounced, NextAnnounced, RotationIsLast,
     Rotating, KeysAnnounced, UpdatesSigned, Announced
<1> QED
  BY <1>2, <1>3

LEMMA AlwaysKnown == Spec => []Known
BY InitKnown, NextKnown, PTL DEF Spec

(* What follows. *)

\* A process that signs, tells or configures is the one that holds the lock, and
\* what it writes is well formed: openService, keyRotate and the command.
THEOREM RotationTyped == Spec => []TypeOK
<1>1. Known => TypeOK
  BY DEF Known
<1> QED
  BY <1>1, AlwaysKnown, PTL

\* Whatever rotations are cut off, and however stale the configuration that a
\* command loaded, appendAudit signs with a key that the log has announced.
THEOREM KeysAreAnnounced == Spec => []KeysAnnounced
<1>1. Known => KeysAnnounced
  BY DEF Known
<1> QED
  BY <1>1, AlwaysKnown, PTL

-------------------------------------------------------------------------------
(* RotationsTakeEffect.  While a rotation is under way, it is the last entry of *)
(* the log, and the configuration is still that of the one before it.           *)

\* The rotations that the configuration has to follow.
Settled == {n \in Unbroken : n = Len(log) => \A p \in Procs : ~Rotating(p)}

\* What is said of the configuration, of any of the rotations.
Follows(value, rotations) ==
    /\ rotations = {} => value = FirstKey
    /\ \A n \in rotations : (\A m \in rotations : m <= n) => value = log[n].next

\* A trust file tells of the rotation at n.
HasFile(n) == \E u \in updates : u.first = n

EffectInv ==
    /\ Follows(config, Settled)
    /\ \A n \in Unbroken :
          HasFile(n) \/ (n = Len(log) /\ \E p \in Procs : pc[p] = "rotated")
    /\ \A p \in Procs : Rotating(p) => Len(log) \notin cut
    /\ \A p \in Procs : pc[p] = "told" => HasFile(Len(log))

\* Two processes are not rotating at once, nor does one rotate while another is
\* past the lock.
LEMMA OneRotates ==
    ASSUME TypeOK, NEW p \in Procs, pc[p] \in {"open", "rotated", "told", "done"}
    PROVE  \A q \in Procs : q # p => ~Rotating(q)
BY DEF TypeOK, Rotating

\* A step that leaves log, configuration and files alone, and the rotations too.
LEMMA IdleKeepsEffect ==
    ASSUME EffectInv, UNCHANGED <<log, config, updates, cut>>,
           \A q \in Procs : (Rotating(q)' <=> Rotating(q)) /\ (pc'[q] = "told" <=> pc[q] = "told")
    PROVE  EffectInv'
<1>1. Unbroken' = Unbroken /\ Settled' = Settled
  BY DEF Unbroken, Settled
<1>2. \A q \in Procs : pc'[q] = "rotated" <=> pc[q] = "rotated"
  BY DEF Rotating
<1>3. Follows(config, Settled)'
  BY <1>1 DEF EffectInv, Follows
<1> QED
  BY <1>1, <1>2, <1>3 DEF EffectInv, HasFile

LEMMA SigningKeepsEffect ==
    ASSUME Known, EffectInv, NEW p \in Procs, Sign(p) \/ Rotate(p)
    PROVE  EffectInv'
<1>1. /\ TypeOK /\ log \in Seq(Entries) /\ Len(log) \in Nat /\ DOMAIN log = 1..Len(log)
      /\ cut \subseteq DOMAIN log
      /\ UNCHANGED <<config, updates, owner, key, next, cut>>
      /\ pc[p] = "open"
  BY DEF Known, TypeOK, Sign, Rotate
<1>2. PICK k \in Keys \cup {NoKey} :
          /\ log' = Append(log, [key |-> key[p], next |-> k])
          /\ k = IF Rotate(p) THEN next[p] ELSE NoKey
          /\ Rotate(p) => k \in Keys
  BY <1>1 DEF TypeOK, Sign, Rotate, Goto
<1>3. /\ Len(log') = Len(log) + 1
      /\ DOMAIN log' = 1..(Len(log) + 1)
      /\ \A n \in DOMAIN log : log'[n] = log[n]
      /\ log'[Len(log) + 1].next = k
  BY <1>1, <1>2
<1>4. \A q \in Procs : ~Rotating(q)
  BY <1>1, OneRotates DEF Rotating
<1>5. Settled = Unbroken /\ \A n \in Unbroken : HasFile(n)
  BY <1>4 DEF Settled, EffectInv, Rotating
<1>6. Unbroken \subseteq 1..Len(log)
  BY <1>1 DEF Unbroken
<1>7. \A q \in Procs : q # p => ~Rotating(q)' /\ pc'[q] = pc[q]
  BY <1>1, <1>4 DEF TypeOK, Sign, Rotate, Rotating, Goto
<1>8. Settled' = Unbroken
  <2>1. CASE Rotate(p)
    <3>1. Rotating(p)'
      BY <1>1, <2>1 DEF TypeOK, Rotate, Rotating, Goto
    <3>2. Unbroken' = Unbroken \cup {Len(log) + 1}
      BY <1>1, <1>2, <1>3, <2>1, KeyAssumption DEF Unbroken
    <3> QED
      BY <1>1, <1>3, <1>6, <3>1, <3>2 DEF Settled
  <2>2. CASE ~Rotate(p)
    <3>1. Sign(p) /\ pc' = pc /\ \A q \in Procs : ~Rotating(q)'
      BY <1>4, <2>2 DEF Sign, Rotating
    <3>2. Unbroken' = Unbroken
      BY <1>1, <1>2, <1>3, <2>2 DEF Unbroken
    <3> QED
      BY <3>1, <3>2 DEF Settled
  <2> QED
    BY <2>1, <2>2
<1>9. Follows(config, Settled)'
  BY <1>1, <1>3, <1>5, <1>6, <1>8 DEF EffectInv, Follows
<1>10. ASSUME NEW n \in Unbroken'
       PROVE  (HasFile(n) \/ (n = Len(log) /\ \E q \in Procs : pc[q] = "rotated"))'
  <2>1. CASE n \in Unbroken
    BY <1>1, <1>5, <2>1 DEF HasFile
  <2>2. CASE n \notin Unbroken
    <3>1. n = Len(log) + 1 /\ k # NoKey
      BY <1>1, <1>3, <2>2 DEF Unbroken
    <3>2. Rotate(p)
      BY <1>2, <3>1
    <3> QED
      BY <1>1, <1>3, <3>1, <3>2 DEF TypeOK, Rotate, Goto
  <2> QED
    BY <2>1, <2>2
<1>11. Len(log') \notin cut'
  BY <1>1, <1>3
<1>12. \A q \in Procs : pc'[q] # "told"
  <2>1. pc'[p] # "told"
    BY <1>1 DEF TypeOK, Sign, Rotate, Goto
  <2> QED
    BY <1>4, <1>7, <2>1 DEF Rotating
<1> QED
  BY <1>9, <1>10, <1>11, <1>12 DEF EffectInv

LEMMA TellingKeepsEffect ==
    ASSUME Known, EffectInv, NEW p \in Procs, WriteTrust(p)
    PROVE  EffectInv'
<1>1. /\ TypeOK /\ pc[p] = "rotated" /\ pc' = [pc EXCEPT ![p] = "told"]
      /\ UNCHANGED <<log, config, cut>>
      /\ updates' = updates \cup {Update(p)}
  BY DEF Known, WriteTrust, Committed, Goto
<1>2. \A q \in Procs : Rotating(q)' <=> Rotating(q)
  BY <1>1 DEF TypeOK, Rotating
<1>3. Unbroken' = Unbroken /\ Settled' = Settled
  BY <1>1, <1>2 DEF Unbroken, Settled
<1>4. Follows(config, Settled)'
  BY <1>1, <1>3 DEF EffectInv, Follows
<1>5. \A n : HasFile(n) => HasFile(n)'
  BY <1>1 DEF HasFile
<1>6. HasFile(Len(log))'
  <2>1. Update(p).first = Len(log)
    BY DEF Update
  <2> QED
    BY <1>1, <2>1 DEF HasFile
<1> QED
  BY <1>1, <1>2, <1>3, <1>4, <1>5, <1>6 DEF EffectInv

\* The rotation under way is the greatest that is not cut off.
LEMMA RewritingKeepsEffect ==
    ASSUME Known, EffectInv, NEW p \in Procs, RewriteConfig(p)
    PROVE  EffectInv'
<1>1. /\ TypeOK /\ pc[p] = "told" /\ pc' = [pc EXCEPT ![p] = "done"]
      /\ config' = next[p]
      /\ UNCHANGED <<log, updates, cut>>
      /\ log \in Seq(Entries) /\ Len(log) \in Nat /\ Len(log) # 0 /\ DOMAIN log = 1..Len(log)
      /\ next[p] \in Keys
  BY DEF Known, TypeOK, RewriteConfig, Told, Goto
<1>2. \A q \in Procs : ~Rotating(q)' /\ pc'[q] # "told" /\ (q # p => pc[q] # "rotated")
  BY <1>1, OneRotates DEF TypeOK, Rotating
<1>3. Unbroken' = Unbroken /\ Settled' = Unbroken
  BY <1>1, <1>2 DEF Unbroken, Settled
<1>4. log[Len(log)].next = next[p] /\ Len(log) \notin cut
  <2>1. Rotating(p)
    BY <1>1 DEF Rotating
  <2>2. log[Len(log)] = [key |-> key[p], next |-> next[p]]
    BY <2>1 DEF Known, RotationIsLast
  <2>3. Len(log) \notin cut
    BY <2>1 DEF EffectInv
  <2> QED
    BY <2>2, <2>3
<1>5. Len(log) \in Unbroken
  BY <1>1, <1>4, KeyAssumption DEF Unbroken
<1>6. \A n \in Unbroken : n <= Len(log)
  BY <1>1 DEF Unbroken
<1>7. \A n \in Unbroken : (\A m \in Unbroken : m <= n) => n = Len(log)
  BY <1>1, <1>5, <1>6 DEF Unbroken
<1>8. Follows(config, Settled)'
  BY <1>1, <1>3, <1>4, <1>5, <1>7 DEF Follows
<1>9. \A n \in Unbroken : HasFile(n)
  BY <1>1, <1>2 DEF EffectInv
<1> QED
  BY <1>1, <1>2, <1>3, <1>8, <1>9 DEF EffectInv, HasFile

\* A rotation that is cut off is none that the configuration has to follow.
LEMMA LeavingKeepsEffect ==
    ASSUME Known, EffectInv, NEW p \in Procs, Leave(p)
    PROVE  EffectInv'
<1>1. /\ TypeOK /\ pc' = [pc EXCEPT ![p] = "out"]
      /\ UNCHANGED <<log, config, updates>>
  BY DEF Known, Leave, Goto
<1>2. CASE Rotating(p)
  <2>1. cut' = cut \cup {Len(log)}
    BY <1>2 DEF Leave
  <2>2. \A q \in Procs : ~Rotating(q)' /\ pc'[q] # "told" /\ (q # p => pc[q] # "rotated")
    BY <1>1, <1>2, OneRotates DEF TypeOK, Rotating
  <2>3. Unbroken' = Unbroken \ {Len(log)}
    BY <1>1, <2>1 DEF Unbroken
  <2>4. Settled = Unbroken \ {Len(log)}
    BY <1>2 DEF Settled
  <2>5. Settled' = Settled
    BY <1>1, <2>2, <2>3, <2>4 DEF Settled
  <2>6. Follows(config, Settled)'
    BY <1>1, <2>5 DEF EffectInv, Follows
  <2>7. \A n \in Unbroken' : HasFile(n)
    BY <2>3 DEF EffectInv
  <2> QED
    BY <1>1, <2>2, <2>6, <2>7 DEF EffectInv, HasFile
<1>3. CASE ~Rotating(p)
  <2>1. cut' = cut
    BY <1>3 DEF Leave
  <2>2. \A q \in Procs :
            (Rotating(q)' <=> Rotating(q)) /\ (pc'[q] = "told" <=> pc[q] = "told")
    BY <1>1, <1>3 DEF TypeOK, Rotating
  <2> QED
    BY <1>1, <2>1, <2>2, IdleKeepsEffect
<1> QED
  BY <1>2, <1>3

LEMMA NextKeepsEffect == Known /\ EffectInv /\ [Next]_vars => EffectInv'
<1> SUFFICES ASSUME Known, EffectInv, [Next]_vars PROVE EffectInv'
  OBVIOUS
<1>1. ASSUME NEW p \in Procs, LoadConfig(p) \/ Open(p) PROVE EffectInv'
  <2>1. UNCHANGED <<log, config, updates, cut>>
    BY <1>1 DEF LoadConfig, Open
  <2>2. \A q \in Procs :
            (Rotating(q)' <=> Rotating(q)) /\ (pc'[q] = "told" <=> pc[q] = "told")
    BY <1>1 DEF Known, TypeOK, LoadConfig, Open, Rotating, Goto
  <2> QED
    BY <2>1, <2>2, IdleKeepsEffect
<1>2. CASE UNCHANGED vars
  BY <1>2, IdleKeepsEffect DEF vars, Rotating
<1> QED
  BY <1>1, <1>2, SigningKeepsEffect, TellingKeepsEffect, RewritingKeepsEffect,
     LeavingKeepsEffect DEF Next

\* Whatever rotations were cut off, and whatever stale commands signed or rotated
\* meanwhile: once none is under way, the configuration, the trust files and the
\* log agree on every rotation that was not cut off (key rotate).
THEOREM RotationsAreEffective == Spec => []RotationsTakeEffect
<1>1. Init => EffectInv
  BY KeyAssumption DEF Init, EffectInv, Follows, Settled, Unbroken, Rotating
<1>2. Known /\ EffectInv => RotationsTakeEffect
  <2> SUFFICES ASSUME Known, EffectInv, \A p \in Procs : ~Rotating(p)
               PROVE  /\ \A n \in Unbroken : \E u \in updates : u.first = n
                      /\ Follows(config, Unbroken)
    BY DEF RotationsTakeEffect, Known, Follows
  <2>1. Settled = Unbroken
    BY DEF Settled
  <2> QED
    BY <2>1 DEF EffectInv, HasFile, Rotating
<1> QED
  BY <1>1, <1>2, NextKeepsEffect, AlwaysKnown, PTL DEF Spec

===============================================================================
