------------------------------ MODULE WriterLock ------------------------------
(***************************************************************************)
(* The writer lock of a workspace: acquireWriterLock and the release it    *)
(* returns (packages/sqlite/src/store.ts), run by several processes on one *)
(* state directory.                                                        *)
(*                                                                         *)
(* Every call to the file system is a step.  The lock file is created      *)
(* empty and gets its owner's pid by a second call; the pid goes to the    *)
(* file that was opened, which may have been unlinked since.  A process    *)
(* may die anywhere, and the system may give its pid out again.            *)
(***************************************************************************)
EXTENDS Integers, FiniteSets, TLAPS

CONSTANTS
    Procs,    \* pids
    Nobody,   \* no pid: an empty file, or none
    MaxStarts \* bound on the attempts made

ASSUME PidAssumption == Nobody \notin Procs

ASSUME StartsAssumption == MaxStarts \in Nat

VARIABLES
    lock,   \* the file at writer.lock: whose open created it, and its text
    pc,     \* where each process is
    pid,    \* what each process read from the file
    starts  \* attempts made so far

vars == <<lock, pc, pid, starts>>

NoFile == [by |-> Nobody, text |-> Nobody]

Trying == {"open", "write", "read", "kill", "remove"}
Places == {"out", "holds", "refused", "dead"} \cup Trying

Alive(p) == pc[p] # "dead"

Goto(p, place) == pc' = [pc EXCEPT ![p] = place]

-------------------------------------------------------------------------------

\* A process opens the workspace.
Start(p) ==
    /\ pc[p] \in {"out", "refused"}
    /\ starts < MaxStarts
    /\ starts' = starts + 1
    /\ Goto(p, "open")
    /\ UNCHANGED <<lock, pid>>

\* openSync(lockPath, "wx") creates the file, or fails with EEXIST.
OpenFile(p) ==
    /\ pc[p] = "open"
    /\ \/ /\ lock = NoFile
          /\ lock' = [by |-> p, text |-> Nobody]
          /\ Goto(p, "write")
       \/ /\ lock # NoFile
          /\ Goto(p, "read")
          /\ UNCHANGED lock
    /\ UNCHANGED <<pid, starts>>

\* writeSync(fd, process.pid), and the lock is taken to be held.
WritePid(p) ==
    /\ pc[p] = "write"
    /\ lock' = IF lock.by = p THEN [lock EXCEPT !.text = p] ELSE lock
    /\ Goto(p, "holds")
    /\ UNCHANGED <<pid, starts>>

\* A reader that takes an empty file for a held one.
NeverEmpty(p) == FALSE

\* Number("") is 0, and so is the pid of a file that is gone: no owner.
NoOwnerSeen(p) == lock.text = Nobody

ReadPid(p) ==
    /\ pc[p] = "read"
    /\ pid' = [pid EXCEPT ![p] = lock.text]
    /\ Goto(p, IF NoOwnerSeen(p) THEN "remove" ELSE "kill")
    /\ UNCHANGED <<lock, starts>>

\* A check that takes a living owner for a dead one, and one that takes any
\* owner for a living one.
OwnerAliveNever(p) == pid[p] = p
OwnerAliveAlways(p) == pid[p] \in Procs

OwnerAlive(p) == Alive(pid[p])

\* kill(pid, 0): the owner lives and the attempt is BUSY, or ESRCH.
Kill(p) ==
    /\ pc[p] = "kill"
    /\ Goto(p, IF OwnerAlive(p) THEN "refused" ELSE "remove")
    /\ UNCHANGED <<lock, pid, starts>>

\* A loop that goes round an empty file and leaves it there.
UnlinkedIfOwned(p) == IF pid[p] = Nobody THEN lock ELSE NoFile

\* rmSync(lockPath): whatever is at that path by now.
Unlinked(p) == NoFile

\* Then the loop goes round.
Remove(p) ==
    /\ pc[p] = "remove"
    /\ lock' = Unlinked(p)
    /\ Goto(p, "open")
    /\ UNCHANGED <<pid, starts>>

\* The release: the path is removed without looking.
Release(p) ==
    /\ pc[p] = "holds"
    /\ lock' = NoFile
    /\ Goto(p, "out")
    /\ UNCHANGED <<pid, starts>>

\* The process dies, and the file stays.
Die(p) ==
    /\ Alive(p)
    /\ Goto(p, "dead")
    /\ UNCHANGED <<lock, pid, starts>>

\* A process is started with the pid of a dead one.
Reuse(p) ==
    /\ pc[p] = "dead"
    /\ Goto(p, "out")
    /\ UNCHANGED <<lock, pid, starts>>

Init ==
    /\ lock = NoFile
    /\ pc = [p \in Procs |-> "out"]
    /\ pid = [p \in Procs |-> Nobody]
    /\ starts = 0

Step(p) == OpenFile(p) \/ WritePid(p) \/ ReadPid(p) \/ Kill(p) \/ Remove(p)

Next == \E p \in Procs : Start(p) \/ Step(p) \/ Release(p) \/ Die(p) \/ Reuse(p)

Spec == Init /\ [][Next]_vars

\* A process that has begun an attempt goes on with it; whether it ever starts,
\* releases or dies is its own affair.
FairSpec == Spec /\ \A p \in Procs : WF_vars(Step(p))

-------------------------------------------------------------------------------
(* Types. *)

\* The file is somebody's, and says nothing or that.
TypeOK ==
    /\ lock \in [by : Procs \cup {Nobody}, text : Procs \cup {Nobody}]
    /\ lock.text \in {lock.by, Nobody}
    /\ pc \in [Procs -> Places]
    /\ pid \in [Procs -> Procs \cup {Nobody}]
    /\ \A p \in Procs : pc[p] = "kill" => pid[p] \in Procs
    /\ starts \in Nat

-------------------------------------------------------------------------------
(* What the lock gives. *)

\* "Single-writer workspace lock: a lock file carrying the owner pid.  A live
\* owner causes failure" (store.ts:41-42): no two processes hold it at once.
OneWriter == \A p, q \in Procs : pc[p] = "holds" /\ pc[q] = "holds" => p = q

\* p holds the lock, the file says so, and no other process is on its way to
\* hold or remove it on the strength of something it saw before.
Settled(p) ==
    /\ pc[p] = "holds"
    /\ lock = [by |-> p, text |-> p]
    /\ \A q \in Procs \ {p} :
          /\ pc[q] \in {"out", "open", "read", "kill", "refused", "dead"}
          /\ pc[q] = "kill" => pid[q] = p

\* Once settled, the lock excludes: while its holder keeps it, no attempt that
\* begins or goes on takes it, removes it or overwrites it.
SettledExcludes ==
    [][\A p \in Procs : Settled(p) /\ pc'[p] = "holds" => Settled(p)']_vars

\* An attempt ends, in the lock or in BUSY: no two processes remove each other's
\* file for ever.
AttemptsEnd == \A p \in Procs : pc[p] \in Trying ~> pc[p] \notin Trying

\* "A dead owner's lock is reclaimed" (store.ts:42): a process that tries while
\* all others are dead, and stay so, gets the lock, unless the file says its own
\* pid (which the system gave out again).
DeadLockReclaimed ==
    \A p \in Procs :
        LET alone == \A q \in Procs \ {p} : pc[q] = "dead"
        IN  [](pc[p] = "open" /\ lock.text # p /\ []alone => <>(pc[p] \in {"holds", "dead"}))

-------------------------------------------------------------------------------
(* Proofs, for any number of processes and attempts. *)

\* Nobody has tried yet.
LEMMA InitTyped == Init => TypeOK
BY DEF Init, TypeOK, NoFile, Places

\* Every step keeps the types: an empty file in particular is never taken for
\* one with an owner.
LEMMA NextTyped == TypeOK /\ [Next]_vars => TypeOK'
<1> SUFFICES ASSUME TypeOK, [Next]_vars PROVE TypeOK'
  OBVIOUS
<1> USE DEF TypeOK, Places, Trying, Goto
<1>1. ASSUME NEW p \in Procs, Start(p) PROVE TypeOK'
  BY <1>1 DEF Start
<1>2. ASSUME NEW p \in Procs, OpenFile(p) PROVE TypeOK'
  BY <1>2 DEF OpenFile
<1>3. ASSUME NEW p \in Procs, WritePid(p) PROVE TypeOK'
  BY <1>3 DEF WritePid
<1>4. ASSUME NEW p \in Procs, ReadPid(p) PROVE TypeOK'
  BY <1>4 DEF ReadPid, NoOwnerSeen
<1>5. ASSUME NEW p \in Procs, Kill(p) PROVE TypeOK'
  BY <1>5 DEF Kill
<1>6. ASSUME NEW p \in Procs, Remove(p) \/ Release(p) PROVE TypeOK'
  BY <1>6 DEF Remove, Release, Unlinked, NoFile
<1>7. ASSUME NEW p \in Procs, Die(p) \/ Reuse(p) PROVE TypeOK'
  BY <1>7 DEF Die, Reuse
<1>8. CASE UNCHANGED vars
  BY <1>8 DEF vars
<1> QED
  BY <1>1, <1>2, <1>3, <1>4, <1>5, <1>6, <1>7, <1>8 DEF Next, Step

\* The lock file and the attempts keep to their types, whoever dies where.
THEOREM LockTyped == Spec => []TypeOK
BY InitTyped, NextTyped, PTL DEF Spec

\* Nothing another process does unsettles a holder.
LEMMA OthersLeaveSettled ==
    ASSUME TypeOK, NEW p \in Procs, Settled(p), NEW q \in Procs, q # p,
           Start(q) \/ Step(q) \/ Release(q) \/ Die(q) \/ Reuse(q)
    PROVE  Settled(p)'
<1> USE PidAssumption DEF TypeOK, Settled, Goto, NoFile
<1>1. CASE Start(q)
  BY <1>1 DEF Start
<1>2. CASE OpenFile(q)
  BY <1>2 DEF OpenFile
<1>3. CASE ReadPid(q)
  BY <1>3 DEF ReadPid, NoOwnerSeen
<1>4. CASE Kill(q)
  BY <1>4 DEF Kill, OwnerAlive, Alive
<1>5. CASE WritePid(q) \/ Remove(q) \/ Release(q)
  BY <1>5 DEF WritePid, Remove, Release
<1>6. CASE Die(q) \/ Reuse(q)
  BY <1>6 DEF Die, Reuse
<1> QED
  BY <1>1, <1>2, <1>3, <1>4, <1>5, <1>6 DEF Step

\* Once the holder's pid is in the file and nobody acts on an older view of it,
\* no attempt of any process takes or removes the lock while the holder keeps it.
THEOREM LockExcludesOnceSettled == Spec => SettledExcludes
<1>1. ASSUME TypeOK, [Next]_vars, NEW p \in Procs, Settled(p), pc'[p] = "holds"
      PROVE  Settled(p)'
  <2>1. CASE UNCHANGED vars
    BY <1>1, <2>1 DEF vars, Settled
  <2>2. ASSUME NEW q \in Procs, q # p, Start(q) \/ Step(q) \/ Release(q) \/ Die(q) \/ Reuse(q)
        PROVE  Settled(p)'
    BY <1>1, <2>2, OthersLeaveSettled
  <2>3. ASSUME Start(p) \/ Step(p) \/ Release(p) \/ Die(p) \/ Reuse(p)
        PROVE  FALSE
    BY <1>1, <2>3 DEF TypeOK, Settled, Start, Step, OpenFile, WritePid, ReadPid, Kill, Remove,
       Release, Die, Reuse, Goto
  <2> QED
    BY <1>1, <2>1, <2>2, <2>3 DEF Next
<1>2. TypeOK /\ [Next]_vars => [\A p \in Procs : Settled(p) /\ pc'[p] = "holds" => Settled(p)']_vars
  BY <1>1
<1> QED
  BY <1>2, LockTyped, PTL DEF Spec, SettledExcludes

===============================================================================
