-------------------------------- MODULE Recovery -------------------------------
(***************************************************************************)
(* A workspace from init on, its recovery pin, backups and restores        *)
(* (reconcilePin in packages/sqlite/src/store.ts; backup, restore and      *)
(* doctor in maintenance.ts; init, openService, backup and restore in      *)
(* packages/cli/src/main.ts), over what module Retention says of an open   *)
(* workspace.                                                              *)
(*                                                                         *)
(* The pin is a file beside the database that holds the place and the hash *)
(* of an entry of the log; since a hash stands for what precedes it, it is *)
(* the log up to that entry here.  A restore makes a new directory, of     *)
(* which it is assumed that it takes the place of the old one.             *)
(***************************************************************************)
EXTENDS Retention

CONSTANTS
    NoPin,      \* there is no pin file, or none that can be read
    NoBackup

ASSUME PinAssumption == NoPin \notin Seq(Entries)

VARIABLES
    pin,        \* the file external-head.json
    backup,     \* the backup that the next restore will be made from
    restoring,  \* whether a restore is at work
    left,       \* the artifacts it has yet to copy
    kept,       \* the pins that were ever written, of which an operator keeps
                \* copies elsewhere
    promised,   \* history: what the log has to go back to, as long as no
                \* backup is made of one that does not
    overridden  \* history: whether one was

recoveryVars == <<pin, backup, restoring, left, kept, promised, overridden>>
allVars == <<vars, recoveryVars>>

Extends(log, head) == Len(head) <= Len(log) /\ SubSeq(log, 1, Len(head)) = head

\* Of a pin a copy is kept if a restore may still come within the bounds.
Keep(head) == IF epoch < bounds.epochs THEN kept \cup {head} ELSE kept

-------------------------------------------------------------------------------
(* init. *)

InitDb ==
    /\ state = "ABSENT"
    /\ state' = "CREATING"
    /\ UNCHANGED <<bounds, time, keyed, db, files, epoch, lost, recoveryVars>>

Genesis ==
    /\ state = "CREATING"
    /\ db.log = <<>>
    /\ db' = [db EXCEPT !.log = Log([kind |-> "WorkspaceCreated", epoch |-> epoch])]
    /\ UNCHANGED <<bounds, time, state, keyed, files, epoch, lost, recoveryVars>>

InitPin ==
    /\ state = "CREATING"
    /\ db.log # <<>>
    /\ pin' = db.log
    /\ kept' = Keep(db.log)
    /\ promised' = db.log
    /\ Closed
    /\ UNCHANGED <<bounds, time, db, files, epoch, lost, backup, restoring, left, overridden>>

-------------------------------------------------------------------------------
(* open and close. *)

\* A comparison of places that leaves out the one of hashes.
ReconcileLength ==
    IF db.log = <<>> \/ pin = NoPin THEN "READ_ONLY"
    ELSE IF Len(pin) > Len(db.log) THEN "READ_ONLY" ELSE "READY"

\* reconcilePin: NO_AUDIT, PIN_MISSING, PIN_AHEAD and AUDIT_FORK, or READY.
Reconcile ==
    IF db.log = <<>> \/ pin = NoPin THEN "READ_ONLY"
    ELSE IF Extends(db.log, pin) THEN "READY" ELSE "READ_ONLY"

\* A disk that is nearly full opens READ_ONLY as well.
Open(withKey) ==
    /\ state = "NONE"
    /\ state' \in {Reconcile, "READ_ONLY"}
    /\ keyed' = withKey
    /\ UNCHANGED <<bounds, time, db, files, epoch, lost, recoveryVars>>

\* A close, an end by a signal, or a crash outside of what is said elsewhere.
\* An init that is cut off leaves no configuration: the operator writes one.
Stop ==
    /\ state \in {"CREATING", "READY", "READ_ONLY", "PINNING"}
    /\ Closed
    /\ UNCHANGED <<bounds, time, db, files, epoch, lost, recoveryVars>>

-------------------------------------------------------------------------------
(* doctor and backup. *)

\* What doctor --deep fails for; files without a row are only reported.
Missing == {d \in Digests : Available(d) /\ d \notin files}

\* A backup of the database alone.
CopiedNone == {}

\* An artifact whose file is missing is left out.
Copied == {d \in Digests : Served(d)}

\* backup: the snapshot, the artifacts and, last, the manifest; without the
\* manifest the directory is no backup.  It is made READ_ONLY too.
Backup ==
    /\ state \in {"READY", "READ_ONLY"} /\ ~keyed
    /\ db.log # <<>>
    /\ backup' \in (IF epoch < bounds.epochs THEN {[db |-> db, files |-> Copied]} ELSE {})
                  \cup (IF backup # NoBackup \/ epoch = bounds.epochs THEN {backup} ELSE {})
    /\ lost' = lost \cup Missing
    /\ state' = "PINNING"
    /\ UNCHANGED <<bounds, time, keyed, db, files, epoch, pin, restoring, left, kept, promised,
                   overridden>>

\* The command backup then writes the pin, from the log that it finds.
BackupPin ==
    /\ state = "PINNING"
    /\ pin' = db.log
    /\ kept' = Keep(db.log)
    /\ IF Extends(db.log, promised)
       THEN promised' = db.log /\ UNCHANGED overridden
       ELSE overridden' = TRUE /\ UNCHANGED promised
    /\ Closed
    /\ UNCHANGED <<bounds, time, db, files, epoch, lost, backup, restoring, left>>

-------------------------------------------------------------------------------
(* restore. *)

\* What is left of a copy that is cut off.
Left == IF restoring THEN left ELSE {}

\* The directory is made, and the database is the first file of the manifest.
\* That the files are those of the manifest is checked before.
RestoreDb ==
    /\ backup # NoBackup
    /\ ~restoring
    /\ state = "NONE"
    /\ epoch < bounds.epochs
    /\ epoch' = epoch + 1
    /\ db' = backup.db
    /\ files' = {}
    /\ pin' = NoPin
    /\ restoring' = TRUE
    /\ left' = backup.files
    /\ backup' = NoBackup
    /\ UNCHANGED <<bounds, time, state, keyed, lost, kept, promised, overridden>>

RestoreFile(d) ==
    /\ restoring
    /\ d \in left
    /\ files' = files \cup {d}
    /\ left' = left \ {d}
    /\ UNCHANGED <<bounds, time, state, keyed, db, epoch, lost, pin, backup, restoring, kept,
                   promised, overridden>>

\* A restore that installs the pin before the files are copied.
MayInstallEarly == restoring /\ pin = NoPin

MayInstall == restoring /\ left = {} /\ pin = NoPin

\* The pin that the operator supplies: one that was kept elsewhere, or that of
\* the backup.  It is not written over one that is there.
RestorePin(supplied) ==
    /\ MayInstall
    /\ supplied # <<>>
    /\ pin' = supplied
    /\ promised' = supplied
    /\ restoring' = FALSE
    /\ UNCHANGED <<bounds, time, state, keyed, db, files, epoch, lost, backup, left, kept, overridden>>

\* The restore fails or is cut off.
RestoreCut ==
    /\ restoring
    /\ restoring' = FALSE
    /\ left' = {}
    /\ lost' = lost \cup left
    /\ UNCHANGED <<bounds, time, state, keyed, db, files, epoch, pin, backup, kept, promised,
                   overridden>>

-------------------------------------------------------------------------------
Init ==
    /\ bounds \in Bounds
    /\ time = 0
    /\ state = "ABSENT"
    /\ keyed = FALSE
    /\ db = EmptyDb
    /\ files = {}
    /\ epoch = 0
    /\ lost = {}
    /\ pin = NoPin
    /\ backup = NoBackup
    /\ restoring = FALSE
    /\ left = {}
    /\ kept = {}
    /\ promised = <<>>
    /\ overridden = FALSE

Next ==
    \/ Work /\ UNCHANGED recoveryVars
    \/ InitDb \/ Genesis \/ InitPin
    \/ \E withKey \in BOOLEAN : Open(withKey)
    \/ Stop
    \/ Backup \/ BackupPin
    \/ RestoreDb
    \/ \E d \in left : RestoreFile(d)
    \/ restoring /\ \E supplied \in kept \cup {db.log} : RestorePin(supplied)
    \/ RestoreCut

Spec == Init /\ [][Next]_allVars

-------------------------------------------------------------------------------
(* Properties. *)

\* The process, the tables, the files and the histories are well formed; who
\* has the audit key has the database open; a copy has files left only while a
\* restore is at work.
TypeOK ==
    /\ bounds \in Bounds
    /\ time \in 0..MaxTime
    /\ state \in States
    /\ keyed \in BOOLEAN
    /\ keyed => state \in {"READY", "READ_ONLY"}
    /\ db \in Databases
    /\ files \subseteq Digests
    /\ lost \subseteq Digests
    /\ epoch \in 0..bounds.epochs
    /\ pin \in Seq(Entries) \cup {NoPin}
    /\ backup \in [db : Databases, files : SUBSET Digests] \cup {NoBackup}
    /\ restoring \in BOOLEAN
    /\ left \subseteq Digests
    /\ left # {} => restoring
    /\ kept \subseteq Seq(Entries)
    /\ promised \in Seq(Entries)
    /\ overridden \in BOOLEAN

Prunes == {n \in DOMAIN db.log : db.log[n].kind = "RetentionPruned"}

\* A revision or an artifact is pruned if and only if an entry of the log says
\* so, and no two do.
EachPruneTold ==
    /\ \A d \in Digests :
          LET told == {n \in Prunes : d \in db.log[n].artifacts}
          IN  /\ told # {} <=> db.rows[d] # NoRow /\ ~Available(d)
              /\ \A m, n \in told : m = n
    /\ \A t \in Traces : \A r \in 0..Current(t) :
          LET told == {n \in Prunes : db.log[n].trace = t /\ r \in db.log[n].revisions}
          IN  /\ told # {} <=> Revision(t, r).pruned
              /\ \A m, n \in told : m = n

\* The last revision and the HistoryRevisions before the next are never pruned.
WindowKept ==
    \A t \in Traces : \A r \in 0..Current(t) :
        Revision(t, r).pruned => r < Current(t) /\ r + HistoryRevisions <= Current(t)

\* What was given up is told by the log, once, and was out of the window, also
\* after a prune was cut off, after its artifact was supplied again, and in
\* a workspace that was restored (applyPrune, execCommit).
PrunesTold == EachPruneTold /\ WindowKept

\* An artifact that is said to be there has its file, unless a prune that was
\* cut off removed it, or a copy that was cut off left it out: doctor fails for
\* nothing else (applyPrune, backup, restore, execCommit).
LossExplained == Missing \subseteq lost \cup Left

\* An unexpired lease keeps its revision, and what the revision refers to is
\* lost only to the prune of another trace: artifacts are shared between
\* traces, and the plan looks for leases of its own trace (prunePlan).
LeasesHold ==
    [][epoch' = epoch =>
         \A l \in {k \in db.leases : k.expires > time} :
            ~Revision(l.trace, l.revision).pruned =>
              /\ ~Revision(l.trace, l.revision)'.pruned
              /\ \A d \in Revision(l.trace, l.revision).refs :
                    Served(d) /\ ~Served(d)' =>
                        \E t \in Traces \ {l.trace} : \E before \in 0..Current(t) :
                            Prune(t, before) \/ PruneCut(t, before)]_allVars

\* A workspace opens for writing only if its log goes back to the pin it was
\* promised, by init, a backup or a restore, unless a backup was made of a log
\* that does not: the command then pins that one (reconcilePin, main.ts:473).
PinHolds == state = "READY" => overridden \/ Extends(db.log, promised)
=============================================================================
