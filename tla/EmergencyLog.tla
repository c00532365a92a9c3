----------------------------- MODULE EmergencyLog ----------------------------
(***************************************************************************)
(* EmergencyJsonlWriter: the last resort when observations cannot be       *)
(* stored.  A file is renamed away before it outgrows its size, and a few  *)
(* such files are kept.  The process may end between two renames.          *)
(* A record is its number; file 0 is the one written to.                   *)
(***************************************************************************)
EXTENDS Naturals, Sequences, SequencesExt

CONSTANTS
    BackupCount,
    MaxBytes,      \* records that fit in a file
    MaxRecords

ASSUME LogAssumption == BackupCount \in Nat \ {0}

VARIABLES
    file,      \* content of each file, << >> when it does not exist
    moving,    \* _rotate: the file to be renamed next, or Still
    emitted    \* how many records were written

logVars == <<file, moving, emitted>>

Files == 0 .. BackupCount
Still == BackupCount

LogInit ==
    /\ file = [i \in Files |-> << >>]
    /\ moving = Still /\ emitted = 0

WriteRecord ==
    /\ moving = Still /\ Len(file[0]) < MaxBytes /\ emitted < MaxRecords
    /\ file' = [file EXCEPT ![0] = Append(@, emitted + 1)]
    /\ emitted' = emitted + 1
    /\ UNCHANGED moving

\* A record that does not fit: the oldest file goes, then the others move.
Rotate ==
    /\ moving = Still /\ Len(file[0]) = MaxBytes /\ emitted < MaxRecords
    /\ file' = [file EXCEPT ![BackupCount] = << >>]
    /\ moving' = BackupCount - 1
    /\ UNCHANGED emitted

\* Mutant: files are copied.
Rename_Copies ==
    /\ moving # Still
    /\ file' = IF file[moving] = << >> THEN file
               ELSE [file EXCEPT ![moving + 1] = file[moving]]
    /\ moving' = IF moving = 0 THEN Still ELSE moving - 1
    /\ UNCHANGED emitted

\* From the oldest to the newest; one that does not exist is passed over.
Rename ==
    /\ moving # Still
    /\ file' = IF file[moving] = << >> THEN file
               ELSE [file EXCEPT ![moving + 1] = file[moving], ![moving] = << >>]
    /\ moving' = IF moving = 0 THEN Still ELSE moving - 1
    /\ UNCHANGED emitted

EndOfProcess == moving # Still /\ moving' = Still /\ UNCHANGED <<file, emitted>>

LogNext == WriteRecord \/ Rotate \/ Rename \/ EndOfProcess

LogSpec == LogInit /\ [][LogNext]_logVars

-----------------------------------------------------------------------------
(* Property.                                                               *)

\* From the oldest file to the newest, what is kept.
Kept == FlattenSeq([k \in 1 .. BackupCount + 1 |-> file[BackupCount + 1 - k]])

\* Only the oldest records are ever lost, and what is kept is in order, also
\* when a rotation was cut short and is done again.
NewestKept == \E n \in 0 .. emitted : Kept = [i \in 1 .. emitted - n |-> n + i]
=============================================================================
