----------------------------- MODULE StateStore -----------------------------
(***************************************************************************)
(* core/store.go: Update, persist and load of one Store, with its two      *)
(* files.  A state is reduced to its Sequence and to which Update wrote it *)
(* (its contents); the checksum is reduced to "the line decodes".          *)
(*                                                                         *)
(* External assumption: a rename or removal takes place entirely or not at *)
(* all, and what was fsynced or renamed survives a crash.                  *)
(***************************************************************************)
EXTENDS Naturals, Sequences, SequencesExt

CONSTANTS
  Contents,    \* contents a state may have
  Empty,       \* contents of emptyState()
  MaxSequence, \* BOUND on Sequence
  MaxLines,    \* BOUND on decodable lines in the WAL
  Filesystems  \* the file systems to look at, see below

ASSUME StoreAssumption ==
  /\ Empty \notin Contents
  /\ "no file" \notin Contents \cup {Empty}
  /\ {MaxSequence, MaxLines} \subseteq Nat
  /\ Filesystems \subseteq
       [cuts : SUBSET {"crash", "error"}, \* what may leave part of an append
        moveAside : BOOLEAN]              \* replaceFile may fall back to
                                          \* two renames (Windows)

Envelopes == [seq : 0..MaxSequence, val : Contents \cup {Empty}]
EmptyState == [seq |-> 0, val |-> Empty]

NoFile == [seq |-> 0, val |-> "no file"]

VARIABLES
  fs,       \* the file system, chosen once
  snapshot, \* the file at path: an envelope or NoFile
  aside,    \* the file at path.previous, which load never reads
  lines,    \* decodable lines of the WAL, oldest first
  tail,     \* its end: "clean" after a newline, else what stands there:
            \*   "part" of a line, or a "whole" one that is last in lines
  pc,       \* where Update stands; "down" when no process runs
  mem,      \* Store.state
  next,     \* the state being persisted
  acked,    \* history: the state of the last Update that returned nil
  doubt     \* history: the states of Updates attempted since then

wal == <<lines, tail>>
files == <<snapshot, aside, wal>>
vars == <<fs, files, pc, mem, next, acked, doubt>>

-----------------------------------------------------------------------------
(* load: the snapshot, then every line whose sequence is not smaller.      *)

(* Faulty variant: the WAL is trusted whatever the snapshot holds. *)
AlwaysSupersedes(line, best) == TRUE
Supersedes(line, best) == best = NoFile \/ line.seq >= best.seq

Scan(found, log) ==
  LET best[n \in 0..Len(log)] ==
        IF n = 0 THEN found
        ELSE IF Supersedes(log[n], best[n - 1]) THEN log[n] ELSE best[n - 1]
  IN  best[Len(log)]

Best == Scan(snapshot, lines)

(* Faulty variant: nothing found is not told from a state. *)
LoadedBest == Best
Loaded == IF Best = NoFile THEN EmptyState ELSE Best

-----------------------------------------------------------------------------
(* persist                                                                 *)

Fail == pc' = "idle" /\ UNCHANGED <<mem, acked, doubt>>
Die == pc' = "down" /\ UNCHANGED <<mem, acked, doubt>>

(* Faulty variant: Sequence is only incremented once persist succeeded. *)
SameSequence(s) == s.seq
NextSequence(s) == s.seq + 1

(* Update: fn has run, Sequence is incremented. *)
Begin ==
  /\ pc = "idle"
  /\ mem.seq < MaxSequence /\ Len(lines) < MaxLines
  /\ \E v \in Contents :
       /\ next' = [seq |-> NextSequence(mem), val |-> v]
       /\ doubt' = doubt \cup {next'}
  /\ pc' = "append"
  /\ UNCHANGED <<fs, files, mem, acked>>

(* What stands before the bytes appended now: an unterminated line and the *)
(* new one make a single line that does not decode.                        *)
Before == IF tail = "whole" THEN Front(lines) ELSE lines

(* The whole line, newline included, reaches the file. *)
AppendLine ==
  /\ lines' = IF tail = "clean" THEN Append(lines, next) ELSE Before
  /\ tail' = "clean"
  /\ UNCHANGED <<snapshot, aside>>

(* Only a part of it does, or all of it but the newline. *)
AppendPart ==
  /\ \/ tail = "clean" /\ lines' = Append(lines, next) /\ tail' = "whole"
     \/ lines' = Before /\ tail' = "part"
  /\ UNCHANGED <<snapshot, aside>>

(* Write and Sync of the WAL. *)
AppendWAL ==
  /\ pc = "append"
  /\ AppendLine
  /\ pc' = "replace"
  /\ UNCHANGED <<fs, mem, next, acked, doubt>>

(* Write or Sync fails; a failed Sync leaves the line in the file. *)
AppendFails ==
  /\ pc = "append"
  /\ \/ UNCHANGED files
     \/ AppendLine
     \/ "error" \in fs.cuts /\ AppendPart
  /\ Fail
  /\ UNCHANGED <<fs, next>>

AppendCrashes ==
  /\ pc = "append"
  /\ \/ UNCHANGED files
     \/ AppendLine
     \/ "crash" \in fs.cuts /\ AppendPart
  /\ Die
  /\ UNCHANGED <<fs, next>>

(* The temporary file is written, synced and renamed over the snapshot. *)
Replace ==
  /\ pc = "replace"
  /\ snapshot' = next
  /\ pc' = "cleanup"
  /\ UNCHANGED <<fs, aside, wal, mem, next, acked, doubt>>

(* Windows refuses the rename: the snapshot, if any, is moved aside first. *)
MoveAside ==
  /\ pc = "replace" /\ fs.moveAside
  /\ aside' = snapshot
  /\ snapshot' = NoFile
  /\ pc' = "moved"
  /\ UNCHANGED <<fs, wal, mem, next, acked, doubt>>

MoveIn ==
  /\ pc = "moved"
  /\ snapshot' = next
  /\ aside' \in {NoFile, aside}
  /\ pc' = "cleanup"
  /\ UNCHANGED <<fs, wal, mem, next, acked, doubt>>

(* Writing, moving aside or renaming fails; what was moved aside is moved  *)
(* back, or that fails too.                                                *)
ReplaceFails ==
  /\ \/ pc = "replace" /\ UNCHANGED snapshot
        /\ aside' \in IF fs.moveAside THEN {NoFile, aside} ELSE {aside}
     \/ pc = "moved" /\ UNCHANGED <<snapshot, aside>>
     \/ pc = "moved" /\ snapshot' = aside /\ aside' = NoFile
  /\ Fail
  /\ UNCHANGED <<fs, wal, next>>

(* Removing the WAL is best effort; Update returns nil. *)
Cleanup ==
  /\ pc = "cleanup"
  /\ \/ lines' = <<>> /\ tail' = "clean"
     \/ UNCHANGED wal
  /\ pc' = "idle"
  /\ mem' = next
  /\ acked' = next
  /\ doubt' = {}
  /\ UNCHANGED <<fs, snapshot, aside, next>>

(* The process dies between two operations on files. *)
Crash ==
  /\ pc # "down"
  /\ Die
  /\ UNCHANGED <<fs, files, next>>

(* NewStore *)
Restart ==
  /\ pc = "down"
  /\ mem' = Loaded
  /\ pc' = "idle"
  /\ UNCHANGED <<fs, files, next, acked, doubt>>

Init ==
  /\ fs \in Filesystems
  /\ snapshot = NoFile /\ aside = NoFile
  /\ lines = <<>> /\ tail = "clean"
  /\ pc = "idle"
  /\ mem = EmptyState /\ next = EmptyState /\ acked = EmptyState
  /\ doubt = {}

Next ==
  \/ Begin \/ AppendWAL \/ AppendFails \/ AppendCrashes
  \/ Replace \/ MoveAside \/ MoveIn \/ ReplaceFails
  \/ Cleanup \/ Crash \/ Restart

Spec == Init /\ [][Next]_vars

-----------------------------------------------------------------------------
(* Properties                                                              *)

(* The files and the process keep their types. *)
TypeOK ==
  /\ fs \in Filesystems
  /\ snapshot \in Envelopes \cup {NoFile} /\ aside \in Envelopes \cup {NoFile}
  /\ lines \in Seq(Envelopes) /\ tail \in {"clean", "part", "whole"}
  /\ pc \in {"idle", "append", "replace", "moved", "cleanup", "down"}
  /\ {mem, next, acked} \subseteq Envelopes /\ doubt \subseteq Envelopes

(* store.go:134-136, 180-183 "A leftover WAL is harmless": at any moment,  *)
(* what a restart would load is the last state Update acknowledged, or one *)
(* attempted after it and not acknowledged.                                *)
RestartFindsAcknowledged == Loaded \in {acked} \cup doubt

(* store.go:66, 94: acknowledged states have growing sequences, across     *)
(* restarts, so comparing sequences compares ages.                         *)
AcknowledgedSequenceGrows ==
  [][acked' # acked => acked'.seq > acked.seq]_vars

Durable == INSTANCE DurableState WITH States <- Envelopes, memory <- mem

(* store.go as a whole: Update and NewStore keep the promise of            *)
(* DurableState, whatever fails and wherever the process dies.             *)
KeepsDurableState == Durable!Spec
=============================================================================
