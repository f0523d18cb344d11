-------------------------- MODULE StateStore_proofs --------------------------
(***************************************************************************)
(* For any number of Updates, lines of the WAL and contents: what Update   *)
(* acknowledged is what a restart finds, and the store implements          *)
(* DurableState, on file systems where only a crash cuts an append short   *)
(* and where, if it does, the snapshot is replaced in one step.            *)
(*                                                                         *)
(* load is a loop over the WAL.  What it finds is proved by induction over *)
(* the lines (ScanProperties); all that follows only uses that.  The       *)
(* induction is over a set of naturals, from the well-foundedness of the   *)
(* order of the naturals.                                                  *)
(***************************************************************************)
EXTENDS StateStore, SequenceTheorems, WellFoundedInduction, TLAPS

-----------------------------------------------------------------------------
(* Induction                                                               *)

Less == {p \in Nat \X Nat : p[1] < p[2]}

LEMMA LessIsWellFounded == IsWellFoundedOn(Less, Nat)
<1>1. OpToRel(<, Nat) = Less
  BY DEF OpToRel, Less
<1> QED BY <1>1, NatLessThanWellFounded

(* A set of naturals that is not empty has a least element. *)
LEMMA LeastNatural ==
  ASSUME NEW T \in SUBSET Nat, T # {}
  PROVE  \E x \in T : \A y \in T : x <= y
<1>1. \E x \in T : \A y \in T : ~(<<y, x>> \in Less)
  <2>1. T \subseteq Nat
    OBVIOUS
  <2> QED BY <2>1, LessIsWellFounded, WFMin, Zenon
<1>2. \A x, y \in T : y < x => <<y, x>> \in Less
  BY DEF Less
<1>3. \A x, y \in T : ~(<<y, x>> \in Less) => x <= y
  BY <1>2
<1> QED BY <1>1, <1>3

(* A set of naturals with 0, and with each number its successor up to m,   *)
(* has all of 0..m.                                                        *)
LEMMA InductionUpTo ==
  ASSUME NEW m \in Nat, NEW P, 0 \in P,
         \A n \in 0..(m - 1) : n \in P => n + 1 \in P
  PROVE  0..m \subseteq P
<1> SUFFICES ASSUME (0..m) \ P # {} PROVE FALSE
  OBVIOUS
<1>1. PICK x \in (0..m) \ P : \A y \in (0..m) \ P : x <= y
  <2>1. (0..m) \ P \in SUBSET Nat
    OBVIOUS
  <2> QED BY <2>1, LeastNatural, Zenon
<1>2. x # 0
  BY <1>1
<1>3. x - 1 \in 0..(m - 1)
  BY <1>1, <1>2
<1>4. x - 1 \in P
  BY <1>1, <1>2, <1>3
<1> QED BY <1>1, <1>3, <1>4

-----------------------------------------------------------------------------
(* What load finds                                                         *)

(* The best of the first n lines, from that of the first n - 1. *)
Better(found, log, best, n) ==
  IF n = 0 THEN found
  ELSE IF Supersedes(log[n], best[n - 1]) THEN log[n] ELSE best[n - 1]

(* The loop is a function of the number of lines read. *)
LEMMA ScanRuns ==
  ASSUME NEW found, NEW log, Len(log) \in Nat
  PROVE  \E best :
           /\ best = [n \in 0..Len(log) |-> Better(found, log, best, n)]
           /\ Scan(found, log) = best[Len(log)]
<1> DEFINE Runs(m, f) == f = [n \in 0..m |-> Better(found, log, f, n)]
           P == {m \in Nat : \E f : Runs(m, f)}
<1>1. 0 \in P
  <2>1. Runs(0, [n \in 0..0 |-> found])
    BY DEF Better
  <2> QED BY <2>1
<1>2. ASSUME NEW m \in Nat, m \in P PROVE m + 1 \in P
  <2>1. PICK f : Runs(m, f)
    BY <1>2
  <2> DEFINE g == [n \in 0..(m + 1) |->
                     IF n = m + 1 THEN Better(found, log, f, m + 1) ELSE f[n]]
  <2>2. \A n \in 0..(m + 1) : g[n] = Better(found, log, g, n)
    <3>1. \A n \in 0..m : g[n] = f[n] /\ f[n] = Better(found, log, f, n)
      BY <2>1
    <3>2. \A n \in 0..(m + 1) : n # 0 => g[n - 1] = f[n - 1]
      BY <3>1
    <3>3. \A n \in 0..(m + 1) :
            Better(found, log, g, n) = Better(found, log, f, n)
      BY <3>2 DEF Better
    <3>4. \A n \in 0..(m + 1) : g[n] = Better(found, log, f, n)
      <4> TAKE n \in 0..(m + 1)
      <4>1. CASE n = m + 1
        BY <4>1
      <4>2. CASE n # m + 1
        <5>1. n \in 0..m
          BY <4>2
        <5> QED BY <5>1, <3>1
      <4> QED BY <4>1, <4>2
    <3> QED BY <3>3, <3>4, Zenon
  <2>3. g = [n \in 0..(m + 1) |-> Better(found, log, g, n)]
    BY <2>2
  <2>4. \E h : Runs(m + 1, h)
    BY <2>3
  <2> QED BY <2>4
<1>3. \E f : Runs(Len(log), f)
  <2>1. 0..Len(log) \subseteq P
    <3> HIDE DEF P
    <3> QED BY <1>1, <1>2, InductionUpTo
  <2> QED BY <2>1
<1> DEFINE best == CHOOSE f : Runs(Len(log), f)
<1>4. Runs(Len(log), best)
  BY <1>3
<1>5. Scan(found, log) = best[Len(log)]
  BY DEF Scan, Better
<1> QED BY <1>4, <1>5

(* NoFile is no envelope. *)
LEMMA NoFileIsNoEnvelope == NoFile \notin Envelopes /\ NoFile.seq = 0
  BY StoreAssumption DEF NoFile, Envelopes

(* The empty state is one. *)
LEMMA EmptyIsEnvelope == EmptyState \in Envelopes /\ EmptyState.seq = 0
<1>1. MaxSequence \in Nat
  BY StoreAssumption
<1>2. 0 \in 0..MaxSequence
  BY <1>1
<1> QED BY <1>2 DEF EmptyState, Envelopes

LinesIn(log) == {log[i] : i \in 1..Len(log)}

(* What load finds is the snapshot or a line, none has a higher sequence,  *)
(* and it finds something if there is a line.                              *)
THEOREM ScanProperties ==
  ASSUME NEW found \in Envelopes \cup {NoFile}, NEW log \in Seq(Envelopes)
  PROVE  LET best == Scan(found, log)
         IN  /\ best \in {found} \cup LinesIn(log)
             /\ found.seq <= best.seq
             /\ \A line \in LinesIn(log) : line.seq <= best.seq
             /\ log # <<>> => best # NoFile
<1>1. Len(log) \in Nat /\ \A i \in 1..Len(log) : log[i] \in Envelopes
  BY LenProperties, ElementOfSeq
<1>2. PICK best :
        /\ best = [n \in 0..Len(log) |-> Better(found, log, best, n)]
        /\ Scan(found, log) = best[Len(log)]
  BY <1>1, ScanRuns
<1> DEFINE Holds(n) ==
             /\ best[n] \in {found} \cup {log[i] : i \in 1..n}
             /\ found.seq <= best[n].seq
             /\ \A i \in 1..n : log[i].seq <= best[n].seq
             /\ n # 0 => best[n] # NoFile
           P == {n \in 0..Len(log) : Holds(n)}
<1>3. \A n \in 0..Len(log) : best[n] = Better(found, log, best, n)
  BY <1>2
<1>4. found.seq \in Nat /\ \A i \in 1..Len(log) : log[i].seq \in Nat
  BY <1>1, NoFileIsNoEnvelope DEF Envelopes
<1>5. 0 \in P
  BY <1>1, <1>3, <1>4 DEF Better
<1>6. ASSUME NEW n \in 0..(Len(log) - 1), n \in P PROVE n + 1 \in P
  <2>1. n + 1 \in 1..Len(log) /\ (n + 1) - 1 = n
    BY <1>1
  <2>2. best[n + 1] = IF Supersedes(log[n + 1], best[n])
                      THEN log[n + 1] ELSE best[n]
    BY <1>3, <2>1 DEF Better
  <2>3. Holds(n)
    BY <1>6
  <2>4. best[n].seq \in Nat
    BY <1>1, <1>4, <2>1, <2>3
  <2>5. CASE Supersedes(log[n + 1], best[n])
    <3>1. best[n].seq <= log[n + 1].seq
      BY <1>4, <2>1, <2>4, <2>5, NoFileIsNoEnvelope DEF Supersedes
    <3>2. found.seq <= log[n + 1].seq
      BY <1>4, <2>1, <2>3, <2>4, <3>1
    <3>3. \A i \in 1..n : log[i].seq <= log[n + 1].seq
      BY <1>1, <1>4, <2>1, <2>3, <2>4, <3>1
    <3>4. log[n + 1] # NoFile
      BY <1>1, <2>1, NoFileIsNoEnvelope
    <3> QED BY <2>1, <2>2, <2>5, <3>2, <3>3, <3>4, <1>4
  <2>6. CASE ~Supersedes(log[n + 1], best[n])
    <3>1. best[n] # NoFile /\ log[n + 1].seq <= best[n].seq
      BY <1>4, <2>1, <2>4, <2>6 DEF Supersedes
    <3> QED BY <2>1, <2>2, <2>3, <2>6, <3>1
  <2> QED BY <2>5, <2>6
<1>7. Len(log) \in P
  <2>1. 0..Len(log) \subseteq P
    <3> HIDE DEF P
    <3> QED BY <1>1, <1>5, <1>6, InductionUpTo
  <2> QED BY <1>1, <2>1
<1>8. log # <<>> => Len(log) # 0
  BY EmptySeq, LenProperties
<1> QED BY <1>2, <1>7, <1>8 DEF LinesIn

(* A last line that none before it and no snapshot surpasses is found. *)
LEMMA ScanFindsLast ==
  ASSUME NEW found \in Envelopes \cup {NoFile}, NEW log \in Seq(Envelopes),
         NEW line \in Envelopes, found.seq <= line.seq,
         \A earlier \in LinesIn(log) : earlier.seq <= line.seq
  PROVE  Scan(found, Append(log, line)) = line
<1> DEFINE m == Len(log) + 1
           whole == Append(log, line)
<1>1. /\ Len(log) \in Nat /\ Len(whole) = m /\ whole \in Seq(Envelopes)
      /\ \A i \in 1..Len(log) : whole[i] = log[i] /\ log[i] \in Envelopes
      /\ whole[m] = line
  BY AppendProperties, LenProperties, ElementOfSeq
<1>2. PICK best :
        /\ best = [n \in 0..m |-> Better(found, whole, best, n)]
        /\ Scan(found, whole) = best[m]
  <2> HIDE DEF whole, m
  <2>1. Len(whole) = m /\ Len(whole) \in Nat
    BY <1>1 DEF m
  <2>2. \E best :
          /\ best = [n \in 0..Len(whole) |-> Better(found, whole, best, n)]
          /\ Scan(found, whole) = best[Len(whole)]
    BY <2>1, ScanRuns
  <2> QED BY <2>1, <2>2
<1> HIDE DEF whole
<1>3. \A n \in 0..m : best[n] = Better(found, whole, best, n)
  BY <1>2
<1> DEFINE P == {n \in 0..Len(log) : best[n] \in {found} \cup LinesIn(log)}
<1>4. 0 \in P
  BY <1>1, <1>3 DEF Better
<1>5. ASSUME NEW n \in 0..(Len(log) - 1), n \in P PROVE n + 1 \in P
  <2>1. n + 1 \in 1..Len(log) /\ n + 1 \in 0..m /\ (n + 1) - 1 = n
    BY <1>1
  <2>2. best[n + 1] \in {log[n + 1], best[n]}
    BY <1>1, <1>3, <2>1 DEF Better
  <2> QED BY <1>5, <2>1, <2>2 DEF LinesIn
<1>6. best[Len(log)] \in {found} \cup LinesIn(log)
  <2>1. 0..Len(log) \subseteq P
    <3> HIDE DEF P
    <3> QED BY <1>1, <1>4, <1>5, InductionUpTo
  <2> QED BY <1>1, <2>1
<1>7. best[Len(log)].seq <= line.seq
  BY <1>6
<1>8. Supersedes(line, best[Len(log)])
  BY <1>6, <1>7, <1>1, NoFileIsNoEnvelope DEF Supersedes, Envelopes, LinesIn
<1>9. best[m] = line
  <2>1. m \in 0..m /\ m # 0 /\ m - 1 = Len(log)
    BY <1>1
  <2> QED BY <1>1, <1>3, <1>8, <2>1 DEF Better
<1> QED BY <1>2, <1>9 DEF whole

-----------------------------------------------------------------------------
(* The invariant                                                           *)

(* The file systems the theorems are about.  Elsewhere the promise breaks: *)
(* on a full disk the line of a failed Update stays (run bug_full_disk),   *)
(* and a line cut by a crash swallows the next one, which two renames of   *)
(* the snapshot rely on.                                                   *)
SoundCuts ==
  \A f \in Filesystems : "error" \notin f.cuts /\ (f.moveAside => f.cuts = {})

(* The states that files hold, also the one moved aside and not yet back.  *)
Written ==
  LinesIn(lines) \cup
  (({snapshot} \cup IF pc = "moved" THEN {aside} ELSE {}) \ {NoFile})

(* What load finds is the acknowledged state, or has a higher sequence.    *)
Recovers(found, log) ==
  LET best == Scan(found, log)
      state == IF best = NoFile THEN EmptyState ELSE best
  IN  state = acked \/ state.seq > acked.seq

Busy == {"append", "replace", "moved", "cleanup"}

(* Sequences: the process is never behind what was acknowledged, files are *)
(* at most one ahead of the process, and whatever is ahead of what was     *)
(* acknowledged is in doubt.                                               *)
SequencesOK ==
  /\ pc # "down" => /\ acked.seq <= mem.seq
                    /\ \A e \in Written : e.seq <= mem.seq + 1
  /\ \A e \in Written : e.seq > acked.seq => e \in doubt
  /\ pc \in Busy => next.seq = mem.seq + 1 /\ next \in doubt

(* The end of the WAL: an append cut off by a crash is the last thing its  *)
(* process did; the next process starts from the highest line, so dropping *)
(* the broken end with its first append loses nothing it relied on.        *)
TailOK ==
  /\ tail # "clean" =>
       /\ ~fs.moveAside
       /\ pc \in {"down", "idle", "append"}
       /\ pc # "down" => \A line \in LinesIn(lines) : line.seq <= mem.seq
  /\ tail = "whole" => lines # <<>> /\ Recovers(snapshot, Front(lines))

(* The state being persisted: from the append on no line gets ahead of it, *)
(* and its own line is there as long as the snapshot may be missing.       *)
NextOK ==
  /\ pc \in {"replace", "moved", "cleanup"} => Scan(next, lines) = next
  /\ pc \in {"replace", "moved"} /\ fs.moveAside => next \in LinesIn(lines)
  /\ pc = "moved" => fs.moveAside
  /\ pc = "cleanup" => snapshot = next

IInv ==
  /\ TypeOK
  /\ SequencesOK
  /\ TailOK
  /\ NextOK
  /\ Recovers(snapshot, lines)

-----------------------------------------------------------------------------
(* Facts used throughout                                                   *)

LEMMA SequenceTypes ==
  ASSUME TypeOK
  PROVE  /\ mem.seq \in Nat /\ next.seq \in Nat /\ acked.seq \in Nat
         /\ \A e \in Envelopes \cup {NoFile} : e.seq \in Nat
         /\ Written \subseteq Envelopes /\ LinesIn(lines) \subseteq Written
<1>1. \A e \in Envelopes \cup {NoFile} : e.seq \in Nat
  <2>1. \A e \in Envelopes : e.seq \in Nat
    BY DEF Envelopes
  <2> QED BY <2>1, NoFileIsNoEnvelope
<1>2. LinesIn(lines) \subseteq Envelopes
  BY ElementOfSeq DEF TypeOK, LinesIn
<1>3. \A e \in LinesIn(lines) : e # NoFile
  BY <1>2, NoFileIsNoEnvelope
<1> QED BY <1>1, <1>2, <1>3 DEF TypeOK, Written

LEMMA FrontOf ==
  ASSUME NEW S, NEW log \in Seq(S)
  PROVE  /\ log # <<>> => /\ Front(log) \in Seq(S)
                          /\ LinesIn(Front(log)) \subseteq LinesIn(log)
         /\ \A e \in S : Front(Append(log, e)) = log
<1>1. ASSUME log # <<>>
      PROVE  /\ Front(log) \in Seq(S)
             /\ LinesIn(Front(log)) \subseteq LinesIn(log)
  <2>1. Len(log) \in Nat \ {0}
    BY <1>1, LenProperties, EmptySeq
  <2>2. /\ Front(log) \in Seq(S) /\ Len(Front(log)) = Len(log) - 1
        /\ \A i \in 1..(Len(log) - 1) : Front(log)[i] = log[i]
    <3> DEFINE n == Len(log) - 1
    <3>1. n \in Nat /\ \A i \in 1..n : log[i] \in S
      BY <2>1, ElementOfSeq
    <3>2. 1 \in Int /\ n \in Int
      BY <3>1
    <3> HIDE DEF n
    <3>3. /\ SubSeq(log, 1, n) \in Seq(S)
          /\ Len(SubSeq(log, 1, n)) = IF 1 <= n THEN n - 1 + 1 ELSE 0
          /\ \A i \in 1..(n - 1 + 1) : SubSeq(log, 1, n)[i] = log[1 + i - 1]
      BY <3>1, <3>2, SubSeqProperties
    <3>4. Front(log) = SubSeq(log, 1, n)
      BY DEF Front, n
    <3>5. Len(Front(log)) = n /\ \A i \in 1..n : Front(log)[i] = log[i]
      BY <3>1, <3>3, <3>4
    <3> QED BY <3>3, <3>4, <3>5 DEF n
  <2> QED BY <2>1, <2>2 DEF LinesIn
<1>2. ASSUME NEW e \in S PROVE Front(Append(log, e)) = log
  BY AppendProperties, LenProperties DEF Front
<1> QED BY <1>1, <1>2

LEMMA LinesOfAppend ==
  ASSUME NEW log \in Seq(Envelopes), NEW e \in Envelopes
  PROVE  LinesIn(Append(log, e)) = LinesIn(log) \cup {e}
<1>1. /\ Len(log) \in Nat /\ Len(Append(log, e)) = Len(log) + 1
      /\ \A i \in 1..Len(log) : Append(log, e)[i] = log[i]
      /\ Append(log, e)[Len(log) + 1] = e
  BY AppendProperties, LenProperties
<1> QED BY <1>1 DEF LinesIn

(* A line ahead of what was acknowledged is enough. *)
LEMMA LineAheadRecovers ==
  ASSUME TypeOK, NEW found \in Envelopes \cup {NoFile},
         NEW log \in Seq(Envelopes),
         NEW line \in LinesIn(log), line.seq > acked.seq
  PROVE  Recovers(found, log)
<1>1. line \in Envelopes
  BY ElementOfSeq DEF LinesIn
<1>2. log # <<>>
  BY EmptySeq DEF LinesIn
<1>3. /\ Scan(found, log) # NoFile /\ line.seq <= Scan(found, log).seq
      /\ Scan(found, log) \in Envelopes
  <2>1. LinesIn(log) \subseteq Envelopes
    BY ElementOfSeq DEF LinesIn
  <2> QED BY <1>2, <2>1, ScanProperties
<1> QED BY <1>1, <1>3, SequenceTypes DEF Recovers

(* The state being persisted, once it is the snapshot. *)
LEMMA SnapshotAheadRecovers ==
  ASSUME TypeOK, next.seq > acked.seq, Scan(next, lines) = next
  PROVE  Recovers(next, lines)
<1>1. next \in Envelopes /\ next # NoFile
  BY NoFileIsNoEnvelope DEF TypeOK
<1> QED BY <1>1 DEF Recovers

-----------------------------------------------------------------------------
(* What an append leaves in the WAL                                        *)

(* The lines that the first append after a crash leaves standing. *)
LEMMA LinesBefore ==
  ASSUME IInv, pc = "append"
  PROVE  /\ Before \in Seq(Envelopes)
         /\ LinesIn(Before) \subseteq LinesIn(lines)
         /\ Recovers(snapshot, Before)
<1>1. lines \in Seq(Envelopes)
  BY DEF IInv, TypeOK
<1>2. CASE tail = "whole"
  <2>1. lines # <<>> /\ Recovers(snapshot, Front(lines))
    BY <1>2 DEF IInv, TailOK
  <2> QED BY <1>1, <1>2, <2>1, FrontOf DEF Before
<1>3. CASE tail # "whole"
  BY <1>1, <1>3 DEF Before, IInv
<1> QED BY <1>2, <1>3

(* A whole line: load finds an acknowledged state or one ahead, and once   *)
(* the snapshot is replaced it finds that.                                 *)
LEMMA WholeLine ==
  ASSUME IInv, pc = "append", AppendLine
  PROVE  /\ lines' \in Seq(Envelopes) /\ tail' = "clean"
         /\ LinesIn(lines') \subseteq LinesIn(lines) \cup {next}
         /\ Recovers(snapshot, lines')
         /\ Scan(next, lines') = next
         /\ fs.moveAside => next \in LinesIn(lines')
<1>1. /\ TypeOK /\ lines \in Seq(Envelopes) /\ next \in Envelopes
      /\ snapshot \in Envelopes \cup {NoFile}
  BY DEF IInv, TypeOK
<1>2. /\ next.seq = mem.seq + 1 /\ acked.seq <= mem.seq
      /\ \A line \in LinesIn(lines) : line.seq <= mem.seq + 1
  BY <1>1, SequenceTypes DEF IInv, SequencesOK, Busy
<1>3. mem.seq \in Nat /\ acked.seq \in Nat /\ next.seq > acked.seq
  BY <1>1, <1>2, SequenceTypes
<1>4. CASE tail = "clean"
  <2>1. lines' = Append(lines, next)
    BY <1>4 DEF AppendLine
  <2>2. /\ lines' \in Seq(Envelopes)
        /\ LinesIn(lines') = LinesIn(lines) \cup {next}
    BY <1>1, <2>1, LinesOfAppend, AppendProperties
  <2>3. Recovers(snapshot, lines')
    BY <1>1, <1>3, <2>2, LineAheadRecovers
  <2>4. Scan(next, lines') = next
    <3>1. next.seq <= next.seq
      BY <1>2, <1>3
    <3>2. \A line \in LinesIn(lines) : line.seq <= next.seq
      BY <1>2
    <3> QED BY <1>1, <2>1, <3>1, <3>2, ScanFindsLast
  <2> QED BY <2>2, <2>3, <2>4 DEF AppendLine
<1>5. CASE tail # "clean"
  <2>1. lines' = Before
    BY <1>5 DEF AppendLine
  <2>2. /\ lines' \in Seq(Envelopes) /\ LinesIn(lines') \subseteq LinesIn(lines)
        /\ Recovers(snapshot, lines')
    BY <2>1, LinesBefore
  <2>3. ~fs.moveAside /\ \A line \in LinesIn(lines') : line.seq <= mem.seq
    BY <1>5, <2>2 DEF IInv, TailOK
  <2>4. Scan(next, lines') = next
    <3>1. /\ Scan(next, lines') \in {next} \cup LinesIn(lines')
          /\ next.seq <= Scan(next, lines').seq
      BY <1>1, <2>2, ScanProperties
    <3>2. \A line \in LinesIn(lines') : ~(next.seq <= line.seq)
      <4>1. \A line \in LinesIn(lines') : line.seq \in Nat
        BY <1>1, <2>2, SequenceTypes
      <4> QED BY <1>2, <1>3, <2>3, <4>1
    <3> QED BY <3>1, <3>2
  <2> QED BY <2>2, <2>3, <2>4 DEF AppendLine
<1> QED BY <1>4, <1>5

(* A part of one: the same, and if the newline is all that is missing it   *)
(* stays so when the next append makes the line unreadable.                *)
LEMMA PartOfLine ==
  ASSUME IInv, pc = "append", AppendPart
  PROVE  /\ lines' \in Seq(Envelopes) /\ tail' \in {"part", "whole"}
         /\ LinesIn(lines') \subseteq LinesIn(lines) \cup {next}
         /\ Recovers(snapshot, lines')
         /\ tail' = "whole" => lines' # <<>> /\ Recovers(snapshot, Front(lines'))
<1>1. /\ TypeOK /\ lines \in Seq(Envelopes) /\ next \in Envelopes
      /\ snapshot \in Envelopes \cup {NoFile} /\ Recovers(snapshot, lines)
  BY DEF IInv, TypeOK
<1>2. next.seq > acked.seq
  BY <1>1, SequenceTypes DEF IInv, SequencesOK, Busy
<1>3. CASE lines' = Append(lines, next) /\ tail' = "whole"
  <2>1. /\ lines' \in Seq(Envelopes) /\ lines' # <<>>
        /\ LinesIn(lines') = LinesIn(lines) \cup {next}
    BY <1>1, <1>3, LinesOfAppend, AppendProperties
  <2>2. Front(lines') = lines
    BY <1>1, <1>3, FrontOf
  <2>3. Recovers(snapshot, lines')
    BY <1>1, <1>2, <2>1, LineAheadRecovers
  <2> QED BY <1>1, <1>3, <2>1, <2>2, <2>3
<1>4. CASE lines' = Before /\ tail' = "part"
  BY <1>4, LinesBefore
<1> QED BY <1>3, <1>4 DEF AppendPart

-----------------------------------------------------------------------------
(* Each action preserves the invariant.                                    *)

(* Update starts. *)
LEMMA BeginIInv == ASSUME IInv, Begin PROVE IInv'
<1>1. PICK v \in Contents :
        /\ next' = [seq |-> mem.seq + 1, val |-> v]
        /\ doubt' = doubt \cup {next'}
  BY DEF Begin, NextSequence
<1>2. mem.seq \in Nat /\ mem.seq < MaxSequence /\ MaxSequence \in Nat
  BY SequenceTypes, StoreAssumption DEF IInv, Begin
<1>3. next' \in Envelopes /\ next'.seq = mem.seq + 1 /\ next' \in doubt'
  BY <1>1, <1>2 DEF Envelopes
<1>4. TypeOK'
  BY <1>1, <1>3 DEF Begin, IInv, TypeOK, files, wal
<1>5. Written' = Written
  BY DEF Begin, Written, files, wal
<1>6. SequencesOK'
  BY <1>1, <1>3, <1>5 DEF Begin, IInv, SequencesOK
<1>7. TailOK'
  BY DEF Begin, IInv, TailOK, Recovers, files, wal
<1>8. NextOK' /\ Recovers(snapshot, lines)'
  BY DEF Begin, IInv, NextOK, Recovers, files, wal
<1> QED BY <1>4, <1>6, <1>7, <1>8 DEF IInv

(* Update fails or the process dies: no file holds anything new but the    *)
(* state that was appended, and the WAL ends as TailOK allows.             *)
LEMMA StoppedIInv ==
  ASSUME IInv, pc # "down", Fail \/ Die, UNCHANGED <<fs, next>>,
         {snapshot', aside'} \subseteq Envelopes \cup {NoFile},
         lines' \in Seq(Envelopes), tail' \in {"clean", "part", "whole"},
         Written' \subseteq Written \cup (IF pc = "append" THEN {next} ELSE {}),
         Recovers(snapshot', lines'),
         tail' # "clean" =>
           /\ ~fs.moveAside
           /\ pc' # "down" => \A line \in LinesIn(lines') : line.seq <= mem.seq,
         tail' = "whole" => lines' # <<>> /\ Recovers(snapshot', Front(lines'))
  PROVE  IInv'
<1>1. pc' \in {"idle", "down"} /\ UNCHANGED <<fs, next, mem, acked, doubt>>
  BY DEF Fail, Die
<1>2. TypeOK'
  BY <1>1 DEF IInv, TypeOK
<1>3. SequencesOK'
  <2>1. \A e \in Written' : e \in Written \/ (pc = "append" /\ e = next)
    OBVIOUS
  <2>2. pc = "append" =>
          next.seq = mem.seq + 1 /\ next \in doubt /\ next.seq <= mem.seq + 1
    BY SequenceTypes DEF IInv, SequencesOK, Busy
  <2> QED BY <1>1, <2>1, <2>2 DEF IInv, SequencesOK, Busy
<1>4. TailOK'
  BY <1>1 DEF TailOK, Recovers
<1>5. NextOK' /\ Recovers(snapshot, lines)'
  BY <1>1 DEF NextOK, Recovers
<1> QED BY <1>2, <1>3, <1>4, <1>5 DEF IInv

(* The line is appended. *)
LEMMA AppendWALIInv == ASSUME IInv, AppendWAL PROVE IInv'
<1>1. /\ lines' \in Seq(Envelopes) /\ tail' = "clean"
      /\ LinesIn(lines') \subseteq LinesIn(lines) \cup {next}
      /\ Recovers(snapshot, lines')
      /\ Scan(next, lines') = next
      /\ fs.moveAside => next \in LinesIn(lines')
  BY WholeLine DEF AppendWAL
<1>2. /\ pc = "append" /\ pc' = "replace"
      /\ UNCHANGED <<fs, snapshot, aside, mem, next, acked, doubt>>
  BY DEF AppendWAL, AppendLine
<1>3. TypeOK'
  BY <1>1, <1>2 DEF IInv, TypeOK
<1>4. SequencesOK'
  <2>1. \A e \in Written' : e \in Written \cup {next}
    BY <1>1, <1>2 DEF Written
  <2>2. next.seq = mem.seq + 1 /\ next \in doubt /\ next.seq <= mem.seq + 1
    BY <1>2, SequenceTypes DEF IInv, SequencesOK, Busy
  <2> QED BY <1>2, <2>1, <2>2 DEF IInv, SequencesOK, Busy
<1>5. TailOK'
  BY <1>1 DEF TailOK
<1>6. NextOK' /\ Recovers(snapshot, lines)'
  BY <1>1, <1>2 DEF NextOK, Recovers
<1> QED BY <1>3, <1>4, <1>5, <1>6 DEF IInv

(* Nothing changed in the files. *)
LEMMA UnchangedFiles ==
  ASSUME IInv, pc = "append" \/ (pc # "down" /\ pc' = "down"),
         Fail \/ Die, UNCHANGED <<files, fs, next>>
  PROVE  IInv'
<1>1. UNCHANGED <<snapshot, aside, lines, tail>>
  BY DEF files, wal
<1>2. pc # "down"
  OBVIOUS
<1>3. Written' \subseteq Written
  BY <1>1 DEF Written, Fail, Die
<1>4. /\ {snapshot', aside'} \subseteq Envelopes \cup {NoFile}
      /\ lines' \in Seq(Envelopes) /\ tail' \in {"clean", "part", "whole"}
      /\ Recovers(snapshot', lines')
  BY <1>1 DEF IInv, TypeOK
<1>5. /\ tail' # "clean" =>
           /\ ~fs.moveAside
           /\ pc' # "down" => \A line \in LinesIn(lines') : line.seq <= mem.seq
      /\ tail' = "whole" => lines' # <<>> /\ Recovers(snapshot', Front(lines'))
  BY <1>1, <1>2 DEF IInv, TailOK
<1> QED BY <1>3, <1>4, <1>5, StoppedIInv

(* The append fails or is cut off by a crash. *)
LEMMA AppendStopsIInv ==
  ASSUME IInv, SoundCuts, AppendFails \/ AppendCrashes PROVE IInv'
<1>1. /\ pc = "append" /\ pc # "down"
      /\ Fail \/ Die
      /\ UNCHANGED <<fs, next>>
      /\ pc' \in {"idle", "down"}
  BY DEF AppendFails, AppendCrashes, Fail, Die
<1>2. /\ fs \in Filesystems /\ "error" \notin fs.cuts
      /\ fs.moveAside => fs.cuts = {}
  BY DEF IInv, TypeOK, SoundCuts
<1>3. CASE UNCHANGED files
  BY <1>1, <1>3, UnchangedFiles
<1>4. ASSUME lines' \in Seq(Envelopes), tail' \in {"clean", "part", "whole"},
             UNCHANGED <<snapshot, aside>>,
             LinesIn(lines') \subseteq LinesIn(lines) \cup {next},
             Recovers(snapshot, lines'),
             tail' # "clean" => ~fs.moveAside /\ pc' = "down",
             tail' = "whole" =>
               lines' # <<>> /\ Recovers(snapshot, Front(lines'))
      PROVE  IInv'
  <2>1. Written' \subseteq Written \cup {next}
    BY <1>1, <1>4 DEF Written
  <2>2. {snapshot', aside'} \subseteq Envelopes \cup {NoFile}
    BY <1>4 DEF IInv, TypeOK
  <2>3. Recovers(snapshot', lines')
        /\ (tail' = "whole" => Recovers(snapshot', Front(lines')))
    BY <1>4
  <2> QED BY <1>1, <1>4, <2>1, <2>2, <2>3, StoppedIInv
<1>5. CASE AppendLine
  <2>1. UNCHANGED <<snapshot, aside>>
    BY <1>5 DEF AppendLine
  <2> QED BY <1>1, <1>4, <1>5, <2>1, WholeLine
<1>6. CASE "crash" \in fs.cuts /\ pc' = "down" /\ AppendPart
  <2>1. UNCHANGED <<snapshot, aside>>
    BY <1>6 DEF AppendPart
  <2>2. ~fs.moveAside
    BY <1>2, <1>6
  <2> QED BY <1>1, <1>4, <1>6, <2>1, <2>2, PartOfLine
<1> QED
  BY <1>2, <1>3, <1>5, <1>6 DEF AppendFails, AppendCrashes, Die

(* The new state becomes the snapshot, in one step or by the second of two *)
(* renames.                                                                *)
LEMMA ReplaceIInv == ASSUME IInv, Replace \/ MoveIn PROVE IInv'
<1>1. /\ pc \in {"replace", "moved"} /\ pc' = "cleanup" /\ snapshot' = next
      /\ aside' \in {NoFile, aside}
      /\ UNCHANGED <<fs, lines, tail, mem, next, acked, doubt>>
  BY DEF Replace, MoveIn, wal
<1>2. /\ next.seq = mem.seq + 1 /\ next \in doubt /\ acked.seq <= mem.seq
      /\ Scan(next, lines) = next
  BY <1>1 DEF IInv, SequencesOK, NextOK, Busy
<1>3. next.seq > acked.seq /\ next.seq <= mem.seq + 1
  BY <1>2, SequenceTypes DEF IInv
<1>4. TypeOK'
  BY <1>1 DEF IInv, TypeOK
<1>5. SequencesOK'
  <2>1. \A e \in Written' : e \in Written \cup {next}
    BY <1>1 DEF Written
  <2> QED BY <1>1, <1>2, <1>3, <2>1 DEF IInv, SequencesOK
<1>6. TailOK'
  BY <1>1 DEF IInv, TailOK
<1>7. NextOK'
  BY <1>1, <1>2 DEF IInv, NextOK
<1>8. Recovers(next, lines)
  BY <1>2, <1>3, SnapshotAheadRecovers DEF IInv
<1>9. Recovers(snapshot, lines)'
  BY <1>1, <1>8 DEF Recovers
<1> QED BY <1>4, <1>5, <1>6, <1>7, <1>9 DEF IInv

(* The line of the state being persisted covers for the snapshot. *)
LEMMA LineCovers ==
  ASSUME IInv, pc \in {"replace", "moved"}, fs.moveAside,
         NEW found \in Envelopes \cup {NoFile}
  PROVE  Recovers(found, lines)
<1>1. next \in LinesIn(lines) /\ next.seq = mem.seq + 1 /\ acked.seq <= mem.seq
  BY DEF IInv, NextOK, SequencesOK, Busy
<1>2. next.seq > acked.seq
  BY <1>1, SequenceTypes DEF IInv
<1> QED BY <1>1, <1>2, LineAheadRecovers DEF IInv, TypeOK

(* The first of two renames. *)
LEMMA MoveAsideIInv == ASSUME IInv, MoveAside PROVE IInv'
<1>1. /\ pc = "replace" /\ fs.moveAside /\ pc' = "moved"
      /\ aside' = snapshot /\ snapshot' = NoFile
      /\ UNCHANGED <<fs, lines, tail, mem, next, acked, doubt>>
  BY DEF MoveAside, wal
<1>2. TypeOK'
  BY <1>1 DEF IInv, TypeOK
<1>3. SequencesOK'
  <2>1. \A e \in Written' : e \in Written
    BY <1>1 DEF Written
  <2> QED BY <1>1, <2>1 DEF IInv, SequencesOK, Busy
<1>4. TailOK'
  BY <1>1 DEF IInv, TailOK
<1>5. NextOK'
  BY <1>1 DEF IInv, NextOK
<1>6. Recovers(NoFile, lines)
  BY <1>1, LineCovers
<1>7. Recovers(snapshot, lines)'
  BY <1>1, <1>6 DEF Recovers
<1> QED BY <1>2, <1>3, <1>4, <1>5, <1>7 DEF IInv

(* Replacing fails; what was moved aside may be back or lost. *)
LEMMA ReplaceFailsIInv == ASSUME IInv, ReplaceFails PROVE IInv'
<1>1. /\ pc \in {"replace", "moved"} /\ Fail /\ pc' = "idle"
      /\ UNCHANGED <<fs, lines, tail, next>>
      /\ tail = "clean"
  BY DEF ReplaceFails, Fail, wal, IInv, TailOK, TypeOK
<1>2. /\ snapshot' = snapshot \/ (pc = "moved" /\ snapshot' = aside)
      /\ aside' \in {NoFile, aside}
  BY DEF ReplaceFails
<1>3. {snapshot', aside'} \subseteq Envelopes \cup {NoFile}
  BY <1>2 DEF IInv, TypeOK
<1>4. Written' \subseteq Written
  BY <1>1, <1>2 DEF Written
<1>5. Recovers(snapshot', lines')
  <2>1. CASE snapshot' = snapshot
    BY <1>1, <2>1 DEF IInv
  <2>2. CASE pc = "moved" /\ snapshot' = aside
    <3>1. fs.moveAside /\ aside \in Envelopes \cup {NoFile}
      BY <2>2 DEF IInv, NextOK, TypeOK
    <3> QED BY <1>1, <2>2, <3>1, LineCovers
  <2> QED BY <1>2, <2>1, <2>2
<1>6. lines' \in Seq(Envelopes) /\ tail' = "clean"
  BY <1>1 DEF IInv, TypeOK
<1> QED BY <1>1, <1>3, <1>4, <1>5, <1>6, StoppedIInv

(* Update is acknowledged, the WAL removed or left. *)
LEMMA CleanupIInv == ASSUME IInv, Cleanup PROVE IInv'
<1>1. /\ pc = "cleanup" /\ pc' = "idle" /\ mem' = next /\ acked' = next
      /\ doubt' = {} /\ UNCHANGED <<fs, snapshot, aside, next>>
      /\ (lines' = <<>> /\ tail' = "clean") \/ UNCHANGED <<lines, tail>>
  BY DEF Cleanup, wal
<1>2. /\ next.seq = mem.seq + 1 /\ snapshot = next /\ Scan(next, lines) = next
      /\ tail = "clean"
  BY <1>1 DEF IInv, SequencesOK, NextOK, TailOK, TypeOK, Busy
<1>3. next \in Envelopes /\ next # NoFile
  BY NoFileIsNoEnvelope DEF IInv, TypeOK
<1>4. lines' \in Seq(Envelopes) /\ LinesIn(lines') \subseteq LinesIn(lines)
  <2>1. LinesIn(<<>>) = {} /\ <<>> \in Seq(Envelopes)
    BY DEF LinesIn
  <2>2. CASE lines' = <<>>
    BY <2>1, <2>2
  <2>3. CASE lines' = lines
    BY <2>3 DEF IInv, TypeOK
  <2> QED BY <1>1, <2>2, <2>3
<1>5. TypeOK'
  BY <1>1, <1>4 DEF IInv, TypeOK
<1>6. SequencesOK'
  <2>1. \A e \in Written' : e \in Written
    BY <1>1, <1>4 DEF Written
  <2>2. \A e \in Written : e.seq \in Nat /\ e.seq <= next.seq /\ ~(e.seq > next.seq)
    BY <1>1, <1>2, SequenceTypes DEF IInv, SequencesOK
  <2>3. \A e \in Written : e.seq <= next.seq + 1
    BY <2>2, <1>3, SequenceTypes DEF IInv
  <2>4. next.seq <= next.seq
    BY SequenceTypes DEF IInv
  <2> QED BY <1>1, <2>1, <2>2, <2>3, <2>4 DEF SequencesOK, Busy
<1>7. TailOK' /\ NextOK'
  BY <1>1, <1>2 DEF TailOK, NextOK
<1>8. Scan(next, lines') = next
  <2>1. CASE lines' = <<>>
    <3>1. LinesIn(<<>>) = {}
      BY DEF LinesIn
    <3>2. <<>> \in Seq(Envelopes)
      OBVIOUS
    <3> QED BY <1>3, <2>1, <3>1, <3>2, ScanProperties
  <2>2. CASE lines' = lines
    BY <1>2, <2>2
  <2> QED BY <1>1, <2>1, <2>2
<1>9. Recovers(snapshot, lines)'
  BY <1>1, <1>2, <1>3, <1>8 DEF Recovers
<1> QED BY <1>5, <1>6, <1>7, <1>9 DEF IInv

(* NewStore: the process starts from the highest state in the files. *)
LEMMA RestartIInv == ASSUME IInv, Restart PROVE IInv'
<1>1. /\ pc = "down" /\ pc' = "idle" /\ mem' = Loaded
      /\ UNCHANGED <<fs, snapshot, aside, lines, tail, next, acked, doubt>>
  BY DEF Restart, files, wal
<1>2. /\ snapshot \in Envelopes \cup {NoFile} /\ lines \in Seq(Envelopes)
      /\ EmptyState \in Envelopes /\ EmptyState.seq = 0
  BY EmptyIsEnvelope DEF IInv, TypeOK
<1>3. /\ Best \in Envelopes \cup {NoFile}
      /\ \A e \in Written : e.seq <= Best.seq
      /\ Best = NoFile => Best.seq = 0
  <2>1. /\ Best \in {snapshot} \cup LinesIn(lines) /\ snapshot.seq <= Best.seq
        /\ \A line \in LinesIn(lines) : line.seq <= Best.seq
    BY <1>2, ScanProperties DEF Best
  <2>2. \A e \in Written : e = snapshot \/ e \in LinesIn(lines)
    BY <1>1 DEF Written
  <2> QED BY <1>2, <2>1, <2>2, NoFileIsNoEnvelope, SequenceTypes DEF IInv
<1>4. /\ Loaded \in Envelopes /\ Loaded.seq \in Nat /\ Loaded.seq = Best.seq
  <2>1. Loaded \in Envelopes /\ Loaded.seq = Best.seq
    BY <1>2, <1>3 DEF Loaded
  <2> QED BY <2>1, SequenceTypes DEF IInv
<1>5. \A e \in Written : e.seq <= Loaded.seq /\ e.seq <= Loaded.seq + 1
  BY <1>3, <1>4, SequenceTypes DEF IInv
<1>6. acked.seq <= Loaded.seq
  <2>1. Loaded = acked \/ Loaded.seq > acked.seq
    BY DEF IInv, Recovers, Loaded, Best
  <2> QED BY <1>4, <2>1, SequenceTypes DEF IInv
<1>7. TypeOK'
  BY <1>1, <1>4 DEF IInv, TypeOK
<1>8. SequencesOK'
  <2>1. Written' = Written
    BY <1>1 DEF Written
  <2> QED BY <1>1, <1>5, <1>6, <2>1 DEF IInv, SequencesOK, Busy
<1>9. TailOK'
  <2>1. \A line \in LinesIn(lines) : line.seq <= Loaded.seq
    BY <1>5, SequenceTypes DEF IInv
  <2> QED BY <1>1, <2>1 DEF IInv, TailOK, Recovers
<1>10. NextOK' /\ Recovers(snapshot, lines)'
  BY <1>1 DEF IInv, NextOK, Recovers
<1> QED BY <1>7, <1>8, <1>9, <1>10 DEF IInv

(* Nothing is on disk at first. *)
LEMMA InitIInv == Init => IInv
<1> SUFFICES ASSUME Init PROVE IInv
  OBVIOUS
<1>1. EmptyState \in Envelopes
  BY EmptyIsEnvelope
<1>2. <<>> \in Seq(Envelopes) /\ LinesIn(<<>>) = {}
  BY DEF LinesIn
<1>3. TypeOK
  BY <1>1, <1>2 DEF Init, TypeOK
<1>4. Written = {}
  BY <1>2 DEF Init, Written
<1>5. SequencesOK
  BY <1>3, <1>4, SequenceTypes DEF Init, SequencesOK, Busy
<1>6. Scan(snapshot, lines) = NoFile
  BY <1>2, ScanProperties DEF Init
<1> QED
  BY <1>3, <1>5, <1>6 DEF Init, IInv, TailOK, NextOK, Recovers

(* One step per action. *)
LEMMA NextIInv == SoundCuts /\ IInv /\ [Next]_vars => IInv'
<1> SUFFICES ASSUME SoundCuts, IInv, [Next]_vars PROVE IInv'
  OBVIOUS
<1>1. CASE Begin
  BY <1>1, BeginIInv
<1>2. CASE AppendWAL
  BY <1>2, AppendWALIInv
<1>3. CASE AppendFails \/ AppendCrashes
  BY <1>3, AppendStopsIInv
<1>4. CASE Replace \/ MoveIn
  BY <1>4, ReplaceIInv
<1>5. CASE MoveAside
  BY <1>5, MoveAsideIInv
<1>6. CASE ReplaceFails
  BY <1>6, ReplaceFailsIInv
<1>7. CASE Cleanup
  BY <1>7, CleanupIInv
<1>8. CASE Crash
  <2>1. pc # "down" /\ pc' = "down" /\ Die /\ UNCHANGED <<files, fs, next>>
    BY <1>8 DEF Crash, Die
  <2> QED BY <2>1, UnchangedFiles
<1>9. CASE Restart
  BY <1>9, RestartIInv
<1>10. CASE UNCHANGED vars
  BY <1>10
  DEF vars, files, wal, IInv, TypeOK, SequencesOK, TailOK, NextOK, Recovers,
      Written
<1> QED
  BY <1>1, <1>2, <1>3, <1>4, <1>5, <1>6, <1>7, <1>8, <1>9, <1>10 DEF Next

-----------------------------------------------------------------------------
(* Theorems                                                                *)

(* The invariant holds throughout. *)
THEOREM StoreInvariant == ASSUME SoundCuts PROVE Spec => []IInv
<1>1. Init => IInv
  BY InitIInv
<1>2. IInv /\ [Next]_vars => IInv'
  BY SoundCuts, NextIInv
<1> QED BY <1>1, <1>2, PTL DEF Spec

(* Types need no hypothesis on what is cut: a whole line without newline   *)
(* is one of lines, so there is something to drop.                         *)
TypesInv == TypeOK /\ (tail = "whole" => lines # <<>>)

(* Whatever part of the line is appended, the WAL keeps its type. *)
LEMMA AppendTypes ==
  ASSUME TypesInv, AppendLine \/ AppendPart
  PROVE  /\ lines' \in Seq(Envelopes) /\ tail' \in {"clean", "part", "whole"}
         /\ tail' = "whole" => lines' # <<>>
         /\ UNCHANGED <<snapshot, aside>>
<1>1. lines \in Seq(Envelopes) /\ next \in Envelopes
  BY DEF TypesInv, TypeOK
<1>2. /\ Append(lines, next) \in Seq(Envelopes)
      /\ Append(lines, next) # <<>>
  <2>1. Len(Append(lines, next)) = Len(lines) + 1 /\ Len(lines) \in Nat
    BY <1>1, AppendProperties, LenProperties
  <2>2. Append(lines, next) # <<>>
    BY <2>1, <1>1, EmptySeq, AppendProperties
  <2> QED BY <1>1, <2>2, AppendProperties
<1>3. Before \in Seq(Envelopes)
  BY <1>1, FrontOf DEF TypesInv, Before
<1> QED BY <1>2, <1>3 DEF AppendLine, AppendPart

(* One step per action that touches what is typed. *)
LEMMA NextTypes == TypesInv /\ [Next]_vars => TypesInv'
<1> SUFFICES ASSUME TypesInv, [Next]_vars PROVE TypesInv'
  OBVIOUS
<1> USE DEF TypesInv, TypeOK
<1>1. CASE Begin
  <2>1. PICK v \in Contents :
          /\ next' = [seq |-> mem.seq + 1, val |-> v]
          /\ doubt' = doubt \cup {next'}
    BY <1>1 DEF Begin, NextSequence
  <2>2. mem.seq \in 0..MaxSequence /\ mem.seq < MaxSequence
    BY <1>1 DEF Begin, Envelopes
  <2>3. next' \in Envelopes
    <3>1. MaxSequence \in Nat
      BY StoreAssumption
    <3>2. mem.seq + 1 \in 0..MaxSequence
      BY <2>2, <3>1
    <3> QED BY <2>1, <3>2 DEF Envelopes
  <2> QED BY <1>1, <2>1, <2>3 DEF Begin, files, wal
<1>2. CASE AppendWAL
  BY <1>2, AppendTypes DEF AppendWAL
<1>3. CASE AppendFails \/ AppendCrashes
  <2>1. /\ UNCHANGED <<fs, next, mem, acked, doubt>> /\ pc' \in {"idle", "down"}
        /\ UNCHANGED files \/ AppendLine \/ AppendPart
    BY <1>3 DEF AppendFails, AppendCrashes, Fail, Die
  <2>2. CASE UNCHANGED files
    BY <2>1, <2>2 DEF files, wal
  <2>3. CASE AppendLine \/ AppendPart
    BY <2>1, <2>3, AppendTypes
  <2> QED BY <2>1, <2>2, <2>3
<1>4. CASE Replace \/ MoveAside \/ MoveIn
  BY <1>4 DEF Replace, MoveAside, MoveIn, wal
<1>5. CASE ReplaceFails
  BY <1>5 DEF ReplaceFails, Fail, wal
<1>6. CASE Cleanup
  <2>1. <<>> \in Seq(Envelopes)
    OBVIOUS
  <2> QED BY <1>6, <2>1 DEF Cleanup, wal
<1>7. CASE Crash
  BY <1>7 DEF Crash, Die, files, wal
<1>8. CASE Restart
  <2>1. Best \in {snapshot} \cup LinesIn(lines)
    BY ScanProperties DEF Best
  <2>2. LinesIn(lines) \subseteq Envelopes
    BY ElementOfSeq DEF LinesIn
  <2>3. Loaded \in Envelopes
    BY <2>1, <2>2, EmptyIsEnvelope DEF Loaded
  <2> QED BY <1>8, <2>3 DEF Restart, files, wal
<1>9. CASE UNCHANGED vars
  BY <1>9 DEF vars, files, wal
<1> QED
  BY <1>1, <1>2, <1>3, <1>4, <1>5, <1>6, <1>7, <1>8, <1>9 DEF Next

(* store.go:30-36: the process and its files keep their types, on every    *)
(* file system.                                                            *)
THEOREM StoreTypes == Spec => []TypeOK
<1>1. Init => TypesInv
  <2>1. <<>> \in Seq(Envelopes)
    OBVIOUS
  <2> QED BY <2>1, EmptyIsEnvelope DEF Init, TypesInv, TypeOK
<1>2. TypesInv /\ [Next]_vars => TypesInv'
  BY NextTypes
<1>3. TypesInv => TypeOK
  BY DEF TypesInv
<1> QED BY <1>1, <1>2, <1>3, PTL DEF Spec

(* load finds the acknowledged state or one in doubt. *)
LEMMA LoadedInDoubt == ASSUME IInv PROVE Loaded \in {acked} \cup doubt
<1>1. Loaded = acked \/ Loaded.seq > acked.seq
  BY DEF IInv, Recovers, Loaded, Best
<1>2. CASE Best = NoFile
  <2>1. ~(Loaded.seq > acked.seq)
    <3>1. Loaded.seq = 0
      BY <1>2 DEF Loaded, EmptyState
    <3> QED BY <3>1, SequenceTypes DEF IInv
  <2> QED BY <1>1, <2>1
<1>3. CASE Best # NoFile
  <2>1. Best \in {snapshot} \cup LinesIn(lines)
    BY ScanProperties DEF IInv, TypeOK, Best
  <2>2. Best \in Written
    BY <1>3, <2>1 DEF Written
  <2>3. Loaded = Best
    BY <1>3 DEF Loaded
  <2> QED BY <1>1, <2>2, <2>3 DEF IInv, SequencesOK
<1> QED BY <1>2, <1>3

(* store.go:134-136, 180-183: whatever fails and wherever the process      *)
(* dies, a restart finds the state Update acknowledged last or one it      *)
(* attempted since.                                                        *)
THEOREM RestartsFindAcknowledged ==
  ASSUME SoundCuts PROVE Spec => []RestartFindsAcknowledged
<1>1. IInv => RestartFindsAcknowledged
  BY LoadedInDoubt DEF RestartFindsAcknowledged
<1> QED BY <1>1, StoreInvariant, PTL

(* store.go:66, 94: of two acknowledged states the later one has the       *)
(* higher sequence, across failures and restarts.                          *)
THEOREM SequencesGrow ==
  ASSUME SoundCuts PROVE Spec => AcknowledgedSequenceGrows
<1>1. ASSUME IInv, [Next]_vars, acked' # acked PROVE acked'.seq > acked.seq
  <2>1. Cleanup
    BY <1>1
    DEF Next, vars, Begin, AppendWAL, AppendFails, AppendCrashes, Replace,
        MoveAside, MoveIn, ReplaceFails, Crash, Restart, Fail, Die
  <2>2. acked' = next /\ next.seq = mem.seq + 1 /\ acked.seq <= mem.seq
    BY <1>1, <2>1 DEF Cleanup, IInv, SequencesOK, Busy
  <2> QED BY <1>1, <2>2, SequenceTypes DEF IInv
<1>2. IInv /\ [Next]_vars => [acked' # acked => acked'.seq > acked.seq]_vars
  BY <1>1
<1> QED BY <1>2, StoreInvariant, PTL DEF Spec, AcknowledgedSequenceGrows

(* A step of Update or NewStore is one of DurableState or changes nothing  *)
(* DurableState knows of.                                                  *)
LEMMA StepIsDurable ==
  ASSUME IInv, [Next]_vars PROVE [Durable!Next]_(Durable!vars)
<1>1. CASE Begin
  <2>1. PICK v \in Contents : doubt' = doubt \cup {next'}
    BY <1>1 DEF Begin
  <2>2. next' \in Envelopes
    BY <1>1, BeginIInv DEF IInv, TypeOK
  <2>3. doubt' \subseteq Envelopes /\ \E s \in doubt' : doubt' = doubt \cup {s}
    BY <2>1, <2>2 DEF IInv, TypeOK
  <2> QED BY <1>1, <2>3 DEF Begin, Durable!Next, Durable!Attempt
<1>2. CASE Cleanup
  <2>1. next \in doubt
    BY <1>2 DEF Cleanup, IInv, SequencesOK, Busy
  <2> QED BY <1>2, <2>1 DEF Cleanup, Durable!Next, Durable!Acknowledge
<1>3. CASE Restart
  BY <1>3, LoadedInDoubt DEF Restart, Durable!Next, Durable!Restart
<1>4. CASE UNCHANGED <<mem, acked, doubt>>
  BY <1>4 DEF Durable!vars
<1>5. Begin \/ Cleanup \/ Restart \/ UNCHANGED <<mem, acked, doubt>>
  BY DEF Next, vars, AppendWAL, AppendFails, AppendCrashes, Replace,
         MoveAside, MoveIn, ReplaceFails, Crash, Fail, Die
<1> QED BY <1>1, <1>2, <1>3, <1>4, <1>5

(* store.go as a whole keeps the promise of DurableState: every restart    *)
(* finds the acknowledged state until another Update is attempted.         *)
THEOREM ImplementsDurableState ==
  ASSUME SoundCuts PROVE Spec => KeepsDurableState
<1>1. Init => Durable!Init
  <2>1. EmptyState \in Envelopes
    BY EmptyIsEnvelope
  <2> QED BY <2>1 DEF Init, Durable!Init
<1>2. IInv /\ [Next]_vars => [Durable!Next]_(Durable!vars)
  BY StepIsDurable
<1> QED
  BY <1>1, <1>2, StoreInvariant, PTL DEF Spec, KeepsDurableState, Durable!Spec
=============================================================================
