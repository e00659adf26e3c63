-------------------------- MODULE ParcookIPC_proofs --------------------------
(***************************************************************************)
(* Proofs about ParcookIPC, for any number of lines, readers, formula      *)
(* references, samples, deaths and terminations.                           *)
(*                                                                         *)
(* LockInv is inductive: the semaphores count who is inside which segment  *)
(* (SemaphoresCount), from which mutual exclusion, the absence of leaks    *)
(* and the unlocks that never wait follow.  WordsInv adds what the words   *)
(* of the segments and of the readers' copies are; it is inductive         *)
(* relative to LockInv, and gives the consistency of snapshots over both   *)
(* hops.                                                                   *)
(***************************************************************************)
EXTENDS ParcookIPC, FiniteSetTheorems, TLAPS

(* MainLoop's counter stays within the lines while it copies lines and     *)
(* within the references of the formulas while it evaluates them.          *)
CountersOK ==
  /\ pk.pc \in {"takeLine", "copyMsw", "copyLsw", "dropLine"} => pk.i \in Lines
  /\ pk.pc \in {"takeRef", "dropRef"} => pk.i \in 1 .. Len(Refs)

(* A lock counts as missed only after an interrupted semop(), and only as  *)
(* long as MainLoop is between its lock and its unlock.                    *)
MissedOK ==
  /\ missed # {} => eintr
  /\ \A s \in Segments : s \in missed => InSegment(s)
  /\ \A l \in Lines : LineSem(l) \in missed => InLine(l)

(* A reader that is about to copy the second word has copied the first.    *)
CopiedOK == \A r \in Readers : rdr[r].pc = "lsw" => rdr[r].copied \in {<<t>> : t \in Tokens}

(* The inductive invariant of the locks.  TypeOK alone is not inductive:   *)
(* that an unlock keeps the semaphores natural follows from what they      *)
(* count, and what they count depends on where parcook is.                 *)
LockInv == TypeOK /\ CopiedOK /\ CountersOK /\ MissedOK /\ SemaphoresCount /\ Exclusion

(* A line segment holds the two words of one sample, except while the      *)
(* daemon is between the words and after it died there.                    *)
LineWords ==
  \A l \in Lines :
    /\ dm[l].pc = "lsw" => ValTab[l].msw = dm[l].sample
    /\ \/ ValTab[l].msw = ValTab[l].lsw
       \/ dm[l].pc = "lsw"
       \/ l \in torn

(* The same for the words of a line in Probe, which parcook writes.        *)
ProbeWords ==
  \A l \in Lines :
    IF pk.pc = "copyLsw" /\ pk.i = l
    THEN Probe[l].msw = ValTab[l].msw
    ELSE Probe[l].msw = Probe[l].lsw \/ l \in torn

(* The same for the averages.                                              *)
AvgWords ==
  \A s \in Averages :
    IF pk.pc = "avgLsw" /\ pk.seg = s
    THEN Avg[s].msw = pk.cycle
    ELSE Avg[s].msw = Avg[s].lsw

(* The words a reader has copied so far are those of the segment it is     *)
(* inside of, and they belong together once it has both.                   *)
ReaderWords ==
  \A r \in Readers :
    /\ rdr[r].pc = "lsw" => rdr[r].copied = <<SourceOf(r).msw>>
    /\ rdr[r].pc = "drop" =>
         /\ rdr[r].copied \in Tokens \X Tokens
         /\ \/ rdr[r].copied[1] = rdr[r].copied[2]
            \/ rdr[r].seg = SEM_PROBE /\ rdr[r].line \in torn

(* The inductive invariant of the words, on top of LockInv.                *)
WordsInv == LineWords /\ (~eintr => ProbeWords /\ AvgWords /\ ReaderWords)

-----------------------------------------------------------------------------
USE DEF SEM_PROBE, SEM_MINUTE, SEM_MIN10, SEM_HOUR, SEM_LINE

(* The places in MainLoop and shmGetValue where a lock is taken and where  *)
(* it is given back.                                                       *)
Takes == {"takeProbe", "takeLine", "takeRef", "takeAvg"}
Drops == {"dropProbe", "dropLine", "dropRef", "dropAvg"}

(* The conjunct of TypeOK about parcook.                                   *)
ParcookType == pk \in [pc : ParcookPcs, i : Nat \ {0}, seg : Averages, cycle : Tokens]

(* The segments that formulas refer to are averages.                       *)
LEMMA RefInRange ==
  ASSUME NEW i \in 1 .. Len(Refs) PROVE Refs[i] \in Averages
BY RefsAssumption

(* A semop() of MainLoop is about the pair of a line or of a segment.      *)
LEMMA AddressedPair ==
  ASSUME ParcookType, CountersOK, pk.pc \in Takes \cup Drops
  PROVE  IF pk.pc \in {"takeLine", "dropLine"}
         THEN pk.i \in Lines /\ Addressed = LineSem(pk.i)
         ELSE Addressed \in Segments
BY RefInRange DEF ParcookType, CountersOK, Takes, Drops, Addressed, Segments

(* Changing the program counter and the loop counter keeps parcook typed.  *)
LEMMA MoveCounter ==
  ASSUME ParcookType, NEW c \in ParcookPcs, NEW i \in Nat \ {0},
         pk' = [pk EXCEPT !.pc = c, !.i = i]
  PROVE  ParcookType' /\ pk'.pc = c /\ pk'.i = i
BY Zenon DEF ParcookType

(* Changing program counter, loop counter and segment keeps parcook typed. *)
LEMMA MoveAll ==
  ASSUME ParcookType, NEW c \in ParcookPcs, NEW i \in Nat \ {0}, NEW s \in Averages,
         pk' = [pk EXCEPT !.pc = c, !.i = i, !.seg = s]
  PROVE  ParcookType' /\ pk'.pc = c /\ pk'.i = i /\ pk'.seg = s
BY Zenon DEF ParcookType

(* Changing program counter and segment keeps parcook typed.               *)
LEMMA MoveSegment ==
  ASSUME ParcookType, NEW c \in ParcookPcs, NEW s \in Averages,
         pk' = [pk EXCEPT !.pc = c, !.seg = s]
  PROVE  ParcookType' /\ pk'.pc = c /\ pk'.seg = s
BY Zenon DEF ParcookType

(* Changing the program counter alone keeps parcook typed and its          *)
(* counters.                                                               *)
LEMMA MovePc ==
  ASSUME ParcookType, NEW c \in ParcookPcs, pk' = [pk EXCEPT !.pc = c]
  PROVE  ParcookType' /\ pk'.pc = c /\ pk'.i = pk.i /\ pk'.seg = pk.seg
BY DEF ParcookType

(* What going past a lock (done or interrupted) does to parcook's place:   *)
(* it is now inside the segment that the semop() was about, and was not    *)
(* before.                                                                 *)
TookPair ==
  /\ ParcookType' /\ CountersOK'
  /\ pk'.pc \notin {"copyLsw", "avgLsw"}
  /\ \A s \in Segments :
       /\ InSegment(s)' <=> InSegment(s) \/ s = Addressed
       /\ s = Addressed => ~InSegment(s)
  /\ \A l \in Lines :
       /\ InLine(l)' <=> InLine(l) \/ LineSem(l) = Addressed
       /\ LineSem(l) = Addressed => ~InLine(l)

(* What going past an unlock does: parcook has left that segment.          *)
DroppedPair ==
  /\ ParcookType' /\ CountersOK'
  /\ pk'.pc \notin {"copyLsw", "avgLsw"}
  /\ \A s \in Segments :
       /\ InSegment(s)' <=> InSegment(s) /\ s # Addressed
       /\ s = Addressed => InSegment(s)
  /\ \A l \in Lines :
       /\ InLine(l)' <=> InLine(l) /\ LineSem(l) # Addressed
       /\ LineSem(l) = Addressed => InLine(l)

(* Every lock of MainLoop takes parcook into exactly the segment it is     *)
(* about.                                                                  *)
LEMMA TakeMoves ==
  ASSUME ParcookType, CountersOK, pk.pc \in Takes, pk' \in Continue
  PROVE  TookPair
<1> USE SizesAssumption DEF CountersOK, Segments, Averages, Lines, LineSem,
        InSegment, InProbe, InAverage, InLine
<1>1. CASE pk.pc = "takeProbe"
  <2>1. pk' = [pk EXCEPT !.pc = "takeLine", !.i = 1]
    BY <1>1 DEF Continue, AtLine
  <2>2. ParcookType' /\ pk'.pc = "takeLine" /\ pk'.i = 1
    <3> DEFINE c == "takeLine" i == 1
    <3>1. c \in ParcookPcs /\ i \in Nat \ {0} /\ pk' = [pk EXCEPT !.pc = c, !.i = i]
      BY <2>1 DEF ParcookPcs
    <3> HIDE DEF c, i
    <3>2. ParcookType' /\ pk'.pc = c /\ pk'.i = i
      BY Zenon, <3>1, MoveCounter
    <3> QED BY <3>2 DEF c, i
  <2> QED BY <1>1, <2>2 DEF TookPair, Addressed
<1>2. CASE pk.pc = "takeLine"
  <2> DEFINE c == "copyMsw"
  <2>1. pk' = [pk EXCEPT !.pc = c] /\ c \in ParcookPcs
    BY <1>2 DEF Continue, ParcookPcs
  <2> HIDE DEF c
  <2>2. ParcookType' /\ pk'.pc = c /\ pk'.i = pk.i /\ pk'.seg = pk.seg
    BY <2>1, MovePc
  <2>3. pk'.pc = "copyMsw"
    BY <2>2 DEF c
  <2>4. pk.i \in Nat \ {0} /\ pk.seg \in Averages
    BY DEF ParcookType
  <2> QED BY <1>2, <2>2, <2>3, <2>4 DEF TookPair, Addressed
<1>3. CASE pk.pc = "takeRef"
  <2> DEFINE c == "dropRef"
  <2>1. pk' = [pk EXCEPT !.pc = c] /\ c \in ParcookPcs
    BY <1>3 DEF Continue, ParcookPcs
  <2> HIDE DEF c
  <2>2. ParcookType' /\ pk'.pc = c /\ pk'.i = pk.i /\ pk'.seg = pk.seg
    BY <2>1, MovePc
  <2>3. pk'.pc = "dropRef"
    BY <2>2 DEF c
  <2>4. pk.i \in Nat \ {0} /\ pk.seg \in Averages
    BY DEF ParcookType
  <2> QED BY <1>3, <2>2, <2>3, <2>4, RefInRange, SMTT(30) DEF TookPair, Addressed
<1>4. CASE pk.pc = "takeAvg"
  <2> DEFINE c == "avgMsw"
  <2>1. pk' = [pk EXCEPT !.pc = c] /\ c \in ParcookPcs
    BY <1>4 DEF Continue, ParcookPcs
  <2> HIDE DEF c
  <2>2. ParcookType' /\ pk'.pc = c /\ pk'.i = pk.i /\ pk'.seg = pk.seg
    BY <2>1, MovePc
  <2>3. pk'.pc = "avgMsw"
    BY <2>2 DEF c
  <2>4. pk.i \in Nat \ {0} /\ pk.seg \in Averages
    BY DEF ParcookType
  <2> QED BY <1>4, <2>2, <2>3, <2>4 DEF TookPair, Addressed
<1> QED BY <1>1, <1>2, <1>3, <1>4 DEF Takes

(* Every unlock of MainLoop takes parcook out of exactly that segment.     *)
LEMMA DropMoves ==
  ASSUME ParcookType, CountersOK, pk.pc \in Drops, pk' \in Continue
  PROVE  DroppedPair
<1> USE SizesAssumption DEF CountersOK, Segments, Averages, Lines, LineSem,
        InSegment, InProbe, InAverage, InLine
<1>0. Len(Refs) \in Nat /\ pk.i \in Nat \ {0} /\ pk.seg \in Averages
  BY RefsAssumption DEF ParcookType
<1>1. CASE pk.pc = "dropProbe"
  <2>1. pk' = [pk EXCEPT !.pc = "takeAvg", !.seg = SEM_MINUTE]
    BY <1>1 DEF Continue, AtAverage
  <2>2. ParcookType' /\ pk'.pc = "takeAvg" /\ pk'.seg = SEM_MINUTE
    BY <2>1, MoveSegment DEF ParcookPcs
  <2> QED BY <1>1, <2>2 DEF DroppedPair, Addressed
<1>2. CASE pk.pc = "dropLine"
  <2> DEFINE i == IF pk.i + 1 <= NLines THEN pk.i + 1 ELSE 1
             c == IF pk.i + 1 <= NLines THEN "takeLine"
                  ELSE IF 1 <= Len(Refs) THEN "takeRef" ELSE "dropProbe"
  <2>1. pk' = [pk EXCEPT !.pc = c, !.i = i]
    BY Zenon, <1>2 DEF Continue, AtLine, AtRef
  <2>2. c \in ParcookPcs /\ i \in Nat \ {0}
    BY <1>0 DEF ParcookPcs
  <2> HIDE DEF c, i
  <2>3. ParcookType' /\ pk'.pc = c /\ pk'.i = i
    BY Zenon, <2>1, <2>2, MoveCounter
  <2>4. CASE pk.i + 1 <= NLines
    <3>1. pk'.pc = "takeLine" /\ pk'.i = pk.i + 1 /\ pk'.i \in Lines
      BY <1>0, <2>3, <2>4 DEF c, i
    <3>2. ParcookType' /\ CountersOK' /\ pk'.pc \notin {"copyLsw", "avgLsw"}
      BY <2>3, <3>1
    <3>3. /\ Addressed = LineSem(pk.i) /\ Addressed \notin Segments
          /\ \A l \in Lines : InLine(l) <=> l = pk.i
          /\ \A l \in Lines : ~InLine(l)'
      BY <1>0, <1>2, <3>1, SMTT(30) DEF Addressed
    <3>4. \A s \in Segments : InSegment(s)' <=> InSegment(s)
      BY <1>2, <3>1
    <3> QED BY <1>0, <3>2, <3>3, <3>4, SMTT(30) DEF DroppedPair
  <2>5. CASE ~(pk.i + 1 <= NLines) /\ 1 <= Len(Refs)
    BY <1>0, <1>2, <2>3, <2>5, RefInRange, SMTT(30) DEF c, i, DroppedPair, Addressed
  <2>6. CASE ~(pk.i + 1 <= NLines) /\ ~(1 <= Len(Refs))
    BY SMTT(30), <1>0, <1>2, <2>3, <2>6 DEF c, i, DroppedPair, Addressed
  <2> QED BY <1>0, <2>4, <2>5, <2>6
<1>3. CASE pk.pc = "dropRef"
  <2> DEFINE i == pk.i + 1
             c == IF pk.i + 1 <= Len(Refs) THEN "takeRef" ELSE "dropProbe"
  <2>1. pk' = [pk EXCEPT !.pc = c, !.i = i]
    BY <1>3 DEF Continue, AtRef
  <2>2. c \in ParcookPcs /\ i \in Nat \ {0}
    BY SMTT(30), <1>0 DEF ParcookPcs
  <2> HIDE DEF c, i
  <2>3. ParcookType' /\ pk'.pc = c /\ pk'.i = i
    BY Zenon, <2>1, <2>2, MoveCounter
  <2>4. CountersOK'
    BY <1>0, <1>3, <2>3 DEF c, i
  <2>5. Addressed \in Averages /\ Addressed = Refs[pk.i]
    BY <1>3, RefInRange DEF Addressed
  <2> QED BY SMTT(30), <1>0, <1>3, <2>3, <2>4, <2>5 DEF c, DroppedPair
<1>4. CASE pk.pc = "dropAvg"
  <2>1. ParcookType' /\ pk'.pc \in {"takeAvg", "sleep"}
    <3>1. CASE pk' = AtSleep
      <4> DEFINE c == "sleep" i == 1 s == SEM_MINUTE
      <4>1. c \in ParcookPcs /\ i \in Nat \ {0} /\ s \in Averages
        BY DEF ParcookPcs
      <4>2. pk' = [pk EXCEPT !.pc = c, !.i = i, !.seg = s]
        BY <3>1 DEF AtSleep
      <4> HIDE DEF c, i, s
      <4>3. ParcookType' /\ pk'.pc = c
        BY Zenon, <4>1, <4>2, MoveAll
      <4> QED BY <4>3 DEF c
    <3>2. ASSUME NEW s \in Averages, pk' = AtAverage(s)
          PROVE  ParcookType' /\ pk'.pc \in {"takeAvg", "sleep"}
      BY Zenon, <3>2, MoveSegment DEF AtAverage, ParcookPcs
    <3> QED BY <1>4, <3>1, <3>2 DEF Continue, AfterAverage
  <2> QED BY SMTT(30), <1>0, <1>4, <2>1 DEF DroppedPair, Addressed
<1> QED BY <1>1, <1>2, <1>3, <1>4 DEF Drops

-----------------------------------------------------------------------------
(* parcook's place and the readers' places are functions of pk and rdr. *)
LEMMA SamePlaces ==
  /\ UNCHANGED pk =>
       /\ \A s \in Segments : InSegment(s)' <=> InSegment(s)
       /\ \A l \in Lines : InLine(l)' <=> InLine(l)
       /\ CountersOK' <=> CountersOK
  /\ UNCHANGED rdr =>
       /\ \A s \in Segments : ReadersOf(s)' = ReadersOf(s)
       /\ \A r \in Readers : ReaderInside(r)' <=> ReaderInside(r)
       /\ CopiedOK' <=> CopiedOK
  /\ UNCHANGED dm => \A l \in Lines : DaemonInside(l)' <=> DaemonInside(l)
BY DEF InSegment, InProbe, InAverage, InLine, CountersOK, ReadersOf, ReaderInside,
       CopiedOK, DaemonInside

(* The conjunct of TypeOK about the line daemons.                          *)
DaemonType == dm \in [Lines -> [pc : DaemonPcs, sample : Tokens]]
(* The conjunct of TypeOK about the semaphores.                            *)
SemType == sem \in [0 .. SEM_LINE + 2 * NLines - 1 -> Nat]

(* A semop() that changes semaphore w changes no other semaphore.          *)
LEMMA SemUpdate ==
  ASSUME SemType, NEW w \in 0 .. SEM_LINE + 2 * NLines - 1, NEW v \in Nat,
         sem' = [sem EXCEPT ![w] = v]
  PROVE  /\ SemType' /\ sem'[w] = v
         /\ \A n \in 0 .. SEM_LINE + 2 * NLines - 1 : n # w => sem'[n] = sem[n]
BY DEF SemType

(* Changing the program counter of a daemon keeps its sample.              *)
LEMMA DaemonMove ==
  ASSUME DaemonType, NEW l \in Lines, NEW c \in DaemonPcs, dm' = [dm EXCEPT ![l].pc = c]
  PROVE  DaemonType' /\ dm'[l].pc = c /\ dm'[l].sample = dm[l].sample
BY DEF DaemonType

(* What a step of the daemon of line l (GoParcook, or its death) leaves    *)
(* alone.                                                                  *)
LEMMA DaemonFrame ==
  ASSUME DaemonType, NEW l \in Lines, DaemonStep(l) \/ DaemonDie(l)
  PROVE  /\ DaemonType'
         /\ \A k \in Lines \ {l} : dm'[k] = dm[k]
         /\ UNCHANGED <<Probe, Avg, pk, rdr, missed, eintr, exits>>
         /\ torn \subseteq torn'
<1> USE DEF DaemonStep, DaemonSample, DaemonTake, DaemonCopyMsw, DaemonCopyLsw, DaemonDrop,
        DaemonDie, DaemonAt
<1>1. UNCHANGED <<Probe, Avg, pk, rdr, missed, eintr, exits>> /\ torn \subseteq torn'
  BY DEF memory, history
<1>2. \/ \E t \in Tokens : dm' = [dm EXCEPT ![l] = [pc |-> "take", sample |-> t]]
      \/ \E c \in DaemonPcs : dm' = [dm EXCEPT ![l].pc = c]
  BY DEF DaemonPcs
<1>3. DaemonType'
  <2>1. CASE \E t \in Tokens : dm' = [dm EXCEPT ![l] = [pc |-> "take", sample |-> t]]
    BY <2>1 DEF DaemonType, DaemonPcs
  <2> QED BY <1>2, <2>1, DaemonMove
<1>4. \A k \in Lines \ {l} : dm'[k] = dm[k]
  BY <1>2 DEF DaemonType
<1> QED BY <1>1, <1>3, <1>4

(* Every step of a line daemon, its death with SEM_UNDO included, keeps    *)
(* LockInv.                                                                *)
LEMMA DaemonKeepsLockInv ==
  ASSUME LockInv, NEW l \in Lines, DaemonStep(l) \/ DaemonDie(l)
  PROVE  LockInv'
<1> USE DEF LockInv
<1>0. DaemonType /\ SemType
  BY DEF TypeOK, DaemonType, SemType
<1>1. /\ l \in Nat /\ LineSem(l) \in 12 .. 12 + 2 * NLines - 1
      /\ LineSem(l) + 1 \in 12 .. 12 + 2 * NLines - 1
  BY SizesAssumption DEF Lines, LineSem
<1>2. /\ DaemonType'
      /\ \A k \in Lines \ {l} : dm'[k] = dm[k]
      /\ UNCHANGED <<Probe, Avg, pk, rdr, missed, eintr, exits>>
  BY <1>0, DaemonFrame
<1>3. \A k \in Lines \ {l} : DaemonInside(k)' <=> DaemonInside(k)
  BY <1>2 DEF DaemonInside
<1>4. \/ /\ sem' = sem
         /\ DaemonInside(l)' <=> DaemonInside(l)
      \/ /\ ~DaemonInside(l) /\ DaemonInside(l)'
         /\ sem[LineSem(l)] = 0
         /\ sem' = [sem EXCEPT ![LineSem(l) + 1] = @ + 1]
      \/ /\ DaemonInside(l) /\ ~DaemonInside(l)'
         /\ sem' = [sem EXCEPT ![LineSem(l) + 1] = @ - 1]
  BY <1>0 DEF DaemonType, DaemonStep, DaemonSample, DaemonTake, DaemonCopyMsw, DaemonCopyLsw,
         DaemonDrop, DaemonDie, DaemonAt, DaemonInside, WriteLock, WriteUnlock
<1>5. /\ sem'[LineSem(l) + 1] = IF DaemonInside(l)' THEN 1 ELSE 0
      /\ SemType'
      /\ \A n \in 0 .. SEM_LINE + 2 * NLines - 1 : n # LineSem(l) + 1 => sem'[n] = sem[n]
  <2> DEFINE w == LineSem(l) + 1
  <2>1. w \in 0 .. SEM_LINE + 2 * NLines - 1 /\ sem[w] = IF DaemonInside(l) THEN 1 ELSE 0
    BY <1>1, SizesAssumption DEF SemaphoresCount
  <2>2. \/ sem' = sem /\ (DaemonInside(l)' <=> DaemonInside(l))
        \/ ~DaemonInside(l) /\ DaemonInside(l)' /\ sem' = [sem EXCEPT ![w] = @ + 1]
        \/ DaemonInside(l) /\ ~DaemonInside(l)' /\ sem' = [sem EXCEPT ![w] = @ - 1]
    BY <1>4
  <2> HIDE DEF w
  <2>3. /\ sem'[w] = IF DaemonInside(l)' THEN 1 ELSE 0
        /\ SemType'
        /\ \A n \in 0 .. SEM_LINE + 2 * NLines - 1 : n # w => sem'[n] = sem[n]
    <3>1. CASE sem' = sem /\ (DaemonInside(l)' <=> DaemonInside(l))
      BY <1>0, <2>1, <3>1 DEF SemType
    <3>2. CASE ~DaemonInside(l) /\ DaemonInside(l)' /\ sem' = [sem EXCEPT ![w] = @ + 1]
      <4>1. sem' = [sem EXCEPT ![w] = 1]
        BY <2>1, <3>2
      <4> QED BY Zenon, <1>0, <2>1, <3>2, <4>1, SemUpdate
    <3>3. CASE DaemonInside(l) /\ ~DaemonInside(l)' /\ sem' = [sem EXCEPT ![w] = @ - 1]
      <4>1. sem' = [sem EXCEPT ![w] = 0]
        BY <2>1, <3>3
      <4> QED BY Zenon, <1>0, <2>1, <3>3, <4>1, SemUpdate
    <3> QED BY <2>2, <3>1, <3>2, <3>3
  <2> QED BY <2>3 DEF w
<1>6. SemaphoresCount'
  <2>1. \A s \in Segments : sem'[s] = sem[s] /\ sem'[s + 1] = sem[s + 1]
    BY <1>1, <1>5, SizesAssumption DEF Segments, Averages
  <2>2. \A k \in Lines : sem'[LineSem(k)] = sem[LineSem(k)]
    BY <1>5, SizesAssumption DEF Lines, LineSem
  <2>3. \A k \in Lines \ {l} : sem'[LineSem(k) + 1] = sem[LineSem(k) + 1]
    BY <1>5, SizesAssumption DEF Lines, LineSem
  <2>4. \A n \in SEM_HOUR + 2 .. SEM_LINE - 1 : sem'[n] = 0
    BY <1>1, <1>5, SizesAssumption DEF SemaphoresCount
  <2> QED BY <1>2, <1>3, <1>5, <2>1, <2>2, <2>3, <2>4, SamePlaces DEF SemaphoresCount
<1>7. Exclusion'
  <2>1. DaemonInside(l)' /\ InLine(l)' => LineSem(l) \in missed'
    BY <1>2, <1>4, SamePlaces DEF Exclusion, SemaphoresCount
  <2>2. \A r \in Readers : ReaderInside(r)' /\ InSegment(rdr[r].seg)' => rdr'[r].seg \in missed'
    BY <1>2, SamePlaces DEF Exclusion, TypeOK
  <2> QED BY <1>2, <1>3, <2>1, <2>2, SamePlaces DEF Exclusion
<1>8. MissedOK'
  BY <1>2, SamePlaces DEF MissedOK
<1>9. ValTab' \in [Lines -> WordPairs]
  <2>1. \/ ValTab' = ValTab
        \/ ValTab' = [ValTab EXCEPT ![l].msw = dm[l].sample]
        \/ ValTab' = [ValTab EXCEPT ![l].lsw = dm[l].sample]
    BY DEF DaemonStep, DaemonSample, DaemonTake, DaemonCopyMsw, DaemonCopyLsw, DaemonDrop,
           DaemonDie, memory
  <2>2. ValTab \in [Lines -> WordPairs] /\ dm[l].sample \in Tokens
    BY <1>0 DEF TypeOK, DaemonType
  <2> QED BY <2>1, <2>2 DEF WordPairs
<1>10. sigchld' \in BOOLEAN /\ torn' \subseteq Lines /\ deaths' \in 0 .. MaxDeaths
  <2>1. CASE DaemonDie(l)
    BY <2>1, SizesAssumption DEF TypeOK, DaemonDie
  <2>2. CASE DaemonStep(l)
    <3>1. UNCHANGED <<sigchld, torn, deaths>>
      BY <2>2 DEF DaemonStep, DaemonSample, DaemonTake, DaemonCopyMsw, DaemonCopyLsw,
         DaemonDrop, history
    <3> QED BY <3>1 DEF TypeOK
  <2> QED BY <2>1, <2>2
<1>11. TypeOK'
  BY <1>2, <1>5, <1>9, <1>10 DEF TypeOK, SemType, DaemonType
<1> QED BY <1>2, <1>6, <1>7, <1>8, <1>11, SamePlaces

-----------------------------------------------------------------------------
(* A reader semaphore that is zero means that no reader is inside.         *)
LEMMA NoReaders ==
  ASSUME NEW s \in Segments, Cardinality(ReadersOf(s)) = 0
  PROVE  \A r \in Readers : ReaderInside(r) => rdr[r].seg # s
<1>1. IsFiniteSet(ReadersOf(s))
  BY FS_Subset, ReadersAssumption DEF ReadersOf
<1>2. ReadersOf(s) = {}
  BY <1>1, FS_EmptySet
<1> QED BY <1>2 DEF ReadersOf

(* The semaphore numbers of ipcdefines.h are distinct and within the set   *)
(* that CreateSemMsg creates.                                              *)
LEMMA SegmentsApart ==
  /\ \A s \in Segments :
       /\ s \in Nat /\ s + 1 \in Nat /\ s \in 0 .. SEM_LINE + 2 * NLines - 1
       /\ s + 1 \in 0 .. SEM_LINE + 2 * NLines - 1
       /\ \A t \in Segments : s # t + 1
       /\ \A l \in Lines : s # LineSem(l) /\ s + 1 # LineSem(l)
                           /\ s # LineSem(l) + 1 /\ s + 1 # LineSem(l) + 1
       /\ \A n \in SEM_HOUR + 2 .. SEM_LINE - 1 : s # n /\ s + 1 # n
  /\ \A l \in Lines :
       /\ LineSem(l) \in 0 .. SEM_LINE + 2 * NLines - 1
       /\ LineSem(l) + 1 \in 0 .. SEM_LINE + 2 * NLines - 1
       /\ \A k \in Lines : /\ LineSem(l) = LineSem(k) => l = k
                           /\ LineSem(l) # LineSem(k) + 1
       /\ \A n \in SEM_HOUR + 2 .. SEM_LINE - 1 : LineSem(l) # n /\ LineSem(l) + 1 # n
BY SizesAssumption DEF Segments, Averages, Lines, LineSem

(* The parts of LockInv that a semop() of MainLoop leaves alone.           *)
LEMMA ParcookFrame ==
  ASSUME LockInv, UNCHANGED <<memory, dm, rdr, deaths, exits, torn>>,
         sigchld' \in BOOLEAN, eintr' \in BOOLEAN, missed' \subseteq Pairs,
         ParcookType', CountersOK', SemType', SemaphoresCount', Exclusion', MissedOK'
  PROVE  LockInv'
<1>1. TypeOK'
  BY DEF LockInv, TypeOK, ParcookType, SemType, memory
<1> QED BY <1>1, SamePlaces DEF LockInv

(* If only the writer semaphore of segment a changes, to the new number of *)
(* writers, the semaphores still count.                                    *)
LEMMA OneSegmentChanged ==
  ASSUME SemaphoresCount, NEW a \in Segments, UNCHANGED <<rdr, dm, missed>>,
         \A n \in 0 .. SEM_LINE + 2 * NLines - 1 : n # a + 1 => sem'[n] = sem[n],
         sem'[a + 1] = IF InSegment(a)' /\ a \notin missed THEN 1 ELSE 0,
         \A s \in Segments \ {a} : InSegment(s)' <=> InSegment(s),
         \A l \in Lines : InLine(l)' <=> InLine(l)
  PROVE  SemaphoresCount'
<1>1. ASSUME NEW s \in Segments
      PROVE  /\ sem'[s] = Cardinality(ReadersOf(s)')
             /\ sem'[s + 1] = IF InSegment(s)' /\ s \notin missed' THEN 1 ELSE 0
  <2>1. sem'[s] = sem[s] /\ ReadersOf(s)' = ReadersOf(s)
    BY SegmentsApart, SamePlaces
  <2>2. CASE s = a
    BY <2>1, <2>2 DEF SemaphoresCount
  <2>3. CASE s # a
    <3>1. sem'[s + 1] = sem[s + 1]
      BY <2>3, SegmentsApart
    <3> QED BY <2>1, <2>3, <3>1 DEF SemaphoresCount
  <2> QED BY <2>2, <2>3
<1>2. \A l \in Lines : /\ sem'[LineSem(l)] = sem[LineSem(l)]
                       /\ sem'[LineSem(l) + 1] = sem[LineSem(l) + 1]
                       /\ DaemonInside(l)' <=> DaemonInside(l)
  BY SegmentsApart, SamePlaces
<1>3. \A n \in SEM_HOUR + 2 .. SEM_LINE - 1 : sem'[n] = sem[n]
  BY SegmentsApart, SizesAssumption
<1> QED BY <1>1, <1>2, <1>3 DEF SemaphoresCount

(* The same for the reader semaphore of a line.                            *)
LEMMA OneLineChanged ==
  ASSUME SemaphoresCount, NEW k \in Lines, UNCHANGED <<rdr, dm, missed>>,
         \A n \in 0 .. SEM_LINE + 2 * NLines - 1 : n # LineSem(k) => sem'[n] = sem[n],
         sem'[LineSem(k)] = IF InLine(k)' /\ LineSem(k) \notin missed THEN 1 ELSE 0,
         \A s \in Segments : InSegment(s)' <=> InSegment(s),
         \A l \in Lines \ {k} : InLine(l)' <=> InLine(l)
  PROVE  SemaphoresCount'
<1>1. \A s \in Segments : /\ sem'[s] = sem[s] /\ sem'[s + 1] = sem[s + 1]
                          /\ ReadersOf(s)' = ReadersOf(s)
  BY SegmentsApart, SamePlaces
<1>2. ASSUME NEW l \in Lines
      PROVE  /\ sem'[LineSem(l)] = IF InLine(l)' /\ LineSem(l) \notin missed' THEN 1 ELSE 0
             /\ sem'[LineSem(l) + 1] = IF DaemonInside(l)' THEN 1 ELSE 0
  <2>1. sem'[LineSem(l) + 1] = sem[LineSem(l) + 1] /\ (DaemonInside(l)' <=> DaemonInside(l))
    BY SegmentsApart, SamePlaces
  <2>2. CASE l = k
    BY <2>1, <2>2 DEF SemaphoresCount
  <2>3. CASE l # k
    <3>1. sem'[LineSem(l)] = sem[LineSem(l)]
      BY <2>3, SegmentsApart
    <3> QED BY <2>1, <2>3, <3>1 DEF SemaphoresCount
  <2> QED BY <2>2, <2>3
<1>3. \A n \in SEM_HOUR + 2 .. SEM_LINE - 1 : sem'[n] = sem[n]
  BY SegmentsApart, SizesAssumption
<1> QED BY <1>1, <1>2, <1>3 DEF SemaphoresCount

(* Taking the write lock of Probe or of an average keeps LockInv.          *)
LEMMA TakeWriteKeepsLockInv ==
  ASSUME LockInv, pk.pc \in {"takeProbe", "takeRef", "takeAvg"},
         WriteLock(Addressed), pk' \in Continue,
         UNCHANGED <<memory, dm, rdr, sigchld, history, deaths, exits>>
  PROVE  LockInv'
<1> DEFINE a == Addressed
<1>1. ParcookType /\ CountersOK /\ SemType /\ MissedOK /\ SemaphoresCount /\ Exclusion
  BY DEF LockInv, TypeOK, ParcookType, SemType
<1>2. a \in Segments
  BY <1>1, AddressedPair DEF Takes
<1>3. TookPair
  BY <1>1, TakeMoves DEF Takes
<1>4. sem[a] = 0 /\ sem' = [sem EXCEPT ![a + 1] = @ + 1]
  BY DEF WriteLock
<1>5. a \notin missed
  BY <1>1, <1>2, <1>3 DEF MissedOK, TookPair
<1>6. UNCHANGED missed /\ UNCHANGED eintr
  BY DEF history
<1>7. sem[a + 1] = 0
  BY <1>1, <1>2, <1>3 DEF SemaphoresCount, TookPair
<1> HIDE DEF a
<1>8. /\ SemType' /\ sem'[a + 1] = 1
      /\ \A n \in 0 .. SEM_LINE + 2 * NLines - 1 : n # a + 1 => sem'[n] = sem[n]
  <2>1. sem' = [sem EXCEPT ![a + 1] = 1]
    BY <1>4, <1>7
  <2>2. a + 1 \in 0 .. SEM_LINE + 2 * NLines - 1
    BY <1>2, SegmentsApart
  <2> QED BY Zenon, <1>1, <2>1, <2>2, SemUpdate
<1>9. \A s \in Segments : InSegment(s)' <=> InSegment(s) \/ s = a
  BY <1>3 DEF TookPair, a
<1>10. \A l \in Lines : (InLine(l)' <=> InLine(l)) /\ (DaemonInside(l)' <=> DaemonInside(l))
  BY <1>2, <1>3, SegmentsApart DEF TookPair, a, DaemonInside
<1>11. /\ \A s \in Segments : ReadersOf(s)' = ReadersOf(s)
       /\ \A r \in Readers : ReaderInside(r)' <=> ReaderInside(r)
  BY SamePlaces
<1>12. SemaphoresCount'
  BY <1>1, <1>2, <1>5, <1>6, <1>8, <1>9, <1>10, OneSegmentChanged
<1>13. Exclusion'
  <2>1. \A r \in Readers : ReaderInside(r) => rdr[r].seg # a
    BY <1>1, <1>2, <1>4, NoReaders DEF SemaphoresCount
  <2>2. \A r \in Readers : rdr[r].seg \in Segments
    BY DEF LockInv, TypeOK
  <2> QED BY <1>1, <1>6, <1>9, <1>10, <1>11, <2>1, <2>2 DEF Exclusion
<1>14. MissedOK'
  BY Zenon, <1>1, <1>5, <1>6, <1>9, <1>10 DEF MissedOK
<1> QED BY <1>3, <1>8, <1>12, <1>13, <1>14, ParcookFrame DEF LockInv, TypeOK, TookPair, history

(* Giving back the write lock of Probe or of an average keeps LockInv.     *)
LEMMA DropWriteKeepsLockInv ==
  ASSUME LockInv, pk.pc \in {"dropProbe", "dropRef", "dropAvg"},
         WriteUnlock(Addressed), pk' \in Continue,
         UNCHANGED <<memory, dm, rdr, sigchld, history, deaths, exits>>
  PROVE  LockInv'
<1> DEFINE a == Addressed
<1>1. ParcookType /\ CountersOK /\ SemType /\ MissedOK /\ SemaphoresCount /\ Exclusion
  BY DEF LockInv, TypeOK, ParcookType, SemType
<1>2. a \in Segments
  BY <1>1, AddressedPair DEF Drops
<1>3. DroppedPair
  BY <1>1, DropMoves DEF Drops
<1>4. sem[a + 1] > 0 /\ sem' = [sem EXCEPT ![a + 1] = @ - 1]
  BY DEF WriteUnlock
<1>5. UNCHANGED missed /\ UNCHANGED eintr
  BY DEF history
<1> HIDE DEF a
<1>6. sem[a + 1] = 1 /\ a \notin missed
  BY <1>1, <1>2, <1>4 DEF SemaphoresCount
<1>7. /\ SemType' /\ sem'[a + 1] = 0
      /\ \A n \in 0 .. SEM_LINE + 2 * NLines - 1 : n # a + 1 => sem'[n] = sem[n]
  <2>1. sem' = [sem EXCEPT ![a + 1] = 0]
    BY <1>4, <1>6
  <2>2. a + 1 \in 0 .. SEM_LINE + 2 * NLines - 1
    BY <1>2, SegmentsApart
  <2> QED BY Zenon, <1>1, <2>1, <2>2, SemUpdate
<1>8. \A s \in Segments : InSegment(s)' <=> InSegment(s) /\ s # a
  BY <1>3 DEF DroppedPair, a
<1>9. \A l \in Lines : (InLine(l)' <=> InLine(l)) /\ (DaemonInside(l)' <=> DaemonInside(l))
  BY <1>2, <1>3, SegmentsApart DEF DroppedPair, a, DaemonInside
<1>10. SemaphoresCount'
  BY <1>1, <1>2, <1>5, <1>7, <1>8, <1>9, OneSegmentChanged
<1>11. Exclusion'
  <2>1. \A r \in Readers : rdr[r].seg \in Segments /\ (ReaderInside(r)' <=> ReaderInside(r))
    BY SamePlaces DEF LockInv, TypeOK
  <2> QED BY <1>1, <1>5, <1>8, <1>9, <2>1 DEF Exclusion
<1>12. MissedOK'
  BY Zenon, <1>1, <1>5, <1>6, <1>8, <1>9 DEF MissedOK
<1> QED BY <1>3, <1>7, <1>10, <1>11, <1>12, ParcookFrame DEF LockInv, TypeOK, DroppedPair, history

(* Taking the read lock of a line keeps LockInv.                           *)
LEMMA TakeLineKeepsLockInv ==
  ASSUME LockInv, TakeLine
  PROVE  LockInv'
<1> DEFINE k == pk.i
<1>0. /\ pk.pc = "takeLine" /\ pk' \in Continue /\ ReadLock(LineSem(k))
      /\ UNCHANGED <<memory, dm, rdr, sigchld, history, deaths, exits>>
  BY DEF TakeLine, ParcookSemop
<1>1. ParcookType /\ CountersOK /\ SemType /\ MissedOK /\ SemaphoresCount /\ Exclusion
  BY DEF LockInv, TypeOK, ParcookType, SemType
<1>2. k \in Lines /\ Addressed = LineSem(k)
  BY <1>0, <1>1, AddressedPair DEF Takes
<1>3. TookPair
  BY <1>0, <1>1, TakeMoves DEF Takes
<1>4. sem[LineSem(k) + 1] = 0 /\ sem' = [sem EXCEPT ![LineSem(k)] = @ + 1]
  BY <1>0 DEF ReadLock
<1>5. UNCHANGED missed /\ UNCHANGED eintr
  BY <1>0 DEF history
<1> HIDE DEF k
<1>6. sem[LineSem(k)] = 0 /\ LineSem(k) \notin missed
  BY <1>1, <1>2, <1>3 DEF SemaphoresCount, MissedOK, TookPair
<1>7. /\ SemType' /\ sem'[LineSem(k)] = 1
      /\ \A n \in 0 .. SEM_LINE + 2 * NLines - 1 : n # LineSem(k) => sem'[n] = sem[n]
  <2>1. sem' = [sem EXCEPT ![LineSem(k)] = 1]
    BY <1>4, <1>6
  <2>2. LineSem(k) \in 0 .. SEM_LINE + 2 * NLines - 1
    BY <1>2, SegmentsApart
  <2> QED BY Zenon, <1>1, <2>1, <2>2, SemUpdate
<1>8. \A s \in Segments : InSegment(s)' <=> InSegment(s)
  BY <1>2, <1>3, SegmentsApart DEF TookPair
<1>9. \A l \in Lines : InLine(l)' <=> InLine(l) \/ l = k
  BY <1>2, <1>3, SegmentsApart DEF TookPair
<1>10. SemaphoresCount'
  BY <1>0, <1>1, <1>2, <1>5, <1>6, <1>7, <1>8, <1>9, OneLineChanged
<1>11. Exclusion'
  <2>1. \A r \in Readers : rdr[r].seg \in Segments /\ (ReaderInside(r)' <=> ReaderInside(r))
    BY <1>0, SamePlaces DEF LockInv, TypeOK
  <2>2. \A l \in Lines : DaemonInside(l)' <=> DaemonInside(l)
    BY <1>0, SamePlaces
  <2>3. ~DaemonInside(k)
    BY <1>1, <1>2, <1>4 DEF SemaphoresCount
  <2> QED BY <1>0, <1>1, <1>5, <1>8, <1>9, <2>1, <2>2, <2>3 DEF Exclusion
<1>12. MissedOK'
  BY <1>1, <1>5, <1>6, <1>8, <1>9 DEF MissedOK
<1> QED BY <1>0, <1>3, <1>7, <1>10, <1>11, <1>12, ParcookFrame DEF LockInv, TypeOK, TookPair, history

(* Giving back the read lock of a line keeps LockInv.                      *)
LEMMA DropLineKeepsLockInv ==
  ASSUME LockInv, DropLine
  PROVE  LockInv'
<1> DEFINE k == pk.i
<1>0. /\ pk.pc = "dropLine" /\ pk' \in Continue /\ ReadUnlock(LineSem(k))
      /\ UNCHANGED <<memory, dm, rdr, sigchld, history, deaths, exits>>
  BY DEF DropLine, ParcookSemop
<1>1. ParcookType /\ CountersOK /\ SemType /\ MissedOK /\ SemaphoresCount /\ Exclusion
  BY DEF LockInv, TypeOK, ParcookType, SemType
<1>2. k \in Lines /\ Addressed = LineSem(k)
  BY <1>0, <1>1, AddressedPair DEF Drops
<1>3. DroppedPair
  BY <1>0, <1>1, DropMoves DEF Drops
<1>4. sem[LineSem(k)] > 0 /\ sem' = [sem EXCEPT ![LineSem(k)] = @ - 1]
  BY <1>0 DEF ReadUnlock
<1>5. UNCHANGED missed /\ UNCHANGED eintr
  BY <1>0 DEF history
<1> HIDE DEF k
<1>6. sem[LineSem(k)] = 1 /\ LineSem(k) \notin missed
  BY <1>1, <1>2, <1>4 DEF SemaphoresCount
<1>7. /\ SemType' /\ sem'[LineSem(k)] = 0
      /\ \A n \in 0 .. SEM_LINE + 2 * NLines - 1 : n # LineSem(k) => sem'[n] = sem[n]
  <2>1. sem' = [sem EXCEPT ![LineSem(k)] = 0]
    BY <1>4, <1>6
  <2>2. LineSem(k) \in 0 .. SEM_LINE + 2 * NLines - 1
    BY <1>2, SegmentsApart
  <2> QED BY Zenon, <1>1, <2>1, <2>2, SemUpdate
<1>8. \A s \in Segments : InSegment(s)' <=> InSegment(s)
  BY <1>2, <1>3, SegmentsApart DEF DroppedPair
<1>9. \A l \in Lines : InLine(l)' <=> InLine(l) /\ l # k
  BY <1>2, <1>3, SegmentsApart DEF DroppedPair
<1>10. SemaphoresCount'
  BY <1>0, <1>1, <1>2, <1>5, <1>6, <1>7, <1>8, <1>9, OneLineChanged
<1>11. Exclusion'
  <2>1. \A r \in Readers : rdr[r].seg \in Segments /\ (ReaderInside(r)' <=> ReaderInside(r))
    BY <1>0, SamePlaces DEF LockInv, TypeOK
  <2>2. \A l \in Lines : DaemonInside(l)' <=> DaemonInside(l)
    BY <1>0, SamePlaces
  <2> QED BY <1>0, <1>1, <1>5, <1>8, <1>9, <2>1, <2>2 DEF Exclusion
<1>12. MissedOK'
  BY <1>1, <1>5, <1>6, <1>8, <1>9 DEF MissedOK
<1> QED BY <1>0, <1>3, <1>7, <1>10, <1>11, <1>12, ParcookFrame
     DEF LockInv, TypeOK, DroppedPair, history

(* Waking up and copying words keep LockInv.                               *)
LEMMA CopyKeepsLockInv ==
  ASSUME LockInv, Wake \/ CopyMsw \/ CopyLsw \/ AvgMsw \/ AvgLsw
  PROVE  LockInv'
<1> USE DEF Wake, CopyMsw, CopyLsw, AvgMsw, AvgLsw
<1>1. /\ ParcookType /\ CountersOK /\ SemType /\ MissedOK /\ SemaphoresCount /\ Exclusion
      /\ ValTab \in [Lines -> WordPairs] /\ Probe \in [Lines -> WordPairs]
      /\ Avg \in [Averages -> WordPairs]
  BY Zenon DEF LockInv, TypeOK, ParcookType, SemType
<1>2. UNCHANGED <<sem, dm, rdr, sigchld, missed, eintr, torn, deaths, exits>>
  BY Zenon DEF history
<1>3. ParcookType' /\ CountersOK'
  BY Zenon, <1>1 DEF ParcookType, ParcookPcs, CountersOK
<1>4. /\ \A s \in Segments : InSegment(s)' <=> InSegment(s)
      /\ \A l \in Lines : InLine(l)' <=> InLine(l)
  BY Zenon, <1>1 DEF ParcookType, InSegment, InProbe, InAverage, InLine
<1>5. /\ \A s \in Segments : ReadersOf(s)' = ReadersOf(s)
      /\ \A r \in Readers : ReaderInside(r)' <=> ReaderInside(r)
      /\ \A l \in Lines : DaemonInside(l)' <=> DaemonInside(l)
      /\ \A r \in Readers : rdr[r].seg \in Segments
  BY Zenon, <1>2, SamePlaces DEF LockInv, TypeOK
<1>6. SemaphoresCount' /\ MissedOK' /\ Exclusion'
  BY Zenon, <1>1, <1>2, <1>4, <1>5 DEF SemaphoresCount, MissedOK, Exclusion
<1>7. ValTab' \in [Lines -> WordPairs]
  BY Zenon, <1>1 DEF memory
<1>8. Probe' \in [Lines -> WordPairs]
  <2>1. CASE CopyMsw \/ CopyLsw
    <3>1. pk.i \in Lines
      BY Zenon, <1>1, <2>1 DEF CountersOK
    <3>2. ValTab[pk.i].msw \in Tokens /\ ValTab[pk.i].lsw \in Tokens
      BY Zenon, <1>1, <3>1 DEF WordPairs
    <3>3. \E t \in Tokens : \/ Probe' = [Probe EXCEPT ![pk.i].msw = t]
                            \/ Probe' = [Probe EXCEPT ![pk.i].lsw = t]
      BY Zenon, <2>1, <3>2
    <3> HIDE DEF Wake, CopyMsw, CopyLsw, AvgMsw, AvgLsw
    <3> QED BY Zenon, <1>1, <3>1, <3>3 DEF WordPairs
  <2> QED BY Zenon, <1>1, <2>1 DEF memory
<1>9. Avg' \in [Averages -> WordPairs]
  <2>1. pk.seg \in Averages /\ pk.cycle \in Tokens
    BY Zenon, <1>1 DEF ParcookType
  <2>2. \/ Avg' = Avg
        \/ Avg' = [Avg EXCEPT ![pk.seg].msw = pk.cycle]
        \/ Avg' = [Avg EXCEPT ![pk.seg].lsw = pk.cycle]
    BY Zenon DEF memory
  <2> HIDE DEF Wake, CopyMsw, CopyLsw, AvgMsw, AvgLsw
  <2> QED BY Zenon, <1>1, <2>1, <2>2 DEF WordPairs
<1> HIDE DEF Wake, CopyMsw, CopyLsw, AvgMsw, AvgLsw
<1>10. TypeOK'
  BY <1>2, <1>3, <1>7, <1>8, <1>9 DEF LockInv, TypeOK, ParcookType
<1> QED BY Zenon, <1>2, <1>3, <1>6, <1>10, SamePlaces DEF LockInv

(* The SIGCHLD handler keeps LockInv, also when it makes MainLoop go past  *)
(* a lock or an unlock.                                                    *)
LEMMA ChildDiedKeepsLockInv ==
  ASSUME LockInv, ChildDied
  PROVE  LockInv'
<1> DEFINE a == Addressed
<1>1. /\ ParcookType /\ CountersOK /\ SemType /\ MissedOK /\ SemaphoresCount /\ Exclusion
      /\ missed \subseteq Pairs /\ eintr \in BOOLEAN
  BY DEF LockInv, TypeOK, ParcookType, SemType
<1>2. /\ UNCHANGED <<memory, dm, rdr, deaths, exits, torn, sem>> /\ sigchld' = FALSE
      /\ SemType'
  BY <1>1 DEF ChildDied, SemType
<1>3. /\ \A s \in Segments : ReadersOf(s)' = ReadersOf(s)
      /\ \A r \in Readers : ReaderInside(r)' <=> ReaderInside(r)
      /\ \A l \in Lines : DaemonInside(l)' <=> DaemonInside(l)
      /\ \A r \in Readers : rdr[r].seg \in Segments
  BY <1>2, SamePlaces DEF LockInv, TypeOK
<1>4. CASE UNCHANGED <<pk, missed, eintr>>
  <2>1. SemaphoresCount' /\ MissedOK' /\ Exclusion' /\ CountersOK' /\ ParcookType'
    BY <1>1, <1>2, <1>3, <1>4, SamePlaces
       DEF SemaphoresCount, MissedOK, Exclusion, ParcookType
  <2> QED BY ZenonT(30), <1>1, <1>2, <1>4, <2>1, ParcookFrame
<1>5. CASE TakeWaits /\ pk' \in Continue /\ missed' = missed \cup {a} /\ eintr' = TRUE
  <2>1. pk.pc \in Takes
    BY <1>5 DEF TakeWaits, Takes
  <2>2. TookPair
    BY <1>1, <1>5, <2>1, TakeMoves
  <2>3. a \in Pairs
    BY SMTT(30), <1>1, <2>1, AddressedPair DEF Pairs
  <2> HIDE DEF a
  <2>4. SemaphoresCount'
    BY SMTT(30), <1>1, <1>2, <1>3, <1>5, <2>2 DEF SemaphoresCount, TookPair, a
  <2>5. MissedOK' /\ Exclusion'
    BY <1>1, <1>2, <1>3, <1>5, <2>2 DEF MissedOK, Exclusion, TookPair, a
  <2> QED BY Zenon, <1>1, <1>2, <1>5, <2>2, <2>3, <2>4, <2>5, ParcookFrame DEF TookPair
<1>6. CASE DropWaits /\ pk' \in Continue /\ missed' = missed \ {a} /\ UNCHANGED eintr
  <2>1. pk.pc \in Drops
    BY <1>6 DEF DropWaits, Drops
  <2>2. DroppedPair
    BY <1>1, <1>6, <2>1, DropMoves
  <2>3. a \in missed
    BY SMTT(30), <1>1, <1>6, <2>1, <2>2, AddressedPair
       DEF SemaphoresCount, DropWaits, DroppedPair
  <2> HIDE DEF a
  <2>4. SemaphoresCount'
    BY <1>1, <1>2, <1>3, <1>6, <2>2, <2>3 DEF SemaphoresCount, DroppedPair, a
  <2>5. MissedOK' /\ Exclusion'
    BY <1>1, <1>2, <1>3, <1>6, <2>2 DEF MissedOK, Exclusion, DroppedPair, a
  <2> QED BY Zenon, <1>1, <1>2, <1>6, <2>2, <2>4, <2>5, ParcookFrame DEF DroppedPair
<1> QED BY Zenon, <1>4, <1>5, <1>6 DEF ChildDied

-----------------------------------------------------------------------------
(* The conjunct of TypeOK about the readers.                               *)
ReaderType ==
  rdr \in [Readers -> [pc : ReaderPcs, seg : Segments, line : Lines, copied : Copies]]

(* Changing the state of reader r changes no other reader.                 *)
LEMMA ReaderMove ==
  ASSUME ReaderType, NEW r \in Readers,
         NEW v \in [pc : ReaderPcs, seg : Segments, line : Lines, copied : Copies],
         rdr' = [rdr EXCEPT ![r] = v]
  PROVE  ReaderType' /\ rdr'[r] = v /\ \A x \in Readers \ {r} : rdr'[x] = rdr[x]
BY DEF ReaderType

(* The readers inside a segment can be counted.                            *)
LEMMA CountOfReaders ==
  \A s \in Segments : IsFiniteSet(ReadersOf(s)) /\ Cardinality(ReadersOf(s)) \in Nat
BY FS_Subset, FS_CardinalityType, ReadersAssumption DEF ReadersOf

(* A reader that goes inside raises the number of readers of its segment   *)
(* by one.                                                                 *)
LEMMA ReaderEnters ==
  ASSUME ReaderType, NEW r \in Readers, ~ReaderInside(r), ReaderInside(r)',
         rdr'[r].seg = rdr[r].seg, \A x \in Readers \ {r} : rdr'[x] = rdr[x]
  PROVE  \A s \in Segments :
           Cardinality(ReadersOf(s)') = Cardinality(ReadersOf(s))
                                        + (IF s = rdr[r].seg THEN 1 ELSE 0)
<1> TAKE s \in Segments
<1>1. IsFiniteSet(ReadersOf(s)) /\ Cardinality(ReadersOf(s)) \in Nat
  BY Zenon, FS_Subset, FS_CardinalityType, ReadersAssumption DEF ReadersOf
<1>2. CASE s = rdr[r].seg
  <2>1. ReadersOf(s)' = ReadersOf(s) \cup {r} /\ r \notin ReadersOf(s)
    BY <1>2 DEF ReadersOf, ReaderInside
  <2> QED BY Zenon, <1>1, <1>2, <2>1, FS_AddElement
<1>3. CASE s # rdr[r].seg
  <2>1. ReadersOf(s)' = ReadersOf(s)
    BY <1>3 DEF ReadersOf, ReaderInside
  <2> QED BY <1>1, <1>3, <2>1
<1> QED BY <1>2, <1>3

(* A reader that leaves lowers that number by one.                         *)
LEMMA ReaderLeaves ==
  ASSUME ReaderType, NEW r \in Readers, ReaderInside(r), ~ReaderInside(r)',
         \A x \in Readers \ {r} : rdr'[x] = rdr[x]
  PROVE  \A s \in Segments :
           /\ Cardinality(ReadersOf(s)') = Cardinality(ReadersOf(s))
                                           - (IF s = rdr[r].seg THEN 1 ELSE 0)
           /\ Cardinality(ReadersOf(s)') \in Nat
<1> TAKE s \in Segments
<1>1. IsFiniteSet(ReadersOf(s)) /\ Cardinality(ReadersOf(s)) \in Nat
  BY FS_Subset, FS_CardinalityType, ReadersAssumption DEF ReadersOf
<1>2. IsFiniteSet(ReadersOf(s)') /\ Cardinality(ReadersOf(s)') \in Nat
  BY Zenon, FS_Subset, FS_CardinalityType, ReadersAssumption DEF ReadersOf
<1>3. CASE s = rdr[r].seg
  <2>1. ReadersOf(s)' = ReadersOf(s) \ {r} /\ r \in ReadersOf(s)
    BY <1>3 DEF ReadersOf, ReaderInside
  <2> QED BY <1>1, <1>2, <1>3, <2>1, FS_RemoveElement
<1>4. CASE s # rdr[r].seg
  <2>1. ReadersOf(s)' = ReadersOf(s)
    BY <1>4 DEF ReadersOf, ReaderInside
  <2> QED BY <1>1, <1>4, <2>1
<1> QED BY <1>3, <1>4

(* The states of one reader.                                               *)
ReaderStates == [pc : ReaderPcs, seg : Segments, line : Lines, copied : Copies]

(* IdleReader is a state of a reader.                                      *)
LEMMA IdleState == IdleReader \in ReaderStates
<1>1. 1 \in Lines /\ SEM_PROBE \in Segments
  BY SizesAssumption DEF Lines, Segments
<1>2. "idle" \in ReaderPcs /\ <<>> \in Copies
  BY DEF ReaderPcs, Copies
<1> HIDE DEF SEM_PROBE
<1> QED BY <1>1, <1>2 DEF IdleReader, ReaderStates

(* What a step of reader r leaves alone.                                   *)
LEMMA ReaderFrame ==
  ASSUME LockInv, NEW r \in Readers, ReaderStep(r) \/ ReaderExit(r)
  PROVE  /\ ReaderType'
         /\ \A x \in Readers \ {r} : rdr'[x] = rdr[x]
         /\ UNCHANGED <<memory, dm, pk, sigchld, missed, eintr, torn, deaths>>
         /\ exits' \in 0 .. MaxExits
         /\ rdr'[r].pc = "lsw" => rdr'[r].copied \in {<<t>> : t \in Tokens}
<1>1. UNCHANGED <<memory, dm, pk, sigchld, missed, eintr, torn, deaths>>
  BY DEF history, ReaderStep, ReaderStart, ReaderTake, ReaderCopyMsw, ReaderCopyLsw, ReaderDrop,
        ReaderExit
<1>2. exits' \in 0 .. MaxExits
  <2>1. exits' = exits \/ (exits < MaxExits /\ exits' = exits + 1)
    BY DEF ReaderStep, ReaderStart, ReaderTake, ReaderCopyMsw, ReaderCopyLsw, ReaderDrop,
          ReaderExit
  <2> QED BY <2>1, SizesAssumption DEF LockInv, TypeOK
<1>3. ReaderType /\ rdr[r] \in ReaderStates /\ CopiedOK
  BY DEF LockInv, TypeOK, ReaderType, ReaderStates
<1>4. SourceOf(r).msw \in Tokens /\ SourceOf(r).lsw \in Tokens
  <2>1. SourceOf(r) \in WordPairs
    BY <1>3 DEF LockInv, TypeOK, SourceOf, Segments, ReaderStates
  <2> QED BY <2>1 DEF WordPairs
<1>5. \E v \in ReaderStates :
        /\ rdr' = [rdr EXCEPT ![r] = v]
        /\ v.pc = "lsw" => v.copied \in {<<t>> : t \in Tokens}
  <2>1. CASE ReaderStart(r)
    BY Zenon, <2>1 DEF ReaderStart, ReaderStates, ReaderPcs, Copies
  <2>2. CASE ReaderTake(r)
    <3>1. [rdr[r] EXCEPT !.pc = "msw"] \in ReaderStates
      BY <1>3 DEF ReaderStates, ReaderPcs
    <3> QED BY Zenon, <1>3, <2>2, <3>1 DEF ReaderTake, ReaderStates
  <2>3. CASE ReaderCopyMsw(r)
    <3> DEFINE v == [rdr[r] EXCEPT !.pc = "lsw", !.copied = <<SourceOf(r).msw>>]
    <3>1. <<SourceOf(r).msw>> \in Copies
      BY <1>4 DEF Copies
    <3>2. v \in ReaderStates /\ v.copied = <<SourceOf(r).msw>>
      BY Zenon, <1>3, <3>1 DEF ReaderStates, ReaderPcs
    <3> QED BY Zenon, <1>3, <1>4, <2>3, <3>2 DEF ReaderCopyMsw
  <2>4. CASE ReaderCopyLsw(r)
    <3> DEFINE c == <<rdr[r].copied[1], SourceOf(r).lsw>>
               v == [rdr[r] EXCEPT !.pc = "drop", !.copied = c]
    <3>1. c \in Copies
      <4>1. rdr[r].copied[1] \in Tokens
        BY <1>3, <2>4 DEF ReaderCopyLsw, CopiedOK
      <4> QED BY <1>4, <4>1 DEF Copies
    <3>2. rdr' = [rdr EXCEPT ![r] = v]
      BY <2>4 DEF ReaderCopyLsw
    <3> HIDE DEF c
    <3>3. v \in ReaderStates /\ v.pc = "drop"
      BY Zenon, <1>3, <3>1 DEF ReaderStates, ReaderPcs
    <3> QED BY Zenon, <3>2, <3>3
  <2>5. CASE ReaderDrop(r) \/ ReaderExit(r)
    <3>1. IdleReader \in ReaderStates
      BY Zenon, IdleState
    <3> QED BY <2>5, <3>1 DEF ReaderDrop, ReaderExit, IdleReader
  <2> QED BY <2>1, <2>2, <2>3, <2>4, <2>5 DEF ReaderStep
<1> QED BY Zenon, <1>1, <1>2, <1>3, <1>5, ReaderMove DEF ReaderStates

(* A step of a reader moves the semaphore of its segment exactly when the  *)
(* reader goes inside or leaves.                                           *)
LEMMA ReaderSem ==
  ASSUME LockInv, NEW r \in Readers, ReaderStep(r) \/ ReaderExit(r)
  PROVE  \/ /\ UNCHANGED sem
            /\ ReaderInside(r)' <=> ReaderInside(r)
            /\ ReaderInside(r) => rdr'[r].seg = rdr[r].seg
         \/ /\ ~ReaderInside(r) /\ ReaderInside(r)' /\ rdr'[r].seg = rdr[r].seg
            /\ sem[rdr[r].seg + 1] = 0
            /\ sem' = [sem EXCEPT ![rdr[r].seg] = @ + 1]
         \/ /\ ReaderInside(r) /\ ~ReaderInside(r)'
            /\ sem' = [sem EXCEPT ![rdr[r].seg] = @ - 1]
<1>0. rdr \in [Readers -> ReaderStates]
  BY Zenon DEF LockInv, TypeOK, ReaderStates
<1> USE DEF ReaderStates, ReaderInside
<1>1. CASE ReaderStart(r)
  BY <1>0, <1>1 DEF ReaderStart
<1>2. CASE ReaderTake(r)
  BY <1>0, <1>2 DEF ReaderTake, ReadLock
<1>3. CASE ReaderCopyMsw(r)
  BY <1>0, <1>3 DEF ReaderCopyMsw
<1>4. CASE ReaderCopyLsw(r)
  BY Zenon, <1>0, <1>4 DEF ReaderCopyLsw
<1>5. CASE ReaderDrop(r)
  BY Zenon, <1>0, <1>5 DEF ReaderDrop, ReadUnlock, IdleReader
<1>6. CASE ReaderExit(r)
  BY <1>0, <1>6 DEF ReaderExit, IdleReader
<1> QED BY Zenon, <1>1, <1>2, <1>3, <1>4, <1>5, <1>6 DEF ReaderStep

(* Every step of a reader, its termination with SEM_UNDO included, keeps   *)
(* LockInv.                                                                *)
LEMMA ReaderKeepsLockInv ==
  ASSUME LockInv, NEW r \in Readers, ReaderStep(r) \/ ReaderExit(r)
  PROVE  LockInv'
<1> DEFINE q == rdr[r].seg
<1>1. /\ ReaderType /\ CopiedOK /\ CountersOK /\ SemType /\ MissedOK /\ SemaphoresCount
      /\ Exclusion /\ q \in Segments
  BY DEF LockInv, TypeOK, ReaderType, SemType
<1>2. /\ ReaderType'
      /\ \A x \in Readers \ {r} : rdr'[x] = rdr[x]
      /\ UNCHANGED <<memory, dm, pk, sigchld, missed, eintr, torn, deaths>>
      /\ exits' \in 0 .. MaxExits
      /\ rdr'[r].pc = "lsw" => rdr'[r].copied \in {<<t>> : t \in Tokens}
  BY Zenon, ReaderFrame
<1>3. /\ \A s \in Segments : InSegment(s)' <=> InSegment(s)
      /\ \A l \in Lines : InLine(l)' <=> InLine(l)
      /\ \A l \in Lines : DaemonInside(l)' <=> DaemonInside(l)
      /\ CountersOK'
  BY Zenon, <1>1, <1>2, SamePlaces
<1>4. CopiedOK' /\ MissedOK'
  BY Zenon, <1>1, <1>2, <1>3 DEF CopiedOK, MissedOK
<1>5. \A x \in Readers \ {r} : ReaderInside(x)' <=> ReaderInside(x)
  BY Zenon, <1>2 DEF ReaderInside
<1>6. SemType' /\ SemaphoresCount'
  <2>1. CASE /\ UNCHANGED sem
             /\ ReaderInside(r)' <=> ReaderInside(r)
             /\ ReaderInside(r) => rdr'[r].seg = rdr[r].seg
    <3>1. \A s \in Segments : ReadersOf(s)' = ReadersOf(s)
      BY Zenon, <1>2, <1>5, <2>1 DEF ReadersOf
    <3> QED BY Zenon, <1>1, <1>2, <1>3, <2>1, <3>1 DEF SemaphoresCount, SemType
  <2>2. ASSUME NEW d \in {-1, 1}, NEW p \in Segments, sem' = [sem EXCEPT ![p] = @ + d],
               \A s \in Segments :
                 /\ Cardinality(ReadersOf(s)') = Cardinality(ReadersOf(s))
                                                 + (IF s = p THEN d ELSE 0)
                 /\ Cardinality(ReadersOf(s)') \in Nat
        PROVE  SemType' /\ SemaphoresCount'
    <3> DEFINE v == Cardinality(ReadersOf(p)')
    <3>1. sem' = [sem EXCEPT ![p] = v] /\ v \in Nat
      BY Zenon, <1>1, <2>2 DEF SemaphoresCount
    <3> HIDE DEF v
    <3>2. p \in 0 .. SEM_LINE + 2 * NLines - 1
      BY <1>1, SegmentsApart
    <3>3. /\ SemType' /\ sem'[p] = v
          /\ \A n \in 0 .. SEM_LINE + 2 * NLines - 1 : n # p => sem'[n] = sem[n]
      BY Zenon, <1>1, <3>1, <3>2, SemUpdate
    <3>4. \A s \in Segments : sem'[s] = Cardinality(ReadersOf(s)')
      <4> TAKE s \in Segments
      <4>1. CASE s = p
        BY <3>3, <4>1 DEF v
      <4>2. CASE s # p
        <5>1. sem'[s] = sem[s] /\ sem[s] \in Nat /\ sem[s] = Cardinality(ReadersOf(s))
          BY <1>1, <3>3, <4>2, SegmentsApart DEF SemaphoresCount, SemType
        <5>2. Cardinality(ReadersOf(s)') = Cardinality(ReadersOf(s)) + 0
          BY Zenon, <2>2, <4>2
        <5> QED BY SMTT(30), <5>1, <5>2
      <4> QED BY <4>1, <4>2
    <3>5. \A s \in Segments : sem'[s + 1] = sem[s + 1]
      BY Zenon, <1>1, <3>3, SegmentsApart
    <3>6. \A l \in Lines : /\ sem'[LineSem(l)] = sem[LineSem(l)]
                           /\ sem'[LineSem(l) + 1] = sem[LineSem(l) + 1]
      BY Zenon, <1>1, <3>3, SegmentsApart
    <3>7. \A n \in SEM_HOUR + 2 .. SEM_LINE - 1 : sem'[n] = sem[n]
      BY SMTT(30), <1>1, <3>3, SegmentsApart, SizesAssumption
    <3> QED BY Zenon, <1>1, <1>2, <1>3, <3>3, <3>4, <3>5, <3>6, <3>7 DEF SemaphoresCount
  <2>3. CASE /\ ~ReaderInside(r) /\ ReaderInside(r)' /\ rdr'[r].seg = rdr[r].seg
             /\ sem' = [sem EXCEPT ![q] = @ + 1]
    <3>1. \A s \in Segments :
            /\ Cardinality(ReadersOf(s)') = Cardinality(ReadersOf(s))
                                            + (IF s = q THEN 1 ELSE 0)
            /\ Cardinality(ReadersOf(s)) \in Nat
      <4>1. \A s \in Segments :
              Cardinality(ReadersOf(s)') = Cardinality(ReadersOf(s)) + (IF s = q THEN 1 ELSE 0)
        BY Zenon, <1>1, <1>2, <2>3, ReaderEnters
      <4>2. \A s \in Segments : Cardinality(ReadersOf(s)) \in Nat
        BY CountOfReaders
      <4> QED BY Zenon, <4>1, <4>2
    <3>2. \A s \in Segments : Cardinality(ReadersOf(s)') \in Nat
      BY <3>1
    <3> QED BY Zenon, <1>1, <2>2, <2>3, <3>1, <3>2
  <2>4. CASE /\ ReaderInside(r) /\ ~ReaderInside(r)'
             /\ sem' = [sem EXCEPT ![q] = @ - 1]
    <3>1. \A s \in Segments :
            /\ Cardinality(ReadersOf(s)') = Cardinality(ReadersOf(s))
                                            + (IF s = q THEN -1 ELSE 0)
            /\ Cardinality(ReadersOf(s)') \in Nat
      <4>1. \A s \in Segments :
              /\ Cardinality(ReadersOf(s)') = Cardinality(ReadersOf(s)) - (IF s = q THEN 1 ELSE 0)
              /\ Cardinality(ReadersOf(s)') \in Nat
        BY Zenon, <1>1, <1>2, <2>4, ReaderLeaves
      <4>2. \A s \in Segments : Cardinality(ReadersOf(s)) \in Nat
        BY CountOfReaders
      <4> QED BY <4>1, <4>2
    <3> QED BY Zenon, <1>1, <2>2, <2>4, <3>1
  <2> QED BY Zenon, <2>1, <2>3, <2>4, ReaderSem
<1>7. Exclusion'
  <2>1. ReaderInside(r)' /\ InSegment(rdr'[r].seg) => rdr'[r].seg \in missed
    <3>1. CASE ReaderInside(r) /\ rdr'[r].seg = rdr[r].seg
      BY Zenon, <3>1, <1>1 DEF Exclusion
    <3>2. CASE sem[q + 1] = 0 /\ rdr'[r].seg = rdr[r].seg
      BY <3>2, <1>1, SMTT(30) DEF SemaphoresCount
    <3>3. CASE ~ReaderInside(r)'
      BY <3>3
    <3> QED BY Zenon, <3>1, <3>2, <3>3, ReaderSem
  <2>2. \A x \in Readers : rdr'[x].seg \in Segments
    BY Zenon, <1>2 DEF ReaderType
  <2>3. \A x \in Readers : ReaderInside(x)' /\ InSegment(rdr'[x].seg) => rdr'[x].seg \in missed
    BY Zenon, <1>1, <1>2, <1>5, <2>1 DEF Exclusion
  <2> QED BY Zenon, <1>1, <1>2, <1>3, <2>2, <2>3 DEF Exclusion, InSegment, InProbe, InAverage
<1>8. TypeOK'
  BY Zenon, <1>2, <1>6 DEF LockInv, TypeOK, ReaderType, SemType, memory
<1> QED BY <1>3, <1>4, <1>6, <1>7, <1>8 DEF LockInv

-----------------------------------------------------------------------------
(* LockInv holds when main enters MainLoop.                                *)
LEMMA InitLockInv == Init => LockInv
<1> SUFFICES ASSUME Init PROVE LockInv
  OBVIOUS
<1>1. PICK t \in Tokens :
        LET clear == [msw |-> t, lsw |-> t]
        IN /\ sem = [n \in 0 .. SEM_LINE + 2 * NLines - 1 |-> 0]
           /\ ValTab = [l \in Lines |-> clear]
           /\ Probe = [l \in Lines |-> clear]
           /\ Avg = [s \in Averages |-> clear]
           /\ dm = [l \in Lines |-> [pc |-> "idle", sample |-> t]]
           /\ pk = [pc |-> "sleep", i |-> 1, seg |-> SEM_MINUTE, cycle |-> t]
           /\ rdr = [r \in Readers |-> IdleReader]
           /\ sigchld = FALSE
           /\ missed = {} /\ eintr = FALSE /\ torn = {}
           /\ deaths = 0 /\ exits = 0
  BY DEF Init
<1>2. TypeOK
  <2>1. IdleReader \in ReaderStates
    BY IdleState
  <2>2. rdr \in [Readers -> ReaderStates]
    BY Zenon, <1>1, <2>1
  <2>3. /\ ValTab \in [Lines -> WordPairs] /\ Probe \in [Lines -> WordPairs]
        /\ Avg \in [Averages -> WordPairs]
    BY Zenon, <1>1 DEF WordPairs
  <2>4. SemType /\ DaemonType
    BY Zenon, <1>1 DEF SemType, DaemonType, DaemonPcs
  <2>5. ParcookType
    BY <1>1 DEF ParcookType, ParcookPcs, Averages
  <2>6. sigchld \in BOOLEAN /\ eintr \in BOOLEAN /\ missed \subseteq Pairs /\ torn \subseteq Lines
    BY Zenon, <1>1
  <2>7. deaths \in 0 .. MaxDeaths /\ exits \in 0 .. MaxExits
    BY SMTT(30), <1>1, SizesAssumption
  <2> QED BY <2>2, <2>3, <2>4, <2>5, <2>6, <2>7
          DEF TypeOK, SemType, DaemonType, ParcookType, ReaderStates
<1>3. CopiedOK /\ CountersOK /\ MissedOK
  BY <1>1 DEF CopiedOK, CountersOK, MissedOK, IdleReader
<1>4. /\ \A r \in Readers : ~ReaderInside(r)
      /\ \A l \in Lines : ~DaemonInside(l) /\ ~InLine(l)
      /\ \A s \in Segments : ~InSegment(s)
  BY <1>1 DEF ReaderInside, IdleReader, DaemonInside, InLine, InSegment, InProbe, InAverage
<1>5. \A s \in Segments : Cardinality(ReadersOf(s)) = 0
  BY Zenon, <1>4, FS_EmptySet DEF ReadersOf
<1>6. SemaphoresCount /\ Exclusion
  BY <1>1, <1>4, <1>5, SegmentsApart, SizesAssumption, SMTT(30) DEF SemaphoresCount, Exclusion
<1> QED BY <1>2, <1>3, <1>6 DEF LockInv

(* A step that changes nothing keeps LockInv.                              *)
LEMMA StutterKeepsLockInv == LockInv /\ UNCHANGED vars => LockInv'
<1> SUFFICES ASSUME LockInv, UNCHANGED vars PROVE LockInv'
  OBVIOUS
<1> USE DEF vars, memory, history
<1>1. TypeOK'
  BY Zenon DEF LockInv, TypeOK
<1>2. SemaphoresCount' /\ MissedOK' /\ Exclusion' /\ CopiedOK' /\ CountersOK'
  BY SamePlaces DEF LockInv, TypeOK, SemaphoresCount, MissedOK, Exclusion
<1> QED BY <1>1, <1>2 DEF LockInv

(* Every step of the system keeps the lock invariant. *)
LEMMA NextKeepsLockInv == LockInv /\ [Next]_vars => LockInv'
<1> SUFFICES ASSUME LockInv, [Next]_vars PROVE LockInv'
  OBVIOUS
<1>1. ASSUME NEW l \in Lines, DaemonStep(l) \/ DaemonDie(l) PROVE LockInv'
  BY <1>1, DaemonKeepsLockInv
<1>2. CASE ParcookStep
  <2>1. CASE TakeProbe \/ TakeRef \/ TakeAvg
    BY <2>1, TakeWriteKeepsLockInv DEF TakeProbe, TakeRef, TakeAvg, ParcookSemop, Addressed
  <2>2. CASE DropProbe \/ DropRef \/ DropAvg
    BY <2>2, DropWriteKeepsLockInv DEF DropProbe, DropRef, DropAvg, ParcookSemop, Addressed
  <2> QED BY <1>2, <2>1, <2>2, TakeLineKeepsLockInv, DropLineKeepsLockInv, CopyKeepsLockInv
          DEF ParcookStep
<1>3. ASSUME NEW r \in Readers, ReaderStep(r) \/ ReaderExit(r) PROVE LockInv'
  BY <1>3, ReaderKeepsLockInv
<1> QED BY <1>1, <1>2, <1>3, ChildDiedKeepsLockInv, StutterKeepsLockInv DEF Next

(* The lock invariant holds in every behaviour of daemons, parcook and     *)
(* readers, for any number of lines, readers, references and deaths.       *)
THEOREM LockInvariant == Spec => []LockInv
BY InitLockInv, NextKeepsLockInv, PTL DEF Spec

(* The types of the state, for any number of lines and readers. *)
THEOREM TypeCorrect == Spec => []TypeOK
<1>1. LockInv => TypeOK
  BY DEF LockInv
<1> QED BY <1>1, LockInvariant, PTL

(* Mutual exclusion between line daemons, parcook and the readers of       *)
(* parcook's segments, for any number of them: two processes that must not *)
(* share a segment do so only where MainLoop went past an interrupted      *)
(* semop().                                                                *)
THEOREM MutualExclusion == Spec => []Exclusion
<1>1. LockInv => Exclusion
  BY DEF LockInv
<1> QED BY <1>1, LockInvariant, PTL

(* The semaphores count the processes inside, and nothing leaks. *)
THEOREM NoLeak == Spec => []SemaphoresCount
<1>1. LockInv => SemaphoresCount
  BY DEF LockInv
<1> QED BY <1>1, LockInvariant, PTL

(* MainLoop waits in an unlock only for a lock it did not get. *)
THEOREM UnlockImmediate == Spec => []UnlockNeverWaits
<1>1. LockInv => UnlockNeverWaits
  <2> SUFFICES ASSUME LockInv, DropWaits PROVE Addressed \in missed
    BY DEF UnlockNeverWaits
  <2>1. ParcookType /\ CountersOK /\ SemaphoresCount
    BY DEF LockInv, TypeOK, ParcookType
  <2>2. pk.pc \in Drops
    BY DEF DropWaits, Drops
  <2>3. CASE pk.pc = "dropLine"
    <3>1. pk.i \in Lines /\ Addressed = LineSem(pk.i) /\ sem[LineSem(pk.i)] = 0 /\ InLine(pk.i)
      BY <2>1, <2>2, <2>3, AddressedPair DEF DropWaits, InLine
    <3> QED BY <2>1, <3>1 DEF SemaphoresCount
  <2>4. CASE pk.pc # "dropLine"
    <3>1. Addressed \in Segments /\ sem[Addressed + 1] = 0
      BY <2>1, <2>2, <2>4, AddressedPair DEF DropWaits, Drops
    <3>2. InSegment(Addressed)
      BY <2>1, <2>2, <2>4, RefInRange DEF Drops, Addressed, InSegment, InProbe, InAverage,
         ParcookType, CountersOK, Averages
    <3> QED BY <2>1, <3>1, <3>2 DEF SemaphoresCount
  <2> QED BY <2>3, <2>4
<1> QED BY <1>1, LockInvariant, PTL

-----------------------------------------------------------------------------
(* The words of a combined parameter.  ~eintr says that parcook holds      *)
(* every lock it acts under.                                               *)
LEMMA Undisturbed ==
  ASSUME LockInv, ~eintr
  PROVE  /\ \A l \in Lines : InLine(l) => ~DaemonInside(l)
         /\ \A r \in Readers : ReaderInside(r) => ~InSegment(rdr[r].seg)
BY DEF LockInv, MissedOK, Exclusion

(* A step of a daemon keeps the words together: it writes its line segment *)
(* only while parcook is not copying it.                                   *)
LEMMA DaemonKeepsWords ==
  ASSUME LockInv, WordsInv, NEW l \in Lines, DaemonStep(l) \/ DaemonDie(l)
  PROVE  WordsInv'
<1>0. DaemonType /\ ValTab \in [Lines -> WordPairs]
  BY Zenon DEF LockInv, TypeOK, DaemonType
<1>1. /\ DaemonType'
      /\ \A k \in Lines \ {l} : dm'[k] = dm[k]
      /\ UNCHANGED <<Probe, Avg, pk, rdr, missed, eintr, exits>>
      /\ torn \subseteq torn'
  BY <1>0, DaemonFrame
<1>2. /\ \A k \in Lines \ {l} : ValTab'[k] = ValTab[k]
      /\ ValTab'[l] # ValTab[l] => DaemonInside(l)
  BY Zenon, <1>0 DEF DaemonStep, DaemonSample, DaemonTake, DaemonCopyMsw, DaemonCopyLsw, DaemonDrop,
     DaemonDie, DaemonAt, DaemonInside, memory
<1>3. LineWords'
  <2>1. ASSUME NEW k \in Lines \ {l}
        PROVE  /\ dm'[k].pc = "lsw" => ValTab'[k].msw = dm'[k].sample
               /\ ValTab'[k].msw = ValTab'[k].lsw \/ dm'[k].pc = "lsw" \/ k \in torn'
    BY Zenon, <1>1, <1>2 DEF WordsInv, LineWords
  <2>2. /\ dm'[l].pc = "lsw" => ValTab'[l].msw = dm'[l].sample
        /\ ValTab'[l].msw = ValTab'[l].lsw \/ dm'[l].pc = "lsw" \/ l \in torn'
    <3> USE <1>0 DEF WordsInv, LineWords, DaemonType, WordPairs
    <3>1. CASE DaemonSample(l) \/ DaemonTake(l) \/ DaemonDrop(l)
      BY <3>1 DEF DaemonSample, DaemonTake, DaemonDrop, DaemonAt, memory, history
    <3>2. CASE DaemonCopyMsw(l)
      BY <3>2 DEF DaemonCopyMsw, DaemonAt, history
    <3>3. CASE DaemonCopyLsw(l)
      BY <3>3 DEF DaemonCopyLsw, DaemonAt, history
    <3>4. CASE DaemonDie(l)
      BY <3>4 DEF DaemonDie, memory
    <3> QED BY Zenon, <3>1, <3>2, <3>3, <3>4 DEF DaemonStep
  <2> QED BY Zenon, <2>1, <2>2 DEF LineWords
<1>4. ASSUME ~eintr' PROVE ProbeWords' /\ AvgWords' /\ ReaderWords'
  <2>1. ~eintr /\ ProbeWords /\ AvgWords /\ ReaderWords
    BY Zenon, <1>1, <1>4 DEF WordsInv
  <2>2. ProbeWords'
    <3>1. \A k \in Lines : pk.pc = "copyLsw" /\ pk.i = k => ValTab'[k] = ValTab[k]
      BY Zenon, <1>2, <2>1, Undisturbed DEF InLine
    <3> QED BY <1>1, <2>1, <3>1 DEF ProbeWords
  <2>3. AvgWords'
    BY Zenon, <1>1, <2>1 DEF AvgWords
  <2>4. ReaderWords'
    BY <1>1, <2>1 DEF ReaderWords, SourceOf
  <2> QED BY <2>2, <2>3, <2>4
<1> QED BY <1>3, <1>4 DEF WordsInv

(* A semop() of parcook changes no word.                                   *)
LEMMA SemopKeepsWords ==
  ASSUME WordsInv, pk.pc \notin {"copyLsw", "avgLsw"}, pk'.pc \notin {"copyLsw", "avgLsw"},
         UNCHANGED <<memory, dm, rdr, torn>>, eintr => eintr'
  PROVE  WordsInv'
<1>1. LineWords'
  BY Zenon DEF WordsInv, LineWords, memory
<1>2. ASSUME ~eintr' PROVE ProbeWords' /\ AvgWords' /\ ReaderWords'
  BY Zenon, <1>2 DEF WordsInv, ProbeWords, AvgWords, ReaderWords, SourceOf, memory
<1> QED BY Zenon, <1>1, <1>2 DEF WordsInv

(* parcook's copies keep the words together: neither the daemon nor a      *)
(* reader is inside the segments it touches.                               *)
LEMMA CopyKeepsWords ==
  ASSUME LockInv, WordsInv, CopyMsw \/ CopyLsw \/ AvgMsw \/ AvgLsw
  PROVE  WordsInv'
<1>1. UNCHANGED <<ValTab, dm, rdr, torn, eintr>>
  BY DEF CopyMsw, CopyLsw, AvgMsw, AvgLsw, history
<1>2. LineWords'
  BY <1>1 DEF WordsInv, LineWords
<1>3. /\ ParcookType /\ CountersOK /\ Probe \in [Lines -> WordPairs]
      /\ Avg \in [Averages -> WordPairs] /\ pk.seg \in Averages /\ SEM_PROBE \notin Averages
      /\ \A r \in Readers : rdr[r].seg \in Segments
  BY DEF LockInv, TypeOK, ParcookType, Averages
<1>4. ASSUME ~eintr' PROVE ProbeWords' /\ AvgWords' /\ ReaderWords'
  <2>1. ~eintr /\ ProbeWords /\ AvgWords /\ ReaderWords /\ LineWords
    BY <1>1, <1>4 DEF WordsInv
  <2>2. CASE CopyMsw \/ CopyLsw
    <3>0. pk.i \in Lines /\ InLine(pk.i) /\ InSegment(SEM_PROBE) /\ UNCHANGED Avg
      BY <1>3, <2>2 DEF CopyMsw, CopyLsw, CountersOK, InLine, InSegment, InProbe
    <3>1. ProbeWords'
      <4>1. CASE CopyMsw
        BY <1>1, <1>3, <2>1, <3>0, <4>1 DEF CopyMsw, ProbeWords, ParcookType, WordPairs
      <4>2. CASE CopyLsw
        <5>1. dm[pk.i].pc # "lsw"
          BY <2>1, <3>0, Undisturbed DEF DaemonInside
        <5>2. ValTab[pk.i].msw = ValTab[pk.i].lsw \/ pk.i \in torn
          BY <2>1, <3>0, <5>1 DEF LineWords
        <5> QED BY Zenon, <1>1, <1>3, <2>1, <3>0, <4>2, <5>2
                DEF CopyLsw, ProbeWords, ParcookType, WordPairs
      <4> QED BY <2>2, <4>1, <4>2
    <3>2. AvgWords'
      BY Zenon, <1>3, <2>1, <2>2, <3>0 DEF CopyMsw, CopyLsw, AvgWords, ParcookType
    <3>3. \A r \in Readers : rdr[r].pc \in {"lsw", "drop"} => rdr[r].seg # SEM_PROBE
      BY Zenon, <2>1, <3>0, Undisturbed DEF ReaderInside
    <3>4. ReaderWords'
      BY <1>1, <2>1, <3>0, <3>3 DEF ReaderWords, SourceOf
    <3> QED BY <3>1, <3>2, <3>4
  <2>3. CASE AvgMsw \/ AvgLsw
    <3>0. InSegment(pk.seg) /\ UNCHANGED Probe
      BY <1>3, <2>3 DEF AvgMsw, AvgLsw, InSegment, InAverage
    <3>1. ProbeWords'
      BY <1>1, <1>3, <2>1, <2>3, <3>0 DEF AvgMsw, AvgLsw, ProbeWords, ParcookType
    <3>2. AvgWords'
      BY SMTT(30), <1>3, <2>1, <2>3 DEF AvgMsw, AvgLsw, AvgWords, ParcookType, WordPairs
    <3>3. \A r \in Readers : rdr[r].pc \in {"lsw", "drop"} => rdr[r].seg # pk.seg
      BY <2>1, <3>0, Undisturbed DEF ReaderInside
    <3>4. \A s \in Averages : s # pk.seg => Avg'[s] = Avg[s]
      BY Zenon, <1>3, <2>3 DEF AvgMsw, AvgLsw
    <3>5. ReaderWords'
      BY Zenon, <1>1, <1>3, <2>1, <3>0, <3>3, <3>4 DEF ReaderWords, SourceOf, Segments
    <3> QED BY <3>1, <3>2, <3>5
  <2> QED BY <2>2, <2>3
<1> QED BY <1>2, <1>4 DEF WordsInv

(* A reader's copies keep the words together: parcook is not inside the    *)
(* segment.                                                                *)
LEMMA ReaderKeepsWords ==
  ASSUME LockInv, WordsInv, NEW r \in Readers, ReaderStep(r) \/ ReaderExit(r)
  PROVE  WordsInv'
<1>1. /\ \A x \in Readers \ {r} : rdr'[x] = rdr[x]
      /\ UNCHANGED <<memory, dm, pk, sigchld, missed, eintr, torn, deaths>>
  BY Zenon, ReaderFrame
<1>2. LineWords'
  BY <1>1 DEF WordsInv, LineWords, memory
<1>3. ASSUME ~eintr' PROVE ProbeWords' /\ AvgWords' /\ ReaderWords'
  <2>1. ~eintr /\ ProbeWords /\ AvgWords /\ ReaderWords
    BY Zenon, <1>1, <1>3 DEF WordsInv
  <2>2. ProbeWords' /\ AvgWords'
    BY <1>1, <2>1 DEF ProbeWords, AvgWords, memory
  <2>3. /\ rdr \in [Readers -> ReaderStates] /\ CopiedOK /\ ParcookType
        /\ SourceOf(r).msw \in Tokens /\ SourceOf(r).lsw \in Tokens
    <3>1. rdr \in [Readers -> ReaderStates] /\ CopiedOK /\ ParcookType
      BY DEF LockInv, TypeOK, ReaderStates, ParcookType
    <3>2. SourceOf(r) \in WordPairs
      BY Zenon, <3>1 DEF LockInv, TypeOK, SourceOf, Segments, ReaderStates
    <3> QED BY <3>1, <3>2 DEF WordPairs
  <2>4. \A x \in Readers \ {r} :
          /\ rdr'[x].pc = "lsw" => rdr'[x].copied = <<SourceOf(x)'.msw>>
          /\ rdr'[x].pc = "drop" =>
               /\ rdr'[x].copied \in Tokens \X Tokens
               /\ \/ rdr'[x].copied[1] = rdr'[x].copied[2]
                  \/ rdr'[x].seg = SEM_PROBE /\ rdr'[x].line \in torn'
    BY Zenon, <1>1, <2>1 DEF ReaderWords, SourceOf, memory
  <2>5. /\ rdr'[r].pc = "lsw" => rdr'[r].copied = <<SourceOf(r)'.msw>>
        /\ rdr'[r].pc = "drop" =>
             /\ rdr'[r].copied \in Tokens \X Tokens
             /\ \/ rdr'[r].copied[1] = rdr'[r].copied[2]
                \/ rdr'[r].seg = SEM_PROBE /\ rdr'[r].line \in torn'
    <3>1. CASE ReaderStart(r) \/ ReaderTake(r) \/ ReaderDrop(r) \/ ReaderExit(r)
      BY <2>3, <3>1 DEF ReaderStart, ReaderTake, ReaderDrop, ReaderExit, IdleReader, ReaderStates
    <3>2. CASE ReaderCopyMsw(r)
      BY ZenonT(30), <1>1, <2>3, <3>2 DEF ReaderCopyMsw, SourceOf, memory, ReaderStates
    <3>3. CASE ReaderCopyLsw(r)
      <4>1. /\ rdr'[r].pc = "drop" /\ rdr'[r].seg = rdr[r].seg /\ rdr'[r].line = rdr[r].line
            /\ rdr'[r].copied = <<rdr[r].copied[1], SourceOf(r).lsw>>
        BY <2>3, <3>3 DEF ReaderCopyLsw, ReaderStates
      <4>2. rdr[r].copied[1] = SourceOf(r).msw
        BY SMTT(30), <2>1, <3>3 DEF ReaderWords, ReaderCopyLsw
      <4>3. \/ SourceOf(r).msw = SourceOf(r).lsw
            \/ rdr[r].seg = SEM_PROBE /\ rdr[r].line \in torn
        <5>1. ~InSegment(rdr[r].seg)
          BY Zenon, <2>1, <3>3, Undisturbed DEF ReaderInside, ReaderCopyLsw
        <5>2. rdr[r].seg \in Segments /\ rdr[r].line \in Lines
          BY Zenon, <2>3 DEF ReaderStates
        <5>3. CASE rdr[r].seg = SEM_PROBE
          BY Zenon, <2>1, <5>1, <5>2, <5>3 DEF ProbeWords, SourceOf, InSegment, InProbe
        <5>4. CASE rdr[r].seg # SEM_PROBE
          BY Zenon, <2>1, <5>1, <5>2, <5>4 DEF AvgWords, SourceOf, InSegment, InAverage, Segments
        <5> QED BY <5>3, <5>4
      <4> QED BY <1>1, <2>3, <4>1, <4>2, <4>3, SMTT(30)
    <3> QED BY Zenon, <3>1, <3>2, <3>3 DEF ReaderStep
  <2>6. ReaderWords'
    BY Zenon, <2>4, <2>5 DEF ReaderWords
  <2> QED BY <2>2, <2>6
<1> QED BY Zenon, <1>2, <1>3 DEF WordsInv

(* The words belong together initially: the segments hold one value.       *)
LEMMA InitWords == Init => WordsInv
<1> SUFFICES ASSUME Init PROVE WordsInv
  OBVIOUS
<1>1. PICK t \in Tokens :
        /\ ValTab = [l \in Lines |-> [msw |-> t, lsw |-> t]]
        /\ Probe = [l \in Lines |-> [msw |-> t, lsw |-> t]]
        /\ Avg = [s \in Averages |-> [msw |-> t, lsw |-> t]]
        /\ dm = [l \in Lines |-> [pc |-> "idle", sample |-> t]]
        /\ pk.pc = "sleep"
        /\ rdr = [r \in Readers |-> IdleReader]
  BY DEF Init
<1> QED BY Zenon, <1>1 DEF WordsInv, LineWords, ProbeWords, AvgWords, ReaderWords, IdleReader

(* Every step keeps WordsInv.                                              *)
LEMMA NextKeepsWords == LockInv /\ WordsInv /\ [Next]_vars => WordsInv'
<1> SUFFICES ASSUME LockInv, WordsInv, [Next]_vars PROVE WordsInv'
  OBVIOUS
<1>0. ParcookType /\ CountersOK
  BY DEF LockInv, TypeOK, ParcookType
<1>1. ASSUME NEW l \in Lines, DaemonStep(l) \/ DaemonDie(l) PROVE WordsInv'
  BY <1>1, DaemonKeepsWords
<1>2. CASE ParcookStep
  <2>1. CASE TakeProbe \/ TakeLine \/ TakeRef \/ TakeAvg
    <3>1. /\ pk.pc \in Takes /\ pk' \in Continue
          /\ UNCHANGED <<memory, dm, rdr, torn, eintr>>
      BY <2>1 DEF TakeProbe, TakeLine, TakeRef, TakeAvg, ParcookSemop, Takes, history
    <3>2. pk'.pc \notin {"copyLsw", "avgLsw"}
      BY <1>0, <3>1, TakeMoves DEF TookPair
    <3> QED BY Zenon, <3>1, <3>2, SemopKeepsWords DEF Takes
  <2>2. CASE DropProbe \/ DropLine \/ DropRef \/ DropAvg
    <3>1. /\ pk.pc \in Drops /\ pk' \in Continue
          /\ UNCHANGED <<memory, dm, rdr, torn, eintr>>
      BY Zenon, <2>2 DEF DropProbe, DropLine, DropRef, DropAvg, ParcookSemop, Drops, history
    <3>2. pk'.pc \notin {"copyLsw", "avgLsw"}
      BY <1>0, <3>1, DropMoves DEF DroppedPair
    <3> QED BY Zenon, <3>1, <3>2, SemopKeepsWords DEF Drops
  <2>3. CASE Wake
    <3>1. /\ pk.pc = "sleep" /\ pk'.pc = "takeProbe"
          /\ UNCHANGED <<memory, dm, rdr, torn, eintr>>
      BY <1>0, <2>3 DEF Wake, history, ParcookType
    <3> QED BY <3>1, SemopKeepsWords
  <2> QED BY <1>2, <2>1, <2>2, <2>3, CopyKeepsWords DEF ParcookStep
<1>3. CASE ChildDied
  <2>1. CASE UNCHANGED <<pk, eintr>>
    <3>1. UNCHANGED <<pk, memory, dm, rdr, torn, eintr>>
      BY <1>3, <2>1 DEF ChildDied
    <3> QED BY <3>1 DEF WordsInv, LineWords, ProbeWords, AvgWords, ReaderWords, SourceOf, memory
  <2>2. CASE TakeWaits /\ pk' \in Continue /\ eintr' = TRUE
    <3>1. pk.pc \in Takes /\ UNCHANGED <<memory, dm, rdr, torn>>
      BY <1>3, <2>2 DEF TakeWaits, Takes, ChildDied
    <3>2. pk'.pc \notin {"copyLsw", "avgLsw"}
      BY <1>0, <2>2, <3>1, TakeMoves DEF TookPair
    <3> QED BY <2>2, <3>1, <3>2, SemopKeepsWords DEF Takes
  <2>3. CASE DropWaits /\ pk' \in Continue /\ UNCHANGED eintr
    <3>1. pk.pc \in Drops /\ UNCHANGED <<memory, dm, rdr, torn>>
      BY <1>3, <2>3 DEF DropWaits, Drops, ChildDied
    <3>2. pk'.pc \notin {"copyLsw", "avgLsw"}
      BY <1>0, <2>3, <3>1, DropMoves DEF DroppedPair
    <3> QED BY Zenon, <2>3, <3>1, <3>2, SemopKeepsWords DEF Drops
  <2> QED BY ZenonT(30), <1>3, <2>1, <2>2, <2>3 DEF ChildDied
<1>4. ASSUME NEW r \in Readers, ReaderStep(r) \/ ReaderExit(r) PROVE WordsInv'
  BY <1>4, ReaderKeepsWords
<1>5. CASE UNCHANGED vars
  <2>1. UNCHANGED <<pk, memory, dm, rdr, torn, eintr>>
    BY <1>5 DEF vars, history
  <2> QED BY <2>1 DEF WordsInv, LineWords, ProbeWords, AvgWords, ReaderWords, SourceOf, memory
<1> QED BY <1>1, <1>2, <1>3, <1>4, <1>5 DEF Next

(* A snapshot is never torn, end to end: for any number of lines and       *)
(* readers, the two words of a combined parameter that a reader has copied *)
(* come from one sample or one averaging cycle, unless a lock was lost to  *)
(* SIGCHLD or the daemon of the line died inside its memcpy.               *)
THEOREM SnapshotsConsistent == Spec => []ConsistentSnapshots
<1>1. WordsInv => ConsistentSnapshots
  BY DEF WordsInv, ReaderWords, ConsistentSnapshots
<1> QED BY <1>1, InitWords, NextKeepsWords, LockInvariant, PTL DEF Spec
=============================================================================
