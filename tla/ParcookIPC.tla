----------------------------- MODULE ParcookIPC -----------------------------
(***************************************************************************)
(* The shared-memory traffic around parcook.  A line daemon publishes the  *)
(* values of its line in a segment of its own; once per base period        *)
(* parcook copies every line segment into the Probe segment, evaluates the *)
(* formulas and recomputes the Minute, Min10 and Hour segments; meaner3,   *)
(* prober, sender and others copy those segments out.  Every segment is    *)
(* guarded by two System V semaphores, one counting the readers inside and *)
(* one counting the writers inside.                                        *)
(*                                                                         *)
(* A combined parameter occupies two 16 bit words, msw and lsw.  A segment *)
(* is modelled by the two words of one such parameter (per line, in the    *)
(* Probe segment), and each word carries the identity of the device sample *)
(* or of the parcook cycle it comes from: a snapshot is torn when its      *)
(* words carry different ones.                                             *)
(*                                                                         *)
(* The death of a line daemon raises SIGCHLD in parcook.  A blocked        *)
(* semop() then returns EINTR, and parcook ignores what semop() returns.   *)
(***************************************************************************)
EXTENDS Integers, Sequences, FiniteSets

CONSTANTS NLines,       \* NumberOfLines
          Readers,      \* processes that copy parcook's segments
          Refs,         \* the averages the formulas refer to, in order
          Tokens,       \* identities of samples and of parcook cycles
          MaxDeaths,    \* bound: line daemons that die
          MaxExits      \* bound: terminations of readers

(* The semaphore pairs of the set SEM_PARCOOK.  Semaphore s counts the     *)
(* readers of the segment of pair s, semaphore s + 1 its writers.          *)
SEM_PROBE == 0
SEM_MINUTE == 2
SEM_MIN10 == 4
SEM_HOUR == 6
SEM_LINE == 12

Lines == 1 .. NLines
LineSem(l) == SEM_LINE + 2 * (l - 1)
Averages == {SEM_MINUTE, SEM_MIN10, SEM_HOUR}
Segments == {SEM_PROBE} \cup Averages
Pairs == Segments \cup {LineSem(l) : l \in Lines}

ASSUME SizesAssumption == NLines \in Nat \ {0} /\ MaxDeaths \in Nat /\ MaxExits \in Nat
ASSUME RefsAssumption == Refs \in Seq(Averages)
ASSUME TokensAssumption == Tokens # {}
ASSUME ReadersAssumption == IsFiniteSet(Readers)

VARIABLES
  sem,        \* values of the semaphores
  ValTab,     \* line segments
  Probe,      \* probe segment, the words of every line
  Avg,        \* Minute, Min10 and Hour segments
  dm,         \* line daemons: program counter and the sample in m_read
  pk,         \* parcook: program counter, loop counter, segment and cycle
  rdr,        \* readers: program counter, segment, line and copied words
  sigchld,    \* SIGCHLD is pending for parcook
  missed,     \* segments parcook is inside of without having the lock
  eintr,      \* parcook has gone past a blocked lock at least once
  torn,       \* lines whose daemon died between the two words of a copy
  deaths, exits

memory == <<ValTab, Probe, Avg>>
history == <<missed, eintr, torn>>
vars == <<sem, memory, dm, pk, rdr, sigchld, history, deaths, exits>>

WordPairs == [msw : Tokens, lsw : Tokens]
Copies == {<<>>} \cup {<<t>> : t \in Tokens} \cup (Tokens \X Tokens)

DaemonPcs == {"idle", "take", "msw", "lsw", "drop", "dead"}
ReaderPcs == {"idle", "take", "msw", "lsw", "drop"}
ParcookPcs == {"sleep", "takeProbe", "takeLine", "copyMsw", "copyLsw", "dropLine", "takeRef",
               "dropRef", "dropProbe", "takeAvg", "avgMsw", "avgLsw", "dropAvg"}

IdleReader == [pc |-> "idle", seg |-> SEM_PROBE, line |-> 1, copied |-> <<>>]

TypeOK ==
  /\ sem \in [0 .. SEM_LINE + 2 * NLines - 1 -> Nat]
  /\ ValTab \in [Lines -> WordPairs]
  /\ Probe \in [Lines -> WordPairs]
  /\ Avg \in [Averages -> WordPairs]
  /\ dm \in [Lines -> [pc : DaemonPcs, sample : Tokens]]
  /\ pk \in [pc : ParcookPcs, i : Nat \ {0}, seg : Averages, cycle : Tokens]
  /\ rdr \in [Readers -> [pc : ReaderPcs, seg : Segments, line : Lines, copied : Copies]]
  /\ sigchld \in BOOLEAN
  /\ missed \subseteq Pairs
  /\ eintr \in BOOLEAN
  /\ torn \subseteq Lines
  /\ deaths \in 0 .. MaxDeaths
  /\ exits \in 0 .. MaxExits

(* ClearShm has filled Probe, Minute and Min10 with SZARP_NO_DATA and a    *)
(* new Hour segment holds zeroes: both words of a parameter are the same.  *)
Init ==
  \E t \in Tokens :
    LET clear == [msw |-> t, lsw |-> t]
    IN /\ sem = [n \in 0 .. SEM_LINE + 2 * NLines - 1 |-> 0]
       /\ ValTab = [l \in Lines |-> clear]
       /\ Probe = [l \in Lines |-> clear]
       /\ Avg = [s \in Averages |-> clear]
       /\ dm = [l \in Lines |-> [pc |-> "idle", sample |-> t]]
       /\ pk = [pc |-> "sleep", i |-> 1, seg |-> SEM_MINUTE, cycle |-> t]
       /\ rdr = [r \in Readers |-> IdleReader]
       /\ sigchld = FALSE
       /\ missed = {} /\ eintr = FALSE /\ torn = {}
       /\ deaths = 0 /\ exits = 0

-----------------------------------------------------------------------------
(* semop() on the pair of semaphores of a segment.  A process may take the *)
(* read lock when no writer is inside, the write lock when no reader is.   *)

\* mutants: a lock that does not look at the other semaphore
ReadLockBlind(s) == sem' = [sem EXCEPT ![s] = @ + 1]
WriteLockBlind(s) == sem' = [sem EXCEPT ![s + 1] = @ + 1]

ReadLock(s) == sem[s + 1] = 0 /\ sem' = [sem EXCEPT ![s] = @ + 1]

WriteLock(s) == sem[s] = 0 /\ sem' = [sem EXCEPT ![s + 1] = @ + 1]

ReadUnlock(s) == sem[s] > 0 /\ sem' = [sem EXCEPT ![s] = @ - 1]

WriteUnlock(s) == sem[s + 1] > 0 /\ sem' = [sem EXCEPT ![s + 1] = @ - 1]

-----------------------------------------------------------------------------
(* IPCHandler::GoParcook in the daemon of line l.                          *)

DaemonAt(l, from, to) == dm[l].pc = from /\ dm' = [dm EXCEPT ![l].pc = to]

DaemonSample(l) ==
  /\ dm[l].pc = "idle"
  /\ \E t \in Tokens : dm' = [dm EXCEPT ![l] = [pc |-> "take", sample |-> t]]
  /\ UNCHANGED <<sem, memory, pk, rdr, sigchld, history, deaths, exits>>

DaemonTake(l) ==
  /\ DaemonAt(l, "take", "msw") /\ WriteLock(LineSem(l))
  /\ UNCHANGED <<memory, pk, rdr, sigchld, history, deaths, exits>>

DaemonCopyMsw(l) ==
  /\ DaemonAt(l, "msw", "lsw")
  /\ ValTab' = [ValTab EXCEPT ![l].msw = dm[l].sample]
  /\ UNCHANGED <<sem, Probe, Avg, pk, rdr, sigchld, history, deaths, exits>>

DaemonCopyLsw(l) ==
  /\ DaemonAt(l, "lsw", "drop")
  /\ ValTab' = [ValTab EXCEPT ![l].lsw = dm[l].sample]
  /\ UNCHANGED <<sem, Probe, Avg, pk, rdr, sigchld, history, deaths, exits>>

DaemonDrop(l) ==
  /\ DaemonAt(l, "drop", "idle") /\ WriteUnlock(LineSem(l))
  /\ UNCHANGED <<memory, pk, rdr, sigchld, history, deaths, exits>>

DaemonInside(l) == dm[l].pc \in {"msw", "lsw", "drop"}

\* mutant: the lock is taken without SEM_UNDO
DaemonDieNoUndo(l) ==
  /\ dm[l].pc # "dead" /\ deaths < MaxDeaths
  /\ dm' = [dm EXCEPT ![l].pc = "dead"]
  /\ torn' = IF dm[l].pc = "lsw" THEN torn \cup {l} ELSE torn
  /\ sigchld' = TRUE /\ deaths' = deaths + 1
  /\ UNCHANGED <<sem, memory, pk, rdr, missed, eintr, exits>>

(* The daemon exits or is killed: the kernel undoes its SEM_UNDO           *)
(* operations, the segment keeps what was copied, nobody restarts it.      *)
DaemonDie(l) ==
  /\ dm[l].pc # "dead" /\ deaths < MaxDeaths
  /\ dm' = [dm EXCEPT ![l].pc = "dead"]
  /\ sem' = IF DaemonInside(l) THEN [sem EXCEPT ![LineSem(l) + 1] = @ - 1] ELSE sem
  /\ torn' = IF dm[l].pc = "lsw" THEN torn \cup {l} ELSE torn
  /\ sigchld' = TRUE
  /\ deaths' = deaths + 1
  /\ UNCHANGED <<memory, pk, rdr, missed, eintr, exits>>

-----------------------------------------------------------------------------
(* parcook: MainLoop.  Where the program continues after a semop() is kept *)
(* apart from what the semop() does, because an interrupted call continues *)
(* at the same place as a completed one.                                   *)

AtRef(i) == [pk EXCEPT !.pc = IF i <= Len(Refs) THEN "takeRef" ELSE "dropProbe",
                       !.i = i]

AtLine(i) == IF i <= NLines THEN [pk EXCEPT !.pc = "takeLine", !.i = i] ELSE AtRef(1)

AtAverage(s) == [pk EXCEPT !.pc = "takeAvg", !.seg = s]

AtSleep == [pk EXCEPT !.pc = "sleep", !.i = 1, !.seg = SEM_MINUTE]

\* mutant: every average is followed by another one
AfterAverageNoLast == {AtAverage(pk.seg + 2), AtSleep}

(* Minute is recomputed in every cycle, Min10 when the minute has changed  *)
(* since the last cycle, Hour when the ten minutes have changed as well.   *)
AfterAverage ==
  CASE pk.seg = SEM_MINUTE -> {AtAverage(SEM_MIN10), AtSleep}
    [] pk.seg = SEM_MIN10  -> {AtAverage(SEM_HOUR), AtSleep}
    [] OTHER             -> {AtSleep}

Continue ==
  CASE pk.pc = "takeProbe" -> {AtLine(1)}
    [] pk.pc = "takeLine"  -> {[pk EXCEPT !.pc = "copyMsw"]}
    [] pk.pc = "dropLine"  -> {AtLine(pk.i + 1)}
    [] pk.pc = "takeRef"   -> {[pk EXCEPT !.pc = "dropRef"]}
    [] pk.pc = "dropRef"   -> {AtRef(pk.i + 1)}
    [] pk.pc = "dropProbe" -> {AtAverage(SEM_MINUTE)}
    [] pk.pc = "takeAvg"   -> {[pk EXCEPT !.pc = "avgMsw"]}
    [] pk.pc = "dropAvg"   -> AfterAverage
    [] OTHER               -> {}

ParcookSemop(pc, lock) ==
  /\ pk.pc = pc /\ lock /\ pk' \in Continue
  /\ UNCHANGED <<memory, dm, rdr, sigchld, history, deaths, exits>>

Wake ==
  /\ pk.pc = "sleep"
  /\ \E t \in Tokens : pk' = [pk EXCEPT !.pc = "takeProbe", !.cycle = t]
  /\ UNCHANGED <<sem, memory, dm, rdr, sigchld, history, deaths, exits>>

TakeProbe == ParcookSemop("takeProbe", WriteLock(SEM_PROBE))

TakeLine == ParcookSemop("takeLine", ReadLock(LineSem(pk.i)))

CopyMsw ==
  /\ pk.pc = "copyMsw" /\ pk' = [pk EXCEPT !.pc = "copyLsw"]
  /\ Probe' = [Probe EXCEPT ![pk.i].msw = ValTab[pk.i].msw]
  /\ UNCHANGED <<sem, ValTab, Avg, dm, rdr, sigchld, history, deaths, exits>>

CopyLsw ==
  /\ pk.pc = "copyLsw" /\ pk' = [pk EXCEPT !.pc = "dropLine"]
  /\ Probe' = [Probe EXCEPT ![pk.i].lsw = ValTab[pk.i].lsw]
  /\ UNCHANGED <<sem, ValTab, Avg, dm, rdr, sigchld, history, deaths, exits>>

\* mutant: the operations that give a write lock back instead of a read lock
DropLineWrite == ParcookSemop("dropLine", WriteUnlock(LineSem(pk.i)))

DropLine == ParcookSemop("dropLine", ReadUnlock(LineSem(pk.i)))

(* shmGetValue: a formula reads an average under the write lock.           *)
TakeRef == ParcookSemop("takeRef", WriteLock(Refs[pk.i]))

DropRef == ParcookSemop("dropRef", WriteUnlock(Refs[pk.i]))

DropProbe == ParcookSemop("dropProbe", WriteUnlock(SEM_PROBE))

\* mutant: the lock of Probe is taken instead of that of the average
TakeAvgProbe == ParcookSemop("takeAvg", WriteLock(SEM_PROBE))

TakeAvg == ParcookSemop("takeAvg", WriteLock(pk.seg))

AvgMsw ==
  /\ pk.pc = "avgMsw" /\ pk' = [pk EXCEPT !.pc = "avgLsw"]
  /\ Avg' = [Avg EXCEPT ![pk.seg].msw = pk.cycle]
  /\ UNCHANGED <<sem, ValTab, Probe, dm, rdr, sigchld, history, deaths, exits>>

AvgLsw ==
  /\ pk.pc = "avgLsw" /\ pk' = [pk EXCEPT !.pc = "dropAvg"]
  /\ Avg' = [Avg EXCEPT ![pk.seg].lsw = pk.cycle]
  /\ UNCHANGED <<sem, ValTab, Probe, dm, rdr, sigchld, history, deaths, exits>>

\* mutant: the operations that give a read lock back instead of a write lock
DropAvgRead == ParcookSemop("dropAvg", ReadUnlock(pk.seg))

DropAvg == ParcookSemop("dropAvg", WriteUnlock(pk.seg))

(* The segment the semop() at the program counter is about, and whether    *)
(* that semop() has to wait.                                               *)
Addressed ==
  CASE pk.pc \in {"takeProbe", "dropProbe"} -> SEM_PROBE
    [] pk.pc \in {"takeLine", "dropLine"}   -> LineSem(pk.i)
    [] pk.pc \in {"takeRef", "dropRef"}     -> Refs[pk.i]
    [] OTHER                                -> pk.seg

TakeWaits == \/ pk.pc \in {"takeProbe", "takeRef", "takeAvg"} /\ sem[Addressed] > 0
             \/ pk.pc = "takeLine" /\ sem[Addressed + 1] > 0

DropWaits == \/ pk.pc \in {"dropProbe", "dropRef", "dropAvg"} /\ sem[Addressed + 1] = 0
             \/ pk.pc = "dropLine" /\ sem[Addressed] = 0

(* The SIGCHLD handler.  It has no effect on a running MainLoop; a         *)
(* semop() that waits returns EINTR, and MainLoop goes on as if it had     *)
(* been done.                                                              *)
ChildDied ==
  /\ sigchld /\ sigchld' = FALSE
  /\ \/ UNCHANGED <<pk, missed, eintr>>
     \/ /\ TakeWaits /\ pk' \in Continue
        /\ missed' = missed \cup {Addressed} /\ eintr' = TRUE
     \/ /\ DropWaits /\ pk' \in Continue
        /\ missed' = missed \ {Addressed} /\ UNCHANGED eintr
  /\ UNCHANGED <<sem, memory, dm, rdr, torn, deaths, exits>>

-----------------------------------------------------------------------------
(* A reader: TParcook::GetValues, or ipcRdGetInto .. ipcRdGetOut.          *)

SourceOf(r) == IF rdr[r].seg = SEM_PROBE THEN Probe[rdr[r].line] ELSE Avg[rdr[r].seg]

ReaderStart(r) ==
  /\ rdr[r].pc = "idle"
  /\ \E s \in Segments, l \in Lines :
       rdr' = [rdr EXCEPT ![r] = [pc |-> "take", seg |-> s, line |-> l, copied |-> <<>>]]
  /\ UNCHANGED <<sem, memory, dm, pk, sigchld, history, deaths, exits>>

ReaderTake(r) ==
  /\ rdr[r].pc = "take" /\ rdr' = [rdr EXCEPT ![r] = [@ EXCEPT !.pc = "msw"]]
  /\ ReadLock(rdr[r].seg)
  /\ UNCHANGED <<memory, dm, pk, sigchld, history, deaths, exits>>

ReaderCopyMsw(r) ==
  /\ rdr[r].pc = "msw"
  /\ rdr' = [rdr EXCEPT ![r] = [@ EXCEPT !.pc = "lsw", !.copied = <<SourceOf(r).msw>>]]
  /\ UNCHANGED <<sem, memory, dm, pk, sigchld, history, deaths, exits>>

ReaderCopyLsw(r) ==
  /\ rdr[r].pc = "lsw"
  /\ rdr' = [rdr EXCEPT ![r] = [@ EXCEPT !.pc = "drop",
                                         !.copied = <<rdr[r].copied[1], SourceOf(r).lsw>>]]
  /\ UNCHANGED <<sem, memory, dm, pk, sigchld, history, deaths, exits>>

ReaderDrop(r) ==
  /\ rdr[r].pc = "drop" /\ rdr' = [rdr EXCEPT ![r] = IdleReader]
  /\ ReadUnlock(rdr[r].seg)
  /\ UNCHANGED <<memory, dm, pk, sigchld, history, deaths, exits>>

ReaderInside(r) == rdr[r].pc \in {"msw", "lsw", "drop"}

(* The reader is terminated (GetValues itself terminates meaner3 when its  *)
(* semop() fails) and started again; SEM_UNDO gives the lock back.         *)
ReaderExit(r) ==
  /\ rdr[r].pc # "idle" /\ exits < MaxExits
  /\ rdr' = [rdr EXCEPT ![r] = IdleReader]
  /\ sem' = IF ReaderInside(r) THEN [sem EXCEPT ![rdr[r].seg] = @ - 1] ELSE sem
  /\ exits' = exits + 1
  /\ UNCHANGED <<memory, dm, pk, sigchld, history, deaths>>

-----------------------------------------------------------------------------
DaemonStep(l) == \/ DaemonSample(l) \/ DaemonTake(l) \/ DaemonCopyMsw(l)
                 \/ DaemonCopyLsw(l) \/ DaemonDrop(l)

ParcookStep == \/ Wake \/ TakeProbe \/ TakeLine \/ CopyMsw \/ CopyLsw \/ DropLine
               \/ TakeRef \/ DropRef \/ DropProbe
               \/ TakeAvg \/ AvgMsw \/ AvgLsw \/ DropAvg

ReaderStep(r) == \/ ReaderStart(r) \/ ReaderTake(r) \/ ReaderCopyMsw(r)
                 \/ ReaderCopyLsw(r) \/ ReaderDrop(r)

Next == \/ \E l \in Lines : DaemonStep(l) \/ DaemonDie(l)
        \/ ParcookStep
        \/ ChildDied
        \/ \E r \in Readers : ReaderStep(r) \/ ReaderExit(r)

Spec == Init /\ [][Next]_vars

(* Linux completes a waiting semop() itself as soon as an update of the    *)
(* set makes it possible, so a lock that is free again and again is taken  *)
(* (strong fairness); every other step of a running process is taken (weak *)
(* fairness).  Nothing forces a daemon to die or a reader to exit.         *)
Fairness ==
  /\ \A l \in Lines : WF_vars(DaemonStep(l)) /\ SF_vars(DaemonTake(l))
  /\ WF_vars(ParcookStep) /\ WF_vars(ChildDied)
  /\ SF_vars(TakeProbe) /\ SF_vars(TakeLine) /\ SF_vars(TakeRef) /\ SF_vars(TakeAvg)
  /\ \A r \in Readers : WF_vars(ReaderStep(r)) /\ SF_vars(ReaderTake(r))

FairSpec == Spec /\ Fairness

-----------------------------------------------------------------------------
(* Where parcook is between taking and giving back the lock of a pair.     *)
InProbe == pk.pc \in {"takeLine", "copyMsw", "copyLsw", "dropLine",
                      "takeRef", "dropRef", "dropProbe"}
InLine(l) == pk.pc \in {"copyMsw", "copyLsw", "dropLine"} /\ pk.i = l
InAverage(s) == \/ pk.pc = "dropRef" /\ Refs[pk.i] = s
                \/ pk.pc \in {"avgMsw", "avgLsw", "dropAvg"} /\ pk.seg = s
ReadersOf(s) == {r \in Readers : ReaderInside(r) /\ rdr[r].seg = s}
InSegment(s) == IF s = SEM_PROBE THEN InProbe ELSE InAverage(s)

(* Mutual exclusion.  While parcook copies a line segment the daemon of    *)
(* the line is not writing it, and while parcook changes or reads one of   *)
(* its own segments no reader is copying it; the only exceptions are the   *)
(* locks MainLoop has gone past because SIGCHLD interrupted the semop().   *)
Exclusion ==
  /\ \A l \in Lines : DaemonInside(l) /\ InLine(l) => LineSem(l) \in missed
  /\ \A r \in Readers :
       ReaderInside(r) /\ InSegment(rdr[r].seg) => rdr[r].seg \in missed

(* End to end over both hops (daemon to Probe, Probe to reader): the two   *)
(* words of a combined parameter in a finished snapshot come from one      *)
(* device sample or one averaging cycle, unless parcook has lost a lock to *)
(* a signal or the daemon of that line died in the middle of its memcpy.   *)
ConsistentSnapshots ==
  ~eintr => \A r \in Readers :
              rdr[r].pc = "drop" => \/ rdr[r].copied[1] = rdr[r].copied[2]
                                    \/ rdr[r].seg = SEM_PROBE /\ rdr[r].line \in torn

(* parcook waits in a semop() that gives a lock back only if it had not    *)
(* taken the lock: without a lost lock MainLoop cannot hang on an unlock.  *)
UnlockNeverWaits == DropWaits => Addressed \in missed

(* Deaths, terminations (SEM_UNDO) and interrupted calls leak nothing: at  *)
(* every moment the first semaphore of a pair is the number of processes   *)
(* that read the segment and the second that of the processes that write   *)
(* it, parcook counting only where it really took the lock; the semaphores *)
(* of the segments that are not in use stay zero.                          *)
SemaphoresCount ==
  /\ \A s \in Segments :
       /\ sem[s] = Cardinality(ReadersOf(s))
       /\ sem[s + 1] = IF InSegment(s) /\ s \notin missed THEN 1 ELSE 0
  /\ \A l \in Lines :
       /\ sem[LineSem(l)] = IF InLine(l) /\ LineSem(l) \notin missed THEN 1 ELSE 0
       /\ sem[LineSem(l) + 1] = IF DaemonInside(l) THEN 1 ELSE 0
  /\ \A n \in SEM_HOUR + 2 .. SEM_LINE - 1 : sem[n] = 0

(* A line daemon is never kept waiting for good on the semaphore of its    *)
(* line, whatever happens to parcook's other locks.                        *)
DaemonGetsThrough == \A l \in Lines : dm[l].pc = "take" ~> dm[l].pc # "take"

(* If every segment is free of readers again and again, parcook finishes   *)
(* cycle after cycle, unless it has lost a lock to a signal.               *)
CyclesComplete ==
  (\A s \in Segments : []<>(sem[s] = 0)) => []<>(pk.pc = "sleep" \/ eintr)

(* Under the same condition every reader gets its lock.                    *)
ReaderGetsThrough ==
  (\A s \in Segments : []<>(sem[s] = 0))
    => \A r \in Readers : rdr[r].pc = "take" ~> (rdr[r].pc # "take" \/ eintr)
=============================================================================
