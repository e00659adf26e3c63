------------------------------- MODULE Meaner -------------------------------
(***************************************************************************)
(* meaner3 saving the base: the main loop of meaner3.cc, the two stretches *)
(* in which it postpones termination (TParcook::GetValues and              *)
(* TMeaner::WriteParams), and TSaveParam::Write, which appends to the file *)
(* of a parameter and month.  One step per system call that changes a file *)
(* or can fail, so that another program reading the base can run between   *)
(* any two of them.  The process may die at any step and be started again. *)
(*                                                                         *)
(* The files are numbered in the order they are written: the parameters of *)
(* the configuration, then the status parameters of meaner3.  The first of *)
(* these, "program uruchomiony", never is no data; readers of the base     *)
(* take the length of its newest file for the date up to which the base is *)
(* complete (szb_definable_meaner_last).  It is called the stamp here.     *)
(***************************************************************************)
EXTENDS Integers

CONSTANTS
  NParams,    \* parameters of the configuration that are saved
  NStatus,    \* status parameters written at the time of the cycle
  LastMonth,  \* months are 0 .. LastMonth
  MaxProbes,  \* probes in a month, szb_probecnt()
  Values,     \* data
  NoData      \* SZB_FILE_NODATA

ASSUME SizeAssumption ==
  /\ NParams \in Nat
  /\ NStatus \in Nat \ {0}
  /\ LastMonth \in Nat
  /\ MaxProbes \in Nat \ {0}

ASSUME ValuesAssumption == NoData \notin Values

Files  == 1 .. NParams + NStatus
Params == 1 .. NParams
Stamp  == NParams + 1
Months == 0 .. LastMonth
Slots  == 0 .. MaxProbes - 1
Words  == Values \cup {NoData}

\* A time, to the period of the base: <<month, index of the probe>>.
Times == Months \X Slots
\* Before any time: last_cycle = 0, and the date -1.
Never == <<-1, 0>>

Before(s, t) == s[1] < t[1] \/ (s[1] = t[1] /\ s[2] < t[2])

VARIABLES
  pc,          \* where meaner3 is, see Running
  last,        \* last_cycle
  now,         \* t of WriteParams
  sample,      \* the values copied from parcook and the status parameters
  cur,         \* the file that is written
  fd,          \* fd[q]: the month whose file q holds open, or -1
  should_exit, \* g_should_exit
  size,        \* size[q][m]: words in the file, -1 when there is none
  word,        \* word[q][m][i]: the words
  failed,      \* the files whose Write() failed in this cycle (err)
  again        \* history: a cycle was written at a time that was not later
               \* than that of an earlier one

meaner == <<pc, last, now, sample, cur, fd, should_exit, failed, again>>
files  == <<size, word>>
mvars  == <<meaner, files>>

Running == {"sleep", "copy", "copied", "file"}

\* g_signals_blocked is set in GetValues and in WriteParams.
Blocked == pc \in {"copy", "file"}

Month == now[1]
Index == now[2]

MInit ==
  /\ pc = "sleep" /\ last = Never /\ now = Never /\ cur = 1
  /\ sample = [q \in Files |-> NoData]
  /\ fd = [q \in Files |-> -1]
  /\ should_exit = FALSE
  /\ size = [q \in Files |-> [m \in Months |-> -1]]
  /\ word = [q \in Files |-> [m \in Months |-> [i \in Slots |-> NoData]]]
  /\ failed = {} /\ again = FALSE

(***************************************************************************)
(* The main loop                                                           *)
(***************************************************************************)

\* WaitForCycle returns in a cycle later than the last one this process
\* has seen (in any other the loop goes round) and ReadParams begins.
StartCycle ==
  /\ pc = "sleep"
  /\ \E t \in Times : Before(last, t) /\ last' = t
  /\ pc' = "copy"
  /\ UNCHANGED <<now, sample, cur, fd, should_exit, failed, again, files>>

\* GetValues has copied the values.  A termination that was postponed is
\* carried out by g_TerminateHandler(0), which deletes the objects of the
\* program and raises "signal 0".  That does nothing, and the program goes
\* on without its objects.
CopyDone ==
  /\ pc = "copy"
  /\ \E s \in [Files -> Words] : s[Stamp] \in Values /\ sample' = s
  /\ pc' = IF should_exit THEN "gone" ELSE "copied"
  /\ UNCHANGED <<last, now, cur, fd, should_exit, failed, again, files>>

\* A semaphore or the segment of parcook is gone: g_TerminateHandler(0).
CopyFails ==
  /\ pc = "copy"
  /\ pc' = "gone"
  /\ UNCHANGED <<last, now, sample, cur, fd, should_exit, failed, again, files>>

\* WriteParams takes the time again.  It can be later than that of the main
\* loop (GetValues had to wait) or earlier (the clock was set back).
BeginWrite ==
  /\ pc = "copied"
  /\ \E t \in Times : now' = t /\ again' = (again \/ ~Before(now, t))
  /\ pc' = "file" /\ cur' = 1 /\ failed' = {}
  /\ UNCHANGED <<last, sample, fd, should_exit, files>>

\* Mutant: one file too many.
NextFileRunsOver ==
  /\ cur' = IF cur =< NParams + NStatus THEN cur + 1 ELSE 1
  /\ pc' = IF cur =< NParams + NStatus THEN "file"
           ELSE IF should_exit THEN "gone" ELSE "sleep"

\* The next file, or the end of WriteParams (and of the cycle).
NextFile ==
  /\ cur' = IF cur < NParams + NStatus THEN cur + 1 ELSE 1
  /\ pc' = IF cur < NParams + NStatus THEN "file"
           ELSE IF should_exit THEN "gone" ELSE "sleep"

(***************************************************************************)
(* TSaveParam::Write                                                       *)
(***************************************************************************)

\* Empty values are not written.
SkipNoData ==
  /\ pc = "file" /\ sample[cur] = NoData
  /\ NextFile
  /\ UNCHANGED <<last, now, sample, fd, should_exit, failed, again, files>>

\* Mutant: an old file is emptied.
OpenFileTruncates ==
  /\ pc = "file" /\ sample[cur] # NoData /\ fd[cur] # Month
  /\ fd' = [fd EXCEPT ![cur] = Month]
  /\ size' = [size EXCEPT ![cur][Month] = 0]
  /\ UNCHANGED <<pc, last, now, sample, cur, should_exit, failed, again, word>>

\* The file of this month is opened, and created when there is none.
OpenFile ==
  /\ pc = "file" /\ sample[cur] # NoData /\ fd[cur] # Month
  /\ fd' = [fd EXCEPT ![cur] = Month]
  /\ size' = IF size[cur][Month] = -1
             THEN [size EXCEPT ![cur][Month] = 0] ELSE size
  /\ UNCHANGED <<pc, last, now, sample, cur, should_exit, failed, again, word>>

\* Write() returns 1 and closes the file.
WriteFails ==
  /\ fd' = [fd EXCEPT ![cur] = -1]
  /\ failed' = failed \cup {cur}
  /\ NextFile
  /\ UNCHANGED <<last, now, sample, should_exit, again, files>>

\* The directory or the file cannot be made, or a word cannot be written.
SystemError ==
  /\ pc = "file" /\ sample[cur] # NoData
  /\ fd[cur] = Month => size[cur][Month] =< Index
  /\ WriteFails

\* The file reaches beyond the index and is not overwritten.
Refuse ==
  /\ pc = "file" /\ sample[cur] # NoData
  /\ fd[cur] = Month /\ size[cur][Month] > Index
  /\ WriteFails

\* Mutant: the position is that of the last word.
StoreOneBefore(v) ==
  /\ size' = [size EXCEPT ![cur][Month] = @ + 1]
  /\ word' = [word EXCEPT ![cur][Month][size[cur][Month] - 1] = v]

\* One word at the end of the file.
Store(v) ==
  /\ size' = [size EXCEPT ![cur][Month] = @ + 1]
  /\ word' = [word EXCEPT ![cur][Month][size[cur][Month]] = v]

\* An empty place is filled with no data.
Pad ==
  /\ pc = "file" /\ sample[cur] # NoData
  /\ fd[cur] = Month /\ size[cur][Month] < Index
  /\ Store(NoData)
  /\ UNCHANGED meaner

\* Mutant: without padding.
PutUnpadded ==
  /\ pc = "file" /\ sample[cur] # NoData
  /\ fd[cur] = Month /\ size[cur][Month] =< Index
  /\ Store(sample[cur])
  /\ NextFile
  /\ UNCHANGED <<last, now, sample, fd, should_exit, failed, again>>

\* The datum is written at its index.
Put ==
  /\ pc = "file" /\ sample[cur] # NoData
  /\ fd[cur] = Month /\ size[cur][Month] = Index
  /\ Store(sample[cur])
  /\ NextFile
  /\ UNCHANGED <<last, now, sample, fd, should_exit, failed, again>>

(***************************************************************************)
(* Termination, crash and restart                                          *)
(***************************************************************************)

Stopped ==
  /\ pc' = "down" /\ last' = Never /\ cur' = 1 /\ failed' = {}
  /\ fd' = [q \in Files |-> -1]
  /\ should_exit' = FALSE
  /\ UNCHANGED <<now, sample, again, files>>

\* g_TerminateHandler(SIGTERM).
SigTerm ==
  \/ /\ pc \in Running /\ Blocked /\ ~should_exit
     /\ should_exit' = TRUE
     /\ UNCHANGED <<pc, last, now, sample, cur, fd, failed, again, files>>
  \/ pc \in (Running \cup {"gone"}) /\ ~Blocked /\ Stopped

\* The process dies: SIGKILL, power, or a crash of what runs on after its
\* objects were deleted.
Crash ==
  /\ pc \in Running \cup {"gone"}
  /\ Stopped

Restart ==
  /\ pc = "down"
  /\ pc' = "sleep"
  /\ UNCHANGED <<last, now, sample, cur, fd, should_exit, failed, again, files>>

Work ==
  \/ StartCycle \/ CopyDone \/ CopyFails \/ BeginWrite
  \/ SkipNoData \/ OpenFile \/ SystemError \/ Refuse \/ Pad \/ Put

MNext == Work \/ SigTerm \/ Crash \/ Restart

MSpec == MInit /\ [][MNext]_mvars

\* meaner3 goes on as long as it runs; nobody needs to signal it, kill it
\* or start it again.
MFairSpec == MSpec /\ WF_mvars(Work)

(***************************************************************************)
(* Properties                                                              *)
(***************************************************************************)

\* Type correctness.
MTypeOK ==
  /\ pc \in Running \cup {"gone", "down"}
  /\ last \in Times \cup {Never} /\ now \in Times \cup {Never}
  /\ sample \in [Files -> Words]
  /\ cur \in Files
  /\ fd \in [Files -> Months \cup {-1}]
  /\ should_exit \in BOOLEAN /\ again \in BOOLEAN
  /\ size \in [Files -> [Months -> -1 .. MaxProbes]]
  /\ word \in [Files -> [Months -> [Slots -> Words]]]
  /\ failed \in SUBSET Files

\* The abstract specification of the base: a cycle is saved by WriteParams.
Saving == pc = "file"
Saved  == IF pc = "file" THEN sample ELSE [q \in Files |-> NoData]

Base == INSTANCE Archive WITH saving <- Saving, time <- now, sample <- Saved

\* WriteParams and TSaveParam::Write() implement the base: whatever fails,
\* whenever the process dies and wherever the clock is moved to, a word of a
\* file is written once, in its turn, and it is no data or the value sampled
\* in the cycle its place stands for; and unless a cycle is written at the
\* time of an earlier one, values are in place before the stamp covers them.
ImplementsArchive == Base!ASpec

\* In WriteParams the files before the current one hold the value of this
\* cycle at its index, unless it was no data or Write() returned an error.
WrittenInPlace ==
  pc = "file" =>
    \A q \in Files :
      (q < cur /\ sample[q] # NoData /\ q \notin failed) =>
         /\ size[q][Month] = Index + 1
         /\ word[q][Month][Index] = sample[q]

\* The date readers take from the stamp is not earlier than t.
Covered(t) ==
  \E m \in Months :
     /\ size[Stamp][m] # -1
     /\ t[1] < m \/ (t[1] = m /\ t[2] < size[Stamp][m])

\* The stamp is a commit record: once it covers a time, what the files of
\* the parameters say of that time is final.  WriteParams saves it after
\* them, so this holds with failed writes and crashes in between, as long
\* as no cycle is written at the time of an earlier one.
StampCommits ==
  [][ ~again => \A q \in Params, t \in Times :
        Covered(t) => word'[q][t[1]][t[2]] = word[q][t[1]][t[2]] ]_mvars

\* A termination that was postponed because signals were blocked is carried
\* out when they are unblocked, as WriteParams intends: "unblock terminate
\* signal raised by g_TerminateHandler".
TerminationCarriedOut == should_exit ~> pc = "down"

=============================================================================
