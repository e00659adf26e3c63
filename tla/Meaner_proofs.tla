--------------------------- MODULE Meaner_proofs ---------------------------
(***************************************************************************)
(* Proofs about Meaner, for any number of parameters, months and probes:   *)
(* the files implement the archive, and the stamp is a commit record.      *)
(***************************************************************************)
EXTENDS Meaner, TLAPS

\* What the types leave open while a cycle is saved.
CycleOK ==
  /\ pc = "file" => now \in Times
  /\ pc \in {"copied", "file"} => sample[Stamp] \in Values

\* A file that is open is there.
OpenOK == \A q \in Files : fd[q] # -1 => size[q][fd[q]] # -1

\* Beyond the end of a file there is nothing.
BlankBeyond ==
  \A q \in Files, m \in Months, i \in Slots : i >= size[q][m] => word[q][m][i] = NoData

\* The stamp is never ahead of the time of the last cycle, and behind it
\* while the parameters are saved.
Ahead == IF pc = "file" /\ cur =< NParams THEN 0 ELSE 1
StampBehind ==
  ~again => \A m \in Months : size[Stamp][m] # -1 =>
              /\ m =< now[1]
              /\ m = now[1] => size[Stamp][m] =< now[2] + Ahead

MInv == MTypeOK /\ CycleOK /\ OpenOK /\ BlankBeyond /\ StampBehind

-----------------------------------------------------------------------------
(* The files, and the parts of a time. *)
LEMMA FileNumbers ==
  /\ Stamp \in Files /\ Params \subseteq Files /\ Stamp \notin Params
  /\ 1 \in Files /\ NParams \in Nat /\ NStatus \in Nat \ {0}
  /\ Files = 1 .. NParams + NStatus /\ Params = 1 .. NParams /\ Stamp = NParams + 1
BY SizeAssumption DEF Files, Params, Stamp

(* A time is a month and a period of ten minutes.                          *)
LEMMA TimeParts ==
  /\ \A t \in Times : t[1] \in Months /\ t[2] \in Slots /\ t = <<t[1], t[2]>>
  /\ Never[1] = -1 /\ Never[2] = 0
  /\ Months \subseteq Int /\ Slots \subseteq Int
BY SizeAssumption DEF Times, Months, Slots, Never

(* The cycle that is being saved falls into a slot of a month.             *)
LEMMA NowParts ==
  ASSUME MInv
  PROVE  /\ now[1] \in Int /\ now[2] \in Int
         /\ pc = "file" => Month \in Months /\ Index \in Slots
<1>1. now \in Times \/ now = Never
  BY DEF MInv, MTypeOK
<1>2. pc = "file" => now \in Times
  BY DEF MInv, CycleOK
<1> QED BY <1>1, <1>2, TimeParts DEF Month, Index

(* A file has at most as many slots as the month has periods.              *)
LEMMA SizeType ==
  ASSUME MInv, NEW q \in Files, NEW m \in Months
  PROVE  size[q][m] \in -1 .. MaxProbes /\ size[q][m] \in Int
<1>1. size[q][m] \in -1 .. MaxProbes
  BY DEF MInv, MTypeOK
<1> QED BY <1>1, SizeAssumption

(* Initially there are no files. *)
LEMMA InitInv == MInit => MInv
<1> SUFFICES ASSUME MInit PROVE MInv
  OBVIOUS
<1>1. MTypeOK
  <2>1. size \in [Files -> [Months -> -1 .. MaxProbes]]
    BY SizeAssumption DEF MInit
  <2>2. word \in [Files -> [Months -> [Slots -> Words]]] /\ sample \in [Files -> Words]
    BY DEF MInit, Words
  <2>3. fd \in [Files -> Months \cup {-1}] /\ cur \in Files /\ failed \in SUBSET Files
    BY FileNumbers DEF MInit
  <2>4. /\ pc \in Running \cup {"gone", "down"} /\ last \in Times \cup {Never}
        /\ now \in Times \cup {Never} /\ should_exit \in BOOLEAN /\ again \in BOOLEAN
    BY ZenonT(30) DEF MInit, Running
  <2> QED BY <2>1, <2>2, <2>3, <2>4 DEF MTypeOK
<1>2. CycleOK /\ OpenOK /\ BlankBeyond
  BY DEF MInit, CycleOK, OpenOK, BlankBeyond
<1>3. StampBehind
  BY FileNumbers DEF MInit, StampBehind
<1> QED BY <1>1, <1>2, <1>3 DEF MInv

-----------------------------------------------------------------------------
(* A step that leaves the files, the time and the history alone. *)
LEMMA QuietStep ==
  ASSUME MInv, UNCHANGED <<size, word, now, again>>,
         pc' \in Running \cup {"gone", "down"}, last' \in Times \cup {Never},
         sample' \in [Files -> Words], cur' \in Files, failed' \in SUBSET Files,
         should_exit' \in BOOLEAN,
         fd' \in [Files -> Months \cup {-1}], \A q \in Files : fd'[q] \in {fd[q], -1},
         pc' = "file" => pc = "file" /\ sample' = sample /\ (cur' =< NParams => cur =< NParams),
         pc' = "copied" => sample'[Stamp] \in Values
  PROVE  MInv'
<1>1. MTypeOK'
  BY DEF MInv, MTypeOK
<1>2. CycleOK'
  BY DEF MInv, CycleOK
<1>3. OpenOK'
  BY DEF MInv, OpenOK
<1>4. BlankBeyond'
  BY DEF MInv, BlankBeyond
<1>5. StampBehind'
  <2> SUFFICES ASSUME ~again, NEW m \in Months, size[Stamp][m] # -1
               PROVE  /\ m =< now[1]
                      /\ m = now[1] => size[Stamp][m] =< now[2] + Ahead'
    BY DEF StampBehind
  <2>1. Ahead \in {0, 1} /\ Ahead' \in {0, 1} /\ Ahead =< Ahead'
    BY FileNumbers DEF Ahead, MInv, MTypeOK
  <2>2. m =< now[1] /\ (m = now[1] => size[Stamp][m] =< now[2] + Ahead)
    BY DEF MInv, StampBehind
  <2>3. size[Stamp][m] \in Int /\ now[2] \in Int
    BY NowParts, FileNumbers, SizeType
  <2> QED BY <2>1, <2>2, <2>3
<1> QED BY <1>1, <1>2, <1>3, <1>4, <1>5 DEF MInv

(* NextFile goes to a file of the list. *)
LEMMA NextFileStep ==
  ASSUME MInv, NextFile
  PROVE  /\ cur' \in Files /\ pc' \in Running \cup {"gone", "down"} /\ pc' # "copied"
         /\ pc' = "file" => cur' = cur + 1
BY FileNumbers DEF NextFile, MInv, MTypeOK, Running

(* WriteParams begins. *)
LEMMA BeginStep ==
  ASSUME MInv, BeginWrite
  PROVE  MInv'
<1>1. PICK t \in Times : now' = t /\ again' = (again \/ ~Before(now, t))
  BY DEF BeginWrite
<1>2. /\ pc' = "file" /\ cur' = 1 /\ failed' = {} /\ pc = "copied"
      /\ UNCHANGED <<last, sample, fd, should_exit, size, word>>
  BY DEF BeginWrite, files
<1>3. MTypeOK'
  BY <1>1, <1>2, FileNumbers DEF MInv, MTypeOK, Running
<1>4. CycleOK' /\ OpenOK' /\ BlankBeyond'
  BY <1>1, <1>2 DEF MInv, CycleOK, OpenOK, BlankBeyond
<1>5. StampBehind'
  <2> SUFFICES ASSUME ~again', NEW m \in Months, size[Stamp][m] # -1
               PROVE  m =< t[1] /\ (m = t[1] => size[Stamp][m] =< t[2] + Ahead')
    BY <1>1, <1>2 DEF StampBehind
  <2>1. ~again /\ Before(now, t)
    BY ZenonT(30), <1>1 DEF MInv, MTypeOK
  <2>2. m =< now[1] /\ (m = now[1] => size[Stamp][m] =< now[2] + 1)
    BY <2>1, <1>2 DEF MInv, StampBehind, Ahead
  <2>3. /\ size[Stamp][m] \in Int /\ now[1] \in Int /\ now[2] \in Int
        /\ t[1] \in Int /\ t[2] \in Int /\ m \in Int
    BY NowParts, TimeParts, FileNumbers, SizeType
  <2>4. Ahead' \in {0, 1}
    BY DEF Ahead
  <2>5. now[1] < t[1] \/ (now[1] = t[1] /\ now[2] < t[2])
    BY <2>1 DEF Before
  <2> QED BY <2>2, <2>3, <2>4, <2>5
<1> QED BY <1>3, <1>4, <1>5 DEF MInv

(* A file is opened or created. *)
LEMMA OpenStep ==
  ASSUME MInv, OpenFile
  PROVE  MInv'
<1>1. /\ pc = "file" /\ fd' = [fd EXCEPT ![cur] = Month]
      /\ size' = IF size[cur][Month] = -1 THEN [size EXCEPT ![cur][Month] = 0] ELSE size
      /\ UNCHANGED <<pc, last, now, sample, cur, should_exit, failed, again, word>>
  BY DEF OpenFile
<1>2. Month \in Months /\ Index \in Slots /\ cur \in Files /\ Month # -1
  BY <1>1, NowParts, SizeAssumption DEF MInv, MTypeOK, Months
<1>3. size' \in [Files -> [Months -> -1 .. MaxProbes]]
  BY <1>1, <1>2, SizeAssumption DEF MInv, MTypeOK
<1>4. /\ size'[cur][Month] # -1
      /\ \A q \in Files, m \in Months :
            /\ size[q][m] # -1 => size'[q][m] = size[q][m]
            /\ size'[q][m] # size[q][m] =>
                 q = cur /\ m = Month /\ size[q][m] = -1 /\ size'[q][m] = 0
  BY <1>1, <1>2 DEF MInv, MTypeOK
<1>5. MTypeOK'
  BY <1>1, <1>2, <1>3 DEF MInv, MTypeOK
<1>6. CycleOK'
  BY <1>1 DEF MInv, CycleOK
<1>7. OpenOK'
  BY <1>1, <1>2, <1>4 DEF MInv, OpenOK, MTypeOK
<1>8. BlankBeyond'
  <2> SUFFICES ASSUME NEW q \in Files, NEW m \in Months, NEW i \in Slots, i >= size'[q][m]
               PROVE  word[q][m][i] = NoData
    BY <1>1 DEF BlankBeyond
  <2>1. i >= size[q][m]
    BY <1>4, SizeAssumption DEF Slots
  <2> QED BY <2>1 DEF MInv, BlankBeyond
<1>9. StampBehind'
  <2> SUFFICES ASSUME ~again, NEW m \in Months, size'[Stamp][m] # -1
               PROVE  m =< now[1] /\ (m = now[1] => size'[Stamp][m] =< now[2] + Ahead)
    BY <1>1 DEF StampBehind, Ahead
  <2>1. CASE size'[Stamp][m] = size[Stamp][m]
    BY <2>1 DEF MInv, StampBehind
  <2>2. CASE m = Month /\ size'[Stamp][m] = 0
    BY <2>2, <1>2, SizeAssumption DEF Month, Index, Months, Slots, Ahead
  <2> QED BY <2>1, <2>2, <1>4, FileNumbers
<1> QED BY <1>5, <1>6, <1>7, <1>8, <1>9 DEF MInv

(* A word is appended to the current file. *)
LEMMA StoreStep ==
  ASSUME MInv, pc = "file", fd[cur] = Month, size[cur][Month] =< Index,
         NEW v \in Words, Store(v)
  PROVE  /\ size[cur][Month] \in Slots
         /\ size' \in [Files -> [Months -> -1 .. MaxProbes]]
         /\ word' \in [Files -> [Months -> [Slots -> Words]]]
         /\ size'[cur][Month] = size[cur][Month] + 1
         /\ word'[cur][Month][size[cur][Month]] = v
         /\ \A q \in Files, m \in Months :
               <<q, m>> # <<cur, Month>> => size'[q][m] = size[q][m] /\ word'[q][m] = word[q][m]
         /\ \A i \in Slots : i # size[cur][Month] => word'[cur][Month][i] = word[cur][Month][i]
<1>1. Month \in Months /\ Index \in Slots /\ cur \in Files /\ Month # -1
  BY NowParts, SizeAssumption DEF MInv, MTypeOK, Months
<1>2. size[cur][Month] # -1
  BY <1>1 DEF MInv, OpenOK
<1>3. size[cur][Month] \in Slots
  BY <1>1, <1>2, SizeType, SizeAssumption DEF Slots
<1> DEFINE n == size[cur][Month]
<1>4. n + 1 \in -1 .. MaxProbes
  BY <1>3, SizeAssumption DEF Slots
<1>5. /\ size' = [size EXCEPT ![cur][Month] = n + 1]
      /\ word' = [word EXCEPT ![cur][Month][n] = v]
  BY DEF Store
<1>6. size \in [Files -> [Months -> -1 .. MaxProbes]] /\ word \in [Files -> [Months -> [Slots -> Words]]]
  BY DEF MInv, MTypeOK
<1> HIDE DEF n
<1>7. /\ size' \in [Files -> [Months -> -1 .. MaxProbes]] /\ size'[cur][Month] = n + 1
      /\ \A q \in Files, m \in Months : <<q, m>> # <<cur, Month>> => size'[q][m] = size[q][m]
  BY <1>1, <1>4, <1>5, <1>6
<1>8. /\ word' \in [Files -> [Months -> [Slots -> Words]]] /\ word'[cur][Month][n] = v
      /\ \A q \in Files, m \in Months : <<q, m>> # <<cur, Month>> => word'[q][m] = word[q][m]
      /\ \A i \in Slots : i # n => word'[cur][Month][i] = word[cur][Month][i]
  BY <1>1, <1>3, <1>5, <1>6 DEF n
<1> QED BY <1>3, <1>7, <1>8 DEF n

(* Pad and Put keep the invariant. *)
LEMMA FillStep ==
  ASSUME MInv, pc = "file", fd[cur] = Month, size[cur][Month] =< Index,
         NEW v \in Words, Store(v),
         UNCHANGED <<last, now, sample, fd, should_exit, failed, again>>,
         pc' \in Running \cup {"gone", "down"}, pc' # "copied", cur' \in Files,
         pc' = "file" /\ cur' =< NParams => cur =< NParams
  PROVE  MInv'
<1>1. Month \in Months /\ Index \in Slots /\ cur \in Files
  BY NowParts DEF MInv, MTypeOK
<1>2. MTypeOK'
  BY StoreStep DEF MInv, MTypeOK
<1>3. CycleOK'
  BY DEF MInv, CycleOK
<1>4. OpenOK'
  <2> SUFFICES ASSUME NEW q \in Files, fd[q] # -1 PROVE size'[q][fd[q]] # -1
    BY DEF OpenOK
  <2>1. fd[q] \in Months /\ size[q][fd[q]] # -1
    BY DEF MInv, OpenOK, MTypeOK
  <2>2. CASE <<q, fd[q]>> = <<cur, Month>>
    BY <2>2, StoreStep, SizeAssumption DEF Slots
  <2> QED BY <2>1, <2>2, StoreStep
<1>5. BlankBeyond'
  <2> SUFFICES ASSUME NEW q \in Files, NEW m \in Months, NEW i \in Slots, i >= size'[q][m]
               PROVE  word'[q][m][i] = NoData
    BY DEF BlankBeyond
  <2>1. CASE <<q, m>> = <<cur, Month>>
    <3>1. i > size[cur][Month]
      BY <2>1, StoreStep, SizeAssumption DEF Slots
    <3>2. word[cur][Month][i] = NoData
      BY <3>1, <1>1, SizeType, SizeAssumption DEF MInv, BlankBeyond, Slots
    <3> QED BY SMTT(30), <2>1, <3>1, <3>2, StoreStep, SizeAssumption DEF Slots
  <2>2. CASE <<q, m>> # <<cur, Month>>
    <3>1. size'[q][m] = size[q][m] /\ word'[q][m] = word[q][m]
      BY <2>2, StoreStep
    <3> QED BY <3>1 DEF MInv, BlankBeyond
  <2> QED BY <2>1, <2>2
<1>6. StampBehind'
  <2> SUFFICES ASSUME ~again, NEW m \in Months, size'[Stamp][m] # -1
               PROVE  m =< now[1] /\ (m = now[1] => size'[Stamp][m] =< now[2] + Ahead')
    BY DEF StampBehind
  <2>1. now[1] = Month /\ now[2] = Index /\ Month \in Int /\ Index \in Int
    BY <1>1, TimeParts DEF Month, Index
  <2>2. CASE <<Stamp, m>> = <<cur, Month>>
    <3>1. Ahead' = 1
      BY <2>2, FileNumbers DEF Ahead, MInv, MTypeOK
    <3>2. size'[Stamp][m] =< Index + 1
      BY SMTT(30), <2>2, <2>1, StoreStep, SizeAssumption DEF Slots
    <3> QED BY <2>1, <2>2, <3>1, <3>2
  <2>3. CASE <<Stamp, m>> # <<cur, Month>>
    <3>1. size'[Stamp][m] = size[Stamp][m] /\ size[Stamp][m] \in Int
      BY ZenonT(30), <2>3, StoreStep, FileNumbers, SizeType
    <3>2. m =< now[1] /\ (m = now[1] => size[Stamp][m] =< now[2] + Ahead)
      BY <3>1 DEF MInv, StampBehind
    <3>3. Ahead \in {0, 1} /\ Ahead' \in {0, 1} /\ Ahead =< Ahead'
      BY DEF Ahead
    <3> QED BY <2>1, <3>1, <3>2, <3>3
  <2> QED BY <2>2, <2>3
<1> QED BY <1>2, <1>3, <1>4, <1>5, <1>6 DEF MInv

(* The end of a Write(), with or without an error. *)
LEMMA WriteEnds ==
  ASSUME MInv, pc = "file", NextFile,
         UNCHANGED <<last, now, sample, should_exit, again, size, word>>,
         failed' \in SUBSET Files, fd' \in {fd, [fd EXCEPT ![cur] = -1]}
  PROVE  MInv'
<1>1. pc' = "file" /\ cur' =< NParams => cur =< NParams
  BY NextFileStep, FileNumbers DEF MInv, MTypeOK
<1>2. fd' \in [Files -> Months \cup {-1}] /\ \A q \in Files : fd'[q] \in {fd[q], -1}
  BY ZenonT(30) DEF MInv, MTypeOK
<1>3. last \in Times \cup {Never} /\ sample \in [Files -> Words] /\ should_exit \in BOOLEAN
  BY DEF MInv, MTypeOK
<1> QED BY <1>1, <1>2, <1>3, NextFileStep, QuietStep

(* The program stops. *)
LEMMA StopStep ==
  ASSUME MInv, Stopped
  PROVE  MInv'
<1>1. fd' \in [Files -> Months \cup {-1}] /\ \A q \in Files : fd'[q] \in {fd[q], -1}
  BY DEF Stopped
<1>2. /\ pc' = "down" /\ last' = Never /\ cur' = 1 /\ failed' = {} /\ should_exit' = FALSE
      /\ UNCHANGED <<now, sample, again, size, word>>
  BY DEF Stopped, files
<1>3. sample' \in [Files -> Words]
  BY <1>2 DEF MInv, MTypeOK
<1> QED BY ZenonT(30), <1>1, <1>2, <1>3, FileNumbers, QuietStep

(* Steps that change neither files nor descriptors. *)
LEMMA LoopStep ==
  ASSUME MInv, StartCycle \/ CopyDone \/ CopyFails \/ Restart
  PROVE  MInv'
<1>1. /\ UNCHANGED <<size, word, now, again, cur, fd, should_exit, failed>>
      /\ pc' \in {"copy", "copied", "gone", "sleep"} /\ last' \in Times \cup {Never}
      /\ sample' \in [Files -> Words]
      /\ pc' = "copied" => sample'[Stamp] \in Values
  <2>1. CASE StartCycle
    BY <2>1 DEF StartCycle, files, MInv, MTypeOK
  <2>2. CASE CopyDone
    BY <2>2 DEF CopyDone, files, MInv, MTypeOK
  <2>3. CASE CopyFails
    BY <2>3 DEF CopyFails, files, MInv, MTypeOK
  <2>4. CASE Restart
    BY <2>4 DEF Restart, files, MInv, MTypeOK
  <2> QED BY <2>1, <2>2, <2>3, <2>4
<1>2. fd \in [Files -> Months \cup {-1}] /\ cur \in Files /\ failed \in SUBSET Files
      /\ should_exit \in BOOLEAN
  BY DEF MInv, MTypeOK
<1>3. pc' \in Running \cup {"gone", "down"} /\ pc' # "file"
  BY <1>1 DEF Running
<1>4. /\ fd' \in [Files -> Months \cup {-1}] /\ \A q \in Files : fd'[q] \in {fd[q], -1}
      /\ cur' \in Files /\ failed' \in SUBSET Files /\ should_exit' \in BOOLEAN
  BY <1>1, <1>2
<1> QED BY <1>1, <1>3, <1>4, QuietStep

(* A signal that is only noted changes nothing of the base.                *)
LEMMA PostponeStep ==
  ASSUME MInv, should_exit' = TRUE,
         UNCHANGED <<pc, last, now, sample, cur, fd, failed, again, files>>
  PROVE  MInv'
<1>1. /\ pc \in Running \cup {"gone", "down"} /\ last \in Times \cup {Never}
      /\ sample \in [Files -> Words] /\ cur \in Files /\ failed \in SUBSET Files
      /\ fd \in [Files -> Months \cup {-1}]
      /\ pc = "copied" => sample[Stamp] \in Values
  BY DEF MInv, MTypeOK, CycleOK
<1> QED BY <1>1, QuietStep DEF files

(* What Pad and Put do. *)
LEMMA PadFacts ==
  ASSUME MInv, Pad
  PROVE  /\ pc = "file" /\ fd[cur] = Month /\ size[cur][Month] < Index
         /\ size[cur][Month] =< Index /\ Store(NoData) /\ NoData \in Words
         /\ UNCHANGED <<pc, last, now, sample, cur, fd, should_exit, failed, again>>
<1>1. /\ pc = "file" /\ fd[cur] = Month /\ size[cur][Month] < Index /\ Store(NoData)
      /\ UNCHANGED <<pc, last, now, sample, cur, fd, should_exit, failed, again>>
  BY DEF Pad, meaner
<1>2. size[cur][Month] \in Int /\ Index \in Int
  BY <1>1, NowParts, SizeType, TimeParts DEF MInv, MTypeOK
<1> QED BY <1>1, <1>2 DEF Words

(* What Put writes: the value of the cycle, at its place in the file.      *)
LEMMA PutFacts ==
  ASSUME MInv, Put
  PROVE  /\ pc = "file" /\ fd[cur] = Month /\ size[cur][Month] = Index
         /\ size[cur][Month] =< Index /\ Store(sample[cur]) /\ sample[cur] \in Words
         /\ NextFile /\ UNCHANGED <<last, now, sample, fd, should_exit, failed, again>>
<1>1. /\ pc = "file" /\ fd[cur] = Month /\ size[cur][Month] = Index /\ Store(sample[cur])
      /\ NextFile /\ UNCHANGED <<last, now, sample, fd, should_exit, failed, again>>
  BY DEF Put
<1>2. Index \in Int /\ sample[cur] \in Words
  BY <1>1, NowParts, TimeParts DEF MInv, MTypeOK
<1> QED BY <1>1, <1>2

(* Every step keeps the invariant. *)
LEMMA StepInv == MInv /\ [MNext]_mvars => MInv'
<1> SUFFICES ASSUME MInv, [MNext]_mvars PROVE MInv'
  OBVIOUS
<1>1. CASE StartCycle \/ CopyDone \/ CopyFails \/ Restart
  BY <1>1, LoopStep
<1>2. CASE BeginWrite
  BY <1>2, BeginStep
<1>3. CASE OpenFile
  BY <1>3, OpenStep
<1>4. CASE SkipNoData \/ SystemError \/ Refuse
  <2>1. /\ pc = "file" /\ NextFile
        /\ UNCHANGED <<last, now, sample, should_exit, again, size, word>>
        /\ fd' \in {fd, [fd EXCEPT ![cur] = -1]} /\ failed' \in {failed, failed \cup {cur}}
    BY SMTT(30), <1>4 DEF SkipNoData, SystemError, Refuse, WriteFails, files
  <2>2. failed' \in SUBSET Files
    BY SMTT(30), <2>1 DEF MInv, MTypeOK
  <2> QED BY <2>1, <2>2, WriteEnds
<1>5. CASE Pad
  <2>1. pc \in Running \cup {"gone", "down"} /\ cur \in Files
    BY SMTT(30) DEF MInv, MTypeOK
  <2> QED BY SMTT(30), <1>5, <2>1, PadFacts, FillStep
<1>6. CASE Put
  <2>1. pc' = "file" /\ cur' =< NParams => cur =< NParams
    BY SMTT(30), <1>6, PutFacts, NextFileStep, FileNumbers DEF MInv, MTypeOK
  <2> QED BY <1>6, <2>1, PutFacts, NextFileStep, FillStep
<1>7. CASE SigTerm
  BY ZenonT(30), <1>7, StopStep, PostponeStep DEF SigTerm
<1>8. CASE Crash
  BY <1>8, StopStep DEF Crash
<1>9. CASE UNCHANGED mvars
  <2>1. /\ pc \in Running \cup {"gone", "down"} /\ last \in Times \cup {Never}
        /\ sample \in [Files -> Words] /\ cur \in Files /\ failed \in SUBSET Files
        /\ fd \in [Files -> Months \cup {-1}] /\ should_exit \in BOOLEAN
        /\ pc = "copied" => sample[Stamp] \in Values
    BY DEF MInv, MTypeOK, CycleOK
  <2> QED BY <1>9, <2>1, QuietStep DEF mvars, meaner, files
<1> QED BY <1>1, <1>2, <1>3, <1>4, <1>5, <1>6, <1>7, <1>8, <1>9 DEF MNext, Work

(* meaner3 keeps its types; the files stay within their months. *)
THEOREM TypeCorrect == MSpec => []MTypeOK
<1>1. MInv => MTypeOK
  BY DEF MInv
<1> QED BY <1>1, InitInv, StepInv, PTL DEF MSpec

-----------------------------------------------------------------------------
(* WrittenInPlace is inductive, given the types. *)
LEMMA PlaceStep ==
  ASSUME MInv, WrittenInPlace, [MNext]_mvars
  PROVE  WrittenInPlace'
<1> DEFINE Done(q) == size[q][Month] = Index + 1 /\ word[q][Month][Index] = sample[q]
<1> SUFFICES ASSUME pc' = "file", NEW q \in Files, q < cur', sample'[q] # NoData, q \notin failed'
             PROVE  Done(q)'
  BY DEF WrittenInPlace
<1>0. q \in Int /\ cur \in Int /\ cur \in Files
  BY FileNumbers DEF MInv, MTypeOK
<1>1. CASE BeginWrite
  BY <1>0, <1>1, FileNumbers DEF BeginWrite
<1>2. CASE OpenFile
  <2>1. /\ UNCHANGED <<now, sample, cur, failed, word>> /\ pc = "file" /\ q < cur
        /\ \A m \in Months : size'[q][m] = size[q][m]
    BY <1>0, <1>2 DEF OpenFile, MInv, MTypeOK
  <2>2. Month' = Month /\ Index' = Index /\ Month \in Months
    BY <2>1, NowParts DEF Month, Index
  <2>3. Done(q)
    BY <2>1 DEF WrittenInPlace
  <2> QED BY <2>1, <2>2, <2>3
<1>3. CASE SkipNoData \/ SystemError \/ Refuse
  <2>1. /\ pc = "file" /\ NextFile /\ UNCHANGED <<now, sample, size, word>>
        /\ failed \subseteq failed'
        /\ sample[cur] = NoData \/ cur \in failed'
    BY <1>3 DEF SkipNoData, SystemError, Refuse, WriteFails, files
  <2>2. cur' = cur + 1 /\ q # cur
    BY <2>1, NextFileStep
  <2>3. Done(q)
    BY <1>0, <2>1, <2>2 DEF WrittenInPlace
  <2> QED BY <2>1, <2>3 DEF Month, Index
<1>4. CASE Pad
  <2>1. /\ UNCHANGED <<now, sample, cur, failed>> /\ pc = "file" /\ q # cur /\ q < cur
    BY <1>0, <1>4, PadFacts
  <2>2. Month' = Month /\ Index' = Index /\ Month \in Months
    BY SMTT(30), <2>1, NowParts DEF Month, Index
  <2>3. size'[q][Month] = size[q][Month] /\ word'[q][Month] = word[q][Month]
    BY <1>4, <2>1, <2>2, PadFacts, StoreStep
  <2>4. Done(q)
    BY <2>1 DEF WrittenInPlace
  <2> QED BY <2>1, <2>2, <2>3, <2>4
<1>5. CASE Put
  <2>1. /\ UNCHANGED <<now, sample, failed>> /\ pc = "file" /\ NextFile /\ size[cur][Month] = Index
    BY SMTT(30), <1>5, PutFacts
  <2>2. Month' = Month /\ Index' = Index /\ Month \in Months /\ cur' = cur + 1
    BY <2>1, NowParts, NextFileStep DEF Month, Index
  <2>3. CASE q = cur
    BY SMTT(30), <1>5, <2>1, <2>2, <2>3, PutFacts, StoreStep
  <2>4. CASE q # cur
    <3>1. size'[q][Month] = size[q][Month] /\ word'[q][Month] = word[q][Month]
      BY <1>5, <2>2, <2>4, PutFacts, StoreStep
    <3>2. Done(q)
      BY <1>0, <2>1, <2>2, <2>4 DEF WrittenInPlace
    <3> QED BY <2>1, <2>2, <3>1, <3>2
  <2> QED BY <2>3, <2>4
<1>6. CASE UNCHANGED <<pc, now, sample, cur, failed, size, word>>
  BY SMTT(30), <1>6 DEF WrittenInPlace, Month, Index
<1>7. CASE StartCycle \/ CopyDone \/ CopyFails \/ Restart \/ Crash
  BY <1>7 DEF StartCycle, CopyDone, CopyFails, Restart, Crash, Stopped
<1>8. CASE SigTerm
  BY <1>6, <1>8 DEF SigTerm, Stopped, files
<1>9. CASE UNCHANGED mvars
  BY <1>6, <1>9 DEF mvars, meaner, files
<1> QED BY <1>1, <1>2, <1>3, <1>4, <1>5, <1>7, <1>8, <1>9 DEF MNext, Work

(* WriteParams: what was written without an error is at its index, whatever *)
(* was in the files before.                                                  *)
THEOREM SavedInPlace == MSpec => []WrittenInPlace
<1>1. MInit => WrittenInPlace
  BY DEF MInit, WrittenInPlace
<1> QED BY <1>1, InitInv, StepInv, PlaceStep, PTL DEF MSpec

-----------------------------------------------------------------------------
(* While the parameters are saved the stamp does not cover the time.       *)
LEMMA NotCovered ==
  ASSUME MInv, pc = "file", cur \in Params, ~again
  PROVE  ~Covered(now)
<1>1. now[1] \in Int /\ now[2] \in Int /\ Ahead = 0
  BY NowParts, FileNumbers DEF Ahead
<1> SUFFICES ASSUME NEW m \in Months, size[Stamp][m] # -1,
                    now[1] < m \/ (now[1] = m /\ now[2] < size[Stamp][m])
             PROVE  FALSE
  BY DEF Covered
<1>2. m =< now[1] /\ (m = now[1] => size[Stamp][m] =< now[2] + 0)
  BY <1>1 DEF MInv, StampBehind
<1>3. m \in Int /\ size[Stamp][m] \in Int
  BY TimeParts, SizeType, FileNumbers
<1> QED BY <1>1, <1>2, <1>3

(* The stamp is a commit record. *)
LEMMA CommitStep ==
  ASSUME MInv, [MNext]_mvars, ~again, NEW q \in Params, NEW t \in Times, Covered(t)
  PROVE  word'[q][t[1]][t[2]] = word[q][t[1]][t[2]]
<1>0. q \in Files /\ t[1] \in Months /\ t[2] \in Slots
  BY SMTT(30), FileNumbers, TimeParts
<1>1. CASE Pad
  <2>1. CASE <<q, t[1]>> = <<cur, Month>> /\ t[2] = size[cur][Month]
    <3>1. word'[q][t[1]][t[2]] = NoData
      BY <1>1, <2>1, PadFacts, StoreStep
    <3>2. word[q][t[1]][t[2]] = NoData
      BY SMTT(30), <1>0, <2>1, TimeParts DEF MInv, BlankBeyond
    <3> QED BY <3>1, <3>2
  <2> QED BY <1>0, <1>1, <2>1, PadFacts, StoreStep
<1>2. CASE Put
  <2>1. CASE <<q, t[1]>> = <<cur, Month>> /\ t[2] = size[cur][Month]
    <3>1. pc = "file" /\ size[cur][Month] = Index /\ cur \in Params
      BY <1>2, <2>1, PutFacts
    <3>2. t[1] = now[1] /\ t[2] = now[2]
      BY <2>1, <3>1 DEF Month, Index
    <3>3. Covered(now)
      BY <3>2 DEF Covered
    <3> QED BY <3>1, <3>3, NotCovered
  <2> QED BY <1>0, <1>2, <2>1, PutFacts, StoreStep
<1>3. CASE UNCHANGED word
  BY SMTT(30), <1>3
<1>4. CASE UNCHANGED mvars \/ SigTerm \/ Crash \/ Restart
  BY <1>3, <1>4 DEF mvars, files, SigTerm, Crash, Restart, Stopped
<1>5. CASE StartCycle \/ CopyDone \/ CopyFails \/ BeginWrite \/ OpenFile
  BY SMTT(30), <1>3, <1>5 DEF StartCycle, CopyDone, CopyFails, BeginWrite, OpenFile, files
<1>6. CASE SkipNoData \/ SystemError \/ Refuse
  BY <1>3, <1>6 DEF SkipNoData, SystemError, Refuse, WriteFails, files
<1> QED BY <1>1, <1>2, <1>4, <1>5, <1>6 DEF MNext, Work

(* WriteParams saves the stamp after the parameters: once it covers a time, *)
(* what the files say of that time is final, unless the clock is set back.  *)
THEOREM StampIsCommit == MSpec => StampCommits
<1>1. MInv /\ [MNext]_mvars =>
        [ ~again => \A q \in Params, t \in Times :
            Covered(t) => word'[q][t[1]][t[2]] = word[q][t[1]][t[2]] ]_mvars
  BY SMTT(30), CommitStep
<1> QED BY <1>1, InitInv, StepInv, PTL DEF MSpec, StampCommits

-----------------------------------------------------------------------------
(* The base's own names stand for the same sets. *)
LEMMA SameNames ==
  /\ Base!Months = Months /\ Base!Slots = Slots /\ Base!Words = Words /\ Base!Times = Times
  /\ Base!Never = Never /\ Base!Nothing = [q \in Files |-> NoData]
  /\ \A s, t : Base!Before(s, t) <=> Before(s, t)
  /\ \A t : Base!Covered(t) <=> Covered(t)
BY DEF Base!Months, Base!Slots, Base!Words, Base!Times, Base!Never, Base!Nothing,
       Base!Before, Base!Covered, Months, Slots, Words, Times, Never, Before, Covered

(* The initial states are initial states of the archive.                   *)
LEMMA InitMaps == MInit => Base!AInit
BY SameNames DEF MInit, Base!AInit, Saving, Saved

\* What the base sees does not change.
Hidden == UNCHANGED <<size, word, now, again, Saving, Saved>>

(* What readers cannot see is a stuttering step of the archive.            *)
LEMMA HiddenStutters == Hidden => UNCHANGED Base!avars
BY DEF Hidden, Base!avars

(* Steps outside WriteParams. *)
LEMMA OutsideHidden ==
  ASSUME pc # "file", pc' # "file", UNCHANGED <<size, word, now, again>>
  PROVE  Hidden
BY DEF Hidden, Saving, Saved

(* A step that ends WriteParams early. *)
LEMMA EndMaps ==
  ASSUME pc = "file", pc' # "file", UNCHANGED <<size, word, now, again>>
  PROVE  Base!End
BY SMTT(30), SameNames DEF Base!End, Saving, Saved

(* A step within WriteParams that leaves the files alone. *)
LEMMA InsideHidden ==
  ASSUME pc = "file", pc' = "file", UNCHANGED <<size, word, now, again, sample>>
  PROVE  Hidden
BY DEF Hidden, Saving, Saved

(* Pad and Put fill the next slot. *)
LEMMA FillMaps ==
  ASSUME MInv, pc = "file", fd[cur] = Month, NEW v \in Words, Store(v),
         size[cur][Month] =< Index,
         v = IF size[cur][Month] < Index THEN NoData ELSE sample[cur],
         UNCHANGED <<now, sample, again>>
  PROVE  Base!Fill(cur)
<1>1. size[cur][Month] \in Slots
  BY StoreStep
<1>2. Month = now[1] /\ Index = now[2]
  BY DEF Month, Index
<1>3. size[cur][Month] = now[2] /\ cur \in Params => again \/ ~Covered(now)
  BY NotCovered
<1>4. /\ size' = [size EXCEPT ![cur][Month] = size[cur][Month] + 1]
      /\ word' = [word EXCEPT ![cur][Month][size[cur][Month]] = v]
  BY DEF Store
<1>5. Saving /\ Saving' \in {TRUE, FALSE}
  BY ZenonT(30) DEF Saving
<1>6. Saved = sample /\ Saved' = IF Saving' THEN sample ELSE [q \in Files |-> NoData]
  BY DEF Saved, Saving
<1>7. Saved' = IF Saving' THEN Saved ELSE Base!Nothing
  BY ZenonT(30), <1>6, SameNames
<1>8. word' = [word EXCEPT ![cur][now[1]][size[cur][now[1]]]
                 = IF size[cur][now[1]] < now[2] THEN NoData ELSE Saved[cur]]
  BY ZenonT(30), <1>2, <1>4, <1>6
<1> QED BY ZenonT(30), <1>1, <1>2, <1>3, <1>4, <1>5, <1>7, <1>8, SameNames DEF Base!Fill

(* Every step of meaner3 is a step of the base or none. *)
LEMMA StepMaps ==
  ASSUME MInv, [MNext]_mvars
  PROVE  [Base!ANext]_Base!avars
<1>0. cur \in Files
  BY DEF MInv, MTypeOK
<1>1. CASE StartCycle \/ CopyDone \/ CopyFails \/ Restart
  <2>1. pc # "file" /\ pc' # "file" /\ UNCHANGED <<size, word, now, again>>
    BY <1>1 DEF StartCycle, CopyDone, CopyFails, Restart, files
  <2> QED BY <2>1, OutsideHidden, HiddenStutters
<1>2. CASE BeginWrite
  <2>1. /\ \E t \in Times : now' = t /\ again' = (again \/ ~Before(now, t))
        /\ pc = "copied" /\ pc' = "file" /\ UNCHANGED <<size, word, sample>>
    BY <1>2 DEF BeginWrite, files
  <2>2. ~Saving /\ Saving' = TRUE /\ Saved' = sample
    BY <2>1 DEF Saving, Saved
  <2>3. sample \in [Files -> Words] /\ sample[Stamp] \in Values
    BY <2>1 DEF MInv, MTypeOK, CycleOK
  <2>4. Base!Begin
    BY <2>1, <2>2, <2>3, SameNames DEF Base!Begin
  <2> QED BY <2>4 DEF Base!ANext
<1>3. CASE OpenFile
  <2>1. /\ pc = "file"
        /\ size' = IF size[cur][Month] = -1 THEN [size EXCEPT ![cur][Month] = 0] ELSE size
        /\ UNCHANGED <<pc, now, sample, again, word>>
    BY <1>3 DEF OpenFile
  <2>2. CASE size[cur][Month] = -1
    <3>1. Saving /\ UNCHANGED <<Saving, Saved>>
      BY <2>1 DEF Saving, Saved
    <3>2. Base!Create(cur)
      BY <2>1, <2>2, <3>1 DEF Base!Create, Month
    <3> QED BY <1>0, <3>2 DEF Base!ANext
  <2>3. CASE size[cur][Month] # -1
    BY <2>1, <2>3, InsideHidden, HiddenStutters
  <2> QED BY <2>2, <2>3
<1>4. CASE SkipNoData \/ SystemError \/ Refuse
  <2>1. pc = "file" /\ UNCHANGED <<size, word, now, again, sample>>
    BY <1>4 DEF SkipNoData, SystemError, Refuse, WriteFails, files
  <2>2. CASE pc' = "file"
    BY <2>1, <2>2, InsideHidden, HiddenStutters
  <2>3. CASE pc' # "file"
    BY <2>1, <2>3, EndMaps DEF Base!ANext
  <2> QED BY <2>2, <2>3
<1>5. CASE Pad
  <2>1. Base!Fill(cur)
    BY <1>5, PadFacts, FillMaps
  <2> QED BY SMTT(30), <1>0, <2>1 DEF Base!ANext
<1>6. CASE Put
  <2>1. ~(size[cur][Month] < Index)
    BY SMTT(30), <1>6, PutFacts, NowParts, TimeParts
  <2>2. Base!Fill(cur)
    BY <1>6, <2>1, PutFacts, FillMaps
  <2> QED BY SMTT(30), <1>0, <2>2 DEF Base!ANext
<1>7. CASE Stopped
  <2>1. pc' # "file" /\ UNCHANGED <<size, word, now, again>>
    BY <1>7 DEF Stopped, files
  <2>2. CASE pc = "file"
    BY <2>1, <2>2, EndMaps DEF Base!ANext
  <2>3. CASE pc # "file"
    BY <2>1, <2>3, OutsideHidden, HiddenStutters
  <2> QED BY <2>2, <2>3
<1>8. CASE UNCHANGED <<pc, now, sample, again, size, word>>
  <2>1. Hidden
    BY <1>8 DEF Hidden, Saving, Saved
  <2> QED BY <2>1, HiddenStutters
<1>9. CASE SigTerm \/ Crash \/ UNCHANGED mvars
  <2>1. Stopped \/ UNCHANGED <<pc, now, sample, again, size, word>>
    BY <1>9 DEF SigTerm, Crash, mvars, meaner, files
  <2> QED BY <1>7, <1>8, <2>1
<1> QED BY <1>1, <1>2, <1>3, <1>4, <1>5, <1>6, <1>9 DEF MNext, Work

(* WriteParams and TSaveParam::Write implement the archive: for any number  *)
(* of parameters and months, whatever fails and whenever the process dies.  *)
THEOREM SavingImplementsArchive == MSpec => ImplementsArchive
<1>1. MInv /\ [MNext]_mvars => [Base!ANext]_Base!avars
  BY StepMaps
<1> QED BY <1>1, InitInv, StepInv, InitMaps, PTL DEF MSpec, ImplementsArchive, Base!ASpec

=============================================================================
