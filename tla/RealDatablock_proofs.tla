------------------------ MODULE RealDatablock_proofs ------------------------
(***************************************************************************)
(* Proofs about RealDatablock and RealSearch, for any number of files,     *)
(* months, probes and cached blocks.                                       *)
(*                                                                         *)
(* 1. RInv: the blocks the cache answers from agree with the files.  What  *)
(*    a block must get right has to be settled in the file too (Lasting),  *)
(*    or the next step of meaner3 would make the block wrong.              *)
(* 2. SpanInv, relative to RInv: a block knows the first and last of its   *)
(*    data.  The search relies on both when it jumps over a block.         *)
(* 3. The search is exact in every state where both hold.  The searches    *)
(*    are recursive functions of the time they are at; if one were wrong   *)
(*    anywhere, take the time nearest to the end of the search where it is *)
(*    (Least, Greatest): the time its next step leads to is nearer.        *)
(***************************************************************************)
EXTENDS RealSearch, TLAPS, WellFoundedInduction

Dates == (-1 .. LastMonth) \X Slots

\* The files.  Beyond the end of one there is nothing, and none is of a month
\* that has not come.
ArchiveOK ==
  /\ size \in [Files -> [Months -> -1 .. MaxProbes]]
  /\ word \in [Files -> [Months -> [Slots -> Words]]]
  /\ time \in Times \cup {Never} /\ (saving => time \in Times)
  /\ saving \in BOOLEAN /\ again \in BOOLEAN /\ sample \in [Files -> Words]
  /\ \A q \in Files, m \in Months, i \in Slots : i >= size[q][m] => word[q][m][i] = NoData
  /\ ~again => \A q \in Files, m \in Months : size[q][m] # -1 => m =< time[1]

\* The stamp has covered everything up to d.
DateOK(d) == \A t \in Times : ~Before(d, t) => Covered(t)

\* What is read is a prefix of the file, unless the file grew between two
\* read()s.
LoadOK ==
  /\ load \in [month : Months \cup {-1}, pos : 0 .. MaxProbes, got : 0 .. MaxProbes,
               data : [Slots -> Words], torn : BOOLEAN]
  /\ load # NotLoading =>
       /\ load.month \in Months
       /\ size[Watched][load.month] # -1 /\ load.pos =< size[Watched][load.month]
       /\ load.torn => load.got > 0
       /\ ~load.torn =>
            /\ load.pos = load.got
            /\ \A i \in Slots : load.data[i] = IF i < load.got THEN word[Watched][load.month][i] ELSE NoData

\* Word i of month m will not change.
Settled(m, i) == i < size[Watched][m] \/ Covered(<<m, i>>) \/ m < time[1]

IsBlock(b) ==
  b \in [data : [Slots -> Words \cup {Junk}], has : BOOLEAN,
         from : 0 .. MaxProbes, fixed : 0 .. MaxProbes,
         first : {b.first}, last : {b.last}, upd : Dates \cup {Unread}, flaw : {b.flaw}]

\* Block b holds a prefix of the file of month m.
Prefix(b, m) ==
  /\ ~b.has => b.from = 0
  /\ \A i \in Slots : IF i < b.from THEN i < size[Watched][m] /\ b.data[i] = word[Watched][m][i]
                      ELSE b.data[i] = NoData

\* What it must get right is right, and will not change.
Lasting(b, m) ==
  \A i \in Slots : i < b.fixed \/ ~Before(b.upd, <<m, i>>) =>
     Settled(m, i) /\ b.data[i] = word[Watched][m][i]

BlockOK(b, m) ==
  /\ IsBlock(b) /\ DateOK(b.upd)
  /\ b.has => size[Watched][m] # -1
  /\ b.flaw = "none" => Prefix(b, m) /\ (~again => Lasting(b, m))

RInv ==
  /\ ArchiveOK /\ LoadOK
  /\ date \in Dates \cup {Unread} /\ DateOK(date)
  /\ blk = [m \in Months |-> blk[m]] /\ \A m \in Months : BlockOK(blk[m], m)

-----------------------------------------------------------------------------
(* The parts of times and dates are numbers. *)
LEMMA TimeParts ==
  /\ Months \subseteq Int /\ Slots \subseteq Int /\ MaxProbes \in Nat \ {0}
  /\ \A t \in Times : t[1] \in Months /\ t[2] \in Slots
  /\ \A m \in Months, i \in Slots : <<m, i>> \in Times /\ <<m, i>>[1] = m /\ <<m, i>>[2] = i
  /\ \A d \in Dates : d[1] \in -1 .. LastMonth /\ d[2] \in Slots
  /\ Never[1] = -1 /\ Never[2] = 0 /\ Unread[1] = -2 /\ Unread[2] = 0
  /\ Never \in Dates /\ Watched \in Files /\ Watched \in Params /\ Stamp \in Files /\ Stamp # Watched
BY ArchiveAssumption, ReaderAssumption DEF Months, Slots, Times, Never, Unread, Dates

(* A file has at most as many slots as the month has periods.              *)
LEMMA SizeType ==
  ASSUME ArchiveOK, NEW q \in Files, NEW m \in Months
  PROVE  size[q][m] \in -1 .. MaxProbes /\ size[q][m] \in Int
<1>1. size[q][m] \in -1 .. MaxProbes
  BY DEF ArchiveOK
<1> QED BY <1>1, TimeParts

(* The parts of a time are numbers.                                        *)
LEMMA TimeType == \A t \in Times \cup {Never} : t[1] \in Int /\ t[2] \in Int
<1> SUFFICES ASSUME NEW t \in Times \cup {Never} PROVE t[1] \in Int /\ t[2] \in Int
  OBVIOUS
<1>1. CASE t \in Times
  BY ZenonT(30), <1>1, TimeParts
<1>2. CASE t = Never
  BY <1>2, TimeParts
<1> QED BY <1>1, <1>2

(* Nothing is up to date before there are files. *)
LEMMA NeverCovers == DateOK(Never) /\ DateOK(Unread)
<1> SUFFICES ASSUME NEW t \in Times PROVE Before(Never, t) /\ Before(Unread, t)
  BY DEF DateOK
<1>1. t[1] >= 0 /\ t[1] \in Int
  BY TimeParts, ArchiveAssumption DEF Months
<1> QED BY <1>1, TimeParts DEF Before

(* The block that is not there, as a block.                                *)
LEMMA NoBlockType == IsBlock(NoBlock)
BY TimeParts DEF IsBlock, NoBlock, Empty, Words

(* The block that is not there promises nothing.                           *)
LEMMA NoBlockOK ==
  ASSUME NEW m \in Months
  PROVE  BlockOK(NoBlock, m)
<1>1. IsBlock(NoBlock)
  BY NoBlockType
<1>2. Prefix(NoBlock, m)
  BY TimeParts DEF Prefix, NoBlock, Empty, Slots
<1>3. Lasting(NoBlock, m)
  <2> SUFFICES ASSUME NEW i \in Slots PROVE ~(i < 0) /\ Before(Never, <<m, i>>)
    BY DEF Lasting, NoBlock
  <2>1. m >= 0 /\ m \in Int /\ i >= 0 /\ i \in Int
    BY ArchiveAssumption DEF Months, Slots
  <2> QED BY <2>1, TimeParts DEF Before
<1>4. NoBlock.upd = Never /\ NoBlock.has = FALSE
  BY DEF NoBlock
<1> QED BY <1>1, <1>2, <1>3, <1>4, NeverCovers DEF BlockOK

(* RInv holds initially.                                                   *)
LEMMA InitInv == RInit => RInv
<1> SUFFICES ASSUME RInit PROVE RInv
  OBVIOUS
<1>1. ArchiveOK
  <2>1. size \in [Files -> [Months -> -1 .. MaxProbes]]
    BY TimeParts DEF RInit, AInit
  <2>2. word \in [Files -> [Months -> [Slots -> Words]]] /\ sample \in [Files -> Words]
    BY DEF RInit, AInit, Words, Nothing
  <2>3. time = Never /\ saving = FALSE /\ again = FALSE
    BY DEF RInit, AInit
  <2>4. \A q \in Files, m \in Months : size[q][m] = -1 /\ \A i \in Slots : word[q][m][i] = NoData
    BY DEF RInit, AInit
  <2> QED BY ZenonT(30), <2>1, <2>2, <2>3, <2>4 DEF ArchiveOK
<1>2. LoadOK
  BY TimeParts DEF RInit, LoadOK, NotLoading, Empty, Words
<1>3. date = Unread /\ blk = [m \in Months |-> NoBlock]
  BY DEF RInit
<1> QED BY <1>1, <1>2, <1>3, NoBlockOK, NeverCovers DEF RInv

-----------------------------------------------------------------------------
(* The files only grow, and the stamp with them. *)
Grows ==
  /\ \A q \in Files, m \in Months :
        /\ size[q][m] =< size'[q][m]
        /\ \A i \in Slots : i < size[q][m] => word'[q][m][i] = word[q][m][i]
  /\ ~again' =>
       /\ ~again /\ time[1] =< time'[1]
       /\ \A m \in Months, i \in Slots :
             Covered(<<m, i>>) \/ m < time[1] =>
                word'[Watched][m][i] = word[Watched][m][i]

(* Files that stay do not shrink.                                          *)
LEMMA SameFiles ==
  ASSUME ArchiveOK, UNCHANGED <<size, word, time, again>>
  PROVE  Grows
<1>1. \A q \in Files, m \in Months : size[q][m] \in Int
  BY SizeType
<1> QED BY <1>1, TimeType DEF Grows, ArchiveOK

(* meaner3 creates a file.                                                 *)
LEMMA CreateStep ==
  ASSUME ArchiveOK, NEW q \in Files, Create(q)
  PROVE  ArchiveOK' /\ Grows
<1> DEFINE m == time[1]
<1>1. /\ saving /\ size[q][m] = -1 /\ size' = [size EXCEPT ![q][m] = 0]
      /\ UNCHANGED <<word, saving, time, sample, again>>
  BY DEF Create
<1>2. time \in Times /\ m \in Months /\ m \in Int
  BY ZenonT(30), <1>1, TimeParts DEF ArchiveOK
<1> HIDE DEF m
<1>3. size' \in [Files -> [Months -> -1 .. MaxProbes]]
  BY <1>1, <1>2, TimeParts DEF ArchiveOK
<1>4. \A p \in Files, n \in Months :
         \/ size'[p][n] = size[p][n]
         \/ p = q /\ n = m /\ size[p][n] = -1 /\ size'[p][n] = 0
  BY <1>1, <1>2 DEF ArchiveOK
<1>5. \A p \in Files, n \in Months, i \in Slots : i >= size'[p][n] => word[p][n][i] = NoData
  <2> SUFFICES ASSUME NEW p \in Files, NEW n \in Months, NEW i \in Slots, i >= size'[p][n]
               PROVE  word[p][n][i] = NoData
    OBVIOUS
  <2>1. i >= size[p][n]
    BY <1>4, ArchiveAssumption DEF Slots
  <2> QED BY <2>1 DEF ArchiveOK
<1>6. ~again => \A p \in Files, n \in Months : size'[p][n] # -1 => n =< time[1]
  BY SMTT(30), <1>2, <1>4 DEF ArchiveOK, m
<1>7. ArchiveOK'
  BY <1>1, <1>3, <1>5, <1>6 DEF ArchiveOK
<1>8. \A p \in Files, n \in Months :
         size[p][n] =< size'[p][n] /\ \A i \in Slots : i < size[p][n] => word'[p][n][i] = word[p][n][i]
  BY <1>1, <1>4, SizeType
<1>9. Grows
  BY <1>1, <1>8, TimeType DEF Grows, ArchiveOK
<1> QED BY <1>7, <1>9

(* meaner3 fills a slot.                                                   *)
LEMMA FillStep ==
  ASSUME ArchiveOK, NEW q \in Files, Fill(q)
  PROVE  ArchiveOK' /\ Grows
<1> DEFINE m == time[1]
           i == size[q][m]
           v == IF i < time[2] THEN NoData ELSE sample[q]
<1>1. /\ saving /\ i \in Slots /\ i =< time[2]
      /\ i = time[2] /\ q \in Params => again \/ ~Covered(time)
      /\ size' = [size EXCEPT ![q][m] = i + 1] /\ word' = [word EXCEPT ![q][m][i] = v]
      /\ saving' \in BOOLEAN /\ sample' = IF saving' THEN sample ELSE Nothing
      /\ UNCHANGED <<time, again>>
  BY ZenonT(30) DEF Fill
<1>2. time \in Times /\ m \in Months /\ m \in Int /\ time[2] \in Slots /\ time = <<m, time[2]>>
  <2>1. time \in Times
    BY <1>1 DEF ArchiveOK
  <2>2. time = <<time[1], time[2]>>
    BY <2>1 DEF Times
  <2> QED BY <2>1, <2>2, TimeParts
<1>3. v \in Words /\ sample' \in [Files -> Words]
  BY <1>1 DEF ArchiveOK, Words, Nothing
<1>4. i \in Int /\ i + 1 \in -1 .. MaxProbes /\ i = size[q][m]
  BY <1>1, ArchiveAssumption DEF Slots
<1>v. i < time[2] => v = NoData
  OBVIOUS
<1>0. m = time[1]
  OBVIOUS
<1> HIDE DEF m, i, v
<1>5. /\ size' \in [Files -> [Months -> -1 .. MaxProbes]] /\ size'[q][m] = i + 1
      /\ \A p \in Files, n \in Months : <<p, n>> # <<q, m>> => size'[p][n] = size[p][n]
  BY <1>1, <1>2, <1>4 DEF ArchiveOK
<1>6. /\ word' \in [Files -> [Months -> [Slots -> Words]]]
      /\ \A p \in Files, n \in Months : <<p, n>> # <<q, m>> => word'[p][n] = word[p][n]
      /\ \A j \in Slots : j # i => word'[q][m][j] = word[q][m][j]
      /\ word'[q][m][i] = v
  BY <1>1, <1>2, <1>3 DEF ArchiveOK
<1>7. \A p \in Files, n \in Months, j \in Slots : j >= size'[p][n] => word'[p][n][j] = NoData
  <2> SUFFICES ASSUME NEW p \in Files, NEW n \in Months, NEW j \in Slots, j >= size'[p][n]
               PROVE  word'[p][n][j] = NoData
    OBVIOUS
  <2>1. CASE <<p, n>> = <<q, m>>
    <3>1. j > i /\ j >= size[q][m]
      BY <1>4, <1>5, <2>1, TimeParts
    <3>2. word[q][m][j] = NoData
      BY <1>2, <3>1 DEF ArchiveOK
    <3> QED BY <1>4, <1>6, <2>1, <3>1, <3>2, TimeParts
  <2>2. CASE <<p, n>> # <<q, m>>
    <3>1. size'[p][n] = size[p][n] /\ word'[p][n] = word[p][n]
      BY <1>5, <1>6, <2>2
    <3> QED BY <3>1 DEF ArchiveOK
  <2> QED BY <2>1, <2>2
<1>8. ~again => \A p \in Files, n \in Months : size'[p][n] # -1 => n =< time[1]
  BY <1>0, <1>2, <1>5 DEF ArchiveOK
<1>9. ArchiveOK'
  BY <1>1, <1>2, <1>3, <1>5, <1>6, <1>7, <1>8 DEF ArchiveOK
<1>10. \A p \in Files, n \in Months :
         size[p][n] =< size'[p][n] /\ \A j \in Slots : j < size[p][n] => word'[p][n][j] = word[p][n][j]
  <2> SUFFICES ASSUME NEW p \in Files, NEW n \in Months
               PROVE  size[p][n] =< size'[p][n] /\ \A j \in Slots : j < size[p][n] => word'[p][n][j] = word[p][n][j]
    OBVIOUS
  <2>1. CASE <<p, n>> = <<q, m>>
    BY <1>4, <1>5, <1>6, <2>1, TimeParts
  <2>2. CASE <<p, n>> # <<q, m>>
    BY <1>5, <1>6, <2>2, SizeType
  <2> QED BY <2>1, <2>2
<1>11. ASSUME ~again, NEW n \in Months, NEW j \in Slots, Covered(<<n, j>>) \/ n < time[1]
       PROVE  word'[Watched][n][j] = word[Watched][n][j]
  <2>1. CASE <<Watched, n>> = <<q, m>> /\ j = i
    <3>1. Covered(<<n, j>>)
      BY <1>0, <1>2, <1>11, <2>1
    <3>2. i # time[2]
      BY <1>1, <1>2, <1>11, <2>1, <3>1, TimeParts
    <3>3. v = NoData
      BY <1>1, <1>2, <1>4, <1>v, <3>2, TimeParts
    <3>4. word[q][m][i] = NoData
      BY <1>1, <1>2, <1>4 DEF ArchiveOK
    <3> QED BY <1>6, <2>1, <3>3, <3>4
  <2> QED BY <1>6, <2>1, TimeParts
<1>12. Grows
  BY <1>1, <1>10, <1>11, TimeType DEF Grows, ArchiveOK
<1> QED BY <1>9, <1>12

(* Whatever meaner3 does. *)
LEMMA ArchiveStep ==
  ASSUME ArchiveOK, ANext
  PROVE  ArchiveOK' /\ Grows
<1>1. CASE Begin
  <2>1. PICK t \in Times : time' = t /\ again' = (again \/ ~Before(time, t))
    BY <1>1 DEF Begin
  <2>2. saving' = TRUE /\ sample' \in [Files -> Words] /\ UNCHANGED <<size, word>>
    BY <1>1 DEF Begin
  <2>3. t[1] \in Int /\ time[1] \in Int /\ \A q \in Files, m \in Months : size[q][m] \in Int /\ m \in Int
    BY TimeParts, TimeType, SizeType DEF ArchiveOK
  <2>4. ~again' => ~again /\ time[1] =< t[1]
    <3>1. ~again' => ~again /\ Before(time, t)
      BY ZenonT(30), <2>1
    <3> QED BY <2>3, <3>1 DEF Before
  <2>5. ~again' => \A q \in Files, m \in Months : size[q][m] # -1 => m =< t[1]
    BY <2>3, <2>4 DEF ArchiveOK
  <2>6. again' \in BOOLEAN
    BY <2>1
  <2>7. ArchiveOK'
    BY <2>1, <2>2, <2>5, <2>6 DEF ArchiveOK
  <2>8. Grows
    BY <2>1, <2>2, <2>3, <2>4 DEF Grows
  <2> QED BY <2>7, <2>8
<1>2. CASE End
  <2>1. saving' = FALSE /\ sample' \in [Files -> Words] /\ UNCHANGED <<size, word, time, again>>
    BY <1>2 DEF End, Nothing, Words
  <2>2. ArchiveOK'
    BY ZenonT(30), <2>1 DEF ArchiveOK
  <2> QED BY <2>1, <2>2, SameFiles
<1> QED BY <1>1, <1>2, CreateStep, FillStep DEF ANext

(* What the stamp covers stays covered. *)
LEMMA CoveredGrows ==
  ASSUME ArchiveOK, ArchiveOK', Grows
  PROVE  \A t \in Times : Covered(t) => Covered(t)'
<1> SUFFICES ASSUME NEW t \in Times, NEW m \in Months, size[Stamp][m] # -1,
                    t[1] < m \/ (t[1] = m /\ t[2] < size[Stamp][m])
             PROVE  size'[Stamp][m] # -1 /\ (t[1] < m \/ (t[1] = m /\ t[2] < size'[Stamp][m]))
  BY DEF Covered
<1>1. size[Stamp][m] =< size'[Stamp][m]
  BY TimeParts DEF Grows
<1>2. size[Stamp][m] \in -1 .. MaxProbes /\ size[Stamp][m] \in Int
  BY TimeParts, SizeType
<1>3. size'[Stamp][m] \in Int
  BY TimeParts DEF ArchiveOK
<1>4. t[2] \in Int
  BY ZenonT(30), TimeParts
<1> QED BY <1>1, <1>2, <1>3, <1>4

(* What the stamp covered stays covered.                                   *)
LEMMA DateStays ==
  ASSUME ArchiveOK, ArchiveOK', Grows, NEW d, DateOK(d)
  PROVE  DateOK(d)'
BY CoveredGrows DEF DateOK, Before

(* A block that agrees with its file goes on doing so. *)
LEMMA BlockStays ==
  ASSUME ArchiveOK, ArchiveOK', Grows, NEW b, NEW m \in Months, BlockOK(b, m)
  PROVE  BlockOK(b, m)'
<1>0. /\ size[Watched][m] \in -1 .. MaxProbes /\ size[Watched][m] \in Int
      /\ size'[Watched][m] \in Int /\ size[Watched][m] =< size'[Watched][m]
  BY TimeParts, SizeType DEF ArchiveOK, Grows
<1>1. IsBlock(b) /\ DateOK(b.upd)'
  BY DateStays DEF BlockOK
<1>2. b.has => size'[Watched][m] # -1
  BY <1>0 DEF BlockOK
<1>3. ASSUME b.flaw = "none" PROVE Prefix(b, m)'
  <2>1. Prefix(b, m)
    BY <1>3 DEF BlockOK
  <2> SUFFICES ASSUME NEW i \in Slots
               PROVE  IF i < b.from THEN i < size'[Watched][m] /\ b.data[i] = word'[Watched][m][i]
                      ELSE b.data[i] = NoData
    BY <2>1 DEF Prefix
  <2>2. IF i < b.from THEN i < size[Watched][m] /\ b.data[i] = word[Watched][m][i]
        ELSE b.data[i] = NoData
    BY <2>1 DEF Prefix
  <2>3. i < size[Watched][m] => i < size'[Watched][m] /\ word'[Watched][m][i] = word[Watched][m][i]
    BY SMTT(30), <1>0, TimeParts DEF Grows
  <2> QED BY <2>2, <2>3
<1>4. ASSUME b.flaw = "none", ~again' PROVE Lasting(b, m)'
  <2>1. ~again /\ time[1] =< time'[1]
    BY <1>4 DEF Grows
  <2>2. Lasting(b, m)
    BY <1>4, <2>1 DEF BlockOK
  <2> SUFFICES ASSUME NEW i \in Slots, i < b.fixed \/ ~Before(b.upd, <<m, i>>)
               PROVE  Settled(m, i)' /\ b.data[i] = word'[Watched][m][i]
    BY DEF Lasting, Before
  <2>3. Settled(m, i) /\ b.data[i] = word[Watched][m][i]
    BY <2>2 DEF Lasting
  <2>4. CASE i < size[Watched][m]
    <3>1. word'[Watched][m][i] = word[Watched][m][i]
      BY <2>4, TimeParts DEF Grows
    <3>2. i < size'[Watched][m]
      BY <1>0, <2>4, TimeParts
    <3> QED BY <2>3, <3>1, <3>2 DEF Settled
  <2>5. CASE Covered(<<m, i>>)
    <3>1. word'[Watched][m][i] = word[Watched][m][i]
      BY <1>4, <2>5 DEF Grows
    <3>2. Covered(<<m, i>>)'
      BY <2>5, CoveredGrows, TimeParts
    <3> QED BY <2>3, <3>1, <3>2 DEF Settled
  <2>6. CASE m < time[1]
    <3>1. word'[Watched][m][i] = word[Watched][m][i]
      BY <1>4, <2>6 DEF Grows
    <3>2. m < time'[1]
      <4>1. time[1] \in Int /\ time'[1] \in Int /\ m \in Int
        BY TimeType, TimeParts DEF ArchiveOK
      <4> QED BY <2>1, <2>6, <4>1
    <3> QED BY <2>3, <3>1, <3>2 DEF Settled
  <2> QED BY <2>3, <2>4, <2>5, <2>6 DEF Settled
<1> QED BY <1>1, <1>2, <1>3, <1>4 DEF BlockOK, IsBlock

(* A file that grows under a read leaves what was read right.              *)
LEMMA LoadStays ==
  ASSUME ArchiveOK, ArchiveOK', Grows, LoadOK, UNCHANGED load
  PROVE  LoadOK'
<1> SUFFICES ASSUME load # NotLoading
             PROVE  /\ size'[Watched][load.month] # -1 /\ load.pos =< size'[Watched][load.month]
                    /\ ~load.torn => \A i \in Slots : i < load.got =>
                          word'[Watched][load.month][i] = word[Watched][load.month][i]
  BY DEF LoadOK
<1> DEFINE m == load.month
<1>1. m \in Months /\ load.pos \in 0 .. MaxProbes /\ load.got \in 0 .. MaxProbes
  BY DEF LoadOK
<1>2. load.pos =< size[Watched][m] /\ size[Watched][m] # -1 /\ (~load.torn => load.pos = load.got)
  BY DEF LoadOK
<1> HIDE DEF m
<1>3. /\ size[Watched][m] \in -1 .. MaxProbes /\ size[Watched][m] \in Int
      /\ size'[Watched][m] \in Int /\ size[Watched][m] =< size'[Watched][m]
  BY SMTT(30), <1>1, TimeParts, SizeType DEF ArchiveOK, Grows
<1>4. size'[Watched][m] # -1 /\ load.pos =< size'[Watched][m]
  BY SMTT(30), <1>1, <1>2, <1>3
<1>5. ASSUME ~load.torn, NEW i \in Slots, i < load.got PROVE word'[Watched][m][i] = word[Watched][m][i]
  <2>1. i < size[Watched][m]
    BY <1>1, <1>2, <1>3, <1>5, TimeParts
  <2> QED BY <1>1, <2>1, TimeParts DEF Grows
<1> QED BY <1>4, <1>5 DEF m

(* meaner3 takes a step. *)
LEMMA WriterStep ==
  ASSUME RInv, ANext, UNCHANGED reader
  PROVE  RInv'
<1>1. ArchiveOK' /\ Grows
  BY ArchiveStep DEF RInv
<1>2. UNCHANGED <<date, load, blk>>
  BY DEF reader
<1>3. LoadOK'
  BY <1>1, <1>2, LoadStays DEF RInv
<1>4. DateOK(date)'
  BY <1>1, <1>2, DateStays DEF RInv, DateOK, Before
<1>5. ASSUME NEW m \in Months PROVE BlockOK(blk[m], m)'
  BY <1>1, <1>2, BlockStays DEF RInv
<1> QED BY <1>1, <1>2, <1>3, <1>4, <1>5 DEF RInv

-----------------------------------------------------------------------------
(* Steps of the reader leave the files alone. *)
LEMMA SameArchive ==
  ASSUME RInv, UNCHANGED avars
  PROVE  /\ ArchiveOK' /\ \A d : DateOK(d)' <=> DateOK(d)
         /\ \A b : \A m \in Months : BlockOK(b, m)' <=> BlockOK(b, m)
<1>1. UNCHANGED <<size, word, saving, time, sample, again>>
  BY DEF avars
<1>2. ArchiveOK'
  BY <1>1 DEF RInv, ArchiveOK
<1>3. \A d : DateOK(d)' <=> DateOK(d)
  BY <1>1 DEF DateOK, Covered, Before
<1>4. \A b : \A m \in Months : (Prefix(b, m)' <=> Prefix(b, m)) /\ (Lasting(b, m)' <=> Lasting(b, m))
  BY <1>1 DEF Prefix, Lasting, Settled, Covered, Before
<1>5. \A b : \A m \in Months : BlockOK(b, m)' <=> BlockOK(b, m)
  BY <1>1, <1>3, <1>4 DEF BlockOK, IsBlock
<1> QED BY <1>2, <1>3, <1>5

(* What has to be shown of such a step. *)
LEMMA ReaderFrame ==
  ASSUME RInv, UNCHANGED avars, LoadOK', date' \in Dates \cup {Unread}, DateOK(date'),
         blk' = [m \in Months |-> blk'[m]], \A m \in Months : BlockOK(blk'[m], m)
  PROVE  RInv'
<1>1. ArchiveOK' /\ DateOK(date)'
  BY SameArchive
<1>2. \A m \in Months : BlockOK(blk[m], m)'
  BY SameArchive
<1> QED BY <1>1, <1>2 DEF RInv

(* A read that is left alone.                                              *)
LEMMA SameLoad ==
  ASSUME RInv, UNCHANGED <<avars, load>>
  PROVE  LoadOK'
BY DEF RInv, LoadOK, avars

(* Blocks that are left alone.                                             *)
LEMMA SameBlocks ==
  ASSUME RInv, UNCHANGED blk
  PROVE  blk' = [m \in Months |-> blk'[m]] /\ \A m \in Months : BlockOK(blk'[m], m)
BY DEF RInv

(* The date that is read is one the stamp has reached. *)
LEMMA NewestCovers ==
  ASSUME ArchiveOK, NEW d \in Dates, NewestProbe(Stamp, d)
  PROVE  DateOK(d)
<1>1. CASE d = Never
  BY <1>1, NeverCovers
<1>2. ASSUME NEW m \in Months, size[Stamp][m] # -1, d = DateOf(m, size[Stamp][m])
      PROVE  DateOK(d)
  <2> SUFFICES ASSUME NEW t \in Times, ~Before(d, t)
               PROVE  t[1] < m \/ (t[1] = m /\ t[2] < size[Stamp][m])
    BY <1>2 DEF DateOK, Covered
  <2>1. t[1] \in Int /\ t[2] \in 0 .. MaxProbes - 1 /\ m \in Int /\ size[Stamp][m] \in 0 .. MaxProbes
    <3>1. size[Stamp][m] \in -1 .. MaxProbes /\ m \in Int
      BY TimeParts, SizeType
    <3>2. t[1] \in Int /\ t[2] \in 0 .. MaxProbes - 1
      BY ZenonT(30), TimeParts DEF Slots
    <3> QED BY <1>2, <3>1, <3>2, TimeParts
  <2>2. CASE size[Stamp][m] = 0
    <3>1. d[1] = m - 1 /\ d[2] = MaxProbes - 1
      BY <1>2, <2>2 DEF DateOf
    <3> QED BY <2>1, <3>1, TimeParts DEF Before
  <2>3. CASE size[Stamp][m] # 0
    <3>1. d[1] = m /\ d[2] = size[Stamp][m] - 1
      BY <1>2, <2>3 DEF DateOf
    <3> QED BY <2>1, <3>1, TimeParts DEF Before
  <2> QED BY <2>2, <2>3
<1> QED BY <1>1, <1>2 DEF NewestProbe

(* A query that asks for the date of the base only.                        *)
LEMMA QueryStep ==
  ASSUME RInv, NextQuery \/ GetMeanerDate
  PROVE  RInv'
<1>1. UNCHANGED <<avars, load, blk>>
  BY DEF NextQuery, GetMeanerDate
<1>2. date' \in Dates \cup {Unread} /\ DateOK(date')
  <2>1. CASE NextQuery
    BY <2>1, NeverCovers DEF NextQuery
  <2>2. CASE GetMeanerDate
    <3>1. PICK d \in Dates : NewestProbe(Stamp, d) /\ date' = d
      BY <2>2 DEF GetMeanerDate, Dates
    <3> QED BY <3>1, NewestCovers DEF RInv
  <2> QED BY <2>1, <2>2
<1> QED BY <1>1, <1>2, SameLoad, SameBlocks, ReaderFrame

(* A block is added, another may go. *)
LEMMA AddStep ==
  ASSUME RInv, NEW m \in Months, NEW b, BlockOK(b, m), AddBlock(m, b)
  PROVE  blk' = [n \in Months |-> blk'[n]] /\ \A n \in Months : BlockOK(blk'[n], n)
<1>1. \E C \in SUBSET Months : blk' = [n \in Months |-> IF n = m THEN b ELSE IF n \in C THEN NoBlock ELSE blk[n]]
  <2>1. blk' = [n \in Months |-> IF n = m THEN b
                ELSE IF n \in {x \in Months : Len(lru) >= MaxBlocks /\ x = Head(lru)} THEN NoBlock ELSE blk[n]]
    BY DEF AddBlock
  <2> QED BY ZenonT(30), <2>1
<1> QED BY <1>1, NoBlockOK DEF RInv

(* A block for which there is no file. *)
LEMMA NewWithoutFileStep ==
  ASSUME RInv, NEW m \in Months, NewWithoutFile(m)
  PROVE  RInv'
<1>1. PICK d \in Dates :
        /\ NewestProbe(Watched, d)
        /\ AddBlock(m, [NoBlock EXCEPT !.upd = date, !.fixed = IF m < d[1] THEN MaxProbes ELSE 0])
  BY ZenonT(30) DEF NewWithoutFile, Dates
<1>2. date # Unread /\ size[Watched][m] = -1 /\ UNCHANGED <<avars, date, load>>
  BY DEF NewWithoutFile
<1> DEFINE fix == IF m < d[1] THEN MaxProbes ELSE 0
           b == [NoBlock EXCEPT !.upd = date, !.fixed = fix]
<1>3. /\ b.data = Empty /\ b.has = FALSE /\ b.from = 0 /\ b.fixed = fix /\ b.upd = date
      /\ b.flaw = "none"
  BY DEF NoBlock
<1>4. fix \in 0 .. MaxProbes /\ date \in Dates /\ DateOK(date)
  BY <1>2, TimeParts DEF RInv
<1>5. IsBlock(b)
  <2> HIDE DEF fix
  <2> QED BY ZenonT(30), <1>4, NoBlockType DEF IsBlock
<1>6. Prefix(b, m)
  BY <1>3, TimeParts DEF Prefix, Empty, Slots
<1>7. ASSUME ~again PROVE Lasting(b, m)
  <2> SUFFICES ASSUME NEW i \in Slots, i < fix \/ ~Before(date, <<m, i>>)
               PROVE  Settled(m, i) /\ b.data[i] = word[Watched][m][i]
    BY <1>3 DEF Lasting
  <2>1. b.data[i] = NoData
    BY <1>3 DEF Empty
  <2>2. word[Watched][m][i] = NoData
    <3>1. i >= size[Watched][m]
      BY <1>2, ArchiveAssumption DEF Slots
    <3> QED BY <3>1, TimeParts DEF RInv, ArchiveOK
  <2>3. CASE i < fix
    <3>1. m < d[1]
      BY <2>3, ArchiveAssumption DEF Slots
    <3>2. PICK n \in Months : size[Watched][n] # -1 /\ d = DateOf(n, size[Watched][n])
      <4>1. 0 =< m /\ m \in Int /\ d[1] \in Int
        BY TimeParts, ArchiveAssumption DEF Months
      <4>2. d # Never
        BY SMTT(30), <3>1, <4>1, TimeParts
      <4> QED BY <1>1, <4>2 DEF NewestProbe
    <3>3. n =< time[1] /\ n \in Int /\ time[1] \in Int /\ m \in Int
      BY <1>7, <3>2, TimeParts, TimeType DEF RInv, ArchiveOK
    <3>4. d[1] =< n
      BY <3>2, <3>3 DEF DateOf
    <3>5. d[1] \in Int
      BY TimeParts
    <3>6. m < time[1]
      BY <3>1, <3>3, <3>4, <3>5
    <3> QED BY <2>1, <2>2, <3>6 DEF Settled
  <2>4. CASE ~Before(date, <<m, i>>)
    BY <1>4, <2>1, <2>2, <2>4, TimeParts DEF Settled, DateOK
  <2> QED BY <2>3, <2>4
<1>8. BlockOK(b, m)
  BY <1>3, <1>4, <1>5, <1>6, <1>7 DEF BlockOK
<1>9. blk' = [n \in Months |-> blk'[n]] /\ \A n \in Months : BlockOK(blk'[n], n)
  BY <1>1, <1>8, AddStep
<1> QED BY <1>2, <1>4, <1>9, SameLoad, ReaderFrame

(* LoadFromFile opens the file. *)
LEMMA NewFromFileStep ==
  ASSUME RInv, NEW m \in Months, NewFromFile(m)
  PROVE  RInv'
<1>1. /\ size[Watched][m] # -1 /\ load' = [NotLoading EXCEPT !.month = m]
      /\ UNCHANGED <<avars, date, blk>>
  BY DEF NewFromFile
<1>2. /\ load' = [month |-> m, pos |-> 0, got |-> 0, data |-> Empty, torn |-> FALSE]
  BY ZenonT(30), <1>1 DEF NotLoading
<1>3. 0 =< size[Watched][m] /\ UNCHANGED <<size, word>>
  BY <1>1, TimeParts, SizeType DEF RInv, avars
<1>4. 0 \in 0 .. MaxProbes /\ Empty \in [Slots -> Words] /\ \A i \in Slots : ~(i < 0) /\ Empty[i] = NoData
  BY TimeParts DEF Empty, Words, Slots
<1>5. LoadOK'
  <2>1. load' \in [month : Months \cup {-1}, pos : 0 .. MaxProbes, got : 0 .. MaxProbes,
                   data : [Slots -> Words], torn : BOOLEAN]
    BY <1>2, <1>4
  <2>2. load'.month = m /\ load'.pos = 0 /\ load'.got = 0 /\ load'.data = Empty /\ load'.torn = FALSE
    BY <1>2
  <2> QED BY <1>1, <1>3, <1>4, <2>1, <2>2 DEF LoadOK
<1>6. date' \in Dates \cup {Unread} /\ DateOK(date')
  BY <1>1 DEF RInv
<1> QED BY <1>1, <1>5, <1>6, SameBlocks, ReaderFrame

(* A read() of LoadFromFile. *)
LEMMA LoadReadStep ==
  ASSUME RInv, LoadRead
  PROVE  RInv'
<1> DEFINE m == load.month
           r == Readable
           p == IF r < MaxProbes - load.got THEN r ELSE load.pos + r
           f == [i \in Slots |-> IF load.got =< i /\ i < load.got + r
                                 THEN word[Watched][m][load.pos + i - load.got] ELSE load.data[i]]
<1>1. /\ load # NotLoading /\ r > 0 /\ UNCHANGED <<avars, date, blk>>
      /\ load' = [load EXCEPT !.data = f, !.pos = p, !.got = @ + r, !.torn = load.got > 0]
  BY DEF LoadRead
<1>2. /\ load \in [month : Months \cup {-1}, pos : 0 .. MaxProbes, got : 0 .. MaxProbes,
                   data : [Slots -> Words], torn : BOOLEAN]
      /\ m \in Months /\ size[Watched][m] # -1 /\ load.pos =< size[Watched][m]
      /\ load.torn => load.got > 0
      /\ ~load.torn => load.pos = load.got
  BY <1>1 DEF RInv, LoadOK
<1>3. /\ size[Watched][m] \in 0 .. MaxProbes /\ load.pos \in 0 .. MaxProbes
      /\ load.got \in 0 .. MaxProbes /\ MaxProbes \in Nat
  <2>1. size[Watched][m] \in -1 .. MaxProbes
    BY <1>2, TimeParts, SizeType DEF RInv
  <2> QED BY <1>2, <2>1, TimeParts
<1>4. /\ r \in Int /\ r =< size[Watched][m] - load.pos /\ r =< MaxProbes - load.got
      /\ load.got # MaxProbes
  <2>1. load.got # MaxProbes
    BY <1>1 DEF Readable
  <2>2. r = Min2(size[Watched][m] - load.pos, MaxProbes - load.got)
    BY <2>1 DEF Readable
  <2> QED BY <1>3, <2>1, <2>2 DEF Min2
<1> HIDE DEF r, m
<1>5. p \in 0 .. MaxProbes /\ p =< size[Watched][m] /\ load.got + r \in 0 .. MaxProbes
  BY <1>1, <1>3, <1>4
<1>6. f \in [Slots -> Words]
  <2>1. ASSUME NEW i \in Slots, load.got =< i, i < load.got + r PROVE load.pos + i - load.got \in Slots
    BY <1>1, <1>3, <1>4, <2>1 DEF Slots
  <2>2. word[Watched][m] \in [Slots -> Words]
    BY <1>2, TimeParts DEF RInv, ArchiveOK
  <2> QED BY <1>2, <2>1, <2>2
<1>7. load' = [month |-> m, pos |-> p, got |-> load.got + r, data |-> f, torn |-> load.got > 0]
  BY ZenonT(30), <1>1, <1>2 DEF m
<1>8. ASSUME ~(load.got > 0) PROVE p = load.got + r /\
        \A i \in Slots : f[i] = IF i < load.got + r THEN word[Watched][m][i] ELSE NoData
  <2>1. load.got = 0 /\ load.pos = 0 /\ ~load.torn
    BY <1>2, <1>3, <1>8
  <2>2. \A i \in Slots : load.data[i] = NoData
    BY <1>1, <2>1 DEF RInv, LoadOK, Slots
  <2>3. p = load.got + r
    BY <1>4, <2>1
  <2>4. ASSUME NEW i \in Slots PROVE f[i] = IF i < load.got + r THEN word[Watched][m][i] ELSE NoData
    <3>1. i \in Int /\ 0 =< i
      BY ArchiveAssumption DEF Slots
    <3>2. load.pos + i - load.got = i /\ load.got =< i
      BY <2>1, <3>1
    <3> QED BY <2>2, <3>2
  <2> QED BY <2>3, <2>4
<1>9. UNCHANGED <<size, word>>
  BY <1>1 DEF avars
<1> HIDE DEF p, f
<1>10. load.got > 0 => load.got + r > 0
  BY SMTT(30), <1>1, <1>3, <1>4
<1>11. LoadOK'
  <2>1. load' \in [month : Months \cup {-1}, pos : 0 .. MaxProbes, got : 0 .. MaxProbes,
                   data : [Slots -> Words], torn : BOOLEAN]
    BY <1>2, <1>5, <1>6, <1>7
  <2>2. /\ load'.month = m /\ load'.pos = p /\ load'.got = load.got + r /\ load'.data = f
        /\ load'.torn = (load.got > 0)
    BY <1>7
  <2> QED BY <1>2, <1>5, <1>8, <1>9, <1>10, <2>1, <2>2 DEF LoadOK
<1>12. date' \in Dates \cup {Unread} /\ DateOK(date')
  BY <1>1 DEF RInv
<1> QED BY <1>1, <1>11, <1>12, SameBlocks, ReaderFrame

(* A block that holds all of its file is right, whatever the date. *)
LEMMA CurrentBlock ==
  ASSUME RInv, NEW m \in Months, NEW b, IsBlock(b), b.upd = date, b.has = TRUE,
         size[Watched][m] # -1,
         b.flaw = "none" =>
            /\ b.from = size[Watched][m]
            /\ \A i \in Slots : b.data[i] = IF i < b.from THEN word[Watched][m][i] ELSE NoData
            /\ \A i \in Slots : i < b.fixed => i < size[Watched][m] \/ ~Before(date, <<m, i>>)
  PROVE  BlockOK(b, m)
<1>1. ASSUME b.flaw = "none" PROVE Prefix(b, m)
  BY SMTT(30), <1>1 DEF Prefix
<1>2. ASSUME b.flaw = "none" PROVE Lasting(b, m)
  <2> SUFFICES ASSUME NEW i \in Slots, i < b.fixed \/ ~Before(date, <<m, i>>)
               PROVE  Settled(m, i) /\ b.data[i] = word[Watched][m][i]
    BY SMTT(30) DEF Lasting
  <2>1. Settled(m, i)
    <3>1. i < size[Watched][m] \/ ~Before(date, <<m, i>>)
      BY SMTT(30), <1>2
    <3> QED BY <3>1, TimeParts, SMTT(30) DEF Settled, RInv, DateOK
  <2>2. CASE i < size[Watched][m]
    BY <1>2, <2>1, <2>2
  <2>3. CASE ~(i < size[Watched][m])
    <3>1. i >= size[Watched][m]
      BY <2>3, TimeParts, SizeType DEF RInv
    <3>2. word[Watched][m][i] = NoData
      BY SMTT(30), <3>1, TimeParts DEF RInv, ArchiveOK
    <3> QED BY <1>2, <2>1, <2>3, <3>2
  <2> QED BY <2>2, <2>3
<1> QED BY <1>1, <1>2, SMTT(30) DEF BlockOK, RInv

(* LoadFromFile is done. *)
LEMMA LoadDoneStep ==
  ASSUME RInv, LoadDone
  PROVE  RInv'
<1> DEFINE m == load.month
           b == [data |-> load.data, has |-> TRUE, from |-> load.got, fixed |-> load.got,
                 first |-> FirstData(load.data), last |-> LastData(load.data),
                 upd |-> date, flaw |-> IF load.torn THEN "load" ELSE "none"]
<1>1. /\ load # NotLoading /\ Readable = 0 /\ AddBlock(m, b) /\ load' = NotLoading
      /\ UNCHANGED <<avars, date>>
  BY DEF LoadDone
<1>2. /\ load \in [month : Months \cup {-1}, pos : 0 .. MaxProbes, got : 0 .. MaxProbes,
                   data : [Slots -> Words], torn : BOOLEAN]
      /\ m \in Months /\ size[Watched][m] # -1 /\ load.pos =< size[Watched][m]
      /\ ~load.torn =>
            /\ load.pos = load.got
            /\ \A i \in Slots : load.data[i] = IF i < load.got THEN word[Watched][m][i] ELSE NoData
  BY <1>1 DEF RInv, LoadOK
<1>3. date \in Dates \cup {Unread}
  BY SMTT(30) DEF RInv
<1>4. ~load.torn => load.got = size[Watched][m]
  <2>1. size[Watched][m] \in -1 .. MaxProbes /\ load.got \in 0 .. MaxProbes /\ load.pos \in 0 .. MaxProbes
    BY SMTT(30), <1>2, TimeParts, SizeType DEF RInv
  <2>2. load.got = MaxProbes \/ Min2(size[Watched][m] - load.pos, MaxProbes - load.got) = 0
    BY <1>1 DEF Readable
  <2> QED BY <1>2, <2>1, <2>2, TimeParts, SMTT(30) DEF Min2
<1>5. b.flaw = "none" => ~load.torn
  BY SMTT(30)
<1>6. IsBlock(b)
  BY SMTT(30), <1>2, <1>3 DEF IsBlock
<1>7. BlockOK(b, m)
  <2>1. /\ b.upd = date /\ b.has = TRUE /\ b.from = load.got /\ b.fixed = load.got
        /\ b.data = load.data
    BY SMTT(30)
  <2> HIDE DEF b, m
  <2> QED BY ZenonT(30), <1>2, <1>4, <1>5, <1>6, <2>1, CurrentBlock
<1>8. LoadOK'
  BY <1>1, TimeParts DEF LoadOK, NotLoading, Empty, Words
<1>9. blk' = [n \in Months |-> blk'[n]] /\ \A n \in Months : BlockOK(blk'[n], n)
  BY <1>1, <1>2, <1>7, AddStep
<1>10. DateOK(date)
  BY SMTT(30) DEF RInv
<1> QED BY <1>1, <1>3, <1>8, <1>9, <1>10, ReaderFrame

(* Refresh, with and without a file. *)
LEMMA RefreshedOK ==
  ASSUME RInv, NEW m \in Months, NEW b, BlockOK(b, m)
  PROVE  BlockOK(Refreshed(b, m), m)
<1> DEFINE n == size[Watched][m]
<1>1. /\ b \in [data : [Slots -> Words \cup {Junk}], has : BOOLEAN, from : 0 .. MaxProbes,
                fixed : 0 .. MaxProbes, first : {b.first}, last : {b.last},
                upd : Dates \cup {Unread}, flaw : {b.flaw}]
      /\ b.has => n # -1
      /\ b.flaw = "none" => Prefix(b, m) /\ (~again => Lasting(b, m))
  BY DEF BlockOK, IsBlock
<1>2. date \in Dates \cup {Unread} /\ DateOK(date) /\ date[1] \in Int /\ date[2] \in 0 .. MaxProbes - 1
  <2>1. date \in Dates \cup {Unread} /\ DateOK(date)
    BY DEF RInv
  <2>2. CASE date \in Dates
    <3>1. date[1] \in Int /\ date[2] \in Slots
      BY <2>2, TimeParts
    <3> QED BY <2>1, <3>1 DEF Slots
  <2>3. CASE date = Unread
    BY <2>1, <2>3, TimeParts
  <2> QED BY <2>1, <2>2, <2>3
<1>3. n \in -1 .. MaxProbes /\ b.from \in 0 .. MaxProbes /\ MaxProbes \in Nat \ {0} /\ m \in Int
  BY SMTT(30), <1>1, TimeParts, SizeType DEF RInv
<1>4. CASE n = -1
  <2> DEFINE fix == IF b.first >= 0 \/ date[1] < m THEN b.fixed
                    ELSE IF date[1] > m THEN MaxProbes ELSE date[2]
             c == [b EXCEPT !.upd = date, !.fixed = fix]
  <2>1. fix \in 0 .. MaxProbes
    BY <1>1, <1>2, <1>3
  <2>2. fix = b.fixed \/ \A i \in Slots : i < fix => ~Before(date, <<m, i>>)
    BY <1>2, <1>3, TimeParts DEF Before, Slots
  <2> HIDE DEF fix
  <2>3. /\ IsBlock(c) /\ c.data = b.data /\ c.has = b.has /\ c.from = b.from /\ c.upd = date
        /\ c.fixed = fix /\ c.flaw = b.flaw
    BY ZenonT(30), <1>1, <1>2, <2>1 DEF IsBlock
  <2> HIDE DEF c
  <2>4. b.has = FALSE
    BY <1>1, <1>4
  <2>5. ASSUME b.flaw = "none" PROVE Prefix(c, m)
    BY SMTT(30), <1>1, <2>3, <2>5 DEF Prefix
  <2>6. ASSUME b.flaw = "none", ~again PROVE Lasting(c, m)
    <3> SUFFICES ASSUME NEW i \in Slots, i < fix \/ ~Before(date, <<m, i>>)
                 PROVE  Settled(m, i) /\ b.data[i] = word[Watched][m][i]
      BY <2>3 DEF Lasting
    <3>1. b.data[i] = NoData
      BY <1>1, <2>4, <2>6 DEF Prefix, Slots
    <3>2. i >= size[Watched][m]
      BY SMTT(30), <1>4, ArchiveAssumption DEF Slots
    <3>3. word[Watched][m][i] = NoData
      BY SMTT(30), <3>2, TimeParts DEF RInv, ArchiveOK
    <3>4. CASE ~Before(date, <<m, i>>)
      BY <1>2, <3>1, <3>3, <3>4, TimeParts DEF Settled, DateOK
    <3>5. CASE i < b.fixed
      BY <1>1, <2>6, <3>5 DEF Lasting
    <3> QED BY <2>2, <3>4, <3>5
  <2>7. BlockOK(c, m)
    BY <1>1, <1>2, <2>3, <2>5, <2>6 DEF BlockOK
  <2>8. RefreshNoFile(b, m) = c
    BY DEF RefreshNoFile, c, fix
  <2> QED BY <1>4, <2>7, <2>8 DEF Refreshed
<1>5. CASE n # -1 /\ n =< b.from
  <2> DEFINE c == RefreshSameSize(b)
  <2>1. ASSUME b.has PROVE BlockOK(c, m)
    <3>1. c = [b EXCEPT !.upd = date, !.has = TRUE, !.data = @, !.flaw = @]
      BY <2>1 DEF RefreshSameSize
    <3>2. /\ IsBlock(c) /\ c.data = b.data /\ c.has = TRUE /\ c.from = b.from /\ c.upd = date
          /\ c.fixed = b.fixed /\ c.flaw = b.flaw
      BY ZenonT(30), <1>1, <1>2, <3>1 DEF IsBlock
    <3> HIDE DEF c
    <3>3. ASSUME b.flaw = "none" PROVE Prefix(c, m)
      BY SMTT(30), <1>1, <3>2, <3>3 DEF Prefix
    <3>4. ASSUME b.flaw = "none", ~again PROVE Lasting(c, m)
      <4> SUFFICES ASSUME NEW i \in Slots, i < b.fixed \/ ~Before(date, <<m, i>>)
                   PROVE  Settled(m, i) /\ b.data[i] = word[Watched][m][i]
        BY <3>2 DEF Lasting
      <4>1. b.data[i] = word[Watched][m][i]
        <5>1. CASE i < b.from
          BY <1>1, <3>4, <5>1 DEF Prefix
        <5>2. CASE ~(i < b.from)
          <6>1. b.data[i] = NoData
            BY <1>1, <3>4, <5>2 DEF Prefix
          <6>2. i >= size[Watched][m]
            BY <1>3, <1>5, <5>2, TimeParts
          <6> QED BY <6>1, <6>2, TimeParts DEF RInv, ArchiveOK
        <5> QED BY <5>1, <5>2
      <4>2. CASE ~Before(date, <<m, i>>)
        BY SMTT(30), <1>2, <4>1, <4>2, TimeParts DEF Settled, DateOK
      <4>3. CASE i < b.fixed
        BY <1>1, <3>4, <4>3 DEF Lasting
      <4> QED BY <4>2, <4>3
    <3> QED BY <1>1, <1>2, <1>5, <3>2, <3>3, <3>4 DEF BlockOK
  <2>2. ASSUME ~b.has PROVE BlockOK(c, m)
    <3> DEFINE j == [i \in Slots |-> Junk]
    <3>1. c = [b EXCEPT !.upd = date, !.has = TRUE, !.data = j, !.flaw = "empty"]
      BY <2>2 DEF RefreshSameSize
    <3>j. j \in [Slots -> Words \cup {Junk}]
      OBVIOUS
    <3> HIDE DEF j, c
    <3>2. c.upd = date /\ c.flaw = "empty" /\ c.first = b.first /\ c.last = b.last
      BY <1>1, <3>1
    <3>3. c \in [data : [Slots -> Words \cup {Junk}], has : BOOLEAN, from : 0 .. MaxProbes,
                 fixed : 0 .. MaxProbes, first : {b.first}, last : {b.last},
                 upd : Dates \cup {Unread}, flaw : {"empty"}]
      BY ZenonT(30), <1>1, <1>2, <3>1, <3>j
    <3>4. IsBlock(c)
      BY <3>2, <3>3 DEF IsBlock
    <3> QED BY <1>2, <1>5, <3>2, <3>4 DEF BlockOK
  <2>3. BlockOK(c, m)
    BY <2>1, <2>2
  <2> HIDE DEF c
  <2>4. b.fixed = MaxProbes \/ b.upd = date \/ Refreshed(b, m) = c
    BY <1>5 DEF Refreshed, c
  <2>5. b.fixed = MaxProbes \/ b.upd = date => Refreshed(b, m) = b
    BY SMTT(30) DEF Refreshed
  <2> QED BY <2>3, <2>4, <2>5
<1>6. CASE n # -1 /\ n > b.from
  <2> DEFINE fix == IF date[1] > m THEN MaxProbes
                    ELSE IF date[1] < m THEN n ELSE Min2(n, date[2] + 1)
             f == [i \in Slots |-> IF ~b.has /\ i >= fix THEN NoData
                                   ELSE IF b.from =< i /\ i < n THEN word[Watched][m][i]
                                   ELSE IF b.has THEN b.data[i] ELSE Junk]
             c == RefreshGrown(b, m)
             flaw == IF b.has \/ fix = n THEN b.flaw ELSE IF fix < n THEN "ahead" ELSE "tail"
  <2>1. \E l : c = [b EXCEPT !.upd = date, !.has = TRUE, !.from = n, !.fixed = fix,
                            !.data = f, !.last = l, !.flaw = flaw]
    BY ZenonT(30) DEF RefreshGrown
  <2>2. fix \in 0 .. MaxProbes
    BY <1>2, <1>3, <1>6 DEF Min2
  <2>3. \A i \in Slots : i < fix => i < n \/ ~Before(date, <<m, i>>)
    BY <1>2, <1>3, <1>6, TimeParts DEF Before, Min2
  <2>4. f \in [Slots -> Words \cup {Junk}]
    <3>1. word[Watched][m] \in [Slots -> Words] /\ NoData \in Words
      BY SMTT(30), TimeParts DEF RInv, ArchiveOK, Words
    <3> QED BY <1>1, <3>1
  <2>5. ASSUME flaw = "none"
        PROVE  \A i \in Slots : f[i] = IF i < n THEN word[Watched][m][i] ELSE NoData
    <3>1. b.flaw = "none" /\ (b.has \/ fix = n)
      BY SMTT(30), <2>5
    <3>2. Prefix(b, m)
      BY <1>1, <3>1
    <3> SUFFICES ASSUME NEW i \in Slots PROVE f[i] = IF i < n THEN word[Watched][m][i] ELSE NoData
      OBVIOUS
    <3>3. i \in Int /\ 0 =< i
      BY ArchiveAssumption DEF Slots
    <3>4. CASE b.has
      <4>1. f[i] = IF b.from =< i /\ i < n THEN word[Watched][m][i] ELSE b.data[i]
        BY <3>4
      <4>2. IF i < b.from THEN b.data[i] = word[Watched][m][i] ELSE b.data[i] = NoData
        BY <3>2 DEF Prefix
      <4> HIDE DEF f, n
      <4> QED BY <1>3, <1>6, <3>3, <4>1, <4>2
    <3>5. CASE ~b.has
      <4>1. b.from = 0 /\ fix = n
        BY <3>1, <3>2, <3>5 DEF Prefix
      <4>2. f[i] = IF i >= n THEN NoData
                   ELSE IF 0 =< i /\ i < n THEN word[Watched][m][i] ELSE Junk
        BY <3>5, <4>1
      <4> HIDE DEF f, n, fix
      <4> QED BY <1>3, <3>3, <4>2
    <3> QED BY <3>4, <3>5
  <2>6. n \in 0 .. MaxProbes
    BY <1>3, <1>6
  <2> HIDE DEF c, f, fix, flaw, n
  <2>7. PICK l : c = [b EXCEPT !.upd = date, !.has = TRUE, !.from = n, !.fixed = fix,
                              !.data = f, !.last = l, !.flaw = flaw]
    BY ZenonT(30), <2>1
  <2>8. /\ c.upd = date /\ c.has = TRUE /\ c.from = n /\ c.fixed = fix /\ c.data = f
        /\ c.flaw = flaw /\ c.first = b.first /\ c.last = l
    BY <1>1, <2>7
  <2>9. c \in [data : [Slots -> Words \cup {Junk}], has : BOOLEAN, from : 0 .. MaxProbes,
               fixed : 0 .. MaxProbes, first : {b.first}, last : {l},
               upd : Dates \cup {Unread}, flaw : {flaw}]
    BY ZenonT(30), <1>1, <1>2, <2>2, <2>4, <2>6, <2>7
  <2>10. IsBlock(c)
    BY <2>8, <2>9 DEF IsBlock
  <2>11. BlockOK(c, m)
    <3>1. n = size[Watched][m]
      BY DEF n
    <3> QED BY ZenonT(30), <1>6, <2>3, <2>5, <2>8, <2>10, <3>1, CurrentBlock
  <2>12. b.fixed = MaxProbes \/ b.upd = date \/ Refreshed(b, m) = c
    BY <1>3, <1>6 DEF Refreshed, c, n
  <2>13. b.fixed = MaxProbes \/ b.upd = date => Refreshed(b, m) = b
    BY DEF Refreshed
  <2> QED BY <2>11, <2>12, <2>13
<1> QED BY <1>3, <1>4, <1>5, <1>6

(* A cached block is used. *)
LEMMA GetCachedStep ==
  ASSUME RInv, NEW m \in Months, GetCached(m)
  PROVE  RInv'
<1>1. blk' = [blk EXCEPT ![m] = Refreshed(blk[m], m)] /\ UNCHANGED <<avars, date, load>>
  BY DEF GetCached
<1>2. blk = [n \in Months |-> blk[n]] /\ \A n \in Months : BlockOK(blk[n], n)
  BY DEF RInv
<1>3. BlockOK(Refreshed(blk[m], m), m)
  BY <1>2, RefreshedOK
<1>4. blk' = [n \in Months |-> IF n = m THEN Refreshed(blk[m], m) ELSE blk[n]]
  BY <1>1, <1>2
<1>5. blk' = [n \in Months |-> blk'[n]] /\ \A n \in Months : BlockOK(blk'[n], n)
  BY <1>2, <1>3, <1>4
<1>6. date \in Dates \cup {Unread} /\ DateOK(date)
  BY DEF RInv
<1> QED BY <1>1, <1>5, <1>6, SameLoad, ReaderFrame

(* Every step keeps the invariant. *)
LEMMA StepInv == RInv /\ [RNext]_rvars => RInv'
<1> SUFFICES ASSUME RInv, [RNext]_rvars PROVE RInv'
  OBVIOUS
<1>1. CASE RStep
  BY <1>1, QueryStep, LoadReadStep, LoadDoneStep, NewWithoutFileStep, NewFromFileStep, GetCachedStep
     DEF RStep
<1>2. CASE ANext /\ UNCHANGED reader
  BY <1>2, WriterStep
<1>3. CASE UNCHANGED rvars
  <2>1. UNCHANGED <<avars, date, load, blk>>
    BY <1>3 DEF rvars, reader
  <2>2. date' \in Dates \cup {Unread} /\ DateOK(date')
    BY <2>1 DEF RInv
  <2> QED BY <2>1, <2>2, SameLoad, SameBlocks, ReaderFrame
<1> QED BY <1>1, <1>2, <1>3 DEF RNext

-----------------------------------------------------------------------------
(* Every nonempty set of numbers has a least element, and a greatest one if *)
(* it is bounded.                                                           *)
LEMMA Least ==
  ASSUME NEW S \in SUBSET Nat, S # {}
  PROVE  \E m \in S : \A n \in S : m =< n
<1> DEFINE R == {ss \in Nat \X Nat : ss[1] < ss[2]}
<1>1. IsWellFoundedOn(R, Nat)
  BY NatLessThanWellFounded DEF OpToRel
<1>2. \A n, m \in Nat : n < m => <<n, m>> \in R
  OBVIOUS
<1> HIDE DEF R
<1>3. PICK m \in S : \A n \in S : <<n, m>> \notin R
  BY <1>1, WFMin, ZenonT(30)
<1>4. ASSUME NEW n \in S PROVE m =< n
  <2>1. n \in Nat /\ m \in Nat /\ ~(n < m)
    BY <1>2, <1>3, ZenonT(30)
  <2> QED BY <2>1
<1> QED BY <1>4

(* A bounded set of numbers has a greatest one.                            *)
LEMMA Greatest ==
  ASSUME NEW S \in SUBSET Nat, S # {}, NEW N \in Nat, \A n \in S : n =< N
  PROVE  \E m \in S : \A n \in S : n =< m
<1> DEFINE U == {k \in Nat : \A n \in S : n =< k}
<1>1. PICK k \in U : \A u \in U : k =< u
  BY Least, ZenonT(30)
<1>2. k \in Nat /\ \A n \in S : n =< k
  BY <1>1
<1>3. ASSUME k \notin S PROVE FALSE
  <2>1. \A n \in S : n \in Nat /\ n =< k - 1
    BY <1>2, <1>3
  <2>2. k - 1 \in Nat
    <3>1. PICK n \in S : TRUE
      BY ZenonT(30)
    <3>2. n \in Nat /\ n =< k - 1
      BY <2>1
    <3> QED BY <1>2, <3>2
  <2>3. k - 1 \in U
    BY <2>1, <2>2
  <2> QED BY <1>1, <1>2, <2>3
<1> QED BY <1>2, <1>3

(* LoadFromFile: the data lie between the first and the last index.        *)
Spanned(b) ==
  b.data[b.first] # NoData /\ \A i \in Slots : b.data[i] # NoData => b.first =< i /\ i =< b.last

(* The first and the last data of a block.                                 *)
LEMMA DataEnds ==
  ASSUME NEW data
  PROVE  /\ FirstData(data) \in Slots \cup {-1} /\ LastData(data) \in Slots \cup {-1}
         /\ FirstData(data) = -1 => \A i \in Slots : data[i] = NoData
         /\ FirstData(data) # -1 =>
              /\ data[FirstData(data)] # NoData
              /\ \A i \in Slots : data[i] # NoData => FirstData(data) =< i /\ i =< LastData(data)
<1> DEFINE S == {i \in Slots : data[i] # NoData}
<1>0. Slots \subseteq Nat /\ (\A i \in Slots : i =< MaxProbes) /\ MaxProbes \in Nat
  BY ArchiveAssumption DEF Slots
<1>1. CASE S = {}
  <2>1. FirstData(data) = -1 /\ LastData(data) = -1 /\ \A i \in Slots : data[i] = NoData
    BY <1>1 DEF FirstData, LastData
  <2> QED BY <2>1
<1>2. CASE S # {}
  <2>1. PICK f \in S : \A i \in S : f =< i
    BY <1>0, <1>2, Least, ZenonT(30)
  <2>2. PICK l \in S : \A i \in S : i =< l
    BY <1>0, <1>2, Greatest, ZenonT(30)
  <2>3. \E i \in Slots : data[i] # NoData /\ \A j \in Slots : j < i => data[j] = NoData
    BY <1>0, <2>1
  <2>4. \E i \in Slots : data[i] # NoData /\ \A j \in Slots : j > i => data[j] = NoData
    BY <1>0, <2>2
  <2>5. /\ FirstData(data) \in Slots /\ data[FirstData(data)] # NoData
        /\ \A j \in Slots : j < FirstData(data) => data[j] = NoData
    BY <1>2, <2>3, Zenon DEF FirstData
  <2>6. /\ LastData(data) \in Slots /\ \A j \in Slots : j > LastData(data) => data[j] = NoData
    BY <1>2, <2>4, Zenon DEF LastData
  <2>7. \A i \in Slots : data[i] # NoData => FirstData(data) =< i /\ i =< LastData(data)
    <3> SUFFICES ASSUME NEW F \in Slots, NEW L \in Slots, NEW i \in Slots,
                        ~(i < F), ~(i > L)
                 PROVE  F =< i /\ i =< L
      BY <2>5, <2>6
    <3> QED BY TimeParts
  <2>8. FirstData(data) # -1
    BY <1>0, <2>5
  <2> QED BY <2>5, <2>6, <2>7, <2>8
<1> QED BY <1>1, <1>2

-----------------------------------------------------------------------------
Flaws == {"none", "load", "empty", "ahead", "tail"}

\* First and last are those of the data, unless the block has a flaw.
SpanOK(b) ==
  /\ b.first \in Slots \cup {-1} /\ b.last \in Slots \cup {-1}
  /\ b.upd \in Dates /\ b.flaw \in Flaws
  /\ b.first # -1 => b.has
  /\ b.flaw = "none" /\ b.first # -1 => Spanned(b)

\* Every block does, the list of blocks is no longer than the cache, and a
\* file is only read after the date of the base.
SpanInv ==
  /\ load # NotLoading => date # Unread
  /\ \A m \in Months : SpanOK(blk[m])
  /\ lru \in Seq(Months) /\ Len(lru) =< MaxBlocks

(* The block that is not there has no data.                                *)
LEMMA NoBlockSpan == SpanOK(NoBlock)
BY TimeParts DEF SpanOK, NoBlock, Flaws

(* SpanInv holds initially.                                                *)
LEMMA SpanInit == RInit => SpanInv
<1> SUFFICES ASSUME RInit PROVE SpanInv
  OBVIOUS
<1>1. load = NotLoading /\ lru = <<>> /\ \A m \in Months : blk[m] = NoBlock
  BY DEF RInit
<1> QED BY <1>1, NoBlockSpan, ReaderAssumption DEF SpanInv

(* The buffer holds no more blocks than it may.                            *)
LEMMA AddSpan ==
  ASSUME SpanInv, NEW m \in Months, NEW b, SpanOK(b), AddBlock(m, b)
  PROVE  /\ \A n \in Months : SpanOK(blk'[n])
         /\ lru' \in Seq(Months) /\ Len(lru') =< MaxBlocks
<1>1. lru \in Seq(Months) /\ Len(lru) =< MaxBlocks /\ Len(lru) \in Nat /\ MaxBlocks \in Nat \ {0}
  BY ReaderAssumption, SMTT(30) DEF SpanInv
<1>2. \A n \in Months : blk'[n] \in {b, NoBlock, blk[n]}
  BY DEF AddBlock
<1>3. \A n \in Months : SpanOK(blk'[n])
  BY <1>2, NoBlockSpan, SMTT(30) DEF SpanInv
<1>4. CASE Len(lru) >= MaxBlocks
  <2>1. lru' = Append(Tail(lru), m) /\ lru # <<>>
    BY <1>1, <1>4 DEF AddBlock
  <2>2. Tail(lru) \in Seq(Months) /\ Len(Tail(lru)) = Len(lru) - 1
    BY <1>1, <2>1
  <2>3. lru' \in Seq(Months) /\ Len(lru') = Len(Tail(lru)) + 1
    BY <2>1, <2>2
  <2> QED BY <1>1, <1>3, <2>2, <2>3
<1>5. CASE ~(Len(lru) >= MaxBlocks)
  <2>1. lru' = Append(lru, m)
    BY <1>5 DEF AddBlock
  <2>3. lru' \in Seq(Months) /\ Len(lru') = Len(lru) + 1
    BY <1>1, <2>1, SMTT(30)
  <2> QED BY <1>1, <1>3, <1>5, <2>3
<1> QED BY <1>4, <1>5

(* A block that is used becomes the newest.                                *)
LEMMA Renewed ==
  ASSUME SpanInv, NEW m \in Months, NEW k \in 1 .. Len(lru),
         lru' = Append(SubSeq(lru, 1, k - 1) \o SubSeq(lru, k + 1, Len(lru)), m)
  PROVE  lru' \in Seq(Months) /\ Len(lru') =< MaxBlocks
<1> DEFINE s == SubSeq(lru, 1, k - 1)
           t == SubSeq(lru, k + 1, Len(lru))
<1>1. lru \in Seq(Months) /\ Len(lru) =< MaxBlocks /\ Len(lru) \in Nat /\ k \in Nat
  BY DEF SpanInv
<1>2. s \in Seq(Months) /\ t \in Seq(Months) /\ Len(s) = k - 1 /\ Len(t) = Len(lru) - k
  BY <1>1
<1> HIDE DEF s, t
<1>3. (s \o t) \in Seq(Months) /\ Len(s \o t) = Len(s) + Len(t)
  BY <1>2
<1>4. Append(s \o t, m) \in Seq(Months) /\ Len(Append(s \o t, m)) = Len(s \o t) + 1
  BY <1>3
<1>5. lru' = Append(s \o t, m)
  BY DEF s, t
<1>6. (k - 1) + (Len(lru) - k) + 1 = Len(lru)
  BY <1>1, SMTT(30)
<1> QED BY <1>1, <1>2, <1>3, <1>4, <1>5, <1>6, ZenonT(30)

(* Refresh: the last index moves on with the data that are read.           *)
LEMMA RefreshedSpan ==
  ASSUME RInv, date # Unread, NEW m \in Months, NEW b, BlockOK(b, m), SpanOK(b)
  PROVE  SpanOK(Refreshed(b, m))
<1> DEFINE n == size[Watched][m]
           r == Refreshed(b, m)
<1>0. date \in Dates
  BY DEF RInv
<1>1. /\ b \in [data : [Slots -> Words \cup {Junk}], has : BOOLEAN, from : 0 .. MaxProbes,
                fixed : 0 .. MaxProbes, first : {b.first}, last : {b.last},
                upd : Dates \cup {Unread}, flaw : {b.flaw}]
      /\ b.flaw = "none" => Prefix(b, m)
  BY DEF BlockOK, IsBlock
<1>2. CASE r = b
  BY <1>2
<1>3. CASE r = RefreshNoFile(b, m)
  <2>1. /\ r.upd = date /\ r.first = b.first /\ r.last = b.last /\ r.has = b.has
        /\ r.flaw = b.flaw /\ r.data = b.data
    BY <1>1, <1>3, Zenon DEF RefreshNoFile
  <2> HIDE DEF r
  <2>2. b.flaw = "none" /\ b.first # -1 => Spanned(r)
    BY <2>1, Zenon DEF SpanOK, Spanned
  <2>3. SpanOK(r)
    BY <1>0, <2>1, <2>2, Zenon DEF SpanOK
  <2> QED BY <2>3 DEF r
<1>4. CASE r = RefreshSameSize(b)
  <2>1. /\ r.upd = date /\ r.first = b.first /\ r.last = b.last /\ r.has = TRUE
        /\ r.flaw = (IF b.has THEN b.flaw ELSE "empty")
        /\ b.has => r.data = b.data
    BY <1>1, <1>4 DEF RefreshSameSize
  <2> HIDE DEF r
  <2>2. r.flaw \in Flaws /\ (r.flaw = "none" => b.has /\ b.flaw = "none")
    BY <2>1 DEF SpanOK, Flaws
  <2>3. r.flaw = "none" /\ b.first # -1 => Spanned(r)
    BY <2>1, <2>2, Zenon DEF SpanOK, Spanned
  <2>4. SpanOK(r)
    BY <1>0, <2>1, <2>2, <2>3, Zenon DEF SpanOK
  <2> QED BY <2>4 DEF r
<1>5. CASE r = RefreshGrown(b, m) /\ n > b.from
  <2> DEFINE w(i) == word[Watched][m][i]
             found == {i \in b.from .. n - 1 : w(i) # NoData}
             last == IF found = {} THEN b.last ELSE CHOOSE i \in found : \A j \in found : j =< i
  <2>1. /\ r.upd = date /\ r.first = b.first /\ r.has = TRUE /\ r.last = last
        /\ r.flaw \in Flaws /\ (r.flaw = "none" => b.flaw = "none")
        /\ b.has => \A i \in Slots : r.data[i] = IF b.from =< i /\ i < n THEN w(i) ELSE b.data[i]
    BY <1>1, <1>5 DEF RefreshGrown, SpanOK, Flaws
  <2>2. b.from \in 0 .. MaxProbes /\ n \in -1 .. MaxProbes /\ MaxProbes \in Nat
    BY <1>1, SizeType, TimeParts, SMTT(30) DEF RInv
  <2>3. /\ last \in Slots \cup {-1}
        /\ found # {} => last \in found /\ \A j \in found : j =< last
    <3>1. found \subseteq Nat /\ (\A i \in found : i =< MaxProbes /\ i \in Slots)
      BY <2>2, SMTT(30) DEF Slots
    <3>2. CASE found = {}
      BY <3>2, ZenonT(30) DEF SpanOK
    <3>3. CASE found # {}
      <4> HIDE DEF found
      <4>1. \E i \in found : \A j \in found : j =< i
        BY <2>2, <3>1, <3>3, Greatest, ZenonT(30)
      <4> QED BY <3>1, <3>3, <4>1, Zenon
    <3> QED BY <3>2, <3>3, ZenonT(30)
  <2> HIDE DEF r, last
  <2>4. ASSUME r.flaw = "none", r.first # -1 PROVE Spanned(r)
    <3>1. b.has /\ Spanned(b) /\ Prefix(b, m) /\ b.first \in Slots
      BY <1>1, <2>1, <2>4 DEF SpanOK
    <3>2. \A i \in Slots : b.data[i] # NoData => i < b.from /\ b.first =< i /\ i =< b.last
      BY <3>1, SMTT(30) DEF Spanned, Prefix
    <3>3. b.first < b.from
      BY <3>1, <3>2, SMTT(30) DEF Spanned
    <3>4. r.data[b.first] = b.data[b.first]
      BY <2>1, <2>2, <3>1, <3>3, SMTT(30) DEF Slots
    <3>5. ASSUME NEW i \in Slots, r.data[i] # NoData PROVE b.first =< i /\ i =< last
      <4>0. i \in Nat /\ b.first \in Nat
        BY <3>1, TimeParts DEF Slots
      <4>1. CASE b.from =< i /\ i < n
        <5>1. i \in found
          BY <2>1, <2>2, <3>1, <3>5, <4>0, <4>1
        <5> QED BY <2>2, <2>3, <3>3, <4>0, <4>1, <5>1, SMTT(30)
      <4>2. CASE ~(b.from =< i /\ i < n)
        <5>1. b.data[i] # NoData
          BY <2>1, <3>1, <3>5, <4>2, SMTT(30)
        <5>2. i < b.from /\ b.first =< i /\ i =< b.last
          BY <3>2, <5>1
        <5>3. CASE found = {}
          BY <5>2, <5>3, SMTT(30) DEF last
        <5>4. CASE found # {}
          <6>1. last \in Int /\ b.from =< last
            BY <2>2, <2>3, <5>4
          <6> QED BY <2>2, <4>0, <5>2, <6>1
        <5> QED BY <5>3, <5>4, SMTT(30)
      <4> QED BY <4>1, <4>2, SMTT(30)
    <3> QED BY <2>1, <3>1, <3>4, <3>5 DEF Spanned
  <2>5. r.last \in Slots \cup {-1} /\ r.first \in Slots \cup {-1}
    BY <2>1, <2>3, Zenon DEF SpanOK
  <2>6. SpanOK(r)
    BY <1>0, <2>1, <2>4, <2>5, Zenon DEF SpanOK
  <2> QED BY <2>6 DEF r
<1>6. \/ r = b \/ r = RefreshNoFile(b, m) \/ r = RefreshSameSize(b)
      \/ r = RefreshGrown(b, m) /\ n > b.from
  <2>1. n \in Int /\ b.from \in Int
    BY <1>1, SizeType, TimeParts DEF RInv
  <2> QED BY <2>1 DEF Refreshed
<1> QED BY <1>2, <1>3, <1>4, <1>5, <1>6

(* Every step keeps the types and the spans.                               *)
LEMMA SpanStep == RInv /\ SpanInv /\ [RNext]_rvars => SpanInv'
<1> SUFFICES ASSUME RInv, SpanInv, [RNext]_rvars PROVE SpanInv'
  OBVIOUS
<1>1. CASE NextQuery \/ GetMeanerDate
  <2>1. UNCHANGED <<load, blk, lru>> /\ load = NotLoading
    BY <1>1 DEF NextQuery, GetMeanerDate
  <2> QED BY <2>1 DEF SpanInv
<1>2. CASE LoadRead
  <2>1. UNCHANGED <<date, blk, lru>> /\ date # Unread
    BY <1>2 DEF LoadRead, SpanInv
  <2> QED BY <2>1 DEF SpanInv
<1>3. CASE LoadDone
  <2> DEFINE b == [data |-> load.data, has |-> TRUE, from |-> load.got, fixed |-> load.got,
                   first |-> FirstData(load.data), last |-> LastData(load.data),
                   upd |-> date, flaw |-> IF load.torn THEN "load" ELSE "none"]
  <2>1. load # NotLoading /\ AddBlock(load.month, b) /\ load' = NotLoading
    BY <1>3 DEF LoadDone
  <2>2. load.month \in Months /\ date \in Dates
    BY <2>1 DEF RInv, LoadOK, SpanInv
  <2>3. SpanOK(b)
    <3>1. /\ b.data = load.data /\ b.first = FirstData(load.data) /\ b.last = LastData(load.data)
          /\ b.has = TRUE /\ b.upd = date /\ b.flaw \in Flaws
      BY SMTT(30) DEF Flaws
    <3> HIDE DEF b
    <3>2. b.first # -1 => Spanned(b)
      BY <3>1, DataEnds, SMTT(30) DEF Spanned
    <3> QED BY <2>2, <3>1, <3>2, DataEnds, Zenon DEF SpanOK
  <2> HIDE DEF b
  <2> QED BY <2>1, <2>2, <2>3, AddSpan, SMTT(30) DEF SpanInv
<1>4. ASSUME NEW m \in Months, NewWithoutFile(m) PROVE SpanInv'
  <2>1. PICK fix : AddBlock(m, [NoBlock EXCEPT !.upd = date, !.fixed = fix])
    BY <1>4, Zenon DEF NewWithoutFile
  <2>2. UNCHANGED <<date, load>> /\ date \in Dates
    BY <1>4 DEF NewWithoutFile, RInv
  <2> DEFINE b == [NoBlock EXCEPT !.upd = date, !.fixed = fix]
  <2>3. SpanOK(b)
    <3>1. b.first = -1 /\ b.last = -1 /\ b.upd = date /\ b.flaw = "none"
      BY DEF NoBlock
    <3> HIDE DEF b
    <3> QED BY <2>2, <3>1 DEF SpanOK, Flaws
  <2> HIDE DEF b
  <2>4. AddBlock(m, b)
    BY <2>1 DEF b
  <2> QED BY <2>2, <2>3, <2>4, AddSpan DEF SpanInv
<1>5. ASSUME NEW m \in Months, NewFromFile(m) PROVE SpanInv'
  <2>1. UNCHANGED <<date, blk, lru>> /\ date # Unread
    BY <1>5 DEF NewFromFile
  <2> QED BY <2>1 DEF SpanInv
<1>6. ASSUME NEW m \in Months, GetCached(m) PROVE SpanInv'
  <2>1. /\ date # Unread /\ blk' = [blk EXCEPT ![m] = Refreshed(blk[m], m)] /\ UNCHANGED <<date, load>>
        /\ \E k \in 1 .. Len(lru) :
              lru' = Append(SubSeq(lru, 1, k - 1) \o SubSeq(lru, k + 1, Len(lru)), m)
    BY <1>6, ZenonT(30) DEF GetCached
  <2>2. SpanOK(Refreshed(blk[m], m))
    BY <2>1, RefreshedSpan DEF RInv, SpanInv
  <2>3. ASSUME NEW n \in Months PROVE SpanOK(blk'[n])
    <3>1. blk'[n] = IF n = m THEN Refreshed(blk[m], m) ELSE blk[n]
      BY <2>1 DEF RInv
    <3> QED BY <2>2, <3>1 DEF SpanInv
  <2>4. lru' \in Seq(Months) /\ Len(lru') =< MaxBlocks
    BY <2>1, Renewed, ZenonT(30)
  <2> QED BY <2>1, <2>3, <2>4, ZenonT(30) DEF SpanInv
<1>7. CASE UNCHANGED reader
  <2>1. UNCHANGED <<date, load, blk, lru>>
    BY <1>7 DEF reader
  <2> QED BY <2>1 DEF SpanInv
<1>8. CASE UNCHANGED rvars
  BY <1>7, <1>8 DEF rvars
<1> QED BY <1>1, <1>2, <1>3, <1>4, <1>5, <1>6, <1>7, <1>8 DEF RNext, RStep

(* RInv and SpanInv are invariants.                                        *)
LEMMA InvAlways == RSpec => [](RInv /\ SpanInv)
<1>1. RInit => RInv /\ SpanInv
  BY InitInv, SpanInit
<1>2. RInv /\ SpanInv /\ [RNext]_rvars => (RInv /\ SpanInv)'
  BY StepInv, SpanStep
<1> QED BY <1>1, <1>2, PTL DEF RSpec

-----------------------------------------------------------------------------
(* A time is a month and an index in it.                                   *)
LEMMA Multiples == \A k, l, n \in Int : k =< l /\ n >= 0 => k * n =< l * n
OBVIOUS

(* A time has one month and one index.                                     *)
LEMMA SplitTime ==
  ASSUME NEW t \in AllTimes
  PROVE  /\ MonthOf(t) \in Months /\ IndexOf(t) \in Slots /\ t = ToTime(IndexOf(t), MonthOf(t))
<1>1. MaxProbes \in Nat \ {0} /\ LastMonth \in Nat /\ t \in Nat /\ t < (LastMonth + 1) * MaxProbes
  BY ArchiveAssumption DEF AllTimes
<1> DEFINE m == MonthOf(t)
           i == IndexOf(t)
<1>2. m \in Int /\ i \in 0 .. MaxProbes - 1 /\ t = m * MaxProbes + i
  BY <1>1 DEF MonthOf, IndexOf
<1> HIDE DEF m, i
<1>3. m >= 0
  <2> SUFFICES ASSUME m =< -1 PROVE FALSE
    BY <1>2
  <2>1. m * MaxProbes =< (-1) * MaxProbes
    BY <1>1, <1>2, Multiples
  <2> QED BY <1>1, <1>2, <2>1
<1>4. m =< LastMonth
  <2> SUFFICES ASSUME LastMonth + 1 =< m PROVE FALSE
    BY <1>1, <1>2
  <2>1. (LastMonth + 1) * MaxProbes =< m * MaxProbes
    BY <1>1, <1>2, Multiples
  <2> QED BY <1>1, <1>2, <2>1
<1> QED BY <1>1, <1>2, <1>3, <1>4 DEF m, i, Months, Slots, ToTime

(* The times of a month, and its neighbours.                               *)
LEMMA MonthTimes ==
  ASSUME NEW m \in Months, NEW i \in Slots
  PROVE  /\ ToTime(i, m) \in AllTimes /\ MonthOf(ToTime(i, m)) = m /\ IndexOf(ToTime(i, m)) = i
<1>1. MaxProbes \in Nat \ {0} /\ LastMonth \in Nat /\ m \in Nat /\ m =< LastMonth /\ i \in 0 .. MaxProbes - 1
  BY ArchiveAssumption DEF Months, Slots
<1>2. 0 =< m * MaxProbes /\ m * MaxProbes =< LastMonth * MaxProbes /\ m * MaxProbes \in Int
  BY <1>1, Multiples
<1>3. (LastMonth + 1) * MaxProbes = LastMonth * MaxProbes + MaxProbes /\ LastMonth * MaxProbes \in Int
  BY <1>1
<1>4. ToTime(i, m) \in AllTimes
  BY <1>1, <1>2, <1>3 DEF ToTime, AllTimes
<1>5. MonthOf(ToTime(i, m)) = m /\ IndexOf(ToTime(i, m)) = i
  BY <1>1 DEF ToTime, MonthOf, IndexOf
<1> QED BY <1>4, <1>5

(* The times of a month.                                                   *)
LEMMA SameMonth ==
  ASSUME NEW m \in Months, NEW u \in AllTimes, ToTime(0, m) =< u, u < ToTime(MaxProbes, m)
  PROVE  MonthOf(u) = m /\ IndexOf(u) = u - ToTime(0, m)
<1>1. MaxProbes \in Nat \ {0} /\ m \in Nat /\ u \in Nat /\ m * MaxProbes \in Int
  BY ArchiveAssumption DEF Months, AllTimes
<1> DEFINE i == u - m * MaxProbes
<1>2. i \in Slots /\ u = ToTime(i, m)
  BY <1>1, SMTT(30) DEF ToTime, Slots
<1>3. MonthOf(u) = m /\ IndexOf(u) = i
  BY <1>2, MonthTimes
<1> QED BY <1>1, <1>3 DEF ToTime

\* The blocks show something at time t.
Shown(block, t) == block[MonthOf(t)].data[IndexOf(t)] # NoData

\* What the search needs to know of the blocks.
Searchable(block) ==
  \A m \in Months :
     /\ block[m].first \in Slots \cup {-1} /\ block[m].last \in Slots \cup {-1}
     /\ block[m].first = -1 => \A i \in Slots : block[m].data[i] = NoData
     /\ block[m].first # -1 => Spanned(block[m])
     /\ \A i \in Slots : block[m].data[i] # NoData => i < size[Watched][m]

\* Nothing is shown from t on, up to and including u.
Blank(block, t, u) == \A x \in AllTimes : t =< x /\ x =< u => ~Shown(block, x)

\* v is the last time shown between end and t, or -1.
LastShown(block, end, t, v) ==
  \/ v = -1 /\ Blank(block, end, t)
  \/ v \in AllTimes /\ Shown(block, v) /\ end =< v /\ v =< t /\ Blank(block, v + 1, t)

\* v is the first time shown between t and end, or -1.
FirstShown(block, end, t, v) ==
  \/ v = -1 /\ Blank(block, t, end)
  \/ v \in AllTimes /\ Shown(block, v) /\ t =< v /\ v =< end /\ Blank(block, t, v - 1)

(* Which parts of a month are blank: all of it when it has no first index, *)
(* what lies before the first and what lies after the last otherwise.      *)
LEMMA BlankParts ==
  ASSUME NEW block, Searchable(block), NEW m \in Months
  PROVE  /\ block[m].first < 0 => Blank(block, ToTime(0, m), ToTime(MaxProbes - 1, m))
         /\ block[m].first >= 0 =>
              /\ Blank(block, ToTime(0, m), ToTime(block[m].first, m) - 1)
              /\ Blank(block, ToTime(block[m].last, m) + 1, ToTime(MaxProbes - 1, m))
<1> DEFINE F == block[m].first
           L == block[m].last
           d == block[m].data
           z == ToTime(0, m)
<1>1. /\ F \in Slots \cup {-1} /\ L \in Slots \cup {-1}
      /\ F = -1 => \A i \in Slots : d[i] = NoData
      /\ F # -1 => \A i \in Slots : d[i] # NoData => F =< i /\ i =< L
  BY DEF Searchable, Spanned
<1>2. MaxProbes \in Nat \ {0} /\ m * MaxProbes \in Int
  BY ArchiveAssumption DEF Months
<1>3. z \in Int /\ \A i \in Int : ToTime(i, m) = z + i
  BY <1>2 DEF ToTime
<1>s. \A i : i \in Slots <=> i \in 0 .. MaxProbes - 1
  BY DEF Slots
<1>4. ASSUME NEW x \in AllTimes, z =< x, x =< z + (MaxProbes - 1)
      PROVE  x \in Int /\ x - z \in Slots /\ (Shown(block, x) <=> d[x - z] # NoData)
  <2>0. x \in Int
    BY DEF AllTimes
  <2>1. x < ToTime(MaxProbes, m)
    BY <1>2, <1>3, <1>4, <2>0
  <2>2. MonthOf(x) = m /\ IndexOf(x) = x - z
    BY <1>4, <2>1, SameMonth
  <2>3. x - z \in Slots
    BY <1>2, <1>3, <1>4, <1>s, <2>0
  <2> QED BY <2>0, <2>2, <2>3 DEF Shown
<1>f. F \in -1 .. MaxProbes - 1 /\ L \in -1 .. MaxProbes - 1
  <2> HIDE DEF F, L
  <2> QED BY <1>1, <1>2, <1>s
<1> HIDE DEF F, L, d, z
<1>t. /\ ToTime(MaxProbes - 1, m) = z + (MaxProbes - 1)
      /\ ToTime(F, m) = z + F /\ ToTime(L, m) = z + L
  BY <1>2, <1>3, <1>f
<1>5. ASSUME F < 0 PROVE Blank(block, z, ToTime(MaxProbes - 1, m))
  <2>1. F = -1
    BY <1>2, <1>5, <1>f
  <2> QED BY <1>1, <1>4, <1>t, <2>1, ZenonT(30) DEF Blank
<1>6. ASSUME F >= 0
      PROVE  /\ Blank(block, z, ToTime(F, m) - 1)
             /\ Blank(block, ToTime(L, m) + 1, ToTime(MaxProbes - 1, m))
  <2>1. \A i \in Slots : d[i] # NoData => F =< i /\ i =< L
    BY <1>1, <1>6
  <2>3. ASSUME NEW x \in AllTimes, z =< x, x =< (z + F) - 1 PROVE ~Shown(block, x)
    <3>0. x \in Int
      BY DEF AllTimes
    <3>1. x =< z + (MaxProbes - 1) /\ ~(F =< x - z)
      BY <1>2, <1>3, <1>f, <2>3, <3>0
    <3> QED BY <1>4, <2>1, <2>3, <3>1, SMTT(30)
  <2>4. ASSUME NEW x \in AllTimes, (z + L) + 1 =< x, x =< z + (MaxProbes - 1) PROVE ~Shown(block, x)
    <3>0. x \in Int
      BY DEF AllTimes
    <3>1. z =< x /\ ~(x - z =< L)
      BY <1>2, <1>3, <1>f, <2>4, <3>0
    <3> QED BY <1>4, <2>1, <2>4, <3>1
  <2> QED BY <1>t, <2>3, <2>4, Zenon DEF Blank
<1> QED BY <1>5, <1>6 DEF F, L, z

(* What is blank is blank in part.                                         *)
LEMMA BlankWithin ==
  ASSUME NEW block, NEW t \in Int, NEW u \in Int, Blank(block, t, u), NEW v \in Int, NEW w \in Int, t =< v, w =< u
  PROVE  Blank(block, v, w)
<1>1. AllTimes \subseteq Int
  BY ArchiveAssumption DEF AllTimes
<1> QED BY <1>1 DEF Blank

(* A search to the left may skip what is blank.                            *)
LEMMA LastShownMoves ==
  ASSUME NEW block, NEW end \in Nat, NEW t \in Int, NEW u \in Int, u =< t, Blank(block, u + 1, t),
         NEW v, LastShown(block, end, u, v)
  PROVE  LastShown(block, end, t, v)
<1>1. AllTimes \subseteq Int
  BY ArchiveAssumption DEF AllTimes
<1>2. CASE v = -1 /\ Blank(block, end, u)
  <2> SUFFICES ASSUME NEW x \in AllTimes, end =< x, x =< t, ~(u + 1 =< x /\ x =< t) PROVE ~Shown(block, x)
    BY <1>2 DEF LastShown, Blank
  <2>1. x =< u
    BY <1>1
  <2> QED BY <1>2, <2>1 DEF Blank
<1>3. CASE v \in AllTimes /\ Shown(block, v) /\ end =< v /\ v =< u /\ Blank(block, v + 1, u)
  <2>1. v =< t
    BY <1>1, <1>3
  <2> SUFFICES ASSUME NEW x \in AllTimes, v + 1 =< x, x =< t, ~(u + 1 =< x /\ x =< t) PROVE ~Shown(block, x)
    BY <1>3, <2>1 DEF LastShown, Blank
  <2>2. x =< u
    BY <1>1
  <2> QED BY <1>3, <2>2 DEF Blank
<1> QED BY <1>2, <1>3 DEF LastShown

(* A search to the right may skip what is blank.                           *)
LEMMA FirstShownMoves ==
  ASSUME NEW block, NEW end \in Int, NEW t \in Int, NEW u \in Int, t =< u, Blank(block, t, u - 1),
         NEW v, FirstShown(block, end, u, v)
  PROVE  FirstShown(block, end, t, v)
<1>1. AllTimes \subseteq Int
  BY ArchiveAssumption DEF AllTimes
<1>2. CASE v = -1 /\ Blank(block, u, end)
  <2> SUFFICES ASSUME NEW x \in AllTimes, t =< x, x =< end, ~(t =< x /\ x =< u - 1) PROVE ~Shown(block, x)
    BY <1>2 DEF FirstShown, Blank
  <2>1. u =< x
    BY <1>1
  <2> QED BY <1>2, <2>1 DEF Blank
<1>3. CASE v \in AllTimes /\ Shown(block, v) /\ u =< v /\ v =< end /\ Blank(block, u, v - 1)
  <2>1. t =< v
    BY <1>1, <1>3
  <2> SUFFICES ASSUME NEW x \in AllTimes, t =< x, x =< v - 1, ~(t =< x /\ x =< u - 1) PROVE ~Shown(block, x)
    BY <1>3, <2>1 DEF FirstShown, Blank
  <2>2. u =< x
    BY <1>1
  <2> QED BY <1>3, <2>2 DEF Blank
<1> QED BY <1>2, <1>3 DEF FirstShown

\* One step of search_in_data_left, f telling what the search from an earlier
\* time gives.
LeftStep(block, end, f, t) ==
  LET m == MonthOf(t)
      b == block[m]
  IN  IF t < end THEN -1
      ELSE IF b.first < 0 THEN f[ToTime(0, m) - 1]
      ELSE IF IndexOf(t) > b.last THEN f[ToTime(b.last + 1, m) - 1]
      ELSE IF IndexOf(t) < b.first THEN f[ToTime(0, m) - 1]
      ELSE IF b.data[IndexOf(t)] # NoData THEN t
      ELSE f[t - 1]

\* The same for search_in_data_right.
RightStep(block, end, f, t) ==
  LET m == MonthOf(t)
      b == block[m]
  IN  IF t > end THEN -1
      ELSE IF b.first < 0 THEN f[ToTime(MaxProbes - 1, m) + 1]
      ELSE IF IndexOf(t) > b.last THEN f[ToTime(MaxProbes - 1, m) + 1]
      ELSE IF IndexOf(t) < b.first THEN f[ToTime(b.first - 1, m) + 1]
      ELSE IF b.data[IndexOf(t)] # NoData THEN t
      ELSE f[t + 1]

(* A step to the left passes over nothing that is shown.                   *)
LEMMA LeftStepOK ==
  ASSUME NEW block, Searchable(block), NEW end \in Nat, NEW t \in AllTimes \cup {-1}, NEW f,
         \A u \in -1 .. t - 1 : LastShown(block, end, u, f[u])
  PROVE  LastShown(block, end, t, LeftStep(block, end, f, t))
<1> DEFINE m == MonthOf(t)
           F == block[m].first
           L == block[m].last
           z == ToTime(0, m)
           v == LeftStep(block, end, f, t)
<1>0. t \in Int /\ t >= -1 /\ AllTimes \subseteq Int
  BY ArchiveAssumption DEF AllTimes
<1>1. CASE t < end
  <2>1. v = -1
    BY <1>1 DEF LeftStep
  <2>2. Blank(block, end, t)
    BY <1>0, <1>1 DEF Blank
  <2> QED BY <2>1, <2>2, SMTT(30) DEF LastShown
<1>2. CASE t >= end
  <2>1. t \in AllTimes
    BY <1>2, SMTT(30)
  <2>2. m \in Months /\ IndexOf(t) \in 0 .. MaxProbes - 1 /\ t = ToTime(IndexOf(t), m)
    BY <2>1, SplitTime, SMTT(30) DEF Slots
  <2>3. F \in -1 .. MaxProbes - 1 /\ L \in -1 .. MaxProbes - 1
    BY <2>2, ArchiveAssumption, SMTT(30) DEF Searchable, Slots
  <2>4. /\ z \in Int /\ z >= 0 /\ MaxProbes \in Nat
        /\ \A i \in Int : ToTime(i, m) = z + i
    <3>1. z \in AllTimes /\ m * MaxProbes \in Int /\ MaxProbes \in Nat
      BY <2>2, MonthTimes, ArchiveAssumption, SMTT(30) DEF Slots, Months
    <3> QED BY <1>0, <3>1 DEF ToTime, AllTimes
  <2>5. v = IF F < 0 THEN f[z - 1]
            ELSE IF IndexOf(t) > L THEN f[ToTime(L + 1, m) - 1]
            ELSE IF IndexOf(t) < F THEN f[z - 1]
            ELSE IF Shown(block, t) THEN t
            ELSE f[t - 1]
    BY <1>0, <1>2, SMTT(30) DEF LeftStep, Shown
  <2>6. /\ F < 0 => Blank(block, z, ToTime(MaxProbes - 1, m))
        /\ F >= 0 => /\ Blank(block, z, ToTime(F, m) - 1)
                     /\ Blank(block, ToTime(L, m) + 1, ToTime(MaxProbes - 1, m))
    BY <2>2, BlankParts
  <2> DEFINE i == IndexOf(t)
  <2> SUFFICES LastShown(block, end, t, v)
    OBVIOUS
  <2> HIDE DEF m, F, L, z, v, i
  <2>t. i \in 0 .. MaxProbes - 1 /\ t = z + i
    BY <2>2, <2>4, SMTT(30) DEF i
  <2>u. /\ ToTime(MaxProbes - 1, m) = z + (MaxProbes - 1)
        /\ ToTime(F, m) = z + F /\ ToTime(L, m) = z + L /\ ToTime(L + 1, m) = z + (L + 1)
    BY <2>3, <2>4
  <2>7. ASSUME NEW u \in -1 .. t - 1, Blank(block, u + 1, t), v = f[u] PROVE LastShown(block, end, t, v)
    <3>1. u \in Int /\ u =< t /\ LastShown(block, end, u, v)
      BY <1>0, <2>7
    <3> QED BY <1>0, <2>7, <3>1, LastShownMoves, SMTT(30)
  <2>8. z - 1 \in -1 .. t - 1 /\ (z - 1) + 1 = z
    BY <1>0, <2>4, <2>t, SMTT(30)
  <2>9. CASE F < 0
    <3>1. v = f[z - 1]
      BY <2>5, <2>9, SMTT(30)
    <3>2. t =< z + (MaxProbes - 1) /\ z + (MaxProbes - 1) \in Int
      BY <2>4, <2>t
    <3>3. Blank(block, z, t)
      BY <1>0, <2>4, <2>6, <2>9, <2>u, <3>2, BlankWithin, SMTT(30)
    <3> QED BY <2>7, <2>8, <3>1, <3>3
  <2>10. CASE ~(F < 0) /\ i > L
    <3>1. v = f[(z + (L + 1)) - 1]
      BY <2>5, <2>10, <2>u DEF i
    <3>2. /\ (z + (L + 1)) - 1 \in -1 .. t - 1 /\ ((z + (L + 1)) - 1) + 1 = (z + L) + 1
          /\ t =< z + (MaxProbes - 1) /\ z + (MaxProbes - 1) \in Int /\ (z + L) + 1 \in Int
      BY <2>3, <2>4, <2>t, <2>10
    <3>3. Blank(block, (z + L) + 1, z + (MaxProbes - 1))
      BY <2>3, <2>6, <2>10, <2>u, SMTT(30)
    <3>4. Blank(block, (z + L) + 1, t)
      BY <1>0, <3>2, <3>3, BlankWithin
    <3> QED BY <2>7, <3>1, <3>2, <3>4
  <2>11. CASE ~(F < 0) /\ ~(i > L) /\ i < F
    <3>1. v = f[z - 1]
      BY <2>5, <2>11, SMTT(30) DEF i
    <3>2. t =< (z + F) - 1 /\ (z + F) - 1 \in Int
      BY <2>3, <2>4, <2>t, <2>11
    <3>3. Blank(block, z, (z + F) - 1)
      BY <2>3, <2>6, <2>11, <2>u, SMTT(30)
    <3>4. Blank(block, z, t)
      BY <1>0, <2>4, <3>2, <3>3, BlankWithin
    <3> QED BY <2>7, <2>8, <3>1, <3>4
  <2>12. CASE ~(F < 0) /\ ~(i > L) /\ ~(i < F) /\ Shown(block, t)
    <3>1. v = t
      BY <2>5, <2>12 DEF i
    <3>2. Blank(block, t + 1, t)
      BY <1>0, SMTT(30) DEF Blank
    <3> QED BY <1>0, <1>2, <2>1, <2>12, <3>1, <3>2 DEF LastShown
  <2>13. CASE ~(F < 0) /\ ~(i > L) /\ ~(i < F) /\ ~Shown(block, t)
    <3>1. v = f[t - 1]
      BY <2>5, <2>13 DEF i
    <3>2. t - 1 \in -1 .. t - 1 /\ (t - 1) + 1 = t
      BY <1>0, <1>2
    <3>3. Blank(block, t, t)
      BY <1>0, <2>13, SMTT(30) DEF Blank
    <3> QED BY <2>7, <3>1, <3>2, <3>3
  <2> QED BY <2>9, <2>10, <2>11, <2>12, <2>13, Zenon
<1> QED BY <1>0, <1>1, <1>2

(* A step to the right passes over nothing that is shown either.           *)
LEMMA RightStepOK ==
  ASSUME NEW block, Searchable(block), NEW N, N = (LastMonth + 1) * MaxProbes,
         NEW end \in Int, end < N, NEW t \in 0 .. N, NEW f,
         \A u \in t + 1 .. N : FirstShown(block, end, u, f[u])
  PROVE  FirstShown(block, end, t, RightStep(block, end, f, t))
<1> DEFINE m == MonthOf(t)
           F == block[m].first
           L == block[m].last
           z == ToTime(0, m)
           e == ToTime(MaxProbes - 1, m)
           v == RightStep(block, end, f, t)
<1>0. t \in Int /\ t >= 0 /\ N \in Int /\ AllTimes = 0 .. N - 1 /\ AllTimes \subseteq Int
  BY ArchiveAssumption, SMTT(30) DEF AllTimes
<1>1. CASE t > end
  <2>1. v = -1
    BY <1>1 DEF RightStep
  <2>2. Blank(block, t, end)
    BY <1>0, <1>1 DEF Blank
  <2> QED BY <2>1, <2>2 DEF FirstShown
<1>2. CASE t =< end
  <2>1. t \in AllTimes
    BY <1>0, <1>2
  <2>2. m \in Months /\ IndexOf(t) \in 0 .. MaxProbes - 1 /\ t = ToTime(IndexOf(t), m)
    BY <2>1, SplitTime, SMTT(30) DEF Slots
  <2>3. F \in -1 .. MaxProbes - 1 /\ L \in -1 .. MaxProbes - 1
    BY <2>2, ArchiveAssumption, SMTT(30) DEF Searchable, Slots
  <2>4. /\ z \in Int /\ MaxProbes \in Nat \ {0} /\ e < N
        /\ \A i \in Int : ToTime(i, m) = z + i
    <3>1. e \in AllTimes /\ m * MaxProbes \in Int /\ MaxProbes \in Nat \ {0}
      BY <2>2, MonthTimes, ArchiveAssumption, SMTT(30) DEF Slots, Months
    <3>2. e < N
      BY <1>0, <3>1, SMTT(30)
    <3> QED BY <3>1, <3>2, SMTT(30) DEF ToTime
  <2>5. v = IF F < 0 THEN f[e + 1]
            ELSE IF IndexOf(t) > L THEN f[e + 1]
            ELSE IF IndexOf(t) < F THEN f[ToTime(F - 1, m) + 1]
            ELSE IF Shown(block, t) THEN t
            ELSE f[t + 1]
    BY <1>0, <1>2, SMTT(30) DEF RightStep, Shown
  <2>6. /\ F < 0 => Blank(block, z, e)
        /\ F >= 0 => Blank(block, z, ToTime(F, m) - 1) /\ Blank(block, ToTime(L, m) + 1, e)
    BY <2>2, BlankParts, ZenonT(30)
  <2> DEFINE i == IndexOf(t)
  <2>u. /\ e = z + (MaxProbes - 1)
        /\ ToTime(F, m) = z + F /\ ToTime(L, m) = z + L /\ ToTime(F - 1, m) = z + (F - 1)
    <3> HIDE DEF F, L, z, m
    <3> QED BY <2>3, <2>4
  <2> SUFFICES FirstShown(block, end, t, v)
    OBVIOUS
  <2> HIDE DEF m, F, L, z, e, v, i
  <2>t. i \in 0 .. MaxProbes - 1 /\ t = z + i
    BY <2>2, <2>4, SMTT(30) DEF i
  <2>7. ASSUME NEW u \in t + 1 .. N, Blank(block, t, u - 1), v = f[u] PROVE FirstShown(block, end, t, v)
    <3>1. u \in Int /\ t =< u /\ FirstShown(block, end, u, v)
      BY <1>0, <2>7, SMTT(30)
    <3> QED BY <1>0, <2>7, <3>1, FirstShownMoves, SMTT(30)
  <2>8. e + 1 \in t + 1 .. N /\ (e + 1) - 1 = e /\ e \in Int /\ z =< t /\ t =< e
    BY <1>0, <2>4, <2>t, <2>u
  <2>9. CASE F < 0
    <3>1. v = f[e + 1]
      BY <2>5, <2>9
    <3>3. Blank(block, t, e)
      BY <1>0, <2>4, <2>6, <2>8, <2>9, BlankWithin, SMTT(30)
    <3> QED BY <2>7, <2>8, <3>1, <3>3, SMTT(30)
  <2>10. CASE ~(F < 0) /\ i > L
    <3>1. v = f[e + 1]
      BY <2>5, <2>10, SMTT(30) DEF i
    <3>2. (z + L) + 1 =< t /\ (z + L) + 1 \in Int
      BY <2>3, <2>4, <2>t, <2>10, SMTT(30)
    <3>3. Blank(block, (z + L) + 1, e)
      BY <2>3, <2>6, <2>10, <2>u
    <3>4. Blank(block, t, e)
      BY <1>0, <2>8, <3>2, <3>3, BlankWithin, SMTT(30)
    <3> QED BY <2>7, <2>8, <3>1, <3>4
  <2>11. CASE ~(F < 0) /\ ~(i > L) /\ i < F
    <3>1. v = f[(z + (F - 1)) + 1]
      BY <2>5, <2>11, <2>u, SMTT(30) DEF i
    <3>2. /\ (z + (F - 1)) + 1 \in t + 1 .. N /\ ((z + (F - 1)) + 1) - 1 = (z + F) - 1
          /\ (z + F) - 1 \in Int /\ z =< t /\ (z + F) - 1 =< (z + F) - 1
      BY <1>0, <2>3, <2>4, <2>t, <2>u, <2>11
    <3>3. Blank(block, z, (z + F) - 1)
      BY <2>3, <2>6, <2>11, <2>u, SMTT(30)
    <3>4. Blank(block, t, (z + F) - 1)
      BY <1>0, <2>4, <3>2, <3>3, BlankWithin, Zenon
    <3> QED BY <2>7, <3>1, <3>2, <3>4
  <2>12. CASE ~(F < 0) /\ ~(i > L) /\ ~(i < F) /\ Shown(block, t)
    <3>1. v = t
      BY <2>5, <2>12, SMTT(30) DEF i
    <3>2. Blank(block, t, t - 1)
      BY <1>0 DEF Blank
    <3> QED BY <1>0, <1>2, <2>1, <2>12, <3>1, <3>2, SMTT(30) DEF FirstShown
  <2>13. CASE ~(F < 0) /\ ~(i > L) /\ ~(i < F) /\ ~Shown(block, t)
    <3>1. v = f[t + 1]
      BY <2>5, <2>13 DEF i
    <3>2. t + 1 \in t + 1 .. N /\ (t + 1) - 1 = t
      BY <1>0, <1>2
    <3>3. Blank(block, t, t)
      BY <1>0, <2>13 DEF Blank
    <3> QED BY <2>7, <3>1, <3>2, <3>3, SMTT(30)
  <2> QED BY <2>9, <2>10, <2>11, <2>12, <2>13, Zenon
<1> QED BY <1>0, <1>1, <1>2

(* There is one such time, and only one.                                   *)
LEMMA LastShownOne ==
  ASSUME NEW block, NEW end \in Nat, NEW t \in Int
  PROVE  /\ \E v : LastShown(block, end, t, v)
         /\ \A v, w : LastShown(block, end, t, v) /\ LastShown(block, end, t, w) => v = w
<1>0. AllTimes \subseteq Nat
  BY ArchiveAssumption DEF AllTimes
<1> DEFINE S == {u \in AllTimes : end =< u /\ u =< t /\ Shown(block, u)}
<1>1. \E v : LastShown(block, end, t, v)
  <2>1. CASE S = {}
    <3>1. Blank(block, end, t)
      BY <2>1 DEF Blank
    <3> QED BY <3>1 DEF LastShown
  <2>2. CASE S # {}
    <3>1. S \subseteq Nat /\ \A u \in S : u =< t
      BY <1>0, ZenonT(30)
    <3>2. PICK v \in S : \A u \in S : u =< v
      <4>1. PICK u \in S : TRUE
        BY <2>2
      <4>2. t \in Nat
        BY <3>1, <4>1
      <4> HIDE DEF S
      <4> QED BY <2>2, <3>1, <4>2, Greatest, ZenonT(30)
    <3>3. Blank(block, v + 1, t)
      <4> SUFFICES ASSUME NEW x \in AllTimes, v + 1 =< x, x =< t, Shown(block, x) PROVE FALSE
        BY DEF Blank
      <4>1. end =< x /\ ~(x =< v)
        BY <1>0, <3>1, <3>2
      <4> QED BY <3>2, <4>1
    <3> QED BY <3>2, <3>3 DEF LastShown
  <2> QED BY <2>1, <2>2
<1>2. ASSUME NEW v, NEW w, LastShown(block, end, t, v), LastShown(block, end, t, w) PROVE v = w
  <2>1. CASE v = -1 /\ Blank(block, end, t)
    BY <1>2, <2>1 DEF LastShown, Blank
  <2>2. CASE w = -1 /\ Blank(block, end, t)
    BY <1>2, <2>2 DEF LastShown, Blank
  <2>3. CASE /\ v \in AllTimes /\ Shown(block, v) /\ v =< t /\ Blank(block, v + 1, t)
             /\ w \in AllTimes /\ Shown(block, w) /\ w =< t /\ Blank(block, w + 1, t)
    <3>1. ~(v + 1 =< w) /\ ~(w + 1 =< v)
      BY <2>3 DEF Blank
    <3> QED BY <1>0, <2>3, <3>1
  <2> QED BY <1>2, <2>1, <2>2, <2>3, Zenon DEF LastShown
<1> QED BY <1>1, <1>2

(* There is one first value in a direction, or none.                       *)
LEMMA FirstShownOne ==
  ASSUME NEW block, NEW end \in Int, NEW t \in Int
  PROVE  /\ \E v : FirstShown(block, end, t, v)
         /\ \A v, w : FirstShown(block, end, t, v) /\ FirstShown(block, end, t, w) => v = w
<1>0. AllTimes \subseteq Nat
  BY ArchiveAssumption DEF AllTimes
<1> DEFINE S == {u \in AllTimes : t =< u /\ u =< end /\ Shown(block, u)}
<1>1. \E v : FirstShown(block, end, t, v)
  <2>1. CASE S = {}
    <3>1. Blank(block, t, end)
      BY <2>1 DEF Blank
    <3> QED BY <3>1 DEF FirstShown
  <2>2. CASE S # {}
    <3>1. S \subseteq Nat
      BY <1>0, ZenonT(30)
    <3>2. PICK v \in S : \A u \in S : v =< u
      BY <2>2, <3>1, Least, ZenonT(30)
    <3>3. Blank(block, t, v - 1)
      <4> SUFFICES ASSUME NEW x \in AllTimes, t =< x, x =< v - 1, Shown(block, x) PROVE FALSE
        BY DEF Blank
      <4>1. x =< end /\ ~(v =< x)
        BY <1>0, <3>1, <3>2
      <4> QED BY <3>2, <4>1
    <3> QED BY <3>2, <3>3 DEF FirstShown
  <2> QED BY <2>1, <2>2
<1>2. ASSUME NEW v, NEW w, FirstShown(block, end, t, v), FirstShown(block, end, t, w) PROVE v = w
  <2>1. CASE v = -1 /\ Blank(block, t, end)
    BY <1>2, <2>1 DEF FirstShown, Blank
  <2>2. CASE w = -1 /\ Blank(block, t, end)
    BY <1>2, <2>2 DEF FirstShown, Blank
  <2>3. CASE /\ v \in AllTimes /\ Shown(block, v) /\ t =< v /\ Blank(block, t, v - 1)
             /\ w \in AllTimes /\ Shown(block, w) /\ t =< w /\ Blank(block, t, w - 1)
    <3>1. ~(v =< w - 1) /\ ~(w =< v - 1)
      BY <2>3 DEF Blank
    <3> QED BY <1>0, <2>3, <3>1, SMTT(30)
  <2> QED BY <1>2, <2>1, <2>2, <2>3, Zenon DEF FirstShown
<1> QED BY <1>1, <1>2

(* What search_in_data_left computes.                                      *)
LEMMA LeftFound ==
  ASSUME NEW block, Searchable(block), NEW end \in Nat, NEW start \in AllTimes \cup {-1}
  PROVE  LastShown(block, end, start, SearchLeft(block, start, end))
<1>0. AllTimes \subseteq Nat /\ start \in Int /\ start >= -1 /\ \A t \in -1 .. start : t \in AllTimes \cup {-1}
  BY ArchiveAssumption DEF AllTimes
<1> DEFINE T == -1 .. start
           P(f) == f = [t \in T |-> LeftStep(block, end, f, t)]
           G == [t \in T |-> CHOOSE v : LastShown(block, end, t, v)]
<1>1. SearchLeft(block, start, end) = (CHOOSE f : P(f))[start]
  BY Zenon DEF SearchLeft, LeftStep
<1>2. \A t \in T : LastShown(block, end, t, G[t]) /\ t \in Int /\ \A u \in -1 .. t - 1 : u \in T
  BY <1>0, LastShownOne
<1>3. P(G)
  <2>1. ASSUME NEW t \in T PROVE G[t] = LeftStep(block, end, G, t)
    <3>1. LastShown(block, end, t, LeftStep(block, end, G, t))
      <4>1. \A u \in -1 .. t - 1 : LastShown(block, end, u, G[u])
        BY <1>2
      <4> HIDE DEF G
      <4> QED BY <1>0, <4>1, LeftStepOK
    <3> HIDE DEF G
    <3> QED BY <1>2, <3>1, LastShownOne, SMTT(30)
  <2>2. G = [t \in T |-> G[t]]
    OBVIOUS
  <2> HIDE DEF G, T
  <2> QED BY <2>1, <2>2, SMTT(30)
<1> DEFINE f == CHOOSE f : P(f)
<1>4. P(f)
  <2> HIDE DEF P, G
  <2> QED BY <1>3, Zenon
<1>5. \A t \in T : f[t] = LeftStep(block, end, f, t)
  <2> HIDE DEF f
  <2> QED BY <1>4, ZenonT(30)
<1> HIDE DEF f, P, G
<1> DEFINE S == {k \in Nat : k - 1 \in T /\ ~LastShown(block, end, k - 1, f[k - 1])}
<1>6. ASSUME S # {} PROVE FALSE
  <2>1. PICK k \in S : \A j \in S : k =< j
    BY <1>6, Least, ZenonT(30)
  <2> DEFINE t == k - 1
  <2>2. t \in T /\ ~LastShown(block, end, t, f[t]) /\ k \in Nat
    BY <2>1
  <2>3. ASSUME NEW u \in -1 .. t - 1 PROVE LastShown(block, end, u, f[u])
    <3>1. u + 1 \in Nat /\ (u + 1) - 1 = u /\ u \in T /\ ~(k =< u + 1)
      BY <1>0, <2>2, SMTT(30)
    <3> QED BY <2>1, <3>1
  <2> HIDE DEF t
  <2>4. LastShown(block, end, t, LeftStep(block, end, f, t))
    BY <1>0, <2>2, <2>3, LeftStepOK
  <2> QED BY <1>5, <2>2, <2>4
<1>7. start + 1 \in Nat /\ (start + 1) - 1 = start /\ start \in T
  BY <1>0
<1>8. LastShown(block, end, start, f[start])
  BY <1>6, <1>7, SMTT(30)
<1> QED BY <1>1, <1>8, SMTT(30) DEF f, P

(* What search_in_data_right computes.                                     *)
LEMMA RightFound ==
  ASSUME NEW block, Searchable(block), NEW end \in AllTimes \cup {-1}, NEW start \in AllTimes
  PROVE  FirstShown(block, end, start, SearchRight(block, start, end))
<1> DEFINE N == (LastMonth + 1) * MaxProbes
           T == start .. N
           P(f) == f = [t \in T |-> RightStep(block, end, f, t)]
           G == [t \in T |-> CHOOSE v : FirstShown(block, end, t, v)]
<1>0. N \in Nat /\ start \in 0 .. N - 1 /\ end \in -1 .. N - 1
  BY ArchiveAssumption DEF AllTimes
<1>t. end \in Int /\ end < N /\ T \subseteq Nat /\ \A t \in T : t \in 0 .. N /\ \A u \in t + 1 .. N : u \in T
  <2> HIDE DEF N
  <2> QED BY <1>0
<1>1. SearchRight(block, start, end) = (CHOOSE f : P(f))[start]
  BY Zenon DEF SearchRight, RightStep
<1>d. N = (LastMonth + 1) * MaxProbes
  BY SMTT(30)
<1> HIDE DEF N
<1>s. \A f : \A t \in T : (\A u \in t + 1 .. N : FirstShown(block, end, u, f[u]))
                         => FirstShown(block, end, t, RightStep(block, end, f, t))
  <2> SUFFICES ASSUME NEW f, NEW t \in T, \A u \in t + 1 .. N : FirstShown(block, end, u, f[u])
               PROVE  FirstShown(block, end, t, RightStep(block, end, f, t))
    OBVIOUS
  <2> HIDE DEF T
  <2> QED BY <1>d, <1>t, RightStepOK
<1>2. \A t \in T : FirstShown(block, end, t, G[t])
  BY <1>t, FirstShownOne, SMTT(30)
<1>3. P(G)
  <2>1. ASSUME NEW t \in T PROVE G[t] = RightStep(block, end, G, t)
    <3>1. FirstShown(block, end, t, RightStep(block, end, G, t))
      <4>1. \A u \in t + 1 .. N : FirstShown(block, end, u, G[u])
        BY <1>2, <1>t
      <4> HIDE DEF G
      <4> QED BY <1>s, <4>1
    <3> HIDE DEF G
    <3> QED BY <1>2, <1>t, <3>1, FirstShownOne
  <2>2. G = [t \in T |-> G[t]]
    OBVIOUS
  <2> HIDE DEF G, T
  <2> QED BY <2>1, <2>2, SMTT(30)
<1> DEFINE f == CHOOSE f : P(f)
<1>4. P(f)
  <2> HIDE DEF P, G
  <2> QED BY <1>3, Zenon
<1>5. \A t \in T : f[t] = RightStep(block, end, f, t)
  <2> HIDE DEF f
  <2> QED BY <1>4, ZenonT(30)
<1> HIDE DEF f, P, G
<1> DEFINE S == {t \in T : ~FirstShown(block, end, t, f[t])}
<1>6. ASSUME S # {} PROVE FALSE
  <2>1. PICK t \in S : \A j \in S : j =< t
    <3>1. S \in SUBSET Nat /\ \A n \in S : n =< N
      BY <1>0, <1>t
    <3> HIDE DEF S
    <3> QED BY <1>0, <1>6, <3>1, Greatest, Zenon
  <2>2. t \in T /\ ~FirstShown(block, end, t, f[t]) /\ t \in Nat
    BY <1>t, <2>1
  <2>3. ASSUME NEW u \in t + 1 .. N PROVE FirstShown(block, end, u, f[u])
    <3>1. u \in T /\ ~(u =< t)
      BY <1>0, <1>t, <2>2, SMTT(30)
    <3> QED BY <2>1, <3>1
  <2>4. FirstShown(block, end, t, RightStep(block, end, f, t))
    BY <1>s, <2>2, <2>3
  <2> QED BY <1>5, <2>2, <2>4
<1>7. start \in T
  BY <1>0
<1>8. FirstShown(block, end, start, f[start])
  BY <1>6, <1>7, SMTT(30)
<1> QED BY <1>1, <1>8 DEF f, P

(* szb_search_first and szb_search_last: nothing is shown outside of them. *)
LEMMA BaseDates ==
  ASSUME ArchiveOK, NEW block, Searchable(block), NEW p \in Months, size[Watched][p] # -1
  PROVE  /\ FirstDate \in AllTimes /\ LastDate \in AllTimes \cup {-1}
         /\ \A t \in AllTimes : Shown(block, t) => FirstDate =< t /\ t =< LastDate
<1>0. /\ MaxProbes \in Nat \ {0} /\ LastMonth \in Nat /\ Months \subseteq Nat
      /\ \A m \in Months : size[Watched][m] \in -1 .. MaxProbes /\ m =< LastMonth
  BY ArchiveAssumption, TimeParts, SizeType DEF Months
<1> DEFINE S == {m \in Months : size[Watched][m] # -1}
           a == CHOOSE m \in Months : size[Watched][m] # -1 /\ \A n \in Months : n < m => size[Watched][n] = -1
<1>1. a \in Months /\ \A n \in Months : n < a => size[Watched][n] = -1
  <2>1. PICK m \in S : \A n \in S : m =< n
    BY <1>0, Least, ZenonT(30)
  <2>2. size[Watched][m] # -1 /\ \A n \in Months : n < m => size[Watched][n] = -1
    <3>1. ASSUME NEW n \in Months, n < m PROVE size[Watched][n] = -1
      <4>1. ~(m =< n)
        BY <1>0, <2>1, <3>1
      <4> QED BY <2>1, <4>1
    <3> QED BY <2>1, <3>1
  <2> QED BY <2>1, <2>2, Zenon
<1>2. FirstDate = ToTime(0, a)
  BY DEF FirstDate
<1> DEFINE d == CHOOSE d \in Dates : NewestProbe(Watched, d)
<1>3. PICK c \in Months : /\ size[Watched][c] # -1 /\ d = DateOf(c, size[Watched][c])
                          /\ \A n \in Months : n > c => size[Watched][n] = -1
  <2>1. PICK m \in S : \A n \in S : n =< m
    BY <1>0, Greatest, ZenonT(30)
  <2>2. size[Watched][m] # -1 /\ \A n \in Months : n > m => size[Watched][n] = -1
    <3>1. ASSUME NEW n \in Months, n > m PROVE size[Watched][n] = -1
      <4>1. ~(n =< m)
        BY <1>0, <2>1, <3>1
      <4> QED BY <2>1, <4>1
    <3> QED BY <2>1, <3>1
  <2>3. DateOf(m, size[Watched][m]) \in Dates
    <3>1. size[Watched][m] \in 0 .. MaxProbes /\ m \in 0 .. LastMonth
      BY <1>0, <2>1, <2>2, SMTT(30)
    <3> QED BY <1>0, <3>1 DEF DateOf, Dates, Slots
  <2>4. NewestProbe(Watched, DateOf(m, size[Watched][m]))
    BY <2>1, <2>2 DEF NewestProbe
  <2>5. NewestProbe(Watched, d)
    BY <2>3, <2>4, Zenon
  <2> HIDE DEF d
  <2> QED BY <2>5, Zenon DEF NewestProbe
<1>4. LastDate = ToTime(d[2], d[1])
  BY DEF LastDate, Dates
<1> HIDE DEF a, d, S
<1> DEFINE n == size[Watched][c]
<1>5. n \in 0 .. MaxProbes /\ c \in Nat /\ a \in Nat /\ c * MaxProbes \in Int /\ a * MaxProbes \in Int
  BY <1>0, <1>1, <1>3
<1> HIDE DEF n
<1>6. LastDate = c * MaxProbes + n - 1
  <2>1. CASE n = 0
    <3>1. d = <<c - 1, MaxProbes - 1>>
      BY <1>3, <2>1, SMTT(30) DEF DateOf, n
    <3>2. LastDate = (c - 1) * MaxProbes + (MaxProbes - 1)
      BY <1>4, <3>1 DEF ToTime
    <3>3. (c - 1) * MaxProbes = c * MaxProbes - MaxProbes
      BY <1>0, <1>5, SMTT(30)
    <3> QED BY <1>0, <1>5, <2>1, <3>2, <3>3
  <2>2. CASE n # 0
    <3>1. d = <<c, n - 1>>
      BY <1>3, <2>2 DEF DateOf, n
    <3>2. LastDate = c * MaxProbes + (n - 1)
      BY <1>4, <3>1 DEF ToTime
    <3> QED BY <1>0, <1>5, <3>2
  <2> QED BY <2>1, <2>2
<1>7. FirstDate = a * MaxProbes /\ FirstDate \in AllTimes
  <2>1. 0 \in Slots
    BY <1>0 DEF Slots
  <2>2. ToTime(0, a) \in AllTimes
    BY <1>1, <2>1, MonthTimes
  <2> QED BY <1>2, <1>5, <2>2, SMTT(30) DEF ToTime
<1>8. LastDate \in AllTimes \cup {-1}
  <2>1. c * MaxProbes >= 0 /\ c * MaxProbes =< LastMonth * MaxProbes /\ LastMonth * MaxProbes \in Int
    BY <1>0, <1>5, Multiples, SMTT(30)
  <2>2. (LastMonth + 1) * MaxProbes = LastMonth * MaxProbes + MaxProbes
    BY <1>0, SMTT(30)
  <2> QED BY <1>0, <1>5, <1>6, <2>1, <2>2 DEF AllTimes
<1>9. ASSUME NEW t \in AllTimes, Shown(block, t) PROVE FirstDate =< t /\ t =< LastDate
  <2> DEFINE m == MonthOf(t)
             i == IndexOf(t)
  <2>1. m \in Months /\ i \in Slots /\ t = m * MaxProbes + i
    BY SplitTime, SMTT(30) DEF ToTime
  <2>2. i < size[Watched][m]
    BY <1>9, <2>1, SMTT(30) DEF Searchable, Shown
  <2> HIDE DEF m, i
  <2>3. m \in Nat /\ i \in 0 .. MaxProbes - 1 /\ m * MaxProbes \in Int /\ size[Watched][m] \in Int
    BY <1>0, <2>1 DEF Slots
  <2>4. size[Watched][m] # -1
    BY <2>2, <2>3
  <2>5. a =< m /\ m =< c
    BY <1>1, <1>3, <1>5, <2>1, <2>3, <2>4, SMTT(30)
  <2>6. a * MaxProbes =< m * MaxProbes
    BY <1>0, <1>5, <2>3, <2>5, Multiples, SMTT(30)
  <2>7. t =< LastDate
    <3>1. CASE m = c
      BY <1>5, <1>6, <2>1, <2>2, <2>3, <3>1 DEF n
    <3>2. CASE m # c
      <4>0. m + 1 =< c /\ m + 1 \in Int /\ c \in Int /\ MaxProbes \in Int /\ MaxProbes >= 0
        BY <1>0, <1>5, <2>3, <2>5, <3>2, SMTT(30)
      <4>1. (m + 1) * MaxProbes =< c * MaxProbes
        BY <4>0, Multiples, Zenon
      <4>2. (m + 1) * MaxProbes = m * MaxProbes + MaxProbes
        BY <1>0, <2>3, SMTT(30)
      <4> QED BY <1>0, <1>5, <1>6, <2>1, <2>3, <4>1, <4>2, SMTT(30)
    <3> QED BY <3>1, <3>2, SMTT(30)
  <2> QED BY <1>0, <1>5, <1>7, <2>1, <2>3, <2>6, <2>7, SMTT(30)
<1> QED BY <1>7, <1>8, <1>9, SMTT(30)

(* The blocks a query gets know where their data are.                      *)
LEMMA BlocksSearchable ==
  ASSUME RInv, SpanInv, date # Unread,
         \A m \in Months : Blocks[m].flaw = "none" /\ (Blocks[m].first = -1 => Blocks[m].data = Empty)
  PROVE  Searchable(Blocks)
<1> SUFFICES ASSUME NEW m \in Months, NEW b, b = Got(m), b.flaw = "none", b.first = -1 => b.data = Empty
             PROVE  /\ b.first \in Slots \cup {-1} /\ b.last \in Slots \cup {-1}
                    /\ b.first = -1 => \A i \in Slots : b.data[i] = NoData
                    /\ b.first # -1 => Spanned(b)
                    /\ \A i \in Slots : b.data[i] # NoData => i < size[Watched][m]
  BY DEF Searchable, Blocks
<1>1. b.first = -1 => \A i \in Slots : b.data[i] = NoData
  BY DEF Empty
<1>2. CASE m \in Cached
  <2>1. b = Refreshed(blk[m], m)
    BY <1>2, SMTT(30) DEF Got
  <2>2. BlockOK(b, m) /\ SpanOK(b)
    BY <2>1, RefreshedOK, RefreshedSpan, SMTT(30) DEF RInv, SpanInv
  <2>3. Prefix(b, m)
    BY <2>2, ZenonT(30) DEF BlockOK
  <2>4. \A i \in Slots : b.data[i] # NoData => i < size[Watched][m]
    BY <2>3 DEF Prefix
  <2> QED BY <1>1, <2>2, <2>4, Zenon DEF SpanOK
<1>3. CASE m \notin Cached /\ size[Watched][m] = -1
  <2>1. b.first = -1 /\ b.last = -1 /\ b.data = Empty
    BY <1>3 DEF Got, NoBlock
  <2> QED BY <1>1, <2>1, SMTT(30) DEF Empty
<1>4. CASE m \notin Cached /\ size[Watched][m] # -1
  <2> DEFINE data == word[Watched][m]
  <2>1. b.first = FirstData(data) /\ b.last = LastData(data) /\ b.data = data
    BY <1>4, SMTT(30) DEF Got, NoBlock
  <2>2. ASSUME NEW i \in Slots, data[i] # NoData PROVE i < size[Watched][m]
    <3>1. size[Watched][m] \in Int /\ i \in Int
      BY TimeParts, SizeType, SMTT(30) DEF RInv
    <3>2. ~(i >= size[Watched][m])
      BY <2>2, TimeParts, SMTT(30) DEF RInv, ArchiveOK
    <3> QED BY <3>1, <3>2, SMTT(30)
  <2> HIDE DEF data
  <2>3. b.first # -1 => Spanned(b)
    BY <2>1, DataEnds, SMTT(30) DEF Spanned
  <2>4. b.first \in Slots \cup {-1} /\ b.last \in Slots \cup {-1}
    BY <2>1, DataEnds, Zenon
  <2>5. \A i \in Slots : b.data[i] # NoData => i < size[Watched][m]
    BY <2>1, <2>2, Zenon
  <2> QED BY <1>1, <2>3, <2>4, <2>5, Zenon
<1> QED BY <1>2, <1>3, <1>4, SMTT(30)

(* The search against its definition.                                      *)
LEMMA SearchNearest ==
  ASSUME ArchiveOK, NEW block, Searchable(block)
  PROVE  Exact(block)
<1>0. AllTimes \subseteq Nat
  BY ArchiveAssumption DEF AllTimes
<1> SUFFICES ASSUME NEW start \in AllTimes, NEW end \in AllTimes \cup {-1}, NEW direction \in {-1, 1}
             PROVE  Search(block, start, end, direction) = Nearest(block, start, end, direction)
  BY DEF Exact
<1> DEFINE left == direction < 0
           R == {t \in AllTimes : Shown(block, t) /\ IF left THEN end =< t /\ t =< start
                                                    ELSE start =< t /\ (end = -1 \/ t =< end)}
           v == Search(block, start, end, direction)
<1>1. Nearest(block, start, end, direction) =
        IF R = {} THEN -1 ELSE CHOOSE t \in R : \A u \in R : IF left THEN u =< t ELSE t =< u
  <2> DEFINE shown == {t \in AllTimes : block[MonthOf(t)].data[IndexOf(t)] # NoData}
             Q == {t \in shown : IF direction < 0 THEN end =< t /\ t =< start
                                 ELSE start =< t /\ (end = -1 \/ t =< end)}
  <2>1. Q = R
    BY DEF Shown
  <2>2. Nearest(block, start, end, direction) =
          IF Q = {} THEN -1 ELSE CHOOSE t \in Q : \A u \in Q : IF direction < 0 THEN u =< t ELSE t =< u
    BY Zenon DEF Nearest
  <2> HIDE DEF Q, R
  <2> QED BY <2>1, <2>2
<1> SUFFICES \/ v = -1 /\ R = {}
             \/ v \in R /\ \A u \in R : IF left THEN u =< v ELSE v =< u
  <2>1. CASE v = -1 /\ R = {}
    BY <1>1, <2>1
  <2>2. CASE v \in R /\ \A u \in R : IF left THEN u =< v ELSE v =< u
    <3> DEFINE w == CHOOSE t \in R : \A u \in R : IF left THEN u =< t ELSE t =< u
    <3>1. w \in R /\ \A u \in R : IF left THEN u =< w ELSE w =< u
      <4> HIDE DEF v, R, left
      <4> QED BY <2>2, Zenon
    <3>2. v \in Nat /\ w \in Nat
      BY <1>0, <2>2, <3>1, ZenonT(30)
    <3> HIDE DEF w, v, R, left
    <3>3. (v =< w /\ w =< v)
      BY <2>2, <3>1
    <3>4. v = w
      BY <3>2, <3>3
    <3>5. R # {}
      BY <2>2
    <3> QED BY <1>1, <3>4, <3>5, SMTT(30) DEF w, v
  <2> QED BY <2>1, <2>2, SMTT(30)
<1>2. CASE \A m \in Months : size[Watched][m] = -1
  <2>1. v = -1
    BY <1>2, SMTT(30) DEF Search
  <2>2. ASSUME NEW t \in R PROVE FALSE
    <3>1. MonthOf(t) \in Months /\ IndexOf(t) \in Slots /\ Shown(block, t)
      BY SplitTime
    <3>2. IndexOf(t) < size[Watched][MonthOf(t)]
      BY <3>1, SMTT(30) DEF Searchable, Shown
    <3> QED BY <1>2, <3>1, <3>2, ArchiveAssumption, SMTT(30) DEF Slots
  <2> QED BY <2>1, <2>2, SMTT(30)
<1>3. CASE ~(\A m \in Months : size[Watched][m] = -1)
  <2> DEFINE A == FirstDate
             Z == LastDate
  <2>1. /\ A \in AllTimes /\ Z \in AllTimes \cup {-1}
        /\ \A t \in AllTimes : Shown(block, t) => A =< t /\ t =< Z
    BY <1>3, BaseDates, SMTT(30)
  <2> HIDE DEF A, Z
  <2>i. start \in Nat /\ end \in Int /\ A \in Nat /\ Z \in Int
    BY <1>0, <2>1, SMTT(30)
  <2>2. CASE left
    <3> DEFINE e == Max2(end, A)
               s == Min2(start, Z)
    <3>1. v = IF start < A THEN -1 ELSE SearchLeft(block, s, e)
      BY <1>3, <2>2, SMTT(30) DEF Search, A, Z
    <3>2. e \in Nat /\ s \in AllTimes \cup {-1} /\ \A t \in Int : (e =< t /\ t =< s) <=> (end =< t /\ A =< t /\ t =< start /\ t =< Z)
      <4>1. e \in {A, end} /\ s \in {start, Z} /\ e >= A /\ e >= end /\ s =< start /\ s =< Z
        BY <2>i, SMTT(30) DEF Max2, Min2
      <4> HIDE DEF e, s
      <4>2. s \in AllTimes \cup {-1}
        BY <2>1, <4>1
      <4>3. e \in Nat
        BY <2>i, <4>1, SMTT(30)
      <4>4. s \in Int
        BY <1>0, <4>2
      <4> QED BY <2>i, <4>1, <4>2, <4>3, <4>4
    <3> HIDE DEF e, s, v
    <3>3. CASE start < A
      <4>1. R = {}
        <5>1. ASSUME NEW t \in R PROVE FALSE
          <6>1. t =< start /\ A =< t /\ t =< Z /\ t \in Int
            BY <1>0, <2>1, <2>2
          <6> QED BY <2>i, <3>3, <6>1
        <5> QED BY <5>1
      <4> QED BY <3>1, <3>3, <4>1, SMTT(30)
    <3>4. CASE ~(start < A)
      <4>1. LastShown(block, e, s, v)
        BY <3>1, <3>2, <3>4, LeftFound
      <4>2. \A u \in R : u \in AllTimes /\ u \in Int /\ Shown(block, u) /\ e =< u /\ u =< s
        BY <1>0, <2>1, <2>2, <3>2, SMTT(30)
      <4>3. CASE v = -1 /\ Blank(block, e, s)
        BY <4>2, <4>3 DEF Blank
      <4>4. CASE v \in AllTimes /\ Shown(block, v) /\ e =< v /\ v =< s /\ Blank(block, v + 1, s)
        <5>1. v \in Int /\ end =< v /\ v =< start
          BY <1>0, <3>2, <4>4, SMTT(30)
        <5>2. v \in R
          BY <2>2, <4>4, <5>1, SMTT(30)
        <5>3. ASSUME NEW u \in R PROVE u =< v
          <6>1. ~(v + 1 =< u)
            BY <4>2, <4>4, SMTT(30) DEF Blank
          <6> QED BY <4>2, <5>1, <6>1, SMTT(30)
        <5> QED BY <2>2, <5>2, <5>3
      <4> QED BY <4>1, <4>3, <4>4, Zenon DEF LastShown
    <3> QED BY <3>3, <3>4, SMTT(30)
  <2>3. CASE ~left
    <3> DEFINE s == Max2(start, A)
               e == IF end = -1 THEN Z ELSE Min2(end, Z)
    <3>1. v = IF start > Z THEN -1 ELSE SearchRight(block, s, e)
      BY <1>3, <2>3 DEF Search, A, Z
    <3>2. /\ s \in AllTimes /\ e \in AllTimes \cup {-1}
          /\ \A t \in Int : (s =< t /\ t =< e) <=> (start =< t /\ A =< t /\ (end = -1 \/ t =< end) /\ t =< Z)
      <4>1. s \in {A, start} /\ s >= A /\ s >= start
        BY <2>i, SMTT(30) DEF Max2
      <4>2. e \in {Z, end} /\ e =< Z /\ (end = -1 => e = Z) /\ (end # -1 => e =< end)
        BY <2>i DEF Min2
      <4> HIDE DEF e, s
      <4>3. s \in AllTimes /\ e \in AllTimes \cup {-1}
        BY <2>1, <4>1, <4>2, SMTT(30)
      <4>4. s \in Int /\ e \in Int
        BY <1>0, <4>3
      <4> QED BY <2>i, <4>1, <4>2, <4>3, <4>4
    <3> HIDE DEF e, s, v
    <3>3. CASE start > Z
      <4>1. R = {}
        <5>1. ASSUME NEW t \in R PROVE FALSE
          <6>1. start =< t /\ A =< t /\ t =< Z /\ t \in Int
            BY <1>0, <2>1, <2>3, SMTT(30)
          <6> QED BY <2>i, <3>3, <6>1
        <5> QED BY <5>1
      <4> QED BY <3>1, <3>3, <4>1, SMTT(30)
    <3>4. CASE ~(start > Z)
      <4>1. FirstShown(block, e, s, v)
        BY <3>1, <3>2, <3>4, RightFound, SMTT(30)
      <4>2. \A u \in R : u \in AllTimes /\ u \in Int /\ Shown(block, u) /\ s =< u /\ u =< e
        BY <1>0, <2>1, <2>3, <3>2
      <4>3. CASE v = -1 /\ Blank(block, s, e)
        BY <4>2, <4>3 DEF Blank
      <4>4. CASE v \in AllTimes /\ Shown(block, v) /\ s =< v /\ v =< e /\ Blank(block, s, v - 1)
        <5>1. v \in Int /\ start =< v /\ (end = -1 \/ v =< end)
          BY <1>0, <3>2, <4>4
        <5>2. v \in R
          BY <2>3, <4>4, <5>1, SMTT(30)
        <5>3. ASSUME NEW u \in R PROVE v =< u
          <6>1. ~(u =< v - 1)
            BY <4>2, <4>4, SMTT(30) DEF Blank
          <6> QED BY <4>2, <5>1, <6>1
        <5> QED BY <2>3, <5>2, <5>3, SMTT(30)
      <4> QED BY <4>1, <4>3, <4>4, Zenon DEF FirstShown
    <3> QED BY <3>3, <3>4, SMTT(30)
  <2> QED BY <2>2, <2>3, ZenonT(30)
<1> QED BY <1>2, <1>3

-----------------------------------------------------------------------------
(* The types of the reader's variables: the buffer never holds more than    *)
(* its limit of blocks, and the indices a block remembers are slots of its  *)
(* month.                                                                   *)
THEOREM TypeCorrect == RSpec => []RTypeOK
<1>1. RInv /\ SpanInv => RTypeOK
  <2> SUFFICES ASSUME RInv, SpanInv PROVE RTypeOK
    BY SMTT(30)
  <2> DEFINE B == [data : [Slots -> Words \cup {Junk}], has : BOOLEAN,
                   from : 0 .. MaxProbes, fixed : 0 .. MaxProbes,
                   first : Slots \cup {-1}, last : Slots \cup {-1}, upd : Dates, flaw : Flaws]
  <2>1. ASSUME NEW m \in Months PROVE blk[m] \in B
    <3>1. IsBlock(blk[m]) /\ SpanOK(blk[m])
      BY SMTT(30) DEF RInv, BlockOK, SpanInv
    <3> DEFINE b == blk[m]
    <3>2. /\ b = [data |-> b.data, has |-> b.has, from |-> b.from, fixed |-> b.fixed,
                  first |-> b.first, last |-> b.last, upd |-> b.upd, flaw |-> b.flaw]
          /\ b.data \in [Slots -> Words \cup {Junk}] /\ b.has \in BOOLEAN
          /\ b.from \in 0 .. MaxProbes /\ b.fixed \in 0 .. MaxProbes
      BY <3>1, Zenon DEF IsBlock
    <3>3. b.first \in Slots \cup {-1} /\ b.last \in Slots \cup {-1} /\ b.upd \in Dates /\ b.flaw \in Flaws
      BY <3>1, Zenon DEF SpanOK
    <3> HIDE DEF b
    <3>4. b \in B
      BY <3>2, <3>3
    <3> QED BY <3>4, SMTT(30) DEF b
  <2>2. blk \in [Months -> B]
    <3>1. blk = [m \in Months |-> blk[m]]
      BY DEF RInv
    <3> HIDE DEF B
    <3> QED BY <2>1, <3>1
  <2> QED BY <2>2, SMTT(30) DEF RTypeOK, RInv, LoadOK, SpanInv, Dates, Flaws
<1> QED BY <1>1, InvAlways, PTL

(* RealDatablock::Refresh and LoadFromFile: what a cached block must get     *)
(* right agrees with the file while meaner3 goes on writing, however many    *)
(* blocks are cached, unless one of the four flaws has hit the block.        *)
THEOREM CacheIsFaithful == RSpec => []CacheFaithful
<1>1. RInv => CacheFaithful
  <2> SUFFICES ASSUME RInv, ~again, NEW m \in Months, blk[m].flaw = "none",
                      NEW i \in Slots, Answerable(m, i)
               PROVE  Matches(m, i)
    BY DEF CacheFaithful
  <2>1. Lasting(blk[m], m)
    BY DEF RInv, BlockOK
  <2> QED BY <2>1 DEF Lasting, Answerable, Matches
<1> QED BY <1>1, InitInv, StepInv, PTL DEF RSpec


(* szb_search for a parameter of the base: wherever it starts and ends, in  *)
(* either direction, going block by block finds the nearest time with data, *)
(* in every reachable state of cache and files whose blocks are free of the *)
(* flaws and know where their data begin.                                   *)
THEOREM SearchIsExact == RSpec => []SearchExact
<1>1. RInv /\ SpanInv => SearchExact
  <2> SUFFICES ASSUME RInv, SpanInv, Quiet,
                      \A m \in Months : Blocks[m].flaw = "none" /\ (Blocks[m].first = -1 => Blocks[m].data = Empty)
               PROVE  Exact(Blocks)
    BY DEF SearchExact
  <2>1. Searchable(Blocks)
    BY BlocksSearchable DEF Quiet
  <2> QED BY <2>1, SearchNearest DEF RInv
<1> QED BY <1>1, InvAlways, PTL

=============================================================================
