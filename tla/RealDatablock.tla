---------------------------- MODULE RealDatablock ----------------------------
(***************************************************************************)
(* A program that reads the base through szbase while meaner3 writes it.   *)
(* The buffer caches one block per month of the parameter Watched.  A      *)
(* block is built from the file when there is one (LoadFromFile), and when *)
(* it is used later it is brought up to date (Refresh), unless the date of *)
(* the base is the one it was brought up to before.  The date is that of   *)
(* the stamp, read once per query (szb_definable_meaner_last).             *)
(*                                                                         *)
(* meaner3 is represented by the specification Archive, which the module   *)
(* Meaner implements.  One step per read() of LoadFromFile; Refresh takes  *)
(* the size once and reads up to it, which is one step, since files only   *)
(* grow.                                                                   *)
(***************************************************************************)
EXTENDS Archive, Sequences

CONSTANTS
  Watched,    \* the parameter that is read
  MaxBlocks,  \* blocks the buffer may hold
  Junk        \* what is found in memory that was not initialised

ASSUME ReaderAssumption ==
  /\ Watched \in Params
  /\ MaxBlocks \in Nat \ {0}
  /\ Junk \notin Words

VARIABLES
  date,   \* last_av_date of this query, Unread before it was needed
  load,   \* LoadFromFile in progress, or NotLoading
  blk,    \* blk[m]: the block of month m
  lru     \* the months whose blocks are cached, the oldest first

reader == <<date, load, blk, lru>>
rvars == <<avars, reader>>

Unread == <<-2, 0>>

Min2(a, b) == IF a < b THEN a ELSE b
Empty == [i \in Slots |-> NoData]

\* probe2time(n - 1, month): the time of the last of n probes.
DateOf(m, n) == IF n = 0 THEN <<m - 1, MaxProbes - 1>> ELSE <<m, n - 1>>

\* d is the time of the last probe in the newest file of q, Never when there
\* are no files: szb_search_last, szb_definable_meaner_last.
NewestProbe(q, d) ==
  \/ (\A m \in Months : size[q][m] = -1) /\ d = Never
  \/ \E m \in Months :
        /\ size[q][m] # -1 /\ d = DateOf(m, size[q][m])
        /\ \A n \in Months : n > m => size[q][n] = -1

\* No block: also what szb_datablock_t::szb_datablock_t sets.  has is
\* data != NULL; flaw is history: why the block may differ from its file.
NoBlock ==
  [data |-> Empty, has |-> FALSE, from |-> 0, fixed |-> 0,
   first |-> -1, last |-> -1, upd |-> Never, flaw |-> "none"]

NotLoading == [month |-> -1, pos |-> 0, got |-> 0, data |-> Empty, torn |-> FALSE]

Cached == {lru[k] : k \in 1 .. Len(lru)}

RInit ==
  /\ AInit
  /\ date = Unread /\ load = NotLoading
  /\ blk = [m \in Months |-> NoBlock] /\ lru = <<>>

\* Szbase::NextQuery.
NextQuery ==
  /\ load = NotLoading /\ date # Unread
  /\ date' = Unread
  /\ UNCHANGED <<avars, load, blk, lru>>

\* The date is read from the newest stamp file and kept for the query; that
\* there is none is not kept.
GetMeanerDate ==
  /\ load = NotLoading /\ date \in {Unread, Never}
  /\ \E d \in (-1 .. LastMonth) \X Slots : NewestProbe(Stamp, d) /\ date' = d
  /\ UNCHANGED <<avars, load, blk, lru>>

\* Mutant: no block is ever removed.
AddBlockKeepsAll(m, b) ==
  /\ lru' = Append(lru, m)
  /\ blk' = [blk EXCEPT ![m] = b]

\* szb_buffer_str::AddBlock; when the buffer is full the oldest block goes.
AddBlock(m, b) ==
  LET full == Len(lru) >= MaxBlocks
  IN  /\ lru' = Append(IF full THEN Tail(lru) ELSE lru, m)
      /\ blk' = [n \in Months |->
                   IF n = m THEN b
                   ELSE IF full /\ n = Head(lru) THEN NoBlock ELSE blk[n]]

\* RealDatablock::RealDatablock, when there is no file yet: if there is one
\* for a later month, none will come.
NewWithoutFile(m) ==
  /\ load = NotLoading /\ date # Unread /\ m \notin Cached
  /\ size[Watched][m] = -1
  /\ \E d \in (-1 .. LastMonth) \X Slots :
        /\ NewestProbe(Watched, d)
        /\ AddBlock(m, [NoBlock EXCEPT !.upd = date,
                                       !.fixed = IF m < d[1] THEN MaxProbes ELSE 0])
  /\ UNCHANGED <<avars, date, load>>

\* The same when there is a file: LoadFromFile opens it.
NewFromFile(m) ==
  /\ load = NotLoading /\ date # Unread /\ m \notin Cached
  /\ size[Watched][m] # -1
  /\ load' = [NotLoading EXCEPT !.month = m]
  /\ UNCHANGED <<avars, date, blk, lru>>

\* What the next read() of LoadFromFile gets.
Readable ==
  IF load.got = MaxProbes THEN 0
  ELSE Min2(size[Watched][load.month] - load.pos, MaxProbes - load.got)

\* A read() that is short is followed by lseek(fd, i, SEEK_SET), where i is
\* what this read() returned, not what was read so far.
LoadRead ==
  /\ load # NotLoading /\ Readable > 0
  /\ load' = [load EXCEPT
       !.data = [i \in Slots |->
                   IF load.got =< i /\ i < load.got + Readable
                   THEN word[Watched][load.month][load.pos + i - load.got]
                   ELSE load.data[i]],
       !.pos = IF Readable < MaxProbes - load.got THEN Readable ELSE @ + Readable,
       !.got = @ + Readable,
       !.torn = load.got > 0]
  /\ UNCHANGED <<avars, date, blk, lru>>

\* The first and the last index with data, as LoadFromFile finds them.
FirstData(data) ==
  IF \A i \in Slots : data[i] = NoData THEN -1
  ELSE CHOOSE i \in Slots : data[i] # NoData /\ \A j \in Slots : j < i => data[j] = NoData
LastData(data) ==
  IF \A i \in Slots : data[i] = NoData THEN -1
  ELSE CHOOSE i \in Slots : data[i] # NoData /\ \A j \in Slots : j > i => data[j] = NoData

LoadDone ==
  /\ load # NotLoading /\ Readable = 0
  /\ AddBlock(load.month,
       [data |-> load.data, has |-> TRUE, from |-> load.got, fixed |-> load.got,
        first |-> FirstData(load.data), last |-> LastData(load.data),
        upd |-> date, flaw |-> IF load.torn THEN "load" ELSE "none"])
  /\ load' = NotLoading
  /\ UNCHANGED <<avars, date>>

(***************************************************************************)
(* RealDatablock::Refresh of block b of month m                            *)
(***************************************************************************)

\* There is no file: what is fixed is the time that has passed.
RefreshNoFile(b, m) ==
  [b EXCEPT !.upd = date,
            !.fixed = IF b.first >= 0 \/ date[1] < m THEN @
                      ELSE IF date[1] > m THEN MaxProbes ELSE date[2]]

\* The file has not grown.  Memory was allocated nevertheless.
RefreshSameSize(b) ==
  [b EXCEPT !.upd = date, !.has = TRUE,
            !.data = IF b.has THEN @ ELSE [i \in Slots |-> Junk],
            !.flaw = IF b.has THEN @ ELSE "empty"]

\* Mutant: the month of the date counts as finished.
RefreshGrownTooFixed(b, m) ==
  LET n == size[Watched][m]
      fix == IF date[1] >= m THEN MaxProbes ELSE n
      datum(i) == IF ~b.has /\ i >= fix THEN NoData
                  ELSE IF b.from =< i /\ i < n THEN word[Watched][m][i]
                  ELSE IF b.has THEN b.data[i] ELSE Junk
      found == {i \in b.from .. n - 1 : word[Watched][m][i] # NoData}
  IN  [b EXCEPT !.upd = date, !.has = TRUE, !.from = n, !.fixed = fix,
                !.data = [i \in Slots |-> datum(i)],
                !.last = IF found = {} THEN @
                         ELSE CHOOSE i \in found : \A j \in found : j =< i,
                !.flaw = IF b.has \/ fix = n THEN @
                         ELSE IF fix < n THEN "ahead" ELSE "tail"]

\* The new words are read.  A block that had no memory until now is set to
\* no data beyond its fixed part, be it read or not.
RefreshGrown(b, m) ==
  LET n == size[Watched][m]
      fix == IF date[1] > m THEN MaxProbes
             ELSE IF date[1] < m THEN n ELSE Min2(n, date[2] + 1)
      datum(i) == IF ~b.has /\ i >= fix THEN NoData
                  ELSE IF b.from =< i /\ i < n THEN word[Watched][m][i]
                  ELSE IF b.has THEN b.data[i] ELSE Junk
      found == {i \in b.from .. n - 1 : word[Watched][m][i] # NoData}
  IN  [b EXCEPT !.upd = date, !.has = TRUE, !.from = n, !.fixed = fix,
                !.data = [i \in Slots |-> datum(i)],
                !.last = IF found = {} THEN @
                         ELSE CHOOSE i \in found : \A j \in found : j =< i,
                !.flaw = IF b.has \/ fix = n THEN @
                         ELSE IF fix < n THEN "ahead" ELSE "tail"]

Refreshed(b, m) ==
  IF b.fixed = MaxProbes \/ b.upd = date THEN b
  ELSE IF size[Watched][m] = -1 THEN RefreshNoFile(b, m)
  ELSE IF size[Watched][m] =< b.from THEN RefreshSameSize(b)
  ELSE RefreshGrown(b, m)

\* szb_get_datablock finds the block, which becomes the newest, and GetData
\* refreshes it.
GetCached(m) ==
  /\ load = NotLoading /\ date # Unread /\ m \in Cached
  /\ \E k \in 1 .. Len(lru) :
        /\ lru[k] = m
        /\ lru' = Append(SubSeq(lru, 1, k - 1) \o SubSeq(lru, k + 1, Len(lru)), m)
  /\ blk' = [blk EXCEPT ![m] = Refreshed(blk[m], m)]
  /\ UNCHANGED <<avars, date, load>>

RStep ==
  \/ NextQuery \/ GetMeanerDate \/ LoadRead \/ LoadDone
  \/ \E m \in Months : NewWithoutFile(m) \/ NewFromFile(m) \/ GetCached(m)

RNext == RStep \/ (ANext /\ UNCHANGED reader)

RSpec == RInit /\ [][RNext]_rvars

(***************************************************************************)
(* Properties                                                              *)
(***************************************************************************)

\* Type correctness.
RTypeOK ==
  /\ date \in ((-1 .. LastMonth) \X Slots) \cup {Unread}
  /\ load \in [month : Months \cup {-1}, pos : 0 .. MaxProbes, got : 0 .. MaxProbes,
               data : [Slots -> Words], torn : BOOLEAN]
  /\ blk \in [Months ->
       [data : [Slots -> Words \cup {Junk}], has : BOOLEAN,
        from : 0 .. MaxProbes, fixed : 0 .. MaxProbes,
        first : Slots \cup {-1}, last : Slots \cup {-1},
        upd : (-1 .. LastMonth) \X Slots,
        flaw : {"none", "load", "empty", "ahead", "tail"}]]
  /\ lru \in Seq(Months) /\ Len(lru) =< MaxBlocks

\* What block m shows at index i is what the file holds.
Matches(m, i) == blk[m].data[i] = word[Watched][m][i]

\* What a block must get right: its fixed part, which Refresh never looks at
\* again, and the time up to the date it was refreshed for.
Answerable(m, i) == i < blk[m].fixed \/ ~Before(blk[m].upd, <<m, i>>)

\* The cached blocks agree with the files, now and as the files grow, though
\* Refresh reads nothing while the date of the base stays the same.  Excepted
\* are the blocks that one of four flaws has hit, see flaw.
CacheFaithful ==
  ~again => \A m \in Months : blk[m].flaw = "none" =>
              \A i \in Slots : Answerable(m, i) => Matches(m, i)
=============================================================================
