----------------------------- MODULE RealSearch -----------------------------
(***************************************************************************)
(* szb_search for a parameter that is saved in the base: it starts at a    *)
(* time and goes left or right, block by block, to the nearest time with   *)
(* data.  Here times are numbers, counted in probes; month and index are   *)
(* what szb_time2my() and szb_probeind() return.  The search is evaluated  *)
(* in one state of RealDatablock.                                          *)
(***************************************************************************)
EXTENDS RealDatablock

MonthOf(t) == t \div MaxProbes
IndexOf(t) == t % MaxProbes
ToTime(i, m) == m * MaxProbes + i
AllTimes == 0 .. (LastMonth + 1) * MaxProbes - 1

\* The block szb_get_datablock() and GetData() give in this state.
Got(m) ==
  LET data == word[Watched][m]
  IN  IF m \in Cached THEN Refreshed(blk[m], m)
      ELSE IF size[Watched][m] = -1 THEN NoBlock
      ELSE [NoBlock EXCEPT !.data = data, !.first = FirstData(data), !.last = LastData(data)]

\* Mutant: goes on one probe too far to the left.
SearchLeftSkips(block, start, end) ==
  LET from[t \in -1 .. start] ==
        LET m == MonthOf(t)
            b == block[m]
        IN  IF t < end THEN -1
            ELSE IF b.first < 0 THEN from[ToTime(0, m) - 1]
            ELSE IF IndexOf(t) > b.last THEN from[ToTime(b.last, m) - 1]
            ELSE IF IndexOf(t) < b.first THEN from[ToTime(0, m) - 1]
            ELSE IF b.data[IndexOf(t)] # NoData THEN t
            ELSE from[t - 1]
  IN  from[start]

\* search_in_data_left: t goes down to end.
SearchLeft(block, start, end) ==
  LET from[t \in -1 .. start] ==
        LET m == MonthOf(t)
            b == block[m]
        IN  IF t < end THEN -1
            ELSE IF b.first < 0 THEN from[ToTime(0, m) - 1]
            ELSE IF IndexOf(t) > b.last THEN from[ToTime(b.last + 1, m) - 1]
            ELSE IF IndexOf(t) < b.first THEN from[ToTime(0, m) - 1]
            ELSE IF b.data[IndexOf(t)] # NoData THEN t
            ELSE from[t - 1]
  IN  from[start]

\* search_in_data_right: t goes up to end.
SearchRight(block, start, end) ==
  LET from[t \in start .. (LastMonth + 1) * MaxProbes] ==
        LET m == MonthOf(t)
            b == block[m]
        IN  IF t > end THEN -1
            ELSE IF b.first < 0 THEN from[ToTime(MaxProbes - 1, m) + 1]
            ELSE IF IndexOf(t) > b.last THEN from[ToTime(MaxProbes - 1, m) + 1]
            ELSE IF IndexOf(t) < b.first THEN from[ToTime(b.first - 1, m) + 1]
            ELSE IF b.data[IndexOf(t)] # NoData THEN t
            ELSE from[t + 1]
  IN  from[start]

\* szb_search_first, szb_search_last.
FirstDate ==
  ToTime(0, CHOOSE m \in Months : size[Watched][m] # -1 /\ \A n \in Months : n < m => size[Watched][n] = -1)
LastDate ==
  LET d == CHOOSE d \in (-1 .. LastMonth) \X Slots : NewestProbe(Watched, d)
  IN  ToTime(d[2], d[1])

Max2(a, b) == IF a < b THEN b ELSE a

\* szb_real_search_data, with adjust_search_boundaries; end is -1 when the
\* whole base is searched.
Search(block, start, end, direction) ==
  IF \A m \in Months : size[Watched][m] = -1 THEN -1
  ELSE IF direction < 0
       THEN IF start < FirstDate THEN -1
            ELSE SearchLeft(block, Min2(start, LastDate), Max2(end, FirstDate))
       ELSE IF start > LastDate THEN -1
            ELSE SearchRight(block, Max2(start, FirstDate),
                             IF end = -1 THEN LastDate ELSE Min2(end, LastDate))

\* The nearest time with data, by definition.
Nearest(block, start, end, direction) ==
  LET shown == {t \in AllTimes : block[MonthOf(t)].data[IndexOf(t)] # NoData}
      range == {t \in shown : IF direction < 0 THEN end =< t /\ t =< start
                              ELSE start =< t /\ (end = -1 \/ t =< end)}
  IN  IF range = {} THEN -1
      ELSE CHOOSE t \in range : \A u \in range : IF direction < 0 THEN u =< t ELSE t =< u

\* A new query, while nothing is being saved.
Quiet == load = NotLoading /\ ~saving /\ date # Unread /\ NewestProbe(Stamp, date)

Blocks == [m \in Months |-> Got(m)]

Exact(block) ==
  \A start \in AllTimes, end \in AllTimes \cup {-1}, direction \in {-1, 1} :
     Search(block, start, end, direction) = Nearest(block, start, end, direction)

\* szb_search returns "-1 if no data was found, else date of first not empty
\* record" (szbbuf.h), if the blocks know where their data begin.
SearchExact ==
  Quiet => LET block == Blocks
           IN (\A m \in Months : /\ block[m].flaw = "none"
                                 /\ block[m].first = -1 => block[m].data = Empty)
              => Exact(block)
=============================================================================
