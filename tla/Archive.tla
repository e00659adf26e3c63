------------------------------ MODULE Archive ------------------------------
(***************************************************************************)
(* What meaner3 promises to the programs that read the base.  There is a   *)
(* file per parameter and month, an array of slots that is filled from the *)
(* left.  A slot is filled once, with no data or with the value sampled in *)
(* the cycle it stands for.  The file of the status parameter Stamp tells  *)
(* up to which time the files of the parameters are final.                 *)
(*                                                                         *)
(* A time is a pair: a month, and the index of a period of ten minutes in  *)
(* it, as szb_time2my() and szb_probeind() compute them.                   *)
(***************************************************************************)
EXTENDS Integers

CONSTANTS
  Files,    \* everything that is saved
  Params,   \* the parameters of the configuration among them
  Stamp,    \* the status parameter that dates the base
  LastMonth,  \* months are 0 .. LastMonth
  MaxProbes,  \* probes in a month, szb_probecnt()
  Values,   \* data
  NoData    \* SZB_FILE_NODATA

ASSUME ArchiveAssumption ==
  /\ Params \subseteq Files /\ Stamp \in Files \ Params
  /\ LastMonth \in Nat /\ MaxProbes \in Nat \ {0}
  /\ NoData \notin Values

VARIABLES
  size,     \* size[q][m]: slots filled, -1 when there is no file
  word,     \* word[q][m][i]: what slot i holds
  saving,   \* a cycle is being saved
  time,     \* the time of the cycle saved last, or now
  sample,   \* the values being saved
  again     \* a cycle was saved at a time not later than that of an earlier one

avars == <<size, word, saving, time, sample, again>>

Months == 0 .. LastMonth
Slots == 0 .. MaxProbes - 1
Words == Values \cup {NoData}
Times == Months \X Slots
Never == <<-1, 0>>
Nothing == [q \in Files |-> NoData]

Before(s, t) == s[1] < t[1] \/ (s[1] = t[1] /\ s[2] < t[2])

\* The date the stamp gives is not earlier than t.
Covered(t) ==
  \E m \in Months :
     /\ size[Stamp][m] # -1
     /\ t[1] < m \/ (t[1] = m /\ t[2] < size[Stamp][m])

AInit ==
  /\ size = [q \in Files |-> [m \in Months |-> -1]]
  /\ word = [q \in Files |-> [m \in Months |-> [i \in Slots |-> NoData]]]
  /\ saving = FALSE /\ time = Never /\ sample = Nothing /\ again = FALSE

\* A cycle begins with new values.  The clock may have been set back.
Begin ==
  /\ ~saving /\ saving' = TRUE
  /\ \E t \in Times : time' = t /\ again' = (again \/ ~Before(time, t))
  /\ \E s \in [Files -> Words] : s[Stamp] \in Values /\ sample' = s
  /\ UNCHANGED <<size, word>>

\* The file of the current month is created.
Create(q) ==
  /\ saving /\ size[q][time[1]] = -1
  /\ size' = [size EXCEPT ![q][time[1]] = 0]
  /\ UNCHANGED <<word, saving, time, sample, again>>

\* The next slot of a file is filled, before its time with no data and at
\* its time with the value.  Values of parameters are stored before the
\* stamp covers them.  The last slot that is filled ends the cycle.
Fill(q) ==
  LET m == time[1]
      i == size[q][m]
  IN  /\ saving /\ i \in Slots /\ i =< time[2]
      /\ i = time[2] /\ q \in Params => again \/ ~Covered(time)
      /\ size' = [size EXCEPT ![q][m] = i + 1]
      /\ word' = [word EXCEPT ![q][m][i] = IF i < time[2] THEN NoData ELSE sample[q]]
      /\ saving' \in {TRUE, FALSE}
      /\ sample' = IF saving' THEN sample ELSE Nothing
      /\ UNCHANGED <<time, again>>

\* The cycle ends, whatever was saved by then.
End ==
  /\ saving /\ saving' = FALSE
  /\ sample' = Nothing
  /\ UNCHANGED <<size, word, time, again>>

ANext == Begin \/ End \/ \E q \in Files : Create(q) \/ Fill(q)

ASpec == AInit /\ [][ANext]_avars

=============================================================================
