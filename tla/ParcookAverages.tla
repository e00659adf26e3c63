--------------------------- MODULE ParcookAverages ---------------------------
(***************************************************************************)
(* The averages of parcook.  Every cycle of MainLoop puts the Probe        *)
(* segment into a window of six ten-second slots and publishes the mean of *)
(* the window as the Minute segment; Minute goes into a window of ten      *)
(* one-minute slots, whose mean is Min10; Min10 goes into a window of six  *)
(* ten-minute slots, whose mean is Hour.  The means are not computed from  *)
(* the windows: update_value keeps a sum and a count per parameter and     *)
(* window up to date, calculate_average divides them.  The slot that is    *)
(* overwritten is chosen by the wall clock.                                *)
(*                                                                         *)
(* A cycle takes as many steps as MainLoop takes locks, since the segments *)
(* change one after the other.  Words are -Half .. Half - 1 (Half is 2^15  *)
(* in the code); the sums are long long and cannot overflow.               *)
(***************************************************************************)
EXTENDS Integers

CONSTANTS Half,       \* a word holds -Half .. Half - 1
          Info,       \* ParsInfo, indexed by the words of a segment
          Data,       \* what the lines and formulas put into a word of Probe
          Starts,     \* ticks (ten seconds) at which MainLoop may be entered first
          Steps,      \* ticks from one cycle to the next
          MaxCycles   \* bound: cycles

Params == DOMAIN Info
Word == -Half .. Half - 1
SZARP_NO_DATA == -Half
Segment == [Params -> Word]

ASSUME HalfAssumption == Half \in Nat \ {0}
ASSUME InfoAssumption ==
  /\ Info \in [Params -> [type : {"SINGLE", "COMBINED"}, lsw_msw : {"LSW", "MSW"}, other : Params]]
  /\ \A p \in Params : Info[p].type = "COMBINED" =>
       LET o == Info[p].other
       IN Info[o].type = "COMBINED" /\ Info[o].other = p /\ Info[o].lsw_msw # Info[p].lsw_msw
ASSUME DataAssumption == Data \subseteq Word
ASSUME ClockAssumption == Starts \subseteq Nat /\ Steps \subseteq Nat /\ MaxCycles \in Nat

VARIABLES
  Probe, Minute, Min10, Hour,   \* the segments
  Probes, Minutes, Min10s,      \* the windows, slot by slot
  Sums, Cnts,                   \* per probe_type: 0 Probes, 1 Minutes, 2 Min10s
  pc,                           \* the part of MainLoop that comes next
  now,                          \* ticks since midnight, read when the cycle starts
  last_min, last_min10, first_time,
  stamp,                        \* tick at which a slot of Probes was written, -1 never
  steady,                       \* cycles in a row that no tick lies between
  cycles

windows == <<Probes, Minutes, Min10s>>
clock == <<now, last_min, last_min10, first_time, steady, cycles>>
vars == <<Probe, Minute, Min10, Hour, windows, Sums, Cnts, pc, clock, stamp>>

\* mutant: the slot is chosen by the minute
tm_sec10Minute == (now \div 6) % 6

tm_sec10 == now % 6                   \* tm_sec / 10
tm_min == (now \div 6) % 60

Sixth == 0 .. 5
Tenth == 0 .. 9

(* MainLoop has not been entered; main has cleared Probe, Minute and Min10 *)
(* and the windows.  A new Hour segment is filled with zeroes.             *)
Init ==
  /\ Probe = [p \in Params |-> SZARP_NO_DATA]
  /\ Minute = [p \in Params |-> SZARP_NO_DATA]
  /\ Min10 = [p \in Params |-> SZARP_NO_DATA]
  /\ Hour = [p \in Params |-> 0]
  /\ Probes = [i \in Sixth |-> [p \in Params |-> SZARP_NO_DATA]]
  /\ Minutes = [i \in Tenth |-> [p \in Params |-> SZARP_NO_DATA]]
  /\ Min10s = [i \in Sixth |-> [p \in Params |-> SZARP_NO_DATA]]
  /\ Sums = [t \in 0 .. 2 |-> [p \in Params |-> 0]]
  /\ Cnts = [t \in 0 .. 2 |-> [p \in Params |-> 0]]
  /\ pc = "probe"
  /\ now \in Starts
  /\ last_min = -1 /\ last_min10 = -1 /\ first_time = 1
  /\ stamp = [i \in Sixth |-> -1]
  /\ steady = 0 /\ cycles = 0

-----------------------------------------------------------------------------
(* The parameters that have a sum: single ones and, for a combined pair,   *)
(* the word with the more significant half.                                *)
Leads(p) == Info[p].type = "SINGLE" \/ Info[p].lsw_msw = "MSW"

(* The number that the words s of a segment hold for p: a word, or the     *)
(* signed high word followed by the unsigned low word.                     *)
Value(s, p) == IF Info[p].type = "SINGLE" THEN s[p]
               ELSE s[p] * (2 * Half) + (s[Info[p].other] % (2 * Half))

ToWord(n) == ((n + Half) % (2 * Half)) - Half

\* C division truncates towards zero
Quotient(n, d) == IF n >= 0 THEN n \div d ELSE -((-n) \div d)

(* What a slot adds to the sum and to the count of p. *)
SumOf(s, p) == IF s[p] = SZARP_NO_DATA THEN 0 ELSE Value(s, p)
CntOf(s, p) == IF s[p] = SZARP_NO_DATA THEN 0 ELSE 1

(* update_value for every parameter: slot old of window type is replaced   *)
(* by the segment ivt.                                                     *)
\* mutants: the old datum stays in the sum when the new one is no data; the
\* count is never decreased
update_sumsKeepsOld(type, old, ivt) ==
  Sums' = [Sums EXCEPT ![type] =
             [p \in Params |-> IF Leads(p) /\ ivt[p] # SZARP_NO_DATA
                               THEN Sums[type][p] - SumOf(old, p) + SumOf(ivt, p)
                               ELSE Sums[type][p]]]
update_cntsOnlyUp(type, old, ivt) ==
  Cnts' = [Cnts EXCEPT ![type] =
             [p \in Params |-> IF Leads(p) THEN Cnts[type][p] + CntOf(ivt, p)
                               ELSE Cnts[type][p]]]

update_sums(type, old, ivt) ==
  Sums' = [Sums EXCEPT ![type] =
             [p \in Params |-> IF Leads(p) THEN Sums[type][p] - SumOf(old, p) + SumOf(ivt, p)
                               ELSE Sums[type][p]]]
update_cnts(type, old, ivt) ==
  Cnts' = [Cnts EXCEPT ![type] =
             [p \in Params |-> IF Leads(p) THEN Cnts[type][p] - CntOf(old, p) + CntOf(ivt, p)
                               ELSE Cnts[type][p]]]
update_value(type, old, ivt) == update_sums(type, old, ivt) /\ update_cnts(type, old, ivt)

\* mutants: no division; a high word that is rounded towards zero
calculate_averageSum(probes, type) ==
  [p \in Params |-> IF Cnts[type][p] = 0 THEN SZARP_NO_DATA ELSE Sums[type][p]]
calculate_averageTruncated(probes, type) ==
  [p \in Params |->
     LET m == IF Leads(p) THEN p ELSE Info[p].other
         v == Quotient(Sums[type][m], Cnts[type][m])
     IN IF Cnts[type][m] = 0 THEN IF Leads(p) THEN SZARP_NO_DATA ELSE probes[p]
        ELSE ToWord(IF Leads(p) THEN Quotient(v, 2 * Half) ELSE v)]

(* calculate_average for every parameter.  The low word of a combined pair *)
(* is left alone when the pair has no data.                                *)
calculate_average(probes, type) ==
  [p \in Params |->
     LET m == IF Leads(p) THEN p ELSE Info[p].other
         v == Quotient(Sums[type][m], Cnts[type][m])
     IN CASE Cnts[type][m] = 0 -> IF Leads(p) THEN SZARP_NO_DATA ELSE probes[p]
          [] OTHER -> IF Info[p].type = "SINGLE" THEN v
                      ELSE IF Leads(p) THEN ToWord(v \div (2 * Half)) ELSE ToWord(v)]

-----------------------------------------------------------------------------
UpdateProbe ==
  /\ pc = "probe" /\ pc' = "minute"
  /\ Probe' \in [Params -> Data]
  /\ update_value(0, Probes[tm_sec10], Probe')
  /\ Probes' = [Probes EXCEPT ![tm_sec10] = Probe']
  /\ stamp' = [stamp EXCEPT ![tm_sec10] = now]
  /\ UNCHANGED <<Minute, Min10, Hour, Minutes, Min10s, clock>>

UpdateMinute ==
  /\ pc = "minute" /\ pc' = "min10"
  /\ Minute' = calculate_average(Minute, 0)
  /\ update_value(1, Minutes[tm_min % 10], Minute')
  /\ Minutes' = [Minutes EXCEPT ![tm_min % 10] = Minute']
  /\ UNCHANGED <<Probe, Min10, Hour, Probes, Min10s, clock, stamp>>

\* mutant: the mean of the wrong window
UpdateMin10WrongType ==
  /\ pc = "min10" /\ pc' = "hour"
  /\ IF last_min # tm_min \/ first_time = 1
     THEN /\ Min10' = calculate_average(Min10, 0)
          /\ update_value(2, Min10s[tm_min \div 10], Min10')
          /\ Min10s' = [Min10s EXCEPT ![tm_min \div 10] = Min10']
     ELSE UNCHANGED <<Min10, Min10s, Sums, Cnts>>
  /\ last_min' = tm_min
  /\ UNCHANGED <<Probe, Minute, Hour, Probes, Minutes, now, last_min10, first_time,
                 steady, cycles, stamp>>

UpdateMin10 ==
  /\ pc = "min10" /\ pc' = "hour"
  /\ IF last_min # tm_min \/ first_time = 1
     THEN /\ Min10' = calculate_average(Min10, 1)
          /\ update_value(2, Min10s[tm_min \div 10], Min10')
          /\ Min10s' = [Min10s EXCEPT ![tm_min \div 10] = Min10']
     ELSE UNCHANGED <<Min10, Min10s, Sums, Cnts>>
  /\ last_min' = tm_min
  /\ UNCHANGED <<Probe, Minute, Hour, Probes, Minutes, now, last_min10, first_time,
                 steady, cycles, stamp>>

UpdateHour ==
  /\ pc = "hour" /\ pc' = "sleep"
  /\ Hour' = IF last_min10 # tm_min \div 10 \/ first_time = 1
             THEN calculate_average(Hour, 2) ELSE Hour
  /\ last_min10' = tm_min \div 10
  /\ first_time' = 0
  /\ UNCHANGED <<Probe, Minute, Min10, windows, Sums, Cnts, now, last_min, steady, cycles,
                 stamp>>

(* sleep() until the next tick.  A SIGCHLD ends it within the same tick; a *)
(* cycle that takes longer than ten seconds skips ticks.                   *)
Sleep ==
  /\ pc = "sleep" /\ pc' = "probe"
  /\ cycles < MaxCycles /\ cycles' = cycles + 1
  /\ \E d \in Steps : now' = now + d /\ steady' = IF d > 1 THEN 0 ELSE steady + d
  /\ UNCHANGED <<Probe, Minute, Min10, Hour, windows, Sums, Cnts, last_min, last_min10,
                 first_time, stamp>>

Done == pc = "sleep" /\ cycles = MaxCycles /\ UNCHANGED vars

Next == UpdateProbe \/ UpdateMinute \/ UpdateMin10 \/ UpdateHour \/ Sleep \/ Done

Spec == Init /\ [][Next]_vars

-----------------------------------------------------------------------------
TypeOK ==
  /\ Probe \in Segment /\ Minute \in Segment /\ Min10 \in Segment /\ Hour \in Segment
  /\ Probes \in [Sixth -> Segment] /\ Minutes \in [Tenth -> Segment]
  /\ Min10s \in [Sixth -> Segment]
  /\ Sums \in [0 .. 2 -> [Params -> Int]]
  /\ Cnts \in [0 .. 2 -> [Params -> 0 .. 10]]
  /\ pc \in {"probe", "minute", "min10", "hour", "sleep"}
  /\ now \in Nat
  /\ last_min \in -1 .. 59 /\ last_min10 \in -1 .. 5 /\ first_time \in {0, 1}
  /\ stamp \in [Sixth -> Int]
  /\ steady \in Nat
  /\ cycles \in 0 .. MaxCycles

(* The sum and the count of a window, computed from its slots. *)
Sum6(w, p) == SumOf(w[0], p) + SumOf(w[1], p) + SumOf(w[2], p)
              + SumOf(w[3], p) + SumOf(w[4], p) + SumOf(w[5], p)
Cnt6(w, p) == CntOf(w[0], p) + CntOf(w[1], p) + CntOf(w[2], p)
              + CntOf(w[3], p) + CntOf(w[4], p) + CntOf(w[5], p)
Sum10(w, p) == Sum6(w, p) + SumOf(w[6], p) + SumOf(w[7], p) + SumOf(w[8], p) + SumOf(w[9], p)
Cnt10(w, p) == Cnt6(w, p) + CntOf(w[6], p) + CntOf(w[7], p) + CntOf(w[8], p) + CntOf(w[9], p)

(* The running sums never drift: after any number of cycles, skipped and   *)
(* repeated ticks and no-data gaps, the sum and the count that             *)
(* update_value keeps are those of the window's slots.                     *)
SumsMatch ==
  \A p \in Params : Leads(p) =>
    /\ Sums[0][p] = Sum6(Probes, p) /\ Cnts[0][p] = Cnt6(Probes, p)
    /\ Sums[1][p] = Sum10(Minutes, p) /\ Cnts[1][p] = Cnt10(Minutes, p)
    /\ Sums[2][p] = Sum6(Min10s, p) /\ Cnts[2][p] = Cnt6(Min10s, p)

(* An average of data is data: the published Minute value is SZARP_NO_DATA *)
(* only when the whole window is, so rounding and the split into words     *)
(* never produce the marker by accident.                                   *)
NoDataOnlyIfEmpty ==
  pc \in {"min10", "hour", "sleep"} =>
    \A p \in Params : Leads(p) =>
      (Minute[p] = SZARP_NO_DATA <=> \A i \in Sixth : Probes[i][p] = SZARP_NO_DATA)

(* The mean of the data in a window of n slots with sum sum and count cnt  *)
(* is the number v: v is the exact mean rounded towards zero.              *)
IsMean(v, sum, cnt) ==
  IF sum >= 0 THEN v * cnt <= sum /\ sum < (v + 1) * cnt
              ELSE v * cnt >= sum /\ sum > (v - 1) * cnt

(* What MainLoop publishes are the means of the windows: whenever the      *)
(* Minute, Min10 or Hour value of a parameter changes, its new value is    *)
(* the mean of the data in the window at that moment.                      *)
PublishesMeans ==
  [][\A p \in Params : Leads(p) =>
       /\ Minute'[p] \notin {Minute[p], SZARP_NO_DATA} =>
            IsMean(Value(Minute', p), Sum6(Probes, p), Cnt6(Probes, p))
       /\ Min10'[p] \notin {Min10[p], SZARP_NO_DATA} =>
            IsMean(Value(Min10', p), Sum10(Minutes, p), Cnt10(Minutes, p))
       /\ Hour'[p] \notin {Hour[p], SZARP_NO_DATA} =>
            IsMean(Value(Hour', p), Sum6(Min10s, p), Cnt6(Min10s, p))]_vars

(* When MainLoop has missed no tick for a minute, the window of Probes     *)
(* holds nothing but the samples of that minute.                           *)
FreshWindow ==
  pc # "probe" /\ steady >= 5 => \A i \in Sixth : now - stamp[i] < 6
=============================================================================
