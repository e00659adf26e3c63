--------------------------- MODULE Execute_proofs ---------------------------
(***************************************************************************)
(* The execute sections of meaner3, for any list of sections, any period   *)
(* and any interleaving of the main loop, the signal handlers and the      *)
(* children.                                                               *)
(*                                                                         *)
(* 1. A section never has two processes.  OneProcess is not inductive by   *)
(*    itself: ProcInv adds that process ids are not used twice.            *)
(* 2. The list of alarms stays sorted and has one alarm of the cycle.      *)
(*    AlarmInv adds that the alarms on it are different ones, that only    *)
(*    the first is set, and that between FindPlace and LinkAlarm, where    *)
(*    both handlers may run, the neighbours found are still on the list,   *)
(*    one not later and the other later than the alarm of the cycle.       *)
(* 3. With one section, the timer is set for the first alarm, ArmInv, and  *)
(*    no command outlives its limit, KillInv: the alarm that kills it is   *)
(*    on the list, and nothing but its signal takes it off.  With two      *)
(*    sections both are false: the SIGCHLD handler may launch the next     *)
(*    section in the middle of InsertAlarm, which then overwrites the      *)
(*    links and the timer that this has set.                               *)
(***************************************************************************)
EXTENDS Execute, TLAPS, WellFoundedInduction

SectStates == [pid : Int, fails : Nat, torun : BOOLEAN]
ProcStates == [pid : Nat \ {0}, section : 1 .. N, killed : BOOLEAN, start : Nat,
               state : {"runs", "exited", "failed", "stopped", "suspended"}]

StateType == /\ pids \in Nat /\ stops \in Nat /\ current \in 0 .. N /\ now \in Nat
             /\ sect \in [1 .. N -> SectStates]
             /\ procs \subseteq ProcStates

(* fork has given the pids.                                                *)
Numbered == /\ \A p \in procs : p.pid <= pids
            /\ \A s \in 1 .. N : sect[s].pid <= pids

Distinct == /\ \A p, q \in procs : p.pid = q.pid => p = q
            /\ \A s, t \in 1 .. N : sect[s].pid > 0 /\ sect[s].pid = sect[t].pid => s = t

(* Until a child is stopped, the sections know every process.              *)
NoneStopped == \A p \in procs : p.state \notin {"stopped", "suspended"}
Recorded == \A p \in procs : sect[p.section].pid = p.pid
Alive == \A s \in 1 .. N : sect[s].pid > 0 => \E p \in procs : p.pid = sect[s].pid

ProcInv == /\ StateType /\ Numbered /\ Distinct
           /\ stops = 0 => NoneStopped /\ Recorded /\ Alive /\ fault # "child"

-----------------------------------------------------------------------------
(* The number of sections is a natural number.                             *)
LEMMA SectionCount == N \in Nat
BY SectionsAssumption DEF N

(* GetNext stays in the list or returns NULL.                              *)
LEMMA NextInList == ASSUME NEW s \in 1 .. N PROVE GetNext(s) \in 0 .. N
BY SectionCount DEF GetNext, NULL

(* CheckRetry counts.                                                      *)
LEMMA RetryCounts == ASSUME StateType, NEW s \in 1 .. N PROVE CheckRetry(s) \in Nat
<1> DEFINE limits == {l \in Int : l > -Period}
<1>1. Sections[s].retry \in Nat
  <2> DEFINE R == [due : SUBSET Nat, retry : Nat, parallel : BOOLEAN, limitstr : limits]
  <2>1. Sections \in Seq(R)
    BY SectionsAssumption
  <2>2. \A r \in R : r.retry \in Nat
    OBVIOUS
  <2> HIDE DEF R
  <2>3. Sections[s] \in R
    BY <2>1 DEF N
  <2> QED BY <2>2, <2>3
<1>2. sect[s].fails \in Nat
  BY DEF StateType, SectStates
<1> QED BY <1>1, <1>2 DEF CheckRetry

(* A section whose command has returned has no pid.                        *)
LEMMA ReturnedState ==
  ASSUME StateType, NEW s \in 1 .. N, NEW failed \in BOOLEAN
  PROVE  Returned(s, failed) \in SectStates /\ Returned(s, failed).pid = 0
<1> DEFINE n == IF failed THEN CheckRetry(s) ELSE sect[s].fails
<1>1. sect[s] \in SectStates /\ n \in Nat
  BY RetryCounts DEF StateType, SectStates
<1>2. Returned(s, failed) = [sect[s] EXCEPT !.pid = 0, !.fails = n]
  BY DEF Returned
<1> HIDE DEF n
<1>3. sect[s].torun \in BOOLEAN
  BY <1>1 DEF SectStates
<1>4. Returned(s, failed) = [pid |-> 0, fails |-> n, torun |-> sect[s].torun]
  BY Zenon, <1>1, <1>2 DEF SectStates
<1> QED BY <1>1, <1>3, <1>4 DEF SectStates

(* A step that changes neither processes nor sections.                     *)
LEMMA QuietStep ==
  ASSUME ProcInv, UNCHANGED <<sect, procs, pids, stops>>, current' \in 0 .. N, now' \in Nat,
         fault' = "child" => fault = "child"
  PROVE  ProcInv'
BY DEF ProcInv, StateType, Numbered, Distinct, NoneStopped, Recorded, Alive

(* A step that changes the sections, but not their pids.                   *)
LEMMA MarkStep ==
  ASSUME ProcInv, UNCHANGED <<procs, pids, stops, fault, now>>, current' \in 0 .. N,
         sect' \in [1 .. N -> SectStates], \A s \in 1 .. N : sect'[s].pid = sect[s].pid
  PROVE  ProcInv'
<1>1. StateType'
  BY DEF ProcInv, StateType
<1>2. Numbered' /\ Distinct'
  BY DEF ProcInv, Numbered, Distinct
<1>3. stops = 0 => NoneStopped' /\ Recorded' /\ Alive'
  BY DEF ProcInv, StateType, ProcStates, NoneStopped, Recorded, Alive
<1> QED BY <1>1, <1>2, <1>3 DEF ProcInv

(* A process changes, but not its pid and its section; it is stopped only  *)
(* by a step that counts in stops.                                         *)
LEMMA ChangeStep ==
  ASSUME ProcInv, UNCHANGED <<sect, pids, current, fault, now>>, stops' \in Nat,
         stops' = 0 => stops = 0,
         NEW p \in procs, NEW q \in ProcStates, q.pid = p.pid, q.section = p.section,
         stops' = 0 => q.state \notin {"stopped", "suspended"},
         procs' = (procs \ {p}) \union {q}
  PROVE  ProcInv'
<1>1. StateType'
  BY DEF ProcInv, StateType
<1>2. Numbered'
  BY DEF ProcInv, Numbered
<1>3. Distinct'
  BY DEF ProcInv, Distinct
<1>4. ASSUME stops' = 0 PROVE NoneStopped' /\ Recorded' /\ Alive' /\ fault' # "child"
  <2>1. NoneStopped' /\ Recorded' /\ fault' # "child"
    BY <1>4 DEF ProcInv, NoneStopped, Recorded
  <2>2. Alive'
    <3> SUFFICES ASSUME NEW s \in 1 .. N, sect[s].pid > 0
                 PROVE  \E r \in procs' : r.pid = sect[s].pid
      BY DEF Alive
    <3>1. PICK r \in procs : r.pid = sect[s].pid
      BY <1>4 DEF ProcInv, Alive
    <3> QED BY <3>1
  <2> QED BY <2>1, <2>2
<1> QED BY <1>1, <1>2, <1>3, <1>4 DEF ProcInv

-----------------------------------------------------------------------------
(* Launch gives the section a new process, or the pid -1, or stops the     *)
(* program.                                                                *)
LEMMA LaunchStep ==
  ASSUME ProcInv, NEW s \in 1 .. N, Launch(s), current' \in 0 .. N, UNCHANGED stops
  PROVE  ProcInv'
<1>0. CASE UNCHANGED <<now, sect, procs, pids>> /\ fault' = "launch"
  <2>1. now' \in Nat
    BY <1>0 DEF ProcInv, StateType
  <2> QED BY <1>0, <2>1, QuietStep
<1>1. CASE /\ sect[s].pid = 0 /\ UNCHANGED <<pids, procs, now, fault>>
           /\ sect' = [sect EXCEPT ![s].pid = -1]
  <2>1. /\ sect' \in [1 .. N -> SectStates] /\ sect'[s].pid = -1
        /\ \A t \in 1 .. N : t # s => sect'[t] = sect[t]
    BY SMTT(30), <1>1 DEF ProcInv, StateType, SectStates
  <2>2. StateType' /\ Numbered' /\ Distinct'
    BY SMTT(30), <1>1, <2>1 DEF ProcInv, StateType, SectStates, Numbered, Distinct
  <2>3. ASSUME stops = 0 PROVE NoneStopped' /\ Recorded' /\ Alive'
    <3>1. NoneStopped /\ Recorded /\ Alive
      BY <2>3 DEF ProcInv
    <3>2. \A p \in procs : p.section \in 1 .. N /\ p.section # s /\ p.pid > 0
      BY <1>1, <3>1 DEF ProcInv, StateType, ProcStates, Recorded
    <3> QED BY <1>1, <2>1, <3>1, <3>2 DEF NoneStopped, Recorded, Alive
  <2> QED BY <1>1, <2>2, <2>3 DEF ProcInv
<1>2. CASE /\ sect[s].pid = 0 /\ pids' = pids + 1 /\ now' \in Nat /\ fault' = fault
           /\ sect' = [sect EXCEPT ![s].pid = pids + 1]
           /\ procs' = procs \union {[pid |-> pids + 1, section |-> s, state |-> "runs",
                                      killed |-> FALSE, start |-> now]}
  <2> DEFINE new == [pid |-> pids + 1, section |-> s, state |-> "runs",
                     killed |-> FALSE, start |-> now]
  <2>1. /\ sect' \in [1 .. N -> SectStates] /\ sect'[s].pid = pids + 1
        /\ \A t \in 1 .. N : t # s => sect'[t] = sect[t]
    <3> DEFINE n == pids + 1
               r == [sect[s] EXCEPT !.pid = n]
    <3>1. sect \in [1 .. N -> SectStates] /\ n \in Int /\ sect' = [sect EXCEPT ![s] = r]
      BY <1>2 DEF ProcInv, StateType
    <3> HIDE DEF n
    <3>2. r \in SectStates /\ r.pid = n
      BY <3>1 DEF SectStates
    <3> HIDE DEF r
    <3>3. sect' \in [1 .. N -> SectStates] /\ sect'[s] = r
      BY <3>1, <3>2
    <3> QED BY <3>1, <3>2, <3>3 DEF n
  <2>2. /\ new \in ProcStates /\ new.pid = pids + 1 /\ new.section = s
        /\ new.state = "runs" /\ procs' = procs \union {new}
    BY <1>2 DEF ProcInv, StateType, ProcStates
  <2> HIDE DEF new
  <2>3. StateType'
    BY <1>2, <2>1, <2>2 DEF ProcInv, StateType
  <2>4. Numbered'
    <3>1. /\ pids \in Nat /\ \A p \in procs : p.pid \in Nat /\ p.pid <= pids
          /\ \A t \in 1 .. N : sect[t].pid \in Int /\ sect[t].pid <= pids
      BY SMTT(30) DEF ProcInv, StateType, SectStates, ProcStates, Numbered
    <3>2. \A p \in procs' : p.pid <= pids'
      BY <1>2, <2>2, <3>1
    <3>3. \A t \in 1 .. N : sect'[t].pid <= pids'
      BY <1>2, <2>1, <3>1
    <3> QED BY <3>2, <3>3 DEF Numbered
  <2>5. /\ pids \in Nat /\ \A p \in procs : p.pid \in Nat /\ p.pid # pids + 1
        /\ \A t \in 1 .. N : sect[t].pid \in Int /\ sect[t].pid # pids + 1
    BY SMTT(30) DEF ProcInv, StateType, ProcStates, SectStates, Numbered
  <2>6. Distinct'
    <3>1. \A p, q \in procs' : p.pid = q.pid => p = q
      BY <2>2, <2>5 DEF ProcInv, Distinct
    <3>2. \A t, u \in 1 .. N : sect'[t].pid > 0 /\ sect'[t].pid = sect'[u].pid => t = u
      BY <2>1, <2>5 DEF ProcInv, Distinct
    <3> QED BY <3>1, <3>2 DEF Distinct
  <2>7. ASSUME stops = 0 PROVE NoneStopped' /\ Recorded' /\ Alive'
    <3>1. NoneStopped /\ Recorded /\ Alive
      BY <2>7 DEF ProcInv
    <3>2. \A p \in procs : p.section \in 1 .. N /\ p.section # s
      BY <1>2, <3>1 DEF ProcInv, StateType, ProcStates, Recorded
    <3>3. NoneStopped' /\ Recorded'
      BY <2>1, <2>2, <3>1, <3>2 DEF NoneStopped, Recorded
    <3>4. Alive'
      BY <2>1, <2>2, <3>1 DEF Alive
    <3> QED BY <3>3, <3>4
  <2> QED BY <1>2, <2>3, <2>4, <2>6, <2>7 DEF ProcInv
<1>3. now' \in Nat
  <2>1. now' = now \/ \E late \in BOOLEAN : ExpiresIn(late)
    BY Zenon DEF Launch
  <2>2. now' = now \/ now' = now + 1
    BY <2>1 DEF ExpiresIn
  <2> QED BY <2>2 DEF ProcInv, StateType
<1> QED BY Zenon, <1>0, <1>1, <1>2, <1>3 DEF Launch

(* Reap forgets exactly the section of the child.                          *)
LEMMA ReapStep == ASSUME ProcInv, NEW p \in procs, Reap(p) PROVE ProcInv'
<1> DEFINE known == \E s \in 1 .. N : sect[s].pid = p.pid
           e == IF known THEN CHOOSE s \in 1 .. N : sect[s].pid = p.pid ELSE NULL
           left == (procs \ {p}) \union
                   (IF p.state = "stopped" THEN {[p EXCEPT !.state = "suspended"]} ELSE {})
<1>1. /\ pids' = pids /\ stops' = stops /\ now' = now /\ procs' = left
      /\ \/ e = NULL /\ fault' = "child" /\ sect' = sect /\ current' = current
         \/ /\ e # NULL /\ fault' = fault
            /\ sect' = [sect EXCEPT ![e] = Returned(e, p.state # "exited")]
            /\ current' = GetNext(e) \/ current' = current
  BY DEF Reap, bounds
<1>2. p \in ProcStates /\ p.pid \in Nat \ {0} /\ p.section \in 1 .. N
  BY DEF ProcInv, StateType, ProcStates
<1>3. e # NULL => e \in 1 .. N /\ sect[e].pid = p.pid
  BY SectionCount DEF NULL
<1>4. /\ \A q \in left : /\ q \in ProcStates
                         /\ \E r \in procs : q.pid = r.pid /\ q.section = r.section
      /\ procs \ {p} \subseteq left
      /\ p.state # "stopped" => left = procs \ {p}
      /\ \A q, r \in left : q.pid = r.pid => q = r
  <2> DEFINE susp == [p EXCEPT !.state = "suspended"]
  <2>1. susp \in ProcStates /\ susp.pid = p.pid /\ susp.section = p.section
    BY <1>2 DEF ProcStates
  <2>2. left = (procs \ {p}) \union (IF p.state = "stopped" THEN {susp} ELSE {})
    OBVIOUS
  <2> HIDE DEF susp, left
  <2>3. procs \subseteq ProcStates /\ \A q, r \in procs : q.pid = r.pid => q = r
    BY DEF ProcInv, StateType, Distinct
  <2> QED BY <2>1, <2>2, <2>3
<1>5. stops = 0 => /\ p.state # "stopped" /\ sect[p.section].pid = p.pid
  BY DEF ProcInv, NoneStopped, Recorded
<1>6. stops = 0 => e # NULL /\ e = p.section
  <2>1. ASSUME stops = 0 PROVE known
    BY <1>2, <1>5, <2>1
  <2>2. known => e \in 1 .. N /\ sect[e].pid = p.pid
    OBVIOUS
  <2>3. ASSUME stops = 0 PROVE e \in 1 .. N /\ e = p.section
    BY <1>2, <1>5, <2>1, <2>2, <2>3 DEF ProcInv, Distinct
  <2> QED BY <2>3 DEF NULL
<1> HIDE DEF e, left, known
<1>7. CASE e = NULL
  <2>1. StateType' /\ Numbered' /\ Distinct'
    BY <1>1, <1>4, <1>7 DEF ProcInv, StateType, Numbered, Distinct
  <2> QED BY <1>1, <1>6, <1>7, <2>1 DEF ProcInv
<1>8. CASE e # NULL
  <2>1. /\ sect' \in [1 .. N -> SectStates] /\ sect'[e].pid = 0
        /\ \A s \in 1 .. N : s # e => sect'[s] = sect[s]
    <3> DEFINE r == Returned(e, p.state # "exited")
    <3>1. r \in SectStates /\ r.pid = 0
      BY Zenon, <1>3, <1>8, ReturnedState DEF ProcInv
    <3>2. sect' = [sect EXCEPT ![e] = r]
      BY <1>1, <1>8
    <3> HIDE DEF r
    <3> QED BY <1>3, <1>8, <3>1, <3>2 DEF ProcInv, StateType
  <2>2. current' \in 0 .. N
    BY <1>1, <1>3, <1>8, NextInList DEF ProcInv, StateType
  <2>3. StateType'
    BY <1>1, <1>4, <2>1, <2>2 DEF ProcInv, StateType
  <2>4. Numbered' /\ Distinct'
    <3>1. \A q \in procs' : q.pid <= pids'
      BY <1>1, <1>4 DEF ProcInv, Numbered
    <3>2. \A s \in 1 .. N : sect'[s].pid <= pids'
      BY <1>1, <2>1 DEF ProcInv, StateType, Numbered
    <3>3. \A s, t \in 1 .. N : sect'[s].pid > 0 /\ sect'[s].pid = sect'[t].pid => s = t
      BY <2>1 DEF ProcInv, Distinct
    <3> QED BY <1>1, <1>4, <3>1, <3>2, <3>3 DEF Numbered, Distinct
  <2>5. ASSUME stops = 0 PROVE NoneStopped' /\ Recorded' /\ Alive' /\ fault' # "child"
    <3>1. procs' = procs \ {p} /\ fault' = fault /\ e = p.section /\ e \in 1 .. N
      BY <1>1, <1>3, <1>4, <1>5, <1>6, <1>8, <2>5
    <3>2. NoneStopped /\ Recorded /\ Alive /\ fault # "child"
      BY <2>5 DEF ProcInv
    <3>3. \A q \in procs' : q.section \in 1 .. N /\ q.section # e
      BY <1>3, <1>8, <3>1, <3>2 DEF ProcInv, StateType, ProcStates, Distinct, Recorded
    <3>4. NoneStopped' /\ Recorded'
      BY <2>1, <3>1, <3>2, <3>3 DEF NoneStopped, Recorded
    <3>5. Alive'
      <4> SUFFICES ASSUME NEW s \in 1 .. N, sect'[s].pid > 0
                   PROVE  \E q \in procs' : q.pid = sect'[s].pid
        BY DEF Alive
      <4>1. s # e /\ sect'[s] = sect[s]
        BY <2>1
      <4>2. PICK q \in procs : q.pid = sect[s].pid
        BY <3>2, <4>1 DEF Alive
      <4>3. q # p
        BY <1>3, <1>8, <3>1, <4>1, <4>2 DEF ProcInv, Distinct
      <4> QED BY <3>1, <4>1, <4>2, <4>3
    <3> QED BY <3>1, <3>2, <3>4, <3>5
  <2> QED BY <1>1, <2>3, <2>4, <2>5 DEF ProcInv
<1> QED BY <1>7, <1>8

(* The SIGALRM handler kills, and forgets no process.                      *)
LEMMA AlarmStep == ASSUME ProcInv, NEW late \in BOOLEAN, SigAlrm(late) PROVE ProcInv'
<1> DEFINE a == alarms[1]
<1>1. /\ UNCHANGED <<sect, pids, stops, current, now>>
      /\ fault' = "child" => fault = "child"
      /\ \/ procs' = procs
         \/ procs' = {Signal(a, p) : p \in procs}
  BY DEF SigAlrm, bounds
<1>2. CASE procs' = procs
  BY <1>1, <1>2, QuietStep DEF ProcInv, StateType
<1>3. CASE procs' = {Signal(a, p) : p \in procs}
  <2> HIDE DEF a
  <2>1. \A p \in procs : /\ Signal(a, p) \in ProcStates /\ Signal(a, p).pid = p.pid
                         /\ Signal(a, p).section = p.section /\ Signal(a, p).state = p.state
    BY Zenon DEF Signal, ProcInv, StateType, ProcStates
  <2>2. \A q \in procs' : \E p \in procs : q = Signal(a, p)
    BY <1>3
  <2>3. \A p \in procs : Signal(a, p) \in procs'
    BY <1>3
  <2>4. StateType' /\ Numbered'
    BY <1>1, <2>1, <2>2 DEF ProcInv, StateType, Numbered
  <2>5. Distinct'
    BY <1>1, <2>1, <2>2 DEF ProcInv, Distinct
  <2>6. ASSUME stops = 0 PROVE NoneStopped' /\ Recorded' /\ Alive'
    <3>1. NoneStopped' /\ Recorded'
      BY <1>1, <2>1, <2>2, <2>6 DEF ProcInv, NoneStopped, Recorded
    <3>2. Alive'
      BY <1>1, <2>1, <2>3, <2>6 DEF ProcInv, Alive
    <3> QED BY <3>1, <3>2
  <2> QED BY <1>1, <2>4, <2>5, <2>6 DEF ProcInv
<1> QED BY <1>1, <1>2, <1>3

-----------------------------------------------------------------------------
(* Every step of the main loop keeps ProcInv.                              *)
LEMMA MainStep == ASSUME ProcInv, MainLoop PROVE ProcInv'
<1>0. current \in 0 .. N /\ now \in Nat
  BY DEF ProcInv, StateType
<1>1. CASE WaitForCycle \/ FindPlace \/ LinkAlarm \/ SetTimer
  <2>1. UNCHANGED <<sect, procs, pids, stops, current, now, fault>>
    BY <1>1 DEF WaitForCycle, FindPlace, LinkAlarm, SetTimer, bounds
  <2> QED BY <1>0, <2>1, QuietStep
<1>2. CASE ReadHead \/ MarkSet
  <2>1. /\ UNCHANGED <<sect, procs, pids, stops, current, now>>
        /\ fault' = fault \/ fault' = "isset"
    BY <1>2 DEF ReadHead, MarkSet, bounds
  <2> QED BY <1>0, <2>1, QuietStep
<1>3. CASE NewCycle \/ SaveParams \/ ReviewSection \/ CheckSection \/ CheckParallel
  <2>1. UNCHANGED <<sect, procs, pids, stops, current, now, fault>>
    BY <1>3 DEF NewCycle, SaveParams, ReviewSection, CheckSection, CheckParallel, bounds
  <2> QED BY <1>0, <2>1, QuietStep
<1>4. CASE MarkToRun
  <2> DEFINE mark == sect[main.i].fails > 0 \/ CheckTime(main.i, main.t)
  <2>1. /\ UNCHANGED <<procs, pids, stops, fault, now>>
        /\ current' = current \/ current' = IF N = 0 THEN NULL ELSE 1
        /\ sect' = sect \/ sect' = [sect EXCEPT ![main.i].torun = mark]
    BY <1>4 DEF MarkToRun, bounds
  <2>2. mark \in BOOLEAN
    OBVIOUS
  <2> HIDE DEF mark
  <2>3. current' \in 0 .. N
    BY <1>0, <2>1, SectionCount DEF NULL
  <2>4. /\ sect' \in [1 .. N -> SectStates]
        /\ \A s \in 1 .. N : sect'[s].pid = sect[s].pid
    <3> DEFINE r == [sect[main.i] EXCEPT !.torun = mark]
    <3>1. sect \in [1 .. N -> SectStates]
      BY DEF ProcInv, StateType
    <3>2. main.i \in 1 .. N => r \in SectStates /\ r.pid = sect[main.i].pid
      BY <2>2, <3>1 DEF SectStates
    <3>3. sect' = sect \/ sect' = [sect EXCEPT ![main.i] = r]
      BY <2>1
    <3> HIDE DEF r
    <3> QED BY Zenon, <3>1, <3>2, <3>3
  <2> QED BY <2>1, <2>3, <2>4, MarkStep
<1>5. CASE LaunchSection
  <2>1. /\ UNCHANGED <<stops, current>>
        /\ \/ UNCHANGED <<now, sect, procs, pids>> /\ fault' = "null"
           \/ current # NULL /\ Launch(current)
    BY <1>5 DEF LaunchSection
  <2>2. CASE UNCHANGED <<now, sect, procs, pids>> /\ fault' = "null"
    BY <1>0, <2>1, <2>2, QuietStep
  <2>3. CASE current # NULL /\ Launch(current)
    <3>1. current \in 1 .. N
      BY <1>0, <2>3 DEF NULL
    <3> QED BY <1>0, <2>1, <2>3, <3>1, LaunchStep
  <2> QED BY <2>1, <2>2, <2>3
<1>6. CASE Advance
  <2>1. /\ UNCHANGED <<sect, procs, pids, stops, now>>
        /\ fault' = fault \/ fault' = "null"
        /\ current' = current \/ (current # NULL /\ current' = GetNext(current))
    BY <1>6 DEF Advance, bounds
  <2>2. current' \in 0 .. N
    BY <1>0, <2>1, NextInList DEF NULL
  <2> QED BY <1>0, <2>1, <2>2, QuietStep
<1> QED BY <1>1, <1>2, <1>3, <1>4, <1>5, <1>6 DEF MainLoop

(* Every step of the SIGCHLD handler keeps ProcInv.                        *)
LEMMA HandlerStep == ASSUME ProcInv, ChildHandler PROVE ProcInv'
<1>0. current \in 0 .. N /\ now \in Nat
  BY DEF ProcInv, StateType
<1>1. CASE SigChld \/ SigChldReturns
  <2>1. UNCHANGED <<sect, procs, pids, stops, current, now, fault>>
    BY <1>1 DEF SigChld, SigChldReturns, bounds
  <2> QED BY <1>0, <2>1, QuietStep
<1>2. CASE \E p \in procs : Reap(p)
  BY <1>2, ReapStep
<1>3. CASE HandlerRunSections
  <2>1. /\ stops' = stops
        /\ current' = current \/ (current # NULL /\ current' = GetNext(current))
        /\ \/ UNCHANGED <<now, sect, procs, pids, fault>>
           \/ current # NULL /\ Launch(current)
    BY <1>3 DEF HandlerRunSections
  <2>2. current' \in 0 .. N
    BY <1>0, <2>1, NextInList DEF NULL
  <2>3. CASE UNCHANGED <<now, sect, procs, pids, fault>>
    BY <1>0, <2>1, <2>2, <2>3, QuietStep
  <2>4. CASE current # NULL /\ Launch(current)
    <3>1. current \in 1 .. N
      BY <1>0, <2>4 DEF NULL
    <3> QED BY <2>1, <2>2, <2>4, <3>1, LaunchStep
  <2> QED BY <2>1, <2>3, <2>4
<1> QED BY <1>1, <1>2, <1>3 DEF ChildHandler

(* Every change of a child keeps ProcInv.                                  *)
LEMMA ChildStep ==
  ASSUME ProcInv, NEW p \in procs, Exit(p) \/ Stop(p) \/ Continue(p)
  PROVE  ProcInv'
<1>1. PICK c \in {"runs", "exited", "failed", "stopped"} :
        /\ ChildChanges(p, c)
        /\ \/ c \in {"exited", "failed"} /\ stops' = stops
           \/ c = "stopped" /\ stops' = stops + 1
           \/ c = "runs" /\ stops' = stops /\ p.state = "suspended"
  BY DEF Exit, Stop, Continue
<1> DEFINE q == [p EXCEPT !.state = c]
<1>2. /\ UNCHANGED <<sect, pids, current, fault, now>>
      /\ procs' = (procs \ {p}) \union {q}
  BY <1>1 DEF ChildChanges
<1>3. q \in ProcStates /\ q.pid = p.pid /\ q.section = p.section /\ q.state = c
  BY DEF ProcInv, StateType, ProcStates
<1>4. stops \in Nat /\ stops' \in Nat /\ (stops' = 0 => stops = 0)
  BY <1>1 DEF ProcInv, StateType
<1>5. stops' = 0 => c \notin {"stopped", "suspended"}
  BY <1>1, <1>4
<1> HIDE DEF q
<1> QED BY <1>2, <1>3, <1>4, <1>5, ChangeStep

(* ProcInv is an invariant.                                                *)
LEMMA ProcAlways == Spec => []ProcInv
<1>1. Init => ProcInv
  <2> SUFFICES ASSUME Init PROVE ProcInv
    OBVIOUS
  <2> DEFINE idle == [pid |-> 0, fails |-> 0, torun |-> FALSE]
  <2>1. sect = [s \in 1 .. N |-> idle] /\ idle \in SectStates /\ idle.pid = 0
    BY DEF Init, SectStates
  <2> HIDE DEF idle
  <2>2. /\ procs = {} /\ pids = 0 /\ stops = 0 /\ current = 0 /\ fault = "none"
        /\ now \in Nat
    BY PeriodAssumption DEF Init, NULL
  <2>3. StateType
    BY <2>1, <2>2, SectionCount DEF StateType
  <2> QED BY <2>1, <2>2, <2>3
          DEF ProcInv, Numbered, Distinct, NoneStopped, Recorded, Alive
<1>2. ProcInv /\ [Next]_vars => ProcInv'
  <2> SUFFICES ASSUME ProcInv, [Next]_vars PROVE ProcInv'
    OBVIOUS
  <2>0. current \in 0 .. N /\ now \in Nat
    BY DEF ProcInv, StateType
  <2>1. CASE MainLoop \/ ChildHandler
    BY <2>1, MainStep, HandlerStep
  <2>2. CASE AlarmHandler
    BY <2>2, AlarmStep DEF AlarmHandler
  <2>3. CASE \E p \in procs : Exit(p) \/ Stop(p) \/ Continue(p)
    BY <2>3, ChildStep
  <2>4. CASE Expire \/ Tick \/ ClockBack
    <3>1. UNCHANGED <<sect, procs, pids, stops, current, fault>> /\ now' \in Nat
      BY <2>0, <2>4, PeriodAssumption DEF Expire, Tick, ClockBack, bounds
    <3> QED BY <2>0, <3>1, QuietStep
  <2>5. CASE Halted \/ UNCHANGED vars
    <3>1. UNCHANGED <<sect, procs, pids, stops, current, now, fault>>
      BY <2>5 DEF Halted, vars, bounds
    <3> QED BY <2>0, <3>1, QuietStep
  <2> QED BY <2>1, <2>2, <2>3, <2>4, <2>5 DEF Next
<1> QED BY <1>1, <1>2, PTL DEF Spec

(* No section of meaner3 ever has two processes, and SigChldHandler finds  *)
(* the section of every child, as long as no child is stopped by a signal. *)
THEOREM OneProcessPerSection == Spec => []OneProcess
<1>1. ProcInv => OneProcess
  BY DEF ProcInv, OneProcess, Recorded, Alive
<1> QED BY <1>1, ProcAlways, PTL
-----------------------------------------------------------------------------
(***************************************************************************)
(* The list of alarms                                                      *)
(***************************************************************************)

(* A list: sorted, no alarm twice, the alarm of a cycle belongs to no      *)
(* section and is never removed, the others are of the first n runs.       *)
Sorted(al) == \A i, j \in DOMAIN al : i < j => al[i].exptime <= al[j].exptime
Unique(al) == \A i, j \in DOMAIN al : Id(al[i]) = Id(al[j]) => i = j
OwnedBy(a, n) ==
  IF a.kind = "NEWCL" THEN a.run = 0 /\ a.section = NULL /\ ~a.removed ELSE a.run \in 1 .. n
ListOK(al, n) == /\ al \in Seq(AlarmType) /\ Sorted(al) /\ Unique(al)
                 /\ \A i \in DOMAIN al : OwnedBy(al[i], n)

OneSet(al) == \A i, j \in DOMAIN al : al[i].isset /\ al[j].isset => i = j
NoneSet(al) == \A i \in DOMAIN al : ~al[i].isset

(* The same alarm, set or not; that of a cycle is not removed.             *)
Like(x, y) == /\ x.kind = y.kind /\ x.section = y.section /\ x.run = y.run
              /\ x.exptime = y.exptime
              /\ y.kind = "NEWCL" /\ ~y.removed => ~x.removed

(* What LinkAlarm makes of list al: a behind place i and before place j.   *)
Spliced(al, a, i, j) == SubSeq(al, 1, i) \o <<a>> \o SubSeq(al, j, Len(al))

(* List bl is al with a for what is behind place i and before place j.     *)
Splice(bl, al, a, i, j) ==
  /\ \A k \in DOMAIN bl :
       \/ k <= i /\ k \in DOMAIN al /\ Like(bl[k], al[k])
       \/ k = i + 1 /\ Like(bl[k], a)
       \/ k > i + 1 /\ k + (j - i - 2) \in DOMAIN al /\ Like(bl[k], al[k + (j - i - 2)])
  /\ i + 1 \in DOMAIN bl
  /\ \A k \in DOMAIN al : \/ k <= i /\ k \in DOMAIN bl
                          \/ k > i /\ k < j
                          \/ k >= j /\ k - (j - i - 2) \in DOMAIN bl

(* Every nonempty set of numbers has a least element.                      *)
LEMMA Least ==
  ASSUME NEW S \in SUBSET Nat, S # {}
  PROVE  \E m \in S : \A n \in S : m <= n
<1> DEFINE R == {ss \in Nat \X Nat : ss[1] < ss[2]}
<1>1. IsWellFoundedOn(R, Nat)
  BY NatLessThanWellFounded DEF OpToRel
<1>2. \A n, m \in Nat : n < m => <<n, m>> \in R
  OBVIOUS
<1> HIDE DEF R
<1>3. PICK m \in S : \A n \in S : <<n, m>> \notin R
  BY <1>1, WFMin, ZenonT(30)
<1>4. ASSUME NEW n \in S PROVE m <= n
  <2>1. n \in Nat /\ m \in Nat /\ ~(n < m)
    BY <1>2, <1>3, ZenonT(30)
  <2> QED BY <2>1
<1> QED BY <1>4

(* The elements of two lists put together.                                 *)
LEMMA Concatenation ==
  ASSUME NEW S, NEW s \in Seq(S), NEW t \in Seq(S)
  PROVE  /\ s \o t \in Seq(S) /\ Len(s \o t) = Len(s) + Len(t)
         /\ \A k \in 1 .. Len(s) + Len(t) :
               (s \o t)[k] = IF k <= Len(s) THEN s[k] ELSE t[k - Len(s)]
OBVIOUS

(* First: the least of the places.                                         *)
LEMMA FirstPlace ==
  ASSUME NEW S \in SUBSET Nat, S # {}, NEW none
  PROVE  First(S, none) \in S /\ \A n \in S : First(S, none) <= n
<1>1. PICK m \in S : \A n \in S : m <= n
  BY Least
<1> QED BY <1>1, ZenonT(30) DEF First

(* The alarms of a list are alarms.                                        *)
LEMMA AlarmFields ==
  /\ \A a \in AlarmType : /\ a.kind \in {"NEWCL", "STRM", "SKILL"} /\ a.section \in 0 .. N
                          /\ a.run \in Nat /\ a.exptime \in Int
                          /\ a.isset \in BOOLEAN /\ a.removed \in BOOLEAN
  /\ \A al \in Seq(AlarmType) : /\ Len(al) \in Nat /\ DOMAIN al = 1 .. Len(al)
                                /\ \A i \in DOMAIN al : al[i] \in AlarmType /\ i \in Nat \ {0}
                                /\ al = <<>> <=> Len(al) = 0
<1>1. \A a \in AlarmType : /\ a.kind \in {"NEWCL", "STRM", "SKILL"} /\ a.section \in 0 .. N
                           /\ a.run \in Nat /\ a.exptime \in Int
                           /\ a.isset \in BOOLEAN /\ a.removed \in BOOLEAN
  BY ZenonT(30) DEF AlarmType
<1> QED BY <1>1

(* An alarm is found, or has no place in the list.                         *)
LEMMA IndexFound ==
  ASSUME NEW al \in Seq(AlarmType), NEW id
  PROVE  /\ (\A i \in DOMAIN al : Id(al[i]) # id) => Index(al, id) = 0
         /\ (\E i \in DOMAIN al : Id(al[i]) = id)
              => Index(al, id) \in DOMAIN al /\ Id(al[Index(al, id)]) = id
<1> DEFINE S == {i \in DOMAIN al : Id(al[i]) = id}
<1>1. Index(al, id) = First(S, 0)
  BY DEF Index
<1>2. S \in SUBSET Nat
  BY AlarmFields
<1>3. S = {} => First(S, 0) = 0
  BY DEF First
<1>4. S # {} => First(S, 0) \in S
  BY <1>2, FirstPlace, ZenonT(30)
<1> QED BY <1>1, <1>3, <1>4

(* Position: behind the alarms that are not later, before the later ones.  *)
LEMMA PositionOK ==
  ASSUME NEW al \in Seq(AlarmType), Sorted(al), NEW a, a.exptime \in Int
  PROVE  /\ Position(al, a) \in 1 .. Len(al) + 1
         /\ \A i \in DOMAIN al : IF i < Position(al, a) THEN al[i].exptime <= a.exptime
                                 ELSE a.exptime < al[i].exptime
<1> DEFINE L == Len(al)
           e(i) == al[i].exptime
           x == a.exptime
           S == {i \in 2 .. L : e(i) > x}
           f == First(S, L + 1)
           k == Position(al, a)
<1>1. L \in Nat /\ DOMAIN al = 1 .. L /\ x \in Int /\ (al = <<>> <=> L = 0)
  BY AlarmFields
<1>2. \A i \in 1 .. L : e(i) \in Int
  BY <1>1, AlarmFields
<1>3. \A i, j \in 1 .. L : i < j => e(i) <= e(j)
  BY <1>1 DEF Sorted
<1>4. k = IF al = <<>> \/ x < e(1) THEN 1 ELSE f
  BY DEF Position
<1>5. SUFFICES /\ k \in 1 .. L + 1
               /\ \A i \in 1 .. L : IF i < k THEN e(i) <= x ELSE x < e(i)
  BY <1>1
<1> HIDE DEF e, x, k
<1>6. S \in SUBSET Nat
  <2>1. 2 .. L \subseteq Nat
    BY <1>1
  <2> QED BY <2>1
<1>7. IF S = {} THEN f = L + 1 ELSE f \in S /\ \A i \in S : f <= i
  BY <1>6, FirstPlace, ZenonT(30) DEF First
<1>8. S \subseteq 2 .. L /\ \A i \in 2 .. L : i \in S <=> e(i) > x
  OBVIOUS
<1> HIDE DEF f, S, L
<1>9. CASE L = 0
  BY <1>1, <1>4, <1>9
<1>10. CASE L > 0 /\ x < e(1)
  BY <1>1, <1>2, <1>3, <1>4, <1>10
<1>11. CASE L > 0 /\ ~(x < e(1))
  <2>0. 1 \in 1 .. L /\ al # <<>>
    BY <1>1, <1>11
  <2>1. k = f /\ e(1) <= x
    BY <1>1, <1>2, <1>4, <1>11, <2>0
  <2>2. f \in 2 .. L + 1 /\ \A i \in 2 .. L : i < f => ~(e(i) > x)
    <3>1. CASE S = {}
      BY <1>1, <1>7, <1>8, <1>11, <3>1
    <3>2. CASE S # {}
      <4>1. f \in 2 .. L /\ \A i \in S : f <= i
        BY <1>7, <1>8, <3>2, ZenonT(30)
      <4>2. \A i \in 2 .. L : i < f => i \notin S
        BY <1>1, <4>1
      <4> QED BY <1>1, <1>8, <4>1, <4>2, SMTT(30)
    <3> QED BY <3>1, <3>2
  <2>3. \A i \in 1 .. L : i < f => e(i) <= x
    BY <1>1, <1>2, <2>1, <2>2
  <2>4. f \in 1 .. L => e(f) > x
    BY <1>1, <1>7, <1>8
  <2>5. \A i \in 1 .. L : ~(i < f) => x < e(i)
    BY <1>1, <1>2, <1>3, <2>2, <2>4
  <2> QED BY <1>1, <2>1, <2>2, <2>3, <2>5
<1> QED BY <1>1, <1>9, <1>10, <1>11

(* List bl has the parts of al up to i and from j on, and a between them.  *)
Parts(bl, al, a, i, j) ==
  /\ bl \in Seq(AlarmType) /\ i + 1 \in DOMAIN bl
  /\ \A k \in DOMAIN bl :
       \/ k <= i /\ k \in DOMAIN al /\ bl[k] = al[k]
       \/ k = i + 1 /\ bl[k] = a
       \/ k > i + 1 /\ k + (j - i - 2) \in DOMAIN al /\ bl[k] = al[k + (j - i - 2)]
  /\ \A k \in DOMAIN al : \/ k <= i /\ k \in DOMAIN bl
                          \/ k > i /\ k < j
                          \/ k >= j /\ k - (j - i - 2) \in DOMAIN bl

(* Where the alarms of a spliced list come from and go to.                 *)
LEMMA SplicedParts ==
  ASSUME NEW al \in Seq(AlarmType), NEW a \in AlarmType, NEW i \in 0 .. Len(al),
         NEW j \in i + 1 .. Len(al) + 1
  PROVE  Parts(Spliced(al, a, i, j), al, a, i, j)
<1> DEFINE bl == Spliced(al, a, i, j)
<1> DEFINE L == Len(al)
           d == j - i - 2
           M == L - d
           left == SubSeq(al, 1, i)
           right == SubSeq(al, j, L)
<1>1. L \in Nat /\ DOMAIN al = 1 .. L /\ \A k \in 1 .. L : al[k] \in AlarmType
  BY AlarmFields
<1>2. /\ left \in Seq(AlarmType) /\ Len(left) = i
      /\ \A k \in 1 .. i : left[k] = al[k]
  BY <1>1
<1>3. /\ right \in Seq(AlarmType) /\ Len(right) = L - j + 1
      /\ \A k \in 1 .. L - j + 1 : right[k] = al[k + j - 1]
  BY <1>1
<1>4. bl = left \o <<a>> \o right
  BY DEF Spliced
<1> HIDE DEF left, right, L, bl
<1>5. /\ bl \in Seq(AlarmType) /\ Len(bl) = i + 1 + (L - j + 1)
      /\ \A k \in 1 .. i : bl[k] = left[k]
      /\ bl[i + 1] = a
      /\ \A k \in 1 .. L - j + 1 : bl[k + i + 1] = right[k]
  <2> DEFINE mid == left \o <<a>>
             R == L - j + 1
  <2>1. /\ mid \in Seq(AlarmType) /\ Len(mid) = i + 1 /\ mid[i + 1] = a
        /\ \A k \in 1 .. i : mid[k] = left[k]
    BY <1>2
  <2>2. bl = mid \o right /\ right \in Seq(AlarmType) /\ Len(right) = R
    BY <1>3, <1>4
  <2>3. R \in Nat /\ i \in Nat
    BY <1>1 DEF L
  <2> HIDE DEF mid, R
  <2>4. /\ bl \in Seq(AlarmType) /\ Len(bl) = i + 1 + R
        /\ \A k \in 1 .. i + 1 + R : bl[k] = IF k <= i + 1 THEN mid[k] ELSE right[k - (i + 1)]
    <3>1. /\ mid \o right \in Seq(AlarmType) /\ Len(mid \o right) = Len(mid) + Len(right)
          /\ \A k \in 1 .. Len(mid) + Len(right) : (mid \o right)[k] =
                IF k <= Len(mid) THEN mid[k] ELSE right[k - Len(mid)]
      BY <2>1, <2>2, Concatenation, Zenon
    <3> QED BY <2>1, <2>2, <3>1, Zenon
  <2>5. ASSUME NEW k \in 1 .. R PROVE bl[k + i + 1] = right[k]
    <3>1. k + i + 1 \in 1 .. i + 1 + R /\ ~(k + i + 1 <= i + 1) /\ (k + i + 1) - (i + 1) = k
      BY <2>3
    <3> QED BY <2>4, <3>1
  <2>6. ASSUME NEW k \in 1 .. i + 1 PROVE bl[k] = mid[k]
    <3>1. k \in 1 .. i + 1 + R /\ k <= i + 1
      BY <2>3
    <3> QED BY <2>4, <3>1
  <2>7. i + 1 \in 1 .. i + 1 /\ \A k \in 1 .. i : k \in 1 .. i + 1
    BY <2>3
  <2>8. /\ \A k \in 1 .. i : bl[k] = left[k]
        /\ bl[i + 1] = a
    BY <2>1, <2>6, <2>7
  <2> QED BY <2>4, <2>5, <2>8 DEF R
<1>6. DOMAIN bl = 1 .. M /\ M \in Nat /\ i + 1 \in 1 .. M /\ d \in Int
  <2>1. i + 1 + (L - j + 1) = M /\ M \in Nat /\ i + 1 \in 1 .. M /\ d \in Int
    BY <1>1 DEF L
  <2>2. DOMAIN bl = 1 .. Len(bl)
    BY <1>5, AlarmFields
  <2> QED BY <1>5, <2>1, <2>2
<1>7. ASSUME NEW k \in 1 .. M
      PROVE  \/ k <= i /\ k \in 1 .. L /\ bl[k] = al[k]
             \/ k = i + 1 /\ bl[k] = a
             \/ k > i + 1 /\ k + d \in 1 .. L /\ bl[k] = al[k + d]
  <2>1. CASE k <= i
    BY <1>1, <1>2, <1>5, <2>1 DEF L
  <2>2. CASE k = i + 1
    BY <1>5, <2>2
  <2>3. CASE k > i + 1
    <3>1. k - i - 1 \in 1 .. L - j + 1 /\ (k - i - 1) + i + 1 = k /\ (k - i - 1) + j - 1 = k + d
      BY <1>1, <2>3 DEF L
    <3>2. k + d \in 1 .. L
      BY <1>1, <2>3 DEF L
    <3>3. bl[k] = right[k - i - 1]
      BY <1>5, <3>1
    <3>4. right[k - i - 1] = al[k + d]
      BY <1>3, <3>1, SMTT(30)
    <3> QED BY <2>3, <3>2, <3>3, <3>4
  <2>4. k \in Int /\ i \in Int
    BY <1>6
  <2>5. k <= i \/ k = i + 1 \/ k > i + 1
    BY <2>4
  <2> QED BY <2>1, <2>2, <2>3, <2>5, Zenon
<1>8. ASSUME NEW k \in 1 .. L
      PROVE  \/ k <= i /\ k \in 1 .. M
             \/ k > i /\ k < j
             \/ k >= j /\ k - d \in 1 .. M
  BY <1>1, <1>6 DEF L
<1> HIDE DEF M
<1>9. Parts(bl, al, a, i, j)
  BY <1>1, <1>5, <1>6, <1>7, <1>8, Zenon DEF Parts
<1> QED BY <1>9 DEF bl

(* A list with new alarms in the place of the ones between i and j.        *)
LEMMA SpliceSeq ==
  ASSUME NEW al \in Seq(AlarmType), NEW a \in AlarmType, NEW i \in 0 .. Len(al),
         NEW j \in i + 1 .. Len(al) + 1, NEW bl, bl = Spliced(al, a, i, j)
  PROVE  /\ bl \in Seq(AlarmType) /\ Splice(bl, al, a, i, j)
         /\ OneSet(al) /\ ~a.isset => OneSet(bl)
         /\ NoneSet(al) /\ ~a.isset => NoneSet(bl)
<1> DEFINE d == j - i - 2
<1>1. Parts(bl, al, a, i, j)
  BY SplicedParts, Zenon
<1>2. \A k \in DOMAIN bl : \/ k <= i /\ k \in DOMAIN al /\ bl[k] = al[k]
                           \/ k = i + 1 /\ bl[k] = a
                           \/ k > i + 1 /\ k + d \in DOMAIN al /\ bl[k] = al[k + d]
  BY <1>1, Zenon DEF Parts
<1>3. \A x : Like(x, x)
  BY DEF Like
<1>4. Splice(bl, al, a, i, j)
  BY <1>1, <1>3, ZenonT(30) DEF Parts, Splice
<1>5. ASSUME OneSet(al), ~a.isset PROVE OneSet(bl)
  <2> SUFFICES ASSUME NEW k \in DOMAIN bl, NEW l \in DOMAIN bl, bl[k].isset, bl[l].isset PROVE k = l
    BY DEF OneSet
  <2>1. \A x, y \in DOMAIN al : al[x].isset /\ al[y].isset => x = y
    BY <1>5 DEF OneSet
  <2>2. \/ k <= i /\ k \in DOMAIN al /\ al[k].isset
        \/ k > i + 1 /\ k + d \in DOMAIN al /\ al[k + d].isset
    BY <1>2, <1>5, Zenon
  <2>3. \/ l <= i /\ l \in DOMAIN al /\ al[l].isset
        \/ l > i + 1 /\ l + d \in DOMAIN al /\ al[l + d].isset
    BY <1>2, <1>5, Zenon
  <2>4. k \in Int /\ l \in Int /\ i \in Int /\ j \in Int /\ i < j
    <3>1. Len(al) \in Nat /\ bl \in Seq(AlarmType)
      BY <1>1, AlarmFields DEF Parts
    <3> QED BY <3>1, AlarmFields
  <2>5. \/ k = l \/ k + d = l + d
        \/ k <= i /\ l > i + 1 /\ k = l + d
        \/ l <= i /\ k > i + 1 /\ k + d = l
    BY <2>1, <2>2, <2>3, Zenon
  <2> QED BY <2>4, <2>5
<1>6. NoneSet(al) /\ ~a.isset => NoneSet(bl)
  BY <1>2, Zenon DEF NoneSet
<1> QED BY <1>1, <1>4, <1>5, <1>6, Zenon DEF Parts

(* The list stays a list when a is put where its time belongs.             *)
LEMMA SpliceOK ==
  ASSUME NEW n \in Nat, NEW al, ListOK(al, n), NEW a \in AlarmType, OwnedBy(a, n),
         \A k \in DOMAIN al : Id(al[k]) # Id(a),
         NEW bl \in Seq(AlarmType), NEW i \in Nat, NEW j \in Nat, i < j, Splice(bl, al, a, i, j),
         \A k \in DOMAIN al : k <= i => al[k].exptime <= a.exptime,
         \A k \in DOMAIN al : k >= j => a.exptime <= al[k].exptime
  PROVE  ListOK(bl, n)
<1> DEFINE d == j - i - 2
<1>0. al \in Seq(AlarmType) /\ Sorted(al) /\ Unique(al) /\ \A k \in DOMAIN al : OwnedBy(al[k], n)
  BY SMTT(30) DEF ListOK
<1>1. /\ \A k \in DOMAIN al : k \in Nat /\ al[k].exptime \in Int
      /\ \A k \in DOMAIN bl : k \in Nat /\ bl[k].exptime \in Int
      /\ a.exptime \in Int /\ d \in Int
  BY <1>0, AlarmFields, SMTT(30)
<1>2. \A k \in DOMAIN bl :
       \/ k <= i /\ k \in DOMAIN al /\ Like(bl[k], al[k])
       \/ k = i + 1 /\ Like(bl[k], a)
       \/ k > i + 1 /\ k + d \in DOMAIN al /\ Like(bl[k], al[k + d])
  BY SMTT(30) DEF Splice
<1>3. Sorted(bl)
  <2> SUFFICES ASSUME NEW k \in DOMAIN bl, NEW l \in DOMAIN bl, k < l
               PROVE  bl[k].exptime <= bl[l].exptime
    BY SMTT(30) DEF Sorted
  <2>1. \A x \in DOMAIN al, y \in DOMAIN al : x < y => al[x].exptime <= al[y].exptime
    BY <1>0, SMTT(30) DEF Sorted
  <2>2. k \in Nat /\ l \in Nat
    BY <1>1, SMTT(30)
  <2>3. CASE l <= i
    BY <1>2, <2>1, <2>2, <2>3, SMTT(30) DEF Like
  <2>4. CASE l = i + 1
    BY <1>2, <2>2, <2>4 DEF Like
  <2>5. CASE l > i + 1
    <3>1. l + d \in DOMAIN al /\ l + d >= j /\ bl[l].exptime = al[l + d].exptime
      BY <1>2, <2>2, <2>5, SMTT(30) DEF Like
    <3>2. CASE k <= i
      <4>1. k \in DOMAIN al /\ bl[k].exptime = al[k].exptime /\ k < l + d
        BY <1>2, <2>2, <3>1, <3>2, SMTT(30) DEF Like
      <4> QED BY <2>1, <3>1, <4>1, SMTT(30)
    <3>3. CASE k = i + 1
      <4>1. bl[k].exptime = a.exptime
        BY <1>2, <2>2, <3>3, SMTT(30) DEF Like
      <4> QED BY <3>1, <4>1, SMTT(30)
    <3>4. CASE k > i + 1
      <4>1. k + d \in DOMAIN al /\ bl[k].exptime = al[k + d].exptime /\ k + d < l + d
        <5>1. k + d \in DOMAIN al /\ Like(bl[k], al[k + d])
          BY <1>2, <2>2, <3>4, SMTT(30)
        <5> QED BY <1>1, <2>2, <5>1, SMTT(30) DEF Like
      <4> QED BY <2>1, <3>1, <4>1, SMTT(30)
    <3> QED BY <2>2, <3>2, <3>3, <3>4, SMTT(30)
  <2> QED BY <2>2, <2>3, <2>4, <2>5, SMTT(30)
<1>4. Unique(bl)
  <2> SUFFICES ASSUME NEW k \in DOMAIN bl, NEW l \in DOMAIN bl, Id(bl[k]) = Id(bl[l])
               PROVE  k = l
    BY DEF Unique
  <2>1. \A x, y : Like(x, y) => Id(x) = Id(y)
    BY SMTT(30) DEF Like, Id
  <2>2. \A x \in DOMAIN al, y \in DOMAIN al : Id(al[x]) = Id(al[y]) => x = y
    BY <1>0, SMTT(30) DEF Unique
  <2>3. k \in Nat /\ l \in Nat
    BY <1>1, SMTT(30)
  <2>4. \/ k <= i /\ k \in DOMAIN al /\ Id(bl[k]) = Id(al[k])
        \/ k = i + 1 /\ Id(bl[k]) = Id(a)
        \/ k > i + 1 /\ k + d \in DOMAIN al /\ Id(bl[k]) = Id(al[k + d]) /\ k + d >= j
    BY <1>2, <2>1, <2>3, SMTT(30)
  <2>5. \/ l <= i /\ l \in DOMAIN al /\ Id(bl[l]) = Id(al[l])
        \/ l = i + 1 /\ Id(bl[l]) = Id(a)
        \/ l > i + 1 /\ l + d \in DOMAIN al /\ Id(bl[l]) = Id(al[l + d]) /\ l + d >= j
    BY <1>2, <2>1, <2>3, SMTT(30)
  <2> QED BY <1>1, <2>2, <2>3, <2>4, <2>5, SMTT(30)
<1>5. ASSUME NEW k \in DOMAIN bl PROVE OwnedBy(bl[k], n)
  BY <1>0, <1>2, ZenonT(30) DEF OwnedBy, Like
<1> QED BY <1>3, <1>4, <1>5, SMTT(30) DEF ListOK

(* What is dropped from the front, or only marked, leaves a list.          *)
LEMMA ShiftOK ==
  ASSUME NEW n \in Nat, NEW al, ListOK(al, n), NEW bl \in Seq(AlarmType), NEW c \in Nat,
         \A k \in DOMAIN bl : k + c \in DOMAIN al /\ Like(bl[k], al[k + c])
  PROVE  ListOK(bl, n)
<1>0. al \in Seq(AlarmType) /\ Sorted(al) /\ Unique(al) /\ \A k \in DOMAIN al : OwnedBy(al[k], n)
  BY DEF ListOK
<1>1. \A k \in DOMAIN bl : k \in Nat
  BY AlarmFields
<1>2. Sorted(bl)
  <2> SUFFICES ASSUME NEW k \in DOMAIN bl, NEW l \in DOMAIN bl, k < l
               PROVE  bl[k].exptime <= bl[l].exptime
    BY DEF Sorted
  <2>1. /\ k + c \in DOMAIN al /\ l + c \in DOMAIN al /\ k + c < l + c
        /\ Like(bl[k], al[k + c]) /\ Like(bl[l], al[l + c])
    BY <1>1
  <2> QED BY <1>0, <2>1 DEF Sorted, Like
<1>3. Unique(bl)
  <2> SUFFICES ASSUME NEW k \in DOMAIN bl, NEW l \in DOMAIN bl, Id(bl[k]) = Id(bl[l])
               PROVE  k = l
    BY DEF Unique
  <2>1. /\ k + c \in DOMAIN al /\ l + c \in DOMAIN al
        /\ Like(bl[k], al[k + c]) /\ Like(bl[l], al[l + c])
    OBVIOUS
  <2>2. Id(al[k + c]) = Id(al[l + c])
    BY <2>1, ZenonT(30) DEF Like, Id
  <2>3. k + c = l + c
    BY <1>0, <2>1, <2>2 DEF Unique
  <2> QED BY <1>1, <2>3
<1>4. \A k \in DOMAIN bl : OwnedBy(bl[k], n)
  BY <1>0, ZenonT(30) DEF OwnedBy, Like
<1> QED BY <1>2, <1>3, <1>4 DEF ListOK

(* A list stays a list when fork gives one more pid.                       *)
LEMMA MoreRuns == ASSUME NEW n \in Nat, NEW al, ListOK(al, n) PROVE ListOK(al, n + 1)
BY DEF ListOK, OwnedBy

(* SkipRemoved drops c removed alarms, and not one that is not removed.    *)
LEMMA SkipFacts ==
  ASSUME NEW al \in Seq(AlarmType)
  PROVE  /\ SkipRemoved(al) \in Seq(AlarmType)
         /\ \E c \in 0 .. Len(al) :
              /\ DOMAIN SkipRemoved(al) = 1 .. Len(al) - c
              /\ \A k \in 1 .. Len(al) - c :
                    k + c \in DOMAIN al /\ SkipRemoved(al)[k] = al[k + c]
              /\ \A k \in 1 .. c : al[k].removed
<1> DEFINE L == Len(al)
           S == {i \in DOMAIN al : ~al[i].removed}
           f == First(S, L + 1)
           c == f - 1
           sl == SkipRemoved(al)
<1>1. L \in Nat /\ DOMAIN al = 1 .. L /\ \A k \in 1 .. L : al[k] \in AlarmType
  BY AlarmFields
<1>2. S \in SUBSET Nat
  BY <1>1
<1>3. IF S = {} THEN f = L + 1 ELSE f \in S /\ \A i \in S : f <= i
  BY <1>2, FirstPlace, ZenonT(30) DEF First
<1>11. S \subseteq 1 .. L /\ \A k \in 1 .. L : k \in S <=> ~al[k].removed
  BY <1>1
<1>5. sl = SubSeq(al, f, L)
  BY DEF SkipRemoved
<1> HIDE DEF f, S, sl
<1>4. f \in 1 .. L + 1 /\ \A k \in 1 .. L : k < f => al[k].removed
  <2>1. CASE S = {}
    BY <1>1, <1>3, <1>11, <2>1
  <2>2. CASE S # {}
    <3>1. f \in 1 .. L /\ \A i \in S : f <= i
      BY <1>1, <1>3, <1>11, <2>2, ZenonT(30)
    <3>2. \A k \in 1 .. L : k < f => k \notin S
      BY <1>1, <3>1
    <3> QED BY <1>1, <1>11, <3>1, <3>2
  <2> QED BY <2>1, <2>2
<1>6. /\ sl \in Seq(AlarmType) /\ Len(sl) = L - f + 1
      /\ \A k \in 1 .. L - f + 1 : sl[k] = al[k + f - 1]
  BY <1>1, <1>5, <1>4
<1>7. DOMAIN sl = 1 .. Len(sl)
  BY <1>6, AlarmFields
<1>8. c \in 0 .. L /\ L - f + 1 = L - c /\ \A k \in 1 .. c : k \in 1 .. L /\ k < f
  BY <1>1, <1>4
<1>9. \A k \in 1 .. L - c : k + c \in 1 .. L /\ k + f - 1 = k + c
  BY <1>1, <1>4
<1>10. /\ DOMAIN sl = 1 .. L - c
       /\ \A k \in 1 .. L - c : k + c \in DOMAIN al /\ sl[k] = al[k + c]
       /\ \A k \in 1 .. c : al[k].removed
  BY <1>1, <1>4, <1>6, <1>7, <1>8, <1>9, SMTT(30)
<1> QED BY <1>6, <1>8, <1>10 DEF sl

(* SkipRemoved on a list.                                                  *)
LEMMA SkipOK ==
  ASSUME NEW n \in Nat, NEW al, ListOK(al, n)
  PROVE  /\ ListOK(SkipRemoved(al), n)
         /\ OneSet(al) => OneSet(SkipRemoved(al))
         /\ NoneSet(al) => NoneSet(SkipRemoved(al))
         /\ (\E k \in DOMAIN al : al[k].kind = "NEWCL") <=>
              (\E k \in DOMAIN SkipRemoved(al) : SkipRemoved(al)[k].kind = "NEWCL")
<1> DEFINE sl == SkipRemoved(al)
<1>0. al \in Seq(AlarmType) /\ \A k \in DOMAIN al : OwnedBy(al[k], n)
  BY SMTT(30) DEF ListOK
<1>1. sl \in Seq(AlarmType)
  BY <1>0, SkipFacts
<1>2. PICK c \in 0 .. Len(al) :
              /\ DOMAIN sl = 1 .. Len(al) - c
              /\ \A k \in 1 .. Len(al) - c : k + c \in DOMAIN al /\ sl[k] = al[k + c]
              /\ \A k \in 1 .. c : al[k].removed
  BY <1>0, SkipFacts, ZenonT(30)
<1>3. c \in Nat /\ Len(al) \in Nat /\ DOMAIN al = 1 .. Len(al)
  BY <1>0, AlarmFields
<1> HIDE DEF sl
<1>4. \A k \in DOMAIN sl : k \in Int /\ k + c \in DOMAIN al /\ sl[k] = al[k + c]
  BY <1>2, <1>3
<1>5. ListOK(sl, n)
  BY <1>1, <1>3, <1>4, ShiftOK, ZenonT(30) DEF Like
<1>6. OneSet(al) => OneSet(sl)
  <2> SUFFICES ASSUME OneSet(al), NEW k \in DOMAIN sl, NEW l \in DOMAIN sl, sl[k].isset, sl[l].isset
               PROVE  k = l
    BY DEF OneSet
  <2>1. k + c = l + c
    BY <1>4, SMTT(30) DEF OneSet
  <2> QED BY <1>3, <1>4, <2>1
<1>7. NoneSet(al) => NoneSet(sl)
  BY <1>4 DEF NoneSet
<1>8. ASSUME NEW k \in DOMAIN al, al[k].kind = "NEWCL"
      PROVE  \E l \in DOMAIN sl : sl[l].kind = "NEWCL"
  <2>1. ~al[k].removed
    BY <1>0, <1>8 DEF OwnedBy
  <2>2. k \in 1 .. Len(al) /\ k \notin 1 .. c
    BY <1>2, <1>3, <2>1
  <2>3. k - c \in 1 .. Len(al) - c /\ (k - c) + c = k
    BY <1>3, <2>2
  <2>4. sl[k - c] = al[k]
    BY <1>2, <2>3
  <2> QED BY <1>2, <1>8, <2>3, <2>4, SMTT(30)
<1>9. ASSUME NEW k \in DOMAIN sl, sl[k].kind = "NEWCL"
      PROVE  \E l \in DOMAIN al : al[l].kind = "NEWCL"
  BY <1>4, <1>9, SMTT(30)
<1> QED BY <1>5, <1>6, <1>7, <1>8, <1>9, SMTT(30) DEF sl

-----------------------------------------------------------------------------
(* bl has the alarms of al and others that are not of a cycle; no other is *)
(* set in it.                                                              *)
Grown(bl, al) ==
  /\ OneSet(bl) /\ (NoneSet(al) => NoneSet(bl))
  /\ \A k \in DOMAIN al : \E m \in DOMAIN bl : Like(bl[m], al[k])
  /\ \A m \in DOMAIN bl : bl[m].kind = "NEWCL" => \E k \in DOMAIN al : al[k].kind = "NEWCL"

(* A list and its timer.                                                   *)
TimedLists == [alarms : Seq(AlarmType), timer : Int]

(* Putting an alarm between two neighbours.                                *)
LEMMA SpliceGrows ==
  ASSUME NEW al \in Seq(AlarmType), NEW a \in AlarmType, a.kind # "NEWCL",
         NEW bl \in Seq(AlarmType), NEW i \in Nat, Splice(bl, al, a, i, i + 1),
         OneSet(bl), NoneSet(al) => NoneSet(bl)
  PROVE  Grown(bl, al)
<1>0. /\ \A k \in DOMAIN bl : k \in Nat
      /\ \A k \in DOMAIN al : k \in Nat
      /\ (i + 1) - i - 2 = -1
  BY AlarmFields, SMTT(30)
<1>1. \A k \in DOMAIN bl :
       \/ k <= i /\ k \in DOMAIN al /\ Like(bl[k], al[k])
       \/ k = i + 1 /\ Like(bl[k], a)
       \/ k > i + 1 /\ k + (-1) \in DOMAIN al /\ Like(bl[k], al[k + (-1)])
  BY <1>0 DEF Splice
<1>2. ASSUME NEW m \in DOMAIN bl, bl[m].kind = "NEWCL"
      PROVE  \E k \in DOMAIN al : al[k].kind = "NEWCL"
  BY <1>1, <1>2, SMTT(30) DEF Like
<1>3. ASSUME NEW k \in DOMAIN al PROVE \E m \in DOMAIN bl : Like(bl[m], al[k])
  <2>1. CASE k <= i
    <3>1. k \in DOMAIN bl
      BY <1>0, <2>1 DEF Splice
    <3> QED BY <1>0, <1>1, <2>1, <3>1
  <2>2. CASE k > i
    <3>1. k + 1 \in DOMAIN bl /\ k + 1 > i + 1 /\ (k + 1) + (-1) = k
      BY <1>0, <2>2 DEF Splice
    <3>2. Like(bl[k + 1], al[(k + 1) + (-1)])
      <4>1. ~(k + 1 <= i) /\ k + 1 # i + 1
        BY <1>0, <2>2
      <4> QED BY <1>1, <3>1, <4>1, Zenon
    <3> QED BY <3>1, <3>2
  <2> QED BY <1>0, <2>1, <2>2
<1> QED BY <1>2, <1>3 DEF Grown

(* InsertAt, as a splice.                                                  *)
LEMMA InsertAtSplice ==
  ASSUME NEW al \in Seq(AlarmType), NEW k \in 1 .. Len(al) + 1, NEW a
  PROVE  InsertAt(al, k, a) = Spliced(al, a, k - 1, (k - 1) + 1)
<1>1. k \in Int /\ (k - 1) + 1 = k
  BY AlarmFields
<1> QED BY <1>1, ZenonT(30) DEF InsertAt, Spliced

(* The parts of a list with two alarms in the place of the first.          *)
LEMMA FrontParts ==
  ASSUME NEW al \in Seq(AlarmType), al # <<>>, NEW x \in AlarmType, NEW y \in AlarmType,
         NEW bl, bl = <<x, y>> \o Tail(al)
  PROVE  /\ bl \in Seq(AlarmType) /\ DOMAIN bl = 1 .. Len(al) + 1
         /\ Len(al) \in Nat \ {0} /\ DOMAIN al = 1 .. Len(al)
         /\ bl[1] = x /\ bl[2] = y
         /\ \A k \in 3 .. Len(al) + 1 :
               k - 1 \in 1 .. Len(al) /\ k - 1 # 1 /\ bl[k] = al[k - 1]
<1> DEFINE L == Len(al)
           tl == Tail(al)
           hd == <<x, y>>
<1>1. L \in Nat \ {0} /\ DOMAIN al = 1 .. L /\ 1 \in 1 .. L
  BY AlarmFields
<1>2. tl \in Seq(AlarmType) /\ Len(tl) = L - 1 /\ \A k \in 1 .. L - 1 : tl[k] = al[k + 1]
  BY <1>1
<1>3. hd \in Seq(AlarmType) /\ Len(hd) = 2 /\ hd[1] = x /\ hd[2] = y
  OBVIOUS
<1>4. bl = hd \o tl
  OBVIOUS
<1> HIDE DEF hd, tl, L
<1>5. /\ bl \in Seq(AlarmType) /\ Len(bl) = L + 1
      /\ \A k \in 1 .. L + 1 : bl[k] = IF k <= 2 THEN hd[k] ELSE tl[k - 2]
  <2>1. /\ hd \o tl \in Seq(AlarmType) /\ Len(hd \o tl) = Len(hd) + Len(tl)
        /\ \A k \in 1 .. Len(hd) + Len(tl) : (hd \o tl)[k] =
              IF k <= Len(hd) THEN hd[k] ELSE tl[k - Len(hd)]
    BY <1>2, <1>3, Concatenation, Zenon
  <2>2. 2 + (L - 1) = L + 1
    BY <1>1
  <2>3. Len(hd) + Len(tl) = L + 1
    BY <1>2, <1>3, <2>2, Zenon
  <2> QED BY <1>3, <1>4, <2>1, <2>3, Zenon
<1>6. DOMAIN bl = 1 .. L + 1
  BY <1>5, AlarmFields
<1>7. bl[1] = x /\ bl[2] = y
  <2>1. 1 \in 1 .. L + 1 /\ 2 \in 1 .. L + 1 /\ 1 <= 2 /\ 2 <= 2
    BY <1>1
  <2> QED BY <1>3, <1>5, <2>1, Zenon
<1>8. ASSUME NEW k \in 3 .. L + 1 PROVE k - 1 \in 1 .. L /\ k - 1 # 1 /\ bl[k] = al[k - 1]
  <2>1. /\ k \in 1 .. L + 1 /\ ~(k <= 2) /\ k - 1 \in 1 .. L /\ k - 1 # 1
        /\ k - 2 \in 1 .. L - 1 /\ (k - 2) + 1 = k - 1
    BY <1>1
  <2> QED BY <1>2, <1>5, <2>1, Zenon
<1> QED BY <1>1, <1>5, <1>6, <1>7, <1>8, Zenon DEF L

(* Two alarms in the place of the first, which alone was set.              *)
LEMMA PutInFront ==
  ASSUME NEW al \in Seq(AlarmType), al # <<>>, al[1].isset, OneSet(al), NEW a,
         NEW x \in AlarmType, Like(x, a),
         NEW y \in AlarmType, Like(y, al[1]), ~y.isset,
         NEW bl, bl = <<x, y>> \o Tail(al)
  PROVE  bl \in Seq(AlarmType) /\ Splice(bl, al, a, 0, 1) /\ OneSet(bl)
<1> DEFINE L == Len(al)
<1>1. L \in Nat \ {0} /\ DOMAIN al = 1 .. L /\ 1 \in 1 .. L
  BY AlarmFields
<1>2. /\ bl \in Seq(AlarmType) /\ DOMAIN bl = 1 .. L + 1 /\ bl[1] = x /\ bl[2] = y
      /\ \A k \in 3 .. L + 1 : k - 1 \in 1 .. L /\ k - 1 # 1 /\ bl[k] = al[k - 1]
  BY FrontParts
<1> HIDE DEF L
<1>3. \A k \in 1 .. L + 1 : k = 1 \/ k = 2 \/ k \in 3 .. L + 1
  BY <1>1
<1>4. OneSet(bl)
  <2>1. ASSUME NEW k \in 3 .. L + 1 PROVE ~bl[k].isset
    <3>1. al[k - 1].isset => k - 1 = 1
      BY <1>1, <1>2, Zenon DEF OneSet
    <3> QED BY <1>2, <3>1, ZenonT(30)
  <2>2. \A k \in DOMAIN bl : bl[k].isset => k = 1
    BY <1>2, <1>3, <2>1, Zenon
  <2> QED BY <2>2 DEF OneSet
<1>5. ASSUME NEW k \in 1 .. L + 1
       PROVE  \/ k = 0 + 1 /\ Like(bl[k], a)
              \/ k > 0 + 1 /\ k + (1 - 0 - 2) \in 1 .. L /\ Like(bl[k], al[k + (1 - 0 - 2)])
  <2>1. CASE k = 1
    <3>1. k = 0 + 1
      BY <2>1
    <3> QED BY <1>2, <2>1, <3>1, Zenon
  <2>2. CASE k = 2
    <3>1. k > 0 + 1 /\ k + (1 - 0 - 2) = 1
      BY <2>2
    <3> QED BY <1>1, <1>2, <2>2, <3>1, Zenon
  <2>3. CASE k \in 3 .. L + 1
    <3>1. k > 0 + 1 /\ k + (1 - 0 - 2) = k - 1
      BY <1>1, <2>3
    <3>2. Like(bl[k], al[k - 1])
      BY <1>2, <2>3, ZenonT(30) DEF Like
    <3> QED BY <1>2, <2>3, <3>1, <3>2, Zenon
  <2> QED BY <1>3, <2>1, <2>2, <2>3, Zenon
<1>6. /\ 0 + 1 \in 1 .. L + 1
      /\ \A k \in 1 .. L : k >= 1 /\ k - (1 - 0 - 2) \in 1 .. L + 1
  BY <1>1
<1>7. Splice(bl, al, a, 0, 1)
  BY <1>1, <1>2, <1>5, <1>6, Zenon DEF Splice
<1> QED BY <1>2, <1>4, <1>7, ZenonT(30)

(* An alarm that is set, or not.                                           *)
LEMMA SetReset ==
  \A b \in AlarmType :
    /\ [b EXCEPT !.isset = TRUE] \in AlarmType /\ Like([b EXCEPT !.isset = TRUE], b)
    /\ [b EXCEPT !.isset = TRUE].isset
    /\ [b EXCEPT !.isset = FALSE] \in AlarmType /\ Like([b EXCEPT !.isset = FALSE], b)
    /\ ~[b EXCEPT !.isset = FALSE].isset
BY ZenonT(30) DEF AlarmType, Like

(* InsertAlarm, for an alarm of a section that is not on the list.         *)
LEMMA InsertOK ==
  ASSUME NEW n \in Nat, NEW lt \in TimedLists, ListOK(lt.alarms, n), OneSet(lt.alarms),
         NEW a \in AlarmType, ~a.isset, a.kind # "NEWCL", OwnedBy(a, n),
         \A k \in DOMAIN lt.alarms : Id(lt.alarms[k]) # Id(a)
  PROVE  /\ InsertAlarm(lt, a) \in TimedLists
         /\ ListOK(InsertAlarm(lt, a).alarms, n)
         /\ Grown(InsertAlarm(lt, a).alarms, lt.alarms)
         /\ \A m \in DOMAIN InsertAlarm(lt, a).alarms :
               \/ Id(InsertAlarm(lt, a).alarms[m]) = Id(a)
               \/ \E k \in DOMAIN lt.alarms : Id(InsertAlarm(lt, a).alarms[m]) = Id(lt.alarms[k])
<1> DEFINE al == lt.alarms
           p == Position(al, a)
           r == InsertAlarm(lt, a)
<1>0. /\ al \in Seq(AlarmType) /\ Sorted(al) /\ lt.timer \in Int /\ a.exptime \in Int
      /\ lt = [alarms |-> al, timer |-> lt.timer]
  BY AlarmFields DEF ListOK, TimedLists
<1>1. /\ p \in 1 .. Len(al) + 1
      /\ \A i \in DOMAIN al : IF i < p THEN al[i].exptime <= a.exptime
                              ELSE a.exptime < al[i].exptime
  BY <1>0, PositionOK
<1>2. Len(al) \in Nat /\ DOMAIN al = 1 .. Len(al) /\ \A i \in DOMAIN al : al[i].exptime \in Int
  BY <1>0, AlarmFields, SMTT(30)
<1>3. r = IF p = 1 /\ al # <<>> /\ al[1].isset
          THEN [alarms |-> <<[a EXCEPT !.isset = TRUE], [al[1] EXCEPT !.isset = FALSE]>> \o Tail(al),
                timer |-> a.exptime]
          ELSE [lt EXCEPT !.alarms = InsertAt(al, p, a)]
  BY Zenon DEF InsertAlarm
<1> HIDE DEF p
<1>4. ASSUME NEW bl \in Seq(AlarmType), NEW i \in Nat, i + 1 = p, Splice(bl, al, a, i, i + 1),
             OneSet(bl), NoneSet(al) => NoneSet(bl)
      PROVE  /\ ListOK(bl, n) /\ Grown(bl, al)
             /\ \A m \in DOMAIN bl : \/ Id(bl[m]) = Id(a)
                                     \/ \E k \in DOMAIN al : Id(bl[m]) = Id(al[k])
  <2>1. /\ \A k \in DOMAIN al : k <= i => al[k].exptime <= a.exptime
        /\ \A k \in DOMAIN al : k >= i + 1 => a.exptime <= al[k].exptime
        /\ i + 1 \in Nat /\ i < i + 1
    <3> DEFINE e(k) == al[k].exptime
               x == a.exptime
    <3>1. /\ \A k \in 1 .. Len(al) : e(k) \in Int /\ IF k < p THEN e(k) <= x ELSE x < e(k)
          /\ x \in Int
      BY <1>0, <1>1, <1>2, SMTT(30)
    <3> HIDE DEF e, x
    <3>2. \A k \in 1 .. Len(al) : (k <= i => e(k) <= x) /\ (k >= i + 1 => x <= e(k))
      BY <1>2, <1>4, <3>1, SMTT(30)
    <3> QED BY <1>2, <3>2 DEF e, x
  <2>2. ListOK(bl, n)
    BY <1>4, <2>1, SpliceOK
  <2>3. Grown(bl, al)
    BY <1>0, <1>4, SpliceGrows
  <2>4. ASSUME NEW m \in DOMAIN bl
        PROVE  Id(bl[m]) = Id(a) \/ \E k \in DOMAIN al : Id(bl[m]) = Id(al[k])
    <3>1. \A u, v : Like(u, v) => Id(u) = Id(v)
      BY DEF Like, Id
    <3> QED BY <1>4, <3>1, Zenon DEF Splice
  <2> QED BY <2>2, <2>3, <2>4, SMTT(30)
<1>5. CASE p = 1 /\ al # <<>> /\ al[1].isset
  <2> DEFINE x == [a EXCEPT !.isset = TRUE]
             y == [al[1] EXCEPT !.isset = FALSE]
             bl == <<x, y>> \o Tail(al)
  <2>1. al[1] \in AlarmType
    BY <1>0, <1>5, AlarmFields
  <2>2. /\ x \in AlarmType /\ Like(x, a)
        /\ y \in AlarmType /\ Like(y, al[1]) /\ ~y.isset
    BY <2>1, SetReset, Zenon
  <2>3. r = [alarms |-> bl, timer |-> a.exptime]
    BY <1>3, <1>5, Zenon
  <2> HIDE DEF x, y
  <2>4. bl \in Seq(AlarmType) /\ Splice(bl, al, a, 0, 1) /\ OneSet(bl)
    BY <1>0, <1>5, <2>2, PutInFront, ZenonT(30)
  <2>5. ~NoneSet(al)
    BY <1>5, <1>2, <1>0, AlarmFields DEF NoneSet
  <2> HIDE DEF bl
  <2>6. 0 \in Nat /\ 0 + 1 = p /\ Splice(bl, al, a, 0, 0 + 1)
    BY <1>5, <2>4, SMTT(30)
  <2>7. r.alarms = bl /\ r \in TimedLists
    BY <1>0, <2>3, <2>4, SMTT(30) DEF TimedLists
  <2> QED BY <1>4, <2>4, <2>5, <2>6, <2>7, Zenon
<1>6. CASE ~(p = 1 /\ al # <<>> /\ al[1].isset)
  <2> DEFINE bl == InsertAt(al, p, a)
             i == p - 1
  <2>1. i \in 0 .. Len(al) /\ i \in Nat /\ i + 1 = p /\ i + 1 \in i + 1 .. Len(al) + 1
    BY <1>1, <1>2, SMTT(30)
  <2>2. bl = Spliced(al, a, i, i + 1)
    BY <1>0, <1>1, InsertAtSplice
  <2>3. r = [alarms |-> bl, timer |-> lt.timer]
    BY <1>0, <1>3, <1>6, Zenon
  <2> HIDE DEF bl, i
  <2>4. /\ bl \in Seq(AlarmType) /\ Splice(bl, al, a, i, i + 1)
        /\ OneSet(bl) /\ (NoneSet(al) => NoneSet(bl))
    <3>1. /\ bl \in Seq(AlarmType) /\ Splice(bl, al, a, i, i + 1)
          /\ OneSet(al) /\ ~a.isset => OneSet(bl)
          /\ NoneSet(al) /\ ~a.isset => NoneSet(bl)
      BY <1>0, <2>1, <2>2, SpliceSeq, SMTT(30)
    <3> QED BY <3>1, Zenon
  <2>5. r.alarms = bl /\ r \in TimedLists
    BY <1>0, <2>3, <2>4 DEF TimedLists
  <2> QED BY <1>4, <2>1, <2>4, <2>5, Zenon
<1> QED BY <1>5, <1>6, ZenonT(30)

(* The limit of a section is a number.                                     *)
LEMMA LimitNumber == ASSUME NEW s \in 1 .. N PROVE Limit(Sections[s].limitstr) \in Int
<1> DEFINE limits == {l \in Int : l > -Period}
           R == [due : SUBSET Nat, retry : Nat, parallel : BOOLEAN, limitstr : limits]
<1>1. Sections \in Seq(R)
  BY SectionsAssumption
<1>2. \A x \in R : x.limitstr \in Int
  OBVIOUS
<1> HIDE DEF R
<1>3. Sections[s] \in R
  BY <1>1 DEF N
<1>4. Sections[s].limitstr \in Int
  BY <1>2, <1>3
<1> QED BY <1>4, PeriodAssumption DEF Limit

(* CycleStart is a number.                                                 *)
LEMMA CycleNumber == ASSUME NEW t \in Nat PROVE CycleStart(t) \in Int
BY PeriodAssumption, SMTT(30) DEF CycleStart

(* An alarm just made.                                                     *)
LEMMA AlarmMade ==
  ASSUME NEW kind \in {"NEWCL", "STRM", "SKILL"}, NEW s \in 0 .. N, NEW run \in Nat, NEW e \in Int
  PROVE  LET a == Alarm(kind, s, run, e) IN
         /\ a \in AlarmType /\ ~a.isset /\ ~a.removed /\ a.kind = kind /\ a.run = run
         /\ a.section = s /\ a.exptime = e /\ Id(a) = <<kind, run>>
BY DEF Alarm, AlarmType, Id

(* A list that has grown twice.                                            *)
LEMMA GrowsOn ==
  ASSUME NEW al, NEW bl, NEW cl, Grown(bl, al), Grown(cl, bl)
  PROVE  Grown(cl, al)
<1>1. \A x, y, z : Like(x, y) /\ Like(y, z) => Like(x, z)
  BY DEF Like
<1>2. ASSUME NEW k \in DOMAIN al PROVE \E m \in DOMAIN cl : Like(cl[m], al[k])
  <2>1. PICK l \in DOMAIN bl : Like(bl[l], al[k])
    BY DEF Grown
  <2>2. PICK m \in DOMAIN cl : Like(cl[m], bl[l])
    BY DEF Grown
  <2> QED BY <1>1, <2>1, <2>2, SMTT(30)
<1> QED BY <1>2 DEF Grown

(* SetAlarm, for a run that fork has just numbered.                        *)
LEMMA SetAlarmOK ==
  ASSUME NEW n \in Nat, NEW lt \in TimedLists, ListOK(lt.alarms, n), OneSet(lt.alarms),
         NEW s \in 1 .. N, NEW t \in Nat
  PROVE  /\ SetAlarm(lt, s, n + 1, t) \in TimedLists
         /\ ListOK(SetAlarm(lt, s, n + 1, t).alarms, n + 1)
         /\ Grown(SetAlarm(lt, s, n + 1, t).alarms, lt.alarms)
<1> DEFINE limit == Limit(Sections[s].limitstr)
           end == CycleStart(t) + limit
           a == Alarm("STRM", s, n + 1, end - 1)
           b == Alarm("SKILL", s, n + 1, end)
           l1 == InsertAlarm(lt, a)
           l2 == InsertAlarm(l1, b)
<1>1. n + 1 \in Nat /\ s \in 0 .. N /\ end \in Int /\ end - 1 \in Int
  BY LimitNumber, CycleNumber, SectionCount
<1>2. SetAlarm(lt, s, n + 1, t) = IF limit = 0 THEN lt ELSE l2
  BY Zenon DEF SetAlarm
<1>3. ListOK(lt.alarms, n + 1)
  BY MoreRuns, SMTT(30)
<1> HIDE DEF limit, end
<1>4. /\ a \in AlarmType /\ ~a.isset /\ a.kind = "STRM" /\ a.run = n + 1
      /\ Id(a) = <<"STRM", n + 1>>
  BY <1>1, AlarmMade
<1>5. /\ b \in AlarmType /\ ~b.isset /\ b.kind = "SKILL" /\ b.run = n + 1
      /\ Id(b) = <<"SKILL", n + 1>>
  BY <1>1, AlarmMade, SMTT(30)
<1> HIDE DEF a, b
<1>6. a.kind # "NEWCL" /\ OwnedBy(a, n + 1) /\ b.kind # "NEWCL" /\ OwnedBy(b, n + 1)
  BY <1>4, <1>5 DEF OwnedBy
<1>7. ASSUME NEW k \in DOMAIN lt.alarms
      PROVE  Id(lt.alarms[k]) # Id(a) /\ Id(lt.alarms[k]) # Id(b)
  <2>1. OwnedBy(lt.alarms[k], n)
    BY <1>7 DEF ListOK
  <2>2. lt.alarms[k].run # n + 1
    BY <2>1, SMTT(30) DEF OwnedBy
  <2> QED BY <1>4, <1>5, <2>2, SMTT(30) DEF Id
<1>8. /\ l1 \in TimedLists /\ ListOK(l1.alarms, n + 1) /\ Grown(l1.alarms, lt.alarms)
      /\ \A m \in DOMAIN l1.alarms :
            Id(l1.alarms[m]) = Id(a) \/ \E k \in DOMAIN lt.alarms : Id(l1.alarms[m]) = Id(lt.alarms[k])
  BY <1>1, <1>3, <1>4, <1>6, <1>7, InsertOK, SMTT(30)
<1> HIDE DEF l1
<1>9. \A m \in DOMAIN l1.alarms : Id(l1.alarms[m]) # Id(b)
  <2>1. Id(a) # Id(b)
    BY <1>4, <1>5
  <2> QED BY <1>7, <1>8, <2>1, Zenon
<1>10. OneSet(l1.alarms)
  BY <1>8, SMTT(30) DEF Grown
<1>11. l2 \in TimedLists /\ ListOK(l2.alarms, n + 1) /\ Grown(l2.alarms, l1.alarms)
  BY <1>1, <1>5, <1>6, <1>8, <1>9, <1>10, InsertOK, SMTT(30)
<1> HIDE DEF l2
<1>12. Grown(l2.alarms, lt.alarms)
  BY <1>8, <1>11, GrowsOn
<1>13. Grown(lt.alarms, lt.alarms)
  BY DEF Grown, Like
<1>14. CASE limit = 0
  BY <1>2, <1>3, <1>13, <1>14, SMTT(30)
<1>15. CASE limit # 0
  BY <1>2, <1>11, <1>12, <1>15, SMTT(30)
<1> QED BY <1>14, <1>15

-----------------------------------------------------------------------------
Ids == {"none", "NEWCL", "STRM", "SKILL"} \X Nat
Pcs == {"suspend", "insert", "link", "arm", "isset", "setitimer", "time", "save",
        "mark", "run", "check", "launch", "launched", "advance"}
MainStates == [pc : Pcs, t : Nat, i : 0 .. N + 1, s : 0 .. N, new : AlarmType,
               at : Ids, next : Ids, value : Int]

(* Where WaitForCycle is at work on the list.                              *)
InsertPcs == {"insert", "link", "arm", "isset"}

HasCycle(al) == \E i \in DOMAIN al : al[i].kind = "NEWCL"

(* The alarm of the next cycle is on the list, or the cycle has come.      *)
CycleOK == HasCycle(alarms) <=> ~(g_next_cycle \/ main.pc \in {"insert", "link"})

(* One alarm is set, and none while WaitForCycle is at work.               *)
SetOK == /\ OneSet(alarms) /\ ~(main.pc \in InsertPcs /\ g_next_cycle)
         /\ (main.pc \in InsertPcs \/ g_next_cycle) => NoneSet(alarms)

(* The neighbours FindPlace has found are still there, in order.           *)
LinkOK ==
  main.pc = "link" =>
    /\ main.new.kind = "NEWCL" /\ main.new.run = 0 /\ main.new.section = NULL
    /\ ~main.new.isset /\ ~main.new.removed
    /\ main.at = NoAlarm \/ \E i \in DOMAIN alarms :
          Id(alarms[i]) = main.at /\ alarms[i].exptime <= main.new.exptime
    /\ main.next = NoAlarm \/ \E i \in DOMAIN alarms :
          Id(alarms[i]) = main.next /\ main.new.exptime < alarms[i].exptime

AlarmInv == /\ main \in MainStates /\ timer \in Int
            /\ ListOK(alarms, pids) /\ CycleOK /\ SetOK /\ LinkOK

(* The main loop changes its place, outside WaitForCycle.                  *)
MainMoves == /\ main' \in MainStates
             /\ main' = main \/ (main.pc \notin InsertPcs /\ main'.pc \notin InsertPcs)

(* A step on the list that does not announce a cycle.                      *)
LEMMA ListStep ==
  ASSUME AlarmInv, MainMoves, timer' \in Int, UNCHANGED g_next_cycle,
         ListOK(alarms', pids'), OneSet(alarms'), NoneSet(alarms) => NoneSet(alarms'),
         HasCycle(alarms) <=> HasCycle(alarms'),
         main.pc = "link" => \A k \in DOMAIN alarms : \E m \in DOMAIN alarms' : Like(alarms'[m], alarms[k])
  PROVE  AlarmInv'
<1>1. CycleOK'
  BY SMTT(30) DEF AlarmInv, CycleOK, MainMoves, InsertPcs
<1>2. SetOK'
  BY SMTT(30) DEF AlarmInv, SetOK, MainMoves
<1>3. LinkOK'
  <2> SUFFICES ASSUME main'.pc = "link" PROVE LinkOK'
    BY SMTT(30) DEF LinkOK
  <2>1. main' = main /\ main.pc = "link"
    BY SMTT(30) DEF MainMoves, InsertPcs
  <2>2. \A k \in DOMAIN alarms : \E m \in DOMAIN alarms' :
           Id(alarms'[m]) = Id(alarms[k]) /\ alarms'[m].exptime = alarms[k].exptime
    BY <2>1 DEF Like, Id
  <2> QED BY <2>1, <2>2, SMTT(30) DEF AlarmInv, LinkOK
<1> QED BY <1>1, <1>2, <1>3 DEF AlarmInv, MainMoves

(* A step that leaves the list alone.                                      *)
LEMMA IdleStep ==
  ASSUME AlarmInv, MainMoves, timer' \in Int, UNCHANGED <<alarms, pids, g_next_cycle>>
  PROVE  AlarmInv'
<1>1. ListOK(alarms, pids) /\ OneSet(alarms)
  BY DEF AlarmInv, SetOK
<1>2. \A k \in DOMAIN alarms : \E m \in DOMAIN alarms : Like(alarms[m], alarms[k])
  BY DEF Like
<1> QED BY <1>1, <1>2, ListStep

(* Launch puts the alarms of the run on the list.                          *)
LEMMA LaunchList ==
  ASSUME ProcInv, AlarmInv, NEW s \in 1 .. N, Launch(s), MainMoves, UNCHANGED g_next_cycle
  PROVE  AlarmInv'
<1>1. CASE UNCHANGED <<alarms, pids, timer>>
  BY <1>1, IdleStep DEF AlarmInv
<1>2. ASSUME NEW late \in BOOLEAN, pids' = pids + 1,
             LET lt == SetAlarm([alarms |-> alarms, timer |-> IF late THEN Never ELSE timer],
                                s, pids + 1, now)
             IN  alarms' = lt.alarms /\ timer' = lt.timer
      PROVE  AlarmInv'
  <2> DEFINE tm == IF late THEN Never ELSE timer
             l0 == [alarms |-> alarms, timer |-> tm]
             lt == SetAlarm(l0, s, pids + 1, now)
  <2>1. alarms' = lt.alarms /\ timer' = lt.timer
    BY <1>2
  <2>2. /\ pids \in Nat /\ now \in Nat /\ tm \in Int
        /\ ListOK(alarms, pids) /\ OneSet(alarms) /\ alarms \in Seq(AlarmType)
    BY SMTT(30) DEF ProcInv, StateType, AlarmInv, SetOK, ListOK, Never
  <2> HIDE DEF tm
  <2>3. l0 \in TimedLists /\ l0.alarms = alarms
    BY <2>2 DEF TimedLists
  <2> HIDE DEF l0
  <2>4. lt \in TimedLists /\ ListOK(lt.alarms, pids + 1) /\ Grown(lt.alarms, alarms)
    BY <2>2, <2>3, SetAlarmOK, SMTT(30)
  <2> HIDE DEF lt
  <2>5. timer' \in Int /\ ListOK(alarms', pids') /\ Grown(alarms', alarms)
    BY <1>2, <2>1, <2>4 DEF TimedLists
  <2>6. HasCycle(alarms) <=> HasCycle(alarms')
    BY <2>5 DEF Grown, HasCycle, Like
  <2> QED BY <2>5, <2>6, ListStep, SMTT(30) DEF Grown
<1> QED BY <1>1, <1>2, Zenon DEF Launch

(* The main loop goes on, with a type for its place.                       *)
LEMMA GotoMoves ==
  ASSUME main \in MainStates, main.pc \notin InsertPcs, NEW pc \in Pcs, pc \notin InsertPcs, Goto(pc)
  PROVE  MainMoves
<1>1. main' \in MainStates /\ main'.pc = pc
  BY DEF Goto, MainStates
<1> QED BY <1>1 DEF MainMoves

-----------------------------------------------------------------------------
(* The cycle has come: WaitForCycle starts on the list.                    *)
LEMMA WaitStep == ASSUME AlarmInv, WaitForCycle PROVE AlarmInv'
<1>1. /\ main.pc = "suspend" /\ g_next_cycle /\ g_next_cycle' = FALSE
      /\ UNCHANGED <<alarms, pids, timer>> /\ main' = [main EXCEPT !.pc = "insert"]
  BY DEF WaitForCycle, MainAt, Goto
<1>2. main' \in MainStates /\ main'.pc = "insert"
  BY <1>1 DEF AlarmInv, MainStates, Pcs
<1>3. CycleOK' /\ SetOK' /\ LinkOK'
  BY <1>1, <1>2, SMTT(30) DEF AlarmInv, CycleOK, SetOK, LinkOK, InsertPcs
<1> QED BY <1>1, <1>2, <1>3 DEF AlarmInv

(* The alarm of a cycle.                                                   *)
LEMMA CycleAlarm ==
  ASSUME NEW t \in Nat
  PROVE  LET a == NewCycleAlarm(t) IN
         /\ a \in AlarmType /\ ~a.isset /\ ~a.removed /\ a.kind = "NEWCL" /\ a.run = 0
         /\ a.section = NULL /\ a.exptime \in Int
<1>1. CycleStart(t) + Period \in Int /\ 0 \in 0 .. N /\ 0 \in Nat
  BY CycleNumber, SectionCount, PeriodAssumption
<1> QED BY <1>1, AlarmMade DEF NewCycleAlarm, NULL

(* The identity of an alarm of the list.                                   *)
LEMMA IdType == ASSUME NEW a \in AlarmType PROVE Id(a) \in Ids /\ Id(a) # NoAlarm
BY AlarmFields DEF Id, Ids, NoAlarm

(* FindPlace finds neighbours.                                             *)
LEMMA FindStep == ASSUME ProcInv, AlarmInv, FindPlace PROVE AlarmInv'
<1> DEFINE a == NewCycleAlarm(now)
           k == Position(alarms, a)
           at == IF k = 1 THEN NoAlarm ELSE Id(alarms[k - 1])
           next == IF k > Len(alarms) THEN NoAlarm ELSE Id(alarms[k])
<1>1. /\ main.pc = "insert" /\ UNCHANGED <<alarms, pids, timer, g_next_cycle>>
      /\ main' = [main EXCEPT !.pc = "link", !.new = a, !.at = at, !.next = next]
  BY DEF FindPlace, MainAt
<1>2. /\ a \in AlarmType /\ ~a.isset /\ ~a.removed /\ a.kind = "NEWCL" /\ a.run = 0
      /\ a.section = NULL /\ a.exptime \in Int
  BY CycleAlarm, SMTT(30) DEF ProcInv, StateType
<1>3. /\ alarms \in Seq(AlarmType) /\ Sorted(alarms) /\ main \in MainStates
      /\ Len(alarms) \in Nat /\ DOMAIN alarms = 1 .. Len(alarms)
  BY AlarmFields DEF AlarmInv, ListOK
<1> HIDE DEF a
<1>4. /\ k \in 1 .. Len(alarms) + 1
      /\ \A i \in DOMAIN alarms : IF i < k THEN alarms[i].exptime <= a.exptime
                                  ELSE a.exptime < alarms[i].exptime
  BY <1>2, <1>3, PositionOK, SMTT(30)
<1> HIDE DEF k
<1>5. /\ at \in Ids
      /\ at = NoAlarm \/ \E i \in DOMAIN alarms : Id(alarms[i]) = at /\ alarms[i].exptime <= a.exptime
  <2>1. CASE k = 1
    BY <2>1 DEF Ids, NoAlarm
  <2>2. CASE k # 1
    <3>1. k - 1 \in DOMAIN alarms /\ k - 1 < k
      BY <1>3, <1>4, <2>2
    <3>2. alarms[k - 1] \in AlarmType /\ alarms[k - 1].exptime <= a.exptime
      BY <1>3, <1>4, <3>1, AlarmFields, ZenonT(30)
    <3> QED BY <2>2, <3>1, <3>2, IdType
  <2> QED BY <2>1, <2>2, SMTT(30)
<1>6. /\ next \in Ids
      /\ next = NoAlarm \/ \E i \in DOMAIN alarms : Id(alarms[i]) = next /\ a.exptime < alarms[i].exptime
  <2>1. CASE k > Len(alarms)
    BY <2>1 DEF Ids, NoAlarm
  <2>2. CASE ~(k > Len(alarms))
    <3>1. k \in DOMAIN alarms /\ ~(k < k)
      BY <1>3, <1>4, <2>2
    <3>2. alarms[k] \in AlarmType /\ a.exptime < alarms[k].exptime
      BY <1>3, <1>4, <3>1, AlarmFields
    <3> QED BY <2>2, <3>1, <3>2, IdType, SMTT(30)
  <2> QED BY <2>1, <2>2
<1> HIDE DEF at, next
<1>7. main' \in MainStates /\ main'.pc = "link" /\ main'.new = a /\ main'.at = at /\ main'.next = next
  <2>1. "link" \in Pcs
    BY DEF Pcs
  <2> QED BY <1>1, <1>2, <1>3, <1>5, <1>6, <2>1, ZenonT(30) DEF MainStates
<1>8. LinkOK'
  BY <1>1, <1>2, <1>5, <1>6, <1>7 DEF LinkOK
<1>9. CycleOK' /\ SetOK'
  BY <1>1, <1>7 DEF AlarmInv, CycleOK, SetOK, InsertPcs
<1> QED BY <1>1, <1>7, <1>8, <1>9, SMTT(30) DEF AlarmInv

(* Where LinkAlarm puts the alarm of the cycle: behind the neighbour       *)
(* FindPlace has found and before the other, where its time belongs.       *)
LEMMA LinkParts ==
  ASSUME ProcInv, AlarmInv, LinkAlarm
  PROVE  \E i \in 0 .. Len(alarms) : \E j \in i + 1 .. Len(alarms) + 1 :
           /\ alarms' = Spliced(alarms, main.new, i, j)
           /\ i = Index(alarms, main.at)
           /\ j = IF main.next = NoAlarm THEN Len(alarms) + 1 ELSE Index(alarms, main.next)
           /\ \A k \in DOMAIN alarms : /\ k <= i => alarms[k].exptime <= main.new.exptime
                                       /\ k >= j => main.new.exptime <= alarms[k].exptime
<1> DEFINE a == main.new
           i == Index(alarms, main.at)
           j == IF main.next = NoAlarm THEN Len(alarms) + 1 ELSE Index(alarms, main.next)
           e(k) == alarms[k].exptime
<1>1. /\ main.pc = "link" /\ UNCHANGED <<pids, timer, g_next_cycle>>
      /\ main' = [main EXCEPT !.pc = "arm"]
      /\ alarms' = SubSeq(alarms, 1, i) \o <<a>>
                   \o (IF main.next = NoAlarm THEN <<>>
                       ELSE SubSeq(alarms, Index(alarms, main.next), Len(alarms)))
  BY SMTT(30) DEF LinkAlarm, MainAt, Goto
<1>2. /\ alarms \in Seq(AlarmType) /\ Sorted(alarms) /\ main \in MainStates /\ a \in AlarmType
      /\ Len(alarms) \in Nat /\ DOMAIN alarms = 1 .. Len(alarms) /\ a.exptime \in Int
      /\ \A k \in DOMAIN alarms : alarms[k] \in AlarmType /\ e(k) \in Int
      /\ pids \in Nat /\ ListOK(alarms, pids)
  BY AlarmFields DEF AlarmInv, ListOK, MainStates, ProcInv, StateType
<1>3. /\ a.kind = "NEWCL" /\ a.run = 0 /\ a.section = NULL /\ ~a.isset /\ ~a.removed
      /\ main.at = NoAlarm \/ \E k \in DOMAIN alarms : Id(alarms[k]) = main.at /\ e(k) <= a.exptime
      /\ main.next = NoAlarm \/ \E k \in DOMAIN alarms : Id(alarms[k]) = main.next /\ a.exptime < e(k)
  BY <1>1 DEF AlarmInv, LinkOK
<1>5. \A k, l \in DOMAIN alarms : Id(alarms[k]) = Id(alarms[l]) => k = l
  BY SMTT(30) DEF AlarmInv, ListOK, Unique
<1>6. i = 0 \/ (i \in DOMAIN alarms /\ e(i) <= a.exptime)
  <2>1. CASE main.at = NoAlarm
    BY <1>2, <2>1, IdType, IndexFound
  <2>2. CASE main.at # NoAlarm
    <3>1. PICK k \in DOMAIN alarms : Id(alarms[k]) = main.at /\ e(k) <= a.exptime
      BY <1>3, <2>2
    <3>2. i \in DOMAIN alarms /\ Id(alarms[i]) = main.at
      BY <1>2, <3>1, IndexFound, SMTT(30)
    <3> QED BY <1>5, <3>1, <3>2, SMTT(30)
  <2> QED BY <2>1, <2>2, SMTT(30)
<1>7. j = Len(alarms) + 1 \/ (j \in DOMAIN alarms /\ a.exptime < e(j))
  <2>1. CASE main.next = NoAlarm
    BY <2>1, SMTT(30)
  <2>2. CASE main.next # NoAlarm
    <3>1. PICK k \in DOMAIN alarms : Id(alarms[k]) = main.next /\ a.exptime < e(k)
      BY <1>3, <2>2, SMTT(30)
    <3>2. j \in DOMAIN alarms /\ Id(alarms[j]) = main.next
      BY <1>2, <2>2, <3>1, IndexFound, SMTT(30)
    <3> QED BY <1>5, <3>1, <3>2, SMTT(30)
  <2> QED BY <2>1, <2>2, SMTT(30)
<1>8. alarms' = Spliced(alarms, a, i, j)
  <2>1. main.next = NoAlarm => SubSeq(alarms, Len(alarms) + 1, Len(alarms)) = <<>>
    BY <1>2, SMTT(30)
  <2> QED BY <1>1, <2>1, ZenonT(30) DEF Spliced
<1>9. \A k, l \in DOMAIN alarms : k < l => e(k) <= e(l)
  BY <1>2, SMTT(30) DEF Sorted
<1> DEFINE x == a.exptime
           L == Len(alarms)
<1>10. /\ i = 0 \/ (i \in 1 .. L /\ e(i) <= x)
       /\ j = L + 1 \/ (j \in 1 .. L /\ x < e(j))
       /\ \A k \in 1 .. L : e(k) \in Int
       /\ \A k, l \in 1 .. L : k < l => e(k) <= e(l)
       /\ x \in Int /\ L \in Nat
  BY <1>2, <1>6, <1>7, <1>9, SMTT(30)
<1> HIDE DEF i, j, e, x, L
<1>11. /\ i \in 0 .. L /\ j \in i + 1 .. L + 1 /\ i \in Nat /\ j \in Nat /\ i < j
       /\ \A k \in 1 .. L : (k <= i => e(k) <= x) /\ (k >= j => x <= e(k))
  BY <1>10, SMTT(30)
<1>12. \A k \in DOMAIN alarms : /\ k <= i => alarms[k].exptime <= main.new.exptime
                                /\ k >= j => main.new.exptime <= alarms[k].exptime
  BY <1>2, <1>11, SMTT(30) DEF e, x, L
<1>13. i \in 0 .. Len(alarms) /\ j \in i + 1 .. Len(alarms) + 1
  BY <1>11 DEF L
<1>14. i = Index(alarms, main.at)
       /\ j = IF main.next = NoAlarm THEN Len(alarms) + 1 ELSE Index(alarms, main.next)
  BY DEF i, j
<1> QED BY <1>8, <1>12, <1>13, <1>14, Zenon

(* LinkAlarm puts the alarm of the cycle where its time belongs.           *)
LEMMA LinkStep == ASSUME ProcInv, AlarmInv, LinkAlarm PROVE AlarmInv'
<1> DEFINE a == main.new
           L == Len(alarms)
<1>1. /\ main.pc = "link" /\ UNCHANGED <<pids, timer, g_next_cycle>>
      /\ main' = [main EXCEPT !.pc = "arm"]
  BY SMTT(30) DEF LinkAlarm, MainAt, Goto
<1>2. /\ alarms \in Seq(AlarmType) /\ main \in MainStates /\ a \in AlarmType
      /\ L \in Nat /\ DOMAIN alarms = 1 .. L
      /\ pids \in Nat /\ ListOK(alarms, pids)
  BY AlarmFields DEF AlarmInv, ListOK, MainStates, ProcInv, StateType
<1>3. /\ a.kind = "NEWCL" /\ a.run = 0 /\ a.section = NULL /\ ~a.isset /\ ~a.removed
  BY <1>1 DEF AlarmInv, LinkOK
<1>4. main' \in MainStates /\ main'.pc = "arm"
  BY <1>1, <1>2, ZenonT(30) DEF MainStates, Pcs
<1>5. PICK i \in 0 .. L : \E j \in i + 1 .. L + 1 :
         /\ alarms' = Spliced(alarms, a, i, j)
         /\ \A k \in DOMAIN alarms : /\ k <= i => alarms[k].exptime <= a.exptime
                                     /\ k >= j => a.exptime <= alarms[k].exptime
  BY LinkParts, Zenon
<1>6. PICK j \in i + 1 .. L + 1 :
         /\ alarms' = Spliced(alarms, a, i, j)
         /\ \A k \in DOMAIN alarms : /\ k <= i => alarms[k].exptime <= a.exptime
                                     /\ k >= j => a.exptime <= alarms[k].exptime
  BY <1>5, Zenon
<1>7. i \in Nat /\ j \in Nat /\ i < j
  BY <1>2, SMTT(30)
<1>8. ~HasCycle(alarms) /\ NoneSet(alarms) /\ OneSet(alarms)
  BY <1>1, SMTT(30) DEF AlarmInv, CycleOK, SetOK, InsertPcs
<1>9. /\ alarms' \in Seq(AlarmType) /\ Splice(alarms', alarms, a, i, j)
      /\ NoneSet(alarms')
  BY <1>2, <1>3, <1>6, <1>8, SpliceSeq, SMTT(30)
<1>10. ListOK(alarms', pids)
  <2>1. OwnedBy(a, pids) /\ \A k \in DOMAIN alarms : Id(alarms[k]) # Id(a)
    BY <1>2, <1>3, <1>8, SMTT(30) DEF OwnedBy, HasCycle, Id
  <2> QED BY <1>2, <1>6, <1>7, <1>9, <2>1, SpliceOK, ZenonT(30)
<1>11. HasCycle(alarms')
  <2>1. i + 1 \in DOMAIN alarms' /\ Like(alarms'[i + 1], a)
    BY <1>7, <1>9, SMTT(30) DEF Splice
  <2> QED BY <1>3, <2>1, SMTT(30) DEF HasCycle, Like
<1>12. ~g_next_cycle
  BY <1>1 DEF AlarmInv, SetOK, InsertPcs
<1>13. CycleOK' /\ SetOK' /\ LinkOK'
  BY <1>1, <1>4, <1>9, <1>11, <1>12, ZenonT(30) DEF CycleOK, SetOK, LinkOK, InsertPcs, NoneSet, OneSet
<1> QED BY <1>1, <1>4, <1>10, <1>13 DEF AlarmInv

(* ReadHead drops removed alarms, never that of the cycle.                 *)
LEMMA HeadStep == ASSUME ProcInv, AlarmInv, ReadHead PROVE AlarmInv'
<1> DEFINE h == alarms'[1]
<1>1. /\ main.pc = "arm" /\ UNCHANGED <<pids, timer, g_next_cycle>>
      /\ alarms' = SkipRemoved(alarms)
      /\ main' = [main EXCEPT !.pc = "isset", !.at = Id(h), !.value = h.exptime]
  BY DEF ReadHead, MainAt
<1>2. /\ pids \in Nat /\ main \in MainStates /\ ListOK(alarms, pids) /\ HasCycle(alarms)
      /\ OneSet(alarms) /\ NoneSet(alarms) /\ ~g_next_cycle
  BY <1>1 DEF ProcInv, StateType, AlarmInv, CycleOK, SetOK, InsertPcs
<1>3. ListOK(alarms', pids) /\ OneSet(alarms') /\ NoneSet(alarms') /\ HasCycle(alarms')
  BY <1>1, <1>2, SkipOK, SMTT(30) DEF HasCycle
<1>4. h \in AlarmType
  <2>1. alarms' \in Seq(AlarmType) /\ DOMAIN alarms' # {}
    BY <1>3 DEF ListOK, HasCycle
  <2>2. DOMAIN alarms' = 1 .. Len(alarms') /\ Len(alarms') \in Nat
    BY <2>1, AlarmFields
  <2>3. 1 \in DOMAIN alarms'
    BY <2>1, <2>2
  <2> QED BY <2>1, <2>3, AlarmFields, SMTT(30)
<1>5. Id(h) \in Ids /\ h.exptime \in Int
  BY <1>4, AlarmFields, IdType
<1> HIDE DEF h
<1>6. main' \in MainStates /\ main'.pc = "isset"
  <2>1. "isset" \in Pcs
    BY DEF Pcs
  <2> QED BY <1>1, <1>2, <1>5, <2>1, ZenonT(30) DEF MainStates
<1>7. CycleOK' /\ SetOK' /\ LinkOK'
  BY <1>1, <1>2, <1>3, <1>6 DEF CycleOK, SetOK, LinkOK
<1> QED BY <1>1, <1>3, <1>6, <1>7 DEF AlarmInv

(* MarkSet sets one alarm of a list that has none set.                     *)
LEMMA MarkSetStep == ASSUME ProcInv, AlarmInv, MarkSet PROVE AlarmInv'
<1>1. PICK k : /\ main.pc = "isset" /\ UNCHANGED <<pids, timer, g_next_cycle>>
               /\ main' = [main EXCEPT !.pc = "setitimer"]
               /\ alarms' = [alarms EXCEPT ![k].isset = TRUE]
  BY ZenonT(30) DEF MarkSet, MainAt, Goto
<1>2. /\ pids \in Nat /\ main \in MainStates /\ ListOK(alarms, pids) /\ HasCycle(alarms)
      /\ NoneSet(alarms) /\ ~g_next_cycle /\ alarms \in Seq(AlarmType)
  BY <1>1 DEF ProcInv, StateType, AlarmInv, CycleOK, SetOK, InsertPcs, ListOK
<1>3. \A l \in DOMAIN alarms : alarms[l] \in AlarmType
  BY <1>2, AlarmFields
<1>4. /\ alarms' \in Seq(AlarmType) /\ DOMAIN alarms' = DOMAIN alarms
      /\ \A l \in DOMAIN alarms : /\ Like(alarms'[l], alarms[l])
                                  /\ alarms'[l].isset => l = k
  <2> DEFINE b == [alarms[k] EXCEPT !.isset = TRUE]
  <2>1. k \in DOMAIN alarms => b \in AlarmType /\ Like(b, alarms[k])
    BY <1>3, SetReset, Zenon
  <2>2. alarms' = [alarms EXCEPT ![k] = b]
    BY <1>1
  <2>3. \A l \in DOMAIN alarms : Like(alarms[l], alarms[l]) /\ ~alarms[l].isset
    BY <1>2 DEF Like, NoneSet
  <2> HIDE DEF b
  <2>4. /\ DOMAIN alarms' = DOMAIN alarms
        /\ \A l \in DOMAIN alarms : alarms'[l] = IF l = k THEN b ELSE alarms[l]
    BY <2>2, Zenon
  <2>5. alarms' \in Seq(AlarmType)
    <3>1. alarms' = [l \in DOMAIN alarms |-> alarms'[l]] /\ DOMAIN alarms = 1 .. Len(alarms)
      BY <1>2, <2>2, AlarmFields, Zenon
    <3>2. Len(alarms) \in Nat /\ \A l \in DOMAIN alarms : alarms'[l] \in AlarmType
      BY <1>2, <1>3, <2>1, <2>4, AlarmFields, SMTT(30)
    <3> QED BY <3>1, <3>2, SMTT(30)
  <2> QED BY <2>1, <2>3, <2>4, <2>5
<1>5. \A l \in DOMAIN alarms : l + 0 = l
  BY <1>2, AlarmFields
<1>6. ListOK(alarms', pids)
  BY <1>2, <1>4, <1>5, ShiftOK, SMTT(30)
<1>7. OneSet(alarms') /\ HasCycle(alarms')
  BY <1>2, <1>4 DEF OneSet, HasCycle, Like
<1>8. main' \in MainStates /\ main'.pc = "setitimer"
  BY <1>1, <1>2 DEF MainStates, Pcs
<1>9. CycleOK' /\ SetOK' /\ LinkOK'
  BY <1>1, <1>2, <1>7, <1>8, SMTT(30) DEF CycleOK, SetOK, LinkOK, InsertPcs
<1> QED BY <1>1, <1>6, <1>8, <1>9 DEF AlarmInv

(* The SIGCHLD handler marks the alarms of a section as removed.           *)
LEMMA ReapList == ASSUME ProcInv, AlarmInv, NEW p \in procs, Reap(p) PROVE AlarmInv'
<1>1. /\ UNCHANGED <<pids, timer, g_next_cycle, main>>
      /\ alarms' = alarms \/ \E e \in 1 .. N : alarms' = RemoveAlarms(e)
  <2> DEFINE known == \E s \in 1 .. N : sect[s].pid = p.pid
             e == IF known THEN CHOOSE s \in 1 .. N : sect[s].pid = p.pid ELSE NULL
  <2>1. /\ UNCHANGED <<pids, timer, g_next_cycle, main>>
        /\ \/ e = NULL /\ alarms' = alarms
           \/ e # NULL /\ alarms' = RemoveAlarms(e)
    BY DEF Reap
  <2>2. e # NULL => e \in 1 .. N
    OBVIOUS
  <2> HIDE DEF e
  <2> QED BY <2>1, <2>2
<1>2. MainMoves /\ timer' \in Int
  BY <1>1 DEF AlarmInv, MainMoves
<1>3. CASE alarms' = alarms
  BY <1>1, <1>2, <1>3, IdleStep
<1>4. CASE \E e \in 1 .. N : alarms' = RemoveAlarms(e)
  <2>1. PICK e \in 1 .. N : alarms' = RemoveAlarms(e)
    BY <1>4, SMTT(30)
  <2>2. /\ pids \in Nat /\ ListOK(alarms, pids) /\ OneSet(alarms) /\ alarms \in Seq(AlarmType)
    BY DEF ProcInv, StateType, AlarmInv, SetOK, ListOK
  <2>3. \A l \in DOMAIN alarms : alarms[l] \in AlarmType /\ OwnedBy(alarms[l], pids) /\ l + 0 = l
    BY <2>2, AlarmFields DEF ListOK
  <2>4. \A l \in DOMAIN alarms : /\ alarms[l].kind = "NEWCL" => alarms[l].section # e
    BY <2>3 DEF OwnedBy, NULL
  <2> DEFINE rem(l) == [alarms[l] EXCEPT !.removed = TRUE]
  <2>5. \A l \in DOMAIN alarms : /\ rem(l) \in AlarmType /\ rem(l).isset = alarms[l].isset
                                 /\ alarms[l].kind # "NEWCL" => Like(rem(l), alarms[l])
    <3>1. \A b \in AlarmType : /\ [b EXCEPT !.removed = TRUE] \in AlarmType
                               /\ [b EXCEPT !.removed = TRUE].isset = b.isset
                               /\ b.kind # "NEWCL" => Like([b EXCEPT !.removed = TRUE], b)
      BY ZenonT(30) DEF AlarmType, Like
    <3> QED BY <2>3, <3>1, Zenon
  <2>6. alarms' = [l \in DOMAIN alarms |-> IF alarms[l].section = e /\ ~alarms[l].isset
                                           THEN rem(l) ELSE alarms[l]]
    BY <2>1, SMTT(30) DEF RemoveAlarms
  <2> HIDE DEF rem
  <2>7. \A l \in DOMAIN alarms : /\ alarms'[l] \in AlarmType /\ alarms'[l].isset = alarms[l].isset
                                 /\ Like(alarms'[l], alarms[l])
    BY <2>3, <2>4, <2>5, <2>6 DEF Like
  <2>8. alarms' \in Seq(AlarmType) /\ DOMAIN alarms' = DOMAIN alarms
    <3>1. DOMAIN alarms' = DOMAIN alarms /\ alarms' = [l \in 1 .. Len(alarms) |-> alarms'[l]]
      BY <2>2, <2>6, AlarmFields, Zenon
    <3>2. Len(alarms) \in Nat /\ \A l \in 1 .. Len(alarms) : alarms'[l] \in AlarmType
      BY <2>2, <2>7, AlarmFields, SMTT(30)
    <3> QED BY <3>1, <3>2, SMTT(30)
  <2>9. ListOK(alarms', pids)
    BY <2>2, <2>3, <2>7, <2>8, ShiftOK, SMTT(30)
  <2>10. /\ OneSet(alarms') /\ (NoneSet(alarms) => NoneSet(alarms'))
         /\ HasCycle(alarms) <=> HasCycle(alarms')
         /\ \A k \in DOMAIN alarms : \E m \in DOMAIN alarms' : Like(alarms'[m], alarms[k])
    BY <2>2, <2>7, <2>8, SMTT(30) DEF OneSet, NoneSet, HasCycle, Like
  <2> QED BY <1>1, <1>2, <2>9, <2>10, ListStep
<1> QED BY <1>1, <1>3, <1>4

(* The SIGALRM handler announces the cycle, or passes the timer on.        *)
LEMMA SigAlrmList == ASSUME ProcInv, AlarmInv, NEW late \in BOOLEAN, SigAlrm(late) PROVE AlarmInv'
<1> DEFINE a == alarms[1]
           tl == Tail(alarms)
           rest == SkipRemoved(tl)
<1>0. /\ pids \in Nat /\ ListOK(alarms, pids) /\ OneSet(alarms) /\ alarms \in Seq(AlarmType)
      /\ timer \in Int /\ Never \in Int /\ main \in MainStates
  BY DEF ProcInv, StateType, AlarmInv, SetOK, ListOK, Never
<1>1. CASE UNCHANGED <<alarms, timer, g_next_cycle, pids, main>>
  <2>1. MainMoves
    BY <1>0, <1>1, SMTT(30) DEF MainMoves
  <2> QED BY <1>0, <1>1, <2>1, IdleStep, SMTT(30)
<1>2. ASSUME alarms # <<>>, a.isset, UNCHANGED <<pids, main>>,
             g_next_cycle' = (g_next_cycle \/ a.kind = "NEWCL"),
             \/ /\ a.kind = "NEWCL" /\ alarms' = tl /\ timer' = (IF late THEN Never ELSE timer)
             \/ /\ a.kind # "NEWCL"
                /\ alarms' = [i \in DOMAIN rest |->
                                IF i = 1 THEN [rest[i] EXCEPT !.isset = TRUE] ELSE rest[i]]
                /\ timer' = (IF rest # <<>> THEN rest[1].exptime
                             ELSE IF late THEN Never ELSE timer)
      PROVE  AlarmInv'
  <2>1. /\ tl \in Seq(AlarmType) /\ 1 \in DOMAIN alarms
        /\ \A k \in DOMAIN tl : k \in Nat /\ k + 1 \in DOMAIN alarms /\ tl[k] = alarms[k + 1] /\ k + 1 # 1
        /\ \A k \in DOMAIN alarms : k # 1 => k - 1 \in DOMAIN tl /\ tl[k - 1] = alarms[k]
    <3>1. Len(alarms) \in Nat \ {0} /\ DOMAIN alarms = 1 .. Len(alarms)
      BY <1>0, <1>2, AlarmFields
    <3>2. /\ tl \in Seq(AlarmType) /\ Len(tl) = Len(alarms) - 1
          /\ \A k \in 1 .. Len(alarms) - 1 : tl[k] = alarms[k + 1]
      BY <1>0, <1>2, <3>1
    <3> HIDE DEF tl
    <3>3. DOMAIN tl = 1 .. Len(alarms) - 1
      BY <3>2, AlarmFields
    <3>4. \A k \in 1 .. Len(alarms) : k # 1 => k - 1 \in 1 .. Len(alarms) - 1 /\ (k - 1) + 1 = k
      BY <3>1
    <3>5. \A k \in 1 .. Len(alarms) - 1 : k \in Nat /\ k + 1 \in 1 .. Len(alarms) /\ k + 1 # 1
      BY <3>1
    <3>6. \A k \in 1 .. Len(alarms) : k # 1 => tl[k - 1] = alarms[k]
      BY <3>2, <3>4
    <3>7. 1 \in 1 .. Len(alarms)
      BY <3>1
    <3> QED BY <3>1, <3>2, <3>3, <3>4, <3>5, <3>6, <3>7, Zenon
  <2> HIDE DEF tl
  <2>2. ListOK(tl, pids) /\ NoneSet(tl) /\ OneSet(tl)
    <3>1. ListOK(tl, pids)
      <4>1. \A k \in DOMAIN tl : k + 1 \in DOMAIN alarms /\ Like(tl[k], alarms[k + 1])
        BY <2>1 DEF Like
      <4>2. 1 \in Nat
        OBVIOUS
      <4> QED BY <1>0, <2>1, <4>1, <4>2, ShiftOK, SMTT(30)
    <3>2. \A k \in DOMAIN tl : ~tl[k].isset
      BY <1>0, <1>2, <2>1, ZenonT(30) DEF OneSet
    <3> QED BY <3>1, <3>2 DEF NoneSet, OneSet
  <2>3. main.pc \notin InsertPcs /\ ~g_next_cycle /\ HasCycle(alarms)
    <3>1. ~NoneSet(alarms)
      BY <1>2, <2>1 DEF NoneSet
    <3> QED BY <3>1 DEF AlarmInv, SetOK, CycleOK, InsertPcs
  <2>4. CASE a.kind = "NEWCL"
    <3>1. alarms' = tl /\ timer' \in Int /\ g_next_cycle'
      BY <1>0, <1>2, <2>4, ZenonT(30)
    <3>2. ~HasCycle(tl)
      <4> SUFFICES ASSUME NEW k \in DOMAIN tl, tl[k].kind = "NEWCL" PROVE FALSE
        BY DEF HasCycle
      <4>1. \A m \in DOMAIN alarms : alarms[m].kind = "NEWCL" => Id(alarms[m]) = <<"NEWCL", 0>>
        BY <1>0 DEF ListOK, OwnedBy, Id
      <4>2. k + 1 \in DOMAIN alarms /\ k + 1 # 1 /\ Id(alarms[k + 1]) = Id(alarms[1])
        BY <2>1, <2>4, <4>1, ZenonT(30)
      <4> QED BY <1>0, <2>1, <4>2, SMTT(30) DEF ListOK, Unique
    <3>3. CycleOK' /\ SetOK' /\ LinkOK'
      BY <1>2, <2>2, <2>3, <3>1, <3>2, SMTT(30) DEF CycleOK, SetOK, LinkOK, InsertPcs
    <3> QED BY <1>0, <1>2, <2>2, <3>1, <3>3, SMTT(30) DEF AlarmInv
  <2>5. CASE a.kind # "NEWCL"
    <3>1. HasCycle(tl)
      <4>1. PICK k \in DOMAIN alarms : alarms[k].kind = "NEWCL"
        BY <2>3, SMTT(30) DEF HasCycle
      <4> QED BY <2>1, <2>5, <4>1, SMTT(30) DEF HasCycle
    <3>2. ListOK(rest, pids) /\ NoneSet(rest) /\ HasCycle(rest) /\ rest \in Seq(AlarmType)
      BY <1>0, <2>2, <3>1, SkipOK, ZenonT(30) DEF HasCycle, ListOK
    <3>3. /\ alarms' = [i \in DOMAIN rest |->
                          IF i = 1 THEN [rest[i] EXCEPT !.isset = TRUE] ELSE rest[i]]
          /\ timer' = (IF rest # <<>> THEN rest[1].exptime ELSE IF late THEN Never ELSE timer)
      BY <1>2, <2>5, SMTT(30)
    <3> HIDE DEF rest
    <3>4. /\ DOMAIN rest = 1 .. Len(rest) /\ Len(rest) \in Nat
          /\ \A k \in DOMAIN rest : rest[k] \in AlarmType /\ k + 0 = k
          /\ rest # <<>> => 1 \in DOMAIN rest
      BY <3>2, AlarmFields
    <3>5. timer' \in Int
      BY <1>0, <3>3, <3>4, AlarmFields
    <3>6. \A k \in DOMAIN rest : /\ alarms'[k] \in AlarmType /\ Like(alarms'[k], rest[k])
                                 /\ alarms'[k].isset => k = 1
      <4>1. \A k \in DOMAIN rest : Like(rest[k], rest[k]) /\ ~rest[k].isset
        BY <3>2 DEF Like, NoneSet
      <4>2. \A k \in DOMAIN rest : alarms'[k] = IF k = 1 THEN [rest[k] EXCEPT !.isset = TRUE] ELSE rest[k]
        BY <3>3, Zenon
      <4> QED BY <3>4, <4>1, <4>2, SetReset, Zenon
    <3>7. alarms' \in Seq(AlarmType) /\ DOMAIN alarms' = DOMAIN rest
      <4>1. DOMAIN alarms' = DOMAIN rest /\ alarms' = [k \in 1 .. Len(rest) |-> alarms'[k]]
        BY <3>3, <3>4, Zenon
      <4> QED BY <3>4, <3>6, <4>1, SMTT(30)
    <3>8. ListOK(alarms', pids) /\ OneSet(alarms') /\ HasCycle(alarms')
      <4>1. ListOK(alarms', pids)
        BY <1>0, <3>2, <3>4, <3>6, <3>7, ShiftOK, ZenonT(30)
      <4>2. OneSet(alarms')
        BY <3>6, <3>7 DEF OneSet
      <4>3. HasCycle(alarms')
        BY <3>2, <3>6, <3>7 DEF HasCycle, Like
      <4> QED BY <4>1, <4>2, <4>3, SMTT(30)
    <3>9. ~g_next_cycle' /\ CycleOK' /\ SetOK' /\ LinkOK'
      BY <1>2, <2>3, <2>5, <3>8, ZenonT(30) DEF CycleOK, SetOK, LinkOK, InsertPcs
    <3> QED BY <1>0, <1>2, <3>5, <3>8, <3>9, SMTT(30) DEF AlarmInv
  <2> QED BY <2>4, <2>5, SMTT(30)
<1>3. UNCHANGED <<pids, main>>
  BY DEF SigAlrm
<1>4. CASE alarms = <<>> \/ ~alarms[1].isset
  <2>1. UNCHANGED <<alarms, timer, g_next_cycle>>
    BY <1>4, Zenon DEF SigAlrm
  <2> QED BY <1>1, <1>3, <2>1
<1>5. CASE ~(alarms = <<>> \/ ~alarms[1].isset)
  <2>1. /\ g_next_cycle' = (g_next_cycle \/ a.kind = "NEWCL")
        /\ \/ /\ a.kind = "NEWCL" /\ alarms' = tl /\ timer' = (IF late THEN Never ELSE timer)
           \/ /\ a.kind # "NEWCL"
              /\ alarms' = [i \in DOMAIN rest |->
                              IF i = 1 THEN [rest[i] EXCEPT !.isset = TRUE] ELSE rest[i]]
              /\ timer' = (IF rest # <<>> THEN rest[1].exptime
                           ELSE IF late THEN Never ELSE timer)
    BY <1>5, Zenon DEF SigAlrm
  <2> QED BY <1>2, <1>3, <1>5, <2>1, Zenon
<1> QED BY <1>4, <1>5

(* Every step of the main loop keeps AlarmInv.                             *)
LEMMA MainList == ASSUME ProcInv, AlarmInv, MainLoop PROVE AlarmInv'
<1>0. /\ main \in MainStates /\ timer \in Int /\ current \in 0 .. N /\ now \in Nat
      /\ main.value \in Int /\ main.i \in 0 .. N + 1
  BY SMTT(30) DEF AlarmInv, ProcInv, StateType, MainStates
<1>1. CASE WaitForCycle \/ FindPlace \/ LinkAlarm \/ ReadHead \/ MarkSet
  BY <1>1, WaitStep, FindStep, LinkStep, HeadStep, MarkSetStep
<1>2. CASE SetTimer
  <2>1. /\ UNCHANGED <<alarms, pids, g_next_cycle>> /\ timer' = main.value
        /\ main.pc = "setitimer" /\ Goto("time")
    BY <1>2 DEF SetTimer, MainAt
  <2>2. MainMoves
    BY <1>0, <2>1, GotoMoves DEF Pcs, InsertPcs
  <2> QED BY <1>0, <2>1, <2>2, IdleStep, SMTT(30)
<1>3. CASE NewCycle
  <2>1. /\ UNCHANGED <<alarms, pids, g_next_cycle, timer>> /\ main.pc = "time"
        /\ Goto("suspend") \/ main' = [main EXCEPT !.pc = "save", !.t = now]
    BY <1>3 DEF NewCycle, MainAt
  <2>2. CASE Goto("suspend")
    <3>1. MainMoves
      BY <1>0, <2>1, <2>2, GotoMoves DEF Pcs, InsertPcs
    <3> QED BY <1>0, <2>1, <3>1, IdleStep
  <2>3. CASE main' = [main EXCEPT !.pc = "save", !.t = now]
    <3>1. main' \in MainStates /\ main'.pc = "save"
      BY <1>0, <2>3, ZenonT(30) DEF MainStates, Pcs
    <3>2. MainMoves
      BY <2>1, <3>1 DEF MainMoves, InsertPcs
    <3> QED BY <1>0, <2>1, <3>2, IdleStep
  <2> QED BY <2>1, <2>2, <2>3
<1>4. CASE SaveParams
  <2>1. /\ UNCHANGED <<alarms, pids, g_next_cycle, timer>> /\ main.pc = "save"
        /\ main' = [main EXCEPT !.pc = "mark", !.i = 1]
    BY <1>4 DEF SaveParams, MainAt
  <2>2. main' \in MainStates /\ main'.pc = "mark"
    <3>1. 1 \in 0 .. N + 1
      BY SectionCount
    <3> QED BY <1>0, <2>1, <3>1, ZenonT(30) DEF MainStates, Pcs
  <2>3. MainMoves
    BY <2>1, <2>2 DEF MainMoves, InsertPcs
  <2> QED BY <1>0, <2>1, <2>3, IdleStep
<1>5. CASE MarkToRun
  <2>1. /\ UNCHANGED <<alarms, pids, g_next_cycle, timer>> /\ main.pc = "mark"
        /\ \/ main.i <= N /\ main' = [main EXCEPT !.i = main.i + 1]
           \/ Goto("run")
    BY <1>5 DEF MarkToRun, MainAt
  <2>2. CASE Goto("run")
    <3>1. MainMoves
      BY <1>0, <2>1, <2>2, GotoMoves DEF Pcs, InsertPcs
    <3> QED BY <1>0, <2>1, <3>1, IdleStep
  <2>3. CASE main.i <= N /\ main' = [main EXCEPT !.i = main.i + 1]
    <3>1. main.i + 1 \in 0 .. N + 1
      BY <1>0, <2>3, SectionCount
    <3>2. main' \in MainStates /\ main'.pc = "mark"
      BY <1>0, <2>1, <2>3, <3>1 DEF MainStates
    <3>3. MainMoves
      BY <2>1, <3>2 DEF MainMoves, InsertPcs
    <3> QED BY <1>0, <2>1, <3>3, IdleStep
  <2> QED BY <2>1, <2>2, <2>3
<1>6. CASE ReviewSection
  <2>1. /\ UNCHANGED <<alarms, pids, g_next_cycle, timer>> /\ main.pc = "run"
        /\ Goto("suspend") \/ main' = [main EXCEPT !.pc = "check", !.s = current]
    BY <1>6 DEF ReviewSection, MainAt
  <2>2. CASE Goto("suspend")
    <3>1. MainMoves
      BY <1>0, <2>1, <2>2, GotoMoves DEF Pcs, InsertPcs
    <3> QED BY <1>0, <2>1, <3>1, IdleStep
  <2>3. CASE main' = [main EXCEPT !.pc = "check", !.s = current]
    <3>1. main' \in MainStates /\ main'.pc = "check"
      BY <1>0, <2>3, ZenonT(30) DEF MainStates, Pcs
    <3>2. MainMoves
      BY <2>1, <3>1, SMTT(30) DEF MainMoves, InsertPcs
    <3> QED BY <1>0, <2>1, <3>2, IdleStep
  <2> QED BY <2>1, <2>2, <2>3
<1>7. CASE CheckSection \/ CheckParallel
  <2>1. /\ UNCHANGED <<alarms, pids, g_next_cycle, timer>> /\ main.pc \in {"check", "launched"}
        /\ \E pc \in {"launch", "advance", "suspend"} : Goto(pc)
    BY <1>7 DEF CheckSection, CheckParallel, MainAt
  <2>2. MainMoves
    BY <1>0, <2>1, GotoMoves DEF Pcs, InsertPcs
  <2> QED BY <1>0, <2>1, <2>2, IdleStep
<1>8. CASE LaunchSection
  <2>1. /\ g_next_cycle' = g_next_cycle /\ main.pc = "launch" /\ Goto("launched")
        /\ \/ UNCHANGED <<alarms, pids, timer>>
           \/ current # NULL /\ Launch(current)
    BY <1>8, SMTT(30) DEF LaunchSection, MainAt
  <2>2. MainMoves
    BY <1>0, <2>1, GotoMoves DEF Pcs, InsertPcs
  <2>3. CASE UNCHANGED <<alarms, pids, timer>>
    BY <1>0, <2>1, <2>2, <2>3, IdleStep, SMTT(30)
  <2>4. CASE current # NULL /\ Launch(current)
    <3>1. current \in 1 .. N
      BY <1>0, <2>4, SMTT(30) DEF NULL
    <3> QED BY <2>1, <2>2, <2>4, <3>1, LaunchList, SMTT(30)
  <2> QED BY <2>1, <2>3, <2>4, SMTT(30)
<1>9. CASE Advance
  <2>1. /\ UNCHANGED <<alarms, pids, g_next_cycle, timer>> /\ main.pc = "advance"
        /\ main' = main \/ Goto("run")
    BY <1>9, SMTT(30) DEF Advance, MainAt
  <2>2. MainMoves
    BY <1>0, <2>1, GotoMoves DEF Pcs, InsertPcs, MainMoves
  <2> QED BY <1>0, <2>1, <2>2, IdleStep, SMTT(30)
<1> QED BY <1>1, <1>2, <1>3, <1>4, <1>5, <1>6, <1>7, <1>8, <1>9, SMTT(30) DEF MainLoop

(* Every step keeps AlarmInv.                                              *)
LEMMA AlarmNext == ASSUME ProcInv, AlarmInv, [Next]_vars PROVE AlarmInv'
<1>0. main \in MainStates /\ timer \in Int /\ current \in 0 .. N
  BY DEF AlarmInv, ProcInv, StateType
<1>1. CASE MainLoop
  BY <1>1, MainList, SMTT(30)
<1>2. CASE ChildHandler
  <2>1. CASE \E p \in procs : Reap(p)
    BY <2>1, ReapList
  <2>2. CASE SigChld \/ SigChldReturns
    <3>1. UNCHANGED <<alarms, pids, g_next_cycle, timer, main>>
      BY <2>2, SMTT(30) DEF SigChld, SigChldReturns
    <3>2. MainMoves
      BY <1>0, <3>1, SMTT(30) DEF MainMoves
    <3> QED BY <1>0, <3>1, <3>2, IdleStep
  <2>3. CASE HandlerRunSections
    <3>1. /\ UNCHANGED <<g_next_cycle, main>>
          /\ \/ UNCHANGED <<alarms, pids, timer>>
             \/ current # NULL /\ Launch(current)
      BY <2>3 DEF HandlerRunSections
    <3>2. MainMoves
      BY <1>0, <3>1 DEF MainMoves
    <3>3. CASE UNCHANGED <<alarms, pids, timer>>
      BY <1>0, <3>1, <3>2, <3>3, IdleStep
    <3>4. CASE current # NULL /\ Launch(current)
      <4>1. current \in 1 .. N
        BY <1>0, <3>4 DEF NULL
      <4> QED BY <3>1, <3>2, <3>4, <4>1, LaunchList, SMTT(30)
    <3> QED BY <3>1, <3>3, <3>4, SMTT(30)
  <2> QED BY <1>2, <2>1, <2>2, <2>3 DEF ChildHandler
<1>3. CASE AlarmHandler
  BY <1>3, SigAlrmList DEF AlarmHandler
<1>4. CASE \/ Expire \/ Tick \/ ClockBack \/ Halted \/ UNCHANGED vars
           \/ \E p \in procs : Exit(p) \/ Stop(p) \/ Continue(p)
  <2>1. /\ UNCHANGED <<alarms, pids, g_next_cycle, main>>
        /\ timer' = timer \/ timer' = Never \/ timer' = timer - 1
    BY <1>4, SMTT(30) DEF Expire, Tick, ClockBack, Halted, vars, Exit, Stop, Continue, ChildChanges
  <2>2. MainMoves /\ timer' \in Int
    BY <1>0, <2>1, SMTT(30) DEF MainMoves, Never
  <2> QED BY <2>1, <2>2, IdleStep
<1> QED BY <1>1, <1>2, <1>3, <1>4 DEF Next

(* Every initial state satisfies AlarmInv.                                 *)
LEMMA AlarmInit == ASSUME Init PROVE AlarmInv
<1> DEFINE a == NewCycleAlarm(now)
           b == [a EXCEPT !.isset = TRUE]
<1>1. now \in Nat /\ Period \in Nat
  BY PeriodAssumption DEF Init
<1>2. /\ a \in AlarmType /\ ~a.isset /\ ~a.removed /\ a.kind = "NEWCL" /\ a.run = 0
      /\ a.section = NULL
  BY <1>1, CycleAlarm
<1>3. b \in AlarmType /\ Like(b, a)
  BY <1>2, SetReset, Zenon
<1>4. /\ alarms = <<b>> /\ pids = 0 /\ timer = 2 * Period /\ ~g_next_cycle
      /\ main = [pc |-> "suspend", t |-> 0, i |-> 0, s |-> NULL, new |-> a,
                 at |-> NoAlarm, next |-> NoAlarm, value |-> Never]
  BY DEF Init
<1> HIDE DEF a, b
<1>5. main \in MainStates /\ main.pc = "suspend"
  <2>1. "suspend" \in Pcs /\ NULL \in 0 .. N /\ NoAlarm \in Ids /\ Never \in Int /\ 0 \in 0 .. N + 1
    BY SectionCount DEF Pcs, NULL, NoAlarm, Ids, Never
  <2> QED BY <1>2, <1>4, <2>1, SMTT(30) DEF MainStates
<1>6. /\ alarms \in Seq(AlarmType) /\ DOMAIN alarms = {1} /\ alarms[1] = b
  BY <1>3, <1>4, SMTT(30)
<1>7. ListOK(alarms, pids)
  BY <1>2, <1>3, <1>6, SMTT(30) DEF ListOK, Sorted, Unique, OwnedBy, Like
<1>8. CycleOK /\ SetOK /\ LinkOK
  BY <1>2, <1>3, <1>4, <1>5, <1>6, SMTT(30) DEF CycleOK, SetOK, LinkOK, HasCycle, OneSet, Like, InsertPcs
<1> QED BY <1>1, <1>4, <1>5, <1>7, <1>8, SMTT(30) DEF AlarmInv

(* AlarmInv is an invariant.                                               *)
LEMMA AlarmAlways == Spec => []AlarmInv
<1>1. Init => AlarmInv
  BY AlarmInit
<1>2. ProcInv /\ AlarmInv /\ [Next]_vars => AlarmInv'
  BY AlarmNext
<1> QED BY <1>1, <1>2, ProcAlways, PTL DEF Spec

(* The variables neither invariant speaks of.                              *)
FlagType == /\ sigalrm \in BOOLEAN /\ g_next_cycle \in BOOLEAN /\ last_cycle \in Nat
            /\ handler \in {"none", "reap", "run"}
            /\ fault \in {"none", "isset", "null", "child", "alarm", "launch"}
            /\ forkfails \in Nat /\ skews \in Nat

(* What Launch does to the flags.                                          *)
LEMMA LaunchFlags ==
  ASSUME FlagType, NEW s, Launch(s)
  PROVE  /\ sigalrm' \in BOOLEAN /\ forkfails' \in Nat
         /\ fault' = fault \/ fault' = "launch"
<1>1. CASE UNCHANGED <<sigalrm, forkfails>>
  BY <1>1, ZenonT(30) DEF FlagType, Launch
<1>2. CASE \E late \in BOOLEAN : ExpiresIn(late) /\ UNCHANGED <<forkfails, fault>>
  BY <1>2 DEF FlagType, ExpiresIn
<1>3. CASE forkfails' = forkfails + 1 /\ UNCHANGED <<sigalrm, fault>>
  BY <1>3, SMTT(30) DEF FlagType
<1> QED BY <1>1, <1>2, <1>3, Zenon DEF Launch

(* Every step keeps FlagType.                                              *)
LEMMA FlagNext == ASSUME ProcInv, FlagType, [Next]_vars PROVE FlagType'
<1>0. now \in Nat
  BY DEF ProcInv, StateType
<1>1. CASE WaitForCycle \/ FindPlace \/ LinkAlarm \/ MarkSet \/ SetTimer
  BY <1>1, ZenonT(30) DEF FlagType, WaitForCycle, FindPlace, LinkAlarm, MarkSet, SetTimer, bounds
<1>2. CASE ReadHead \/ NewCycle \/ Advance
  BY <1>0, <1>2 DEF FlagType, ReadHead, NewCycle, Advance, bounds
<1>3. CASE SaveParams \/ MarkToRun \/ ReviewSection \/ CheckSection \/ CheckParallel
  BY <1>3 DEF FlagType, SaveParams, MarkToRun, ReviewSection, CheckSection, CheckParallel, bounds
<1>4. CASE LaunchSection
  <2>1. /\ UNCHANGED <<g_next_cycle, last_cycle, handler, skews>>
        /\ \/ fault' = "null" /\ UNCHANGED <<sigalrm, forkfails>>
           \/ Launch(current)
    BY <1>4 DEF LaunchSection
  <2>2. CASE fault' = "null" /\ UNCHANGED <<sigalrm, forkfails>>
    BY <2>1, <2>2, SMTT(30) DEF FlagType
  <2>3. CASE Launch(current)
    BY <2>1, <2>3, LaunchFlags, SMTT(30) DEF FlagType
  <2> QED BY <2>1, <2>2, <2>3, SMTT(30)
<1>5. CASE SigChld \/ SigChldReturns
  BY <1>5 DEF FlagType, SigChld, SigChldReturns, bounds
<1>6. CASE \E p \in procs : Reap(p)
  <2>1. /\ UNCHANGED <<sigalrm, g_next_cycle, last_cycle, forkfails, skews>>
        /\ fault' = fault \/ fault' = "child"
        /\ handler' = handler \/ handler' = "run"
    BY <1>6, SMTT(30) DEF Reap, bounds
  <2> QED BY <2>1 DEF FlagType
<1>7. CASE HandlerRunSections
  <2>1. /\ UNCHANGED <<g_next_cycle, last_cycle, skews>>
        /\ handler' = handler \/ handler' = "reap"
        /\ \/ UNCHANGED <<sigalrm, fault, forkfails>>
           \/ Launch(current)
    BY <1>7 DEF HandlerRunSections
  <2>2. CASE UNCHANGED <<sigalrm, fault, forkfails>>
    BY <2>1, <2>2 DEF FlagType
  <2>3. CASE Launch(current)
    BY <2>1, <2>3, LaunchFlags DEF FlagType
  <2> QED BY <2>1, <2>2, <2>3, SMTT(30)
<1>8. CASE AlarmHandler
  <2>1. PICK late \in BOOLEAN : SigAlrm(late)
    BY <1>8 DEF AlarmHandler
  <2>2. /\ UNCHANGED <<last_cycle, handler, forkfails, skews>> /\ sigalrm' = late
        /\ fault' = fault \/ fault' \in {"alarm", "isset"}
        /\ g_next_cycle' = g_next_cycle \/ g_next_cycle' = (g_next_cycle \/ alarms[1].kind = "NEWCL")
    BY <2>1, Zenon DEF SigAlrm, bounds
  <2> QED BY <2>2, ZenonT(30) DEF FlagType
<1>9. CASE \/ Expire \/ Tick \/ ClockBack \/ Halted \/ UNCHANGED vars
           \/ \E p \in procs : Exit(p) \/ Stop(p) \/ Continue(p)
  <2>1. /\ UNCHANGED <<g_next_cycle, last_cycle, handler, fault, forkfails>>
        /\ sigalrm' = sigalrm \/ sigalrm' = TRUE
        /\ skews' = skews \/ skews' = skews + 1
    BY <1>9 DEF Expire, Tick, ClockBack, Halted, vars, Exit, Stop, Continue, ChildChanges, bounds
  <2>2. sigalrm' \in BOOLEAN
    BY <2>1, Zenon DEF FlagType
  <2>3. skews' \in Nat
    BY <2>1 DEF FlagType
  <2> QED BY <2>1, <2>2, <2>3, Zenon DEF FlagType
<1> QED BY <1>1, <1>2, <1>3, <1>4, <1>5, <1>6, <1>7, <1>8, <1>9
        DEF Next, MainLoop, ChildHandler

(* FlagType is an invariant.                                               *)
LEMMA FlagAlways == Spec => []FlagType
<1>1. Init => FlagType
  <2> SUFFICES ASSUME Init PROVE FlagType
    OBVIOUS
  <2>1. /\ sigalrm = FALSE /\ g_next_cycle = FALSE /\ last_cycle = 0
        /\ handler = "none" /\ fault = "none" /\ forkfails = 0 /\ skews = 0
    BY Zenon DEF Init
  <2>2. last_cycle \in Nat /\ forkfails \in Nat /\ skews \in Nat
    BY <2>1, SMTT(30)
  <2> QED BY <2>1, <2>2, Zenon DEF FlagType
<1>2. ProcInv /\ FlagType /\ [Next]_vars => FlagType'
  BY FlagNext
<1> QED BY <1>1, <1>2, ProcAlways, PTL DEF Spec

(* Every variable of the execute sections keeps its type, in every         *)
(* interleaving of the main loop and the two signal handlers.              *)
THEOREM TypeCorrect == Spec => []TypeOK
<1>1. ProcInv /\ AlarmInv /\ FlagType => TypeOK
  BY DEF ProcInv, StateType, SectStates, ProcStates, AlarmInv, ListOK, MainStates, Pcs,
         FlagType, TypeOK
<1> QED BY <1>1, ProcAlways, AlarmAlways, FlagAlways, PTL

(* The list of alarms stays sorted, although SIGCHLD and SIGALRM may run   *)
(* in the middle of the InsertAlarm of WaitForCycle: whatever they insert  *)
(* or remove, the neighbours it has found stay on the list and in order.   *)
THEOREM AlarmsStaySorted == Spec => []AlarmsSorted
<1>1. AlarmInv => AlarmsSorted
  BY DEF AlarmInv, ListOK, Sorted, AlarmsSorted
<1> QED BY <1>1, AlarmAlways, PTL

(* The alarm of the next cycle is on the list exactly once and not removed *)
(* from the moment LinkAlarm puts it there to the moment it fires.         *)
THEOREM CycleAlarmPending == Spec => []OneCycleAlarm
<1>1. ASSUME AlarmInv PROVE OneCycleAlarm
  <2> DEFINE pending == {i \in DOMAIN alarms : alarms[i].kind = "NEWCL"}
  <2>1. /\ \A i, j \in DOMAIN alarms : Id(alarms[i]) = Id(alarms[j]) => i = j
        /\ \A i \in pending : ~alarms[i].removed /\ Id(alarms[i]) = <<"NEWCL", 0>>
    BY <1>1 DEF AlarmInv, ListOK, Unique, OwnedBy, Id
  <2>2. pending # {} <=> ~(g_next_cycle \/ main.pc \in {"insert", "link"})
    BY <1>1 DEF AlarmInv, CycleOK, HasCycle
  <2>3. ASSUME pending # {} PROVE \E i \in DOMAIN alarms : pending = {i}
    <3>1. PICK i \in pending : TRUE
      BY <2>3
    <3>2. pending = {i}
      BY <2>1
    <3> QED BY <3>2
  <2> QED BY <2>1, <2>2, <2>3 DEF OneCycleAlarm
<1> QED BY <1>1, AlarmAlways, PTL

-----------------------------------------------------------------------------
(* The alarm y, still in force.                                            *)
Same(x, y) == /\ x.kind = y.kind /\ x.section = y.section /\ x.run = y.run
              /\ x.exptime = y.exptime /\ ~x.removed

(* List bl has the alarms of al that are in force.                         *)
Keeps(bl, al) ==
  \A k \in DOMAIN al : ~al[k].removed => \E m \in DOMAIN bl : Same(bl[m], al[k])

Timed(al) == \A k \in DOMAIN al : al[k].exptime >= 0

(* The first alarm of the list is set, and the timer will come for it.     *)
Armed(al, t, pending) ==
  /\ al # <<>> /\ al[1].isset
  /\ pending \/ (t # Never /\ t <= al[1].exptime)

(* A list with one alarm more has all the others.                          *)
LEMMA PartsKeep ==
  ASSUME NEW al \in Seq(AlarmType), NEW a, NEW i \in Nat, NEW j, j = i + 1,
         NEW bl, Parts(bl, al, a, i, j)
  PROVE  Keeps(bl, al)
<1> DEFINE d == j - i - 2
<1> SUFFICES ASSUME NEW k \in DOMAIN al, ~al[k].removed PROVE \E m \in DOMAIN bl : Same(bl[m], al[k])
  BY SMTT(30) DEF Keeps
<1>1. /\ \A m \in DOMAIN bl : \/ m <= i /\ m \in DOMAIN al /\ bl[m] = al[m]
                              \/ m = i + 1 /\ bl[m] = a
                              \/ m > i + 1 /\ m + d \in DOMAIN al /\ bl[m] = al[m + d]
      /\ \/ k <= i /\ k \in DOMAIN bl
         \/ k > i /\ k < j
         \/ k >= j /\ k - d \in DOMAIN bl
  BY Zenon DEF Parts
<1>2. k \in Int /\ d = -1 /\ ~(k > i /\ k < j)
  BY AlarmFields, SMTT(30)
<1> HIDE DEF d
<1>3. CASE k <= i /\ k \in DOMAIN bl
  <2>1. ~(k = i + 1) /\ ~(k > i + 1)
    BY <1>2, <1>3, SMTT(30)
  <2>2. bl[k] = al[k]
    BY <1>1, <1>3, <2>1, Zenon
  <2> QED BY <1>3, <2>2 DEF Same
<1>4. CASE k >= j /\ k - d \in DOMAIN bl
  <2>1. ~(k - d <= i) /\ ~(k - d = i + 1) /\ (k - d) + d = k
    BY <1>2, <1>4
  <2>2. bl[k - d] = al[k]
    BY <1>1, <1>4, <2>1, Zenon
  <2> QED BY <1>4, <2>2 DEF Same
<1> QED BY <1>1, <1>2, <1>3, <1>4, Zenon

(* InsertAlarm puts an alarm between two of the list, or at an end.        *)
LEMMA PositionRange ==
  ASSUME NEW al \in Seq(AlarmType), NEW a PROVE Position(al, a) \in 1 .. Len(al) + 1
<1> DEFINE S == {i \in 2 .. Len(al) : al[i].exptime > a.exptime}
<1>1. Len(al) \in Nat
  BY AlarmFields
<1>2. S \in SUBSET Nat /\ S \subseteq 1 .. Len(al) + 1 /\ Len(al) + 1 \in 1 .. Len(al) + 1
      /\ 1 \in 1 .. Len(al) + 1
  BY <1>1
<1>3. Position(al, a) = 1 \/ Position(al, a) = First(S, Len(al) + 1)
  BY Zenon DEF Position
<1> HIDE DEF S
<1>4. First(S, Len(al) + 1) \in S \/ First(S, Len(al) + 1) = Len(al) + 1
  <2>1. CASE S = {}
    BY <2>1, Zenon DEF First
  <2>2. CASE S # {}
    BY <1>2, <2>2, FirstPlace
  <2> QED BY <2>1, <2>2
<1> QED BY <1>2, <1>3, <1>4, Zenon

(* InsertAlarm keeps the timer armed and loses no alarm.                   *)
LEMMA InsertKeeps ==
  ASSUME NEW lt \in TimedLists, NEW a \in AlarmType, a.exptime >= 0, ~a.removed,
         NEW pending \in BOOLEAN
  PROVE  LET r == InsertAlarm(lt, a) IN
         /\ r \in TimedLists
         /\ Timed(lt.alarms) => Timed(r.alarms)
         /\ Armed(lt.alarms, lt.timer, pending) => Armed(r.alarms, r.timer, pending)
         /\ Keeps(r.alarms, lt.alarms)
         /\ \E m \in DOMAIN r.alarms : Same(r.alarms[m], a)
<1> DEFINE al == lt.alarms
           p == Position(al, a)
           r == InsertAlarm(lt, a)
           bl == r.alarms
<1>0. /\ al \in Seq(AlarmType) /\ lt.timer \in Int /\ a.exptime \in Int
      /\ lt = [alarms |-> al, timer |-> lt.timer]
  BY AlarmFields, SMTT(30) DEF TimedLists
<1>1. p \in 1 .. Len(al) + 1
  BY <1>0, PositionRange
<1>2. /\ Len(al) \in Nat /\ DOMAIN al = 1 .. Len(al) /\ (al = <<>> <=> Len(al) = 0)
      /\ \A i \in DOMAIN al : al[i] \in AlarmType /\ al[i].exptime \in Int
  BY <1>0, AlarmFields, SMTT(30)
<1>3. r = IF p = 1 /\ al # <<>> /\ al[1].isset
          THEN [alarms |-> <<[a EXCEPT !.isset = TRUE], [al[1] EXCEPT !.isset = FALSE]>> \o Tail(al),
                timer |-> a.exptime]
          ELSE [lt EXCEPT !.alarms = InsertAt(al, p, a)]
  BY Zenon DEF InsertAlarm
<1> HIDE DEF p, al, r
<1>4. \A b \in AlarmType : ~b.removed => Same(b, b)
  BY SMTT(30) DEF Same
<1>5. CASE p = 1 /\ al # <<>> /\ al[1].isset
  <2> DEFINE x == [a EXCEPT !.isset = TRUE]
             y == [al[1] EXCEPT !.isset = FALSE]
  <2>1. 1 \in DOMAIN al /\ al[1] \in AlarmType
    BY <1>0, <1>5, AlarmFields
  <2>2. \A b \in AlarmType : \A s \in BOOLEAN :
           /\ [b EXCEPT !.isset = s] \in AlarmType /\ [b EXCEPT !.isset = s].isset = s
           /\ [b EXCEPT !.isset = s].exptime = b.exptime
           /\ ~b.removed => Same([b EXCEPT !.isset = s], b)
    BY ZenonT(30) DEF AlarmType, Same
  <2>3. /\ x \in AlarmType /\ x.isset /\ x.exptime = a.exptime /\ Same(x, a)
        /\ y \in AlarmType /\ y.exptime = al[1].exptime /\ (~al[1].removed => Same(y, al[1]))
    BY <2>1, <2>2, Zenon
  <2>4. r = [alarms |-> <<x, y>> \o Tail(al), timer |-> a.exptime]
    BY <1>3, <1>5, Zenon
  <2> HIDE DEF x, y
  <2>5. bl = <<x, y>> \o Tail(al) /\ r.timer = a.exptime
    BY <2>4, Zenon
  <2> HIDE DEF bl
  <2>6. /\ bl \in Seq(AlarmType) /\ DOMAIN bl = 1 .. Len(al) + 1
        /\ bl[1] = x /\ bl[2] = y
        /\ \A k \in 3 .. Len(al) + 1 : k - 1 \in 1 .. Len(al) /\ k - 1 # 1 /\ bl[k] = al[k - 1]
    <3>1. al # <<>> /\ x \in AlarmType /\ y \in AlarmType
      BY <1>5, <2>3
    <3> QED BY <1>0, <2>5, <3>1, FrontParts, SMTT(30)
  <2>7. /\ \A k \in 1 .. Len(al) + 1 : k = 1 \/ k = 2 \/ k \in 3 .. Len(al) + 1
        /\ \A k \in 1 .. Len(al) : k # 1 => k + 1 \in 3 .. Len(al) + 1 /\ (k + 1) - 1 = k
        /\ 1 \in 1 .. Len(al) + 1 /\ (Len(al) # 0 => 2 \in 1 .. Len(al) + 1)
        /\ \A k \in 3 .. Len(al) + 1 : k \in 1 .. Len(al) + 1
    BY <1>2
  <2>8. Timed(al) => Timed(bl)
    BY <1>2, <2>1, <2>3, <2>6, <2>7, Zenon DEF Timed
  <2>9. Armed(bl, r.timer, pending)
    <3>1. bl # <<>> /\ a.exptime # Never /\ a.exptime <= a.exptime
      BY <1>0, <2>6, <2>7, AlarmFields, SMTT(30) DEF Never
    <3> QED BY <2>3, <2>5, <2>6, <3>1, Zenon DEF Armed
  <2>10. Keeps(bl, al)
    <3> SUFFICES ASSUME NEW k \in DOMAIN al, ~al[k].removed PROVE \E m \in DOMAIN bl : Same(bl[m], al[k])
      BY SMTT(30) DEF Keeps
    <3>1. CASE k = 1
      BY <1>2, <1>5, <2>3, <2>6, <2>7, <3>1, Zenon
    <3>2. CASE k # 1
      <4>1. k + 1 \in DOMAIN bl /\ bl[k + 1] = al[k]
        BY <1>2, <2>6, <2>7, <3>2, Zenon
      <4> QED BY <1>2, <1>4, <4>1, Zenon
    <3> QED BY <3>1, <3>2
  <2>11. \E m \in DOMAIN bl : Same(bl[m], a)
    BY <2>3, <2>6, <2>7, Zenon
  <2>12. r \in TimedLists
    BY <1>0, <2>4, <2>5, <2>6, SMTT(30) DEF TimedLists
  <2> QED BY <2>8, <2>9, <2>10, <2>11, <2>12, SMTT(30) DEF bl, al, r
<1>6. CASE ~(p = 1 /\ al # <<>> /\ al[1].isset)
  <2> DEFINE i == p - 1
             j == i + 1
  <2>1. i \in 0 .. Len(al) /\ i \in Nat /\ j = p /\ j \in i + 1 .. Len(al) + 1 /\ j = i + 1
    BY <1>1, <1>2, SMTT(30)
  <2>2. InsertAt(al, p, a) = Spliced(al, a, i, j)
    BY <1>0, <1>1, InsertAtSplice, SMTT(30)
  <2>3. r = [alarms |-> Spliced(al, a, i, j), timer |-> lt.timer]
    BY <1>0, <1>3, <1>6, <2>2, Zenon
  <2>4. bl = Spliced(al, a, i, j) /\ r.timer = lt.timer
    BY <2>3, Zenon
  <2> HIDE DEF bl, i, j
  <2> DEFINE d == j - i - 2
  <2>5. Parts(bl, al, a, i, j)
    BY <1>0, <2>1, <2>4, SplicedParts
  <2>9. /\ bl \in Seq(AlarmType) /\ i + 1 \in DOMAIN bl
        /\ \A k \in DOMAIN bl : \/ k <= i /\ k \in DOMAIN al /\ bl[k] = al[k]
                                \/ k = i + 1 /\ bl[k] = a
                                \/ k > i + 1 /\ k + d \in DOMAIN al /\ bl[k] = al[k + d]
    BY <2>5, Zenon DEF Parts
  <2>6. \A k \in DOMAIN bl : bl[k] = a \/ \E l \in DOMAIN al : bl[k] = al[l]
    BY <2>9, Zenon
  <2>7. Timed(al) => Timed(bl)
    BY <2>6, Zenon DEF Timed
  <2>8. bl[i + 1] = a
    <3>1. ~(i + 1 <= i) /\ ~(i + 1 > i + 1)
      BY <2>1
    <3> QED BY <2>9, <3>1, Zenon
  <2>10. Keeps(bl, al)
    BY <1>0, <2>1, <2>5, PartsKeep
  <2>11. \E m \in DOMAIN bl : Same(bl[m], a)
    BY <1>4, <2>9, <2>8, Zenon
  <2>12. ASSUME Armed(al, lt.timer, pending) PROVE Armed(bl, r.timer, pending)
    <3>1. al # <<>> /\ al[1].isset /\ p # 1
      BY <1>6, <2>12, Zenon DEF Armed
    <3>2. 1 \in DOMAIN al /\ 1 <= i /\ ~(1 = i + 1) /\ ~(1 > i + 1)
      BY <1>1, <1>2, <2>1, <3>1
    <3>3. 1 \in DOMAIN bl /\ bl # <<>>
      <4>1. Len(bl) \in Nat /\ DOMAIN bl = 1 .. Len(bl) /\ (bl = <<>> <=> Len(bl) = 0)
        BY <2>9, AlarmFields, Zenon
      <4> QED BY <2>1, <2>9, <4>1, SMTT(30)
    <3>4. bl[1] = al[1]
      BY <2>9, <3>2, <3>3, Zenon
    <3> QED BY <2>4, <2>12, <3>3, <3>4, Zenon DEF Armed
  <2>13. r \in TimedLists
    BY <1>0, <2>3, <2>4, <2>9 DEF TimedLists
  <2> QED BY <2>7, <2>10, <2>11, <2>12, <2>13, SMTT(30) DEF bl, al, r
<1> QED BY <1>5, <1>6, Zenon

(* A cycle starts at 0 or later.                                           *)
LEMMA CycleStarts == ASSUME NEW t \in Nat PROVE CycleStart(t) \in Nat
<1> DEFINE q == t \div Period
           m == t % Period
<1>1. Period \in Nat /\ Period > 1
  BY PeriodAssumption
<1>2. q \in Int /\ m \in 0 .. Period - 1 /\ t = Period * q + m
  BY <1>1
<1> HIDE DEF q, m
<1>3. q >= 0
  <2> SUFFICES ASSUME q <= -1 PROVE FALSE
    BY <1>2
  <2>1. Period * q <= -Period
    BY <1>1, <1>2, SMTT(30)
  <2> QED BY <1>1, <1>2, <2>1
<1>4. Period * q >= 0
  BY <1>1, <1>2, <1>3
<1>5. Period * q \in Int
  BY <1>1, <1>2, SMTT(30)
<1>6. t - m \in Nat
  BY <1>2, <1>4, <1>5
<1> QED BY <1>6 DEF CycleStart, m

(* A limit is not negative.                                                *)
LEMMA LimitCounts == ASSUME NEW s \in 1 .. N PROVE Limit(Sections[s].limitstr) \in Nat
<1> DEFINE R == [due : SUBSET Nat, retry : Nat, parallel : BOOLEAN,
                 limitstr : {l \in Int : l > -Period}]
<1>1. Sections \in Seq(R)
  BY SectionsAssumption
<1>2. \A x \in R : x.limitstr \in Int
  BY SMTT(30)
<1> HIDE DEF R
<1>3. Sections[s] \in R
  BY <1>1 DEF N
<1>4. Sections[s].limitstr \in Int
  BY <1>2, <1>3
<1> QED BY <1>4, PeriodAssumption DEF Limit

(* What is kept twice is kept.                                             *)
LEMMA KeepsOn ==
  ASSUME NEW al, NEW bl, NEW cl, Keeps(bl, al), Keeps(cl, bl) PROVE Keeps(cl, al)
<1> SUFFICES ASSUME NEW k \in DOMAIN al, ~al[k].removed PROVE \E m \in DOMAIN cl : Same(cl[m], al[k])
  BY SMTT(30) DEF Keeps
<1>1. PICK l \in DOMAIN bl : Same(bl[l], al[k])
  BY SMTT(30) DEF Keeps
<1>2. PICK m \in DOMAIN cl : Same(cl[m], bl[l])
  BY <1>1 DEF Keeps, Same
<1> QED BY <1>1, <1>2, SMTT(30) DEF Same

(* The SKILL alarm of run n of section s, in force.                        *)
Killer(a, s, n, t) ==
  /\ a.kind = "SKILL" /\ a.section = s /\ a.run = n /\ ~a.removed
  /\ a.exptime = CycleStart(t) + Limit(Sections[s].limitstr)

(* SetAlarm keeps the timer armed, loses no alarm and puts SKILL there.    *)
LEMMA SetAlarmKeeps ==
  ASSUME NEW lt \in TimedLists, NEW s \in 1 .. N, NEW n \in Nat, NEW t \in Nat,
         NEW pending \in BOOLEAN
  PROVE  LET r == SetAlarm(lt, s, n, t) IN
         /\ Timed(lt.alarms) => Timed(r.alarms)
         /\ Armed(lt.alarms, lt.timer, pending) => Armed(r.alarms, r.timer, pending)
         /\ Keeps(r.alarms, lt.alarms)
         /\ Limit(Sections[s].limitstr) # 0 => \E m \in DOMAIN r.alarms : Killer(r.alarms[m], s, n, t)
<1> DEFINE limit == Limit(Sections[s].limitstr)
           end == CycleStart(t) + limit
           term == end - 1
           a == Alarm("STRM", s, n, term)
           b == Alarm("SKILL", s, n, end)
           l1 == InsertAlarm(lt, a)
           l2 == InsertAlarm(l1, b)
           r == SetAlarm(lt, s, n, t)
<1>1. r = IF limit = 0 THEN lt ELSE l2
  BY Zenon DEF SetAlarm
<1>2. CASE limit = 0
  <2>1. Keeps(lt.alarms, lt.alarms)
    BY DEF Keeps, Same
  <2> QED BY <1>1, <1>2, <2>1, Zenon
<1>3. CASE limit # 0
  <2>1. limit \in Nat /\ CycleStart(t) \in Nat /\ s \in 0 .. N
    BY LimitCounts, CycleStarts, SectionCount, SMTT(30)
  <2>2. end \in Int /\ term \in Int /\ end >= 0 /\ term >= 0
    BY <1>3, <2>1
  <2> HIDE DEF end, limit, term
  <2>3. a \in AlarmType /\ ~a.removed /\ a.exptime >= 0
    <3>1. a \in AlarmType /\ ~a.removed /\ a.exptime = term
      BY <2>1, <2>2, AlarmMade, SMTT(30)
    <3> QED BY <2>2, <3>1, Zenon
  <2>4. /\ b \in AlarmType /\ ~b.removed /\ b.kind = "SKILL" /\ b.run = n /\ b.section = s
        /\ b.exptime = end
    BY <2>1, <2>2, AlarmMade, SMTT(30)
  <2>5. b.exptime >= 0
    BY <2>2, <2>4
  <2> HIDE DEF a, b
  <2>7. /\ l1 \in TimedLists
        /\ Timed(lt.alarms) => Timed(l1.alarms)
        /\ Armed(lt.alarms, lt.timer, pending) => Armed(l1.alarms, l1.timer, pending)
        /\ Keeps(l1.alarms, lt.alarms)
    BY <2>3, InsertKeeps, Zenon
  <2> HIDE DEF l1
  <2>8. /\ Timed(l1.alarms) => Timed(l2.alarms)
        /\ Armed(l1.alarms, l1.timer, pending) => Armed(l2.alarms, l2.timer, pending)
        /\ Keeps(l2.alarms, l1.alarms)
        /\ \E m \in DOMAIN l2.alarms : Same(l2.alarms[m], b)
    BY <2>4, <2>5, <2>7, InsertKeeps, Zenon
  <2> HIDE DEF l2
  <2>9. Keeps(l2.alarms, lt.alarms)
    BY <2>7, <2>8, KeepsOn, Zenon
  <2>10. \E m \in DOMAIN l2.alarms : Killer(l2.alarms[m], s, n, t)
    BY <2>4, <2>8, Zenon DEF Same, Killer, end, limit
  <2>11. r = l2
    BY <1>1, <1>3, Zenon
  <2> HIDE DEF r
  <2> QED BY <2>7, <2>8, <2>9, <2>10, <2>11, Zenon DEF r
<1> QED BY <1>2, <1>3, Zenon

(* Launch keeps the timer armed and loses no alarm, and a process it       *)
(* starts has its SKILL on the list.                                       *)
LEMMA LaunchKeeps ==
  ASSUME ProcInv, AlarmInv, FlagType, NEW s \in 1 .. N, Launch(s)
  PROVE  /\ Timed(alarms) => Timed(alarms')
         /\ Armed(alarms, timer, sigalrm) => Armed(alarms', timer', sigalrm')
         /\ Keeps(alarms', alarms)
         /\ \A p \in procs' : \/ p \in procs
                              \/ Limit(Sections[p.section].limitstr) = 0
                              \/ \E m \in DOMAIN alarms' : Killer(alarms'[m], p.section, p.pid, p.start)
<1>1. CASE UNCHANGED <<alarms, timer, sigalrm, procs>>
  <2>1. Keeps(alarms, alarms)
    BY DEF Keeps, Same
  <2> QED BY <1>1, <2>1
<1>2. ASSUME NEW late \in BOOLEAN, ExpiresIn(late),
             procs' = procs \union {[pid |-> pids + 1, section |-> s, state |-> "runs",
                                     killed |-> FALSE, start |-> now]},
             LET lt == SetAlarm([alarms |-> alarms, timer |-> IF late THEN Never ELSE timer],
                                s, pids + 1, now)
             IN  alarms' = lt.alarms /\ timer' = lt.timer
      PROVE  /\ Timed(alarms) => Timed(alarms')
             /\ Armed(alarms, timer, sigalrm) => Armed(alarms', timer', sigalrm')
             /\ Keeps(alarms', alarms)
             /\ \A p \in procs' : \/ p \in procs
                                  \/ Limit(Sections[p.section].limitstr) = 0
                                  \/ \E m \in DOMAIN alarms' :
                                        Killer(alarms'[m], p.section, p.pid, p.start)
  <2> DEFINE tm == IF late THEN Never ELSE timer
             l0 == [alarms |-> alarms, timer |-> tm]
             lt == SetAlarm(l0, s, pids + 1, now)
             q == [pid |-> pids + 1, section |-> s, state |-> "runs", killed |-> FALSE, start |-> now]
  <2>1. alarms' = lt.alarms /\ timer' = lt.timer
    BY <1>2, SMTT(30)
  <2>2. /\ pids + 1 \in Nat /\ now \in Nat /\ tm \in Int /\ alarms \in Seq(AlarmType)
        /\ sigalrm' \in BOOLEAN /\ sigalrm' = (sigalrm \/ late)
    BY <1>2, SMTT(30) DEF ProcInv, StateType, AlarmInv, ListOK, Never, FlagType, ExpiresIn
  <2>3. Armed(alarms, timer, sigalrm) => Armed(alarms, tm, sigalrm')
    BY <2>2, Zenon DEF Armed
  <2> HIDE DEF tm
  <2>4. l0 \in TimedLists /\ l0.alarms = alarms /\ l0.timer = tm
    BY <2>2, SMTT(30) DEF TimedLists
  <2> HIDE DEF l0
  <2>5. /\ Timed(l0.alarms) => Timed(lt.alarms)
        /\ Armed(l0.alarms, l0.timer, sigalrm') => Armed(lt.alarms, lt.timer, sigalrm')
        /\ Keeps(lt.alarms, l0.alarms)
        /\ Limit(Sections[s].limitstr) # 0 =>
              \E m \in DOMAIN lt.alarms : Killer(lt.alarms[m], s, pids + 1, now)
    BY <2>2, <2>4, SetAlarmKeeps, Zenon
  <2> HIDE DEF lt
  <2>6. /\ Timed(alarms) => Timed(alarms')
        /\ Armed(alarms, tm, sigalrm') => Armed(alarms', timer', sigalrm')
        /\ Keeps(alarms', alarms)
        /\ Limit(Sections[s].limitstr) # 0 =>
              \E m \in DOMAIN alarms' : Killer(alarms'[m], s, pids + 1, now)
    BY <2>1, <2>4, <2>5, Zenon
  <2>7. procs' = procs \union {q} /\ q.section = s /\ q.pid = pids + 1 /\ q.start = now
    BY <1>2, Zenon
  <2> HIDE DEF q
  <2> QED BY <2>3, <2>6, <2>7, Zenon
<1> QED BY <1>1, <1>2, Zenon DEF Launch

-----------------------------------------------------------------------------
(* What keeps the timer armed.  SIGCHLD launches nothing while there is    *)
(* one section.  Between ReadHead and SetTimer no handler changes the head *)
(* of the list, other than by the cycle or for a later one.                *)
ArmInv ==
  /\ handler = "run" => current = NULL
  /\ main.new.exptime >= 0 /\ Timed(alarms)
  /\ main.pc = "isset" => /\ alarms # <<>> /\ main.at = Id(alarms[1])
                          /\ main.value = alarms[1].exptime
  /\ main.pc = "setitimer" => g_next_cycle \/ Armed(alarms, main.value, FALSE)
  /\ AlarmsArmed

ArmPcs == {"insert", "link", "arm", "isset", "setitimer"}

(* A step that leaves the list, the timer and WaitForCycle alone.          *)
LEMMA ArmIdle ==
  ASSUME ArmInv, UNCHANGED <<alarms, timer, sigalrm, g_next_cycle>>,
         handler' = "run" => current' = NULL,
         main' = main \/ (main.pc \notin ArmPcs /\ main'.pc \notin ArmPcs /\ main'.new = main.new)
  PROVE  ArmInv'
<1>1. Arming' <=> Arming
  BY Zenon DEF Arming, ArmPcs
<1>2. AlarmsArmed'
  BY <1>1, Zenon DEF ArmInv, AlarmsArmed
<1>3. /\ main'.new.exptime >= 0 /\ Timed(alarms')
      /\ main'.pc = "isset" => /\ alarms' # <<>> /\ main'.at = Id(alarms'[1])
                               /\ main'.value = alarms'[1].exptime
      /\ main'.pc = "setitimer" => g_next_cycle' \/ Armed(alarms', main'.value, FALSE)
  BY Zenon DEF ArmInv, ArmPcs
<1> QED BY <1>2, <1>3, Zenon DEF ArmInv

(* A step into WaitForCycle, or within it up to ReadHead.                  *)
LEMMA ArmWorks ==
  ASSUME ArmInv, UNCHANGED <<handler, current>>, main'.pc \in {"insert", "link", "arm"},
         main'.new.exptime >= 0, Timed(alarms')
  PROVE  ArmInv'
<1>1. Arming'
  BY DEF Arming
<1>2. AlarmsArmed' /\ main'.pc # "isset" /\ main'.pc # "setitimer"
  BY <1>1 DEF AlarmsArmed
<1> QED BY <1>2, Zenon DEF ArmInv

(* WaitForCycle up to ReadHead.                                            *)
LEMMA ArmWait == ASSUME ProcInv, AlarmInv, ArmInv, WaitForCycle \/ FindPlace \/ LinkAlarm PROVE ArmInv'
<1>0. /\ UNCHANGED <<handler, current>> /\ main \in MainStates /\ main.new.exptime >= 0
      /\ Timed(alarms) /\ now \in Nat
  BY DEF WaitForCycle, FindPlace, LinkAlarm, AlarmInv, ArmInv, ProcInv, StateType
<1>1. CASE WaitForCycle
  <2>1. alarms' = alarms /\ main' = [main EXCEPT !.pc = "insert"]
    BY <1>1 DEF WaitForCycle, Goto
  <2>2. main'.pc = "insert" /\ main'.new = main.new
    BY <1>0, <2>1, SMTT(30) DEF MainStates
  <2> QED BY <1>0, <2>1, <2>2, ArmWorks
<1>2. CASE FindPlace
  <2>1. alarms' = alarms /\ main'.pc = "link" /\ main'.new = NewCycleAlarm(now)
    BY <1>0, <1>2, SMTT(30) DEF FindPlace, MainStates
  <2>2. NewCycleAlarm(now).exptime = CycleStart(now) + Period
    BY DEF NewCycleAlarm, Alarm
  <2>3. CycleStart(now) + Period >= 0
    BY <1>0, CycleStarts, PeriodAssumption
  <2>4. main'.new.exptime >= 0
    BY <2>1, <2>2, <2>3, Zenon
  <2> QED BY <1>0, <2>1, <2>4, ArmWorks, Zenon
<1>3. CASE LinkAlarm
  <2>1. main' = [main EXCEPT !.pc = "arm"]
    BY <1>3 DEF LinkAlarm, Goto
  <2>2. main'.pc = "arm" /\ main'.new = main.new
    BY <1>0, <2>1 DEF MainStates
  <2>3. PICK i \in 0 .. Len(alarms) : \E j \in i + 1 .. Len(alarms) + 1 :
               alarms' = Spliced(alarms, main.new, i, j)
    BY <1>3, LinkParts, Zenon
  <2>4. PICK j \in i + 1 .. Len(alarms) + 1 : alarms' = Spliced(alarms, main.new, i, j)
    BY <2>3
  <2>5. alarms \in Seq(AlarmType) /\ main.new \in AlarmType
    BY DEF AlarmInv, ListOK, MainStates
  <2>6. Parts(alarms', alarms, main.new, i, j)
    BY <2>4, <2>5, SplicedParts
  <2>7. Timed(alarms')
    BY <1>0, <2>6, Zenon DEF Timed, Parts
  <2> QED BY <1>0, <2>2, <2>7, ArmWorks, Zenon
<1> QED BY <1>1, <1>2, <1>3

(* ReadHead: the list has the alarm of the cycle at least.                 *)
LEMMA ArmHead == ASSUME ProcInv, AlarmInv, ArmInv, ReadHead PROVE ArmInv'
<1> DEFINE h == alarms'[1]
<1>1. /\ UNCHANGED <<handler, current, g_next_cycle>> /\ alarms' = SkipRemoved(alarms)
      /\ main' = [main EXCEPT !.pc = "isset", !.at = Id(h), !.value = h.exptime]
  BY SMTT(30) DEF ReadHead
<1>2. main \in MainStates /\ alarms \in Seq(AlarmType) /\ Timed(alarms) /\ main.new.exptime >= 0
  BY DEF AlarmInv, ListOK, ArmInv
<1> HIDE DEF h
<1>3. main'.pc = "isset" /\ main'.new = main.new /\ main'.at = Id(h) /\ main'.value = h.exptime
  BY <1>1, <1>2, ZenonT(30) DEF MainStates
<1>4. AlarmInv'
  BY HeadStep, SMTT(30)
<1>5. alarms' # <<>>
  <2>1. HasCycle(alarms')
    BY <1>3, <1>4, SMTT(30) DEF AlarmInv, CycleOK, SetOK, InsertPcs
  <2> QED BY <2>1, SMTT(30) DEF HasCycle
<1>6. Timed(alarms')
  <2>1. PICK c \in 0 .. Len(alarms) :
           /\ DOMAIN SkipRemoved(alarms) = 1 .. Len(alarms) - c
           /\ \A k \in 1 .. Len(alarms) - c :
                 k + c \in DOMAIN alarms /\ SkipRemoved(alarms)[k] = alarms[k + c]
    BY <1>2, SkipFacts, Zenon
  <2> QED BY <1>1, <1>2, <2>1, Zenon DEF Timed
<1>7. Arming' /\ main'.pc # "setitimer"
  BY <1>3, SMTT(30) DEF Arming
<1>8. AlarmsArmed'
  BY <1>7, SMTT(30) DEF AlarmsArmed
<1> QED BY <1>1, <1>2, <1>3, <1>5, <1>6, <1>7, <1>8, Zenon DEF ArmInv, h

(* MarkSet marks the head of the list, which ReadHead has read.            *)
LEMMA ArmMark == ASSUME ProcInv, AlarmInv, ArmInv, MarkSet PROVE ArmInv'
<1>1. /\ main.pc = "isset" /\ UNCHANGED <<handler, current, g_next_cycle>>
      /\ main' = [main EXCEPT !.pc = "setitimer"]
      /\ \E id \in {main.at, Id(alarms[1])} :
            alarms' = [alarms EXCEPT ![Index(alarms, id)].isset = TRUE]
  BY ZenonT(30) DEF MarkSet, MainAt, Goto
<1>2. /\ main \in MainStates /\ alarms \in Seq(AlarmType) /\ Timed(alarms) /\ main.new.exptime >= 0
      /\ alarms # <<>> /\ main.at = Id(alarms[1]) /\ main.value = alarms[1].exptime /\ Unique(alarms)
  BY <1>1, SMTT(30) DEF AlarmInv, ListOK, ArmInv
<1>3. main'.pc = "setitimer" /\ main'.new = main.new /\ main'.value = main.value
  BY <1>1, <1>2, SMTT(30) DEF MainStates
<1>4. 1 \in DOMAIN alarms /\ \A k \in DOMAIN alarms : alarms[k] \in AlarmType
  BY <1>2, AlarmFields, SMTT(30)
<1>5. Index(alarms, Id(alarms[1])) = 1
  <2>1. Index(alarms, Id(alarms[1])) \in DOMAIN alarms
        /\ Id(alarms[Index(alarms, Id(alarms[1]))]) = Id(alarms[1])
    BY <1>2, <1>4, IndexFound, SMTT(30)
  <2> QED BY <1>4, <2>1, <1>2, Zenon DEF Unique
<1> DEFINE b == [alarms[1] EXCEPT !.isset = TRUE]
<1>6. alarms' = [alarms EXCEPT ![1] = b]
  <2>1. alarms' = [alarms EXCEPT ![Index(alarms, Id(alarms[1]))].isset = TRUE]
    BY <1>1, <1>2, Zenon
  <2> QED BY <1>5, <2>1, Zenon
<1>7. b.isset /\ b.exptime = alarms[1].exptime
  <2>1. \A x \in AlarmType : /\ [x EXCEPT !.isset = TRUE].isset
                             /\ [x EXCEPT !.isset = TRUE].exptime = x.exptime
    BY ZenonT(30) DEF AlarmType
  <2> QED BY <1>4, <2>1, Zenon
<1> HIDE DEF b
<1>8. DOMAIN alarms' = DOMAIN alarms /\ \A k \in DOMAIN alarms : alarms'[k] = IF k = 1 THEN b ELSE alarms[k]
  BY <1>6, Zenon
<1>9. alarms' # <<>> /\ alarms'[1] = b
  <2>1. DOMAIN alarms' # {}
    BY <1>4, <1>8, Zenon
  <2>2. DOMAIN << >> = {}
    OBVIOUS
  <2> QED BY <1>4, <1>8, <2>1, <2>2, Zenon
<1>10. Timed(alarms')
  BY <1>2, <1>4, <1>7, <1>8, Zenon DEF Timed
<1>11. Armed(alarms', main'.value, FALSE)
  <2>1. alarms[1].exptime >= 0 /\ alarms[1].exptime \in Int
    BY <1>2, <1>4, AlarmFields, SMTT(30) DEF Timed
  <2>2. alarms[1].exptime # Never /\ alarms[1].exptime <= alarms[1].exptime
    BY <2>1 DEF Never
  <2> QED BY <1>2, <1>3, <1>7, <1>9, <2>2, Zenon DEF Armed
<1>12. Arming' /\ main'.pc # "isset"
  BY <1>3 DEF Arming
<1>13. AlarmsArmed'
  BY <1>12 DEF AlarmsArmed
<1> QED BY <1>1, <1>2, <1>3, <1>10, <1>11, <1>12, <1>13, Zenon DEF ArmInv

(* SetTimer sets the timer for the head of the list.                       *)
LEMMA ArmSet == ASSUME ProcInv, AlarmInv, ArmInv, SetTimer PROVE ArmInv'
<1>1. /\ main.pc = "setitimer" /\ UNCHANGED <<handler, current, g_next_cycle, alarms>>
      /\ main' = [main EXCEPT !.pc = "time"] /\ timer' = main.value
  BY DEF SetTimer, MainAt, Goto
<1>2. main \in MainStates
  BY DEF AlarmInv
<1>3. main'.pc = "time" /\ main'.new = main.new
  BY <1>1, <1>2 DEF MainStates
<1>4. g_next_cycle \/ Armed(alarms, main.value, FALSE)
  BY <1>1, ZenonT(30) DEF ArmInv
<1>5. Arming' \/ Armed(alarms', timer', sigalrm')
  BY <1>1, <1>4, Zenon DEF Armed, Arming
<1>6. AlarmsArmed'
  BY <1>5, Zenon DEF AlarmsArmed, Armed
<1>7. main'.pc # "isset" /\ main'.pc # "setitimer"
  BY <1>3, SMTT(30)
<1> QED BY <1>1, <1>3, <1>6, <1>7, Zenon DEF ArmInv

(* A list with some alarms marked as removed.                              *)
Marked(bl, al) ==
  /\ DOMAIN bl = DOMAIN al /\ (al # <<>> => bl # <<>>)
  /\ \A k \in DOMAIN al : /\ bl[k].isset = al[k].isset /\ bl[k].exptime = al[k].exptime
                          /\ Id(bl[k]) = Id(al[k])

(* The SIGCHLD handler only marks alarms, and moves current on.            *)
LEMMA ReapMarks ==
  ASSUME ProcInv, AlarmInv, NEW p \in procs, Reap(p)
  PROVE  /\ UNCHANGED <<timer, sigalrm, g_next_cycle, main, pids>>
         /\ Marked(alarms', alarms)
         /\ \/ UNCHANGED <<current, handler>>
            \/ \E e \in 1 .. N : current' = GetNext(e)
<1> DEFINE known == \E s \in 1 .. N : sect[s].pid = p.pid
           e == IF known THEN CHOOSE s \in 1 .. N : sect[s].pid = p.pid ELSE NULL
<1>1. /\ UNCHANGED <<timer, sigalrm, g_next_cycle, main, pids>>
      /\ \/ e = NULL /\ UNCHANGED <<alarms, current, handler>>
         \/ /\ e # NULL /\ alarms' = RemoveAlarms(e)
            /\ UNCHANGED <<current, handler>> \/ current' = GetNext(e)
  BY SMTT(30) DEF Reap
<1>2. e # NULL => e \in 1 .. N
  OBVIOUS
<1> HIDE DEF e
<1>3. alarms \in Seq(AlarmType) /\ \A k \in DOMAIN alarms : alarms[k] \in AlarmType
  BY AlarmFields DEF AlarmInv, ListOK
<1>4. CASE alarms' = alarms
  BY <1>1, <1>2, <1>4 DEF Marked
<1>5. CASE alarms' = RemoveAlarms(e)
  <2>1. \A b \in AlarmType : LET x == [b EXCEPT !.removed = TRUE] IN
           x.isset = b.isset /\ x.exptime = b.exptime /\ Id(x) = Id(b)
    BY ZenonT(30) DEF AlarmType, Id
  <2>2. /\ DOMAIN alarms' = DOMAIN alarms
        /\ \A k \in DOMAIN alarms : alarms'[k] = IF alarms[k].section = e /\ ~alarms[k].isset
                                                 THEN [alarms[k] EXCEPT !.removed = TRUE] ELSE alarms[k]
    BY <1>5, Zenon DEF RemoveAlarms
  <2>3. \A k \in DOMAIN alarms : /\ alarms'[k].isset = alarms[k].isset
                                 /\ alarms'[k].exptime = alarms[k].exptime
                                 /\ Id(alarms'[k]) = Id(alarms[k])
    BY <1>3, <2>1, <2>2, Zenon
  <2>4. alarms # <<>> => alarms' # <<>>
    <3>1. alarms # <<>> => DOMAIN alarms # {}
      BY <1>3, AlarmFields
    <3>2. DOMAIN <<>> = {}
      OBVIOUS
    <3> QED BY <2>2, <3>1, <3>2, Zenon
  <2> QED BY <1>1, <1>2, <2>2, <2>3, <2>4, Zenon DEF Marked
<1> QED BY <1>1, <1>4, <1>5, SMTT(30)

(* With one section, the SIGCHLD handler launches nothing.                 *)
LEMMA ArmReap == ASSUME N <= 1, ProcInv, AlarmInv, ArmInv, NEW p \in procs, Reap(p) PROVE ArmInv'
<1>1. /\ UNCHANGED <<timer, sigalrm, g_next_cycle, main>> /\ Marked(alarms', alarms)
      /\ UNCHANGED <<current, handler>> \/ \E e \in 1 .. N : current' = GetNext(e)
  BY ReapMarks, Zenon
<1>2. handler' = "run" => current' = NULL
  <2>1. \A e \in 1 .. N : GetNext(e) = NULL
    BY SectionCount, SMTT(30) DEF GetNext
  <2> QED BY <1>1, <2>1, Zenon DEF ArmInv
<1>3. alarms # <<>> => 1 \in DOMAIN alarms
  BY AlarmFields DEF AlarmInv, ListOK
<1>4. \A t, b : Armed(alarms, t, b) => Armed(alarms', t, b)
  BY <1>1, <1>3, Zenon DEF Armed, Marked
<1>5. Timed(alarms')
  BY <1>1, Zenon DEF ArmInv, Timed, Marked
<1>6. main.pc = "isset" => /\ alarms' # <<>> /\ main.at = Id(alarms'[1])
                           /\ main.value = alarms'[1].exptime
  BY <1>1, <1>3, Zenon DEF ArmInv, Marked
<1>7. AlarmsArmed'
  <2>1. Arming \/ Armed(alarms, timer, sigalrm)
    BY Zenon DEF ArmInv, AlarmsArmed, Armed
  <2>2. Arming' <=> Arming
    BY <1>1 DEF Arming
  <2>3. Arming' \/ Armed(alarms', timer', sigalrm')
    BY <1>1, <1>4, <2>1, <2>2, Zenon
  <2> QED BY <2>3, Zenon DEF AlarmsArmed, Armed
<1> QED BY <1>1, <1>2, <1>4, <1>5, <1>6, <1>7, Zenon DEF ArmInv

(* The main loop launches the section with the timer armed.                *)
LEMMA ArmLaunch ==
  ASSUME ProcInv, AlarmInv, FlagType, ArmInv, LaunchSection PROVE ArmInv'
<1>1. /\ UNCHANGED <<current, g_next_cycle, handler>> /\ handler = "none"
      /\ main.pc = "launch" /\ main' = [main EXCEPT !.pc = "launched"]
      /\ UNCHANGED <<alarms, timer, sigalrm>> \/ (current # NULL /\ Launch(current))
  BY DEF LaunchSection, MainAt, Goto
<1>2. main \in MainStates /\ current \in 0 .. N
  BY DEF AlarmInv, ProcInv, StateType
<1>3. main'.pc = "launched" /\ main'.new = main.new
  BY <1>1, <1>2 DEF MainStates
<1>4. handler' # "run"
  BY <1>1
<1>5. CASE UNCHANGED <<alarms, timer, sigalrm>>
  BY <1>1, <1>3, <1>4, <1>5, ArmIdle DEF ArmPcs
<1>6. CASE current # NULL /\ Launch(current)
  <2>1. current \in 1 .. N
    BY <1>2, <1>6 DEF NULL
  <2>2. /\ Timed(alarms) => Timed(alarms')
        /\ Armed(alarms, timer, sigalrm) => Armed(alarms', timer', sigalrm')
    BY <1>6, <2>1, LaunchKeeps, Zenon
  <2>3. Arming \/ Armed(alarms, timer, sigalrm)
    BY Zenon DEF ArmInv, AlarmsArmed, Armed
  <2>4. Arming' <=> Arming
    BY <1>1, <1>3 DEF Arming
  <2>5. AlarmsArmed'
    <3>1. Arming' \/ Armed(alarms', timer', sigalrm')
      BY <2>2, <2>3, <2>4, SMTT(30)
    <3> QED BY <3>1, Zenon DEF AlarmsArmed, Armed
  <2>6. main'.pc # "isset" /\ main'.pc # "setitimer"
    BY <1>3, SMTT(30)
  <2> QED BY <1>3, <1>4, <2>2, <2>5, <2>6, Zenon DEF ArmInv
<1> QED BY <1>1, <1>5, <1>6

(* What the SIGALRM handler does with the first alarm, which is set: the   *)
(* others that are in force stay, and the timer is passed on to the next   *)
(* one, unless the cycle has come.                                         *)
LEMMA PopParts ==
  ASSUME ProcInv, AlarmInv, NEW late \in BOOLEAN, SigAlrm(late), alarms # <<>>, alarms[1].isset
  PROVE  /\ main.pc \notin InsertPcs
         /\ \A k \in DOMAIN alarms' : \E l \in DOMAIN alarms :
               l # 1 /\ alarms'[k].exptime = alarms[l].exptime
         /\ \A l \in DOMAIN alarms : l # 1 /\ ~alarms[l].removed =>
               \E m \in DOMAIN alarms' : Same(alarms'[m], alarms[l])
         /\ IF alarms[1].kind = "NEWCL" THEN g_next_cycle'
            ELSE alarms' # <<>> /\ alarms'[1].isset /\ timer' = alarms'[1].exptime
<1> DEFINE a == alarms[1]
           tl == Tail(alarms)
           rest == SkipRemoved(tl)
<1>1. /\ g_next_cycle' = (g_next_cycle \/ a.kind = "NEWCL")
      /\ \/ a.kind = "NEWCL" /\ alarms' = tl
         \/ /\ a.kind # "NEWCL"
            /\ alarms' = [i \in DOMAIN rest |->
                            IF i = 1 THEN [rest[i] EXCEPT !.isset = TRUE] ELSE rest[i]]
            /\ rest # <<>> => timer' = rest[1].exptime
  BY ZenonT(30) DEF SigAlrm
<1>2. alarms \in Seq(AlarmType) /\ ~NoneSet(alarms)
  BY AlarmFields DEF AlarmInv, ListOK, NoneSet
<1>3. main.pc \notin InsertPcs /\ ~g_next_cycle
  BY <1>2 DEF AlarmInv, SetOK
<1>4. /\ tl \in Seq(AlarmType) /\ Len(alarms) \in Nat /\ DOMAIN alarms = 1 .. Len(alarms)
      /\ \A k \in DOMAIN tl : k \in Nat /\ k + 1 \in DOMAIN alarms /\ tl[k] = alarms[k + 1] /\ k + 1 # 1
      /\ \A k \in DOMAIN alarms : k # 1 => k - 1 \in DOMAIN tl /\ tl[k - 1] = alarms[k]
  <2>1. Len(alarms) \in Nat \ {0} /\ DOMAIN alarms = 1 .. Len(alarms)
    BY <1>2, AlarmFields
  <2>2. /\ tl \in Seq(AlarmType) /\ Len(tl) = Len(alarms) - 1
        /\ \A k \in 1 .. Len(alarms) - 1 : tl[k] = alarms[k + 1]
    BY <1>2, <2>1
  <2> HIDE DEF tl
  <2>3. DOMAIN tl = 1 .. Len(alarms) - 1
    BY <2>2, AlarmFields, SMTT(30)
  <2>4. \A k \in 1 .. Len(alarms) : k # 1 => k - 1 \in 1 .. Len(alarms) - 1 /\ (k - 1) + 1 = k
    BY <2>1
  <2>5. \A k \in 1 .. Len(alarms) - 1 : k \in Nat /\ k + 1 \in 1 .. Len(alarms) /\ k + 1 # 1
    BY <2>1, SMTT(30)
  <2>6. \A k \in 1 .. Len(alarms) : k # 1 => tl[k - 1] = alarms[k]
    BY <2>2, <2>4
  <2> QED BY <2>1, <2>2, <2>3, <2>4, <2>5, <2>6, Zenon
<1> HIDE DEF tl
<1>5. \A b \in AlarmType : /\ ~b.removed => Same(b, b)
                           /\ [b EXCEPT !.isset = TRUE].isset
                           /\ [b EXCEPT !.isset = TRUE].exptime = b.exptime
                           /\ ~b.removed => Same([b EXCEPT !.isset = TRUE], b)
  BY ZenonT(30) DEF AlarmType, Same
<1>6. \A k \in DOMAIN alarms : alarms[k] \in AlarmType
  BY <1>2, AlarmFields
<1>7. CASE a.kind = "NEWCL"
  <2>1. alarms' = tl /\ g_next_cycle'
    BY <1>1, <1>7, Zenon
  <2>2. \A k \in DOMAIN tl : \E l \in DOMAIN alarms : l # 1 /\ tl[k].exptime = alarms[l].exptime
    BY <1>4, Zenon
  <2>3. \A l \in DOMAIN alarms : l # 1 /\ ~alarms[l].removed =>
           \E m \in DOMAIN tl : Same(tl[m], alarms[l])
    BY <1>4, <1>5, <1>6, Zenon
  <2> QED BY <1>3, <1>7, <2>1, <2>2, <2>3, Zenon
<1>8. CASE a.kind # "NEWCL"
  <2>1. /\ alarms' = [i \in DOMAIN rest |->
                        IF i = 1 THEN [rest[i] EXCEPT !.isset = TRUE] ELSE rest[i]]
        /\ rest # <<>> => timer' = rest[1].exptime
    BY <1>1, <1>8, Zenon
  <2>2. rest \in Seq(AlarmType)
    BY <1>4, SkipFacts, SMTT(30)
  <2>3. PICK c \in 0 .. Len(tl) :
           /\ DOMAIN rest = 1 .. Len(tl) - c
           /\ \A k \in 1 .. Len(tl) - c : k + c \in DOMAIN tl /\ rest[k] = tl[k + c]
           /\ \A k \in 1 .. c : tl[k].removed
    BY <1>4, SkipFacts, Zenon
  <2> HIDE DEF rest
  <2>4. Len(tl) \in Nat /\ DOMAIN tl = 1 .. Len(tl)
    BY <1>4, AlarmFields, SMTT(30)
  <2>5. /\ DOMAIN alarms' = DOMAIN rest
        /\ \A k \in DOMAIN rest : rest[k] \in AlarmType /\ alarms'[k].exptime = rest[k].exptime
        /\ \A k \in DOMAIN rest : ~rest[k].removed => Same(alarms'[k], rest[k])
        /\ 1 \in DOMAIN rest => alarms'[1].isset
    <3>1. \A k \in DOMAIN rest : alarms'[k] = IF k = 1 THEN [rest[k] EXCEPT !.isset = TRUE] ELSE rest[k]
      BY <2>1, Zenon
    <3>2. \A k \in DOMAIN rest : rest[k] \in AlarmType
      BY <2>2, AlarmFields
    <3>3. DOMAIN alarms' = DOMAIN rest
      BY <2>1, Zenon
    <3> QED BY <1>5, <3>1, <3>2, <3>3, Zenon
  <2>6. \A k \in DOMAIN alarms' : \E l \in DOMAIN alarms :
           l # 1 /\ alarms'[k].exptime = alarms[l].exptime
    <3> SUFFICES ASSUME NEW k \in DOMAIN rest
                 PROVE  \E l \in DOMAIN alarms : l # 1 /\ alarms'[k].exptime = alarms[l].exptime
      BY <2>5
    <3>1. k + c \in DOMAIN tl /\ rest[k] = tl[k + c]
      BY <2>3, Zenon
    <3>2. (k + c) + 1 \in DOMAIN alarms /\ tl[k + c] = alarms[(k + c) + 1] /\ (k + c) + 1 # 1
      BY <1>4, <3>1, Zenon
    <3> QED BY <2>5, <3>1, <3>2, Zenon
  <2>7. ASSUME NEW l \in DOMAIN alarms, l # 1, ~alarms[l].removed
        PROVE  \E m \in DOMAIN alarms' : Same(alarms'[m], alarms[l])
    <3>1. l - 1 \in 1 .. Len(tl) /\ tl[l - 1] = alarms[l]
      BY <1>4, <2>4, <2>7, Zenon
    <3>2. ~(l - 1 \in 1 .. c)
      BY <2>3, <2>7, <3>1, Zenon
    <3>3. l - 1 - c \in 1 .. Len(tl) - c /\ (l - 1 - c) + c = l - 1
      BY <1>4, <2>3, <2>4, <3>1, <3>2
    <3>4. rest[l - 1 - c] = alarms[l] /\ l - 1 - c \in DOMAIN rest
      BY <2>3, <3>1, <3>3, Zenon
    <3> QED BY <2>5, <2>7, <3>4, Zenon
  <2>8. alarms' # <<>> /\ 1 \in DOMAIN rest /\ rest # <<>>
    <3>1. PICK l \in DOMAIN alarms : alarms[l].kind = "NEWCL"
      <4>1. HasCycle(alarms)
        BY <1>3, SMTT(30) DEF AlarmInv, CycleOK, InsertPcs
      <4> QED BY <4>1, SMTT(30) DEF HasCycle
    <3>2. l # 1 /\ ~alarms[l].removed
      BY <1>8, <3>1, SMTT(30) DEF AlarmInv, ListOK, OwnedBy
    <3>3. DOMAIN rest # {} /\ DOMAIN alarms' # {}
      BY <2>5, <2>7, <3>2, Zenon
    <3>4. DOMAIN rest = 1 .. Len(rest) /\ Len(rest) \in Nat
      BY <2>2, AlarmFields, SMTT(30)
    <3>5. 1 \in DOMAIN rest
      BY <3>3, <3>4
    <3>6. DOMAIN <<>> = {}
      BY SMTT(30)
    <3> QED BY <3>3, <3>5, <3>6, Zenon
  <2>9. alarms'[1].isset /\ timer' = alarms'[1].exptime
    BY <2>1, <2>5, <2>8, Zenon
  <2> QED BY <1>3, <1>8, <2>6, <2>7, <2>8, <2>9, Zenon
<1> QED BY <1>7, <1>8, SMTT(30)

(* The SIGALRM handler passes the timer on to the next alarm.              *)
LEMMA ArmPop ==
  ASSUME ProcInv, AlarmInv, ArmInv, NEW late \in BOOLEAN, SigAlrm(late) PROVE ArmInv'
<1>1. UNCHANGED <<main, handler, current>>
  BY DEF SigAlrm
<1>2. CASE alarms = <<>> \/ ~alarms[1].isset
  <2>1. UNCHANGED <<alarms, timer, g_next_cycle>>
    BY <1>2, Zenon DEF SigAlrm
  <2>2. Arming
    BY <1>2, SMTT(30) DEF ArmInv, AlarmsArmed
  <2>3. Arming'
    BY <1>1, <2>1, <2>2 DEF Arming
  <2>4. AlarmsArmed'
    BY <2>3, SMTT(30) DEF AlarmsArmed
  <2> QED BY <1>1, <2>1, <2>4, Zenon DEF ArmInv
<1>3. CASE alarms # <<>> /\ alarms[1].isset
  <2>1. main.pc \notin InsertPcs
    BY <1>3, PopParts, Zenon
  <2>2. \A k \in DOMAIN alarms' : \E l \in DOMAIN alarms :
           l # 1 /\ alarms'[k].exptime = alarms[l].exptime
    BY <1>3, PopParts, Zenon
  <2>3. IF alarms[1].kind = "NEWCL" THEN g_next_cycle'
        ELSE alarms' # <<>> /\ alarms'[1].isset /\ timer' = alarms'[1].exptime
    BY <1>3, PopParts, Zenon
  <2>4. Timed(alarms')
    BY <2>2, Zenon DEF ArmInv, Timed
  <2>5. main'.pc # "isset"
    BY <1>1, <2>1, SMTT(30) DEF InsertPcs
  <2>6. CASE alarms[1].kind = "NEWCL"
    <3>1. Arming' /\ g_next_cycle'
      BY <2>3, <2>6, SMTT(30) DEF Arming
    <3>2. AlarmsArmed'
      BY <3>1 DEF AlarmsArmed
    <3> QED BY <1>1, <2>4, <2>5, <3>1, <3>2, Zenon DEF ArmInv
  <2>7. CASE alarms[1].kind # "NEWCL"
    <3>1. AlarmInv'
      BY SigAlrmList
    <3>2. alarms' # <<>> /\ alarms'[1].isset /\ timer' = alarms'[1].exptime
      BY <2>3, <2>7, SMTT(30)
    <3>3. 1 \in DOMAIN alarms' /\ alarms'[1].exptime \in Int
      BY <3>1, <3>2, AlarmFields, SMTT(30) DEF AlarmInv, ListOK
    <3>4. alarms'[1].exptime >= 0
      BY <2>4, <3>3, SMTT(30) DEF Timed
    <3>5. Armed(alarms', timer', sigalrm')
      BY <3>2, <3>3, <3>4 DEF Armed, Never
    <3>6. AlarmsArmed'
      BY <3>5, Zenon DEF AlarmsArmed, Armed
    <3>7. ASSUME main'.pc = "setitimer", ~g_next_cycle PROVE Armed(alarms', main'.value, FALSE)
      <4>1. PICK l \in DOMAIN alarms : l # 1 /\ alarms'[1].exptime = alarms[l].exptime
        BY <2>2, <3>3, SMTT(30)
      <4>2. 1 \in DOMAIN alarms /\ 1 < l /\ alarms[1].exptime \in Int /\ alarms[l].exptime \in Int
        BY <1>3, <4>1, AlarmFields, SMTT(30) DEF AlarmInv, ListOK
      <4>3. alarms[1].exptime <= alarms[l].exptime
        BY <4>1, <4>2, SMTT(30) DEF AlarmInv, ListOK, Sorted
      <4>4. main.value # Never /\ main.value <= alarms[1].exptime /\ main'.value = main.value
        BY <1>1, <3>7, Zenon DEF ArmInv, Armed
      <4>5. main.value \in Int
        BY SMTT(30) DEF AlarmInv, MainStates
      <4>6. main.value <= alarms'[1].exptime
        BY <4>1, <4>2, <4>3, <4>4, <4>5
      <4> QED BY <3>2, <4>4, <4>6, Zenon DEF Armed
    <3>8. g_next_cycle => g_next_cycle'
      BY <1>3, Zenon DEF SigAlrm
    <3> QED BY <1>1, <2>4, <2>5, <3>6, <3>7, <3>8, Zenon DEF ArmInv
  <2> QED BY <2>6, <2>7
<1> QED BY <1>2, <1>3

(* With one section, every step keeps ArmInv.                              *)
LEMMA ArmNext ==
  ASSUME N <= 1, ProcInv, AlarmInv, FlagType, ArmInv, [Next]_vars PROVE ArmInv'
<1>0. main \in MainStates /\ timer \in Int /\ now \in Nat
  BY DEF AlarmInv, ProcInv, StateType
<1>1. CASE WaitForCycle \/ FindPlace \/ LinkAlarm
  BY <1>1, ArmWait
<1>2. CASE ReadHead \/ MarkSet \/ SetTimer \/ LaunchSection
  BY <1>2, ArmHead, ArmMark, ArmSet, ArmLaunch, SMTT(30)
<1>3. CASE \/ NewCycle \/ SaveParams \/ MarkToRun \/ ReviewSection \/ CheckSection
           \/ CheckParallel \/ Advance
  <2>1. /\ UNCHANGED <<alarms, timer, sigalrm, g_next_cycle, handler>> /\ handler = "none"
        /\ main.pc \notin ArmPcs
    BY <1>3 DEF NewCycle, SaveParams, MarkToRun, ReviewSection, CheckSection, CheckParallel,
                Advance, MainAt, ArmPcs
  <2>2. \/ main' = main
        \/ \E pc \in {"suspend", "save", "mark", "run", "check", "launch", "advance"} :
              \/ main' = [main EXCEPT !.pc = pc]
              \/ main' = [main EXCEPT !.pc = pc, !.t = now]
              \/ main' = [main EXCEPT !.pc = pc, !.i = 1]
              \/ main' = [main EXCEPT !.pc = pc, !.s = current]
        \/ main' = [main EXCEPT !.i = main.i + 1]
    BY <1>3, Zenon DEF NewCycle, SaveParams, MarkToRun, ReviewSection, CheckSection, CheckParallel,
                Advance, Goto
  <2>3. \/ main' = main
        \/ main'.pc \notin ArmPcs /\ main'.new = main.new
    BY <1>0, <2>1, <2>2, ZenonT(30) DEF MainStates, ArmPcs
  <2>4. handler' # "run"
    BY <2>1
  <2> QED BY <2>1, <2>3, <2>4, ArmIdle
<1>4. CASE \E p \in procs : Reap(p)
  BY <1>4, ArmReap, SMTT(30)
<1>5. CASE SigChld \/ SigChldReturns
  <2>1. UNCHANGED <<alarms, timer, sigalrm, g_next_cycle, main>> /\ handler' # "run"
    BY <1>5, SMTT(30) DEF SigChld, SigChldReturns
  <2> QED BY <2>1, ArmIdle
<1>6. CASE HandlerRunSections
  <2>1. handler = "run" /\ current = NULL
    BY <1>6, SMTT(30) DEF HandlerRunSections, ArmInv
  <2>2. UNCHANGED <<alarms, timer, sigalrm, g_next_cycle, main>> /\ handler' # "run"
    BY <1>6, <2>1 DEF HandlerRunSections
  <2> QED BY <2>2, ArmIdle
<1>7. CASE AlarmHandler
  BY <1>7, ArmPop, SMTT(30) DEF AlarmHandler
<1>8. CASE Expire
  <2>1. UNCHANGED <<alarms, g_next_cycle, main, handler, current>> /\ sigalrm'
    BY <1>8 DEF Expire
  <2>2. Arming' <=> Arming
    BY <2>1 DEF Arming
  <2>3. AlarmsArmed'
    BY <2>1, <2>2, Zenon DEF ArmInv, AlarmsArmed
  <2> QED BY <2>1, <2>3, Zenon DEF ArmInv
<1>9. CASE ClockBack
  <2>1. /\ UNCHANGED <<alarms, g_next_cycle, main, handler, current, sigalrm>>
        /\ timer' = (IF timer = Never THEN Never ELSE timer - 1)
        /\ now > Period /\ (timer = Never \/ now <= timer)
    BY <1>9, SMTT(30) DEF ClockBack
  <2>2. Arming' <=> Arming
    BY <2>1 DEF Arming
  <2>3. timer # Never => timer' # Never /\ timer' <= timer /\ timer' \in Int
    BY <1>0, <2>1, PeriodAssumption, SMTT(30) DEF Never
  <2>4. ASSUME ~Arming, ~sigalrm PROVE timer' # Never /\ timer' <= alarms'[1].exptime
    <3>1. alarms # <<>> /\ timer # Never /\ timer <= alarms[1].exptime
      BY <2>4, Zenon DEF ArmInv, AlarmsArmed
    <3>2. alarms[1].exptime \in Int
      BY <3>1, AlarmFields DEF AlarmInv, ListOK
    <3> QED BY <1>0, <2>1, <2>3, <3>1, <3>2
  <2>5. AlarmsArmed'
    BY <2>1, <2>2, <2>4, Zenon DEF ArmInv, AlarmsArmed
  <2> QED BY <2>1, <2>5, Zenon DEF ArmInv
<1>10. CASE \/ Tick \/ Halted \/ UNCHANGED vars
            \/ \E p \in procs : Exit(p) \/ Stop(p) \/ Continue(p)
  <2>1. UNCHANGED <<alarms, timer, sigalrm, g_next_cycle, main, handler, current>>
    BY <1>10, SMTT(30) DEF Tick, Halted, vars, Exit, Stop, Continue, ChildChanges
  <2>2. handler' = "run" => current' = NULL
    BY <2>1 DEF ArmInv
  <2> QED BY <2>1, <2>2, ArmIdle
<1> QED BY <1>1, <1>2, <1>3, <1>4, <1>5, <1>6, <1>7, <1>8, <1>9, <1>10
        DEF Next, MainLoop, ChildHandler

(* Every initial state satisfies ArmInv.                                   *)
LEMMA ArmInit == ASSUME Init PROVE ArmInv
<1> DEFINE a == NewCycleAlarm(now)
           b == [a EXCEPT !.isset = TRUE]
<1>1. now \in Period .. 2 * Period - 1 /\ Period \in Nat /\ Period > 1
  BY PeriodAssumption DEF Init
<1>2. a.exptime = CycleStart(now) + Period /\ b.isset /\ b.exptime = a.exptime
  BY DEF NewCycleAlarm, Alarm
<1>3. CycleStart(now) = Period
  BY <1>1 DEF CycleStart
<1>4. a.exptime = 2 * Period
  BY <1>1, <1>2, <1>3
<1>5. /\ alarms = <<b>> /\ timer = 2 * Period /\ ~g_next_cycle /\ handler = "none"
      /\ main.pc = "suspend" /\ main.new = a
  BY DEF Init
<1> HIDE DEF a, b
<1>6. alarms # <<>> /\ alarms[1] = b /\ DOMAIN alarms = {1}
  BY <1>5, SMTT(30)
<1>7. timer # Never /\ timer <= alarms[1].exptime /\ a.exptime >= 0
  BY <1>1, <1>2, <1>4, <1>5, <1>6 DEF Never
<1>8. AlarmsArmed /\ Timed(alarms)
  BY <1>2, <1>6, <1>7, Zenon DEF AlarmsArmed, Timed
<1> QED BY <1>5, <1>7, <1>8 DEF ArmInv

(* ArmInv is an invariant when there is one section.                       *)
LEMMA ArmAlways == N <= 1 => (Spec => []ArmInv)
<1> SUFFICES ASSUME N <= 1 PROVE Spec => []ArmInv
  OBVIOUS
<1>1. Init => ArmInv
  BY ArmInit
<1>2. ProcInv /\ AlarmInv /\ FlagType /\ ArmInv /\ [Next]_vars => ArmInv'
  BY ArmNext
<1> QED BY <1>1, <1>2, ProcAlways, AlarmAlways, FlagAlways, PTL DEF Spec

(* With one section in the configuration, the timer never sleeps through   *)
(* an alarm: outside the arming of WaitForCycle the first alarm of the     *)
(* list is marked as set, and setitimer was called for its time or an      *)
(* earlier one, or SIGALRM is pending (InsertAlarm, NextAlarm and          *)
(* SigAlrmHandler of texecute.cc).  The clock may be set back, but not     *)
(* when the timer is due.                                                  *)
THEOREM TimerArmed == N <= 1 => (Spec => []AlarmsArmed)
<1> SUFFICES ASSUME N <= 1 PROVE Spec => []AlarmsArmed
  OBVIOUS
<1>1. ArmInv => AlarmsArmed
  BY DEF ArmInv
<1>2. Spec => []ArmInv
  BY ArmAlways
<1> QED BY <1>1, <1>2, PTL

(* The alarm that will kill p is on the list, or need not be.              *)
Doomed(p, al) ==
  \/ p.killed \/ Limit(Sections[p.section].limitstr) = 0
  \/ \E m \in DOMAIN al : Killer(al[m], p.section, p.pid, p.start)

(* The neighbours FindPlace has found are next to each other.              *)
Beside(al) ==
  \E k \in 1 .. Len(al) + 1 :
     /\ main.at = (IF k = 1 THEN NoAlarm ELSE Id(al[k - 1]))
     /\ main.next = (IF k > Len(al) THEN NoAlarm ELSE Id(al[k]))

(* What enforces the limits: the SKILL of every process is on the list,    *)
(* and LinkAlarm loses none.                                               *)
KillInv == /\ main.pc = "link" => Beside(alarms)
           /\ stops = 0 => \A p \in procs : Doomed(p, alarms)

(* The same process, in whatever state.                                    *)
SameRun(p, q) == /\ p.pid = q.pid /\ p.section = q.section /\ p.start = q.start
                 /\ p.killed = q.killed

(* A process keeps its SKILL when the list keeps its alarms.               *)
LEMMA DoomedKept ==
  ASSUME NEW al, NEW bl, Keeps(bl, al), NEW p, NEW q, SameRun(p, q), Doomed(q, al)
  PROVE  Doomed(p, bl)
<1>1. CASE q.killed \/ Limit(Sections[q.section].limitstr) = 0
  BY <1>1, Zenon DEF Doomed, SameRun
<1>2. CASE \E m \in DOMAIN al : Killer(al[m], q.section, q.pid, q.start)
  <2>1. PICK m \in DOMAIN al : Killer(al[m], q.section, q.pid, q.start)
    BY <1>2
  <2>2. PICK n \in DOMAIN bl : Same(bl[n], al[m])
    BY <2>1, Zenon DEF Keeps, Killer
  <2>3. Killer(bl[n], p.section, p.pid, p.start)
    BY <2>1, <2>2, Zenon DEF Killer, Same, SameRun
  <2> QED BY <2>3, Zenon DEF Doomed
<1> QED BY <1>1, <1>2, Zenon DEF Doomed

(* A step that loses no alarm in force.                                    *)
LEMMA KillKeeps ==
  ASSUME KillInv, Keeps(alarms', alarms), stops' = 0 => stops = 0,
         \A p \in procs' : Doomed(p, alarms') \/ \E q \in procs : SameRun(p, q),
         main'.pc = "link" => Beside(alarms)'
  PROVE  KillInv'
<1>1. ASSUME stops' = 0, NEW p \in procs' PROVE Doomed(p, alarms')
  BY <1>1, DoomedKept, Zenon DEF KillInv
<1> QED BY <1>1, Zenon DEF KillInv

(* A step that leaves the list and the processes alone.                    *)
LEMMA KillIdle ==
  ASSUME KillInv, UNCHANGED <<alarms, stops>>, \A p \in procs' : \E q \in procs : SameRun(p, q),
         main' = main \/ main'.pc # "link"
  PROVE  KillInv'
<1>1. Keeps(alarms', alarms)
  BY DEF Keeps, Same
<1>2. main'.pc = "link" => Beside(alarms)'
  BY Zenon DEF KillInv, Beside
<1> QED BY <1>1, <1>2, KillKeeps, Zenon

(* Processes that are left alone are the same.                             *)
LEMMA SameProcs == UNCHANGED procs => \A p \in procs' : \E q \in procs : SameRun(p, q)
BY DEF SameRun

(* An alarm is found at its place.                                         *)
LEMMA IndexAt ==
  ASSUME NEW al \in Seq(AlarmType), Unique(al), NEW k \in DOMAIN al
  PROVE  Index(al, Id(al[k])) = k
<1>1. Index(al, Id(al[k])) \in DOMAIN al /\ Id(al[Index(al, Id(al[k]))]) = Id(al[k])
  BY IndexFound
<1> QED BY <1>1, Zenon DEF Unique

(* FindPlace finds neighbours.                                             *)
LEMMA KillFind == ASSUME ProcInv, AlarmInv, KillInv, FindPlace PROVE KillInv'
<1> DEFINE k == Position(alarms, NewCycleAlarm(now))
<1>1. /\ UNCHANGED <<alarms, stops, procs>>
      /\ main'.at = (IF k = 1 THEN NoAlarm ELSE Id(alarms[k - 1]))
      /\ main'.next = (IF k > Len(alarms) THEN NoAlarm ELSE Id(alarms[k]))
  BY ZenonT(30) DEF FindPlace, bounds, AlarmInv, MainStates
<1>2. k \in 1 .. Len(alarms) + 1
  BY PositionRange, SMTT(30) DEF AlarmInv, ListOK
<1> HIDE DEF k
<1>3. Beside(alarms)'
  BY <1>1, <1>2, Zenon DEF Beside
<1>4. Keeps(alarms', alarms)
  BY <1>1 DEF Keeps, Same
<1> QED BY <1>1, <1>3, <1>4, SameProcs, KillKeeps, Zenon

(* LinkAlarm loses no alarm: nothing is between the neighbours.            *)
LEMMA KillLink == ASSUME ProcInv, AlarmInv, KillInv, LinkAlarm PROVE KillInv'
<1>1. /\ UNCHANGED <<stops, procs>> /\ main.pc = "link" /\ main' = [main EXCEPT !.pc = "arm"]
  BY SMTT(30) DEF LinkAlarm, bounds, MainAt, Goto
<1>2. /\ alarms \in Seq(AlarmType) /\ Unique(alarms) /\ main \in MainStates /\ main.new \in AlarmType
      /\ Len(alarms) \in Nat /\ DOMAIN alarms = 1 .. Len(alarms)
      /\ \A k \in DOMAIN alarms : alarms[k] \in AlarmType
  BY AlarmFields DEF AlarmInv, ListOK, MainStates
<1>3. main'.pc # "link"
  BY <1>1, <1>2, SMTT(30) DEF MainStates
<1>4. PICK i \in 0 .. Len(alarms) : \E j \in i + 1 .. Len(alarms) + 1 :
           /\ alarms' = Spliced(alarms, main.new, i, j)
           /\ i = Index(alarms, main.at)
           /\ j = IF main.next = NoAlarm THEN Len(alarms) + 1 ELSE Index(alarms, main.next)
  BY LinkParts, Zenon
<1>5. PICK j \in i + 1 .. Len(alarms) + 1 :
           /\ alarms' = Spliced(alarms, main.new, i, j)
           /\ i = Index(alarms, main.at)
           /\ j = IF main.next = NoAlarm THEN Len(alarms) + 1 ELSE Index(alarms, main.next)
  BY <1>4
<1>6. PICK k \in 1 .. Len(alarms) + 1 :
           /\ main.at = (IF k = 1 THEN NoAlarm ELSE Id(alarms[k - 1]))
           /\ main.next = (IF k > Len(alarms) THEN NoAlarm ELSE Id(alarms[k]))
  BY <1>1 DEF KillInv, Beside
<1>7. i = k - 1
  <2>1. CASE k = 1
    <3>1. \A l \in DOMAIN alarms : Id(alarms[l]) # NoAlarm
      BY <1>2, IdType, SMTT(30)
    <3>2. Index(alarms, NoAlarm) = 0
      BY <1>2, <3>1, IndexFound, SMTT(30)
    <3> QED BY <1>5, <1>6, <2>1, <3>2, SMTT(30)
  <2>2. CASE k # 1
    <3>1. k - 1 \in DOMAIN alarms
      BY <1>2, <2>2
    <3> QED BY <1>2, <1>5, <1>6, <2>2, <3>1, IndexAt, SMTT(30)
  <2> QED BY <2>1, <2>2, SMTT(30)
<1>8. j = k
  <2>1. CASE k > Len(alarms)
    <3>1. k = Len(alarms) + 1
      BY <1>2, <2>1, SMTT(30)
    <3> QED BY <1>5, <1>6, <2>1, <3>1, SMTT(30)
  <2>2. CASE ~(k > Len(alarms))
    <3>1. k \in DOMAIN alarms
      BY <1>2, <2>2, SMTT(30)
    <3>2. Id(alarms[k]) # NoAlarm
      BY <1>2, <3>1, IdType
    <3> QED BY <1>2, <1>5, <1>6, <2>2, <3>1, <3>2, IndexAt, SMTT(30)
  <2> QED BY <2>1, <2>2, SMTT(30)
<1>9. i \in Nat /\ j = i + 1
  BY <1>2, <1>7, <1>8, SMTT(30)
<1>10. Parts(alarms', alarms, main.new, i, j)
  BY <1>2, <1>5, SplicedParts, SMTT(30)
<1>11. Keeps(alarms', alarms)
  BY <1>2, <1>9, <1>10, PartsKeep, SMTT(30)
<1> QED BY <1>1, <1>3, <1>11, SameProcs, KillKeeps, Zenon

(* ReadHead and MarkSet lose no alarm in force.                            *)
LEMMA KillHead == ASSUME ProcInv, AlarmInv, KillInv, ReadHead \/ MarkSet PROVE KillInv'
<1>1. UNCHANGED <<stops, procs>> /\ main \in MainStates /\ alarms \in Seq(AlarmType)
  BY DEF ReadHead, MarkSet, bounds, AlarmInv, ListOK
<1>2. \A b \in AlarmType : ~b.removed => Same(b, b) /\ Same([b EXCEPT !.isset = TRUE], b)
  BY ZenonT(30) DEF AlarmType, Same
<1>3. \A k \in DOMAIN alarms : alarms[k] \in AlarmType
  BY <1>1, AlarmFields, SMTT(30)
<1>4. CASE ReadHead
  <2>1. alarms' = SkipRemoved(alarms) /\ main'.pc = "isset"
    BY <1>1, <1>4, ZenonT(30) DEF ReadHead, MainStates
  <2>2. PICK c \in 0 .. Len(alarms) :
           /\ DOMAIN alarms' = 1 .. Len(alarms) - c
           /\ \A k \in 1 .. Len(alarms) - c : k + c \in DOMAIN alarms /\ alarms'[k] = alarms[k + c]
           /\ \A k \in 1 .. c : alarms[k].removed
    BY <1>1, <2>1, SkipFacts, Zenon
  <2>3. Keeps(alarms', alarms)
    <3> SUFFICES ASSUME NEW l \in DOMAIN alarms, ~alarms[l].removed
                 PROVE  \E m \in DOMAIN alarms' : Same(alarms'[m], alarms[l])
      BY DEF Keeps
    <3>1. Len(alarms) \in Nat /\ l \in 1 .. Len(alarms) /\ ~(l \in 1 .. c)
      BY <1>1, <2>2, AlarmFields, SMTT(30)
    <3>2. l - c \in 1 .. Len(alarms) - c /\ (l - c) + c = l
      BY <2>2, <3>1
    <3> QED BY <1>2, <1>3, <2>2, <3>2, Zenon
  <2>4. main'.pc # "link"
    BY <2>1
  <2> QED BY <1>1, <2>3, <2>4, SameProcs, KillKeeps, Zenon
<1>5. CASE MarkSet
  <2>1. PICK k : alarms' = [alarms EXCEPT ![k].isset = TRUE]
    BY <1>5, Zenon DEF MarkSet
  <2>2. main'.pc = "setitimer"
    BY <1>1, <1>5 DEF MarkSet, Goto, MainStates
  <2>3. DOMAIN alarms' = DOMAIN alarms
        /\ \A l \in DOMAIN alarms : alarms'[l] = IF l = k THEN [alarms[l] EXCEPT !.isset = TRUE] ELSE alarms[l]
    BY <2>1, Zenon
  <2>4. Keeps(alarms', alarms)
    BY <1>2, <1>3, <2>3, Zenon DEF Keeps
  <2>5. main'.pc # "link"
    BY <2>2
  <2> QED BY <1>1, <2>4, <2>5, SameProcs, KillKeeps, Zenon
<1> QED BY <1>4, <1>5

(* Launch puts the SKILL of the process on the list.                       *)
LEMMA KillLaunch ==
  ASSUME ProcInv, AlarmInv, FlagType, KillInv, LaunchSection PROVE KillInv'
<1>1. /\ UNCHANGED stops /\ main' = [main EXCEPT !.pc = "launched"]
      /\ UNCHANGED <<alarms, procs>> \/ (current # NULL /\ Launch(current))
  BY DEF LaunchSection, Goto
<1>2. main \in MainStates /\ current \in 0 .. N
  BY DEF AlarmInv, ProcInv, StateType
<1>3. main'.pc # "link"
  BY <1>1, <1>2 DEF MainStates
<1>4. CASE UNCHANGED <<alarms, procs>>
  BY <1>1, <1>3, <1>4, SameProcs, KillIdle, Zenon
<1>5. CASE current # NULL /\ Launch(current)
  <2>1. current \in 1 .. N
    BY <1>2, <1>5 DEF NULL
  <2>2. /\ Keeps(alarms', alarms)
        /\ \A p \in procs' : \/ p \in procs
                             \/ Limit(Sections[p.section].limitstr) = 0
                             \/ \E m \in DOMAIN alarms' : Killer(alarms'[m], p.section, p.pid, p.start)
    BY <1>5, <2>1, LaunchKeeps, Zenon
  <2>3. \A p : SameRun(p, p)
    BY DEF SameRun
  <2>4. \A p \in procs' : Doomed(p, alarms') \/ \E q \in procs : SameRun(p, q)
    BY <2>2, <2>3, Zenon DEF Doomed
  <2> QED BY <1>1, <1>3, <2>2, <2>4, KillKeeps, Zenon
<1> QED BY <1>1, <1>4, <1>5

(* With one section, the process that is reaped is the only one.           *)
LEMMA KillReap ==
  ASSUME N <= 1, ProcInv, AlarmInv, KillInv, NEW p \in procs, Reap(p) PROVE KillInv'
<1>1. /\ UNCHANGED <<main, stops>> /\ Marked(alarms', alarms)
  BY ReapMarks, Zenon DEF Reap, bounds
<1>2. main'.pc = "link" => Beside(alarms)'
  <2>1. alarms \in Seq(AlarmType) /\ alarms' \in Seq(AlarmType)
    BY ReapList, SMTT(30) DEF AlarmInv, ListOK
  <2>2. /\ Len(alarms) \in Nat /\ DOMAIN alarms = 1 .. Len(alarms)
        /\ Len(alarms') \in Nat /\ DOMAIN alarms' = 1 .. Len(alarms')
    BY <2>1, AlarmFields, Zenon
  <2>3. Len(alarms') = Len(alarms)
    BY <1>1, <2>2 DEF Marked
  <2>4. \A k \in 1 .. Len(alarms) + 1 : /\ k # 1 => k - 1 \in DOMAIN alarms
                                        /\ ~(k > Len(alarms)) => k \in DOMAIN alarms
    BY <2>2
  <2> SUFFICES ASSUME main.pc = "link" PROVE Beside(alarms)'
    BY <1>1, SMTT(30)
  <2>5. PICK k \in 1 .. Len(alarms) + 1 :
           /\ main.at = (IF k = 1 THEN NoAlarm ELSE Id(alarms[k - 1]))
           /\ main.next = (IF k > Len(alarms) THEN NoAlarm ELSE Id(alarms[k]))
    BY DEF KillInv, Beside
  <2>6. /\ main.at = (IF k = 1 THEN NoAlarm ELSE Id(alarms'[k - 1]))
        /\ main.next = (IF k > Len(alarms) THEN NoAlarm ELSE Id(alarms'[k]))
    BY <1>1, <2>4, <2>5, Zenon DEF Marked
  <2> QED BY <1>1, <2>3, <2>6, Zenon DEF Beside
<1>3. ASSUME stops' = 0 PROVE procs' = {}
  <2>1. stops = 0
    BY <1>1, <1>3
  <2>2. NoneStopped /\ Recorded /\ Distinct /\ procs \subseteq ProcStates
    BY <2>1 DEF ProcInv, StateType
  <2>3. procs' = (procs \ {p}) \union
                 (IF p.state = "stopped" THEN {[p EXCEPT !.state = "suspended"]} ELSE {})
    BY DEF Reap
  <2>4. p.state # "stopped"
    BY <2>2, SMTT(30) DEF NoneStopped
  <2>5. ASSUME NEW q \in procs PROVE q = p
    <3>1. q.section \in 1 .. N /\ p.section \in 1 .. N
      BY <2>2 DEF ProcStates
    <3>2. q.section = p.section
      BY <3>1, SectionCount
    <3>3. q.pid = p.pid
      BY <2>2, <3>2, Zenon DEF Recorded
    <3> QED BY <2>2, <3>3, Zenon DEF Distinct
  <2> QED BY <2>3, <2>4, <2>5, Zenon
<1> QED BY <1>2, <1>3, Zenon DEF KillInv

(* The SIGALRM handler takes SKILL off the list when it sends the signal.  *)
LEMMA KillPop ==
  ASSUME ProcInv, AlarmInv, KillInv, NEW late \in BOOLEAN, SigAlrm(late) PROVE KillInv'
<1>1. UNCHANGED <<main, stops>>
  BY SMTT(30) DEF SigAlrm, bounds
<1>2. CASE alarms = <<>> \/ ~alarms[1].isset
  <2>1. UNCHANGED <<alarms, procs>>
    BY <1>2, Zenon DEF SigAlrm
  <2> QED BY <1>1, <2>1, SameProcs, KillIdle, Zenon
<1>3. CASE alarms # <<>> /\ alarms[1].isset
  <2> DEFINE a == alarms[1]
  <2>1. main'.pc # "link"
    BY <1>1, <1>3, PopParts, Zenon DEF InsertPcs
  <2>2. \A l \in DOMAIN alarms : l # 1 /\ ~alarms[l].removed =>
           \E m \in DOMAIN alarms' : Same(alarms'[m], alarms[l])
    BY <1>3, PopParts, Zenon
  <2>3. procs' = {Signal(a, p) : p \in procs}
    BY <1>3, Zenon DEF SigAlrm
  <2>4. ASSUME stops' = 0, NEW q \in procs' PROVE Doomed(q, alarms')
    <3>1. PICK p \in procs : q = Signal(a, p)
      BY <2>3, <2>4
    <3>2. stops = 0 /\ Doomed(p, alarms) /\ sect[p.section].pid = p.pid /\ p \in ProcStates
      BY <1>1, <2>4 DEF KillInv, ProcInv, Recorded, StateType
    <3>3. CASE Hits(a, p) /\ a.kind = "SKILL"
      <4>1. q = [p EXCEPT !.killed = TRUE]
        BY <3>1, <3>3, Zenon DEF Signal
      <4>2. q.killed
        BY <3>2, <4>1, SMTT(30) DEF ProcStates
      <4> QED BY <4>2, Zenon DEF Doomed
    <3>4. CASE ~(Hits(a, p) /\ a.kind = "SKILL")
      <4>1. q = p
        BY <3>1, <3>4, Zenon DEF Signal
      <4>2. ASSUME NEW m \in DOMAIN alarms, Killer(alarms[m], p.section, p.pid, p.start)
            PROVE  \E n \in DOMAIN alarms' : Killer(alarms'[n], p.section, p.pid, p.start)
        <5>1. m # 1
          BY <3>2, <3>4, <4>2, Zenon DEF Hits, Killer
        <5>2. PICK n \in DOMAIN alarms' : Same(alarms'[n], alarms[m])
          BY <2>2, <4>2, <5>1, Zenon DEF Killer
        <5>3. Killer(alarms'[n], p.section, p.pid, p.start)
          BY <4>2, <5>2, Zenon DEF Killer, Same
        <5> QED BY <5>3
      <4> QED BY <3>2, <4>1, <4>2, Zenon DEF Doomed
    <3> QED BY <3>3, <3>4, SMTT(30)
  <2> QED BY <2>1, <2>4, Zenon DEF KillInv
<1> QED BY <1>2, <1>3

(* A child changes its state.                                              *)
LEMMA SameRuns ==
  ASSUME procs \subseteq ProcStates, NEW p \in procs, NEW state, ChildChanges(p, state)
  PROVE  \A r \in procs' : \E q \in procs : SameRun(r, q)
<1>1. procs' = (procs \ {p}) \union {[p EXCEPT !.state = state]}
  BY DEF ChildChanges
<1>2. SameRun([p EXCEPT !.state = state], p)
  BY DEF SameRun, ProcStates
<1>3. \A q : SameRun(q, q)
  BY DEF SameRun
<1> QED BY <1>1, <1>2, <1>3, Zenon

(* With one section, every step keeps KillInv.                             *)
LEMMA KillNext ==
  ASSUME N <= 1, ProcInv, AlarmInv, FlagType, ArmInv, KillInv, [Next]_vars PROVE KillInv'
<1>0. main \in MainStates /\ procs \subseteq ProcStates /\ stops \in Nat
  BY SMTT(30) DEF AlarmInv, ProcInv, StateType
<1>1. CASE FindPlace \/ LinkAlarm \/ ReadHead \/ MarkSet \/ LaunchSection
  BY <1>1, KillFind, KillLink, KillHead, KillLaunch
<1>2. CASE \/ WaitForCycle \/ SetTimer \/ NewCycle \/ SaveParams \/ MarkToRun \/ ReviewSection
           \/ CheckSection \/ CheckParallel \/ Advance
  <2>1. UNCHANGED <<alarms, procs, stops>> /\ main.pc # "link"
    BY <1>2 DEF WaitForCycle, SetTimer, NewCycle, SaveParams, MarkToRun, ReviewSection,
                CheckSection, CheckParallel, Advance, MainAt, bounds
  <2>2. \/ main' = main
        \/ \E pc \in {"insert", "time", "suspend", "save", "mark", "run", "check", "launch", "advance"} :
              \/ main' = [main EXCEPT !.pc = pc]
              \/ main' = [main EXCEPT !.pc = pc, !.t = now]
              \/ main' = [main EXCEPT !.pc = pc, !.i = 1]
              \/ main' = [main EXCEPT !.pc = pc, !.s = current]
        \/ main' = [main EXCEPT !.i = main.i + 1]
    BY <1>2, Zenon DEF WaitForCycle, SetTimer, NewCycle, SaveParams, MarkToRun, ReviewSection,
                CheckSection, CheckParallel, Advance, Goto
  <2>3. main' = main \/ main'.pc # "link"
    BY <1>0, <2>1, <2>2, ZenonT(30) DEF MainStates
  <2> QED BY <2>1, <2>3, SameProcs, KillIdle, Zenon
<1>3. CASE \E p \in procs : Reap(p)
  BY <1>3, KillReap, SMTT(30)
<1>4. CASE SigChld \/ SigChldReturns \/ HandlerRunSections
  <2>1. UNCHANGED <<alarms, procs, stops, main>>
    BY <1>4, ZenonT(30) DEF SigChld, SigChldReturns, HandlerRunSections, ArmInv, bounds
  <2> QED BY <2>1, SameProcs, KillIdle, Zenon
<1>5. CASE AlarmHandler
  BY <1>5, KillPop, SMTT(30) DEF AlarmHandler
<1>6. CASE Expire \/ Tick \/ ClockBack \/ Halted \/ UNCHANGED vars
  <2>1. UNCHANGED <<alarms, procs, stops, main>>
    <3>1. CASE Expire \/ Tick \/ ClockBack
      BY <3>1, ZenonT(30) DEF Expire, Tick, ClockBack, bounds
    <3>2. CASE Halted \/ UNCHANGED vars
      BY <3>2, ZenonT(30) DEF Halted, vars, bounds
    <3> QED BY <1>6, <3>1, <3>2, Zenon
  <2> QED BY <2>1, SameProcs, KillIdle, Zenon
<1>7. CASE \E p \in procs : Exit(p) \/ Continue(p)
  <2>1. PICK p \in procs : Exit(p) \/ Continue(p)
    BY <1>7
  <2>2. UNCHANGED <<alarms, stops, main>> /\ \E state : ChildChanges(p, state)
    BY <2>1, ZenonT(30) DEF Exit, Continue, ChildChanges
  <2> QED BY <1>0, <2>2, SameRuns, KillIdle, Zenon
<1>8. CASE \E p \in procs : Stop(p)
  <2>1. UNCHANGED <<alarms, main>> /\ stops' = stops + 1
    BY <1>8 DEF Stop, ChildChanges
  <2>2. stops' # 0
    BY <1>0, <2>1
  <2>3. main'.pc = "link" => Beside(alarms)'
    BY <2>1, Zenon DEF KillInv, Beside
  <2> QED BY <2>2, <2>3, Zenon DEF KillInv
<1> QED BY <1>1, <1>2, <1>3, <1>4, <1>5, <1>6, <1>7, <1>8, SMTT(30) DEF Next, MainLoop, ChildHandler

(* KillInv is an invariant when there is one section.                      *)
LEMMA KillAlways == N <= 1 => (Spec => []KillInv)
<1> SUFFICES ASSUME N <= 1 PROVE Spec => []KillInv
  OBVIOUS
<1>1. Init => KillInv
  BY DEF Init, KillInv
<1>2. ProcInv /\ AlarmInv /\ FlagType /\ ArmInv /\ KillInv /\ [Next]_vars => KillInv'
  BY KillNext
<1>3. Spec => []ArmInv
  BY ArmAlways
<1> QED BY <1>1, <1>2, <1>3, ProcAlways, AlarmAlways, FlagAlways, PTL DEF Spec

(* With one section in the configuration, no command outlives the limit of *)
(* its section: whenever the main loop waits for the next cycle and no     *)
(* signal is due, a command that still runs a second after its limit was   *)
(* sent SIGKILL.  It is so until a child is stopped by a signal: WaitProc  *)
(* takes the stop for the end of the command and removes its alarms.       *)
THEOREM LimitIsEnforced == N <= 1 => (Spec => [](stops = 0 => LimitEnforced))
<1> SUFFICES ASSUME N <= 1 PROVE Spec => [](stops = 0 => LimitEnforced)
  BY SMTT(30)
<1>1. ASSUME ProcInv, AlarmInv, ArmInv, KillInv, stops = 0 PROVE LimitEnforced
  <2> SUFFICES ASSUME NEW p \in procs, main.pc = "suspend", ~g_next_cycle, ~sigalrm,
                      timer = Never \/ now <= timer,
                      Limit(Sections[p.section].limitstr) # 0,
                      now > CycleStart(p.start) + Limit(Sections[p.section].limitstr) + 1,
                      ~p.killed
               PROVE  FALSE
    BY Zenon DEF LimitEnforced
  <2>1. PICK m \in DOMAIN alarms : Killer(alarms[m], p.section, p.pid, p.start)
    BY <1>1, Zenon DEF KillInv, Doomed
  <2>2. alarms # <<>> /\ timer # Never /\ timer <= alarms[1].exptime
    BY <1>1, Zenon DEF ArmInv, AlarmsArmed, Arming
  <2>3. /\ alarms \in Seq(AlarmType) /\ timer \in Int /\ now \in Nat /\ p \in ProcStates
    BY <1>1, SMTT(30) DEF AlarmInv, ListOK, ProcInv, StateType
  <2>4. 1 \in DOMAIN alarms /\ m \in Nat \ {0} /\ alarms[1].exptime \in Int /\ alarms[m].exptime \in Int
    BY <2>2, <2>3, AlarmFields, SMTT(30)
  <2>5. alarms[1].exptime <= alarms[m].exptime
    BY <1>1, <2>4, SMTT(30) DEF AlarmInv, ListOK, Sorted
  <2>6. alarms[m].exptime = CycleStart(p.start) + Limit(Sections[p.section].limitstr)
    BY <2>1, SMTT(30) DEF Killer
  <2> DEFINE x == CycleStart(p.start) + Limit(Sections[p.section].limitstr)
  <2>7. x \in Int /\ now > x + 1 /\ alarms[m].exptime = x
    BY <2>4, <2>6
  <2> HIDE DEF x
  <2> QED BY <2>2, <2>3, <2>4, <2>5, <2>7
<1>2. Spec => []ArmInv /\ []KillInv
  BY ArmAlways, KillAlways
<1> QED BY <1>1, <1>2, ProcAlways, AlarmAlways, PTL
=============================================================================
