------------------------------ MODULE Execute ------------------------------
(***************************************************************************)
(* The execute sections of meaner3: a cron inside the database daemon.     *)
(* Every BASE_PERIOD the main loop marks the sections that are due and     *)
(* launches them in order; a section that is not parallel is waited for,   *)
(* and the SIGCHLD handler goes on with the list when it returns.  Time    *)
(* limits are alarms in a sorted list; the first one owns the only timer   *)
(* of the process, and the SIGALRM handler pops it.                        *)
(*                                                                         *)
(* Both handlers block all signals while they run, and Launch blocks them  *)
(* too, but the main loop changes the list of alarms and the pointer       *)
(* current with signals enabled, so a handler may run between any two of   *)
(* its steps.  The steps of the main loop are therefore as small as its    *)
(* accesses to what the handlers share with it.                            *)
(***************************************************************************)
EXTENDS Integers, Sequences

CONSTANTS Period,        \* BASE_PERIOD
          Sections,      \* configured sections, in the order of execute_sections
          MaxTime,       \* bound: the clock
          MaxForkFails,  \* bound: calls of fork that fail
          MaxStops,      \* bound: children that are stopped by a signal
          MaxSkews       \* bound: steps of the clock back

N == Len(Sections)
NULL == 0
Never == -1

ASSUME PeriodAssumption == Period \in Nat /\ Period > 1 /\ MaxTime \in Nat
ASSUME SectionsAssumption ==
  Sections \in Seq([due : SUBSET Nat,                    \* the cycles CheckTime accepts
                    retry : Nat, parallel : BOOLEAN,
                    limitstr : {l \in Int : l > -Period}])
ASSUME BoundsAssumption == MaxForkFails \in Nat /\ MaxStops \in Nat /\ MaxSkews \in Nat

VARIABLES
  now,            \* time(), in seconds
  sect,           \* the TExecSections: pid, fails, torun
  procs,          \* child processes
  pids,           \* forks so far: process ids are numbered
  current,        \* section under review
  alarms,         \* the list of TExecAlarms
  timer,          \* the clock at which the interval timer expires, or Never
  sigalrm,        \* SIGALRM is pending
  g_next_cycle,
  last_cycle,
  main,           \* main loop: where it is and its local variables
  handler,        \* SIGCHLD handler: "none", or where it is
  fault,          \* the assertion or dereference that stopped the program
  forkfails, stops, skews

bounds == <<forkfails, stops, skews>>
vars == <<now, sect, procs, pids, current, alarms, timer, sigalrm, g_next_cycle,
          last_cycle, main, handler, fault, bounds>>

(* The limit CreateSection computes from the configured value; 0 is none.  *)
Limit(limitstr) == IF limitstr < 0 THEN Period - limitstr ELSE limitstr

CycleStart(t) == t - (t % Period)

(* CheckTime, over the numbers of the cycles the crontab fields accept.    *)
CheckTime(s, t) == (t \div Period) \in Sections[s].due

CheckRun(s) == sect[s].torun /\ sect[s].pid = 0

\* mutant: the end of the list is not NULL
GetNextUnbounded(s) == s + 1

GetNext(s) == IF s = N THEN NULL ELSE s + 1

-----------------------------------------------------------------------------
(* The list of alarms.  An alarm is identified by its kind and the run it  *)
(* was made for; removed says that its type has become ALRM_REM.           *)

Alarm(kind, s, run, exptime) ==
  [kind |-> kind, section |-> s, run |-> run, exptime |-> exptime,
   isset |-> FALSE, removed |-> FALSE]

NewCycleAlarm(settime) == Alarm("NEWCL", NULL, 0, CycleStart(settime) + Period)

Id(a) == <<a.kind, a.run>>
NoAlarm == <<"none", 0>>

(* Walking the list up to the first of some places, none if it has none.   *)
First(places, none) ==
  IF places = {} THEN none ELSE CHOOSE i \in places : \A j \in places : i <= j

Index(as, id) == First({i \in DOMAIN as : Id(as[i]) = id}, 0)

InsertAt(as, k, a) == SubSeq(as, 1, k - 1) \o <<a>> \o SubSeq(as, k, Len(as))

(* NextAlarm drops the removed alarms at the head of the list.             *)
SkipRemoved(as) ==
  SubSeq(as, First({i \in DOMAIN as : ~as[i].removed}, Len(as) + 1), Len(as))

\* mutant: an alarm never goes in front of the first
PositionAfterHead(as, a) ==
  IF as = <<>> THEN 1
  ELSE First({i \in 2 .. Len(as) : as[i].exptime > a.exptime}, Len(as) + 1)

(* Where InsertAlarm puts an alarm: the index it will have in the list.    *)
Position(as, a) ==
  IF as = <<>> \/ a.exptime < as[1].exptime THEN 1
  ELSE First({i \in 2 .. Len(as) : as[i].exptime > a.exptime}, Len(as) + 1)

\* mutant: the alarm that was set is reset, but the timer is not set for the new one
InsertAlarmUnset(lt, a) ==
  [lt EXCEPT !.alarms = InsertAt([i \in DOMAIN @ |-> [@[i] EXCEPT !.isset = FALSE]],
                                 Position(@, a), a)]

(* InsertAlarm, on a list and its timer: an alarm that goes in front of    *)
(* the alarm that is set takes the timer over.                             *)
InsertAlarm(lt, a) ==
  LET takesOver == /\ Position(lt.alarms, a) = 1
                   /\ lt.alarms # <<>> /\ lt.alarms[1].isset
  IN  IF takesOver
      THEN [alarms |-> <<[a EXCEPT !.isset = TRUE], [lt.alarms[1] EXCEPT !.isset = FALSE]>>
                       \o Tail(lt.alarms),
            timer  |-> a.exptime]
      ELSE [lt EXCEPT !.alarms = InsertAt(@, Position(@, a), a)]

\* mutant: the limit counts from the launch
SetAlarmFromLaunch(lt, s, run, t) ==
  LET limit == Limit(Sections[s].limitstr)
  IN  IF limit = 0 THEN lt
      ELSE InsertAlarm(InsertAlarm(lt, Alarm("STRM", s, run, t + limit - 1)),
                       Alarm("SKILL", s, run, t + limit))

(* SetAlarm: SIGTERM one second before the limit, SIGKILL at the limit.    *)
SetAlarm(lt, s, run, t) ==
  LET limit == Limit(Sections[s].limitstr)
      end   == CycleStart(t) + limit
  IN  IF limit = 0 THEN lt
      ELSE InsertAlarm(InsertAlarm(lt, Alarm("STRM", s, run, end - 1)),
                       Alarm("SKILL", s, run, end))

-----------------------------------------------------------------------------
Init ==
  /\ now \in Period .. 2 * Period - 1
  /\ sect = [s \in 1 .. N |-> [pid |-> 0, fails |-> 0, torun |-> FALSE]]
  /\ procs = {} /\ pids = 0
  /\ current = NULL
  /\ alarms = <<[NewCycleAlarm(now) EXCEPT !.isset = TRUE]>>      \* GetReady
  /\ timer = 2 * Period
  /\ sigalrm = FALSE /\ g_next_cycle = FALSE /\ last_cycle = 0
  /\ main = [pc |-> "suspend", t |-> 0, i |-> 0, s |-> NULL, new |-> NewCycleAlarm(now),
             at |-> NoAlarm, next |-> NoAlarm, value |-> Never]
  /\ handler = "none" /\ fault = "none"
  /\ forkfails = 0 /\ stops = 0 /\ skews = 0

(* Launch: fork the command of the section and set its alarms, with        *)
(* signals blocked.  A section that runs is an assertion failure; when     *)
(* fork fails the section keeps the pid -1.  The timer may expire between  *)
(* time() and SetAlarm (late), if need be in the next second; SIGALRM is   *)
(* then pending when the alarms are inserted.                              *)
ExpiresIn(late) ==
  /\ late => timer # Never /\ timer <= now + 1 /\ timer <= MaxTime
  /\ sigalrm' = (sigalrm \/ late)
  /\ now' = IF late /\ timer = now + 1 THEN now + 1 ELSE now

Launch(s) ==
  \/ /\ sect[s].pid # 0
     /\ fault' = "launch"
     /\ UNCHANGED <<now, sect, procs, pids, alarms, timer, sigalrm, forkfails>>
  \/ \E late \in BOOLEAN :
     LET lt == SetAlarm([alarms |-> alarms, timer |-> IF late THEN Never ELSE timer],
                        s, pids + 1, now)
     IN  /\ sect[s].pid = 0
         /\ ExpiresIn(late)
         /\ pids' = pids + 1
         /\ sect' = [sect EXCEPT ![s].pid = pids + 1]
         /\ procs' = procs \union {[pid |-> pids + 1, section |-> s, state |-> "runs",
                                    killed |-> FALSE, start |-> now]}
         /\ alarms' = lt.alarms /\ timer' = lt.timer
         /\ UNCHANGED <<forkfails, fault>>
  \/ /\ sect[s].pid = 0 /\ forkfails < MaxForkFails
     /\ forkfails' = forkfails + 1
     /\ sect' = [sect EXCEPT ![s].pid = -1]
     /\ UNCHANGED <<now, procs, pids, alarms, timer, sigalrm, fault>>

-----------------------------------------------------------------------------
Reported(p) == p.state \in {"exited", "failed", "stopped"}

(* The main loop.  It does not run while a handler does, nor after a       *)
(* fault, nor when a signal is pending: none is blocked outside Launch.    *)
MainAt(pc) ==
  /\ main.pc = pc /\ handler = "none" /\ fault = "none"
  /\ ~sigalrm /\ \A p \in procs : ~Reported(p)
Goto(pc) == main' = [main EXCEPT !.pc = pc]

\* mutant: g_next_cycle is not cleared
WaitForCycleKeepsFlag ==
  /\ MainAt("suspend") /\ g_next_cycle
  /\ Goto("insert")
  /\ UNCHANGED <<now, sect, procs, pids, current, alarms, timer, sigalrm, g_next_cycle,
                 last_cycle, handler, fault, bounds>>

(* WaitForCycle: sigsuspend has returned with g_next_cycle set.            *)
WaitForCycle ==
  /\ MainAt("suspend") /\ g_next_cycle
  /\ g_next_cycle' = FALSE
  /\ Goto("insert")
  /\ UNCHANGED <<now, sect, procs, pids, current, alarms, timer, sigalrm, last_cycle,
                 handler, fault, bounds>>

(* InsertAlarm as WaitForCycle runs it, signals enabled: find the place... *)
FindPlace ==
  /\ MainAt("insert")
  /\ LET a == NewCycleAlarm(now)
         k == Position(alarms, a)
     IN  main' = [main EXCEPT !.pc = "link", !.new = a,
                    !.at = IF k = 1 THEN NoAlarm ELSE Id(alarms[k - 1]),
                    !.next = IF k > Len(alarms) THEN NoAlarm ELSE Id(alarms[k])]
  /\ UNCHANGED <<now, sect, procs, pids, current, alarms, timer, sigalrm, g_next_cycle,
                 last_cycle, handler, fault, bounds>>

(* ... and link the alarm between the two elements found: what a handler   *)
(* has put between them meanwhile is no longer on the list.  (The default  *)
(* build, -O2, keeps tmp->next in a register from the loop test on.  No    *)
(* alarm is set here, so the new one has no timer to take over.)           *)
LinkAlarm ==
  /\ MainAt("link")
  /\ alarms' = SubSeq(alarms, 1, Index(alarms, main.at)) \o <<main.new>>
               \o (IF main.next = NoAlarm THEN <<>>
                   ELSE SubSeq(alarms, Index(alarms, main.next), Len(alarms)))
  /\ Goto("arm")
  /\ UNCHANGED <<now, sect, procs, pids, current, timer, sigalrm, g_next_cycle,
                 last_cycle, handler, fault, bounds>>

(* NextAlarm as WaitForCycle runs it: read the first alarm, ...            *)
ReadHead ==
  /\ MainAt("arm")
  /\ alarms' = SkipRemoved(alarms)
  /\ fault' = IF alarms'[1].isset THEN "isset" ELSE fault
  /\ main' = [main EXCEPT !.pc = "isset", !.at = Id(alarms'[1]), !.value = alarms'[1].exptime]
  /\ UNCHANGED <<now, sect, procs, pids, current, timer, sigalrm, g_next_cycle,
                 last_cycle, handler, bounds>>

(* ... mark it set (the compiler may or may not load alarms again), ...    *)
MarkSet ==
  /\ MainAt("isset")
  /\ \E id \in {main.at, Id(alarms[1])} :
        alarms' = [alarms EXCEPT ![Index(alarms, id)].isset = TRUE]
  /\ Goto("setitimer")
  /\ UNCHANGED <<now, sect, procs, pids, current, timer, sigalrm, g_next_cycle,
                 last_cycle, handler, fault, bounds>>

\* mutant: the timer is not set
SetTimerForgets ==
  /\ MainAt("setitimer")
  /\ Goto("time")
  /\ UNCHANGED <<now, sect, procs, pids, current, alarms, timer, sigalrm, g_next_cycle,
                 last_cycle, handler, fault, bounds>>

(* ... and set the timer.                                                  *)
SetTimer ==
  /\ MainAt("setitimer")
  /\ timer' = main.value
  /\ Goto("time")
  /\ UNCHANGED <<now, sect, procs, pids, current, alarms, sigalrm, g_next_cycle,
                 last_cycle, handler, fault, bounds>>

(* The main loop skips a cycle it has already seen; otherwise it reads and *)
(* writes the parameters (at "save").                                      *)
NewCycle ==
  /\ MainAt("time")
  /\ IF now \div Period <= last_cycle \div Period
     THEN Goto("suspend") /\ UNCHANGED last_cycle
     ELSE main' = [main EXCEPT !.pc = "save", !.t = now] /\ last_cycle' = now
  /\ UNCHANGED <<now, sect, procs, pids, current, alarms, timer, sigalrm, g_next_cycle,
                 handler, fault, bounds>>

SaveParams ==
  /\ MainAt("save")
  /\ main' = [main EXCEPT !.pc = "mark", !.i = 1]
  /\ UNCHANGED <<now, sect, procs, pids, current, alarms, timer, sigalrm, g_next_cycle,
                 last_cycle, handler, fault, bounds>>

(* MarkToRun: one section after the other, then review them from the first.*)
MarkToRun ==
  /\ MainAt("mark")
  /\ \/ /\ main.i <= N
        /\ sect' = [sect EXCEPT ![main.i].torun =
                      sect[main.i].fails > 0 \/ CheckTime(main.i, main.t)]
        /\ main' = [main EXCEPT !.i = @ + 1]
        /\ UNCHANGED current
     \/ /\ main.i > N
        /\ current' = IF N = 0 THEN NULL ELSE 1
        /\ Goto("run")
        /\ UNCHANGED sect
  /\ UNCHANGED <<now, procs, pids, alarms, timer, sigalrm, g_next_cycle, last_cycle,
                 handler, fault, bounds>>

(* RunSections, called from the main loop.  It loads current for the loop  *)
(* test and CheckRun ...                                                   *)
ReviewSection ==
  /\ MainAt("run")
  /\ IF current = NULL THEN Goto("suspend")
     ELSE main' = [main EXCEPT !.pc = "check", !.s = current]
  /\ UNCHANGED <<now, sect, procs, pids, current, alarms, timer, sigalrm, g_next_cycle,
                 last_cycle, handler, fault, bounds>>

CheckSection ==
  /\ MainAt("check")
  /\ IF CheckRun(main.s) THEN Goto("launch") ELSE Goto("advance")
  /\ UNCHANGED <<now, sect, procs, pids, current, alarms, timer, sigalrm, g_next_cycle,
                 last_cycle, handler, fault, bounds>>

(* ... again for Launch, after the call of CheckRun ...                    *)
LaunchSection ==
  /\ MainAt("launch")
  /\ IF current = NULL
     THEN /\ fault' = "null"
          /\ UNCHANGED <<now, sect, procs, pids, alarms, timer, sigalrm, forkfails>>
     ELSE Launch(current)
  /\ Goto("launched")
  /\ UNCHANGED <<current, g_next_cycle, last_cycle, handler, stops, skews>>

(* ... the check for a section to wait for ...                             *)
CheckParallel ==
  /\ MainAt("launched")
  /\ IF current = NULL \/ ~Sections[current].parallel THEN Goto("suspend") ELSE Goto("advance")
  /\ UNCHANGED <<now, sect, procs, pids, current, alarms, timer, sigalrm, g_next_cycle,
                 last_cycle, handler, fault, bounds>>

(* ... and current = current->GetNext().  At every load the handler may    *)
(* have moved current on, to NULL if there is nothing left to run.         *)
Advance ==
  /\ MainAt("advance")
  /\ IF current = NULL
     THEN fault' = "null" /\ UNCHANGED <<current, main>>
     ELSE current' = GetNext(current) /\ Goto("run") /\ UNCHANGED fault
  /\ UNCHANGED <<now, sect, procs, pids, alarms, timer, sigalrm, g_next_cycle,
                 last_cycle, handler, bounds>>

-----------------------------------------------------------------------------
(* SigChldHandler.  It preempts the main loop when a child has changed     *)
(* state, and runs until waitpid has nothing more to report.               *)
SigChld ==
  /\ handler = "none" /\ fault = "none"
  /\ \E p \in procs : Reported(p)
  /\ handler' = "reap"
  /\ UNCHANGED <<now, sect, procs, pids, current, alarms, timer, sigalrm, g_next_cycle,
                 last_cycle, main, fault, bounds>>

(* CheckRetry, for a section whose run has failed.                         *)
CheckRetry(s) ==
  IF Sections[s].retry = 0 THEN sect[s].fails
  ELSE IF sect[s].fails < Sections[s].retry THEN sect[s].fails + 1 ELSE 0

\* mutant: the pid is not cleared
ReturnedKeepsPid(s, failed) ==
  [sect[s] EXCEPT !.fails = IF failed THEN CheckRetry(s) ELSE @]

(* A section whose command has returned: ClearPid, and CheckRetry if it    *)
(* failed.  A success leaves the count of failures alone.                  *)
Returned(s, failed) ==
  [sect[s] EXCEPT !.pid = 0, !.fails = IF failed THEN CheckRetry(s) ELSE @]

(* The alarms of a section are removed, all but the one that is set.       *)
RemoveAlarms(e) ==
  [i \in DOMAIN alarms |->
     IF alarms[i].section = e /\ ~alarms[i].isset
     THEN [alarms[i] EXCEPT !.removed = TRUE] ELSE alarms[i]]

(* One child: remove the alarms of its section, clear its pid, count the   *)
(* failure, and go on with the list if this section was being waited for.  *)
Reap(p) ==
  LET e == IF \E s \in 1 .. N : sect[s].pid = p.pid
           THEN CHOOSE s \in 1 .. N : sect[s].pid = p.pid ELSE NULL
      failed == p.state # "exited"
  IN  /\ handler = "reap" /\ fault = "none" /\ Reported(p)
      /\ procs' = (procs \ {p}) \union
                  (IF p.state = "stopped" THEN {[p EXCEPT !.state = "suspended"]} ELSE {})
      /\ IF e = NULL
         THEN fault' = "child" /\ UNCHANGED <<sect, current, alarms, handler>>
         ELSE /\ alarms' = RemoveAlarms(e)
              /\ sect' = [sect EXCEPT ![e] = Returned(e, failed)]
              /\ IF current = e
                 THEN current' = GetNext(e) /\ handler' = "run"
                 ELSE UNCHANGED <<current, handler>>
              /\ UNCHANGED fault
      /\ UNCHANGED <<now, pids, timer, sigalrm, g_next_cycle, last_cycle, main, bounds>>

(* RunSections, called from the handler: no signal comes between its steps.*)
HandlerRunSections ==
  /\ handler = "run" /\ fault = "none"
  /\ \/ /\ current = NULL
        /\ handler' = "reap"
        /\ UNCHANGED <<now, sect, procs, pids, current, alarms, timer, sigalrm, fault, forkfails>>
     \/ /\ current # NULL /\ ~CheckRun(current)
        /\ current' = GetNext(current)
        /\ UNCHANGED <<now, sect, procs, pids, alarms, timer, sigalrm, fault, forkfails, handler>>
     \/ /\ current # NULL /\ CheckRun(current)
        /\ Launch(current)
        /\ IF Sections[current].parallel
           THEN current' = GetNext(current) /\ UNCHANGED handler
           ELSE handler' = "reap" /\ UNCHANGED current
  /\ UNCHANGED <<g_next_cycle, last_cycle, main, stops, skews>>

SigChldReturns ==
  /\ handler = "reap" /\ fault = "none"
  /\ \A p \in procs : ~Reported(p)
  /\ handler' = "none"
  /\ UNCHANGED <<now, sect, procs, pids, current, alarms, timer, sigalrm, g_next_cycle,
                 last_cycle, main, fault, bounds>>

-----------------------------------------------------------------------------
(* The process that the alarm a is to interrupt, and what SIGKILL does.    *)
Hits(a, p) == a.kind \in {"STRM", "SKILL"} /\ ~a.removed /\ sect[a.section].pid = p.pid

Signal(a, p) == IF Hits(a, p) /\ a.kind = "SKILL" THEN [p EXCEPT !.killed = TRUE] ELSE p

(* SigAlrmHandler: act on the first alarm, pop it and set the timer for    *)
(* the next one, unless it was the alarm of the new cycle.  The timer that *)
(* is replaced may expire while the handler runs (late).                   *)
SigAlrm(late) ==
  LET a    == alarms[1]
      rest == SkipRemoved(Tail(alarms))
  IN  /\ sigalrm /\ handler = "none" /\ fault = "none"
      /\ late => timer # Never /\ timer <= now
      /\ sigalrm' = late
      /\ IF alarms = <<>> \/ ~alarms[1].isset
         THEN fault' = "alarm" /\ UNCHANGED <<procs, alarms, timer, g_next_cycle>>
         ELSE /\ procs' = {Signal(a, p) : p \in procs}
              /\ g_next_cycle' = (g_next_cycle \/ a.kind = "NEWCL")
              /\ IF a.kind = "NEWCL"
                 THEN /\ alarms' = Tail(alarms)
                      /\ timer' = (IF late THEN Never ELSE timer)
                      /\ UNCHANGED fault
                 ELSE /\ alarms' = [i \in DOMAIN rest |->
                                     IF i = 1 THEN [rest[i] EXCEPT !.isset = TRUE] ELSE rest[i]]
                      /\ timer' = (IF rest # <<>> THEN rest[1].exptime
                                   ELSE IF late THEN Never ELSE timer)
                      /\ fault' = (IF rest # <<>> /\ rest[1].isset THEN "isset" ELSE fault)
      /\ UNCHANGED <<now, sect, pids, current, last_cycle, main, handler, bounds>>

(* The interval timer expires.                                             *)
Expire ==
  /\ timer # Never /\ timer <= now /\ fault = "none"
  /\ timer' = Never
  /\ sigalrm' = TRUE
  /\ UNCHANGED <<now, sect, procs, pids, current, alarms, g_next_cycle, last_cycle,
                 main, handler, fault, bounds>>

-----------------------------------------------------------------------------
(* The children and the clock.                                             *)
ChildChanges(p, state) ==
  /\ fault = "none"
  /\ procs' = (procs \ {p}) \union {[p EXCEPT !.state = state]}
  /\ UNCHANGED <<now, sect, pids, current, alarms, timer, sigalrm, g_next_cycle,
                 last_cycle, main, handler, fault, forkfails, skews>>

Exit(p) ==
  /\ p.state = "runs"
  /\ \/ ~p.killed /\ ChildChanges(p, "exited")
     \/ ChildChanges(p, "failed")
  /\ UNCHANGED stops

Stop(p) ==
  /\ p.state = "runs" /\ ~p.killed /\ stops < MaxStops
  /\ stops' = stops + 1
  /\ ChildChanges(p, "stopped")

Continue(p) ==
  /\ p.state = "suspended"
  /\ ChildChanges(p, "runs")
  /\ UNCHANGED stops

(* A signal is handled, and a timer expires, within a second.              *)
Tick ==
  /\ now < MaxTime /\ fault = "none"
  /\ ~sigalrm /\ (timer = Never \/ now <= timer)
  /\ now' = now + 1
  /\ UNCHANGED <<sect, procs, pids, current, alarms, timer, sigalrm, g_next_cycle,
                 last_cycle, main, handler, fault, bounds>>

(* The clock is set back; the timer runs on.  A timer that is overdue      *)
(* expires as soon as possible, before that.                               *)
ClockBack ==
  /\ skews < MaxSkews /\ now > Period /\ fault = "none"
  /\ timer = Never \/ now <= timer
  /\ skews' = skews + 1
  /\ now' = now - 1
  /\ timer' = (IF timer = Never THEN Never ELSE timer - 1)
  /\ UNCHANGED <<sect, procs, pids, current, alarms, sigalrm, g_next_cycle, last_cycle,
                 main, handler, fault, forkfails, stops>>

(* The end of the horizon, or of the program.                              *)
Halted == (now = MaxTime \/ fault # "none") /\ UNCHANGED vars

MainLoop == \/ WaitForCycle \/ FindPlace \/ LinkAlarm \/ ReadHead \/ MarkSet \/ SetTimer
            \/ NewCycle \/ SaveParams \/ MarkToRun \/ ReviewSection \/ CheckSection
            \/ LaunchSection \/ CheckParallel \/ Advance

ChildHandler == SigChld \/ (\E p \in procs : Reap(p)) \/ HandlerRunSections \/ SigChldReturns

AlarmHandler == \E late \in BOOLEAN : SigAlrm(late)

Next == \/ MainLoop \/ ChildHandler \/ AlarmHandler \/ Expire
        \/ \E p \in procs : Exit(p) \/ Stop(p) \/ Continue(p)
        \/ Tick \/ ClockBack \/ Halted

Spec == Init /\ [][Next]_vars
-----------------------------------------------------------------------------
AlarmType ==
  [kind : {"NEWCL", "STRM", "SKILL"}, section : 0 .. N, run : Nat, exptime : Int,
   isset : BOOLEAN, removed : BOOLEAN]

(* Every variable has its type.                                            *)
TypeOK ==
  /\ now \in Nat /\ pids \in Nat /\ last_cycle \in Nat
  /\ sect \in [1 .. N -> [pid : Int, fails : Nat, torun : BOOLEAN]]
  /\ procs \subseteq [pid : Nat \ {0}, section : 1 .. N, killed : BOOLEAN, start : Nat,
                      state : {"runs", "exited", "failed", "stopped", "suspended"}]
  /\ current \in 0 .. N
  /\ alarms \in Seq(AlarmType)
  /\ timer \in Int /\ sigalrm \in BOOLEAN /\ g_next_cycle \in BOOLEAN
  /\ main.pc \in {"suspend", "insert", "link", "arm", "isset", "setitimer", "time", "save",
                  "mark", "run", "check", "launch", "launched", "advance"}
  /\ main.i \in 0 .. N + 1 /\ main.s \in 0 .. N /\ main.t \in Nat /\ main.new \in AlarmType
  /\ handler \in {"none", "reap", "run"}
  /\ fault \in {"none", "isset", "null", "child", "alarm", "launch"}
  /\ forkfails \in Nat /\ stops \in Nat /\ skews \in Nat

(* A section never has two processes: while no child has been stopped by a *)
(* signal, the processes are exactly the pids recorded in the sections, so *)
(* SigChldHandler finds the section of every child it reaps.               *)
OneProcess ==
  stops = 0 =>
    /\ \A p \in procs : sect[p.section].pid = p.pid
    /\ \A s \in 1 .. N : sect[s].pid > 0 => \E p \in procs : p.pid = sect[s].pid
    /\ fault # "child"

(* The list of alarms stays sorted by expiration time, whatever handler    *)
(* runs in the middle of the InsertAlarm of the main loop.                 *)
AlarmsSorted ==
  \A i, j \in DOMAIN alarms : i < j => alarms[i].exptime <= alarms[j].exptime

(* There is always exactly one alarm for the next cycle, from the moment   *)
(* WaitForCycle has inserted it to the moment it fires: no handler loses   *)
(* it and no cycle is announced twice.                                     *)
OneCycleAlarm ==
  LET pending == {i \in DOMAIN alarms : alarms[i].kind = "NEWCL"}
  IN  IF g_next_cycle \/ main.pc \in {"insert", "link"} THEN pending = {}
      ELSE \E i \in DOMAIN alarms : pending = {i} /\ ~alarms[i].removed

Arming == g_next_cycle \/ main.pc \in {"insert", "link", "arm", "isset", "setitimer"}

(* Unless the main loop is about to set it, the timer runs, for an alarm   *)
(* no later than the first of the list, and that alarm is marked as set.   *)
AlarmsArmed ==
  ~Arming => /\ alarms # <<>> /\ alarms[1].isset
             /\ sigalrm \/ (timer # Never /\ timer <= alarms[1].exptime)

(* A command with a limit does not outlive it: when the main loop waits    *)
(* and no signal is due, a command that is still running a second after    *)
(* its limit was sent SIGKILL (meaner3.cc, option limit).                  *)
LimitEnforced ==
  \A p \in procs :
     LET limit == Limit(Sections[p.section].limitstr) IN
     (/\ main.pc = "suspend" /\ handler = "none" /\ ~g_next_cycle /\ ~sigalrm
      /\ (timer = Never \/ now <= timer) /\ limit # 0 /\ now > CycleStart(p.start) + limit + 1)
        => p.killed

(* The kernel delivers pending signals, the timer expires, the clock goes  *)
(* on, and the main loop is not starved: it never waits but in sigsuspend. *)
Fairness == /\ WF_vars(MainLoop) /\ WF_vars(ChildHandler)
            /\ WF_vars(AlarmHandler) /\ WF_vars(Expire) /\ WF_vars(Tick)

FairSpec == Spec /\ Fairness

(* meaner3 never sleeps through a cycle for good: once the clock reaches a *)
(* cycle, the main loop saves the parameters in it or in a later one,      *)
(* whatever the handlers do to the timer, unless the program has stopped.  *)
CyclesSaved ==
  \A c \in 2 .. (MaxTime \div Period) - 1 :
     now >= c * Period ~> (last_cycle >= c * Period \/ fault # "none")
=============================================================================
