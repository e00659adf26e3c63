------------------------------- MODULE Sender -------------------------------
(***************************************************************************)
(* Set points on their way to the devices: sender reads them from the      *)
(* shared memory and puts them in the message queue Set (SendSter), the    *)
(* line daemons take them out, send them to their unit until it answers    *)
(* (PrepareCommand, ReadReport of linedmn) and confirm them in the queue   *)
(* Rply, which sender reads at the end of its period (ReadReply).  One     *)
(* step per msgsnd() and msgrcv() of sender; the daemons run in between.   *)
(***************************************************************************)
EXTENDS Integers, Sequences, FiniteSets

CONSTANTS
  NumberOfPars,  \* set points, in the order of the configuration
  Configs,       \* configurations: the unit (and daemon) of every set point
  SendNoData,    \* set points that are sent when they have no data
  Values,        \* values of set points
  NoData,
  QMax,          \* messages the queue Set can hold
  RMax,          \* messages the queue Rply can hold
  Fits,          \* values that fit into a command to a unit
  Retry,         \* how often a daemon tries to set a value
  MaxEvents      \* bound on changes of set points and deaths of daemons

Pars == 1 .. NumberOfPars
Units == UNION {{c[i] : i \in Pars} : c \in Configs}
Contents == Values \cup {NoData}

ASSUME SenderAssumption ==
  /\ NumberOfPars \in Nat \ {0} /\ Retry \in 1 .. 255
  /\ QMax \in Nat /\ RMax \in Nat /\ Fits \in Nat
  /\ Configs \subseteq [Pars -> Units]
  /\ SendNoData \subseteq Pars /\ NoData \notin Values

VARIABLES
  unit,     \* unit[i]: the unit of set point i, from the configuration
  want,     \* want[i]: the parameter set point i follows, in shared memory
  pc, k,    \* where sender is, and the set point it is at
  pass,     \* the pass of SendSter
  allsent,
  val,      \* val[i]: SterInfo[i].msg.cont.value
  status,   \* status[i]: SterInfo[i].status
  setq,     \* the queue Set
  rplyq,    \* rplyq[i]: the messages for set point i in the queue Rply
  up,       \* units whose daemon is running
  phase,    \* phase[u]: where the daemon is
  sending,  \* sending[i]: Sending of the daemon, tries left
  pars,     \* pars[i]: Pars of the daemon
  command,  \* command[u]: the set points in the command sent to u
  given,    \* history: the value the daemon received last
  device,   \* history: the values a unit has been sent and has answered to
  crowded,  \* history: a command had no room for all values
  events

sender == <<pc, k, pass, allsent, val, status>>
daemons == <<up, phase, sending, pars, command>>
history == <<given, device, crowded>>
svars == <<unit, want, sender, setq, rplyq, daemons, history, events>>

Mine(u) == {i \in Pars : unit[i] = u}

Init ==
  /\ unit \in Configs /\ want \in [Pars -> Contents]
  /\ pc = "get" /\ k = 1 /\ pass = 1 /\ allsent = TRUE
  /\ val = [i \in Pars |-> NoData] /\ status = [i \in Pars |-> "SEND"]
  /\ setq = <<>> /\ rplyq = [i \in Pars |-> <<>>]
  /\ up \in SUBSET Units /\ phase = [u \in Units |-> "prepare"]
  /\ sending = [i \in Pars |-> 0] /\ pars = [i \in Pars |-> NoData]
  /\ command = [u \in Units |-> {}]
  /\ given = [i \in Pars |-> NoData] /\ device = [i \in Pars |-> {}]
  /\ crowded = FALSE /\ events = 0

\* Whoever sets the parameter, parcook for instance.
Change(i) ==
  /\ events < MaxEvents /\ events' = events + 1
  /\ \E v \in Contents : want' = [want EXCEPT ![i] = v]
  /\ UNCHANGED <<unit, sender, setq, rplyq, daemons, history>>

(***************************************************************************)
(* sender                                                                  *)
(***************************************************************************)

\* Each parameter is read inside its own lock; no property relates two of
\* them, so that one step stands for all.  A constant set point is one that
\* does not change.
GetSharedData ==
  /\ pc = "get"
  /\ val' = want
  /\ status' = [i \in Pars |->
        IF want[i] # NoData \/ i \in SendNoData THEN "SEND" ELSE "NOSEND"]
  /\ pc' = "send" /\ k' = 1 /\ pass' = 1 /\ allsent' = TRUE
  /\ UNCHANGED <<unit, want, setq, rplyq, daemons, history, events>>

\* SendSter: a message is sent if there is room for it.
SendOne ==
  /\ pc = "send"
  /\ IF status[k] # "SEND" THEN UNCHANGED <<setq, status, allsent>>
     ELSE IF Len(setq) < QMax
          THEN /\ setq' = Append(setq, [par |-> k, val |-> val[k]])
               /\ status' = [status EXCEPT ![k] = "CONF"]
               /\ UNCHANGED allsent
          ELSE allsent' = FALSE /\ UNCHANGED <<setq, status>>
  /\ k' = IF k < NumberOfPars THEN k + 1 ELSE 1
  /\ pc' = IF k < NumberOfPars THEN "send" ELSE IF allsent' THEN "sleep" ELSE "trim"
  /\ UNCHANGED <<unit, want, pass, val, rplyq, daemons, history, events>>

\* Mutant: no room is made.
TrimOneKeeps ==
  /\ pc = "trim"
  /\ k' = IF k < NumberOfPars THEN k + 1 ELSE 1
  /\ pc' = IF k < NumberOfPars THEN "trim" ELSE IF pass = 1 THEN "send" ELSE "sleep"
  /\ pass' = IF k < NumberOfPars THEN pass ELSE 2
  /\ allsent' = (k = NumberOfPars)
  /\ UNCHANGED <<unit, want, val, status, setq, rplyq, daemons, history, events>>

\* SendSter: not all were sent, so as many of the oldest messages, whoever
\* they are for, are removed as there are set points.
TrimOne ==
  /\ pc = "trim"
  /\ setq' = IF setq = <<>> THEN setq ELSE Tail(setq)
  /\ k' = IF k < NumberOfPars THEN k + 1 ELSE 1
  /\ pc' = IF k < NumberOfPars THEN "trim" ELSE IF pass = 1 THEN "send" ELSE "sleep"
  /\ pass' = IF k < NumberOfPars THEN pass ELSE 2
  /\ allsent' = (k = NumberOfPars)
  /\ UNCHANGED <<unit, want, val, status, rplyq, daemons, history, events>>

Sleep ==
  /\ pc = "sleep"
  /\ pc' = "reply"
  /\ UNCHANGED <<unit, want, k, pass, allsent, val, status, setq, rplyq, daemons, history, events>>

\* Mutant: any answer will do.
ReadReplyAnyValue ==
  /\ pc = "reply"
  /\ status' = IF status[k] = "CONF" /\ rplyq[k] # <<>>
               THEN [status EXCEPT ![k] = IF rplyq[k][1].retry = 0 THEN "NOREP" ELSE "OK"]
               ELSE status
  /\ rplyq' = [rplyq EXCEPT ![k] = <<>>]
  /\ k' = IF k < NumberOfPars THEN k + 1 ELSE 1
  /\ pc' = IF k < NumberOfPars THEN "reply" ELSE "drain"
  /\ UNCHANGED <<unit, want, pass, allsent, val, setq, daemons, history, events>>

\* ReadReply: the messages for set point k.  One with the value that was
\* sent confirms it, or reports failure when no try was left.
ReadReply ==
  /\ pc = "reply"
  /\ LET match == {j \in 1 .. Len(rplyq[k]) : rplyq[k][j].val = val[k]}
         first == CHOOSE j \in match : \A n \in match : j =< n
     IN  status' = IF status[k] = "CONF" /\ match # {}
                   THEN [status EXCEPT ![k] = IF rplyq[k][first].retry = 0 THEN "NOREP" ELSE "OK"]
                   ELSE status
  /\ rplyq' = [rplyq EXCEPT ![k] = <<>>]
  /\ k' = IF k < NumberOfPars THEN k + 1 ELSE 1
  /\ pc' = IF k < NumberOfPars THEN "reply" ELSE "drain"
  /\ UNCHANGED <<unit, want, pass, allsent, val, setq, daemons, history, events>>

\* All other messages are removed.
Drain ==
  /\ pc = "drain"
  /\ rplyq' = [i \in Pars |-> <<>>]
  /\ pc' = "get"
  /\ UNCHANGED <<unit, want, k, pass, allsent, val, status, setq, daemons, history, events>>

(***************************************************************************)
(* linedmn                                                                 *)
(***************************************************************************)

Waiting(u) == {j \in 1 .. Len(setq) : unit[setq[j].par] = u}

\* PrepareCommand: takes the first message for the unit, for set point i.
Receive(i) ==
  LET u == unit[i]
  IN  /\ u \in up /\ phase[u] = "prepare"
      /\ \E j \in Waiting(u) :
           /\ setq[j].par = i /\ \A n \in Waiting(u) : j =< n
           /\ sending' = [sending EXCEPT ![i] = Retry]
           /\ pars' = [pars EXCEPT ![i] = setq[j].val]
           /\ given' = [given EXCEPT ![i] = setq[j].val]
           /\ setq' = SubSeq(setq, 1, j - 1) \o SubSeq(setq, j + 1, Len(setq))
      /\ UNCHANGED <<unit, want, sender, rplyq, up, phase, command, device, crowded, events>>

Due(u) == {i \in Mine(u) : sending[i] > 0}

\* There are no more: the values to be set go into the command as long as
\* there is room, and the command is written to the unit.  (A command without
\* values polls the unit and changes nothing here.)
PrepareCommand(u) ==
  /\ u \in up /\ phase[u] = "prepare" /\ Waiting(u) = {} /\ Due(u) # {}
  /\ phase' = [phase EXCEPT ![u] = "report"]
  /\ command' = [command EXCEPT ![u] =
        {i \in Due(u) : Cardinality({n \in Due(u) : n < i}) < Fits}]
  /\ crowded' = (crowded \/ ~Due(u) \subseteq command'[u])
  /\ UNCHANGED <<unit, want, sender, setq, rplyq, up, sending, pars, given, device, events>>

\* ReadReport, a good answer.
ReportOk(u) ==
  /\ u \in up /\ phase[u] = "report"
  /\ phase' = [phase EXCEPT ![u] = "confirm"]
  /\ device' = [i \in Pars |-> IF i \in command[u] THEN device[i] \cup {pars[i]} ELSE device[i]]
  /\ UNCHANGED <<unit, want, sender, setq, rplyq, up, sending, pars, command, given, crowded, events>>

Queued == LET count[i \in 0 .. NumberOfPars] == IF i = 0 THEN 0 ELSE count[i-1] + Len(rplyq[i])
          IN  count[NumberOfPars]

\* Then everything that was to be set is confirmed, in or out of the
\* command, if there is room in the queue.
Confirm(u) ==
  /\ u \in up /\ phase[u] = "confirm"
  /\ \E i \in Due(u) :
       /\ \A n \in Due(u) : i =< n
       /\ rplyq' = IF sending[i] = 255 \/ Queued >= RMax THEN rplyq
                   ELSE [rplyq EXCEPT ![i] = Append(@, [val |-> pars[i], retry |-> sending[i]])]
       /\ sending' = [sending EXCEPT ![i] = 0]
       /\ pars' = [pars EXCEPT ![i] = NoData]
       /\ phase' = [phase EXCEPT ![u] = IF Due(u) = {i} THEN "prepare" ELSE @]
       /\ command' = [command EXCEPT ![u] = IF Due(u) = {i} THEN {} ELSE @]
  /\ UNCHANGED <<unit, want, sender, setq, up, history, events>>

\* Mutant: also for what is not being set.
ReportBadAlways(u) ==
  /\ u \in up /\ phase[u] = "report"
  /\ phase' = [phase EXCEPT ![u] = "prepare"]
  /\ sending' = [i \in Pars |-> IF i \in Mine(u) THEN sending[i] - 1 ELSE sending[i]]
  /\ command' = [command EXCEPT ![u] = {}]
  /\ UNCHANGED <<unit, want, sender, setq, rplyq, up, pars, history, events>>

\* ReadReport, no answer or a bad one: one try less.  That none is left is
\* told to sender in diagnostic mode only.
ReportBad(u) ==
  /\ u \in up /\ phase[u] = "report"
  /\ phase' = [phase EXCEPT ![u] = "prepare"]
  /\ sending' = [i \in Pars |-> IF i \in Due(u) THEN sending[i] - 1 ELSE sending[i]]
  /\ command' = [command EXCEPT ![u] = {}]
  /\ UNCHANGED <<unit, want, sender, setq, rplyq, up, pars, history, events>>

\* The daemon dies; when it is started its tables are empty.
Die(u) ==
  /\ u \in up /\ up' = up \ {u}
  /\ events < MaxEvents /\ events' = events + 1
  /\ phase' = [phase EXCEPT ![u] = "prepare"]
  /\ sending' = [i \in Pars |-> IF unit[i] = u THEN 0 ELSE sending[i]]
  /\ pars' = [i \in Pars |-> IF unit[i] = u THEN NoData ELSE pars[i]]
  /\ command' = [command EXCEPT ![u] = {}]
  /\ UNCHANGED <<unit, want, sender, setq, rplyq, history>>

Start(u) ==
  /\ u \notin up /\ up' = up \cup {u}
  /\ UNCHANGED <<unit, want, sender, setq, rplyq, phase, sending, pars, command, history, events>>

SenderStep == GetSharedData \/ SendOne \/ TrimOne \/ Sleep \/ ReadReply \/ Drain
DaemonStep(u) ==
  \/ \E i \in Mine(u) : Receive(i)
  \/ PrepareCommand(u) \/ ReportOk(u) \/ ReportBad(u) \/ Confirm(u)

Next ==
  \/ SenderStep
  \/ \E i \in Pars : Change(i)
  \/ \E u \in Units : DaemonStep(u) \/ Die(u) \/ Start(u)

Spec == Init /\ [][Next]_svars

\* sender, and the daemons that have not died, keep running.
FairSpec == Spec /\ WF_svars(SenderStep) /\ \A u \in Units : WF_svars(DaemonStep(u))

(***************************************************************************)
(* Properties                                                              *)
(***************************************************************************)

\* Type correctness; the queues keep to their limits.
TypeOK ==
  /\ unit \in Configs /\ want \in [Pars -> Contents]
  /\ pc \in {"get", "send", "trim", "sleep", "reply", "drain"}
  /\ k \in Pars /\ pass \in {1, 2} /\ allsent \in BOOLEAN
  /\ val \in [Pars -> Contents]
  /\ status \in [Pars -> {"SEND", "CONF", "OK", "NOREP", "NOSEND"}]
  /\ setq \in Seq([par : Pars, val : Contents]) /\ Len(setq) =< QMax
  /\ rplyq \in [Pars -> Seq([val : Contents, retry : 1 .. Retry])]
  /\ up \subseteq Units /\ phase \in [Units -> {"prepare", "report", "confirm"}]
  /\ sending \in [Pars -> 0 .. Retry] /\ pars \in [Pars -> Contents]
  /\ command \in [Units -> SUBSET Pars]
  /\ given \in [Pars -> Contents] /\ device \in [Pars -> SUBSET Contents]
  /\ crowded \in BOOLEAN /\ events \in Nat

\* A set point that sender counts as confirmed has been sent to its unit and
\* answered, whatever happens to messages, replies and daemons: unless a
\* command had no room for a value, for then linedmn confirms it all the
\* same.
ConfirmedIsSet ==
  ~crowded => \A i \in Pars : status[i] = "OK" => val[i] \in device[i]

\* A daemon does not for ever miss a set point that is in the queue during
\* one sleep of sender after another.
Patient(i) ==
  []<>(pc = "sleep" /\ \E j \in 1 .. Len(setq) : setq[j].par = i) => []<><<Receive(i)>>_svars

\* A set point that stays as it is reaches its daemon, if that keeps running
\* and polls while sender sleeps, and is not replaced by an older value,
\* though the queue is shared with the messages to daemons that do not take
\* theirs: when it is full sender makes room.
SetPointArrives ==
  \A i \in Pars, v \in Values :
     <>[](want[i] = v /\ unit[i] \in up) /\ Patient(i) => <>[](given[i] = v)

=============================================================================
