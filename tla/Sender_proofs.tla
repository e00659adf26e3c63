--------------------------- MODULE Sender_proofs ---------------------------
(***************************************************************************)
(* Proofs about Sender, for any number of set points, units and tries and  *)
(* any size of the queues: what sender takes for confirmed has been set.   *)
(***************************************************************************)
EXTENDS Sender, SequenceTheorems, TLAPS

Message == [par : Pars, val : Contents]
Reply   == [val : Contents, retry : 1 .. Retry]

\* The command that was written holds all that is to be set, and once it was
\* answered the unit has it.
CommandOK ==
  \A u \in Units, i \in Pars :
     i \in Due(u) /\ phase[u] # "prepare" =>
        /\ i \in command[u]
        /\ phase[u] = "confirm" => pars[i] \in device[i]

\* Replies are about values that have been set.
RepliesOK == \A i \in Pars : \A j \in 1 .. Len(rplyq[i]) : rplyq[i][j].val \in device[i]

SInv == TypeOK /\ (~crowded => CommandOK /\ RepliesOK) /\ ConfirmedIsSet

-----------------------------------------------------------------------------
(* Every parameter has a unit.                                             *)
LEMMA UnitOf == TypeOK => \A i \in Pars : unit[i] \in Units
BY SenderAssumption DEF TypeOK

(* The parameters are numbered from 1 to NumberOfPars.                     *)
LEMMA ParNumbers == NumberOfPars \in Nat \ {0} /\ Pars \subseteq Int /\ 1 \in Pars
                    /\ \A n \in Pars : n < NumberOfPars => n + 1 \in Pars
BY SenderAssumption DEF Pars

(* Initially nothing is confirmed. *)
LEMMA InitInv == Init => SInv
<1> SUFFICES ASSUME Init PROVE SInv
  OBVIOUS
<1>1. unit \in Configs /\ want \in [Pars -> Contents] /\ pc = "get" /\ k \in Pars
      /\ pass \in {1, 2} /\ allsent \in BOOLEAN
  BY ParNumbers DEF Init
<1>2. val \in [Pars -> Contents] /\ status \in [Pars -> {"SEND", "CONF", "OK", "NOREP", "NOSEND"}]
  BY DEF Init, Contents
<1>3. setq \in Seq(Message) /\ Len(setq) =< QMax
  BY SenderAssumption, EmptySeq DEF Init
<1>4. rplyq \in [Pars -> Seq(Reply)]
  BY EmptySeq DEF Init
<1>5. up \subseteq Units /\ phase \in [Units -> {"prepare", "report", "confirm"}]
      /\ command \in [Units -> SUBSET Pars]
  BY DEF Init
<1>6. sending \in [Pars -> 0 .. Retry] /\ pars \in [Pars -> Contents]
  BY SenderAssumption DEF Init, Contents
<1>7. given \in [Pars -> Contents] /\ device \in [Pars -> SUBSET Contents]
      /\ crowded \in BOOLEAN /\ events \in Nat
  BY ZenonT(30) DEF Init, Contents
<1>8. TypeOK
  BY ZenonT(30), <1>1, <1>2, <1>3, <1>4, <1>5, <1>6, <1>7 DEF TypeOK, Message, Reply
<1>9. CommandOK
  BY DEF Init, CommandOK, Due, Mine
<1>10. RepliesOK
  BY EmptySeq DEF Init, RepliesOK
<1>11. ConfirmedIsSet
  BY DEF Init, ConfirmedIsSet
<1> QED BY <1>8, <1>9, <1>10, <1>11 DEF SInv

-----------------------------------------------------------------------------
(* Steps of sender that leave the daemons and the replies alone. *)
LEMMA SenderQuiet ==
  ASSUME SInv, UNCHANGED <<unit, daemons, history, events>>,
         want' \in [Pars -> Contents],
         pc' \in {"get", "send", "trim", "sleep", "reply", "drain"}, k' \in Pars,
         pass' \in {1, 2}, allsent' \in BOOLEAN, val' \in [Pars -> Contents],
         status' \in [Pars -> {"SEND", "CONF", "OK", "NOREP", "NOSEND"}],
         setq' \in Seq(Message), Len(setq') =< QMax,
         rplyq' \in [Pars -> Seq(Reply)],
         \A i \in Pars : rplyq'[i] \in {rplyq[i], <<>>},
         \A i \in Pars : status'[i] = "OK" =>
            val'[i] = val[i] /\ (status[i] = "OK" \/ (~crowded => val[i] \in device[i]))
  PROVE  SInv'
<1>1. UNCHANGED <<up, phase, sending, pars, command, given, device, crowded>>
  BY DEF daemons, history
<1>2. TypeOK'
  BY ZenonT(30), <1>1 DEF SInv, TypeOK, Message, Reply
<1>3. ASSUME ~crowded PROVE CommandOK'
  BY <1>1, <1>3 DEF SInv, CommandOK, Due, Mine
<1>4. ASSUME ~crowded PROVE RepliesOK'
  BY <1>1, <1>4, EmptySeq DEF SInv, RepliesOK
<1>5. ConfirmedIsSet'
  BY ZenonT(30), <1>1 DEF SInv, ConfirmedIsSet
<1> QED BY <1>1, <1>2, <1>3, <1>4, <1>5 DEF SInv

(* The types of the state sender works on. *)
LEMMA SenderTypes ==
  ASSUME SInv
  PROVE  /\ want \in [Pars -> Contents]
         /\ pc \in {"get", "send", "trim", "sleep", "reply", "drain"} /\ k \in Pars
         /\ pass \in {1, 2} /\ allsent \in BOOLEAN /\ val \in [Pars -> Contents]
         /\ status \in [Pars -> {"SEND", "CONF", "OK", "NOREP", "NOSEND"}]
         /\ setq \in Seq(Message) /\ Len(setq) =< QMax
         /\ rplyq \in [Pars -> Seq(Reply)]
BY ZenonT(30) DEF SInv, TypeOK, Message, Reply

(* GetSharedData, SendOne, TrimOne, Sleep, ReadReply and Drain. *)
LEMMA SenderSteps ==
  ASSUME SInv, SenderStep
  PROVE  SInv'
<1> DEFINE Statuses == {"SEND", "CONF", "OK", "NOREP", "NOSEND"}
<1>1. CASE GetSharedData
  <2>1. /\ val' = want /\ status' \in [Pars -> {"SEND", "NOSEND"}]
        /\ pc' = "send" /\ k' = 1 /\ pass' = 1 /\ allsent' = TRUE
        /\ UNCHANGED <<unit, want, setq, rplyq, daemons, history, events>>
    BY <1>1 DEF GetSharedData
  <2>2. status' \in [Pars -> Statuses] /\ \A i \in Pars : status'[i] # "OK"
    BY <2>1
  <2> QED BY <2>1, <2>2, SenderTypes, ParNumbers, SenderQuiet
<1>2. CASE SendOne
  <2>1. /\ k' \in Pars /\ pc' \in {"send", "sleep", "trim"}
        /\ UNCHANGED <<unit, want, pass, val, rplyq, daemons, history, events>>
    BY ZenonT(30), <1>2, SenderTypes, ParNumbers DEF SendOne
  <2>2. /\ setq' = setq \/ (Len(setq) < QMax /\ setq' = Append(setq, [par |-> k, val |-> val[k]]))
        /\ allsent' \in BOOLEAN /\ status' \in {status, [status EXCEPT ![k] = "CONF"]}
    BY ZenonT(30), <1>2, SenderTypes DEF SendOne
  <2>3. [par |-> k, val |-> val[k]] \in Message
    BY SenderTypes DEF Message
  <2>4. setq' \in Seq(Message) /\ Len(setq') =< QMax
    <3>1. CASE setq' = setq
      BY <3>1, SenderTypes
    <3>2. CASE Len(setq) < QMax /\ setq' = Append(setq, [par |-> k, val |-> val[k]])
      <4>1. setq' \in Seq(Message) /\ Len(setq') = Len(setq) + 1
        BY <2>3, <3>2, SenderTypes, AppendProperties
      <4>2. Len(setq) \in Nat
        BY SenderTypes, LenProperties
      <4> QED BY <3>2, <4>1, <4>2, SenderAssumption
    <3> QED BY <2>2, <3>1, <3>2
  <2>5. status' \in [Pars -> Statuses] /\ \A i \in Pars : status'[i] = "OK" => status[i] = "OK"
    BY ZenonT(30), <2>2, SenderTypes
  <2> QED BY <2>1, <2>2, <2>4, <2>5, SenderTypes, SenderQuiet
<1>3. CASE TrimOne
  <2>1. /\ k' \in Pars /\ pc' \in {"trim", "send", "sleep"} /\ pass' \in {1, 2}
        /\ allsent' \in BOOLEAN
        /\ UNCHANGED <<unit, want, val, status, rplyq, daemons, history, events>>
    BY ZenonT(30), <1>3, SenderTypes, ParNumbers DEF TrimOne
  <2>2. setq' \in Seq(Message) /\ Len(setq') =< QMax
    BY <1>3, SenderTypes, HeadTailProperties, LenProperties, SenderAssumption DEF TrimOne
  <2> QED BY <2>1, <2>2, SenderTypes, SenderQuiet
<1>4. CASE Sleep
  <2>1. /\ pc' = "reply"
        /\ UNCHANGED <<unit, want, k, pass, allsent, val, status, setq, rplyq, daemons, history, events>>
    BY <1>4 DEF Sleep
  <2> QED BY <2>1, SenderTypes, SenderQuiet
<1>5. CASE ReadReply
  <2>1. /\ k' \in Pars /\ pc' \in {"reply", "drain"} /\ rplyq' = [rplyq EXCEPT ![k] = <<>>]
        /\ UNCHANGED <<unit, want, pass, allsent, val, setq, daemons, history, events>>
    BY ZenonT(30), <1>5, SenderTypes, ParNumbers DEF ReadReply
  <2>2. rplyq' \in [Pars -> Seq(Reply)] /\ \A i \in Pars : rplyq'[i] \in {rplyq[i], <<>>}
    BY SMTT(30), <2>1, SenderTypes, EmptySeq
  <2>3. \/ status' = status
        \/ /\ \E j \in 1 .. Len(rplyq[k]) : rplyq[k][j].val = val[k]
           /\ \E s \in {"NOREP", "OK"} : status' = [status EXCEPT ![k] = s]
    BY ZenonT(30), <1>5 DEF ReadReply
  <2>4. status' \in [Pars -> Statuses]
    BY ZenonT(30), <2>3, SenderTypes
  <2>5. ASSUME NEW i \in Pars, status'[i] = "OK", status[i] # "OK", ~crowded
        PROVE  val[i] \in device[i]
    <3>1. i = k /\ \E j \in 1 .. Len(rplyq[k]) : rplyq[k][j].val = val[k]
      BY <2>3, <2>5, SenderTypes
    <3> QED BY <3>1, <2>5 DEF SInv, RepliesOK
  <2> QED BY <2>1, <2>2, <2>4, <2>5, SenderTypes, SenderQuiet
<1>6. CASE Drain
  <2>1. /\ pc' = "get" /\ rplyq' = [i \in Pars |-> <<>>]
        /\ UNCHANGED <<unit, want, k, pass, allsent, val, status, setq, daemons, history, events>>
    BY <1>6 DEF Drain
  <2>2. rplyq' \in [Pars -> Seq(Reply)] /\ \A i \in Pars : rplyq'[i] = <<>>
    BY <2>1, EmptySeq
  <2> QED BY <2>1, <2>2, SenderTypes, SenderQuiet
<1> QED BY <1>1, <1>2, <1>3, <1>4, <1>5, <1>6 DEF SenderStep

-----------------------------------------------------------------------------
(* The types of the state of the daemons. *)
LEMMA DaemonTypes ==
  ASSUME SInv
  PROVE  /\ up \subseteq Units /\ phase \in [Units -> {"prepare", "report", "confirm"}]
         /\ sending \in [Pars -> 0 .. Retry] /\ pars \in [Pars -> Contents]
         /\ command \in [Units -> SUBSET Pars]
         /\ given \in [Pars -> Contents] /\ device \in [Pars -> SUBSET Contents]
         /\ crowded \in BOOLEAN /\ events \in Nat /\ rplyq \in [Pars -> Seq(Reply)]
BY ZenonT(30) DEF SInv, TypeOK, Reply

(* Steps of the daemons and of their surroundings: what has to be shown.  *)
LEMMA DaemonFrame ==
  ASSUME SInv, UNCHANGED <<unit, sender>>, want' \in [Pars -> Contents],
         setq' \in Seq(Message), Len(setq') =< QMax, rplyq' \in [Pars -> Seq(Reply)],
         up' \subseteq Units, phase' \in [Units -> {"prepare", "report", "confirm"}],
         sending' \in [Pars -> 0 .. Retry], pars' \in [Pars -> Contents],
         command' \in [Units -> SUBSET Pars], given' \in [Pars -> Contents],
         device' \in [Pars -> SUBSET Contents], \A i \in Pars : device[i] \subseteq device'[i],
         crowded' \in BOOLEAN, crowded => crowded', events' \in Nat,
         ~crowded' => CommandOK' /\ RepliesOK'
  PROVE  SInv'
<1>1. UNCHANGED <<pc, k, pass, allsent, val, status>>
  BY DEF sender
<1>2. TypeOK'
  BY ZenonT(30), <1>1 DEF SInv, TypeOK, Message, Reply
<1>3. ConfirmedIsSet'
  BY ZenonT(30), <1>1 DEF SInv, ConfirmedIsSet
<1> QED BY <1>2, <1>3 DEF SInv

(* Replies in the queue stay right when the devices only learn.            *)
LEMMA SameReplies ==
  ASSUME SInv, UNCHANGED rplyq, ~crowded, \A i \in Pars : device[i] \subseteq device'[i]
  PROVE  RepliesOK'
BY DEF SInv, RepliesOK

(* A message is taken out of the queue. *)
LEMMA Removed ==
  ASSUME SInv, NEW j \in 1 .. Len(setq)
  PROVE  LET s == SubSeq(setq, 1, j - 1) \o SubSeq(setq, j + 1, Len(setq))
         IN  s \in Seq(Message) /\ Len(s) =< QMax
<1>1. Len(setq) \in Nat /\ Len(setq) =< QMax /\ \A n \in 1 .. Len(setq) : setq[n] \in Message
  BY SenderTypes, LenProperties, ElementOfSeq
<1>2. SubSeq(setq, 1, j - 1) \in Seq(Message) /\ Len(SubSeq(setq, 1, j - 1)) = j - 1
  <2>1. \A n \in 1 .. j - 1 : setq[n] \in Message
    BY <1>1
  <2> QED BY <1>1, <2>1, SubSeqProperties
<1>3. /\ SubSeq(setq, j + 1, Len(setq)) \in Seq(Message)
      /\ Len(SubSeq(setq, j + 1, Len(setq))) = Len(setq) - j
  <2>1. \A n \in j + 1 .. Len(setq) : setq[n] \in Message
    BY <1>1
  <2> QED BY <1>1, <2>1, SubSeqProperties
<1> DEFINE a == SubSeq(setq, 1, j - 1)
           b == SubSeq(setq, j + 1, Len(setq))
<1> HIDE DEF a, b
<1>4. a \o b \in Seq(Message) /\ Len(a \o b) = Len(a) + Len(b)
  BY <1>2, <1>3, ConcatProperties DEF a, b
<1>5. Len(a) = j - 1 /\ Len(b) = Len(setq) - j
  BY <1>2, <1>3 DEF a, b
<1>6. Len(a \o b) =< QMax
  BY <1>1, <1>4, <1>5, SenderAssumption
<1> QED BY ZenonT(30), <1>4, <1>6 DEF a, b

(* PrepareCommand of linedmn takes a message. *)
LEMMA ReceiveStep ==
  ASSUME SInv, NEW i \in Pars, Receive(i)
  PROVE  SInv'
<1>1. PICK j \in Waiting(unit[i]) :
        /\ setq[j].par = i
        /\ sending' = [sending EXCEPT ![i] = Retry]
        /\ pars' = [pars EXCEPT ![i] = setq[j].val]
        /\ given' = [given EXCEPT ![i] = setq[j].val]
        /\ setq' = SubSeq(setq, 1, j - 1) \o SubSeq(setq, j + 1, Len(setq))
  BY ZenonT(30) DEF Receive
<1>2. /\ phase[unit[i]] = "prepare"
      /\ UNCHANGED <<unit, want, sender, rplyq, up, phase, command, device, crowded, events>>
  BY DEF Receive
<1>3. j \in 1 .. Len(setq) /\ setq[j].val \in Contents
  <2>1. j \in 1 .. Len(setq)
    BY DEF Waiting
  <2>2. setq[j] \in Message
    BY <2>1, SenderTypes, ElementOfSeq
  <2> QED BY <2>1, <2>2 DEF Message
<1>4. setq' \in Seq(Message) /\ Len(setq') =< QMax
  BY ZenonT(30), <1>1, <1>3, Removed
<1>5. sending' \in [Pars -> 0 .. Retry] /\ pars' \in [Pars -> Contents] /\ given' \in [Pars -> Contents]
  BY <1>1, <1>3, DaemonTypes, SenderAssumption
<1>6. ASSUME ~crowded PROVE CommandOK'
  BY <1>1, <1>2, <1>6, DaemonTypes DEF SInv, CommandOK, Due, Mine
<1>7. ~crowded => RepliesOK'
  BY <1>2, SameReplies
<1> QED BY SMTT(30), <1>2, <1>4, <1>5, <1>6, <1>7, SenderTypes, DaemonTypes, DaemonFrame

(* PrepareCommand writes the command. *)
LEMMA PrepareStep ==
  ASSUME SInv, NEW u \in Units, PrepareCommand(u)
  PROVE  SInv'
<1>1. /\ phase' = [phase EXCEPT ![u] = "report"]
      /\ \E c \in SUBSET Due(u) : command' = [command EXCEPT ![u] = c]
      /\ crowded' = (crowded \/ ~Due(u) \subseteq command'[u])
      /\ UNCHANGED <<unit, want, sender, setq, rplyq, up, sending, pars, given, device, events>>
  BY ZenonT(30) DEF PrepareCommand
<1>2. Due(u) \subseteq Pars
  BY DEF Due, Mine
<1>3. /\ phase' \in [Units -> {"prepare", "report", "confirm"}]
      /\ command' \in [Units -> SUBSET Pars] /\ crowded' \in BOOLEAN
  BY <1>1, <1>2, DaemonTypes
<1>4. ASSUME ~crowded' PROVE CommandOK'
  <2> SUFFICES ASSUME NEW v \in Units, NEW i \in Pars, i \in Due(v), phase'[v] # "prepare"
               PROVE  i \in command'[v] /\ (phase'[v] = "confirm" => pars[i] \in device[i])
    BY <1>1 DEF CommandOK, Due, Mine
  <2>1. CASE v = u
    BY ZenonT(30), <1>1, <1>4, <2>1, DaemonTypes
  <2>2. CASE v # u
    BY <1>1, <1>4, <2>2, DaemonTypes DEF SInv, CommandOK
  <2> QED BY <2>1, <2>2
<1>5. ~crowded' => RepliesOK'
  BY ZenonT(30), <1>1, SameReplies
<1> QED BY <1>1, <1>3, <1>4, <1>5, SenderTypes, DaemonTypes, DaemonFrame

(* A good answer: the unit has what was in the command. *)
LEMMA ReportOkStep ==
  ASSUME SInv, NEW u \in Units, ReportOk(u)
  PROVE  SInv'
<1>1. /\ phase[u] = "report" /\ phase' = [phase EXCEPT ![u] = "confirm"]
      /\ device' = [i \in Pars |-> IF i \in command[u] THEN device[i] \cup {pars[i]} ELSE device[i]]
      /\ UNCHANGED <<unit, want, sender, setq, rplyq, up, sending, pars, command, given, crowded, events>>
  BY DEF ReportOk
<1>2. /\ phase' \in [Units -> {"prepare", "report", "confirm"}]
      /\ device' \in [Pars -> SUBSET Contents] /\ \A i \in Pars : device[i] \subseteq device'[i]
  BY <1>1, DaemonTypes
<1>3. ASSUME ~crowded PROVE CommandOK'
  <2> SUFFICES ASSUME NEW v \in Units, NEW i \in Pars, i \in Due(v), phase'[v] # "prepare"
               PROVE  i \in command[v] /\ (phase'[v] = "confirm" => pars[i] \in device'[i])
    BY <1>1 DEF CommandOK, Due, Mine
  <2>1. CASE v = u
    BY <1>1, <1>3, <2>1, DaemonTypes DEF SInv, CommandOK
  <2>2. CASE v # u
    BY SMTT(30), <1>1, <1>2, <1>3, <2>2, DaemonTypes DEF SInv, CommandOK
  <2> QED BY <2>1, <2>2
<1>4. ~crowded => RepliesOK'
  BY <1>1, <1>2, SameReplies
<1> QED BY <1>1, <1>2, <1>3, <1>4, SenderTypes, DaemonTypes, DaemonFrame

(* What was to be set is confirmed. *)
LEMMA ConfirmStep ==
  ASSUME SInv, NEW u \in Units, Confirm(u)
  PROVE  SInv'
<1> DEFINE r(i) == [val |-> pars[i], retry |-> sending[i]]
<1>0. PICK i \in Due(u) :
        /\ rplyq' = rplyq \/ rplyq' = [rplyq EXCEPT ![i] = Append(@, r(i))]
        /\ sending' = [sending EXCEPT ![i] = 0]
        /\ pars' = [pars EXCEPT ![i] = NoData]
        /\ phase' = [phase EXCEPT ![u] = IF Due(u) = {i} THEN "prepare" ELSE @]
        /\ command' = [command EXCEPT ![u] = IF Due(u) = {i} THEN {} ELSE @]
  BY ZenonT(30) DEF Confirm
<1>1. /\ rplyq' \in {rplyq, [rplyq EXCEPT ![i] = Append(@, r(i))]}
      /\ sending' = [sending EXCEPT ![i] = 0]
      /\ pars' = [pars EXCEPT ![i] = NoData]
      /\ \/ phase' = phase /\ command' = command
         \/ phase' = [phase EXCEPT ![u] = "prepare"] /\ command' = [command EXCEPT ![u] = {}]
  <2>1. CASE Due(u) = {i}
    BY <1>0, <2>1
  <2>2. CASE Due(u) # {i}
    <3>1. phase' = [phase EXCEPT ![u] = @] /\ command' = [command EXCEPT ![u] = @]
      BY <1>0, <2>2
    <3>2. phase' = phase /\ command' = command
      BY <3>1, DaemonTypes
    <3> QED BY <1>0, <3>2
  <2> QED BY <2>1, <2>2
<1>2. phase[u] = "confirm" /\ UNCHANGED <<unit, want, sender, setq, up, given, device, crowded, events>>
  BY DEF Confirm, history
<1>3. i \in Pars /\ sending[i] \in 1 .. Retry /\ unit[i] = u
  BY DaemonTypes, SenderAssumption DEF Due, Mine
<1>4. [val |-> pars[i], retry |-> sending[i]] \in Reply
  BY <1>3, DaemonTypes DEF Reply
<1>5. rplyq' \in [Pars -> Seq(Reply)]
  <2>1. Append(rplyq[i], [val |-> pars[i], retry |-> sending[i]]) \in Seq(Reply)
    BY <1>3, <1>4, DaemonTypes, AppendProperties
  <2> QED BY ZenonT(30), <1>1, <1>3, <2>1, DaemonTypes
<1>6. /\ sending' \in [Pars -> 0 .. Retry] /\ pars' \in [Pars -> Contents]
      /\ phase' \in [Units -> {"prepare", "report", "confirm"}]
      /\ command' \in [Units -> SUBSET Pars]
  <2>1. 0 \in 0 .. Retry /\ NoData \in Contents
    BY SenderAssumption DEF Contents
  <2>2. sending' \in [Pars -> 0 .. Retry] /\ pars' \in [Pars -> Contents]
    BY <1>1, <1>3, <2>1, DaemonTypes
  <2>3. phase' \in [Units -> {"prepare", "report", "confirm"}] /\ command' \in [Units -> SUBSET Pars]
    BY ZenonT(30), <1>1, DaemonTypes
  <2> QED BY <2>2, <2>3
<1>7. ASSUME ~crowded PROVE CommandOK'
  <2> SUFFICES ASSUME NEW v \in Units, NEW n \in Pars, n \in Due(v)', phase'[v] # "prepare"
               PROVE  n \in command'[v] /\ (phase'[v] = "confirm" => pars'[n] \in device[n])
    BY <1>2 DEF CommandOK
  <2>1. n \in Due(v) /\ n # i /\ pars'[n] = pars[n]
    BY <1>1, <1>2, <1>3, DaemonTypes DEF Due, Mine
  <2>2. phase'[v] = phase[v] /\ command'[v] = command[v]
    BY SMTT(30), <1>1, DaemonTypes
  <2> QED BY <1>7, <2>1, <2>2 DEF SInv, CommandOK
<1>8. ASSUME ~crowded PROVE RepliesOK'
  <2>1. pars[i] \in device[i]
    BY <1>2, <1>3, <1>8 DEF SInv, CommandOK
  <2> SUFFICES ASSUME NEW n \in Pars, NEW j \in 1 .. Len(rplyq'[n]) PROVE rplyq'[n][j].val \in device[n]
    BY <1>2 DEF RepliesOK
  <2>2. CASE rplyq'[n] = rplyq[n]
    BY <1>8, <2>2 DEF SInv, RepliesOK
  <2>3. CASE n = i /\ rplyq'[n] = Append(rplyq[i], [val |-> pars[i], retry |-> sending[i]])
    <3>1. rplyq[i] \in Seq(Reply) /\ Len(rplyq[i]) \in Nat
      BY SMTT(30), <1>3, DaemonTypes, LenProperties
    <3>2. Len(rplyq'[n]) = Len(rplyq[i]) + 1
      BY SMTT(30), <1>4, <2>3, <3>1, AppendProperties
    <3>3. CASE j = Len(rplyq[i]) + 1
      <4>1. rplyq'[n][j] = [val |-> pars[i], retry |-> sending[i]]
        BY <1>4, <2>3, <3>1, <3>3, AppendProperties
      <4> QED BY SMTT(30), <2>1, <2>3, <4>1
    <3>4. CASE j \in 1 .. Len(rplyq[i])
      <4>1. rplyq'[n][j] = rplyq[i][j]
        BY <1>4, <2>3, <3>1, <3>4, AppendProperties
      <4> QED BY SMTT(30), <1>3, <1>8, <2>3, <3>4, <4>1 DEF SInv, RepliesOK
    <3> QED BY <3>1, <3>2, <3>3, <3>4
  <2> QED BY <1>1, <1>3, <2>2, <2>3, DaemonTypes
<1> QED BY SMTT(30), <1>2, <1>5, <1>6, <1>7, <1>8, SenderTypes, DaemonTypes, DaemonFrame

(* A bad answer. *)
LEMMA ReportBadStep ==
  ASSUME SInv, NEW u \in Units, ReportBad(u)
  PROVE  SInv'
<1>1. /\ phase' = [phase EXCEPT ![u] = "prepare"]
      /\ sending' = [i \in Pars |-> IF i \in Due(u) THEN sending[i] - 1 ELSE sending[i]]
      /\ command' = [command EXCEPT ![u] = {}]
      /\ UNCHANGED <<unit, want, sender, setq, rplyq, up, pars, given, device, crowded, events>>
  BY DEF ReportBad, history
<1>2. /\ phase' \in [Units -> {"prepare", "report", "confirm"}]
      /\ command' \in [Units -> SUBSET Pars]
  BY SMTT(30), <1>1, DaemonTypes
<1>3. sending' \in [Pars -> 0 .. Retry]
  <2>1. \A i \in Due(u) : sending[i] - 1 \in 0 .. Retry
    BY SMTT(30), DaemonTypes, SenderAssumption DEF Due, Mine
  <2> QED BY <1>1, <2>1, DaemonTypes
<1>4. ASSUME ~crowded PROVE CommandOK'
  <2> SUFFICES ASSUME NEW v \in Units, NEW n \in Pars, n \in Due(v)', phase'[v] # "prepare"
               PROVE  n \in command'[v] /\ (phase'[v] = "confirm" => pars[n] \in device[n])
    BY SMTT(30), <1>1 DEF CommandOK
  <2>1. v # u /\ n \in Due(v) /\ phase'[v] = phase[v] /\ command'[v] = command[v]
    BY SMTT(30), <1>1, DaemonTypes DEF Due, Mine
  <2> QED BY SMTT(30), <1>4, <2>1 DEF SInv, CommandOK
<1>5. ~crowded => RepliesOK'
  BY SMTT(30), <1>1, SameReplies
<1> QED BY <1>1, <1>2, <1>3, <1>4, <1>5, SenderTypes, DaemonTypes, DaemonFrame

(* A daemon dies. *)
LEMMA DieStep ==
  ASSUME SInv, NEW u \in Units, Die(u)
  PROVE  SInv'
<1>1. /\ up' = up \ {u} /\ events' = events + 1 /\ phase' = [phase EXCEPT ![u] = "prepare"]
      /\ sending' = [i \in Pars |-> IF unit[i] = u THEN 0 ELSE sending[i]]
      /\ pars' = [i \in Pars |-> IF unit[i] = u THEN NoData ELSE pars[i]]
      /\ command' = [command EXCEPT ![u] = {}]
      /\ UNCHANGED <<unit, want, sender, setq, rplyq, given, device, crowded>>
  BY SMTT(30) DEF Die, history
<1>2. /\ up' \subseteq Units /\ events' \in Nat
      /\ phase' \in [Units -> {"prepare", "report", "confirm"}]
      /\ command' \in [Units -> SUBSET Pars]
  BY <1>1, DaemonTypes
<1>3. sending' \in [Pars -> 0 .. Retry] /\ pars' \in [Pars -> Contents]
  BY SMTT(30), <1>1, DaemonTypes, SenderAssumption DEF Contents
<1>4. ASSUME ~crowded PROVE CommandOK'
  <2> SUFFICES ASSUME NEW v \in Units, NEW n \in Pars, n \in Due(v)', phase'[v] # "prepare"
               PROVE  n \in command'[v] /\ (phase'[v] = "confirm" => pars'[n] \in device[n])
    BY SMTT(30), <1>1 DEF CommandOK
  <2>1. v # u /\ n \in Due(v) /\ phase'[v] = phase[v] /\ command'[v] = command[v] /\ pars'[n] = pars[n]
    BY SMTT(30), <1>1, DaemonTypes DEF Due, Mine
  <2> QED BY SMTT(30), <1>4, <2>1 DEF SInv, CommandOK
<1>5. ~crowded => RepliesOK'
  BY <1>1, SameReplies
<1> QED BY SMTT(30), <1>1, <1>2, <1>3, <1>4, <1>5, SenderTypes, DaemonTypes, DaemonFrame

(* Every step keeps the invariant. *)
LEMMA StepInv == SInv /\ [Next]_svars => SInv'
<1> SUFFICES ASSUME SInv, [Next]_svars PROVE SInv'
  OBVIOUS
<1>0. SInv => (~crowded => CommandOK) /\ (~crowded => RepliesOK)
  BY DEF SInv
<1>1. CASE SenderStep
  BY SMTT(30), <1>1, SenderSteps
<1>2. ASSUME NEW i \in Pars, Change(i) PROVE SInv'
  <2>1. /\ \E v \in Contents : want' = [want EXCEPT ![i] = v]
        /\ events' = events + 1
        /\ UNCHANGED <<unit, sender, setq, rplyq, up, phase, sending, pars, command, given, device, crowded>>
    BY ZenonT(30), <1>2 DEF Change, daemons, history
  <2>2. want' \in [Pars -> Contents] /\ events' \in Nat
    BY SMTT(30), <2>1, SenderTypes, DaemonTypes
  <2>3. ~crowded => CommandOK' /\ RepliesOK'
    BY <1>0, <2>1, SameReplies DEF CommandOK, Due, Mine
  <2> QED BY <2>1, <2>2, <2>3, SenderTypes, DaemonTypes, DaemonFrame
<1>3. ASSUME NEW u \in Units, DaemonStep(u) PROVE SInv'
  BY <1>3, ReceiveStep, PrepareStep, ReportOkStep, ConfirmStep, ReportBadStep DEF DaemonStep, Mine
<1>4. ASSUME NEW u \in Units, Die(u) PROVE SInv'
  BY SMTT(30), <1>4, DieStep
<1>5. ASSUME NEW u \in Units, Start(u) PROVE SInv'
  <2>1. /\ up' = up \cup {u}
        /\ UNCHANGED <<unit, want, sender, setq, rplyq, phase, sending, pars, command, given, device, crowded, events>>
    BY SMTT(30), <1>5 DEF Start, history
  <2>2. ~crowded => CommandOK' /\ RepliesOK'
    BY <1>0, <2>1, SameReplies DEF CommandOK, Due, Mine
  <2>3. up' \subseteq Units
    BY SMTT(30), <2>1, DaemonTypes
  <2> QED BY <2>1, <2>2, <2>3, SenderTypes, DaemonTypes, DaemonFrame
<1>6. CASE UNCHANGED svars
  <2>1. UNCHANGED <<unit, want, pc, k, pass, allsent, val, status, setq, rplyq, daemons, history, events>>
    BY <1>6 DEF svars, sender
  <2> QED BY <2>1, SenderTypes, SenderQuiet
<1> QED BY <1>1, <1>2, <1>3, <1>4, <1>5, <1>6 DEF Next

(* sender and the daemons keep their types; the queue Set keeps its limit. *)
THEOREM TypeCorrect == Spec => []TypeOK
<1>1. SInv => TypeOK
  BY DEF SInv
<1> QED BY <1>1, InitInv, StepInv, PTL DEF Spec

(* ReadReply of sender: what is confirmed has been set, whatever becomes of *)
(* messages, replies and daemons, unless a command was too small.           *)
THEOREM ConfirmedHasBeenSet == Spec => []ConfirmedIsSet
<1>1. SInv => ConfirmedIsSet
  BY DEF SInv
<1> QED BY <1>1, InitInv, StepInv, PTL DEF Spec

=============================================================================
