---------------------------- MODULE Draw3_proofs ----------------------------
(***************************************************************************)
(* Proofs about Draw3, for any number of configurations, defined           *)
(* parameters, queries and versions: the reload, the counters of the       *)
(* queue, and the theorems.                                                *)
(***************************************************************************)
EXTENDS Draw3_queue_proofs, FiniteSetTheorems

-----------------------------------------------------------------------------
(***************************************************************************)
(* The reload comes last                                                   *)
(***************************************************************************)

\* Entries keep their order when another one is put among them.
LEMMA FromOrder ==
  ASSUME NEW n \in Int, NEW i \in Int, NEW j \in Int, NEW k, NEW l, From(n, i, k), From(n, j, l)
  PROVE  (l < k <=> j < i) /\ (l = k <=> j = i) /\ (k <= n <=> i <= n)
BY DEF From

\* ReloadInv holds initially.
LEMMA ReloadInit == Init => ReloadInv
<1>1. NoQuery.type = "stop"
  BY PlainType DEF NoQuery
<1> QED
  BY <1>1 DEF Init, ReloadInv, OneReload, ReloadLast, IsReload, Needs, Alive, DataTypes

\* Events that move up together keep their order.
LEMMA ShiftEvents ==
  ASSUME NEW c, Shifted(c), NEW p
  PROVE  /\ \A i \in DOMAIN events' : IsReload(p, events'[i]) => i + c \in DOMAIN events /\ IsReload(p, events[i + c])
         /\ \A i, j \in DOMAIN events' :
              (IsReload(p, events[i + c]) /\ IsReload(p, events[j + c]) => j + c = i + c)
                => (IsReload(p, events'[i]) /\ IsReload(p, events'[j]) => j = i)
         /\ \A i, j \in DOMAIN events' :
              (IsReload(p, events[i + c]) /\ Needs(p, events[j + c]) => j + c < i + c)
                => (IsReload(p, events'[i]) /\ Needs(p, events'[j]) => j < i)
         /\ \A j \in DOMAIN events' : j + c \in DOMAIN events
BY DEF Shifted

\* A query that is no reload of p, nor needs its configuration during one.
LEMMA PutOther ==
  ASSUME queue \in Seq(Queries), NEW q, NEW n, PutAt(q, n), UNCHANGED exec, NEW c, Shifted(c),
         NEW p \in Prefixes, OneReload(p), ~IsReload(p, q), Needs(p, q) => p \notin reloading,
         p \in reloading => p \in reloading'
  PROVE  OneReload(p)' /\ (ReloadLast(p) => ReloadLast(p)')
<1>1. ASSUME NEW i \in DOMAIN queue', IsReload(p, queue'[i])
      PROVE  \E k \in DOMAIN queue : From(n, i, k) /\ IsReload(p, queue[k])
  BY <1>1, PutSource
<1>2. ASSUME NEW i \in DOMAIN queue', Needs(p, queue'[i])
      PROVE  \/ p \notin reloading
             \/ \E k \in DOMAIN queue : From(n, i, k) /\ Needs(p, queue[k])
  BY <1>2, PutSource
<1>3. n \in Int /\ \A i \in DOMAIN queue' : i \in Int
  BY PutTarget, PutSource
<1>4. OneReload(p)'
  <2>1. ASSUME NEW i \in DOMAIN queue', IsReload(p, queue'[i])
        PROVE  /\ p \in reloading' /\ ~IsReload(p, exec'.q)
               /\ \A j \in DOMAIN queue' : IsReload(p, queue'[j]) => j = i
               /\ \A j \in DOMAIN events' : ~IsReload(p, events'[j])
    <3>1. PICK k \in DOMAIN queue : From(n, i, k) /\ IsReload(p, queue[k])
      BY <1>1, <2>1
    <3>2. /\ p \in reloading /\ ~IsReload(p, exec.q)
          /\ \A l \in DOMAIN queue : IsReload(p, queue[l]) => l = k
          /\ \A j \in DOMAIN events : ~IsReload(p, events[j])
      BY <3>1 DEF OneReload
    <3>3. ASSUME NEW j \in DOMAIN queue', IsReload(p, queue'[j])
          PROVE  j = i
      <4>1. PICK l \in DOMAIN queue : From(n, j, l) /\ IsReload(p, queue[l])
        BY <1>1, <3>3
      <4> QED
        BY <1>3, <3>1, <3>2, <4>1, FromOrder
    <3> QED
      BY <3>2, <3>3, ShiftEvents, ZenonT(30)
  <2>2. IsReload(p, exec'.q) => p \in reloading' /\ \A j \in DOMAIN events' : ~IsReload(p, events'[j])
    BY ShiftEvents, ZenonT(30) DEF OneReload
  <2>3. ASSUME NEW i \in DOMAIN events', IsReload(p, events'[i])
        PROVE  p \in reloading' /\ \A j \in DOMAIN events' : IsReload(p, events'[j]) => j = i
    <3>1. i + c \in DOMAIN events /\ IsReload(p, events[i + c])
      BY <2>3, ShiftEvents, SMTT(30)
    <3> QED
      BY <2>3, <3>1, ShiftEvents, ZenonT(30) DEF OneReload
  <2> QED
    BY <2>1, <2>2, <2>3 DEF OneReload, IsReload
<1>5. ASSUME ReloadLast(p)
      PROVE  ReloadLast(p)'
  <2>1. ASSUME NEW i \in DOMAIN queue', NEW j \in DOMAIN queue', IsReload(p, queue'[i]), Needs(p, queue'[j])
        PROVE  j < i
    <3>1. PICK k \in DOMAIN queue : From(n, i, k) /\ IsReload(p, queue[k])
      BY <1>1, <2>1
    <3>2. p \in reloading
      BY <3>1 DEF OneReload
    <3>3. PICK l \in DOMAIN queue : From(n, j, l) /\ Needs(p, queue[l])
      BY <1>2, <2>1, <3>2
    <3>4. l < k
      BY <1>5, <3>1, <3>3 DEF ReloadLast
    <3> QED
      BY <1>3, <3>1, <3>3, <3>4, FromOrder, SMTT(30)
  <2>2. ASSUME p \in reloading, \A k \in DOMAIN queue : ~Needs(p, queue[k])
        PROVE  \A j \in DOMAIN queue' : ~Needs(p, queue'[j])
    BY <1>2, <2>2
  <2>3. IsReload(p, exec'.q) => \A j \in DOMAIN queue' : ~Needs(p, queue'[j])
    BY <1>5, <2>2 DEF OneReload, ReloadLast
  <2>4. ASSUME NEW i \in DOMAIN events', IsReload(p, events'[i])
        PROVE  /\ ~Needs(p, exec'.q) /\ \A j \in DOMAIN queue' : ~Needs(p, queue'[j])
               /\ \A j \in DOMAIN events' : Needs(p, events'[j]) => j < i
    <3>1. i + c \in DOMAIN events /\ IsReload(p, events[i + c])
      BY <2>4, ShiftEvents
    <3>2. /\ p \in reloading /\ ~Needs(p, exec.q) /\ (\A j \in DOMAIN queue : ~Needs(p, queue[j]))
          /\ \A j \in DOMAIN events : Needs(p, events[j]) => j < i + c
      BY <1>5, <3>1 DEF OneReload, ReloadLast
    <3>3. \A j \in DOMAIN events' : Needs(p, events'[j]) => j < i
      BY <2>4, <3>2, ShiftEvents
    <3> QED
      BY <2>2, <3>2, <3>3, SMTT(30)
  <2> QED
    BY <2>1, <2>3, <2>4, SMTT(30) DEF ReloadLast, IsReload, Needs
<1> QED
  BY <1>4, <1>5

\* The reload itself.
LEMMA PutReload ==
  ASSUME queue \in Seq(Queries), NEW q, NEW n, PutAt(q, n), UNCHANGED exec, NEW c, Shifted(c),
         NEW p \in Prefixes, OneReload(p), IsReload(p, q), p \notin reloading, p \in reloading'
  PROVE  /\ OneReload(p)'
         /\ (\A k \in DOMAIN queue : Needs(p, queue[k]) => k <= n) => ReloadLast(p)'
<1>1. /\ \A i \in DOMAIN queue : ~IsReload(p, queue[i])
      /\ \A i \in DOMAIN events : ~IsReload(p, events[i])
      /\ ~IsReload(p, exec.q)
  BY DEF OneReload
<1>2. \A i \in DOMAIN queue' : IsReload(p, queue'[i]) => i = n + 1
  BY <1>1, PutSource
<1>e. \A i \in DOMAIN events' : ~IsReload(p, events'[i])
  BY <1>1, ShiftEvents, ZenonT(30)
<1>3. OneReload(p)'
  BY <1>1, <1>2, <1>e DEF OneReload, IsReload
<1>4. ASSUME \A k \in DOMAIN queue : Needs(p, queue[k]) => k <= n
      PROVE  ReloadLast(p)'
  <2>1. ASSUME NEW j \in DOMAIN queue', Needs(p, queue'[j])
        PROVE  j < n + 1
    <3>1. j \in Int /\ n \in Int
      BY PutSource
    <3>2. ~Needs(p, q)
      BY DEF IsReload, Needs, DataTypes
    <3>3. PICK k \in DOMAIN queue : From(n, j, k) /\ queue'[j] = queue[k]
      BY <2>1, <3>2, PutSource
    <3>4. k <= n
      BY <1>4, <2>1, <3>3
    <3> QED
      BY <3>1, <3>3, <3>4, SMTT(30) DEF From
  <2> QED
    BY <1>1, <1>2, <1>e, <2>1 DEF ReloadLast, IsReload, Needs
<1> QED
  BY <1>3, <1>4

\* In a list in order the reload is put behind every query for data.
LEMMA BehindData ==
  ASSUME queue \in Seq(Queries), \A i \in DOMAIN queue : EntryOK(queue[i]),
         NEW q, q.ranking \in Int, q.ranking < 0, NEW n, PutAt(q, n), InOrder(queue) \/ cant # 0
  PROVE  \A k \in DOMAIN queue : queue[k].type \in DataTypes => k <= n
<1> SUFFICES ASSUME NEW k \in DOMAIN queue, queue[k].type \in DataTypes, ~(k <= n)
             PROVE  FALSE
  OBVIOUS
<1>1. k \in 1 .. Len(queue) /\ Len(queue) \in Nat /\ n \in 0 .. Len(queue)
  BY DEF PutAt
<1>2. n < Len(queue) /\ n + 1 \in DOMAIN queue /\ n + 1 <= k
  BY <1>1
<1>3. n \in UpperBounds(q) /\ InOrder(queue)
  BY <1>1, <1>2 DEF PutAt
<1>4. QueryCmp(q, queue[n + 1])
  BY <1>2, <1>3 DEF UpperBounds
<1>5. queue[k] \in Queries /\ queue[n + 1] \in Queries /\ EntryOK(queue[k])
  BY <1>1, <1>2
<1>6. /\ queue[k].ranking \in Int /\ queue[k].ranking > 0 /\ queue[k].ranking # NaN
      /\ queue[n + 1].ranking \in Int /\ queue[n + 1].ranking # NaN /\ queue[n + 1].ranking < 0
  BY <1>4, <1>5 DEF EntryOK, Queries, QueryCmp
<1>7. n + 1 < k
  BY <1>1, <1>2, <1>6
<1>8. QueryCmp(queue[k], queue[n + 1])
  BY <1>6 DEF QueryCmp
<1> QED
  BY <1>2, <1>3, <1>7, <1>8, SMTT(30) DEF InOrder

\* Sorting keeps the reload last.
LEMMA SortReload ==
  ASSUME queue \in Seq(Queries), \A i \in DOMAIN queue : EntryOK(queue[i]),
         NoneFixed, cant = 0, Shuffle, UNCHANGED <<exec, events, reloading>>,
         NEW p \in Prefixes, OneReload(p)
  PROVE  OneReload(p)' /\ (ReloadLast(p) => ReloadLast(p)')
<1>1. PICK pi \in [DOMAIN queue -> DOMAIN queue] :
        /\ queue' \in Seq(Queries) /\ Len(queue') = Len(queue) /\ InOrder(queue')
        /\ \A i, j \in DOMAIN queue : pi[i] = pi[j] => i = j
        /\ \A i \in DOMAIN queue : Ranked(queue[pi[i]], queue'[i])
  BY ShuffleSource, SMTT(30)
<1>2. DOMAIN queue' = DOMAIN queue /\ \A i \in DOMAIN queue : i \in Int
  BY <1>1
<1>3. ASSUME NEW i \in DOMAIN queue
      PROVE  /\ pi[i] \in DOMAIN queue /\ EntryOK(queue[pi[i]])
             /\ IsReload(p, queue'[i]) => IsReload(p, queue[pi[i]]) /\ queue'[i].ranking < 0
             /\ Needs(p, queue'[i]) => Needs(p, queue[pi[i]]) /\ queue'[i].ranking > 0
             /\ queue'[i].ranking \in Int /\ queue'[i].ranking # NaN
  <2>1. pi[i] \in DOMAIN queue /\ EntryOK(queue[pi[i]]) /\ Ranked(queue[pi[i]], queue'[i])
    BY <1>1
  <2>3. queue[pi[i]].ranking # NaN /\ queue[pi[i]].ranking \in Int /\ queue'[i].ranking \in Int
    <3>1. queue[pi[i]] \in Queries /\ queue'[i] \in Queries
      BY <2>1 DEF Ranked
    <3>2. queue[pi[i]].ranking # NaN
      BY <2>1 DEF NoneFixed
    <3> QED
      BY <3>1, <3>2 DEF Queries
  <2>4. queue'[i].ranking # NaN
    BY <2>1, <2>3 DEF Ranked, NaN
  <2>5. IsReload(p, queue'[i]) => IsReload(p, queue[pi[i]]) /\ queue'[i].ranking < 0
    BY <2>1 DEF Ranked, EntryOK, IsReload
  <2>6. Needs(p, queue'[i]) => Needs(p, queue[pi[i]]) /\ queue'[i].ranking > 0
    BY <2>1 DEF Ranked, EntryOK, Needs
  <2> QED
    BY <2>1, <2>3, <2>4, <2>5, <2>6
<1>4. OneReload(p)'
  <2>1. ASSUME NEW i \in DOMAIN queue', IsReload(p, queue'[i])
        PROVE  /\ p \in reloading' /\ ~IsReload(p, exec'.q)
               /\ \A j \in DOMAIN queue' : IsReload(p, queue'[j]) => j = i
               /\ \A j \in DOMAIN events' : ~IsReload(p, events'[j])
    BY <1>1, <1>2, <1>3, <2>1, SMTT(30) DEF OneReload
  <2> QED
    BY <2>1 DEF OneReload, IsReload
<1>5. ASSUME ReloadLast(p)
      PROVE  ReloadLast(p)'
  <2>1. ASSUME NEW i \in DOMAIN queue', NEW j \in DOMAIN queue', IsReload(p, queue'[i]), Needs(p, queue'[j])
        PROVE  j < i
    <3>1. /\ queue'[i].ranking < 0 /\ queue'[i].ranking \in Int /\ queue'[i].ranking # NaN
          /\ queue'[j].ranking > 0 /\ queue'[j].ranking \in Int /\ queue'[j].ranking # NaN
      BY <1>2, <1>3, <2>1
    <3>2. QueryCmp(queue'[j], queue'[i])
      BY <3>1 DEF QueryCmp
    <3>3. ~(i < j)
      BY <1>1, <3>2 DEF InOrder
    <3>4. i # j
      BY <3>1
    <3> QED
      BY <1>2, <3>3, <3>4
  <2>2. (\A k \in DOMAIN queue : ~Needs(p, queue[k])) => \A j \in DOMAIN queue' : ~Needs(p, queue'[j])
    BY <1>2, <1>3
  <2> QED
    BY <1>5, <2>1, <2>2 DEF ReloadLast, IsReload, Needs
<1> QED
  BY <1>4, <1>5

\* Executing a query, or waiting for one, changes no query.
LEMMA SameReload ==
  ASSUME UNCHANGED <<queue, reloading>>, exec'.q = exec.q, Grown, events \in Seq(Queries),
         NEW p \in Prefixes, OneReload(p)
  PROVE  OneReload(p)' /\ (ReloadLast(p) => ReloadLast(p)')
<1>1. \A i \in DOMAIN events' : IsReload(p, events'[i]) => i \in DOMAIN events /\ IsReload(p, events[i])
  BY DEF Grown, IsReload
<1>2. \A i \in DOMAIN events' : Needs(p, events'[i]) => i \in DOMAIN events /\ Needs(p, events[i])
  BY DEF Grown, Needs, DataTypes
<1>3. OneReload(p)'
  BY <1>1 DEF OneReload, IsReload
<1>4. ReloadLast(p) => ReloadLast(p)'
  BY <1>1, <1>2 DEF ReloadLast, IsReload, Needs
<1> QED
  BY <1>3, <1>4

\* The first event is handled: the list moves up.
LEMMA ShiftReload ==
  ASSUME \A i \in DOMAIN events' : /\ i \in Nat \ {0} /\ i + 1 \in DOMAIN events
                                   /\ SameBut(events[i + 1], events'[i]),
         DOMAIN queue' = DOMAIN queue, \A i \in DOMAIN queue : SameBut(queue[i], queue'[i]),
         SameBut(exec.q, exec'.q),
         NEW p \in Prefixes, OneReload(p), p \in reloading => p \in reloading'
  PROVE  OneReload(p)' /\ (ReloadLast(p) => ReloadLast(p)')
<1>1. /\ \A i \in DOMAIN queue : IsReload(p, queue'[i]) <=> IsReload(p, queue[i])
      /\ \A i \in DOMAIN queue : Needs(p, queue'[i]) <=> Needs(p, queue[i])
      /\ IsReload(p, exec'.q) <=> IsReload(p, exec.q)
      /\ Needs(p, exec'.q) <=> Needs(p, exec.q)
  BY DEF SameBut, IsReload, Needs
<1>2. /\ \A i \in DOMAIN events' : IsReload(p, events'[i]) <=> IsReload(p, events[i + 1])
      /\ \A i \in DOMAIN events' : Needs(p, events'[i]) <=> Needs(p, events[i + 1])
  BY DEF SameBut, IsReload, Needs
<1>3. OneReload(p)'
  <2>1. ASSUME NEW i \in DOMAIN events', IsReload(p, events'[i])
        PROVE  p \in reloading' /\ \A j \in DOMAIN events' : IsReload(p, events'[j]) => j = i
    <3>1. i + 1 \in DOMAIN events /\ IsReload(p, events[i + 1]) /\ i \in Nat \ {0}
      BY <1>2, <2>1
    <3>2. p \in reloading /\ \A j \in DOMAIN events : IsReload(p, events[j]) => j = i + 1
      BY <3>1 DEF OneReload
    <3>3. ASSUME NEW j \in DOMAIN events', IsReload(p, events'[j])
          PROVE  j = i
      <4>1. j + 1 \in DOMAIN events /\ IsReload(p, events[j + 1]) /\ j \in Nat
        BY <1>2, <3>3, SMTT(30)
      <4> QED
        BY <3>1, <3>2, <4>1
    <3> QED
      BY <3>2, <3>3
  <2>2. ASSUME NEW i \in DOMAIN queue', IsReload(p, queue'[i])
        PROVE  /\ p \in reloading' /\ ~IsReload(p, exec'.q)
               /\ \A j \in DOMAIN queue' : IsReload(p, queue'[j]) => j = i
               /\ \A j \in DOMAIN events' : ~IsReload(p, events'[j])
    BY <1>1, <1>2, <2>2, SMTT(30) DEF OneReload
  <2>3. IsReload(p, exec'.q) => p \in reloading' /\ \A j \in DOMAIN events' : ~IsReload(p, events'[j])
    BY <1>1, <1>2 DEF OneReload
  <2> QED
    BY <2>1, <2>2, <2>3, SMTT(30) DEF OneReload, IsReload
<1>4. ASSUME ReloadLast(p)
      PROVE  ReloadLast(p)'
  <2>1. ASSUME NEW i \in DOMAIN events', IsReload(p, events'[i])
        PROVE  /\ ~Needs(p, exec'.q) /\ \A j \in DOMAIN queue' : ~Needs(p, queue'[j])
               /\ \A j \in DOMAIN events' : Needs(p, events'[j]) => j < i
    <3>1. i + 1 \in DOMAIN events /\ IsReload(p, events[i + 1]) /\ i \in Nat
      BY <1>2, <2>1
    <3>2. /\ ~Needs(p, exec.q) /\ \A j \in DOMAIN queue : ~Needs(p, queue[j])
          /\ \A j \in DOMAIN events : Needs(p, events[j]) => j < i + 1
      BY <1>4, <3>1 DEF ReloadLast
    <3>3. ASSUME NEW j \in DOMAIN events', Needs(p, events'[j])
          PROVE  j < i
      <4>1. j + 1 \in DOMAIN events /\ Needs(p, events[j + 1]) /\ j \in Nat
        BY <1>2, <3>3
      <4> QED
        BY <3>1, <3>2, <4>1
    <3> QED
      BY <1>1, <3>2, <3>3
  <2>2. /\ \A i, j \in DOMAIN queue' : IsReload(p, queue'[i]) /\ Needs(p, queue'[j]) => j < i
        /\ IsReload(p, exec'.q) => \A j \in DOMAIN queue' : ~Needs(p, queue'[j])
    BY <1>1, <1>4, SMTT(30) DEF ReloadLast
  <2> QED
    BY <2>1, <2>2, SMTT(30) DEF ReloadLast, IsReload, Needs
<1> QED
  BY <1>3, <1>4

\* The reload has been answered: nothing of it is left.
LEMMA FinishReload ==
  ASSUME CountInv, events # <<>>, NEW p \in Prefixes, ConfigurationReadyForLoad(p), OneReload(p),
         1 \in DOMAIN events, IsReload(p, events[1])
  PROVE  /\ OneReload(p)' /\ ReloadLast(p)'
         /\ ReloadLast(p) =>
              /\ \A i \in DOMAIN queue : queue'[i] = queue[i]
              /\ exec'.q = exec.q
              /\ \A i \in DOMAIN events' : events'[i] = events[i + 1]
<1>1. /\ DOMAIN queue' = DOMAIN queue
      /\ \A i \in DOMAIN queue : SameBut(queue[i], queue'[i]) /\ queue'[i] = Orphan(p, queue[i])
      /\ SameBut(exec.q, exec'.q) /\ exec'.q = Orphan(p, exec.q)
      /\ \A i \in DOMAIN events' :
            /\ i \in Nat \ {0} /\ i + 1 \in DOMAIN events
            /\ SameBut(events[i + 1], events'[i]) /\ events'[i] = Orphan(p, events[i + 1])
  BY DeleteStep
<1>2. /\ \A i \in DOMAIN queue : ~IsReload(p, queue[i])
      /\ ~IsReload(p, exec.q)
      /\ \A j \in DOMAIN events : IsReload(p, events[j]) => j = 1
  BY DEF OneReload
<1>3. \A i \in DOMAIN events' : ~IsReload(p, events[i + 1])
  BY <1>1, <1>2
<1>4. /\ \A i \in DOMAIN queue' : ~IsReload(p, queue'[i])
      /\ ~IsReload(p, exec'.q)
      /\ \A i \in DOMAIN events' : ~IsReload(p, events'[i])
  BY <1>1, <1>2, <1>3 DEF IsReload, SameBut
<1>5. OneReload(p)' /\ ReloadLast(p)'
  BY <1>4 DEF OneReload, ReloadLast, IsReload
<1>6. ASSUME ReloadLast(p)
      PROVE  /\ \A i \in DOMAIN queue : queue'[i] = queue[i]
             /\ exec'.q = exec.q
             /\ \A i \in DOMAIN events' : events'[i] = events[i + 1]
  <2>1. /\ ~Needs(p, exec.q) /\ \A j \in DOMAIN queue : ~Needs(p, queue[j])
        /\ \A j \in DOMAIN events : Needs(p, events[j]) => j < 1
    BY <1>6 DEF ReloadLast
  <2>2. \A i \in DOMAIN events' : ~Needs(p, events[i + 1])
    BY <1>1, <2>1
  <2> QED
    BY <1>1, <2>1, <2>2 DEF Orphan, Needs
<1> QED
  BY <1>5, <1>6

\* The executor takes the first query.
LEMMA TakeReload ==
  ASSUME queue \in Seq(Queries), queue # <<>>, queue' = Tail(queue), exec'.q = queue[1],
         ~Busy, ExecOK, UNCHANGED <<events, reloading>>, NEW p \in Prefixes, OneReload(p)
  PROVE  OneReload(p)' /\ (ReloadLast(p) => ReloadLast(p)')
<1>1. /\ 1 \in DOMAIN queue
      /\ \A i \in DOMAIN queue' : i \in Nat \ {0} /\ i + 1 \in DOMAIN queue /\ queue'[i] = queue[i + 1]
  BY TailSource
<1>2. OneReload(p)'
  <2>1. ASSUME NEW i \in DOMAIN queue', IsReload(p, queue'[i])
        PROVE  /\ p \in reloading' /\ ~IsReload(p, exec'.q)
               /\ \A j \in DOMAIN queue' : IsReload(p, queue'[j]) => j = i
               /\ \A j \in DOMAIN events' : ~IsReload(p, events'[j])
    <3>1. i + 1 \in DOMAIN queue /\ IsReload(p, queue[i + 1]) /\ i \in Nat \ {0}
      BY <1>1, <2>1
    <3>2. /\ p \in reloading /\ \A j \in DOMAIN queue : IsReload(p, queue[j]) => j = i + 1
          /\ \A j \in DOMAIN events : ~IsReload(p, events[j])
      BY <3>1 DEF OneReload
    <3>3. ~IsReload(p, queue[1])
      BY <1>1, <3>1, <3>2
    <3>4. ASSUME NEW j \in DOMAIN queue', IsReload(p, queue'[j])
          PROVE  j = i
      <4>1. j \in Nat /\ j + 1 = i + 1
        BY <1>1, <3>2, <3>4
      <4> QED
        BY <3>1, <4>1
    <3> QED
      BY <3>2, <3>3, <3>4
  <2>2. IsReload(p, exec'.q) => p \in reloading' /\ \A j \in DOMAIN events' : ~IsReload(p, events'[j])
    BY <1>1 DEF OneReload
  <2> QED
    BY <2>1, <2>2 DEF OneReload, IsReload
<1>3. ASSUME ReloadLast(p)
      PROVE  ReloadLast(p)'
  <2>1. ASSUME NEW i \in DOMAIN queue', NEW j \in DOMAIN queue', IsReload(p, queue'[i]), Needs(p, queue'[j])
        PROVE  j < i
    <3>1. /\ i + 1 \in DOMAIN queue /\ IsReload(p, queue[i + 1]) /\ i \in Nat
          /\ j + 1 \in DOMAIN queue /\ Needs(p, queue[j + 1]) /\ j \in Nat
      BY <1>1, <2>1
    <3>2. j + 1 < i + 1
      BY <1>3, <3>1 DEF ReloadLast
    <3> QED
      BY <3>1, <3>2
  <2>2. ASSUME IsReload(p, exec'.q), NEW j \in DOMAIN queue', Needs(p, queue'[j])
        PROVE  FALSE
    <3>1. j + 1 \in DOMAIN queue /\ Needs(p, queue[j + 1]) /\ j \in Nat \ {0}
      BY <1>1, <2>2
    <3>2. j + 1 < 1
      BY <1>1, <1>3, <2>2, <3>1, SMTT(30) DEF ReloadLast
    <3> QED
      BY <3>1, <3>2
  <2>3. ASSUME NEW i \in DOMAIN events', IsReload(p, events'[i])
        PROVE  /\ ~Needs(p, exec'.q) /\ \A j \in DOMAIN queue' : ~Needs(p, queue'[j])
               /\ \A j \in DOMAIN events' : Needs(p, events'[j]) => j < i
    BY <1>1, <1>3, <2>3 DEF ReloadLast
  <2> QED
    BY <2>1, <2>2, <2>3 DEF ReloadLast, IsReload, Needs
<1> QED
  BY <1>2, <1>3

\* The executor posts its answer.
LEMMA PostReload ==
  ASSUME CountInv, PostResponse, NEW p \in Prefixes, OneReload(p)
  PROVE  OneReload(p)' /\ (ReloadLast(p) => ReloadLast(p)')
<1>1. /\ \A i \in DOMAIN events : i \in DOMAIN events' /\ events'[i] = events[i]
      /\ \A i \in DOMAIN events' : \/ i \in DOMAIN events
                                   \/ /\ events'[i] = exec.q
                                      /\ \A j \in DOMAIN events : j < i
                                      /\ \A j \in DOMAIN events' : j # i => j \in DOMAIN events
  BY PostStep
<1>2. UNCHANGED <<queue, reloading>> /\ exec'.q.type = "stop"
  BY PlainType DEF PostResponse, qvars, NoQuery
<1>3. ~IsReload(p, exec'.q) /\ ~Needs(p, exec'.q)
  BY <1>2 DEF IsReload, Needs, DataTypes
<1>4. ~(IsReload(p, exec.q) /\ Needs(p, exec.q))
  BY DEF IsReload, Needs, DataTypes
<1>5. OneReload(p)'
  <2>1. ASSUME NEW i \in DOMAIN events', IsReload(p, events'[i])
        PROVE  /\ p \in reloading' /\ \A j \in DOMAIN events' : IsReload(p, events'[j]) => j = i
               /\ \A j \in DOMAIN queue : ~IsReload(p, queue[j])
    <3>1. CASE i \in DOMAIN events
      BY <1>1, <1>2, <2>1, <3>1, SMTT(30) DEF OneReload
    <3>2. CASE i \notin DOMAIN events
      BY <1>1, <1>2, <2>1, <3>2, SMTT(30) DEF OneReload
    <3> QED
      BY <3>1, <3>2
  <2> QED
    BY <1>2, <1>3, <2>1, SMTT(30) DEF OneReload, IsReload
<1>6. ASSUME ReloadLast(p)
      PROVE  ReloadLast(p)'
  <2>1. ASSUME NEW i \in DOMAIN events', IsReload(p, events'[i])
        PROVE  /\ \A j \in DOMAIN queue : ~Needs(p, queue[j])
               /\ \A j \in DOMAIN events' : Needs(p, events'[j]) => j < i
    <3>1. CASE i \in DOMAIN events
      BY <1>1, <1>6, <2>1, <3>1, SMTT(30) DEF ReloadLast
    <3>2. CASE i \notin DOMAIN events
      <4>1. IsReload(p, exec.q) /\ \A j \in DOMAIN events' : j # i => j \in DOMAIN events /\ j < i
        BY <1>1, <2>1, <3>2
      <4>2. ~Needs(p, events'[i])
        BY <2>1 DEF IsReload, Needs, DataTypes
      <4> QED
        BY <1>6, <4>1, <4>2 DEF ReloadLast
    <3> QED
      BY <3>1, <3>2, SMTT(30)
  <2> QED
    BY <1>2, <1>3, <1>6, <2>1, SMTT(30) DEF ReloadLast, IsReload, Needs
<1> QED
  BY <1>5, <1>6

AllAlive ==
  /\ \A i \in DOMAIN queue : Alive(queue[i])
  /\ \A i \in DOMAIN events : Alive(events[i])
  /\ Alive(exec.q)

PrefixOK(p) == OneReload(p) /\ (p \notin disorder => ReloadLast(p))

\* ReloadInv in parts.
LEMMA ReloadParts == ReloadInv <=> AllAlive /\ \A p \in Prefixes : PrefixOK(p)
BY DEF ReloadInv, AllAlive, PrefixOK

\* A query of the user interface, which is alive.
LEMMA AddReload ==
  ASSUME CountInv, ReloadInv, NEW q \in Queries, EntryOK(q), Add(q), q.live, q.type # "reload",
         q.type \in DataTypes => q.prefix \notin reloading,
         UNCHANGED <<exec, events, reloading, disorder>>
  PROVE  ReloadInv'
<1>1. queue \in Seq(Queries) /\ events \in Seq(Queries) /\ AllAlive /\ \A p \in Prefixes : PrefixOK(p)
  BY CountParts, ReloadParts DEF QueueOK, OtherTypeOK
<1>2. PICK n \in Nat : PutAt(q, n)
  BY AddStep
<1>3. \A i \in DOMAIN queue' : queue'[i] = q \/ \E k \in DOMAIN queue : queue'[i] = queue[k]
  BY <1>1, <1>2, PutSource, SMTT(30)
<1>4. AllAlive'
  BY <1>1, <1>3 DEF AllAlive, Alive
<1>5. ASSUME NEW p \in Prefixes
      PROVE  PrefixOK(p)'
  <2>1. ~IsReload(p, q) /\ (Needs(p, q) => p \notin reloading)
    BY DEF IsReload, Needs
  <2>2. OneReload(p)' /\ (ReloadLast(p) => ReloadLast(p)')
    BY <1>1, <1>2, <2>1, NoShift, PutOther, SMTT(30) DEF PrefixOK
  <2> QED
    BY <1>1, <2>2 DEF PrefixOK
<1> QED
  BY <1>4, <1>5 DEF ReloadInv, AllAlive, PrefixOK

\* Nothing but events are gone.
LEMMA QuietReload ==
  ASSUME ReloadInv, UNCHANGED <<queue, exec, reloading, disorder>>, NEW c, Shifted(c)
  PROVE  ReloadInv'
<1>1. AllAlive'
  BY ReloadParts DEF AllAlive, Alive, Shifted
<1>2. ASSUME NEW p \in Prefixes
      PROVE  PrefixOK(p)'
  <2>1. PrefixOK(p)
    BY ReloadParts
  <2>2. OneReload(p)'
    <3>1. ASSUME NEW i \in DOMAIN events', IsReload(p, events'[i])
          PROVE  p \in reloading' /\ \A j \in DOMAIN events' : IsReload(p, events'[j]) => j = i
      <4>1. i + c \in DOMAIN events /\ IsReload(p, events[i + c])
        BY <3>1, ShiftEvents, SMTT(30)
      <4> QED
        BY <2>1, <3>1, <4>1, ShiftEvents, SMTT(30) DEF PrefixOK, OneReload
    <3>2. (\A j \in DOMAIN events : ~IsReload(p, events[j])) => \A j \in DOMAIN events' : ~IsReload(p, events'[j])
      BY ShiftEvents, SMTT(30)
    <3> QED
      BY <2>1, <3>1, <3>2, SMTT(30) DEF PrefixOK, OneReload, IsReload
  <2>3. ASSUME p \notin disorder
        PROVE  ReloadLast(p)'
    <3>1. ASSUME NEW i \in DOMAIN events', IsReload(p, events'[i])
          PROVE  /\ ~Needs(p, exec'.q) /\ \A j \in DOMAIN queue' : ~Needs(p, queue'[j])
                 /\ \A j \in DOMAIN events' : Needs(p, events'[j]) => j < i
      <4>1. i + c \in DOMAIN events /\ IsReload(p, events[i + c])
        BY <3>1, ShiftEvents
      <4> QED
        BY <2>1, <2>3, <3>1, <4>1, ShiftEvents, SMTT(30) DEF PrefixOK, ReloadLast
    <3> QED
      BY <2>1, <2>3, <3>1, SMTT(30) DEF PrefixOK, ReloadLast, IsReload, Needs
  <2> QED
    BY <2>2, <2>3 DEF PrefixOK
<1> QED
  BY <1>1, <1>2 DEF ReloadInv, AllAlive, PrefixOK

\* A reload that is initiated.
LEMMA InitiateReload ==
  ASSUME CountInv, ReloadInv, NEW r \in Prefixes, ReloadConfiguration(r), UNCHANGED exec, NEW c, Shifted(c)
  PROVE  ReloadInv'
<1>1. /\ queue \in Seq(Queries) /\ (\A i \in DOMAIN queue : EntryOK(queue[i]))
      /\ AllAlive /\ \A p \in Prefixes : PrefixOK(p)
  BY CountParts, ReloadParts DEF QueueOK
<1>2. CASE UNCHANGED <<qvars, reloading, disorder>>
  BY <1>2, QuietReload, SMTT(30) DEF qvars
<1>3. CASE r \notin reloading /\ ReadyConfigurationForLoad(r) /\ InitiateConfigurationReload(r)
  <2> DEFINE q == Query("reload", r, Configuration, Ranking.reload)
  <2>1. /\ Add(q) /\ reloading' = reloading \cup {r}
        /\ disorder' = IF cant = 0 /\ ~InOrder(queue) THEN disorder \cup {r} ELSE disorder
    BY <1>3 DEF InitiateConfigurationReload
  <2>2. q \in Queries /\ EntryOK(q) /\ q.type = "reload" /\ q.prefix = r
    BY ReloadType DEF Query
  <2>3. q.ranking \in Int /\ q.ranking < 0
    BY <2>2 DEF Queries, EntryOK
  <2>4. PICK n \in Nat : PutAt(q, n)
    BY <2>1, <2>2, AddStep, SMTT(30)
  <2> HIDE DEF q
  <2>5. \A i \in DOMAIN queue' : queue'[i] = q \/ \E k \in DOMAIN queue : queue'[i] = queue[k]
    BY <1>1, <2>4, PutSource
  <2>6. Alive(q)' /\ disorder \subseteq disorder'
    BY <2>1, <2>2, SMTT(30) DEF Alive, DataTypes
  <2>7. AllAlive'
    BY <1>1, <2>2, <2>5, <2>6 DEF AllAlive, Alive, DataTypes, Shifted
  <2>8. ASSUME NEW p \in Prefixes
        PROVE  PrefixOK(p)'
    <3>1. CASE p # r
      <4>1. ~IsReload(p, q) /\ ~Needs(p, q) /\ (p \in reloading => p \in reloading')
        BY <2>1, <2>2, <3>1 DEF IsReload, Needs
      <4>2. OneReload(p)' /\ (ReloadLast(p) => ReloadLast(p)')
        BY <1>1, <2>4, <4>1, PutOther DEF PrefixOK
      <4> QED
        BY <1>1, <2>6, <4>2 DEF PrefixOK
    <3>2. CASE p = r
      <4>1. IsReload(p, q) /\ p \notin reloading /\ p \in reloading'
        BY <1>3, <2>1, <2>2, <3>2 DEF IsReload
      <4>2. /\ OneReload(p)'
            /\ (\A k \in DOMAIN queue : Needs(p, queue[k]) => k <= n) => ReloadLast(p)'
        BY <1>1, <2>4, <4>1, PutReload DEF PrefixOK
      <4>3. ASSUME p \notin disorder'
            PROVE  \A k \in DOMAIN queue : Needs(p, queue[k]) => k <= n
        <5>1. InOrder(queue) \/ cant # 0
          BY <2>1, <3>2, <4>3
        <5>2. \A k \in DOMAIN queue : queue[k].type \in DataTypes => k <= n
          BY <1>1, <2>3, <2>4, <5>1, BehindData, SMTT(30)
        <5> QED
          BY <5>2 DEF Needs
      <4> QED
        BY <4>2, <4>3 DEF PrefixOK
    <3> QED
      BY <3>1, <3>2
  <2> QED
    BY <2>7, <2>8 DEF ReloadInv, AllAlive, PrefixOK
<1> QED
  BY <1>2, <1>3 DEF ReloadConfiguration, InitiateConfigurationReload

\* Every step keeps ReloadInv.
LEMMA ReloadStep ==
  ASSUME CountInv, ReloadInv, [Next]_vars
  PROVE  ReloadInv'
<1>0. QueueOK /\ OtherTypeOK /\ ExecType /\ ExecOK /\ Counted
  BY CountParts
<1>t. /\ events \in Seq(Queries) /\ queue \in Seq(Queries) /\ exec.q \in Queries
      /\ (\A i \in DOMAIN queue : EntryOK(queue[i])) /\ NoneFixed
  BY <1>0 DEF OtherTypeOK, QueueOK, QueueCounts, ExecType, Counted
<1>i. AllAlive /\ \A p \in Prefixes : PrefixOK(p)
  BY ReloadParts, SMTT(30)
<1>1. CASE UNCHANGED vars \/ Ended \/ \E p \in Prefixes : FileChange(p)
  <2>1. UNCHANGED <<queue, exec, events, reloading, disorder>>
    BY <1>1, ZenonT(30) DEF vars, qvars, Ended, FileChange
  <2> QED
    BY <2>1, SMTT(30) DEF ReloadInv, OneReload, ReloadLast, IsReload, Needs, Alive
<1>2. CASE ShufflePriorities
  <2>1. cant = 0 /\ Shuffle /\ UNCHANGED <<exec, events, reloading, disorder>>
    BY <1>2 DEF ShufflePriorities
  <2>2. \A p \in Prefixes : OneReload(p)' /\ (ReloadLast(p) => ReloadLast(p)')
    BY <1>i, <1>t, <2>1, SortReload, SMTT(30) DEF PrefixOK
  <2>3. PICK pi \in [DOMAIN queue -> DOMAIN queue] :
          /\ queue' \in Seq(Queries) /\ Len(queue') = Len(queue)
          /\ \A i \in DOMAIN queue : Ranked(queue[pi[i]], queue'[i])
    BY <1>t, <2>1, ShuffleSource, SMTT(30)
  <2>4. \A i \in DOMAIN queue' : i \in DOMAIN queue /\ pi[i] \in DOMAIN queue /\ Ranked(queue[pi[i]], queue'[i])
    BY <1>t, <2>3, SMTT(30)
  <2>5. AllAlive'
    BY <1>i, <2>1, <2>4 DEF AllAlive, Alive, Ranked
  <2> QED
    BY <1>i, <2>1, <2>2, <2>5, ZenonT(30) DEF ReloadInv, AllAlive, PrefixOK
<1>3. CASE StopThreads
  <2>1. Plain("stop").live
    BY DEF Plain, Query
  <2> QED
    BY <1>3, <2>1, AddReload, PlainType DEF StopThreads, DataTypes
<1>4. ASSUME NEW t \in Sent \cap DataTypes, NEW p \in Prefixes, NEW o \in Defined \cup {Configuration},
             QueryDraw(t, p, o)
      PROVE  ReloadInv'
  <2>1. PICK r \in (IF t \in {"get", "search"} THEN Rankings ELSE {Ranking[t]}) : Add(Query(t, p, o, r))
    BY <1>4 DEF QueryDraw
  <2> DEFINE q == Query(t, p, o, r)
  <2>2. q \in Queries /\ EntryOK(q) /\ q.live /\ q.type = t /\ q.prefix = p
    BY DrawType, SMTT(30) DEF Query
  <2>3. p \notin reloading /\ UNCHANGED <<exec, events, reloading, disorder>>
    BY <1>4 DEF QueryDraw
  <2> QED
    BY <2>1, <2>2, <2>3, AddReload, SMTT(30) DEF DataTypes
<1>5. ASSUME NEW t \in Sent \cap OtherTypes, QueryPlain(t)
      PROVE  ReloadInv'
  <2>1. Plain(t).live
    BY DEF Plain, Query
  <2> QED
    BY <1>5, <2>1, AddReload, PlainType, SMTT(30) DEF QueryPlain, DataTypes, OtherTypes
<1>6. ASSUME NEW d \in Defined, AddParams(d) \/ RemoveParams(d)
      PROVE  ReloadInv'
  <2>1. PICK t \in {"add", "remove"} : Add(Query(t, Home[d], d, NaN))
    BY <1>6 DEF AddParams, RemoveParams
  <2> DEFINE q == Query(t, Home[d], d, NaN)
  <2>2. q \in Queries /\ EntryOK(q) /\ q.live /\ q.type = t
    BY ParamType, ZenonT(30) DEF Query
  <2>3. UNCHANGED <<exec, events, reloading, disorder>>
    BY <1>6 DEF AddParams, RemoveParams
  <2> QED
    BY <2>1, <2>2, <2>3, AddReload, SMTT(30) DEF DataTypes
<1>7. ASSUME NEW p \in Prefixes, OnReloadConfig(p)
      PROVE  ReloadInv'
  BY <1>7, <1>t, NoShift, InitiateReload DEF OnReloadConfig
<1>8. CASE OnConfigurationChange
  <2>1. /\ events # <<>> /\ events' = Tail(events) /\ UNCHANGED exec
        /\ ReloadConfiguration(Head(events).prefix)
    BY <1>8 DEF OnConfigurationChange
  <2>2. Head(events).prefix \in Prefixes
    BY <1>t, <2>1, TailSource, ZenonT(30) DEF Queries
  <2> QED
    BY <1>t, <2>1, <2>2, TailShift, InitiateReload
<1>9. CASE OnDatabaseResponse
  <2>1. events # <<>> /\ UNCHANGED disorder
    BY <1>9 DEF OnDatabaseResponse
  <2>2. 1 \in DOMAIN events /\ Head(events) = events[1] /\ events[1] \in Queries
    BY <1>t, <2>1, TailSource
  <2>3. CASE events[1].type # "reload"
    <3>1. events' = Tail(events) /\ UNCHANGED <<queue, exec, reloading>>
      BY <1>9, <2>2, <2>3, SMTT(30) DEF OnDatabaseResponse
    <3> QED
      BY <1>t, <2>1, <3>1, TailShift, QuietReload, SMTT(30)
  <2>4. CASE events[1].type = "reload"
    <3>p. PICK r \in Prefixes : r = events[1].prefix
      BY <2>2 DEF Queries
    <3>1. r \in Prefixes /\ ConfigurationReadyForLoad(r) /\ IsReload(r, events[1])
      BY <1>9, <3>p, <2>2, <2>4, SMTT(30) DEF OnDatabaseResponse, Queries, IsReload
    <3>2. /\ DOMAIN queue' = DOMAIN queue
          /\ \A i \in DOMAIN queue : SameBut(queue[i], queue'[i]) /\ queue'[i] = Orphan(r, queue[i])
          /\ SameBut(exec.q, exec'.q) /\ exec'.q = Orphan(r, exec.q)
          /\ \A i \in DOMAIN events' :
                /\ i \in Nat \ {0} /\ i + 1 \in DOMAIN events
                /\ SameBut(events[i + 1], events'[i]) /\ events'[i] = Orphan(r, events[i + 1])
      BY <2>1, <3>1, DeleteStep
    <3>3. reloading' = reloading \ {r}
      BY <3>1, SMTT(30) DEF ConfigurationReadyForLoad
    <3>4. /\ OneReload(r)' /\ ReloadLast(r)'
          /\ ReloadLast(r) =>
               /\ \A i \in DOMAIN queue : queue'[i] = queue[i]
               /\ exec'.q = exec.q
               /\ \A i \in DOMAIN events' : events'[i] = events[i + 1]
      BY <1>i, <2>1, <2>2, <3>1, FinishReload DEF PrefixOK
    <3>5. ASSUME NEW p \in Prefixes
          PROVE  PrefixOK(p)'
      <4>1. CASE p = r
        BY <3>4, <4>1, SMTT(30) DEF PrefixOK
      <4>2. CASE p # r
        BY <1>i, <2>1, <3>2, <3>3, <4>2, ShiftReload, SMTT(30) DEF PrefixOK
      <4> QED
        BY <4>1, <4>2
    <3>6. AllAlive'
      <4>1. CASE r \notin disorder
        <5>1. /\ \A i \in DOMAIN queue : queue'[i] = queue[i]
              /\ exec'.q = exec.q
              /\ \A i \in DOMAIN events' : events'[i] = events[i + 1]
          BY <1>i, <3>1, <3>4, <4>1, SMTT(30) DEF PrefixOK
        <5> QED
          BY <1>i, <2>1, <3>2, <5>1, SMTT(30) DEF AllAlive, Alive
      <4>2. CASE r \in disorder
        <5>1. ASSUME NEW q \in Queries, Alive(q)
              PROVE  Alive(Orphan(r, q))'
          <6>1. CASE Needs(r, q)
            <7>1. SameBut(q, Orphan(r, q))
              BY OrphanSame
            <7> QED
              BY <2>1, <4>2, <6>1, <7>1 DEF Alive, SameBut, Needs
          <6>2. CASE ~Needs(r, q)
            BY <2>1, <5>1, <6>2, OrphanSame DEF Alive
          <6> QED
            BY <6>1, <6>2
        <5>2. (\A i \in DOMAIN queue : queue[i] \in Queries) /\ (\A i \in DOMAIN events : events[i] \in Queries)
          BY <1>t
        <5> QED
          BY <1>i, <1>t, <3>2, <5>1, <5>2 DEF AllAlive, Alive
      <4> QED
        BY <4>1, <4>2, SMTT(30)
    <3> QED
      BY <3>5, <3>6 DEF ReloadInv, AllAlive, PrefixOK
  <2> QED
    BY <2>3, <2>4
<1>10. ASSUME Grown, exec'.q = exec.q, UNCHANGED <<queue, reloading, disorder>>
       PROVE  ReloadInv'
  <2>1. \A p \in Prefixes : PrefixOK(p)'
    BY <1>10, <1>i, <1>t, SameReload, SMTT(30) DEF PrefixOK
  <2>2. AllAlive'
    BY <1>10, <1>i DEF AllAlive, Alive, Grown, DataTypes
  <2> QED
    BY <2>1, <2>2 DEF ReloadInv, AllAlive, PrefixOK
<1>11. UNCHANGED events => Grown
  BY <1>t DEF Grown
<1>12. CASE Watcher
  <2>1. Grown
    BY <1>12, NoticeStep DEF Watcher, CountInv
  <2> QED
    BY <1>10, <1>12, <2>1, SMTT(30) DEF Watcher, qvars
<1>13. CASE WaitQuery
  BY <1>0, <1>10, <1>11, <1>13, SMTT(30) DEF WaitQuery, ExecType
<1>14. CASE Execute
  <2>1. exec'.q = exec.q /\ UNCHANGED <<queue, reloading, disorder>>
    BY <1>0, <1>14 DEF Execute, qvars, ExecType
  <2>2. Grown
    <3>1. UNCHANGED events \/ CheckModifications
      BY <1>14 DEF Execute
    <3> QED
      BY <1>11, <3>1, NoticeStep DEF CountInv
  <2> QED
    BY <1>10, <2>1, <2>2
<1>15. CASE TakeQuery
  <2>1. exec.pc = "lock" /\ queue' = Tail(queue) /\ UNCHANGED <<events, reloading, disorder>> /\ exec'.q = Head(queue)
    BY <1>15 DEF TakeQuery
  <2>2. queue # <<>>
    BY <1>0, <1>t, <2>1 DEF QueueOK, QueueCounts
  <2>3. /\ 1 \in DOMAIN queue /\ Head(queue) = queue[1]
        /\ \A i \in DOMAIN queue' : i + 1 \in DOMAIN queue /\ queue'[i] = queue[i + 1]
    BY <1>t, <2>1, <2>2, TailSource, SMTT(30)
  <2>4. AllAlive'
    BY <1>i, <2>1, <2>3 DEF AllAlive, Alive
  <2>5. ~Busy
    BY <2>1 DEF Busy
  <2>6. \A p \in Prefixes : PrefixOK(p)'
    BY <1>0, <1>i, <1>t, <2>1, <2>2, <2>3, <2>5, TakeReload, SMTT(30) DEF PrefixOK
  <2> QED
    BY <2>4, <2>6 DEF ReloadInv, AllAlive, PrefixOK
<1>16. CASE PostResponse
  <2>1. UNCHANGED <<queue, disorder>> /\ exec'.q.type = "stop"
    BY <1>16, PlainType DEF PostResponse, qvars, NoQuery
  <2>2. \A i \in DOMAIN events' : (i \in DOMAIN events /\ events'[i] = events[i]) \/ events'[i] = exec.q
    BY <1>16, PostStep, SMTT(30)
  <2>3. AllAlive'
    BY <1>i, <2>1, <2>2, SMTT(30) DEF AllAlive, Alive, DataTypes
  <2>4. \A p \in Prefixes : PrefixOK(p)'
    BY <1>16, <1>i, <2>1, PostReload DEF PrefixOK
  <2> QED
    BY <2>3, <2>4 DEF ReloadInv, AllAlive, PrefixOK
<1> QED
  BY <1>1, <1>2, <1>3, <1>4, <1>5, <1>6, <1>7, <1>8, <1>9, <1>12, <1>13, <1>14, <1>15, <1>16, SMTT(30)
     DEF Next, UserStep, HandleEvent, ExecutorStep

\* Entries of the queue that must stay where they are.
Fixed(s) == {i \in DOMAIN s : s[i].ranking = NaN}

\* Their number.
LEMMA FixedFinite ==
  ASSUME NEW s \in Seq(Queries)
  PROVE  /\ IsFiniteSet(Fixed(s)) /\ Cardinality(Fixed(s)) \in Nat
         /\ Cardinality(Fixed(s)) = 0 <=> Fixed(s) = {}
<1>1. IsFiniteSet(1 .. Len(s))
  BY FS_Interval
<1>2. Fixed(s) \subseteq 1 .. Len(s)
  BY DEF Fixed
<1>3. IsFiniteSet(Fixed(s))
  BY <1>1, <1>2, FS_Subset
<1> QED
  BY <1>3, FS_CardinalityType, FS_EmptySet

\* Add: cant_prioritise_entries goes up with the entries it counts.
LEMMA FixedAdd ==
  ASSUME queue \in Seq(Queries), cant = Cardinality(Fixed(queue)), NEW q, NEW n, PutAt(q, n),
         cant' = cant + (IF q.ranking = NaN THEN 1 ELSE 0)
  PROVE  cant' = Cardinality(Fixed(queue'))
<1>1. n \in 0 .. Len(queue) /\ Len(queue) \in Nat /\ cant \in Nat
  BY FixedFinite DEF PutAt
<1>2. CASE n = Len(queue)
  <2>1. \A i \in DOMAIN queue : i <= n /\ i \in Int
    BY <1>1, <1>2
  <2>2. n + 1 \notin DOMAIN queue /\ n \in Int
    BY <1>1, <1>2
  <2>3. \A i \in DOMAIN queue' : i # n + 1 => i \in DOMAIN queue /\ queue'[i] = queue[i]
    BY <2>1, <2>2, PutSource, SMTT(30) DEF From
  <2>4. /\ n + 1 \in DOMAIN queue' /\ queue'[n + 1] = q
        /\ \A i \in DOMAIN queue : i \in DOMAIN queue' /\ queue'[i] = queue[i]
    BY <2>1, <2>2, PutTarget, SMTT(30) DEF From
  <2>5. CASE q.ranking = NaN
    <3>1. Fixed(queue') = Fixed(queue) \cup {n + 1} /\ n + 1 \notin Fixed(queue)
      BY <2>2, <2>3, <2>4, <2>5 DEF Fixed
    <3> QED
      BY <2>5, <3>1, FixedFinite, FS_AddElement, ZenonT(30)
  <2>6. CASE q.ranking # NaN
    <3>1. Fixed(queue') = Fixed(queue)
      BY <2>2, <2>3, <2>4, <2>6, SMTT(30) DEF Fixed
    <3> QED
      BY <1>1, <2>6, <3>1
  <2> QED
    BY <2>5, <2>6
<1>3. CASE n # Len(queue)
  <2>1. cant = 0 /\ q.ranking # NaN /\ cant' = 0
    BY <1>3 DEF PutAt
  <2>2. \A i \in DOMAIN queue : queue[i].ranking # NaN
    <3>1. Fixed(queue) = {}
      BY <2>1, FixedFinite, ZenonT(30)
    <3> QED
      BY <3>1 DEF Fixed
  <2>3. Fixed(queue') = {}
    BY <2>1, <2>2, PutSource DEF Fixed
  <2> QED
    BY <2>1, <2>3, FS_EmptySet, SMTT(30)
<1> QED
  BY <1>2, <1>3, SMTT(30)

\* The counters tell whether there are such entries.
LEMMA CountersTell == QueueOK => Counted
<1> SUFFICES ASSUME QueueOK PROVE Counted
  OBVIOUS
<1>1. queue \in Seq(Queries) /\ cant = Cardinality(Fixed(queue))
  BY DEF QueueOK, QueueCounts, Fixed
<1>2. cant \in Nat /\ (cant = 0 => Fixed(queue) = {})
  BY <1>1, FixedFinite
<1>3. NoneFixed
  BY <1>2 DEF NoneFixed, Fixed
<1>4. Changed \subseteq Prefixes
  BY DEF Changed
<1>5. Cardinality(Changed) \in Nat
  BY <1>4, Draw3Assumption, FS_Subset, FS_CardinalityType, SMTT(30)
<1> QED
  BY <1>2, <1>3, <1>5 DEF Counted

\* Taking the first entry, the count of those that must stay goes down with it.
LEMMA FixedTail ==
  ASSUME NEW s \in Seq(Queries), s # <<>>
  PROVE  Cardinality(Fixed(Tail(s))) = Cardinality(Fixed(s)) - (IF s[1].ranking = NaN THEN 1 ELSE 0)
<1> DEFINE T == Fixed(Tail(s))
           F == Fixed(s) \ {1}
           f == [i \in T |-> i + 1]
<1>1. /\ \A i \in DOMAIN Tail(s) : i \in Nat \ {0} /\ i + 1 \in DOMAIN s /\ Tail(s)[i] = s[i + 1]
      /\ \A k \in DOMAIN s : k \in Nat /\ (k = 1 \/ (k - 1 \in DOMAIN Tail(s) /\ Tail(s)[k - 1] = s[k]))
      /\ 1 \in DOMAIN s /\ Tail(s) \in Seq(Queries)
  BY TailSource
<1>2. \A i \in T : i \in Nat \ {0} /\ i + 1 \in F
  BY <1>1 DEF Fixed
<1>3. \A k \in F : k \in Nat /\ k - 1 \in T /\ (k - 1) + 1 = k
  BY <1>1 DEF Fixed
<1>4. IsFiniteSet(T) /\ IsFiniteSet(Fixed(s))
  BY <1>1, FixedFinite, ZenonT(30)
<1>5. 1 \in Fixed(s) <=> s[1].ranking = NaN
  BY <1>1 DEF Fixed
<1> HIDE DEF T, F
<1>6. f \in Bijection(T, F)
  <2>1. f \in [T -> F]
    BY <1>2
  <2>2. \A a, b \in T : f[a] = f[b] => a = b
    BY <1>2
  <2>3. \A k \in F : \E a \in T : f[a] = k
    BY <1>3
  <2> QED
    BY <2>1, <2>2, <2>3 DEF Bijection, Injection, Surjection, IsInjective
<1>7. Cardinality(T) = Cardinality(F)
  BY <1>4, <1>6, FS_Bijection, SMTT(30) DEF ExistsBijection
<1>8. Cardinality(F) = IF 1 \in Fixed(s) THEN Cardinality(Fixed(s)) - 1 ELSE Cardinality(Fixed(s))
  BY <1>4, FS_RemoveElement, ZenonT(30) DEF F
<1>9. Cardinality(Fixed(s)) \in Nat
  BY FixedFinite
<1> QED
  BY <1>5, <1>7, <1>8, <1>9, SMTT(30) DEF T

\* CountInv holds initially.
LEMMA CountInit == Init => CountInv
<1> SUFFICES ASSUME Init PROVE CountInv
  OBVIOUS
<1>1. NoQuery \in Queries /\ NoQuery.type = "stop"
  BY PlainType DEF NoQuery
<1>2. QueueOK
  <2>1. Len(queue) = 0 /\ DOMAIN queue = {} /\ queue \in Seq(Queries)
    BY DEF Init
  <2>2. {i \in DOMAIN queue : queue[i].ranking = NaN} = {}
    BY <2>1
  <2>3. Cardinality({i \in DOMAIN queue : queue[i].ranking = NaN}) = 0
    BY <2>2, FS_EmptySet, SMTT(30)
  <2>4. exec.pc = "wait"
    BY DEF Init
  <2> QED
    BY <2>1, <2>3, <2>4, SMTT(30) DEF Init, QueueOK, QueueCounts
<1>3. OtherTypeOK
  BY DEF Init, OtherTypeOK, None
<1>4. ExecType /\ ExecOK
  BY <1>1 DEF Init, ExecType, ExecOK
<1> QED
  BY <1>2, <1>3, <1>4, CountParts, CountersTell

\* Add counts the query it puts into the queue.
LEMMA AddCounts ==
  ASSUME CountInv, NEW q \in Queries, EntryOK(q), Add(q), UNCHANGED exec
  PROVE  QueueOK' /\ ExecType' /\ ExecOK'
<1>1. /\ \E n \in Nat : PutAt(q, n)
      /\ cant' = cant + (IF q.ranking = NaN THEN 1 ELSE 0) /\ semaphore' = semaphore + 1
      /\ \A i \in DOMAIN queue' : EntryOK(queue'[i])
  BY AddStep
<1>2. queue' \in Seq(Queries) /\ Len(queue') = Len(queue) + 1
  BY <1>1 DEF PutAt
<1>3. QueueOK /\ ExecType /\ ExecOK
  BY CountParts, SMTT(30)
<1>c. cant' = Cardinality(Fixed(queue')) /\ cant' \in Int
  <2>1. queue \in Seq(Queries) /\ cant = Cardinality(Fixed(queue)) /\ cant \in Int
    BY <1>3, SMTT(30) DEF QueueOK, QueueCounts, Fixed
  <2> QED
    BY <1>1, <2>1, FixedAdd
<1>4. semaphore \in Nat /\ queue \in Seq(Queries) /\ semaphore + (IF exec.pc = "lock" THEN 1 ELSE 0) = Len(queue)
  BY <1>3 DEF QueueOK, QueueCounts
<1>5. semaphore' \in Nat /\ semaphore' + (IF exec'.pc = "lock" THEN 1 ELSE 0) = Len(queue')
  BY <1>1, <1>2, <1>4, SMTT(30)
<1>6. QueueOK'
  BY <1>1, <1>2, <1>c, <1>5, SMTT(30) DEF QueueOK, QueueCounts, Fixed
<1> QED
  BY <1>3, <1>6 DEF ExecType, ExecOK, Busy

\* Initiating a reload is such an addition, or nothing.
LEMMA ReloadCounts ==
  ASSUME CountInv, NEW p \in Prefixes, ReloadConfiguration(p), UNCHANGED exec
  PROVE  /\ QueueOK' /\ ExecType' /\ ExecOK'
         /\ reloading' \subseteq Prefixes /\ ready' \in [Prefixes -> Nat]
         /\ disorder' \subseteq Prefixes /\ unseen' \subseteq Prefixes
<1>1. QueueOK /\ OtherTypeOK /\ ExecType /\ ExecOK
  BY CountParts
<1>2. \/ UNCHANGED <<qvars, reloading, disorder>>
      \/ /\ Add(Query("reload", p, Configuration, Ranking.reload))
         /\ reloading' = reloading \cup {p} /\ disorder' \in {disorder, disorder \cup {p}}
  BY DEF ReloadConfiguration, InitiateConfigurationReload
<1>3. QueueOK' /\ ExecType' /\ ExecOK'
  <2>1. CASE UNCHANGED <<qvars, reloading, disorder>>
    BY <1>1, <2>1 DEF QueueOK, QueueCounts, qvars, ExecType, ExecOK, Busy
  <2>2. CASE Add(Query("reload", p, Configuration, Ranking.reload))
    BY <2>2, AddCounts, ReloadType
  <2> QED
    BY <1>2, <2>1, <2>2
<1>4. reloading' \subseteq Prefixes /\ disorder' \subseteq Prefixes
  BY <1>1, <1>2 DEF OtherTypeOK
<1>5. ready' \in [Prefixes -> Nat] /\ unseen' \subseteq Prefixes
  BY <1>1, SMTT(30) DEF ReloadConfiguration, ReadyFails, ReadyConfigurationForLoad, OtherTypeOK
<1> QED
  BY <1>3, <1>4, <1>5

\* Every step keeps CountInv.
LEMMA CountStep ==
  ASSUME CountInv, [Next]_vars
  PROVE  CountInv'
<1> DEFINE QE == QueueOK /\ ExecType /\ ExecOK
<1>0. QueueOK /\ OtherTypeOK /\ ExecType /\ ExecOK
  BY CountParts
<1> SUFFICES QE' /\ OtherTypeOK'
  BY CountParts, CountersTell, PTL
<1>s. ASSUME UNCHANGED <<qvars, exec>>
      PROVE  QE'
  BY <1>0, <1>s DEF QueueOK, QueueCounts, qvars, ExecType, ExecOK, Busy
<1>1. CASE UNCHANGED vars
  <2>1. OtherTypeOK'
    BY <1>0, <1>1, SMTT(30) DEF OtherTypeOK, vars, szbase
  <2> QED
    BY <1>1, <1>s, <2>1, SMTT(30) DEF vars
<1>2. CASE ShufflePriorities
  <2>1. OtherTypeOK'
    BY <1>0, <1>2 DEF OtherTypeOK, ShufflePriorities, szbase
  <2>2. /\ cant = 0 /\ Shuffle /\ UNCHANGED <<semaphore, cant, exec>>
    BY <1>2 DEF ShufflePriorities
  <2>3. queue \in Seq(Queries) /\ cant = Cardinality(Fixed(queue)) /\ \A i \in DOMAIN queue : EntryOK(queue[i])
    BY <1>0, SMTT(30) DEF QueueOK, QueueCounts, Fixed
  <2>4. PICK pi \in [DOMAIN queue -> DOMAIN queue] :
          /\ queue' \in Seq(Queries) /\ Len(queue') = Len(queue)
          /\ \A i \in DOMAIN queue : Ranked(queue[pi[i]], queue'[i])
    BY <2>2, <2>3, ShuffleSource, SMTT(30)
  <2>5. DOMAIN queue' = DOMAIN queue
    BY <2>3, <2>4
  <2>6. Fixed(queue) = {}
    BY <2>2, <2>3, FixedFinite, SMTT(30)
  <2>7. ASSUME NEW i \in DOMAIN queue'
        PROVE  EntryOK(queue'[i]) /\ queue'[i].ranking # NaN
    <3>1. EntryOK(queue[pi[i]]) /\ queue[pi[i]].ranking # NaN /\ Ranked(queue[pi[i]], queue'[i])
      BY <2>3, <2>4, <2>5, <2>6, SMTT(30) DEF Fixed
    <3> QED
      BY <3>1, SMTT(30) DEF EntryOK, Ranked, NaN, DataTypes
  <2>8. Fixed(queue') = {}
    BY <2>7 DEF Fixed
  <2>9. cant' = Cardinality(Fixed(queue'))
    BY <2>2, <2>8, FS_EmptySet, SMTT(30)
  <2> QED
    BY <1>0, <2>1, <2>2, <2>4, <2>7, <2>9, SMTT(30) DEF QueueOK, QueueCounts, Fixed, ExecType, ExecOK, Busy
<1>3. CASE StopThreads
  <2>1. OtherTypeOK'
    BY <1>0, <1>3, SMTT(30) DEF OtherTypeOK, StopThreads, szbase
  <2> QED
    BY <1>3, <2>1, AddCounts, PlainType, SMTT(30) DEF StopThreads
<1>4. ASSUME NEW t \in Sent \cap DataTypes, NEW p \in Prefixes, NEW o \in Defined \cup {Configuration},
             QueryDraw(t, p, o)
      PROVE  QE' /\ OtherTypeOK'
  <2>1. OtherTypeOK'
    BY <1>0, <1>4, SMTT(30) DEF OtherTypeOK, QueryDraw, szbase
  <2>2. PICK r \in (IF t \in {"get", "search"} THEN Rankings ELSE {Ranking[t]}) : Add(Query(t, p, o, r))
    BY <1>4, ZenonT(30) DEF QueryDraw
  <2> QED
    BY <1>4, <2>1, <2>2, AddCounts, DrawType, SMTT(30) DEF QueryDraw
<1>5. ASSUME NEW t \in Sent \cap OtherTypes, QueryPlain(t)
      PROVE  QE' /\ OtherTypeOK'
  <2>1. OtherTypeOK'
    BY <1>0, <1>5 DEF OtherTypeOK, QueryPlain, szbase
  <2> QED
    BY <1>5, <2>1, AddCounts, PlainType, SMTT(30) DEF QueryPlain
<1>6. ASSUME NEW d \in Defined, AddParams(d)
      PROVE  QE' /\ OtherTypeOK'
  <2>1. OtherTypeOK'
    BY <1>0, <1>6 DEF OtherTypeOK, AddParams, szbase
  <2> QED
    BY <1>6, <2>1, AddCounts, ParamType, SMTT(30) DEF AddParams
<1>7. ASSUME NEW d \in Defined, RemoveParams(d)
      PROVE  QE' /\ OtherTypeOK'
  <2>1. OtherTypeOK'
    BY <1>0, <1>7, SMTT(30) DEF OtherTypeOK, RemoveParams, szbase
  <2> QED
    BY <1>7, <2>1, AddCounts, ParamType, SMTT(30) DEF RemoveParams
<1>8. ASSUME NEW p \in Prefixes, OnReloadConfig(p)
      PROVE  QE' /\ OtherTypeOK'
  BY <1>0, <1>8, ReloadCounts, SMTT(30) DEF OnReloadConfig, OtherTypeOK, szbase
<1>9. CASE OnConfigurationChange
  <2>1. events \in Seq(Queries) /\ events # <<>>
    BY <1>0, <1>9 DEF OtherTypeOK, OnConfigurationChange
  <2>2. Head(events).prefix \in Prefixes /\ Tail(events) \in Seq(Queries)
    BY <2>1, TailSource, ZenonT(30) DEF Queries
  <2> QED
    BY <1>0, <1>9, <2>2, ReloadCounts, SMTT(30) DEF OnConfigurationChange, OtherTypeOK, szbase
<1>10. CASE OnDatabaseResponse
  <2>1. events \in Seq(Queries) /\ events # <<>>
    BY <1>0, <1>10 DEF OtherTypeOK, OnDatabaseResponse
  <2>2. Head(events) \in Queries /\ Tail(events) \in Seq(Queries) /\ Head(events).prefix \in Prefixes
    BY <2>1, TailSource, ZenonT(30) DEF Queries
  <2>3. CASE Head(events).type = "reload"
    <3> DEFINE p == Head(events).prefix
    <3>1. ConfigurationReadyForLoad(p)
      BY <1>10, <2>3 DEF OnDatabaseResponse
    <3>2. /\ queue' \in Seq(Queries) /\ Len(queue') = Len(queue) /\ DOMAIN queue' = DOMAIN queue
          /\ \A i \in DOMAIN queue : SameBut(queue[i], queue'[i])
          /\ exec' \in [pc : {"wait", "lock", "begin", "run", "done"}, q : Queries]
          /\ exec'.pc = exec.pc /\ SameBut(exec.q, exec'.q)
          /\ events' \in Seq(Queries)
      BY <2>1, <2>2, <3>1, DeleteStep
    <3>3. UNCHANGED <<semaphore, cant, gui, extra, watch, file, disorder, reopened, unseen>>
      BY <1>10 DEF OnDatabaseResponse
    <3>4. \A i \in DOMAIN queue : /\ queue'[i].ranking = queue[i].ranking /\ queue'[i].type = queue[i].type
                                 /\ queue'[i].owner = queue[i].owner
      BY <3>2 DEF SameBut
    <3>5. Fixed(queue') = Fixed(queue)
      BY <3>2, <3>4, SMTT(30) DEF Fixed
    <3>6. QueueOK'
      BY <1>0, <3>2, <3>3, <3>4, <3>5, ZenonT(30) DEF QueueOK, QueueCounts, Fixed, EntryOK
    <3>7. ExecType' /\ ExecOK'
      BY <1>0, <3>2 DEF ExecType, ExecOK, Busy, SameBut
    <3>8. OtherTypeOK'
      BY <1>0, <2>2, <3>1, <3>2, <3>3, SMTT(30) DEF OtherTypeOK, ConfigurationReadyForLoad, LoadConfig, None
    <3> QED
      BY <3>6, <3>7, <3>8
  <2>4. CASE Head(events).type # "reload"
    <3>1. OtherTypeOK'
      BY <1>0, <1>10, <2>2, <2>4, ZenonT(30) DEF OnDatabaseResponse, OtherTypeOK
    <3> QED
      BY <1>10, <1>s, <2>4, <3>1, SMTT(30) DEF OnDatabaseResponse, qvars
  <2> QED
    BY <2>3, <2>4
<1>11. CASE Watcher
  <2>2. watch' \in [Prefixes -> Nat] /\ events' \in Seq(Queries)
    BY <1>11, NoticeStep DEF Watcher, Grown
  <2>3. OtherTypeOK'
    BY <1>0, <1>11, <2>2 DEF OtherTypeOK, Watcher
  <2> QED
    BY <1>11, <1>s, <2>3 DEF Watcher
<1>12. ASSUME NEW p \in Prefixes, FileChange(p)
       PROVE  QE' /\ OtherTypeOK'
  <2>1. OtherTypeOK'
    BY <1>0, <1>12 DEF OtherTypeOK, FileChange, szbase
  <2> QED
    BY <1>12, <1>s, <2>1, SMTT(30) DEF FileChange
<1>13. CASE WaitQuery
  <2>1. OtherTypeOK'
    BY <1>0, <1>13 DEF OtherTypeOK, WaitQuery, szbase
  <2>2. exec' = [exec EXCEPT !.pc = "lock"] /\ exec.pc = "wait" /\ exec'.pc = "lock" /\ exec'.q = exec.q
    BY <1>0, <1>13 DEF WaitQuery, ExecType
  <2>3. ExecType' /\ ExecOK'
    BY <1>0, <2>2 DEF ExecType, ExecOK, Busy
  <2>4. /\ semaphore > 0 /\ semaphore' = semaphore - 1 /\ UNCHANGED <<queue, cant>>
        /\ semaphore \in Nat /\ Len(queue) \in Nat
    BY <1>0, <1>13 DEF WaitQuery, QueueOK
  <2>5. semaphore' \in Nat /\ semaphore' + (IF exec'.pc = "lock" THEN 1 ELSE 0) = Len(queue')
    BY <1>0, <2>2, <2>4 DEF QueueOK, QueueCounts
  <2>6. QueueOK'
    BY <1>0, <2>4, <2>5, SMTT(30) DEF QueueOK, QueueCounts
  <2> QED
    BY <2>1, <2>3, <2>6
<1>14. CASE TakeQuery
  <2>1. queue \in Seq(Queries) /\ semaphore \in Nat /\ exec.pc = "lock" /\ semaphore + 1 = Len(queue)
    BY <1>0, <1>14 DEF QueueOK, QueueCounts, TakeQuery
  <2>2. queue # <<>>
    BY <2>1
  <2>3. /\ Tail(queue) \in Seq(Queries) /\ Len(Tail(queue)) = Len(queue) - 1
        /\ 1 \in DOMAIN queue /\ Head(queue) = queue[1] /\ queue[1] \in Queries
        /\ \A i \in DOMAIN Tail(queue) : i + 1 \in DOMAIN queue /\ Tail(queue)[i] = queue[i + 1]
    BY <2>1, <2>2, TailSource, SMTT(30)
  <2>4. /\ queue' = Tail(queue) /\ semaphore' = semaphore
        /\ cant' = cant - (IF queue[1].ranking = NaN THEN 1 ELSE 0)
        /\ exec' = [pc |-> IF queue[1].type = "stop" THEN "done" ELSE "begin", q |-> queue[1]]
    BY <1>14, <2>3, SMTT(30) DEF TakeQuery
  <2>5. cant' = Cardinality(Fixed(queue'))
    BY <1>0, <2>1, <2>2, <2>4, FixedTail, SMTT(30) DEF QueueOK, QueueCounts, Fixed
  <2>6. exec'.pc \in {"done", "begin"} /\ exec'.q = queue[1] /\ (exec'.pc = "done" => exec'.q.type = "stop")
    BY <2>4
  <2>7. semaphore' + (IF exec'.pc = "lock" THEN 1 ELSE 0) = Len(queue')
    BY <2>1, <2>3, <2>4, <2>6, SMTT(30)
  <2>8. cant' \in Int
    BY <1>0, <2>4, SMTT(30) DEF QueueOK
  <2>9. QueueOK'
    BY <1>0, <2>1, <2>3, <2>4, <2>5, <2>7, <2>8, ZenonT(30) DEF QueueOK, QueueCounts, Fixed
  <2>10. ExecType' /\ ExecOK'
    <3>1. ExecType'
      BY <2>3, <2>4 DEF ExecType
    <3>2. EntryOK(queue[1])
      BY <1>0, <2>3, SMTT(30) DEF QueueOK
    <3>3. ExecOK'
      BY <2>6, <3>2, SMTT(30) DEF ExecOK, Busy, EntryOK
    <3> QED
      BY <3>1, <3>3
  <2>11. OtherTypeOK'
    BY <1>0, <1>14, SMTT(30) DEF TakeQuery, OtherTypeOK, None
  <2> QED
    BY <2>9, <2>10, <2>11
<1>15. CASE Execute
  <2>1. exec.pc = "begin" /\ exec' = [exec EXCEPT !.pc = "run"] /\ exec'.pc = "run" /\ exec'.q = exec.q
    BY <1>0, <1>15 DEF Execute, ExecType
  <2>2. QE'
    BY <1>0, <1>15, <2>1 DEF QueueOK, QueueCounts, qvars, Execute, ExecType, ExecOK, Busy
  <2>3. exec.q.prefix \in Prefixes /\ exec.q.owner \in Defined \cup {Configuration}
    BY <1>0 DEF ExecType, Queries
  <2>4. UNCHANGED <<gui, reloading, params, file, configs, ready, disorder>>
    BY <1>15 DEF Execute
  <2>5. CASE exec.q.type = "check"
    <3>2. CheckModifications /\ UNCHANGED <<extra, base, reopened, unseen>>
      BY <1>15, <2>5, SMTT(30) DEF Execute
    <3>3. watch' \in [Prefixes -> Nat] /\ events' \in Seq(Queries)
      BY <3>2, NoticeStep, SMTT(30) DEF Grown
    <3> QED
      BY <1>0, <2>2, <2>4, <3>2, <3>3, SMTT(30) DEF OtherTypeOK
  <2>6. CASE exec.q.type = "reload"
    <3>1. RemoveConfig(exec.q.prefix) /\ UNCHANGED <<extra, events>>
      BY <1>15, <2>6 DEF Execute
    <3>2. /\ base' \in [Prefixes -> {"closed", "open", "freed"}] /\ watch' \in [Prefixes -> Nat]
      BY <1>0, <3>1, ZenonT(30) DEF RemoveConfig, OtherTypeOK, None
    <3>3. reopened' \subseteq Prefixes /\ unseen' \subseteq Prefixes
      BY <1>0, <2>3, <3>1 DEF RemoveConfig, OtherTypeOK
    <3> QED
      BY <1>0, <2>2, <2>4, <3>1, <3>2, <3>3, SMTT(30) DEF OtherTypeOK
  <2>7. CASE exec.q.type \notin {"check", "reload"}
    <3>1. PICK S \in Bases(exec.q) : Open(S)
      BY <1>15, <2>7 DEF Execute
    <3>2. UNCHANGED <<events, unseen>> /\ extra' = ExtraParams(exec.q)
      BY <1>15, <2>7, SMTT(30) DEF Execute
    <3>3. extra' \subseteq Defined
      <4>1. exec.q.type = "add" => exec.q.owner \in Defined
        BY <1>0 DEF ExecOK
      <4> QED
        BY <1>0, <3>2, <4>1, SMTT(30) DEF ExtraParams, OtherTypeOK
    <3>4. /\ base' \in [Prefixes -> {"closed", "open", "freed"}] /\ watch' \in [Prefixes -> Nat]
          /\ reopened' \subseteq Prefixes
      <4>1. base' \in [Prefixes -> {"closed", "open", "freed"}]
        BY <1>0, <3>1 DEF Open, OtherTypeOK
      <4>2. watch' \in [Prefixes -> Nat]
        BY <1>0, <3>1 DEF Open, OtherTypeOK
      <4>3. reopened' \subseteq Prefixes
        <5>1. {p \in {r \in S : base[r] = "closed"} : Removed(p)} \subseteq Prefixes
          BY <1>0, <2>3, <3>1, Draw3Assumption, SMTT(30) DEF Bases
        <5> QED
          BY <1>0, <3>1, <5>1 DEF Open, OtherTypeOK
      <4> QED
        BY <4>1, <4>2, <4>3, SMTT(30)
    <3> QED
      BY <1>0, <2>2, <2>4, <3>2, <3>3, <3>4 DEF OtherTypeOK
  <2> QED
    BY <2>5, <2>6, <2>7
<1>16. CASE PostResponse
  <2>1. NoQuery \in Queries /\ NoQuery.type = "stop"
    BY PlainType, SMTT(30) DEF NoQuery
  <2>2. exec.pc = "run" /\ exec' = [pc |-> "wait", q |-> NoQuery] /\ exec'.pc = "wait" /\ exec'.q = NoQuery
    BY <1>16, SMTT(30) DEF PostResponse
  <2>3. QE'
    BY <1>0, <1>16, <2>1, <2>2, SMTT(30) DEF PostResponse, QueueOK, QueueCounts, qvars, ExecType, ExecOK, Busy
  <2>4. events' \in Seq(Queries)
    BY <1>0, <1>16 DEF PostResponse, OtherTypeOK, ExecType
  <2> QED
    BY <1>0, <1>16, <2>3, <2>4, SMTT(30) DEF PostResponse, OtherTypeOK, szbase
<1>17. CASE Ended
  BY <1>1, <1>17 DEF Ended
<1> QED
  BY SMTT(30), <1>1, <1>2, <1>3, <1>4, <1>5, <1>6, <1>7, <1>8, <1>9, <1>10, <1>11, <1>12, <1>13, <1>14,
     <1>15, <1>16, <1>17 DEF Next, UserStep, HandleEvent, ExecutorStep

-----------------------------------------------------------------------------
(***************************************************************************)
(* Theorems                                                                *)
(***************************************************************************)

\* CountInv is an invariant.
LEMMA CountAlways == Spec => []CountInv
<1>1. Init => CountInv
  BY CountInit
<1>2. CountInv /\ [Next]_vars => CountInv'
  BY CountStep
<1> QED
  BY <1>1, <1>2, PTL DEF Spec

\* Type correctness: the queue, the events and the executor's query are made
\* of queries, and the semaphore of DatabaseQueryQueue is never negative.
THEOREM TypeCorrect == Spec => []TypeOK
<1>1. CountInv => TypeOK
  BY DEF CountInv
<1> QED
  BY <1>1, CountAlways, PTL

\* QueueCounts, for DatabaseQueryQueue::Add and GetQuery: the semaphore and
\* cant_prioritise_entries count what they stand for, so that GetQuery never
\* takes from an empty list.
THEOREM CountersExact == Spec => []QueueCounts
<1>1. CountInv => QueueCounts
  BY DEF CountInv
<1> QED
  BY <1>1, CountAlways, PTL

\* ParamsAlive, for ConfigurationReadyForLoad: no configuration is deleted
\* while a query about one of its parameters is executed or answered, unless
\* its reload was put in a list that was not in order.
THEOREM ReloadComesLast == Spec => []ParamsAlive
<1>1. Init => CountInv /\ ReloadInv
  BY CountInit, ReloadInit
<1>2. CountInv /\ ReloadInv /\ [Next]_vars => CountInv' /\ ReloadInv'
  BY CountStep, ReloadStep
<1>3. ReloadInv => ParamsAlive
  BY SMTT(30) DEF ReloadInv, ParamsAlive
<1> QED
  BY <1>1, <1>2, <1>3, PTL DEF Spec

\* DefinedAlive, for ADD_PARAM and REMOVE_PARAM: a query about a defined
\* parameter is executed after szbase got to know the parameter and before
\* the user interface deletes it.
THEOREM DefinedKnown == Spec => []DefinedAlive
<1>1. Init => CountInv /\ ParamInv
  BY CountInit, ParamInit
<1>2. CountInv /\ ParamInv /\ [Next]_vars => CountInv' /\ ParamInv'
  BY CountStep, ParamStep
<1>3. ParamInv => DefinedAlive
  <2> SUFFICES ASSUME ParamInv, exec.pc = "run", exec.q.type \in DataTypes, exec.q.owner \in Defined
               PROVE  exec.q.owner \in extra /\ params[exec.q.owner] # "absent"
    BY DEF DefinedAlive
  <2>1. ParamOK(exec.q.owner)
    BY DEF ParamInv
  <2>2. Uses(exec.q.owner, exec.q) /\ ~Coming(exec.q.owner)
    BY SMTT(30) DEF Uses, Coming, DataTypes
  <2> QED
    BY <2>1, <2>2, ZenonT(30) DEF ParamOK, AbsentOK, UsesOK
<1> QED
  BY <1>1, <1>2, <1>3, PTL DEF Spec

\* BaseAlive, for RemoveConfig and LoadConfig: szbase has no buffer whose
\* configuration was deleted, unless a query opened the base between the two.
THEOREM BaseNotFreed == Spec => []BaseAlive
<1>1. Init => CountInv /\ BaseInv
  BY CountInit, BaseInit
<1>2. CountInv /\ BaseInv /\ [Next]_vars => CountInv' /\ BaseInv'
  BY CountStep, BaseStep
<1>3. BaseInv => BaseAlive
  BY SMTT(30) DEF BaseInv
<1> QED
  BY <1>1, <1>2, <1>3, PTL DEF Spec

\* NoChangeLost, for SzbFileWatcher and ReloadConfiguration: a new params.xml
\* is noticed, read and loaded, unless it is lost in one of the ways unseen
\* stands for.
THEOREM ChangesNotLost == Spec => []NoChangeLost
<1>1. Init => CountInv /\ ChangeInv
  BY CountInit, ChangeInit
<1>2. CountInv /\ ChangeInv /\ [Next]_vars => CountInv' /\ ChangeInv'
  BY CountStep, ChangeStep
<1>3. ChangeInv => NoChangeLost
  BY DEF ChangeInv
<1> QED
  BY <1>1, <1>2, <1>3, PTL DEF Spec

=============================================================================
