------------------------- MODULE Draw3_queue_proofs -------------------------
(***************************************************************************)
(* What the steps of Draw3 do to the queue of queries and to the events,   *)
(* and the steps of the invariants about defined parameters, bases and     *)
(* changes of the files.  Draw3_proofs has the others, and the theorems.   *)
(***************************************************************************)
EXTENDS Draw3, TLAPS

\* A query that waits: what its ranking says of its type.
EntryOK(q) ==
  /\ q.type # "changed"
  /\ q.type = "reload" => q.ranking < 0
  /\ q.type \in DataTypes => q.ranking > 0 /\ q.ranking # NaN
  /\ q.ranking = NaN <=> q.type \in {"add", "remove"}
  /\ q.type \in {"add", "remove"} => q.owner \in Defined

\* The executor has a query of its own while it is busy only.
ExecOK ==
  /\ ~Busy => exec.q.type = "stop"
  /\ exec.q.type \in {"add", "remove"} => exec.q.owner \in Defined

\* ADD_PARAM and REMOVE_PARAM are counted.
NoneFixed == cant = 0 => \A i \in DOMAIN queue : queue[i].ranking # NaN

\* What the counters tell (Draw3_proofs shows that they do).
Counted == cant \in Nat /\ NoneFixed /\ Cardinality(Changed) \in Nat

CountInv ==
  /\ TypeOK /\ QueueCounts /\ ExecOK /\ Counted
  /\ \A i \in DOMAIN queue : EntryOK(queue[i])

\* A base that is used while its configuration is about to be deleted was
\* opened again.
BaseInv ==
  /\ BaseAlive
  /\ \A p \in Prefixes : Removed(p) => base[p] = "closed" \/ p \in reopened

\* The ways of a new params.xml; also for the one that is read already.
ChangeInv ==
  /\ NoChangeLost
  /\ exec.pc # "done" =>
       \A p \in Prefixes :
         ready[p] \notin {None, file[p]} => p \in Changed \/ Noticed(p) \/ p \in unseen
  /\ \A p \in Prefixes : watch[p] <= file[p] /\ (base[p] = "closed" => watch[p] = None)

IsReload(p, q) == q.type = "reload" /\ q.prefix = p

\* A query that needs the configuration of prefix p.
Needs(p, q) == q.type \in DataTypes /\ q.prefix = p /\ q.owner = Configuration

\* There is at most one reload of p on its way, and only while p is among the
\* databases that are reloaded.
OneReload(p) ==
  /\ \A i \in DOMAIN queue : IsReload(p, queue[i]) =>
       /\ p \in reloading /\ ~IsReload(p, exec.q)
       /\ \A j \in DOMAIN queue : IsReload(p, queue[j]) => j = i
       /\ \A j \in DOMAIN events : ~IsReload(p, events[j])
  /\ IsReload(p, exec.q) =>
       p \in reloading /\ \A j \in DOMAIN events : ~IsReload(p, events[j])
  /\ \A i \in DOMAIN events : IsReload(p, events[i]) =>
       p \in reloading /\ \A j \in DOMAIN events : IsReload(p, events[j]) => j = i

\* The reload of p is behind every query that needs the configuration.
ReloadLast(p) ==
  /\ \A i, j \in DOMAIN queue : IsReload(p, queue[i]) /\ Needs(p, queue[j]) => j < i
  /\ IsReload(p, exec.q) => \A j \in DOMAIN queue : ~Needs(p, queue[j])
  /\ \A i \in DOMAIN events : IsReload(p, events[i]) =>
       /\ ~Needs(p, exec.q) /\ \A j \in DOMAIN queue : ~Needs(p, queue[j])
       /\ \A j \in DOMAIN events : Needs(p, events[j]) => j < i

ReloadInv ==
  /\ \A p \in Prefixes : OneReload(p) /\ (p \notin disorder => ReloadLast(p))
  /\ \A i \in DOMAIN queue : Alive(queue[i])
  /\ \A i \in DOMAIN events : Alive(events[i])
  /\ Alive(exec.q)

\* ADD_PARAM of d has not been executed.
Adds(d, q) == q.type = "add" /\ q.owner = d
Removes(d, q) == q.type = "remove" /\ q.owner = d
Uses(d, q) == q.type # "remove" /\ q.owner = d

Coming(d) == exec.pc = "begin" /\ Adds(d, exec.q)

\* There is no REMOVE_PARAM of d on its way to the user interface.
NoEvent(d) == \A i \in DOMAIN events : ~Removes(d, events[i])

AbsentOK(d) ==
  /\ exec.q.owner # d /\ \A i \in DOMAIN queue : queue[i].owner # d
  /\ NoEvent(d)

DefinedOK(d) ==
  /\ ~Removes(d, exec.q) /\ \A i \in DOMAIN queue : ~Removes(d, queue[i])
  /\ NoEvent(d)
  /\ d \in extra \/ Coming(d) \/ \E i \in DOMAIN queue : Adds(d, queue[i])

UsesOK(d) ==
  /\ Uses(d, exec.q) => d \in extra \/ Coming(d)
  /\ \A j \in DOMAIN queue : Uses(d, queue[j]) /\ ~Adds(d, queue[j]) =>
       d \in extra \/ Coming(d) \/ \E i \in DOMAIN queue : i < j /\ Adds(d, queue[i])

RemovesOK(d) ==
  /\ \A i \in DOMAIN queue : Removes(d, queue[i]) =>
       ~Removes(d, exec.q) /\ NoEvent(d) /\ \A j \in DOMAIN queue : queue[j].owner = d => j <= i
  /\ Removes(d, exec.q) => NoEvent(d) /\ \A j \in DOMAIN queue : queue[j].owner # d
  /\ \A i \in DOMAIN events : Removes(d, events[i]) =>
       /\ exec.q.owner # d /\ \A j \in DOMAIN queue : queue[j].owner # d
       /\ \A j \in DOMAIN events : Removes(d, events[j]) => j = i

\* Defined parameter d: ADD_PARAM is before every query for it, REMOVE_PARAM
\* behind, and it is deleted when no query is left.
ParamOK(d) ==
  /\ params[d] = "absent" => AbsentOK(d)
  /\ params[d] = "defined" => DefinedOK(d)
  /\ UsesOK(d) /\ RemovesOK(d)

ParamInv == \A d \in Defined : ParamOK(d)

-----------------------------------------------------------------------------
(***************************************************************************)
(* The queue                                                               *)
(***************************************************************************)

\* Query q was put at place n + 1 of the queue.
PutAt(q, n) ==
  /\ n \in 0 .. Len(queue) /\ queue' \in Seq(Queries) /\ Len(queue') = Len(queue) + 1
  /\ \A i \in 1 .. n : queue'[i] = queue[i]
  /\ queue'[n + 1] = q
  /\ \A i \in n + 1 .. Len(queue) : queue'[i + 1] = queue[i]
  /\ \/ n = Len(queue)
     \/ cant = 0 /\ q.ranking # NaN /\ n \in UpperBounds(q)

\* The queue after insertion, entry by entry.
LEMMA InsertedSeq ==
  ASSUME queue \in Seq(Queries), NEW q \in Queries, NEW n \in 0 .. Len(queue)
  PROVE  /\ Inserted(q, n) \in Seq(Queries) /\ Len(Inserted(q, n)) = Len(queue) + 1
         /\ \A i \in 1 .. n : Inserted(q, n)[i] = queue[i]
         /\ Inserted(q, n)[n + 1] = q
         /\ \A i \in n + 1 .. Len(queue) : Inserted(q, n)[i + 1] = queue[i]
<1> DEFINE L == Len(queue)
           s == Inserted(q, n)
<1>1. L \in Nat /\ \A i \in 1 .. L : queue[i] \in Queries
  OBVIOUS
<1>2. s = [i \in 1 .. L + 1 |-> IF i <= n THEN queue[i] ELSE IF i = n + 1 THEN q ELSE queue[i - 1]]
  BY DEF Inserted
<1>3. \A i \in 1 .. L + 1 : s[i] \in Queries
  BY <1>1, <1>2
<1>4. s \in [1 .. L + 1 -> Queries]
  BY <1>2, <1>3
<1>5. s \in Seq(Queries) /\ Len(s) = L + 1
  BY <1>1, <1>4
<1> QED
  BY <1>1, <1>2, <1>5

\* Where the entries of the new queue come from.
From(n, i, k) == (i <= n /\ k = i) \/ (i > n + 1 /\ k = i - 1)

\* An entry of the queue is the new one or was there before.
LEMMA PutSource ==
  ASSUME queue \in Seq(Queries), NEW q, NEW n, PutAt(q, n), NEW i \in DOMAIN queue'
  PROVE  /\ i \in Int /\ n \in Int
         /\ \/ i = n + 1 /\ queue'[i] = q
            \/ \E k \in DOMAIN queue : From(n, i, k) /\ queue'[i] = queue[k]
<1> DEFINE L == Len(queue)
<1>1. L \in Nat /\ DOMAIN queue = 1 .. L /\ n \in 0 .. L
  BY DEF PutAt
<1>2. DOMAIN queue' = 1 .. Len(queue') /\ Len(queue') = L + 1
  BY DEF PutAt
<1>3. i \in 1 .. (L + 1)
  BY <1>2
<1>4. /\ \A k \in 1 .. n : queue'[k] = queue[k]
      /\ queue'[n + 1] = q
      /\ \A k \in (n + 1) .. L : queue'[k + 1] = queue[k]
  BY DEF PutAt
<1> HIDE DEF L
<1>5. CASE i <= n
  <2>1. i \in 1 .. n /\ i \in 1 .. L
    BY <1>1, <1>3, <1>5
  <2> QED
    BY <1>1, <1>3, <1>4, <1>5, <2>1 DEF From
<1>6. CASE i = n + 1
  BY <1>1, <1>3, <1>4, <1>6
<1>7. CASE i > n + 1
  <2>1. i - 1 \in (n + 1) .. L /\ (i - 1) + 1 = i /\ i - 1 \in 1 .. L
    BY <1>1, <1>3, <1>7
  <2>2. queue'[i] = queue[i - 1]
    BY <1>4, <2>1
  <2> QED
    BY <1>1, <1>3, <1>7, <2>1, <2>2 DEF From
<1> QED
  BY <1>1, <1>3, <1>5, <1>6, <1>7

\* ... and where the old entries are.
LEMMA PutTarget ==
  ASSUME queue \in Seq(Queries), NEW q, NEW n, PutAt(q, n)
  PROVE  /\ n + 1 \in DOMAIN queue' /\ queue'[n + 1] = q
         /\ \A k \in DOMAIN queue : \E i \in DOMAIN queue' : From(n, i, k) /\ queue'[i] = queue[k]
<1> DEFINE L == Len(queue)
<1>1. L \in Nat /\ DOMAIN queue = 1 .. L /\ n \in 0 .. L
  BY DEF PutAt
<1>2. DOMAIN queue' = 1 .. Len(queue') /\ Len(queue') = L + 1
  BY DEF PutAt
<1>3. DOMAIN queue' = 1 .. (L + 1)
  BY <1>2
<1>4. /\ \A k \in 1 .. n : queue'[k] = queue[k]
      /\ queue'[n + 1] = q
      /\ \A k \in (n + 1) .. L : queue'[k + 1] = queue[k]
  BY DEF PutAt
<1> HIDE DEF L
<1>5. ASSUME NEW k \in DOMAIN queue
      PROVE  \E i \in DOMAIN queue' : From(n, i, k) /\ queue'[i] = queue[k]
  <2>0. k \in 1 .. L
    BY <1>1
  <2>1. CASE k <= n
    <3>1. k \in 1 .. n /\ k \in 1 .. (L + 1)
      BY <1>1, <2>0, <2>1
    <3> QED
      BY <1>3, <1>4, <2>1, <3>1 DEF From
  <2>2. CASE k > n
    <3>1. k \in (n + 1) .. L /\ k + 1 \in 1 .. (L + 1) /\ k + 1 > n + 1 /\ (k + 1) - 1 = k
      BY <1>1, <2>0, <2>2
    <3> QED
      BY <1>3, <1>4, <3>1 DEF From
  <2> QED
    BY <1>1, <2>0, <2>1, <2>2
<1>6. n + 1 \in 1 .. (L + 1)
  BY <1>1
<1> QED
  BY <1>3, <1>4, <1>5, <1>6

\* Add: where the query goes.
LEMMA AddStep ==
  ASSUME CountInv, NEW q \in Queries, EntryOK(q), Add(q)
  PROVE  /\ \E n \in Nat : PutAt(q, n)
         /\ cant' = cant + (IF q.ranking = NaN THEN 1 ELSE 0)
         /\ semaphore' = semaphore + 1
         /\ \A i \in DOMAIN queue' : EntryOK(queue'[i])
<1>1. /\ queue \in Seq(Queries) /\ cant \in Nat
      /\ \A i \in DOMAIN queue : EntryOK(queue[i])
  BY DEF CountInv, TypeOK, Counted
<1>2. PICK n \in (IF cant' > 0 THEN {Len(queue)} ELSE UpperBounds(q)) : queue' = Inserted(q, n)
  BY DEF Add
<1>3. cant' = cant + (IF q.ranking = NaN THEN 1 ELSE 0)
  BY DEF Add
<1>4. n \in 0 .. Len(queue) /\ Len(queue) \in Nat
  BY <1>1, <1>2 DEF UpperBounds
<1>5. n = Len(queue) \/ (cant = 0 /\ q.ranking # NaN /\ n \in UpperBounds(q))
  BY <1>1, <1>2, <1>3
<1>6. PutAt(q, n)
  BY <1>1, <1>2, <1>4, <1>5, InsertedSeq, ZenonT(30) DEF PutAt
<1>7. \A i \in DOMAIN queue' : EntryOK(queue'[i])
  BY <1>1, <1>6, PutSource
<1> QED
  BY <1>3, <1>4, <1>6, <1>7 DEF Add

\* A list without its first entry.
LEMMA TailSource ==
  ASSUME NEW s \in Seq(Queries), s # <<>>
  PROVE  /\ Tail(s) \in Seq(Queries) /\ Len(Tail(s)) = Len(s) - 1
         /\ 1 \in DOMAIN s /\ Head(s) = s[1] /\ s[1] \in Queries
         /\ \A i \in DOMAIN Tail(s) : i \in Nat \ {0} /\ i + 1 \in DOMAIN s /\ Tail(s)[i] = s[i + 1]
         /\ \A k \in DOMAIN s : k \in Nat /\ (k = 1 \/ (k - 1 \in DOMAIN Tail(s) /\ Tail(s)[k - 1] = s[k]))
<1> DEFINE L == Len(s)
<1>1. L \in Nat /\ L > 0 /\ DOMAIN s = 1 .. L /\ \A i \in 1 .. L : s[i] \in Queries
  OBVIOUS
<1>2. Tail(s) \in Seq(Queries) /\ Len(Tail(s)) = L - 1 /\ DOMAIN Tail(s) = 1 .. (L - 1)
  OBVIOUS
<1>3. \A i \in 1 .. (L - 1) : Tail(s)[i] = s[i + 1]
  OBVIOUS
<1>4. Head(s) = s[1]
  OBVIOUS
<1> HIDE DEF L
<1>5. ASSUME NEW k \in 1 .. L
      PROVE  k \in Nat /\ (k = 1 \/ (k - 1 \in 1 .. (L - 1) /\ Tail(s)[k - 1] = s[k]))
  <2>1. k \in Nat /\ (k - 1) + 1 = k /\ (k = 1 \/ k - 1 \in 1 .. (L - 1))
    BY <1>1
  <2> QED
    BY <1>3, <2>1, ZenonT(30)
<1>6. \A i \in 1 .. (L - 1) : i \in Nat \ {0} /\ i + 1 \in 1 .. L
  BY <1>1
<1>7. 1 \in 1 .. L
  BY <1>1
<1>8. Len(Tail(s)) = Len(s) - 1
  BY <1>2 DEF L
<1> QED
  BY <1>1, <1>2, <1>3, <1>4, <1>5, <1>6, <1>7, <1>8

\* What a configuration's deletion leaves of a query.
SameBut(q, r) ==
  /\ r \in Queries
  /\ r.type = q.type /\ r.prefix = q.prefix /\ r.owner = q.owner /\ r.ranking = q.ranking

\* Freeing the parameters changes nothing else in a query.
LEMMA OrphanSame ==
  ASSUME NEW p, NEW q \in Queries
  PROVE  /\ SameBut(q, Orphan(p, q))
         /\ ~Needs(p, q) => Orphan(p, q) = q
BY ZenonT(30) DEF SameBut, Orphan, Needs, Queries

\* Sorting: every entry is an old one, with perhaps another ranking.
Ranked(q, r) ==
  /\ r \in Queries /\ r.type = q.type /\ r.prefix = q.prefix /\ r.owner = q.owner /\ r.live = q.live
  /\ r.ranking = q.ranking \/ (q.type \in {"get", "search"} /\ r.ranking \in 1 .. 4)

\* The sort permutes the queue and ranks it anew.
LEMMA ShuffleSource ==
  ASSUME queue \in Seq(Queries), Shuffle
  PROVE  /\ queue' \in Seq(Queries) /\ Len(queue') = Len(queue) /\ InOrder(queue')
         /\ \E pi \in [DOMAIN queue -> DOMAIN queue] :
              /\ \A i, j \in DOMAIN queue : pi[i] = pi[j] => i = j
              /\ \A i \in DOMAIN queue : Ranked(queue[pi[i]], queue'[i])
<1>1. PICK r \in [DOMAIN queue -> Rankings],
           pi \in {f \in [DOMAIN queue -> DOMAIN queue] :
                     \A i, j \in DOMAIN queue : f[i] = f[j] => i = j} :
       LET ranked == [i \in DOMAIN queue |->
             IF queue[i].type \in {"get", "search"}
             THEN [queue[i] EXCEPT !.ranking = r[i]] ELSE queue[i]]
           sorted == [i \in DOMAIN queue |-> ranked[pi[i]]]
       IN  InOrder(sorted) /\ queue' = sorted
  BY ZenonT(30) DEF Shuffle
<1> DEFINE ranked == [i \in DOMAIN queue |->
             IF queue[i].type \in {"get", "search"}
             THEN [queue[i] EXCEPT !.ranking = r[i]] ELSE queue[i]]
<1>2. DOMAIN queue = 1 .. Len(queue) /\ Len(queue) \in Nat /\ \A i \in DOMAIN queue : queue[i] \in Queries
  OBVIOUS
<1>3. \A i \in DOMAIN queue : r[i] \in 1 .. 4
  BY <1>1, Draw3Assumption
<1>4. \A i \in DOMAIN queue : Ranked(queue[i], ranked[i])
  <2> SUFFICES ASSUME NEW i \in DOMAIN queue
               PROVE  Ranked(queue[i], ranked[i])
    BY SMTT(30)
  <2>1. CASE queue[i].type \in {"get", "search"}
    <3>1. ranked[i] = [queue[i] EXCEPT !.ranking = r[i]]
      BY <2>1
    <3>2. queue[i] \in Queries /\ r[i] \in 1 .. 4 /\ r[i] \in Int
      BY <1>2, <1>3
    <3> HIDE DEF ranked
    <3>3. ranked[i] \in Queries
      BY <3>1, <3>2, ZenonT(30) DEF Queries
    <3>4. /\ ranked[i].type = queue[i].type /\ ranked[i].prefix = queue[i].prefix
          /\ ranked[i].owner = queue[i].owner /\ ranked[i].live = queue[i].live /\ ranked[i].ranking = r[i]
      BY <3>1, <3>2 DEF Queries
    <3> QED
      BY <2>1, <3>2, <3>3, <3>4 DEF Ranked
  <2>2. CASE queue[i].type \notin {"get", "search"}
    <3>1. ranked[i] = queue[i]
      BY <2>2
    <3> QED
      BY <1>2, <3>1, ZenonT(30) DEF Ranked
  <2> QED
    BY <2>1, <2>2
<1>5. queue' = [i \in DOMAIN queue |-> ranked[pi[i]]] /\ InOrder(queue')
  BY <1>1
<1>6. \A i \in DOMAIN queue : pi[i] \in DOMAIN queue
  BY <1>1
<1> HIDE DEF ranked
<1>7. \A i \in DOMAIN queue : Ranked(queue[pi[i]], queue'[i])
  BY <1>4, <1>5, <1>6
<1>8. queue' \in [1 .. Len(queue) -> Queries]
  BY <1>2, <1>5, <1>7 DEF Ranked
<1>9. queue' \in Seq(Queries) /\ Len(queue') = Len(queue)
  BY <1>2, <1>8
<1> QED
  BY <1>1, <1>5, <1>7, <1>9, ZenonT(30)

\* The queries the GUI thread makes.
LEMMA PlainType ==
  ASSUME NEW t \in OtherTypes \cup {"stop"}
  PROVE  Plain(t) \in Queries /\ EntryOK(Plain(t)) /\ Plain(t).type = t /\ Plain(t).owner = Configuration
<1>1. SomePrefix \in Prefixes
  BY Draw3Assumption DEF SomePrefix
<1>2. Ranking[t] \in {150, 100, -200}
  BY DEF Ranking, OtherTypes
<1> QED
  BY <1>1, <1>2 DEF Plain, Query, Queries, Types, DataTypes, OtherTypes, EntryOK, NaN

\* The queries of the draws.
LEMMA DrawType ==
  ASSUME NEW t \in DataTypes, NEW p \in Prefixes, NEW o \in Defined \cup {Configuration},
         NEW r \in (IF t \in {"get", "search"} THEN Rankings ELSE {Ranking[t]})
  PROVE  Query(t, p, o, r) \in Queries /\ EntryOK(Query(t, p, o, r))
<1>1. r \in 1 .. 150
  BY Draw3Assumption DEF DataTypes, Ranking
<1> QED
  BY <1>1 DEF Query, Queries, Types, DataTypes, EntryOK, NaN

\* The queries that add and remove a defined parameter.
LEMMA ParamType ==
  ASSUME NEW d \in Defined, NEW t \in {"add", "remove"}
  PROVE  Query(t, Home[d], d, NaN) \in Queries /\ EntryOK(Query(t, Home[d], d, NaN))
BY Draw3Assumption DEF Query, Queries, Types, DataTypes, EntryOK, NaN

\* The query that reloads a base.
LEMMA ReloadType ==
  ASSUME NEW p \in Prefixes
  PROVE  /\ Query("reload", p, Configuration, Ranking.reload) \in Queries
         /\ EntryOK(Query("reload", p, Configuration, Ranking.reload))
<1>1. Ranking.reload = -100
  BY DEF Ranking
<1> QED
  BY <1>1 DEF Query, Queries, Types, DataTypes, EntryOK, NaN

\* CheckModifications puts an event for every changed file behind the others.
Grown ==
  /\ events' \in Seq(Queries)
  /\ \A i \in DOMAIN events : i \in DOMAIN events' /\ events'[i] = events[i]
  /\ \A i \in DOMAIN events' : i \in DOMAIN events \/ events'[i].type = "changed"

\* Every change the watcher sees is announced.
LEMMA NoticeStep ==
  ASSUME CountInv, CheckModifications
  PROVE  /\ Grown /\ \A p \in Changed : Noticed(p)'
         /\ watch' = [p \in Prefixes |-> IF p \in Changed THEN file[p] ELSE watch[p]]
         /\ watch' \in [Prefixes -> Nat]
<1> DEFINE C == Cardinality(Changed)
<1>1. PICK order \in [1 .. C -> Changed] :
        /\ Changed = {order[i] : i \in DOMAIN order}
        /\ events' = events \o [i \in DOMAIN order |-> Notice(order[i])]
  BY ZenonT(30) DEF CheckModifications
<1>2. Changed \subseteq Prefixes
  BY DEF Changed
<1>3. C \in Nat
  BY DEF CountInv, Counted
<1> HIDE DEF C
<1>4. \A i \in 1 .. C : order[i] \in Changed /\ order[i] \in Prefixes
  BY <1>1, <1>2
<1> DEFINE new == [i \in 1 .. C |-> Notice(order[i])]
<1>5. \A p \in Prefixes : Notice(p) \in Queries /\ Notice(p).type = "changed" /\ Notice(p).prefix = p
  BY DEF Notice, Query, Queries
<1>6. new \in Seq(Queries) /\ Len(new) = C /\ \A i \in 1 .. C : new[i] = Notice(order[i])
  BY <1>3, <1>4, <1>5
<1>7. events' = events \o new /\ DOMAIN order = 1 .. C
  BY <1>1, ZenonT(30)
<1> HIDE DEF new
<1>8. events \in Seq(Queries)
  BY DEF CountInv, TypeOK
<1> DEFINE L == Len(events)
<1>9. /\ events' \in Seq(Queries) /\ L \in Nat /\ Len(events') = L + C
      /\ DOMAIN events = 1 .. L /\ DOMAIN events' = 1 .. (L + C)
      /\ \A i \in 1 .. L : events'[i] = events[i]
      /\ \A i \in 1 .. C : events'[L + i] = new[i]
  <2>1. L \in Nat /\ DOMAIN events = 1 .. L
    BY <1>8
  <2>2. events' \in Seq(Queries) /\ Len(events') = L + C
    BY <1>6, <1>7, <1>8
  <2>3. DOMAIN events' = 1 .. (L + C)
    BY <2>2
  <2>4. \A i \in 1 .. L : events'[i] = events[i]
    BY <1>3, <1>6, <1>7, <1>8
  <2>5. \A i \in 1 .. C : events'[L + i] = new[i]
    BY <1>3, <1>6, <1>7, <1>8
  <2> QED
    BY <2>1, <2>2, <2>3, <2>4, <2>5
<1> HIDE DEF L
<1>10. Grown
  <2>1. \A i \in 1 .. L : i \in 1 .. (L + C)
    BY <1>3, <1>9
  <2>2. ASSUME NEW i \in 1 .. (L + C), i \notin 1 .. L
        PROVE  events'[i].type = "changed"
    <3>1. i - L \in 1 .. C /\ L + (i - L) = i
      BY <1>3, <1>9, <2>2
    <3> QED
      BY <1>4, <1>5, <1>6, <1>9, <3>1
  <2> QED
    BY <1>9, <2>1, <2>2 DEF Grown
<1>11. ASSUME NEW p \in Changed
       PROVE  Noticed(p)'
  <2>1. PICK i \in 1 .. C : order[i] = p
    BY <1>1, <1>7
  <2>2. L + i \in 1 .. (L + C)
    BY <1>3, <1>9
  <2>3. events'[L + i].type = "changed" /\ events'[L + i].prefix = p
    BY <1>4, <1>5, <1>6, <1>9, <2>1
  <2> QED
    BY <1>9, <2>2, <2>3 DEF Noticed
<1>12. /\ watch' = [p \in Prefixes |-> IF p \in Changed THEN file[p] ELSE watch[p]]
       /\ watch' \in [Prefixes -> Nat]
  BY DEF CheckModifications, CountInv, TypeOK
<1> QED
  BY <1>10, <1>11, <1>12

-----------------------------------------------------------------------------
(***************************************************************************)
(* Types and counters                                                      *)
(***************************************************************************)

QueueOK ==
  /\ queue \in Seq(Queries) /\ semaphore \in Nat /\ cant \in Int /\ QueueCounts
  /\ \A i \in DOMAIN queue : EntryOK(queue[i])

OtherTypeOK ==
  /\ events \in Seq(Queries) /\ gui \in {"run", "stop"}
  /\ reloading \subseteq Prefixes /\ extra \subseteq Defined
  /\ params \in [Defined -> {"absent", "defined", "leaving"}]
  /\ file \in [Prefixes -> Nat \ {0}] /\ configs \in [Prefixes -> Nat \ {0}]
  /\ ready \in [Prefixes -> Nat] /\ watch \in [Prefixes -> Nat]
  /\ base \in [Prefixes -> {"closed", "open", "freed"}]
  /\ disorder \subseteq Prefixes /\ reopened \subseteq Prefixes /\ unseen \subseteq Prefixes

ExecType == exec \in [pc : {"wait", "lock", "begin", "run", "done"}, q : Queries]

\* CountInv in parts.
LEMMA CountParts == CountInv <=> QueueOK /\ OtherTypeOK /\ ExecType /\ ExecOK /\ Counted
BY ZenonT(30) DEF CountInv, QueueOK, OtherTypeOK, ExecType, TypeOK

\* Deleting a configuration: all queries stay but for their parameter.
LEMMA DeleteStep ==
  ASSUME CountInv, events # <<>>, NEW p \in Prefixes, ConfigurationReadyForLoad(p)
  PROVE  /\ queue' \in Seq(Queries) /\ Len(queue') = Len(queue) /\ DOMAIN queue' = DOMAIN queue
         /\ \A i \in DOMAIN queue : SameBut(queue[i], queue'[i]) /\ queue'[i] = Orphan(p, queue[i])
         /\ exec' \in [pc : {"wait", "lock", "begin", "run", "done"}, q : Queries]
         /\ exec'.pc = exec.pc /\ SameBut(exec.q, exec'.q) /\ exec'.q = Orphan(p, exec.q)
         /\ events' \in Seq(Queries)
         /\ \A i \in DOMAIN events' :
              /\ i \in Nat \ {0} /\ i + 1 \in DOMAIN events
              /\ SameBut(events[i + 1], events'[i]) /\ events'[i] = Orphan(p, events[i + 1])
         /\ \A i \in DOMAIN events : i \in Nat /\ (i # 1 => i - 1 \in DOMAIN events')
<1>1. QueueOK /\ OtherTypeOK /\ ExecType
  BY CountParts
<1>2. queue \in Seq(Queries) /\ events \in Seq(Queries)
  BY <1>1 DEF QueueOK, OtherTypeOK
<1>3. exec.q \in Queries
  BY <1>1 DEF ExecType
<1>4. queue' = [i \in DOMAIN queue |-> Orphan(p, queue[i])]
  BY DEF ConfigurationReadyForLoad
<1>5. \A i \in DOMAIN queue : queue[i] \in Queries
  BY <1>2
<1>6. \A i \in DOMAIN queue : SameBut(queue[i], queue'[i]) /\ queue'[i] = Orphan(p, queue[i])
  BY <1>4, <1>5, OrphanSame
<1>7. queue' \in [1 .. Len(queue) -> Queries]
  BY <1>2, <1>4, <1>6 DEF SameBut
<1>8. queue' \in Seq(Queries) /\ Len(queue') = Len(queue) /\ DOMAIN queue' = DOMAIN queue
  BY <1>2, <1>7
<1>9. exec' = [exec EXCEPT !.q = Orphan(p, exec.q)] /\ SameBut(exec.q, Orphan(p, exec.q))
  BY <1>3, OrphanSame DEF ConfigurationReadyForLoad
<1>10. /\ exec' \in [pc : {"wait", "lock", "begin", "run", "done"}, q : Queries]
       /\ exec'.pc = exec.pc /\ SameBut(exec.q, exec'.q) /\ exec'.q = Orphan(p, exec.q)
  BY <1>1, <1>9 DEF ExecType, SameBut
<1> DEFINE L == Len(events) - 1
<1>11. /\ L \in Nat /\ DOMAIN events = 1 .. (L + 1)
       /\ events' = [i \in 1 .. L |-> Orphan(p, events[i + 1])]
  BY <1>2 DEF ConfigurationReadyForLoad
<1> HIDE DEF L
<1>12. \A i \in 1 .. L : i \in Nat \ {0} /\ i + 1 \in 1 .. (L + 1)
  BY <1>11
<1>13. \A i \in 1 .. L : events[i + 1] \in Queries
  BY <1>2, <1>11, <1>12
<1>14. \A i \in 1 .. L : SameBut(events[i + 1], events'[i]) /\ events'[i] = Orphan(p, events[i + 1])
  BY <1>11, <1>13, OrphanSame
<1>15. events' \in [1 .. L -> Queries]
  BY <1>11, <1>14 DEF SameBut
<1>16. events' \in Seq(Queries) /\ DOMAIN events' = 1 .. L
  BY <1>11, <1>15
<1>17. \A i \in 1 .. (L + 1) : i \in Nat /\ (i # 1 => i - 1 \in 1 .. L)
  BY <1>11
<1> QED
  BY <1>6, <1>8, <1>10, <1>11, <1>12, <1>14, <1>16, <1>17

\* The first c events are gone.
Shifted(c) ==
  c \in Nat /\ \A i \in DOMAIN events' : i \in Nat \ {0} /\ i + c \in DOMAIN events /\ events'[i] = events[i + c]

\* Events that stay, stay in place.
LEMMA NoShift == events \in Seq(Queries) /\ UNCHANGED events => Shifted(0)
BY DEF Shifted

\* The event that is handled leaves, and the others move up.
LEMMA TailShift == events \in Seq(Queries) /\ events # <<>> /\ events' = Tail(events) => Shifted(1)
BY TailSource DEF Shifted

\* Events that are appended, or gone.
LEMMA PostStep ==
  ASSUME CountInv, PostResponse
  PROVE  /\ \A i \in DOMAIN events : i \in DOMAIN events' /\ events'[i] = events[i]
         /\ \A i \in DOMAIN events' : \/ i \in DOMAIN events
                                      \/ /\ events'[i] = exec.q /\ \A j \in DOMAIN events' : j <= i
                                         /\ \A j \in DOMAIN events : j < i
                                         /\ \A j \in DOMAIN events' : j # i => j \in DOMAIN events
<1>1. events \in Seq(Queries) /\ exec.q \in Queries
  BY CountParts DEF OtherTypeOK, ExecType
<1>2. CASE events' = events
  BY <1>2
<1>3. CASE events' = Append(events, exec.q)
  <2> DEFINE L == Len(events)
  <2>1. /\ DOMAIN events = 1 .. L /\ L \in Nat /\ DOMAIN events' = 1 .. (L + 1)
        /\ (\A i \in 1 .. L : events'[i] = events[i]) /\ events'[L + 1] = exec.q
    BY <1>1, <1>3
  <2> HIDE DEF L
  <2>2. /\ \A i \in 1 .. (L + 1) : i \in 1 .. L \/ i = L + 1
        /\ \A i \in 1 .. (L + 1) : i <= L + 1
        /\ \A i \in 1 .. L : i < L + 1 /\ i \in 1 .. (L + 1)
    BY <2>1
  <2> QED
    BY <2>1, <2>2
<1> QED
  BY <1>2, <1>3 DEF PostResponse

-----------------------------------------------------------------------------
(***************************************************************************)
(* Defined parameters                                                      *)
(***************************************************************************)

\* No query is on its way at the start.
LEMMA ParamInit == Init => ParamInv
<1> SUFFICES ASSUME Init, NEW d \in Defined PROVE ParamOK(d)
  BY DEF ParamInv
<1>1. NoQuery.type = "stop" /\ NoQuery.owner = Configuration /\ Configuration # d
  BY PlainType, Draw3Assumption DEF NoQuery
<1>2. exec.q = NoQuery /\ DOMAIN queue = {} /\ DOMAIN events = {} /\ params[d] = "absent"
  BY DEF Init
<1> QED
  BY <1>1, <1>2 DEF ParamOK, AbsentOK, UsesOK, RemovesOK, NoEvent, Uses, Removes

\* Query q was put behind all the others, at place n + 1.
AtEnd(q, n) ==
  /\ n + 1 \in DOMAIN queue' /\ queue'[n + 1] = q
  /\ \A k \in DOMAIN queue : k \in DOMAIN queue' /\ queue'[k] = queue[k] /\ k < n + 1
  /\ \A i \in DOMAIN queue' : i = n + 1 \/ i \in DOMAIN queue

\* A queue with ADD_PARAM or REMOVE_PARAM in it grows at its end only.
LEMMA PutFixed ==
  ASSUME queue \in Seq(Queries), \A i \in DOMAIN queue : EntryOK(queue[i]),
         NoneFixed, NEW q, EntryOK(q), NEW n, PutAt(q, n)
  PROVE  \/ AtEnd(q, n)
         \/ q.type \notin {"add", "remove"} /\ \A k \in DOMAIN queue : queue[k].type \notin {"add", "remove"}
<1> DEFINE L == Len(queue)
<1>1. L \in Nat /\ DOMAIN queue = 1 .. L /\ n \in 0 .. L
  BY DEF PutAt
<1>2. DOMAIN queue' = 1 .. Len(queue') /\ Len(queue') = L + 1
  BY DEF PutAt
<1>3. DOMAIN queue' = 1 .. (L + 1)
  BY <1>2
<1>4. CASE n = L
  <2>1. queue'[n + 1] = q /\ \A i \in 1 .. n : queue'[i] = queue[i]
    BY DEF PutAt
  <2> HIDE DEF L
  <2> QED
    BY <1>1, <1>3, <1>4, <2>1 DEF AtEnd
<1>5. CASE cant = 0 /\ q.ranking # NaN
  BY <1>5 DEF EntryOK, NoneFixed
<1> QED
  BY <1>4, <1>5 DEF PutAt

\* What is left of the events.
LEMMA ShiftRemoves ==
  ASSUME NEW c, Shifted(c), NEW d
  PROVE  /\ \A i \in DOMAIN events' : Removes(d, events'[i]) => i + c \in DOMAIN events /\ Removes(d, events[i + c])
         /\ \A i, j \in DOMAIN events' :
              (Removes(d, events[i + c]) /\ Removes(d, events[j + c]) => j + c = i + c)
                => (Removes(d, events'[i]) /\ Removes(d, events'[j]) => j = i)
         /\ \A j \in DOMAIN events' : j + c \in DOMAIN events
         /\ NoEvent(d) => NoEvent(d)'
BY DEF Shifted, NoEvent

\* A query is put in the queue: one that has nothing to do with d, one for a
\* parameter that is defined, ADD_PARAM and REMOVE_PARAM.
PutFor(d, q) ==
  \/ q.owner # d /\ params'[d] = params[d]
  \/ q.owner = d /\ q.type \notin {"add", "remove"} /\ params[d] = "defined" /\ params'[d] = "defined"
  \/ Adds(d, q) /\ params[d] = "absent" /\ params'[d] = "defined"
  \/ Removes(d, q) /\ params[d] = "defined" /\ params'[d] = "leaving"

\* A new query leaves the life of a defined parameter in order.
LEMMA PutParam ==
  ASSUME queue \in Seq(Queries), \A i \in DOMAIN queue : EntryOK(queue[i]),
         NoneFixed, NEW q, EntryOK(q), NEW n, PutAt(q, n),
         UNCHANGED <<exec, extra>>, NEW c, Shifted(c), NEW d \in Defined, ParamOK(d), PutFor(d, q)
  PROVE  ParamOK(d)'
<1> DEFINE Still == q.type \notin {"add", "remove"} /\ \A k \in DOMAIN queue : queue[k].type \notin {"add", "remove"}
<1>1. AtEnd(q, n) \/ Still
  BY PutFixed
<1>2. /\ \A i \in DOMAIN queue' : queue'[i] = q \/ \E k \in DOMAIN queue : queue'[i] = queue[k]
      /\ \A k \in DOMAIN queue : \E i \in DOMAIN queue' : queue'[i] = queue[k]
      /\ \E i \in DOMAIN queue' : queue'[i] = q
  BY PutSource, PutTarget
<1>3. NoEvent(d) => NoEvent(d)'
  BY ShiftRemoves
<1>4. Coming(d)' <=> Coming(d)
  BY DEF Coming, Adds
<1>5. params'[d] = "absent" => AbsentOK(d)'
  <2> SUFFICES ASSUME params'[d] = "absent" PROVE AbsentOK(d)'
    OBVIOUS
  <2>1. q.owner # d /\ AbsentOK(d)
    BY DEF PutFor, ParamOK
  <2> QED
    BY <1>2, <1>3, <2>1 DEF AbsentOK
<1>6. params'[d] = "defined" => DefinedOK(d)'
  <2> SUFFICES ASSUME params'[d] = "defined" PROVE DefinedOK(d)'
    BY SMTT(30)
  <2>1. CASE params[d] = "defined" /\ ~Removes(d, q)
    BY <1>2, <1>3, <1>4, <2>1 DEF ParamOK, DefinedOK, Adds, Removes
  <2>2. CASE params[d] = "absent" /\ Adds(d, q)
    BY <1>2, <1>3, <1>4, <2>2 DEF ParamOK, AbsentOK, DefinedOK, Adds, Removes
  <2> QED
    BY <2>1, <2>2 DEF PutFor, Removes, Adds
<1>7. UsesOK(d)'
  <2>1. Uses(d, exec'.q) => d \in extra' \/ Coming(d)'
    BY <1>4 DEF ParamOK, UsesOK, Uses
  <2>2. ASSUME NEW j \in DOMAIN queue', Uses(d, queue'[j]), ~Adds(d, queue'[j]), ~(d \in extra \/ Coming(d))
        PROVE  \E i \in DOMAIN queue' : i < j /\ Adds(d, queue'[i])
    <3>1. CASE queue'[j] = q
      <4>1. params[d] = "defined"
        BY <2>2, <3>1 DEF PutFor, Uses, Adds, Removes
      <4>2. PICK i \in DOMAIN queue : Adds(d, queue[i])
        BY <2>2, <4>1 DEF ParamOK, DefinedOK
      <4>3. AtEnd(q, n)
        BY <1>1, <4>2 DEF Adds
      <4>4. j = n + 1 \/ j \in DOMAIN queue
        BY <4>3 DEF AtEnd
      <4>5. CASE j \in DOMAIN queue
        BY <2>2, <4>3, <4>5 DEF AtEnd, ParamOK, UsesOK, Uses, Adds
      <4> QED
        BY <4>2, <4>3, <4>4, <4>5 DEF AtEnd
    <3>2. CASE queue'[j] # q
      <4>1. PICK k \in DOMAIN queue : queue'[j] = queue[k]
        BY <1>2, <3>2
      <4>2. \E i \in DOMAIN queue : i < k /\ Adds(d, queue[i])
        BY <2>2, <4>1 DEF ParamOK, UsesOK
      <4>3. AtEnd(q, n)
        BY <1>1, <4>2 DEF Adds
      <4>4. j \in DOMAIN queue /\ queue'[j] = queue[j]
        BY <3>2, <4>3 DEF AtEnd
      <4>5. \E i \in DOMAIN queue : i < j /\ Adds(d, queue[i])
        BY <2>2, <4>4 DEF ParamOK, UsesOK
      <4> QED
        BY <4>3, <4>5 DEF AtEnd
    <3> QED
      BY <3>1, <3>2
  <2> QED
    BY <1>4, <2>1, <2>2 DEF UsesOK
<1>8. RemovesOK(d)'
  <2>0. RemovesOK(d)
    BY DEF ParamOK
  <2>1. ASSUME NEW i \in DOMAIN queue', Removes(d, queue'[i])
        PROVE  ~Removes(d, exec'.q) /\ NoEvent(d)' /\ \A j \in DOMAIN queue' : queue'[j].owner = d => j <= i
    <3>1. AtEnd(q, n)
      BY <1>1, <1>2, <2>1 DEF Removes
    <3>2. CASE i \in DOMAIN queue
      <4>1. queue'[i] = queue[i] /\ params[d] # "defined" /\ params[d] # "absent"
        BY <2>1, <3>1, <3>2, SMTT(30) DEF AtEnd, ParamOK, DefinedOK, AbsentOK, Removes
      <4>2. q.owner # d
        BY <4>1 DEF PutFor
      <4> QED
        BY <1>3, <2>0, <2>1, <3>1, <3>2, <4>1, <4>2, SMTT(30) DEF AtEnd, RemovesOK, Removes
    <3>3. CASE i = n + 1
      <4>1. DefinedOK(d)
        BY <2>1, <3>1, <3>3 DEF AtEnd, PutFor, Removes, Adds, ParamOK
      <4>2. n \in Int
        BY SMTT(30) DEF PutAt
      <4> QED
        BY <1>3, <3>1, <3>3, <4>1, <4>2 DEF AtEnd, DefinedOK, Removes
    <3> QED
      BY <3>1, <3>2, <3>3 DEF AtEnd
  <2>2. ASSUME Removes(d, exec'.q)
        PROVE  NoEvent(d)' /\ \A j \in DOMAIN queue' : queue'[j].owner # d
    <3>1. params[d] # "defined" /\ params[d] # "absent"
      BY <2>2 DEF ParamOK, DefinedOK, AbsentOK, Removes
    <3>2. q.owner # d
      BY <3>1 DEF PutFor
    <3> QED
      BY <1>2, <1>3, <2>0, <2>2, <3>2, SMTT(30) DEF RemovesOK, Removes
  <2>3. ASSUME NEW i \in DOMAIN events', Removes(d, events'[i])
        PROVE  /\ exec'.q.owner # d /\ \A j \in DOMAIN queue' : queue'[j].owner # d
               /\ \A j \in DOMAIN events' : Removes(d, events'[j]) => j = i
    <3>1. i + c \in DOMAIN events /\ Removes(d, events[i + c])
      BY <2>3, ShiftRemoves, ZenonT(30)
    <3>2. params[d] # "defined" /\ params[d] # "absent"
      BY <3>1 DEF ParamOK, DefinedOK, AbsentOK, NoEvent
    <3>3. q.owner # d
      BY <3>2 DEF PutFor
    <3>4. \A j \in DOMAIN events' : Removes(d, events'[j]) => j = i
      BY <2>0, <2>3, <3>1, ShiftRemoves, ZenonT(30) DEF RemovesOK
    <3> QED
      BY <1>2, <2>0, <3>1, <3>3, <3>4, SMTT(30) DEF RemovesOK
  <2> QED
    BY <2>1, <2>2, <2>3 DEF RemovesOK, Removes
<1> QED
  BY <1>5, <1>6, <1>7, <1>8 DEF ParamOK

\* The events about d are those there were.
EventsKept(d) ==
  /\ NoEvent(d) => NoEvent(d)'
  /\ (\A i, j \in DOMAIN events : Removes(d, events[i]) /\ Removes(d, events[j]) => j = i)
       => \A i, j \in DOMAIN events' : Removes(d, events'[i]) /\ Removes(d, events'[j]) => j = i

\* A step that leaves the queries for d, and where they are, alone.
LEMMA KeepParam ==
  ASSUME DOMAIN queue' = DOMAIN queue,
         \A i \in DOMAIN queue : queue'[i].type = queue[i].type /\ queue'[i].owner = queue[i].owner,
         exec'.q.type = exec.q.type, exec'.q.owner = exec.q.owner,
         NEW d \in Defined, params'[d] = params[d], EventsKept(d), ParamOK(d),
         d \in extra \/ Coming(d) => d \in extra' \/ Coming(d)'
  PROVE  ParamOK(d)'
<1>1. /\ \A i \in DOMAIN queue : (Adds(d, queue'[i]) <=> Adds(d, queue[i])) /\ (Removes(d, queue'[i]) <=> Removes(d, queue[i]))
      /\ \A i \in DOMAIN queue : (Uses(d, queue'[i]) <=> Uses(d, queue[i]))
      /\ (Removes(d, exec'.q) <=> Removes(d, exec.q)) /\ (Uses(d, exec'.q) <=> Uses(d, exec.q))
  BY DEF Adds, Removes, Uses
<1>2. params'[d] = "absent" => AbsentOK(d)'
  BY DEF ParamOK, AbsentOK, EventsKept
<1>3. params'[d] = "defined" => DefinedOK(d)'
  BY <1>1, ZenonT(30) DEF ParamOK, DefinedOK, EventsKept, Adds, Removes
<1>4. UsesOK(d)'
  BY <1>1, ZenonT(30) DEF ParamOK, UsesOK, Adds, Uses
<1>5. RemovesOK(d)'
  <2>1. RemovesOK(d) /\ EventsKept(d)
    BY SMTT(30) DEF ParamOK
  <2>2. \A i, j \in DOMAIN events : Removes(d, events[i]) /\ Removes(d, events[j]) => j = i
    BY <2>1, SMTT(30) DEF RemovesOK
  <2>3. \A i, j \in DOMAIN events' : Removes(d, events'[i]) /\ Removes(d, events'[j]) => j = i
    BY <2>1, <2>2, SMTT(30) DEF EventsKept
  <2>4. ~NoEvent(d) => exec'.q.owner # d /\ \A j \in DOMAIN queue' : queue'[j].owner # d
    BY <2>1 DEF RemovesOK, NoEvent
  <2>5. (\E i \in DOMAIN events' : Removes(d, events'[i])) => ~NoEvent(d)
    BY <2>1, SMTT(30) DEF EventsKept, NoEvent
  <2>6. ASSUME NEW i \in DOMAIN queue', Removes(d, queue'[i])
        PROVE  ~Removes(d, exec'.q) /\ NoEvent(d)' /\ \A j \in DOMAIN queue' : queue'[j].owner = d => j <= i
    BY <1>1, <2>1, <2>6, ZenonT(30) DEF RemovesOK, EventsKept
  <2>7. ASSUME Removes(d, exec'.q)
        PROVE  NoEvent(d)' /\ \A j \in DOMAIN queue' : queue'[j].owner # d
    BY <1>1, <2>1, <2>7, ZenonT(30) DEF RemovesOK, EventsKept
  <2> QED
    BY <2>3, <2>4, <2>5, <2>6, <2>7 DEF RemovesOK, Removes
<1> QED
  BY <1>2, <1>3, <1>4, <1>5 DEF ParamOK

\* ShufflePriorities sorts a queue without ADD_PARAM and REMOVE_PARAM.
LEMMA ShuffleParam ==
  ASSUME queue \in Seq(Queries), \A i \in DOMAIN queue : EntryOK(queue[i]),
         NoneFixed, cant = 0, Shuffle,
         UNCHANGED <<exec, events, extra, params>>, NEW d \in Defined, ParamOK(d)
  PROVE  ParamOK(d)'
<1>1. PICK pi \in [DOMAIN queue -> DOMAIN queue] :
        /\ queue' \in Seq(Queries) /\ Len(queue') = Len(queue)
        /\ \A i \in DOMAIN queue : Ranked(queue[pi[i]], queue'[i])
  BY ShuffleSource
<1>2. \A i \in DOMAIN queue' : \E k \in DOMAIN queue : queue'[i].type = queue[k].type /\ queue'[i].owner = queue[k].owner
  BY <1>1 DEF Ranked
<1>4. \A k \in DOMAIN queue : queue[k].type \notin {"add", "remove"}
  BY DEF EntryOK, NoneFixed
<1>5. \A i \in DOMAIN queue' : ~Adds(d, queue'[i]) /\ ~Removes(d, queue'[i])
  BY <1>2, <1>4 DEF Adds, Removes
<1>6. \A i \in DOMAIN queue : ~Adds(d, queue[i]) /\ ~Removes(d, queue[i])
  BY <1>4 DEF Adds, Removes
<1>7. (Coming(d)' <=> Coming(d)) /\ (NoEvent(d)' <=> NoEvent(d))
  BY SMTT(30) DEF Coming, Adds, NoEvent, Removes
<1>8. params'[d] = "absent" => AbsentOK(d)'
  BY <1>2, <1>7, SMTT(30) DEF ParamOK, AbsentOK
<1>9. params'[d] = "defined" => DefinedOK(d)'
  BY <1>5, <1>6, <1>7, SMTT(30) DEF ParamOK, DefinedOK, Removes
<1>10. UsesOK(d)'
  <2>1. Uses(d, exec.q) => d \in extra \/ Coming(d)
    BY DEF ParamOK, UsesOK
  <2>2. ASSUME NEW j \in DOMAIN queue', Uses(d, queue'[j])
        PROVE  d \in extra \/ Coming(d)
    <3>1. PICK k \in DOMAIN queue : queue'[j].type = queue[k].type /\ queue'[j].owner = queue[k].owner
      BY <1>2, SMTT(30)
    <3> QED
      BY <1>6, <2>2, <3>1 DEF ParamOK, UsesOK, Uses
  <2> QED
    BY <1>7, <2>1, <2>2 DEF UsesOK, Uses
<1>11. RemovesOK(d)'
  <2>1. ASSUME \A j \in DOMAIN queue : queue[j].owner # d
        PROVE  \A j \in DOMAIN queue' : queue'[j].owner # d
    BY <1>2, <2>1
  <2> QED
    BY <1>5, <1>7, <2>1 DEF ParamOK, RemovesOK, Removes
<1> QED
  BY <1>8, <1>9, <1>10, <1>11, SMTT(30) DEF ParamOK

\* GetQuery: the first query becomes that of the executor.
LEMMA TakeParam ==
  ASSUME queue \in Seq(Queries), queue # <<>>, queue' = Tail(queue), ~Busy,
         exec'.q = queue[1], queue[1].type # "stop" => exec'.pc = "begin",
         UNCHANGED <<events, extra, params>>, NEW d \in Defined, ParamOK(d)
  PROVE  ParamOK(d)'
<1>1. /\ 1 \in DOMAIN queue
      /\ \A i \in DOMAIN queue' : i \in Nat \ {0} /\ i + 1 \in DOMAIN queue /\ queue'[i] = queue[i + 1]
      /\ \A k \in DOMAIN queue : k \in Nat /\ (k = 1 \/ (k - 1 \in DOMAIN queue' /\ queue'[k - 1] = queue[k]))
  BY TailSource
<1>2. ~Coming(d) /\ (Adds(d, queue[1]) => Coming(d)')
  BY DEF Coming, Busy, Adds
<1>3. NoEvent(d)' <=> NoEvent(d)
  BY DEF NoEvent, Removes
<1>4. params'[d] = "absent" => AbsentOK(d)'
  BY <1>1, <1>3 DEF ParamOK, AbsentOK
<1>5. ASSUME params'[d] = "defined"
      PROVE  DefinedOK(d)'
  <2>1. DefinedOK(d)
    BY <1>5 DEF ParamOK
  <2>2. ~Removes(d, exec'.q) /\ NoEvent(d)' /\ \A i \in DOMAIN queue' : ~Removes(d, queue'[i])
    BY <1>1, <1>3, <2>1 DEF DefinedOK
  <2>3. ASSUME NEW k \in DOMAIN queue, Adds(d, queue[k])
        PROVE  Coming(d)' \/ \E i \in DOMAIN queue' : Adds(d, queue'[i])
    BY <1>1, <1>2, <2>3
  <2> QED
    BY <1>2, <2>1, <2>2, <2>3 DEF DefinedOK, Removes
<1>6. UsesOK(d)'
  <2>1. Uses(d, queue[1]) => d \in extra \/ Coming(d)'
    <3> SUFFICES ASSUME Uses(d, queue[1]), ~Adds(d, queue[1]) PROVE d \in extra
      BY <1>2
    <3> QED
      BY <1>1, <1>2 DEF ParamOK, UsesOK
  <2>2. ASSUME NEW j \in DOMAIN queue', Uses(d, queue'[j]), ~Adds(d, queue'[j]), ~(d \in extra \/ Coming(d)')
        PROVE  \E i \in DOMAIN queue' : i < j /\ Adds(d, queue'[i])
    <3>1. PICK k \in DOMAIN queue : k < j + 1 /\ Adds(d, queue[k])
      BY <1>1, <1>2, <2>2 DEF ParamOK, UsesOK
    <3>2. k # 1
      BY <1>2, <2>2, <3>1
    <3>3. k - 1 \in DOMAIN queue' /\ queue'[k - 1] = queue[k] /\ k - 1 < j
      BY <1>1, <3>1, <3>2
    <3> QED
      BY <3>1, <3>3
  <2> QED
    BY <2>1, <2>2 DEF UsesOK, Uses
<1>7. RemovesOK(d)'
  <2>0. RemovesOK(d)
    BY DEF ParamOK
  <2>1. ASSUME NEW i \in DOMAIN queue', Removes(d, queue'[i])
        PROVE  ~Removes(d, exec'.q) /\ NoEvent(d)' /\ \A j \in DOMAIN queue' : queue'[j].owner = d => j <= i
    <3>1. i \in Nat \ {0} /\ i + 1 \in DOMAIN queue /\ Removes(d, queue[i + 1])
      BY <1>1, <2>1
    <3>2. NoEvent(d) /\ \A j \in DOMAIN queue : queue[j].owner = d => j <= i + 1
      BY <2>0, <3>1 DEF RemovesOK
    <3>3. ~Removes(d, queue[1])
      <4>1. Removes(d, queue[1]) => i + 1 <= 1
        BY <1>1, <2>0, <3>1 DEF RemovesOK, Removes
      <4> QED
        BY <3>1, <4>1
    <3> QED
      BY <1>1, <1>3, <3>1, <3>2, <3>3 DEF Removes
  <2>2. ASSUME Removes(d, exec'.q)
        PROVE  NoEvent(d)' /\ \A j \in DOMAIN queue' : queue'[j].owner # d
    <3>1. NoEvent(d) /\ \A j \in DOMAIN queue : queue[j].owner = d => j <= 1
      BY <1>1, <2>0, <2>2 DEF RemovesOK
    <3> QED
      BY <1>1, <1>3, <3>1
  <2> QED
    BY <1>1, <2>0, <2>1, <2>2, SMTT(30) DEF RemovesOK, Removes
<1> QED
  BY <1>4, <1>5, <1>6, <1>7 DEF ParamOK

\* The executor is done with its query.
LEMMA PostParam ==
  ASSUME CountInv, PostResponse, NEW d \in Defined, ParamOK(d)
  PROVE  ParamOK(d)'
<1>1. UNCHANGED <<queue, extra, params>> /\ exec.pc = "run" /\ exec'.pc = "wait" /\ exec'.q = NoQuery
  BY DEF PostResponse, qvars, szbase
<1>2. NoQuery.type = "stop" /\ NoQuery.owner # d
  BY PlainType, Draw3Assumption DEF NoQuery
<1>3. ~Coming(d) /\ ~Uses(d, NoQuery) /\ ~Removes(d, NoQuery)
  BY <1>1, <1>2 DEF Coming, Uses, Removes
<1>4. \A i \in DOMAIN events' : \/ i \in DOMAIN events /\ events'[i] = events[i]
                                \/ events'[i] = exec.q /\ \A j \in DOMAIN events' : j # i => j \in DOMAIN events /\ events'[j] = events[j]
  BY PostStep, SMTT(30)
<1>5. NoEvent(d) /\ ~Removes(d, exec.q) => NoEvent(d)'
  BY <1>4 DEF NoEvent
<1>6. params'[d] = "absent" => AbsentOK(d)'
  BY <1>1, <1>2, <1>5, SMTT(30) DEF ParamOK, AbsentOK, Removes
<1>7. params'[d] = "defined" => DefinedOK(d)'
  BY <1>1, <1>3, <1>5, SMTT(30) DEF ParamOK, DefinedOK, Adds, Removes
<1>8. UsesOK(d)'
  BY <1>1, <1>3, SMTT(30) DEF ParamOK, UsesOK, Uses, Adds
<1>9. RemovesOK(d)'
  <2>0. RemovesOK(d)
    BY DEF ParamOK
  <2>1. ASSUME NEW i \in DOMAIN queue', Removes(d, queue'[i])
        PROVE  NoEvent(d)' /\ \A j \in DOMAIN queue' : queue'[j].owner = d => j <= i
    BY <1>1, <1>5, <2>0, <2>1 DEF RemovesOK
  <2>2. ASSUME NEW i \in DOMAIN events', Removes(d, events'[i])
        PROVE  /\ \A j \in DOMAIN queue' : queue'[j].owner # d
               /\ \A j \in DOMAIN events' : Removes(d, events'[j]) => j = i
    <3>1. CASE Removes(d, exec.q)
      <4>1. NoEvent(d) /\ \A j \in DOMAIN queue : queue[j].owner # d
        BY <2>0, <3>1 DEF RemovesOK
      <4>2. \A j \in DOMAIN events : ~Removes(d, events[j])
        BY <4>1 DEF NoEvent
      <4> QED
        BY <1>1, <1>4, <2>2, <4>1, <4>2, SMTT(30)
    <3>2. CASE ~Removes(d, exec.q)
      <4>1. \A j \in DOMAIN events' : Removes(d, events'[j]) => j \in DOMAIN events /\ Removes(d, events[j])
        BY <1>4, <3>2, SMTT(30)
      <4> QED
        BY <1>1, <2>0, <2>2, <4>1, SMTT(30) DEF RemovesOK
    <3> QED
      BY <3>1, <3>2
  <2> QED
    BY <1>1, <1>2, <1>3, <2>1, <2>2 DEF RemovesOK, Removes
<1> QED
  BY <1>6, <1>7, <1>8, <1>9 DEF ParamOK

\* A query of the user interface is put in the queue.
LEMMA AddParam ==
  ASSUME CountInv, NEW q \in Queries, EntryOK(q), Add(q), UNCHANGED <<exec, extra>>, NEW c, Shifted(c),
         NEW d \in Defined, ParamOK(d), PutFor(d, q)
  PROVE  ParamOK(d)'
<1>1. /\ queue \in Seq(Queries) /\ (\A i \in DOMAIN queue : EntryOK(queue[i]))
      /\ NoneFixed
  BY CountParts, SMTT(30) DEF QueueOK, QueueCounts, Counted
<1>2. PICK n \in Nat : PutAt(q, n)
  BY AddStep
<1> QED
  BY <1>1, <1>2, PutParam

\* REMOVE_PARAM was executed: szbase does not know the parameter any more.
LEMMA ForgetParam ==
  ASSUME UNCHANGED <<queue, events, params>>, exec'.q = exec.q, NEW d \in Defined, ParamOK(d), Removes(d, exec.q)
  PROVE  ParamOK(d)'
<1>1. params[d] # "absent" /\ params[d] # "defined" /\ ~Uses(d, exec.q)
  BY SMTT(30) DEF ParamOK, AbsentOK, DefinedOK, Removes, Uses
<1>2. NoEvent(d) /\ \A j \in DOMAIN queue : queue[j].owner # d
  BY SMTT(30) DEF ParamOK, RemovesOK
<1>3. UsesOK(d)'
  BY <1>1, <1>2 DEF UsesOK, Uses
<1>4. RemovesOK(d)'
  BY <1>2, SMTT(30) DEF RemovesOK, NoEvent, Removes
<1> QED
  BY <1>1, <1>3, <1>4 DEF ParamOK

\* The answer to REMOVE_PARAM: the parameter is deleted.
LEMMA DeleteParam ==
  ASSUME UNCHANGED <<queue, exec, extra>>, Shifted(1), NEW d \in Defined, ParamOK(d),
         1 \in DOMAIN events, Removes(d, events[1]), params'[d] = "absent"
  PROVE  ParamOK(d)'
<1>1. /\ exec.q.owner # d /\ (\A j \in DOMAIN queue : queue[j].owner # d)
      /\ \A j \in DOMAIN events : Removes(d, events[j]) => j = 1
  BY ZenonT(30) DEF ParamOK, RemovesOK
<1>2. NoEvent(d)'
  BY <1>1 DEF NoEvent, Shifted, Removes
<1> QED
  BY <1>1, <1>2, SMTT(30) DEF ParamOK, AbsentOK, UsesOK, RemovesOK, Uses, Removes, NoEvent

\* Every step keeps ParamInv.
LEMMA ParamStep ==
  ASSUME CountInv, ParamInv, [Next]_vars
  PROVE  ParamInv'
<1> SUFFICES ASSUME NEW d \in Defined
             PROVE  ParamOK(d)'
  BY DEF ParamInv
<1>0. QueueOK /\ OtherTypeOK /\ ExecType /\ ExecOK /\ Counted
  BY CountParts
<1>t. /\ events \in Seq(Queries) /\ queue \in Seq(Queries) /\ exec.q \in Queries
      /\ (\A i \in DOMAIN queue : EntryOK(queue[i])) /\ NoneFixed
      /\ params \in [Defined -> {"absent", "defined", "leaving"}]
  BY <1>0 DEF OtherTypeOK, QueueOK, QueueCounts, ExecType, Counted
<1>i. ParamOK(d) /\ d # Configuration
  BY Draw3Assumption DEF ParamInv
<1>k. ASSUME UNCHANGED <<queue, params>>, exec'.q = exec.q, EventsKept(d),
             d \in extra \/ Coming(d) => d \in extra' \/ Coming(d)'
      PROVE  ParamOK(d)'
  BY <1>i, <1>k, KeepParam
<1>e. UNCHANGED events => EventsKept(d)
  BY DEF EventsKept, NoEvent, Removes
<1>s. ASSUME NEW c, Shifted(c)
      PROVE  EventsKept(d)
  BY <1>s, ShiftRemoves, SMTT(30) DEF EventsKept
<1>g. Grown => EventsKept(d)
  BY DEF Grown, EventsKept, NoEvent, Removes
<1>1. CASE UNCHANGED vars \/ Ended \/ \E p \in Prefixes : FileChange(p)
  <2>1. UNCHANGED <<queue, exec, events, extra, params>>
    BY <1>1, ZenonT(30) DEF vars, qvars, szbase, Ended, FileChange
  <2> QED
    BY <1>e, <1>k, <2>1 DEF Coming, Adds
<1>2. CASE ShufflePriorities
  BY <1>2, <1>i, <1>t, ShuffleParam, SMTT(30) DEF ShufflePriorities, szbase
<1>3. CASE StopThreads
  <2>1. Add(Plain("stop")) /\ UNCHANGED <<exec, extra, events, params>>
    BY <1>3, SMTT(30) DEF StopThreads, szbase
  <2> QED
    BY <1>i, <1>t, <2>1, PlainType, NoShift, AddParam, ZenonT(30) DEF PutFor
<1>4. ASSUME NEW t \in Sent \cap DataTypes, NEW p \in Prefixes, NEW o \in Defined \cup {Configuration},
             QueryDraw(t, p, o)
      PROVE  ParamOK(d)'
  <2>1. PICK r \in (IF t \in {"get", "search"} THEN Rankings ELSE {Ranking[t]}) : Add(Query(t, p, o, r))
    BY <1>4, ZenonT(30) DEF QueryDraw
  <2> DEFINE q == Query(t, p, o, r)
  <2>2. q \in Queries /\ EntryOK(q) /\ q.type = t /\ q.owner = o
    BY DrawType, SMTT(30) DEF Query
  <2>3. UNCHANGED <<exec, events, extra, params>> /\ (o \in Defined => params[o] = "defined")
    BY <1>4, ZenonT(30) DEF QueryDraw, szbase
  <2>4. PutFor(d, q)
    BY <2>2, <2>3, ZenonT(30) DEF PutFor, DataTypes
  <2>5. Add(q)
    BY <2>1, ZenonT(30)
  <2>6. Shifted(0) /\ UNCHANGED <<exec, extra>>
    BY <1>t, <2>3, NoShift
  <2> HIDE DEF q
  <2> QED
    BY <1>i, <2>2, <2>4, <2>5, <2>6, AddParam, ZenonT(30)
<1>5. ASSUME NEW t \in Sent \cap OtherTypes, QueryPlain(t)
      PROVE  ParamOK(d)'
  <2>1. Add(Plain(t)) /\ UNCHANGED <<exec, extra, events, params>>
    BY <1>5, SMTT(30) DEF QueryPlain, szbase
  <2> QED
    BY <1>i, <1>t, <2>1, PlainType, NoShift, AddParam DEF PutFor
<1>6. ASSUME NEW e \in Defined, AddParams(e) \/ RemoveParams(e)
      PROVE  ParamOK(d)'
  <2>1. PICK t \in {"add", "remove"} :
          /\ Add(Query(t, Home[e], e, NaN))
          /\ \/ t = "add" /\ params[e] = "absent" /\ params' = [params EXCEPT ![e] = "defined"]
             \/ t = "remove" /\ params[e] = "defined" /\ params' = [params EXCEPT ![e] = "leaving"]
    BY <1>6, ZenonT(30) DEF AddParams, RemoveParams
  <2> DEFINE q == Query(t, Home[e], e, NaN)
  <2>2. q \in Queries /\ EntryOK(q) /\ q.type = t /\ q.owner = e
    BY ParamType, ZenonT(30) DEF Query
  <2>3. UNCHANGED <<exec, events, extra>>
    BY <1>6, ZenonT(30) DEF AddParams, RemoveParams, szbase
  <2>4. PutFor(d, q)
    BY <1>t, <2>1, <2>2 DEF PutFor, Adds, Removes
  <2>5. Add(q)
    BY <2>1, ZenonT(30)
  <2>6. Shifted(0) /\ UNCHANGED <<exec, extra>>
    BY <1>t, <2>3, NoShift
  <2> HIDE DEF q
  <2> QED
    BY <1>i, <2>2, <2>4, <2>5, <2>6, AddParam, ZenonT(30)
<1>7. ASSUME NEW p \in Prefixes, ReloadConfiguration(p), UNCHANGED <<exec, extra, params>>, NEW c, Shifted(c)
      PROVE  ParamOK(d)'
  <2>1. CASE UNCHANGED qvars
    BY <1>7, <1>k, <1>s, <2>1 DEF qvars, Coming, Adds
  <2>2. CASE Add(Query("reload", p, Configuration, Ranking.reload))
    <3>1. Query("reload", p, Configuration, Ranking.reload).owner = Configuration
      BY SMTT(30) DEF Query
    <3>2. PutFor(d, Query("reload", p, Configuration, Ranking.reload))
      BY <1>7, <1>i, <3>1 DEF PutFor
    <3> QED
      BY <1>7, <1>i, <2>2, <3>2, ReloadType, AddParam
  <2> QED
    BY <1>7, <2>1, <2>2 DEF ReloadConfiguration, InitiateConfigurationReload
<1>8. ASSUME NEW p \in Prefixes, OnReloadConfig(p)
      PROVE  ParamOK(d)'
  BY <1>7, <1>8, <1>t, NoShift DEF OnReloadConfig, szbase
<1>9. CASE OnConfigurationChange
  <2>1. /\ events # <<>> /\ events' = Tail(events) /\ UNCHANGED <<exec, extra, params>>
        /\ ReloadConfiguration(Head(events).prefix)
    BY <1>9 DEF OnConfigurationChange, szbase
  <2>2. Head(events).prefix \in Prefixes
    BY <1>t, <2>1, TailSource, ZenonT(30) DEF Queries
  <2> QED
    BY <1>7, <1>t, <2>1, <2>2, TailShift
<1>10. CASE OnDatabaseResponse
  <2>1. events # <<>> /\ UNCHANGED extra
    BY <1>10 DEF OnDatabaseResponse
  <2>2. 1 \in DOMAIN events /\ Head(events) = events[1] /\ events[1] \in Queries
    BY <1>t, <2>1, TailSource
  <2>3. CASE events[1].type = "reload"
    <3>p. PICK r \in Prefixes : r = events[1].prefix
      BY <2>2 DEF Queries
    <3>1. ConfigurationReadyForLoad(r) /\ UNCHANGED params
      BY <1>10, <2>2, <2>3, <3>p DEF OnDatabaseResponse, ConfigurationReadyForLoad
    <3>2. /\ DOMAIN queue' = DOMAIN queue
          /\ \A i \in DOMAIN queue : queue'[i].type = queue[i].type /\ queue'[i].owner = queue[i].owner
          /\ exec'.pc = exec.pc /\ exec'.q.type = exec.q.type /\ exec'.q.owner = exec.q.owner
          /\ \A i \in DOMAIN events' :
                /\ i \in Nat \ {0} /\ i + 1 \in DOMAIN events
                /\ events'[i].type = events[i + 1].type /\ events'[i].owner = events[i + 1].owner
      BY <2>1, <3>1, DeleteStep DEF SameBut
    <3>3. \A i \in DOMAIN events' : i \in Nat /\ i + 1 \in DOMAIN events /\ (Removes(d, events'[i]) <=> Removes(d, events[i + 1]))
      BY <3>2 DEF Removes
    <3>4. EventsKept(d)
      <4>1. NoEvent(d) => NoEvent(d)'
        BY <3>3 DEF NoEvent
      <4>2. ASSUME \A i, j \in DOMAIN events : Removes(d, events[i]) /\ Removes(d, events[j]) => j = i,
                   NEW i \in DOMAIN events', NEW j \in DOMAIN events', Removes(d, events'[i]), Removes(d, events'[j])
            PROVE  j = i
        <5>1. j + 1 = i + 1
          BY <3>3, <4>2
        <5> QED
          BY <3>3, <5>1
      <4> QED
        BY <4>1, <4>2 DEF EventsKept
    <3>5. Coming(d)' <=> Coming(d)
      BY <3>2 DEF Coming, Adds
    <3> QED
      BY <1>i, <2>1, <3>1, <3>2, <3>4, <3>5, KeepParam
  <2>4. CASE events[1].type # "reload"
    <3>1. /\ events' = Tail(events) /\ UNCHANGED <<queue, exec>>
          /\ params' = IF events[1].type = "remove" THEN [params EXCEPT ![events[1].owner] = "absent"] ELSE params
      BY <1>10, <2>2, <2>4 DEF OnDatabaseResponse
    <3>2. Shifted(1)
      BY <1>t, <2>1, <3>1, TailShift
    <3>3. CASE Removes(d, events[1])
      <4>1. params'[d] = "absent"
        BY <1>t, <3>1, <3>3 DEF Removes
      <4> QED
        BY <1>i, <2>1, <2>2, <3>1, <3>2, <3>3, <4>1, DeleteParam
    <3>4. CASE ~Removes(d, events[1])
      <4>1. params'[d] = params[d]
        BY <1>t, <3>1, <3>4 DEF Removes
      <4>2. Coming(d)' <=> Coming(d)
        BY <3>1 DEF Coming, Adds
      <4> QED
        BY <1>i, <1>s, <2>1, <3>1, <3>2, <4>1, <4>2, KeepParam
    <3> QED
      BY <3>3, <3>4
  <2> QED
    BY <2>3, <2>4
<1>11. CASE Watcher
  <2>1. Grown
    BY <1>11, NoticeStep DEF Watcher, CountInv
  <2>2. UNCHANGED <<queue, exec, extra, params>>
    BY <1>11 DEF Watcher, qvars
  <2> QED
    BY <1>g, <1>k, <2>1, <2>2 DEF Coming, Adds
<1>12. CASE WaitQuery
  <2>1. exec.pc = "wait" /\ exec'.q = exec.q /\ UNCHANGED <<queue, events, extra, params>>
    BY <1>0, <1>12 DEF WaitQuery, ExecType, szbase
  <2> QED
    BY <1>e, <1>k, <2>1 DEF Coming
<1>13. CASE TakeQuery
  <2>1. /\ exec.pc = "lock" /\ queue' = Tail(queue) /\ UNCHANGED <<events, extra, params>>
        /\ exec'.q = Head(queue) /\ (Head(queue).type # "stop" => exec'.pc = "begin")
    BY <1>13 DEF TakeQuery
  <2>2. queue # <<>>
    BY <1>0, <1>t, <2>1 DEF QueueOK, QueueCounts
  <2>3. Head(queue) = queue[1]
    BY <1>t, <2>2, TailSource
  <2>4. ~Busy
    BY <2>1 DEF Busy
  <2> QED
    BY <1>i, <1>t, <2>1, <2>2, <2>3, <2>4, TakeParam
<1>14. CASE Execute
  <2>1. /\ exec.pc = "begin" /\ exec'.q = exec.q /\ UNCHANGED <<queue, params>>
        /\ \/ extra' = ExtraParams(exec.q) /\ UNCHANGED events
           \/ UNCHANGED extra /\ exec.q.type \in {"check", "reload"} /\ (UNCHANGED events \/ CheckModifications)
    BY <1>0, <1>14 DEF Execute, qvars, ExecType
  <2>2. EventsKept(d)
    BY <1>e, <1>g, <2>1, NoticeStep, SMTT(30) DEF CountInv
  <2>3. CASE Removes(d, exec.q)
    <3>1. UNCHANGED events
      BY <2>1, <2>3 DEF Removes
    <3> QED
      BY <1>i, <2>1, <2>3, <3>1, ForgetParam
  <2>4. CASE ~Removes(d, exec.q)
    <3>1. d \in extra \/ Coming(d) => d \in extra'
      BY <2>1, <2>4 DEF ExtraParams, Coming, Adds, Removes
    <3> QED
      BY <1>k, <2>1, <2>2, <3>1
  <2> QED
    BY <2>3, <2>4
<1>15. CASE PostResponse
  BY <1>15, <1>i, PostParam
<1> QED
  BY <1>1, <1>2, <1>3, <1>4, <1>5, <1>6, <1>8, <1>9, <1>10, <1>11, <1>12, <1>13, <1>14, <1>15
     DEF Next, UserStep, HandleEvent, ExecutorStep

-----------------------------------------------------------------------------
(***************************************************************************)
(* Bases and changes                                                       *)
(***************************************************************************)

\* What the user does changes none of szbase's state.
LEMMA UserFrame ==
  ASSUME UserStep
  PROVE  UNCHANGED <<exec, events, extra, base, watch, file, configs, reopened>>
BY SMTT(30) DEF UserStep, ShufflePriorities, StopThreads, QueryDraw, QueryPlain, AddParams, RemoveParams,
       OnReloadConfig, szbase

\* BaseInv holds initially.
LEMMA BaseInit == Init => BaseInv
BY ZenonT(30) DEF Init, BaseInv, BaseAlive, Removed

\* Every step keeps BaseInv.
LEMMA BaseStep ==
  ASSUME CountInv, BaseInv, [Next]_vars
  PROVE  BaseInv'
<1>0. OtherTypeOK /\ ExecType
  BY CountParts
<1>t. events \in Seq(Queries) /\ base \in [Prefixes -> {"closed", "open", "freed"}]
  BY <1>0 DEF OtherTypeOK
<1>f. ASSUME UNCHANGED <<base, reopened>>, \A p \in Prefixes : Removed(p)' => Removed(p)
      PROVE  BaseInv'
  BY <1>f DEF BaseInv, BaseAlive
<1>g. ASSUME UNCHANGED <<exec, events, base, reopened>>
      PROVE  BaseInv'
  BY <1>f, <1>g DEF Removed
<1>1. CASE UNCHANGED vars \/ Ended
  BY <1>1, <1>g DEF vars, szbase, Ended
<1>2. CASE UserStep
  BY <1>2, <1>g, UserFrame, SMTT(30)
<1>3. CASE \E p \in Prefixes : FileChange(p)
  BY <1>3, <1>g DEF FileChange, szbase
<1>4. CASE OnConfigurationChange
  <2>1. events # <<>> /\ events' = Tail(events) /\ UNCHANGED <<exec, base, reopened>>
    BY <1>4 DEF OnConfigurationChange, szbase
  <2>2. \A i \in DOMAIN events' : i + 1 \in DOMAIN events /\ events'[i] = events[i + 1]
    BY <1>t, <2>1, TailSource
  <2> QED
    BY <1>f, <2>1, <2>2 DEF Removed
<1>5. CASE OnDatabaseResponse
  <2>1. events # <<>> /\ UNCHANGED reopened
    BY <1>5 DEF OnDatabaseResponse
  <2>2. /\ 1 \in DOMAIN events /\ Head(events) = events[1] /\ events[1] \in Queries
        /\ \A i \in DOMAIN Tail(events) : i + 1 \in DOMAIN events /\ Tail(events)[i] = events[i + 1]
    BY <1>t, <2>1, TailSource
  <2>3. CASE events[1].type # "reload"
    <3>1. events' = Tail(events) /\ UNCHANGED <<exec, base>>
      BY <1>5, <2>2, <2>3 DEF OnDatabaseResponse
    <3> QED
      BY <1>f, <2>1, <2>2, <3>1 DEF Removed
  <2>4. CASE events[1].type = "reload"
    <3> DEFINE p == events[1].prefix
    <3>1. p \in Prefixes /\ ConfigurationReadyForLoad(p) /\ Removed(p)
      BY <1>5, <2>2, <2>4, SMTT(30) DEF OnDatabaseResponse, Queries, Removed
    <3>2. /\ exec'.pc = exec.pc /\ SameBut(exec.q, exec'.q)
          /\ \A i \in DOMAIN events' : i + 1 \in DOMAIN events /\ SameBut(events[i + 1], events'[i])
      BY <2>1, <3>1, DeleteStep
    <3>3. \A r \in Prefixes : Removed(r)' => Removed(r)
      BY <3>2 DEF Removed, SameBut
    <3>4. base' = [base EXCEPT ![p] = IF @ = "open" THEN "freed" ELSE @]
      BY <3>1 DEF ConfigurationReadyForLoad, LoadConfig
    <3>5. base[p] = "closed" \/ p \in reopened
      BY <3>1 DEF BaseInv
    <3> HIDE DEF p
    <3>6. \A r \in Prefixes : base'[r] = base[r] \/ r \in reopened
      BY <1>t, <3>1, <3>4, <3>5
    <3> QED
      BY <2>1, <3>3, <3>6 DEF BaseInv, BaseAlive
  <2> QED
    BY <2>3, <2>4
<1>6. ASSUME CheckModifications, UNCHANGED <<base, reopened>>, exec'.q = exec.q,
             exec'.pc = exec.pc \/ exec.q.type = "check"
      PROVE  BaseInv'
  <2>1. Grown
    BY <1>6, NoticeStep DEF CountInv
  <2>2. \A p \in Prefixes : Removed(p)' => Removed(p)
    BY <1>6, <2>1 DEF Removed, Grown
  <2> QED
    BY <1>6, <1>f, <2>2
<1>7. CASE Watcher
  BY <1>6, <1>7 DEF Watcher
<1>8. CASE WaitQuery
  BY <1>0, <1>8, <1>f DEF WaitQuery, Removed, szbase, ExecType
<1>9. CASE TakeQuery
  <2>1. exec'.pc # "run" /\ UNCHANGED <<events, reopened>>
    BY <1>9 DEF TakeQuery
  <2>2. \A p \in Prefixes : base'[p] \in {"closed", base[p]}
    BY <1>9 DEF TakeQuery
  <2> QED
    BY <2>1, <2>2 DEF BaseInv, BaseAlive, Removed
<1>10. CASE Execute
  <2>1. exec.pc = "begin" /\ exec'.pc = "run" /\ exec'.q = exec.q
    BY <1>0, <1>10 DEF Execute, ExecType
  <2>2. CASE exec.q.type = "check"
    BY <1>6, <1>10, <2>1, <2>2 DEF Execute
  <2>3. CASE exec.q.type = "reload"
    <3> DEFINE p == exec.q.prefix
    <3>1. RemoveConfig(p) /\ UNCHANGED events /\ p \in Prefixes
      BY <1>0, <1>10, <2>3 DEF Execute, ExecType, Queries
    <3>2. base' = [base EXCEPT ![p] = "closed"] /\ reopened' = reopened \ {p}
      BY <3>1 DEF RemoveConfig
    <3>3. \A r \in Prefixes : r # p => (Removed(r)' => Removed(r))
      BY <2>1, <3>1 DEF Removed
    <3> HIDE DEF p
    <3>4. \A r \in Prefixes : base'[r] = IF r = p THEN "closed" ELSE base[r]
      BY <1>t, <3>1, <3>2
    <3> QED
      BY <3>2, <3>3, <3>4 DEF BaseInv, BaseAlive
  <2>4. CASE exec.q.type \notin {"check", "reload"}
    <3>1. PICK S \in Bases(exec.q) : Open(S)
      BY <1>10, <2>4 DEF Execute
    <3>2. UNCHANGED events
      BY <1>10, <2>4 DEF Execute
    <3>3. \A r \in Prefixes : Removed(r)' => Removed(r)
      BY <2>1, <2>4, <3>2, SMTT(30) DEF Removed
    <3> DEFINE new == {p \in S : base[p] = "closed"}
    <3>4. /\ base' = [p \in Prefixes |-> IF p \in new THEN "open" ELSE base[p]]
          /\ reopened' = reopened \cup {p \in new : Removed(p)}
      BY <3>1 DEF Open
    <3> HIDE DEF new
    <3>5. \A r \in Prefixes : base'[r] = IF r \in new THEN "open" ELSE base[r]
      BY <3>4
    <3> QED
      BY <3>3, <3>4, <3>5 DEF BaseInv, BaseAlive
  <2> QED
    BY <2>2, <2>3, <2>4
<1>11. CASE PostResponse
  <2>1. /\ exec.pc = "run" /\ exec'.pc = "wait" /\ UNCHANGED <<base, reopened>>
        /\ events' = events \/ events' = Append(events, exec.q)
    BY <1>11 DEF PostResponse, szbase
  <2>2. \A i \in DOMAIN events' : (i \in DOMAIN events /\ events'[i] = events[i]) \/ events'[i] = exec.q
    BY <1>0, <1>t, <2>1, SMTT(30) DEF ExecType
  <2> QED
    BY <1>f, <2>1, <2>2 DEF Removed
<1> QED
  BY <1>1, <1>2, <1>3, <1>4, <1>5, <1>7, <1>8, <1>9, <1>10, <1>11
     DEF Next, HandleEvent, ExecutorStep

\* A change that waits to be noticed or handled, or was lost.
Known(p) == p \in Changed \/ Noticed(p) \/ p \in unseen

ChangeOK(p) ==
  /\ configs[p] # file[p] => Known(p) \/ ready[p] = file[p]
  /\ ready[p] \notin {None, file[p]} => Known(p)

WatchOK(p) == watch[p] <= file[p] /\ (base[p] = "closed" => watch[p] = None)

\* ChangeInv in parts.
LEMMA ChangeParts ==
  ChangeInv <=> \A p \in Prefixes : WatchOK(p) /\ (exec.pc # "done" => ChangeOK(p))
BY DEF ChangeInv, NoChangeLost, Known, ChangeOK, WatchOK

\* ChangeInv holds initially.
LEMMA ChangeInit == Init => ChangeInv
BY ChangeParts, SMTT(30) DEF Init, WatchOK, ChangeOK, None

\* Reading a new version accounts for every change of it.
LEMMA ReadChange ==
  ASSUME CountInv, NEW p \in Prefixes, ReloadConfiguration(p), UNCHANGED <<file, configs>>
  PROVE  /\ configs[p] # file[p] => p \in unseen' \/ ready'[p] = file[p]
         /\ ready'[p] \notin {None, file[p]} => p \in unseen'
         /\ \A r \in Prefixes : r # p => ready'[r] = ready[r] /\ (r \in unseen <=> r \in unseen')
<1>1. ready \in [Prefixes -> Nat]
  BY DEF CountInv, TypeOK
<1>2. CASE ReadyFails(p)
  BY <1>2 DEF ReadyFails
<1>3. CASE ReadyConfigurationForLoad(p)
  <2>1. ready'[p] = IF ready[p] = None THEN file[p] ELSE ready[p]
    BY <1>1, <1>3 DEF ReadyConfigurationForLoad
  <2>2. unseen' = IF ready'[p] = file[p] THEN unseen \ {p} ELSE unseen \cup {p}
    BY <1>3 DEF ReadyConfigurationForLoad
  <2>3. \A r \in Prefixes : r # p => ready'[r] = ready[r]
    BY <1>1, <1>3 DEF ReadyConfigurationForLoad
  <2> QED
    BY <2>1, <2>2, <2>3
<1> QED
  BY <1>2, <1>3 DEF ReloadConfiguration

\* Every step keeps ChangeInv.
LEMMA ChangeStep ==
  ASSUME CountInv, ChangeInv, [Next]_vars
  PROVE  ChangeInv'
<1>0. OtherTypeOK /\ ExecType
  BY CountParts
<1>t. /\ events \in Seq(Queries) /\ file \in [Prefixes -> Nat \ {0}] /\ watch \in [Prefixes -> Nat]
      /\ ready \in [Prefixes -> Nat] /\ base \in [Prefixes -> {"closed", "open", "freed"}]
      /\ configs \in [Prefixes -> Nat \ {0}]
  BY <1>0 DEF OtherTypeOK
<1>i. \A p \in Prefixes : WatchOK(p) /\ (exec.pc # "done" => ChangeOK(p))
  BY ChangeParts, SMTT(30)
<1> SUFFICES ASSUME NEW p \in Prefixes
             PROVE  WatchOK(p)' /\ (exec'.pc # "done" => ChangeOK(p)')
  BY SMTT(30) DEF ChangeInv, NoChangeLost, Known, ChangeOK, WatchOK
<1>f. ASSUME UNCHANGED <<file, configs, ready, watch, base>>, exec.pc = "done" => exec'.pc = "done",
             Known(p) => Known(p)'
      PROVE  WatchOK(p)' /\ (exec'.pc # "done" => ChangeOK(p)')
  BY <1>f, <1>i DEF WatchOK, ChangeOK
<1>g. ASSUME UNCHANGED <<file, configs, ready, watch, base, unseen, events>>, exec.pc = "done" => exec'.pc = "done"
      PROVE  WatchOK(p)' /\ (exec'.pc # "done" => ChangeOK(p)')
  <2>1. Known(p) => Known(p)'
    BY <1>g DEF Known, Changed, Noticed
  <2> QED
    BY <1>f, <1>g, <2>1, SMTT(30)
<1>1. CASE UNCHANGED vars \/ Ended
  BY <1>1, <1>g DEF vars, szbase, Ended
<1>2. CASE ShufflePriorities \/ StopThreads
  BY <1>2, <1>g DEF ShufflePriorities, StopThreads, szbase
<1>3. CASE \/ \E t \in Sent \cap DataTypes, r \in Prefixes, o \in Defined \cup {Configuration} : QueryDraw(t, r, o)
           \/ \E t \in Sent \cap OtherTypes : QueryPlain(t)
           \/ \E d \in Defined : AddParams(d) \/ RemoveParams(d)
  BY <1>3, <1>g DEF QueryDraw, QueryPlain, AddParams, RemoveParams, szbase
<1>4. ASSUME NEW r \in Prefixes, ReloadConfiguration(r), UNCHANGED <<exec, watch, base, file, configs>>,
             r # p => (Noticed(p) => Noticed(p)')
      PROVE  WatchOK(p)' /\ (exec'.pc # "done" => ChangeOK(p)')
  <2>1. CASE r = p
    <3>1. /\ configs[p] # file[p] => p \in unseen' \/ ready'[p] = file[p]
          /\ ready'[p] \notin {None, file[p]} => p \in unseen'
      BY <1>4, <2>1, ReadChange, SMTT(30)
    <3> QED
      BY <1>4, <1>i, <3>1 DEF WatchOK, ChangeOK, Known
  <2>2. CASE r # p
    <3>1. ready'[p] = ready[p] /\ (p \in unseen <=> p \in unseen')
      BY <1>4, <2>2, ReadChange, SMTT(30)
    <3>2. Known(p) => Known(p)'
      BY <1>4, <2>2, <3>1 DEF Known, Changed
    <3> QED
      BY <1>4, <1>i, <3>1, <3>2, SMTT(30) DEF WatchOK, ChangeOK
  <2> QED
    BY <2>1, <2>2, SMTT(30)
<1>5. CASE \E r \in Prefixes : OnReloadConfig(r)
  <2>1. PICK r \in Prefixes : OnReloadConfig(r)
    BY <1>5
  <2>2. ReloadConfiguration(r) /\ UNCHANGED <<exec, watch, base, file, configs, events>>
    BY <2>1 DEF OnReloadConfig, szbase
  <2>3. Noticed(p) => Noticed(p)'
    BY <2>2 DEF Noticed
  <2> QED
    BY <1>4, <2>2, <2>3
<1>6. CASE OnConfigurationChange
  <2>1. /\ events # <<>> /\ events' = Tail(events) /\ UNCHANGED <<exec, watch, base, file, configs>>
        /\ ReloadConfiguration(Head(events).prefix)
    BY <1>6 DEF OnConfigurationChange, szbase
  <2>2. /\ Head(events) = events[1] /\ events[1] \in Queries
        /\ \A k \in DOMAIN events : k = 1 \/ (k - 1 \in DOMAIN Tail(events) /\ Tail(events)[k - 1] = events[k])
    BY <1>t, <2>1, TailSource
  <2>3. events[1].prefix # p => (Noticed(p) => Noticed(p)')
    BY <2>1, <2>2, SMTT(30) DEF Noticed
  <2>4. events[1].prefix \in Prefixes
    BY <2>2 DEF Queries
  <2> QED
    BY <1>4, <2>1, <2>2, <2>3, <2>4
<1>7. CASE OnDatabaseResponse
  <2>1. events # <<>> /\ Head(events).type # "changed" /\ UNCHANGED <<watch, file, unseen>>
    BY <1>7 DEF OnDatabaseResponse
  <2>2. /\ Head(events) = events[1] /\ events[1] \in Queries
        /\ \A k \in DOMAIN events : k = 1 \/ (k - 1 \in DOMAIN Tail(events) /\ Tail(events)[k - 1] = events[k])
    BY <1>t, <2>1, TailSource
  <2>3. CASE events[1].type # "reload"
    <3>1. events' = Tail(events) /\ UNCHANGED <<exec, base, configs, ready>>
      BY <1>7, <2>2, <2>3, SMTT(30) DEF OnDatabaseResponse
    <3>2. Known(p) => Known(p)'
      BY <2>1, <2>2, <3>1, ZenonT(30) DEF Known, Changed, Noticed
    <3> QED
      BY <1>f, <2>1, <3>1, <3>2
  <2>4. CASE events[1].type = "reload"
    <3> DEFINE r == events[1].prefix
    <3>1. r \in Prefixes /\ ConfigurationReadyForLoad(r)
      BY <1>7, <2>2, <2>4 DEF OnDatabaseResponse, Queries
    <3>2. /\ exec'.pc = exec.pc
          /\ \A i \in DOMAIN events' :
               i \in Nat \ {0} /\ i + 1 \in DOMAIN events /\ SameBut(events[i + 1], events'[i])
          /\ \A i \in DOMAIN events : i \in Nat /\ (i # 1 => i - 1 \in DOMAIN events')
      BY <2>1, <3>1, DeleteStep
    <3>3. Noticed(p) => Noticed(p)'
      <4> SUFFICES ASSUME NEW i \in DOMAIN events, events[i].type = "changed", events[i].prefix = p
                   PROVE  Noticed(p)'
        BY DEF Noticed
      <4>1. i # 1
        BY <2>1, <2>2
      <4>2. i - 1 \in DOMAIN events' /\ (i - 1) + 1 = i
        BY <3>2, <4>1
      <4>3. SameBut(events[i], events'[i - 1])
        BY <3>2, <4>2, SMTT(30)
      <4> QED
        BY <4>2, <4>3 DEF Noticed, SameBut
    <3>4. Known(p) => Known(p)'
      BY <2>1, <3>3 DEF Known, Changed
    <3>5. /\ base' = [base EXCEPT ![r] = IF @ = "open" THEN "freed" ELSE @]
          /\ configs' = [configs EXCEPT ![r] = IF ready[r] # None THEN ready[r] ELSE file[r]]
          /\ ready' = [ready EXCEPT ![r] = None]
      BY <3>1 DEF ConfigurationReadyForLoad, LoadConfig
    <3> HIDE DEF r
    <3>6. WatchOK(p)'
      BY <1>i, <1>t, <2>1, <3>1, <3>5, SMTT(30) DEF WatchOK
    <3>7. CASE p = r
      <4>1. configs'[p] = (IF ready[p] # None THEN ready[p] ELSE file[p]) /\ ready'[p] = None
        BY <1>t, <3>5, <3>7, SMTT(30)
      <4> QED
        BY <1>i, <2>1, <3>2, <3>4, <3>6, <4>1 DEF ChangeOK
    <3>8. CASE p # r
      <4>1. configs'[p] = configs[p] /\ ready'[p] = ready[p]
        BY <1>t, <3>5, <3>8, SMTT(30)
      <4> QED
        BY <1>i, <2>1, <3>2, <3>4, <3>6, <4>1 DEF ChangeOK
    <3> QED
      BY <3>7, <3>8
  <2> QED
    BY <2>3, <2>4
<1>8. ASSUME CheckModifications, UNCHANGED <<base, file, configs, ready, unseen>>,
             exec.pc = "done" => exec'.pc = "done"
      PROVE  WatchOK(p)' /\ (exec'.pc # "done" => ChangeOK(p)')
  <2>1. /\ Grown /\ \A r \in Changed : Noticed(r)'
        /\ watch' = [r \in Prefixes |-> IF r \in Changed THEN file[r] ELSE watch[r]]
    BY <1>8, NoticeStep DEF CountInv
  <2>2. Known(p) => Known(p)'
    BY <1>8, <2>1 DEF Known, Noticed, Grown
  <2>3. WatchOK(p)'
    <3>1. watch'[p] = IF p \in Changed THEN file[p] ELSE watch[p]
      BY <2>1
    <3> QED
      BY <1>8, <1>i, <1>t, <3>1 DEF WatchOK, Changed, None
  <2> QED
    BY <1>8, <1>i, <2>2, <2>3 DEF ChangeOK
<1>9. CASE Watcher
  BY <1>8, <1>9 DEF Watcher
<1>10. CASE \E r \in Prefixes : FileChange(r)
  <2>1. PICK r \in Prefixes : FileChange(r)
    BY <1>10
  <2>2. /\ file' = [file EXCEPT ![r] = @ + 1] /\ unseen' = IF watch[r] = None THEN unseen \cup {r} ELSE unseen
        /\ UNCHANGED <<exec, events, watch, base, configs, ready>>
    BY <2>1, SMTT(30) DEF FileChange, szbase
  <2>3. CASE r = p
    <3>1. file'[p] = file[p] + 1 /\ file[p] \in Nat /\ watch[p] \in Nat /\ watch[p] <= file[p]
      BY <1>i, <1>t, <2>2, <2>3, SMTT(30) DEF WatchOK
    <3>2. Known(p)'
      BY <2>2, <2>3, <3>1, SMTT(30) DEF Known, Changed
    <3> QED
      BY <1>i, <2>2, <3>1, <3>2 DEF WatchOK, ChangeOK
  <2>4. CASE r # p
    <3>1. file'[p] = file[p]
      BY <1>t, <2>2, <2>4
    <3>2. Known(p) => Known(p)'
      BY <2>2, <3>1 DEF Known, Changed, Noticed
    <3> QED
      BY <1>i, <2>2, <3>1, <3>2, ZenonT(30) DEF WatchOK, ChangeOK
  <2> QED
    BY <2>3, <2>4
<1>11. CASE WaitQuery
  BY <1>11, <1>g DEF WaitQuery, szbase
<1>12. CASE TakeQuery
  <2>1. CASE Head(queue).type = "stop"
    BY <1>12, <1>i, <1>t, <2>1, SMTT(30) DEF TakeQuery, WatchOK, None
  <2>2. CASE Head(queue).type # "stop"
    BY <1>12, <1>g, <2>2 DEF TakeQuery
  <2> QED
    BY <2>1, <2>2
<1>13. CASE Execute
  <2>1. exec.pc = "begin" /\ exec'.pc = "run" /\ UNCHANGED <<file, configs, ready>>
    BY <1>0, <1>13 DEF Execute, ExecType
  <2>2. CASE exec.q.type = "check"
    BY <1>8, <1>13, <2>1, <2>2, SMTT(30) DEF Execute
  <2>3. CASE exec.q.type = "reload"
    <3> DEFINE r == exec.q.prefix
    <3>1. RemoveConfig(r) /\ UNCHANGED events /\ r \in Prefixes
      BY <1>0, <1>13, <2>3 DEF Execute, ExecType, Queries
    <3>2. /\ base' = [base EXCEPT ![r] = "closed"] /\ watch' = [watch EXCEPT ![r] = None]
          /\ unseen' = IF r \in Changed THEN unseen \cup {r} ELSE unseen
      BY <3>1 DEF RemoveConfig
    <3> HIDE DEF r
    <3>3. watch'[p] = (IF p = r THEN None ELSE watch[p]) /\ base'[p] = (IF p = r THEN "closed" ELSE base[p])
      BY <1>t, <3>2, SMTT(30)
    <3>4. Known(p) => Known(p)'
      BY <2>1, <3>1, <3>2, <3>3, SMTT(30) DEF Known, Changed, Noticed
    <3> QED
      BY <1>i, <1>t, <2>1, <3>3, <3>4 DEF WatchOK, ChangeOK, None
  <2>4. CASE exec.q.type \notin {"check", "reload"}
    <3>1. PICK S \in Bases(exec.q) : Open(S)
      BY <1>13, <2>4 DEF Execute
    <3>2. UNCHANGED <<events, unseen>>
      BY <1>13, <2>4, SMTT(30) DEF Execute
    <3> DEFINE new == {r \in S : base[r] = "closed"}
    <3>3. /\ base' = [r \in Prefixes |-> IF r \in new THEN "open" ELSE base[r]]
          /\ watch' = [r \in Prefixes |-> IF r \in new THEN file[r] ELSE watch[r]]
      BY <3>1 DEF Open
    <3>4. p \in new => base[p] = "closed"
      OBVIOUS
    <3> HIDE DEF new
    <3>5. /\ base'[p] = (IF p \in new THEN "open" ELSE base[p])
          /\ watch'[p] = (IF p \in new THEN file[p] ELSE watch[p])
      BY <3>3, SMTT(30)
    <3>6. Known(p) => Known(p)'
      BY <1>i, <2>1, <3>2, <3>4, <3>5 DEF Known, Changed, Noticed, WatchOK
    <3> QED
      BY <1>i, <1>t, <2>1, <3>4, <3>5, <3>6 DEF WatchOK, ChangeOK
  <2> QED
    BY <2>2, <2>3, <2>4
<1>14. CASE PostResponse
  <2>1. /\ exec.pc = "run" /\ UNCHANGED <<file, configs, ready, watch, base, unseen>>
        /\ events' = events \/ events' = Append(events, exec.q)
    BY <1>14 DEF PostResponse, szbase
  <2>2. \A i \in DOMAIN events : i \in DOMAIN events' /\ events'[i] = events[i]
    <3>1. CASE events' = Append(events, exec.q)
      <4>1. /\ DOMAIN events = 1 .. Len(events) /\ Len(events) \in Nat /\ DOMAIN events' = 1 .. (Len(events) + 1)
            /\ \A i \in 1 .. Len(events) : events'[i] = events[i]
        BY <1>0, <1>t, <3>1 DEF ExecType
      <4> QED
        BY <4>1
    <3> QED
      BY <2>1, <3>1
  <2>3. Known(p) => Known(p)'
    BY <2>1, <2>2 DEF Known, Changed, Noticed
  <2> QED
    BY <1>f, <2>1, <2>3
<1> QED
  BY <1>1, <1>2, <1>3, <1>5, <1>6, <1>7, <1>9, <1>10, <1>11, <1>12, <1>13, <1>14
     DEF Next, UserStep, HandleEvent, ExecutorStep

=============================================================================
