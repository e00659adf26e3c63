------------------------------- MODULE Draw3 -------------------------------
(***************************************************************************)
(* How draw3 asks for data while configurations change.  The GUI thread    *)
(* puts queries in a queue ordered by ranking (DatabaseQueryQueue), the    *)
(* executor thread takes them out, works with szbase and posts answers,    *)
(* and a watcher thread looks for new versions of params.xml.  A new       *)
(* configuration replaces the old one, which is deleted with all its       *)
(* parameters: a query of type STARTING_CONFIG_RELOAD, ranked behind every *)
(* query for data, tells the GUI when nobody needs the old one any more.   *)
(***************************************************************************)
EXTENDS Integers, Sequences, FiniteSets

CONSTANTS
  Prefixes,    \* configurations
  Defined,     \* parameters the user defined
  Home,        \* Home[d]: the configuration defined parameter d belongs to
  Reads,       \* Reads[p]: bases that formulas of configuration p may read
  Sent,        \* types of queries the user interface sends
  Rankings,    \* rankings of queries for data: current panel, draw and date
  Configuration, \* the owner of a parameter that is not a defined one
  MaxPending,  \* bound on queries and events that are on their way
  MaxVersion   \* bound on the versions of a params.xml

None == 0
NaN == 1000    \* not a ranking: ADD_PARAM and REMOVE_PARAM stay where they are

DataTypes == {"get", "search", "reset", "clear"}   \* with a parameter
OtherTypes == {"compile", "check", "prober", "extract"}

\* Mutant: the reload is served before the queries that need the old one.
RankingReloadFirst ==
  [clear |-> 150, prober |-> 150, reset |-> 100, compile |-> 100,
   stop |-> 100, reload |-> 100, check |-> -200, extract |-> -200,
   add |-> NaN, remove |-> NaN]

\* FindQueryRanking: types with a ranking of their own.
Ranking == [clear |-> 150, prober |-> 150, reset |-> 100, compile |-> 100,
            stop |-> 100, reload |-> -100, check |-> -200, extract |-> -200,
            add |-> NaN, remove |-> NaN]

ASSUME Draw3Assumption ==
  /\ IsFiniteSet(Prefixes) /\ Prefixes # {}
  /\ Sent \subseteq DataTypes \cup OtherTypes
  /\ Rankings \subseteq 1 .. 4 /\ Rankings # {}
  /\ Home \in [Defined -> Prefixes]
  /\ Reads \in [Prefixes -> SUBSET Prefixes]
  /\ Configuration \notin Defined
  /\ MaxPending \in Nat /\ MaxVersion \in Nat

VARIABLES
  queue,      \* DatabaseQueryQueue::queue
  semaphore,  \* the number of queries nobody has waited for yet
  cant,       \* cant_prioritise_entries
  gui,        \* the GUI thread: running, or waiting for the executor to end
  exec,       \* the executor: where it is, and its query
  events,     \* events posted to DatabaseManager
  reloading,  \* DatabaseManager::reloadingDatabases
  params,     \* params[d]: the user interface's view of a defined parameter
  extra,      \* Szbase::m_extra_params
  file,       \* file[p]: version (modification time) of params.xml
  configs,    \* configs[p]: version of the configuration that is loaded
  ready,      \* ready[p]: version in IPKContainer::configs_ready_for_load
  base,       \* base[p]: szbase's buffer, and whether its configuration lives
  watch,      \* watch[p]: last_mod_date of SzbFileWatcher's entry
  disorder,   \* history: a reload was put in a queue that was not in order
  reopened,   \* history: a base was opened between RemoveConfig and LoadConfig
  unseen      \* history: a version of params.xml went unnoticed

qvars == <<queue, semaphore, cant>>
szbase == <<extra, base, watch>>
vars == <<qvars, gui, exec, events, reloading, params, szbase, file, configs,
          ready, disorder, reopened, unseen>>

\* A query about a parameter of prefix; live while the parameter and its draw
\* exist.
Query(t, p, owner, r) ==
  [type |-> t, prefix |-> p, owner |-> owner, live |-> TRUE, ranking |-> r]

SomePrefix == CHOOSE p \in Prefixes : TRUE

\* A query that refers to no configuration.
Plain(t) == Query(t, SomePrefix, Configuration, Ranking[t])

NoQuery == Plain("stop")

Init ==
  /\ queue = <<>> /\ semaphore = 0 /\ cant = 0 /\ gui = "run"
  /\ exec = [pc |-> "wait", q |-> NoQuery] /\ events = <<>>
  /\ reloading = {} /\ params = [d \in Defined |-> "absent"] /\ extra = {}
  /\ file = [p \in Prefixes |-> 1] /\ configs = [p \in Prefixes |-> 1]
  /\ ready = [p \in Prefixes |-> None]
  /\ base = [p \in Prefixes |-> "closed"] /\ watch = [p \in Prefixes |-> None]
  /\ disorder = {} /\ reopened = {} /\ unseen = {}

(***************************************************************************)
(* DatabaseQueryQueue                                                      *)
(***************************************************************************)

QueryCmp(q1, q2) == q1.ranking # NaN /\ q2.ranking # NaN /\ q1.ranking > q2.ranking

InOrder(s) == \A i, j \in DOMAIN s : i < j => ~QueryCmp(s[j], s[i])

\* Where std::upper_bound can end: whatever the order of the list, the entry
\* in front of the place was found not to be behind q, the next one was.
UpperBounds(q) ==
  {n \in 0 .. Len(queue) :
     /\ n > 0 => ~QueryCmp(q, queue[n])
     /\ n < Len(queue) => QueryCmp(q, queue[n + 1])}

Inserted(q, n) ==
  [i \in 1 .. Len(queue) + 1 |->
     IF i <= n THEN queue[i] ELSE IF i = n + 1 THEN q ELSE queue[i - 1]]

\* Add
Add(q) ==
  /\ cant' = cant + (IF q.ranking = NaN THEN 1 ELSE 0)
  /\ \E n \in (IF cant' > 0 THEN {Len(queue)} ELSE UpperBounds(q)) :
        queue' = Inserted(q, n)
  /\ semaphore' = semaphore + 1

\* ShufflePriorities: queries for data are ranked anew and the list is sorted
\* (std::list::sort is stable).
Shuffle ==
  \E r \in [DOMAIN queue -> Rankings],
     pi \in {f \in [DOMAIN queue -> DOMAIN queue] :
               \A i, j \in DOMAIN queue : f[i] = f[j] => i = j} :
    LET ranked == [i \in DOMAIN queue |->
          IF queue[i].type \in {"get", "search"}
          THEN [queue[i] EXCEPT !.ranking = r[i]] ELSE queue[i]]
        sorted == [i \in DOMAIN queue |-> ranked[pi[i]]]
    IN  /\ InOrder(sorted)
        /\ \A i, j \in DOMAIN queue :
             i < j /\ sorted[i].ranking = sorted[j].ranking => pi[i] < pi[j]
        /\ queue' = sorted

\* Mutant: also while there are queries that must stay where they are.
ShufflePrioritiesAlways ==
  /\ gui = "run" /\ Shuffle
  /\ UNCHANGED <<semaphore, cant, gui, exec, events, reloading, params, szbase,
                 file, configs, ready, disorder, reopened, unseen>>

\* The user goes to another panel, draw or date: SetCurrentInquirer,
\* InquirerStateChanged.
ShufflePriorities ==
  /\ gui = "run" /\ cant = 0 /\ Shuffle
  /\ UNCHANGED <<semaphore, cant, gui, exec, events, reloading, params, szbase,
                 file, configs, ready, disorder, reopened, unseen>>

(***************************************************************************)
(* The GUI thread                                                          *)
(***************************************************************************)

Busy == exec.pc \in {"begin", "run"}

Room == Len(queue) + Len(events) + (IF Busy THEN 1 ELSE 0) < MaxPending

\* QueryDatabase, for a draw: dropped while its configuration is reloaded.
QueryDraw(t, p, owner) ==
  /\ gui = "run" /\ Room /\ p \notin reloading
  /\ owner \in Defined => Home[owner] = p /\ params[owner] = "defined"
  /\ \E r \in (IF t \in {"get", "search"} THEN Rankings ELSE {Ranking[t]}) :
        Add(Query(t, p, owner, r))
  /\ UNCHANGED <<gui, exec, events, reloading, params, szbase, file, configs,
                 ready, disorder, reopened, unseen>>

\* QueryDatabase, without a draw; SetProbersAddresses
QueryPlain(t) ==
  /\ gui = "run" /\ Room
  /\ Add(Plain(t))
  /\ UNCHANGED <<gui, exec, events, reloading, params, szbase, file, configs,
                 ready, disorder, reopened, unseen>>

AddParams(d) ==
  /\ gui = "run" /\ Room /\ params[d] = "absent"
  /\ params' = [params EXCEPT ![d] = "defined"]
  /\ Add(Query("add", Home[d], d, NaN))
  /\ UNCHANGED <<gui, exec, events, reloading, szbase, file, configs,
                 ready, disorder, reopened, unseen>>

\* RemoveParams; no draw asks for the parameter any more.
RemoveParams(d) ==
  /\ gui = "run" /\ Room /\ params[d] = "defined"
  /\ params' = [params EXCEPT ![d] = "leaving"]
  /\ Add(Query("remove", Home[d], d, NaN))
  /\ UNCHANGED <<gui, exec, events, reloading, szbase, file, configs,
                 ready, disorder, reopened, unseen>>

\* InitiateConfigurationReload
InitiateConfigurationReload(p) ==
  IF p \in reloading THEN UNCHANGED <<qvars, reloading, disorder>>
  ELSE /\ reloading' = reloading \cup {p}
       /\ Add(Query("reload", p, Configuration, Ranking.reload))
       /\ disorder' = IF cant = 0 /\ ~InOrder(queue) THEN disorder \cup {p} ELSE disorder

\* IPKContainer: the new version is read, unless one is ready already.
ReadyConfigurationForLoad(p) ==
  /\ ready' = [ready EXCEPT ![p] = IF @ = None THEN file[p] ELSE @]
  /\ unseen' = IF ready'[p] = file[p] THEN unseen \ {p} ELSE unseen \cup {p}

\* ... or loadXML fails.
ReadyFails(p) ==
  /\ ready[p] = None /\ UNCHANGED ready
  /\ unseen' = IF configs[p] # file[p] THEN unseen \cup {p} ELSE unseen

\* ReloadConfiguration: the new version is read at once and takes effect when
\* the executor has come to the reload.
ReloadConfiguration(p) ==
  \/ ReadyFails(p) /\ UNCHANGED <<qvars, reloading, disorder>>
  \/ ReadyConfigurationForLoad(p) /\ InitiateConfigurationReload(p)

\* DrawFrame::OnReloadConfig.  (The stamp of the synchronisation is watched
\* beside params.xml: its change has the same effect.)
OnReloadConfig(p) ==
  /\ gui = "run" /\ Room
  /\ ReloadConfiguration(p)
  /\ UNCHANGED <<gui, exec, events, params, szbase, file, configs, reopened>>

OnConfigurationChange ==
  /\ gui = "run" /\ events # <<>> /\ Head(events).type = "changed"
  /\ events' = Tail(events)
  /\ ReloadConfiguration(Head(events).prefix)
  /\ UNCHANGED <<gui, exec, params, szbase, file, configs, reopened>>

\* IPKContainer: the version that is ready takes the place of the old one,
\* which is deleted.
LoadConfig(p) ==
  /\ configs' = [configs EXCEPT ![p] = IF ready[p] # None THEN ready[p] ELSE file[p]]
  /\ ready' = [ready EXCEPT ![p] = None]
  /\ base' = [base EXCEPT ![p] = IF @ = "open" THEN "freed" ELSE @]

\* What a query refers to when configuration p is deleted.
Orphan(p, q) ==
  IF q.type \in DataTypes /\ q.prefix = p /\ q.owner = Configuration
  THEN [q EXCEPT !.live = FALSE] ELSE q

\* Mutant: the configuration stays among those that are being reloaded.
ConfigurationReadyForLoadUnfinished(p) ==
  /\ LoadConfig(p)
  /\ queue' = [i \in DOMAIN queue |-> Orphan(p, queue[i])]
  /\ exec' = [exec EXCEPT !.q = Orphan(p, exec.q)]
  /\ events' = [i \in 1 .. Len(events) - 1 |-> Orphan(p, events[i + 1])]
  /\ UNCHANGED <<params, reloading>>

\* ConfigurationReadyForLoad: LoadConfig deletes the old configuration,
\* AddConfig its draws, and queries are accepted again.
ConfigurationReadyForLoad(p) ==
  /\ LoadConfig(p)
  /\ reloading' = reloading \ {p}
  /\ queue' = [i \in DOMAIN queue |-> Orphan(p, queue[i])]
  /\ exec' = [exec EXCEPT !.q = Orphan(p, exec.q)]
  /\ events' = [i \in 1 .. Len(events) - 1 |-> Orphan(p, events[i + 1])]
  /\ UNCHANGED params

\* OnDatabaseResponse; an inquirer that is gone gets no answer.
OnDatabaseResponse ==
  /\ gui = "run" /\ events # <<>> /\ Head(events).type # "changed"
  /\ LET q == Head(events)
     IN  IF q.type = "reload" THEN ConfigurationReadyForLoad(q.prefix)
         ELSE /\ params' = IF q.type = "remove"
                           THEN [params EXCEPT ![q.owner] = "absent"] ELSE params
              /\ events' = Tail(events)
              /\ UNCHANGED <<configs, ready, base, reloading, queue, exec>>
  /\ UNCHANGED <<semaphore, cant, gui, extra, watch, file, disorder, reopened, unseen>>

\* DrawApp::StopThreads: the empty query, then the GUI thread waits.
StopThreads ==
  /\ gui = "run"
  /\ gui' = "stop"
  /\ Add(Plain("stop"))
  /\ UNCHANGED <<exec, events, reloading, params, szbase, file, configs,
                 ready, disorder, reopened, unseen>>

(***************************************************************************)
(* The watcher                                                             *)
(***************************************************************************)

Changed == {p \in Prefixes : watch[p] # None /\ watch[p] < file[p]}

Notice(p) == Query("changed", p, Configuration, 0)

\* CheckModifications, by the watcher or by a query of type
\* CHECK_CONFIGURATIONS_CHANGE: an event for every file that has changed.
CheckModifications ==
  /\ watch' = [p \in Prefixes |-> IF p \in Changed THEN file[p] ELSE watch[p]]
  /\ \E order \in [1 .. Cardinality(Changed) -> Changed] :
       /\ Changed = {order[i] : i \in DOMAIN order}
       /\ events' = events \o [i \in DOMAIN order |-> Notice(order[i])]

Watcher ==
  /\ Changed # {}
  /\ CheckModifications
  /\ UNCHANGED <<qvars, gui, exec, reloading, params, extra, base, file, configs,
                 ready, disorder, reopened, unseen>>

\* Someone writes a new params.xml.
FileChange(p) ==
  /\ file[p] < MaxVersion
  /\ file' = [file EXCEPT ![p] = @ + 1]
  /\ unseen' = IF watch[p] = None THEN unseen \cup {p} ELSE unseen
  /\ UNCHANGED <<qvars, gui, exec, events, reloading, params, szbase, configs,
                 ready, disorder, reopened>>

(***************************************************************************)
(* The executor                                                            *)
(***************************************************************************)

\* Mutant: the executor does not wait.
WaitQueryNever ==
  /\ exec.pc = "wait"
  /\ semaphore' = semaphore - 1
  /\ exec' = [exec EXCEPT !.pc = "lock"]
  /\ UNCHANGED <<queue, cant, gui, events, reloading, params, szbase, file, configs,
                 ready, disorder, reopened, unseen>>

\* GetQuery waits for the semaphore ...
WaitQuery ==
  /\ exec.pc = "wait" /\ semaphore > 0
  /\ semaphore' = semaphore - 1
  /\ exec' = [exec EXCEPT !.pc = "lock"]
  /\ UNCHANGED <<queue, cant, gui, events, reloading, params, szbase, file, configs,
                 ready, disorder, reopened, unseen>>

\* Mutant: the queries that must stay where they are are not counted down.
TakeQueryUncounted ==
  /\ exec.pc = "lock"
  /\ LET q == Head(queue)
     IN  /\ exec' = [pc |-> IF q.type = "stop" THEN "done" ELSE "begin", q |-> q]
         /\ IF q.type = "stop"
            THEN base' = [p \in Prefixes |-> "closed"] /\ watch' = [p \in Prefixes |-> None]
            ELSE UNCHANGED <<base, watch>>
  /\ queue' = Tail(queue)
  /\ UNCHANGED <<semaphore, cant, gui, events, reloading, params, extra, file, configs,
                 ready, disorder, reopened, unseen>>

\* ... and takes the first query inside the mutex.  The empty one ends the
\* thread, and with it szbase and the watcher.
TakeQuery ==
  /\ exec.pc = "lock"
  /\ LET q == Head(queue)
     IN  /\ cant' = cant - (IF q.ranking = NaN THEN 1 ELSE 0)
         /\ exec' = [pc |-> IF q.type = "stop" THEN "done" ELSE "begin", q |-> q]
         /\ IF q.type = "stop"
            THEN base' = [p \in Prefixes |-> "closed"] /\ watch' = [p \in Prefixes |-> None]
            ELSE UNCHANGED <<base, watch>>
  /\ queue' = Tail(queue)
  /\ UNCHANGED <<semaphore, gui, events, reloading, params, extra, file, configs,
                 ready, disorder, reopened, unseen>>

\* A configuration was removed from szbase and is about to be deleted.
Removed(p) ==
  \/ exec.pc = "run" /\ exec.q.type = "reload" /\ exec.q.prefix = p
  \/ \E i \in DOMAIN events : events[i].type = "reload" /\ events[i].prefix = p

\* Mutant: a base that is used is watched from now on.
OpenRestamps(S) ==
  LET new == {p \in S : base[p] = "closed"}
  IN  /\ base' = [p \in Prefixes |-> IF p \in new THEN "open" ELSE base[p]]
      /\ watch' = [p \in Prefixes |-> IF p \in S THEN file[p] ELSE watch[p]]
      /\ reopened' = reopened \cup {p \in new : Removed(p)}

\* GetBuffer, FindParam: bases of S that are not open are opened (AddBase),
\* with the configuration that is loaded, and their files are watched.
Open(S) ==
  LET new == {p \in S : base[p] = "closed"}
  IN  /\ base' = [p \in Prefixes |-> IF p \in new THEN "open" ELSE base[p]]
      /\ watch' = [p \in Prefixes |-> IF p \in new THEN file[p] ELSE watch[p]]
      /\ reopened' = reopened \cup {p \in new : Removed(p)}

\* Mutant: the buffer stays open.
RemoveConfigKeepsBase(p) ==
  /\ watch' = [watch EXCEPT ![p] = None]
  /\ reopened' = reopened \ {p}
  /\ unseen' = IF p \in Changed THEN unseen \cup {p} ELSE unseen
  /\ UNCHANGED base

\* RemoveConfig: the buffer is freed and the file no longer watched, even if
\* a change has not been noticed yet.
RemoveConfig(p) ==
  /\ base' = [base EXCEPT ![p] = "closed"]
  /\ watch' = [watch EXCEPT ![p] = None]
  /\ reopened' = reopened \ {p}
  /\ unseen' = IF p \in Changed THEN unseen \cup {p} ELSE unseen

\* AddExtraParam, RemoveExtraParam
ExtraParams(q) ==
  IF q.type = "add" THEN extra \cup {q.owner}
  ELSE IF q.type = "remove" THEN extra \ {q.owner} ELSE extra

\* The sets of bases the execution of q may open.
Bases(q) ==
  IF q.type \in {"get", "search"} THEN {S \cup {q.prefix} : S \in SUBSET Reads[q.prefix]}
  ELSE IF q.type \in {"reset", "clear"} THEN {{q.prefix}}
  ELSE IF q.type = "extract" THEN SUBSET Prefixes ELSE {{}}

\* Entry: the query is executed.
Execute ==
  /\ exec.pc = "begin" /\ exec' = [exec EXCEPT !.pc = "run"]
  /\ LET q == exec.q
     IN  \/ /\ q.type \notin {"check", "reload"}
            /\ \E S \in Bases(q) : Open(S)
            /\ extra' = ExtraParams(q)
            /\ UNCHANGED <<events, unseen>>
         \/ /\ q.type = "check"
            /\ CheckModifications /\ UNCHANGED <<extra, base, reopened, unseen>>
         \/ /\ q.type = "reload"
            /\ RemoveConfig(q.prefix) /\ UNCHANGED <<extra, events>>
  /\ UNCHANGED <<qvars, gui, reloading, params, file, configs, ready, disorder>>

\* Entry: the answer is posted, if there is one.  (A query for data of several
\* months has an answer for each; they follow one another.)
PostResponse ==
  /\ exec.pc = "run" /\ exec' = [pc |-> "wait", q |-> NoQuery]
  /\ events' = IF exec.q.type \in {"get", "search", "compile", "remove", "reload"}
               THEN Append(events, exec.q) ELSE events
  /\ UNCHANGED <<qvars, gui, reloading, params, szbase, file, configs, ready,
                 disorder, reopened, unseen>>

\* draw3 has ended.
Ended == exec.pc = "done" /\ UNCHANGED vars

UserStep ==
  \/ ShufflePriorities \/ StopThreads
  \/ \E t \in Sent \cap DataTypes, p \in Prefixes, o \in Defined \cup {Configuration} :
        QueryDraw(t, p, o)
  \/ \E t \in Sent \cap OtherTypes : QueryPlain(t)
  \/ \E d \in Defined : AddParams(d) \/ RemoveParams(d)
  \/ \E p \in Prefixes : OnReloadConfig(p)

HandleEvent == OnConfigurationChange \/ OnDatabaseResponse

ExecutorStep == WaitQuery \/ TakeQuery \/ Execute \/ PostResponse

Next ==
  \/ UserStep \/ HandleEvent \/ ExecutorStep \/ Watcher \/ Ended
  \/ \E p \in Prefixes : FileChange(p)

Spec == Init /\ [][Next]_vars

\* The event loop and the two threads go on.
FairSpec == Spec /\ WF_vars(HandleEvent) /\ WF_vars(ExecutorStep) /\ WF_vars(Watcher)

(***************************************************************************)
(* Properties                                                              *)
(***************************************************************************)

Types == DataTypes \cup OtherTypes \cup {"add", "remove", "reload", "stop"}

Queries ==
  [type : Types \cup {"changed"}, prefix : Prefixes, owner : Defined \cup {Configuration},
   live : BOOLEAN, ranking : Int]

\* Types; the executor never waits for less than nothing.
TypeOK ==
  /\ queue \in Seq(Queries) /\ events \in Seq(Queries)
  /\ semaphore \in Nat /\ cant \in Int /\ gui \in {"run", "stop"}
  /\ exec \in [pc : {"wait", "lock", "begin", "run", "done"}, q : Queries]
  /\ reloading \subseteq Prefixes /\ extra \subseteq Defined
  /\ params \in [Defined -> {"absent", "defined", "leaving"}]
  /\ file \in [Prefixes -> Nat \ {0}] /\ configs \in [Prefixes -> Nat \ {0}]
  /\ ready \in [Prefixes -> Nat] /\ watch \in [Prefixes -> Nat]
  /\ base \in [Prefixes -> {"closed", "open", "freed"}]
  /\ disorder \subseteq Prefixes /\ reopened \subseteq Prefixes /\ unseen \subseteq Prefixes

\* The semaphore counts the queries the executor has not waited for: GetQuery
\* never takes from an empty list.  cant_prioritise_entries counts the
\* queries that must stay where they are: the order is never changed under
\* them, nor left as it is for ever when they are gone.
QueueCounts ==
  /\ semaphore + (IF exec.pc = "lock" THEN 1 ELSE 0) = Len(queue)
  /\ cant = Cardinality({i \in DOMAIN queue : queue[i].ranking = NaN})

Alive(q) == q.type \in DataTypes => q.live \/ q.prefix \in disorder

\* A configuration is not deleted while a query about one of its parameters
\* is executed, or an answer is on its way: STARTING_CONFIG_RELOAD comes
\* behind all of them.  Not so if it was put in a list that was not in order
\* (disorder), as it is when queries were appended behind an ADD_PARAM.
ParamsAlive ==
  /\ Busy => Alive(exec.q)
  /\ \A i \in DOMAIN events : Alive(events[i])

\* A query about a defined parameter is executed when szbase knows the
\* parameter and before the parameter is deleted: queries do not overtake
\* ADD_PARAM, REMOVE_PARAM does not overtake queries.
DefinedAlive ==
  exec.pc = "run" /\ exec.q.type \in DataTypes /\ exec.q.owner \in Defined
    => exec.q.owner \in extra /\ params[exec.q.owner] # "absent"

\* szbase does not work with a configuration that was deleted, unless another
\* query opened the base between RemoveConfig and LoadConfig.
BaseAlive == \A p \in Prefixes : base[p] = "freed" => p \in reopened

Noticed(p) == \E i \in DOMAIN events : events[i].type = "changed" /\ events[i].prefix = p

\* A new params.xml is loaded or its loading is under way, except for the
\* ways of losing one that unseen stands for: it was written while the file
\* was not watched (before the base is opened, or between RemoveConfig and
\* the next query), it could not be read, the watch was removed before it was
\* noticed, or an older version was waiting to be loaded.
NoChangeLost ==
  exec.pc # "done" =>
    \A p \in Prefixes :
      configs[p] # file[p] => \/ p \in Changed \/ Noticed(p)
                              \/ ready[p] = file[p] \/ p \in unseen

\* When the user leaves draw3 alone and the files stay as they are, every
\* reload comes to its end and every configuration is that of its file, unless
\* the change was lost in one of the ways above.
Settles ==
  <>[][~UserStep /\ file' = file]_vars =>
    \A p \in Prefixes :
      <>[](\/ gui = "stop"
           \/ p \notin reloading /\ (configs[p] = file[p] \/ p \in unseen))

=============================================================================
