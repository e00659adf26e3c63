----------------------------- MODULE IksRemotes -----------------------------
(***************************************************************************)
(* The lists of locations of a chain of iks servers.  Server h keeps a     *)
(* connection to server h - 1 (RemotesUpdater), asks for its list once it  *)
(* is connected, is told of every location added or removed afterwards     *)
(* (WelcomeProt), forgets all of them when the connection is lost and      *)
(* connects again after a while.                                           *)
(*                                                                         *)
(* A line is written by async_write(), one call per line whether or not    *)
(* the previous one has been written: boost writes a line in pieces, and   *)
(* the pieces of two lines may alternate.                                  *)
(***************************************************************************)
EXTENDS Integers, Sequences, FiniteSets

CONSTANTS
  Hops,        \* servers in the chain, besides the first
  Tags,        \* locations of the first server
  MaxPieces,   \* pieces a list is written in
  MaxChanges,  \* bound on changes of the first list
  MaxBreaks    \* bound on broken connections and failed attempts

ASSUME IksAssumption == Hops \in Nat \ {0} /\ MaxPieces \in Nat \ {0} /\ IsFiniteSet(Tags)

VARIABLES
  locs,     \* locs[h]: locations_generator of server h, of those of server 0
  conn,     \* conn[h]: the connection of h to h - 1, on the side of h
  session,  \* session[h]: server h - 1 has the session of h
  asked,    \* asked[h]: list_remotes has been "sent", or "answered"
  out,      \* out[h]: lines server h - 1 is writing to h
  wire,     \* wire[h]: lines written, and not yet read by h
  cut,      \* history: pieces of lines have alternated on this connection
  changes, breaks

vars == <<locs, conn, session, asked, out, wire, cut, changes, breaks>>

Links == 1 .. Hops

Init ==
  /\ locs \in [0 .. Hops -> SUBSET Tags] /\ \A h \in Links : locs[h] = {}
  /\ conn = [h \in Links |-> "connecting"] /\ session = [h \in Links |-> FALSE]
  /\ asked = [h \in Links |-> "no"]
  /\ out = [h \in Links |-> <<>>] /\ wire = [h \in Links |-> <<>>]
  /\ cut = [h \in Links |-> FALSE]
  /\ changes = 0 /\ breaks = 0

(***************************************************************************)
(* Writing and reading lines.                                              *)
(***************************************************************************)

Line(msg, pieces) == [msg |-> msg, left |-> pieces, begun |-> FALSE, whole |-> TRUE]

\* do_write_line for every line of lines, to the client of server n, if any.
Written(n, lines) ==
  IF n < Hops /\ session[n + 1] THEN [out EXCEPT ![n + 1] = @ \o lines] ELSE out

\* The lines a sequence of changes of the list of a server causes there.
Told(kind, tags) ==
  {lines \in [1 .. Cardinality(tags) -> {Line([kind |-> kind, tag |-> t], 1) : t \in tags}] :
     \A t \in tags : \E i \in DOMAIN lines : lines[i].msg.tag = t}

\* One piece of a line is written: of a line already begun, or of the next
\* one.  Its line is whole if no other has been begun.
WritePiece(h) ==
  \E i \in DOMAIN out[h] :
    LET line == out[h][i]
        alone == \A j \in DOMAIN out[h] : j # i => ~out[h][j].begun
        others == [j \in DOMAIN out[h] |->
                     IF alone \/ ~(out[h][j].begun \/ j = i) THEN out[h][j]
                     ELSE [out[h][j] EXCEPT !.whole = FALSE]]
    IN  /\ line.begun \/ \A j \in 1 .. i - 1 : out[h][j].begun
        /\ IF line.left > 1
           THEN /\ out' = [out EXCEPT ![h] = [others EXCEPT ![i].left = @ - 1, ![i].begun = TRUE]]
                /\ UNCHANGED wire
           ELSE /\ out' = [out EXCEPT ![h] = SubSeq(others, 1, i - 1)
                                             \o SubSeq(others, i + 1, Len(others))]
                /\ wire' = [wire EXCEPT ![h] = Append(@, [msg |-> line.msg, whole |-> others[i].whole])]
        /\ cut' = [cut EXCEPT ![h] = @ \/ ~alone]
        /\ UNCHANGED <<locs, conn, session, asked, changes, breaks>>

(***************************************************************************)
(* The server.                                                             *)
(***************************************************************************)

\* Mutant: the client is told of what was added only.
ChangeTellsAdded(t) ==
  /\ changes < MaxChanges /\ changes' = changes + 1
  /\ \E there \in BOOLEAN :
       /\ there <=> t \notin locs[0]
       /\ locs' = [locs EXCEPT ![0] = IF there THEN @ \cup {t} ELSE @ \ {t}]
       /\ out' = IF there THEN Written(0, <<Line([kind |-> "remote_added", tag |-> t], 1)>>) ELSE out
  /\ UNCHANGED <<conn, session, asked, wire, cut, breaks>>

\* A location of the first server is registered or removed, and the client
\* is told.
Change(t) ==
  /\ changes < MaxChanges /\ changes' = changes + 1
  /\ \E there \in BOOLEAN :
       /\ there <=> t \notin locs[0]
       /\ locs' = [locs EXCEPT ![0] = IF there THEN @ \cup {t} ELSE @ \ {t}]
       /\ out' = Written(0, <<Line([kind |-> IF there THEN "remote_added" ELSE "remote_removed",
                                    tag |-> t], 1)>>)
  /\ UNCHANGED <<conn, session, asked, wire, cut, breaks>>

\* CmdListRemotesRcv: the list as it is now.
Answer(h) ==
  /\ session[h] /\ asked[h] = "sent"
  /\ asked' = [asked EXCEPT ![h] = "answered"]
  /\ \E n \in 1 .. MaxPieces :
       out' = Written(h - 1, <<Line([kind |-> "list", tags |-> locs[h - 1]], n)>>)
  /\ UNCHANGED <<locs, conn, session, wire, cut, changes, breaks>>

\* The server finds the connection broken, and drops the session.
SessionLost(h) ==
  /\ session[h] /\ breaks < MaxBreaks /\ breaks' = breaks + 1
  /\ session' = [session EXCEPT ![h] = FALSE]
  /\ out' = [out EXCEPT ![h] = <<>>]
  /\ UNCHANGED <<locs, conn, asked, wire, cut, changes>>

(***************************************************************************)
(* RemotesUpdater                                                          *)
(***************************************************************************)

\* get_remotes, once connected.
Connected(h) ==
  /\ conn[h] = "connecting"
  /\ conn' = [conn EXCEPT ![h] = "up"] /\ session' = [session EXCEPT ![h] = TRUE]
  /\ asked' = [asked EXCEPT ![h] = "sent"]
  /\ UNCHANGED <<locs, out, wire, cut, changes, breaks>>

\* The locations of a list, or the one that was added, are registered: the
\* client is told of each, also of one that was there.
Register(h, tags) ==
  /\ locs' = [locs EXCEPT ![h] = @ \cup tags]
  /\ \E lines \in Told("remote_added", tags) : out' = Written(h, lines)

\* A location is removed, and the client told, if it was there.
Remove(h, tags) ==
  /\ locs' = [locs EXCEPT ![h] = @ \ tags]
  /\ \E lines \in Told("remote_removed", tags \cap locs[h]) : out' = Written(h, lines)

\* A line is read.  One that is not whole is not understood.
Receive(h) ==
  /\ conn[h] = "up" /\ wire[h] # <<>>
  /\ wire' = [wire EXCEPT ![h] = Tail(@)]
  /\ LET msg == Head(wire[h]).msg
     IN  IF ~Head(wire[h]).whole THEN UNCHANGED <<locs, out>>
         ELSE IF msg.kind = "remote_removed" THEN Remove(h, {msg.tag})
         ELSE Register(h, IF msg.kind = "list" THEN msg.tags ELSE {msg.tag})
  /\ UNCHANGED <<conn, session, asked, cut, changes, breaks>>

\* Mutant: the clients further down are not told.
rm_remotesQuietly(h) ==
  /\ conn' = [conn EXCEPT ![h] = "waiting"] /\ session' = [session EXCEPT ![h] = FALSE]
  /\ asked' = [asked EXCEPT ![h] = "no"]
  /\ locs' = [locs EXCEPT ![h] = {}]
  /\ out' = [out EXCEPT ![h] = <<>>]
  /\ wire' = [wire EXCEPT ![h] = <<>>] /\ cut' = [cut EXCEPT ![h] = FALSE]
  /\ UNCHANGED changes

\* rm_remotes, when the connection is lost or could not be made.
rm_remotes(h) ==
  /\ conn' = [conn EXCEPT ![h] = "waiting"] /\ session' = [session EXCEPT ![h] = FALSE]
  /\ asked' = [asked EXCEPT ![h] = "no"]
  /\ locs' = [locs EXCEPT ![h] = {}]
  /\ \E lines \in Told("remote_removed", locs[h]) :
       out' = [Written(h, lines) EXCEPT ![h] = <<>>]
  /\ wire' = [wire EXCEPT ![h] = <<>>] /\ cut' = [cut EXCEPT ![h] = FALSE]
  /\ UNCHANGED changes

\* The server has closed, and everything it sent has been read.
EndOfFile(h) ==
  /\ conn[h] = "up" /\ ~session[h] /\ wire[h] = <<>>
  /\ rm_remotes(h) /\ UNCHANGED breaks

ConnectionLost(h) ==
  /\ conn[h] \in {"connecting", "up"}
  /\ breaks < MaxBreaks /\ breaks' = breaks + 1
  /\ rm_remotes(h)

\* reconnect, when the timer has expired.
Reconnect(h) ==
  /\ conn[h] = "waiting"
  /\ conn' = [conn EXCEPT ![h] = "connecting"]
  /\ UNCHANGED <<locs, session, asked, out, wire, cut, changes, breaks>>

Step(h) ==
  \/ WritePiece(h) \/ Answer(h) \/ Connected(h) \/ Receive(h) \/ Reconnect(h)
  \/ EndOfFile(h)

Next ==
  \/ \E t \in Tags : Change(t)
  \/ \E h \in Links : Step(h) \/ SessionLost(h) \/ ConnectionLost(h)

Spec == Init /\ [][Next]_vars

\* Both servers keep running.
FairSpec == Spec /\ \A h \in Links : WF_vars(Step(h))

(***************************************************************************)
(* Properties                                                              *)
(***************************************************************************)

\* What becomes of a list when the lines are read one after the other.
After(list, lines) ==
  LET after[i \in 0 .. Len(lines)] ==
        IF i = 0 THEN list
        ELSE LET msg == lines[i].msg
             IN  CASE msg.kind = "list" -> after[i-1] \cup msg.tags
                   [] msg.kind = "remote_added" -> after[i-1] \cup {msg.tag}
                   [] msg.kind = "remote_removed" -> after[i-1] \ {msg.tag}
  IN  after[Len(lines)]

\* Once the list has been asked for and answered, nothing is missing: what a
\* server knows and the lines on their way to it make up the list of the
\* other server, however the answer, changes before and after it and losses
\* further up the chain follow each other.  (As long as no two lines have
\* been mixed up.)
InSync ==
  \A h \in Links :
    conn[h] = "up" /\ session[h] /\ asked[h] = "answered" /\ ~cut[h]
      => After(After(locs[h], wire[h]), out[h]) = locs[h - 1]

\* Every server ends up with the list of the first, whatever connections are
\* lost on the way, if the list stays as it is and no two lines have been
\* mixed up on the last connections: RemotesUpdater asks once per connection
\* and does not notice a line it could not read.
Converges ==
  \A tags \in SUBSET Tags :
    <>[](locs[0] = tags /\ \A h \in Links : ~cut[h]) => <>[](\A h \in Links : locs[h] = tags)

=============================================================================
