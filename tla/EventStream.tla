----------------------------- MODULE EventStream -----------------------------
(***************************************************************************)
(* Live workflow events of a request (realtime/service.py,                 *)
(* workflow_event_stream): a connection replays what the client missed,    *)
(* then polls the timeline once a second.  The client is a browser tab      *)
(* that shows one request at a time; a message makes it load the timeline  *)
(* of its request again (frontend: SseProvider.tsx, useRequestSse.ts).     *)
(***************************************************************************)
EXTENDS EventSource, Naturals, FiniteSets

CONSTANTS Clients,
          Requests,
          Visible,        \* the event numbers each client may see
          MaxEvents,      \* bound on the timeline of a request
          MaxConnections, \* MAX_SSE_CONNECTIONS
          MaxReplay,      \* MAX_REPLAY_EVENTS
          BatchSize       \* SSE_BATCH_SIZE

ASSUME VisibleAssumption == Visible \in [Clients -> SUBSET Nat]
ASSUME LimitAssumption == {MaxConnections, MaxReplay, BatchSize} \subseteq Nat \ {0}
ASSUME BoundAssumption == IsFiniteSet(Clients) /\ MaxEvents \in Nat /\ "none" \notin Requests

VARIABLES timeline,  \* the number of committed events of each request
          stream,    \* the server's generator for each client
          source,    \* the client's EventSource
          page,      \* what the client's application has taken in
          active     \* _active_connection_count

vars == <<timeline, stream, source, page, active>>

\* A source without an id starts from the first event.
NoId == 0

-----------------------------------------------------------------------------
Closed == [pc |-> "closed", cursor |-> 0, todo |-> {}]
Open(c) == stream[c] # Closed

\* The events of a request after a number, oldest first.
After(c, r, n) == {e \in Visible[c] : n < e /\ e <= timeline[r]}
Bug_FilterLast(c, r, n, limit) ==
  {e \in 1..timeline[r] : n < e /\ e <= n + limit} \cap Visible[c]
Bug_NewestFirst(c, r, n, limit) ==
  {e \in After(c, r, n) : Cardinality({f \in After(c, r, n) : f > e}) < limit}
Fetch(c, r, n, limit) ==
  {e \in After(c, r, n) : Cardinality({f \in After(c, r, n) : f < e}) < limit}

Oldest(S) == CHOOSE e \in S : \A f \in S : e <= f

-----------------------------------------------------------------------------
(* The server.                                                             *)

\* Some handler's transaction appends to a timeline.
AppendEvent(r) ==
  /\ timeline[r] < MaxEvents
  /\ timeline' = [timeline EXCEPT ![r] = @ + 1]
  /\ UNCHANGED <<stream, source, page, active>>

HasRoom == active < MaxConnections

\* A stream over the limit ends at once, with an error event that no blank
\* line follows: nothing changes.
Connect(c) ==
  /\ ~Open(c)
  /\ page[c].request # "none"
  /\ HasRoom
  /\ active' = active + 1
  /\ stream' = [stream EXCEPT ![c] =
                  [pc |-> IF source[c].lastId = NoId THEN "poll" ELSE "replay",
                   cursor |-> source[c].lastId, todo |-> {}]]
  /\ UNCHANGED <<timeline, source, page>>

\* What is replayed does not move the cursor.
Replay(c) ==
  /\ stream[c].pc = "replay"
  /\ stream' = [stream EXCEPT ![c].pc = "replaying",
                              ![c].todo = Fetch(c, page[c].request, stream[c].cursor, MaxReplay)]
  /\ UNCHANGED <<timeline, source, page, active>>

Poll(c) ==
  /\ \/ stream[c].pc = "poll"
     \/ stream[c].pc = "replaying" /\ stream[c].todo = {}
  /\ stream' = [stream EXCEPT ![c].pc = "sending",
                              ![c].todo = Fetch(c, page[c].request, stream[c].cursor, BatchSize)]
  /\ UNCHANGED <<timeline, source, page, active>>

Send(c) ==
  LET s == stream[c]
      e == Oldest(s.todo)
  IN /\ s.todo # {}
     /\ stream' = [stream EXCEPT ![c] = [s EXCEPT !.todo = @ \ {e},
                                          !.cursor = IF s.pc = "sending" THEN e ELSE @]]
     /\ source' = [source EXCEPT ![c] = Receive(@, e)]
     /\ UNCHANGED <<timeline, page, active>>

\* The generator sleeps until its next poll.
Sleep(c) ==
  /\ stream[c].pc = "sending" /\ stream[c].todo = {}
  /\ stream' = [stream EXCEPT ![c].pc = "poll"]
  /\ UNCHANGED <<timeline, source, page, active>>

\* Before that, when it is due, it sends a heartbeat, which ends the block.
Heartbeat(c) ==
  LET news == Read(source[c], page[c].seen)
  IN /\ stream[c].pc = "sending" /\ stream[c].todo = {}
     /\ stream' = [stream EXCEPT ![c].pc = "poll"]
     /\ source' = [source EXCEPT ![c] = EndBlock(@)]
     /\ page' = [page EXCEPT ![c].seen = @ \cup news,
                             ![c].sent = @ \cup InBlock(source[c]),
                             ![c].shown[page[c].request] =
                                IF news = {} THEN @ ELSE After(c, page[c].request, 0)]
     /\ UNCHANGED <<timeline, active>>

Bug_Leak(n) == n
Released(n) == IF n = 0 THEN 0 ELSE n - 1

\* The client goes away, the connection breaks, or a poll fails.
Disconnect(c) ==
  /\ Open(c)
  /\ stream' = [stream EXCEPT ![c] = Closed]
  /\ source' = [source EXCEPT ![c] = Cut(@)]
  /\ active' = Released(active)
  /\ UNCHANGED <<timeline, page>>

\* The process restarts.
Restart ==
  /\ \E c \in Clients : Open(c)
  /\ stream' = [c \in Clients |-> Closed]
  /\ source' = [c \in Clients |-> Cut(source[c])]
  /\ active' = 0
  /\ UNCHANGED <<timeline, page>>

-----------------------------------------------------------------------------
(* The client.                                                             *)

\* The tab shows a request on a new source: from the cache while that is
\* fresh, or from the persisted timeline.
Visit(c, r) ==
  /\ ~Open(c)
  /\ \E loaded \in {page[c].shown[r], After(c, r, 0)} :
       page' = [page EXCEPT ![c].request = r, ![c].sent = {}, ![c].shown[r] = loaded]
  /\ source' = [source EXCEPT ![c] = NewSource(NoId)]
  /\ UNCHANGED <<timeline, stream, active>>

\* A reload of the tab forgets everything else.
Reload(c) ==
  LET r == page[c].request
  IN /\ ~Open(c)
     /\ r # "none"
     /\ page' = [page EXCEPT ![c] =
                   [request |-> r, seen |-> {}, sent |-> {},
                    shown |-> [q \in Requests |-> IF q = r THEN After(c, r, 0) ELSE {}]]]
     /\ source' = [source EXCEPT ![c] = NewSource(NoId)]
     /\ UNCHANGED <<timeline, stream, active>>

-----------------------------------------------------------------------------
Init ==
  /\ timeline = [r \in Requests |-> 0]
  /\ stream = [c \in Clients |-> Closed]
  /\ source = [c \in Clients |-> NewSource(NoId)]
  /\ page = [c \in Clients |-> [request |-> "none", seen |-> {}, sent |-> {},
                                shown |-> [r \in Requests |-> {}]]]
  /\ active = 0

Serve(c) == Replay(c) \/ Poll(c) \/ Send(c) \/ Sleep(c) \/ Heartbeat(c)

Next ==
  \/ \E r \in Requests : AppendEvent(r) \/ \E c \in Clients : Visit(c, r)
  \/ \E c \in Clients : Reload(c) \/ Connect(c) \/ Serve(c) \/ Disconnect(c)
  \/ Restart

Spec == Init /\ [][Next]_vars

\* A generator goes on while its connection is open, and its clock reaches the
\* next heartbeat; clients and connections owe nothing.
LiveSpec == Spec /\ \A c \in Clients : WF_vars(Serve(c)) /\ SF_vars(Heartbeat(c))

-----------------------------------------------------------------------------
(* Properties.                                                             *)

Numbers == 1..MaxEvents
TypeOK ==
  /\ timeline \in [Requests -> 0..MaxEvents]
  /\ stream \in [Clients -> [pc : {"closed", "replay", "replaying", "poll", "sending"},
                             cursor : 0..MaxEvents, todo : SUBSET Numbers]]
  /\ source \in [Clients -> [lastId : 0..MaxEvents, block : Seq(Numbers)]]
  /\ page \in [Clients -> [request : Requests \cup {"none"}, seen : SUBSET Numbers,
                           sent : SUBSET Numbers, shown : [Requests -> SUBSET Numbers]]]
  /\ active \in 0..MaxConnections

\* The connection count is the number of open streams, whatever ends them, so
\* the limit neither leaks away nor is passed.
ConnectionsCounted == active = Cardinality({c \in Clients : Open(c)})

\* Of the places for streams none is lost and none is given twice, and everything
\* the stream, the browser and the page keep has its type.
PlacesCounted == TypeOK /\ ConnectionsCounted

\* A source resumes from no later than the first visible event it has not been
\* sent: reconnects, the limit of the replay and the batches skip nothing.
NothingSkipped ==
  \A c \in Clients : \A e \in Visible[c] :
    0 < e /\ e <= source[c].lastId => e \in page[c].sent

\* An event that is committed while a client is connected is sent to it, unless
\* the connection ends.
EventsArrive ==
  \A c \in Clients, r \in Requests, e \in Numbers :
    Open(c) /\ page[c].request = r /\ e \in Visible[c] /\ e <= timeline[r]
      ~> ~Open(c) \/ e \in page[c].sent

\* What a source is past, its page shows.
PageKeepsUp ==
  \A c \in Clients : page[c].request # "none" =>
    \A e \in Visible[c] : 0 < e /\ e <= source[c].lastId => e \in page[c].shown[page[c].request]

\* A message is skipped as already seen only if the page shows its event.
OnlyDuplicatesSkipped ==
  [][\A c \in Clients :
       Len(source[c].block) = 1 /\ source[c].lastId # source'[c].lastId
         => InBlock(source[c]) \subseteq page'[c].shown[page[c].request]]_vars

\* A stream that resumes after an event sends what follows it once.
ResumesOnce ==
  \A c \in Clients, i, j \in 1..MaxEvents :
    i < j /\ j <= Len(source[c].block) => source[c].block[i] # source[c].block[j]
=============================================================================
