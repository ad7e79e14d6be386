---------------------------- MODULE Realtime_proofs ----------------------------
(***************************************************************************)
(* Proofs about the streams of the browser: EventStream, what a request's  *)
(* page is sent of its timeline, and Notices, what a user is sent of the   *)
(* notifications that transactions write, with the capability gaps those   *)
(* transactions count.                                                     *)
(***************************************************************************)
EXTENDS EventStream, Notices, FiniteSetTheorems, SequenceTheorems, WellFoundedInduction, TLAPS

\* What a client was sent, the unfinished block of its source included.
Given(c) == page[c].sent \cup InBlock(source[c])

\* Every visible event up to n was sent to client c.
Reached(c, n) == \A e \in Visible[c] : 0 < e /\ e <= n => e \in Given(c)

\* A stream that is open shows a request, and what it has fetched and not yet sent
\* is only while it replays or sends.
StreamOk(c) ==
  /\ stream[c].pc = "closed" => stream[c] = Closed
  /\ Open(c) => page[c].request # "none"
  /\ stream[c].pc \in {"closed", "replay", "poll"} => stream[c].todo = {}

\* Nothing is left out before the id a source resumes from, before the cursor of its
\* stream, before any event of the unfinished block, and before an event that is
\* about to be sent.
NothingLeftOut(c) ==
  /\ \A e \in Visible[c] : 0 < e /\ e <= source[c].lastId => e \in page[c].sent
  /\ Reached(c, stream[c].cursor)
  /\ \A i \in DOMAIN source[c].block : Reached(c, source[c].block[i])
  /\ \A t \in stream[c].todo : \A e \in Visible[c] :
       0 < e /\ e < t => e \in Given(c) \cup stream[c].todo

IInv ==
  /\ TypeOK
  /\ ConnectionsCounted
  /\ \A c \in Clients : StreamOk(c) /\ NothingLeftOut(c)

-----------------------------------------------------------------------------
Streams == [pc : {"closed", "replay", "replaying", "poll", "sending"},
            cursor : 0..MaxEvents, todo : SUBSET Numbers]
Sources == [lastId : 0..MaxEvents, block : Seq(Numbers)]
Pages == [request : Requests \cup {"none"}, seen : SUBSET Numbers,
          sent : SUBSET Numbers, shown : [Requests -> SUBSET Numbers]]

LEMMA TypeParts ==
  TypeOK <=> /\ timeline \in [Requests -> 0..MaxEvents]
             /\ stream \in [Clients -> Streams]
             /\ source \in [Clients -> Sources]
             /\ page \in [Clients -> Pages]
             /\ active \in 0..MaxConnections
BY DEF TypeOK, Streams, Sources, Pages

\* The visible events of a request are numbers of its timeline.
LEMMA AfterType ==
  ASSUME TypeOK, NEW c \in Clients, NEW r \in Requests, NEW n \in Nat
  PROVE  After(c, r, n) \subseteq 1..timeline[r] /\ timeline[r] \in 0..MaxEvents
BY VisibleAssumption, BoundAssumption DEF TypeOK, After

\* A batch leaves out nothing that comes before one of its events.
LEMMA FetchIsPrefix ==
  ASSUME TypeOK, NEW c \in Clients, NEW r \in Requests, NEW n \in Nat, NEW limit \in Nat,
         NEW e \in Fetch(c, r, n, limit), NEW f \in After(c, r, n), f < e
  PROVE  f \in Fetch(c, r, n, limit)
<1> DEFINE below(x) == {g \in After(c, r, n) : g < x}
<1>1. IsFiniteSet(After(c, r, n))
  <2>1. IsFiniteSet(1..timeline[r])
    BY AfterType, FS_Interval
  <2> QED
    BY <2>1, AfterType, FS_Subset
<1>2. IsFiniteSet(below(e)) /\ IsFiniteSet(below(f))
  BY <1>1, FS_Subset
<1>3. below(f) \subseteq below(e)
  BY AfterType, BoundAssumption DEF Fetch
<1>4. Cardinality(below(f)) <= Cardinality(below(e))
  BY <1>2, <1>3, FS_Subset
<1>5. Cardinality(below(e)) < limit
  BY DEF Fetch
<1>6. Cardinality(below(f)) \in Nat /\ Cardinality(below(e)) \in Nat
  BY <1>2, FS_CardinalityType
<1> QED
  BY <1>4, <1>5, <1>6 DEF Fetch

Below(S, x) == {y \in S : y < x}

\* The numbers of a set below another one of its numbers are finitely many, and fewer
\* than those below that.
LEMMA BelowIsSmaller ==
  ASSUME NEW S, S \subseteq Nat, NEW x \in S
  PROVE  /\ Below(S, x) \in FiniteSubsetsOf(Nat)
         /\ \A y \in S : y < x => <<Below(S, y), Below(S, x)>> \in StrictSubsetOrdering(Nat)
<1>0. \A y \in S : y \in Nat
  OBVIOUS
<1>1. Below(S, x) \subseteq 0..x /\ Below(S, x) \subseteq Nat
  <2> SUFFICES ASSUME NEW y \in S, y < x
               PROVE  y \in 0..x /\ y \in Nat
    BY Zenon DEF Below
  <2> QED
    BY <1>0
<1>2. IsFiniteSet(0..x)
  BY FS_Interval
<1>3. IsFiniteSet(Below(S, x))
  BY <1>1, <1>2, FS_Subset
<1>4. ASSUME NEW y \in S, y < x
      PROVE  /\ Below(S, y) \subseteq Below(S, x) /\ Below(S, y) \subseteq Nat
             /\ y \in Below(S, x) /\ y \notin Below(S, y)
  <2> y \in Nat /\ x \in Nat /\ ~(y < y)
    BY <1>0
  <2>1. \A z \in S : z < y => z < x /\ z \in Nat
    BY <1>0, <1>4
  <2> QED
    BY <1>4, <2>1, Zenon DEF Below
<1>5. ASSUME NEW y \in S, y < x
      PROVE  <<Below(S, y), Below(S, x)>> \in StrictSubsetOrdering(Nat)
  BY <1>1, <1>4, <1>5 DEF StrictSubsetOrdering
<1> QED
  BY <1>1, <1>3, <1>5 DEF FiniteSubsetsOf

\* The first of a set of events comes before the others.
LEMMA OldestIsFirst ==
  ASSUME NEW S, S \subseteq Nat, S # {}
  PROVE  Oldest(S) \in S /\ \A f \in S : Oldest(S) <= f
<1> DEFINE T == {Below(S, x) : x \in S}
<1>1. T \subseteq FiniteSubsetsOf(Nat) /\ T # {}
  BY BelowIsSmaller
<1>2. \E U \in T : \A V \in T : <<V, U>> \notin StrictSubsetOrdering(Nat)
  <2> HIDE DEF T
  <2> QED
    BY <1>1, FS_StrictSubsetOrderingWellFounded, WFMin
<1>3. PICK e \in S : \A f \in S : <<Below(S, f), Below(S, e)>> \notin StrictSubsetOrdering(Nat)
  BY <1>2
<1>4. \A f \in S : ~(f < e)
  BY <1>3, BelowIsSmaller
<1>5. \A f \in S : e <= f
  BY <1>4
<1> QED
  BY <1>5 DEF Oldest

\* What a query returns is of the timeline, after the cursor.
LEMMA FetchType ==
  ASSUME TypeOK, NEW c \in Clients, NEW r \in Requests, NEW n \in Nat, NEW limit
  PROVE  Fetch(c, r, n, limit) \subseteq Numbers
BY AfterType, BoundAssumption DEF Fetch, Numbers

-----------------------------------------------------------------------------
(* What one client's step leaves alone.                                    *)

\* A step of client c keeps the invariant of every other client.
LEMMA OtherClients ==
  ASSUME IInv, NEW c \in Clients, TypeOK', ConnectionsCounted', StreamOk(c)', NothingLeftOut(c)',
         \A d \in Clients \ {c} : /\ stream'[d] = stream[d]
                                  /\ source'[d] = source[d]
                                  /\ page'[d] = page[d]
  PROVE  IInv'
<1> SUFFICES ASSUME NEW d \in Clients, d # c
             PROVE  StreamOk(d)' /\ NothingLeftOut(d)'
  BY DEF IInv
<1>1. StreamOk(d) /\ NothingLeftOut(d)
  BY DEF IInv
<1>2. stream'[d] = stream[d] /\ source'[d] = source[d] /\ page'[d] = page[d]
  OBVIOUS
<1>3. StreamOk(d)'
  BY <1>1, <1>2 DEF StreamOk, Open, Closed
<1>4. NothingLeftOut(d)'
  BY <1>1, <1>2 DEF NothingLeftOut, Reached, Given, InBlock
<1> QED
  BY <1>3, <1>4

\* As long as a stream stays open, or closed, the count of connections stands.
LEMMA SameConnections ==
  ASSUME ConnectionsCounted, active' = active, \A d \in Clients : Open(d)' <=> Open(d)
  PROVE  ConnectionsCounted'
<1>1. {d \in Clients : Open(d)'} = {d \in Clients : Open(d)}
  OBVIOUS
<1> QED
  BY <1>1 DEF ConnectionsCounted

\* The open streams are finitely many.
LEMMA OpenIsFinite ==
  IsFiniteSet({d \in Clients : Open(d)})
BY BoundAssumption, FS_Subset

\* What the invariant says of one client.
LEMMA OfClient ==
  ASSUME IInv, NEW c \in Clients
  PROVE  /\ stream[c] \in Streams /\ source[c] \in Sources /\ page[c] \in Pages
         /\ StreamOk(c) /\ NothingLeftOut(c)
         /\ Open(c) => page[c].request \in Requests
         /\ InBlock(source[c]) \subseteq Numbers
BY TypeParts DEF IInv, StreamOk, InBlock, Sources, Pages

\* What a step that changes only the stream of a client has to keep of it.
LEMMA StreamStep ==
  ASSUME IInv, NEW c \in Clients, UNCHANGED <<timeline, source, page, active>>,
         NEW s \in Streams, stream' = [stream EXCEPT ![c] = s],
         Open(c), s.pc # "closed", s.pc \in {"replay", "poll"} => s.todo = {},
         s.cursor = stream[c].cursor,
         \A t \in s.todo : \A e \in Visible[c] : 0 < e /\ e < t => e \in Given(c) \cup s.todo
  PROVE  IInv'
<1>1. TypeOK'
  BY TypeParts DEF IInv, TypeOK, Streams
<1>2. stream'[c] = s /\ \A d \in Clients \ {c} : stream'[d] = stream[d]
  BY TypeParts DEF IInv
<1>3. \A d \in Clients : Open(d)' <=> Open(d)
  BY <1>2 DEF Open, Closed
<1>4. ConnectionsCounted'
  BY <1>3, SameConnections DEF IInv
<1>5. StreamOk(c)'
  BY <1>2, OfClient DEF StreamOk, Open
<1>6. NothingLeftOut(c)'
  BY <1>2, OfClient DEF NothingLeftOut, Reached, Given
<1> QED
  BY <1>1, <1>2, <1>4, <1>5, <1>6, OtherClients

\* What a query for a stream returns leaves out nothing that was not sent.
LEMMA QueryLeavesOutNothing ==
  ASSUME IInv, NEW c \in Clients, Open(c), NEW limit \in Nat,
         NEW t \in Fetch(c, page[c].request, stream[c].cursor, limit),
         NEW e \in Visible[c], 0 < e, e < t
  PROVE  e \in Given(c) \cup Fetch(c, page[c].request, stream[c].cursor, limit)
<1> DEFINE r == page[c].request
           n == stream[c].cursor
<1>0. TypeOK /\ r \in Requests /\ n \in Nat /\ e \in Nat
  BY OfClient, VisibleAssumption, BoundAssumption DEF IInv, Streams
<1>1. CASE e <= n
  BY <1>1, OfClient DEF NothingLeftOut, Reached
<1>2. CASE n < e
  <2>1. t \in After(c, r, n)
    BY DEF Fetch
  <2>2. e \in After(c, r, n)
    BY <1>0, <1>2, <2>1, AfterType, BoundAssumption DEF After
  <2> QED
    BY <1>0, <2>2, FetchIsPrefix
<1> QED
  BY <1>0, <1>1, <1>2, BoundAssumption

LEMMA ReplayStep ==
  ASSUME IInv, NEW c \in Clients, Replay(c)
  PROVE  IInv'
<1> DEFINE new == Fetch(c, page[c].request, stream[c].cursor, MaxReplay)
           s == [stream[c] EXCEPT !.pc = "replaying", !.todo = new]
<1>1. Open(c) /\ stream[c] \in Streams /\ page[c].request \in Requests
  BY OfClient DEF Replay, Open, Closed
<1>2. new \subseteq Numbers
  BY <1>1, FetchType, BoundAssumption DEF IInv, Streams
<1>3. s \in Streams /\ s.pc = "replaying" /\ s.cursor = stream[c].cursor /\ s.todo = new
  BY <1>1, <1>2 DEF Streams
<1>4. stream' = [stream EXCEPT ![c] = s]
  BY TypeParts DEF Replay, IInv
<1>5. \A t \in new : \A e \in Visible[c] : 0 < e /\ e < t => e \in Given(c) \cup new
  BY <1>1, QueryLeavesOutNothing, LimitAssumption
<1> HIDE DEF new, s
<1> QED
  BY <1>1, <1>3, <1>4, <1>5, StreamStep DEF Replay

LEMMA PollStep ==
  ASSUME IInv, NEW c \in Clients, Poll(c)
  PROVE  IInv'
<1> DEFINE new == Fetch(c, page[c].request, stream[c].cursor, BatchSize)
           s == [stream[c] EXCEPT !.pc = "sending", !.todo = new]
<1>1. Open(c) /\ stream[c] \in Streams /\ page[c].request \in Requests
  BY OfClient DEF Poll, Open, Closed
<1>2. new \subseteq Numbers
  BY <1>1, FetchType, BoundAssumption DEF IInv, Streams
<1>3. s \in Streams /\ s.pc = "sending" /\ s.cursor = stream[c].cursor /\ s.todo = new
  BY <1>1, <1>2 DEF Streams
<1>4. stream' = [stream EXCEPT ![c] = s]
  BY TypeParts DEF Poll, IInv
<1>5. \A t \in new : \A e \in Visible[c] : 0 < e /\ e < t => e \in Given(c) \cup new
  BY <1>1, QueryLeavesOutNothing, LimitAssumption
<1> HIDE DEF new, s
<1> QED
  BY <1>1, <1>3, <1>4, <1>5, StreamStep DEF Poll

LEMMA SleepStep ==
  ASSUME IInv, NEW c \in Clients, Sleep(c)
  PROVE  IInv'
<1> DEFINE s == [stream[c] EXCEPT !.pc = "poll"]
<1>1. Open(c) /\ stream[c] \in Streams
  BY OfClient DEF Sleep, Open, Closed
<1>2. s \in Streams /\ s.pc = "poll" /\ s.cursor = stream[c].cursor /\ s.todo = {}
  BY <1>1 DEF Sleep, Streams
<1>3. stream' = [stream EXCEPT ![c] = s]
  BY TypeParts DEF Sleep, IInv
<1> HIDE DEF s
<1> QED
  BY <1>1, <1>2, <1>3, StreamStep DEF Sleep

\* An event that is received is in the unfinished block, after the ones before it.
LEMMA Received ==
  ASSUME NEW src \in Sources, NEW e \in Numbers
  PROVE  /\ Receive(src, e) \in Sources
         /\ Receive(src, e).lastId = src.lastId
         /\ Receive(src, e).block = Append(src.block, e)
         /\ InBlock(Receive(src, e)) = InBlock(src) \cup {e}
<1>1. src.block \in Seq(Numbers)
  BY DEF Sources
<1>2. /\ Receive(src, e) \in Sources
      /\ Receive(src, e).lastId = src.lastId
      /\ Receive(src, e).block = Append(src.block, e)
  BY <1>1 DEF Receive, Sources
<1>3. /\ DOMAIN src.block = 1..Len(src.block) /\ Len(src.block) \in Nat
      /\ DOMAIN Append(src.block, e) = 1..(Len(src.block) + 1)
      /\ Append(src.block, e)[Len(src.block) + 1] = e
      /\ \A i \in DOMAIN src.block : Append(src.block, e)[i] = src.block[i]
  BY <1>1
<1>4. InBlock(Receive(src, e)) = InBlock(src) \cup {e}
  <2>1. DOMAIN Append(src.block, e) = DOMAIN src.block \cup {Len(src.block) + 1}
    BY <1>3
  <2>2. InBlock(src) \cup {e} \subseteq InBlock(Receive(src, e))
    BY <1>2, <1>3, <2>1 DEF InBlock
  <2>3. InBlock(Receive(src, e)) \subseteq InBlock(src) \cup {e}
    BY <1>2, <1>3, <2>1 DEF InBlock
  <2> QED
    BY <2>2, <2>3
<1> QED
  BY <1>2, <1>4

LEMMA SendStep ==
  ASSUME IInv, NEW c \in Clients, Send(c)
  PROVE  IInv'
<1> DEFINE old == stream[c]
<1>1. /\ Open(c) /\ old \in Streams /\ source[c] \in Sources /\ page[c] \in Pages
      /\ old.todo # {} /\ old.pc \notin {"closed", "replay", "poll"}
      /\ StreamOk(c) /\ NothingLeftOut(c)
  BY OfClient DEF Send, StreamOk, Open, Closed
<1>2. old.todo \subseteq Numbers /\ old.todo \subseteq Nat
  BY <1>1 DEF Streams, Numbers
<1>3. PICK e \in old.todo :
         /\ e = Oldest(old.todo)
         /\ \A f \in old.todo : e <= f
  BY <1>1, <1>2, OldestIsFirst
<1>4. e \in Numbers /\ e \in 0..MaxEvents
  BY <1>2, <1>3, BoundAssumption DEF Numbers
<1>5. PICK s \in Streams :
         /\ stream' = [stream EXCEPT ![c] = s]
         /\ s.pc = old.pc /\ s.todo = old.todo \ {e}
         /\ s.cursor = IF old.pc = "sending" THEN e ELSE old.cursor
  <2> DEFINE new == [old EXCEPT !.todo = @ \ {e}, !.cursor = IF old.pc = "sending" THEN e ELSE @]
  <2>1. stream' = [stream EXCEPT ![c] = new]
    BY <1>3 DEF Send
  <2>2. /\ new \in Streams /\ new.pc = old.pc /\ new.todo = old.todo \ {e}
        /\ new.cursor = IF old.pc = "sending" THEN e ELSE old.cursor
    BY <1>1, <1>4 DEF Streams
  <2> QED
    BY <2>1, <2>2
<1>6. UNCHANGED <<timeline, page, active>>
  BY DEF Send
<1>8. /\ stream'[c] = s /\ source'[c] = Receive(source[c], e) /\ page'[c] = page[c]
      /\ \A d \in Clients \ {c} : stream'[d] = stream[d] /\ source'[d] = source[d]
      /\ source' = [source EXCEPT ![c] = source'[c]]
  BY <1>3, <1>5, <1>6, TypeParts DEF IInv, Send
<1>9. /\ source'[c] \in Sources
      /\ source'[c].lastId = source[c].lastId
      /\ source'[c].block = Append(source[c].block, e)
      /\ InBlock(source'[c]) = InBlock(source[c]) \cup {e}
  BY <1>1, <1>4, <1>8, Received
<1>10. TypeOK'
  <2>1. stream' \in [Clients -> Streams] /\ source' \in [Clients -> Sources]
    BY <1>5, <1>8, <1>9, TypeParts DEF IInv
  <2> QED
    BY <1>6, <2>1, TypeParts DEF IInv, TypeOK, Streams, Sources
<1>11. ConnectionsCounted'
  <2>1. \A d \in Clients : Open(d)' <=> Open(d)
    BY <1>1, <1>5, <1>8 DEF Open, Closed
  <2> QED
    BY <1>6, <2>1, SameConnections DEF IInv
<1>12. StreamOk(c)'
  BY <1>1, <1>5, <1>8 DEF StreamOk
<1>13. Given(c)' = Given(c) \cup {e}
  BY <1>8, <1>9 DEF Given
<1>14. Reached(c, e)'
  <2> SUFFICES ASSUME NEW f \in Visible[c], 0 < f, f <= e
               PROVE  f \in Given(c)'
    BY DEF Reached
  <2>1. f \in Nat /\ e \in Nat
    BY <1>4, VisibleAssumption DEF Numbers
  <2>2. CASE f < e
    <3>1. f \in Given(c) \cup old.todo
      BY <1>1, <1>3, <2>2 DEF NothingLeftOut
    <3>2. f \notin old.todo
      BY <1>2, <1>3, <2>1, <2>2
    <3> QED
      BY <1>13, <3>1, <3>2
  <2> QED
    BY <1>13, <2>1, <2>2
<1>15. \A n : Reached(c, n) => Reached(c, n)'
  BY <1>13 DEF Reached
<1>16. NothingLeftOut(c)'
  <2>1. \A f \in Visible[c] : 0 < f /\ f <= source'[c].lastId => f \in page'[c].sent
    BY <1>1, <1>8, <1>9 DEF NothingLeftOut
  <2>2. Reached(c, stream[c].cursor)'
    BY <1>1, <1>5, <1>8, <1>14, <1>15 DEF NothingLeftOut, Reached
  <2>3. ASSUME NEW i \in DOMAIN source'[c].block
        PROVE  Reached(c, source[c].block[i])'
    <3>1. source[c].block \in Seq(Numbers)
      BY <1>1 DEF Sources
    <3>2. \/ i \in DOMAIN source[c].block /\ source'[c].block[i] = source[c].block[i]
          \/ source'[c].block[i] = e
      BY <1>9, <2>3, <3>1
    <3> QED
      BY <1>1, <1>14, <1>15, <3>2 DEF NothingLeftOut
  <2>4. \A t \in stream'[c].todo : \A f \in Visible[c] :
           0 < f /\ f < t => f \in Given(c)' \cup stream'[c].todo
    BY <1>1, <1>5, <1>8, <1>13 DEF NothingLeftOut
  <2> QED
    BY <2>1, <2>2, <2>3, <2>4 DEF NothingLeftOut
<1> QED
  BY <1>6, <1>8, <1>10, <1>11, <1>12, <1>16, OtherClients

\* A blank line makes the id of the last event of the block the one to resume from.
LEMMA Ended ==
  ASSUME NEW src \in Sources
  PROVE  /\ EndBlock(src) \in Sources
         /\ EndBlock(src).block = <<>>
         /\ InBlock(EndBlock(src)) = {}
         /\ \/ EndBlock(src).lastId = src.lastId
            \/ \E i \in DOMAIN src.block : EndBlock(src).lastId = src.block[i]
<1>1. src.block \in Seq(Numbers) /\ src.lastId \in 0..MaxEvents
  BY DEF Sources
<1>2. CASE src.block = <<>>
  <2>1. EndBlock(src) = [src EXCEPT !.lastId = src.lastId, !.block = <<>>]
    BY <1>2 DEF EndBlock
  <2>2. EndBlock(src) = src
    BY <1>2, <2>1 DEF Sources
  <2> QED
    BY <1>2, <2>2 DEF InBlock
<1>3. CASE src.block # <<>>
  <2>1. EndBlock(src) = [src EXCEPT !.lastId = src.block[Len(src.block)], !.block = <<>>]
    BY <1>3 DEF EndBlock
  <2>2. Len(src.block) \in DOMAIN src.block
    BY <1>1, <1>3
  <2>3. src.block[Len(src.block)] \in 0..MaxEvents
    BY <1>1, <2>2, BoundAssumption DEF Numbers
  <2>4. EndBlock(src) = [lastId |-> src.block[Len(src.block)], block |-> <<>>]
    BY <2>1 DEF Sources
  <2> QED
    BY <2>2, <2>3, <2>4 DEF Sources, InBlock
<1> QED
  BY <1>2, <1>3

LEMMA HeartbeatStep ==
  ASSUME IInv, NEW c \in Clients, Heartbeat(c)
  PROVE  IInv'
<1>1. /\ Open(c) /\ stream[c] \in Streams /\ source[c] \in Sources /\ page[c] \in Pages
      /\ stream[c].pc = "sending" /\ stream[c].todo = {} /\ page[c].request \in Requests
      /\ StreamOk(c) /\ NothingLeftOut(c) /\ InBlock(source[c]) \subseteq Numbers
  BY OfClient DEF Heartbeat, Open, Closed
<1>2. PICK s \in Streams :
         /\ stream' = [stream EXCEPT ![c] = s]
         /\ s.pc = "poll" /\ s.todo = {} /\ s.cursor = stream[c].cursor
  <2>1. stream' = [stream EXCEPT ![c] = [stream[c] EXCEPT !.pc = "poll"]]
    BY DEF Heartbeat
  <2>2. /\ [stream[c] EXCEPT !.pc = "poll"] \in Streams
        /\ [stream[c] EXCEPT !.pc = "poll"].pc = "poll"
        /\ [stream[c] EXCEPT !.pc = "poll"].todo = {}
        /\ [stream[c] EXCEPT !.pc = "poll"].cursor = stream[c].cursor
    BY <1>1 DEF Streams
  <2> QED
    BY <2>1, <2>2
<1>3. PICK src \in Sources :
         /\ source' = [source EXCEPT ![c] = src]
         /\ src.block = <<>> /\ InBlock(src) = {}
         /\ \/ src.lastId = source[c].lastId
            \/ \E i \in DOMAIN source[c].block : src.lastId = source[c].block[i]
  BY <1>1, Ended DEF Heartbeat
<1>4. PICK p \in Pages :
         /\ page' = [page EXCEPT ![c] = p]
         /\ p.request = page[c].request
         /\ p.sent = page[c].sent \cup InBlock(source[c])
  <2> DEFINE news == Read(source[c], page[c].seen)
             shown == IF news = {} THEN page[c].shown[page[c].request]
                                   ELSE After(c, page[c].request, 0)
             new == [page[c] EXCEPT !.seen = @ \cup news, !.sent = @ \cup InBlock(source[c]),
                                    !.shown[page[c].request] = shown]
  <2>1. page' = [page EXCEPT ![c] = new]
    BY <1>1 DEF Heartbeat
  <2>2. news \subseteq Numbers
    BY <1>1 DEF Read
  <2>3. shown \subseteq Numbers
    <3>1. After(c, page[c].request, 0) \subseteq Numbers
      BY <1>1, AfterType, BoundAssumption DEF IInv, Numbers
    <3> QED
      BY <1>1, <3>1 DEF Pages
  <2> HIDE DEF news, shown
  <2>4. /\ new \in Pages /\ new.request = page[c].request
        /\ new.sent = page[c].sent \cup InBlock(source[c])
    BY <1>1, <2>2, <2>3 DEF Pages
  <2> QED
    BY <2>1, <2>4
<1>5. UNCHANGED <<timeline, active>>
  BY DEF Heartbeat
<1>6. /\ stream'[c] = s /\ source'[c] = src /\ page'[c] = p
      /\ \A d \in Clients \ {c} :
           stream'[d] = stream[d] /\ source'[d] = source[d] /\ page'[d] = page[d]
  BY <1>2, <1>3, <1>4, TypeParts DEF IInv
<1>7. TypeOK'
  <2>1. /\ stream' \in [Clients -> Streams] /\ source' \in [Clients -> Sources]
        /\ page' \in [Clients -> Pages]
    BY <1>2, <1>3, <1>4, TypeParts DEF IInv
  <2> QED
    BY <1>5, <2>1, TypeParts DEF IInv, TypeOK, Streams, Sources, Pages
<1>8. ConnectionsCounted'
  <2>1. \A d \in Clients : Open(d)' <=> Open(d)
    BY <1>1, <1>2, <1>6 DEF Open, Closed
  <2> QED
    BY <1>5, <2>1, SameConnections DEF IInv
<1>9. StreamOk(c)'
  BY <1>1, <1>2, <1>4, <1>6, BoundAssumption DEF StreamOk
<1>10. Given(c)' = Given(c)
  BY <1>3, <1>4, <1>6 DEF Given
<1>11. NothingLeftOut(c)'
  <2>1. ASSUME NEW e \in Visible[c], 0 < e, e <= src.lastId
        PROVE  e \in p.sent
    BY <1>1, <1>3, <1>4, <2>1 DEF NothingLeftOut, Reached, Given
  <2>2. Reached(c, stream[c].cursor)'
    BY <1>1, <1>2, <1>6, <1>10 DEF NothingLeftOut, Reached
  <2>3. DOMAIN source'[c].block = {}
    BY <1>3, <1>6
  <2> QED
    BY <1>2, <1>6, <2>1, <2>2, <2>3 DEF NothingLeftOut
<1> QED
  BY <1>6, <1>7, <1>8, <1>9, <1>11, OtherClients

LEMMA AppendStep ==
  ASSUME IInv, NEW r \in Requests, AppendEvent(r)
  PROVE  IInv'
<1>1. UNCHANGED <<stream, source, page, active>>
  BY DEF AppendEvent
<1>2. timeline' \in [Requests -> 0..MaxEvents]
  BY BoundAssumption DEF AppendEvent, IInv, TypeOK
<1>3. TypeOK'
  BY <1>1, <1>2 DEF IInv, TypeOK
<1>4. ConnectionsCounted'
  BY <1>1 DEF IInv, ConnectionsCounted, Open, Closed
<1>5. \A c \in Clients : StreamOk(c)' /\ NothingLeftOut(c)'
  BY <1>1 DEF IInv, StreamOk, Open, Closed, NothingLeftOut, Reached, Given, InBlock
<1> QED
  BY <1>3, <1>4, <1>5 DEF IInv

LEMMA ConnectStep ==
  ASSUME IInv, NEW c \in Clients, Connect(c)
  PROVE  IInv'
<1>1. /\ stream[c] \in Streams /\ source[c] \in Sources /\ page[c] \in Pages
      /\ ~Open(c) /\ page[c].request # "none"
      /\ StreamOk(c) /\ NothingLeftOut(c)
  BY OfClient DEF Connect
<1>2. PICK s \in Streams :
         /\ stream' = [stream EXCEPT ![c] = s]
         /\ s.pc \in {"poll", "replay"} /\ s.todo = {} /\ s.cursor = source[c].lastId
  <2> DEFINE new == [pc |-> IF source[c].lastId = NoId THEN "poll" ELSE "replay",
                     cursor |-> source[c].lastId, todo |-> {}]
  <2>1. stream' = [stream EXCEPT ![c] = new]
    BY DEF Connect
  <2>2. /\ new \in Streams /\ new.pc \in {"poll", "replay"} /\ new.todo = {}
        /\ new.cursor = source[c].lastId
    BY <1>1 DEF Streams, Sources
  <2> QED
    BY <2>1, <2>2
<1>3. UNCHANGED <<timeline, source, page>> /\ active' = active + 1
  BY DEF Connect
<1>4. stream'[c] = s /\ \A d \in Clients \ {c} : stream'[d] = stream[d]
  BY <1>2, TypeParts DEF IInv
<1>5. TypeOK'
  <2>1. stream' \in [Clients -> Streams] /\ active' \in 0..MaxConnections
    BY <1>2, <1>3, TypeParts, LimitAssumption DEF IInv, Connect, HasRoom
  <2> QED
    BY <1>3, <2>1, TypeParts DEF IInv, TypeOK, Streams
<1>6. ConnectionsCounted'
  <2> DEFINE old == {d \in Clients : Open(d)}
  <2>1. {d \in Clients : Open(d)'} = old \cup {c}
    BY <1>2, <1>4 DEF Open, Closed
  <2>2. c \notin old /\ IsFiniteSet(old)
    BY <1>1, OpenIsFinite
  <2>3. Cardinality(old \cup {c}) = Cardinality(old) + 1
    BY <2>2, FS_AddElement
  <2> QED
    BY <1>3, <2>1, <2>3 DEF IInv, ConnectionsCounted
<1>7. StreamOk(c)'
  BY <1>1, <1>2, <1>3, <1>4 DEF StreamOk
<1>8. NothingLeftOut(c)'
  BY <1>1, <1>2, <1>3, <1>4 DEF NothingLeftOut, Reached, Given
<1> QED
  BY <1>3, <1>4, <1>5, <1>6, <1>7, <1>8, OtherClients

\* A client whose stream has ended has nothing to keep but what it was sent.
LEMMA ClosedLeavesOutNothing ==
  ASSUME NEW c \in Clients, stream'[c] = Closed, source'[c].block = <<>>,
         \A e \in Visible[c] : 0 < e /\ e <= source'[c].lastId => e \in page'[c].sent
  PROVE  StreamOk(c)' /\ NothingLeftOut(c)'
<1>1. StreamOk(c)'
  BY DEF StreamOk, Open, Closed
<1>2. stream'[c].cursor = 0 /\ stream'[c].todo = {}
  BY DEF Closed
<1>3. \A e \in Visible[c] : ~(0 < e /\ e <= 0)
  BY VisibleAssumption
<1>4. Reached(c, stream[c].cursor)'
  BY <1>2, <1>3 DEF Reached
<1>5. DOMAIN source'[c].block = {}
  OBVIOUS
<1> QED
  BY <1>1, <1>2, <1>4, <1>5 DEF NothingLeftOut

\* A broken connection leaves the id to resume from.
LEMMA CutOff ==
  ASSUME NEW src \in Sources
  PROVE  Cut(src) \in Sources /\ Cut(src).lastId = src.lastId /\ Cut(src).block = <<>>
<1>1. src.lastId \in 0..MaxEvents /\ Cut(src) = [lastId |-> src.lastId, block |-> <<>>]
  BY DEF Cut, Sources
<1> QED
  BY <1>1 DEF Sources

\* A new source has nothing to resume from.
LEMMA SourceIsNew ==
  /\ NewSource(NoId) \in Sources /\ NewSource(NoId).lastId = 0
  /\ NewSource(NoId).block = <<>>
BY BoundAssumption DEF NewSource, NoId, Sources

LEMMA ClosedIsAStream == Closed \in Streams
BY BoundAssumption DEF Closed, Streams

LEMMA DisconnectStep ==
  ASSUME IInv, NEW c \in Clients, Disconnect(c)
  PROVE  IInv'
<1>1. /\ source[c] \in Sources /\ page[c] \in Pages /\ Open(c) /\ NothingLeftOut(c)
  BY OfClient DEF Disconnect
<1>2. /\ stream' = [stream EXCEPT ![c] = Closed]
      /\ source' = [source EXCEPT ![c] = Cut(source[c])]
      /\ active' = Released(active)
      /\ UNCHANGED <<timeline, page>>
  BY DEF Disconnect
<1>3. /\ stream'[c] = Closed /\ source'[c] = Cut(source[c])
      /\ \A d \in Clients \ {c} : stream'[d] = stream[d] /\ source'[d] = source[d]
  BY <1>2, TypeParts DEF IInv
<1>4. TypeOK'
  <2>1. stream' \in [Clients -> Streams]
    BY <1>2, TypeParts, ClosedIsAStream DEF IInv
  <2>2. source' \in [Clients -> Sources]
    BY <1>1, <1>2, TypeParts, CutOff DEF IInv
  <2>3. active' \in 0..MaxConnections
    BY <1>2, TypeParts, LimitAssumption DEF IInv, Released
  <2> QED
    BY <1>2, <2>1, <2>2, <2>3, TypeParts DEF IInv, TypeOK, Streams, Sources
<1>5. ConnectionsCounted'
  <2> DEFINE old == {d \in Clients : Open(d)}
  <2>1. {d \in Clients : Open(d)'} = old \ {c}
    BY <1>3 DEF Open, Closed
  <2>2. c \in old /\ IsFiniteSet(old) /\ Cardinality(old) \in Nat
    BY <1>1, OpenIsFinite, FS_CardinalityType
  <2>3. Cardinality(old \ {c}) = Cardinality(old) - 1 /\ Cardinality(old) # 0
    BY <2>2, FS_RemoveElement, FS_EmptySet
  <2> QED
    BY <1>2, <2>1, <2>2, <2>3 DEF IInv, ConnectionsCounted, Released
<1>6. StreamOk(c)' /\ NothingLeftOut(c)'
  <2>1. \A e \in Visible[c] : 0 < e /\ e <= source'[c].lastId => e \in page'[c].sent
    BY <1>1, <1>2, <1>3, CutOff DEF NothingLeftOut
  <2>2. source'[c].block = <<>>
    BY <1>1, <1>3, CutOff
  <2>3. stream'[c] = Closed
    BY <1>3
  <2> QED
    BY <2>1, <2>2, <2>3, ClosedLeavesOutNothing
<1> QED
  BY <1>2, <1>3, <1>4, <1>5, <1>6, OtherClients

LEMMA RestartStep ==
  ASSUME IInv, Restart
  PROVE  IInv'
<1>1. /\ stream' = [c \in Clients |-> Closed]
      /\ source' = [c \in Clients |-> Cut(source[c])]
      /\ active' = 0
      /\ UNCHANGED <<timeline, page>>
  BY DEF Restart
<1>2. TypeOK'
  <2>1. stream' \in [Clients -> Streams] /\ source' \in [Clients -> Sources]
    BY <1>1, OfClient, ClosedIsAStream, CutOff
  <2>2. active' \in 0..MaxConnections
    BY <1>1, LimitAssumption
  <2> QED
    BY <1>1, <2>1, <2>2, TypeParts DEF IInv, TypeOK, Streams, Sources
<1>3. ConnectionsCounted'
  <2>1. {c \in Clients : Open(c)'} = {}
    BY <1>1 DEF Open, Closed
  <2> QED
    BY <1>1, <2>1, FS_EmptySet DEF ConnectionsCounted
<1>4. ASSUME NEW c \in Clients
      PROVE  StreamOk(c)' /\ NothingLeftOut(c)'
  <2>1. source[c] \in Sources /\ NothingLeftOut(c)
    BY OfClient
  <2>2. \A e \in Visible[c] : 0 < e /\ e <= source'[c].lastId => e \in page'[c].sent
    BY <1>1, <2>1, CutOff DEF NothingLeftOut
  <2>3. source'[c].block = <<>> /\ stream'[c] = Closed
    BY <1>1, <2>1, CutOff
  <2> QED
    BY <2>2, <2>3, ClosedLeavesOutNothing
<1> QED
  BY <1>2, <1>3, <1>4 DEF IInv

\* A closed client that starts with a new source.
LEMMA StartsAgain ==
  ASSUME IInv, NEW c \in Clients, ~Open(c), NEW p \in Pages,
         page' = [page EXCEPT ![c] = p],
         source' = [source EXCEPT ![c] = NewSource(NoId)],
         UNCHANGED <<timeline, stream, active>>
  PROVE  IInv'
<1>1. /\ stream'[c] = Closed /\ source'[c] = NewSource(NoId)
      /\ \A d \in Clients \ {c} :
           stream'[d] = stream[d] /\ source'[d] = source[d] /\ page'[d] = page[d]
  BY TypeParts DEF IInv, Open, Closed
<1>2. TypeOK'
  <2>1. page' \in [Clients -> Pages] /\ source' \in [Clients -> Sources]
    BY TypeParts, SourceIsNew DEF IInv
  <2> QED
    BY <2>1, TypeParts DEF IInv, TypeOK, Sources, Pages
<1>3. ConnectionsCounted'
  <2>1. \A d \in Clients : Open(d)' <=> Open(d)
    BY DEF Open, Closed
  <2> QED
    BY <2>1, SameConnections DEF IInv
<1>4. StreamOk(c)' /\ NothingLeftOut(c)'
  <2>1. \A e \in Visible[c] : ~(0 < e /\ e <= source'[c].lastId)
    BY <1>1, VisibleAssumption, SourceIsNew
  <2>2. source'[c].block = <<>>
    BY <1>1, SourceIsNew
  <2> QED
    BY <1>1, <2>1, <2>2, ClosedLeavesOutNothing
<1> QED
  BY <1>1, <1>2, <1>3, <1>4, OtherClients

LEMMA VisitStep ==
  ASSUME IInv, NEW c \in Clients, NEW r \in Requests, Visit(c, r)
  PROVE  IInv'
<1>1. page[c] \in Pages
  BY OfClient
<1>2. PICK loaded \in {page[c].shown[r], After(c, r, 0)} :
         page' = [page EXCEPT ![c] =
                    [page[c] EXCEPT !.request = r, !.sent = {}, !.shown[r] = loaded]]
  BY DEF Visit
<1>3. loaded \subseteq Numbers
  <2>1. After(c, r, 0) \subseteq Numbers
    BY AfterType, BoundAssumption DEF IInv, Numbers
  <2> QED
    BY <1>1, <2>1 DEF Pages
<1>4. [page[c] EXCEPT !.request = r, !.sent = {}, !.shown[r] = loaded] \in Pages
  BY <1>1, <1>3 DEF Pages
<1> QED
  BY <1>2, <1>4, StartsAgain DEF Visit

LEMMA ReloadStep ==
  ASSUME IInv, NEW c \in Clients, Reload(c)
  PROVE  IInv'
<1> DEFINE r == page[c].request
           shown == [q \in Requests |-> IF q = r THEN After(c, r, 0) ELSE {}]
           p == [request |-> r, seen |-> {}, sent |-> {}, shown |-> shown]
<1>1. r \in Requests
  BY OfClient DEF Reload, Pages
<1>2. After(c, r, 0) \subseteq Numbers
  BY <1>1, AfterType, BoundAssumption DEF IInv, Numbers
<1>3. p \in Pages
  BY <1>1, <1>2 DEF Pages
<1> QED
  BY <1>3, StartsAgain DEF Reload

-----------------------------------------------------------------------------
(* The theorems.                                                           *)

\* The invariant holds at the start.
LEMMA InitIInv == Init => IInv
<1> SUFFICES ASSUME Init  PROVE IInv
  OBVIOUS
<1>1. TypeOK
  <2>1. stream \in [Clients -> Streams] /\ source \in [Clients -> Sources]
    BY ClosedIsAStream, SourceIsNew DEF Init
  <2> QED
    BY <2>1, BoundAssumption, LimitAssumption DEF Init, TypeOK, Streams, Sources
<1>2. ConnectionsCounted
  <2>1. {c \in Clients : Open(c)} = {}
    BY DEF Init, Open
  <2> QED
    BY <2>1, FS_EmptySet DEF Init, ConnectionsCounted
<1>3. ASSUME NEW c \in Clients
      PROVE  StreamOk(c) /\ NothingLeftOut(c)
  <2>1. \A e \in Visible[c] : ~(0 < e /\ e <= source[c].lastId)
    BY VisibleAssumption, SourceIsNew DEF Init
  <2>2. /\ stream[c] = Closed /\ stream[c].cursor = 0 /\ stream[c].todo = {}
        /\ DOMAIN source[c].block = {}
    BY SourceIsNew DEF Init, Closed
  <2>3. Reached(c, stream[c].cursor)
    BY <2>2, VisibleAssumption DEF Reached
  <2>4. StreamOk(c)
    BY <2>2 DEF StreamOk, Open, Closed
  <2> QED
    BY <2>1, <2>2, <2>3, <2>4 DEF NothingLeftOut
<1> QED
  BY <1>1, <1>2, <1>3 DEF IInv

\* Every step keeps it.
LEMMA NextIInv == IInv /\ [Next]_vars => IInv'
<1> SUFFICES ASSUME IInv, [Next]_vars  PROVE IInv'
  OBVIOUS
<1>1. CASE UNCHANGED vars
  BY <1>1 DEF vars, IInv, TypeOK, ConnectionsCounted, Open, Closed, StreamOk, NothingLeftOut,
              Reached, Given, InBlock
<1>2. ASSUME NEW r \in Requests, AppendEvent(r)  PROVE IInv'
  BY <1>2, AppendStep
<1>3. ASSUME NEW r \in Requests, NEW c \in Clients, Visit(c, r)  PROVE IInv'
  BY <1>3, VisitStep
<1>4. ASSUME NEW c \in Clients, Reload(c)  PROVE IInv'
  BY <1>4, ReloadStep
<1>5. ASSUME NEW c \in Clients, Connect(c)  PROVE IInv'
  BY <1>5, ConnectStep
<1>6. ASSUME NEW c \in Clients, Serve(c)  PROVE IInv'
  BY <1>6, ReplayStep, PollStep, SendStep, SleepStep, HeartbeatStep DEF Serve
<1>7. ASSUME NEW c \in Clients, Disconnect(c)  PROVE IInv'
  BY <1>7, DisconnectStep
<1>8. CASE Restart
  BY <1>8, RestartStep
<1> QED
  BY <1>1, <1>2, <1>3, <1>4, <1>5, <1>6, <1>7, <1>8 DEF Next

\* The streams, the browsers and the pages keep the invariant.
THEOREM StreamsInvariant == Spec => []IInv
<1>1. Init => IInv
  BY InitIInv
<1>2. IInv /\ [Next]_vars => IInv'
  BY NextIInv
<1> QED
  BY <1>1, <1>2, PTL DEF Spec

\* For any number of clients, requests and connections: of the places for streams none
\* is lost and none is given twice, however streams end.
THEOREM PlacesAreCounted == Spec => []PlacesCounted
<1>1. IInv => PlacesCounted
  BY DEF IInv, PlacesCounted
<1> QED
  BY <1>1, StreamsInvariant, PTL

\* For any limits of the replay and of a batch, whatever each client may see: a source
\* resumes from no later than the first visible event it has not been sent.
THEOREM NothingIsSkipped == Spec => []NothingSkipped
<1>1. IInv => NothingSkipped
  BY DEF IInv, NothingLeftOut, NothingSkipped
<1> QED
  BY <1>1, StreamsInvariant, PTL

-----------------------------------------------------------------------------
(* The notifications: the inductive invariant of the stream.               *)

Notes == (Nat \ {0}) \X (Nat \ {0})
Feeds == [pc : {"closed", "replay", "replaying", "poll", "sending"},
          cursor : Notes \cup {NoCursor}, todo : SUBSET Notes, replayed : Nat]
Listeners == [lastId : Notes \cup {NoCursor}, block : Seq(Notes)]

\* What the user was given, the unfinished block included.
Handed == sent \cup InBlock(listener)

\* What a poll still has to find.
Due == {n \in Unsent : Later(n, feed.cursor)} \ feed.todo

FeedType ==
  /\ clock \in 0..MaxTime
  /\ written \in [Writers -> [began : 0..MaxTime, size : Nat]]
  /\ \A w \in Writers : written[w] # NoTransaction => written[w].began # 0
  /\ inbox \subseteq Notes /\ IsFiniteSet(inbox)
  /\ late \subseteq inbox /\ sent \subseteq inbox
  /\ feed \in Feeds /\ feed.todo \subseteq inbox /\ feed.cursor \in inbox \cup {NoCursor}
  /\ listener \in Listeners /\ InBlock(listener) \subseteq inbox

\* A stream that is open has its cursor before what it is about to send.
FeedShape ==
  /\ feed.pc = "closed" => feed = FeedClosed /\ listener.block = <<>>
  /\ feed.pc \in {"replay", "poll"} => feed.todo = {}
  /\ feed.pc = "replay" => /\ feed.cursor = listener.lastId /\ listener.lastId # NoCursor
                           /\ listener.block = <<>>
  /\ \A n \in feed.todo : Later(n, feed.cursor)

\* The unfinished block ends before the cursor, save the row that filled a replay.
BlockBefore ==
  listener.block # <<>> =>
    /\ feed.pc = "poll" \/ (feed.pc = "sending" /\ feed.todo = {}) =>
         listener.block[Len(listener.block)] = feed.cursor
    /\ feed.pc = "replaying" =>
         \/ listener.block[Len(listener.block)] = feed.cursor
         \/ Later(listener.block[Len(listener.block)], feed.cursor)

\* What was sent lies before the id a source resumes from, and before the cursor
\* once a poll is sent.
SentBefore ==
  /\ listener.lastId # NoCursor =>
       listener.lastId \in sent /\ \A m \in sent : ~Later(m, listener.lastId)
  /\ feed.pc = "sending" =>
       \A m \in Handed : ~Later(m, feed.cursor) \/ \E n \in feed.todo : ~Later(m, n)

\* Notifications are sent in their order, those that were overtaken excepted.
InOrder ==
  /\ \A n \in inbox \ (sent \cup late), m \in sent : Later(n, m)
  /\ \A n \in Unsent \ late : /\ \A m \in InBlock(listener) : Later(n, m)
                              /\ n \in feed.todo \/ \A m \in feed.todo : Later(n, m)

\* What a poll or a replay still has to find is no more than it asks for.
Fits ==
  /\ Coming <= NoticeBatch
  /\ Cardinality(inbox \ sent) + Coming
       <= IF listener.lastId = NoCursor THEN NoticeBatch ELSE NoticeReplay
  /\ feed.pc \in {"poll", "replaying", "sending"} => Cardinality(Due) + Coming <= NoticeBatch

FeedInv == /\ FeedType /\ FeedShape /\ BlockBefore /\ SentBefore /\ InOrder /\ Fits
           /\ NoneOvertaken

-----------------------------------------------------------------------------
(* The order of notifications.                                             *)

LEMMA LaterIsAnOrder ==
  /\ \A a, b, c \in Notes \cup {NoCursor} : Later(a, b) /\ Later(b, c) => Later(a, c)
  /\ \A a, b \in Notes \cup {NoCursor} : ~(Later(a, b) /\ Later(b, a))
  /\ \A a, b \in Notes \cup {NoCursor} : a = b \/ Later(a, b) \/ Later(b, a)
  /\ \A a \in Notes : Later(a, NoCursor) /\ a # NoCursor
<1>1. \A a \in Notes \cup {NoCursor} : /\ a[1] \in Nat /\ a[2] \in Nat /\ a = <<a[1], a[2]>>
  BY DEF Notes, NoCursor
<1>2. \A a \in Notes : a[1] > 0
  BY DEF Notes
<1>3. \A a, b, c \in Notes \cup {NoCursor} : Later(a, b) /\ Later(b, c) => Later(a, c)
  BY <1>1 DEF Later
<1>4. \A a, b \in Notes \cup {NoCursor} : ~(Later(a, b) /\ Later(b, a))
  BY <1>1 DEF Later
<1>5. \A a, b \in Notes \cup {NoCursor} : a = b \/ Later(a, b) \/ Later(b, a)
  <2>1. SUFFICES ASSUME NEW a \in Notes \cup {NoCursor}, NEW b \in Notes \cup {NoCursor},
                        ~Later(a, b), ~Later(b, a)
                 PROVE  a = b
    OBVIOUS
  <2>2. a[1] = b[1] /\ a[2] = b[2]
    BY <1>1, <2>1 DEF Later
  <2>. QED  BY <1>1, <2>2
<1>6. \A a \in Notes : Later(a, NoCursor) /\ a # NoCursor
  BY <1>1, <1>2 DEF Later, NoCursor
<1>. QED  BY <1>3, <1>4, <1>5, <1>6

Before(S, x) == {y \in S : Later(x, y)}
Beyond(S, x) == {y \in S : Later(y, x)}

LEMMA FirstOfNotes ==
  ASSUME NEW S \in SUBSET Notes, IsFiniteSet(S), S # {}
  PROVE  \E n \in S : \A m \in S \ {n} : Later(m, n)
<1> DEFINE T == {Before(S, x) : x \in S}
<1>1. \A x \in S : Before(S, x) \in FiniteSubsetsOf(Notes)
  <2>1. SUFFICES ASSUME NEW x \in S PROVE Before(S, x) \in FiniteSubsetsOf(Notes)
    OBVIOUS
  <2>2. Before(S, x) \subseteq S
    BY DEF Before
  <2>3. IsFiniteSet(Before(S, x))
    BY <2>2, FS_Subset
  <2>. QED  BY <2>2, <2>3 DEF FiniteSubsetsOf
<1>2. T \subseteq FiniteSubsetsOf(Notes) /\ T # {}
  BY <1>1
<1>3. \E U \in T : \A V \in T : <<V, U>> \notin StrictSubsetOrdering(Notes)
  <2> HIDE DEF T
  <2>. QED  BY <1>2, FS_StrictSubsetOrderingWellFounded, WFMin
<1>4. PICK n \in S : \A m \in S : <<Before(S, m), Before(S, n)>> \notin StrictSubsetOrdering(Notes)
  BY <1>3
<1>5. ASSUME NEW m \in S, Later(n, m) PROVE FALSE
  <2>1. Before(S, m) \subseteq Before(S, n)
    BY <1>5, LaterIsAnOrder DEF Before
  <2>2. m \in Before(S, n) /\ m \notin Before(S, m)
    BY <1>5, LaterIsAnOrder DEF Before
  <2>3. Before(S, m) \in SUBSET Notes /\ Before(S, n) \in SUBSET Notes
    BY DEF Before
  <2>. QED  BY <1>4, <2>1, <2>2, <2>3 DEF StrictSubsetOrdering
<1>6. \A m \in S \ {n} : Later(m, n)
  BY <1>5, LaterIsAnOrder
<1>. QED  BY <1>6

LEMMA LastOfNotes ==
  ASSUME NEW S \in SUBSET Notes, IsFiniteSet(S), S # {}
  PROVE  \E n \in S : \A m \in S : ~Later(m, n)
<1> DEFINE T == {Beyond(S, x) : x \in S}
<1>1. \A x \in S : Beyond(S, x) \in FiniteSubsetsOf(Notes)
  <2>1. SUFFICES ASSUME NEW x \in S PROVE Beyond(S, x) \in FiniteSubsetsOf(Notes)
    OBVIOUS
  <2>2. Beyond(S, x) \subseteq S
    BY DEF Beyond
  <2>3. IsFiniteSet(Beyond(S, x))
    BY <2>2, FS_Subset
  <2>. QED  BY <2>2, <2>3 DEF FiniteSubsetsOf
<1>2. T \subseteq FiniteSubsetsOf(Notes) /\ T # {}
  BY <1>1
<1>3. \E U \in T : \A V \in T : <<V, U>> \notin StrictSubsetOrdering(Notes)
  <2> HIDE DEF T
  <2>. QED  BY <1>2, FS_StrictSubsetOrderingWellFounded, WFMin
<1>4. PICK n \in S : \A m \in S : <<Beyond(S, m), Beyond(S, n)>> \notin StrictSubsetOrdering(Notes)
  BY <1>3
<1>5. ASSUME NEW m \in S, Later(m, n) PROVE FALSE
  <2>1. Beyond(S, m) \subseteq Beyond(S, n)
    BY <1>5, LaterIsAnOrder DEF Beyond
  <2>2. m \in Beyond(S, n) /\ m \notin Beyond(S, m)
    BY <1>5, LaterIsAnOrder DEF Beyond
  <2>3. Beyond(S, m) \in SUBSET Notes /\ Beyond(S, n) \in SUBSET Notes
    BY DEF Beyond
  <2>. QED  BY <1>4, <2>1, <2>2, <2>3 DEF StrictSubsetOrdering
<1>. QED  BY <1>5

LEMMA OldestNoticeIsFirst ==
  ASSUME NEW S \in SUBSET Notes, IsFiniteSet(S), S # {}
  PROVE  OldestNotice(S) \in S /\ \A m \in S \ {OldestNotice(S)} : Later(m, OldestNotice(S))
BY FirstOfNotes DEF OldestNotice

-----------------------------------------------------------------------------
(* Sums, as sets of numbered cells.                                        *)

Cells(f, S) == UNION {{x} \X (1..f[x]) : x \in S}

LEMMA CellsFinite ==
  ASSUME NEW S, IsFiniteSet(S), NEW f, \A x \in S : f[x] \in Nat
  PROVE  IsFiniteSet(Cells(f, S)) /\ Cardinality(Cells(f, S)) \in Nat
<1>1. ASSUME NEW x \in S PROVE IsFiniteSet({x} \X (1..f[x]))
  <2>1. IsFiniteSet({x})
    BY FS_Singleton
  <2>2. IsFiniteSet(1..f[x])
    BY FS_Interval
  <2>. QED  BY <2>1, <2>2, FS_Product
<1>2. IsFiniteSet({{x} \X (1..f[x]) : x \in S})
  <2>1. PICK g : g = [x \in S |-> {x} \X (1..f[x])]
    OBVIOUS
  <2>2. g \in Surjection(S, {{x} \X (1..f[x]) : x \in S})
    BY <2>1 DEF Surjection
  <2>. QED  BY <2>2, FS_Surjection
<1>3. IsFiniteSet(Cells(f, S))
  BY <1>1, <1>2, FS_UNION DEF Cells
<1>. QED  BY <1>3, FS_CardinalityType

LEMMA CellsOfOne ==
  ASSUME NEW S, IsFiniteSet(S), NEW f, \A x \in S : f[x] \in Nat, NEW y \in S
  PROVE  /\ Cardinality(Cells(f, S)) = Cardinality(Cells(f, S \ {y})) + f[y]
         /\ Cardinality(Cells(f, S \ {y})) \in Nat
<1>1. IsFiniteSet(S \ {y})
  BY FS_Subset
<1>2. IsFiniteSet(Cells(f, S \ {y})) /\ Cardinality(Cells(f, S \ {y})) \in Nat
  BY <1>1, CellsFinite
<1>3. IsFiniteSet({y}) /\ Cardinality({y}) = 1
  BY FS_Singleton
<1>4. IsFiniteSet(1..f[y]) /\ Cardinality(1..f[y]) = f[y]
  BY FS_Interval
<1>5. IsFiniteSet({y} \X (1..f[y])) /\ Cardinality({y} \X (1..f[y])) = f[y]
  BY <1>3, <1>4, FS_Product
<1>6. Cells(f, S) = Cells(f, S \ {y}) \cup ({y} \X (1..f[y]))
  BY DEF Cells
<1>7. Cells(f, S \ {y}) \cap ({y} \X (1..f[y])) = {}
  BY DEF Cells
<1>8. Cardinality(Cells(f, S \ {y}) \cap ({y} \X (1..f[y]))) = 0
  BY <1>7, FS_EmptySet
<1>9. Cardinality(Cells(f, S \ {y}) \cup ({y} \X (1..f[y])))
        = Cardinality(Cells(f, S \ {y})) + Cardinality({y} \X (1..f[y]))
          - Cardinality(Cells(f, S \ {y}) \cap ({y} \X (1..f[y])))
  BY <1>2, <1>5, FS_Union
<1>. QED  BY <1>2, <1>5, <1>6, <1>8, <1>9

LEMMA CellsChange ==
  ASSUME NEW S, IsFiniteSet(S), NEW f, \A x \in S : f[x] \in Nat,
         NEW g, \A x \in S : g[x] \in Nat, NEW y \in S, \A x \in S \ {y} : g[x] = f[x]
  PROVE  Cardinality(Cells(g, S)) = Cardinality(Cells(f, S)) - f[y] + g[y]
<1>1. Cells(g, S \ {y}) = Cells(f, S \ {y})
  BY DEF Cells
<1>2. /\ Cardinality(Cells(f, S)) = Cardinality(Cells(f, S \ {y})) + f[y]
      /\ Cardinality(Cells(f, S \ {y})) \in Nat
  BY CellsOfOne
<1>3. Cardinality(Cells(g, S)) = Cardinality(Cells(g, S \ {y})) + g[y]
  BY CellsOfOne
<1>. QED  BY <1>1, <1>2, <1>3

Sizes == [w \in Writers |-> written[w].size]

LEMMA ComingIsCells ==
  /\ Coming = Cardinality(Cells(Sizes, Writers))
  /\ Coming' = Cardinality(Cells(Sizes', Writers))
<1>1. {{w} \X (1..written[w].size) : w \in Writers} = {{w} \X (1..Sizes[w]) : w \in Writers}
  BY DEF Sizes
<1>2. {{w} \X (1..written'[w].size) : w \in Writers} = {{w} \X (1..Sizes'[w]) : w \in Writers}
  BY DEF Sizes
<1>. QED  BY <1>1, <1>2 DEF Coming, Cells

\* A writer's transaction is what changes the notifications that are coming.
LEMMA ComingChanges ==
  ASSUME FeedType, NEW w \in Writers, NEW t, t.size \in Nat, written' = [written EXCEPT ![w] = t]
  PROVE  Coming \in Nat /\ Coming' = Coming - written[w].size + t.size /\ Coming' \in Nat
<1>1. /\ \A v \in Writers : Sizes[v] \in Nat /\ Sizes'[v] \in Nat
      /\ \A v \in Writers \ {w} : Sizes'[v] = Sizes[v]
      /\ Sizes[w] = written[w].size /\ Sizes'[w] = t.size
  BY DEF FeedType, Sizes
<1>2. PICK f, g : f = Sizes /\ g = Sizes'
  OBVIOUS
<1>3. Cardinality(Cells(g, Writers)) = Cardinality(Cells(f, Writers)) - f[w] + g[w]
  BY <1>1, <1>2, NoticeAssumption, CellsChange
<1>4. Cardinality(Cells(f, Writers)) \in Nat /\ Cardinality(Cells(g, Writers)) \in Nat
  BY <1>1, <1>2, NoticeAssumption, CellsFinite
<1>. QED  BY <1>1, <1>2, <1>3, <1>4, ComingIsCells

LEMMA ComingIsNat == FeedType => Coming \in Nat
<1>1. SUFFICES ASSUME FeedType PROVE Coming \in Nat
  OBVIOUS
<1>2. PICK f : f = Sizes
  OBVIOUS
<1>3. \A v \in Writers : f[v] \in Nat
  BY <1>1, <1>2 DEF FeedType, Sizes
<1>4. Cardinality(Cells(f, Writers)) \in Nat
  BY <1>3, NoticeAssumption, CellsFinite
<1>. QED  BY <1>2, <1>4, ComingIsCells

-----------------------------------------------------------------------------
(* Transactions.                                                           *)

LEMMA Smaller ==
  ASSUME NEW T, IsFiniteSet(T), NEW S, S \subseteq T
  PROVE  /\ IsFiniteSet(S) /\ Cardinality(S) \in Nat /\ Cardinality(T) \in Nat
         /\ Cardinality(S) <= Cardinality(T)
BY FS_Subset, FS_CardinalityType

LEMMA NoMoreThanBoth ==
  ASSUME NEW S, IsFiniteSet(S), NEW T, IsFiniteSet(T), NEW U, U \subseteq S \cup T
  PROVE  /\ Cardinality(U) <= Cardinality(S) + Cardinality(T)
         /\ Cardinality(U) \in Nat /\ Cardinality(S) \in Nat /\ Cardinality(T) \in Nat
<1>1. /\ IsFiniteSet(S \cup T)
      /\ Cardinality(S \cup T) = Cardinality(S) + Cardinality(T) - Cardinality(S \cap T)
  BY FS_Union
<1>2. Cardinality(S \cap T) \in Nat /\ Cardinality(S) \in Nat /\ Cardinality(T) \in Nat
  BY Smaller
<1>3. Cardinality(U) <= Cardinality(S \cup T) /\ Cardinality(U) \in Nat
  BY <1>1, Smaller
<1>. QED  BY <1>1, <1>2, <1>3

LEMMA DueIsFinite ==
  ASSUME FeedType
  PROVE  /\ IsFiniteSet(inbox \ sent) /\ Cardinality(inbox \ sent) \in Nat
         /\ IsFiniteSet(Due) /\ Cardinality(Due) \in Nat
         /\ Cardinality(Due) <= Cardinality(inbox \ sent)
<1>1. IsFiniteSet(inbox \ sent)
  BY Smaller DEF FeedType
<1>2. Due \subseteq inbox \ sent
  BY DEF Due, Unsent
<1>. QED  BY <1>1, <1>2, Smaller

\* The notifications stand as they were.
LEMMA SameNotices ==
  ASSUME FeedInv, UNCHANGED <<inbox, late, feed, listener, sent>>, clock' \in 0..MaxTime,
         written' \in [Writers -> [began : 0..MaxTime, size : Nat]],
         \A w \in Writers : written'[w] # NoTransaction => written'[w].began # 0,
         Coming' <= NoticeBatch,
         Cardinality(inbox \ sent) + Coming'
           <= IF listener.lastId = NoCursor THEN NoticeBatch ELSE NoticeReplay,
         feed.pc \in {"poll", "replaying", "sending"} => Cardinality(Due) + Coming' <= NoticeBatch
  PROVE  FeedInv'
<1>1. Unsent' = Unsent /\ Handed' = Handed /\ Due' = Due /\ InBlock(listener)' = InBlock(listener)
  BY DEF Unsent, Handed, Due
<1>2. FeedType' /\ Fits'
  BY <1>1 DEF FeedInv, FeedType, Fits
<1>3. FeedShape' /\ BlockBefore' /\ SentBefore' /\ InOrder' /\ NoneOvertaken'
  BY <1>1 DEF FeedInv, FeedShape, BlockBefore, SentBefore, InOrder, NoneOvertaken
<1>. QED  BY <1>2, <1>3 DEF FeedInv

LEMMA BeginKeeps ==
  ASSUME FeedInv, NEW w \in Writers, NEW size \in Nat, Begin(w, size)
  PROVE  FeedInv'
<1>1. FeedType /\ written[w] = NoTransaction /\ written[w].size = 0
  BY DEF FeedInv, Begin, NoTransaction
<1>2. PICK t : t = [began |-> clock + 1, size |-> size]
  OBVIOUS
<1>3. written' = [written EXCEPT ![w] = t] /\ clock' = clock + 1 /\ clock < MaxTime
  BY <1>2 DEF Begin
<1>4. clock + 1 \in 0..MaxTime /\ clock + 1 # 0
  BY <1>1, <1>3, NoticeAssumption DEF FeedType
<1>5. Coming \in Nat /\ Coming' = Coming + size
  <2>1. t.size = size /\ t.size \in Nat
    BY <1>2
  <2>2. Coming \in Nat /\ Coming' = Coming - written[w].size + t.size
    BY <1>1, <1>3, <2>1, ComingChanges
  <2>. QED  BY <1>1, <2>1, <2>2
<1>6. /\ written' \in [Writers -> [began : 0..MaxTime, size : Nat]]
      /\ \A v \in Writers : written'[v] # NoTransaction => written'[v].began # 0
  BY <1>1, <1>2, <1>3, <1>4 DEF FeedType
<1>7. /\ Coming' <= NoticeBatch
      /\ feed # FeedClosed =>
           Cardinality({n \in inbox : Later(n, feed.cursor)} \ sent) + Coming' <= NoticeBatch
      /\ Cardinality(inbox \ sent) + Coming'
           <= IF listener.lastId = NoCursor THEN NoticeBatch ELSE NoticeReplay
  <2>1. size + Coming = Coming'
    BY <1>5
  <2>. QED  BY <2>1 DEF Begin, FitsBatch
<1>8. feed.pc \in {"poll", "replaying", "sending"} => Cardinality(Due) + Coming' <= NoticeBatch
  <2>1. feed.pc \in {"poll", "replaying", "sending"} => feed # FeedClosed
    BY DEF FeedClosed
  <2>2. Due \subseteq {n \in inbox : Later(n, feed.cursor)} \ sent
    BY DEF Due, Unsent
  <2>3. IsFiniteSet({n \in inbox : Later(n, feed.cursor)} \ sent)
    BY <1>1, Smaller DEF FeedType
  <2>4. /\ Cardinality(Due) <= Cardinality({n \in inbox : Later(n, feed.cursor)} \ sent)
        /\ Cardinality(Due) \in Nat
        /\ Cardinality({n \in inbox : Later(n, feed.cursor)} \ sent) \in Nat
    BY <2>2, <2>3, Smaller
  <2>. QED  BY <1>5, <1>7, <2>1, <2>4, NoticeAssumption
<1>9. UNCHANGED <<inbox, late, feed, listener, sent>>
  BY DEF Begin
<1>. QED  BY <1>3, <1>4, <1>6, <1>7, <1>8, <1>9, SameNotices

LEMMA RollbackKeeps ==
  ASSUME FeedInv, NEW w \in Writers, Rollback(w)
  PROVE  FeedInv'
<1>1. FeedType /\ Fits
  BY DEF FeedInv
<1>2. PICK t : t = NoTransaction
  OBVIOUS
<1>3. written' = [written EXCEPT ![w] = t] /\ t.size = 0 /\ t.began = 0
  BY <1>2 DEF Rollback, NoTransaction
<1>4. written[w].size \in Nat
  BY <1>1 DEF FeedType
<1>5. Coming \in Nat /\ Coming' \in Nat /\ Coming' <= Coming
  <2>1. t.size \in Nat
    BY <1>3
  <2>2. Coming \in Nat /\ Coming' = Coming - written[w].size + t.size /\ Coming' \in Nat
    BY <1>1, <1>3, <2>1, ComingChanges
  <2>. QED  BY <1>3, <1>4, <2>2
<1>6. /\ written' \in [Writers -> [began : 0..MaxTime, size : Nat]]
      /\ \A v \in Writers : written'[v] # NoTransaction => written'[v].began # 0
  BY <1>1, <1>2, <1>3, NoticeAssumption DEF FeedType, NoTransaction
<1>7. Cardinality(inbox \ sent) \in Nat /\ Cardinality(Due) \in Nat
  BY <1>1, DueIsFinite
<1>8. UNCHANGED <<clock, inbox, late, feed, listener, sent>> /\ clock \in 0..MaxTime
  BY <1>1 DEF Rollback, FeedType
<1>9. /\ Coming' <= NoticeBatch
      /\ Cardinality(inbox \ sent) + Coming'
           <= IF listener.lastId = NoCursor THEN NoticeBatch ELSE NoticeReplay
      /\ feed.pc \in {"poll", "replaying", "sending"} => Cardinality(Due) + Coming' <= NoticeBatch
  BY <1>1, <1>5, <1>7, NoticeAssumption DEF Fits
<1>. QED  BY <1>6, <1>8, <1>9, SameNotices

LEMMA CommitKeeps ==
  ASSUME FeedInv, NEW w \in Writers, Commit(w)
  PROVE  FeedInv'
<1>1. FeedType /\ Fits /\ InOrder /\ NoneOvertaken
  BY DEF FeedInv
<1>2. PICK t \in 0..MaxTime, size \in Nat : t = written[w].began /\ size = written[w].size
  BY <1>1 DEF FeedType
<1>3. PICK new : new = {Notification(t, i) : i \in 1..size}
  OBVIOUS
<1>4. /\ inbox' = inbox \cup new /\ late' = late \cup {n \in new : \E m \in inbox : Later(m, n)}
      /\ written' = [written EXCEPT ![w] = NoTransaction]
      /\ UNCHANGED <<clock, feed, listener, sent>> /\ t # 0
  BY <1>1, <1>2, <1>3 DEF Commit, FeedType
<1>5. new \subseteq Notes /\ IsFiniteSet(new) /\ Cardinality(new) <= size /\ Cardinality(new) \in Nat
  <2>1. new \subseteq Notes
    BY <1>2, <1>3, <1>4, NoticeAssumption DEF Notes, Notification
  <2>2. PICK g : g = [i \in 1..size |-> Notification(t, i)]
    OBVIOUS
  <2>3. g \in Surjection(1..size, new)
    BY <1>3, <2>2 DEF Surjection
  <2>4. IsFiniteSet(1..size) /\ Cardinality(1..size) = size
    <3>1. size \in Int /\ 1 \in Int /\ size - 1 + 1 = size /\ (1 <= size \/ size = 0)
      OBVIOUS
    <3>. QED  BY <3>1, FS_Interval
  <2>5. IsFiniteSet(new) /\ Cardinality(new) <= size
    BY <2>3, <2>4, FS_Surjection
  <2>. QED  BY <2>1, <2>5, FS_CardinalityType
<1>6. Coming \in Nat /\ Coming' \in Nat /\ Coming' = Coming - size
  <2>1. NoTransaction.size = 0 /\ Coming' = Coming - written[w].size + NoTransaction.size /\ Coming \in Nat /\ Coming' \in Nat
    BY <1>1, <1>4, ComingChanges DEF NoTransaction
  <2>. QED  BY <1>2, <2>1
<1>7. FeedType'
  <2>1. IsFiniteSet(inbox')
    BY <1>1, <1>4, <1>5, FS_Union DEF FeedType
  <2>2. /\ written' \in [Writers -> [began : 0..MaxTime, size : Nat]]
        /\ \A v \in Writers : written'[v] # NoTransaction => written'[v].began # 0
    BY <1>1, <1>4, NoticeAssumption DEF FeedType, NoTransaction
  <2>. QED  BY <1>1, <1>4, <1>5, <2>1, <2>2 DEF FeedType
<1>8. ASSUME NEW n \in Unsent' \ late'
      PROVE  n \in Unsent \ late \/ (\A m \in inbox : Later(n, m))
  <2>1. n \in inbox \/ n \in new
    BY <1>4 DEF Unsent
  <2>2. CASE n \in inbox
    BY <1>4, <1>8, <2>2 DEF Unsent
  <2>3. CASE n \notin inbox
    <3>1. n \in new /\ \A m \in inbox : ~Later(m, n) /\ m # n
      BY <1>4, <1>8, <2>1, <2>3
    <3>. QED  BY <1>1, <1>5, <3>1, LaterIsAnOrder DEF FeedType
  <2>. QED  BY <2>2, <2>3
<1>9. ASSUME NEW n \in inbox' \ (sent' \cup late')
      PROVE  n \in inbox \ (sent \cup late) \/ (\A m \in inbox : Later(n, m))
  <2>1. CASE n \in inbox
    BY <1>4, <1>9, <2>1
  <2>2. CASE n \notin inbox
    <3>1. n \in new /\ \A m \in inbox : ~Later(m, n) /\ m # n
      BY <1>4, <1>9, <2>2
    <3>. QED  BY <1>1, <1>5, <3>1, LaterIsAnOrder DEF FeedType
  <2>. QED  BY <2>1, <2>2
<1>10. InOrder'
  BY <1>1, <1>4, <1>8, <1>9 DEF InOrder, FeedType
<1>11. NoneOvertaken'
  <2>1. SUFFICES ASSUME feed # FeedClosed, NEW n \in Unsent' \ late'
                 PROVE  n \in feed.todo \/ Later(n, feed.cursor)
    BY <1>4 DEF NoneOvertaken
  <2>2. CASE n \in Unsent \ late
    BY <1>1, <2>1, <2>2 DEF NoneOvertaken
  <2>3. CASE \A m \in inbox : Later(n, m)
    <3>1. n \in Notes
      BY <1>1, <1>4, <1>5, <2>1 DEF Unsent, FeedType
    <3>. QED  BY <1>1, <2>3, <3>1, LaterIsAnOrder DEF FeedType
  <2>. QED  BY <1>8, <2>1, <2>2, <2>3
<1>12. Fits'
  <2>1. IsFiniteSet(Due) /\ IsFiniteSet(inbox \ sent)
    BY <1>1, DueIsFinite
  <2>2. Due' \subseteq Due \cup new /\ inbox' \ sent' \subseteq (inbox \ sent) \cup new
    BY <1>4 DEF Due, Unsent
  <2>3. Cardinality(Due') <= Cardinality(Due) + Cardinality(new) /\ Cardinality(Due') \in Nat /\ Cardinality(Due) \in Nat
    BY <1>5, <2>1, <2>2, NoMoreThanBoth
  <2>4. /\ Cardinality(inbox' \ sent') <= Cardinality(inbox \ sent) + Cardinality(new)
        /\ Cardinality(inbox' \ sent') \in Nat /\ Cardinality(inbox \ sent) \in Nat
    BY <1>5, <2>1, <2>2, NoMoreThanBoth
  <2>5. /\ Cardinality(Due') + Coming' <= Cardinality(Due) + Coming
        /\ Cardinality(inbox' \ sent') + Coming' <= Cardinality(inbox \ sent) + Coming
        /\ Coming' <= Coming
    BY <1>2, <1>5, <1>6, <2>3, <2>4
  <2>6. Coming' <= NoticeBatch
    BY <1>1, <1>6, <2>5, NoticeAssumption DEF Fits
  <2>7. Cardinality(inbox' \ sent') + Coming'
           <= IF listener.lastId = NoCursor THEN NoticeBatch ELSE NoticeReplay
    BY <1>1, <1>6, <2>4, <2>5, NoticeAssumption DEF Fits
  <2>8. feed.pc \in {"poll", "replaying", "sending"} => Cardinality(Due') + Coming' <= NoticeBatch
    BY <1>1, <1>6, <2>3, <2>5, NoticeAssumption DEF Fits
  <2>. QED  BY <1>4, <2>6, <2>7, <2>8 DEF Fits
<1>13. FeedShape' /\ BlockBefore' /\ SentBefore'
  BY <1>4 DEF FeedInv, FeedShape, BlockBefore, SentBefore, Handed
<1>. QED  BY <1>7, <1>10, <1>11, <1>12, <1>13 DEF FeedInv

-----------------------------------------------------------------------------
(* The stream and the source it feeds.                                     *)

LEMMA NoticeReceived ==
  ASSUME NEW src \in Listeners, NEW n \in Notes
  PROVE  /\ Receive(src, n) \in Listeners /\ Receive(src, n).lastId = src.lastId
         /\ Receive(src, n).block # <<>>
         /\ Receive(src, n).block[Len(Receive(src, n).block)] = n
         /\ InBlock(Receive(src, n)) = InBlock(src) \cup {n}
<1>1. src.block \in Seq(Notes)
  BY DEF Listeners
<1>2. PICK b : b = Append(src.block, n)
  OBVIOUS
<1>3. Receive(src, n) = [src EXCEPT !.block = b] /\ b \in Seq(Notes)
  BY <1>1, <1>2 DEF Receive
<1>4. /\ Receive(src, n) \in Listeners /\ Receive(src, n).lastId = src.lastId
      /\ Receive(src, n).block = b
  BY <1>3 DEF Listeners
<1>5. /\ DOMAIN src.block = 1..Len(src.block) /\ Len(src.block) \in Nat
      /\ DOMAIN b = 1..(Len(src.block) + 1) /\ Len(b) = Len(src.block) + 1
      /\ b[Len(src.block) + 1] = n /\ b # <<>>
      /\ \A i \in DOMAIN src.block : b[i] = src.block[i]
  BY <1>1, <1>2
<1>6. DOMAIN b = DOMAIN src.block \cup {Len(src.block) + 1}
  BY <1>5
<1>7. InBlock(src) \cup {n} = InBlock(Receive(src, n))
  BY <1>4, <1>5, <1>6 DEF InBlock
<1>. QED  BY <1>4, <1>5, <1>7

LEMMA EmptyBlock == \A src : src.block = <<>> => InBlock(src) = {}
BY DEF InBlock

LEMMA LastInBlock ==
  ASSUME NEW src \in Listeners, src.block # <<>>
  PROVE  src.block[Len(src.block)] \in InBlock(src) /\ src.block[Len(src.block)] \in Notes
<1>1. src.block \in Seq(Notes)
  BY DEF Listeners
<1>2. Len(src.block) \in DOMAIN src.block
  BY <1>1
<1>. QED  BY <1>1, <1>2 DEF InBlock

LEMMA BlockEnded ==
  ASSUME NEW src \in Listeners
  PROVE  /\ EndBlock(src) \in Listeners /\ EndBlock(src).block = <<>>
         /\ EndBlock(src).lastId = IF src.block = <<>> THEN src.lastId
                                   ELSE src.block[Len(src.block)]
<1>1. CASE src.block = <<>>
  <2>1. EndBlock(src) = [src EXCEPT !.lastId = src.lastId, !.block = <<>>]
    BY <1>1 DEF EndBlock
  <2>. QED  BY <1>1, <2>1 DEF Listeners
<1>2. CASE src.block # <<>>
  <2>1. PICK b \in Notes : b = src.block[Len(src.block)]
    BY <1>2, LastInBlock
  <2>2. EndBlock(src) = [src EXCEPT !.lastId = b, !.block = <<>>]
    BY <1>2, <2>1 DEF EndBlock
  <2>3. EndBlock(src) = [lastId |-> b, block |-> <<>>]
    BY <2>2 DEF Listeners
  <2>. QED  BY <1>2, <2>1, <2>3 DEF Listeners
<1>. QED  BY <1>1, <1>2

LEMMA ReconnectKeeps ==
  ASSUME FeedInv, Reconnect
  PROVE  FeedInv'
<1>1. FeedType /\ FeedShape /\ SentBefore /\ InOrder /\ Fits
  BY DEF FeedInv
<1>2. feed = FeedClosed /\ UNCHANGED <<clock, written, inbox, late, listener, sent>>
  BY DEF Reconnect
<1>3. PICK l \in Notes \cup {NoCursor} : l = listener.lastId
  BY <1>1 DEF FeedType, Listeners
<1>4. /\ feed'.pc = (IF l = NoCursor THEN "poll" ELSE "replay") /\ feed'.cursor = l
      /\ feed'.todo = {} /\ feed'.replayed = 0
      /\ feed' = [pc |-> feed'.pc, cursor |-> l, todo |-> {}, replayed |-> 0]
  BY <1>3 DEF Reconnect, OpenFeed, FeedClosed
<1>5. listener.block = <<>> /\ InBlock(listener) = {} /\ InBlock(listener)' = {}
  BY <1>1, <1>2, EmptyBlock DEF FeedShape, FeedClosed
<1>6. Unsent = inbox \ sent /\ Unsent' = inbox \ sent /\ Coming' = Coming
  BY <1>2, <1>5 DEF Unsent, Coming
<1>7. FeedType'
  <2>1. feed' \in Feeds
    BY <1>4 DEF Feeds
  <2>2. l \in inbox \cup {NoCursor}
    BY <1>1, <1>3 DEF FeedType, SentBefore
  <2>. QED  BY <1>1, <1>2, <1>4, <2>1, <2>2 DEF FeedType
<1>8. FeedShape' /\ BlockBefore' /\ SentBefore'
  BY <1>1, <1>2, <1>3, <1>4, <1>5 DEF FeedShape, BlockBefore, SentBefore, Handed
<1>9. InOrder'
  BY <1>1, <1>2, <1>4, <1>5, <1>6 DEF InOrder
<1>10. NoneOvertaken'
  <2>1. ASSUME NEW n \in Unsent \ late PROVE Later(n, l)
    <3>1. CASE l = NoCursor
      BY <1>1, <2>1, <3>1, LaterIsAnOrder DEF FeedType, Unsent
    <3>2. CASE l # NoCursor
      BY <1>1, <1>3, <1>6, <2>1, <3>2 DEF SentBefore, InOrder
    <3>. QED  BY <3>1, <3>2
  <2>. QED  BY <1>2, <1>4, <1>6, <2>1 DEF NoneOvertaken
<1>11. Fits'
  <2>1. Due' \subseteq inbox \ sent
    BY <1>6 DEF Due
  <2>2. IsFiniteSet(inbox \ sent)
    BY <1>1, DueIsFinite
  <2>3. Cardinality(Due') <= Cardinality(inbox \ sent) /\ Cardinality(Due') \in Nat /\ Cardinality(inbox \ sent) \in Nat
    BY <2>1, <2>2, Smaller
  <2>4. feed'.pc = "poll" => Cardinality(Due') + Coming <= NoticeBatch
    BY <1>1, <1>3, <1>4, <2>3, ComingIsNat, NoticeAssumption DEF Fits
  <2>. QED  BY <1>1, <1>2, <1>4, <1>6, <2>4 DEF Fits
<1>. QED  BY <1>7, <1>8, <1>9, <1>10, <1>11 DEF FeedInv

LEMMA OpenPageKeeps ==
  ASSUME FeedInv, OpenPage
  PROVE  FeedInv'
<1>1. FeedType /\ Fits
  BY DEF FeedInv
<1>2. /\ UNCHANGED <<clock, written, inbox, late>> /\ sent' = inbox
      /\ listener' = [lastId |-> NoCursor, block |-> <<>>]
  BY DEF OpenPage, NewSource
<1>3. feed' = [pc |-> "poll", cursor |-> NoCursor, todo |-> {}, replayed |-> 0]
  BY DEF OpenPage, OpenFeed, FeedClosed
<1>4. InBlock(listener)' = {} /\ Unsent' = {} /\ Coming' = Coming /\ Due' = {} /\ inbox' \ sent' = {}
  BY <1>2, EmptyBlock DEF Unsent, Coming, Due
<1>5. FeedType'
  BY <1>1, <1>2, <1>3, <1>4 DEF FeedType, Feeds, Listeners
<1>6. FeedShape' /\ BlockBefore' /\ SentBefore' /\ InOrder' /\ NoneOvertaken'
  BY <1>2, <1>3, <1>4 DEF FeedShape, BlockBefore, SentBefore, InOrder, NoneOvertaken
<1>7. Fits'
  <2>1. Cardinality({}) = 0
    BY FS_EmptySet
  <2>2. Coming \in Nat
    BY <1>1, ComingIsNat
  <2>3. /\ Cardinality(Due') = 0 /\ Cardinality(inbox' \ sent') = 0
        /\ Coming' <= NoticeBatch /\ listener'.lastId = NoCursor
    BY <1>1, <1>2, <1>4, <2>1 DEF Fits
  <2>. QED  BY <1>4, <2>2, <2>3, NoticeAssumption DEF Fits
<1>. QED  BY <1>5, <1>6, <1>7 DEF FeedInv

LEMMA ReplayFeedKeeps ==
  ASSUME FeedInv, ReplayFeed
  PROVE  FeedInv'
<1>1. FeedType /\ FeedShape /\ SentBefore /\ InOrder /\ Fits /\ NoneOvertaken
  BY DEF FeedInv
<1>2. UNCHANGED <<clock, written, inbox, late, listener, sent>> /\ feed.pc = "replay"
  BY DEF ReplayFeed
<1>3. PICK T : T = New(NoticeReplay)
  OBVIOUS
<1>4. PICK c : c = feed.cursor
  OBVIOUS
<1>5. /\ c \in sent /\ c \in Notes /\ listener.lastId = c /\ c # NoCursor
      /\ \A m \in sent : ~Later(m, c)
      /\ listener.block = <<>> /\ InBlock(listener) = {} /\ feed.todo = {}
  BY <1>1, <1>2, <1>4, EmptyBlock DEF FeedShape, SentBefore, FeedType
<1>6. T = {n \in inbox : Later(n, c)}
  <2>1. T \subseteq {n \in inbox : Later(n, c)}
    BY <1>3, <1>4 DEF New, Newest
  <2>2. ASSUME NEW n \in inbox, Later(n, c) PROVE n \in T
    <3>1. {m \in inbox : Later(m, n)} \subseteq (inbox \ sent) \ {n}
      BY <1>1, <1>5, <2>2, LaterIsAnOrder DEF FeedType
    <3>2. n \in inbox \ sent /\ IsFiniteSet(inbox \ sent) /\ Cardinality(inbox \ sent) \in Nat
      BY <1>1, <1>5, <2>2, DueIsFinite
    <3>3. Cardinality((inbox \ sent) \ {n}) = Cardinality(inbox \ sent) - 1 /\ IsFiniteSet((inbox \ sent) \ {n})
      BY <3>2, FS_RemoveElement
    <3>4. Cardinality({m \in inbox : Later(m, n)}) <= Cardinality(inbox \ sent) - 1
      BY <3>1, <3>3, Smaller
    <3>5. Cardinality(inbox \ sent) <= NoticeReplay
      BY <1>1, <1>5, <3>2, ComingIsNat, NoticeAssumption DEF Fits
    <3>6. Cardinality({m \in inbox : Later(m, n)}) \in Nat
      BY <3>1, <3>3, Smaller
    <3>7. Cardinality({m \in inbox : Later(m, n)}) < NoticeReplay
      BY <3>2, <3>4, <3>5, <3>6, NoticeAssumption
    <3>. QED  BY <1>3, <1>4, <2>2, <3>7 DEF New, Newest
  <2>. QED  BY <2>1, <2>2
<1>7. /\ feed' = [feed EXCEPT !.pc = "replaying", !.todo = T]
      /\ feed'.pc = "replaying" /\ feed'.todo = T /\ feed'.cursor = c
  BY <1>1, <1>3, <1>4 DEF ReplayFeed, FeedType, Feeds
<1>8. /\ Unsent' = Unsent /\ InBlock(listener)' = InBlock(listener) /\ Coming' = Coming
      /\ Due' = {}
  BY <1>2, <1>6, <1>7 DEF Unsent, Coming, Due
<1>9. FeedType'
  <2>1. feed' \in Feeds /\ T \subseteq inbox
    BY <1>1, <1>6, <1>7 DEF FeedType, Feeds
  <2>. QED  BY <1>1, <1>2, <1>4, <1>7, <1>8, <2>1 DEF FeedType
<1>10. FeedShape' /\ BlockBefore' /\ SentBefore'
  BY <1>1, <1>2, <1>5, <1>6, <1>7 DEF FeedShape, BlockBefore, SentBefore
<1>11. \A n \in Unsent \ late : n \in T
  BY <1>1, <1>2, <1>4, <1>5, <1>6 DEF NoneOvertaken, Unsent, FeedClosed
<1>12. InOrder' /\ NoneOvertaken'
  BY <1>1, <1>2, <1>7, <1>8, <1>11 DEF InOrder, NoneOvertaken
<1>13. Fits'
  <2>1. Cardinality({}) = 0
    BY FS_EmptySet
  <2>2. Coming \in Nat
    BY <1>1, ComingIsNat
  <2>. QED  BY <1>1, <1>2, <1>8, <2>1, <2>2 DEF Fits
<1>. QED  BY <1>9, <1>10, <1>12, <1>13 DEF FeedInv

LEMMA PollFeedKeeps ==
  ASSUME FeedInv, PollFeed
  PROVE  FeedInv'
<1>1. FeedType /\ FeedShape /\ BlockBefore /\ SentBefore /\ InOrder /\ Fits /\ NoneOvertaken
  BY DEF FeedInv
<1>2. /\ UNCHANGED <<clock, written, inbox, late, listener, sent>>
      /\ feed.pc \in {"poll", "replaying"} /\ feed.todo = {} /\ feed # FeedClosed
  BY <1>1 DEF PollFeed, FeedShape, FeedClosed
<1>3. PICK T : T = New(NoticeBatch)
  OBVIOUS
<1>4. PICK c \in Notes \cup {NoCursor} : c = feed.cursor
  BY <1>1 DEF FeedType, Feeds
<1>5. /\ feed' = [feed EXCEPT !.pc = "sending", !.todo = T]
      /\ feed'.pc = "sending" /\ feed'.todo = T /\ feed'.cursor = c
  BY <1>1, <1>3, <1>4 DEF PollFeed, FeedType, Feeds
<1>6. T \subseteq inbox /\ \A n \in T : Later(n, c)
  BY <1>3, <1>4 DEF New, Newest
<1>7. ASSUME NEW n \in Unsent \ late PROVE n \in T
  <2>1. Later(n, c) /\ n \in inbox /\ n \in Notes
    BY <1>1, <1>2, <1>4 DEF NoneOvertaken, Unsent, FeedType
  <2>2. {m \in inbox : Later(m, n)} \subseteq Due \ {n} /\ n \in Due
    <3>1. ASSUME NEW m \in inbox, Later(m, n) PROVE m \in Due /\ m # n
      <4>1. m \in Notes /\ ~Later(n, m)
        BY <1>1, <2>1, <3>1, LaterIsAnOrder DEF FeedType
      <4>2. m \notin sent /\ m \notin InBlock(listener)
        BY <1>1, <1>7, <4>1 DEF InOrder, Unsent
      <4>. QED  BY <1>2, <1>4, <2>1, <3>1, <4>1, <4>2, LaterIsAnOrder DEF Due, Unsent
    <3>2. n \in Due
      BY <1>2, <1>4, <2>1 DEF Due
    <3>. QED  BY <3>1, <3>2
  <2>3. IsFiniteSet(Due) /\ Cardinality(Due) \in Nat
    BY <1>1, DueIsFinite
  <2>4. Cardinality(Due \ {n}) = Cardinality(Due) - 1 /\ IsFiniteSet(Due \ {n})
    BY <2>2, <2>3, FS_RemoveElement
  <2>5. /\ Cardinality({m \in inbox : Later(m, n)}) <= Cardinality(Due) - 1
        /\ Cardinality({m \in inbox : Later(m, n)}) \in Nat
    BY <2>2, <2>4, Smaller
  <2>6. Cardinality(Due) <= NoticeBatch
    BY <1>1, <1>2, <2>3, ComingIsNat, NoticeAssumption DEF Fits
  <2>7. Cardinality({m \in inbox : Later(m, n)}) < NoticeBatch
    BY <2>3, <2>5, <2>6, NoticeAssumption
  <2>. QED  BY <1>3, <1>4, <2>1, <2>7 DEF New, Newest
<1>8. ASSUME NEW m \in inbox, Later(m, c) PROVE \E n \in T : \A k \in inbox : ~Later(k, n)
  <2>1. PICK n \in inbox : \A k \in inbox : ~Later(k, n)
    BY <1>1, <1>8, LastOfNotes DEF FeedType
  <2>2. {k \in inbox : Later(k, n)} = {} /\ Cardinality({}) = 0
    BY <2>1, FS_EmptySet
  <2>3. Later(n, c)
    BY <1>1, <1>8, <2>1, LaterIsAnOrder DEF FeedType
  <2>4. Cardinality({k \in inbox : Later(k, n)}) < NoticeBatch
    BY <2>2, NoticeAssumption
  <2>. QED  BY <1>3, <1>4, <2>1, <2>3, <2>4 DEF New, Newest
<1>9. /\ Unsent' = Unsent /\ InBlock(listener)' = InBlock(listener) /\ Coming' = Coming
      /\ Handed' = Handed /\ Due' \subseteq Due
  BY <1>2, <1>4, <1>5 DEF Unsent, Coming, Due, Handed
<1>10. FeedType'
  <2>1. feed' \in Feeds
    BY <1>1, <1>5, <1>6 DEF FeedType, Feeds
  <2>. QED  BY <1>1, <1>2, <1>4, <1>5, <1>6, <1>9, <2>1 DEF FeedType
<1>11. FeedShape'
  BY <1>2, <1>5, <1>6 DEF FeedShape
<1>12. BlockBefore'
  <2>1. SUFFICES ASSUME listener.block # <<>>, T = {}
                 PROVE  listener.block[Len(listener.block)] = c
    BY <1>2, <1>5 DEF BlockBefore
  <2>2. listener.block[Len(listener.block)] \in inbox
    BY <1>1, <2>1, LastInBlock DEF FeedType
  <2>3. ~Later(listener.block[Len(listener.block)], c)
    BY <1>8, <2>1, <2>2
  <2>. QED  BY <1>1, <1>2, <1>4, <2>1, <2>3 DEF BlockBefore
<1>13. SentBefore'
  <2>1. ASSUME NEW m \in Handed PROVE ~Later(m, c) \/ \E n \in T : ~Later(m, n)
    <3>1. m \in inbox
      BY <1>1, <2>1 DEF FeedType, Handed
    <3>. QED  BY <1>8, <3>1
  <2>. QED  BY <1>1, <1>2, <1>5, <1>9, <2>1 DEF SentBefore
<1>14. InOrder' /\ NoneOvertaken'
  BY <1>1, <1>2, <1>5, <1>7, <1>9 DEF InOrder, NoneOvertaken
<1>15. Fits'
  <2>1. Cardinality(Due') <= Cardinality(Due) /\ Cardinality(Due') \in Nat /\ Cardinality(Due) \in Nat
    BY <1>1, <1>9, DueIsFinite, Smaller
  <2>2. Cardinality(Due') + Coming <= NoticeBatch
    BY <1>1, <1>2, <2>1, ComingIsNat, NoticeAssumption DEF Fits
  <2>. QED  BY <1>1, <1>2, <1>9, <2>2 DEF Fits
<1>. QED  BY <1>10, <1>11, <1>12, <1>13, <1>14, <1>15 DEF FeedInv

LEMMA SendNoticeKeeps ==
  ASSUME FeedInv, SendNotice
  PROVE  FeedInv'
<1>1. FeedType /\ FeedShape /\ BlockBefore /\ SentBefore /\ InOrder /\ Fits /\ NoneOvertaken
  BY DEF FeedInv
<1>2. UNCHANGED <<clock, written, inbox, late, sent>> /\ feed.todo # {}
  BY DEF SendNotice
<1>3. PICK n : n = OldestNotice(feed.todo)
  OBVIOUS
<1>4. PICK c \in Notes \cup {NoCursor} : c = feed.cursor
  BY <1>1 DEF FeedType, Feeds
<1>5. PICK d : d = IF feed.pc = "sending" THEN n ELSE AfterReplay(feed, n)
  OBVIOUS
<1>6. /\ n \in feed.todo /\ \A m \in feed.todo \ {n} : Later(m, n)
      /\ n \in inbox /\ n \in Notes /\ Later(n, c)
  <2>1. IsFiniteSet(feed.todo) /\ feed.todo \in SUBSET Notes
    BY <1>1, Smaller DEF FeedType
  <2>. QED  BY <1>1, <1>2, <1>3, <1>4, <2>1, OldestNoticeIsFirst DEF FeedType, FeedShape
<1>7. feed.pc \in {"replaying", "sending"} /\ feed # FeedClosed
  BY <1>1, <1>2 DEF FeedShape, FeedClosed, FeedType, Feeds
<1>8. d \in {n, c} /\ (feed.pc = "sending" => d = n)
  BY <1>4, <1>5 DEF AfterReplay
<1>9. /\ feed' = [feed EXCEPT !.todo = feed.todo \ {n}, !.replayed = feed.replayed + 1, !.cursor = d]
      /\ listener' = Receive(listener, n)
  BY <1>3, <1>5 DEF SendNotice
<1>10. /\ feed' \in Feeds /\ feed'.pc = feed.pc /\ feed'.todo = feed.todo \ {n} /\ feed'.cursor = d
  <2>1. feed \in Feeds /\ feed.replayed + 1 \in Nat /\ feed.todo \ {n} \in SUBSET Notes
    BY <1>1 DEF FeedType, Feeds
  <2>2. d \in Notes \cup {NoCursor}
    BY <1>6, <1>8
  <2>. QED  BY <1>9, <2>1, <2>2 DEF Feeds
<1>11. /\ listener' \in Listeners /\ listener'.lastId = listener.lastId /\ listener'.block # <<>>
       /\ listener'.block[Len(listener'.block)] = n
       /\ InBlock(listener') = InBlock(listener) \cup {n}
  BY <1>1, <1>6, <1>9, NoticeReceived DEF FeedType
<1>12. /\ Unsent' = Unsent \ {n} /\ Coming' = Coming /\ Handed' = Handed \cup {n}
  BY <1>2, <1>11 DEF Unsent, Coming, Handed
<1>13. FeedType'
  BY <1>1, <1>2, <1>4, <1>6, <1>8, <1>10, <1>11 DEF FeedType
<1>14. FeedShape' /\ BlockBefore'
  BY <1>1, <1>4, <1>6, <1>7, <1>8, <1>10, <1>11 DEF FeedShape, BlockBefore, FeedClosed
<1>15. SentBefore'
  <2>1. ASSUME feed.pc = "sending", NEW m \in Handed \cup {n}
        PROVE  ~Later(m, n) \/ \E x \in feed.todo \ {n} : ~Later(m, x)
    <3>1. m \in Notes
      BY <1>1, <1>6, <2>1 DEF FeedType, Handed
    <3>2. CASE m = n
      BY <1>6, <3>2, LaterIsAnOrder
    <3>3. CASE m \in Handed /\ ~Later(m, c)
      BY <1>4, <1>6, <3>1, <3>3, LaterIsAnOrder
    <3>4. CASE m \in Handed /\ \E x \in feed.todo : ~Later(m, x)
      BY <3>4
    <3>. QED  BY <1>1, <1>4, <2>1, <3>2, <3>3, <3>4 DEF SentBefore
  <2>. QED  BY <1>1, <1>2, <1>8, <1>10, <1>11, <1>12, <2>1 DEF SentBefore
<1>16. \A m \in Unsent' \ late : /\ m \in Unsent \ late /\ Later(m, n)
                                 /\ m \in feed.todo => m \in feed.todo \ {n}
  BY <1>1, <1>6, <1>12 DEF InOrder
<1>17. InOrder'
  BY <1>1, <1>2, <1>10, <1>11, <1>16 DEF InOrder
<1>18. NoneOvertaken'
  BY <1>1, <1>2, <1>4, <1>7, <1>8, <1>10, <1>16 DEF NoneOvertaken
<1>19. Fits'
  <2>1. Due' \subseteq Due
    <3>1. SUFFICES ASSUME NEW m \in Due' PROVE m \in Due
      OBVIOUS
    <3>2. m \in Unsent /\ m # n /\ Later(m, d) /\ m \notin feed.todo
      BY <1>10, <1>12, <3>1 DEF Due
    <3>3. m \in Notes
      BY <1>1, <3>2 DEF Unsent, FeedType
    <3>. QED  BY <1>4, <1>6, <1>8, <3>2, <3>3, LaterIsAnOrder DEF Due
  <2>2. Cardinality(Due') <= Cardinality(Due) /\ Cardinality(Due') \in Nat /\ Cardinality(Due) \in Nat
    BY <1>1, <2>1, DueIsFinite, Smaller
  <2>3. Cardinality(Due') + Coming <= NoticeBatch
    BY <1>1, <1>7, <2>2, ComingIsNat, NoticeAssumption DEF Fits
  <2>. QED  BY <1>1, <1>2, <1>11, <1>12, <2>3 DEF Fits
<1>. QED  BY <1>13, <1>14, <1>15, <1>17, <1>18, <1>19 DEF FeedInv

LEMMA SleepFeedKeeps ==
  ASSUME FeedInv, SleepFeed
  PROVE  FeedInv'
<1>1. FeedType /\ FeedShape /\ BlockBefore /\ SentBefore /\ InOrder /\ Fits /\ NoneOvertaken
  BY DEF FeedInv
<1>2. /\ UNCHANGED <<clock, written, inbox, late, listener, sent>>
      /\ feed.pc = "sending" /\ feed.todo = {} /\ feed # FeedClosed
  BY DEF SleepFeed, FeedClosed
<1>3. /\ feed' \in Feeds /\ feed'.pc = "poll" /\ feed'.todo = {} /\ feed'.cursor = feed.cursor
  BY <1>1, <1>2 DEF SleepFeed, FeedType, Feeds
<1>4. /\ Unsent' = Unsent /\ InBlock(listener)' = InBlock(listener) /\ Coming' = Coming
      /\ Handed' = Handed /\ Due' = Due
  BY <1>2, <1>3 DEF Unsent, Coming, Due, Handed
<1>5. FeedType' /\ FeedShape' /\ BlockBefore' /\ SentBefore'
  BY <1>1, <1>2, <1>3, <1>4 DEF FeedType, FeedShape, BlockBefore, SentBefore
<1>6. InOrder' /\ NoneOvertaken' /\ Fits'
  BY <1>1, <1>2, <1>3, <1>4 DEF InOrder, NoneOvertaken, Fits
<1>. QED  BY <1>5, <1>6 DEF FeedInv

LEMMA FeedHeartbeatKeeps ==
  ASSUME FeedInv, FeedHeartbeat
  PROVE  FeedInv'
<1>1. FeedType /\ FeedShape /\ BlockBefore /\ SentBefore /\ InOrder /\ Fits /\ NoneOvertaken
  BY DEF FeedInv
<1>2. /\ UNCHANGED <<clock, written, inbox, late>> /\ sent' = Handed
      /\ feed.pc = "sending" /\ feed.todo = {} /\ feed # FeedClosed
  BY DEF FeedHeartbeat, FeedClosed, Handed
<1>3. /\ feed' \in Feeds /\ feed'.pc = "poll" /\ feed'.todo = {} /\ feed'.cursor = feed.cursor
  BY <1>1, <1>2 DEF FeedHeartbeat, FeedType, Feeds
<1>4. /\ listener' \in Listeners /\ listener'.block = <<>>
      /\ listener'.lastId = IF listener.block = <<>> THEN listener.lastId
                            ELSE listener.block[Len(listener.block)]
  BY <1>1, BlockEnded DEF FeedHeartbeat, FeedType
<1>5. InBlock(listener') = {} /\ (listener.block = <<>> => InBlock(listener) = {})
  BY <1>4, EmptyBlock
<1>6. /\ Unsent' = Unsent /\ Coming' = Coming /\ Handed' = Handed /\ Due' = Due
  BY <1>2, <1>3, <1>5 DEF Unsent, Coming, Due, Handed
<1>7. listener.block # <<>> => /\ listener'.lastId = feed.cursor /\ feed.cursor \in InBlock(listener)
                               /\ feed.cursor # NoCursor
  BY <1>1, <1>2, <1>4, LastInBlock, LaterIsAnOrder DEF BlockBefore, FeedType
<1>8. FeedType'
  BY <1>1, <1>2, <1>3, <1>4, <1>5 DEF FeedType, Handed
<1>9. FeedShape' /\ BlockBefore'
  BY <1>2, <1>3, <1>4 DEF FeedShape, BlockBefore
<1>10. SentBefore'
  <2>1. \A m \in Handed : ~Later(m, feed.cursor)
    BY <1>1, <1>2 DEF SentBefore
  <2>2. CASE listener.block = <<>>
    BY <1>1, <1>2, <1>3, <1>4, <1>5, <2>2 DEF SentBefore, Handed
  <2>3. CASE listener.block # <<>>
    BY <1>2, <1>3, <1>7, <2>1, <2>3 DEF SentBefore, Handed
  <2>. QED  BY <2>2, <2>3
<1>11. InOrder'
  <2>1. inbox \ (Handed \cup late) = Unsent \ late
    BY DEF Unsent, Handed
  <2>2. inbox \ (Handed \cup late) \subseteq inbox \ (sent \cup late)
    BY DEF Handed
  <2>. QED  BY <1>1, <1>2, <1>3, <1>5, <1>6, <2>1, <2>2 DEF InOrder, Handed
<1>12. NoneOvertaken'
  BY <1>1, <1>2, <1>3, <1>6 DEF NoneOvertaken
<1>13. Fits'
  <2>1. IsFiniteSet(inbox \ sent) /\ inbox' \ sent' \subseteq inbox \ sent
    BY <1>1, <1>2, DueIsFinite DEF Handed
  <2>2. /\ Cardinality(inbox' \ sent') <= Cardinality(inbox \ sent)
        /\ Cardinality(inbox' \ sent') \in Nat /\ Cardinality(inbox \ sent) \in Nat
    BY <2>1, Smaller
  <2>3. listener'.lastId = NoCursor => listener.lastId = NoCursor
    BY <1>4, <1>7
  <2>4. Cardinality(inbox' \ sent') + Coming
          <= IF listener'.lastId = NoCursor THEN NoticeBatch ELSE NoticeReplay
    BY <1>1, <2>2, <2>3, ComingIsNat, NoticeAssumption DEF Fits
  <2>. QED  BY <1>1, <1>2, <1>6, <2>4 DEF Fits
<1>. QED  BY <1>8, <1>9, <1>10, <1>11, <1>12, <1>13 DEF FeedInv

LEMMA FeedDisconnectKeeps ==
  ASSUME FeedInv, FeedDisconnect
  PROVE  FeedInv'
<1>1. FeedType /\ SentBefore /\ InOrder /\ Fits
  BY DEF FeedInv
<1>2. UNCHANGED <<clock, written, inbox, late, sent>> /\ feed' = FeedClosed
  BY DEF FeedDisconnect
<1>3. /\ listener' \in Listeners /\ listener'.block = <<>> /\ listener'.lastId = listener.lastId
  <2>1. listener' = [listener EXCEPT !.block = <<>>] /\ listener \in Listeners
    BY <1>1 DEF FeedDisconnect, Cut, FeedType
  <2>2. listener' = [lastId |-> listener.lastId, block |-> <<>>]
    BY <2>1 DEF Listeners
  <2>3. listener.lastId \in Notes \cup {NoCursor}
    BY <2>1 DEF Listeners
  <2>4. <<>> \in Seq(Notes)
    OBVIOUS
  <2>5. [lastId |-> listener.lastId, block |-> <<>>] \in Listeners
    BY <2>3, <2>4 DEF Listeners
  <2>. QED  BY <2>2, <2>5
<1>4. /\ InBlock(listener') = {} /\ Unsent' = inbox \ sent /\ Coming' = Coming
  BY <1>2, <1>3, EmptyBlock DEF Unsent, Coming
<1>5. /\ feed' \in Feeds /\ feed'.pc = "closed" /\ feed'.todo = {} /\ feed'.cursor = NoCursor
  BY <1>2 DEF FeedClosed, Feeds
<1>6. FeedType' /\ FeedShape' /\ BlockBefore' /\ SentBefore'
  BY <1>1, <1>2, <1>3, <1>4, <1>5 DEF FeedType, FeedShape, BlockBefore, SentBefore
<1>7. InOrder' /\ NoneOvertaken' /\ Fits'
  BY <1>1, <1>2, <1>3, <1>4, <1>5 DEF InOrder, NoneOvertaken, Fits
<1>. QED  BY <1>6, <1>7 DEF FeedInv

LEMMA FeedStarts == FeedInit => FeedInv
<1>1. SUFFICES ASSUME FeedInit PROVE FeedInv
  OBVIOUS
<1>2. /\ listener = [lastId |-> NoCursor, block |-> <<>>] /\ InBlock(listener) = {}
      /\ feed = [pc |-> "closed", cursor |-> NoCursor, todo |-> {}, replayed |-> 0]
      /\ Unsent = {} /\ inbox \ sent = {} /\ inbox = {} /\ sent = {} /\ late = {}
  BY <1>1, EmptyBlock DEF FeedInit, NewSource, FeedClosed, Unsent
<1>3. FeedType
  BY <1>1, <1>2, FS_EmptySet, NoticeAssumption
     DEF FeedInit, FeedType, Feeds, Listeners, NoTransaction
<1>4. FeedShape /\ BlockBefore /\ SentBefore /\ InOrder /\ NoneOvertaken
  BY <1>1, <1>2 DEF FeedInit, FeedShape, BlockBefore, SentBefore, InOrder, NoneOvertaken
<1>5. Coming = 0
  <2>1. \A w \in Writers : written[w].size = 0
    BY <1>1 DEF FeedInit, NoTransaction
  <2>2. UNION {{w} \X (1..written[w].size) : w \in Writers} = {}
    BY <2>1
  <2>. QED  BY <2>2, FS_EmptySet DEF Coming
<1>6. Fits
  BY <1>2, <1>5, FS_EmptySet, NoticeAssumption DEF Fits
<1>. QED  BY <1>3, <1>4, <1>6 DEF FeedInv

-----------------------------------------------------------------------------
(* The capability gaps: the inductive invariant.                           *)

Calls == [pc : {"none", "begun", "looked", "counted"}, operation : Operations \cup {NoGap},
          found : Nat, count : Nat, reopened : BOOLEAN]

Holding(w) == calls[w].pc \in {"looked", "counted"}

\* A call holds the row it found, or the place of the row it will insert.
RowsHeld ==
  \A w \in Writers :
    /\ calls[w].pc # "none" => calls[w].operation \in Operations
    /\ Holding(w) /\ calls[w].found # 0 =>
         /\ gaps[calls[w].found].operation = calls[w].operation
         /\ gaps[calls[w].found].unresolved /\ gaps[calls[w].found].count = calls[w].count
    /\ calls[w].pc = "counted" /\ calls[w].found = 0 => Unresolved(calls[w].operation) = {}

\* The advisory lock.
OneCallPerKey ==
  \A v, w \in Writers : v # w /\ Holding(v) /\ Holding(w) => calls[v].operation # calls[w].operation

\* OneUnresolved, of the rows themselves.
NoTwoUnresolved == \A o \in Operations : \A i, j \in Unresolved(o) : i = j

GapsInv == /\ NoticesTypeOK /\ RowsHeld /\ OneCallPerKey /\ NoTwoUnresolved
           /\ OnlyReopeningRefuses /\ CountsAddUp

CountOf == [i \in DOMAIN gaps |-> gaps[i].count]

LEMMA CountsAreCells ==
  /\ CountsAddUp <=> \A o \in Operations : recorded[o] = Cardinality(Cells(CountOf, RowsOf(o)))
  /\ CountsAddUp' <=> \A o \in Operations : recorded'[o] = Cardinality(Cells(CountOf', RowsOf(o)'))
<1>1. \A o : {{i} \X (1..gaps[i].count) : i \in RowsOf(o)} = {{i} \X (1..CountOf[i]) : i \in RowsOf(o)}
  BY DEF CountOf, RowsOf
<1>2. \A o : {{i} \X (1..gaps'[i].count) : i \in RowsOf(o)'} = {{i} \X (1..CountOf'[i]) : i \in RowsOf(o)'}
  BY DEF CountOf, RowsOf
<1>. QED  BY <1>1, <1>2 DEF CountsAddUp, Cells

\* The rows of the table.
LEMMA GapRows ==
  ASSUME NoticesTypeOK
  PROVE  /\ DOMAIN gaps = 1..Len(gaps) /\ Len(gaps) \in Nat
         /\ \A i \in DOMAIN gaps : gaps[i] \in CapabilityGaps /\ i # 0
         /\ \A o : RowsOf(o) \subseteq DOMAIN gaps /\ IsFiniteSet(RowsOf(o))
         /\ \A o : Unresolved(o) = {i \in RowsOf(o) : gaps[i].unresolved}
         /\ \A i \in DOMAIN gaps : CountOf[i] = gaps[i].count /\ CountOf[i] \in Nat
<1>1. DOMAIN gaps = 1..Len(gaps) /\ Len(gaps) \in Nat /\ \A i \in DOMAIN gaps : gaps[i] \in CapabilityGaps
  BY DEF NoticesTypeOK
<1>2. \A i \in DOMAIN gaps : i # 0
  BY <1>1
<1>3. IsFiniteSet(1..Len(gaps))
  BY <1>1, FS_Interval
<1>4. \A o : RowsOf(o) \subseteq DOMAIN gaps
  BY DEF RowsOf
<1>5. \A o : IsFiniteSet(RowsOf(o))
  BY <1>1, <1>3, <1>4, FS_Subset
<1>6. \A o : Unresolved(o) = {i \in RowsOf(o) : gaps[i].unresolved}
  BY DEF Unresolved, RowsOf
<1>7. \A i \in DOMAIN gaps : CountOf[i] = gaps[i].count /\ CountOf[i] \in Nat
  BY <1>1 DEF CountOf, CapabilityGaps
<1>. QED  BY <1>1, <1>2, <1>4, <1>5, <1>6, <1>7

LEMMA CallTypes ==
  ASSUME NoticesTypeOK
  PROVE  /\ calls \in [Writers -> Calls]
         /\ \A w \in Writers : calls[w].found \in 0..Len(gaps)
                               /\ (calls[w].found # 0 => calls[w].found \in DOMAIN gaps)
<1>1. Len(gaps) \in Nat /\ DOMAIN gaps = 1..Len(gaps)
  BY GapRows
<1>. QED  BY <1>1 DEF NoticesTypeOK, Calls

\* A call takes a step that changes no row.
LEMMA CallMoves ==
  ASSUME GapsInv, UNCHANGED <<gaps, recorded, changes>>, NEW w \in Writers, NEW c \in Calls,
         calls' = [calls EXCEPT ![w] = c], c.found \in 0..Len(gaps),
         c.pc # "none" => c.operation \in Operations,
         c.pc \in {"looked", "counted"} /\ c.found # 0 =>
           /\ gaps[c.found].operation = c.operation
           /\ gaps[c.found].unresolved /\ gaps[c.found].count = c.count,
         c.pc = "counted" /\ c.found = 0 => Unresolved(c.operation) = {},
         c.pc \in {"looked", "counted"} =>
           \A v \in Writers \ {w} : Holding(v) => calls[v].operation # c.operation,
         c.pc = "looked" /\ c.found = 0 /\ Unresolved(c.operation) # {} => c.reopened
  PROVE  GapsInv'
<1>1. /\ NoticesTypeOK /\ RowsHeld /\ OneCallPerKey /\ NoTwoUnresolved
      /\ OnlyReopeningRefuses /\ CountsAddUp
  BY DEF GapsInv
<1>2. calls \in [Writers -> Calls] /\ \A v \in Writers : calls[v].found \in 0..Len(gaps)
  BY <1>1, CallTypes
<1>3. calls'[w] = c /\ \A v \in Writers \ {w} : calls'[v] = calls[v]
  BY <1>2
<1>4. \A o : Unresolved(o)' = Unresolved(o) /\ RowsOf(o)' = RowsOf(o)
  BY DEF Unresolved, RowsOf
<1>5. NoticesTypeOK'
  <2>1. calls' \in [Writers -> [pc : {"none", "begun", "looked", "counted"},
                      operation : Operations \cup {NoGap}, found : 0..Len(gaps),
                      count : Nat, reopened : BOOLEAN]]
    BY <1>1, <1>2, <1>3 DEF NoticesTypeOK, Calls
  <2>. QED  BY <1>1, <2>1 DEF NoticesTypeOK
<1>6. RowsHeld'
  BY <1>1, <1>3, <1>4 DEF RowsHeld, Holding
<1>7. OneCallPerKey'
  BY <1>1, <1>3 DEF OneCallPerKey, Holding
<1>8. OnlyReopeningRefuses' /\ NoTwoUnresolved'
  BY <1>1, <1>3, <1>4 DEF OnlyReopeningRefuses, NoTwoUnresolved
<1>9. CountsAddUp'
  BY <1>1 DEF CountsAddUp, RowsOf
<1>. QED  BY <1>5, <1>6, <1>7, <1>8, <1>9 DEF GapsInv

LEMMA NotifyStep ==
  ASSUME GapsInv, NEW w \in Writers, Notify(w)
  PROVE  GapsInv'
<1>1. PICK kind \in Kinds, o \in Operations :
         calls' = IF kind = "gap" THEN [calls EXCEPT ![w] = Begun(o)] ELSE calls
  BY DEF Notify
<1>2. UNCHANGED <<gaps, recorded, changes>> /\ NoticesTypeOK
  BY DEF Notify, GapsInv
<1>3. CASE calls' = calls
  <2>1. \A o2 : Unresolved(o2)' = Unresolved(o2) /\ RowsOf(o2)' = RowsOf(o2)
    BY <1>2 DEF Unresolved, RowsOf
  <2>2. RowsHeld' /\ OneCallPerKey'
    BY <1>2, <1>3, <2>1 DEF GapsInv, RowsHeld, Holding, OneCallPerKey
  <2>3. NoTwoUnresolved' /\ OnlyReopeningRefuses'
    BY <1>2, <1>3, <2>1 DEF GapsInv, NoTwoUnresolved, OnlyReopeningRefuses
  <2>4. NoticesTypeOK'
    BY <1>2, <1>3 DEF NoticesTypeOK
  <2>5. CountsAddUp'
    BY <1>2, <2>1 DEF GapsInv, CountsAddUp
  <2>. QED  BY <2>2, <2>3, <2>4, <2>5 DEF GapsInv
<1>4. CASE calls' # calls
  <2>1. PICK c : c = [pc |-> "begun", operation |-> o, found |-> 0, count |-> 0, reopened |-> FALSE]
    OBVIOUS
  <2>2. calls' = [calls EXCEPT ![w] = c]
    BY <1>1, <1>4, <2>1 DEF Begun
  <2>5. c \in Calls
    BY <2>1 DEF Calls
  <2>3. c.found \in 0..Len(gaps)
    BY <1>2, <2>1, GapRows
  <2>4. c.pc = "begun" /\ c.operation \in Operations
    BY <2>1
  <2>. QED  BY <1>2, <2>2, <2>3, <2>4, <2>5, CallMoves
<1>. QED  BY <1>3, <1>4

\* The call looks for an unresolved gap, and copies what it finds.
LEMMA LookedUp ==
  ASSUME NEW r \in Calls, NEW i \in Nat, NEW n \in Nat
  PROVE  [r EXCEPT !.pc = "looked", !.found = i, !.count = n] =
           [pc |-> "looked", operation |-> r.operation, found |-> i, count |-> n,
            reopened |-> r.reopened]
<1>1. PICK e : e = [r EXCEPT !.pc = "looked", !.found = i, !.count = n]
  OBVIOUS
<1>2. e \in Calls
  BY <1>1 DEF Calls
<1>3. /\ e.pc = "looked" /\ e.operation = r.operation /\ e.found = i /\ e.count = n
      /\ e.reopened = r.reopened
  BY <1>1 DEF Calls
<1>4. e = [pc |-> e.pc, operation |-> e.operation, found |-> e.found, count |-> e.count,
           reopened |-> e.reopened]
  BY <1>2 DEF Calls
<1>. QED  BY <1>1, <1>3, <1>4

LEMMA LookStep ==
  ASSUME GapsInv, NEW w \in Writers, Look(w)
  PROVE  GapsInv'
<1>1. NoticesTypeOK /\ RowsHeld /\ UNCHANGED <<gaps, recorded, changes>> /\ calls[w].pc = "begun" /\ KeyFree(w)
  BY DEF Look, GapsInv
<1>2. PICK o \in Operations : o = calls[w].operation
  BY <1>1 DEF RowsHeld
<1>3. PICK i : i = IF Unresolved(calls[w].operation) = {} THEN 0
                   ELSE CHOOSE j \in Unresolved(calls[w].operation) : TRUE
  OBVIOUS
<1>4. PICK n : n = IF i = 0 THEN 0 ELSE gaps[i].count
  OBVIOUS
<1>5. i # 0 => i \in Unresolved(o)
  BY <1>2, <1>3
<1>6. i = 0 => Unresolved(o) = {}
  BY <1>1, <1>2, <1>3, GapRows DEF Unresolved
<1>7. i \in 0..Len(gaps) /\ n \in Nat
  <2>1. CASE i = 0
    BY <1>1, <1>4, <2>1, GapRows
  <2>2. CASE i # 0
    <3>1. i \in DOMAIN gaps
      BY <1>5, <2>2 DEF Unresolved
    <3>. QED  BY <1>1, <1>4, <2>2, <3>1, GapRows DEF CapabilityGaps
  <2>. QED  BY <2>1, <2>2
<1>8. calls \in [Writers -> Calls]
  BY <1>1, CallTypes
<1>9. PICK c : c = [pc |-> "looked", operation |-> calls[w].operation, found |-> i, count |-> n,
                    reopened |-> calls[w].reopened]
  OBVIOUS
<1>14. calls[w] \in Calls
  BY <1>8
<1>10. calls' = [calls EXCEPT ![w] = c]
  <2>1. calls' = [calls EXCEPT ![w].pc = "looked", ![w].found = i, ![w].count = n]
    BY <1>3, <1>4, Zenon DEF Look
  <2>4. calls'[w] = [calls[w] EXCEPT !.pc = "looked", !.found = i, !.count = n]
    BY <1>8, <2>1
  <2>5. [calls[w] EXCEPT !.pc = "looked", !.found = i, !.count = n] = c
    <3>1. i \in Nat /\ n \in Nat
      BY <1>1, <1>7, GapRows
    <3>. QED  BY <1>9, <1>14, <3>1, LookedUp
  <2>2. \A v \in Writers : calls'[v] = [calls EXCEPT ![w] = c][v]
    BY <1>8, <2>1, <2>4, <2>5
  <2>3. DOMAIN calls' = Writers /\ calls' = [v \in Writers |-> calls'[v]]
    BY <1>8, <2>1
  <2>. QED  BY <1>8, <2>2, <2>3
<1>11. /\ c \in Calls /\ c.found = i /\ c.count = n /\ c.operation = o /\ c.pc = "looked"
  <2>1. calls[w].reopened \in BOOLEAN /\ n \in Nat /\ i \in Nat
    BY <1>1, <1>7, <1>14, GapRows DEF Calls
  <2>2. c.found = i /\ c.count = n /\ c.operation = o /\ c.pc = "looked"
    BY <1>2, <1>9
  <2>3. c \in Calls
    BY <1>2, <1>9, <2>1 DEF Calls
  <2>. QED  BY <2>2, <2>3
<1>12. i # 0 => gaps[i].operation = o /\ gaps[i].unresolved /\ gaps[i].count = n
  BY <1>4, <1>5 DEF Unresolved
<1>13. \A v \in Writers \ {w} : Holding(v) => calls[v].operation # o
  BY <1>1, <1>2 DEF KeyFree, Holding
<1>. QED  BY <1>1, <1>6, <1>7, <1>10, <1>11, <1>12, <1>13, CallMoves

LEMMA CountStep ==
  ASSUME GapsInv, NEW w \in Writers, Count(w)
  PROVE  GapsInv'
<1>1. /\ NoticesTypeOK /\ RowsHeld /\ OneCallPerKey /\ UNCHANGED <<gaps, recorded, changes>>
      /\ calls[w].pc = "looked" /\ (calls[w].found # 0 \/ Unresolved(calls[w].operation) = {})
  BY DEF Count, GapsInv
<1>2. calls \in [Writers -> Calls] /\ calls[w].found \in 0..Len(gaps)
  BY <1>1, CallTypes
<1>3. PICK c : c = [calls[w] EXCEPT !.pc = "counted"]
  OBVIOUS
<1>4. calls' = [calls EXCEPT ![w] = c]
  BY <1>2, <1>3 DEF Count
<1>5. /\ c \in Calls /\ c.found = calls[w].found /\ c.count = calls[w].count
      /\ c.operation = calls[w].operation /\ c.pc = "counted"
  BY <1>2, <1>3 DEF Calls
<1>6. \A v \in Writers \ {w} : Holding(v) => calls[v].operation # c.operation
  BY <1>1, <1>5 DEF OneCallPerKey, Holding
<1>. QED  BY <1>1, <1>2, <1>4, <1>5, <1>6, CallMoves DEF RowsHeld, Holding

LEMMA CallEnds ==
  ASSUME GapsInv, UNCHANGED <<gaps, recorded, changes>>, NEW w \in Writers,
         calls' = [calls EXCEPT ![w] = NoCall]
  PROVE  GapsInv'
<1>1. NoCall \in Calls /\ NoCall.pc = "none" /\ NoCall.found = 0
  BY DEF NoCall, Calls
<1>2. 0 \in 0..Len(gaps)
  BY GapRows DEF GapsInv
<1>. QED  BY <1>1, <1>2, CallMoves

\* The places of the rows: an update keeps them, and an operation's count is
\* what changes with the one row it changes.
LEMMA RowCounted ==
  ASSUME NoticesTypeOK, NEW i \in DOMAIN gaps, NEW k \in Nat,
         gaps' = [gaps EXCEPT ![i].count = k]
  PROVE  /\ DOMAIN gaps' = DOMAIN gaps /\ Len(gaps') = Len(gaps)
         /\ \A j \in DOMAIN gaps : gaps'[j].operation = gaps[j].operation
                                   /\ gaps'[j].unresolved = gaps[j].unresolved
         /\ gaps'[i].count = k /\ \A j \in (DOMAIN gaps) \ {i} : gaps'[j] = gaps[j]
         /\ \A o : RowsOf(o)' = RowsOf(o) /\ Unresolved(o)' = Unresolved(o)
<1>1. gaps \in Seq(CapabilityGaps)
  BY DEF NoticesTypeOK
<1>2. gaps[i] \in CapabilityGaps
  BY GapRows
<1>3. DOMAIN gaps' = DOMAIN gaps /\ \A j \in (DOMAIN gaps) \ {i} : gaps'[j] = gaps[j]
  OBVIOUS
<1>4. gaps'[i] = [gaps[i] EXCEPT !.count = k]
  OBVIOUS
<1>5. /\ gaps'[i].operation = gaps[i].operation /\ gaps'[i].unresolved = gaps[i].unresolved
      /\ gaps'[i].count = k
  BY <1>2, <1>4 DEF CapabilityGaps
<1>6. Len(gaps') = Len(gaps)
  BY <1>1, <1>3
<1>7. \A o : RowsOf(o)' = RowsOf(o)
  BY <1>3, <1>5 DEF RowsOf
<1>8. \A o : Unresolved(o)' = Unresolved(o)
  BY <1>3, <1>5 DEF Unresolved
<1>. QED  BY <1>3, <1>5, <1>6, <1>7, <1>8

\* A row is inserted.
LEMMA RowInserted ==
  ASSUME NoticesTypeOK, NEW o \in Operations,
         gaps' = Append(gaps, [operation |-> o, unresolved |-> TRUE, count |-> 1])
  PROVE  /\ gaps' \in Seq(CapabilityGaps) /\ Len(gaps') = Len(gaps) + 1
         /\ DOMAIN gaps' = DOMAIN gaps \cup {Len(gaps) + 1} /\ Len(gaps) + 1 \notin DOMAIN gaps
         /\ \A j \in DOMAIN gaps : gaps'[j] = gaps[j]
         /\ gaps'[Len(gaps) + 1] = [operation |-> o, unresolved |-> TRUE, count |-> 1]
         /\ \A p : p # o => RowsOf(p)' = RowsOf(p) /\ Unresolved(p)' = Unresolved(p)
         /\ RowsOf(o)' = RowsOf(o) \cup {Len(gaps) + 1}
         /\ Unresolved(o)' = Unresolved(o) \cup {Len(gaps) + 1}
<1>1. gaps \in Seq(CapabilityGaps) /\ DOMAIN gaps = 1..Len(gaps) /\ Len(gaps) \in Nat
  BY GapRows DEF NoticesTypeOK
<1>2. PICK r : r = [operation |-> o, unresolved |-> TRUE, count |-> 1]
  OBVIOUS
<1>3. r \in CapabilityGaps /\ r.operation = o /\ r.unresolved
  BY <1>2 DEF CapabilityGaps
<1>4. gaps' = Append(gaps, r)
  BY <1>2
<1>5. /\ gaps' \in Seq(CapabilityGaps) /\ Len(gaps') = Len(gaps) + 1
      /\ \A j \in 1..Len(gaps) : gaps'[j] = gaps[j]
      /\ gaps'[Len(gaps) + 1] = r
  BY <1>1, <1>3, <1>4, AppendProperties
<1>6. DOMAIN gaps' = 1..(Len(gaps) + 1)
  BY <1>5
<1>7. DOMAIN gaps' = DOMAIN gaps \cup {Len(gaps) + 1} /\ Len(gaps) + 1 \notin DOMAIN gaps
  BY <1>1, <1>6
<1>8. \A p : p # o => RowsOf(p)' = RowsOf(p)
  BY <1>1, <1>3, <1>5, <1>7 DEF RowsOf
<1>9. \A p : p # o => Unresolved(p)' = Unresolved(p)
  BY <1>1, <1>3, <1>5, <1>7 DEF Unresolved
<1>10. RowsOf(o)' = RowsOf(o) \cup {Len(gaps) + 1}
  BY <1>1, <1>3, <1>5, <1>7 DEF RowsOf
<1>11. Unresolved(o)' = Unresolved(o) \cup {Len(gaps) + 1}
  BY <1>1, <1>3, <1>5, <1>7 DEF Unresolved
<1>. QED  BY <1>1, <1>2, <1>5, <1>7, <1>8, <1>9, <1>10, <1>11

\* A record() is committed: the row it found counts one more, or a new row one.
LEMMA CountCommitted ==
  ASSUME GapsInv, NEW w \in Writers, calls[w].pc = "counted",
         gaps' = Counted(calls[w]),
         recorded' = [recorded EXCEPT ![calls[w].operation] = @ + 1],
         calls' = [calls EXCEPT ![w] = NoCall], UNCHANGED changes
  PROVE  GapsInv'
<1>1. /\ NoticesTypeOK /\ RowsHeld /\ OneCallPerKey /\ NoTwoUnresolved
      /\ OnlyReopeningRefuses /\ CountsAddUp
  BY DEF GapsInv
<1>2. PICK o \in Operations : o = calls[w].operation
  BY <1>1 DEF RowsHeld
<1>3. /\ calls \in [Writers -> Calls] /\ calls[w].found \in 0..Len(gaps)
      /\ \A v \in Writers : calls[v].found # 0 => calls[v].found \in DOMAIN gaps
  BY <1>1, CallTypes
<1>4. /\ calls'[w] = NoCall /\ NoCall.pc = "none"
      /\ \A v \in Writers \ {w} : calls'[v] = calls[v]
  BY <1>3 DEF NoCall
<1>5. \A v \in Writers : Holding(v)' => v # w /\ Holding(v) /\ calls[v].operation # o
  BY <1>1, <1>2, <1>4 DEF Holding, OneCallPerKey
<1>6. /\ recorded'[o] = recorded[o] + 1 /\ recorded' \in [Operations -> Nat]
      /\ \A p \in Operations \ {o} : recorded'[p] = recorded[p]
  BY <1>1, <1>2 DEF NoticesTypeOK
<1>7. OneCallPerKey'
  BY <1>1, <1>4, <1>5 DEF OneCallPerKey, Holding
<1>8. \A v \in Writers : calls'[v].pc # "none" => v # w /\ calls'[v] = calls[v]
  BY <1>4
<1>9. CASE calls[w].found = 0
  <2>1. PICK n : n = Len(gaps) + 1
    OBVIOUS
  <2>2. gaps' = Append(gaps, [operation |-> o, unresolved |-> TRUE, count |-> 1])
    BY <1>2, <1>9 DEF Counted
  <2>3. /\ gaps' \in Seq(CapabilityGaps) /\ Len(gaps') = n
        /\ DOMAIN gaps' = DOMAIN gaps \cup {n} /\ n \notin DOMAIN gaps
        /\ \A j \in DOMAIN gaps : gaps'[j] = gaps[j]
        /\ gaps'[n] = [operation |-> o, unresolved |-> TRUE, count |-> 1]
    BY <1>1, <2>1, <2>2, RowInserted
  <2>4. /\ \A p : p # o => RowsOf(p)' = RowsOf(p) /\ Unresolved(p)' = Unresolved(p)
        /\ RowsOf(o)' = RowsOf(o) \cup {n} /\ Unresolved(o)' = Unresolved(o) \cup {n}
    BY <1>1, <2>1, <2>2, RowInserted
  <2>5. Unresolved(o) = {}
    BY <1>1, <1>2, <1>9 DEF RowsHeld
  <2>6. Len(gaps) \in Nat
    BY <1>1, GapRows
  <2>7. NoticesTypeOK'
    <3>1. \A v \in Writers : calls'[v] \in [pc : {"none", "begun", "looked", "counted"},
                   operation : Operations \cup {NoGap}, found : 0..n, count : Nat, reopened : BOOLEAN]
      <4>1. \A v \in Writers : calls[v] \in [pc : {"none", "begun", "looked", "counted"},
                     operation : Operations \cup {NoGap}, found : 0..Len(gaps),
                     count : Nat, reopened : BOOLEAN]
        BY <1>1 DEF NoticesTypeOK
      <4>2. 0..Len(gaps) \subseteq 0..n /\ 0 \in 0..n
        BY <2>1, <2>6
      <4>3. NoCall \in [pc : {"none", "begun", "looked", "counted"},
                   operation : Operations \cup {NoGap}, found : 0..n, count : Nat, reopened : BOOLEAN]
        BY <4>2 DEF NoCall
      <4>. QED  BY <1>4, <4>1, <4>2, <4>3
    <3>2. calls' \in [Writers -> [pc : {"none", "begun", "looked", "counted"},
                   operation : Operations \cup {NoGap}, found : 0..n, count : Nat, reopened : BOOLEAN]]
      BY <1>3, <3>1
    <3>. QED  BY <1>1, <1>6, <2>3, <3>2 DEF NoticesTypeOK
  <2>8. RowsHeld'
    <3>1. SUFFICES ASSUME NEW v \in Writers, calls'[v].pc # "none"
                   PROVE  /\ calls'[v].operation \in Operations
                          /\ Holding(v)' /\ calls'[v].found # 0 =>
                               /\ gaps'[calls'[v].found].operation = calls'[v].operation
                               /\ gaps'[calls'[v].found].unresolved
                               /\ gaps'[calls'[v].found].count = calls'[v].count
                          /\ calls'[v].pc = "counted" /\ calls'[v].found = 0 =>
                               Unresolved(calls[v].operation)' = {}
      BY <1>8 DEF RowsHeld, Holding
    <3>2. calls'[v] = calls[v] /\ (Holding(v)' <=> Holding(v))
      BY <1>8, <3>1 DEF Holding
    <3>3. calls[v].operation \in Operations
      BY <1>1, <3>1, <3>2 DEF RowsHeld
    <3>4. ASSUME Holding(v), calls[v].found # 0
          PROVE  /\ gaps'[calls[v].found].operation = calls[v].operation
                 /\ gaps'[calls[v].found].unresolved /\ gaps'[calls[v].found].count = calls[v].count
      <4>1. PICK j \in DOMAIN gaps : j = calls[v].found
        BY <1>3, <3>4
      <4>2. gaps'[j] = gaps[j]
        BY <2>3
      <4>. QED  BY <1>1, <3>4, <4>1, <4>2 DEF RowsHeld
    <3>5. ASSUME calls[v].pc = "counted", calls[v].found = 0
          PROVE  Unresolved(calls[v].operation)' = {}
      <4>1. Unresolved(calls[v].operation) = {} /\ Holding(v)'
        BY <1>1, <3>2, <3>5 DEF RowsHeld, Holding
      <4>. QED  BY <1>5, <2>4, <4>1
    <3>. QED  BY <3>2, <3>3, <3>4, <3>5
  <2>9. NoTwoUnresolved'
    BY <1>1, <2>4, <2>5 DEF NoTwoUnresolved
  <2>10. OnlyReopeningRefuses'
    BY <1>1, <1>5, <1>8, <2>4 DEF OnlyReopeningRefuses, Holding
  <2>11. CountsAddUp'
    <3>1. \A j \in DOMAIN gaps : CountOf'[j] = CountOf[j]
      BY <2>3 DEF CountOf
    <3>2. CountOf'[n] = 1
      BY <2>3 DEF CountOf
    <3>3. \A p : Cells(CountOf', RowsOf(p)) = Cells(CountOf, RowsOf(p))
      BY <1>1, <3>1, GapRows DEF Cells
    <3>4. \A p \in Operations : recorded[p] = Cardinality(Cells(CountOf, RowsOf(p)))
      BY <1>1, CountsAreCells
    <3>5. \A p \in Operations \ {o} : recorded'[p] = Cardinality(Cells(CountOf', RowsOf(p)'))
      BY <1>6, <2>4, <3>3, <3>4
    <3>6. recorded'[o] = Cardinality(Cells(CountOf', RowsOf(o)'))
      <4>1. PICK S : S = RowsOf(o) \cup {n}
        OBVIOUS
      <4>2. RowsOf(o) \subseteq DOMAIN gaps /\ IsFiniteSet(RowsOf(o))
        BY <1>1, GapRows
      <4>3. IsFiniteSet(S) /\ n \in S /\ S \ {n} = RowsOf(o)
        BY <2>3, <4>1, <4>2, FS_AddElement
      <4>4. \A x \in S : CountOf'[x] \in Nat
        BY <1>1, <3>1, <3>2, <4>1, <4>2, GapRows
      <4>5. PICK f : f = CountOf'
        OBVIOUS
      <4>6. Cardinality(Cells(f, S)) = Cardinality(Cells(f, S \ {n})) + f[n]
        BY <4>3, <4>4, <4>5, CellsOfOne
      <4>7. Cells(f, S \ {n}) = Cells(CountOf, RowsOf(o)) /\ f[n] = 1
        BY <3>2, <3>3, <4>3, <4>5
      <4>8. recorded[o] = Cardinality(Cells(CountOf, RowsOf(o)))
        BY <3>4
      <4>9. RowsOf(o)' = S
        BY <2>4, <4>1
      <4>. QED  BY <1>6, <4>5, <4>6, <4>7, <4>8, <4>9
    <3>. QED  BY <3>5, <3>6, CountsAreCells
  <2>. QED  BY <1>7, <2>7, <2>8, <2>9, <2>10, <2>11 DEF GapsInv
<1>10. CASE calls[w].found # 0
  <2>1. PICK i \in DOMAIN gaps : i = calls[w].found
    BY <1>3, <1>10
  <2>2. /\ gaps[i].operation = o /\ gaps[i].unresolved /\ gaps[i].count = calls[w].count
        /\ gaps[i].count \in Nat /\ gaps[i] \in CapabilityGaps
    BY <1>1, <1>2, <1>10, <2>1, GapRows DEF RowsHeld, Holding, CapabilityGaps
  <2>3. PICK k \in Nat : k = gaps[i].count + 1
    BY <2>2
  <2>4. gaps' = [gaps EXCEPT ![i].count = k]
    BY <1>10, <2>1, <2>2, <2>3 DEF Counted
  <2>5. /\ DOMAIN gaps' = DOMAIN gaps /\ Len(gaps') = Len(gaps)
        /\ \A j \in DOMAIN gaps : gaps'[j].operation = gaps[j].operation
                                  /\ gaps'[j].unresolved = gaps[j].unresolved
        /\ gaps'[i].count = k /\ \A j \in (DOMAIN gaps) \ {i} : gaps'[j] = gaps[j]
        /\ \A p : RowsOf(p)' = RowsOf(p) /\ Unresolved(p)' = Unresolved(p)
    BY <1>1, <2>4, RowCounted
  <2>6. NoticesTypeOK'
    <3>1. [gaps[i] EXCEPT !.count = k] \in CapabilityGaps
      BY <2>2, <2>3 DEF CapabilityGaps
    <3>2. gaps' = [gaps EXCEPT ![i] = [gaps[i] EXCEPT !.count = k]]
      BY <2>4
    <3>3. gaps' \in Seq(CapabilityGaps)
      BY <1>1, <3>1, <3>2, ExceptSeq DEF NoticesTypeOK
    <3>4. NoCall \in [pc : {"none", "begun", "looked", "counted"},
                   operation : Operations \cup {NoGap}, found : 0..Len(gaps), count : Nat, reopened : BOOLEAN]
      <4>1. 0 \in 0..Len(gaps)
        BY <1>1, GapRows
      <4>. QED  BY <4>1 DEF NoCall
    <3>5. calls' \in [Writers -> [pc : {"none", "begun", "looked", "counted"},
                   operation : Operations \cup {NoGap}, found : 0..Len(gaps), count : Nat, reopened : BOOLEAN]]
      BY <1>1, <3>4 DEF NoticesTypeOK
    <3>. QED  BY <1>1, <1>6, <2>5, <3>3, <3>5 DEF NoticesTypeOK
  <2>7. RowsHeld'
    <3>1. SUFFICES ASSUME NEW v \in Writers, calls'[v].pc # "none"
                   PROVE  /\ calls'[v].operation \in Operations
                          /\ Holding(v)' /\ calls'[v].found # 0 =>
                               /\ gaps'[calls'[v].found].operation = calls'[v].operation
                               /\ gaps'[calls'[v].found].unresolved
                               /\ gaps'[calls'[v].found].count = calls'[v].count
                          /\ calls'[v].pc = "counted" /\ calls'[v].found = 0 =>
                               Unresolved(calls[v].operation)' = {}
      BY <1>8 DEF RowsHeld, Holding
    <3>2. calls'[v] = calls[v] /\ (Holding(v)' <=> Holding(v))
      BY <1>8, <3>1 DEF Holding
    <3>3. calls[v].operation \in Operations
      BY <1>1, <3>1, <3>2 DEF RowsHeld
    <3>4. ASSUME Holding(v), calls[v].found # 0
          PROVE  /\ gaps'[calls[v].found].operation = calls[v].operation
                 /\ gaps'[calls[v].found].unresolved /\ gaps'[calls[v].found].count = calls[v].count
      <4>1. PICK j \in DOMAIN gaps : j = calls[v].found
        BY <1>3, <3>4
      <4>2. gaps[j].operation = calls[v].operation /\ gaps[j].unresolved /\ gaps[j].count = calls[v].count
        BY <1>1, <3>4, <4>1 DEF RowsHeld
      <4>3. calls[v].operation # o
        BY <1>5, <3>2, <3>4
      <4>4. j # i
        BY <2>2, <4>2, <4>3
      <4>5. gaps'[j] = gaps[j]
        BY <2>5, <4>4
      <4>. QED  BY <4>1, <4>2, <4>5
    <3>5. ASSUME calls[v].pc = "counted", calls[v].found = 0
          PROVE  Unresolved(calls[v].operation)' = {}
      <4>1. PICK p : p = calls[v].operation /\ Unresolved(p) = {}
        BY <1>1, <3>5 DEF RowsHeld
      <4>. QED  BY <2>5, <3>2, <4>1
    <3>. QED  BY <3>2, <3>3, <3>4, <3>5
  <2>8. NoTwoUnresolved'
    BY <1>1, <2>5 DEF NoTwoUnresolved
  <2>9. OnlyReopeningRefuses'
    BY <1>1, <1>8, <2>5 DEF OnlyReopeningRefuses
  <2>10. CountsAddUp'
    <3>1. \A p \in Operations : recorded[p] = Cardinality(Cells(CountOf, RowsOf(p)))
      BY <1>1, CountsAreCells
    <3>2. PICK f : f = CountOf
      OBVIOUS
    <3>3. PICK g : g = CountOf'
      OBVIOUS
    <3>4. /\ \A j \in (DOMAIN gaps) \ {i} : g[j] = f[j]
          /\ f[i] = gaps[i].count /\ g[i] = f[i] + 1
          /\ \A j \in DOMAIN gaps : f[j] \in Nat /\ g[j] \in Nat
      <4>1. \A j \in DOMAIN gaps : f[j] = gaps[j].count /\ f[j] \in Nat
        BY <1>1, <3>2, GapRows
      <4>2. \A j \in DOMAIN gaps : g[j] = gaps'[j].count
        BY <2>5, <3>3 DEF CountOf
      <4>. QED  BY <2>3, <2>5, <4>1, <4>2
    <3>5. \A p : RowsOf(p) \subseteq DOMAIN gaps /\ IsFiniteSet(RowsOf(p))
      BY <1>1, GapRows
    <3>6. \A p \in Operations \ {o} : recorded'[p] = Cardinality(Cells(g, RowsOf(p)'))
      <4>1. \A p \in Operations \ {o} : i \notin RowsOf(p)
        BY <2>2 DEF RowsOf
      <4>2. \A p \in Operations \ {o} : Cells(g, RowsOf(p)) = Cells(f, RowsOf(p))
        BY <3>4, <3>5, <4>1 DEF Cells
      <4>. QED  BY <1>6, <2>5, <3>1, <3>2, <4>2
    <3>7. recorded'[o] = Cardinality(Cells(g, RowsOf(o)'))
      <4>1. PICK S : S = RowsOf(o)
        OBVIOUS
      <4>2. i \in S /\ S \subseteq DOMAIN gaps /\ IsFiniteSet(S)
        BY <2>2, <3>5, <4>1 DEF RowsOf
      <4>3. Cardinality(Cells(g, S)) = Cardinality(Cells(f, S)) - f[i] + g[i]
        BY <3>4, <4>2, CellsChange
      <4>4. Cardinality(Cells(f, S)) \in Nat
        BY <3>4, <4>2, CellsFinite
      <4>5. f[i] \in Nat /\ g[i] = f[i] + 1
        BY <3>4
      <4>6. recorded[o] = Cardinality(Cells(f, S))
        BY <3>1, <3>2, <4>1
      <4>7. Cardinality(Cells(g, S)) = Cardinality(Cells(f, S)) + 1
        BY <4>3, <4>4, <4>5
      <4>. QED  BY <1>6, <2>5, <4>1, <4>6, <4>7
    <3>. QED  BY <3>3, <3>6, <3>7, CountsAreCells
  <2>. QED  BY <1>7, <2>6, <2>7, <2>8, <2>9, <2>10 DEF GapsInv
<1>. QED  BY <1>9, <1>10

\* An administrator closes or reopens a gap no call holds.
LEMMA RowSet ==
  ASSUME NoticesTypeOK, NEW i \in DOMAIN gaps, NEW b \in BOOLEAN,
         gaps' = [gaps EXCEPT ![i].unresolved = b]
  PROVE  /\ gaps' \in Seq(CapabilityGaps) /\ DOMAIN gaps' = DOMAIN gaps /\ Len(gaps') = Len(gaps)
         /\ \A j \in DOMAIN gaps : gaps'[j].operation = gaps[j].operation
                                   /\ gaps'[j].count = gaps[j].count
         /\ gaps'[i].unresolved = b /\ \A j \in (DOMAIN gaps) \ {i} : gaps'[j] = gaps[j]
         /\ \A o : RowsOf(o)' = RowsOf(o)
         /\ \A o : Unresolved(o)' = IF b /\ o = gaps[i].operation THEN Unresolved(o) \cup {i}
                                    ELSE Unresolved(o) \ {i}
<1>1. gaps \in Seq(CapabilityGaps) /\ gaps[i] \in CapabilityGaps /\ DOMAIN gaps = 1..Len(gaps)
  BY GapRows DEF NoticesTypeOK
<1>2. PICK r : r = [gaps[i] EXCEPT !.unresolved = b]
  OBVIOUS
<1>3. r \in CapabilityGaps /\ r.operation = gaps[i].operation /\ r.count = gaps[i].count /\ r.unresolved = b
  BY <1>1, <1>2 DEF CapabilityGaps
<1>4. gaps' = [gaps EXCEPT ![i] = r]
  BY <1>2
<1>5. gaps' \in Seq(CapabilityGaps) /\ Len(gaps') = Len(gaps)
  BY <1>1, <1>3, <1>4, ExceptSeq
<1>6. /\ DOMAIN gaps' = DOMAIN gaps /\ gaps'[i] = r
      /\ \A j \in (DOMAIN gaps) \ {i} : gaps'[j] = gaps[j]
  BY <1>4
<1>7. \A j \in DOMAIN gaps : gaps'[j].operation = gaps[j].operation /\ gaps'[j].count = gaps[j].count
  BY <1>3, <1>6
<1>8. \A o : RowsOf(o)' = RowsOf(o)
  BY <1>6, <1>7 DEF RowsOf
<1>9. ASSUME NEW o
      PROVE  Unresolved(o)' = IF b /\ o = gaps[i].operation THEN Unresolved(o) \cup {i}
                              ELSE Unresolved(o) \ {i}
  <2>1. CASE b /\ o = gaps[i].operation
    BY <1>3, <1>6, <1>7, <2>1 DEF Unresolved
  <2>2. CASE ~b
    BY <1>3, <1>6, <1>7, <2>2 DEF Unresolved
  <2>3. CASE o # gaps[i].operation
    BY <1>3, <1>6, <1>7, <2>3 DEF Unresolved
  <2>. QED  BY <2>1, <2>2, <2>3
<1>. QED  BY <1>3, <1>5, <1>6, <1>7, <1>8, <1>9

LEMMA CountsUntouched ==
  ASSUME NoticesTypeOK, CountsAddUp, UNCHANGED recorded, DOMAIN gaps' = DOMAIN gaps,
         \A j \in DOMAIN gaps : gaps'[j].operation = gaps[j].operation /\ gaps'[j].count = gaps[j].count
  PROVE  CountsAddUp'
<1>1. \A o : RowsOf(o)' = RowsOf(o)
  BY DEF RowsOf
<1>2. \A o : Cells(CountOf', RowsOf(o)) = Cells(CountOf, RowsOf(o))
  BY DEF Cells, CountOf, RowsOf
<1>3. \A o \in Operations : recorded[o] = Cardinality(Cells(CountOf, RowsOf(o)))
  BY CountsAreCells
<1>4. \A o \in Operations : recorded'[o] = Cardinality(Cells(CountOf', RowsOf(o)'))
  BY <1>1, <1>2, <1>3
<1>. QED  BY <1>4, CountsAreCells

\* No call holds the row: it found another, or inserts for another operation.
LEMMA FreeRowHeldByNone ==
  ASSUME NoticesTypeOK, RowsHeld, NEW i \in DOMAIN gaps, RowFree(i), NEW v \in Writers
  PROVE  /\ Holding(v) => calls[v].found # i
         /\ calls[v].pc = "counted" /\ calls[v].found = 0 => calls[v].operation # gaps[i].operation
BY DEF RowFree, Holding

LEMMA CloseGapStep ==
  ASSUME GapsInv, NEW i \in DOMAIN gaps, CloseGap(i)
  PROVE  GapsInv'
<1>1. /\ NoticesTypeOK /\ RowsHeld /\ OneCallPerKey /\ NoTwoUnresolved
      /\ OnlyReopeningRefuses /\ CountsAddUp
      /\ RowFree(i) /\ gaps' = [gaps EXCEPT ![i].unresolved = FALSE] /\ UNCHANGED <<calls, recorded>>
      /\ changes < MaxChanges /\ changes' = changes + 1
  BY DEF GapsInv, CloseGap
<1>2. /\ gaps' \in Seq(CapabilityGaps) /\ DOMAIN gaps' = DOMAIN gaps /\ Len(gaps') = Len(gaps)
      /\ \A j \in DOMAIN gaps : gaps'[j].operation = gaps[j].operation /\ gaps'[j].count = gaps[j].count
      /\ \A j \in (DOMAIN gaps) \ {i} : gaps'[j] = gaps[j]
      /\ \A o : Unresolved(o)' = Unresolved(o) \ {i}
  BY <1>1, RowSet
<1>3. NoticesTypeOK'
  <2>1. changes' \in 0..MaxChanges
    BY <1>1, ChangesAssumption DEF NoticesTypeOK
  <2>. QED  BY <1>1, <1>2, <2>1 DEF NoticesTypeOK
<1>4. RowsHeld'
  <2>1. SUFFICES ASSUME NEW v \in Writers, Holding(v), calls[v].found # 0
                 PROVE  /\ gaps'[calls[v].found].operation = calls[v].operation
                        /\ gaps'[calls[v].found].unresolved
                        /\ gaps'[calls[v].found].count = calls[v].count
    <3>1. \A p : Unresolved(p) = {} => Unresolved(p)' = {}
      BY <1>2
    <3>. QED  BY <1>1, <2>1, <3>1 DEF RowsHeld, Holding
  <2>2. PICK j \in DOMAIN gaps : j = calls[v].found
    BY <1>1, <2>1, CallTypes
  <2>3. j # i
    BY <1>1, <2>1, <2>2, FreeRowHeldByNone
  <2>4. gaps[j].operation = calls[v].operation /\ gaps[j].unresolved /\ gaps[j].count = calls[v].count
    BY <1>1, <2>1, <2>2 DEF RowsHeld
  <2>. QED  BY <1>2, <2>2, <2>3, <2>4
<1>5. OneCallPerKey'
  BY <1>1 DEF OneCallPerKey, Holding
<1>6. NoTwoUnresolved'
  BY <1>1, <1>2 DEF NoTwoUnresolved
<1>7. OnlyReopeningRefuses'
  BY <1>1, <1>2 DEF OnlyReopeningRefuses
<1>8. CountsAddUp'
  BY <1>1, <1>2, CountsUntouched
<1>. QED  BY <1>3, <1>4, <1>5, <1>6, <1>7, <1>8 DEF GapsInv

LEMMA ReopenGapStep ==
  ASSUME GapsInv, NEW i \in DOMAIN gaps, ReopenGap(i)
  PROVE  GapsInv'
<1>1. /\ NoticesTypeOK /\ RowsHeld /\ OneCallPerKey /\ NoTwoUnresolved
      /\ OnlyReopeningRefuses /\ CountsAddUp
      /\ RowFree(i) /\ gaps' = [gaps EXCEPT ![i].unresolved = TRUE] /\ UNCHANGED recorded
      /\ changes < MaxChanges /\ changes' = changes + 1
  BY DEF GapsInv, ReopenGap
<1>11. PICK q : q = gaps[i].operation /\ Unresolved(q) = {}
  BY DEF ReopenGap, MayReopen
<1>2. /\ gaps' \in Seq(CapabilityGaps) /\ DOMAIN gaps' = DOMAIN gaps /\ Len(gaps') = Len(gaps)
      /\ \A j \in DOMAIN gaps : gaps'[j].operation = gaps[j].operation /\ gaps'[j].count = gaps[j].count
      /\ \A j \in (DOMAIN gaps) \ {i} : gaps'[j] = gaps[j]
      /\ Unresolved(q)' = {i}
      /\ \A o : o # q => Unresolved(o)' = Unresolved(o) \ {i}
  <2>1. /\ gaps' \in Seq(CapabilityGaps) /\ DOMAIN gaps' = DOMAIN gaps /\ Len(gaps') = Len(gaps)
        /\ \A j \in DOMAIN gaps : gaps'[j].operation = gaps[j].operation /\ gaps'[j].count = gaps[j].count
        /\ \A j \in (DOMAIN gaps) \ {i} : gaps'[j] = gaps[j]
        /\ \A o : Unresolved(o)' = IF TRUE /\ o = gaps[i].operation THEN Unresolved(o) \cup {i}
                                   ELSE Unresolved(o) \ {i}
    BY <1>1, RowSet
  <2>. QED  BY <1>11, <2>1
<1>3. calls \in [Writers -> Calls]
  BY <1>1, CallTypes
<1>4. \A v \in Writers : /\ calls'[v].pc = calls[v].pc /\ calls'[v].operation = calls[v].operation
                         /\ calls'[v].found = calls[v].found /\ calls'[v].count = calls[v].count
                         /\ calls'[v].reopened = (calls[v].reopened \/
                              (calls[v].pc = "looked" /\ calls[v].operation = gaps[i].operation))
  <2>1. SUFFICES ASSUME NEW v \in Writers
                 PROVE  /\ calls'[v].pc = calls[v].pc /\ calls'[v].operation = calls[v].operation
                         /\ calls'[v].found = calls[v].found /\ calls'[v].count = calls[v].count
                         /\ calls'[v].reopened = (calls[v].reopened \/
                              (calls[v].pc = "looked" /\ calls[v].operation = gaps[i].operation))
    OBVIOUS
  <2>2. calls'[v] = [calls[v] EXCEPT !.reopened = @ \/
                              (calls[v].pc = "looked" /\ calls[v].operation = gaps[i].operation)]
    BY DEF ReopenGap
  <2>3. calls[v] \in Calls
    BY <1>3
  <2>. QED  BY <2>2, <2>3 DEF Calls
<1>5. NoticesTypeOK'
  <2>1. changes' \in 0..MaxChanges
    BY <1>1, ChangesAssumption DEF NoticesTypeOK
  <2>2. calls' \in [Writers -> [pc : {"none", "begun", "looked", "counted"},
                      operation : Operations \cup {NoGap}, found : 0..Len(gaps),
                      count : Nat, reopened : BOOLEAN]]
    <3>1. SUFFICES ASSUME NEW v \in Writers
                   PROVE  [calls[v] EXCEPT !.reopened = @ \/
                              (calls[v].pc = "looked" /\ calls[v].operation = gaps[i].operation)]
                          \in [pc : {"none", "begun", "looked", "counted"},
                      operation : Operations \cup {NoGap}, found : 0..Len(gaps),
                      count : Nat, reopened : BOOLEAN]
      BY DEF ReopenGap
    <3>2. calls[v] \in [pc : {"none", "begun", "looked", "counted"},
                      operation : Operations \cup {NoGap}, found : 0..Len(gaps),
                      count : Nat, reopened : BOOLEAN]
      BY <1>1 DEF NoticesTypeOK
    <3>3. PICK b \in BOOLEAN : b = (calls[v].reopened \/
                              (calls[v].pc = "looked" /\ calls[v].operation = gaps[i].operation))
      OBVIOUS
    <3>4. [calls[v] EXCEPT !.reopened = b] \in [pc : {"none", "begun", "looked", "counted"},
                      operation : Operations \cup {NoGap}, found : 0..Len(gaps),
                      count : Nat, reopened : BOOLEAN]
      BY <3>2
    <3>. QED  BY <3>3, <3>4
  <2>. QED  BY <1>1, <1>2, <2>1, <2>2 DEF NoticesTypeOK
<1>6. RowsHeld'
  <2>1. SUFFICES ASSUME NEW v \in Writers, NEW p, p = calls[v].operation
                 PROVE  /\ calls[v].pc # "none" => calls[v].operation \in Operations
                        /\ Holding(v) /\ calls[v].found # 0 =>
                             /\ gaps'[calls[v].found].operation = calls[v].operation
                             /\ gaps'[calls[v].found].unresolved
                             /\ gaps'[calls[v].found].count = calls[v].count
                        /\ calls[v].pc = "counted" /\ calls[v].found = 0 => Unresolved(p)' = {}
    BY <1>4 DEF RowsHeld, Holding
  <2>2. calls[v].pc # "none" => calls[v].operation \in Operations
    BY <1>1 DEF RowsHeld
  <2>3. ASSUME Holding(v), calls[v].found # 0
        PROVE  /\ gaps'[calls[v].found].operation = calls[v].operation
               /\ gaps'[calls[v].found].unresolved
               /\ gaps'[calls[v].found].count = calls[v].count
    <3>1. PICK j \in DOMAIN gaps : j = calls[v].found
      BY <1>1, <2>3, CallTypes
    <3>2. j # i
      BY <1>1, <2>3, <3>1, FreeRowHeldByNone
    <3>3. gaps[j].operation = calls[v].operation /\ gaps[j].unresolved /\ gaps[j].count = calls[v].count
      BY <1>1, <2>3, <3>1 DEF RowsHeld
    <3>. QED  BY <1>2, <3>1, <3>2, <3>3
  <2>4. ASSUME calls[v].pc = "counted", calls[v].found = 0
        PROVE  Unresolved(p)' = {}
    <3>1. Unresolved(p) = {}
      BY <1>1, <2>1, <2>4 DEF RowsHeld
    <3>2. p # q
      BY <1>1, <1>11, <2>1, <2>4, FreeRowHeldByNone
    <3>. QED  BY <1>2, <3>1, <3>2
  <2>. QED  BY <2>2, <2>3, <2>4
<1>7. OneCallPerKey'
  BY <1>1, <1>4 DEF OneCallPerKey, Holding
<1>8. NoTwoUnresolved'
  BY <1>1, <1>2 DEF NoTwoUnresolved
<1>9. OnlyReopeningRefuses'
  <2>1. SUFFICES ASSUME NEW v \in Writers, NEW p, p = calls[v].operation, calls[v].pc = "looked",
                        calls[v].found = 0, Unresolved(p)' # {}
                 PROVE  calls'[v].reopened
    BY <1>4 DEF OnlyReopeningRefuses
  <2>2. CASE p = q
    BY <1>4, <1>11, <2>1, <2>2
  <2>3. CASE p # q
    <3>1. Unresolved(p) # {}
      BY <1>2, <2>1, <2>3
    <3>2. calls[v].reopened
      BY <1>1, <2>1, <3>1 DEF OnlyReopeningRefuses
    <3>. QED  BY <1>4, <3>2
  <2>. QED  BY <2>2, <2>3
<1>10. CountsAddUp'
  BY <1>1, <1>2, CountsUntouched
<1>. QED  BY <1>5, <1>6, <1>7, <1>8, <1>9, <1>10 DEF GapsInv

LEMMA GapsStart == NoticesInit => GapsInv
<1>1. SUFFICES ASSUME NoticesInit PROVE GapsInv
  OBVIOUS
<1>2. /\ gaps = <<>> /\ calls = [w \in Writers |-> NoCall] /\ changes = 0
      /\ recorded = [o \in Operations |-> 0]
  BY <1>1 DEF NoticesInit
<1>3. /\ gaps \in Seq(CapabilityGaps) /\ DOMAIN gaps = {} /\ Len(gaps) = 0
  BY <1>2
<1>4. NoticesTypeOK
  <2>1. NoCall \in [pc : {"none", "begun", "looked", "counted"}, operation : Operations \cup {NoGap},
                    found : 0..Len(gaps), count : Nat, reopened : BOOLEAN]
    BY <1>3 DEF NoCall
  <2>2. changes \in 0..MaxChanges
    BY <1>2, ChangesAssumption
  <2>3. calls \in [Writers -> [pc : {"none", "begun", "looked", "counted"}, operation : Operations \cup {NoGap},
                    found : 0..Len(gaps), count : Nat, reopened : BOOLEAN]]
    BY <1>2, <2>1
  <2>. QED  BY <1>2, <1>3, <2>2, <2>3 DEF NoticesTypeOK
<1>5. \A w \in Writers : calls[w].pc = "none"
  BY <1>2 DEF NoCall
<1>6. RowsHeld /\ OneCallPerKey /\ OnlyReopeningRefuses
  BY <1>5 DEF RowsHeld, OneCallPerKey, OnlyReopeningRefuses, Holding
<1>7. NoTwoUnresolved
  BY <1>3 DEF NoTwoUnresolved, Unresolved
<1>8. CountsAddUp
  <2>1. \A o : RowsOf(o) = {}
    BY <1>3 DEF RowsOf
  <2>2. \A o : {{i} \X (1..gaps[i].count) : i \in RowsOf(o)} = {}
    BY <2>1
  <2>3. \A o : Cardinality(UNION {{i} \X (1..gaps[i].count) : i \in RowsOf(o)}) = 0
    BY <2>2, FS_EmptySet
  <2>. QED  BY <1>2, <2>3 DEF CountsAddUp
<1>. QED  BY <1>4, <1>6, <1>7, <1>8 DEF GapsInv

-----------------------------------------------------------------------------
(* The stream and the gaps together.                                       *)

NoticesInv == FeedInv /\ GapsInv

LEMMA FeedUntouched ==
  ASSUME FeedInv, UNCHANGED feedVars
  PROVE  FeedInv'
<1>1. UNCHANGED <<clock, written, inbox, late, feed, listener, sent>>
  BY DEF feedVars
<1>2. /\ Unsent' = Unsent /\ Coming' = Coming /\ Handed' = Handed /\ Due' = Due
      /\ InBlock(listener)' = InBlock(listener)
  BY <1>1 DEF Unsent, Coming, Due, Handed
<1>3. FeedType' /\ FeedShape'
  BY <1>1, <1>2 DEF FeedInv, FeedType, FeedShape
<1>4. BlockBefore' /\ SentBefore'
  BY <1>1, <1>2 DEF FeedInv, BlockBefore, SentBefore
<1>5. InOrder' /\ Fits' /\ NoneOvertaken'
  BY <1>1, <1>2 DEF FeedInv, InOrder, Fits, NoneOvertaken
<1>. QED  BY <1>3, <1>4, <1>5 DEF FeedInv

LEMMA GapsUntouched ==
  ASSUME GapsInv, UNCHANGED gapVars
  PROVE  GapsInv'
<1>1. UNCHANGED <<gaps, calls, recorded, changes>>
  BY DEF gapVars
<1>2. \A o : Unresolved(o)' = Unresolved(o) /\ RowsOf(o)' = RowsOf(o)
  BY <1>1 DEF Unresolved, RowsOf
<1>3. NoticesTypeOK'
  BY <1>1 DEF GapsInv, NoticesTypeOK
<1>4. RowsHeld' /\ OneCallPerKey'
  BY <1>1, <1>2 DEF GapsInv, RowsHeld, Holding, OneCallPerKey
<1>5. NoTwoUnresolved' /\ OnlyReopeningRefuses'
  BY <1>1, <1>2 DEF GapsInv, NoTwoUnresolved, OnlyReopeningRefuses
<1>6. CountsAddUp'
  BY <1>1, <1>2 DEF GapsInv, CountsAddUp
<1>. QED  BY <1>3, <1>4, <1>5, <1>6 DEF GapsInv

LEMMA NoticesInvariant == NoticesSpec => []NoticesInv
<1>1. NoticesInit => NoticesInv
  BY FeedStarts, GapsStart DEF NoticesInit, NoticesInv
<1>2. NoticesInv /\ [NoticesNext]_noticesVars => NoticesInv'
  <2> SUFFICES ASSUME NoticesInv, [NoticesNext]_noticesVars PROVE NoticesInv'
    OBVIOUS
  <2>1. FeedInv /\ GapsInv
    BY DEF NoticesInv
  <2>2. ASSUME NEW w \in Writers, Notify(w) PROVE NoticesInv'
    <3>1. PICK kind \in Kinds, managed, mine \in BOOLEAN : Begin(w, Told(kind, managed, mine))
      BY <2>2, Zenon DEF Notify
    <3>2. Told(kind, managed, mine) \in Nat
      BY DEF Kinds, Told, ByGap, ByFailure, ByEscalation, ByRequest, AsReviewer, AsRequester
    <3>3. FeedInv'
      BY <2>1, <3>1, <3>2, BeginKeeps
    <3>. QED  BY <2>1, <2>2, <3>3, NotifyStep DEF NoticesInv
  <2>3. ASSUME NEW w \in Writers, Look(w) PROVE NoticesInv'
    <3>1. UNCHANGED feedVars
      BY <2>3 DEF Look, feedVars
    <3>. QED  BY <2>1, <2>3, <3>1, LookStep, FeedUntouched DEF NoticesInv
  <2>4. ASSUME NEW w \in Writers, Count(w) PROVE NoticesInv'
    <3>1. UNCHANGED feedVars
      BY <2>4 DEF Count, feedVars
    <3>. QED  BY <2>1, <2>4, <3>1, CountStep, FeedUntouched DEF NoticesInv
  <2>5. ASSUME NEW w \in Writers, CommitNotice(w) PROVE NoticesInv'
    <3>1. FeedInv'
      BY <2>1, <2>5, CommitKeeps DEF CommitNotice
    <3>2. CASE UNCHANGED gapVars
      BY <2>1, <3>1, <3>2, GapsUntouched DEF NoticesInv
    <3>3. CASE /\ calls[w].pc = "counted" /\ gaps' = Counted(calls[w])
               /\ recorded' = [recorded EXCEPT ![calls[w].operation] = @ + 1]
               /\ calls' = [calls EXCEPT ![w] = NoCall] /\ UNCHANGED changes
      BY <2>1, <3>1, <3>3, CountCommitted DEF NoticesInv
    <3>. QED  BY <2>5, <3>2, <3>3 DEF CommitNotice
  <2>6. ASSUME NEW w \in Writers, RollbackNotice(w) PROVE NoticesInv'
    <3>1. FeedInv'
      BY <2>1, <2>6, RollbackKeeps DEF RollbackNotice
    <3>2. GapsInv'
      BY <2>1, <2>6, CallEnds DEF RollbackNotice
    <3>. QED  BY <3>1, <3>2 DEF NoticesInv
  <2>7. ASSUME NEW i \in DOMAIN gaps, CloseGap(i) PROVE NoticesInv'
    <3>1. UNCHANGED feedVars
      BY <2>7 DEF CloseGap, feedVars
    <3>. QED  BY <2>1, <2>7, <3>1, CloseGapStep, FeedUntouched DEF NoticesInv
  <2>8. ASSUME NEW i \in DOMAIN gaps, ReopenGap(i) PROVE NoticesInv'
    <3>1. UNCHANGED feedVars
      BY <2>8 DEF ReopenGap, feedVars
    <3>. QED  BY <2>1, <2>8, <3>1, ReopenGapStep, FeedUntouched DEF NoticesInv
  <2>9. ASSUME Reconnect \/ OpenPage \/ ServeFeed \/ FeedDisconnect, UNCHANGED gapVars PROVE NoticesInv'
    <3>1. FeedInv'
      BY <2>1, <2>9, ReconnectKeeps, OpenPageKeeps, FeedDisconnectKeeps, ReplayFeedKeeps, PollFeedKeeps,
         SendNoticeKeeps, SleepFeedKeeps, FeedHeartbeatKeeps DEF ServeFeed
    <3>. QED  BY <2>1, <2>9, <3>1, GapsUntouched DEF NoticesInv
  <2>10. CASE UNCHANGED noticesVars
    BY <2>1, <2>10, FeedUntouched, GapsUntouched DEF noticesVars, NoticesInv
  <2>. QED  BY <2>2, <2>3, <2>4, <2>5, <2>6, <2>7, <2>8, <2>9, <2>10 DEF NoticesNext
<1>. QED  BY <1>1, <1>2, PTL DEF NoticesSpec

-----------------------------------------------------------------------------
\* Every committed notification that was not sent is in the batch being sent or
\* after the cursor of the open stream, unless it became visible after a later
\* one (notifications/router.py stream, replay and polls).
THEOREM NotificationsAreNotPassedOver == NoticesSpec => []NoneOvertaken
BY NoticesInvariant, PTL DEF NoticesInv, FeedInv

\* The counts of a capability gap are exactly the committed record() calls, no
\* operation has two unresolved gaps, and a run loses its new gap only to an
\* administrator's reopening (failures/repository.py create_or_increment).
THEOREM GapsAreCounted == NoticesSpec => []GapsAddUp
<1>1. NoticesInv => GapsAddUp
  <2>1. SUFFICES ASSUME NoticesInv PROVE GapsAddUp
    OBVIOUS
  <2>2. NoticesTypeOK /\ NoTwoUnresolved /\ OnlyReopeningRefuses /\ CountsAddUp
    BY <2>1 DEF NoticesInv, GapsInv
  <2>3. ASSUME NEW o \in Operations PROVE Cardinality(Unresolved(o)) <= 1
    <3>1. CASE Unresolved(o) = {}
      BY <3>1, FS_EmptySet
    <3>2. CASE Unresolved(o) # {}
      <4>1. PICK i : i \in Unresolved(o)
        BY <3>2
      <4>2. Unresolved(o) = {i}
        BY <2>2, <4>1 DEF NoTwoUnresolved
      <4>. QED  BY <4>2, FS_Singleton
    <3>. QED  BY <3>1, <3>2
  <2>. QED  BY <2>2, <2>3 DEF GapsAddUp, OneUnresolved
<1>. QED  BY <1>1, NoticesInvariant, PTL
=============================================================================
