-------------------------- MODULE NotificationStream --------------------------
(***************************************************************************)
(* Live notifications of one user (realtime/service.py,                    *)
(* notification_stream).  A notification is ordered by the time its        *)
(* transaction began and by its id, and becomes visible when the           *)
(* transaction commits.  The stream looks once a second at the newest rows *)
(* and sends those after its cursor; a reconnecting client has it replay   *)
(* more of them first.  Which transactions notify the user is in Notices.  *)
(***************************************************************************)
EXTENDS EventSource, Naturals, FiniteSets

CONSTANTS Writers,       \* transactions that may notify the user at a time
          NoticeBatch,   \* SSE_BATCH_SIZE
          NoticeReplay,  \* MAX_REPLAY_NOTIFICATIONS
          MaxBurst,      \* the notifications of one transaction, a bound
          MaxTime        \* a bound on the clock

\* The code's limits are 50 and 250.
ASSUME NoticeAssumption ==
  /\ IsFiniteSet(Writers)
  /\ {NoticeBatch, NoticeReplay, MaxBurst, MaxTime} \subseteq Nat \ {0}
  /\ NoticeBatch <= NoticeReplay

VARIABLES clock,    \* the database's clock
          written,  \* for each writer, the open transaction or NoTransaction
          inbox,    \* the committed notifications
          late,     \* those that were committed after a later one
          feed,     \* the server's generator
          listener, \* the client's EventSource
          sent      \* what the user was sent in ended blocks, or a page found

feedVars == <<clock, written, inbox, late, feed, listener, sent>>

-----------------------------------------------------------------------------
NoTransaction == [began |-> 0, size |-> 0]

\* A notification and a cursor are a time and an id; the ids are random, and
\* compared only between notifications of one transaction.
Notification(t, i) == <<t, i>>
NoCursor == <<0, 0>>

Later(n, m) == n[1] > m[1] \/ (n[1] = m[1] /\ n[2] > m[2])

\* The newest rows, and the oldest of a set of them.
Bug_FirstPage(limit) == {n \in inbox : Cardinality({m \in inbox : Later(n, m)}) < limit}
Newest(limit) == {n \in inbox : Cardinality({m \in inbox : Later(m, n)}) < limit}
OldestNotice(S) == CHOOSE n \in S : \A m \in S \ {n} : Later(m, n)

\* The rows after the stream's cursor among the newest.
New(limit) == {n \in Newest(limit) : Later(n, feed.cursor)}

FeedClosed == [pc |-> "closed", cursor |-> NoCursor, todo |-> {}, replayed |-> 0]

\* What the user's sources have not been sent, the unfinished block included.
Unsent == inbox \ (sent \cup InBlock(listener))

\* The notifications of open transactions.
Coming == Cardinality(UNION {{w} \X (1..written[w].size) : w \in Writers})

\* So few notifications come that a poll sees all new ones, and a replay, if
\* the source has an id to resume from, all it discarded.
FitsBatch(size) ==
  LET coming == size + Coming
  IN /\ coming <= NoticeBatch
     /\ feed # FeedClosed => Cardinality({n \in inbox : Later(n, feed.cursor)} \ sent) + coming <= NoticeBatch
     /\ Cardinality(inbox \ sent) + coming
          <= IF listener.lastId = NoCursor THEN NoticeBatch ELSE NoticeReplay

-----------------------------------------------------------------------------
(* The transactions that notify the user.                                  *)

\* created_at is the time the transaction began.
Begin(w, size) ==
  /\ written[w] = NoTransaction /\ clock < MaxTime
  /\ FitsBatch(size)
  /\ written' = [written EXCEPT ![w] = [began |-> clock + 1, size |-> size]]
  /\ clock' = clock + 1
  /\ UNCHANGED <<inbox, late, feed, listener, sent>>

Commit(w) ==
  LET new == {Notification(written[w].began, i) : i \in 1..written[w].size}
  IN /\ written[w] # NoTransaction
     /\ inbox' = inbox \cup new
     /\ late' = late \cup {n \in new : \E m \in inbox : Later(m, n)}
     /\ written' = [written EXCEPT ![w] = NoTransaction]
     /\ UNCHANGED <<clock, feed, listener, sent>>

Rollback(w) ==
  /\ written[w] # NoTransaction
  /\ written' = [written EXCEPT ![w] = NoTransaction]
  /\ UNCHANGED <<clock, inbox, late, feed, listener, sent>>

-----------------------------------------------------------------------------
(* The stream.                                                             *)

OpenFeed(last) ==
  feed' = [FeedClosed EXCEPT !.pc = IF last = NoCursor THEN "poll" ELSE "replay",
                           !.cursor = last]

\* The browser reconnects with the last id it was given, if any.
Reconnect ==
  /\ feed = FeedClosed
  /\ OpenFeed(listener.lastId)
  /\ UNCHANGED <<clock, written, inbox, late, listener, sent>>

\* A page opens a new source, and is owed what comes after.
OpenPage ==
  /\ feed = FeedClosed
  /\ OpenFeed(NoCursor)
  /\ listener' = NewSource(NoCursor)
  /\ sent' = inbox
  /\ UNCHANGED <<clock, written, inbox, late>>

\* The row that fills the replay is sent, and the cursor stays before it.
AfterReplay(s, n) == IF s.replayed + 1 < NoticeReplay THEN n ELSE s.cursor

Bug_ReplayBatch ==
  /\ feed.pc = "replay"
  /\ feed' = [feed EXCEPT !.pc = "replaying", !.todo = New(NoticeBatch)]
  /\ UNCHANGED <<clock, written, inbox, late, listener, sent>>

ReplayFeed ==
  /\ feed.pc = "replay"
  /\ feed' = [feed EXCEPT !.pc = "replaying", !.todo = New(NoticeReplay)]
  /\ UNCHANGED <<clock, written, inbox, late, listener, sent>>

PollFeed ==
  /\ feed.pc = "poll" \/ (feed.pc = "replaying" /\ feed.todo = {})
  /\ feed' = [feed EXCEPT !.pc = "sending", !.todo = New(NoticeBatch)]
  /\ UNCHANGED <<clock, written, inbox, late, listener, sent>>

SendNotice ==
  LET n == OldestNotice(feed.todo)
  IN /\ feed.todo # {}
     /\ feed' = [feed EXCEPT !.todo = @ \ {n}, !.replayed = @ + 1,
                             !.cursor = IF feed.pc = "sending" THEN n
                                        ELSE AfterReplay(feed, n)]
     /\ listener' = Receive(listener, n)
     /\ UNCHANGED <<clock, written, inbox, late, sent>>

\* The generator sleeps, after a heartbeat when one is due.
SleepFeed ==
  /\ feed.pc = "sending" /\ feed.todo = {}
  /\ feed' = [feed EXCEPT !.pc = "poll", !.replayed = 0]
  /\ UNCHANGED <<clock, written, inbox, late, listener, sent>>

FeedHeartbeat ==
  /\ feed.pc = "sending" /\ feed.todo = {}
  /\ feed' = [feed EXCEPT !.pc = "poll", !.replayed = 0]
  /\ listener' = EndBlock(listener)
  /\ sent' = sent \cup InBlock(listener)
  /\ UNCHANGED <<clock, written, inbox, late>>

FeedDisconnect ==
  /\ feed # FeedClosed
  /\ feed' = FeedClosed
  /\ listener' = Cut(listener)
  /\ UNCHANGED <<clock, written, inbox, late, sent>>

-----------------------------------------------------------------------------
FeedInit ==
  /\ clock = 0
  /\ written = [w \in Writers |-> NoTransaction]
  /\ inbox = {}
  /\ late = {}
  /\ feed = FeedClosed
  /\ listener = NewSource(NoCursor)
  /\ sent = {}

ServeFeed == ReplayFeed \/ PollFeed \/ SendNotice \/ SleepFeed \/ FeedHeartbeat

-----------------------------------------------------------------------------
(* Properties.                                                             *)

\* A committed notification is on its way: it was sent, or the stream is
\* sending it, or a poll will still count it as new.  Only one that became
\* visible after a later one may have been overtaken by the cursor.
NoneOvertaken ==
  feed # FeedClosed =>
    \A n \in Unsent \ late : n \in feed.todo \/ Later(n, feed.cursor)

\* A notification committed while the user is connected, or before, since the
\* page was opened, is sent, unless the connection ends.
NotificationsArrive ==
  \A t \in 1..MaxTime, i \in 1..MaxBurst :
    Notification(t, i) \in inbox \ late /\ feed # FeedClosed
      ~> feed = FeedClosed \/ Notification(t, i) \in sent
=============================================================================
