---------------------------- MODULE Browser_proofs ----------------------------
(***************************************************************************)
(* Proofs about what a browser holds.  Session: a tab keeps a refresh      *)
(* token the server takes, a token is refused as used only where a login   *)
(* has two holders, and nobody waits for a refresh that is not under way.  *)
(* Desk: an offer of a page is refused only when something its handler     *)
(* reads has changed since, and an action takes one response.              *)
(***************************************************************************)
EXTENDS Session, Desk, FiniteSetTheorems, TLAPS

-----------------------------------------------------------------------------
(* The inductive invariant.                                                *)

LoginOf(p) == row[p].login
Private(p) == LoginOf(p) \notin shared

\* A refresh belongs to the request that started it, which waits for it, and to the
\* tab, which knows it, until the tab is loaded again and forgets all three.
CallsAreOwned ==
  \A q \in Reqs :
    /\ call[q] # Idle =>
         IF call[q].tab = None THEN req[q] = Idle
         ELSE /\ req[q].pc = "waiting" /\ req[q].on = q /\ req[q].tab = call[q].tab
              /\ tab[call[q].tab].flight = q
    /\ req[q].pc = "waiting" => req[q].on \in Reqs

\* A login that is not shared is in one place: one tab holds a pair of it, the
\* refresh under way for it is that tab's, and there is one.
OneHolder ==
  /\ \A b, c \in Tabs :
       (tab[b].pair # None /\ tab[c].pair # None /\ LoginOf(tab[b].pair) = LoginOf(tab[c].pair)
          /\ Private(tab[b].pair)) => b = c
  /\ \A b \in Tabs, q \in Reqs :
       (tab[b].pair # None /\ call[q] # Idle /\ LoginOf(tab[b].pair) = LoginOf(call[q].old)
          /\ Private(tab[b].pair)) => call[q].tab = b
  /\ \A q, r \in Reqs :
       (call[q] # Idle /\ call[r] # Idle /\ LoginOf(call[q].old) = LoginOf(call[r].old)
          /\ Private(call[q].old)) => q = r
  /\ \A q \in Reqs :
       (call[q] # Idle /\ call[q].tab = None) => ~Private(call[q].old)

\* The refresh of a login in one place is sent with a token that is not used, and
\* brings one that is not used, of the same login.
CallsAreUseful ==
  \A q \in Reqs :
    /\ call[q].pc = "sent" /\ Private(call[q].old) => row[call[q].old].state # "revoked"
    /\ call[q].pc = "rotated" =>
         /\ call[q].new \in Issued /\ LoginOf(call[q].new) = LoginOf(call[q].old)
         /\ Private(call[q].old) => row[call[q].new].state # "revoked"

IInv ==
  /\ TypeOK /\ CallsAreOwned /\ WaitersAreAnswered
  /\ OneHolder /\ CallsAreUseful /\ HeldTokenIsUsable /\ OnlyCopiesAreRefused

-----------------------------------------------------------------------------
(* Facts about the types.                                                  *)

\* A request that is not idle is a fetch, a refresh that is under way a rotation.
LEMMA Shapes ==
  ASSUME TypeOK
  PROVE  /\ \A q \in Reqs : /\ req[q] = Idle <=> req[q].pc = "idle"
                            /\ req[q] # Idle =>
                                 /\ req[q] \in Fetch
                                 /\ req[q].pc \in {"sent", "denied", "waiting"} /\ req[q].tab \in Tabs
                                 /\ req[q].pair \in Pairs /\ req[q].on \in Reqs \cup {None}
                            /\ call[q] = Idle <=> call[q].pc = "idle"
                            /\ call[q] # Idle =>
                                 /\ call[q] \in Rotation
                                 /\ call[q].pc \in {"sent", "rotated", "used", "expired", "inactive"}
                                 /\ call[q].tab \in Tabs \cup {None}
                                 /\ call[q].old \in Issued /\ call[q].old \in Pairs
                                 /\ call[q].new \in Pairs \cup {None}
         /\ \A b \in Tabs : /\ tab[b] \in Tab
                            /\ tab[b].flight \in Reqs \cup {None}
                            /\ tab[b].pair # None => tab[b].pair \in Issued /\ tab[b].pair \in Pairs
         /\ \A p \in Pairs : row[p] \in Row /\ row[p].state \in {"none", "live", "revoked", "expired"}
         /\ None \notin Tabs /\ None \notin Reqs /\ None \notin Pairs /\ Pairs \subseteq Nat
<1>1. ASSUME NEW q \in Reqs
      PROVE  /\ req[q] = Idle <=> req[q].pc = "idle"
             /\ req[q] # Idle =>
                  /\ req[q] \in Fetch
                  /\ req[q].pc \in {"sent", "denied", "waiting"} /\ req[q].tab \in Tabs
                  /\ req[q].pair \in Pairs /\ req[q].on \in Reqs \cup {None}
  <2>1. req[q] = Idle \/ req[q] \in Fetch
    BY <1>1 DEF TypeOK
  <2>2. CASE req[q] = Idle
    BY <2>2 DEF Idle
  <2>3. CASE req[q] \in Fetch
    BY <2>3 DEF Idle, Fetch
  <2> QED
    BY <2>1, <2>2, <2>3
<1>2. ASSUME NEW q \in Reqs
      PROVE  /\ call[q] = Idle <=> call[q].pc = "idle"
             /\ call[q] # Idle =>
                  /\ call[q] \in Rotation
                  /\ call[q].pc \in {"sent", "rotated", "used", "expired", "inactive"}
                  /\ call[q].tab \in Tabs \cup {None}
                  /\ call[q].old \in Issued /\ call[q].old \in Pairs
                  /\ call[q].new \in Pairs \cup {None}
  <2>1. call[q] = Idle \/ (call[q] \in Rotation /\ call[q].old \in Issued)
    BY <1>2 DEF TypeOK
  <2>2. CASE call[q] = Idle
    BY <2>2 DEF Idle
  <2>3. CASE call[q] \in Rotation /\ call[q].old \in Issued
    BY <2>3 DEF Idle, Rotation
  <2> QED
    BY <2>1, <2>2, <2>3
<1>3. ASSUME NEW b \in Tabs
      PROVE  /\ tab[b] \in Tab
             /\ tab[b].flight \in Reqs \cup {None}
             /\ tab[b].pair # None => tab[b].pair \in Issued /\ tab[b].pair \in Pairs
  BY <1>3 DEF TypeOK, Tab, Issued
<1>4. ASSUME NEW p \in Pairs
      PROVE  row[p] \in Row /\ row[p].state \in {"none", "live", "revoked", "expired"}
  BY <1>4 DEF TypeOK, Row
<1>5. None \notin Tabs /\ None \notin Reqs /\ None \notin Pairs /\ Pairs \subseteq Nat
  BY NoneAssumption, BoundAssumption DEF Pairs
<1> QED
  BY <1>1, <1>2, <1>3, <1>4, <1>5

\* A pair that is issued was not issued before.
LEMMA NewPairIsNew ==
  ASSUME Room  PROVE  NewPair \in Pairs \ Issued
<1>1. \E p \in Pairs : p \notin Issued
  BY DEF Room, Issued
<1> QED
  BY <1>1 DEF NewPair

-----------------------------------------------------------------------------
(* Steps that leave the rows, the tabs and the refreshes alone.            *)

\* What is said of the rows, the tabs and the refreshes stays true.
LEMMA PlacesStay ==
  ASSUME IInv, UNCHANGED <<row, tab, call, shared>>
  PROVE  OneHolder' /\ CallsAreUseful' /\ HeldTokenIsUsable' /\ OnlyCopiesAreRefused'
<1>1. OneHolder /\ CallsAreUseful /\ HeldTokenIsUsable /\ OnlyCopiesAreRefused
  BY DEF IInv
<1>2. OneHolder'
  BY <1>1 DEF OneHolder, Private, LoginOf
<1>3. CallsAreUseful'
  BY <1>1 DEF CallsAreUseful, Private, LoginOf, Issued
<1>4. HeldTokenIsUsable'
  BY <1>1 DEF HeldTokenIsUsable
<1>5. OnlyCopiesAreRefused'
  BY <1>1 DEF OnlyCopiesAreRefused
<1> QED
  BY <1>2, <1>3, <1>4, <1>5

\* Access tokens expire, accounts are switched.
LEMMA OthersKeep ==
  ASSUME IInv, UNCHANGED <<row, tab, req, call, shared, actor>>,
         fresh' \subseteq fresh, active' \in [user : BOOLEAN, company : BOOLEAN],
         changes' \in 0..MaxChanges
  PROVE  IInv'
<1>1. TypeOK /\ CallsAreOwned /\ WaitersAreAnswered
  BY DEF IInv
<1>2. TypeOK'
  BY <1>1 DEF TypeOK, Issued
<1>3. CallsAreOwned'
  BY <1>1 DEF CallsAreOwned
<1>4. WaitersAreAnswered'
  BY <1>1 DEF WaitersAreAnswered
<1> QED
  BY <1>2, <1>3, <1>4, PlacesStay DEF IInv

\* A request without a refresh of its own moves; if it waits now, it waits for a
\* refresh of its tab.
LEMMA RequestMoves ==
  ASSUME IInv, UNCHANGED <<row, fresh, active, actor, tab, call, shared, changes>>,
         NEW q \in Reqs, call[q] = Idle,
         NEW f \in {Idle} \cup Fetch, req' = [req EXCEPT ![q] = f],
         f.pc = "waiting" => f.on \in Reqs /\ call[f.on] # Idle /\ call[f.on].tab = f.tab
  PROVE  IInv'
<1>1. TypeOK /\ CallsAreOwned /\ WaitersAreAnswered
  BY DEF IInv
<1>2. /\ req' \in [Reqs -> {Idle} \cup Fetch] /\ req'[q] = f
      /\ \A r \in Reqs : r # q => req'[r] = req[r]
  BY <1>1 DEF TypeOK
<1>3. TypeOK'
  BY <1>1, <1>2 DEF TypeOK, Issued
<1>4. CallsAreOwned'
  BY <1>1, <1>2 DEF CallsAreOwned
<1>5. WaitersAreAnswered'
  BY <1>1, <1>2 DEF WaitersAreAnswered
<1> QED
  BY <1>3, <1>4, <1>5, PlacesStay DEF IInv

LEMMA SendKeeps ==
  ASSUME IInv, NEW q \in Reqs, NEW b \in Tabs, NEW setup \in BOOLEAN, Send(q, b, setup)
  PROVE  IInv'
<1> DEFINE f == [pc |-> "sent", tab |-> b, setup |-> setup, pair |-> tab[b].pair, tries |-> 1, on |-> None]
<1>1. tab[b].pair \in Pairs
  BY Shapes DEF IInv, Send
<1>2. f \in Fetch /\ f.pc = "sent"
  BY <1>1 DEF Fetch
<1>3. call[q] = Idle /\ req' = [req EXCEPT ![q] = f]
      /\ UNCHANGED <<row, fresh, active, actor, tab, call, shared, changes>>
  BY DEF Send
<1> HIDE DEF f
<1> QED
  BY <1>2, <1>3, RequestMoves

\* A request that is on its way or was refused has no refresh under way.
LEMMA NoneUnderWay ==
  ASSUME IInv, NEW q \in Reqs, req[q].pc \in {"sent", "denied"}
  PROVE  call[q] = Idle /\ req[q] # Idle
BY Shapes DEF IInv, CallsAreOwned, Idle

LEMMA ServeKeeps ==
  ASSUME IInv, NEW q \in Reqs, Serve(q)
  PROVE  IInv'
<1>1. req[q].pc = "sent" /\ req[q] \in Fetch /\ call[q] = Idle
  BY Shapes, NoneUnderWay DEF IInv, Serve
<1> DEFINE f == IF Admitted(req[q].pair, req[q].setup) THEN Idle ELSE [req[q] EXCEPT !.pc = "denied"]
<1>2. f \in {Idle} \cup Fetch /\ f.pc # "waiting"
  <2>1. [req[q] EXCEPT !.pc = "denied"] \in Fetch /\ [req[q] EXCEPT !.pc = "denied"].pc = "denied"
    BY <1>1 DEF Fetch
  <2> QED
    BY <2>1 DEF Idle
<1>3. req' = [req EXCEPT ![q] = f] /\ UNCHANGED <<row, fresh, active, actor, tab, call, shared, changes>>
  BY DEF Serve
<1> HIDE DEF f
<1> QED
  BY <1>1, <1>2, <1>3, RequestMoves

LEMMA LoseKeeps ==
  ASSUME IInv, NEW q \in Reqs, Lose(q)
  PROVE  IInv'
<1>1. call[q] = Idle
  BY NoneUnderWay DEF Lose
<1>2. Idle.pc # "waiting" /\ Idle \in {Idle} \cup Fetch
  BY DEF Idle
<1>3. req' = [req EXCEPT ![q] = Idle] /\ UNCHANGED <<row, fresh, active, actor, tab, call, shared, changes>>
  BY DEF Lose
<1> QED
  BY <1>1, <1>2, <1>3, RequestMoves

-----------------------------------------------------------------------------
(* A request that was refused.                                             *)

\* It goes on to wait for the tab's refresh, whoever started it.
LEMMA JoinKeeps ==
  ASSUME IInv, NEW q \in Reqs, req[q].pc = "denied", Join(q),
         UNCHANGED <<row, fresh, active, actor, shared, changes>>
  PROVE  IInv'
<1>1. call[q] = Idle /\ req[q] \in Fetch /\ req[q].tab \in Tabs
  BY Shapes, NoneUnderWay DEF IInv
<1>2. PICK o : o = Flight(req[q].tab)
  OBVIOUS
<1>3. o \in Reqs /\ call[o] # Idle /\ call[o].tab = req[q].tab
  BY <1>1, <1>2, Shapes DEF IInv, Join, Flight, WaitersAreAnswered
<1>4. PICK f : f = [req[q] EXCEPT !.pc = "waiting", !.on = o]
  OBVIOUS
<1>5. f \in Fetch /\ f.pc = "waiting" /\ f.on = o /\ f.tab = req[q].tab
  BY <1>1, <1>3, <1>4 DEF Fetch
<1>6. req' = [req EXCEPT ![q] = f]
  <2>1. req \in [Reqs -> {Idle} \cup Fetch]
    BY DEF IInv, TypeOK
  <2> QED
    BY <1>1, <1>2, <1>4, <2>1 DEF Join, Fetch
<1>7. UNCHANGED <<tab, call>>
  BY DEF Join
<1> QED
  BY <1>1, <1>3, <1>5, <1>6, <1>7, RequestMoves

LEMMA SignedOutKeeps ==
  ASSUME IInv, NEW q \in Reqs, req[q].pc = "denied", req' = [req EXCEPT ![q] = Idle],
         UNCHANGED <<row, fresh, active, actor, tab, call, shared, changes>>
  PROVE  IInv'
<1>1. call[q] = Idle
  BY NoneUnderWay
<1>2. Idle.pc # "waiting" /\ Idle \in {Idle} \cup Fetch
  BY DEF Idle
<1> QED
  BY <1>1, <1>2, RequestMoves

\* It starts the refresh: with the token of a login that is in this tab only, the
\* tab had no other refresh under way, and the token is not used.
LEMMA RefreshKeeps ==
  ASSUME IInv, NEW q \in Reqs, req[q].pc = "denied", Refresh(q),
         UNCHANGED <<row, fresh, active, actor, shared, changes>>
  PROVE  IInv'
<1> TypeOK /\ CallsAreOwned /\ WaitersAreAnswered /\ OneHolder /\ CallsAreUseful
      /\ HeldTokenIsUsable /\ OnlyCopiesAreRefused
  BY DEF IInv
<1>1. call[q] = Idle /\ req[q] \in Fetch /\ req[q].tab \in Tabs
  BY Shapes, NoneUnderWay
<1>2. PICK b \in Tabs : b = req[q].tab
  BY <1>1
<1>3. PICK p : p = tab[b].pair
  OBVIOUS
<1>4. tab[b].flight = None /\ p # None /\ p \in Pairs /\ p \in Issued
  BY <1>2, <1>3, Shapes DEF Refresh, Flight
<1>5. PICK n : n = [pc |-> "sent", tab |-> b, old |-> p, new |-> None]
  OBVIOUS
<1>6. n \in Rotation /\ n # Idle /\ n.pc = "sent" /\ n.tab = b /\ n.old = p
  BY <1>4, <1>5 DEF Rotation, Idle
<1>7. /\ call' \in [Reqs -> {Idle} \cup Rotation] /\ call'[q] = n
      /\ \A r \in Reqs : r # q => call'[r] = call[r]
  BY <1>2, <1>3, <1>5, <1>6 DEF Refresh, TypeOK
<1>8. /\ tab' \in [Tabs -> Tab] /\ tab'[b].flight = q /\ tab'[b].pair = p
      /\ \A c \in Tabs : c # b => tab'[c] = tab[c]
  <2>1. tab' = [tab EXCEPT ![b] = [@ EXCEPT !.flight = q]]
    BY <1>2 DEF Refresh
  <2>2. [tab[b] EXCEPT !.flight = q] \in Tab /\ [tab[b] EXCEPT !.flight = q].flight = q
        /\ [tab[b] EXCEPT !.flight = q].pair = p
    BY <1>3, Shapes DEF Tab
  <2> QED
    BY <2>1, <2>2 DEF TypeOK
<1>9. /\ req' \in [Reqs -> {Idle} \cup Fetch]
      /\ req'[q].pc = "waiting" /\ req'[q].on = q /\ req'[q].tab = b
      /\ \A r \in Reqs : r # q => req'[r] = req[r]
  <2>1. PICK f : f = [req[q] EXCEPT !.pc = "waiting", !.on = q]
    OBVIOUS
  <2>2. f \in Fetch /\ f.pc = "waiting" /\ f.on = q /\ f.tab = b
    BY <1>1, <1>2, <2>1 DEF Fetch
  <2>3. req' = [req EXCEPT ![q] = f]
    BY <1>1, <2>1 DEF Refresh, TypeOK, Fetch
  <2> QED
    BY <2>2, <2>3 DEF TypeOK
<1>10. \A c \in Tabs : tab'[c].pair = tab[c].pair
  BY <1>3, <1>8
<1>11. Issued' = Issued
  BY DEF Issued
<1>12. TypeOK'
  BY <1>4, <1>6, <1>7, <1>8, <1>9, <1>10, <1>11 DEF TypeOK
<1>13. \A r \in Reqs : call[r] # Idle => call[r].tab # b
  BY <1>4, Shapes DEF CallsAreOwned
<1>14. CallsAreOwned'
  BY <1>4, <1>6, <1>7, <1>8, <1>9, <1>13, Shapes DEF CallsAreOwned
<1>15. WaitersAreAnswered'
  <2>1. ASSUME NEW r \in Reqs, req'[r].pc = "waiting"
        PROVE  call'[req'[r].on] # Idle /\ call'[req'[r].on].tab = req'[r].tab
    BY <1>1, <1>6, <1>7, <1>9, <2>1 DEF WaitersAreAnswered, CallsAreOwned
  <2>2. ASSUME NEW c \in Tabs, tab'[c].flight # None
        PROVE  call'[tab'[c].flight] # Idle /\ call'[tab'[c].flight].tab = c
    BY <1>1, <1>6, <1>7, <1>8, <2>2, Shapes DEF WaitersAreAnswered
  <2> QED
    BY <2>1, <2>2 DEF WaitersAreAnswered
<1>16. \A r \in Reqs : call[r] # Idle /\ LoginOf(call[r].old) = LoginOf(p) => ~Private(p)
  BY <1>3, <1>4, <1>13 DEF OneHolder
<1>17. OneHolder'
  <2>1. \A c \in Tabs : tab[c].pair # None /\ LoginOf(tab[c].pair) = LoginOf(p) /\ Private(p) => c = b
    BY <1>3, <1>4 DEF OneHolder, Private
  <2>2. \A x : LoginOf(x)' = row[x].login /\ LoginOf(x) = row[x].login
    BY DEF LoginOf
  <2> QED
    BY <1>4, <1>6, <1>7, <1>10, <1>13, <1>16, <2>1, Shapes DEF OneHolder, Private, LoginOf
<1>18. CallsAreUseful'
  <2>1. Private(p) => row[p].state # "revoked"
    BY <1>3, <1>4, <1>13 DEF HeldTokenIsUsable, Private, LoginOf, CallsAreUseful, Idle
  <2> QED
    BY <1>6, <1>7, <1>11, <2>1 DEF CallsAreUseful, Private, LoginOf
<1>19. HeldTokenIsUsable'
  BY <1>1, <1>7, <1>10 DEF HeldTokenIsUsable, Idle
<1>20. OnlyCopiesAreRefused'
  BY <1>6, <1>7 DEF OnlyCopiesAreRefused
<1> QED
  BY <1>12, <1>14, <1>15, <1>17, <1>18, <1>19, <1>20 DEF IInv

LEMMA DeniedKeeps ==
  ASSUME IInv, NEW q \in Reqs, Denied(q)
  PROVE  IInv'
<1>1. req[q].pc = "denied" /\ UNCHANGED <<row, fresh, active, actor, shared, changes>>
  BY DEF Denied
<1>2. \/ Join(q) \/ Refresh(q)
      \/ req' = [req EXCEPT ![q] = Idle] /\ UNCHANGED <<tab, call>>
  BY DEF Denied, SignedOut
<1> QED
  BY <1>1, <1>2, JoinKeeps, RefreshKeeps, SignedOutKeeps

-----------------------------------------------------------------------------
(* The end of a refresh.                                                   *)

\* The tab forgets the refresh and holds its pair or none, those who wait for it go
\* on; where nobody knows the refresh any more, nothing else happens.
LEMMA EndShapes ==
  ASSUME IInv, NEW q \in Reqs, call[q] # Idle, NEW p,
         p = None \/ (call[q].pc = "rotated" /\ p = call[q].new),
         IF call[q].tab = None THEN UNCHANGED <<req, tab>> ELSE Settle(q, p)
  PROVE  /\ tab' \in [Tabs -> Tab] /\ req' \in [Reqs -> {Idle} \cup Fetch]
         /\ \A c \in Tabs : /\ tab'[c].flight = IF tab[c].flight = q THEN None ELSE tab[c].flight
                            /\ IF c = call[q].tab THEN tab'[c].pair = p
                                                 ELSE tab'[c].pair = tab[c].pair
         /\ \A w \in Reqs : IF req[w].pc = "waiting" /\ req[w].on = q
                            THEN req'[w].pc # "waiting" ELSE req'[w] = req[w]
<1> TypeOK /\ CallsAreOwned /\ WaitersAreAnswered /\ CallsAreUseful
  BY DEF IInv
<1>1. CASE call[q].tab = None
  <2>1. \A c \in Tabs : tab[c].flight # q
    BY <1>1, Shapes DEF WaitersAreAnswered
  <2>2. \A w \in Reqs : ~(req[w].pc = "waiting" /\ req[w].on = q)
    BY <1>1, Shapes DEF WaitersAreAnswered, Idle
  <2> QED
    BY <1>1, <2>1, <2>2, Shapes DEF TypeOK
<1>2. CASE call[q].tab # None
  <2>1. PICK b \in Tabs : b = call[q].tab
    BY <1>2, Shapes
  <2>2. p \in Pairs \cup {None}
    BY Shapes
  <2>3. tab[b].flight = q
    BY <1>2, <2>1 DEF CallsAreOwned
  <2>4. PICK t : t = [tab[b] EXCEPT !.pair = p, !.flight = None]
    OBVIOUS
  <2>5. t \in Tab /\ t.pair = p /\ t.flight = None
    BY <2>2, <2>4, Shapes DEF Tab
  <2>6. tab' = [tab EXCEPT ![b] = t]
    <3>1. tab' = [tab EXCEPT ![b].pair = IF p = None THEN None ELSE Kept(b, p),
                             ![b].flight = IF @ = q THEN None ELSE @]
      BY <1>2, <2>1 DEF Settle
    <3>2. (IF p = None THEN None ELSE Kept(b, p)) = p
      BY DEF Kept
    <3>3. tab' = [tab EXCEPT ![b].pair = p, ![b].flight = IF @ = q THEN None ELSE @]
      BY <3>1, <3>2
    <3> QED
      BY <2>3, <2>4, <3>3, Shapes DEF TypeOK, Tab
  <2>7. tab'[b] = t /\ tab' \in [Tabs -> Tab] /\ \A c \in Tabs : c # b => tab'[c] = tab[c]
    BY <2>5, <2>6 DEF TypeOK
  <2>8. ASSUME NEW c \in Tabs
        PROVE  /\ tab'[c].flight = IF tab[c].flight = q THEN None ELSE tab[c].flight
               /\ IF c = call[q].tab THEN tab'[c].pair = p ELSE tab'[c].pair = tab[c].pair
    <3>1. tab[c].flight = q => c = b
      BY <2>1, Shapes DEF WaitersAreAnswered
    <3> QED
      BY <2>1, <2>3, <2>5, <2>7, <3>1
  <2>9. req' = [w \in Reqs |->
                 IF w \notin Waiters(q) THEN req[w]
                 ELSE IF p = None THEN Idle
                 ELSE [req[w] EXCEPT !.pc = "sent", !.pair = p, !.tries = 2, !.on = None]]
    BY <1>2 DEF Settle
  <2>10. ASSUME NEW w \in Reqs
         PROVE  /\ req'[w] \in {Idle} \cup Fetch
                /\ IF req[w].pc = "waiting" /\ req[w].on = q
                   THEN req'[w].pc # "waiting" ELSE req'[w] = req[w]
    <3>1. CASE w \notin Waiters(q)
      BY <2>9, <3>1, Shapes DEF Waiters
    <3>2. CASE w \in Waiters(q)
      <4>1. req[w].pc = "waiting" /\ req[w].on = q /\ req[w] \in Fetch
        BY <3>2, Shapes DEF Waiters, Idle
      <4>2. CASE p = None
        BY <2>9, <3>2, <4>1, <4>2 DEF Idle
      <4>3. CASE p # None
        <5>1. req'[w] = [req[w] EXCEPT !.pc = "sent", !.pair = p, !.tries = 2, !.on = None]
          BY <2>9, <3>2, <4>3
        <5>2. req'[w] \in Fetch /\ req'[w].pc = "sent"
          <6>1. PICK f \in Fetch : f = req[w]
            BY <4>1
          <6>2. p \in Pairs /\ 2 \in 1..2
            BY <2>2, <4>3
          <6>3. req'[w] = [pc |-> "sent", tab |-> f.tab, setup |-> f.setup, pair |-> p,
                           tries |-> 2, on |-> None]
            BY <5>1, <6>1 DEF Fetch
          <6> QED
            BY <6>1, <6>2, <6>3 DEF Fetch
        <5> QED
          BY <4>1, <5>2
      <4> QED
        BY <4>2, <4>3
    <3> QED
      BY <3>1, <3>2
  <2>11. req' \in [Reqs -> {Idle} \cup Fetch]
    BY <2>9, <2>10
  <2> QED
    BY <2>7, <2>8, <2>10, <2>11
<1> QED
  BY <1>1, <1>2

LEMMA EndKeeps ==
  ASSUME IInv, NEW q \in Reqs, call[q] # Idle, NEW p,
         p = None \/ (call[q].pc = "rotated" /\ p = call[q].new),
         IF call[q].tab = None THEN UNCHANGED <<req, tab>> ELSE Settle(q, p),
         call' = [call EXCEPT ![q] = Idle],
         UNCHANGED <<row, fresh, active, actor, shared, changes>>
  PROVE  IInv'
<1> TypeOK /\ CallsAreOwned /\ WaitersAreAnswered /\ OneHolder /\ CallsAreUseful
      /\ HeldTokenIsUsable /\ OnlyCopiesAreRefused
  BY DEF IInv
<1>1. /\ call' \in [Reqs -> {Idle} \cup Rotation] /\ call'[q] = Idle
      /\ \A r \in Reqs : r # q => call'[r] = call[r]
  BY DEF TypeOK
<1>2. /\ tab' \in [Tabs -> Tab] /\ req' \in [Reqs -> {Idle} \cup Fetch]
      /\ \A c \in Tabs : /\ tab'[c].flight = IF tab[c].flight = q THEN None ELSE tab[c].flight
                         /\ IF c = call[q].tab THEN tab'[c].pair = p
                                              ELSE tab'[c].pair = tab[c].pair
      /\ \A w \in Reqs : IF req[w].pc = "waiting" /\ req[w].on = q
                         THEN req'[w].pc # "waiting" ELSE req'[w] = req[w]
  BY EndShapes
<1>3. Issued' = Issued
  BY DEF Issued
<1>4. p # None => /\ p \in Issued /\ LoginOf(p) = LoginOf(call[q].old)
                  /\ Private(p) => row[p].state # "revoked"
  BY DEF CallsAreUseful, Private
<1>5. \A c \in Tabs : tab'[c].pair # None =>
        \/ tab'[c].pair = tab[c].pair /\ c # call[q].tab
        \/ tab'[c].pair = p /\ c = call[q].tab
  BY <1>2
<1>6. TypeOK'
  <2>1. \A c \in Tabs : tab'[c].pair \in Issued \cup {None}
    BY <1>4, <1>5 DEF TypeOK
  <2> QED
    BY <1>1, <1>2, <1>3, <2>1 DEF TypeOK
<1>7. CallsAreOwned'
  <2>1. ASSUME NEW r \in Reqs, r # q, call[r] # Idle
        PROVE  IF call[r].tab = None THEN req'[r] = Idle
               ELSE /\ req'[r].pc = "waiting" /\ req'[r].on = r /\ req'[r].tab = call[r].tab
                    /\ tab'[call[r].tab].flight = r
    <3>1. CASE call[r].tab = None
      BY <1>2, <2>1, <3>1 DEF CallsAreOwned, Idle
    <3>2. CASE call[r].tab # None
      BY <1>2, <2>1, <3>2, Shapes DEF CallsAreOwned
    <3> QED
      BY <3>1, <3>2
  <2>2. \A w \in Reqs : req'[w].pc = "waiting" => req'[w].on \in Reqs
    BY <1>2 DEF CallsAreOwned
  <2> QED
    BY <1>1, <2>1, <2>2 DEF CallsAreOwned
<1>8. WaitersAreAnswered'
  <2>1. ASSUME NEW w \in Reqs, req'[w].pc = "waiting"
        PROVE  call'[req'[w].on] # Idle /\ call'[req'[w].on].tab = req'[w].tab
    BY <1>1, <1>2, <2>1 DEF WaitersAreAnswered, CallsAreOwned
  <2>2. ASSUME NEW c \in Tabs, tab'[c].flight # None
        PROVE  call'[tab'[c].flight] # Idle /\ call'[tab'[c].flight].tab = c
    BY <1>1, <1>2, <2>2, Shapes DEF WaitersAreAnswered
  <2> QED
    BY <2>1, <2>2 DEF WaitersAreAnswered
<1>9. OneHolder'
  <2>1. \A x : LoginOf(x)' = LoginOf(x) /\ (Private(x)' <=> Private(x))
    BY DEF LoginOf, Private
  <2>2. \A b, c \in Tabs :
          (tab'[b].pair # None /\ tab'[c].pair # None
             /\ LoginOf(tab'[b].pair) = LoginOf(tab'[c].pair) /\ Private(tab'[b].pair)) => b = c
    BY <1>4, <1>5 DEF OneHolder, Private
  <2>3. \A b \in Tabs, r \in Reqs :
          (tab'[b].pair # None /\ call'[r] # Idle /\ LoginOf(tab'[b].pair) = LoginOf(call'[r].old)
             /\ Private(tab'[b].pair)) => call'[r].tab = b
    BY <1>1, <1>4, <1>5 DEF OneHolder, Private
  <2>4. \A r, o \in Reqs :
          (call'[r] # Idle /\ call'[o] # Idle /\ LoginOf(call'[r].old) = LoginOf(call'[o].old)
             /\ Private(call'[r].old)) => r = o
    BY <1>1 DEF OneHolder
  <2>5. \A r \in Reqs :
          (call'[r] # Idle /\ call'[r].tab = None) => ~Private(call'[r].old)
    BY <1>1 DEF OneHolder
  <2> QED
    BY <2>2, <2>3, <2>4, <2>5 DEF OneHolder, LoginOf, Private
<1>10. CallsAreUseful'
  BY <1>1, <1>3 DEF CallsAreUseful, Private, LoginOf, Idle
<1>11. HeldTokenIsUsable'
  <2>1. ASSUME NEW b \in Tabs, tab'[b].pair # None, row[tab'[b].pair].state = "revoked"
        PROVE  \/ row[tab'[b].pair].login \in shared
               \/ \E r \in Reqs : call'[r].pc = "rotated" /\ call'[r].tab = b /\ call'[r].old = tab'[b].pair
    <3>1. CASE tab'[b].pair = p /\ b = call[q].tab
      BY <1>4, <2>1, <3>1 DEF Private, LoginOf
    <3>2. CASE tab'[b].pair = tab[b].pair /\ b # call[q].tab
      BY <1>1, <2>1, <3>2 DEF HeldTokenIsUsable
    <3> QED
      BY <1>5, <2>1, <3>1, <3>2
  <2> QED
    BY <2>1 DEF HeldTokenIsUsable
<1>12. OnlyCopiesAreRefused'
  BY <1>1 DEF OnlyCopiesAreRefused, Idle
<1> QED
  BY <1>6, <1>7, <1>8, <1>9, <1>10, <1>11, <1>12 DEF IInv

LEMMA CallArrivesKeeps ==
  ASSUME IInv, NEW q \in Reqs, CallArrives(q)
  PROVE  IInv'
<1>1. PICK p : p = IF call[q].pc = "rotated" THEN call[q].new ELSE None
  OBVIOUS
<1>2. call[q] # Idle
  BY DEF CallArrives, Idle
<1>3. IF call[q].tab = None THEN UNCHANGED <<req, tab>> ELSE Settle(q, p)
  BY <1>1 DEF CallArrives
<1>4. call' = [call EXCEPT ![q] = Idle] /\ UNCHANGED <<row, fresh, active, actor, shared, changes>>
  BY DEF CallArrives
<1> QED
  BY <1>1, <1>2, <1>3, <1>4, EndKeeps

LEMMA CallLostKeeps ==
  ASSUME IInv, NEW q \in Reqs, CallLost(q)
  PROVE  IInv'
BY EndKeeps DEF CallLost

\* Logging out forgets the pair; the refresh under way goes on.
LEMMA LogoutKeeps ==
  ASSUME IInv, NEW b \in Tabs, Logout(b)
  PROVE  IInv'
<1> TypeOK /\ CallsAreOwned /\ WaitersAreAnswered /\ OneHolder /\ CallsAreUseful
      /\ HeldTokenIsUsable /\ OnlyCopiesAreRefused
  BY DEF IInv
<1>1. UNCHANGED <<row, fresh, active, actor, req, call, shared, changes>>
  BY DEF Logout
<1>2. /\ tab' \in [Tabs -> Tab] /\ tab'[b].pair = None /\ tab'[b].flight = tab[b].flight
      /\ \A c \in Tabs : c # b => tab'[c] = tab[c]
  <2>1. tab' = [tab EXCEPT ![b] = [@ EXCEPT !.pair = None]]
    BY DEF Logout
  <2>2. [tab[b] EXCEPT !.pair = None] \in Tab
    BY Shapes DEF Tab
  <2> QED
    BY <2>1, <2>2, Shapes DEF TypeOK, Tab
<1>3. \A c \in Tabs : tab'[c].flight = tab[c].flight /\ (tab'[c].pair # None => tab'[c].pair = tab[c].pair)
  BY <1>2
<1>4. TypeOK'
  BY <1>1, <1>2, <1>3 DEF TypeOK, Issued
<1>5. CallsAreOwned'
  BY <1>1, <1>3, Shapes DEF CallsAreOwned
<1>6. WaitersAreAnswered'
  BY <1>1, <1>3 DEF WaitersAreAnswered
<1>7. OneHolder'
  BY <1>1, <1>3 DEF OneHolder, Private, LoginOf
<1>8. CallsAreUseful'
  BY <1>1 DEF CallsAreUseful, Private, LoginOf, Issued
<1>9. HeldTokenIsUsable'
  BY <1>1, <1>3 DEF HeldTokenIsUsable
<1>10. OnlyCopiesAreRefused'
  BY <1>1 DEF OnlyCopiesAreRefused
<1> QED
  BY <1>4, <1>5, <1>6, <1>7, <1>8, <1>9, <1>10 DEF IInv

-----------------------------------------------------------------------------
(* Two holders: a tab is loaded again, or copied.                          *)

LEMMA ReloadKeeps ==
  ASSUME IInv, NEW b \in Tabs, Reload(b)
  PROVE  IInv'
<1> TypeOK /\ CallsAreOwned /\ WaitersAreAnswered /\ OneHolder /\ CallsAreUseful
      /\ HeldTokenIsUsable /\ OnlyCopiesAreRefused
  BY DEF IInv
<1>1. UNCHANGED <<row, fresh, active, actor, changes>> /\ Issued' = Issued
  BY DEF Reload, Issued
<1>2. /\ tab' \in [Tabs -> Tab] /\ tab'[b].pair = tab[b].pair /\ tab'[b].flight = None
      /\ \A c \in Tabs : c # b => tab'[c] = tab[c]
  <2>1. tab' = [tab EXCEPT ![b] = [@ EXCEPT !.flight = None]]
    BY DEF Reload
  <2>2. [tab[b] EXCEPT !.flight = None] \in Tab
    BY Shapes DEF Tab
  <2> QED
    BY <2>1, <2>2, Shapes DEF TypeOK, Tab
<1>3. \A c \in Tabs : tab'[c].pair = tab[c].pair
  BY <1>2
<1>4. /\ req' \in [Reqs -> {Idle} \cup Fetch]
      /\ \A q \in Reqs : req'[q] = IF req[q] # Idle /\ req[q].tab = b THEN Idle ELSE req[q]
  BY DEF Reload, TypeOK
<1>5. \A q \in Reqs : IF call[q] # Idle /\ call[q].tab = b
                      THEN /\ call'[q] \in Rotation /\ call'[q] # Idle /\ call'[q].tab = None
                           /\ call'[q].old = call[q].old /\ call'[q].new = call[q].new
                           /\ call'[q].pc = call[q].pc
                      ELSE call'[q] = call[q]
  <2> SUFFICES ASSUME NEW q \in Reqs, call[q] # Idle, call[q].tab = b
               PROVE  /\ call'[q] \in Rotation /\ call'[q] # Idle /\ call'[q].tab = None
                      /\ call'[q].old = call[q].old /\ call'[q].new = call[q].new
                      /\ call'[q].pc = call[q].pc
    BY DEF Reload
  <2>1. call'[q] = [call[q] EXCEPT !.tab = None]
    BY DEF Reload
  <2>2. call[q] \in Rotation
    BY Shapes
  <2> QED
    BY <2>1, <2>2 DEF Rotation, Idle
<1>6. /\ call' \in [Reqs -> {Idle} \cup Rotation]
      /\ \A q \in Reqs : /\ call'[q] # Idle <=> call[q] # Idle
                         /\ call'[q].old = call[q].old /\ call'[q].new = call[q].new
                         /\ call'[q].pc = call[q].pc
  <2>1. DOMAIN call' = Reqs /\ call' = [q \in Reqs |-> call'[q]]
    BY DEF Reload
  <2>2. \A q \in Reqs : call'[q] \in {Idle} \cup Rotation
    BY <1>5 DEF TypeOK
  <2> QED
    BY <1>5, <2>1, <2>2
<1>7. shared' = shared \cup Underway(b) /\ Underway(b) \subseteq Issued
  BY Shapes DEF Reload, Underway, TypeOK
<1>8. \A x : LoginOf(x)' = LoginOf(x) /\ (Private(x)' => Private(x))
  BY <1>1, <1>7 DEF LoginOf, Private
<1>9. TypeOK'
  BY <1>1, <1>2, <1>3, <1>4, <1>6, <1>7 DEF TypeOK
<1>10. CallsAreOwned'
  <2>1. ASSUME NEW q \in Reqs, call'[q] # Idle
        PROVE  IF call'[q].tab = None THEN req'[q] = Idle
               ELSE /\ req'[q].pc = "waiting" /\ req'[q].on = q /\ req'[q].tab = call'[q].tab
                    /\ tab'[call'[q].tab].flight = q
    <3>1. CASE call[q].tab = b
      BY <1>4, <1>5, <1>6, <2>1, <3>1, Shapes DEF CallsAreOwned, Idle
    <3>2. CASE call[q].tab # b
      BY <1>2, <1>4, <1>5, <1>6, <2>1, <3>2, Shapes DEF CallsAreOwned
    <3> QED
      BY <3>1, <3>2
  <2>2. \A w \in Reqs : req'[w].pc = "waiting" => req'[w].on \in Reqs
    BY <1>4 DEF CallsAreOwned, Idle
  <2> QED
    BY <2>1, <2>2 DEF CallsAreOwned
<1>11. WaitersAreAnswered'
  <2>1. ASSUME NEW w \in Reqs, req'[w].pc = "waiting"
        PROVE  call'[req'[w].on] # Idle /\ call'[req'[w].on].tab = req'[w].tab
    <3>1. req'[w] = req[w] /\ req[w].tab # b /\ req[w].on \in Reqs
      BY <1>4, <2>1 DEF Idle, CallsAreOwned
    <3> QED
      BY <1>5, <2>1, <3>1 DEF WaitersAreAnswered
  <2>2. ASSUME NEW c \in Tabs, tab'[c].flight # None
        PROVE  call'[tab'[c].flight] # Idle /\ call'[tab'[c].flight].tab = c
    <3>1. c # b /\ tab'[c] = tab[c] /\ tab[c].flight \in Reqs
      BY <1>2, <2>2, Shapes
    <3> QED
      BY <1>5, <2>2, <3>1 DEF WaitersAreAnswered
  <2> QED
    BY <2>1, <2>2 DEF WaitersAreAnswered
<1>12. \A q \in Reqs : call[q] # Idle /\ call[q].tab = b => LoginOf(call[q].old) \in shared'
  BY <1>7 DEF Underway, LoginOf
<1>13. OneHolder'
  <2>1. \A c, d \in Tabs :
          (tab'[c].pair # None /\ tab'[d].pair # None
             /\ LoginOf(tab'[c].pair) = LoginOf(tab'[d].pair) /\ LoginOf(tab'[c].pair) \notin shared')
          => c = d
    BY <1>3, <1>7 DEF OneHolder, Private
  <2>2. \A c \in Tabs, q \in Reqs :
          (tab'[c].pair # None /\ call'[q] # Idle /\ LoginOf(tab'[c].pair) = LoginOf(call'[q].old)
             /\ LoginOf(tab'[c].pair) \notin shared') => call'[q].tab = c
    BY <1>3, <1>5, <1>6, <1>7, <1>12 DEF OneHolder, Private
  <2>3. \A q, r \in Reqs :
          (call'[q] # Idle /\ call'[r] # Idle /\ LoginOf(call'[q].old) = LoginOf(call'[r].old)
             /\ LoginOf(call'[q].old) \notin shared') => q = r
    BY <1>6, <1>7 DEF OneHolder, Private
  <2>4. \A q \in Reqs :
          (call'[q] # Idle /\ call'[q].tab = None) => LoginOf(call'[q].old) \in shared'
    BY <1>5, <1>6, <1>7, <1>12 DEF OneHolder, Private
  <2> QED
    BY <1>1, <2>1, <2>2, <2>3, <2>4 DEF OneHolder, LoginOf, Private
<1>14. CallsAreUseful'
  BY <1>1, <1>6, <1>7 DEF CallsAreUseful, Private, LoginOf
<1>15. HeldTokenIsUsable'
  <2>1. ASSUME NEW c \in Tabs, tab'[c].pair # None, row[tab'[c].pair].state = "revoked",
               row[tab'[c].pair].login \notin shared'
        PROVE  \E r \in Reqs : call'[r].pc = "rotated" /\ call'[r].tab = c /\ call'[r].old = tab'[c].pair
    <3>1. PICK r \in Reqs : call[r].pc = "rotated" /\ call[r].tab = c /\ call[r].old = tab[c].pair
      BY <1>3, <1>7, <2>1 DEF HeldTokenIsUsable
    <3>2. call[r] # Idle /\ LoginOf(call[r].old) \notin shared'
      BY <1>3, <2>1, <3>1 DEF Idle, LoginOf
    <3>3. call'[r] = call[r]
      BY <1>5, <1>12, <3>1, <3>2
    <3> QED
      BY <1>3, <3>1, <3>3
  <2> QED
    BY <1>1, <2>1 DEF HeldTokenIsUsable
<1>16. OnlyCopiesAreRefused'
  BY <1>1, <1>6, <1>7 DEF OnlyCopiesAreRefused
<1> QED
  BY <1>9, <1>10, <1>11, <1>13, <1>14, <1>15, <1>16 DEF IInv

LEMMA CopyKeeps ==
  ASSUME IInv, NEW b \in Tabs, NEW c \in Tabs \ {b}, Copy(b, c)
  PROVE  IInv'
<1> TypeOK /\ CallsAreOwned /\ WaitersAreAnswered /\ OneHolder /\ CallsAreUseful
      /\ HeldTokenIsUsable /\ OnlyCopiesAreRefused
  BY DEF IInv
<1>1. UNCHANGED <<row, fresh, active, actor, req, call, changes>> /\ Issued' = Issued
  BY DEF Copy, Issued
<1>2. PICK p : p = tab[b].pair
  OBVIOUS
<1>3. p \in Issued /\ p \in Pairs /\ p # None
  BY <1>2, Shapes DEF Copy
<1>4. /\ tab' \in [Tabs -> Tab] /\ tab'[c].pair = p /\ tab'[c].flight = tab[c].flight
      /\ \A d \in Tabs : d # c => tab'[d] = tab[d]
  <2>1. tab' = [tab EXCEPT ![c] = [@ EXCEPT !.pair = p]]
    BY <1>2 DEF Copy
  <2>2. [tab[c] EXCEPT !.pair = p] \in Tab
    BY <1>3, Shapes DEF Tab
  <2> QED
    BY <2>1, <2>2, Shapes DEF TypeOK, Tab
<1>5. \A d \in Tabs : tab'[d].flight = tab[d].flight /\ (d # c => tab'[d].pair = tab[d].pair)
  BY <1>4
<1>6. shared' = shared \cup Underway(b) \cup {LoginOf(p)} /\ shared' \subseteq Issued
  <2>1. Underway(b) \subseteq Issued
    BY Shapes DEF Underway, TypeOK
  <2> QED
    BY <1>2, <1>3, <2>1 DEF Copy, LoginOf, TypeOK
<1>7. TypeOK'
  BY <1>1, <1>3, <1>4, <1>5, <1>6 DEF TypeOK
<1>8. CallsAreOwned'
  BY <1>1, <1>5, Shapes DEF CallsAreOwned
<1>9. WaitersAreAnswered'
  BY <1>1, <1>5 DEF WaitersAreAnswered
<1>10. OneHolder'
  <2>1. \A d \in Tabs : LoginOf(tab'[d].pair) \notin shared' => d # c /\ LoginOf(tab[d].pair) \notin shared
    BY <1>4, <1>5, <1>6
  <2>2. \A d, e \in Tabs :
          (tab'[d].pair # None /\ tab'[e].pair # None
             /\ LoginOf(tab'[d].pair) = LoginOf(tab'[e].pair) /\ LoginOf(tab'[d].pair) \notin shared')
          => d = e
    BY <1>5, <2>1 DEF OneHolder, Private
  <2>3. \A d \in Tabs, q \in Reqs :
          (tab'[d].pair # None /\ call[q] # Idle /\ LoginOf(tab'[d].pair) = LoginOf(call[q].old)
             /\ LoginOf(tab'[d].pair) \notin shared') => call[q].tab = d
    BY <1>5, <2>1 DEF OneHolder, Private
  <2>4. \A q, r \in Reqs :
          (call[q] # Idle /\ call[r] # Idle /\ LoginOf(call[q].old) = LoginOf(call[r].old)
             /\ LoginOf(call[q].old) \notin shared') => q = r
    BY <1>6 DEF OneHolder, Private
  <2>5. \A q \in Reqs : (call[q] # Idle /\ call[q].tab = None) => LoginOf(call[q].old) \in shared'
    BY <1>6 DEF OneHolder, Private
  <2> QED
    BY <1>1, <2>2, <2>3, <2>4, <2>5 DEF OneHolder, LoginOf, Private
<1>11. CallsAreUseful'
  BY <1>1, <1>6 DEF CallsAreUseful, Private, LoginOf
<1>12. HeldTokenIsUsable'
  BY <1>1, <1>4, <1>5, <1>6 DEF HeldTokenIsUsable, LoginOf
<1>13. OnlyCopiesAreRefused'
  BY <1>1, <1>6 DEF OnlyCopiesAreRefused
<1> QED
  BY <1>7, <1>8, <1>9, <1>10, <1>11, <1>12, <1>13 DEF IInv

-----------------------------------------------------------------------------
(* Steps of the server that change the rows.                               *)

\* What is said of the requests and of whose refresh is whose.
LEMMA OwnersStay ==
  ASSUME CallsAreOwned, WaitersAreAnswered, UNCHANGED req,
         \A b \in Tabs : tab'[b].flight = tab[b].flight,
         \A q \in Reqs : (call'[q] # Idle <=> call[q] # Idle) /\ call'[q].tab = call[q].tab,
         TypeOK
  PROVE  CallsAreOwned' /\ WaitersAreAnswered'
<1>1. CallsAreOwned'
  BY Shapes DEF CallsAreOwned
<1>2. WaitersAreAnswered'
  <2>1. ASSUME NEW w \in Reqs, req'[w].pc = "waiting"
        PROVE  call'[req'[w].on] # Idle /\ call'[req'[w].on].tab = req'[w].tab
    BY <2>1 DEF WaitersAreAnswered, CallsAreOwned
  <2>2. ASSUME NEW c \in Tabs, tab'[c].flight # None
        PROVE  call'[tab'[c].flight] # Idle /\ call'[tab'[c].flight].tab = c
    BY <2>2, Shapes DEF WaitersAreAnswered
  <2> QED
    BY <2>1, <2>2 DEF WaitersAreAnswered
<1> QED
  BY <1>1, <1>2

\* The server answers a refresh: no other field of it changes.
LEMMA ServedShapes ==
  ASSUME TypeOK, NEW q \in Reqs, call[q].pc = "sent", NEW v \in {"rotated", "used", "expired", "inactive"},
         NEW n \in Pairs \cup {None}, call' = [call EXCEPT ![q] = [@ EXCEPT !.pc = v, !.new = n]]
  PROVE  /\ call' \in [Reqs -> {Idle} \cup Rotation]
         /\ call'[q].pc = v /\ call'[q].new = n
         /\ \A r \in Reqs : /\ call'[r] # Idle <=> call[r] # Idle
                            /\ call'[r].tab = call[r].tab /\ call'[r].old = call[r].old
                            /\ r # q => call'[r] = call[r]
<1>1. call[q] \in Rotation /\ call[q] # Idle
  BY Shapes DEF Idle
<1>2. PICK f : f = [call[q] EXCEPT !.pc = v, !.new = n]
  OBVIOUS
<1>3. f \in Rotation /\ f # Idle /\ f.pc = v /\ f.new = n /\ f.tab = call[q].tab /\ f.old = call[q].old
  BY <1>1, <1>2 DEF Rotation, Idle
<1>4. call' = [call EXCEPT ![q] = f]
  BY <1>2
<1> QED
  BY <1>1, <1>3, <1>4 DEF TypeOK

\* A refusal: the token is used only where the login has two holders.
LEMMA RefusedKeeps ==
  ASSUME IInv, NEW q \in Reqs, CallServed(q), Verdict(call[q].old) # "rotated"
  PROVE  IInv'
<1> TypeOK /\ CallsAreOwned /\ WaitersAreAnswered /\ OneHolder /\ CallsAreUseful
      /\ HeldTokenIsUsable /\ OnlyCopiesAreRefused
  BY DEF IInv
<1>1. UNCHANGED <<row, fresh, active, actor, tab, req, shared, changes>> /\ Issued' = Issued
  BY DEF CallServed, Issued
<1>2. PICK v \in {"used", "expired", "inactive"} :
        v = Verdict(call[q].old) /\ (v = "used" => row[call[q].old].state = "revoked")
  BY DEF Verdict
<1>3. call[q].pc = "sent" /\ call' = [call EXCEPT ![q] = [@ EXCEPT !.pc = v, !.new = call[q].new]]
  <2>1. call[q].pc = "sent" /\ call' = [call EXCEPT ![q].pc = v]
    BY <1>2 DEF CallServed
  <2>2. call[q] \in Rotation
    BY <2>1, Shapes DEF Idle
  <2>3. [call[q] EXCEPT !.pc = v] = [call[q] EXCEPT !.pc = v, !.new = call[q].new]
    BY <2>2 DEF Rotation
  <2> QED
    BY <2>1, <2>3
<1>4. /\ call' \in [Reqs -> {Idle} \cup Rotation]
      /\ call'[q].pc = v
      /\ \A r \in Reqs : /\ call'[r] # Idle <=> call[r] # Idle
                         /\ call'[r].tab = call[r].tab /\ call'[r].old = call[r].old
                         /\ r # q => call'[r] = call[r]
  <2>1. call[q].new \in Pairs \cup {None}
    BY <1>3, Shapes DEF Idle
  <2> QED
    BY <1>2, <1>3, <2>1, ServedShapes
<1>5. TypeOK'
  BY <1>1, <1>4 DEF TypeOK
<1>6. CallsAreOwned' /\ WaitersAreAnswered'
  BY <1>1, <1>4, OwnersStay
<1>7. OneHolder'
  BY <1>1, <1>4 DEF OneHolder, Private, LoginOf
<1>8. CallsAreUseful'
  BY <1>1, <1>2, <1>4 DEF CallsAreUseful, Private, LoginOf
<1>9. HeldTokenIsUsable'
  BY <1>1, <1>3, <1>4 DEF HeldTokenIsUsable
<1>10. OnlyCopiesAreRefused'
  BY <1>1, <1>2, <1>3, <1>4 DEF OnlyCopiesAreRefused, CallsAreUseful, Private, LoginOf
<1> QED
  BY <1>5, <1>6, <1>7, <1>8, <1>9, <1>10 DEF IInv

\* A rotation: one token of the login is used, and a new one takes its place.
LEMMA RotatedKeeps ==
  ASSUME IInv, NEW q \in Reqs, CallServed(q), Verdict(call[q].old) = "rotated"
  PROVE  IInv'
<1> TypeOK /\ CallsAreOwned /\ WaitersAreAnswered /\ OneHolder /\ CallsAreUseful
      /\ HeldTokenIsUsable /\ OnlyCopiesAreRefused
  BY DEF IInv
<1>1. UNCHANGED <<active, actor, tab, req, shared, changes>>
  BY DEF CallServed
<1>2. PICK o : o = call[q].old
  OBVIOUS
<1>3. PICK n \in Pairs : n = NewPair /\ n \notin Issued
  BY NewPairIsNew DEF CallServed
<1>4. /\ call[q].pc = "sent" /\ call[q] # Idle
      /\ o \in Issued /\ o \in Pairs /\ o # n /\ row[o].state = "live"
  BY <1>2, <1>3, Shapes DEF CallServed, Verdict, Idle, Issued
<1>5. /\ fresh' = fresh \cup {n}
      /\ call' = [call EXCEPT ![q] = [@ EXCEPT !.pc = "rotated", !.new = n]]
      /\ row' = [row EXCEPT ![n] = [state |-> "live", login |-> row[o].login], ![o].state = "revoked"]
  <2>1. /\ fresh' = fresh \cup {n}
        /\ call' = [call EXCEPT ![q].pc = "rotated", ![q].new = n]
        /\ row' = Rotated(o)
    BY <1>2, <1>3 DEF CallServed
  <2>2. call' = [call EXCEPT ![q] = [@ EXCEPT !.pc = "rotated", !.new = n]]
    BY <1>4, <2>1, Shapes DEF TypeOK, Rotation
  <2> QED
    BY <1>3, <2>1, <2>2 DEF Rotated
<1>6. /\ call' \in [Reqs -> {Idle} \cup Rotation]
      /\ call'[q].pc = "rotated" /\ call'[q].new = n
      /\ \A r \in Reqs : /\ call'[r] # Idle <=> call[r] # Idle
                         /\ call'[r].tab = call[r].tab /\ call'[r].old = call[r].old
                         /\ r # q => call'[r] = call[r]
  BY <1>3, <1>4, <1>5, ServedShapes
<1>7. /\ row' \in [Pairs -> Row]
      /\ row'[n].state = "live" /\ row'[n].login = row[o].login
      /\ row'[o].state = "revoked" /\ row'[o].login = row[o].login
      /\ \A p \in Pairs : p # n /\ p # o => row'[p] = row[p]
  <2>1. row[o] \in Row /\ row[o].login \in Pairs \cup {0}
    BY <1>4, Shapes DEF Row
  <2>2. PICK x : x = [row[o] EXCEPT !.state = "revoked"]
    OBVIOUS
  <2>3. x \in Row /\ x.state = "revoked" /\ x.login = row[o].login
    BY <2>1, <2>2 DEF Row
  <2>4. PICK y : y = [state |-> "live", login |-> row[o].login]
    OBVIOUS
  <2>5. y \in Row /\ y.state = "live" /\ y.login = row[o].login
    BY <2>1, <2>4 DEF Row
  <2>6. row' = [row EXCEPT ![n] = y, ![o] = x]
    BY <1>4, <1>5, <2>2, <2>4 DEF TypeOK
  <2> QED
    BY <1>4, <2>3, <2>5, <2>6 DEF TypeOK
<1>8. Issued' = Issued \cup {n}
  BY <1>3, <1>4, <1>7 DEF Issued
<1>9. \A p \in Issued : p \in Pairs /\ row'[p].login = row[p].login
  BY <1>3, <1>7 DEF Issued
<1>10. TypeOK'
  <2>1. \A p \in Issued' : row'[p].login \in Issued'
    BY <1>4, <1>7, <1>8, <1>9 DEF TypeOK
  <2>2. \A r \in Reqs : call'[r] # Idle => call'[r].old \in Issued'
    BY <1>6, <1>8 DEF TypeOK
  <2>3. \A b \in Tabs : tab'[b].pair \in Issued' \cup {None}
    BY <1>1, <1>8 DEF TypeOK
  <2>4. fresh' \subseteq Issued' /\ shared' \subseteq Issued'
    BY <1>1, <1>5, <1>8 DEF TypeOK
  <2> QED
    BY <1>1, <1>6, <1>7, <2>1, <2>2, <2>3, <2>4 DEF TypeOK
<1>11. CallsAreOwned' /\ WaitersAreAnswered'
  BY <1>1, <1>6, OwnersStay
<1>12. \A r \in Reqs : call[r] # Idle => call[r].old \in Issued /\ row'[call[r].old].login = row[call[r].old].login
  BY <1>9, Shapes
<1>13. \A b \in Tabs : tab[b].pair # None =>
         tab[b].pair \in Issued /\ tab[b].pair \in Pairs /\ row'[tab[b].pair].login = row[tab[b].pair].login
  BY <1>9, Shapes
<1>14. OneHolder'
  BY <1>1, <1>6, <1>12, <1>13 DEF OneHolder, Private, LoginOf
<1>15. CallsAreUseful'
  <2>1. ASSUME NEW r \in Reqs, call'[r].pc = "sent", row[call[r].old].login \notin shared
        PROVE  row'[call[r].old].state # "revoked"
    <3>1. r # q /\ call[r].pc = "sent" /\ call[r] # Idle
      BY <1>6, <2>1 DEF Idle
    <3>2. row[call[r].old].state # "revoked"
      BY <2>1, <3>1 DEF CallsAreUseful, Private, LoginOf
    <3>3. call[r].old # o
      BY <1>2, <1>4, <2>1, <3>1 DEF OneHolder, Private, LoginOf
    <3> QED
      BY <1>3, <1>7, <1>12, <3>1, <3>2, <3>3 DEF Issued
  <2>2. ASSUME NEW r \in Reqs, call'[r].pc = "rotated"
        PROVE  /\ call'[r].new \in Issued' /\ row'[call'[r].new].login = row'[call'[r].old].login
               /\ row'[call'[r].old].login \notin shared => row'[call'[r].new].state # "revoked"
    <3>1. CASE r = q
      BY <1>2, <1>6, <1>7, <1>8, <3>1
    <3>2. CASE r # q
      <4>1. call'[r] = call[r] /\ call[r].pc = "rotated" /\ call[r] # Idle
        BY <1>6, <2>2, <3>2 DEF Idle
      <4>2. call[r].new \in Issued /\ row[call[r].new].login = row[call[r].old].login
        BY <4>1 DEF CallsAreUseful, LoginOf
      <4>3. row[call[r].old].login \notin shared => row[call[r].new].state # "revoked" /\ call[r].new # o
        BY <1>2, <1>4, <3>2, <4>1, <4>2 DEF CallsAreUseful, OneHolder, Private, LoginOf
      <4> QED
        BY <1>3, <1>7, <1>8, <1>9, <1>12, <4>1, <4>2, <4>3
    <3> QED
      BY <3>1, <3>2
  <2>3. \A r \in Reqs : call'[r].pc = "sent" =>
          call[r] # Idle /\ call'[r].old = call[r].old /\ row'[call[r].old].login = row[call[r].old].login
    BY <1>6, <1>12 DEF Idle
  <2> QED
    BY <1>1, <2>1, <2>2, <2>3 DEF CallsAreUseful, Private, LoginOf
<1>16. HeldTokenIsUsable'
  <2>1. ASSUME NEW x \in Pairs, NEW y \in Pairs, row'[x].state = "live", row'[y].state = "live",
               row'[x].login = row'[y].login
        PROVE  x = y
    <3>1. x # o /\ y # o
      BY <1>7, <2>1
    <3>2. \A z \in Pairs : z # n /\ z # o /\ row[z].state = "live" => row[z].login # row[o].login
      BY <1>4 DEF HeldTokenIsUsable
    <3> QED
      BY <1>7, <2>1, <3>1, <3>2 DEF HeldTokenIsUsable
  <2>2. ASSUME NEW b \in Tabs, tab[b].pair # None, row'[tab[b].pair].state = "revoked",
               row[tab[b].pair].login \notin shared
        PROVE  \E r \in Reqs : call'[r].pc = "rotated" /\ call'[r].tab = b /\ call'[r].old = tab[b].pair
    <3>1. CASE tab[b].pair = o
      <4>1. call[q].tab = b
        BY <1>2, <1>4, <2>2, <3>1 DEF OneHolder, Private, LoginOf
      <4> QED
        BY <1>2, <1>6, <3>1, <4>1
    <3>2. CASE tab[b].pair # o
      <4>1. row[tab[b].pair].state = "revoked"
        BY <1>3, <1>7, <1>13, <2>2, <3>2
      <4>2. PICK r \in Reqs : call[r].pc = "rotated" /\ call[r].tab = b /\ call[r].old = tab[b].pair
        BY <2>2, <4>1 DEF HeldTokenIsUsable
      <4> QED
        BY <1>4, <1>6, <4>2
    <3> QED
      BY <3>1, <3>2
  <2> QED
    BY <1>1, <1>13, <2>1, <2>2 DEF HeldTokenIsUsable
<1>17. OnlyCopiesAreRefused'
  BY <1>1, <1>6, <1>12 DEF OnlyCopiesAreRefused, Idle
<1> QED
  BY <1>10, <1>11, <1>14, <1>15, <1>16, <1>17 DEF IInv

\* The first pair of a login: nobody has held one of it.
LEMMA IssueKeeps ==
  ASSUME IInv, NEW b \in Tabs, Issue(b)
  PROVE  IInv'
<1> TypeOK /\ CallsAreOwned /\ WaitersAreAnswered /\ OneHolder /\ CallsAreUseful
      /\ HeldTokenIsUsable /\ OnlyCopiesAreRefused
  BY DEF IInv
<1>1. UNCHANGED <<active, actor, req, call, shared, changes>>
  BY DEF Issue
<1>2. PICK n \in Pairs : n = NewPair /\ n \notin Issued
  BY NewPairIsNew DEF Issue
<1>3. /\ fresh' = fresh \cup {n} /\ row' = [row EXCEPT ![n] = [state |-> "live", login |-> n]]
      /\ tab' = [tab EXCEPT ![b] = [@ EXCEPT !.pair = n]] /\ tab[b].pair = None
  BY <1>2 DEF Issue
<1>4. /\ row' \in [Pairs -> Row] /\ row'[n].state = "live" /\ row'[n].login = n
      /\ \A p \in Pairs : p # n => row'[p] = row[p]
  <2>1. PICK y : y = [state |-> "live", login |-> n]
    OBVIOUS
  <2>2. y \in Row /\ y.state = "live" /\ y.login = n
    BY <2>1 DEF Row
  <2>3. row' = [row EXCEPT ![n] = y]
    BY <1>3, <2>1
  <2> QED
    BY <2>2, <2>3 DEF TypeOK
<1>5. /\ tab' \in [Tabs -> Tab] /\ tab'[b].pair = n /\ tab'[b].flight = tab[b].flight
      /\ \A c \in Tabs : c # b => tab'[c] = tab[c]
  <2>1. [tab[b] EXCEPT !.pair = n] \in Tab
    BY Shapes DEF Tab
  <2> QED
    BY <1>3, <2>1, Shapes DEF TypeOK, Tab
<1>6. \A c \in Tabs : tab'[c].flight = tab[c].flight /\ (c # b => tab'[c].pair = tab[c].pair)
  BY <1>5
<1>7. Issued' = Issued \cup {n}
  BY <1>2, <1>4 DEF Issued
<1>8. \A p \in Issued : p \in Pairs /\ p # n /\ row'[p] = row[p] /\ row[p].login # n
  BY <1>2, <1>4 DEF Issued, TypeOK
<1>9. n \notin shared
  BY <1>2 DEF TypeOK
<1>10. TypeOK'
  <2>1. \A p \in Issued' : row'[p].login \in Issued'
    BY <1>4, <1>7, <1>8 DEF TypeOK
  <2>2. \A c \in Tabs : tab'[c].pair \in Issued' \cup {None}
    BY <1>5, <1>6, <1>7 DEF TypeOK
  <2>3. \A r \in Reqs : call'[r] # Idle => call'[r].old \in Issued'
    BY <1>1, <1>7 DEF TypeOK
  <2>4. fresh' \subseteq Issued' /\ shared' \subseteq Issued'
    BY <1>1, <1>3, <1>7 DEF TypeOK
  <2> QED
    BY <1>1, <1>4, <1>5, <2>1, <2>2, <2>3, <2>4 DEF TypeOK
<1>11. CallsAreOwned' /\ WaitersAreAnswered'
  BY <1>1, <1>6, OwnersStay
<1>12. \A r \in Reqs : call[r] # Idle => call[r].old \in Issued
  BY Shapes
<1>13. \A c \in Tabs : c # b /\ tab'[c].pair # None =>
         tab'[c].pair = tab[c].pair /\ tab[c].pair \in Issued
  BY <1>6, Shapes
<1>14. OneHolder'
  <2>1. \A c, d \in Tabs :
          (tab'[c].pair # None /\ tab'[d].pair # None
             /\ row'[tab'[c].pair].login = row'[tab'[d].pair].login
             /\ row'[tab'[c].pair].login \notin shared) => c = d
    BY <1>4, <1>5, <1>8, <1>13 DEF OneHolder, Private, LoginOf
  <2>2. \A c \in Tabs, r \in Reqs :
          (tab'[c].pair # None /\ call[r] # Idle /\ row'[tab'[c].pair].login = row'[call[r].old].login
             /\ row'[tab'[c].pair].login \notin shared) => call[r].tab = c
    BY <1>4, <1>5, <1>8, <1>12, <1>13 DEF OneHolder, Private, LoginOf
  <2>3. \A r, s \in Reqs :
          (call[r] # Idle /\ call[s] # Idle /\ row'[call[r].old].login = row'[call[s].old].login
             /\ row'[call[r].old].login \notin shared) => r = s
    BY <1>8, <1>12 DEF OneHolder, Private, LoginOf
  <2>4. \A r \in Reqs : (call[r] # Idle /\ call[r].tab = None) => row'[call[r].old].login \in shared
    BY <1>8, <1>12 DEF OneHolder, Private, LoginOf
  <2> QED
    BY <1>1, <2>1, <2>2, <2>3, <2>4 DEF OneHolder, Private, LoginOf
<1>15. CallsAreUseful'
  BY <1>1, <1>7, <1>8, <1>12 DEF CallsAreUseful, Private, LoginOf, Idle
<1>16. HeldTokenIsUsable'
  <2>1. ASSUME NEW x \in Pairs, NEW y \in Pairs, row'[x].state = "live", row'[y].state = "live",
               row'[x].login = row'[y].login
        PROVE  x = y
    <3>1. \A z \in Pairs : z # n /\ row'[z].state = "live" => row'[z].login # n /\ row'[z] = row[z]
      BY <1>4, <1>8 DEF Issued
    <3> QED
      BY <1>4, <2>1, <3>1 DEF HeldTokenIsUsable
  <2>2. ASSUME NEW c \in Tabs, tab'[c].pair # None, row'[tab'[c].pair].state = "revoked"
        PROVE  \/ row'[tab'[c].pair].login \in shared
               \/ \E r \in Reqs : call[r].pc = "rotated" /\ call[r].tab = c /\ call[r].old = tab'[c].pair
    BY <1>4, <1>5, <1>8, <1>13, <2>2 DEF HeldTokenIsUsable
  <2> QED
    BY <1>1, <2>1, <2>2 DEF HeldTokenIsUsable
<1>17. OnlyCopiesAreRefused'
  BY <1>1, <1>8, <1>12 DEF OnlyCopiesAreRefused, Idle
<1> QED
  BY <1>10, <1>11, <1>14, <1>15, <1>16, <1>17 DEF IInv

\* A token that expires was not used: nothing is said of it any more.
LEMMA RefreshExpiresKeeps ==
  ASSUME IInv, NEW p \in Pairs, RefreshExpires(p)
  PROVE  IInv'
<1> TypeOK /\ CallsAreOwned /\ WaitersAreAnswered /\ OneHolder /\ CallsAreUseful
      /\ HeldTokenIsUsable /\ OnlyCopiesAreRefused
  BY DEF IInv
<1>1. UNCHANGED <<fresh, active, actor, tab, req, call, shared>> /\ changes' \in 0..MaxChanges
  BY BoundAssumption DEF RefreshExpires, Changes, TypeOK
<1>2. /\ row' \in [Pairs -> Row] /\ row[p].state = "live" /\ row'[p].state = "expired"
      /\ \A x \in Pairs : row'[x].login = row[x].login /\ (x # p => row'[x] = row[x])
  <2>1. PICK y : y = [row[p] EXCEPT !.state = "expired"]
    OBVIOUS
  <2>2. y \in Row /\ y.state = "expired" /\ y.login = row[p].login
    BY <2>1, Shapes DEF Row
  <2>3. row' = [row EXCEPT ![p] = y] /\ row[p].state = "live"
    BY <2>1 DEF RefreshExpires
  <2> QED
    BY <2>2, <2>3 DEF TypeOK
<1>3. Issued' = Issued
  BY <1>2 DEF Issued
<1>4. \A x \in Pairs : /\ row'[x].state = "revoked" <=> row[x].state = "revoked"
                      /\ row'[x].state = "live" => row[x].state = "live"
  BY <1>2
<1>5. \A x \in Issued : x \in Pairs
  BY DEF Issued
<1>6. TypeOK'
  BY <1>1, <1>2, <1>3, <1>5 DEF TypeOK
<1>7. CallsAreOwned' /\ WaitersAreAnswered'
  BY <1>1, OwnersStay
<1>8. OneHolder'
  BY <1>1, <1>2, Shapes DEF OneHolder, Private, LoginOf
<1>9. CallsAreUseful'
  <2>1. \A r \in Reqs : call[r].pc # "idle" => call[r].old \in Pairs
    BY Shapes
  <2> QED
    BY <1>1, <1>2, <1>3, <1>4, <1>5, <2>1 DEF CallsAreUseful, Private, LoginOf
<1>10. HeldTokenIsUsable'
  BY <1>1, <1>2, <1>4, Shapes DEF HeldTokenIsUsable
<1>11. OnlyCopiesAreRefused'
  BY <1>1, <1>2, Shapes DEF OnlyCopiesAreRefused, Idle
<1> QED
  BY <1>6, <1>7, <1>8, <1>9, <1>10, <1>11 DEF IInv

-----------------------------------------------------------------------------
(* The theorems.                                                           *)

LEMMA InitHolds == Init => IInv
<1> SUFFICES ASSUME Init  PROVE IInv
  OBVIOUS
<1>1. Issued = {} /\ \A p \in Pairs : row[p].state = "none"
  BY DEF Init, Issued
<1>2. [state |-> "none", login |-> 0] \in Row /\ [pair |-> None, flight |-> None] \in Tab
  BY DEF Row, Tab
<1>3. \A q \in Reqs : req[q] = Idle /\ call[q] = Idle
  BY DEF Init
<1>4. Idle.pc = "idle"
  BY DEF Idle
<1>5. \A b \in Tabs : tab[b].pair = None /\ tab[b].flight = None
  BY DEF Init
<1>6. active \in [user : BOOLEAN, company : BOOLEAN] /\ changes \in 0..MaxChanges
  <2>1. active \in [user : {TRUE}, company : BOOLEAN]
    BY DEF Init
  <2>2. changes \in 0..MaxChanges
    BY BoundAssumption DEF Init
  <2> QED
    BY <2>1, <2>2
<1>7. TypeOK
  BY <1>1, <1>2, <1>3, <1>5, <1>6 DEF TypeOK, Init
<1>8. CallsAreOwned /\ WaitersAreAnswered
  BY <1>3, <1>4, <1>5 DEF CallsAreOwned, WaitersAreAnswered
<1>9. OneHolder /\ CallsAreUseful
  BY <1>3, <1>4, <1>5 DEF OneHolder, CallsAreUseful
<1>10. HeldTokenIsUsable /\ OnlyCopiesAreRefused
  BY <1>1, <1>3, <1>4, <1>5 DEF HeldTokenIsUsable, OnlyCopiesAreRefused
<1> QED
  BY <1>7, <1>8, <1>9, <1>10 DEF IInv

LEMMA NextKeeps == IInv /\ [Next]_vars => IInv'
<1> SUFFICES ASSUME IInv, [Next]_vars  PROVE IInv'
  OBVIOUS
<1>1. ASSUME NEW q \in Reqs, Progress(q)  PROVE IInv'
  BY <1>1, ServeKeeps, LoseKeeps, DeniedKeeps, RefusedKeeps, RotatedKeeps, CallArrivesKeeps,
     CallLostKeeps DEF Progress
<1>2. ASSUME NEW q \in Reqs, NEW b \in Tabs, NEW setup \in BOOLEAN, Send(q, b, setup)  PROVE IInv'
  BY <1>2, SendKeeps
<1>3. ASSUME NEW b \in Tabs, Login(b) \/ Register(b)  PROVE IInv'
  BY <1>3, IssueKeeps DEF Login, Register
<1>4. ASSUME NEW b \in Tabs, Logout(b) \/ Reload(b) \/ \E c \in Tabs \ {b} : Copy(b, c)  PROVE IInv'
  BY <1>4, LogoutKeeps, ReloadKeeps, CopyKeeps
<1>5. ASSUME NEW p \in Pairs, RefreshExpires(p)  PROVE IInv'
  BY <1>5, RefreshExpiresKeeps
<1>6. changes \in 0..MaxChanges /\ active \in [user : BOOLEAN, company : BOOLEAN]
  BY DEF IInv, TypeOK
<1>7. (changes < MaxChanges /\ changes' = changes + 1) => changes' \in 0..MaxChanges
  BY <1>6, BoundAssumption
<1>8. ASSUME NEW p \in Pairs, AccessExpires(p)  PROVE IInv'
  <2>1. UNCHANGED <<row, tab, req, call, shared, actor>> /\ fresh' \subseteq fresh
        /\ active' = active /\ changes' \in 0..MaxChanges
    BY <1>7, <1>8 DEF AccessExpires, Changes
  <2> QED
    BY <1>6, <2>1, OthersKeep
<1>9. ASSUME Deactivates  PROVE IInv'
  <2>1. UNCHANGED <<row, tab, req, call, shared, actor>> /\ fresh' \subseteq fresh
        /\ changes' \in 0..MaxChanges
    BY <1>7, <1>9 DEF Deactivates, Changes
  <2>2. active' \in [user : BOOLEAN, company : BOOLEAN]
    BY <1>6, <1>9 DEF Deactivates
  <2> QED
    BY <2>1, <2>2, OthersKeep
<1>10. ASSUME Activates  PROVE IInv'
  <2>1. UNCHANGED <<row, tab, req, call, shared, actor>> /\ fresh' \subseteq fresh
        /\ changes' \in 0..MaxChanges
    BY <1>6, <1>10 DEF Activates
  <2>2. active' \in [user : BOOLEAN, company : BOOLEAN]
    BY <1>6, <1>10 DEF Activates
  <2> QED
    BY <2>1, <2>2, OthersKeep
<1>11. ASSUME UNCHANGED vars  PROVE IInv'
  <2>1. UNCHANGED <<row, tab, req, call, shared, actor>> /\ fresh' \subseteq fresh
        /\ active' = active /\ changes' = changes
    BY <1>11 DEF vars
  <2> QED
    BY <1>6, <2>1, OthersKeep
<1> QED
  BY <1>1, <1>2, <1>3, <1>4, <1>5, <1>8, <1>9, <1>10, <1>11 DEF Next

\* However requests, refreshes and their answers interleave, get lost or outlive the
\* page (client.ts, refresh in auth/service.py), a login that was not copied is in one
\* place, and the refresh under way for it carries the token the server takes.
THEOREM SessionsInvariant == Spec => []IInv
BY InitHolds, NextKeeps, PTL DEF Spec

\* One login has one usable refresh token, a tab never keeps a used one unless its
\* replacement is on the way, and who waits for a refresh waits for one under way.
THEOREM SessionsStayAgreed == Spec => []SessionsAgree
<1>1. IInv => SessionsAgree
  BY DEF IInv, SessionsAgree
<1> QED
  BY <1>1, SessionsInvariant, PTL

\* The single flight of a tab and the row lock of a rotation are enough: the server
\* refuses a token as used only after a copy, or a reload during a refresh.
THEOREM RefusalsAreCopies == Spec => []OnlyCopiesAreRefused
<1>1. IInv => OnlyCopiesAreRefused
  BY DEF IInv
<1> QED
  BY <1>1, SessionsInvariant, PTL

-----------------------------------------------------------------------------
(* The desk: what a page offers.                                           *)

Screens == [kind : Kinds, offers : SUBSET Offers, moved : SUBSET ({"request", "place"} \cup Actions),
            click : Offers \cup {Nothing}]

\* What the handler behind an offer would decide now.
Honoured(u, o) ==
  /\ o[1] \in {"open", "follow"} => CanView(u)
  /\ o[1] = "cancel" => CanView(u) /\ CanCancel
  /\ o[1] \in {"answer", "say"} => CanAnswer(u)
  /\ o[1] = "review" => CanViewAction(u, o[2])
  /\ o[1] = "respond" => CanViewAction(u, o[2]) /\ CanRespond(u, o[2])

Excused(u, o) == DecidedBy(u, o) \cap page[u].moved # {} \/ NeverKept(u, o)

\* An action that a screen names was created.
Named(o) == o \in OnActions => action[o[2]].status # "none"

\* What is offered would be accepted, or something moved.
OffersKept(u) ==
  \A o \in page[u].offers :
    /\ Named(o)
    /\ page[u].kind # "refused" => Honoured(u, o) \/ Excused(u, o)

\* The click that is handled.
ClickKept(u) ==
  /\ page[u].click # Nothing => Named(page[u].click)
  /\ page[u].kind = "refused" => page[u].click # Nothing /\ Excused(u, page[u].click)
  /\ page[u].kind = "checked" =>
       /\ page[u].click # Nothing
       /\ page[u].click[1] = "respond" =>
            StillPending(page[u].click[2]) \/ page[u].click[2] \in page[u].moved

\* The page of the assistant is the requester's.
ChatKept(u) ==
  /\ page[u].kind \in {"chat", "sending"} => u = Requester
  /\ page[u].kind = "sending" => request.status # "absent"

ScreenKept(u) == OffersKept(u) /\ ClickKept(u) /\ ChatKept(u)

\* Nothing is there before the request.
NothingYet ==
  request.status = "absent" =>
    /\ request.owner = Nothing /\ request.active = Nothing
    /\ \A a \in Actions : action[a].status = "none"

\* Only a resolved action took a response, and one.
ResponsesKept ==
  \A a \in Actions :
    /\ action[a].status # "resolved" => accepted[a] = {}
    /\ \E u \in Users : accepted[a] \subseteq {u}

DeskInv == /\ DeskTypeOK /\ NothingYet /\ ResponsesKept
           /\ \A u \in Users : ScreenKept(u)

LEMMA OfferShapes ==
  /\ \A o \in OnRequest : o[1] \in {"open", "follow", "cancel", "answer", "say"} /\ o[2] = "request"
  /\ \A o \in OnActions : o[1] \in {"review", "respond"} /\ o[2] \in Actions
  /\ OnRequest \cap OnActions = {}
BY DEF OnRequest, OnActions

LEMMA DecidedShapes ==
  ASSUME NEW u \in Users, NEW o \in Offers
  PROVE  /\ o \in OnActions => DecidedBy(u, o) = {o[2]}
         /\ o \in OnRequest => /\ "request" \in DecidedBy(u, o)
                               /\ u \in Managers => "place" \in DecidedBy(u, o)
         /\ DecidedBy(u, o) \subseteq {"request", "place"} \cup Actions
<1>1. CASE o \in OnActions
  <2>1. o \notin OnRequest /\ o[2] \in Actions
    BY <1>1, OfferShapes
  <2>. QED  BY <1>1, <2>1 DEF DecidedBy
<1>2. CASE o \in OnRequest
  <2>1. o \notin OnActions
    BY <1>2, OfferShapes
  <2>. QED  BY <1>2, <2>1 DEF DecidedBy
<1>. QED  BY <1>1, <1>2 DEF Offers

\* A screen that gets older keeps what it shows, and knows what moved.
LEMMA OlderScreen ==
  ASSUME DeskTypeOK, NEW u \in Users, NEW S
  PROVE  /\ Older(u, S) \in Screens
         /\ Older(u, S).kind = page[u].kind /\ Older(u, S).offers = page[u].offers
         /\ Older(u, S).click = page[u].click /\ page[u].moved \subseteq Older(u, S).moved
         /\ page[u].kind = "refused" => Older(u, S) = page[u]
         /\ page[u].kind # "refused" =>
              /\ \A o \in page[u].offers : DecidedBy(u, o) \cap S \subseteq Older(u, S).moved
              /\ page[u].click # Nothing => DecidedBy(u, page[u].click) \cap S \subseteq Older(u, S).moved
<1>1. page[u] \in Screens
  BY DEF DeskTypeOK, Screens
<1>2. CASE page[u].kind = "refused"
  BY <1>1, <1>2 DEF Older
<1>3. CASE page[u].kind # "refused"
  <2>1. PICK D : D = DependsOn(u)
    OBVIOUS
  <2>2. /\ \A o \in page[u].offers : DecidedBy(u, o) \subseteq D
        /\ page[u].click # Nothing => DecidedBy(u, page[u].click) \subseteq D
    BY <2>1 DEF DependsOn
  <2>3. D \subseteq {"request", "place"} \cup Actions
    BY <1>1, <2>1, DecidedShapes DEF DependsOn, Screens
  <2>4. Older(u, S) = [page[u] EXCEPT !.moved = page[u].moved \cup (S \cap D)]
    BY <1>3, <2>1 DEF Older
  <2>. QED  BY <1>1, <1>3, <2>2, <2>3, <2>4 DEF Screens
<1>. QED  BY <1>2, <1>3

LEMMA HonouredNeeds ==
  ASSUME NEW u \in Users, NEW o \in Offers
  PROVE  /\ o \in OnRequest => (Honoured(u, o) <=> /\ CanView(u)
                                                   /\ o[1] = "cancel" => CanCancel
                                                   /\ o[1] \in {"answer", "say"} => CanAnswer(u))
         /\ o \in OnActions => (Honoured(u, o) <=> /\ CanViewAction(u, o[2])
                                                   /\ o[1] = "respond" => CanRespond(u, o[2]))
<1>1. CASE o \in OnRequest
  <2>1. o \notin OnActions /\ o[1] \in {"open", "follow", "cancel", "answer", "say"}
    BY <1>1, OfferShapes
  <2>. QED  BY <1>1, <2>1 DEF Honoured, CanAnswer
<1>2. CASE o \in OnActions
  <2>1. o \notin OnRequest /\ o[1] \in {"review", "respond"}
    BY <1>2, OfferShapes
  <2>. QED  BY <1>2, <2>1 DEF Honoured
<1>. QED  BY <1>1, <1>2 DEF Offers

\* What moves under a screen is known to it.
LEMMA GrownOld ==
  ASSUME DeskInv, NEW u \in Users, NEW S, NEW k \in Kinds,
         page'[u] = [Older(u, S) EXCEPT !.kind = k],
         k = page[u].kind \/ (page[u].kind = "chat" /\ k = "sending" /\ request'.status # "absent"),
         request.status # "absent" => request'.status # "absent",
         \A o \in Offers : Named(o) =>
           /\ Named(o)' /\ (NeverKept(u, o) => NeverKept(u, o)')
           /\ DecidedBy(u, o) \cap S = {} /\ Honoured(u, o) => Honoured(u, o)',
         \A a \in Actions \ S : StillPending(a) => StillPending(a)'
  PROVE  ScreenKept(u)'
<1>1. page[u] \in Screens /\ ScreenKept(u) /\ DeskTypeOK
  BY DEF DeskInv, DeskTypeOK, Screens
<1>2. PICK p : p = Older(u, S)
  OBVIOUS
<1>3. /\ page'[u].kind = k /\ page'[u].offers = page[u].offers /\ page'[u].click = page[u].click
      /\ page'[u].moved = p.moved /\ page[u].moved \subseteq p.moved
  BY <1>1, <1>2, OlderScreen DEF Screens
<1>4. page[u].kind # "refused" =>
        /\ \A o \in page[u].offers : DecidedBy(u, o) \cap S \subseteq p.moved
        /\ page[u].click # Nothing => DecidedBy(u, page[u].click) \cap S \subseteq p.moved
  BY <1>1, <1>2, OlderScreen
<1>5. /\ \A o \in page[u].offers : o \in Offers /\ Named(o)
      /\ page[u].click # Nothing => page[u].click \in Offers /\ Named(page[u].click)
  BY <1>1 DEF Screens, ScreenKept, OffersKept, ClickKept
<1>6. OffersKept(u)'
  <2>1. SUFFICES ASSUME NEW o \in page[u].offers
                 PROVE  Named(o)' /\ (k # "refused" => Honoured(u, o)' \/ Excused(u, o)')
    BY <1>3 DEF OffersKept
  <2>2. CASE page[u].kind # "refused"
    <3>1. Honoured(u, o) \/ Excused(u, o)
      BY <1>1, <2>2 DEF ScreenKept, OffersKept
    <3>2. CASE DecidedBy(u, o) \cap page'[u].moved # {} \/ NeverKept(u, o)
      BY <1>5, <3>2 DEF Excused, DecidedBy
    <3>3. CASE Honoured(u, o) /\ DecidedBy(u, o) \cap S = {}
      BY <1>5, <3>3
    <3>. QED  BY <1>3, <1>4, <2>2, <3>1, <3>2, <3>3 DEF Excused
  <2>3. CASE page[u].kind = "refused"
    BY <1>5, <2>3
  <2>. QED  BY <2>2, <2>3
<1>7. ClickKept(u)'
  <2>1. PICK c : c = page[u].click
    OBVIOUS
  <2>2. page'[u].click = c /\ page'[u].kind = k /\ (c # Nothing => Named(c)')
    BY <1>3, <1>5, <2>1
  <2>3. k = "refused" => c # Nothing /\ Excused(u, c)'
    <3>1. SUFFICES ASSUME k = "refused" PROVE c # Nothing /\ Excused(u, c)'
      OBVIOUS
    <3>2. c # Nothing /\ c \in Offers /\ Named(c) /\ Excused(u, c)
      BY <1>1, <1>5, <2>1, <3>1 DEF ScreenKept, ClickKept
    <3>. QED  BY <1>3, <3>2 DEF Excused, DecidedBy
  <2>4. k = "checked" =>
          c # Nothing /\ (c[1] = "respond" => StillPending(c[2])' \/ c[2] \in page'[u].moved)
    <3>1. SUFFICES ASSUME k = "checked"
                   PROVE  /\ c # Nothing
                          /\ c[1] = "respond" => StillPending(c[2])' \/ c[2] \in page'[u].moved
      OBVIOUS
    <3>2. /\ page[u].kind = "checked" /\ c # Nothing
          /\ c[1] = "respond" => StillPending(c[2]) \/ c[2] \in page[u].moved
      BY <1>1, <2>1, <3>1 DEF ScreenKept, ClickKept
    <3>3. CASE c[1] = "respond" /\ StillPending(c[2])
      <4>1. c \in Offers /\ c \in OnActions /\ c[2] \in Actions
        BY <1>5, <2>1, <3>2, <3>3, OfferShapes DEF Offers
      <4>2. c[2] \in S => c[2] \in p.moved
        BY <1>4, <2>1, <3>2, <4>1, DecidedShapes
      <4>. QED  BY <1>3, <3>2, <3>3, <4>1, <4>2
    <3>. QED  BY <1>3, <3>2, <3>3
  <2>. QED  BY <2>2, <2>3, <2>4 DEF ClickKept
<1>8. ChatKept(u)'
  BY <1>1, <1>3 DEF ScreenKept, ChatKept
<1>. QED  BY <1>6, <1>7, <1>8 DEF ScreenKept

-----------------------------------------------------------------------------
(* Steps that change one screen.                                           *)

LEMMA OneScreen ==
  ASSUME DeskInv, NEW u \in Users, NEW p \in Screens, page' = [page EXCEPT ![u] = p],
         UNCHANGED <<request, action, place, accepted>>, loads' \in 0..MaxLoads,
         ScreenKept(u)'
  PROVE  DeskInv'
<1>1. DeskTypeOK'
  BY DEF DeskInv, DeskTypeOK, Screens
<1>2. NothingYet' /\ ResponsesKept'
  BY DEF DeskInv, NothingYet, ResponsesKept
<1>3. ASSUME NEW v \in Users, v # u PROVE ScreenKept(v)'
  <2>1. page'[v] = page[v] /\ ScreenKept(v)
    BY <1>3 DEF DeskInv, DeskTypeOK
  <2>2. UNCHANGED <<request, action, place>>
    OBVIOUS
  <2>3. OffersKept(v)'
    <3>1. \A o : (Named(o)' <=> Named(o)) /\ (Honoured(v, o)' <=> Honoured(v, o))
      BY <2>2 DEF Named, Honoured, CanView, CanCancel, CanAnswer, CanViewAction, CanRespond, InDepartment
    <3>2. \A o : Excused(v, o)' <=> Excused(v, o)
      BY <2>1, <2>2 DEF Excused, NeverKept, DecidedBy
    <3>. QED  BY <2>1, <3>1, <3>2 DEF ScreenKept, OffersKept
  <2>4. ClickKept(v)'
    BY <2>1, <2>2 DEF ScreenKept, ClickKept, Named, Excused, NeverKept, DecidedBy, StillPending
  <2>5. ChatKept(v)'
    BY <2>1, <2>2 DEF ScreenKept, ChatKept
  <2>. QED  BY <2>3, <2>4, <2>5 DEF ScreenKept
<1>. QED  BY <1>1, <1>2, <1>3 DEF DeskInv

LEMMA ShowKeeps ==
  ASSUME DeskInv, NEW u \in Users, NEW kind \in Kinds \ {"sending", "checked", "refused"},
         NEW offers \in SUBSET Offers, Show(u, kind, offers),
         UNCHANGED <<request, action, place, accepted>>, loads' \in 0..MaxLoads,
         kind = "chat" => u = Requester,
         \A o \in offers : Named(o) /\ (Honoured(u, o) \/ NeverKept(u, o))
  PROVE  DeskInv'
<1>1. PICK p : p = [kind |-> kind, offers |-> offers, moved |-> {}, click |-> Nothing]
  OBVIOUS
<1>2. p \in Screens /\ page' = [page EXCEPT ![u] = p]
  BY <1>1 DEF Screens, Show
<1>3. page'[u] = p /\ p.kind = kind /\ p.offers = offers /\ p.click = Nothing
  BY <1>1, <1>2 DEF DeskInv, DeskTypeOK
<1>4. OffersKept(u)'
  <2>1. \A o \in offers : Named(o)' /\ (Honoured(u, o)' \/ NeverKept(u, o)')
    BY DEF Named, Honoured, CanView, CanCancel, CanAnswer,
           CanViewAction, CanRespond, InDepartment, NeverKept
  <2>. QED  BY <1>3, <2>1 DEF OffersKept, Excused
<1>5. ClickKept(u)' /\ ChatKept(u)'
  BY <1>3 DEF ClickKept, ChatKept
<1>. QED  BY <1>2, <1>4, <1>5, OneScreen DEF ScreenKept

\* A handler judges a click on the screen.
LEMMA CheckKeeps ==
  ASSUME DeskInv, NEW u \in Users, NEW o \in page[u].offers, page[u].kind # "refused",
         NEW ok \in BOOLEAN, Check(u, o, ok),
         UNCHANGED <<request, action, place, accepted, loads>>,
         ok /\ o[1] = "respond" => StillPending(o[2]),
         ~ok => ~Honoured(u, o)
  PROVE  DeskInv'
<1>1. PICK k : k = IF ok THEN "checked" ELSE "refused"
  OBVIOUS
<1>2. PICK p : p = [page[u] EXCEPT !.kind = k, !.click = o]
  OBVIOUS
<1>3. page[u] \in Screens /\ ScreenKept(u) /\ page \in [Users -> Screens]
  BY DEF DeskInv, DeskTypeOK, Screens
<1>4. p \in Screens /\ page' = [page EXCEPT ![u] = p]
  BY <1>1, <1>2, <1>3 DEF Check, Screens, Kinds
<1>5. /\ page'[u] = p /\ p.kind = k /\ p.offers = page[u].offers /\ p.click = o
      /\ p.moved = page[u].moved /\ o # Nothing
  BY <1>2, <1>3, <1>4, DeskAssumption DEF Screens
<1>6. \A x \in page[u].offers : Named(x)' /\ (Honoured(u, x)' \/ Excused(u, x)')
  <2>1. \A x \in page[u].offers : Named(x) /\ (Honoured(u, x) \/ Excused(u, x))
    BY <1>3 DEF ScreenKept, OffersKept
  <2>. QED  BY <1>5, <2>1 DEF Named, Honoured, CanView, CanCancel, CanAnswer, Excused, DecidedBy,
           CanViewAction, CanRespond, InDepartment, NeverKept
<1>7. ~ok => ~Honoured(u, o)'
  BY DEF Honoured, CanView, CanCancel, CanAnswer, CanViewAction, CanRespond, InDepartment
<1>8. OffersKept(u)'
  BY <1>5, <1>6 DEF OffersKept
<1>9. ClickKept(u)'
  <2>1. ok /\ o[1] = "respond" => StillPending(o[2])'
    BY DEF StillPending
  <2>. QED  BY <1>1, <1>5, <1>6, <1>7, <2>1 DEF ClickKept
<1>10. ChatKept(u)'
  BY <1>1, <1>5 DEF ChatKept
<1>. QED  BY <1>4, <1>8, <1>9, <1>10, OneScreen DEF ScreenKept, DeskInv, DeskTypeOK

-----------------------------------------------------------------------------
(* Steps that change the request.                                          *)

LEMMA ScreenAges ==
  ASSUME DeskInv, UNCHANGED <<action, place>>, request'.status # "absent",
         request.status \in Ended => request'.status \in Ended,
         NEW u \in Users, NEW k \in Kinds,
         page'[u] = [Older(u, {"request"}) EXCEPT !.kind = k],
         k = page[u].kind \/ (page[u].kind = "chat" /\ k = "sending")
  PROVE  ScreenKept(u)'
<1>1. ASSUME NEW o \in Offers, Named(o)
      PROVE  /\ Named(o)' /\ (NeverKept(u, o) => NeverKept(u, o)')
             /\ DecidedBy(u, o) \cap {"request"} = {} /\ Honoured(u, o) => Honoured(u, o)'
  <2>1. Named(o)' /\ (NeverKept(u, o) => NeverKept(u, o)')
    BY <1>1 DEF Named, NeverKept
  <2>2. ASSUME DecidedBy(u, o) \cap {"request"} = {}, Honoured(u, o) PROVE Honoured(u, o)'
    <3>1. o \in OnActions /\ o[1] \in {"review", "respond"}
      BY <2>2, DecidedShapes, OfferShapes DEF Offers
    <3>. QED  BY <2>2, <3>1 DEF Honoured, CanViewAction, CanRespond
  <2>. QED  BY <2>1, <2>2
<1>2. \A a \in Actions \ {"request"} : StillPending(a) => StillPending(a)'
  BY DEF StillPending
<1>. QED  BY <1>1, <1>2, GrownOld

LEMMA RowMoves ==
  ASSUME DeskInv, request' \in Rows, request'.status # "absent",
         UNCHANGED <<action, place, accepted>>, loads' \in 0..MaxLoads,
         page' \in [Users -> Screens], \A u \in Users : ScreenKept(u)'
  PROVE  DeskInv'
<1>1. DeskTypeOK'
  BY DEF DeskInv, DeskTypeOK, Screens
<1>2. NothingYet' /\ ResponsesKept'
  BY DEF DeskInv, NothingYet, ResponsesKept
<1>. QED  BY <1>1, <1>2 DEF DeskInv

LEMMA BlankScreen ==
  ASSUME NEW u \in Users, page'[u] = Blank
  PROVE  Blank \in Screens /\ ScreenKept(u)'
<1>1. Blank \in Screens /\ Blank.kind = "blank" /\ Blank.offers = {} /\ Blank.click = Nothing
  BY DEF Blank, Screens, Kinds
<1>. QED  BY <1>1 DEF ScreenKept, OffersKept, ClickKept, ChatKept

LEMMA WroteKeeps ==
  ASSUME DeskInv, NEW u \in Users, NEW r \in Rows, Wrote(u, r), r.status # "absent",
         request.status \in Ended => r.status \in Ended
  PROVE  DeskInv'
<1>1. DeskTypeOK /\ request' = r /\ UNCHANGED <<action, place, accepted, loads>>
  BY DEF Wrote, DeskInv
<1>2. ASSUME NEW v \in Users PROVE page'[v] \in Screens /\ ScreenKept(v)'
  <2>1. page'[v] = IF v = u THEN AfterClick(u) ELSE Older(v, {"request"})
    BY DEF Wrote
  <2>2. PICK p : p = Older(v, {"request"})
    OBVIOUS
  <2>3. p \in Screens /\ p.kind = page[v].kind
    BY <1>1, <2>2, OlderScreen
  <2>4. CASE v = u /\ page[u].kind # "chat"
    BY <2>1, <2>4, BlankScreen DEF AfterClick
  <2>5. CASE v = u /\ page[u].kind = "chat"
    <3>1. page'[v] = [p EXCEPT !.kind = "sending"]
      BY <2>1, <2>2, <2>5 DEF AfterClick
    <3>2. page'[v] \in Screens
      BY <2>3, <3>1 DEF Screens, Kinds
    <3>. QED  BY <1>1, <2>2, <2>5, <3>1, <3>2, ScreenAges DEF Kinds
  <2>6. CASE v # u
    <3>1. page'[v] = p /\ p = [p EXCEPT !.kind = page[v].kind] /\ page[v].kind \in Kinds
      BY <2>1, <2>2, <2>3, <2>6 DEF Screens
    <3>. QED  BY <1>1, <2>2, <2>3, <3>1, ScreenAges
  <2>. QED  BY <2>4, <2>5, <2>6
<1>3. page' \in [Users -> Screens]
  BY <1>2 DEF Wrote
<1>. QED  BY <1>1, <1>2, <1>3, RowMoves DEF DeskTypeOK

-----------------------------------------------------------------------------
(* One lemma per action.                                                   *)

LEMMA Clicked ==
  ASSUME DeskInv, NEW u \in Users, NEW verb, NEW o \in Click(u, verb)
  PROVE  /\ o \in page[u].offers /\ o \in Offers /\ o[1] = verb /\ Named(o)
         /\ page[u].kind # "refused" /\ ~Busy(u)
BY DEF DeskInv, DeskTypeOK, ScreenKept, OffersKept, Click

LEMMA LoadStep ==
  ASSUME DeskInv, NEW u \in Users, Load(u)
  PROVE  DeskInv'
<1>1. PICK offers \in {RequestsPage(u), DashboardPage(u), InboxPage(u),
                       WorkspaceRequests(u), WorkspaceActions(u)} : Show(u, "list", offers)
  BY DEF Load
<1>2. ASSUME NEW o, o = <<"open", "request">>, CanView(u)
      PROVE  o \in Offers /\ Named(o) /\ Honoured(u, o)
  BY <1>2, OfferShapes DEF Offers, OnRequest, OnActions, Named, Honoured
<1>3. ASSUME NEW a \in Actions, action[a].status # "none",
             u \notin Managers => u = Company \/ u = Requester \/ action[a].user = u
      PROVE  /\ <<"review", a>> \in Offers /\ Named(<<"review", a>>)
             /\ Honoured(u, <<"review", a>>) \/ NeverKept(u, <<"review", a>>)
  <2>1. <<"review", a>> \in Offers /\ Named(<<"review", a>>)
    BY <1>3 DEF Offers, OnActions, Named
  <2>2. CanViewAction(u, a) \/ (u \in Managers /\ action[a].role = Nothing /\ action[a].user # u)
    BY <1>3 DEF CanViewAction
  <2>. QED  BY <2>1, <2>2 DEF Honoured, NeverKept
<1>4. \A o \in offers : o \in Offers /\ Named(o) /\ (Honoured(u, o) \/ NeverKept(u, o))
  <2>1. SUFFICES ASSUME NEW o \in offers
                 PROVE  o \in Offers /\ Named(o) /\ (Honoured(u, o) \/ NeverKept(u, o))
    OBVIOUS
  <2>2. DashboardScope(u) => CanView(u)
    <3>1. CASE u \in Managers /\ InDepartment(u)
      <4>1. request.status # "absent"
        <5>1. place[u] # Nothing
          BY <3>1, DeskAssumption DEF DeskInv, DeskTypeOK
        <5>. QED  BY <3>1, <5>1 DEF DeskInv, NothingYet, InDepartment
      <4>. QED  BY <3>1, <4>1 DEF CanView
    <3>. QED  BY <3>1 DEF DashboardScope
  <2>3. CASE offers = RequestsPage(u)
    BY <1>2, <2>3 DEF RequestsPage, OpensIf
  <2>4. CASE offers = DashboardPage(u)
    <3>1. CASE o \in OpensIf(DashboardScope(u))
      BY <1>2, <2>2, <3>1 DEF OpensIf
    <3>2. CASE o \in Reviews(PendingCards(u))
      <4>1. PICK a \in PendingCards(u) : o = <<"review", a>>
        BY <3>2 DEF Reviews
      <4>. QED  BY <1>3, <4>1 DEF PendingCards, ActionScope
    <3>. QED  BY <2>4, <3>1, <3>2 DEF DashboardPage
  <2>5. CASE offers = InboxPage(u)
    <3>1. PICK a \in Actions : /\ o = <<"review", a>> /\ action[a].status # "none"
                               /\ u # Company /\ u # Nothing => action[a].user = u
      BY <2>5 DEF InboxPage, Reviews, Listed
    <3>2. u # Nothing
      BY DeskAssumption
    <3>. QED  BY <1>3, <3>1, <3>2
  <2>6. CASE offers = WorkspaceRequests(u)
    BY <1>2, <2>6 DEF WorkspaceRequests, OpensIf
  <2>7. CASE offers = WorkspaceActions(u)
    <3>1. PICK a \in Actions : /\ o = <<"review", a>> /\ action[a].status # "none"
                               /\ u \in Staff => u = Requester \/ action[a].user = u
      BY <2>7 DEF WorkspaceActions, Reviews, Listed
    <3>. QED  BY <1>3, <3>1 DEF Users
  <2>. QED  BY <1>1, <2>3, <2>4, <2>5, <2>6, <2>7
<1>5. loads' \in 0..MaxLoads /\ UNCHANGED <<request, action, place, accepted>>
  BY DeskAssumption DEF Load, DeskInv, DeskTypeOK
<1>6. offers \in SUBSET Offers
  BY <1>4
<1>. QED  BY <1>1, <1>4, <1>5, <1>6, ShowKeeps DEF Kinds

LEMMA OpenStep ==
  ASSUME DeskInv, NEW u \in Users, Open(u)
  PROVE  DeskInv'
<1>1. PICK o \in Click(u, "open") \cup Click(u, "follow") :
         IF CanView(u) THEN Show(u, "opening", DetailPage)
         ELSE page' = [page EXCEPT ![u].kind = "refused", ![u].click = o]
  BY DEF Open
<1>2. UNCHANGED <<request, action, place, accepted, loads>> /\ loads' \in 0..MaxLoads
  BY DEF Open, DeskInv, DeskTypeOK
<1>3. CASE CanView(u)
  <2>1. DetailPage \in SUBSET Offers
    BY DEF DetailPage, Offers
  <2>2. ASSUME NEW o2 \in DetailPage PROVE Named(o2) /\ (Honoured(u, o2) \/ NeverKept(u, o2))
    <3>1. o2 \in OnRequest /\ o2 \notin OnActions /\ o2 \in Offers
      BY OfferShapes DEF DetailPage, Offers
    <3>2. CASE o2[1] = "cancel" /\ CanCancel
      BY <1>3, <3>1, <3>2, HonouredNeeds DEF Named
    <3>3. CASE o2[1] = "answer" /\ request.asking
      <4>1. CASE request.status \in Ended
        BY <3>1, <3>3, <4>1 DEF NeverKept, Named
      <4>2. CASE request.status \notin Ended
        BY <1>3, <3>1, <3>3, <4>2, HonouredNeeds DEF Named, CanAnswer
      <4>. QED  BY <4>1, <4>2
    <3>. QED  BY <3>2, <3>3 DEF DetailPage
  <2>. QED  BY <1>1, <1>2, <1>3, <2>1, <2>2, ShowKeeps DEF Kinds
<1>4. CASE ~CanView(u)
  <2>1. o \in page[u].offers /\ page[u].kind # "refused" /\ o[1] \in {"open", "follow"}
    BY Clicked
  <2>2. Check(u, o, FALSE)
    BY <1>1, <1>4 DEF Check
  <2>3. ~Honoured(u, o)
    BY <1>4, <2>1 DEF Honoured
  <2>. QED  BY <1>2, <2>1, <2>2, <2>3, CheckKeeps
<1>. QED  BY <1>3, <1>4

LEMMA LoadActionsStep ==
  ASSUME DeskInv, NEW u \in Users, LoadActions(u)
  PROVE  DeskInv'
<1>1. page[u] \in Screens /\ ScreenKept(u) /\ page \in [Users -> Screens]
  BY DEF DeskInv, DeskTypeOK, Screens
<1>2. PICK p : p = [page[u] EXCEPT !.kind = "detail", !.offers = page[u].offers \cup ConnectedActions(u)]
  OBVIOUS
<1>3. ASSUME NEW o \in ConnectedActions(u) PROVE o \in Offers /\ Named(o) /\ (Honoured(u, o) \/ NeverKept(u, o))
  <2>1. PICK a \in Actions : o = <<"review", a>> /\ CanRespond(u, a)
    BY DEF ConnectedActions, Reviews
  <2>2. o \in OnActions /\ o[2] = a /\ o[1] = "review" /\ action[a].status = "pending"
    BY <2>1 DEF OnActions, CanRespond
  <2>3. CanViewAction(u, a) \/ (u \in Managers /\ action[a].role = Nothing /\ action[a].user # u)
    BY <2>1 DEF CanRespond, CanViewAction, Privileged
  <2>. QED  BY <2>2, <2>3 DEF Offers, Named, Honoured, NeverKept
<1>4. p \in Screens /\ page' = [page EXCEPT ![u] = p]
  <2>1. ConnectedActions(u) \subseteq Offers
    BY <1>3
  <2>2. p \in Screens
    BY <1>1, <1>2, <2>1 DEF Screens, Kinds
  <2>. QED  BY <1>1, <1>2, <2>2 DEF LoadActions
<1>5. UNCHANGED <<request, action, place, accepted>> /\ loads' \in 0..MaxLoads
  BY DEF LoadActions, DeskInv, DeskTypeOK
<1>6. /\ page'[u] = p /\ p.kind = "detail" /\ p.offers = page[u].offers \cup ConnectedActions(u)
      /\ p.click = page[u].click /\ p.moved = page[u].moved
  BY <1>1, <1>2, <1>4 DEF Screens
<1>7. OffersKept(u)'
  <2>1. \A o \in p.offers : Named(o) /\ (Honoured(u, o) \/ Excused(u, o))
    BY <1>1, <1>3, <1>6 DEF ScreenKept, OffersKept, Excused, LoadActions
  <2>2. \A o \in p.offers : Named(o)' /\ (Honoured(u, o)' \/ Excused(u, o)')
    BY <1>5, <1>6, <2>1 DEF Named, Honoured, CanView, CanCancel, CanAnswer, Excused, DecidedBy,
           CanViewAction, CanRespond, InDepartment, NeverKept
  <2>. QED  BY <1>6, <2>2 DEF OffersKept
<1>8. ClickKept(u)' /\ ChatKept(u)'
  BY <1>1, <1>5, <1>6 DEF ScreenKept, ClickKept, ChatKept, Named
<1>. QED  BY <1>4, <1>5, <1>7, <1>8, OneScreen DEF ScreenKept

LEMMA ReviewStep ==
  ASSUME DeskInv, NEW u \in Users, Review(u)
  PROVE  DeskInv'
<1>1. PICK o \in Click(u, "review") :
         IF CanViewAction(u, o[2])
         THEN Show(u, "form", {<<"follow", "request">>}
                                 \cup (IF CanRespond(u, o[2]) THEN {<<"respond", o[2]>>} ELSE {}))
         ELSE page' = [page EXCEPT ![u].kind = "refused", ![u].click = o]
  BY DEF Review
<1>2. UNCHANGED <<request, action, place, accepted, loads>> /\ loads' \in 0..MaxLoads
  BY DEF Review, DeskInv, DeskTypeOK
<1>3. /\ o \in page[u].offers /\ page[u].kind # "refused" /\ o[1] = "review" /\ o \in OnActions
      /\ o[2] \in Actions /\ Named(o)
  BY Clicked, OfferShapes DEF Offers
<1>4. CASE CanViewAction(u, o[2])
  <2>1. PICK F : F = {<<"follow", "request">>}
                       \cup (IF CanRespond(u, o[2]) THEN {<<"respond", o[2]>>} ELSE {})
    OBVIOUS
  <2>2. ASSUME NEW x \in F PROVE x \in Offers /\ Named(x) /\ (Honoured(u, x) \/ NeverKept(u, x))
    <3>1. CASE x = <<"follow", "request">>
      <4>1. x \in OnRequest /\ x \notin OnActions /\ x[1] = "follow" /\ x \in Offers
        BY <3>1, OfferShapes DEF OnRequest, Offers
      <4>2. u \in {Company, Requester} => CanView(u)
        BY <1>3 DEF CanView, DeskInv, NothingYet, Named
      <4>. QED  BY <4>1, <4>2 DEF Named, Honoured, NeverKept
    <3>2. CASE x = <<"respond", o[2]>> /\ CanRespond(u, o[2])
      <4>1. x \in OnActions /\ x[1] = "respond" /\ x[2] = o[2] /\ x \in Offers
        BY <1>3, <3>2 DEF OnActions, Offers
      <4>. QED  BY <1>3, <1>4, <3>2, <4>1 DEF Named, Honoured
    <3>. QED  BY <2>1, <3>1, <3>2
  <2>3. F \in SUBSET Offers
    BY <2>2
  <2>. QED  BY <1>1, <1>2, <1>4, <2>1, <2>2, <2>3, ShowKeeps DEF Kinds
<1>5. CASE ~CanViewAction(u, o[2])
  <2>1. Check(u, o, FALSE)
    BY <1>1, <1>5 DEF Check
  <2>2. ~Honoured(u, o)
    BY <1>3, <1>5 DEF Honoured
  <2>. QED  BY <1>2, <1>3, <2>1, <2>2, CheckKeeps
<1>. QED  BY <1>4, <1>5

LEMMA RespondReadStep ==
  ASSUME DeskInv, NEW u \in Users, RespondRead(u)
  PROVE  DeskInv'
<1>1. PICK o \in Click(u, "respond") : Check(u, o, CanViewAction(u, o[2]) /\ CanRespond(u, o[2]))
  BY DEF RespondRead
<1>2. o \in page[u].offers /\ page[u].kind # "refused" /\ o[1] = "respond"
  BY Clicked
<1>3. PICK ok \in BOOLEAN : ok = (CanViewAction(u, o[2]) /\ CanRespond(u, o[2]))
  OBVIOUS
<1>4. /\ Check(u, o, ok) /\ (ok => StillPending(o[2])) /\ (~ok => ~Honoured(u, o))
      /\ UNCHANGED <<request, action, place, accepted, loads>>
  BY <1>1, <1>2, <1>3 DEF RespondRead, CanRespond, StillPending, Honoured
<1>. QED  BY <1>2, <1>4, CheckKeeps

LEMMA CancelReadStep ==
  ASSUME DeskInv, NEW u \in Users, CancelRead(u)
  PROVE  DeskInv'
<1>1. PICK o \in Click(u, "cancel") : Check(u, o, CanView(u) /\ CanCancel)
  BY DEF CancelRead
<1>2. o \in page[u].offers /\ page[u].kind # "refused" /\ o[1] = "cancel"
  BY Clicked
<1>3. PICK ok \in BOOLEAN : ok = (CanView(u) /\ CanCancel)
  OBVIOUS
<1>4. /\ Check(u, o, ok) /\ (~ok => ~Honoured(u, o))
      /\ UNCHANGED <<request, action, place, accepted, loads>>
  BY <1>1, <1>2, <1>3 DEF CancelRead, Honoured
<1>. QED  BY <1>2, <1>4, CheckKeeps

LEMMA RespondWriteStep ==
  ASSUME DeskInv, NEW u \in Users, RespondWrite(u)
  PROVE  DeskInv'
<1>1. page[u] \in Screens /\ ScreenKept(u) /\ page \in [Users -> Screens] /\ DeskTypeOK
  BY DEF DeskInv, DeskTypeOK, Screens
<1>2. PICK c : c = page[u].click
  OBVIOUS
<1>3. PICK a : a = c[2]
  OBVIOUS
<1>4. /\ c \in OnActions /\ a \in Actions /\ Named(c) /\ c # Nothing
      /\ page[u].kind = "checked" /\ (StillPending(a) \/ a \in page[u].moved)
  <2>1. page[u].kind = "checked" /\ c[1] = "respond"
    BY <1>2 DEF RespondWrite
  <2>2. c # Nothing /\ Named(c) /\ (StillPending(a) \/ a \in page[u].moved)
    BY <1>1, <1>2, <1>3, <2>1 DEF ScreenKept, ClickKept
  <2>. QED  BY <1>1, <1>2, <1>3, <2>1, <2>2, OfferShapes DEF Screens, Offers
<1>5. UNCHANGED <<request, place, loads>> /\ loads' \in 0..MaxLoads
  BY <1>1 DEF RespondWrite, DeskTypeOK
<1>6. CASE StillPending(a)
  <2>1. /\ action' = [action EXCEPT ![a].status = "resolved"]
        /\ accepted' = [accepted EXCEPT ![a] = accepted[a] \cup {u}]
        /\ page' = [v \in Users |-> IF v = u THEN Blank ELSE Older(v, {a})]
    BY <1>2, <1>3, <1>6 DEF RespondWrite
  <2>2. /\ action'[a].status = "resolved" /\ action'[a].user = action[a].user
        /\ action'[a].role = action[a].role /\ \A b \in Actions \ {a} : action'[b] = action[b]
    BY <1>1, <1>4, <2>1 DEF DeskTypeOK
  <2>3. ASSUME NEW v \in Users PROVE page'[v] \in Screens /\ ScreenKept(v)'
    <3>1. CASE v = u
      BY <2>1, <3>1, BlankScreen
    <3>2. CASE v # u
      <4>1. PICK p : p = Older(v, {a})
        OBVIOUS
      <4>2. /\ p \in Screens /\ p.kind = page[v].kind /\ page'[v] = p /\ page[v].kind \in Kinds
            /\ p = [p EXCEPT !.kind = page[v].kind]
        <5>1. p \in Screens /\ p.kind = page[v].kind
          BY <1>1, <4>1, OlderScreen
        <5>. QED  BY <2>1, <3>2, <4>1, <5>1 DEF Screens
      <4>3. ASSUME NEW o \in Offers, Named(o)
            PROVE  /\ Named(o)' /\ (NeverKept(v, o) => NeverKept(v, o)')
                   /\ DecidedBy(v, o) \cap {a} = {} /\ Honoured(v, o) => Honoured(v, o)'
        <5>1. CASE o \in OnRequest
          <6>1. o \notin OnActions /\ o[1] \in {"open", "follow", "cancel", "answer", "say"}
            BY <5>1, OfferShapes
          <6>. QED  BY <1>5, <6>1 DEF Named, NeverKept, Honoured, CanView, CanCancel, CanAnswer, InDepartment
        <5>2. CASE o \in OnActions
          <6>1. o[1] \in {"review", "respond"} /\ o[2] \in Actions /\ DecidedBy(v, o) = {o[2]}
            BY <5>2, OfferShapes, DecidedShapes
          <6>2. CASE o[2] = a
            BY <1>4, <2>2, <6>1, <6>2 DEF Named, NeverKept
          <6>3. CASE o[2] # a
            <7>1. action'[o[2]] = action[o[2]]
              BY <2>2, <6>1, <6>3
            <7>. QED  BY <4>3, <6>1, <7>1 DEF Named, NeverKept, Honoured, CanViewAction, CanRespond
          <6>. QED  BY <6>2, <6>3
        <5>. QED  BY <5>1, <5>2 DEF Offers
      <4>4. \A b \in Actions \ {a} : StillPending(b) => StillPending(b)'
        BY <2>2 DEF StillPending
      <4>. QED  BY <1>5, <4>1, <4>2, <4>3, <4>4, GrownOld
    <3>. QED  BY <3>1, <3>2
  <2>4. page' \in [Users -> Screens]
    BY <2>1, <2>3
  <2>5. DeskTypeOK'
    <3>1. /\ action' \in [Actions -> [status : {"none", "pending", "resolved"},
                                   user : Staff \cup Managers \cup {Nothing},
                                   role : Roles \cup {Nothing}]]
          /\ accepted' \in [Actions -> SUBSET Users]
      BY <1>1, <2>1 DEF DeskTypeOK
    <3>. QED  BY <1>1, <1>5, <2>4, <3>1 DEF DeskTypeOK, Screens
  <2>6. NothingYet'
    BY <1>4, <1>5, <1>6 DEF DeskInv, NothingYet, StillPending
  <2>7. ResponsesKept'
    <3>1. accepted[a] = {}
      BY <1>4, <1>6 DEF DeskInv, ResponsesKept, StillPending
    <3>2. accepted'[a] = {u} /\ \A b \in Actions \ {a} : accepted'[b] = accepted[b]
      BY <1>1, <1>4, <2>1, <3>1 DEF DeskTypeOK
    <3>. QED  BY <2>2, <3>2 DEF DeskInv, ResponsesKept
  <2>. QED  BY <2>3, <2>5, <2>6, <2>7 DEF DeskInv
<1>7. CASE ~StillPending(a)
  <2>1. Refuse(u) /\ UNCHANGED <<action, accepted>>
    BY <1>2, <1>3, <1>7 DEF RespondWrite
  <2>2. PICK p : p = [page[u] EXCEPT !.kind = "refused"]
    OBVIOUS
  <2>3. p \in Screens /\ page' = [page EXCEPT ![u] = p]
    BY <1>1, <2>1, <2>2 DEF Refuse, Screens, Kinds
  <2>4. /\ page'[u] = p /\ p.kind = "refused" /\ p.offers = page[u].offers /\ p.click = c
        /\ p.moved = page[u].moved
    BY <1>1, <1>2, <2>2, <2>3 DEF Screens
  <2>5. OffersKept(u)'
    BY <1>1, <2>1, <2>4 DEF ScreenKept, OffersKept, Named
  <2>6. ClickKept(u)'
    <3>1. DecidedBy(u, c) = {a}
      BY <1>3, <1>4, DecidedShapes DEF Offers
    <3>2. Excused(u, c)'
      BY <1>4, <1>7, <2>4, <3>1 DEF Excused, DecidedBy
    <3>3. Named(c)'
      BY <1>4, <2>1 DEF Named
    <3>. QED  BY <1>4, <2>4, <3>2, <3>3 DEF ClickKept
  <2>7. ChatKept(u)'
    BY <2>4 DEF ChatKept
  <2>. QED  BY <1>5, <2>1, <2>3, <2>5, <2>6, <2>7, OneScreen DEF ScreenKept
<1>. QED  BY <1>6, <1>7

LEMMA CancelWriteStep ==
  ASSUME DeskInv, NEW u \in Users, CancelWrite(u)
  PROVE  DeskInv'
<1>1. request \in Rows /\ ScreenKept(u) /\ page[u] \in Screens
  BY DEF DeskInv, DeskTypeOK, Screens
<1>2. Wrote(u, Cancelled) /\ page[u].kind = "checked"
  BY DEF CancelWrite
<1>3. Cancelled \in Rows /\ Cancelled.status = "cancelled"
  BY <1>1 DEF Cancelled, Rows, Statuses, Ended
<1>. QED  BY <1>2, <1>3, WroteKeeps DEF Ended

LEMMA AnswerStep ==
  ASSUME DeskInv, NEW u \in Users, Answer(u)
  PROVE  DeskInv'
<1>1. PICK o \in Click(u, "answer") \cup Click(u, "say") :
         IF CanAnswer(u) THEN Wrote(u, [request EXCEPT !.asking = FALSE])
         ELSE Check(u, o, FALSE) /\ UNCHANGED <<request, action, place, accepted, loads>>
  BY DEF Answer
<1>2. o \in page[u].offers /\ page[u].kind # "refused" /\ o[1] \in {"answer", "say"}
  BY Clicked
<1>3. CASE CanAnswer(u)
  <2>1. PICK r : r = [request EXCEPT !.asking = FALSE]
    OBVIOUS
  <2>2. r \in Rows /\ r.status = request.status
    BY <2>1 DEF DeskInv, DeskTypeOK, Rows
  <2>3. request.status # "absent"
    BY <1>3 DEF CanAnswer, CanView
  <2>. QED  BY <1>1, <1>3, <2>1, <2>2, <2>3, WroteKeeps
<1>4. CASE ~CanAnswer(u)
  <2>1. ~Honoured(u, o)
    BY <1>2, <1>4 DEF Honoured
  <2>. QED  BY <1>1, <1>2, <1>4, <2>1, CheckKeeps
<1>. QED  BY <1>3, <1>4

LEMMA ChatStep ==
  ASSUME DeskInv, NEW u \in Users, Chat(u)
  PROVE  DeskInv'
<1>1. loads' \in 0..MaxLoads /\ UNCHANGED <<request, action, place, accepted>>
  BY DeskAssumption DEF Chat, DeskInv, DeskTypeOK
<1>. QED  BY <1>1, ShowKeeps DEF Chat, Kinds

LEMMA SubmitStep ==
  ASSUME DeskInv, NEW u \in Users, Submit(u)
  PROVE  DeskInv'
<1>1. PICK r : r = [request EXCEPT !.status = "created"]
  OBVIOUS
<1>2. r \in Rows /\ r.status = "created"
  BY <1>1 DEF DeskInv, DeskTypeOK, Rows, Statuses
<1>3. Wrote(u, r) /\ request.status \notin Ended
  BY <1>1 DEF Submit, Ended
<1>. QED  BY <1>2, <1>3, WroteKeeps

LEMMA HearStep ==
  ASSUME DeskInv, NEW u \in Users, Hear(u)
  PROVE  DeskInv'
<1>1. u = Requester /\ request.status # "absent"
  BY DEF Hear, DeskInv, ScreenKept, ChatKept
<1>2. CanView(u)
  BY <1>1 DEF CanView
<1>3. ASSUME NEW o \in ChatPage PROVE o \in Offers /\ Named(o) /\ (Honoured(u, o) \/ NeverKept(u, o))
  <2>1. o \in OnRequest /\ o[1] \in {"open", "answer", "say"} /\ (o[1] = "answer" => request.asking)
    BY DEF ChatPage, OnRequest
  <2>2. o \in Offers /\ Named(o)
    BY <2>1, OfferShapes DEF Named, Offers
  <2>3. o[1] = "answer" => CanAnswer(u) \/ NeverKept(u, o)
    BY <1>2, <2>1 DEF CanAnswer, NeverKept
  <2>. QED  BY <1>2, <2>1, <2>2, <2>3 DEF Honoured, NeverKept
<1>4. Show(u, "chat", ChatPage) /\ UNCHANGED <<request, action, place, accepted>> /\ loads' \in 0..MaxLoads
  BY DEF Hear, DeskInv, DeskTypeOK
<1>5. ChatPage \in SUBSET Offers
  BY <1>3
<1>. QED  BY <1>1, <1>3, <1>4, <1>5, ShowKeeps DEF Kinds

LEMMA HearErrorStep ==
  ASSUME DeskInv, NEW u \in Users, HearError(u)
  PROVE  DeskInv'
<1>1. page[u] \in Screens /\ ScreenKept(u) /\ page \in [Users -> Screens]
  BY DEF DeskInv, DeskTypeOK, Screens
<1>2. PICK p : p = [page[u] EXCEPT !.kind = "chat"]
  OBVIOUS
<1>3. p \in Screens /\ page' = [page EXCEPT ![u] = p]
  BY <1>1, <1>2 DEF HearError, Screens, Kinds
<1>4. /\ page'[u] = p /\ p.kind = "chat" /\ p.offers = page[u].offers /\ p.click = page[u].click
      /\ p.moved = page[u].moved /\ page[u].kind = "sending"
  BY <1>1, <1>2, <1>3 DEF HearError, Screens
<1>5. UNCHANGED <<request, action, place, accepted>> /\ loads' \in 0..MaxLoads
  BY DEF HearError, DeskInv, DeskTypeOK
<1>6. OffersKept(u)'
  <2>1. \A o \in p.offers : Named(o) /\ (Honoured(u, o) \/ Excused(u, o))
    BY <1>1, <1>4 DEF ScreenKept, OffersKept
  <2>2. \A o \in p.offers : Named(o)' /\ (Honoured(u, o)' \/ Excused(u, o)')
    BY <1>4, <1>5, <2>1 DEF Named, Honoured, CanView, CanCancel, CanAnswer, Excused, DecidedBy,
           CanViewAction, CanRespond, InDepartment, NeverKept
  <2>. QED  BY <1>4, <2>2 DEF OffersKept
<1>7. ClickKept(u)' /\ ChatKept(u)'
  BY <1>1, <1>4, <1>5 DEF ScreenKept, ClickKept, ChatKept, Named
<1>. QED  BY <1>3, <1>5, <1>6, <1>7, OneScreen DEF ScreenKept

\* What is created had no page to stand on.
LEMMA CreateActionStep ==
  ASSUME DeskInv, NEW u \in Users, CreateAction(u)
  PROVE  DeskInv'
<1>1. DeskTypeOK /\ request.status # "absent" /\ UNCHANGED <<request, place, page, accepted, loads>>
  BY DEF CreateAction, CanView, DeskInv
<1>2. PICK a \in Actions, p \in Staff \cup Managers \cup {Nothing}, r \in Roles \cup {Nothing} :
         /\ action[a].status = "none"
         /\ action' = [action EXCEPT ![a] = [status |-> "pending", user |-> p, role |-> r]]
  BY DEF CreateAction
<1>3. action'[a].status = "pending" /\ \A b \in Actions \ {a} : action'[b] = action[b]
  BY <1>1, <1>2 DEF DeskTypeOK
<1>4. DeskTypeOK'
  <2>1. action' \in [Actions -> [status : {"none", "pending", "resolved"},
                               user : Staff \cup Managers \cup {Nothing},
                               role : Roles \cup {Nothing}]]
    BY <1>1, <1>2 DEF DeskTypeOK
  <2>. QED  BY <1>1, <2>1 DEF DeskTypeOK
<1>5. NothingYet'
  BY <1>1 DEF NothingYet
<1>6. ResponsesKept'
  BY <1>1, <1>2, <1>3 DEF ResponsesKept, DeskInv
<1>7. ASSUME NEW v \in Users PROVE ScreenKept(v)'
  <2>1. page[v] \in Screens /\ page'[v] = page[v]
    BY <1>1 DEF DeskTypeOK, Screens
  <2>2. page'[v] = [Older(v, {}) EXCEPT !.kind = page[v].kind]
    BY <2>1 DEF Older, Screens
  <2>3. ASSUME NEW o \in Offers, Named(o)
        PROVE  /\ Named(o)' /\ (NeverKept(v, o) => NeverKept(v, o)')
               /\ Honoured(v, o) => Honoured(v, o)'
    <3>1. CASE o \in OnRequest
      <4>1. o \notin OnActions /\ o[1] \in {"open", "follow", "cancel", "answer", "say"}
        BY <3>1, OfferShapes
      <4>. QED  BY <1>1, <4>1 DEF Named, NeverKept, Honoured, CanView, CanCancel, CanAnswer, InDepartment
    <3>2. CASE o \in OnActions
      <4>1. o[1] \in {"review", "respond"} /\ o[2] \in Actions /\ o[2] # a
        BY <1>2, <2>3, <3>2, OfferShapes DEF Named
      <4>2. action'[o[2]] = action[o[2]]
        BY <1>3, <4>1
      <4>. QED  BY <2>3, <4>1, <4>2 DEF Named, NeverKept, Honoured, CanViewAction, CanRespond
    <3>. QED  BY <3>1, <3>2 DEF Offers
  <2>4. \A b \in Actions : StillPending(b) => StillPending(b)'
    BY <1>2, <1>3 DEF StillPending
  <2>5. page[v].kind \in Kinds
    BY <2>1 DEF Screens
  <2>. QED  BY <1>1, <2>2, <2>3, <2>4, <2>5, GrownOld
<1>. QED  BY <1>4, <1>5, <1>6, <1>7 DEF DeskInv

LEMMA RequestProgressStep ==
  ASSUME DeskInv, RequestProgress
  PROVE  DeskInv'
<1>1. /\ DeskTypeOK /\ UNCHANGED <<action, place, accepted, loads>>
      /\ page' = [v \in Users |-> Older(v, {"request"})]
  BY DEF RequestProgress, DeskInv
<1>2. request \in Rows
  BY <1>1 DEF DeskTypeOK
<1>3. request' \in Rows /\ request'.status # "absent" /\ request.status \notin Ended
  BY <1>2 DEF RequestProgress, Checkpoint, Rows, Statuses, Ended
<1>4. ASSUME NEW v \in Users PROVE page'[v] \in Screens /\ ScreenKept(v)'
  <2>1. PICK p : p = Older(v, {"request"})
    OBVIOUS
  <2>2. /\ p \in Screens /\ p.kind = page[v].kind /\ page'[v] = p /\ page[v].kind \in Kinds
        /\ p = [p EXCEPT !.kind = page[v].kind]
    BY <1>1, <2>1, OlderScreen DEF Screens
  <2>. QED  BY <1>1, <1>3, <2>1, <2>2, ScreenAges
<1>5. page' \in [Users -> Screens]
  BY <1>1, <1>4
<1>. QED  BY <1>1, <1>3, <1>4, <1>5, RowMoves DEF DeskTypeOK

LEMMA MoveManagerStep ==
  ASSUME DeskInv, NEW m \in Managers, MoveManager(m)
  PROVE  DeskInv'
<1>1. DeskTypeOK /\ UNCHANGED <<request, action, accepted, loads>> /\ m \in Users
  BY DEF MoveManager, DeskInv, Users
<1>2. PICK d \in Departments : place' = [place EXCEPT ![m] = d]
  BY DEF MoveManager
<1>3. page' = [page EXCEPT ![m] = Older(m, {"place"})]
  BY DEF MoveManager
<1>4. \A n \in Managers \ {m} : place'[n] = place[n]
  BY <1>1, <1>2 DEF DeskTypeOK
<1>5. PICK p : p = Older(m, {"place"})
  OBVIOUS
<1>6. /\ p \in Screens /\ p.kind = page[m].kind /\ page'[m] = p /\ page[m].kind \in Kinds
      /\ p = [p EXCEPT !.kind = page[m].kind] /\ page \in [Users -> Screens]
  BY <1>1, <1>3, <1>5, OlderScreen DEF Screens, DeskTypeOK
<1>7. DeskTypeOK'
  BY <1>1, <1>2, <1>3, <1>5, <1>6 DEF DeskTypeOK, Screens
<1>8. NothingYet' /\ ResponsesKept'
  BY <1>1 DEF DeskInv, NothingYet, ResponsesKept
<1>9. ASSUME NEW v \in Users PROVE ScreenKept(v)'
  <2>1. PICK S : S = IF v = m THEN {"place"} ELSE {}
    OBVIOUS
  <2>2. page'[v] = [Older(v, S) EXCEPT !.kind = page[v].kind] /\ page[v].kind \in Kinds
    <3>1. CASE v = m
      BY <1>5, <1>6, <2>1, <3>1
    <3>2. CASE v # m
      <4>1. page'[v] = page[v] /\ page[v] \in Screens
        BY <1>3, <1>6, <3>2
      <4>. QED  BY <2>1, <3>2, <4>1 DEF Older, Screens
    <3>. QED  BY <3>1, <3>2
  <2>3. ASSUME NEW o \in Offers, Named(o)
        PROVE  /\ Named(o)' /\ (NeverKept(v, o) => NeverKept(v, o)')
               /\ DecidedBy(v, o) \cap S = {} /\ Honoured(v, o) => Honoured(v, o)'
    <3>1. Named(o)' /\ (NeverKept(v, o) => NeverKept(v, o)')
      BY <1>1, <2>3 DEF Named, NeverKept
    <3>2. ASSUME DecidedBy(v, o) \cap S = {}, Honoured(v, o) PROVE Honoured(v, o)'
      <4>1. CASE o \in OnRequest
        <5>1. v \in Managers => v # m
          BY <2>1, <3>2, <4>1, DecidedShapes
        <5>2. v \in Managers => place'[v] = place[v]
          BY <1>4, <5>1
        <5>3. CanView(v) => CanView(v)'
          BY <1>1, <5>2 DEF CanView, InDepartment
        <5>4. /\ CanView(v) /\ (o[1] = "cancel" => CanCancel)
              /\ o[1] \in {"answer", "say"} => CanAnswer(v)
          BY <3>2, <4>1, HonouredNeeds
        <5>5. o[1] \in {"open", "follow", "cancel", "answer", "say"}
          BY <4>1, OfferShapes
        <5>. QED  BY <1>1, <5>3, <5>4, <5>5 DEF Honoured, CanCancel, CanAnswer
      <4>2. CASE o \in OnActions
        <5>1. o[1] \in {"review", "respond"}
          BY <4>2, OfferShapes
        <5>. QED  BY <1>1, <3>2, <5>1 DEF Honoured, CanViewAction, CanRespond
      <4>. QED  BY <4>1, <4>2 DEF Offers
    <3>. QED  BY <3>1, <3>2
  <2>4. \A b \in Actions : StillPending(b) => StillPending(b)'
    BY <1>1 DEF StillPending
  <2>. QED  BY <1>1, <2>2, <2>3, <2>4, GrownOld
<1>. QED  BY <1>7, <1>8, <1>9 DEF DeskInv

-----------------------------------------------------------------------------
(* The desk's theorems.                                                    *)

LEMMA DeskStarts == DeskInit => DeskInv
<1>1. SUFFICES ASSUME DeskInit PROVE DeskInv
  OBVIOUS
<1>2. Blank \in Screens /\ Blank.kind = "blank" /\ Blank.offers = {} /\ Blank.click = Nothing
  BY DEF Blank, Screens, Kinds
<1>3. DeskTypeOK
  BY <1>1, <1>2, DeskAssumption DEF DeskInit, DeskTypeOK, Rows, Statuses, NoAction, Screens
<1>4. NothingYet /\ ResponsesKept
  BY <1>1, DeskAssumption DEF DeskInit, NothingYet, ResponsesKept, NoAction
<1>5. \A u \in Users : ScreenKept(u)
  BY <1>1, <1>2 DEF DeskInit, ScreenKept, OffersKept, ClickKept, ChatKept
<1>. QED  BY <1>3, <1>4, <1>5 DEF DeskInv

LEMMA DeskSteps == DeskInv /\ [DeskNext]_deskVars => DeskInv'
<1>1. SUFFICES ASSUME DeskInv, [DeskNext]_deskVars PROVE DeskInv'
  OBVIOUS
<1>2. CASE UNCHANGED deskVars
  <2>1. UNCHANGED <<request, action, place, page, accepted, loads>>
    BY <1>2 DEF deskVars
  <2>2. DeskTypeOK' /\ NothingYet' /\ ResponsesKept'
    BY <1>1, <2>1 DEF DeskInv, DeskTypeOK, NothingYet, ResponsesKept
  <2>3. ASSUME NEW u \in Users PROVE ScreenKept(u)'
    <3>1. \A o : /\ Named(o)' <=> Named(o)
                 /\ Honoured(u, o)' <=> Honoured(u, o)
                 /\ Excused(u, o)' <=> Excused(u, o)
      BY <2>1 DEF Named, Honoured, CanView, CanCancel, CanAnswer, CanViewAction, CanRespond,
         InDepartment, Excused, NeverKept, DecidedBy
    <3>2. ScreenKept(u)
      BY <1>1 DEF DeskInv
    <3>. QED  BY <2>1, <3>1, <3>2 DEF ScreenKept, OffersKept, ClickKept, ChatKept, Named, Excused,
              NeverKept, DecidedBy, StillPending
  <2>. QED  BY <2>2, <2>3 DEF DeskInv
<1>3. ASSUME NEW u \in Users, Load(u) \/ Open(u) \/ LoadActions(u) \/ Review(u)
      PROVE  DeskInv'
  BY <1>1, <1>3, LoadStep, OpenStep, LoadActionsStep, ReviewStep
<1>4. ASSUME NEW u \in Users,
             RespondRead(u) \/ RespondWrite(u) \/ CancelRead(u) \/ CancelWrite(u) \/ Answer(u)
      PROVE  DeskInv'
  BY <1>1, <1>4, RespondReadStep, RespondWriteStep, CancelReadStep, CancelWriteStep, AnswerStep
<1>5. ASSUME NEW u \in Users,
             Chat(u) \/ Submit(u) \/ Hear(u) \/ HearError(u) \/ CreateAction(u)
      PROVE  DeskInv'
  BY <1>1, <1>5, ChatStep, SubmitStep, HearStep, HearErrorStep, CreateActionStep
<1>6. CASE RequestProgress
  BY <1>1, <1>6, RequestProgressStep
<1>7. ASSUME NEW m \in Managers, MoveManager(m) PROVE DeskInv'
  BY <1>1, <1>7, MoveManagerStep
<1>. QED  BY <1>1, <1>2, <1>3, <1>4, <1>5, <1>6, <1>7 DEF DeskNext

LEMMA DeskHolds == DeskSpec => []DeskInv
BY DeskStarts, DeskSteps, PTL DEF DeskSpec

(* Whatever a page offers - the lists, the inbox, the workspace, the page of a
   request or of an action, the assistant's - its handler accepts, unless
   something the handler reads changed since the page was read, or the offer
   is one of the four that are never kept. *)
THEOREM OffersAreKept == DeskSpec => []RefusedMeansMoved
<1>1. DeskInv => RefusedMeansMoved
  BY DEF DeskInv, ScreenKept, ClickKept, RefusedMeansMoved, Excused
<1>. QED  BY <1>1, DeskHolds, PTL

(* However many handlers read an action as pending before anybody locked it,
   it takes one response; and rows and screens keep their shapes. *)
THEOREM OneResponseOnly == DeskSpec => []DeskAgrees
<1>1. DeskInv => DeskAgrees
  <2>1. ASSUME DeskInv, NEW a \in Actions PROVE Cardinality(accepted[a]) <= 1
    <3>1. PICK u \in Users : accepted[a] \subseteq {u}
      BY <2>1 DEF DeskInv, ResponsesKept
    <3>2. IsFiniteSet({u}) /\ Cardinality({u}) = 1
      BY FS_Singleton
    <3>. QED  BY <3>1, <3>2, FS_Subset
  <2>. QED  BY <2>1 DEF DeskInv, DeskAgrees, AnsweredOnce
<1>. QED  BY <1>1, DeskHolds, PTL

=============================================================================
