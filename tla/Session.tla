------------------------------- MODULE Session -------------------------------
(***************************************************************************)
(* How a signed-in user stays signed in: the rotation of refresh tokens    *)
(* (auth/service.py) and the client of the browser that drives it          *)
(* (frontend/src/api/client.ts, auth/store.ts).                            *)
(*                                                                         *)
(* A pair is one access and one refresh token, issued together.  The       *)
(* server's transactions are steps: a rotation holds the lock of the row   *)
(* from its reading to its commit.  A request of a tab that is answered    *)
(* 401 refreshes the pair, or joins the refresh under way, and is sent     *)
(* again once.  Answers are delayed and lost, tabs are reloaded and copied. *)
(***************************************************************************)
EXTENDS Naturals, FiniteSets

CONSTANTS Tabs, Reqs,
          MaxPairs,  \* bound on the pairs issued
          MaxChanges, \* bound on the expiries and the switches of accounts
          Actors,    \* "company", "employee": who the user is
          None

ASSUME BoundAssumption == MaxPairs \in Nat \ {0} /\ MaxChanges \in Nat
ASSUME NoneAssumption == None \notin Nat \cup Tabs \cup Reqs

Pairs == 1..MaxPairs

VARIABLES row,      \* refresh_tokens, by pair: state and the login it comes from
          fresh,    \* pairs whose access token has not expired
          active,   \* is the user, is the company active
          actor,    \* the user's actor type
          tab,      \* per tab: the stored pair and the request whose refresh is under way
          req,      \* per request of a tab: its fetch
          call,     \* per request: the refresh it started
          shared,   \* history: logins of which a copy or a reload may have left two holders
          changes   \* tokens expired and accounts switched

vars == <<row, fresh, active, actor, tab, req, call, shared, changes>>

Issued == {p \in Pairs : row[p].state # "none"}
Idle == [pc |-> "idle"]
Init ==
  /\ row = [p \in Pairs |-> [state |-> "none", login |-> 0]]
  /\ fresh = {}
  /\ active \in [user : {TRUE}, company : BOOLEAN]
  /\ actor \in Actors
  /\ actor = "employee" => active.company
  /\ tab = [b \in Tabs |-> [pair |-> None, flight |-> None]]
  /\ req = [q \in Reqs |-> Idle]
  /\ call = [q \in Reqs |-> Idle]
  /\ shared = {}
  /\ changes = 0

-----------------------------------------------------------------------------
(* The server.                                                             *)

\* Whom login and refresh accept, and whom an access token admits: the Company
\* account may sign in before its company is active, and then reach its setup only.
MayEnter == active.user /\ (active.company \/ actor = "company")
Admitted(p, setup) ==
  /\ p # None /\ p \in fresh
  /\ active.user
  /\ active.company \/ (actor = "company" /\ setup)

\* _issue_token_pair, and the login a pair goes back to.
NewPair == CHOOSE p \in Pairs : p \notin Issued
Room == Issued # Pairs

\* What a refresh answers: its token is used, expired, of someone who may not enter.
Verdict(p) ==
  IF row[p].state = "revoked" THEN "used"
  ELSE IF row[p].state = "expired" THEN "expired"
  ELSE IF ~MayEnter THEN "inactive" ELSE "rotated"

\* refresh: the replacement and the revocation commit together.
Rotated(p) ==
  [row EXCEPT ![NewPair] = [state |-> "live", login |-> row[p].login], ![p].state = "revoked"]

CallServed(q) ==
  /\ call[q].pc = "sent"
  /\ LET v == Verdict(call[q].old) IN
       IF v = "rotated"
       THEN /\ Room
            /\ row' = Rotated(call[q].old) /\ fresh' = fresh \cup {NewPair}
            /\ call' = [call EXCEPT ![q].pc = "rotated", ![q].new = NewPair]
       ELSE /\ call' = [call EXCEPT ![q].pc = v]
            /\ UNCHANGED <<row, fresh>>
  /\ UNCHANGED <<active, actor, tab, req, shared, changes>>

\* login or, for a workspace that does not exist yet, register; and the answer.
Registered == active.company \/ Issued # {}
Issue(b) ==
  /\ Room /\ tab[b].pair = None
  /\ row' = [row EXCEPT ![NewPair] = [state |-> "live", login |-> NewPair]]
  /\ fresh' = fresh \cup {NewPair}
  /\ tab' = [tab EXCEPT ![b].pair = NewPair]
  /\ UNCHANGED <<active, actor, req, call, shared, changes>>
Login(b) == Registered /\ MayEnter /\ Issue(b)
Register(b) == ~Registered /\ Issue(b)

\* Time passes; administrators deactivate and reactivate, and setup is completed.
\* (Only for a token that somebody still holds does it make a difference.)
Held == {tab[b].pair : b \in Tabs} \cup {req[q].pair : q \in {q \in Reqs : req[q] # Idle}}
Changes == changes < MaxChanges /\ changes' = changes + 1
AccessExpires(p) ==
  /\ Changes /\ p \in fresh \cap Held /\ fresh' = fresh \ {p}
  /\ UNCHANGED <<row, active, actor, tab, req, call, shared>>
RefreshExpires(p) ==
  /\ Changes /\ p \in Held /\ row[p].state = "live"
  /\ row' = [row EXCEPT ![p].state = "expired"]
  /\ UNCHANGED <<fresh, active, actor, tab, req, call, shared>>
Deactivates ==
  /\ Changes /\ Registered /\ active.user /\ active' = [active EXCEPT !.user = FALSE]
  /\ UNCHANGED <<row, fresh, actor, tab, req, call, shared>>
Activates ==
  /\ Registered /\ \E who \in {"user", "company"} : ~active[who] /\ active' = [active EXCEPT ![who] = TRUE]
  /\ UNCHANGED <<row, fresh, actor, tab, req, call, shared, changes>>

-----------------------------------------------------------------------------
(* A tab.                                                                  *)

\* request: sent with the pair the tab holds.  Pages that send are behind sign-in.
Send(q, b, setup) ==
  /\ req[q] = Idle /\ call[q] = Idle /\ tab[b].pair # None
  /\ setup => actor = "company" /\ ~active.company
  /\ req' = [req EXCEPT ![q] = [pc |-> "sent", tab |-> b, setup |-> setup,
                                pair |-> tab[b].pair, tries |-> 1, on |-> None]]
  /\ UNCHANGED <<row, fresh, active, actor, tab, call, shared, changes>>

Serve(q) ==
  /\ req[q].pc = "sent"
  /\ req' = [req EXCEPT ![q] = IF Admitted(@.pair, @.setup) THEN Idle ELSE [@ EXCEPT !.pc = "denied"]]
  /\ UNCHANGED <<row, fresh, active, actor, tab, call, shared, changes>>

\* The network loses it, or its time is up.
Lose(q) ==
  /\ req[q].pc = "sent"
  /\ req' = [req EXCEPT ![q] = Idle]
  /\ UNCHANGED <<row, fresh, active, actor, tab, call, shared, changes>>

\* refreshTokens: the refresh under way in a tab is shared.
Bug_NoFlight(b) == None
Flight(b) == tab[b].flight

Join(q) ==
  /\ Flight(req[q].tab) # None
  /\ req' = [req EXCEPT ![q].pc = "waiting", ![q].on = Flight(req[q].tab)]
  /\ UNCHANGED <<tab, call>>

\* doRefresh, with the pair the tab holds now.
Refresh(q) ==
  LET b == req[q].tab IN
  /\ Flight(b) = None /\ tab[b].pair # None
  /\ call' = [call EXCEPT ![q] = [pc |-> "sent", tab |-> b, old |-> tab[b].pair, new |-> None]]
  /\ tab' = [tab EXCEPT ![b].flight = q]
  /\ req' = [req EXCEPT ![q].pc = "waiting", ![q].on = q]

\* Nothing to refresh with: clearAuth.
SignedOut(q) ==
  /\ Flight(req[q].tab) = None /\ tab[req[q].tab].pair = None
  /\ req' = [req EXCEPT ![q] = Idle]
  /\ UNCHANGED <<tab, call>>

\* The first 401 asks for a refresh, the second is the caller's error.
Denied(q) ==
  /\ req[q].pc = "denied"
  /\ IF req[q].tries = 1
     THEN Join(q) \/ Refresh(q) \/ SignedOut(q)
     ELSE /\ req' = [req EXCEPT ![q] = Idle]
          /\ UNCHANGED <<tab, call>>
  /\ UNCHANGED <<row, fresh, active, actor, shared, changes>>

\* All who wait for the refresh q started go on together, before the tab does
\* anything else: with the new pair, or with an error and the session cleared.
Waiters(q) == {w \in Reqs : req[w].pc = "waiting" /\ req[w].on = q}
Bug_NotKept(b, p) == tab[b].pair
Kept(b, p) == p

Settle(q, p) ==
  LET b == call[q].tab IN
  /\ req' = [w \in Reqs |->
               IF w \notin Waiters(q) THEN req[w]
               ELSE IF p = None THEN Idle
               ELSE [req[w] EXCEPT !.pc = "sent", !.pair = p, !.tries = 2, !.on = None]]
  /\ tab' = [tab EXCEPT ![b].pair = IF p = None THEN None ELSE Kept(b, p),
                        ![b].flight = IF @ = q THEN None ELSE @]

\* The answer of the refresh arrives; a tab that was reloaded since has forgotten it.
CallArrives(q) ==
  /\ call[q].pc \in {"rotated", "used", "expired", "inactive"}
  /\ IF call[q].tab = None THEN UNCHANGED <<req, tab>>
     ELSE Settle(q, IF call[q].pc = "rotated" THEN call[q].new ELSE None)
  /\ call' = [call EXCEPT ![q] = Idle]
  /\ UNCHANGED <<row, fresh, active, actor, shared, changes>>

\* The refresh is lost on its way, or its answer is, or it takes longer than ten
\* seconds: for the tab it has failed, whatever the server has done.
CallLost(q) ==
  /\ call[q] # Idle
  /\ IF call[q].tab = None THEN UNCHANGED <<req, tab>> ELSE Settle(q, None)
  /\ call' = [call EXCEPT ![q] = Idle]
  /\ UNCHANGED <<row, fresh, active, actor, shared, changes>>

\* logout: the pair is forgotten; what is under way goes on.
Logout(b) ==
  /\ tab[b].pair # None
  /\ tab' = [tab EXCEPT ![b].pair = None]
  /\ UNCHANGED <<row, fresh, active, actor, req, call, shared, changes>>

\* The logins a refresh of the tab is under way for.
Underway(b) == {row[call[q].old].login : q \in {q \in Reqs : call[q] # Idle /\ call[q].tab = b}}

\* The tab is loaded again: the pair is read from the session storage, everything
\* else is gone, and an answer under way finds nobody.
Reload(b) ==
  /\ tab[b].pair # None
  /\ tab' = [tab EXCEPT ![b].flight = None]
  /\ req' = [q \in Reqs |-> IF req[q] # Idle /\ req[q].tab = b THEN Idle ELSE req[q]]
  /\ call' = [q \in Reqs |-> IF call[q] # Idle /\ call[q].tab = b
                             THEN [call[q] EXCEPT !.tab = None] ELSE call[q]]
  /\ shared' = shared \cup Underway(b)
  /\ UNCHANGED <<row, fresh, active, actor, changes>>

\* The browser copies a tab with its session storage.
Copy(b, c) ==
  /\ tab[b].pair # None /\ tab[c].pair = None /\ tab[c].flight = None
  /\ tab' = [tab EXCEPT ![c].pair = tab[b].pair]
  /\ shared' = shared \cup Underway(b) \cup {row[tab[b].pair].login}
  /\ UNCHANGED <<row, fresh, active, actor, req, call, changes>>

Progress(q) ==
  Serve(q) \/ Lose(q) \/ Denied(q) \/ CallServed(q) \/ CallArrives(q) \/ CallLost(q)
Next ==
  \/ \E q \in Reqs : Progress(q) \/ (\E b \in Tabs, setup \in BOOLEAN : Send(q, b, setup))
  \/ \E b \in Tabs : Login(b) \/ Register(b) \/ Logout(b) \/ Reload(b) \/ (\E c \in Tabs \ {b} : Copy(b, c))
  \/ \E p \in Pairs : AccessExpires(p) \/ RefreshExpires(p)
  \/ Deactivates \/ Activates

Spec == Init /\ [][Next]_vars

-----------------------------------------------------------------------------
(* What must hold.                                                         *)

\* The rows, the tabs and their requests have their types; every pair that is used
\* somewhere was issued, and goes back to a login.
Row == [state : {"none", "live", "revoked", "expired"}, login : Pairs \cup {0}]
Tab == [pair : Pairs \cup {None}, flight : Reqs \cup {None}]
Fetch == [pc : {"sent", "denied", "waiting"}, tab : Tabs, setup : BOOLEAN, pair : Pairs,
          tries : 1..2, on : Reqs \cup {None}]
Rotation == [pc : {"sent", "rotated", "used", "expired", "inactive"}, tab : Tabs \cup {None},
             old : Pairs, new : Pairs \cup {None}]

TypeOK ==
  /\ row \in [Pairs -> Row] /\ \A p \in Issued : row[p].login \in Issued
  /\ fresh \subseteq Issued /\ shared \subseteq Issued
  /\ active \in [user : BOOLEAN, company : BOOLEAN] /\ actor \in Actors
  /\ tab \in [Tabs -> Tab] /\ \A b \in Tabs : tab[b].pair \in Issued \cup {None}
  /\ req \in [Reqs -> {Idle} \cup Fetch]
  /\ call \in [Reqs -> {Idle} \cup Rotation] /\ \A q \in Reqs : call[q] # Idle => call[q].old \in Issued
  /\ changes \in 0..MaxChanges

\* One login has one usable refresh token at most, and the pair a tab holds is that
\* one, or has expired with time, unless its replacement is on the way to the tab
\* or the login has two holders.  A tab that kept a used token would be signed out.
HeldTokenIsUsable ==
  /\ \A p, o \in Pairs :
       (row[p].state = "live" /\ row[o].state = "live" /\ row[p].login = row[o].login) => p = o
  /\ \A b \in Tabs :
       (tab[b].pair # None /\ row[tab[b].pair].state = "revoked")
         => \/ row[tab[b].pair].login \in shared
            \/ \E q \in Reqs : call[q].pc = "rotated" /\ call[q].tab = b /\ call[q].old = tab[b].pair

\* A refresh is refused for a used token only if the tab was copied, or reloaded
\* while it refreshed: requests that expire together never refuse each other.
OnlyCopiesAreRefused ==
  \A q \in Reqs : call[q].pc = "used" => row[call[q].old].login \in shared

\* Nobody waits for nothing: a request that waits does so for a refresh of its own
\* tab that is under way, whose answer, or the loss of it, it will be told; and a tab
\* that refreshes is always brought back from it.
WaitersAreAnswered ==
  /\ \A q \in Reqs : req[q].pc = "waiting" =>
       call[req[q].on] # Idle /\ call[req[q].on].tab = req[q].tab
  /\ \A b \in Tabs : tab[b].flight # None =>
       call[tab[b].flight] # Idle /\ call[tab[b].flight].tab = b

\* What a tab holds and waits for agrees with the rows and the calls under way.
SessionsAgree == TypeOK /\ HeldTokenIsUsable /\ WaitersAreAnswered

=============================================================================
