-------------------------- MODULE Accounts_proofs ---------------------------
(***************************************************************************)
(* What MCAccounts checks of people and of what they edit, for any number  *)
(* of them: sessions and their refresh calls, the owners among the staff,  *)
(* the badges of support, the ratings of products, the shipments of an     *)
(* order, and what two managers of the catalog cannot undo for each other. *)
(* Each part has an inductive invariant of its own.                        *)
(***************************************************************************)
EXTENDS Sessions, StaffAccounts, SupportChat, Reviews, Shipments, Shelves, PriceBook, Sums_proofs

-----------------------------------------------------------------------------
(* Sessions. As long as nothing has happened that could explain a reused   *)
(* token, a browser has at most one refresh call, which sends the cookie   *)
(* of that browser; no session is another browser's too.                   *)

CallRow == [at : {"none", "sent", "reused", "rotate", "issue", "answered"}, tab : Tabs \cup {"none"},
            token : 0..MaxSessions, fresh : 0..MaxSessions]

SessionTypes ==
    /\ session \in [Numbers -> {"none", "live", "revoked"}]
    /\ cookie \in [Browsers -> 0..MaxSessions] /\ access \in [Tabs -> 0..MaxSessions]
    /\ call \in [Calls -> CallRow]
    /\ \A c \in Calls : call[c].at # "none" => call[c].tab \in Tabs /\ call[c].token # NoSession

\* What browsers, tabs and answers carry was issued.
Issued(n) == n = NoSession \/ session[n] # "none"
AllIssued ==
    /\ \A b \in Browsers : Issued(cookie[b])
    /\ \A t \in Tabs : Issued(access[t])
    /\ \A c \in Calls : Issued(call[c].fresh)

\* A session is one browser's.
Apart ==
    /\ \A b, d \in Browsers : cookie[b] # NoSession /\ cookie[b] = cookie[d] => b = d
    /\ \A t \in Tabs, b \in Browsers : access[t] # NoSession /\ access[t] = cookie[b] => b = BrowserOf[t]
    /\ \A c \in Calls : call[c].at = "answered" =>
         /\ \A b \in Browsers : call[c].fresh # cookie[b]
         /\ \A t \in Tabs : call[c].fresh # access[t]
         /\ \A d \in Calls : call[d].at = "answered" /\ call[d].fresh = call[c].fresh => c = d

\* A call is its browser's only one, and what it sends and brings back is good.
CallsInTurn ==
    /\ \A c, d \in Calls : /\ call[c].at # "none" /\ call[d].at # "none"
                           /\ BrowserOf[call[c].tab] = BrowserOf[call[d].tab]
                           => c = d
    /\ \A c \in Calls :
         /\ call[c].at # "reused"
         /\ call[c].at # "none" => call[c].token = cookie[BrowserOf[call[c].tab]]
         /\ call[c].at \in {"sent", "rotate"} => session[call[c].token] = "live"
         /\ call[c].at = "answered" => call[c].fresh # NoSession /\ session[call[c].fresh] = "live"

Calm == ~reuse /\ AllIssued /\ Apart /\ CallsInTurn /\ CookieStaysGood

SessionInv == SessionTypes /\ (mishaps = {} => Calm)

\* The next number was never issued.
LEMMA NextNumber ==
    ASSUME Unissued # {}
    PROVE  Min(Unissued) \in Numbers /\ session[Min(Unissued)] = "none"
<1>1. Unissued \subseteq Nat
      BY SessionsAssumption DEF Unissued, Numbers
<1>2. \E n \in Unissued : \A m \in Unissued : n <= m
      BY <1>1, SmallestNumber
<1>3. Min(Unissued) \in Unissued
      BY <1>2 DEF Min
<1> QED BY <1>3 DEF Unissued

\* The sessions that go are those that were live; the others stay what they are.
LEMMA RevokingMeaning ==
    ASSUME SessionTypes, NEW S
    PROVE  /\ Revoking(S) \in [Numbers -> {"none", "live", "revoked"}]
           /\ \A n \in Numbers : /\ Revoking(S)[n] = "none" <=> session[n] = "none"
                                 /\ n \notin S => Revoking(S)[n] = session[n]
BY DEF SessionTypes, Revoking

\* No browser is signed in at the start.
LEMMA SessionInitial == SessionsInit => SessionInv
<1> SUFFICES ASSUME SessionsInit PROVE SessionInv
    OBVIOUS
<1>1. SessionTypes
      BY SessionsAssumption DEF SessionsInit, SessionTypes, CallRow, NoCall, NoSession, Numbers
<1>2. Calm
      BY SessionsAssumption DEF SessionsInit, Calm, AllIssued, Issued, Apart, CallsInTurn, CookieStaysGood, NoCall, NoSession
<1> QED BY <1>1, <1>2 DEF SessionInv

\* A login makes a session of its own and hands its cookie to one browser.
LEMMA StepLogin ==
    ASSUME SessionInv, NEW t \in Tabs, Login(t)
    PROVE  SessionInv'
<1> DEFINE n == Min(Unissued)
           b == BrowserOf[t]
<1>1. n \in Numbers /\ session[n] = "none" /\ n # NoSession /\ b \in Browsers /\ n \in 0..MaxSessions
      BY NextNumber, SessionsAssumption DEF Login, Numbers, NoSession
<1>2. /\ session' = [session EXCEPT ![n] = "live"] /\ cookie' = [cookie EXCEPT ![b] = n]
      /\ access' = [access EXCEPT ![t] = n] /\ UNCHANGED <<call, reuse>>
      /\ mishaps' = {} => mishaps = {} /\ UnderwayIn(b) = {}
      BY DEF Login
<1> HIDE DEF n, b
<1>3. SessionTypes'
      BY <1>1, <1>2 DEF SessionInv, SessionTypes
<1>4. ASSUME mishaps' = {} PROVE Calm'
  <2>1. SessionTypes /\ Calm /\ mishaps = {}
        BY <1>2, <1>4 DEF SessionInv
  <2>2. /\ \A d \in Browsers : cookie[d] # n
        /\ \A u \in Tabs : access[u] # n
        /\ \A c \in Calls : call[c].fresh # n
        BY <1>1, <2>1 DEF Calm, AllIssued, Issued
  <2>3. \A c \in Calls : call[c].at # "none" => BrowserOf[call[c].tab] # b /\ BrowserOf[call[c].tab] \in Browsers
        BY <1>2, <1>4, <2>1, SessionsAssumption DEF UnderwayIn, SessionTypes
  <2>4. AllIssued'
        BY <1>1, <1>2, <2>1 DEF Calm, SessionTypes, AllIssued, Issued
  <2>5. Apart'
        BY <1>1, <1>2, <2>1, <2>2 DEF Calm, SessionTypes, Apart, b
  <2>6. CallsInTurn'
        BY <1>1, <1>2, <2>1, <2>3 DEF Calm, SessionTypes, CallRow, CallsInTurn
  <2>7. CookieStaysGood'
        BY <1>1, <1>2, <2>1 DEF Calm, SessionTypes, CookieStaysGood, UnderwayIn
  <2> QED BY <1>2, <2>1, <2>4, <2>5, <2>6, <2>7 DEF Calm
<1> QED BY <1>3, <1>4 DEF SessionInv

\* A tab sends the cookie its browser holds.
LEMMA StepSend ==
    ASSUME SessionInv, NEW t \in Tabs, NEW c \in Calls, Send(c, t)
    PROVE  SessionInv'
<1> DEFINE b == BrowserOf[t]
           row == [at |-> "sent", tab |-> t, token |-> cookie[b], fresh |-> NoSession]
<1>1. /\ b \in Browsers /\ cookie[b] # NoSession /\ call[c] = NoCall
      /\ call' = [call EXCEPT ![c] = row] /\ UNCHANGED <<session, cookie, access, reuse>>
      /\ mishaps' = {} => mishaps = {} /\ UnderwayIn(b) = {}
      BY SessionsAssumption DEF Send
<1>2. row \in CallRow /\ row.at = "sent" /\ row.tab = t /\ row.token = cookie[b] /\ row.fresh = NoSession
      BY <1>1, SessionsAssumption DEF SessionInv, SessionTypes, CallRow, NoSession
<1> HIDE DEF row
<1>3. SessionTypes'
      BY <1>1, <1>2 DEF SessionInv, SessionTypes
<1>4. ASSUME mishaps' = {} PROVE Calm'
  <2>1. SessionTypes /\ Calm /\ mishaps = {} /\ UnderwayIn(b) = {}
        BY <1>1, <1>4 DEF SessionInv
  <2>2. \A d \in Calls : call[d].at # "none" => BrowserOf[call[d].tab] # b
        BY <2>1 DEF UnderwayIn
  <2>3. session[cookie[b]] = "live"
        BY <1>1, <2>1 DEF Calm, CookieStaysGood
  <2>4. AllIssued'
        BY <1>1, <1>2, <2>1 DEF Calm, SessionTypes, AllIssued, Issued
  <2>5. Apart'
        BY <1>1, <1>2, <2>1 DEF Calm, SessionTypes, Apart
  <2>6. CallsInTurn'
        BY <1>1, <1>2, <2>1, <2>2, <2>3 DEF Calm, SessionTypes, CallsInTurn
  <2>7. CookieStaysGood'
    <3> SUFFICES ASSUME NEW d \in Browsers, UnderwayIn(d)' = {}, cookie[d] # NoSession
                 PROVE  session[cookie[d]] = "live"
        BY <1>1 DEF CookieStaysGood
    <3>1. UnderwayIn(d) = {}
          BY <1>1, <1>2, <2>1 DEF SessionTypes, UnderwayIn, NoCall
    <3> QED BY <2>1, <3>1 DEF Calm, CookieStaysGood
  <2> QED BY <1>1, <2>1, <2>4, <2>5, <2>6, <2>7 DEF Calm
<1> QED BY <1>3, <1>4 DEF SessionInv

\* A refresh reads the session its token belongs to.
LEMMA StepRead ==
    ASSUME SessionInv, NEW c \in Calls, Read(c)
    PROVE  SessionInv'
<1> DEFINE row == [call[c] EXCEPT !.at = IF session[call[c].token] = "revoked" THEN "reused" ELSE "rotate"]
<1>1. /\ call[c].at = "sent" /\ call' = [call EXCEPT ![c] = row]
      /\ UNCHANGED <<session, cookie, access, reuse, mishaps>>
      BY DEF Read
<1>2. /\ row \in CallRow /\ row.tab = call[c].tab /\ row.token = call[c].token /\ row.fresh = call[c].fresh
      /\ row.at \in {"reused", "rotate"} /\ (session[call[c].token] = "live" => row.at = "rotate")
      BY <1>1 DEF SessionInv, SessionTypes, CallRow
<1> HIDE DEF row
<1>3. SessionTypes'
      BY <1>1, <1>2 DEF SessionInv, SessionTypes
<1>4. ASSUME mishaps = {} PROVE Calm'
  <2>1. SessionTypes /\ Calm /\ session[call[c].token] = "live" /\ row.at = "rotate"
        BY <1>1, <1>2, <1>4 DEF SessionInv, Calm, CallsInTurn
  <2>2. AllIssued'
        BY <1>1, <1>2, <2>1 DEF Calm, SessionTypes, AllIssued, Issued
  <2>3. Apart'
        BY <1>1, <1>2, <2>1 DEF Calm, SessionTypes, Apart
  <2>4. CallsInTurn'
        BY <1>1, <1>2, <2>1 DEF Calm, SessionTypes, CallsInTurn
  <2>5. \A d \in Browsers : UnderwayIn(d)' = UnderwayIn(d)
        BY <1>1, <1>2, <2>1 DEF SessionTypes, UnderwayIn
  <2>6. CookieStaysGood'
        BY <1>1, <2>1, <2>5 DEF Calm, CookieStaysGood
  <2> QED BY <1>1, <2>1, <2>2, <2>3, <2>4, <2>6 DEF Calm
<1> QED BY <1>1, <1>3, <1>4 DEF SessionInv

\* Only with a mishap behind it.
LEMMA StepRevokeReused ==
    ASSUME SessionInv, NEW c \in Calls, RevokeReused(c)
    PROVE  SessionInv'
<1> DEFINE row == [call[c] EXCEPT !.at = "answered", !.fresh = NoSession]
<1>1. /\ call[c].at = "reused" /\ call' = [call EXCEPT ![c] = row] /\ session' = Revoking(Live)
      /\ UNCHANGED <<cookie, access, mishaps>>
      BY DEF RevokeReused, Answered
<1>2. row \in CallRow /\ row.tab = call[c].tab /\ row.token = call[c].token
  <2>1. call[c] \in CallRow /\ NoSession \in 0..MaxSessions
        BY SessionsAssumption DEF SessionInv, SessionTypes, NoSession
  <2> QED BY <2>1 DEF CallRow
<1> HIDE DEF row
<1>3. session' \in [Numbers -> {"none", "live", "revoked"}]
      BY <1>1, RevokingMeaning DEF SessionInv
<1>4. SessionTypes'
      BY <1>1, <1>2, <1>3 DEF SessionInv, SessionTypes
<1>5. mishaps # {}
      BY <1>1 DEF SessionInv, Calm, CallsInTurn
<1> QED BY <1>1, <1>4, <1>5 DEF SessionInv

\* The conditional UPDATE rotates a token once.
LEMMA StepRotate ==
    ASSUME SessionInv, NEW c \in Calls, Rotate(c)
    PROVE  SessionInv'
<1> DEFINE row == [call[c] EXCEPT !.at = "issue"]
           old == call[c].token
<1>1. /\ call[c].at = "rotate" /\ call' = [call EXCEPT ![c] = row] /\ session' = Revoking({old})
      /\ UNCHANGED <<cookie, access, reuse, mishaps>>
      BY DEF Rotate
<1>2. row \in CallRow /\ row.tab = call[c].tab /\ row.token = old /\ row.at = "issue" /\ row.fresh = call[c].fresh
      BY DEF SessionInv, SessionTypes, CallRow
<1> HIDE DEF row
<1>3. /\ session' \in [Numbers -> {"none", "live", "revoked"}]
      /\ \A n \in Numbers : /\ session'[n] = "none" <=> session[n] = "none"
                            /\ n # old => session'[n] = session[n]
      BY <1>1, RevokingMeaning DEF SessionInv
<1>4. SessionTypes'
      BY <1>1, <1>2, <1>3 DEF SessionInv, SessionTypes
<1>5. ASSUME mishaps = {} PROVE Calm'
  <2> DEFINE b == BrowserOf[call[c].tab]
  <2>1. SessionTypes /\ Calm /\ old = cookie[b] /\ b \in Browsers /\ old # NoSession
        BY <1>1, <1>5, SessionsAssumption DEF SessionInv, SessionTypes, Calm, CallsInTurn
  <2>n. \A n \in 0..MaxSessions : n # NoSession => n \in Numbers
        BY SessionsAssumption DEF NoSession, Numbers
  <2>2. AllIssued'
    <3>1. \A n \in 0..MaxSessions : Issued(n) => Issued(n)'
          BY <1>3, <2>n DEF Issued
    <3>2. \A d \in Calls : call'[d].fresh = call[d].fresh /\ call[d].fresh \in 0..MaxSessions
          BY <1>1, <1>2, <2>1 DEF SessionTypes, CallRow
    <3> QED BY <1>1, <2>1, <3>1, <3>2 DEF Calm, AllIssued, SessionTypes, Issued
  <2>3. Apart'
        BY <1>1, <1>2, <2>1 DEF Calm, SessionTypes, Apart
  <2>4. \A d \in Calls : call[d].at # "none" /\ d # c =>
           /\ call'[d] = call[d] /\ call[d].token = cookie[BrowserOf[call[d].tab]] /\ call[d].token # NoSession
           /\ BrowserOf[call[d].tab] \in Browsers /\ BrowserOf[call[d].tab] # b
        BY <1>1, <2>1, SessionsAssumption DEF Calm, CallsInTurn, SessionTypes
  <2>5. \A d \in Calls : call[d].at # "none" /\ d # c => call[d].token # old
        BY <2>1, <2>4 DEF Calm, Apart
  <2>6. \A d \in Calls : call[d].at = "answered" => call[d].fresh # old
        BY <2>1 DEF Calm, Apart
  <2>7. CallsInTurn'
    <3>1. ASSUME NEW d \in Calls PROVE
             /\ call'[d].at # "reused"
             /\ call'[d].at # "none" => call'[d].token = cookie'[BrowserOf[call'[d].tab]]
             /\ call'[d].at \in {"sent", "rotate"} => session'[call'[d].token] = "live"
             /\ call'[d].at = "answered" => call'[d].fresh # NoSession /\ session'[call'[d].fresh] = "live"
      <4>1. CASE d = c
            BY <1>1, <1>2, <2>1, <4>1 DEF SessionTypes
      <4>2. CASE d # c
        <5>1. call'[d] = call[d] /\ call[d] \in CallRow
              BY <1>1, <2>1, <4>2 DEF SessionTypes
        <5>2. call[d].at # "none" => session'[call[d].token] = session[call[d].token]
              BY <1>3, <2>4, <2>5, <2>n, <4>2, <5>1 DEF CallRow
        <5>3. call[d].at = "answered" => call[d].fresh # NoSession /\ session'[call[d].fresh] = session[call[d].fresh]
              BY <1>3, <2>1, <2>6, <2>n, <5>1 DEF CallRow, Calm, CallsInTurn
        <5> QED BY <1>1, <2>1, <5>1, <5>2, <5>3 DEF Calm, CallsInTurn
      <4> QED BY <4>1, <4>2
    <3>2. ASSUME NEW d \in Calls, NEW e \in Calls, call'[d].at # "none", call'[e].at # "none",
                 BrowserOf[call'[d].tab] = BrowserOf[call'[e].tab]
          PROVE  d = e
          BY <1>1, <1>2, <2>1, <3>2 DEF Calm, CallsInTurn, SessionTypes
    <3> QED BY <3>1, <3>2 DEF CallsInTurn
  <2>8. CookieStaysGood'
    <3> SUFFICES ASSUME NEW d \in Browsers, UnderwayIn(d)' = {}, cookie[d] # NoSession
                 PROVE  session'[cookie[d]] = "live"
        BY <1>1 DEF CookieStaysGood
    <3>1. UnderwayIn(d) = {} /\ d # b
          BY <1>1, <1>2, <2>1 DEF SessionTypes, UnderwayIn
    <3>2. session[cookie[d]] = "live" /\ cookie[d] # old
          BY <1>5, <2>1, <3>1 DEF Calm, CookieStaysGood, Apart
    <3>3. cookie[d] \in Numbers
          BY <2>1, <2>n DEF SessionTypes
    <3> QED BY <1>3, <3>2, <3>3
  <2> QED BY <1>1, <2>1, <2>2, <2>3, <2>7, <2>8 DEF Calm
<1> QED BY <1>1, <1>4, <1>5 DEF SessionInv

\* The service answers what it decided: a new cookie or none.
LEMMA StepIssue ==
    ASSUME SessionInv, NEW c \in Calls, Issue(c)
    PROVE  SessionInv'
<1> DEFINE n == Min(Unissued)
           row == [call[c] EXCEPT !.at = "answered", !.fresh = n]
<1>1. n \in Numbers /\ session[n] = "none" /\ n # NoSession /\ n \in 0..MaxSessions
      BY NextNumber, SessionsAssumption DEF Issue, Numbers, NoSession
<1>2. /\ call[c].at = "issue" /\ call' = [call EXCEPT ![c] = row] /\ session' = [session EXCEPT ![n] = "live"]
      /\ UNCHANGED <<cookie, access, reuse, mishaps>>
      BY DEF Issue, Answered
<1> HIDE DEF n
<1>3. row \in CallRow /\ row.tab = call[c].tab /\ row.token = call[c].token /\ row.at = "answered" /\ row.fresh = n
      BY <1>1 DEF SessionInv, SessionTypes, CallRow
<1> HIDE DEF row
<1>4. SessionTypes'
      BY <1>1, <1>2, <1>3 DEF SessionInv, SessionTypes
<1>5. ASSUME mishaps = {} PROVE Calm'
  <2>1. SessionTypes /\ Calm
        BY <1>5 DEF SessionInv
  <2>2. /\ \A d \in Browsers : cookie[d] # n
        /\ \A u \in Tabs : access[u] # n
        /\ \A d \in Calls : call[d].fresh # n
        BY <1>1, <2>1 DEF Calm, AllIssued, Issued
  <2>3. AllIssued'
        BY <1>1, <1>2, <1>3, <2>1 DEF Calm, SessionTypes, AllIssued, Issued
  <2>4. Apart'
        BY <1>1, <1>2, <1>3, <2>1, <2>2 DEF Calm, SessionTypes, Apart
  <2>5. \A d \in Browsers : UnderwayIn(d)' = UnderwayIn(d)
        BY <1>2, <1>3, <2>1 DEF SessionTypes, UnderwayIn
  <2>6. CallsInTurn'
        BY <1>1, <1>2, <1>3, <2>1 DEF Calm, SessionTypes, CallRow, CallsInTurn
  <2>7. CookieStaysGood'
        BY <1>1, <1>2, <2>1, <2>5 DEF Calm, SessionTypes, CookieStaysGood
  <2> QED BY <1>2, <2>1, <2>3, <2>4, <2>6, <2>7 DEF Calm
<1> QED BY <1>2, <1>4, <1>5 DEF SessionInv

\* The browser keeps the cookie of an answer.
LEMMA StepReceive ==
    ASSUME SessionInv, NEW c \in Calls, Receive(c)
    PROVE  SessionInv'
<1> DEFINE t == call[c].tab
           b == BrowserOf[t]
           n == call[c].fresh
<1>1. /\ call[c].at = "answered" /\ t \in Tabs /\ b \in Browsers /\ n \in 0..MaxSessions
      /\ access' = [access EXCEPT ![t] = n]
      /\ cookie' = IF n = NoSession THEN cookie ELSE [cookie EXCEPT ![b] = n]
      /\ call' = [call EXCEPT ![c] = NoCall] /\ UNCHANGED <<session, reuse, mishaps>>
      BY SessionsAssumption DEF Receive, SessionInv, SessionTypes, CallRow
<1>2. NoCall \in CallRow /\ NoCall.at = "none" /\ NoCall.fresh = NoSession
      BY SessionsAssumption DEF NoCall, CallRow, NoSession
<1> HIDE DEF b, n, t, NoCall
<1>3. SessionTypes'
      BY <1>1, <1>2 DEF SessionInv, SessionTypes
<1>4. ASSUME mishaps = {} PROVE Calm'
  <2>1. SessionTypes /\ Calm /\ n # NoSession /\ session[n] = "live" /\ cookie' = [cookie EXCEPT ![b] = n]
        BY <1>1, <1>4 DEF SessionInv, Calm, CallsInTurn, n
  <2>2. /\ \A d \in Browsers : cookie[d] # n
        /\ \A u \in Tabs : access[u] # n
        /\ \A d \in Calls : call[d].at = "answered" /\ d # c => call[d].fresh # n
        BY <1>1, <2>1 DEF Calm, Apart, n
  <2>3. \A d \in Calls : call[d].at # "none" /\ d # c => BrowserOf[call[d].tab] # b
        BY <1>1, <2>1 DEF Calm, CallsInTurn, b, t
  <2>4. AllIssued'
        BY <1>1, <1>2, <2>1 DEF Calm, SessionTypes, AllIssued, Issued
  <2>5. \A d \in Browsers : cookie'[d] = IF d = b THEN n ELSE cookie[d]
        BY <2>1 DEF SessionTypes
  <2>6. \A u \in Tabs : access'[u] = IF u = t THEN n ELSE access[u]
        BY <1>1, <2>1 DEF SessionTypes
  <2>7. \A d \in Calls : call'[d] = IF d = c THEN NoCall ELSE call[d]
        BY <1>1, <2>1 DEF SessionTypes
  <2>8. Apart'
        BY <1>1, <1>2, <2>1, <2>2, <2>5, <2>6, <2>7 DEF Calm, Apart, b
  <2>9. CallsInTurn'
    <3>1. \A d \in Calls : call[d].at # "none" => BrowserOf[call[d].tab] \in Browsers
          BY <2>1, SessionsAssumption DEF SessionTypes
    <3> QED BY <1>1, <1>2, <2>1, <2>3, <2>5, <2>7, <3>1 DEF Calm, CallsInTurn
  <2>10. CookieStaysGood'
    <3> SUFFICES ASSUME NEW d \in Browsers, UnderwayIn(d)' = {}, cookie'[d] # NoSession
                 PROVE  session[cookie'[d]] = "live"
        BY <1>1 DEF CookieStaysGood
    <3>1. CASE d = b
          BY <2>1, <2>5, <3>1
    <3>2. CASE d # b
      <4>1. UnderwayIn(d) = {}
            BY <2>7, <3>2 DEF UnderwayIn, b, t
      <4> QED BY <1>4, <2>1, <2>5, <3>2, <4>1 DEF Calm, CookieStaysGood
    <3> QED BY <3>1, <3>2
  <2> QED BY <1>1, <2>1, <2>4, <2>8, <2>9, <2>10 DEF Calm
<1> QED BY <1>1, <1>3, <1>4 DEF SessionInv

\* A lost answer leaves the browser with the token it had, and is a cause.
LEMMA StepLose ==
    ASSUME SessionInv, NEW c \in Calls, Lose(c)
    PROVE  SessionInv'
<1>1. NoCall \in CallRow /\ NoCall.at = "none"
      BY SessionsAssumption DEF NoCall, CallRow, NoSession
<1>2. call' = [call EXCEPT ![c] = NoCall] /\ UNCHANGED <<session, cookie, access>> /\ mishaps' # {}
      BY DEF Lose
<1> HIDE DEF NoCall
<1> QED BY <1>1, <1>2 DEF SessionInv, SessionTypes

\* Sessions revoked by hand are a cause.
LEMMA StepRevokeAll ==
    ASSUME SessionInv, NEW spared, NEW why, RevokeAll(spared, why)
    PROVE  SessionInv'
<1>1. session' = Revoking(Live \ spared) /\ mishaps' # {} /\ UNCHANGED <<cookie, access, call>>
      BY DEF RevokeAll
<1>2. session' \in [Numbers -> {"none", "live", "revoked"}]
      BY <1>1, RevokingMeaning DEF SessionInv
<1> QED BY <1>1, <1>2 DEF SessionInv, SessionTypes

\* Signing out ends sessions of one browser, the own one.
LEMMA StepLogout ==
    ASSUME SessionInv, NEW t \in Tabs, Logout(t)
    PROVE  SessionInv'
<1> DEFINE b == BrowserOf[t]
<1>1. \E S : /\ S \subseteq {cookie[b], access[t]}
             /\ \/ session' = session /\ cookie' = cookie
                \/ session' = Revoking(S) /\ cookie' = [cookie EXCEPT ![b] = NoSession]
      BY DEF Logout
<1>2. PICK S : /\ S \subseteq {cookie[b], access[t]}
               /\ \/ session' = session /\ cookie' = cookie
                  \/ session' = Revoking(S) /\ cookie' = [cookie EXCEPT ![b] = NoSession]
      BY <1>1
<1>3. /\ access[t] # NoSession /\ access' = [access EXCEPT ![t] = NoSession] /\ UNCHANGED <<call, reuse>>
      /\ mishaps' = {} => mishaps = {} /\ UnderwayIn(b) = {}
      /\ b \in Browsers /\ NoSession \in 0..MaxSessions
      BY SessionsAssumption DEF Logout, NoSession
<1>4. /\ session' \in [Numbers -> {"none", "live", "revoked"}]
      /\ \A n \in Numbers : /\ session'[n] = "none" <=> session[n] = "none"
                            /\ n \notin {cookie[b], access[t]} => session'[n] = session[n]
  <2>1. CASE session' = session
        BY <2>1 DEF SessionInv, SessionTypes
  <2>2. CASE session' = Revoking(S)
    <3>1. /\ Revoking(S) \in [Numbers -> {"none", "live", "revoked"}]
          /\ \A n \in Numbers : /\ Revoking(S)[n] = "none" <=> session[n] = "none"
                                /\ n \notin S => Revoking(S)[n] = session[n]
          BY RevokingMeaning DEF SessionInv
    <3> QED BY <1>2, <2>2, <3>1
  <2> QED BY <1>2, <2>1, <2>2
<1>5. /\ cookie' \in [Browsers -> 0..MaxSessions] /\ access' \in [Tabs -> 0..MaxSessions]
      /\ \A d \in Browsers : d # b => cookie'[d] = cookie[d]
      /\ cookie'[b] = cookie[b] \/ cookie'[b] = NoSession
      /\ \A u \in Tabs : u # t => access'[u] = access[u]
      /\ access'[t] = NoSession
      BY <1>2, <1>3 DEF SessionInv, SessionTypes
<1> HIDE DEF b
<1>6. SessionTypes'
      BY <1>3, <1>4, <1>5 DEF SessionInv, SessionTypes
<1>7. ASSUME mishaps' = {} PROVE Calm'
  <2>1. SessionTypes /\ Calm /\ mishaps = {} /\ UnderwayIn(b) = {}
        BY <1>3, <1>7 DEF SessionInv
  <2>n. \A n \in 0..MaxSessions : n # NoSession => n \in Numbers
        BY SessionsAssumption DEF NoSession, Numbers
  <2>2. \A d \in Browsers : d # b /\ cookie[d] # NoSession => cookie[d] \notin {cookie[b], access[t]}
        BY <1>3, <2>1 DEF Calm, Apart, b
  <2>3. \A d \in Browsers : d # b /\ cookie[d] # NoSession => session'[cookie[d]] = session[cookie[d]]
        BY <1>4, <2>1, <2>2, <2>n DEF SessionTypes
  <2>4. \A c \in Calls : call[c].at # "none" => /\ BrowserOf[call[c].tab] # b /\ BrowserOf[call[c].tab] \in Browsers
                                               /\ call[c].token = cookie[BrowserOf[call[c].tab]]
                                               /\ call[c].token # NoSession
        BY <2>1, SessionsAssumption DEF UnderwayIn, SessionTypes, Calm, CallsInTurn
  <2>5. \A c \in Calls : call[c].at = "answered" => call[c].fresh # NoSession
                                                   /\ session'[call[c].fresh] = session[call[c].fresh]
    <3> SUFFICES ASSUME NEW c \in Calls, call[c].at = "answered"
                 PROVE  call[c].fresh # NoSession /\ session'[call[c].fresh] = session[call[c].fresh]
        OBVIOUS
    <3>1. call[c].fresh # NoSession /\ call[c].fresh # cookie[b] /\ call[c].fresh # access[t]
          BY <1>3, <2>1 DEF Calm, Apart, CallsInTurn
    <3>2. call[c].fresh \in Numbers
          BY <2>1, <2>n, <3>1 DEF SessionTypes, CallRow
    <3> QED BY <1>4, <3>1, <3>2
  <2>6. AllIssued'
    <3>1. \A n \in 0..MaxSessions : Issued(n) => Issued(n)'
          BY <1>4, <2>n DEF Issued
    <3>2. Issued(NoSession)'
          BY DEF Issued
    <3>3. \A d \in Browsers : Issued(cookie[d])' <=> cookie'[d] = NoSession \/ session'[cookie'[d]] # "none"
          BY DEF Issued
    <3>4. \A d \in Browsers : cookie'[d] = cookie[d] \/ cookie'[d] = NoSession
          BY <1>5
    <3>5. \A u \in Tabs : access'[u] = access[u] \/ access'[u] = NoSession
          BY <1>5
    <3>6. \A n \in 0..MaxSessions : (n = NoSession \/ session[n] # "none") => (n = NoSession \/ session'[n] # "none")
          BY <3>1 DEF Issued
    <3>7. \A c \in Calls : call[c].fresh \in 0..MaxSessions
          BY <2>1 DEF SessionTypes, CallRow
    <3> QED BY <1>3, <2>1, <3>4, <3>5, <3>6, <3>7 DEF Calm, AllIssued, Issued, SessionTypes
  <2>7. Apart'
    <3>1. \A d \in Browsers : cookie'[d] # NoSession => cookie'[d] = cookie[d]
          BY <1>5
    <3>2. \A u \in Tabs : access'[u] # NoSession => access'[u] = access[u]
          BY <1>5
    <3> QED BY <1>3, <2>1, <2>5, <3>1, <3>2 DEF Calm, Apart
  <2>8. CallsInTurn'
        BY <1>3, <1>5, <2>1, <2>3, <2>4, <2>5 DEF Calm, CallsInTurn
  <2>9. CookieStaysGood'
    <3> SUFFICES ASSUME NEW d \in Browsers, UnderwayIn(d)' = {}, cookie'[d] # NoSession
                 PROVE  session'[cookie'[d]] = "live"
        BY DEF CookieStaysGood
    <3>1. UnderwayIn(d) = {}
          BY <1>3 DEF UnderwayIn
    <3>2. CASE d # b
          BY <1>5, <2>1, <2>3, <3>1, <3>2 DEF Calm, CookieStaysGood
    <3>3. CASE d = b
      <4>1. session' = session /\ cookie' = cookie
            BY <1>2, <1>3, <2>1, <3>3 DEF SessionTypes
      <4> QED BY <2>1, <3>1, <4>1 DEF Calm, CookieStaysGood
    <3> QED BY <3>2, <3>3
  <2> QED BY <1>3, <2>1, <2>6, <2>7, <2>8, <2>9 DEF Calm
<1> QED BY <1>6, <1>7 DEF SessionInv

\* Every step of the sessions keeps the invariant.
LEMMA SessionStep == SessionInv /\ [SessionsNext]_sessionVars => SessionInv'
<1> SUFFICES ASSUME SessionInv, [SessionsNext]_sessionVars PROVE SessionInv'
    OBVIOUS
<1>1. CASE \E t \in Tabs : Login(t)
      BY <1>1, StepLogin
<1>2. CASE \E t \in Tabs : Logout(t)
      BY <1>2, StepLogout
<1>3. CASE (\E t \in Tabs : ChangePassword(t)) \/ RevokedElsewhere
      BY <1>3, StepRevokeAll DEF ChangePassword, RevokedElsewhere
<1>4. CASE \E t \in Tabs, c \in Calls : Send(c, t)
      BY <1>4, StepSend
<1>5. CASE \E c \in Calls : Serve(c)
      BY <1>5, StepRead, StepRevokeReused, StepRotate, StepIssue, StepReceive DEF Serve
<1>6. CASE \E c \in Calls : Lose(c)
      BY <1>6, StepLose
<1>7. CASE UNCHANGED sessionVars
      BY <1>7 DEF sessionVars, SessionInv, SessionTypes, Calm, AllIssued, Issued, Apart, CallsInTurn, CookieStaysGood, UnderwayIn
<1> QED BY <1>1, <1>2, <1>3, <1>4, <1>5, <1>6, <1>7 DEF SessionsNext

\* The sessions' invariant holds of every behaviour, for any browsers, tabs and sessions.
THEOREM SessionInvCorrect == SessionsSpec => []SessionInv
<1> QED BY SessionInitial, SessionStep, PTL DEF SessionsSpec

\* However many browsers, tabs and calls there are, refresh's "stolen token" answer (which
\* signs every device out) is given only after tabs of one browser overlapped, an answer
\* was lost, or sessions were revoked from elsewhere.
THEOREM ReuseHasACauseCorrect == SessionsSpec => []ReuseHasACause
<1>1. SessionInv => ReuseHasACause
      BY DEF SessionInv, Calm, ReuseHasACause
<1> QED BY <1>1, SessionInvCorrect, PTL

\* And until then a browser with no refresh under way has a cookie that refresh accepts.
THEOREM CookieStaysGoodCorrect == SessionsSpec => []CookieStaysGood
<1>1. SessionInv => CookieStaysGood
      BY DEF SessionInv, Calm, CookieStaysGood
<1> QED BY <1>1, SessionInvCorrect, PTL

-----------------------------------------------------------------------------
(* Staff accounts. An owner remains, for any staff, as long as requests    *)
(* that may remove one take turns: while the only such request is open its *)
(* target is never the only owner, since all others can only add owners.   *)

StaffStatuses == {"ACTIVE", "DISABLED", "SUSPENDED"}
StaffRequests ==
    {NoRequest} \cup [op : {"role"}, target : Staff, to : Roles]
                \cup [op : {"status"}, target : Staff, to : StaffStatuses]

\* What the two rows say, and what a request has read.
RequestsTyped ==
    /\ role \in [Staff -> Roles] /\ status \in [Staff -> StaffStatuses]
    /\ request \in [Staff -> StaffRequests] /\ overlapped \in BOOLEAN

Owns(v) == role[v] = "OWNER" /\ status[v] = "ACTIVE"

\* One removal at a time, and not of the only owner.
TurnsTaken ==
    /\ AnOwnerRemains
    /\ \A a, b \in Staff : Removes(request[a]) /\ Removes(request[b]) => a = b
    /\ \A a \in Staff : Removes(request[a]) => \E v \in Staff \ {request[a].target} : Owns(v)

StaffInv == RequestsTyped /\ (overlapped \/ TurnsTaken)

\* There is an owner at the start.
LEMMA StaffInitial == StaffInit => StaffInv
<1> USE DEF StaffInit, StaffInv, RequestsTyped, StaffRequests, NoRequest, StaffStatuses
<1>1. StaffInit => \A a \in Staff : ~Removes(request[a])
      BY DEF Removes
<1>2. StaffInit => AnOwnerRemains
      BY DEF AnOwnerRemains
<1> QED BY <1>1, <1>2 DEF TurnsTaken

\* A request that opens and removes has seen another owner, or its target is none.
LEMMA OpenKeeps ==
    ASSUME StaffInv, NEW a \in Staff, NEW u \in Staff, NEW op, NEW to,
           [op |-> op, target |-> u, to |-> to] \in StaffRequests,
           MayManage(a), Open(a, op, u, to),
           Removes([op |-> op, target |-> u, to |-> to]) /\ role[u] = "OWNER" => OtherOwners(u) # {}
    PROVE  StaffInv'
<1> DEFINE q == [op |-> op, target |-> u, to |-> to]
<1> USE DEF StaffInv
<1>1. RequestsTyped'
      BY DEF RequestsTyped, Open
<1>2. CASE overlapped'
      BY <1>1, <1>2
<1>3. CASE ~overlapped'
      <2>1. /\ ~overlapped /\ TurnsTaken
            /\ Removes(q) => \A b \in Staff : ~Removes(request[b])
            BY <1>3 DEF Open
      <2>2. /\ AnOwnerRemains' /\ request'[a] = q
            /\ \A b \in Staff \ {a} : request'[b] = request[b]
            /\ \A v \in Staff : Owns(v)' <=> Owns(v)
            BY <2>1 DEF Open, TurnsTaken, AnOwnerRemains, Owns, RequestsTyped
      <2>3. Removes(q) => \E v \in Staff \ {u} : Owns(v)
            BY <2>1 DEF TurnsTaken, AnOwnerRemains, OtherOwners, Owns
      <2>4. \A b, c \in Staff : Removes(request'[b]) /\ Removes(request'[c]) => b = c
            BY <2>1, <2>2 DEF TurnsTaken
      <2>5. \A b \in Staff : Removes(request'[b]) => \E v \in Staff \ {request'[b].target} : Owns(v)'
            BY <2>1, <2>2, <2>3 DEF TurnsTaken
      <2>6. TurnsTaken'
            BY <2>2, <2>4, <2>5 DEF TurnsTaken, Removes
      <2> QED BY <1>1, <2>6
<1> QED BY <1>1, <1>2, <1>3 DEF RequestsTyped

\* A write that does not remove leaves every owner; the one that does leaves another.
LEMMA FinishKeeps ==
    ASSUME StaffInv, NEW a \in Staff, Finish(a)
    PROVE  StaffInv'
<1> DEFINE q == request[a]
<1> USE DEF StaffInv
<1>1. /\ q.target \in Staff
      /\ (q.op = "role" /\ q.to \in Roles) \/ (q.op = "status" /\ q.to \in StaffStatuses)
      BY DEF RequestsTyped, StaffRequests, NoRequest, Finish
<1>2. RequestsTyped'
      BY <1>1 DEF RequestsTyped, StaffRequests, Finish
<1>3. CASE overlapped
      BY <1>2, <1>3 DEF Finish
<1>4. CASE ~overlapped
      <2>1. /\ request'[a] = NoRequest /\ ~Removes(request'[a])
            /\ \A b \in Staff \ {a} : request'[b] = request[b]
            BY DEF Finish, RequestsTyped, Removes, NoRequest
      <2>2. \A v \in Staff : (~Removes(q) \/ v # q.target) /\ Owns(v) => Owns(v)'
            BY <1>1 DEF Finish, Removes, RequestsTyped, Owns
      <2>3. AnOwnerRemains'
            <3>1. \E v \in Staff : Owns(v) /\ (~Removes(q) \/ v # q.target)
                  BY <1>4 DEF TurnsTaken, AnOwnerRemains, Owns
            <3> QED BY <2>2, <3>1 DEF AnOwnerRemains, Owns
      <2>4. \A b, c \in Staff : Removes(request'[b]) /\ Removes(request'[c]) => b = c
            BY <1>4, <2>1 DEF TurnsTaken
      <2>5. \A b \in Staff : Removes(request'[b]) => \E v \in Staff \ {request'[b].target} : Owns(v)'
            <3>1. \A b \in Staff : Removes(request'[b]) => b # a /\ request'[b] = request[b] /\ ~Removes(q)
                  BY <1>4, <2>1 DEF TurnsTaken
            <3> QED BY <1>4, <2>2, <3>1 DEF TurnsTaken
      <2>6. TurnsTaken'
            BY <2>3, <2>4, <2>5 DEF TurnsTaken, Removes
      <2> QED BY <1>2, <2>6
<1> QED BY <1>3, <1>4, <1>2 DEF RequestsTyped

\* The staff accounts' invariant holds of every behaviour.
THEOREM StaffInvCorrect == StaffSpec => []StaffInv
<1>1. StaffInv /\ [StaffNext]_staffVars => StaffInv'
      <2> SUFFICES ASSUME StaffInv, [StaffNext]_staffVars PROVE StaffInv'
          OBVIOUS
      <2>1. CASE UNCHANGED staffVars
            BY <2>1 DEF staffVars, StaffInv, RequestsTyped, TurnsTaken, AnOwnerRemains, Owns
      <2>2. ASSUME NEW a \in Staff, Finish(a) PROVE StaffInv'
            BY <2>2, FinishKeeps
      <2>3. ASSUME NEW a \in Staff, NEW u \in Staff, NEW r \in Roles, StartChangeRole(a, u, r)
            PROVE  StaffInv'
            <3>1. [op |-> "role", target |-> u, to |-> r] \in StaffRequests
                  BY DEF StaffRequests
            <3> QED BY <2>3, <3>1, OpenKeeps DEF StartChangeRole, Removes
      <2>4. ASSUME NEW a \in Staff, NEW u \in Staff, NEW s \in StaffStatuses, StartSetStatus(a, u, s)
            PROVE  StaffInv'
            <3>1. [op |-> "status", target |-> u, to |-> s] \in StaffRequests
                  BY DEF StaffRequests
            <3> QED BY <2>4, <3>1, OpenKeeps DEF StartSetStatus, Removes
      <2> QED BY <2>1, <2>2, <2>3, <2>4 DEF StaffNext, StaffStatuses
<1> QED BY <1>1, StaffInitial, PTL DEF StaffSpec

\* "The last owner account cannot be removed" (staff.service.ts:150), by requests that
\* take turns, whatever is promoted, demoted, disabled or blocked in between.
THEOREM OwnerSurvivesTurnsCorrect == StaffSpec => []OwnerSurvivesTurns
<1>1. StaffInv => OwnerSurvivesTurns
      BY DEF StaffInv, TurnsTaken, OwnerSurvivesTurns
<1> QED BY <1>1, StaffInvCorrect, PTL

-----------------------------------------------------------------------------
(* Support chat. Both statements that clear a badge clear it to 0, and the *)
(* one that counts a message writes it in the same transaction.            *)

States == OpenStates \cup ClosedStates \cup {"none"}
ThreadRow == [status : States, assignee : Agents \cup {"none"}, badge : Nat, stamped : BOOLEAN]
AgentRow == [at : {"none", "reply", "move", "read"}, on : Threads \cup {0}, to : States,
             reopens : BOOLEAN, takes : BOOLEAN, seen : Nat]

ChatTypes ==
    /\ thread \in [Threads -> ThreadRow] /\ unread \in [Threads -> Nat]
    /\ does \in [Agents -> AgentRow]
    /\ written \in 0..MaxMessages

\* No thread counts more messages than there are, nor has more than were written.
CountsWithin == \A t \in Threads : thread[t].badge <= unread[t] /\ unread[t] <= written

ChatInv == ChatTypes /\ CountsWithin

\* No conversation has a message at the start.
LEMMA ChatInitial == ChatInit => ChatInv
<1> SUFFICES ASSUME ChatInit PROVE ChatInv
    OBVIOUS
<1>1. NoThread \in ThreadRow /\ NoThread.badge = 0
      BY DEF NoThread, ThreadRow, States
<1>2. Quiet \in AgentRow
      BY DEF Quiet, AgentRow, States
<1> QED BY <1>1, <1>2, ChatAssumption DEF ChatInit, ChatInv, ChatTypes, CountsWithin

\* Rows of threads that keep their badge, or lose it together with what is unread.
LEMMA BadgesKept ==
    ASSUME ChatInv, thread' \in [Threads -> ThreadRow], does' \in [Agents -> AgentRow], written' = written,
           unread' \in [Threads -> Nat],
           \A t \in Threads : /\ unread'[t] <= unread[t]
                              /\ \/ thread'[t].badge = 0
                                 \/ thread'[t].badge = thread[t].badge /\ unread'[t] = unread[t]
    PROVE  ChatInv'
<1>1. \A t \in Threads : thread[t].badge \in Nat /\ unread[t] \in Nat /\ written \in Nat
      BY ChatAssumption DEF ChatInv, ChatTypes, ThreadRow
<1>2. CountsWithin'
  <2> SUFFICES ASSUME NEW t \in Threads PROVE thread'[t].badge <= unread'[t] /\ unread'[t] <= written
      BY DEF CountsWithin
  <2>1. thread[t].badge <= unread[t] /\ unread[t] <= written
        BY DEF ChatInv, CountsWithin
  <2>2. unread'[t] \in Nat
        OBVIOUS
  <2> QED BY <1>1, <2>1, <2>2
<1> QED BY <1>2 DEF ChatInv, ChatTypes

\* A question raises the badge after its message is there.
LEMMA StepPostQuestion ==
    ASSUME ChatInv, NEW c \in ChatTabs, PostQuestion(c)
    PROVE  ChatInv'
<1> DEFINE t == asks[c].on
           stamped == thread[t].stamped /\ ~asks[c].reopens
           row == [thread[t] EXCEPT !.status = "OPEN", !.badge = thread[t].badge + 1, !.stamped = stamped]
<1>1. \A u \in Threads : thread[u] \in ThreadRow /\ thread[u].badge \in Nat /\ unread[u] \in Nat /\ written \in Nat
      BY ChatAssumption DEF ChatInv, ChatTypes, ThreadRow
<1>2. CASE UNCHANGED <<thread, unread, written>>
      BY <1>2 DEF PostQuestion, ChatInv, ChatTypes, CountsWithin
<1>3. CASE /\ thread' = [thread EXCEPT ![t] = row] /\ unread' = [unread EXCEPT ![t] = unread[t] + 1]
           /\ written' = written + 1
  <2>0. stamped \in BOOLEAN
        OBVIOUS
  <2> HIDE DEF stamped, t
  <2>o. "OPEN" \in States
        BY DEF States, OpenStates
  <2>1. t \in Threads => row \in ThreadRow /\ row.badge = thread[t].badge + 1
    <3> SUFFICES ASSUME t \in Threads PROVE row \in ThreadRow /\ row.badge = thread[t].badge + 1
        OBVIOUS
    <3> DEFINE n == thread[t].badge + 1
    <3>1. n \in Nat /\ thread[t] \in ThreadRow
          BY <1>1
    <3> HIDE DEF n
    <3>2. [thread[t] EXCEPT !.status = "OPEN", !.badge = n, !.stamped = stamped] \in ThreadRow
          BY <2>0, <2>o, <3>1 DEF ThreadRow
    <3>3. [thread[t] EXCEPT !.status = "OPEN", !.badge = n, !.stamped = stamped].badge = n
          BY <3>1 DEF ThreadRow
    <3> QED BY <3>2, <3>3 DEF n
  <2> HIDE DEF row
  <2>2. \A u \in Threads : \/ u # t /\ thread'[u] = thread[u] /\ unread'[u] = unread[u]
                           \/ /\ u = t /\ thread'[u] \in ThreadRow /\ thread'[u].badge = thread[u].badge + 1
                              /\ unread'[u] = unread[u] + 1
        BY <1>3, <2>1 DEF ChatInv, ChatTypes
  <2>3. thread' \in [Threads -> ThreadRow] /\ unread' \in [Threads -> Nat]
    <3>1. thread' \in [Threads -> ThreadRow]
          BY <1>3, <2>1 DEF ChatInv, ChatTypes
    <3>n. t \in Threads => unread[t] + 1 \in Nat
          BY <1>1
    <3>2. unread' \in [Threads -> Nat]
          BY <1>3, <3>n DEF ChatInv, ChatTypes
    <3> QED BY <3>1, <3>2
  <2>4. written' \in 0..MaxMessages /\ does' = does
        BY <1>1, <1>3, ChatAssumption DEF PostQuestion, ChatInv, ChatTypes
  <2>5. CountsWithin'
    <3> SUFFICES ASSUME NEW u \in Threads PROVE thread'[u].badge <= unread'[u] /\ unread'[u] <= written + 1
        BY <1>3 DEF CountsWithin
    <3>1. thread[u].badge <= unread[u] /\ unread[u] <= written
          BY DEF ChatInv, CountsWithin
    <3> QED BY <1>1, <2>2, <3>1
  <2> QED BY <2>3, <2>4, <2>5 DEF ChatInv, ChatTypes
<1> QED BY <1>2, <1>3 DEF PostQuestion

\* Reading a conversation takes its badge down to nothing.
LEMMA StepReset ==
    ASSUME ChatInv, NEW a \in Agents, ResetCounter(a)
    PROVE  ChatInv'
<1> DEFINE t == does[a].on
           seen == does[a].seen
           row == [thread[t] EXCEPT !.badge = 0]
<1>1. \A u \in Threads : thread[u] \in ThreadRow /\ unread[u] \in Nat
      BY DEF ChatInv, ChatTypes
<1>2. seen \in Nat
      BY DEF ChatInv, ChatTypes, AgentRow
<1>3. /\ thread' = [thread EXCEPT ![t] = row]
      /\ unread' = [unread EXCEPT ![t] = IF unread[t] > seen THEN unread[t] - seen ELSE 0]
      /\ does' = [does EXCEPT ![a] = Quiet] /\ written' = written
      BY DEF ResetCounter
<1>4. t \in Threads => row \in ThreadRow /\ row.badge = 0
      BY <1>1 DEF ThreadRow
<1>5. does' \in [Agents -> AgentRow]
      BY <1>3 DEF ChatInv, ChatTypes, Quiet, AgentRow, States
<1> HIDE DEF row, t, seen
<1>6. thread' \in [Threads -> ThreadRow] /\ unread' \in [Threads -> Nat]
  <2>1. thread' \in [Threads -> ThreadRow]
        BY <1>3, <1>4 DEF ChatInv, ChatTypes
  <2>2. \A n \in Nat : (IF n > seen THEN n - seen ELSE 0) \in Nat
        BY <1>2
  <2>3. unread' \in [Threads -> Nat]
        BY <1>1, <1>3, <2>2 DEF ChatInv, ChatTypes
  <2> QED BY <2>1, <2>3
<1>7. \A u \in Threads : /\ unread'[u] <= unread[u]
                         /\ thread'[u].badge = 0 \/ (thread'[u].badge = thread[u].badge /\ unread'[u] = unread[u])
      BY <1>1, <1>2, <1>3, <1>4 DEF ChatInv, ChatTypes
<1> QED BY <1>3, <1>5, <1>6, <1>7, BadgesKept

\* A conversation is moved to another status: one that is closed has no badge.
LEMMA StepMove ==
    ASSUME ChatInv, NEW a \in Agents, Move(a)
    PROVE  ChatInv'
<1> DEFINE t == does[a].on
           to == does[a].to
           shut == to \in ClosedStates
           badge == IF shut THEN 0 ELSE thread[t].badge
           stamped == IF to = "PENDING" THEN thread[t].stamped ELSE shut
           row == [thread[t] EXCEPT !.status = to, !.badge = badge, !.stamped = stamped]
<1>1. \A u \in Threads : thread[u] \in ThreadRow /\ unread[u] \in Nat
      BY DEF ChatInv, ChatTypes
<1>2. to \in States
      BY DEF ChatInv, ChatTypes, AgentRow
<1>3. /\ \/ thread' = [thread EXCEPT ![t] = row] /\ unread' = [unread EXCEPT ![t] = IF shut THEN 0 ELSE unread[t]]
         \/ UNCHANGED <<thread, unread>>
      /\ does' = [does EXCEPT ![a] = Quiet] /\ written' = written
      BY DEF Move
<1>b. t \in Threads => badge \in Nat /\ stamped \in BOOLEAN
  <2>1. t \in Threads => thread[t].badge \in Nat /\ thread[t].stamped \in BOOLEAN
        BY <1>1 DEF ThreadRow
  <2>2. shut \in BOOLEAN
        OBVIOUS
  <2> HIDE DEF t, to, shut
  <2> QED BY <2>1, <2>2
<1> HIDE DEF badge, stamped
<1>4. t \in Threads => row \in ThreadRow /\ row.badge = badge
      BY <1>1, <1>2, <1>b DEF ThreadRow
<1>5. does' \in [Agents -> AgentRow]
      BY <1>3 DEF ChatInv, ChatTypes, Quiet, AgentRow, States
<1> HIDE DEF row, t, to, shut
<1>6. thread' \in [Threads -> ThreadRow] /\ unread' \in [Threads -> Nat]
      BY <1>1, <1>3, <1>4 DEF ChatInv, ChatTypes
<1>7. \A u \in Threads : /\ unread'[u] <= unread[u]
                         /\ thread'[u].badge = 0 \/ (thread'[u].badge = thread[u].badge /\ unread'[u] = unread[u])
      BY <1>1, <1>3, <1>4 DEF ChatInv, ChatTypes, badge
<1> QED BY <1>3, <1>5, <1>6, <1>7, BadgesKept

\* Steps that leave badges and messages alone.
LEMMA StepChatOther ==
    ASSUME ChatInv,
           \/ \E c \in ChatTabs : Start(c) \/ Create(c) \/ \E t \in Threads : ReadToSend(c, t)
           \/ \E a \in Agents :
                \/ PostReply(a)
                \/ \E t \in Threads :
                     \/ StartReply(a, t) \/ MarkMessages(a, t)
                     \/ \E to \in {a, "none"} : Assign(a, t, to)
                     \/ \E to \in {"PENDING", "RESOLVED", "CLOSED", "OPEN"} : StartMove(a, t, to)
    PROVE  ChatInv'
<1>1. \A u \in Threads : /\ thread[u] \in ThreadRow /\ unread[u] \in Nat /\ thread[u].status \in States
                         /\ thread[u].badge \in Nat
      BY DEF ChatInv, ChatTypes, ThreadRow
<1>2. /\ \A a \in Agents : does[a] \in AgentRow /\ does[a].to \in States
      /\ Quiet \in AgentRow
  <2>1. \A a \in Agents : does[a] \in AgentRow
        BY DEF ChatInv, ChatTypes
  <2> QED BY <2>1 DEF Quiet, AgentRow, States
<1>3. unread' = unread /\ written' = written
      BY DEF Start, Create, ReadToSend, PostReply, StartReply, MarkMessages, Assign, StartMove, Agreed
<1>4. ASSUME thread' = thread, does' \in [Agents -> AgentRow] PROVE ChatInv'
      BY <1>3, <1>4 DEF ChatInv, ChatTypes, CountsWithin
<1>5. ASSUME NEW t, NEW row, thread' = [thread EXCEPT ![t] = row],
             t \in Threads => row \in ThreadRow /\ row.badge = thread[t].badge,
             does' \in [Agents -> AgentRow]
      PROVE  ChatInv'
  <2>1. thread' \in [Threads -> ThreadRow] /\ \A u \in Threads : thread'[u].badge = thread[u].badge
        BY <1>1, <1>5 DEF ChatInv, ChatTypes
  <2>2. unread' \in [Threads -> Nat] /\ \A u \in Threads : unread'[u] <= unread[u]
        BY <1>1, <1>3 DEF ChatInv, ChatTypes
  <2> QED BY <1>3, <1>5, <2>1, <2>2, BadgesKept
<1>6. CASE \E c \in ChatTabs : Start(c) \/ Create(c) \/ \E t \in Threads : ReadToSend(c, t)
  <2>1. PICK c \in ChatTabs : Start(c) \/ Create(c) \/ \E t \in Threads : ReadToSend(c, t)
        BY <1>6
  <2>2. does' \in [Agents -> AgentRow]
        BY <2>1 DEF Start, Create, ReadToSend, ChatInv, ChatTypes
  <2>3. CASE thread' = thread
        BY <1>4, <2>2, <2>3
  <2>4. CASE thread' # thread
    <3> DEFINE t == Min(Threads \ Existing)
               row == [thread[t] EXCEPT !.status = "OPEN"]
    <3>1. thread' = [thread EXCEPT ![t] = row]
          BY <2>1, <2>4 DEF Start, Create, ReadToSend
    <3>2. t \in Threads => row \in ThreadRow /\ row.badge = thread[t].badge
          BY <1>1 DEF ThreadRow, States, OpenStates
    <3> HIDE DEF t, row
    <3> QED BY <1>5, <2>2, <3>1, <3>2
  <2> QED BY <2>3, <2>4
<1>7. ASSUME NEW a \in Agents, PostReply(a) PROVE ChatInv'
  <2> DEFINE t == does[a].on
             row == [thread[t] EXCEPT !.status = does[a].to,
                        !.assignee = IF does[a].takes THEN a ELSE thread[t].assignee]
  <2>1. does' \in [Agents -> AgentRow]
        BY <1>2, <1>7 DEF PostReply, ChatInv, ChatTypes
  <2>2. thread' = thread \/ thread' = [thread EXCEPT ![t] = row]
        BY <1>7 DEF PostReply
  <2>3. t \in Threads => row \in ThreadRow /\ row.badge = thread[t].badge
        BY <1>1, <1>2 DEF ThreadRow
  <2> HIDE DEF t, row
  <2> QED BY <1>4, <1>5, <2>1, <2>2, <2>3
<1>8. ASSUME NEW a \in Agents, NEW t \in Threads, NEW to \in {a, "none"}, Assign(a, t, to) PROVE ChatInv'
  <2> DEFINE row == [thread[t] EXCEPT !.assignee = to]
  <2>1. thread' = [thread EXCEPT ![t] = row] /\ does' \in [Agents -> AgentRow]
        BY <1>8 DEF Assign, ChatInv, ChatTypes
  <2>2. row \in ThreadRow /\ row.badge = thread[t].badge
        BY <1>1 DEF ThreadRow
  <2> HIDE DEF row
  <2> QED BY <1>5, <2>1, <2>2
<1>9. ASSUME NEW a \in Agents, NEW t \in Threads, NEW at \in {"reply", "move"}, NEW to \in States, Agreed(a, t, at, to)
      PROVE  ChatInv'
  <2> DEFINE row == [Quiet EXCEPT !.at = at, !.on = t, !.to = to,
                        !.takes = at = "reply" /\ thread[t].assignee = "none"]
  <2>1. row \in AgentRow
        BY DEF Quiet, AgentRow
  <2>2. does' = [does EXCEPT ![a] = row] /\ thread' = thread
        BY <1>9 DEF Agreed
  <2> HIDE DEF row
  <2>3. does' \in [Agents -> AgentRow]
        BY <2>1, <2>2 DEF ChatInv, ChatTypes
  <2> QED BY <1>4, <2>2, <2>3
<1>10. ASSUME NEW a \in Agents, NEW t \in Threads, MarkMessages(a, t) PROVE ChatInv'
  <2> DEFINE row == [Quiet EXCEPT !.at = "read", !.on = t, !.seen = unread[t]]
  <2>1. row \in AgentRow
        BY <1>1 DEF Quiet, AgentRow, States
  <2>2. does' = [does EXCEPT ![a] = row] /\ thread' = thread
        BY <1>10 DEF MarkMessages
  <2> HIDE DEF row
  <2>3. does' \in [Agents -> AgentRow]
        BY <2>1, <2>2 DEF ChatInv, ChatTypes
  <2> QED BY <1>4, <2>2, <2>3
<1>11. ASSUME NEW a \in Agents, NEW t \in Threads, StartReply(a, t) PROVE ChatInv'
  <2>1. (IF thread[t].status = "OPEN" THEN "PENDING" ELSE thread[t].status) \in States
        BY <1>1 DEF States, OpenStates
  <2> QED BY <1>9, <1>11, <2>1 DEF StartReply
<1>12. ASSUME NEW a \in Agents, NEW t \in Threads, NEW to \in {"PENDING", "RESOLVED", "CLOSED", "OPEN"}, StartMove(a, t, to)
       PROVE  ChatInv'
  <2>1. to \in States
        BY DEF States, OpenStates, ClosedStates
  <2> QED BY <1>9, <1>12, <2>1 DEF StartMove
<1> QED BY <1>6, <1>7, <1>8, <1>10, <1>11, <1>12

\* Every step of the chat keeps the invariant.
LEMMA ChatStep == ChatInv /\ [ChatNext]_chatVars => ChatInv'
<1> SUFFICES ASSUME ChatInv, [ChatNext]_chatVars PROVE ChatInv'
    OBVIOUS
<1>1. CASE UNCHANGED chatVars
      BY <1>1 DEF chatVars, ChatInv, ChatTypes, CountsWithin
<1>2. CASE ChatNext
      BY <1>2, StepPostQuestion, StepReset, StepMove, StepChatOther DEF ChatNext
<1> QED BY <1>1, <1>2

\* Whatever agents read, move and answer while the customer writes, the unread counter of
\* the inbox (conversations.unread_by_staff) never exceeds the messages staff have not
\* read: markRead's two statements cannot leave a badge with nothing behind it.
THEOREM BadgeNotOverstatedCorrect == ChatSpec => []BadgeNotOverstated
<1>1. ChatInv => BadgeNotOverstated
      BY DEF ChatInv, CountsWithin, BadgeNotOverstated
<1>2. ChatSpec => []ChatInv
      BY ChatInitial, ChatStep, PTL DEF ChatSpec
<1> QED BY <1>1, <1>2, PTL

-----------------------------------------------------------------------------
(* Reviews. A transaction that is alone when it writes sums the reviews as *)
(* they will be when it commits, unless another one writes before that.    *)

\* A transaction with an open write, by its fields.
OpenWrite(q) == [at |-> "commit", row |-> q.row, review |-> q.review, rating |-> q.rating, alone |-> q.alone]
JobTypes ==
    /\ job = [r \in Requests |-> job[r]]
    /\ \A r \in Uncommitted : job[r] = OpenWrite(job[r]) /\ job[r].alone \in BOOLEAN

AloneIsExact ==
    \A r \in Uncommitted : job[r].alone = TRUE =>
        /\ Uncommitted = {r}
        /\ job[r].rating = Recomputed([reviews EXCEPT ![job[r].row] = job[r].review])

ReviewInv == JobTypes /\ AloneIsExact

\* Products start without reviews, and with the figures of none.
LEMMA ReviewsInitial == ReviewsInit => ReviewInv
<1> SUFFICES ASSUME ReviewsInit PROVE ReviewInv
    OBVIOUS
<1>1. job = [r \in Requests |-> Resting]
      BY DEF ReviewsInit
<1>2. Uncommitted = {}
      BY <1>1 DEF Uncommitted, Resting
<1>3. job = [r \in Requests |-> job[r]]
      BY <1>1
<1> QED BY <1>2, <1>3 DEF ReviewInv, JobTypes, AloneIsExact

\* A request that has not written yet moves on.
LEMMA StillToWrite ==
    ASSUME ReviewInv, NEW r \in Requests \ Uncommitted, NEW v, v.at # "commit", job' = [job EXCEPT ![r] = v],
           reviews' = reviews
    PROVE  ReviewInv'
<1>1. \A q \in Requests : job'[q] = IF q = r THEN v ELSE job[q]
      BY DEF ReviewInv, JobTypes
<1>2. Uncommitted' = Uncommitted
      BY <1>1 DEF Uncommitted
<1>3. \A q \in Uncommitted : q \in Requests /\ job'[q] = job[q]
      BY <1>1 DEF Uncommitted
<1>4. job' = [q \in Requests |-> job'[q]]
      BY DEF ReviewInv, JobTypes
<1>5. JobTypes'
      BY <1>2, <1>3, <1>4 DEF ReviewInv, JobTypes, OpenWrite
<1>6. AloneIsExact'
      BY <1>2, <1>3 DEF ReviewInv, AloneIsExact
<1> QED BY <1>5, <1>6 DEF ReviewInv

\* A request writes: whoever has an open write is alone no more.
LEMMA HoldingStep ==
    ASSUME ReviewInv, NEW r \in Requests \ Uncommitted, NEW row, NEW review, Holding(r, row, review), reviews' = reviews
    PROVE  ReviewInv'
<1> DEFINE figures == Recomputed([reviews EXCEPT ![row] = review])
           v == HeldBack(row, review, figures)
<1>1. job' = [Interrupted EXCEPT ![r] = v]
      BY DEF Holding
<1>2. /\ v.at = "commit" /\ v.row = row /\ v.review = review /\ v.rating = figures
      /\ v.alone = (Uncommitted = {}) /\ v = OpenWrite(v)
      BY DEF HeldBack, OpenWrite
<1>3. v.alone \in BOOLEAN
      BY <1>2
<1> HIDE DEF v, figures
<1>4. /\ job' = [q \in Requests |-> job'[q]]
      /\ job'[r] = v
      /\ \A q \in Requests : q # r => job'[q] = IF q \in Uncommitted THEN [job[q] EXCEPT !.alone = FALSE] ELSE job[q]
      BY <1>1 DEF Interrupted
<1>5. ASSUME NEW q \in Uncommitted
      PROVE  /\ q \in Requests /\ q # r /\ job'[q].at = "commit" /\ job'[q].alone = FALSE
             /\ job'[q] = OpenWrite(job'[q])
  <2>1. q \in Requests /\ q # r /\ job'[q] = [job[q] EXCEPT !.alone = FALSE] /\ job[q] = OpenWrite(job[q])
        BY <1>4 DEF Uncommitted, ReviewInv, JobTypes
  <2> DEFINE x == job[q]
             y == job'[q]
  <2>2. y = [x EXCEPT !.alone = FALSE]
        /\ x = [at |-> "commit", row |-> x.row, review |-> x.review, rating |-> x.rating, alone |-> x.alone]
        BY <2>1 DEF OpenWrite
  <2> HIDE DEF x, y
  <2>p. PICK a, b, c, d : x = [at |-> "commit", row |-> a, review |-> b, rating |-> c, alone |-> d]
        BY ONLY <2>2
  <2>f. y = [[at |-> "commit", row |-> a, review |-> b, rating |-> c, alone |-> d] EXCEPT !.alone = FALSE]
        BY ONLY <2>2, <2>p
  <2>x. x.row = a /\ x.review = b /\ x.rating = c
        BY ONLY <2>p
  <2>y. y = [at |-> "commit", row |-> a, review |-> b, rating |-> c, alone |-> FALSE]
        BY ONLY <2>f
  <2>3. y = [at |-> "commit", row |-> x.row, review |-> x.review, rating |-> x.rating, alone |-> FALSE]
        BY ONLY <2>x, <2>y
  <2>4. /\ y.at = "commit" /\ y.row = x.row /\ y.review = x.review /\ y.rating = x.rating /\ y.alone = FALSE
        BY <2>3
  <2>5. y = [at |-> "commit", row |-> y.row, review |-> y.review, rating |-> y.rating, alone |-> y.alone]
        BY ONLY <2>3, <2>4
  <2> QED BY <2>1, <2>4, <2>5 DEF y, OpenWrite
<1>6. \A q \in Requests : q \in Uncommitted' <=> q \in Uncommitted \/ q = r
      BY <1>2, <1>4, <1>5 DEF Uncommitted
<1>7. Uncommitted' = Uncommitted \cup {r}
      BY <1>6 DEF Uncommitted
<1>8. JobTypes'
  <2> SUFFICES ASSUME NEW q \in Uncommitted' PROVE job'[q] = OpenWrite(job'[q]) /\ job'[q].alone \in BOOLEAN
      BY <1>4 DEF JobTypes, OpenWrite
  <2>1. CASE q = r
        BY <1>2, <1>3, <1>4, <2>1
  <2>2. CASE q \in Uncommitted
        BY <1>5, <2>2
  <2> QED BY <1>7, <2>1, <2>2
<1>9. AloneIsExact'
  <2> SUFFICES ASSUME NEW q \in Uncommitted', job'[q].alone = TRUE
               PROVE  /\ Uncommitted' = {q}
                      /\ job'[q].rating = Recomputed([reviews EXCEPT ![job'[q].row] = job'[q].review])
      BY DEF AloneIsExact
  <2>1. q = r
        BY <1>5, <1>7
  <2>2. Uncommitted = {}
        BY <1>2, <1>4, <2>1
  <2>3. job'[q].rating = figures /\ job'[q].row = row /\ job'[q].review = review
        BY <1>2, <1>4, <2>1
  <2> QED BY <1>7, <2>1, <2>2, <2>3 DEF figures
<1> QED BY <1>8, <1>9 DEF ReviewInv

\* When a request commits that was alone, the rating is exact.
LEMMA CommitStep ==
    ASSUME ReviewInv, NEW r \in Requests, Commit(r)
    PROVE  ReviewInv' /\ (job[r].alone = TRUE => Exact') /\ \A q \in Uncommitted : q = r \/ job'[q] = job[q]
<1>1. /\ r \in Uncommitted /\ job' = [job EXCEPT ![r] = Resting]
      /\ reviews' = [reviews EXCEPT ![job[r].row] = job[r].review] /\ rating' = job[r].rating
      BY DEF Commit
<1>2. \A q \in Requests : job'[q] = IF q = r THEN Resting ELSE job[q]
      BY <1>1 DEF ReviewInv, JobTypes
<1>3. \A q \in Requests : q \in Uncommitted' <=> q \in Uncommitted /\ q # r
      BY <1>2 DEF Uncommitted, Resting
<1>4. Uncommitted' = Uncommitted \ {r}
      BY <1>3 DEF Uncommitted
<1>5. \A q \in Uncommitted \ {r} : q \in Requests /\ job'[q] = job[q]
      BY <1>2 DEF Uncommitted
<1>6. job' = [q \in Requests |-> job'[q]]
      BY <1>1 DEF ReviewInv, JobTypes
<1>7. JobTypes'
      BY <1>4, <1>5, <1>6 DEF ReviewInv, JobTypes, OpenWrite
<1>8. \A q \in Uncommitted \ {r} : job[q].alone # TRUE
      BY <1>1 DEF ReviewInv, AloneIsExact
<1>9. AloneIsExact'
      BY <1>4, <1>5, <1>8 DEF AloneIsExact
<1>10. ASSUME job[r].alone = TRUE PROVE Exact'
  <2>1. rating' = Recomputed([reviews EXCEPT ![job[r].row] = job[r].review])
        BY <1>1, <1>10 DEF ReviewInv, AloneIsExact
  <2>2. rating' = Recomputed(reviews')
        BY <1>1, <2>1
  <2>3. Exact' <=> rating' = Recomputed(reviews')
        BY DEF Exact
  <2> QED BY <2>2, <2>3
<1> QED BY <1>5, <1>7, <1>9, <1>10 DEF ReviewInv

\* A request reads, or is refused.
LEMMA StepReviewOther ==
    ASSUME ReviewInv,
           \/ \E l \in Lines : Deliver(l)
           \/ \E r \in Requests :
                \/ \E b \in Buyers, s \in Stars : StartCreate(r, b, s)
                \/ \E i \in Rows, to \in {"APPROVED", "REJECTED"} : StartModerate(r, i, to)
                \/ WriteCreate(r) \/ WriteModeration(r)
    PROVE  ReviewInv' /\ \A q \in Uncommitted : job'[q] # Resting
<1>1. reviews' = reviews
      BY DEF Deliver, StartCreate, StartModerate, WriteCreate, WriteModeration
<1>2. \A q \in Uncommitted : q \in Requests /\ job[q].at = "commit" /\ job[q] # Resting
      BY DEF Uncommitted, Resting
<1>3. CASE \E l \in Lines : Deliver(l)
  <2>1. job' = job
        BY <1>3 DEF Deliver
  <2> QED BY <1>1, <1>2, <2>1 DEF ReviewInv, JobTypes, AloneIsExact, Uncommitted, OpenWrite
<1>4. ASSUME NEW r \in Requests \ Uncommitted, NEW v, v.at # "commit", job' = [job EXCEPT ![r] = v]
      PROVE  ReviewInv' /\ \A q \in Uncommitted : job'[q] # Resting
  <2>1. ReviewInv'
        BY <1>1, <1>4, StillToWrite
  <2>2. \A q \in Uncommitted : job'[q] = job[q]
        BY <1>2, <1>4 DEF ReviewInv, JobTypes
  <2> QED BY <1>2, <2>1, <2>2
<1>5. ASSUME NEW r \in Requests \ Uncommitted, NEW row, NEW review, Holding(r, row, review)
      PROVE  ReviewInv' /\ \A q \in Uncommitted : job'[q] # Resting
  <2>1. ReviewInv'
        BY <1>1, <1>5, HoldingStep
  <2>2. ASSUME NEW q \in Uncommitted PROVE job'[q] # Resting
    <3>1. job'[q] = [job[q] EXCEPT !.alone = FALSE] /\ job[q] = OpenWrite(job[q])
          BY <1>2, <1>5 DEF Holding, Interrupted, ReviewInv, JobTypes
    <3>2. job'[q].at = "commit"
          BY <3>1 DEF OpenWrite
    <3> QED BY <3>2 DEF Resting
  <2> QED BY <2>1, <2>2
<1>6. CASE \E r \in Requests, b \in Buyers, s \in Stars : StartCreate(r, b, s)
  <2>1. PICK r \in Requests, b \in Buyers, s \in Stars : StartCreate(r, b, s)
        BY <1>6
  <2>2. r \notin Uncommitted
        BY <2>1 DEF StartCreate, Uncommitted, Resting
  <2>3. PICK l : job' = [job EXCEPT ![r] = [at |-> "create", review |-> [by |-> b, line |-> l, stars |-> s, status |-> "APPROVED"]]]
        BY <2>1 DEF StartCreate
  <2> QED BY <1>4, <2>2, <2>3
<1>7. CASE \E r \in Requests, i \in Rows, to \in {"APPROVED", "REJECTED"} : StartModerate(r, i, to)
  <2>1. PICK r \in Requests, i \in Rows, to \in {"APPROVED", "REJECTED"} : StartModerate(r, i, to)
        BY <1>7
  <2>2. r \notin Uncommitted /\ job' = [job EXCEPT ![r] = [at |-> "moderate", row |-> i, to |-> to]]
        BY <2>1 DEF StartModerate, Uncommitted, Resting
  <2> QED BY <1>4, <2>2
<1>8. CASE \E r \in Requests : WriteCreate(r)
  <2>1. PICK r \in Requests : WriteCreate(r)
        BY <1>8
  <2>2. r \notin Uncommitted
        BY <2>1 DEF WriteCreate, Uncommitted
  <2>3. \/ job' = [job EXCEPT ![r] = Resting]
        \/ \E row, review : Holding(r, row, review)
        BY <2>1 DEF WriteCreate
  <2>4. Resting.at # "commit"
        BY DEF Resting
  <2> QED BY <1>4, <1>5, <2>2, <2>3, <2>4
<1>9. CASE \E r \in Requests : WriteModeration(r)
  <2>1. PICK r \in Requests : WriteModeration(r)
        BY <1>9
  <2>2. r \notin Uncommitted
        BY <2>1 DEF WriteModeration, Uncommitted
  <2>3. \E row, review : Holding(r, row, review)
        BY <2>1 DEF WriteModeration
  <2> QED BY <1>5, <2>2, <2>3
<1> QED BY <1>3, <1>6, <1>7, <1>8, <1>9

\* What a step does to open writes.
RepairStep == \A r \in Uncommitted : job[r].alone = TRUE /\ job'[r] = Resting => Exact'

\* Every step of the reviews keeps the invariant, and a recompute that commits repairs its product.
LEMMA ReviewStep ==
    ASSUME ReviewInv, [ReviewsNext]_reviewVars
    PROVE  ReviewInv' /\ RepairStep
<1>1. \A q \in Uncommitted : q \in Requests /\ job[q] # Resting
      BY DEF Uncommitted, Resting
<1>2. CASE UNCHANGED reviewVars
      BY <1>1, <1>2 DEF reviewVars, ReviewInv, JobTypes, AloneIsExact, Uncommitted, OpenWrite, RepairStep
<1>3. CASE \E r \in Requests : Commit(r)
      BY <1>1, <1>3, CommitStep DEF RepairStep
<1>4. CASE ReviewsNext /\ ~ \E r \in Requests : Commit(r)
      BY <1>4, StepReviewOther DEF ReviewsNext, RepairStep
<1> QED BY <1>2, <1>3, <1>4

\* However many requests write and moderate reviews at once, one that has them to itself
\* from its write to its commit leaves the average and the count of a product exact
\* (recomputeRating reads all approved reviews, not the last rating).
THEOREM RecomputeRepairsCorrect == ReviewsSpec => RecomputeRepairs
<1>1. ReviewInv /\ [ReviewsNext]_reviewVars => ReviewInv'
      BY ReviewStep
<1>2. ReviewInv /\ [ReviewsNext]_reviewVars =>
         [\A r \in Uncommitted : job[r].alone /\ job'[r] = Resting => Exact']_reviewVars
  <2> SUFFICES ASSUME ReviewInv, [ReviewsNext]_reviewVars, NEW r \in Uncommitted, job[r].alone, job'[r] = Resting
               PROVE  Exact'
      OBVIOUS
  <2>1. job[r].alone = TRUE
        BY DEF ReviewInv, JobTypes
  <2> QED BY <2>1, ReviewStep DEF RepairStep
<1> QED BY <1>1, <1>2, ReviewsInitial, PTL DEF ReviewsSpec, RecomputeRepairs

-----------------------------------------------------------------------------
(* Shipments. Of several open writes at most one leaves a parcel active,   *)
(* and it holds whatever was active before; as long as writes take turns,  *)
(* the sum a write has made is that of the rows it will leave.             *)

ParcelRow == [status : Statuses, booked : BOOLEAN, courier : Couriers, charge : Charges,
              back : Charges \cup {0}, cod : {0, Due}, codStatus : CodStatuses]
ParcelTable == [ParcelRows -> ParcelRow \cup {NoParcel}]

ShipTypes ==
    /\ parcels \in ParcelTable /\ order \in [open : BOOLEAN, unpaid : BOOLEAN, cost : Nat]
    /\ dispatch = [d \in Dispatchers |-> dispatch[d]]
    /\ \A d \in Dispatchers :
         /\ dispatch[d].at = "assign" =>
              /\ dispatch[d].courier \in Couriers /\ dispatch[d].charge \in Charges /\ dispatch[d].tracked \in BOOLEAN
              /\ \A a \in dispatch[d].active : a.id \in Sent(parcels)
         /\ dispatch[d].at = "update" => dispatch[d].row \in Sent(parcels) /\ dispatch[d].report \in Reports
         /\ dispatch[d].at = "commit" =>
              /\ dispatch[d].held \subseteq ParcelRows /\ \A i \in dispatch[d].held : dispatch[d].rows[i] \in ParcelRow
              /\ dispatch[d].cost \subseteq Nat

\* The parcels an open write leaves active, and the table as it will be.
LeavesActive(d) == {i \in dispatch[d].held : dispatch[d].rows[i].status \notin Closed}
After(d) == [i \in ParcelRows |-> IF i \in dispatch[d].held THEN dispatch[d].rows[i] ELSE parcels[i]]

AtMostOne(S) == \A i, j \in S : i = j
OneActiveInTurn ==
    /\ AtMostOne(ActiveIn(parcels))
    /\ \A d \in WithOpenWrite : AtMostOne(LeavesActive(d) \cup (ActiveIn(parcels) \ dispatch[d].held))
    /\ \A d, e \in WithOpenWrite :
         d # e => dispatch[d].held \cap dispatch[e].held = {} /\ (LeavesActive(d) = {} \/ LeavesActive(e) = {})

BillInTurn ==
    ~met => /\ \A d, e \in WithOpenWrite : d = e
            /\ \A d \in WithOpenWrite : dispatch[d].cost = Synced(After(d))
            /\ Synced(parcels) # {} => order.cost = Bill(parcels)

ShipInv == ShipTypes /\ OneActiveInTurn /\ BillInTurn

\* Of rows of a table.
LEMMA SentMeaning ==
    ASSUME NEW rows \in ParcelTable
    PROVE  /\ \A i \in ParcelRows : i \in Sent(rows) <=> rows[i] \in ParcelRow
           /\ \A i \in ParcelRows : i \in ActiveIn(rows) <=> rows[i] \in ParcelRow /\ rows[i].status \notin Closed
           /\ \A i \in ParcelRows : i \in Billed(rows) <=> rows[i] \in ParcelRow /\ rows[i].status # "CANCELLED"
           /\ Sent(rows) \subseteq ParcelRows /\ ActiveIn(rows) \subseteq ParcelRows /\ Billed(rows) \subseteq ParcelRows
<1>1. NoParcel \notin ParcelRow
  <2>1. \A r \in ParcelRow : r.status \in Statuses
        BY DEF ParcelRow
  <2>2. NoParcel.status \notin Statuses
        BY DEF NoParcel, Statuses, Closed
  <2> QED BY <2>1, <2>2
<1>2. \A i \in ParcelRows : rows[i] # NoParcel <=> rows[i] \in ParcelRow
      BY <1>1 DEF ParcelTable
<1> QED BY <1>2 DEF Sent, ActiveIn, Billed

\* No cardinality is needed to say that there are not two.
LEMMA NotTwo ==
    ASSUME NEW S, S \subseteq ParcelRows
    PROVE  Cardinality(S) <= 1 <=> AtMostOne(S)
<1>1. IsFiniteSet(S)
  <2>1. IsFiniteSet(ParcelRows)
        BY FS_Interval, ShipmentsAssumption DEF ParcelRows
  <2> QED BY <2>1, FS_Subset
<1>2. ASSUME Cardinality(S) <= 1, NEW i \in S, NEW j \in S PROVE i = j
  <2>1. IsFiniteSet(S \ {i}) /\ Cardinality(S \ {i}) = Cardinality(S) - 1 /\ Cardinality(S) \in Nat
        BY <1>1, FS_RemoveElement, FS_CardinalityType
  <2>2. Cardinality(S \ {i}) \in Nat
        BY <2>1, FS_CardinalityType
  <2>3. Cardinality(S \ {i}) = 0
        BY <1>2, <2>1, <2>2
  <2>4. S \ {i} = {}
        BY <2>1, <2>3, FS_EmptySet
  <2> QED BY <2>4
<1>3. ASSUME AtMostOne(S) PROVE Cardinality(S) <= 1
  <2>1. CASE S = {}
        BY <2>1, FS_EmptySet
  <2>2. CASE S # {}
    <3>1. PICK i \in S : S = {i}
          BY <1>3, <2>2 DEF AtMostOne
    <3> QED BY <3>1, FS_Singleton
  <2> QED BY <2>1, <2>2
<1> QED BY <1>2, <1>3 DEF AtMostOne

\* A bill is a number, and goes by the status and the charges of the rows.
LEMMA BillMeaning ==
    ASSUME NEW rows \in ParcelTable
    PROVE  Bill(rows) \in Nat /\ Synced(rows) \subseteq Nat
<1> DEFINE f == [i \in Billed(rows) |-> rows[i].charge + rows[i].back]
           S == Billed(rows)
<1>1. IsFiniteSet(S)
  <2>1. IsFiniteSet(ParcelRows)
        BY FS_Interval, ShipmentsAssumption DEF ParcelRows
  <2> QED BY <2>1, SentMeaning, FS_Subset
<1>2. NatsOn(f, S)
  <2>1. \A i \in S : rows[i].charge \in Nat /\ rows[i].back \in Nat
    <3>1. \A i \in S : rows[i] \in ParcelRow
          BY SentMeaning
    <3>2. \A r \in ParcelRow : r.charge \in Charges /\ r.back \in Charges \cup {0}
          BY DEF ParcelRow
    <3>3. \A n \in Charges \cup {0} : n \in Nat
          BY ShipmentsAssumption
    <3> QED BY <3>1, <3>2, <3>3
  <2> QED BY <2>1 DEF NatsOn
<1> HIDE DEF f, S
<1>3. SumOf(f, S) \in Nat
      BY <1>1, <1>2, SumNat
<1>4. Bill(rows) \in Nat
      BY <1>3 DEF Bill, f, S
<1> QED BY <1>4 DEF Synced

\* The bill depends on the status and the costs of the shipments alone.
LEMMA BillSame ==
    ASSUME NEW rows \in ParcelTable, NEW later \in ParcelTable,
           \A i \in ParcelRows : /\ rows[i] \in ParcelRow <=> later[i] \in ParcelRow
                                 /\ rows[i] \in ParcelRow => /\ later[i].status = rows[i].status
                                                             /\ later[i].charge = rows[i].charge
                                                             /\ later[i].back = rows[i].back
    PROVE  Bill(later) = Bill(rows) /\ Synced(later) = Synced(rows) /\ ActiveIn(later) = ActiveIn(rows)
<1>1. Sent(later) = Sent(rows) /\ ActiveIn(later) = ActiveIn(rows) /\ Billed(later) = Billed(rows)
      BY SentMeaning
<1>2. \A i \in Sent(rows) : later[i].status = rows[i].status
      BY SentMeaning
<1>3. \A i \in Billed(rows) : later[i].charge + later[i].back = rows[i].charge + rows[i].back
      BY SentMeaning
<1>4. [i \in Billed(later) |-> later[i].charge + later[i].back] = [i \in Billed(rows) |-> rows[i].charge + rows[i].back]
      BY <1>1, <1>3
<1>5. Bill(later) = Bill(rows)
      BY <1>1, <1>4 DEF Bill
<1>6. Synced(later) = Synced(rows)
      BY <1>1, <1>2, <1>5 DEF Synced
<1> QED BY <1>1, <1>5, <1>6

\* No order has a shipment at the start.
LEMMA ShipInitial == ShipmentsInit => ShipInv
<1> SUFFICES ASSUME ShipmentsInit PROVE ShipInv
    OBVIOUS
<1>1. parcels \in ParcelTable /\ \A i \in ParcelRows : parcels[i] = NoParcel
      BY DEF ShipmentsInit, ParcelTable
<1>2. Sent(parcels) = {} /\ ActiveIn(parcels) = {}
      BY <1>1 DEF Sent, ActiveIn
<1>3. WithOpenWrite = {} /\ \A d \in Dispatchers : dispatch[d] = NoDispatch
      BY DEF ShipmentsInit, WithOpenWrite, NoDispatch
<1>4. dispatch = [d \in Dispatchers |-> dispatch[d]]
      BY DEF ShipmentsInit
<1>5. order \in [open : BOOLEAN, unpaid : BOOLEAN, cost : Nat]
      BY DEF ShipmentsInit
<1>6. ShipTypes
      BY <1>1, <1>3, <1>4, <1>5 DEF ShipTypes, NoDispatch
<1>7. Synced(parcels) = {}
      BY <1>2 DEF Synced
<1> QED BY <1>2, <1>3, <1>6, <1>7 DEF ShipInv, OneActiveInTurn, AtMostOne, BillInTurn

\* A request gives up, or reads: it holds nothing, before and after.
LEMMA WithoutWrite ==
    ASSUME ShipInv, NEW d \in Dispatchers, dispatch[d].at # "commit", NEW v, v.at # "commit",
           dispatch' = [dispatch EXCEPT ![d] = v], UNCHANGED <<parcels, order, met>>,
           v.at = "assign" => /\ v.courier \in Couriers /\ v.charge \in Charges /\ v.tracked \in BOOLEAN
                              /\ \A a \in v.active : a.id \in Sent(parcels),
           v.at = "update" => v.row \in Sent(parcels) /\ v.report \in Reports
    PROVE  ShipInv'
<1>1. \A e \in Dispatchers : dispatch'[e] = IF e = d THEN v ELSE dispatch[e]
      BY DEF ShipInv, ShipTypes
<1>2. WithOpenWrite' = WithOpenWrite
      BY <1>1 DEF WithOpenWrite
<1>3. \A e \in WithOpenWrite : e \in Dispatchers /\ dispatch'[e] = dispatch[e]
      BY <1>1 DEF WithOpenWrite
<1>4. dispatch' = [e \in Dispatchers |-> dispatch'[e]]
      BY DEF ShipInv, ShipTypes
<1>5. ShipTypes'
      BY <1>1, <1>4 DEF ShipInv, ShipTypes
<1>6. \A e \in WithOpenWrite : LeavesActive(e)' = LeavesActive(e) /\ After(e)' = After(e)
      BY <1>3 DEF LeavesActive, After
<1>7. OneActiveInTurn'
      BY <1>2, <1>3, <1>6 DEF ShipInv, OneActiveInTurn
<1>8. BillInTurn'
      BY <1>2, <1>3, <1>6 DEF ShipInv, BillInTurn
<1> QED BY <1>5, <1>7, <1>8 DEF ShipInv

\* A request writes, whether it creates a shipment, replaces or updates one.
LEMMA WriteStep ==
    ASSUME ShipInv, NEW d \in Dispatchers, dispatch[d].at # "commit",
           NEW rows \in ParcelTable, NEW held, held \subseteq ParcelRows,
           \A i \in held : rows[i] \in ParcelRow, \A i \in ParcelRows \ held : rows[i] = parcels[i],
           Write(d, rows, held)
    PROVE  ShipInv'
<1> DEFINE v == [at |-> "commit", held |-> held, rows |-> [i \in held |-> rows[i]], cost |-> Synced(rows)]
           A == {i \in held : rows[i].status \notin Closed}
<1>1. CASE GiveUp(d)
  <2>1. /\ NoDispatch.at # "commit" /\ NoDispatch.at # "assign" /\ NoDispatch.at # "update"
        /\ dispatch' = [dispatch EXCEPT ![d] = NoDispatch] /\ UNCHANGED <<parcels, order, met>>
        BY <1>1 DEF GiveUp, NoDispatch
  <2> QED BY <2>1, WithoutWrite
<1>2. CASE FitsOneActive(rows) /\ HoldBack(d, rows, held)
  <2>1. /\ dispatch' = [dispatch EXCEPT ![d] = v] /\ parcels' = parcels /\ order' = order
        /\ met' = (met \/ WithOpenWrite # {})
        BY <1>2 DEF HoldBack
  <2>2. /\ v.at = "commit" /\ v.held = held /\ (\A i \in held : v.rows[i] = rows[i]) /\ v.cost = Synced(rows)
        OBVIOUS
  <2> HIDE DEF v
  <2>3. \A e \in Dispatchers : dispatch'[e] = IF e = d THEN v ELSE dispatch[e]
        BY <2>1 DEF ShipInv, ShipTypes
  <2>4. WithOpenWrite' = WithOpenWrite \cup {d} /\ d \notin WithOpenWrite
        BY <2>2, <2>3 DEF WithOpenWrite
  <2>5. \A e \in WithOpenWrite : e \in Dispatchers /\ e # d /\ dispatch'[e] = dispatch[e]
        BY <2>3, <2>4 DEF WithOpenWrite
  <2>6. ShipTypes'
    <3>1. dispatch' = [e \in Dispatchers |-> dispatch'[e]]
          BY <2>1 DEF ShipInv, ShipTypes
    <3>2. v.cost \subseteq Nat /\ v.held \subseteq ParcelRows /\ \A i \in v.held : v.rows[i] \in ParcelRow
          BY <2>2, BillMeaning
    <3> QED BY <2>1, <2>2, <2>3, <3>1, <3>2 DEF ShipInv, ShipTypes
  <2>7. ActiveIn(rows) = A \cup (ActiveIn(parcels) \ held) /\ AtMostOne(ActiveIn(rows))
    <3>1. \A i \in ParcelRows : i \in ActiveIn(rows) <=> i \in A \cup (ActiveIn(parcels) \ held)
          BY SentMeaning DEF ShipInv, ShipTypes
    <3>2. ActiveIn(rows) \subseteq ParcelRows /\ ActiveIn(parcels) \subseteq ParcelRows /\ A \subseteq ParcelRows
          BY SentMeaning DEF ShipInv, ShipTypes
    <3>3. AtMostOne(ActiveIn(rows))
          BY <1>2, <3>2, NotTwo DEF FitsOneActive
    <3> HIDE DEF A
    <3> QED BY <3>1, <3>2, <3>3
  <2>8. ActiveIn(parcels)' = ActiveIn(parcels) /\ LeavesActive(d)' = A
        /\ \A e \in WithOpenWrite : LeavesActive(e)' = LeavesActive(e)
    <3>1. LeavesActive(d)' = A
          BY <2>2, <2>3 DEF LeavesActive
    <3>2. \A e \in WithOpenWrite : LeavesActive(e)' = LeavesActive(e)
          BY <2>5 DEF LeavesActive
    <3> QED BY <2>1, <3>1, <3>2
  <2>9. \A e \in WithOpenWrite : held \cap dispatch[e].held = {}
        BY DEF Write, HeldRows
  <2>10. \A e \in WithOpenWrite : A = {} \/ LeavesActive(e) = {}
    <3> SUFFICES ASSUME NEW e \in WithOpenWrite, A # {}, LeavesActive(e) # {} PROVE FALSE
        OBVIOUS
    <3>1. PICK x \in LeavesActive(e) : x \in dispatch[e].held /\ dispatch[e].rows[x].status \notin Closed
          BY DEF LeavesActive
    <3>2. ActiveHeld
          BY <3>1 DEF ActiveHeld
    <3>3. ActiveIn(rows) \subseteq ActiveIn(parcels)
          BY <3>2 DEF Write
    <3>4. PICK y \in A : y \in held /\ y \in ActiveIn(parcels)
          BY <2>7, <3>3
    <3>5. y \notin dispatch[e].held
          BY <2>9, <3>4
    <3>6. x = y
          BY <3>1, <3>4, <3>5 DEF ShipInv, OneActiveInTurn, AtMostOne
    <3> QED BY <3>1, <3>5, <3>6
  <2> HIDE DEF A
  <2>11. OneActiveInTurn'
    <3>1. AtMostOne(ActiveIn(parcels))'
          BY <2>8 DEF ShipInv, OneActiveInTurn, AtMostOne
    <3>2. ASSUME NEW e \in WithOpenWrite' PROVE AtMostOne(LeavesActive(e) \cup (ActiveIn(parcels) \ dispatch[e].held))'
      <4>1. CASE e = d
        <5>1. (LeavesActive(e) \cup (ActiveIn(parcels) \ dispatch[e].held))' = ActiveIn(rows)
              BY <2>2, <2>3, <2>7, <2>8, <4>1
        <5> QED BY <2>7, <5>1 DEF AtMostOne
      <4>2. CASE e \in WithOpenWrite
        <5>1. (LeavesActive(e) \cup (ActiveIn(parcels) \ dispatch[e].held))' = LeavesActive(e) \cup (ActiveIn(parcels) \ dispatch[e].held)
              BY <2>5, <2>8, <4>2
        <5> QED BY <4>2, <5>1 DEF ShipInv, OneActiveInTurn, AtMostOne
      <4> QED BY <2>4, <4>1, <4>2
    <3>3. ASSUME NEW e \in WithOpenWrite', NEW f \in WithOpenWrite', e # f
          PROVE  dispatch'[e].held \cap dispatch'[f].held = {} /\ (LeavesActive(e)' = {} \/ LeavesActive(f)' = {})
      <4>1. CASE e = d /\ f \in WithOpenWrite
            BY <2>2, <2>3, <2>5, <2>8, <2>9, <2>10, <4>1
      <4>2. CASE f = d /\ e \in WithOpenWrite
            BY <2>2, <2>3, <2>5, <2>8, <2>9, <2>10, <4>2
      <4>3. CASE e \in WithOpenWrite /\ f \in WithOpenWrite
            BY <2>5, <2>8, <3>3, <4>3 DEF ShipInv, OneActiveInTurn
      <4> QED BY <2>4, <3>3, <4>1, <4>2, <4>3
    <3> QED BY <3>1, <3>2, <3>3 DEF OneActiveInTurn
  <2>12. BillInTurn'
    <3> SUFFICES ASSUME ~met'
                 PROVE  /\ \A e, f \in WithOpenWrite' : e = f
                        /\ \A e \in WithOpenWrite' : dispatch'[e].cost = Synced(After(e)')
                        /\ Synced(parcels) # {} => order.cost = Bill(parcels)
        BY <2>1 DEF BillInTurn
    <3>1. ~met /\ WithOpenWrite = {}
          BY <2>1
    <3>2. After(d)' = rows
      <4>1. rows = [i \in ParcelRows |-> rows[i]]
            BY DEF ParcelTable
      <4>2. \A i \in ParcelRows : (IF i \in v.held THEN v.rows[i] ELSE parcels[i]) = rows[i]
            BY <2>2
      <4>3. After(d)' = [i \in ParcelRows |-> IF i \in v.held THEN v.rows[i] ELSE parcels[i]]
            BY <2>1, <2>3 DEF After
      <4> QED BY <4>1, <4>2, <4>3
    <3>3. WithOpenWrite' = {d} /\ dispatch'[d].cost = Synced(rows)
          BY <2>2, <2>3, <2>4, <3>1
    <3> QED BY <3>1, <3>2, <3>3 DEF ShipInv, BillInTurn
  <2> QED BY <2>6, <2>11, <2>12 DEF ShipInv
<1> QED BY <1>1, <1>2 DEF Write

\* One dispatcher's transaction moves, and no other's.
LEMMA DispatchMeaning ==
    ASSUME ShipInv, NEW d \in Dispatchers, NEW v, dispatch' = [dispatch EXCEPT ![d] = v]
    PROVE  \A e \in Dispatchers : dispatch'[e] = IF e = d THEN v ELSE dispatch[e]
BY DEF ShipInv, ShipTypes

\* An assignment reads the shipment in force.
LEMMA ReadAssignStep ==
    ASSUME ShipInv, NEW d \in Dispatchers, NEW q \in Couriers, NEW tracked \in BOOLEAN, NEW n \in Charges,
           ReadAssign(d, q, tracked, n)
    PROVE  ShipInv'
<1> DEFINE v == [at |-> "assign", courier |-> q, tracked |-> tracked, charge |-> n, unpaid |-> order.unpaid,
                 active |-> {[id |-> i, row |-> parcels[i]] : i \in ActiveIn(parcels)}]
<1>1. /\ dispatch' = [dispatch EXCEPT ![d] = v] /\ UNCHANGED <<parcels, order, met>>
      /\ dispatch[d].at # "commit"
      BY DEF ReadAssign, Asks, NoDispatch
<1>2. v.at = "assign" /\ v.courier \in Couriers /\ v.charge \in Charges /\ v.tracked \in BOOLEAN
      OBVIOUS
<1>3. \A a \in v.active : a.id \in Sent(parcels)
      BY DEF ActiveIn
<1> HIDE DEF v
<1> QED BY <1>1, <1>2, <1>3, WithoutWrite

\* An update reads the shipment it is about.
LEMMA ReadUpdateStep ==
    ASSUME ShipInv, NEW d \in Dispatchers, NEW i \in ParcelRows, NEW report \in Reports, ReadUpdate(d, i, report)
    PROVE  ShipInv'
<1> DEFINE v == [at |-> "update", row |-> i, report |-> report]
<1>1. /\ dispatch' = [dispatch EXCEPT ![d] = v] /\ UNCHANGED <<parcels, order, met>>
      /\ dispatch[d].at # "commit" /\ i \in Sent(parcels)
      BY DEF ReadUpdate, Asks, NoDispatch
<1>2. v.at = "update" /\ v.row \in Sent(parcels) /\ v.report \in Reports
      BY <1>1
<1> HIDE DEF v
<1> QED BY <1>1, <1>2, WithoutWrite

\* A row of a table is replaced by another row.
LEMMA RowReplaced ==
    ASSUME NEW rows \in ParcelTable, NEW i \in ParcelRows, NEW row \in ParcelRow
    PROVE  /\ [rows EXCEPT ![i] = row] \in ParcelTable
           /\ \A k \in {i} : [rows EXCEPT ![i] = row][k] \in ParcelRow
           /\ \A k \in ParcelRows \ {i} : [rows EXCEPT ![i] = row][k] = rows[k]
BY DEF ParcelTable

\* A row with some of its fields changed is a row.
LEMMA RowEdited ==
    ASSUME NEW r \in ParcelRow, NEW newStatus \in Statuses, NEW booked \in BOOLEAN, NEW charge \in Charges
    PROVE  [r EXCEPT !.status = newStatus, !.booked = booked, !.charge = charge] \in ParcelRow
BY DEF ParcelRow

\* The same courier again: the shipment in force is changed.
LEMMA AssignSameStep ==
    ASSUME ShipInv, NEW d \in Dispatchers, AssignSame(d)
    PROVE  ShipInv'
<1>1. PICK a \in dispatch[d].active :
          LET books == dispatch[d].tracked /\ ~a.row.booked IN
              Write(d, [parcels EXCEPT ![a.id].charge = dispatch[d].charge,
                                       ![a.id].booked = @ \/ books,
                                       ![a.id].status = IF books THEN "BOOKED" ELSE @], {a.id})
      BY DEF AssignSame
<1> DEFINE books == dispatch[d].tracked /\ ~a.row.booked
           i == a.id
           r == parcels[i]
           booked == r.booked \/ books
           newStatus == IF books THEN "BOOKED" ELSE r.status
           charge == dispatch[d].charge
           row == [r EXCEPT !.status = newStatus, !.booked = booked, !.charge = charge]
<1>2. dispatch[d].at = "assign" /\ a.id \in Sent(parcels) /\ charge \in Charges
      BY DEF AssignSame, ShipInv, ShipTypes
<1>3. i \in ParcelRows /\ r \in ParcelRow /\ parcels \in ParcelTable
      BY <1>2, SentMeaning DEF ShipInv, ShipTypes
<1>4. booked \in BOOLEAN
      OBVIOUS
<1>5. newStatus \in Statuses
      BY <1>3 DEF ParcelRow, Statuses
<1>6. row \in ParcelRow
      BY <1>2, <1>3, <1>4, <1>5, RowEdited
<1>7. [parcels EXCEPT ![i].charge = charge, ![i].booked = @ \/ books, ![i].status = IF books THEN "BOOKED" ELSE @]
      = [parcels EXCEPT ![i] = row]
  <2>1. DOMAIN parcels = ParcelRows /\ parcels = [k \in ParcelRows |-> parcels[k]]
        BY <1>3 DEF ParcelTable
  <2> QED BY <1>3, <2>1
<1>8. Write(d, [parcels EXCEPT ![i] = row], {i})
      BY <1>1, <1>7
<1> DEFINE held == {i}
           rows == [parcels EXCEPT ![i] = row]
<1> HIDE DEF row, i, r
<1>9. /\ held \subseteq ParcelRows /\ rows \in ParcelTable /\ \A k \in held : rows[k] \in ParcelRow
      /\ \A k \in ParcelRows \ held : rows[k] = parcels[k]
      BY <1>3, <1>6, RowReplaced
<1>10. Write(d, rows, held) /\ dispatch[d].at # "commit"
       BY <1>2, <1>8
<1> HIDE DEF rows, held
<1> QED BY <1>9, <1>10, WriteStep

\* Another courier: the shipment in force is cancelled and a new one added.
LEMMA AssignOtherStep ==
    ASSUME ShipInv, NEW d \in Dispatchers, AssignOther(d)
    PROVE  ShipInv'
<1> DEFINE old == {a.id : a \in dispatch[d].active}
           new == Cardinality(Sent(parcels)) + 1
           due == IF dispatch[d].unpaid THEN Due ELSE 0
           row == [status |-> IF dispatch[d].tracked THEN "BOOKED" ELSE "PENDING", booked |-> dispatch[d].tracked,
                   courier |-> dispatch[d].courier, charge |-> dispatch[d].charge, back |-> 0,
                   cod |-> due, codStatus |-> IF due > 0 THEN "PENDING" ELSE "NOT_APPLICABLE"]
           rows == [i \in ParcelRows |-> IF i = new THEN row
                                         ELSE IF i \in old THEN [parcels[i] EXCEPT !.status = "CANCELLED"] ELSE parcels[i]]
           held == old \cup {new}
<1>1. new \in ParcelRows /\ Write(d, rows, held) /\ dispatch[d].at = "assign"
      BY DEF AssignOther
<1>2. dispatch[d].courier \in Couriers /\ dispatch[d].charge \in Charges /\ dispatch[d].tracked \in BOOLEAN
      /\ \A a \in dispatch[d].active : a.id \in Sent(parcels)
      BY <1>1 DEF ShipInv, ShipTypes
<1>3. parcels \in ParcelTable /\ \A i \in old : i \in ParcelRows /\ parcels[i] \in ParcelRow
      BY <1>2, SentMeaning DEF ShipInv, ShipTypes
<1>4. row \in ParcelRow
  <2>1. due \in {0, Due}
        OBVIOUS
  <2> HIDE DEF due
  <2> DEFINE tracked == dispatch[d].tracked
             newStatus == IF tracked THEN "BOOKED" ELSE "PENDING"
             codStatus == IF due > 0 THEN "PENDING" ELSE "NOT_APPLICABLE"
  <2>2. tracked \in BOOLEAN
        BY <1>2
  <2>3. newStatus \in Statuses /\ codStatus \in CodStatuses
        BY DEF Statuses, CodStatuses
  <2> HIDE DEF tracked, newStatus, codStatus
  <2>4. [status |-> newStatus, booked |-> tracked, courier |-> dispatch[d].courier, charge |-> dispatch[d].charge,
         back |-> 0, cod |-> due, codStatus |-> codStatus] \in ParcelRow
        BY <1>2, <2>1, <2>2, <2>3 DEF ParcelRow
  <2> QED BY <2>4 DEF newStatus, codStatus, tracked
<1>5. \A r \in ParcelRow : [r EXCEPT !.status = "CANCELLED"] \in ParcelRow
      BY DEF ParcelRow, Statuses, Closed
<1> HIDE DEF row, old, new
<1>6. rows \in ParcelTable
  <2>1. ASSUME NEW i \in ParcelRows
        PROVE  (IF i = new THEN row ELSE IF i \in old THEN [parcels[i] EXCEPT !.status = "CANCELLED"] ELSE parcels[i])
               \in ParcelRow \cup {NoParcel}
    <3>1. parcels[i] \in ParcelRow \cup {NoParcel}
          BY <1>3 DEF ParcelTable
    <3> QED BY <1>3, <1>4, <1>5, <3>1
  <2> QED BY <2>1 DEF ParcelTable
<1>7. held \subseteq ParcelRows /\ (\A i \in held : rows[i] \in ParcelRow) /\ \A i \in ParcelRows \ held : rows[i] = parcels[i]
      BY <1>1, <1>3, <1>4, <1>5
<1>8. dispatch[d].at # "commit"
      BY <1>1
<1> HIDE DEF rows, held
<1> QED BY <1>1, <1>6, <1>7, <1>8, WriteStep

\* A report changes one column.
LEMMA RowTold ==
    ASSUME NEW r \in ParcelRow, NEW said \in Reports, NEW booked \in BOOLEAN
    PROVE  [r EXCEPT ![said.column] = said.value, !.booked = booked] \in ParcelRow
<1>1. CASE said \in [column : {"status"}, value : Statuses]
  <2>1. said.column = "status" /\ said.value \in Statuses
        BY <1>1
  <2>2. \A s \in Statuses : [r EXCEPT !.status = s, !.booked = booked] \in ParcelRow
        BY DEF ParcelRow
  <2> QED BY <2>1, <2>2
<1>2. CASE said \in [column : {"charge", "back"}, value : Charges]
  <2>1. said.column \in {"charge", "back"} /\ said.value \in Charges
        BY <1>2
  <2>2. \A n \in Charges : /\ [r EXCEPT !.charge = n, !.booked = booked] \in ParcelRow
                           /\ [r EXCEPT !.back = n, !.booked = booked] \in ParcelRow
        BY DEF ParcelRow
  <2> QED BY <2>1, <2>2
<1>3. CASE said \in [column : {"codStatus"}, value : CodStatuses]
  <2>1. said.column = "codStatus" /\ said.value \in CodStatuses
        BY <1>3
  <2>2. \A s \in CodStatuses : [r EXCEPT !.codStatus = s, !.booked = booked] \in ParcelRow
        BY DEF ParcelRow
  <2> QED BY <2>1, <2>2
<1> QED BY <1>1, <1>2, <1>3 DEF Reports

\* A status is written, and the courier's cost with it.
LEMMA WriteUpdateStep ==
    ASSUME ShipInv, NEW d \in Dispatchers, WriteUpdate(d)
    PROVE  ShipInv'
<1> DEFINE i == dispatch[d].row
           said == dispatch[d].report
           books == said.column = "status" /\ said.value = "BOOKED"
           r == parcels[i]
           booked == r.booked \/ books
           row == [r EXCEPT ![said.column] = said.value, !.booked = booked]
<1>1. Write(d, [parcels EXCEPT ![i][said.column] = said.value, ![i].booked = @ \/ books], {i}) /\ dispatch[d].at = "update"
      BY DEF WriteUpdate
<1>2. i \in Sent(parcels) /\ said \in Reports
      BY <1>1 DEF ShipInv, ShipTypes
<1>3. i \in ParcelRows /\ r \in ParcelRow /\ parcels \in ParcelTable
      BY <1>2, SentMeaning DEF ShipInv, ShipTypes
<1>4. booked \in BOOLEAN
      OBVIOUS
<1>5. row \in ParcelRow
      BY <1>2, <1>3, <1>4, RowTold
<1>6. [parcels EXCEPT ![i][said.column] = said.value, ![i].booked = @ \/ books] = [parcels EXCEPT ![i] = row]
  <2>1. said.column # "booked"
        BY <1>2 DEF Reports
  <2>2. parcels = [k \in ParcelRows |-> parcels[k]]
        BY <1>3 DEF ParcelTable
  <2>3. DOMAIN r = {"status", "booked", "courier", "charge", "back", "cod", "codStatus"}
        BY <1>3 DEF ParcelRow
  <2> QED BY <1>3, <2>1, <2>2, <2>3
<1> DEFINE held == {i}
           rows == [parcels EXCEPT ![i] = row]
<1>7. Write(d, rows, held) /\ dispatch[d].at # "commit"
      BY <1>1, <1>6
<1> HIDE DEF row, i, r
<1>8. /\ held \subseteq ParcelRows /\ rows \in ParcelTable /\ \A k \in held : rows[k] \in ParcelRow
      /\ \A k \in ParcelRows \ held : rows[k] = parcels[k]
      BY <1>3, <1>5, RowReplaced
<1> HIDE DEF rows, held
<1> QED BY <1>7, <1>8, WriteStep

\* A transaction commits with the bill it has written.
LEMMA CommitDispatchStep ==
    ASSUME ShipInv, NEW d \in Dispatchers, CommitDispatch(d)
    PROVE  ShipInv'
<1> DEFINE held == dispatch[d].held
           cost == IF dispatch[d].cost = {} THEN order.cost ELSE CHOOSE n \in dispatch[d].cost : TRUE
<1>1. /\ d \in WithOpenWrite /\ parcels' = After(d) /\ order' = [order EXCEPT !.cost = cost]
      /\ dispatch' = [dispatch EXCEPT ![d] = NoDispatch] /\ met' = met
      BY DEF CommitDispatch, After
<1>2. /\ dispatch[d].at = "commit" /\ held \subseteq ParcelRows /\ \A i \in held : dispatch[d].rows[i] \in ParcelRow
      /\ dispatch[d].cost \subseteq Nat /\ parcels \in ParcelTable /\ order \in [open : BOOLEAN, unpaid : BOOLEAN, cost : Nat]
      BY <1>1 DEF WithOpenWrite, ShipInv, ShipTypes
<1>3. \A e \in Dispatchers : dispatch'[e] = IF e = d THEN NoDispatch ELSE dispatch[e]
      BY <1>1, DispatchMeaning
<1>4. NoDispatch.at # "commit" /\ NoDispatch.at # "assign" /\ NoDispatch.at # "update"
      BY DEF NoDispatch
<1>5. WithOpenWrite' = WithOpenWrite \ {d}
      BY <1>3, <1>4 DEF WithOpenWrite
<1>6. \A e \in WithOpenWrite' : e \in WithOpenWrite /\ e \in Dispatchers /\ e # d /\ dispatch'[e] = dispatch[e]
      BY <1>3, <1>5 DEF WithOpenWrite
<1>7. After(d) \in ParcelTable /\ (\A i \in ParcelRows : After(d)[i] = IF i \in held THEN dispatch[d].rows[i] ELSE parcels[i])
      BY <1>2 DEF After, ParcelTable
<1>8. Sent(parcels) \subseteq Sent(After(d))
      BY <1>2, <1>7, SentMeaning
<1>9. ActiveIn(After(d)) = LeavesActive(d) \cup (ActiveIn(parcels) \ held)
  <2>1. \A i \in ParcelRows : i \in ActiveIn(After(d)) <=> i \in LeavesActive(d) \cup (ActiveIn(parcels) \ held)
        BY <1>2, <1>7, SentMeaning DEF LeavesActive
  <2>2. ActiveIn(After(d)) \subseteq ParcelRows /\ ActiveIn(parcels) \subseteq ParcelRows /\ LeavesActive(d) \subseteq ParcelRows
        BY <1>2, <1>7, SentMeaning DEF LeavesActive
  <2> QED BY <2>1, <2>2
<1>10. cost \in Nat
  <2>1. CASE dispatch[d].cost = {}
        BY <1>2, <2>1
  <2>2. CASE dispatch[d].cost # {}
    <3>1. cost \in dispatch[d].cost
          BY <2>2
    <3> QED BY <1>2, <3>1
  <2> QED BY <2>1, <2>2
<1> HIDE DEF cost, held
<1>11. order' \in [open : BOOLEAN, unpaid : BOOLEAN, cost : Nat] /\ order'.cost = cost
  <2>1. \A o \in [open : BOOLEAN, unpaid : BOOLEAN, cost : Nat] :
           [o EXCEPT !.cost = cost] \in [open : BOOLEAN, unpaid : BOOLEAN, cost : Nat] /\ [o EXCEPT !.cost = cost].cost = cost
        BY <1>10
  <2> QED BY <1>1, <1>2, <2>1
<1>12. ShipTypes'
  <2>1. parcels' \in ParcelTable /\ Sent(parcels) \subseteq Sent(parcels)'
        BY <1>1, <1>7, <1>8
  <2>2. dispatch' = [e \in Dispatchers |-> dispatch'[e]]
        BY <1>1 DEF ShipInv, ShipTypes
  <2> QED BY <1>3, <1>4, <1>11, <2>1, <2>2 DEF ShipInv, ShipTypes
<1>13. \A e \in WithOpenWrite' : LeavesActive(e)' = LeavesActive(e)
       BY <1>6 DEF LeavesActive
<1>14. ActiveIn(parcels)' = LeavesActive(d) \cup (ActiveIn(parcels) \ held)
       BY <1>1, <1>9
<1>15. OneActiveInTurn'
  <2>1. AtMostOne(ActiveIn(parcels))'
        BY <1>1, <1>14 DEF ShipInv, OneActiveInTurn, AtMostOne, held
  <2>2. ASSUME NEW e \in WithOpenWrite' PROVE AtMostOne(LeavesActive(e) \cup (ActiveIn(parcels) \ dispatch[e].held))'
    <3> DEFINE S == LeavesActive(e) \cup ((LeavesActive(d) \cup (ActiveIn(parcels) \ held)) \ dispatch[e].held)
    <3>1. LeavesActive(e) = {} \/ LeavesActive(d) = {}
          BY <1>1, <1>6 DEF ShipInv, OneActiveInTurn
    <3>2. \/ S \subseteq LeavesActive(e) \cup (ActiveIn(parcels) \ dispatch[e].held)
          \/ S \subseteq LeavesActive(d) \cup (ActiveIn(parcels) \ held)
          BY <3>1
    <3>3. /\ AtMostOne(LeavesActive(e) \cup (ActiveIn(parcels) \ dispatch[e].held))
          /\ AtMostOne(LeavesActive(d) \cup (ActiveIn(parcels) \ held))
          BY <1>1, <1>6 DEF ShipInv, OneActiveInTurn, held
    <3>4. (LeavesActive(e) \cup (ActiveIn(parcels) \ dispatch[e].held))' = S
          BY <1>6, <1>13, <1>14
    <3> HIDE DEF S
    <3>5. AtMostOne(S)
          BY <3>2, <3>3 DEF AtMostOne
    <3> QED BY <3>4, <3>5 DEF AtMostOne
  <2>3. ASSUME NEW e \in WithOpenWrite', NEW f \in WithOpenWrite', e # f
        PROVE  dispatch'[e].held \cap dispatch'[f].held = {} /\ (LeavesActive(e)' = {} \/ LeavesActive(f)' = {})
        BY <1>6, <1>13, <2>3 DEF ShipInv, OneActiveInTurn
  <2> QED BY <2>1, <2>2, <2>3 DEF OneActiveInTurn
<1>16. BillInTurn'
  <2> SUFFICES ASSUME ~met'
               PROVE  /\ \A e, f \in WithOpenWrite' : e = f
                      /\ \A e \in WithOpenWrite' : dispatch'[e].cost = Synced(After(e)')
                      /\ Synced(parcels') # {} => order'.cost = Bill(parcels')
      BY DEF BillInTurn
  <2>1. WithOpenWrite = {d} /\ dispatch[d].cost = Synced(After(d))
        BY <1>1 DEF ShipInv, BillInTurn
  <2>2. WithOpenWrite' = {}
        BY <1>5, <2>1
  <2>3. ASSUME Synced(After(d)) # {} PROVE cost = Bill(After(d))
    <3>1. Synced(After(d)) = {Bill(After(d))}
          BY <2>3 DEF Synced
    <3> HIDE DEF Bill
    <3> QED BY <2>1, <3>1 DEF cost
  <2> QED BY <1>1, <1>11, <2>2, <2>3
<1> QED BY <1>12, <1>15, <1>16 DEF ShipInv

\* Rows keep what the bill and the index read: a settlement, or a step of the order.
LEMMA OnlyCodChanges ==
    ASSUME ShipInv, UNCHANGED <<dispatch, met>>,
           order' \in [open : BOOLEAN, unpaid : BOOLEAN, cost : Nat], order'.cost = order.cost,
           parcels' \in ParcelTable,
           \A i \in ParcelRows : /\ parcels[i] \in ParcelRow <=> parcels'[i] \in ParcelRow
                                 /\ parcels[i] \in ParcelRow => /\ parcels'[i].status = parcels[i].status
                                                                /\ parcels'[i].charge = parcels[i].charge
                                                                /\ parcels'[i].back = parcels[i].back
    PROVE  ShipInv'
<1>1. parcels \in ParcelTable
      BY DEF ShipInv, ShipTypes
<1>2. Bill(parcels') = Bill(parcels) /\ Synced(parcels') = Synced(parcels) /\ ActiveIn(parcels') = ActiveIn(parcels)
      BY <1>1, BillSame
<1>3. Sent(parcels') = Sent(parcels)
      BY <1>1, SentMeaning
<1>4. WithOpenWrite' = WithOpenWrite /\ \A e \in WithOpenWrite : LeavesActive(e)' = LeavesActive(e)
      BY DEF WithOpenWrite, LeavesActive
<1>5. \A e \in WithOpenWrite : Synced(After(e)') = Synced(After(e))
  <2> SUFFICES ASSUME NEW e \in WithOpenWrite PROVE Synced(After(e)') = Synced(After(e))
      OBVIOUS
  <2>1. dispatch[e].held \subseteq ParcelRows /\ \A i \in dispatch[e].held : dispatch[e].rows[i] \in ParcelRow
        BY DEF ShipInv, ShipTypes, WithOpenWrite
  <2> DEFINE before == After(e)
             later == After(e)'
  <2>2. before \in ParcelTable /\ \A i \in ParcelRows : before[i] = IF i \in dispatch[e].held THEN dispatch[e].rows[i] ELSE parcels[i]
        BY <1>1, <2>1 DEF After, ParcelTable
  <2>3. later \in ParcelTable /\ \A i \in ParcelRows : later[i] = IF i \in dispatch[e].held THEN dispatch[e].rows[i] ELSE parcels'[i]
        BY <2>1 DEF After, ParcelTable
  <2> HIDE DEF before, later
  <2>4. \A i \in ParcelRows : /\ before[i] \in ParcelRow <=> later[i] \in ParcelRow
                              /\ before[i] \in ParcelRow => /\ later[i].status = before[i].status
                                                            /\ later[i].charge = before[i].charge
                                                            /\ later[i].back = before[i].back
        BY <2>1, <2>2, <2>3
  <2>5. Synced(later) = Synced(before)
        BY <2>2, <2>3, <2>4, BillSame
  <2> QED BY <2>5 DEF later, before
<1>6. ShipTypes'
      BY <1>3 DEF ShipInv, ShipTypes
<1>7. OneActiveInTurn'
      BY <1>2, <1>4 DEF ShipInv, OneActiveInTurn, AtMostOne
<1>8. BillInTurn'
      BY <1>2, <1>4, <1>5 DEF ShipInv, BillInTurn
<1> QED BY <1>6, <1>7, <1>8 DEF ShipInv

\* A remittance settles the cash of shipments, and nothing else.
LEMMA RemitStep ==
    ASSUME ShipInv, NEW rows \in SUBSET ParcelRows, Remit(rows)
    PROVE  ShipInv'
<1>1. /\ parcels' = [i \in ParcelRows |-> IF i \in rows THEN [parcels[i] EXCEPT !.codStatus = "REMITTED"] ELSE parcels[i]]
      /\ rows \subseteq Sent(parcels) /\ UNCHANGED <<order, dispatch, met>>
      BY DEF Remit
<1>2. parcels \in ParcelTable /\ order \in [open : BOOLEAN, unpaid : BOOLEAN, cost : Nat]
      BY DEF ShipInv, ShipTypes
<1>3. \A i \in rows : parcels[i] \in ParcelRow
      BY <1>1, <1>2, SentMeaning
<1>4. \A r \in ParcelRow : LET s == [r EXCEPT !.codStatus = "REMITTED"] IN
         s \in ParcelRow /\ s.status = r.status /\ s.charge = r.charge /\ s.back = r.back
      BY DEF ParcelRow, CodStatuses
<1>5. \A i \in ParcelRows : parcels'[i] = IF i \in rows THEN [parcels[i] EXCEPT !.codStatus = "REMITTED"] ELSE parcels[i]
      BY <1>1
<1>6. \A i \in ParcelRows : parcels'[i] \in ParcelRow \cup {NoParcel}
      BY <1>2, <1>3, <1>4, <1>5 DEF ParcelTable
<1>7. parcels' \in ParcelTable
      BY <1>1, <1>6 DEF ParcelTable
<1>8. \A i \in ParcelRows : /\ parcels[i] \in ParcelRow <=> parcels'[i] \in ParcelRow
                            /\ parcels[i] \in ParcelRow => /\ parcels'[i].status = parcels[i].status
                                                           /\ parcels'[i].charge = parcels[i].charge
                                                           /\ parcels'[i].back = parcels[i].back
      BY <1>3, <1>4, <1>5
<1> QED BY <1>1, <1>2, <1>7, <1>8, OnlyCodChanges

\* A delivery or the end of an order leaves its shipments alone.
LEMMA OrderOfParcelsStep ==
    ASSUME ShipInv, Delivered \/ CloseOrder
    PROVE  ShipInv'
<1>1. parcels \in ParcelTable /\ order \in [open : BOOLEAN, unpaid : BOOLEAN, cost : Nat]
      BY DEF ShipInv, ShipTypes
<1>2. parcels' = parcels /\ dispatch' = dispatch /\ met' = met
      BY DEF Delivered, CloseOrder
<1>3. order' \in [open : BOOLEAN, unpaid : BOOLEAN, cost : Nat] /\ order'.cost = order.cost
  <2>1. CASE order' = [order EXCEPT !.unpaid = FALSE]
        BY <1>1, <2>1
  <2>2. CASE order' = [order EXCEPT !.open = FALSE]
        BY <1>1, <2>2
  <2> QED BY <2>1, <2>2 DEF Delivered, CloseOrder
<1> QED BY <1>1, <1>2, <1>3, OnlyCodChanges

\* Every step of the shipments keeps the invariant.
LEMMA ShipStep == ShipInv /\ [ShipmentsNext]_shipmentVars => ShipInv'
<1> SUFFICES ASSUME ShipInv, [ShipmentsNext]_shipmentVars PROVE ShipInv'
    OBVIOUS
<1>1. CASE Delivered \/ CloseOrder
      BY <1>1, OrderOfParcelsStep
<1>2. CASE \E rows \in SUBSET ParcelRows : Remit(rows)
      BY <1>2, RemitStep
<1>3. ASSUME NEW d \in Dispatchers, AssignSame(d) \/ AssignOther(d) \/ WriteUpdate(d) \/ CommitDispatch(d) PROVE ShipInv'
      BY <1>3, AssignSameStep, AssignOtherStep, WriteUpdateStep, CommitDispatchStep
<1>4. ASSUME NEW d \in Dispatchers, NEW q \in Couriers, NEW tracked \in BOOLEAN, NEW n \in Charges, ReadAssign(d, q, tracked, n)
      PROVE  ShipInv'
      BY <1>4, ReadAssignStep
<1>5. ASSUME NEW d \in Dispatchers, NEW i \in ParcelRows, NEW report \in Reports, ReadUpdate(d, i, report) PROVE ShipInv'
      BY <1>5, ReadUpdateStep
<1>6. CASE UNCHANGED shipmentVars
  <2>1. UNCHANGED <<parcels, order, dispatch, met>>
        BY <1>6 DEF shipmentVars
  <2>2. parcels \in ParcelTable /\ order \in [open : BOOLEAN, unpaid : BOOLEAN, cost : Nat]
        BY DEF ShipInv, ShipTypes
  <2> QED BY <2>1, <2>2, OnlyCodChanges
<1> QED BY <1>1, <1>2, <1>3, <1>4, <1>5, <1>6 DEF ShipmentsNext

\* "One active shipment per order", and orders.courier_cost the sum of what the
\* couriers charge as long as no two transactions have written at once, for any number
\* of requests, shipments and charges (shipments.service.ts:27, :158).
THEOREM ParcelsAndBillCorrect == ShipmentsSpec => []ParcelsAndBill
<1>1. ShipInv => ParcelsAndBill
  <2> SUFFICES ASSUME ShipInv PROVE ParcelsAndBill
      OBVIOUS
  <2>1. ActiveIn(parcels) \subseteq ParcelRows
        BY SentMeaning DEF ShipInv, ShipTypes
  <2>2. OneActive
        BY <2>1, NotTwo DEF OneActive, FitsOneActive, ShipInv, OneActiveInTurn
  <2>3. CostFollowsInTurns
        BY DEF CostFollowsInTurns, ShipInv, BillInTurn
  <2> QED BY <2>2, <2>3 DEF ParcelsAndBill
<1> QED BY <1>1, ShipInitial, ShipStep, PTL DEF ShipmentsSpec

-----------------------------------------------------------------------------
(* The catalog. Shelves: the lock on the sections keeps the last visible   *)
(* one and all that stands in a section: what a holder has read stays true *)
(* until it writes, because whoever would make it false waits. PriceBook:  *)
(* every write but a restock's moves the version of a product, so as long  *)
(* as a page's version is the product's, so are the prices it shows.       *)

PlacedRow == [state : {"live", "deleted"}, cat : Roots, sub : SUBSET Categories]
Tasks ==
    {NoTask}
    \cup [at : {"showSection"}, of : Sections, to : {"hidden", "visible"}]
    \cup [at : {"dropSection"}, of : Sections]
    \cup [at : {"addCategory"}, of : Categories]
    \cup [at : {"removeCategory"}, of : SUBSET Categories]
    \cup [at : {"create", "edit", "move"}, of : SUBSET Products, place : PlacedRow]
    \cup [at : {"restore"}, of : Products]

ShelvesTyped ==
    /\ section \in [Sections -> {"none", "hidden", "visible"}]
    /\ category \in [Categories -> {"none", "live", "deleted"}]
    /\ place \in [Products -> {NoPlace} \cup PlacedRow]
    /\ task \in [Managers -> Tasks]

Holds(m) == task[m].at \in {"showSection", "dropSection"}
OneHolder == \A m, n \in Managers : Holds(m) /\ Holds(n) => m = n

\* What a task has read, and may rely on.
NotTheLast(s) == section[s] = "visible" => OthersVisible(s)
Empty(s) ==
    /\ \A c \in Categories : SectionFor[c] = s => category[c] # "live"
    /\ \A p \in Known : SectionFor[place[p].cat] # s
StillRight(t) ==
    /\ t.at \in {"showSection", "dropSection"} => section[t.of] # "none"
    /\ t.at = "showSection" /\ t.to = "hidden" => NotTheLast(t.of)
    /\ t.at = "dropSection" => NotTheLast(t.of) /\ Empty(t.of)
    /\ t.at = "restore" => t.of \in Known
    /\ t.at \in {"edit", "move"} => t.of \subseteq Known

ShelfInv ==
    /\ ShelvesTyped /\ SectionsKept /\ OneHolder
    /\ \A m \in Managers : StillRight(task[m])

\* A step that only ends tasks needs to look after the others.
LEMMA EndingKeeps ==
    ASSUME ShelfInv, task' \in [Managers -> Tasks],
           \A m \in Managers : task'[m] = task[m] \/ task'[m] = NoTask,
           \A m \in Managers : task'[m] = task[m] => StillRight(task[m])'
    PROVE  OneHolder' /\ \A m \in Managers : StillRight(task[m])'
<1>1. \A m \in Managers : Holds(m)' => Holds(m)
      BY DEF Holds, NoTask
<1>2. OneHolder'
      BY <1>1 DEF ShelfInv, OneHolder
<1>3. \A m \in Managers : task'[m] = NoTask => StillRight(task[m])'
      BY DEF StillRight, NoTask
<1> QED BY <1>2, <1>3

\* A step that opens a task opens it on what it has read.
LEMMA OpeningKeeps ==
    ASSUME ShelfInv, NEW m \in Managers, NEW t \in Tasks, task' = [task EXCEPT ![m] = t],
           UNCHANGED <<section, category, place>>, StillRight(t),
           t.at \in {"showSection", "dropSection"} => SectionsFree
    PROVE  ShelfInv'
<1>1. task' \in [Managers -> Tasks] /\ task'[m] = t /\ \A n \in Managers \ {m} : task'[n] = task[n]
      BY DEF ShelfInv, ShelvesTyped
<1>2. ShelvesTyped' /\ SectionsKept'
      BY <1>1 DEF ShelfInv, ShelvesTyped, SectionsKept, SomeSectionVisible, NothingOutside, Known
<1>3. OneHolder'
      BY <1>1 DEF ShelfInv, OneHolder, Holds, SectionsFree
<1>4. \A n \in Managers : StillRight(task[n])'
      BY <1>1 DEF ShelfInv, StillRight, NotTheLast, Empty, OthersVisible, Known
<1> QED BY <1>2, <1>3, <1>4 DEF ShelfInv

-----------------------------------------------------------------------------
\* An open shop is in order.
LEMMA ShelvesInitial == ShelvesInit => ShelfInv
<1> SUFFICES ASSUME ShelvesInit PROVE ShelfInv
    OBVIOUS
<1> USE DEF ShelvesInit
<1>1. ShelvesTyped
      BY DEF ShelvesTyped, Tasks
<1>2. SectionsKept
      BY ShelvesAssumption DEF SectionsKept, SomeSectionVisible, NothingOutside, Known
<1>3. OneHolder /\ \A m \in Managers : StillRight(task[m])
      BY DEF OneHolder, Holds, NoTask, StillRight
<1> QED BY <1>1, <1>2, <1>3 DEF ShelfInv

\* Reading: the eight reads leave the shop alone, and remember what they have seen.
LEMMA ReadsKeep ==
    ASSUME ShelfInv, NEW m \in Managers,
           \/ \E s \in Sections : ReadDropSection(m, s) \/ \E state \in {"hidden", "visible"} : ReadShowSection(m, s, state)
           \/ \E c \in Categories : ReadAddCategory(m, c) \/ ReadRemoveCategory(m, c)
           \/ \E p \in Products : ReadRestore(m, p)
           \/ \E kind \in {"create", "edit", "move"}, ps \in SUBSET Products, at \in Placements : ReadPlace(m, kind, ps, at)
    PROVE  ShelfInv'
<1>1. ASSUME NEW s \in Sections, ReadDropSection(m, s) PROVE ShelfInv'
      <2> DEFINE t == [at |-> "dropSection", of |-> s]
      <2>1. t \in Tasks /\ StillRight(t)
            BY <1>1 DEF Tasks, ReadDropSection, StillRight, NotTheLast, Empty
      <2> QED BY <1>1, <2>1, OpeningKeeps DEF ReadDropSection
<1>2. ASSUME NEW s \in Sections, NEW state \in {"hidden", "visible"}, ReadShowSection(m, s, state) PROVE ShelfInv'
      <2> DEFINE t == [at |-> "showSection", of |-> s, to |-> state]
      <2>1. t \in Tasks /\ StillRight(t)
            BY <1>2 DEF Tasks, ReadShowSection, StillRight, NotTheLast
      <2> QED BY <1>2, <2>1, OpeningKeeps DEF ReadShowSection
<1>3. ASSUME NEW c \in Categories, ReadAddCategory(m, c) PROVE ShelfInv'
      <2> DEFINE t == [at |-> "addCategory", of |-> c]
      <2>1. t \in Tasks /\ StillRight(t) /\ t.at = "addCategory"
            BY DEF Tasks, StillRight
      <2> QED BY <1>3, <2>1, OpeningKeeps DEF ReadAddCategory
<1>4. ASSUME NEW c \in Categories, ReadRemoveCategory(m, c) PROVE ShelfInv'
      <2> DEFINE gone == {c} \cup {x \in Under(c) : category[x] = "live"}
                 t == [at |-> "removeCategory", of |-> gone]
      <2>1. t \in Tasks /\ StillRight(t) /\ t.at = "removeCategory"
            BY DEF Tasks, StillRight, Under
      <2> QED BY <1>4, <2>1, OpeningKeeps DEF ReadRemoveCategory
<1>5. ASSUME NEW p \in Products, ReadRestore(m, p) PROVE ShelfInv'
      <2> DEFINE t == [at |-> "restore", of |-> p]
      <2>1. t \in Tasks /\ StillRight(t) /\ t.at = "restore"
            BY <1>5 DEF Tasks, StillRight, ReadRestore
      <2> QED BY <1>5, <2>1, OpeningKeeps DEF ReadRestore
<1>6. ASSUME NEW kind \in {"create", "edit", "move"}, NEW ps \in SUBSET Products, NEW at \in Placements, ReadPlace(m, kind, ps, at)
      PROVE  ShelfInv'
      <2> DEFINE t == [at |-> kind, of |-> ps, place |-> at]
      <2>1. at \in PlacedRow
            BY DEF Placements, PlacedRow, Under
      <2>2. t \in Tasks /\ StillRight(t) /\ t.at \in {"create", "edit", "move"}
            BY <1>6, <2>1 DEF Tasks, StillRight, ReadPlace, OnSale
      <2> QED BY <1>6, <2>2, OpeningKeeps DEF ReadPlace
<1> QED BY <1>1, <1>2, <1>3, <1>4, <1>5, <1>6

-----------------------------------------------------------------------------
(* Sections.                                                               *)

\* A new section is not one that is held.
LEMMA CreateSectionKeeps ==
    ASSUME ShelfInv, NEW s \in Sections, NEW state \in {"hidden", "visible"}, CreateSection(s, state)
    PROVE  ShelfInv'
<1> USE DEF CreateSection
<1>1. ShelvesTyped' /\ SectionsKept'
      BY DEF ShelfInv, ShelvesTyped, SectionsKept, SomeSectionVisible, NothingOutside, Known
<1>2. \A m \in Managers : StillRight(task[m])'
      <2> SUFFICES ASSUME NEW m \in Managers PROVE StillRight(task[m])'
          OBVIOUS
      <2>1. StillRight(task[m]) /\ section \in [Sections -> {"none", "hidden", "visible"}]
            BY DEF ShelfInv, ShelvesTyped
      <2>2. \A x \in Sections : section[x] # "none" /\ NotTheLast(x) => NotTheLast(x)'
            BY <2>1 DEF NotTheLast, OthersVisible
      <2>3. task[m].at \in {"showSection", "dropSection"} => task[m].of \in Sections
            BY DEF ShelfInv, ShelvesTyped, Tasks, NoTask
      <2> QED BY <2>1, <2>2, <2>3 DEF StillRight, Empty, Known
<1>3. OneHolder'
      BY DEF ShelfInv, OneHolder, Holds
<1> QED BY <1>1, <1>2, <1>3 DEF ShelfInv

\* The holder writes while everybody else waits for it.
LEMMA ShowSectionKeeps ==
    ASSUME ShelfInv, NEW m \in Managers, ShowSection(m)
    PROVE  ShelfInv'
<1> DEFINE t == task[m]
<1> USE DEF ShowSection
<1>1. /\ t \in [at : {"showSection"}, of : Sections, to : {"hidden", "visible"}]
      /\ section[t.of] # "none" /\ (t.to = "hidden" => NotTheLast(t.of))
      BY DEF ShelfInv, ShelvesTyped, Tasks, NoTask, StillRight
<1>2. ShelvesTyped' /\ \A n \in Managers : task'[n] = IF n = m THEN NoTask ELSE task[n]
      BY <1>1 DEF ShelfInv, ShelvesTyped, Ends, Tasks
<1>3. SomeSectionVisible'
      <2>1. section'[t.of] = t.to /\ \A x \in Sections \ {t.of} : section'[x] = section[x]
            BY <1>1 DEF ShelfInv, ShelvesTyped
      <2>2. SomeSectionVisible
            BY DEF ShelfInv, SectionsKept
      <2> QED BY <1>1, <2>1, <2>2 DEF SomeSectionVisible, NotTheLast, OthersVisible
<1>4. NothingOutside'
      BY <1>1 DEF ShelfInv, ShelvesTyped, SectionsKept, NothingOutside, Known
<1>5. \A n \in Managers : task'[n] = task[n] => StillRight(task[n])'
      <2> SUFFICES ASSUME NEW n \in Managers, task'[n] = task[n] PROVE StillRight(task[n])'
          OBVIOUS
      <2>1. StillRight(task[n]) /\ ~Holds(n)
            BY <1>1, <1>2 DEF ShelfInv, OneHolder, Holds, NoTask
      <2> QED BY <1>2, <2>1 DEF StillRight, Holds, Known
<1> QED BY <1>2, <1>3, <1>4, <1>5, EndingKeeps DEF ShelfInv, SectionsKept, ShelvesTyped

\* What is deleted with the section is empty.
LEMMA DropSectionKeeps ==
    ASSUME ShelfInv, NEW m \in Managers, DropSection(m)
    PROVE  ShelfInv'
<1> DEFINE t == task[m]
<1> USE DEF DropSection
<1>1. /\ t \in [at : {"dropSection"}, of : Sections]
      /\ section[t.of] # "none" /\ NotTheLast(t.of) /\ Empty(t.of)
      BY DEF ShelfInv, ShelvesTyped, Tasks, NoTask, StillRight
<1>2. ShelvesTyped' /\ \A n \in Managers : task'[n] = IF n = m THEN NoTask ELSE task[n]
      BY <1>1 DEF ShelfInv, ShelvesTyped, Ends, Tasks
<1>3. section'[t.of] = "none" /\ \A x \in Sections \ {t.of} : section'[x] = section[x]
      BY <1>1 DEF ShelfInv, ShelvesTyped
<1>4. SomeSectionVisible'
      BY <1>1, <1>3 DEF ShelfInv, SectionsKept, SomeSectionVisible, NotTheLast, OthersVisible
<1>5. NothingOutside'
      <2>1. /\ \A c \in Categories : SectionFor[c] \in Sections
            /\ \A p \in Known : place[p].cat \in Categories
            BY ShelvesAssumption DEF ShelfInv, ShelvesTyped, PlacedRow, Roots, Known
      <2>2. NothingOutside
            BY DEF ShelfInv, SectionsKept
      <2> QED BY <1>1, <1>3, <2>1, <2>2 DEF NothingOutside, Empty, Known
<1>6. \A n \in Managers : task'[n] = task[n] => StillRight(task[n])'
      <2> SUFFICES ASSUME NEW n \in Managers, task'[n] = task[n] PROVE StillRight(task[n])'
          OBVIOUS
      <2>1. StillRight(task[n]) /\ ~Holds(n)
            BY <1>1, <1>2 DEF ShelfInv, OneHolder, Holds, NoTask
      <2> QED BY <1>2, <2>1 DEF StillRight, Holds, Known
<1> QED BY <1>2, <1>4, <1>5, <1>6, EndingKeeps DEF ShelfInv, SectionsKept, ShelvesTyped

-----------------------------------------------------------------------------
(* Categories and products.                                                *)

\* The insert waits for whoever holds the sections, and its foreign keys are checked.
LEMMA AddCategoryKeeps ==
    ASSUME ShelfInv, NEW m \in Managers, AddCategory(m)
    PROVE  ShelfInv'
<1> DEFINE c == task[m].of
<1> USE DEF AddCategory
<1>1. c \in Categories
      BY DEF ShelfInv, ShelvesTyped, Tasks, NoTask
<1>2. ShelvesTyped' /\ \A n \in Managers : task'[n] = IF n = m THEN NoTask ELSE task[n]
      BY <1>1 DEF ShelfInv, ShelvesTyped, Ends, Tasks
<1>3. SectionsKept'
      <2>1. \A x \in Categories : category[x] # "none" => category'[x] # "none"
            BY <1>1 DEF ShelfInv, ShelvesTyped
      <2>2. \A x \in Categories : category'[x] # "none" => section[SectionFor[x]] # "none"
            BY <1>1 DEF ShelfInv, ShelvesTyped, SectionsKept, NothingOutside
      <2>3. \A p \in Known : place[p].cat \in Categories
            BY DEF ShelfInv, ShelvesTyped, PlacedRow, Roots, Known
      <2> QED BY <2>1, <2>2, <2>3 DEF ShelfInv, SectionsKept, SomeSectionVisible, NothingOutside, Known
<1>4. \A n \in Managers : task'[n] = task[n] => StillRight(task[n])'
      BY <1>2 DEF ShelfInv, StillRight, SectionsFree, Known
<1> QED BY <1>2, <1>3, <1>4, EndingKeeps DEF ShelfInv, ShelvesTyped

\* A section that is being deleted has no live category to remove; a removed category
\* stays a row of its section.
LEMMA RemoveCategoryKeeps ==
    ASSUME ShelfInv, NEW m \in Managers, RemoveCategory(m)
    PROVE  ShelfInv'
<1> USE DEF RemoveCategory
<1>1. ShelvesTyped' /\ \A n \in Managers : task'[n] = IF n = m THEN NoTask ELSE task[n]
      BY DEF ShelfInv, ShelvesTyped, Ends, Tasks
<1>2. \A c \in Categories : /\ category'[c] = "none" <=> category[c] = "none"
                            /\ category'[c] = "live" => category[c] = "live"
      <2>1. task[m] \in [at : {"removeCategory"}, of : SUBSET Categories]
            BY DEF ShelfInv, ShelvesTyped, Tasks, NoTask
      <2> QED BY <2>1 DEF ShelfInv, ShelvesTyped
<1>3. SectionsKept'
      <2>1. \A p \in Known : place[p].cat \in Categories
            BY DEF ShelfInv, ShelvesTyped, PlacedRow, Roots, Known
      <2> QED BY <1>2, <2>1 DEF ShelfInv, SectionsKept, SomeSectionVisible, NothingOutside, Known
<1>4. \A n \in Managers : task'[n] = task[n] => StillRight(task[n])'
      BY <1>2 DEF ShelfInv, StillRight, NotTheLast, OthersVisible, Empty, Known
<1> QED BY <1>1, <1>3, <1>4, EndingKeeps DEF ShelfInv, ShelvesTyped

\* Ending edits is all that a change of a product does to the tasks of others.
LEMMA VersionsMove ==
    ASSUME ShelvesTyped, NEW ms \in SUBSET Managers, NEW ps \in SUBSET Products, MovesVersion(ms, ps)
    PROVE  /\ task' \in [Managers -> Tasks]
           /\ \A n \in Managers : task'[n] = task[n] \/ task'[n] = NoTask
BY DEF MovesVersion, ShelvesTyped, Tasks

\* A product is written where its section and its categories are, while no section is held.
LEMMA WritePlaceKeeps ==
    ASSUME ShelfInv, NEW m \in Managers, WritePlace(m)
    PROVE  ShelfInv'
<1> DEFINE t == task[m]
<1> USE DEF WritePlace
<1>1. /\ t \in [at : {"create", "edit", "move"}, of : SUBSET Products, place : PlacedRow]
      /\ t.at # "create" => t.of \subseteq Known
      BY DEF ShelfInv, ShelvesTyped, Tasks, NoTask, StillRight
<1>2. CASE UNCHANGED place
      <2>1. ShelvesTyped' /\ \A n \in Managers : task'[n] = task[n] \/ task'[n] = NoTask
            BY <1>1, <1>2, VersionsMove DEF ShelfInv, ShelvesTyped, Ends, Tasks
      <2>2. SectionsKept'
            BY <1>2 DEF ShelfInv, SectionsKept, SomeSectionVisible, NothingOutside, Known
      <2>3. \A n \in Managers : task'[n] = task[n] => StillRight(task[n])'
            BY <1>2 DEF ShelfInv, StillRight, SectionsFree, Known
      <2> QED BY <2>1, <2>2, <2>3, EndingKeeps DEF ShelfInv, ShelvesTyped
<1>3. CASE ~UNCHANGED place
      <2>1. /\ RowsExist(t.place) /\ MovesVersion({m}, t.of)
            /\ t.at = "create" => t.of \cap Known = {}
            BY <1>3
      <2>2. \A p \in Products : place'[p] = IF p \in t.of THEN [t.place EXCEPT !.state = IF t.at = "create" THEN "live" ELSE place[p].state]
                                            ELSE place[p]
            BY <1>3
      <2>3. \A p \in t.of : place'[p] \in PlacedRow /\ place'[p].cat = t.place.cat
            <3>1. \A p \in t.of : t.at # "create" => place[p].state \in {"live", "deleted"}
                  BY <1>1 DEF ShelfInv, ShelvesTyped, PlacedRow, Known
            <3> QED BY <1>1, <2>2, <3>1 DEF PlacedRow
      <2>4. ShelvesTyped' /\ \A n \in Managers : task'[n] = task[n] \/ task'[n] = NoTask
            <3>1. place' \in [Products -> {NoPlace} \cup PlacedRow]
                  BY <1>1, <1>3, <2>2, <2>3 DEF ShelfInv, ShelvesTyped
            <3> QED BY <1>1, <2>1, <3>1, VersionsMove DEF ShelfInv, ShelvesTyped
      <2>5. Known' = Known \cup t.of
            <3>1. NoPlace \notin PlacedRow
                  BY DEF NoPlace, PlacedRow
            <3> QED BY <1>1, <2>2, <2>3, <3>1 DEF Known
      <2>6. SectionsKept'
            <3>1. SomeSectionVisible' /\ \A c \in Categories : category'[c] # "none" => section'[SectionFor[c]] # "none"
                  BY DEF ShelfInv, SectionsKept, SomeSectionVisible, NothingOutside
            <3>2. \A p \in Known' : section[SectionFor[place'[p].cat]] # "none" /\ category[place'[p].cat] # "none"
                  BY <2>1, <2>2, <2>3, <2>5 DEF ShelfInv, SectionsKept, NothingOutside, RowsExist, Known
            <3> QED BY <3>1, <3>2 DEF SectionsKept, NothingOutside
      <2>7. \A n \in Managers : task'[n] = task[n] => StillRight(task[n])'
            BY <2>5 DEF ShelfInv, StillRight, SectionsFree
      <2> QED BY <2>4, <2>6, <2>7, EndingKeeps DEF ShelfInv, ShelvesTyped
<1> QED BY <1>2, <1>3

\* Deleting and restoring leave a product where it stands.
LEMMA StateChangeKeeps ==
    ASSUME ShelfInv, NEW ps \in SUBSET Products, ps \subseteq Known, NEW ms \in SUBSET Managers, MovesVersion(ms, ps),
           NEW state \in {"live", "deleted"},
           place' = [p \in Products |-> IF p \in ps THEN [place[p] EXCEPT !.state = state] ELSE place[p]],
           UNCHANGED <<section, category>>
    PROVE  ShelfInv'
<1>1. \A p \in Products : p \in ps => place'[p] \in PlacedRow /\ place'[p].cat = place[p].cat
      BY DEF ShelfInv, ShelvesTyped, PlacedRow, Known
<1>2. ShelvesTyped' /\ \A n \in Managers : task'[n] = task[n] \/ task'[n] = NoTask
      BY <1>1, VersionsMove DEF ShelfInv, ShelvesTyped
<1>3. Known' = Known /\ \A p \in Known : place'[p].cat = place[p].cat
      BY <1>1 DEF Known, NoPlace, PlacedRow
<1>4. SectionsKept'
      BY <1>3 DEF ShelfInv, SectionsKept, SomeSectionVisible, NothingOutside
<1>5. \A n \in Managers : task'[n] = task[n] => StillRight(task[n])'
      BY <1>3 DEF ShelfInv, StillRight, NotTheLast, OthersVisible, Empty
<1> QED BY <1>2, <1>4, <1>5, EndingKeeps DEF ShelfInv, ShelvesTyped

-----------------------------------------------------------------------------
\* The inductive invariant of the shelves: what every open transaction has read of the
\* sections, categories and products it is about stays right.
THEOREM ShelfInvCorrect == ShelvesSpec => []ShelfInv
<1>1. ShelfInv /\ [ShelvesNext]_shelfVars => ShelfInv'
      <2> SUFFICES ASSUME ShelfInv, [ShelvesNext]_shelfVars PROVE ShelfInv'
          OBVIOUS
      <2>1. CASE UNCHANGED shelfVars
            <3>1. UNCHANGED <<section, category, place, task>>
                  BY <2>1 DEF shelfVars
            <3> QED BY <3>1 DEF ShelfInv, ShelvesTyped, SectionsKept, SomeSectionVisible, NothingOutside, OneHolder,
                                Holds, StillRight, NotTheLast, OthersVisible, Empty, Known
      <2>2. ASSUME NEW s \in Sections, NEW state \in {"hidden", "visible"}, CreateSection(s, state) PROVE ShelfInv'
            BY <2>2, CreateSectionKeeps
      <2>3. ASSUME NEW ps \in SUBSET Products, RemoveProducts(ps) PROVE ShelfInv'
            <3>1. ps \subseteq Known
                  BY <2>3 DEF RemoveProducts, OnSale
            <3>2. MovesVersion({}, ps) /\ {} \in SUBSET Managers /\ UNCHANGED <<section, category>>
                  BY <2>3 DEF RemoveProducts
            <3>3. place' = [p \in Products |-> IF p \in ps THEN [place[p] EXCEPT !.state = "deleted"] ELSE place[p]]
                  BY <2>3 DEF RemoveProducts
            <3> QED BY <3>1, <3>2, <3>3, StateChangeKeeps
      <2>4. ASSUME NEW m \in Managers, Restore(m) PROVE ShelfInv'
            <3> DEFINE p == task[m].of
            <3>1. p \in Known
                  BY <2>4 DEF ShelfInv, StillRight, Restore
            <3>2. {p} \in SUBSET Products /\ {p} \subseteq Known /\ {m} \in SUBSET Managers
                  BY <3>1 DEF Known
            <3>3. place' = [x \in Products |-> IF x \in {p} THEN [place[x] EXCEPT !.state = "live"] ELSE place[x]]
                  BY <2>4 DEF Restore, ShelfInv, ShelvesTyped
            <3>4. MovesVersion({m}, {p}) /\ UNCHANGED <<section, category>>
                  BY <2>4 DEF Restore
            <3> HIDE DEF p
            <3> QED BY <3>2, <3>3, <3>4, StateChangeKeeps
      <2>5. ASSUME NEW m \in Managers, RefuseEdit(m) PROVE ShelfInv'
            <3>1. task' \in [Managers -> Tasks] /\ \A n \in Managers : task'[n] = task[n] \/ task'[n] = NoTask
                  BY <2>5 DEF RefuseEdit, Ends, ShelfInv, ShelvesTyped, Tasks
            <3>2. UNCHANGED <<section, category, place>>
                  BY <2>5 DEF RefuseEdit
            <3>3. \A n \in Managers : task'[n] = task[n] => StillRight(task[n])'
                  BY <3>2 DEF ShelfInv, StillRight, NotTheLast, OthersVisible, Empty, Known
            <3> QED BY <3>1, <3>2, <3>3, EndingKeeps DEF ShelfInv, ShelvesTyped, SectionsKept, SomeSectionVisible, NothingOutside, Known
      <2> QED BY <2>1, <2>2, <2>3, <2>4, <2>5, ReadsKeep, ShowSectionKeeps, DropSectionKeeps, AddCategoryKeeps,
                 RemoveCategoryKeeps, WritePlaceKeeps DEF ShelvesNext
<1> QED BY <1>1, ShelvesInitial, PTL DEF ShelvesSpec

\* "Lock every section so two managers cannot hide the last two visible ones at once"
\* (section-admin.service.ts:32): a section stays visible, and nothing is left in a
\* section that is deleted, whatever any number of managers do at the same time.
THEOREM SectionsKeptCorrect == ShelvesSpec => []SectionsKept
<1>1. ShelfInv => SectionsKept
      BY DEF ShelfInv
<1> QED BY <1>1, ShelfInvCorrect, PTL

-----------------------------------------------------------------------------
(* Prices.                                                                 *)

ArticleRow == [live : BOOLEAN, price : Nat, struck : SUBSET Nat, version : Nat]

\* A transaction under way holds rows.
EditTyped(e) ==
    /\ e.at = "edit" => e.of \in Articles /\ e.read \in ArticleRow /\ e.next \in ArticleRow
    /\ e.at = "bulk" => e.of \in SUBSET Articles /\ \A p \in e.of : e.read[p] \in ArticleRow

PriceBookTyped ==
    /\ article \in [Articles -> ArticleRow] /\ restocked \in [Articles -> BOOLEAN]
    /\ page \in [Editors -> {NoPage} \cup [of : Articles, row : ArticleRow]]
    /\ DOMAIN edit = Editors /\ edit = [m \in Editors |-> edit[m]]
    /\ \A m \in Editors : EditTyped(edit[m])

\* An edit is of its page; while the version is the page's, so are the prices.
OfItsPage(m) ==
    edit[m].at = "edit" => /\ page[m] # NoPage /\ edit[m].of = page[m].of
                           /\ edit[m].read.version = page[m].row.version
PageFresh(m) ==
    page[m] # NoPage =>
        LET p == page[m].of IN
          /\ page[m].row.version <= article[p].version
          /\ page[m].row.version = article[p].version /\ ~restocked[p] => Tag(article[p]) = Tag(page[m].row)

PriceBookInv == PriceBookTyped /\ \A m \in Editors : OfItsPage(m) /\ PageFresh(m)

\* Every write but a restock's moves the version.
WritesMoveVersion ==
    \A p \in Articles : \/ article'[p] = article[p] /\ restocked'[p] = restocked[p]
                        \/ article'[p].version > article[p].version
                        \/ article'[p].version = article[p].version /\ restocked'[p]

\* A page that is left alone stays as fresh as it was.
LEMMA PagesStayFresh ==
    ASSUME PriceBookInv, PriceBookTyped', WritesMoveVersion, NEW m \in Editors,
           page'[m] = page[m]
    PROVE  PageFresh(m)'
<1> SUFFICES ASSUME page[m] # NoPage PROVE PageFresh(m)'
    BY DEF PageFresh
<1> DEFINE p == page[m].of
<1>1. page[m] \in [of : Articles, row : ArticleRow] /\ p \in Articles
      BY DEF PriceBookInv, PriceBookTyped
<1>2. article[p].version \in Nat /\ article'[p].version \in Nat /\ page[m].row.version \in Nat
      BY <1>1 DEF PriceBookInv, PriceBookTyped, ArticleRow
<1>3. /\ page[m].row.version <= article[p].version
      /\ page[m].row.version = article[p].version /\ ~restocked[p] => Tag(article[p]) = Tag(page[m].row)
      BY DEF PriceBookInv, PageFresh
<1>4. \/ article'[p] = article[p] /\ restocked'[p] = restocked[p]
      \/ article'[p].version > article[p].version
      \/ article'[p].version = article[p].version /\ restocked'[p]
      BY <1>1 DEF WritesMoveVersion
<1>5. CASE article'[p] = article[p] /\ restocked'[p] = restocked[p]
      BY <1>3, <1>5 DEF PageFresh, Tag
<1>6. CASE article'[p].version > article[p].version
      BY <1>2, <1>3, <1>6 DEF PageFresh
<1>7. CASE article'[p].version = article[p].version /\ restocked'[p]
      BY <1>3, <1>7 DEF PageFresh
<1> QED BY <1>4, <1>5, <1>6, <1>7

\* No page is open at first.
LEMMA PriceBookInitial == PriceBookInit => PriceBookInv
<1> SUFFICES ASSUME PriceBookInit PROVE PriceBookInv
    OBVIOUS
<1> USE DEF PriceBookInit
<1> DEFINE FirstRow == [live : {TRUE}, price : Prices, struck : {{}}, version : {1}]
<1>1. ASSUME NEW row \in FirstRow PROVE row \in ArticleRow
      <2>1. row = [live |-> row.live, price |-> row.price, struck |-> row.struck, version |-> row.version]
            OBVIOUS
      <2>2. row.price \in Nat /\ row.struck \subseteq Nat /\ row.version \in Nat
            BY PriceBookAssumption DEF Prices
      <2>3. row.live \in BOOLEAN
            OBVIOUS
      <2> QED BY <2>1, <2>2, <2>3 DEF ArticleRow
<1>2. PriceBookTyped
      <2>1. article \in [Articles -> ArticleRow]
            BY <1>1
      <2>2. \A m \in Editors : edit[m].at = "none" /\ EditTyped(edit[m])
            BY DEF EditTyped, NoEdit
      <2> QED BY <2>1, <2>2 DEF PriceBookTyped
<1>3. \A m \in Editors : edit[m].at = "none" /\ page[m] = NoPage
      BY DEF NoEdit
<1> QED BY <1>2, <1>3 DEF PriceBookInv, OfItsPage, PageFresh

\* A page that is opened shows the product as it is.
LEMMA OpenPageKeeps ==
    ASSUME PriceBookInv, NEW m \in Editors, NEW p \in Articles, OpenPage(m, p)
    PROVE  PriceBookInv'
<1> USE DEF OpenPage
<1>1. PriceBookTyped'
      BY DEF PriceBookInv, PriceBookTyped
<1>2. page'[m] = [of |-> p, row |-> article[p]] /\ \A n \in Editors \ {m} : page'[n] = page[n]
      BY DEF PriceBookInv, PriceBookTyped
<1>3. PageFresh(m)'
      BY <1>2 DEF PageFresh, PriceBookInv, PriceBookTyped, ArticleRow
<1>4. \A n \in Editors \ {m} : PageFresh(n)'
      BY <1>1, <1>2, PagesStayFresh DEF WritesMoveVersion
<1>5. \A n \in Editors : OfItsPage(n)'
      BY <1>2 DEF PriceBookInv, OfItsPage, NoEdit
<1> QED BY <1>1, <1>3, <1>4, <1>5 DEF PriceBookInv

\* A row with its version moved.
LEMMA BumpedRow ==
    ASSUME NEW row \in ArticleRow
    PROVE  Bumped(row) \in ArticleRow /\ Bumped(row).version = row.version + 1
BY DEF ArticleRow, Bumped

\* What the page asks for is a row of the product it shows.
LEMMA ChangedRows ==
    ASSUME NEW row \in ArticleRow, NEW next \in Changed(row)
    PROVE  next \in ArticleRow /\ next.version = row.version
<1>1. Prices \subseteq Nat
      BY PriceBookAssumption DEF Prices
<1>2. CASE \E n \in Prices : next = [row EXCEPT !.price = n, !.struck = Above(n, @)]
      BY <1>1, <1>2 DEF ArticleRow, Above
<1>3. CASE \E n \in Prices : \E given \in {{}} \cup {{x} : x \in (n + 1)..MaxPrice} : next = [row EXCEPT !.price = n, !.struck = given]
      <2>0. PICK n \in Prices : \E given \in {{}} \cup {{x} : x \in (n + 1)..MaxPrice} : next = [row EXCEPT !.price = n, !.struck = given]
            BY <1>3
      <2>1. PICK given \in {{}} \cup {{x} : x \in (n + 1)..MaxPrice} : next = [row EXCEPT !.price = n, !.struck = given]
            BY <2>0
      <2>2. n \in Nat /\ given \subseteq Nat
            BY <1>1, PriceBookAssumption
      <2> QED BY <2>1, <2>2 DEF ArticleRow
<1> QED BY <1>2, <1>3 DEF Changed

\* An edit is opened on the version of its page.
LEMMA ReadEditKeeps ==
    ASSUME PriceBookInv, NEW m \in Editors, page[m] # NoPage,
           NEW next \in Changed(article[page[m].of]), ReadEdit(m, next)
    PROVE  PriceBookInv'
<1> DEFINE p == page[m].of
           e == [at |-> "edit", of |-> p, read |-> article[p], next |-> next]
<1>1. p \in Articles /\ article[p] \in ArticleRow
      BY DEF PriceBookInv, PriceBookTyped
<1>2. edit'[m] = e /\ \A n \in Editors \ {m} : edit'[n] = edit[n]
      BY DEF ReadEdit, PriceBookInv, PriceBookTyped
<1>3. PriceBookTyped'
      <2>1. EditTyped(e)
            BY <1>1, ChangedRows DEF EditTyped
      <2>2. \A n \in Editors : EditTyped(edit'[n])
            BY <1>2, <2>1 DEF PriceBookInv, PriceBookTyped
      <2> QED BY <1>2, <2>2 DEF PriceBookInv, PriceBookTyped, ReadEdit, EditTyped
<1>4. \A n \in Editors : OfItsPage(n)'
      BY <1>2 DEF PriceBookInv, OfItsPage, ReadEdit
<1>5. \A n \in Editors : PageFresh(n)'
      BY DEF PriceBookInv, PageFresh, ReadEdit
<1> QED BY <1>3, <1>4, <1>5 DEF PriceBookInv

\* An edit is saved under a new version, or not at all.
LEMMA SaveKeeps ==
    ASSUME PriceBookInv, NEW m \in Editors, Save(m)
    PROVE  PriceBookInv'
<1> DEFINE e == edit[m]
           p == e.of
           asked == [e.next EXCEPT !.version = article[p].version]
           row == Bumped(asked)
<1>1. p \in Articles /\ e.next \in ArticleRow /\ article[p] \in ArticleRow /\ e.at = "edit"
      BY DEF PriceBookInv, PriceBookTyped, EditTyped, Save
<1>2. row \in ArticleRow /\ row.version = article[p].version + 1
      <2>1. asked \in ArticleRow /\ asked.version = article[p].version
            BY <1>1 DEF ArticleRow
      <2> QED BY <2>1, BumpedRow
<1>3. \/ UNCHANGED <<article, restocked>>
      \/ article' = [article EXCEPT ![p] = row] /\ restocked' = [restocked EXCEPT ![p] = FALSE]
      BY DEF Save
<1>4. /\ page' = [page EXCEPT ![m] = NoPage] /\ edit' = [edit EXCEPT ![m] = NoEdit]
      /\ page'[m] = NoPage /\ edit'[m] = NoEdit
      /\ \A n \in Editors \ {m} : page'[n] = page[n] /\ edit'[n] = edit[n]
      BY DEF Save, PriceBookInv, PriceBookTyped
<1> HIDE DEF row
<1>5. PriceBookTyped'
      <2>1. \A n \in Editors : EditTyped(edit'[n])
            BY <1>4 DEF PriceBookInv, PriceBookTyped, EditTyped, NoEdit
      <2>2. article' \in [Articles -> ArticleRow] /\ restocked' \in [Articles -> BOOLEAN]
            BY <1>1, <1>2, <1>3, ZenonT(40) DEF PriceBookInv, PriceBookTyped
      <2> QED BY <1>4, <2>1, <2>2 DEF PriceBookInv, PriceBookTyped, EditTyped
<1>6. WritesMoveVersion
      <2>1. article[p].version \in Nat
            BY <1>1 DEF ArticleRow
      <2> QED BY <1>1, <1>2, <1>3, <2>1 DEF WritesMoveVersion, PriceBookInv, PriceBookTyped
<1>7. \A n \in Editors : PageFresh(n)'
      <2>1. PageFresh(m)'
            BY <1>4 DEF PageFresh
      <2>2. \A n \in Editors \ {m} : PageFresh(n)'
            BY <1>4, <1>5, <1>6, PagesStayFresh
      <2> QED BY <2>1, <2>2
<1>8. \A n \in Editors : OfItsPage(n)'
      BY <1>4 DEF PriceBookInv, OfItsPage, NoEdit
<1> QED BY <1>5, <1>7, <1>8 DEF PriceBookInv

-----------------------------------------------------------------------------
(* Bulk actions, restocks, and the rest.                                   *)

\* Reading for a bulk action changes nothing.
LEMMA ReadBulkKeeps ==
    ASSUME PriceBookInv, NEW m \in Editors, NEW ps \in SUBSET Articles, NEW action, ReadBulk(m, ps, action)
    PROVE  PriceBookInv'
<1> DEFINE e == [at |-> "bulk", of |-> ps, action |-> action, read |-> [p \in ps |-> article[p]]]
<1>1. edit'[m] = e /\ \A n \in Editors \ {m} : edit'[n] = edit[n]
      BY DEF ReadBulk, PriceBookInv, PriceBookTyped
<1>2. PriceBookTyped'
      <2>1. EditTyped(e)
            BY DEF EditTyped, PriceBookInv, PriceBookTyped
      <2>2. \A n \in Editors : EditTyped(edit'[n])
            BY <1>1, <2>1 DEF PriceBookInv, PriceBookTyped
      <2> QED BY <1>1, <2>2 DEF PriceBookInv, PriceBookTyped, ReadBulk, EditTyped
<1>3. \A n \in Editors : OfItsPage(n)' /\ PageFresh(n)'
      BY <1>1 DEF PriceBookInv, OfItsPage, PageFresh, ReadBulk
<1> QED BY <1>2, <1>3 DEF PriceBookInv

\* What a bulk action makes of a row is a row of the same version.
LEMMA RepricedRow ==
    ASSUME NEW row \in ArticleRow, NEW read \in ArticleRow, NEW action
    PROVE  /\ WithColumns(row, Repriced(read, action), action) \in ArticleRow
           /\ WithColumns(row, Repriced(read, action), action).version = row.version
<1> DEFINE new == Repriced(read, action)
<1>1. read.price \in Nat /\ read.struck \subseteq Nat
      BY DEF ArticleRow
<1>2. Up(read.price) \in Nat /\ Down(read.price) \in Nat
      BY <1>1 DEF Up, Down
<1>3. new \in ArticleRow
      <2>1. [read EXCEPT !.price = Up(@), !.struck = Above(Up(read.price), @)] \in ArticleRow
            BY <1>1, <1>2 DEF ArticleRow, Above
      <2>2. [read EXCEPT !.price = Down(@), !.struck = Above(Down(read.price), @)] \in ArticleRow
            BY <1>1, <1>2 DEF ArticleRow, Above
      <2>3. [read EXCEPT !.struck = {read.price + 1}] \in ArticleRow /\ [read EXCEPT !.struck = {}] \in ArticleRow
            BY <1>1 DEF ArticleRow
      <2> QED BY <2>1, <2>2, <2>3 DEF Repriced
<1> HIDE DEF new
<1>4. /\ [row EXCEPT !.price = new.price, !.struck = new.struck] \in ArticleRow
      /\ [row EXCEPT !.price = new.price, !.struck = new.struck].version = row.version
      BY <1>3 DEF ArticleRow
<1>5. /\ [row EXCEPT !.struck = new.struck] \in ArticleRow
      /\ [row EXCEPT !.struck = new.struck].version = row.version
      BY <1>3 DEF ArticleRow
<1>6. [row EXCEPT !.live = FALSE] \in ArticleRow /\ [row EXCEPT !.live = FALSE].version = row.version
      BY DEF ArticleRow
<1>7. /\ WithColumns(row, new, action) \in ArticleRow
      /\ WithColumns(row, new, action).version = row.version
      BY <1>4, <1>5, <1>6 DEF WithColumns
<1> QED BY <1>7 DEF new

\* A write that ends the transaction of m, or of nobody, and leaves the pages.
LEMMA WriteKeeps ==
    ASSUME PriceBookInv, UNCHANGED page, WritesMoveVersion,
           article' \in [Articles -> ArticleRow], restocked' \in [Articles -> BOOLEAN],
           UNCHANGED edit \/ \E m \in Editors : edit' = [edit EXCEPT ![m] = NoEdit]
    PROVE  PriceBookInv'
<1>1. /\ DOMAIN edit' = Editors /\ edit' = [n \in Editors |-> edit'[n]]
      /\ \A n \in Editors : edit'[n] = edit[n] \/ edit'[n] = NoEdit
      BY DEF PriceBookInv, PriceBookTyped
<1>2. \A n \in Editors : EditTyped(edit'[n])
      BY <1>1 DEF PriceBookInv, PriceBookTyped, EditTyped, NoEdit
<1>3. PriceBookTyped'
      BY <1>1, <1>2 DEF PriceBookInv, PriceBookTyped, EditTyped
<1>4. \A n \in Editors : PageFresh(n)'
      BY <1>3, PagesStayFresh
<1>5. \A n \in Editors : OfItsPage(n)'
      BY <1>1 DEF PriceBookInv, OfItsPage, NoEdit
<1> QED BY <1>3, <1>4, <1>5 DEF PriceBookInv

\* A bulk action moves the version of all its products, or writes none of them.
LEMMA WriteBulkKeeps ==
    ASSUME PriceBookInv, NEW m \in Editors, WriteBulk(m)
    PROVE  PriceBookInv'
<1> DEFINE e == edit[m]
           new == [p \in e.of |-> Repriced(e.read[p], e.action)]
           row == [p \in e.of |-> Bumped(WithColumns(article[p], new[p], e.action))]
<1>1. e.of \subseteq Articles /\ \A p \in e.of : e.read[p] \in ArticleRow
      BY DEF PriceBookInv, PriceBookTyped, EditTyped, WriteBulk
<1>2. \A p \in e.of : row[p] \in ArticleRow /\ row[p].version = article[p].version + 1
      BY <1>1, RepricedRow, BumpedRow DEF PriceBookInv, PriceBookTyped
<1>3. \/ UNCHANGED <<article, restocked>>
      \/ /\ article' = [p \in Articles |-> IF p \in e.of THEN row[p] ELSE article[p]]
         /\ restocked' = [p \in Articles |-> p \notin e.of /\ restocked[p]]
      BY DEF WriteBulk
<1>4. UNCHANGED page /\ edit' = [edit EXCEPT ![m] = NoEdit]
      BY DEF WriteBulk
<1> HIDE DEF row
<1>5. article' \in [Articles -> ArticleRow] /\ restocked' \in [Articles -> BOOLEAN]
      BY <1>1, <1>2, <1>3 DEF PriceBookInv, PriceBookTyped
<1>6. WritesMoveVersion
      <2>1. \A p \in Articles : article[p].version \in Nat
            BY DEF PriceBookInv, PriceBookTyped, ArticleRow
      <2> QED BY <1>1, <1>2, <1>3, <2>1 DEF WritesMoveVersion, PriceBookInv, PriceBookTyped
<1> QED BY <1>4, <1>5, <1>6, WriteKeeps

\* A restock leaves the version, and is on record as having done so.
LEMMA RestockKeeps ==
    ASSUME PriceBookInv, NEW p \in Articles, NEW n \in Prices, RestockLot(p, n)
    PROVE  PriceBookInv'
<1>1. n \in Nat
      BY PriceBookAssumption DEF Prices
<1>2. [article[p] EXCEPT !.price = n] \in ArticleRow /\ [article[p] EXCEPT !.price = n].version = article[p].version
      BY <1>1 DEF PriceBookInv, PriceBookTyped, ArticleRow
<1>3. /\ article' = [article EXCEPT ![p] = [article[p] EXCEPT !.price = n]]
      /\ restocked' = [restocked EXCEPT ![p] = TRUE] /\ UNCHANGED <<page, edit>>
      BY DEF RestockLot
<1>4. article' \in [Articles -> ArticleRow] /\ restocked' \in [Articles -> BOOLEAN] /\ WritesMoveVersion
      BY <1>2, <1>3 DEF PriceBookInv, PriceBookTyped, WritesMoveVersion
<1> QED BY <1>3, <1>4, WriteKeeps

\* Restoring a product moves its version.
LEMMA RelistKeeps ==
    ASSUME PriceBookInv, NEW p \in Articles, Relist(p)
    PROVE  PriceBookInv'
<1> DEFINE back == [article[p] EXCEPT !.live = TRUE]
           row == Bumped(back)
<1>1. back \in ArticleRow /\ back.version = article[p].version /\ article[p].version \in Nat
      BY DEF PriceBookInv, PriceBookTyped, ArticleRow
<1>2. /\ article' = [article EXCEPT ![p] = row]
      /\ restocked' = [restocked EXCEPT ![p] = FALSE] /\ UNCHANGED <<page, edit>>
      BY DEF Relist
<1>3. row \in ArticleRow /\ row.version = article[p].version + 1
      BY <1>1, BumpedRow
<1> HIDE DEF row, back
<1>4. article' \in [Articles -> ArticleRow] /\ restocked' \in [Articles -> BOOLEAN]
      BY <1>2, <1>3 DEF PriceBookInv, PriceBookTyped
<1>5. WritesMoveVersion
      <2>1. article'[p] = row /\ \A q \in Articles \ {p} : article'[q] = article[q] /\ restocked'[q] = restocked[q]
            BY <1>2 DEF PriceBookInv, PriceBookTyped
      <2>2. article'[p].version > article[p].version
            BY <1>1, <1>3, <2>1
      <2> QED BY <2>1, <2>2 DEF WritesMoveVersion
<1> QED BY <1>2, <1>4, <1>5, WriteKeeps

-----------------------------------------------------------------------------
\* The inductive invariant of the prices: a page whose version is the product's shows
\* its prices, and an edit under way is of its page's version.
THEOREM PriceBookInvCorrect == PriceBookSpec => []PriceBookInv
<1>1. PriceBookInv /\ [PriceBookNext]_priceVars => PriceBookInv'
      <2> SUFFICES ASSUME PriceBookInv, [PriceBookNext]_priceVars PROVE PriceBookInv'
          OBVIOUS
      <2>1. CASE UNCHANGED priceVars
            BY <2>1 DEF priceVars, PriceBookInv, PriceBookTyped, EditTyped, OfItsPage, PageFresh
      <2>2. CASE \E p \in Articles : Relist(p) \/ \E n \in Prices : RestockLot(p, n)
            BY <2>2, RelistKeeps, RestockKeeps
      <2>3. ASSUME NEW m \in Editors, Save(m) \/ WriteBulk(m) PROVE PriceBookInv'
            BY <2>3, SaveKeeps, WriteBulkKeeps
      <2>4. ASSUME NEW m \in Editors, NEW p \in Articles, OpenPage(m, p) PROVE PriceBookInv'
            BY <2>4, OpenPageKeeps
      <2>5. ASSUME NEW m \in Editors, page[m] # NoPage /\ \E next \in Changed(article[page[m].of]) : ReadEdit(m, next)
            PROVE  PriceBookInv'
            BY <2>5, ReadEditKeeps
      <2>6. ASSUME NEW m \in Editors, NEW ps \in SUBSET Articles, NEW action \in BulkActions, ReadBulk(m, ps, action)
            PROVE  PriceBookInv'
            BY <2>6, ReadBulkKeeps
      <2> QED BY <2>1, <2>2, <2>3, <2>4, <2>5, <2>6 DEF PriceBookNext
<1> QED BY <1>1, PriceBookInitial, PTL DEF PriceBookSpec

\* Only Save with the version of the page both ends an edit and moves a product.
LEMMA SavesAsRead ==
    ASSUME PriceBookInv, [PriceBookNext]_priceVars, NEW m \in Editors, Saves(m)
    PROVE  Save(m) /\ StillAsRead(m)
<1>1. edit'[m] # edit[m] /\ edit[m].at = "edit" /\ article' # article
      BY DEF Saves, NoEdit
<1>2. DOMAIN edit = Editors /\ edit = [n \in Editors |-> edit[n]]
      BY DEF PriceBookInv, PriceBookTyped
<1>3. PICK n \in Editors : Save(n) \/ WriteBulk(n)
      BY <1>1 DEF PriceBookNext, priceVars, Relist, RestockLot, OpenPage, ReadEdit, ReadBulk
<1>4. n = m
      BY <1>1, <1>2, <1>3 DEF Save, WriteBulk
<1> QED BY <1>1, <1>3, <1>4 DEF Save, WriteBulk

\* The optimistic lock of the product page (product-admin.service.ts:193 and :220): what
\* an edit replaces are the prices its page showed, for any number of products, managers
\* and bulk actions, unless a restock has set the price in between.
THEOREM EditsSeenCorrect == PriceBookSpec => EditsSeen
<1>1. PriceBookInv /\ [PriceBookNext]_priceVars =>
        [\A m \in Editors : Saves(m) => restocked[edit[m].of] \/ Tag(article[edit[m].of]) = Tag(page[m].row)]_priceVars
      <2> SUFFICES ASSUME PriceBookInv, [PriceBookNext]_priceVars, NEW m \in Editors, Saves(m), ~restocked[edit[m].of]
                   PROVE  Tag(article[edit[m].of]) = Tag(page[m].row)
          OBVIOUS
      <2>1. StillAsRead(m) /\ edit[m].at = "edit"
            BY SavesAsRead DEF Saves
      <2>2. page[m] # NoPage /\ edit[m].of = page[m].of /\ page[m].row.version = article[page[m].of].version
            BY <2>1 DEF PriceBookInv, OfItsPage, StillAsRead
      <2> QED BY <2>2 DEF PriceBookInv, PageFresh
<1> QED BY <1>1, PriceBookInvCorrect, PTL DEF PriceBookSpec, EditsSeen
=============================================================================
