------------------------------ MODULE Sessions ------------------------------
(***************************************************************************)
(* The sign-in sessions of one account: browsers that share a refresh      *)
(* cookie between their tabs, access tokens kept per tab, the rotation of  *)
(* the refresh token, and what revokes sessions.                           *)
(*                                                                         *)
(* refresh() is not a transaction: it reads the session, revokes it and    *)
(* creates its successor in statements of their own, and the answer may be *)
(* lost.  The client keeps one refresh in flight per tab; the cookie stays *)
(* as it is when a refresh fails.                                          *)
(* Abstracted: passwords, lock-out, token contents; a session's number     *)
(* stands for both of its tokens, which expire at any time.                *)
(***************************************************************************)
EXTENDS Naturals, FiniteSets, FiniteSetsExt

CONSTANTS
    Browsers,
    Tabs,
    BrowserOf,     \* the browser of a tab
    Calls,         \* refresh calls that may be in flight
    MaxSessions    \* bound: auth_sessions rows

ASSUME SessionsAssumption == BrowserOf \in [Tabs -> Browsers] /\ MaxSessions \in Nat

VARIABLES
    session,   \* auth_sessions: "none", "live" or "revoked"
    cookie,    \* cholo_rt, per browser
    access,    \* the session of a tab's access token
    call,      \* refresh calls: the tab, how far it is, the token sent, the answer
    reuse,     \* a revoked token came back (history)
    mishaps    \* what could explain it (history)

sessionVars == <<session, cookie, access, call, reuse, mishaps>>

-----------------------------------------------------------------------------
NoSession == 0
Numbers == 1..MaxSessions
NoCall == [at |-> "none", tab |-> "none", token |-> NoSession, fresh |-> NoSession]

Unissued == {n \in Numbers : session[n] = "none"}
Live == {n \in Numbers : session[n] = "live"}

Revoking(ns) == [n \in Numbers |-> IF n \in ns /\ session[n] = "live" THEN "revoked" ELSE session[n]]

Underway(t) == {c \in Calls : call[c].at # "none" /\ call[c].tab = t}
UnderwayIn(b) == {c \in Calls : call[c].at # "none" /\ BrowserOf[call[c].tab] = b}
Answered(c, n) == call' = [call EXCEPT ![c].at = "answered", ![c].fresh = n]

\* login: a new session beside those there are.
Login(t) ==
    /\ access[t] = NoSession /\ Underway(t) = {} /\ Unissued # {}
    /\ session' = [session EXCEPT ![Min(Unissued)] = "live"]
    /\ cookie' = [cookie EXCEPT ![BrowserOf[t]] = Min(Unissued)]
    /\ access' = [access EXCEPT ![t] = Min(Unissued)]
    /\ mishaps' = IF UnderwayIn(BrowserOf[t]) # {} THEN mishaps \cup {"tabs"} ELSE mishaps
    /\ UNCHANGED <<call, reuse>>

\* Variant: every request that meets a 401 refreshes by itself.
SendAlways(c, t) ==
    /\ call[c] = NoCall
    /\ cookie[BrowserOf[t]] # NoSession
    /\ call' = [call EXCEPT ![c] = [at |-> "sent", tab |-> t, token |-> cookie[BrowserOf[t]], fresh |-> NoSession]]
    /\ mishaps' = IF UnderwayIn(BrowserOf[t]) \ Underway(t) # {} THEN mishaps \cup {"tabs"} ELSE mishaps
    /\ UNCHANGED <<session, cookie, access, reuse>>

\* refreshSession, on a first load or a 401: whoever asks meanwhile shares the call.
Send(c, t) ==
    /\ call[c] = NoCall /\ Underway(t) = {}
    /\ cookie[BrowserOf[t]] # NoSession
    /\ call' = [call EXCEPT ![c] = [at |-> "sent", tab |-> t, token |-> cookie[BrowserOf[t]], fresh |-> NoSession]]
    /\ mishaps' = IF UnderwayIn(BrowserOf[t]) # {} THEN mishaps \cup {"tabs"} ELSE mishaps
    /\ UNCHANGED <<session, cookie, access, reuse>>

\* refresh: the session is read ...
Read(c) ==
    /\ call[c].at = "sent"
    /\ call' = [call EXCEPT ![c].at = IF session[call[c].token] = "revoked" THEN "reused" ELSE "rotate"]
    /\ UNCHANGED <<session, cookie, access, reuse, mishaps>>

\* ... a rotated token that came back kills every session of the account ...
RevokeReused(c) ==
    /\ call[c].at = "reused"
    /\ session' = Revoking(Live)
    /\ reuse' = TRUE
    /\ Answered(c, NoSession)
    /\ UNCHANGED <<cookie, access, mishaps>>

\* ... any other dies ...
Rotate(c) ==
    /\ call[c].at = "rotate"
    /\ session' = Revoking({call[c].token})
    /\ call' = [call EXCEPT ![c].at = "issue"]
    /\ UNCHANGED <<cookie, access, reuse, mishaps>>

\* ... and has a successor.
Issue(c) ==
    /\ call[c].at = "issue" /\ Unissued # {}
    /\ session' = [session EXCEPT ![Min(Unissued)] = "live"]
    /\ Answered(c, Min(Unissued))
    /\ UNCHANGED <<cookie, access, reuse, mishaps>>

\* Variant: the answer carries no cookie.
ReceiveBare(c) ==
    /\ call[c].at = "answered"
    /\ access' = [access EXCEPT ![call[c].tab] = call[c].fresh]
    /\ call' = [call EXCEPT ![c] = NoCall]
    /\ UNCHANGED <<session, cookie, reuse, mishaps>>

\* Only a success sets the cookie.
Receive(c) ==
    /\ call[c].at = "answered"
    /\ LET q == call[c] IN
         /\ access' = [access EXCEPT ![q.tab] = q.fresh]
         /\ cookie' = IF q.fresh = NoSession THEN cookie ELSE [cookie EXCEPT ![BrowserOf[q.tab]] = q.fresh]
    /\ call' = [call EXCEPT ![c] = NoCall]
    /\ UNCHANGED <<session, reuse, mishaps>>

\* The answer is lost, or the server stops before it has one.
Lose(c) ==
    /\ call[c].at # "none"
    /\ call' = [call EXCEPT ![c] = NoCall]
    /\ mishaps' = mishaps \cup {"lost"}
    /\ UNCHANGED <<session, cookie, access, reuse>>

\* Variant: a logout that works leaves the cookie in the browser.
LogoutKeepingCookie(t) ==
    /\ access[t] # NoSession
    /\ \E expired \in BOOLEAN :
         IF ~expired /\ access[t] \notin Live THEN UNCHANGED <<session, cookie>>
         ELSE /\ session' = Revoking({cookie[BrowserOf[t]]} \cup (IF expired THEN {} ELSE {access[t]}))
              /\ UNCHANGED cookie
    /\ access' = [access EXCEPT ![t] = NoSession]
    /\ mishaps' = IF UnderwayIn(BrowserOf[t]) # {} THEN mishaps \cup {"tabs"} ELSE mishaps
    /\ UNCHANGED <<call, reuse>>

\* logout: an expired access token counts as none, one whose session was revoked is
\* refused before the handler runs; the tab forgets its token whatever the answer.
Logout(t) ==
    /\ access[t] # NoSession
    /\ \E expired \in BOOLEAN :
         IF ~expired /\ access[t] \notin Live THEN UNCHANGED <<session, cookie>>
         ELSE /\ session' = Revoking({cookie[BrowserOf[t]]} \cup (IF expired THEN {} ELSE {access[t]}))
              /\ cookie' = [cookie EXCEPT ![BrowserOf[t]] = NoSession]
    /\ access' = [access EXCEPT ![t] = NoSession]
    /\ mishaps' = IF UnderwayIn(BrowserOf[t]) # {} THEN mishaps \cup {"tabs"} ELSE mishaps
    /\ UNCHANGED <<call, reuse>>

RevokeAll(spared, why) ==
    /\ session' = Revoking(Live \ spared)
    /\ mishaps' = mishaps \cup {why}
    /\ UNCHANGED <<cookie, access, call, reuse>>

\* Changing the password spares the session that does it; a reset, another role, a
\* block or "sign out everywhere" spares none.
ChangePassword(t) == access[t] \in Live /\ RevokeAll({access[t]}, "changed")
RevokedElsewhere == RevokeAll({}, "revoked")

-----------------------------------------------------------------------------
SessionsInit ==
    /\ session = [n \in Numbers |-> "none"]
    /\ cookie = [b \in Browsers |-> NoSession]
    /\ access = [t \in Tabs |-> NoSession]
    /\ call = [c \in Calls |-> NoCall]
    /\ reuse = FALSE
    /\ mishaps = {}

Serve(c) == Read(c) \/ RevokeReused(c) \/ Rotate(c) \/ Issue(c) \/ Receive(c)

SessionsNext ==
    \/ \E t \in Tabs : Login(t) \/ Logout(t) \/ ChangePassword(t) \/ \E c \in Calls : Send(c, t)
    \/ \E c \in Calls : Serve(c) \/ Lose(c)
    \/ RevokedElsewhere

SessionsSpec == SessionsInit /\ [][SessionsNext]_sessionVars

-----------------------------------------------------------------------------
SessionsTypeOK ==
    /\ session \in [Numbers -> {"none", "live", "revoked"}]
    /\ cookie \in [Browsers -> 0..MaxSessions] /\ access \in [Tabs -> 0..MaxSessions]
    /\ \A c \in Calls : call[c].at \in {"none", "sent", "reused", "rotate", "issue", "answered"}

\* Devices and requests that take turns never look like a theft (auth.service.ts:118):
\* however many browsers sign in, refresh and sign out, a token is only seen again
\* after it was revoked when two tabs of one browser overlapped, an answer was lost, or
\* sessions were revoked from elsewhere.
ReuseHasACause == reuse => mishaps # {}

\* The cookie a quiet browser holds can always be exchanged: rotation leaves no
\* browser behind with a dead token.
CookieStaysGood ==
    \A b \in Browsers :
        mishaps = {} /\ UnderwayIn(b) = {} /\ cookie[b] # NoSession => session[cookie[b]] = "live"

\* "A rotated token came back -> it was stolen" (auth.service.ts:118).
NoFalseAlarm == ~reuse

\* Changing the password keeps this session (auth.service.ts:196): that alone does not
\* end in every device being signed out.
ChangeKeepsDevice == reuse => mishaps # {"changed"}

\* Who signs out is signed out: the browser has no session to come back to
\* (auth.controller.ts:58).
LogoutEnds ==
    [][\A t \in Tabs : access[t] # NoSession /\ access'[t] = NoSession /\ call' = call
                         => cookie'[BrowserOf[t]] = NoSession]_sessionVars
=============================================================================
