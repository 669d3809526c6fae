----------------------------- MODULE SupportChat -----------------------------
(***************************************************************************)
(* A customer's support threads, written to by the customer's tabs and by  *)
(* staff: messages, unread counters, states, assignment.                   *)
(*                                                                         *)
(* A request reads the conversation, decides, and writes it in a           *)
(* transaction that does not look again; the counters are incremented in   *)
(* the row.  Reading a thread is two statements, the messages first.       *)
(* Abstracted: texts, names, canned replies, guests (whose token names one *)
(* thread), the live stream, whose events only make pages read again.      *)
(***************************************************************************)
EXTENDS Naturals, FiniteSets, FiniteSetsExt

CONSTANTS
    Threads,      \* conversations that may ever exist, numbered
    ChatTabs,     \* the customer's
    Agents,       \* staff
    MaxMessages   \* bound: messages of the customer

ASSUME ChatAssumption == Threads \subseteq Nat \ {0} /\ MaxMessages \in Nat

VARIABLES
    thread,   \* conversations: status, assignee, unread_by_staff, closed_at set or not
    unread,   \* messages of the customer staff have neither read nor closed the thread over
    asks,     \* per tab: its open request
    does,     \* per agent: the open request
    written   \* messages of the customer so far

chatVars == <<thread, unread, asks, does, written>>

-----------------------------------------------------------------------------
OpenStates == {"OPEN", "PENDING"}
ClosedStates == {"RESOLVED", "CLOSED"}
NoThread == [status |-> "none", assignee |-> "none", badge |-> 0, stamped |-> FALSE]
Quiet == [at |-> "none", on |-> 0, to |-> "none", reopens |-> FALSE, takes |-> FALSE, seen |-> 0]

OpenThreads == {t \in Threads : thread[t].status \in OpenStates}
Existing == {t \in Threads : thread[t].status # "none"}

\* TRANSITIONS
Allowed(from, to) ==
    CASE to = "PENDING"  -> from = "OPEN"
      [] to = "RESOLVED" -> from \in OpenStates
      [] to = "CLOSED"   -> from \in OpenStates \cup {"RESOLVED"}
      [] to = "OPEN"     -> from \in ClosedStates

\* The partial unique index on open conversations of a customer.
FitsIndex(t, status) == status \in OpenStates => OpenThreads \subseteq {t}

\* post's caller has read the thread.
Asking(t) == [Quiet EXCEPT !.at = "post", !.on = t, !.reopens = thread[t].status \in ClosedStates]

\* start: an open thread, or none yet.
Start(c) ==
    /\ asks[c] = Quiet
    /\ \/ \E t \in OpenThreads : asks' = [asks EXCEPT ![c] = Asking(t)]
       \/ OpenThreads = {} /\ asks' = [asks EXCEPT ![c] = [Quiet EXCEPT !.at = "create"]]
    /\ UNCHANGED <<thread, unread, does, written>>

\* A tab that came second takes the thread of the first.
Create(c) ==
    /\ asks[c].at = "create"
    /\ \/ /\ OpenThreads = {} /\ Existing # Threads
          /\ LET t == Min(Threads \ Existing) IN
               /\ thread' = [thread EXCEPT ![t].status = "OPEN"]
               /\ asks' = [asks EXCEPT ![c] = [Quiet EXCEPT !.at = "post", !.on = t]]
       \/ /\ \E t \in OpenThreads : asks' = [asks EXCEPT ![c] = Asking(t)]
          /\ UNCHANGED thread
    /\ UNCHANGED <<unread, does, written>>

\* send, to a thread the page knows, whatever its state.
ReadToSend(c, t) ==
    /\ asks[c] = Quiet /\ t \in Existing
    /\ asks' = [asks EXCEPT ![c] = Asking(t)]
    /\ UNCHANGED <<thread, unread, does, written>>

\* post, for the customer: the thread is open again, or the message is refused because
\* another one is.
PostQuestion(c) ==
    /\ asks[c].at = "post" /\ written < MaxMessages
    /\ LET t == asks[c].on IN
         IF FitsIndex(t, "OPEN")
         THEN /\ thread' = [thread EXCEPT ![t].status = "OPEN", ![t].badge = @ + 1,
                                          ![t].stamped = @ /\ ~asks[c].reopens]
              /\ unread' = [unread EXCEPT ![t] = @ + 1]
              /\ written' = written + 1
         ELSE UNCHANGED <<thread, unread, written>>
    /\ asks' = [asks EXCEPT ![c] = Quiet]
    /\ UNCHANGED does

\* What an agent's request keeps of the thread it read.
Agreed(a, t, at, to) ==
    /\ does[a] = Quiet /\ t \in Existing
    /\ does' = [does EXCEPT ![a] = [Quiet EXCEPT !.at = at, !.on = t, !.to = to,
                      !.takes = at = "reply" /\ thread[t].assignee = "none"]]
    /\ UNCHANGED <<thread, unread, asks, written>>

\* reply: an open thread becomes a pending one, any other stays what it is.
StartReply(a, t) == Agreed(a, t, "reply", IF thread[t].status = "OPEN" THEN "PENDING" ELSE thread[t].status)
StartMove(a, t, to) == Allowed(thread[t].status, to) /\ Agreed(a, t, "move", to)

\* post, for staff; a thread that had nobody is taken.
PostReply(a) ==
    /\ does[a].at = "reply"
    /\ LET t == does[a].on  to == does[a].to IN
         thread' = IF FitsIndex(t, to)
                   THEN [thread EXCEPT ![t].status = to,
                                       ![t].assignee = IF does[a].takes THEN a ELSE @]
                   ELSE thread
    /\ does' = [does EXCEPT ![a] = Quiet]
    /\ UNCHANGED <<unread, asks, written>>

\* transition
Move(a) ==
    /\ does[a].at = "move"
    /\ LET t == does[a].on  to == does[a].to IN
         IF FitsIndex(t, to)
         THEN /\ thread' = [thread EXCEPT ![t].status = to,
                                          ![t].badge = IF to \in ClosedStates THEN 0 ELSE @,
                                          ![t].stamped = IF to = "PENDING" THEN @ ELSE to \in ClosedStates]
              /\ unread' = [unread EXCEPT ![t] = IF to \in ClosedStates THEN 0 ELSE @]
         ELSE UNCHANGED <<thread, unread>>
    /\ does' = [does EXCEPT ![a] = Quiet]
    /\ UNCHANGED <<asks, written>>

\* assign, to oneself or to nobody.
Assign(a, t, to) ==
    /\ does[a] = Quiet /\ t \in Existing
    /\ thread' = [thread EXCEPT ![t].assignee = to]
    /\ UNCHANGED <<unread, asks, does, written>>

Reading(t) == {a \in Agents : does[a].at = "read" /\ does[a].on = t}

\* markRead: the messages there are ...
MarkMessages(a, t) ==
    /\ does[a] = Quiet /\ t \in Existing /\ Reading(t) = {}
    /\ does' = [does EXCEPT ![a] = [Quiet EXCEPT !.at = "read", !.on = t, !.seen = unread[t]]]
    /\ UNCHANGED <<thread, unread, asks, written>>

\* Variant: the counter is left to the next message.
MarkOnly(a) ==
    /\ does[a].at = "read"
    /\ LET t == does[a].on IN
         unread' = [unread EXCEPT ![t] = IF @ > does[a].seen THEN @ - does[a].seen ELSE 0]
    /\ does' = [does EXCEPT ![a] = Quiet]
    /\ UNCHANGED <<thread, asks, written>>

\* ... then the counter.
ResetCounter(a) ==
    /\ does[a].at = "read"
    /\ LET t == does[a].on IN
         /\ thread' = [thread EXCEPT ![t].badge = 0]
         /\ unread' = [unread EXCEPT ![t] = IF @ > does[a].seen THEN @ - does[a].seen ELSE 0]
    /\ does' = [does EXCEPT ![a] = Quiet]
    /\ UNCHANGED <<asks, written>>

-----------------------------------------------------------------------------
ChatInit ==
    /\ thread = [t \in Threads |-> NoThread]
    /\ unread = [t \in Threads |-> 0]
    /\ asks = [c \in ChatTabs |-> Quiet]
    /\ does = [a \in Agents |-> Quiet]
    /\ written = 0

ChatNext ==
    \/ \E c \in ChatTabs : Start(c) \/ Create(c) \/ PostQuestion(c) \/ \E t \in Threads : ReadToSend(c, t)
    \/ \E a \in Agents :
         \/ PostReply(a) \/ Move(a) \/ ResetCounter(a)
         \/ \E t \in Threads :
              \/ StartReply(a, t) \/ MarkMessages(a, t)
              \/ \E to \in {a, "none"} : Assign(a, t, to)
              \/ \E to \in {"PENDING", "RESOLVED", "CLOSED", "OPEN"} : StartMove(a, t, to)

ChatSpec == ChatInit /\ [][ChatNext]_chatVars

-----------------------------------------------------------------------------
ChatTypeOK ==
    /\ thread \in [Threads -> [status : OpenStates \cup ClosedStates \cup {"none"},
                               assignee : Agents \cup {"none"}, badge : 0..MaxMessages, stamped : BOOLEAN]]
    /\ unread \in [Threads -> 0..MaxMessages]
    /\ written \in 0..MaxMessages

\* The inbox never shows more unread messages than there are: marking the messages
\* before the counter (inbox.service.ts:132) loses no message to a counter that stays.
BadgeNotOverstated == \A t \in Threads : thread[t].badge <= unread[t]

\* ... and never hides one: a message that waits in an open thread is counted.
BadgeNotUnderstated ==
    \A t \in Threads : Reading(t) = {} /\ unread[t] > 0 => thread[t].badge > 0

\* "A resolved/closed thread reopens" on a message (conversation-rules.ts:46), and only
\* a transition closes it again.
RepliesDoNotClose ==
    [][\A a \in Agents, t \in Threads :
         does[a].at = "reply" /\ does'[a] = Quiet /\ thread[t].status \in OpenStates
            => thread'[t].status \in OpenStates]_chatVars

\* closed_at is set while a thread is closed, and only then.
StampFitsStatus == \A t \in Threads : thread[t].stamped <=> thread[t].status \in ClosedStates

\* A reply takes a thread that nobody has (inbox.service.ts:125).
AssigneeKept ==
    [][\A a \in Agents, t \in Threads :
         does[a].at = "reply" /\ does'[a] = Quiet /\ thread[t].assignee # "none"
            => thread'[t].assignee = thread[t].assignee]_chatVars
=============================================================================
