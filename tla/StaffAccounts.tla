---------------------------- MODULE StaffAccounts ----------------------------
(***************************************************************************)
(* Staff managing each other's accounts: roles, disabling and blocking,    *)
(* and the rule that an owner must remain.                                 *)
(*                                                                         *)
(* Each request reads its target and counts the other owners before the    *)
(* transaction that writes, so two requests may rely on each other.        *)
(* Abstracted: creation, names, passwords and preferences; the roles below *)
(* ADMIN are one.  A role is what its holder's token says; a change of     *)
(* role revokes the tokens, a few seconds of cache aside.                  *)
(***************************************************************************)
EXTENDS FiniteSets

CONSTANT Staff

VARIABLES
    role,        \* users.role
    status,      \* users.status
    request,     \* per member of staff: what the open request has read
    overlapped   \* two requests that may remove an owner overlapped (history)

staffVars == <<role, status, request, overlapped>>

-----------------------------------------------------------------------------
Roles == {"OWNER", "ADMIN", "SUPPORT"}
NoRequest == [op |-> "none", target |-> "none", to |-> "none"]
High == {"OWNER", "ADMIN"}

\* Variant: the target counts itself.
OtherOwnersAll(u) == {v \in Staff : role[v] = "OWNER" /\ status[v] = "ACTIVE"}

\* assertNotLastOwner
OtherOwners(u) == {v \in Staff \ {u} : role[v] = "OWNER" /\ status[v] = "ACTIVE"}

MayManage(a) == role[a] \in High /\ status[a] = "ACTIVE" /\ request[a] = NoRequest
Removes(q) == \/ q.op = "status" /\ q.to # "ACTIVE"
              \/ q.op = "role" /\ q.to # "OWNER"

Open(a, op, u, to) ==
    LET q == [op |-> op, target |-> u, to |-> to] IN
        /\ request' = [request EXCEPT ![a] = q]
        /\ overlapped' = (overlapped \/ (Removes(q) /\ \E b \in Staff : Removes(request[b])))
        /\ UNCHANGED <<role, status>>

\* changeRole: only an owner makes owners and admins.
StartChangeRole(a, u, r) ==
    /\ MayManage(a)
    /\ r \in High => role[a] = "OWNER"
    /\ role[u] = "OWNER" /\ r # "OWNER" => OtherOwners(u) # {}
    /\ Open(a, "role", u, r)

\* setEnabled and setAccess; the second is the owner's alone for owners and admins.
StartSetStatus(a, u, s) ==
    /\ MayManage(a) /\ a # u
    /\ s = "SUSPENDED" /\ role[u] \in High => role[a] = "OWNER"
    /\ s # "ACTIVE" /\ role[u] = "OWNER" => OtherOwners(u) # {}
    /\ Open(a, "status", u, s)

Finish(a) ==
    /\ request[a].op # "none"
    /\ LET q == request[a] IN
         /\ role' = IF q.op = "role" THEN [role EXCEPT ![q.target] = q.to] ELSE role
         /\ status' = IF q.op = "status" THEN [status EXCEPT ![q.target] = q.to] ELSE status
    /\ request' = [request EXCEPT ![a] = NoRequest]
    /\ UNCHANGED overlapped

-----------------------------------------------------------------------------
StaffInit ==
    /\ role \in [Staff -> Roles]
    /\ status = [u \in Staff |-> "ACTIVE"]
    /\ \E u \in Staff : role[u] = "OWNER"
    /\ request = [a \in Staff |-> NoRequest]
    /\ overlapped = FALSE

StaffNext ==
    \E a \in Staff :
        \/ Finish(a)
        \/ \E u \in Staff :
             \/ \E r \in Roles : StartChangeRole(a, u, r)
             \/ \E s \in {"ACTIVE", "DISABLED", "SUSPENDED"} : StartSetStatus(a, u, s)

StaffSpec == StaffInit /\ [][StaffNext]_staffVars

-----------------------------------------------------------------------------
StaffTypeOK ==
    /\ role \in [Staff -> Roles]
    /\ status \in [Staff -> {"ACTIVE", "DISABLED", "SUSPENDED"}]

AnOwnerRemains == \E u \in Staff : role[u] = "OWNER" /\ status[u] = "ACTIVE"

\* "The last owner account cannot be removed" (staff.service.ts:150): as long as such
\* requests take turns, whatever is promoted, demoted, disabled or blocked in between.
OwnerSurvivesTurns == overlapped \/ AnOwnerRemains
=============================================================================
