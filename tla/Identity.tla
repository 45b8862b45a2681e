------------------------------ MODULE Identity ------------------------------
(***************************************************************************)
(* Accounts and refresh tokens of one organisation                         *)
(* (identity/service.py over identity/store.py).                           *)
(*                                                                         *)
(* Every route runs its service call in a worker thread, so calls          *)
(* interleave between their store operations.  A store operation is atomic *)
(* (a file lock); what an update writes is the whole record, as the call   *)
(* read it and changed it.                                                 *)
(***************************************************************************)
EXTENDS Naturals, Sequences, FiniteSets

CONSTANTS
    Users,       \* members of the organisation
    Requests,    \* service calls under way at a time
    MaxTokens,   \* bound: refresh tokens there have been
    MaxChanges   \* bound: account operations

ASSUME IdentityAssumption == MaxTokens \in Nat /\ MaxChanges \in Nat

VARIABLES
    account,   \* [Users -> record in users.json]
    token,     \* the records of refresh_tokens.json; a token is its number
    request,   \* [Requests -> the call: where it is and what it has read]
    changes,
    chainOf,   \* history variable: [number -> first token of its rotation chain]
    crossed,   \* history variable: two account operations have overlapped
    reopened,  \* history variable: members given a token by a change of password while
               \* disabled, until their tokens are revoked
    replayed   \* history variable: chains with an answered "reuse" verdict

identityVars == <<account, token, request, changes, chainOf, crossed, reopened, replayed>>

NoToken == [id |-> 0, user |-> "none", revoked |-> FALSE, next |-> 0]
NoAccount == [status |-> "deleted", admin |-> FALSE]
Idle == [at |-> "idle", rec |-> NoToken, user |-> "none", was |-> NoAccount, op |-> "none",
         todo |-> <<>>]

IdentityInit ==
    /\ account = [u \in Users |-> [status |-> "active", admin |-> TRUE]]
    /\ token = <<>> /\ chainOf = <<>>
    /\ request = [r \in Requests |-> Idle]
    /\ changes = 0 /\ crossed = FALSE /\ reopened = {} /\ replayed = {}

Is(r, st) == request[r].at = st
Goes(r, st) == request' = [request EXCEPT ![r].at = st]
Ends(r) == request' = [request EXCEPT ![r] = Idle]
TokensKeep == UNCHANGED <<token, chainOf, replayed>>
AccountsKeep == UNCHANGED <<account, changes, crossed, reopened>>

Alive(t) == ~token[t].revoked
\* RefreshTokenStore.update with the record a call holds, revoked.
WritesRevoked(rec) == token' = [token EXCEPT ![rec.id] = [rec EXCEPT !.revoked = TRUE]]

NewToken(chain) ==
    /\ Len(token) < MaxTokens
    /\ chainOf' = Append(chainOf, IF chain = 0 THEN Len(token) + 1 ELSE chain)

NewRecord(u) == [id |-> Len(token) + 1, user |-> u, revoked |-> FALSE, next |-> 0]

-----------------------------------------------------------------------------
(* rotate_refresh_token.                                                   *)

\* A rotated token that comes back starts the walk along its chain.
RotateRead(r, t) ==
    /\ Is(r, "idle") /\ t \in DOMAIN token
    /\ ~token[t].revoked \/ token[t].next # 0
    /\ request' = [request EXCEPT ![r].rec = token[t],
                                  ![r].at = IF token[t].revoked THEN "chain" ELSE "check",
                                  ![r].op = IF token[t].revoked THEN "reuse" ELSE "rotate"]
    /\ TokensKeep /\ AccountsKeep

RotateCheckUser(r) ==
    /\ Is(r, "check")
    /\ Goes(r, IF account[request[r].rec.user].status = "active" THEN "swap" ELSE "refuse")
    /\ TokensKeep /\ AccountsKeep

RotateRefuse(r) ==
    /\ Is(r, "refuse") /\ WritesRevoked(request[r].rec) /\ Ends(r)
    /\ UNCHANGED <<chainOf, replayed>> /\ AccountsKeep

\* JsonFileRefreshTokenStore.rotate: compare and swap under the lock.
Swapped(r) ==
    LET old == request[r].rec.id IN
    /\ NewToken(chainOf[old])
    /\ token' = Append([token EXCEPT ![old].revoked = TRUE, ![old].next = Len(token) + 1],
                       NewRecord(request[r].rec.user))

Swap_WithoutLooking(r) ==
    /\ Swapped(r) /\ Ends(r)

Swap(r) ==
    \/ Alive(request[r].rec.id) /\ Swapped(r) /\ Ends(r)
    \/ /\ ~Alive(request[r].rec.id)
       /\ request' = [request EXCEPT ![r].at = "chain", ![r].op = "reuse"]
       /\ UNCHANGED <<token, chainOf>>

RotateSwap(r) == Is(r, "swap") /\ Swap(r) /\ UNCHANGED replayed /\ AccountsKeep

\* _revoke_chain, one get or update at a time, from the record the call holds.
ChainStep(r) ==
    /\ Is(r, "chain")
    /\ LET next == request[r].rec.next IN
       IF next = 0
       THEN /\ Ends(r) /\ UNCHANGED <<token, chainOf>>
            /\ replayed' = replayed \cup {chainOf[request[r].rec.id]}
       ELSE /\ request' = [request EXCEPT ![r].rec = token[next],
                                          ![r].at = IF Alive(next) THEN "kill" ELSE "chain"]
            /\ TokensKeep
    /\ AccountsKeep

ChainKill(r) ==
    /\ Is(r, "kill") /\ WritesRevoked(request[r].rec) /\ Goes(r, "chain")
    /\ UNCHANGED <<chainOf, replayed>> /\ AccountsKeep

(* revoke_refresh_token: logout.                                           *)

LogoutRead(r, t) ==
    /\ Is(r, "idle") /\ t \in DOMAIN token /\ Alive(t)
    /\ request' = [request EXCEPT ![r].rec = token[t], ![r].at = "logout"]
    /\ TokensKeep /\ AccountsKeep

LogoutWrite(r) ==
    /\ Is(r, "logout") /\ WritesRevoked(request[r].rec) /\ Ends(r)
    /\ UNCHANGED <<chainOf, replayed>> /\ AccountsKeep

-----------------------------------------------------------------------------
(* Account operations: read the record, guard, then the writes in order.   *)

\* The writes, in order; "revoke" is revoke_all_for_user.  A change of password looks at
\* the password, not at the status, and is answered with a new token.
Plan(op) ==
    IF op = "disable" THEN <<"write", "revoke">>
    ELSE IF op = "password" THEN <<"write", "revoke", "issue">>
    ELSE IF op = "delete" THEN <<"revoke", "erase">>
    ELSE IF op = "login" THEN <<"issue">> ELSE <<"write">>

Operations == {"demote", "promote", "disable", "enable", "password", "delete", "login"}

\* What the call makes of the record it has read.
Changed(op, was) ==
    [was EXCEPT !.admin = IF op = "demote" THEN FALSE ELSE IF op = "promote" THEN TRUE ELSE @,
                !.status = IF op = "disable" THEN "disabled" ELSE IF op = "enable" THEN "active" ELSE @]

StartOperation(r, u, op) ==
    /\ Is(r, "idle") /\ changes < MaxChanges /\ changes' = changes + 1
    /\ account[u].status # "deleted"
    /\ request' = [request EXCEPT ![r] = [Idle EXCEPT !.at = "guard", !.user = u, !.op = op,
                                                      !.was = account[u], !.todo = Plan(op)]]
    /\ crossed' = (crossed \/ \E q \in Requests : request[q].todo # <<>>)
    /\ UNCHANGED <<account, reopened>> /\ TokensKeep

\* _guard_last_admin counts the admins before anything is written.
ActiveAdmins == {u \in Users : account[u].admin /\ account[u].status = "active"}

LastAdmin(u) == Cardinality(ActiveAdmins) <= 1 /\ u \in ActiveAdmins

\* A login that read the record before a change of status goes on with what it read.
Guarded(r) ==
    LET c == request[r] IN
    /\ c.op \in {"demote", "disable", "delete"} /\ c.was.admin => ~LastAdmin(c.user)
    /\ c.op = "login" => c.was.status = "active"

Guard(r) ==
    /\ Is(r, "guard")
    /\ \/ Guarded(r) /\ Goes(r, "write")
       \/ ~Guarded(r) /\ Ends(r)
    /\ TokensKeep /\ AccountsKeep

\* The head of the plan; the last one answers the request.
Do(r, what) ==
    /\ Is(r, "write") /\ Head(request[r].todo) = what
    /\ IF Len(request[r].todo) = 1 THEN Ends(r)
       ELSE request' = [request EXCEPT ![r].todo = Tail(@)]

WriteAccount(r) ==
    /\ Do(r, "write")
    /\ account' = [account EXCEPT ![request[r].user] = Changed(request[r].op, request[r].was)]
    /\ UNCHANGED <<changes, crossed, reopened>> /\ TokensKeep

EraseAccount(r) ==
    /\ Do(r, "erase")
    /\ account' = [account EXCEPT ![request[r].user] = NoAccount]
    /\ UNCHANGED <<changes, crossed, reopened>> /\ TokensKeep

RevokeAll(r) ==
    /\ Do(r, "revoke")
    /\ token' = [t \in DOMAIN token |-> IF token[t].user = request[r].user
                                        THEN [token[t] EXCEPT !.revoked = TRUE] ELSE token[t]]
    /\ reopened' = reopened \ {request[r].user}
    /\ UNCHANGED <<chainOf, replayed, account, changes, crossed>>

\* issue_refresh_token, after a login or a change of password.
IssueToken(r) ==
    LET u == request[r].user IN
    /\ Do(r, "issue")
    /\ NewToken(0)
    /\ token' = Append(token, NewRecord(u))
    /\ reopened' = reopened \cup
          (IF request[r].op = "password" /\ account[u].status = "disabled" THEN {u} ELSE {})
    /\ UNCHANGED <<replayed, account, changes, crossed>>

-----------------------------------------------------------------------------

IdentityNext ==
    \E r \in Requests :
        \/ \E t \in 1 .. MaxTokens : RotateRead(r, t) \/ LogoutRead(r, t)
        \/ RotateCheckUser(r) \/ RotateRefuse(r) \/ RotateSwap(r) \/ ChainStep(r)
        \/ ChainKill(r) \/ LogoutWrite(r)
        \/ \E u \in Users, op \in Operations : StartOperation(r, u, op)
        \/ Guard(r) \/ WriteAccount(r) \/ EraseAccount(r) \/ RevokeAll(r) \/ IssueToken(r)

IdentitySpec == IdentityInit /\ [][IdentityNext]_identityVars

-----------------------------------------------------------------------------
(* Properties.                                                             *)

LiveToken(t) == t \in DOMAIN token /\ Alive(t)

\* A chain of rotations never has two live tokens, whatever rotations, replays and
\* logouts of its tokens overlap.
OneLivePerChain ==
    \A s, t \in DOMAIN token : LiveToken(s) /\ LiveToken(t) /\ chainOf[s] = chainOf[t] => s = t

\* Once a member is disabled and the call has answered, none of their refresh tokens is
\* live, whatever rotations ran meanwhile, except one that a later change of their password
\* has handed out (account operations one at a time).
Quiet == ~crossed /\ \A r \in Requests : request[r].todo = <<>>
DisabledHasNoSession ==
    Quiet => \A t \in DOMAIN token :
        LiveToken(t) => account[token[t].user].status # "disabled" \/ token[t].user \in reopened

\* identity/service.py:583-584 and 503 without that exception: to disable an account ends
\* its sessions and blocks new ones.
DisabledStaysOut ==
    Quiet => \A t \in DOMAIN token : LiveToken(t) => account[token[t].user].status # "disabled"

\* identity/service.py:234 takes a "reuse" verdict of the swap for a replay and kills
\* the whole chain.  The record it walks from was read while the token was live and names
\* no successor, so the successor stays live.
ReplayKillsChain ==
    \A t \in DOMAIN token : chainOf[t] \in replayed => ~LiveToken(t)
=============================================================================
