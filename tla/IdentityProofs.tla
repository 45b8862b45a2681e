--------------------------- MODULE IdentityProofs ---------------------------
(***************************************************************************)
(* A chain of token rotations never has two live tokens, and a disabled    *)
(* member has none, for any number of members, overlapping calls and       *)
(* tokens.  The argument: a call that holds a record can only write it     *)
(* back revoked, and the one step that adds a live token to a chain, the   *)
(* swap, revokes the live one in the same step.                            *)
(***************************************************************************)
EXTENDS Identity, TLAPS, SequenceTheorems

USE IdentityAssumption

Someone == Users \cup {"none"}
Tokens == [id : Nat, user : Someone, revoked : BOOLEAN, next : Nat]
Accounts == [status : {"active", "disabled", "deleted"}, admin : BOOLEAN]
Places == {"idle", "check", "swap", "refuse", "chain", "kill", "logout", "guard", "write"}
Writes == {"write", "revoke", "erase", "issue"}
CallRecords == {c \in [at : Places, rec : Tokens, user : Someone, was : Accounts,
                       op : Operations \cup {"none", "rotate", "reuse"}, todo : Seq(Writes)] :
                   c.at \in {"guard", "write"} => c.todo # <<>>}

IdentityTypes ==
    /\ token \in Seq(Tokens) /\ chainOf \in Seq(Nat) /\ Len(chainOf) = Len(token)
    /\ request \in [Requests -> CallRecords] /\ account \in [Users -> Accounts]

\* A record names itself and at most a token that exists; so does a record a call holds.
Named(rec) == rec.id \in DOMAIN token /\ rec.next \in 0 .. Len(token)
Holds == {"check", "swap", "refuse", "chain", "kill", "logout"}
NamesOK ==
    /\ \A t \in DOMAIN token : token[t].id = t /\ token[t].next \in 0 .. Len(token)
    /\ \A t \in DOMAIN token : chainOf[t] \in 1 .. t
    /\ \A r \in Requests : request[r].at \in Holds => Named(request[r].rec)

IdentityInv == IdentityTypes /\ NamesOK /\ OneLivePerChain

-----------------------------------------------------------------------------
(* What the store operations do to the tokens.                             *)

\* Revoking tokens where they stand adds no live one.
LEMMA RevokingKeeps ==
    ASSUME IdentityInv, token' \in Seq(Tokens), Len(token') = Len(token), UNCHANGED chainOf,
           \A t \in DOMAIN token : /\ token'[t].revoked \/ token'[t] = token[t]
                                   /\ token'[t].id = t /\ token'[t].next \in 0 .. Len(token)
    PROVE  /\ OneLivePerChain'
           /\ \A t \in DOMAIN token' : token'[t].id = t /\ token'[t].next \in 0 .. Len(token')
           /\ \A t \in DOMAIN token' : chainOf'[t] \in 1 .. t
           /\ Len(chainOf') = Len(token')
<1>1. DOMAIN token' = DOMAIN token
    BY DEF IdentityInv, IdentityTypes
<1> QED
    BY <1>1 DEF IdentityInv, IdentityTypes, NamesOK, OneLivePerChain, LiveToken, Alive

\* Writing back a held record, revoked.
LEMMA WritingKeeps ==
    ASSUME IdentityInv, NEW rec \in Tokens, Named(rec), WritesRevoked(rec), UNCHANGED chainOf
    PROVE  /\ token' \in Seq(Tokens) /\ Len(token') = Len(token) /\ OneLivePerChain'
           /\ \A t \in DOMAIN token' : token'[t].id = t /\ token'[t].next \in 0 .. Len(token')
           /\ \A t \in DOMAIN token' : chainOf'[t] \in 1 .. t
           /\ Len(chainOf') = Len(token')
<1>1. [rec EXCEPT !.revoked = TRUE] \in Tokens
    BY DEF Tokens
<1>2. token' \in Seq(Tokens) /\ Len(token') = Len(token)
    BY <1>1 DEF WritesRevoked, Named, IdentityInv, IdentityTypes
<1>3. \A t \in DOMAIN token : /\ token'[t].revoked \/ token'[t] = token[t]
                              /\ token'[t].id = t /\ token'[t].next \in 0 .. Len(token)
    BY DEF WritesRevoked, Named, IdentityInv, IdentityTypes, NamesOK, Tokens
<1> QED BY <1>2, <1>3, RevokingKeeps

\* What a call that changes nothing but its own standing preserves.
LEMMA RequestFrame ==
    ASSUME IdentityInv, TokensKeep, account' \in [Users -> Accounts],
           request' \in [Requests -> CallRecords],
           \A r \in Requests : request'[r].at \in Holds => Named(request'[r].rec)
    PROVE  IdentityInv'
BY DEF IdentityInv, IdentityTypes, NamesOK, Named, TokensKeep, OneLivePerChain, LiveToken, Alive
LEMMA IdleRecord == Idle \in CallRecords
<1>1. NoToken \in Tokens
    BY DEF NoToken, Tokens, Someone
<1>2. NoAccount \in Accounts
    BY DEF NoAccount, Accounts
<1>3. <<>> \in Seq(Writes)
    OBVIOUS
<1>4. "none" \in Someone /\ "idle" \in Places
    BY DEF Someone, Places
<1> QED BY <1>1, <1>2, <1>3, <1>4 DEF Idle, CallRecords

LEMMA EndKeepsRequests ==
    ASSUME IdentityInv, NEW r \in Requests, Ends(r)
    PROVE  /\ request' \in [Requests -> CallRecords]
           /\ \A q \in Requests : request'[q].at \in Holds => q # r /\ request'[q] = request[q]
<1> QED
    BY IdleRecord DEF Ends, IdentityInv, IdentityTypes, Holds, Idle

LEMMA GoKeepsRequests ==
    ASSUME IdentityInv, NEW r \in Requests, NEW st \in Places, Goes(r, st),
           st \in {"guard", "write"} => request[r].at = "guard"
    PROVE  /\ request' \in [Requests -> CallRecords]
           /\ \A q \in Requests : /\ q # r => request'[q] = request[q]
                                  /\ request'[q].rec = request[q].rec
                                  /\ request'[r].at = st
BY DEF Goes, IdentityInv, IdentityTypes, CallRecords

\* A live token in a new chain, or in place of the chain's live one.
LEMMA AddingKeeps ==
    ASSUME IdentityInv, NEW chain \in 0 .. Len(token), NEW old \in 0 .. Len(token), NEW u \in Someone,
           NewToken(chain),
           \/ chain = 0 /\ token' = Append(token, NewRecord(u))
           \/ /\ chain # 0 /\ old # 0 /\ chain = chainOf[old] /\ Alive(old)
              /\ token' = Append([token EXCEPT ![old].revoked = TRUE, ![old].next = Len(token) + 1],
                                 NewRecord(u))
    PROVE  /\ token' \in Seq(Tokens) /\ Len(token') = Len(token) + 1 /\ OneLivePerChain'
           /\ \A t \in DOMAIN token' : token'[t].id = t /\ token'[t].next \in 0 .. Len(token')
           /\ \A t \in DOMAIN token' : chainOf'[t] \in 1 .. t
           /\ Len(chainOf') = Len(token') /\ chainOf' \in Seq(Nat)
<1> DEFINE n == Len(token) + 1
           before == IF chain = 0 THEN token
                     ELSE [token EXCEPT ![old].revoked = TRUE, ![old].next = n]
           link == IF chain = 0 THEN n ELSE chain
<1>1. n \in Nat /\ n \notin DOMAIN token /\ NewRecord(u) \in Tokens
      /\ NewRecord(u).id = n /\ NewRecord(u).next = 0 /\ link \in 1 .. n
    BY DEF IdentityInv, IdentityTypes, NewRecord, Tokens
<1>2. before \in Seq(Tokens) /\ Len(before) = Len(token)
      /\ \A t \in DOMAIN token : /\ before[t].id = t /\ before[t].next \in 0 .. n
                                 /\ ~before[t].revoked => ~token[t].revoked /\ (chain # 0 => t # old)
    <2>1. \A t \in DOMAIN token : /\ token[t] \in Tokens /\ token[t].id = t
                                  /\ token[t].next \in 0 .. Len(token)
        BY DEF IdentityInv, IdentityTypes, NamesOK
    <2>2. CASE chain = 0
        BY <2>1, <2>2 DEF IdentityInv, IdentityTypes
    <2>3. CASE chain # 0
        <3>1. old \in DOMAIN token /\ token[old] \in Tokens
            BY <2>1, <2>3 DEF IdentityInv, IdentityTypes
        <3> DEFINE gone == [token[old] EXCEPT !.revoked = TRUE, !.next = n]
        <3>2. gone \in Tokens /\ gone.revoked /\ gone.id = token[old].id /\ gone.next = n
            BY <1>1, <3>1 DEF Tokens
        <3>3. before = [token EXCEPT ![old] = gone]
            BY <2>3, <3>1 DEF IdentityInv, IdentityTypes, Tokens
        <3> HIDE DEF before, gone
        <3> QED
            BY <1>1, <2>1, <3>1, <3>2, <3>3 DEF IdentityInv, IdentityTypes
    <2> QED BY <2>2, <2>3
<1>3. token' = Append(before, NewRecord(u)) /\ chainOf' = Append(chainOf, link)
    BY DEF NewToken
<1> HIDE DEF before
<1>4. /\ token' \in Seq(Tokens) /\ Len(token') = n /\ DOMAIN token' = DOMAIN token \cup {n}
      /\ token'[n] = NewRecord(u) /\ \A t \in DOMAIN token : token'[t] = before[t]
    BY <1>1, <1>2, <1>3 DEF IdentityInv, IdentityTypes
<1>5. /\ chainOf' \in Seq(Nat) /\ Len(chainOf') = n
      /\ chainOf'[n] = link /\ \A t \in DOMAIN token : chainOf'[t] = chainOf[t]
    BY <1>1, <1>3 DEF IdentityInv, IdentityTypes
<1>6. \A t \in DOMAIN token : ~token'[t].revoked => chainOf'[t] # link
    <2> SUFFICES ASSUME NEW t \in DOMAIN token, ~token'[t].revoked, chainOf[t] = link PROVE FALSE
        BY <1>5
    <2>1. ~token[t].revoked /\ (chain # 0 => t # old)
        BY <1>2, <1>4
    <2>2. chainOf[t] \in 1 .. t
        BY DEF IdentityInv, NamesOK
    <2>3. chain # 0
        BY <2>2 DEF IdentityInv, IdentityTypes
    <2> QED
        BY <2>1, <2>3 DEF IdentityInv, IdentityTypes, OneLivePerChain, LiveToken, Alive
<1>7. OneLivePerChain'
    <2> SUFFICES ASSUME NEW s \in DOMAIN token', NEW t \in DOMAIN token',
                        ~token'[s].revoked, ~token'[t].revoked, chainOf'[s] = chainOf'[t]
                 PROVE  s = t
        BY DEF OneLivePerChain, LiveToken, Alive
    <2>1. CASE s = n \/ t = n
        BY <1>4, <1>5, <1>6, <2>1
    <2>2. CASE s # n /\ t # n
        BY <1>2, <1>4, <1>5, <2>2 DEF IdentityInv, OneLivePerChain, LiveToken, Alive
    <2> QED BY <2>1, <2>2
<1>8. \A t \in DOMAIN token' : chainOf'[t] \in 1 .. t
    BY <1>1, <1>4, <1>5 DEF IdentityInv, NamesOK
<1>9. \A t \in DOMAIN token' : token'[t].id = t /\ token'[t].next \in 0 .. n
    BY <1>1, <1>2, <1>4
<1> QED
    BY <1>1, <1>4, <1>5, <1>7, <1>8, <1>9
-----------------------------------------------------------------------------
(* The steps.                                                              *)

LEMMA StartsSingle == IdentityInit => IdentityInv
<1> SUFFICES ASSUME IdentityInit PROVE IdentityInv
    OBVIOUS
<1>1. Idle \in CallRecords /\ Idle.at \notin Holds
    BY IdleRecord DEF Idle, Holds
<1>2. request \in [Requests -> CallRecords] /\ \A r \in Requests : request[r].at \notin Holds
    BY <1>1 DEF IdentityInit
<1>3. account \in [Users -> Accounts]
    BY DEF IdentityInit, Accounts
<1>4. token \in Seq(Tokens) /\ chainOf \in Seq(Nat) /\ Len(chainOf) = Len(token) /\ DOMAIN token = {}
    BY DEF IdentityInit
<1> QED
    BY <1>2, <1>3, <1>4 DEF IdentityInv, IdentityTypes, NamesOK, OneLivePerChain

LEMMA RotateKeeps ==
    ASSUME IdentityInv, NEW r \in Requests, NEW t \in 1 .. MaxTokens,
           RotateRead(r, t) \/ LogoutRead(r, t)
    PROVE  IdentityInv'
<1>1. t \in DOMAIN token /\ token[t] \in Tokens /\ Named(token[t])
    BY DEF RotateRead, LogoutRead, IdentityInv, IdentityTypes, NamesOK, Named
<1>2. request' \in [Requests -> CallRecords]
    <2>1. request \in [Requests -> CallRecords] /\ request[r] \in CallRecords
        BY DEF IdentityInv, IdentityTypes
    <2>2. ASSUME NEW st \in Places \ {"guard", "write"}, NEW op \in {"rotate", "reuse"}
          PROVE  /\ [request[r] EXCEPT !.rec = token[t], !.at = st] \in CallRecords
                 /\ [request[r] EXCEPT !.rec = token[t], !.at = st, !.op = op] \in CallRecords
        BY <1>1, <2>1 DEF CallRecords
    <2>3. CASE RotateRead(r, t)
        <3>1. PICK st \in {"check", "chain"}, op \in {"rotate", "reuse"} :
                  request' = [request EXCEPT ![r] = [request[r] EXCEPT !.rec = token[t], !.at = st, !.op = op]]
            BY <2>1, <2>3 DEF RotateRead, Places
        <3>2. st \in Places \ {"guard", "write"}
            BY DEF Places
        <3> QED BY <2>1, <2>2, <3>1, <3>2
    <2>4. CASE LogoutRead(r, t)
        <3>1. request' = [request EXCEPT ![r] = [request[r] EXCEPT !.rec = token[t], !.at = "logout"]]
            BY <2>1, <2>4 DEF LogoutRead
        <3> QED BY <2>1, <2>2, <3>1 DEF Places
    <2> QED BY <2>3, <2>4
<1>3. \A q \in Requests : /\ q # r => request'[q] = request[q]
                         /\ request'[r].rec = token[t]
    BY <1>1 DEF RotateRead, LogoutRead, IdentityInv, IdentityTypes, CallRecords
<1>4. TokensKeep /\ UNCHANGED account
    BY DEF RotateRead, LogoutRead, AccountsKeep
<1>5. \A q \in Requests : request'[q].at \in Holds => Named(request'[q].rec)
    BY <1>1, <1>3 DEF IdentityInv, NamesOK
<1> QED
    BY <1>2, <1>4, <1>5, RequestFrame DEF IdentityInv, IdentityTypes
LEMMA MovingKeeps ==
    ASSUME IdentityInv, NEW r \in Requests,
           RotateCheckUser(r) \/ Guard(r)
    PROVE  IdentityInv'
<1>1. TokensKeep /\ UNCHANGED account
    BY DEF RotateCheckUser, Guard, AccountsKeep
<1>2. CASE Ends(r)
    BY <1>1, <1>2, EndKeepsRequests, RequestFrame DEF IdentityInv, IdentityTypes, NamesOK
<1>3. ASSUME NEW st \in Places, Goes(r, st), st \in Holds => request[r].at \in Holds,
             st \in {"guard", "write"} => request[r].at = "guard"
      PROVE  IdentityInv'
    <2>1. /\ request' \in [Requests -> CallRecords] /\ request'[r].at = st
          /\ \A q \in Requests : (q # r => request'[q] = request[q]) /\ request'[q].rec = request[q].rec
        BY <1>3, GoKeepsRequests
    <2>2. \A q \in Requests : request'[q].at \in Holds => Named(request'[q].rec)
        BY <1>3, <2>1 DEF IdentityInv, NamesOK
    <2> QED BY <1>1, <2>1, <2>2, RequestFrame DEF IdentityInv, IdentityTypes
<1> QED
    BY <1>2, <1>3 DEF RotateCheckUser, Guard, Is, Places, Holds

\* The call writes back the record it holds.
LEMMA WriteBackKeeps ==
    ASSUME IdentityInv, NEW r \in Requests,
           RotateRefuse(r) \/ ChainKill(r) \/ LogoutWrite(r)
    PROVE  IdentityInv'
<1>1. request[r].rec \in Tokens /\ Named(request[r].rec) /\ WritesRevoked(request[r].rec)
      /\ UNCHANGED <<chainOf, account>> /\ (Ends(r) \/ Goes(r, "chain"))
      /\ request[r].at \in Holds
    BY DEF RotateRefuse, ChainKill, LogoutWrite, IdentityInv, IdentityTypes, NamesOK, AccountsKeep, Is,
           Holds, CallRecords
<1>2. /\ token' \in Seq(Tokens) /\ Len(token') = Len(token) /\ OneLivePerChain'
      /\ \A t \in DOMAIN token' : token'[t].id = t /\ token'[t].next \in 0 .. Len(token')
      /\ \A t \in DOMAIN token' : chainOf'[t] \in 1 .. t
      /\ Len(chainOf') = Len(token')
    BY <1>1, WritingKeeps
<1>3. /\ request' \in [Requests -> CallRecords]
      /\ \A q \in Requests : request'[q].at \in Holds =>
            request[q].at \in Holds /\ request'[q].rec = request[q].rec
    BY <1>1, EndKeepsRequests, GoKeepsRequests DEF Places, Holds
<1>4. \A q \in Requests : request'[q].at \in Holds =>
            request'[q].rec.id \in DOMAIN token' /\ request'[q].rec.next \in 0 .. Len(token')
    BY <1>2, <1>3 DEF IdentityInv, IdentityTypes, NamesOK, Named
<1> QED
    BY <1>1, <1>2, <1>3, <1>4 DEF IdentityInv, IdentityTypes, NamesOK, Named

LEMMA SwapKeeps ==
    ASSUME IdentityInv, NEW r \in Requests, RotateSwap(r) PROVE IdentityInv'
<1> DEFINE old == request[r].rec.id
           u == request[r].rec.user
<1>1. request[r].rec \in Tokens /\ old \in DOMAIN token /\ u \in Someone /\ request[r].at = "swap"
    BY DEF RotateSwap, Is, IdentityInv, IdentityTypes, NamesOK, Named, Holds, CallRecords, Tokens
<1>2. UNCHANGED account
    BY DEF RotateSwap, AccountsKeep
<1>3. CASE Alive(old) /\ Swapped(r) /\ Ends(r)
    <2>1. chainOf[old] \in 1 .. Len(token) /\ old \in 1 .. Len(token)
        BY <1>1 DEF IdentityInv, IdentityTypes, NamesOK
    <2>0. /\ NewToken(chainOf[old]) /\ chainOf[old] # 0 /\ old # 0 /\ Alive(old)
          /\ token' = Append([token EXCEPT ![old].revoked = TRUE, ![old].next = Len(token) + 1],
                             NewRecord(u))
        BY <1>3, <2>1 DEF Swapped
    <2>2. /\ token' \in Seq(Tokens) /\ Len(token') = Len(token) + 1 /\ OneLivePerChain'
          /\ \A t \in DOMAIN token' : token'[t].id = t /\ token'[t].next \in 0 .. Len(token')
          /\ \A t \in DOMAIN token' : chainOf'[t] \in 1 .. t
          /\ Len(chainOf') = Len(token') /\ chainOf' \in Seq(Nat)
        <3>1. chainOf[old] \in 0 .. Len(token) /\ old \in 0 .. Len(token)
            BY <2>1
        <3> HIDE DEF old, u
        <3> QED BY <1>1, <2>0, <3>1, AddingKeeps
    <2>3. /\ request' \in [Requests -> CallRecords]
          /\ \A q \in Requests : request'[q].at \in Holds => request'[q] = request[q]
        BY <1>3, EndKeepsRequests
    <2>4. \A q \in Requests : request'[q].at \in Holds =>
            request'[q].rec.id \in DOMAIN token' /\ request'[q].rec.next \in 0 .. Len(token')
        BY <2>2, <2>3 DEF IdentityInv, IdentityTypes, NamesOK, Named
    <2> QED BY <1>2, <2>2, <2>3, <2>4 DEF IdentityInv, IdentityTypes, NamesOK, Named
<1>4. CASE request' = [request EXCEPT ![r].at = "chain", ![r].op = "reuse"] /\ UNCHANGED <<token, chainOf>>
    <2>1. request' \in [Requests -> CallRecords]
        <3>1. request[r] \in CallRecords /\ request \in [Requests -> CallRecords]
            BY DEF IdentityInv, IdentityTypes
        <3>2. [request[r] EXCEPT !.at = "chain", !.op = "reuse"] \in CallRecords
            BY <3>1 DEF CallRecords, Places
        <3> QED BY <1>4, <3>1, <3>2
    <2>2. \A q \in Requests : request'[q].rec = request[q].rec /\ (q # r => request'[q] = request[q])
        BY <1>4 DEF IdentityInv, IdentityTypes, CallRecords
    <2>3. TokensKeep
        BY <1>4 DEF RotateSwap, TokensKeep
    <2>4. \A q \in Requests : request'[q].at \in Holds => Named(request'[q].rec)
        BY <1>1, <2>2 DEF IdentityInv, NamesOK, Holds
    <2> QED BY <1>2, <2>1, <2>3, <2>4, RequestFrame DEF IdentityInv, IdentityTypes
<1> QED BY <1>3, <1>4 DEF RotateSwap, Swap

LEMMA ChainKeeps ==
    ASSUME IdentityInv, NEW r \in Requests, ChainStep(r) PROVE IdentityInv'
<1> DEFINE next == request[r].rec.next
<1>1. request[r].rec \in Tokens /\ next \in 0 .. Len(token) /\ request[r].at \in Holds
    BY DEF ChainStep, Is, IdentityInv, IdentityTypes, NamesOK, Named, Holds, CallRecords, Tokens
<1>2. UNCHANGED <<token, chainOf, account>>
    BY DEF ChainStep, AccountsKeep, TokensKeep
<1>3. CASE next = 0
    <2>1. Ends(r)
        BY <1>3 DEF ChainStep
    <2>2. request' \in [Requests -> CallRecords]
          /\ \A q \in Requests : request'[q].at \in Holds => Named(request'[q].rec)
        BY <2>1, EndKeepsRequests DEF IdentityInv, NamesOK
    <2> QED BY <1>2, <2>2 DEF IdentityInv, IdentityTypes, NamesOK, Named, OneLivePerChain, LiveToken, Alive
<1>4. CASE next # 0
    <2>1. next \in DOMAIN token /\ token[next] \in Tokens /\ Named(token[next])
        BY <1>1, <1>4 DEF IdentityInv, IdentityTypes, NamesOK, Named
    <2>2. PICK st \in {"kill", "chain"} :
              request' = [request EXCEPT ![r] = [request[r] EXCEPT !.rec = token[next], !.at = st]]
        BY <1>4 DEF ChainStep, IdentityInv, IdentityTypes
    <2>3. [request[r] EXCEPT !.rec = token[next], !.at = st] \in CallRecords
        BY <2>1 DEF IdentityInv, IdentityTypes, CallRecords, Places
    <2>4. request' \in [Requests -> CallRecords]
        BY <2>2, <2>3 DEF IdentityInv, IdentityTypes
    <2>5. \A q \in Requests : request'[q].at \in Holds => Named(request'[q].rec)
        BY <2>1, <2>2 DEF IdentityInv, IdentityTypes, NamesOK, CallRecords
    <2> QED BY <1>2, <2>4, <2>5 DEF IdentityInv, IdentityTypes, NamesOK, Named, OneLivePerChain, LiveToken, Alive
<1> QED BY <1>3, <1>4
LEMMA OperationKeeps ==
    ASSUME IdentityInv, NEW r \in Requests, NEW v \in Users, NEW op \in Operations,
           StartOperation(r, v, op)
    PROVE  IdentityInv'
<1>1. UNCHANGED account /\ TokensKeep
    BY DEF StartOperation
<1>2. Plan(op) \in Seq(Writes) /\ Plan(op) # <<>>
    <2>1. {"write", "revoke", "erase", "issue"} \subseteq Writes
        BY DEF Writes
    <2>2. /\ <<"write", "revoke">> \in Seq(Writes) /\ <<"write", "revoke">> # <<>>
          /\ <<"write", "revoke", "issue">> \in Seq(Writes) /\ <<"write", "revoke", "issue">> # <<>>
          /\ <<"revoke", "erase">> \in Seq(Writes) /\ <<"revoke", "erase">> # <<>>
          /\ <<"issue">> \in Seq(Writes) /\ <<"issue">> # <<>>
          /\ <<"write">> \in Seq(Writes) /\ <<"write">> # <<>>
        BY <2>1
    <2> QED BY <2>2 DEF Plan
<1> DEFINE c == [Idle EXCEPT !.at = "guard", !.user = v, !.op = op, !.was = account[v], !.todo = Plan(op)]
<1>3. c \in CallRecords /\ c.at \notin Holds
    BY <1>2, IdleRecord DEF CallRecords, Someone, Places, Holds, IdentityInv, IdentityTypes
<1>4. request' = [request EXCEPT ![r] = c]
    BY DEF StartOperation
<1> HIDE DEF c
<1>5. request' \in [Requests -> CallRecords]
      /\ \A q \in Requests : request'[q].at \in Holds => Named(request'[q].rec)
    BY <1>3, <1>4 DEF IdentityInv, IdentityTypes, NamesOK
<1> QED
    BY <1>1, <1>5, RequestFrame DEF IdentityInv, IdentityTypes

\* The next write of a call's plan.
LEMMA DoKeepsRequests ==
    ASSUME IdentityInv, NEW r \in Requests, NEW what, Do(r, what)
    PROVE  /\ request' \in [Requests -> CallRecords]
           /\ \A q \in Requests : request'[q].at \in Holds => q # r /\ request'[q] = request[q]
<1>1. CASE Ends(r)
    BY <1>1, EndKeepsRequests
<1>2. CASE request' = [request EXCEPT ![r].todo = Tail(@)] /\ Len(request[r].todo) # 1
    <2> DEFINE c == request[r]
    <2>1. c \in CallRecords /\ c.at = "write"
        BY DEF Do, Is, IdentityInv, IdentityTypes
    <2>2. [c EXCEPT !.todo = Tail(@)].at = "write"
        BY <2>1 DEF CallRecords
    <2>3. request' \in [Requests -> CallRecords]
        <3>1. c.todo \in Seq(Writes) /\ c.todo # <<>> /\ Len(c.todo) # 1
            BY <1>2, <2>1 DEF CallRecords
        <3>2. Tail(c.todo) \in Seq(Writes) /\ Len(Tail(c.todo)) = Len(c.todo) - 1 /\ Len(c.todo) - 1 # 0
            BY <3>1
        <3>4. Tail(c.todo) # <<>>
            BY <3>2
        <3>3. [c EXCEPT !.todo = Tail(@)] \in CallRecords
            BY <2>1, <3>2, <3>4 DEF CallRecords
        <3> QED BY <1>2, <3>3 DEF IdentityInv, IdentityTypes
    <2> QED BY <1>2, <2>1, <2>2, <2>3 DEF IdentityInv, IdentityTypes, Holds
<1> QED BY <1>1, <1>2 DEF Do
LEMMA AccountWritesKeep ==
    ASSUME IdentityInv, NEW r \in Requests, WriteAccount(r) \/ EraseAccount(r) PROVE IdentityInv'
<1>1. TokensKeep /\ \E what : Do(r, what)
    BY DEF WriteAccount, EraseAccount
<1>2. request[r] \in CallRecords
    BY DEF IdentityInv, IdentityTypes
<1>3. Changed(request[r].op, request[r].was) \in Accounts /\ NoAccount \in Accounts
    BY <1>2 DEF Changed, Accounts, NoAccount, CallRecords
<1>4. account' \in [Users -> Accounts]
    BY <1>3 DEF WriteAccount, EraseAccount, IdentityInv, IdentityTypes
<1>5. request' \in [Requests -> CallRecords]
      /\ \A q \in Requests : request'[q].at \in Holds => Named(request'[q].rec)
    BY <1>1, DoKeepsRequests DEF IdentityInv, NamesOK
<1> QED BY <1>1, <1>4, <1>5, RequestFrame

LEMMA RevokeAllKeeps ==
    ASSUME IdentityInv, NEW r \in Requests, RevokeAll(r) PROVE IdentityInv'
<1>1. /\ request' \in [Requests -> CallRecords]
      /\ \A q \in Requests : request'[q].at \in Holds => request'[q] = request[q]
    BY DoKeepsRequests DEF RevokeAll
<1>2. UNCHANGED <<chainOf, account>>
    BY DEF RevokeAll, AccountsKeep
<1>3. \A t \in DOMAIN token : [token[t] EXCEPT !.revoked = TRUE] \in Tokens
  <2>1. \A t \in DOMAIN token : token[t] \in Tokens
      BY DEF IdentityInv, IdentityTypes
  <2> QED BY <2>1 DEF Tokens
<1>4. token' \in Seq(Tokens) /\ Len(token') = Len(token)
    BY <1>3 DEF RevokeAll, IdentityInv, IdentityTypes
<1>5. \A t \in DOMAIN token : /\ token'[t].revoked \/ token'[t] = token[t]
                              /\ token'[t].id = t /\ token'[t].next \in 0 .. Len(token)
    BY DEF RevokeAll, IdentityInv, IdentityTypes, NamesOK, Tokens
<1>6. /\ OneLivePerChain'
      /\ \A t \in DOMAIN token' : token'[t].id = t /\ token'[t].next \in 0 .. Len(token')
      /\ \A t \in DOMAIN token' : chainOf'[t] \in 1 .. t
      /\ Len(chainOf') = Len(token')
    BY <1>2, <1>4, <1>5, RevokingKeeps
<1>7. \A q \in Requests : request'[q].at \in Holds =>
            request'[q].rec.id \in DOMAIN token' /\ request'[q].rec.next \in 0 .. Len(token')
    BY <1>1, <1>4 DEF IdentityInv, IdentityTypes, NamesOK, Named
<1> QED
    BY <1>1, <1>2, <1>4, <1>6, <1>7 DEF IdentityInv, IdentityTypes, NamesOK, Named

LEMMA IssueKeeps ==
    ASSUME IdentityInv, NEW r \in Requests, IssueToken(r) PROVE IdentityInv'
<1> DEFINE u == request[r].user
<1>1. /\ request' \in [Requests -> CallRecords]
      /\ \A q \in Requests : request'[q].at \in Holds => request'[q] = request[q]
    BY DoKeepsRequests DEF IssueToken
<1>2. UNCHANGED account /\ NewToken(0) /\ token' = Append(token, NewRecord(u))
    BY DEF IssueToken, AccountsKeep
<1>3. u \in Someone /\ 0 \in 0 .. Len(token)
    BY DEF IdentityInv, IdentityTypes, CallRecords
<1> HIDE DEF u
<1>4. /\ token' \in Seq(Tokens) /\ Len(token') = Len(token) + 1 /\ OneLivePerChain'
      /\ \A t \in DOMAIN token' : token'[t].id = t /\ token'[t].next \in 0 .. Len(token')
      /\ \A t \in DOMAIN token' : chainOf'[t] \in 1 .. t
      /\ Len(chainOf') = Len(token') /\ chainOf' \in Seq(Nat)
    BY <1>2, <1>3, AddingKeeps
<1>5. \A q \in Requests : request'[q].at \in Holds =>
            request'[q].rec.id \in DOMAIN token' /\ request'[q].rec.next \in 0 .. Len(token')
    BY <1>1, <1>4 DEF IdentityInv, IdentityTypes, NamesOK, Named
<1> QED
    BY <1>1, <1>2, <1>4, <1>5 DEF IdentityInv, IdentityTypes, NamesOK, Named

LEMMA StepKeepsSingle == IdentityInv /\ [IdentityNext]_identityVars => IdentityInv'
<1> SUFFICES ASSUME IdentityInv, [IdentityNext]_identityVars PROVE IdentityInv'
    OBVIOUS
<1>1. ASSUME NEW r \in Requests, NEW t \in 1 .. MaxTokens, RotateRead(r, t) \/ LogoutRead(r, t)
      PROVE  IdentityInv'
    BY <1>1, RotateKeeps
<1>2. ASSUME NEW r \in Requests, RotateCheckUser(r) \/ Guard(r) PROVE IdentityInv'
    BY <1>2, MovingKeeps
<1>3. ASSUME NEW r \in Requests, RotateRefuse(r) \/ ChainKill(r) \/ LogoutWrite(r) PROVE IdentityInv'
    BY <1>3, WriteBackKeeps
<1>4. ASSUME NEW r \in Requests, RotateSwap(r) PROVE IdentityInv'
    BY <1>4, SwapKeeps
<1>5. ASSUME NEW r \in Requests, ChainStep(r) PROVE IdentityInv'
    BY <1>5, ChainKeeps
<1>6. ASSUME NEW r \in Requests, NEW u \in Users, NEW op \in Operations, StartOperation(r, u, op)
      PROVE  IdentityInv'
    BY <1>6, OperationKeeps
<1>7. ASSUME NEW r \in Requests, WriteAccount(r) \/ EraseAccount(r) PROVE IdentityInv'
    BY <1>7, AccountWritesKeep
<1>8. ASSUME NEW r \in Requests, RevokeAll(r) PROVE IdentityInv'
    BY <1>8, RevokeAllKeeps
<1>9. ASSUME NEW r \in Requests, IssueToken(r) PROVE IdentityInv'
    BY <1>9, IssueKeeps
<1>10. CASE UNCHANGED identityVars
    BY <1>10 DEF identityVars, IdentityInv, IdentityTypes, NamesOK, Named, OneLivePerChain, LiveToken, Alive
<1> QED
    BY <1>1, <1>2, <1>3, <1>4, <1>5, <1>6, <1>7, <1>8, <1>9, <1>10 DEF IdentityNext

\* A chain of rotations never has two live tokens (identity/service.py 193-261 over
\* identity/store.py 332-355), however many calls overlap.
THEOREM OneLivePerChainHolds == IdentitySpec => []OneLivePerChain
<1>1. IdentityInv => OneLivePerChain
    BY DEF IdentityInv
<1> QED
    BY <1>1, StartsSingle, StepKeepsSingle, PTL DEF IdentitySpec

-----------------------------------------------------------------------------
(* A disabled member has no session.  Account operations one at a time read *)
(* a record that is still current when they write it.  So only the write of *)
(* "disable" can leave a disabled member with a live token, and then the    *)
(* revocation of all of them is that call's next write; and a rotation that *)
(* runs meanwhile takes the place of a live token of the same member.       *)

OwnersKnown ==
    /\ \A t \in DOMAIN token : token[t].user \in Users
    /\ \A r \in Requests : request[r].at \in Holds => request[r].rec.user = token[request[r].rec.id].user

Operates(r) == request[r].todo # <<>>
FollowsPlan(r) ==
    LET c == request[r] IN
    /\ c.at \in {"guard", "write"} /\ c.user \in Users /\ c.op \in Operations
    /\ \/ c.todo = Plan(c.op)
       \/ c.at = "write" /\ c.todo = Tail(Plan(c.op))
       \/ c.at = "write" /\ c.op = "password" /\ c.todo = <<"issue">>
    /\ c.at = "write" /\ c.op = "login" => c.was.status = "active"

OneOperation == \A q, r \in Requests : Operates(q) /\ Operates(r) => q = r
ReadIsCurrent ==
    \A r \in Requests : Operates(r) /\ request[r].todo = Plan(request[r].op) =>
        request[r].was = account[request[r].user]
AwaitsRevoke(u) == \E r \in Requests : request[r].todo = <<"revoke">> /\ request[r].user = u
DisabledCovered ==
    \A t \in DOMAIN token :
        ~token[t].revoked /\ account[token[t].user].status = "disabled" =>
            AwaitsRevoke(token[t].user) \/ token[t].user \in reopened

PlansOK == \A r \in Requests : Operates(r) => FollowsPlan(r)
DisabledInv ==
    OwnersKnown /\ PlansOK /\ (~crossed => OneOperation /\ ReadIsCurrent /\ DisabledCovered)

\* What is left of a plan after its first write.
LEMMA PlanTails ==
    /\ \A op : Plan(op) \notin {<<>>, <<"revoke">>, <<"erase">>, <<"revoke", "issue">>}
    /\ \A op : \/ Tail(Plan(op)) \in {<<>>, <<"revoke">>, <<"erase">>}
               \/ op = "password" /\ Tail(Plan(op)) = <<"revoke", "issue">>
    /\ Tail(<<"revoke">>) = <<>> /\ Tail(<<"erase">>) = <<>> /\ Tail(<<"issue">>) = <<>>
    /\ Tail(<<"revoke", "issue">>) = <<"issue">>
    /\ Head(<<"revoke">>) = "revoke" /\ Head(<<"erase">>) = "erase"
    /\ Head(<<"revoke", "issue">>) = "revoke" /\ Head(<<"issue">>) = "issue"
    /\ \A op : Head(Plan(op)) = "issue" => op = "login"
    /\ Plan("password") # <<"issue">> /\ Tail(Plan("disable")) = <<"revoke">>
<1>1. /\ Tail(<<"write", "revoke">>) = <<"revoke">> /\ Tail(<<"revoke", "erase">>) = <<"erase">>
      /\ Tail(<<"issue">>) = <<>> /\ Tail(<<"write">>) = <<>>
      /\ Tail(<<"revoke">>) = <<>> /\ Tail(<<"erase">>) = <<>>
      /\ Tail(<<"write", "revoke", "issue">>) = <<"revoke", "issue">>
      /\ Tail(<<"revoke", "issue">>) = <<"issue">>
    OBVIOUS
<1>2. \A op : \/ op = "password" /\ Plan(op) = <<"write", "revoke", "issue">>
              \/ Plan(op) \in {<<"write", "revoke">>, <<"revoke", "erase">>, <<"issue">>, <<"write">>}
    BY DEF Plan
<1>3. Plan("disable") = <<"write", "revoke">> /\ Plan("password") = <<"write", "revoke", "issue">>
    BY DEF Plan
<1>4. /\ Head(<<"revoke">>) = "revoke" /\ Head(<<"erase">>) = "erase" /\ Head(<<"issue">>) = "issue"
      /\ Head(<<"revoke", "issue">>) = "revoke" /\ Head(<<"write", "revoke">>) = "write"
      /\ Head(<<"write", "revoke", "issue">>) = "write" /\ Head(<<"revoke", "erase">>) = "revoke"
      /\ Head(<<"write">>) = "write"
    OBVIOUS
<1>5. \A p \in {<<"write", "revoke">>, <<"write", "revoke", "issue">>, <<"revoke", "erase">>, <<"issue">>,
                <<"write">>} :
          p \notin {<<>>, <<"revoke">>, <<"erase">>, <<"revoke", "issue">>}
    OBVIOUS
<1>6. \A op : Head(Plan(op)) = "issue" => op = "login"
    BY <1>4 DEF Plan
<1>7. <<"write", "revoke", "issue">> # <<"issue">>
    OBVIOUS
<1>8. \A op : Plan(op) \notin {<<>>, <<"revoke">>, <<"erase">>, <<"revoke", "issue">>}
    BY <1>2, <1>5
<1>9. \A op : \/ Tail(Plan(op)) \in {<<>>, <<"revoke">>, <<"erase">>}
              \/ op = "password" /\ Tail(Plan(op)) = <<"revoke", "issue">>
    <2> TAKE op
    <2>1. CASE op = "password" /\ Plan(op) = <<"write", "revoke", "issue">>
        <3>1. Tail(Plan(op)) = <<"revoke", "issue">>
            BY <1>1, <2>1
        <3> QED BY <2>1, <3>1
    <2>2. CASE Plan(op) = <<"write", "revoke">>
        <3>1. Tail(Plan(op)) = <<"revoke">>
            BY <1>1, <2>2
        <3> QED BY <3>1
    <2>3. CASE Plan(op) = <<"revoke", "erase">>
        <3>1. Tail(Plan(op)) = <<"erase">>
            BY <1>1, <2>3
        <3> QED BY <3>1
    <2>4. CASE Plan(op) = <<"issue">>
        <3>1. Tail(Plan(op)) = <<>>
            BY <1>1, <2>4
        <3> QED BY <3>1
    <2>5. CASE Plan(op) = <<"write">>
        <3>1. Tail(Plan(op)) = <<>>
            BY <1>1, <2>5
        <3> QED BY <3>1
    <2> QED BY <1>2, <2>1, <2>2, <2>3, <2>4, <2>5
<1> QED BY <1>1, <1>3, <1>4, <1>6, <1>7, <1>8, <1>9

LEMMA DisabledStarts == IdentityInit => DisabledInv
<1> SUFFICES ASSUME IdentityInit PROVE DisabledInv
    OBVIOUS
<1>1. DOMAIN token = {} /\ \A r \in Requests : request[r] = Idle
    BY DEF IdentityInit
<1>2. Idle.at \notin Holds /\ Idle.todo = <<>>
    BY DEF Idle, Holds
<1> QED
    BY <1>1, <1>2 DEF DisabledInv, OwnersKnown, PlansOK, Operates, OneOperation, ReadIsCurrent,
                      DisabledCovered

\* A token keeps its owner, and a call holds a record of the store or what it held before.
UsersKept ==
    /\ DOMAIN token \subseteq DOMAIN token'
    /\ \A t \in DOMAIN token : token'[t].user = token[t].user
    /\ \A t \in DOMAIN token' \ DOMAIN token : token'[t].user \in Users
HeldKept ==
    \A q \in Requests : request'[q].at \in Holds =>
        \/ request[q].at \in Holds /\ request'[q].rec = request[q].rec
        \/ UNCHANGED token /\ \E t \in DOMAIN token : request'[q].rec = token[t]
LiveFromLive ==
    \A t \in DOMAIN token' : ~token'[t].revoked =>
        \E s \in DOMAIN token : ~token[s].revoked /\ token[s].user = token'[t].user

LEMMA OwnersKeep ==
    ASSUME IdentityInv, OwnersKnown, UsersKept, HeldKept PROVE OwnersKnown'
<1>1. \A r \in Requests : request[r].at \in Holds => request[r].rec.id \in DOMAIN token
    BY DEF IdentityInv, NamesOK, Named
<1>2. \A t \in DOMAIN token : token[t].id = t
    BY DEF IdentityInv, NamesOK
<1>3. \A t \in DOMAIN token' : token'[t].user \in Users
    BY DEF OwnersKnown, UsersKept
<1>4. ASSUME NEW q \in Requests, request'[q].at \in Holds
      PROVE  request'[q].rec.user = token'[request'[q].rec.id].user
    <2>1. CASE request[q].at \in Holds /\ request'[q].rec = request[q].rec
        BY <1>1, <2>1 DEF OwnersKnown, UsersKept
    <2>2. CASE UNCHANGED token /\ \E t \in DOMAIN token : request'[q].rec = token[t]
        BY <1>2, <2>2
    <2> QED BY <1>4, <2>1, <2>2 DEF HeldKept
<1> QED BY <1>3, <1>4 DEF OwnersKnown

\* A call about a token leaves the account operations and their coverage alone.
LEMMA TokenCallKeeps ==
    ASSUME IdentityInv, DisabledInv, NEW r \in Requests, ~Operates(r), AccountsKeep,
           \A q \in Requests \ {r} : request'[q] = request[q], request'[r].todo = <<>>,
           UsersKept, HeldKept, LiveFromLive
    PROVE  DisabledInv'
<1>1. OwnersKnown'
    BY OwnersKeep DEF DisabledInv
<1>2. /\ \A q \in Requests : request'[q].todo = request[q].todo
      /\ \A q \in Requests : request[q].todo # <<>> => request'[q] = request[q]
    BY DEF Operates
<1>3. PlansOK'
    <2> SUFFICES ASSUME NEW q \in Requests, request'[q].todo # <<>> PROVE FollowsPlan(q)'
        BY DEF PlansOK, Operates
    <2>1. FollowsPlan(q) /\ request'[q] = request[q]
        BY <1>2 DEF DisabledInv, PlansOK, Operates
    <2> QED BY <2>1 DEF FollowsPlan
<1>4. account' = account /\ crossed' = crossed /\ reopened' = reopened
    BY DEF AccountsKeep
<1>5. ~crossed => OneOperation'
    BY <1>2 DEF DisabledInv, OneOperation, Operates
<1>9. ~crossed => ReadIsCurrent'
    <2> SUFFICES ASSUME ~crossed, NEW q \in Requests, request'[q].todo # <<>>,
                        request'[q].todo = Plan(request'[q].op)
                 PROVE  request'[q].was = account[request'[q].user]
        BY <1>4 DEF ReadIsCurrent, Operates
    <2>1. request'[q] = request[q]
        BY <1>2
    <2> QED BY <2>1 DEF DisabledInv, ReadIsCurrent, Operates
<1>6. ~crossed => DisabledCovered'
    <2>1. ASSUME ~crossed, NEW t \in DOMAIN token', ~token'[t].revoked,
                 account[token'[t].user].status = "disabled", token'[t].user \notin reopened
          PROVE  \E q \in Requests : request'[q].todo = <<"revoke">> /\ request'[q].user = token'[t].user
        <3>1. PICK s \in DOMAIN token : ~token[s].revoked /\ token[s].user = token'[t].user
            BY <2>1 DEF LiveFromLive
        <3>2. PICK q \in Requests : request[q].todo = <<"revoke">> /\ request[q].user = token'[t].user
            BY <2>1, <3>1 DEF DisabledInv, DisabledCovered, AwaitsRevoke
        <3>3. request'[q] = request[q]
            BY <1>2, <3>2, <<"revoke">> # <<>>
        <3> QED BY <3>2, <3>3
    <2> QED BY <1>4, <2>1 DEF DisabledCovered, AwaitsRevoke
<1> QED BY <1>1, <1>3, <1>4, <1>5, <1>6, <1>9 DEF DisabledInv

\* The record that a call writes back belongs to the token it names.
LEMMA WriteBackOwners ==
    ASSUME IdentityInv, DisabledInv, NEW r \in Requests, request[r].at \in Holds,
           WritesRevoked(request[r].rec)
    PROVE  UsersKept /\ LiveFromLive
<1> DEFINE rec == request[r].rec
           gone == [rec EXCEPT !.revoked = TRUE]
<1>1. rec \in Tokens /\ rec.id \in DOMAIN token /\ rec.user = token[rec.id].user
    BY DEF IdentityInv, IdentityTypes, NamesOK, Named, CallRecords, DisabledInv, OwnersKnown
<1>2. gone.revoked /\ gone.user = rec.user
    BY <1>1 DEF Tokens
<1>3. token' = [token EXCEPT ![rec.id] = gone]
    BY DEF WritesRevoked
<1> HIDE DEF gone, rec
<1>4. DOMAIN token' = DOMAIN token
      /\ \A t \in DOMAIN token : token'[t] = IF t = rec.id THEN gone ELSE token[t]
    BY <1>1, <1>3 DEF IdentityInv, IdentityTypes
<1> QED BY <1>1, <1>2, <1>4 DEF UsersKept, LiveFromLive

LEMMA TokenStepsKeepDisabled ==
    ASSUME IdentityInv, DisabledInv, NEW r \in Requests,
           \/ \E t \in 1 .. MaxTokens : RotateRead(r, t) \/ LogoutRead(r, t)
           \/ RotateCheckUser(r) \/ RotateRefuse(r) \/ RotateSwap(r) \/ ChainStep(r) \/ ChainKill(r) \/ LogoutWrite(r)
    PROVE  DisabledInv'
<1>1. ~Operates(r)
    BY DEF DisabledInv, PlansOK, FollowsPlan, RotateRead, LogoutRead, RotateCheckUser, RotateRefuse,
           RotateSwap, ChainStep, ChainKill, LogoutWrite, Is
<1>2. AccountsKeep
    BY DEF RotateRead, LogoutRead, RotateCheckUser, RotateRefuse, RotateSwap, ChainStep, ChainKill,
           LogoutWrite
<1>3. request[r] \in CallRecords /\ request \in [Requests -> CallRecords]
    BY DEF IdentityInv, IdentityTypes
<1>4. ASSUME NEW c, request' = [request EXCEPT ![r] = c], c.todo = <<>>, UsersKept, LiveFromLive,
             c.at \in Holds => \/ request[r].at \in Holds /\ c.rec = request[r].rec
                               \/ UNCHANGED token /\ \E s \in DOMAIN token : c.rec = token[s]
      PROVE  DisabledInv'
    <2>1. request'[r] = c /\ \A q \in Requests \ {r} : request'[q] = request[q]
        BY <1>3, <1>4
    <2>2. HeldKept
        BY <1>4, <2>1 DEF HeldKept
    <2> QED BY <1>1, <1>2, <1>4, <2>1, <2>2, TokenCallKeeps
<1>5. request[r].todo = <<>>
    BY <1>1 DEF Operates
<1>6. UNCHANGED token => UsersKept /\ LiveFromLive
    BY DEF UsersKept, LiveFromLive
<1>7. Idle.todo = <<>> /\ Idle.at \notin Holds
    BY DEF Idle, Holds
<1>8. ASSUME NEW t \in 1 .. MaxTokens, RotateRead(r, t) PROVE DisabledInv'
    <2>1. PICK st \in {"check", "chain"}, op \in {"rotate", "reuse"} :
              request' = [request EXCEPT ![r] = [request[r] EXCEPT !.rec = token[t], !.at = st, !.op = op]]
        BY <1>3, <1>8 DEF RotateRead
    <2> DEFINE c == [request[r] EXCEPT !.rec = token[t], !.at = st, !.op = op]
    <2>2. c.todo = <<>> /\ c.rec = token[t]
        BY <1>3, <1>5 DEF CallRecords
    <2>3. UNCHANGED token /\ t \in DOMAIN token
        BY <1>8 DEF RotateRead, TokensKeep
    <2> HIDE DEF c
    <2> QED BY <1>4, <1>6, <2>1, <2>2, <2>3 DEF c
<1>9. ASSUME NEW t \in 1 .. MaxTokens, LogoutRead(r, t) PROVE DisabledInv'
    <2> DEFINE c == [request[r] EXCEPT !.rec = token[t], !.at = "logout"]
    <2>1. request' = [request EXCEPT ![r] = c]
        BY <1>3, <1>9 DEF LogoutRead
    <2>2. c.todo = <<>> /\ c.rec = token[t]
        BY <1>3, <1>5 DEF CallRecords
    <2>3. UNCHANGED token /\ t \in DOMAIN token
        BY <1>9 DEF LogoutRead, TokensKeep
    <2> HIDE DEF c
    <2> QED BY <1>4, <1>6, <2>1, <2>2, <2>3
<1>10. ASSUME NEW st, Goes(r, st), request[r].at \in Holds, UsersKept, LiveFromLive PROVE DisabledInv'
    <2> DEFINE c == [request[r] EXCEPT !.at = st]
    <2>1. request' = [request EXCEPT ![r] = c] /\ c.todo = <<>> /\ c.rec = request[r].rec
        BY <1>3, <1>5, <1>10 DEF Goes, CallRecords
    <2> HIDE DEF c
    <2> QED BY <1>4, <1>10, <2>1
<1>11. ASSUME Ends(r), UsersKept, LiveFromLive PROVE DisabledInv'
    BY <1>4, <1>7, <1>11 DEF Ends
<1>12. CASE RotateCheckUser(r)
    BY <1>6, <1>10, <1>12 DEF RotateCheckUser, TokensKeep, Is, Holds
<1>13. CASE RotateRefuse(r)
    BY <1>11, <1>13, WriteBackOwners DEF RotateRefuse, Is, Holds
<1>14. CASE ChainKill(r)
    BY <1>10, <1>14, WriteBackOwners DEF ChainKill, Is, Holds
<1>15. CASE LogoutWrite(r)
    BY <1>11, <1>15, WriteBackOwners DEF LogoutWrite, Is, Holds
<1>16. CASE ChainStep(r)
    <2>1. CASE request[r].rec.next = 0
        BY <1>6, <1>11, <1>16, <2>1 DEF ChainStep
    <2>2. CASE request[r].rec.next # 0
        <3> DEFINE next == request[r].rec.next
        <3>1. next \in DOMAIN token
            BY <1>16, <2>2 DEF ChainStep, Is, Holds, IdentityInv, IdentityTypes, NamesOK, Named
        <3>2. PICK st \in {"kill", "chain"} :
                  request' = [request EXCEPT ![r] = [request[r] EXCEPT !.rec = token[next], !.at = st]]
            BY <1>3, <1>16, <2>2 DEF ChainStep
        <3> DEFINE c == [request[r] EXCEPT !.rec = token[next], !.at = st]
        <3>3. c.todo = <<>> /\ c.rec = token[next]
            BY <1>3, <1>5 DEF CallRecords
        <3>4. UNCHANGED token
            BY <1>16, <2>2 DEF ChainStep, TokensKeep
        <3> HIDE DEF c, next
        <3> QED BY <1>4, <1>6, <3>1, <3>2, <3>3, <3>4 DEF c
    <2> QED BY <2>1, <2>2
<1>17. CASE RotateSwap(r)
    <2> DEFINE old == request[r].rec.id
               u == request[r].rec.user
    <2>1. request[r].at \in Holds /\ old \in DOMAIN token /\ u = token[old].user /\ u \in Users
        BY <1>17 DEF RotateSwap, Is, Holds, IdentityInv, NamesOK, Named, DisabledInv, OwnersKnown
    <2>2. CASE Alive(old) /\ Swapped(r) /\ Ends(r)
        <3> DEFINE gone == [token[old] EXCEPT !.revoked = TRUE, !.next = Len(token) + 1]
        <3>1. token \in Seq(Tokens) /\ token[old] \in Tokens
            BY <2>1 DEF IdentityInv, IdentityTypes
        <3>2. gone.revoked /\ gone.user = u
            BY <2>1, <3>1 DEF Tokens
        <3>3. token' = Append([token EXCEPT ![old] = gone], NewRecord(u))
            BY <2>1, <2>2, <3>1 DEF Swapped, Tokens
        <3>4. NewRecord(u).user = u
            BY DEF NewRecord
        <3>5. ~token[old].revoked
            BY <2>2 DEF Alive
        <3> HIDE DEF gone, old, u
        <3>6. DOMAIN token' = DOMAIN token \cup {Len(token) + 1}
              /\ \A s \in DOMAIN token' : token'[s] = IF s = Len(token) + 1 THEN NewRecord(u)
                                                      ELSE IF s = old THEN gone ELSE token[s]
            BY <2>1, <3>1, <3>3
        <3>7. UsersKept
            BY <2>1, <3>1, <3>2, <3>4, <3>6 DEF UsersKept
        <3>8. LiveFromLive
            BY <2>1, <3>1, <3>2, <3>4, <3>5, <3>6 DEF LiveFromLive
        <3> QED BY <1>11, <2>2, <3>7, <3>8
    <2>3. CASE request' = [request EXCEPT ![r].at = "chain", ![r].op = "reuse"] /\ UNCHANGED token
        <3> DEFINE c == [request[r] EXCEPT !.at = "chain", !.op = "reuse"]
        <3>1. request' = [request EXCEPT ![r] = c] /\ c.todo = <<>> /\ c.rec = request[r].rec
            BY <1>3, <1>5, <2>3 DEF CallRecords
        <3> HIDE DEF c
        <3> QED BY <1>4, <1>6, <2>1, <2>3, <3>1
    <2> QED BY <1>17, <2>2, <2>3 DEF RotateSwap, Swap
<1> QED
    BY <1>8, <1>9, <1>12, <1>13, <1>14, <1>15, <1>16, <1>17

\* What the first write of an operation relies on: it is the only operation under way, and
\* no live token waits for the revocation of another.
LEMMA StartOperationKeepsDisabled ==
    ASSUME IdentityInv, DisabledInv, NEW r \in Requests, NEW u \in Users, NEW op \in Operations,
           StartOperation(r, u, op)
    PROVE  DisabledInv'
<1> DEFINE c == [Idle EXCEPT !.at = "guard", !.user = u, !.op = op, !.was = account[u],
                             !.todo = Plan(op)]
<1>1. /\ c.at = "guard" /\ c.user = u /\ c.op = op /\ c.was = account[u] /\ c.todo = Plan(op)
    BY DEF Idle
<1>2. request'[r] = c /\ \A q \in Requests \ {r} : request'[q] = request[q]
    BY DEF StartOperation, IdentityInv, IdentityTypes
<1> HIDE DEF c
<1>3. UNCHANGED <<account, token, reopened>> /\ crossed' = (crossed \/ \E q \in Requests : request[q].todo # <<>>)
    BY DEF StartOperation, TokensKeep
<1>4. "guard" \notin Holds
    BY DEF Holds
<1>5. OwnersKnown'
    BY <1>1, <1>2, <1>3, <1>4 DEF DisabledInv, OwnersKnown
<1>6. PlansOK'
    <2> SUFFICES ASSUME NEW q \in Requests, request'[q].todo # <<>> PROVE FollowsPlan(q)'
        BY DEF PlansOK, Operates
    <2>1. CASE q = r
        BY <1>1, <1>2, <2>1 DEF FollowsPlan
    <2>2. CASE q # r
        BY <1>2, <2>2 DEF DisabledInv, PlansOK, Operates, FollowsPlan
    <2> QED BY <2>1, <2>2
<1>7. ASSUME ~crossed' PROVE OneOperation' /\ ReadIsCurrent' /\ DisabledCovered'
    <2>1. ~crossed /\ \A q \in Requests : request[q].todo = <<>>
        BY <1>3, <1>7
    <2>2. \A q \in Requests : request'[q].todo # <<>> => q = r
        BY <1>2, <2>1
    <2>3. OneOperation'
        BY <2>2 DEF OneOperation, Operates
    <2>4. ReadIsCurrent'
        BY <1>1, <1>2, <1>3, <2>2 DEF ReadIsCurrent, Operates
    <2>5. \A v : ~AwaitsRevoke(v)
        BY <2>1, <<"revoke">> # <<>> DEF AwaitsRevoke
    <2>6. DisabledCovered'
        BY <1>3, <2>1, <2>5 DEF DisabledInv, DisabledCovered
    <2> QED BY <2>3, <2>4, <2>6
<1> QED BY <1>5, <1>6, <1>7 DEF DisabledInv

LEMMA GuardKeepsDisabled ==
    ASSUME IdentityInv, DisabledInv, NEW r \in Requests, Guard(r) PROVE DisabledInv'
<1>1. request \in [Requests -> CallRecords] /\ request[r] \in CallRecords
      /\ UNCHANGED <<account, token, crossed, reopened>> /\ request[r].at = "guard"
    BY DEF IdentityInv, IdentityTypes, Guard, TokensKeep, AccountsKeep, Is
<1>2. ASSUME NEW c, request' = [request EXCEPT ![r] = c], c.at \notin Holds,
             c.todo = <<>> \/ /\ c.todo = request[r].todo /\ c.user = request[r].user
                              /\ c.op = request[r].op /\ c.was = request[r].was /\ c.at = "write"
                              /\ c.op = "login" => c.was.status = "active"
      PROVE  DisabledInv'
    <2>1. request'[r] = c /\ \A q \in Requests \ {r} : request'[q] = request[q]
        BY <1>1, <1>2
    <2>2. OwnersKnown'
        BY <1>1, <1>2, <2>1 DEF DisabledInv, OwnersKnown
    <2>3. PlansOK'
        <3> SUFFICES ASSUME NEW q \in Requests, request'[q].todo # <<>> PROVE FollowsPlan(q)'
            BY DEF PlansOK, Operates
        <3>1. request[q].todo # <<>> /\ FollowsPlan(q)
            BY <1>2, <2>1 DEF DisabledInv, PlansOK, Operates
        <3>2. CASE q = r
            BY <1>2, <2>1, <3>1, <3>2 DEF FollowsPlan
        <3>3. CASE q # r
            BY <2>1, <3>1, <3>3 DEF FollowsPlan
        <3> QED BY <3>2, <3>3
    <2>4. ~crossed => OneOperation'
        BY <1>2, <2>1 DEF DisabledInv, OneOperation, Operates
    <2>5. ~crossed => ReadIsCurrent'
        <3> SUFFICES ASSUME ~crossed, NEW q \in Requests, request'[q].todo # <<>>,
                            request'[q].todo = Plan(request'[q].op)
                     PROVE  request'[q].was = account[request'[q].user]
            BY <1>1 DEF ReadIsCurrent, Operates
        <3>1. /\ request'[q].todo = request[q].todo /\ request'[q].op = request[q].op
              /\ request'[q].was = request[q].was /\ request'[q].user = request[q].user
            BY <1>2, <2>1
        <3> QED BY <3>1 DEF DisabledInv, ReadIsCurrent, Operates
    <2>6. ~crossed => DisabledCovered'
        <3> SUFFICES ASSUME ~crossed, NEW t \in DOMAIN token, ~token[t].revoked,
                            account[token[t].user].status = "disabled", token[t].user \notin reopened
                     PROVE  \E q \in Requests : /\ request'[q].todo = <<"revoke">>
                                                /\ request'[q].user = token[t].user
            BY <1>1 DEF DisabledCovered, AwaitsRevoke
        <3>1. PICK q \in Requests : request[q].todo = <<"revoke">> /\ request[q].user = token[t].user
            BY DEF DisabledInv, DisabledCovered, AwaitsRevoke
        <3>2. FollowsPlan(q)
            BY <3>1, <<"revoke">> # <<>> DEF DisabledInv, PlansOK, Operates
        <3>3. Plan(request[q].op) # <<"revoke">>
            BY PlanTails
        <3>4. q # r
            BY <1>1, <3>1, <3>2, <3>3 DEF FollowsPlan
        <3> QED BY <2>1, <3>1, <3>4
    <2> QED BY <1>1, <2>2, <2>3, <2>4, <2>5, <2>6 DEF DisabledInv
<1>3. "write" \notin Holds /\ Idle.at \notin Holds /\ Idle.todo = <<>>
    BY DEF Holds, Idle
<1>4. CASE Guarded(r) /\ Goes(r, "write")
    <2> DEFINE c == [request[r] EXCEPT !.at = "write"]
    <2>1. /\ c.todo = request[r].todo /\ c.user = request[r].user /\ c.op = request[r].op
          /\ c.was = request[r].was /\ c.at = "write"
        BY <1>1 DEF CallRecords
    <2>2. c.op = "login" => c.was.status = "active"
        BY <1>4, <2>1 DEF Guarded
    <2>3. request' = [request EXCEPT ![r] = c]
        BY <1>4 DEF Goes
    <2> HIDE DEF c
    <2> QED BY <1>2, <1>3, <2>1, <2>2, <2>3
<1>5. CASE Ends(r)
    BY <1>2, <1>3, <1>5 DEF Ends
<1> QED BY <1>4, <1>5 DEF Guard

\* The writes of an operation that is alone: it follows its plan, and what it has read is
\* not consulted again after the first of them.
WritesFollow(r, what) ==
    /\ request[r].todo # <<>> /\ Head(request[r].todo) = what /\ FollowsPlan(r)
    /\ request'[r].todo = Tail(request[r].todo)
    /\ request'[r].todo # <<>> => request'[r].user = request[r].user
    /\ \A q \in Requests \ {r} : request'[q] = request[q]
    /\ \A q \in Requests : request'[q].at \in Holds => request'[q] = request[q]

LEMMA DoFollows ==
    ASSUME IdentityInv, DisabledInv, NEW r \in Requests, NEW what, Do(r, what), UNCHANGED crossed
    PROVE  WritesFollow(r, what) /\ PlansOK' /\ (~crossed => OneOperation' /\ ReadIsCurrent')
<1> DEFINE c == request[r]
           d == IF Len(c.todo) = 1 THEN Idle ELSE [c EXCEPT !.todo = Tail(@)]
<1>1. c \in CallRecords /\ request \in [Requests -> CallRecords] /\ c.at = "write"
      /\ Head(c.todo) = what
    BY DEF IdentityInv, IdentityTypes, Do, Is
<1>2. c.todo \in Seq(Writes) /\ c.todo # <<>>
    BY <1>1 DEF CallRecords
<1>3. FollowsPlan(r)
    BY <1>2 DEF DisabledInv, PlansOK, Operates
<1>4. request' = [request EXCEPT ![r] = d]
    BY <1>1 DEF Do, Ends
<1>5. Idle.at \notin Holds /\ Idle.todo = <<>> /\ "write" \notin Holds
    BY DEF Idle, Holds
<1>6. d.todo = Tail(c.todo) /\ d.at \notin Holds
    <2>1. CASE Len(c.todo) = 1
        <3>1. Tail(c.todo) = <<>>
            <4>1. Tail(c.todo) \in Seq(Writes) /\ Len(Tail(c.todo)) = 0
                BY <1>2, <2>1
            <4> QED BY <4>1, EmptySeq
        <3>2. d = Idle
            BY <2>1
        <3> QED BY <1>5, <3>1, <3>2
    <2>2. CASE Len(c.todo) # 1
        BY <1>1, <1>5, <2>2 DEF CallRecords
    <2> QED BY <2>1, <2>2
<1>7. d.todo # <<>> => d.user = c.user /\ d.op = c.op /\ d.was = c.was /\ d.at = "write"
    BY <1>1, <1>5 DEF CallRecords
<1>8. request'[r] = d /\ \A q \in Requests \ {r} : request'[q] = request[q]
    BY <1>1, <1>4
<1>9. d.todo # <<>> => /\ d.todo = Tail(Plan(c.op)) \/ (c.op = "password" /\ d.todo = <<"issue">>)
                      /\ d.todo # Plan(c.op)
    <2>1. \/ c.todo = Plan(c.op) \/ c.todo = Tail(Plan(c.op))
          \/ c.op = "password" /\ c.todo = <<"issue">>
        BY <1>3 DEF FollowsPlan
    <2>2. d.todo = Tail(c.todo)
        BY <1>6
    <2> HIDE DEF c, d
    <2>3. CASE c.todo = Tail(Plan(c.op))
        <3>1. CASE c.op = "password" /\ c.todo = <<"revoke", "issue">>
            BY <2>2, <3>1, PlanTails
        <3>2. CASE c.todo \in {<<"revoke">>, <<"erase">>}
            BY <2>2, <3>2, PlanTails
        <3> QED BY <1>2, <2>3, <3>1, <3>2, PlanTails
    <2>4. CASE c.todo = <<"issue">>
        BY <2>2, <2>4, PlanTails
    <2>5. CASE c.todo = Plan(c.op)
        <3>1. d.todo # <<>> => d.todo # Plan(c.op)
            BY <2>2, <2>5, PlanTails
        <3> QED BY <2>2, <2>5, <3>1
    <2> QED BY <2>1, <2>3, <2>4, <2>5
<1> HIDE DEF c, d
<1>10. PlansOK'
    <2> SUFFICES ASSUME NEW q \in Requests, request'[q].todo # <<>> PROVE FollowsPlan(q)'
        BY DEF PlansOK, Operates
    <2>1. CASE q = r
        <3>1. /\ d.user \in Users /\ d.op \in Operations /\ d.at = "write"
              /\ d.todo = Tail(Plan(d.op)) \/ (d.op = "password" /\ d.todo = <<"issue">>)
            BY <1>3, <1>6, <1>7, <1>8, <1>9, <2>1 DEF FollowsPlan, c
        <3>2. d.op = "login" => d.was.status = "active"
            BY <1>1, <1>3, <1>7, <1>8, <2>1 DEF FollowsPlan, c
        <3> QED BY <1>8, <2>1, <3>1, <3>2 DEF FollowsPlan
    <2>2. CASE q # r
        BY <1>8, <2>2 DEF DisabledInv, PlansOK, Operates, FollowsPlan
    <2> QED BY <2>1, <2>2
<1>11. ASSUME ~crossed PROVE OneOperation' /\ ReadIsCurrent'
    <2>1. \A q \in Requests : request[q].todo # <<>> => q = r
        BY <1>2, <1>11 DEF DisabledInv, OneOperation, Operates, c
    <2>2. \A q \in Requests : request'[q].todo # <<>> => q = r
        BY <1>8, <2>1
    <2> QED BY <1>7, <1>8, <1>9, <2>2 DEF OneOperation, ReadIsCurrent, Operates
<1>12. \A q \in Requests : request'[q].at \in Holds => request'[q] = request[q]
    BY <1>6, <1>8
<1>13. WritesFollow(r, what)
    BY <1>1, <1>2, <1>3, <1>6, <1>7, <1>8, <1>12 DEF WritesFollow, c
<1> QED BY <1>10, <1>11, <1>13

\* A lone operation whose next write is not the revocation leaves no disabled member's token
\* waiting for one.
LEMMA NobodyAwaits ==
    ASSUME DisabledInv, ~crossed, NEW r \in Requests, NEW what, WritesFollow(r, what),
           NEW t \in DOMAIN token, ~token[t].revoked, account[token[t].user].status = "disabled",
           token[t].user \notin reopened
    PROVE  what = "revoke" /\ request[r].user = token[t].user
<1>1. PICK q \in Requests : request[q].todo = <<"revoke">> /\ request[q].user = token[t].user
    BY DEF DisabledInv, DisabledCovered, AwaitsRevoke
<1>2. q = r
    BY <1>1, <<"revoke">> # <<>> DEF DisabledInv, OneOperation, Operates, WritesFollow
<1> QED BY <1>1, <1>2, Head(<<"revoke">>) = "revoke" DEF WritesFollow

LEMMA WriteAccountKeepsDisabled ==
    ASSUME IdentityInv, DisabledInv, NEW r \in Requests, WriteAccount(r) PROVE DisabledInv'
<1> DEFINE u == request[r].user
           op == request[r].op
<1>1. UNCHANGED <<token, crossed, reopened>> /\ Do(r, "write")
    BY DEF WriteAccount, TokensKeep
<1>2. WritesFollow(r, "write") /\ PlansOK' /\ (~crossed => OneOperation' /\ ReadIsCurrent')
    BY <1>1, DoFollows
<1>3. OwnersKnown'
    BY <1>1, <1>2 DEF DisabledInv, OwnersKnown, WritesFollow
<1>4. u \in Users /\ account \in [Users -> Accounts] /\ request[r].was \in Accounts
    BY <1>2 DEF IdentityInv, IdentityTypes, CallRecords, WritesFollow, FollowsPlan
<1>5. account' = [account EXCEPT ![u] = Changed(op, request[r].was)]
    BY DEF WriteAccount
<1>6. request[r].todo = Plan(op)
    BY <1>2, PlanTails DEF WritesFollow, FollowsPlan
<1>7. op = "disable" => request'[r].todo = <<"revoke">> /\ request'[r].user = u
    BY <1>2, <1>6, PlanTails, <<"revoke">> # <<>> DEF WritesFollow
<1>8. op # "disable" /\ Changed(op, request[r].was).status = "disabled" =>
          request[r].was.status = "disabled"
    BY <1>4 DEF Changed, Accounts
<1>9. ASSUME ~crossed PROVE DisabledCovered'
    <2>1. request[r].was = account[u]
        BY <1>2, <1>6, <1>9 DEF DisabledInv, ReadIsCurrent, Operates, WritesFollow
    <2> SUFFICES ASSUME NEW t \in DOMAIN token, ~token[t].revoked,
                        account'[token[t].user].status = "disabled", token[t].user \notin reopened
                 PROVE  \E q \in Requests : request'[q].todo = <<"revoke">> /\ request'[q].user = token[t].user
        BY <1>1 DEF DisabledCovered, AwaitsRevoke
    <2>2. account[token[t].user].status # "disabled"
        BY <1>2, <1>9, NobodyAwaits
    <2>3. token[t].user \in Users
        BY DEF DisabledInv, OwnersKnown
    <2> HIDE DEF u, op
    <2>4. token[t].user = u /\ op = "disable"
        BY <1>4, <1>5, <1>8, <2>1, <2>2, <2>3
    <2> QED BY <1>7, <2>4
<1> QED BY <1>1, <1>2, <1>3, <1>9 DEF DisabledInv

LEMMA EraseAccountKeepsDisabled ==
    ASSUME IdentityInv, DisabledInv, NEW r \in Requests, EraseAccount(r) PROVE DisabledInv'
<1>1. UNCHANGED <<token, crossed, reopened>> /\ Do(r, "erase")
    BY DEF EraseAccount, TokensKeep
<1>2. WritesFollow(r, "erase") /\ PlansOK' /\ (~crossed => OneOperation' /\ ReadIsCurrent')
    BY <1>1, DoFollows
<1>3. OwnersKnown'
    BY <1>1, <1>2 DEF DisabledInv, OwnersKnown, WritesFollow
<1>4. account' = [account EXCEPT ![request[r].user] = NoAccount] /\ NoAccount.status # "disabled"
    BY DEF EraseAccount, NoAccount
<1>5. ASSUME ~crossed PROVE DisabledCovered'
    <2> SUFFICES ASSUME NEW t \in DOMAIN token, ~token[t].revoked,
                        account'[token[t].user].status = "disabled", token[t].user \notin reopened
                 PROVE  FALSE
        BY <1>1 DEF DisabledCovered
    <2>1. account[token[t].user].status # "disabled"
        BY <1>2, <1>5, NobodyAwaits
    <2>2. token[t].user \in Users /\ account \in [Users -> Accounts]
        BY DEF DisabledInv, OwnersKnown, IdentityInv, IdentityTypes
    <2> QED BY <1>4, <2>1, <2>2
<1> QED BY <1>1, <1>2, <1>3, <1>5 DEF DisabledInv

LEMMA RevokeAllKeepsDisabled ==
    ASSUME IdentityInv, DisabledInv, NEW r \in Requests, RevokeAll(r) PROVE DisabledInv'
<1>1. UNCHANGED <<account, crossed>> /\ Do(r, "revoke") /\ reopened' = reopened \ {request[r].user}
    BY DEF RevokeAll
<1>2. WritesFollow(r, "revoke") /\ PlansOK' /\ (~crossed => OneOperation' /\ ReadIsCurrent')
    BY <1>1, DoFollows
<1>3. \A t \in DOMAIN token : token[t] \in Tokens
    BY DEF IdentityInv, IdentityTypes
<1>4. \A t \in DOMAIN token : LET gone == [token[t] EXCEPT !.revoked = TRUE] IN
          gone.revoked /\ gone.user = token[t].user
    BY <1>3 DEF Tokens
<1>5. DOMAIN token' = DOMAIN token
      /\ \A t \in DOMAIN token : /\ token'[t].user = token[t].user
                                 /\ ~token'[t].revoked => /\ ~token[t].revoked
                                                          /\ token[t].user # request[r].user
    BY <1>4 DEF RevokeAll
<1>6. UsersKept /\ HeldKept
    BY <1>2, <1>5 DEF UsersKept, HeldKept, WritesFollow
<1>7. OwnersKnown'
    BY <1>6, OwnersKeep DEF DisabledInv
<1>8. ASSUME ~crossed PROVE DisabledCovered'
    <2> SUFFICES ASSUME NEW t \in DOMAIN token, ~token'[t].revoked,
                        account[token'[t].user].status = "disabled", token'[t].user \notin reopened
                 PROVE  FALSE
        BY <1>1, <1>5 DEF DisabledCovered
    <2> QED BY <1>2, <1>5, <1>8, NobodyAwaits
<1> QED BY <1>1, <1>2, <1>7, <1>8 DEF DisabledInv

LEMMA IssueKeepsDisabled ==
    ASSUME IdentityInv, DisabledInv, NEW r \in Requests, IssueToken(r) PROVE DisabledInv'
<1> DEFINE u == request[r].user
<1>1. /\ UNCHANGED <<account, crossed>> /\ Do(r, "issue") /\ token' = Append(token, NewRecord(u))
      /\ reopened \subseteq reopened'
      /\ request[r].op = "password" /\ account[u].status = "disabled" => u \in reopened'
    BY DEF IssueToken
<1>2. WritesFollow(r, "issue") /\ PlansOK' /\ (~crossed => OneOperation' /\ ReadIsCurrent')
    BY <1>1, DoFollows
<1>3. u \in Users /\ NewRecord(u).user = u /\ token \in Seq(Tokens)
    BY <1>2 DEF WritesFollow, FollowsPlan, NewRecord, IdentityInv, IdentityTypes
<1>4. request[r].op = "password" \/ (request[r].op = "login" /\ request[r].todo = Plan("login"))
    <2>1. Head(request[r].todo) = "issue" /\ request[r].todo # <<>> /\ FollowsPlan(r)
        BY <1>2 DEF WritesFollow
    <2>2. CASE request[r].todo = Tail(Plan(request[r].op))
        BY <2>1, <2>2, PlanTails
    <2>3. CASE request[r].todo = Plan(request[r].op)
        BY <2>1, <2>3, PlanTails
    <2> QED BY <2>1, <2>2, <2>3 DEF FollowsPlan
<1>5. request[r].op = "login" => request[r].was.status = "active"
    <2>1. request[r].at = "write"
        BY <1>1 DEF Do, Is
    <2> QED BY <1>2, <2>1 DEF WritesFollow, FollowsPlan
<1>6. ~crossed /\ request[r].op = "login" => account[u].status = "active"
    BY <1>2, <1>4, <1>5 DEF DisabledInv, ReadIsCurrent, Operates, WritesFollow
<1> HIDE DEF u
<1>7. DOMAIN token' = DOMAIN token \cup {Len(token) + 1}
      /\ token'[Len(token) + 1] = NewRecord(u)
      /\ \A t \in DOMAIN token : token'[t] = token[t]
    BY <1>1, <1>3
<1>8. UsersKept
    BY <1>3, <1>7 DEF UsersKept
<1>9. OwnersKnown'
    <2>1. HeldKept
        BY <1>2 DEF HeldKept, WritesFollow
    <2> QED BY <1>8, <2>1, OwnersKeep DEF DisabledInv
<1>10. ASSUME ~crossed PROVE DisabledCovered'
    <2> SUFFICES ASSUME NEW t \in DOMAIN token', ~token'[t].revoked,
                        account[token'[t].user].status = "disabled", token'[t].user \notin reopened'
                 PROVE  FALSE
        BY <1>1 DEF DisabledCovered
    <2>1. token'[t].user \notin reopened
        BY <1>1
    <2>2. CASE t \in DOMAIN token
        BY <1>2, <1>7, <1>10, <2>1, <2>2, NobodyAwaits, "issue" # "revoke"
    <2>3. CASE t = Len(token) + 1
        BY <1>1, <1>3, <1>4, <1>6, <1>7, <1>10, <2>3
    <2> QED BY <1>7, <2>2, <2>3
<1> QED BY <1>1, <1>2, <1>9, <1>10 DEF DisabledInv

LEMMA StepKeepsDisabled ==
    IdentityInv /\ DisabledInv /\ [IdentityNext]_identityVars => DisabledInv'
<1> SUFFICES ASSUME IdentityInv, DisabledInv, [IdentityNext]_identityVars PROVE DisabledInv'
    OBVIOUS
<1>1. ASSUME NEW r \in Requests, NEW t \in 1 .. MaxTokens, RotateRead(r, t) \/ LogoutRead(r, t)
      PROVE  DisabledInv'
    BY <1>1, TokenStepsKeepDisabled
<1>2. ASSUME NEW r \in Requests,
             \/ RotateCheckUser(r) \/ RotateRefuse(r) \/ RotateSwap(r) \/ ChainStep(r)
             \/ ChainKill(r) \/ LogoutWrite(r)
      PROVE  DisabledInv'
    BY <1>2, TokenStepsKeepDisabled
<1>3. ASSUME NEW r \in Requests, NEW u \in Users, NEW op \in Operations, StartOperation(r, u, op)
      PROVE  DisabledInv'
    BY <1>3, StartOperationKeepsDisabled
<1>4. ASSUME NEW r \in Requests,
             Guard(r) \/ WriteAccount(r) \/ EraseAccount(r) \/ RevokeAll(r) \/ IssueToken(r)
      PROVE  DisabledInv'
    BY <1>4, GuardKeepsDisabled, WriteAccountKeepsDisabled, EraseAccountKeepsDisabled,
       RevokeAllKeepsDisabled, IssueKeepsDisabled
<1>5. CASE UNCHANGED identityVars
    BY <1>5 DEF identityVars, DisabledInv, OwnersKnown, PlansOK, Operates, FollowsPlan, OneOperation,
                ReadIsCurrent, DisabledCovered, AwaitsRevoke
<1> QED BY <1>1, <1>2, <1>3, <1>4, <1>5 DEF IdentityNext

\* A disabled member has no live refresh token once the call that disabled them has
\* answered (identity/service.py 486-504), whatever rotations and logouts run meanwhile, as
\* long as account operations (a login is one) come one at a time, except one that a later
\* change of the password has handed out.
THEOREM DisabledHasNoSessionHolds == IdentitySpec => []DisabledHasNoSession
<1>1. DisabledInv => DisabledHasNoSession
    <2> SUFFICES ASSUME DisabledInv, ~crossed, \A r \in Requests : request[r].todo = <<>>,
                        NEW t \in DOMAIN token, ~token[t].revoked,
                        account[token[t].user].status = "disabled", token[t].user \notin reopened
                 PROVE  FALSE
        BY DEF DisabledHasNoSession, Quiet, LiveToken, Alive
    <2> QED BY <<"revoke">> # <<>> DEF DisabledInv, DisabledCovered, AwaitsRevoke
<1> QED
    BY <1>1, StartsSingle, StepKeepsSingle, DisabledStarts, StepKeepsDisabled, PTL DEF IdentitySpec
=============================================================================
