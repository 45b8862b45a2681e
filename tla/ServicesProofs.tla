--------------------------- MODULE ServicesProofs ---------------------------
(***************************************************************************)
(* Three components that work beside the turn broker, for any number of    *)
(* clients, explorers and tool calls: what a client reads of a turn is the *)
(* turn's buffer, an explorer is reported once and not forgotten, and the  *)
(* tool calls of a session share one sandbox.                              *)
(***************************************************************************)
EXTENDS Subagents, TurnTail, BringUp, TLAPS, FiniteSetTheorems

-----------------------------------------------------------------------------
(* Sequences.                                                              *)

LEMMA SubSeqGrows ==
    ASSUME NEW S, NEW s \in Seq(S), NEW a \in Nat, NEW b \in Nat, a <= b, b < Len(s)
    PROVE  Append(SubSeq(s, a + 1, b), s[b + 1]) = SubSeq(s, a + 1, b + 1)
OBVIOUS

LEMMA SubSeqOfAppend ==
    ASSUME NEW S, NEW s \in Seq(S), NEW e \in S, NEW a \in Nat, NEW b \in Nat, b <= Len(s)
    PROVE  SubSeq(Append(s, e), a + 1, b) = SubSeq(s, a + 1, b)
OBVIOUS

-----------------------------------------------------------------------------
(* The event stream.  A chunk ends where the buffer ended when it was      *)
(* taken, and the end of the turn is read with it; the buffer only grows   *)
(* and grows after the end of the turn only when an event is late.         *)

ClientStates ==
    [at : {"away", "waiting", "sending", "ended", "loaded", "settled"},
     i : Nat, upto : Nat, last : BOOLEAN, from : Nat, got : Seq(Nat),
     shown : SUBSET Nat, next : BOOLEAN, opened : Nat]

TailTypeOK ==
    /\ saved \in Nat /\ pushed \in Seq(Nat)
    /\ over \in BOOLEAN /\ followed \in BOOLEAN /\ swept \in BOOLEAN /\ late \in BOOLEAN
    /\ client \in [Clients -> ClientStates]

\* Only a turn that is over has left messages, and then it has its follow-up.
TurnInv ==
    /\ driver = "driving" => ~over /\ ~swept
    /\ swept => followed

ReadsTheBuffer(r) ==
    r.from <= r.i /\ r.i <= Len(pushed) /\ r.got = SubSeq(pushed, r.from + 1, r.i)

HasAll(r) ==
    r.from <= Len(pushed) /\ r.got = SubSeq(pushed, r.from + 1, Len(pushed))

StreamInv(r) ==
    /\ r.at \in {"waiting", "sending"} => ReadsTheBuffer(r)
    /\ r.at = "sending" => r.i <= r.upto /\ r.upto <= Len(pushed) /\ (r.last => over)
    /\ r.at = "sending" /\ r.last /\ ~late => r.upto = Len(pushed)
    /\ r.at = "ended" => over /\ (swept => r.next)
    /\ r.at = "ended" /\ ~late => HasAll(r)

TailInv == TailTypeOK /\ TurnInv /\ \A c \in Clients : StreamInv(client[c])

LEMMA TailStarts == TailInit => TailInv
<1> SUFFICES ASSUME TailInit PROVE TailInv
    OBVIOUS
<1>1. Away \in ClientStates /\ Away.at = "away"
    BY DEF Away, ClientStates
<1>2. over \in BOOLEAN /\ followed \in BOOLEAN /\ swept \in BOOLEAN /\ late \in BOOLEAN
    BY DEF TailInit
<1>5. saved \in Nat /\ pushed \in Seq(Nat)
    BY DEF TailInit
<1>3. client \in [Clients -> ClientStates]
    BY <1>1 DEF TailInit
<1>4. TurnInv
    BY DEF TailInit, TurnInv
<1> QED
    BY <1>1, <1>2, <1>3, <1>4, <1>5 DEF TailInit, TailInv, TailTypeOK, StreamInv

\* A step of the driver leaves what each client has read untouched.
LEMMA DriverKeepsStreams ==
    ASSUME TailInv, UNCHANGED client, over => over', late => late', UNCHANGED swept \/ ~over,
           pushed' = pushed \/ \E e \in Nat : pushed' = Append(pushed, e) /\ late' = (late \/ over)
    PROVE  \A c \in Clients : StreamInv(client[c])'
<1> SUFFICES ASSUME NEW c \in Clients PROVE StreamInv(client[c])'
    OBVIOUS
<1> DEFINE r == client[c]
<1>1. StreamInv(r) /\ r' = r /\ r \in ClientStates /\ pushed \in Seq(Nat) /\ over \in BOOLEAN
      /\ late \in BOOLEAN /\ swept \in BOOLEAN
    BY DEF TailInv, TailTypeOK
<1>2. CASE pushed' = pushed
    BY <1>1, <1>2 DEF StreamInv, ReadsTheBuffer, HasAll, ClientStates
<1>3. ASSUME NEW e \in Nat, pushed' = Append(pushed, e), late' = (late \/ over)
      PROVE  StreamInv(client[c])'
    <2>1. Len(pushed') = Len(pushed) + 1 /\ Len(pushed) \in Nat
        BY <1>1, <1>3
    <2>2. r.at \in {"waiting", "sending"} => ReadsTheBuffer(r)'
        BY <1>1, <1>3, <2>1, SubSeqOfAppend DEF StreamInv, ReadsTheBuffer, ClientStates
    <2>3. r.at = "sending" => r.upto <= Len(pushed') /\ (r.last => late' /\ over')
        BY <1>1, <1>3, <2>1 DEF StreamInv, ClientStates
    <2>4. r.at = "ended" => late' /\ over' /\ (swept' => r.next)
        BY <1>1, <1>3 DEF StreamInv
    <2> QED
        BY <1>1, <2>2, <2>3, <2>4 DEF StreamInv
<1> QED
    BY <1>2, <1>3

\* A step of one client leaves the other clients and the turn alone.
LEMMA ClientStepKeeps ==
    ASSUME TailInv, DriverKeeps, NEW c \in Clients, NEW r \in ClientStates,
           client' = [client EXCEPT ![c] = r], StreamInv(r)
    PROVE  TailInv'
<1>1. StreamInv(r)' /\ \A d \in Clients : StreamInv(client[d]) => StreamInv(client[d])' \/ d = c
    BY DEF DriverKeeps, StreamInv, ReadsTheBuffer, HasAll, TailInv, TailTypeOK
<1>2. TailTypeOK' /\ TurnInv'
    BY DEF TailInv, TailTypeOK, TurnInv, DriverKeeps
<1>3. \A d \in Clients : client'[d] = IF d = c THEN r ELSE client[d]
    BY DEF TailInv, TailTypeOK
<1> QED
    BY <1>1, <1>2, <1>3 DEF TailInv

LEMMA TailStep == TailInv /\ [TailNext]_tailVars => TailInv'
<1> SUFFICES ASSUME TailInv, [TailNext]_tailVars PROVE TailInv'
    OBVIOUS
<1>0. TailTypeOK /\ TurnInv /\ \A c \in Clients : StreamInv(client[c]) /\ client[c] \in ClientStates
    BY DEF TailInv, TailTypeOK
<1>00. Len(pushed) \in Nat
    BY <1>0 DEF TailTypeOK
<1>1. CASE SaveEvent \/ CancelDriver
    BY <1>0, <1>1, DriverKeepsStreams
       DEF SaveEvent, CancelDriver, ClientsKeep, TailInv, TailTypeOK, TurnInv
<1>2. CASE Push
    <2>1. saved \in Nat /\ pushed' = Append(pushed, saved) /\ late' = (late \/ over)
        BY <1>0, <1>2 DEF Push, TailTypeOK
    <2>2. TailTypeOK' /\ TurnInv'
        BY <1>0, <1>2, <2>1 DEF Push, ClientsKeep, TailTypeOK, TurnInv
    <2> QED
        BY <1>2, <2>1, <2>2, DriverKeepsStreams DEF Push, ClientsKeep, TailInv
<1>3. CASE EndOfRound
    BY <1>0, <1>3, DriverKeepsStreams
       DEF EndOfRound, FinishDone, ClientsKeep, TailInv, TailTypeOK, TurnInv
<1>4. CASE FinishError \/ GiveUpWaiting \/ FinishAborted
    <2>1. driver' # "driving" /\ over' /\ UNCHANGED <<pushed, followed, swept, late, client>>
        BY <1>4 DEF FinishError, GiveUpWaiting, FinishAborted, ClientsKeep
    <2>2. over' \in BOOLEAN
        BY <1>4 DEF FinishError, GiveUpWaiting, FinishAborted
    <2>3. saved' \in Nat
        BY <1>0, <1>4 DEF FinishError, GiveUpWaiting, FinishAborted, TailTypeOK
    <2>4. TailTypeOK' /\ TurnInv'
        BY <1>0, <2>1, <2>2, <2>3 DEF TailTypeOK, TurnInv
    <2> QED
        BY <2>1, <2>4, DriverKeepsStreams DEF TailInv
<1>5. ASSUME NEW c \in Clients, TakeChunk(c) PROVE TailInv'
    <2> DEFINE r == [client[c] EXCEPT !.at = "sending", !.upto = Len(pushed), !.last = over]
    <2>1. client' = [client EXCEPT ![c] = r] /\ DriverKeeps
        BY <1>0, <1>5 DEF TakeChunk, TailTypeOK, ClientStates
    <2>2. client[c] \in ClientStates /\ over \in BOOLEAN
        BY <1>0 DEF TailTypeOK
    <2>3. r \in ClientStates /\ r.at = "sending" /\ r.upto = Len(pushed) /\ r.last = over
          /\ r.i = client[c].i /\ r.from = client[c].from /\ r.got = client[c].got
        BY <1>00, <2>2 DEF ClientStates
    <2>4. ReadsTheBuffer(client[c])
        BY <1>0, <1>5 DEF TakeChunk, StreamInv
    <2>5. StreamInv(r)
        BY <1>00, <2>3, <2>4 DEF StreamInv, ReadsTheBuffer
    <2> HIDE DEF r
    <2> QED
        BY <2>1, <2>3, <2>5, ClientStepKeeps
<1>6. ASSUME NEW c \in Clients, SendOne(c) PROVE TailInv'
    <2> DEFINE e == pushed[client[c].i + 1]
               r == [client[c] EXCEPT !.i = client[c].i + 1, !.got = Append(client[c].got, e),
                                      !.shown = client[c].shown \cup {e}]
    <2>1. client' = [client EXCEPT ![c] = r] /\ DriverKeeps
        BY <1>0, <1>6 DEF SendOne, TailTypeOK, ClientStates
    <2>2. /\ client[c] \in ClientStates /\ client[c].at = "sending"
          /\ client[c].i < client[c].upto /\ client[c].upto <= Len(pushed)
          /\ pushed \in Seq(Nat) /\ ReadsTheBuffer(client[c])
        BY <1>0, <1>6 DEF SendOne, StreamInv, TailTypeOK
    <2>3. e \in Nat
        <3>1. client[c].i + 1 \in 1 .. Len(pushed)
            BY <1>00, <2>2 DEF ClientStates
        <3> QED BY <2>2, <3>1
    <2>7. client[c].got \in Seq(Nat) /\ client[c].shown \in SUBSET Nat /\ client[c].i \in Nat
        BY <2>2 DEF ClientStates
    <2>8. Append(client[c].got, e) \in Seq(Nat) /\ client[c].shown \cup {e} \in SUBSET Nat
          /\ client[c].i + 1 \in Nat
        BY <2>3, <2>7
    <2>4. Append(SubSeq(pushed, client[c].from + 1, client[c].i), e) =
             SubSeq(pushed, client[c].from + 1, client[c].i + 1)
        <3>1. client[c].from \in Nat /\ client[c].i \in Nat /\ client[c].from <= client[c].i
              /\ client[c].i < Len(pushed)
            BY <1>00, <2>2 DEF ClientStates, ReadsTheBuffer
        <3> QED BY <2>2, <3>1, SubSeqGrows
    <2> HIDE DEF e
    <2>5. r \in ClientStates /\ r.i = client[c].i + 1 /\ r.got = Append(client[c].got, e)
          /\ r.at = client[c].at /\ r.from = client[c].from /\ r.upto = client[c].upto
          /\ r.last = client[c].last
        <3> DEFINE n == client[c].i + 1
                   g == Append(client[c].got, e)
                   sh == client[c].shown \cup {e}
        <3>1. client[c] \in ClientStates /\ n \in Nat /\ g \in Seq(Nat) /\ sh \in SUBSET Nat
            BY <2>2, <2>8
        <3>2. r = [client[c] EXCEPT !.i = n, !.got = g, !.shown = sh]
            OBVIOUS
        <3> HIDE DEF n, g, sh, r
        <3>3. r \in ClientStates /\ r.i = n /\ r.got = g
              /\ r.at = client[c].at /\ r.from = client[c].from /\ r.upto = client[c].upto
              /\ r.last = client[c].last
            BY <3>1, <3>2 DEF ClientStates
        <3> QED BY <3>3 DEF n, g
    <2> HIDE DEF r
    <2>6. client[c].i \in Nat /\ client[c].upto \in Nat /\ client[c].from \in Nat
        BY <2>2 DEF ClientStates
    <2>9. ReadsTheBuffer(r)
        <3>1. r.got = SubSeq(pushed, r.from + 1, r.i)
            BY Zenon, <2>2, <2>4, <2>5 DEF ReadsTheBuffer
        <3>2. r.from <= r.i /\ r.i <= Len(pushed)
            <4>1. client[c].from <= client[c].i
                BY <2>2 DEF ReadsTheBuffer
            <4> QED BY <1>00, <2>2, <2>5, <2>6, <4>1
        <3> QED BY <3>1, <3>2 DEF ReadsTheBuffer
    <2>10. StreamInv(r)
        BY <1>0, <2>2, <2>5, <2>6, <2>9 DEF StreamInv
    <2> QED
        BY <2>1, <2>5, <2>10, ClientStepKeeps
<1>7. ASSUME NEW c \in Clients, ChunkDone(c) PROVE TailInv'
    <2> DEFINE r == [client[c] EXCEPT !.at = IF IsLast(c) THEN "ended" ELSE "waiting",
                                      !.i = NextFrom(c), !.next = (IsLast(c) /\ followed)]
    <2>1. client' = [client EXCEPT ![c] = r] /\ DriverKeeps
        BY <1>0, <1>7 DEF ChunkDone, TailTypeOK, ClientStates
    <2>2. r \in ClientStates /\ r.at = (IF IsLast(c) THEN "ended" ELSE "waiting")
          /\ r.i = client[c].i /\ r.from = client[c].from /\ r.got = client[c].got
          /\ r.next = (IsLast(c) /\ followed)
        <3>1. (IsLast(c) /\ followed) \in BOOLEAN
            BY DEF IsLast
        <3>2. (IF IsLast(c) THEN "ended" ELSE "waiting") \in {"ended", "waiting"}
            OBVIOUS
        <3> QED BY <1>0, <3>1, <3>2 DEF ClientStates, NextFrom
    <2>3. ReadsTheBuffer(client[c]) /\ (client[c].last => over)
        BY <1>0, <1>7 DEF ChunkDone, StreamInv
    <2>4. IsLast(c) => client[c].i = Len(pushed)
        BY <1>0, <2>3 DEF IsLast, ReadsTheBuffer, ClientStates, TailTypeOK
    <2>5. CASE IsLast(c)
        <3>1. r.at = "ended" /\ over /\ (swept => r.next)
            BY <1>0, <2>2, <2>3, <2>5 DEF TurnInv, IsLast
        <3>2. HasAll(r)
            BY <2>2, <2>3, <2>4, <2>5 DEF ReadsTheBuffer, HasAll
        <3> QED BY <2>1, <2>2, <3>1, <3>2, ClientStepKeeps DEF StreamInv
    <2>6. CASE ~IsLast(c)
        <3>1. r.at = "waiting" /\ ReadsTheBuffer(r)
            BY <2>2, <2>3, <2>6 DEF ReadsTheBuffer
        <3> QED BY <2>1, <2>2, <3>1, ClientStepKeeps DEF StreamInv
    <2> QED
        BY <2>5, <2>6
<1>8. ASSUME NEW c \in Clients, NEW cursor \in 0 .. Len(pushed), NEW shown \in SUBSET Nat,
             NEW n \in Nat, DriverKeeps,
             client' = [client EXCEPT ![c] = [Attached(c, cursor, shown) EXCEPT !.opened = n]]
      PROVE  TailInv'
    <2> DEFINE r == [Attached(c, cursor, shown) EXCEPT !.opened = n]
    <2>1. cursor \in Nat /\ cursor <= Len(pushed) /\ pushed \in Seq(Nat)
        BY <1>0, <1>8 DEF TailTypeOK
    <2>2. r \in ClientStates /\ r.at = "waiting" /\ r.i = cursor /\ r.from = cursor /\ r.got = <<>>
        BY <1>0, <2>1, <<>> \in Seq(Nat) DEF Attached, ClientStates
    <2>3. StreamInv(r)
        <3>1. SubSeq(pushed, cursor + 1, cursor) = <<>>
            BY <2>1
        <3> HIDE DEF r
        <3> QED BY <2>1, <2>2, <3>1 DEF StreamInv, ReadsTheBuffer
    <2> HIDE DEF r
    <2> QED
        BY <1>8, <2>2, <2>3, ClientStepKeeps DEF r
<1>9. ASSUME NEW c \in Clients, NEW r \in ClientStates, DriverKeeps,
             r.at \in {"away", "loaded", "settled"}, client' = [client EXCEPT ![c] = r]
      PROVE  TailInv'
    BY <1>9, ClientStepKeeps DEF StreamInv
<1>10. ASSUME NEW c \in Clients, OpenStream(c) PROVE TailInv'
    <2>1. PICK cursor \in 0 .. Len(pushed) :
              client' = [client EXCEPT ![c] = [Attached(c, cursor, {}) EXCEPT !.opened = @ + 1]]
        BY <1>10 DEF OpenStream
    <2>2. Attached(c, cursor, {}).opened = client[c].opened /\ client[c].opened \in Nat
        BY <1>0 DEF Attached, ClientStates
    <2>3. cursor \in 0 .. Len(pushed) /\ client[c].opened + 1 \in Nat
        BY <1>00, <2>1, <2>2
    <2>4. client' = [client EXCEPT ![c] =
                        [Attached(c, cursor, {}) EXCEPT !.opened = client[c].opened + 1]]
        BY <2>1, <2>2
    <2>5. DriverKeeps
        BY <1>10 DEF OpenStream
    <2> QED
        BY <1>8, <2>3, <2>4, <2>5
<1>11. ASSUME NEW c \in Clients, LoadSession(c) PROVE TailInv'
    <2> DEFINE r == [Away EXCEPT !.at = "loaded", !.shown = 1 .. saved,
                                 !.opened = client[c].opened + 1]
    <2>2. 1 .. saved \in SUBSET Nat /\ client[c].opened + 1 \in Nat
        BY <1>0 DEF TailTypeOK, ClientStates
    <2>1. r \in ClientStates /\ r.at = "loaded"
        BY <2>2, <<>> \in Seq(Nat) DEF Away, ClientStates
    <2> QED
        BY <1>9, <1>11, <2>1 DEF LoadSession
<1>12. ASSUME NEW c \in Clients, AskLatest(c) PROVE TailInv'
    <2>1. CASE over
        <3> DEFINE r == [client[c] EXCEPT !.at = "settled"]
        <3>1. r \in ClientStates /\ r.at = "settled"
            BY <1>0 DEF ClientStates
        <3>2. client' = [client EXCEPT ![c] = r] /\ DriverKeeps
            BY <1>12, <2>1 DEF AskLatest
        <3> HIDE DEF r
        <3> QED BY <1>9, <3>1, <3>2
    <2>2. CASE ~over
        <3> DEFINE r == Attached(c, 0, client[c].shown)
        <3>1. r = [r EXCEPT !.opened = client[c].opened]
            BY <1>0 DEF Attached, ClientStates
        <3>2. client' = [client EXCEPT ![c] = [r EXCEPT !.opened = client[c].opened]] /\ DriverKeeps
            BY <1>12, <2>2, <3>1 DEF AskLatest
        <3>3. 0 \in 0 .. Len(pushed) /\ client[c].shown \in SUBSET Nat /\ client[c].opened \in Nat
            BY <1>0 DEF TailTypeOK, ClientStates
        <3> QED BY <1>8, <3>2, <3>3
    <2> QED BY <2>1, <2>2
<1>13. ASSUME NEW c \in Clients, Disconnect(c) PROVE TailInv'
    <2>1. [Away EXCEPT !.opened = client[c].opened] \in ClientStates
          /\ [Away EXCEPT !.opened = client[c].opened].at = "away"
        <3>1. client[c].opened \in Nat
            BY <1>0 DEF ClientStates
        <3> QED BY <3>1, <<>> \in Seq(Nat) DEF Away, ClientStates
    <2> QED BY <1>9, <1>13, <2>1 DEF Disconnect
<1>14. CASE UNCHANGED tailVars
    BY <1>0, <1>14, DriverKeepsStreams DEF tailVars, TailInv, TailTypeOK, TurnInv
<1> QED
    BY <1>1, <1>2, <1>3, <1>4, <1>5, <1>6, <1>7, <1>10, <1>11, <1>12, <1>13, <1>14 DEF TailNext

\* A client that follows a turn has received the buffer from its cursor on, and all of it
\* when its stream ended; the end of a turn that left messages names the follow-up
\* (Turn.tail of service/turns.py and the turn_end of service/turn_routes.py).
THEOREM StreamIsExactHolds == TailSpec => []StreamIsExact
<1>1. TailInv => StreamIsExact
    BY DEF TailInv, StreamInv, ReadsTheBuffer, HasAll, StreamIsExact, Streaming
<1> QED
    BY <1>1, TailStarts, TailStep, PTL DEF TailSpec

-----------------------------------------------------------------------------
(* The explorers.  While no two collects overlap, the one collect under    *)
(* way waits for explorers of the session's bucket, the bucket holds       *)
(* nothing that was reported, and what the running turn spawned leaves it  *)
(* only by being reported or told to stop.                                 *)

CallStates == [at : {"none", "waiting"}, bucket : Nat, of : SUBSET Kids,
               mode : {"all", "first_done"}, timed : BOOLEAN]

BucketsOK == \E n \in Nat : buckets \in [1 .. n -> SUBSET Kids] /\ registered \in 0 .. n

SubTypeOK ==
    /\ kid \in [Kids -> {"unborn", "queued", "running", "cancelling", "done", "cancelled"}]
    /\ spawner \in [Kids -> Nat] /\ reports \in [Kids -> Nat] /\ turnNr \in Nat
    /\ call \in [Calls -> CallStates]
    /\ BucketsOK

KidInv == \A k \in Kids : spawner[k] <= turnNr /\ (reports[k] > 0 => TaskDone(k))

Waits(c) == call[c].at = "waiting"
OneCollect == \A c, d \in Calls : Waits(c) /\ Waits(d) => c = d
CollectsFromBucket ==
    \A c \in Calls : Waits(c) =>
        /\ turnState = "running" /\ call[c].bucket = registered
        /\ call[c].of # {} /\ call[c].of \subseteq InBucket(registered)
BucketIsNews == \A k \in InBucket(registered) : reports[k] = 0
AtWork(k) == kid[k] \in {"queued", "running"}
WorkHasItsTurn ==
    ~strayed => \A k \in Kids : AtWork(k) => turnState = "running" /\ spawner[k] = turnNr

AloneInv ==
    ~overlapped => OneCollect /\ CollectsFromBucket /\ BucketIsNews /\ WorkHasItsTurn

SubInv == SubTypeOK /\ KidInv /\ AloneInv /\ ReportedOnce /\ NoneForgotten

LEMMA SubStarts == SubInit => SubInv
<1> SUFFICES ASSUME SubInit PROVE SubInv
    OBVIOUS
<1>1. NoCall \in CallStates /\ NoCall.at = "none"
    BY DEF NoCall, CallStates
<1>2. BucketsOK
    <2>1. buckets \in [1 .. 0 -> SUBSET Kids] /\ registered \in 0 .. 0
        BY DEF SubInit
    <2> QED BY <2>1 DEF BucketsOK
<1>3. SubTypeOK /\ KidInv
    BY <1>1, <1>2 DEF SubInit, SubTypeOK, KidInv
<1>4. AloneInv
    BY <1>1 DEF SubInit, AloneInv, OneCollect, CollectsFromBucket, Waits, BucketIsNews, InBucket,
                WorkHasItsTurn, AtWork
<1>5. ReportedOnce /\ NoneForgotten
    BY DEF SubInit, ReportedOnce, NoneForgotten
<1> QED
    BY <1>3, <1>4, <1>5 DEF SubInv

-----------------------------------------------------------------------------
(* Taking explorers out of a bucket.                                       *)

LEMMA BucketShrinks ==
    ASSUME BucketsOK, NEW b, NEW ks, buckets' = WithoutIn(b, ks), registered' \in {0, registered}
    PROVE  BucketsOK' /\ InBucket(registered)' \subseteq InBucket(registered)
<1>1. PICK n \in Nat : buckets \in [1 .. n -> SUBSET Kids] /\ registered \in 0 .. n
    BY DEF BucketsOK
<1>2. buckets' \in [1 .. n -> SUBSET Kids] /\ \A m \in 1 .. n : buckets'[m] \subseteq buckets[m]
    <2>1. CASE buckets' = buckets
        BY <1>1, <2>1
    <2>2. CASE buckets' = [buckets EXCEPT ![b] = @ \ ks]
        BY <1>1, <2>2
    <2> QED BY <2>1, <2>2 DEF WithoutIn
<1>3. registered' \in 0 .. n
    BY <1>1
<1> QED
    BY <1>1, <1>2, <1>3 DEF BucketsOK, InBucket

LEMMA RegisteredShrinks ==
    ASSUME BucketsOK, NEW ks, buckets' = WithoutIn(registered, ks),
           registered' = IF InBucket(registered) \ ks = {} THEN 0 ELSE registered
    PROVE  BucketsOK' /\ InBucket(registered)' = InBucket(registered) \ ks
<1>1. PICK n \in Nat : buckets \in [1 .. n -> SUBSET Kids] /\ registered \in 0 .. n
    BY DEF BucketsOK
<1>2. BucketsOK'
    BY BucketShrinks
<1>3. CASE registered = 0
    <2>1. InBucket(registered) = {}
        BY <1>3 DEF InBucket
    <2>2. registered' = 0
        BY <1>3, <2>1
    <2>3. InBucket(registered)' = {}
        BY <2>2 DEF InBucket
    <2> QED
        BY <1>2, <2>1, <2>3
<1>4. CASE registered # 0
    <2>1. registered \in 1 .. n /\ buckets'[registered] = buckets[registered] \ ks
        BY <1>1, <1>4 DEF WithoutIn
    <2>2. InBucket(registered) = buckets[registered]
        BY <1>4 DEF InBucket
    <2>3. InBucket(registered)' = IF registered' = 0 THEN {} ELSE buckets'[registered']
        BY DEF InBucket
    <2> QED
        BY <1>2, <1>4, <2>1, <2>2, <2>3
<1> QED
    BY <1>2, <1>3, <1>4

-----------------------------------------------------------------------------
(* One step of the invariant per action.                                   *)

\* A step of one explorer: what is done stays done and nobody begins to work.
LEMMA KidStep ==
    ASSUME SubInv, KidKeeps, NEW k \in Kids,
           NEW st \in {"running", "done", "cancelled"}, KidIs(k, st),
           ~TaskDone(k), kid[k] # "unborn", ~AtWork(k) => st = "cancelled"
    PROVE  SubInv'
<1>1. /\ kid' \in [Kids -> {"unborn", "queued", "running", "cancelling", "done", "cancelled"}]
      /\ \A j \in Kids : kid'[j] = IF j = k THEN st ELSE kid[j]
    BY DEF SubInv, SubTypeOK, KidIs
<1>2. SubTypeOK' /\ KidInv'
    BY <1>1 DEF SubInv, SubTypeOK, BucketsOK, KidInv, KidKeeps, TaskDone
<1>3. \A j \in Kids : AtWork(j)' => AtWork(j)
    BY <1>1 DEF AtWork
<1>4. AloneInv'
    BY <1>3 DEF SubInv, AloneInv, OneCollect, CollectsFromBucket, Waits, BucketIsNews, InBucket,
                WorkHasItsTurn, KidKeeps
<1>5. ReportedOnce' /\ NoneForgotten'
    BY <1>1 DEF SubInv, ReportedOnce, NoneForgotten, KidKeeps, InBucket, AtWork, TaskDone
<1> QED
    BY <1>2, <1>4, <1>5 DEF SubInv

LEMMA SpawnStep ==
    ASSUME SubInv, NEW ks \in SUBSET Kids, Spawn(ks) PROVE SubInv'
<1>1. PICK n \in Nat : buckets \in [1 .. n -> SUBSET Kids] /\ registered \in 0 .. n
    BY DEF SubInv, SubTypeOK, BucketsOK
<1>2. BucketsOK' /\ InBucket(registered)' = InBucket(registered) \cup ks
      /\ (registered # 0 => registered' = registered)
    <2>1. CASE registered = 0
        <3>1. Cardinality(DOMAIN buckets) = n
            BY <1>1, FS_Interval
        <3>2. registered' = n + 1
              /\ buckets' = [b \in 1 .. n + 1 |-> IF b = n + 1 THEN ks ELSE buckets[b]]
            BY <2>1, <3>1 DEF Spawn
        <3>3. buckets' \in [1 .. n + 1 -> SUBSET Kids] /\ registered' \in 0 .. n + 1 /\ n + 1 \in Nat
            BY <1>1, <3>2
        <3> QED
            BY <2>1, <3>2, <3>3 DEF BucketsOK, InBucket
    <2>2. CASE registered # 0
        <3>1. registered' = registered /\ buckets' = [buckets EXCEPT ![registered] = @ \cup ks]
            BY <2>2 DEF Spawn
        <3>2. buckets' \in [1 .. n -> SUBSET Kids] /\ buckets'[registered] = buckets[registered] \cup ks
            BY <1>1, <2>2, <3>1
        <3> QED
            BY <1>1, <2>2, <3>1, <3>2 DEF BucketsOK, InBucket
    <2> QED BY <2>1, <2>2
<1>3. /\ \A k \in Kids : kid'[k] = IF k \in ks THEN "queued" ELSE kid[k]
      /\ \A k \in Kids : spawner'[k] = IF k \in ks THEN turnNr ELSE spawner[k]
      /\ \A k \in ks : kid[k] = "unborn"
      /\ turnState = "running" /\ UNCHANGED <<call, turnNr, turnState, reports, overlapped, strayed>>
    BY DEF Spawn
<1>4. SubTypeOK'
    BY <1>2 DEF SubInv, SubTypeOK, Spawn
<1>5. \A k \in ks : reports[k] = 0
    BY <1>3 DEF SubInv, SubTypeOK, KidInv, TaskDone
<1>6. KidInv'
    BY <1>3, <1>5 DEF SubInv, SubTypeOK, KidInv, TaskDone
<1>7. ~overlapped => OneCollect' /\ CollectsFromBucket'
    <2>1. ~overlapped => \A c \in Calls : Waits(c) => registered' = registered
        BY <1>2 DEF SubInv, AloneInv, CollectsFromBucket, InBucket
    <2> QED
        BY <1>2, <1>3, <2>1 DEF SubInv, AloneInv, OneCollect, CollectsFromBucket, Waits, InBucket
<1>8. ~overlapped => BucketIsNews' /\ WorkHasItsTurn'
    BY <1>2, <1>3, <1>5 DEF SubInv, AloneInv, BucketIsNews, WorkHasItsTurn, AtWork
<1>9. ReportedOnce' /\ NoneForgotten'
    BY <1>2, <1>3 DEF SubInv, ReportedOnce, NoneForgotten
<1> QED
    BY <1>3, <1>4, <1>6, <1>7, <1>8, <1>9 DEF SubInv, AloneInv

\* Return reports what is done of a collect's explorers and takes it out of the bucket.
LEMMA ReturnStep ==
    ASSUME SubInv, NEW r \in CallStates, NEW discard \in BOOLEAN, Return(r, discard),
           UNCHANGED <<spawner, turnNr, turnState, strayed>>, SubTypeOK',
           ~overlapped' => /\ ~overlapped
                           /\ r.bucket = registered /\ r.of \subseteq InBucket(registered)
                           /\ turnState = "running" /\ \A c \in Calls : ~Waits(c)'
    PROVE  SubInv'
<1> DEFINE gone == r.of \ Pending(r)
           dropped == IF discard THEN Pending(r) \cap InBucket(r.bucket) ELSE {}
<1>1. /\ reports' = [k \in Kids |-> IF k \in gone THEN reports[k] + 1 ELSE reports[k]]
      /\ buckets' = WithoutIn(r.bucket, gone \cup dropped)
      /\ kid' = AfterCancel(dropped)
      /\ registered' = IF buckets'[r.bucket] = {} THEN 0 ELSE registered
    BY DEF Return, RegisteredAfter, Popped
<1>2. \A k \in gone : TaskDone(k)
    BY DEF Pending
<1>3. dropped \subseteq Pending(r)
    OBVIOUS
<1> HIDE DEF dropped
<1>4. /\ \A k \in Kids : kid'[k] = IF k \in dropped /\ Live(k) THEN "cancelling" ELSE kid[k]
      /\ \A k \in Kids : TaskDone(k) => kid'[k] = kid[k]
    BY <1>1 DEF AfterCancel, Live, TaskDone
<1>5. \A k \in Kids : reports'[k] = IF k \in gone THEN reports[k] + 1 ELSE reports[k]
    BY <1>1
<1> HIDE DEF gone
<1>6. KidInv'
    BY <1>2, <1>4, <1>5 DEF SubInv, SubTypeOK, KidInv, TaskDone
<1>7. \A k \in Kids : AtWork(k)' => AtWork(k) /\ k \notin dropped
    BY <1>4 DEF AtWork, Live
<1>8. ASSUME ~overlapped'
      PROVE  InBucket(registered)' = InBucket(registered) \ (gone \cup dropped)
    <2>1. r.bucket = registered
        BY <1>8
    <2>2. CASE registered = 0
        <3>1. registered' = 0
            BY <1>1, <2>2
        <3> QED BY <2>2, <3>1 DEF InBucket
    <2>3. CASE registered # 0
        <3>1. PICK n \in Nat : buckets \in [1 .. n -> SUBSET Kids] /\ registered \in 0 .. n
            BY DEF SubInv, SubTypeOK, BucketsOK
        <3>2. buckets' = WithoutIn(registered, gone \cup dropped)
            BY <1>1, <2>1
        <3>3. buckets'[registered] = buckets[registered] \ (gone \cup dropped)
            BY <2>3, <3>1, <3>2 DEF WithoutIn
        <3>4. InBucket(registered) = buckets[registered]
            BY <2>3 DEF InBucket
        <3>5. registered' = IF InBucket(registered) \ (gone \cup dropped) = {} THEN 0 ELSE registered
            BY <1>1, <2>1, <3>3, <3>4
        <3> QED
            BY <3>2, <3>5, RegisteredShrinks DEF SubInv, SubTypeOK
    <2> QED BY <2>2, <2>3
<1>9. ~overlapped' => OneCollect' /\ CollectsFromBucket'
    BY DEF OneCollect, CollectsFromBucket
<1>10. ~overlapped' => BucketIsNews' /\ WorkHasItsTurn'
    <2> SUFFICES ASSUME ~overlapped' PROVE BucketIsNews' /\ WorkHasItsTurn'
        OBVIOUS
    <2>1. BucketIsNews /\ WorkHasItsTurn
        BY DEF SubInv, AloneInv
    <2>2. InBucket(registered) \subseteq Kids
        BY DEF SubInv, SubTypeOK, BucketsOK, InBucket
    <2>3. BucketIsNews'
        BY <1>5, <1>8, <2>1, <2>2 DEF BucketIsNews
    <2>4. WorkHasItsTurn'
        BY <1>7, <2>1 DEF WorkHasItsTurn
    <2> QED BY <2>3, <2>4
<1>11. ReportedOnce'
    <2> SUFFICES ASSUME ~overlapped', NEW k \in Kids PROVE reports'[k] <= 1
        BY DEF ReportedOnce
    <2>1. reports[k] <= 1 /\ (k \in gone => reports[k] = 0)
        BY DEF SubInv, AloneInv, BucketIsNews, ReportedOnce, gone
    <2> QED
        BY <1>5, <2>1 DEF SubInv, SubTypeOK
<1>12. NoneForgotten'
    <2> SUFFICES ASSUME ~overlapped', NEW k \in Kids, turnState' = "running", spawner'[k] = turnNr',
                        reports'[k] = 0, kid'[k] \in {"queued", "running", "done"}
                 PROVE  k \in InBucket(registered)'
        BY DEF NoneForgotten
    <2>1. reports[k] = 0 /\ k \notin gone
        BY <1>5 DEF SubInv, SubTypeOK
    <2>2. kid[k] = kid'[k]
        BY <1>4
    <2>3. k \notin dropped
        BY <1>3, <1>4, <2>2 DEF Pending, Live, TaskDone
    <2>4. k \in InBucket(registered)
        BY <2>1, <2>2 DEF SubInv, NoneForgotten
    <2> QED
        BY <1>8, <2>1, <2>3, <2>4
<1> QED
    BY <1>6, <1>9, <1>10, <1>11, <1>12 DEF SubInv, AloneInv

\* Return keeps the types.
LEMMA ReturnTypes ==
    ASSUME SubTypeOK, NEW r \in CallStates, NEW discard \in BOOLEAN, Return(r, discard),
           UNCHANGED <<spawner, turnNr>>, call' \in [Calls -> CallStates]
    PROVE  SubTypeOK'
<1>1. /\ reports' \in [Kids -> Nat]
      /\ kid' \in [Kids -> {"unborn", "queued", "running", "cancelling", "done", "cancelled"}]
    BY DEF Return, AfterCancel, SubTypeOK
<1>2. \E ks : buckets' = WithoutIn(r.bucket, ks)
    BY DEF Return
<1>3. registered' \in {0, registered}
    BY DEF Return, RegisteredAfter
<1>4. BucketsOK'
    BY <1>2, <1>3, BucketShrinks DEF SubTypeOK
<1> QED
    BY <1>1, <1>4 DEF SubTypeOK

LEMMA CollectStep ==
    ASSUME SubInv, NEW c \in Calls, Collect(c) PROVE SubInv'
<1>1. PICK of \in (SUBSET InBucket(registered)) \ {{}}, mode \in {"all", "first_done"},
           timed \in BOOLEAN :
         LET asked == Asked(of, mode, timed) IN
         \/ /\ MayReturn([asked EXCEPT !.timed = FALSE])
            /\ \E discard \in BOOLEAN : Return(asked, discard)
            /\ UNCHANGED call
         \/ /\ ~MayReturn([asked EXCEPT !.timed = FALSE])
            /\ call' = [call EXCEPT ![c] = asked]
            /\ UNCHANGED <<kid, buckets, registered, reports>>
    BY DEF Collect
<1> DEFINE asked == Asked(of, mode, timed)
<1>2. /\ turnState = "running" /\ call[c].at = "none"
      /\ UNCHANGED <<spawner, turnNr, turnState, strayed>>
    BY DEF Collect
<1>6. ~overlapped' => ~overlapped /\ \A d \in Calls : ~Waits(d)
    <2>1. \A d \in Calls : call[d].at \in {"none", "waiting"}
        BY DEF SubInv, SubTypeOK, CallStates
    <2>2. overlapped' <=> (overlapped \/ \E d \in Calls : call[d].at # "none")
        BY DEF Collect
    <2> QED BY <2>2 DEF Waits
<1>3. asked \in CallStates /\ asked.at = "waiting" /\ asked.of = of /\ asked.bucket = registered
    <2>1. registered \in Nat /\ of \subseteq Kids
        BY DEF SubInv, SubTypeOK, BucketsOK, InBucket
    <2> QED
        BY <2>1 DEF Asked, CallStates
<1> HIDE DEF asked
<1>4. ASSUME NEW discard \in BOOLEAN, Return(asked, discard), UNCHANGED call PROVE SubInv'
    <2>1. SubTypeOK'
        BY <1>2, <1>3, <1>4, ReturnTypes DEF SubInv, SubTypeOK
    <2>2. \A d \in Calls : Waits(d)' = Waits(d)
        BY <1>4 DEF Waits
    <2> QED
        BY <1>2, <1>3, <1>4, <1>6, <2>1, <2>2, ReturnStep
<1>5. ASSUME call' = [call EXCEPT ![c] = asked], UNCHANGED <<kid, buckets, registered, reports>>
      PROVE  SubInv'
    <2>1. SubTypeOK'
        BY <1>2, <1>3, <1>5 DEF SubInv, SubTypeOK, BucketsOK
    <2>2. KidInv'
        BY <1>2, <1>5 DEF SubInv, KidInv, TaskDone
    <2>3. \A d \in Calls : call'[d] = IF d = c THEN asked ELSE call[d]
        BY <1>5 DEF SubInv, SubTypeOK
    <2>4. ~overlapped' => OneCollect' /\ CollectsFromBucket'
        <3> SUFFICES ASSUME ~overlapped' PROVE OneCollect' /\ CollectsFromBucket'
            OBVIOUS
        <3>1. \A d \in Calls : Waits(d)' => d = c
            BY <1>6, <2>3 DEF Waits
        <3>2. of # {} /\ of \subseteq InBucket(registered)
            BY <1>1
        <3>3. InBucket(registered)' = InBucket(registered)
            BY <1>5 DEF InBucket
        <3> QED
            BY <1>2, <1>3, <1>5, <2>3, <3>1, <3>2, <3>3 DEF OneCollect, CollectsFromBucket
    <2>5. ~overlapped' => BucketIsNews' /\ WorkHasItsTurn'
        BY <1>2, <1>5, <1>6 DEF SubInv, AloneInv, BucketIsNews, InBucket, WorkHasItsTurn, AtWork
    <2>6. ReportedOnce' /\ NoneForgotten'
        BY <1>2, <1>5, <1>6 DEF SubInv, ReportedOnce, NoneForgotten, InBucket
    <2> QED
        BY <2>1, <2>2, <2>4, <2>5, <2>6 DEF SubInv, AloneInv
<1> QED
    BY <1>1, <1>4, <1>5 DEF asked

LEMMA CollectedStep ==
    ASSUME SubInv, NEW c \in Calls, Collected(c) PROVE SubInv'
<1>1. PICK discard \in BOOLEAN : Return(call[c], discard)
    BY DEF Collected
<1>2. call[c] \in CallStates /\ Waits(c) /\ UNCHANGED <<spawner, turnNr, turnState, overlapped, strayed>>
    BY DEF Collected, SubInv, SubTypeOK, Waits
<1>3. NoCall \in CallStates /\ NoCall.at = "none"
    BY DEF NoCall, CallStates
<1>4. call' \in [Calls -> CallStates] /\ \A d \in Calls : call'[d] = IF d = c THEN NoCall ELSE call[d]
    BY <1>3 DEF Collected, SubInv, SubTypeOK
<1>5. SubTypeOK'
    BY <1>1, <1>2, <1>4, ReturnTypes DEF SubInv
<1>6. ~overlapped => \A d \in Calls : ~Waits(d)'
    BY <1>2, <1>3, <1>4 DEF SubInv, AloneInv, OneCollect, Waits
<1>7. ~overlapped => call[c].bucket = registered /\ call[c].of \subseteq InBucket(registered)
                     /\ turnState = "running"
    BY <1>2 DEF SubInv, AloneInv, CollectsFromBucket
<1> QED
    BY <1>1, <1>2, <1>5, <1>6, <1>7, ReturnStep

\* cancel_children takes a turn's explorers, or all, out of the bucket and stops them.
LEMMA CancelChildrenStep ==
    ASSUME SubInv, NEW ks \in SUBSET Kids, CancelChildren(ks), NEW st, st # "running",
           turnState' = st, \A k \in Kids \ ks : turnState = "running" => spawner[k] # turnNr,
           turnState # "running" => ks = Kids,
           call' \in [Calls -> CallStates], \A c \in Calls : ~Waits(c)',
           UNCHANGED <<spawner, turnNr, reports, overlapped, strayed>>
    PROVE  SubInv'
<1> DEFINE told == ks \cap InBucket(registered)
<1>1. BucketsOK' /\ InBucket(registered)' = InBucket(registered) \ ks
    BY RegisteredShrinks DEF CancelChildren, SubInv, SubTypeOK
<1>2. /\ kid' \in [Kids -> {"unborn", "queued", "running", "cancelling", "done", "cancelled"}]
      /\ \A k \in Kids : kid'[k] = IF k \in told /\ Live(k) THEN "cancelling" ELSE kid[k]
    BY DEF CancelChildren, AfterCancel, SubInv, SubTypeOK
<1>3. SubTypeOK' /\ KidInv'
    BY <1>1, <1>2 DEF SubInv, SubTypeOK, KidInv, TaskDone, Live
<1>4. \A k \in Kids : AtWork(k)' => AtWork(k) /\ k \notin told
    BY <1>2 DEF AtWork, Live
<1>5. ASSUME ~overlapped, ~strayed, NEW k \in Kids, AtWork(k)' PROVE FALSE
    <2>1. turnState = "running" /\ spawner[k] = turnNr
        BY <1>4, <1>5 DEF SubInv, AloneInv, WorkHasItsTurn
    <2>2. k \in ks
        BY <2>1
    <2>3. reports[k] = 0
        BY <1>4, <1>5 DEF SubInv, SubTypeOK, KidInv, AtWork, TaskDone
    <2>4. k \in InBucket(registered)
        BY <1>4, <1>5, <2>1, <2>3 DEF SubInv, NoneForgotten, AtWork
    <2> QED
        BY <1>4, <1>5, <2>2, <2>4
<1>6. AloneInv'
    BY <1>1, <1>5 DEF SubInv, AloneInv, OneCollect, CollectsFromBucket, BucketIsNews, WorkHasItsTurn
<1>7. ReportedOnce' /\ NoneForgotten'
    BY DEF SubInv, ReportedOnce, NoneForgotten
<1> QED
    BY <1>3, <1>6, <1>7 DEF SubInv

LEMMA SubStep == SubInv /\ [SubNext]_subVars => SubInv'
<1> SUFFICES ASSUME SubInv, [SubNext]_subVars PROVE SubInv'
    OBVIOUS
<1>0. NoCall \in CallStates /\ NoCall.at = "none"
    BY DEF NoCall, CallStates
<1>1. CASE BeginTurn
    <2>1. /\ turnState # "running" /\ turnNr' = turnNr + 1
          /\ UNCHANGED <<kid, spawner, buckets, registered, call, reports, overlapped, strayed>>
        BY <1>1 DEF BeginTurn
    <2>2. SubTypeOK' /\ KidInv' /\ \A k \in Kids : spawner[k] # turnNr'
        <3>1. turnNr \in Nat /\ \A k \in Kids : spawner[k] \in Nat /\ spawner[k] <= turnNr
            BY DEF SubInv, SubTypeOK, KidInv
        <3>2. turnNr' \in Nat /\ \A k \in Kids : spawner[k] <= turnNr' /\ spawner[k] # turnNr'
            BY <2>1, <3>1
        <3>3. KidInv'
            BY <2>1, <3>2 DEF SubInv, KidInv, TaskDone
        <3>4. SubTypeOK'
            BY <2>1, <3>2 DEF SubInv, SubTypeOK, BucketsOK
        <3> QED BY <3>2, <3>3, <3>4
    <2>3. AloneInv'
        BY <2>1 DEF SubInv, AloneInv, OneCollect, CollectsFromBucket, Waits, BucketIsNews, InBucket,
                    WorkHasItsTurn, AtWork
    <2>4. ReportedOnce' /\ NoneForgotten'
        BY <2>1, <2>2 DEF SubInv, ReportedOnce, NoneForgotten
    <2> QED BY <2>2, <2>3, <2>4 DEF SubInv
<1>2. CASE EndTurn
    <2> DEFINE ks == {k \in Kids : spawner[k] = turnNr}
    <2>1. CancelChildren(ks) /\ turnState = "running" /\ turnState' = "ended"
          /\ UNCHANGED <<spawner, call, turnNr, reports, overlapped, strayed>>
          /\ \A c \in Calls : call[c].at = "none"
        BY <1>2 DEF EndTurn
    <2>2. call' \in [Calls -> CallStates] /\ \A c \in Calls : ~Waits(c)'
        BY <2>1 DEF Waits, SubInv, SubTypeOK
    <2> QED
        BY <2>1, <2>2, CancelChildrenStep
<1>3. CASE StopTurn
    <2>1. /\ turnState = "running" /\ turnState' = "stopped"
          /\ call' = [c \in Calls |-> NoCall]
          /\ strayed' <=> (strayed \/ \E k \in InBucket(registered) : Live(k))
          /\ UNCHANGED <<kid, spawner, buckets, registered, turnNr, reports, overlapped>>
        BY <1>3 DEF StopTurn
    <2>2. SubTypeOK' /\ KidInv'
        BY <1>0, <2>1 DEF SubInv, SubTypeOK, BucketsOK, KidInv, TaskDone
    <2>3. \A c \in Calls : ~Waits(c)'
        BY <1>0, <2>1 DEF Waits
    <2>4. ASSUME ~overlapped, ~strayed', NEW k \in Kids, AtWork(k) PROVE FALSE
        <3>1. spawner[k] = turnNr /\ reports[k] = 0
            BY <2>1, <2>4 DEF SubInv, SubTypeOK, KidInv, AloneInv, WorkHasItsTurn, AtWork, TaskDone
        <3>2. k \in InBucket(registered)
            BY <2>1, <2>4, <3>1 DEF SubInv, NoneForgotten, AtWork
        <3> QED
            BY <2>1, <2>4, <3>2 DEF AtWork, Live
    <2>5. AloneInv'
        BY <2>1, <2>3, <2>4 DEF SubInv, AloneInv, OneCollect, CollectsFromBucket, BucketIsNews, InBucket,
                                WorkHasItsTurn, AtWork
    <2>6. ReportedOnce' /\ NoneForgotten'
        BY <2>1 DEF SubInv, ReportedOnce, NoneForgotten
    <2> QED BY <2>2, <2>5, <2>6 DEF SubInv
<1>4. CASE DeleteTurn
    <2>1. CancelChildren(Kids) /\ turnState' # "running" /\ call' = [c \in Calls |-> NoCall]
          /\ UNCHANGED <<spawner, turnNr, reports, overlapped, strayed>>
        BY <1>4 DEF DeleteTurn
    <2>2. call' \in [Calls -> CallStates] /\ \A c \in Calls : ~Waits(c)'
        BY <1>0, <2>1 DEF Waits
    <2> QED
        BY <2>1, <2>2, CancelChildrenStep
<1>5. ASSUME NEW ks \in SUBSET Kids, Spawn(ks) PROVE SubInv'
    BY <1>5, SpawnStep
<1>6. ASSUME NEW k \in Kids, Acquire(k) \/ Explore(k) \/ Deadline(k) \/ Unwind(k) PROVE SubInv'
    BY <1>6, KidStep DEF Acquire, Explore, Deadline, Unwind, TaskDone, AtWork
<1>7. ASSUME NEW c \in Calls, Collect(c) \/ Collected(c) PROVE SubInv'
    BY <1>7, CollectStep, CollectedStep
<1>8. CASE UNCHANGED subVars
    BY <1>8 DEF subVars, SubInv, SubTypeOK, BucketsOK, KidInv, TaskDone, AloneInv, OneCollect,
        CollectsFromBucket, Waits, BucketIsNews, InBucket, WorkHasItsTurn, AtWork, ReportedOnce,
        NoneForgotten
<1> QED
    BY <1>1, <1>2, <1>3, <1>4, <1>5, <1>6, <1>7, <1>8 DEF SubNext

LEMMA SubInvHolds == SubSpec => []SubInv
BY SubStarts, SubStep, PTL DEF SubSpec

\* An explorer is reported once while no two collects overlap (collect_explorers of
\* tools/subagents.py pops what it reports).
THEOREM ReportedOnceHolds == SubSpec => []ReportedOnce
<1>1. SubInv => ReportedOnce
    BY DEF SubInv
<1> QED BY <1>1, SubInvHolds, PTL

\* What a running turn has spawned and neither collected nor discarded is in the session's
\* bucket while no two collects overlap (_REGISTRY of tools/subagents.py).
THEOREM NoneForgottenHolds == SubSpec => []NoneForgotten
<1>1. SubInv => NoneForgotten
    BY DEF SubInv
<1> QED BY <1>1, SubInvHolds, PTL

\* No explorer works on for a turn that ended normally or was deleted (cancel_children of
\* tools/subagents.py), provided that no two collects overlapped and no turn was stopped.
THEOREM EndLeavesNoneHolds == SubSpec => []EndLeavesNone
<1>1. SubInv => EndLeavesNone
    BY DEF SubInv, AloneInv, WorkHasItsTurn, AtWork, EndLeavesNone
<1> QED BY <1>1, SubInvHolds, PTL

-----------------------------------------------------------------------------
(* The sandbox of a session.  The lock of docker and of the service backend *)
(* is held by one call at a time, and as long as nothing goes wrong outside *)
(* the box that has the session's name stays: what a call is dealing with   *)
(* is that box, and what the backend remembers is that box, up and running. *)

DockerPlaces == {"asking", "looking", "listing", "starting", "discarding", "removing", "spawning",
                 "astray", "orphan", "leaked"}
DaytonaPlaces == {"queued", "backoff", "adopting", "waking", "polling"}

InPlace(c) ==
    /\ at[c] \in {"idle", "returned", "raised", "dropped", "posting", "blocked"}
                 \cup DockerPlaces \cup DaytonaPlaces
    /\ at[c] \in DockerPlaces => backend = "docker"
    /\ at[c] \in DaytonaPlaces => backend = "daytona"
    /\ at[c] = "posting" => backend # "docker"
    /\ at[c] = "blocked" => backend = "service"
    /\ at[c] = "starting" => got[c] # 0

BoxOK ==
    /\ made \in Nat
    /\ sandbox \in [nr : Nat, is : {"none", "stopped", "creating", "running"}, fits : BOOLEAN]
    /\ sandbox = NoBox \/ (sandbox.is # "none" /\ sandbox.nr # 0 /\ sandbox.nr <= made)

CallsOK ==
    /\ at = [c \in Tools |-> at[c]] /\ \A c \in Tools : InPlace(c)
    /\ cached \in 0 .. made /\ got \in [Tools -> 0 .. made]
    /\ outages \in Nat /\ drops \in Nat

HoldsLock(c) ==
    \/ at[c] \in {"looking", "listing", "starting", "discarding", "removing", "spawning", "leaked"}
    \/ backend = "service" /\ at[c] = "posting"
Mutex == \A c \in Tools : HoldsLock(c) => holder = {c}

Ready ==
    /\ sandbox.nr = cached /\ sandbox.is = "running"
    /\ backend = "docker" => sandbox.fits

Calm(c) ==
    /\ at[c] = "returned" => got[c] = cached /\ cached # 0
    /\ at[c] = "removing" => sandbox.nr = got[c] /\ sandbox.nr # 0 /\ ~sandbox.fits
    /\ at[c] = "starting" => sandbox.nr = got[c] /\ sandbox.nr # 0
    /\ backend = "service" /\ at[c] = "posting" => cached = 0
    /\ at[c] = "adopting" => sandbox # NoBox
    /\ at[c] \in {"waking", "polling"} => sandbox # NoBox /\ got[c] = sandbox.nr
    /\ at[c] = "polling" => sandbox.is # "stopped"
    /\ at[c] \notin {"discarding", "backoff"}

Unbroken(c) ==
    /\ at[c] \notin {"raised", "dropped", "astray", "orphan", "leaked"}
    /\ at[c] = "spawning" => sandbox = NoBox

CalmInv ==
    outages = 0 =>
        /\ closing = 0 /\ (cached # 0 /\ backend # "service" => Ready)
        /\ \A c \in Tools : Calm(c) /\ (drops = 0 => Unbroken(c))

BringInv == BoxOK /\ CallsOK /\ Mutex /\ CalmInv

LEMMA BringStarts == BringInit => BringInv
<1> SUFFICES ASSUME BringInit PROVE BringInv
    OBVIOUS
<1>1. BoxOK
    <2>1. CASE sandbox = NoBox
        BY <2>1 DEF BringInit, BoxOK, NoBox
    <2>2. CASE sandbox \in [nr : {1}, is : {"stopped", "running"}, fits : BOOLEAN]
        <3>1. sandbox.nr = 1 /\ sandbox.is # "none" /\ made = 1
            BY <2>2 DEF BringInit
        <3> QED BY <2>2, <3>1 DEF BoxOK
    <2> QED BY <2>1, <2>2 DEF BringInit
<1>2. CallsOK
    BY <1>1 DEF BringInit, BoxOK, CallsOK, InPlace, DockerPlaces, DaytonaPlaces
<1>3. Mutex /\ CalmInv
    BY DEF BringInit, Mutex, HoldsLock, CalmInv, Calm, Unbroken
<1> QED
    BY <1>1, <1>2, <1>3 DEF BringInv

\* A box is made under a new number, changes its state, or goes away.
BoxMoves ==
    \/ UNCHANGED <<made, sandbox>>
    \/ UNCHANGED made /\ sandbox' = NoBox
    \/ UNCHANGED made /\ sandbox # NoBox
       /\ \E s \in {"stopped", "running"} : sandbox' = [sandbox EXCEPT !.is = s]
    \/ made' = made + 1 /\ \E s \in {"creating", "running"} : sandbox' = Box(made + 1, s)

LEMMA BoxMovesKeep == BoxOK /\ BoxMoves => BoxOK'
<1> SUFFICES ASSUME BoxOK, BoxMoves PROVE BoxOK'
    OBVIOUS
<1>1. ASSUME NEW s \in {"stopped", "running"}, UNCHANGED made, sandbox # NoBox,
             sandbox' = [sandbox EXCEPT !.is = s]
      PROVE  BoxOK'
    <2>1. sandbox' \in [nr : Nat, is : {"none", "stopped", "creating", "running"}, fits : BOOLEAN]
          /\ sandbox'.nr = sandbox.nr /\ sandbox'.is = s
        BY <1>1 DEF BoxOK
    <2> QED BY <1>1, <2>1 DEF BoxOK
<1>2. ASSUME NEW s \in {"creating", "running"}, made' = made + 1, sandbox' = Box(made + 1, s)
      PROVE  BoxOK'
    <2>1. made + 1 \in Nat /\ made + 1 # 0
        BY DEF BoxOK
    <2>2. Box(made + 1, s) \in [nr : Nat, is : {"none", "stopped", "creating", "running"}, fits : BOOLEAN]
          /\ Box(made + 1, s).nr = made + 1 /\ Box(made + 1, s).is = s
        BY <2>1 DEF Box
    <2> QED BY <1>2, <2>1, <2>2 DEF BoxOK
<1>3. CASE UNCHANGED made /\ sandbox' = NoBox
    <2>1. NoBox \in [nr : Nat, is : {"none", "stopped", "creating", "running"}, fits : BOOLEAN]
        BY DEF NoBox
    <2> QED BY <1>3, <2>1 DEF BoxOK, NoBox
<1>4. CASE UNCHANGED <<made, sandbox>>
    BY <1>4 DEF BoxOK
<1> QED
    BY <1>1, <1>2, <1>3, <1>4 DEF BoxMoves

\* What a step of a call may do.
CallStep(c) == Goes(c) \/ Dropped(c) \/ LockLeaks(c) \/ OrphanSpawns(c)

\* The box.
LEMMA CallMovesBox ==
    ASSUME BringInv, NEW c \in Tools, CallStep(c) PROVE BoxMoves
<1> USE DEF At, Moves, Takes, Released, Outage, Returns, Raises, Adopts, BacksOff, TooLate
<1> USE DEF BringInv, BoxOK, BoxMoves, CallsOK, InPlace, NoBox
<1>1. CASE AsksForLock(c)
    BY <1>1 DEF AsksForLock
<1>2. CASE LockGranted(c)
    BY <1>2 DEF LockGranted
<1>3. CASE EnsuresWorkspace(c)
    BY <1>3 DEF EnsuresWorkspace
<1>4. CASE EnsuresSession(c)
    BY <1>4 DEF EnsuresSession
<1>5. CASE Reloads(c)
    BY <1>5 DEF Reloads
<1>6. CASE ListsByName(c)
    BY <1>6 DEF ListsByName
<1>7. CASE StartsStopped(c)
    BY <1>7 DEF StartsStopped
<1>8. CASE Discards(c)
    BY <1>8 DEF Discards
<1>9. CASE RemovesOutdated(c)
    BY <1>9 DEF RemovesOutdated
<1>10. CASE Spawns(c)
    BY <1>10 DEF Spawns
<1>11. CASE PostsSandbox(c)
    BY <1>11 DEF PostsSandbox
<1>12. CASE PostsAgain(c)
    BY <1>12 DEF PostsAgain
<1>13. CASE AdoptsByName(c)
    BY <1>13 DEF AdoptsByName
<1>14. CASE WakesIfStopped(c)
    BY <1>14 DEF WakesIfStopped
<1>15. CASE PollsUntilStarted(c)
    BY <1>15 DEF PollsUntilStarted
<1>16. CASE PostsSession(c)
    BY <1>16 DEF PostsSession
<1>17. CASE Dropped(c)
    BY <1>17 DEF Dropped
<1>18. CASE LockLeaks(c)
    BY <1>18 DEF LockLeaks
<1>19. CASE OrphanSpawns(c)
    BY <1>19 DEF OrphanSpawns
<1> QED
    BY <1>1, <1>2, <1>3, <1>4, <1>5, <1>6, <1>7, <1>8, <1>9, <1>10, <1>11, <1>12, <1>13, <1>14, <1>15, <1>16, <1>17, <1>18, <1>19 DEF CallStep, Goes

\* Where the calls stand and what they deal with.
LEMMA CallKeepsTypes ==
    ASSUME BringInv, NEW c \in Tools, CallStep(c) PROVE CallsOK'
<1> USE DEF At, Moves, Takes, Released, Outage, Returns, Raises, Adopts, BacksOff, TooLate
<1> USE DEF BringInv, CallsOK, InPlace, DockerPlaces, DaytonaPlaces, BoxOK, NoBox, Box
<1>1. CASE AsksForLock(c)
    BY <1>1 DEF AsksForLock
<1>2. CASE LockGranted(c)
    BY <1>2 DEF LockGranted
<1>3. CASE EnsuresWorkspace(c)
    BY <1>3 DEF EnsuresWorkspace
<1>4. CASE EnsuresSession(c)
    BY <1>4 DEF EnsuresSession
<1>5. CASE Reloads(c)
    BY <1>5 DEF Reloads
<1>6. CASE ListsByName(c)
    BY <1>6 DEF ListsByName
<1>7. CASE StartsStopped(c)
    BY <1>7 DEF StartsStopped
<1>8. CASE Discards(c)
    BY <1>8 DEF Discards
<1>9. CASE RemovesOutdated(c)
    BY <1>9 DEF RemovesOutdated
<1>10. CASE Spawns(c)
    BY <1>10 DEF Spawns
<1>11. CASE PostsSandbox(c)
    BY <1>11 DEF PostsSandbox
<1>12. CASE PostsAgain(c)
    BY <1>12 DEF PostsAgain
<1>13. CASE AdoptsByName(c)
    BY <1>13 DEF AdoptsByName
<1>14. CASE WakesIfStopped(c)
    BY <1>14 DEF WakesIfStopped
<1>15. CASE PollsUntilStarted(c)
    BY <1>15 DEF PollsUntilStarted
<1>16. CASE PostsSession(c)
    BY <1>16 DEF PostsSession
<1>17. CASE Dropped(c)
    BY <1>17 DEF Dropped
<1>18. CASE LockLeaks(c)
    BY <1>18 DEF LockLeaks
<1>19. CASE OrphanSpawns(c)
    BY <1>19 DEF OrphanSpawns
<1> QED
    BY <1>1, <1>2, <1>3, <1>4, <1>5, <1>6, <1>7, <1>8, <1>9, <1>10, <1>11, <1>12, <1>13, <1>14, <1>15, <1>16, <1>17, <1>18, <1>19 DEF CallStep, Goes

\* The lock.
LEMMA CallKeepsMutex ==
    ASSUME BringInv, NEW c \in Tools, CallStep(c) PROVE Mutex'
<1> USE DEF At, Moves, Takes, Released, Outage, Returns, Raises, Adopts, BacksOff, TooLate
<1> USE DEF BringInv, CallsOK, InPlace, DockerPlaces, DaytonaPlaces, Mutex, HoldsLock
<1>1. CASE AsksForLock(c)
    BY <1>1 DEF AsksForLock
<1>2. CASE LockGranted(c)
    BY <1>2 DEF LockGranted
<1>3. CASE EnsuresWorkspace(c)
    BY <1>3 DEF EnsuresWorkspace
<1>4. CASE EnsuresSession(c)
    BY <1>4 DEF EnsuresSession
<1>5. CASE Reloads(c)
    BY <1>5 DEF Reloads
<1>6. CASE ListsByName(c)
    BY <1>6 DEF ListsByName
<1>7. CASE StartsStopped(c)
    BY <1>7 DEF StartsStopped
<1>8. CASE Discards(c)
    BY <1>8 DEF Discards
<1>9. CASE RemovesOutdated(c)
    BY <1>9 DEF RemovesOutdated
<1>10. CASE Spawns(c)
    BY <1>10 DEF Spawns
<1>11. CASE PostsSandbox(c)
    BY <1>11 DEF PostsSandbox
<1>12. CASE PostsAgain(c)
    BY <1>12 DEF PostsAgain
<1>13. CASE AdoptsByName(c)
    BY <1>13 DEF AdoptsByName
<1>14. CASE WakesIfStopped(c)
    BY <1>14 DEF WakesIfStopped
<1>15. CASE PollsUntilStarted(c)
    BY <1>15 DEF PollsUntilStarted
<1>16. CASE PostsSession(c)
    BY <1>16 DEF PostsSession
<1>17. CASE Dropped(c)
    BY <1>17 DEF Dropped
<1>18. CASE LockLeaks(c)
    BY <1>18 DEF LockLeaks
<1>19. CASE OrphanSpawns(c)
    BY <1>19 DEF OrphanSpawns
<1> QED
    BY <1>1, <1>2, <1>3, <1>4, <1>5, <1>6, <1>7, <1>8, <1>9, <1>10, <1>11, <1>12, <1>13, <1>14, <1>15, <1>16, <1>17, <1>18, <1>19 DEF CallStep, Goes

\* While nothing goes wrong outside.
LEMMA CallKeepsCalm ==
    ASSUME BringInv, NEW c \in Tools, CallStep(c) PROVE CalmInv'
<1> USE DEF At, Moves, Takes, Released, Outage, Returns, Raises, Adopts, BacksOff, TooLate
<1> USE DEF BringInv, CallsOK, BoxOK, InPlace, DockerPlaces, DaytonaPlaces, Mutex, HoldsLock, NoBox, Box,
           CalmInv, Calm, Unbroken, Ready
<1>1. CASE AsksForLock(c)
    BY <1>1 DEF AsksForLock
<1>2. CASE LockGranted(c)
    BY <1>2 DEF LockGranted
<1>3. CASE EnsuresWorkspace(c)
    BY <1>3 DEF EnsuresWorkspace
<1>4. CASE EnsuresSession(c)
    BY <1>4 DEF EnsuresSession
<1>5. CASE Reloads(c)
    BY <1>5 DEF Reloads
<1>6. CASE ListsByName(c)
    BY <1>6 DEF ListsByName
<1>7. CASE StartsStopped(c)
    BY <1>7 DEF StartsStopped
<1>8. CASE Discards(c)
    BY <1>8 DEF Discards
<1>9. CASE RemovesOutdated(c)
    BY <1>9 DEF RemovesOutdated
<1>10. CASE Spawns(c)
    BY <1>10 DEF Spawns
<1>11. CASE PostsSandbox(c)
    BY <1>11 DEF PostsSandbox
<1>12. CASE PostsAgain(c)
    BY <1>12 DEF PostsAgain
<1>13. CASE AdoptsByName(c)
    BY <1>13 DEF AdoptsByName
<1>14. CASE WakesIfStopped(c)
    BY <1>14 DEF WakesIfStopped
<1>15. CASE PollsUntilStarted(c)
    <2> SUFFICES ASSUME outages' = 0 PROVE CalmInv'
        OBVIOUS
    <2>1. outages = 0 /\ UNCHANGED <<backend, sandbox, drops, closing>>
        BY <1>15 DEF PollsUntilStarted
    <2>2. sandbox.nr = got[c] /\ sandbox # NoBox /\ sandbox.is # "stopped" /\ at[c] = "polling"
          /\ backend = "daytona"
        BY <1>15, <2>1 DEF PollsUntilStarted
    <2>3. ~Outage /\ ~TooLate
        BY <2>1, BringUpAssumption
    <2>4. Returns(c, got[c]) /\ sandbox.is = "running"
        BY <1>15, <2>2, <2>3 DEF PollsUntilStarted
    <2> QED
        BY <2>1, <2>2, <2>4
<1>16. CASE PostsSession(c)
    BY <1>16 DEF PostsSession
<1>17. CASE Dropped(c)
    BY <1>17 DEF Dropped
<1>18. CASE LockLeaks(c)
    BY <1>18 DEF LockLeaks
<1>19. CASE OrphanSpawns(c)
    BY <1>19 DEF OrphanSpawns
<1> QED
    BY <1>1, <1>2, <1>3, <1>4, <1>5, <1>6, <1>7, <1>8, <1>9, <1>10, <1>11, <1>12, <1>13, <1>14, <1>15, <1>16, <1>17, <1>18, <1>19 DEF CallStep, Goes

\* The outside: with nothing gone wrong, only a box that is being made moves.
LEMMA OutsideStep ==
    ASSUME BringInv, Closes \/ CloseRemoves \/ BoxStarts \/ BoxLost PROVE BringInv'
<1>1. BoxMoves
    BY DEF BringInv, BoxOK, CallsOK, BoxMoves, Closes, CloseRemoves, BoxStarts, BoxLost, NoBox
<1>2. CallsOK' /\ Mutex'
    BY DEF BringInv, BoxOK, CallsOK, InPlace, Mutex, HoldsLock, Closes, CloseRemoves, BoxStarts,
           BoxLost, Outage
<1>3. CalmInv'
    <2>1. CASE Closes \/ BoxLost
        BY <2>1 DEF BringInv, CallsOK, CalmInv, Closes, BoxLost, Outage
    <2>2. CASE CloseRemoves
        BY <2>2 DEF BringInv, CalmInv, CloseRemoves
    <2>3. CASE BoxStarts
        BY <2>3 DEF BringInv, CalmInv, Calm, Unbroken, Ready, BoxStarts, BoxOK, NoBox
    <2> QED BY <2>1, <2>2, <2>3
<1> QED
    BY <1>1, <1>2, <1>3, BoxMovesKeep DEF BringInv

LEMMA BringStep == BringInv /\ [BringNext]_bringVars => BringInv'
<1> SUFFICES ASSUME BringInv, [BringNext]_bringVars PROVE BringInv'
    OBVIOUS
<1>1. ASSUME NEW c \in Tools, CallStep(c) PROVE BringInv'
    BY <1>1, CallMovesBox, BoxMovesKeep, CallKeepsTypes, CallKeepsMutex, CallKeepsCalm DEF BringInv
<1>2. CASE UNCHANGED bringVars
    BY <1>2 DEF bringVars, BringInv, BoxOK, CallsOK, InPlace, Mutex, HoldsLock, CalmInv, Calm, Unbroken,
                Ready
<1> QED
    BY <1>1, <1>2, OutsideStep DEF BringNext, CallStep

\* While nothing goes wrong outside, the calls that return share one sandbox, and none of
\* them fails unless one was cancelled (_ensure_container, _ensure_sandbox and
\* _ensure_session of the three backends).
THEOREM CallsShareOneBoxHolds == BringSpec => []CallsShareOneBox
<1>1. BringInv => CallsShareOneBox
    BY DEF BringInv, CalmInv, Calm, Unbroken, CallsShareOneBox
<1> QED
    BY <1>1, BringStarts, BringStep, PTL DEF BringSpec
=============================================================================
