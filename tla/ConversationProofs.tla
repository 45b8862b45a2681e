------------------------- MODULE ConversationProofs -------------------------
(***************************************************************************)
(* What is proved of one conversation: a gated tool runs once and as the   *)
(* user voted, however often a turn fails and is retried (ConfirmResume);  *)
(* the project holds the changes that the conversation mentions, and a     *)
(* change once undone stays undone (Rewind); the permission decision is    *)
(* ordered by the mode and by the rules, and a call that runs is one the   *)
(* decision does not forbid (Permission).  The three share no state; each  *)
(* part below is about one of them.                                        *)
(***************************************************************************)
EXTENDS ConfirmResume, Rewind, Permission, TLAPS, WellFoundedInduction

-----------------------------------------------------------------------------
(* Numbers and sequences.                                                  *)

LEMMA LeastNatural ==
    ASSUME NEW S \in SUBSET Nat, S # {} PROVE \E m \in S : \A k \in S : m <= k
<1>1. PICK m \in S : \A k \in S : <<k, m>> \notin OpToRel(<, Nat)
    BY NatLessThanWellFounded, WFMin
<1>2. \A k \in S : ~(k < m)
    BY <1>1 DEF OpToRel
<1>3. \A k \in S : k \in Nat
    OBVIOUS
<1> QED BY <1>2, <1>3

LEMMA GreatestNatural ==
    ASSUME NEW S \in SUBSET Nat, S # {}, NEW n \in Nat, \A k \in S : k <= n
    PROVE  \E m \in S : \A k \in S : k <= m
<1> DEFINE T == {n - k : k \in S}
<1>1. T \in SUBSET Nat /\ T # {}
    <2>1. \A k \in S : n - k \in Nat
        OBVIOUS
    <2> QED BY <2>1
<1>2. PICK m \in T : \A k \in T : m <= k
    BY <1>1, LeastNatural
<1>3. PICK k \in S : m = n - k
    OBVIOUS
<1>4. \A j \in S : n - k <= n - j
    BY <1>2, <1>3
<1> QED BY <1>4

LEMMA PrefixIs ==
    ASSUME NEW S, NEW s \in Seq(S), NEW n \in Nat, n <= Len(s)
    PROVE  /\ SubSeq(s, 1, n) \in Seq(S) /\ Len(SubSeq(s, 1, n)) = n /\ DOMAIN SubSeq(s, 1, n) = 1 .. n
           /\ \A i \in 1 .. n : i \in DOMAIN s /\ SubSeq(s, 1, n)[i] = s[i]
<1>1. SubSeq(s, 1, n) \in Seq(S)
    OBVIOUS
<1>2. Len(SubSeq(s, 1, n)) = n
    OBVIOUS
<1>3. \A i \in 1 .. n : i \in DOMAIN s /\ SubSeq(s, 1, n)[i] = s[i]
    OBVIOUS
<1> QED BY <1>1, <1>2, <1>3

LEMMA SuffixIs ==
    ASSUME NEW S, NEW s \in Seq(S), NEW o \in Nat, o <= Len(s)
    PROVE  /\ SubSeq(s, o + 1, Len(s)) \in Seq(S)
           /\ \A i \in DOMAIN SubSeq(s, o + 1, Len(s)) :
                 i \in Nat /\ i + o \in DOMAIN s /\ SubSeq(s, o + 1, Len(s))[i] = s[i + o]
<1>1. SubSeq(s, o + 1, Len(s)) \in Seq(S)
    OBVIOUS
<1>2. \A i \in DOMAIN SubSeq(s, o + 1, Len(s)) :
         i \in Nat /\ i + o \in DOMAIN s /\ SubSeq(s, o + 1, Len(s))[i] = s[i + o]
    OBVIOUS
<1> QED BY <1>1, <1>2

\* A sequence is what stands before its last element, and that element.
LEMMA LastApart ==
    ASSUME NEW S, NEW s \in Seq(S), s # <<>>
    PROVE  /\ Len(s) \in DOMAIN s /\ Last(s) \in S /\ Last(s) = s[Len(s)]
           /\ SubSeq(s, 1, Len(s) - 1) \in Seq(S)
           /\ s = Append(SubSeq(s, 1, Len(s) - 1), Last(s))
<1>1. Len(s) \in Nat /\ Len(s) # 0
    OBVIOUS
<1>2. Len(s) \in DOMAIN s /\ Last(s) = s[Len(s)]
    BY <1>1 DEF Last
<1>3. Last(s) \in S
    BY <1>2
<1>4. SubSeq(s, 1, Len(s) - 1) \in Seq(S)
    OBVIOUS
<1>5. s = Append(SubSeq(s, 1, Len(s) - 1), s[Len(s)])
    OBVIOUS
<1> QED BY <1>2, <1>3, <1>4, <1>5

LEMMA LastOfAppend ==
    ASSUME NEW S, NEW s \in Seq(S), NEW e \in S
    PROVE  Append(s, e) # <<>> /\ Last(Append(s, e)) = e
BY DEF Last

-----------------------------------------------------------------------------
(* Forms: the history and the messages.                                    *)

Ballots == UNION {[ws -> AllowDeny] : ws \in SUBSET Wraps}

\* Only a form names a gated call, only a question or its answer a question.
FormEvents ==
    {e \in [kind : Kinds, ids : SUBSET (Wraps \cup Questions), votes : Ballots] :
        /\ e.kind \in {"wraps", "result"} => e.ids \subseteq Wraps
        /\ e.kind \in {"question", "answer"} => e.ids \subseteq Questions}

Messages ==
    {m \in [kind : {"text", "raw", "answer", "submit"}, ids : SUBSET (Wraps \cup Questions),
            votes : Ballots] :
        m.kind = "answer" => m.ids \subseteq Questions}

FormTypes ==
    /\ history \in Seq(FormEvents) /\ msg \in Messages
    /\ fail = <<>> \/ \E m \in Messages : fail = <<m>>
    /\ phase \in {"idle", "start", "tools", "resumed", "model", "roundEnd"}
    /\ status \in {"none", "running", "done", "error"}
    /\ out \in BOOLEAN /\ sawAny \in BOOLEAN /\ dangling \in BOOLEAN /\ sawError \in BOOLEAN
    /\ round \in 0 .. MaxContinues
    /\ ran \in [Wraps -> Seq(AllowDeny)]
    /\ vote \in [Wraps -> AllowDeny \cup {"none", "failed"}]
    /\ broken \subseteq Wraps
    /\ DOMAIN msg.votes \subseteq Outstanding(history)

LEMMA BallotIs ==
    ASSUME NEW v \in Ballots
    PROVE  DOMAIN v \subseteq Wraps /\ \A w \in DOMAIN v : v[w] \in AllowDeny
BY DEF Ballots

LEMMA BallotsAre ==
    ASSUME NEW ws \in SUBSET Wraps, NEW v \in [ws -> AllowDeny]
    PROVE  v \in Ballots
BY DEF Ballots

LEMMA NoVotesIsBallot == NoVotes \in Ballots /\ DOMAIN NoVotes = {}
<1>1. NoVotes \in [{} -> AllowDeny]
    BY DEF NoVotes
<1> QED BY <1>1, BallotsAre DEF NoVotes

LEMMA EventIs ==
    ASSUME NEW k \in Kinds, NEW x \in SUBSET (Wraps \cup Questions), NEW v \in Ballots,
           k \in {"wraps", "result"} => x \subseteq Wraps,
           k \in {"question", "answer"} => x \subseteq Questions
    PROVE  /\ Event(k, x, v) \in FormEvents
           /\ Event(k, x, v).kind = k /\ Event(k, x, v).ids = x /\ Event(k, x, v).votes = v
BY DEF Event, FormEvents

\* An event adds to what is read off the history.
LEMMA ReadsAdd ==
    ASSUME NEW h \in Seq(FormEvents), NEW e \in FormEvents, NEW k
    PROVE  /\ IdsOf(Append(h, e), k) = IdsOf(h, k) \cup (IF e.kind = k THEN e.ids ELSE {})
           /\ VotedIn(Append(h, e), k) = VotedIn(h, k) \cup (IF e.kind = k THEN DOMAIN e.votes ELSE {})
<1> DEFINE a == Append(h, e)
<1>1. /\ DOMAIN a = DOMAIN h \cup {Len(h) + 1} /\ a[Len(h) + 1] = e
      /\ \A i \in DOMAIN h : a[i] = h[i] /\ i # Len(h) + 1
    OBVIOUS
<1>2. \A x : x \in IdsOf(a, k) <=> \E i \in DOMAIN a : a[i].kind = k /\ x \in a[i].ids
    BY DEF IdsOf
<1>3. \A x : x \in IdsOf(h, k) <=> \E i \in DOMAIN h : h[i].kind = k /\ x \in h[i].ids
    BY DEF IdsOf
<1>4. \A x : x \in VotedIn(a, k) <=> \E i \in DOMAIN a : a[i].kind = k /\ x \in DOMAIN a[i].votes
    BY DEF VotedIn
<1>5. \A x : x \in VotedIn(h, k) <=> \E i \in DOMAIN h : h[i].kind = k /\ x \in DOMAIN h[i].votes
    BY DEF VotedIn
<1>6. \A x : x \in IdsOf(a, k) <=> x \in IdsOf(h, k) \/ (e.kind = k /\ x \in e.ids)
    <2> HIDE DEF a
    <2> QED BY <1>1, <1>2, <1>3
<1>7. \A x : x \in VotedIn(a, k) <=> x \in VotedIn(h, k) \/ (e.kind = k /\ x \in DOMAIN e.votes)
    <2> HIDE DEF a
    <2> QED BY <1>1, <1>4, <1>5
<1> QED BY <1>6, <1>7

LEMMA ReadsAreWraps ==
    ASSUME NEW h \in Seq(FormEvents)
    PROVE  Outstanding(h) \subseteq Wraps /\ \A k : VotedIn(h, k) \subseteq Wraps
<1>1. \A i \in DOMAIN h : h[i] \in FormEvents
    OBVIOUS
<1>2. \A i \in DOMAIN h : DOMAIN h[i].votes \subseteq Wraps /\ (h[i].kind = "wraps" => h[i].ids \subseteq Wraps)
    BY <1>1, BallotIs DEF FormEvents
<1> QED BY <1>2 DEF Outstanding, IdsOf, VotedIn

\* The latest stash of a form.
IsLatest(h, w, i) ==
    /\ i \in DOMAIN h /\ h[i].kind = "stash" /\ w \in DOMAIN h[i].votes
    /\ \A j \in DOMAIN h : j > i => ~(h[j].kind = "stash" /\ w \in DOMAIN h[j].votes)

LEMMA LatestIs ==
    ASSUME NEW h \in Seq(FormEvents), NEW w \in VotedIn(h, "stash")
    PROVE  \E i \in DOMAIN h : IsLatest(h, w, i)
<1> DEFINE T == {i \in DOMAIN h : h[i].kind = "stash" /\ w \in DOMAIN h[i].votes}
<1>1. T \in SUBSET Nat /\ (\A i \in T : i <= Len(h)) /\ Len(h) \in Nat
    OBVIOUS
<1>2. T # {}
    BY DEF VotedIn
<1>3. \E i \in T : \A j \in T : j <= i
    <2> HIDE DEF T
    <2> QED BY <1>1, <1>2, GreatestNatural
<1>4. PICK i \in T : \A j \in T : j <= i
    BY <1>3
<1>5. \A j \in DOMAIN h : j > i => j \notin T
    BY <1>1, <1>4
<1> QED BY <1>4, <1>5 DEF IsLatest

LEMMA StashedIsLatest ==
    ASSUME NEW h \in Seq(FormEvents), NEW w, NEW i \in DOMAIN h, IsLatest(h, w, i)
    PROVE  w \in VotedIn(h, "stash") /\ Stashed(h)[w] = h[i].votes[w]
<1>1. w \in VotedIn(h, "stash")
    BY DEF IsLatest, VotedIn
<1>2. \A j \in DOMAIN h : IsLatest(h, w, j) => j = i
    BY DEF IsLatest
<1>3. (CHOOSE j \in DOMAIN h : IsLatest(h, w, j)) = i
    BY <1>2
<1>4. (CHOOSE j \in DOMAIN h :
            /\ h[j].kind = "stash" /\ w \in DOMAIN h[j].votes
            /\ \A l \in DOMAIN h : l > j => ~(h[l].kind = "stash" /\ w \in DOMAIN h[l].votes)) = i
    BY <1>3 DEF IsLatest
<1> QED BY <1>1, <1>4 DEF Stashed

LEMMA StashedVote ==
    ASSUME NEW h \in Seq(FormEvents), NEW w \in VotedIn(h, "stash")
    PROVE  Stashed(h)[w] \in AllowDeny
<1>1. PICK i \in DOMAIN h : IsLatest(h, w, i)
    BY LatestIs
<1>2. h[i] \in FormEvents /\ w \in DOMAIN h[i].votes
    BY <1>1 DEF IsLatest
<1> QED BY <1>1, <1>2, StashedIsLatest, BallotIs DEF FormEvents

\* A later stash of a form wins, every other event leaves the stashes alone.
LEMMA StashAdds ==
    ASSUME NEW h \in Seq(FormEvents), NEW e \in FormEvents, NEW w
    PROVE  /\ e.kind = "stash" /\ w \in DOMAIN e.votes => Stashed(Append(h, e))[w] = e.votes[w]
           /\ ~(e.kind = "stash" /\ w \in DOMAIN e.votes) /\ w \in VotedIn(h, "stash")
                => Stashed(Append(h, e))[w] = Stashed(h)[w]
<1> DEFINE a == Append(h, e)
<1>1. /\ DOMAIN a = DOMAIN h \cup {Len(h) + 1} /\ a[Len(h) + 1] = e /\ a \in Seq(FormEvents)
      /\ \A i \in DOMAIN h : a[i] = h[i] /\ i # Len(h) + 1 /\ i < Len(h) + 1
    OBVIOUS
<1>2. CASE e.kind = "stash" /\ w \in DOMAIN e.votes
    <2>1. IsLatest(a, w, Len(h) + 1)
        BY <1>1, <1>2 DEF IsLatest
    <2>2. Stashed(a)[w] = a[Len(h) + 1].votes[w]
        <3> HIDE DEF a
        <3> QED BY <1>1, <2>1, StashedIsLatest
    <2> QED BY <1>1, <1>2, <2>2
<1>3. CASE ~(e.kind = "stash" /\ w \in DOMAIN e.votes) /\ w \in VotedIn(h, "stash")
    <2>1. PICK i \in DOMAIN h : IsLatest(h, w, i)
        BY <1>3, LatestIs
    <2>2. Stashed(a)[w] = a[i].votes[w]
        <3> HIDE DEF a
        <3>1. IsLatest(a, w, i) /\ i \in DOMAIN a
            BY <1>1, <1>3, <2>1 DEF IsLatest
        <3> QED BY <1>1, <3>1, StashedIsLatest
    <2> QED BY <1>1, <1>3, <2>1, <2>2, StashedIsLatest
<1> QED BY <1>2, <1>3

\* What the plugin makes of a message.
LEMMA ReceivedIs ==
    ASSUME NEW h \in Seq(FormEvents), NEW m \in Messages
    PROVE  /\ Received(h, m) \in FormEvents
           /\ m.kind # "submit" => Received(h, m) = m
           /\ m.kind = "submit" => Received(h, m).kind \in {"stash", "bundle"}
           /\ Received(h, m).kind = "stash" => m.kind = "submit" /\ Received(h, m).votes = m.votes
           /\ Received(h, m).kind = "bundle" =>
                 /\ m.kind = "submit" /\ DOMAIN Received(h, m).votes = Unresolved(h)
                 /\ \A w \in Unresolved(h) :
                      IF w \in DOMAIN m.votes THEN Received(h, m).votes[w] = m.votes[w]
                      ELSE w \in VotedIn(h, "stash") /\ Received(h, m).votes[w] = Stashed(h)[w]
<1> DEFINE open == Unresolved(h)
           fresh == DOMAIN m.votes \cap open
           kept == VotedIn(h, "stash") \cap open
           joined == [w \in fresh \cup kept |-> IF w \in fresh THEN m.votes[w] ELSE Stashed(h)[w]]
<1>1. m.votes \in Ballots /\ (\A w \in DOMAIN m.votes : m.votes[w] \in AllowDeny)
      /\ DOMAIN m.votes \subseteq Wraps
    BY BallotIs DEF Messages
<1>2. CASE m.kind # "submit"
    <2>1. Received(h, m) = m
        BY <1>2 DEF Received
    <2>2. m \in FormEvents
        BY <1>2 DEF Messages, FormEvents, Kinds
    <2>3. m.kind \notin {"stash", "bundle"}
        BY DEF Messages
    <2> QED BY <1>2, <2>1, <2>2, <2>3
<1>3. CASE m.kind = "submit" /\ (open = {} \/ ~(open \subseteq fresh \cup kept))
    <2>1. Received(h, m) = Event("stash", {}, m.votes)
        BY <1>3 DEF Received
    <2> QED BY <1>1, <1>3, <2>1, EventIs DEF Kinds
<1>4. CASE m.kind = "submit" /\ ~(open = {} \/ ~(open \subseteq fresh \cup kept))
    <2>1. Received(h, m) = Event("bundle", {}, joined)
        BY <1>4 DEF Received
    <2>2. fresh \cup kept = open
        BY <1>4
    <2>3. \A w \in fresh \cup kept : joined[w] = IF w \in fresh THEN m.votes[w] ELSE Stashed(h)[w]
        OBVIOUS
    <2>4. joined \in Ballots
        <3>1. fresh \cup kept \in SUBSET Wraps
            BY <1>1, ReadsAreWraps
        <3>2. \A w \in fresh \cup kept : joined[w] \in AllowDeny
            BY <1>1, StashedVote
        <3>3. joined \in [fresh \cup kept -> AllowDeny]
            BY <3>2
        <3> QED BY <3>1, <3>3, BallotsAre
    <2>5. /\ Event("bundle", {}, joined) \in FormEvents
          /\ Event("bundle", {}, joined).kind = "bundle" /\ Event("bundle", {}, joined).votes = joined
        <3> HIDE DEF joined
        <3> QED BY <2>4, EventIs DEF Kinds
    <2>6. DOMAIN joined = fresh \cup kept
        OBVIOUS
    <2>7. \A w \in open : IF w \in DOMAIN m.votes THEN joined[w] = m.votes[w]
                           ELSE w \in VotedIn(h, "stash") /\ joined[w] = Stashed(h)[w]
        BY <2>2, <2>3
    <2> HIDE DEF joined
    <2> QED BY <1>4, <2>1, <2>2, <2>5, <2>6, <2>7
<1> QED BY <1>2, <1>3, <1>4

\* The forms a prune of the last event would open again.
Reopens(h) == IF h # <<>> /\ Last(h).kind = "bundle" THEN DOMAIN Last(h).votes ELSE {}

\* The prune takes a message of the user at most: no form, no result, and of the
\* resolutions those of a bundle that is the last event.
LEMMA PrunedIs ==
    ASSUME history \in Seq(FormEvents)
    PROVE  /\ Pruned(history) \in Seq(FormEvents)
           /\ Outstanding(Pruned(history)) = Outstanding(history)
           /\ Resolved(Pruned(history)) \subseteq Resolved(history)
           /\ Resolved(history) \subseteq Resolved(Pruned(history)) \cup Reopens(history)
           /\ IdsOf(Pruned(history), "result") = IdsOf(history, "result")
           /\ \/ Pruned(history) = history
              \/ /\ fail # <<>> /\ history # <<>>
                 /\ Last(history) \in FormEvents
                 /\ Last(history).kind \in UserKinds
                 /\ TextOf(Last(history)) = TextOf(fail[1])
                 /\ history = Append(Pruned(history), Last(history))
<1>1. CASE Pruned(history) = history
    BY <1>1
<1>2. CASE Pruned(history) # history
    <2>1. /\ fail # <<>> /\ history # <<>> /\ Last(history).kind \in UserKinds
          /\ TextOf(Last(history)) = TextOf(fail[1])
          /\ Pruned(history) = SubSeq(history, 1, Len(history) - 1)
        BY <1>2 DEF Pruned
    <2> DEFINE d == SubSeq(history, 1, Len(history) - 1)
    <2>2. d \in Seq(FormEvents) /\ Last(history) \in FormEvents /\ history = Append(d, Last(history))
        BY <2>1, LastApart
    <2>3. Last(history).kind \notin {"wraps", "result"}
        BY <2>1 DEF UserKinds
    <2> DEFINE e == Last(history)
    <2>4. /\ IdsOf(history, "wraps") = IdsOf(d, "wraps") \cup (IF e.kind = "wraps" THEN e.ids ELSE {})
          /\ IdsOf(history, "result") = IdsOf(d, "result") \cup (IF e.kind = "result" THEN e.ids ELSE {})
          /\ VotedIn(history, "bundle") = VotedIn(d, "bundle") \cup (IF e.kind = "bundle" THEN DOMAIN e.votes ELSE {})
        <3> HIDE DEF d, e
        <3>1. e \in FormEvents /\ history = Append(d, e)
            BY <2>2 DEF e
        <3> QED BY <2>2, <3>1, ReadsAdd
    <2>5. Reopens(history) = IF e.kind = "bundle" THEN DOMAIN e.votes ELSE {}
        BY <2>1 DEF Reopens
    <2> QED BY <2>1, <2>2, <2>3, <2>4, <2>5 DEF Outstanding, Resolved
<1> QED BY <1>1, <1>2

\* When nothing waits, no batch is open and every question has its answer.
LEMMA NothingWaits ==
    ASSUME NEW h \in Seq(FormEvents), IdsOf(h, "result") \subseteq Resolved(h), Pending(h) = {}
    PROVE  Unresolved(h) = {} /\ IdsOf(h, "question") \subseteq IdsOf(h, "answer")
<1>1. \A i \in DOMAIN h : h[i] \in FormEvents
    OBVIOUS
<1>2. ASSUME NEW w \in Outstanding(h) PROVE w \in Resolved(h)
    <2>1. PICK i \in DOMAIN h : h[i].kind = "wraps" /\ w \in h[i].ids
        BY <1>2 DEF Outstanding, IdsOf
    <2>2. w \in Wraps /\ w \in ParksOn(h[i])
        BY <1>1, <2>1 DEF FormEvents, ParksOn
    <2>3. PICK j \in DOMAIN h : w \in Answers(h[j])
        BY <2>1, <2>2 DEF Pending
    <2>4. h[j].kind # "answer"
        BY <1>1, <2>2, <2>3, ConfirmResumeAssumption DEF Answers, FormEvents
    <2>5. \/ h[j].kind = "bundle" /\ w \in DOMAIN h[j].votes
          \/ h[j].kind = "result" /\ w \in h[j].ids
        BY <2>3, <2>4 DEF Answers
    <2> QED BY <2>5 DEF Resolved, VotedIn, IdsOf
<1>3. ASSUME NEW q \in IdsOf(h, "question") PROVE q \in IdsOf(h, "answer")
    <2>1. PICK i \in DOMAIN h : h[i].kind = "question" /\ q \in h[i].ids
        BY <1>3 DEF IdsOf
    <2>2. q \in Questions /\ q \in ParksOn(h[i])
        BY <1>1, <2>1 DEF FormEvents, ParksOn
    <2>3. PICK j \in DOMAIN h : q \in Answers(h[j])
        BY <2>1, <2>2 DEF Pending
    <2>4. DOMAIN h[j].votes \subseteq Wraps
        BY <1>1, BallotIs DEF FormEvents
    <2>5. h[j].kind = "answer" /\ q \in h[j].ids
        BY <1>1, <2>2, <2>3, <2>4, ConfirmResumeAssumption DEF Answers, FormEvents
    <2> QED BY <2>5 DEF IdsOf
<1> QED BY <1>2, <1>3 DEF Unresolved

-----------------------------------------------------------------------------
(* The steps of a turn, in groups that change the same things.             *)

LEMMA OrphanIs ==
    ASSUME FormTypes
    PROVE  /\ Orphan = <<>> \/ \E m \in Messages : Orphan = <<m>>
           /\ Orphan # <<>> => status = "error" /\ ~out /\ Orphan[1] = msg
BY DEF FormTypes, Orphan

\* A user's request starts a turn on the idle session.
LEMMA UserStarts ==
    ASSUME FormTypes, User
    PROVE  /\ phase = "idle"
           /\ \E m \in Messages : StartTurn(m, Orphan) /\ DOMAIN m.votes \subseteq Outstanding(history)
<1> DEFINE Known(m) == m \in Messages /\ DOMAIN m.votes \subseteq Outstanding(history)
<1>1. history \in Seq(FormEvents) /\ msg \in Messages /\ DOMAIN msg.votes \subseteq Outstanding(history)
    BY DEF FormTypes
<1>2. CASE Say
    <2>1. Known(Plain("text"))
        BY NoVotesIsBallot DEF Plain, Event, Messages
    <2> QED BY <1>2, <2>1 DEF Say
<1>3. CASE Submit
    <2>0. PICK ws \in (SUBSET Outstanding(history)) \ {{}} :
            \E votes \in [ws -> AllowDeny] : StartTurn(Event("submit", {}, votes), Orphan)
        BY <1>3 DEF Submit
    <2>1. PICK votes \in [ws -> AllowDeny] : StartTurn(Event("submit", {}, votes), Orphan)
        BY <2>0
    <2>2. ws \in SUBSET Wraps /\ DOMAIN votes = ws
        BY <1>1, ReadsAreWraps
    <2>3. votes \in Ballots
        BY <2>2, BallotsAre
    <2>4. Known(Event("submit", {}, votes))
        BY <2>2, <2>3 DEF Event, Messages
    <2> QED BY <1>3, <2>1, <2>4 DEF Submit
<1>4. CASE SubmitGarbled
    <2>1. PICK w \in Outstanding(history) : StartTurn(Event("raw", {w}, NoVotes), Orphan)
        BY <1>4 DEF SubmitGarbled
    <2>2. Known(Event("raw", {w}, NoVotes))
        BY <1>1, ReadsAreWraps, NoVotesIsBallot DEF Event, Messages
    <2> QED BY <1>4, <2>1, <2>2 DEF SubmitGarbled
<1>5. CASE AnswerQuestion
    <2>1. PICK q \in Questions \cap Pending(history) : StartTurn(Event("answer", {q}, NoVotes), Orphan)
        BY <1>5 DEF AnswerQuestion
    <2>2. Known(Event("answer", {q}, NoVotes))
        BY NoVotesIsBallot DEF Event, Messages
    <2> QED BY <1>5, <2>1, <2>2 DEF AnswerQuestion
<1>6. CASE Retry
    BY <1>1, <1>6 DEF Retry
<1> QED BY <1>2, <1>3, <1>4, <1>5, <1>6 DEF User

\* What the model can add to the history.
ModelActs == ModelReplies \/ ModelGates \/ ModelAsks \/ HandsBack \/ ModelErrs

LEMMA ModelAdds ==
    ASSUME FormTypes, ModelActs
    PROVE  /\ phase = "model" /\ phase' \in {"model", "roundEnd"}
           /\ UNCHANGED <<msg, status, fail, round, turns, ran, vote, broken>>
           /\ dangling' \in {TRUE, FALSE, dangling} /\ sawError' \in {TRUE, FALSE, sawError}
           /\ \E e \in FormEvents :
                 /\ Emit(e)
                 /\ e.kind \in {"reply", "wraps", "question", "handback", "error"}
<1>1. \A k \in {"reply", "handback", "error"} : Plain(k) \in FormEvents /\ Plain(k).kind = k
    BY EventIs, NoVotesIsBallot DEF Plain, Kinds
<1>2. CASE ModelReplies
    BY <1>1, <1>2 DEF ModelReplies
<1>3. CASE ModelGates
    <2>1. PICK ws \in SUBSET (Wraps \ Outstanding(history)) : ws # {} /\ Emit(Event("wraps", ws, NoVotes))
        BY <1>3 DEF ModelGates
    <2>2. Event("wraps", ws, NoVotes) \in FormEvents /\ Event("wraps", ws, NoVotes).kind = "wraps"
        BY EventIs, NoVotesIsBallot DEF Kinds
    <2> QED BY <1>3, <2>1, <2>2 DEF ModelGates
<1>4. CASE ModelAsks
    <2>1. PICK q \in Questions \ IdsOf(history, "question") : Emit(Event("question", {q}, NoVotes))
        BY <1>4 DEF ModelAsks
    <2>2. Event("question", {q}, NoVotes) \in FormEvents /\ Event("question", {q}, NoVotes).kind = "question"
        BY EventIs, NoVotesIsBallot DEF Kinds
    <2> QED BY <1>4, <2>1, <2>2 DEF ModelAsks
<1>5. CASE HandsBack
    BY <1>1, <1>5 DEF HandsBack
<1>6. CASE ModelErrs
    BY <1>1, <1>6 DEF ModelErrs
<1> QED BY <1>2, <1>3, <1>4, <1>5, <1>6 DEF ModelActs

\* A bundle is the last event only until its tools run, or when they have raised; and
\* what has run is resolved, or its pass has raised.
BundleInv ==
    /\ history # <<>> /\ Last(history).kind = "bundle" => phase \in {"tools", "idle", "start"}
    /\ phase = "tools" => /\ history # <<>> /\ Last(history).kind = "bundle"
                          /\ \A w \in DOMAIN Last(history).votes : ran[w] = <<>> \/ w \in broken
    /\ phase # "tools" => Reopens(history) \subseteq broken
    /\ Reopens(history) \cap IdsOf(history, "result") = {}
    /\ \A w \in Wraps : ran[w] # <<>> => w \in Resolved(history) \/ w \in broken
    /\ \A w \in Wraps : Len(ran[w]) <= 1 \/ w \in broken
    /\ IdsOf(history, "result") \subseteq Resolved(history)

\* Storing a message: what the prune leaves, and what the plugin makes of the message.
LEMMA StoreAdds ==
    ASSUME FormTypes, BundleInv, Store
    PROVE  \E h \in Seq(FormEvents), e \in FormEvents :
             /\ h = Pruned(history) /\ e = Received(h, msg) /\ history' = Append(h, e)
             /\ e.kind \in {"text", "raw", "answer", "stash", "bundle"}
             /\ Outstanding(h) = Outstanding(history)
             /\ Resolved(h) \subseteq Resolved(history)
             /\ Resolved(history) \subseteq Resolved(h) \cup Reopens(history)
             /\ Unresolved(h) \subseteq Unresolved(history) \cup Reopens(history)
             /\ Unresolved(history) \subseteq Unresolved(h)
             /\ Outstanding(history') = Outstanding(history)
             /\ IdsOf(history', "result") = IdsOf(history, "result")
             /\ IdsOf(history, "result") \subseteq Resolved(h)
             /\ Resolved(history') = Resolved(h) \cup (IF e.kind = "bundle" THEN DOMAIN e.votes ELSE {})
             /\ e.kind = "bundle" => DOMAIN e.votes = Unresolved(h)
<1> DEFINE h == Pruned(history)
           e == Received(h, msg)
<1>1. phase = "start" /\ history' = Append(h, e)
    BY DEF Store
<1>2. history \in Seq(FormEvents) /\ msg \in Messages
    BY DEF FormTypes
<1>3. /\ h \in Seq(FormEvents) /\ Outstanding(h) = Outstanding(history)
      /\ Resolved(h) \subseteq Resolved(history) /\ Resolved(history) \subseteq Resolved(h) \cup Reopens(history)
      /\ IdsOf(h, "result") = IdsOf(history, "result")
    BY <1>2, PrunedIs
<1>4. Unresolved(h) \subseteq Unresolved(history) \cup Reopens(history) /\ Unresolved(history) \subseteq Unresolved(h)
    BY <1>3 DEF Unresolved
<1>8. IdsOf(history, "result") \subseteq Resolved(h)
    BY <1>3 DEF BundleInv
<1> HIDE DEF h
<1>5. /\ e \in FormEvents /\ e.kind \in {"text", "raw", "answer", "stash", "bundle"}
      /\ e.kind = "bundle" => DOMAIN e.votes = Unresolved(h)
    <2>1. /\ e \in FormEvents /\ (msg.kind # "submit" => e = msg)
          /\ msg.kind = "submit" => e.kind \in {"stash", "bundle"}
          /\ e.kind = "bundle" => DOMAIN e.votes = Unresolved(h)
        BY <1>2, <1>3, ReceivedIs
    <2>2. msg.kind \in {"text", "raw", "answer", "submit"}
        BY <1>2 DEF Messages
    <2> HIDE DEF e
    <2> QED BY <2>1, <2>2
<1> HIDE DEF e
<1>6. /\ IdsOf(history', "wraps") = IdsOf(h, "wraps") \cup (IF e.kind = "wraps" THEN e.ids ELSE {})
      /\ IdsOf(history', "result") = IdsOf(h, "result") \cup (IF e.kind = "result" THEN e.ids ELSE {})
      /\ VotedIn(history', "bundle") = VotedIn(h, "bundle") \cup (IF e.kind = "bundle" THEN DOMAIN e.votes ELSE {})
    BY <1>1, <1>3, <1>5, ReadsAdd
<1>7. /\ Outstanding(history') = Outstanding(h) /\ IdsOf(history', "result") = IdsOf(h, "result")
      /\ Resolved(history') = Resolved(h) \cup (IF e.kind = "bundle" THEN DOMAIN e.votes ELSE {})
    BY <1>5, <1>6 DEF Outstanding, Resolved
<1> QED BY <1>1, <1>3, <1>4, <1>5, <1>7, <1>8 DEF h, e

\* The tools of a bundle run: their result is the next event.
LEMMA ToolsAdd ==
    ASSUME FormTypes, BundleInv, RunTools
    PROVE  \E e \in FormEvents :
             /\ Emit(e) /\ e.kind = "result" /\ e.ids = DOMAIN Last(history).votes
             /\ e.ids \subseteq Resolved(history) /\ Last(history) \in FormEvents
             /\ Last(history).kind = "bundle"
             /\ \A w \in e.ids : w \in Wraps /\ Last(history).votes[w] \in AllowDeny
<1>1. history \in Seq(FormEvents) /\ history # <<>> /\ Last(history).kind = "bundle"
    BY DEF FormTypes, BundleInv, RunTools
<1>2. Len(history) \in DOMAIN history /\ Last(history) \in FormEvents /\ Last(history) = history[Len(history)]
    BY <1>1, LastApart
<1>3. Last(history).votes \in Ballots
    BY <1>2 DEF FormEvents
<1> DEFINE ws == DOMAIN Last(history).votes
<1>4. ws \subseteq Wraps /\ \A w \in ws : Last(history).votes[w] \in AllowDeny
    BY <1>3, BallotIs
<1>5. ws \subseteq Resolved(history)
    BY <1>1, <1>2 DEF Resolved, VotedIn
<1>6. Emit(Event("result", ws, NoVotes))
    BY DEF RunTools
<1> HIDE DEF ws
<1>7. /\ Event("result", ws, NoVotes) \in FormEvents /\ Event("result", ws, NoVotes).kind = "result"
      /\ Event("result", ws, NoVotes).ids = ws
    BY <1>4, EventIs, NoVotesIsBallot DEF Kinds
<1> QED BY <1>1, <1>2, <1>4, <1>5, <1>6, <1>7 DEF ws

\* What any other event adds.
LEMMA EventAdds ==
    ASSUME FormTypes, NEW e \in FormEvents, history' = Append(history, e), e.kind # "bundle"
    PROVE  /\ history' \in Seq(FormEvents) /\ history' # <<>> /\ Last(history') = e
           /\ Outstanding(history) \subseteq Outstanding(history')
           /\ e.kind # "wraps" => Outstanding(history') = Outstanding(history)
           /\ Resolved(history') = Resolved(history)
           /\ IdsOf(history', "result") = IdsOf(history, "result") \cup (IF e.kind = "result" THEN e.ids ELSE {})
<1>1. history \in Seq(FormEvents)
    BY DEF FormTypes
<1>2. /\ IdsOf(history', "wraps") = IdsOf(history, "wraps") \cup (IF e.kind = "wraps" THEN e.ids ELSE {})
      /\ IdsOf(history', "result") = IdsOf(history, "result") \cup (IF e.kind = "result" THEN e.ids ELSE {})
      /\ VotedIn(history', "bundle") = VotedIn(history, "bundle") \cup (IF e.kind = "bundle" THEN DOMAIN e.votes ELSE {})
    BY <1>1, ReadsAdd
<1>3. history' \in Seq(FormEvents) /\ history' # <<>> /\ Last(history') = e
    BY <1>1, LastOfAppend
<1>4. /\ Outstanding(history) \subseteq Outstanding(history')
      /\ e.kind # "wraps" => Outstanding(history') = Outstanding(history)
    BY <1>2 DEF Outstanding
<1>5. Resolved(history') = Resolved(history)
    BY <1>2 DEF Resolved
<1> QED BY <1>2, <1>3, <1>4, <1>5

\* The pass over a bundle raises: some of its tools have run.
LEMMA ToolRaisesIs ==
    ASSUME FormTypes, BundleInv, ToolRaises
    PROVE  /\ phase = "tools" /\ phase' = "idle" /\ status' = "error"
           /\ UNCHANGED <<history, msg, out, fail, round, sawAny, dangling, sawError, turns>>
           /\ Reopens(history) = DOMAIN Last(history).votes /\ Reopens(history) \subseteq Wraps
           /\ broken' = broken \cup Reopens(history)
           /\ vote' = [w \in Wraps |-> IF w \in DOMAIN msg.votes THEN "failed" ELSE vote[w]]
           /\ \E done \in SUBSET Reopens(history) :
                 ran' = [w \in Wraps |-> IF w \in done THEN Append(ran[w], Last(history).votes[w]) ELSE ran[w]]
           /\ \A w \in Reopens(history) : Last(history).votes[w] \in AllowDeny
<1>1. history \in Seq(FormEvents) /\ history # <<>> /\ Last(history).kind = "bundle"
    BY DEF FormTypes, BundleInv, ToolRaises
<1>2. Last(history) \in FormEvents
    BY <1>1, LastApart
<1>3. Last(history).votes \in Ballots
    BY <1>2 DEF FormEvents
<1> DEFINE ws == DOMAIN Last(history).votes
<1>4. ws \subseteq Wraps /\ \A w \in ws : Last(history).votes[w] \in AllowDeny
    BY <1>3, BallotIs
<1>5. Reopens(history) = ws
    BY <1>1 DEF Reopens
<1> QED BY <1>4, <1>5 DEF ToolRaises

\* A step that stores no event.
Quiet == ResumeSilently \/ ResumeToModel \/ SkipModel \/ Raise \/ EndInError \/ EndDone

LEMMA QuietSteps ==
    ASSUME FormTypes, Quiet
    PROVE  /\ UNCHANGED <<history, msg, out, fail, round, sawAny, dangling, sawError, turns, ran, broken>>
           /\ phase' \in {"idle", "model", "roundEnd"}
           /\ phase # "tools" /\ phase # "idle"
           /\ status' \in {status, "error", "done"}
           /\ vote' = vote \/ vote' = [w \in Wraps |-> IF phase # "start" /\ ~out /\ w \in DOMAIN msg.votes
                                                     THEN "failed" ELSE vote[w]]
BY DEF Quiet, ResumeSilently, ResumeToModel, SkipModel, Raise, EndInError, EndDone, EndTurn

LEMMA FormGroups == Next => User \/ Store \/ RunTools \/ ToolRaises \/ ModelActs \/ Quiet \/ Continue
BY DEF Next, Run, ModelActs, Quiet

LEMMA ContinueIs ==
    Plain("continue") \in FormEvents /\ Plain("continue").kind = "continue"
BY EventIs, NoVotesIsBallot DEF Plain, Kinds

LEMMA FormTypesStart == Init => FormTypes /\ BundleInv
<1> SUFFICES ASSUME Init PROVE FormTypes /\ BundleInv
    OBVIOUS
<1>1. NoMsg \in Messages /\ DOMAIN NoMsg.votes = {}
    BY NoVotesIsBallot DEF NoMsg, Plain, Event, Messages
<1>2. FormTypes
    <2>1. round \in 0 .. MaxContinues
        BY ConfirmResumeAssumption DEF Init
    <2>2. ran \in [Wraps -> Seq(AllowDeny)] /\ vote \in [Wraps -> AllowDeny \cup {"none", "failed"}]
        BY DEF Init
    <2>3. broken \subseteq Wraps
          /\ history \in Seq(FormEvents) /\ msg = NoMsg /\ DOMAIN msg.votes \subseteq Outstanding(history)
        BY <1>1 DEF Init
    <2> QED BY <1>1, <2>1, <2>2, <2>3 DEF Init, FormTypes
<1>3. IdsOf(history, "result") = {}
    BY DEF Init, IdsOf
<1> QED BY <1>2, <1>3 DEF Init, BundleInv, Reopens

LEMMA FormTypesStep == FormTypes /\ BundleInv /\ [Next]_vars => FormTypes'
<1> SUFFICES ASSUME FormTypes, BundleInv, [Next]_vars PROVE FormTypes'
    OBVIOUS
<1>1. CASE UNCHANGED vars
    BY <1>1 DEF vars, FormTypes
<1>2. CASE User
    <2>1. PICK m \in Messages : StartTurn(m, Orphan) /\ DOMAIN m.votes \subseteq Outstanding(history)
        BY <1>2, UserStarts
    <2>2. Orphan = <<>> \/ \E o \in Messages : Orphan = <<o>>
        BY OrphanIs
    <2>3. round' \in 0 .. MaxContinues
        BY <2>1, ConfirmResumeAssumption DEF StartTurn
    <2>4. UNCHANGED <<history, ran, vote, broken>> /\ msg' = m /\ fail' = Orphan /\ status' = "running" /\ phase' = "start"
          /\ out' = FALSE /\ sawAny' = FALSE /\ dangling' = FALSE /\ sawError' = FALSE
        BY <2>1 DEF StartTurn
    <2>5. DOMAIN msg'.votes \subseteq Outstanding(history')
        BY <2>1, <2>4 DEF Outstanding
    <2> QED BY <2>2, <2>3, <2>4, <2>5 DEF FormTypes
<1>3. CASE Store
    <2>1. PICK h \in Seq(FormEvents), e \in FormEvents :
            history' = Append(h, e) /\ Outstanding(history') = Outstanding(history)
        BY <1>3, StoreAdds
    <2>2. history' \in Seq(FormEvents)
        BY <2>1
    <2>3. /\ phase' \in {"tools", "resumed", "model"}
          /\ UNCHANGED <<msg, status, out, fail, round, sawAny, dangling, sawError, turns, ran, broken>>
          /\ vote' = [w \in Wraps |-> IF msg.kind = "submit" /\ w \in DOMAIN msg.votes \cap Unresolved(Pruned(history))
                                      THEN msg.votes[w] ELSE vote[w]]
        BY <1>3 DEF Store
    <2>4. \A w \in DOMAIN msg.votes : msg.votes[w] \in AllowDeny
        BY BallotIs DEF FormTypes, Messages
    <2>5. vote' \in [Wraps -> AllowDeny \cup {"none", "failed"}]
        BY <2>3, <2>4 DEF FormTypes
    <2> QED BY <2>1, <2>2, <2>3, <2>5 DEF FormTypes
<1>4. CASE RunTools
    <2>1. PICK e \in FormEvents : /\ Emit(e) /\ e.kind = "result" /\ e.ids = DOMAIN Last(history).votes
                                 /\ \A w \in e.ids : w \in Wraps /\ Last(history).votes[w] \in AllowDeny
        BY <1>4, ToolsAdd
    <2>2. history' = Append(history, e) /\ sawAny' = TRUE /\ out' = TRUE
        BY <2>1 DEF Emit
    <2>3. history' \in Seq(FormEvents) /\ Outstanding(history') = Outstanding(history)
        BY <2>1, <2>2, EventAdds
    <2>4. ran' = [w \in Wraps |-> IF w \in e.ids THEN Append(ran[w], Last(history).votes[w]) ELSE ran[w]]
        BY <1>4, <2>1 DEF RunTools
    <2>5. ran' \in [Wraps -> Seq(AllowDeny)]
        BY <2>1, <2>4 DEF FormTypes
    <2>6. phase' = "model" /\ UNCHANGED <<msg, status, fail, round, dangling, sawError, turns, vote, broken>>
        BY <1>4 DEF RunTools
    <2> QED BY <2>2, <2>3, <2>5, <2>6 DEF FormTypes
<1>8. CASE ToolRaises
    <2>1. PICK done \in SUBSET Reopens(history) :
             ran' = [w \in Wraps |-> IF w \in done THEN Append(ran[w], Last(history).votes[w]) ELSE ran[w]]
        BY <1>8, ToolRaisesIs
    <2>2. \A w \in Reopens(history) : Last(history).votes[w] \in AllowDeny
        BY <1>8, ToolRaisesIs
    <2>3. ran' \in [Wraps -> Seq(AllowDeny)]
        BY <2>1, <2>2 DEF FormTypes
    <2>4. /\ phase' = "idle" /\ status' = "error" /\ Reopens(history) \subseteq Wraps
          /\ UNCHANGED <<history, msg, out, fail, round, sawAny, dangling, sawError, turns>>
          /\ broken' = broken \cup Reopens(history)
          /\ vote' = [w \in Wraps |-> IF w \in DOMAIN msg.votes THEN "failed" ELSE vote[w]]
        BY <1>8, ToolRaisesIs
    <2>5. vote' \in [Wraps -> AllowDeny \cup {"none", "failed"}]
        BY <2>4 DEF FormTypes
    <2> QED BY <2>3, <2>4, <2>5 DEF FormTypes
<1>5. CASE ModelActs
    <2>1. PICK e \in FormEvents : Emit(e) /\ e.kind \in {"reply", "wraps", "question", "handback", "error"}
        BY <1>5, ModelAdds
    <2>2. history' = Append(history, e) /\ sawAny' = TRUE /\ out' = TRUE
        BY <2>1 DEF Emit
    <2>3. history' \in Seq(FormEvents) /\ Outstanding(history) \subseteq Outstanding(history')
        BY <2>1, <2>2, EventAdds
    <2>4. /\ phase' \in {"model", "roundEnd"} /\ UNCHANGED <<msg, status, fail, round, turns, ran, vote, broken>>
          /\ dangling' \in {TRUE, FALSE, dangling} /\ sawError' \in {TRUE, FALSE, sawError}
        BY <1>5, ModelAdds
    <2> QED BY <2>2, <2>3, <2>4 DEF FormTypes
<1>6. CASE Quiet
    BY <1>6, QuietSteps DEF FormTypes
<1>7. CASE Continue
    <2>1. history' = Append(history, Plain("continue"))
        BY <1>7 DEF Continue
    <2>2. history' \in Seq(FormEvents) /\ Outstanding(history') = Outstanding(history)
        BY <2>1, ContinueIs, EventAdds
    <2>3. round' \in 0 .. MaxContinues
        BY <1>7, ConfirmResumeAssumption DEF Continue, FormTypes
    <2>4. /\ sawAny' = FALSE /\ dangling' = FALSE /\ sawError' = FALSE /\ phase' = "model"
          /\ UNCHANGED <<msg, status, out, fail, ran, vote, broken>>
        BY <1>7 DEF Continue
    <2>5. DOMAIN msg'.votes \subseteq Outstanding(history')
        BY <2>2, <2>4 DEF FormTypes
    <2> QED BY <2>2, <2>3, <2>4, <2>5 DEF FormTypes
<1> QED BY <1>1, <1>2, <1>3, <1>4, <1>5, <1>6, <1>7, <1>8, FormGroups

LEMMA BundleStep == FormTypes /\ BundleInv /\ [Next]_vars => BundleInv'
<1> SUFFICES ASSUME FormTypes, BundleInv, [Next]_vars PROVE BundleInv'
    OBVIOUS
<1>1. CASE UNCHANGED vars
    BY <1>1 DEF vars, BundleInv, Reopens
<1>2. CASE User
    <2>1. PICK m \in Messages : StartTurn(m, Orphan)
        BY <1>2, UserStarts
    <2>2. phase = "idle"
        BY <1>2, UserStarts
    <2> QED BY <2>1, <2>2 DEF StartTurn, BundleInv, Reopens
<1>3. CASE Store
    <2>1. PICK h \in Seq(FormEvents), e \in FormEvents :
            /\ e = Received(Pruned(history), msg) /\ history' = Append(h, e)
            /\ Resolved(history) \subseteq Resolved(h) \cup Reopens(history)
            /\ Unresolved(h) \subseteq Unresolved(history) \cup Reopens(history)
            /\ Outstanding(h) = Outstanding(history)
            /\ IdsOf(history', "result") = IdsOf(history, "result")
            /\ IdsOf(history, "result") \subseteq Resolved(h)
            /\ Resolved(history') = Resolved(h) \cup (IF e.kind = "bundle" THEN DOMAIN e.votes ELSE {})
            /\ e.kind = "bundle" => DOMAIN e.votes = Unresolved(h)
        BY <1>3, StoreAdds
    <2>2. history' # <<>> /\ Last(history') = e
        BY <2>1, LastOfAppend
    <2>3. phase = "start" /\ ran' = ran /\ broken' = broken /\ (phase' = "tools" <=> e.kind = "bundle")
        BY <1>3, <2>1 DEF Store
    <2>4. Unresolved(h) \subseteq Wraps /\ Unresolved(h) \cap Resolved(h) = {}
          /\ Unresolved(history) \cap Resolved(history) = {}
        BY <2>1, ReadsAreWraps DEF FormTypes, Unresolved
    <2>5. Reopens(history) \subseteq broken
        BY <2>3 DEF BundleInv
    <2>6. \A w \in Unresolved(h) : ran[w] = <<>> \/ w \in broken
        BY <2>1, <2>4, <2>5 DEF BundleInv
    <2>7. \A w \in Wraps : /\ ran'[w] # <<>> => w \in Resolved(history') \/ w \in broken'
                           /\ Len(ran'[w]) <= 1 \/ w \in broken'
        BY <2>1, <2>3, <2>5 DEF BundleInv
    <2>8. IdsOf(history', "result") \subseteq Resolved(history')
        BY <2>1
    <2>9. Reopens(history') = IF e.kind = "bundle" THEN Unresolved(h) ELSE {}
        BY <2>1, <2>2 DEF Reopens
    <2>10. Reopens(history') \cap IdsOf(history', "result") = {}
        BY <2>1, <2>4, <2>9
    <2>11. phase' = "tools" => \A w \in DOMAIN Last(history').votes : ran'[w] = <<>> \/ w \in broken'
        BY <2>1, <2>2, <2>3, <2>6
    <2>12. /\ Last(history').kind = "bundle" => phase' = "tools"
           /\ phase' = "tools" => Last(history').kind = "bundle"
           /\ phase' # "tools" => Reopens(history') = {}
        BY <2>2, <2>3, <2>9
    <2> QED BY <2>2, <2>7, <2>8, <2>10, <2>11, <2>12 DEF BundleInv
<1>4. CASE RunTools
    <2>1. PICK e \in FormEvents : /\ Emit(e) /\ e.kind = "result" /\ e.ids = DOMAIN Last(history).votes
                                 /\ e.ids \subseteq Resolved(history)
                                 /\ \A w \in e.ids : w \in Wraps /\ Last(history).votes[w] \in AllowDeny
        BY <1>4, ToolsAdd
    <2>2. history' = Append(history, e)
        BY <2>1 DEF Emit
    <2>3. /\ history' # <<>> /\ Last(history') = e /\ Resolved(history') = Resolved(history)
          /\ IdsOf(history', "result") = IdsOf(history, "result") \cup e.ids
        BY <2>1, <2>2, EventAdds
    <2>4. ran' = [w \in Wraps |-> IF w \in e.ids THEN Append(ran[w], Last(history).votes[w]) ELSE ran[w]]
        BY <1>4, <2>1 DEF RunTools
    <2>5. phase = "tools" /\ phase' = "model" /\ broken' = broken
        BY <1>4 DEF RunTools
    <2>6. ASSUME NEW w \in Wraps
          PROVE  /\ ran'[w] # <<>> => w \in Resolved(history') \/ w \in broken'
                 /\ Len(ran'[w]) <= 1 \/ w \in broken'
        <3>1. CASE w \in e.ids /\ w \notin broken
            <4>1. ran[w] = <<>>
                BY <2>1, <2>5, <3>1 DEF BundleInv
            <4>2. ran'[w] = Append(<<>>, Last(history).votes[w])
                BY <2>4, <3>1, <4>1
            <4>3. Len(ran'[w]) = 1
                BY <4>2
            <4> QED BY <2>1, <2>3, <3>1, <4>3
        <3>2. CASE w \notin e.ids
            <4>1. ran'[w] = ran[w]
                BY <2>4, <3>2
            <4> QED BY <2>3, <2>5, <4>1 DEF BundleInv
        <3> QED BY <2>5, <3>1, <3>2
    <2>7. Reopens(history') = {}
        BY <2>1, <2>3 DEF Reopens
    <2>8. IdsOf(history', "result") \subseteq Resolved(history')
        BY <2>1, <2>3 DEF BundleInv
    <2> QED BY <2>1, <2>3, <2>5, <2>6, <2>7, <2>8 DEF BundleInv
<1>5. CASE ModelActs
    <2>1. PICK e \in FormEvents : Emit(e) /\ e.kind \in {"reply", "wraps", "question", "handback", "error"}
        BY <1>5, ModelAdds
    <2>2. history' = Append(history, e)
        BY <2>1 DEF Emit
    <2>3. /\ history' # <<>> /\ Last(history') = e /\ Resolved(history') = Resolved(history)
          /\ IdsOf(history', "result") = IdsOf(history, "result")
        BY <2>1, <2>2, EventAdds
    <2>4. phase = "model" /\ phase' \in {"model", "roundEnd"} /\ ran' = ran /\ broken' = broken
        BY <1>5, ModelAdds
    <2>5. Reopens(history') = {}
        BY <2>1, <2>3 DEF Reopens
    <2> QED BY <2>1, <2>3, <2>4, <2>5 DEF BundleInv
<1>6. CASE Quiet
    <2>1. history' = history /\ ran' = ran /\ broken' = broken /\ phase # "tools" /\ phase' # "tools"
        BY <1>6, QuietSteps
    <2>2. history # <<>> /\ Last(history).kind = "bundle" => phase' \in {"idle", "start"}
        <3>1. phase = "start" => phase' = "idle"
            BY <1>6 DEF Quiet, ResumeSilently, ResumeToModel, SkipModel, Raise, EndInError, EndDone, EndTurn
        <3>2. phase # "idle"
            BY <1>6, QuietSteps
        <3> QED BY <2>1, <3>1, <3>2 DEF BundleInv
    <2>3. Reopens(history') = Reopens(history)
        BY <2>1 DEF Reopens
    <2> QED BY <2>1, <2>2, <2>3 DEF BundleInv
<1>7. CASE Continue
    <2>1. history' = Append(history, Plain("continue")) /\ ran' = ran /\ broken' = broken /\ phase' = "model"
          /\ phase # "tools"
        BY <1>7 DEF Continue
    <2>2. /\ history' # <<>> /\ Last(history') = Plain("continue") /\ Resolved(history') = Resolved(history)
          /\ IdsOf(history', "result") = IdsOf(history, "result")
        BY <2>1, ContinueIs, EventAdds
    <2>3. Reopens(history') = {}
        BY <2>2, ContinueIs DEF Reopens
    <2> QED BY <2>1, <2>2, <2>3, ContinueIs DEF BundleInv
<1>8. CASE ToolRaises
    <2>1. /\ phase = "tools" /\ phase' = "idle" /\ history' = history
          /\ broken' = broken \cup Reopens(history)
        BY <1>8, ToolRaisesIs
    <2>2. PICK done \in SUBSET Reopens(history) :
             ran' = [w \in Wraps |-> IF w \in done THEN Append(ran[w], Last(history).votes[w]) ELSE ran[w]]
        BY <1>8, ToolRaisesIs
    <2>3. Reopens(history') = Reopens(history)
        BY <2>1 DEF Reopens
    <2>4. \A w \in Wraps : w \notin broken' => ran'[w] = ran[w]
        BY <2>1, <2>2
    <2> QED BY <2>1, <2>3, <2>4 DEF BundleInv
<1> QED BY <1>1, <1>2, <1>3, <1>4, <1>5, <1>6, <1>7, <1>8, FormGroups

\* A gated tool runs at most once (confirmation_form_ui.py: on_user_message_callback bundles
\* only forms that no earlier bundle resolved), however often its form is submitted,
\* whatever fails and is retried, and whatever the prune of turns.py takes back -- unless
\* a pass over it has raised.  (When one has, the tool runs again: MCConfirmRerun.)
THEOREM RunsOnceHolds == Spec => []RunsOnce
<1>1. BundleInv => RunsOnce
    BY DEF BundleInv, RunsOnce
<1> QED
    BY <1>1, FormTypesStart, FormTypesStep, BundleStep, PTL DEF Spec

\* The state of the forms keeps its type.
THEOREM FormTypesHold == Spec => []TypeOK
<1>1. FormTypes => TypeOK
    <2> SUFFICES ASSUME FormTypes PROVE TypeOK
        OBVIOUS
    <2>1. \A i \in DOMAIN history : history[i] \in FormEvents
        BY DEF FormTypes
    <2>2. \A i \in DOMAIN history : DOMAIN history[i].votes \subseteq Wraps
        BY <2>1, BallotIs DEF FormEvents
    <2>3. Len(fail) <= 1
        <3>1. CASE fail = <<>>
            BY <3>1
        <3>2. ASSUME NEW m \in Messages, fail = <<m>> PROVE Len(fail) <= 1
            BY <3>2
        <3> QED BY <3>1, <3>2 DEF FormTypes
    <2> QED BY <2>1, <2>2, <2>3 DEF FormTypes, TypeOK, FormEvents
<1> QED
    BY <1>1, FormTypesStart, FormTypesStep, BundleStep, PTL DEF Spec

-----------------------------------------------------------------------------
(* A silent round is continued only when the user is owed a reply.         *)

\* Without a marker that dangles, the broker's "Continue." (turns.py: the rounds of _drive)
\* goes to the model only when no form and no question waits for the user, after whatever
\* the run has stored.  (With one it may: MCConfirmNudge.)
THEOREM SilentRoundIsOwedHolds == Spec => SilentRoundIsOwed
<1> DEFINE Step == phase = "roundEnd" /\ phase' = "model" /\ ~dangling =>
                      /\ Unresolved(history) = {}
                      /\ IdsOf(history, "question") \subseteq IdsOf(history, "answer")
<1>1. FormTypes /\ BundleInv /\ [Next]_vars => [Step]_vars
    <2> SUFFICES ASSUME FormTypes, BundleInv, Next, phase = "roundEnd", phase' = "model", ~dangling
                 PROVE  /\ Unresolved(history) = {}
                        /\ IdsOf(history, "question") \subseteq IdsOf(history, "answer")
        OBVIOUS
    <2>1. Continue
        BY UserStarts, ModelAdds, FormGroups
           DEF Store, RunTools, ToolRaises, Quiet, ResumeSilently, ResumeToModel, SkipModel, Raise,
               EndInError, EndDone, EndTurn
    <2>2. Pending(history) = {}
        BY <2>1 DEF Continue, WantsMore, NeedsReply
    <2> QED BY <2>2, NothingWaits DEF FormTypes, BundleInv
<1> QED
    BY <1>1, FormTypesStart, FormTypesStep, BundleStep, PTL DEF Spec, SilentRoundIsOwed

-----------------------------------------------------------------------------
(* The user's votes.  While a batch is open, the last choice of each form  *)
(* is its latest stash, unless the user was told that the choice had       *)
(* failed; and the message that a prune takes back is that failed one.     *)

VotesAsked ==
    /\ VotedIn(history, "stash") \subseteq Outstanding(history)
    /\ \A w \in Wraps : vote[w] \in AllowDeny => w \in Outstanding(history)

StashIs(h, w) ==
    /\ w \in VotedIn(h, "stash") => vote[w] \in {Stashed(h)[w], "failed"}
    /\ vote[w] \in AllowDeny => w \in VotedIn(h, "stash")

BundleIsVote ==
    phase = "tools" => \A w \in DOMAIN Last(history).votes : vote[w] \in {Last(history).votes[w], "failed"}

\* A prune of the last event would leave the stashes right.
ReopensInv ==
    \A w \in Reopens(history) : StashIs(history, w) \/ (phase = "tools" /\ w \in DOMAIN msg.votes)

\* Nothing was stored after the message of a turn that has shown nothing, but for the
\* broker's "Continue.".
LeftBehind(m) ==
    /\ history # <<>>
    /\ \/ Last(history).kind = "continue"
       \/ m.kind = "submit" /\ Last(history).kind = "stash" /\ Last(history).votes = m.votes
       \/ m.kind = "submit" /\ Last(history).kind = "bundle"
       \/ m.kind # "submit" /\ Last(history).kind = m.kind
ToldFailed(m) == m.kind = "submit" => \A w \in DOMAIN m.votes : vote[w] = "failed"

OrphanInv ==
    /\ sawError => out
    /\ phase \in {"resumed", "model", "roundEnd"} /\ ~out => LeftBehind(msg)
    /\ phase = "tools" => msg.kind = "submit"
    /\ phase = "idle" /\ status = "error" /\ ~out => LeftBehind(msg) /\ ToldFailed(msg)
    /\ phase = "start" /\ fail # <<>> => LeftBehind(fail[1]) /\ ToldFailed(fail[1])

VoteInv ==
    /\ VotesAsked /\ BundleIsVote /\ ReopensInv
    /\ \A w \in Unresolved(history) : StashIs(history, w)

LEMMA OrphanStep ==
    ASSUME ~EarlyFailure, FormTypes, BundleInv, OrphanInv, [Next]_vars PROVE OrphanInv'
<1>1. CASE UNCHANGED vars
    BY <1>1 DEF vars, OrphanInv, LeftBehind, ToldFailed
<1>2. CASE User
    <2>1. PICK m \in Messages : StartTurn(m, Orphan)
        BY <1>2, UserStarts
    <2>2. phase = "idle"
        BY <1>2, UserStarts
    <2>3. /\ phase' = "start" /\ sawError' = FALSE /\ fail' = Orphan
          /\ history' = history /\ vote' = vote
        BY <2>1 DEF StartTurn
    <2>4. Orphan # <<>> => LeftBehind(Orphan[1]) /\ ToldFailed(Orphan[1])
        BY <2>2, OrphanIs DEF OrphanInv
    <2> QED BY <2>3, <2>4 DEF OrphanInv, LeftBehind, ToldFailed
<1>3. CASE Store
    <2>1. PICK h \in Seq(FormEvents), e \in FormEvents :
            h = Pruned(history) /\ e = Received(h, msg) /\ history' = Append(h, e)
        BY <1>3, StoreAdds
    <2>2. history' # <<>> /\ Last(history') = e
        BY <2>1, LastOfAppend
    <2>3. phase' \in {"tools", "resumed", "model"} /\ (phase' = "tools" <=> e.kind = "bundle")
          /\ UNCHANGED <<msg, out, sawError>>
        BY <1>3, <2>1 DEF Store
    <2>4. /\ msg.kind # "submit" => e = msg
          /\ msg.kind = "submit" => e.kind \in {"stash", "bundle"}
          /\ e.kind = "stash" => e.votes = msg.votes
        BY <2>1, ReceivedIs DEF FormTypes
    <2>5. e.kind # "bundle" => LeftBehind(msg)'
        BY <2>2, <2>3, <2>4 DEF LeftBehind
    <2>6. e.kind = "bundle" => msg.kind = "submit"
        BY <2>4 DEF FormTypes, Messages
    <2> QED BY <2>3, <2>5, <2>6 DEF OrphanInv
<1>4. CASE RunTools
    BY <1>4 DEF RunTools, Emit, OrphanInv
<1>5. CASE ModelActs
    <2>1. phase' \in {"model", "roundEnd"} /\ out' = TRUE
        BY <1>5, ModelAdds DEF Emit
    <2> QED BY <2>1 DEF OrphanInv
<1>6. CASE Quiet
    <2>1. UNCHANGED <<history, msg, out, sawError>>
        BY <1>6, QuietSteps
    <2>2. CASE ResumeSilently \/ ResumeToModel \/ SkipModel
        <3>1. phase \in {"resumed", "model"} /\ phase' \in {"model", "roundEnd"}
            BY <2>2 DEF ResumeSilently, ResumeToModel, SkipModel
        <3> QED BY <2>1, <3>1 DEF OrphanInv, LeftBehind
    <2>3. CASE Raise
        <3>1. phase \in {"resumed", "model"} /\ phase' = "idle"
            BY <2>3 DEF Raise
        <3>2. vote' = [w \in Wraps |-> IF phase # "start" /\ ~out /\ w \in DOMAIN msg.votes
                                      THEN "failed" ELSE vote[w]]
            BY <2>3 DEF Raise
        <3>3. DOMAIN msg.votes \subseteq Wraps
            BY BallotIs DEF FormTypes, Messages
        <3>4. ~out => LeftBehind(msg)' /\ ToldFailed(msg)'
            BY <2>1, <3>1, <3>2, <3>3 DEF OrphanInv, LeftBehind, ToldFailed
        <3> QED BY <2>1, <3>1, <3>4 DEF OrphanInv
    <2>4. CASE EndInError \/ EndDone
        <3>1. phase' = "idle" /\ (status' = "done" \/ sawError)
            BY <2>4 DEF EndInError, EndDone, EndTurn
        <3> QED BY <2>1, <3>1 DEF OrphanInv
    <2> QED BY <1>6, <2>2, <2>3, <2>4 DEF Quiet
<1>7. CASE Continue
    <2>1. history' = Append(history, Plain("continue")) /\ phase' = "model" /\ sawError' = FALSE
        BY <1>7 DEF Continue
    <2>2. history' # <<>> /\ Last(history').kind = "continue"
        BY <2>1, ContinueIs, LastOfAppend DEF FormTypes
    <2> QED BY <2>1, <2>2 DEF OrphanInv, LeftBehind
<1>8. CASE ToolRaises
    <2>1. /\ phase = "tools" /\ phase' = "idle" /\ UNCHANGED <<history, msg, out, sawError>>
          /\ vote' = [w \in Wraps |-> IF w \in DOMAIN msg.votes THEN "failed" ELSE vote[w]]
        BY <1>8, ToolRaisesIs
    <2>2. history # <<>> /\ Last(history).kind = "bundle" /\ msg.kind = "submit"
        BY <2>1 DEF BundleInv, OrphanInv
    <2>3. DOMAIN msg.votes \subseteq Wraps
        BY BallotIs DEF FormTypes, Messages
    <2> QED BY <2>1, <2>2, <2>3 DEF OrphanInv, LeftBehind, ToldFailed
<1> QED BY <1>1, <1>2, <1>3, <1>4, <1>5, <1>6, <1>7, <1>8, FormGroups

\* A prune takes back a choice the user was told had failed, or none.
LEMMA PruneKeepsVotes ==
    ASSUME FormTypes, BundleInv, OrphanInv, VoteInv, phase = "start"
    PROVE  /\ VotedIn(Pruned(history), "stash") \subseteq Outstanding(history)
           /\ \A w \in Unresolved(history) \cup Reopens(history) : StashIs(Pruned(history), w)
<1> DEFINE h == Pruned(history)
           l == Last(history)
<1>1. history \in Seq(FormEvents)
    BY DEF FormTypes
<1>2. h \in Seq(FormEvents)
    BY <1>1, PrunedIs
<1>5. \A w \in Unresolved(history) \cup Reopens(history) : StashIs(history, w)
    BY DEF VoteInv, ReopensInv
<1>3. CASE h = history
    BY <1>3, <1>5 DEF VoteInv, VotesAsked
<1>4. CASE h # history
    <2>1. /\ fail # <<>> /\ l \in FormEvents /\ TextOf(l) = TextOf(fail[1])
          /\ history = Append(h, l)
        BY <1>1, <1>4, PrunedIs
    <2>2. LeftBehind(fail[1]) /\ ToldFailed(fail[1]) /\ fail[1].kind \in {"text", "raw", "answer", "submit"}
        BY <2>1 DEF OrphanInv, FormTypes, Messages
    <2>3. l.kind = "stash" => \A w \in DOMAIN l.votes : vote[w] = "failed"
        BY <2>2 DEF LeftBehind, ToldFailed
    <2> HIDE DEF h, l
    <2>4. VotedIn(history, "stash") = VotedIn(h, "stash") \cup (IF l.kind = "stash" THEN DOMAIN l.votes ELSE {})
        BY <1>2, <2>1, ReadsAdd
    <2>5. ASSUME NEW w \in Unresolved(history) \cup Reopens(history) PROVE StashIs(h, w)
        <3>1. StashIs(history, w)
            BY <1>5
        <3>2. CASE l.kind = "stash" /\ w \in DOMAIN l.votes
            BY <2>3, <3>2 DEF StashIs, AllowDeny
        <3>3. CASE ~(l.kind = "stash" /\ w \in DOMAIN l.votes)
            <4>1. w \in VotedIn(history, "stash") <=> w \in VotedIn(h, "stash")
                BY <2>4, <3>3
            <4>2. w \in VotedIn(h, "stash") => Stashed(history)[w] = Stashed(h)[w]
                BY <1>2, <2>1, <3>3, StashAdds
            <4> QED BY <3>1, <4>1, <4>2 DEF StashIs
        <3> QED BY <3>2, <3>3
    <2> QED BY <2>4, <2>5 DEF VoteInv, VotesAsked, h
<1> QED BY <1>3, <1>4

\* An event without choices leaves the votes as they were.
LEMMA OthersKeepVotes ==
    ASSUME FormTypes, VoteInv, NEW e \in FormEvents, history' = Append(history, e),
           e.kind \notin {"stash", "bundle"}, vote' = vote, phase' # "tools"
    PROVE  VoteInv'
<1>1. history \in Seq(FormEvents)
    BY DEF FormTypes
<1>2. VotedIn(history', "stash") = VotedIn(history, "stash")
    <2>1. VotedIn(Append(history, e), "stash")
             = VotedIn(history, "stash") \cup (IF e.kind = "stash" THEN DOMAIN e.votes ELSE {})
        BY <1>1, ReadsAdd
    <2>2. (IF e.kind = "stash" THEN DOMAIN e.votes ELSE {}) = {}
        OBVIOUS
    <2> QED BY <2>1, <2>2
<1>3. Outstanding(history) \subseteq Outstanding(history') /\ Resolved(history') = Resolved(history)
    BY EventAdds
<1>4. ASSUME NEW w \in Unresolved(history') PROVE StashIs(history, w)'
    <2>1. w \in Outstanding(history) => w \in Unresolved(history)
        BY <1>3, <1>4 DEF Unresolved
    <2>2. w \in Wraps
        BY <1>1, <1>4, ReadsAreWraps, EventAdds DEF Unresolved
    <2>3. CASE w \in Outstanding(history)
        <3>1. StashIs(history, w)
            BY <2>1, <2>3 DEF VoteInv
        <3>2. w \in VotedIn(history, "stash") => Stashed(history')[w] = Stashed(history)[w]
            BY <1>1, StashAdds
        <3> QED BY <1>2, <3>1, <3>2 DEF StashIs
    <2>4. CASE w \notin Outstanding(history)
        BY <1>2, <2>2, <2>4 DEF VoteInv, VotesAsked, StashIs
    <2> QED BY <2>3, <2>4
<1>5. VotesAsked'
    BY <1>2, <1>3 DEF VoteInv, VotesAsked
<1>6. Reopens(history') = {}
    BY EventAdds DEF Reopens
<1> QED BY <1>4, <1>5, <1>6 DEF VoteInv, BundleIsVote, ReopensInv

LEMMA StoreKeepsVotes ==
    ASSUME FormTypes, BundleInv, OrphanInv, VoteInv, Store PROVE VoteInv'
<1>1. PICK h \in Seq(FormEvents), e \in FormEvents :
        /\ h = Pruned(history) /\ e = Received(h, msg) /\ history' = Append(h, e)
        /\ Outstanding(h) = Outstanding(history) /\ Outstanding(history') = Outstanding(history)
        /\ Unresolved(h) \subseteq Unresolved(history) \cup Reopens(history)
        /\ Resolved(history') = Resolved(h) \cup (IF e.kind = "bundle" THEN DOMAIN e.votes ELSE {})
        /\ e.kind = "bundle" => DOMAIN e.votes = Unresolved(h)
    BY StoreAdds
<1>2. Unresolved(h) \subseteq Wraps /\ Outstanding(history) \subseteq Wraps
    BY <1>1, ReadsAreWraps DEF Unresolved, FormTypes
<1>3. phase = "start" /\ (phase' = "tools" <=> e.kind = "bundle")
      /\ vote' = [w \in Wraps |-> IF msg.kind = "submit" /\ w \in DOMAIN msg.votes \cap Unresolved(h)
                                 THEN msg.votes[w] ELSE vote[w]]
    BY <1>1 DEF Store
<1>4. /\ VotedIn(h, "stash") \subseteq Outstanding(history)
      /\ \A w \in Unresolved(h) : StashIs(h, w)
    BY <1>1, <1>3, PruneKeepsVotes
<1>5. /\ msg.kind # "submit" => e = msg
      /\ msg.kind = "submit" => e.kind \in {"stash", "bundle"}
      /\ e.kind = "stash" => msg.kind = "submit" /\ e.votes = msg.votes
      /\ e.kind = "bundle" =>
            /\ msg.kind = "submit"
            /\ \A w \in Unresolved(h) :
                 IF w \in DOMAIN msg.votes THEN e.votes[w] = msg.votes[w]
                 ELSE w \in VotedIn(h, "stash") /\ e.votes[w] = Stashed(h)[w]
    BY <1>1, ReceivedIs DEF FormTypes
<1>6. VotedIn(history', "stash") = VotedIn(h, "stash") \cup (IF e.kind = "stash" THEN DOMAIN e.votes ELSE {})
    BY <1>1, ReadsAdd
<1>7. VotesAsked'
    <2>1. VotedIn(history', "stash") \subseteq Outstanding(history')
        BY <1>1, <1>4, <1>5, <1>6 DEF FormTypes
    <2>2. ASSUME NEW w \in Wraps, vote'[w] \in AllowDeny PROVE w \in Outstanding(history')
        <3>1. w \in Unresolved(h) \/ vote'[w] = vote[w]
            BY <1>3
        <3> QED BY <1>1, <2>2, <3>1 DEF Unresolved, VoteInv, VotesAsked
    <2> QED BY <2>1, <2>2 DEF VotesAsked
<1>8. CASE e.kind = "bundle"
    <2>1. Unresolved(history') = {}
        BY <1>1, <1>8 DEF Unresolved
    <2>2. Last(history') = e
        BY <1>1, LastOfAppend
    <2>3. ASSUME NEW w \in DOMAIN e.votes PROVE vote'[w] \in {e.votes[w], "failed"}
        <3>1. w \in Unresolved(h) /\ w \in Wraps /\ msg.kind = "submit" /\ StashIs(h, w)
            BY <1>1, <1>2, <1>4, <1>5, <1>8
        <3>2. CASE w \in DOMAIN msg.votes
            BY <1>3, <1>5, <1>8, <3>1, <3>2
        <3>3. CASE w \notin DOMAIN msg.votes
            <4>1. vote'[w] = vote[w]
                BY <1>3, <3>1, <3>3
            <4> QED BY <1>5, <1>8, <3>1, <3>3, <4>1 DEF StashIs
        <3> QED BY <3>2, <3>3
    <2>4. ASSUME NEW w \in Reopens(history')
          PROVE  StashIs(history, w)' \/ (phase' = "tools" /\ w \in DOMAIN msg'.votes)
        <3>1. w \in Unresolved(h) /\ w \in Wraps /\ StashIs(h, w)
            BY <1>1, <1>2, <1>4, <1>8, <2>2 DEF Reopens
        <3>2. msg' = msg
            BY DEF Store
        <3>3. CASE w \notin DOMAIN msg.votes
            <4>1. vote'[w] = vote[w]
                BY <1>3, <3>1, <3>3
            <4>2. w \in VotedIn(h, "stash") => Stashed(history')[w] = Stashed(h)[w]
                BY <1>1, <1>8, StashAdds
            <4>3. VotedIn(history', "stash") = VotedIn(h, "stash")
                BY <1>6, <1>8
            <4> QED BY <3>1, <4>1, <4>2, <4>3 DEF StashIs
        <3> QED BY <1>3, <1>8, <3>2, <3>3
    <2> QED BY <1>7, <2>1, <2>2, <2>3, <2>4 DEF VoteInv, BundleIsVote, ReopensInv
<1>9. CASE e.kind # "bundle"
    <2>1. Unresolved(history') = Unresolved(h)
        BY <1>1, <1>9 DEF Unresolved
    <2>2. ASSUME NEW w \in Unresolved(h) PROVE StashIs(history, w)'
        <3>1. StashIs(h, w) /\ w \in Wraps /\ w \in Unresolved(h)
            BY <1>2, <1>4
        <3>2. CASE e.kind = "stash" /\ w \in DOMAIN e.votes
            <4>1. vote'[w] = e.votes[w]
                BY <1>3, <1>5, <3>1, <3>2
            <4>2. Stashed(history')[w] = e.votes[w]
                BY <1>1, <3>2, StashAdds
            <4>3. w \in VotedIn(history', "stash")
                BY <1>6, <3>2
            <4> QED BY <4>1, <4>2, <4>3 DEF StashIs
        <3>3. CASE ~(e.kind = "stash" /\ w \in DOMAIN e.votes)
            <4>1. vote'[w] = vote[w]
                BY <1>3, <1>5, <1>9, <3>1, <3>3
            <4>2. w \in VotedIn(h, "stash") => Stashed(history')[w] = Stashed(h)[w]
                BY <1>1, <3>3, StashAdds
            <4>3. w \in VotedIn(history', "stash") <=> w \in VotedIn(h, "stash")
                BY <1>6, <3>3
            <4> QED BY <3>1, <4>1, <4>2, <4>3 DEF StashIs
        <3> QED BY <3>2, <3>3
    <2>3. Reopens(history') = {}
        BY <1>1, <1>9, LastOfAppend DEF Reopens
    <2> QED BY <1>3, <1>7, <1>9, <2>1, <2>2, <2>3 DEF VoteInv, BundleIsVote, ReopensInv
<1> QED BY <1>8, <1>9

LEMMA VoteStep ==
    ASSUME ~EarlyFailure, FormTypes, BundleInv, OrphanInv, VoteInv, [Next]_vars PROVE VoteInv'
<1>1. CASE UNCHANGED vars
    <2>1. history' = history /\ vote' = vote /\ phase' = phase /\ msg' = msg
        BY <1>1 DEF vars
    <2> QED BY <2>1 DEF VoteInv, VotesAsked, BundleIsVote, ReopensInv, Reopens, StashIs
<1>2. CASE User
    <2>1. history' = history /\ vote' = vote /\ phase' = "start" /\ phase # "tools"
        BY <1>2, UserStarts DEF StartTurn
    <2> QED BY <2>1 DEF VoteInv, VotesAsked, BundleIsVote, ReopensInv, Reopens, StashIs
<1>3. CASE Store
    BY <1>3, StoreKeepsVotes
<1>4. CASE RunTools
    <2>1. PICK e \in FormEvents : Emit(e) /\ e.kind = "result"
        BY <1>4, ToolsAdd
    <2>2. history' = Append(history, e) /\ vote' = vote /\ phase' # "tools"
        BY <1>4, <2>1 DEF RunTools, Emit
    <2> QED BY <2>1, <2>2, OthersKeepVotes
<1>5. CASE ModelActs
    <2>1. PICK e \in FormEvents : Emit(e) /\ e.kind \in {"reply", "wraps", "question", "handback", "error"}
        BY <1>5, ModelAdds
    <2>2. history' = Append(history, e) /\ vote' = vote /\ phase' # "tools"
        BY <1>5, <2>1, ModelAdds DEF Emit
    <2> QED BY <2>1, <2>2, OthersKeepVotes
<1>6. CASE Quiet
    <2>1. history' = history /\ phase # "tools" /\ phase' # "tools" /\ history \in Seq(FormEvents)
          /\ Reopens(history') = Reopens(history)
        BY <1>6, QuietSteps DEF FormTypes, Reopens
    <2>2. \A w \in Wraps : vote'[w] = vote[w] \/ vote'[w] = "failed"
        BY <1>6, QuietSteps
    <2>3. Unresolved(history) \subseteq Wraps
        BY <2>1, ReadsAreWraps DEF Unresolved
    <2>4. Reopens(history) \subseteq Wraps
        BY <2>1, LastApart, BallotIs DEF Reopens, FormEvents
    <2>5. \A w \in Wraps : StashIs(history, w) => StashIs(history, w)'
        BY <2>1, <2>2 DEF StashIs, AllowDeny
    <2>6. \A w \in Unresolved(history) : StashIs(history, w)'
        BY <2>3, <2>5 DEF VoteInv
    <2>7. ReopensInv'
        BY <2>1, <2>4, <2>5 DEF VoteInv, ReopensInv
    <2>8. VotesAsked'
        BY <2>1, <2>2 DEF VoteInv, VotesAsked, AllowDeny
    <2> QED BY <2>1, <2>6, <2>7, <2>8 DEF VoteInv, BundleIsVote
<1>8. CASE ToolRaises
    <2>1. /\ phase = "tools" /\ phase' = "idle" /\ history' = history
          /\ Reopens(history) \subseteq Wraps
          /\ vote' = [w \in Wraps |-> IF w \in DOMAIN msg.votes THEN "failed" ELSE vote[w]]
        BY <1>8, ToolRaisesIs
    <2>2. Unresolved(history) \subseteq Wraps
        BY ReadsAreWraps DEF Unresolved, FormTypes
    <2>3. \A w \in Wraps : w \in DOMAIN msg.votes \/ StashIs(history, w) => StashIs(history, w)'
        BY <2>1 DEF StashIs, AllowDeny
    <2>4. \A w \in Unresolved(history) : StashIs(history, w)'
        BY <2>2, <2>3 DEF VoteInv
    <2>5. ReopensInv'
        BY <2>1, <2>3 DEF VoteInv, ReopensInv, Reopens
    <2>6. VotesAsked'
        BY <2>1 DEF VoteInv, VotesAsked, AllowDeny
    <2> QED BY <2>1, <2>4, <2>5, <2>6 DEF VoteInv, BundleIsVote
<1>7. CASE Continue
    <2>1. history' = Append(history, Plain("continue")) /\ vote' = vote /\ phase' # "tools"
        BY <1>7 DEF Continue
    <2> QED BY <2>1, ContinueIs, OthersKeepVotes
<1> QED BY <1>1, <1>2, <1>3, <1>4, <1>5, <1>6, <1>7, <1>8, FormGroups

LEMMA VoteStart == Init => OrphanInv /\ VoteInv
<1> SUFFICES ASSUME Init PROVE OrphanInv /\ VoteInv
    OBVIOUS
<1>1. VotedIn(history, "stash") = {} /\ Outstanding(history) = {} /\ Unresolved(history) = {}
    BY DEF Init, VotedIn, Outstanding, IdsOf, Unresolved
<1> QED BY <1>1 DEF Init, OrphanInv, VoteInv, VotesAsked, BundleIsVote, ReopensInv, Reopens, AllowDeny

LEMMA VotesHold == Spec => [](~EarlyFailure => FormTypes /\ OrphanInv /\ VoteInv)
<1> DEFINE Inv == ~EarlyFailure => OrphanInv /\ VoteInv
<1>1. Init => Inv
    BY VoteStart
<1>2. FormTypes /\ BundleInv /\ Inv /\ [Next]_vars => Inv'
    BY OrphanStep, VoteStep
<1>3. FormTypes /\ Inv => (~EarlyFailure => FormTypes /\ OrphanInv /\ VoteInv)
    OBVIOUS
<1> HIDE DEF Inv
<1> QED
    BY <1>1, <1>2, <1>3, FormTypesStart, FormTypesStep, BundleStep, PTL DEF Spec

\* An answer to an open form stays in the history until its batch is resolved, through
\* every failed turn, retry and prune -- in a run that raises only after the message was
\* stored.  (When it raises before, the prune takes an older stash: MCConfirmVotes.)
THEOREM VotesSurviveHolds == Spec => [](~EarlyFailure => VotesSurvive)
<1>1. (~EarlyFailure => FormTypes /\ OrphanInv /\ VoteInv) => (~EarlyFailure => VotesSurvive)
    BY DEF VoteInv, StashIs, VotesSurvive
<1> QED
    BY <1>1, VotesHold, PTL

\* A gated tool runs with the last choice the user submitted for it while its batch was
\* open, unless the user was told that this choice had failed.
THEOREM RunsAsVotedHolds == Spec => (~EarlyFailure => RunsAsVoted)
<1> DEFINE Step == \A w \in Wraps : ran'[w] # ran[w] => vote[w] \in {Last(ran'[w]), "failed"}
<1> SUFFICES ASSUME ~EarlyFailure PROVE Spec => RunsAsVoted
    OBVIOUS
<1>1. FormTypes /\ BundleInv /\ (~EarlyFailure => FormTypes /\ OrphanInv /\ VoteInv)
        /\ [Next]_vars => [Step]_vars
    <2> SUFFICES ASSUME FormTypes, BundleInv, VoteInv, Next,
                        NEW w \in Wraps, ran'[w] # ran[w]
                 PROVE  vote[w] \in {Last(ran'[w]), "failed"}
        OBVIOUS
    <2>1. RunTools \/ ToolRaises
        BY UserStarts, ModelAdds, QuietSteps, FormGroups DEF StartTurn, Store, Continue
    <2>2. /\ w \in Reopens(history) /\ Reopens(history) = DOMAIN Last(history).votes
          /\ Last(history).votes[w] \in AllowDeny
          /\ ran'[w] = Append(ran[w], Last(history).votes[w])
        <3>1. CASE RunTools
            <4>1. PICK e \in FormEvents :
                    /\ e.ids = DOMAIN Last(history).votes /\ Last(history).kind = "bundle"
                    /\ \A v \in e.ids : v \in Wraps /\ Last(history).votes[v] \in AllowDeny
                BY <3>1, ToolsAdd
            <4>2. ran' = [v \in Wraps |-> IF v \in DOMAIN Last(history).votes
                                         THEN Append(ran[v], Last(history).votes[v]) ELSE ran[v]]
                BY <3>1 DEF RunTools
            <4>3. Reopens(history) = DOMAIN Last(history).votes
                BY <3>1, <4>1 DEF Reopens, BundleInv, RunTools
            <4> QED BY <4>1, <4>2, <4>3
        <3>2. CASE ToolRaises
            <4>1. PICK done \in SUBSET Reopens(history) :
                    ran' = [v \in Wraps |-> IF v \in done THEN Append(ran[v], Last(history).votes[v]) ELSE ran[v]]
                BY <3>2, ToolRaisesIs
            <4> QED BY <3>2, <4>1, ToolRaisesIs
        <3> QED BY <2>1, <3>1, <3>2
    <2>3. ran[w] \in Seq(AllowDeny)
        BY DEF FormTypes
    <2>4. Last(ran'[w]) = Last(history).votes[w]
        BY <2>2, <2>3, LastOfAppend
    <2> QED BY <2>1, <2>2, <2>4 DEF VoteInv, BundleIsVote, RunTools, ToolRaises
<1> QED
    BY <1>1, VotesHold, FormTypesStart, FormTypesStep, BundleStep, PTL DEF Spec, RunsAsVoted

-----------------------------------------------------------------------------
(* Checkpoints and rewind.  *)

Entries == [id : Nat, tree : SUBSET Nat, inv : Nat]
ChatEvents == [kind : {"text", "answer", "tool"}, inv : Nat]

Steps == {"none", "save", "reset", "list", "chat"}

\* The conversation and the menu are in the order of the invocations and of the ids.
IdsClimb(m) == \A j, k \in DOMAIN m : j < k => m[j].id < m[k].id

RewindTypes ==
    /\ inv \in Nat /\ ids \in Nat /\ tree \in SUBSET Nat
    /\ made \subseteq 1 .. inv
    /\ turn \in {"idle", "running", "calling", "parked"} /\ (turn # "idle" => inv # 0)
    /\ restore \in [Restores -> Steps] /\ target \in [Restores -> Entries] /\ rewinds \in 0 .. MaxRewinds
    /\ chat \in Seq(ChatEvents) /\ menu \in Seq(Entries)
    /\ \A k \in DOMAIN chat : chat[k].inv \in 1 .. inv
    /\ \A j, k \in DOMAIN chat : j < k => chat[j].inv <= chat[k].inv
    /\ \A k \in DOMAIN menu : menu[k].inv <= inv /\ menu[k].id <= ids
    /\ IdsClimb(menu)

\* The changes of the invocations before i that the conversation mentions.
Past(i) == {j \in made \cap InvsOf(chat) : j < i}

\* A checkpoint of invocation i holds what was there before i.
Faithful(e) == e.inv # NoInv => e.tree = Past(e.inv) /\ Acted(e.inv)
InvsClimb(m) == \A j, k \in DOMAIN m : j < k /\ m[k].inv # NoInv => m[j].inv < m[k].inv

OneRestore == \A q, r \in Restores : restore[q] # "none" /\ restore[r] # "none" => q = r

ProjectInv ==
    /\ (\A r \in Restores : restore[r] \notin {"list", "chat"}) => tree = made \cap InvsOf(chat)
    /\ \A r \in Restores : restore[r] \in {"list", "chat"} => tree = Past(target[r].inv)
    /\ \A r \in Restores : restore[r] = "reset" => tree \cap newFile \subseteq tracked

TurnInv ==
    /\ Restoring => turn = "idle"
    /\ turn # "idle" => Mentioned(inv)
    /\ turn = "calling" => Acted(inv)
    /\ turn = "running" /\ ~Acted(inv) => inv \notin made

MenuInv ==
    /\ \A e \in ToSet(menu) : Faithful(e)
    /\ InvsClimb(menu)

TargetOf(r) ==
    /\ target[r].inv # NoInv /\ ~MidTurn(target[r]) /\ Faithful(target[r])
    /\ restore[r] \in {"save", "reset", "list"} => \E k \in DOMAIN menu : menu[k] = target[r]
    /\ restore[r] = "chat" => \A k \in DOMAIN menu : menu[k].inv < target[r].inv

TargetInv == \A r \in Restores : restore[r] # "none" => TargetOf(r)

RewindInv == OneRestore /\ ProjectInv /\ TurnInv /\ MenuInv /\ TargetInv

-----------------------------------------------------------------------------
LEMMA StrayedStays == RewindNext /\ strayed' = {} => strayed = {}
BY DEF RewindNext, AskText, AnswerPause, StartInv, CallTool, ToolDone, TurnRests, RestoreAsked, RestoreSaves,
       RestoreResets, RestoreLists, RestoreTruncates, ResetStops, DesktopCrash, Strays

\* What is listed: the entries there were, but for those that the cap drops, and one more.
LEMMA ListedIs ==
    ASSUME RewindTypes, NEW i \in Nat
    PROVE  /\ Listed(menu, i) \in Seq(Entries) /\ IdsClimb(Listed(menu, i))
           /\ \A k \in DOMAIN Listed(menu, i) :
                 \/ Listed(menu, i)[k] = Entry(ids + 1, tree, i)
                 \/ \E l \in DOMAIN menu : Listed(menu, i)[k] = menu[l]
           /\ InvsClimb(menu) /\ (i # NoInv => \A l \in DOMAIN menu : menu[l].inv < i)
                 => InvsClimb(Listed(menu, i))
<1> DEFINE e == Entry(ids + 1, tree, i)
           a == Append(menu, e)
<1>0. menu \in Seq(Entries) /\ ids \in Nat /\ tree \in SUBSET Nat /\ IdsClimb(menu)
      /\ \A k \in DOMAIN menu : menu[k].id <= ids /\ menu[k] \in Entries
    BY DEF RewindTypes
<1>1. menu \in Seq(Entries) /\ ids \in Nat /\ IdsClimb(menu) /\ e \in Entries /\ e.id = ids + 1 /\ e.inv = i
      /\ \A k \in DOMAIN menu : menu[k].id <= ids /\ menu[k].id \in Nat
    BY <1>0 DEF Entries, Entry
<1>2. CASE Listed(menu, i) = menu
    BY <1>1, <1>2
<1>3. CASE Listed(menu, i) # menu
    <2>1. Listed(menu, i) = Capped(a)
        BY <1>3 DEF Listed
    <2>2. /\ a \in Seq(Entries) /\ DOMAIN a = DOMAIN menu \cup {Len(menu) + 1} /\ a[Len(menu) + 1] = e
          /\ \A k \in DOMAIN menu : a[k] = menu[k] /\ k \in Nat /\ k < Len(menu) + 1
        BY <1>1
    <2> HIDE DEF e, a
    <2>3. IdsClimb(a)
        BY <1>1, <2>2 DEF IdsClimb
    <2>4. InvsClimb(menu) /\ (i # NoInv => \A l \in DOMAIN menu : menu[l].inv < i) => InvsClimb(a)
        BY <1>1, <2>2 DEF InvsClimb
    <2>5. \E o \in Nat : o <= Len(a) /\ Capped(a) = SubSeq(a, o + 1, Len(a))
        <3>1. CASE Len(a) > MaxCheckpoints
            <4>1. Len(a) - MaxCheckpoints \in Nat /\ Len(a) - MaxCheckpoints <= Len(a)
                BY <2>2, <3>1, RewindAssumption
            <4> QED BY <3>1, <4>1 DEF Capped
        <3>2. CASE ~(Len(a) > MaxCheckpoints)
            <4>1. SubSeq(a, 0 + 1, Len(a)) = a
                BY <2>2
            <4> QED BY <2>2, <3>2, <4>1 DEF Capped
        <3> QED BY <3>1, <3>2
    <2>6. PICK o \in Nat : o <= Len(a) /\ Capped(a) = SubSeq(a, o + 1, Len(a))
        BY <2>5
    <2> DEFINE c == Capped(a)
    <2>7. c \in Seq(Entries) /\ \A k \in DOMAIN c : k \in Nat /\ k + o \in DOMAIN a /\ c[k] = a[k + o]
        BY <2>2, <2>6, SuffixIs
    <2> HIDE DEF c
    <2>8. \A j, k \in DOMAIN c : j < k => j + o < k + o
        BY <2>7
    <2>9. IdsClimb(c)
        BY <2>3, <2>7, <2>8 DEF IdsClimb
    <2>10. InvsClimb(a) => InvsClimb(c)
        BY <2>7, <2>8 DEF InvsClimb
    <2>11. \A k \in DOMAIN c : c[k] = e \/ \E l \in DOMAIN menu : c[k] = menu[l]
        BY <2>2, <2>7
    <2> QED BY <2>1, <2>4, <2>7, <2>9, <2>10, <2>11 DEF c, e
<1> QED BY <1>2, <1>3

\* Where the conversation is cut: at the first event of an invocation, or before.
LEMMA FirstIs ==
    ASSUME RewindTypes, NEW i \in Nat, Mentioned(i)
    PROVE  /\ FirstOf(i) \in DOMAIN chat /\ chat[FirstOf(i)].inv = i
           /\ \A k \in DOMAIN chat : chat[k].inv < i <=> k < FirstOf(i)
<1> DEFINE T == {k \in DOMAIN chat : chat[k].inv = i}
<1>1. T \in SUBSET Nat /\ T # {}
    BY DEF RewindTypes, Mentioned
<1>2. \E f \in T : \A k \in T : f <= k
    <2> HIDE DEF T
    <2> QED BY <1>1, LeastNatural
<1>3. PICK f \in T : \A k \in T : f <= k
    BY <1>2
<1>4. \A k \in DOMAIN chat : k \in Nat /\ chat[k].inv \in Nat
    BY DEF RewindTypes, ChatEvents
<1>5. chat[f].inv = i /\ \A j \in 1 .. f - 1 : chat[j].inv # i
    BY <1>3, <1>4 DEF RewindTypes
<1>6. FirstOf(i) \in DOMAIN chat /\ chat[FirstOf(i)].inv = i /\ \A j \in 1 .. FirstOf(i) - 1 : chat[j].inv # i
    BY <1>3, <1>5 DEF FirstOf
<1> DEFINE g == FirstOf(i)
<1>7. ASSUME NEW k \in DOMAIN chat PROVE chat[k].inv < i <=> k < g
    <2> HIDE DEF g
    <2>1. g \in DOMAIN chat /\ chat[g].inv = i /\ \A j \in 1 .. g - 1 : chat[j].inv # i
        BY <1>6 DEF g
    <2>2. k < g => chat[k].inv <= i /\ chat[k].inv # i
        BY <1>4, <2>1 DEF RewindTypes
    <2>3. k > g => i <= chat[k].inv
        BY <1>4, <2>1 DEF RewindTypes
    <2> QED BY <1>4, <2>1, <2>2, <2>3
<1> QED BY <1>6, <1>7

LEMMA TurnStartIs ==
    ASSUME RewindTypes, NEW i \in Nat, Mentioned(i)
    PROVE  /\ TurnStart(i) \in 1 .. FirstOf(i)
           /\ (\A k \in TurnStart(i) .. FirstOf(i) : chat[k].inv = i) => TurnStart(i) = FirstOf(i)
<1> DEFINE f == FirstOf(i)
           texts == {k \in 1 .. f : chat[k].kind = "text"}
<1>1. f \in DOMAIN chat /\ f \in Nat /\ 1 <= f /\ (\A k \in DOMAIN chat : chat[k].inv < i <=> k < f)
      /\ DOMAIN chat = 1 .. Len(chat) /\ Len(chat) \in Nat
    BY FirstIs DEF RewindTypes
<1>2. TurnStart(i) = IF texts = {} THEN f ELSE CHOOSE k \in texts : \A j \in texts : j <= k
    BY DEF TurnStart
<1>3. CASE texts = {}
    BY <1>1, <1>2, <1>3
<1>4. CASE texts # {}
    <2>1. texts \in SUBSET Nat /\ \A k \in texts : k <= f
        BY <1>1
    <2>2. \E k \in texts : \A j \in texts : j <= k
        <3> HIDE DEF texts, f
        <3> QED BY <1>1, <1>4, <2>1, GreatestNatural
    <2>3. TurnStart(i) \in texts
        <3> HIDE DEF texts, f
        <3> QED BY <1>2, <1>4, <2>2
    <2>4. TurnStart(i) \in 1 .. f
        BY <2>3
    <2>5. ASSUME \A k \in TurnStart(i) .. f : chat[k].inv = i PROVE TurnStart(i) = f
        <3>1. chat[TurnStart(i)].inv = i /\ TurnStart(i) \in DOMAIN chat
            BY <1>1, <2>4, <2>5
        <3>2. ~(chat[TurnStart(i)].inv < i)
            BY <3>1
        <3>3. ~(TurnStart(i) < f)
            BY <1>1, <3>1, <3>2
        <3> QED BY <1>1, <2>4, <3>3
    <2> QED BY <2>4, <2>5
<1> QED BY <1>3, <1>4

LEMMA KeptIsPrefix ==
    ASSUME RewindTypes, NEW i \in Nat
    PROVE  \E n \in Nat : n <= Len(chat) /\ KeptChat(i) = SubSeq(chat, 1, n)
<1>0. chat \in Seq(ChatEvents) /\ DOMAIN chat = 1 .. Len(chat) /\ Len(chat) \in Nat
    BY DEF RewindTypes
<1>1. CASE i # NoInv /\ Mentioned(i)
    <2>1. TurnStart(i) \in 1 .. FirstOf(i) /\ FirstOf(i) \in DOMAIN chat
        BY <1>1, FirstIs, TurnStartIs
    <2>2. TurnStart(i) - 1 \in Nat /\ TurnStart(i) - 1 <= Len(chat)
        BY <1>0, <2>1
    <2>3. KeptChat(i) = SubSeq(chat, 1, TurnStart(i) - 1)
        BY <1>1 DEF KeptChat
    <2> QED BY <2>2, <2>3
<1>2. CASE ~(i # NoInv /\ Mentioned(i))
    <2>1. SubSeq(chat, 1, Len(chat)) = chat
        BY <1>0
    <2>2. KeptChat(i) = SubSeq(chat, 1, Len(chat))
        BY <1>2, <2>1 DEF KeptChat
    <2>3. Len(chat) <= Len(chat)
        BY <1>0
    <2> QED BY <1>0, <2>2, <2>3
<1> QED BY <1>1, <1>2

\* The conversation before a checkpoint that is not of a turn's later invocation: all
\* that belongs to earlier invocations.
LEMMA KeptIsPast ==
    ASSUME RewindTypes, NEW e \in Entries, e.inv # NoInv, Mentioned(e.inv), ~MidTurn(e)
    PROVE  KeptChat(e.inv) = SubSeq(chat, 1, FirstOf(e.inv) - 1)
<1>1. e.inv \in Nat
    BY DEF Entries
<1>2. \A k \in TurnStart(e.inv) .. FirstOf(e.inv) : chat[k].inv = e.inv
    BY DEF MidTurn
<1>3. TurnStart(e.inv) = FirstOf(e.inv)
    BY <1>1, <1>2, TurnStartIs
<1> QED BY <1>3 DEF KeptChat

-----------------------------------------------------------------------------
(* One step.                                                               *)

LEMMA ChatAdds ==
    ASSUME RewindTypes, NEW c \in ChatEvents, c.inv \in {inv, inv + 1}, c.inv # 0, chat' = Append(chat, c)
    PROVE  /\ chat' \in Seq(ChatEvents) /\ InvsOf(chat') = InvsOf(chat) \cup {c.inv}
           /\ \A k \in DOMAIN chat' : chat'[k].inv \in 1 .. c.inv
           /\ \A j, k \in DOMAIN chat' : j < k => chat'[j].inv <= chat'[k].inv
           /\ \A i : Acted(i) => Acted(i)'
           /\ \A i : c = Said("tool", i) => Acted(i)'
           /\ Mentioned(c.inv)'
<1>1. chat \in Seq(ChatEvents) /\ inv \in Nat /\ c.inv \in Nat /\ inv <= c.inv
    BY DEF RewindTypes, ChatEvents
<1>2. chat' \in Seq(ChatEvents) /\ DOMAIN chat' = DOMAIN chat \cup {Len(chat) + 1} /\ chat'[Len(chat) + 1] = c
      /\ \A k \in DOMAIN chat : chat'[k] = chat[k] /\ k < Len(chat) + 1 /\ k \in Nat
    BY <1>1
<1>3. InvsOf(chat') = InvsOf(chat) \cup {c.inv}
    <2>1. \A x : x \in InvsOf(chat') <=> \E k \in DOMAIN chat' : x = chat'[k].inv
        BY DEF InvsOf
    <2>2. \A x : x \in InvsOf(chat) <=> \E k \in DOMAIN chat : x = chat[k].inv
        BY DEF InvsOf
    <2>3. \A x : x \in InvsOf(chat') <=> x \in InvsOf(chat) \/ x = c.inv
        BY <1>2, <2>1, <2>2
    <2> QED BY <2>3
<1>4. \A k \in DOMAIN chat' : chat'[k].inv \in 1 .. c.inv
    <2>1. \A k \in DOMAIN chat : chat[k].inv \in 1 .. inv
        BY DEF RewindTypes
    <2> QED BY <1>1, <1>2, <2>1
<1>5. \A j, k \in DOMAIN chat' : j < k => chat'[j].inv <= chat'[k].inv
    <2>1. \A j, k \in DOMAIN chat : j < k => chat[j].inv <= chat[k].inv
        BY DEF RewindTypes
    <2>2. \A j \in DOMAIN chat : chat[j].inv <= c.inv
        BY <1>2, <1>4
    <2> QED BY <1>2, <2>1, <2>2
<1>6. \A i : Acted(i) => Acted(i)'
    BY <1>2 DEF Acted
<1>7. \A i : c = Said("tool", i) => Acted(i)'
    BY <1>2 DEF Acted
<1>8. Mentioned(c.inv)'
    BY <1>2 DEF Mentioned
<1> QED BY <1>2, <1>3, <1>4, <1>5, <1>6, <1>7, <1>8

\* What a snapshot does to the menu.
LEMMA MenuTypes ==
    ASSUME RewindTypes, NEW i \in Nat, i <= inv, Snapshot(i) \/ SnapshotFails
    PROVE  /\ menu' \in Seq(Entries) /\ ids' \in Nat /\ IdsClimb(menu')
           /\ \A k \in DOMAIN menu' : menu'[k].inv <= inv /\ menu'[k].id <= ids'
<1>1. CASE SnapshotFails
    BY <1>1 DEF SnapshotFails, RewindTypes
<1>2. CASE Snapshot(i)
    <2>1. menu' = Listed(menu, i) /\ ids' = ids + 1 /\ ids \in Nat
        BY <1>2 DEF Snapshot, RewindTypes
    <2>2. menu' \in Seq(Entries) /\ IdsClimb(menu')
          /\ \A k \in DOMAIN menu' : menu'[k] = Entry(ids + 1, tree, i) \/ \E l \in DOMAIN menu : menu'[k] = menu[l]
        BY <2>1, ListedIs
    <2>3. Entry(ids + 1, tree, i).inv = i /\ Entry(ids + 1, tree, i).id = ids + 1
        BY DEF Entry
    <2>4. \A l \in DOMAIN menu : menu[l].inv <= inv /\ menu[l].id <= ids /\ menu[l] \in Entries
        BY DEF RewindTypes
    <2>5. ASSUME NEW k \in DOMAIN menu' PROVE menu'[k].inv <= inv /\ menu'[k].id <= ids'
        <3>1. CASE menu'[k] = Entry(ids + 1, tree, i)
            BY <2>1, <2>3, <3>1
        <3>2. ASSUME NEW l \in DOMAIN menu, menu'[k] = menu[l] PROVE menu'[k].inv <= inv /\ menu'[k].id <= ids'
            <4>1. menu[l].id \in Nat /\ menu[l].id <= ids /\ menu[l].inv <= inv
                BY <2>4 DEF Entries
            <4> QED BY <2>1, <3>2, <4>1
        <3> QED BY <2>2, <3>1, <3>2
    <2> QED BY <2>1, <2>2, <2>5
<1> QED BY <1>1, <1>2

\* The menu before the target: the entry of that id and what is after it leave.
LEMMA BeforeIs ==
    ASSUME RewindTypes, NEW e
    PROVE  \E n \in Nat : /\ n <= Len(menu) /\ Before(menu, e) = SubSeq(menu, 1, n)
                         /\ \A k \in DOMAIN menu : menu[k] = e => n = k - 1
<1>0. menu \in Seq(Entries) /\ DOMAIN menu = 1 .. Len(menu) /\ Len(menu) \in Nat
      /\ \A k \in DOMAIN menu : k \in Nat /\ 1 <= k /\ k <= Len(menu) /\ menu[k].id \in Nat
    <2>1. menu \in Seq(Entries)
        BY DEF RewindTypes
    <2>2. \A k \in DOMAIN menu : menu[k] \in Entries
        BY <2>1
    <2>3. \A k \in DOMAIN menu : menu[k].id \in Nat
        BY <2>2 DEF Entries
    <2> QED BY <2>1, <2>3
<1>1. CASE \E k \in DOMAIN menu : menu[k].id = e.id
    <2> DEFINE c == CHOOSE k \in DOMAIN menu : menu[k].id = e.id
    <2>1. c \in DOMAIN menu /\ menu[c].id = e.id
        BY <1>1
    <2>2. Before(menu, e) = SubSeq(menu, 1, c - 1)
        BY <1>1 DEF Before
    <2> HIDE DEF c
    <2>3. \A k \in DOMAIN menu : menu[k] = e => k = c
        <3>1. \A j, k \in DOMAIN menu : j < k => menu[j].id < menu[k].id
            BY DEF RewindTypes, IdsClimb
        <3> QED BY <1>0, <2>1, <3>1
    <2>4. c - 1 \in Nat /\ c - 1 <= Len(menu)
        BY <1>0, <2>1
    <2>5. \A k \in DOMAIN menu : menu[k] = e => c - 1 = k - 1
        BY <2>3
    <2> QED BY <2>2, <2>4, <2>5
<1>2. CASE ~\E k \in DOMAIN menu : menu[k].id = e.id
    <2>1. SubSeq(menu, 1, Len(menu)) = menu
        BY <1>0
    <2>2. Before(menu, e) = menu
        BY <1>2 DEF Before
    <2>3. \A k \in DOMAIN menu : menu[k] # e
        BY <1>2
    <2>4. /\ Len(menu) \in Nat /\ Len(menu) <= Len(menu)
          /\ Before(menu, e) = SubSeq(menu, 1, Len(menu))
          /\ \A k \in DOMAIN menu : menu[k] = e => Len(menu) = k - 1
        BY <1>0, <2>1, <2>2, <2>3
    <2> QED BY <2>4
<1> QED BY <1>1, <1>2

LEMMA RewindTypesStart == RewindInit => RewindTypes
<1> SUFFICES ASSUME RewindInit PROVE RewindTypes
    OBVIOUS
<1>1. NoEntry \in Entries
    BY DEF NoEntry, Entry, Entries, NoInv
<1>2. 0 \in 0 .. MaxRewinds
    BY RewindAssumption
<1> QED BY <1>1, <1>2 DEF RewindInit, RewindTypes, IdsClimb, Steps

\* A reset, whole or stopped on the way, leaves a work tree.
LEMMA ResetTypes ==
    ASSUME RewindTypes, NEW r \in Restores, ResetTo(target[r].tree) \/ ResetStops(target[r].tree)
    PROVE  tree' \in SUBSET Nat
<1>1. tree \in SUBSET Nat /\ After(target[r].tree) \in SUBSET Nat
    BY DEF RewindTypes, Entries, After
<1>2. tree' \subseteq tree \cup After(target[r].tree)
    BY DEF ResetTo, ResetStops
<1> QED BY <1>1, <1>2

LEMMA RewindTypesStep == RewindTypes /\ [RewindNext]_rewindVars => RewindTypes'
<1> SUFFICES ASSUME RewindTypes, [RewindNext]_rewindVars PROVE RewindTypes'
    OBVIOUS
<1>1. ASSUME NEW kind \in {"text", "answer"}, StartInv(kind) PROVE RewindTypes'
    <2>1. Said(kind, inv + 1) \in ChatEvents /\ Said(kind, inv + 1).inv = inv + 1 /\ inv + 1 # 0
        BY DEF Said, ChatEvents, RewindTypes
    <2>2. chat' = Append(chat, Said(kind, inv + 1)) /\ inv' = inv + 1 /\ turn' = "running"
          /\ UNCHANGED <<made, tree, menu, ids, restore, target, rewinds>>
        BY <1>1 DEF StartInv
    <2>3. /\ chat' \in Seq(ChatEvents)
          /\ \A k \in DOMAIN chat' : chat'[k].inv \in 1 .. inv'
          /\ \A j, k \in DOMAIN chat' : j < k => chat'[j].inv <= chat'[k].inv
        BY <2>1, <2>2, ChatAdds
    <2>4. made' \subseteq 1 .. inv' /\ inv' \in Nat
        BY <2>2 DEF RewindTypes
    <2>5. \A k \in DOMAIN menu' : menu'[k].inv <= inv' /\ menu'[k].id <= ids'
        <3>1. \A k \in DOMAIN menu : menu[k] \in Entries /\ menu[k].inv <= inv /\ menu[k].id <= ids
            BY DEF RewindTypes
        <3> QED BY <2>2, <2>4, <3>1 DEF Entries, RewindTypes
    <2> QED BY <2>2, <2>3, <2>4, <2>5 DEF RewindTypes
<1>2. CASE CallTool
    <2>1. chat' = Append(chat, Said("tool", inv)) /\ turn' = "calling" /\ (Snapshot(inv) \/ SnapshotFails)
          /\ UNCHANGED <<made, tree, inv, restore, target, rewinds>>
        BY <1>2 DEF CallTool
    <2>2. inv \in Nat
        BY DEF RewindTypes
    <2>3. /\ menu' \in Seq(Entries) /\ ids' \in Nat /\ IdsClimb(menu')
          /\ \A k \in DOMAIN menu' : menu'[k].inv <= inv /\ menu'[k].id <= ids'
        BY <2>1, <2>2, MenuTypes
    <2>4. inv # 0
        BY <1>2 DEF CallTool, RewindTypes
    <2>5. Said("tool", inv) \in ChatEvents /\ Said("tool", inv).inv = inv
        BY <2>2 DEF Said, ChatEvents
    <2>6. /\ chat' \in Seq(ChatEvents)
          /\ \A k \in DOMAIN chat' : chat'[k].inv \in 1 .. inv
          /\ \A j, k \in DOMAIN chat' : j < k => chat'[j].inv <= chat'[k].inv
        BY <2>1, <2>4, <2>5, ChatAdds
    <2> QED BY <2>1, <2>3, <2>6 DEF RewindTypes
<1>3. CASE ToolDone
    BY <1>3 DEF ToolDone, RewindTypes
<1>4. CASE TurnRests
    BY <1>4 DEF TurnRests, RewindTypes
<1>5. CASE RestoreAsked
    <2>1. rewinds' \in Restores /\ rewinds' \in 0 .. MaxRewinds
        BY <1>5, RewindAssumption DEF RestoreAsked, RewindTypes, Restores
    <2>2. target' \in [Restores -> Entries]
        BY <1>5, <2>1 DEF RestoreAsked, RewindTypes
    <2>3. restore' \in [Restores -> Steps]
        BY <1>5, <2>1 DEF RestoreAsked, RewindTypes, Becomes, Steps
    <2> QED BY <1>5, <2>1, <2>2, <2>3 DEF RestoreAsked, RewindTypes
<1>6. ASSUME NEW r \in Restores, RestoreSaves(r) PROVE RewindTypes'
    <2>1. (Snapshot(NoInv) \/ SnapshotFails) /\ restore' \in [Restores -> Steps]
          /\ UNCHANGED <<made, chat, tree, turn, inv, target, rewinds>>
        BY <1>6 DEF RestoreSaves, Becomes, RewindTypes, Steps
    <2>2. NoInv \in Nat /\ NoInv <= inv
        BY DEF NoInv, RewindTypes
    <2>3. /\ menu' \in Seq(Entries) /\ ids' \in Nat /\ IdsClimb(menu')
          /\ \A k \in DOMAIN menu' : menu'[k].inv <= inv /\ menu'[k].id <= ids'
        BY <2>1, <2>2, MenuTypes
    <2> QED BY <2>1, <2>3 DEF RewindTypes
<1>7. ASSUME NEW r \in Restores, RestoreResets(r) PROVE RewindTypes'
    <2>1. tree' \in SUBSET Nat
        BY <1>7, ResetTypes DEF RestoreResets
    <2>2. restore' \in [Restores -> Steps]
        BY <1>7 DEF RestoreResets, Becomes, RewindTypes, Steps
    <2> QED BY <1>7, <2>1, <2>2 DEF RestoreResets, RewindTypes
<1>8. ASSUME NEW r \in Restores, RestoreLists(r) PROVE RewindTypes'
    <2>1. restore' \in [Restores -> Steps] /\ UNCHANGED <<made, chat, tree, ids, turn, inv, target, rewinds>>
        BY <1>8 DEF RestoreLists, Becomes, RewindTypes, Steps
    <2>2. CASE menu' = menu
        BY <2>1, <2>2 DEF RewindTypes
    <2>3. CASE menu' = Before(menu, target[r])
        <3>1. PICK n \in Nat : n <= Len(menu) /\ menu' = SubSeq(menu, 1, n)
            BY <2>3, BeforeIs
        <3>2. menu \in Seq(Entries)
            BY DEF RewindTypes
        <3>3. menu' \in Seq(Entries) /\ DOMAIN menu' = 1 .. n /\ \A k \in 1 .. n : k \in DOMAIN menu /\ menu'[k] = menu[k]
            BY <3>1, <3>2, PrefixIs
        <3>4. IdsClimb(menu')
            BY <3>3 DEF RewindTypes, IdsClimb
        <3>5. \A k \in DOMAIN menu' : menu'[k].inv <= inv /\ menu'[k].id <= ids
            BY <3>3 DEF RewindTypes
        <3> QED BY <2>1, <3>3, <3>4, <3>5 DEF RewindTypes
    <2> QED BY <1>8, <2>2, <2>3 DEF RestoreLists
<1>9. ASSUME NEW r \in Restores, RestoreTruncates(r) PROVE RewindTypes'
    <2>1. restore' \in [Restores -> Steps] /\ UNCHANGED <<made, tree, menu, ids, turn, inv, target, rewinds>>
        BY <1>9 DEF RestoreTruncates, Becomes, RewindTypes, Steps
    <2>2. target[r].inv \in Nat
        BY DEF RewindTypes, Entries
    <2>3. chat \in Seq(ChatEvents)
        BY DEF RewindTypes
    <2>4. CASE chat' = KeptChat(target[r].inv)
        <3>1. PICK n \in Nat : n <= Len(chat) /\ chat' = SubSeq(chat, 1, n)
            BY <2>2, <2>4, KeptIsPrefix
        <3>2. chat' \in Seq(ChatEvents) /\ DOMAIN chat' = 1 .. n /\ \A k \in 1 .. n : k \in DOMAIN chat /\ chat'[k] = chat[k]
            BY <2>3, <3>1, PrefixIs
        <3>3. \A k \in DOMAIN chat' : chat'[k].inv \in 1 .. inv
            BY <3>2 DEF RewindTypes
        <3>4. \A j, k \in DOMAIN chat' : j < k => chat'[j].inv <= chat'[k].inv
            BY <3>2 DEF RewindTypes
        <3> QED BY <2>1, <3>2, <3>3, <3>4 DEF RewindTypes
    <2>5. CASE chat' = chat
        BY <2>1, <2>5 DEF RewindTypes
    <2> QED BY <1>9, <2>4, <2>5 DEF RestoreTruncates
<1>10. CASE DesktopCrash
    <2>1. tree' \in SUBSET Nat
        BY <1>10, ResetTypes DEF DesktopCrash, RewindTypes
    <2> QED BY <1>10, <2>1 DEF DesktopCrash, RewindTypes, Steps
<1>11. CASE UNCHANGED rewindVars
    BY <1>11 DEF rewindVars, RewindTypes
<1> QED BY <1>1, <1>2, <1>3, <1>4, <1>5, <1>6, <1>7, <1>8, <1>9, <1>10, <1>11 DEF RewindNext, AskText, AnswerPause

\* What was said of the checkpoints stays.
CheckpointsStay == \A e : Faithful(e) => Faithful(e)'

LEMMA FaithfulStays ==
    ASSUME \A i : Past(i)' = Past(i), \A i : Acted(i) => Acted(i)' PROVE CheckpointsStay
BY DEF CheckpointsStay, Faithful

\* What steps that touch neither the conversation nor the changes leave.
LEMMA SameChat ==
    ASSUME chat' = chat, made' = made
    PROVE  /\ CheckpointsStay /\ (\A e : ~MidTurn(e) => ~MidTurn(e)')
           /\ (\A i : Acted(i)' <=> Acted(i)) /\ (\A i : Mentioned(i)' <=> Mentioned(i))
           /\ (\A i : Past(i)' = Past(i))
<1>1. \A i : Acted(i)' <=> Acted(i)
    BY DEF Acted
<1>2. \A i : Past(i)' = Past(i)
    BY DEF Past
<1>3. \A i : Mentioned(i)' <=> Mentioned(i)
    BY DEF Mentioned
<1>4. \A e : ~MidTurn(e) => ~MidTurn(e)'
    BY DEF MidTurn, TurnStart, FirstOf, Mentioned
<1> QED BY <1>1, <1>2, <1>3, <1>4, FaithfulStays

LEMMA MenuStays == ASSUME MenuInv, CheckpointsStay, menu' = menu PROVE MenuInv'
BY DEF MenuInv, CheckpointsStay, InvsClimb

LEMMA MenuFaithful == MenuInv <=> (\A k \in DOMAIN menu : Faithful(menu[k])) /\ InvsClimb(menu)
BY DEF MenuInv, ToSet

LEMMA ProjectStart == RewindInit => RewindInv
<1> SUFFICES ASSUME RewindInit PROVE RewindInv
    OBVIOUS
<1>1. InvsOf(chat) = {}
    BY DEF RewindInit, InvsOf
<1>2. ToSet(menu) = {} /\ DOMAIN menu = {}
    BY DEF RewindInit, ToSet
<1> QED BY <1>1, <1>2 DEF RewindInit, RewindInv, OneRestore, ProjectInv, TurnInv, MenuInv, TargetInv, InvsClimb, Restoring

LEMMA StartInvKeeps ==
    ASSUME RewindTypes, RewindInv, NEW kind \in {"text", "answer"}, StartInv(kind), strayed' = {}
    PROVE  RewindInv'
<1>1. /\ ~Restoring /\ restore' = restore /\ turn' = "running" /\ inv' = inv + 1
      /\ chat' = Append(chat, Said(kind, inv + 1))
      /\ UNCHANGED <<made, tree, newFile, tracked, menu>>
    BY DEF StartInv, Strays
<1>2. Said(kind, inv + 1) \in ChatEvents /\ Said(kind, inv + 1).inv = inv + 1 /\ inv + 1 # 0
      /\ made \subseteq 1 .. inv /\ inv \in Nat
    BY DEF Said, ChatEvents, RewindTypes
<1>3. InvsOf(chat') = InvsOf(chat) \cup {inv + 1} /\ (\A i : Acted(i) => Acted(i)')
      /\ (\A i : i = inv + 1 => Mentioned(i)')
    BY <1>1, <1>2, ChatAdds
<1>4. made' \cap InvsOf(chat') = made \cap InvsOf(chat)
    BY <1>1, <1>2, <1>3
<1>5. \A i : Past(i)' = Past(i)
    BY <1>4 DEF Past
<1>6. ProjectInv'
    BY <1>1, <1>4 DEF RewindInv, ProjectInv, Restoring
<1>7. TurnInv'
    BY <1>1, <1>2, <1>3 DEF TurnInv, Restoring
<1>8. MenuInv'
    BY <1>1, <1>3, <1>5, FaithfulStays, MenuStays DEF RewindInv
<1>9. TargetInv' /\ OneRestore'
    BY <1>1 DEF TargetInv, OneRestore, Restoring
<1> QED BY <1>6, <1>7, <1>8, <1>9 DEF RewindInv

LEMMA CallToolKeeps ==
    ASSUME RewindTypes, RewindInv, CallTool, strayed' = {} PROVE RewindInv'
<1>1. /\ ~Restoring /\ restore' = restore /\ turn = "running" /\ turn' = "calling" /\ inv' = inv
      /\ chat' = Append(chat, Said("tool", inv)) /\ ~Acted(inv)
      /\ Snapshot(inv) \/ SnapshotFails
      /\ UNCHANGED <<made, tree>>
    BY DEF CallTool, Strays
<1>2. Said("tool", inv) \in ChatEvents /\ Said("tool", inv).inv = inv /\ inv # 0
      /\ made \subseteq 1 .. inv /\ inv \in Nat
    BY <1>1 DEF Said, ChatEvents, RewindTypes
<1>3. InvsOf(chat') = InvsOf(chat) \cup {inv} /\ (\A i : Acted(i) => Acted(i)')
      /\ (\A i : i = inv => Mentioned(i)' /\ Acted(i)')
    BY <1>1, <1>2, ChatAdds
<1>4. inv \in InvsOf(chat) /\ inv \notin made
    BY <1>1 DEF RewindInv, TurnInv, Mentioned, InvsOf
<1>5. InvsOf(chat') = InvsOf(chat)
    BY <1>3, <1>4
<1>6. \A i : Past(i)' = Past(i)
    BY <1>1, <1>5 DEF Past
<1>7. ProjectInv'
    BY <1>1, <1>5 DEF RewindInv, ProjectInv, Restoring
<1>8. TurnInv'
    BY <1>1, <1>3 DEF TurnInv, Restoring
<1>9. TargetInv' /\ OneRestore'
    BY <1>1 DEF TargetInv, OneRestore, Restoring
<1>10. CheckpointsStay /\ MenuInv
    BY <1>3, <1>6, FaithfulStays DEF RewindInv
<1>11. MenuInv'
    <2>1. CASE SnapshotFails
        BY <1>10, <2>1, MenuStays DEF SnapshotFails
    <2>2. CASE Snapshot(inv)
        <3>1. menu' = Listed(menu, inv)
            BY <2>2 DEF Snapshot
        <3>2. ASSUME NEW l \in DOMAIN menu PROVE menu[l].inv < inv
            <4>1. menu[l] \in Entries /\ menu[l].inv <= inv
                BY DEF RewindTypes
            <4>2. menu[l].inv # NoInv => Acted(menu[l].inv)
                BY <1>10, MenuFaithful DEF Faithful
            <4>3. menu[l].inv # inv
                BY <1>1, <1>2, <4>2 DEF NoInv
            <4> QED BY <1>2, <4>1, <4>3 DEF Entries
        <3>3. /\ InvsClimb(menu')
              /\ \A k \in DOMAIN menu' : \/ menu'[k] = Entry(ids + 1, tree, inv)
                                         \/ \E l \in DOMAIN menu : menu'[k] = menu[l]
            BY <1>2, <1>10, <3>1, <3>2, ListedIs DEF MenuInv
        <3>4. ASSUME NEW e, e = Entry(ids + 1, tree, inv) PROVE Faithful(e)'
            <4>1. e.tree = tree /\ e.inv = inv
                BY <3>4 DEF Entry
            <4>2. tree = made \cap InvsOf(chat)
                BY <1>1 DEF RewindInv, ProjectInv, Restoring
            <4>3. \A j \in made : j < inv
                BY <1>2, <1>4
            <4>4. tree = Past(e.inv)
                BY <4>1, <4>2, <4>3 DEF Past
            <4>5. e.tree = Past(e.inv)'
                BY <1>6, <4>1, <4>4
            <4>6. Acted(e.inv)'
                BY <1>3, <4>1
            <4> QED BY <4>5, <4>6 DEF Faithful
        <3>5. \A e \in ToSet(menu') : e = Entry(ids + 1, tree, inv) \/ e \in ToSet(menu)
            BY <3>3 DEF ToSet
        <3>6. \A e \in ToSet(menu') : Faithful(e)'
            BY <1>10, <3>4, <3>5 DEF CheckpointsStay, MenuInv
        <3> QED BY <3>3, <3>6 DEF MenuInv
    <2> QED BY <1>1, <2>1, <2>2
<1> QED BY <1>7, <1>8, <1>9, <1>11 DEF RewindInv

LEMMA ToolDoneKeeps ==
    ASSUME RewindTypes, RewindInv, ToolDone, strayed' = {} PROVE RewindInv'
<1>1. /\ ~Restoring /\ restore' = restore /\ turn = "calling" /\ turn' = "running"
      /\ tree' = tree \cup {inv} /\ made' = made \cup {inv}
      /\ UNCHANGED <<chat, menu, inv, target>>
    BY DEF ToolDone, Strays
<1>2. Acted(inv) /\ inv \in InvsOf(chat) /\ inv \in Nat
    BY <1>1 DEF RewindInv, TurnInv, Mentioned, InvsOf, RewindTypes
<1>3. ProjectInv'
    BY <1>1, <1>2 DEF RewindInv, ProjectInv, Restoring
<1>4. TurnInv'
    BY <1>1, <1>2 DEF RewindInv, TurnInv, Mentioned, Acted, Restoring
<1>5. MenuInv
    BY DEF RewindInv
<1>6. ASSUME NEW e \in ToSet(menu) PROVE Faithful(e)'
    <2>1. e \in Entries /\ e.inv <= inv /\ Faithful(e)
        BY <1>5 DEF RewindTypes, MenuInv, ToSet
    <2>2. e.inv \in Nat /\ ~(inv < e.inv)
        BY <1>2, <2>1 DEF Entries
    <2>3. Past(e.inv)' = Past(e.inv)
        BY <1>1, <2>2 DEF Past
    <2>4. Acted(e.inv) => Acted(e.inv)'
        BY <1>1 DEF Acted
    <2> QED BY <2>1, <2>3, <2>4 DEF Faithful
<1>7. MenuInv'
    BY <1>1, <1>5, <1>6 DEF MenuInv, InvsClimb
<1>8. TargetInv' /\ OneRestore'
    BY <1>1 DEF TargetInv, OneRestore, Restoring
<1> QED BY <1>3, <1>4, <1>7, <1>8 DEF RewindInv

\* The restore that is under way is the only one: what its next step leaves of the others.
LEMMA StepsAlone ==
    ASSUME RewindTypes, OneRestore, NEW r \in Restores, restore[r] # "none", NEW step, Becomes(r, step)
    PROVE  /\ restore'[r] = step /\ (\A q \in Restores : q # r => restore[q] = "none" /\ restore'[q] = "none")
           /\ OneRestore'
BY DEF RewindTypes, OneRestore, Becomes

LEMMA RestoreAskedKeeps ==
    ASSUME RewindTypes, RewindInv, RestoreAsked, strayed' = {} PROVE RewindInv'
<1>0. rewinds' \in Restores
    BY RewindAssumption DEF RestoreAsked, RewindTypes, Restores
<1>9. PICK r \in Restores : r = rewinds'
    BY <1>0
<1>1. /\ ~Restoring /\ turn = "idle" /\ Becomes(r, "save")
      /\ \E k \in DOMAIN menu : target' = [target EXCEPT ![r] = menu[k]] /\ menu[k].inv # NoInv /\ ~MidTurn(menu[k])
      /\ UNCHANGED <<made, chat, tree, newFile, tracked, menu, turn, inv>>
    BY <1>9 DEF RestoreAsked
<1>2. PICK k \in DOMAIN menu : target' = [target EXCEPT ![r] = menu[k]] /\ menu[k].inv # NoInv /\ ~MidTurn(menu[k])
    BY <1>1
<1>3. PICK e : e = menu[k]
    OBVIOUS
<1>4. e.inv # NoInv /\ ~MidTurn(e) /\ Faithful(e)
    BY <1>2, <1>3, MenuFaithful DEF RewindInv
<1>5. Faithful(e)' /\ ~MidTurn(e)'
    BY <1>1, <1>4, SameChat DEF CheckpointsStay
<1>6. restore'[r] = "save" /\ (\A q \in Restores : restore[q] = "none" /\ (q # r => restore'[q] = "none"))
    BY <1>1 DEF RewindTypes, Becomes, Restoring
<1>7. ProjectInv' /\ TurnInv' /\ MenuInv'
    BY <1>1, <1>6, SameChat, MenuStays DEF RewindInv, ProjectInv, TurnInv
<1>8. TargetInv' /\ OneRestore'
    <2>1. target'[r] = e
        BY <1>1, <1>2, <1>3 DEF RewindTypes
    <2>2. TargetOf(r)'
        BY <1>1, <1>2, <1>3, <1>4, <1>5, <1>6, <2>1 DEF TargetOf
    <2> QED BY <1>1, <1>6, <2>2 DEF TargetInv, OneRestore
<1> QED BY <1>7, <1>8 DEF RewindInv

\* What the steps of a restore leave of its target, as long as they do not touch the conversation.
LEMMA TargetStays ==
    ASSUME RewindInv, NEW r \in Restores, restore[r] # "none", chat' = chat, made' = made, target' = target
    PROVE  target'[r].inv # NoInv /\ ~MidTurn(target[r])' /\ Faithful(target[r])'
BY SameChat DEF RewindInv, TargetInv, TargetOf, CheckpointsStay

LEMMA RestoreSavesKeeps ==
    ASSUME RewindTypes, RewindInv, NEW r \in Restores, RestoreSaves(r), strayed' = {} PROVE RewindInv'
<1>1. /\ restore[r] = "save" /\ Becomes(r, "reset")
      /\ UNCHANGED <<made, chat, tree, newFile, turn, inv, target>>
    BY DEF RestoreSaves
<1>2. Faithful(target[r])' /\ ~MidTurn(target[r])' /\ target'[r].inv # NoInv
    BY <1>1, TargetStays
<1>3. /\ restore'[r] = "reset" /\ OneRestore'
      /\ \A q \in Restores : q # r => restore[q] = "none" /\ restore'[q] = "none"
    BY <1>1, StepsAlone DEF RewindInv
<1>4. TurnInv'
    BY <1>1, <1>3, SameChat DEF RewindInv, TurnInv, Restoring
<1>5. ASSUME tree \cap newFile \subseteq tracked' PROVE ProjectInv'
    BY <1>1, <1>3, <1>5 DEF RewindInv, ProjectInv
<1>6. ASSUME \E k \in DOMAIN menu' : menu'[k] = target[r] PROVE TargetInv'
    BY <1>1, <1>2, <1>3, <1>6 DEF TargetInv, TargetOf
<1>7. CheckpointsStay /\ MenuInv
    BY <1>1, SameChat DEF RewindInv
<1>8. CASE SnapshotFails /\ Strays("unsaved", ~((tree \cap newFile) \subseteq tracked'))
    <2>1. menu' = menu /\ tree \cap newFile \subseteq tracked'
        BY <1>8 DEF SnapshotFails, Strays
    <2>2. MenuInv'
        BY <1>7, <2>1, MenuStays
    <2>3. \E k \in DOMAIN menu' : menu'[k] = target[r]
        BY <1>1, <2>1 DEF RewindInv, TargetInv, TargetOf
    <2> QED BY <1>3, <1>4, <1>5, <1>6, <2>1, <2>2, <2>3 DEF RewindInv
<1>9. CASE Snapshot(NoInv) /\ Strays("evicted", target[r] \notin ToSet(menu'))
    <2>1. menu' = Listed(menu, NoInv) /\ target[r] \in ToSet(menu') /\ tree \cap newFile \subseteq tracked'
        BY <1>9 DEF Snapshot, Staged, Strays
    <2>2. NoInv \in Nat
        BY DEF NoInv
    <2>3. /\ InvsClimb(menu')
          /\ \A k \in DOMAIN menu' : \/ menu'[k] = Entry(ids + 1, tree, NoInv)
                                     \/ \E l \in DOMAIN menu : menu'[k] = menu[l]
        BY <1>7, <2>1, <2>2, ListedIs DEF MenuInv
    <2>4. \A e : e = Entry(ids + 1, tree, NoInv) => Faithful(e)'
        BY DEF Faithful, Entry
    <2>5. \A e \in ToSet(menu') : e = Entry(ids + 1, tree, NoInv) \/ e \in ToSet(menu)
        BY <2>3 DEF ToSet
    <2>6. \A e \in ToSet(menu') : Faithful(e)'
        BY <1>7, <2>4, <2>5 DEF CheckpointsStay, MenuInv
    <2>7. MenuInv'
        BY <2>3, <2>6 DEF MenuInv
    <2>8. \E k \in DOMAIN menu' : menu'[k] = target[r]
        BY <2>1 DEF ToSet
    <2> QED BY <1>3, <1>4, <1>5, <1>6, <2>1, <2>7, <2>8 DEF RewindInv
<1> QED BY <1>8, <1>9 DEF RestoreSaves

\* A reset that stops on the way and leaves no half of it has changed no file.
LEMMA StopsWhole == ASSUME NEW content, ResetStops(content), strayed' = {} PROVE tree' = tree
BY DEF ResetStops, Strays

LEMMA RestoreResetsKeeps ==
    ASSUME RewindTypes, RewindInv, NEW r \in Restores, RestoreResets(r), strayed' = {} PROVE RewindInv'
<1>1. restore[r] = "reset" /\ UNCHANGED <<made, chat, newFile, menu, turn, inv, target>>
    BY DEF RestoreResets
<1>2. turn' = "idle"
    BY <1>1 DEF RewindInv, TurnInv, Restoring
<1>3. TurnInv' /\ MenuInv'
    BY <1>1, <1>2, SameChat, MenuStays DEF RewindInv, TurnInv
<1>4. Faithful(target[r])' /\ ~MidTurn(target[r])' /\ target'[r].inv # NoInv
    BY <1>1, TargetStays
<1>5. CASE Becomes(r, "list") /\ ResetTo(target[r].tree)
    <2>1. /\ restore'[r] = "list" /\ OneRestore'
          /\ \A q \in Restores : q # r => restore[q] = "none" /\ restore'[q] = "none"
        BY <1>1, <1>5, StepsAlone DEF RewindInv
    <2>2. tree' = target[r].tree
        BY <1>1, <1>5 DEF ResetTo, After, RewindInv, ProjectInv
    <2>3. tree' = Past(target[r].inv)'
        BY <1>1, <1>4, <2>2 DEF Faithful
    <2>4. ProjectInv'
        BY <1>1, <2>1, <2>3 DEF ProjectInv
    <2>5. TargetInv'
        BY <1>1, <1>4, <2>1 DEF RewindInv, TargetInv, TargetOf
    <2> QED BY <1>3, <2>1, <2>4, <2>5 DEF RewindInv
<1>6. CASE Becomes(r, "none") /\ ResetStops(target[r].tree)
    <2>1. OneRestore' /\ \A q \in Restores : restore'[q] = "none" /\ restore[q] \notin {"list", "chat"}
        BY <1>1, <1>6, StepsAlone DEF RewindInv
    <2>2. tree' = tree
        BY <1>6, StopsWhole
    <2>3. ProjectInv' /\ TargetInv'
        BY <1>1, <2>1, <2>2, SameChat DEF RewindInv, ProjectInv, TargetInv
    <2> QED BY <1>3, <2>1, <2>3 DEF RewindInv
<1> QED BY <1>5, <1>6 DEF RestoreResets

LEMMA RestoreListsKeeps ==
    ASSUME RewindTypes, RewindInv, NEW r \in Restores, RestoreLists(r), strayed' = {} PROVE RewindInv'
<1>1. /\ restore[r] = "list" /\ Becomes(r, "chat") /\ menu' = Before(menu, target[r])
      /\ UNCHANGED <<made, chat, tree, newFile, tracked, turn, inv, target>>
    BY DEF RestoreLists, Strays
<1>2. PICK k \in DOMAIN menu : menu[k] = target[r]
    BY <1>1 DEF RewindInv, TargetInv, TargetOf
<1>3. PICK n \in Nat : n <= Len(menu) /\ menu' = SubSeq(menu, 1, n) /\ \A j \in DOMAIN menu : menu[j] = target[r] => n = j - 1
    BY <1>1, BeforeIs
<1>4. n = k - 1 /\ k \in Nat /\ menu \in Seq(Entries)
    BY <1>2, <1>3 DEF RewindTypes
<1>5. DOMAIN menu' = 1 .. n /\ \A j \in 1 .. n : j \in DOMAIN menu /\ menu'[j] = menu[j]
    BY <1>3, <1>4, PrefixIs
<1>6. \A j \in DOMAIN menu' : menu'[j].inv < target[r].inv
    <2>1. target[r].inv # NoInv /\ InvsClimb(menu)
        BY <1>1 DEF RewindInv, TargetInv, TargetOf, MenuInv
    <2>2. \A j \in 1 .. n : j < k
        BY <1>4
    <2> QED BY <1>2, <1>5, <2>1, <2>2 DEF InvsClimb
<1>7. MenuInv'
    <2>1. CheckpointsStay /\ MenuInv
        BY <1>1, SameChat DEF RewindInv
    <2>2. InvsClimb(menu')
        BY <1>5, <2>1 DEF MenuInv, InvsClimb
    <2>3. \A e \in ToSet(menu') : e \in ToSet(menu)
        BY <1>5 DEF ToSet
    <2> QED BY <2>1, <2>2, <2>3 DEF MenuInv, CheckpointsStay
<1>8. Faithful(target[r])' /\ ~MidTurn(target[r])' /\ target'[r].inv # NoInv
    BY <1>1, TargetStays
<1>9. /\ restore'[r] = "chat" /\ OneRestore'
      /\ \A q \in Restores : q # r => restore[q] = "none" /\ restore'[q] = "none"
    BY <1>1, StepsAlone DEF RewindInv
<1>10. TargetInv'
    BY <1>1, <1>6, <1>8, <1>9 DEF TargetInv, TargetOf
<1>11. TurnInv'
    BY <1>1, <1>9, SameChat DEF RewindInv, TurnInv, Restoring
<1>12. ProjectInv'
    BY <1>1, <1>9, SameChat DEF RewindInv, ProjectInv
<1> QED BY <1>7, <1>9, <1>10, <1>11, <1>12 DEF RewindInv

LEMMA RestoreTruncatesKeeps ==
    ASSUME RewindTypes, RewindInv, NEW r \in Restores, RestoreTruncates(r), strayed' = {} PROVE RewindInv'
<1>1. /\ restore[r] = "chat" /\ Becomes(r, "none") /\ chat' = KeptChat(target[r].inv)
      /\ UNCHANGED <<made, tree, newFile, tracked, menu, turn, inv, target>>
    BY DEF RestoreTruncates, Strays
<1>2. target[r] \in Entries /\ target[r].inv # NoInv /\ ~MidTurn(target[r]) /\ Acted(target[r].inv)
    BY <1>1 DEF RewindTypes, RewindInv, TargetInv, TargetOf, Faithful
<1> DEFINE t == target[r].inv
           f == FirstOf(target[r].inv)
<1>3. Mentioned(t) /\ t \in Nat
    BY <1>2 DEF Acted, Mentioned, Said, Entries
<1>4. f \in DOMAIN chat /\ (\A k \in DOMAIN chat : chat[k].inv < t <=> k < f)
    BY <1>3, FirstIs
<1>5. chat' = SubSeq(chat, 1, f - 1)
    BY <1>1, <1>2, <1>3, KeptIsPast
<1>6. chat \in Seq(ChatEvents) /\ f - 1 \in Nat /\ f - 1 <= Len(chat)
    BY <1>4 DEF RewindTypes
<1> HIDE DEF f
<1>7. DOMAIN chat' = 1 .. f - 1 /\ \A k \in 1 .. f - 1 : k \in DOMAIN chat /\ chat'[k] = chat[k]
    BY <1>5, <1>6, PrefixIs
<1>8. \A k \in DOMAIN chat : k \in DOMAIN chat' <=> chat[k].inv < t
    BY <1>4, <1>6, <1>7
<1>9. InvsOf(chat') = {j \in InvsOf(chat) : j < t}
    <2>1. \A x : x \in InvsOf(chat') <=> \E k \in DOMAIN chat' : x = chat'[k].inv
        BY DEF InvsOf
    <2>2. \A x : x \in InvsOf(chat) <=> \E k \in DOMAIN chat : x = chat[k].inv
        BY DEF InvsOf
    <2>3. \A x : x \in InvsOf(chat') <=> x \in InvsOf(chat) /\ x < t
        BY <1>7, <1>8, <2>1, <2>2
    <2> QED BY <2>3
<1>10. \A i : Acted(i) /\ i < t => Acted(i)'
    <2>1. SUFFICES ASSUME NEW i, Acted(i), i < t PROVE Acted(i)'
        OBVIOUS
    <2>2. PICK k \in DOMAIN chat : chat[k] = Said("tool", i)
        BY <2>1 DEF Acted
    <2>3. k \in DOMAIN chat' /\ chat'[k] = Said("tool", i)
        BY <1>7, <1>8, <2>1, <2>2 DEF Said
    <2> QED BY <2>3 DEF Acted
<1>11. turn' = "idle"
    BY <1>1 DEF RewindInv, TurnInv, Restoring
<1>12. tree' = made' \cap InvsOf(chat')
    BY <1>1, <1>9 DEF RewindInv, ProjectInv, Past
<1>13. MenuInv /\ \A k \in DOMAIN menu : menu[k] \in Entries /\ menu[k].inv < t
    BY <1>1 DEF RewindTypes, RewindInv, TargetInv, TargetOf
<1>14. ASSUME NEW e \in ToSet(menu) PROVE Faithful(e)'
    <2>1. e \in Entries /\ e.inv < t /\ Faithful(e)
        BY <1>13 DEF ToSet, MenuInv
    <2>2. e.inv \in Nat /\ made \subseteq Nat /\ \A j \in Nat : j < e.inv => j < t
        BY <1>3, <2>1 DEF Entries, RewindTypes
    <2>3. Past(e.inv)' = Past(e.inv)
        BY <1>1, <1>9, <2>2 DEF Past
    <2> QED BY <1>10, <2>1, <2>3 DEF Faithful
<1>15. MenuInv'
    BY <1>1, <1>13, <1>14 DEF MenuInv, InvsClimb
<1>16. OneRestore' /\ \A q \in Restores : restore'[q] = "none"
    BY <1>1, StepsAlone DEF RewindInv
<1> QED BY <1>1, <1>11, <1>12, <1>15, <1>16 DEF RewindInv, ProjectInv, TurnInv, TargetInv, Restoring

\* When only the turn or the restores rest, everything said of the project stays.
LEMMA RestsKeep ==
    ASSUME RewindTypes, RewindInv, TurnRests \/ DesktopCrash \/ UNCHANGED rewindVars, strayed' = {}
    PROVE  RewindInv'
<1>1. UNCHANGED <<made, chat, newFile, menu, inv, target>>
    BY DEF TurnRests, DesktopCrash, rewindVars
<1>2. MenuInv'
    BY <1>1, SameChat, MenuStays DEF RewindInv
<1>3. CASE DesktopCrash
    <2>1. turn' = "idle" /\ \A q \in Restores : restore'[q] = "none"
        BY <1>3 DEF DesktopCrash
    <2>2. tree' = tree /\ \A q \in Restores : restore[q] \notin {"list", "chat"}
        <3>1. CASE \E r \in Restores : restore[r] = "reset" /\ ResetStops(target[r].tree)
            BY <3>1, StopsWhole DEF RewindInv, OneRestore
        <3>2. CASE ~\E r \in Restores : restore[r] = "reset" /\ ResetStops(target[r].tree)
            BY <1>3, <3>2 DEF DesktopCrash, Strays
        <3> QED BY <3>1, <3>2
    <2>3. ProjectInv'
        BY <1>1, <2>1, <2>2 DEF RewindInv, ProjectInv
    <2> QED BY <1>2, <2>1, <2>3 DEF RewindInv, OneRestore, TurnInv, TargetInv, Restoring
<1>4. CASE TurnRests \/ UNCHANGED rewindVars
    <2>1. /\ UNCHANGED <<restore, tree, tracked>>
          /\ turn' = turn \/ turn' = "idle" \/ (turn' = "parked" /\ turn = "running")
        BY <1>4 DEF TurnRests, rewindVars
    <2>2. ProjectInv' /\ OneRestore'
        BY <1>1, <2>1, SameChat DEF RewindInv, ProjectInv, OneRestore
    <2>3. TurnInv'
        BY <1>1, <2>1, SameChat DEF RewindInv, TurnInv, Restoring
    <2>4. TargetInv'
        BY <1>1, <2>1, TargetStays DEF RewindInv, TargetInv, TargetOf
    <2> QED BY <1>2, <2>2, <2>3, <2>4 DEF RewindInv
<1> QED BY <1>3, <1>4

LEMMA ProjectStep ==
    RewindTypes /\ (strayed = {} => RewindInv) /\ [RewindNext]_rewindVars => (strayed' = {} => RewindInv')
<1> SUFFICES ASSUME RewindTypes, strayed = {} => RewindInv, [RewindNext]_rewindVars, strayed' = {}
             PROVE  RewindInv'
    OBVIOUS
<1>1. strayed = {}
    BY StrayedStays DEF rewindVars
<1> QED BY <1>1, StartInvKeeps, CallToolKeeps, ToolDoneKeeps, RestoreAskedKeeps, RestoreSavesKeeps,
           RestoreResetsKeeps, RestoreListsKeeps, RestoreTruncatesKeeps, RestsKeep
        DEF RewindNext, AskText, AnswerPause

LEMMA ProjectHolds == RewindSpec => [](RewindTypes /\ (strayed = {} => RewindInv))
<1> DEFINE Inv == strayed = {} => RewindInv
<1>1. RewindInit => Inv
    BY ProjectStart
<1>2. RewindTypes /\ Inv /\ [RewindNext]_rewindVars => Inv'
    BY ProjectStep
<1>3. RewindTypes /\ Inv => RewindTypes /\ (strayed = {} => RewindInv)
    OBVIOUS
<1> HIDE DEF Inv
<1> QED
    BY <1>1, <1>2, <1>3, RewindTypesStart, RewindTypesStep, PTL DEF RewindSpec

\* After any sequence of turns and rewinds (service/desktop_checkpoint.py, plugins/checkpoint.py,
\* the restore route), the project holds exactly the changes of the invocations that the
\* conversation still mentions, for any number of invocations and any cap on the menu.
THEOREM FilesMatchChatHolds == RewindSpec => []FilesMatchChat
<1>1. RewindTypes /\ (strayed = {} => RewindInv) => FilesMatchChat
    BY DEF RewindInv, ProjectInv, FilesMatchChat, AtRest, Restoring
<1> QED
    BY <1>1, ProjectHolds, PTL

\* No restore, in whatever order checkpoints are chosen, brings back a change that an
\* earlier restore has undone: only a turn adds one, its own.
THEOREM UndoneStaysUndoneHolds == RewindSpec => UndoneStaysUndone
<1> DEFINE Step == strayed' = {} => tree' \ tree \subseteq {inv}
<1>1. RewindTypes /\ (strayed = {} => RewindInv) /\ [RewindNext]_rewindVars => [Step]_rewindVars
    <2> SUFFICES ASSUME RewindTypes, strayed = {} => RewindInv, RewindNext, strayed' = {}
                 PROVE  tree' \ tree \subseteq {inv}
        OBVIOUS
    <2>1. RewindInv
        BY StrayedStays
    <2>2. CASE ToolDone
        BY <2>2 DEF ToolDone
    <2>3. ASSUME NEW r \in Restores, restore[r] = "reset", ResetTo(target[r].tree) PROVE tree' \ tree \subseteq {inv}
        <3>1. \A q \in Restores : restore[q] \notin {"list", "chat"}
            BY <2>1, <2>3 DEF RewindInv, OneRestore
        <3>2. target[r].tree = Past(target[r].inv) /\ tree = made \cap InvsOf(chat)
            BY <2>1, <2>3, <3>1 DEF RewindInv, TargetInv, TargetOf, ProjectInv, Faithful
        <3> QED BY <2>3, <3>2 DEF ResetTo, After, Past
    <2>4. CASE ~ToolDone /\ ~\E r \in Restores : restore[r] = "reset" /\ ResetTo(target[r].tree)
        <3>1. tree' = tree
            BY <2>4, StopsWhole DEF RewindNext, AskText, AnswerPause, StartInv, CallTool, TurnRests, RestoreAsked,
                        RestoreSaves, RestoreResets, RestoreLists, RestoreTruncates, DesktopCrash
        <3> QED BY <3>1
    <2> QED BY <2>2, <2>3, <2>4
<1> QED
    BY <1>1, ProjectHolds, PTL DEF RewindSpec, UndoneStaysUndone

-----------------------------------------------------------------------------
(* The permission decision (Permission).                                   *)

RuleSets == [deny : BOOLEAN, ask : BOOLEAN, allow : BOOLEAN, script : BOOLEAN]

GateTypes ==
    /\ gated \in GatedCalls /\ seat \in [desktop : BOOLEAN, isolated : BOOLEAN,
                                         explicit : BOOLEAN, subagent : BOOLEAN]
    /\ mode \in Modes /\ rules \in RuleSets /\ granted \in BOOLEAN

LEMMA TypesStart == GateInit => GateTypes
BY DEF GateInit, GateTypes, Seats, RuleSets

LEMMA StepKeepsTypes == GateTypes /\ [GateNext]_gateVars => GateTypes'
<1> SUFFICES ASSUME GateTypes, [GateNext]_gateVars PROVE GateTypes'
    OBVIOUS
<1> USE DEF GateTypes, RuleSets
<1>1. ASSUME BeforeTool PROVE GateTypes'
    <2>1. UNCHANGED <<gated, seat, mode>>
        BY <1>1 DEF BeforeTool
    <2>2. rules' \in RuleSets /\ granted' \in BOOLEAN
        <3>1. CASE ByScriptGate
            BY <3>1 DEF ByScriptGate
        <3>2. CASE ByScriptTool
            BY <3>2 DEF ByScriptTool, RulesAfter
        <3>3. CASE ByScopeGate
            BY <3>3 DEF ByScopeGate
        <3>4. CASE ByDecision
            BY <3>4 DEF ByDecision, RulesAfter
        <3> QED BY <1>1, <3>1, <3>2, <3>3, <3>4 DEF BeforeTool
    <2> QED BY <2>1, <2>2
<1>2. CASE UserAnswers
    BY <1>2 DEF UserAnswers
<1>3. CASE SwitchMode
    BY <1>3 DEF SwitchMode
<1>4. CASE GrantMeanwhile
    BY <1>4 DEF GrantMeanwhile
<1>5. CASE UNCHANGED gateVars
    BY <1>5 DEF gateVars
<1> QED BY <1>1, <1>2, <1>3, <1>4, <1>5 DEF GateNext

-----------------------------------------------------------------------------
(* The order of the decisions.                                             *)

LEMMA DecideValues ==
    ASSUME NEW m \in Modes, NEW r \in RuleSets, NEW g \in BOOLEAN
    PROVE  Decide(m, r, g) \in {"deny", "ask", "allow"}
BY DEF Decide, Floor, ByRules, AskUnlessDontAsk

LEMMA Ranks == Rank("deny") = 0 /\ Rank("ask") = 1 /\ Rank("allow") = 2
BY DEF Rank

\* s is r with, perhaps, an allow rule more.
Widens(s, r) == s.deny = r.deny /\ s.ask = r.ask /\ (r.allow => s.allow)

\* An allow rule never makes the decision stricter.
LEMMA AllowRuleHelps ==
    ASSUME NEW m \in Modes, NEW r \in RuleSets, NEW s \in RuleSets, NEW g \in BOOLEAN,
           Widens(s, r)
    PROVE  Rank(Decide(m, r, g)) <= Rank(Decide(m, s, g))
<1>1. CASE Floor(r) # "next"
    BY <1>1, DecideValues, Ranks DEF Decide, Floor, Widens
<1>2. CASE Floor(r) = "next"
    <2>1. Floor(s) = "next"
        BY <1>2 DEF Floor, Widens
    <2>2. Unsafe(s, g) => Unsafe(r, g)
        BY DEF Unsafe, Widens
    <2> QED
        BY <1>2, <2>1, <2>2, Ranks DEF Decide, ByRules, AskUnlessDontAsk, Widens
<1> QED BY <1>1, <1>2

LEMMA ModesClimb ==
    ASSUME NEW r \in RuleSets, NEW g \in BOOLEAN
    PROVE  /\ Rank(Decide("dontAsk", r, g)) <= Rank(Decide("default", r, g))
           /\ Rank(Decide("default", r, g)) <= Rank(Decide("acceptEdits", r, g))
           /\ Rank(Decide("acceptEdits", r, g)) <= Rank(Decide("bypassPermissions", r, g))
<1>1. CASE Floor(r) # "next"
    BY <1>1, Ranks DEF Decide, Floor
<1>2. CASE Floor(r) = "next"
    <2>1. Rank(Decide("dontAsk", r, g)) <= Rank(Decide("default", r, g))
        BY <1>2 DEF Decide, ByRules, AskUnlessDontAsk, Rank, EffectiveMode
    <2>2. Rank(Decide("default", r, g)) <= Rank(Decide("acceptEdits", r, g))
        BY <1>2 DEF Decide, ByRules, AskUnlessDontAsk, Rank, EffectiveMode
    <2>3. Rank(Decide("acceptEdits", r, g)) <= Rank(Decide("bypassPermissions", r, g))
        BY <1>2 DEF Decide, ByRules, AskUnlessDontAsk, Rank, EffectiveMode
    <2> QED BY <2>1, <2>2, <2>3
<1> QED BY <1>1, <1>2

\* Going from one mode to the next (modes.py 12-22), and adding an allow rule, never turns
\* the decision of permissions/engine.py stricter, for any call, seat and rules.
THEOREM ModesAreOrderedHolds == GateSpec => []ModesAreOrdered
<1>1. GateTypes => ModesAreOrdered
    <2> SUFFICES ASSUME GateTypes PROVE ModesAreOrdered
        OBVIOUS
    <2>1. \A a \in BOOLEAN : [rules EXCEPT !.allow = a] \in RuleSets
        BY DEF GateTypes, RuleSets
    <2>2. granted \in BOOLEAN /\ rules \in RuleSets
        BY DEF GateTypes
    <2>3. Widens([rules EXCEPT !.allow = TRUE], [rules EXCEPT !.allow = FALSE])
        BY <2>2 DEF Widens, RuleSets
    <2>4. \A m \in Modes : Rank(Decide(m, [rules EXCEPT !.allow = FALSE], granted))
                          <= Rank(Decide(m, [rules EXCEPT !.allow = TRUE], granted))
        BY <2>1, <2>2, <2>3, AllowRuleHelps
    <2> QED
        BY <2>1, <2>2, <2>4, ModesClimb DEF ModesAreOrdered
<1> QED
    BY <1>1, TypesStart, StepKeepsTypes, PTL DEF GateSpec

-----------------------------------------------------------------------------
(* What runs was not forbidden.                                            *)

\* "Allow always" adds rules that allow: what is not forbidden stays so.
LEMMA RulesAfterAllows ==
    ASSUME GateTypes, Decide(mode, rules, granted) # "deny"
    PROVE  Decide(mode, RulesAfter, granted) # "deny"
BY DEF GateTypes, RuleSets, RulesAfter, Decide, Floor, Unsafe, ByRules, AskUnlessDontAsk

\* Whatever gate the call passed and whatever was answered, it runs only when the decision
\* with the rules and grants of that moment (permissions.py 325-535, 754-836) is no denial.
THEOREM RunsOnlyWhatIsNotDeniedHolds == GateSpec => RunsOnlyWhatIsNotDenied
<1>1. ASSUME GateTypes, [GateNext]_gateVars, at' = "ran", at # "ran", gated.tool # "script"
      PROVE  Decide(mode, rules', granted') # "deny"
    <2>1. CASE BeforeTool
        <3>1. CASE ByScriptGate
            BY <1>1, <3>1 DEF ByScriptGate, AsksUser, Refuses, Pauses
        <3>2. CASE ByScriptTool
            BY <1>1, <3>2 DEF ByScriptTool
        <3>3. CASE ByScopeGate
            <4>1. ASSUME ScopeAsks, AsksUser("scope") PROVE FALSE
                BY <1>1, <4>1 DEF AsksUser, Refuses, Pauses
            <4>2. ASSUME ScopeAnswered, Refuses PROVE FALSE
                BY <1>1, <4>2 DEF Refuses
            <4>3. ASSUME granted' = TRUE, IF Decide(mode, rules', TRUE) = "deny" THEN Refuses ELSE Proceeds
                  PROVE  Decide(mode, rules', granted') # "deny"
                BY <1>1, <4>3 DEF Refuses
            <4> QED BY <3>3, <4>1, <4>2, <4>3 DEF ByScopeGate
        <3>4. CASE ByDecision
            <4>1. Decide(mode, rules, granted) # "deny"
                BY <1>1, <3>4 DEF ByDecision, Refuses
            <4> QED BY <1>1, <3>4, <4>1, RulesAfterAllows DEF ByDecision
        <3> QED BY <2>1, <3>1, <3>2, <3>3, <3>4 DEF BeforeTool
    <2>2. CASE UserAnswers \/ SwitchMode \/ GrantMeanwhile \/ UNCHANGED gateVars
        BY <1>1, <2>2 DEF UserAnswers, SwitchMode, GrantMeanwhile, gateVars
    <2> QED BY <1>1, <2>1, <2>2 DEF GateNext
<1>2. GateTypes /\ [GateNext]_gateVars
        => [at' = "ran" /\ at # "ran" /\ gated.tool # "script"
              => Decide(mode, rules', granted') # "deny"]_gateVars
    BY <1>1
<1> QED
    BY <1>2, TypesStart, StepKeepsTypes, PTL DEF GateSpec, RunsOnlyWhatIsNotDenied
=============================================================================
