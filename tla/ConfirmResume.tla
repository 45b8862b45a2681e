---------------------------- MODULE ConfirmResume ----------------------------
(***************************************************************************)
(* Answering parked tool calls: the rounds of TurnBroker._drive            *)
(* (service/turns.py) together with the deferred-batch confirmation plugin *)
(* (plugins/confirmation_form_ui.py), on the event history of ONE session. *)
(*                                                                         *)
(* The model may gate several tool calls at once; each shows the user a    *)
(* form ("wrap") and the user answers them one request at a time.  An      *)
(* answer is stashed until every open wrap has one, then all are bundled   *)
(* into one event and the gated tools run in one pass.  The broker decides *)
(* after each round whether the run is parked, owed a reply, or finished.  *)
(* Turns follow each other (TurnBroker shows that only one runs).          *)
(***************************************************************************)
EXTENDS Integers, Sequences, FiniteSets, SequencesExt

CONSTANTS
    Wraps,         \* ids of gated tool calls
    Questions,     \* ids of ask_user_question calls
    MaxContinues,  \* _MAX_CONTINUES
    MaxEvents,     \* bound: events of the session
    MaxTurns,      \* bound: turns of the session
    EarlyFailure   \* may a run raise before it has stored the user's message?

ASSUME ConfirmResumeAssumption ==
    /\ Wraps \cap Questions = {}
    /\ MaxContinues \in Nat /\ MaxEvents \in Nat /\ MaxTurns \in Nat
    /\ EarlyFailure \in BOOLEAN

AllowDeny == {"allow", "deny"}
Kinds == {"text", "reply", "wraps", "question", "raw", "stash", "bundle", "answer",
          "result", "handback", "error", "continue"}
UserKinds == {"text", "raw", "stash", "bundle", "answer", "continue"}

VARIABLES
    history,   \* the session's events
    phase,     \* where the running turn is; "idle" when none runs
    msg,       \* the message of the running or last turn
    status,    \* how the last turn ended; "running" while it runs
    out,       \* Turn.model_events > 0
    fail,      \* the previous turn's message, when this turn may prune it
    round,     \* _drive's round_
    sawAny, dangling, sawError,   \* _drive's locals of a round
    turns,     \* turns started
    ran,       \* history variable: how often each gated tool ran, by choice
    vote,      \* history variable: the last answer to each wrap that the user was
               \* not told had failed
    broken     \* history variable: wraps whose pass raised before its result was stored

vars == <<history, phase, msg, status, out, fail, round, sawAny, dangling, sawError,
          turns, ran, vote, broken>>

NoVotes == [w \in {} |-> "deny"]
Event(kind, ids, votes) == [kind |-> kind, ids |-> ids, votes |-> votes]
Plain(kind) == Event(kind, {}, NoVotes)
NoMsg == Plain("text")

Init ==
    /\ history = <<>> /\ phase = "idle" /\ msg = NoMsg /\ status = "none"
    /\ out = FALSE /\ fail = <<>> /\ round = 0
    /\ sawAny = FALSE /\ dangling = FALSE /\ sawError = FALSE
    /\ turns = 0
    /\ ran = [w \in Wraps |-> <<>>]
    /\ vote = [w \in Wraps |-> "none"]
    /\ broken = {}

-----------------------------------------------------------------------------
(* What the plugin and the broker read off the history.                    *)

IdsOf(h, kind) == UNION {h[i].ids : i \in {j \in DOMAIN h : h[j].kind = kind}}
VotedIn(h, kind) == UNION {DOMAIN h[i].votes : i \in {j \in DOMAIN h : h[j].kind = kind}}

Outstanding(h) == IdsOf(h, "wraps")
Resolved_Forgets(h) == {}
Resolved(h) == VotedIn(h, "bundle")
Unresolved(h) == Outstanding(h) \ Resolved(h)

\* _stashed_pending_responses: the latest stash of each wrap.
Stashed(h) ==
    [w \in VotedIn(h, "stash") |->
        LET at == CHOOSE i \in DOMAIN h :
                    /\ h[i].kind = "stash" /\ w \in DOMAIN h[i].votes
                    /\ \A j \in DOMAIN h :
                         j > i => ~(h[j].kind = "stash" /\ w \in DOMAIN h[j].votes)
        IN h[at].votes[w]]

Answers_ById(e) ==
    IF e.kind \in {"answer", "result", "raw"} THEN e.ids ELSE DOMAIN e.votes

\* _answered_ids: a stash or an unreadable submission answers nothing.
Answers(e) ==
    CASE e.kind = "bundle" -> DOMAIN e.votes
      [] e.kind \in {"answer", "result"} -> e.ids
      [] OTHER -> {}

\* Long-running calls the history still waits for.
ParksOn(e) == IF e.kind \in {"wraps", "question"} THEN e.ids ELSE {}
Pending(h) ==
    {x \in Wraps \cup Questions :
        \E i \in DOMAIN h : /\ x \in ParksOn(h[i])
                            /\ \A j \in DOMAIN h : j >= i => x \notin Answers(h[j])}

\* The last answer was not followed by text of the model.
AnsweredLast(h) ==
    \E i \in DOMAIN h : /\ Answers(h[i]) # {}
                        /\ \A j \in DOMAIN h : j > i => h[j].kind # "reply"

\* _answer_needs_reply.
NeedsReply(h) == AnsweredLast(h) /\ Pending(h) = {}

-----------------------------------------------------------------------------
(* The user's requests: each starts a turn on the idle session.            *)

StartTurn(m, prune) ==
    /\ turns < MaxTurns /\ turns' = turns + 1
    /\ msg' = m /\ status' = "running" /\ out' = FALSE
    /\ fail' = prune
    /\ round' = 0 /\ sawAny' = FALSE /\ dangling' = FALSE /\ sawError' = FALSE
    /\ phase' = "start"
    /\ UNCHANGED <<history, ran, vote, broken>>

Orphan_AnyQuietTurn == IF turns > 0 /\ ~out THEN <<msg>> ELSE <<>>

\* start(): a turn that failed before any model event left its message behind.
Orphan == IF status = "error" /\ ~out THEN <<msg>> ELSE <<>>

Say == phase = "idle" /\ StartTurn(Plain("text"), Orphan)

\* Forms are submitted, one or several in a message: for wraps the history
\* shows, resolved ones included.
Submit ==
    /\ phase = "idle"
    /\ \E ws \in (SUBSET Outstanding(history)) \ {{}} : \E votes \in [ws -> AllowDeny] :
          StartTurn(Event("submit", {}, votes), Orphan)

\* A submission no choice can be read from keeps the form's name.
SubmitGarbled ==
    /\ phase = "idle"
    /\ \E w \in Outstanding(history) : StartTurn(Event("raw", {w}, NoVotes), Orphan)

AnswerQuestion ==
    /\ phase = "idle"
    /\ \E q \in Questions \cap Pending(history) :
          StartTurn(Event("answer", {q}, NoVotes), Orphan)

\* POST /api/turns/retry-last.
Retry ==
    /\ phase = "idle" /\ status = "error"
    /\ StartTurn(msg, Orphan)

-----------------------------------------------------------------------------
(* A turn: prune, store the message, run rounds.                           *)

\* The text parts of a message or an event: only plain texts have any.
TextOf(e) == CASE e.kind = "text" -> "text" [] e.kind = "continue" -> "continue" [] OTHER -> "none"

\* _prune_orphan: the failed turn's message is deleted if it is the last event.  Forms
\* and bundles have no text, so any of them counts as the message of any other.
Pruned(h) ==
    IF /\ fail # <<>> /\ h # <<>>
       /\ Last(h).kind \in UserKinds
       /\ TextOf(Last(h)) = TextOf(fail[1])
    THEN SubSeq(h, 1, Len(h) - 1)
    ELSE h

Received_OldestWins(h, m) ==
    LET open == Unresolved(h)
        kept == VotedIn(h, "stash") \cap open
        stash == Stashed(h)
    IN
    IF m.kind # "submit" THEN m
    ELSE IF open = {} \/ ~(open \subseteq DOMAIN m.votes \cup kept)
    THEN Event("stash", {}, m.votes)
    ELSE Event("bundle", {}, [w \in (DOMAIN m.votes \cap open) \cup kept |->
                                IF w \in kept THEN stash[w] ELSE m.votes[w]])

\* on_user_message_callback: stash the submission, or bundle the whole batch.
Received(h, m) ==
    LET open == Unresolved(h)
        fresh == DOMAIN m.votes \cap open
        kept == VotedIn(h, "stash") \cap open
        stash == Stashed(h)
    IN
    IF m.kind # "submit" THEN m
    ELSE IF open = {} \/ ~(open \subseteq fresh \cup kept)
    THEN Event("stash", {}, m.votes)
    ELSE Event("bundle", {}, [w \in fresh \cup kept |->
                                IF w \in fresh THEN m.votes[w] ELSE stash[w]])
Store ==
    LET h == Pruned(history)
        e == Received(h, msg)
    IN
    /\ phase = "start" /\ Len(h) < MaxEvents
    /\ history' = Append(h, e)
    /\ vote' = [w \in Wraps |-> IF msg.kind = "submit" /\ w \in DOMAIN msg.votes \cap Unresolved(h)
                                THEN msg.votes[w] ELSE vote[w]]
    /\ phase' = IF e.kind = "bundle" THEN "tools"
                ELSE IF e.kind = "answer" THEN "resumed" ELSE "model"
    /\ UNCHANGED <<msg, status, out, fail, round, sawAny, dangling, sawError, turns, ran, broken>>

Emit(e) ==
    /\ Len(history) < MaxEvents
    /\ history' = Append(history, e)
    /\ sawAny' = TRUE /\ out' = TRUE

\* ADK's resume processor runs every tool the bundle answers in one pass.
RunTools ==
    LET votes == Last(history).votes IN
    /\ phase = "tools"
    /\ Emit(Event("result", DOMAIN votes, NoVotes))
    /\ ran' = [w \in Wraps |-> IF w \in DOMAIN votes THEN Append(ran[w], votes[w]) ELSE ran[w]]
    /\ phase' = "model"
    /\ UNCHANGED <<msg, status, fail, round, dangling, sawError, turns, vote, broken>>

\* A tool of the pass raises, or the result cannot be stored: some tools have run, the
\* bundle stays the last event, and the turn has shown nothing.
ToolRaises ==
    LET votes == Last(history).votes IN
    /\ phase = "tools"
    /\ \E done \in SUBSET DOMAIN votes :
          ran' = [w \in Wraps |-> IF w \in done THEN Append(ran[w], votes[w]) ELSE ran[w]]
    /\ broken' = broken \cup DOMAIN votes
    /\ vote' = [w \in Wraps |-> IF w \in DOMAIN msg.votes THEN "failed" ELSE vote[w]]
    /\ status' = "error" /\ phase' = "idle"
    /\ UNCHANGED <<history, msg, out, fail, round, sawAny, dangling, sawError, turns>>

\* An answered long-running tool resumes its invocation, which ends at once or
\* goes back to the model.
ResumeSilently ==
    /\ phase = "resumed" /\ phase' = "roundEnd"
    /\ UNCHANGED <<history, msg, status, out, fail, round, sawAny, dangling, sawError, turns, ran, vote, broken>>
ResumeToModel ==
    /\ phase = "resumed" /\ phase' = "model"
    /\ UNCHANGED <<history, msg, status, out, fail, round, sawAny, dangling, sawError, turns, ran, vote, broken>>

\* before_model_callback answers for the model while a batch is open.
Silenced == Unresolved(history) # {}

SkipModel ==
    /\ phase = "model" /\ Silenced
    /\ phase' = "roundEnd"
    /\ UNCHANGED <<history, msg, status, out, fail, round, sawAny, dangling, sawError, turns, ran, vote, broken>>

\* A model step: it replies, gates tool calls, asks, hands back, or fails.
ModelReplies ==
    /\ phase = "model" /\ ~Silenced
    /\ Emit(Plain("reply"))
    /\ dangling' = FALSE /\ sawError' = FALSE /\ phase' = "roundEnd"
    /\ UNCHANGED <<msg, status, fail, round, turns, ran, vote, broken>>

ModelGates ==
    /\ phase = "model" /\ ~Silenced
    /\ \E ws \in SUBSET (Wraps \ Outstanding(history)) :
          ws # {} /\ Emit(Event("wraps", ws, NoVotes))
    /\ phase' = "roundEnd"
    /\ UNCHANGED <<msg, status, fail, round, dangling, sawError, turns, ran, vote, broken>>

ModelAsks ==
    /\ phase = "model" /\ ~Silenced
    /\ \E q \in Questions \ IdsOf(history, "question") : Emit(Event("question", {q}, NoVotes))
    /\ phase' = "roundEnd"
    /\ UNCHANGED <<msg, status, fail, round, dangling, sawError, turns, ran, vote, broken>>

\* A specialist ends its work: its marker dangles until the model speaks.  The callback
\* looks for parked calls of its own invocation, which a round that still runs has none
\* of.  A fresh invocation goes back to the coordinator's model, a resumed one may end.
\* (A second marker behind the first would change nothing that anyone reads.)
HandsBack ==
    /\ phase = "model" /\ ~dangling
    /\ Emit(Plain("handback"))
    /\ dangling' = TRUE /\ phase' \in {"model", "roundEnd"}
    /\ UNCHANGED <<msg, status, fail, round, sawError, turns, ran, vote, broken>>

ModelErrs ==
    /\ phase = "model" /\ ~Silenced
    /\ Emit(Plain("error"))
    /\ sawError' = TRUE /\ phase' = "roundEnd"
    /\ UNCHANGED <<msg, status, fail, round, dangling, turns, ran, vote, broken>>

\* An exception: from the session service or the runner before the message is
\* stored, or from the model call.
Raise ==
    /\ \/ phase \in {"resumed", "model"}
       \/ phase = "start" /\ EarlyFailure
    /\ status' = "error" /\ phase' = "idle"
    /\ vote' = [w \in Wraps |-> IF phase # "start" /\ ~out /\ w \in DOMAIN msg.votes
                                THEN "failed" ELSE vote[w]]
    /\ UNCHANGED <<history, msg, out, fail, round, sawAny, dangling, sawError, turns, ran, broken>>

-----------------------------------------------------------------------------
(* The end of a round in _drive.                                           *)

\* A dangling handback, or a round without any event while a reply is owed.
WantsMore == dangling \/ (~sawAny /\ NeedsReply(history))

EndTurn(s) ==
    /\ status' = s /\ phase' = "idle"
    /\ UNCHANGED <<history, msg, out, fail, round, sawAny, dangling, sawError, turns, ran, vote, broken>>

\* An error event the model never spoke past ends the turn without a continue.
EndInError == phase = "roundEnd" /\ sawError /\ EndTurn("error")

EndDone ==
    /\ phase = "roundEnd" /\ ~sawError
    /\ ~WantsMore \/ round = MaxContinues
    /\ EndTurn("done")

Continue_Unbounded ==
    /\ phase = "roundEnd" /\ ~sawError /\ WantsMore
    /\ Len(history) < MaxEvents
    /\ round' = round + 1
    /\ history' = Append(history, Plain("continue"))
    /\ sawAny' = FALSE /\ dangling' = FALSE /\ sawError' = FALSE
    /\ phase' = "model"
    /\ UNCHANGED <<msg, status, out, fail, turns, ran, vote, broken>>

\* The next round's message is the synthetic "Continue.".
Continue ==
    /\ phase = "roundEnd" /\ ~sawError /\ WantsMore
    /\ round < MaxContinues /\ Len(history) < MaxEvents
    /\ round' = round + 1
    /\ history' = Append(history, Plain("continue"))
    /\ sawAny' = FALSE /\ dangling' = FALSE /\ sawError' = FALSE
    /\ phase' = "model"
    /\ UNCHANGED <<msg, status, out, fail, turns, ran, vote, broken>>

User == Say \/ Submit \/ SubmitGarbled \/ AnswerQuestion \/ Retry

Run ==
    \/ Store \/ RunTools \/ ToolRaises \/ ResumeSilently \/ ResumeToModel \/ SkipModel
    \/ ModelReplies \/ ModelGates \/ ModelAsks \/ HandsBack \/ ModelErrs \/ Raise
    \/ EndInError \/ EndDone \/ Continue

Next == User \/ Run

Spec == Init /\ [][Next]_vars
FairSpec == Spec /\ WF_vars(Run)

-----------------------------------------------------------------------------
(* Properties.                                                             *)

\* Every variable keeps its type.
TypeOK ==
    /\ \A i \in DOMAIN history :
          history[i].kind \in Kinds /\ history[i].ids \subseteq Wraps \cup Questions
          /\ DOMAIN history[i].votes \subseteq Wraps
    /\ phase \in {"idle", "start", "tools", "resumed", "model", "roundEnd"}
    /\ status \in {"none", "running", "done", "error"}
    /\ out \in BOOLEAN /\ sawAny \in BOOLEAN /\ dangling \in BOOLEAN /\ sawError \in BOOLEAN
    /\ Len(fail) <= 1
    /\ round \in 0..MaxContinues
    /\ vote \in [Wraps -> AllowDeny \cup {"none", "failed"}]
    /\ broken \subseteq Wraps

\* What answers a form and what the broker takes for an answer agree: the "Continue."
\* of a round that stored nothing never goes to a run that waits for the user, after
\* whatever mixture of stashes, bundles, unreadable forms and answers.
SilentRoundIsOwed ==
    [][phase = "roundEnd" /\ phase' = "model" /\ ~dangling =>
          /\ Unresolved(history) = {}
          /\ IdsOf(history, "question") \subseteq IdsOf(history, "answer")]_vars

\* The broker never nudges a run that waits for the user -- as _answer_needs_reply says.
\* A handback marker followed by a parked call still dangles (MCConfirmNudge).
NeverNudgesParked ==
    [][phase = "roundEnd" /\ phase' = "model" => Pending(history) = {}]_vars

\* A gated tool runs at most once, however often its form is submitted and whatever is
\* retried, unless a pass over it raised before its result was stored.
RunsOnce == \A w \in Wraps : Len(ran[w]) <= 1 \/ w \in broken

\* A form a bundle has resolved stays resolved -- as the prune's own guards promise.
\* The prune takes the bundle of a pass that raised, and its tools run again
\* (MCConfirmRerun).
ResolvedStays == [][Resolved(history) \subseteq Resolved(history')]_vars

\* A gated tool runs with the last choice the user submitted for it while its
\* batch was open -- an earlier, stashed choice never wins over a later one.
RunsAsVoted ==
    [][\A w \in Wraps : ran'[w] # ran[w] =>
          vote[w] \in {Last(ran'[w]), "failed"}]_vars

\* An answer the user gave to an open form is not forgotten: it stays in the
\* history (stashed) until its batch is resolved.
VotesSurvive ==
    phase = "idle" =>
        \A w \in Unresolved(history) :
            vote[w] \in AllowDeny => w \in VotedIn(history, "stash")

\* Every turn ends.
TurnsEnd == phase # "idle" ~> phase = "idle"

=============================================================================
