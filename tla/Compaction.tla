----------------------------- MODULE Compaction -----------------------------
(***************************************************************************)
(* The history of one session and everyone who folds it into a summary:    *)
(* the precompact plugin before a run, the context guard in the middle of  *)
(* a turn, POST /api/compact beside it (plugins/precompact.py,             *)
(* plugins/context_guard.py, service/turn_routes.py) and ADK's compactor   *)
(* after it, behind the pin of context/compaction_pin.py.                  *)
(*                                                                         *)
(* An event's timestamp is its position.  Every fold starts at the first   *)
(* event, so a summary covers a prefix of the history.  Sizes count in     *)
(* units of one large text or tool result; everything else weighs nothing. *)
(***************************************************************************)
EXTENDS Naturals, Integers, Sequences, FiniteSets

CONSTANTS
    Plain, Gated, Asked,  \* the calls a model makes: run at once, held by a gate, put to the user
    MaxEvents, MaxRuns,   \* bounds
    KeepTail, ForcedTail, MidTail, MidHead, ManualHead,   \* _KEEP_TAIL and its kin
    Threshold,            \* ADK_CC_COMPACTION_TOKEN_THRESHOLD; 0 when it is unset
    PressureLine, RejectLine,
    TokensPerUnit,        \* what the model's tokenizer may count where the code estimates 1
    AppendsFail           \* may a fold fail? precompact swallows it

ASSUME CompactionAssumption ==
    /\ MaxEvents \in Nat /\ MaxRuns \in Nat
    /\ {KeepTail, ForcedTail, MidTail, MidHead, ManualHead, Threshold} \subseteq Nat
    /\ PressureLine \in Nat /\ RejectLine \in Nat
    /\ TokensPerUnit \subseteq Nat \ {0} /\ AppendsFail \in BOOLEAN

CallIds == Plain \cup Gated \cup Asked

VARIABLES
    events,      \* the session's events
    phase,       \* of the turn: "none", "before" the run, "resume" of an approved tool,
                 \* "model" about to be called, "tools"
    run,         \* the newest invocation
    open,        \* calls of the last model response that have not returned
    approved,    \* the gated call the user has just approved
    attempted,   \* has this invocation compacted in the middle?
    manual,      \* what POST /api/compact is going to fold; 0 when none is under way
    usage,       \* prompt_token_count of the newest event that has one; 0 when none has
    correction,  \* what the guard has learned that its estimate is off by, in halves
    refused,     \* history variable: was the last request to the model refused?
    left         \* history variable: did a turn after a refused one begin without folding
                 \* all that it may fold?

counted == <<usage, correction>>
compactionVars == <<events, phase, run, open, approved, attempted, manual, counted, refused, left>>

Plainly(i) == [run |-> i, calls |-> {}, real |-> {}, prose |-> 0, fat |-> 0, upto |-> 0]
Summary(n) == [Plainly(0) EXCEPT !.upto = n]

CompactionInit ==
    /\ events = <<>> /\ phase = "none" /\ run = 0 /\ open = {} /\ approved = {}
    /\ attempted = FALSE /\ manual = 0 /\ usage = 0 /\ correction = 2
    /\ refused = FALSE /\ left = FALSE

-----------------------------------------------------------------------------
(* Reading the history.                                                    *)

\* A gate's interim result and a stashed click are no answers.
CallsIn(s) == UNION {s[i].calls : i \in DOMAIN s}
AnswersIn(s) == UNION {s[i].real : i \in DOMAIN s}
PendingIds_AnyResponse(s) == CallsIn(s) \ (AnswersIn(s) \cup Gated)
PendingIds(s) == CallsIn(s) \ AnswersIn(s)

\* _clamp_head_pending.
ClampHead(s, n) ==
    LET held == {i \in DOMAIN s : i <= n /\ s[i].calls \cap PendingIds(s) # {}}
    IN IF held = {} THEN n ELSE (CHOOSE i \in held : \A j \in held : i <= j) - 1

\* What a request is built from: the summaries and what they do not cover.
Covered(s) == LET ends == {0} \cup {s[i].upto : i \in DOMAIN s}
              IN CHOOSE n \in ends : \A k \in ends : k <= n
Shown(s) == {i \in DOMAIN s : i > Covered(s)}

Prose(s) == Cardinality({i \in Shown(s) : s[i].prose = 1})
Fat(s) == Cardinality({i \in Shown(s) : s[i].fat = 1})
\* estimate_events_tokens.
Measured(s) == Prose(s) + Fat(s)

Room == Len(events) < MaxEvents
Folds(n) == events' = Append(events, Summary(n))

-----------------------------------------------------------------------------
(* The turn.  The new message is stored before before_run_callback.        *)

StartRun(e, resumes) ==
    /\ phase = "none" /\ run < MaxRuns /\ Room
    /\ run' = run + 1 /\ phase' = "before" /\ attempted' = FALSE
    /\ events' = Append(events, e) /\ approved' = resumes
    /\ UNCHANGED <<open, manual, counted, refused, left>>

UserWrites == \E big \in {0, 1} : StartRun([Plainly(run + 1) EXCEPT !.prose = big], {})

UserReplies(c) ==
    /\ c \in PendingIds(events) \cap Asked
    /\ StartRun([Plainly(run + 1) EXCEPT !.real = {c}], {})

\* The form's own call is answered; the gated call waits for its tool.
UserApproves(c) ==
    /\ c \in PendingIds(events) \cap Gated
    /\ StartRun(Plainly(run + 1), {c})

\* PrecompactPlugin.before_run_callback.  Without force the summarizer may decline.
Forced == Measured(events) >= RejectLine
HeadBefore == ClampHead(events, Len(events) - (IF Forced THEN ForcedTail ELSE KeepTail))
Due == Len(events) > 3 /\ (Forced \/ (Threshold # 0 /\ Measured(events) >= Threshold))

BeforeRun ==
    /\ phase = "before"
    /\ \/ Due /\ HeadBefore >= 1 /\ Room /\ Folds(HeadBefore)
       \/ (Due /\ HeadBefore >= 1 /\ Forced => AppendsFail) /\ UNCHANGED events
    /\ phase' = IF approved = {} THEN "model" ELSE "resume"
    /\ left' = (refused /\ Len(events) > 3 /\ ClampHead(events, Len(events) - ForcedTail) > Covered(events'))
    /\ UNCHANGED <<run, open, approved, attempted, manual, counted, refused>>

\* The approved tool runs at last.
Resume ==
    /\ phase = "resume" /\ Room
    /\ events' = Append(events, [Plainly(run) EXCEPT !.real = approved])
    /\ approved' = {} /\ phase' = "model"
    /\ UNCHANGED <<run, open, attempted, manual, counted, refused, left>>

-----------------------------------------------------------------------------
(* A model call: the guard, then the reply.                                *)

Larger(m, n) == IF m >= n THEN m ELSE n

\* What the model counted last, in the whole session, folded or not, or what this request
\* weighs by the estimate; both corrected.
Raw == Larger(usage, Measured(events))
Tokens(n) == (correction * n) \div 2
Estimate == Tokens(Raw)

\* Tool results are rewritten for this call when need be, down to nothing.  Over the reject
\* line what then decides is the request alone; with nothing to rewrite it is all as before.
TooLarge == Estimate >= RejectLine /\ (Fat(events) > 0 => Tokens(Prose(events)) >= RejectLine)

\* midturn_compact_prior, once per invocation: prior invocations only.
FirstOfRun == CHOOSE i \in DOMAIN events :
                  events[i].run = run /\ \A j \in 1 .. i - 1 : events[j].run # run
HeadMid == ClampHead(events, FirstOfRun - 1 - MidTail)

UnderPressure ==
    /\ Estimate >= PressureLine /\ Estimate < RejectLine
    /\ Tokens(Larger(usage, Prose(events))) >= PressureLine /\ ~attempted

GuardCompacts ==
    /\ phase = "model" /\ UnderPressure
    /\ attempted' = TRUE
    /\ \/ HeadMid >= MidHead /\ Room /\ Folds(HeadMid)
       \/ (HeadMid >= MidHead /\ Room => AppendsFail) /\ UNCHANGED events
    /\ UNCHANGED <<phase, run, open, approved, manual, counted, refused, left>>

\* REJECT: the turn ends with a message in place of the model's, stored like one.
Refuse ==
    /\ phase = "model" /\ TooLarge /\ Room
    /\ events' = Append(events, Plainly(run)) /\ phase' = "none" /\ refused' = TRUE
    /\ UNCHANGED <<run, open, approved, attempted, manual, counted, left>>

\* _note_usage: half of what was learned, half of what this reply shows, within 0.5 and 3.
Learned(actual) ==
    LET shown == (2 * actual) \div Raw
        ratio == IF shown < 1 THEN 1 ELSE IF shown > 6 THEN 6 ELSE shown
    IN {(correction + ratio) \div 2, (correction + ratio + 1) \div 2}

\* after_model_callback; the reply's event keeps the count, if the provider sends one.
Counts ==
    \/ UNCHANGED counted
    \/ \E sent \in {Measured(events), Prose(events)}, per \in TokensPerUnit :
          /\ sent # 0 /\ usage' = per * sent
          /\ correction' \in Learned(per * sent)

Replies == phase = "model" /\ ~TooLarge /\ ~UnderPressure /\ Counts /\ refused' = FALSE

ModelWrites ==
    /\ Replies /\ Room
    /\ \E big \in {0, 1} : events' = Append(events, [Plainly(run) EXCEPT !.prose = big])
    /\ phase' = "none"
    /\ UNCHANGED <<run, open, approved, attempted, manual, left>>

ModelCalls(cs) ==
    /\ Replies /\ Room /\ cs # {} /\ cs \cap CallsIn(events) = {}
    /\ events' = Append(events, [Plainly(run) EXCEPT !.calls = cs])
    /\ open' = cs /\ phase' = "tools"
    /\ UNCHANGED <<run, approved, attempted, manual, left>>

\* One event holds what came back: results, and the interim ones of the gates.  With a
\* gate or a question among the calls the turn is parked.
ToolsReturn ==
    /\ phase = "tools" /\ Room
    /\ \E big \in {0, 1} :
         events' = IF open \subseteq Asked THEN events
                   ELSE Append(events, [Plainly(run) EXCEPT !.real = open \cap Plain, !.fat = big])
    /\ open' = {} /\ phase' = IF open \subseteq Plain THEN "model" ELSE "none"
    /\ UNCHANGED <<run, approved, attempted, manual, counted, refused, left>>

-----------------------------------------------------------------------------
(* Beside the turns.                                                       *)

\* POST /api/compact looks whether a turn runs, reads the session and awaits the
\* summarizer; a turn may start meanwhile.
ManualStart ==
    /\ phase = "none" /\ manual = 0
    /\ ClampHead(events, Len(events) - KeepTail) >= ManualHead
    /\ manual' = ClampHead(events, Len(events) - KeepTail)
    /\ UNCHANGED <<events, phase, run, open, approved, attempted, counted, refused, left>>

ManualAppend ==
    /\ manual # 0 /\ manual' = 0 /\ Room /\ Folds(manual)
    /\ UNCHANGED <<phase, run, open, approved, attempted, counted, refused, left>>

\* ADK after a turn: it splits neither a pending call off nor a call from its answer.
SplitsPair(n) == \E c \in CallsIn(SubSeq(events, 1, n)) : c \in AnswersIn(SubSeq(events, n + 1, Len(events)))
AdkCompacts ==
    /\ phase = "none" /\ Threshold # 0 /\ Measured(events) >= Threshold /\ Room
    /\ \E n \in Covered(events) + 1 .. Len(events) - KeepTail :
         ClampHead(events, n) = n /\ ~SplitsPair(n) /\ Folds(n)
    /\ UNCHANGED <<phase, run, open, approved, attempted, manual, counted, refused, left>>

CompactionNext ==
    \/ UserWrites \/ \E c \in CallIds : UserReplies(c) \/ UserApproves(c)
    \/ BeforeRun \/ Resume \/ GuardCompacts \/ Refuse \/ ModelWrites
    \/ \E cs \in SUBSET CallIds : ModelCalls(cs)
    \/ ToolsReturn \/ ManualStart \/ ManualAppend \/ AdkCompacts

CompactionSpec == CompactionInit /\ [][CompactionNext]_compactionVars

-----------------------------------------------------------------------------
(* Properties.                                                             *)

\* A call that still waits for its tool or its user is in every request: no fold covers
\* it, so the answer that comes later finds it (#119), also when a manual compaction is
\* appended in the middle of a later turn.
ParkedCallStays ==
    \A i \in DOMAIN events : ~(events[i].calls \subseteq AnswersIn(events)) => i \in Shown(events)

\* precompact.py:393-400: "the reject-loop exit": the turn after a refused one is not
\* refused again while there is something in the history that it could have folded when it
\* began (a history of three events is left alone).  precompact measures the history, the
\* guard what the model counted last, which no fold makes smaller, times its correction.
RejectRecovers == phase = "model" /\ TooLarge => ~left

\* The answers a request shows have their calls in it (docs/02-architecture.md:400 says so
\* of ADK's own split).  precompact.py keeps a tail of fixed length, and a question that
\* is answered does not count as pending any more when its answer's run begins.
AnswersKeepTheirCalls ==
    \A i \in Shown(events), c \in CallIds :
        c \in events[i].real => \E j \in Shown(events) : c \in events[j].calls
=============================================================================
