----------------------------- MODULE Permission -----------------------------
(***************************************************************************)
(* One gated tool call: PermissionPlugin.before_tool_callback              *)
(* (plugins/permissions.py) with its skill-script gate, its scope gate and *)
(* decide() of permissions/engine.py.  The callback runs when the model    *)
(* makes the call and, if it paused, again with the user's answer; in      *)
(* between the mode may be switched and other calls may leave grants.      *)
(*                                                                         *)
(* What the classifiers and rule matchers say of the call is data: every   *)
(* combination they can return is an initial state.                        *)
(***************************************************************************)
EXTENDS Naturals

Modes == {"default", "plan", "acceptEdits", "bypassPermissions", "dontAsk"}

\* "script" is ADK's run_skill_script, which is no AdkCcTool; runs names a skill script
\* inside a run_bash command; planOk is is_read_only_command.
GatedCalls ==
    {c \in [tool: {"read", "edit", "bash", "script"},
            tier: {"read_only", "mutating", "dangerous", "catastrophic"},
            planOk: BOOLEAN, protected: {"no", "ask", "deny"}, out: BOOLEAN, runs: BOOLEAN] :
        /\ c.planOk => c.tier = "read_only"
        /\ c.tool # "bash" => c.tier = "mutating" /\ ~c.runs
        /\ c.tool = "script" => c.protected = "no" /\ ~c.out}

VARIABLES
    gated,     \* the call
    seat,      \* [desktop, isolated, explicit, subagent]: where it is made
    mode,      \* state["permission_mode"], or the default one
    rules,     \* [deny, ask, allow, script]: is there a rule that matches?
    granted,   \* is the call's target in a granted directory?
    at,        \* "made", "paused", "answered", "ran", "refused"
    question,  \* the prompt that is shown
    answer     \* the choice; "none" until there is one

gateVars == <<gated, seat, mode, rules, granted, at, question, answer>>

\* An isolated backend is never a desktop's.
Seats == {s \in [desktop: BOOLEAN, isolated: BOOLEAN, explicit: BOOLEAN, subagent: BOOLEAN] :
             ~(s.desktop /\ s.isolated)}

GateInit ==
    /\ gated \in GatedCalls /\ seat \in Seats /\ mode \in Modes
    /\ rules \in [deny: BOOLEAN, ask: BOOLEAN, allow: BOOLEAN, script: BOOLEAN]
    /\ granted = FALSE /\ at = "made" /\ question = "none" /\ answer = "none"

Relaxed == seat.isolated /\ ~seat.explicit
InScope(g) == ~gated.out \/ g

-----------------------------------------------------------------------------
(* decide().                                                               *)

IsBash == gated.tool = "bash"
ReadOnlyTool == gated.tool = "read"
Destructive == gated.tool \in {"edit", "bash"}

AskUnlessDontAsk(m) == IF m = "dontAsk" THEN "deny" ELSE "ask"

EffectiveMode(m) == IF Relaxed /\ m \in {"default", "acceptEdits"} THEN "bypassPermissions" ELSE m

\* The steps 1 to 1d, which no mode overrides; "next" when they do not decide.
Floor(r) ==
    IF \/ r.deny \/ gated.protected = "deny"
       \/ IsBash /\ gated.tier = "catastrophic" /\ ~r.allow
    THEN "deny"
    ELSE IF IsBash /\ gated.tier = "read_only" /\ ~r.ask /\ gated.protected = "no"
    THEN "allow" ELSE "next"

\* 1e and 1f: asked even under bypassPermissions.
Unsafe(r, g) ==
    IsBash /\ ~r.allow /\ (gated.tier = "dangerous"
                           \/ (gated.tier = "mutating" /\ seat.desktop /\ ~InScope(g)))

\* 2c, 3 and 4.
ByRules(m, r) ==
    IF \/ gated.protected = "ask" \/ (r.ask /\ ~r.allow)
       \/ Destructive /\ ~r.allow /\ m # "acceptEdits"
    THEN AskUnlessDontAsk(m) ELSE "allow"

Decide_DestructiveFirst(m, r, g) ==
    LET em == EffectiveMode(m) IN
    IF Floor(r) # "next" THEN Floor(r)
    ELSE IF em = "plan" /\ ~ReadOnlyTool THEN IF IsBash /\ gated.planOk THEN "allow" ELSE "deny"
    ELSE IF Unsafe(r, g) THEN AskUnlessDontAsk(em)
    ELSE IF em = "bypassPermissions" /\ (r.allow \/ ~Destructive) THEN "allow"
    ELSE ByRules(em, r)

Decide(m, r, g) ==
    LET em == EffectiveMode(m) IN
    IF Floor(r) # "next" THEN Floor(r)
    ELSE IF em = "plan" /\ ~ReadOnlyTool THEN IF IsBash /\ gated.planOk THEN "allow" ELSE "deny"
    ELSE IF Unsafe(r, g) THEN AskUnlessDontAsk(em)
    ELSE IF em = "bypassPermissions" THEN "allow"
    ELSE ByRules(em, r)

-----------------------------------------------------------------------------
(* The callback.  FirstAsk: there is no tool_confirmation yet.             *)

FirstAsk == at = "made"
Approved == answer \in {"allow_once", "allow_always", "confirmed"}

Proceeds == at' = "ran" /\ UNCHANGED question
Refuses == at' = "refused" /\ UNCHANGED question
Pauses(q) == at' = "paused" /\ question' = q
\* A sub-agent has nobody to ask.
AsksUser(q) == IF seat.subagent THEN Refuses ELSE Pauses(q)

ScriptGated ==
    ~Relaxed /\ (gated.tool = "script" \/ (IsBash /\ gated.runs /\ ~gated.planOk))
ScriptPassed == rules.script \/ Approved

\* The rules after "Allow always": one key for the script, one for the command.
RulesAfter ==
    IF answer # "allow_always" THEN rules
    ELSE [rules EXCEPT
             !.script = @ \/ ScriptGated,
             !.allow = @ \/ (gated.tool # "script" /\ Decide(mode, rules, granted) = "ask")]

ByScriptGate ==
    /\ ScriptGated /\ ~ScriptPassed
    /\ IF FirstAsk THEN AsksUser("script") ELSE Refuses
    /\ UNCHANGED <<rules, granted>>

\* Not an AdkCcTool: nothing else is looked at.
ByScriptTool ==
    /\ gated.tool = "script" /\ (~ScriptGated \/ ScriptPassed)
    /\ Proceeds /\ rules' = RulesAfter /\ UNCHANGED granted

ScopeGated == seat.desktop /\ gated.tool \in {"read", "edit"}
ScopeAsks ==
    /\ ScopeGated /\ FirstAsk /\ ~InScope(granted) /\ Decide(mode, rules, granted) # "deny"
ScopeAnswered == ScopeGated /\ answer \in {"grant_folder", "grant_once", "grant_deny"}

\* The answer stands for any other question, but not for a denial.
ByScopeGate_TrustsGrant ==
    \/ ScopeAsks /\ AsksUser("scope") /\ UNCHANGED <<rules, granted>>
    \/ /\ ScopeAnswered /\ answer # "grant_deny" /\ Proceeds
       /\ granted' = TRUE /\ UNCHANGED rules
    \/ ScopeAnswered /\ answer = "grant_deny" /\ Refuses /\ UNCHANGED <<rules, granted>>

ByScopeGate ==
    \/ ScopeAsks /\ AsksUser("scope") /\ UNCHANGED <<rules, granted>>
    \/ /\ ScopeAnswered /\ answer # "grant_deny"
       /\ granted' = TRUE
       /\ rules' = [rules EXCEPT !.allow = @ \/ (answer = "grant_folder" /\ gated.tool = "edit")]
       /\ IF Decide(mode, rules', TRUE) = "deny" THEN Refuses ELSE Proceeds
    \/ ScopeAnswered /\ answer = "grant_deny" /\ Refuses /\ UNCHANGED <<rules, granted>>

PastTheGates ==
    /\ gated.tool # "script" /\ (ScriptGated => ScriptPassed) /\ ~ScopeAsks /\ ~ScopeAnswered

ByDecision ==
    /\ PastTheGates
    /\ LET d == Decide(mode, rules, granted) IN
       \/ d = "allow" /\ Proceeds
       \/ d = "deny" /\ Refuses
       \/ d = "ask" /\ FirstAsk /\ AsksUser("decision")
       \/ d = "ask" /\ ~FirstAsk /\ (IF Approved THEN Proceeds ELSE Refuses)
    /\ rules' = RulesAfter /\ UNCHANGED granted

BeforeTool ==
    /\ at \in {"made", "answered"}
    /\ ByScriptGate \/ ByScriptTool \/ ByScopeGate \/ ByDecision
    /\ UNCHANGED <<gated, seat, mode, answer>>

-----------------------------------------------------------------------------
(* While it is paused.                                                     *)

AnswersTo(q) == IF q = "scope" THEN {"grant_folder", "grant_once", "grant_deny"}
                ELSE {"allow_once", "allow_always", "confirmed", "deny"}

UserAnswers ==
    /\ at = "paused" /\ at' = "answered" /\ answer' \in AnswersTo(question)
    /\ UNCHANGED <<gated, seat, mode, rules, granted, question>>

\* The user switches the mode: from then on it is an explicit one.
SwitchMode ==
    /\ at = "paused" /\ mode' \in Modes \ {mode} /\ seat' = [seat EXCEPT !.explicit = TRUE]
    /\ UNCHANGED <<gated, rules, granted, at, question, answer>>

\* Another call's prompt is answered "always" or with a folder.
GrantMeanwhile ==
    /\ at = "paused"
    /\ \/ rules' = [rules EXCEPT !.allow = TRUE] /\ UNCHANGED granted
       \/ rules' = [rules EXCEPT !.script = TRUE] /\ UNCHANGED granted
       \/ granted' = TRUE /\ UNCHANGED rules
    /\ UNCHANGED <<gated, seat, mode, at, question, answer>>

GateNext == BeforeTool \/ UserAnswers \/ SwitchMode \/ GrantMeanwhile

GateSpec == GateInit /\ [][GateNext]_gateVars

-----------------------------------------------------------------------------
(* Properties.                                                             *)

\* Whatever was answered, and whatever the mode was when it was asked: a call that runs
\* is not one that the rules (with what the answer granted), the floor or the mode
\* forbid at that moment.
RunsOnlyWhatIsNotDenied ==
    [][at' = "ran" /\ at # "ran" /\ gated.tool # "script"
          => Decide(mode, rules', granted') # "deny"]_gateVars

\* modes.py: dontAsk is the strictest mode and bypassPermissions skips what the others
\* do: whenever the callback is about to decide, going from one mode to the next never
\* turns the answer stricter, nor does an allow rule, whatever the command, its paths and
\* the rules are.
Rank(d) == CASE d = "deny" -> 0 [] d = "ask" -> 1 [] d = "allow" -> 2
ModesAreOrdered ==
    at \in {"made", "answered"} =>
        LET d(m, allow) == Rank(Decide(m, [rules EXCEPT !.allow = allow], granted)) IN
        /\ \A a \in BOOLEAN : d("dontAsk", a) <= d("default", a)
                              /\ d("default", a) <= d("acceptEdits", a)
                              /\ d("acceptEdits", a) <= d("bypassPermissions", a)
        /\ \A m \in Modes : d(m, FALSE) <= d(m, TRUE)

\* permissions.py:363-364: after the skill-script gate the danger check still applies.
\* It does, but it takes the answer to the script's question as its own: the command is
\* never shown to be dangerous.
DangerWasAsked ==
    [][at' = "ran" /\ at # "ran" /\ gated.tier = "dangerous" /\ ~rules.allow
          => question = "decision"]_gateVars
=============================================================================
