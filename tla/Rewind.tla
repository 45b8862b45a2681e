------------------------------- MODULE Rewind -------------------------------
(***************************************************************************)
(* Checkpoints and rewind of one desktop session: CheckpointPlugin         *)
(* (plugins/checkpoint.py) snapshots the project before the first mutating *)
(* tool of an invocation, service/desktop_checkpoint.py keeps the shadow   *)
(* repository and the menu of checkpoints, and the restore route           *)
(* (service/desktop_routes.py) takes files and conversation back.          *)
(*                                                                         *)
(* A turn is one invocation, or several when it pauses for the user's      *)
(* answer.  An invocation changes the project at most once here: "change   *)
(* i" is what invocation i did, an edit of a tracked file or a new file,   *)
(* and a work tree is the set of changes present.  A commit is named by    *)
(* its content, as a sha is.                                               *)
(***************************************************************************)
EXTENDS Naturals, Sequences, FiniteSets, SequencesExt

CONSTANTS
    MaxInvs,          \* bound: invocations
    MaxCheckpoints,   \* MAX_CHECKPOINTS
    MaxRewinds,       \* bound: restores asked for
    MaxMishaps        \* bound: failing git commands and log writes, crashes

ASSUME RewindAssumption ==
    /\ MaxInvs \in Nat /\ MaxCheckpoints \in Nat \ {0} /\ MaxRewinds \in Nat /\ MaxMishaps \in Nat

Invs == 1 .. MaxInvs
NoInv == 0
Restores == 1 .. MaxRewinds

VARIABLES
    remote,     \* is the project on another device? then a restore suspends
    chat,       \* the session's events
    tree,       \* the work tree
    newFile,    \* changes that created a file
    tracked,    \* created files the shadow index knows
    menu,       \* adk_cc_checkpoints.json
    ids,        \* checkpoint ids handed out
    turn,       \* "idle", "running", "calling" a mutating tool, "parked"
    inv,        \* the newest invocation
    restore,    \* how far each restore is; "none" before and after
    target,     \* the checkpoint each restores
    rewinds, mishaps,
    made,       \* history variable: invocations whose tool has changed the project
    strayed     \* history variable: what happened that files and chat need not survive

rewindVars == <<remote, chat, tree, newFile, tracked, menu, ids, turn, inv, restore, target,
                rewinds, mishaps, made, strayed>>

Said(kind, i) == [kind |-> kind, inv |-> i]
Entry(id, content, i) == [id |-> id, tree |-> content, inv |-> i]
NoEntry == Entry(0, {}, NoInv)

RewindInit ==
    /\ remote \in BOOLEAN
    /\ chat = <<>> /\ tree = {} /\ newFile = {} /\ tracked = {}
    /\ menu = <<>> /\ ids = 0 /\ turn = "idle" /\ inv = 0
    /\ restore = [r \in Restores |-> "none"] /\ target = [r \in Restores |-> NoEntry]
    /\ rewinds = 0 /\ mishaps = 0
    /\ made = {} /\ strayed = {}

\* A restore of a local project holds the event loop to the end, one of a remote project
\* gives it away until its last answer is in; nothing else makes two restores wait.
Awaits(r) == remote /\ restore[r] \in {"save", "reset", "list"}
Free == \A r \in Restores : restore[r] = "none" \/ Awaits(r)
MayGoOn(r) == \A q \in Restores \ {r} : restore[q] = "none" \/ Awaits(q)
Restoring == \E r \in Restores : restore[r] # "none"

Becomes(r, step) == restore' = [restore EXCEPT ![r] = step]
Strays(reason, when) == strayed' = IF when THEN strayed \cup {reason} ELSE strayed

-----------------------------------------------------------------------------
(* snapshot: stage everything, commit what changed, list the checkpoint.   *)

Capped(s) == IF Len(s) > MaxCheckpoints THEN SubSeq(s, Len(s) - MaxCheckpoints + 1, Len(s)) ELSE s

\* _append_checkpoint.
Listed(m, i) ==
    IF i # NoInv /\ m # <<>> /\ Last(m).inv = i THEN m
    ELSE Capped(Append(m, Entry(ids + 1, tree, i)))

Staged == tracked' = tracked \cup (tree \cap newFile)

Snapshot(i) ==
    /\ Staged /\ menu' = Listed(menu, i) /\ ids' = ids + 1
    /\ UNCHANGED mishaps

\* `add -A` fails, or all of it works but the commit or the log's write; swallowed.
SnapshotFails ==
    /\ mishaps < MaxMishaps /\ mishaps' = mishaps + 1
    /\ Staged \/ UNCHANGED tracked
    /\ UNCHANGED <<menu, ids>>

-----------------------------------------------------------------------------
(* The turn.                                                               *)

StartInv(kind) ==
    /\ Free /\ inv < MaxInvs /\ inv' = inv + 1 /\ turn' = "running"
    /\ chat' = Append(chat, Said(kind, inv + 1))
    /\ UNCHANGED <<made, remote, tree, newFile, tracked, menu, ids, restore, target, rewinds, mishaps>>
    /\ Strays("running", Restoring)

AskText == turn = "idle" /\ StartInv("text")
\* The answer to ask_user_question or to a confirmation is an invocation of its own.
AnswerPause == turn = "parked" /\ StartInv("answer")

Acted(i) == \E k \in DOMAIN chat : chat[k] = Said("tool", i)

\* before_tool_callback of the first mutating tool: one attempt, then the tool.
CallTool ==
    /\ Free /\ turn = "running" /\ ~Acted(inv) /\ turn' = "calling"
    /\ chat' = Append(chat, Said("tool", inv))
    /\ Snapshot(inv) \/ SnapshotFails
    /\ UNCHANGED <<made, remote, tree, newFile, inv, restore, target, rewinds>>
    /\ Strays("running", Restoring)

ToolDone ==
    /\ Free /\ turn = "calling" /\ turn' = "running"
    /\ tree' = tree \cup {inv}
    /\ newFile' \in {newFile, newFile \cup {inv}} /\ made' = made \cup {inv}
    /\ UNCHANGED <<remote, chat, tracked, menu, ids, inv, restore, target, rewinds, mishaps>>
    /\ Strays("running", Restoring)

TurnRests ==
    /\ Free /\ turn = "running" /\ turn' \in {"idle", "parked"}
    /\ UNCHANGED <<made, remote, chat, tree, newFile, tracked, menu, ids, inv, restore, target,
                   rewinds, mishaps, strayed>>

-----------------------------------------------------------------------------
(* restore and the route around it.  Nobody asks whether a turn runs.      *)

\* The turn that invocation i belongs to began with this event.
FirstOf(i) == CHOOSE k \in DOMAIN chat :
                  chat[k].inv = i /\ \A j \in 1 .. k - 1 : chat[j].inv # i
TurnStart(i) ==
    LET texts == {k \in 1 .. FirstOf(i) : chat[k].kind = "text"}
    IN IF texts = {} THEN FirstOf(i) ELSE CHOOSE k \in texts : \A j \in texts : j <= k
Mentioned(i) == \E k \in DOMAIN chat : chat[k].inv = i
InvsOf(s) == {s[k].inv : k \in DOMAIN s}

\* The checkpoint is of a later invocation of a turn that had changed files before.
MidTurn(e) ==
    /\ e.inv # NoInv /\ Mentioned(e.inv)
    /\ \E k \in TurnStart(e.inv) .. FirstOf(e.inv) : chat[k].inv # e.inv

RestoreAsked ==
    /\ Free /\ rewinds < MaxRewinds /\ rewinds' = rewinds + 1
    /\ Becomes(rewinds', "save")
    /\ \E k \in DOMAIN menu :
          /\ target' = [target EXCEPT ![rewinds'] = menu[k]]
          /\ strayed' = strayed \cup (IF turn # "idle" THEN {"running"} ELSE {})
                                \cup (IF Restoring THEN {"overlap"} ELSE {})
                                \cup (IF MidTurn(menu[k]) THEN {"midturn"} ELSE {})
                                \cup (IF menu[k].inv = NoInv THEN {"unnamed"} ELSE {})
    /\ UNCHANGED <<made, remote, chat, tree, newFile, tracked, menu, ids, turn, inv, mishaps>>

\* What is there now is snapshotted first, so that new files are tracked and removed.
RestoreSaves(r) ==
    /\ restore[r] = "save" /\ MayGoOn(r) /\ Becomes(r, "reset")
    /\ \/ Snapshot(NoInv) /\ Strays("evicted", target[r] \notin ToSet(menu'))
       \/ SnapshotFails /\ Strays("unsaved", ~((tree \cap newFile) \subseteq tracked'))
    /\ UNCHANGED <<made, remote, chat, tree, newFile, turn, inv, target, rewinds>>

\* `reset --hard`: untracked files stay.
After(content) == content \cup ((tree \cap newFile) \ tracked)
ResetTo(content) == tree' = After(content) /\ tracked' = content \cap newFile

\* It fails, is killed at its timeout, or only its answer is lost: some files are reset.
ResetStops(content) ==
    /\ \E part \in SUBSET (tree \cup After(content)) :
          tree \cap After(content) \subseteq part /\ tree' = part
    /\ tracked' \in {tracked, content \cap newFile}
    /\ Strays("halfreset", tree' # tree)

RestoreResets(r) ==
    /\ restore[r] = "reset" /\ MayGoOn(r)
    /\ \/ Becomes(r, "list") /\ ResetTo(target[r].tree) /\ UNCHANGED <<mishaps, strayed>>
       \/ /\ mishaps < MaxMishaps /\ mishaps' = mishaps + 1
          /\ Becomes(r, "none") /\ ResetStops(target[r].tree)
    /\ UNCHANGED <<made, remote, chat, newFile, menu, ids, turn, inv, target, rewinds>>

\* The target and what came after it leave the menu; a target that the cap has pushed
\* out meanwhile is not found, and everything stays.
Before_All(m, e) == m
Before(m, e) ==
    IF \E k \in DOMAIN m : m[k].id = e.id
    THEN SubSeq(m, 1, (CHOOSE k \in DOMAIN m : m[k].id = e.id) - 1)
    ELSE m

RestoreLists(r) ==
    /\ restore[r] = "list" /\ MayGoOn(r) /\ Becomes(r, "chat")
    /\ \/ menu' = Before(menu, target[r]) /\ UNCHANGED <<mishaps, strayed>>
       \/ /\ mishaps < MaxMishaps /\ mishaps' = mishaps + 1   \* _write_log swallows it
          /\ UNCHANGED menu /\ Strays("unlisted", TRUE)
    /\ UNCHANGED <<made, remote, chat, tree, newFile, tracked, ids, turn, inv, target, rewinds>>

\* truncate_before_invocation: back to the user's text that began the turn.
KeptChat_FromInvocation(i) ==
    IF i # NoInv /\ Mentioned(i) THEN SubSeq(chat, 1, FirstOf(i)) ELSE chat
KeptChat(i) ==
    IF i # NoInv /\ Mentioned(i) THEN SubSeq(chat, 1, TurnStart(i) - 1) ELSE chat

RestoreTruncates(r) ==
    /\ restore[r] = "chat" /\ MayGoOn(r) /\ Becomes(r, "none")
    /\ \/ chat' = KeptChat(target[r].inv) /\ UNCHANGED <<mishaps, strayed>>
       \/ /\ mishaps < MaxMishaps /\ mishaps' = mishaps + 1   \* swallowed by the route
          /\ UNCHANGED chat /\ Strays("untruncated", TRUE)
    /\ UNCHANGED <<made, remote, tree, newFile, tracked, menu, ids, turn, inv, target, rewinds>>

\* The process dies; a turn or a restore under way is not resumed.
DesktopCrash ==
    /\ mishaps < MaxMishaps /\ mishaps' = mishaps + 1
    /\ turn' = "idle" /\ restore' = [r \in Restores |-> "none"]
    /\ \/ /\ UNCHANGED <<tree, tracked>>
          /\ Strays("untruncated", \E r \in Restores : restore[r] \in {"list", "chat"})
       \/ \E r \in Restores : restore[r] = "reset" /\ ResetStops(target[r].tree)
    /\ UNCHANGED <<made, remote, chat, newFile, menu, ids, inv, target, rewinds>>

RewindNext ==
    \/ AskText \/ AnswerPause \/ CallTool \/ ToolDone \/ TurnRests
    \/ RestoreAsked \/ DesktopCrash
    \/ \E r \in Restores :
          RestoreSaves(r) \/ RestoreResets(r) \/ RestoreLists(r) \/ RestoreTruncates(r)

RewindSpec == RewindInit /\ [][RewindNext]_rewindVars

-----------------------------------------------------------------------------
(* Properties.                                                             *)

AtRest == turn = "idle" /\ ~Restoring

\* After any sequence of turns and rewinds the changes in the project are exactly those
\* of the invocations that the conversation still mentions, unless one of the things
\* named in strayed has happened.
FilesMatchChat ==
    AtRest /\ strayed = {} => tree = made \cap InvsOf(chat)

\* Only a turn brings a change into the project, its own: no restore, in whatever order
\* checkpoints are chosen, brings back what an earlier restore has undone.
UndoneStaysUndone ==
    [][strayed' = {} => tree' \ tree \subseteq {inv}]_rewindVars

\* desktop_checkpoint.py:496-499: the menu does not list checkpoints of undone turns.
\* It does when the snapshot before the restore pushes the target over the cap.
MenuListsSurvivors ==
    AtRest /\ strayed \subseteq {"evicted"} => InvsOf(menu) \subseteq InvsOf(chat) \cup {NoInv}

\* desktop_routes.py:378-381: a restore takes files and conversation back together.
\* Two restores of a remote project interleave, and each takes back what it finds.
FilesAndChatTogether ==
    AtRest /\ strayed \subseteq {"overlap"} => tree = made \cap InvsOf(chat)

\* file_session_service.py:378-383: a rewind undoes the whole sequence of asking,
\* answering and acting.  The conversation goes back to the text that began the turn,
\* the files only to the checkpoint of the answer's invocation.
WholeTurnUndone ==
    AtRest /\ strayed \subseteq {"midturn"} => tree \subseteq InvsOf(chat)
=============================================================================
