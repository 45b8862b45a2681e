------------------------------- MODULE Memory -------------------------------
(***************************************************************************)
(* One user's long-term memory.  At the end of a turn the capture resolves *)
(* a fact against the known topics with the model and stores it            *)
(* (plugins/memory.py, memory/resolve.py, memory/store.py); passes fold    *)
(* the captures into semantic facts (memory/consolidate.py): one that a    *)
(* turn starts when enough has piled up, and the scheduler's               *)
(* (service/memory_scheduler.py), which then merges what still names one   *)
(* subject (resolve.compact_user).  Passes take consolidation_lock and run *)
(* in threads; a capture's writes run in a thread of their own without it. *)
(*                                                                         *)
(* The topics are spellings of one subject, so they share a cluster.       *)
(* Which capture is the newest, and what has gone stale, is left open.     *)
(***************************************************************************)
EXTENDS Naturals, FiniteSets

CONSTANTS
    Topics,        \* finite set of numbers, ordered as the names are
    Texts,         \* what a fact says
    Turns,         \* turns that capture a fact at their end, each for its session
    Sweepers,      \* the scheduler's loop
    Bar,           \* ADK_CC_MEMORY_CONSOLIDATE_THRESHOLD
    EpisodicCap,   \* ADK_CC_MEMORY_EPISODIC_CAP
    MaxCaptures,   \* bound: facts captured
    MaxSweeps,     \* bound: rounds of the scheduler
    MaxKills       \* bound: the server is killed

ASSUME MemoryAssumption ==
    /\ Topics \subseteq Nat /\ IsFiniteSet(Topics) /\ Turns \cap Sweepers = {}
    /\ Bar \in Nat \ {0} /\ EpisodicCap \in Nat \ {0}
    /\ MaxCaptures \in Nat /\ MaxSweeps \in Nat /\ MaxKills \in Nat

VARIABLES
    episodic,   \* [Captures -> "none", "fresh" (draft, active), "consolidated", "archived"]
    semantic,   \* [Topics -> the semantic item, or NoItem]
    job,        \* [Jobs -> where it is and what it holds]
    overwritten,\* history variable: what corroborations wrote an older item over
    spent       \* how often each bounded event happened

memoryVars == <<episodic, semantic, job, overwritten, spent>>

Jobs == Turns \cup Sweepers
\* A capture's document is named by its topic and a hash of its text.
Captures == Topics \X Texts
NoItem == [is |-> "none", text |-> "none", past |-> {}]
Resting == [at |-> "resting", topic |-> 0, text |-> "none", item |-> NoItem, left |-> {},
            others |-> {}]

MemoryInit ==
    /\ episodic = [c \in Captures |-> "none"] /\ semantic = [t \in Topics |-> NoItem]
    /\ job = [j \in Jobs |-> Resting] /\ overwritten = {}
    /\ spent = [capture |-> 0, sweep |-> 0, kill |-> 0]

Fresh == {c \in Captures : episodic[c] = "fresh"}
Standing == {t \in Topics : semantic[t].is \in {"active", "consolidated"}}
Keeps(item) == IF item.is = "none" THEN {} ELSE {item.text} \cup item.past
GoesTo(j, at) == job' = [job EXCEPT ![j].at = at]

-----------------------------------------------------------------------------
(* The capture.                                                            *)

\* The model files the fact under a topic: a known one, or the one it proposed.
Resolve(j, t, x) ==
    /\ j \in Turns /\ job[j].at = "resting"
    /\ spent.capture < MaxCaptures /\ spent' = [spent EXCEPT !.capture = @ + 1]
    /\ \/ job' = [job EXCEPT ![j] = [Resting EXCEPT !.at = "filing", !.topic = t, !.text = x]]
       \/ \* the same value, as far as the summary that was read says
          /\ IF t \in Standing THEN semantic[t].text = x ELSE episodic[<<t, x>>] # "none"
          /\ job' = [job EXCEPT ![j] = [Resting EXCEPT !.at = "repeating", !.topic = t, !.text = x]]
    /\ UNCHANGED <<episodic, semantic, overwritten>>

AddEpisodic(j) ==
    /\ \/ job[j].at = "filing"
       \/ job[j].at = "repeating" /\ job[j].topic \notin Standing
    /\ episodic' = [episodic EXCEPT ![<<job[j].topic, job[j].text>>] = "fresh"]
    /\ GoesTo(j, "captured") /\ UNCHANGED <<semantic, overwritten, spent>>

\* corroborate_semantic reads the item and writes it back with a higher confidence.
CorroborateReads(j) ==
    /\ job[j].at = "repeating" /\ job[j].topic \in Standing
    /\ job' = [job EXCEPT ![j].at = "raising", ![j].item = semantic[job[j].topic]]
    /\ UNCHANGED <<episodic, semantic, overwritten, spent>>

CorroborateWrites(j) ==
    LET t == job[j].topic IN
    /\ job[j].at = "raising"
    /\ semantic' = [semantic EXCEPT ![t] = job[j].item]
    /\ overwritten' = overwritten \cup (Keeps(semantic[t]) \ Keeps(job[j].item))
    /\ GoesTo(j, "captured") /\ UNCHANGED <<episodic, spent>>

\* maybe_threshold_consolidate: enough has piled up on the subject.
AfterCapture(j) ==
    /\ job[j].at = "captured"
    /\ job' = [job EXCEPT ![j] = IF Cardinality(Fresh) >= Bar
                                 THEN [Resting EXCEPT !.at = "waiting"] ELSE Resting]
    /\ UNCHANGED <<episodic, semantic, overwritten, spent>>

-----------------------------------------------------------------------------
(* A pass, under consolidation_lock.                                       *)

SweepStarts(j) ==
    /\ j \in Sweepers /\ job[j].at = "resting"
    /\ spent.sweep < MaxSweeps /\ spent' = [spent EXCEPT !.sweep = @ + 1]
    /\ GoesTo(j, "waiting") /\ UNCHANGED <<episodic, semantic, overwritten>>

LockIsFree_Always == TRUE
Passing == {"merging", "shelving", "folding", "marking", "sweeping", "joining", "joined"}
LockIsFree == \A j \in Jobs : job[j].at \notin Passing

\* _canonical_map: an item that stands names the subject, else the shortest topic does.
Named == IF Standing # {} THEN Standing ELSE {c[1] : c \in Fresh}

\* The captures to fold and the items that share the subject are listed once.
PassBegins(j) ==
    /\ job[j].at = "waiting" /\ LockIsFree
    /\ \/ Named = {} /\ GoesTo(j, "sweeping")
       \/ \E t \in Named :
            /\ \A x \in Named : t <= x
            /\ job' = [job EXCEPT ![j] = [Resting EXCEPT !.at = "merging", !.topic = t,
                                               !.left = Fresh, !.others = Standing \ {t}]]
    /\ UNCHANGED <<episodic, semantic, overwritten, spent>>

\* Another item of the subject is folded into the one that stays, the newer text first.
Coalesced(item, other, newer) ==
    [is |-> "consolidated", text |-> newer, past |-> (Keeps(item) \cup Keeps(other)) \ {newer}]

MergeOther(j) ==
    /\ job[j].at = "merging"
    /\ \E o \in job[j].others, newer \in Texts :
         /\ \A x \in job[j].others : o <= x
         /\ newer \in {semantic[job[j].topic].text, semantic[o].text}
         /\ semantic' = [semantic EXCEPT ![job[j].topic] = Coalesced(@, semantic[o], newer)]
    /\ GoesTo(j, "shelving") /\ UNCHANGED <<episodic, overwritten, spent>>

ShelveOther(j) ==
    /\ job[j].at = "shelving"
    /\ \E o \in job[j].others :
         /\ \A x \in job[j].others : o <= x
         /\ semantic' = [semantic EXCEPT ![o].is = "archived"]
         /\ job' = [job EXCEPT ![j].at = "merging", ![j].others = @ \ {o}]
    /\ UNCHANGED <<episodic, overwritten, spent>>

\* The item is read, then the synthesizer works on it and on the captures.
FoldReads(j) ==
    /\ job[j].at = "merging" /\ job[j].others = {}
    /\ job' = [job EXCEPT ![j].at = IF job[j].left = {} THEN "sweeping" ELSE "folding",
                          ![j].item = semantic[job[j].topic]]
    /\ UNCHANGED <<episodic, semantic, overwritten, spent>>

\* What the new text replaces goes into the item's history.
NewItem(item, texts, new) ==
    [is |-> IF item.is = "none" THEN "active" ELSE "consolidated", text |-> new,
     past |-> (Keeps(item) \cup texts) \ {new}]

FoldWrites(j) ==
    /\ job[j].at = "folding"
    /\ \E newest \in job[j].left :
         semantic' = [semantic EXCEPT ![job[j].topic] =
                        NewItem(job[j].item, {c[2] : c \in job[j].left}, newest[2])]
    /\ GoesTo(j, "marking") /\ UNCHANGED <<episodic, overwritten, spent>>

\* One by one the captures that were folded are marked, by their names.
Mark(j) ==
    /\ job[j].at = "marking"
    /\ \E c \in job[j].left :
         /\ episodic' = [episodic EXCEPT ![c] = "consolidated"]
         /\ job' = [job EXCEPT ![j].left = @ \ {c},
                               ![j].at = IF job[j].left = {c} THEN "sweeping" ELSE "marking"]
    /\ UNCHANGED <<semantic, overwritten, spent>>

\* What is stale is archived, and of the folded captures all but the latest.  The
\* scheduler takes the lock again to compact; a turn is done.
Sweep(j) ==
    LET done == {c \in Captures : episodic[c] = "consolidated"}
        excess == Cardinality(done) - EpisodicCap IN
    /\ job[j].at = "sweeping"
    /\ \E stale \in SUBSET {t \in Topics : semantic[t].is = "active"} :
         semantic' = [t \in Topics |-> IF t \in stale THEN [semantic[t] EXCEPT !.is = "archived"]
                                       ELSE semantic[t]]
    /\ \E old \in SUBSET done :
         /\ Cardinality(old) = IF Cardinality(done) > EpisodicCap THEN excess ELSE 0
         /\ episodic' = [c \in Captures |-> IF c \in old THEN "archived" ELSE episodic[c]]
    /\ job' = [job EXCEPT ![j] = IF j \in Sweepers THEN [Resting EXCEPT !.at = "tidying"]
                                 ELSE Resting]
    /\ UNCHANGED <<overwritten, spent>>

\* compact_user: the active items are read, the model groups them and verifies each pair.
CompactReads(j) ==
    LET active == {t \in Topics : semantic[t].is = "active"} IN
    /\ job[j].at = "tidying" /\ LockIsFree
    /\ \/ job' = [job EXCEPT ![j] = Resting]
       \/ \E s \in active, others \in (SUBSET active) \ {{}} :
            /\ s \notin others
            /\ job' = [job EXCEPT ![j].at = "joining", ![j].topic = s, ![j].others = others,
                         ![j].item = [semantic[s] EXCEPT
                            !.past = @ \cup ({semantic[o].text : o \in others} \ {semantic[s].text})]]
    /\ UNCHANGED <<episodic, semantic, overwritten, spent>>

CompactShelves(j) ==
    /\ job[j].at = "joining"
    /\ \E o \in job[j].others :
         /\ semantic' = [semantic EXCEPT ![o].is = "archived"]
         /\ job' = [job EXCEPT ![j].others = @ \ {o},
                               ![j].at = IF job[j].others = {o} THEN "joined" ELSE "joining"]
    /\ UNCHANGED <<episodic, overwritten, spent>>

CompactWrites(j) ==
    /\ job[j].at = "joined"
    /\ semantic' = [semantic EXCEPT ![job[j].topic] = job[j].item]
    /\ job' = [job EXCEPT ![j] = Resting] /\ UNCHANGED <<episodic, overwritten, spent>>

-----------------------------------------------------------------------------

ServerKilled ==
    /\ spent.kill < MaxKills /\ spent' = [spent EXCEPT !.kill = @ + 1]
    /\ job' = [j \in Jobs |-> Resting] /\ UNCHANGED <<episodic, semantic, overwritten>>

MemoryNext ==
    \/ \E j \in Jobs :
         \/ \E t \in Topics, x \in Texts : Resolve(j, t, x)
         \/ AddEpisodic(j) \/ CorroborateReads(j) \/ CorroborateWrites(j) \/ AfterCapture(j)
         \/ SweepStarts(j) \/ PassBegins(j) \/ MergeOther(j)
         \/ ShelveOther(j) \/ FoldReads(j) \/ FoldWrites(j) \/ Mark(j) \/ Sweep(j)
         \/ CompactReads(j) \/ CompactShelves(j) \/ CompactWrites(j)
    \/ ServerKilled

MemorySpec == MemoryInit /\ [][MemoryNext]_memoryVars

-----------------------------------------------------------------------------

Places == {"resting", "filing", "repeating", "captured", "raising", "waiting", "tidying"}
          \cup Passing
Items == [is : {"none", "active", "consolidated", "archived"}, text : Texts \cup {"none"},
          past : SUBSET (Texts \cup {"none"})]

Holdings == [at : Places, topic : Topics \cup {0}, text : Texts \cup {"none"}, item : Items,
             left : SUBSET Captures, others : SUBSET Topics]

\* The state keeps its type: an item's history is a set of what was once its text.
MemoryTypeOK ==
    /\ episodic \in [Captures -> {"none", "fresh", "consolidated", "archived"}]
    /\ semantic \in [Topics -> Items]
    /\ job \in [Jobs -> Holdings]

\* A capture that was marked as folded, or archived after that, is not forgotten: a
\* semantic item says it or keeps it in its history, except for what an unlocked
\* corroboration overwrote with the item it had read.  Passes write back what they read
\* before the synthesizer ran, so this is the work of consolidation_lock, of the order
\* "write, then mark" and of marking the listed captures only.
FactsSurvive ==
    \A c \in Captures : episodic[c] \in {"consolidated", "archived"} =>
        c[2] \in overwritten \cup UNION {Keeps(semantic[t]) : t \in Topics}

\* A corroboration raises the item it was resolved against: "a repeat capture whose value
\* matches the existing semantic fact" (memory/store.py:219).
RaisesWhatItRepeats ==
    [][\A j \in Jobs : job[j].at = "raising" /\ CorroborateWrites(j) =>
          job[j].text = job[j].item.text]_memoryVars
=============================================================================
