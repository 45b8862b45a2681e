---------------------------- MODULE MemoryProofs ----------------------------
(***************************************************************************)
(* A folded capture is never forgotten, for any number of turns, topics    *)
(* and texts.                                                              *)
(*                                                                         *)
(* The argument: no step makes an item say less, except that what it no    *)
(* longer says was overwritten by a corroboration (Grows).  The steps that *)
(* write back an item they read earlier are the danger; for them the       *)
(* invariant says that the copy still covers the item (CopyCovers: one     *)
(* pass holds the lock, so only a corroboration can come between) and that *)
(* what a corroboration holds is still covered (RaiseCovered).             *)
(***************************************************************************)
EXTENDS Memory, TLAPS

Everything == overwritten \cup UNION {Keeps(semantic[t]) : t \in Topics}

OnePass == \A j, k \in Jobs : job[j].at \in Passing /\ job[k].at \in Passing => j = k

RaiseCovered(j) ==
    job[j].at = "raising" =>
        /\ job[j].topic \in Topics
        /\ Keeps(job[j].item) \subseteq Keeps(semantic[job[j].topic]) \cup overwritten

CopyCovers(j) ==
    job[j].at \in {"folding", "joining", "joined"} =>
        /\ job[j].topic \in Topics
        /\ Keeps(semantic[job[j].topic]) \subseteq Keeps(job[j].item) \cup overwritten

Placed(j) ==
    /\ job[j].at \in {"filing", "repeating"} => job[j].topic \in Topics /\ job[j].text \in Texts
    /\ job[j].at \in {"merging", "shelving"} => job[j].topic \in Topics
    /\ job[j].at = "joining" => job[j].topic \notin job[j].others

MarksFolded(j) == job[j].at = "marking" => \A c \in job[j].left : c[2] \in Everything

JobOK(j) == RaiseCovered(j) /\ CopyCovers(j) /\ Placed(j) /\ MarksFolded(j)

MemoryInv == MemoryTypeOK /\ OnePass /\ (\A j \in Jobs : JobOK(j)) /\ FactsSurvive

Grows ==
    /\ overwritten \subseteq overwritten'
    /\ \A t \in Topics : Keeps(semantic[t]) \subseteq Keeps(semantic[t])' \cup overwritten'

\* What is said anywhere stays said somewhere, or was overwritten.
LEMMA EverythingGrows ==
    ASSUME Grows
    PROVE  Everything \subseteq Everything'
  BY DEF Grows, Everything

\* A step of one job that lets every item grow keeps the invariant, if the job's own part
\* of it holds afterwards, and no copy that another job holds falls behind.
LEMMA OneJobMoves ==
    ASSUME MemoryInv, NEW j \in Jobs, MemoryTypeOK', Grows,
           \A k \in Jobs : k # j => job'[k] = job[k],
           job'[j].at \in Passing => job[j].at \in Passing \/ LockIsFree,
           \/ job[j].at \in Passing
           \/ \A t \in Topics : Keeps(semantic[t])' \subseteq Keeps(semantic[t]) \cup overwritten',
           JobOK(j)', FactsSurvive'
    PROVE  MemoryInv'
  <1>1. OnePass'
    BY DEF MemoryInv, OnePass, LockIsFree
  <1>2. ASSUME NEW k \in Jobs, k # j PROVE JobOK(k)'
    <2>1. job'[k] = job[k] /\ JobOK(k)
      BY <1>2 DEF MemoryInv
    <2>2. Placed(k)'
      BY <2>1 DEF JobOK, Placed
    <2>3. MarksFolded(k)'
      BY <2>1, EverythingGrows DEF JobOK, MarksFolded
    <2>4. RaiseCovered(k)'
      BY <2>1 DEF JobOK, RaiseCovered, Grows
    <2>5. CopyCovers(k)'
      <3>1. CASE job[j].at \in Passing
        <4>1. job[k].at \notin {"folding", "joining", "joined"}
          BY <3>1, <1>2 DEF MemoryInv, OnePass, Passing
        <4> QED BY <4>1, <2>1 DEF CopyCovers
      <3>2. CASE \A t \in Topics : Keeps(semantic[t])' \subseteq Keeps(semantic[t]) \cup overwritten'
        BY <3>2, <2>1 DEF JobOK, CopyCovers, Grows
      <3> QED BY <3>1, <3>2
    <2> QED BY <2>2, <2>3, <2>4, <2>5 DEF JobOK
  <1> QED BY <1>1, <1>2 DEF MemoryInv

-----------------------------------------------------------------------------
(* What an item keeps.                                                     *)

LEMMA ShelvedKeeps ==
    ASSUME NEW item \in Items
    PROVE  /\ [item EXCEPT !.is = "archived"] \in Items
           /\ Keeps(item) \subseteq Keeps([item EXCEPT !.is = "archived"])
           /\ item.is # "none" => Keeps([item EXCEPT !.is = "archived"]) = Keeps(item)
  BY DEF Items, Keeps

LEMMA JoinedKeeps ==
    ASSUME NEW item \in Items, NEW other \in Items, NEW newer \in Texts
    PROVE  /\ Coalesced(item, other, newer) \in Items
           /\ Keeps(item) \subseteq Keeps(Coalesced(item, other, newer))
  <1>1. Keeps(item) \in SUBSET (Texts \cup {"none"}) /\ Keeps(other) \in SUBSET (Texts \cup {"none"})
    BY DEF Items, Keeps
  <1> QED BY <1>1 DEF Items, Keeps, Coalesced

LEMMA NewItemKeeps ==
    ASSUME NEW item \in Items, NEW texts \in SUBSET Texts, NEW new \in Texts
    PROVE  /\ NewItem(item, texts, new) \in Items
           /\ Keeps(item) \cup texts \subseteq Keeps(NewItem(item, texts, new))
  <1>1. Keeps(item) \in SUBSET (Texts \cup {"none"})
    BY DEF Items, Keeps
  <1> QED BY <1>1 DEF Items, Keeps, NewItem

LEMMA NothingChanges ==
    ASSUME semantic' = semantic, overwritten' = overwritten
    PROVE  /\ Grows
           /\ \A t \in Topics : Keeps(semantic[t])' \subseteq Keeps(semantic[t]) \cup overwritten'
           /\ Everything' = Everything
  BY DEF Grows, Everything, Keeps

\* One item changes and says no less: everything grows.
LEMMA OneItemGrows ==
    ASSUME MemoryTypeOK, NEW t \in Topics, NEW item \in Items,
           semantic' = [semantic EXCEPT ![t] = item], overwritten \subseteq overwritten',
           Keeps(semantic[t]) \subseteq Keeps(item) \cup overwritten'
    PROVE  Grows
  BY DEF MemoryTypeOK, Grows, Keeps

-----------------------------------------------------------------------------
(* The capture.                                                            *)

LEMMA ResolveKeeps ==
    ASSUME MemoryInv, NEW j \in Jobs, NEW t \in Topics, NEW x \in Texts, Resolve(j, t, x)
    PROVE  MemoryInv'
  <1>1. Grows /\ Everything' = Everything
    BY NothingChanges DEF Resolve
  <1>2. PICK a \in {"filing", "repeating"} :
          job' = [job EXCEPT ![j] = [Resting EXCEPT !.at = a, !.topic = t, !.text = x]]
    BY DEF Resolve
  <1>3. /\ job'[j].at = a /\ job'[j].topic = t /\ job'[j].text = x
        /\ \A k \in Jobs : k # j => job'[k] = job[k]
    BY <1>2 DEF MemoryInv, MemoryTypeOK, Resting
  <1>4. MemoryTypeOK'
    BY <1>2 DEF MemoryInv, MemoryTypeOK, Holdings, Resting, NoItem, Items, Places, Resolve
  <1>5. JobOK(j)'
    BY <1>3 DEF JobOK, RaiseCovered, CopyCovers, Placed, MarksFolded
  <1>6. FactsSurvive'
    BY DEF MemoryInv, FactsSurvive, Resolve, Keeps
  <1>7. \A s \in Topics : Keeps(semantic[s])' \subseteq Keeps(semantic[s]) \cup overwritten'
    BY NothingChanges DEF Resolve
  <1> QED BY <1>1, <1>3, <1>4, <1>5, <1>6, <1>7, OneJobMoves DEF Passing

LEMMA AddEpisodicKeeps ==
    ASSUME MemoryInv, NEW j \in Jobs, AddEpisodic(j)
    PROVE  MemoryInv'
  <1> DEFINE c == <<job[j].topic, job[j].text>>
  <1>1. c \in Captures
    BY DEF MemoryInv, JobOK, Placed, AddEpisodic, Captures
  <1>2. Grows /\ Everything' = Everything
    BY NothingChanges DEF AddEpisodic
  <1>3. /\ job'[j].at = "captured"
        /\ \A k \in Jobs : k # j => job'[k] = job[k]
    BY DEF MemoryInv, MemoryTypeOK, AddEpisodic, GoesTo
  <1>4. MemoryTypeOK'
    BY <1>1 DEF MemoryInv, MemoryTypeOK, AddEpisodic, GoesTo, Holdings, Places
  <1>5. JobOK(j)'
    BY <1>3 DEF JobOK, RaiseCovered, CopyCovers, Placed, MarksFolded
  <1>6. FactsSurvive'
    <2>1. \A d \in Captures : episodic'[d] = episodic[d] \/ episodic'[d] = "fresh"
      BY <1>1 DEF MemoryInv, MemoryTypeOK, AddEpisodic
    <2> QED BY <2>1, <1>2 DEF MemoryInv, FactsSurvive, Everything
  <1>7. \A t \in Topics : Keeps(semantic[t])' \subseteq Keeps(semantic[t]) \cup overwritten'
    BY NothingChanges DEF AddEpisodic
  <1> QED BY <1>2, <1>3, <1>4, <1>5, <1>6, <1>7, OneJobMoves DEF Passing

LEMMA CorroborateReadsKeeps ==
    ASSUME MemoryInv, NEW j \in Jobs, CorroborateReads(j)
    PROVE  MemoryInv'
  <1>1. Grows /\ Everything' = Everything
    BY NothingChanges DEF CorroborateReads
  <1>2. /\ job[j].topic \in Topics /\ semantic[job[j].topic] \in Items
        /\ job'[j] = [job[j] EXCEPT !.at = "raising", !.item = semantic[job[j].topic]]
        /\ \A k \in Jobs : k # j => job'[k] = job[k]
    BY DEF MemoryInv, MemoryTypeOK, CorroborateReads, Standing
  <1>3. /\ job'[j].at = "raising" /\ job'[j].topic = job[j].topic
        /\ job'[j].item = semantic[job[j].topic]
    BY <1>2 DEF MemoryInv, MemoryTypeOK
  <1>4. MemoryTypeOK'
    <2>1. job'[j] \in Holdings
      <3>1. job[j] \in Holdings
        BY DEF MemoryInv, MemoryTypeOK
      <3> QED BY <1>2, <3>1 DEF Holdings, Places
    <2>2. \A k \in Jobs : job'[k] \in Holdings
      BY <1>2, <2>1 DEF MemoryInv, MemoryTypeOK
    <2> QED BY <2>2 DEF MemoryInv, MemoryTypeOK, CorroborateReads
  <1>5. JobOK(j)'
    BY <1>2, <1>3 DEF JobOK, RaiseCovered, CopyCovers, Placed, MarksFolded, CorroborateReads, Keeps
  <1>6. FactsSurvive'
    BY <1>1 DEF MemoryInv, FactsSurvive, CorroborateReads, Everything
  <1>7. \A t \in Topics : Keeps(semantic[t])' \subseteq Keeps(semantic[t]) \cup overwritten'
    BY NothingChanges DEF CorroborateReads
  <1> QED BY <1>1, <1>2, <1>3, <1>4, <1>5, <1>6, <1>7, OneJobMoves DEF Passing

LEMMA CorroborateWritesKeeps ==
    ASSUME MemoryInv, NEW j \in Jobs, CorroborateWrites(j)
    PROVE  MemoryInv'
  <1> DEFINE t == job[j].topic
  <1>1. /\ t \in Topics /\ job[j].item \in Items
        /\ Keeps(job[j].item) \subseteq Keeps(semantic[t]) \cup overwritten
    BY DEF MemoryInv, MemoryTypeOK, Holdings, JobOK, RaiseCovered, CorroborateWrites
  <1>2. /\ semantic' = [semantic EXCEPT ![t] = job[j].item]
        /\ overwritten' = overwritten \cup (Keeps(semantic[t]) \ Keeps(job[j].item))
        /\ job'[j].at = "captured"
        /\ \A k \in Jobs : k # j => job'[k] = job[k]
    BY DEF MemoryInv, MemoryTypeOK, CorroborateWrites, GoesTo
  <1>3. Grows
    BY <1>1, <1>2, OneItemGrows DEF MemoryInv
  <1>4. MemoryTypeOK'
    BY <1>1 DEF MemoryInv, MemoryTypeOK, CorroborateWrites, GoesTo, Holdings, Places
  <1>5. JobOK(j)'
    BY <1>2 DEF JobOK, RaiseCovered, CopyCovers, Placed, MarksFolded
  <1>6. FactsSurvive'
    BY <1>3, EverythingGrows DEF MemoryInv, FactsSurvive, CorroborateWrites, Everything
  <1>7. \A s \in Topics : Keeps(semantic[s])' \subseteq Keeps(semantic[s]) \cup overwritten'
    BY <1>1, <1>2 DEF MemoryInv, MemoryTypeOK, Keeps
  <1> QED BY <1>2, <1>3, <1>4, <1>5, <1>6, <1>7, OneJobMoves DEF Passing

\* A step that only moves a job to a place where it holds nothing.
LEMMA PlainMoveKeeps ==
    ASSUME MemoryInv, NEW j \in Jobs, UNCHANGED <<episodic, semantic, overwritten>>,
           NEW a \in {"resting", "captured", "waiting", "tidying", "sweeping"},
           \/ job' = [job EXCEPT ![j].at = a]
           \/ job' = [job EXCEPT ![j] = [Resting EXCEPT !.at = a]],
           a = "sweeping" => job[j].at \in Passing \/ LockIsFree
    PROVE  MemoryInv'
  <1>1. Grows /\ Everything' = Everything
    BY NothingChanges
  <1>2. /\ job'[j].at = a
        /\ \A k \in Jobs : k # j => job'[k] = job[k]
    BY DEF MemoryInv, MemoryTypeOK, Holdings, Resting
  <1>3. MemoryTypeOK'
    <2>1. job'[j] \in Holdings
      BY DEF MemoryInv, MemoryTypeOK, Holdings, Places, Passing, Resting, NoItem, Items
    <2>2. \A k \in Jobs : job'[k] \in Holdings
      BY <1>2, <2>1 DEF MemoryInv, MemoryTypeOK
    <2> QED BY <2>2 DEF MemoryInv, MemoryTypeOK
  <1>4. JobOK(j)'
    BY <1>2 DEF JobOK, RaiseCovered, CopyCovers, Placed, MarksFolded
  <1>5. FactsSurvive'
    BY DEF MemoryInv, FactsSurvive, Keeps
  <1>6. \A t \in Topics : Keeps(semantic[t])' \subseteq Keeps(semantic[t]) \cup overwritten'
    BY NothingChanges
  <1> QED BY <1>1, <1>2, <1>3, <1>4, <1>5, <1>6, OneJobMoves DEF Passing

LEMMA AfterCaptureKeeps ==
    ASSUME MemoryInv, NEW j \in Jobs, AfterCapture(j)
    PROVE  MemoryInv'
  <1>1. Resting = [Resting EXCEPT !.at = "resting"]
    BY DEF Resting
  <1>2. CASE Cardinality(Fresh) >= Bar
    BY <1>2, PlainMoveKeeps DEF AfterCapture
  <1>3. CASE ~(Cardinality(Fresh) >= Bar)
    BY <1>1, <1>3, PlainMoveKeeps DEF AfterCapture
  <1> QED BY <1>2, <1>3

-----------------------------------------------------------------------------
(* The pass.                                                               *)

LEMMA PassBeginsKeeps ==
    ASSUME MemoryInv, NEW j \in Jobs, PassBegins(j)
    PROVE  MemoryInv'
  <1>1. CASE Named = {} /\ GoesTo(j, "sweeping")
    BY <1>1, PlainMoveKeeps DEF PassBegins, GoesTo
  <1>2. CASE ~(Named = {} /\ GoesTo(j, "sweeping"))
    <2>1. PICK t \in Named :
            job' = [job EXCEPT ![j] = [Resting EXCEPT !.at = "merging", !.topic = t,
                                           !.left = Fresh, !.others = Standing \ {t}]]
      BY <1>2 DEF PassBegins
    <2>2. t \in Topics
      BY DEF Named, Standing, Fresh, Captures
    <2>3. Fresh \in SUBSET Captures /\ Standing \in SUBSET Topics
      BY DEF Fresh, Standing
    <2>4. Grows /\ Everything' = Everything
      BY NothingChanges DEF PassBegins
    <2>5. /\ job'[j].at = "merging" /\ job'[j].topic = t
          /\ \A k \in Jobs : k # j => job'[k] = job[k]
      BY <2>1 DEF MemoryInv, MemoryTypeOK, Resting
    <2>6. MemoryTypeOK'
      BY <2>1, <2>2, <2>3 DEF MemoryInv, MemoryTypeOK, Holdings, Resting, NoItem, Items,
                              Places, Passing, PassBegins
    <2>7. JobOK(j)'
      BY <2>2, <2>5 DEF JobOK, RaiseCovered, CopyCovers, Placed, MarksFolded
    <2>8. FactsSurvive'
      BY DEF MemoryInv, FactsSurvive, Keeps, PassBegins
    <2>9. \A s \in Topics : Keeps(semantic[s])' \subseteq Keeps(semantic[s]) \cup overwritten'
      BY NothingChanges DEF PassBegins
    <2>10. LockIsFree
      BY DEF PassBegins
    <2> QED BY <2>4, <2>5, <2>6, <2>7, <2>8, <2>9, <2>10, OneJobMoves
  <1> QED BY <1>1, <1>2

\* A step of the pass that changes one item, which then says no less.
LEMMA PassWritesKeeps ==
    ASSUME MemoryInv, NEW j \in Jobs, job[j].at \in Passing, NEW t \in Topics, NEW item \in Items,
           semantic' = [semantic EXCEPT ![t] = item],
           Keeps(semantic[t]) \subseteq Keeps(item) \cup overwritten,
           UNCHANGED <<episodic, overwritten>>,
           job' \in [Jobs -> Holdings], \A k \in Jobs : k # j => job'[k] = job[k],
           JobOK(j)'
    PROVE  MemoryInv'
  <1>1. Grows
    BY OneItemGrows DEF MemoryInv
  <1>2. MemoryTypeOK'
    BY DEF MemoryInv, MemoryTypeOK
  <1>3. FactsSurvive'
    BY <1>1, EverythingGrows DEF MemoryInv, FactsSurvive, Everything
  <1> QED BY <1>1, <1>2, <1>3, OneJobMoves

LEMMA MergeOtherKeeps ==
    ASSUME MemoryInv, NEW j \in Jobs, MergeOther(j)
    PROVE  MemoryInv'
  <1> DEFINE t == job[j].topic
  <1>1. job[j] \in Holdings /\ t \in Topics
    BY DEF MemoryInv, MemoryTypeOK, JobOK, Placed, MergeOther
  <1>2. PICK o \in job[j].others, newer \in Texts :
          semantic' = [semantic EXCEPT ![t] = Coalesced(semantic[t], semantic[o], newer)]
    BY DEF MergeOther
  <1>3. semantic[t] \in Items /\ semantic[o] \in Items
    BY <1>1, <1>2 DEF MemoryInv, MemoryTypeOK, Holdings
  <1>4. /\ Coalesced(semantic[t], semantic[o], newer) \in Items
        /\ Keeps(semantic[t]) \subseteq Keeps(Coalesced(semantic[t], semantic[o], newer))
    BY <1>3, JoinedKeeps
  <1>5. /\ job'[j].at = "shelving" /\ job'[j].topic = t
        /\ \A k \in Jobs : k # j => job'[k] = job[k]
    BY <1>1 DEF MemoryInv, MemoryTypeOK, Holdings, MergeOther, GoesTo
  <1>6. job' \in [Jobs -> Holdings]
    <2>1. job'[j] \in Holdings
      BY <1>1 DEF MemoryInv, MemoryTypeOK, Holdings, Places, Passing, MergeOther, GoesTo
    <2> QED BY <1>5, <2>1 DEF MemoryInv, MemoryTypeOK, MergeOther, GoesTo
  <1>7. JobOK(j)'
    BY <1>1, <1>5 DEF JobOK, RaiseCovered, CopyCovers, Placed, MarksFolded
  <1> QED BY <1>1, <1>2, <1>4, <1>5, <1>6, <1>7, PassWritesKeeps DEF MergeOther, Passing

\* A step of the pass that archives one item.
LEMMA ShelveKeeps ==
    ASSUME MemoryInv, NEW j \in Jobs, job[j].at \in Passing, NEW o \in Topics,
           semantic' = [semantic EXCEPT ![o].is = "archived"],
           UNCHANGED <<episodic, overwritten>>,
           job' \in [Jobs -> Holdings], \A k \in Jobs : k # j => job'[k] = job[k],
           JobOK(j)'
    PROVE  MemoryInv'
  <1> DEFINE item == [semantic[o] EXCEPT !.is = "archived"]
  <1>1. semantic[o] \in Items
    BY DEF MemoryInv, MemoryTypeOK
  <1>2. item \in Items /\ Keeps(semantic[o]) \subseteq Keeps(item)
    BY <1>1, ShelvedKeeps
  <1>3. semantic' = [semantic EXCEPT ![o] = item]
    OBVIOUS
  <1> HIDE DEF item
  <1> QED BY <1>2, <1>3, PassWritesKeeps

LEMMA ShelveOtherKeeps ==
    ASSUME MemoryInv, NEW j \in Jobs, ShelveOther(j)
    PROVE  MemoryInv'
  <1>1. job[j] \in Holdings /\ job[j].topic \in Topics
    BY DEF MemoryInv, MemoryTypeOK, JobOK, Placed, ShelveOther
  <1>2. PICK o \in job[j].others :
          /\ semantic' = [semantic EXCEPT ![o].is = "archived"]
          /\ job' = [job EXCEPT ![j].at = "merging", ![j].others = @ \ {o}]
    BY DEF ShelveOther
  <1>3. /\ job'[j] = [job[j] EXCEPT !.at = "merging", !.others = @ \ {o}]
        /\ \A k \in Jobs : k # j => job'[k] = job[k]
    BY <1>2 DEF MemoryInv, MemoryTypeOK
  <1>4. job'[j].at = "merging" /\ job'[j].topic = job[j].topic /\ job'[j] \in Holdings
    BY <1>1, <1>3 DEF Holdings, Places, Passing
  <1>5. job' \in [Jobs -> Holdings]
    BY <1>2, <1>3, <1>4 DEF MemoryInv, MemoryTypeOK
  <1>6. JobOK(j)'
    BY <1>1, <1>4 DEF JobOK, RaiseCovered, CopyCovers, Placed, MarksFolded
  <1>7. o \in Topics
    BY <1>1 DEF Holdings
  <1> QED BY <1>2, <1>3, <1>5, <1>6, <1>7, ShelveKeeps DEF ShelveOther, Passing

LEMMA FoldReadsKeeps ==
    ASSUME MemoryInv, NEW j \in Jobs, FoldReads(j)
    PROVE  MemoryInv'
  <1> DEFINE t == job[j].topic
  <1>1. job[j] \in Holdings /\ t \in Topics /\ semantic[t] \in Items
    BY DEF MemoryInv, MemoryTypeOK, JobOK, Placed, FoldReads
  <1>2. PICK a \in {"sweeping", "folding"} :
          job' = [job EXCEPT ![j].at = a, ![j].item = semantic[t]]
    BY DEF FoldReads
  <1>3. /\ job'[j] = [job[j] EXCEPT !.at = a, !.item = semantic[t]]
        /\ \A k \in Jobs : k # j => job'[k] = job[k]
    BY <1>2 DEF MemoryInv, MemoryTypeOK
  <1>4. /\ job'[j].at = a /\ job'[j].topic = t /\ job'[j].item = semantic[t]
        /\ job'[j] \in Holdings
    BY <1>1, <1>3 DEF Holdings, Places, Passing
  <1>5. MemoryTypeOK'
    <2>1. job' \in [Jobs -> Holdings]
      BY <1>2, <1>3, <1>4 DEF MemoryInv, MemoryTypeOK
    <2> QED BY <2>1 DEF MemoryInv, MemoryTypeOK, FoldReads
  <1>6. JobOK(j)'
    BY <1>1, <1>4 DEF JobOK, RaiseCovered, CopyCovers, Placed, MarksFolded, FoldReads, Keeps
  <1>7. Grows /\ Everything' = Everything
    BY NothingChanges DEF FoldReads
  <1>8. FactsSurvive'
    BY DEF MemoryInv, FactsSurvive, Keeps, FoldReads
  <1> QED BY <1>3, <1>5, <1>6, <1>7, <1>8, OneJobMoves DEF FoldReads, Passing

LEMMA FoldWritesKeeps ==
    ASSUME MemoryInv, NEW j \in Jobs, FoldWrites(j)
    PROVE  MemoryInv'
  <1> DEFINE t == job[j].topic
             texts == {c[2] : c \in job[j].left}
  <1>1. /\ job[j] \in Holdings /\ t \in Topics
        /\ Keeps(semantic[t]) \subseteq Keeps(job[j].item) \cup overwritten
    BY DEF MemoryInv, MemoryTypeOK, JobOK, CopyCovers, FoldWrites
  <1>2. texts \in SUBSET Texts /\ job[j].item \in Items
    BY <1>1 DEF Holdings, Captures
  <1>3. PICK new \in Texts :
          semantic' = [semantic EXCEPT ![t] = NewItem(job[j].item, texts, new)]
    <2>1. PICK newest \in job[j].left :
            semantic' = [semantic EXCEPT ![t] = NewItem(job[j].item, texts, newest[2])]
      BY DEF FoldWrites
    <2> QED BY <1>2, <2>1
  <1>4. /\ NewItem(job[j].item, texts, new) \in Items
        /\ Keeps(job[j].item) \cup texts \subseteq Keeps(NewItem(job[j].item, texts, new))
    BY <1>2, NewItemKeeps
  <1>5. /\ job'[j] = [job[j] EXCEPT !.at = "marking"]
        /\ \A k \in Jobs : k # j => job'[k] = job[k]
    BY DEF MemoryInv, MemoryTypeOK, FoldWrites, GoesTo
  <1>6. job'[j].at = "marking" /\ job'[j].left = job[j].left /\ job'[j] \in Holdings
    BY <1>1, <1>5 DEF Holdings, Places, Passing
  <1>7. job' \in [Jobs -> Holdings]
    BY <1>5, <1>6 DEF MemoryInv, MemoryTypeOK, FoldWrites, GoesTo
  <1>8. \A c \in job[j].left : c[2] \in Everything'
    <2>1. semantic'[t] = NewItem(job[j].item, texts, new)
      BY <1>1, <1>3 DEF MemoryInv, MemoryTypeOK
    <2>2. texts \subseteq Keeps(semantic'[t])
      BY <1>4, <2>1
    <2>3. Keeps(semantic'[t]) \subseteq Everything'
      BY <1>1 DEF Everything, Keeps
    <2> QED BY <2>2, <2>3
  <1>9. JobOK(j)'
    BY <1>6, <1>8 DEF JobOK, RaiseCovered, CopyCovers, Placed, MarksFolded
  <1> HIDE DEF texts
  <1> QED BY <1>1, <1>3, <1>4, <1>5, <1>7, <1>9, PassWritesKeeps DEF FoldWrites, Passing

LEMMA MarkKeeps ==
    ASSUME MemoryInv, NEW j \in Jobs, Mark(j)
    PROVE  MemoryInv'
  <1>1. job[j] \in Holdings /\ \A c \in job[j].left : c[2] \in Everything
    BY DEF MemoryInv, MemoryTypeOK, JobOK, MarksFolded, Mark
  <1>2. PICK c \in job[j].left, a \in {"sweeping", "marking"} :
          /\ episodic' = [episodic EXCEPT ![c] = "consolidated"]
          /\ job' = [job EXCEPT ![j].left = @ \ {c}, ![j].at = a]
    BY DEF Mark
  <1>3. /\ job'[j] = [job[j] EXCEPT !.left = @ \ {c}, !.at = a]
        /\ \A k \in Jobs : k # j => job'[k] = job[k]
    BY <1>2 DEF MemoryInv, MemoryTypeOK
  <1>4. job'[j].at = a /\ job'[j].left \subseteq job[j].left /\ job'[j] \in Holdings
    BY <1>1, <1>3 DEF Holdings, Places, Passing
  <1>5. c \in Captures
    BY <1>1 DEF Holdings
  <1>6. MemoryTypeOK'
    <2>1. job' \in [Jobs -> Holdings]
      BY <1>2, <1>3, <1>4 DEF MemoryInv, MemoryTypeOK
    <2> QED BY <1>2, <1>5, <2>1 DEF MemoryInv, MemoryTypeOK, Mark
  <1>7. Grows /\ Everything' = Everything
    BY NothingChanges DEF Mark
  <1>8. JobOK(j)'
    BY <1>1, <1>4, <1>7 DEF JobOK, RaiseCovered, CopyCovers, Placed, MarksFolded
  <1>9. FactsSurvive'
    <2>1. \A d \in Captures : d = c \/ episodic'[d] = episodic[d]
      BY <1>2, <1>5 DEF MemoryInv, MemoryTypeOK
    <2>2. c[2] \in Everything'
      BY <1>1, <1>7
    <2> QED BY <1>7, <2>1, <2>2 DEF MemoryInv, FactsSurvive, Everything
  <1> QED BY <1>3, <1>6, <1>7, <1>8, <1>9, OneJobMoves DEF Mark, Passing

LEMMA SweepKeeps ==
    ASSUME MemoryInv, NEW j \in Jobs, Sweep(j)
    PROVE  MemoryInv'
  <1>1. PICK stale \in SUBSET {t \in Topics : semantic[t].is = "active"} :
          semantic' = [t \in Topics |-> IF t \in stale THEN [semantic[t] EXCEPT !.is = "archived"]
                                        ELSE semantic[t]]
    BY DEF Sweep
  <1>2. PICK old \in SUBSET {c \in Captures : episodic[c] = "consolidated"} :
          episodic' = [c \in Captures |-> IF c \in old THEN "archived" ELSE episodic[c]]
    BY DEF Sweep
  <1>3. \A t \in Topics : semantic'[t] \in Items /\ Keeps(semantic[t]) \subseteq Keeps(semantic'[t])
    <2> SUFFICES ASSUME NEW t \in Topics
                 PROVE  semantic'[t] \in Items /\ Keeps(semantic[t]) \subseteq Keeps(semantic'[t])
      OBVIOUS
    <2>1. semantic[t] \in Items
      BY DEF MemoryInv, MemoryTypeOK
    <2>2. semantic'[t] \in {semantic[t], [semantic[t] EXCEPT !.is = "archived"]}
      BY <1>1
    <2> QED BY <2>1, <2>2, ShelvedKeeps
  <1>4. PICK a \in {"tidying", "resting"} :
          job' = [job EXCEPT ![j] = [Resting EXCEPT !.at = a]]
    BY DEF Sweep, Resting
  <1>5. /\ job'[j] = [Resting EXCEPT !.at = a]
        /\ \A k \in Jobs : k # j => job'[k] = job[k]
    BY <1>4 DEF MemoryInv, MemoryTypeOK
  <1>6. job'[j].at = a /\ job'[j] \in Holdings
    BY <1>5 DEF Holdings, Resting, NoItem, Items, Places
  <1>7. MemoryTypeOK'
    <2>1. job' \in [Jobs -> Holdings]
      BY <1>4, <1>5, <1>6 DEF MemoryInv, MemoryTypeOK
    <2>2. semantic' \in [Topics -> Items]
      BY <1>1, <1>3
    <2> QED BY <1>2, <2>1, <2>2 DEF MemoryInv, MemoryTypeOK
  <1>8. Grows
    BY <1>3 DEF Grows, Sweep, Keeps
  <1>9. JobOK(j)'
    BY <1>6 DEF JobOK, RaiseCovered, CopyCovers, Placed, MarksFolded
  <1>10. FactsSurvive'
    BY <1>2, <1>8, EverythingGrows DEF MemoryInv, FactsSurvive, Everything
  <1> QED BY <1>5, <1>6, <1>7, <1>8, <1>9, <1>10, OneJobMoves DEF Sweep, Passing

-----------------------------------------------------------------------------
(* The compaction.                                                         *)

LEMMA CompactReadsKeeps ==
    ASSUME MemoryInv, NEW j \in Jobs, CompactReads(j)
    PROVE  MemoryInv'
  <1>1. CASE job' = [job EXCEPT ![j] = Resting]
    <2>1. Resting = [Resting EXCEPT !.at = "resting"]
      BY DEF Resting
    <2> QED BY <1>1, <2>1, PlainMoveKeeps DEF CompactReads
  <1>2. CASE ~(job' = [job EXCEPT ![j] = Resting])
    <2>1. PICK s \in {t \in Topics : semantic[t].is = "active"},
               others \in SUBSET Topics :
            /\ s \notin others /\ others \subseteq {t \in Topics : semantic[t].is = "active"}
            /\ job' = [job EXCEPT ![j].at = "joining", ![j].topic = s, ![j].others = others,
                         ![j].item = [semantic[s] EXCEPT
                            !.past = @ \cup ({semantic[o].text : o \in others} \ {semantic[s].text})]]
      BY <1>2 DEF CompactReads
    <2> DEFINE item == [semantic[s] EXCEPT
                  !.past = @ \cup ({semantic[o].text : o \in others} \ {semantic[s].text})]
    <2>2. semantic[s] \in Items /\ \A o \in others : semantic[o] \in Items
      BY DEF MemoryInv, MemoryTypeOK
    <2>3. item \in Items /\ Keeps(semantic[s]) \subseteq Keeps(item)
      BY <2>2 DEF Items, Keeps
    <2>4. job[j] \in Holdings
      BY DEF MemoryInv, MemoryTypeOK
    <2>5. /\ job'[j] = [job[j] EXCEPT !.at = "joining", !.topic = s, !.others = others, !.item = item]
          /\ \A k \in Jobs : k # j => job'[k] = job[k]
      BY <2>1 DEF MemoryInv, MemoryTypeOK
    <2> HIDE DEF item
    <2>6. /\ job'[j].at = "joining" /\ job'[j].topic = s /\ job'[j].others = others
          /\ job'[j].item = item /\ job'[j] \in Holdings
      BY <2>3, <2>4, <2>5 DEF Holdings, Places, Passing
    <2>7. MemoryTypeOK'
      <3>1. job' \in [Jobs -> Holdings]
        BY <2>1, <2>5, <2>6 DEF MemoryInv, MemoryTypeOK
      <3> QED BY <3>1 DEF MemoryInv, MemoryTypeOK, CompactReads
    <2>8. JobOK(j)'
      BY <2>1, <2>3, <2>6 DEF JobOK, RaiseCovered, CopyCovers, Placed, MarksFolded, CompactReads,
                              Keeps
    <2>9. Grows /\ Everything' = Everything
      BY NothingChanges DEF CompactReads
    <2>10. FactsSurvive'
      BY DEF MemoryInv, FactsSurvive, Keeps, CompactReads
    <2>11. \A t \in Topics : Keeps(semantic[t])' \subseteq Keeps(semantic[t]) \cup overwritten'
      BY NothingChanges DEF CompactReads
    <2>12. LockIsFree
      BY DEF CompactReads
    <2> QED BY <2>5, <2>7, <2>8, <2>9, <2>10, <2>11, <2>12, OneJobMoves
  <1> QED BY <1>1, <1>2

LEMMA CompactShelvesKeeps ==
    ASSUME MemoryInv, NEW j \in Jobs, CompactShelves(j)
    PROVE  MemoryInv'
  <1> DEFINE t == job[j].topic
  <1>1. /\ job[j] \in Holdings /\ t \in Topics /\ t \notin job[j].others
        /\ Keeps(semantic[t]) \subseteq Keeps(job[j].item) \cup overwritten
    BY DEF MemoryInv, MemoryTypeOK, JobOK, CopyCovers, Placed, CompactShelves
  <1>2. PICK o \in job[j].others, a \in {"joining", "joined"} :
          /\ semantic' = [semantic EXCEPT ![o].is = "archived"]
          /\ job' = [job EXCEPT ![j].others = @ \ {o}, ![j].at = a]
    BY DEF CompactShelves
  <1>3. /\ job'[j] = [job[j] EXCEPT !.others = @ \ {o}, !.at = a]
        /\ \A k \in Jobs : k # j => job'[k] = job[k]
    BY <1>2 DEF MemoryInv, MemoryTypeOK
  <1>4. /\ job'[j].at = a /\ job'[j].topic = t /\ job'[j].item = job[j].item
        /\ job'[j].others \subseteq job[j].others /\ job'[j] \in Holdings
    BY <1>1, <1>3 DEF Holdings, Places, Passing
  <1>5. job' \in [Jobs -> Holdings]
    BY <1>2, <1>3, <1>4 DEF MemoryInv, MemoryTypeOK
  <1>6. o \in Topics /\ semantic'[t] = semantic[t] /\ overwritten' = overwritten
    BY <1>1, <1>2 DEF Holdings, MemoryInv, MemoryTypeOK, CompactShelves
  <1>7. JobOK(j)'
    BY <1>1, <1>4, <1>6 DEF JobOK, RaiseCovered, CopyCovers, Placed, MarksFolded, Keeps
  <1> QED BY <1>2, <1>3, <1>5, <1>6, <1>7, ShelveKeeps DEF CompactShelves, Passing

LEMMA CompactWritesKeeps ==
    ASSUME MemoryInv, NEW j \in Jobs, CompactWrites(j)
    PROVE  MemoryInv'
  <1> DEFINE t == job[j].topic
  <1>1. /\ job[j] \in Holdings /\ t \in Topics
        /\ Keeps(semantic[t]) \subseteq Keeps(job[j].item) \cup overwritten
    BY DEF MemoryInv, MemoryTypeOK, JobOK, CopyCovers, CompactWrites
  <1>2. job[j].item \in Items /\ semantic' = [semantic EXCEPT ![t] = job[j].item]
    BY <1>1 DEF Holdings, CompactWrites
  <1>3. /\ job'[j] = Resting
        /\ \A k \in Jobs : k # j => job'[k] = job[k]
    BY DEF MemoryInv, MemoryTypeOK, CompactWrites
  <1>4. job'[j].at = "resting" /\ job'[j] \in Holdings
    BY <1>3 DEF Holdings, Resting, NoItem, Items, Places
  <1>5. job' \in [Jobs -> Holdings]
    BY <1>3, <1>4 DEF MemoryInv, MemoryTypeOK, CompactWrites
  <1>6. JobOK(j)'
    BY <1>4 DEF JobOK, RaiseCovered, CopyCovers, Placed, MarksFolded
  <1> QED BY <1>1, <1>2, <1>3, <1>5, <1>6, PassWritesKeeps DEF CompactWrites, Passing

LEMMA ServerKilledKeeps ==
    ASSUME MemoryInv, ServerKilled
    PROVE  MemoryInv'
  <1>1. \A j \in Jobs : job'[j] = Resting
    BY DEF ServerKilled
  <1>2. Resting.at = "resting" /\ Resting \in Holdings
    BY DEF Resting, Holdings, NoItem, Items, Places
  <1>3. MemoryTypeOK' /\ OnePass'
    BY <1>1, <1>2 DEF MemoryInv, MemoryTypeOK, OnePass, Passing, ServerKilled
  <1>4. \A j \in Jobs : JobOK(j)'
    BY <1>1, <1>2 DEF JobOK, RaiseCovered, CopyCovers, Placed, MarksFolded
  <1>5. FactsSurvive'
    BY DEF MemoryInv, FactsSurvive, Keeps, ServerKilled
  <1> QED BY <1>3, <1>4, <1>5 DEF MemoryInv

-----------------------------------------------------------------------------

LEMMA MemoryInit_Inv == MemoryInit => MemoryInv
  <1> SUFFICES ASSUME MemoryInit PROVE MemoryInv
    OBVIOUS
  <1>1. Resting.at = "resting" /\ Resting \in Holdings /\ NoItem \in Items
    BY DEF Resting, Holdings, NoItem, Items, Places
  <1>2. \A j \in Jobs : job[j] = Resting
    BY DEF MemoryInit
  <1>3. MemoryTypeOK /\ OnePass
    BY <1>1, <1>2 DEF MemoryInit, MemoryTypeOK, OnePass, Passing
  <1>4. \A j \in Jobs : JobOK(j)
    BY <1>1, <1>2 DEF JobOK, RaiseCovered, CopyCovers, Placed, MarksFolded
  <1>5. FactsSurvive
    BY DEF MemoryInit, FactsSurvive
  <1> QED BY <1>3, <1>4, <1>5 DEF MemoryInv

LEMMA MemoryNext_Inv == MemoryInv /\ [MemoryNext]_memoryVars => MemoryInv'
  <1> SUFFICES ASSUME MemoryInv, [MemoryNext]_memoryVars PROVE MemoryInv'
    OBVIOUS
  <1>1. ASSUME NEW j \in Jobs, NEW t \in Topics, NEW x \in Texts, Resolve(j, t, x) PROVE MemoryInv'
    BY <1>1, ResolveKeeps
  <1>2. ASSUME NEW j \in Jobs, AddEpisodic(j) PROVE MemoryInv'
    BY <1>2, AddEpisodicKeeps
  <1>3. ASSUME NEW j \in Jobs, CorroborateReads(j) PROVE MemoryInv'
    BY <1>3, CorroborateReadsKeeps
  <1>4. ASSUME NEW j \in Jobs, CorroborateWrites(j) PROVE MemoryInv'
    BY <1>4, CorroborateWritesKeeps
  <1>5. ASSUME NEW j \in Jobs, AfterCapture(j) PROVE MemoryInv'
    BY <1>5, AfterCaptureKeeps
  <1>6. ASSUME NEW j \in Jobs, SweepStarts(j) PROVE MemoryInv'
    BY <1>6, PlainMoveKeeps DEF SweepStarts, GoesTo
  <1>7. ASSUME NEW j \in Jobs, PassBegins(j) PROVE MemoryInv'
    BY <1>7, PassBeginsKeeps
  <1>8. ASSUME NEW j \in Jobs, MergeOther(j) \/ ShelveOther(j) PROVE MemoryInv'
    BY <1>8, MergeOtherKeeps, ShelveOtherKeeps
  <1>9. ASSUME NEW j \in Jobs, FoldReads(j) \/ FoldWrites(j) PROVE MemoryInv'
    BY <1>9, FoldReadsKeeps, FoldWritesKeeps
  <1>10. ASSUME NEW j \in Jobs, Mark(j) \/ Sweep(j) PROVE MemoryInv'
    BY <1>10, MarkKeeps, SweepKeeps
  <1>11. ASSUME NEW j \in Jobs, CompactReads(j) \/ CompactShelves(j) \/ CompactWrites(j)
         PROVE  MemoryInv'
    BY <1>11, CompactReadsKeeps, CompactShelvesKeeps, CompactWritesKeeps
  <1>12. CASE ServerKilled
    BY <1>12, ServerKilledKeeps
  <1>13. CASE UNCHANGED memoryVars
    BY <1>13 DEF memoryVars, MemoryInv, MemoryTypeOK, OnePass, JobOK, RaiseCovered, CopyCovers,
                 Placed, MarksFolded, FactsSurvive, Everything, Keeps
  <1> QED BY <1>1, <1>2, <1>3, <1>4, <1>5, <1>6, <1>7, <1>8, <1>9, <1>10, <1>11, <1>12, <1>13
          DEF MemoryNext

\* The memory keeps its type, whatever captures and passes do at the same time.
THEOREM MemoryTypesHold == MemorySpec => []MemoryTypeOK
  <1>1. MemoryInv => MemoryTypeOK
    BY DEF MemoryInv
  <1> QED BY <1>1, MemoryInit_Inv, MemoryNext_Inv, PTL DEF MemorySpec

\* A capture that was folded is not forgotten (consolidate_user, compact_user and
\* corroborate_semantic under any interleaving and any number of kills): a semantic item
\* says it or has it in its history, unless a corroboration overwrote it.
THEOREM FactsSurviveHolds == MemorySpec => []FactsSurvive
  <1>1. MemoryInv => FactsSurvive
    BY DEF MemoryInv
  <1> QED BY <1>1, MemoryInit_Inv, MemoryNext_Inv, PTL DEF MemorySpec
=============================================================================
