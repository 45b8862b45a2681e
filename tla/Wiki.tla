-------------------------------- MODULE Wiki --------------------------------
(***************************************************************************)
(* The shared wiki of one tenant: users capture notes into their inboxes   *)
(* (tools/wiki.py), librarian runs merge them into pages under a lock      *)
(* (wiki/librarian.py, wiki/conflict.py), a nightly run also folds pages   *)
(* of one topic together, and an administrator edits and deletes pages and *)
(* decides queued claims (service/admin_routes.py).  A run awaits the      *)
(* model between its steps; it is cancelled or killed at any of them.      *)
(*                                                                         *)
(* The slugs are spellings of one topic.  A note is who wrote it, under    *)
(* which spelling, and what it says; what the model makes of a note is     *)
(* left open.                                                              *)
(***************************************************************************)
EXTENDS Naturals, FiniteSets, FiniteSetsExt

CONSTANTS
    Slugs, Users,  \* finite sets of numbers; their order is the order of the names
    Texts,
    Citing,        \* users whose notes name an external source
    Runners,       \* librarian runs: the scheduler's, the cron script's
    Compactors,    \* those that also fold pages
    Quorum,        \* corroboration_n
    MaxNotes,      \* bound: captures
    MaxCompacts,   \* bound: fold runs
    MaxTrouble     \* bound: edits, deletions, decisions on queued claims, and failures

ASSUME WikiAssumption ==
    /\ Slugs \subseteq Nat /\ Users \subseteq Nat /\ IsFiniteSet(Slugs) /\ IsFiniteSet(Users)
    /\ Citing \subseteq Users /\ Compactors \subseteq Runners /\ Quorum \in Nat \ {0}
    /\ MaxNotes \in Nat /\ MaxCompacts \in Nat /\ MaxTrouble \in Nat

VARIABLES
    inbox,      \* notes awaiting a merge
    merged,     \* notes archived after one
    page,       \* [Slugs -> the published page, or NoPage]
    review,     \* [Claims -> the claim's record in the review queue]
    decision,   \* [Claims -> a human's decision that no run has replaced]
    run,        \* [Runners -> what the run is doing and holds]
    wiped,      \* history variable: notes a human edit or deletion took off a page
    cut,        \* history variable: notes a fold deleted and did not write again
    refused,    \* history variable: claims rejected while they were on no page
    newest,     \* history variable: [Slugs -> the latest human edit in force, or 0]
    used        \* how often each bounded event happened

wikiVars == <<inbox, merged, page, review, decision, run, wiped, cut, refused, newest, used>>

Notes == [by : Users, on : Slugs, says : Texts]
\* The claim hash: a slug and a text, whoever says it.
Claims == Slugs \X Texts
NoPage == [live |-> FALSE, has |-> {}, contested |-> FALSE, edited |-> FALSE, edits |-> {}]
Idle == [at |-> "idle", batch |-> [s \in Slugs |-> {}], slug |-> 0, page |-> NoPage,
         out |-> {}, left |-> {}, other |-> 0, copy |-> NoPage, folded |-> FALSE]

WikiInit ==
    /\ inbox = {} /\ merged = {} /\ page = [s \in Slugs |-> NoPage]
    /\ review = [h \in Claims |-> "none"] /\ decision = [h \in Claims |-> "none"]
    /\ run = [r \in Runners |-> Idle]
    /\ wiped = {} /\ cut = {} /\ refused = {} /\ newest = [s \in Slugs |-> 0]
    /\ used = [note |-> 0, compact |-> 0, trouble |-> 0]

Published == {s \in Slugs : page[s].live}
Step(r, at) == run' = [run EXCEPT ![r].at = at]
HistoryKeeps == UNCHANGED <<wiped, cut, refused, newest>>

-----------------------------------------------------------------------------
(* Users and the administrator.                                            *)

\* wiki_add: the document's id is its slug and a hash of its text, so a note that is
\* waiting is written again in place.
Capture ==
    /\ used.note < MaxNotes /\ used' = [used EXCEPT !.note = @ + 1]
    /\ \E n \in Notes \ inbox : inbox' = inbox \cup {n}
    /\ UNCHANGED <<merged, page, review, decision, run>> /\ HistoryKeeps

\* PUT wiki-pages: the new body replaces the page's, the stamp protects it.
HumanEdit(s) ==
    /\ used.trouble < MaxTrouble /\ used' = [used EXCEPT !.trouble = @ + 1]
    /\ page' = [page EXCEPT ![s] = [@ EXCEPT !.live = TRUE, !.has = {}, !.edited = TRUE,
                                             !.edits = {used'.trouble}]]
    /\ wiped' = wiped \cup page[s].has
    /\ newest' = [x \in Slugs |-> IF x = s THEN used'.trouble
                                  ELSE IF newest[x] \in page[s].edits THEN 0 ELSE newest[x]]
    /\ UNCHANGED <<inbox, merged, review, decision, run, cut, refused>>

HumanDelete(s) ==
    /\ page[s].live /\ used.trouble < MaxTrouble /\ used' = [used EXCEPT !.trouble = @ + 1]
    /\ page' = [page EXCEPT ![s] = NoPage]
    /\ wiped' = wiped \cup page[s].has
    /\ newest' = [x \in Slugs |-> IF x = s \/ newest[x] \in page[s].edits THEN 0 ELSE newest[x]]
    /\ UNCHANGED <<inbox, merged, review, decision, run, cut, refused>>

\* Is the claim on its page, or on the page a run is about to write?
Shown(h) ==
    \/ \E n \in page[h[1]].has : n.says = h[2]
    \/ \E r \in Runners : \E n \in run[r].page.has : n.says = h[2]

\* POST wiki-review, of a claim the queue lists, open or closed: the decision is kept for
\* the next run, the record is closed and is never opened again.
Adjudicate(h, what) ==
    /\ review[h] # "none" /\ used.trouble < MaxTrouble /\ used' = [used EXCEPT !.trouble = @ + 1]
    /\ decision' = [decision EXCEPT ![h] = what]
    /\ review' = [review EXCEPT ![h] = what]
    /\ refused' = IF what = "reject" /\ ~Shown(h) THEN refused \cup {h} ELSE refused \ {h}
    /\ UNCHANGED <<inbox, merged, page, run, wiped, cut, newest>>

-----------------------------------------------------------------------------
(* A merge run.                                                            *)

\* The order of reading: by user, then by name.
Before(m, n) == m.by < n.by \/ (m.by = n.by /\ m.on < n.on)

\* _canonicalize and the verifier: a spelling that is known stays; another becomes the
\* first known one, or is kept apart when the verifier says no or fails.
Canonical(on) ==
    \A n \in inbox :
        LET known == Published \cup {on[m] : m \in {x \in inbox : Before(x, n)}} IN
        on[n] \in IF known = {} \/ n.on \in known THEN {n.on} ELSE {Min(known), n.on}

\* What has a record is skipped, whatever the record says, while no decision is in force.
Waits(h) == review[h] # "none" /\ decision[h] = "none"

Batch(on) == [s \in Slugs |-> {n \in inbox : on[n] = s /\ ~Waits(<<s, n.says>>)}]

\* One run per tenant: flock on the store's directory; who loses skips.
Unlocked_Always == TRUE
Unlocked == \A r \in Runners : run[r].at = "idle"

CollectNotes(r) ==
    /\ run[r].at = "idle" /\ Unlocked
    /\ \E on \in [inbox -> Slugs] :
         /\ Canonical(on)
         /\ run' = [run EXCEPT ![r] = [Idle EXCEPT !.at = "next", !.batch = Batch(on)]]
         /\ run'[r].batch # Idle.batch
    /\ UNCHANGED <<inbox, merged, page, review, decision, used>> /\ HistoryKeeps

\* The page is read, then every claim of the slug is classified against it.
ReadPage(r) ==
    /\ run[r].at = "next"
    /\ \E s \in Slugs :
         /\ run[r].batch[s] # {} /\ \A x \in Slugs : run[r].batch[x] # {} => s <= x
         /\ run' = [run EXCEPT ![r].at = "classified", ![r].slug = s, ![r].page = page[s]]
    /\ UNCHANGED <<inbox, merged, page, review, decision, used>> /\ HistoryKeeps

Verdicts == {"fits", "supersedes", "contradicts", "wrong"}

\* The human's word on a claim.  The first note that makes it uses it up: the note's
\* own resolution is recorded in its place.
Override(n, s, notes) ==
    IF \E m \in notes : m.says = n.says /\ Before(m, n) THEN "none" ELSE decision[<<s, n.says>>]

\* conflict.resolve, and the protection of a page a human has edited.
Resolve(n, verdict, support, override, shielded) ==
    IF override = "reject" THEN "reject"
    ELSE IF override = "accept" THEN IF verdict = "supersedes" THEN "supersede" ELSE "add"
    ELSE IF verdict = "fits" THEN "add"
    ELSE IF verdict = "supersedes" THEN IF shielded THEN "quarantine" ELSE "supersede"
    ELSE IF verdict = "wrong" THEN "reject"
    ELSE IF support < Quorum THEN "contest"
    ELSE IF n.by \notin Citing \/ shielded THEN "quarantine"
    ELSE "overturn"

Held == {"quarantine", "reject"}

\* The page with what is published folded in; the last mark on it counts.
Folded(old, news, action) ==
    [old EXCEPT !.live = TRUE, !.has = @ \cup news,
                !.contested = \/ \E n \in news : action[n] = "contest"
                              \/ @ /\ \A n \in news : action[n] # "overturn"]

\* All claims of the slug, with no await in between.
Decide(r) ==
    LET s == run[r].slug
        notes == run[r].batch[s]
        old == run[r].page IN
    /\ run[r].at = "classified"
    /\ \E verdict \in [notes -> Verdicts] :
         LET against == {n.by : n \in {m \in notes : verdict[m] \in {"contradicts", "supersedes"}}}
             action == [n \in notes |->
                          Resolve(n, verdict[n], Cardinality(against), Override(n, s, notes),
                                  old.edited)]
             news == {n \in notes : action[n] \notin Held} IN
         /\ run' = [run EXCEPT ![r].at = IF news = {} THEN "filed" ELSE "polishing",
                               ![r].page = IF news = {} THEN NoPage ELSE Folded(old, news, action),
                               ![r].out = news]
         /\ review' = [h \in Claims |->
                IF /\ review[h] = "none"
                   /\ \E n \in notes : h = <<s, n.says>> /\ action[n] \in Held \cup {"contest"}
                THEN "pending" ELSE review[h]]
         /\ decision' = [h \in Claims |-> IF \E n \in notes : h = <<s, n.says>> THEN "none"
                                          ELSE decision[h]]
    /\ UNCHANGED <<inbox, merged, page, used>> /\ HistoryKeeps

\* The model has rewritten the text: the page is replaced, then the notes are archived.
WritePage(r) ==
    /\ run[r].at = "polishing" /\ Step(r, "filing")
    /\ page' = [page EXCEPT ![run[r].slug] = run[r].page]
    /\ UNCHANGED <<inbox, merged, review, decision, used>> /\ HistoryKeeps

Archive(r) ==
    /\ run[r].at = "filing" /\ Step(r, "filed")
    /\ inbox' = inbox \ run[r].out /\ merged' = merged \cup (run[r].out \cap inbox)
    /\ UNCHANGED <<page, review, decision, used>> /\ HistoryKeeps

\* The next slug, or the end of the run.
SlugDone(r) ==
    LET batch == [run[r].batch EXCEPT ![run[r].slug] = {}] IN
    /\ run[r].at = "filed"
    /\ run' = [run EXCEPT ![r] = IF batch = Idle.batch THEN Idle
                                 ELSE [Idle EXCEPT !.at = "next", !.batch = batch]]
    /\ UNCHANGED <<inbox, merged, page, review, decision, used>> /\ HistoryKeeps

-----------------------------------------------------------------------------
(* A fold run: Librarian.compact.                                          *)

StartFold(r) ==
    /\ r \in Compactors /\ run[r].at = "idle" /\ Unlocked /\ Cardinality(Published) > 1
    /\ used.compact < MaxCompacts /\ used' = [used EXCEPT !.compact = @ + 1]
    /\ \E s \in Published :
         /\ \A x \in Published : s <= x
         /\ run' = [run EXCEPT ![r] = [Idle EXCEPT !.at = "folding", !.slug = s, !.page = page[s],
                                                  !.left = Published \ {s}]]
    /\ UNCHANGED <<inbox, merged, page, review, decision>> /\ HistoryKeeps

\* The next page of the group; while the verifier is asked anything may happen to it.
ReadOther(r) ==
    /\ run[r].at = "folding"
    /\ \E s \in run[r].left :
         /\ \A x \in run[r].left : s <= x
         /\ run' = [run EXCEPT ![r].at = IF page[s].live THEN "asking" ELSE "folding",
                               ![r].left = @ \ {s}, ![r].other = s, ![r].copy = page[s]]
    /\ UNCHANGED <<inbox, merged, page, review, decision, used>> /\ HistoryKeeps

\* What the verifier approves is folded in from the copy that was read, and the other
\* page is deleted as it is by now.
FoldOne(r) ==
    /\ run[r].at = "asking"
    /\ \/ Step(r, "folding") /\ UNCHANGED page
       \/ /\ run' = [run EXCEPT ![r].at = "folding", ![r].folded = TRUE,
                                 ![r].page.has = @ \cup run[r].copy.has,
                                 ![r].page.edits = @ \cup run[r].copy.edits]
          /\ page' = [page EXCEPT ![run[r].other] = NoPage]
    /\ UNCHANGED <<inbox, merged, review, decision, used>> /\ HistoryKeeps

WriteFold(r) ==
    /\ run[r].at = "folding" /\ run[r].left = {}
    /\ run' = [run EXCEPT ![r] = Idle]
    /\ page' = IF run[r].folded THEN [page EXCEPT ![run[r].slug] = run[r].page] ELSE page
    /\ UNCHANGED <<inbox, merged, review, decision, used>> /\ HistoryKeeps

-----------------------------------------------------------------------------

CutOff_LockStays(r) ==
    /\ run[r].at # "idle" /\ used.trouble < MaxTrouble /\ used' = [used EXCEPT !.trouble = @ + 1]
    /\ run' = [run EXCEPT ![r] = [Idle EXCEPT !.at = "dead"]]
    /\ UNCHANGED <<inbox, merged, page, review, decision>> /\ HistoryKeeps

\* Cancelled at shutdown, or killed: the lock goes with it.
CutOff(r) ==
    /\ run[r].at # "idle" /\ used.trouble < MaxTrouble /\ used' = [used EXCEPT !.trouble = @ + 1]
    /\ run' = [run EXCEPT ![r] = Idle]
    /\ cut' = cut \cup {n \in run[r].page.has :
                          run[r].folded /\ \A s \in Slugs : n \notin page[s].has}
    /\ UNCHANGED <<inbox, merged, page, review, decision, wiped, refused, newest>>

\* A model that fails on one page's claims: the run goes on with the next page.
SlugFails(r) ==
    /\ run[r].at = "classified" /\ Step(r, "filed")
    /\ used.trouble < MaxTrouble /\ used' = [used EXCEPT !.trouble = @ + 1]
    /\ UNCHANGED <<inbox, merged, page, review, decision>> /\ HistoryKeeps

RunStep(r) ==
    \/ CollectNotes(r) \/ ReadPage(r) \/ Decide(r) \/ WritePage(r) \/ Archive(r) \/ SlugDone(r)
    \/ StartFold(r) \/ ReadOther(r) \/ FoldOne(r) \/ WriteFold(r)

WikiNext ==
    \/ Capture
    \/ \E s \in Slugs : HumanEdit(s) \/ HumanDelete(s)
    \/ \E h \in Claims, what \in {"accept", "reject"} : Adjudicate(h, what)
    \/ \E r \in Runners : RunStep(r) \/ SlugFails(r) \/ CutOff(r)

\* The scheduler's loop outlives a failed tick and comes round again; a run that has
\* started goes on as its awaits return.
WikiFairness == WF_wikiVars(\E r \in Runners : RunStep(r))
WikiSpec == WikiInit /\ [][WikiNext]_wikiVars /\ WikiFairness

-----------------------------------------------------------------------------

Stations == {"idle", "next", "classified", "polishing", "filing", "filed", "folding", "asking"}
Pages == [live : BOOLEAN, has : SUBSET Notes, contested : BOOLEAN, edited : BOOLEAN,
          edits : SUBSET Nat]
Progress == [at : Stations, batch : [Slugs -> SUBSET Notes], slug : Slugs \cup {0}, page : Pages,
             out : SUBSET Notes, left : SUBSET Slugs, other : Slugs \cup {0}, copy : Pages,
             folded : BOOLEAN]

\* What a page has and what a run holds are notes that somebody wrote.
WikiTypeOK ==
    /\ inbox \subseteq Notes /\ merged \subseteq Notes
    /\ page \in [Slugs -> Pages] /\ run \in [Runners -> Progress]
    /\ wiped \subseteq Notes /\ cut \subseteq Notes
    /\ used \in [note : Nat, compact : Nat, trouble : Nat]

\* What a user was told is merged stays readable: a note that was archived is on a page,
\* or on the page a fold is about to write, unless an administrator replaced or deleted
\* that page or a fold was killed half way.  A run writes back what it read before it
\* awaited the model, so this is the lock's work.
ArchivedIsKept ==
    \A n \in merged \ (wiped \cup cut) :
        \/ \E s \in Slugs : n \in page[s].has
        \/ \E r \in Runners : n \in run[r].page.has

\* Whatever dies on the way, the captured notes are worked off: when users stop adding,
\* a note that is left in an inbox has been seen, and it waits for an administrator, or one
\* has refused its claim, or one has accepted it and a note has used that decision up.
Answered(h) == review[h] = "reject" \/ (review[h] = "accept" /\ decision[h] = "none")
NotesSettle ==
    []<>(\A n \in inbox : \E s \in Slugs :
             review[<<s, n.says>>] = "pending" \/ Answered(<<s, n.says>>))

\* wiki/store.py:320 says of a decision that "resolve() honors [it] on every later
\* librarian run": what an administrator accepted does not stay in an inbox for ever.
AcceptedIsMerged ==
    []<>(\A n \in inbox : \A s \in Slugs : review[<<s, n.says>>] # "accept")

\* "A manual correction survives every run" (service/admin_routes.py:296-299): the
\* latest correction of a page is on a page, or on one a run is about to write.
EditsSurvive ==
    \A s \in Slugs : newest[s] # 0 =>
        \/ \E x \in Slugs : newest[s] \in page[x].edits
        \/ \E r \in Runners : newest[s] \in run[r].page.edits

\* "A human adjudication for a claim-hash wins and is idempotent" (wiki/conflict.py:37):
\* a claim that was rejected while it was on no page does not appear on its page.
RejectedStaysOut ==
    \A h \in refused : ~\E n \in page[h[1]].has : n.says = h[2]
=============================================================================
