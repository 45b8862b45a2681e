----------------------------- MODULE WikiProofs -----------------------------
(***************************************************************************)
(* An archived note stays readable, for any number of users, pages and     *)
(* librarian runs.                                                         *)
(*                                                                         *)
(* A run writes back a page it read before it awaited the model.  The      *)
(* invariant says that its copy has every note the page has (CopyCovers):  *)
(* the lock keeps other runs away in between, and an administrator only    *)
(* takes notes off the page, which is accounted for in wiped.              *)
(***************************************************************************)
EXTENDS Wiki, TLAPS

OneRun == \A r, q \in Runners : run[r].at # "idle" /\ run[q].at # "idle" => r = q

HasSlug(r) ==
    run[r].at \in {"classified", "polishing", "filing", "filed", "folding", "asking"} =>
        run[r].slug \in Slugs

\* The run's copies have all that is on the pages it will replace or delete.
CopyCovers(r) ==
    /\ run[r].at \in {"classified", "polishing", "folding", "asking"} =>
         page[run[r].slug].has \subseteq run[r].page.has
    /\ run[r].at = "asking" =>
         /\ run[r].other \in Slugs /\ run[r].other # run[r].slug
         /\ page[run[r].other].has \subseteq run[r].copy.has
    /\ run[r].at \in {"folding", "asking"} => run[r].slug \notin run[r].left

\* What a merge is about to archive is on the page it writes, then on the page.
OutIsPublished(r) ==
    /\ run[r].at = "polishing" => run[r].out \subseteq run[r].page.has
    /\ run[r].at = "filing" => run[r].out \subseteq page[run[r].slug].has \cup wiped

OnlyFoldsFold(r) == run[r].folded => run[r].at \in {"folding", "asking"}

RunOK(r) == HasSlug(r) /\ CopyCovers(r) /\ OutIsPublished(r) /\ OnlyFoldsFold(r)

\* A note is on a page, or a fold that has deleted its page holds it.
Readable(n) ==
    \/ \E s \in Slugs : n \in page[s].has
    \/ \E r \in Runners : run[r].folded /\ n \in run[r].page.has
    \/ n \in wiped \cup cut

WikiInv ==
    /\ WikiTypeOK /\ OneRun /\ (\A r \in Runners : RunOK(r))
    /\ \A n \in merged : Readable(n)

\* This is what the property asks for.
LEMMA WikiInvImplies == WikiInv => ArchivedIsKept
  BY DEF WikiInv, Readable, ArchivedIsKept

LEMMA IdleRun ==
    /\ Idle \in Progress /\ Idle.at = "idle" /\ Idle.out = {} /\ ~Idle.folded
    /\ NoPage \in Pages /\ NoPage.has = {}
  BY DEF Idle, Progress, Stations, NoPage, Pages

\* A step of one run: the others are idle, and stay so.
LEMMA OneRunMoves ==
    ASSUME WikiInv, NEW r \in Runners, WikiTypeOK',
           \A q \in Runners : q # r => run'[q] = run[q],
           run'[r].at # "idle" => run[r].at # "idle" \/ Unlocked,
           RunOK(r)', \A n \in merged' : Readable(n)',
           run[r].at = "idle" => page' = page /\ wiped' = wiped
    PROVE  WikiInv'
  <1>1. OneRun'
    BY DEF WikiInv, OneRun, Unlocked
  <1>2. ASSUME NEW q \in Runners, q # r PROVE RunOK(q)'
    <2>1. run'[q] = run[q] /\ RunOK(q)
      BY <1>2 DEF WikiInv
    <2>2. CASE run[r].at # "idle"
      <3>1. run[q].at = "idle"
        BY <2>2, <1>2 DEF WikiInv, OneRun
      <3> QED BY <2>1, <3>1 DEF RunOK, HasSlug, CopyCovers, OutIsPublished, OnlyFoldsFold
    <2>3. CASE run[r].at = "idle"
      BY <2>1, <2>3 DEF RunOK, HasSlug, CopyCovers, OutIsPublished, OnlyFoldsFold
    <2> QED BY <2>2, <2>3
  <1> QED BY <1>1, <1>2 DEF WikiInv

\* A step that changes nothing but what one run holds.
LEMMA OnlyTheRunMoves ==
    ASSUME WikiInv, NEW r \in Runners, UNCHANGED <<merged, page, wiped, cut>>,
           inbox' \subseteq inbox, used' \in [note : Nat, compact : Nat, trouble : Nat],
           NEW held \in Progress, run' = [run EXCEPT ![r] = held],
           held.at # "idle" => run[r].at # "idle" \/ Unlocked,
           RunOK(r)',
           run[r].folded => held.folded /\ run[r].page.has \subseteq held.page.has
    PROVE  WikiInv'
  <1>1. /\ run'[r] = held
        /\ \A q \in Runners : q # r => run'[q] = run[q]
    BY DEF WikiInv, WikiTypeOK
  <1>2. WikiTypeOK'
    BY DEF WikiInv, WikiTypeOK
  <1>3. \A n \in merged' : Readable(n)'
    BY <1>1 DEF WikiInv, Readable
  <1> QED BY <1>1, <1>2, <1>3, OneRunMoves

-----------------------------------------------------------------------------
(* Users and the administrator.                                            *)

LEMMA CaptureKeeps ==
    ASSUME WikiInv, Capture
    PROVE  WikiInv'
  <1>1. used' \in [note : Nat, compact : Nat, trouble : Nat] /\ inbox' \subseteq Notes
    BY DEF WikiInv, WikiTypeOK, Capture
  <1>2. WikiTypeOK'
    BY <1>1 DEF WikiInv, WikiTypeOK, Capture, HistoryKeeps
  <1> QED BY <1>2 DEF WikiInv, OneRun, RunOK, HasSlug, CopyCovers, OutIsPublished, OnlyFoldsFold,
                      Readable, Capture, HistoryKeeps

\* A page that loses all its notes to a human hand.
LEMMA HumanHand ==
    ASSUME WikiInv, NEW s \in Slugs, NEW p \in Pages, p.has = {},
           page' = [page EXCEPT ![s] = p], wiped' = wiped \cup page[s].has,
           UNCHANGED <<inbox, merged, run, cut>>,
           used' \in [note : Nat, compact : Nat, trouble : Nat]
    PROVE  WikiInv'
  <1>1. \A x \in Slugs : page'[x].has = IF x = s THEN {} ELSE page[x].has
    BY DEF WikiInv, WikiTypeOK
  <1>2. \A x \in Slugs : page[x].has \subseteq page'[x].has \cup wiped'
    BY <1>1
  <1>3. WikiTypeOK'
    <2>1. page[s] \in Pages
      BY DEF WikiInv, WikiTypeOK
    <2>2. page[s].has \subseteq Notes
      BY <2>1 DEF Pages
    <2> QED BY <2>2 DEF WikiInv, WikiTypeOK
  <1>4. \A r \in Runners : RunOK(r)'
    <2> SUFFICES ASSUME NEW r \in Runners PROVE RunOK(r)'
      OBVIOUS
    <2>1. RunOK(r)
      BY DEF WikiInv
    <2>2. HasSlug(r)' /\ OnlyFoldsFold(r)'
      BY <2>1 DEF RunOK, HasSlug, OnlyFoldsFold
    <2>3. CopyCovers(r)'
      BY <1>1, <2>1 DEF RunOK, HasSlug, CopyCovers
    <2>4. OutIsPublished(r)'
      BY <1>2, <2>1 DEF RunOK, HasSlug, OutIsPublished
    <2> QED BY <2>2, <2>3, <2>4 DEF RunOK
  <1>5. \A n \in merged' : Readable(n)'
    BY <1>2 DEF WikiInv, Readable
  <1> QED BY <1>3, <1>4, <1>5 DEF WikiInv, OneRun

LEMMA HumanKeeps ==
    ASSUME WikiInv, NEW s \in Slugs, HumanEdit(s) \/ HumanDelete(s)
    PROVE  WikiInv'
  <1>1. page[s] \in Pages /\ used' \in [note : Nat, compact : Nat, trouble : Nat]
    BY DEF WikiInv, WikiTypeOK, HumanEdit, HumanDelete
  <1>2. CASE HumanEdit(s)
    <2> DEFINE p == [page[s] EXCEPT !.live = TRUE, !.has = {}, !.edited = TRUE,
                                    !.edits = {used'.trouble}]
    <2>1. p \in Pages /\ p.has = {}
      BY <1>1 DEF Pages
    <2>2. page' = [page EXCEPT ![s] = p]
      BY <1>2 DEF HumanEdit
    <2> HIDE DEF p
    <2> QED BY <1>1, <1>2, <2>1, <2>2, HumanHand DEF HumanEdit
  <1>3. CASE HumanDelete(s)
    BY <1>1, <1>3, IdleRun, HumanHand DEF HumanDelete
  <1> QED BY <1>2, <1>3

LEMMA AdjudicateKeeps ==
    ASSUME WikiInv, NEW h \in Claims, NEW what \in {"accept", "reject"}, Adjudicate(h, what)
    PROVE  WikiInv'
  <1>1. used' \in [note : Nat, compact : Nat, trouble : Nat]
    BY DEF WikiInv, WikiTypeOK, Adjudicate
  <1>2. WikiTypeOK'
    BY <1>1 DEF WikiInv, WikiTypeOK, Adjudicate
  <1> QED BY <1>2 DEF WikiInv, OneRun, RunOK, HasSlug, CopyCovers, OutIsPublished, OnlyFoldsFold,
                      Readable, Adjudicate

-----------------------------------------------------------------------------
(* A merge run.                                                            *)

LEMMA CollectNotesKeeps ==
    ASSUME WikiInv, NEW r \in Runners, CollectNotes(r)
    PROVE  WikiInv'
  <1>1. PICK on \in [inbox -> Slugs] :
          run' = [run EXCEPT ![r] = [Idle EXCEPT !.at = "next", !.batch = Batch(on)]]
    BY DEF CollectNotes
  <1> DEFINE held == [Idle EXCEPT !.at = "next", !.batch = Batch(on)]
  <1>2. Batch(on) \in [Slugs -> SUBSET Notes]
    BY DEF WikiInv, WikiTypeOK, Batch
  <1>3. held \in Progress /\ held.at = "next" /\ ~held.folded
    BY <1>2, IdleRun DEF Progress, Stations
  <1>4. run' = [run EXCEPT ![r] = held]
    BY <1>1
  <1> HIDE DEF held
  <1>5. RunOK(r)'
    BY <1>3, <1>4 DEF WikiInv, WikiTypeOK, RunOK, HasSlug, CopyCovers, OutIsPublished, OnlyFoldsFold
  <1>6. ~run[r].folded
    BY DEF WikiInv, RunOK, OnlyFoldsFold, CollectNotes
  <1>7. /\ UNCHANGED <<merged, page, wiped, cut>> /\ inbox' \subseteq inbox /\ Unlocked
        /\ used' \in [note : Nat, compact : Nat, trouble : Nat]
    BY DEF CollectNotes, HistoryKeeps, WikiInv, WikiTypeOK
  <1> QED BY <1>3, <1>4, <1>5, <1>6, <1>7, OnlyTheRunMoves

LEMMA ReadPageKeeps ==
    ASSUME WikiInv, NEW r \in Runners, ReadPage(r)
    PROVE  WikiInv'
  <1>1. PICK s \in Slugs :
          run' = [run EXCEPT ![r].at = "classified", ![r].slug = s, ![r].page = page[s]]
    BY DEF ReadPage
  <1> DEFINE held == [run[r] EXCEPT !.at = "classified", !.slug = s, !.page = page[s]]
  <1>2. run[r] \in Progress /\ page[s] \in Pages
    BY DEF WikiInv, WikiTypeOK
  <1>3. ~run[r].folded
    BY DEF WikiInv, RunOK, OnlyFoldsFold, ReadPage
  <1>4. /\ held \in Progress /\ held.at = "classified" /\ held.slug = s /\ held.page = page[s]
        /\ ~held.folded
    BY <1>2, <1>3 DEF Progress, Stations
  <1>5. run' = [run EXCEPT ![r] = held]
    BY <1>1
  <1> HIDE DEF held
  <1>6. /\ UNCHANGED <<merged, page, wiped, cut>> /\ inbox' \subseteq inbox /\ run[r].at # "idle"
        /\ used' \in [note : Nat, compact : Nat, trouble : Nat]
    BY DEF ReadPage, HistoryKeeps, WikiInv, WikiTypeOK
  <1>7. run'[r] = held
    BY <1>5 DEF WikiInv, WikiTypeOK
  <1>8. RunOK(r)'
    BY <1>4, <1>6, <1>7 DEF RunOK, HasSlug, CopyCovers, OutIsPublished, OnlyFoldsFold
  <1> QED BY <1>3, <1>4, <1>5, <1>6, <1>8, OnlyTheRunMoves

LEMMA FoldedPage ==
    ASSUME NEW old \in Pages, NEW news \in SUBSET Notes, NEW action
    PROVE  Folded(old, news, action) \in Pages /\ Folded(old, news, action).has = old.has \cup news
  BY DEF Folded, Pages

LEMMA DecideKeeps ==
    ASSUME WikiInv, NEW r \in Runners, Decide(r)
    PROVE  WikiInv'
  <1> DEFINE s == run[r].slug
             notes == run[r].batch[s]
             old == run[r].page
  <1>1. /\ run[r] \in Progress /\ s \in Slugs /\ page[s].has \subseteq old.has
        /\ ~run[r].folded
    BY DEF WikiInv, WikiTypeOK, RunOK, HasSlug, CopyCovers, OnlyFoldsFold, Decide
  <1>2. notes \subseteq Notes /\ old \in Pages
    BY <1>1 DEF Progress
  <1>0. PICK news \in SUBSET Notes : \E act :
          run' = [run EXCEPT ![r].at = IF news = {} THEN "filed" ELSE "polishing",
                             ![r].page = IF news = {} THEN NoPage ELSE Folded(old, news, act),
                             ![r].out = news]
    BY <1>2 DEF Decide
  <1>3. PICK action :
          run' = [run EXCEPT ![r].at = IF news = {} THEN "filed" ELSE "polishing",
                             ![r].page = IF news = {} THEN NoPage ELSE Folded(old, news, action),
                             ![r].out = news]
    BY <1>0
  <1> DEFINE a == IF news = {} THEN "filed" ELSE "polishing"
             p == IF news = {} THEN NoPage ELSE Folded(old, news, action)
             held == [run[r] EXCEPT !.at = a, !.page = p, !.out = news]
  <1>4. /\ p \in Pages /\ a \in {"filed", "polishing"}
        /\ a = "polishing" => p.has = old.has \cup news
    BY <1>2, FoldedPage, IdleRun
  <1>5. run' = [run EXCEPT ![r] = held]
    BY <1>3
  <1> HIDE DEF a, p
  <1>6. /\ held \in Progress /\ held.at = a /\ held.slug = s /\ held.page = p /\ held.out = news
        /\ ~held.folded
    BY <1>1, <1>4 DEF Progress, Stations
  <1> HIDE DEF held
  <1>7. /\ UNCHANGED <<merged, page, wiped, cut>> /\ inbox' \subseteq inbox /\ run[r].at # "idle"
        /\ used' \in [note : Nat, compact : Nat, trouble : Nat]
    BY DEF Decide, HistoryKeeps, WikiInv, WikiTypeOK
  <1>8. run'[r] = held
    BY <1>5 DEF WikiInv, WikiTypeOK
  <1>9. RunOK(r)'
    BY <1>1, <1>4, <1>6, <1>7, <1>8 DEF RunOK, HasSlug, CopyCovers, OutIsPublished, OnlyFoldsFold
  <1> QED BY <1>1, <1>5, <1>6, <1>7, <1>9, OnlyTheRunMoves

LEMMA WritePageKeeps ==
    ASSUME WikiInv, NEW r \in Runners, WritePage(r)
    PROVE  WikiInv'
  <1> DEFINE s == run[r].slug
  <1>1. /\ run[r] \in Progress /\ s \in Slugs /\ page[s].has \subseteq run[r].page.has
        /\ run[r].out \subseteq run[r].page.has /\ ~run[r].folded
    BY DEF WikiInv, WikiTypeOK, RunOK, HasSlug, CopyCovers, OutIsPublished, OnlyFoldsFold, WritePage
  <1>2. /\ run'[r] = [run[r] EXCEPT !.at = "filing"]
        /\ \A q \in Runners : q # r => run'[q] = run[q]
    BY DEF WikiInv, WikiTypeOK, WritePage, Step
  <1>3. /\ run'[r].at = "filing" /\ run'[r].slug = s /\ run'[r].out = run[r].out
        /\ ~run'[r].folded /\ run'[r] \in Progress
    BY <1>1, <1>2 DEF Progress, Stations
  <1>4. \A x \in Slugs : page'[x] = IF x = s THEN run[r].page ELSE page[x]
    BY DEF WikiInv, WikiTypeOK, WritePage
  <1>5. WikiTypeOK'
    <2>1. run' \in [Runners -> Progress]
      BY <1>2, <1>3 DEF WikiInv, WikiTypeOK, WritePage, Step
    <2>2. page' \in [Slugs -> Pages]
      BY <1>1 DEF WikiInv, WikiTypeOK, WritePage, Progress
    <2> QED BY <2>1, <2>2 DEF WikiInv, WikiTypeOK, WritePage, HistoryKeeps
  <1>6. RunOK(r)'
    BY <1>1, <1>3, <1>4 DEF RunOK, HasSlug, CopyCovers, OutIsPublished, OnlyFoldsFold
  <1>7. \A n \in merged' : Readable(n)'
    BY <1>1, <1>2, <1>4 DEF WikiInv, Readable, WritePage, HistoryKeeps
  <1> QED BY <1>2, <1>5, <1>6, <1>7, OneRunMoves DEF WritePage

LEMMA ArchiveKeeps ==
    ASSUME WikiInv, NEW r \in Runners, Archive(r)
    PROVE  WikiInv'
  <1> DEFINE s == run[r].slug
  <1>1. /\ run[r] \in Progress /\ s \in Slugs
        /\ run[r].out \subseteq page[s].has \cup wiped /\ ~run[r].folded
    BY DEF WikiInv, WikiTypeOK, RunOK, HasSlug, OutIsPublished, OnlyFoldsFold, Archive
  <1>2. /\ run'[r] = [run[r] EXCEPT !.at = "filed"]
        /\ \A q \in Runners : q # r => run'[q] = run[q]
    BY DEF WikiInv, WikiTypeOK, Archive, Step
  <1>3. /\ run'[r].at = "filed" /\ run'[r].slug = s /\ ~run'[r].folded /\ run'[r] \in Progress
    BY <1>1, <1>2 DEF Progress, Stations
  <1>4. WikiTypeOK'
    <2>1. run' \in [Runners -> Progress]
      BY <1>2, <1>3 DEF WikiInv, WikiTypeOK, Archive, Step
    <2> QED BY <2>1 DEF WikiInv, WikiTypeOK, Archive, HistoryKeeps
  <1>5. RunOK(r)'
    BY <1>1, <1>3 DEF RunOK, HasSlug, CopyCovers, OutIsPublished, OnlyFoldsFold
  <1>6. \A n \in merged' : Readable(n)'
    <2>1. \A n \in merged : Readable(n)'
      BY <1>1, <1>2 DEF WikiInv, Readable, Archive, HistoryKeeps
    <2>2. \A n \in run[r].out : Readable(n)'
      BY <1>1 DEF Readable, Archive, HistoryKeeps
    <2> QED BY <2>1, <2>2 DEF Archive
  <1> QED BY <1>2, <1>4, <1>5, <1>6, OneRunMoves DEF Archive

\* A run that gives up a page, or is done with it.
LEMMA LetGoKeeps ==
    ASSUME WikiInv, NEW r \in Runners, run[r].at # "idle", ~run[r].folded,
           UNCHANGED <<inbox, merged, page, wiped, cut>>,
           used' \in [note : Nat, compact : Nat, trouble : Nat],
           NEW held \in Progress, run' = [run EXCEPT ![r] = held],
           held.at \in {"idle", "next", "filed"}, ~held.folded,
           held.at = "filed" => held.slug \in Slugs
    PROVE  WikiInv'
  <1>1. run'[r] = held
    BY DEF WikiInv, WikiTypeOK
  <1>2. RunOK(r)'
    BY <1>1 DEF RunOK, HasSlug, CopyCovers, OutIsPublished, OnlyFoldsFold
  <1> QED BY <1>2, OnlyTheRunMoves

LEMMA SlugDoneKeeps ==
    ASSUME WikiInv, NEW r \in Runners, SlugDone(r)
    PROVE  WikiInv'
  <1> DEFINE b == [run[r].batch EXCEPT ![run[r].slug] = {}]
  <1>1. run[r] \in Progress /\ ~run[r].folded
    BY DEF WikiInv, WikiTypeOK, RunOK, OnlyFoldsFold, SlugDone
  <1>2. b \in [Slugs -> SUBSET Notes]
    BY <1>1 DEF Progress
  <1>3. /\ UNCHANGED <<inbox, merged, page, wiped, cut>> /\ run[r].at # "idle"
        /\ used' \in [note : Nat, compact : Nat, trouble : Nat]
    BY DEF SlugDone, HistoryKeeps, WikiInv, WikiTypeOK
  <1>4. CASE run' = [run EXCEPT ![r] = Idle]
    BY <1>1, <1>3, <1>4, IdleRun, LetGoKeeps
  <1>5. CASE run' = [run EXCEPT ![r] = [Idle EXCEPT !.at = "next", !.batch = b]]
    <2> DEFINE held == [Idle EXCEPT !.at = "next", !.batch = b]
    <2>1. held \in Progress /\ held.at = "next" /\ ~held.folded
      BY <1>2, IdleRun DEF Progress, Stations
    <2> HIDE DEF held
    <2>2. run' = [run EXCEPT ![r] = held]
      BY <1>5 DEF held
    <2> QED BY <1>1, <1>3, <2>1, <2>2, LetGoKeeps
  <1> QED BY <1>4, <1>5 DEF SlugDone

LEMMA SlugFailsKeeps ==
    ASSUME WikiInv, NEW r \in Runners, SlugFails(r)
    PROVE  WikiInv'
  <1> DEFINE held == [run[r] EXCEPT !.at = "filed"]
  <1>1. run[r] \in Progress /\ ~run[r].folded /\ run[r].slug \in Slugs
    BY DEF WikiInv, WikiTypeOK, RunOK, HasSlug, OnlyFoldsFold, SlugFails
  <1>2. held \in Progress /\ held.at = "filed" /\ held.slug \in Slugs /\ ~held.folded
    BY <1>1 DEF Progress, Stations
  <1>3. /\ UNCHANGED <<inbox, merged, page, wiped, cut>> /\ run[r].at # "idle"
        /\ used' \in [note : Nat, compact : Nat, trouble : Nat]
    BY DEF SlugFails, HistoryKeeps, WikiInv, WikiTypeOK
  <1>4. run' = [run EXCEPT ![r] = held]
    BY DEF SlugFails, Step
  <1> HIDE DEF held
  <1> QED BY <1>1, <1>2, <1>3, <1>4, LetGoKeeps

-----------------------------------------------------------------------------
(* A fold run.                                                             *)

LEMMA StartFoldKeeps ==
    ASSUME WikiInv, NEW r \in Runners, StartFold(r)
    PROVE  WikiInv'
  <1>1. PICK s \in Published :
          run' = [run EXCEPT ![r] = [Idle EXCEPT !.at = "folding", !.slug = s, !.page = page[s],
                                                !.left = Published \ {s}]]
    BY DEF StartFold
  <1> DEFINE held == [Idle EXCEPT !.at = "folding", !.slug = s, !.page = page[s],
                                  !.left = Published \ {s}]
  <1>2. s \in Slugs /\ page[s] \in Pages /\ Published \subseteq Slugs /\ ~run[r].folded
    BY DEF WikiInv, WikiTypeOK, Published, RunOK, OnlyFoldsFold, StartFold
  <1>3. /\ held \in Progress /\ held.at = "folding" /\ held.slug = s /\ held.page = page[s]
        /\ held.left = Published \ {s} /\ ~held.folded
    BY <1>2, IdleRun DEF Progress, Stations
  <1>4. run' = [run EXCEPT ![r] = held]
    BY <1>1
  <1> HIDE DEF held
  <1>5. /\ UNCHANGED <<merged, page, wiped, cut>> /\ inbox' \subseteq inbox /\ Unlocked
        /\ used' \in [note : Nat, compact : Nat, trouble : Nat]
    BY DEF StartFold, HistoryKeeps, WikiInv, WikiTypeOK
  <1>6. run'[r] = held
    BY <1>4 DEF WikiInv, WikiTypeOK
  <1>7. RunOK(r)'
    BY <1>2, <1>3, <1>5, <1>6 DEF RunOK, HasSlug, CopyCovers, OutIsPublished, OnlyFoldsFold
  <1> QED BY <1>2, <1>3, <1>4, <1>5, <1>7, OnlyTheRunMoves

LEMMA ReadOtherKeeps ==
    ASSUME WikiInv, NEW r \in Runners, ReadOther(r)
    PROVE  WikiInv'
  <1>1. PICK s \in run[r].left :
          run' = [run EXCEPT ![r].at = IF page[s].live THEN "asking" ELSE "folding",
                             ![r].left = @ \ {s}, ![r].other = s, ![r].copy = page[s]]
    BY DEF ReadOther
  <1>2. /\ run[r] \in Progress /\ run[r].slug \in Slugs /\ run[r].slug \notin run[r].left
        /\ page[run[r].slug].has \subseteq run[r].page.has
    BY DEF WikiInv, WikiTypeOK, RunOK, HasSlug, CopyCovers, ReadOther
  <1>3. s \in Slugs /\ s # run[r].slug /\ page[s] \in Pages
    BY <1>2 DEF Progress, WikiInv, WikiTypeOK
  <1> DEFINE a == IF page[s].live THEN "asking" ELSE "folding"
             l == run[r].left \ {s}
             held == [run[r] EXCEPT !.at = a, !.left = l, !.other = s, !.copy = page[s]]
  <1>4. a \in {"asking", "folding"} /\ l \subseteq run[r].left
    OBVIOUS
  <1>5. run' = [run EXCEPT ![r] = held]
    BY <1>1
  <1> HIDE DEF a, l
  <1>6. /\ held \in Progress /\ held.at = a /\ held.slug = run[r].slug /\ held.page = run[r].page
        /\ held.left = l /\ held.other = s /\ held.copy = page[s] /\ held.folded = run[r].folded
    BY <1>2, <1>3, <1>4 DEF Progress, Stations
  <1> HIDE DEF held
  <1>7. /\ UNCHANGED <<merged, page, wiped, cut>> /\ inbox' \subseteq inbox /\ run[r].at # "idle"
        /\ used' \in [note : Nat, compact : Nat, trouble : Nat]
    BY DEF ReadOther, HistoryKeeps, WikiInv, WikiTypeOK
  <1>8. run'[r] = held
    BY <1>5 DEF WikiInv, WikiTypeOK
  <1>9. RunOK(r)'
    BY <1>2, <1>3, <1>4, <1>6, <1>7, <1>8
       DEF RunOK, HasSlug, CopyCovers, OutIsPublished, OnlyFoldsFold
  <1> QED BY <1>5, <1>6, <1>7, <1>9, OnlyTheRunMoves

\* A page that is declined stays; one that is folded is deleted, and its notes are in
\* the copy that takes them over.
LEMMA FoldOneKeeps ==
    ASSUME WikiInv, NEW r \in Runners, FoldOne(r)
    PROVE  WikiInv'
  <1> DEFINE s == run[r].slug
             other == run[r].other
  <1>1. /\ run[r] \in Progress /\ s \in Slugs /\ other \in Slugs /\ other # s
        /\ page[s].has \subseteq run[r].page.has /\ page[other].has \subseteq run[r].copy.has
        /\ s \notin run[r].left
    BY DEF WikiInv, WikiTypeOK, RunOK, HasSlug, CopyCovers, FoldOne
  <1>2. /\ UNCHANGED <<inbox, merged, wiped, cut>> /\ run[r].at # "idle"
        /\ used' \in [note : Nat, compact : Nat, trouble : Nat]
    BY DEF FoldOne, HistoryKeeps, WikiInv, WikiTypeOK
  <1>3. CASE Step(r, "folding") /\ UNCHANGED page
    <2> DEFINE held == [run[r] EXCEPT !.at = "folding"]
    <2>1. /\ held \in Progress /\ held.at = "folding" /\ held.slug = s /\ held.page = run[r].page
          /\ held.left = run[r].left /\ held.folded = run[r].folded
      BY <1>1 DEF Progress, Stations
    <2>2. run' = [run EXCEPT ![r] = held]
      BY <1>3 DEF Step
    <2> HIDE DEF held
    <2>3. run'[r] = held
      BY <2>2 DEF WikiInv, WikiTypeOK
    <2>4. RunOK(r)'
      BY <1>1, <1>3, <2>1, <2>3 DEF RunOK, HasSlug, CopyCovers, OutIsPublished, OnlyFoldsFold
    <2> QED BY <1>2, <1>3, <2>1, <2>2, <2>4, OnlyTheRunMoves
  <1>4. CASE /\ run' = [run EXCEPT ![r].at = "folding", ![r].folded = TRUE,
                                   ![r].page.has = @ \cup run[r].copy.has,
                                   ![r].page.edits = @ \cup run[r].copy.edits]
             /\ page' = [page EXCEPT ![other] = NoPage]
    <2> DEFINE p == [run[r].page EXCEPT !.has = @ \cup run[r].copy.has,
                                        !.edits = @ \cup run[r].copy.edits]
               held == [run[r] EXCEPT !.at = "folding", !.folded = TRUE, !.page = p]
    <2>1. p \in Pages /\ p.has = run[r].page.has \cup run[r].copy.has
      BY <1>1 DEF Progress, Pages
    <2>2. run' = [run EXCEPT ![r] = held]
      BY <1>1, <1>4 DEF Progress, Pages
    <2> HIDE DEF p
    <2>3. /\ held \in Progress /\ held.at = "folding" /\ held.slug = s /\ held.page = p
          /\ held.left = run[r].left /\ held.folded
      BY <1>1, <2>1 DEF Progress, Stations
    <2> HIDE DEF held
    <2>4. run'[r] = held /\ \A q \in Runners : q # r => run'[q] = run[q]
      BY <2>2 DEF WikiInv, WikiTypeOK
    <2>5. \A x \in Slugs : page'[x] = IF x = other THEN NoPage ELSE page[x]
      BY <1>4 DEF WikiInv, WikiTypeOK
    <2>6. WikiTypeOK'
      <3>1. page' \in [Slugs -> Pages]
        BY <1>4, IdleRun DEF WikiInv, WikiTypeOK
      <3>2. run' \in [Runners -> Progress]
        BY <2>2, <2>3 DEF WikiInv, WikiTypeOK
      <3> QED BY <1>2, <3>1, <3>2 DEF WikiInv, WikiTypeOK
    <2>7. RunOK(r)'
      BY <1>1, <2>1, <2>3, <2>4, <2>5
         DEF RunOK, HasSlug, CopyCovers, OutIsPublished, OnlyFoldsFold
    <2>8. \A n \in merged' : Readable(n)'
      BY <1>1, <1>2, <2>1, <2>3, <2>4, <2>5 DEF WikiInv, Readable
    <2> QED BY <1>2, <2>4, <2>6, <2>7, <2>8, OneRunMoves
  <1> QED BY <1>3, <1>4 DEF FoldOne

\* A run that ends, whatever it held.
LEMMA IdleAgain ==
    ASSUME WikiInv, NEW r \in Runners, run[r].at # "idle", run' = [run EXCEPT ![r] = Idle],
           WikiTypeOK', \A n \in merged' : Readable(n)'
    PROVE  WikiInv'
  <1>1. run'[r] = Idle /\ \A q \in Runners : q # r => run'[q] = run[q]
    BY DEF WikiInv, WikiTypeOK
  <1>2. RunOK(r)'
    BY <1>1, IdleRun DEF RunOK, HasSlug, CopyCovers, OutIsPublished, OnlyFoldsFold
  <1> QED BY <1>1, <1>2, OneRunMoves

LEMMA WriteFoldKeeps ==
    ASSUME WikiInv, NEW r \in Runners, WriteFold(r)
    PROVE  WikiInv'
  <1> DEFINE s == run[r].slug
  <1>1. /\ run[r] \in Progress /\ s \in Slugs /\ page[s].has \subseteq run[r].page.has
    BY DEF WikiInv, WikiTypeOK, RunOK, HasSlug, CopyCovers, WriteFold
  <1>2. /\ UNCHANGED <<inbox, merged, wiped, cut>> /\ run[r].at # "idle"
        /\ used' = used /\ run' = [run EXCEPT ![r] = Idle]
    BY DEF WriteFold, HistoryKeeps
  <1>3. \A q \in Runners : q # r => run'[q] = run[q]
    BY <1>2 DEF WikiInv, WikiTypeOK
  <1>4. run[r].page \in Pages
    BY <1>1 DEF Progress
  <1>5. WikiTypeOK'
    BY <1>2, <1>4, IdleRun DEF WikiInv, WikiTypeOK, WriteFold
  <1>6. \A n \in merged' : Readable(n)'
    <2>1. CASE run[r].folded
      <3>1. \A x \in Slugs : page'[x] = IF x = s THEN run[r].page ELSE page[x]
        BY <2>1 DEF WikiInv, WikiTypeOK, WriteFold
      <3> QED BY <1>1, <1>2, <1>3, <3>1 DEF WikiInv, Readable
    <2>2. CASE ~run[r].folded
      BY <1>2, <1>3, <2>2 DEF WikiInv, Readable, WriteFold
    <2> QED BY <2>1, <2>2
  <1> QED BY <1>2, <1>5, <1>6, IdleAgain

LEMMA CutOffKeeps ==
    ASSUME WikiInv, NEW r \in Runners, CutOff(r)
    PROVE  WikiInv'
  <1>1. /\ UNCHANGED <<inbox, merged, page, wiped>> /\ run[r].at # "idle"
        /\ run' = [run EXCEPT ![r] = Idle]
        /\ used' \in [note : Nat, compact : Nat, trouble : Nat]
    BY DEF CutOff, WikiInv, WikiTypeOK
  <1>2. /\ cut' = cut \cup {n \in run[r].page.has :
                              run[r].folded /\ \A s \in Slugs : n \notin page[s].has}
        /\ run[r].page.has \subseteq Notes
    BY DEF CutOff, WikiInv, WikiTypeOK, Progress, Pages
  <1>3. WikiTypeOK'
    BY <1>1, <1>2, IdleRun DEF WikiInv, WikiTypeOK
  <1>4. \A q \in Runners : q # r => run'[q] = run[q]
    BY <1>1 DEF WikiInv, WikiTypeOK
  <1>5. \A n \in merged' : Readable(n)'
    BY <1>1, <1>2, <1>4 DEF WikiInv, Readable
  <1> QED BY <1>1, <1>3, <1>5, IdleAgain

-----------------------------------------------------------------------------

LEMMA WikiInit_Inv == WikiInit => WikiInv
  <1> SUFFICES ASSUME WikiInit PROVE WikiInv
    OBVIOUS
  <1>1. WikiTypeOK
    BY IdleRun DEF WikiInit, WikiTypeOK
  <1>2. \A r \in Runners : run[r] = Idle
    BY DEF WikiInit
  <1>3. OneRun /\ \A r \in Runners : RunOK(r)
    BY <1>2, IdleRun DEF OneRun, RunOK, HasSlug, CopyCovers, OutIsPublished, OnlyFoldsFold
  <1> QED BY <1>1, <1>3 DEF WikiInit, WikiInv

LEMMA WikiNext_Inv == WikiInv /\ [WikiNext]_wikiVars => WikiInv'
  <1> SUFFICES ASSUME WikiInv, [WikiNext]_wikiVars PROVE WikiInv'
    OBVIOUS
  <1>1. CASE UNCHANGED wikiVars
    BY <1>1 DEF wikiVars, WikiInv, WikiTypeOK, OneRun, RunOK, HasSlug, CopyCovers, OutIsPublished,
                OnlyFoldsFold, Readable
  <1>2. CASE Capture
    BY <1>2, CaptureKeeps
  <1>3. ASSUME NEW s \in Slugs, HumanEdit(s) \/ HumanDelete(s) PROVE WikiInv'
    BY <1>3, HumanKeeps
  <1>4. ASSUME NEW h \in Claims, NEW what \in {"accept", "reject"}, Adjudicate(h, what)
        PROVE  WikiInv'
    BY <1>4, AdjudicateKeeps
  <1>5. ASSUME NEW r \in Runners, RunStep(r) \/ SlugFails(r) \/ CutOff(r) PROVE WikiInv'
    BY <1>5, CollectNotesKeeps, ReadPageKeeps, DecideKeeps, WritePageKeeps, ArchiveKeeps,
       SlugDoneKeeps, StartFoldKeeps, ReadOtherKeeps, FoldOneKeeps, WriteFoldKeeps, CutOffKeeps,
       SlugFailsKeeps DEF RunStep
  <1> QED BY <1>1, <1>2, <1>3, <1>4, <1>5 DEF WikiNext

\* However many users, pages and runs there are: a note that was archived is on a page,
\* or in a fold that is about to write one, unless an administrator took it off or a fold
\* was killed half way.
THEOREM ArchivedIsKeptHolds == WikiSpec => []ArchivedIsKept
  <1>1. WikiInit => WikiInv
    BY WikiInit_Inv
  <1>2. WikiInv /\ [WikiNext]_wikiVars => WikiInv'
    BY WikiNext_Inv
  <1>3. WikiInv => ArchivedIsKept
    BY WikiInvImplies
  <1> QED BY <1>1, <1>2, <1>3, PTL DEF WikiSpec
=============================================================================
