--------------------------- MODULE SessionProofs ---------------------------
(***************************************************************************)
(* What is proved of a session's file and of its history: a deleted        *)
(* session stays deleted and one that loads holds what was reported as     *)
(* stored (SessionStore); no fold covers a call that still waits           *)
(* (Compaction).                                                           *)
(* The two share no state; each part below is about one of them.           *)
(***************************************************************************)
EXTENDS SessionStore, Compaction, TLAPS, FiniteSetTheorems, WellFoundedInduction

USE SessionStoreAssumption

-----------------------------------------------------------------------------
(* A deleted session stays deleted: either the id is marked, so that an    *)
(* append is dropped, or the process has died and with it every writer.    *)

NobodyWrites == \A w \in Writers : ~At(w)
StaysGone == gone => ~Present /\ (marked \/ NobodyWrites)

StoreInv == writer \in [Writers -> {"idle", "active", "dying", "over"}] /\ StaysGone

LEMMA StartsThere == StoreInit => StoreInv
BY DEF StoreInit, StoreInv, StaysGone

LEMMA StepKeepsStaysGone == StoreInv /\ [StoreNext]_storeVars => StoreInv'
<1> SUFFICES ASSUME StoreInv, [StoreNext]_storeVars PROVE StoreInv'
    OBVIOUS
<1> USE DEF StoreInv, StaysGone, NobodyWrites, At, Present
<1>1. ASSUME NEW w \in Writers, Begin(w) PROVE StoreInv'
    BY <1>1 DEF Begin, Sets
<1>2. ASSUME NEW w \in Writers, Write(w) PROVE StoreInv'
    <2>1. writer' = writer \/ writer' = [writer EXCEPT ![w] = "over"]
        BY <1>2 DEF Write, Sets, Writers
    <2>2. UNCHANGED <<marked, gone>> /\ (gone => UNCHANGED file)
        BY <1>2 DEF Write, Stored
    <2> QED BY <2>1, <2>2
<1>3. ASSUME NEW w \in Writers, WriteFails(w) PROVE StoreInv'
    BY <1>3 DEF WriteFails, Sets
<1>4. ASSUME NEW w \in Writers, Finish(w) PROVE StoreInv'
    BY <1>4 DEF Finish, Sets
<1>5. ASSUME NEW w \in Writers, DeleteLast(w) PROVE StoreInv'
    BY <1>5 DEF DeleteLast
<1>6. ASSUME NEW n \in 1 .. MaxLines, TruncateBefore(n) PROVE StoreInv'
    BY <1>6 DEF TruncateBefore
<1>7. CASE AbortBeforeDelete
    BY <1>7 DEF AbortBeforeDelete
<1>8. CASE DeleteSession
    BY <1>8 DEF DeleteSession
<1>9. CASE CreateSession
    BY <1>9 DEF CreateSession
<1>10. CASE CreateFails
    BY <1>10 DEF CreateFails
<1>11. CASE CrashWhole
    BY <1>11 DEF CrashWhole
<1>12. CASE UNCHANGED storeVars
    BY <1>12 DEF storeVars
<1> QED
    BY <1>1, <1>2, <1>3, <1>4, <1>5, <1>6, <1>7, <1>8, <1>9, <1>10, <1>11, <1>12 DEF StoreNext

\* A deleted session stays deleted (file_session_service.py 233-276, 347-354, 428-462),
\* whatever turns, compactions, rewinds, creations and crashes follow.
THEOREM NoRebirthHolds == StoreSpec => []NoRebirth
<1>1. StoreInv => NoRebirth
    BY DEF StoreInv, StaysGone, NoRebirth
<1> QED
    BY <1>1, StartsThere, StepKeepsStaysGone, PTL DEF StoreSpec
-----------------------------------------------------------------------------
(* What loads is what was kept.  A torn line makes the file unreadable for *)
(* good, and every other write adds the event to both.                     *)

IsSequence(f) == \E S : f \in Seq(S)
FileInv == IsSequence(file) /\ (Loads(file) => EventsOf(file) = kept)

LEMMA JoinedIsSequence ==
    ASSUME IsSequence(file), NEW line PROVE IsSequence(Joined(file, line))
<1>1. PICK S : file \in Seq(S)
    BY DEF IsSequence
<1> DEFINE T == S \cup {line, Junk}
<1>2. file \in Seq(T) /\ line \in T /\ Junk \in T
    BY <1>1
<1> HIDE DEF T
<1>3. Append(file, line) \in Seq(T)
    BY <1>2
<1>4. file # <<>> => Append(Front(file), Junk) \in Seq(T)
    BY <1>2 DEF Front
<1> QED
    BY <1>3, <1>4 DEF Joined, IsSequence

\* An append to a torn line spoils it; any other adds its line.
LEMMA LoadsJoined ==
    ASSUME IsSequence(file), NEW line, Loads(Joined(file, line))
    PROVE  /\ Loads(file) /\ line.kind \in {"session", "event"}
           /\ EventsOf(Joined(file, line)) =
                 EventsOf(file) \cup (IF line.kind = "event" THEN {line} ELSE {})
<1>1. PICK S : file \in Seq(S)
    BY DEF IsSequence
<1>2. CASE file # <<>> /\ Last(file).kind = "torn"
    <2>1. Joined(file, line) = Append(Front(file), Junk) /\ Front(file) \in Seq(S)
        BY <1>1, <1>2 DEF Joined, Front
    <2>2. Len(Front(file)) + 1 \in DOMAIN Joined(file, line)
          /\ Joined(file, line)[Len(Front(file)) + 1] = Junk
        BY <2>1
    <2> QED
        BY <2>2 DEF Loads, Junk
<1>3. CASE ~(file # <<>> /\ Last(file).kind = "torn")
    <2> DEFINE g == Joined(file, line)
    <2>1. g = Append(file, line)
        BY <1>3 DEF Joined
    <2>2. /\ DOMAIN g = DOMAIN file \cup {Len(file) + 1} /\ Len(file) + 1 \notin DOMAIN file
          /\ \A i \in DOMAIN file : g[i] = file[i]
          /\ g[Len(file) + 1] = line
        BY <1>1, <2>1
    <2> HIDE DEF g
    <2>3. \A i \in DOMAIN g : g[i].kind \in {"session", "event"}
        BY DEF Loads, g
    <2>4. Loads(file) /\ line.kind \in {"session", "event"}
        BY <2>2, <2>3 DEF Loads
    <2>5. EventsOf(g) = EventsOf(file) \cup (IF line.kind = "event" THEN {line} ELSE {})
        BY <2>2 DEF EventsOf
    <2> QED BY <2>4, <2>5 DEF g
<1> QED BY <1>2, <1>3

LEMMA CutKeeps ==
    ASSUME FileInv, Loads(file), NEW n \in 0 .. Len(file), Cut(n) PROVE FileInv'
<1>1. PICK S : file \in Seq(S)
    BY DEF FileInv, IsSequence
<1>2. SubSeq(file, 1, n) \in Seq(S) /\ DOMAIN SubSeq(file, 1, n) \subseteq DOMAIN file
      /\ \A i \in DOMAIN SubSeq(file, 1, n) : SubSeq(file, 1, n)[i] = file[i]
    BY <1>1
<1>3. EventsOf(SubSeq(file, 1, n)) \subseteq EventsOf(file)
    BY <1>2 DEF EventsOf
<1> QED
    BY <1>2, <1>3 DEF Cut, FileInv, IsSequence

LEMMA HeaderAlone == IsSequence(<<Header>>) /\ EventsOf(<<Header>>) = {}
<1>1. <<Header>> \in Seq({Header})
    OBVIOUS
<1>2. EventsOf(<<Header>>) = {}
    BY DEF EventsOf, Header
<1> QED BY <1>1, <1>2 DEF IsSequence

LEMMA FileStarts == StoreInit => FileInv
<1> SUFFICES ASSUME StoreInit PROVE FileInv
    OBVIOUS
<1>1. file = <<Header>> /\ kept = {}
    BY DEF StoreInit
<1> QED BY <1>1, HeaderAlone DEF FileInv

LEMMA StepKeepsFile == StoreInv /\ FileInv /\ [StoreNext]_storeVars => FileInv'
<1> SUFFICES ASSUME StoreInv, FileInv, [StoreNext]_storeVars PROVE FileInv'
    OBVIOUS
<1>0. ASSUME UNCHANGED <<file, kept>> PROVE FileInv'
    BY <1>0 DEF FileInv, IsSequence, Loads, EventsOf
<1>1. ASSUME NEW line, file' = Joined(file, line),
             line.kind = "event" => kept' = kept \cup {line}, line.kind # "event" => UNCHANGED kept
      PROVE  FileInv'
    BY <1>1, JoinedIsSequence, LoadsJoined DEF FileInv
<1>2. ASSUME NEW w \in Writers, Begin(w) \/ Finish(w) PROVE FileInv'
    BY <1>0, <1>2 DEF Begin, Finish
<1>3. ASSUME NEW w \in Writers, Write(w) PROVE FileInv'
    BY <1>0, <1>1, <1>3 DEF Write, Stored, Event
<1>4. ASSUME NEW w \in Writers, WriteFails(w) PROVE FileInv'
    BY <1>1, <1>4 DEF WriteFails, Torn
<1>5. ASSUME NEW w \in Writers, DeleteLast(w) PROVE FileInv'
    <2>1. PICK S : file \in Seq(S)
        BY DEF FileInv, IsSequence
    <2>2. Len(file) - 1 \in 0 .. Len(file)
        BY <1>5, <2>1 DEF DeleteLast, Present
    <2> QED BY <1>5, <2>2, CutKeeps DEF DeleteLast
<1>6. ASSUME NEW n \in 1 .. MaxLines, TruncateBefore(n) PROVE FileInv'
    <2>1. PICK S : file \in Seq(S)
        BY DEF FileInv, IsSequence
    <2>2. n \in 0 .. Len(file)
        BY <1>6, <2>1 DEF TruncateBefore
    <2> QED BY <1>6, <2>2, CutKeeps DEF TruncateBefore
<1>7. CASE AbortBeforeDelete
    BY <1>0, <1>7 DEF AbortBeforeDelete
<1>8. CASE DeleteSession
    <2>1. CASE UNCHANGED <<file, kept>>
        BY <1>0, <2>1
    <2>2. CASE file' = <<>> /\ kept' = {}
        BY <2>2 DEF FileInv, IsSequence, EventsOf
    <2> QED BY <1>8, <2>1, <2>2 DEF DeleteSession
<1>9. CASE CreateSession
    <2>1. CASE UNCHANGED file
        BY <1>0, <1>9, <2>1 DEF CreateSession
    <2>2. CASE file = <<>> /\ file' = <<Header>>
        <3>1. kept = {}
            BY <2>2 DEF FileInv, Loads, EventsOf
        <3>2. kept' = {}
            BY <1>9, <3>1 DEF CreateSession
        <3> QED BY <2>2, <3>2, HeaderAlone DEF FileInv
    <2> QED BY <1>9, <2>1, <2>2 DEF CreateSession, Present
<1>10. CASE CreateFails
    <2>1. file = <<>> /\ kept = {} /\ UNCHANGED kept
        BY <1>10 DEF CreateFails, Present, FileInv, Loads, EventsOf
    <2>2. CASE file' = <<>>
        BY <1>0, <2>1, <2>2
    <2>3. CASE file' = <<Torn>>
        <3>1. <<Torn>> \in Seq({Torn}) /\ 1 \in DOMAIN <<Torn>> /\ <<Torn>>[1].kind = "torn"
            BY DEF Torn
        <3> QED BY <2>3, <3>1 DEF FileInv, IsSequence, Loads
    <2>4. CASE file' = <<Header>>
        BY <2>1, <2>4, HeaderAlone DEF FileInv
    <2> QED BY <1>10, <2>2, <2>3, <2>4 DEF CreateFails
<1>11. CASE CrashWhole
    BY <1>0, <1>1, <1>11 DEF CrashWhole, Torn
<1>12. CASE UNCHANGED storeVars
    BY <1>0, <1>12 DEF storeVars
<1> QED
    BY <1>2, <1>3, <1>4, <1>5, <1>6, <1>7, <1>8, <1>9, <1>10, <1>11, <1>12 DEF StoreNext

\* A session that loads holds exactly the events reported as stored and not taken back
\* (file_session_service.py 192-212, 356-462), with any number of torn writes.
THEOREM LoadsWhatWasKeptHolds == StoreSpec => []LoadsWhatWasKept
<1>1. FileInv => LoadsWhatWasKept
    BY DEF FileInv, LoadsWhatWasKept
<1> QED
    BY <1>1, StartsThere, StepKeepsStaysGone, FileStarts, StepKeepsFile, PTL DEF StoreSpec

-----------------------------------------------------------------------------
(* The history (Compaction).  Every fold ends below the first call that     *)
(* still waits, and a call that has been answered stays answered: so what  *)
(* a fold was allowed to cover when it was computed it may still cover     *)
(* when it is appended.                                                    *)

LEMMA LeastNatural ==
    ASSUME NEW S \in SUBSET Nat, S # {} PROVE \E m \in S : \A k \in S : m <= k
<1>1. PICK m \in S : \A k \in S : <<k, m>> \notin OpToRel(<, Nat)
    BY NatLessThanWellFounded, WFMin
<1>2. \A k \in S : ~(k < m)
    BY <1>1 DEF OpToRel
<1>3. \A k \in S : k \in Nat
    OBVIOUS
<1> QED BY <1>2, <1>3

LEMMA GreatestNatural ==
    ASSUME NEW S \in SUBSET Nat, S # {}, NEW n \in Nat, \A k \in S : k <= n
    PROVE  \E m \in S : \A k \in S : k <= m
<1> DEFINE T == {n - k : k \in S}
<1>1. T \in SUBSET Nat /\ T # {}
    <2>1. \A k \in S : n - k \in Nat
        OBVIOUS
    <2> QED BY <2>1
<1>2. PICK m \in T : \A k \in T : m <= k
    BY <1>1, LeastNatural
<1>3. PICK k \in S : m = n - k
    OBVIOUS
<1>4. \A j \in S : n - k <= n - j
    BY <1>2, <1>3
<1> QED BY <1>4

HistoryEvents == [run : Nat, calls : SUBSET CallIds, real : SUBSET CallIds,
                  prose : {0, 1}, fat : {0, 1}, upto : Nat]

\* Up to n every call has its answer, and n lies in the history.
SettledIn(s, n) ==
    n \in Nat /\ n <= Len(s) /\ \A i \in DOMAIN s : i <= n => s[i].calls \subseteq AnswersIn(s)

HistoryInv ==
    /\ events \in Seq(HistoryEvents) /\ run \in Nat
    /\ open \subseteq CallIds /\ approved \subseteq CallIds
    /\ phase # "none" => \E i \in DOMAIN events : events[i].run = run
    /\ \A i \in DOMAIN events : SettledIn(events, events[i].upto)
    /\ SettledIn(events, manual)

\* The head of a fold has no call that waits.
LEMMA HeadIsSettled ==
    ASSUME NEW s \in Seq(HistoryEvents), NEW n \in Int, n <= Len(s)
    PROVE  /\ ClampHead(s, n) \in Int
           /\ ClampHead(s, n) \in Nat => SettledIn(s, ClampHead(s, n))
<1> DEFINE held == {i \in DOMAIN s : i <= n /\ s[i].calls \cap PendingIds(s) # {}}
<1>1. \A i \in DOMAIN s : s[i].calls \cap PendingIds(s) = {} => s[i].calls \subseteq AnswersIn(s)
    BY DEF PendingIds, CallsIn
<1>2. CASE held = {}
    <2>1. ClampHead(s, n) = n
        BY <1>2 DEF ClampHead
    <2> QED BY <1>1, <1>2, <2>1 DEF SettledIn
<1>3. CASE held # {}
    <2> DEFINE k == CHOOSE i \in held : \A j \in held : i <= j
    <2>1. held \in SUBSET Nat
        <3>1. DOMAIN s \subseteq Nat
            OBVIOUS
        <3> QED BY <3>1
    <2>2. k \in held /\ \A j \in held : k <= j
        BY <1>3, <2>1, LeastNatural
    <2>3. ClampHead(s, n) = k - 1 /\ k \in Nat /\ k <= n
        BY <1>3, <2>1, <2>2 DEF ClampHead
    <2> HIDE DEF k
    <2>4. \A i \in DOMAIN s : i <= k - 1 => s[i].calls \cap PendingIds(s) = {}
        BY <2>2, <2>3
    <2> QED BY <1>1, <2>3, <2>4 DEF SettledIn
<1> QED BY <1>2, <1>3

\* The end of what the summaries cover is one of their ends.
LEMMA CoveredIsSettled ==
    ASSUME NEW s \in Seq(HistoryEvents), \A i \in DOMAIN s : SettledIn(s, s[i].upto)
    PROVE  SettledIn(s, Covered(s))
<1> DEFINE ends == {0} \cup {s[i].upto : i \in DOMAIN s}
<1>1. \A i \in DOMAIN s : s[i].upto \in Nat
    BY DEF SettledIn
<1>2. ends \in SUBSET Nat /\ ends # {}
    BY <1>1
<1>3. \A n \in ends : n <= Len(s)
    BY DEF SettledIn
<1>4. Covered(s) \in ends
    BY <1>2, <1>3, GreatestNatural DEF Covered
<1>5. SettledIn(s, 0)
    BY DEF SettledIn
<1> QED BY <1>4, <1>5

\* What was settled stays so while the history grows.
LEMMA SettledStays ==
    ASSUME NEW s \in Seq(HistoryEvents), NEW e \in HistoryEvents, NEW n, SettledIn(s, n)
    PROVE  SettledIn(Append(s, e), n)
<1> DEFINE t == Append(s, e)
<1>1. /\ t \in Seq(HistoryEvents) /\ Len(t) = Len(s) + 1
      /\ DOMAIN s \subseteq DOMAIN t /\ \A i \in DOMAIN s : t[i] = s[i]
      /\ DOMAIN t = DOMAIN s \cup {Len(s) + 1}
    OBVIOUS
<1> HIDE DEF t
<1>2. AnswersIn(s) \subseteq AnswersIn(t)
    BY <1>1 DEF AnswersIn
<1>3. \A i \in DOMAIN t : i <= n => i \in DOMAIN s
    BY <1>1 DEF SettledIn
<1> QED BY <1>1, <1>2, <1>3 DEF SettledIn, t

\* A step that adds one event, none of them a summary of something that waits.
LEMMA AddingKeepsHistory ==
    ASSUME HistoryInv, NEW e \in HistoryEvents, events' = Append(events, e),
           SettledIn(events, e.upto), run' \in Nat, open' \subseteq CallIds, approved' \subseteq CallIds,
           phase' = "none" \/ run' = e.run \/ (run' = run /\ phase # "none"),
           UNCHANGED manual \/ SettledIn(events, manual')
    PROVE  HistoryInv'
<1>1. /\ events' \in Seq(HistoryEvents) /\ Len(events) + 1 \in DOMAIN events'
      /\ events'[Len(events) + 1] = e
      /\ DOMAIN events \subseteq DOMAIN events' /\ \A i \in DOMAIN events : events'[i] = events[i]
      /\ DOMAIN events' = DOMAIN events \cup {Len(events) + 1}
    BY DEF HistoryInv
<1>2. \A n : SettledIn(events, n) => SettledIn(events', n)
    BY SettledStays DEF HistoryInv
<1>3. \A i \in DOMAIN events' : SettledIn(events', events'[i].upto)
    BY <1>1, <1>2 DEF HistoryInv
<1>4. SettledIn(events', manual')
    BY <1>2 DEF HistoryInv
<1>5. phase' # "none" => \E i \in DOMAIN events' : events'[i].run = run'
    BY <1>1 DEF HistoryInv
<1> QED BY <1>1, <1>3, <1>4, <1>5 DEF HistoryInv

LEMMA StayingKeepsHistory ==
    ASSUME HistoryInv, UNCHANGED <<events, run>>, open' \subseteq CallIds, approved' \subseteq CallIds,
           phase' = "none" \/ phase # "none", UNCHANGED manual \/ SettledIn(events, manual')
    PROVE  HistoryInv'
BY DEF HistoryInv

LEMMA SummaryFits ==
    ASSUME NEW n \in Nat
    PROVE  Summary(n) \in HistoryEvents /\ Summary(n).upto = n
BY DEF Summary, Plainly, HistoryEvents

LEMMA FoldingKeepsHistory ==
    ASSUME HistoryInv, NEW n \in Nat, SettledIn(events, n), Folds(n), UNCHANGED run,
           open' \subseteq CallIds, approved' \subseteq CallIds, phase' = "none" \/ phase # "none",
           UNCHANGED manual
    PROVE  HistoryInv'
<1> DEFINE e == Summary(n)
<1>1. e \in HistoryEvents /\ e.upto = n /\ events' = Append(events, e)
    BY SummaryFits DEF Folds
<1>2. run' \in Nat
    BY DEF HistoryInv
<1> HIDE DEF e
<1> QED BY <1>1, <1>2, AddingKeepsHistory

\* Events of a turn cover nothing.
LEMMA TurnEvents ==
    ASSUME NEW i \in Nat, NEW cs \in SUBSET CallIds, NEW real \in SUBSET CallIds,
           NEW big \in {0, 1}, NEW fat \in {0, 1}, NEW e,
           e = [run |-> i, calls |-> cs, real |-> real, prose |-> big, fat |-> fat, upto |-> 0]
    PROVE  e \in HistoryEvents /\ e.run = i /\ e.upto = 0
BY DEF HistoryEvents

LEMMA PlainlyAnswering ==
    ASSUME NEW i, NEW x
    PROVE  [Plainly(i) EXCEPT !.real = x] =
               [run |-> i, calls |-> {}, real |-> x, prose |-> 0, fat |-> 0, upto |-> 0]
BY DEF Plainly

LEMMA HistoryStarts == CompactionInit => HistoryInv
BY DEF CompactionInit, HistoryInv, SettledIn, HistoryEvents

\* What a run starts with, and what the turn adds to it.
LEMMA StartKeepsHistory ==
    ASSUME HistoryInv, NEW e \in HistoryEvents, e.run = run + 1, e.upto = 0,
           NEW c \in SUBSET CallIds, StartRun(e, c)
    PROVE  HistoryInv'
<1>1. SettledIn(events, 0)
    BY DEF SettledIn, HistoryInv
<1>2. run' = e.run /\ run' \in Nat
    BY DEF StartRun, HistoryInv
<1>3. events' = Append(events, e) /\ open' \subseteq CallIds /\ approved' \subseteq CallIds
      /\ UNCHANGED manual
    BY DEF StartRun, HistoryInv
<1> QED BY <1>1, <1>2, <1>3, AddingKeepsHistory

LEMMA TurnAddsKeepsHistory ==
    ASSUME HistoryInv, NEW e \in HistoryEvents, e.upto = 0, events' = Append(events, e),
           UNCHANGED <<run, manual>>, open' \subseteq CallIds, approved' \subseteq CallIds,
           phase # "none"
    PROVE  HistoryInv'
<1>1. SettledIn(events, 0) /\ run' \in Nat
    BY DEF SettledIn, HistoryInv
<1> QED BY <1>1, AddingKeepsHistory

\* The guard folds, in the middle of a turn, nothing of the turn and no call that waits.
LEMMA MidHeadIsSettled ==
    ASSUME HistoryInv, GuardCompacts, HeadMid >= MidHead
    PROVE  HeadMid \in Nat /\ SettledIn(events, HeadMid)
<1>1. events \in Seq(HistoryEvents)
    BY DEF HistoryInv
<1>2. PICK i \in DOMAIN events : events[i].run = run
    BY DEF GuardCompacts, HistoryInv
<1> DEFINE mine == {j \in DOMAIN events : events[j].run = run}
<1>3. PICK f \in mine : \A j \in mine : f <= j
    <2>1. mine \in SUBSET Nat /\ mine # {}
        BY <1>1, <1>2
    <2> QED BY <2>1, LeastNatural
<1>4. \A j \in 1 .. f - 1 : events[j].run # run
    BY <1>1, <1>3
<1>5. FirstOfRun \in DOMAIN events
    BY <1>3, <1>4 DEF FirstOfRun
<1>6. FirstOfRun - 1 - MidTail \in Int /\ FirstOfRun - 1 - MidTail <= Len(events)
    BY <1>1, <1>5, CompactionAssumption
<1> QED BY <1>1, <1>6, HeadIsSettled, CompactionAssumption DEF HeadMid

LEMMA StepKeepsHistory == HistoryInv /\ [CompactionNext]_compactionVars => HistoryInv'
<1> SUFFICES ASSUME HistoryInv, [CompactionNext]_compactionVars PROVE HistoryInv'
    OBVIOUS
<1>1. run \in Nat /\ run + 1 \in Nat /\ Len(events) \in Nat /\ events \in Seq(HistoryEvents)
      /\ open \subseteq CallIds /\ approved \subseteq CallIds
    BY DEF HistoryInv
<1>2. CASE UserWrites
    <2>1. PICK big \in {0, 1} : StartRun([Plainly(run + 1) EXCEPT !.prose = big], {})
        BY <1>2 DEF UserWrites
    <2> DEFINE e == [Plainly(run + 1) EXCEPT !.prose = big]
    <2>2. e = [run |-> run + 1, calls |-> {}, real |-> {}, prose |-> big, fat |-> 0, upto |-> 0]
        BY DEF Plainly
    <2>3. StartRun(e, {})
        BY <2>1
    <2> HIDE DEF e
    <2>4. e \in HistoryEvents /\ e.run = run + 1 /\ e.upto = 0
        BY <1>1, <2>2, TurnEvents
    <2> QED BY <2>3, <2>4, StartKeepsHistory
<1>3. ASSUME NEW c \in CallIds, UserReplies(c) PROVE HistoryInv'
    <2> DEFINE e == [Plainly(run + 1) EXCEPT !.real = {c}]
    <2>2. e = [run |-> run + 1, calls |-> {}, real |-> {c}, prose |-> 0, fat |-> 0, upto |-> 0]
        BY PlainlyAnswering
    <2>3. StartRun(e, {})
        BY <1>3 DEF UserReplies
    <2> HIDE DEF e
    <2>4. e \in HistoryEvents /\ e.run = run + 1 /\ e.upto = 0
        <3>1. {c} \in SUBSET CallIds /\ {} \in SUBSET CallIds
            BY <1>3
        <3> QED BY <1>1, <2>2, <3>1, TurnEvents
    <2> QED BY <2>3, <2>4, StartKeepsHistory
<1>4. ASSUME NEW c \in CallIds, UserApproves(c) PROVE HistoryInv'
    <2> DEFINE e == Plainly(run + 1)
    <2>2. e = [run |-> run + 1, calls |-> {}, real |-> {}, prose |-> 0, fat |-> 0, upto |-> 0]
        BY DEF Plainly
    <2>3. StartRun(e, {c})
        BY <1>4 DEF UserApproves
    <2> HIDE DEF e
    <2>4. e \in HistoryEvents /\ e.run = run + 1 /\ e.upto = 0
        BY <1>1, <2>2, TurnEvents
    <2> QED BY <2>3, <2>4, StartKeepsHistory
<1>5. CASE BeforeRun
    <2>1. CASE HeadBefore >= 1 /\ Folds(HeadBefore)
        <3>1. PICK tail \in Nat : HeadBefore = ClampHead(events, Len(events) - tail)
            BY CompactionAssumption DEF HeadBefore
        <3>2. Len(events) - tail \in Int /\ Len(events) - tail <= Len(events)
            BY <1>1, <3>1
        <3>3. HeadBefore \in Nat /\ SettledIn(events, HeadBefore)
            BY <1>1, <2>1, <3>1, <3>2, HeadIsSettled
        <3> QED BY <1>1, <1>5, <2>1, <3>3, FoldingKeepsHistory DEF BeforeRun
    <2>2. CASE UNCHANGED events
        BY <1>1, <1>5, <2>2, StayingKeepsHistory DEF BeforeRun
    <2> QED BY <1>5, <2>1, <2>2 DEF BeforeRun
<1>6. CASE Resume
    <2>1. PICK e \in HistoryEvents : e.upto = 0 /\ events' = Append(events, e)
        <3> DEFINE e == [run |-> run, calls |-> {}, real |-> approved, prose |-> 0, fat |-> 0, upto |-> 0]
        <3>0. [Plainly(run) EXCEPT !.real = approved] = e
            BY PlainlyAnswering
        <3>1. e = [run |-> run, calls |-> {}, real |-> approved, prose |-> 0, fat |-> 0, upto |-> 0]
            OBVIOUS
        <3>2. events' = Append(events, e)
            BY <1>6, <3>0 DEF Resume
        <3> HIDE DEF e
        <3>3. e \in HistoryEvents /\ e.upto = 0
            BY <1>1, <3>1, TurnEvents
        <3> QED BY <3>2, <3>3
    <2> QED BY <1>1, <1>6, <2>1, TurnAddsKeepsHistory DEF Resume
<1>7. CASE GuardCompacts
    <2>1. CASE HeadMid >= MidHead /\ Folds(HeadMid)
        <3>1. HeadMid \in Nat /\ SettledIn(events, HeadMid)
            BY <1>7, <2>1, MidHeadIsSettled
        <3> QED BY <1>1, <1>7, <2>1, <3>1, FoldingKeepsHistory DEF GuardCompacts
    <2>2. CASE UNCHANGED events
        BY <1>1, <1>7, <2>2, StayingKeepsHistory DEF GuardCompacts
    <2> QED BY <1>7, <2>1, <2>2 DEF GuardCompacts
<1>8. CASE Refuse
    <2> DEFINE e == Plainly(run)
    <2>1. e = [run |-> run, calls |-> {}, real |-> {}, prose |-> 0, fat |-> 0, upto |-> 0]
        BY DEF Plainly
    <2>2. events' = Append(events, e)
        BY <1>8 DEF Refuse
    <2> HIDE DEF e
    <2>3. e \in HistoryEvents /\ e.upto = 0
        BY <1>1, <2>1, TurnEvents
    <2> QED BY <1>1, <1>8, <2>2, <2>3, TurnAddsKeepsHistory DEF Refuse
<1>9. CASE ModelWrites
    <2>1. PICK e \in HistoryEvents : e.upto = 0 /\ events' = Append(events, e)
        <3>1. PICK big \in {0, 1} : events' = Append(events, [Plainly(run) EXCEPT !.prose = big])
            BY <1>9 DEF ModelWrites
        <3> DEFINE e == [Plainly(run) EXCEPT !.prose = big]
        <3>2. e = [run |-> run, calls |-> {}, real |-> {}, prose |-> big, fat |-> 0, upto |-> 0]
            BY DEF Plainly
        <3>3. events' = Append(events, e)
            BY <3>1
        <3> HIDE DEF e
        <3>4. e \in HistoryEvents /\ e.upto = 0
            BY <1>1, <3>2, TurnEvents
        <3> QED BY <3>3, <3>4
    <2> QED BY <1>1, <1>9, <2>1, TurnAddsKeepsHistory DEF ModelWrites, Replies
<1>10. ASSUME NEW cs \in SUBSET CallIds, ModelCalls(cs) PROVE HistoryInv'
    <2>1. PICK e \in HistoryEvents : e.upto = 0 /\ events' = Append(events, e)
        <3> DEFINE e == [Plainly(run) EXCEPT !.calls = cs]
        <3>1. e = [run |-> run, calls |-> cs, real |-> {}, prose |-> 0, fat |-> 0, upto |-> 0]
            BY DEF Plainly
        <3>2. events' = Append(events, e)
            BY <1>10 DEF ModelCalls
        <3> HIDE DEF e
        <3>3. e \in HistoryEvents /\ e.upto = 0
            BY <1>1, <3>1, TurnEvents
        <3> QED BY <3>2, <3>3
    <2> QED BY <1>1, <1>10, <2>1, TurnAddsKeepsHistory DEF ModelCalls, Replies
<1>11. CASE ToolsReturn
    <2>1. CASE UNCHANGED events
        BY <1>1, <1>11, <2>1, StayingKeepsHistory DEF ToolsReturn
    <2>2. CASE events' # events
        <3> DEFINE back == open \cap Plain
        <3>1. back \in SUBSET CallIds
            BY <1>1
        <3>2. PICK e \in HistoryEvents : e.upto = 0 /\ events' = Append(events, e)
            <4>1. PICK big \in {0, 1} :
                      events' = Append(events, [Plainly(run) EXCEPT !.real = back, !.fat = big])
                BY <1>11, <2>2 DEF ToolsReturn
            <4> DEFINE e == [Plainly(run) EXCEPT !.real = back, !.fat = big]
            <4> HIDE DEF back
            <4>2. e \in HistoryEvents
                BY <1>1, <3>1 DEF Plainly, HistoryEvents
            <4>3. e.upto = 0
                BY DEF Plainly
            <4> QED BY <4>1, <4>2, <4>3
        <3> QED BY <1>1, <1>11, <3>2, TurnAddsKeepsHistory DEF ToolsReturn
    <2> QED BY <2>1, <2>2
<1>12. CASE ManualStart
    <2>1. Len(events) - KeepTail \in Int /\ Len(events) - KeepTail <= Len(events)
        BY <1>1, CompactionAssumption
    <2>2. manual' \in Nat /\ SettledIn(events, manual')
        BY <1>1, <1>12, <2>1, HeadIsSettled, CompactionAssumption DEF ManualStart
    <2> QED BY <1>1, <1>12, <2>2, StayingKeepsHistory DEF ManualStart
<1>13. CASE ManualAppend
    <2>1. SettledIn(events, manual) /\ manual \in Nat /\ SettledIn(events, 0)
        BY <1>1 DEF HistoryInv, SettledIn
    <2> DEFINE e == Summary(manual)
    <2>2. e \in HistoryEvents /\ e.upto = manual /\ events' = Append(events, e)
        BY <1>13, <2>1, SummaryFits DEF ManualAppend, Folds
    <2>3. manual' = 0 /\ UNCHANGED <<phase, run, open, approved>>
        BY <1>13 DEF ManualAppend
    <2> HIDE DEF e
    <2> QED BY <1>1, <2>1, <2>2, <2>3, AddingKeepsHistory
<1>14. CASE AdkCompacts
    <2>1. Covered(events) \in Nat
        BY <1>1, CoveredIsSettled DEF HistoryInv, SettledIn
    <2>2. PICK n \in Covered(events) + 1 .. Len(events) - KeepTail : ClampHead(events, n) = n /\ Folds(n)
        BY <1>14 DEF AdkCompacts
    <2>3. n \in Nat /\ n \in Int /\ n <= Len(events)
        BY <1>1, <2>1, CompactionAssumption
    <2>4. SettledIn(events, n)
        BY <1>1, <2>2, <2>3, HeadIsSettled
    <2> QED BY <1>1, <1>14, <2>2, <2>3, <2>4, FoldingKeepsHistory DEF AdkCompacts
<1>15. CASE UNCHANGED compactionVars
    BY <1>1, <1>15, StayingKeepsHistory DEF compactionVars
<1> QED
    BY <1>2, <1>3, <1>4, <1>5, <1>6, <1>7, <1>8, <1>9, <1>10, <1>11, <1>12, <1>13, <1>14, <1>15
       DEF CompactionNext

\* No fold covers a call that still waits for its tool or its user (compaction_pin.py 51-80,
\* precompact.py 251-326, 403-421), also when a manual compaction that was
\* computed before the call is appended after it.
THEOREM ParkedCallStaysHolds == CompactionSpec => []ParkedCallStays
<1>1. HistoryInv => ParkedCallStays
    <2> SUFFICES ASSUME HistoryInv, NEW i \in DOMAIN events, ~(events[i].calls \subseteq AnswersIn(events))
                 PROVE  i \in Shown(events)
        BY DEF ParkedCallStays
    <2>1. SettledIn(events, Covered(events))
        BY CoveredIsSettled DEF HistoryInv
    <2>2. i \in Nat /\ ~(i <= Covered(events))
        BY <2>1 DEF SettledIn, HistoryInv
    <2> QED BY <2>1, <2>2 DEF SettledIn, Shown
<1> QED
    BY <1>1, HistoryStarts, StepKeepsHistory, PTL DEF CompactionSpec

=============================================================================
