---------------------------- MODULE SessionStore ----------------------------
(***************************************************************************)
(* One session file of FileSessionService (service/file_session_service.py)*)
(* and everyone who touches it: turns that append events, a manual         *)
(* compaction, the delete middleware with ADK's handler after it, creation *)
(* under the same id, the prune of a retry and the truncation of a rewind. *)
(*                                                                         *)
(* No method of the service suspends while it works (its locks are never   *)
(* contended), so each is one step; callers interleave between the calls.  *)
(* The disk may fill up and the process may die in the middle of a line.   *)
(***************************************************************************)
EXTENDS Naturals, Sequences, SequencesExt

CONSTANTS
    Drivers,      \* turns that may run on the session
    Compactors,   \* manual compactions
    MaxLines,     \* bound: lines of the file
    MaxBirths,    \* bound: creations under this id
    MaxFaults     \* bound: failing writes and crashes

ASSUME SessionStoreAssumption ==
    /\ Drivers \cap Compactors = {}
    /\ MaxLines \in Nat /\ MaxBirths \in Nat /\ MaxFaults \in Nat

Writers == Drivers \cup Compactors

VARIABLES
    file,      \* the lines of the session's file; <<>> when there is none
    marked,    \* is the id in _deleted?
    writer,    \* what each writer is doing
    deleting,  \* between the middleware's abort and the handler's delete
    births,    \* creations so far
    faults,
    gone,      \* history variable: deleted, and nobody has asked to create it again
    kept,      \* history variable: events reported as stored and not taken back
    dead       \* history variable: writers whose session was deleted under them

storeVars == <<file, marked, writer, deleting, births, faults, gone, kept, dead>>

Header == [kind |-> "session", by |-> "none", nr |-> 0]
Event(w, nr) == [kind |-> "event", by |-> w, nr |-> nr]
\* The beginning of a line; an append to it makes one unparsable line.
Torn == [kind |-> "torn", by |-> "none", nr |-> 0]
Junk == [kind |-> "junk", by |-> "none", nr |-> 0]

StoreInit ==
    /\ file = <<Header>> /\ births = 1 /\ marked = FALSE
    /\ writer = [w \in Writers |-> "idle"]
    /\ deleting = FALSE /\ faults = 0 /\ gone = FALSE /\ kept = {}
    /\ dead = {}

-----------------------------------------------------------------------------
(* Reading: json.loads stands outside the handler of a corrupt line.       *)

Present == file # <<>>
Loads(f) == \A i \in DOMAIN f : f[i].kind \in {"session", "event"}
EventsOf(f) == {f[i] : i \in {j \in DOMAIN f : f[j].kind = "event"}}
NextNr(f, k) == CHOOSE n \in 1 .. MaxLines + MaxFaults + 1 :
                    \A e \in EventsOf(f) \cup k : e.nr # n

At(w) == writer[w] \in {"active", "dying"}
Sets(w, st) == writer' = [writer EXCEPT ![w] = st]

(* A turn starts only when no other runs (TurnBroker), a compaction is     *)
(* refused while one does; both need the session to load.                  *)
Begin(w) ==
    /\ writer[w] = "idle" /\ Present /\ Loads(file)
    /\ \A d \in Drivers : ~At(d)
    /\ Sets(w, "active")
    /\ UNCHANGED <<file, marked, deleting, births, faults, gone, kept, dead>>

(* append_event.                                                           *)
Joined(f, line) ==
    IF f # <<>> /\ Last(f).kind = "torn" THEN Append(Front(f), Junk)
    ELSE Append(f, line)

Stored_Always(w) ==
    LET e == Event(w, NextNr(file, kept)) IN
    /\ Len(file) < MaxLines
    /\ file' = Joined(file, e) /\ kept' = kept \cup {e}

Stored(w) ==
    LET e == Event(w, NextNr(file, kept)) IN
    /\ ~marked /\ Len(file) < MaxLines
    /\ file' = Joined(file, e) /\ kept' = kept \cup {e}

Write(w) ==
    /\ At(w)
    /\ \/ Stored(w)
       \/ marked /\ UNCHANGED <<file, kept>>
    /\ writer[w] = "dying" \/ w \in Compactors => Sets(w, "over")
    /\ writer[w] = "active" /\ w \in Drivers => UNCHANGED writer
    /\ UNCHANGED <<marked, deleting, births, faults, gone, dead>>

\* The disk is full: part of the line is there, and the writer gets the error.
WriteFails(w) ==
    /\ At(w) /\ ~marked /\ faults < MaxFaults /\ Len(file) < MaxLines
    /\ file' = Joined(file, Torn) /\ faults' = faults + 1
    /\ Sets(w, "over")
    /\ UNCHANGED <<marked, deleting, births, gone, kept, dead>>

Finish(w) ==
    /\ At(w) /\ Sets(w, "over")
    /\ UNCHANGED <<file, marked, deleting, births, faults, gone, kept, dead>>

-----------------------------------------------------------------------------
(* Cutting the history back.  The file is rewritten beside itself and      *)
(* replaced; both need it to load.                                         *)

Cut(n) == /\ file' = SubSeq(file, 1, n)
          /\ kept' = kept \cap EventsOf(SubSeq(file, 1, n))

\* truncate_before_invocation, from the rewind route and another instance of
\* the service: it looks for the file, not for the mark.
TruncateBefore(n) ==
    /\ Present /\ Loads(file) /\ n \in 1 .. Len(file) - 1
    /\ Cut(n)
    /\ UNCHANGED <<marked, writer, deleting, births, faults, gone, dead>>

\* _prune_orphan of a retry: only the last event, and only an older turn's.
DeleteLast(w) ==
    /\ w \in Drivers /\ At(w) /\ Present /\ Loads(file)
    /\ Last(file).kind = "event" /\ Last(file).by \in Drivers \ {w}
    /\ Cut(Len(file) - 1)
    /\ UNCHANGED <<marked, writer, deleting, births, faults, gone, dead>>

-----------------------------------------------------------------------------
(* DELETE: the middleware cancels the turns and goes on without waiting.   *)

AbortBeforeDelete ==
    /\ ~deleting /\ deleting' = TRUE
    /\ writer' = [w \in Writers |-> IF w \in Drivers /\ writer[w] = "active"
                                    THEN "dying" ELSE writer[w]]
    /\ UNCHANGED <<file, marked, births, faults, gone, kept, dead>>

\* The mark comes first; a failing unlink is swallowed.
DeleteSession ==
    /\ deleting /\ deleting' = FALSE
    /\ marked' = TRUE /\ dead' = dead \cup {w \in Writers : At(w)}
    /\ \/ file' = <<>> /\ gone' = TRUE /\ kept' = {} /\ UNCHANGED faults
       \/ /\ Present /\ faults < MaxFaults /\ faults' = faults + 1
          /\ UNCHANGED <<file, gone, kept>>
    /\ UNCHANGED <<writer, births>>

\* create_session opens the file for writing without looking for it.
CreateSession_Overwrites ==
    /\ births < MaxBirths /\ births' = births + 1
    /\ marked' = FALSE /\ file' = <<Header>> /\ gone' = FALSE
    /\ UNCHANGED <<writer, deleting, faults, kept, dead>>

\* create_session forgets the mark before it finds out that the id is taken.
CreateSession ==
    /\ births < MaxBirths /\ births' = births + 1
    /\ marked' = FALSE
    /\ \/ Present /\ UNCHANGED <<file, gone>>
       \/ ~Present /\ file' = <<Header>> /\ gone' = FALSE
    /\ UNCHANGED <<writer, deleting, faults, kept, dead>>

\* Nor does it remember the mark when the directory or the file cannot be written; an
\* empty file loads as one with a header.
CreateFails ==
    /\ births < MaxBirths /\ births' = births + 1
    /\ faults < MaxFaults /\ faults' = faults + 1
    /\ ~Present /\ marked' = FALSE /\ gone' = FALSE
    /\ file' \in {<<>>, <<Torn>>, <<Header>>}
    /\ UNCHANGED <<writer, deleting, kept, dead>>

\* The process dies, perhaps in the middle of a write; the marks were its own.
CrashWhole ==
    /\ faults < MaxFaults /\ faults' = faults + 1
    /\ \/ UNCHANGED file
       \/ /\ ~marked /\ Len(file) < MaxLines
          /\ \E w \in Writers : At(w)
          /\ file' = Joined(file, Torn)
    /\ marked' = FALSE /\ deleting' = FALSE
    /\ writer' = [w \in Writers |-> IF At(w) THEN "over" ELSE writer[w]]
    /\ UNCHANGED <<births, gone, kept, dead>>

StoreNext ==
    \/ \E w \in Writers : Begin(w) \/ Write(w) \/ WriteFails(w) \/ Finish(w) \/ DeleteLast(w)
    \/ \E n \in 1 .. MaxLines : TruncateBefore(n)
    \/ AbortBeforeDelete \/ DeleteSession \/ CreateSession \/ CreateFails \/ CrashWhole

StoreSpec == StoreInit /\ [][StoreNext]_storeVars

-----------------------------------------------------------------------------
(* Properties.                                                             *)

\* A deleted session stays deleted: no turn that is still unwinding, no late
\* compaction, retry or rewind writes its file back (append_event opens the file for
\* appending and would create it).
NoRebirth == gone => ~Present

\* file_session_service.py:115-120: what a run still wants to store of a session that was
\* deleted under it, storage refuses.  The mark is of the id, not of the run: once the id
\* is created again, the old run writes into the new session.
DeadRunsStayOut ==
    [][\A e \in EventsOf(file') \ EventsOf(file) : e.by \notin dead]_storeVars

\* Whenever the session loads it holds exactly the events that were reported as
\* stored and not taken back by a rewind or a prune, whatever failed in between.
LoadsWhatWasKept == Present /\ Loads(file) => EventsOf(file) = kept

\* file_session_service.py:208 promises to skip a corrupt line and keep the rest; the
\* line is parsed before that handler, so one torn line makes the session unreadable.
StaysLoadable == Present => Loads(file)
=============================================================================
