------------------------------- MODULE RunStream -------------------------------
(* One run's stream of events and those who read it: the pipeline and its     *)
(* workers append through the run's channel (RunChannel), the manager counts  *)
(* them into the run's record as it ends (RunManager._progress), and each     *)
(* reader takes pages by a cursor -- the command line's follower              *)
(* (cli/runs.py), which also prints what it reads, and the API's and the      *)
(* agent's clients.  A read of a run's state is two reads of the registry,    *)
(* its row and then its events, and the node may stop answering between two.  *)
EXTENDS Naturals, Sequences

CONSTANTS
    Follower,       \* the command lines that follow the run
    Client,         \* clients that page through its events
    MaxStream,      \* bound: events
    AheadAtFirst,   \* the runs queued before it
    NeverRead       \* a count nobody has read

ASSUME StreamBounds == MaxStream \in Nat /\ AheadAtFirst \in Nat /\ NeverRead \notin Nat

VARIABLES
    stream,         \* how many events it has; an event, once numbered, stays
    runStatus,
    ahead,          \* the queued runs before it
    signalled,      \* the run's stop signal is set
    late,           \* a worker passed the signal and has not appended yet
    counted,        \* the events the summary of its end counted
    outcome,        \* what its end is to be, once the summary is counted
    atEnd,          \* the events there were as its row became terminal
    follower,       \* each follower: where it is, its cursor, the pages it printed
    client,         \* each client: its cursor, and the pages it was given
    answering       \* the node answers

streamVars ==
    <<stream, runStatus, ahead, signalled, late, counted, outcome, atEnd, follower, client, answering>>
runSide == <<stream, runStatus, ahead, signalled, late, counted, outcome, atEnd>>

TerminalRun == {"done", "failed", "stopped", "interrupted"}
Terminal(s) == s \in TerminalRun

\* The cursor to go on from after the page behind a cursor (events_since).
PageEnd(cursor) == IF cursor < stream THEN stream ELSE cursor

\* A page is the events from + 1 .. to, in order; a reader goes through it event
\* by event (_print_words), and an empty one changes nothing.
With(pages, from, to) == IF from = to THEN pages ELSE Append(pages, [from |-> from, to |-> to])

NotFollowing == [at |-> "page", cursor |-> 0, printed |-> <<>>, row |-> "queued",
                 events |-> 0, position |-> 0, polled |-> FALSE, placed |-> FALSE]

StreamInit ==
    /\ stream = 0 /\ runStatus = "queued" /\ ahead = AheadAtFirst
    /\ signalled = FALSE /\ late = FALSE /\ counted = NeverRead
    /\ outcome = "none" /\ atEnd = NeverRead
    /\ follower = [c \in Follower |-> NotFollowing]
    /\ client = [c \in Client |-> [cursor |-> 0, given |-> <<>>]]
    /\ answering = TRUE

-----------------------------------------------------------------------------
(* The run. *)

\* queue_position counts the queued rows with a smaller id.
OneAheadLeaves ==
    /\ runStatus = "queued" /\ ahead > 0 /\ ahead' = ahead - 1
    /\ UNCHANGED <<stream, runStatus, signalled, late, counted, outcome, atEnd, follower, client, answering>>

Claimed ==
    /\ runStatus = "queued" /\ ahead = 0 /\ runStatus' = "running"
    /\ UNCHANGED <<stream, ahead, signalled, late, counted, outcome, atEnd, follower, client, answering>>

\* add_run_event numbers the event inside its own insert.
Appended == stream < MaxStream /\ stream' = stream + 1

\* The channel raises instead of reporting once the run was asked to stop.
Reports ==
    /\ runStatus = "running" /\ ~signalled /\ counted = NeverRead
    /\ Appended
    /\ UNCHANGED <<runStatus, ahead, signalled, late, counted, outcome, atEnd, follower, client, answering>>

\* A worker of the pool: it looks at the signal, and appends when it has the
\* events' lock; the wait for it is bounded once the run was asked to stop.
WorkerPasses ==
    /\ runStatus = "running" /\ ~signalled /\ counted = NeverRead /\ ~late /\ late' = TRUE
    /\ UNCHANGED <<stream, runStatus, ahead, signalled, counted, outcome, atEnd, follower, client, answering>>
WorkerAppends ==
    /\ late /\ late' = FALSE /\ Appended
    /\ UNCHANGED <<runStatus, ahead, signalled, counted, outcome, atEnd, follower, client, answering>>
WorkerEnds ==
    /\ late /\ late' = FALSE
    /\ UNCHANGED <<stream, runStatus, ahead, signalled, counted, outcome, atEnd, follower, client, answering>>

AskedToStop ==
    /\ runStatus = "running" /\ ~signalled /\ signalled' = TRUE
    /\ UNCHANGED <<stream, runStatus, ahead, late, counted, outcome, atEnd, follower, client, answering>>

\* The summary is written while a worker still decodes.
Counts_First(s) ==
    /\ runStatus = "running" /\ counted = NeverRead
    /\ counted' = stream /\ outcome' = s
    /\ UNCHANGED <<stream, runStatus, ahead, signalled, late, atEnd, follower, client, answering>>
\* _progress reads the stream before update_run ends the row with it, and what
\* the end is is settled before: "done" when the pipeline returned, its pool
\* joined, whatever was asked meanwhile; "stopped" when it was cancelled, or
\* failed after it was asked to stop; "failed" otherwise, and again when the end
\* itself could not be written.  Only a run asked to stop leaves its pool early.
Counts(s) ==
    /\ runStatus = "running" /\ (counted = NeverRead \/ s = "failed")
    /\ \/ s = "done" /\ ~late
       \/ s = "stopped" /\ signalled
       \/ s = "failed" /\ (late => signalled)
    /\ counted' = stream /\ outcome' = s
    /\ UNCHANGED <<stream, runStatus, ahead, signalled, late, atEnd, follower, client, answering>>
EndsAs(s) ==
    /\ \/ runStatus = "running" /\ counted # NeverRead /\ s = outcome
       \/ runStatus = "running" /\ s = "interrupted" /\ ~late    \* its process died
       \/ runStatus = "queued" /\ s = "stopped"
    /\ runStatus' = s /\ atEnd' = stream
    /\ UNCHANGED <<stream, ahead, signalled, late, counted, outcome, follower, client, answering>>

-----------------------------------------------------------------------------
(* The follower: a page, the state, and round again. *)

Printed(c, to) == With(follower[c].printed, follower[c].cursor, to)

\* cli/runs.py, events and _print_words.
FollowPage(c) ==
    /\ follower[c].at = "page" /\ answering
    /\ LET to == PageEnd(follower[c].cursor)
       IN  follower' = [follower EXCEPT ![c].printed = Printed(c, to), ![c].cursor = to, ![c].at = "row"]
    /\ UNCHANGED <<runSide, client, answering>>

\* RunManager.state reads the row, then the events, then the place in line.
ReadsRow(c) ==
    /\ follower[c].at = "row" /\ answering
    /\ follower' = [follower EXCEPT ![c].row = runStatus, ![c].at = "count"]
    /\ UNCHANGED <<runSide, client, answering>>
CountAt(c) == stream
ReadsEvents(c) ==
    /\ follower[c].at = "count" /\ answering
    /\ follower' = [follower EXCEPT
           ![c].events = CountAt(c),
           ![c].position = IF follower[c].row = "queued" /\ runStatus = "queued" THEN ahead + 1 ELSE 0,
           ![c].at = IF Terminal(follower[c].row) THEN "drain" ELSE "place"]
    /\ UNCHANGED <<runSide, client, answering>>

\* Its place in line is told once, on a poll that is not the first.
TellsPlace(c) ==
    /\ follower[c].at = "place"
    /\ LET f == follower[c] IN
       follower' = [follower EXCEPT ![c].placed = f.placed \/ (f.polled /\ f.position # 0),
                                    ![c].polled = TRUE, ![c].at = "page"]
    /\ UNCHANGED <<runSide, client, answering>>

\* The page it has is the last there is.
DrainsMore_Not(c) == FALSE
\* What was reported between the page and the end is still printed.
DrainsMore(c) == follower[c].cursor < follower[c].events
Drains(c) ==
    /\ follower[c].at = "drain" /\ DrainsMore(c) /\ answering
    /\ LET to == PageEnd(follower[c].cursor)
       IN  follower' = [follower EXCEPT ![c].printed = Printed(c, to), ![c].cursor = to,
                                        ![c].at = IF to = follower[c].cursor THEN "returned" ELSE "drain"]
    /\ UNCHANGED <<runSide, client, answering>>
FollowReturns(c) ==
    /\ follower[c].at = "drain" /\ ~DrainsMore(c)
    /\ follower' = [follower EXCEPT ![c].at = "returned"]
    /\ UNCHANGED <<runSide, client, answering>>

\* It asks again for as long as it takes.
FollowFails_Retries(c) == FALSE
\* NoNodeError: one request nobody answered ends the command.
FollowFails(c) ==
    /\ follower[c].at \in {"page", "row", "count", "drain"} /\ ~answering
    /\ follower' = [follower EXCEPT ![c].at = "no node"]
    /\ UNCHANGED <<runSide, client, answering>>

NodeFallsSilent ==
    /\ answering /\ answering' = FALSE
    /\ UNCHANGED <<runSide, follower, client>>

-----------------------------------------------------------------------------

\* The API's and the agent's run_events: `next` is the cursor and what it gave.
PagesBy(c) ==
    /\ answering
    /\ LET to == PageEnd(client[c].cursor)
       IN  /\ to # client[c].cursor
           /\ client' = [client EXCEPT ![c].given = With(@, client[c].cursor, to), ![c].cursor = to]
    /\ UNCHANGED <<runSide, follower, answering>>

Follows(c) ==
    \/ FollowPage(c) \/ ReadsRow(c) \/ ReadsEvents(c) \/ TellsPlace(c)
    \/ Drains(c) \/ FollowReturns(c) \/ FollowFails(c)

StreamNext ==
    \/ OneAheadLeaves \/ Claimed \/ AskedToStop
    \/ \E s \in {"done", "stopped", "failed"} : Counts(s)
    \/ Reports \/ WorkerPasses \/ WorkerAppends \/ WorkerEnds
    \/ \E s \in TerminalRun : EndsAs(s)
    \/ \E c \in Follower : Follows(c)
    \/ \E c \in Client : PagesBy(c)
    \/ NodeFallsSilent

\* A command line that follows keeps asking.
StreamFairness == \A c \in Follower : WF_streamVars(Follows(c))
StreamSpec == StreamInit /\ [][StreamNext]_streamVars /\ StreamFairness

-----------------------------------------------------------------------------

StreamTypeOK ==
    /\ runStatus \in TerminalRun \cup {"queued", "running"}
    /\ stream \in 0 .. MaxStream /\ ahead \in 0 .. AheadAtFirst
    /\ counted \in 0 .. MaxStream \cup {NeverRead}
    /\ outcome \in {"none", "done", "stopped", "failed"} /\ atEnd \in 0 .. MaxStream \cup {NeverRead}
    /\ \A c \in Follower : follower[c].at \in {"page", "row", "count", "place", "drain", "returned", "no node"}

\* The pages hold every event up to the cursor once and in order: each goes on
\* where the one before it ended.
InOneRow(pages, cursor) ==
    /\ cursor <= stream
    /\ IF pages = <<>> THEN cursor = 0
       ELSE pages[1].from = 0 /\ pages[Len(pages)].to = cursor
    /\ \A k \in 1 .. Len(pages) :
         pages[k].from < pages[k].to /\ (k > 1 => pages[k].from = pages[k - 1].to)

\* "Printing every word the run reports" (cli/runs.py, follow): each once and
\* in order, and the command ends only when everything that was reported by the
\* run's end is out.
EveryWordIsPrinted ==
    \A c \in Follower :
        /\ InOneRow(follower[c].printed, follower[c].cursor)
        /\ follower[c].at = "returned" => Terminal(runStatus) /\ follower[c].cursor >= atEnd

\* A client that goes on from `next` is given every event once.
PagesNeverSkip == \A c \in Client : InOneRow(client[c].given, client[c].cursor)

\* The record of a run that is done, asked to stop or not, and of one that failed
\* by itself counts its whole stream (_progress), also when another worker was
\* still decoding as one failed.
RecordCountsTheStream ==
    runStatus = "done" \/ (runStatus = "failed" /\ ~signalled) => counted = stream

StreamHolds == EveryWordIsPrinted /\ PagesNeverSkip /\ RecordCountsTheStream

\* Whoever follows a run that ended is told so, or that nobody answers.
FollowersAreAnswered ==
    \A c \in Follower : Terminal(runStatus) ~> follower[c].at \in {"returned", "no node"}
=============================================================================
