---------------------------- MODULE CommandsProofs ----------------------------
(* What the processes around a node keep, whatever the number of commands,    *)
(* consoles, workers and tokens: whoever follows a run reads its whole        *)
(* stream, a command finds the node that won the port, a console leaves no    *)
(* mapping behind, and the pipe the tests share is never inflated.  A part of *)
(* MCCommands shares no variable with the others, so each has an inductive    *)
(* invariant of its own, and the theorems at the end join them.               *)
EXTENDS MCCommands, FiniteSetTheorems, TLAPS

(* The stream of a run and who reads it (RunStream). *)

Page == [from : Nat, to : Nat]

\* The run's row and its counts.
CountsOK ==
    /\ runStatus \in TerminalRun \cup {"queued", "running"}
    /\ stream \in Nat /\ stream <= MaxStream /\ ahead \in Nat /\ ahead <= AheadAtFirst
    /\ counted # NeverRead => counted \in Nat /\ counted <= MaxStream
    /\ outcome \in {"none", "done", "stopped", "failed"}
    /\ atEnd # NeverRead => atEnd \in Nat /\ atEnd <= MaxStream

\* What a follower knows and printed, and what a client was given.
ReadersOK ==
    /\ follower \in [Follower ->
          [at : {"page", "row", "count", "place", "drain", "returned", "no node"},
           cursor : Nat, printed : Seq(Page), row : TerminalRun \cup {"queued", "running"},
           events : Nat, position : Nat, polled : BOOLEAN, placed : BOOLEAN]]
    /\ client \in [Client -> [cursor : Nat, given : Seq(Page)]]

\* The run's side: a run that ended ended with what there was, and the count of
\* one that is to be done, or failed without a stop, is still right, as nobody
\* appends after it.
RunOK ==
    /\ Terminal(runStatus) => atEnd \in Nat /\ atEnd <= stream
    /\ outcome # "none" => counted # NeverRead
    /\ runStatus \in {"done", "failed"} => outcome = runStatus
    /\ outcome = "done" \/ (outcome = "failed" /\ ~ signalled) => ~ late /\ counted = stream

\* A follower that read a terminal row drains what there was as it ended.
DrainsTheEnd(c) ==
    /\ Terminal(follower[c].row) => Terminal(runStatus)
    /\ follower[c].at \in {"drain", "returned"} => Terminal(follower[c].row)
    /\ follower[c].at = "drain" => follower[c].events >= atEnd
    /\ follower[c].at = "returned" => follower[c].cursor >= atEnd

StreamInv ==
    /\ CountsOK /\ ReadersOK /\ RunOK
    /\ \A c \in Follower : InOneRow(follower[c].printed, follower[c].cursor) /\ DrainsTheEnd(c)
    /\ \A c \in Client : InOneRow(client[c].given, client[c].cursor)

\* A reader that goes on from its cursor has every event up to the new one.
LEMMA NextPage ==
  ASSUME NEW pages \in Seq(Page), NEW cursor \in Nat, stream \in Nat,
         InOneRow(pages, cursor), NEW to, to = PageEnd(cursor)
  PROVE  /\ to \in Nat /\ to = stream
         /\ With(pages, cursor, to) \in Seq(Page) /\ InOneRow(With(pages, cursor, to), to)
<1>1. to = stream /\ cursor <= to /\ to \in Nat
  BY DEF PageEnd, InOneRow
<1>2. CASE to = cursor
  BY <1>1, <1>2 DEF With
<1>3. CASE to # cursor
  <2> DEFINE page == [from |-> cursor, to |-> to]
             more == Append(pages, page)
  <2>1. page \in Page /\ page.from = cursor /\ page.to = to /\ cursor < to
    BY <1>1, <1>3 DEF Page
  <2>2. /\ more \in Seq(Page) /\ Len(more) = Len(pages) + 1 /\ Len(pages) \in Nat
        /\ more # <<>> /\ more[Len(more)] = page
        /\ \A k \in 1 .. Len(pages) : more[k] = pages[k]
    BY <2>1
  <2>3. IF pages = <<>> THEN cursor = 0 /\ Len(pages) = 0
        ELSE pages[1].from = 0 /\ pages[Len(pages)].to = cursor /\ Len(pages) >= 1
    BY DEF InOneRow
  <2>4. more[1].from = 0
    BY <2>1, <2>2, <2>3
  <2>5. ASSUME NEW k \in 1 .. Len(more)
        PROVE  more[k].from < more[k].to /\ (k > 1 => more[k].from = more[k - 1].to)
    <3>1. CASE k = Len(more)
      BY <2>1, <2>2, <2>3, <3>1
    <3>2. CASE k # Len(more)
      <4>1. k \in 1 .. Len(pages) /\ (k > 1 => k - 1 \in 1 .. Len(pages))
        BY <2>2, <3>2
      <4>2. more[k] = pages[k] /\ (k > 1 => more[k - 1] = pages[k - 1])
        BY <2>2, <4>1
      <4>3. QED
        BY <4>1, <4>2 DEF InOneRow
    <3>3. QED
      BY <3>1, <3>2
  <2>6. InOneRow(more, to)
    <3> HIDE DEF more
    <3>1. more[Len(more)].to = to
      BY <2>1, <2>2
    <3>2. QED
      BY <1>1, <2>2, <2>4, <2>5, <3>1 DEF InOneRow
  <2>7. QED
    BY <1>1, <1>3, <2>2, <2>6 DEF With
<1>4. QED
  BY <1>2, <1>3

LEMMA StreamInitInv == StreamInit => StreamInv
<1> SUFFICES ASSUME StreamInit PROVE StreamInv
  OBVIOUS
<1>1. CountsOK /\ RunOK
  BY StreamBounds DEF StreamInit, CountsOK, RunOK, Terminal, TerminalRun
<1>2. ReadersOK
  BY DEF StreamInit, ReadersOK, NotFollowing, Page
<1>3. InOneRow(<<>>, 0)
  BY DEF StreamInit, InOneRow
<1>4. \A c \in Follower : follower[c] = NotFollowing
  BY DEF StreamInit
<1>5. \A c \in Follower : InOneRow(follower[c].printed, follower[c].cursor) /\ DrainsTheEnd(c)
  <2> SUFFICES ASSUME NEW c \in Follower
               PROVE  InOneRow(follower[c].printed, follower[c].cursor) /\ DrainsTheEnd(c)
    OBVIOUS
  <2>1. /\ follower[c].printed = <<>> /\ follower[c].cursor = 0
        /\ follower[c].row = "queued" /\ follower[c].at = "page"
    BY <1>4 DEF NotFollowing
  <2>2. QED
    BY <1>3, <2>1 DEF DrainsTheEnd, Terminal, TerminalRun
<1>6. \A c \in Client : InOneRow(client[c].given, client[c].cursor)
  BY <1>3 DEF StreamInit
<1>7. QED
  BY <1>1, <1>2, <1>5, <1>6 DEF StreamInv

\* The steps of the run keep the invariant.
LEMMA RunStays ==
  ASSUME StreamInv,
         \/ OneAheadLeaves \/ Claimed \/ AskedToStop
         \/ \E s \in {"done", "stopped", "failed"} : Counts(s)
         \/ Reports \/ WorkerPasses \/ WorkerAppends \/ WorkerEnds
         \/ \E s \in TerminalRun : EndsAs(s)
  PROVE  StreamInv'
<1> USE StreamBounds DEF StreamInv
<1>1. UNCHANGED <<follower, client, answering>>
  BY DEF OneAheadLeaves, Claimed, AskedToStop, Counts, Reports, WorkerPasses, WorkerAppends,
         WorkerEnds, EndsAs
<1>2. stream' \in Nat /\ stream \in Nat /\ stream <= stream'
  BY DEF OneAheadLeaves, Claimed, AskedToStop, Counts, Reports, WorkerPasses, WorkerAppends,
         WorkerEnds, EndsAs, Appended, CountsOK
<1>3. CountsOK'
  <2>1. CASE OneAheadLeaves \/ Claimed \/ AskedToStop \/ Reports
    BY <2>1 DEF OneAheadLeaves, Claimed, AskedToStop, Reports, Appended, CountsOK
  <2>2. CASE WorkerPasses \/ WorkerAppends \/ WorkerEnds
    BY <2>2 DEF WorkerPasses, WorkerAppends, WorkerEnds, Appended, CountsOK
  <2>3. CASE \E s \in {"done", "stopped", "failed"} : Counts(s)
    BY <2>3 DEF Counts, CountsOK
  <2>4. CASE \E s \in TerminalRun : EndsAs(s)
    BY <2>4 DEF EndsAs, CountsOK
  <2>5. QED
    BY <2>1, <2>2, <2>3, <2>4
<1>4. ReadersOK'
  BY <1>1 DEF ReadersOK
<1>5. RunOK'
  <2>1. CASE OneAheadLeaves \/ Claimed \/ AskedToStop
    BY <1>1, <2>1 DEF OneAheadLeaves, Claimed, AskedToStop, RunOK, CountsOK, Terminal, TerminalRun
  <2>2. CASE \E s \in {"done", "stopped", "failed"} : Counts(s)
    BY <1>1, <2>2 DEF Counts, RunOK, CountsOK, Terminal, TerminalRun
  <2>3. CASE Reports \/ WorkerPasses
    BY <1>1, <2>3 DEF Reports, WorkerPasses, RunOK, CountsOK, Terminal, TerminalRun, Appended
  <2>4. CASE WorkerAppends \/ WorkerEnds
    <3>1. /\ late /\ outcome # "done" /\ (outcome = "failed" => signalled)
          /\ runStatus # "done" /\ (runStatus = "failed" => outcome = "failed")
      BY <2>4 DEF WorkerAppends, WorkerEnds, RunOK
    <3>2. UNCHANGED <<runStatus, signalled, counted, outcome, atEnd>> /\ late' = FALSE
      BY <2>4 DEF WorkerAppends, WorkerEnds
    <3>3. QED
      BY <1>1, <1>2, <3>1, <3>2 DEF RunOK, Terminal
  <2>5. CASE \E s \in TerminalRun : EndsAs(s)
    BY <1>1, <1>2, <2>5 DEF EndsAs, RunOK, CountsOK, Terminal, TerminalRun
  <2>6. QED
    BY <2>1, <2>2, <2>3, <2>4, <2>5
<1>6. (Terminal(runStatus) => runStatus' = runStatus \/ Terminal(runStatus'))
      /\ (Terminal(runStatus) => atEnd' = atEnd)
  BY DEF OneAheadLeaves, Claimed, AskedToStop, Counts, Reports, WorkerPasses, WorkerAppends,
         WorkerEnds, EndsAs, Terminal, TerminalRun
<1>7. ASSUME NEW c \in Follower PROVE DrainsTheEnd(c)'
  BY <1>1, <1>6 DEF DrainsTheEnd
<1>8. ASSUME NEW c \in Follower PROVE InOneRow(follower[c].printed, follower[c].cursor)'
  <2>1. follower[c].printed \in Seq(Page) /\ follower[c].cursor \in Nat
    BY DEF ReadersOK
  <2>2. InOneRow(follower[c].printed, follower[c].cursor)
    OBVIOUS
  <2>3. QED
    BY <1>1, <1>2, <2>1, <2>2 DEF InOneRow
<1>9. ASSUME NEW c \in Client PROVE InOneRow(client[c].given, client[c].cursor)'
  <2>1. InOneRow(client[c].given, client[c].cursor)
    OBVIOUS
  <2>2. client[c].given \in Seq(Page) /\ client[c].cursor \in Nat
    BY DEF ReadersOK
  <2>3. QED
    BY <1>1, <1>2, <2>1, <2>2 DEF InOneRow
<1>10. QED
  BY <1>3, <1>4, <1>5, <1>7, <1>8, <1>9

\* A step of one follower disturbs what that follower has, and nothing else.
LEMMA FollowStays ==
  ASSUME StreamInv, NEW c \in Follower, Follows(c) PROVE StreamInv'
<1> USE StreamBounds DEF StreamInv
<1>1. UNCHANGED <<runSide, client, answering>>
  BY DEF Follows, FollowPage, ReadsRow, ReadsEvents, TellsPlace, Drains, FollowReturns, FollowFails
<1>2. UNCHANGED <<stream, runStatus, ahead, signalled, late, counted, outcome, atEnd, client, answering>>
  BY <1>1 DEF runSide
<1>3. RunOK' /\ \A d \in Client : InOneRow(client[d].given, client[d].cursor)'
  BY <1>2 DEF RunOK, InOneRow, Terminal
<1> DEFINE f == follower[c]
           to == PageEnd(f.cursor)
<1>4. f \in [at : {"page", "row", "count", "place", "drain", "returned", "no node"},
           cursor : Nat, printed : Seq(Page), row : TerminalRun \cup {"queued", "running"},
           events : Nat, position : Nat, polled : BOOLEAN, placed : BOOLEAN]
  BY DEF ReadersOK
<1>5. stream \in Nat /\ ahead \in Nat /\ InOneRow(f.printed, f.cursor) /\ DrainsTheEnd(c)
  BY DEF CountsOK
<1>6. /\ to \in Nat /\ to = stream
      /\ With(f.printed, f.cursor, to) \in Seq(Page)
      /\ InOneRow(With(f.printed, f.cursor, to), to)
  BY <1>4, <1>5, NextPage
<1>7. PICK g : /\ follower' = [follower EXCEPT ![c] = g]
               /\ g \in [at : {"page", "row", "count", "place", "drain", "returned", "no node"},
                         cursor : Nat, printed : Seq(Page),
                         row : TerminalRun \cup {"queued", "running"},
                         events : Nat, position : Nat, polled : BOOLEAN, placed : BOOLEAN]
               /\ InOneRow(g.printed, g.cursor)
               /\ Terminal(g.row) => Terminal(runStatus)
               /\ g.at \in {"drain", "returned"} => Terminal(g.row)
               /\ g.at = "drain" => g.events >= atEnd
               /\ g.at = "returned" => g.cursor >= atEnd
  <2> DEFINE Good(g) ==
               /\ follower' = [follower EXCEPT ![c] = g]
               /\ g \in [at : {"page", "row", "count", "place", "drain", "returned", "no node"},
                         cursor : Nat, printed : Seq(Page),
                         row : TerminalRun \cup {"queued", "running"},
                         events : Nat, position : Nat, polled : BOOLEAN, placed : BOOLEAN]
               /\ InOneRow(g.printed, g.cursor)
               /\ Terminal(g.row) => Terminal(runStatus)
               /\ g.at \in {"drain", "returned"} => Terminal(g.row)
               /\ g.at = "drain" => g.events >= atEnd
               /\ g.at = "returned" => g.cursor >= atEnd
  <2> SUFFICES \E g : Good(g)
    OBVIOUS
  <2>1. CASE FollowPage(c)
    <3>1. Good([f EXCEPT !.printed = With(f.printed, f.cursor, to), !.cursor = to, !.at = "row"])
      BY <1>4, <1>5, <1>6, <2>1 DEF FollowPage, Printed, DrainsTheEnd, ReadersOK
    <3>2. QED
      BY <3>1
  <2>2. CASE ReadsRow(c)
    <3>1. runStatus \in TerminalRun \cup {"queued", "running"}
      BY DEF CountsOK
    <3>2. Good([f EXCEPT !.row = runStatus, !.at = "count"])
      BY <1>4, <1>5, <2>2, <3>1 DEF ReadsRow, DrainsTheEnd, ReadersOK
    <3>3. QED
      BY <3>2
  <2>3. CASE ReadsEvents(c)
    <3> DEFINE place == IF f.row = "queued" /\ runStatus = "queued" THEN ahead + 1 ELSE 0
               at == IF Terminal(f.row) THEN "drain" ELSE "place"
    <3>1. place \in Nat /\ (Terminal(f.row) => stream >= atEnd)
      BY <1>5 DEF DrainsTheEnd, RunOK
    <3>2. Good([f EXCEPT !.events = stream, !.position = place, !.at = at])
      BY <1>4, <1>5, <2>3, <3>1 DEF ReadsEvents, CountAt, DrainsTheEnd, ReadersOK
    <3>3. QED
      BY <3>2
  <2>4. CASE TellsPlace(c)
    <3>1. Good([f EXCEPT !.placed = f.placed \/ (f.polled /\ f.position # 0), !.polled = TRUE,
                         !.at = "page"])
      BY <1>4, <1>5, <2>4 DEF TellsPlace, DrainsTheEnd, ReadersOK
    <3>2. QED
      BY <3>1
  <2>5. CASE Drains(c)
    <3> DEFINE at == IF to = f.cursor THEN "returned" ELSE "drain"
    <3>1. atEnd \in Nat /\ atEnd <= stream /\ Terminal(f.row) /\ Terminal(runStatus) /\ f.events >= atEnd
      BY <1>5, <2>5 DEF Drains, DrainsTheEnd, RunOK
    <3>2. Good([f EXCEPT !.printed = With(f.printed, f.cursor, to), !.cursor = to, !.at = at])
      BY <1>4, <1>5, <1>6, <2>5, <3>1 DEF Drains, Printed, ReadersOK
    <3>3. QED
      BY <3>2
  <2>6. CASE FollowReturns(c)
    <3>1. atEnd \in Nat /\ atEnd <= stream /\ Terminal(f.row) /\ Terminal(runStatus) /\ f.events >= atEnd
      BY <1>5, <2>6 DEF FollowReturns, DrainsTheEnd, RunOK
    <3>4. f.cursor \in Nat /\ f.events \in Nat /\ ~ (f.cursor < f.events)
      BY <1>4, <2>6 DEF FollowReturns, DrainsMore
    <3>2. f.cursor >= atEnd
      <4> HIDE DEF f
      <4>1. QED
        BY <3>1, <3>4
    <3>3. Good([f EXCEPT !.at = "returned"])
      BY <1>4, <1>5, <2>6, <3>1, <3>2 DEF FollowReturns, ReadersOK
    <3>5. QED
      BY <3>3
  <2>7. CASE FollowFails(c)
    <3>1. Good([f EXCEPT !.at = "no node"])
      BY <1>4, <1>5, <2>7 DEF FollowFails, DrainsTheEnd, ReadersOK
    <3>2. QED
      BY <3>1
  <2>8. QED
    BY <2>1, <2>2, <2>3, <2>4, <2>5, <2>6, <2>7 DEF Follows
<1>8. ASSUME NEW d \in Follower
      PROVE  /\ follower'[d] = IF d = c THEN g ELSE follower[d]
             /\ InOneRow(follower[d].printed, follower[d].cursor)' /\ DrainsTheEnd(d)'
  <2>1. follower'[d] = IF d = c THEN g ELSE follower[d]
    BY <1>7 DEF ReadersOK
  <2>2. CASE d = c
    <3>1. follower'[d] = g
      BY <2>1, <2>2
    <3>2. DrainsTheEnd(d)'
      BY <1>2, <1>7, <3>1 DEF DrainsTheEnd, Terminal
    <3>3. InOneRow(follower[d].printed, follower[d].cursor)'
      BY <1>2, <1>7, <3>1 DEF InOneRow
    <3>4. QED
      BY <2>1, <3>2, <3>3
  <2>3. CASE d # c
    <3>1. InOneRow(follower[d].printed, follower[d].cursor) /\ DrainsTheEnd(d)
      OBVIOUS
    <3>2. QED
      BY <1>2, <2>1, <2>3, <3>1 DEF InOneRow, DrainsTheEnd
  <2>4. QED
    BY <2>1, <2>2, <2>3
<1>9. ReadersOK'
  BY <1>2, <1>7 DEF ReadersOK
<1>10. CountsOK'
  BY <1>2, <1>9 DEF CountsOK, ReadersOK
<1>11. QED
  BY <1>3, <1>8, <1>9, <1>10

\* Every step keeps the invariant.
LEMMA StreamStays == ASSUME StreamInv, [StreamNext]_streamVars PROVE StreamInv'
<1>1. ASSUME NEW c \in Client, PagesBy(c) PROVE StreamInv'
  <2> USE StreamBounds DEF StreamInv
  <2> DEFINE to == PageEnd(client[c].cursor)
             g == [client[c] EXCEPT !.given = With(client[c].given, client[c].cursor, to), !.cursor = to]
  <2>1. UNCHANGED <<stream, runStatus, ahead, signalled, late, counted, outcome, atEnd, follower, answering>>
    BY <1>1 DEF PagesBy, runSide
  <2>2. client[c] \in [cursor : Nat, given : Seq(Page)] /\ stream \in Nat
    BY DEF ReadersOK, CountsOK
  <2>3. InOneRow(client[c].given, client[c].cursor)
    OBVIOUS
  <2>4. /\ to \in Nat /\ With(client[c].given, client[c].cursor, to) \in Seq(Page)
        /\ InOneRow(With(client[c].given, client[c].cursor, to), to)
    BY <2>2, <2>3, NextPage
  <2>5. g \in [cursor : Nat, given : Seq(Page)] /\ InOneRow(g.given, g.cursor)
    BY <2>2, <2>4
  <2>6. client' = [client EXCEPT ![c] = g]
    BY <1>1 DEF PagesBy
  <2>7. ASSUME NEW d \in Client PROVE InOneRow(client[d].given, client[d].cursor)'
    <3>1. client'[d] = IF d = c THEN g ELSE client[d]
      BY <2>6 DEF ReadersOK
    <3>2. InOneRow(client[d].given, client[d].cursor)
      OBVIOUS
    <3> HIDE DEF g
    <3>3. QED
      BY <2>1, <2>5, <3>1, <3>2 DEF InOneRow
  <2>8. ReadersOK'
    <3> HIDE DEF g
    <3>1. QED
      BY <2>1, <2>5, <2>6 DEF ReadersOK
  <2>9. CountsOK' /\ RunOK'
    BY <2>1 DEF CountsOK, RunOK, Terminal
  <2>10. \A d \in Follower : InOneRow(follower[d].printed, follower[d].cursor)' /\ DrainsTheEnd(d)'
    BY <2>1 DEF InOneRow, DrainsTheEnd
  <2>11. QED
    BY <2>7, <2>8, <2>9, <2>10
<1>2. CASE NodeFallsSilent \/ UNCHANGED streamVars
  <2>1. UNCHANGED <<stream, runStatus, ahead, signalled, late, counted, outcome, atEnd, follower, client>>
    BY <1>2 DEF NodeFallsSilent, streamVars, runSide
  <2>2. QED
    BY <2>1 DEF StreamInv, CountsOK, ReadersOK, RunOK, DrainsTheEnd, InOneRow, Terminal
<1>3. QED
  BY <1>1, <1>2, RunStays, FollowStays DEF StreamNext

LEMMA StreamInvGives == StreamInv => StreamTypeOK /\ StreamHolds
<1> SUFFICES ASSUME StreamInv
             PROVE  StreamTypeOK /\ EveryWordIsPrinted /\ PagesNeverSkip /\ RecordCountsTheStream
  BY DEF StreamInv, StreamHolds
<1>1. EveryWordIsPrinted
  BY DEF StreamInv, EveryWordIsPrinted, DrainsTheEnd
<1>2. PagesNeverSkip
  BY DEF StreamInv, PagesNeverSkip
<1>3. RecordCountsTheStream
  BY DEF StreamInv, RunOK, RecordCountsTheStream
<1>4. /\ stream \in 0 .. MaxStream /\ ahead \in 0 .. AheadAtFirst
      /\ runStatus \in TerminalRun \cup {"queued", "running"}
  BY StreamBounds DEF StreamInv, CountsOK
<1>5. counted \in 0 .. MaxStream \cup {NeverRead} /\ outcome \in {"none", "done", "stopped", "failed"}
  BY StreamBounds DEF StreamInv, CountsOK
<1>6. atEnd \in 0 .. MaxStream \cup {NeverRead}
  BY StreamBounds DEF StreamInv, CountsOK
<1>7. \A c \in Follower : follower[c].at \in {"page", "row", "count", "place", "drain", "returned", "no node"}
  BY DEF StreamInv, ReadersOK
<1>8. StreamTypeOK
  BY <1>4, <1>5, <1>6, <1>7 DEF StreamTypeOK
<1>9. QED
  BY <1>1, <1>2, <1>3, <1>8

-----------------------------------------------------------------------------
(* Commands that find a node or start one (NodeStart). *)

Phases == {"idle", "starting", "polling", "attached", "running", "gone", "none", "unfindable"}
Cmd == [phase : Phases, deadline : 0..(MaxNow + Deadline), stoppedAt : 0..NotYet]
Node == [phase : {"none", "starting", "bound", "recorded", "gone"}, since : 0..MaxNow]

\* The holder of the port is the child that bound it; the record names the one
\* that recorded itself; and without a kill a child is gone for a taken port.
PortInv ==
    /\ \A d \in Command : port = d <=> node[d].phase \in {"bound", "recorded"}
    /\ unwritable => recordOf = NoNode
    /\ \A d \in Command : ~ unwritable /\ node[d].phase = "recorded" => recordOf = d
    /\ befell = 0 => \A d \in Command : node[d].phase = "gone" => port # NoNode

\* A command and the child it started.
ChildInv(c) ==
    /\ cmd[c].phase \in {"idle", "starting"} => node[c].phase = "none" /\ c \notin polled
    /\ ChildAlive(c) => cmd[c].phase \in {"polling", "attached", "running", "gone", "unfindable"}
    /\ ChildAlive(c) /\ unwritable => cmd[c].phase \in {"polling", "unfindable"}
    /\ cmd[c].phase = "polling" => /\ node[c].phase # "none"
                                   /\ now <= cmd[c].deadline
                                   /\ c \in polled => now < cmd[c].deadline

\* A node needs no more than Startup to bind and again to answer, so the one
\* that beat a command's child answers before the command has done waiting.
InTime == "slow" \notin StartEvents /\ Startup < Grace /\ 2 * Startup < Deadline
TimeInv(c) ==
    /\ node[c].phase \in {"starting", "bound"} => now <= node[c].since + Startup
    /\ node[c].since <= now
    /\ befell = 0 /\ node[c].phase = "gone" =>
          \A d \in Command : node[d].phase = "bound" => node[d].since <= node[c].since
    /\ cmd[c].phase = "polling" /\ cmd[c].stoppedAt # NotYet =>
          node[c].phase = "gone" /\ node[c].since <= cmd[c].stoppedAt
    /\ cmd[c].phase = "polling" /\ node[c].phase = "starting" =>
          node[c].since + Deadline = cmd[c].deadline
    /\ cmd[c].phase = "polling" /\ befell = 0 /\ node[c].phase = "gone" =>
          node[c].since + Deadline <= cmd[c].deadline + Startup
    /\ cmd[c].phase \in {"idle", "starting"} => cmd[c].stoppedAt = NotYet
    /\ cmd[c].phase = "none" /\ befell = 0 /\ ~ unwritable => port = Stranger

StartInv ==
    /\ StartTypeOK /\ PortInv
    /\ \A c \in Command : ChildInv(c)
    /\ InTime => \A c \in Command : TimeInv(c)

LEMMA StartInitInv == StartInit => StartInv
BY NodeStartAssumption DEF StartInit, StartInv, StartTypeOK, PortInv, ChildInv, TimeInv, ChildAlive, NotYet

LEMMA StartTypesStay == ASSUME StartTypeOK, [StartNext]_startVars PROVE StartTypeOK'
<1> USE NodeStartAssumption DEF NotYet
<1>0. /\ cmd \in [Command -> Cmd] /\ node \in [Command -> Node] /\ now \in 0 .. MaxNow
      /\ port \in Command \cup {NoNode, Stranger} /\ recordOf \in Command \cup {NoNode}
      /\ given \in [Command -> Command \cup {NoNode}] /\ befell \in 0 .. MaxStartEvents
      /\ unwritable \in BOOLEAN /\ polled \subseteq Command
  BY DEF StartTypeOK, Cmd, Node, Phases
<1>1. cmd' \in [Command -> Cmd]
  <2>1. ASSUME NEW c \in Command, NEW p \in Phases PROVE [cmd[c] EXCEPT !.phase = p] \in Cmd
    BY <1>0 DEF Cmd
  <2>2. ASSUME NEW c \in Command, NEW p \in Phases, Goes(c, p) PROVE cmd' \in [Command -> Cmd]
    BY <1>0, <2>1, <2>2 DEF Goes
  <2>3. ASSUME NEW c \in Command, AsksForNode(c) PROVE cmd' \in [Command -> Cmd]
    BY <2>2, <2>3 DEF AsksForNode, Attach, Phases
  <2>4. ASSUME NEW c \in Command, StartsNode(c) PROVE cmd' \in [Command -> Cmd]
    <3>1. [phase |-> "polling", deadline |-> now + Deadline, stoppedAt |-> NotYet] \in Cmd
      BY <1>0 DEF Cmd, Phases
    <3>2. QED
      BY <1>0, <2>2, <2>4, <3>1 DEF StartsNode, Phases
  <2>5. ASSUME NEW c \in Command, Polls(c) PROVE cmd' \in [Command -> Cmd]
    <3>1. StoppedAt(c) \in 0 .. NotYet /\ Verdict(c) \in Phases
      BY <1>0 DEF StoppedAt, Verdict, Cmd, Phases
    <3> DEFINE p == IF GivesUp(c) THEN Verdict(c) ELSE "polling"
    <3>2. p \in Phases /\ cmd[c] \in Cmd
      BY <1>0, <3>1 DEF Phases
    <3>4. [cmd[c] EXCEPT !.stoppedAt = StoppedAt(c), !.phase = p] \in Cmd
      <4> HIDE DEF p
      <4>1. QED
        BY <3>1, <3>2 DEF Cmd
    <3>5. QED
      BY <1>0, <2>2, <2>5, <3>4 DEF Polls, Attach, Phases
  <2>6. ASSUME NEW c \in Command, Submits(c) PROVE cmd' \in [Command -> Cmd]
    BY <2>2, <2>6 DEF Submits, Phases
  <2>7. ASSUME NEW n \in Command, Binds(n) \/ Records(n) \/ ChildKilled(n)
        PROVE  cmd' \in [Command -> Cmd]
    BY <1>0, <2>7 DEF Binds, Records, ChildKilled
  <2>8. CASE Tick \/ UNCHANGED startVars
    BY <1>0, <2>8 DEF Tick, startVars
  <2>9. QED
    BY <2>3, <2>4, <2>5, <2>6, <2>7, <2>8 DEF StartNext, Ensures
<1>2. node' \in [Command -> Node]
  <2>1. ASSUME NEW n \in Command, NEW p \in {"none", "starting", "bound", "recorded", "gone"}
        PROVE  [node EXCEPT ![n] = [phase |-> p, since |-> now]] \in [Command -> Node]
    BY <1>0 DEF Node
  <2>2. ASSUME NEW n \in Command, Binds(n) \/ Records(n) \/ ChildKilled(n) \/ StartsNode(n)
        PROVE  node' \in [Command -> Node]
    BY <1>0, <2>1, <2>2 DEF Binds, Records, ChildKilled, StartsNode, Becomes
  <2>3. ASSUME NEW c \in Command, AsksForNode(c) \/ Polls(c) \/ Submits(c)
        PROVE  node' = node
    BY <2>3 DEF AsksForNode, Polls, Submits
  <2>4. CASE Tick \/ UNCHANGED startVars
    BY <1>0, <2>4 DEF Tick, startVars
  <2>5. QED
    BY <1>0, <2>2, <2>3, <2>4 DEF StartNext, Ensures
<1>3. given' \in [Command -> Command \cup {NoNode}] /\ polled' \subseteq Command
  BY <1>0 DEF StartNext, Ensures, AsksForNode, StartsNode, Polls, Submits, Binds, Records,
     ChildKilled, Attach, Tick, startVars
<1>4. /\ port' \in Command \cup {NoNode, Stranger} /\ recordOf' \in Command \cup {NoNode}
      /\ unwritable' \in BOOLEAN
  BY <1>0 DEF StartNext, Ensures, AsksForNode, StartsNode, Polls, Submits, Binds, Records,
     ChildKilled, Tick, startVars
<1>5. now' \in 0 .. MaxNow /\ befell' \in 0 .. MaxStartEvents
  <2>1. now' = now \/ (now < MaxNow /\ now' = now + 1)
    BY DEF StartNext, Ensures, AsksForNode, StartsNode, Polls, Submits, Binds, Records,
       ChildKilled, Tick, startVars
  <2>2. befell' = befell \/ (befell < MaxStartEvents /\ befell' = befell + 1)
    BY DEF StartNext, Ensures, AsksForNode, StartsNode, Polls, Submits, Binds, Records,
       ChildKilled, Strikes, Tick, startVars
  <2>3. QED
    BY <1>0, <2>1, <2>2
<1>6. QED
  BY <1>1, <1>2, <1>3, <1>4, <1>5 DEF StartTypeOK, Cmd, Node, Phases

\* One child's phase changes at a time, and with it who has the port.
LEMMA PortStays ==
  ASSUME StartTypeOK, PortInv, \A c \in Command : ChildInv(c), [StartNext]_startVars
  PROVE  PortInv'
<1> USE NodeStartAssumption
<1>0. /\ node \in [Command -> Node] /\ now \in 0 .. MaxNow /\ befell \in Nat
      /\ port \in Command \cup {NoNode, Stranger} /\ recordOf \in Command \cup {NoNode}
      /\ unwritable \in BOOLEAN
  BY DEF StartTypeOK, Node
<1>1. ASSUME NEW n \in Command, Binds(n) PROVE PortInv'
  <2>1. CASE port = NoNode
    BY <1>0, <1>1, <2>1 DEF Binds, Becomes, PortInv, Node
  <2>2. CASE port # NoNode
    BY <1>0, <1>1, <2>2 DEF Binds, Becomes, PortInv, Node
  <2>3. QED
    BY <2>1, <2>2
<1>2. ASSUME NEW n \in Command, Records(n) PROVE PortInv'
  BY <1>0, <1>2 DEF Records, Becomes, PortInv, Node
<1>3. ASSUME NEW n \in Command, ChildKilled(n) PROVE PortInv'
  BY <1>0, <1>3 DEF ChildKilled, Becomes, PortInv, Node, Strikes, ChildAlive
<1>4. ASSUME NEW c \in Command, StartsNode(c) PROVE PortInv'
  <2>1. node[c].phase = "none"
    BY <1>4 DEF StartsNode, ChildInv
  <2>2. QED
    BY <1>0, <1>4, <2>1 DEF StartsNode, Becomes, PortInv, Node, Strikes
<1>5. ASSUME NEW c \in Command, AsksForNode(c) \/ Polls(c) \/ Submits(c) PROVE PortInv'
  BY <1>0, <1>5 DEF AsksForNode, Polls, Submits, PortInv, Strikes
<1>6. CASE Tick \/ UNCHANGED startVars
  BY <1>6 DEF Tick, startVars, PortInv
<1>7. QED
  BY <1>1, <1>2, <1>3, <1>4, <1>5, <1>6 DEF StartNext, Ensures

\* A step of one command, or of its child, keeps what holds of the two.
LEMMA ChildStays ==
  ASSUME StartTypeOK, PortInv, NEW c \in Command, ChildInv(c), [StartNext]_startVars
  PROVE  ChildInv(c)'
<1> USE NodeStartAssumption
<1>0. /\ node \in [Command -> Node] /\ now \in Nat /\ cmd \in [Command -> Cmd]
      /\ cmd[c].deadline \in Nat /\ recordOf \in Command \cup {NoNode}
  BY DEF StartTypeOK, Node, Cmd, Phases
<1> DEFINE Same(d) == cmd'[d] = cmd[d] /\ node'[d] = node[d]
<1>a. ASSUME Same(c), now' = now, (c \in polled' <=> c \in polled), unwritable' = unwritable
      PROVE  ChildInv(c)'
  BY <1>a DEF ChildInv, ChildAlive
<1>b. ASSUME NEW d \in Command, d # c, AsksForNode(d) \/ Ensures(d) PROVE ChildInv(c)'
  <2>1. Same(c)
    BY <1>0, <1>b DEF AsksForNode, Ensures, StartsNode, Polls, Submits, Attach, Goes, Becomes
  <2>2. now' = now /\ (c \in polled' <=> c \in polled) /\ unwritable' = unwritable
    BY <1>b DEF AsksForNode, Ensures, StartsNode, Polls, Submits
  <2>3. QED
    BY <1>a, <2>1, <2>2
<1>1. CASE AsksForNode(c)
  BY <1>0, <1>1 DEF AsksForNode, Attach, Goes, ChildInv, ChildAlive, Answering, PortInv, Cmd
<1>2. CASE StartsNode(c)
  <2>1. node[c].phase = "none" /\ c \notin polled
    BY <1>2 DEF StartsNode, ChildInv
  <2>2. CASE Becomes(c, "starting")
          /\ cmd' = [cmd EXCEPT ![c] = [phase |-> "polling", deadline |-> now + Deadline,
                                        stoppedAt |-> NotYet]]
    <3>1. node'[c].phase = "starting" /\ cmd'[c].phase = "polling" /\ cmd'[c].deadline = now + Deadline
      BY <1>0, <2>2 DEF Becomes
    <3>2. QED
      BY <1>0, <1>2, <2>1, <3>1 DEF StartsNode, ChildInv, ChildAlive
  <2>3. CASE Goes(c, "none") /\ node' = node
    BY <1>0, <1>2, <2>1, <2>3 DEF StartsNode, Goes, ChildInv, ChildAlive, Cmd
  <2>4. QED
    BY <1>2, <2>2, <2>3 DEF StartsNode
<1>3. CASE Polls(c)
  <2>1. c \in polled' /\ node' = node /\ now' = now /\ unwritable' = unwritable
        /\ cmd[c].phase = "polling" /\ node[c].phase # "none"
    BY <1>3 DEF Polls, ChildInv
  <2>2. CASE Answering
    <3>1. cmd'[c].phase = "attached" /\ ~ unwritable
      BY <1>0, <1>3, <2>2 DEF Polls, Attach, Goes, Answering, PortInv, Cmd
    <3>2. QED
      BY <2>1, <3>1 DEF ChildInv, ChildAlive
  <2>3. CASE ~ Answering
    <3> DEFINE p == IF GivesUp(c) THEN Verdict(c) ELSE "polling"
    <3>1. cmd'[c].phase = p /\ cmd'[c].deadline = cmd[c].deadline
      BY <1>0, <1>3, <2>3 DEF Polls, Cmd
    <3>2. CASE GivesUp(c)
      BY <2>1, <3>1, <3>2 DEF ChildInv, ChildAlive, Verdict
    <3>3. CASE ~ GivesUp(c)
      BY <1>0, <2>1, <3>1, <3>3 DEF ChildInv, ChildAlive, GivesUp
    <3>4. QED
      BY <3>2, <3>3
  <2>4. QED
    BY <2>2, <2>3
<1>4. CASE Submits(c)
  BY <1>0, <1>4 DEF Submits, Goes, ChildInv, ChildAlive, Cmd
<1>5. ASSUME NEW n \in Command, Binds(n) \/ Records(n) \/ ChildKilled(n) PROVE ChildInv(c)'
  <2>1. cmd' = cmd /\ polled' = polled /\ now' = now /\ unwritable' = unwritable
    BY <1>5 DEF Binds, Records, ChildKilled
  <2>2. CASE n = c
    <3>1. ChildAlive(c) /\ node'[c].phase \in {"bound", "recorded", "gone"}
      BY <1>0, <1>5, <2>2 DEF Binds, Records, ChildKilled, Becomes, ChildAlive
    <3>2. QED
      BY <2>1, <3>1 DEF ChildInv, ChildAlive
  <2>3. CASE n # c
    <3>1. Same(c)
      BY <1>0, <1>5, <2>1, <2>3 DEF Binds, Records, ChildKilled, Becomes
    <3>2. QED
      BY <1>a, <2>1, <3>1
  <2>4. QED
    BY <2>2, <2>3
<1>6. CASE Tick
  <2>1. /\ cmd' = cmd /\ node' = node /\ unwritable' = unwritable
        /\ now' = now + 1 /\ polled' = {}
        /\ cmd[c].phase = "polling" => c \in polled
    BY <1>6 DEF Tick
  <2>2. QED
    BY <1>0, <2>1 DEF ChildInv, ChildAlive
<1>7. CASE UNCHANGED startVars
  BY <1>7 DEF startVars, ChildInv, ChildAlive
<1>8. QED
  BY <1>b, <1>1, <1>2, <1>3, <1>4, <1>5, <1>6, <1>7 DEF StartNext, Ensures

\* A command that says there is no node, none killed and the state directory
\* writable, was beaten to the port by another program: a node that had it would
\* have answered by then.
LEMMA NoneMeansStranger ==
  ASSUME StartTypeOK, PortInv, \A d \in Command : TimeInv(d), InTime,
         NEW c \in Command, ChildInv(c), Polls(c), ~ Answering, GivesUp(c), ~ ChildAlive(c),
         befell = 0, ~ unwritable
  PROVE  port = Stranger
<1> USE NodeStartAssumption
<1>0. /\ node \in [Command -> Node] /\ now \in 0 .. MaxNow /\ cmd \in [Command -> Cmd]
      /\ port \in Command \cup {NoNode, Stranger} /\ cmd[c].stoppedAt \in 0 .. NotYet
      /\ cmd[c].deadline \in Nat
  BY DEF StartTypeOK, Node, Cmd, Phases
<1>1. cmd[c].phase = "polling" /\ node[c].phase = "gone" /\ port # NoNode /\ node[c].since \in Nat
  BY <1>0 DEF Polls, ChildInv, ChildAlive, Node, PortInv
<1> SUFFICES ASSUME port \in Command PROVE FALSE
  BY <1>0, <1>1
<1> DEFINE d == port
<1>2. d \in Command /\ node[d].phase \in {"bound", "recorded"} /\ node[d].since \in Nat
  BY <1>0 DEF PortInv, Node
<1>3. node[d].phase = "bound"
  BY <1>0, <1>2 DEF PortInv, Answering
<1>4. node[d].since <= node[c].since /\ now <= node[d].since + Startup
  BY <1>1, <1>2, <1>3 DEF TimeInv
<1>5. node[c].since + Deadline <= cmd[c].deadline + Startup /\ node[c].since <= now
  BY <1>1 DEF TimeInv
<1>6. ~ (now >= cmd[c].deadline)
  BY <1>0, <1>1, <1>2, <1>4, <1>5 DEF InTime
<1>7. GraceOver(c)
  BY <1>6 DEF GivesUp
<1>8. CASE cmd[c].stoppedAt = NotYet
  <2>1. now >= now + Grace
    BY <1>7, <1>8 DEF GraceOver, StoppedAt
  <2>2. QED
    BY <1>0, <2>1 DEF InTime
<1>9. CASE cmd[c].stoppedAt # NotYet
  <2>1. now >= cmd[c].stoppedAt + Grace /\ node[c].since <= cmd[c].stoppedAt
    BY <1>1, <1>7, <1>9 DEF GraceOver, StoppedAt, TimeInv
  <2>2. cmd[c].stoppedAt \in Nat
    BY <1>0 DEF NotYet
  <2>3. QED
    BY <1>0, <1>1, <1>2, <1>4, <2>1, <2>2 DEF InTime
<1>10. QED
  BY <1>8, <1>9

LEMMA TimeStays ==
  ASSUME StartTypeOK, PortInv, \A d \in Command : ChildInv(d), \A d \in Command : TimeInv(d),
         InTime, [StartNext]_startVars, NEW c \in Command
  PROVE  TimeInv(c)'
<1> USE NodeStartAssumption
<1>0. /\ node \in [Command -> Node] /\ now \in Nat /\ cmd \in [Command -> Cmd] /\ befell \in Nat
      /\ \A d \in Command : node[d].since \in Nat /\ cmd[d].deadline \in Nat
      /\ port \in Command \cup {NoNode, Stranger} /\ now \in 0 .. MaxNow
  BY DEF StartTypeOK, Node, Cmd, Phases
<1>1. ChildInv(c) /\ TimeInv(c)
  OBVIOUS
<1>2. befell' = 0 => befell = 0
  <2>1. befell' = befell \/ befell' = befell + 1
    BY DEF StartNext, Ensures, AsksForNode, StartsNode, Polls, Submits, Binds, Records,
       ChildKilled, Strikes, Tick, startVars
  <2>2. QED
    BY <1>0, <2>1
<1>3. ASSUME NEW n \in Command, Binds(n) PROVE TimeInv(c)'
  <2>1. node[n].phase = "starting" /\ cmd' = cmd /\ now' = now /\ befell' = befell
        /\ unwritable' = unwritable /\ now <= node[n].since + Startup
    BY <1>3 DEF Binds, TimeInv
  <2>2. CASE port = NoNode
    <3>1. node' = [node EXCEPT ![n] = [phase |-> "bound", since |-> now]] /\ port' = n
      BY <1>3, <2>2 DEF Binds, Becomes
    <3>2. befell = 0 => node[c].phase # "gone"
      BY <2>2 DEF PortInv
    <3>3. cmd[c].phase = "none" /\ befell = 0 => unwritable
      BY <1>1, <2>2 DEF TimeInv
    <3>4. CASE n = c
      <4>1. node'[c].phase = "bound" /\ node'[c].since = now
        BY <1>0, <3>1, <3>4
      <4>2. QED
        BY <1>0, <1>1, <2>1, <3>3, <3>4, <4>1 DEF TimeInv
    <3>5. CASE n # c
      <4>1. node'[c] = node[c]
        BY <1>0, <3>1, <3>5
      <4>2. QED
        BY <1>0, <1>1, <2>1, <3>2, <3>3, <4>1 DEF TimeInv
    <3>6. QED
      BY <3>4, <3>5
  <2>3. CASE port # NoNode
    <3>1. node' = [node EXCEPT ![n] = [phase |-> "gone", since |-> now]] /\ port' = port
      BY <1>3, <2>3 DEF Binds, Becomes
    <3>2. \A d \in Command : node'[d].phase = "bound" =>
             node[d].phase = "bound" /\ node'[d].since = node[d].since /\ node[d].since <= now
      BY <1>0, <3>1 DEF TimeInv
    <3>3. CASE n = c
      <4>1. node'[c].phase = "gone" /\ node'[c].since = now
        BY <1>0, <3>1, <3>3
      <4>2. cmd[c].phase = "polling" => node[c].since + Deadline = cmd[c].deadline
        BY <1>1, <2>1, <3>3 DEF TimeInv
      <4>3. cmd[c].phase = "polling" => cmd[c].stoppedAt = NotYet
        BY <1>1, <2>1, <3>3 DEF TimeInv
      <4>4. cmd[c].phase = "polling" => now + Deadline <= cmd[c].deadline + Startup
        BY <1>0, <2>1, <3>3, <4>2
      <4>5. QED
        BY <1>0, <1>1, <2>1, <3>1, <3>2, <4>1, <4>3, <4>4 DEF TimeInv, NotYet
    <3>4. CASE n # c
      <4>1. node'[c] = node[c]
        BY <1>0, <3>1, <3>4
      <4>2. QED
        BY <1>0, <1>1, <2>1, <3>1, <3>2, <4>1 DEF TimeInv, NotYet
    <3>5. QED
      BY <3>3, <3>4
  <2>4. QED
    BY <2>2, <2>3
<1>4. ASSUME NEW n \in Command, Records(n) PROVE TimeInv(c)'
  <2>1. /\ node' = [node EXCEPT ![n] = [phase |-> "recorded", since |-> now]]
        /\ node[n].phase = "bound" /\ UNCHANGED <<cmd, now, befell, unwritable, port>>
    BY <1>4 DEF Records, Becomes
  <2>2. /\ n # c => node'[c] = node[c]
        /\ n = c => node'[c].phase = "recorded" /\ node'[c].since = now
        /\ \A d \in Command : node'[d].phase = "bound" => node'[d] = node[d]
    BY <1>0, <2>1
  <2>3. QED
    BY <1>0, <1>1, <2>1, <2>2 DEF TimeInv, NotYet
<1>5. ASSUME NEW n \in Command, ChildKilled(n) PROVE TimeInv(c)'
  <2>1. /\ node' = [node EXCEPT ![n] = [phase |-> "gone", since |-> now]]
        /\ ChildAlive(n) /\ cmd' = cmd /\ now' = now /\ befell' # 0
    BY <1>0, <1>5 DEF ChildKilled, Becomes, Strikes
  <2>2. /\ n # c => node'[c] = node[c]
        /\ n = c => node'[c].phase = "gone" /\ node'[c].since = now
    BY <1>0, <2>1
  <2>3. QED
    BY <1>0, <1>1, <2>1, <2>2 DEF TimeInv, ChildAlive, NotYet
<1>6. ASSUME NEW d \in Command, StartsNode(d) PROVE TimeInv(c)'
  <2>1. node[d].phase = "none" /\ cmd[d].stoppedAt = NotYet /\ cmd[d].phase = "starting"
        /\ now' = now /\ port' = port /\ unwritable' = unwritable
    BY <1>6 DEF StartsNode, ChildInv, TimeInv
  <2>2. CASE Goes(d, "none") /\ node' = node /\ befell' # 0
    <3>1. /\ d # c => cmd'[c] = cmd[c]
          /\ d = c => cmd'[c].phase = "none"
      BY <1>0, <2>2 DEF Goes, Cmd
    <3>2. QED
      BY <1>1, <2>1, <2>2, <3>1 DEF TimeInv, NotYet
  <2>3. CASE /\ Becomes(d, "starting") /\ befell' = befell
             /\ cmd' = [cmd EXCEPT ![d] = [phase |-> "polling", deadline |-> now + Deadline,
                                           stoppedAt |-> NotYet]]
    <3>1. /\ d # c => cmd'[c] = cmd[c] /\ node'[c] = node[c]
          /\ d = c => /\ cmd'[c].phase = "polling" /\ cmd'[c].deadline = now + Deadline
                      /\ cmd'[c].stoppedAt = NotYet
                      /\ node'[c].phase = "starting" /\ node'[c].since = now
          /\ \A e \in Command : node'[e].phase = "bound" => node'[e] = node[e]
      BY <1>0, <2>3 DEF Becomes
    <3>2. QED
      BY <1>0, <1>1, <2>1, <2>3, <3>1 DEF TimeInv, NotYet
  <2>4. QED
    BY <1>0, <1>6, <2>2, <2>3 DEF StartsNode, Strikes
<1>7. ASSUME NEW d \in Command, Polls(d) PROVE TimeInv(c)'
  <2>1. UNCHANGED <<node, now, befell, port, unwritable>> /\ cmd[d].phase = "polling"
    BY <1>7 DEF Polls
  <2>2. CASE Answering
    <3>1. /\ d # c => cmd'[c] = cmd[c]
          /\ d = c => cmd'[c].phase = "attached"
      BY <1>0, <1>7, <2>2 DEF Polls, Attach, Goes, Cmd
    <3>2. QED
      BY <1>1, <2>1, <3>1 DEF TimeInv, NotYet
  <2>3. CASE ~ Answering
    <3>1. CASE d # c
      <4>1. cmd'[c] = cmd[c]
        BY <1>0, <1>7, <2>3, <3>1 DEF Polls
      <4>2. QED
        BY <1>1, <2>1, <4>1 DEF TimeInv, NotYet
    <3>2. CASE d = c
      <4> DEFINE p == IF GivesUp(c) THEN Verdict(c) ELSE "polling"
      <4>1. cmd'[c].phase = p /\ cmd'[c].deadline = cmd[c].deadline /\ cmd'[c].stoppedAt = StoppedAt(c)
        BY <1>0, <1>7, <2>3, <3>2 DEF Polls, Cmd
      <4>2. p \in {"polling", "none", "unfindable"} /\ (p = "none" => GivesUp(c) /\ ~ ChildAlive(c))
        BY DEF Verdict
      <4>3. StoppedAt(c) # NotYet => node[c].phase = "gone" /\ node[c].since <= StoppedAt(c)
        BY <1>0, <1>1, <2>1, <3>2 DEF StoppedAt, ChildAlive, TimeInv, ChildInv, Node
      <4>4. p = "none" /\ befell = 0 /\ ~ unwritable => port = Stranger
        BY <1>7, <2>3, <3>2, <4>2, NoneMeansStranger
      <4> HIDE DEF p
      <4>5. QED
        BY <1>1, <2>1, <3>2, <4>1, <4>2, <4>3, <4>4 DEF TimeInv, NotYet
    <3>3. QED
      BY <3>1, <3>2
  <2>4. QED
    BY <2>2, <2>3
<1>8. ASSUME NEW d \in Command, AsksForNode(d) \/ Submits(d) PROVE TimeInv(c)'
  <2>1. UNCHANGED <<node, now, port, unwritable>> /\ cmd[d].phase \in {"idle", "attached"}
    BY <1>8 DEF AsksForNode, Submits
  <2>2. /\ d # c => cmd'[c] = cmd[c]
        /\ d = c => /\ cmd'[c].phase \in {"starting", "attached", "running", "gone"}
                    /\ cmd'[c].phase = "starting" => cmd[c].phase = "idle"
                    /\ cmd'[c].stoppedAt = cmd[c].stoppedAt
    BY <1>0, <1>8 DEF AsksForNode, Submits, Attach, Goes, Cmd
  <2>3. QED
    BY <1>1, <1>2, <2>1, <2>2 DEF TimeInv, NotYet
<1>9. CASE Tick
  <2>1. UNCHANGED <<node, cmd, port, unwritable, befell>> /\ now' = now + 1
    BY <1>9 DEF Tick
  <2>2. node[c].phase \in {"starting", "bound"} => now < node[c].since + Startup
    BY <1>9 DEF Tick, InTime
  <2>3. QED
    BY <1>0, <1>1, <2>1, <2>2 DEF TimeInv, NotYet
<1>10. CASE UNCHANGED startVars
  BY <1>1, <1>10 DEF startVars, TimeInv, NotYet
<1>11. QED
  BY <1>3, <1>4, <1>5, <1>6, <1>7, <1>8, <1>9, <1>10 DEF StartNext, Ensures

LEMMA StartStays == ASSUME StartInv, [StartNext]_startVars PROVE StartInv'
BY StartTypesStay, PortStays, ChildStays, TimeStays DEF StartInv, InTime

LEMMA StartInvGives ==
  StartInv => StartTypeOK /\ NoNodeIsLost /\ EnsuringEndsInTime
              /\ (2 * Startup < Deadline => TheWinnerIsFound)
<1> SUFFICES ASSUME StartInv PROVE NoNodeIsLost /\ EnsuringEndsInTime
                                   /\ (2 * Startup < Deadline => TheWinnerIsFound)
  BY DEF StartInv
<1>1. NoNodeIsLost
  BY DEF StartInv, NoNodeIsLost, PortInv, ChildInv, ChildAlive
<1>2. EnsuringEndsInTime
  BY DEF StartInv, EnsuringEndsInTime, ChildInv
<1>3. ASSUME 2 * Startup < Deadline PROVE TheWinnerIsFound
  BY <1>3, NodeStartAssumption DEF StartInv, TheWinnerIsFound, TimeInv, InTime
<1>4. QED
  BY <1>1, <1>2, <1>3

-----------------------------------------------------------------------------
(* Consoles that publish themselves (ServeMapping). *)

\* A rule is served by its console's child; a living child has a console that
\* will stop it, or that died where none of its code ran.
ServedBy(c) ==
    /\ rule = c => serveChild[c] = "publishing"
    /\ Living(c) => \/ console[c] \in {"waiting", "ready", "serving", "restored", "signalled"}
                    \/ console[c] = "ended" /\ c \in unguarded
    /\ console[c] \in {"ready", "serving", "restored", "signalled"} /\ Living(c)
          => mapping[c] = "started"
MappingInv == MappingTypeOK /\ \A c \in Console : ServedBy(c)

LEMMA MappingInitInv == MappingInit => MappingInv
BY ServeMappingAssumption DEF MappingInit, MappingInv, MappingTypeOK, ServedBy, Living

LEMMA MappingTypesStay == ASSUME MappingTypeOK, [MappingNext]_mappingVars PROVE MappingTypeOK'
<1> USE ServeMappingAssumption
<1> USE DEF MappingTypeOK, To, ChildEnds, RuleWithout, Occurs
<1>1. ASSUME NEW c \in Console, Registers(c) \/ ChildFails(c) PROVE MappingTypeOK'
  BY <1>1 DEF Registers, ChildFails
<1>2. ASSUME NEW c \in Console, StartsUp(c) \/ Snapshots(c) PROVE MappingTypeOK'
  BY <1>2 DEF StartsUp, Snapshots
<1>3. ASSUME NEW c \in Console, Spawns(c) \/ Waited(c) PROVE MappingTypeOK'
  BY <1>3 DEF Spawns, Waited
<1>4. ASSUME NEW c \in Console, Guards(c) \/ Stops(c) \/ Unwinds(c) PROVE MappingTypeOK'
  BY <1>4 DEF Guards, Stops, Unwinds
<1>5. ASSUME NEW c \in Console, Interrupted(c) \/ Signal(c) \/ Killed(c) PROVE MappingTypeOK'
  BY <1>5 DEF Interrupted, Signal, Killed
<1>6. ASSUME NEW c \in Console, SignalledAgain(c) \/ Raises(c) PROVE MappingTypeOK'
  BY <1>6 DEF SignalledAgain, Raises, Leaves
<1>7. CASE OperatorServes \/ UNCHANGED mappingVars
  BY <1>7 DEF OperatorServes, mappingVars
<1>8. QED
  BY <1>1, <1>2, <1>3, <1>4, <1>5, <1>6, <1>7 DEF MappingNext, SetsUpOrStops

LEMMA ServedByStays ==
  ASSUME MappingInv, [MappingNext]_mappingVars, NEW c \in Console PROVE ServedBy(c)'
<1> USE ServeMappingAssumption
<1>0. MappingTypeOK /\ ServedBy(c)
  BY DEF MappingInv
<1> USE DEF MappingTypeOK, To, ChildEnds, RuleWithout, ServedBy, Living
<1>1. ASSUME NEW d \in Console, Registers(d) \/ ChildFails(d) PROVE ServedBy(c)'
  BY <1>0, <1>1 DEF Registers, ChildFails
<1>2. ASSUME NEW d \in Console, StartsUp(d) \/ Snapshots(d) PROVE ServedBy(c)'
  BY <1>0, <1>2 DEF StartsUp, Snapshots
<1>3. ASSUME NEW d \in Console, Spawns(d) \/ Waited(d) PROVE ServedBy(c)'
  BY <1>0, <1>3 DEF Spawns, Waited, TakesItForServing
<1>4. ASSUME NEW d \in Console, Guards(d) \/ Unwinds(d) PROVE ServedBy(c)'
  BY <1>0, <1>4 DEF Guards, Unwinds
<1>5. ASSUME NEW d \in Console, Stops(d) PROVE ServedBy(c)'
  BY <1>0, <1>5 DEF Stops, Outlasts
<1>6. ASSUME NEW d \in Console, Interrupted(d) PROVE ServedBy(c)'
  BY <1>0, <1>6 DEF Interrupted
<1>7. ASSUME NEW d \in Console, Signal(d) PROVE ServedBy(c)'
  BY <1>0, <1>7 DEF Signal, Guarded
<1>8. ASSUME NEW d \in Console, Killed(d) PROVE ServedBy(c)'
  BY <1>0, <1>8 DEF Killed
<1>9. ASSUME NEW d \in Console, SignalledAgain(d) PROVE ServedBy(c)'
  BY <1>0, <1>9 DEF SignalledAgain, Leaves
<1>10. ASSUME NEW d \in Console, Raises(d) PROVE ServedBy(c)'
  BY <1>0, <1>10 DEF Raises, Leaves
<1>11. CASE OperatorServes \/ UNCHANGED mappingVars
  BY <1>0, <1>11 DEF OperatorServes, mappingVars
<1>12. QED
  BY <1>1, <1>2, <1>3, <1>4, <1>5, <1>6, <1>7, <1>8, <1>9, <1>10, <1>11
  DEF MappingNext, SetsUpOrStops

LEMMA MappingStays == ASSUME MappingInv, [MappingNext]_mappingVars PROVE MappingInv'
BY MappingTypesStay, ServedByStays DEF MappingInv

LEMMA MappingInvGives == MappingInv => MappingTypeOK /\ NoMappingWithoutItsConsole
BY DEF MappingInv, NoMappingWithoutItsConsole, ServedBy, Living

-----------------------------------------------------------------------------
(* The pipe the tests share (JobServer). *)

KeeperPhases == {"none", "spawned", "seeding", "sized", "counted", "seeded", "probing", "readable",
                 "holding", "dead"}
TesterRec == [phase : {"idle", "waiting", "testing", "between"}, at : {Nil} \cup Inode]
KeeperRec == [phase : KeeperPhases, at : {Nil} \cup Inode, empty : 0..EmptyProbes, missing : 0..Tokens]

\* Whoever is past its open has a pipe; an `init` under way has made no pipe yet
\* for its own count.
PipesOK ==
    /\ made <= inits /\ (init = "replacing" => made < inits)
    /\ init \in {"attaching", "making"} => spawned > 0
    /\ \A w \in Tester : tester[w].at = Nil <=> tester[w].phase = "idle"
    /\ \A k \in PoolKeeper :
         /\ poolKeeper[k].at = Nil <=> poolKeeper[k].phase \in {"none", "spawned", "dead"}
         /\ k > spawned => poolKeeper[k].phase = "none"

LEMMA Finite == /\ IsFiniteSet(Tester) /\ IsFiniteSet(PoolKeeper)
                /\ \A i : IsFiniteSet(WorkersAt(i)) /\ IsFiniteSet(KeepersAt(i))
                /\ \A i : WorkersAt(i) \subseteq Tester /\ KeepersAt(i) \subseteq PoolKeeper
<1>1. IsFiniteSet(Tester) /\ IsFiniteSet(PoolKeeper)
  BY JobServerAssumption, FS_Interval DEF PoolKeeper
<1>2. ASSUME NEW i PROVE IsFiniteSet(WorkersAt(i)) /\ IsFiniteSet(KeepersAt(i))
  <2>1. WorkersAt(i) \in SUBSET Tester /\ KeepersAt(i) \in SUBSET PoolKeeper
    BY DEF WorkersAt, KeepersAt
  <2>2. QED
    BY <1>1, <2>1, FS_Subset
<1>3. ASSUME NEW i PROVE WorkersAt(i) \subseteq Tester /\ KeepersAt(i) \subseteq PoolKeeper
  BY DEF WorkersAt, KeepersAt
<1>4. QED
  BY <1>1, <1>2, <1>3

\* The numbers of holders, of tokens in use and of readers that slip.
LEMMA Numbers ==
  /\ \A i : Cardinality(WorkersAt(i)) \in Nat /\ Cardinality(KeepersAt(i)) \in Nat
  /\ \A k : Holders(k) \in Nat
  /\ \A w : Slips(w) \in Nat
  /\ \A k : Missing(k) \in 0 .. Tokens
<1> USE JobServerAssumption
<1>1. \A i : Cardinality(WorkersAt(i)) \in Nat /\ Cardinality(KeepersAt(i)) \in Nat
  BY Finite, FS_CardinalityType
<1>2. ASSUME NEW k PROVE Holders(k) \in Nat
  <2>1. IsFiniteSet(KeepersAt(path) \ {k})
    BY Finite, FS_RemoveElement
  <2>2. QED
    BY <1>1, <2>1, FS_CardinalityType DEF Holders
<1>3. ASSUME NEW w PROVE Slips(w) \in Nat
  <2> DEFINE S == {k \in KeepersAt(tester[w].at) : poolKeeper[k].phase = "sized"}
  <2>1. S \in SUBSET KeepersAt(tester[w].at)
    OBVIOUS
  <2>2. Cardinality(S) \in Nat
    BY <2>1, Finite, FS_Subset, FS_CardinalityType
  <2>3. QED
    BY <2>2 DEF Slips
<1>4. ASSUME NEW k PROVE Missing(k) \in 0 .. Tokens
  BY <1>2 DEF Missing
<1>5. QED
  BY <1>1, <1>2, <1>3, <1>4

LEMMA JobTypesInit == JobInit => JobTypeOK /\ PipesOK
BY JobServerAssumption DEF JobInit, JobTypeOK, PipesOK, Nil, Inode, PoolKeeper

\* A worker or a keeper that closes a pipe leaves it as it was, or empty.
LEMMA LeftIsLess ==
  ASSUME pool \in [Inode -> Nat], NEW i, NEW ws, NEW ks
  PROVE  /\ Left(i, ws, ks) \in [Inode -> Nat]
         /\ \A j \in Inode : Left(i, ws, ks)[j] <= pool[j]
<1>1. CASE ws = {} /\ ks = {}
  <2>1. Left(i, ws, ks) = [pool EXCEPT ![i] = 0]
    BY <1>1 DEF Left
  <2>2. \A j \in Inode : pool[j] \in Nat /\ Left(i, ws, ks)[j] = IF j = i THEN 0 ELSE pool[j]
    BY <2>1
  <2>3. Left(i, ws, ks) \in [Inode -> Nat]
    <3>1. [pool EXCEPT ![i] = 0] = [j \in Inode |-> IF j = i THEN 0 ELSE pool[j]]
      OBVIOUS
    <3>2. \A j \in Inode : (IF j = i THEN 0 ELSE pool[j]) \in Nat
      OBVIOUS
    <3>3. QED
      BY <2>1, <3>1, <3>2
  <2>4. \A j \in Inode : Left(i, ws, ks)[j] <= pool[j]
    BY <2>2
  <2>5. QED
    BY <2>3, <2>4
<1>2. CASE ~ (ws = {} /\ ks = {})
  <2>1. Left(i, ws, ks) = pool
    BY <1>2 DEF Left
  <2>2. \A j \in Inode : pool[j] \in Nat
    OBVIOUS
  <2>3. QED
    BY <2>1, <2>2
<1>3. QED
  BY <1>1, <1>2

\* One pipe gains or loses bytes.
LEMMA PoolAt ==
  ASSUME pool \in [Inode -> Nat], NEW i \in Inode, NEW n \in Nat
  PROVE  /\ [pool EXCEPT ![i] = n] \in [Inode -> Nat]
         /\ \A j \in Inode : [pool EXCEPT ![i] = n][j] = IF j = i THEN n ELSE pool[j]
OBVIOUS

LEMMA JobTypesStay ==
  ASSUME JobTypeOK, PipesOK, [JobNext]_jobVars PROVE JobTypeOK' /\ PipesOK'
<1> USE JobServerAssumption DEF PoolKeeper, Inode, Nil
<1>0. /\ path \in {Nil} \cup Inode /\ made \in 0..MaxInits /\ pool \in [Inode -> Nat]
      /\ tester \in [Tester -> TesterRec] /\ poolKeeper \in [PoolKeeper -> KeeperRec]
      /\ pidFile \in {Nil} \cup PoolKeeper /\ init \in {"idle", "replacing", "attaching", "making"}
      /\ inits \in 0..MaxInits /\ spawned \in 0..MaxKeepers /\ kills \in 0..MaxKills
      /\ early \subseteq Tester /\ slowKeepers \subseteq PoolKeeper /\ surplus \in 0..MaxSurplus
  BY DEF JobTypeOK, TesterRec, KeeperRec, KeeperPhases
<1>z. 0 \in 0 .. EmptyProbes /\ 0 \in 0 .. Tokens
  OBVIOUS
<1> DEFINE TesterSide == UNCHANGED <<path, made, pidFile, init, inits, spawned, slowKeepers, poolKeeper>>
           KeeperSide == UNCHANGED <<path, made, tester, init, inits, spawned, marks>>
           Good == JobTypeOK' /\ PipesOK'
<1>1. ASSUME NEW w \in Tester, NEW g \in TesterRec, tester' = [tester EXCEPT ![w] = g],
             g.at = Nil <=> g.phase = "idle", TesterSide, pool' \in [Inode -> Nat],
             early' \subseteq Tester, surplus' \in 0 .. MaxSurplus, kills' \in 0 .. MaxKills
      PROVE  Good
  <2>1. tester' \in [Tester -> TesterRec]
    BY <1>0, <1>1
  <2>2. JobTypeOK'
    BY <1>0, <1>1, <2>1 DEF JobTypeOK, TesterRec, KeeperRec, KeeperPhases
  <2>3. \A v \in Tester : tester'[v] = IF v = w THEN g ELSE tester[v]
    BY <1>0, <1>1
  <2>4. PipesOK'
    BY <1>1, <2>3 DEF PipesOK
  <2>5. QED
    BY <2>2, <2>4
<1>2. ASSUME NEW k \in PoolKeeper, NEW g \in KeeperRec, poolKeeper' = [poolKeeper EXCEPT ![k] = g],
             g.at = Nil <=> g.phase \in {"none", "spawned", "dead"},
             k > spawned => g.phase = "none",
             KeeperSide, pool' \in [Inode -> Nat], pidFile' \in PoolKeeper \cup {Nil},
             kills' \in 0 .. MaxKills
      PROVE  Good
  <2>1. poolKeeper' \in [PoolKeeper -> KeeperRec]
    BY <1>0, <1>2
  <2>2. JobTypeOK'
    BY <1>0, <1>2, <2>1 DEF JobTypeOK, TesterRec, KeeperRec, KeeperPhases, marks
  <2>3. \A j \in PoolKeeper : poolKeeper'[j] = IF j = k THEN g ELSE poolKeeper[j]
    BY <1>0, <1>2
  <2>4. PipesOK'
    BY <1>2, <2>3 DEF PipesOK
  <2>5. QED
    BY <2>2, <2>4
<1>3. ASSUME NEW w \in Tester, Opens(w) \/ TakesToken(w) \/ GivesBack(w) PROVE Good
  <2>1. tester[w] \in TesterRec /\ (tester[w].at = Nil <=> tester[w].phase = "idle")
    BY <1>0 DEF PipesOK
  <2>2. CASE Opens(w)
    <3> DEFINE g == [phase |-> "waiting", at |-> path]
    <3>1. g \in TesterRec /\ g.phase = "waiting" /\ g.at # Nil
      BY <1>0, <2>2 DEF Opens, TesterRec
    <3>2. tester' = [tester EXCEPT ![w] = g]
      BY <2>2 DEF Opens
    <3>3. TesterSide /\ pool' = pool /\ surplus' = surplus /\ kills' = kills /\ early' \subseteq Tester
      BY <1>0, <2>2 DEF Opens, initVars
    <3> HIDE DEF g, Good, TesterSide
    <3>4. QED
      BY <1>0, <1>1, <3>1, <3>2, <3>3
  <2>3. CASE TakesToken(w)
    <3> DEFINE g == [tester[w] EXCEPT !.phase = "testing"]
    <3>1. g \in TesterRec /\ g.phase = "testing" /\ g.at # Nil
      BY <1>0, <2>1, <2>3 DEF TakesToken, TesterRec
    <3>5. /\ tester[w].at \in Inode /\ pool[tester[w].at] - 1 \in Nat
          /\ pool' = [pool EXCEPT ![tester[w].at] = pool[tester[w].at] - 1]
      BY <1>0, <2>1, <2>3 DEF TakesToken, TesterRec
    <3>2. tester' = [tester EXCEPT ![w] = g] /\ pool' \in [Inode -> Nat]
      BY <1>0, <3>5, <2>3, PoolAt DEF TakesToken
    <3>3. TesterSide /\ surplus' = surplus /\ kills' = kills /\ early' \subseteq Tester
      BY <1>0, <2>3 DEF TakesToken, initVars, marks
    <3> HIDE DEF g, Good, TesterSide
    <3>4. QED
      BY <1>0, <1>1, <3>1, <3>2, <3>3
  <2>4. CASE GivesBack(w)
    <3> DEFINE g == [tester[w] EXCEPT !.phase = "between"]
    <3>1. g \in TesterRec /\ g.phase = "between" /\ g.at # Nil
      BY <1>0, <2>1, <2>4 DEF GivesBack, TesterRec
    <3>5. /\ tester[w].at \in Inode /\ pool[tester[w].at] + 1 \in Nat
          /\ pool' = [pool EXCEPT ![tester[w].at] = pool[tester[w].at] + 1]
      BY <1>0, <2>1, <2>4 DEF GivesBack, TesterRec
    <3>2. tester' = [tester EXCEPT ![w] = g] /\ pool' \in [Inode -> Nat]
      BY <1>0, <3>5, <2>4, PoolAt DEF GivesBack
    <3>3. TesterSide /\ surplus' = surplus /\ kills' = kills /\ early' \subseteq Tester
      BY <1>0, <2>4 DEF GivesBack, initVars, marks
    <3> HIDE DEF g, Good, TesterSide
    <3>4. QED
      BY <1>0, <1>1, <3>1, <3>2, <3>3
  <2>5. QED
    BY <1>3, <2>2, <2>3, <2>4
<1>4. ASSUME NEW w \in Tester, Again(w) \/ WorkerKilled(w) PROVE Good
  <2>1. tester[w] \in TesterRec /\ (tester[w].at = Nil <=> tester[w].phase = "idle")
    BY <1>0 DEF PipesOK
  <2>0. TesterSide /\ kills' \in 0 .. MaxKills
    BY <1>0, <1>4 DEF Again, WorkerKilled, initVars
  <2>2. CASE Gone(w)
    <3> DEFINE g == [phase |-> "idle", at |-> Nil]
    <3>1. g \in TesterRec /\ g.phase = "idle" /\ g.at = Nil
      BY DEF TesterRec
    <3>2. tester' = [tester EXCEPT ![w] = g] /\ early' \subseteq Tester
      BY <1>0, <2>2 DEF Gone
    <3>3. pool' \in [Inode -> Nat]
      BY <1>0, <2>2, LeftIsLess DEF Gone
    <3>4. surplus' \in 0 .. MaxSurplus
      <4>1. Slips(w) \in Nat
        BY Numbers
      <4>2. QED
        BY <1>0, <2>2, <4>1 DEF Gone
    <3> HIDE DEF g, Good, TesterSide
    <3>5. QED
      BY <1>0, <1>1, <2>0, <3>1, <3>2, <3>3, <3>4
  <2>3. CASE /\ tester' = [tester EXCEPT ![w].phase = "waiting"] /\ UNCHANGED <<pool, early, surplus>>
             /\ tester[w].phase = "between"
    <3> DEFINE g == [tester[w] EXCEPT !.phase = "waiting"]
    <3>1. g \in TesterRec /\ g.phase = "waiting" /\ g.at # Nil
      BY <1>0, <2>1, <2>3 DEF TesterRec
    <3>2. tester' = [tester EXCEPT ![w] = g]
      BY <1>0, <2>3
    <3> HIDE DEF g, Good, TesterSide
    <3>3. QED
      BY <1>0, <1>1, <2>0, <2>3, <3>1, <3>2
  <2>4. QED
    BY <1>4, <2>2, <2>3 DEF Again, WorkerKilled
<1>5. ASSUME NEW k \in PoolKeeper, KeeperRuns(k) \/ KeeperKilled(k) PROVE Good
  <2>1. /\ poolKeeper[k] \in KeeperRec
        /\ poolKeeper[k].at = Nil <=> poolKeeper[k].phase \in {"none", "spawned", "dead"}
        /\ k > spawned => poolKeeper[k].phase = "none"
    BY <1>0 DEF PipesOK
  <2>2. /\ KeeperSide /\ kills' \in 0 .. MaxKills /\ pidFile' \in PoolKeeper \cup {Nil}
        /\ poolKeeper[k].phase \notin {"none", "dead"}
    BY <1>0, <1>5 DEF KeeperRuns, KeeperOpens, SizesPipe, CountsHolders, Writes, WritesPid, Probes,
       ProbeReads, ProbeWrites, KeeperKilled, Alive, initVars, marks
  <2> DEFINE Rec(g) == /\ g \in KeeperRec /\ poolKeeper' = [poolKeeper EXCEPT ![k] = g]
                       /\ g.at = Nil <=> g.phase \in {"none", "spawned", "dead"}
                       /\ pool' \in [Inode -> Nat]
  <2>3. ASSUME NEW g, Rec(g) PROVE Good
    <3> HIDE DEF Good, KeeperSide
    <3>1. QED
      BY <1>0, <1>2, <2>1, <2>2, <2>3
  <2>a. AfterTopUp(k) \in KeeperRec /\ AfterTopUp(k).at = poolKeeper[k].at
        /\ AfterTopUp(k).phase \in {"seeded", "probing"}
    <3> DEFINE p == IF poolKeeper[k].empty = 0 THEN "seeded" ELSE "probing"
    <3>1. p \in {"seeded", "probing"}
      OBVIOUS
    <3>2. AfterTopUp(k) = [poolKeeper[k] EXCEPT !.phase = p, !.empty = 0, !.missing = 0]
      BY DEF AfterTopUp
    <3> HIDE DEF p
    <3>3. QED
      BY <1>z, <2>1, <3>1, <3>2 DEF KeeperRec, KeeperPhases
  <2> HIDE DEF Good
  <2>4. CASE KeeperOpens(k)
    <3>1. CASE path = Nil
      <4>1. Rec([poolKeeper[k] EXCEPT !.phase = "dead"])
        BY <1>0, <2>1, <2>4, <3>1 DEF KeeperOpens, KeeperRec, KeeperPhases
      <4>2. QED
        BY <2>3, <4>1
    <3>2. CASE path # Nil
      <4>1. Rec([poolKeeper[k] EXCEPT !.phase = "seeding", !.at = path])
        BY <1>0, <2>1, <2>4, <3>2 DEF KeeperOpens, KeeperRec, KeeperPhases
      <4>2. QED
        BY <2>3, <4>1
    <3>3. QED
      BY <3>1, <3>2
  <2>5. CASE SizesPipe(k)
    <3>1. CASE pool[poolKeeper[k].at] > 0
      <4>1. Rec(AfterTopUp(k))
        BY <1>0, <2>1, <2>a, <2>5, <3>1 DEF SizesPipe
      <4>2. QED
        BY <2>3, <4>1
    <3>2. CASE ~ (pool[poolKeeper[k].at] > 0)
      <4>1. Rec([poolKeeper[k] EXCEPT !.phase = "sized"])
        BY <1>0, <2>1, <2>5, <3>2 DEF SizesPipe, KeeperRec, KeeperPhases
      <4>2. QED
        BY <2>3, <4>1
    <3>3. QED
      BY <3>1, <3>2
  <2>6. CASE CountsHolders(k)
    <3>1. Missing(k) \in 0 .. Tokens
      BY Numbers
    <3>2. Rec([poolKeeper[k] EXCEPT !.phase = "counted", !.missing = Missing(k)])
      BY <1>0, <2>1, <2>6, <3>1 DEF CountsHolders, KeeperRec, KeeperPhases
    <3>3. QED
      BY <2>3, <3>2
  <2>7. CASE Writes(k)
    <3>1. poolKeeper[k].missing \in Nat /\ poolKeeper[k].at \in Inode
      BY <2>1, <2>7 DEF Writes, KeeperRec
    <3>2. pool' \in [Inode -> Nat]
      BY <1>0, <2>7, <3>1 DEF Writes
    <3>3. Rec(AfterTopUp(k))
      BY <1>0, <2>1, <2>a, <2>7, <3>2 DEF Writes
    <3>4. QED
      BY <2>3, <3>3
  <2>8. CASE WritesPid(k)
    <3>1. Rec([poolKeeper[k] EXCEPT !.phase = "probing"])
      BY <1>0, <2>1, <2>8 DEF WritesPid, Keeps, KeeperRec, KeeperPhases
    <3>2. QED
      BY <2>3, <3>1
  <2>9. CASE Probes(k)
    <3>1. CASE pool[poolKeeper[k].at] > 0
      <4>1. Rec([poolKeeper[k] EXCEPT !.phase = "readable"])
        BY <1>0, <2>1, <2>9, <3>1 DEF Probes, KeeperRec, KeeperPhases
      <4>2. QED
        BY <2>3, <4>1
    <3>2. CASE ~ (pool[poolKeeper[k].at] > 0)
      <4>1. poolKeeper[k].empty + 1 \in 0 .. EmptyProbes
        BY <2>1, <2>9 DEF Probes, LeakWatched, KeeperRec
      <4>2. Rec([poolKeeper[k] EXCEPT !.empty = poolKeeper[k].empty + 1])
        BY <1>0, <2>1, <2>9, <3>2, <4>1 DEF Probes, KeeperRec, KeeperPhases
      <4>3. QED
        BY <2>3, <4>2
    <3>3. QED
      BY <3>1, <3>2
  <2>10. CASE ProbeReads(k)
    <3>0. poolKeeper[k].at \in Inode
      BY <2>1, <2>10 DEF ProbeReads, KeeperRec
    <3>1. CASE pool[poolKeeper[k].at] > 0
      <4>a. pool[poolKeeper[k].at] \in Nat
        BY <1>0, <3>0
      <4>b. pool' = [pool EXCEPT ![poolKeeper[k].at] = pool[poolKeeper[k].at] - 1]
        BY <2>10, <3>1 DEF ProbeReads
      <4>0. /\ pool[poolKeeper[k].at] - 1 \in Nat
            /\ pool' = [pool EXCEPT ![poolKeeper[k].at] = pool[poolKeeper[k].at] - 1]
        BY <3>1, <4>a, <4>b
      <4>1. pool' \in [Inode -> Nat]
        BY <1>0, <3>0, <4>0, PoolAt
      <4>2. Rec([poolKeeper[k] EXCEPT !.phase = "holding"])
        BY <1>0, <2>1, <2>10, <3>0, <3>1, <4>1 DEF ProbeReads, Keeps, KeeperRec, KeeperPhases
      <4>3. QED
        BY <2>3, <4>2
    <3>2. CASE ~ (pool[poolKeeper[k].at] > 0)
      <4>1. Rec([poolKeeper[k] EXCEPT !.phase = "probing", !.empty = 0])
        BY <1>0, <1>z, <2>1, <2>10, <3>0, <3>2 DEF ProbeReads, KeeperRec, KeeperPhases
      <4>2. QED
        BY <2>3, <4>1
    <3>3. QED
      BY <3>1, <3>2
  <2>11. CASE ProbeWrites(k)
    <3>0. poolKeeper[k].at \in Inode
      BY <2>1, <2>11 DEF ProbeWrites, KeeperRec
    <3>4. pool[poolKeeper[k].at] + 1 \in Nat
      BY <1>0, <3>0
    <3>5. pool' = [pool EXCEPT ![poolKeeper[k].at] = pool[poolKeeper[k].at] + 1]
      BY <2>11 DEF ProbeWrites, PutsBack
    <3>1. pool' \in [Inode -> Nat]
      BY <1>0, <3>0, <3>4, <3>5, PoolAt
    <3>2. Rec([poolKeeper[k] EXCEPT !.phase = "probing", !.empty = 0])
      BY <1>0, <1>z, <2>1, <2>11, <3>0, <3>1 DEF ProbeWrites, KeeperRec, KeeperPhases
    <3>3. QED
      BY <2>3, <3>2
  <2>12. CASE KeeperKilled(k)
    <3>1. pool' \in [Inode -> Nat]
      BY <1>0, <2>12, LeftIsLess DEF KeeperKilled
    <3>2. Rec([phase |-> "dead", at |-> Nil, empty |-> 0, missing |-> 0])
      BY <1>z, <2>12, <3>1 DEF KeeperKilled, KeeperRec, KeeperPhases
    <3>3. QED
      BY <2>3, <3>2
  <2>13. QED
    BY <1>5, <2>4, <2>5, <2>6, <2>7, <2>8, <2>9, <2>10, <2>11, <2>12 DEF KeeperRuns
<1>6. ASSUME NEW next \in {"attaching", "making"}, StartsKeeper(next)
      PROVE  /\ poolKeeper' \in [PoolKeeper -> KeeperRec] /\ spawned' \in 1 .. MaxKeepers
             /\ \A k \in PoolKeeper :
                  /\ poolKeeper'[k].at = Nil <=> poolKeeper'[k].phase \in {"none", "spawned", "dead"}
                  /\ k > spawned' => poolKeeper'[k].phase = "none"
  <2> DEFINE n == spawned + 1
             g == [poolKeeper[n] EXCEPT !.phase = "spawned"]
  <2>1. n \in PoolKeeper /\ n > spawned /\ spawned' = n
    BY <1>0, <1>6 DEF StartsKeeper
  <2>2. poolKeeper[n] \in KeeperRec /\ poolKeeper[n].at = Nil
    BY <1>0, <2>1 DEF PipesOK
  <2>3. g \in KeeperRec /\ g.phase = "spawned" /\ g.at = Nil
    BY <2>2 DEF KeeperRec, KeeperPhases
  <2>4. poolKeeper' = [poolKeeper EXCEPT ![n] = g]
    BY <1>6 DEF StartsKeeper
  <2> HIDE DEF g
  <2>5. poolKeeper' \in [PoolKeeper -> KeeperRec]
        /\ \A k \in PoolKeeper : poolKeeper'[k] = IF k = n THEN g ELSE poolKeeper[k]
    BY <1>0, <2>1, <2>3, <2>4
  <2>6. QED
    BY <1>0, <2>1, <2>3, <2>5 DEF PipesOK
<1>7. CASE InitLooks
  <2>0. /\ init = "idle" /\ inits' = inits + 1 /\ inits' \in 0 .. MaxInits
        /\ UNCHANGED <<path, made, pool, tester, pidFile, kills, marks>>
    BY <1>0, <1>7 DEF InitLooks
  <2>1. CASE UNCHANGED <<spawned, poolKeeper>> /\ init' \in {"idle", "replacing"}
    BY <1>0, <2>0, <2>1 DEF JobTypeOK, TesterRec, KeeperRec, KeeperPhases, PipesOK, marks
  <2>2. CASE StartsKeeper("attaching")
    <3>1. init' = "attaching"
      BY <2>2 DEF StartsKeeper
    <3>2. /\ poolKeeper' \in [PoolKeeper -> KeeperRec] /\ spawned' \in 1 .. MaxKeepers
          /\ \A k \in PoolKeeper :
               /\ poolKeeper'[k].at = Nil <=> poolKeeper'[k].phase \in {"none", "spawned", "dead"}
               /\ k > spawned' => poolKeeper'[k].phase = "none"
      BY <1>6, <2>2
    <3>6. poolKeeper' \in [PoolKeeper -> KeeperRec] /\ spawned' \in 0 .. MaxKeepers
      BY <3>2
    <3>3. JobTypeOK'
      <4> HIDE DEF PoolKeeper, Inode, Nil
      <4>1. QED
        BY <1>0, <2>0, <3>1, <3>6 DEF JobTypeOK, TesterRec, KeeperRec, KeeperPhases, marks
    <3>4. PipesOK'
      BY <1>0, <2>0, <3>1, <3>2 DEF PipesOK
    <3>5. QED
      BY <3>3, <3>4
  <2>3. QED
    BY <1>7, <2>0, <2>1, <2>2 DEF InitLooks
<1>8. CASE InitMakes
  <2>1. /\ made' = made + 1 /\ path' = made + 1 /\ pidFile' = Nil /\ init' = "making"
        /\ UNCHANGED <<pool, tester, inits, kills, marks>> /\ made + 1 <= inits
    BY <1>0, <1>8 DEF InitMakes, StartsKeeper, PipesOK
  <2>2. StartsKeeper("making")
    BY <1>8 DEF InitMakes
  <2>3. /\ poolKeeper' \in [PoolKeeper -> KeeperRec] /\ spawned' \in 1 .. MaxKeepers
        /\ \A k \in PoolKeeper :
             /\ poolKeeper'[k].at = Nil <=> poolKeeper'[k].phase \in {"none", "spawned", "dead"}
             /\ k > spawned' => poolKeeper'[k].phase = "none"
    BY <1>6, <2>2
  <2>4. JobTypeOK'
    <3>1. /\ path' \in {Nil} \cup Inode /\ made' \in 0 .. MaxInits
          /\ pidFile' \in {Nil} \cup PoolKeeper /\ spawned' \in 0 .. MaxKeepers
      BY <1>0, <2>1, <2>3
    <3>2. poolKeeper' \in [PoolKeeper -> KeeperRec]
      BY <2>3
    <3> HIDE DEF PoolKeeper, Inode, Nil
    <3>3. QED
      BY <1>0, <2>1, <3>1, <3>2 DEF JobTypeOK, TesterRec, KeeperRec, KeeperPhases, marks
  <2>5. PipesOK'
    BY <1>0, <2>1, <2>3 DEF PipesOK
  <2>6. QED
    BY <2>4, <2>5
<1>9. CASE InitFindsItsKeeper \/ InitGivesUp
  <2>1. /\ init' = "idle" /\ init \in {"attaching", "making"} /\ path' \in {path, Nil}
        /\ slowKeepers' \subseteq slowKeepers \cup {spawned} /\ early' \subseteq early \cup WorkersAt(path)
        /\ UNCHANGED <<made, pool, tester, poolKeeper, pidFile, inits, spawned, kills, surplus>>
    BY <1>9 DEF InitFindsItsKeeper, InitGivesUp, marks
  <2>2. spawned \in PoolKeeper /\ WorkersAt(path) \subseteq Tester
    BY <1>0, <2>1 DEF PipesOK, WorkersAt
  <2>3. QED
    BY <1>0, <2>1, <2>2 DEF JobTypeOK, TesterRec, KeeperRec, KeeperPhases, PipesOK
<1>10. CASE UNCHANGED jobVars
  BY <1>10 DEF jobVars, initVars, marks, JobTypeOK, PipesOK
<1>11. QED
  BY <1>3, <1>4, <1>5, <1>7, <1>8, <1>9, <1>10 DEF JobNext, Tests

\* Nobody has the pipe open while `init` replaces it, but for who opened it since.
NobodyAtOldPipe == init = "replacing" => \A w \in Tester : tester[w].at # Nil => w \in early

LEMMA ParkedInit == JobInit => NobodyIsParkedForEver /\ NobodyAtOldPipe
BY DEF JobInit, NobodyIsParkedForEver, NobodyAtOldPipe

\* A holder `init` does not count is none: with no holder, no worker is at the path.
LEMMA NoHolder ==
  ASSUME path # Nil, Holders(Nil) = 0 PROVE \A w \in Tester : tester[w].at # path
<1>1. IsFiniteSet(KeepersAt(path) \ {Nil})
  BY Finite, FS_RemoveElement
<1>2. Cardinality(WorkersAt(path)) \in Nat /\ Cardinality(KeepersAt(path) \ {Nil}) \in Nat
  BY <1>1, Finite, FS_CardinalityType
<1>3. Cardinality(WorkersAt(path)) = 0
  BY <1>2 DEF Holders
<1>4. WorkersAt(path) = {}
  BY <1>3, Finite, FS_EmptySet
<1>5. QED
  BY <1>4 DEF WorkersAt

LEMMA ParkedStays ==
  ASSUME JobTypeOK, PipesOK, NobodyIsParkedForEver, NobodyAtOldPipe, [JobNext]_jobVars
  PROVE  NobodyIsParkedForEver' /\ NobodyAtOldPipe'
<1> USE DEF NobodyIsParkedForEver, NobodyAtOldPipe
<1>0. tester \in [Tester -> TesterRec]
  BY DEF JobTypeOK, TesterRec
<1>1. ASSUME NEW w \in Tester, Opens(w) \/ Tests(w) \/ WorkerKilled(w)
      PROVE  NobodyIsParkedForEver' /\ NobodyAtOldPipe'
  <2>1. path' = path /\ init' = init
    BY <1>1 DEF Opens, Tests, TakesToken, GivesBack, Again, WorkerKilled, initVars
  <2>2. \A v \in Tester : v # w => tester'[v] = tester[v] /\ (v \in early => v \in early')
    BY <1>0, <1>1 DEF Opens, Tests, TakesToken, GivesBack, Again, WorkerKilled, Gone, marks
  <2>3. \/ tester'[w].at = Nil
        \/ tester'[w].at = tester[w].at /\ early' = early
        \/ tester'[w].at = path /\ (init = "replacing" => w \in early')
    BY <1>0, <1>1 DEF Opens, Tests, TakesToken, GivesBack, Again, WorkerKilled, Gone, marks, TesterRec
  <2>4. QED
    BY <2>1, <2>2, <2>3
<1>2. ASSUME NEW k \in PoolKeeper, KeeperRuns(k) \/ KeeperKilled(k)
      PROVE  NobodyIsParkedForEver' /\ NobodyAtOldPipe'
  <2>1. UNCHANGED <<path, tester, init, early>>
    BY <1>2 DEF KeeperRuns, KeeperOpens, SizesPipe, CountsHolders, Writes, WritesPid, Probes,
       ProbeReads, ProbeWrites, KeeperKilled, initVars, marks
  <2>2. QED
    BY <2>1
<1>3. CASE InitLooks
  <2>1. UNCHANGED <<path, tester, early>>
    BY <1>3 DEF InitLooks, marks
  <2>2. init' = "replacing" => path = Nil \/ Replaces
    BY <1>3 DEF InitLooks, StartsKeeper
  <2>3. QED
    BY <2>1, <2>2, NoHolder DEF Replaces
<1>4. CASE InitMakes
  BY <1>4 DEF InitMakes, StartsKeeper, marks
<1>5. CASE InitFindsItsKeeper \/ InitGivesUp
  BY <1>5 DEF InitFindsItsKeeper, InitGivesUp, marks, WorkersAt
<1>6. CASE UNCHANGED jobVars
  BY <1>6 DEF jobVars, initVars, marks
<1>7. QED
  BY <1>1, <1>2, <1>3, <1>4, <1>5, <1>6 DEF JobNext

\* While no `init` has given up on one, at most one keeper lives: the last one
\* started, at the pipe the path names, and between two `init`s named by the file.
OneKeeper ==
    slowKeepers = {} => \A k \in PoolKeeper : Alive(k) =>
        /\ k = spawned /\ init # "replacing" /\ path # Nil
        /\ poolKeeper[k].at \in {Nil, path}
        /\ init = "idle" => pidFile = k

LEMMA OneKeeperInit == JobInit => OneKeeper
BY DEF JobInit, OneKeeper, Alive

LEMMA OneKeeperStays ==
  ASSUME JobTypeOK, PipesOK, OneKeeper, [JobNext]_jobVars PROVE OneKeeper'
<1> USE DEF OneKeeper, Alive
<1>0. /\ poolKeeper \in [PoolKeeper -> KeeperRec] /\ spawned \in Nat
      /\ made \in Nat /\ Nil \notin PoolKeeper /\ Nil = 0
  BY JobServerAssumption DEF JobTypeOK, KeeperRec, KeeperPhases, PoolKeeper, Nil
<1>1. ASSUME NEW w \in Tester, Opens(w) \/ Tests(w) \/ WorkerKilled(w) PROVE OneKeeper'
  BY <1>1 DEF Opens, Tests, TakesToken, GivesBack, Again, WorkerKilled, initVars, marks
<1>2. ASSUME NEW k \in PoolKeeper, KeeperRuns(k) \/ KeeperKilled(k) PROVE OneKeeper'
  <2>1. UNCHANGED <<path, init, spawned, slowKeepers>> /\ Alive(k)
    BY <1>2 DEF KeeperRuns, KeeperOpens, SizesPipe, CountsHolders, Writes, WritesPid, Probes,
       ProbeReads, ProbeWrites, KeeperKilled, initVars, marks
  <2>2. \A j \in PoolKeeper : j # k => poolKeeper'[j] = poolKeeper[j]
    BY <1>0, <1>2 DEF KeeperRuns, KeeperOpens, SizesPipe, CountsHolders, Writes, WritesPid, Probes,
       ProbeReads, ProbeWrites, KeeperKilled, Keeps
  <2>3. poolKeeper'[k].at \in {Nil, path, poolKeeper[k].at}
    <3>1. poolKeeper[k] \in KeeperRec /\ AfterTopUp(k).at = poolKeeper[k].at
      BY <1>0 DEF AfterTopUp, KeeperRec
    <3>2. CASE SizesPipe(k) \/ Writes(k)
      BY <1>0, <3>1, <3>2 DEF SizesPipe, Writes, KeeperRec
    <3>3. CASE KeeperOpens(k) \/ CountsHolders(k) \/ WritesPid(k) \/ Probes(k) \/ KeeperKilled(k)
      BY <1>0, <3>1, <3>3 DEF KeeperOpens, CountsHolders, WritesPid, Probes, Keeps, KeeperKilled, KeeperRec
    <3>4. CASE ProbeReads(k) \/ ProbeWrites(k)
      BY <1>0, <3>1, <3>4 DEF ProbeReads, ProbeWrites, Keeps, KeeperRec
    <3>5. QED
      BY <1>2, <3>2, <3>3, <3>4 DEF KeeperRuns
  <2>4. pidFile' \in {pidFile, k}
    BY <1>2 DEF KeeperRuns, KeeperOpens, SizesPipe, CountsHolders, Writes, WritesPid, Probes,
       ProbeReads, ProbeWrites, KeeperKilled
  <2>5. QED
    BY <2>1, <2>2, <2>3, <2>4
<1>3. ASSUME NEW next \in {"attaching", "making"}, StartsKeeper(next), path' # Nil,
             slowKeepers' = slowKeepers, \A k \in PoolKeeper : slowKeepers = {} => ~ Alive(k)
      PROVE  OneKeeper'
  <2>1. spawned + 1 \in PoolKeeper /\ spawned' = spawned + 1 /\ init' = next
    BY <1>0, <1>3, JobServerAssumption DEF StartsKeeper, PoolKeeper
  <2>2. poolKeeper[spawned + 1].at = Nil
    BY <1>0, <2>1 DEF PipesOK
  <2>3. \A k \in PoolKeeper : k # spawned + 1 => poolKeeper'[k] = poolKeeper[k]
    BY <1>0, <1>3 DEF StartsKeeper
  <2>4. poolKeeper'[spawned + 1].at = Nil
    BY <1>0, <1>3, <2>1, <2>2 DEF StartsKeeper, KeeperRec
  <2>5. QED
    BY <1>3, <2>1, <2>3, <2>4
<1>4. CASE InitLooks
  <2>1. init = "idle" /\ UNCHANGED <<path, pidFile, slowKeepers>>
    BY <1>4 DEF InitLooks, marks
  <2>2. CASE UNCHANGED <<init, spawned, poolKeeper>>
    BY <2>1, <2>2
  <2>3. CASE path # Nil /\ KeeperPid = Nil /\ ~ Replaces /\ StartsKeeper("attaching")
    BY <1>0, <1>3, <2>1, <2>3 DEF KeeperPid
  <2>4. CASE (path = Nil \/ KeeperPid = Nil) /\ init' = "replacing" /\ UNCHANGED <<spawned, poolKeeper>>
    BY <1>0, <2>1, <2>4 DEF KeeperPid
  <2>5. QED
    BY <1>4, <2>2, <2>3, <2>4 DEF InitLooks
<1>5. CASE InitMakes
  <2>1. init = "replacing" /\ path' # Nil /\ slowKeepers' = slowKeepers /\ StartsKeeper("making")
    BY <1>0, <1>5 DEF InitMakes, marks
  <2>2. QED
    BY <1>3, <2>1
<1>6. CASE InitFindsItsKeeper
  BY <1>0, <1>6 DEF InitFindsItsKeeper, KeeperPid, JobTypeOK, marks
<1>7. CASE InitGivesUp
  BY <1>7 DEF InitGivesUp
<1>8. CASE UNCHANGED jobVars
  BY <1>8 DEF jobVars, initVars, marks
<1>9. QED
  BY <1>1, <1>2, <1>4, <1>5, <1>6, <1>7, <1>8 DEF JobNext

\* What a pipe carries: its bytes and the tokens in use.
Testing(i) == {w \in WorkersAt(i) : tester[w].phase = "testing"}
Holding(i) == {k \in KeepersAt(i) : poolKeeper[k].phase = "holding"}
Load(i) == pool[i] + InUse(i)

\* A top-up that saw the pipe empty counts every token of it among the workers,
\* but for the surplus; what it then finds missing fits.
LoadsFit == slowKeepers = {} => \A i \in Inode : Load(i) <= Tokens + surplus
SizedFit == slowKeepers = {} => \A k \in PoolKeeper, i \in Inode :
              poolKeeper[k].phase = "sized" /\ poolKeeper[k].at = i =>
                Load(i) <= Cardinality(WorkersAt(i)) + surplus
CountedFit == slowKeepers = {} => \A k \in PoolKeeper, i \in Inode :
              poolKeeper[k].phase = "counted" /\ poolKeeper[k].at = i =>
                Load(i) + poolKeeper[k].missing <= Tokens + surplus
Accounts == LoadsFit /\ SizedFit /\ CountedFit

\* What a record of a worker, or of a keeper, adds to the counts of a pipe.
TestsAt(r, i) == IF r.at = i /\ r.phase = "testing" THEN 1 ELSE 0
HoldsAt(r, i) == IF r.at = i /\ r.phase = "holding" THEN 1 ELSE 0
IsAt(r, i) == IF r.at = i THEN 1 ELSE 0

\* Two sets that differ in one element at most.
LEMMA SwapOne ==
  ASSUME NEW A, NEW B, NEW x, IsFiniteSet(A), IsFiniteSet(B), A \ {x} = B \ {x}
  PROVE  /\ Cardinality(A) \in Nat /\ Cardinality(B) \in Nat
         /\ Cardinality(A) + (IF x \in B THEN 1 ELSE 0) = Cardinality(B) + (IF x \in A THEN 1 ELSE 0)
<1> DEFINE C == A \ {x}
<1>1. IsFiniteSet(C) /\ Cardinality(C) \in Nat /\ x \notin C
  BY FS_RemoveElement, FS_CardinalityType
<1>2. Cardinality(A) = Cardinality(C) + (IF x \in A THEN 1 ELSE 0)
  BY <1>1, FS_RemoveElement, FS_CardinalityType
<1>3. Cardinality(B) = Cardinality(C) + (IF x \in B THEN 1 ELSE 0)
  BY <1>1, FS_RemoveElement, FS_CardinalityType
<1>4. QED
  BY <1>1, <1>2, <1>3

LEMMA LoadIs ==
  /\ \A i : /\ IsFiniteSet(Testing(i)) /\ Cardinality(Testing(i)) \in Nat
            /\ IsFiniteSet(Holding(i)) /\ Cardinality(Holding(i)) \in Nat
            /\ Testing(i) \subseteq WorkersAt(i) /\ Cardinality(Testing(i)) <= Cardinality(WorkersAt(i))
            /\ InUse(i) = Cardinality(Testing(i)) + Cardinality(Holding(i))
  /\ pool \in [Inode -> Nat] => \A i \in Inode : Load(i) \in Nat
<1>1. ASSUME NEW i
      PROVE  /\ IsFiniteSet(Testing(i)) /\ Cardinality(Testing(i)) \in Nat
             /\ IsFiniteSet(Holding(i)) /\ Cardinality(Holding(i)) \in Nat
             /\ Testing(i) \subseteq WorkersAt(i) /\ Cardinality(Testing(i)) <= Cardinality(WorkersAt(i))
  <2>1. Testing(i) \in SUBSET WorkersAt(i) /\ Holding(i) \in SUBSET KeepersAt(i)
    BY DEF Testing, Holding
  <2>2. QED
    BY <2>1, Finite, FS_Subset, FS_CardinalityType
<1>2. \A i : InUse(i) = Cardinality(Testing(i)) + Cardinality(Holding(i))
  BY DEF InUse, Testing, Holding
<1>3. pool \in [Inode -> Nat] => \A i \in Inode : Load(i) \in Nat
  BY <1>1, <1>2 DEF Load
<1>4. QED
  BY <1>1, <1>2, <1>3

LEMMA AccountsInit == JobInit => Accounts
<1> SUFFICES ASSUME JobInit PROVE Accounts
  OBVIOUS
<1>1. /\ pool = [i \in Inode |-> 0] /\ surplus = 0
      /\ \A w \in Tester : tester[w].phase = "idle"
      /\ \A k \in PoolKeeper : poolKeeper[k].phase = "none"
  BY DEF JobInit
<1>2. \A i : Testing(i) = {} /\ Holding(i) = {}
  BY <1>1 DEF Testing, Holding, WorkersAt, KeepersAt
<1>3. \A i \in Inode : Load(i) = 0
  BY <1>1, <1>2, LoadIs, FS_EmptySet DEF Load
<1>4. QED
  BY <1>1, <1>3, JobServerAssumption DEF Accounts, LoadsFit, SizedFit, CountedFit

\* One worker's step: its record is all that the sets of workers see of it.
LEMMA WorkerMoves ==
  ASSUME NEW w \in Tester, NEW g, tester \in [Tester -> TesterRec],
         tester' = [tester EXCEPT ![w] = g], poolKeeper' = poolKeeper, NEW i
  PROVE  /\ Cardinality(Testing(i)') + TestsAt(tester[w], i) = Cardinality(Testing(i)) + TestsAt(g, i)
         /\ Cardinality(WorkersAt(i)') + IsAt(tester[w], i) = Cardinality(WorkersAt(i)) + IsAt(g, i)
         /\ Cardinality(Testing(i)') \in Nat /\ Cardinality(WorkersAt(i)') \in Nat
         /\ InUse(i)' = Cardinality(Testing(i)') + Cardinality(Holding(i))
<1>1. \A v \in Tester : tester'[v] = IF v = w THEN g ELSE tester[v]
  OBVIOUS
<1>2. Testing(i)' \ {w} = Testing(i) \ {w} /\ WorkersAt(i)' \ {w} = WorkersAt(i) \ {w}
  BY <1>1 DEF Testing, WorkersAt
<1>3. /\ w \in Testing(i)' <=> g.at = i /\ g.phase = "testing"
      /\ w \in WorkersAt(i)' <=> g.at = i
      /\ w \in Testing(i) <=> tester[w].at = i /\ tester[w].phase = "testing"
      /\ w \in WorkersAt(i) <=> tester[w].at = i
  BY <1>1 DEF Testing, WorkersAt
<1>4. WorkersAt(i)' \in SUBSET Tester /\ Testing(i)' \in SUBSET Tester
  BY DEF WorkersAt, Testing
<1>5. IsFiniteSet(WorkersAt(i)') /\ IsFiniteSet(Testing(i)')
  BY <1>4, Finite, FS_Subset
<1>6. IsFiniteSet(WorkersAt(i)) /\ IsFiniteSet(Testing(i))
  BY Finite, LoadIs
<1>7. InUse(i)' = Cardinality(Testing(i)') + Cardinality(Holding(i))
  BY DEF InUse, Testing, Holding, KeepersAt, Alive
<1>8. /\ Cardinality(Testing(i)') \in Nat
      /\ Cardinality(Testing(i)') + (IF w \in Testing(i) THEN 1 ELSE 0)
           = Cardinality(Testing(i)) + (IF w \in Testing(i)' THEN 1 ELSE 0)
  BY <1>2, <1>5, <1>6, SwapOne
<1>9. /\ Cardinality(WorkersAt(i)') \in Nat
      /\ Cardinality(WorkersAt(i)') + (IF w \in WorkersAt(i) THEN 1 ELSE 0)
           = Cardinality(WorkersAt(i)) + (IF w \in WorkersAt(i)' THEN 1 ELSE 0)
  BY <1>2, <1>5, <1>6, SwapOne
<1>10. QED
  BY <1>3, <1>7, <1>8, <1>9 DEF TestsAt, IsAt

\* One keeper's step, the same.
LEMMA KeeperMoves ==
  ASSUME NEW k \in PoolKeeper, NEW g, poolKeeper \in [PoolKeeper -> KeeperRec],
         poolKeeper' = [poolKeeper EXCEPT ![k] = g], tester' = tester, NEW i
  PROVE  /\ Cardinality(Holding(i)') + HoldsAt(poolKeeper[k], i) = Cardinality(Holding(i)) + HoldsAt(g, i)
         /\ Cardinality(Holding(i)') \in Nat
         /\ InUse(i)' = Cardinality(Testing(i)) + Cardinality(Holding(i)')
         /\ WorkersAt(i)' = WorkersAt(i)
<1>1. \A j \in PoolKeeper : poolKeeper'[j] = IF j = k THEN g ELSE poolKeeper[j]
  OBVIOUS
<1>2. Holding(i)' \ {k} = Holding(i) \ {k}
  BY <1>1 DEF Holding, KeepersAt, Alive
<1>3. /\ k \in Holding(i)' <=> g.at = i /\ g.phase = "holding"
      /\ k \in Holding(i) <=> poolKeeper[k].at = i /\ poolKeeper[k].phase = "holding"
  BY <1>1 DEF Holding, KeepersAt, Alive
<1>4. Holding(i)' \in SUBSET PoolKeeper
  BY DEF Holding, KeepersAt
<1>5. IsFiniteSet(Holding(i)') /\ IsFiniteSet(Holding(i))
  BY <1>4, Finite, LoadIs, FS_Subset
<1>6. /\ InUse(i)' = Cardinality(Testing(i)) + Cardinality(Holding(i)')
      /\ WorkersAt(i)' = WorkersAt(i)
  BY DEF InUse, Testing, Holding, WorkersAt
<1>7. /\ Cardinality(Holding(i)') \in Nat
      /\ Cardinality(Holding(i)') + (IF k \in Holding(i) THEN 1 ELSE 0)
           = Cardinality(Holding(i)) + (IF k \in Holding(i)' THEN 1 ELSE 0)
  BY <1>2, <1>5, SwapOne
<1>8. QED
  BY <1>3, <1>6, <1>7 DEF HoldsAt

\* A worker's step adds nothing to a pipe, and what a sized pipe loses in
\* workers it loses in tokens too or gains in surplus.
LEMMA WorkerKeepsAccounts ==
  ASSUME JobTypeOK, PipesOK, Accounts, NEW w \in Tester, Opens(w) \/ Tests(w) \/ WorkerKilled(w)
  PROVE  Accounts'
<1> USE JobServerAssumption
<1>0. /\ pool \in [Inode -> Nat] /\ tester \in [Tester -> TesterRec] /\ surplus \in Nat
      /\ path \in {Nil} \cup Inode /\ tester[w] \in TesterRec /\ poolKeeper \in [PoolKeeper -> KeeperRec]
      /\ tester[w].at = Nil <=> tester[w].phase = "idle"
  BY DEF JobTypeOK, TesterRec, PipesOK, KeeperRec, KeeperPhases
<1>a. Nil \notin Inode
  BY DEF Nil, Inode
<1>1. poolKeeper' = poolKeeper /\ slowKeepers' = slowKeepers
  BY DEF Opens, Tests, TakesToken, GivesBack, Again, WorkerKilled, marks
<1> DEFINE Lighter == /\ surplus' \in Nat /\ surplus' >= surplus
                      /\ \A i \in Inode : /\ Load(i)' \in Nat /\ Load(i)' <= Load(i)
                                          /\ Cardinality(WorkersAt(i)') \in Nat
           Balanced == \A k \in PoolKeeper, i \in Inode : poolKeeper[k].phase = "sized" /\ poolKeeper[k].at = i =>
                           Load(i)' + Cardinality(WorkersAt(i)) + surplus
                             <= Load(i) + Cardinality(WorkersAt(i)') + surplus'
<1>2. ASSUME Lighter, Balanced PROVE Accounts'
  <2>0. \A i \in Inode : Load(i) \in Nat /\ Cardinality(WorkersAt(i)) \in Nat
    BY <1>0, LoadIs, Numbers
  <2>1. \A k \in PoolKeeper : poolKeeper[k].missing \in Nat
    BY <1>0 DEF KeeperRec
  <2>2. LoadsFit'
    BY <1>0, <1>1, <1>2, <2>0 DEF Accounts, LoadsFit
  <2>3. SizedFit'
    <3> SUFFICES ASSUME slowKeepers = {}, NEW k \in PoolKeeper, NEW i \in Inode,
                        poolKeeper[k].phase = "sized", poolKeeper[k].at = i
                 PROVE  Load(i)' <= Cardinality(WorkersAt(i)') + surplus'
      BY <1>1 DEF SizedFit
    <3>1. Load(i) <= Cardinality(WorkersAt(i)) + surplus
      BY DEF Accounts, SizedFit
    <3>2. QED
      BY <1>0, <1>2, <2>0, <3>1
  <2>4. CountedFit'
    <3> SUFFICES ASSUME slowKeepers = {}, NEW k \in PoolKeeper, NEW i \in Inode,
                        poolKeeper[k].phase = "counted", poolKeeper[k].at = i
                 PROVE  Load(i)' + poolKeeper[k].missing <= Tokens + surplus'
      BY <1>1 DEF CountedFit
    <3>1. Load(i) + poolKeeper[k].missing <= Tokens + surplus /\ poolKeeper[k].missing \in Nat
      BY <2>1 DEF Accounts, CountedFit
    <3>2. QED
      BY <1>0, <1>2, <2>0, <3>1
  <2>5. QED
    BY <2>2, <2>3, <2>4 DEF Accounts
<1> HIDE DEF Lighter, Balanced
<1>b. \A i \in Inode : /\ pool[i] \in Nat /\ Load(i) = pool[i] + Cardinality(Testing(i)) + Cardinality(Holding(i))
                       /\ Cardinality(Testing(i)) \in Nat /\ Cardinality(Holding(i)) \in Nat
                       /\ Cardinality(WorkersAt(i)) \in Nat
  BY <1>0, LoadIs, Numbers DEF Load
\* The step seen from a pipe: what the worker was and is to it.
<1>3. ASSUME NEW g, tester' = [tester EXCEPT ![w] = g], NEW i \in Inode, pool' \in [Inode -> Nat]
      PROVE  /\ Load(i)' \in Nat /\ Cardinality(WorkersAt(i)') \in Nat
             /\ Load(i)' + pool[i] + TestsAt(tester[w], i) = Load(i) + pool'[i] + TestsAt(g, i)
             /\ Cardinality(WorkersAt(i)') + IsAt(tester[w], i) = Cardinality(WorkersAt(i)) + IsAt(g, i)
  <2>1. Load(i)' = pool'[i] + InUse(i)' /\ pool'[i] \in Nat
    BY <1>3 DEF Load
  <2>2. TestsAt(tester[w], i) \in Nat /\ TestsAt(g, i) \in Nat
    BY DEF TestsAt
  <2>3. /\ Cardinality(Testing(i)') + TestsAt(tester[w], i) = Cardinality(Testing(i)) + TestsAt(g, i)
        /\ Cardinality(WorkersAt(i)') + IsAt(tester[w], i) = Cardinality(WorkersAt(i)) + IsAt(g, i)
        /\ Cardinality(Testing(i)') \in Nat /\ Cardinality(WorkersAt(i)') \in Nat
        /\ InUse(i)' = Cardinality(Testing(i)') + Cardinality(Holding(i))
    BY <1>0, <1>1, <1>3, WorkerMoves
  <2>4. QED
    BY <1>b, <2>1, <2>2, <2>3
<1>4. CASE Opens(w)
  <2> DEFINE g == [phase |-> "waiting", at |-> path]
  <2>1. tester' = [tester EXCEPT ![w] = g] /\ pool' = pool /\ surplus' = surplus /\ tester[w].at = Nil
    BY <1>0, <1>4 DEF Opens
  <2>2. g.phase = "waiting"
    OBVIOUS
  <2> HIDE DEF g
  <2>3. \A i \in Inode : /\ Load(i)' \in Nat /\ Cardinality(WorkersAt(i)') \in Nat /\ Load(i)' = Load(i)
                         /\ Cardinality(WorkersAt(i)') >= Cardinality(WorkersAt(i))
    <3> SUFFICES ASSUME NEW i \in Inode
                 PROVE  /\ Load(i)' \in Nat /\ Cardinality(WorkersAt(i)') \in Nat /\ Load(i)' = Load(i)
                        /\ Cardinality(WorkersAt(i)') >= Cardinality(WorkersAt(i))
      OBVIOUS
    <3>1. /\ Load(i)' \in Nat /\ Cardinality(WorkersAt(i)') \in Nat
          /\ Load(i)' + pool[i] + TestsAt(tester[w], i) = Load(i) + pool'[i] + TestsAt(g, i)
          /\ Cardinality(WorkersAt(i)') + IsAt(tester[w], i) = Cardinality(WorkersAt(i)) + IsAt(g, i)
      BY <1>0, <1>3, <2>1
    <3>2. /\ TestsAt(g, i) = 0 /\ TestsAt(tester[w], i) = 0
          /\ IsAt(tester[w], i) = 0 /\ IsAt(g, i) \in Nat
      BY <1>a, <2>1, <2>2 DEF TestsAt, IsAt
    <3>3. QED
      BY <1>b, <2>1, <3>1, <3>2
  <2>4. Lighter
    BY <1>0, <1>b, <2>1, <2>3 DEF Lighter
  <2>5. Balanced
    BY <1>0, <1>b, <2>1, <2>3 DEF Balanced
  <2>6. QED
    BY <1>2, <2>4, <2>5
<1>5. CASE TakesToken(w) \/ GivesBack(w) \/ (Again(w) /\ pool' = pool /\ surplus' = surplus
                                             /\ tester' = [tester EXCEPT ![w].phase = "waiting"])
  <2>1. PICK p \in {"waiting", "testing", "between"}, n \in Nat :
          /\ tester' = [tester EXCEPT ![w].phase = p] /\ surplus' = surplus
          /\ pool' = [pool EXCEPT ![tester[w].at] = n] /\ tester[w].at \in Inode
          /\ n + (IF p = "testing" THEN 1 ELSE 0)
               = pool[tester[w].at] + (IF tester[w].phase = "testing" THEN 1 ELSE 0)
    <3>0. tester[w].at \in Inode
      BY <1>0, <1>5 DEF TakesToken, GivesBack, Again, TesterRec
    <3>1. CASE TakesToken(w)
      <4>1. /\ pool[tester[w].at] - 1 \in Nat /\ tester[w].phase = "waiting"
            /\ tester' = [tester EXCEPT ![w].phase = "testing"] /\ surplus' = surplus
            /\ pool' = [pool EXCEPT ![tester[w].at] = pool[tester[w].at] - 1]
            /\ (pool[tester[w].at] - 1) + 1 = pool[tester[w].at] + 0
        BY <1>0, <3>0, <3>1 DEF TakesToken, marks
      <4>2. QED
        BY <3>0, <4>1
    <3>2. CASE GivesBack(w)
      <4>1. /\ pool[tester[w].at] + 1 \in Nat /\ tester[w].phase = "testing"
            /\ tester' = [tester EXCEPT ![w].phase = "between"] /\ surplus' = surplus
            /\ pool' = [pool EXCEPT ![tester[w].at] = pool[tester[w].at] + 1]
            /\ (pool[tester[w].at] + 1) + 0 = pool[tester[w].at] + 1
        BY <1>0, <3>0, <3>2 DEF GivesBack, marks
      <4>2. QED
        BY <3>0, <4>1
    <3>3. CASE Again(w) /\ pool' = pool /\ surplus' = surplus /\ tester' = [tester EXCEPT ![w].phase = "waiting"]
      BY <1>0, <3>3 DEF Again, TesterRec
    <3>4. QED
      BY <1>5, <3>1, <3>2, <3>3
  <2> DEFINE g == [tester[w] EXCEPT !.phase = p]
  <2>2. tester' = [tester EXCEPT ![w] = g] /\ g.phase = p /\ g.at = tester[w].at
    BY <1>0, <2>1 DEF TesterRec
  <2> HIDE DEF g
  <2>3. /\ pool' \in [Inode -> Nat]
        /\ \A i \in Inode : pool'[i] = IF i = tester[w].at THEN n ELSE pool[i]
    BY <1>0, <2>1, PoolAt
  <2>4. \A i \in Inode : /\ Load(i)' \in Nat /\ Cardinality(WorkersAt(i)') \in Nat /\ Load(i)' = Load(i)
                         /\ Cardinality(WorkersAt(i)') = Cardinality(WorkersAt(i))
    <3> SUFFICES ASSUME NEW i \in Inode
                 PROVE  /\ Load(i)' \in Nat /\ Cardinality(WorkersAt(i)') \in Nat /\ Load(i)' = Load(i)
                        /\ Cardinality(WorkersAt(i)') = Cardinality(WorkersAt(i))
      OBVIOUS
    <3>1. /\ Load(i)' \in Nat /\ Cardinality(WorkersAt(i)') \in Nat
          /\ Load(i)' + pool[i] + TestsAt(tester[w], i) = Load(i) + pool'[i] + TestsAt(g, i)
          /\ Cardinality(WorkersAt(i)') + IsAt(tester[w], i) = Cardinality(WorkersAt(i)) + IsAt(g, i)
      BY <1>3, <2>2, <2>3
    <3>2. pool[i] + TestsAt(tester[w], i) = pool'[i] + TestsAt(g, i) /\ pool'[i] \in Nat
          /\ TestsAt(tester[w], i) \in Nat /\ TestsAt(g, i) \in Nat
      BY <1>0, <2>1, <2>2, <2>3 DEF TestsAt
    <3>3. IsAt(tester[w], i) = IsAt(g, i) /\ IsAt(g, i) \in Nat
      BY <2>2 DEF IsAt
    <3>4. QED
      BY <1>b, <3>1, <3>2, <3>3
  <2>5. Lighter
    BY <1>0, <1>b, <2>1, <2>4 DEF Lighter
  <2>6. Balanced
    BY <1>0, <1>b, <2>1, <2>4 DEF Balanced
  <2>7. QED
    BY <1>2, <2>5, <2>6
<1>6. CASE Gone(w) /\ tester[w].phase # "idle"
  <2> DEFINE g == [phase |-> "idle", at |-> Nil]
  <2>1. tester' = [tester EXCEPT ![w] = g] /\ surplus' = surplus + Slips(w) /\ Slips(w) \in Nat
    BY <1>6, Numbers DEF Gone
  <2>2. g.phase = "idle" /\ g.at = Nil
    OBVIOUS
  <2> HIDE DEF g
  <2>3. pool' \in [Inode -> Nat] /\ \A i \in Inode : pool'[i] <= pool[i] /\ pool'[i] \in Nat
    <3>1. pool' = Left(tester[w].at, WorkersAt(tester[w].at) \ {w}, KeepersAt(tester[w].at))
      BY <1>6 DEF Gone
    <3>2. pool' \in [Inode -> Nat] /\ \A i \in Inode : pool'[i] <= pool[i]
      BY <1>0, <3>1, LeftIsLess
    <3>3. QED
      BY <3>2
  <2>4. \A i \in Inode :
          /\ Load(i)' \in Nat /\ Cardinality(WorkersAt(i)') \in Nat /\ Load(i)' <= Load(i)
          /\ tester[w].at # i => Cardinality(WorkersAt(i)') = Cardinality(WorkersAt(i))
          /\ tester[w].at = i => /\ Cardinality(WorkersAt(i)') + 1 = Cardinality(WorkersAt(i))
                                 /\ tester[w].phase = "testing" => Load(i)' + 1 <= Load(i)
    <3> SUFFICES ASSUME NEW i \in Inode
                 PROVE  /\ Load(i)' \in Nat /\ Cardinality(WorkersAt(i)') \in Nat /\ Load(i)' <= Load(i)
                        /\ tester[w].at # i => Cardinality(WorkersAt(i)') = Cardinality(WorkersAt(i))
                        /\ tester[w].at = i =>
                             /\ Cardinality(WorkersAt(i)') + 1 = Cardinality(WorkersAt(i))
                             /\ tester[w].phase = "testing" => Load(i)' + 1 <= Load(i)
      OBVIOUS
    <3>1. /\ Load(i)' \in Nat /\ Cardinality(WorkersAt(i)') \in Nat
          /\ Load(i)' + pool[i] + TestsAt(tester[w], i) = Load(i) + pool'[i] + TestsAt(g, i)
          /\ Cardinality(WorkersAt(i)') + IsAt(tester[w], i) = Cardinality(WorkersAt(i)) + IsAt(g, i)
      BY <1>3, <2>1, <2>3
    <3>2. /\ TestsAt(g, i) = 0 /\ IsAt(g, i) = 0
          /\ TestsAt(tester[w], i) = IF tester[w].at = i /\ tester[w].phase = "testing" THEN 1 ELSE 0
          /\ IsAt(tester[w], i) = IF tester[w].at = i THEN 1 ELSE 0
      BY <1>a, <2>2 DEF TestsAt, IsAt
    <3>3. QED
      BY <1>b, <2>3, <3>1, <3>2
  <2>5. Lighter
    BY <1>0, <1>b, <2>1, <2>4 DEF Lighter
  <2>6. Balanced
    <3> SUFFICES ASSUME NEW k \in PoolKeeper, poolKeeper[k].phase = "sized", NEW i \in Inode, poolKeeper[k].at = i
                 PROVE  Load(i)' + Cardinality(WorkersAt(i)) + surplus
                          <= Load(i) + Cardinality(WorkersAt(i)') + surplus'
      BY DEF Balanced
    <3>2. CASE tester[w].at = i /\ tester[w].phase # "testing"
      <4> DEFINE S == {j \in KeepersAt(i) : poolKeeper[j].phase = "sized"}
      <4>1. S \in SUBSET KeepersAt(i) /\ k \in S
        BY DEF KeepersAt, Alive
      <4>2. IsFiniteSet(S) /\ Cardinality(S) \in Nat /\ Cardinality(S) # 0
        BY <4>1, Finite, FS_Subset, FS_CardinalityType, FS_EmptySet
      <4>3. Slips(w) = Cardinality(S)
        BY <3>2 DEF Slips
      <4> HIDE DEF S
      <4>4. surplus' >= surplus + 1
        BY <1>0, <2>1, <4>2, <4>3
      <4>5. QED
        BY <1>0, <1>b, <2>1, <2>4, <3>2, <4>4
    <3>3. CASE ~ (tester[w].at = i /\ tester[w].phase # "testing")
      BY <1>0, <1>b, <2>1, <2>4, <3>3
    <3>4. QED
      BY <3>2, <3>3
  <2>7. QED
    BY <1>2, <2>5, <2>6
<1>7. QED
  BY <1>4, <1>5, <1>6 DEF Tests, Again, WorkerKilled

\* A keeper's step: the pipe gains what the top-up found missing, and nothing else.
LEMMA KeeperKeepsAccounts ==
  ASSUME JobTypeOK, PipesOK, OneKeeper, Accounts, NEW k \in PoolKeeper, KeeperRuns(k) \/ KeeperKilled(k)
  PROVE  Accounts'
<1> USE JobServerAssumption
<1>0. /\ pool \in [Inode -> Nat] /\ surplus \in Nat /\ poolKeeper \in [PoolKeeper -> KeeperRec]
      /\ poolKeeper[k] \in KeeperRec /\ path \in {Nil} \cup Inode
      /\ poolKeeper[k].at = Nil <=> poolKeeper[k].phase \in {"none", "spawned", "dead"}
  BY DEF JobTypeOK, TesterRec, PipesOK, KeeperRec, KeeperPhases
<1>a. Nil \notin Inode
  BY DEF Nil, Inode
<1>1. /\ tester' = tester /\ surplus' = surplus /\ slowKeepers' = slowKeepers /\ Alive(k)
      /\ \A j \in PoolKeeper : j # k => poolKeeper'[j] = poolKeeper[j]
  <2>1. tester' = tester /\ surplus' = surplus /\ slowKeepers' = slowKeepers /\ Alive(k)
    BY DEF KeeperRuns, KeeperOpens, SizesPipe, CountsHolders, Writes, WritesPid, Probes,
       ProbeReads, ProbeWrites, KeeperKilled, marks, Alive
  <2>2. \A j \in PoolKeeper : j # k => poolKeeper'[j] = poolKeeper[j]
    BY <1>0 DEF KeeperRuns, KeeperOpens, SizesPipe, CountsHolders, Writes, WritesPid, Probes,
       ProbeReads, ProbeWrites, KeeperKilled, Keeps
  <2>3. QED
    BY <2>1, <2>2
<1>2. slowKeepers = {} => \A j \in PoolKeeper : j # k => ~ Alive(j)
  BY <1>1 DEF OneKeeper
<1>b. \A i \in Inode : /\ pool[i] \in Nat /\ Load(i) = pool[i] + Cardinality(Testing(i)) + Cardinality(Holding(i))
                       /\ Cardinality(Testing(i)) \in Nat /\ Cardinality(Holding(i)) \in Nat
                       /\ Cardinality(WorkersAt(i)) \in Nat /\ Load(i) \in Nat
  BY <1>0, LoadIs, Numbers DEF Load
\* Only the keeper that steps has accounts to settle.
<1>3. ASSUME NEW g, g.missing \in Nat, poolKeeper' = [poolKeeper EXCEPT ![k] = g], pool' \in [Inode -> Nat],
             slowKeepers = {} =>
               \A i \in Inode :
                 /\ Load(i)' <= Tokens + surplus
                 /\ g.phase = "sized" /\ g.at = i => Load(i)' <= Cardinality(WorkersAt(i)) + surplus
                 /\ g.phase = "counted" /\ g.at = i => Load(i)' + g.missing <= Tokens + surplus
      PROVE  Accounts'
  <2>1. \A j \in PoolKeeper : poolKeeper'[j] = IF j = k THEN g ELSE poolKeeper[j]
    BY <1>0, <1>3
  <2>2. slowKeepers = {} => \A j \in PoolKeeper : j # k => poolKeeper[j].phase \notin {"sized", "counted"}
    BY <1>2 DEF Alive
  <2>3. WorkersAt(poolKeeper[k].at)' = WorkersAt(poolKeeper[k].at)' /\ \A i : WorkersAt(i)' = WorkersAt(i)
    BY <1>1 DEF WorkersAt
  <2>4. LoadsFit'
    BY <1>1, <1>3 DEF LoadsFit
  <2>5. SizedFit'
    BY <1>1, <1>3, <2>1, <2>2, <2>3 DEF SizedFit
  <2>6. CountedFit'
    BY <1>1, <1>3, <2>1, <2>2 DEF CountedFit
  <2>7. QED
    BY <2>4, <2>5, <2>6 DEF Accounts
\* The step seen from a pipe.
<1>4. ASSUME NEW g, poolKeeper' = [poolKeeper EXCEPT ![k] = g], pool' \in [Inode -> Nat], NEW i \in Inode
      PROVE  /\ Load(i)' \in Nat
             /\ Load(i)' + pool[i] + HoldsAt(poolKeeper[k], i) = Load(i) + pool'[i] + HoldsAt(g, i)
  <2>1. Load(i)' = pool'[i] + InUse(i)' /\ pool'[i] \in Nat
    BY <1>4 DEF Load
  <2>2. HoldsAt(poolKeeper[k], i) \in Nat /\ HoldsAt(g, i) \in Nat
    BY DEF HoldsAt
  <2>3. /\ Cardinality(Holding(i)') + HoldsAt(poolKeeper[k], i) = Cardinality(Holding(i)) + HoldsAt(g, i)
        /\ Cardinality(Holding(i)') \in Nat
        /\ InUse(i)' = Cardinality(Testing(i)) + Cardinality(Holding(i)')
    BY <1>0, <1>1, <1>4, KeeperMoves
  <2>4. QED
    BY <1>b, <2>1, <2>2, <2>3
\* A step that only moves the record, past no top-up.
<1>5. ASSUME NEW g, g.missing \in Nat, poolKeeper' = [poolKeeper EXCEPT ![k] = g], pool' = pool,
             g.phase \notin {"sized", "counted", "holding"}
      PROVE  Accounts'
  <2>1. \A i \in Inode : Load(i)' <= Load(i) /\ Load(i)' \in Nat
    <3> SUFFICES ASSUME NEW i \in Inode PROVE Load(i)' <= Load(i) /\ Load(i)' \in Nat
      OBVIOUS
    <3>1. /\ Load(i)' \in Nat
          /\ Load(i)' + pool[i] + HoldsAt(poolKeeper[k], i) = Load(i) + pool'[i] + HoldsAt(g, i)
      BY <1>0, <1>4, <1>5
    <3>2. HoldsAt(g, i) = 0 /\ HoldsAt(poolKeeper[k], i) \in Nat
      BY <1>5 DEF HoldsAt
    <3>3. QED
      BY <1>b, <1>5, <3>1, <3>2
  <2>2. slowKeepers = {} => \A i \in Inode : Load(i)' <= Tokens + surplus
    BY <1>0, <1>b, <2>1 DEF Accounts, LoadsFit
  <2>3. QED
    BY <1>0, <1>3, <1>5, <2>2
<1>6. AfterTopUp(k).missing = 0 /\ AfterTopUp(k).at = poolKeeper[k].at /\ AfterTopUp(k).phase \in {"seeded", "probing"}
  <2> DEFINE p == IF poolKeeper[k].empty = 0 THEN "seeded" ELSE "probing"
  <2>1. AfterTopUp(k) = [poolKeeper[k] EXCEPT !.phase = p, !.empty = 0, !.missing = 0] /\ p \in {"seeded", "probing"}
    BY DEF AfterTopUp
  <2> HIDE DEF p
  <2>2. QED
    BY <1>0, <2>1 DEF KeeperRec
<1>7. CASE KeeperOpens(k)
  <2>1. pool' = pool
    BY <1>7 DEF KeeperOpens
  <2>2. CASE path = Nil
    <3> DEFINE g == [poolKeeper[k] EXCEPT !.phase = "dead"]
    <3>1. poolKeeper' = [poolKeeper EXCEPT ![k] = g] /\ g.phase = "dead" /\ g.missing \in Nat
      BY <1>0, <1>7, <2>2 DEF KeeperOpens, KeeperRec
    <3> HIDE DEF g
    <3>2. QED
      BY <1>5, <2>1, <3>1
  <2>3. CASE path # Nil
    <3> DEFINE g == [poolKeeper[k] EXCEPT !.phase = "seeding", !.at = path]
    <3>1. poolKeeper' = [poolKeeper EXCEPT ![k] = g] /\ g.phase = "seeding" /\ g.missing \in Nat
      BY <1>0, <1>7, <2>3 DEF KeeperOpens, KeeperRec
    <3> HIDE DEF g
    <3>2. QED
      BY <1>5, <2>1, <3>1
  <2>4. QED
    BY <2>2, <2>3
<1>8. CASE SizesPipe(k)
  <2>1. pool' = pool /\ poolKeeper[k].phase \in {"seeding", "probing"}
    BY <1>8 DEF SizesPipe
  <2>2. CASE pool[poolKeeper[k].at] > 0
    <3> DEFINE g == AfterTopUp(k)
    <3>1. poolKeeper' = [poolKeeper EXCEPT ![k] = g]
      BY <1>8, <2>2 DEF SizesPipe
    <3> HIDE DEF g
    <3>2. g.missing \in Nat /\ g.phase \notin {"sized", "counted", "holding"}
      BY <1>6 DEF g
    <3>3. QED
      BY <1>5, <2>1, <3>1, <3>2
  <2>3. CASE ~ (pool[poolKeeper[k].at] > 0)
    <3> DEFINE g == [poolKeeper[k] EXCEPT !.phase = "sized"]
    <3>0. g.phase = "sized" /\ g.missing \in Nat /\ g.at = poolKeeper[k].at
      BY <1>0 DEF KeeperRec
    <3>1. poolKeeper' = [poolKeeper EXCEPT ![k] = g]
      BY <1>8, <2>3 DEF SizesPipe
    <3> HIDE DEF g
    <3>2. ASSUME NEW i \in Inode PROVE Load(i)' = Load(i)
      <4>1. /\ Load(i)' \in Nat
            /\ Load(i)' + pool[i] + HoldsAt(poolKeeper[k], i) = Load(i) + pool'[i] + HoldsAt(g, i)
        BY <1>0, <1>4, <2>1, <3>1
      <4>2. HoldsAt(g, i) = 0 /\ HoldsAt(poolKeeper[k], i) = 0
        BY <2>1, <3>0 DEF HoldsAt
      <4>3. QED
        BY <1>b, <2>1, <4>1, <4>2
    <3>3. ASSUME slowKeepers = {}, NEW i \in Inode, g.at = i PROVE Load(i)' <= Cardinality(WorkersAt(i)) + surplus
      <4>1. pool[i] = 0
        BY <1>b, <2>3, <3>0, <3>3
      <4>2. Holding(i) = {}
        BY <1>2, <2>1, <3>3 DEF Holding, KeepersAt
      <4>3. Cardinality(Holding(i)) = 0 /\ Cardinality(Testing(i)) <= Cardinality(WorkersAt(i))
        BY <4>2, FS_EmptySet, LoadIs
      <4>4. QED
        BY <1>0, <1>b, <3>2, <4>1, <4>3
    <3>4. slowKeepers = {} => \A i \in Inode : Load(i)' <= Tokens + surplus
      BY <3>2 DEF Accounts, LoadsFit
    <3>5. QED
      BY <1>0, <1>3, <2>1, <3>0, <3>1, <3>3, <3>4
  <2>4. QED
    BY <2>2, <2>3
<1>9. CASE CountsHolders(k)
  <2> DEFINE g == [poolKeeper[k] EXCEPT !.phase = "counted", !.missing = Missing(k)]
  <2>1. /\ poolKeeper' = [poolKeeper EXCEPT ![k] = g] /\ g.phase = "counted" /\ pool' = pool
        /\ g.missing = Missing(k) /\ g.at = poolKeeper[k].at /\ poolKeeper[k].phase = "sized"
    BY <1>0, <1>9 DEF CountsHolders, KeeperRec
  <2> HIDE DEF g
  <2>2. ASSUME NEW i \in Inode PROVE Load(i)' = Load(i)
    <3>1. /\ Load(i)' \in Nat
          /\ Load(i)' + pool[i] + HoldsAt(poolKeeper[k], i) = Load(i) + pool'[i] + HoldsAt(g, i)
      BY <1>0, <1>4, <2>1
    <3>2. HoldsAt(g, i) = 0 /\ HoldsAt(poolKeeper[k], i) = 0
      BY <2>1 DEF HoldsAt
    <3>3. QED
      BY <1>b, <2>1, <3>1, <3>2
  <2>3. ASSUME slowKeepers = {}, NEW i \in Inode, g.at = i PROVE Load(i)' + g.missing <= Tokens + surplus
    <3>1. i = path /\ path # Nil
      BY <1>0, <1>1, <1>a, <2>1, <2>3 DEF OneKeeper
    <3>2. KeepersAt(path) \ {k} = {}
      BY <1>2, <2>3 DEF KeepersAt
    <3>3. Cardinality(KeepersAt(path) \ {k}) = 0
      BY <3>2, FS_EmptySet
    <3>4. Holders(k) = Cardinality(WorkersAt(i))
      BY <1>b, <3>1, <3>3 DEF Holders
    <3>5. Load(i) <= Cardinality(WorkersAt(i)) + surplus /\ Load(i) <= Tokens + surplus
      BY <2>1, <2>3 DEF Accounts, SizedFit, LoadsFit
    <3>6. CASE Cardinality(WorkersAt(i)) < Tokens
      <4>1. g.missing = Tokens - Cardinality(WorkersAt(i))
        BY <2>1, <3>4, <3>6 DEF Missing
      <4>2. QED
        BY <1>0, <1>b, <2>2, <3>5, <3>6, <4>1
    <3>7. CASE ~ (Cardinality(WorkersAt(i)) < Tokens)
      <4>1. g.missing = 0
        BY <2>1, <3>4, <3>7 DEF Missing
      <4>2. QED
        BY <1>0, <1>b, <2>2, <3>5, <4>1
    <3>8. QED
      BY <3>6, <3>7
  <2>4. slowKeepers = {} => \A i \in Inode : Load(i)' <= Tokens + surplus
    BY <2>2 DEF Accounts, LoadsFit
  <2>5. g.missing \in Nat
    BY <2>1, Numbers
  <2>6. QED
    BY <1>0, <1>3, <2>1, <2>3, <2>4, <2>5
<1>10. CASE Writes(k)
  <2> DEFINE g == AfterTopUp(k)
             m == poolKeeper[k].missing
  <2>1. /\ poolKeeper' = [poolKeeper EXCEPT ![k] = g] /\ poolKeeper[k].at \in Inode /\ m \in Nat
        /\ pool' = [pool EXCEPT ![poolKeeper[k].at] = pool[poolKeeper[k].at] + m]
        /\ poolKeeper[k].phase = "counted" /\ pool[poolKeeper[k].at] + m \in Nat
    BY <1>0, <1>10 DEF Writes, KeeperRec
  <2> HIDE DEF g, m
  <2>2. g.missing \in Nat /\ g.phase \notin {"sized", "counted", "holding"} /\ g.at = poolKeeper[k].at
    BY <1>6 DEF g
  <2>3. /\ pool' \in [Inode -> Nat]
        /\ \A i \in Inode : pool'[i] = IF i = poolKeeper[k].at THEN pool[poolKeeper[k].at] + m ELSE pool[i]
    BY <1>0, <2>1, PoolAt
  <2>4. ASSUME NEW i \in Inode, slowKeepers = {} PROVE Load(i)' <= Tokens + surplus
    <3>1. /\ Load(i)' \in Nat
          /\ Load(i)' + pool[i] + HoldsAt(poolKeeper[k], i) = Load(i) + pool'[i] + HoldsAt(g, i)
      BY <1>4, <2>1, <2>3
    <3>2. HoldsAt(g, i) = 0 /\ HoldsAt(poolKeeper[k], i) = 0
      BY <2>1, <2>2 DEF HoldsAt
    <3>3. Load(i) <= Tokens + surplus
      BY <2>4 DEF Accounts, LoadsFit
    <3>4. i = poolKeeper[k].at => Load(i) + m <= Tokens + surplus
      BY <2>1, <2>4 DEF Accounts, CountedFit, m
    <3>5. QED
      BY <1>0, <1>b, <2>1, <2>3, <3>1, <3>2, <3>3, <3>4
  <2>5. QED
    BY <1>3, <2>1, <2>2, <2>3, <2>4
<1>11. CASE WritesPid(k)
  <2> DEFINE g == [poolKeeper[k] EXCEPT !.phase = "probing"]
  <2>1. poolKeeper' = [poolKeeper EXCEPT ![k] = g] /\ g.phase = "probing" /\ g.missing \in Nat /\ pool' = pool
    BY <1>0, <1>11 DEF WritesPid, Keeps, KeeperRec
  <2> HIDE DEF g
  <2>2. QED
    BY <1>5, <2>1
<1>12. CASE Probes(k)
  <2>1. pool' = pool /\ poolKeeper[k].phase = "probing"
    BY <1>12 DEF Probes
  <2>2. CASE pool[poolKeeper[k].at] > 0
    <3> DEFINE g == [poolKeeper[k] EXCEPT !.phase = "readable"]
    <3>1. poolKeeper' = [poolKeeper EXCEPT ![k] = g] /\ g.phase = "readable" /\ g.missing \in Nat
      BY <1>0, <1>12, <2>2 DEF Probes, KeeperRec
    <3> HIDE DEF g
    <3>2. QED
      BY <1>5, <2>1, <3>1
  <2>3. CASE ~ (pool[poolKeeper[k].at] > 0)
    <3> DEFINE g == [poolKeeper[k] EXCEPT !.empty = poolKeeper[k].empty + 1]
    <3>1. poolKeeper' = [poolKeeper EXCEPT ![k] = g] /\ g.phase = "probing" /\ g.missing \in Nat
      BY <1>0, <1>12, <2>1, <2>3 DEF Probes, KeeperRec
    <3> HIDE DEF g
    <3>2. QED
      BY <1>5, <2>1, <3>1
  <2>4. QED
    BY <2>2, <2>3
\* A probe takes a byte and holds it, or puts it back.
<1>13. ASSUME NEW g, g.missing \in Nat, poolKeeper' = [poolKeeper EXCEPT ![k] = g], NEW n \in Nat,
              poolKeeper[k].at \in Inode, pool' = [pool EXCEPT ![poolKeeper[k].at] = n],
              g.phase \notin {"sized", "counted"},
              n + HoldsAt(g, poolKeeper[k].at)
                <= pool[poolKeeper[k].at] + HoldsAt(poolKeeper[k], poolKeeper[k].at),
              g.at \in {poolKeeper[k].at, Nil}
       PROVE  Accounts'
  <2>1. /\ pool' \in [Inode -> Nat]
        /\ \A i \in Inode : pool'[i] = IF i = poolKeeper[k].at THEN n ELSE pool[i]
    BY <1>0, <1>13, PoolAt
  <2>2. ASSUME NEW i \in Inode, slowKeepers = {} PROVE Load(i)' <= Tokens + surplus
    <3>1. /\ Load(i)' \in Nat
          /\ Load(i)' + pool[i] + HoldsAt(poolKeeper[k], i) = Load(i) + pool'[i] + HoldsAt(g, i)
      BY <1>4, <1>13, <2>1
    <3>2. HoldsAt(g, i) \in Nat /\ HoldsAt(poolKeeper[k], i) \in Nat
      BY DEF HoldsAt
    <3>3. pool'[i] + HoldsAt(g, i) <= pool[i] + HoldsAt(poolKeeper[k], i)
      <4>1. CASE i = poolKeeper[k].at
        BY <1>13, <2>1, <4>1
      <4>2. CASE i # poolKeeper[k].at
        <5>1. HoldsAt(g, i) = 0
          BY <1>a, <1>13, <4>2 DEF HoldsAt
        <5>2. QED
          BY <1>b, <2>1, <3>2, <4>2, <5>1
      <4>3. QED
        BY <4>1, <4>2
    <3>4. Load(i) <= Tokens + surplus
      BY <2>2 DEF Accounts, LoadsFit
    <3>5. QED
      BY <1>0, <1>b, <2>1, <3>1, <3>2, <3>3, <3>4
  <2>3. QED
    BY <1>3, <1>13, <2>1, <2>2
<1>14. CASE ProbeReads(k)
  <2>0. poolKeeper[k].at \in Inode /\ poolKeeper[k].phase = "readable"
    BY <1>0, <1>14 DEF ProbeReads, KeeperRec
  <2>1. CASE pool[poolKeeper[k].at] > 0
    <3> DEFINE g == [poolKeeper[k] EXCEPT !.phase = "holding"]
    <3>1. /\ poolKeeper' = [poolKeeper EXCEPT ![k] = g] /\ g.phase = "holding" /\ g.missing \in Nat
          /\ g.at = poolKeeper[k].at
      BY <1>0, <1>14, <2>1 DEF ProbeReads, Keeps, KeeperRec
    <3> HIDE DEF g
    <3>2. /\ pool' = [pool EXCEPT ![poolKeeper[k].at] = pool[poolKeeper[k].at] - 1]
          /\ pool[poolKeeper[k].at] - 1 \in Nat
      BY <1>0, <1>14, <2>0, <2>1 DEF ProbeReads
    <3>3. HoldsAt(g, poolKeeper[k].at) = 1 /\ HoldsAt(poolKeeper[k], poolKeeper[k].at) = 0
      BY <2>0, <3>1 DEF HoldsAt
    <3>4. (pool[poolKeeper[k].at] - 1) + 1 <= pool[poolKeeper[k].at] + 0
      BY <1>0, <2>0
    <3>5. QED
      BY <1>13, <2>0, <3>1, <3>2, <3>3, <3>4
  <2>2. CASE ~ (pool[poolKeeper[k].at] > 0)
    <3> DEFINE g == [poolKeeper[k] EXCEPT !.phase = "probing", !.empty = 0]
    <3>0. g.phase = "probing" /\ g.missing \in Nat
      BY <1>0 DEF KeeperRec
    <3>1. poolKeeper' = [poolKeeper EXCEPT ![k] = g] /\ pool' = pool
      <4>1. poolKeeper' = [poolKeeper EXCEPT ![k].phase = "probing", ![k].empty = 0] /\ pool' = pool
        BY <1>14, <2>2 DEF ProbeReads
      <4>2. QED
        BY <1>0, <4>1
    <3> HIDE DEF g
    <3>2. QED
      BY <1>5, <3>0, <3>1
  <2>3. QED
    BY <2>1, <2>2
<1>15. CASE ProbeWrites(k)
  <2>0. poolKeeper[k].at \in Inode /\ poolKeeper[k].phase = "holding"
    BY <1>0, <1>15 DEF ProbeWrites, KeeperRec
  <2> DEFINE g == [poolKeeper[k] EXCEPT !.phase = "probing", !.empty = 0]
  <2>1. g.phase = "probing" /\ g.missing \in Nat /\ g.at = poolKeeper[k].at
    BY <1>0 DEF KeeperRec
  <2>7. poolKeeper' = [poolKeeper EXCEPT ![k] = g]
    <3>1. poolKeeper' = [poolKeeper EXCEPT ![k].phase = "probing", ![k].empty = 0]
      BY <1>15 DEF ProbeWrites
    <3>2. QED
      BY <1>0, <3>1
  <2> HIDE DEF g
  <2>2. pool' = [pool EXCEPT ![poolKeeper[k].at] = pool[poolKeeper[k].at] + 1]
    BY <1>15 DEF ProbeWrites, PutsBack
  <2>3. pool[poolKeeper[k].at] + 1 \in Nat
    BY <1>0, <2>0
  <2>4. HoldsAt(g, poolKeeper[k].at) = 0 /\ HoldsAt(poolKeeper[k], poolKeeper[k].at) = 1
    BY <2>0, <2>1 DEF HoldsAt
  <2>5. (pool[poolKeeper[k].at] + 1) + 0 <= pool[poolKeeper[k].at] + 1
    BY <1>0, <2>0
  <2>6. QED
    BY <1>13, <2>0, <2>1, <2>2, <2>3, <2>4, <2>5, <2>7
<1>16. CASE KeeperKilled(k)
  <2> DEFINE g == [phase |-> "dead", at |-> Nil, empty |-> 0, missing |-> 0]
  <2>1. poolKeeper' = [poolKeeper EXCEPT ![k] = g] /\ g.phase = "dead" /\ g.missing = 0 /\ g.at = Nil
    BY <1>16 DEF KeeperKilled
  <2> HIDE DEF g
  <2>2. /\ pool' \in [Inode -> Nat]
        /\ \A i \in Inode : pool'[i] <= pool[i]
    BY <1>0, <1>16, LeftIsLess DEF KeeperKilled
  <2>3. ASSUME NEW i \in Inode, slowKeepers = {} PROVE Load(i)' <= Tokens + surplus
    <3>1. /\ Load(i)' \in Nat
          /\ Load(i)' + pool[i] + HoldsAt(poolKeeper[k], i) = Load(i) + pool'[i] + HoldsAt(g, i)
      BY <1>4, <2>1, <2>2
    <3>2. HoldsAt(g, i) = 0 /\ HoldsAt(poolKeeper[k], i) \in Nat
      BY <2>1 DEF HoldsAt
    <3>3. Load(i) <= Tokens + surplus /\ pool'[i] \in Nat /\ pool'[i] <= pool[i]
      BY <2>2, <2>3 DEF Accounts, LoadsFit
    <3>4. QED
      BY <1>0, <1>b, <3>1, <3>2, <3>3
  <2>4. g.missing \in Nat /\ g.phase \notin {"sized", "counted"}
    BY <2>1
  <2>5. QED
    BY <1>3, <2>1, <2>2, <2>3, <2>4
<1>17. QED
  BY <1>7, <1>8, <1>9, <1>10, <1>11, <1>12, <1>14, <1>15, <1>16 DEF KeeperRuns

\* The steps of `init` move no byte and no worker.
LEMMA InitKeepsAccounts ==
  ASSUME JobTypeOK, PipesOK, Accounts,
         InitLooks \/ InitMakes \/ InitFindsItsKeeper \/ InitGivesUp
  PROVE  Accounts'
<1>0. /\ poolKeeper \in [PoolKeeper -> KeeperRec] /\ spawned \in Nat /\ Nil \notin Inode
  BY JobServerAssumption DEF JobTypeOK, KeeperRec, KeeperPhases, Inode, Nil
<1>1. pool' = pool /\ tester' = tester /\ surplus' = surplus /\ (slowKeepers' = {} => slowKeepers = {})
  BY DEF InitLooks, InitMakes, InitFindsItsKeeper, InitGivesUp, marks
<1>2. poolKeeper' = poolKeeper \/ \E next : StartsKeeper(next)
  BY DEF InitLooks, InitMakes, InitFindsItsKeeper, InitGivesUp
<1>3. \A k \in PoolKeeper :
        \/ poolKeeper'[k] = poolKeeper[k]
        \/ poolKeeper[k].at = Nil /\ poolKeeper'[k].at = Nil /\ poolKeeper'[k].phase = "spawned"
  <2>1. CASE poolKeeper' = poolKeeper
    BY <2>1
  <2>2. ASSUME NEW next, StartsKeeper(next), NEW k \in PoolKeeper
        PROVE  \/ poolKeeper'[k] = poolKeeper[k]
               \/ poolKeeper[k].at = Nil /\ poolKeeper'[k].at = Nil /\ poolKeeper'[k].phase = "spawned"
    <3>1. CASE k = spawned + 1
      <4>1. poolKeeper[k].phase = "none" /\ poolKeeper[k] \in KeeperRec /\ poolKeeper[k].at = Nil
        BY <1>0, <3>1, JobServerAssumption DEF PipesOK, PoolKeeper
      <4> DEFINE g == [poolKeeper[k] EXCEPT !.phase = "spawned"]
      <4>2. poolKeeper' = [poolKeeper EXCEPT ![k] = g] /\ g.at = poolKeeper[k].at /\ g.phase = "spawned"
        BY <1>0, <2>2, <3>1, <4>1 DEF StartsKeeper, KeeperRec
      <4> HIDE DEF g
      <4>3. QED
        BY <1>0, <4>1, <4>2
    <3>2. CASE k # spawned + 1
      BY <1>0, <2>2, <3>2 DEF StartsKeeper
    <3>3. QED
      BY <3>1, <3>2
  <2>3. QED
    BY <1>2, <2>1, <2>2
<1>4. \A i : WorkersAt(i)' = WorkersAt(i) /\ Testing(i)' = Testing(i)
  BY <1>1 DEF WorkersAt, Testing
<1>5. \A i \in Inode : Holding(i)' = Holding(i)
  BY <1>0, <1>3 DEF Holding, KeepersAt, Alive
<1>6. \A i \in Inode : InUse(i)' = InUse(i)
  BY <1>4, <1>5 DEF InUse, Testing, Holding
<1>7. \A i \in Inode : Load(i)' = Load(i)
  BY <1>1, <1>6 DEF Load
<1>8. LoadsFit'
  BY <1>1, <1>7 DEF Accounts, LoadsFit
<1>9. SizedFit'
  BY <1>0, <1>1, <1>3, <1>4, <1>7 DEF Accounts, SizedFit
<1>10. CountedFit'
  BY <1>0, <1>1, <1>3, <1>7 DEF Accounts, CountedFit
<1>11. QED
  BY <1>8, <1>9, <1>10 DEF Accounts

LEMMA AccountsStay ==
  ASSUME JobTypeOK, PipesOK, OneKeeper, Accounts, [JobNext]_jobVars PROVE Accounts'
<1>1. CASE UNCHANGED jobVars
  <2>1. UNCHANGED <<pool, tester, poolKeeper, surplus, slowKeepers>>
    BY <1>1 DEF jobVars, marks
  <2>2. \A i : WorkersAt(i)' = WorkersAt(i) /\ InUse(i)' = InUse(i) /\ Load(i)' = Load(i)
    BY <2>1 DEF WorkersAt, InUse, KeepersAt, Alive, Load
  <2>3. QED
    BY <2>1, <2>2 DEF Accounts, LoadsFit, SizedFit, CountedFit
<1>2. QED
  BY <1>1, WorkerKeepsAccounts, KeeperKeepsAccounts, InitKeepsAccounts DEF JobNext

JobInv == /\ JobTypeOK /\ PipesOK
          /\ NobodyIsParkedForEver /\ NobodyAtOldPipe
          /\ OneKeeper /\ Accounts

LEMMA JobInvInit == JobInit => JobInv
BY JobTypesInit, ParkedInit, OneKeeperInit, AccountsInit DEF JobInv

LEMMA JobStays == ASSUME JobInv, [JobNext]_jobVars PROVE JobInv'
<1>1. JobTypeOK' /\ PipesOK'
  BY JobTypesStay DEF JobInv
<1>2. NobodyIsParkedForEver' /\ NobodyAtOldPipe'
  BY ParkedStays DEF JobInv
<1>3. OneKeeper' /\ Accounts'
  BY OneKeeperStays, AccountsStay DEF JobInv
<1>4. QED
  BY <1>1, <1>2, <1>3 DEF JobInv

LEMMA JobInvGives == JobInv => JobTypeOK /\ NeverInflated /\ NobodyIsParkedForEver
BY DEF JobInv, Accounts, LoadsFit, Load, NeverInflated

-----------------------------------------------------------------------------
(* All of them together. *)

CommandsInv == StreamInv /\ StartInv /\ MappingInv /\ JobInv

\* A step of one part is that part's, and leaves the others where they are.
LEMMA PartsStep ==
  ASSUME [CommandsNext]_commandVars
  PROVE  /\ [StreamNext]_streamVars /\ [StartNext]_startVars
         /\ [MappingNext]_mappingVars /\ [JobNext]_jobVars
BY DEF CommandsNext, StreamStep, StartStep, MappingStep, JobsStep, commandVars

LEMMA CommandsInvInit == CommandsInit => CommandsInv
BY StreamInitInv, StartInitInv, MappingInitInv, JobInvInit DEF CommandsInit, CommandsInv

LEMMA CommandsInvStays == ASSUME CommandsInv, [CommandsNext]_commandVars PROVE CommandsInv'
BY PartsStep, StreamStays, StartStays, MappingStays, JobStays DEF CommandsInv

LEMMA CommandsInvGives ==
  CommandsInv => /\ CommandsTypeOK
                 /\ StreamHolds /\ NoNodeIsLost /\ EnsuringEndsInTime
                 /\ (2 * Startup < Deadline => TheWinnerIsFound)
                 /\ ChildrenHold
BY StreamInvGives, StartInvGives, MappingInvGives, JobInvGives
   DEF CommandsInv, CommandsTypeOK, ChildrenHold

LEMMA CommandsInvAlways == CommandsSpec => []CommandsInv
BY CommandsInvInit, CommandsInvStays, PTL DEF CommandsSpec

\* Every variable of the processes around a node keeps its type.
THEOREM CommandsTypesCorrect == CommandsSpec => []CommandsTypeOK
BY CommandsInvAlways, CommandsInvGives, PTL

\* Whoever follows a run has printed every event it had when it ended, by pages
\* that neither skip nor repeat; the record of a run that was not stopped counts
\* its whole stream; a node that serves is in the record or its command still
\* waits for it; a command stops waiting in its time; and a node that takes less than
\* half of that time to bind and to answer is found by whoever lost the port to
\* it (the code waits 20 s, cli.py:831, for what takes one or two).
THEOREM CommandsAreAnsweredRight == 2 * Startup < Deadline => (CommandsSpec => []CommandsHold)
<1> SUFFICES ASSUME 2 * Startup < Deadline PROVE CommandsSpec => []CommandsHold
  OBVIOUS
<1>1. CommandsInv => CommandsHold
  BY CommandsInvGives DEF CommandsHold
<1>2. QED
  BY <1>1, CommandsInvAlways, PTL

\* No mapping is served by a child whose console is gone, unless it died where
\* none of its code runs; the pipe the tests share never carries more tokens
\* than it was made with but for a top-up's window, however many workers and
\* keepers are killed; and no worker waits at a pipe that `init` replaced, but
\* for who opened it as that happened.
THEOREM ChildrenAreKept == CommandsSpec => []ChildrenHold
BY CommandsInvAlways, CommandsInvGives, PTL
=============================================================================
