------------------------------- MODULE EventStream -------------------------------
(***************************************************************************)
(* The event stream between the daemon and a page of the web client: the   *)
(* sequence counter with its reservation on disk and the ring buffer       *)
(* (assistant-stream-state.ts), publication (assistant-event-hub.ts), a    *)
(* connection with replay and back-pressure (events-routes.ts), and the    *)
(* client's cursor, gap detection and idempotent apply                     *)
(* (sse-event-consumer.ts), its reconnects (sse-service.ts,                *)
(* reconcile-on-reopen.ts), its cold start (cold-anchor.ts) and its merge  *)
(* with the rows of the conversation (use-message-reconciliation.ts,       *)
(* reconcile-with-seq.ts).                                                 *)
(*                                                                         *)
(* Events are named by their position in log.  The ring holds those after  *)
(* evicted.  A piece of content belongs to a message row; only the pieces  *)
(* a row or the page holds matter, not their text.                         *)
(*                                                                         *)
(* Abstracted: heartbeats, the age and size of the ring's entries (the     *)
(* oldest may go at any time), epochs (a fetch of an earlier one is        *)
(* stale).  The reservation is always written; the client's branch for a   *)
(* counter that went back is then dead (NeverBackwards).                   *)
(***************************************************************************)
EXTENDS Naturals, Sequences, FiniteSets

CONSTANTS
  Kinds,          \* of events: content and signal (of the open conversation),
                  \* other (conversations), hidden (meant for another client)
  RingLimit,      \* RING_COUNT_LIMIT
  Block,          \* SEQ_RESERVATION_BLOCK
  HighWater,      \* bound: unread events on a connection that is sent to
  MaxPieces,      \* bound: pieces of content
  MaxRows,        \* bound: message rows, and one more after a restart
  MaxSignals,     \* bound: events that are not content
  MaxFaults,      \* bound: restarts, connections that break, requests that fail
  None

ASSUME EventStreamAssumption ==
  /\ Kinds \subseteq {"content", "signal", "other", "hidden"}
  /\ RingLimit \in Nat \ {0}
  /\ Block \in Nat \ {0}
  /\ HighWater \in Nat \ {0}
  /\ MaxPieces \in Nat
  /\ MaxRows \in Nat
  /\ MaxSignals \in Nat
  /\ MaxFaults \in Nat
  /\ None \notin Nat

VARIABLES
  log,            \* every event stamped: its seq, its kind and its message row
  booted,         \* events of earlier processes
  disk,           \* the ceiling reserved in stream-seq.json (0: no file)
  evicted,        \* events that have left the ring
  writing,        \* the row that content goes to (0: none yet)
  rows,           \* content in the rows of the database
  saved,          \* persistedSeqByConversation (0: none)
  subscribed,     \* is the connection in the hub
  pipe,           \* events sent on the connection and not read yet
  link,           \* the client's connection: down, asked, up
  cursor,         \* reconnectCursor
  latestGap,      \* latestGapSeq
  localSeq,       \* localSeqByConversation (0: none)
  shown,          \* content on the page
  fetch,          \* requests for the rows: history, gap and reopen reconciles
  taken,          \* content the page has ever shown
  base,           \* where the client's cursor began
  lost,           \* events stamped when a connection was last lost (0: all told)
  told,           \* events stamped when the rows of the latest reconcile were read
  faultsLeft      \* what is left of MaxFaults

daemon == <<log, booted, disk, evicted, writing>>
stored == <<rows, saved>>
connection == <<subscribed, pipe>>
position == <<cursor, latestGap, base>>
screen == <<localSeq, shown, taken>>
vars == <<daemon, stored, connection, link, position, screen, lost, told, fetch, faultsLeft>>

Fetches == {"history", "gap", "reopen"}
NoRows == [state |-> "idle", stale |-> FALSE, rows |-> {}, seq |-> 0, at |-> 0]
Asked == [NoRows EXCEPT !.state = "asked"]

Fault == faultsLeft > 0 /\ faultsLeft' = faultsLeft - 1
Larger(a, b) == IF a > b THEN a ELSE b
Content == {e \in 1..Len(log) : log[e].kind = "content"}

Init ==
  /\ log = <<>>
  /\ booted = 0
  /\ disk = 0
  /\ evicted = 0
  /\ writing = 0
  /\ rows = {}
  /\ saved = 0
  /\ subscribed = FALSE
  /\ pipe = <<>>
  /\ link = "asked"
  /\ cursor = None
  /\ latestGap = None
  /\ localSeq = 0
  /\ shown = {}
  /\ taken = {}
  /\ base = 0
  /\ lost = 0
  /\ told = 0
  /\ fetch = [f \in Fetches |-> IF f = "history" THEN Asked ELSE NoRows]
  /\ faultsLeft = MaxFaults

(***************************************************************************)
(* The daemon.                                                             *)
(***************************************************************************)
\* Broken: a restarted counter begins at the ceiling it finds.
NextSeqAtCeiling ==
  IF booted = Len(log) THEN Larger(disk, 1) ELSE log[Len(log)].seq + 1
\* The first stamp of a process goes on above what earlier ones reserved.
NextSeq == IF booted = Len(log) THEN disk + 1 ELSE log[Len(log)].seq + 1

\* Broken: an event that finds the queue full is left out.
SendsUnlessFull ==
  \/ pipe' = Append(pipe, Len(log) + 1) /\ Len(pipe) < HighWater /\ UNCHANGED subscribed
  \/ Len(pipe) >= HighWater /\ UNCHANGED <<pipe, subscribed>>
\* The connection's callback.  A queue that is full, if only of heartbeats, ends
\* the subscription; what it holds can still be read.
Sends ==
  \/ /\ Len(pipe) < HighWater
     /\ pipe' = Append(pipe, Len(log) + 1)
     /\ UNCHANGED subscribed
  \/ /\ subscribed' = FALSE
     /\ UNCHANGED pipe

\* broadcastMessage: the event is stamped and put into the ring, then the
\* chain publishes it.  No subscriber waits, so the chain runs to its end before
\* the daemon turns to a request or a timer.
Broadcast(kind, row) ==
  /\ log' = Append(log, [seq |-> NextSeq, kind |-> kind, row |-> row])
  /\ disk' = IF NextSeq > disk THEN NextSeq + Block - 1 ELSE disk
  /\ evicted' = Larger(evicted, Len(log) + 1 - RingLimit)
  /\ IF subscribed /\ kind # "hidden" THEN Sends ELSE UNCHANGED <<subscribed, pipe>>
  /\ UNCHANGED <<booted, stored, link, position, screen, lost, told, fetch, faultsLeft>>

Unsaved == {e \in Content : e > booted} \ rows

\* A piece of the row being written, or of the next one: a row is complete, and
\* written, before another begins.
Delta ==
  \E row \in {writing, writing + 1} \cap 1..(IF booted = 0 THEN MaxRows ELSE MaxRows + 1) :
    /\ "content" \in Kinds /\ Cardinality(Content) < MaxPieces
    /\ row = writing \/ Unsaved = {}
    /\ writing' = row
    /\ Broadcast("content", row)

Signal ==
  /\ Len(log) < Cardinality(Content) + MaxSignals
  /\ \E kind \in Kinds \ {"content"} : Broadcast(kind, 0)
  /\ UNCHANGED writing

\* Broken: an entry more is taken than the ring has.
EvictEmpty ==
  /\ evicted' = evicted + 1
  /\ UNCHANGED <<log, booted, disk, writing, stored, connection, link, position,
                 screen, lost, told, fetch, faultsLeft>>
\* The oldest entry is too old, or the ring too large.
Evict ==
  /\ evicted < Len(log)
  /\ evicted' = evicted + 1
  /\ UNCHANGED <<log, booted, disk, writing, stored, connection, link, position,
                 screen, lost, told, fetch, faultsLeft>>

\* A heartbeat finds the queue full.
HeartbeatSheds ==
  /\ subscribed
  /\ Fault
  /\ subscribed' = FALSE
  /\ UNCHANGED <<daemon, stored, pipe, link, position, screen, lost, told, fetch>>

\* The debounced write of the content mirrored so far, and its position.
Flush ==
  /\ Unsaved # {}
  /\ rows' = rows \cup Unsaved
  /\ saved' = log[CHOOSE e \in Unsaved : \A d \in Unsaved : d <= e].seq
  /\ UNCHANGED <<daemon, connection, link, position, screen, lost, told, fetch, faultsLeft>>

\* The daemon dies and starts: what is in memory goes, and what the connection
\* had not passed on.  The row under way is not continued.
Crash ==
  /\ Fault
  /\ booted' = Len(log)
  /\ evicted' = Len(log)
  /\ writing' = IF writing \in {log[e].row : e \in (booted + 1)..Len(log)} THEN writing + 1 ELSE writing
  /\ saved' = 0
  /\ subscribed' = FALSE
  /\ \E n \in 0..Len(pipe) : pipe' = SubSeq(pipe, 1, n)
  /\ UNCHANGED <<log, disk, rows, link, position, screen, lost, told, fetch>>

\* A cursor of an earlier process: is all that this one stamped in the ring.
CoversRestartGap(since) == since < log[booted + 1].seq /\ evicted = booted

\* The buffer is in order; so are the events chosen from it.
OldestFirst(S) ==
  [i \in 1..Cardinality(S) |-> CHOOSE e \in S : Cardinality({d \in S : d <= e}) = i]

\* getReplayWindow: from nothing at all, to all events after the cursor.
Window(since) ==
  LET complete == \/ since >= log[evicted + 1].seq - 1
                  \/ CoversRestartGap(since)
      newer == {e \in (evicted + 1)..Len(log) :
                  log[e].seq > since /\ log[e].kind # "hidden"}
  IN IF evicted < Len(log) /\ complete THEN OldestFirst(newer) ELSE <<>>

\* The request for events: subscribed first, then the replay is drained.  A
\* request that fails before its first frame has not been made.
Attach ==
  /\ link = "asked"
  /\ link' = "up"
  /\ subscribed' = TRUE
  /\ pipe' = IF cursor = None THEN <<>> ELSE Window(cursor)
  /\ UNCHANGED <<daemon, stored, position, screen, lost, told, fetch, faultsLeft>>

(***************************************************************************)
(* The client reads.                                                       *)
(***************************************************************************)
\* An event of the open conversation is applied unless it is a repeat.
Apply(e) ==
  IF log[e].kind \in {"content", "signal"} /\ log[e].seq > localSeq
    THEN /\ localSeq' = log[e].seq
         /\ shown' = IF e \in Content THEN shown \cup {e} ELSE shown
         /\ taken' = taken \cup shown'
    ELSE UNCHANGED screen

\* Has the stream jumped over something.
IsGap(seq) == cursor # None /\ seq > cursor + 1

\* handleSseEvent, with the cursor's first value or its next.
ReadNext ==
  LET e == pipe[1] IN
  /\ pipe # <<>>
  /\ ~IsGap(log[e].seq)
  /\ Apply(e)
  /\ cursor' = IF cursor = None THEN log[e].seq ELSE Larger(cursor, log[e].seq)
  /\ base' = IF cursor = None THEN log[e].seq - 1 ELSE base
  /\ pipe' = Tail(pipe)
  /\ UNCHANGED <<daemon, stored, subscribed, link, latestGap, lost, told, fetch, faultsLeft>>

\* handleSseEvent, with a jump: the cursor stays, and one reconcile is asked for.
ReadGap ==
  LET e == pipe[1] IN
  /\ pipe # <<>>
  /\ IsGap(log[e].seq)
  /\ Apply(e)
  /\ latestGap' = log[e].seq
  /\ fetch' = IF fetch["gap"].state = "idle" THEN [fetch EXCEPT !["gap"] = Asked] ELSE fetch
  /\ pipe' = Tail(pipe)
  /\ UNCHANGED <<daemon, stored, subscribed, link, cursor, base, lost, told, faultsLeft>>

\* The daemon has closed the response and it is read to its end.
Ended ==
  /\ link = "up"
  /\ ~subscribed
  /\ pipe = <<>>
  /\ link' = "down"
  /\ lost' = Len(log)
  /\ UNCHANGED <<daemon, stored, connection, position, screen, told, fetch, faultsLeft>>

\* The connection breaks, the watchdog aborts it, or the page is hidden.
Break ==
  /\ link = "up"
  /\ Fault
  /\ link' = "down"
  /\ lost' = Len(log)
  /\ pipe' = <<>>
  /\ subscribed' = FALSE
  /\ UNCHANGED <<daemon, stored, position, screen, told, fetch>>

\* A new epoch: what a reconcile under way brings will be thrown away, and the
\* polling of the last epoch ends.
NewEpoch(reopen) ==
  [fetch EXCEPT !["gap"] = IF @.state = "idle" THEN @ ELSE [Asked EXCEPT !.stale = TRUE],
                !["reopen"] = reopen]

\* Broken: the rows are not fetched.
ReopenQuietly ==
  /\ link = "down"
  /\ link' = "asked"
  /\ fetch' = NewEpoch(NoRows)
  /\ UNCHANGED <<daemon, stored, connection, position, screen, lost, told, faultsLeft>>
\* A request from the cursor, on a stream that had been open or is a new one;
\* the rows are fetched beside it.
Reopen ==
  /\ link = "down"
  /\ link' = "asked"
  /\ fetch' = NewEpoch(Asked)
  /\ UNCHANGED <<daemon, stored, connection, position, screen, lost, told, faultsLeft>>

(***************************************************************************)
(* The client fetches rows.                                                *)
(***************************************************************************)
\* Broken: the rows come with the newest position of the stream.
AnswerAtNewest(f) ==
  /\ fetch[f].state = "asked"
  /\ ~fetch[f].stale
  /\ fetch' = [fetch EXCEPT ![f] =
       [state |-> "answered", stale |-> FALSE, rows |-> rows,
        seq |-> IF log = <<>> THEN 0 ELSE log[Len(log)].seq, at |-> Len(log)]]
  /\ UNCHANGED <<daemon, stored, connection, link, position, screen, lost, told, faultsLeft>>
\* GET /messages: the rows, and how far they have followed the stream.
Answer(f) ==
  /\ fetch[f].state = "asked"
  /\ ~fetch[f].stale
  /\ fetch' = [fetch EXCEPT ![f] =
       [state |-> "answered", stale |-> FALSE, rows |-> rows, seq |-> saved, at |-> Len(log)]]
  /\ UNCHANGED <<daemon, stored, connection, link, position, screen, lost, told, faultsLeft>>

\* Does the row stay as the page has it: the rows fetched do not have it, or
\* they are behind the stream.
Keeps(f, row) ==
  \/ row \notin {log[e].row : e \in 1..fetch[f].at}
  \/ /\ fetch[f].seq # 0
     /\ fetch[f].seq < localSeq
     /\ \E e \in shown : log[e].row = row

\* reconcileMessagesWithSeq, and the frontier.
Merge(f) ==
  /\ shown' = {e \in shown : Keeps(f, log[e].row)}
                \cup {e \in fetch[f].rows : ~Keeps(f, log[e].row)}
  /\ taken' = taken \cup shown'
  /\ localSeq' = Larger(localSeq, fetch[f].seq)

\* For the properties: what a reconcile has taken into account.
Repairs(f) ==
  /\ told' = Larger(told, fetch[f].at)
  /\ lost' = IF told' < lost THEN lost ELSE 0

\* The rows of a conversation just opened replace what the page shows.
Replace(f) ==
  /\ shown' = fetch[f].rows
  /\ taken' = taken \cup shown'
  /\ localSeq' = Larger(localSeq, fetch[f].seq)

\* The page's first rows while the cursor stands, or without a position.
HistoryShown ==
  /\ fetch["history"].state = "answered"
  /\ cursor # None \/ fetch["history"].seq = 0
  /\ Replace("history")
  /\ fetch' = [fetch EXCEPT !["history"] = NoRows]
  /\ UNCHANGED <<daemon, stored, connection, link, position, lost, told, faultsLeft>>

\* The same while the connection is cold: the cursor is set to the rows'
\* position and the connection, if there is one, opened anew from there.
HistoryAnchors ==
  LET history == fetch["history"] IN
  /\ history.state = "answered"
  /\ cursor = None /\ history.seq # 0
  /\ Replace("history")
  /\ cursor' = history.seq
  /\ base' = history.seq
  /\ \/ /\ link' = "asked"
        /\ pipe' = <<>>
        /\ subscribed' = FALSE
        /\ fetch' = [NewEpoch(NoRows) EXCEPT !["history"] = NoRows]
     \/ /\ link = "down"
        /\ fetch' = [fetch EXCEPT !["history"] = NoRows]
        /\ UNCHANGED <<link, connection>>
  /\ UNCHANGED <<daemon, stored, latestGap, lost, told, faultsLeft>>

\* The gap's reconcile ends: the cursor jumps, unless the epoch is another.
GapClosed ==
  /\ fetch["gap"].state = "answered"
  /\ Merge("gap")
  /\ Repairs("gap")
  /\ cursor' = latestGap
  /\ latestGap' = None
  /\ fetch' = [fetch EXCEPT !["gap"] = NoRows]
  /\ UNCHANGED <<daemon, stored, connection, link, base, faultsLeft>>

\* Broken: the cursor jumps all the same.
GapOutdatedJumps ==
  /\ fetch["gap"].stale
  /\ cursor' = latestGap
  /\ latestGap' = None
  /\ fetch' = [fetch EXCEPT !["gap"] = NoRows]
  /\ UNCHANGED <<daemon, stored, connection, link, base, screen, lost, told, faultsLeft>>
\* The same in another epoch, whatever the answer: nothing of it is used.
GapOutdated ==
  /\ fetch["gap"].stale
  /\ fetch' = [fetch EXCEPT !["gap"] = NoRows]
  /\ UNCHANGED <<daemon, stored, connection, link, position, screen, lost, told, faultsLeft>>

\* The gap's request fails: the cursor stays, and the next event asks again.
GapFails ==
  /\ fetch["gap"].state = "asked"
  /\ ~fetch["gap"].stale
  /\ Fault
  /\ fetch' = [fetch EXCEPT !["gap"] = NoRows]
  /\ UNCHANGED <<daemon, stored, connection, link, position, screen, lost, told>>

\* The reconcile of a reopen, then the polling that it starts, until it settles.
Reconciled ==
  /\ fetch["reopen"].state = "answered"
  /\ Merge("reopen")
  /\ Repairs("reopen")
  /\ \E next \in {Asked, NoRows} : fetch' = [fetch EXCEPT !["reopen"] = next]
  /\ UNCHANGED <<daemon, stored, connection, link, position, faultsLeft>>

Next ==
  \/ Delta \/ Signal \/ Evict \/ HeartbeatSheds \/ Flush \/ Crash
  \/ Attach \/ ReadNext \/ ReadGap \/ Ended \/ Break \/ Reopen
  \/ \E f \in Fetches : Answer(f)
  \/ HistoryShown \/ HistoryAnchors
  \/ GapClosed \/ GapOutdated \/ GapFails \/ Reconciled

Spec == Init /\ [][Next]_vars

\* A connection is read to its end and opened again, and the reconciles'
\* requests are answered; nobody has to send events, nothing has to break.  At most one of
\* the steps joined here is possible at a time.
Fairness ==
  /\ WF_vars(Attach \/ ReadNext \/ ReadGap \/ Ended \/ Reopen)
  /\ WF_vars(Answer("gap") \/ GapClosed \/ GapOutdated)
  /\ WF_vars(Answer("reopen") \/ Reconciled)

FairSpec == Spec /\ Fairness

DaemonTypes ==
  /\ log \in Seq([seq : Nat \ {0}, kind : Kinds, row : Nat])
  /\ booted \in 0..Len(log)
  /\ disk \in Nat
  /\ evicted \in booted..Len(log)
  /\ writing \in Nat
  /\ rows \subseteq Content
  /\ saved \in Nat

ConnectionTypes ==
  /\ subscribed \in BOOLEAN
  /\ pipe \in Seq(1..Len(log))
  /\ link \in {"down", "asked", "up"}
  /\ cursor \in Nat \cup {None}
  /\ latestGap \in Nat \cup {None}
  /\ base \in Nat

PageTypes ==
  /\ localSeq \in Nat
  /\ shown \subseteq Content
  /\ taken \subseteq Content
  /\ lost \in 0..Len(log)
  /\ told \in 0..Len(log)
  /\ faultsLeft \in 0..MaxFaults

FetchTypes ==
  fetch \in [Fetches -> [state : {"idle", "asked", "answered"}, stale : BOOLEAN,
                         rows : SUBSET Content, seq : Nat, at : 0..Len(log)]]

\* Everything keeps its type; in particular the ring begins at this process's
\* events and ends at the newest.
TypeOK == DaemonTypes /\ ConnectionTypes /\ PageTypes /\ FetchTypes

(***************************************************************************)
(* Properties.                                                             *)
(***************************************************************************)
\* What a connection still has to read is a run of the stream, oldest first,
\* with no event but those meant for others missing, and up to the newest while
\* the connection is subscribed: replay and live events join without a gap or a
\* repeat (events-routes.ts), and a queue that is full ends the connection
\* instead of dropping one event of it (assistant-event-hub.ts).
Contiguous ==
  /\ \A i \in 1..(Len(pipe) - 1) :
       /\ pipe[i] < pipe[i + 1]
       /\ \A e \in (pipe[i] + 1)..(pipe[i + 1] - 1) : log[e].kind = "hidden"
  /\ subscribed /\ pipe # <<>> =>
       \A e \in (pipe[Len(pipe)] + 1)..Len(log) : log[e].kind = "hidden"

\* Whatever restarts and reconnects, the client is sent only events above its
\* cursor: numbers are never used twice, also when the process dies between two
\* reservations (stampAndBuffer), and a replay begins after the cursor.
NeverBackwards == \A i \in 1..Len(pipe) : cursor # None => log[pipe[i]].seq > cursor

\* The cursor has gone over an event of its time.
Passed(e) == cursor # None /\ base < log[e].seq /\ log[e].seq <= cursor
\* The database or the memory of the process still has the content.
Survives(e) == e \in rows \cup {d \in Content : d > booted}
\* The page has shown it, or the rows were fetched since.
Reached(e) == e \in taken \/ e <= told

\* The cursor goes over no content unnoticed: each piece was on the page, or the
\* page has reconciled with the rows after it was stamped (sse-event-consumer.ts
\* moves the cursor over a jump only when the reconcile of the same epoch has
\* succeeded).
NoSilentLoss == \A e \in Content : Passed(e) /\ Survives(e) => Reached(e)

\* Content on its way to the page is either above the page's frontier, and so
\* will be applied, or has been on the page: the position that comes with fetched
\* rows claims no more than the rows hold (recordPersistedSeq, getPersistedSeq).
NothingSkipped ==
  \A i \in 1..Len(pipe) :
    LET e == pipe[i] IN
      Survives(e) /\ log[e].seq <= localSeq => e \in taken

\* A gap that waits for its next event: nothing was heard since the connection
\* was set to the rows' position, or the gap's reconcile has failed.
Waits == cursor # None /\ cursor = base
Unanswered == latestGap # None /\ fetch["gap"].state = "idle"

\* Content stamped before a connection was lost has, in the end, been on the page
\* or been looked for in the rows: a client that reopens its connection replays
\* or reconciles what it has missed (sse-service.ts, reconcile-on-reopen.ts).
CaughtUp ==
  \/ Waits \/ Unanswered
  \/ \A e \in Content : e <= lost /\ (cursor = None \/ base < log[e].seq) => Reached(e)
CatchesUp == <>[]CaughtUp
==============================================================================
