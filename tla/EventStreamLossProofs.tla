------------------------ MODULE EventStreamLossProofs ------------------------
(* Theorems about what the page of EventStream misses: nothing without     *)
(* looking for it, however the stream is cut.                              *)
EXTENDS EventStreamProofs

-----------------------------------------------------------------------------
(* The inductive invariant.                                                *)

(* A replay from the cursor would be complete.                             *)
Complete ==
  /\ evicted < Len(log)
  /\ cursor >= log[evicted + 1].seq - 1 \/ CoversRestartGap(cursor)

(* The connection is past the event.                                       *)
Behind(x) == (subscribed \/ pipe # <<>>) /\ \A i \in 1..Len(pipe) : x < pipe[i]

(* The page will not apply the event any more, were it sent.               *)
Known(x) == log[x].seq <= localSeq \/ Behind(x)

(* The position saved with the rows claims no more than they hold; neither *)
(* does that of rows fetched, as long as the content survives.             *)
SavedOK == saved # 0 => \A x \in Content : x > booted /\ log[x].seq <= saved => x \in rows
FetchedOK ==
  \A f \in Fetches : fetch[f].state = "answered" =>
    /\ \A x \in fetch[f].rows : x <= fetch[f].at
    /\ fetch[f].seq # 0 =>
         \A x \in Content : Survives(x) /\ log[x].seq <= fetch[f].seq => x \in fetch[f].rows

(* Before the cursor stands, the page's position claims no more than the   *)
(* page has shown.                                                         *)
ColdOK ==
  cursor = None => \A x \in Content : Survives(x) /\ log[x].seq <= localSeq => x \in taken

(* Afterwards the same holds for what the connection is still to read.     *)
Following ==
  pipe # <<>> =>
    \A x \in Content : x >= pipe[1] /\ Survives(x) /\ log[x].seq <= localSeq => x \in taken

(* What a replay would send and the page not apply, the page has shown.    *)
RingOK ==
  cursor # None /\ Complete =>
    \A x \in Content : x > evicted /\ log[x].seq > cursor /\ Known(x) => x \in taken

(* The same above the event that a gap's reconcile will jump to, and what  *)
(* was stamped between its answer and that event has been shown.           *)
GapFollow ==
  fetch["gap"].state # "idle" /\ ~fetch["gap"].stale =>
    \A x \in Content : Survives(x) /\ log[x].seq > latestGap /\ Known(x) => x \in taken
GapAnswered ==
  fetch["gap"].state = "answered" =>
    \A x \in Content : Survives(x) /\ x > fetch["gap"].at /\ log[x].seq <= latestGap => x \in taken

PInv ==
  /\ Issued(localSeq)
  /\ SavedOK
  /\ FetchedOK
  /\ ColdOK
  /\ Following
  /\ RingOK
  /\ GapFollow
  /\ GapAnswered
  /\ NoSilentLoss

LEMMA FirstPage == Init => PInv
<1> SUFFICES ASSUME Init PROVE PInv
    OBVIOUS
<1>1. log = <<>> /\ Len(log) = 0
    BY DEF Init
<1>2. Content = {}
    BY <1>1 DEF Content
<1>3. fetch["gap"] = NoRows /\ \A f \in Fetches : fetch[f] = NoRows \/ fetch[f] = Asked
    BY DEF Init, Fetches
<1>4. NoRows.state = "idle" /\ Asked.state = "asked"
    BY Requests
<1>5. \A f \in Fetches : fetch[f].state # "answered"
    BY <1>3, <1>4
<1>6. localSeq = 0 /\ saved = 0
    BY DEF Init
<1> QED
    BY <1>2, <1>3, <1>4, <1>5, <1>6
    DEF PInv, Issued, SavedOK, FetchedOK, ColdOK, Following, RingOK, GapFollow, GapAnswered,
        NoSilentLoss

-----------------------------------------------------------------------------
(* Steps that stamp nothing and read nothing.                              *)

(* No content comes back, the page forgets nothing it has shown, and its   *)
(* position goes only over content that it has shown.                      *)
Calm ==
  /\ log' = log
  /\ \A x \in Content : Survives(x)' => Survives(x)
  /\ taken \subseteq taken'
  /\ \A x \in Content : Survives(x) /\ log[x].seq <= localSeq' =>
       log[x].seq <= localSeq \/ x \in taken'

LEMMA SameContent == ASSUME log' = log PROVE Content' = Content
BY DEF Content

LEMMA Numbers ==
    ASSUME IInv
    PROVE  /\ Len(log) \in Nat /\ booted \in 0..Len(log) /\ evicted \in booted..Len(log)
           /\ booted \in Nat /\ evicted \in Nat
           /\ localSeq \in Nat /\ saved \in Nat
           /\ \A x \in Content : x \in 1..Len(log) /\ x \in Nat
           /\ \A x \in 1..Len(log) : log[x].seq \in Nat \ {0}
           /\ Len(pipe) \in Nat
           /\ \A i \in 1..Len(pipe) : pipe[i] \in 1..Len(log) /\ pipe[i] \in Nat
           /\ rows \subseteq Content
<1>1. Len(log) \in Nat /\ \A x \in 1..Len(log) : log[x].seq \in Nat \ {0}
    BY LogTypes DEF IInv, TypeOK
<1>2. booted \in 0..Len(log) /\ evicted \in booted..Len(log) /\ saved \in Nat /\ rows \subseteq Content
    BY DEF IInv, TypeOK, DaemonTypes
<1>3. booted \in Nat /\ evicted \in Nat
    BY <1>1, <1>2
<1>4. Len(pipe) \in Nat /\ \A i \in 1..Len(pipe) : pipe[i] \in 1..Len(log)
    BY PipeTypes DEF IInv, TypeOK
<1>5. localSeq \in Nat
    BY DEF IInv, TypeOK, PageTypes
<1>6. \A x \in Content : x \in 1..Len(log) /\ x \in Nat
    BY <1>1 DEF Content
<1> QED
    BY <1>1, <1>2, <1>3, <1>4, <1>5, <1>6

(* What the ring holds survives.                                           *)
LEMMA RingSurvives ==
    ASSUME IInv, NEW x \in Content, x > evicted
    PROVE  Survives(x)
<1>1. x > booted
    BY Numbers
<1> QED
    BY <1>1 DEF Survives

LEMMA CalmFetched ==
    ASSUME FetchedOK, Calm,
           \A f \in Fetches : fetch'[f].state = "answered" => fetch'[f] = fetch[f]
    PROVE  FetchedOK'
<1> SUFFICES ASSUME NEW f \in Fetches, fetch'[f].state = "answered"
             PROVE  /\ \A x \in fetch'[f].rows : x <= fetch'[f].at
                    /\ fetch'[f].seq # 0 =>
                         \A x \in Content : Survives(x)' /\ log[x].seq <= fetch'[f].seq =>
                           x \in fetch'[f].rows
    BY SameContent DEF FetchedOK, Calm
<1>1. fetch'[f] = fetch[f] /\ fetch[f].state = "answered"
    OBVIOUS
<1> QED
    BY <1>1 DEF FetchedOK, Calm

LEMMA CalmCold ==
    ASSUME ColdOK, Calm, cursor' = None => cursor = None
    PROVE  ColdOK'
BY SameContent DEF ColdOK, Calm

LEMMA CalmFollowing ==
    ASSUME IInv, Following, Calm,
           pipe' # <<>> => pipe # <<>> /\ pipe'[1] \in Nat /\ pipe[1] \in Nat /\ pipe[1] <= pipe'[1]
    PROVE  Following'
<1> SUFFICES ASSUME pipe' # <<>>, NEW x \in Content, x >= pipe'[1], Survives(x)',
                    log[x].seq <= localSeq'
             PROVE  x \in taken'
    BY SameContent DEF Following, Calm
<1>1. x >= pipe[1] /\ Survives(x) /\ (log[x].seq <= localSeq \/ x \in taken')
    BY Numbers DEF Calm
<1> QED
    BY <1>1 DEF Following, Calm

LEMMA CalmRing ==
    ASSUME IInv, RingOK, Calm, cursor' = cursor, cursor # None /\ Complete' => Complete,
           evicted' \in Nat, evicted <= evicted', \A x \in Content : Behind(x)' => Behind(x)
    PROVE  RingOK'
<1> SUFFICES ASSUME cursor # None, Complete, NEW x \in Content, x > evicted',
                    log[x].seq > cursor, log[x].seq <= localSeq' \/ Behind(x)'
             PROVE  x \in taken'
    BY SameContent DEF RingOK, Known, Calm
<1>1. x > evicted
    BY Numbers
<1>2. Survives(x)
    BY <1>1, RingSurvives
<1>3. Known(x) \/ x \in taken'
    BY <1>2 DEF Known, Calm
<1> QED
    BY <1>1, <1>3 DEF RingOK, Calm

LEMMA CalmGapFollow ==
    ASSUME GapFollow, Calm, latestGap' = latestGap, \A x \in Content : Behind(x)' => Behind(x),
           fetch'["gap"].state # "idle" /\ ~fetch'["gap"].stale =>
             fetch["gap"].state # "idle" /\ ~fetch["gap"].stale
    PROVE  GapFollow'
<1> SUFFICES ASSUME fetch["gap"].state # "idle", ~fetch["gap"].stale, NEW x \in Content,
                    Survives(x)', log[x].seq > latestGap, log[x].seq <= localSeq' \/ Behind(x)'
             PROVE  x \in taken'
    BY SameContent DEF GapFollow, Known, Calm
<1>1. Survives(x) /\ (Known(x) \/ x \in taken')
    BY DEF Known, Calm
<1> QED
    BY <1>1 DEF GapFollow, Calm

LEMMA CalmGapAnswered ==
    ASSUME GapAnswered, Calm, latestGap' = latestGap,
           fetch'["gap"].state = "answered" => fetch'["gap"] = fetch["gap"]
    PROVE  GapAnswered'
<1> SUFFICES ASSUME fetch'["gap"].state = "answered", fetch'["gap"] = fetch["gap"],
                    NEW x \in Content, Survives(x)', x > fetch["gap"].at,
                    log[x].seq <= latestGap
             PROVE  x \in taken'
    BY SameContent DEF GapAnswered, Calm
<1> QED
    BY DEF GapAnswered, Calm

LEMMA CalmLoss ==
    ASSUME IInv, NoSilentLoss, Calm, cursor' = cursor, base' = base,
           told \in Nat, told' \in Nat, told <= told'
    PROVE  NoSilentLoss'
<1> SUFFICES ASSUME NEW x \in Content, Passed(x), Survives(x)'
             PROVE  x \in taken' \/ x <= told'
    BY SameContent DEF NoSilentLoss, Passed, Reached, Calm
<1>1. x \in taken \/ x <= told
    BY DEF NoSilentLoss, Reached, Calm
<1> QED
    BY <1>1, Numbers DEF Calm

(* The parts of the invariant that only the daemon can change.             *)
LEMMA SameSaved ==
    ASSUME SavedOK, UNCHANGED <<log, booted, saved>>, rows \subseteq rows'
    PROVE  SavedOK'
BY SameContent DEF SavedOK

LEMMA SameIssued ==
    ASSUME Issued(localSeq), UNCHANGED <<log, localSeq>>
    PROVE  Issued(localSeq)'
BY DEF Issued

LEMMA SameComplete ==
    ASSUME UNCHANGED <<log, booted, evicted, cursor>>
    PROVE  Complete' <=> Complete
BY DEF Complete, CoversRestartGap

LEMMA SameBehind ==
    ASSUME UNCHANGED pipe, subscribed' => subscribed
    PROVE  \A x : Behind(x)' => Behind(x)
BY DEF Behind

(* A step of the daemon that the page does not see: the ring's window, the  *)
(* connection and the rows get smaller at most by what dies.                *)
LEMMA UnseenStep ==
    ASSUME IInv, PInv, UNCHANGED <<log, position, screen, told, fetch>>,
           SavedOK',
           \A x \in Content : Survives(x)' => Survives(x),
           cursor # None /\ Complete' => Complete, evicted' \in Nat, evicted <= evicted',
           \A x \in Content : Behind(x)' => Behind(x),
           pipe' # <<>> => pipe # <<>> /\ pipe'[1] = pipe[1]
    PROVE  PInv'
<1>1. UNCHANGED <<cursor, latestGap, base, localSeq, shown, taken>>
    BY DEF position, screen
<1>2. Calm
    BY <1>1 DEF Calm
<1>3. pipe' # <<>> => pipe # <<>> /\ pipe'[1] \in Nat /\ pipe[1] \in Nat /\ pipe[1] <= pipe'[1]
    BY HeadOfPipe
<1>4. told \in Nat
    BY DEF IInv, TypeOK, PageTypes
<1>5. FetchedOK'
    BY <1>2, CalmFetched DEF PInv
<1>6. ColdOK' /\ Following' /\ RingOK'
    BY <1>1, <1>2, <1>3, CalmCold, CalmFollowing, CalmRing DEF PInv
<1>7. GapFollow' /\ GapAnswered' /\ NoSilentLoss'
    BY <1>1, <1>2, <1>4, CalmGapFollow, CalmGapAnswered, CalmLoss DEF PInv
<1>8. Issued(localSeq)'
    BY <1>1, SameIssued DEF PInv
<1> QED
    BY <1>5, <1>6, <1>7, <1>8 DEF PInv

LEMMA EvictPage ==
    ASSUME IInv, PInv, Evict
    PROVE  PInv'
<1>1. /\ UNCHANGED <<log, booted, stored, connection, position, screen, told, fetch>>
      /\ evicted < Len(log) /\ evicted' = evicted + 1
    BY DEF Evict
<1>2. UNCHANGED <<rows, saved, subscribed, pipe, cursor>>
    BY <1>1 DEF stored, connection, position
<1>3. \A x \in Content : Survives(x)' => Survives(x)
    BY <1>1, <1>2, SameContent DEF Survives
<1>4. ASSUME cursor # None, Complete' PROVE Complete
  <2>1. evicted + 1 < Len(log) /\ evicted + 1 # booted
      BY <1>1, <1>4, Numbers DEF Complete
  <2>2. /\ evicted + 1 \in 1..Len(log) /\ evicted + 2 \in 1..Len(log)
        /\ log[evicted + 1].seq \in Nat /\ log[evicted + 2].seq \in Nat
      BY <2>1, Numbers
  <2>3. log[evicted + 1].seq < log[evicted + 2].seq
      BY <2>2, Numbers DEF IInv, Rises
  <2>4. CASE cursor >= log[evicted + 2].seq - 1
    <3>1. cursor \in Nat
        BY <1>4 DEF IInv, TypeOK, ConnectionTypes
    <3> QED
        BY <1>1, <2>2, <2>3, <2>4, <3>1 DEF Complete
  <2> QED
      BY <1>1, <1>2, <1>4, <2>1, <2>4, Numbers DEF Complete, CoversRestartGap
<1>5. SavedOK'
    BY <1>1, <1>2, SameSaved DEF PInv
<1>6. \A x \in Content : Behind(x)' => Behind(x)
    BY <1>2, SameBehind
<1>7. evicted' \in Nat /\ evicted <= evicted'
    BY <1>1, Numbers
<1> QED
    BY <1>1, <1>2, <1>3, <1>4, <1>5, <1>6, <1>7, UnseenStep

LEMMA HeartbeatShedsPage ==
    ASSUME IInv, PInv, HeartbeatSheds
    PROVE  PInv'
<1>1. /\ UNCHANGED <<daemon, stored, pipe, position, screen, told, fetch>>
      /\ subscribed' = FALSE
    BY DEF HeartbeatSheds
<1>2. UNCHANGED <<log, booted, evicted, rows, saved, cursor>>
    BY <1>1 DEF daemon, stored, position
<1>3. \A x \in Content : Survives(x)' => Survives(x)
    BY <1>2, SameContent DEF Survives
<1>4. SavedOK'
    BY <1>2, SameSaved DEF PInv
<1>5. (Complete' => Complete) /\ \A x \in Content : Behind(x)' => Behind(x)
    BY <1>1, <1>2, SameComplete, SameBehind
<1>6. evicted' \in Nat /\ evicted <= evicted'
    BY <1>2, Numbers
<1> QED
    BY <1>1, <1>2, <1>3, <1>4, <1>5, <1>6, UnseenStep

LEMMA FlushPage ==
    ASSUME IInv, PInv, Flush
    PROVE  PInv'
<1>1. /\ UNCHANGED <<daemon, connection, position, screen, told, fetch>>
      /\ rows' = rows \cup Unsaved
    BY DEF Flush
<1>2. UNCHANGED <<log, booted, evicted, subscribed, pipe, cursor>>
    BY <1>1 DEF daemon, connection, position
<1>3. \A x \in Content : Survives(x)' => Survives(x)
    BY <1>1, <1>2, SameContent DEF Survives, Unsaved
<1>4. SavedOK'
    BY <1>1, <1>2, SameContent DEF SavedOK, Unsaved
<1>5. (Complete' => Complete) /\ \A x \in Content : Behind(x)' => Behind(x)
    BY <1>2, SameComplete, SameBehind
<1>6. evicted' \in Nat /\ evicted <= evicted'
    BY <1>2, Numbers
<1> QED
    BY <1>1, <1>2, <1>3, <1>4, <1>5, <1>6, UnseenStep

LEMMA CrashPage ==
    ASSUME IInv, PInv, Crash
    PROVE  PInv'
<1>1. /\ UNCHANGED <<log, rows, position, screen, told, fetch>>
      /\ booted' = Len(log) /\ evicted' = Len(log) /\ saved' = 0 /\ subscribed' = FALSE
    BY DEF Crash
<1>2. PICK n \in 0..Len(pipe) : pipe' = SubSeq(pipe, 1, n)
    BY DEF Crash
<1>3. n \in Nat /\ n <= Len(pipe)
    BY Numbers
<1>4. /\ pipe' \in Seq(1..Len(log))
      /\ Len(pipe') = n
      /\ \A i \in 1..n : pipe'[i] = pipe[i]
  <2>1. \A i \in 1..n : pipe[i] \in 1..Len(log)
      BY Numbers
  <2> QED
      BY <1>2, <2>1, SubSeqProperties
<1>5. pipe' # <<>> => n >= 1 /\ pipe # <<>>
    BY <1>3, <1>4, Numbers, EmptySeq DEF IInv, TypeOK, ConnectionTypes
<1>6. pipe' # <<>> => pipe # <<>> /\ pipe'[1] = pipe[1]
    BY <1>3, <1>4, <1>5
<1>7. ~Complete'
    BY <1>1, Numbers DEF Complete
<1>8. ASSUME NEW x \in Content, Behind(x)' PROVE Behind(x)
  <2>1. pipe' # <<>> /\ \A i \in 1..Len(pipe') : x < pipe'[i]
      BY <1>1, <1>8 DEF Behind
  <2>2. x < pipe[1] /\ pipe # <<>>
      BY <1>3, <1>4, <1>5, <2>1
  <2>3. ASSUME NEW i \in 1..Len(pipe) PROVE x < pipe[i]
    <3>1. pipe[1] <= pipe[i]
      <4>1. 1 \in 1..Len(pipe) /\ (i = 1 \/ 1 < i)
          BY Numbers
      <4> QED
          BY <4>1, Numbers DEF IInv, Ordered
    <3> QED
        BY <2>2, <3>1, HeadOfPipe, Numbers
  <2> QED
      BY <2>2, <2>3 DEF Behind
<1>9. ASSUME NEW x \in Content, Survives(x)' PROVE Survives(x)
    BY <1>1, <1>9, SameContent, Numbers DEF Survives
<1>10. SavedOK'
    BY <1>1 DEF SavedOK
<1>11. evicted' \in Nat /\ evicted <= evicted'
    BY <1>1, Numbers
<1> QED
    BY <1>1, <1>6, <1>7, <1>8, <1>9, <1>10, <1>11, UnseenStep

-----------------------------------------------------------------------------
(* The connection is attached, ends, and is asked for again.               *)

LEMMA EndedPage ==
    ASSUME IInv, PInv, Ended
    PROVE  PInv'
<1>1. UNCHANGED <<daemon, stored, connection, position, screen, told, fetch>>
    BY DEF Ended
<1>2. UNCHANGED <<log, booted, evicted, rows, saved, cursor, subscribed, pipe>>
    BY <1>1 DEF daemon, stored, position, connection
<1>3. \A x \in Content : Survives(x)' => Survives(x)
    BY <1>2, SameContent DEF Survives
<1>4. SavedOK'
    BY <1>2, SameSaved DEF PInv
<1>5. (Complete' => Complete) /\ \A x \in Content : Behind(x)' => Behind(x)
    BY <1>2, SameComplete, SameBehind
<1>6. evicted' \in Nat /\ evicted <= evicted'
    BY <1>2, Numbers
<1> QED
    BY <1>1, <1>2, <1>3, <1>4, <1>5, <1>6, UnseenStep

LEMMA BreakPage ==
    ASSUME IInv, PInv, Break
    PROVE  PInv'
<1>1. /\ UNCHANGED <<daemon, stored, position, screen, told, fetch>>
      /\ pipe' = <<>> /\ subscribed' = FALSE
    BY DEF Break
<1>2. UNCHANGED <<log, booted, evicted, rows, saved, cursor>>
    BY <1>1 DEF daemon, stored, position
<1>3. \A x \in Content : Survives(x)' => Survives(x)
    BY <1>2, SameContent DEF Survives
<1>4. SavedOK'
    BY <1>2, SameSaved DEF PInv
<1>5. (Complete' => Complete) /\ \A x \in Content : ~Behind(x)'
    BY <1>1, <1>2, SameComplete DEF Behind
<1>6. evicted' \in Nat /\ evicted <= evicted'
    BY <1>2, Numbers
<1> QED
    BY <1>1, <1>2, <1>3, <1>4, <1>5, <1>6, UnseenStep

(* A step that leaves the stream, the connection and the cursor alone: a    *)
(* request is made or over, and the page may be reconciled.                 *)
LEMMA RequestStep ==
    ASSUME IInv, PInv, UNCHANGED <<daemon, stored, connection, position>>,
           Calm, Issued(localSeq)', told' \in Nat, told <= told',
           FetchedOK',
           fetch'["gap"].state # "idle" /\ ~fetch'["gap"].stale =>
             fetch["gap"].state # "idle" /\ ~fetch["gap"].stale,
           GapAnswered'
    PROVE  PInv'
<1>1. UNCHANGED <<log, booted, evicted, rows, saved, cursor, latestGap, base, subscribed, pipe>>
    BY DEF daemon, stored, position, connection
<1>2. SavedOK'
    BY <1>1, SameSaved DEF PInv
<1>3. (Complete' => Complete) /\ \A x \in Content : Behind(x)' => Behind(x)
    BY <1>1, SameComplete, SameBehind
<1>4. evicted' \in Nat /\ evicted <= evicted'
    BY <1>1, Numbers
<1>5. pipe' # <<>> => pipe # <<>> /\ pipe'[1] \in Nat /\ pipe[1] \in Nat /\ pipe[1] <= pipe'[1]
    BY <1>1, HeadOfPipe
<1>6. told \in Nat
    BY DEF IInv, TypeOK, PageTypes
<1>7. ColdOK' /\ Following' /\ RingOK'
    BY <1>1, <1>3, <1>4, <1>5, CalmCold, CalmFollowing, CalmRing DEF PInv
<1>8. GapFollow' /\ NoSilentLoss'
    BY <1>1, <1>3, <1>6, CalmGapFollow, CalmLoss DEF PInv
<1> QED
    BY <1>2, <1>7, <1>8 DEF PInv

(* Requests made or over, with the page left alone.                         *)
LEMMA QuietRequestStep ==
    ASSUME IInv, PInv, UNCHANGED <<daemon, stored, connection, position, screen, told>>,
           \A f \in Fetches : fetch'[f].state = "answered" => fetch'[f] = fetch[f],
           fetch'["gap"].state # "idle" /\ ~fetch'["gap"].stale => fetch'["gap"] = fetch["gap"]
    PROVE  PInv'
<1>1. UNCHANGED <<log, booted, rows, localSeq, taken, latestGap>>
    BY DEF daemon, stored, screen, position
<1>2. Calm
    BY <1>1, SameContent DEF Calm, Survives
<1>3. Issued(localSeq)'
    BY <1>1, SameIssued DEF PInv
<1>4. told \in Nat
    BY DEF IInv, TypeOK, PageTypes
<1>5. FetchedOK' /\ GapAnswered'
    BY <1>1, <1>2, CalmFetched, CalmGapAnswered DEF PInv, Fetches
<1> QED
    BY <1>2, <1>3, <1>4, <1>5, RequestStep

LEMMA ReopenPage ==
    ASSUME IInv, PInv, Reopen
    PROVE  PInv'
<1>1. /\ UNCHANGED <<daemon, stored, connection, position, screen, told>>
      /\ fetch' = NewEpoch(Asked)
    BY DEF Reopen
<1>2. Len(log) \in Nat
    BY Numbers
<1>3. /\ Asked \in RequestType(Content, Len(log)) /\ Asked.state = "asked"
      /\ Stale.state = "asked" /\ Stale.stale = TRUE
    BY <1>2, Requests
<1>4. /\ fetch'["gap"] = IF fetch["gap"].state = "idle" THEN fetch["gap"] ELSE Stale
      /\ fetch'["reopen"] = Asked
      /\ fetch'["history"] = fetch["history"]
    BY <1>1, <1>2, <1>3, NewEpochRequests DEF IInv, TypeOK
<1>5. \A f \in Fetches : fetch'[f].state = "answered" => fetch'[f] = fetch[f]
    BY <1>3, <1>4 DEF Fetches
<1>6. fetch'["gap"].state # "idle" /\ ~fetch'["gap"].stale => fetch'["gap"] = fetch["gap"]
    BY <1>3, <1>4
<1> QED
    BY <1>1, <1>5, <1>6, QuietRequestStep

(* The gap's reconcile comes to nothing.                                    *)
LEMMA GapEndsPage ==
    ASSUME IInv, PInv, GapOutdated \/ GapFails
    PROVE  PInv'
<1>1. /\ UNCHANGED <<daemon, stored, connection, position, screen, told>>
      /\ fetch' = [fetch EXCEPT !["gap"] = NoRows]
    BY DEF GapOutdated, GapFails
<1>2. fetch \in [Fetches -> RequestType(Content, Len(log))] /\ "gap" \in Fetches
    BY RequestFields DEF IInv, TypeOK, Fetches
<1>3. fetch'["gap"] = NoRows /\ \A f \in Fetches \ {"gap"} : fetch'[f] = fetch[f]
    BY <1>1, <1>2
<1>4. NoRows.state = "idle"
    BY DEF NoRows
<1>5. \A f \in Fetches : fetch'[f].state = "answered" => fetch'[f] = fetch[f]
    BY <1>3, <1>4
<1> QED
    BY <1>1, <1>3, <1>4, <1>5, QuietRequestStep

(* Everything the replay could leave out is known to have been shown.       *)
LEMMA AttachPage ==
    ASSUME IInv, PInv, Attach
    PROVE  PInv'
<1>1. /\ UNCHANGED <<daemon, stored, position, screen, lost, told, fetch, faultsLeft>>
      /\ link = "asked" /\ subscribed' = TRUE
    BY DEF Attach
<1>2. UNCHANGED <<log, booted, evicted, rows, saved, cursor, latestGap, base, localSeq, taken>>
    BY <1>1 DEF daemon, stored, position, screen
<1>3. Calm
    BY <1>2, SameContent DEF Calm, Survives
<1>4. SavedOK' /\ Issued(localSeq)'
    BY <1>2, SameSaved, SameIssued DEF PInv
<1>5. told \in Nat /\ told' = told
    BY <1>1 DEF IInv, TypeOK, PageTypes
<1>6. FetchedOK' /\ ColdOK' /\ GapAnswered' /\ NoSilentLoss'
    BY <1>1, <1>2, <1>3, <1>5, CalmFetched, CalmCold, CalmGapAnswered, CalmLoss DEF PInv
<1>7. GapFollow'
    BY <1>1 DEF IInv, GapOK, GapFollow
<1> DEFINE newer == {e \in (evicted + 1)..Len(log) :
                       log[e].seq > cursor /\ log[e].kind # "hidden"}
<1>8. cursor # None /\ Complete => pipe' = OldestFirst(newer)
    BY DEF Attach, Window, Complete
<1>9. pipe' # <<>> => cursor # None /\ Complete /\ pipe' = OldestFirst(newer)
    BY DEF Attach, Window, Complete
<1>10. newer \in SUBSET (1..Len(log)) /\ Len(log) \in Nat
    BY Numbers
<1>11. LET w == OldestFirst(newer) IN
         /\ w \in Seq(newer)
         /\ \A e \in newer : \E i \in 1..Len(w) : w[i] = e
    BY <1>10, OldestFirstProperties
<1>12. RingOK'
  <2> SUFFICES ASSUME cursor # None, Complete, NEW x \in Content, x > evicted,
                      log[x].seq > cursor, log[x].seq <= localSeq \/ Behind(x)'
               PROVE  x \in taken
      BY <1>2, SameContent, SameComplete DEF RingOK, Known
  <2>1. x \in newer
      BY Numbers DEF Content
  <2>2. \E i \in 1..Len(pipe') : pipe'[i] = x
      BY <1>8, <1>11, <2>1
  <2>3. ~Behind(x)'
      BY <2>2, Numbers DEF Behind
  <2> QED
      BY <2>3 DEF PInv, RingOK, Known
<1>13. Following'
  <2> SUFFICES ASSUME pipe' # <<>>, NEW x \in Content, x >= pipe'[1], log[x].seq <= localSeq
               PROVE  x \in taken
      BY <1>2, SameContent DEF Following, Survives
  <2>1. pipe'[1] \in newer
    <3>1. pipe' \in Seq(newer)
        BY <1>9, <1>11
    <3>2. 1 \in 1..Len(pipe')
        BY <3>1, EmptySeq
    <3> QED
        BY <3>1, <3>2, ElementOfSeq
  <2> DEFINE e == pipe'[1]
  <2>2. /\ e \in 1..Len(log) /\ e > evicted /\ log[e].seq > cursor
        /\ cursor # None /\ Complete /\ cursor \in Nat
      BY <1>9, <2>1, Numbers DEF IInv, TypeOK, ConnectionTypes
  <2> HIDE DEF e
  <2>3. x >= e
      BY DEF e
  <2>4. x \in 1..Len(log) /\ x > evicted /\ log[e].seq <= log[x].seq
    <3>1. x \in 1..Len(log) /\ (x = e \/ e < x)
        BY <2>2, <2>3, Numbers
    <3>2. log[e].seq <= log[x].seq
        BY <2>2, <3>1, Numbers DEF IInv, Rises
    <3> QED
        BY <2>2, <2>3, <3>1, <3>2, Numbers
  <2>5. log[x].seq > cursor
      BY <2>2, <2>4, Numbers
  <2> QED
      BY <2>2, <2>4, <2>5 DEF PInv, RingOK, Known
<1> QED
    BY <1>4, <1>6, <1>7, <1>12, <1>13 DEF PInv

-----------------------------------------------------------------------------
(* The page reads an event.                                                *)

LEMMA SameFetched ==
    ASSUME FetchedOK, UNCHANGED <<log, booted, rows>>,
           \A f \in Fetches : fetch'[f].state = "answered" => fetch'[f] = fetch[f]
    PROVE  FetchedOK'
<1> SUFFICES ASSUME NEW f \in Fetches, fetch'[f].state = "answered"
             PROVE  /\ \A x \in fetch'[f].rows : x <= fetch'[f].at
                    /\ fetch'[f].seq # 0 =>
                         \A x \in Content : Survives(x) /\ log[x].seq <= fetch'[f].seq =>
                           x \in fetch'[f].rows
    BY SameContent DEF FetchedOK, Survives
<1>1. fetch'[f] = fetch[f] /\ fetch[f].state = "answered"
    OBVIOUS
<1> QED
    BY <1>1 DEF FetchedOK

(* Content that is read is on the page from then on.                       *)
LEMMA Applied ==
    ASSUME IInv, PInv, pipe # <<>>, Apply(pipe[1]), log' = log
    PROVE  /\ taken \subseteq taken'
           /\ localSeq' \in Nat
           /\ Issued(localSeq)'
           /\ pipe[1] \in Content /\ Survives(pipe[1]) => pipe[1] \in taken'
           /\ \A x \in Content :
                log[x].seq <= localSeq' => log[x].seq <= localSeq \/ x <= pipe[1]
<1>1. pipe[1] \in 1..Len(log) /\ pipe[1] \in Nat /\ log[pipe[1]].seq \in Nat /\ localSeq \in Nat
    BY HeadOfPipe, Numbers
<1>2. CASE /\ log[pipe[1]].seq > localSeq
           /\ localSeq' = log[pipe[1]].seq
           /\ shown' = IF pipe[1] \in Content THEN shown \cup {pipe[1]} ELSE shown
           /\ taken' = taken \cup shown'
  <2>1. Issued(localSeq)'
      BY <1>1, <1>2 DEF Issued
  <2>2. ASSUME NEW x \in Content, log[x].seq <= localSeq' PROVE x <= pipe[1]
    <3>1. x \in 1..Len(log) /\ x \in Nat /\ log[x].seq \in Nat
        BY Numbers
    <3>2. ~(pipe[1] < x)
        BY <1>1, <1>2, <2>2, <3>1 DEF IInv, Rises
    <3> QED
        BY <1>1, <3>1, <3>2
  <2> QED
      BY <1>1, <1>2, <2>1, <2>2
<1>3. CASE /\ ~(log[pipe[1]].kind \in {"content", "signal"} /\ log[pipe[1]].seq > localSeq)
           /\ UNCHANGED <<localSeq, taken>>
  <2>1. Issued(localSeq)'
      BY <1>3, SameIssued DEF PInv
  <2>2. ASSUME pipe[1] \in Content, Survives(pipe[1]) PROVE pipe[1] \in taken
    <3>1. log[pipe[1]].seq <= localSeq
        BY <1>1, <1>3, <2>2 DEF Content
    <3> QED
        BY <1>1, <2>2, <3>1 DEF PInv, Following
  <2> QED
      BY <1>1, <1>3, <2>1, <2>2
<1> QED
    BY <1>2, <1>3 DEF Apply, screen

(* Nothing else becomes known by it: content is never sent past.           *)
LEMMA ReadKnown ==
    ASSUME IInv, PInv, pipe # <<>>, Apply(pipe[1]), log' = log, pipe' = Tail(pipe),
           subscribed' = subscribed, NEW x \in Content, Known(x)'
    PROVE  Known(x) \/ x = pipe[1]
<1>1. /\ Len(pipe) \in Nat /\ 1 \in 1..Len(pipe)
      /\ pipe[1] \in 1..Len(log) /\ pipe[1] \in Nat
      /\ x \in 1..Len(log) /\ x \in Nat /\ Len(log) \in Nat
    BY HeadOfPipe, Numbers
<1>2. \A i \in 1..Len(pipe) : pipe[1] <= pipe[i]
  <2> SUFFICES ASSUME NEW i \in 1..Len(pipe) PROVE pipe[1] <= pipe[i]
      OBVIOUS
  <2>1. i = 1 \/ 1 < i
      BY <1>1
  <2> QED
      BY <1>1, <2>1, Numbers DEF IInv, Ordered
<1>3. x < pipe[1] => Behind(x)
  <2> SUFFICES ASSUME x < pipe[1], NEW i \in 1..Len(pipe) PROVE x < pipe[i]
      BY DEF Behind
  <2>1. pipe[i] \in Nat /\ pipe[1] <= pipe[i]
      BY <1>2, Numbers
  <2> QED
      BY <1>1, <2>1
<1>4. CASE log[x].seq <= localSeq'
    BY <1>1, <1>3, <1>4, Applied DEF Known
<1>5. CASE Behind(x)'
  <2> SUFFICES ASSUME pipe[1] < x PROVE FALSE
      BY <1>1, <1>3 DEF Known
  <2>1. log[x].kind # "hidden"
      BY DEF Content
  <2>2. /\ Len(pipe') = Len(pipe) - 1
        /\ \A i \in 1..Len(pipe') : pipe'[i] = pipe[i + 1]
        /\ pipe' \in Seq(1..Len(log))
      BY RestOfPipe
  <2>3. CASE Len(pipe) = 1
    <3>1. pipe' = <<>> /\ subscribed
        BY <1>5, <2>2, <2>3, EmptySeq DEF Behind
    <3>2. x \in (pipe[Len(pipe)] + 1)..Len(log)
        BY <1>1, <2>3
    <3> QED
        BY <2>1, <3>1, <3>2 DEF IInv, Contiguous
  <2>4. CASE Len(pipe) # 1
    <3>1. 1 \in 1..Len(pipe') /\ 1 \in 1..(Len(pipe) - 1) /\ 2 \in 1..Len(pipe)
        BY <1>1, <2>2, <2>4
    <3>2. pipe'[1] = pipe[2]
        BY <2>2, <3>1
    <3>3. x < pipe[2]
        BY <1>5, <3>1, <3>2 DEF Behind
    <3>4. x \in (pipe[1] + 1)..(pipe[1 + 1] - 1)
        BY <1>1, <3>1, <3>3, Numbers
    <3> QED
        BY <2>1, <3>1, <3>4 DEF IInv, Contiguous
  <2> QED
      BY <2>3, <2>4
<1> QED
    BY <1>4, <1>5 DEF Known

(* What reading does, whether or not the stream has jumped.                *)
LEMMA ReadPage ==
    ASSUME IInv, PInv, pipe # <<>>, Apply(pipe[1]), UNCHANGED <<daemon, stored, subscribed>>,
           pipe' = Tail(pipe),
           \A f \in Fetches : fetch'[f].state = "answered" => fetch'[f] = fetch[f]
    PROVE  /\ Issued(localSeq)' /\ SavedOK' /\ FetchedOK' /\ Following'
           /\ taken \subseteq taken'
           /\ \A x \in Content : Survives(x)' => Survives(x)
           /\ \A x \in Content : x = pipe[1] /\ Survives(x) => x \in taken'
           /\ \A x \in Content : Survives(x) /\ x > pipe[1] /\ Known(x)' => x \in taken
<1>1. UNCHANGED <<log, booted, evicted, rows, saved>>
    BY DEF daemon, stored
<1>2. /\ taken \subseteq taken' /\ Issued(localSeq)'
      /\ \A x \in Content : x = pipe[1] /\ Survives(x) => x \in taken'
      /\ \A x \in Content : log[x].seq <= localSeq' => log[x].seq <= localSeq \/ x <= pipe[1]
    BY <1>1, Applied
<1>3. SavedOK' /\ FetchedOK' /\ \A x \in Content : Survives(x)' => Survives(x)
    BY <1>1, SameSaved, SameFetched, SameContent DEF PInv, Survives
<1>4. /\ Len(pipe) \in Nat /\ 1 \in 1..Len(pipe) /\ pipe[1] \in Nat
    BY HeadOfPipe, Numbers
<1>5. ASSUME NEW x \in Content, Survives(x), x > pipe[1], Known(x)'
      PROVE  x \in taken
  <2>1. x \in Nat /\ ~Behind(x)
      BY <1>4, <1>5, Numbers DEF Behind
  <2>2. Known(x)
      BY <1>1, <1>4, <1>5, <2>1, ReadKnown
  <2> QED
      BY <1>4, <1>5, <2>1, <2>2 DEF PInv, Following, Known
<1>6. Following'
  <2> SUFFICES ASSUME pipe' # <<>>, NEW x \in Content, x >= pipe'[1], Survives(x),
                      log[x].seq <= localSeq'
               PROVE  x \in taken'
      BY <1>1, <1>3, SameContent DEF Following
  <2>1. /\ Len(pipe') = Len(pipe) - 1 /\ pipe' \in Seq(1..Len(log))
        /\ \A i \in 1..Len(pipe') : pipe'[i] = pipe[i + 1]
      BY <1>1, RestOfPipe
  <2>2. 1 \in 1..Len(pipe') /\ 2 \in 1..Len(pipe)
      BY <1>4, <2>1, EmptySeq
  <2>3. pipe'[1] = pipe[2] /\ pipe[1] < pipe[2] /\ pipe[2] \in Nat
      BY <1>4, <2>1, <2>2, Numbers DEF IInv, Ordered
  <2>4. x > pipe[1]
      BY <1>4, <2>3, Numbers
  <2> QED
      BY <1>1, <1>2, <1>5, <2>4 DEF Known
<1> QED
    BY <1>2, <1>3, <1>5, <1>6

LEMMA ReadNextPage ==
    ASSUME IInv, PInv, ReadNext
    PROVE  PInv'
<1>1. /\ pipe # <<>>
      /\ ~IsGap(log[pipe[1]].seq)
      /\ Apply(pipe[1])
      /\ cursor' = IF cursor = None THEN log[pipe[1]].seq ELSE Larger(cursor, log[pipe[1]].seq)
      /\ base' = IF cursor = None THEN log[pipe[1]].seq - 1 ELSE base
      /\ pipe' = Tail(pipe)
      /\ UNCHANGED <<daemon, stored, subscribed, latestGap, told, fetch>>
    BY DEF ReadNext
<1>2. UNCHANGED <<log, booted, evicted, rows, saved>>
    BY <1>1 DEF daemon, stored
<1>3. /\ Issued(localSeq)' /\ SavedOK' /\ FetchedOK' /\ Following'
      /\ taken \subseteq taken'
      /\ \A x \in Content : Survives(x)' => Survives(x)
      /\ \A x \in Content : x = pipe[1] /\ Survives(x) => x \in taken'
      /\ \A x \in Content : Survives(x) /\ x > pipe[1] /\ Known(x)' => x \in taken
    BY <1>1, ReadPage
<1>4. /\ pipe[1] \in 1..Len(log) /\ pipe[1] \in Nat
      /\ log[pipe[1]].seq \in Nat \ {0}
      /\ cursor # None => cursor \in Nat /\ log[pipe[1]].seq > cursor
    BY <1>1, HeadOfPipe, Numbers DEF IInv, TypeOK, ConnectionTypes
<1>5. cursor' = log[pipe[1]].seq /\ cursor' # None
    BY <1>1, <1>4, EventStreamAssumption DEF Larger
<1>6. \A x \in Content : x \in Nat /\ log[x].seq \in Nat
    BY Numbers
<1>7. ASSUME NEW x \in Content
      PROVE  /\ log[x].seq > log[pipe[1]].seq => x > pipe[1]
             /\ log[x].seq = log[pipe[1]].seq => x = pipe[1]
  <2>1. x \in 1..Len(log)
      BY DEF Content
  <2>2. x < pipe[1] \/ x = pipe[1] \/ x > pipe[1]
      BY <1>4, <1>6
  <2> QED
      BY <1>4, <1>6, <2>1, <2>2 DEF IInv, Rises
<1>8. ColdOK'
    BY <1>5 DEF ColdOK
<1>9. RingOK'
  <2> SUFFICES ASSUME NEW x \in Content, x > evicted, log[x].seq > log[pipe[1]].seq, Known(x)'
               PROVE  x \in taken'
      BY <1>2, <1>5, SameContent DEF RingOK
  <2> QED
      BY <1>3, <1>7, RingSurvives
<1>10. ASSUME NEW x \in Content, Known(x)' PROVE Known(x) \/ x = pipe[1]
    BY <1>1, <1>2, <1>10, ReadKnown
<1>11. GapFollow'
  <2> SUFFICES ASSUME fetch["gap"].state # "idle", ~fetch["gap"].stale, NEW x \in Content,
                      Survives(x), log[x].seq > latestGap, Known(x)'
               PROVE  x \in taken'
      BY <1>1, <1>2, <1>3, SameContent DEF GapFollow
  <2> QED
      BY <1>3, <1>10 DEF PInv, GapFollow
<1>12. GapAnswered'
    BY <1>1, <1>2, <1>3, SameContent DEF PInv, GapAnswered
<1>13. NoSilentLoss'
  <2> SUFFICES ASSUME NEW x \in Content, Passed(x)', Survives(x)
               PROVE  x \in taken' \/ x <= told
      BY <1>1, <1>2, <1>3, SameContent DEF NoSilentLoss, Reached
  <2>1. base' < log[x].seq /\ log[x].seq <= log[pipe[1]].seq
      BY <1>2, <1>5 DEF Passed
  <2>2. CASE cursor = None
      BY <1>1, <1>3, <1>4, <1>6, <1>7, <2>1, <2>2
  <2>3. CASE cursor # None
    <3>1. log[pipe[1]].seq = cursor + 1
        BY <1>1, <1>4, <2>3 DEF IsGap
    <3>2. CASE log[x].seq = log[pipe[1]].seq
        BY <1>3, <1>7, <3>2
    <3>3. CASE log[x].seq # log[pipe[1]].seq
      <4>1. Passed(x)
          BY <1>1, <1>4, <1>6, <2>1, <2>3, <3>1, <3>3 DEF Passed
      <4> QED
          BY <1>3, <4>1 DEF PInv, NoSilentLoss, Reached
    <3> QED
        BY <3>2, <3>3
  <2> QED
      BY <2>2, <2>3
<1> QED
    BY <1>3, <1>8, <1>9, <1>11, <1>12, <1>13 DEF PInv

LEMMA ReadGapPage ==
    ASSUME IInv, PInv, ReadGap
    PROVE  PInv'
<1>1. /\ pipe # <<>>
      /\ IsGap(log[pipe[1]].seq)
      /\ Apply(pipe[1])
      /\ latestGap' = log[pipe[1]].seq
      /\ fetch' = IF fetch["gap"].state = "idle" THEN [fetch EXCEPT !["gap"] = Asked] ELSE fetch
      /\ pipe' = Tail(pipe)
      /\ UNCHANGED <<daemon, stored, subscribed, cursor, base, told>>
    BY DEF ReadGap
<1>2. UNCHANGED <<log, booted, evicted, rows, saved>>
    BY <1>1 DEF daemon, stored
<1>3. Asked.state = "asked" /\ "gap" \in Fetches /\ fetch \in [Fetches -> RequestType(Content, Len(log))]
    BY RequestFields DEF IInv, TypeOK, Asked, NoRows, Fetches
<1>4. \A f \in Fetches : fetch'[f].state = "answered" => fetch'[f] = fetch[f]
  <2>1. CASE fetch["gap"].state = "idle"
    <3>1. fetch' = [fetch EXCEPT !["gap"] = Asked]
        BY <1>1, <2>1
    <3>2. fetch'["gap"] = Asked /\ \A f \in Fetches \ {"gap"} : fetch'[f] = fetch[f]
        BY <1>3, <3>1
    <3> QED
        BY <1>3, <3>2
  <2> QED
      BY <1>1, <2>1
<1>5. /\ Issued(localSeq)' /\ SavedOK' /\ FetchedOK' /\ Following'
      /\ taken \subseteq taken'
      /\ \A x \in Content : Survives(x)' => Survives(x)
      /\ \A x \in Content : x = pipe[1] /\ Survives(x) => x \in taken'
      /\ \A x \in Content : Survives(x) /\ x > pipe[1] /\ Known(x)' => x \in taken
    BY <1>1, <1>4, ReadPage
<1>6. /\ pipe[1] \in 1..Len(log) /\ pipe[1] \in Nat
      /\ log[pipe[1]].seq \in Nat \ {0}
      /\ cursor # None
    BY <1>1, HeadOfPipe, Numbers DEF IsGap
<1>7. \A x \in Content : x \in Nat /\ log[x].seq \in Nat /\ x \in 1..Len(log)
    BY Numbers
<1>8. ASSUME NEW x \in Content, Known(x)' PROVE Known(x) \/ x = pipe[1]
    BY <1>1, <1>2, <1>8, ReadKnown
<1>9. ColdOK'
    BY <1>1, <1>6 DEF ColdOK
<1>10. RingOK'
  <2> SUFFICES ASSUME cursor # None, Complete, NEW x \in Content, x > evicted,
                      log[x].seq > cursor, Known(x)'
               PROVE  x \in taken'
      BY <1>1, <1>2, SameContent, SameComplete DEF RingOK
  <2> QED
      BY <1>5, <1>8, RingSurvives DEF PInv, RingOK
<1>11. GapFollow'
  <2> SUFFICES ASSUME NEW x \in Content, Survives(x), log[x].seq > log[pipe[1]].seq, Known(x)'
               PROVE  x \in taken'
      BY <1>1, <1>2, <1>5, SameContent DEF GapFollow
  <2>1. x > pipe[1]
    <3>1. x < pipe[1] \/ x = pipe[1] \/ x > pipe[1]
        BY <1>6, <1>7
    <3> QED
        BY <1>6, <1>7, <3>1 DEF IInv, Rises
  <2> QED
      BY <1>5, <2>1
<1>12. GapAnswered'
  <2> SUFFICES ASSUME fetch'["gap"].state = "answered", NEW x \in Content, Survives(x),
                      x > fetch'["gap"].at, log[x].seq <= log[pipe[1]].seq
               PROVE  x \in taken'
      BY <1>1, <1>2, <1>5, SameContent DEF GapAnswered
  <2>1. fetch'["gap"] = fetch["gap"] /\ fetch["gap"].state = "answered"
      BY <1>3, <1>4
  <2>2. ~fetch["gap"].stale /\ latestGap \in Nat
      BY <2>1 DEF IInv, GapOK, TypeOK, ConnectionTypes
  <2>3. CASE log[x].seq <= latestGap
      BY <1>5, <2>1, <2>3 DEF PInv, GapAnswered
  <2>4. CASE log[x].seq > latestGap
    <3>1. x <= pipe[1]
      <4>1. ~(pipe[1] < x)
          BY <1>6, <1>7 DEF IInv, Rises
      <4> QED
          BY <1>6, <1>7, <4>1
    <3>2. CASE x = pipe[1]
        BY <1>5, <3>2
    <3>3. CASE x < pipe[1]
      <4>1. ASSUME NEW i \in 1..Len(pipe) PROVE x < pipe[i]
        <5>1. 1 \in 1..Len(pipe) /\ (i = 1 \/ 1 < i)
            BY <1>1, HeadOfPipe
        <5>2. pipe[i] \in Nat /\ pipe[1] <= pipe[i]
            BY <1>6, <5>1, Numbers DEF IInv, Ordered
        <5> QED
            BY <1>6, <1>7, <3>3, <5>2
      <4>2. Known(x)
          BY <1>1, <4>1 DEF Known, Behind
      <4> QED
          BY <1>5, <2>1, <2>2, <2>4, <4>2 DEF PInv, GapFollow
    <3> QED
        BY <1>6, <1>7, <3>1, <3>2, <3>3
  <2> QED
      BY <1>7, <2>2, <2>3, <2>4
<1>13. NoSilentLoss'
    BY <1>1, <1>2, <1>5, SameContent DEF PInv, NoSilentLoss, Passed, Reached
<1> QED
    BY <1>5, <1>9, <1>10, <1>11, <1>12, <1>13 DEF PInv

-----------------------------------------------------------------------------
(* Rows are fetched and shown.                                             *)

LEMMA AnswerPage ==
    ASSUME IInv, PInv, NEW f \in Fetches, Answer(f)
    PROVE  PInv'
<1> DEFINE r == [state |-> "answered", stale |-> FALSE, rows |-> rows, seq |-> saved,
                 at |-> Len(log)]
<1>1. /\ fetch[f].state = "asked" /\ ~fetch[f].stale
      /\ UNCHANGED <<daemon, stored, connection, position, screen, told>>
      /\ fetch' = [fetch EXCEPT ![f] = r]
    BY DEF Answer
<1>2. /\ r.state = "answered" /\ r.rows = rows /\ r.seq = saved /\ r.at = Len(log)
    OBVIOUS
<1> HIDE DEF r
<1>3. UNCHANGED <<log, booted, rows, saved, localSeq, taken, latestGap>>
    BY <1>1 DEF daemon, stored, screen, position
<1>4. fetch'[f] = r /\ \A g \in Fetches \ {f} : fetch'[g] = fetch[g]
    BY <1>1, RequestFields DEF IInv, TypeOK
<1>5. Calm
    BY <1>3, SameContent DEF Calm, Survives
<1>6. Issued(localSeq)'
    BY <1>3, SameIssued DEF PInv
<1>7. told \in Nat /\ told' = told
    BY <1>1 DEF IInv, TypeOK, PageTypes
<1>8. FetchedOK'
  <2> SUFFICES ASSUME NEW g \in Fetches, fetch'[g].state = "answered"
               PROVE  /\ \A x \in fetch'[g].rows : x <= fetch'[g].at
                      /\ fetch'[g].seq # 0 =>
                           \A x \in Content : Survives(x) /\ log[x].seq <= fetch'[g].seq =>
                             x \in fetch'[g].rows
      BY <1>3, SameContent DEF FetchedOK, Survives
  <2>1. CASE g = f
    <3>1. fetch'[g].rows = rows /\ fetch'[g].seq = saved /\ fetch'[g].at = Len(log)
        BY <1>2, <1>4, <2>1
    <3>2. \A x \in rows : x <= Len(log)
        BY Numbers
    <3>3. saved # 0 => \A x \in Content : Survives(x) /\ log[x].seq <= saved => x \in rows
        BY DEF PInv, SavedOK, Survives
    <3> QED
        BY <3>1, <3>2, <3>3
  <2>2. CASE g # f
    <3>1. fetch'[g] = fetch[g] /\ fetch[g].state = "answered"
        BY <1>4, <2>2
    <3> QED
        BY <3>1 DEF PInv, FetchedOK
  <2> QED
      BY <2>1, <2>2
<1>9. GapAnswered'
  <2>1. CASE f = "gap"
    <3>1. \A x \in Content : ~(x > fetch'["gap"].at)
        BY <1>2, <1>4, <2>1, Numbers
    <3> QED
        BY <1>3, <3>1, SameContent DEF GapAnswered
  <2>2. CASE f # "gap"
    <3>1. fetch'["gap"] = fetch["gap"]
        BY <1>4, <2>2 DEF Fetches
    <3> QED
        BY <1>3, <1>5, <3>1, CalmGapAnswered DEF PInv
  <2> QED
      BY <2>1, <2>2
<1>10. fetch'["gap"].state # "idle" /\ ~fetch'["gap"].stale =>
         fetch["gap"].state # "idle" /\ ~fetch["gap"].stale
    BY <1>1, <1>4 DEF Fetches
<1> QED
    BY <1>1, <1>5, <1>6, <1>7, <1>8, <1>9, <1>10, RequestStep

(* The position that comes with rows lifts the page's over nothing that the *)
(* page has not shown by then.                                              *)
LEMMA Raised ==
    ASSUME IInv, PInv, UNCHANGED <<daemon, stored>>, NEW f \in Fetches,
           fetch[f].state = "answered", Merge(f) \/ Replace(f)
    PROVE  Calm /\ Issued(localSeq)'
<1>1. UNCHANGED <<log, booted, rows>>
    BY DEF daemon, stored
<1>2. /\ fetch[f].seq \in Nat /\ fetch[f].at \in 0..Len(log)
      /\ localSeq \in Nat /\ Len(log) \in Nat
    BY RequestFields, Numbers DEF IInv, TypeOK
<1>3. localSeq' = Larger(localSeq, fetch[f].seq) /\ taken' = taken \cup shown'
    BY DEF Merge, Replace
<1>4. Issued(localSeq)'
    BY <1>1, <1>3 DEF Larger, PInv, IInv, PositionsOK, Issued
<1>5. ASSUME NEW x \in Content, Survives(x), log[x].seq <= localSeq'
      PROVE  log[x].seq <= localSeq \/ x \in taken'
  <2> SUFFICES ASSUME fetch[f].seq > localSeq PROVE x \in shown'
      BY <1>2, <1>3, <1>5 DEF Larger
  <2>1. log[x].seq <= fetch[f].seq /\ fetch[f].seq # 0
      BY <1>2, <1>3, <1>5 DEF Larger
  <2>2. x \in fetch[f].rows /\ x <= fetch[f].at
      BY <1>5, <2>1 DEF PInv, FetchedOK
  <2>3. x \in 1..fetch[f].at
      BY <1>2, <2>2, Numbers
  <2>4. ~Keeps(f, log[x].row)
      BY <1>2, <2>3 DEF Keeps
  <2> QED
      BY <2>2, <2>4 DEF Merge, Replace
<1>6. \A x \in Content : Survives(x)' => Survives(x)
    BY <1>1, SameContent DEF Survives
<1> QED
    BY <1>1, <1>3, <1>4, <1>5, <1>6 DEF Calm

(* A request that is over, or asked anew, holds no answer.                  *)
LEMMA AnswersLeft ==
    ASSUME IInv, NEW f \in Fetches, NEW r \in {NoRows, Asked}, fetch' = [fetch EXCEPT ![f] = r]
    PROVE  /\ fetch'[f] = r
           /\ \A g \in Fetches \ {f} : fetch'[g] = fetch[g]
           /\ \A g \in Fetches : fetch'[g].state = "answered" => fetch'[g] = fetch[g]
<1>1. r.state # "answered"
    BY DEF NoRows, Asked
<1>2. fetch'[f] = r /\ \A g \in Fetches \ {f} : fetch'[g] = fetch[g]
    BY RequestFields DEF IInv, TypeOK
<1> QED
    BY <1>1, <1>2

LEMMA HistoryShownPage ==
    ASSUME IInv, PInv, HistoryShown
    PROVE  PInv'
<1>1. /\ fetch["history"].state = "answered"
      /\ UNCHANGED <<daemon, stored, connection, position, told>>
      /\ Replace("history")
      /\ fetch' = [fetch EXCEPT !["history"] = NoRows]
    BY DEF HistoryShown
<1>2. "history" \in Fetches /\ "gap" \in Fetches \ {"history"}
    BY DEF Fetches
<1>3. Calm /\ Issued(localSeq)'
    BY <1>1, <1>2, Raised
<1>4. /\ fetch'["gap"] = fetch["gap"]
      /\ \A g \in Fetches : fetch'[g].state = "answered" => fetch'[g] = fetch[g]
    BY <1>1, <1>2, AnswersLeft
<1>5. FetchedOK'
    BY <1>3, <1>4, CalmFetched DEF PInv
<1>6. GapAnswered'
    BY <1>1, <1>3, <1>4, CalmGapAnswered DEF PInv, position
<1>7. told \in Nat /\ told' = told
    BY <1>1 DEF IInv, TypeOK, PageTypes
<1> QED
    BY <1>1, <1>3, <1>4, <1>5, <1>6, <1>7, RequestStep

LEMMA Told ==
    ASSUME IInv, NEW f \in Fetches, Repairs(f)
    PROVE  told \in Nat /\ told' \in Nat /\ told <= told' /\ fetch[f].at <= told'
<1>1. told \in Nat /\ fetch[f].at \in Nat
    BY RequestFields DEF IInv, TypeOK, PageTypes
<1> QED
    BY <1>1 DEF Repairs, Larger

LEMMA ReconciledPage ==
    ASSUME IInv, PInv, Reconciled
    PROVE  PInv'
<1>1. /\ fetch["reopen"].state = "answered"
      /\ UNCHANGED <<daemon, stored, connection, position>>
      /\ Merge("reopen") /\ Repairs("reopen")
    BY DEF Reconciled
<1>2. PICK next \in {Asked, NoRows} : fetch' = [fetch EXCEPT !["reopen"] = next]
    BY DEF Reconciled
<1>3. "reopen" \in Fetches /\ "gap" \in Fetches \ {"reopen"}
    BY DEF Fetches
<1>4. Calm /\ Issued(localSeq)'
    BY <1>1, <1>3, Raised
<1>5. /\ fetch'["gap"] = fetch["gap"]
      /\ \A g \in Fetches : fetch'[g].state = "answered" => fetch'[g] = fetch[g]
    BY <1>2, <1>3, AnswersLeft
<1>6. FetchedOK'
    BY <1>4, <1>5, CalmFetched DEF PInv
<1>7. GapAnswered'
    BY <1>1, <1>4, <1>5, CalmGapAnswered DEF PInv, position
<1>8. told' \in Nat /\ told <= told'
    BY <1>1, <1>3, Told
<1> QED
    BY <1>1, <1>4, <1>5, <1>6, <1>7, <1>8, RequestStep

(* The jump of the cursor: what it goes over was shown, or has been looked  *)
(* for in the rows.                                                         *)
LEMMA GapClosedPage ==
    ASSUME IInv, PInv, GapClosed
    PROVE  PInv'
<1>1. /\ fetch["gap"].state = "answered"
      /\ UNCHANGED <<daemon, stored, connection, base>>
      /\ Merge("gap") /\ Repairs("gap")
      /\ cursor' = latestGap
      /\ fetch' = [fetch EXCEPT !["gap"] = NoRows]
    BY DEF GapClosed
<1>2. UNCHANGED <<log, booted, evicted, rows, saved, subscribed, pipe>>
    BY <1>1 DEF daemon, stored, connection
<1>3. "gap" \in Fetches /\ NoRows.state = "idle"
    BY DEF Fetches, NoRows
<1>4. Calm /\ Issued(localSeq)'
    BY <1>1, <1>3, Raised
<1>5. /\ fetch'["gap"] = NoRows
      /\ \A g \in Fetches : fetch'[g].state = "answered" => fetch'[g] = fetch[g]
    BY <1>1, <1>3, AnswersLeft
<1>6. FetchedOK' /\ GapFollow' /\ GapAnswered' /\ SavedOK'
    BY <1>2, <1>3, <1>4, <1>5, CalmFetched, SameSaved DEF PInv, GapFollow, GapAnswered
<1>7. /\ ~fetch["gap"].stale /\ latestGap # None /\ latestGap \in Nat
    BY <1>1 DEF IInv, GapOK, TypeOK, ConnectionTypes
<1>8. ColdOK'
    BY <1>1, <1>7 DEF ColdOK
<1>9. Following'
    BY <1>2, <1>4, HeadOfPipe, CalmFollowing DEF PInv
<1>10. RingOK'
  <2> SUFFICES ASSUME NEW x \in Content, x > evicted, log[x].seq > latestGap,
                      log[x].seq <= localSeq' \/ Behind(x)
               PROVE  x \in taken'
      BY <1>1, <1>2, SameContent DEF RingOK, Known, Behind
  <2>1. Survives(x)
      BY RingSurvives
  <2>2. Known(x) \/ x \in taken'
      BY <1>4, <2>1 DEF Calm, Known
  <2> QED
      BY <1>1, <1>4, <1>7, <2>1, <2>2 DEF Calm, PInv, GapFollow
<1>11. NoSilentLoss'
  <2> SUFFICES ASSUME NEW x \in Content, log[x].seq <= latestGap, Survives(x)
               PROVE  x \in taken' \/ x <= told'
      BY <1>1, <1>2, <1>4, SameContent DEF NoSilentLoss, Passed, Reached, Calm
  <2>1. fetch["gap"].at \in Nat /\ told' \in Nat /\ fetch["gap"].at <= told' /\ x \in Nat
      BY <1>1, <1>3, RequestFields, Told, Numbers DEF IInv, TypeOK
  <2> QED
      BY <1>1, <1>4, <2>1 DEF Calm, PInv, GapAnswered
<1> QED
    BY <1>4, <1>6, <1>8, <1>9, <1>10, <1>11 DEF PInv

(* The cursor is set for the first time: nothing is behind it.              *)
LEMMA HistoryAnchorsPage ==
    ASSUME IInv, PInv, HistoryAnchors
    PROVE  PInv'
<1>1. /\ fetch["history"].state = "answered"
      /\ UNCHANGED <<daemon, stored, latestGap, told>>
      /\ cursor = None
      /\ Replace("history")
      /\ cursor' = fetch["history"].seq /\ base' = fetch["history"].seq
    BY DEF HistoryAnchors
<1>2. "history" \in Fetches /\ "gap" \in Fetches \ {"history"}
    BY DEF Fetches
<1>3. UNCHANGED <<log, booted, evicted, rows, saved>>
    BY <1>1 DEF daemon, stored
<1>4. Calm /\ Issued(localSeq)'
    BY <1>1, <1>2, Raised
<1>5. pipe' = <<>> /\ ~subscribed'
    BY DEF HistoryAnchors, connection, IInv, LinkOK
<1>6. Len(pipe') = 0
    BY <1>5
<1>7. \A x : ~Behind(x)'
    BY <1>5 DEF Behind
<1>8. Stale.state = "asked" /\ Stale.stale = TRUE /\ NoRows.state = "idle"
    BY DEF Stale, Asked, NoRows
<1>9. /\ \A g \in Fetches : fetch'[g].state = "answered" => fetch'[g] = fetch[g]
      /\ fetch'["gap"].state # "idle" /\ ~fetch'["gap"].stale => fetch'["gap"] = fetch["gap"]
  <2>1. CASE fetch' = [fetch EXCEPT !["history"] = NoRows]
      BY <1>2, <2>1, AnswersLeft
  <2>2. CASE fetch' = [NewEpoch(NoRows) EXCEPT !["history"] = NoRows]
    <3> DEFINE new == NewEpoch(NoRows)
    <3>1. Len(log) \in Nat /\ NoRows \in RequestType(Content, Len(log))
        BY Numbers, Requests
    <3>2. /\ new \in [Fetches -> RequestType(Content, Len(log))]
          /\ new["gap"] = IF fetch["gap"].state = "idle" THEN fetch["gap"] ELSE Stale
          /\ new["reopen"] = NoRows
        BY <3>1, NewEpochRequests DEF IInv, TypeOK
    <3> HIDE DEF new
    <3>3. fetch' = [new EXCEPT !["history"] = NoRows]
        BY <2>2 DEF new
    <3>4. /\ fetch'["gap"] = IF fetch["gap"].state = "idle" THEN fetch["gap"] ELSE Stale
          /\ fetch'["reopen"] = NoRows /\ fetch'["history"] = NoRows
        BY <3>2, <3>3 DEF Fetches
    <3> QED
        BY <1>8, <3>4 DEF Fetches
  <2> QED
      BY <2>1, <2>2 DEF HistoryAnchors
<1>10. FetchedOK' /\ SavedOK' /\ GapAnswered'
    BY <1>1, <1>2, <1>3, <1>4, <1>9, CalmFetched, SameSaved, CalmGapAnswered DEF PInv
<1>11. GapFollow'
    BY <1>1, <1>4, <1>7, <1>9, CalmGapFollow DEF PInv
<1>12. fetch["history"].seq \in Nat
    BY <1>2, RequestFields DEF IInv, TypeOK
<1>13. ColdOK' /\ Following'
    BY <1>1, <1>5, <1>12, EventStreamAssumption DEF ColdOK, Following
<1>14. RingOK'
  <2> SUFFICES ASSUME NEW x \in Content, x > evicted, log[x].seq <= localSeq'
               PROVE  x \in taken'
      BY <1>3, <1>7, SameContent DEF RingOK, Known
  <2> QED
      BY <1>1, <1>4, RingSurvives DEF Calm, PInv, ColdOK
<1>15. NoSilentLoss'
    <2>1. \A x \in Content : ~Passed(x)'
        BY <1>1, <1>3, <1>12, Numbers DEF Passed
    <2> QED
        BY <1>3, <2>1, SameContent DEF NoSilentLoss
<1> QED
    BY <1>4, <1>10, <1>11, <1>13, <1>14, <1>15 DEF PInv

-----------------------------------------------------------------------------
(* An event is stamped: it is above every position, so nothing passes it.  *)

LEMMA AboveAll ==
    ASSUME IInv, PInv, NEW kind \in Kinds, NEW row \in Nat, Broadcast(kind, row)
    PROVE  /\ localSeq < NextSeq /\ saved < NextSeq
           /\ cursor # None => cursor < NextSeq
           /\ latestGap # None => latestGap < NextSeq
           /\ \A f \in Fetches : fetch[f].seq < NextSeq
           /\ Issued(localSeq)'
<1>1. /\ NextSeq \in Nat \ {0} /\ Len(log) \in Nat /\ Len(log') = Len(log) + 1
      /\ \A e \in 1..Len(log) : log'[e] = log[e] /\ log[e].seq < NextSeq /\ log[e].seq \in Nat
    BY Stamped, Numbers
<1>2. ASSUME NEW m \in Nat, Issued(m) PROVE m < NextSeq
  <2>1. CASE m = 0
      BY <1>1, <2>1
  <2>2. CASE m # 0
    <3>1. PICK e \in 1..Len(log) : m <= log[e].seq
        BY <1>2, <2>2 DEF Issued
    <3> QED
        BY <1>1, <3>1
  <2> QED
      BY <2>1, <2>2
<1>3. localSeq \in Nat /\ saved \in Nat /\ \A f \in Fetches : fetch[f].seq \in Nat
    BY Numbers, RequestFields DEF IInv, TypeOK
<1>4. (cursor # None => cursor \in Nat) /\ (latestGap # None => latestGap \in Nat)
    BY DEF IInv, TypeOK, ConnectionTypes
<1>5. Issued(localSeq)'
  <2>1. localSeq' = localSeq /\ \A e \in 1..Len(log) : e \in 1..Len(log')
      BY <1>1 DEF Broadcast, screen
  <2> QED
      BY <1>1, <2>1 DEF PInv, Issued
<1> QED
    BY <1>2, <1>3, <1>4, <1>5 DEF PInv, IInv, PositionsOK

(* The connection is past it only if it was not for this client.           *)
LEMMA SentOrHidden ==
    ASSUME IInv, NEW kind \in Kinds, NEW row \in Nat, Broadcast(kind, row),
           NEW n \in Nat, n = Len(log) + 1
    PROVE  /\ n \in Content' => ~Behind(n)'
           /\ \A x \in Content : Behind(x)' => Behind(x)
           /\ pipe' # <<>> => (pipe # <<>> /\ pipe'[1] = pipe[1]) \/ pipe'[1] = n
<1>1. /\ Len(log) \in Nat /\ Len(log') = n
      /\ log'[n] = [seq |-> NextSeq, kind |-> kind, row |-> row]
    BY Stamped
<1>2. log'[n].kind = kind
    BY <1>1
<1>3. /\ Len(pipe) \in Nat /\ pipe \in Seq(1..Len(log))
      /\ \A i \in 1..Len(pipe) : pipe[i] \in 1..Len(log)
    BY Numbers DEF IInv, TypeOK, ConnectionTypes
<1>4. CASE UNCHANGED pipe /\ (subscribed' => subscribed /\ kind = "hidden")
  <2>1. \A x : Behind(x)' => Behind(x)
      BY <1>4, SameBehind
  <2>2. ASSUME n \in Content', Behind(n)' PROVE FALSE
    <3>1. kind = "content"
        BY <1>2, <2>2 DEF Content
    <3>2. pipe # <<>> /\ \A i \in 1..Len(pipe) : n < pipe[i]
        BY <1>4, <2>2, <3>1 DEF Behind
    <3>3. 1 \in 1..Len(pipe)
        BY <1>3, <3>2, EmptySeq
    <3>4. n < pipe[1] /\ pipe[1] \in 1..Len(log)
        BY <1>3, <3>2, <3>3
    <3> QED
        BY <1>1, <3>4
  <2> QED
      BY <1>4, <2>1, <2>2
<1>5. CASE pipe' = Append(pipe, n) /\ subscribed /\ subscribed' = subscribed
  <2>1. /\ Len(pipe') = Len(pipe) + 1
        /\ \A i \in 1..Len(pipe) : pipe'[i] = pipe[i]
        /\ pipe'[Len(pipe) + 1] = n
      BY <1>3, <1>5
  <2>2. \A i \in 1..Len(pipe) : i \in 1..Len(pipe')
      BY <1>3, <2>1
  <2>3. \A x \in Content : Behind(x)' => Behind(x)
      BY <1>5, <2>1, <2>2 DEF Behind
  <2>4. Len(pipe) + 1 \in 1..Len(pipe')
      BY <1>3, <2>1
  <2>5. ~Behind(n)'
      BY <2>1, <2>4 DEF Behind
  <2>6. pipe # <<>> => 1 \in 1..Len(pipe)
      BY <1>3, EmptySeq
  <2>7. pipe = <<>> => Len(pipe) = 0
      OBVIOUS
  <2>8. (pipe # <<>> /\ pipe'[1] = pipe[1]) \/ pipe'[1] = n
      BY <2>1, <2>6, <2>7
  <2> QED
      BY <2>3, <2>5, <2>8
<1>6. subscribed \in BOOLEAN
    BY DEF IInv, TypeOK, ConnectionTypes
<1> QED
    BY <1>4, <1>5, <1>6 DEF Broadcast, Sends

(* A replay that would be complete with it was so for older content.       *)
LEMMA CompleteBefore ==
    ASSUME IInv, NEW kind \in Kinds, NEW row \in Nat, Broadcast(kind, row),
           NEW x \in Content, x > evicted', cursor # None, Complete'
    PROVE  x > evicted /\ Complete
<1>1. /\ Len(log) \in Nat /\ Len(log') = Len(log) + 1
      /\ \A e \in 1..Len(log) : log'[e] = log[e]
    BY Stamped
<1>2. /\ evicted \in Nat /\ booted \in Nat /\ booted <= evicted /\ x \in 1..Len(log)
      /\ \A e \in 1..Len(log) : log[e].seq \in Nat
      /\ cursor \in Nat
    BY Numbers DEF IInv, TypeOK, ConnectionTypes
<1>3. PICK v : v = evicted'
    OBVIOUS
<1>4. v \in Nat /\ evicted <= v /\ booted' = booted /\ cursor' = cursor
  <2>1. v = Larger(evicted, Len(log) + 1 - RingLimit) /\ booted' = booted /\ cursor' = cursor
      BY <1>3 DEF Broadcast, position
  <2>2. v \in Nat /\ evicted <= v
      BY <1>1, <1>2, <2>1, EventStreamAssumption DEF Larger
  <2> QED
      BY <2>1, <2>2
<1>5. v + 1 \in 1..Len(log) /\ evicted + 1 \in 1..Len(log) /\ booted + 1 \in 1..Len(log)
  <2>1. x \in Nat /\ x <= Len(log) /\ v < x
      BY <1>1, <1>2, <1>3
  <2> QED
      BY <1>1, <1>2, <1>4, <2>1
<1>6. log[evicted + 1].seq <= log[v + 1].seq
  <2>1. v = evicted \/ evicted + 1 < v + 1
      BY <1>2, <1>4
  <2> QED
      BY <1>2, <1>5, <2>1 DEF IInv, Rises
<1>7. x > evicted /\ evicted < Len(log)
    BY <1>1, <1>2, <1>3, <1>4
<1>8. CASE cursor >= log[v + 1].seq - 1
  <2>1. cursor >= log[evicted + 1].seq - 1
      BY <1>2, <1>5, <1>6, <1>8
  <2> QED
      BY <1>7, <2>1 DEF Complete
<1>9. CASE cursor < log[booted + 1].seq /\ v = booted
    BY <1>2, <1>4, <1>7, <1>9 DEF Complete, CoversRestartGap
<1> QED
    BY <1>1, <1>3, <1>4, <1>5, <1>7, <1>8, <1>9 DEF Complete, CoversRestartGap

LEMMA BroadcastPage ==
    ASSUME IInv, PInv, NEW kind \in Kinds, NEW row \in Nat, Broadcast(kind, row)
    PROVE  PInv'
<1>1. PICK n \in Nat : n = Len(log) + 1
    BY Numbers
<1>2. /\ NextSeq \in Nat \ {0} /\ Len(log) \in Nat /\ Len(log') = n
      /\ \A e \in 1..Len(log) : log'[e] = log[e]
      /\ log'[n] = [seq |-> NextSeq, kind |-> kind, row |-> row]
    BY <1>1, Stamped
<1>3. log'[n].seq = NextSeq
    BY <1>2
<1>4. /\ localSeq < NextSeq /\ saved < NextSeq
      /\ cursor # None => cursor < NextSeq
      /\ latestGap # None => latestGap < NextSeq
      /\ \A f \in Fetches : fetch[f].seq < NextSeq
      /\ Issued(localSeq)'
    BY AboveAll
<1>5. /\ n \in Content' => ~Behind(n)'
      /\ \A x \in Content : Behind(x)' => Behind(x)
      /\ pipe' # <<>> => (pipe # <<>> /\ pipe'[1] = pipe[1]) \/ pipe'[1] = n
    BY <1>1, SentOrHidden
<1>6. UNCHANGED <<booted, rows, saved, cursor, latestGap, base, localSeq, taken, told, fetch>>
    BY DEF Broadcast, stored, position, screen
<1>7. /\ \A x \in Content' : x = n \/ (x \in Content /\ log'[x] = log[x])
      /\ \A x \in Content : x \in Nat /\ x < n /\ log[x].seq \in Nat /\ x \in 1..Len(log)
  <2>1. \A x \in 1..Len(log') : x = n \/ x \in 1..Len(log)
      BY <1>1, <1>2
  <2> QED
      BY <1>1, <1>2, <2>1, Numbers DEF Content
<1>8. /\ localSeq \in Nat /\ saved \in Nat /\ \A f \in Fetches : fetch[f].seq \in Nat
      /\ cursor # None => cursor \in Nat
      /\ latestGap # None => latestGap \in Nat
    BY Numbers, RequestFields DEF IInv, TypeOK, ConnectionTypes
<1>9. \A x \in Content : Survives(x)' => Survives(x)
    BY <1>6 DEF Survives
<1>10. n \in Content' => ~Known(n)'
    BY <1>2, <1>3, <1>4, <1>5, <1>6, <1>8 DEF Known
<1>11. \A x \in Content : log'[x] = log[x] /\ Known(x)' => Known(x)
    BY <1>5, <1>6 DEF Known
<1>12. SavedOK'
    BY <1>2, <1>3, <1>4, <1>6, <1>7, <1>8 DEF PInv, SavedOK
<1>13. FetchedOK'
  <2> SUFFICES ASSUME NEW f \in Fetches, fetch[f].state = "answered"
               PROVE  /\ \A x \in fetch[f].rows : x <= fetch[f].at
                      /\ fetch[f].seq # 0 =>
                           \A x \in Content' : Survives(x)' /\ log'[x].seq <= fetch[f].seq =>
                             x \in fetch[f].rows
      BY <1>6 DEF FetchedOK
  <2>1. ~(NextSeq <= fetch[f].seq)
      BY <1>2, <1>4, <1>8
  <2> QED
      BY <1>3, <1>7, <1>9, <2>1 DEF PInv, FetchedOK
<1>14. ColdOK'
    BY <1>2, <1>3, <1>4, <1>6, <1>7, <1>8, <1>9 DEF PInv, ColdOK
<1>15. Following'
  <2> SUFFICES ASSUME pipe' # <<>>, NEW x \in Content', x >= pipe'[1], Survives(x)',
                      log'[x].seq <= localSeq
               PROVE  x \in taken
      BY <1>6 DEF Following
  <2>1. x \in Content /\ log'[x] = log[x] /\ Survives(x)
      BY <1>2, <1>3, <1>4, <1>7, <1>8, <1>9
  <2>2. pipe'[1] # n
      BY <1>7, <2>1
  <2> QED
      BY <1>5, <2>1, <2>2 DEF PInv, Following
<1>16. RingOK'
  <2> SUFFICES ASSUME cursor # None, Complete', NEW x \in Content', x > evicted',
                      log'[x].seq > cursor, Known(x)'
               PROVE  x \in taken
      BY <1>6 DEF RingOK
  <2>1. x \in Content /\ log'[x] = log[x] /\ Known(x)
      BY <1>7, <1>10, <1>11
  <2>2. x > evicted /\ Complete
      BY <2>1, CompleteBefore
  <2> QED
      BY <2>1, <2>2 DEF PInv, RingOK
<1>17. GapFollow'
    BY <1>6, <1>7, <1>9, <1>10, <1>11 DEF PInv, GapFollow
<1>18. GapAnswered'
  <2> SUFFICES ASSUME fetch["gap"].state = "answered", NEW x \in Content', Survives(x)',
                      x > fetch["gap"].at, log'[x].seq <= latestGap
               PROVE  x \in taken
      BY <1>6 DEF GapAnswered
  <2>1. latestGap # None
      BY DEF IInv, GapOK
  <2>2. x \in Content /\ log'[x] = log[x] /\ Survives(x)
      BY <1>2, <1>3, <1>4, <1>7, <1>8, <1>9, <2>1
  <2> QED
      BY <2>2 DEF PInv, GapAnswered
<1>19. NoSilentLoss'
  <2> SUFFICES ASSUME NEW x \in Content', cursor # None, base < log'[x].seq,
                      log'[x].seq <= cursor, Survives(x)'
               PROVE  x \in taken \/ x <= told
      BY <1>6 DEF NoSilentLoss, Passed, Reached
  <2>1. x \in Content /\ log'[x] = log[x] /\ Survives(x)
      BY <1>2, <1>3, <1>4, <1>7, <1>8, <1>9
  <2> QED
      BY <2>1 DEF PInv, NoSilentLoss, Passed, Reached
<1> QED
    BY <1>4, <1>12, <1>13, <1>14, <1>15, <1>16, <1>17, <1>18, <1>19 DEF PInv

LEMMA StampPage ==
    ASSUME IInv, PInv, Delta \/ Signal
    PROVE  PInv'
<1>1. CASE Delta
  <2>1. PICK row \in {writing, writing + 1} : "content" \in Kinds /\ Broadcast("content", row)
      BY <1>1 DEF Delta
  <2>2. row \in Nat
      BY <2>1 DEF IInv, TypeOK, DaemonTypes
  <2> QED
      BY <2>1, <2>2, BroadcastPage
<1>2. CASE Signal
  <2>1. PICK kind \in Kinds : Broadcast(kind, 0)
      BY <1>2 DEF Signal
  <2> QED
      BY <2>1, BroadcastPage
<1> QED
    BY <1>1, <1>2

LEMMA StutteringPage ==
    ASSUME IInv, PInv, UNCHANGED vars
    PROVE  PInv'
BY QuietRequestStep DEF vars

-----------------------------------------------------------------------------
(* The theorems.                                                           *)

LEMMA PageInductive == IInv /\ PInv /\ [Next]_vars => PInv'
<1> SUFFICES ASSUME IInv, PInv, [Next]_vars PROVE PInv'
    OBVIOUS
<1>1. CASE Delta \/ Signal \/ Evict \/ HeartbeatSheds \/ Flush \/ Crash
    BY <1>1, StampPage, EvictPage, HeartbeatShedsPage, FlushPage, CrashPage
<1>2. CASE Attach \/ ReadNext \/ ReadGap \/ Ended \/ Break \/ Reopen
    BY <1>2, AttachPage, ReadNextPage, ReadGapPage, EndedPage, BreakPage, ReopenPage
<1>3. CASE \E f \in Fetches : Answer(f)
    BY <1>3, AnswerPage
<1>4. CASE HistoryShown \/ HistoryAnchors
    BY <1>4, HistoryShownPage, HistoryAnchorsPage
<1>5. CASE GapClosed \/ GapOutdated \/ GapFails \/ Reconciled
    BY <1>5, GapClosedPage, GapEndsPage, ReconciledPage
<1>6. CASE UNCHANGED vars
    BY <1>6, StutteringPage
<1> QED
    BY <1>1, <1>2, <1>3, <1>4, <1>5, <1>6 DEF Next

LEMMA PageInvariance == Spec => []PInv
<1>1. Init => PInv
    BY FirstPage
<1>2. IInv /\ PInv /\ [Next]_vars => PInv'
    BY PageInductive
<1> QED
    BY <1>1, <1>2, Invariance, PTL DEF Spec

(* The cursor passes no content that survives unless the page has shown it  *)
(* or has read the rows since it was stamped: jumps wait for the reconcile  *)
(* of the connection that they were seen on.                                *)
THEOREM NoLossUnseen == Spec => []NoSilentLoss
<1>1. PInv => NoSilentLoss
    BY DEF PInv
<1> QED
    BY <1>1, PageInvariance, PTL

(* What is on its way to the page and at or below the page's own position   *)
(* has been shown: the idempotent apply drops repeats only.                 *)
THEOREM OnlyRepeatsDropped == Spec => []NothingSkipped
<1>1. ASSUME IInv, PInv PROVE NothingSkipped
  <2> SUFFICES ASSUME NEW i \in 1..Len(pipe), Survives(pipe[i]), log[pipe[i]].seq <= localSeq
               PROVE  pipe[i] \in taken
      BY DEF NothingSkipped
  <2>1. pipe[i] \in Content
      BY <1>1, Numbers DEF Survives
  <2>2. pipe # <<>> /\ 1 \in 1..Len(pipe) /\ (i = 1 \/ 1 < i)
      BY <1>1, Numbers, EmptySeq DEF IInv, TypeOK, ConnectionTypes
  <2>3. pipe[i] >= pipe[1]
    <3>1. pipe[i] \in Nat /\ pipe[1] \in Nat
        BY <1>1, <2>2, Numbers
    <3>2. 1 < i => pipe[1] < pipe[i]
        BY <1>1, <2>2 DEF IInv, Ordered
    <3> QED
        BY <2>2, <3>1, <3>2
  <2> QED
      BY <1>1, <2>1, <2>2, <2>3 DEF PInv, Following
<1> QED
    BY <1>1, PageInvariance, Invariance, PTL

=============================================================================
