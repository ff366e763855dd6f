-------------------------- MODULE EventStreamProofs --------------------------
(* Theorems about EventStream for any ring, reservation block and queue,   *)
(* and any number of pieces, signals and faults.                           *)
EXTENDS EventStream, FiniteSetTheorems, SequenceTheorems, TLAPS

-----------------------------------------------------------------------------
(* Sets of events in order.                                                *)

UpTo(S, e) == {d \in S : d <= e}

(* The place of an event in a set.                                         *)
Rank(S, e) == Cardinality(UpTo(S, e))

LEMMA RankProperties ==
    ASSUME NEW n \in Nat, NEW S \in SUBSET (1..n)
    PROVE  /\ IsFiniteSet(S)
           /\ Cardinality(S) \in Nat
           /\ \A e \in S :
                /\ Rank(S, e) \in 1..Cardinality(S)
                /\ Rank(S, e) = Cardinality(S) => UpTo(S, e) = S
           /\ \A d, e \in S : d < e => Rank(S, d) < Rank(S, e)
<1>1. IsFiniteSet(S)
  <2>1. IsFiniteSet(1..n)
      BY FS_Interval
  <2> QED
      BY <2>1, FS_Subset
<1>2. Cardinality(S) \in Nat
    BY <1>1, FS_CardinalityType
<1>3. ASSUME NEW e \in S
      PROVE  /\ IsFiniteSet(UpTo(S, e))
             /\ Rank(S, e) \in 1..Cardinality(S)
             /\ Rank(S, e) = Cardinality(S) => UpTo(S, e) = S
  <2>1. UpTo(S, e) \in SUBSET S /\ e \in UpTo(S, e)
      BY DEF UpTo
  <2>2. /\ IsFiniteSet(UpTo(S, e))
        /\ Rank(S, e) <= Cardinality(S)
        /\ Cardinality(S) = Rank(S, e) => S = UpTo(S, e)
      BY <1>1, <2>1, FS_Subset DEF Rank
  <2>3. Rank(S, e) \in Nat
      BY <2>2, FS_CardinalityType DEF Rank
  <2>4. Rank(S, e) # 0
      BY <2>1, <2>2, FS_EmptySet DEF Rank
  <2> QED
      BY <1>2, <2>2, <2>3, <2>4
<1>4. ASSUME NEW d \in S, NEW e \in S, d < e
      PROVE  Rank(S, d) < Rank(S, e)
  <2>1. d \in Int /\ e \in Int
      OBVIOUS
  <2>2. ASSUME NEW c \in S, c <= d PROVE c <= e
      BY <1>4, <2>1, <2>2
  <2>3. UpTo(S, d) \in SUBSET UpTo(S, e)
      BY <2>2 DEF UpTo
  <2>4. e \in UpTo(S, e) /\ e \notin UpTo(S, d)
      BY <1>4, <2>1 DEF UpTo
  <2>5. IsFiniteSet(UpTo(S, e))
      BY <1>3
  <2>6. /\ Rank(S, d) <= Rank(S, e)
        /\ Rank(S, e) = Rank(S, d) => UpTo(S, e) = UpTo(S, d)
      BY <2>3, <2>5, FS_Subset DEF Rank
  <2>7. Rank(S, d) \in Nat /\ Rank(S, e) \in Nat
      BY <1>2, <1>3
  <2> QED
      BY <2>4, <2>6, <2>7
<1> QED
    BY <1>1, <1>2, <1>3, <1>4

(* Every place in the order is taken.                                      *)
LEMMA RankTaken ==
    ASSUME NEW n \in Nat, NEW S \in SUBSET (1..n), NEW i \in 1..Cardinality(S)
    PROVE  \E e \in S : Rank(S, e) = i
<1> DEFINE rank == [e \in S |-> Rank(S, e)]
<1>1. /\ IsFiniteSet(S)
      /\ Cardinality(S) \in Nat
      /\ \A e \in S : Rank(S, e) \in 1..Cardinality(S)
      /\ \A d, e \in S : d < e => Rank(S, d) < Rank(S, e)
    BY RankProperties
<1>2. \A d, e \in S : Rank(S, d) = Rank(S, e) => d = e
    BY <1>1
<1>3. rank \in Injection(S, 1..Cardinality(S))
    BY <1>1, <1>2 DEF Injection, IsInjective
<1>4. /\ IsFiniteSet(1..Cardinality(S))
      /\ Cardinality(1..Cardinality(S)) = Cardinality(S)
    BY <1>1, FS_Interval
<1>5. rank \in Surjection(S, 1..Cardinality(S))
    BY <1>3, <1>4, FS_Injection
<1> QED
    BY <1>5 DEF Surjection

LEMMA OldestFirstProperties ==
    ASSUME NEW n \in Nat, NEW S \in SUBSET (1..n)
    PROVE  /\ OldestFirst(S) \in Seq(S)
           /\ \A i, j \in 1..Len(OldestFirst(S)) :
                i < j => OldestFirst(S)[i] < OldestFirst(S)[j]
           /\ \A e \in S : \E i \in 1..Len(OldestFirst(S)) : OldestFirst(S)[i] = e
<1> DEFINE w == OldestFirst(S)
           size == Cardinality(S)
<1>1. /\ size \in Nat
      /\ \A e \in S : Rank(S, e) \in 1..size
      /\ \A d, e \in S : d < e => Rank(S, d) < Rank(S, e)
    BY RankProperties
<1>2. w = [i \in 1..size |-> CHOOSE e \in S : Rank(S, e) = i]
    BY DEF OldestFirst, Rank, UpTo
<1>3. \A i \in 1..size : \E e \in S : Rank(S, e) = i
    BY RankTaken
<1> HIDE DEF w, size
<1>4. \A i \in 1..size : w[i] \in S /\ Rank(S, w[i]) = i
    BY <1>2, <1>3
<1>5. w \in Seq(S) /\ Len(w) = size
    BY <1>1, <1>2, <1>4
<1>6. ASSUME NEW i \in 1..size, NEW j \in 1..size, i < j
      PROVE  w[i] < w[j]
  <2>1. PICK d \in S : d = w[i] /\ Rank(S, d) = i
      BY <1>4
  <2>2. PICK e \in S : e = w[j] /\ Rank(S, e) = j
      BY <1>4
  <2>3. d \in Int /\ e \in Int
      OBVIOUS
  <2>4. ~(e < d) /\ d # e
      BY <1>1, <1>6, <2>1, <2>2
  <2> QED
      BY <2>1, <2>2, <2>3, <2>4
<1>7. ASSUME NEW e \in S PROVE \E i \in 1..size : w[i] = e
  <2>1. PICK i \in 1..size : i = Rank(S, e)
      BY <1>1
  <2>2. PICK d \in S : d = w[i] /\ Rank(S, d) = i
      BY <1>4
  <2>3. d \in Int /\ e \in Int
      OBVIOUS
  <2>4. ~(d < e) /\ ~(e < d)
      BY <1>1, <2>1, <2>2
  <2> QED
      BY <2>1, <2>2, <2>3, <2>4
<1> QED
    BY <1>5, <1>6, <1>7 DEF w

(* A set of events that is not empty has a newest one.                     *)
LEMMA HasNewest ==
    ASSUME NEW n \in Nat, NEW S \in SUBSET (1..n), S # {}
    PROVE  \E e \in S : \A d \in S : d <= e
<1>1. /\ IsFiniteSet(S)
      /\ Cardinality(S) \in Nat
      /\ \A e \in S : Rank(S, e) = Cardinality(S) => UpTo(S, e) = S
    BY RankProperties
<1>2. Cardinality(S) # 0
    BY <1>1, FS_EmptySet
<1>3. Cardinality(S) \in 1..Cardinality(S)
    BY <1>1, <1>2
<1>4. PICK e \in S : Rank(S, e) = Cardinality(S)
    BY <1>3, RankTaken
<1>5. UpTo(S, e) = S
    BY <1>1, <1>4
<1> QED
    BY <1>5 DEF UpTo

-----------------------------------------------------------------------------
(* The inductive invariant.                                                *)

(* Numbers go up along the stream, and none is above what is reserved.     *)
Rises == \A d, e \in 1..Len(log) : d < e => log[d].seq < log[e].seq
Reserved == \A e \in 1..Len(log) : log[e].seq <= disk

(* A position is that of an event, or an earlier one.                      *)
Issued(n) == n = 0 \/ \E e \in 1..Len(log) : n <= log[e].seq
PositionsOK ==
  /\ cursor # None => Issued(cursor)
  /\ latestGap # None => Issued(latestGap)
  /\ Issued(saved)
  /\ \A f \in Fetches : Issued(fetch[f].seq)

(* Nothing is on its way unless the client reads.                          *)
LinkOK == link # "up" => pipe = <<>> /\ ~subscribed

(* The reconcile of a gap is about the connection being read: the jump it  *)
(* will make goes to an event read on it.                                  *)
GapOK ==
  /\ fetch["gap"].state = "answered" => ~fetch["gap"].stale
  /\ fetch["gap"].state # "idle" /\ ~fetch["gap"].stale =>
       /\ link # "asked"
       /\ latestGap # None
       /\ \A i \in 1..Len(pipe) : log[pipe[i]].seq > latestGap

(* What is on its way is in order, however far apart.                      *)
Ordered == \A i, j \in 1..Len(pipe) : i < j => pipe[i] < pipe[j]

IInv ==
  /\ TypeOK
  /\ Rises
  /\ Reserved
  /\ PositionsOK
  /\ LinkOK
  /\ GapOK
  /\ Ordered
  /\ Contiguous
  /\ NeverBackwards

Stale == [Asked EXCEPT !.stale = TRUE]
RequestType(C, n) ==
  [state : {"idle", "asked", "answered"}, stale : BOOLEAN, rows : SUBSET C, seq : Nat, at : 0..n]

LEMMA Requests ==
    ASSUME NEW C, NEW n \in Nat
    PROVE  /\ NoRows \in RequestType(C, n) /\ NoRows.state = "idle" /\ NoRows.stale = FALSE
           /\ NoRows.rows = {} /\ NoRows.seq = 0 /\ NoRows.at = 0
           /\ Asked \in RequestType(C, n) /\ Asked.state = "asked" /\ Asked.stale = FALSE
           /\ Asked.rows = {} /\ Asked.seq = 0 /\ Asked.at = 0
           /\ Stale \in RequestType(C, n) /\ Stale.state = "asked" /\ Stale.stale = TRUE
           /\ Stale.rows = {} /\ Stale.seq = 0 /\ Stale.at = 0
<1>1. /\ NoRows \in RequestType(C, n) /\ NoRows.state = "idle" /\ NoRows.stale = FALSE
      /\ NoRows.rows = {} /\ NoRows.seq = 0 /\ NoRows.at = 0
    BY DEF NoRows, RequestType
<1>2. /\ Asked \in RequestType(C, n) /\ Asked.state = "asked" /\ Asked.stale = FALSE
      /\ Asked.rows = {} /\ Asked.seq = 0 /\ Asked.at = 0
    BY <1>1 DEF Asked, RequestType
<1>3. /\ Stale \in RequestType(C, n) /\ Stale.state = "asked" /\ Stale.stale = TRUE
      /\ Stale.rows = {} /\ Stale.seq = 0 /\ Stale.at = 0
    BY <1>2 DEF Stale, RequestType
<1> QED
    BY <1>1, <1>2, <1>3

LEMMA Initially == Init => IInv
<1> SUFFICES ASSUME Init PROVE IInv
    OBVIOUS
<1>1. Len(log) = 0 /\ Len(pipe) = 0 /\ log \in Seq({}) /\ pipe \in Seq({})
    BY DEF Init
<1>2. \A f \in Fetches : fetch[f].stale = FALSE /\ fetch[f].rows = {} /\ fetch[f].seq = 0
  <2> SUFFICES ASSUME NEW f \in Fetches
               PROVE  fetch[f].stale = FALSE /\ fetch[f].rows = {} /\ fetch[f].seq = 0
      OBVIOUS
  <2>1. fetch[f] = NoRows \/ fetch[f] = Asked
      BY DEF Init
  <2> QED
      BY <1>1, <2>1, Requests
<1>3. fetch["gap"].state = "idle"
  <2>1. fetch["gap"] = NoRows
      BY DEF Init, Fetches
  <2> QED
      BY <1>1, <2>1, Requests
<1>4. DaemonTypes /\ ConnectionTypes /\ PageTypes
  <2>1. DaemonTypes
      BY <1>1 DEF Init, DaemonTypes
  <2>2. ConnectionTypes
      BY <1>1, EmptySeq DEF Init, ConnectionTypes
  <2>3. PageTypes
      BY <1>1, EventStreamAssumption DEF Init, PageTypes
  <2> QED
      BY <2>1, <2>2, <2>3
<1>5. FetchTypes
    BY <1>1, Requests DEF Init, FetchTypes, RequestType
<1>6. Rises /\ Reserved /\ Ordered /\ Contiguous /\ NeverBackwards
    BY <1>1 DEF Init, Rises, Reserved, Ordered, Contiguous, NeverBackwards
<1>7. PositionsOK /\ LinkOK /\ GapOK
    BY <1>2, <1>3 DEF Init, PositionsOK, LinkOK, GapOK, Issued
<1> QED
    BY <1>4, <1>5, <1>6, <1>7 DEF IInv, TypeOK

-----------------------------------------------------------------------------
(* What a step leaves alone.                                               *)

LEMMA LogTypes ==
    ASSUME DaemonTypes
    PROVE  /\ Len(log) \in Nat
           /\ \A e \in 1..Len(log) :
                /\ log[e] \in [seq : Nat \ {0}, kind : Kinds, row : Nat]
                /\ log[e].seq \in Nat \ {0}
                /\ log[e].kind \in Kinds
                /\ log[e].row \in Nat
<1>1. Len(log) \in Nat
    BY DEF DaemonTypes
<1>2. \A e \in 1..Len(log) : log[e] \in [seq : Nat \ {0}, kind : Kinds, row : Nat]
    BY ElementOfSeq DEF DaemonTypes
<1> QED
    BY <1>1, <1>2

LEMMA SameDaemon ==
    ASSUME DaemonTypes, UNCHANGED <<daemon, stored>>
    PROVE  DaemonTypes'
BY DEF DaemonTypes, daemon, stored, Content

LEMMA SameConnection ==
    ASSUME ConnectionTypes, UNCHANGED <<log, connection, link, position>>
    PROVE  ConnectionTypes'
BY DEF ConnectionTypes, connection, position

LEMMA SamePage ==
    ASSUME PageTypes, UNCHANGED <<log, screen, lost, told>>, faultsLeft' \in 0..MaxFaults
    PROVE  PageTypes'
BY DEF PageTypes, screen, Content

LEMMA SameFetch ==
    ASSUME FetchTypes, UNCHANGED <<log, fetch>>
    PROVE  FetchTypes'
BY DEF FetchTypes, Content

LEMMA FaultCounted ==
    ASSUME PageTypes, Fault
    PROVE  faultsLeft' \in 0..MaxFaults
BY EventStreamAssumption DEF PageTypes, Fault

LEMMA SameStream ==
    ASSUME Rises, Reserved, UNCHANGED <<log, disk>>
    PROVE  Rises' /\ Reserved' /\ \A n : Issued(n)' <=> Issued(n)
BY DEF Rises, Reserved, Issued

LEMMA SamePositions ==
    ASSUME PositionsOK, UNCHANGED <<log, cursor, latestGap, saved, fetch>>
    PROVE  PositionsOK'
BY DEF PositionsOK, Issued

LEMMA SameGap ==
    ASSUME GapOK, UNCHANGED <<log, pipe, link, latestGap, fetch>>
    PROVE  GapOK'
BY DEF GapOK

LEMMA SamePipe ==
    ASSUME Ordered, Contiguous, UNCHANGED <<log, pipe>>, subscribed' => subscribed
    PROVE  Ordered' /\ Contiguous'
BY DEF Ordered, Contiguous

LEMMA SameAhead ==
    ASSUME NeverBackwards, UNCHANGED <<log, pipe, cursor>>
    PROVE  NeverBackwards'
BY DEF NeverBackwards

-----------------------------------------------------------------------------
(* The steps of the daemon, other than sending.                            *)

LEMMA EvictStep ==
    ASSUME IInv, Evict
    PROVE  IInv'
<1> USE DEF IInv, TypeOK, Evict, connection, position
<1>1. DaemonTypes'
    BY LogTypes DEF DaemonTypes, stored, Content
<1>2. ConnectionTypes' /\ PageTypes' /\ FetchTypes'
    BY SameConnection, SamePage, SameFetch DEF PageTypes
<1>3. Rises' /\ Reserved' /\ PositionsOK' /\ LinkOK' /\ GapOK'
    BY SameStream, SamePositions, SameGap DEF LinkOK, stored
<1>4. Ordered' /\ Contiguous' /\ NeverBackwards'
    BY SamePipe, SameAhead
<1> QED
    BY <1>1, <1>2, <1>3, <1>4

LEMMA HeartbeatShedsStep ==
    ASSUME IInv, HeartbeatSheds
    PROVE  IInv'
<1> USE DEF IInv, TypeOK, HeartbeatSheds, daemon, stored, position
<1>1. DaemonTypes' /\ PageTypes' /\ FetchTypes'
    BY SameDaemon, SamePage, SameFetch, FaultCounted
<1>2. ConnectionTypes'
    BY DEF ConnectionTypes
<1>3. Rises' /\ Reserved' /\ PositionsOK' /\ LinkOK' /\ GapOK'
    BY SameStream, SamePositions, SameGap DEF LinkOK
<1>4. Ordered' /\ Contiguous' /\ NeverBackwards'
    BY SamePipe, SameAhead
<1> QED
    BY <1>1, <1>2, <1>3, <1>4

LEMMA FlushStep ==
    ASSUME IInv, Flush
    PROVE  IInv'
<1> DEFINE last == CHOOSE e \in Unsaved : \A d \in Unsaved : d <= e
<1>1. Unsaved \in SUBSET (1..Len(log)) /\ Unsaved \subseteq Content /\ Len(log) \in Nat
    BY LogTypes DEF IInv, TypeOK, Unsaved, Content
<1>2. \E e \in Unsaved : \A d \in Unsaved : d <= e
    BY <1>1, HasNewest DEF Flush
<1>3. last \in 1..Len(log)
    BY <1>1, <1>2
<1>4. saved' = log[last].seq
    BY DEF Flush
<1> HIDE DEF last
<1>5. log[last].seq \in Nat
    BY <1>3, LogTypes DEF IInv, TypeOK
<1> USE DEF IInv, TypeOK, Flush, daemon, connection, position
<1>6. DaemonTypes'
    BY <1>1, <1>4, <1>5 DEF DaemonTypes, Content
<1>7. ConnectionTypes' /\ PageTypes' /\ FetchTypes'
    BY SameConnection, SamePage, SameFetch DEF PageTypes
<1>8. Rises' /\ Reserved' /\ \A n : Issued(n)' <=> Issued(n)
    BY SameStream
<1>9. Issued(saved')
    BY <1>3, <1>4, <1>5 DEF Issued
<1>10. PositionsOK' /\ LinkOK' /\ GapOK'
    BY <1>8, <1>9, SameGap DEF PositionsOK, LinkOK
<1>11. Ordered' /\ Contiguous' /\ NeverBackwards'
    BY SamePipe, SameAhead
<1> QED
    BY <1>6, <1>7, <1>8, <1>10, <1>11

LEMMA PipeTypes ==
    ASSUME ConnectionTypes
    PROVE  Len(pipe) \in Nat /\ \A i \in 1..Len(pipe) : pipe[i] \in 1..Len(log)
<1>1. Len(pipe) \in Nat
    BY DEF ConnectionTypes
<1>2. \A i \in 1..Len(pipe) : pipe[i] \in 1..Len(log)
    BY ElementOfSeq DEF ConnectionTypes
<1> QED
    BY <1>1, <1>2

(* A part of what was on its way.                                          *)
LEMMA PartOfPipe ==
    ASSUME Ordered, Contiguous, log' = log, NEW m \in Nat,
           Len(pipe) \in Nat, Len(pipe') \in Nat, m + Len(pipe') <= Len(pipe),
           \A i \in 1..Len(pipe') : pipe'[i] = pipe[m + i],
           subscribed' => subscribed /\ m + Len(pipe') = Len(pipe),
           pipe # <<>> <=> Len(pipe) # 0, pipe' # <<>> <=> Len(pipe') # 0
    PROVE  Ordered' /\ Contiguous'
<1>1. ASSUME NEW i \in 1..(Len(pipe') - 1)
      PROVE  /\ pipe'[i] < pipe'[i + 1]
             /\ \A e \in (pipe'[i] + 1)..(pipe'[i + 1] - 1) : log'[e].kind = "hidden"
  <2>1. m + i \in 1..(Len(pipe) - 1)
      OBVIOUS
  <2>2. pipe'[i] = pipe[m + i] /\ pipe'[i + 1] = pipe[(m + i) + 1]
    <3>1. i \in 1..Len(pipe') /\ i + 1 \in 1..Len(pipe') /\ m + (i + 1) = (m + i) + 1
        OBVIOUS
    <3> QED
        BY <3>1
  <2> QED
      BY <2>1, <2>2 DEF Contiguous
<1>2. ASSUME subscribed', pipe' # <<>>
      PROVE  \A e \in (pipe'[Len(pipe')] + 1)..Len(log') : log'[e].kind = "hidden"
  <2>1. subscribed /\ pipe # <<>> /\ Len(pipe') \in 1..Len(pipe')
      BY <1>2
  <2>2. pipe'[Len(pipe')] = pipe[Len(pipe)]
      BY <1>2, <2>1
  <2> QED
      BY <2>1, <2>2 DEF Contiguous
<1>3. Ordered'
  <2> SUFFICES ASSUME NEW i \in 1..Len(pipe'), NEW j \in 1..Len(pipe'), i < j
               PROVE  pipe'[i] < pipe'[j]
      BY DEF Ordered
  <2>1. m + i \in 1..Len(pipe) /\ m + j \in 1..Len(pipe) /\ m + i < m + j
      OBVIOUS
  <2> QED
      BY <2>1 DEF Ordered
<1> QED
    BY <1>1, <1>2, <1>3 DEF Contiguous

LEMMA CrashStep ==
    ASSUME IInv, Crash
    PROVE  IInv'
<1>1. PICK n \in 0..Len(pipe) : pipe' = SubSeq(pipe, 1, n)
    BY DEF Crash
<1>2. /\ Len(pipe) \in Nat
      /\ \A i \in 1..Len(pipe) : pipe[i] \in 1..Len(log)
    BY PipeTypes DEF IInv, TypeOK
<1>3. /\ pipe' \in Seq(1..Len(log))
      /\ Len(pipe') = n
      /\ \A i \in 1..n : pipe'[i] = pipe[i]
  <2>1. \A i \in 1..n : pipe[i] \in 1..Len(log)
      BY <1>2
  <2> QED
      BY <1>1, <2>1, SubSeqProperties
<1>4. n \in Nat /\ n <= Len(pipe)
    BY <1>2
<1>5. UNCHANGED <<log, disk, rows, link, position, screen, lost, told, fetch>>
      /\ subscribed' = FALSE
    BY DEF Crash
<1> USE DEF IInv, TypeOK
<1>6. DaemonTypes'
    BY <1>5, LogTypes DEF DaemonTypes, Crash, Content
<1>7. ConnectionTypes'
    BY <1>3, <1>5 DEF ConnectionTypes, position
<1>8. PageTypes' /\ FetchTypes'
    BY <1>5, SamePage, SameFetch, FaultCounted DEF Crash
<1>9. Rises' /\ Reserved' /\ \A m : Issued(m)' <=> Issued(m)
    BY <1>5, SameStream
<1>10. PositionsOK'
    BY <1>5, <1>9 DEF PositionsOK, Issued, Crash, position
<1>11. LinkOK'
    BY <1>1, <1>2, <1>3, <1>5 DEF LinkOK
<1>12. GapOK'
    BY <1>3, <1>4, <1>5 DEF GapOK, position
<1>13. Ordered' /\ Contiguous'
  <2>1. PICK m \in Nat : m = 0
      OBVIOUS
  <2>2. m + Len(pipe') <= Len(pipe) /\ \A i \in 1..Len(pipe') : pipe'[i] = pipe[m + i]
      BY <1>2, <1>3, <1>4, <2>1
  <2>3. (pipe # <<>> <=> Len(pipe) # 0) /\ (pipe' # <<>> <=> Len(pipe') # 0)
      BY <1>3, EmptySeq DEF ConnectionTypes
  <2>4. /\ log' = log /\ Len(pipe) \in Nat /\ Len(pipe') \in Nat
        /\ subscribed' => subscribed /\ m + Len(pipe') = Len(pipe)
      BY <1>2, <1>3, <1>4, <1>5
  <2> QED
      BY <2>2, <2>3, <2>4, PartOfPipe
<1>14. NeverBackwards'
    BY <1>3, <1>4, <1>5 DEF NeverBackwards, position
<1> QED
    BY <1>6, <1>7, <1>8, <1>9, <1>10, <1>11, <1>12, <1>13, <1>14

-----------------------------------------------------------------------------
(* Sending.                                                                *)

(* A number stamped is new and above all others, also the first after a    *)
(* restart.                                                                *)
LEMMA Stamped ==
    ASSUME IInv, NEW kind \in Kinds, NEW row \in Nat, Broadcast(kind, row)
    PROVE  /\ NextSeq \in Nat \ {0}
           /\ Len(log) \in Nat
           /\ Len(log') = Len(log) + 1
           /\ \A e \in 1..Len(log) : log'[e] = log[e] /\ log[e].seq < NextSeq
           /\ log'[Len(log) + 1] = [seq |-> NextSeq, kind |-> kind, row |-> row]
           /\ log' \in Seq([seq : Nat \ {0}, kind : Kinds, row : Nat])
           /\ disk' \in Nat /\ disk' >= disk /\ disk' >= NextSeq
<1>1. /\ Len(log) \in Nat /\ disk \in Nat
      /\ log \in Seq([seq : Nat \ {0}, kind : Kinds, row : Nat])
      /\ \A e \in 1..Len(log) : log[e].seq \in Nat \ {0}
    BY LogTypes DEF IInv, TypeOK, DaemonTypes
<1>2. NextSeq \in Nat \ {0} /\ \A e \in 1..Len(log) : log[e].seq < NextSeq
  <2>1. CASE booted = Len(log)
      BY <1>1, <2>1 DEF NextSeq, IInv, Reserved
  <2>2. CASE booted # Len(log)
    <3>1. Len(log) \in 1..Len(log)
        BY <1>1, <2>2 DEF IInv, TypeOK, DaemonTypes
    <3>2. \A e \in 1..Len(log) : log[e].seq <= log[Len(log)].seq
        BY <1>1, <3>1 DEF IInv, Rises
    <3>3. NextSeq = log[Len(log)].seq + 1
        BY <2>2 DEF NextSeq
    <3> QED
        BY <1>1, <3>1, <3>2, <3>3
  <2> QED
      BY <2>1, <2>2
<1>3. [seq |-> NextSeq, kind |-> kind, row |-> row] \in [seq : Nat \ {0}, kind : Kinds, row : Nat]
    BY <1>2
<1>4. log' = Append(log, [seq |-> NextSeq, kind |-> kind, row |-> row])
    BY DEF Broadcast
<1>5. disk' \in Nat /\ disk' >= disk /\ disk' >= NextSeq
    BY <1>1, <1>2, EventStreamAssumption DEF Broadcast
<1> QED
    BY <1>1, <1>2, <1>3, <1>4, <1>5

LEMMA EmptyPipe ==
    ASSUME pipe' = <<>>
    PROVE  pipe' \in Seq(1..Len(log')) /\ Len(pipe') = 0 /\ Ordered' /\ Contiguous' /\ NeverBackwards'
BY EmptySeq DEF Ordered, Contiguous, NeverBackwards

(* A step of the connection that leaves the page and its requests alone.   *)
LEMMA AttachStep ==
    ASSUME IInv, Attach
    PROVE  IInv'
<1> USE DEF IInv, TypeOK
<1>1. UNCHANGED <<daemon, stored, position, screen, lost, told, fetch, faultsLeft>>
      /\ link = "asked" /\ link' = "up" /\ subscribed' = TRUE
    BY DEF Attach
<1>2. UNCHANGED <<log, disk, saved, evicted, cursor, latestGap, base>>
    BY <1>1 DEF daemon, stored, position
<1>3. CASE pipe' = <<>>
  <2>1. ConnectionTypes'
      BY <1>1, <1>2, <1>3, EmptyPipe DEF ConnectionTypes
  <2>2. DaemonTypes' /\ PageTypes' /\ FetchTypes'
      BY <1>1, <1>2, SameDaemon, SamePage, SameFetch DEF PageTypes
  <2>3. Rises' /\ Reserved' /\ PositionsOK' /\ LinkOK' /\ GapOK'
      BY <1>1, <1>2, SameStream, SamePositions DEF LinkOK, GapOK
  <2> QED
      BY <1>3, <2>1, <2>2, <2>3, EmptyPipe
<1>4. CASE pipe' # <<>>
  <2> DEFINE newer == {e \in (evicted + 1)..Len(log) :
                         log[e].seq > cursor /\ log[e].kind # "hidden"}
  <2>1. cursor # None /\ pipe' = OldestFirst(newer)
      BY <1>4 DEF Attach, Window
  <2>2. cursor \in Nat /\ evicted \in Nat /\ Len(log) \in Nat
      BY <2>1, LogTypes DEF ConnectionTypes, DaemonTypes
  <2>3. newer \in SUBSET (1..Len(log))
      BY <2>2
  <2>4. /\ pipe' \in Seq(newer)
        /\ \A i, j \in 1..Len(pipe') : i < j => pipe'[i] < pipe'[j]
        /\ \A e \in newer : \E i \in 1..Len(pipe') : pipe'[i] = e
      BY <2>1, <2>2, <2>3, OldestFirstProperties
  <2>5. Len(pipe') \in Nat /\ \A i \in 1..Len(pipe') : pipe'[i] \in newer
      BY <2>4, ElementOfSeq, LenProperties
  <2>6. \A i \in 1..Len(pipe') :
          /\ pipe'[i] \in (evicted + 1)..Len(log)
          /\ log[pipe'[i]].seq > cursor
      BY <2>5
  <2>7. \A e \in (evicted + 1)..Len(log) :
          log[e].seq > cursor /\ log[e].kind # "hidden" =>
            \E i \in 1..Len(pipe') : pipe'[i] = e
      BY <2>4
  <2>8. pipe' \in Seq(1..Len(log))
      BY <2>3, <2>4, SeqMonotonic
  <2> HIDE DEF newer
  <2>9. \A i, j \in 1..Len(pipe') : i <= j => pipe'[i] <= pipe'[j]
    <3> SUFFICES ASSUME NEW i \in 1..Len(pipe'), NEW j \in 1..Len(pipe'), i <= j
                 PROVE  pipe'[i] <= pipe'[j]
        OBVIOUS
    <3>1. i = j \/ i < j
        BY <2>5
    <3>2. pipe'[i] \in Int /\ pipe'[j] \in Int
        BY <2>2, <2>6
    <3> QED
        BY <2>4, <3>1, <3>2
  <2>10. Ordered' /\ Contiguous'
    <3>1. ASSUME NEW i \in 1..Len(pipe'), NEW e \in (pipe'[i] + 1)..Len(log),
                 \A j \in 1..Len(pipe') : pipe'[j] # e
          PROVE  log[e].kind = "hidden"
      <4>1. pipe'[i] \in 1..Len(log) /\ pipe'[i] >= evicted + 1
          BY <2>2, <2>6
      <4>2. e \in (evicted + 1)..Len(log) /\ e \in 1..Len(log) /\ pipe'[i] < e
          BY <2>2, <4>1
      <4>3. log[pipe'[i]].seq < log[e].seq
          BY <4>1, <4>2 DEF Rises
      <4>4. log[e].seq > cursor
          BY <2>2, <2>6, <4>1, <4>2, <4>3, LogTypes
      <4> QED
          BY <2>7, <3>1, <4>2, <4>4
    <3>2. ASSUME NEW i \in 1..(Len(pipe') - 1)
          PROVE  /\ pipe'[i] < pipe'[i + 1]
                 /\ \A e \in (pipe'[i] + 1)..(pipe'[i + 1] - 1) : log[e].kind = "hidden"
      <4>1. i \in 1..Len(pipe') /\ i + 1 \in 1..Len(pipe') /\ i < i + 1
          BY <2>5
      <4>2. pipe'[i] \in 1..Len(log) /\ pipe'[i + 1] \in 1..Len(log)
          BY <2>2, <2>6, <4>1
      <4>3. ASSUME NEW e \in (pipe'[i] + 1)..(pipe'[i + 1] - 1), NEW j \in 1..Len(pipe')
            PROVE  pipe'[j] # e
        <5>1. j <= i \/ i + 1 <= j
            BY <4>1
        <5>2. pipe'[j] \in 1..Len(log)
            BY <2>2, <2>6
        <5>3. pipe'[j] <= pipe'[i] \/ pipe'[i + 1] <= pipe'[j]
            BY <2>9, <4>1, <5>1
        <5> QED
            BY <4>2, <5>2, <5>3
      <4>4. \A e \in (pipe'[i] + 1)..(pipe'[i + 1] - 1) : e \in (pipe'[i] + 1)..Len(log)
          BY <2>2, <4>2
      <4> QED
          BY <2>4, <3>1, <4>1, <4>3, <4>4
    <3>3. ASSUME NEW e \in (pipe'[Len(pipe')] + 1)..Len(log)
          PROVE  log[e].kind = "hidden"
      <4>1. Len(pipe') \in 1..Len(pipe')
          BY <1>4, <2>5, <2>8
      <4>2. pipe'[Len(pipe')] \in 1..Len(log)
          BY <2>2, <2>6, <4>1
      <4>3. ASSUME NEW j \in 1..Len(pipe') PROVE pipe'[j] # e
        <5>1. pipe'[j] <= pipe'[Len(pipe')]
            BY <2>5, <2>9, <4>1
        <5>2. pipe'[j] \in 1..Len(log)
            BY <2>2, <2>6
        <5> QED
            BY <4>2, <5>1, <5>2
      <4> QED
          BY <3>1, <4>1, <4>3
    <3> QED
        BY <1>2, <2>4, <3>2, <3>3 DEF Ordered, Contiguous
  <2>11. NeverBackwards'
      BY <1>2, <2>6 DEF NeverBackwards
  <2>12. DaemonTypes' /\ ConnectionTypes' /\ PageTypes' /\ FetchTypes'
      BY <1>1, <1>2, <2>8, SameDaemon, SamePage, SameFetch DEF PageTypes, ConnectionTypes
  <2>13. Rises' /\ Reserved' /\ PositionsOK' /\ LinkOK' /\ GapOK'
      BY <1>1, <1>2, SameStream, SamePositions DEF LinkOK, GapOK
  <2> QED
      BY <2>10, <2>11, <2>12, <2>13
<1> QED
    BY <1>3, <1>4

-----------------------------------------------------------------------------
(* Reading.                                                                *)

(* The event that is read: it is above the cursor, and what follows it is  *)
(* above it.                                                               *)
LEMMA HeadOfPipe ==
    ASSUME IInv, pipe # <<>>
    PROVE  /\ Len(pipe) \in Nat /\ 1 \in 1..Len(pipe)
           /\ pipe[1] \in 1..Len(log)
           /\ log[pipe[1]].seq \in Nat \ {0}
           /\ cursor # None => log[pipe[1]].seq > cursor
           /\ \A i \in 2..Len(pipe) :
                /\ i \in 1..Len(pipe)
                /\ pipe[i] \in 1..Len(log)
                /\ log[pipe[i]].seq \in Nat
                /\ log[pipe[1]].seq < log[pipe[i]].seq
           /\ link = "up"
<1>1. /\ Len(pipe) \in Nat
      /\ \A i \in 1..Len(pipe) : pipe[i] \in 1..Len(log)
      /\ \A e \in 1..Len(log) : log[e].seq \in Nat \ {0}
    BY PipeTypes, LogTypes DEF IInv, TypeOK
<1>2. 1 \in 1..Len(pipe)
    BY <1>1 DEF IInv, TypeOK, ConnectionTypes
<1>3. link = "up"
    BY DEF IInv, LinkOK
<1>4. cursor # None => log[pipe[1]].seq > cursor
    BY <1>2 DEF IInv, NeverBackwards
<1>5. ASSUME NEW i \in 2..Len(pipe)
      PROVE  i \in 1..Len(pipe) /\ log[pipe[1]].seq < log[pipe[i]].seq
  <2>1. i \in 1..Len(pipe) /\ 1 < i
      BY <1>1
  <2>2. pipe[1] < pipe[i]
      BY <1>2, <2>1 DEF IInv, Ordered
  <2> QED
      BY <1>1, <1>2, <2>1, <2>2 DEF IInv, Rises
<1> QED
    BY <1>1, <1>2, <1>3, <1>4, <1>5

LEMMA RestOfPipe ==
    ASSUME IInv, pipe # <<>>, pipe' = Tail(pipe), log' = log, subscribed' = subscribed
    PROVE  /\ pipe' \in Seq(1..Len(log))
           /\ Len(pipe') = Len(pipe) - 1
           /\ \A i \in 1..Len(pipe') : pipe'[i] = pipe[i + 1] /\ i + 1 \in 2..Len(pipe)
           /\ Ordered'
           /\ Contiguous'
<1>1. Len(pipe) \in Nat /\ 1 \in 1..Len(pipe) /\ pipe \in Seq(1..Len(log))
    BY HeadOfPipe DEF IInv, TypeOK, ConnectionTypes
<1>2. /\ pipe' \in Seq(1..Len(log))
      /\ Len(pipe') = Len(pipe) - 1
      /\ \A i \in 1..Len(pipe') : pipe'[i] = pipe[i + 1]
    BY <1>1, HeadTailProperties
<1>3. \A i \in 1..Len(pipe') : i + 1 \in 2..Len(pipe)
    BY <1>1, <1>2
<1>4. PICK m \in Nat : m = 1
    OBVIOUS
<1>5. /\ Len(pipe') \in Nat
      /\ m + Len(pipe') = Len(pipe)
      /\ \A i \in 1..Len(pipe') : pipe'[i] = pipe[m + i]
    BY <1>1, <1>2, <1>4
<1>6. pipe' # <<>> <=> Len(pipe') # 0
    BY <1>2, EmptySeq
<1>7. Ordered' /\ Contiguous'
    BY <1>1, <1>5, <1>6, PartOfPipe DEF IInv
<1> QED
    BY <1>2, <1>3, <1>7

LEMMA ApplyTypes ==
    ASSUME IInv, NEW e \in 1..Len(log), Apply(e), log' = log
    PROVE  /\ localSeq' \in Nat
           /\ shown' \subseteq Content
           /\ taken' \subseteq Content
           /\ localSeq <= localSeq'
<1>1. log[e].seq \in Nat /\ localSeq \in Nat
    BY LogTypes DEF IInv, TypeOK, PageTypes
<1>2. CASE UNCHANGED screen
    BY <1>1, <1>2 DEF screen, IInv, TypeOK, PageTypes
<1>3. CASE /\ log[e].seq > localSeq
           /\ localSeq' = log[e].seq
           /\ shown' = IF e \in Content THEN shown \cup {e} ELSE shown
           /\ taken' = taken \cup shown'
    BY <1>1, <1>3 DEF IInv, TypeOK, PageTypes
<1> QED
    BY <1>2, <1>3 DEF Apply

LEMMA ReadNextStep ==
    ASSUME IInv, ReadNext
    PROVE  IInv'
<1> DEFINE e == pipe[1]
<1>1. /\ pipe # <<>>
      /\ Apply(e)
      /\ cursor' = IF cursor = None THEN log[e].seq ELSE Larger(cursor, log[e].seq)
      /\ base' = IF cursor = None THEN log[e].seq - 1 ELSE base
      /\ pipe' = Tail(pipe)
      /\ UNCHANGED <<daemon, stored, subscribed, link, latestGap, lost, told, fetch, faultsLeft>>
    BY DEF ReadNext
<1>2. UNCHANGED <<log, disk, saved>>
    BY <1>1 DEF daemon, stored
<1>3. /\ e \in 1..Len(log)
      /\ log[e].seq \in Nat \ {0}
      /\ cursor # None => log[e].seq > cursor
      /\ \A i \in 2..Len(pipe) :
           i \in 1..Len(pipe) /\ log[pipe[i]].seq \in Nat /\ log[e].seq < log[pipe[i]].seq
      /\ link = "up"
    BY <1>1, HeadOfPipe
<1>4. /\ pipe' \in Seq(1..Len(log))
      /\ \A i \in 1..Len(pipe') : pipe'[i] = pipe[i + 1] /\ i + 1 \in 2..Len(pipe)
      /\ Ordered' /\ Contiguous'
    BY <1>1, <1>2, RestOfPipe
<1>5. localSeq' \in Nat /\ shown' \subseteq Content /\ taken' \subseteq Content
    BY <1>1, <1>2, <1>3, ApplyTypes
<1>6. cursor' = log[e].seq /\ cursor' \in Nat
    BY <1>1, <1>3 DEF Larger, IInv, TypeOK, ConnectionTypes
<1> HIDE DEF e
<1> USE DEF IInv, TypeOK
<1>7. DaemonTypes' /\ FetchTypes'
    BY <1>1, <1>2, SameDaemon, SameFetch
<1>8. ConnectionTypes'
    BY <1>1, <1>2, <1>3, <1>4, <1>6 DEF ConnectionTypes
<1>9. PageTypes'
    BY <1>1, <1>2, <1>5 DEF PageTypes, Content
<1>10. Rises' /\ Reserved' /\ \A n : Issued(n)' <=> Issued(n)
    BY <1>2, SameStream
<1>11. PositionsOK'
    BY <1>1, <1>2, <1>3, <1>6, <1>10 DEF PositionsOK, Issued
<1>12. LinkOK'
    BY <1>1, <1>3 DEF LinkOK
<1>13. GapOK'
    BY <1>1, <1>2, <1>3, <1>4 DEF GapOK
<1>14. NeverBackwards'
    BY <1>2, <1>3, <1>4, <1>6 DEF NeverBackwards
<1> QED
    BY <1>4, <1>7, <1>8, <1>9, <1>10, <1>11, <1>12, <1>13, <1>14

LEMMA ReadGapStep ==
    ASSUME IInv, ReadGap
    PROVE  IInv'
<1> DEFINE e == pipe[1]
<1>1. /\ pipe # <<>>
      /\ IsGap(log[e].seq)
      /\ Apply(e)
      /\ latestGap' = log[e].seq
      /\ fetch' = IF fetch["gap"].state = "idle" THEN [fetch EXCEPT !["gap"] = Asked] ELSE fetch
      /\ pipe' = Tail(pipe)
      /\ UNCHANGED <<daemon, stored, subscribed, link, cursor, base, lost, told, faultsLeft>>
    BY DEF ReadGap
<1>2. UNCHANGED <<log, disk, saved>>
    BY <1>1 DEF daemon, stored
<1>3. /\ e \in 1..Len(log)
      /\ log[e].seq \in Nat \ {0}
      /\ \A i \in 2..Len(pipe) :
           i \in 1..Len(pipe) /\ log[pipe[i]].seq \in Nat /\ log[e].seq < log[pipe[i]].seq
      /\ link = "up"
    BY <1>1, HeadOfPipe
<1>4. /\ pipe' \in Seq(1..Len(log))
      /\ \A i \in 1..Len(pipe') : pipe'[i] = pipe[i + 1] /\ i + 1 \in 2..Len(pipe)
      /\ Ordered' /\ Contiguous'
    BY <1>1, <1>2, RestOfPipe
<1>5. localSeq' \in Nat /\ shown' \subseteq Content /\ taken' \subseteq Content
    BY <1>1, <1>2, <1>3, ApplyTypes
<1> HIDE DEF e
<1> USE DEF IInv, TypeOK
<1>6. DaemonTypes'
    BY <1>1, <1>2, SameDaemon
<1>7. Asked \in RequestType(Content, Len(log)) /\ Asked.state = "asked" /\ Asked.stale = FALSE
      /\ Asked.seq = 0
    BY LogTypes, Requests
<1>8. FetchTypes'
    BY <1>1, <1>2, <1>7 DEF FetchTypes, RequestType, Content
<1>9. ConnectionTypes'
    BY <1>1, <1>2, <1>3, <1>4 DEF ConnectionTypes
<1>10. PageTypes'
    BY <1>1, <1>2, <1>5 DEF PageTypes, Content
<1>11. Rises' /\ Reserved' /\ \A n : Issued(n)' <=> Issued(n)
    BY <1>2, SameStream
<1>12. \A f \in Fetches : fetch'[f] = fetch[f] \/ fetch'[f] = Asked
    BY <1>1 DEF FetchTypes
<1>13. Issued(0) /\ Issued(log[e].seq)
    BY <1>3 DEF Issued
<1>14. PositionsOK'
    BY <1>1, <1>2, <1>7, <1>11, <1>12, <1>13 DEF PositionsOK
<1>15. LinkOK'
    BY <1>1, <1>3 DEF LinkOK
<1>16. GapOK'
  <2>1. "gap" \in Fetches
      BY DEF Fetches
  <2>2. latestGap' # None
      BY <1>1, <1>3, EventStreamAssumption
  <2>3. \A i \in 1..Len(pipe') : log'[pipe'[i]].seq > latestGap'
      BY <1>1, <1>2, <1>3, <1>4
  <2>4. fetch'["gap"].state = "answered" => ~fetch'["gap"].stale
      BY <1>7, <1>12, <2>1 DEF GapOK
  <2> QED
      BY <1>1, <1>3, <2>2, <2>3, <2>4 DEF GapOK
<1>17. NeverBackwards'
    BY <1>1, <1>2, <1>3, <1>4 DEF NeverBackwards
<1> QED
    BY <1>4, <1>6, <1>8, <1>9, <1>10, <1>11, <1>14, <1>15, <1>16, <1>17

-----------------------------------------------------------------------------
(* The connection ends, and a new one is asked for.                        *)

LEMMA EndedStep ==
    ASSUME IInv, Ended
    PROVE  IInv'
<1> USE DEF IInv, TypeOK
<1>1. /\ UNCHANGED <<daemon, stored, connection, position, screen, told, fetch, faultsLeft>>
      /\ ~subscribed /\ pipe = <<>> /\ link' = "down" /\ lost' = Len(log)
    BY DEF Ended
<1>2. UNCHANGED <<log, disk, saved, subscribed, pipe, cursor, latestGap, base>>
    BY <1>1 DEF daemon, stored, connection, position
<1>3. DaemonTypes' /\ ConnectionTypes' /\ PageTypes' /\ FetchTypes'
  <2>1. DaemonTypes' /\ FetchTypes'
      BY <1>1, <1>2, SameDaemon, SameFetch
  <2>2. ConnectionTypes'
      BY <1>1, <1>2 DEF ConnectionTypes
  <2>3. PageTypes'
      BY <1>1, <1>2, LogTypes DEF PageTypes, screen, Content
  <2> QED
      BY <2>1, <2>2, <2>3
<1>4. Rises' /\ Reserved' /\ PositionsOK'
    BY <1>1, <1>2, SameStream, SamePositions
<1>5. LinkOK' /\ GapOK'
    BY <1>1, <1>2 DEF LinkOK, GapOK
<1>6. Ordered' /\ Contiguous' /\ NeverBackwards'
    BY <1>2, SamePipe, SameAhead
<1> QED
    BY <1>3, <1>4, <1>5, <1>6

LEMMA BreakStep ==
    ASSUME IInv, Break
    PROVE  IInv'
<1> USE DEF IInv, TypeOK
<1>1. /\ UNCHANGED <<daemon, stored, position, screen, told, fetch>>
      /\ pipe' = <<>> /\ subscribed' = FALSE /\ link' = "down" /\ lost' = Len(log)
      /\ faultsLeft' \in 0..MaxFaults
    BY FaultCounted DEF Break
<1>2. UNCHANGED <<log, disk, saved, cursor, latestGap, base>>
    BY <1>1 DEF daemon, stored, position
<1>3. pipe' \in Seq(1..Len(log')) /\ Len(pipe') = 0 /\ Ordered' /\ Contiguous' /\ NeverBackwards'
    BY <1>1, EmptyPipe
<1>4. DaemonTypes' /\ ConnectionTypes' /\ PageTypes' /\ FetchTypes'
  <2>1. DaemonTypes' /\ FetchTypes'
      BY <1>1, <1>2, SameDaemon, SameFetch
  <2>2. ConnectionTypes'
      BY <1>1, <1>2, <1>3 DEF ConnectionTypes
  <2>3. PageTypes'
      BY <1>1, <1>2, LogTypes DEF PageTypes, screen, Content
  <2> QED
      BY <2>1, <2>2, <2>3
<1>5. Rises' /\ Reserved' /\ PositionsOK'
    BY <1>1, <1>2, SameStream, SamePositions
<1>6. LinkOK' /\ GapOK'
    BY <1>1, <1>2, <1>3 DEF LinkOK, GapOK
<1> QED
    BY <1>3, <1>4, <1>5, <1>6

(* With a new epoch the gap's reconcile is idle, or outdated.              *)
LEMMA NewEpochRequests ==
    ASSUME FetchTypes, NEW n \in Nat, n = Len(log),
           NEW reopen \in RequestType(Content, n), NEW new, new = NewEpoch(reopen)
    PROVE  /\ new \in [Fetches -> RequestType(Content, n)]
           /\ new["gap"] = IF fetch["gap"].state = "idle" THEN fetch["gap"] ELSE Stale
           /\ new["reopen"] = reopen
           /\ new["history"] = fetch["history"]
<1>1. fetch \in [Fetches -> RequestType(Content, n)]
    BY DEF FetchTypes, RequestType
<1>2. Stale \in RequestType(Content, n)
    BY Requests
<1>3. new = [fetch EXCEPT !["gap"] = IF @.state = "idle" THEN @ ELSE Stale, !["reopen"] = reopen]
    BY DEF NewEpoch, Stale
<1> HIDE DEF RequestType
<1> QED
    BY <1>1, <1>2, <1>3 DEF Fetches

LEMMA ReopenStep ==
    ASSUME IInv, Reopen
    PROVE  IInv'
<1> USE DEF IInv, TypeOK
<1>1. /\ UNCHANGED <<daemon, stored, connection, position, screen, lost, told, faultsLeft>>
      /\ link = "down" /\ link' = "asked" /\ fetch' = NewEpoch(Asked)
    BY DEF Reopen
<1>2. UNCHANGED <<log, disk, saved, subscribed, pipe, cursor, latestGap, base>>
    BY <1>1 DEF daemon, stored, connection, position
<1>3. Len(log) \in Nat
    BY LogTypes
<1>4. /\ Asked \in RequestType(Content, Len(log)) /\ Asked.seq = 0
      /\ Stale.seq = 0 /\ Stale.state = "asked" /\ Stale.stale = TRUE
    BY <1>3, Requests
<1>5. /\ fetch' \in [Fetches -> RequestType(Content, Len(log))]
      /\ fetch'["gap"] = IF fetch["gap"].state = "idle" THEN fetch["gap"] ELSE Stale
      /\ fetch'["reopen"] = Asked
      /\ fetch'["history"] = fetch["history"]
    BY <1>1, <1>3, <1>4, NewEpochRequests
<1>6. FetchTypes'
    BY <1>2, <1>5 DEF FetchTypes, RequestType, Content
<1>7. DaemonTypes' /\ ConnectionTypes' /\ PageTypes'
    BY <1>1, <1>2, SameDaemon, SamePage DEF PageTypes, ConnectionTypes
<1>8. Rises' /\ Reserved' /\ \A n : Issued(n)' <=> Issued(n)
    BY <1>2, SameStream
<1>9. PositionsOK'
    BY <1>2, <1>4, <1>5, <1>8 DEF PositionsOK, Issued, Fetches
<1>10. LinkOK' /\ GapOK'
    BY <1>1, <1>2, <1>4, <1>5 DEF LinkOK, GapOK
<1>11. Ordered' /\ Contiguous' /\ NeverBackwards'
    BY <1>2, SamePipe, SameAhead
<1> QED
    BY <1>6, <1>7, <1>8, <1>9, <1>10, <1>11

-----------------------------------------------------------------------------
(* Fetching rows.                                                          *)

LEMMA RequestFields ==
    ASSUME FetchTypes
    PROVE  /\ fetch \in [Fetches -> RequestType(Content, Len(log))]
           /\ \A f \in Fetches :
                /\ fetch[f] \in RequestType(Content, Len(log))
                /\ fetch[f].rows \subseteq Content
                /\ fetch[f].seq \in Nat
                /\ fetch[f].at \in 0..Len(log)
<1>1. fetch \in [Fetches -> RequestType(Content, Len(log))]
    BY DEF FetchTypes, RequestType
<1>2. \A f \in Fetches : fetch[f] \in RequestType(Content, Len(log))
    BY <1>1
<1> QED
    BY <1>1, <1>2 DEF RequestType

(* One request is replaced.                                                *)
LEMMA RequestReplaced ==
    ASSUME FetchTypes, log' = log, NEW f \in Fetches,
           NEW r \in RequestType(Content, Len(log)), fetch' = [fetch EXCEPT ![f] = r]
    PROVE  /\ FetchTypes'
           /\ fetch'[f] = r
           /\ \A g \in Fetches \ {f} : fetch'[g] = fetch[g]
<1>1. fetch \in [Fetches -> RequestType(Content, Len(log))]
    BY RequestFields
<1>2. fetch' \in [Fetches -> RequestType(Content, Len(log))]
    BY <1>1
<1>3. FetchTypes'
    BY <1>2 DEF FetchTypes, RequestType, Content
<1> QED
    BY <1>1, <1>3

LEMMA MergeTypes ==
    ASSUME PageTypes, FetchTypes, log' = log, NEW f \in Fetches, Merge(f) \/ Replace(f)
    PROVE  localSeq' \in Nat /\ shown' \subseteq Content /\ taken' \subseteq Content
<1>1. fetch[f].rows \subseteq Content /\ fetch[f].seq \in Nat
    BY RequestFields
<1>2. localSeq' = Larger(localSeq, fetch[f].seq)
    BY DEF Merge, Replace
<1>3. localSeq' \in Nat
    BY <1>1, <1>2 DEF Larger, PageTypes
<1>4. shown' \subseteq shown \cup fetch[f].rows /\ taken' = taken \cup shown'
    BY DEF Merge, Replace
<1> QED
    BY <1>1, <1>3, <1>4 DEF PageTypes

LEMMA RepairsTypes ==
    ASSUME PageTypes, FetchTypes, DaemonTypes, NEW f \in Fetches, Repairs(f)
    PROVE  lost' \in 0..Len(log) /\ told' \in 0..Len(log)
<1>1. fetch[f].at \in 0..Len(log) /\ Len(log) \in Nat
    BY RequestFields, LogTypes
<1>2. told' \in 0..Len(log)
    BY <1>1 DEF Repairs, Larger, PageTypes
<1> QED
    BY <1>1, <1>2 DEF Repairs, PageTypes

(* What a step keeps when it only reconciles the page.                     *)
LEMMA PageStep ==
    ASSUME IInv, UNCHANGED <<daemon, stored, connection, link>>, FetchTypes', PageTypes',
           cursor' \in Nat \cup {None}, latestGap' \in Nat \cup {None}, base' \in Nat,
           cursor' # None => Issued(cursor'), latestGap' # None => Issued(latestGap'),
           \A f \in Fetches : Issued(fetch'[f].seq),
           GapOK', NeverBackwards'
    PROVE  IInv'
<1> USE DEF IInv, TypeOK
<1>1. UNCHANGED <<log, disk, saved, subscribed, pipe>>
    BY DEF daemon, stored, connection
<1>2. DaemonTypes' /\ ConnectionTypes'
    BY <1>1, SameDaemon DEF ConnectionTypes
<1>3. Rises' /\ Reserved' /\ \A n : Issued(n)' <=> Issued(n)
    BY <1>1, SameStream
<1>4. PositionsOK'
    BY <1>1, <1>3 DEF PositionsOK
<1>5. LinkOK'
    BY <1>1 DEF LinkOK
<1>6. Ordered' /\ Contiguous'
    BY <1>1, SamePipe
<1> QED
    BY <1>2, <1>3, <1>4, <1>5, <1>6

LEMMA AnswerStep ==
    ASSUME IInv, NEW f \in Fetches, Answer(f)
    PROVE  IInv'
<1> DEFINE r == [state |-> "answered", stale |-> FALSE, rows |-> rows, seq |-> saved,
                 at |-> Len(log)]
<1>1. /\ fetch[f].state = "asked"
      /\ ~fetch[f].stale
      /\ UNCHANGED <<daemon, stored, connection, link, position, screen, lost, told, faultsLeft>>
    BY DEF Answer
<1>2. fetch' = [fetch EXCEPT ![f] = r]
    BY DEF Answer
<1>3. Len(log) \in Nat /\ saved \in Nat /\ rows \subseteq Content
    BY LogTypes DEF IInv, TypeOK, DaemonTypes
<1>4. /\ r \in RequestType(Content, Len(log))
      /\ r.seq = saved /\ r.state = "answered" /\ r.stale = FALSE
    BY <1>3 DEF RequestType
<1> HIDE DEF r
<1>5. UNCHANGED <<log, saved, pipe, cursor, latestGap, base>>
    BY <1>1 DEF daemon, stored, connection, position
<1>6. /\ FetchTypes'
      /\ fetch'[f] = r
      /\ \A g \in Fetches \ {f} : fetch'[g] = fetch[g]
    BY <1>2, <1>4, <1>5, RequestReplaced DEF IInv, TypeOK
<1> USE DEF IInv, TypeOK
<1>7. PageTypes'
    BY <1>1, <1>5, SamePage DEF PageTypes
<1>8. \A g \in Fetches : Issued(fetch'[g].seq)
    BY <1>4, <1>6 DEF PositionsOK
<1>9. GapOK'
    BY <1>1, <1>4, <1>5, <1>6 DEF GapOK, Fetches
<1>10. NeverBackwards'
    BY <1>5, SameAhead
<1>11. /\ cursor' \in Nat \cup {None} /\ latestGap' \in Nat \cup {None} /\ base' \in Nat
       /\ cursor' # None => Issued(cursor')
       /\ latestGap' # None => Issued(latestGap')
    BY <1>5 DEF PositionsOK, ConnectionTypes
<1> HIDE DEF IInv, TypeOK
<1> QED
    BY <1>1, <1>6, <1>7, <1>8, <1>9, <1>10, <1>11, PageStep

(* A request for rows that is over: nothing but the page has changed.      *)
LEMMA RequestOver ==
    ASSUME IInv, UNCHANGED <<daemon, stored, connection, link, position>>,
           NEW f \in Fetches, NEW r \in {NoRows, Asked}, f = "gap" => r = NoRows,
           fetch' = [fetch EXCEPT ![f] = r], PageTypes'
    PROVE  IInv'
<1>1. Len(log) \in Nat
    BY LogTypes DEF IInv, TypeOK
<1>2. r \in RequestType(Content, Len(log)) /\ r.seq = 0 /\ NoRows.state = "idle"
    BY <1>1, Requests
<1>3. UNCHANGED <<log, saved, pipe, cursor, latestGap, base>>
    BY DEF daemon, stored, connection, position
<1>4. /\ FetchTypes'
      /\ fetch'[f] = r
      /\ \A g \in Fetches \ {f} : fetch'[g] = fetch[g]
    BY <1>2, <1>3, RequestReplaced DEF IInv, TypeOK
<1>5. \A g \in Fetches : Issued(fetch'[g].seq)
    BY <1>2, <1>4 DEF IInv, PositionsOK, Issued
<1>6. GapOK'
    BY <1>2, <1>3, <1>4 DEF IInv, GapOK, Fetches
<1>7. NeverBackwards'
    BY <1>3, SameAhead DEF IInv
<1>8. /\ cursor' \in Nat \cup {None} /\ latestGap' \in Nat \cup {None} /\ base' \in Nat
      /\ cursor' # None => Issued(cursor')
      /\ latestGap' # None => Issued(latestGap')
    BY <1>3 DEF IInv, TypeOK, PositionsOK, ConnectionTypes
<1> QED
    BY <1>4, <1>5, <1>6, <1>7, <1>8, PageStep

LEMMA HistoryShownStep ==
    ASSUME IInv, HistoryShown
    PROVE  IInv'
<1>1. /\ UNCHANGED <<daemon, stored, connection, link, position, lost, told, faultsLeft>>
      /\ Replace("history")
      /\ fetch' = [fetch EXCEPT !["history"] = NoRows]
    BY DEF HistoryShown
<1>2. log' = log /\ "history" \in Fetches
    BY <1>1 DEF daemon, Fetches
<1>3. localSeq' \in Nat /\ shown' \subseteq Content /\ taken' \subseteq Content
    BY <1>1, <1>2, MergeTypes DEF IInv, TypeOK
<1>4. PageTypes'
    BY <1>1, <1>2, <1>3 DEF IInv, TypeOK, PageTypes, Content
<1> QED
    BY <1>1, <1>2, <1>4, RequestOver

LEMMA ReconciledStep ==
    ASSUME IInv, Reconciled
    PROVE  IInv'
<1>1. PICK next \in {NoRows, Asked} : fetch' = [fetch EXCEPT !["reopen"] = next]
    BY DEF Reconciled
<1>2. /\ UNCHANGED <<daemon, stored, connection, link, position, faultsLeft>>
      /\ Merge("reopen") /\ Repairs("reopen")
    BY DEF Reconciled
<1>3. log' = log /\ "reopen" \in Fetches
    BY <1>2 DEF daemon, Fetches
<1>4. /\ localSeq' \in Nat /\ shown' \subseteq Content /\ taken' \subseteq Content
      /\ lost' \in 0..Len(log) /\ told' \in 0..Len(log)
    BY <1>2, <1>3, MergeTypes, RepairsTypes DEF IInv, TypeOK
<1>5. PageTypes'
    BY <1>2, <1>3, <1>4 DEF IInv, TypeOK, PageTypes, Content
<1> QED
    BY <1>1, <1>2, <1>3, <1>5, RequestOver

LEMMA GapOutdatedStep ==
    ASSUME IInv, GapOutdated
    PROVE  IInv'
<1>1. /\ UNCHANGED <<daemon, stored, connection, link, position, screen, lost, told, faultsLeft>>
      /\ fetch' = [fetch EXCEPT !["gap"] = NoRows]
    BY DEF GapOutdated
<1>2. "gap" \in Fetches
    BY DEF Fetches
<1>3. PageTypes'
    BY <1>1, SamePage DEF IInv, TypeOK, PageTypes, daemon
<1> QED
    BY <1>1, <1>2, <1>3, RequestOver

LEMMA GapFailsStep ==
    ASSUME IInv, GapFails
    PROVE  IInv'
<1>1. /\ UNCHANGED <<daemon, stored, connection, link, position, screen, lost, told>>
      /\ fetch' = [fetch EXCEPT !["gap"] = NoRows]
    BY DEF GapFails
<1>2. "gap" \in Fetches
    BY DEF Fetches
<1>3. PageTypes'
    BY <1>1, SamePage, FaultCounted DEF IInv, TypeOK, GapFails, daemon
<1> QED
    BY <1>1, <1>2, <1>3, RequestOver

(* The jump goes to an event read already: what is on its way is above it. *)
LEMMA GapClosedStep ==
    ASSUME IInv, GapClosed
    PROVE  IInv'
<1>1. /\ UNCHANGED <<daemon, stored, connection, link, base, faultsLeft>>
      /\ fetch["gap"].state = "answered"
      /\ Merge("gap") /\ Repairs("gap")
      /\ cursor' = latestGap /\ latestGap' = None
      /\ fetch' = [fetch EXCEPT !["gap"] = NoRows]
    BY DEF GapClosed
<1>2. "gap" \in Fetches
    BY DEF Fetches
<1>3. UNCHANGED <<log, pipe>>
    BY <1>1 DEF daemon, connection
<1>4. Len(log) \in Nat
    BY LogTypes DEF IInv, TypeOK
<1>5. NoRows \in RequestType(Content, Len(log)) /\ NoRows.seq = 0 /\ NoRows.state = "idle"
    BY <1>4, Requests
<1>6. /\ FetchTypes'
      /\ fetch'["gap"] = NoRows
      /\ \A g \in Fetches \ {"gap"} : fetch'[g] = fetch[g]
    BY <1>1, <1>2, <1>3, <1>5, RequestReplaced DEF IInv, TypeOK
<1>7. \A g \in Fetches : Issued(fetch'[g].seq)
    BY <1>5, <1>6 DEF IInv, PositionsOK, Issued
<1>8. PageTypes'
  <2>1. /\ localSeq' \in Nat /\ shown' \subseteq Content /\ taken' \subseteq Content
        /\ lost' \in 0..Len(log) /\ told' \in 0..Len(log)
      BY <1>1, <1>2, <1>3, MergeTypes, RepairsTypes DEF IInv, TypeOK
  <2> QED
      BY <1>1, <1>3, <2>1 DEF IInv, TypeOK, PageTypes, Content
<1>9. /\ latestGap # None
      /\ \A i \in 1..Len(pipe) : log[pipe[i]].seq > latestGap
    BY <1>1 DEF IInv, GapOK
<1>10. GapOK'
    BY <1>5, <1>6 DEF GapOK
<1>11. NeverBackwards'
    BY <1>1, <1>3, <1>9 DEF NeverBackwards
<1>12. /\ cursor' \in Nat \cup {None} /\ latestGap' \in Nat \cup {None} /\ base' \in Nat
       /\ cursor' # None => Issued(cursor')
       /\ latestGap' # None => Issued(latestGap')
    BY <1>1 DEF IInv, TypeOK, PositionsOK, ConnectionTypes
<1> QED
    BY <1>1, <1>6, <1>7, <1>8, <1>10, <1>11, <1>12, PageStep

LEMMA HistoryAnchorsStep ==
    ASSUME IInv, HistoryAnchors
    PROVE  IInv'
<1> DEFINE position0 == fetch["history"].seq
<1>1. /\ UNCHANGED <<daemon, stored, latestGap, lost, told, faultsLeft>>
      /\ cursor = None
      /\ Replace("history")
      /\ cursor' = position0 /\ base' = position0
    BY DEF HistoryAnchors
<1>2. "history" \in Fetches /\ "gap" \in Fetches /\ "reopen" \in Fetches
    BY DEF Fetches
<1>3. UNCHANGED <<log, disk, saved>>
    BY <1>1 DEF daemon, stored
<1>4. Len(log) \in Nat
    BY LogTypes DEF IInv, TypeOK
<1>5. /\ NoRows \in RequestType(Content, Len(log)) /\ NoRows.seq = 0 /\ NoRows.state = "idle"
      /\ Stale.seq = 0 /\ Stale.state = "asked" /\ Stale.stale = TRUE
    BY <1>4, Requests
<1>6. position0 \in Nat /\ Issued(position0)
    BY <1>2, RequestFields DEF IInv, TypeOK, PositionsOK
<1> HIDE DEF position0
<1>7. PageTypes'
  <2>1. localSeq' \in Nat /\ shown' \subseteq Content /\ taken' \subseteq Content
      BY <1>1, <1>2, <1>3, MergeTypes DEF IInv, TypeOK
  <2> QED
      BY <1>1, <1>3, <2>1 DEF IInv, TypeOK, PageTypes, Content
<1>8. DaemonTypes' /\ Rises' /\ Reserved' /\ \A n : Issued(n)' <=> Issued(n)
    BY <1>1, <1>3, SameDaemon, SameStream DEF IInv, TypeOK
<1>9. pipe' = <<>>
  <2>1. CASE link = "down"
      BY <2>1 DEF IInv, LinkOK, HistoryAnchors, connection
  <2>2. CASE link # "down"
      BY <2>2 DEF HistoryAnchors
  <2> QED
      BY <2>1, <2>2
<1>10. pipe' \in Seq(1..Len(log')) /\ Len(pipe') = 0 /\ Ordered' /\ Contiguous' /\ NeverBackwards'
    BY <1>9, EmptyPipe
<1>11. CASE /\ link' = "asked" /\ subscribed' = FALSE
            /\ fetch' = [NewEpoch(NoRows) EXCEPT !["history"] = NoRows]
  <2> DEFINE new == NewEpoch(NoRows)
  <2>1. /\ new \in [Fetches -> RequestType(Content, Len(log))]
        /\ new["gap"] = IF fetch["gap"].state = "idle" THEN fetch["gap"] ELSE Stale
        /\ new["reopen"] = NoRows
      BY <1>4, <1>5, NewEpochRequests DEF IInv, TypeOK
  <2>2. fetch' = [new EXCEPT !["history"] = NoRows]
      BY <1>11
  <2> HIDE DEF new
  <2>3. /\ fetch' \in [Fetches -> RequestType(Content, Len(log))]
        /\ fetch'["gap"] = IF fetch["gap"].state = "idle" THEN fetch["gap"] ELSE Stale
        /\ fetch'["reopen"] = NoRows /\ fetch'["history"] = NoRows
      BY <1>2, <1>5, <2>1, <2>2
  <2>4. FetchTypes'
      BY <1>3, <2>3 DEF FetchTypes, RequestType, Content
  <2>5. ConnectionTypes'
      BY <1>1, <1>6, <1>10, <1>11 DEF IInv, TypeOK, ConnectionTypes
  <2>6. PositionsOK'
      BY <1>1, <1>3, <1>5, <1>6, <1>8, <2>3 DEF IInv, PositionsOK, Issued, Fetches
  <2>7. LinkOK' /\ GapOK'
      BY <1>5, <1>9, <1>11, <2>3 DEF IInv, LinkOK, GapOK
  <2> QED
      BY <1>7, <1>8, <1>10, <2>4, <2>5, <2>6, <2>7 DEF IInv, TypeOK
<1>12. CASE /\ link = "down"
            /\ fetch' = [fetch EXCEPT !["history"] = NoRows]
            /\ UNCHANGED <<link, connection>>
  <2>1. UNCHANGED <<subscribed, pipe>>
      BY <1>12 DEF connection
  <2>2. /\ FetchTypes'
        /\ fetch'["history"] = NoRows
        /\ \A g \in Fetches \ {"history"} : fetch'[g] = fetch[g]
      BY <1>2, <1>3, <1>5, <1>12, RequestReplaced DEF IInv, TypeOK
  <2>3. ConnectionTypes'
      BY <1>1, <1>6, <1>10, <1>12, <2>1 DEF IInv, TypeOK, ConnectionTypes
  <2>4. PositionsOK'
      BY <1>1, <1>3, <1>5, <1>6, <1>8, <2>2 DEF IInv, PositionsOK, Issued
  <2>5. LinkOK' /\ GapOK'
      BY <1>1, <1>2, <1>3, <1>10, <1>12, <2>1, <2>2 DEF IInv, LinkOK, GapOK
  <2> QED
      BY <1>7, <1>8, <1>10, <2>2, <2>3, <2>4, <2>5 DEF IInv, TypeOK
<1> QED
    BY <1>11, <1>12 DEF HistoryAnchors

-----------------------------------------------------------------------------
(* An event is stamped, buffered and sent.                                 *)

LEMMA BroadcastStep ==
    ASSUME IInv, NEW kind \in Kinds, NEW row \in Nat, Broadcast(kind, row), writing' \in Nat
    PROVE  IInv'
<1> DEFINE n == Len(log) + 1
<1>1. /\ NextSeq \in Nat \ {0}
      /\ Len(log) \in Nat
      /\ Len(log') = n
      /\ \A e \in 1..Len(log) : log'[e] = log[e] /\ log[e].seq < NextSeq
      /\ log'[n] = [seq |-> NextSeq, kind |-> kind, row |-> row]
      /\ log' \in Seq([seq : Nat \ {0}, kind : Kinds, row : Nat])
      /\ disk' \in Nat /\ disk' >= disk /\ disk' >= NextSeq
    BY Stamped
<1>2. /\ UNCHANGED <<booted, stored, link, position, screen, lost, told, fetch, faultsLeft>>
      /\ evicted' = Larger(evicted, Len(log) + 1 - RingLimit)
      /\ IF subscribed /\ kind # "hidden" THEN Sends ELSE UNCHANGED <<subscribed, pipe>>
    BY DEF Broadcast
<1>3. UNCHANGED <<rows, saved, cursor, latestGap, base, localSeq, shown, taken>>
    BY <1>2 DEF stored, position, screen
<1>4. log'[n].seq = NextSeq /\ log'[n].kind = kind
    BY <1>1
<1>5. Content \subseteq Content' /\ \A e \in 1..Len(log) : e \in 1..Len(log')
    BY <1>1 DEF Content
<1> HIDE DEF n
<1>6. n = Len(log) + 1
    BY DEF n
<1>7. \A e \in 1..Len(log') : e = n \/ e \in 1..Len(log)
    BY <1>1, <1>6
<1>8. \A e \in 1..Len(log) : log[e].seq \in Nat
    BY LogTypes DEF IInv, TypeOK
<1>9. Rises'
  <2> SUFFICES ASSUME NEW d \in 1..Len(log'), NEW e \in 1..Len(log'), d < e
               PROVE  log'[d].seq < log'[e].seq
      BY DEF Rises
  <2>1. d \in 1..Len(log)
      BY <1>1, <1>6
  <2>2. CASE e = n
      BY <1>1, <1>4, <2>1, <2>2
  <2>3. CASE e \in 1..Len(log)
      BY <1>1, <2>1, <2>3 DEF IInv, Rises
  <2> QED
      BY <1>7, <2>2, <2>3
<1>10. Reserved'
  <2> SUFFICES ASSUME NEW e \in 1..Len(log') PROVE log'[e].seq <= disk'
      BY DEF Reserved
  <2>1. disk \in Nat
      BY DEF IInv, TypeOK, DaemonTypes
  <2>2. CASE e = n
      BY <1>1, <1>4, <2>2
  <2>3. CASE e \in 1..Len(log)
    <3>1. log'[e].seq = log[e].seq /\ log[e].seq <= disk
        BY <1>1, <2>3 DEF IInv, Reserved
    <3> QED
        BY <1>1, <1>8, <2>1, <2>3, <3>1
  <2> QED
      BY <1>7, <2>2, <2>3
<1>11. \A m : Issued(m) => Issued(m)'
    BY <1>1, <1>5 DEF Issued
<1>12. PositionsOK'
    BY <1>2, <1>3, <1>11 DEF IInv, PositionsOK
<1>13. DaemonTypes'
  <2>1. evicted' \in booted..n
      BY <1>1, <1>2, <1>6, EventStreamAssumption DEF IInv, TypeOK, DaemonTypes, Larger
  <2> QED
      BY <1>1, <1>2, <1>3, <1>5, <1>6, <2>1 DEF IInv, TypeOK, DaemonTypes
<1>14. PageTypes'
    BY <1>1, <1>2, <1>3, <1>5, <1>6 DEF IInv, TypeOK, PageTypes
<1>15. FetchTypes'
  <2>1. SUBSET Content \subseteq SUBSET Content' /\ 0..Len(log) \subseteq 0..Len(log')
      BY <1>1, <1>5, <1>6
  <2> QED
      BY <1>2, <2>1 DEF IInv, TypeOK, FetchTypes
<1>16. /\ Len(pipe) \in Nat /\ pipe \in Seq(1..Len(log))
       /\ \A i \in 1..Len(pipe) : pipe[i] \in 1..Len(log)
    BY PipeTypes DEF IInv, TypeOK, ConnectionTypes
<1>17. pipe \in Seq(1..Len(log'))
    BY <1>5, <1>16, SeqMonotonic
<1>18. \A i \in 1..Len(pipe) : log'[pipe[i]] = log[pipe[i]]
    BY <1>1, <1>16
<1>19. CASE UNCHANGED pipe /\ (subscribed' => subscribed /\ kind = "hidden")
           /\ subscribed' \in BOOLEAN
  <2>1. ConnectionTypes'
      BY <1>2, <1>3, <1>17, <1>19 DEF IInv, TypeOK, ConnectionTypes
  <2>2. LinkOK' /\ GapOK' /\ NeverBackwards' /\ Ordered'
      BY <1>2, <1>3, <1>18, <1>19 DEF IInv, LinkOK, GapOK, NeverBackwards, Ordered
  <2>3. ASSUME NEW i \in 1..(Len(pipe') - 1)
        PROVE  /\ pipe'[i] < pipe'[i + 1]
               /\ \A e \in (pipe'[i] + 1)..(pipe'[i + 1] - 1) : log'[e].kind = "hidden"
    <3>1. i \in 1..(Len(pipe) - 1) /\ i \in 1..Len(pipe) /\ i + 1 \in 1..Len(pipe)
        BY <1>16, <1>19
    <3>2. \A e \in (pipe[i] + 1)..(pipe[i + 1] - 1) : log'[e] = log[e]
      <4>1. pipe[i] \in 1..Len(log) /\ pipe[i + 1] \in 1..Len(log)
          BY <1>16, <3>1
      <4>2. \A e \in (pipe[i] + 1)..(pipe[i + 1] - 1) : e \in 1..Len(log)
          BY <1>1, <4>1
      <4> QED
          BY <1>1, <4>2
    <3> QED
        BY <1>19, <3>1, <3>2 DEF IInv, Contiguous
  <2>4. ASSUME subscribed', pipe' # <<>>, NEW e \in (pipe'[Len(pipe')] + 1)..Len(log')
        PROVE  log'[e].kind = "hidden"
    <3>1. Len(pipe) \in 1..Len(pipe)
        BY <1>16, <1>19, <2>4, EmptySeq
    <3>2. e \in (pipe[Len(pipe)] + 1)..Len(log) \/ e = n
        BY <1>1, <1>6, <1>16, <1>19, <2>4, <3>1
    <3>3. CASE e = n
        BY <1>4, <1>19, <2>4, <3>3
    <3>4. CASE e \in (pipe[Len(pipe)] + 1)..Len(log)
      <4>1. log[e].kind = "hidden"
          BY <1>19, <2>4, <3>4 DEF IInv, Contiguous
      <4>2. e \in 1..Len(log)
          BY <1>1, <1>16, <3>1, <3>4
      <4> QED
          BY <1>1, <4>1, <4>2
    <3> QED
        BY <3>2, <3>3, <3>4
  <2>5. Contiguous'
      BY <2>3, <2>4 DEF Contiguous
  <2> QED
      BY <1>9, <1>10, <1>12, <1>13, <1>14, <1>15, <2>1, <2>2, <2>5 DEF IInv, TypeOK
<1>20. CASE pipe' = Append(pipe, n) /\ subscribed /\ subscribed' = subscribed
  <2>1. /\ pipe' \in Seq(1..Len(log'))
        /\ Len(pipe') = Len(pipe) + 1
        /\ \A i \in 1..Len(pipe) : pipe'[i] = pipe[i]
        /\ pipe'[Len(pipe) + 1] = n
    <3>1. n \in 1..Len(log')
        BY <1>1, <1>6
    <3> QED
        BY <1>16, <1>17, <1>20, <3>1
  <2>2. \A i \in 1..Len(pipe') : i = Len(pipe) + 1 \/ i \in 1..Len(pipe)
      BY <1>16, <2>1
  <2>3. ConnectionTypes'
      BY <1>2, <1>3, <1>20, <2>1 DEF IInv, TypeOK, ConnectionTypes
  <2>4. Issued(cursor) => cursor < NextSeq
    <3>1. 0 < NextSeq
        BY <1>1
    <3> QED
        BY <1>1, <1>8, <3>1 DEF Issued, IInv, TypeOK, ConnectionTypes
  <2>5. link = "up" /\ latestGap # None => latestGap < NextSeq
      BY <1>1, <1>8 DEF Issued, IInv, TypeOK, ConnectionTypes, PositionsOK
  <2>6. LinkOK' /\ link = "up"
      BY <1>2, <1>20 DEF IInv, LinkOK
  <2>7. GapOK'
      BY <1>2, <1>3, <1>4, <1>18, <2>1, <2>2, <2>5, <2>6 DEF IInv, GapOK
  <2>8. NeverBackwards'
      BY <1>3, <1>4, <1>18, <2>1, <2>2, <2>4 DEF IInv, NeverBackwards, PositionsOK
  <2>9. Ordered'
    <3> SUFFICES ASSUME NEW i \in 1..Len(pipe'), NEW j \in 1..Len(pipe'), i < j
                 PROVE  pipe'[i] < pipe'[j]
        BY DEF Ordered
    <3>1. i \in 1..Len(pipe)
        BY <1>16, <2>1
    <3>2. CASE j = Len(pipe) + 1
      <4>1. pipe'[i] = pipe[i] /\ pipe[i] \in 1..Len(log) /\ pipe'[j] = n
          BY <1>16, <2>1, <3>1, <3>2
      <4> QED
          BY <1>1, <1>6, <4>1
    <3>3. CASE j \in 1..Len(pipe)
        BY <2>1, <3>1, <3>3 DEF IInv, Ordered
    <3> QED
        BY <2>2, <3>2, <3>3
  <2>10. ASSUME NEW i \in 1..(Len(pipe') - 1)
         PROVE  /\ pipe'[i] < pipe'[i + 1]
                /\ \A e \in (pipe'[i] + 1)..(pipe'[i + 1] - 1) : log'[e].kind = "hidden"
    <3>1. i \in 1..Len(pipe) /\ i \in 1..Len(pipe') /\ i + 1 \in 1..Len(pipe') /\ i < i + 1
        BY <1>16, <2>1
    <3>2. pipe'[i] < pipe'[i + 1]
        BY <2>9, <3>1 DEF Ordered
    <3>3. ASSUME NEW e \in (pipe'[i] + 1)..(pipe'[i + 1] - 1)
          PROVE  log'[e].kind = "hidden"
      <4>1. CASE i = Len(pipe)
        <5>1. e \in (pipe[Len(pipe)] + 1)..Len(log)
            BY <1>1, <1>6, <1>16, <2>1, <3>1, <4>1
        <5>2. log[e].kind = "hidden"
            BY <1>16, <1>20, <3>1, <5>1 DEF IInv, Contiguous
        <5>3. e \in 1..Len(log)
            BY <1>1, <1>16, <3>1, <4>1, <5>1
        <5> QED
            BY <1>1, <5>2, <5>3
      <4>2. CASE i # Len(pipe)
        <5>1. i \in 1..(Len(pipe) - 1) /\ i + 1 \in 1..Len(pipe)
            BY <1>16, <3>1, <4>2
        <5>2. e \in (pipe[i] + 1)..(pipe[i + 1] - 1)
            BY <2>1, <3>1, <5>1
        <5>3. log[e].kind = "hidden"
            BY <5>1, <5>2 DEF IInv, Contiguous
        <5>4. pipe[i] \in 1..Len(log) /\ pipe[i + 1] \in 1..Len(log)
            BY <1>16, <3>1, <5>1
        <5>5. e \in 1..Len(log)
            BY <1>1, <5>2, <5>4
        <5> QED
            BY <1>1, <5>3, <5>5
      <4> QED
          BY <4>1, <4>2
    <3> QED
        BY <3>2, <3>3
  <2>11. Contiguous'
    <3>1. \A e \in (pipe'[Len(pipe')] + 1)..Len(log') : log'[e].kind = "hidden"
        BY <1>1, <1>6, <2>1
    <3> QED
        BY <2>10, <3>1 DEF Contiguous
  <2> QED
      BY <1>9, <1>10, <1>12, <1>13, <1>14, <1>15, <2>3, <2>6, <2>7, <2>8, <2>9, <2>11
      DEF IInv, TypeOK
<1>21. subscribed \in BOOLEAN
    BY DEF IInv, TypeOK, ConnectionTypes
<1> QED
    BY <1>2, <1>6, <1>19, <1>20, <1>21 DEF Sends

LEMMA DeltaStep ==
    ASSUME IInv, Delta
    PROVE  IInv'
<1>1. PICK row \in {writing, writing + 1} : /\ "content" \in Kinds
                                           /\ writing' = row
                                           /\ Broadcast("content", row)
    BY DEF Delta
<1>2. row \in Nat
    BY <1>1 DEF IInv, TypeOK, DaemonTypes
<1> QED
    BY <1>1, <1>2, BroadcastStep

LEMMA SignalStep ==
    ASSUME IInv, Signal
    PROVE  IInv'
<1>1. PICK kind \in Kinds : Broadcast(kind, 0)
    BY DEF Signal
<1>2. writing' \in Nat
    BY DEF Signal, IInv, TypeOK, DaemonTypes
<1> QED
    BY <1>1, <1>2, BroadcastStep

LEMMA Stuttering ==
    ASSUME IInv, UNCHANGED vars
    PROVE  IInv'
<1>1. PageTypes' /\ FetchTypes'
    BY SamePage, SameFetch DEF vars, IInv, TypeOK, PageTypes, daemon
<1>2. /\ cursor' \in Nat \cup {None} /\ latestGap' \in Nat \cup {None} /\ base' \in Nat
      /\ cursor' # None => Issued(cursor')
      /\ latestGap' # None => Issued(latestGap')
      /\ \A f \in Fetches : Issued(fetch'[f].seq)
    BY DEF vars, IInv, TypeOK, PositionsOK, ConnectionTypes, position
<1>3. GapOK' /\ NeverBackwards'
    BY SameGap, SameAhead DEF vars, IInv, daemon, connection, position
<1> QED
    BY <1>1, <1>2, <1>3, PageStep DEF vars

-----------------------------------------------------------------------------
(* The theorems.                                                           *)

LEMMA Inductive == IInv /\ [Next]_vars => IInv'
<1> SUFFICES ASSUME IInv, [Next]_vars PROVE IInv'
    OBVIOUS
<1>1. CASE Delta \/ Signal \/ Evict \/ HeartbeatSheds \/ Flush \/ Crash
    BY <1>1, DeltaStep, SignalStep, EvictStep, HeartbeatShedsStep, FlushStep, CrashStep
<1>2. CASE Attach \/ ReadNext \/ ReadGap \/ Ended \/ Break \/ Reopen
    BY <1>2, AttachStep, ReadNextStep, ReadGapStep, EndedStep, BreakStep, ReopenStep
<1>3. CASE \E f \in Fetches : Answer(f)
    BY <1>3, AnswerStep
<1>4. CASE HistoryShown \/ HistoryAnchors
    BY <1>4, HistoryShownStep, HistoryAnchorsStep
<1>5. CASE GapClosed \/ GapOutdated \/ GapFails \/ Reconciled
    BY <1>5, GapClosedStep, GapOutdatedStep, GapFailsStep, ReconciledStep
<1>6. CASE UNCHANGED vars
    BY <1>6, Stuttering
<1> QED
    BY <1>1, <1>2, <1>3, <1>4, <1>5, <1>6 DEF Next

LEMMA Invariance == Spec => []IInv
<1>1. Init => IInv
    BY Initially
<1>2. IInv /\ [Next]_vars => IInv'
    BY Inductive
<1> QED
    BY <1>1, <1>2, PTL DEF Spec

(* Every variable keeps its type, and the ring stays within the stream of   *)
(* the process that filled it.                                              *)
THEOREM TypeCorrect == Spec => []TypeOK
<1>1. IInv => TypeOK
    BY DEF IInv
<1> QED
    BY <1>1, Invariance, PTL

(* What a connection has still to read is a run of the stream without a     *)
(* hole, whatever the ring has kept and however the queue overflows.        *)
THEOREM SentWithoutHole == Spec => []Contiguous
<1>1. IInv => Contiguous
    BY DEF IInv
<1> QED
    BY <1>1, Invariance, PTL

(* Nothing at or below the cursor is sent again: replay, gap reconciles and  *)
(* restarts keep numbers and positions in order.                            *)
THEOREM OnlyAboveCursor == Spec => []NeverBackwards
<1>1. IInv => NeverBackwards
    BY DEF IInv
<1> QED
    BY <1>1, Invariance, PTL

=============================================================================
