---------------------------- MODULE MemoryJobsProofs ----------------------------
(* Theorems about MemoryJobs for any conversations, caps and limits, any    *)
(* number of rows, of operations of others and of crashes.                  *)
EXTENDS MemoryJobs, SequenceTheorems, FiniteSetTheorems, TLAPS

-----------------------------------------------------------------------------
(* The inductive invariant.                                                *)

(* A row the tick under way has claimed is running, unless it was wiped;   *)
(* maintenance jobs, which are of no conversation, are not.                *)
RowOK(i) ==
  /\ stage[i] # "off" => job[i].status \in {"running", "failed"}
  /\ stage[i] # "off" /\ job[i].kind = "prune" => job[i].status = "running"
  /\ job[i].kind = "prune" <=> job[i].conv = NoConv

(* The runs of a row that are counted: one of its own once it has started, *)
(* and none while it waits to be run again.                                *)
Allowed(i) == job[i].attempts + job[i].deferrals + (MaxCrashes - crashesLeft)
CountedOK(i) ==
  /\ job[i].starts <= Allowed(i) + 1
  /\ \/ Pending(i)
     \/ stage[i] = "held"
     \/ ~up /\ job[i].status = "running"
     => job[i].starts <= Allowed(i)

RowsOK == \A i \in DOMAIN job : RowOK(i) /\ CountedOK(i)

(* TriggersCovered, with the rows a crash has cut off and without those a  *)
(* wipe has taken.                                                         *)
CoveredBy(t, i) ==
  /\ Trigger(i) = t
  /\ \/ Pending(i)
     \/ job[i].status = "running" /\ (stage[i] = "held" \/ ~up)
Covered == \A t \in asked : \E i \in DOMAIN job : CoveredBy(t, i)

PruneApart == \A i, j \in PruneActive : i = j
QueriesOK == queries + queriesLeft <= MaxQueries

IInv ==
  /\ TypeOK
  /\ RowsOK
  /\ Covered
  /\ Serial
  /\ PruneApart
  /\ HalfOpenHasProbe
  /\ QueriesOK

-----------------------------------------------------------------------------
(* Tables.                                                                 *)

LEMMA Table ==
    ASSUME TypeOK
    PROVE  /\ Len(job) \in Nat /\ Len(job) <= MaxRows
           /\ DOMAIN job = 1..Len(job)
           /\ DOMAIN job \subseteq Ids
           /\ \A i \in DOMAIN job : job[i] \in Rows
<1>1. job \in Seq(Rows) /\ Len(job) <= MaxRows
    BY DEF TypeOK
<1>2. Len(job) \in Nat /\ DOMAIN job = 1..Len(job)
    BY <1>1
<1>3. \A i \in DOMAIN job : job[i] \in Rows
    BY <1>1, <1>2
<1>4. DOMAIN job \subseteq Ids
    BY <1>1, <1>2, MemoryJobsAssumption DEF Ids
<1> QED
    BY <1>1, <1>2, <1>3, <1>4

(* A function of rows with the domain of a table is a table as long.       *)
LEMMA SameTable ==
    ASSUME NEW n \in Nat, NEW f, f = [i \in 1..n |-> f[i]],
           \A i \in 1..n : f[i] \in Rows
    PROVE  /\ f \in Seq(Rows)
           /\ Len(f) = n
           /\ DOMAIN f = 1..n
<1>1. f \in [1..n -> Rows]
    OBVIOUS
<1>2. f \in Seq(Rows)
    BY <1>1
<1> QED
    BY <1>1, <1>2

-----------------------------------------------------------------------------
(* Enqueueing.                                                             *)

(* What an enqueueing call leaves of the table: a pending row may get      *)
(* another time or be stood in for, and a new row comes last.              *)
Grows(type, c) ==
  /\ job' \in Seq(Rows)
  /\ Len(job') <= MaxRows
  /\ DOMAIN job \subseteq DOMAIN job'
  /\ \A i \in DOMAIN job :
       \/ job'[i] = job[i]
       \/ /\ Pending(i)
          /\ \/ \E time \in Times : job'[i] = [job[i] EXCEPT !.time = time]
             \/ Trigger(i) = <<type, c>> /\ job'[i] = Ended(job[i], "completed")
  /\ \A i \in DOMAIN job' \ DOMAIN job :
       \E kind \in Kinds \ {"prune"}, time \in Times :
         job'[i] = NewRow(kind, c, time)

LEMMA InsertGrows ==
    ASSUME TypeOK, NEW rows \in Seq(Rows), Len(rows) = Len(job),
           NEW kind \in Kinds, NEW c \in Convs \cup {NoConv}, NEW time \in Times,
           Insert(rows, kind, c, time)
    PROVE  /\ job' \in Seq(Rows)
           /\ Len(job') <= MaxRows
           /\ DOMAIN job' = DOMAIN job \cup {Len(job) + 1}
           /\ Len(job) + 1 \notin DOMAIN job
           /\ \A i \in DOMAIN job : job'[i] = rows[i]
           /\ job'[Len(job) + 1] = NewRow(kind, c, time)
<1>1. NewRow(kind, c, time) \in Rows
    BY DEF NewRow, Rows, Statuses
<1>2. /\ Len(job) \in Nat /\ DOMAIN job = 1..Len(job)
      /\ Len(job) < MaxRows /\ job' = Append(rows, NewRow(kind, c, time))
    BY DEF Insert
<1>3. /\ job' \in Seq(Rows) /\ Len(job') = Len(job) + 1
      /\ \A i \in 1..Len(job) : job'[i] = rows[i]
      /\ job'[Len(job) + 1] = NewRow(kind, c, time)
    BY <1>1, <1>2
<1>4. DOMAIN job' = 1..(Len(job) + 1)
    BY <1>3
<1> QED
    BY <1>2, <1>3, <1>4, MemoryJobsAssumption

(* An upsert into the table its own call has left.                         *)
LEMMA UpsertGrows ==
    ASSUME TypeOK, NEW type, NEW c \in Convs, NEW kind \in Kinds \ {"prune"},
           NEW time \in Times, NEW rows \in Seq(Rows), Len(rows) = Len(job),
           \A i \in DOMAIN job :
             \/ rows[i] = job[i]
             \/ /\ Pending(i) /\ Trigger(i) = <<type, c>> /\ job[i].kind # kind
                /\ rows[i] = Ended(job[i], "completed"),
           Upsert(rows, kind, c, time)
    PROVE  /\ Grows(type, c)
           /\ \E i \in DOMAIN job' :
                /\ job'[i].status = "pending"
                /\ job'[i].kind = kind
                /\ job'[i].conv = c
<1>1. /\ Len(job) \in Nat /\ DOMAIN job = 1..Len(job) /\ Len(job) <= MaxRows
      /\ \A i \in DOMAIN job : job[i] \in Rows
      /\ DOMAIN rows = 1..Len(job)
    BY Table
<1>2. CASE Insert(rows, kind, c, time)
    <2>1. /\ job' \in Seq(Rows)
          /\ Len(job') <= MaxRows
          /\ DOMAIN job' = DOMAIN job \cup {Len(job) + 1}
          /\ \A i \in DOMAIN job : job'[i] = rows[i]
          /\ job'[Len(job) + 1] = NewRow(kind, c, time)
        <3>1. kind \in Kinds /\ c \in Convs \cup {NoConv}
            OBVIOUS
        <3> QED
            BY <1>2, <3>1, InsertGrows
    <2>2. Grows(type, c)
        BY <2>1 DEF Grows
    <2>3. /\ job'[Len(job) + 1].status = "pending"
          /\ job'[Len(job) + 1].kind = kind
          /\ job'[Len(job) + 1].conv = c
        BY <2>1 DEF NewRow
    <2> QED
        BY <2>1, <2>2, <2>3
<1>3. ASSUME NEW i \in PendingOf(kind, c),
             job' = [rows EXCEPT ![i].time = IF Pending(i) THEN time ELSE @]
      PROVE  /\ Grows(type, c)
             /\ i \in DOMAIN job' /\ job'[i].status = "pending"
             /\ job'[i].kind = kind /\ job'[i].conv = c
    <2>1. /\ i \in DOMAIN job /\ Pending(i) /\ job[i].kind = kind /\ job[i].conv = c
          /\ rows[i] = job[i]
        BY <1>3 DEF PendingOf
    <2>2. job' = [rows EXCEPT ![i] = [job[i] EXCEPT !.time = time]]
        BY <1>1, <1>3, <2>1
    <2>3. [job[i] EXCEPT !.time = time] \in Rows
        BY <1>1, <2>1 DEF Rows
    <2>4. /\ job' \in Seq(Rows) /\ Len(job') = Len(job)
          /\ \A j \in 1..Len(job) :
               job'[j] = IF j = i THEN [job[i] EXCEPT !.time = time] ELSE rows[j]
        BY <1>1, <2>1, <2>2, <2>3
    <2>5. DOMAIN job' = DOMAIN job
        BY <1>1, <2>4
    <2>6. Grows(type, c)
        BY <1>1, <2>1, <2>4, <2>5 DEF Grows
    <2>7. job'[i].status = "pending" /\ job'[i].kind = kind /\ job'[i].conv = c
        BY <1>1, <2>1, <2>4 DEF Pending, Rows
    <2> QED
        BY <2>1, <2>5, <2>6, <2>7
<1> QED
    BY <1>2, <1>3 DEF Upsert

(* A trigger that is noted in a pending row preserves the invariant.       *)
LEMMA AsksInv ==
    ASSUME IInv, NEW type \in {"retro", "analyze", "extract"}, NEW c \in Convs,
           Asks(type, c), Grows(type, c),
           \E i \in DOMAIN job' :
             /\ job'[i].status = "pending"
             /\ Type(job'[i].kind) = type
             /\ job'[i].conv = c
    PROVE  IInv'
<1>1. /\ TypeOK /\ RowsOK /\ Covered /\ Serial /\ PruneApart /\ HalfOpenHasProbe
      /\ QueriesOK
      /\ UNCHANGED <<stage, breaker, queries, up, queriesLeft, crashesLeft>>
      /\ asked' = asked \cup {<<type, c>>}
      /\ DOMAIN job \subseteq DOMAIN job'
    BY DEF IInv, Asks, Grows
<1>2. \A i \in DOMAIN job : job[i] \in Rows
    BY <1>1, Table
<1>3. ASSUME NEW i \in DOMAIN job
      PROVE  /\ job'[i].kind = job[i].kind /\ job'[i].conv = job[i].conv
             /\ \/ job'[i] = job[i]
                \/ /\ Pending(i) /\ job'[i].status = "pending"
                   /\ job'[i].starts = job[i].starts
                   /\ job'[i].attempts = job[i].attempts
                   /\ job'[i].deferrals = job[i].deferrals
                \/ /\ Pending(i) /\ job'[i].status = "completed"
                   /\ Trigger(i) = <<type, c>>
                   /\ job'[i].starts = 0 /\ job'[i].attempts = 0
                   /\ job'[i].deferrals = 0
    BY <1>2, <1>3 DEF Grows, Ended, Rows, Pending
<1>4. ASSUME NEW i \in DOMAIN job' \ DOMAIN job
      PROVE  /\ job'[i].status = "pending" /\ job'[i].conv = c
             /\ job'[i].starts = 0 /\ job'[i].attempts = 0 /\ job'[i].deferrals = 0
             /\ job'[i].kind # "prune"
    BY <1>4 DEF Grows, NewRow
<1>5. \A i \in Ids : stage[i] # "off" => i \in DOMAIN job
    BY <1>1 DEF TypeOK
<1>6. /\ Len(job') \in Nat /\ DOMAIN job' = 1..Len(job') /\ DOMAIN job' \subseteq Ids
      /\ \A i \in DOMAIN job' : job'[i] \in Rows
    <2>1. job' \in Seq(Rows) /\ Len(job') <= MaxRows
        BY DEF Grows
    <2> QED
        BY <2>1, MemoryJobsAssumption DEF Ids
<1>7. TypeOK'
    BY <1>1, <1>6 DEF TypeOK, Grows
<1>8. \A i \in DOMAIN job' \ DOMAIN job : stage[i] = "off"
    BY <1>5, <1>6
<1>9. RowsOK'
    <2>1. ASSUME NEW i \in DOMAIN job PROVE RowOK(i)' /\ CountedOK(i)'
        <3>1. RowOK(i) /\ CountedOK(i)
            BY <1>1 DEF RowsOK
        <3>2. RowOK(i)'
            BY <1>1, <1>3, <3>1 DEF RowOK, Pending
        <3>3. MaxCrashes - crashesLeft \in Nat
            BY <1>1, MemoryJobsAssumption DEF TypeOK
        <3>4. CountedOK(i)'
            BY <1>1, <1>3, <3>1, <3>3 DEF CountedOK, Allowed, Pending
        <3> QED
            BY <3>2, <3>4
    <2>2. ASSUME NEW i \in DOMAIN job' \ DOMAIN job PROVE RowOK(i)' /\ CountedOK(i)'
        <3>1. job'[i].kind # "prune" /\ job'[i].conv # NoConv
            BY <1>4, MemoryJobsAssumption
        <3>2. MaxCrashes - crashesLeft \in Nat
            BY <1>1, MemoryJobsAssumption DEF TypeOK
        <3> QED
            BY <1>1, <1>4, <1>8, <3>1, <3>2 DEF RowOK, CountedOK, Allowed
    <2> QED
        BY <2>1, <2>2 DEF RowsOK
<1>10. Covered'
    <2>1. ASSUME NEW t \in asked' PROVE \E i \in DOMAIN job' : CoveredBy(t, i)'
        <3>1. CASE t = <<type, c>>
            BY <3>1 DEF CoveredBy, Trigger, Pending
        <3>2. CASE t # <<type, c>>
            <4>1. PICK i \in DOMAIN job : CoveredBy(t, i)
                BY <1>1, <2>1, <3>2 DEF Covered
            <4>2. CoveredBy(t, i)'
                BY <1>1, <1>3, <3>2, <4>1 DEF CoveredBy, Trigger, Pending
            <4> QED
                BY <1>1, <4>1, <4>2
        <3> QED
            BY <3>1, <3>2
    <2> QED
        BY <2>1 DEF Covered
<1>11. Serial'
    <2>1. \A i \in DOMAIN job : Key(i)' = Key(i)
        BY <1>3 DEF Key
    <2>2. \A i \in DOMAIN job' : Live(i)' => i \in DOMAIN job /\ Live(i)
        BY <1>1, <1>8 DEF Live
    <2> QED
        BY <1>1, <2>1, <2>2 DEF Serial
<1>12. PruneApart'
    <2>1. ASSUME NEW i \in PruneActive' PROVE i \in PruneActive
        <3>1. i \in DOMAIN job' /\ Active(i)' /\ job'[i].kind = "prune"
            BY <2>1 DEF PruneActive, ActiveOf
        <3>2. i \in DOMAIN job
            BY <1>4, <3>1
        <3> QED
            BY <1>3, <2>1, <3>1, <3>2 DEF PruneActive, ActiveOf, Active, Pending
    <2> QED
        BY <1>1, <2>1 DEF PruneApart
<1>13. HalfOpenHasProbe'
    BY <1>1 DEF HalfOpenHasProbe
<1>14. QueriesOK'
    BY <1>1 DEF QueriesOK
<1> QED
    BY <1>7, <1>9, <1>10, <1>11, <1>12, <1>13, <1>14 DEF IInv

LEMMA EnqueueRetroInv ==
    ASSUME IInv, NEW c \in Convs, NEW time \in {"ripe", "later"},
           EnqueueRetro(c, time)
    PROVE  IInv'
<1>1. TypeOK
    BY DEF IInv
<1>2. PICK at \in Times : Upsert(job, "retro", c, at)
    BY DEF EnqueueRetro, Times
<1>3. "retro" \in Kinds \ {"prune"} /\ job \in Seq(Rows)
    BY <1>1 DEF EnqueueRetro, TypeOK
<1>4. /\ Grows("retro", c)
      /\ \E i \in DOMAIN job' : /\ job'[i].status = "pending"
                                /\ job'[i].kind = "retro"
                                /\ job'[i].conv = c
    BY <1>1, <1>2, <1>3, UpsertGrows
<1> QED
    BY <1>4, AsksInv DEF EnqueueRetro, Type

LEMMA EnqueueExtractInv ==
    ASSUME IInv, NEW c \in Convs, NEW time \in {"ripe", "later"},
           EnqueueExtract(c, time)
    PROVE  IInv'
<1>1. TypeOK /\ time \in Times
    BY DEF IInv, Times
<1>2. /\ "extract" \in Kinds \ {"prune"} /\ job \in Seq(Rows)
      /\ Upsert(job, "extract", c, time)
    BY <1>1 DEF EnqueueExtract, TypeOK
<1>3. /\ Grows("extract", c)
      /\ \E i \in DOMAIN job' : /\ job'[i].status = "pending"
                                /\ job'[i].kind = "extract"
                                /\ job'[i].conv = c
    BY <1>1, <1>2, UpsertGrows
<1> QED
    BY <1>3, AsksInv DEF EnqueueExtract, Type

LEMMA EnqueueIdleInv ==
    ASSUME IInv, NEW c \in Convs, EnqueueIdle(c)
    PROVE  IInv'
<1>1. TypeOK /\ "later" \in Times
    BY DEF IInv, Times
<1>2. /\ "analyzeIdle" \in Kinds \ {"prune"} /\ job \in Seq(Rows)
      /\ Upsert(job, "analyzeIdle", c, "later")
    BY <1>1 DEF EnqueueIdle, TypeOK
<1>3. /\ Grows("analyze", c)
      /\ \E i \in DOMAIN job' : /\ job'[i].status = "pending"
                                /\ job'[i].kind = "analyzeIdle"
                                /\ job'[i].conv = c
    BY <1>1, <1>2, UpsertGrows
<1> QED
    BY <1>3, AsksInv DEF EnqueueIdle, Type

(* The idle row that is stood in for has the trigger of the row that stands *)
(* in for it.                                                              *)
LEMMA StandInRows ==
    ASSUME TypeOK, NEW c, NEW rows, rows = StandsInFor(c)
    PROVE  /\ rows \in Seq(Rows)
           /\ Len(rows) = Len(job)
           /\ \A i \in DOMAIN job :
                \/ rows[i] = job[i]
                \/ /\ Pending(i) /\ Trigger(i) = <<"analyze", c>>
                   /\ job[i].kind # "analyzeNow"
                   /\ rows[i] = Ended(job[i], "completed")
<1>1. /\ Len(job) \in Nat /\ DOMAIN job = 1..Len(job)
      /\ \A i \in DOMAIN job : job[i] \in Rows
    BY Table
<1>2. ASSUME NEW i \in DOMAIN job
      PROVE  /\ rows[i] \in Rows
             /\ \/ rows[i] = job[i]
                \/ /\ Pending(i) /\ Trigger(i) = <<"analyze", c>>
                   /\ job[i].kind # "analyzeNow"
                   /\ rows[i] = Ended(job[i], "completed")
    <2>1. rows[i] = IF i \in PendingOf("analyzeIdle", c)
                    THEN Ended(job[i], "completed") ELSE job[i]
        BY DEF StandsInFor
    <2>2. Ended(job[i], "completed") \in Rows
        BY <1>1 DEF Ended, Rows, Statuses, Times
    <2> QED
        BY <1>1, <2>1, <2>2 DEF PendingOf, Trigger, Type
<1>3. rows = [i \in 1..Len(job) |-> rows[i]]
    BY <1>1 DEF StandsInFor
<1>4. rows \in Seq(Rows) /\ Len(rows) = Len(job)
    BY <1>1, <1>2, <1>3
<1> QED
    BY <1>2, <1>4

LEMMA EnqueueNowInv ==
    ASSUME IInv, NEW c \in Convs, EnqueueNow(c)
    PROVE  IInv'
<1>1. TypeOK /\ "ripe" \in Times
    BY DEF IInv, Times
<1>2. PICK rows : rows = StandsInFor(c)
    OBVIOUS
<1>3. rows \in Seq(Rows) /\ Len(rows) = Len(job)
    BY <1>1, <1>2, StandInRows
<1>4. \A i \in DOMAIN job :
        \/ rows[i] = job[i]
        \/ /\ Pending(i) /\ Trigger(i) = <<"analyze", c>> /\ job[i].kind # "analyzeNow"
           /\ rows[i] = Ended(job[i], "completed")
    BY <1>1, <1>2, StandInRows
<1>5. /\ "analyzeNow" \in Kinds \ {"prune"}
      /\ Upsert(rows, "analyzeNow", c, "ripe")
    BY <1>2 DEF EnqueueNow
<1>6. /\ Grows("analyze", c)
      /\ \E i \in DOMAIN job' : /\ job'[i].status = "pending"
                                /\ job'[i].kind = "analyzeNow"
                                /\ job'[i].conv = c
    BY <1>1, <1>3, <1>4, <1>5, UpsertGrows
<1> QED
    BY <1>6, AsksInv DEF EnqueueNow, Type

(* A new row that no trigger asks for.                                     *)
LEMMA InsertInv ==
    ASSUME IInv, NEW kind \in Kinds, NEW c \in Convs \cup {NoConv},
           Insert(job, kind, c, "ripe"), kind = "prune" <=> c = NoConv,
           kind = "prune" => PruneActive = {},
           UNCHANGED <<stage, breaker, queries, up, queriesLeft, crashesLeft, asked>>
    PROVE  IInv'
<1>1. /\ TypeOK /\ RowsOK /\ Covered /\ Serial /\ PruneApart /\ HalfOpenHasProbe
      /\ QueriesOK
    BY DEF IInv
<1>2. job \in Seq(Rows) /\ "ripe" \in Times
    BY <1>1 DEF TypeOK, Times
<1>3. PICK n : n = Len(job) + 1
    OBVIOUS
<1>4. /\ job' \in Seq(Rows)
      /\ Len(job') <= MaxRows
      /\ DOMAIN job' = DOMAIN job \cup {n}
      /\ n \notin DOMAIN job
      /\ \A i \in DOMAIN job : job'[i] = job[i]
      /\ job'[n] = NewRow(kind, c, "ripe")
    BY <1>1, <1>2, <1>3, InsertGrows
<1>5. \A i \in Ids : stage[i] # "off" => i \in DOMAIN job /\ up
    BY <1>1 DEF TypeOK
<1>6. n \in Ids
    <2>1. job' \in Seq(Rows) /\ Len(job') <= MaxRows /\ n \in DOMAIN job'
        BY <1>4
    <2>2. Len(job') \in Nat /\ DOMAIN job' = 1..Len(job')
        BY <2>1
    <2> QED
        BY <2>1, <2>2, MemoryJobsAssumption DEF Ids
<1>7. stage[n] = "off"
    BY <1>4, <1>5, <1>6
<1>8. /\ job'[n].status = "pending" /\ job'[n].kind = kind /\ job'[n].conv = c
      /\ job'[n].starts = 0 /\ job'[n].attempts = 0 /\ job'[n].deferrals = 0
    BY <1>4 DEF NewRow
<1>9. TypeOK'
    BY <1>1, <1>4, <1>5 DEF TypeOK
<1>10. RowsOK'
    <2>1. MaxCrashes - crashesLeft \in Nat
        BY <1>1, MemoryJobsAssumption DEF TypeOK
    <2>2. RowOK(n)' /\ CountedOK(n)'
        BY <1>7, <1>8, <2>1 DEF RowOK, CountedOK, Allowed
    <2>3. ASSUME NEW i \in DOMAIN job PROVE RowOK(i)' /\ CountedOK(i)'
        BY <1>1, <1>4 DEF RowsOK, RowOK, CountedOK, Allowed, Pending
    <2> QED
        BY <1>4, <2>2, <2>3 DEF RowsOK
<1>11. Covered'
    <2>1. ASSUME NEW t \in asked' PROVE \E i \in DOMAIN job' : CoveredBy(t, i)'
        <3>1. PICK i \in DOMAIN job : CoveredBy(t, i)
            BY <1>1, <2>1 DEF Covered
        <3>2. CoveredBy(t, i)'
            BY <1>4, <3>1 DEF CoveredBy, Trigger, Pending
        <3> QED
            BY <1>4, <3>2
    <2> QED
        BY <2>1 DEF Covered
<1>12. Serial'
    BY <1>1, <1>4, <1>7 DEF Serial, Live, Key
<1>13. PruneApart'
    <2>1. CASE kind = "prune"
        <3>1. \A i \in PruneActive' : i = n
            BY <1>4, <2>1 DEF PruneActive, ActiveOf, Active
        <3> QED
            BY <3>1 DEF PruneApart
    <2>2. CASE kind # "prune"
        <3>1. \A i \in PruneActive' : i \in PruneActive
            BY <1>4, <1>8, <2>2 DEF PruneActive, ActiveOf, Active
        <3> QED
            BY <1>1, <3>1 DEF PruneApart
    <2> QED
        BY <2>1, <2>2
<1>14. HalfOpenHasProbe' /\ QueriesOK'
    BY <1>1 DEF HalfOpenHasProbe, QueriesOK
<1> QED
    BY <1>9, <1>10, <1>11, <1>12, <1>13, <1>14 DEF IInv

LEMMA EnqueueInv ==
    ASSUME IInv, Enqueue
    PROVE  IInv'
<1>1. ASSUME NEW c \in Convs, EnqueueEmbed(c) PROVE IInv'
    <2>1. /\ "embed" \in Kinds /\ c \in Convs \cup {NoConv} /\ c # NoConv
          /\ Insert(job, "embed", c, "ripe")
          /\ UNCHANGED <<stage, breaker, queries, up, queriesLeft, crashesLeft, asked>>
        BY <1>1, MemoryJobsAssumption DEF EnqueueEmbed
    <2> QED
        BY <2>1, InsertInv
<1>2. ASSUME EnqueuePrune PROVE IInv'
    <2>1. /\ "prune" \in Kinds /\ NoConv \in Convs \cup {NoConv}
          /\ Insert(job, "prune", NoConv, "ripe") /\ PruneActive = {}
          /\ UNCHANGED <<stage, breaker, queries, up, queriesLeft, crashesLeft, asked>>
        BY <1>2 DEF EnqueuePrune
    <2> QED
        BY <2>1, InsertInv
<1> QED
    BY <1>1, <1>2, EnqueueRetroInv, EnqueueExtractInv, EnqueueIdleInv,
       EnqueueNowInv
    DEF Enqueue

-----------------------------------------------------------------------------
(* Steps that add no row and keep the kind and conversation of each.       *)

SameRows ==
  /\ job \in Seq(Rows) => job' \in Seq(Rows) /\ Len(job') = Len(job)
  /\ DOMAIN job' = DOMAIN job
  /\ \A i \in DOMAIN job :
       /\ job'[i].kind = job[i].kind
       /\ job'[i].conv = job[i].conv
       /\ Active(i)' /\ job[i].kind = "prune" => Active(i)

LEMMA MappedRows ==
    ASSUME TypeOK, NEW f, job' = [i \in DOMAIN job |-> f[i]],
           \A i \in DOMAIN job : f[i] \in Rows
    PROVE  /\ job' \in Seq(Rows)
           /\ Len(job') = Len(job)
           /\ DOMAIN job' = DOMAIN job
           /\ \A i \in DOMAIN job : job'[i] = f[i]
<1>1. Len(job) \in Nat /\ DOMAIN job = 1..Len(job)
    OBVIOUS
<1>2. PICK g : g = [i \in 1..Len(job) |-> f[i]]
    OBVIOUS
<1>3. /\ g = [i \in 1..Len(job) |-> g[i]]
      /\ \A i \in 1..Len(job) : g[i] \in Rows /\ g[i] = f[i]
    BY <1>1, <1>2
<1>4. g \in Seq(Rows) /\ Len(g) = Len(job)
    BY <1>1, <1>3
<1> QED
    BY <1>1, <1>2, <1>4

LEMMA SameKeys ==
    ASSUME SameRows
    PROVE  /\ \A i \in DOMAIN job : Key(i)' = Key(i) /\ Trigger(i)' = Trigger(i)
           /\ PruneApart => PruneApart'
<1>1. \A i \in DOMAIN job : Key(i)' = Key(i) /\ Trigger(i)' = Trigger(i)
    BY DEF SameRows, Key, Trigger
<1>2. \A i \in PruneActive' : i \in PruneActive
    BY DEF SameRows, PruneActive, ActiveOf
<1> QED
    BY <1>1, <1>2 DEF PruneApart

(* Steps that only touch rows which are not being handled.                 *)
LEMMA WipeInv ==
    ASSUME IInv, NEW c \in Convs, Wipe(c)
    PROVE  IInv'
<1>1. /\ TypeOK /\ RowsOK /\ Covered /\ Serial /\ PruneApart /\ HalfOpenHasProbe
      /\ QueriesOK
      /\ UNCHANGED <<stage, breaker, queries, up, queriesLeft, crashesLeft>>
      /\ asked' = {t \in asked : t[2] # c}
    BY DEF IInv, Wipe
<1>2. PICK f : f = [i \in DOMAIN job |->
               IF Active(i) /\ job[i].conv = c
               THEN IF stage[i] = "off" THEN Ended(job[i], "failed")
                    ELSE [job[i] EXCEPT !.status = "failed"]
               ELSE job[i]]
    OBVIOUS
<1>3. job' = [i \in DOMAIN job |-> f[i]]
    BY <1>2 DEF Wipe
<1>4. ASSUME NEW i \in DOMAIN job
      PROVE  /\ f[i] \in Rows /\ f[i].kind = job[i].kind /\ f[i].conv = job[i].conv
             /\ \/ f[i] = job[i]
                \/ /\ f[i].status = "failed" /\ job[i].conv = c
                   /\ \/ stage[i] = "off" /\ f[i].starts = 0
                         /\ f[i].attempts = 0 /\ f[i].deferrals = 0
                      \/ stage[i] # "off" /\ f[i].starts = job[i].starts
                         /\ f[i].attempts = job[i].attempts
                         /\ f[i].deferrals = job[i].deferrals
    <2>1. job[i] \in Rows
        BY <1>1, Table
    <2> QED
        BY <1>2, <2>1 DEF Ended, Rows, Statuses, Times
<1>5. /\ job' \in Seq(Rows) /\ Len(job') = Len(job) /\ DOMAIN job' = DOMAIN job
      /\ \A i \in DOMAIN job : job'[i] = f[i]
    BY <1>1, <1>3, <1>4
<1>6. SameRows
    BY <1>4, <1>5 DEF SameRows, Active
<1>7. TypeOK'
    BY <1>1, <1>5 DEF TypeOK
<1>8. RowsOK'
    <2>1. ASSUME NEW i \in DOMAIN job PROVE RowOK(i)' /\ CountedOK(i)'
        <3>1. RowOK(i) /\ CountedOK(i) /\ job[i] \in Rows
            BY <1>1, Table DEF RowsOK
        <3>2. RowOK(i)'
            BY <1>1, <1>4, <1>5, <3>1, MemoryJobsAssumption DEF RowOK
        <3>3. MaxCrashes - crashesLeft \in Nat
            BY <1>1, MemoryJobsAssumption DEF TypeOK
        <3>4. /\ job[i].attempts \in Nat /\ job[i].deferrals \in Nat
              /\ job[i].starts \in Nat
            BY <3>1 DEF Rows
        <3>5. CountedOK(i)'
            BY <1>1, <1>4, <1>5, <3>1, <3>3, <3>4 DEF CountedOK, Allowed, Pending
        <3> QED
            BY <3>2, <3>5
    <2> QED
        BY <1>5, <2>1 DEF RowsOK
<1>9. Covered'
    <2>1. ASSUME NEW t \in asked' PROVE \E i \in DOMAIN job' : CoveredBy(t, i)'
        <3>1. t \in asked /\ t[2] # c
            BY <1>1, <2>1
        <3>2. PICK i \in DOMAIN job : CoveredBy(t, i)
            BY <1>1, <3>1 DEF Covered
        <3>3. job[i].conv # c
            BY <3>1, <3>2 DEF CoveredBy, Trigger
        <3>4. CoveredBy(t, i)'
            BY <1>1, <1>4, <1>5, <3>2, <3>3 DEF CoveredBy, Trigger, Pending
        <3> QED
            BY <1>5, <3>4
    <2> QED
        BY <2>1 DEF Covered
<1>10. Serial' /\ PruneApart'
    BY <1>1, <1>5, <1>6, SameKeys DEF Serial, Live
<1>11. HalfOpenHasProbe' /\ QueriesOK'
    BY <1>1 DEF HalfOpenHasProbe, QueriesOK
<1> QED
    BY <1>7, <1>8, <1>9, <1>10, <1>11 DEF IInv

LEMMA ElapseInv ==
    ASSUME IInv, NEW k \in Ids, Elapse(k)
    PROVE  IInv'
<1>1. /\ TypeOK /\ RowsOK /\ Covered /\ Serial /\ PruneApart /\ HalfOpenHasProbe
      /\ QueriesOK /\ k \in DOMAIN job
      /\ UNCHANGED <<stage, breaker, queries, up, queriesLeft, crashesLeft, asked>>
    BY DEF IInv, Elapse
<1>2. PICK f : f = [i \in DOMAIN job |->
               IF i = k THEN [job[i] EXCEPT !.time = IF Pending(k) THEN "ripe" ELSE "old"]
               ELSE job[i]]
    OBVIOUS
<1>3. /\ Len(job) \in Nat /\ DOMAIN job = 1..Len(job)
      /\ \A i \in DOMAIN job : job[i] \in Rows
    BY <1>1, Table
<1>4. job' = [i \in DOMAIN job |-> f[i]]
    <2>1. job = [i \in DOMAIN job |-> job[i]]
        BY <1>1 DEF TypeOK
    <2> QED
        BY <1>2, <2>1 DEF Elapse
<1>5. ASSUME NEW i \in DOMAIN job
      PROVE  /\ f[i] \in Rows /\ f[i].kind = job[i].kind /\ f[i].conv = job[i].conv
             /\ f[i].status = job[i].status /\ f[i].starts = job[i].starts
             /\ f[i].attempts = job[i].attempts /\ f[i].deferrals = job[i].deferrals
    BY <1>2, <1>3 DEF Rows, Times
<1>6. /\ job' \in Seq(Rows) /\ Len(job') = Len(job) /\ DOMAIN job' = DOMAIN job
      /\ \A i \in DOMAIN job : job'[i] = f[i]
    BY <1>1, <1>4, <1>5
<1>7. SameRows
    BY <1>5, <1>6 DEF SameRows, Active
<1>8. TypeOK'
    BY <1>1, <1>6 DEF TypeOK
<1>9. RowsOK'
    BY <1>1, <1>5, <1>6 DEF RowsOK, RowOK, CountedOK, Allowed, Pending
<1>10. Covered'
    BY <1>1, <1>5, <1>6 DEF Covered, CoveredBy, Trigger, Pending
<1>11. Serial' /\ PruneApart'
    BY <1>1, <1>6, <1>7, SameKeys DEF Serial, Live
<1>12. HalfOpenHasProbe' /\ QueriesOK'
    BY <1>1 DEF HalfOpenHasProbe, QueriesOK
<1> QED
    BY <1>8, <1>9, <1>10, <1>11, <1>12 DEF IInv

-----------------------------------------------------------------------------
(* The worker and its crashes.                                             *)

(* Every row and the worker's hold on it, for the steps that follow.       *)
LEMMA RowFacts ==
    ASSUME IInv, NEW i \in DOMAIN job
    PROVE  /\ job[i] \in Rows /\ RowOK(i) /\ CountedOK(i)
           /\ i \in Ids /\ stage[i] \in Stages
           /\ job[i].attempts \in Nat /\ job[i].deferrals \in Nat
           /\ job[i].starts \in Nat /\ MaxCrashes - crashesLeft \in Nat
           /\ stage[i] # "off" => up
<1>1. TypeOK /\ RowsOK
    BY DEF IInv
<1>2. job[i] \in Rows /\ i \in Ids
    BY <1>1, Table
<1>3. MaxCrashes - crashesLeft \in Nat
    BY <1>1, MemoryJobsAssumption DEF TypeOK
<1>4. job[i].attempts \in Nat /\ job[i].deferrals \in Nat /\ job[i].starts \in Nat
    BY <1>2 DEF Rows
<1> QED
    BY <1>1, <1>2, <1>3, <1>4 DEF RowsOK, TypeOK

LEMMA CrashInv ==
    ASSUME IInv, Crash
    PROVE  IInv'
<1>1. /\ TypeOK /\ RowsOK /\ Covered /\ Serial /\ PruneApart
      /\ up' = FALSE /\ crashesLeft > 0 /\ crashesLeft' = crashesLeft - 1
      /\ stage' = [i \in Ids |-> "off"] /\ breaker' = Closed
      /\ queries' = 0 /\ queriesLeft' = 0
      /\ UNCHANGED <<job, asked>>
    BY DEF IInv, Crash
<1>2. DOMAIN job \subseteq Ids
    BY <1>1, Table
<1>3. TypeOK'
    <2>1. Closed \in Breakers
        BY MemoryJobsAssumption DEF Closed, Breakers
    <2>2. crashesLeft' \in 0..MaxCrashes /\ queries' \in 0..MaxQueries
          /\ queriesLeft' \in 0..MaxQueries
        BY <1>1, MemoryJobsAssumption DEF TypeOK
    <2>3. stage' \in [Ids -> Stages] /\ \A i \in Ids : stage'[i] = "off"
        BY <1>1 DEF Stages
    <2> QED
        BY <1>1, <2>1, <2>2, <2>3 DEF TypeOK
<1>4. RowsOK'
    <2>1. ASSUME NEW i \in DOMAIN job PROVE RowOK(i)' /\ CountedOK(i)'
        <3>1. /\ RowOK(i) /\ CountedOK(i) /\ stage'[i] = "off"
              /\ job[i].attempts \in Nat /\ job[i].deferrals \in Nat
              /\ job[i].starts \in Nat /\ MaxCrashes - crashesLeft \in Nat
              /\ crashesLeft \in Nat
            BY <1>1, <1>2, RowFacts DEF TypeOK
        <3>2. RowOK(i)'
            BY <1>1, <3>1 DEF RowOK
        <3>3. Allowed(i)' = Allowed(i) + 1
            BY <1>1, <3>1, MemoryJobsAssumption DEF Allowed
        <3>4. job[i].starts <= Allowed(i) + 1 /\ Allowed(i) \in Nat
            BY <3>1 DEF CountedOK, Allowed
        <3>5. CountedOK(i)'
            BY <1>1, <3>1, <3>3, <3>4 DEF CountedOK
        <3> QED
            BY <3>2, <3>5
    <2> QED
        BY <1>1, <2>1 DEF RowsOK
<1>5. Covered'
    BY <1>1 DEF Covered, CoveredBy, Trigger, Pending
<1>6. Serial' /\ PruneApart'
    BY <1>1, <1>2 DEF Serial, Live, PruneApart, PruneActive, ActiveOf, Active
<1>7. HalfOpenHasProbe' /\ QueriesOK'
    BY <1>1, MemoryJobsAssumption DEF HalfOpenHasProbe, QueriesOK, Closed
<1> QED
    BY <1>3, <1>4, <1>5, <1>6, <1>7 DEF IInv

LEMMA RestartInv ==
    ASSUME IInv, Restart
    PROVE  IInv'
<1>1. /\ TypeOK /\ RowsOK /\ Covered /\ Serial /\ PruneApart /\ HalfOpenHasProbe
      /\ QueriesOK /\ ~up /\ up' = TRUE
      /\ UNCHANGED <<stage, breaker, queries, queriesLeft, crashesLeft, asked>>
    BY DEF IInv, Restart
<1>2. \A i \in Ids : stage[i] = "off"
    BY <1>1 DEF TypeOK
<1>3. PICK f : f = [i \in DOMAIN job |->
               IF job[i].status = "running"
               THEN [job[i] EXCEPT !.status = "pending", !.time = "ripe"]
               ELSE job[i]]
    OBVIOUS
<1>4. job' = [i \in DOMAIN job |-> f[i]]
    BY <1>3 DEF Restart
<1>5. ASSUME NEW i \in DOMAIN job
      PROVE  /\ f[i] \in Rows /\ f[i].kind = job[i].kind /\ f[i].conv = job[i].conv
             /\ f[i].starts = job[i].starts
             /\ f[i].attempts = job[i].attempts /\ f[i].deferrals = job[i].deferrals
             /\ f[i].status = IF job[i].status = "running" THEN "pending"
                              ELSE job[i].status
    <2>1. job[i] \in Rows
        BY RowFacts
    <2> QED
        BY <1>3, <2>1 DEF Rows, Times, Statuses
<1>6. /\ job' \in Seq(Rows) /\ Len(job') = Len(job) /\ DOMAIN job' = DOMAIN job
      /\ \A i \in DOMAIN job : job'[i] = f[i]
    BY <1>1, <1>4, <1>5
<1>7. SameRows
    BY <1>5, <1>6 DEF SameRows, Active
<1>8. TypeOK'
    BY <1>1, <1>2, <1>6 DEF TypeOK
<1>9. RowsOK'
    <2>1. ASSUME NEW i \in DOMAIN job PROVE RowOK(i)' /\ CountedOK(i)'
        <3>1. RowOK(i) /\ CountedOK(i) /\ stage[i] = "off"
            BY <1>2, RowFacts
        <3>2. RowOK(i)'
            BY <1>1, <1>5, <1>6, <3>1 DEF RowOK
        <3>3. CountedOK(i)'
            BY <1>1, <1>5, <1>6, <3>1 DEF CountedOK, Allowed, Pending
        <3> QED
            BY <3>2, <3>3
    <2> QED
        BY <1>6, <2>1 DEF RowsOK
<1>10. Covered'
    BY <1>1, <1>2, <1>5, <1>6 DEF Covered, CoveredBy, Trigger, Pending
<1>11. Serial' /\ PruneApart'
    BY <1>1, <1>6, <1>7, SameKeys DEF Serial, Live
<1>12. HalfOpenHasProbe' /\ QueriesOK'
    BY <1>1 DEF HalfOpenHasProbe, QueriesOK
<1> QED
    BY <1>8, <1>9, <1>10, <1>11, <1>12 DEF IInv

(* What a handler leaves of its row: a retry or a deferral counts its run. *)
LEMMA HandledRow ==
    ASSUME NEW r \in Rows, NEW outcome \in Outcomes
    PROVE  /\ Handled(r, outcome) \in Rows
           /\ Handled(r, outcome).kind = r.kind
           /\ Handled(r, outcome).conv = r.conv
           /\ \/ Handled(r, outcome) = r
              \/ /\ Handled(r, outcome).status \in {"completed", "failed"}
                 /\ Handled(r, outcome).starts = 0
              \/ /\ Handled(r, outcome).status = "pending"
                 /\ Handled(r, outcome).starts = r.starts
                 /\ Handled(r, outcome).attempts + Handled(r, outcome).deferrals
                      = r.attempts + r.deferrals + 1
<1>1. r.attempts \in Nat /\ r.deferrals \in Nat
    BY DEF Rows
<1>2. \A s \in {"completed", "failed"} :
        /\ Ended(r, s) \in Rows /\ Ended(r, s).kind = r.kind
        /\ Ended(r, s).conv = r.conv /\ Ended(r, s).status = s
        /\ Ended(r, s).starts = 0
    BY DEF Ended, Rows, Times, Statuses
<1>3. ASSUME NEW s \in Rows,
             \/ s = [r EXCEPT !.status = "pending", !.time = "later",
                              !.attempts = r.attempts + 1]
             \/ s = [r EXCEPT !.status = "pending", !.time = "later",
                              !.deferrals = r.deferrals + 1]
      PROVE  /\ s.kind = r.kind /\ s.conv = r.conv
             /\ s.status = "pending" /\ s.starts = r.starts
             /\ s.attempts + s.deferrals = r.attempts + r.deferrals + 1
    <2>1. CASE s = [r EXCEPT !.status = "pending", !.time = "later",
                             !.attempts = r.attempts + 1]
        <3>1. /\ s.kind = r.kind /\ s.conv = r.conv
              /\ s.status = "pending" /\ s.starts = r.starts
              /\ s.attempts = r.attempts + 1 /\ s.deferrals = r.deferrals
            BY <2>1 DEF Rows
        <3> QED
            BY <1>1, <3>1
    <2>2. CASE s = [r EXCEPT !.status = "pending", !.time = "later",
                             !.deferrals = r.deferrals + 1]
        <3>1. /\ s.kind = r.kind /\ s.conv = r.conv
              /\ s.status = "pending" /\ s.starts = r.starts
              /\ s.attempts = r.attempts /\ s.deferrals = r.deferrals + 1
            BY <2>2 DEF Rows
        <3> QED
            BY <1>1, <3>1
    <2> QED
        BY <1>3, <2>1, <2>2
<1>4. /\ [r EXCEPT !.status = "pending", !.time = "later",
                   !.attempts = r.attempts + 1] \in Rows
      /\ [r EXCEPT !.status = "pending", !.time = "later",
                   !.deferrals = r.deferrals + 1] \in Rows
    <2>1. r.attempts + 1 \in Nat /\ r.deferrals + 1 \in Nat
        BY <1>1
    <2> QED
        BY <2>1 DEF Rows, Times, Statuses
<1>5. CASE outcome = "retryable"
    BY <1>2, <1>3, <1>4, <1>5 DEF Handled, Retry
<1>6. CASE outcome = "unavailable"
    BY <1>2, <1>3, <1>4, <1>6 DEF Handled, Defer
<1>7. CASE outcome \in {"ok", "fatal"}
    BY <1>2, <1>7 DEF Handled
<1>8. CASE outcome = "lost"
    BY <1>8 DEF Handled
<1> QED
    BY <1>5, <1>6, <1>7, <1>8 DEF Outcomes

(* A handler ends, whatever it leaves of its row, and the next row of its  *)
(* group starts.                                                           *)
LEMMA HandlerEndsInv ==
    ASSUME IInv, NEW i \in Ids, Live(i), NEW outcome \in Outcomes,
           HandlerEnds(i, outcome), breaker' \in Breakers,
           UNCHANGED <<queries, up, queriesLeft, crashesLeft>>
    PROVE  /\ TypeOK' /\ RowsOK' /\ Covered' /\ Serial' /\ PruneApart' /\ QueriesOK'
           /\ \A j \in Ids : j # i /\ stage[j] = "op" => stage'[j] = "op"
<1>1. /\ TypeOK /\ RowsOK /\ Covered /\ Serial /\ PruneApart /\ QueriesOK
      /\ i \in DOMAIN job /\ up /\ stage[i] \in {"prep", "op"}
    BY DEF IInv, TypeOK, Live
<1>2. PICK N \in SUBSET {j \in DOMAIN job : stage[j] = "held" /\ Key(j) = Key(i)} :
        /\ \A j, k \in N : j = k
        /\ job' = [k \in DOMAIN job |->
                     IF k = i THEN Handled(job[i], outcome)
                     ELSE IF k \in N THEN [job[k] EXCEPT !.starts = @ + 1]
                     ELSE job[k]]
        /\ stage' = [k \in Ids |-> IF k = i THEN "off"
                                   ELSE IF k \in N THEN "prep" ELSE stage[k]]
        /\ asked' = asked \ {Trigger(j) : j \in N}
    <2>1. stage = [k \in Ids |-> stage[k]] /\ job = [k \in DOMAIN job |-> job[k]]
        BY <1>1 DEF TypeOK
    <2>2. PICK rows : rows = [job EXCEPT ![i] = Handled(@, outcome)]
        OBVIOUS
    <2>3. rows = [k \in DOMAIN job |-> IF k = i THEN Handled(job[i], outcome) ELSE job[k]]
        BY <1>1, <2>1, <2>2
    <2>4. PICK mates : mates = {j \in DOMAIN job : stage[j] = "held" /\ Key(j) = Key(i)}
        OBVIOUS
    <2>5. CASE mates = {}
        <3>1. job' = rows /\ stage' = [stage EXCEPT ![i] = "off"] /\ asked' = asked
            BY <2>2, <2>4, <2>5 DEF HandlerEnds
        <3>2. stage' = [k \in Ids |-> IF k = i THEN "off" ELSE stage[k]]
            BY <2>1, <3>1
        <3> WITNESS {} \in SUBSET {j \in DOMAIN job : stage[j] = "held" /\ Key(j) = Key(i)}
        <3> QED
            BY <2>3, <3>1, <3>2
    <2>6. CASE mates # {}
        <3>1. PICK j \in mates :
                /\ job' = Starting(rows, {j})
                /\ stage' = [stage EXCEPT ![i] = "off", ![j] = "prep"]
                /\ asked' = asked \ {Trigger(j)}
            BY <2>2, <2>4, <2>6 DEF HandlerEnds
        <3>2. j \in DOMAIN job /\ j \in Ids /\ j # i
            BY <1>1, <2>4, <3>1, Table
        <3>3. job' = [k \in DOMAIN job |->
                     IF k = i THEN Handled(job[i], outcome)
                     ELSE IF k \in {j} THEN [job[k] EXCEPT !.starts = @ + 1]
                     ELSE job[k]]
            BY <2>3, <3>1, <3>2 DEF Starting
        <3>4. stage' = [k \in Ids |-> IF k = i THEN "off"
                                   ELSE IF k \in {j} THEN "prep" ELSE stage[k]]
            BY <2>1, <3>1, <3>2
        <3>5. {j} \in SUBSET {k \in DOMAIN job : stage[k] = "held" /\ Key(k) = Key(i)}
            BY <2>4, <3>1
        <3>6. {Trigger(k) : k \in {j}} = {Trigger(j)}
            OBVIOUS
        <3> QED
            BY <3>1, <3>3, <3>4, <3>5, <3>6
    <2> QED
        BY <2>5, <2>6
<1>3. PICK f : f = [k \in DOMAIN job |->
                     IF k = i THEN Handled(job[i], outcome)
                     ELSE IF k \in N THEN [job[k] EXCEPT !.starts = @ + 1]
                     ELSE job[k]]
    OBVIOUS
<1>4. \A k \in DOMAIN job : k \in Ids /\ job[k] \in Rows
    BY RowFacts
<1>5. f[i] = Handled(job[i], outcome) /\ f[i] \in Rows
      /\ f[i].kind = job[i].kind /\ f[i].conv = job[i].conv
    BY <1>1, <1>3, <1>4, HandledRow
<1>6. ASSUME NEW k \in N
      PROVE  /\ k # i /\ k \in DOMAIN job /\ stage[k] = "held" /\ Key(k) = Key(i)
             /\ f[k] \in Rows /\ f[k].kind = job[k].kind /\ f[k].conv = job[k].conv
             /\ f[k].status = job[k].status /\ f[k].starts = job[k].starts + 1
             /\ f[k].attempts = job[k].attempts /\ f[k].deferrals = job[k].deferrals
    <2>1. k # i /\ k \in DOMAIN job /\ stage[k] = "held" /\ Key(k) = Key(i)
        BY <1>1, <1>6
    <2>2. job[k].starts + 1 \in Nat /\ job[k] \in Rows
        BY <2>1, RowFacts
    <2>3. f[k] = [job[k] EXCEPT !.starts = job[k].starts + 1]
        BY <1>3, <2>1, <2>2
    <2> QED
        BY <2>1, <2>2, <2>3 DEF Rows
<1>7. \A k \in DOMAIN job : k # i /\ k \notin N => f[k] = job[k]
    BY <1>3
<1>8. /\ job' \in Seq(Rows) /\ Len(job') = Len(job) /\ DOMAIN job' = DOMAIN job
      /\ \A k \in DOMAIN job : job'[k] = f[k]
    <2>1. job' = [k \in DOMAIN job |-> f[k]]
        BY <1>2, <1>3
    <2>2. \A k \in DOMAIN job : f[k] \in Rows
        BY <1>4, <1>5, <1>6, <1>7
    <2> QED
        BY <1>1, <2>1, <2>2
<1>9. SameRows
    <2>1. ASSUME NEW k \in DOMAIN job
          PROVE  /\ job'[k].kind = job[k].kind /\ job'[k].conv = job[k].conv
                 /\ Active(k)' /\ job[k].kind = "prune" => Active(k)
        <3>1. CASE k = i
            <4>1. job[i].kind = "prune" => job[i].status = "running"
                BY <1>1, RowFacts DEF RowOK
            <4> QED
                BY <1>5, <1>8, <3>1, <4>1 DEF Active
        <3>2. CASE k \in N
            BY <1>6, <1>8, <3>2 DEF Active
        <3>3. CASE k # i /\ k \notin N
            BY <1>7, <1>8, <3>3 DEF Active
        <3> QED
            BY <3>1, <3>2, <3>3
    <2> QED
        BY <1>8, <2>1 DEF SameRows
<1>10. /\ stage'[i] = "off"
       /\ \A k \in N : stage'[k] = "prep"
       /\ \A k \in Ids : k # i /\ k \notin N => stage'[k] = stage[k]
    BY <1>2, <1>4, <1>6
<1>11. TypeOK'
    <2>1. stage' \in [Ids -> Stages]
        BY <1>1, <1>2 DEF TypeOK, Stages
    <2>2. \A k \in Ids : stage'[k] # "off" => k \in DOMAIN job' /\ up'
        BY <1>1, <1>6, <1>8, <1>10 DEF TypeOK
    <2>3. asked' \subseteq asked
        BY <1>2
    <2> QED
        BY <1>1, <1>8, <2>1, <2>2, <2>3 DEF TypeOK
<1>12. RowsOK'
    <2>1. ASSUME NEW k \in DOMAIN job PROVE RowOK(k)' /\ CountedOK(k)'
        <3>1. /\ RowOK(k) /\ CountedOK(k) /\ stage[k] \in Stages
              /\ job[k].attempts \in Nat /\ job[k].deferrals \in Nat
              /\ job[k].starts \in Nat /\ MaxCrashes - crashesLeft \in Nat
            BY RowFacts
        <3>2. CASE k = i
            <4>1. stage'[i] = "off" /\ job'[i] = Handled(job[i], outcome)
                  /\ job[i].status \in {"running", "failed"} /\ job[i] \in Rows
                BY <1>1, <1>4, <1>5, <1>8, <1>10, <3>1, <3>2 DEF RowOK
            <4>2. RowOK(i)'
                BY <1>1, <1>5, <1>8, <3>1, <3>2, <4>1 DEF RowOK
            <4>3. CASE job'[i] = job[i]
                <5>1. Allowed(i)' = Allowed(i) /\ ~Pending(i)'
                    BY <3>1, <3>2, <4>1, <4>3 DEF Allowed, Pending
                <5>2. job[i].starts <= Allowed(i) + 1
                    BY <3>1, <3>2 DEF CountedOK
                <5> QED
                    BY <1>1, <3>2, <4>1, <4>2, <4>3, <5>1, <5>2 DEF CountedOK
            <4>4. CASE job'[i].status \in {"completed", "failed"} /\ job'[i].starts = 0
                <5>1. job'[i].attempts \in Nat /\ job'[i].deferrals \in Nat
                    BY <1>1, <1>5, <4>1 DEF Rows
                <5>2. Allowed(i)' \in Nat
                    BY <3>1, <5>1 DEF Allowed
                <5>3. ~Pending(i)'
                    BY <4>4 DEF Pending
                <5> QED
                    BY <1>1, <3>2, <4>1, <4>2, <4>4, <5>2, <5>3 DEF CountedOK
            <4>5. CASE /\ job'[i].status = "pending" /\ job'[i].starts = job[i].starts
                       /\ job'[i].attempts + job'[i].deferrals
                            = job[i].attempts + job[i].deferrals + 1
                <5>1. Allowed(i)' = Allowed(i) + 1
                    BY <3>1, <3>2, <4>5 DEF Allowed
                <5>2. Allowed(i) \in Nat /\ job[i].starts <= Allowed(i) + 1
                    BY <3>1, <3>2 DEF CountedOK, Allowed
                <5>3. job'[i].starts <= Allowed(i)' /\ job'[i].starts <= Allowed(i)' + 1
                    BY <3>1, <3>2, <4>5, <5>1, <5>2
                <5> QED
                    BY <3>2, <4>2, <5>3 DEF CountedOK
            <4> QED
                BY <3>2, <4>1, <4>2, <4>3, <4>4, <4>5, HandledRow
        <3>3. CASE k \in N
            <4>1. stage[k] = "held" /\ stage'[k] = "prep"
                BY <1>6, <1>10, <3>3
            <4>2. RowOK(k)'
                BY <1>6, <1>8, <3>1, <3>3, <4>1 DEF RowOK
            <4>3. job[k].starts <= Allowed(k) /\ Allowed(k)' = Allowed(k)
                  /\ job'[k].starts = job[k].starts + 1
                BY <1>6, <1>8, <3>1, <3>3, <4>1 DEF CountedOK, Allowed
            <4>4. ~Pending(k)'
                BY <1>6, <1>8, <3>1, <3>3, <4>1 DEF RowOK, Pending
            <4>5. Allowed(k) \in Nat
                BY <3>1 DEF Allowed
            <4> QED
                BY <1>1, <3>1, <4>1, <4>2, <4>3, <4>4, <4>5 DEF CountedOK
        <3>4. CASE k # i /\ k \notin N
            BY <1>1, <1>4, <1>7, <1>8, <1>10, <3>1, <3>4
            DEF RowOK, CountedOK, Allowed, Pending
        <3> QED
            BY <3>2, <3>3, <3>4
    <2> QED
        BY <1>8, <2>1 DEF RowsOK
<1>13. \A k \in DOMAIN job : Key(k)' = Key(k) /\ Trigger(k)' = Trigger(k)
    BY <1>9, SameKeys
<1>14. Covered'
    <2>1. ASSUME NEW t \in asked' PROVE \E k \in DOMAIN job' : CoveredBy(t, k)'
        <3>1. t \in asked /\ \A j \in N : t # Trigger(j)
            BY <1>2, <2>1
        <3>2. PICK k \in DOMAIN job : CoveredBy(t, k)
            BY <1>1, <3>1 DEF Covered
        <3>3. k # i
            BY <1>1, <3>2, RowFacts DEF CoveredBy, Pending, RowOK
        <3>4. k \notin N
            BY <3>1, <3>2 DEF CoveredBy
        <3>5. job'[k] = job[k] /\ stage'[k] = stage[k]
            BY <1>4, <1>7, <1>8, <1>10, <3>3, <3>4
        <3>6. CoveredBy(t, k)'
            BY <1>13, <3>2, <3>5 DEF CoveredBy, Pending
        <3> QED
            BY <1>8, <3>6
    <2> QED
        BY <2>1 DEF Covered
<1>15. Serial'
    <2>1. ASSUME NEW j \in DOMAIN job, NEW k \in DOMAIN job,
                 Live(j)', Live(k)', Key(j) = Key(k)
          PROVE  j = k
        <3>1. j # i /\ k # i
            BY <1>10, <2>1 DEF Live
        <3>2. \A m \in DOMAIN job : Live(m) /\ Key(m) = Key(i) => m = i
            BY <1>1 DEF Serial, Live
        <3>3. CASE j \in N \/ k \in N
            <4>1. Key(j) = Key(i) /\ Key(k) = Key(i)
                BY <1>6, <2>1, <3>3
            <4>2. j \in N /\ k \in N
                BY <1>4, <1>10, <2>1, <3>1, <3>2, <4>1 DEF Live
            <4> QED
                BY <1>2, <4>2
        <3>4. CASE j \notin N /\ k \notin N
            BY <1>1, <1>4, <1>10, <2>1, <3>1, <3>4 DEF Serial, Live
        <3> QED
            BY <3>3, <3>4
    <2> QED
        BY <1>8, <1>13, <2>1 DEF Serial
<1>16. PruneApart' /\ QueriesOK'
    BY <1>1, <1>9, SameKeys DEF QueriesOK
<1>17. \A j \in Ids : j # i /\ stage[j] = "op" => stage'[j] = "op"
    BY <1>6, <1>10
<1> QED
    BY <1>11, <1>12, <1>14, <1>15, <1>16, <1>17

(* What the breaker becomes; a result takes it out of half-open.           *)
LEMMA BreakerSteps ==
    ASSUME breaker \in Breakers
    PROVE  /\ LetThrough \in Breakers
           /\ \A ok \in BOOLEAN : /\ Recorded(ok) \in Breakers
                                  /\ Recorded(ok).state # "half-open"
<1>1. PICK n \in 0..Threshold :
        n = IF breaker.failures < Threshold THEN breaker.failures + 1 ELSE Threshold
    BY MemoryJobsAssumption DEF Breakers
<1>2. Closed \in Breakers /\ Closed.state # "half-open"
    BY MemoryJobsAssumption DEF Closed, Breakers
<1>3. AfterFailure \in Breakers /\ AfterFailure.state # "half-open"
    <2>1. CASE n = Threshold \/ breaker.state = "half-open"
        <3>1. AfterFailure = [state |-> "open", failures |-> n,
                              cooled |-> FALSE, probe |-> FALSE]
            BY <1>1, <2>1 DEF AfterFailure
        <3> QED
            BY <3>1 DEF Breakers
    <2>2. CASE ~(n = Threshold \/ breaker.state = "half-open")
        <3>1. AfterFailure = [breaker EXCEPT !.failures = n, !.probe = FALSE]
            BY <1>1, <2>2 DEF AfterFailure
        <3> QED
            BY <2>2, <3>1 DEF Breakers
    <2> QED
        BY <2>1, <2>2
<1>4. LetThrough \in Breakers
    BY DEF LetThrough, Breakers
<1> QED
    BY <1>2, <1>3, <1>4 DEF Recorded

LEMMA WorkInv ==
    ASSUME IInv, NEW i \in Ids, NEW outcome \in Outcomes, Work(i, outcome)
    PROVE  IInv'
<1>1. /\ stage[i] = "prep" /\ Live(i) /\ HandlerEnds(i, outcome)
      /\ breaker \in Breakers /\ HalfOpenHasProbe
      /\ UNCHANGED <<breaker, queries, up, queriesLeft, crashesLeft>>
    BY DEF IInv, TypeOK, Work, Live
<1>2. /\ TypeOK' /\ RowsOK' /\ Covered' /\ Serial' /\ PruneApart' /\ QueriesOK'
      /\ \A j \in Ids : j # i /\ stage[j] = "op" => stage'[j] = "op"
    BY <1>1, HandlerEndsInv
<1>3. HalfOpenHasProbe'
    BY <1>1, <1>2 DEF HalfOpenHasProbe
<1> QED
    BY <1>2, <1>3 DEF IInv

LEMMA CallQdrantInv ==
    ASSUME IInv, NEW i \in Ids, CallQdrant(i)
    PROVE  IInv'
<1>1. /\ TypeOK /\ RowsOK /\ Covered /\ Serial /\ PruneApart /\ HalfOpenHasProbe
      /\ QueriesOK /\ stage[i] = "prep" /\ Live(i) /\ breaker \in Breakers
      /\ UNCHANGED <<queries, up, queriesLeft, crashesLeft>>
    BY DEF IInv, TypeOK, CallQdrant, Live
<1>2. CASE Allows
    <2>1. /\ breaker' = LetThrough /\ stage' = [stage EXCEPT ![i] = "op"]
          /\ UNCHANGED <<job, asked>>
        BY <1>2 DEF CallQdrant
    <2>2. /\ stage \in [Ids -> Stages] /\ stage'[i] = "op"
          /\ \A j \in Ids : j # i => stage'[j] = stage[j]
        BY <1>1, <2>1 DEF TypeOK
    <2>3. TypeOK'
        <3>1. breaker' \in Breakers
            BY <1>1, <2>1, BreakerSteps
        <3>2. stage' \in [Ids -> Stages]
            BY <2>1, <2>2 DEF Stages
        <3>3. \A j \in Ids : stage'[j] # "off" => j \in DOMAIN job' /\ up'
            BY <1>1, <2>1, <2>2 DEF TypeOK
        <3> QED
            BY <1>1, <2>1, <3>1, <3>2, <3>3 DEF TypeOK
    <2>4. DOMAIN job \subseteq Ids
        BY <1>1, Table
    <2>5. RowsOK'
        BY <1>1, <2>1, <2>2, <2>4 DEF RowsOK, RowOK, CountedOK, Allowed, Pending
    <2>6. Covered'
        BY <1>1, <2>1, <2>2, <2>4 DEF Covered, CoveredBy, Trigger, Pending
    <2>7. Serial' /\ PruneApart'
        BY <1>1, <2>1, <2>2, <2>4
        DEF Serial, Live, Key, PruneApart, PruneActive, ActiveOf, Active
    <2>8. HalfOpenHasProbe' /\ QueriesOK'
        BY <1>1, <2>2 DEF HalfOpenHasProbe, QueriesOK
    <2> QED
        BY <2>3, <2>5, <2>6, <2>7, <2>8 DEF IInv
<1>3. CASE ~Allows
    <2>1. HandlerEnds(i, "unavailable") /\ UNCHANGED breaker
        BY <1>3 DEF CallQdrant
    <2>2. "unavailable" \in Outcomes
        BY DEF Outcomes
    <2>3. /\ TypeOK' /\ RowsOK' /\ Covered' /\ Serial' /\ PruneApart' /\ QueriesOK'
          /\ \A j \in Ids : j # i /\ stage[j] = "op" => stage'[j] = "op"
        BY <1>1, <2>1, <2>2, HandlerEndsInv
    <2>4. HalfOpenHasProbe'
        BY <1>1, <2>1, <2>3 DEF HalfOpenHasProbe
    <2> QED
        BY <2>3, <2>4 DEF IInv
<1> QED
    BY <1>2, <1>3

LEMMA QdrantAnswersInv ==
    ASSUME IInv, NEW i \in Ids, NEW outcome \in Outcomes, QdrantAnswers(i, outcome)
    PROVE  IInv'
<1>1. /\ Live(i) /\ HandlerEnds(i, outcome) /\ breaker' = Recorded(outcome = "ok")
      /\ breaker \in Breakers
      /\ UNCHANGED <<queries, up, queriesLeft, crashesLeft>>
    BY DEF IInv, TypeOK, QdrantAnswers, Live
<1>2. breaker' \in Breakers /\ breaker'.state # "half-open"
    <2>1. (outcome = "ok") \in BOOLEAN
        OBVIOUS
    <2> QED
        BY <1>1, <2>1, BreakerSteps
<1>3. /\ TypeOK' /\ RowsOK' /\ Covered' /\ Serial' /\ PruneApart' /\ QueriesOK'
    BY <1>1, <1>2, HandlerEndsInv
<1>4. HalfOpenHasProbe'
    BY <1>2 DEF HalfOpenHasProbe
<1> QED
    BY <1>3, <1>4 DEF IInv

(* Steps of the breaker that leave the worker and the table alone.         *)
LEMMA BreakerInv ==
    ASSUME IInv, Cool \/ QueryStarts \/ QueryDone
    PROVE  IInv'
<1>1. /\ TypeOK /\ RowsOK /\ Covered /\ Serial /\ PruneApart /\ HalfOpenHasProbe
      /\ QueriesOK
      /\ UNCHANGED <<job, stage, up, crashesLeft, asked>>
    BY DEF IInv, Cool, QueryStarts, QueryDone, QueryEnds
<1>2. /\ RowsOK' /\ Covered' /\ Serial' /\ PruneApart'
    <2>1. RowsOK' /\ Covered'
        BY <1>1
        DEF RowsOK, RowOK, CountedOK, Allowed, Pending, Covered, CoveredBy,
            Trigger
    <2>2. Serial' /\ PruneApart'
        BY <1>1 DEF Serial, Live, Key, PruneApart, PruneActive, ActiveOf, Active
    <2> QED
        BY <2>1, <2>2
<1>3. /\ queries \in Nat /\ queriesLeft \in Nat /\ breaker \in Breakers
      /\ queries + queriesLeft <= MaxQueries
    BY <1>1 DEF TypeOK, QueriesOK
<1>4. CASE Cool
    <2>1. breaker' = [breaker EXCEPT !.cooled = TRUE] /\ breaker.state = "open"
          /\ UNCHANGED <<queries, queriesLeft>>
        BY <1>4 DEF Cool
    <2>2. breaker' \in Breakers /\ breaker'.state = "open"
        BY <1>3, <2>1 DEF Breakers
    <2>3. TypeOK' /\ HalfOpenHasProbe' /\ QueriesOK'
        BY <1>1, <2>1, <2>2 DEF TypeOK, HalfOpenHasProbe, QueriesOK
    <2> QED
        BY <1>2, <2>3 DEF IInv
<1>5. CASE QueryStarts
    <2>1. /\ queriesLeft > 0 /\ breaker' = LetThrough /\ queries' = queries + 1
          /\ queriesLeft' = queriesLeft - 1
        BY <1>5 DEF QueryStarts
    <2>2. breaker' \in Breakers
        BY <1>3, <2>1, BreakerSteps
    <2>3. /\ queries' \in 0..MaxQueries /\ queriesLeft' \in 0..MaxQueries
          /\ queries' > 0 /\ queries' + queriesLeft' <= MaxQueries
        BY <1>3, <2>1, MemoryJobsAssumption
    <2>4. TypeOK' /\ HalfOpenHasProbe' /\ QueriesOK'
        BY <1>1, <2>2, <2>3 DEF TypeOK, HalfOpenHasProbe, QueriesOK
    <2> QED
        BY <1>2, <2>4 DEF IInv
<1>6. CASE QueryDone
    <2>1. PICK ok \in BOOLEAN : /\ queries > 0 /\ breaker' = Recorded(ok)
                                /\ queries' = queries - 1
                                /\ UNCHANGED queriesLeft
        BY <1>6 DEF QueryDone, QueryEnds
    <2>2. breaker' \in Breakers /\ breaker'.state # "half-open"
        BY <1>3, <2>1, BreakerSteps
    <2>3. /\ queries' \in 0..MaxQueries /\ queries' + queriesLeft' <= MaxQueries
        BY <1>3, <2>1, MemoryJobsAssumption
    <2>4. TypeOK' /\ HalfOpenHasProbe' /\ QueriesOK'
        BY <1>1, <2>1, <2>2, <2>3 DEF TypeOK, HalfOpenHasProbe, QueriesOK
    <2> QED
        BY <1>2, <2>4 DEF IInv
<1> QED
    BY <1>4, <1>5, <1>6

(* A tick claims pending rows and starts one of each group.                *)
LEMMA TickInv ==
    ASSUME IInv, Tick
    PROVE  IInv'
<1>1. /\ TypeOK /\ RowsOK /\ Covered /\ PruneApart /\ HalfOpenHasProbe /\ QueriesOK
      /\ up /\ \A i \in Ids : stage[i] = "off"
      /\ UNCHANGED <<breaker, queries, up, queriesLeft, crashesLeft>>
    BY DEF IInv, Tick, BetweenTicks
<1>2. PICK S \in Claims : \E F \in Firsts(S) :
        /\ job' = Starting(Claimed(S), F)
        /\ stage' = [i \in Ids |-> IF i \in F THEN "prep"
                                   ELSE IF i \in S THEN "held" ELSE stage[i]]
        /\ asked' = asked \ {Trigger(i) : i \in F}
    BY DEF Tick
<1>3. PICK F \in Firsts(S) :
        /\ job' = Starting(Claimed(S), F)
        /\ stage' = [i \in Ids |-> IF i \in F THEN "prep"
                                   ELSE IF i \in S THEN "held" ELSE stage[i]]
        /\ asked' = asked \ {Trigger(i) : i \in F}
    BY <1>2
<1>4. \A i \in DOMAIN job : i \in Ids /\ job[i] \in Rows /\ stage[i] = "off"
    BY <1>1, RowFacts
<1>5. S \subseteq DOMAIN job /\ \A i \in S : Pending(i)
    BY <1>2 DEF Claims, Ripe, Lanes, Lane
<1>6. F \subseteq S
      /\ \A i \in S : Cardinality({j \in F : Key(j) = Key(i)}) = 1
    BY <1>3 DEF Firsts
<1>7. PICK f : f = [i \in DOMAIN job |->
        IF i \in F THEN [job[i] EXCEPT !.status = "running", !.time = "fresh",
                                       !.starts = @ + 1]
        ELSE IF i \in S THEN [job[i] EXCEPT !.status = "running", !.time = "fresh"]
        ELSE Unstalled[i]]
    OBVIOUS
<1>8. ASSUME NEW i \in S
      PROVE  /\ f[i] \in Rows /\ f[i].kind = job[i].kind /\ f[i].conv = job[i].conv
             /\ f[i].status = "running"
             /\ f[i].starts = job[i].starts + (IF i \in F THEN 1 ELSE 0)
             /\ f[i].attempts = job[i].attempts /\ f[i].deferrals = job[i].deferrals
    <2>1. /\ i \in DOMAIN job /\ job[i] \in Rows
          /\ job[i].starts \in Nat /\ job[i].starts + 1 \in Nat
        BY <1>4, <1>5 DEF Rows
    <2>2. CASE i \in F
        <3>1. f[i] = [job[i] EXCEPT !.status = "running", !.time = "fresh",
                                    !.starts = job[i].starts + 1]
            BY <1>7, <2>1, <2>2
        <3> QED
            BY <2>1, <2>2, <3>1 DEF Rows, Times, Statuses
    <2>3. CASE i \notin F
        <3>1. f[i] = [job[i] EXCEPT !.status = "running", !.time = "fresh"]
            BY <1>7, <2>1, <2>3
        <3>2. /\ f[i] \in Rows /\ f[i].kind = job[i].kind /\ f[i].conv = job[i].conv
              /\ f[i].status = "running" /\ f[i].starts = job[i].starts
              /\ f[i].attempts = job[i].attempts /\ f[i].deferrals = job[i].deferrals
            BY <2>1, <3>1 DEF Rows, Times, Statuses
        <3> QED
            BY <2>1, <2>3, <3>2
    <2> QED
        BY <2>2, <2>3
<1>9. ASSUME NEW i \in DOMAIN job, i \notin S
      PROVE  /\ f[i] \in Rows /\ f[i].kind = job[i].kind /\ f[i].conv = job[i].conv
             /\ \/ f[i] = job[i]
                \/ /\ job[i].status = "running" /\ f[i].status = "failed"
                   /\ f[i].starts = 0 /\ f[i].attempts = 0 /\ f[i].deferrals = 0
    BY <1>4, <1>6, <1>7, <1>9 DEF Unstalled, Ended, Rows, Times, Statuses
<1>10. /\ job' \in Seq(Rows) /\ Len(job') = Len(job) /\ DOMAIN job' = DOMAIN job
      /\ \A i \in DOMAIN job : job'[i] = f[i]
    <2>1. job' = [i \in DOMAIN job |-> f[i]]
        <3>1. PICK rows : rows = Claimed(S)
            OBVIOUS
        <3>2. /\ DOMAIN rows = DOMAIN job
              /\ \A i \in DOMAIN job : rows[i] =
                   IF i \in S THEN [job[i] EXCEPT !.status = "running", !.time = "fresh"]
                   ELSE Unstalled[i]
            BY <3>1 DEF Claimed
        <3>3. job' = [i \in DOMAIN rows |->
                        IF i \in F THEN [rows[i] EXCEPT !.starts = @ + 1] ELSE rows[i]]
            BY <1>3, <3>1 DEF Starting
        <3>4. ASSUME NEW i \in DOMAIN job
              PROVE  f[i] = IF i \in F THEN [rows[i] EXCEPT !.starts = @ + 1] ELSE rows[i]
            <4>1. CASE i \in F
                <5>1. job[i] \in Rows /\ i \in S
                    BY <1>4, <1>6, <4>1
                <5>2. rows[i] = [job[i] EXCEPT !.status = "running", !.time = "fresh"]
                    BY <3>2, <5>1
                <5> QED
                    BY <1>7, <4>1, <5>1, <5>2 DEF Rows
            <4>2. CASE i \notin F
                BY <1>7, <3>2, <4>2
            <4> QED
                BY <4>1, <4>2
        <3> QED
            BY <1>7, <3>2, <3>3, <3>4
    <2>2. \A i \in DOMAIN job : f[i] \in Rows
        BY <1>8, <1>9
    <2> QED
        BY <1>1, <2>1, <2>2
<1>11. SameRows
    BY <1>5, <1>8, <1>9, <1>10 DEF SameRows, Active, Pending
<1>12. \A i \in DOMAIN job : Key(i)' = Key(i) /\ Trigger(i)' = Trigger(i)
    BY <1>11, SameKeys
<1>13. /\ \A i \in F : stage'[i] = "prep"
       /\ \A i \in S : i \notin F => stage'[i] = "held"
       /\ \A i \in Ids : i \notin S => stage'[i] = "off"
    BY <1>1, <1>3, <1>4, <1>5, <1>6
<1>14. TypeOK'
    <2>1. stage' \in [Ids -> Stages]
        BY <1>1, <1>3 DEF TypeOK, Stages
    <2>2. \A i \in Ids : stage'[i] # "off" => i \in DOMAIN job' /\ up'
        BY <1>1, <1>5, <1>10, <1>13
    <2>3. asked' \subseteq asked
        BY <1>3
    <2> QED
        BY <1>1, <1>10, <2>1, <2>2, <2>3 DEF TypeOK
<1>15. RowsOK'
    <2>1. ASSUME NEW i \in DOMAIN job PROVE RowOK(i)' /\ CountedOK(i)'
        <3>1. /\ RowOK(i) /\ CountedOK(i)
              /\ job[i].attempts \in Nat /\ job[i].deferrals \in Nat
              /\ job[i].starts \in Nat /\ MaxCrashes - crashesLeft \in Nat
            BY RowFacts
        <3>2. CASE i \in S
            <4>1. RowOK(i)'
                BY <1>8, <1>10, <3>1, <3>2 DEF RowOK
            <4>2. job[i].starts <= Allowed(i) /\ Allowed(i)' = Allowed(i)
                  /\ Allowed(i) \in Nat
                BY <1>1, <1>5, <1>8, <1>10, <3>1, <3>2 DEF CountedOK, Allowed
            <4>3. ~Pending(i)'
                BY <1>8, <1>10, <3>2 DEF Pending
            <4>4. job'[i].starts = job[i].starts + (IF i \in F THEN 1 ELSE 0)
                BY <1>8, <1>10, <3>2
            <4>5. CASE i \in F
                BY <1>1, <1>13, <3>1, <4>1, <4>2, <4>3, <4>4, <4>5 DEF CountedOK
            <4>6. CASE i \notin F
                BY <1>1, <3>1, <4>1, <4>2, <4>3, <4>4, <4>6 DEF CountedOK
            <4> QED
                BY <4>5, <4>6
        <3>3. CASE i \notin S
            <4>1. stage'[i] = "off" /\ stage[i] = "off"
                BY <1>4, <1>13, <3>3
            <4>2. CASE job'[i] = job[i]
                BY <1>1, <3>1, <4>1, <4>2 DEF RowOK, CountedOK, Allowed, Pending
            <4>3. CASE /\ job'[i].status = "failed" /\ job'[i].starts = 0
                       /\ job'[i].attempts = 0 /\ job'[i].deferrals = 0
                BY <1>1, <1>9, <1>10, <3>1, <3>3, <4>1, <4>3
                DEF RowOK, CountedOK, Allowed, Pending
            <4> QED
                BY <1>9, <1>10, <3>3, <4>2, <4>3
        <3> QED
            BY <3>2, <3>3
    <2> QED
        BY <1>10, <2>1 DEF RowsOK
<1>16. Covered'
    <2>1. ASSUME NEW t \in asked' PROVE \E i \in DOMAIN job' : CoveredBy(t, i)'
        <3>1. t \in asked /\ \A i \in F : t # Trigger(i)
            BY <1>3, <2>1
        <3>2. PICK i \in DOMAIN job : CoveredBy(t, i)
            BY <1>1, <3>1 DEF Covered
        <3>3. Pending(i) /\ i \notin F /\ Trigger(i)' = t
            BY <1>1, <1>4, <1>12, <3>1, <3>2 DEF CoveredBy
        <3>4. CASE i \in S
            BY <1>8, <1>10, <1>13, <3>3, <3>4 DEF CoveredBy
        <3>5. CASE i \notin S
            BY <1>9, <1>10, <3>3, <3>5 DEF CoveredBy, Pending
        <3> QED
            BY <3>4, <3>5
    <2> QED
        BY <2>1 DEF Covered
<1>17. Serial'
    <2>1. ASSUME NEW i \in DOMAIN job, NEW j \in DOMAIN job,
                 Live(i)', Live(j)', Key(i) = Key(j)
          PROVE  i = j
        <3>1. i \in F /\ j \in F
            BY <1>4, <1>13, <2>1 DEF Live
        <3>2. PICK T : T = {k \in F : Key(k) = Key(i)}
            OBVIOUS
        <3>3. Cardinality(T) = 1 /\ i \in T /\ j \in T
            BY <1>6, <2>1, <3>1, <3>2
        <3>4. IsFiniteSet(T)
            <4>1. Len(job) \in Nat /\ DOMAIN job = 1..Len(job)
                BY <1>1
            <4>2. IsFiniteSet(1..Len(job))
                BY <4>1, FS_Interval
            <4> QED
                BY <1>5, <1>6, <3>2, <4>1, <4>2, FS_Subset
        <3>5. \E k : T = {k}
            BY <3>3, <3>4, FS_Singleton
        <3> QED
            BY <3>3, <3>5
    <2> QED
        BY <1>10, <1>12, <2>1 DEF Serial
<1>18. PruneApart'
    BY <1>1, <1>11, SameKeys
<1>19. HalfOpenHasProbe' /\ QueriesOK'
    BY <1>1 DEF HalfOpenHasProbe, QueriesOK
<1> QED
    BY <1>14, <1>15, <1>16, <1>17, <1>18, <1>19 DEF IInv

-----------------------------------------------------------------------------
(* The theorems.                                                           *)

LEMMA InitInv ==
    ASSUME Init
    PROVE  IInv
<1>1. /\ job = <<>> /\ Len(job) = 0 /\ DOMAIN job = {} /\ job \in Seq(Rows)
    BY DEF Init
<1>2. TypeOK
    BY <1>1, MemoryJobsAssumption DEF Init, TypeOK, Stages, Closed, Breakers
<1>3. RowsOK /\ Covered /\ Serial /\ PruneApart
    BY <1>1 DEF Init, RowsOK, Covered, Serial, PruneApart, PruneActive, ActiveOf
<1>4. HalfOpenHasProbe /\ QueriesOK
    BY MemoryJobsAssumption DEF Init, HalfOpenHasProbe, QueriesOK, Closed
<1> QED
    BY <1>2, <1>3, <1>4 DEF IInv

LEMMA StutterInv ==
    ASSUME IInv, UNCHANGED vars
    PROVE  IInv'
<1>1. UNCHANGED <<job, stage, breaker, queries, up, queriesLeft, crashesLeft, asked>>
    BY DEF vars
<1>2. TypeOK' /\ RowsOK' /\ Covered'
    BY <1>1
    DEF IInv, TypeOK, RowsOK, RowOK, CountedOK, Allowed, Pending, Covered,
        CoveredBy, Trigger
<1>3. Serial' /\ PruneApart' /\ HalfOpenHasProbe' /\ QueriesOK'
    BY <1>1
    DEF IInv, Serial, Live, Key, PruneApart, PruneActive, ActiveOf, Active,
        HalfOpenHasProbe, QueriesOK
<1> QED
    BY <1>2, <1>3 DEF IInv

LEMMA NextInv ==
    ASSUME IInv, [Next]_vars
    PROVE  IInv'
<1>1. CASE Enqueue
    BY <1>1, EnqueueInv
<1>2. ASSUME NEW c \in Convs, Wipe(c) PROVE IInv'
    BY <1>2, WipeInv
<1>3. CASE Tick
    BY <1>3, TickInv
<1>4. ASSUME NEW i \in Ids, Handler(i) PROVE IInv'
    BY <1>4, WorkInv, CallQdrantInv, QdrantAnswersInv
    DEF Handler, WorkOf, AnswerTo
<1>5. ASSUME NEW i \in Ids, Elapse(i) PROVE IInv'
    BY <1>5, ElapseInv
<1>6. CASE Cool \/ QueryStarts \/ QueryDone
    BY <1>6, BreakerInv
<1>7. CASE Crash
    BY <1>7, CrashInv
<1>8. CASE Restart
    BY <1>8, RestartInv
<1>9. CASE UNCHANGED vars
    BY <1>9, StutterInv
<1> QED
    BY <1>1, <1>2, <1>3, <1>4, <1>5, <1>6, <1>7, <1>8, <1>9 DEF Next

(* Every reachable state of the worker and its table is of the inductive    *)
(* invariant's shape.                                                      *)
THEOREM Invariance == Spec => []IInv
<1>1. Init => IInv
    BY InitInv
<1>2. IInv /\ [Next]_vars => IInv'
    BY NextInv
<1> QED
    BY <1>1, <1>2, PTL DEF Spec

(* Every variable has its type, and a stopped worker holds no row: crashes *)
(* (resetRunningJobsToPending) and ticks (runMemoryJobsOnce) included.      *)
THEOREM TypeCorrect == Spec => []TypeOK
<1>1. IInv => TypeOK
    BY DEF IInv
<1> QED
    BY <1>1, Invariance, PTL

(* No trigger is swallowed: upsertDebouncedJob, upsertAutoAnalysisJob and  *)
(* upsertMemoryRetrospectiveJob leave a pending row for it that only a      *)
(* handler started later takes away, whatever retries, deferrals and        *)
(* crashes come between.                                                   *)
THEOREM AlwaysCovered == Spec => []TriggersCovered
<1>1. IInv => TriggersCovered
    <2> SUFFICES ASSUME IInv, up, NEW t \in asked
                 PROVE  \E i \in DOMAIN job :
                          Trigger(i) = t /\ (Pending(i) \/ stage[i] = "held")
        BY DEF TriggersCovered
    <2>1. PICK i \in DOMAIN job : CoveredBy(t, i)
        BY DEF IInv, Covered
    <2> QED
        BY <2>1 DEF CoveredBy
<1> QED
    BY <1>1, Invariance, PTL

(* Handlers of one type and conversation never run side by side, for any   *)
(* lane caps and any mix of retried, deferred and new rows (runLanePool,    *)
(* one tick at a time).                                                    *)
THEOREM NeverSideBySide == Spec => []Serial
<1>1. IInv => Serial
    BY DEF IInv
<1> QED
    BY <1>1, Invariance, PTL

(* At most one maintenance job of a type is pending or running              *)
(* (enqueuePruneOldConversationsJob), whatever its retries and crashes.     *)
THEOREM OnePruneOnly == Spec => []OnePrune
<1>1. ASSUME IInv PROVE OnePrune
    <2>1. CASE PruneActive = {}
        BY <2>1, FS_EmptySet DEF OnePrune
    <2>2. ASSUME NEW i \in PruneActive PROVE OnePrune
        <3>1. PruneActive = {i}
            BY <1>1 DEF IInv, PruneApart
        <3>2. Cardinality(PruneActive) = 1
            BY <3>1, FS_Singleton
        <3> QED
            BY <3>2 DEF OnePrune
    <2> QED
        BY <2>1, <2>2
<1> QED
    BY <1>1, Invariance, PTL

(* Every run of a handler beyond the first counts as an attempt or as a     *)
(* deferral, except for one per crash (failMemoryJob, deferMemoryJob,       *)
(* resetRunningJobsToPending): no order of retries, cancellations and       *)
(* restarts gives a job free runs.                                         *)
THEOREM RunsAlwaysCounted == Spec => []RunsCounted
<1>1. ASSUME IInv PROVE RunsCounted
    BY <1>1 DEF IInv, RowsOK, CountedOK, Allowed, RunsCounted
<1> QED
    BY <1>1, Invariance, PTL

(* A half-open breaker always has the operation in flight that will take it *)
(* out of that state (allows, recordSuccess, recordFailure), whichever of   *)
(* the worker's and the others' operations answer first and last.           *)
THEOREM HalfOpenProbed == Spec => []HalfOpenHasProbe
<1>1. IInv => HalfOpenHasProbe
    BY DEF IInv
<1> QED
    BY <1>1, Invariance, PTL

(* An upsert leaves a row that is not pending as it is.                    *)
LEMMA UpsertKeeps ==
    ASSUME TypeOK, NEW k \in DOMAIN job, ~Pending(k), NEW rows \in Seq(Rows),
           Len(rows) = Len(job), rows[k] = job[k],
           NEW kind, NEW c, NEW time, Upsert(rows, kind, c, time)
    PROVE  job'[k] = job[k]
<1>1. k \in 1..Len(rows) /\ DOMAIN rows = 1..Len(rows)
    OBVIOUS
<1>2. CASE Insert(rows, kind, c, time)
    <2>1. job' = Append(rows, NewRow(kind, c, time))
        BY <1>2 DEF Insert
    <2> QED
        BY <1>1, <2>1
<1>3. ASSUME NEW i \in PendingOf(kind, c),
             job' = [rows EXCEPT ![i].time = IF Pending(i) THEN time ELSE @]
      PROVE  job'[k] = job[k]
    <2>1. i # k
        BY <1>3 DEF PendingOf
    <2> QED
        BY <1>1, <1>3, <2>1
<1> QED
    BY <1>2, <1>3 DEF Upsert

LEMMA EnqueueKeeps ==
    ASSUME IInv, NEW k \in DOMAIN job, ~Pending(k), Enqueue
    PROVE  job'[k] = job[k]
<1>1. TypeOK /\ job \in Seq(Rows) /\ k \in 1..Len(job)
    BY DEF IInv, TypeOK
<1>2. ASSUME NEW c \in Convs, NEW time \in {"ripe", "later"},
             EnqueueRetro(c, time) \/ EnqueueExtract(c, time)
      PROVE  job'[k] = job[k]
    <2>1. \E kind, at : Upsert(job, kind, c, at)
        BY <1>2 DEF EnqueueRetro, EnqueueExtract
    <2> QED
        BY <1>1, <2>1, UpsertKeeps
<1>3. ASSUME NEW c \in Convs, EnqueueIdle(c) PROVE job'[k] = job[k]
    BY <1>1, <1>3, UpsertKeeps DEF EnqueueIdle
<1>4. ASSUME NEW c \in Convs, EnqueueNow(c) PROVE job'[k] = job[k]
    <2>1. PICK rows : rows = StandsInFor(c)
        OBVIOUS
    <2>2. rows \in Seq(Rows) /\ Len(rows) = Len(job)
        BY <1>1, <2>1, StandInRows
    <2>3. rows[k] = job[k]
        BY <1>1, <2>1, StandInRows
    <2> QED
        BY <1>1, <1>4, <2>1, <2>2, <2>3, UpsertKeeps DEF EnqueueNow
<1>5. ASSUME NEW c, NEW kind, Insert(job, kind, c, "ripe") PROVE job'[k] = job[k]
    BY <1>1, <1>5 DEF Insert
<1> QED
    BY <1>2, <1>3, <1>4, <1>5 DEF Enqueue, EnqueueEmbed, EnqueuePrune

(* So does the end of the handler of another one.                          *)
LEMMA HandlerKeeps ==
    ASSUME TypeOK, NEW k \in DOMAIN job, stage[k] = "off", NEW i \in Ids, Live(i),
           NEW outcome, HandlerEnds(i, outcome)
    PROVE  job'[k] = job[k]
<1>1. i # k
    BY DEF Live
<1>2. PICK rows : rows = [job EXCEPT ![i] = Handled(@, outcome)]
    OBVIOUS
<1>3. DOMAIN rows = DOMAIN job /\ rows[k] = job[k]
    BY <1>1, <1>2
<1>4. PICK mates : mates = {j \in DOMAIN job : stage[j] = "held" /\ Key(j) = Key(i)}
    OBVIOUS
<1>5. job' = rows \/ \E j \in mates : job' = Starting(rows, {j})
    BY <1>2, <1>4 DEF HandlerEnds
<1>6. ASSUME NEW j \in mates, job' = Starting(rows, {j}) PROVE job'[k] = job[k]
    BY <1>3, <1>4, <1>6 DEF Starting
<1> QED
    BY <1>3, <1>5, <1>6

(* A completed row stays completed: neither an upsert nor a wipe, a tick, a *)
(* late result or a restart touches it (handleJobError,                     *)
(* resetRunningJobsToPending).                                             *)
THEOREM CompletedStays == Spec => CompletedForGood
<1>1. ASSUME IInv, [Next]_vars, NEW k \in DOMAIN job, job[k].status = "completed"
      PROVE  job'[k].status = "completed"
    <2>1. TypeOK /\ stage[k] = "off" /\ ~Active(k) /\ ~Pending(k)
        BY <1>1, RowFacts DEF IInv, RowOK, Active, Pending
    <2>2. CASE Enqueue
        BY <1>1, <2>1, <2>2, EnqueueKeeps
    <2>3. ASSUME NEW c \in Convs, Wipe(c) PROVE job'[k].status = "completed"
        BY <1>1, <2>1, <2>3 DEF Wipe
    <2>4. CASE Tick
        <3>1. PICK S \in Claims : \E F \in Firsts(S) : job' = Starting(Claimed(S), F)
            BY <2>4 DEF Tick
        <3>2. PICK F \in SUBSET S : job' = Starting(Claimed(S), F)
            BY <3>1 DEF Firsts
        <3>3. k \notin S /\ k \notin F
            BY <2>1, <3>1, <3>2 DEF Claims, Ripe, Lanes, Lane
        <3>4. DOMAIN Claimed(S) = DOMAIN job /\ Claimed(S)[k] = job[k]
            BY <1>1, <3>3 DEF Claimed, Unstalled
        <3> QED
            BY <1>1, <3>2, <3>3, <3>4 DEF Starting
    <2>5. ASSUME NEW i \in Ids, Handler(i) PROVE job'[k].status = "completed"
        BY <1>1, <2>1, <2>5, HandlerKeeps
        DEF Handler, WorkOf, AnswerTo, Work, CallQdrant, QdrantAnswers, Live
    <2>6. ASSUME NEW i \in Ids, Elapse(i) PROVE job'[k].status = "completed"
        BY <1>1, <2>1, <2>6 DEF Elapse, Active
    <2>7. CASE Restart
        BY <1>1, <2>7 DEF Restart
    <2>8. CASE Cool \/ QueryStarts \/ QueryDone \/ Crash \/ UNCHANGED vars
        BY <1>1, <2>8 DEF Cool, QueryStarts, QueryDone, QueryEnds, Crash, vars
    <2> QED
        BY <1>1, <2>2, <2>3, <2>4, <2>5, <2>6, <2>7, <2>8 DEF Next
<1>2. IInv /\ [Next]_vars =>
        \A i \in DOMAIN job : job[i].status = "completed" => job'[i].status = "completed"
    BY <1>1
<1> QED
    BY <1>2, Invariance, PTL DEF Spec, CompletedForGood

================================================================================
