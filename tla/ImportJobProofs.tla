-------------------------- MODULE ImportJobProofs --------------------------
(***************************************************************************)
(* Proofs about the key generator, for any number of threads, any sizes,   *)
(* and restarts; and about the import threads and the event loop, which    *)
(* use it as it is meant to be used.                                       *)
(***************************************************************************)
EXTENDS ImportJob, FiniteSetTheorems, TLAPS

-----------------------------------------------------------------------------
(* Keys                                                                    *)

\* Products grow with a factor.
LEMMA Grows ==
    ASSUME NEW a \in Nat, NEW b \in Nat, NEW c \in Nat, a <= b
    PROVE  a * c <= b * c
  OBVIOUS

\* A number below the modulus is its own remainder.
LEMMA Remainder ==
    ASSUME NEW n \in Nat \ {0}, NEW x \in 0 .. n - 1
    PROVE  x % n = x
  OBVIOUS

\* The smallest key of a millisecond, were there no horizon.
Base(m) == ((m - Epoch) * WorkerSize + Worker) * SeqSize

\* Within the horizon, a key is its millisecond's base and its number.
LEMMA KeyIsBase ==
    ASSUME SnowflakeAssumption, NEW m \in Epoch .. Horizon, NEW s \in 0 .. SeqSize - 1
    PROVE  Key(m, s) = Base(m) + s
  <1>1. (m - Epoch) % TsSize = m - Epoch
    BY Remainder DEF SnowflakeAssumption, Horizon
  <1> QED BY <1>1 DEF Key, Base

LEMMA BaseIsNat ==
    ASSUME SnowflakeAssumption, NEW m \in Nat, Epoch <= m
    PROVE  Base(m) \in Nat
  BY DEF Base, SnowflakeAssumption

\* The keys of a millisecond lie below the next one's.
LEMMA BaseGrows ==
    ASSUME SnowflakeAssumption, NEW m \in Nat, Epoch <= m
    PROVE  Base(m) + SeqSize <= Base(m + 1)
  <1> DEFINE a == (m - Epoch) * WorkerSize + Worker
             b == (m + 1 - Epoch) * WorkerSize + Worker
  <1>1. a \in Nat /\ b \in Nat /\ b = a + WorkerSize
    BY DEF SnowflakeAssumption
  <1>2. a + 1 <= b
    BY <1>1 DEF SnowflakeAssumption
  <1> HIDE DEF a, b
  <1>3. (a + 1) * SeqSize <= b * SeqSize
    BY <1>1, <1>2, Grows DEF SnowflakeAssumption
  <1>4. (a + 1) * SeqSize = a * SeqSize + SeqSize
    BY <1>1 DEF SnowflakeAssumption
  <1>5. Base(m) = a * SeqSize /\ Base(m + 1) = b * SeqSize
    BY DEF a, b, Base
  <1>6. a * SeqSize \in Nat /\ b * SeqSize \in Nat /\ SeqSize \in Nat
    BY <1>1 DEF SnowflakeAssumption
  <1> QED BY <1>3, <1>4, <1>5, <1>6

\* Where the latest key lies: below the next millisecond; below this one, if
\* nothing was drawn in it; and not above what _last_ms and _seq say, unless
\* somebody waits.  _last_ms is not enough: a restart forgets it.
KeyInv ==
    /\ KeysTypeOK
    /\ last <= now
    /\ newest < Base(now + 1)
    /\ last # now => newest < Base(now)
    /\ (last = now /\ spinner = Nobody) => newest <= Base(now) + seq
    /\ spinner # Nobody => seq = 0

Rises == drawn' # drawn => newest' > newest

LEMMA KeysInitInv ==
    ASSUME SnowflakeAssumption, KeysInit
    PROVE  KeyInv
  <1>1. Base(now) \in Nat /\ Base(now + 1) \in Nat
    BY BaseIsNat DEF KeysInit, SnowflakeAssumption
  <1> QED BY <1>1 DEF KeysInit, KeyInv, KeysTypeOK, SnowflakeAssumption, Horizon

\* A key issued in a millisecond in which newest is below it.
LEMMA IssueKeeps ==
    ASSUME SnowflakeAssumption, KeyInv, NEW s \in 0 .. SeqSize - 1,
           Issue(now, s), now' = now, seq' = s, spinner' = Nobody,
           newest < Base(now) + s
    PROVE  KeyInv' /\ Rises
  <1>1. now \in Nat /\ Epoch <= now /\ now \in Epoch .. Horizon
    BY DEF KeyInv, KeysTypeOK, SnowflakeAssumption, Horizon
  <1>2. newest' = Base(now) + s
    BY <1>1, KeyIsBase DEF Issue
  <1>3. Base(now) \in Nat /\ Base(now + 1) \in Nat /\ Base(now) + SeqSize <= Base(now + 1)
    BY <1>1, BaseIsNat, BaseGrows DEF SnowflakeAssumption
  <1>4. now' + 1 = now + 1
    OBVIOUS
  <1>5. Base(now)' = Base(now) /\ Base(now + 1)' = Base(now + 1)
    BY <1>4 DEF Base
  <1>6. KeysTypeOK'
    BY <1>2, <1>3 DEF KeyInv, KeysTypeOK, Issue, SnowflakeAssumption
  <1>7. newest' < Base(now + 1)' /\ newest' <= Base(now)' + seq'
    BY <1>2, <1>3, <1>5 DEF SnowflakeAssumption
  <1>8. last' = now' /\ last' <= now'
    BY <1>1 DEF Issue
  <1>9. Rises
    BY <1>2 DEF Rises
  <1> QED BY <1>6, <1>7, <1>8, <1>9 DEF KeyInv

LEMMA KeysStep ==
    ASSUME SnowflakeAssumption, KeyInv, [KeysNext]_keyVars
    PROVE  KeyInv' /\ Rises
  <1>1. now \in Nat /\ Epoch <= now /\ now \in Start .. Horizon /\ newest \in Int
    BY DEF KeyInv, KeysTypeOK, SnowflakeAssumption, Horizon
  <1>2. Base(now) \in Nat /\ Base(now + 1) \in Nat /\ Base(now) + SeqSize <= Base(now + 1)
    BY <1>1, BaseIsNat, BaseGrows DEF SnowflakeAssumption
  <1>3. now + 1 \in Nat /\ Epoch <= now + 1
    BY <1>1 DEF SnowflakeAssumption
  <1>4. Base(now + 1) <= Base(now + 1 + 1) /\ Base(now + 1 + 1) \in Nat
    <2>1. Base(now + 1) + SeqSize <= Base(now + 1 + 1) /\ Base(now + 1 + 1) \in Nat
      BY <1>3, BaseGrows, BaseIsNat DEF SnowflakeAssumption
    <2> QED BY <2>1, <1>2 DEF SnowflakeAssumption
  <1>5. CASE Tick
    <2>1. Base(now)' = Base(now + 1) /\ Base(now + 1)' = Base(now + 1 + 1)
      BY <1>5 DEF Tick, Base
    <2>2. KeysTypeOK' /\ last' <= now' /\ last' # now'
      BY <1>1, <1>5 DEF KeyInv, KeysTypeOK, Tick, clockVars, SnowflakeAssumption, Horizon
    <2>3. newest' < Base(now)' /\ newest' < Base(now + 1)'
      BY <1>1, <1>2, <1>4, <1>5, <2>1 DEF KeyInv, Tick, clockVars
    <2>4. (spinner' # Nobody => seq' = 0) /\ Rises
      BY <1>5 DEF KeyInv, Tick, clockVars, Rises
    <2> QED BY <2>2, <2>3, <2>4 DEF KeyInv
  <1>6. ASSUME NEW t \in Threads, DrawFirst(t) PROVE KeyInv' /\ Rises
    <2>1. 0 \in 0 .. SeqSize - 1
      BY DEF SnowflakeAssumption
    <2>2. newest < Base(now) + 0
      BY <1>1, <1>2, <1>6 DEF KeyInv, DrawFirst
    <2> QED BY <1>6, <2>1, <2>2, IssueKeeps DEF DrawFirst
  <1>7. ASSUME NEW t \in Threads, DrawNext(t) PROVE KeyInv' /\ Rises
    <2>1. seq \in 0 .. SeqSize - 1 /\ seq + 1 \in Nat
      BY DEF KeyInv, KeysTypeOK, SnowflakeAssumption
    <2>2. CASE seq + 1 \in 0 .. SeqSize - 1
      <3>1. seq' = seq + 1
        BY <1>7, <2>2, Remainder DEF DrawNext, NextSeq, SnowflakeAssumption
      <3>2. newest < Base(now) + (seq + 1)
        BY <1>1, <1>2, <1>7, <2>1 DEF KeyInv, DrawNext
      <3> QED BY <1>7, <2>2, <3>1, <3>2, IssueKeeps DEF DrawNext
    <2>3. CASE seq + 1 = SeqSize
      <3>1. (seq + 1) % SeqSize = 0
        BY <2>3 DEF SnowflakeAssumption
      <3> QED BY <1>7, <3>1 DEF DrawNext, NextSeq
    <2> QED BY <2>1, <2>2, <2>3 DEF SnowflakeAssumption
  <1>8. ASSUME NEW t \in Threads, DrawWraps(t) PROVE KeyInv' /\ Rises
    <2>1. Base(now)' = Base(now) /\ Base(now + 1)' = Base(now + 1)
      BY <1>8 DEF DrawWraps, Base
    <2>2. t # Nobody
      BY DEF SnowflakeAssumption
    <2>3. 0 \in 0 .. SeqSize - 1
      BY DEF SnowflakeAssumption
    <2> QED BY <1>8, <2>1, <2>2, <2>3 DEF KeyInv, KeysTypeOK, DrawWraps, Rises
  <1>9. ASSUME NEW t \in Threads, DrawAfterWait(t) PROVE KeyInv' /\ Rises
    <2>1. seq = 0 /\ seq' = 0 /\ spinner' = Nobody /\ now' = now /\ Issue(now, 0)
      BY <1>9 DEF KeyInv, DrawAfterWait, SnowflakeAssumption
    <2>2. last # now
      BY <1>1, <1>9 DEF DrawAfterWait, KeyInv, KeysTypeOK
    <2>3. newest < Base(now) + 0
      BY <1>1, <1>2, <2>2 DEF KeyInv
    <2>4. 0 \in 0 .. SeqSize - 1
      BY DEF SnowflakeAssumption
    <2> QED BY <2>1, <2>3, <2>4, IssueKeeps
  <1>10. CASE RestartKeys
    <2>1. Base(now)' = Base(now + 1) /\ Base(now + 1)' = Base(now + 1 + 1)
      BY <1>10 DEF RestartKeys, Base
    <2>2. KeysTypeOK' /\ last' <= now' /\ last' # now'
      BY <1>1, <1>10 DEF KeyInv, KeysTypeOK, RestartKeys, SnowflakeAssumption, Horizon
    <2>3. newest' < Base(now)' /\ newest' < Base(now + 1)'
      BY <1>1, <1>2, <1>4, <1>10, <2>1 DEF KeyInv, RestartKeys
    <2>4. (spinner' # Nobody => seq' = 0) /\ Rises
      BY <1>10 DEF RestartKeys, Rises
    <2> QED BY <2>2, <2>3, <2>4 DEF KeyInv
  <1>11. CASE UNCHANGED keyVars
    <2>1. Base(now)' = Base(now) /\ Base(now + 1)' = Base(now + 1)
      BY <1>11 DEF keyVars, Base
    <2> QED BY <1>11, <2>1 DEF keyVars, clockVars, KeyInv, KeysTypeOK, Rises
  <1> QED BY <1>5, <1>6, <1>7, <1>8, <1>9, <1>10, <1>11 DEF KeysNext, Draw

\* Keys increase, whatever the number of threads and the sizes of the fields,
\* as long as the clock does not step back (Snowflake.next_id).
THEOREM KeysAlwaysIncrease == KeysSpec => KeysIncrease
  <1>1. KeysInit => KeyInv
    BY SnowflakeAssumption, KeysInitInv
  <1>2. KeyInv /\ [KeysNext]_keyVars => KeyInv' /\ [Rises]_<<drawn, newest>>
    BY SnowflakeAssumption, KeysStep
  <1> QED BY <1>1, <1>2, PTL DEF KeysSpec, KeysIncrease, Rises

-----------------------------------------------------------------------------
(* Jobs use the generator                                                  *)

LEMMA StepsDraw ==
    ASSUME ImportAssumption, [Next]_vars
    PROVE  [KeysNext]_keyVars
  <1> USE DEF jobVars, batchVars, collVars
  <1>1. ASSUME NEW t \in Threads, Convert(t) PROVE KeysNext
    BY <1>1 DEF Convert, KeysNext
  <1>2. ASSUME NEW j \in Jobs, Create(j) \/ Breaks(j) PROVE UNCHANGED keyVars
    BY <1>2 DEF Create, Breaks
  <1>3. ASSUME NEW j \in Jobs, JobStep(j) PROVE [KeysNext]_keyVars
    <2>1. j \in Threads
      BY DEF Jobs
    <2>2. CASE Convert(j)
      BY <1>1, <2>1, <2>2
    <2>3. CASE ~Convert(j)
      BY <1>3, <2>3
         DEF JobStep, Begin, Download, Parse, NextBatch, NoCollection, StartBatch, Insert,
             Count, Complete, Fail, FailOutside, Update
    <2> QED BY <2>2, <2>3
  <1>4. CASE ClientInserts \/ DropCollection \/ CreateCollection
    BY <1>4 DEF ClientInserts, StartBatch, DropCollection, CreateCollection
  <1>5. CASE LoopStep
    <2>1. CASE Convert(Main)
      BY <1>1, <2>1 DEF ImportAssumption
    <2>2. CASE Insert(Main, "none", "none")
      BY <2>2 DEF Insert
    <2> QED BY <1>5, <2>1, <2>2 DEF LoopStep
  <1>6. CASE TimePasses
    BY <1>6 DEF TimePasses, KeysNext
  <1>7. CASE Crash
    BY <1>7 DEF Crash, KeysNext
  <1>8. CASE UNCHANGED vars
    BY <1>8 DEF vars
  <1> QED BY <1>2, <1>3, <1>4, <1>5, <1>6, <1>7, <1>8 DEF Next

\* Jobs and clients together, interrupted or not, are users of the generator of
\* Snowflake, so that all rows of the writer get different, increasing keys
\* (generate_auto_id in _entity_to_doc).
THEOREM JobsGetIncreasingKeys == Spec => KeysSpec /\ KeysIncrease
  <1>1. Init => KeysInit
    BY DEF Init
  <1>2. [Next]_vars => [KeysNext]_keyVars
    BY ImportAssumption, StepsDraw
  <1>3. Spec => KeysSpec
    BY <1>1, <1>2, PTL DEF Spec, KeysSpec
  <1> QED BY <1>3, KeysAlwaysIncrease

-----------------------------------------------------------------------------
\* The states of a job, spelled out.
LEMMA StatesAre ==
    StateNames = {"Pending", "Downloading", "Parsing", "Importing", "Completed", "Failed"}
  <1>1. DOMAIN States = 1 .. 6
    BY DEF States
  <1>2. 1 .. 6 = {1, 2, 3, 4, 5, 6}
    OBVIOUS
  <1>3. StateNames = {States[1], States[2], States[3], States[4], States[5], States[6]}
    BY <1>1, <1>2 DEF StateNames
  <1> QED BY <1>3 DEF States

\* The progress of a job is a percentage.
LEMMA PercentIsPercent ==
    ASSUME NEW n \in Nat, NEW total \in Nat, n <= total
    PROVE  Percent(n, total) \in 0 .. 100
  <1> DEFINE d == IF total > 1 THEN total ELSE 1
  <1>1. d \in Nat \ {0} /\ n <= d
    OBVIOUS
  <1>2. \A e \in Nat \ {0} : n <= e => (n * 100) \div e \in 0 .. 100
    OBVIOUS
  <1> HIDE DEF d
  <1>3. (n * 100) \div d \in 0 .. 100
    BY <1>1, <1>2
  <1> QED BY <1>3 DEF Percent, d

\* A document that a job writes: it does not report more rows than there are.
Within(d) == d \in Documents /\ d.imported_rows <= d.total_rows

\* What the types rest on: a thread that runs has a document, and a batch is
\* begun, and counted, only when rows are left.
JobInv(j) ==
    /\ Within(job[j])
    /\ pc[j] \notin {"none", "ended"} => Within(doc[j])
    /\ pc[j] = "begin" => doc[j].imported_rows = 0
    /\ pc[j] \in {"download", "parse"} => job[j].imported_rows = 0
    /\ pc[j] \in {"convert", "count"} => job[j].imported_rows < job[j].total_rows

IInv == KeyInv /\ JobTypeOK /\ \A j \in Jobs : JobInv(j)

LEMMA PendingIsWithin == ImportAssumption => Within(Pending)
  BY StatesAre DEF Within, Pending, Documents, ImportAssumption

LEMMA JobsInit == ASSUME ImportAssumption, Init PROVE IInv
  <1>1. KeyInv
    BY SnowflakeAssumption, KeysInitInv DEF Init
  <1>2. Within(Pending)
    BY PendingIsWithin
  <1>3. JobTypeOK
    BY <1>2 DEF Init, JobTypeOK, ImportAssumption, Within
  <1>4. \A j \in Jobs : JobInv(j)
    BY <1>2 DEF Init, JobInv, Jobs
  <1> QED BY <1>1, <1>3, <1>4 DEF IInv

\* Where an exception leads.
LEMMA RaiseLeads ==
    ASSUME JobTypeOK, NEW j \in Jobs, Raise(j)
    PROVE  /\ pc' \in [Threads -> Body \cup {"none", "failing", "outer", "ended"}]
           /\ pc'[j] \in {"failing", "outer", "ended"}
           /\ pc[j] \notin Body => pc'[j] \in {"outer", "ended"}
           /\ pc[j] = "none" => pc'[j] = "ended"
           /\ \A t \in Threads \ {j} : pc'[t] = pc[t]
  <1>1. j \in Threads
    BY DEF Jobs
  <1>2. Handler(pc[j]) \in {"failing", "outer", "ended"}
    BY DEF Handler
  <1>3. pc[j] \notin Body => Handler(pc[j]) \in {"outer", "ended"}
    BY DEF Handler
  <1>4. pc[j] = "none" => Handler(pc[j]) = "ended"
    BY DEF Handler, Body
  <1> QED BY <1>1, <1>2, <1>3, <1>4 DEF Raise, Goto, JobTypeOK

\* A fault counts.
LEMMA FaultCounts ==
    ASSUME ImportAssumption, JobTypeOK, NEW kind, Fault(kind)
    PROVE  faults' \in 0 .. MaxFaults
  BY DEF Fault, JobTypeOK, ImportAssumption

\* A step that writes a sound document, or fails to, keeps the invariant.
LEMMA UpdateKeeps ==
    ASSUME ImportAssumption, IInv, NEW j \in Jobs, NEW d, Within(d),
           NEW where \in {"download", "parse", "import", "outer", "ended"},
           where \in {"download", "parse"} => d.imported_rows = 0,
           pc[j] \notin {"none", "ended"}, Update(j, d, where)
    PROVE  JobTypeOK' /\ \A i \in Jobs : JobInv(i)'
  <1> USE DEF IInv
  <1>1. j \in Threads /\ d \in Documents /\ Pending \in Documents
    BY PendingIsWithin DEF Jobs, Within
  <1>2. /\ pc' \in [Threads -> Body \cup {"none", "failing", "outer", "ended"}]
        /\ pc'[j] \in {where, "failing", "outer", "ended"}
        /\ \A t \in Threads \ {j} : pc'[t] = pc[t]
        /\ faults' \in 0 .. MaxFaults
        /\ doc' = doc \/ doc' = [doc EXCEPT ![j] = d]
    <2>1. CASE Raise(j) /\ Fault("put") /\ (doc' = [doc EXCEPT ![j] = d] \/ UNCHANGED doc)
      BY <2>1, RaiseLeads, FaultCounts
    <2>2. CASE doc' = [doc EXCEPT ![j] = d] /\ Goto(j, where) /\ UNCHANGED faults
      BY <1>1, <2>2 DEF Goto, JobTypeOK, Body
    <2> QED BY <2>1, <2>2 DEF Update, Put
  <1>3. /\ job' = [job EXCEPT ![j] = IF pc'[j] \in {"outer", "ended"} THEN Pending ELSE d]
        /\ UNCHANGED <<file, left, batch, handle, coll, lives, rows, inserts>>
    BY DEF Update, batchVars, collVars
  <1>4. JobTypeOK'
    BY <1>1, <1>2, <1>3 DEF JobTypeOK
  <1>5. ASSUME NEW i \in Jobs PROVE JobInv(i)'
    <2>1. JobInv(i) /\ i \in Threads
      BY DEF Jobs
    <2>2. CASE i = j
      <3>1. Within(job'[j]) /\ (pc'[j] \in {"download", "parse"} => job'[j].imported_rows = 0)
        BY <1>2, <1>3, PendingIsWithin DEF JobTypeOK
      <3>2. Within(doc'[j])
        BY <1>2, <2>1, <2>2 DEF JobInv, JobTypeOK
      <3> QED BY <1>2, <2>2, <3>1, <3>2 DEF JobInv, Within
    <2>3. CASE i # j
      <3>1. /\ doc'[i] = doc[i] /\ job'[i] = job[i] /\ pc'[i] = pc[i]
        BY <1>2, <1>3, <2>1, <2>3 DEF JobTypeOK
      <3> QED BY <2>1, <3>1 DEF JobInv, Within
    <2> QED BY <2>2, <2>3
  <1> QED BY <1>4, <1>5

\* Creating a job: it has a document, or no thread.
LEMMA CreateKeeps ==
    ASSUME ImportAssumption, IInv, NEW j \in Jobs, Create(j)
    PROVE  JobTypeOK' /\ \A i \in Jobs : JobInv(i)'
  <1> USE DEF IInv
  <1>1. /\ j \in Threads /\ Pending \in Documents /\ Within(Pending) /\ pc[j] = "none"
        /\ Pending.imported_rows = 0
    BY PendingIsWithin DEF Jobs, Within, Create, Pending
  <1>2. /\ pc' \in [Threads -> Body \cup {"none", "failing", "outer", "ended"}]
        /\ \A t \in Threads \ {j} : pc'[t] = pc[t]
        /\ faults' \in 0 .. MaxFaults
        /\ \/ doc' = [doc EXCEPT ![j] = Pending] /\ pc'[j] = "begin"
           \/ (doc' = doc \/ doc' = [doc EXCEPT ![j] = Pending]) /\ pc'[j] = "ended"
    <2>1. CASE Raise(j) /\ Fault("put") /\ (doc' = [doc EXCEPT ![j] = Pending] \/ UNCHANGED doc)
      BY <1>1, <2>1, RaiseLeads, FaultCounts
    <2>2. CASE doc' = [doc EXCEPT ![j] = Pending] /\ Goto(j, "begin") /\ UNCHANGED faults
      BY <1>1, <2>2 DEF Goto, JobTypeOK, Body
    <2> QED BY <2>1, <2>2 DEF Create, Put
  <1>3. UNCHANGED <<job, left, batch, handle, coll, lives, rows, inserts>>
    BY DEF Create, batchVars, collVars
  <1>4. file' \in [Jobs -> [s3 : BOOLEAN, size : 0 .. MaxRows, for : 0 .. MaxLives]]
    <2>1. PICK s3 \in BOOLEAN, n \in 0 .. MaxRows :
              file' = [file EXCEPT ![j] = [s3 |-> s3, size |-> n, for |-> coll]]
      BY DEF Create
    <2> QED BY <2>1 DEF JobTypeOK
  <1>5. JobTypeOK'
    BY <1>1, <1>2, <1>3, <1>4 DEF JobTypeOK
  <1>6. ASSUME NEW i \in Jobs PROVE JobInv(i)'
    <2>1. JobInv(i) /\ i \in Threads
      BY DEF Jobs
    <2>2. CASE i = j
      BY <1>1, <1>2, <1>3, <2>1, <2>2 DEF JobInv, JobTypeOK, Within
    <2>3. CASE i # j
      <3>1. doc'[i] = doc[i] /\ job'[i] = job[i] /\ pc'[i] = pc[i]
        BY <1>2, <1>3, <2>1, <2>3 DEF JobTypeOK
      <3> QED BY <2>1, <3>1 DEF JobInv, Within
    <2> QED BY <2>2, <2>3
  <1> QED BY <1>5, <1>6

\* A step of one thread that leaves the documents alone and begins or counts a
\* batch only when rows are left.
LEMMA ThreadKeeps ==
    ASSUME IInv, NEW t \in Threads, NEW where,
           UNCHANGED <<doc, job>>,
           pc' = [pc EXCEPT ![t] = where],
           where \notin {"begin", "download", "parse"},
           t \in Jobs => pc[t] \notin {"none", "ended"},
           t \in Jobs /\ where \in {"convert", "count"} =>
               job[t].imported_rows < job[t].total_rows
    PROVE  \A i \in Jobs : JobInv(i)'
  <1> SUFFICES ASSUME NEW i \in Jobs PROVE JobInv(i)'
    OBVIOUS
  <1>1. JobInv(i) /\ i \in Threads
    BY DEF Jobs, IInv
  <1>2. i # t => pc'[i] = pc[i]
    BY <1>1
  <1>3. i = t => pc'[i] = where
    BY <1>1 DEF IInv, JobTypeOK
  <1> QED BY <1>1, <1>2, <1>3 DEF JobInv, Within

\* What parsing a file, counting a batch and completing a job make of a
\* document.
LEMMA Parsed ==
    ASSUME NEW d, Within(d), NEW s \in StateNames, NEW n \in 0 .. MaxRows, d.imported_rows = 0
    PROVE  Within([d EXCEPT !.state = s, !.total_rows = n])
  <1> DEFINE e == [d EXCEPT !.state = s, !.total_rows = n]
  <1>1. d \in Documents /\ d.imported_rows <= d.total_rows /\ 100 \in 0 .. 100
    BY DEF Within
  <1>2. e \in Documents
    BY <1>1 DEF Documents
  <1>3. e.imported_rows = 0 /\ e.total_rows = n
    BY <1>1 DEF Documents
  <1> HIDE DEF e
  <1>4. Within(e)
    BY <1>1, <1>2, <1>3 DEF Within
  <1> QED BY <1>4 DEF e

LEMMA CountedRows ==
    ASSUME NEW d, Within(d), NEW n \in 0 .. MaxRows, NEW p \in 0 .. 100,
           n <= d.total_rows
    PROVE  Within([d EXCEPT !.imported_rows = n, !.progress = p])
  <1> DEFINE e == [d EXCEPT !.imported_rows = n, !.progress = p]
  <1>1. d \in Documents /\ d.imported_rows <= d.total_rows /\ 100 \in 0 .. 100
    BY DEF Within
  <1>2. e \in Documents
    BY <1>1 DEF Documents
  <1>3. e.imported_rows = n /\ e.total_rows = d.total_rows
    BY <1>1 DEF Documents
  <1> HIDE DEF e
  <1>4. Within(e)
    BY <1>1, <1>2, <1>3 DEF Within
  <1> QED BY <1>4 DEF e

LEMMA Completed ==
    ASSUME NEW d, Within(d), NEW s \in StateNames
    PROVE  Within([d EXCEPT !.state = s, !.progress = 100])
  <1> DEFINE e == [d EXCEPT !.state = s, !.progress = 100]
  <1>1. d \in Documents /\ d.imported_rows <= d.total_rows /\ 100 \in 0 .. 100
    BY DEF Within
  <1>2. e \in Documents
    BY <1>1 DEF Documents
  <1>3. e.imported_rows = d.imported_rows /\ e.total_rows = d.total_rows
    BY <1>1 DEF Documents
  <1> HIDE DEF e
  <1>4. Within(e)
    BY <1>1, <1>2, <1>3 DEF Within
  <1> QED BY <1>4 DEF e

\* What a job writes reports no more rows than there are.
LEMMA WritesKeep ==
    ASSUME ImportAssumption, IInv, NEW j \in Jobs,
           \/ Begin(j) \/ Download(j) \/ Parse(j) \/ Count(j) \/ Complete(j)
           \/ Fail(j) \/ FailOutside(j)
    PROVE  JobTypeOK' /\ \A i \in Jobs : JobInv(i)'
  <1>1. /\ JobInv(j) /\ Within(job[j]) /\ (pc[j] = "begin" => doc[j].imported_rows = 0)
        /\ pc[j] \in {"download", "parse"} => job[j].imported_rows = 0
        /\ pc[j] \notin {"none", "ended"} => Within(doc[j])
    BY DEF IInv, JobInv
  <1>2. ASSUME NEW d, Within(d), NEW s \in StateNames PROVE  /\ Within([d EXCEPT !.state = s])
           /\ [d EXCEPT !.state = s].imported_rows = d.imported_rows
    BY <1>2 DEF Within, Documents
  <1>4. CASE Begin(j)
    <2>1. PICK where \in {"download", "parse"}, s \in StateNames : Update(j, [doc[j] EXCEPT !.state = s], where)
      BY <1>4, StatesAre DEF Begin
    <2>2. /\ Within([doc[j] EXCEPT !.state = s]) /\ pc[j] = "begin"
          /\ [doc[j] EXCEPT !.state = s].imported_rows = 0
      BY <1>1, <1>2, <1>4 DEF Begin
    <2> QED BY <2>1, <2>2, UpdateKeeps
  <1>5. CASE Download(j)
    BY <1>1, <1>2, <1>5, StatesAre, UpdateKeeps DEF Download
  <1>6. CASE Parse(j)
    <2>1. file[j].size \in 0 .. MaxRows
      BY DEF IInv, JobTypeOK
    <2> DEFINE d == [job[j] EXCEPT !.state = "Importing", !.total_rows = file[j].size]
    <2>2. Within(d)
      <3>1. job[j].imported_rows = 0 /\ "Importing" \in StateNames
        BY <1>1, <1>6, StatesAre DEF Parse
      <3> QED BY <1>1, <2>1, <3>1, Parsed
    <2>3. Update(j, d, "import") /\ pc[j] = "parse"
      BY <1>6 DEF Parse
    <2> HIDE DEF d
    <2> QED BY <2>2, <2>3, UpdateKeeps
  <1>7. CASE Count(j)
    <2> DEFINE n == Counted(j)
               d == [job[j] EXCEPT !.imported_rows = n, !.progress = Percent(n, job[j].total_rows)]
    <2>1. /\ n \in Nat /\ n <= job[j].total_rows /\ job[j].total_rows \in Nat
          /\ job[j].total_rows <= MaxRows /\ n \in 0 .. MaxRows
      BY <1>1, <1>7 DEF Count, Counted, NextChunk, Smaller, JobInv, Within, Documents, ImportAssumption
    <2> HIDE DEF n
    <2>2. Percent(n, job[j].total_rows) \in 0 .. 100
      <3> HIDE DEF d
      <3> QED BY <2>1, PercentIsPercent
    <2>3. Within(d)
      <3> DEFINE p == Percent(n, job[j].total_rows)
      <3>1. p \in 0 .. 100
        BY <2>2
      <3> HIDE DEF p
      <3>2. Within([job[j] EXCEPT !.imported_rows = n, !.progress = p])
        BY <1>1, <2>1, <3>1, CountedRows
      <3> QED BY <3>2 DEF p
    <2>4. Update(j, d, "import") /\ pc[j] = "count"
      BY <1>7 DEF Count, n
    <2> HIDE DEF d
    <2> QED BY <2>3, <2>4, UpdateKeeps
  <1>8. CASE Complete(j)
    <2> DEFINE d == [job[j] EXCEPT !.state = "Completed", !.progress = 100]
    <2>1. Within(d)
      <3>1. "Completed" \in StateNames
        BY StatesAre
      <3> QED BY <1>1, <3>1, Completed
    <2>2. Update(j, d, "ended") /\ pc[j] = "import"
      BY <1>8 DEF Complete
    <2> HIDE DEF d
    <2> QED BY <2>1, <2>2, UpdateKeeps
  <1>9. CASE Fail(j)
    BY <1>1, <1>2, <1>9, StatesAre, UpdateKeeps DEF Fail, Failed
  <1>10. CASE FailOutside(j)
    BY <1>1, <1>2, <1>10, StatesAre, UpdateKeeps DEF FailOutside, Failed, Reread
  <1> QED BY <1>4, <1>5, <1>6, <1>7, <1>8, <1>9, <1>10

\* Beginning a batch.
LEMMA StartKeeps ==
    ASSUME ImportAssumption, IInv, NEW t \in Threads, NEW n \in 0 .. Batch, StartBatch(t, n),
           inserts' \in 0 .. MaxInserts,
           t \in Jobs => /\ pc[t] = "import"
                         /\ job[t].imported_rows < job[t].total_rows
    PROVE  JobTypeOK' /\ \A i \in Jobs : JobInv(i)'
  <1>1. UNCHANGED <<doc, job, file, coll, lives, rows, faults>> /\ pc' = [pc EXCEPT ![t] = "convert"]
    BY DEF StartBatch, Goto, jobVars, collVars
  <1>2. JobTypeOK'
    BY <1>1 DEF StartBatch, IInv, JobTypeOK, Body
  <1>3. \A i \in Jobs : JobInv(i)'
    BY <1>1, ThreadKeeps
  <1> QED BY <1>2, <1>3

\* Ending one.
LEMMA InsertKeeps ==
    ASSUME ImportAssumption, IInv, NEW t \in Threads,
           NEW done \in {"none", "count"}, NEW failed \in {"none", "failing"},
           Insert(t, done, failed)
    PROVE  JobTypeOK' /\ \A i \in Jobs : JobInv(i)'
  <1>1. PICK where \in {done, failed} : Goto(t, where)
    BY DEF Insert
  <1>2. ASSUME NEW keys \in SUBSET batch[t] PROVE Stored(t, keys) \subseteq Nat \X Threads
    <2>1. keys \subseteq Nat /\ rows \subseteq Nat \X Threads
      BY DEF IInv, JobTypeOK
    <2>2. {k \in keys : \A r \in rows : r[1] # k} \X {t} \subseteq Nat \X Threads
      BY <2>1
    <2> QED BY <2>1, <2>2 DEF Stored
  <1>3. rows' \subseteq Nat \X Threads
    BY <1>2 DEF Insert
  <1>4. /\ UNCHANGED <<doc, job, file, coll, lives, inserts, faults>> /\ pc[t] = "convert"
        /\ pc' = [pc EXCEPT ![t] = where] /\ Forget({t})
    BY <1>1 DEF Insert, Goto, jobVars
  <1>5. JobTypeOK'
    BY <1>3, <1>4 DEF Forget, IInv, JobTypeOK, Body, ImportAssumption
  <1>6. t \in Jobs => job[t].imported_rows < job[t].total_rows
    BY <1>4 DEF IInv, JobInv
  <1>7. \A i \in Jobs : JobInv(i)'
    BY <1>4, <1>6, ThreadKeeps
  <1> QED BY <1>5, <1>7

\* A row gets its key, which is a number.
LEMMA ConvertKeeps ==
    ASSUME ImportAssumption, IInv, NEW t \in Threads, Convert(t), KeyInv', Rises
    PROVE  JobTypeOK' /\ \A i \in Jobs : JobInv(i)'
  <1>1. UNCHANGED <<doc, job, file, pc, handle, coll, lives, rows, inserts, faults>>
    BY DEF Convert, jobVars, collVars
  <1>2. drawn' # drawn => newest' \in Nat
    BY DEF Rises, IInv, KeyInv, KeysTypeOK
  <1>3. left' \in [Threads -> 0 .. Batch]
    <2>1. left[t] \in 0 .. Batch /\ left[t] > 0 /\ left \in [Threads -> 0 .. Batch]
      BY DEF Convert, IInv, JobTypeOK
    <2>2. \A n \in 0 .. Batch : n > 0 => n - 1 \in 0 .. Batch
      BY DEF ImportAssumption
    <2>3. left[t] - 1 \in 0 .. Batch
      BY <2>1, <2>2
    <2>4. left' = left \/ left' = [left EXCEPT ![t] = left[t] - 1]
      BY DEF Convert
    <2> QED BY <2>1, <2>3, <2>4
  <1>6. batch' \in [Threads -> SUBSET Nat]
    <2>1. batch \in [Threads -> SUBSET Nat]
      BY DEF IInv, JobTypeOK
    <2>2. batch' = batch \/ (newest' \in Nat /\ batch' = [batch EXCEPT ![t] = @ \cup {newest'}])
      BY <1>2 DEF Convert
    <2> QED BY <2>1, <2>2
  <1>4. JobTypeOK'
    BY <1>1, <1>3, <1>6 DEF IInv, JobTypeOK
  <1>5. \A i \in Jobs : JobInv(i)'
    BY <1>1 DEF IInv, JobInv, Within
  <1> QED BY <1>4, <1>5

\* A step of a job that breaks.
LEMMA BreakKeeps ==
    ASSUME ImportAssumption, IInv, NEW j \in Jobs, Breaks(j) \/ NoCollection(j)
    PROVE  JobTypeOK' /\ \A i \in Jobs : JobInv(i)'
  <1>1. /\ Raise(j) /\ pc[j] \in Body /\ pc[j] # "none"
        /\ UNCHANGED <<doc, job, file, coll, lives, rows, inserts, faults>>
    BY DEF Breaks, NoCollection, jobVars, collVars, Body
  <1>2. /\ left' \in [Threads -> 0 .. Batch] /\ batch' \in [Threads -> SUBSET Nat]
        /\ handle' \in [Threads -> 0 .. MaxLives]
    BY DEF Breaks, NoCollection, Forget, batchVars, IInv, JobTypeOK, ImportAssumption
  <1>3. JobTypeOK'
    BY <1>1, <1>2, RaiseLeads DEF IInv, JobTypeOK
  <1>4. /\ j \in Threads /\ pc' = [pc EXCEPT ![j] = Handler(pc[j])]
        /\ Handler(pc[j]) = "failing" /\ pc[j] \notin {"none", "ended"}
    BY <1>1 DEF Raise, Goto, Handler, Jobs, Body
  <1>5. \A i \in Jobs : JobInv(i)'
    BY <1>1, <1>4, ThreadKeeps
  <1> QED BY <1>3, <1>5

\* The writer dies, and its threads with it.
LEMMA CrashKeeps ==
    ASSUME ImportAssumption, IInv, Crash
    PROVE  JobTypeOK' /\ \A i \in Jobs : JobInv(i)'
  <1>1. Within(Pending) /\ faults' \in 0 .. MaxFaults
    BY PendingIsWithin, FaultCounts DEF Crash, IInv
  <1>2. UNCHANGED <<doc, file, coll, lives, rows, inserts>>
    BY DEF Crash, collVars
  <1>3. JobTypeOK'
    BY <1>1, <1>2 DEF Crash, Forget, IInv, JobTypeOK, Within, ImportAssumption
  <1>4. \A i \in Jobs : job'[i] = Pending /\ pc'[i] \in {"none", "ended"}
    BY DEF Crash, Jobs
  <1> QED BY <1>1, <1>3, <1>4 DEF JobInv

LEMMA JobsStep ==
    ASSUME ImportAssumption, IInv, [Next]_vars
    PROVE  IInv'
  <1>1. KeyInv' /\ Rises
    BY SnowflakeAssumption, StepsDraw, KeysStep DEF IInv
  <1> SUFFICES JobTypeOK' /\ \A i \in Jobs : JobInv(i)'
    BY <1>1 DEF IInv
  <1>2. ASSUME NEW j \in Jobs, Create(j) \/ JobStep(j) \/ Breaks(j)
        PROVE  JobTypeOK' /\ \A i \in Jobs : JobInv(i)'
    <2>1. j \in Threads
      BY DEF Jobs
    <2>2. CASE NextBatch(j)
      <3>1. /\ pc[j] = "import" /\ job[j].imported_rows < job[j].total_rows
            /\ inserts' = inserts /\ StartBatch(j, NextChunk(j)) /\ Within(job[j])
        BY <2>2 DEF NextBatch, IInv, JobInv
      <3>2. NextChunk(j) \in 0 .. Batch
        BY <3>1 DEF NextChunk, Smaller, Within, Documents, ImportAssumption
      <3>3. inserts' \in 0 .. MaxInserts
        BY <3>1 DEF IInv, JobTypeOK
      <3> QED BY <2>1, <3>1, <3>2, <3>3, StartKeeps
    <2>3. CASE Convert(j)
      BY <1>1, <2>1, <2>3, ConvertKeeps
    <2>4. CASE Insert(j, "count", "failing")
      BY <2>1, <2>4, InsertKeeps
    <2> QED BY <1>2, <2>2, <2>3, <2>4, CreateKeeps, WritesKeep, BreakKeeps DEF JobStep
  <1>3. Main \in Threads /\ Main \notin Jobs
    BY DEF ImportAssumption, Jobs
  <1>4. CASE ClientInserts
    <2>1. 1 \in 0 .. Batch
      BY DEF ImportAssumption
    <2>2. StartBatch(Main, 1) /\ inserts' \in 0 .. MaxInserts
      BY <1>4 DEF ClientInserts, IInv, JobTypeOK, ImportAssumption
    <2> QED BY <1>3, <2>1, <2>2, StartKeeps
  <1>5. CASE LoopStep
    BY <1>1, <1>3, <1>5, ConvertKeeps, InsertKeeps DEF LoopStep
  <1>6. CASE DropCollection \/ CreateCollection
    <2>1. UNCHANGED <<doc, job, file, pc, left, batch, handle, inserts, faults>>
      BY <1>6 DEF DropCollection, CreateCollection, jobVars, batchVars
    <2>2. coll' \in 0 .. MaxLives /\ lives' \in 1 .. MaxLives /\ rows' \subseteq Nat \X Threads
      BY <1>6 DEF DropCollection, CreateCollection, IInv, JobTypeOK, ImportAssumption
    <2> QED BY <2>1, <2>2 DEF IInv, JobTypeOK, JobInv, Within
  <1>7. CASE TimePasses \/ UNCHANGED vars
    <2>1. UNCHANGED <<doc, job, file, pc, left, batch, handle, coll, lives, rows, inserts, faults>>
      BY <1>7 DEF TimePasses, vars, jobVars, batchVars, collVars
    <2> QED BY <2>1 DEF IInv, JobTypeOK, JobInv, Within
  <1> QED BY <1>2, <1>4, <1>5, <1>6, <1>7, CrashKeeps DEF Next

\* Generator, jobs and collection keep their types: a job never reports more
\* rows than its files have, nor more than 100 percent, for any size of files
\* and batches and any number of jobs, also beside failures and crashes
\* (_run_job_async).
THEOREM JobTypes == Spec => []TypeOK
  <1>1. Init => IInv
    BY ImportAssumption, JobsInit
  <1>2. IInv /\ [Next]_vars => IInv'
    BY ImportAssumption, JobsStep
  <1>3. IInv => TypeOK
    BY DEF IInv, KeyInv, TypeOK
  <1> QED BY <1>1, <1>2, <1>3, PTL DEF Spec
-----------------------------------------------------------------------------
(* What a job's document says                                              *)

\* e is no step back from d.
Below(d, e) ==
    /\ Rank(e.state) >= Rank(d.state)
    /\ e.imported_rows >= d.imported_rows /\ e.total_rows >= d.total_rows
    /\ e.progress >= d.progress

Importing == {"import", "convert", "count"}

\* A thread's dictionary is what its document says until writing it fails; then
\* the document is behind.
Ahead(j) ==
    /\ pc[j] = "none" => doc[j] = NoJob
    /\ pc[j] = "begin" => doc[j] = Pending
    /\ pc[j] \in {"download", "parse"} \cup Importing => doc[j] = job[j]
    /\ pc[j] \in {"download", "parse"} =>
           /\ job[j].total_rows = 0 /\ job[j].progress = 0
           /\ job[j].state \in {"Downloading", "Parsing"}
    /\ pc[j] = "parse" => job[j].state = "Parsing"
    /\ pc[j] \in Importing =>
           /\ job[j].state = "Importing" /\ job[j].total_rows = file[j].size
           /\ job[j].progress = Percent(job[j].imported_rows, job[j].total_rows)
    /\ pc[j] = "failing" => Below(doc[j], job[j])

\* No key is used twice: what a thread is about to insert is not in the
\* collection, nor about to be inserted by another one.
Fresh ==
    /\ IsFiniteSet(rows) /\ \A r \in rows : r[1] <= newest
    /\ \A t \in Threads :
           /\ IsFiniteSet(batch[t])
           /\ \A k \in batch[t] : k <= newest /\ \A r \in rows : r[1] # k
    /\ \A t \in Threads : \A s \in Threads \ {t} : batch[t] \cap batch[s] = {}

\* What d reports is in the collection.
Reported(d, j) ==
    /\ d.imported_rows <= Cardinality(RowsOf(j))
    /\ d.progress = 100 => Cardinality(RowsOf(j)) = file[j].size
    /\ d.state = "Completed" => d.progress = 100

\* While the collection that a job was created for is there, it has as many
\* rows of the job as its thread has counted, or is about to count.
StoredOf(j) ==
    /\ Reported(doc[j], j)
    /\ pc[j] = "failing" => Reported(job[j], j)
    /\ pc[j] \in {"import", "convert"} => Cardinality(RowsOf(j)) = job[j].imported_rows
    /\ pc[j] = "count" => Cardinality(RowsOf(j)) = Counted(j)
    /\ pc[j] = "convert" => handle[j] = coll

\* Collections are not numbered twice; a job inserts nothing before it imports;
\* and a batch is as large as it is to be.
BatchOf(j) ==
    /\ doc[j] # NoJob => file[j].for \in 1 .. lives
    /\ pc[j] \in {"none", "begin", "download", "parse"} => RowsOf(j) = {}
    /\ pc[j] = "convert" => Cardinality(batch[j]) + left[j] = NextChunk(j)

DocOf(j) ==
    /\ Ahead(j) /\ BatchOf(j)
    /\ doc[j] # NoJob /\ file[j].for = coll => StoredOf(j)

DocInv == Fresh /\ coll <= lives /\ \A j \in Jobs : DocOf(j)

Advance == \A j \in Jobs : doc[j] # NoJob => Below(doc[j], doc'[j])

LEMMA RankIs ==
    /\ Rank("Pending") = 1 /\ Rank("Downloading") = 2 /\ Rank("Parsing") = 3
    /\ Rank("Importing") = 4 /\ Rank("Completed") = 5 /\ Rank("Failed") = 6
  <1>1. DOMAIN States = {1, 2, 3, 4, 5, 6}
    BY DEF States
  <1>2. /\ States[1] = "Pending" /\ States[2] = "Downloading" /\ States[3] = "Parsing"
        /\ States[4] = "Importing" /\ States[5] = "Completed" /\ States[6] = "Failed"
    BY DEF States
  <1>3. ASSUME NEW n \in DOMAIN States PROVE Rank(States[n]) = n
    <2>1. \A i \in DOMAIN States : States[i] = States[n] => i = n
      BY <1>1, <1>2
    <2>2. \E i \in DOMAIN States : States[i] = States[n]
      OBVIOUS
    <2>3. Rank(States[n]) \in DOMAIN States /\ States[Rank(States[n])] = States[n]
      BY <2>2 DEF Rank
    <2> QED BY <2>1, <2>3
  <1> QED BY <1>1, <1>2, <1>3

LEMMA RankIsNat == \A s \in StateNames : Rank(s) \in 1 .. 6
  BY RankIs, StatesAre

LEMMA BelowItself == ASSUME NEW d \in Documents PROVE Below(d, d)
  BY RankIsNat DEF Below, Documents

\* Progress grows with the rows that are imported, and is 100 with the last.
LEMMA PercentGrows ==
    ASSUME NEW n \in Nat, NEW m \in Nat, NEW total \in Nat, n <= m, m <= total
    PROVE  Percent(n, total) <= Percent(m, total)
  <1> DEFINE d == IF total > 1 THEN total ELSE 1
  <1>1. d \in Nat \ {0}
    OBVIOUS
  <1>2. \A e \in Nat \ {0} : (n * 100) \div e <= (m * 100) \div e
    OBVIOUS
  <1> HIDE DEF d
  <1> QED BY <1>1, <1>2 DEF Percent, d

LEMMA PercentFull ==
    ASSUME NEW n \in Nat, NEW total \in Nat, n < total
    PROVE  Percent(n, total) # 100
  <1> DEFINE d == IF total > 1 THEN total ELSE 1
  <1>1. d \in Nat \ {0} /\ n < d
    OBVIOUS
  <1>2. \A e \in Nat \ {0} : n < e => (n * 100) \div e # 100
    OBVIOUS
  <1> HIDE DEF d
  <1> QED BY <1>1, <1>2 DEF Percent, d

LEMMA RowsAreFinite ==
    ASSUME Fresh, NEW j
    PROVE  IsFiniteSet(RowsOf(j)) /\ Cardinality(RowsOf(j)) \in Nat
  <1>1. RowsOf(j) \in SUBSET rows /\ IsFiniteSet(rows)
    BY DEF RowsOf, Fresh
  <1> QED BY <1>1, FS_Subset, FS_CardinalityType

\* Forgetting batches and rows, and drawing keys, leaves no key used twice.
LEMMA FreshForgets ==
    ASSUME Fresh, \A t \in Threads : batch'[t] \subseteq batch[t], rows' \subseteq rows,
           newest' = newest
    PROVE  Fresh'
  <1>1. IsFiniteSet(rows') /\ \A t \in Threads : IsFiniteSet(batch'[t])
    BY FS_Subset DEF Fresh
  <1> QED BY <1>1 DEF Fresh

\* A job that a step does not touch.
LEMMA JobUntouched ==
    ASSUME NEW i \in Jobs, DocOf(i),
           doc'[i] = doc[i], job'[i] = job[i], file'[i] = file[i], pc'[i] = pc[i],
           left'[i] = left[i], batch'[i] = batch[i], handle'[i] = handle[i],
           coll' = coll, lives' = lives, RowsOf(i)' = RowsOf(i)
    PROVE  DocOf(i)'
  BY DEF DocOf, Ahead, BatchOf, StoredOf, Reported, Importing, Counted, NextChunk, Smaller

LEMMA DocsInit == ASSUME ImportAssumption, Init PROVE DocInv
  <1>1. /\ \A j \in Jobs : pc[j] = "none" /\ doc[j] = NoJob
        /\ \A t \in Threads : batch[t] = {}
        /\ rows = {} /\ coll = 1 /\ lives = 1
    BY DEF Init, Jobs
  <1>2. Fresh
    BY <1>1, FS_EmptySet DEF Fresh
  <1>3. \A j \in Jobs : RowsOf(j) = {}
    BY <1>1 DEF RowsOf
  <1>4. \A j \in Jobs : DocOf(j)
    BY <1>1, <1>3 DEF DocOf, Ahead, BatchOf, Importing
  <1> QED BY <1>1, <1>2, <1>4 DEF DocInv

\* A job that writes d, which is no step back from its document, reports no
\* more than is stored, and fits where the job goes to.
LEMMA UpdateTells ==
    ASSUME ImportAssumption, IInv, DocInv, JobTypeOK', NEW j \in Jobs, NEW d, Within(d),
           NEW where \in {"download", "parse", "import", "outer", "ended"},
           Update(j, d, where), pc[j] \notin {"none", "ended"},
           where \in {"download", "parse"} =>
               /\ pc[j] \in {"begin", "download"} /\ d.total_rows = 0 /\ d.progress = 0
               /\ d.state \in {"Downloading", "Parsing"}
               /\ where = "parse" => d.state = "Parsing",
           where = "import" =>
               /\ d.state = "Importing" /\ d.total_rows = file[j].size
               /\ d.progress = Percent(d.imported_rows, d.total_rows)
               /\ file[j].for = coll => Cardinality(RowsOf(j)) = d.imported_rows,
           Below(doc[j], d),
           file[j].for = coll => Reported(d, j)
    PROVE  DocInv' /\ Advance
  <1>1. /\ j \in Threads /\ d \in Documents /\ doc[j] \in Documents /\ Pending \in Documents
        /\ DocOf(j)
    BY PendingIsWithin DEF Jobs, Within, IInv, JobInv, DocInv
  <1>2. /\ pc'[j] \in {where, "failing", "outer", "ended"}
        /\ \A t \in Threads \ {j} : pc'[t] = pc[t]
        /\ doc' = doc \/ doc' = [doc EXCEPT ![j] = d]
        /\ pc'[j] = where \/ pc'[j] \in {"failing", "outer", "ended"}
        /\ pc'[j] \notin {"failing", "outer", "ended"} => doc' = [doc EXCEPT ![j] = d]
    <2>1. CASE Raise(j) /\ Fault("put") /\ (doc' = [doc EXCEPT ![j] = d] \/ UNCHANGED doc)
      BY <2>1, RaiseLeads DEF IInv
    <2>2. CASE doc' = [doc EXCEPT ![j] = d] /\ Goto(j, where) /\ UNCHANGED faults
      BY <1>1, <2>2 DEF Goto, IInv, JobTypeOK
    <2> QED BY <2>1, <2>2 DEF Update, Put
  <1>3. /\ job' = [job EXCEPT ![j] = IF pc'[j] \in {"outer", "ended"} THEN Pending ELSE d]
        /\ UNCHANGED <<file, left, batch, handle, coll, lives, rows, inserts, newest>>
    BY DEF Update, batchVars, collVars, keyVars, clockVars
  <1>4. Fresh'
    BY <1>3, FreshForgets DEF DocInv
  <1>5. \A i \in Jobs : RowsOf(i)' = RowsOf(i)
    BY <1>3 DEF RowsOf
  <1>6. doc \in [Jobs -> Documents \cup {NoJob}] /\ job \in [Jobs -> Documents]
    BY DEF IInv, JobTypeOK
  <1>7. ASSUME NEW i \in Jobs, i # j PROVE DocOf(i)' /\ doc'[i] = doc[i]
    <2>1. /\ doc'[i] = doc[i] /\ job'[i] = job[i] /\ pc'[i] = pc[i]
          /\ file'[i] = file[i] /\ left'[i] = left[i] /\ batch'[i] = batch[i]
          /\ handle'[i] = handle[i] /\ coll' = coll /\ lives' = lives
      BY <1>2, <1>3, <1>6, <1>7 DEF Jobs
    <2>2. DocOf(i)
      BY DEF DocInv
    <2> QED BY <1>5, <2>1, <2>2, JobUntouched
  <1>8. /\ doc'[j] = doc[j] \/ doc'[j] = d
        /\ pc'[j] \notin {"failing", "outer", "ended"} => doc'[j] = d
        /\ pc'[j] \notin {"outer", "ended"} => job'[j] = d
    BY <1>2, <1>3, <1>6
  <1>9. doc[j] # NoJob /\ d # NoJob
    BY <1>1, NoJobAssumption
  <1>10. Ahead(j)'
    <2>1. Below(doc'[j], d)
      BY <1>1, <1>8, BelowItself
    <2>2. file'[j] = file[j]
      BY <1>3
    <2> QED BY <1>2, <1>8, <2>1, <2>2 DEF Ahead, Importing
  <1>11. BatchOf(j)'
    <2>1. pc'[j] \in {"download", "parse"} => RowsOf(j) = {}
      BY <1>1, <1>2 DEF DocOf, BatchOf
    <2>2. file[j].for \in 1 .. lives
      BY <1>1, <1>9 DEF DocOf, BatchOf
    <2> QED BY <1>2, <1>3, <1>5, <2>1, <2>2 DEF BatchOf
  <1>12. file[j].for = coll => StoredOf(j)'
    <2> SUFFICES ASSUME file[j].for = coll PROVE StoredOf(j)'
      OBVIOUS
    <2>1. Reported(doc[j], j) /\ Reported(d, j)
      BY <1>1, <1>9 DEF DocOf, StoredOf
    <2>2. file'[j] = file[j]
      BY <1>3
    <2>3. Reported(doc[j], j)' = Reported(doc'[j], j) /\ Reported(job[j], j)' = Reported(job'[j], j)
      BY <1>5, <2>2 DEF Reported
    <2>4. Reported(doc'[j], j) /\ (pc'[j] = "failing" => Reported(job'[j], j))
      BY <1>8, <2>1
    <2> QED BY <1>2, <1>5, <1>8, <2>3, <2>4 DEF StoredOf
  <1>13. DocOf(j)'
    BY <1>3, <1>10, <1>11, <1>12 DEF DocOf
  <1>14. DocInv'
    BY <1>3, <1>4, <1>7, <1>13 DEF DocInv
  <1>15. Advance
    <2> SUFFICES ASSUME NEW i \in Jobs, doc[i] # NoJob PROVE Below(doc[i], doc'[i])
      BY DEF Advance
    <2>1. doc[i] \in Documents
      BY <1>6
    <2> QED BY <1>7, <1>8, <2>1, BelowItself
  <1> QED BY <1>14, <1>15

\* Creating a job tells nothing yet.
LEMMA CreateTells ==
    ASSUME ImportAssumption, IInv, DocInv, NEW j \in Jobs, Create(j)
    PROVE  DocInv' /\ Advance
  <1>1. /\ j \in Threads /\ pc[j] = "none" /\ DocOf(j) /\ doc[j] = NoJob /\ RowsOf(j) = {}
        /\ coll # 0 /\ coll \in Nat /\ lives \in Nat
    BY DEF Jobs, Create, DocInv, DocOf, Ahead, BatchOf, IInv, JobTypeOK, ImportAssumption
  <1>2. /\ pc'[j] \in {"begin", "ended"}
        /\ \A t \in Threads \ {j} : pc'[t] = pc[t]
        /\ doc' = doc \/ doc' = [doc EXCEPT ![j] = Pending]
        /\ pc'[j] = "begin" => doc' = [doc EXCEPT ![j] = Pending]
    <2>1. CASE Raise(j) /\ Fault("put") /\ (doc' = [doc EXCEPT ![j] = Pending] \/ UNCHANGED doc)
      BY <1>1, <2>1, RaiseLeads DEF IInv, Raise, Goto, Handler, Body, JobTypeOK
    <2>2. CASE doc' = [doc EXCEPT ![j] = Pending] /\ Goto(j, "begin") /\ UNCHANGED faults
      BY <1>1, <2>2 DEF Goto, IInv, JobTypeOK
    <2> QED BY <2>1, <2>2 DEF Create, Put
  <1>3. UNCHANGED <<job, left, batch, handle, coll, lives, rows, inserts, newest>>
    BY DEF Create, batchVars, collVars, keyVars, clockVars
  <1>4. file'[j].for = coll /\ \A i \in Jobs \ {j} : file'[i] = file[i]
    BY DEF Create, IInv, JobTypeOK
  <1>5. Fresh'
    BY <1>3, FreshForgets DEF DocInv
  <1>6. \A i \in Jobs : RowsOf(i)' = RowsOf(i)
    BY <1>3 DEF RowsOf
  <1>7. doc \in [Jobs -> Documents \cup {NoJob}]
    BY DEF IInv, JobTypeOK
  <1>8. ASSUME NEW i \in Jobs, i # j PROVE DocOf(i)' /\ doc'[i] = doc[i]
    <2>1. /\ doc'[i] = doc[i] /\ job'[i] = job[i] /\ pc'[i] = pc[i]
          /\ file'[i] = file[i] /\ left'[i] = left[i] /\ batch'[i] = batch[i]
          /\ handle'[i] = handle[i] /\ coll' = coll /\ lives' = lives
      BY <1>2, <1>3, <1>4, <1>7, <1>8 DEF Jobs
    <2>2. DocOf(i)
      BY DEF DocInv
    <2> QED BY <1>6, <2>1, <2>2, JobUntouched
  <1>9. DocOf(j)'
    <2>1. doc'[j] \in {NoJob, Pending} /\ (pc'[j] = "begin" => doc'[j] = Pending)
      BY <1>1, <1>2, <1>7
    <2>2. Ahead(j)'
      BY <1>2, <2>1 DEF Ahead, Importing
    <2>3. coll \in 1 .. lives
      BY <1>1 DEF DocInv
    <2>4. BatchOf(j)'
      BY <1>1, <1>2, <1>3, <1>4, <1>6, <2>3 DEF BatchOf
    <2>5. doc'[j] # NoJob => StoredOf(j)'
      <3> SUFFICES ASSUME doc'[j] = Pending PROVE StoredOf(j)'
        BY <2>1
      <3>1. Cardinality(RowsOf(j)') = 0
        BY <1>1, <1>6, FS_EmptySet
      <3>2. Pending.imported_rows = 0 /\ Pending.progress = 0 /\ Pending.state = "Pending"
        BY DEF Pending
      <3>3. Reported(doc[j], j)'
        BY <3>1, <3>2 DEF Reported
      <3> QED BY <1>2, <3>3 DEF StoredOf
    <2> QED BY <2>2, <2>4, <2>5 DEF DocOf
  <1>10. Advance
    <2> SUFFICES ASSUME NEW i \in Jobs, doc[i] # NoJob PROVE Below(doc[i], doc'[i])
      BY DEF Advance
    <2>1. i # j /\ doc[i] \in Documents
      BY <1>1, <1>7
    <2> QED BY <1>8, <2>1, BelowItself
  <1> QED BY <1>3, <1>5, <1>8, <1>9, <1>10 DEF DocInv

\* What a job writes is no step back, and stored.
LEMMA WritesTell ==
    ASSUME ImportAssumption, IInv, DocInv, JobTypeOK', NEW j \in Jobs,
           \/ Begin(j) \/ Download(j) \/ Parse(j) \/ Count(j) \/ Complete(j)
           \/ Fail(j) \/ FailOutside(j)
    PROVE  DocInv' /\ Advance
  <1> DEFINE D == doc[j]
             J == job[j]
             card == Cardinality(RowsOf(j))
             here == file[j].for = coll
  <1>1. /\ pc[j] \notin {"none", "ended"}
        /\ Ahead(j) /\ BatchOf(j) /\ JobInv(j) /\ (here => StoredOf(j))
        /\ Within(D) /\ Within(J) /\ D \in Documents /\ J \in Documents
    <2>1. pc[j] \notin {"none", "ended"}
      BY DEF Begin, Download, Parse, Count, Complete, Fail, FailOutside
    <2>2. JobInv(j) /\ DocOf(j)
      BY DEF IInv, DocInv
    <2>3. Within(D) /\ Within(J) /\ D \in Documents /\ J \in Documents
      BY <2>1, <2>2 DEF JobInv, Within
    <2> QED BY <2>1, <2>2, <2>3, NoJobAssumption DEF DocOf
  <1>2. card \in Nat /\ file[j].size \in 0 .. MaxRows
    BY RowsAreFinite DEF DocInv, IInv, JobTypeOK
  <1>3. ASSUME NEW d \in Documents, NEW s \in StateNames
        PROVE  /\ [d EXCEPT !.state = s] \in Documents
               /\ [d EXCEPT !.state = s].state = s
               /\ [d EXCEPT !.state = s].imported_rows = d.imported_rows
               /\ [d EXCEPT !.state = s].total_rows = d.total_rows
               /\ [d EXCEPT !.state = s].progress = d.progress
    BY DEF Documents
  <1>4. ASSUME NEW d \in Documents, NEW e \in Documents, NEW s \in StateNames,
               Below(d, e), Rank(s) >= Rank(d.state), Within(e)
        PROVE  Below(d, [e EXCEPT !.state = s]) /\ Within([e EXCEPT !.state = s])
    BY <1>3, <1>4 DEF Below, Within
  <1>5. CASE Begin(j)
    <2>1. PICK where \in {"download", "parse"}, s \in {"Downloading", "Parsing"} :
             /\ Update(j, [D EXCEPT !.state = s], where)
             /\ where = "parse" => s = "Parsing"
      BY <1>5 DEF Begin
    <2> DEFINE d == [D EXCEPT !.state = s]
    <2>2. D = Pending /\ pc[j] = "begin" /\ s \in StateNames
      BY <1>1, <1>5, StatesAre DEF Begin, Ahead
    <2>3. /\ Pending.imported_rows = 0 /\ Pending.progress = 0 /\ Pending.state = "Pending"
          /\ Pending.total_rows = 0
      BY DEF Pending
    <2>4. Rank(s) >= Rank(D.state)
      BY <2>1, <2>2, <2>3, RankIs
    <2>5. Below(D, d) /\ Within(d)
      BY <1>1, <1>4, <2>2, <2>4, BelowItself
    <2>6. d.state = s /\ d.imported_rows = 0 /\ d.total_rows = 0 /\ d.progress = 0
      BY <1>1, <1>3, <2>2, <2>3
    <2> HIDE DEF d
    <2>7. Reported(d, j)
      BY <1>2, <2>1, <2>6 DEF Reported
    <2>8. Update(j, d, where)
      BY <2>1 DEF d
    <2> QED BY <1>1, <2>1, <2>2, <2>5, <2>6, <2>7, <2>8, UpdateTells
  <1>6. CASE Download(j)
    <2> DEFINE d == [J EXCEPT !.state = "Parsing"]
    <2>1. /\ pc[j] = "download" /\ D = J /\ J.total_rows = 0 /\ J.progress = 0
          /\ J.state \in {"Downloading", "Parsing"} /\ Update(j, d, "parse")
      BY <1>1, <1>6 DEF Download, Ahead
    <2>2. "Parsing" \in StateNames /\ Rank("Parsing") >= Rank(D.state)
      BY <2>1, StatesAre, RankIs
    <2>3. Below(D, d) /\ Within(d)
      BY <1>1, <1>4, <2>1, <2>2, BelowItself
    <2>4. d.state = "Parsing" /\ d.imported_rows = D.imported_rows /\ d.total_rows = 0 /\ d.progress = 0
      BY <1>1, <1>3, <2>1, <2>2
    <2> HIDE DEF d
    <2>5. here => Reported(d, j)
      BY <1>1, <2>4 DEF StoredOf, Reported
    <2> QED BY <1>1, <2>1, <2>3, <2>4, <2>5, UpdateTells
  <1>7. CASE Parse(j)
    <2> DEFINE d == [J EXCEPT !.state = "Importing", !.total_rows = file[j].size]
    <2>1. /\ pc[j] = "parse" /\ D = J /\ J.total_rows = 0 /\ J.progress = 0 /\ J.imported_rows = 0
          /\ J.state = "Parsing" /\ Update(j, d, "import")
      BY <1>1, <1>7 DEF Parse, Ahead, JobInv
    <2>2. /\ d.state = "Importing" /\ d.total_rows = file[j].size
          /\ d.imported_rows = 0 /\ d.progress = 0
      BY <1>1, <2>1 DEF Documents
    <2>3. "Importing" \in StateNames
      BY StatesAre
    <2>4. Within(d)
      BY <1>1, <1>2, <2>1, <2>3, Parsed
    <2> HIDE DEF d
    <2>5. Below(D, d)
      BY <1>2, <2>1, <2>2, RankIs DEF Below
    <2>6. card = 0
      BY <1>1, <2>1, FS_EmptySet DEF BatchOf
    <2>7. Reported(d, j)
      BY <2>2, <2>6 DEF Reported
    <2>8. d.progress = Percent(d.imported_rows, d.total_rows)
      <3>1. \A e \in Nat \ {0} : (0 * 100) \div e = 0
        OBVIOUS
      <3>2. (IF d.total_rows > 1 THEN d.total_rows ELSE 1) \in Nat \ {0}
        BY <1>2, <2>2 DEF ImportAssumption
      <3> QED BY <2>2, <3>1, <3>2 DEF Percent
    <2> QED BY <1>1, <2>1, <2>2, <2>4, <2>5, <2>6, <2>7, <2>8, UpdateTells
  <1>8. CASE Count(j)
    <2> DEFINE n == Counted(j)
               p == Percent(n, J.total_rows)
               d == [J EXCEPT !.imported_rows = n, !.progress = p]
    <2>1. /\ pc[j] = "count" /\ D = J /\ J.state = "Importing" /\ J.total_rows = file[j].size
          /\ J.progress = Percent(J.imported_rows, J.total_rows)
          /\ J.imported_rows < J.total_rows /\ Update(j, d, "import")
      BY <1>1, <1>8 DEF Count, Ahead, JobInv, Importing
    <2>2. /\ J.imported_rows \in Nat /\ J.total_rows \in Nat /\ J.total_rows <= MaxRows
      BY <1>1 DEF Documents, ImportAssumption
    <2>3. n \in Nat /\ J.imported_rows <= n /\ n <= J.total_rows /\ n \in 0 .. MaxRows
      BY <2>1, <2>2 DEF Counted, NextChunk, Smaller, ImportAssumption
    <2> HIDE DEF n
    <2>4. p \in 0 .. 100 /\ J.progress <= p /\ (p = 100 => n = J.total_rows)
      <3>1. \A m, total \in Nat :
               m <= n /\ n <= total =>
                   /\ Percent(n, total) \in 0 .. 100
                   /\ Percent(m, total) <= Percent(n, total)
                   /\ Percent(n, total) = 100 => n = total
        <4> SUFFICES ASSUME NEW m \in Nat, NEW total \in Nat, m <= n, n <= total
                     PROVE  /\ Percent(n, total) \in 0 .. 100
                            /\ Percent(m, total) <= Percent(n, total)
                            /\ Percent(n, total) = 100 => n = total
          OBVIOUS
        <4>1. n = total \/ n < total
          BY <2>3
        <4> QED BY <2>3, <4>1, PercentIsPercent, PercentGrows, PercentFull
      <3> QED BY <2>1, <2>2, <2>3, <3>1
    <2>5. Within(d)
      <3> HIDE DEF p
      <3> QED BY <1>1, <2>3, <2>4, CountedRows
    <2>6. /\ d.state = "Importing" /\ d.total_rows = J.total_rows
          /\ d.imported_rows = n /\ d.progress = p
      <3> HIDE DEF p
      <3> QED BY <1>1, <2>1 DEF Documents
    <2> HIDE DEF d
    <2>7. Below(D, d)
      BY <2>1, <2>2, <2>3, <2>4, <2>6, RankIs DEF Below
    <2>8. here => card = n
      BY <1>1, <2>1 DEF StoredOf, n
    <2>9. here => Reported(d, j)
      BY <2>1, <2>3, <2>4, <2>6, <2>8 DEF Reported
    <2> QED BY <1>1, <2>1, <2>5, <2>6, <2>7, <2>8, <2>9, UpdateTells
  <1>9. CASE Complete(j)
    <2> DEFINE d == [J EXCEPT !.state = "Completed", !.progress = 100]
    <2>1. /\ pc[j] = "import" /\ D = J /\ J.state = "Importing" /\ J.total_rows = file[j].size
          /\ J.imported_rows >= J.total_rows /\ Update(j, d, "ended")
      BY <1>1, <1>9 DEF Complete, Ahead, Importing
    <2>2. J.imported_rows = J.total_rows
      BY <1>1, <2>1 DEF Within, Documents
    <2>3. "Completed" \in StateNames
      BY StatesAre
    <2>4. Within(d)
      BY <1>1, <2>3, Completed
    <2>5. /\ d.state = "Completed" /\ d.total_rows = J.total_rows
          /\ d.imported_rows = J.imported_rows /\ d.progress = 100
      BY <1>1 DEF Documents
    <2> HIDE DEF d
    <2>6. Below(D, d)
      BY <1>1, <2>1, <2>5, RankIs DEF Below, Documents
    <2>7. here => Reported(d, j)
      BY <1>1, <2>1, <2>2, <2>5 DEF StoredOf, Reported
    <2> QED BY <1>1, <2>1, <2>4, <2>6, <2>7, UpdateTells
  <1>10. ASSUME NEW e \in Documents, Within(e), Below(D, e), here => Reported(e, j),
                NEW where \in {"outer", "ended"}, Update(j, Failed(e), where)
         PROVE  DocInv' /\ Advance
    <2> DEFINE d == Failed(e)
    <2>1. "Failed" \in StateNames /\ Rank("Failed") >= Rank(D.state)
      BY <1>1, StatesAre, RankIs, RankIsNat DEF Documents
    <2>2. Below(D, d) /\ Within(d)
      BY <1>1, <1>4, <1>10, <2>1 DEF Failed
    <2>3. d.state = "Failed" /\ d.imported_rows = e.imported_rows /\ d.progress = e.progress
      BY <1>3, <1>10, <2>1 DEF Failed
    <2> HIDE DEF d
    <2>4. here => Reported(d, j)
      BY <1>10, <2>3 DEF Reported
    <2>5. Update(j, d, where)
      BY <1>10 DEF d
    <2> QED BY <1>1, <2>2, <2>4, <2>5, UpdateTells
  <1>11. CASE Fail(j)
    <2>1. pc[j] = "failing" /\ Update(j, Failed(J), "outer")
      BY <1>11 DEF Fail
    <2>2. Below(D, J) /\ (here => Reported(J, j))
      BY <1>1, <2>1 DEF Ahead, StoredOf
    <2> QED BY <1>1, <1>10, <2>1, <2>2
  <1>12. CASE FailOutside(j)
    <2>1. Update(j, Failed(D), "ended")
      BY <1>12 DEF FailOutside, Reread
    <2>2. Below(D, D) /\ (here => Reported(D, j))
      BY <1>1, BelowItself DEF StoredOf
    <2> QED BY <1>1, <1>10, <2>1, <2>2
  <1> QED BY <1>5, <1>6, <1>7, <1>8, <1>9, <1>11, <1>12

\* A thread begins a batch: with none of its rows, of the collection there is.
LEMMA StartTells ==
    ASSUME ImportAssumption, IInv, DocInv, NEW t \in Threads, NEW n \in Nat, StartBatch(t, n),
           t \in Jobs => pc[t] = "import" /\ n = NextChunk(t)
    PROVE  DocInv' /\ UNCHANGED doc
  <1>1. UNCHANGED <<doc, job, file, coll, lives, rows, newest>>
    BY DEF StartBatch, jobVars, collVars, keyVars, clockVars
  <1>2. /\ pc'[t] = "convert" /\ left'[t] = n /\ batch'[t] = {} /\ handle'[t] = coll
        /\ \A s \in Threads \ {t} :
              /\ pc'[s] = pc[s] /\ left'[s] = left[s]
              /\ batch'[s] = batch[s] /\ handle'[s] = handle[s]
    BY DEF StartBatch, Goto, IInv, JobTypeOK
  <1>3. Fresh'
    <2>1. \A s \in Threads : batch'[s] \subseteq batch[s]
      BY <1>2
    <2> QED BY <1>1, <2>1, FreshForgets DEF DocInv
  <1>4. \A i \in Jobs : RowsOf(i)' = RowsOf(i) /\ i \in Threads
    BY <1>1 DEF RowsOf, Jobs
  <1>5. ASSUME NEW i \in Jobs PROVE DocOf(i)'
    <2>1. DocOf(i)
      BY DEF DocInv
    <2>2. CASE i # t
      BY <1>1, <1>2, <1>4, <2>1, <2>2, JobUntouched
    <2>3. CASE i = t
      <3>1. /\ pc[t] = "import" /\ n = NextChunk(t) /\ NextChunk(t)' = NextChunk(t)
            /\ Counted(t)' = Counted(t)
        BY <1>1, <2>3 DEF NextChunk, Smaller, Counted
      <3>2. Ahead(t)'
        BY <1>1, <1>2, <2>1, <2>3, <3>1 DEF DocOf, Ahead, Importing
      <3>3. Cardinality(batch'[t]) + left'[t] = n
        BY <1>2, FS_EmptySet
      <3>4. BatchOf(t)'
        BY <1>1, <1>2, <2>1, <2>3, <3>1, <3>3 DEF DocOf, BatchOf
      <3>5. StoredOf(t) => StoredOf(t)'
        BY <1>1, <1>2, <1>4, <2>3, <3>1 DEF StoredOf, Reported
      <3> QED BY <1>1, <2>1, <2>3, <3>2, <3>4, <3>5 DEF DocOf
    <2> QED BY <2>2, <2>3
  <1> QED BY <1>1, <1>3, <1>5 DEF DocInv

\* A row gets a key that is new.
LEMMA ConvertTells ==
    ASSUME ImportAssumption, IInv, DocInv, NEW t \in Threads, Convert(t), Rises, KeyInv'
    PROVE  DocInv' /\ UNCHANGED doc
  <1>1. UNCHANGED <<doc, job, file, pc, handle, coll, lives, rows>> /\ pc[t] = "convert"
    BY DEF Convert, jobVars, collVars
  <1>2. \A i \in Jobs : RowsOf(i)' = RowsOf(i) /\ i \in Threads
    BY <1>1 DEF RowsOf, Jobs
  <1>3. CASE drawn' = drawn
    <2>1. UNCHANGED <<left, batch>> /\ newest' = newest
      BY <1>3 DEF Convert, Draw, DrawFirst, DrawNext, DrawWraps, DrawAfterWait, Issue,
                  IInv, KeyInv, KeysTypeOK
    <2>2. Fresh'
      BY <1>1, <2>1, FreshForgets DEF DocInv
    <2>3. \A i \in Jobs : DocOf(i)'
      BY <1>1, <1>2, <2>1, JobUntouched DEF DocInv
    <2> QED BY <1>1, <2>2, <2>3 DEF DocInv
  <1>4. CASE drawn' # drawn
    <2>1. newest' > newest /\ newest \in Int /\ newest' \in Int
      BY <1>4 DEF Rises, IInv, KeyInv, KeysTypeOK
    <2>2. /\ left'[t] = left[t] - 1 /\ batch'[t] = batch[t] \cup {newest'}
          /\ \A s \in Threads \ {t} : left'[s] = left[s] /\ batch'[s] = batch[s]
      BY <1>4 DEF Convert, IInv, JobTypeOK
    <2>3. /\ IsFiniteSet(batch[t]) /\ \A s \in Threads : \A k \in batch[s] : k \in Nat /\ k <= newest
          /\ \A r \in rows : r[1] \in Nat /\ r[1] <= newest
      BY DEF DocInv, Fresh, IInv, JobTypeOK
    <2>4. /\ \A s \in Threads : newest' \notin batch[s]
          /\ \A r \in rows : r[1] # newest' /\ r[1] <= newest'
      BY <2>1, <2>3
    <2>5. /\ IsFiniteSet(batch'[t]) /\ Cardinality(batch'[t]) = Cardinality(batch[t]) + 1
      <3>1. newest' \notin batch[t]
        BY <2>4
      <3>2. /\ IsFiniteSet(batch[t] \cup {newest'})
            /\ Cardinality(batch[t] \cup {newest'}) = Cardinality(batch[t]) + 1
        BY <2>3, <3>1, FS_AddElement
      <3> QED BY <2>2, <3>2
    <2>6. Fresh'
      <3>1. ASSUME NEW s \in Threads
            PROVE  /\ IsFiniteSet(batch'[s])
                   /\ \A k \in batch'[s] : k <= newest' /\ \A r \in rows : r[1] # k
        <4>1. IsFiniteSet(batch[s]) /\ \A k \in batch[s] : \A r \in rows : r[1] # k
          BY DEF DocInv, Fresh
        <4>2. \A k \in batch[s] : k <= newest'
          BY <2>1, <2>3
        <4>3. CASE s = t
          <5>1. \A k \in batch'[s] : k \in batch[s] \/ k = newest'
            BY <2>2, <4>3
          <5> QED BY <2>1, <2>4, <2>5, <4>1, <4>2, <4>3, <5>1
        <4>4. CASE s # t
          <5>1. batch'[s] = batch[s]
            BY <2>2, <4>4
          <5> QED BY <4>1, <4>2, <5>1
        <4> QED BY <4>3, <4>4
      <3>2. \A s \in Threads : \A u \in Threads \ {s} : batch'[s] \cap batch'[u] = {}
        BY <2>2, <2>4 DEF DocInv, Fresh
      <3> QED BY <1>1, <2>4, <3>1, <3>2 DEF DocInv, Fresh
    <2>7. ASSUME NEW i \in Jobs PROVE DocOf(i)'
      <3>1. DocOf(i)
        BY DEF DocInv
      <3>2. CASE i # t
        BY <1>1, <1>2, <2>2, <3>1, <3>2, JobUntouched
      <3>3. CASE i = t
        <4>1. Ahead(i)'
          BY <1>1, <3>1 DEF DocOf, Ahead
        <4>2. Cardinality(batch'[t]) + left'[t] = Cardinality(batch[t]) + left[t]
          <5>1. Cardinality(batch[t]) \in Nat /\ left[t] \in Int
            BY <2>3, FS_CardinalityType DEF IInv, JobTypeOK
          <5> QED BY <2>2, <2>5, <5>1
        <4>3. NextChunk(i)' = NextChunk(i) /\ Counted(i)' = Counted(i)
          BY <1>1 DEF NextChunk, Smaller, Counted
        <4>4. BatchOf(i)'
          BY <1>1, <1>2, <3>1, <3>3, <4>2, <4>3 DEF DocOf, BatchOf
        <4>5. StoredOf(i) => StoredOf(i)'
          BY <1>1, <1>2, <4>3 DEF StoredOf, Reported
        <4> QED BY <1>1, <3>1, <4>1, <4>4, <4>5 DEF DocOf
      <3> QED BY <3>2, <3>3
    <2> QED BY <1>1, <2>6, <2>7 DEF DocInv
  <1> QED BY <1>3, <1>4

\* The rows that the engine stores for a thread, as its keys are new, and how
\* many they are.
LEMMA AllAreStored ==
    ASSUME Fresh, NEW t \in Threads, NEW keys \in SUBSET batch[t]
    PROVE  /\ Stored(t, keys) = IF handle[t] # coll THEN rows ELSE rows \cup (keys \X {t})
           /\ IsFiniteSet(keys \X {t}) /\ Cardinality(keys \X {t}) = Cardinality(keys)
           /\ IsFiniteSet(keys) /\ Cardinality(keys) \in Nat
           /\ RowsOf(t) \cap (keys \X {t}) = {}
  <1>1. {k \in keys : \A r \in rows : r[1] # k} = keys
    BY DEF Fresh
  <1>2. IsFiniteSet(keys) /\ Cardinality(keys) \in Nat
    BY FS_Subset, FS_CardinalityType DEF Fresh
  <1>3. IsFiniteSet({t}) /\ Cardinality({t}) = 1
    BY FS_Singleton
  <1>4. IsFiniteSet(keys \X {t}) /\ Cardinality(keys \X {t}) = Cardinality(keys) * 1
    BY <1>2, <1>3, FS_Product
  <1>5. RowsOf(t) \cap (keys \X {t}) = {}
    BY DEF RowsOf, Fresh
  <1>6. Stored(t, keys) = IF handle[t] # coll THEN rows ELSE rows \cup (keys \X {t})
    BY <1>1 DEF Stored
  <1>7. Cardinality(keys) * 1 = Cardinality(keys)
    BY <1>2
  <1> QED BY <1>2, <1>4, <1>5, <1>6, <1>7

\* A batch ends with its rows stored, all of them or, when the engine raises, a
\* part; then the job is done with it, or fails.
LEMMA InsertTells ==
    ASSUME ImportAssumption, IInv, DocInv, NEW t \in Threads,
           NEW done, NEW failed, Insert(t, done, failed),
           t \in Jobs => done = "count" /\ failed = "failing"
    PROVE  DocInv' /\ UNCHANGED doc
  <1>1. /\ UNCHANGED <<doc, job, file, coll, lives, newest>>
        /\ pc[t] = "convert" /\ left[t] = 0
    BY DEF Insert, jobVars, keyVars, clockVars
  <1>2. /\ batch'[t] = {}
        /\ \A s \in Threads \ {t} :
              pc'[s] = pc[s] /\ left'[s] = left[s] /\ batch'[s] = batch[s] /\ handle'[s] = handle[s]
    BY DEF Insert, Forget, Goto, IInv, JobTypeOK
  <1>3. PICK keys \in SUBSET batch[t] :
            /\ rows' = Stored(t, keys)
            /\ \/ keys = batch[t] /\ pc'[t] = done
               \/ pc'[t] = failed
    BY DEF Insert, Goto, IInv, JobTypeOK
  <1> DEFINE new == keys \X {t}
  <1>4. /\ rows' = IF handle[t] # coll THEN rows ELSE rows \cup new
        /\ IsFiniteSet(new) /\ Cardinality(new) = Cardinality(keys)
        /\ IsFiniteSet(keys) /\ Cardinality(keys) \in Nat
        /\ RowsOf(t) \cap new = {}
    BY <1>3, AllAreStored DEF DocInv
  <1>5. Fresh'
    <2>1. IsFiniteSet(rows')
      BY <1>4, FS_Union DEF DocInv, Fresh
    <2>2. \A r \in rows' : r \in rows \/ r[1] \in batch[t]
      BY <1>4
    <2>3. \A r \in rows' : r[1] <= newest
      BY <2>2 DEF DocInv, Fresh
    <2>4. ASSUME NEW s \in Threads
          PROVE  /\ IsFiniteSet(batch'[s])
                 /\ \A k \in batch'[s] : k <= newest /\ \A r \in rows' : r[1] # k
      <3>1. CASE s = t
        BY <1>2, <3>1, FS_EmptySet
      <3>2. CASE s # t
        <4>1. batch'[s] = batch[s] /\ batch[s] \cap batch[t] = {}
          BY <1>2, <3>2 DEF DocInv, Fresh
        <4> QED BY <2>2, <4>1 DEF DocInv, Fresh
      <3> QED BY <3>1, <3>2
    <2>5. \A s \in Threads : \A u \in Threads \ {s} : batch'[s] \cap batch'[u] = {}
      BY <1>2 DEF DocInv, Fresh
    <2> QED BY <1>1, <2>1, <2>3, <2>4, <2>5 DEF Fresh
  <1>6. /\ \A i \in Jobs \ {t} : RowsOf(i)' = RowsOf(i)
        /\ RowsOf(t)' = IF handle[t] # coll THEN RowsOf(t) ELSE RowsOf(t) \cup new
    <2>1. \A r \in new : r[2] = t
      OBVIOUS
    <2> HIDE DEF new
    <2> QED BY <1>4, <2>1 DEF RowsOf
  <1>7. ASSUME NEW i \in Jobs PROVE DocOf(i)'
    <2>1. DocOf(i) /\ i \in Threads
      BY DEF DocInv, Jobs
    <2>2. CASE i # t
      BY <1>1, <1>2, <1>6, <2>1, <2>2, JobUntouched
    <2>3. CASE i = t
      <3>1. /\ pc'[t] \in {"count", "failing"}
            /\ pc'[t] = "count" => keys = batch[t]
            /\ doc[t] = job[t] /\ job[t].imported_rows < job[t].total_rows
            /\ job[t].progress = Percent(job[t].imported_rows, job[t].total_rows)
            /\ Within(job[t]) /\ job[t] \in Documents /\ job[t].state = "Importing"
        BY <1>1, <1>3, <2>1, <2>3 DEF DocOf, Ahead, Importing, IInv, JobInv, Within
      <3>2. job[t].imported_rows \in Nat /\ job[t].total_rows \in Nat
        BY <3>1 DEF Documents, ImportAssumption
      <3>3. job[t].progress # 100
        BY <3>1, <3>2, PercentFull
      <3>4. Counted(t)' = Counted(t)
        BY <1>1 DEF Counted, NextChunk, Smaller
      <3>5. Ahead(t)'
        <4>1. Below(doc[t], job[t])
          BY <3>1, BelowItself
        <4> QED BY <1>1, <2>1, <2>3, <3>1, <4>1 DEF DocOf, Ahead, Importing
      <3>6. BatchOf(t)'
        BY <1>1, <2>1, <2>3, <3>1 DEF DocOf, BatchOf
      <3>7. ASSUME doc[t] # NoJob, file[t].for = coll PROVE StoredOf(t)'
        <4>1. /\ StoredOf(t) /\ handle[t] = coll
              /\ Cardinality(RowsOf(t)) = job[t].imported_rows
              /\ Cardinality(batch[t]) + left[t] = NextChunk(t)
          BY <1>1, <2>1, <2>3, <3>7 DEF DocOf, StoredOf, BatchOf
        <4>2. RowsOf(t)' = RowsOf(t) \cup new
          BY <1>6, <4>1
        <4>3. Cardinality(RowsOf(t)') = Cardinality(RowsOf(t)) + Cardinality(keys)
          <5>1. IsFiniteSet(RowsOf(t)) /\ Cardinality(RowsOf(t)) \in Nat
            BY RowsAreFinite DEF DocInv
          <5>2. Cardinality(RowsOf(t) \cup new) = Cardinality(RowsOf(t)) + Cardinality(new) - Cardinality({})
            BY <1>4, <5>1, FS_Union
          <5>3. Cardinality({}) = 0
            BY FS_EmptySet
          <5> HIDE DEF new
          <5> QED BY <1>4, <4>2, <5>1, <5>2, <5>3
        <4>4. doc[t].imported_rows <= Cardinality(RowsOf(t)')
          BY <1>4, <3>1, <3>2, <4>1, <4>3
        <4>5. Reported(doc[t], t)' /\ Reported(job[t], t)'
          BY <1>1, <3>1, <3>3, <4>4 DEF Reported
        <4>6. pc'[t] = "count" => Cardinality(RowsOf(t)') = Counted(t)
          <5>1. Cardinality(batch[t]) \in Nat
            BY FS_CardinalityType DEF DocInv, Fresh
          <5> QED BY <1>1, <3>1, <3>2, <4>1, <4>3, <5>1 DEF Counted
        <4> QED BY <3>1, <3>4, <4>5, <4>6 DEF StoredOf
      <3> QED BY <1>1, <2>3, <3>5, <3>6, <3>7 DEF DocOf
    <2> QED BY <2>2, <2>3
  <1> QED BY <1>1, <1>5, <1>7 DEF DocInv

\* A job that breaks still knows what its document says.
LEMMA BreakTells ==
    ASSUME ImportAssumption, IInv, DocInv, NEW j \in Jobs, Breaks(j) \/ NoCollection(j)
    PROVE  DocInv' /\ UNCHANGED doc
  <1>1. /\ j \in Threads /\ pc[j] \in {"download", "parse", "import", "convert"}
        /\ Raise(j) /\ UNCHANGED <<doc, job, file, coll, lives, rows, newest>>
    BY DEF Breaks, NoCollection, jobVars, collVars, keyVars, clockVars, Jobs
  <1>2. pc'[j] = "failing" /\ \A t \in Threads \ {j} : pc'[t] = pc[t]
    BY <1>1 DEF Raise, Goto, Handler, Body, IInv, JobTypeOK
  <1>3. /\ \A t \in Threads : batch'[t] \subseteq batch[t]
        /\ \A t \in Threads \ {j} : left'[t] = left[t] /\ batch'[t] = batch[t] /\ handle'[t] = handle[t]
    BY DEF Breaks, NoCollection, Forget, batchVars
  <1>4. Fresh'
    BY <1>1, <1>3, FreshForgets DEF DocInv
  <1>5. \A i \in Jobs : RowsOf(i)' = RowsOf(i) /\ i \in Threads
    BY <1>1 DEF RowsOf, Jobs
  <1>6. ASSUME NEW i \in Jobs PROVE DocOf(i)'
    <2>1. DocOf(i)
      BY DEF DocInv
    <2>2. CASE i # j
      BY <1>1, <1>2, <1>3, <1>5, <2>1, <2>2, JobUntouched
    <2>3. CASE i = j
      <3>1. doc[j] = job[j] /\ job[j] \in Documents
        BY <1>1, <2>1, <2>3 DEF DocOf, Ahead, Importing, IInv, JobTypeOK
      <3>2. Ahead(j)'
        BY <1>1, <1>2, <2>1, <2>3, <3>1, BelowItself DEF DocOf, Ahead, Importing
      <3>3. BatchOf(j)'
        BY <1>1, <1>2, <2>1, <2>3 DEF DocOf, BatchOf
      <3>4. StoredOf(j) => StoredOf(j)'
        BY <1>1, <1>2, <1>5, <2>3, <3>1 DEF StoredOf, Reported
      <3> QED BY <1>1, <2>1, <2>3, <3>2, <3>3, <3>4 DEF DocOf
    <2> QED BY <2>2, <2>3
  <1> QED BY <1>1, <1>4, <1>6 DEF DocInv

\* A collection that goes takes the rows with it; the next one has a new number.
LEMMA CollectionTells ==
    ASSUME ImportAssumption, IInv, DocInv, DropCollection \/ CreateCollection
    PROVE  DocInv' /\ UNCHANGED doc
  <1>1. UNCHANGED <<doc, job, file, pc, left, batch, handle, newest>>
    BY DEF DropCollection, CreateCollection, jobVars, batchVars, keyVars, clockVars
  <1>2. /\ coll \in Nat /\ lives \in Nat /\ coll <= lives /\ rows' \subseteq rows
        /\ coll' = 0 \/ coll' = lives + 1
        /\ lives' \in Nat /\ lives <= lives' /\ coll' <= lives'
    BY DEF DropCollection, CreateCollection, IInv, JobTypeOK, ImportAssumption, DocInv
  <1>3. Fresh'
    BY <1>1, <1>2, FreshForgets DEF DocInv
  <1>4. ASSUME NEW i \in Jobs PROVE DocOf(i)'
    <2>1. Ahead(i)' /\ BatchOf(i)
      BY <1>1 DEF DocInv, DocOf, Ahead
    <2>2. doc[i] # NoJob => file[i].for \in 1 .. lives' /\ file[i].for # coll'
      BY <1>2, <2>1 DEF BatchOf
    <2>3. RowsOf(i)' \subseteq RowsOf(i)
      BY <1>2 DEF RowsOf
    <2>4. NextChunk(i)' = NextChunk(i)
      BY <1>1 DEF NextChunk, Smaller
    <2>5. BatchOf(i)'
      BY <1>1, <2>1, <2>2, <2>3, <2>4 DEF BatchOf
    <2> QED BY <1>1, <2>1, <2>2, <2>5 DEF DocOf
  <1> QED BY <1>1, <1>2, <1>3, <1>4 DEF DocInv

\* A crash ends the threads; documents and rows are on disk.
LEMMA CrashTells ==
    ASSUME ImportAssumption, IInv, DocInv, Crash
    PROVE  DocInv' /\ UNCHANGED doc
  <1>1. UNCHANGED <<doc, file, coll, lives, rows, newest>>
    BY DEF Crash, collVars, RestartKeys
  <1>2. /\ \A i \in Jobs : pc'[i] = IF pc[i] = "none" THEN "none" ELSE "ended"
        /\ \A t \in Threads : batch'[t] = {}
    BY DEF Crash, Forget, Jobs
  <1>3. Fresh'
    BY <1>1, <1>2, FreshForgets DEF DocInv
  <1>4. \A i \in Jobs : RowsOf(i)' = RowsOf(i)
    BY <1>1 DEF RowsOf
  <1>5. ASSUME NEW i \in Jobs PROVE DocOf(i)'
    <2>1. Ahead(i)'
      BY <1>1, <1>2 DEF DocInv, DocOf, Ahead, Importing
    <2>2. BatchOf(i)'
      BY <1>1, <1>2, <1>4 DEF DocInv, DocOf, BatchOf
    <2>3. StoredOf(i) => StoredOf(i)'
      BY <1>1, <1>2, <1>4 DEF StoredOf, Reported
    <2> QED BY <1>1, <2>1, <2>2, <2>3 DEF DocInv, DocOf
  <1> QED BY <1>1, <1>3, <1>5 DEF DocInv

LEMMA DocsStep ==
    ASSUME ImportAssumption, IInv, DocInv, [Next]_vars, IInv'
    PROVE  DocInv' /\ [Advance]_doc
  <1>1. KeyInv' /\ Rises /\ JobTypeOK'
    BY SnowflakeAssumption, StepsDraw, KeysStep DEF IInv
  <1>2. Main \in Threads /\ Main \notin Jobs /\ \A j \in Jobs : j \in Threads
    BY DEF ImportAssumption, Jobs
  <1>3. ASSUME NEW j \in Jobs, JobStep(j) PROVE DocInv' /\ [Advance]_doc
    <2>1. CASE NextBatch(j)
      <3>1. /\ pc[j] = "import" /\ StartBatch(j, NextChunk(j))
            /\ job[j].imported_rows < job[j].total_rows /\ job[j] \in Documents
        BY <2>1 DEF NextBatch, IInv, JobTypeOK
      <3>2. NextChunk(j) \in Nat
        BY <3>1 DEF NextChunk, Smaller, Documents, ImportAssumption
      <3> QED BY <1>2, <3>1, <3>2, StartTells
    <2>2. CASE Convert(j)
      BY <1>1, <1>2, <2>2, ConvertTells
    <2>3. CASE Insert(j, "count", "failing")
      BY <1>2, <2>3, InsertTells
    <2>4. CASE NoCollection(j)
      BY <2>4, BreakTells
    <2> QED BY <1>1, <1>3, <2>1, <2>2, <2>3, <2>4, WritesTell DEF JobStep
  <1>4. CASE ClientInserts
    <2>1. StartBatch(Main, 1) /\ 1 \in Nat
      BY <1>4 DEF ClientInserts
    <2> QED BY <1>2, <2>1, StartTells
  <1>5. CASE LoopStep
    <2>1. CASE Convert(Main)
      BY <1>1, <1>2, <2>1, ConvertTells
    <2>2. CASE Insert(Main, "none", "none")
      BY <1>2, <2>2, InsertTells
    <2> QED BY <1>5, <2>1, <2>2 DEF LoopStep
  <1>6. CASE TimePasses \/ UNCHANGED vars
    <2>1. UNCHANGED <<doc, job, file, pc, left, batch, handle, coll, lives, rows, newest>>
      BY <1>6 DEF TimePasses, Tick, vars, keyVars, clockVars, jobVars, batchVars, collVars
    <2>2. Fresh'
      BY <2>1, FreshForgets DEF DocInv
    <2>3. ASSUME NEW i \in Jobs PROVE DocOf(i)'
      <3>1. RowsOf(i)' = RowsOf(i) /\ DocOf(i)
        BY <2>1 DEF RowsOf, DocInv
      <3> QED BY <2>1, <3>1, JobUntouched
    <2> QED BY <2>1, <2>2, <2>3 DEF DocInv
  <1> QED BY <1>3, <1>4, <1>5, <1>6, CreateTells, BreakTells, CollectionTells, CrashTells DEF Next

\* The document of a job never goes back, in state or in number, for any number
\* of jobs, any sizes, and whatever fails: also a thread that cannot write its
\* document keeps it behind what it knows, and the last handler writes what the
\* catalog says (_run_job, _run_job_async).
THEOREM DocumentsAdvance == Spec => JobNeverGoesBack
  <1>1. Init => IInv /\ DocInv
    BY ImportAssumption, JobsInit, DocsInit
  <1>2. IInv /\ DocInv /\ [Next]_vars => IInv' /\ DocInv' /\ [Advance]_doc
    BY ImportAssumption, JobsStep, DocsStep
  <1>3. Advance => \A j \in Jobs : doc[j] # NoJob =>
                       /\ Rank(doc'[j].state) >= Rank(doc[j].state)
                       /\ doc'[j].imported_rows >= doc[j].imported_rows
                       /\ doc'[j].total_rows >= doc[j].total_rows
                       /\ doc'[j].progress >= doc[j].progress
    BY DEF Advance, Below
  <1> QED BY <1>1, <1>2, <1>3, PTL DEF Spec, JobNeverGoesBack

\* What a job reports as imported is in the collection it was created for, and
\* a completed job has imported every row of its files once, for any number of
\* jobs beside the inserts of clients, and whatever fails (_run_job_async,
\* generate_auto_id).
THEOREM ReportsAreTrue == Spec => []ImportedRowsAreStored
  <1>1. Init => IInv /\ DocInv
    BY ImportAssumption, JobsInit, DocsInit
  <1>2. IInv /\ DocInv /\ [Next]_vars => IInv' /\ DocInv'
    BY ImportAssumption, JobsStep, DocsStep
  <1>3. DocInv => ImportedRowsAreStored
    BY DEF DocInv, DocOf, StoredOf, Reported, ImportedRowsAreStored
  <1> QED BY <1>1, <1>2, <1>3, PTL DEF Spec
=============================================================================
