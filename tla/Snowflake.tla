----------------------------- MODULE Snowflake -----------------------------
(***************************************************************************)
(* The generator of automatic keys: milliseconds, worker and a sequence    *)
(* number, packed into one integer.  Threads share it under a lock; who    *)
(* finds the sequence exhausted keeps the lock until the clock moves.      *)
(***************************************************************************)
EXTENDS Integers

CONSTANTS Threads,     \* threads of the writer that generate keys
          Nobody,      \* no thread waits for the clock
          SeqSize,     \* sequence numbers in a millisecond (2^12)
          WorkerSize,  \* worker ids (2^10)
          Worker,      \* this writer's id
          TsSize,      \* milliseconds that a key can tell apart (2^41)
          Epoch,       \* the millisecond that keys count from
          Start        \* the millisecond the first writer starts in

ASSUME SnowflakeAssumption ==
    /\ Nobody \notin Threads
    /\ SeqSize \in Nat \ {0} /\ WorkerSize \in Nat \ {0} /\ TsSize \in Nat \ {0}
    /\ Worker \in 0 .. WorkerSize - 1
    /\ Epoch \in Nat /\ Start \in Nat \ {0}
    /\ Epoch <= Start /\ Start < Epoch + TsSize

VARIABLES
    now,       \* time.time() in milliseconds; it does not step back
    last,      \* _last_ms
    seq,       \* _seq
    spinner,   \* the thread that waits, with the lock, for the next millisecond
    newest,    \* history: the latest key
    drawn      \* history: the number of keys so far

clockVars == <<last, seq, spinner, newest, drawn>>
keyVars   == <<now, clockVars>>

Horizon == Epoch + TsSize - 1

KeysTypeOK ==
    /\ now \in Start .. Horizon
    /\ last \in {0} \cup (Start .. Horizon)
    /\ seq \in 0 .. SeqSize - 1
    /\ spinner \in Threads \cup {Nobody}
    /\ newest \in Nat \cup {-1} /\ drawn \in Nat

KeysInit ==
    /\ now = Start /\ last = 0 /\ seq = 0
    /\ spinner = Nobody /\ newest = -1 /\ drawn = 0

\* (ts << 22) | (worker << 12) | seq
Key(ms, s) == (((ms - Epoch) % TsSize) * WorkerSize + Worker) * SeqSize + s

NextSeq(s) == (s + 1) % SeqSize

Issue(ms, s) == last' = ms /\ newest' = Key(ms, s) /\ drawn' = drawn + 1

\* Time passes; a new key is possible only up to the horizon.
Tick == now < Horizon /\ now' = now + 1 /\ UNCHANGED clockVars

\* A thread takes the lock and reads the clock: another millisecond ...
DrawFirst(t) ==
    /\ spinner = Nobody /\ now # last
    /\ seq' = 0 /\ Issue(now, 0)
    /\ UNCHANGED <<now, spinner>>

\* ... the same one ...
DrawNext(t) ==
    /\ spinner = Nobody /\ now = last
    /\ seq' = NextSeq(seq) /\ seq' # 0
    /\ Issue(now, seq')
    /\ UNCHANGED <<now, spinner>>

\* ... or the same one, without a number left: it waits.
DrawWraps_NoWait(t) ==                      \* mutant: starts over at once
    /\ spinner = Nobody /\ now = last
    /\ seq' = NextSeq(seq) /\ seq' = 0
    /\ Issue(now, 0)
    /\ UNCHANGED <<now, spinner>>
DrawWraps(t) ==
    /\ spinner = Nobody /\ now = last
    /\ seq' = NextSeq(seq) /\ seq' = 0
    /\ spinner' = t
    /\ UNCHANGED <<now, last, newest, drawn>>

DrawAfterWait(t) ==
    /\ spinner = t /\ now > last
    /\ spinner' = Nobody /\ Issue(now, seq)
    /\ UNCHANGED <<now, seq>>

Draw(t) == DrawFirst(t) \/ DrawNext(t) \/ DrawWraps(t) \/ DrawAfterWait(t)

\* The writer dies and starts anew, which takes longer than a millisecond.
RestartKeys ==
    /\ now < Horizon /\ now' = now + 1
    /\ last' = 0 /\ seq' = 0 /\ spinner' = Nobody
    /\ UNCHANGED <<newest, drawn>>

KeysNext == Tick \/ (\E t \in Threads : Draw(t)) \/ RestartKeys

KeysSpec == KeysInit /\ [][KeysNext]_keyVars

\* Every key is larger than all keys before it, those of other threads and of
\* earlier writers included: keys are unique, and sorted by age
\* (Snowflake.next_id).
KeysIncrease == [][drawn' # drawn => newest' > newest]_<<drawn, newest>>
=============================================================================
