----------------------------- MODULE EventStore -----------------------------
(***************************************************************************)
(* From an agent's batch to the events table: the ingest handler of module *)
(* Ingest, the Redis stream with one consumer group per worker, the        *)
(* storage writer with its two concurrent flushers, and the ML worker that *)
(* scores the same events (server/oseye/bus/redis_bus.py, bus/factory.py,  *)
(* workers/storage_writer.py, workers/ml_worker.py, storage/models.py,     *)
(* storage/repositories/events.py).                                        *)
(*                                                                         *)
(* The storage writer flushes from its main loop when the batch is full    *)
(* and from a timer task; each flush takes the whole batch out before it   *)
(* awaits the database, so two inserts may be under way while new events   *)
(* arrive.  A failed insert puts its events back in front; the fifth       *)
(* failure in a row sends them to a dead-letter topic.                     *)
(***************************************************************************)
EXTENDS Ingest

CONSTANTS
    Unstorable,     \* events whose row the database refuses
    ReadBatch,      \* read_batch_size
    BatchMax,       \* batch_max_size
    MaxFailures,    \* MAX_FLUSH_FAILURES
    MaxPublished,   \* bound on the messages published
    MaxDbErrors,    \* bound on the failing inserts
    MaxFaults       \* bound on crashes, lost replies, failed publications and acknowledgements

ASSUME EventStoreAssumption ==
    /\ ReadBatch \in Nat \ {0} /\ BatchMax \in Nat \ {0} /\ MaxFailures \in Nat \ {0}
    /\ MaxPublished \in Nat /\ MaxDbErrors \in Nat /\ MaxFaults \in Nat

Groups   == {"storage", "ml"}     \* create_worker_bus: a group per worker
Flushers == {"main", "timer"}

VARIABLES
    stream,     \* the stream events:normalized
    cursor,     \* last entry delivered to each group
    pending,    \* entries delivered to each group and not acknowledged
    inbox,      \* entries each worker has read and not been given yet
    batch,      \* StorageWriter._batch
    flight,     \* the batch each flusher has taken out
    dropping,   \* flushers that are publishing to the dead-letter topic
    failures,   \* _consecutive_failures
    running,    \* is the storage writer running
    table,      \* the events table
    scored,     \* rows with an ml_score
    mlDone,     \* events the ML worker has finished with
    dead,       \* events named in the dead-letter topic
    lost,       \* ghost: stream entries or events a crash or a cancellation took
    dbErrors, faults

busVars    == <<stream, cursor, pending, inbox>>
writerVars == <<batch, flight, dropping, failures, running, table, dead, lost, dbErrors>>
mlVars     == <<scored, mlDone>>
vars == <<ingestVars, busVars, writerVars, mlVars, faults>>

NoFlight == <<>>
Fault == faults < MaxFaults /\ faults' = faults + 1

Init ==
    /\ IngestInit
    /\ stream = <<>>
    /\ cursor  = [g \in Groups |-> 0]
    /\ pending = [g \in Groups |-> {}]
    /\ inbox   = [g \in Groups |-> <<>>]
    /\ batch = <<>> /\ flight = [f \in Flushers |-> NoFlight]
    /\ dropping = {} /\ failures = 0 /\ running = TRUE
    /\ table = {} /\ dead = {} /\ lost = {}
    /\ scored = {} /\ mlDone = {}
    /\ dbErrors = 0 /\ faults = 0

-----------------------------------------------------------------------------
(* RedisEventBus.                                                          *)

\* An agent calls IngestEvents, with a new batch or one it sends again.
Receive(cn, request) ==
    /\ running
    /\ Len(stream) + Len(FlattenSeq(jobs)) + Len(request) <= MaxPublished
    /\ IngestEvents(cn, request)
    /\ UNCHANGED faults
    /\ UNCHANGED busVars /\ UNCHANGED writerVars /\ UNCHANGED mlVars

\* publish_batch: one XADD per event, in one pipeline.
PublishBatch(k) ==
    /\ running
    /\ stream' = stream \o jobs[k]
    /\ jobs' = RemoveAt(jobs, k)
    /\ UNCHANGED <<cursor, pending, inbox, faults, keyed, accepted>>
    /\ UNCHANGED writerVars /\ UNCHANGED mlVars

\* The pipeline breaks after n events: the error is logged, and the agent has
\* its response.
PublishFails(k, n) ==
    /\ running /\ Fault
    /\ stream' = stream \o SubSeq(jobs[k], 1, n)
    /\ lost' = lost \cup ToSet(SubSeq(jobs[k], n + 1, Len(jobs[k])))
    /\ jobs' = RemoveAt(jobs, k)
    /\ UNCHANGED <<cursor, pending, inbox, keyed, accepted>>
    /\ UNCHANGED <<batch, flight, dropping, failures, running, table, dead, dbErrors>>
    /\ UNCHANGED mlVars

Ready(g) == inbox[g] = <<>> /\ cursor[g] < Len(stream)

\* XREADGROUP with ">": the next entries, which become pending for the group.
Take(g) ==
    LET upTo == IF cursor[g] + ReadBatch < Len(stream) THEN cursor[g] + ReadBatch ELSE Len(stream)
    IN  /\ cursor'  = [cursor EXCEPT ![g] = upTo]
        /\ pending' = [pending EXCEPT ![g] = @ \cup (cursor[g] + 1 .. upTo)]

Read(g) ==
    /\ running /\ Ready(g)
    /\ Take(g)
    /\ inbox' = [inbox EXCEPT ![g] = [i \in 1 .. cursor'[g] - cursor[g] |-> cursor[g] + i]]
    /\ UNCHANGED <<stream, faults>> /\ UNCHANGED writerVars /\ UNCHANGED mlVars /\ UNCHANGED ingestVars

\* The connection breaks before the reply arrives: the entries are pending
\* for a consumer that never asks for them again.
ReplyLost(g) ==
    /\ running /\ Ready(g) /\ Fault
    /\ Take(g)
    /\ lost' = lost \cup (IF g = "storage" THEN cursor[g] + 1 .. cursor'[g] ELSE {})
    /\ UNCHANGED <<stream, inbox>> /\ UNCHANGED mlVars /\ UNCHANGED ingestVars
    /\ UNCHANGED <<batch, flight, dropping, failures, running, table, dead, dbErrors>>

\* After the last entry of a read has been handed out the whole read is
\* acknowledged; a failed XACK is only logged.
Handed(g, acked) ==
    /\ inbox' = [inbox EXCEPT ![g] = Tail(@)]
    /\ pending' = [pending EXCEPT ![g] = IF Len(inbox[g]) = 1 /\ acked THEN {} ELSE @]
    /\ IF acked THEN UNCHANGED faults ELSE Len(inbox[g]) = 1 /\ Fault

-----------------------------------------------------------------------------
(* StorageWriter.                                                          *)

\* One message of the loop in run: it joins the batch, and a full batch is
\* flushed before the next message is read.
Consume(acked) ==
    /\ running /\ inbox["storage"] # <<>> /\ flight["main"] = NoFlight
    /\ Handed("storage", acked)
    /\ LET grown == Append(batch, stream[Head(inbox["storage"])]) IN
       IF Len(grown) >= BatchMax
       THEN batch' = <<>> /\ flight' = [flight EXCEPT !["main"] = grown]
       ELSE batch' = grown /\ UNCHANGED flight
    /\ UNCHANGED <<stream, cursor, dropping, failures, running, table, dead, lost, dbErrors>>
    /\ UNCHANGED mlVars /\ UNCHANGED ingestVars

\* Mutant of TimerFlush: the timer waits for a full batch too
TimerFlushFull ==
    /\ running /\ flight["timer"] = NoFlight /\ Len(batch) >= BatchMax
    /\ flight' = [flight EXCEPT !["timer"] = batch]
    /\ batch' = <<>>
    /\ UNCHANGED <<dropping, failures, running, table, dead, lost, dbErrors, faults>>
    /\ UNCHANGED busVars /\ UNCHANGED mlVars /\ UNCHANGED ingestVars

\* _timer_flush: the timer task starts a flush.
TimerFlush ==
    /\ running /\ flight["timer"] = NoFlight /\ batch # <<>>
    /\ flight' = [flight EXCEPT !["timer"] = batch]
    /\ batch' = <<>>
    /\ UNCHANGED <<dropping, failures, running, table, dead, lost, dbErrors, faults>>
    /\ UNCHANGED busVars /\ UNCHANGED mlVars /\ UNCHANGED ingestVars

\* The row of an event, and whether the columns of the table take it: a value
\* that is too long or out of range makes the statement fail.
Storable(e) == e \notin Unstorable

\* _event_to_dict: the rows of a batch, where an event that came twice is one
\* row, since event_id is the key.
Rows(taken) == ToSet(taken)

\* insert_batch: one transaction, rows already there are skipped.
InsertBatch(taken) ==
    /\ \A e \in Rows(taken) : Storable(e)
    /\ table' = table \cup Rows(taken)

FlushDone(f) ==
    /\ flight[f] # NoFlight /\ f \notin dropping
    /\ InsertBatch(flight[f])
    /\ failures' = 0
    /\ flight' = [flight EXCEPT ![f] = NoFlight]
    /\ UNCHANGED <<batch, dropping, running, dead, lost, dbErrors, faults>>
    /\ UNCHANGED busVars /\ UNCHANGED mlVars /\ UNCHANGED ingestVars

\* Mutant of Requeued: what arrived during the insert is overwritten
RequeuedOver(taken) == taken

Requeued(taken) == taken \o batch

GiveUp == failures + 1 >= MaxFailures

\* The insert raises, because the database fails or because it refuses a row:
\* the events go back in front of the batch, or, at the
\* limit, are on their way to the dead-letter topic.
FlushFails(f) ==
    /\ flight[f] # NoFlight /\ f \notin dropping
    /\ \/ dbErrors < MaxDbErrors /\ dbErrors' = dbErrors + 1
       \/ (\E e \in ToSet(flight[f]) : ~ Storable(e)) /\ UNCHANGED dbErrors
    /\ failures' = failures + 1
    /\ IF GiveUp
       THEN dropping' = dropping \cup {f} /\ UNCHANGED <<batch, flight>>
       ELSE /\ batch' = Requeued(flight[f])
            /\ flight' = [flight EXCEPT ![f] = NoFlight]
            /\ UNCHANGED dropping
    /\ UNCHANGED <<running, table, dead, lost, faults>>
    /\ UNCHANGED busVars /\ UNCHANGED mlVars /\ UNCHANGED ingestVars

\* The publication to the dead-letter topic ends; a failure is only logged.
DeadLetter(f, published) ==
    /\ f \in dropping
    /\ IF published
       THEN dead' = dead \cup ToSet(flight[f]) /\ UNCHANGED <<lost, faults>>
       ELSE Fault /\ lost' = lost \cup ToSet(flight[f]) /\ UNCHANGED dead
    /\ failures' = 0
    /\ flight' = [flight EXCEPT ![f] = NoFlight]
    /\ dropping' = dropping \ {f}
    /\ UNCHANGED <<batch, running, table, dbErrors>>
    /\ UNCHANGED busVars /\ UNCHANGED mlVars /\ UNCHANGED ingestVars

InFlight == UNION {ToSet(flight[f]) : f \in Flushers}
Unread   == ToSet(inbox["storage"])
Scheduled == UNION {ToSet(jobs[k]) : k \in DOMAIN jobs}

\* What the end of the process clears: all that was in memory.
MemoryGone ==
    /\ running' = FALSE
    /\ batch' = <<>> /\ flight' = [f \in Flushers |-> NoFlight] /\ dropping' = {}
    /\ inbox' = [g \in Groups |-> <<>>]
    /\ jobs' = <<>>
    /\ UNCHANGED <<stream, cursor, pending, failures, dead, dbErrors>>
    /\ UNCHANGED <<keyed, accepted>>
    /\ UNCHANGED mlVars

\* The task is cancelled at shutdown: an insert under way is cancelled with
\* it, whether or not its transaction got through, and what is left in the
\* batch is flushed once more; if that fails nobody tries again.
Stop(committed, flushed) ==
    /\ running /\ Fault
    /\ LET stored == (IF committed THEN InFlight ELSE {}) \cup (IF flushed THEN ToSet(batch) ELSE {})
       IN  /\ table' = table \cup stored
           /\ lost'  = lost \cup ((InFlight \cup ToSet(batch)) \ stored) \cup Unread \cup Scheduled
    /\ MemoryGone

\* The process dies.
Crash ==
    /\ running /\ Fault
    /\ lost' = lost \cup InFlight \cup ToSet(batch) \cup Unread \cup Scheduled
    /\ UNCHANGED table
    /\ MemoryGone

\* A new process joins the groups under a new consumer name: it reads on from
\* the cursor, and what is pending for the old name stays pending.  The key
\* files are read again.
Restart ==
    /\ ~ running
    /\ running' = TRUE /\ failures' = 0
    /\ \E dir \in KeyDirs : LoadKeys(dir)
    /\ UNCHANGED <<batch, flight, dropping, table, dead, lost, dbErrors, faults>>
    /\ UNCHANGED <<jobs, accepted>>
    /\ UNCHANGED busVars /\ UNCHANGED mlVars

-----------------------------------------------------------------------------

\* update_ml_score changes nothing when the row is not there yet.
UpdateMlScore(e) == scored' = IF e \in table THEN scored \cup {e} ELSE scored

\* MLWorker._process: score, publish, and store the score.
Score(acked) ==
    /\ running /\ inbox["ml"] # <<>>
    /\ Handed("ml", acked)
    /\ LET e == stream[Head(inbox["ml"])] IN
       /\ mlDone' = mlDone \cup {e}
       /\ UpdateMlScore(e)
    /\ UNCHANGED <<stream, cursor>> /\ UNCHANGED writerVars /\ UNCHANGED ingestVars

Next ==
    \/ \E cn \in Agents, b \in Batches : Receive(cn, b)
    \/ \E k \in DOMAIN jobs : PublishBatch(k) \/ \E n \in 0 .. Len(jobs[k]) - 1 : PublishFails(k, n)
    \/ \E g \in Groups : Read(g) \/ ReplyLost(g)
    \/ \E acked \in BOOLEAN : Consume(acked) \/ Score(acked)
    \/ TimerFlush
    \/ \E f \in Flushers : FlushDone(f) \/ FlushFails(f)
    \/ \E f \in Flushers, published \in BOOLEAN : DeadLetter(f, published)
    \/ \E committed, flushed \in BOOLEAN : Stop(committed, flushed)
    \/ Crash
    \/ Restart

\* The loops of the workers keep going: the worker reads what is there, the
\* timer fires, and a database call comes to an end.
Fairness ==
    /\ WF_vars(Restart)
    /\ WF_vars(jobs # <<>> /\ PublishBatch(1))
    /\ WF_vars(Read("storage"))
    /\ WF_vars(\E acked \in BOOLEAN : Consume(acked))
    /\ WF_vars(TimerFlush)
    /\ \A f \in Flushers : WF_vars(FlushDone(f) \/ FlushFails(f) \/ \E ok \in BOOLEAN : DeadLetter(f, ok))

Spec == Init /\ [][Next]_vars /\ Fairness

-----------------------------------------------------------------------------

\* Entries of the stream the storage writer has been given.
Given == 1 .. cursor["storage"] - Len(inbox["storage"])

\* No event disappears between the agent and the table: whatever inserts fail
\* and however the two flushers overlap, an event of a batch that was answered
\* and that the validator let through is being published, in the stream,
\* stored, waiting, being inserted or in the dead-letter topic, unless it was
\* in memory when the process died or the task was cancelled, or a
\* publication or a reply failed.  And nothing is stored that was not let
\* through.
NoEventLost ==
    /\ accepted \subseteq
          Scheduled \cup {stream[i] : i \in DOMAIN stream} \cup lost
    /\ \A i \in Given :
          \/ stream[i] \in table \cup ToSet(batch) \cup InFlight \cup dead
          \/ stream[i] \in lost \/ i \in lost
    /\ table \cup dead \subseteq accepted \ (Incomplete \cup Malformed \cup Health)

Stored(e) ==
    \/ e \in table \cup dead \cup lost
    \/ \E i \in lost \cap DOMAIN stream : stream[i] = e

\* Every event let through is stored in the end, or named in the dead-letter
\* topic, or was lost to a fault: nothing waits for ever in a batch that no
\* new message comes to flush, or behind an event the database refuses.
EventuallyStored ==
    \A e \in UNION {ToSet(b) : b \in Batches} : e \in accepted ~> Stored(e)

\* What the docstring of validate promises, "Verify request.batch_signature
\* over BLAKE3(hash_chain[0] || ... || hash_chain[N-1])": of a batch an agent
\* signed only the incomplete events are rejected, with a key or without.
SignedBatchesAccepted ==
    \A cn \in Agents, b \in Batches :
        Len(b) <= MaxBatch => RejectedIndices(cn, b) = {i \in DOMAIN b : b[i] \in Incomplete}

\* What ml_worker.py says of update_ml_score, "Persist ml_score in EventRow
\* so it's queryable via the API": an event that was scored and is stored
\* has its score in its row.
ScorePersisted ==
    \A e \in accepted : e \in mlDone /\ e \in table => e \in scored

=============================================================================
