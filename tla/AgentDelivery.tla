--------------------------- MODULE AgentDelivery ---------------------------
(***************************************************************************)
(* The path of an event through the Linux agent: the batcher goroutine     *)
(* (transport.Batcher.Run), sendBatch, the SQLite buffer, the retrying     *)
(* GRPCClient.SendBatch, the drain at shutdown, process crashes and        *)
(* restarts, and as much of the server as the agent can observe: a request *)
(* is handled, is lost, or is handled after the agent stopped waiting.     *)
(*                                                                         *)
(* Events are numbered in the order the fanout goroutine forwards them.    *)
(* The channel and the batch are FIFO and only sendBatch inserts rows, so  *)
(* the AUTOINCREMENT row ids are ordered like the event numbers: a buffer  *)
(* row is identified with the number of its event.                         *)
(***************************************************************************)
EXTENDS Naturals, FiniteSets

CONSTANTS
    MaxEvents,   \* bound: events the collectors produce
    BatchSize,   \* Batcher.maxSize
    MaxRows,     \* maxBufferRows
    Page,        \* rows a drain iteration replays (500 in drainBuffer)
    MaxRetries,  \* maxRetries of SendBatch
    MaxSends,    \* bound: streams opened over the whole behaviour
    MaxStarts,   \* bound: times the process is started
    MaxFaults,   \* bound: crashes, SQLite errors and unreadable rows
    Unmappable   \* events without a raw payload, or that Map/Marshal refuses

ASSUME ConstantsAssumption ==
    /\ MaxEvents \in Nat /\ BatchSize \in Nat \ {0} /\ MaxRows \in Nat
    /\ Page \in Nat \ {0} /\ MaxRetries \in Nat \ {0} /\ MaxSends \in Nat
    /\ MaxStarts \in Nat /\ MaxFaults \in Nat
    /\ BatchSize < MaxRows        \* maxBatchCap = 10000 < maxBufferRows = 100000
    /\ Unmappable \subseteq 1..MaxEvents

Event == 1..MaxEvents

VARIABLES
    pc,         \* where the agent process is
    client,     \* the gRPC client was created (client != nil)
    stopping,   \* ctx has been cancelled
    final,      \* the batcher returns once the current flush is over
    produced,   \* number of events forwarded to batcherCh so far
    taken,      \* number of events the batcher has received from batcherCh
    batch,      \* Batcher.Run's pending batch
    out,        \* events of the SendBatch call in progress
    tries,      \* attempts made by that call
    rows,       \* rows of the SQLite table
    lastAck,    \* drainBuffer's lastAckID
    page,       \* rows replayed by the drain iteration in progress
    sends,      \* number of streams opened so far; the newest is the live one
    net,        \* requests sent and neither handled nor lost
    reply,      \* the reply to the live request has been sent by the server
    starts, faults,
    \* History of what happened to the events; no step reads it.
    stored,     \* events ever committed to the buffer
    evicted,    \* rows deleted by the cap of Push
    unreadable, \* rows whose payload did not unmarshal in the drain
    received,   \* events IngestEvents has handled at least once
    twice,      \* events IngestEvents has handled more than once
    disturbed   \* a send of unknown outcome, a failed delete, or a batch
                \* pushed on top of a backlog (see ExactlyOnceUndisturbed)

procVars  == <<pc, client, stopping, final>>
batchVars == <<produced, taken, batch>>
sendVars  == <<out, tries>>
drainVars == <<lastAck, page>>
netVars   == <<sends, net, reply>>
bounds    == <<starts, faults>>
history   == <<stored, evicted, unreadable, received, twice, disturbed>>
vars == <<pc, client, stopping, final, produced, taken, batch, out, tries, rows,
          lastAck, page, sends, net, reply, starts, faults,
          stored, evicted, unreadable, received, twice, disturbed>>

PcValues == {"down", "select", "push", "evict", "attempt", "await", "pop",
             "replay", "drainattempt", "drainawait", "ack", "stopped"}
Request  == [n : 1..MaxSends, events : SUBSET Event]

TypeOK ==
    /\ pc \in PcValues
    /\ client \in BOOLEAN /\ stopping \in BOOLEAN /\ final \in BOOLEAN
    /\ produced \in 0..MaxEvents /\ taken \in 0..produced
    /\ batch \subseteq Event /\ out \subseteq Event /\ tries \in 0..MaxRetries
    /\ rows \subseteq Event /\ lastAck \in 0..MaxEvents /\ page \subseteq Event
    /\ sends \in 0..MaxSends /\ net \subseteq Request /\ reply \in BOOLEAN
    /\ starts \in 0..MaxStarts /\ faults \in 0..MaxFaults
    /\ stored \subseteq Event /\ evicted \subseteq Event
    /\ unreadable \subseteq Event /\ received \subseteq Event
    /\ twice \subseteq Event /\ disturbed \in BOOLEAN

-----------------------------------------------------------------------------
(* The buffer's SQL statements, on the set of row ids.                     *)

\* SELECT ... ORDER BY id ASC LIMIT n
Oldest(S, n) == {i \in S : Cardinality({j \in S : j < i}) < n}

\* Mutant of DeleteThrough: WHERE id < m
DeleteBelow(S, ids) == {r \in S : ~ \E i \in ids : r < i}

\* DELETE ... WHERE id <= m for the greatest m of ids; nothing when ids is empty
DeleteThrough(S, ids) == {r \in S : \A i \in ids : i < r}

\* SELECT id ... ORDER BY id DESC LIMIT 1 OFFSET maxBufferRows-1, at most one row
EvictionPoint(S) == {i \in S : Cardinality({j \in S : j > i}) = MaxRows - 1}

\* Push's cap: the selected row and everything older goes
AfterEviction(S) == DeleteThrough(S, EvictionPoint(S))

-----------------------------------------------------------------------------
Init ==
    /\ pc = "down" /\ client = FALSE /\ stopping = FALSE /\ final = FALSE
    /\ produced = 0 /\ taken = 0 /\ batch = {}
    /\ out = {} /\ tries = 0 /\ rows = {} /\ lastAck = 0 /\ page = {}
    /\ sends = 0 /\ net = {} /\ reply = FALSE /\ starts = 0 /\ faults = 0
    /\ stored = {} /\ evicted = {} /\ unreadable = {}
    /\ received = {} /\ twice = {} /\ disturbed = FALSE

Fault == faults < MaxFaults /\ faults' = faults + 1

(* main() opens the buffer and starts the goroutines; the client is nil    *)
(* when gRPC initialisation fails ("buffer-only mode").                    *)
Start ==
    /\ pc \in {"down", "stopped"} /\ starts < MaxStarts
    /\ starts' = starts + 1
    /\ pc' = "select" /\ client' \in BOOLEAN
    /\ stopping' = FALSE /\ final' = FALSE
    /\ taken' = produced   \* a new batcherCh: what the old one held is gone
    /\ batch' = {} /\ out' = {} /\ tries' = 0 /\ lastAck' = 0 /\ page' = {}
    /\ reply' = FALSE
    /\ UNCHANGED <<produced, rows, sends, net, faults, history>>

(* SIGTERM: ctx is cancelled.                                              *)
Shutdown ==
    /\ pc \notin {"down", "stopped"} /\ ~stopping
    /\ stopping' = TRUE
    /\ UNCHANGED <<pc, client, final, batchVars, sendVars, rows, drainVars,
                   netVars, bounds, history>>

(* The fanout goroutine forwards one event into batcherCh.                 *)
Forward ==
    /\ pc \notin {"down", "stopped"} /\ ~stopping /\ produced < MaxEvents
    /\ produced' = produced + 1
    /\ UNCHANGED <<procVars, taken, batch, sendVars, rows, drainVars, netVars,
                   bounds, history>>

(* sendFn(toSend): events that cannot be mapped are skipped, a batch with  *)
(* none left returns at once.                                              *)
Flush(toSend, last) ==
    LET pbEvents == toSend \ Unmappable IN
    /\ batch' = {} /\ final' = last
    /\ out' = pbEvents /\ tries' = 0
    /\ pc' = IF pbEvents # {} THEN "push"
             ELSE IF ~last THEN "select"
             ELSE IF client THEN "replay" ELSE "stopped"

(* case ev := <-in, with a flush when the batch is full.                   *)
Receive ==
    /\ pc = "select" /\ taken < produced
    /\ taken' = taken + 1
    /\ LET b == batch \cup {taken + 1} IN
       IF Cardinality(b) >= BatchSize
       THEN Flush(b, FALSE)
       ELSE batch' = b /\ UNCHANGED <<pc, final, out, tries>>
    /\ UNCHANGED <<client, stopping, produced, rows, drainVars, netVars, bounds, history>>

(* case <-timerC: the timer runs only while the batch holds an event.      *)
Timer ==
    /\ pc = "select" /\ batch # {}
    /\ Flush(batch, FALSE)
    /\ UNCHANGED <<client, stopping, produced, taken, rows, drainVars, netVars, bounds, history>>

(* case <-ctx.Done(): flush and return, then main drains the buffer. What  *)
(* batcherCh still holds is abandoned.                                     *)
Done ==
    /\ pc = "select" /\ stopping
    /\ Flush(batch, TRUE)
    /\ UNCHANGED <<client, stopping, produced, taken, rows, drainVars, netVars, bounds, history>>

-----------------------------------------------------------------------------
(* sendBatch: buffer first, then send.                                     *)

AfterPush == IF client THEN "attempt" ELSE "return"

\* sendBatch returned: back to the select loop, or on to the drain
ReturnPc == IF ~final THEN "select" ELSE IF client THEN "replay" ELSE "stopped"

Goto(label) == pc' = IF label = "return" THEN ReturnPc ELSE label

PushCommit ==
    /\ pc = "push"
    /\ rows' = rows \cup out /\ stored' = stored \cup out
    /\ disturbed' = (disturbed \/ rows # {})
    /\ pc' = "evict"
    /\ UNCHANGED <<client, stopping, final, batchVars, sendVars, drainVars,
                   netVars, bounds, evicted, unreadable, received, twice>>

\* buf.Push returned an error: it is logged and the batch is sent anyway
PushError ==
    /\ pc = "push" /\ Fault
    /\ disturbed' = (disturbed \/ rows # {})
    /\ Goto(AfterPush)
    /\ UNCHANGED <<client, stopping, final, batchVars, sendVars, rows, drainVars,
                   netVars, starts, stored, evicted, unreadable, received, twice>>

\* The cap's DELETE runs outside the transaction and its error is ignored
Evict ==
    /\ pc = "evict"
    /\ \/ /\ rows' = AfterEviction(rows)
          /\ evicted' = evicted \cup (rows \ rows')
          /\ UNCHANGED faults
       \/ Fault /\ UNCHANGED <<rows, evicted>>
    /\ Goto(AfterPush)
    /\ UNCHANGED <<client, stopping, final, batchVars, sendVars, drainVars, netVars,
                   starts, stored, unreadable, received, twice, disturbed>>

-----------------------------------------------------------------------------
(* GRPCClient.SendBatch, called by sendBatch with a context derived from   *)
(* ctx, and by drainBuffer with the drain deadline.                        *)

Calling   == pc \in {"attempt", "drainattempt"}
Waiting   == pc \in {"await", "drainawait"}
InDrain   == pc \in {"replay", "drainattempt", "drainawait", "ack"}
Cancelled == stopping /\ ~InDrain   \* ctx of the call is already cancelled

OpenStream ==
    /\ Calling /\ ~Cancelled /\ tries < MaxRetries /\ sends < MaxSends
    /\ sends' = sends + 1 /\ tries' = tries + 1 /\ reply' = FALSE
    /\ net' = net \cup {[n |-> sends + 1, events |-> out]}
    /\ pc' = IF pc = "attempt" THEN "await" ELSE "drainawait"
    /\ UNCHANGED <<client, stopping, final, batchVars, out, rows, drainVars, bounds, history>>

(* The stream could not be opened, its reply did not come in time or it    *)
(* broke: back off and try again.                                          *)
Retry ==
    /\ \/ Calling /\ tries < MaxRetries /\ tries' = tries + 1
       \/ Waiting /\ UNCHANGED tries
    /\ ~Cancelled
    /\ disturbed' = (disturbed \/ Waiting)
    /\ reply' = FALSE
    /\ pc' = IF InDrain THEN "drainattempt" ELSE "attempt"
    /\ UNCHANGED <<client, stopping, final, batchVars, out, rows, drainVars, sends, net,
                   bounds, stored, evicted, unreadable, received, twice>>

\* Mutant of GiveUp: drainBuffer acknowledges the page although the send failed
GiveUpAcks ==
    /\ Calling \/ Waiting
    /\ disturbed' = (disturbed \/ Waiting)
    /\ reply' = FALSE
    /\ pc' = IF InDrain THEN "ack" ELSE ReturnPc
    /\ UNCHANGED <<client, stopping, final, batchVars, sendVars, rows, drainVars, sends, net,
                   bounds, stored, evicted, unreadable, received, twice>>

(* The context is done, or maxRetries is exceeded: SendBatch returns an    *)
(* error. sendBatch leaves the events buffered, drainBuffer gives up.      *)
GiveUp ==
    /\ Calling \/ Waiting
    /\ disturbed' = (disturbed \/ Waiting)
    /\ reply' = FALSE
    /\ pc' = IF InDrain THEN "stopped" ELSE ReturnPc
    /\ UNCHANGED <<client, stopping, final, batchVars, sendVars, rows, drainVars, sends, net,
                   bounds, stored, evicted, unreadable, received, twice>>

SendOk ==
    /\ Waiting /\ reply
    /\ reply' = FALSE
    /\ pc' = IF pc = "await" THEN "pop" ELSE "ack"
    /\ UNCHANGED <<client, stopping, final, batchVars, sendVars, rows, drainVars, sends, net,
                   bounds, history>>

(* buf.Pop(len(protoPayloads)) after a successful send. An error of Pop is *)
(* logged.                                                                 *)
Pop ==
    /\ pc = "pop"
    /\ \/ /\ rows' = DeleteThrough(rows, Oldest(rows, Cardinality(out)))
          /\ UNCHANGED <<faults, disturbed>>
       \/ Fault /\ disturbed' = TRUE /\ UNCHANGED rows
    /\ pc' = ReturnPc
    /\ UNCHANGED <<client, stopping, final, batchVars, sendVars, drainVars, netVars,
                   starts, stored, evicted, unreadable, received, twice>>

-----------------------------------------------------------------------------
(* The server, as far as the agent sees it.                                *)

(* IngestEvents handles a request. The reply reaches a call that is still  *)
(* waiting for it; a handler whose client timed out runs to its end too.   *)
Handle(r) ==
    /\ r \in net
    /\ net' = net \ {r}
    /\ twice' = twice \cup (received \cap r.events)
    /\ received' = received \cup r.events
    /\ reply' = (reply \/ (Waiting /\ r.n = sends))
    /\ UNCHANGED <<procVars, batchVars, sendVars, rows, drainVars, sends, bounds,
                   stored, evicted, unreadable, disturbed>>

(* The request is lost with its connection.                                *)
Lose(r) ==
    /\ r \in net
    /\ net' = net \ {r}
    /\ UNCHANGED <<procVars, batchVars, sendVars, rows, drainVars, sends, reply, bounds, history>>

-----------------------------------------------------------------------------
(* drainBuffer: replay a page, send what unmarshals, acknowledge the page. *)

(* The top of the loop: an empty page, the deadline (which may pass at any *)
(* time) or a failing query end the drain.                                 *)
DrainEnd ==
    /\ pc = "replay"
    /\ pc' = "stopped"
    /\ UNCHANGED <<client, stopping, final, batchVars, sendVars, rows, drainVars, netVars,
                   bounds, history>>

(* buf.Replay(lastAckID, Page); the events of bad rows are skipped, a page *)
(* with none left is acknowledged without a send.                          *)
Replay(bad) ==
    LET entries == Oldest({r \in rows : r > lastAck}, Page) IN
    /\ pc = "replay" /\ entries # {} /\ bad \subseteq entries
    /\ unreadable \cap entries \subseteq bad   \* a damaged row stays damaged
    /\ IF bad \subseteq unreadable THEN UNCHANGED faults ELSE Fault
    /\ page' = entries /\ out' = entries \ bad /\ tries' = 0
    /\ unreadable' = unreadable \cup bad
    /\ pc' = IF bad = entries THEN "ack" ELSE "drainattempt"
    /\ UNCHANGED <<client, stopping, final, batchVars, rows, lastAck, netVars,
                   starts, stored, evicted, received, twice, disturbed>>

\* Mutant of Ack: a page of unreadable rows is neither deleted nor skipped
AckReadableOnly ==
    /\ pc = "ack"
    /\ \/ out # {} /\ rows' = DeleteThrough(rows, page) /\ UNCHANGED <<faults, disturbed>>
       \/ out # {} /\ Fault /\ disturbed' = TRUE /\ UNCHANGED rows
       \/ out = {} /\ UNCHANGED <<rows, faults, disturbed>>
    /\ \E maxID \in page : /\ \A p \in page : p <= maxID
                          /\ lastAck' = IF out # {} THEN maxID ELSE lastAck
    /\ page' = {} /\ pc' = "replay"
    /\ UNCHANGED <<client, stopping, final, batchVars, sendVars, netVars,
                   starts, stored, evicted, unreadable, received, twice>>

(* buf.AckUntil(maxID) with the page's last id; when it fails the rows     *)
(* stay and the drain goes on behind them.                                 *)
Ack ==
    /\ pc = "ack"
    /\ \/ rows' = DeleteThrough(rows, page) /\ UNCHANGED <<faults, disturbed>>
       \/ Fault /\ disturbed' = TRUE /\ UNCHANGED rows
    /\ \E maxID \in page : (\A p \in page : p <= maxID) /\ lastAck' = maxID
    /\ page' = {} /\ pc' = "replay"
    /\ UNCHANGED <<client, stopping, final, batchVars, sendVars, netVars,
                   starts, stored, evicted, unreadable, received, twice>>

(* The process dies: memory, batcherCh included, is gone; the buffer file  *)
(* and the requests on their way are not.                                  *)
Crash ==
    /\ pc \notin {"down", "stopped"} /\ Fault
    /\ pc' = "down"
    /\ disturbed' = (disturbed \/ Waiting \/ pc \in {"pop", "ack"})
    /\ batch' = {} /\ out' = {} /\ page' = {} /\ reply' = FALSE
    /\ UNCHANGED <<client, stopping, final, produced, taken, tries, rows, lastAck,
                   sends, net, starts, stored, evicted, unreadable, received, twice>>

-----------------------------------------------------------------------------
Batcher   == Receive \/ Timer \/ Done
SendBatch == OpenStream \/ Retry \/ GiveUp \/ SendOk
Drain     == DrainEnd \/ (\E bad \in SUBSET rows : Replay(bad)) \/ Ack
Agent     == Batcher \/ PushCommit \/ PushError \/ Evict \/ SendBatch \/ Pop \/ Drain
Server    == \E r \in net : Handle(r) \/ Lose(r)

Next == Start \/ Shutdown \/ Forward \/ Agent \/ Server \/ Crash

Spec == Init /\ [][Next]_vars

(* Every goroutine of a running agent that can take a step takes one: the  *)
(* Go scheduler runs them, every call carries a deadline, and the batcher  *)
(* cannot prefer batcherCh to ctx.Done() for ever because batcherCh is no  *)
(* longer filled once ctx is cancelled.                                    *)
Fairness == WF_vars(Agent)

FairSpec == Spec /\ Fairness

-----------------------------------------------------------------------------
(* Properties.                                                             *)

(* Exactly once, as long as nothing disturbs the path: every event that    *)
(* was ever committed to the buffer is still there, was handled by the     *)
(* server or turned out unreadable, and none was handled twice. What       *)
(* disturbs it is only an attempt whose outcome the agent never learned, a *)
(* failed delete, or a Push on top of rows an earlier batch left behind.   *)
ExactlyOnceUndisturbed ==
    ~disturbed => /\ stored \subseteq rows \cup received \cup unreadable
                  /\ twice = {}

(* drainBuffer: "events are never deleted before successful delivery": a   *)
(* row goes only after the server handled its event, or after its payload  *)
(* proved unreadable - whatever failed, crashed or was retried before.     *)
DrainDeletesOnlyDelivered ==
    [][InDrain => rows \ rows' \subseteq received \cup unreadable]_vars

(* A cancelled agent always gets to its end: SendBatch gives up, and the   *)
(* drain does not spin over rows it cannot send, read or delete. (main()   *)
(* also waits for the merger goroutine, which EventMerger is about.)       *)
ShutdownCompletes == stopping ~> pc \in {"stopped", "down"}

(* sendBatch: "Always buffer first - ensures no event loss on transport    *)
(* failure": an event that was committed to the buffer and is in it no     *)
(* longer was handled by the server, unless the cap evicted it or it was   *)
(* unreadable.                                                             *)
NoLossOnTransportFailure ==
    stored \subseteq rows \cup received \cup evicted \cup unreadable
=============================================================================
