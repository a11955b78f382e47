------------------------------- MODULE Ingest -------------------------------
(***************************************************************************)
(* The server's end of IngestEvents: the keys of the agents, the check of  *)
(* a batch, the conversion of its events and their hand-over to the bus    *)
(* (server/oseye/ingest/grpc_service.py, ingest/validator.py, ingest/      *)
(* normalizer_bridge.py, core/schema.py, main.py).  An agent opens a       *)
(* stream for each batch (agent/internal/transport/grpc_client.go), so     *)
(* one call of the handler is one batch and its response.                  *)
(*                                                                         *)
(* The handler runs in a thread of the gRPC server: it schedules the       *)
(* publication on the event loop and answers without waiting for it.  The  *)
(* health snapshots it keeps for display, and the rows of the agents       *)
(* (module AgentAccess), are left out.                                     *)
(***************************************************************************)
EXTENDS Integers, Sequences, FiniteSets, SequencesExt

CONSTANTS
    Agents,         \* common names
    Batches,        \* the batches agents send: sequences of events
    Incomplete,     \* events without category, type or severity
    Health,         \* collector health snapshots
    Malformed,      \* events UniversalEvent refuses, such as category "unknown"
    KeyDirs,        \* contents agent_keys_dir may have: sets of agents
    MaxBatch        \* the validator's limit on a batch

ASSUME IngestAssumption ==
    /\ \A dir \in KeyDirs : dir \subseteq Agents
    /\ \A b \in Batches : b \in Seq(ToSet(b))
    /\ MaxBatch \in Nat

VARIABLES
    keyed,      \* _agent_keys: agents with a registered key
    jobs,       \* publications scheduled on the event loop
    accepted    \* ghost: events let through in the batches that were answered

ingestVars == <<keyed, jobs, accepted>>

\* lifespan registers the key files and, if there is one, requires a key.
LoadKeys(dir) == keyed' = dir
RequireAgentKeys == keyed # {}

IngestInit ==
    /\ keyed \in KeyDirs
    /\ jobs = <<>> /\ accepted = {}

-----------------------------------------------------------------------------
(* BatchValidator.                                                         *)

\* What the agent signs (batchSignature): the head of its chain, then the
\* hashes of the events.
SignedByAgent(batch) == <<"head">> \o batch

\* What the validator checks the signature over: the hashes of the events.
DigestChecked(batch) == batch

SignatureHolds(batch) == SignedByAgent(batch) = DigestChecked(batch)

\* validate: the whole batch when it is too large or its signature does not
\* hold, otherwise the events that lack a required field.
RejectedIndices(cn, batch) ==
    IF \/ Len(batch) > MaxBatch
       \/ cn \in keyed /\ batch # <<>> /\ ~ SignatureHolds(batch)
    THEN DOMAIN batch
    ELSE {i \in DOMAIN batch : batch[i] \in Incomplete}

-----------------------------------------------------------------------------

Kept(cn, batch) == DOMAIN batch \ RejectedIndices(cn, batch)

\* pb_to_event builds a UniversalEvent, which raises for what is malformed.
Parses(e) == e \notin Malformed

\* pb_to_event for the whole batch.  The identifier of an event is the
\* agent's, 16 bytes, so an event sent twice is the same event.
Converted(cn, batch) ==
    {i \in Kept(cn, batch) : batch[i] \notin Health /\ Parses(batch[i])}

Raises(cn, batch) ==
    \E i \in Kept(cn, batch) : batch[i] \notin Health /\ ~ Parses(batch[i])

\* The events converted, in the order of the batch: the k-th is the one with
\* k of them up to it.
Payloads(cn, batch) ==
    LET indices == Converted(cn, batch)
        Nth(k) == CHOOSE i \in indices : Cardinality({j \in indices : j <= i}) = k
    IN  [k \in 1 .. Cardinality(indices) |-> batch[Nth(k)]]

\* A batch is converted, scheduled for publication and answered.
IngestBatch(cn, batch) ==
    /\ ~ (RequireAgentKeys /\ cn \notin keyed)
    /\ ~ Raises(cn, batch)
    /\ LET payloads == Payloads(cn, batch) IN
       /\ jobs' = IF payloads = <<>> THEN jobs ELSE Append(jobs, payloads)
       /\ accepted' = accepted \cup ToSet(payloads)
    /\ UNCHANGED keyed

\* The conversion raises: the stream fails and nothing of the batch is
\* published, so the agent sends it again.
IngestRaises(cn, batch) ==
    /\ ~ (RequireAgentKeys /\ cn \notin keyed)
    /\ Raises(cn, batch)
    /\ UNCHANGED ingestVars

\* No key is registered for the agent: the call is aborted.
IngestAborted(cn, batch) ==
    /\ RequireAgentKeys /\ cn \notin keyed
    /\ UNCHANGED ingestVars

IngestEvents(cn, batch) ==
    IngestBatch(cn, batch) \/ IngestRaises(cn, batch) \/ IngestAborted(cn, batch)

=============================================================================
