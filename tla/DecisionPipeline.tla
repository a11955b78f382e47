-------------------------- MODULE DecisionPipeline --------------------------
(***************************************************************************)
(* From a correlated incident to a persisted, chained and dispatched       *)
(* decision: DecisionWorker._process, DecisionEngine.decide with its Redis *)
(* leader election, DecisionJournal's hash chain, SQLDecisionRepository    *)
(* and ActionExecutor.execute, on every server that shares the database,   *)
(* with database and Redis errors, crashes and restarts.                   *)
(*                                                                         *)
(* A BLAKE3 hash covers the previous hash and the decision, so it is       *)
(* modelled by the sequence of the decisions it covers. Decisions are      *)
(* numbered by created_at.                                                 *)
(***************************************************************************)
EXTENDS Naturals, Sequences, FiniteSets

CONSTANTS
    Server,       \* server processes running a decision worker
    Incident,     \* incidents published on analysis:correlated
    Score,        \* final scores the incidents may get
    HistoryLen,   \* maxlen of DecisionJournal._commit_history (200)
    Distributed,  \* redis_url is set, which is the default
    MaxFaults     \* bound: errors and crashes

CONSTANTS
    NoServer,     \* the leader key is absent
    OldServer     \* the leader key names a process that is gone

ASSUME PipelineAssumption ==
    /\ Score \subseteq 0..100
    /\ HistoryLen \in Nat \ {0} /\ MaxFaults \in Nat
    /\ Distributed \in BOOLEAN
    /\ NoServer \notin Server /\ OldServer \notin Server /\ NoServer # OldServer

VARIABLES
    pc,        \* where the worker of each server is
    job,       \* the decision it is working on
    last,      \* DecisionJournal._last_hash
    recent,    \* DecisionJournal._commit_history
    leader,    \* Redis key oseye:decision:leader
    queue,     \* incidents not yet delivered to a worker
    clock,     \* number of decisions stamped with a created_at
    rows,      \* the decisions table
    published, \* messages ActionExecutor.execute has published
    faults,
    \* History; no step reads it.
    failed,    \* incidents given up because of an error or a crash
    unsure     \* a COMMIT raised an error after taking effect

vars == <<pc, job, last, recent, leader, queue, clock, rows, published, faults,
          failed, unsure>>

Genesis == <<>>
Hash(prev, id) == Append(prev, id)
HashSet == Seq(Nat)

Decision == [id : Nat, incident : Incident, score : Score, prev : HashSet, hash : HashSet]
Message == [topic : {"completed", "pending", "snapshot", "command"}, id : Nat]

TypeOK ==
    /\ pc \in [Server -> {"down", "idle", "leader", "create", "execute", "dead"}]
    /\ job \in [Server -> Decision \cup {<<>>}]
    /\ \A s \in Server : pc[s] \in {"leader", "create", "execute"} => job[s] \in Decision
    /\ last \in [Server -> HashSet] /\ recent \in [Server -> Seq(HashSet)]
    /\ leader \in Server \cup {NoServer, OldServer}
    /\ queue \subseteq Incident /\ clock \in Nat /\ rows \subseteq Decision
    /\ published \subseteq Message
    /\ faults \in 0..MaxFaults /\ failed \subseteq Incident /\ unsure \in BOOLEAN

-----------------------------------------------------------------------------
(* Scoring outcome, journal and repository queries.                        *)

_apply_risk_matrix(score) ==
    CASE score <= 20 -> <<"IGNORE">>
      [] score > 20 /\ score <= 40 -> <<"ESCALATE">>
      [] score > 40 /\ score <= 60 -> <<"ALERT", "INVESTIGATE">>
      [] score > 60 /\ score <= 80 -> <<"ALERT", "ISOLATE">>
      [] score > 80 -> <<"ALERT", "ISOLATE", "REQUEST_HUMAN">>

Types(d) == {_apply_risk_matrix(d.score)[i] : i \in DOMAIN _apply_risk_matrix(d.score)}
RequiresHuman(d) == "REQUEST_HUMAN" \in Types(d)

\* Mutant of CommitHistory: commit() forgets to record prev
ForgetfulHistory(s) == recent[s]

\* deque(maxlen): the oldest entry goes when a full one is appended to
CommitHistory(s) ==
    LET h == Append(recent[s], last[s]) IN IF Len(h) > HistoryLen THEN Tail(h) ELSE h

\* Mutant of get_last_journal_hash: ORDER BY created_at ASC
FirstJournalHash ==
    IF rows = {} THEN Genesis
    ELSE (CHOOSE r \in rows : \A q \in rows : r.id <= q.id).hash

\* ORDER BY created_at DESC LIMIT 1; main() starts from genesis when there is none
get_last_journal_hash ==
    IF rows = {} THEN Genesis
    ELSE (CHOOSE r \in rows : \A q \in rows : q.id <= r.id).hash

\* The order in which a list of decisions is walked
OldestFirst == "oldest"
NewestFirst == "newest"
Before(a, b, order) == IF order = NewestFirst THEN a.id > b.id ELSE a.id < b.id

(* verify_chain over decisions listed in the given order: prev starts at   *)
(* genesis and follows the journal hashes of the list.                     *)
verify_chain(decisions, order) ==
    LET Prev(r) ==
          LET earlier == {q \in decisions : Before(q, r, order)} IN
          IF earlier = {} THEN Genesis
          ELSE (CHOOSE q \in earlier : \A p \in earlier : p = q \/ Before(p, q, order)).hash
    IN {r \in decisions : r.prev # Prev(r) \/ r.hash # Hash(Prev(r), r.id)}

\* GET /journal/verify: the page list_decisions returns is newest first
verify_journal_integrity(limit) ==
    LET page == {r \in rows : Cardinality({q \in rows : q.id > r.id}) < limit}
    IN verify_chain(page, NewestFirst)

-----------------------------------------------------------------------------
Init ==
    /\ pc = [s \in Server |-> "down"] /\ job = [s \in Server |-> <<>>]
    /\ last = [s \in Server |-> Genesis] /\ recent = [s \in Server |-> <<>>]
    /\ leader = NoServer /\ queue = Incident /\ clock = 0 /\ rows = {} /\ published = {}
    /\ faults = 0 /\ failed = {} /\ unsure = FALSE

Fault == faults < MaxFaults /\ faults' = faults + 1

(* The process starts: the journal resumes from the last persisted hash.   *)
(* A leader key this server held before names its former process, unless   *)
(* the engine object happens to get the same id().                         *)
Boot(s) ==
    /\ pc[s] = "down"
    /\ pc' = [pc EXCEPT ![s] = "idle"]
    /\ last' = [last EXCEPT ![s] = get_last_journal_hash]
    /\ recent' = [recent EXCEPT ![s] = <<>>]
    /\ leader' \in IF leader = s THEN {s, OldServer} ELSE {leader}
    /\ UNCHANGED <<job, queue, clock, rows, published, faults, failed, unsure>>

(* A message arrives, the incident is loaded and scored and the decision   *)
(* gets its created_at; an incident that cannot be loaded is dropped.      *)
Receive(s, i, score) ==
    /\ pc[s] = "idle" /\ i \in queue
    /\ queue' = queue \ {i}
    /\ \/ /\ clock' = clock + 1
          /\ job' = [job EXCEPT ![s] = [id |-> clock + 1, incident |-> i, score |-> score,
                                        prev |-> Genesis, hash |-> Genesis]]
          /\ pc' = [pc EXCEPT ![s] = "leader"]
          /\ UNCHANGED <<faults, failed>>
       \/ Fault /\ failed' = failed \cup {i} /\ UNCHANGED <<pc, job, clock>>
    /\ UNCHANGED <<last, recent, leader, rows, published, unsure>>

\* What _is_leader() may answer: SET NX, then GET and EXPIRE. The key may expire
\* between the two; any Redis error counts as being the leader.
_is_leader(s, answer) ==
    \/ (~Distributed \/ leader = s) /\ answer = TRUE /\ UNCHANGED <<leader, faults>>
    \/ Distributed /\ leader = NoServer /\ leader' = s /\ answer = TRUE /\ UNCHANGED faults
    \/ Distributed /\ leader \notin {NoServer, s} /\ answer = FALSE /\ UNCHANGED <<leader, faults>>
    \/ Distributed /\ leader = s /\ leader' = NoServer /\ answer = FALSE /\ UNCHANGED faults
    \/ Distributed /\ Fault /\ answer = TRUE /\ UNCHANGED leader

(* journal.commit() under the engine's lock; no other task of the server   *)
(* touches the journal.                                                    *)
Commit(s) ==
    /\ pc[s] = "leader" /\ _is_leader(s, TRUE)
    /\ recent' = [recent EXCEPT ![s] = CommitHistory(s)]
    /\ last' = [last EXCEPT ![s] = Hash(last[s], job[s].id)]
    /\ job' = [job EXCEPT ![s].prev = last[s], ![s].hash = Hash(last[s], job[s].id)]
    /\ pc' = [pc EXCEPT ![s] = "create"]
    /\ UNCHANGED <<queue, clock, rows, published, failed, unsure>>

(* A follower builds Decision(prev_journal_hash=None, journal_hash=None):  *)
(* both fields are str in core/schema.py, the constructor raises and the   *)
(* worker drops the incident.                                              *)
Follow(s) ==
    /\ pc[s] = "leader" /\ _is_leader(s, FALSE)
    /\ pc' = [pc EXCEPT ![s] = "idle"]
    /\ UNCHANGED <<job, last, recent, queue, clock, rows, published, failed, unsure>>

Create(s) ==
    /\ pc[s] = "create"
    /\ rows' = rows \cup {job[s]}
    /\ pc' = [pc EXCEPT ![s] = "execute"]
    /\ UNCHANGED <<job, last, recent, leader, queue, clock, published, faults, failed, unsure>>

\* Mutant of CreateError: the journal is not rolled back
CreateErrorKeepsTip(s) ==
    /\ pc[s] = "create" /\ Fault
    /\ rows' = rows
    /\ pc' = [pc EXCEPT ![s] = "idle"]
    /\ failed' = failed \cup {job[s].incident}
    /\ UNCHANGED <<job, last, recent, leader, queue, clock, published, unsure>>

\* Mutant of CreateError: the worker goes on to the executor after the rollback
CreateErrorDispatches(s) ==
    /\ pc[s] = "create" /\ Fault
    /\ rows' = rows
    /\ last' = [last EXCEPT ![s] = job[s].prev]
    /\ pc' = [pc EXCEPT ![s] = "execute"]
    /\ failed' = failed \cup {job[s].incident}
    /\ UNCHANGED <<job, recent, leader, queue, clock, published, unsure>>

(* create() raises, before or (unknown to the worker) after its COMMIT     *)
(* took effect: the journal is rolled back. A refused rollback escapes     *)
(* from _process and ends the worker task.                                 *)
CreateError(s) ==
    /\ pc[s] = "create" /\ Fault
    /\ \/ rows' = rows /\ UNCHANGED unsure
       \/ rows' = rows \cup {job[s]} /\ unsure' = TRUE
    /\ LET prev == job[s].prev
           accepted == prev = Genesis \/ \E i \in DOMAIN recent[s] : recent[s][i] = prev
       IN /\ last' = [last EXCEPT ![s] = IF accepted THEN prev ELSE @]
          /\ pc' = [pc EXCEPT ![s] = IF accepted THEN "idle" ELSE "dead"]
    /\ failed' = failed \cup {job[s].incident}
    /\ UNCHANGED <<job, recent, leader, queue, clock, published>>

\* _publish: where the decision itself is announced.
AnnouncedOn(d) ==
    IF _apply_risk_matrix(d.score)[1] \in {"REQUEST_HUMAN", "ESCALATE"}
    THEN "pending" ELSE "completed"

\* _emit_block_ip_command: BLOCK_IP needs the address of an alert.
BlockIp(d, hasAddress) == {t \in {"command"} : "ISOLATE" \in Types(d) /\ hasAddress}

\* _request_forensic_snapshot.
ForensicSnapshot(d) == {t \in {"snapshot"} : "INVESTIGATE" \in Types(d)}

\* What execute() publishes.
Topics(d, hasAddress) ==
    IF _apply_risk_matrix(d.score)[1] = "IGNORE" THEN {}
    ELSE {AnnouncedOn(d)} \cup BlockIp(d, hasAddress) \cup ForensicSnapshot(d)

(* execute(decision) is called without the alert. A publish that fails is  *)
(* logged and not repeated.                                                *)
Execute(s) ==
    /\ pc[s] = "execute"
    /\ \E sent \in SUBSET Topics(job[s], FALSE) :
          /\ IF sent = Topics(job[s], FALSE) THEN UNCHANGED faults ELSE Fault
          /\ published' = published \cup {[topic |-> t, id |-> job[s].id] : t \in sent}
    /\ pc' = [pc EXCEPT ![s] = "idle"]
    /\ UNCHANGED <<job, last, recent, leader, queue, clock, rows, failed, unsure>>

(* The process dies. The message it was working on is not delivered again. *)
Crash(s) ==
    /\ pc[s] # "down" /\ Fault
    /\ failed' = failed \cup (IF pc[s] \in {"leader", "create"} THEN {job[s].incident} ELSE {})
    /\ pc' = [pc EXCEPT ![s] = "down"]
    /\ UNCHANGED <<job, last, recent, leader, queue, clock, rows, published, unsure>>

(* The leader key's TTL runs out.                                          *)
LeaderExpires ==
    /\ leader # NoServer
    /\ leader' = NoServer
    /\ UNCHANGED <<pc, job, last, recent, queue, clock, rows, published, faults, failed, unsure>>

Worker(s) ==
    \/ \E i \in queue, score \in Score : Receive(s, i, score)
    \/ Commit(s) \/ Follow(s) \/ Create(s) \/ CreateError(s) \/ Execute(s)

Next == LeaderExpires \/ \E s \in Server : Boot(s) \/ Worker(s) \/ Crash(s)

Spec == Init /\ [][Next]_vars

-----------------------------------------------------------------------------
(* Properties.                                                             *)

(* The journal is a hash chain: with one server, whatever failed to        *)
(* persist, crashed or restarted, verify_chain over the decisions in the   *)
(* order they were made finds no break. The one exception is a COMMIT that *)
(* raised although it took effect.                                         *)
ChainIntact == ~unsure => verify_chain(rows, OldestFirst) = {}

(* rollback_journal: "so that the in-memory journal stays consistent with  *)
(* what is actually in the database": between two messages the tip in      *)
(* memory is the hash a restart would resume from.                         *)
JournalMatchesDatabase ==
    ~unsure => \A s \in Server : pc[s] = "idle" => last[s] = get_last_journal_hash

(* The rollback of a failed persist is never refused, however short the    *)
(* journal's history and however recent the restart: a refusal would end   *)
(* the worker task.                                                        *)
RollbackAccepted == \A s \in Server : pc[s] # "dead"

(* ActionExecutor is told only about decisions that can be found in the    *)
(* database, and at most one decision is recorded per incident.            *)
DispatchedIsRecorded ==
    /\ \A m \in published : \E r \in rows : r.id = m.id
    /\ \A a, b \in rows : a.incident = b.incident => a = b

(* GET /journal/verify: "intact: true when the chain is unbroken".         *)
EndpointAgrees ==
    verify_chain(rows, OldestFirst) = {} => verify_journal_integrity(1000) = {}

(* decide(): "Follower : persiste la decision": an incident a worker has   *)
(* finished with, without error or crash, has a decision in the database.  *)
EveryIncidentDecided ==
    \A i \in Incident : \/ i \in queue \cup failed
                        \/ \E r \in rows : r.incident = i
                        \/ \E s \in Server : pc[s] \in {"leader", "create"} /\ job[s].incident = i

(* _is_leader: one leader owns the journal ("elire un leader unique"): no  *)
(* two decisions continue the chain from the same hash.                    *)
NoFork == ~unsure => \A a, b \in rows : a.prev = b.prev => a = b
=============================================================================
