-------------------------------- MODULE Cases --------------------------------
(***************************************************************************)
(* Forensic cases and their chain of custody                               *)
(* (server/oseye/forensic/case_manager.py, forensic/timeline.py,           *)
(* storage/repositories/cases.py, api/routers/cases.py).                   *)
(*                                                                         *)
(* A request that changes a case takes the lock of that case, loads the    *)
(* case, changes the copy, writes the whole row back together with the new *)
(* notes and evidence, and only then appends an entry to the custody log.  *)
(* Each of these is an await, so requests on the same case interleave, and *)
(* so do the readers: an export takes no lock and loads the row, the       *)
(* custody log, the evidence and the notes one after the other.            *)
(*                                                                         *)
(* The chained hash of a custody entry is represented by the sequence of   *)
(* payloads it covers: equal hashes are equal histories.                   *)
(***************************************************************************)
EXTENDS Integers, Sequences, FiniteSets, SequencesExt

CONSTANTS
    CaseIds,
    Writers,     \* concurrent requests that change a case
    Readers,     \* concurrent exports and timeline requests
    EventTimes,  \* timestamps of the events linked to every case
    MaxOps,      \* bound on the changes requested
    MaxTime,     \* bound on the clock
    MaxFaults    \* bound on crashes and failing database calls

Free == "free"     \* a lock nobody holds

ASSUME CasesAssumption ==
    /\ MaxOps \in Nat /\ MaxTime \in Nat /\ MaxFaults \in Nat
    /\ EventTimes \subseteq Nat /\ IsFiniteSet(EventTimes)
    /\ Free \notin Writers

Fields == {"title", "status"}

\* The statuses PATCH accepts, and those the schema accepts: an assignment
\* outside the second set raises (validate_assignment).
RouterStatuses == {"open", "investigating", "closed"}
SchemaStatuses == {"open", "in_progress", "resolved", "archived"}

VARIABLES
    rows,      \* forensic_cases, a function on the cases that exist; a field
               \* holds the operation that last wrote it
    custody,   \* custody_log per case, by id
    notes, evidence,
    lock,      \* CaseManager._case_locks: the holder of each lock
    req,       \* the request of each writer
    export,    \* the bundle each reader is loading
    ops,       \* operations requested so far
    now,
    faults,
    lastSet,   \* ghost: the operation that last set each field
    cutOff     \* ghost: operations stored whose custody entry never was

vars == <<rows, custody, notes, evidence, lock, req, export, ops, now,
          faults, lastSet, cutOff>>

Idle == [pc |-> "idle"]
Exists(c) == c \in DOMAIN rows

\* A case as create_case makes it.
NewRow == [title |-> 0, status |-> 0, value |-> "open"]

\* _last_hash and _custody_hash.
LastHash(log)            == IF log = <<>> THEN <<>> ELSE Last(log).hash
CustodyHash(prev, p)     == Append(prev, p)
Entry(log, p)            == [payload |-> p, ts |-> now,
                             hash |-> CustodyHash(LastHash(log), p)]

\* _row_to_case with _load_case_relations: the copy a request works on.
RowToCase(c) ==
    [row |-> rows[c], log |-> custody[c], notes |-> notes[c], evidence |-> evidence[c]]

dataVars == <<rows, custody, notes, evidence>>

Init ==
    /\ rows = [c \in {} |-> NewRow]
    /\ custody  = [c \in CaseIds |-> <<>>]
    /\ notes    = [c \in CaseIds |-> {}]
    /\ evidence = [c \in CaseIds |-> {}]
    /\ lock     = [c \in CaseIds |-> Free]
    /\ req      = [w \in Writers |-> Idle]
    /\ export   = [r \in Readers |-> Idle]
    /\ ops = 0 /\ now = 0 /\ faults = 0
    /\ lastSet = [c \in CaseIds |-> [f \in Fields |-> 0]]
    /\ cutOff = {}

\* SQLCaseRepository.create: row and log in one transaction.
InsertCase(c, row, log) ==
    /\ rows' = [d \in DOMAIN rows \cup {c} |-> IF d = c THEN row ELSE rows[d]]
    /\ custody' = [custody EXCEPT ![c] = log]

\* create_case: under a fresh identifier, so no lock is needed.
CreateCase(c) ==
    /\ ~ Exists(c)
    /\ InsertCase(c, NewRow, <<Entry(<<>>, [action |-> "case_opened", op |-> 0])>>)
    /\ UNCHANGED <<notes, evidence, lock, req, export, ops, now, faults, lastSet, cutOff>>

-----------------------------------------------------------------------------
(* Requests that change a case.                                            *)

\* The bodies of PATCH, of the notes and evidence endpoints and of close.
Operation ==
    [kind : {"case_updated"}, fields : {{"title"}}, value : {"open"}]
      \cup [kind : {"case_updated"}, fields : {{"status"}, Fields}, value : RouterStatuses]
      \cup [kind : {"note_added", "evidence_added"}, fields : {{}}, value : {"open"}]
      \cup [kind : {"case_closed"}, fields : {{"status"}}, value : {"resolved"}]

\* update_case, add_note, add_evidence, close_case arrive and queue for the
\* lock (_get_case_lock).
Request(w, c, o) ==
    /\ req[w].pc = "idle" /\ ops < MaxOps
    /\ ops' = ops + 1
    /\ req' = [req EXCEPT ![w] = [pc |-> "queued", case |-> c, op |-> o, id |-> ops + 1]]
    /\ UNCHANGED <<lock, export, now, faults, lastSet, cutOff>> /\ UNCHANGED dataVars

Release(w) == lock' = [lock EXCEPT ![req[w].case] = IF @ = w THEN Free ELSE @]

\* Mutant of AcquireLock: every request gets a lock of its own
AcquireLockOwn(w) == lock' = [lock EXCEPT ![req[w].case] = w]

\* The lock is taken and the case loaded; an unknown case is refused.
AcquireLock(w) == lock[req[w].case] = Free /\ lock' = [lock EXCEPT ![req[w].case] = w]

Load(w) ==
    /\ req[w].pc = "queued"
    /\ IF Exists(req[w].case)
       THEN /\ AcquireLock(w)
            /\ req' = [req EXCEPT ![w] = [pc |-> "loaded", case |-> @.case, op |-> @.op,
                                          id |-> @.id, copy |-> RowToCase(@.case)]]
       ELSE /\ lock[req[w].case] = Free
            /\ req' = [req EXCEPT ![w] = Idle] /\ UNCHANGED lock
    /\ UNCHANGED <<export, ops, now, faults, lastSet, cutOff>> /\ UNCHANGED dataVars

\* The change applied to the copy; no await, and a status the schema does not
\* know raises before anything is written.
Raises(o) == "status" \in o.fields /\ o.value \notin SchemaStatuses

UpdateCase(copy, o, id) ==
    [copy EXCEPT !.row = [title  |-> IF "title" \in o.fields THEN id ELSE @.title,
                          status |-> IF "status" \in o.fields THEN id ELSE @.status,
                          value  |-> IF "status" \in o.fields THEN o.value ELSE @.value]]
AddNote(copy, id)     == [copy EXCEPT !.notes = @ \cup {id}]
AddEvidence(copy, id) == [copy EXCEPT !.evidence = @ \cup {id}]
CloseCase(copy, id)   == [copy EXCEPT !.row.status = id, !.row.value = "resolved"]

Changed(copy, o, id) ==
    CASE o.kind = "case_updated"   -> UpdateCase(copy, o, id)
      [] o.kind = "note_added"     -> AddNote(copy, id)
      [] o.kind = "evidence_added" -> AddEvidence(copy, id)
      [] o.kind = "case_closed"    -> CloseCase(copy, id)

Refuse(w) ==
    /\ req[w].pc = "loaded" /\ Raises(req[w].op)
    /\ Release(w)
    /\ req' = [req EXCEPT ![w] = Idle]
    /\ UNCHANGED <<export, ops, now, faults, lastSet, cutOff>> /\ UNCHANGED dataVars

\* SQLCaseRepository.update: every column from the copy, and the notes and
\* evidence of the copy that the tables do not hold yet.
Update(w) ==
    /\ req[w].pc = "loaded" /\ ~ Raises(req[w].op)
    /\ LET r == req[w]
           c == r.case
           new == Changed(r.copy, r.op, r.id)
       IN /\ rows'     = [rows EXCEPT ![c] = new.row]
          /\ notes'    = [notes EXCEPT ![c] = @ \cup new.notes]
          /\ evidence' = [evidence EXCEPT ![c] = @ \cup new.evidence]
          /\ lastSet'  = [lastSet EXCEPT ![c] =
                            [f \in Fields |-> IF f \in r.op.fields THEN r.id ELSE @[f]]]
    /\ req' = [req EXCEPT ![w].pc = "updated"]
    /\ UNCHANGED <<custody, lock, export, ops, now, faults, cutOff>>

\* _append_custody: the hash is chained on the log as it was loaded.
AppendCustody(w) ==
    /\ req[w].pc = "updated"
    /\ LET r == req[w] IN
       custody' = [custody EXCEPT ![r.case] =
                     Append(@, Entry(r.copy.log, [action |-> r.op.kind, op |-> r.id]))]
    /\ Release(w)
    /\ req' = [req EXCEPT ![w] = Idle]
    /\ UNCHANGED <<rows, notes, evidence, export, ops, now, faults, lastSet, cutOff>>

Unlogged(ws) == {req[w].id : w \in {v \in ws : req[v].pc = "updated"}}

\* A database call raises: the request ends and the lock is released.
DatabaseFails(w) ==
    /\ req[w].pc \in {"loaded", "updated"}
    /\ faults < MaxFaults /\ faults' = faults + 1
    /\ cutOff' = cutOff \cup Unlogged({w})
    /\ Release(w)
    /\ req' = [req EXCEPT ![w] = Idle]
    /\ UNCHANGED <<export, ops, now, lastSet>> /\ UNCHANGED dataVars

\* The server stops: requests and locks are gone, the tables stay.
Crash ==
    /\ faults < MaxFaults /\ faults' = faults + 1
    /\ cutOff' = cutOff \cup Unlogged(Writers)
    /\ lock'   = [c \in CaseIds |-> Free]
    /\ req'    = [w \in Writers |-> Idle]
    /\ export' = [r \in Readers |-> Idle]
    /\ UNCHANGED <<ops, now, lastSet>> /\ UNCHANGED dataVars

-----------------------------------------------------------------------------
(* Readers: get_case, _load_case_bundle and the exports.                   *)

Loading(r, from, bundle) ==
    /\ export[r].pc = from
    /\ export' = [export EXCEPT ![r] = bundle]
    /\ UNCHANGED <<lock, req, ops, now, faults, lastSet, cutOff>> /\ UNCHANGED dataVars

OpenExport(r) ==
    \E c \in DOMAIN rows : Loading(r, "idle", [pc |-> "row", case |-> c])

\* _load_case_relations: custody first, then evidence, then notes.
ReadCustody(r) ==
    Loading(r, "row", [pc |-> "custody", case |-> export[r].case, log |-> custody[export[r].case]])

ReadItems(r) ==
    Loading(r, "custody",
            [pc |-> "items", case |-> export[r].case, log |-> export[r].log,
             evidence |-> evidence[export[r].case]])

\* build_timeline: the place of each custody entry among the events and the
\* custody entries, sorted by timestamp.  Python's sort is stable and the
\* events come first in the unsorted list, so an entry comes after the events
\* that are not later and the entries that are earlier or before it in the log.
BuildTimeline(log, events) ==
    LET Before(j, i) == log[j].ts < log[i].ts \/ (log[j].ts = log[i].ts /\ j < i)
    IN  [i \in DOMAIN log |-> 1 + Cardinality({e \in events : e <= log[i].ts})
                                + Cardinality({j \in DOMAIN log : Before(j, i)})]

\* Mutant of ReadNotes: the custody log is loaded last
ReadNotesLogLast(r) ==
    LET c == export[r].case IN
    Loading(r, "items",
        [pc |-> "done", case |-> c, log |-> custody[c], evidence |-> export[r].evidence,
         notes |-> notes[c], timeline |-> BuildTimeline(custody[c], {})])

\* The notes, then the linked events the event store still has.
ReadNotes(r) ==
    \E found \in SUBSET EventTimes :
        Loading(r, "items",
            [pc |-> "done", case |-> export[r].case, log |-> export[r].log,
             evidence |-> export[r].evidence, notes |-> notes[export[r].case],
             timeline |-> BuildTimeline(export[r].log, found)])

Deliver(r) ==
    /\ export[r].pc = "done"
    /\ export' = [export EXCEPT ![r] = Idle]
    /\ UNCHANGED <<lock, req, ops, now, faults, lastSet, cutOff>> /\ UNCHANGED dataVars

Tick ==
    /\ now < MaxTime /\ now' = now + 1
    /\ UNCHANGED <<lock, req, export, ops, faults, lastSet, cutOff>> /\ UNCHANGED dataVars

Next ==
    \/ \E c \in CaseIds : CreateCase(c)
    \/ \E w \in Writers, c \in CaseIds, o \in Operation : Request(w, c, o)
    \/ \E w \in Writers : \/ Load(w) \/ Refuse(w) \/ Update(w)
                          \/ AppendCustody(w) \/ DatabaseFails(w)
    \/ \E r \in Readers : \/ OpenExport(r) \/ ReadCustody(r) \/ ReadItems(r)
                          \/ ReadNotes(r) \/ Deliver(r)
    \/ Crash
    \/ Tick

Spec == Init /\ [][Next]_vars

-----------------------------------------------------------------------------

\* The custody log of a case is one unbroken chain, whatever requests on the
\* case overlap or fail: the hash of every entry covers exactly the entries
\* before it (case_manager.py, "tamper-evident chaining").
CustodyChain ==
    \A c \in CaseIds : \A i \in DOMAIN custody[c] :
        custody[c][i].hash = [j \in 1 .. i |-> custody[c][j].payload]

\* No operator's change is undone by another request that wrote the row back
\* from an older copy, and every stored change has its entry in the custody
\* log, except while its request is between the two writes or after a fault
\* has cut it off there.
ChangesKeptAndLogged ==
    \A c \in DOMAIN rows :
        LET stored == {rows[c][f] : f \in Fields} \cup notes[c] \cup evidence[c]
            logged == {custody[c][i].payload.op : i \in DOMAIN custody[c]}
        IN /\ \A f \in Fields : rows[c][f] = lastSet[c][f]
           /\ stored \subseteq logged \cup cutOff \cup Unlogged(Writers)

\* An exported bundle never shows a custody entry without the note or the
\* item of evidence it is about, and its timeline lists the custody entries
\* in the order of the chain, although the export takes no lock.
BundleConsistent ==
    \A r \in Readers : export[r].pc = "done" =>
        LET b == export[r]
            about(a) == {b.log[i].payload.op : i \in {j \in DOMAIN b.log :
                                                        b.log[j].payload.action = a}}
        IN /\ about("note_added") \subseteq b.notes
           /\ about("evidence_added") \subseteq b.evidence
           /\ \A i, j \in DOMAIN b.timeline : i < j => b.timeline[i] < b.timeline[j]

=============================================================================
