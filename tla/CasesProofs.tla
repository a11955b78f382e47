----------------------------- MODULE CasesProofs -----------------------------
(***************************************************************************)
(* Forensic cases, for any number of cases, requests, exports, changes,    *)
(* faults and linked events.                                               *)
(***************************************************************************)
EXTENDS Cases, FiniteSetTheorems, SequenceTheorems, TLAPS

-----------------------------------------------------------------------------
(* Types.                                                                  *)

Row     == [title : Nat, status : Nat, value : RouterStatuses \cup SchemaStatuses]
Payload == [action : {"case_opened", "case_updated", "note_added", "evidence_added", "case_closed"}, op : Nat]
Record  == [payload : Payload, ts : Nat, hash : Seq(Payload)]
Copy    == [row : Row, log : Seq(Record), notes : SUBSET Nat, evidence : SUBSET Nat]

Queued  == [pc : {"queued"}, case : CaseIds, op : Operation, id : Nat]
Working == [pc : {"loaded", "updated"}, case : CaseIds, op : Operation, id : Nat, copy : Copy]

Bundle ==
    {Idle} \cup [pc : {"row"}, case : CaseIds]
           \cup [pc : {"custody"}, case : CaseIds, log : Seq(Record)]
           \cup [pc : {"items"}, case : CaseIds, log : Seq(Record), evidence : SUBSET Nat]
           \cup [pc : {"done"}, case : CaseIds, log : Seq(Record), evidence : SUBSET Nat,
                 notes : SUBSET Nat, timeline : Seq(Nat)]

TableType ==
    /\ DOMAIN rows \subseteq CaseIds /\ rows \in [DOMAIN rows -> Row]
    /\ custody \in [CaseIds -> Seq(Record)]
    /\ notes \in [CaseIds -> SUBSET Nat] /\ evidence \in [CaseIds -> SUBSET Nat]
    /\ lastSet \in [CaseIds -> [Fields -> Nat]]
    /\ now \in Nat
RequestType ==
    /\ lock \in [CaseIds -> Writers \cup {Free}]
    /\ req \in [Writers -> {Idle} \cup Queued \cup Working]
    /\ ops \in Nat
ExportType == export \in [Readers -> Bundle]
TypeOK == TableType /\ RequestType /\ ExportType

-----------------------------------------------------------------------------
(* The inductive invariants.                                               *)

Busy(w) == req[w].pc \in {"loaded", "updated"}
Stored(w) == req[w].pc = "updated"

(* A request at work holds the lock of its case, so what it loaded is what *)
(* the tables hold, but for its own change.                                *)
LockInv ==
    \A w \in Writers : Busy(w) =>
        /\ lock[req[w].case] = w /\ req[w].case \in DOMAIN rows
        /\ req[w].copy.log = custody[req[w].case]
        /\ ~ Stored(w) => req[w].copy.row = rows[req[w].case]

(* The chain of a log, and the order of its time stamps.                   *)
Chained(log) == \A i \in DOMAIN log : log[i].hash = [j \in 1 .. i |-> log[j].payload]
Ordered(log) == \A i, j \in DOMAIN log : i < j => log[i].ts <= log[j].ts
ChainInv == \A c \in CaseIds : /\ Chained(custody[c]) /\ Ordered(custody[c])
                               /\ \A i \in DOMAIN custody[c] : custody[c][i].ts <= now

(* What is stored of a case was set last, and is logged, cut off, or in    *)
(* the hands of a request on that case; a copy has no item of its own.     *)
Items(c)  == {rows[c][f] : f \in Fields} \cup notes[c] \cup evidence[c]
Logged(c) == {custody[c][i].payload.op : i \in DOMAIN custody[c]}
Pending(c) == {req[w].id : w \in {v \in Writers : Stored(v) /\ req[v].case = c}}
RowInv ==
    /\ \A c \in DOMAIN rows : \A f \in Fields : rows[c][f] = lastSet[c][f]
    /\ \A c \in CaseIds \ DOMAIN rows : notes[c] = {} /\ evidence[c] = {} /\ lastSet[c] = [f \in Fields |-> 0]
    /\ \A w \in Writers : Busy(w) =>
          /\ req[w].copy.notes \subseteq notes[req[w].case]
          /\ req[w].copy.evidence \subseteq evidence[req[w].case]
LoggedInv == \A c \in DOMAIN rows : Items(c) \subseteq Logged(c) \cup cutOff \cup Pending(c)

(* What a log says was added is there.                                     *)
About(log, a, set) == \A i \in DOMAIN log : log[i].payload.action = a => log[i].payload.op \in set
AboutInv ==
    /\ \A c \in CaseIds : /\ About(custody[c], "note_added", notes[c])
                          /\ About(custody[c], "evidence_added", evidence[c])
    /\ \A w \in Writers : Stored(w) =>
          /\ req[w].op.kind = "note_added" => req[w].id \in notes[req[w].case]
          /\ req[w].op.kind = "evidence_added" => req[w].id \in evidence[req[w].case]

ExportInv ==
    \A r \in Readers :
        /\ export[r].pc \in {"custody", "items"} =>
             /\ Ordered(export[r].log) /\ About(export[r].log, "note_added", notes[export[r].case])
        /\ export[r].pc = "custody" => About(export[r].log, "evidence_added", evidence[export[r].case])
        /\ export[r].pc = "items" => About(export[r].log, "evidence_added", export[r].evidence)

IInv == /\ TypeOK /\ LockInv /\ ChainInv /\ RowInv /\ LoggedInv /\ AboutInv /\ ExportInv
        /\ BundleConsistent

-----------------------------------------------------------------------------
(* The operators.                                                          *)

LEMMA OperationFacts ==
    ASSUME NEW o \in Operation
    PROVE  /\ o.kind \in {"case_updated", "note_added", "evidence_added", "case_closed"}
           /\ o.fields \subseteq Fields /\ o.value \in RouterStatuses \cup SchemaStatuses
           /\ o.kind \in {"note_added", "evidence_added"} => o.fields = {}
           /\ o.kind = "case_closed" => o.fields = {"status"} /\ o.value = "resolved"
  BY DEF Operation, Fields, RouterStatuses, SchemaStatuses

LEMMA ReqFacts ==
    ASSUME RequestType, NEW w \in Writers
    PROVE  /\ req[w].pc = "queued" => /\ req[w] \in Queued /\ req[w].case \in CaseIds
                                      /\ req[w].op \in Operation /\ req[w].id \in Nat
           /\ Busy(w) => /\ req[w] \in Working /\ req[w].case \in CaseIds
                         /\ req[w].op \in Operation /\ req[w].id \in Nat /\ req[w].copy \in Copy
  <1>1. req[w] \in {Idle} \cup Queued \cup Working
    BY DEF RequestType
  <1>2. req[w] = Idle => req[w].pc = "idle"
    BY DEF Idle
  <1>3. req[w] \in Queued => /\ req[w].pc = "queued" /\ req[w].case \in CaseIds
                             /\ req[w].op \in Operation /\ req[w].id \in Nat
    BY DEF Queued
  <1>4. req[w] \in Working => /\ req[w].pc \in {"loaded", "updated"} /\ req[w].case \in CaseIds
                              /\ req[w].op \in Operation /\ req[w].id \in Nat /\ req[w].copy \in Copy
    BY DEF Working
  <1> QED BY <1>1, <1>2, <1>3, <1>4 DEF Busy

\* What a change does to the copy.
Effect(copy, o, id, new) ==
    /\ new \in Copy
    /\ \A f \in Fields : new.row[f] = IF f \in o.fields THEN id ELSE copy.row[f]
    /\ new.notes = copy.notes \cup (IF o.kind = "note_added" THEN {id} ELSE {})
    /\ new.evidence = copy.evidence \cup (IF o.kind = "evidence_added" THEN {id} ELSE {})

LEMMA ChangedFacts ==
    ASSUME NEW copy \in Copy, NEW o \in Operation, NEW id \in Nat
    PROVE  Effect(copy, o, id, Changed(copy, o, id))
  <1>0. copy.row \in Row /\ copy.log \in Seq(Record) /\ copy.notes \subseteq Nat /\ copy.evidence \subseteq Nat
    BY DEF Copy
  <1>1. CASE o.kind = "case_updated"
    <2> DEFINE row == [title  |-> IF "title" \in o.fields THEN id ELSE copy.row.title,
                       status |-> IF "status" \in o.fields THEN id ELSE copy.row.status,
                       value  |-> IF "status" \in o.fields THEN o.value ELSE copy.row.value]
    <2>1. row \in Row /\ \A f \in Fields : row[f] = IF f \in o.fields THEN id ELSE copy.row[f]
      BY <1>0, OperationFacts DEF Row, Fields
    <2>2. Changed(copy, o, id) = [copy EXCEPT !.row = row]
      BY <1>1 DEF Changed, UpdateCase
    <2> HIDE DEF row
    <2>3. [copy EXCEPT !.row = row] \in Copy
      BY <1>0, <2>1 DEF Copy
    <2>4. /\ [copy EXCEPT !.row = row].row = row /\ [copy EXCEPT !.row = row].notes = copy.notes
          /\ [copy EXCEPT !.row = row].evidence = copy.evidence
      BY DEF Copy
    <2> QED BY <1>1, <2>1, <2>2, <2>3, <2>4 DEF Effect
  <1>2. CASE o.kind = "note_added"
    <2>1. Changed(copy, o, id) = [copy EXCEPT !.notes = copy.notes \cup {id}]
      BY <1>2 DEF Changed, AddNote
    <2>2. [copy EXCEPT !.notes = copy.notes \cup {id}] \in Copy
      BY <1>0 DEF Copy
    <2> QED BY <1>2, <2>1, <2>2, OperationFacts DEF Effect, Copy
  <1>3. CASE o.kind = "evidence_added"
    <2>1. Changed(copy, o, id) = [copy EXCEPT !.evidence = copy.evidence \cup {id}]
      BY <1>3 DEF Changed, AddEvidence
    <2>2. [copy EXCEPT !.evidence = copy.evidence \cup {id}] \in Copy
      BY <1>0 DEF Copy
    <2> QED BY <1>3, <2>1, <2>2, OperationFacts DEF Effect, Copy
  <1>4. CASE o.kind = "case_closed"
    <2> DEFINE row == [copy.row EXCEPT !.status = id, !.value = "resolved"]
    <2>0. o.fields = {"status"}
      BY <1>4, OperationFacts
    <2>a. row \in Row
      BY <1>0 DEF Row, SchemaStatuses
    <2>b. row.title = copy.row.title /\ row.status = id
      BY <1>0 DEF Row
    <2>1. row \in Row /\ \A f \in Fields : row[f] = IF f \in o.fields THEN id ELSE copy.row[f]
      <3> HIDE DEF row
      <3>1. ASSUME NEW f \in Fields PROVE row[f] = IF f \in o.fields THEN id ELSE copy.row[f]
        <4>1. CASE f = "title"
          BY <4>1, <2>0, <2>b
        <4>2. CASE f = "status"
          BY <4>2, <2>0, <2>b
        <4> QED BY <4>1, <4>2 DEF Fields
      <3> QED BY <2>a, <3>1
    <2>2. Changed(copy, o, id) = [copy EXCEPT !.row = row]
      <3>1. Changed(copy, o, id) = [copy EXCEPT !.row.status = id, !.row.value = "resolved"]
        BY <1>4 DEF Changed, CloseCase
      <3> QED BY <1>0, <3>1 DEF Copy, Row
    <2> HIDE DEF row
    <2>3. [copy EXCEPT !.row = row] \in Copy
      BY <1>0, <2>1 DEF Copy
    <2>4. /\ [copy EXCEPT !.row = row].row = row /\ [copy EXCEPT !.row = row].notes = copy.notes
          /\ [copy EXCEPT !.row = row].evidence = copy.evidence
      BY DEF Copy
    <2> QED BY <1>4, <2>1, <2>2, <2>3, <2>4 DEF Effect
  <1> QED BY <1>1, <1>2, <1>3, <1>4, OperationFacts

LEMMA AppendFacts ==
    ASSUME NEW S, NEW s \in Seq(S), NEW e \in S
    PROVE  /\ Append(s, e) \in Seq(S) /\ Len(Append(s, e)) = Len(s) + 1
           /\ DOMAIN Append(s, e) = DOMAIN s \cup {Len(s) + 1} /\ Len(s) + 1 \notin DOMAIN s
           /\ \A i \in DOMAIN s : Append(s, e)[i] = s[i] /\ i \in Nat /\ i < Len(s) + 1
           /\ Append(s, e)[Len(s) + 1] = e
  OBVIOUS

\* An entry made from a log continues the chain of that log.
LEMMA EntryFacts ==
    ASSUME now \in Nat, NEW log \in Seq(Record), Chained(log), NEW p \in Payload
    PROVE  /\ Entry(log, p) \in Record /\ Entry(log, p).payload = p /\ Entry(log, p).ts = now
           /\ Append(log, Entry(log, p)) \in Seq(Record)
           /\ Chained(Append(log, Entry(log, p)))
  <1>1. /\ LastHash(log) \in Seq(Payload) /\ Len(LastHash(log)) = Len(log)
        /\ \A j \in 1 .. Len(log) : LastHash(log)[j] = log[j].payload
    <2>1. CASE log = <<>>
      BY <2>1 DEF LastHash
    <2>2. CASE log # <<>>
      <3>1. Len(log) \in DOMAIN log /\ Len(log) \in Nat
        BY <2>2
      <3>2. LastHash(log) = [j \in 1 .. Len(log) |-> log[j].payload]
        BY <2>2, <3>1 DEF LastHash, Last, Chained
      <3>3. \A j \in 1 .. Len(log) : log[j].payload \in Payload
        <4>1. \A j \in 1 .. Len(log) : log[j] \in Record
          OBVIOUS
        <4> QED BY <4>1 DEF Record
      <3> QED BY <3>1, <3>2, <3>3
    <2> QED BY <2>1, <2>2
  <1>a. PICK prev \in Seq(Payload) : prev = LastHash(log)
    BY <1>1
  <1>b. Append(prev, p) \in Seq(Payload)
    BY AppendFacts
  <1>2. PICK h \in Seq(Payload) : h = Append(prev, p)
    BY <1>b
  <1>3. Len(h) = Len(log) + 1 /\ \A j \in 1 .. Len(log) : h[j] = log[j].payload
    BY <1>1, <1>a, <1>2
  <1>4. h[Len(log) + 1] = p
    BY <1>1, <1>a, <1>2
  <1>c. [payload |-> p, ts |-> now, hash |-> h] \in Record
    BY DEF Record
  <1>d. Entry(log, p) = [payload |-> p, ts |-> now, hash |-> h]
    BY <1>a, <1>2 DEF Entry, CustodyHash
  <1>5. PICK e \in Record : e = Entry(log, p) /\ e.payload = p /\ e.ts = now /\ e.hash = h
    BY <1>c, <1>d
  <1>6. /\ Append(log, e) \in Seq(Record) /\ DOMAIN Append(log, e) = DOMAIN log \cup {Len(log) + 1}
        /\ \A i \in DOMAIN log : Append(log, e)[i] = log[i] /\ i \in Nat /\ i < Len(log) + 1
        /\ Append(log, e)[Len(log) + 1] = e
    BY AppendFacts
  <1>7. ASSUME NEW i \in DOMAIN Append(log, e)
        PROVE  Append(log, e)[i].hash = [j \in 1 .. i |-> Append(log, e)[j].payload]
    <2>1. CASE i \in DOMAIN log
      <3>1. \A j \in 1 .. i : j \in DOMAIN log /\ Append(log, e)[j] = log[j]
        BY <2>1, <1>6
      <3>2. log[i].hash = [j \in 1 .. i |-> log[j].payload]
        BY <2>1 DEF Chained
      <3> QED BY <1>6, <2>1, <3>1, <3>2
    <2>2. CASE i = Len(log) + 1
      <3>1. \A j \in 1 .. i : h[j] = Append(log, e)[j].payload
        <4>1. ASSUME NEW j \in 1 .. i PROVE h[j] = Append(log, e)[j].payload
          <5>1. CASE j \in 1 .. Len(log)
            BY <1>3, <1>6, <5>1
          <5>2. CASE j = Len(log) + 1
            BY <1>4, <1>5, <1>6, <5>2
          <5> QED BY <2>2, <4>1, <5>1, <5>2
        <4> QED BY <4>1
      <3>2. h = [j \in 1 .. i |-> h[j]]
        BY <1>3, <2>2
      <3>3. [j \in 1 .. i |-> h[j]] = [j \in 1 .. i |-> Append(log, e)[j].payload]
        BY <3>1
      <3> QED BY <1>5, <1>6, <2>2, <3>2, <3>3
    <2> QED BY <1>6, <2>1, <2>2
  <1> QED BY <1>5, <1>6, <1>7 DEF Chained

-----------------------------------------------------------------------------
(* What the steps leave alone, and what they do to the tables.             *)

TablesKept == UNCHANGED <<rows, custody, notes, evidence, lastSet>> /\ now' \in {now, now + 1}

LEMMA TableCases ==
    ASSUME [Next]_vars
    PROVE  \/ TablesKept /\ export' \in [Readers -> {Idle}] /\ Crash
           \/ TablesKept /\ UNCHANGED <<lock, req, ops, cutOff>>
           \/ TablesKept /\ \E w \in Writers : \/ \E c \in CaseIds, o \in Operation : Request(w, c, o)
                                               \/ Load(w) \/ Refuse(w) \/ DatabaseFails(w)
           \/ \E c \in CaseIds : CreateCase(c)
           \/ \E w \in Writers : Update(w) \/ AppendCustody(w)
  <1>1. CASE \E c \in CaseIds : CreateCase(c)
    BY <1>1
  <1>2. CASE \E w \in Writers, c \in CaseIds, o \in Operation : Request(w, c, o)
    BY <1>2 DEF Request, TablesKept, dataVars
  <1>3. ASSUME NEW w \in Writers, Load(w) \/ Refuse(w) \/ DatabaseFails(w) PROVE TablesKept
    BY <1>3 DEF Load, Refuse, DatabaseFails, TablesKept, dataVars
  <1>4. ASSUME NEW r \in Readers,
               OpenExport(r) \/ ReadCustody(r) \/ ReadItems(r) \/ ReadNotes(r) \/ Deliver(r)
        PROVE  TablesKept /\ UNCHANGED <<lock, req, ops, cutOff>>
    BY <1>4 DEF OpenExport, ReadCustody, ReadItems, ReadNotes, Deliver, Loading, TablesKept, dataVars
  <1>5. CASE Crash
    BY <1>5 DEF Crash, TablesKept, dataVars
  <1>6. CASE Tick
    BY <1>6 DEF Tick, TablesKept, dataVars
  <1>7. CASE UNCHANGED vars
    BY <1>7 DEF vars, TablesKept
  <1> QED BY <1>1, <1>2, <1>3, <1>4, <1>5, <1>6, <1>7 DEF Next

\* create_case: an empty case with a log of one entry.
Created(c, e) ==
    /\ c \in CaseIds /\ c \notin DOMAIN rows /\ e \in Record
    /\ e.payload = [action |-> "case_opened", op |-> 0] /\ e.ts = now
    /\ Chained(<<e>>) /\ <<e>> \in Seq(Record)
    /\ DOMAIN rows' = DOMAIN rows \cup {c} /\ rows' \in [DOMAIN rows' -> Row]
    /\ rows'[c] = NewRow /\ \A d \in DOMAIN rows : rows'[d] = rows[d]
    /\ custody' = [custody EXCEPT ![c] = <<e>>]
    /\ UNCHANGED <<notes, evidence, lock, req, export, ops, now, faults, lastSet, cutOff>>

LEMMA CreateFacts ==
    ASSUME TableType, NEW c \in CaseIds, CreateCase(c)
    PROVE  \E e \in Record : Created(c, e)
  <1>1. PICK p \in Payload : p = [action |-> "case_opened", op |-> 0]
    BY DEF Payload
  <1>2. <<>> \in Seq(Record) /\ Chained(<<>>) /\ now \in Nat
    BY DEF Chained, TableType
  <1>3. /\ Entry(<<>>, p) \in Record /\ Entry(<<>>, p).payload = p /\ Entry(<<>>, p).ts = now
        /\ Append(<<>>, Entry(<<>>, p)) \in Seq(Record)
        /\ Chained(Append(<<>>, Entry(<<>>, p)))
    BY <1>2, EntryFacts
  <1>4. PICK e \in Record : e = Entry(<<>>, p)
    BY <1>3
  <1>5. Append(<<>>, e) = <<e>>
    OBVIOUS
  <1>6. c \notin DOMAIN rows /\ rows' = [d \in DOMAIN rows \cup {c} |-> IF d = c THEN NewRow ELSE rows[d]]
    BY DEF CreateCase, InsertCase, Exists
  <1>7. NewRow \in Row
    BY DEF NewRow, Row, SchemaStatuses
  <1>8. DOMAIN rows' = DOMAIN rows \cup {c} /\ rows' \in [DOMAIN rows' -> Row]
    BY <1>6, <1>7 DEF TableType
  <1>9. rows'[c] = NewRow /\ \A d \in DOMAIN rows : rows'[d] = rows[d]
    BY <1>6
  <1>10. custody' = [custody EXCEPT ![c] = <<e>>]
    BY <1>1, <1>4 DEF CreateCase, InsertCase
  <1>11. UNCHANGED <<notes, evidence, lock, req, export, ops, now, faults, lastSet, cutOff>>
    BY DEF CreateCase
  <1> QED BY <1>1, <1>3, <1>4, <1>5, <1>6, <1>8, <1>9, <1>10, <1>11 DEF Created

\* SQLCaseRepository.update, with what a change does to the copy.
Stores(w, new) ==
    LET c == req[w].case IN
    /\ req[w].pc = "loaded" /\ Effect(req[w].copy, req[w].op, req[w].id, new)
    /\ rows'     = [rows EXCEPT ![c] = new.row]
    /\ notes'    = [notes EXCEPT ![c] = notes[c] \cup new.notes]
    /\ evidence' = [evidence EXCEPT ![c] = evidence[c] \cup new.evidence]
    /\ lastSet'  = [lastSet EXCEPT ![c] =
                      [f \in Fields |-> IF f \in req[w].op.fields THEN req[w].id ELSE lastSet[c][f]]]
    /\ req' = [req EXCEPT ![w].pc = "updated"]
    /\ UNCHANGED <<custody, lock, export, ops, now, faults, cutOff>>

LEMMA UpdateFacts ==
    ASSUME TypeOK, NEW w \in Writers, Update(w)
    PROVE  \E new \in Copy : Stores(w, new)
  <1>1. Busy(w) /\ req[w].pc = "loaded"
    BY DEF Busy, Update
  <1>2. req[w].case \in CaseIds /\ req[w].op \in Operation /\ req[w].id \in Nat /\ req[w].copy \in Copy
    BY <1>1, ReqFacts DEF TypeOK
  <1>3. Effect(req[w].copy, req[w].op, req[w].id, Changed(req[w].copy, req[w].op, req[w].id))
    BY <1>2, ChangedFacts
  <1>4. PICK new \in Copy : new = Changed(req[w].copy, req[w].op, req[w].id)
    BY <1>3 DEF Effect
  <1>5. Effect(req[w].copy, req[w].op, req[w].id, new)
    BY <1>3, <1>4
  <1>6. /\ rows'     = [rows EXCEPT ![req[w].case] = new.row]
        /\ notes'    = [notes EXCEPT ![req[w].case] = notes[req[w].case] \cup new.notes]
        /\ evidence' = [evidence EXCEPT ![req[w].case] = evidence[req[w].case] \cup new.evidence]
        /\ lastSet'  = [lastSet EXCEPT ![req[w].case] =
              [f \in Fields |-> IF f \in req[w].op.fields THEN req[w].id ELSE lastSet[req[w].case][f]]]
        /\ req' = [req EXCEPT ![w].pc = "updated"]
        /\ UNCHANGED <<custody, lock, export, ops, now, faults, cutOff>>
    BY <1>4 DEF Update
  <1> QED BY <1>1, <1>5, <1>6 DEF Stores

\* A request that ends gives its lock back.
Ends(w) ==
    /\ Busy(w) /\ req' = [req EXCEPT ![w] = Idle]
    /\ lock' = [lock EXCEPT ![req[w].case] = Free] /\ UNCHANGED <<export, ops>>

LEMMA EndFacts ==
    ASSUME TypeOK, LockInv, NEW w \in Writers, Refuse(w) \/ DatabaseFails(w) \/ AppendCustody(w)
    PROVE  Ends(w)
  <1>1. /\ Busy(w) /\ req' = [req EXCEPT ![w] = Idle] /\ UNCHANGED <<export, ops>>
        /\ lock' = [lock EXCEPT ![req[w].case] = IF lock[req[w].case] = w THEN Free ELSE lock[req[w].case]]
    BY DEF Refuse, DatabaseFails, AppendCustody, Release, Busy
  <1>2. lock[req[w].case] = w
    BY <1>1 DEF LockInv
  <1> QED BY <1>1, <1>2 DEF Ends

\* _append_custody, when the log loaded is still the log of the case.
Appends(w, e) ==
    LET c == req[w].case IN
    /\ req[w].pc = "updated" /\ e \in Record /\ e.ts = now
    /\ e.payload = [action |-> req[w].op.kind, op |-> req[w].id]
    /\ Append(custody[c], e) \in Seq(Record) /\ Chained(Append(custody[c], e))
    /\ custody' = [custody EXCEPT ![c] = Append(custody[c], e)]
    /\ UNCHANGED <<rows, notes, evidence, now, lastSet, cutOff>>

LEMMA CustodyFacts ==
    ASSUME TypeOK, LockInv, ChainInv, NEW w \in Writers, AppendCustody(w)
    PROVE  \E e \in Record : Appends(w, e)
  <1>1. Busy(w) /\ req[w].pc = "updated"
    BY DEF Busy, AppendCustody
  <1>2. req[w].case \in CaseIds /\ req[w].op \in Operation /\ req[w].id \in Nat
    BY <1>1, ReqFacts DEF TypeOK
  <1>3. PICK p \in Payload : p = [action |-> req[w].op.kind, op |-> req[w].id]
    BY <1>2, OperationFacts DEF Payload
  <1>4. PICK log \in Seq(Record) : log = custody[req[w].case] /\ log = req[w].copy.log
    BY <1>1, <1>2 DEF TypeOK, TableType, LockInv
  <1>5. Chained(log) /\ now \in Nat
    BY <1>2, <1>4 DEF ChainInv, TypeOK, TableType
  <1>6. /\ Entry(log, p) \in Record /\ Entry(log, p).payload = p /\ Entry(log, p).ts = now
        /\ Append(log, Entry(log, p)) \in Seq(Record)
        /\ Chained(Append(log, Entry(log, p)))
    BY <1>5, EntryFacts
  <1>7. PICK e \in Record : e = Entry(log, p)
    BY <1>6
  <1>8. custody' = [custody EXCEPT ![req[w].case] = Append(custody[req[w].case], e)]
    BY <1>3, <1>4, <1>7 DEF AppendCustody
  <1>9. UNCHANGED <<rows, notes, evidence, now, lastSet, cutOff>>
    BY DEF AppendCustody
  <1> QED BY <1>1, <1>3, <1>4, <1>6, <1>7, <1>8, <1>9 DEF Appends

LEMMA TableTypeStep ==
    ASSUME IInv, [Next]_vars
    PROVE  TableType'
  <1>0. TableType
    BY DEF IInv, TypeOK
  <1>1. CASE TablesKept
    BY <1>0, <1>1 DEF TablesKept, TableType
  <1>2. ASSUME NEW c \in CaseIds, CreateCase(c) PROVE TableType'
    <2>1. PICK e \in Record : Created(c, e)
      BY <1>0, <1>2, CreateFacts
    <2>2. /\ <<e>> \in Seq(Record) /\ custody' = [custody EXCEPT ![c] = <<e>>]
          /\ DOMAIN rows' = DOMAIN rows \cup {c} /\ rows' \in [DOMAIN rows' -> Row]
          /\ UNCHANGED <<notes, evidence, lastSet, now>>
      BY <2>1 DEF Created
    <2>3. PICK log \in Seq(Record) : log = <<e>>
      BY <2>2
    <2>4. custody' \in [CaseIds -> Seq(Record)]
      BY <1>0, <2>2, <2>3 DEF TableType
    <2> QED BY <1>0, <2>2, <2>4 DEF TableType
  <1>3. ASSUME NEW w \in Writers, Update(w) PROVE TableType'
    <2>1. PICK new \in Copy : Stores(w, new)
      BY <1>3, UpdateFacts DEF IInv
    <2>2. Busy(w)
      BY <2>1 DEF Stores, Busy
    <2>3. PICK c \in CaseIds : c = req[w].case
      BY <2>2, ReqFacts DEF IInv, TypeOK
    <2>4. req[w].op \in Operation /\ req[w].id \in Nat
      BY <2>2, ReqFacts DEF IInv, TypeOK
    <2>5. new.row \in Row /\ new.notes \in SUBSET Nat /\ new.evidence \in SUBSET Nat
      BY DEF Copy
    <2>6. DOMAIN rows' = DOMAIN rows /\ rows' \in [DOMAIN rows' -> Row]
      BY <1>0, <2>1, <2>3, <2>5 DEF Stores, TableType
    <2>7. notes' \in [CaseIds -> SUBSET Nat] /\ evidence' \in [CaseIds -> SUBSET Nat]
      BY <1>0, <2>1, <2>3, <2>5 DEF Stores, TableType
    <2>8. PICK set \in [Fields -> Nat] :
             set = [f \in Fields |-> IF f \in req[w].op.fields THEN req[w].id ELSE lastSet[c][f]]
      BY <1>0, <2>4 DEF TableType
    <2>9. lastSet' \in [CaseIds -> [Fields -> Nat]]
      BY <1>0, <2>1, <2>3, <2>8 DEF Stores, TableType
    <2>10. UNCHANGED <<custody, now>>
      BY <2>1 DEF Stores
    <2> QED BY <1>0, <2>6, <2>7, <2>9, <2>10 DEF TableType
  <1>4. ASSUME NEW w \in Writers, AppendCustody(w) PROVE TableType'
    <2>1. PICK e \in Record : Appends(w, e)
      BY <1>4, CustodyFacts DEF IInv
    <2>2. custody' \in [CaseIds -> Seq(Record)]
      BY <1>0, <2>1 DEF TableType, Appends
    <2>3. UNCHANGED <<rows, notes, evidence, now, lastSet>>
      BY <2>1 DEF Appends
    <2> QED BY <1>0, <2>2, <2>3 DEF TableType
  <1> QED BY <1>1, <1>2, <1>3, <1>4, TableCases

LEMMA RequestTypeStep ==
    ASSUME IInv, [Next]_vars
    PROVE  RequestType'
  <1>0. RequestType /\ TableType /\ LockInv /\ TypeOK
    BY DEF IInv, TypeOK
  <1>1. CASE UNCHANGED <<lock, req, ops, cutOff>>
    BY <1>0, <1>1 DEF RequestType
  <1>2. CASE Crash
    BY <1>0, <1>2 DEF RequestType, Crash
  <1>3. ASSUME NEW w \in Writers, NEW c \in CaseIds, NEW o \in Operation, Request(w, c, o)
        PROVE  RequestType'
    <2>a. ops + 1 \in Nat
      BY <1>0 DEF RequestType
    <2>b. [pc |-> "queued", case |-> c, op |-> o, id |-> ops + 1] \in Queued
      BY <2>a DEF Queued
    <2>1. PICK q \in Queued : q = [pc |-> "queued", case |-> c, op |-> o, id |-> ops + 1]
      BY <2>b
    <2>2. req' = [req EXCEPT ![w] = q] /\ ops' = ops + 1 /\ UNCHANGED lock
      BY <1>3, <2>1 DEF Request
    <2> QED BY <1>0, <2>2 DEF RequestType
  <1>4. ASSUME NEW w \in Writers, Load(w) PROVE RequestType'
    <2>0. req[w].pc = "queued" /\ req[w].case \in CaseIds /\ req[w].op \in Operation /\ req[w].id \in Nat
      BY <1>0, <1>4, ReqFacts DEF Load
    <2>1. CASE Exists(req[w].case)
      <3>1. PICK copy \in Copy : copy = RowToCase(req[w].case)
        <4>1. /\ rows[req[w].case] \in Row /\ custody[req[w].case] \in Seq(Record)
              /\ notes[req[w].case] \in SUBSET Nat /\ evidence[req[w].case] \in SUBSET Nat
          BY <1>0, <2>0, <2>1 DEF TableType, Exists
        <4> QED BY <4>1 DEF RowToCase, Copy
      <3>2. PICK r \in Working : r = [pc |-> "loaded", case |-> req[w].case, op |-> req[w].op,
                                      id |-> req[w].id, copy |-> copy]
        BY <2>0 DEF Working
      <3>3. req' = [req EXCEPT ![w] = r] /\ lock' = [lock EXCEPT ![req[w].case] = w] /\ UNCHANGED ops
        BY <1>4, <2>1, <3>1, <3>2 DEF Load, AcquireLock
      <3> QED BY <1>0, <3>3 DEF RequestType
    <2>2. CASE ~ Exists(req[w].case)
      BY <1>0, <1>4, <2>2 DEF Load, RequestType
    <2> QED BY <2>1, <2>2
  <1>5. ASSUME NEW w \in Writers, Refuse(w) \/ DatabaseFails(w) \/ AppendCustody(w) PROVE RequestType'
    <2>1. Ends(w)
      BY <1>0, <1>5, EndFacts
    <2> QED BY <1>0, <2>1 DEF Ends, RequestType
  <1>6. ASSUME NEW w \in Writers, Update(w) PROVE RequestType'
    <2>1. Busy(w) /\ req' = [req EXCEPT ![w].pc = "updated"] /\ UNCHANGED <<lock, ops>>
      BY <1>6 DEF Update, Busy
    <2>2. req[w] \in Working
      BY <1>0, <2>1, ReqFacts
    <2>3. PICK r \in Working : r = [req[w] EXCEPT !.pc = "updated"]
      BY <2>2 DEF Working
    <2>4. req' = [req EXCEPT ![w] = r]
      BY <1>0, <2>1, <2>3 DEF RequestType
    <2> QED BY <1>0, <2>1, <2>4 DEF RequestType
  <1>7. ASSUME NEW c \in CaseIds, CreateCase(c) PROVE RequestType'
    BY <1>0, <1>7 DEF CreateCase, RequestType
  <1> QED BY <1>1, <1>2, <1>3, <1>4, <1>5, <1>6, <1>7, TableCases

-----------------------------------------------------------------------------
(* Exports.                                                                *)

LEMMA BundleFacts ==
    ASSUME ExportType, NEW r \in Readers
    PROVE  /\ export[r].pc \in {"row", "custody", "items", "done"} => export[r].case \in CaseIds
           /\ export[r].pc \in {"custody", "items", "done"} => export[r].log \in Seq(Record)
           /\ export[r].pc \in {"items", "done"} => export[r].evidence \in SUBSET Nat
           /\ export[r].pc \in {"idle", "row", "custody", "items", "done"}
  <1>1. export[r] \in Bundle
    BY DEF ExportType
  <1> QED BY <1>1 DEF Bundle, Idle

\* The places of the custody entries in a timeline; they follow the chain
\* when the time stamps of the log do.
LEMMA TimelineFacts ==
    ASSUME NEW log \in Seq(Record), NEW found \in SUBSET EventTimes
    PROVE  /\ BuildTimeline(log, found) \in Seq(Nat)
           /\ Ordered(log) => \A i, j \in DOMAIN BuildTimeline(log, found) :
                 i < j => BuildTimeline(log, found)[i] < BuildTimeline(log, found)[j]
  <1> DEFINE E(i) == {e \in found : e <= log[i].ts}
             B(i) == {j \in DOMAIN log : \/ log[j].ts < log[i].ts
                                         \/ log[j].ts = log[i].ts /\ j < i}
  <1>0. DOMAIN log = 1 .. Len(log) /\ Len(log) \in Nat /\ \A i \in DOMAIN log : log[i].ts \in Nat
    <2>1. \A i \in DOMAIN log : log[i] \in Record
      OBVIOUS
    <2> QED BY <2>1 DEF Record
  <1>1. IsFiniteSet(found) /\ IsFiniteSet(DOMAIN log)
    <2>1. IsFiniteSet(EventTimes)
      BY CasesAssumption
    <2>2. IsFiniteSet(found)
      BY <2>1, FS_Subset
    <2>3. IsFiniteSet(1 .. Len(log))
      BY <1>0, FS_Interval
    <2> QED BY <1>0, <2>2, <2>3
  <1>2. \A i \in DOMAIN log : IsFiniteSet(E(i)) /\ IsFiniteSet(B(i))
    <2>1. ASSUME NEW i \in DOMAIN log PROVE E(i) \subseteq found /\ B(i) \subseteq DOMAIN log
      OBVIOUS
    <2> HIDE DEF E, B
    <2> QED BY <1>1, <2>1, FS_Subset
  <1>3. \A i \in DOMAIN log : Cardinality(E(i)) \in Nat /\ Cardinality(B(i)) \in Nat
    <2> HIDE DEF E, B
    <2> QED BY <1>2, FS_CardinalityType
  <1>4. BuildTimeline(log, found) = [i \in DOMAIN log |-> 1 + Cardinality(E(i)) + Cardinality(B(i))]
    BY DEF BuildTimeline
  <1>5. ASSUME Ordered(log), NEW i \in DOMAIN log, NEW j \in DOMAIN log, i < j
        PROVE  Cardinality(E(i)) <= Cardinality(E(j)) /\ Cardinality(B(i)) < Cardinality(B(j))
    <2>1. log[i].ts <= log[j].ts /\ log[i].ts \in Nat /\ log[j].ts \in Nat /\ i \in Nat /\ j \in Nat
      BY <1>0, <1>5 DEF Ordered
    <2>2. E(i) \subseteq E(j)
      <3>1. found \subseteq Nat
        BY CasesAssumption
      <3>2. ASSUME NEW e \in found, e <= log[i].ts PROVE e <= log[j].ts
        BY <2>1, <3>1, <3>2
      <3> QED BY <3>2
    <2>3. B(i) \subseteq B(j)
      <3>1. ASSUME NEW k \in DOMAIN log, log[k].ts < log[i].ts \/ (log[k].ts = log[i].ts /\ k < i)
            PROVE  log[k].ts < log[j].ts \/ (log[k].ts = log[j].ts /\ k < j)
        <4>1. k \in Nat /\ log[k].ts \in Nat
          BY <1>0
        <4> QED BY <1>5, <2>1, <3>1, <4>1
      <3> QED BY <3>1
    <2>4. i \in B(j) /\ i \notin B(i)
      BY <1>0, <1>5, <2>1
    <2> HIDE DEF E, B
    <2>5. Cardinality(E(i)) <= Cardinality(E(j))
      BY <1>2, <2>2, FS_Subset
    <2>6. Cardinality(B(i)) <= Cardinality(B(j)) /\ (Cardinality(B(i)) = Cardinality(B(j)) => B(i) = B(j))
      BY <1>2, <2>3, FS_Subset
    <2> QED BY <1>3, <2>4, <2>5, <2>6
  <1> HIDE DEF E, B
  <1>6. PICK t : t = BuildTimeline(log, found)
    OBVIOUS
  <1>7. DOMAIN t = DOMAIN log /\ \A i \in DOMAIN log : t[i] = 1 + Cardinality(E(i)) + Cardinality(B(i)) /\ t[i] \in Nat
    BY <1>3, <1>4, <1>6
  <1>8. t \in Seq(Nat)
    <2>1. t = [i \in 1 .. Len(log) |-> t[i]]
      BY <1>0, <1>4, <1>6, <1>7
    <2> QED BY <1>0, <1>7, <2>1
  <1>9. ASSUME Ordered(log), NEW i \in DOMAIN t, NEW j \in DOMAIN t, i < j PROVE t[i] < t[j]
    BY <1>3, <1>5, <1>7, <1>9
  <1> QED BY <1>6, <1>8, <1>9

LEMMA ExportTypeStep ==
    ASSUME IInv, [Next]_vars
    PROVE  ExportType'
  <1>0. ExportType /\ TableType
    BY DEF IInv, TypeOK
  <1>1. CASE UNCHANGED export
    BY <1>0, <1>1 DEF ExportType
  <1>2. CASE Crash
    BY <1>2 DEF Crash, ExportType, Bundle
  <1>3. ASSUME NEW r \in Readers, NEW b \in Bundle, export' = [export EXCEPT ![r] = b] PROVE ExportType'
    BY <1>0, <1>3 DEF ExportType
  <1>4. ASSUME NEW r \in Readers, Deliver(r) PROVE ExportType'
    BY <1>0, <1>4 DEF Deliver, ExportType, Bundle
  <1>5. ASSUME NEW r \in Readers, OpenExport(r) PROVE ExportType'
    <2>1. PICK c \in CaseIds : Loading(r, "idle", [pc |-> "row", case |-> c])
      BY <1>0, <1>5 DEF OpenExport, TableType
    <2>2. [pc |-> "row", case |-> c] \in Bundle
      BY DEF Bundle
    <2> QED BY <1>3, <2>1, <2>2 DEF Loading
  <1>6. ASSUME NEW r \in Readers, ReadCustody(r) PROVE ExportType'
    <2>1. export[r].pc = "row"
      BY <1>6 DEF ReadCustody, Loading
    <2>2. PICK c \in CaseIds : c = export[r].case
      BY <1>0, <2>1, BundleFacts
    <2>3. custody[c] \in Seq(Record)
      BY <1>0 DEF TableType
    <2>4. [pc |-> "custody", case |-> c, log |-> custody[c]] \in Bundle
      BY <2>3 DEF Bundle
    <2> QED BY <1>3, <1>6, <2>2, <2>4 DEF ReadCustody, Loading
  <1>7. ASSUME NEW r \in Readers, ReadItems(r) PROVE ExportType'
    <2>1. export[r].pc = "custody"
      BY <1>7 DEF ReadItems, Loading
    <2>2. PICK c \in CaseIds : c = export[r].case
      BY <1>0, <2>1, BundleFacts
    <2>3. export[r].log \in Seq(Record) /\ evidence[c] \in SUBSET Nat
      BY <1>0, <2>1, BundleFacts DEF TableType
    <2>4. [pc |-> "items", case |-> c, log |-> export[r].log, evidence |-> evidence[c]] \in Bundle
      BY <2>3 DEF Bundle
    <2> QED BY <1>3, <1>7, <2>2, <2>4 DEF ReadItems, Loading
  <1>8. ASSUME NEW r \in Readers, ReadNotes(r) PROVE ExportType'
    <2>1. export[r].pc = "items"
      BY <1>8 DEF ReadNotes, Loading
    <2>2. PICK c \in CaseIds : c = export[r].case
      BY <1>0, <2>1, BundleFacts
    <2>3. export[r].log \in Seq(Record) /\ export[r].evidence \in SUBSET Nat /\ notes[c] \in SUBSET Nat
      BY <1>0, <2>1, BundleFacts DEF TableType
    <2>4. PICK found \in SUBSET EventTimes :
             Loading(r, "items", [pc |-> "done", case |-> export[r].case, log |-> export[r].log,
                                  evidence |-> export[r].evidence, notes |-> notes[export[r].case],
                                  timeline |-> BuildTimeline(export[r].log, found)])
      BY <1>8 DEF ReadNotes
    <2>5. PICK t \in Seq(Nat) : t = BuildTimeline(export[r].log, found)
      BY <2>3, TimelineFacts
    <2>6. [pc |-> "done", case |-> c, log |-> export[r].log, evidence |-> export[r].evidence,
           notes |-> notes[c], timeline |-> t] \in Bundle
      BY <2>3 DEF Bundle
    <2> QED BY <1>3, <2>2, <2>4, <2>5, <2>6 DEF Loading
  <1>9. ASSUME \/ \E w \in Writers : \/ \E c \in CaseIds, o \in Operation : Request(w, c, o)
                                     \/ Load(w) \/ Refuse(w) \/ DatabaseFails(w) \/ Update(w) \/ AppendCustody(w)
               \/ \E c \in CaseIds : CreateCase(c)
               \/ Tick
        PROVE UNCHANGED export
    BY <1>9 DEF Request, Load, Refuse, DatabaseFails, Update, AppendCustody, CreateCase, Tick
  <1>10. CASE UNCHANGED vars
    BY <1>1, <1>10 DEF vars
  <1> QED BY <1>1, <1>2, <1>4, <1>5, <1>6, <1>7, <1>8, <1>9, <1>10 DEF Next

-----------------------------------------------------------------------------
(* The lock.                                                               *)

LEMMA Apart ==
    ASSUME LockInv, NEW v \in Writers, NEW w \in Writers, v # w, Busy(v), Busy(w)
    PROVE  req[v].case # req[w].case
  BY DEF LockInv

Holds(v) ==
    Busy(v) => /\ lock[req[v].case] = v /\ req[v].case \in DOMAIN rows
               /\ req[v].copy.log = custody[req[v].case]
               /\ ~ Stored(v) => req[v].copy.row = rows[req[v].case]

\* A request whose case no step touches keeps what it holds.
LEMMA HoldsKept ==
    ASSUME TypeOK, LockInv, NEW v \in Writers, req'[v] = req[v],
           Busy(v) => /\ lock'[req[v].case] = lock[req[v].case]
                      /\ req[v].case \in DOMAIN rows' /\ rows'[req[v].case] = rows[req[v].case]
                      /\ custody'[req[v].case] = custody[req[v].case]
    PROVE  Holds(v)'
  <1>1. Holds(v)
    BY DEF LockInv, Holds
  <1> QED BY <1>1 DEF Holds, Busy, Stored

LEMMA LockStep ==
    ASSUME IInv, [Next]_vars
    PROVE  LockInv'
  <1>0. TypeOK /\ RequestType /\ TableType /\ LockInv /\ ChainInv
    BY DEF IInv, TypeOK
  <1> SUFFICES ASSUME NEW v \in Writers PROVE Holds(v)'
    BY DEF LockInv, Holds, Busy, Stored
  <1>1. CASE Crash
    BY <1>1 DEF Crash, Holds, Busy, Idle
  <1>2. CASE TablesKept /\ UNCHANGED <<lock, req, ops, cutOff>>
    <2>1. Busy(v) => req[v].case \in DOMAIN rows
      BY <1>0 DEF LockInv
    <2> QED BY <1>0, <1>2, <2>1, HoldsKept DEF TablesKept
  <1>3. ASSUME NEW w \in Writers, NEW c \in CaseIds, NEW o \in Operation, Request(w, c, o), TablesKept
        PROVE  Holds(v)'
    <2>1. Busy(v) => req[v].case \in DOMAIN rows
      BY <1>0 DEF LockInv
    <2>2. CASE v # w
      <3>1. req'[v] = req[v] /\ UNCHANGED lock
        BY <1>0, <1>3, <2>2 DEF Request, RequestType
      <3> QED BY <1>0, <1>3, <2>1, <3>1, HoldsKept DEF TablesKept
    <2>3. CASE v = w
      <3>1. req'[v].pc = "queued"
        BY <1>0, <1>3, <2>3 DEF Request, RequestType
      <3> QED BY <3>1 DEF Holds, Busy
    <2> QED BY <2>2, <2>3
  <1>4. ASSUME NEW w \in Writers, Load(w), TablesKept PROVE Holds(v)'
    <2>0. req[w].pc = "queued" /\ req[w].case \in CaseIds /\ lock[req[w].case] = Free
      BY <1>0, <1>4, ReqFacts DEF Load, AcquireLock
    <2>1. Busy(v) => req[v].case \in DOMAIN rows /\ lock[req[v].case] = v
      BY <1>0 DEF LockInv
    <2>2. Busy(v) => req[v].case # req[w].case
      BY <2>0, <2>1, CasesAssumption
    <2>3. CASE v # w
      <3>a. \E x : req' = [req EXCEPT ![w] = x]
        BY <1>4 DEF Load
      <3>b. UNCHANGED lock \/ lock' = [lock EXCEPT ![req[w].case] = w]
        BY <1>4 DEF Load, AcquireLock
      <3>c. Busy(v) => req[v].case \in CaseIds
        BY <1>0, ReqFacts
      <3>1. req'[v] = req[v] /\ (Busy(v) => lock'[req[v].case] = lock[req[v].case])
        BY <1>0, <2>2, <2>3, <3>a, <3>b, <3>c DEF RequestType
      <3> QED BY <1>0, <1>4, <2>1, <3>1, HoldsKept DEF TablesKept
    <2>4. CASE v = w /\ Exists(req[w].case)
      <3>1. PICK c \in CaseIds : c = req[w].case
        BY <2>0
      <3>2. PICK copy : copy = RowToCase(c)
        OBVIOUS
      <3>3. copy.log = custody[c] /\ copy.row = rows[c]
        BY <3>2 DEF RowToCase
      <3>4. req'[v] = [pc |-> "loaded", case |-> c, op |-> req[w].op, id |-> req[w].id, copy |-> copy]
        BY <1>0, <1>4, <2>4, <3>1, <3>2 DEF Load, RequestType
      <3>5. req'[v].case = c /\ req'[v].copy = copy
        BY <3>4
      <3>6. lock'[c] = v
        BY <1>0, <1>4, <2>4, <3>1 DEF Load, AcquireLock, RequestType
      <3>7. c \in DOMAIN rows
        BY <2>4, <3>1 DEF Exists
      <3> QED BY <1>4, <3>3, <3>5, <3>6, <3>7 DEF Holds, TablesKept
    <2>5. CASE v = w /\ ~ Exists(req[w].case)
      <3>1. req'[v] = Idle
        BY <1>0, <1>4, <2>5 DEF Load, RequestType
      <3> QED BY <3>1 DEF Holds, Busy, Idle
    <2> QED BY <2>3, <2>4, <2>5
  <1>5. ASSUME NEW w \in Writers, Ends(w), UNCHANGED rows,
               \A c \in CaseIds : c # req[w].case => custody'[c] = custody[c]
        PROVE  Holds(v)'
    <2>1. Busy(v) => req[v].case \in DOMAIN rows /\ req[v].case \in CaseIds
      BY <1>0, ReqFacts DEF LockInv
    <2>2. CASE v # w
      <3>1. Busy(v) => req[v].case # req[w].case
        BY <1>0, <1>5, <2>2, Apart DEF Ends
      <3>2. req'[v] = req[v] /\ (Busy(v) => lock'[req[v].case] = lock[req[v].case])
        BY <1>0, <1>5, <2>1, <2>2, <3>1 DEF Ends, RequestType
      <3> QED BY <1>0, <1>5, <2>1, <3>1, <3>2, HoldsKept
    <2>3. CASE v = w
      <3>1. req'[v] = Idle
        BY <1>0, <1>5, <2>3 DEF Ends, RequestType
      <3> QED BY <3>1 DEF Holds, Busy, Idle
    <2> QED BY <2>2, <2>3
  <1>6. ASSUME NEW w \in Writers, Refuse(w) \/ DatabaseFails(w), TablesKept PROVE Holds(v)'
    BY <1>0, <1>5, <1>6, EndFacts DEF TablesKept
  <1>7. ASSUME NEW w \in Writers, AppendCustody(w) PROVE Holds(v)'
    <2>1. PICK e \in Record : Appends(w, e)
      BY <1>0, <1>7, CustodyFacts
    <2>2. \A c \in CaseIds : c # req[w].case => custody'[c] = custody[c]
      BY <1>0, <2>1 DEF Appends, TableType
    <2> QED BY <1>0, <1>5, <1>7, <2>1, <2>2, EndFacts DEF Appends
  <1>8. ASSUME NEW w \in Writers, Update(w) PROVE Holds(v)'
    <2>1. PICK new \in Copy : Stores(w, new)
      BY <1>0, <1>8, UpdateFacts
    <2>2. Busy(w)
      BY <2>1 DEF Stores, Busy
    <2>3. req[w].case \in DOMAIN rows /\ Holds(w)
      BY <1>0, <2>2 DEF LockInv, Holds
    <2>4. DOMAIN rows' = DOMAIN rows /\ UNCHANGED <<custody, lock>>
      BY <2>1 DEF Stores
    <2>5. CASE v # w
      <3>1. Busy(v) => req[v].case # req[w].case /\ req[v].case \in DOMAIN rows
        BY <1>0, <2>2, <2>5, Apart DEF LockInv
      <3>2. req'[v] = req[v] /\ (Busy(v) => rows'[req[v].case] = rows[req[v].case])
        BY <1>0, <2>1, <2>5, <3>1 DEF Stores, RequestType
      <3> QED BY <1>0, <2>4, <3>1, <3>2, HoldsKept
    <2>6. CASE v = w
      <3>1. req'[v] = [req[v] EXCEPT !.pc = "updated"] /\ req[v] \in Working
        BY <1>0, <2>1, <2>2, <2>6, ReqFacts DEF Stores, RequestType
      <3>2. req'[v].pc = "updated" /\ req'[v].case = req[v].case /\ req'[v].copy = req[v].copy
        BY <3>1 DEF Working
      <3> QED BY <2>2, <2>3, <2>4, <2>6, <3>2 DEF Holds, Busy, Stored
    <2> QED BY <2>5, <2>6
  <1>9. ASSUME NEW c \in CaseIds, CreateCase(c) PROVE Holds(v)'
    <2>1. PICK e \in Record : Created(c, e)
      BY <1>0, <1>9, CreateFacts
    <2>2. Busy(v) => req[v].case \in DOMAIN rows /\ req[v].case \in CaseIds /\ req[v].case # c
      BY <1>0, <2>1, ReqFacts DEF LockInv, Created
    <2>3. req'[v] = req[v] /\ UNCHANGED lock
      BY <2>1 DEF Created
    <2>4. Busy(v) => /\ req[v].case \in DOMAIN rows' /\ rows'[req[v].case] = rows[req[v].case]
                     /\ custody'[req[v].case] = custody[req[v].case]
      BY <1>0, <2>1, <2>2 DEF Created, TableType
    <2> QED BY <1>0, <2>3, <2>4, HoldsKept
  <1> QED BY <1>1, <1>2, <1>3, <1>4, <1>6, <1>7, <1>8, <1>9, TableCases

-----------------------------------------------------------------------------
(* The chain of custody.                                                   *)

LEMMA ChainStep ==
    ASSUME IInv, [Next]_vars
    PROVE  ChainInv'
  <1>0. TypeOK /\ TableType /\ LockInv /\ ChainInv /\ now \in Nat
    BY DEF IInv, TypeOK, TableType
  <1> DEFINE Good(log) == Chained(log) /\ Ordered(log) /\ \A i \in DOMAIN log : log[i].ts <= now
  <1>1. CASE TablesKept
    <2>1. now' \in Nat /\ now <= now'
      BY <1>0, <1>1 DEF TablesKept
    <2>2. ASSUME NEW c \in CaseIds, NEW i \in DOMAIN custody[c] PROVE custody[c][i].ts <= now'
      <3>1. custody[c][i] \in Record
        BY <1>0 DEF TableType
      <3>2. custody[c][i].ts \in Nat /\ custody[c][i].ts <= now
        BY <1>0, <3>1 DEF Record, ChainInv
      <3> QED BY <1>0, <2>1, <3>2
    <2>3. UNCHANGED custody
      BY <1>1 DEF TablesKept
    <2> QED BY <1>0, <2>2, <2>3 DEF ChainInv, Chained, Ordered
  <1>2. ASSUME UNCHANGED now, NEW c \in CaseIds, NEW log \in Seq(Record), Good(log),
               custody' = [custody EXCEPT ![c] = log]
        PROVE  ChainInv'
    <2>1. ASSUME NEW d \in CaseIds
          PROVE  custody'[d] = custody[d] \/ custody'[d] = log
      BY <1>0, <1>2 DEF TableType
    <2>2. ASSUME NEW d \in CaseIds PROVE Good(custody[d])
      BY <1>0 DEF ChainInv
    <2> QED BY <1>2, <2>1, <2>2 DEF ChainInv, Chained, Ordered
  <1>3. ASSUME NEW c \in CaseIds, CreateCase(c) PROVE ChainInv'
    <2>1. PICK e \in Record : Created(c, e)
      BY <1>0, <1>3, CreateFacts
    <2>2. <<e>> \in Seq(Record) /\ Chained(<<e>>) /\ custody' = [custody EXCEPT ![c] = <<e>>]
          /\ UNCHANGED now /\ e.ts = now
      BY <2>1 DEF Created
    <2>3. DOMAIN <<e>> = {1} /\ <<e>>[1] = e
      OBVIOUS
    <2>4. Good(<<e>>)
      BY <1>0, <2>2, <2>3 DEF Ordered
    <2> HIDE DEF Good
    <2> QED BY <1>2, <2>2, <2>4
  <1>4. ASSUME NEW w \in Writers, AppendCustody(w) PROVE ChainInv'
    <2>1. PICK e \in Record : Appends(w, e)
      BY <1>0, <1>4, CustodyFacts
    <2>2. Busy(w)
      BY <2>1 DEF Appends, Busy
    <2>3. PICK c \in CaseIds : c = req[w].case
      BY <1>0, <2>2, ReqFacts DEF TypeOK
    <2>4. PICK log \in Seq(Record) : log = custody[c]
      BY <1>0 DEF TableType
    <2>5. PICK new \in Seq(Record) : new = Append(log, e)
      BY <2>1, <2>3, <2>4 DEF Appends
    <2>6. /\ custody' = [custody EXCEPT ![c] = new] /\ UNCHANGED now /\ Chained(new) /\ e.ts = now
      BY <2>1, <2>3, <2>4, <2>5 DEF Appends
    <2>7. /\ DOMAIN new = DOMAIN log \cup {Len(log) + 1} /\ Len(log) \in Nat
          /\ \A i \in DOMAIN log : new[i] = log[i] /\ i \in Nat /\ i < Len(log) + 1
          /\ new[Len(log) + 1] = e
      BY <2>5, AppendFacts
    <2>8. Good(log)
      BY <1>0, <2>4 DEF ChainInv
    <2>9. Ordered(new)
      <3>1. ASSUME NEW i \in DOMAIN new, NEW j \in DOMAIN new, i < j PROVE new[i].ts <= new[j].ts
        <4>1. i \in DOMAIN log
          BY <2>7, <3>1
        <4>2. CASE j \in DOMAIN log
          BY <2>7, <2>8, <3>1, <4>1, <4>2 DEF Ordered
        <4>3. CASE j = Len(log) + 1
          BY <2>6, <2>7, <2>8, <4>1, <4>3
        <4> QED BY <2>7, <4>2, <4>3
      <3> QED BY <3>1 DEF Ordered
    <2>10. \A i \in DOMAIN new : new[i].ts <= now
      BY <1>0, <2>6, <2>7, <2>8
    <2>11. Good(new)
      BY <2>6, <2>9, <2>10
    <2> HIDE DEF Good
    <2> QED BY <1>2, <2>6, <2>11
  <1>5. ASSUME NEW w \in Writers, Update(w) PROVE ChainInv'
    BY <1>0, <1>5 DEF Update, ChainInv, Chained, Ordered
  <1> QED BY <1>1, <1>3, <1>4, <1>5, TableCases

-----------------------------------------------------------------------------
(* What is stored.                                                         *)

\* Only a request that loads or changes its case gets to work.
LEMMA BusyBefore ==
    ASSUME IInv, [Next]_vars, NEW v \in Writers, Busy(v)'
    PROVE  \/ req'[v] = req[v] /\ Busy(v)
           \/ Load(v) /\ Exists(req[v].case) /\ TablesKept
           \/ Update(v)
  <1>0. RequestType /\ LockInv /\ TypeOK
    BY DEF IInv, TypeOK
  <1>1. CASE Crash
    BY <1>1 DEF Crash, Busy, Idle
  <1>2. CASE UNCHANGED req
    BY <1>2 DEF Busy
  <1>3. ASSUME NEW w \in Writers, NEW c \in CaseIds, NEW o \in Operation, Request(w, c, o)
        PROVE  req'[v] = req[v] /\ Busy(v)
    <2>1. v # w
      BY <1>0, <1>3 DEF Request, RequestType, Busy
    <2> QED BY <1>0, <1>3, <2>1 DEF Request, RequestType, Busy
  <1>4. ASSUME NEW w \in Writers, Load(w), TablesKept
        PROVE  (req'[v] = req[v] /\ Busy(v)) \/ (Load(v) /\ Exists(req[v].case) /\ TablesKept)
    <2>1. CASE v # w
      <3>1. \E x : req' = [req EXCEPT ![w] = x]
        BY <1>4 DEF Load
      <3> QED BY <1>0, <2>1, <3>1 DEF RequestType, Busy
    <2>2. CASE v = w /\ ~ Exists(req[w].case)
      <3>1. req'[v] = Idle
        BY <1>0, <1>4, <2>2 DEF Load, RequestType
      <3> QED BY <3>1 DEF Busy, Idle
    <2> QED BY <1>4, <2>1, <2>2
  <1>5. ASSUME NEW w \in Writers, Refuse(w) \/ DatabaseFails(w) \/ AppendCustody(w)
        PROVE  req'[v] = req[v] /\ Busy(v)
    <2>1. req' = [req EXCEPT ![w] = Idle]
      BY <1>0, <1>5, EndFacts DEF Ends
    <2> QED BY <1>0, <2>1 DEF RequestType, Busy, Idle
  <1>6. ASSUME NEW w \in Writers, Update(w) PROVE (req'[v] = req[v] /\ Busy(v)) \/ Update(v)
    BY <1>0, <1>6 DEF Update, RequestType, Busy
  <1>7. ASSUME NEW c \in CaseIds, CreateCase(c) PROVE UNCHANGED req
    BY <1>7 DEF CreateCase
  <1> QED BY <1>1, <1>2, <1>3, <1>4, <1>5, <1>6, <1>7, TableCases

\* Notes and evidence are never removed.
LEMMA Grows ==
    ASSUME IInv, [Next]_vars, NEW c \in CaseIds
    PROVE  notes[c] \subseteq notes'[c] /\ evidence[c] \subseteq evidence'[c]
  <1>0. TypeOK /\ TableType
    BY DEF IInv, TypeOK
  <1>1. ASSUME NEW w \in Writers, Update(w) PROVE notes[c] \subseteq notes'[c] /\ evidence[c] \subseteq evidence'[c]
    <2>1. PICK new \in Copy : Stores(w, new)
      BY <1>0, <1>1, UpdateFacts
    <2> QED BY <1>0, <2>1 DEF Stores, TableType
  <1>2. CASE TablesKept
    BY <1>2 DEF TablesKept
  <1>3. CASE (\E d \in CaseIds : CreateCase(d)) \/ \E w \in Writers : AppendCustody(w)
    BY <1>3 DEF CreateCase, AppendCustody
  <1> QED BY <1>1, <1>2, <1>3, TableCases

LEMMA RowStep ==
    ASSUME IInv, [Next]_vars
    PROVE  RowInv'
  <1>0. TypeOK /\ TableType /\ RequestType /\ LockInv /\ RowInv
    BY DEF IInv, TypeOK
  <1> DEFINE Same(c) == \A f \in Fields : rows[c][f] = lastSet[c][f]
             Blank(c) == notes[c] = {} /\ evidence[c] = {} /\ lastSet[c] = [f \in Fields |-> 0]
  <1>1. (\A c \in DOMAIN rows : Same(c))' /\ (\A c \in CaseIds \ DOMAIN rows : Blank(c))'
    <2>1. CASE TablesKept
      BY <1>0, <2>1 DEF TablesKept, RowInv
    <2>2. ASSUME NEW w \in Writers, AppendCustody(w)
          PROVE  (\A c \in DOMAIN rows : Same(c))' /\ (\A c \in CaseIds \ DOMAIN rows : Blank(c))'
      BY <1>0, <2>2 DEF AppendCustody, RowInv
    <2>3. ASSUME NEW c \in CaseIds, CreateCase(c)
          PROVE  (\A d \in DOMAIN rows : Same(d))' /\ (\A d \in CaseIds \ DOMAIN rows : Blank(d))'
      <3>1. PICK e \in Record : Created(c, e)
        BY <1>0, <2>3, CreateFacts
      <3>2. /\ DOMAIN rows' = DOMAIN rows \cup {c} /\ rows'[c] = NewRow
            /\ \A d \in DOMAIN rows : rows'[d] = rows[d]
            /\ UNCHANGED <<notes, evidence, lastSet>> /\ c \in CaseIds \ DOMAIN rows
        BY <3>1 DEF Created
      <3>3. lastSet[c] = [f \in Fields |-> 0]
        BY <1>0, <3>2 DEF RowInv
      <3>4. \A f \in Fields : NewRow[f] = 0
        BY DEF NewRow, Fields
      <3> QED BY <1>0, <3>2, <3>3, <3>4 DEF RowInv
    <2>4. ASSUME NEW w \in Writers, Update(w)
          PROVE  (\A c \in DOMAIN rows : Same(c))' /\ (\A c \in CaseIds \ DOMAIN rows : Blank(c))'
      <3>1. PICK new \in Copy : Stores(w, new)
        BY <1>0, <2>4, UpdateFacts
      <3>2. Busy(w) /\ ~ Stored(w)
        BY <3>1 DEF Stores, Busy, Stored
      <3>3. PICK c \in CaseIds : c = req[w].case /\ c \in DOMAIN rows /\ req[w].copy.row = rows[c]
        BY <1>0, <3>2, ReqFacts DEF LockInv
      <3>4. DOMAIN rows' = DOMAIN rows /\ \A d \in DOMAIN rows : rows'[d] = IF d = c THEN new.row ELSE rows[d]
        BY <3>1, <3>3 DEF Stores
      <3>5. \A d \in CaseIds : d # c => lastSet'[d] = lastSet[d] /\ notes'[d] = notes[d] /\ evidence'[d] = evidence[d]
        BY <1>0, <3>1, <3>3 DEF Stores, TableType
      <3>6. \A f \in Fields : lastSet'[c][f] = IF f \in req[w].op.fields THEN req[w].id ELSE lastSet[c][f]
        BY <1>0, <3>1, <3>3 DEF Stores, TableType
      <3>7. \A f \in Fields : new.row[f] = IF f \in req[w].op.fields THEN req[w].id ELSE rows[c][f]
        BY <3>1, <3>3 DEF Stores, Effect
      <3>8. \A f \in Fields : rows'[c][f] = lastSet'[c][f]
        BY <1>0, <3>3, <3>4, <3>6, <3>7 DEF RowInv
      <3>9. \A d \in DOMAIN rows : d \in CaseIds
        BY <1>0 DEF TableType
      <3> QED BY <1>0, <3>3, <3>4, <3>5, <3>8, <3>9 DEF RowInv
    <2> HIDE DEF Same, Blank
    <2> QED BY <2>1, <2>2, <2>3, <2>4, TableCases
  <1>2. ASSUME NEW v \in Writers, Busy(v)'
        PROVE  /\ req'[v].copy.notes \subseteq notes'[req'[v].case]
               /\ req'[v].copy.evidence \subseteq evidence'[req'[v].case]
    <2>1. ASSUME Busy(v), req'[v].copy = req[v].copy, req'[v].case = req[v].case
          PROVE  /\ req'[v].copy.notes \subseteq notes'[req'[v].case]
                 /\ req'[v].copy.evidence \subseteq evidence'[req'[v].case]
      <3>1. req[v].case \in CaseIds
        BY <1>0, <2>1, ReqFacts
      <3> QED BY <1>0, <2>1, <3>1, Grows DEF RowInv
    <2>2. CASE Load(v) /\ Exists(req[v].case) /\ TablesKept
      <3>1. PICK copy : copy = RowToCase(req[v].case)
        OBVIOUS
      <3>2. copy.notes = notes[req[v].case] /\ copy.evidence = evidence[req[v].case]
        BY <3>1 DEF RowToCase
      <3>3. req'[v].copy = copy /\ req'[v].case = req[v].case
        BY <1>0, <2>2, <3>1 DEF Load, RequestType
      <3> QED BY <2>2, <3>2, <3>3 DEF TablesKept
    <2>3. CASE Update(v)
      <3>1. Busy(v) /\ req' = [req EXCEPT ![v].pc = "updated"]
        BY <2>3 DEF Update, Busy
      <3>2. req[v] \in Working
        BY <1>0, <3>1, ReqFacts
      <3>3. req'[v] = [req[v] EXCEPT !.pc = "updated"]
        BY <1>0, <3>1 DEF RequestType
      <3> QED BY <2>1, <3>1, <3>2, <3>3 DEF Working
    <2> QED BY <1>2, <2>1, <2>2, <2>3, BusyBefore
  <1> QED BY <1>1, <1>2 DEF RowInv, Busy

-----------------------------------------------------------------------------
(* What is stored is logged.                                               *)

LEMMA PendingIs ==
    ASSUME NEW c, NEW x
    PROVE  x \in Pending(c) <=> \E v \in Writers : Stored(v) /\ req[v].case = c /\ req[v].id = x
  BY DEF Pending

\* An entry is never taken out of a log.
LEMMA LogGrows ==
    ASSUME IInv, [Next]_vars, NEW c \in DOMAIN rows
    PROVE  Logged(c) \subseteq Logged(c)'
  <1>0. TypeOK /\ TableType /\ LockInv /\ ChainInv /\ c \in CaseIds
    BY DEF IInv, TypeOK, TableType
  <1>1. CASE custody'[c] = custody[c]
    BY <1>1 DEF Logged
  <1>2. CASE TablesKept
    BY <1>1, <1>2 DEF TablesKept
  <1>3. ASSUME NEW w \in Writers, Update(w) PROVE custody'[c] = custody[c]
    BY <1>3 DEF Update
  <1>4. ASSUME NEW d \in CaseIds, CreateCase(d) PROVE custody'[c] = custody[c]
    <2>1. d # c
      BY <1>4 DEF CreateCase, Exists
    <2> QED BY <1>0, <1>4, <2>1 DEF CreateCase, InsertCase, TableType
  <1>5. ASSUME NEW w \in Writers, AppendCustody(w) PROVE Logged(c) \subseteq Logged(c)'
    <2>1. PICK e \in Record : Appends(w, e)
      BY <1>0, <1>5, CustodyFacts
    <2>2. CASE c # req[w].case
      BY <1>0, <1>1, <2>1, <2>2 DEF Appends, TableType
    <2>3. CASE c = req[w].case
      <3>1. PICK log \in Seq(Record) : log = custody[c]
        BY <1>0 DEF TableType
      <3>2. custody'[c] = Append(log, e)
        BY <1>0, <2>1, <2>3, <3>1 DEF Appends, TableType
      <3>3. \A i \in DOMAIN log : i \in DOMAIN custody'[c] /\ custody'[c][i] = log[i]
        BY <3>2, AppendFacts
      <3> QED BY <3>1, <3>3 DEF Logged
    <2> QED BY <2>2, <2>3
  <1> QED BY <1>1, <1>2, <1>3, <1>4, <1>5, TableCases

\* A change between its two writes stays there, is logged, or is cut off.
LEMMA PendingStep ==
    ASSUME IInv, [Next]_vars, NEW c \in DOMAIN rows, NEW x \in Pending(c)
    PROVE  x \in Logged(c)' \cup cutOff' \cup Pending(c)'
  <1>0. TypeOK /\ TableType /\ RequestType /\ LockInv /\ ChainInv /\ c \in CaseIds
    BY DEF IInv, TypeOK, TableType
  <1>1. PICK v \in Writers : Stored(v) /\ req[v].case = c /\ req[v].id = x
    BY PendingIs
  <1>2. ASSUME req'[v] = req[v] PROVE x \in Pending(c)'
    BY <1>1, <1>2 DEF Pending, Stored
  <1>3. CASE Crash
    BY <1>1, <1>3 DEF Crash, Unlogged, Stored
  <1>4. CASE UNCHANGED req
    BY <1>2, <1>4
  <1>5. ASSUME NEW w \in Writers, (\E d \in CaseIds, o \in Operation : Request(w, d, o)) \/ Load(w)
        PROVE  req'[v] = req[v]
    <2>1. (\E y : req' = [req EXCEPT ![w] = y]) /\ req[w].pc # "updated"
      BY <1>5 DEF Request, Load
    <2> QED BY <1>0, <1>1, <2>1 DEF RequestType, Stored
  <1>6. ASSUME NEW w \in Writers, Refuse(w) \/ Update(w) PROVE req'[v] = req[v]
    <2>1. (\E y : req' = [req EXCEPT ![w] = y]) /\ req[w].pc # "updated"
      BY <1>0, <1>6 DEF Refuse, Update, RequestType
    <2> QED BY <1>0, <1>1, <2>1 DEF RequestType, Stored
  <1>7. ASSUME NEW w \in Writers, DatabaseFails(w) PROVE x \in cutOff' \/ req'[v] = req[v]
    <2>1. CASE v = w
      BY <1>1, <1>7, <2>1 DEF DatabaseFails, Unlogged, Stored
    <2>2. CASE v # w
      BY <1>0, <1>7, <2>2 DEF DatabaseFails, RequestType
    <2> QED BY <2>1, <2>2
  <1>8. ASSUME NEW w \in Writers, AppendCustody(w) PROVE x \in Logged(c)' \/ req'[v] = req[v]
    <2>1. CASE v = w
      <3>1. PICK e \in Record : Appends(w, e)
        BY <1>0, <1>8, CustodyFacts
      <3>2. PICK log \in Seq(Record) : log = custody[c]
        BY <1>0 DEF TableType
      <3>a. e.payload = [action |-> req[w].op.kind, op |-> req[w].id]
        BY <3>1 DEF Appends
      <3>b. custody' = [custody EXCEPT ![c] = Append(log, e)]
        BY <1>1, <2>1, <3>1, <3>2 DEF Appends
      <3>3. custody'[c] = Append(log, e) /\ e.payload.op = x
        BY <1>0, <1>1, <2>1, <3>a, <3>b DEF TableType
      <3>4. Len(log) + 1 \in DOMAIN custody'[c] /\ custody'[c][Len(log) + 1] = e
        BY <3>3, AppendFacts
      <3> QED BY <3>3, <3>4 DEF Logged
    <2>2. CASE v # w
      BY <1>0, <1>8, <2>2 DEF AppendCustody, RequestType
    <2> QED BY <2>1, <2>2
  <1>9. ASSUME NEW d \in CaseIds, CreateCase(d) PROVE UNCHANGED req
    BY <1>9 DEF CreateCase
  <1> QED BY <1>2, <1>3, <1>4, <1>5, <1>6, <1>7, <1>8, <1>9, TableCases

LEMMA LoggedStep ==
    ASSUME IInv, [Next]_vars
    PROVE  LoggedInv'
  <1>0. TypeOK /\ TableType /\ RequestType /\ LockInv /\ ChainInv /\ LoggedInv /\ RowInv
    BY DEF IInv, TypeOK
  <1>a. cutOff \subseteq cutOff'
    <2>1. CASE TablesKept
      BY <2>1, TableCases DEF Crash, Request, Load, Refuse, DatabaseFails, CreateCase, Update, AppendCustody
    <2>2. CASE ~ TablesKept
      BY <2>2, TableCases DEF CreateCase, Update, AppendCustody
    <2> QED BY <2>1, <2>2
  <1>b. ASSUME NEW c \in DOMAIN rows, NEW x \in Items(c) PROVE x \in Logged(c)' \cup cutOff' \cup Pending(c)'
    <2>1. x \in Logged(c) \cup cutOff \cup Pending(c)
      BY <1>0 DEF LoggedInv
    <2> QED BY <1>a, <2>1, LogGrows, PendingStep
  <1>1. ASSUME UNCHANGED <<rows, notes, evidence>> PROVE LoggedInv'
    <2>1. \A c \in DOMAIN rows : Items(c)' = Items(c)
      BY <1>1 DEF Items
    <2>2. \A c \in DOMAIN rows : Items(c) \subseteq Logged(c)' \cup cutOff' \cup Pending(c)'
      BY <1>b
    <2> QED BY <1>1, <2>1, <2>2 DEF LoggedInv
  <1>2. CASE TablesKept
    BY <1>1, <1>2 DEF TablesKept
  <1>3. ASSUME NEW w \in Writers, AppendCustody(w) PROVE LoggedInv'
    BY <1>1, <1>3 DEF AppendCustody
  <1>4. ASSUME NEW c \in CaseIds, CreateCase(c) PROVE LoggedInv'
    <2>1. PICK e \in Record : Created(c, e)
      BY <1>0, <1>4, CreateFacts
    <2>2. /\ DOMAIN rows' = DOMAIN rows \cup {c} /\ rows'[c] = NewRow /\ c \in CaseIds \ DOMAIN rows
          /\ \A d \in DOMAIN rows : rows'[d] = rows[d]
          /\ e.payload.op = 0
      BY <2>1 DEF Created
    <2>a. UNCHANGED <<notes, evidence>>
      BY <2>1 DEF Created
    <2>3. custody'[c] = <<e>>
      BY <1>0, <2>1 DEF Created, TableType
    <2>4. 0 \in Logged(c)'
      <3>1. 1 \in DOMAIN <<e>> /\ <<e>>[1] = e
        OBVIOUS
      <3> QED BY <2>2, <2>3, <3>1 DEF Logged
    <2>5. Items(c)' \subseteq {0}
      <3>1. notes[c] = {} /\ evidence[c] = {}
        BY <1>0, <2>2 DEF RowInv
      <3>2. \A f \in Fields : NewRow[f] = 0
        BY DEF NewRow, Fields
      <3> QED BY <2>2, <2>a, <3>1, <3>2 DEF Items
    <2>6. \A d \in DOMAIN rows : Items(d)' = Items(d)
      BY <2>2, <2>a DEF Items
    <2>7. \A d \in DOMAIN rows : Items(d) \subseteq Logged(d)' \cup cutOff' \cup Pending(d)'
      BY <1>b
    <2> QED BY <2>2, <2>4, <2>5, <2>6, <2>7 DEF LoggedInv
  <1>5. ASSUME NEW w \in Writers, Update(w) PROVE LoggedInv'
    <2>1. PICK new \in Copy : Stores(w, new)
      BY <1>0, <1>5, UpdateFacts
    <2>2. Busy(w) /\ ~ Stored(w)
      BY <2>1 DEF Stores, Busy, Stored
    <2>3. PICK c \in CaseIds : c = req[w].case /\ c \in DOMAIN rows /\ req[w].copy.row = rows[c]
      BY <1>0, <2>2, ReqFacts DEF LockInv
    <2>4. DOMAIN rows' = DOMAIN rows /\ \A d \in DOMAIN rows : rows'[d] = IF d = c THEN new.row ELSE rows[d]
      BY <2>1, <2>3 DEF Stores
    <2>5. \A d \in CaseIds : d # c => notes'[d] = notes[d] /\ evidence'[d] = evidence[d]
      BY <1>0, <2>1, <2>3 DEF Stores, TableType
    <2>6. Items(c)' \subseteq Items(c) \cup {req[w].id}
      <3>1. \A f \in Fields : new.row[f] = IF f \in req[w].op.fields THEN req[w].id ELSE rows[c][f]
        BY <2>1, <2>3 DEF Stores, Effect
      <3>2. new.notes \subseteq notes[c] \cup {req[w].id} /\ new.evidence \subseteq evidence[c] \cup {req[w].id}
        BY <1>0, <2>1, <2>2, <2>3 DEF Stores, Effect, RowInv
      <3>3. notes'[c] = notes[c] \cup new.notes /\ evidence'[c] = evidence[c] \cup new.evidence
        BY <1>0, <2>1, <2>3 DEF Stores, TableType
      <3> QED BY <2>3, <2>4, <3>1, <3>2, <3>3 DEF Items
    <2>7. req[w].id \in Pending(c)'
      <3>1. req[w] \in Working
        BY <1>0, <2>2, ReqFacts
      <3>2. req'[w] = [req[w] EXCEPT !.pc = "updated"]
        BY <1>0, <2>1 DEF Stores, RequestType
      <3>3. req'[w].pc = "updated" /\ req'[w].case = c /\ req'[w].id = req[w].id
        BY <2>3, <3>1, <3>2 DEF Working
      <3> QED BY <3>3 DEF Pending, Stored
    <2>8. \A d \in DOMAIN rows : d # c => Items(d)' = Items(d)
      <3>1. \A d \in DOMAIN rows : d \in CaseIds
        BY <1>0 DEF TableType
      <3> QED BY <2>4, <2>5, <3>1 DEF Items
    <2>9. \A d \in DOMAIN rows : Items(d) \subseteq Logged(d)' \cup cutOff' \cup Pending(d)'
      BY <1>b
    <2> QED BY <2>3, <2>4, <2>6, <2>7, <2>8, <2>9 DEF LoggedInv
  <1> QED BY <1>2, <1>3, <1>4, <1>5, TableCases

-----------------------------------------------------------------------------
(* What a log says was added is there, in the tables and in the exports.   *)

Added(v) ==
    /\ req[v].op.kind = "note_added" => req[v].id \in notes[req[v].case]
    /\ req[v].op.kind = "evidence_added" => req[v].id \in evidence[req[v].case]

LEMMA AddedStep ==
    ASSUME IInv, [Next]_vars, NEW v \in Writers, Stored(v)'
    PROVE  Added(v)'
  <1>0. TypeOK /\ TableType /\ RequestType /\ AboutInv
    BY DEF IInv, TypeOK
  <1>1. CASE req'[v] = req[v] /\ Busy(v)
    <2>1. Stored(v) /\ req[v].case \in CaseIds
      BY <1>0, <1>1, ReqFacts DEF Stored
    <2>2. Added(v)
      BY <1>0, <2>1 DEF AboutInv, Added
    <2>3. notes[req[v].case] \subseteq notes'[req[v].case] /\ evidence[req[v].case] \subseteq evidence'[req[v].case]
      BY <2>1, Grows
    <2> QED BY <1>1, <2>2, <2>3 DEF Added
  <1>2. CASE Load(v) /\ Exists(req[v].case)
    <2>1. req'[v].pc = "loaded"
      BY <1>0, <1>2 DEF Load, RequestType
    <2> QED BY <2>1 DEF Stored
  <1>3. CASE Update(v)
    <2>1. PICK new \in Copy : Stores(v, new)
      BY <1>0, <1>3, UpdateFacts
    <2>2. Busy(v)
      BY <2>1 DEF Stores, Busy
    <2>3. req[v] \in Working /\ req[v].case \in CaseIds
      BY <1>0, <2>2, ReqFacts
    <2>4. req'[v] = [req[v] EXCEPT !.pc = "updated"]
      BY <1>0, <2>1 DEF Stores, RequestType
    <2>5. req'[v].op = req[v].op /\ req'[v].case = req[v].case /\ req'[v].id = req[v].id
      BY <2>3, <2>4 DEF Working
    <2>6. /\ notes'[req[v].case] = notes[req[v].case] \cup new.notes
          /\ evidence'[req[v].case] = evidence[req[v].case] \cup new.evidence
      BY <1>0, <2>1, <2>3 DEF Stores, TableType
    <2>7. /\ req[v].op.kind = "note_added" => req[v].id \in new.notes
          /\ req[v].op.kind = "evidence_added" => req[v].id \in new.evidence
      BY <2>1 DEF Stores, Effect
    <2> QED BY <2>5, <2>6, <2>7 DEF Added
  <1>4. Busy(v)'
    BY DEF Stored, Busy
  <1> QED BY <1>1, <1>2, <1>3, <1>4, BusyBefore

LEMMA AboutStep ==
    ASSUME IInv, [Next]_vars
    PROVE  AboutInv'
  <1>0. TypeOK /\ TableType /\ RequestType /\ LockInv /\ ChainInv /\ AboutInv
    BY DEF IInv, TypeOK
  <1>1. ASSUME NEW c \in CaseIds, custody'[c] = custody[c]
        PROVE  About(custody'[c], "note_added", notes'[c]) /\ About(custody'[c], "evidence_added", evidence'[c])
    <2>1. About(custody[c], "note_added", notes[c]) /\ About(custody[c], "evidence_added", evidence[c])
      BY <1>0 DEF AboutInv
    <2>2. notes[c] \subseteq notes'[c] /\ evidence[c] \subseteq evidence'[c]
      BY Grows
    <2> QED BY <1>1, <2>1, <2>2 DEF About
  <1>2. ASSUME NEW c \in CaseIds
        PROVE  About(custody'[c], "note_added", notes'[c]) /\ About(custody'[c], "evidence_added", evidence'[c])
    <2>1. CASE TablesKept
      BY <1>1, <2>1 DEF TablesKept
    <2>2. ASSUME NEW w \in Writers, Update(w) PROVE custody'[c] = custody[c]
      BY <2>2 DEF Update
    <2>3. ASSUME NEW d \in CaseIds, CreateCase(d)
          PROVE  About(custody'[c], "note_added", notes'[c]) /\ About(custody'[c], "evidence_added", evidence'[c])
      <3>1. PICK e \in Record : Created(d, e)
        BY <1>0, <2>3, CreateFacts
      <3>2. CASE d # c
        BY <1>0, <1>1, <3>1, <3>2 DEF Created, TableType
      <3>3. CASE d = c
        <4>1. custody'[c] = <<e>> /\ e.payload.action = "case_opened"
          BY <1>0, <3>1, <3>3 DEF Created, TableType
        <4>2. DOMAIN <<e>> = {1} /\ <<e>>[1] = e
          OBVIOUS
        <4> QED BY <4>1, <4>2 DEF About
      <3> QED BY <3>2, <3>3
    <2>4. ASSUME NEW w \in Writers, AppendCustody(w)
          PROVE  About(custody'[c], "note_added", notes'[c]) /\ About(custody'[c], "evidence_added", evidence'[c])
      <3>1. PICK e \in Record : Appends(w, e)
        BY <1>0, <2>4, CustodyFacts
      <3>2. CASE c # req[w].case
        BY <1>0, <1>1, <3>1, <3>2 DEF Appends, TableType
      <3>3. CASE c = req[w].case
        <4>1. PICK log \in Seq(Record) : log = custody[c]
          BY <1>0 DEF TableType
        <4>2. custody' = [custody EXCEPT ![c] = Append(log, e)] /\ UNCHANGED <<notes, evidence>>
          BY <3>1, <3>3, <4>1 DEF Appends
        <4>3. custody'[c] = Append(log, e)
          BY <1>0, <4>2 DEF TableType
        <4>4. e.payload.action = req[w].op.kind /\ e.payload.op = req[w].id /\ Stored(w)
          BY <3>1 DEF Appends, Stored
        <4>5. /\ req[w].op.kind = "note_added" => req[w].id \in notes[c]
              /\ req[w].op.kind = "evidence_added" => req[w].id \in evidence[c]
          BY <1>0, <3>3, <4>4 DEF AboutInv
        <4>6. About(log, "note_added", notes[c]) /\ About(log, "evidence_added", evidence[c])
          BY <1>0, <4>1 DEF AboutInv
        <4>7. PICK new : new = Append(log, e)
          OBVIOUS
        <4>8. /\ DOMAIN new = DOMAIN log \cup {Len(log) + 1} /\ new[Len(log) + 1] = e
              /\ \A i \in DOMAIN log : new[i] = log[i]
          BY <4>7, AppendFacts
        <4>9. About(new, "note_added", notes[c]) /\ About(new, "evidence_added", evidence[c])
          BY <4>4, <4>5, <4>6, <4>8 DEF About
        <4> QED BY <4>2, <4>3, <4>7, <4>9
      <3> QED BY <3>2, <3>3
    <2> QED BY <1>1, <2>1, <2>2, <2>3, <2>4, TableCases
  <1>3. ASSUME NEW v \in Writers, Stored(v)' PROVE Added(v)'
    BY <1>3, AddedStep
  <1> QED BY <1>2, <1>3 DEF AboutInv, About, Added, Stored

\* A step of a reader changes that reader's bundle alone.
Reads(r) == OpenExport(r) \/ ReadCustody(r) \/ ReadItems(r) \/ ReadNotes(r) \/ Deliver(r)

LEMMA ExportCases ==
    ASSUME IInv, [Next]_vars, NEW s \in Readers
    PROVE  export'[s] = export[s] \/ export'[s] = Idle \/ Reads(s)
  <1>0. ExportType
    BY DEF IInv, TypeOK
  <1>1. CASE Crash
    BY <1>1 DEF Crash
  <1>2. ASSUME NEW r \in Readers, Reads(r) PROVE export'[s] = export[s] \/ Reads(s)
    <2>1. \E b : export' = [export EXCEPT ![r] = b]
      BY <1>2 DEF Reads, OpenExport, ReadCustody, ReadItems, ReadNotes, Deliver, Loading
    <2> QED BY <1>0, <1>2, <2>1 DEF ExportType
  <1>3. ASSUME \/ \E w \in Writers : \/ \E c \in CaseIds, o \in Operation : Request(w, c, o)
                                     \/ Load(w) \/ Refuse(w) \/ DatabaseFails(w) \/ Update(w) \/ AppendCustody(w)
               \/ \E c \in CaseIds : CreateCase(c)
               \/ Tick
        PROVE UNCHANGED export
    BY <1>3 DEF Request, Load, Refuse, DatabaseFails, Update, AppendCustody, CreateCase, Tick
  <1>4. CASE UNCHANGED vars
    BY <1>4 DEF vars
  <1> QED BY <1>1, <1>2, <1>3, <1>4 DEF Next, Reads

\* What the bundle of one reader shows so far.
Shows(s) ==
    /\ export[s].pc \in {"custody", "items"} =>
         /\ Ordered(export[s].log) /\ About(export[s].log, "note_added", notes[export[s].case])
    /\ export[s].pc = "custody" => About(export[s].log, "evidence_added", evidence[export[s].case])
    /\ export[s].pc = "items" => About(export[s].log, "evidence_added", export[s].evidence)

Complete(s) ==
    export[s].pc = "done" =>
        /\ About(export[s].log, "note_added", export[s].notes)
        /\ About(export[s].log, "evidence_added", export[s].evidence)
        /\ \A i, j \in DOMAIN export[s].timeline : i < j => export[s].timeline[i] < export[s].timeline[j]

LEMMA BundleIs == BundleConsistent <=> \A s \in Readers : Complete(s)
  BY DEF BundleConsistent, Complete, About

LEMMA ShowsStep ==
    ASSUME IInv, [Next]_vars, NEW s \in Readers
    PROVE  Shows(s)' /\ Complete(s)'
  <1>0. TypeOK /\ ExportType /\ TableType /\ ChainInv /\ AboutInv
    BY DEF IInv, TypeOK
  <1>1. Shows(s) /\ Complete(s)
    BY BundleIs DEF IInv, ExportInv, Shows
  <1>2. CASE export'[s] = export[s]
    <2>1. Complete(s)'
      BY <1>1, <1>2 DEF Complete, About
    <2>2. CASE export[s].pc \in {"custody", "items"}
      <3>1. export[s].case \in CaseIds
        BY <1>0, <2>2, BundleFacts
      <3>2. /\ notes[export[s].case] \subseteq notes'[export[s].case]
            /\ evidence[export[s].case] \subseteq evidence'[export[s].case]
        BY <3>1, Grows
      <3> QED BY <1>1, <1>2, <2>1, <3>2 DEF Shows, About, Ordered
    <2> QED BY <1>2, <2>1, <2>2 DEF Shows
  <1>3. CASE export'[s] = Idle
    BY <1>3 DEF Shows, Complete, Idle
  <1>4. ASSUME NEW b, export' = [export EXCEPT ![s] = b] PROVE export'[s] = b
    BY <1>0, <1>4 DEF ExportType
  <1>5. CASE OpenExport(s)
    <2>1. PICK c \in DOMAIN rows : export' = [export EXCEPT ![s] = [pc |-> "row", case |-> c]]
      BY <1>5 DEF OpenExport, Loading
    <2>2. export'[s].pc = "row"
      BY <1>4, <2>1
    <2> QED BY <2>2 DEF Shows, Complete
  <1>6. CASE ReadCustody(s)
    <2>1. PICK c \in CaseIds : c = export[s].case
      BY <1>0, <1>6, BundleFacts DEF ReadCustody, Loading
    <2>2. export' = [export EXCEPT ![s] = [pc |-> "custody", case |-> c, log |-> custody[c]]]
          /\ UNCHANGED <<notes, evidence>>
      BY <1>6, <2>1 DEF ReadCustody, Loading, dataVars
    <2>3. export'[s] = [pc |-> "custody", case |-> c, log |-> custody[c]]
      BY <1>4, <2>2
    <2>4. export'[s].pc = "custody" /\ export'[s].case = c /\ export'[s].log = custody[c]
      BY <2>3
    <2>5. /\ Ordered(custody[c]) /\ About(custody[c], "note_added", notes[c])
          /\ About(custody[c], "evidence_added", evidence[c])
      BY <1>0 DEF ChainInv, AboutInv
    <2> QED BY <2>2, <2>4, <2>5 DEF Shows, Complete
  <1>7. CASE ReadItems(s)
    <2>0. export[s].pc = "custody"
      BY <1>7 DEF ReadItems, Loading
    <2>1. PICK c \in CaseIds : c = export[s].case
      BY <1>0, <2>0, BundleFacts
    <2>2. export' = [export EXCEPT ![s] = [pc |-> "items", case |-> c, log |-> export[s].log,
                                            evidence |-> evidence[c]]]
          /\ UNCHANGED <<notes, evidence>>
      BY <1>7, <2>1 DEF ReadItems, Loading, dataVars
    <2>3. export'[s] = [pc |-> "items", case |-> c, log |-> export[s].log, evidence |-> evidence[c]]
      BY <1>4, <2>2
    <2>4. /\ export'[s].pc = "items" /\ export'[s].case = c /\ export'[s].log = export[s].log
          /\ export'[s].evidence = evidence[c]
      BY <2>3
    <2>5. /\ Ordered(export[s].log) /\ About(export[s].log, "note_added", notes[c])
          /\ About(export[s].log, "evidence_added", evidence[c])
      BY <1>1, <2>0, <2>1 DEF Shows
    <2> QED BY <2>2, <2>4, <2>5 DEF Shows, Complete
  <1>8. CASE ReadNotes(s)
    <2>0. export[s].pc = "items"
      BY <1>8 DEF ReadNotes, Loading
    <2>1. PICK c \in CaseIds : c = export[s].case
      BY <1>0, <2>0, BundleFacts
    <2>2. PICK log \in Seq(Record) : log = export[s].log
      BY <1>0, <2>0, BundleFacts
    <2>3. PICK found \in SUBSET EventTimes :
             Loading(s, "items", [pc |-> "done", case |-> export[s].case, log |-> export[s].log,
                                  evidence |-> export[s].evidence, notes |-> notes[export[s].case],
                                  timeline |-> BuildTimeline(export[s].log, found)])
      BY <1>8 DEF ReadNotes
    <2>4. PICK t : t = BuildTimeline(log, found)
      OBVIOUS
    <2>5. export'[s] = [pc |-> "done", case |-> c, log |-> log, evidence |-> export[s].evidence,
                        notes |-> notes[c], timeline |-> t]
      BY <1>4, <2>1, <2>2, <2>3, <2>4 DEF Loading
    <2>6. /\ export'[s].pc = "done" /\ export'[s].log = log /\ export'[s].evidence = export[s].evidence
          /\ export'[s].notes = notes[c] /\ export'[s].timeline = t
      BY <2>5
    <2>7. Ordered(log) /\ About(log, "note_added", notes[c]) /\ About(log, "evidence_added", export[s].evidence)
      BY <1>1, <2>0, <2>1, <2>2 DEF Shows
    <2>8. \A i, j \in DOMAIN t : i < j => t[i] < t[j]
      BY <2>4, <2>7, TimelineFacts
    <2> QED BY <2>6, <2>7, <2>8 DEF Shows, Complete
  <1>9. CASE Deliver(s)
    <2>1. export'[s] = Idle
      BY <1>4, <1>9 DEF Deliver
    <2> QED BY <1>3, <2>1
  <1> QED BY <1>2, <1>3, <1>5, <1>6, <1>7, <1>8, <1>9, ExportCases DEF Reads

LEMMA ExportStep ==
    ASSUME IInv, [Next]_vars
    PROVE  ExportInv' /\ BundleConsistent'
  <1>1. \A s \in Readers : Shows(s)' /\ Complete(s)'
    BY ShowsStep
  <1>2. ExportInv'
    BY <1>1 DEF ExportInv, Shows
  <1>3. BundleConsistent'
    BY <1>1 DEF BundleConsistent, Complete, About
  <1> QED BY <1>2, <1>3

-----------------------------------------------------------------------------

LEMMA InitInv == Init => IInv
  <1> SUFFICES ASSUME Init PROVE IInv
    OBVIOUS
  <1>1. TableType
    <2>1. <<>> \in Seq(Record)
      OBVIOUS
    <2> QED BY <2>1 DEF Init, TableType
  <1>2. RequestType /\ ExportType
    BY DEF Init, RequestType, ExportType, Bundle
  <1>3. \A w \in Writers : ~ Busy(w) /\ ~ Stored(w)
    BY DEF Init, Idle, Busy, Stored
  <1>4. \A r \in Readers : export[r].pc = "idle"
    BY DEF Init, Idle
  <1>5. LockInv
    BY <1>3 DEF LockInv
  <1>6. \A c \in CaseIds : DOMAIN custody[c] = {}
    BY DEF Init
  <1>7. ChainInv
    BY <1>6 DEF ChainInv, Chained, Ordered
  <1>8. DOMAIN rows = {}
    BY DEF Init
  <1>9. RowInv
    BY <1>3, <1>8 DEF Init, RowInv
  <1>10. LoggedInv
    BY <1>8 DEF LoggedInv
  <1>11. AboutInv
    BY <1>3, <1>6 DEF AboutInv, About
  <1>12. ExportInv /\ BundleConsistent
    BY <1>4 DEF ExportInv, BundleConsistent
  <1> QED BY <1>1, <1>2, <1>5, <1>7, <1>9, <1>10, <1>11, <1>12 DEF IInv, TypeOK

\* Every reachable state satisfies the inductive invariant.
THEOREM Invariance == Spec => []IInv
  <1>1. IInv /\ [Next]_vars => IInv'
    <2> SUFFICES ASSUME IInv, [Next]_vars PROVE IInv'
      OBVIOUS
    <2>1. TypeOK'
      BY TableTypeStep, RequestTypeStep, ExportTypeStep DEF TypeOK
    <2> QED BY <2>1, LockStep, ChainStep, RowStep, LoggedStep, AboutStep, ExportStep DEF IInv
  <1> QED BY <1>1, InitInv, PTL DEF Spec

\* Tables, requests, locks and exports keep their types: every row, entry,
\* copy and bundle is complete in whatever order requests and reads end.
THEOREM TypeCorrect == Spec => []TypeOK
  <1>1. IInv => TypeOK
    BY DEF IInv
  <1> QED BY <1>1, Invariance, PTL

\* CustodyChain for any number of cases, requests and faults: the lock of a
\* case makes the log _append_custody chains on the log of the case, so the
\* hash of every entry covers exactly the entries before it.
THEOREM ChainUnbroken == Spec => []CustodyChain
  <1>1. IInv => CustodyChain
    BY DEF IInv, ChainInv, Chained, CustodyChain
  <1> QED BY <1>1, Invariance, PTL

\* ChangesKeptAndLogged for any number of cases, requests and faults: a row
\* written back whole never undoes another request's change, and what is
\* stored without a custody entry is in the hands of a request between its
\* two writes or was cut off there.
THEOREM NothingUndone == Spec => []ChangesKeptAndLogged
  <1>1. IInv => ChangesKeptAndLogged
    <2> SUFFICES ASSUME IInv, NEW c \in DOMAIN rows
                 PROVE  /\ \A f \in Fields : rows[c][f] = lastSet[c][f]
                        /\ Items(c) \subseteq Logged(c) \cup cutOff \cup Unlogged(Writers)
      BY DEF ChangesKeptAndLogged, Items, Logged
    <2>1. Pending(c) \subseteq Unlogged(Writers)
      BY DEF Pending, Unlogged, Stored
    <2> QED BY <2>1 DEF IInv, RowInv, LoggedInv
  <1> QED BY <1>1, Invariance, PTL

\* BundleConsistent for any number of cases, requests, exports and linked
\* events: an export that takes no lock never shows a custody entry without
\* its note or evidence, because the log is read first and items are never
\* removed, and build_timeline keeps the order of the chain.
THEOREM ExportsConsistent == Spec => []BundleConsistent
  <1>1. IInv => BundleConsistent
    BY DEF IInv
  <1> QED BY <1>1, Invariance, PTL

=============================================================================
