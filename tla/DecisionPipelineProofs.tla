----------------------- MODULE DecisionPipelineProofs -----------------------
(***************************************************************************)
(* Proofs about DecisionPipeline. For any number of servers: types, the    *)
(* rollback is accepted, dispatched decisions are recorded. For one        *)
(* server: the hash chain is intact and memory agrees with the database.   *)
(***************************************************************************)
EXTENDS DecisionPipeline, TLAPS

Busy(s) == pc[s] \in {"leader", "create"}   \* a decision that is not recorded yet

(* Decisions and incidents are never confused, whichever server works on   *)
(* them.                                                                   *)
Distinct ==
    /\ \A r \in rows : r.id <= clock /\ r.incident \notin queue
    /\ \A a, b \in rows : a.id = b.id \/ a.incident = b.incident => a = b
    /\ \A s \in Server : Busy(s) =>
          /\ job[s].id <= clock /\ job[s].incident \notin queue
          /\ \A r \in rows : r.id # job[s].id /\ r.incident # job[s].incident
    /\ \A s, t \in Server : Busy(s) /\ Busy(t) /\ s # t =>
          job[s].id # job[t].id /\ job[s].incident # job[t].incident

(* A decision is dispatched only after it was recorded.                    *)
Recorded ==
    /\ \A s \in Server : pc[s] = "execute" => job[s] \in rows
    /\ \A m \in published : \E r \in rows : r.id = m.id

(* The hash a failed persist rolls back to is in the journal's history.    *)
Remembered ==
    \A s \in Server :
        /\ pc[s] # "dead"
        /\ pc[s] = "create" => \E i \in DOMAIN recent[s] : recent[s][i] = job[s].prev

(* h is the hash of the newest decision of S, genesis if there is none.    *)
IsTip(S, h) ==
    \/ S = {} /\ h = Genesis
    \/ \E r \in S : h = r.hash /\ \A q \in S : q.id <= r.id

IInv == TypeOK /\ Distinct /\ Recorded /\ Remembered /\ \E h : IsTip(rows, h)

(* verify_chain finds no break in the decisions of S.                      *)
Intact(S) == verify_chain(S, OldestFirst) = {}

(* One server: the chain is intact, the journal stands at its tip or, when *)
(* a decision is being persisted, one entry beyond it.                     *)
Chained(s) ==
    ~unsure =>
        /\ Intact(rows)
        /\ pc[s] \in {"idle", "leader", "execute"} => IsTip(rows, last[s])
        /\ Busy(s) => \A r \in rows : r.id < job[s].id
        /\ pc[s] = "create" => /\ IsTip(rows, job[s].prev) /\ last[s] = job[s].hash
                               /\ job[s].hash = Hash(job[s].prev, job[s].id)

-----------------------------------------------------------------------------
(* Hash extends a hash by a decision number: the result is a hash.         *)
LEMMA HashType == ASSUME NEW h \in HashSet, NEW n \in Nat PROVE Hash(h, n) \in HashSet
  BY DEF Hash, HashSet

(* commit() records the hash it starts from, even when the deque is full.  *)
LEMMA HistoryRecords ==
  ASSUME TypeOK, NEW s \in Server
  PROVE  /\ CommitHistory(s) \in Seq(HashSet)
         /\ \E i \in DOMAIN CommitHistory(s) : CommitHistory(s)[i] = last[s]
<1> DEFINE h == Append(recent[s], last[s])
<1>1. recent[s] \in Seq(HashSet) /\ last[s] \in HashSet
  BY DEF TypeOK
<1>2. h \in Seq(HashSet) /\ Len(h) \in Nat /\ Len(h) >= 1 /\ h[Len(h)] = last[s]
  BY <1>1
<1>3. CASE Len(h) > HistoryLen
  <2>1. Len(h) > 1 BY <1>3, <1>2, PipelineAssumption
  <2>2. Tail(h) \in Seq(HashSet) /\ Len(Tail(h)) = Len(h) - 1
        /\ Tail(h)[Len(h) - 1] = h[Len(h)]
    BY <1>2, <2>1
  <2>3. CommitHistory(s) = Tail(h) BY <1>3 DEF CommitHistory
  <2>4. Len(h) - 1 \in DOMAIN Tail(h) BY <2>1, <2>2, <1>2
  <2> QED BY <2>2, <2>3, <2>4, <1>2
<1>4. CASE ~(Len(h) > HistoryLen)
  <2>1. CommitHistory(s) = h BY <1>4 DEF CommitHistory
  <2>2. Len(h) \in DOMAIN h BY <1>2
  <2> QED BY <2>1, <2>2, <1>2
<1> QED BY <1>3, <1>4

(* verify_chain, decision by decision.                                     *)
LEMMA VerifyPointwise ==
  ASSUME NEW S
  PROVE verify_chain(S, OldestFirst) = {} <=>
          \A r \in S :
            LET earlier == {q \in S : q.id < r.id}
                prev == IF earlier = {} THEN Genesis
                        ELSE (CHOOSE q \in earlier :
                                \A p \in earlier : p = q \/ p.id < q.id).hash
            IN r.prev = prev /\ r.hash = Hash(prev, r.id)
  BY DEF verify_chain, Before, OldestFirst, NewestFirst

(* The tip is what get_last_journal_hash returns.                          *)
LEMMA TipIsLast ==
  ASSUME TypeOK, Distinct, NEW h, IsTip(rows, h)
  PROVE  h = get_last_journal_hash
<1>1. \A r \in rows : r.id \in Nat BY DEF TypeOK, Decision
<1>2. CASE rows = {} BY <1>2 DEF IsTip, get_last_journal_hash
<1>3. CASE rows # {}
  <2>1. PICK r \in rows : h = r.hash /\ \A q \in rows : q.id <= r.id
    BY <1>3 DEF IsTip
  <2>2. \A x \in rows : (\A q \in rows : q.id <= x.id) => x = r
    <3>1. SUFFICES ASSUME NEW x \in rows, \A q \in rows : q.id <= x.id PROVE x = r
      OBVIOUS
    <3>2. x.id <= r.id /\ r.id <= x.id /\ x.id \in Nat /\ r.id \in Nat BY <3>1, <2>1, <1>1
    <3>3. x.id = r.id BY <3>2
    <3> QED BY <3>3 DEF Distinct
  <2> QED BY <2>1, <2>2, <1>3 DEF get_last_journal_hash
<1> QED BY <1>2, <1>3

(* A decision that is newer than all others and continues from the tip     *)
(* keeps the chain intact and becomes the tip.                             *)
LEMMA ChainExtends ==
  ASSUME NEW S, NEW e,
         \A q \in S : q.id \in Nat, e.id \in Nat,
         \A a, b \in S : a.id = b.id => a = b,
         \A q \in S : q.id < e.id,
         verify_chain(S, OldestFirst) = {},
         IsTip(S, e.prev), e.hash = Hash(e.prev, e.id)
  PROVE  /\ verify_chain(S \cup {e}, OldestFirst) = {}
         /\ IsTip(S \cup {e}, e.hash)
<1> DEFINE T == S \cup {e}
           earlier(X, r) == {q \in X : q.id < r.id}
           prev(X, r) == IF earlier(X, r) = {} THEN Genesis
                         ELSE (CHOOSE q \in earlier(X, r) :
                                 \A p \in earlier(X, r) : p = q \/ p.id < q.id).hash
<1>1. \A r \in S : earlier(T, r) = earlier(S, r)
  <2>1. SUFFICES ASSUME NEW r \in S PROVE earlier(T, r) = earlier(S, r)
    OBVIOUS
  <2>2. ~(e.id < r.id) BY SMT
  <2> QED BY <2>2
<1>2. earlier(T, e) = S
  <2>1. ~(e.id < e.id) BY SMT
  <2> QED BY <2>1
<1>3. \A r \in S : r.prev = prev(S, r) /\ r.hash = Hash(prev(S, r), r.id)
  BY VerifyPointwise
<1>4. \A r \in S : r.prev = prev(T, r) /\ r.hash = Hash(prev(T, r), r.id)
  BY <1>1, <1>3
<1>5. e.prev = prev(T, e)
  <2>1. CASE S = {} BY <2>1, <1>2 DEF IsTip
  <2>2. CASE S # {}
    <3>1. PICK t \in S : e.prev = t.hash /\ \A q \in S : q.id <= t.id
      BY <2>2 DEF IsTip
    <3>2. \A p \in S : p = t \/ p.id < t.id BY <3>1, SMT
    <3>3. \A x \in S : (\A p \in S : p = x \/ p.id < x.id) => x = t
      BY <3>2, SMT
    <3>4. (CHOOSE q \in S : \A p \in S : p = q \/ p.id < q.id) = t
      BY <3>2, <3>3
    <3> QED BY <3>1, <3>4, <1>2, <2>2
  <2> QED BY <2>1, <2>2
<1>6. \A r \in T : r.prev = prev(T, r) /\ r.hash = Hash(prev(T, r), r.id)
  <2>1. e.hash = Hash(prev(T, e), e.id) BY <1>5
  <2> HIDE DEF prev
  <2> QED BY <1>4, <1>5, <2>1
<1>7. verify_chain(T, OldestFirst) = {}
  BY <1>6, VerifyPointwise
<1>8. IsTip(T, e.hash)
  <2>1. \A q \in T : q.id <= e.id BY SMT
  <2> QED BY <2>1 DEF IsTip
<1> QED BY <1>7, <1>8

-----------------------------------------------------------------------------
LEMMA InitIInv == Init => IInv
<1> SUFFICES ASSUME Init PROVE IInv
  OBVIOUS
<1>1. Genesis \in HashSet /\ <<>> \in Seq(HashSet) BY DEF Genesis, HashSet
<1>2. TypeOK
  <2>1. last \in [Server -> HashSet] /\ recent \in [Server -> Seq(HashSet)]
    BY <1>1 DEF Init
  <2>2. /\ pc \in [Server -> {"down", "idle", "leader", "create", "execute", "dead"}]
        /\ job \in [Server -> Decision \cup {<<>>}]
        /\ \A s \in Server : pc[s] \in {"leader", "create", "execute"} => job[s] \in Decision
    BY DEF Init
  <2>3. clock \in Nat /\ faults \in 0..MaxFaults BY PipelineAssumption DEF Init
  <2>4. /\ queue \subseteq Incident /\ rows \subseteq Decision /\ published \subseteq Message
        /\ failed \subseteq Incident /\ unsure \in BOOLEAN
        /\ leader \in Server \cup {NoServer, OldServer}
    BY DEF Init
  <2> QED BY <2>1, <2>2, <2>3, <2>4 DEF TypeOK
<1>3. Distinct BY DEF Init, Distinct, Busy
<1>4. Recorded /\ Remembered BY DEF Init, Recorded, Remembered
<1>5. IsTip(rows, Genesis) BY DEF Init, IsTip
<1> QED BY <1>2, <1>3, <1>4, <1>5 DEF IInv

(* The types, action by action.                                            *)
LEMMA TypeStep == TypeOK /\ (\E h : IsTip(rows, h)) /\ [Next]_vars => TypeOK'
<1> SUFFICES ASSUME TypeOK, \E h : IsTip(rows, h), [Next]_vars PROVE TypeOK'
  OBVIOUS
<1> USE DEF Fault
<1>1. ASSUME NEW s \in Server, Boot(s) PROVE TypeOK'
  <2>1. get_last_journal_hash \in HashSet
    <3>1. CASE rows = {} BY <3>1 DEF get_last_journal_hash, Genesis, HashSet
    <3>2. CASE rows # {}
      <4>1. \E r \in rows : \A q \in rows : q.id <= r.id BY <3>2 DEF IsTip
      <4>2. get_last_journal_hash \in {r.hash : r \in rows}
        BY <3>2, <4>1 DEF get_last_journal_hash
      <4> QED BY <4>2 DEF TypeOK, Decision
    <3> QED BY <3>1, <3>2
  <2> QED BY <1>1, <2>1 DEF Boot, TypeOK
<1>2. ASSUME NEW s \in Server, NEW i \in queue, NEW score \in Score, Receive(s, i, score)
      PROVE TypeOK'
  <2>1. Genesis \in HashSet BY DEF Genesis, HashSet
  <2>2. [id |-> clock + 1, incident |-> i, score |-> score, prev |-> Genesis, hash |-> Genesis]
        \in Decision
    BY <2>1 DEF Decision, TypeOK
  <2> DEFINE d == [id |-> clock + 1, incident |-> i, score |-> score,
                   prev |-> Genesis, hash |-> Genesis]
  <2>3. CASE /\ clock' = clock + 1 /\ job' = [job EXCEPT ![s] = d]
             /\ pc' = [pc EXCEPT ![s] = "leader"] /\ UNCHANGED <<faults, failed>>
    <3> HIDE DEF d
    <3>1. d \in Decision BY <2>2 DEF d
    <3> QED BY <1>2, <3>1, <2>3 DEF Receive, TypeOK
  <2>4. CASE Fault /\ failed' = failed \cup {i} /\ UNCHANGED <<pc, job, clock>>
    BY <1>2, <2>4, PipelineAssumption DEF Receive, TypeOK
  <2> QED BY <1>2, <2>3, <2>4 DEF Receive
<1>3. ASSUME NEW s \in Server, Commit(s) PROVE TypeOK'
  <2>1. last[s] \in HashSet /\ job[s] \in Decision BY <1>3 DEF Commit, TypeOK
  <2>2. Hash(last[s], job[s].id) \in HashSet BY <2>1, HashType DEF Decision
  <2>3. [job[s] EXCEPT !.prev = last[s], !.hash = Hash(last[s], job[s].id)] \in Decision
    BY <2>1, <2>2 DEF Decision
  <2>4. CommitHistory(s) \in Seq(HashSet) BY HistoryRecords
  <2>5. leader' \in Server \cup {NoServer, OldServer} /\ faults' \in 0..MaxFaults
    BY <1>3, PipelineAssumption DEF Commit, _is_leader, TypeOK
  <2>6. job' = [job EXCEPT ![s] = [job[s] EXCEPT !.prev = last[s],
                                        !.hash = Hash(last[s], job[s].id)]]
    BY <1>3 DEF Commit, TypeOK
  <2> QED BY <1>3, <2>2, <2>3, <2>4, <2>5, <2>6 DEF Commit, TypeOK
<1>4. ASSUME NEW s \in Server, Follow(s) PROVE TypeOK'
  BY <1>4, PipelineAssumption DEF Follow, _is_leader, TypeOK
<1>5. ASSUME NEW s \in Server, Create(s) PROVE TypeOK'
  BY <1>5 DEF Create, TypeOK
<1>6. ASSUME NEW s \in Server, CreateError(s) PROVE TypeOK'
  <2>1. job[s] \in Decision /\ job[s].prev \in HashSet /\ job[s].incident \in Incident
    BY <1>6 DEF CreateError, TypeOK, Decision
  <2>2. rows' \subseteq Decision /\ failed' \subseteq Incident /\ unsure' \in BOOLEAN
    BY <1>6, <2>1 DEF CreateError, TypeOK
  <2>3. last' \in [Server -> HashSet]
    BY <1>6, <2>1 DEF CreateError, TypeOK
  <2>4. /\ pc' \in [Server -> {"down", "idle", "leader", "create", "execute", "dead"}]
        /\ \A t \in Server : pc'[t] \in {"leader", "create", "execute"} => pc[t] = pc'[t]
    BY <1>6 DEF CreateError, TypeOK
  <2> QED BY <1>6, <2>2, <2>3, <2>4, PipelineAssumption DEF CreateError, TypeOK
<1>7. ASSUME NEW s \in Server, Execute(s) PROVE TypeOK'
  <2>1. PICK sent \in SUBSET Topics(job[s], FALSE) :
          /\ faults' = faults \/ Fault
          /\ published' = published \cup {[topic |-> t, id |-> job[s].id] : t \in sent}
    BY <1>7 DEF Execute
  <2>2. Topics(job[s], FALSE) \subseteq {"completed", "pending", "snapshot", "command"}
    BY ZenonT(30) DEF Topics, AnnouncedOn, BlockIp, ForensicSnapshot
  <2>3. job[s].id \in Nat BY <1>7 DEF Execute, TypeOK, Decision
  <2>4. published' \subseteq Message
    <3>1. ASSUME NEW t \in sent PROVE [topic |-> t, id |-> job[s].id] \in Message
      BY <2>2, <2>3 DEF Message
    <3> QED BY <2>1, <3>1 DEF TypeOK
  <2>5. faults' \in 0..MaxFaults BY <2>1, PipelineAssumption DEF TypeOK
  <2> QED BY <1>7, <2>4, <2>5 DEF Execute, TypeOK
<1>8. ASSUME NEW s \in Server, Crash(s) PROVE TypeOK'
  <2>1. failed' \subseteq Incident BY <1>8 DEF Crash, TypeOK, Decision
  <2> QED BY <1>8, <2>1, PipelineAssumption DEF Crash, TypeOK
<1>9. CASE LeaderExpires BY <1>9 DEF LeaderExpires, TypeOK
<1>10. CASE UNCHANGED vars BY <1>10 DEF vars, TypeOK
<1> QED BY <1>1, <1>2, <1>3, <1>4, <1>5, <1>6, <1>7, <1>8, <1>9, <1>10 DEF Next, Worker

(* Adding a decision to the table keeps a newest one.                      *)
LEMMA TipStays ==
  ASSUME NEW S, \A q \in S : q.id \in Nat, NEW e, e.id \in Nat, \E h : IsTip(S, h)
  PROVE  \E h : IsTip(S \cup {e}, h)
<1>1. CASE S = {}
  <2>1. \A q \in S \cup {e} : q.id <= e.id BY <1>1
  <2> QED BY <2>1 DEF IsTip
<1>2. CASE S # {}
  <2>1. PICK r \in S : \A q \in S : q.id <= r.id BY <1>2 DEF IsTip
  <2>2. CASE e.id <= r.id
    <3>1. \A q \in S \cup {e} : q.id <= r.id BY <2>1, <2>2
    <3> QED BY <3>1 DEF IsTip
  <2>3. CASE ~(e.id <= r.id)
    <3>1. \A q \in S \cup {e} : q.id <= e.id BY <2>1, <2>3
    <3> QED BY <3>1 DEF IsTip
  <2> QED BY <2>2, <2>3
<1> QED BY <1>1, <1>2

(* The non-type parts of the invariant, action by action.                  *)
LEMMA IInvStep == IInv /\ [Next]_vars => IInv'
<1> SUFFICES ASSUME IInv, [Next]_vars PROVE IInv'
  OBVIOUS
<1> USE DEF IInv
<1>0. TypeOK' BY TypeStep
<1>a. \A r \in rows : r.id \in Nat BY DEF TypeOK, Decision
<1>b. \A s \in Server : Busy(s) => job[s] \in Decision /\ job[s].id \in Nat
  BY DEF TypeOK, Decision, Busy
<1> DEFINE Rest == Distinct /\ Recorded /\ Remembered /\ \E h : IsTip(rows, h)
<1>1. ASSUME NEW s \in Server, Boot(s) PROVE Rest'
  <2>1. Distinct' BY <1>1 DEF Boot, Distinct, Busy, TypeOK
  <2>2. Recorded' BY <1>1 DEF Boot, Recorded, TypeOK
  <2>3. Remembered' BY <1>1 DEF Boot, Remembered, TypeOK
  <2>4. (\E h : IsTip(rows, h))' BY <1>1 DEF Boot, IsTip
  <2> QED BY <2>1, <2>2, <2>3, <2>4
<1>2. ASSUME NEW s \in Server, NEW i \in queue, NEW score \in Score, Receive(s, i, score)
      PROVE Rest'
  <2>0. clock \in Nat BY DEF TypeOK
  <2>1. CASE clock' = clock + 1 /\ pc' = [pc EXCEPT ![s] = "leader"]
             /\ job' = [job EXCEPT ![s] = [id |-> clock + 1, incident |-> i, score |-> score,
                                           prev |-> Genesis, hash |-> Genesis]]
    <3>1. /\ job'[s].id = clock + 1 /\ job'[s].incident = i /\ Busy(s)'
          /\ \A t \in Server : t # s => job'[t] = job[t] /\ (Busy(t)' <=> Busy(t))
      BY <2>1 DEF TypeOK, Busy
    <3>2. Distinct'
      <4>1. rows' = rows /\ queue' = queue \ {i} /\ i \in queue BY <1>2 DEF Receive
      <4>2. (\A r \in rows : r.id <= clock /\ r.incident \notin queue)'
        BY <4>1, <2>1, <2>0, <1>a DEF Distinct
      <4>3. (\A u \in Server : Busy(u) =>
              /\ job[u].id <= clock /\ job[u].incident \notin queue
              /\ \A r \in rows : r.id # job[u].id /\ r.incident # job[u].incident)'
        <5>1. ASSUME NEW u \in Server, Busy(u)'
              PROVE /\ job'[u].id <= clock' /\ job'[u].incident \notin queue'
                    /\ \A r \in rows : r.id # job'[u].id /\ r.incident # job'[u].incident
          <6>1. CASE u = s BY <6>1, <3>1, <4>1, <2>1, <2>0, <1>a DEF Distinct
          <6>2. CASE u # s BY <6>2, <5>1, <3>1, <4>1, <2>1, <2>0, <1>b DEF Distinct
          <6> QED BY <6>1, <6>2
        <5> QED BY <5>1, <4>1
      <4>4. (\A u, v \in Server : Busy(u) /\ Busy(v) /\ u # v =>
              job[u].id # job[v].id /\ job[u].incident # job[v].incident)'
        <5>1. \A u \in Server : Busy(u) => job[u].id # clock + 1 /\ job[u].incident # i
          BY <2>0, <1>b DEF Distinct
        <5> QED BY <5>1, <3>1 DEF Distinct
      <4>5. (\A a, b \in rows : a.id = b.id \/ a.incident = b.incident => a = b)'
        BY <4>1 DEF Distinct
      <4> QED BY <4>2, <4>3, <4>4, <4>5 DEF Distinct
    <3>3. Recorded' BY <1>2, <2>1 DEF Receive, Recorded, TypeOK
    <3>4. Remembered' BY <1>2, <2>1 DEF Receive, Remembered, TypeOK
    <3>5. (\E h : IsTip(rows, h))' BY <1>2 DEF Receive, IsTip
    <3> QED BY <3>2, <3>3, <3>4, <3>5
  <2>2. CASE UNCHANGED <<pc, job, clock>>
    <3>1. Distinct' BY <1>2, <2>2 DEF Receive, Distinct, Busy
    <3>2. Recorded' /\ Remembered' BY <1>2, <2>2 DEF Receive, Recorded, Remembered
    <3>3. (\E h : IsTip(rows, h))' BY <1>2 DEF Receive, IsTip
    <3> QED BY <3>1, <3>2, <3>3
  <2> QED BY <1>2, <2>1, <2>2 DEF Receive
<1>3. ASSUME NEW s \in Server, Commit(s) PROVE Rest'
  <2>1. /\ job'[s].id = job[s].id /\ job'[s].incident = job[s].incident /\ job'[s].prev = last[s]
        /\ \A t \in Server : t # s => job'[t] = job[t]
    BY <1>3, <1>b DEF Commit, TypeOK, Decision, Busy
  <2>2. /\ pc[s] = "leader" /\ pc'[s] = "create"
        /\ \A t \in Server : t # s => pc'[t] = pc[t]
        /\ \A t \in Server : t # s => recent'[t] = recent[t]
        /\ recent'[s] = CommitHistory(s)
        /\ UNCHANGED <<queue, clock, rows, published>>
    BY <1>3 DEF Commit, TypeOK
  <2>3. /\ \A t \in Server : Busy(t)' <=> Busy(t)
        /\ \A t \in Server : job'[t].id = job[t].id /\ job'[t].incident = job[t].incident
    BY <2>1, <2>2 DEF Busy
  <2>4. Distinct' BY <2>2, <2>3 DEF Distinct
  <2>5. Recorded' BY <2>1, <2>2 DEF Recorded
  <2>6. Remembered' BY <2>1, <2>2, HistoryRecords DEF Remembered
  <2>7. (\E h : IsTip(rows, h))' BY <2>2 DEF IsTip
  <2> QED BY <2>4, <2>5, <2>6, <2>7
<1>4. ASSUME NEW s \in Server, Follow(s) PROVE Rest'
  <2>1. Distinct' BY <1>4 DEF Follow, Distinct, Busy, TypeOK
  <2>2. Recorded' BY <1>4 DEF Follow, Recorded, TypeOK
  <2>3. Remembered' BY <1>4 DEF Follow, Remembered, TypeOK
  <2>4. (\E h : IsTip(rows, h))' BY <1>4 DEF Follow, IsTip
  <2> QED BY <2>1, <2>2, <2>3, <2>4
<1>5. ASSUME NEW s \in Server, pc[s] = "create", UNCHANGED <<queue, clock, published, job>>,
             rows' \in {rows, rows \cup {job[s]}}, ~Busy(s)',
             \A t \in Server : t # s => pc'[t] = pc[t]
      PROVE  Distinct' /\ (\A m \in published : \E r \in rows : r.id = m.id)'
             /\ (\E h : IsTip(rows, h))'
  <2>0. Busy(s) BY <1>5 DEF Busy
  <2>1. \A t \in Server : Busy(t)' => Busy(t) /\ t # s BY <1>5 DEF Busy
  <2>2. CASE rows' = rows
    <3>1. Distinct' BY <1>5, <2>1, <2>2 DEF Distinct
    <3> QED BY <1>5, <2>2, <3>1 DEF Recorded, IsTip
  <2>3. CASE rows' = rows \cup {job[s]}
    <3>1. Distinct' BY <1>5, <2>0, <2>1, <2>3 DEF Distinct
    <3>2. (\E h : IsTip(rows, h))' BY <2>0, <2>3, <1>a, <1>b, TipStays DEF IsTip
    <3> QED BY <1>5, <2>3, <3>1, <3>2 DEF Recorded
  <2> QED BY <1>5, <2>2, <2>3
<1>6. ASSUME NEW s \in Server, Create(s) PROVE Rest'
  <2>1. /\ pc[s] = "create" /\ rows' = rows \cup {job[s]} /\ pc'[s] = "execute"
        /\ UNCHANGED <<queue, clock, published, job, recent>>
        /\ \A t \in Server : t # s => pc'[t] = pc[t]
    BY <1>6 DEF Create, TypeOK
  <2>2. ~Busy(s)' BY <2>1 DEF Busy
  <2>3. Recorded' BY <2>1, <2>2, <1>5 DEF Recorded
  <2>4. Remembered' BY <2>1 DEF Remembered
  <2> QED BY <2>1, <2>2, <2>3, <2>4, <1>5
<1>7. ASSUME NEW s \in Server, CreateError(s) PROVE Rest'
  <2>1. /\ pc[s] = "create" /\ rows' \in {rows, rows \cup {job[s]}}
        /\ UNCHANGED <<queue, clock, published, job, recent>>
        /\ \A t \in Server : t # s => pc'[t] = pc[t]
    BY <1>7 DEF CreateError, TypeOK
  <2>2. pc'[s] = "idle" BY <1>7 DEF CreateError, Remembered, TypeOK
  <2>3. ~Busy(s)' BY <2>2 DEF Busy
  <2>4. Recorded' BY <2>1, <2>2, <2>3, <1>5 DEF Recorded
  <2>5. Remembered' BY <2>1, <2>2 DEF Remembered
  <2> QED BY <2>1, <2>3, <2>4, <2>5, <1>5
<1>8. ASSUME NEW s \in Server, Execute(s) PROVE Rest'
  <2>1. Distinct' BY <1>8 DEF Execute, Distinct, Busy, TypeOK
  <2>2. Recorded'
    <3>1. PICK sent : published' = published \cup {[topic |-> t, id |-> job[s].id] : t \in sent}
      BY <1>8 DEF Execute
    <3>2. job[s] \in rows /\ rows' = rows BY <1>8 DEF Execute, Recorded
    <3>3. (\A m \in published : \E r \in rows : r.id = m.id)'
      BY <3>1, <3>2 DEF Recorded
    <3> QED BY <3>3, <1>8 DEF Execute, Recorded, TypeOK
  <2>3. Remembered' BY <1>8 DEF Execute, Remembered, TypeOK
  <2>4. (\E h : IsTip(rows, h))' BY <1>8 DEF Execute, IsTip
  <2> QED BY <2>1, <2>2, <2>3, <2>4
<1>9. ASSUME NEW s \in Server, Crash(s) PROVE Rest'
  <2>1. Distinct' BY <1>9 DEF Crash, Distinct, Busy, TypeOK
  <2>2. Recorded' BY <1>9 DEF Crash, Recorded, TypeOK
  <2>3. Remembered' BY <1>9 DEF Crash, Remembered, TypeOK
  <2>4. (\E h : IsTip(rows, h))' BY <1>9 DEF Crash, IsTip
  <2> QED BY <2>1, <2>2, <2>3, <2>4
<1>10. CASE LeaderExpires
  BY <1>0, <1>10 DEF LeaderExpires, Distinct, Busy, Recorded, Remembered, IsTip
<1>11. CASE UNCHANGED vars
  BY <1>0, <1>11 DEF vars, Distinct, Busy, Recorded, Remembered, IsTip
<1> QED
  BY <1>0, <1>1, <1>2, <1>3, <1>4, <1>6, <1>7, <1>8, <1>9, <1>10, <1>11 DEF Next, Worker

(* Any number of servers: types; the rollback of a failed persist is       *)
(* accepted; what is dispatched is recorded, once per incident.            *)
THEOREM Invariance == Spec => []IInv
<1>1. IInv /\ [Next]_vars => IInv' BY IInvStep
<1> QED BY InitIInv, <1>1, PTL DEF Spec

(* Every variable of the decision pipeline keeps its type.                 *)
THEOREM TypeCorrect == Spec => []TypeOK
<1>1. IInv => TypeOK BY DEF IInv
<1> QED BY Invariance, <1>1, PTL

(* No worker task dies of a refused journal rollback, whatever the length  *)
(* of the history, the number of servers and the order of the failures.    *)
THEOREM RollbacksAccepted == Spec => []RollbackAccepted
<1>1. IInv => RollbackAccepted BY DEF IInv, Remembered, RollbackAccepted
<1> QED BY Invariance, <1>1, PTL

(* Whatever ActionExecutor publishes is about a recorded decision, and no  *)
(* incident has two.                                                       *)
THEOREM DispatchSafe == Spec => []DispatchedIsRecorded
<1>1. IInv => DispatchedIsRecorded BY DEF IInv, Recorded, Distinct, DispatchedIsRecorded
<1> QED BY Invariance, <1>1, PTL

-----------------------------------------------------------------------------
(* One server.                                                             *)

LEMMA ChainedInit == ASSUME NEW s \in Server PROVE Init => Chained(s)
<1> SUFFICES ASSUME Init PROVE Chained(s)
  OBVIOUS
<1>1. rows = {} /\ pc[s] = "down" BY DEF Init
<1>2. Intact(rows) BY <1>1 DEF verify_chain, Intact
<1> QED BY <1>1, <1>2 DEF Chained, Busy

(* Every action of the only server keeps the chain.                        *)
LEMMA ChainedStep ==
  ASSUME NEW s, Server = {s}, IInv, IInv', Chained(s), [Next]_vars
  PROVE  Chained(s)'
<1> USE DEF IInv
<1>1. CASE Boot(s)
  <2>1. IsTip(rows, get_last_journal_hash) BY TipIsLast
  <2> QED BY <1>1, <2>1 DEF Boot, Chained, Busy, TypeOK, IsTip
<1>2. ASSUME NEW i \in queue, NEW score \in Score, Receive(s, i, score) PROVE Chained(s)'
  <2>1. rows' = rows /\ last' = last /\ unsure' = unsure /\ pc[s] = "idle"
    BY <1>2 DEF Receive
  <2>2. CASE pc' = [pc EXCEPT ![s] = "leader"] /\ job'[s].id = clock + 1
    <3>1. \A r \in rows : r.id < clock + 1
      <4>1. \A r \in rows : r.id <= clock /\ r.id \in Nat /\ clock \in Nat
        BY DEF Distinct, TypeOK, Decision
      <4> QED BY <4>1
    <3> QED BY <2>1, <2>2, <3>1 DEF Chained, Busy, TypeOK, IsTip
  <2>3. CASE UNCHANGED <<pc, job>>
    BY <2>1, <2>3 DEF Chained, Busy, IsTip
  <2>4. job \in [Server -> Decision \cup {<<>>}] BY DEF TypeOK
  <2> QED BY <1>2, <2>2, <2>3, <2>4 DEF Receive
<1>3. CASE Commit(s)
  <2>1. /\ job[s] \in Decision /\ pc[s] = "leader" /\ pc'[s] = "create"
        /\ rows' = rows /\ unsure' = unsure
    BY <1>3 DEF Commit, TypeOK
  <2>2. /\ job'[s].id = job[s].id /\ job'[s].prev = last[s]
        /\ job'[s].hash = Hash(last[s], job[s].id) /\ last'[s] = Hash(last[s], job[s].id)
    BY <1>3, <2>1 DEF Commit, TypeOK, Decision
  <2> QED BY <2>1, <2>2 DEF Chained, Busy, IsTip
<1>4. CASE Follow(s)
  BY <1>4 DEF Follow, Chained, Busy, TypeOK, IsTip
<1>5. CASE Create(s)
  <2>1. /\ pc[s] = "create" /\ job[s] \in Decision /\ rows' = rows \cup {job[s]}
        /\ pc'[s] = "execute" /\ last' = last /\ unsure' = unsure
    BY <1>5 DEF Create, TypeOK
  <2>2. SUFFICES ASSUME ~unsure
                 PROVE Intact(rows') /\ IsTip(rows', last[s])
    BY <2>1 DEF Chained, Busy
  <2>3. last[s] = job[s].hash BY <2>1, <2>2 DEF Chained
  <2>4. /\ \A q \in rows : q.id \in Nat /\ q.id < job[s].id
        /\ job[s].id \in Nat
        /\ \A a, b \in rows : a.id = b.id => a = b
    BY <2>1, <2>2 DEF Chained, Busy, TypeOK, Decision, Distinct
  <2>5. /\ Intact(rows) /\ IsTip(rows, job[s].prev)
        /\ job[s].hash = Hash(job[s].prev, job[s].id)
    BY <2>1, <2>2 DEF Chained
  <2>6. /\ Intact(rows \cup {job[s]})
        /\ IsTip(rows \cup {job[s]}, job[s].hash)
    BY <2>4, <2>5, ChainExtends DEF Intact
  <2> QED BY <2>1, <2>3, <2>6
<1>6. CASE CreateError(s)
  <2>1. CASE unsure' = TRUE BY <2>1 DEF Chained
  <2>2. CASE rows' = rows /\ unsure' = unsure
    <3>1. pc[s] = "create" /\ pc'[s] = "idle"
      BY <1>6 DEF CreateError, Remembered, TypeOK
    <3>2. last'[s] = job[s].prev
      BY <1>6, <3>1 DEF CreateError, Remembered, TypeOK
    <3> QED BY <2>2, <3>1, <3>2 DEF Chained, Busy, IsTip
  <2> QED BY <1>6, <2>1, <2>2 DEF CreateError
<1>7. CASE Execute(s)
  BY <1>7 DEF Execute, Chained, Busy, TypeOK, IsTip
<1>8. CASE Crash(s)
  BY <1>8 DEF Crash, Chained, Busy, TypeOK, IsTip
<1>9. CASE LeaderExpires
  BY <1>9 DEF LeaderExpires, Chained, Busy, IsTip
<1>10. CASE UNCHANGED vars
  BY <1>10 DEF vars, Chained, Busy, IsTip
<1> QED
  BY <1>1, <1>2, <1>3, <1>4, <1>5, <1>6, <1>7, <1>8, <1>9, <1>10 DEF Next, Worker

(* One server, any sequence of failed persists, crashes, restarts and      *)
(* leader-key expiries: the journal is an unbroken hash chain.             *)
THEOREM OneServerChain ==
  ASSUME NEW CONSTANT s, Server = {s}
  PROVE  Spec => [](ChainIntact /\ JournalMatchesDatabase)
<1>1. Init => Chained(s) BY ChainedInit
<1>2. IInv /\ IInv' /\ Chained(s) /\ [Next]_vars => Chained(s)' BY ChainedStep
<1>3. IInv /\ Chained(s) => ChainIntact /\ JournalMatchesDatabase
  <2> SUFFICES ASSUME IInv, Chained(s) PROVE ChainIntact /\ JournalMatchesDatabase
    OBVIOUS
  <2>1. ChainIntact BY DEF Chained, ChainIntact, Intact
  <2>2. JournalMatchesDatabase
    BY TipIsLast DEF IInv, Chained, JournalMatchesDatabase
  <2> QED BY <2>1, <2>2
<1> QED BY Invariance, <1>1, <1>2, <1>3, PTL DEF Spec

(* One server: whenever the worker waits for a message, a restart would    *)
(* resume the journal from the hash it holds in memory (rollback_journal,  *)
(* get_last_journal_hash).                                                 *)
THEOREM JournalAtTip ==
  ASSUME NEW CONSTANT s, Server = {s}
  PROVE  Spec => []JournalMatchesDatabase
<1>1. Spec => [](ChainIntact /\ JournalMatchesDatabase) BY OneServerChain
<1> QED BY <1>1, PTL
=============================================================================
