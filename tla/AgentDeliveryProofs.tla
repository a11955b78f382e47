------------------------ MODULE AgentDeliveryProofs ------------------------
(***************************************************************************)
(* Proofs about AgentDelivery, for every value of its constants: type      *)
(* correctness, exactly-once delivery while nothing disturbs the path, and *)
(* the drain's promise to delete only what was delivered.                  *)
(***************************************************************************)
EXTENDS AgentDelivery, FiniteSetTheorems, TLAPS

-----------------------------------------------------------------------------
(* The inductive invariant.                                                *)

\* Events are numbered in the order the batcher receives them.
Numbering ==
    /\ \A e \in batch \cup out \cup rows \cup stored \cup received : e <= taken
    /\ \A r \in net : \A e \in r.events : e <= taken
    /\ pc # "select" => batch = {}

BatchBound ==
    /\ Cardinality(batch) < BatchSize
    /\ pc \in {"push", "evict"} => Cardinality(out) <= BatchSize

\* What is known of the request the agent waits for.
LiveRequest ==
    /\ \A r \in net : r.n <= sends
    /\ Waiting => /\ \A r \in net : r.n = sends => r.events = out
                  /\ reply => out \subseteq received
    /\ pc \in {"pop", "ack"} => out \subseteq received

\* The page in hand is a prefix of what is left to drain, and everything
\* behind the cursor has been dealt with.
DrainInv ==
    /\ pc \in {"select", "push", "evict", "attempt", "await", "pop"} => lastAck = 0
    /\ InDrain => \A r \in rows : r <= lastAck => r \in received \cup unreadable
    /\ pc \in {"drainattempt", "drainawait", "ack"} =>
         /\ out \subseteq page /\ page \subseteq rows
         /\ page \subseteq out \cup unreadable
         /\ \A r \in rows : \A p \in page : (r < p /\ lastAck < r) => r \in page

SendingPc == {"await", "pop", "drainawait", "ack"}

\* What holds until the first disturbance.
UndisturbedInv ==
    ~disturbed =>
      /\ stored \subseteq rows \cup received \cup unreadable
      /\ twice = {}
      /\ batch \cap (stored \cup received) = {}
      /\ pc = "push" => out \cap (stored \cup received) = {}
      /\ pc \in {"evict", "attempt", "await", "pop"} => rows = out \/ rows = {}
      /\ pc \in {"evict", "attempt", "drainattempt"} => out \cap received = {}
      /\ ~Waiting => net = {}
      /\ Waiting => \A r \in net : /\ r.n = sends /\ ~reply
                                   /\ out \cap received = {}
      /\ rows \cap received \subseteq IF pc \in SendingPc THEN out ELSE {}

IInv == TypeOK /\ Numbering /\ BatchBound /\ LiveRequest /\ DrainInv /\ UndisturbedInv

-----------------------------------------------------------------------------
(* The set operations behind the buffer's SQL statements.                  *)

\* Events are natural numbers.
LEMMA EventFacts ==
  /\ \A e \in Event : e \in Nat /\ 1 <= e /\ e <= MaxEvents
  /\ \A e \in Nat : (1 <= e /\ e <= MaxEvents) => e \in Event
BY ConstantsAssumption DEF Event

\* Sets of events are finite, and so are their subsets.
LEMMA EventSetsFinite ==
  ASSUME NEW S \in SUBSET Event
  PROVE  IsFiniteSet(S) /\ Cardinality(S) \in Nat
<1>1. IsFiniteSet(Event)
  BY FS_Interval, ConstantsAssumption DEF Event
<1>2. IsFiniteSet(S)
  BY <1>1, FS_Subset
<1> QED
  BY <1>2, FS_CardinalityType

\* ORDER BY id ASC LIMIT n selects a prefix: a row older than a selected row is
\* selected too.
LEMMA OldestIsPrefix ==
  ASSUME NEW S \in SUBSET Event, NEW n \in Nat,
         NEW r \in S, NEW p \in Oldest(S, n), r < p
  PROVE  r \in Oldest(S, n)
<1> DEFINE Below(x) == {j \in S : j < x}
<1>0. p \in S
  BY DEF Oldest
<1>1. Below(r) \subseteq Below(p) /\ Below(p) \in SUBSET Event
  BY <1>0, EventFacts
<1>2. Cardinality(Below(r)) <= Cardinality(Below(p))
  BY <1>1, EventSetsFinite, FS_Subset
<1>3. Cardinality(Below(p)) < n
  BY DEF Oldest
<1>4. Cardinality(Below(r)) \in Nat /\ Cardinality(Below(p)) \in Nat
  BY <1>1, EventSetsFinite
<1>5. Cardinality(Below(r)) < n
  BY <1>2, <1>3, <1>4
<1> QED
  BY <1>5 DEF Oldest

\* Pop(len) on a buffer that holds exactly len rows empties it.
LEMMA PopAllEmpties ==
  ASSUME NEW S \in SUBSET Event
  PROVE  DeleteThrough(S, Oldest(S, Cardinality(S))) = {}
<1>1. ASSUME NEW i \in S
      PROVE  Cardinality({j \in S : j < i}) < Cardinality(S)
  <2> DEFINE T == {j \in S : j < i}
  <2>1. T \in SUBSET S /\ S # T /\ T \in SUBSET Event
    BY EventFacts
  <2>2. Cardinality(T) <= Cardinality(S) /\ Cardinality(S) # Cardinality(T)
    BY <2>1, EventSetsFinite, FS_Subset
  <2>3. Cardinality(T) \in Nat /\ Cardinality(S) \in Nat
    BY <2>1, EventSetsFinite
  <2> QED
    BY <2>2, <2>3
<1>2. Oldest(S, Cardinality(S)) = S
  BY <1>1 DEF Oldest
<1> QED
  BY <1>2, EventFacts DEF DeleteThrough

\* The cap deletes nothing from a buffer of at most BatchSize rows.
LEMMA EvictionSparesOneBatch ==
  ASSUME NEW S \in SUBSET Event, Cardinality(S) <= BatchSize
  PROVE  AfterEviction(S) = S
<1>1. ASSUME NEW i \in S
      PROVE  Cardinality({j \in S : j > i}) # MaxRows - 1
  <2> DEFINE T == {j \in S : j > i}
  <2>1. T \in SUBSET S /\ S # T /\ T \in SUBSET Event
    BY EventFacts
  <2>2. Cardinality(T) <= Cardinality(S) /\ Cardinality(S) # Cardinality(T)
    BY <2>1, EventSetsFinite, FS_Subset
  <2>3. Cardinality(T) \in Nat /\ Cardinality(S) \in Nat
    BY <2>1, EventSetsFinite
  <2> QED
    BY <2>2, <2>3, ConstantsAssumption
<1>2. EvictionPoint(S) = {}
  BY <1>1 DEF EvictionPoint
<1> QED
  BY <1>2 DEF AfterEviction, DeleteThrough

-----------------------------------------------------------------------------
(* Type correctness, in three parts: control, numbers and sets of events.  *)

TypeControl ==
    /\ pc \in PcValues /\ client \in BOOLEAN /\ stopping \in BOOLEAN
    /\ final \in BOOLEAN /\ reply \in BOOLEAN /\ disturbed \in BOOLEAN

TypeNumbers ==
    /\ produced \in 0..MaxEvents /\ taken \in 0..produced /\ tries \in 0..MaxRetries
    /\ lastAck \in 0..MaxEvents /\ sends \in 0..MaxSends
    /\ starts \in 0..MaxStarts /\ faults \in 0..MaxFaults

TypeSets ==
    /\ batch \subseteq Event /\ out \subseteq Event /\ rows \subseteq Event
    /\ page \subseteq Event /\ net \subseteq Request /\ stored \subseteq Event
    /\ evicted \subseteq Event /\ unreadable \subseteq Event
    /\ received \subseteq Event /\ twice \subseteq Event

\* The three parts make up TypeOK.
LEMMA TypeParts == TypeOK <=> TypeControl /\ TypeNumbers /\ TypeSets
BY DEF TypeOK, TypeControl, TypeNumbers, TypeSets

\* A machine whose agent was never started satisfies the invariant.
LEMMA InitIInv == Init => IInv
<1> SUFFICES ASSUME Init PROVE IInv
  OBVIOUS
<1>1. TypeOK
  <2>1. TypeControl
    BY DEF Init, TypeControl, PcValues
  <2>2. TypeNumbers
    BY ConstantsAssumption DEF Init, TypeNumbers
  <2>3. TypeSets
    BY DEF Init, TypeSets
  <2> QED
    BY <2>1, <2>2, <2>3, TypeParts
<1>2. Cardinality({}) = 0
  BY FS_EmptySet
<1> QED
  BY <1>1, <1>2, ConstantsAssumption
  DEF Init, IInv, Numbering, BatchBound, LiveRequest, DrainInv, UndisturbedInv,
      InDrain, Waiting, SendingPc

\* Every step keeps the variables in their types.
LEMMA TypeStep == TypeOK /\ [Next]_vars => TypeOK'
<1> SUFFICES ASSUME TypeOK, [Next]_vars PROVE TypeOK'
  OBVIOUS
<1> USE ConstantsAssumption, EventFacts DEF TypeOK, PcValues, Request,
      procVars, batchVars, sendVars, drainVars, netVars, bounds, history,
      Fault, Flush, Goto, ReturnPc, AfterPush
<1>1. CASE Start
  <2>1. TypeControl'
    BY <1>1 DEF Start, TypeControl
  <2>2. TypeNumbers'
    BY <1>1 DEF Start, TypeNumbers
  <2>3. TypeSets'
    BY <1>1 DEF Start, TypeSets
  <2> QED
    BY <2>1, <2>2, <2>3, TypeParts DEF TypeControl, TypeNumbers, TypeSets
<1>2. CASE Shutdown BY <1>2 DEF Shutdown
<1>3. CASE Forward BY <1>3 DEF Forward
<1>4. CASE Receive
  <2>1. TypeControl'
    BY <1>4 DEF Receive, TypeControl
  <2>2. TypeNumbers'
    BY <1>4 DEF Receive, TypeNumbers
  <2>3. TypeSets'
    BY <1>4 DEF Receive, TypeSets
  <2> QED
    BY <2>1, <2>2, <2>3, TypeParts DEF TypeControl, TypeNumbers, TypeSets
<1>5. CASE Timer
  <2>1. TypeControl'
    BY <1>5 DEF Timer, TypeControl
  <2>2. TypeNumbers'
    BY <1>5 DEF Timer, TypeNumbers
  <2>3. TypeSets'
    BY <1>5 DEF Timer, TypeSets
  <2> QED
    BY <2>1, <2>2, <2>3, TypeParts DEF TypeControl, TypeNumbers, TypeSets
<1>6. CASE Done BY <1>6 DEF Done
<1>7. CASE PushCommit BY <1>7 DEF PushCommit
<1>8. CASE PushError BY <1>8 DEF PushError
<1>9. CASE Evict BY <1>9 DEF Evict, AfterEviction, DeleteThrough
<1>10. CASE OpenStream
  <2>1. TypeControl'
    BY <1>10 DEF OpenStream, TypeControl
  <2>2. TypeNumbers'
    BY <1>10 DEF OpenStream, TypeNumbers
  <2>3. TypeSets'
    BY <1>10 DEF OpenStream, TypeSets
  <2> QED
    BY <2>1, <2>2, <2>3, TypeParts DEF TypeControl, TypeNumbers, TypeSets
<1>11. CASE Retry
  <2>1. TypeControl'
    BY <1>11 DEF Retry, TypeControl
  <2>2. TypeNumbers'
    BY <1>11 DEF Retry, TypeNumbers
  <2>3. TypeSets'
    BY <1>11 DEF Retry, TypeSets
  <2> QED
    BY <2>1, <2>2, <2>3, TypeParts DEF TypeControl, TypeNumbers, TypeSets
<1>12. CASE GiveUp BY <1>12 DEF GiveUp
<1>13. CASE SendOk BY <1>13 DEF SendOk
<1>14. CASE Pop
  <2>1. TypeControl'
    BY <1>14 DEF Pop, TypeControl
  <2>2. TypeNumbers'
    BY <1>14 DEF Pop, TypeNumbers
  <2>3. TypeSets'
    BY <1>14 DEF Pop, DeleteThrough, TypeSets
  <2> QED
    BY <2>1, <2>2, <2>3, TypeParts DEF TypeControl, TypeNumbers, TypeSets
<1>15. ASSUME NEW r \in net, Handle(r) PROVE TypeOK'
  BY <1>15 DEF Handle
<1>16. ASSUME NEW r \in net, Lose(r) PROVE TypeOK'
  BY <1>16 DEF Lose
<1>17. CASE DrainEnd BY <1>17 DEF DrainEnd
<1>18. ASSUME NEW bad \in SUBSET rows, Replay(bad) PROVE TypeOK'
  BY <1>18 DEF Replay, Oldest
<1>19. CASE Ack
  <2>1. TypeControl'
    BY <1>19 DEF Ack, TypeControl
  <2>2. TypeNumbers'
    BY <1>19 DEF Ack, TypeNumbers
  <2>3. TypeSets'
    BY <1>19 DEF Ack, DeleteThrough, TypeSets
  <2> QED
    BY <2>1, <2>2, <2>3, TypeParts DEF TypeControl, TypeNumbers, TypeSets
<1>20. CASE Crash
  <2>1. TypeControl'
    BY <1>20 DEF Crash, TypeControl
  <2>2. TypeNumbers'
    BY <1>20 DEF Crash, TypeNumbers
  <2>3. TypeSets'
    BY <1>20 DEF Crash, TypeSets
  <2> QED
    BY <2>1, <2>2, <2>3, TypeParts DEF TypeControl, TypeNumbers, TypeSets
<1>21. CASE UNCHANGED vars BY <1>21 DEF vars
<1> QED
  BY <1>1, <1>2, <1>3, <1>4, <1>5, <1>6, <1>7, <1>8, <1>9, <1>10, <1>11, <1>12,
     <1>13, <1>14, <1>15, <1>16, <1>17, <1>18, <1>19, <1>20, <1>21
  DEF Next, Agent, Batcher, SendBatch, Drain, Server

-----------------------------------------------------------------------------
(* The steps of the inductive invariant, one lemma for each part.          *)

\* Numbers are given in the order of reception.
LEMMA NumberingStep == IInv /\ [Next]_vars => Numbering'
<1> SUFFICES ASSUME IInv, [Next]_vars PROVE Numbering'
  OBVIOUS
<1>0. TypeOK'
  BY TypeStep DEF IInv
<1> USE <1>0, EventFacts DEF IInv, TypeOK, Numbering, procVars, batchVars, sendVars, drainVars, netVars, bounds, history, Flush, Goto, ReturnPc, AfterPush, Calling, Waiting, Request
<1>1. CASE Start BY <1>1 DEF Start
<1>2. CASE Shutdown BY <1>2 DEF Shutdown
<1>3. CASE Forward BY <1>3 DEF Forward
<1>4. CASE Receive BY <1>4 DEF Receive
<1>5. CASE Timer BY <1>5 DEF Timer
<1>6. CASE Done BY <1>6 DEF Done
<1>7. CASE PushCommit BY <1>7 DEF PushCommit
<1>8. CASE PushError BY <1>8 DEF PushError
<1>9. CASE Evict BY <1>9 DEF Evict, AfterEviction, DeleteThrough
<1>10. CASE OpenStream BY <1>10 DEF OpenStream
<1>11. CASE Retry BY <1>11 DEF Retry
<1>12. CASE GiveUp BY <1>12 DEF GiveUp
<1>13. CASE SendOk BY <1>13 DEF SendOk
<1>14. CASE Pop BY <1>14 DEF Pop, DeleteThrough
<1>15. ASSUME NEW r \in net, Handle(r) PROVE Numbering'
  BY <1>15 DEF Handle
<1>16. ASSUME NEW r \in net, Lose(r) PROVE Numbering'
  BY <1>16 DEF Lose
<1>17. CASE DrainEnd BY <1>17 DEF DrainEnd
<1>18. ASSUME NEW bad \in SUBSET rows, Replay(bad) PROVE Numbering'
  BY <1>18 DEF Replay, Oldest
<1>19. CASE Ack BY <1>19 DEF Ack, DeleteThrough
<1>20. CASE Crash BY <1>20 DEF Crash
<1>21. CASE UNCHANGED vars BY <1>21 DEF vars
<1> HIDE DEF IInv, TypeOK, Numbering, procVars, batchVars, sendVars, drainVars, netVars, bounds, history, Flush, Goto, ReturnPc, AfterPush, Calling, Waiting, Request
<1> QED
  BY <1>1, <1>2, <1>3, <1>4, <1>5, <1>6, <1>7, <1>8, <1>9, <1>10, <1>11, <1>12, <1>13, <1>14, <1>15, <1>16, <1>17, <1>18, <1>19, <1>20, <1>21
  DEF Next, Agent, Batcher, SendBatch, Drain, Server

\* The batcher never hands over more than BatchSize events.
LEMMA BatchBoundStep == IInv /\ [Next]_vars => BatchBound'
<1> SUFFICES ASSUME IInv, [Next]_vars PROVE BatchBound'
  OBVIOUS
<1>0. TypeOK'
  BY TypeStep DEF IInv
<1> USE <1>0, EventFacts, ConstantsAssumption DEF IInv, TypeOK, BatchBound, procVars, batchVars, sendVars, drainVars, netVars, bounds, history, Goto, ReturnPc, AfterPush, Calling, Waiting
<1>1. CASE Start
  <2>1. batch' = {} /\ (pc' \in {"push", "evict"} => out' \subseteq batch)
    BY <1>1 DEF Start, Flush
  <2>2. Cardinality(out') <= Cardinality(batch) \/ pc' \notin {"push", "evict"}
    BY <2>1, EventSetsFinite, FS_Subset
  <2> QED
    BY <2>1, <2>2, FS_EmptySet, EventSetsFinite
<1>2. CASE Shutdown BY <1>2 DEF Shutdown
<1>3. CASE Forward BY <1>3 DEF Forward
<1>4. CASE Receive
  <2> DEFINE b == batch \cup {taken + 1}
  <2>1. b \in SUBSET Event /\ IsFiniteSet(batch) /\ Cardinality(batch) \in Nat
    BY <1>4, EventSetsFinite DEF Receive
  <2>2. Cardinality(b) <= BatchSize /\ Cardinality(b) \in Nat
    <3>1. \/ Cardinality(b) = Cardinality(batch)
          \/ Cardinality(b) = Cardinality(batch) + 1
      BY <2>1, FS_AddElement
    <3> QED
      BY <2>1, <3>1
  <2>3. CASE Cardinality(b) >= BatchSize
    <3>1. batch' = {} /\ out' \in SUBSET b
      BY <1>4, <2>3 DEF Receive, Flush
    <3>2. Cardinality(out') <= Cardinality(b) /\ Cardinality(out') \in Nat
      BY <2>1, <3>1, EventSetsFinite, FS_Subset
    <3> QED
      BY <3>1, <3>2, <2>2, FS_EmptySet
  <2>4. CASE ~(Cardinality(b) >= BatchSize)
    <3>1. batch' = b /\ pc' = "select"
      BY <1>4, <2>4 DEF Receive
    <3> QED
      BY <3>1, <2>2, <2>4
  <2> QED
    BY <2>3, <2>4
<1>5. CASE Timer
  <2>1. batch' = {} /\ (pc' \in {"push", "evict"} => out' \subseteq batch)
    BY <1>5 DEF Timer, Flush
  <2>2. Cardinality(out') <= Cardinality(batch) \/ pc' \notin {"push", "evict"}
    BY <2>1, EventSetsFinite, FS_Subset
  <2> QED
    BY <2>1, <2>2, FS_EmptySet, EventSetsFinite
<1>6. CASE Done
  <2>1. batch' = {} /\ (pc' \in {"push", "evict"} => out' \subseteq batch)
    BY <1>6 DEF Done, Flush
  <2>2. Cardinality(out') <= Cardinality(batch) \/ pc' \notin {"push", "evict"}
    BY <2>1, EventSetsFinite, FS_Subset
  <2> QED
    BY <2>1, <2>2, FS_EmptySet, EventSetsFinite
<1>7. CASE PushCommit BY <1>7 DEF PushCommit
<1>8. CASE PushError BY <1>8 DEF PushError
<1>9. CASE Evict BY <1>9 DEF Evict
<1>10. CASE OpenStream BY <1>10 DEF OpenStream
<1>11. CASE Retry BY <1>11 DEF Retry
<1>12. CASE GiveUp BY <1>12 DEF GiveUp
<1>13. CASE SendOk BY <1>13 DEF SendOk
<1>14. CASE Pop BY <1>14 DEF Pop
<1>15. ASSUME NEW r \in net, Handle(r) PROVE BatchBound'
  BY <1>15 DEF Handle
<1>16. ASSUME NEW r \in net, Lose(r) PROVE BatchBound'
  BY <1>16 DEF Lose
<1>17. CASE DrainEnd BY <1>17 DEF DrainEnd
<1>18. ASSUME NEW bad \in SUBSET rows, Replay(bad) PROVE BatchBound'
  BY <1>18 DEF Replay
<1>19. CASE Ack BY <1>19 DEF Ack
<1>20. CASE Crash
  <2>1. batch' = {} /\ (pc' \in {"push", "evict"} => out' \subseteq batch)
    BY <1>20 DEF Crash, Flush
  <2>2. Cardinality(out') <= Cardinality(batch) \/ pc' \notin {"push", "evict"}
    BY <2>1, EventSetsFinite, FS_Subset
  <2> QED
    BY <2>1, <2>2, FS_EmptySet, EventSetsFinite
<1>21. CASE UNCHANGED vars BY <1>21 DEF vars
<1> HIDE DEF IInv, TypeOK, BatchBound, procVars, batchVars, sendVars, drainVars, netVars, bounds, history, Goto, ReturnPc, AfterPush, Calling, Waiting
<1> QED
  BY <1>1, <1>2, <1>3, <1>4, <1>5, <1>6, <1>7, <1>8, <1>9, <1>10, <1>11, <1>12, <1>13, <1>14, <1>15, <1>16, <1>17, <1>18, <1>19, <1>20, <1>21
  DEF Next, Agent, Batcher, SendBatch, Drain, Server

\* A reply the agent is given says that the server handled the events of the call.
LEMMA LiveRequestStep == IInv /\ [Next]_vars => LiveRequest'
<1> SUFFICES ASSUME IInv, [Next]_vars PROVE LiveRequest'
  OBVIOUS
<1>0. TypeOK'
  BY TypeStep DEF IInv
<1> USE <1>0, EventFacts DEF IInv, TypeOK, LiveRequest, procVars, batchVars, sendVars, drainVars, netVars, bounds, history, Flush, Goto, ReturnPc, AfterPush, Calling, Waiting, Request
<1>1. CASE Start BY <1>1 DEF Start
<1>2. CASE Shutdown BY <1>2 DEF Shutdown
<1>3. CASE Forward BY <1>3 DEF Forward
<1>4. CASE Receive BY <1>4 DEF Receive
<1>5. CASE Timer BY <1>5 DEF Timer
<1>6. CASE Done BY <1>6 DEF Done
<1>7. CASE PushCommit BY <1>7 DEF PushCommit
<1>8. CASE PushError BY <1>8 DEF PushError
<1>9. CASE Evict BY <1>9 DEF Evict
<1>10. CASE OpenStream BY <1>10 DEF OpenStream
<1>11. CASE Retry BY <1>11 DEF Retry
<1>12. CASE GiveUp BY <1>12 DEF GiveUp
<1>13. CASE SendOk BY <1>13 DEF SendOk
<1>14. CASE Pop BY <1>14 DEF Pop
<1>15. ASSUME NEW r \in net, Handle(r) PROVE LiveRequest'
  BY <1>15 DEF Handle
<1>16. ASSUME NEW r \in net, Lose(r) PROVE LiveRequest'
  BY <1>16 DEF Lose
<1>17. CASE DrainEnd BY <1>17 DEF DrainEnd
<1>18. ASSUME NEW bad \in SUBSET rows, Replay(bad) PROVE LiveRequest'
  BY <1>18 DEF Replay
<1>19. CASE Ack BY <1>19 DEF Ack
<1>20. CASE Crash BY <1>20 DEF Crash
<1>21. CASE UNCHANGED vars BY <1>21 DEF vars
<1> HIDE DEF IInv, TypeOK, LiveRequest, procVars, batchVars, sendVars, drainVars, netVars, bounds, history, Flush, Goto, ReturnPc, AfterPush, Calling, Waiting, Request
<1> QED
  BY <1>1, <1>2, <1>3, <1>4, <1>5, <1>6, <1>7, <1>8, <1>9, <1>10, <1>11, <1>12, <1>13, <1>14, <1>15, <1>16, <1>17, <1>18, <1>19, <1>20, <1>21
  DEF Next, Agent, Batcher, SendBatch, Drain, Server

\* The drain cursor leaves nothing undelivered behind.
LEMMA DrainStep == IInv /\ [Next]_vars => DrainInv'
<1> SUFFICES ASSUME IInv, [Next]_vars PROVE DrainInv'
  OBVIOUS
<1>0. TypeOK'
  BY TypeStep DEF IInv
<1> USE <1>0, EventFacts DEF IInv, TypeOK, DrainInv, procVars, batchVars, sendVars, drainVars, netVars, bounds, history, Flush, Goto, ReturnPc, AfterPush, Calling, Waiting, InDrain, LiveRequest
<1>1. CASE Start BY <1>1 DEF Start
<1>2. CASE Shutdown BY <1>2 DEF Shutdown
<1>3. CASE Forward BY <1>3 DEF Forward
<1>4. CASE Receive BY <1>4 DEF Receive
<1>5. CASE Timer BY <1>5 DEF Timer
<1>6. CASE Done BY <1>6 DEF Done
<1>7. CASE PushCommit BY <1>7 DEF PushCommit
<1>8. CASE PushError BY <1>8 DEF PushError
<1>9. CASE Evict BY <1>9 DEF Evict
<1>10. CASE OpenStream BY <1>10 DEF OpenStream
<1>11. CASE Retry BY <1>11 DEF Retry
<1>12. CASE GiveUp BY <1>12 DEF GiveUp
<1>13. CASE SendOk BY <1>13 DEF SendOk
<1>14. CASE Pop BY <1>14 DEF Pop
<1>15. ASSUME NEW r \in net, Handle(r) PROVE DrainInv'
  BY <1>15 DEF Handle
<1>16. ASSUME NEW r \in net, Lose(r) PROVE DrainInv'
  BY <1>16 DEF Lose
<1>17. CASE DrainEnd BY <1>17 DEF DrainEnd
<1>18. ASSUME NEW bad \in SUBSET rows, Replay(bad) PROVE DrainInv'
  <2> DEFINE S == {r \in rows : r > lastAck}
  <2>1. S \in SUBSET Event /\ Page \in Nat
    BY ConstantsAssumption
  <2>2. /\ page' = Oldest(S, Page) /\ out' = page' \ bad
        /\ unreadable' = unreadable \cup bad /\ UNCHANGED <<rows, received, lastAck>>
        /\ pc = "replay" /\ pc' \in {"ack", "drainattempt"}
    BY <1>18 DEF Replay
  <2>3. page' \subseteq S
    BY <2>2 DEF Oldest
  <2>4. \A r \in rows' : \A q \in page' : (r < q /\ lastAck' < r) => r \in page'
    BY <2>1, <2>2, <2>3, OldestIsPrefix
  <2>5. \A r \in rows' : r <= lastAck' => r \in received' \cup unreadable'
    BY <2>2
  <2> QED
    BY <2>2, <2>3, <2>4, <2>5
<1>19. CASE Ack
  <2>1. PICK maxID \in page : (\A q \in page : q <= maxID) /\ lastAck' = maxID
    BY <1>19 DEF Ack
  <2>2. /\ pc = "ack" /\ pc' = "replay" /\ rows' \subseteq rows
        /\ UNCHANGED <<received, unreadable>>
    BY <1>19 DEF Ack, DeleteThrough
  <2>3. ASSUME NEW r \in rows, r <= maxID PROVE r \in received \cup unreadable
    <3>1. CASE r <= lastAck BY <3>1, <2>2
    <3>2. CASE lastAck < r
      <4>1. r \in page BY <3>2, <2>1, <2>2, <2>3
      <4> QED BY <4>1, <2>2
    <3>3. r \in Nat /\ lastAck \in Nat OBVIOUS
    <3> QED BY <3>1, <3>2, <3>3
  <2> QED
    BY <2>1, <2>2, <2>3
<1>20. CASE Crash BY <1>20 DEF Crash
<1>21. CASE UNCHANGED vars BY <1>21 DEF vars
<1> HIDE DEF IInv, TypeOK, DrainInv, procVars, batchVars, sendVars, drainVars, netVars, bounds, history, Flush, Goto, ReturnPc, AfterPush, Calling, Waiting, InDrain, LiveRequest
<1> QED
  BY <1>1, <1>2, <1>3, <1>4, <1>5, <1>6, <1>7, <1>8, <1>9, <1>10, <1>11, <1>12, <1>13, <1>14, <1>15, <1>16, <1>17, <1>18, <1>19, <1>20, <1>21
  DEF Next, Agent, Batcher, SendBatch, Drain, Server

\* Within the drain only AckUntil deletes, and only rows of the page or rows
\* behind the cursor, all of them delivered or unreadable.
LEMMA AckDeletesDelivered ==
  ASSUME IInv, Ack
  PROVE  rows \ rows' \subseteq received \cup unreadable
<1> USE EventFacts DEF IInv, TypeOK
<1>1. pc = "ack" /\ (rows' = DeleteThrough(rows, page) \/ rows' = rows)
  BY DEF Ack
<1>2. ASSUME NEW r \in rows, NEW q \in page, ~(q < r)
      PROVE  r \in received \cup unreadable
  <2>1. CASE r <= lastAck BY <2>1, <1>1 DEF DrainInv, InDrain
  <2>2. CASE lastAck < r
    <3>1. r \in page BY <2>2, <1>1, <1>2 DEF DrainInv
    <3> QED BY <3>1, <1>1 DEF DrainInv, LiveRequest
  <2>3. r \in Nat /\ lastAck \in Nat OBVIOUS
  <2> QED BY <2>1, <2>2, <2>3
<1> QED
  BY <1>1, <1>2 DEF DeleteThrough

\* Undisturbed, every event is in the buffer, on its way or delivered, once.
LEMMA UndisturbedStep == IInv /\ [Next]_vars => UndisturbedInv'
<1> SUFFICES ASSUME IInv, [Next]_vars PROVE UndisturbedInv'
  OBVIOUS
<1>0. TypeOK'
  BY TypeStep DEF IInv
<1> USE <1>0, EventFacts DEF IInv, TypeOK, UndisturbedInv, procVars, batchVars, sendVars, drainVars, netVars, bounds, history, Flush, Goto, ReturnPc, AfterPush, Calling, Waiting, SendingPc, Numbering, LiveRequest
<1>1. CASE Start BY <1>1 DEF Start
<1>2. CASE Shutdown BY <1>2 DEF Shutdown
<1>3. CASE Forward BY <1>3 DEF Forward
<1>4. CASE Receive BY <1>4 DEF Receive
<1>5. CASE Timer BY <1>5 DEF Timer
<1>6. CASE Done BY <1>6 DEF Done
<1>7. CASE PushCommit BY <1>7 DEF PushCommit
<1>8. CASE PushError BY <1>8 DEF PushError
<1>9. CASE Evict
  <2> SUFFICES ASSUME ~disturbed PROVE UndisturbedInv'
    BY <1>9 DEF Evict
  <2>1. rows = out \/ rows = {}
    BY <1>9 DEF Evict
  <2>2. Cardinality(rows) <= BatchSize
    BY <1>9, <2>1, FS_EmptySet, ConstantsAssumption DEF Evict, BatchBound
  <2>3. rows' = rows
    BY <1>9, <2>2, EvictionSparesOneBatch DEF Evict
  <2> QED
    BY <1>9, <2>1, <2>3 DEF Evict
<1>10. CASE OpenStream BY <1>10 DEF OpenStream
<1>11. CASE Retry
  <2> SUFFICES ASSUME ~disturbed, ~Waiting PROVE UndisturbedInv'
    BY <1>11 DEF Retry
  <2>1. /\ Calling /\ pc' = pc
        /\ UNCHANGED <<batch, out, rows, net, stored, unreadable, received, twice>>
    BY <1>11 DEF Retry, InDrain
  <2> QED
    BY <2>1
<1>12. CASE GiveUp BY <1>12 DEF GiveUp
<1>13. CASE SendOk BY <1>13 DEF SendOk
<1>14. CASE Pop
  <2> SUFFICES ASSUME ~disturbed, ~disturbed' PROVE UndisturbedInv'
    BY <1>14 DEF Pop
  <2>1. /\ pc = "pop" /\ (rows = out \/ rows = {}) /\ out \subseteq received
        /\ rows' = DeleteThrough(rows, Oldest(rows, Cardinality(out)))
    BY <1>14 DEF Pop
  <2>2. rows' = {}
    <3>1. CASE rows = out BY <2>1, <3>1, PopAllEmpties
    <3>2. CASE rows = {} BY <2>1, <3>2 DEF DeleteThrough
    <3> QED BY <2>1, <3>1, <3>2
  <2>3. stored \subseteq rows' \cup received \cup unreadable
    BY <2>1
  <2> QED
    BY <1>14, <2>2, <2>3 DEF Pop
<1>15. ASSUME NEW r \in net, Handle(r) PROVE UndisturbedInv'
  <2> SUFFICES ASSUME ~disturbed PROVE UndisturbedInv'
    BY <1>15 DEF Handle
  <2>1. /\ Waiting /\ batch = {} /\ out \cap received = {} /\ ~reply
        /\ r.events = out /\ \A q \in net : q.n = sends /\ q.events = out
    OBVIOUS
  <2>2. net \subseteq {r}
    <3>1. \A q \in Request : q = [n |-> q.n, events |-> q.events]
      BY DEF Request
    <3>2. \A q \in net : q = [n |-> sends, events |-> out]
      BY <3>1, <2>1
    <3> QED BY <3>2
  <2>3. /\ net' = {} /\ twice' = {} /\ received' = received \cup out
        /\ UNCHANGED <<pc, batch, out, rows, stored, unreadable>>
    BY <1>15, <2>1, <2>2 DEF Handle
  <2> QED
    BY <2>1, <2>3
<1>16. ASSUME NEW r \in net, Lose(r) PROVE UndisturbedInv'
  BY <1>16 DEF Lose
<1>17. CASE DrainEnd BY <1>17 DEF DrainEnd
<1>18. ASSUME NEW bad \in SUBSET rows, Replay(bad) PROVE UndisturbedInv'
  <2> SUFFICES ASSUME ~disturbed PROVE UndisturbedInv'
    BY <1>18 DEF Replay
  <2>1. /\ pc = "replay" /\ out' \subseteq rows /\ pc' \in {"ack", "drainattempt"}
        /\ unreadable' = unreadable \cup bad
        /\ UNCHANGED <<batch, rows, net, stored, received, twice>>
    BY <1>18 DEF Replay, Oldest
  <2> QED
    BY <2>1
<1>19. CASE Ack
  <2> SUFFICES ASSUME ~disturbed, ~disturbed' PROVE UndisturbedInv'
    BY <1>19 DEF Ack
  <2>1. /\ pc = "ack" /\ pc' = "replay" /\ rows' = DeleteThrough(rows, page)
        /\ UNCHANGED <<batch, out, net, stored, received, unreadable, twice>>
    BY <1>19 DEF Ack
  <2>2. out \subseteq page /\ page \subseteq rows
    BY <2>1 DEF DrainInv
  <2>3. rows \ rows' \subseteq received \cup unreadable
    BY <1>19, AckDeletesDelivered, <2>1 DEF InDrain
  <2>4. rows' \cap page = {} /\ rows' \subseteq rows
    BY <2>1, <2>2 DEF DeleteThrough
  <2>5. rows \cap received \subseteq out
    BY <2>1
  <2> QED
    BY <2>1, <2>2, <2>3, <2>4, <2>5
<1>20. CASE Crash BY <1>20 DEF Crash
<1>21. CASE UNCHANGED vars BY <1>21 DEF vars
<1> HIDE DEF IInv, TypeOK, UndisturbedInv, procVars, batchVars, sendVars, drainVars, netVars, bounds, history, Flush, Goto, ReturnPc, AfterPush, Calling, Waiting, SendingPc, Numbering, LiveRequest
<1> QED
  BY <1>1, <1>2, <1>3, <1>4, <1>5, <1>6, <1>7, <1>8, <1>9, <1>10, <1>11, <1>12, <1>13, <1>14, <1>15, <1>16, <1>17, <1>18, <1>19, <1>20, <1>21
  DEF Next, Agent, Batcher, SendBatch, Drain, Server

-----------------------------------------------------------------------------
\* Every behaviour of the agent keeps the inductive invariant.
THEOREM Invariance == Spec => []IInv
<1>1. IInv /\ [Next]_vars => IInv'
  BY TypeStep, NumberingStep, BatchBoundStep, LiveRequestStep, DrainStep, UndisturbedStep
  DEF IInv
<1> QED
  BY InitIInv, <1>1, PTL DEF Spec

\* The variables of the agent's event path stay in their types, whatever the
\* sizes of batches, pages, buffer and retry limit.
THEOREM TypeCorrect == Spec => []TypeOK
<1>1. IInv => TypeOK
  BY DEF IInv
<1> QED
  BY Invariance, <1>1, PTL

\* Until an attempt of unknown outcome, a failed delete or a Push onto a backlog,
\* sendBatch, SendBatch and drainBuffer deliver every stored event exactly once.
THEOREM ExactlyOnce == Spec => []ExactlyOnceUndisturbed
<1>1. IInv => ExactlyOnceUndisturbed
  BY DEF IInv, UndisturbedInv, ExactlyOnceUndisturbed
<1> QED
  BY Invariance, <1>1, PTL

\* drainBuffer never deletes a row whose event the server has not handled, unless
\* the row is unreadable, however sends, replies and acknowledgements fail.
THEOREM DrainSafe == Spec => DrainDeletesOnlyDelivered
<1> DEFINE Safe == InDrain => rows \ rows' \subseteq received \cup unreadable
<1>1. IInv /\ [Next]_vars => [Safe]_vars
  <2> SUFFICES ASSUME IInv, Next, InDrain
               PROVE  rows \ rows' \subseteq received \cup unreadable
    OBVIOUS
  <2>1. CASE Ack
    BY <2>1, AckDeletesDelivered
  <2>2. CASE ~Ack
    <3>1. rows' = rows
      BY <2>2 DEF Next, Agent, Batcher, SendBatch, Drain, Server, InDrain,
         Start, Shutdown, Forward, Receive, Timer, Done, PushCommit, PushError,
         Evict, OpenStream, Retry, GiveUp, SendOk, Pop, Handle, Lose, DrainEnd,
         Replay, Crash
    <3> QED BY <3>1
  <2> QED BY <2>1, <2>2
<1> QED
  BY Invariance, <1>1, PTL DEF Spec, DrainDeletesOnlyDelivered
=============================================================================
