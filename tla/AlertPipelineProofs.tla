------------------------ MODULE AlertPipelineProofs ------------------------
(***************************************************************************)
(* From an alert to an enriched incident: the correlation pipeline for any *)
(* number of alerts, keys, analysts' requests and faults, and any windows  *)
(* that satisfy PipelineAssumption; then, from Stages on, the              *)
(* threat-intelligence client that enriches an alert.                      *)
(***************************************************************************)
EXTENDS AlertPipeline, ThreatIntel, FiniteSetTheorems, SequenceTheorems, TLAPS

Elems(s) == {s[x] : x \in 1..Len(s)}
Distinct(s) == \A x, y \in 1..Len(s) : s[x] = s[y] => x = y
Unlinked(a) == \A i \in Incident : <<i, a>> \notin links

(* An alert goes through alerts:created at most once, and while it is on   *)
(* its way no incident has it.                                             *)
Waiting(a) == a \in Elems(created) \/ (rule.pc = "created" /\ rule.id = a)
                 \/ (corr.pc \in {"find", "add", "create"} /\ corr.id = a)
FlowInv ==
    /\ Distinct(created)
    /\ \A a \in Elems(created) : corr.id # a /\ alerts[a] # None
    /\ rule.pc # "idle" => rule.id \in Alert /\ alerts[rule.id] # None
    /\ rule.pc = "created" => rule.id \notin Elems(created) /\ corr.id # rule.id
    /\ \A a \in Elems(enrichment) : alerts[a] # None
    /\ corr.pc # "idle" => corr.id \in Alert /\ alerts[corr.id] # None
    /\ corr.pc = "idle" => corr.id = None
    /\ \A a \in Alert : alerts[a] = None \/ Waiting(a) => Unlinked(a)

(* The rows tasks hold: the chain they will write back is sound.           *)
Sound(a, row) == row.chain # None => <<row.chain, a>> \in links
Held(id, row) == id \in Alert /\ row \in AlertRow /\ alerts[id] # None /\ Sound(id, row)
CopyInv ==
    /\ StampIsTrue
    /\ ti # TaskIdle => Held(ti.id, ti.row)
    /\ \A n \in Request : request[n].pc = "held" => Held(request[n].id, request[n].row)
    /\ corr.pc # "idle" => Held(corr.id, corr.row)

(* The incident the worker holds agrees with the table.                    *)
Counted(row, S) == row.ids = S /\ row.count = Cardinality(S)
IncidentInv ==
    /\ LinksAgree
    /\ \A i \in Existing : Linked(i) # {}
    /\ corr.pc \in {"add", "update", "stamp", "publish"} =>
          corr.incident \in Existing /\ corr.inc \in IncidentRow
    /\ corr.pc \in {"add", "update"} => Counted(corr.inc, Linked(corr.incident))
    /\ corr.pc \in {"update", "stamp", "publish"} => <<corr.incident, corr.id>> \in links

(* Only the alert that created an incident announces it.                   *)
Announced(i) == \E m \in announced : m.incident = i
AnnounceInv ==
    /\ corr.before = None
    /\ \A m \in announced : m.incident \in Existing
    /\ \A m, n \in announced : m.incident = n.incident => m = n
    /\ corr.pc = "update" => corr.inc.count # 1
    /\ corr.pc \in {"stamp", "publish"} /\ IsNew => ~Announced(corr.incident)
    /\ faults = 0 => \A i \in Existing :
          Announced(i) \/ (corr.pc \in {"stamp", "publish"} /\ corr.incident = i /\ IsNew)

(* An incident being written back is too young to be closed.               *)
TimeInv ==
    /\ \A i \in Existing : incidents[i].created <= incidents[i].updated /\ incidents[i].updated <= clock
    /\ corr.pc # "idle" => corr.at <= clock /\ clock <= corr.at + 1
    /\ corr.pc \in {"add", "update"} =>
          /\ corr.inc.status = "open"
          /\ corr.inc.created <= corr.inc.updated /\ corr.inc.updated <= clock
          /\ incidents[corr.incident].status = "open"
          /\ incidents[corr.incident].created >= corr.at - MaxWindow

IInv == TypeOK /\ FlowInv /\ CopyInv /\ IncidentInv /\ AnnounceInv /\ TimeInv

-----------------------------------------------------------------------------
(* Sequences of alerts, and the sizes of incidents.                        *)

LEMMA ConstantFacts ==
    /\ {MaxAlerts, Cooldown, TemporalWindow, Window, AutoClose, MaxTime, MaxFaults} \subseteq Nat
    /\ MaxWindow \in Nat /\ MaxWindow + 1 <= AutoClose
    /\ Severity \subseteq Int /\ Medium \in Severity
    /\ None \notin Alert /\ None \notin Severity /\ None \notin AlertRow /\ None \notin IncidentRow
    /\ Alert = Incident
  BY PipelineAssumption DEF MaxWindow, Incident, Alert

LEMMA ElemsType ==
    ASSUME NEW s \in Seq(Alert)
    PROVE  Elems(s) \subseteq Alert
  <1>1. \A x \in 1..Len(s) : s[x] \in Alert
    OBVIOUS
  <1> QED BY <1>1 DEF Elems

(* A message published to a topic it is not on keeps its messages distinct. *)
LEMMA AppendFacts ==
    ASSUME NEW s \in Seq(Alert), NEW a \in Alert
    PROVE  /\ Append(s, a) \in Seq(Alert)
           /\ Elems(Append(s, a)) = Elems(s) \cup {a}
           /\ Distinct(s) /\ a \notin Elems(s) => Distinct(Append(s, a))
  <1>1. /\ Append(s, a) \in Seq(Alert) /\ Len(Append(s, a)) = Len(s) + 1 /\ Len(s) \in Nat
        /\ \A x \in 1..Len(s) : Append(s, a)[x] = s[x]
        /\ Append(s, a)[Len(s) + 1] = a
    OBVIOUS
  <1>2. Elems(Append(s, a)) = Elems(s) \cup {a}
    BY <1>1 DEF Elems
  <1>3. Distinct(s) /\ a \notin Elems(s) => Distinct(Append(s, a))
    BY <1>1 DEF Elems, Distinct
  <1> QED BY <1>1, <1>2, <1>3

(* A suffix of a topic: what is left after messages were taken.            *)
LEMMA SuffixFacts ==
    ASSUME NEW s \in Seq(Alert), NEW n \in 0..Len(s)
    PROVE  LET r == SubSeq(s, n + 1, Len(s))
           IN  r \in Seq(Alert) /\ Elems(r) \subseteq Elems(s) /\ (Distinct(s) => Distinct(r))
  <1> DEFINE r == SubSeq(s, n + 1, Len(s))
  <1>1. /\ r \in Seq(Alert) /\ Len(r) = Len(s) - n /\ Len(s) \in Nat /\ n \in Nat
        /\ \A x \in 1..Len(r) : r[x] = s[n + x]
    OBVIOUS
  <1> HIDE DEF r
  <1>2. Elems(r) \subseteq Elems(s)
    BY <1>1 DEF Elems
  <1>3. Distinct(s) => Distinct(r)
    BY <1>1 DEF Distinct
  <1> QED BY <1>1, <1>2, <1>3 DEF r

LEMMA TailFacts ==
    ASSUME NEW s \in Seq(Alert), s # <<>>
    PROVE  /\ Tail(s) \in Seq(Alert) /\ Head(s) \in Alert /\ Head(s) \in Elems(s)
           /\ Elems(Tail(s)) \subseteq Elems(s)
           /\ Distinct(s) => Distinct(Tail(s)) /\ Head(s) \notin Elems(Tail(s))
  <1>1. /\ Tail(s) \in Seq(Alert) /\ Len(s) \in Nat \ {0} /\ Len(Tail(s)) = Len(s) - 1
        /\ \A x \in 1..Len(Tail(s)) : Tail(s)[x] = s[x + 1]
        /\ Head(s) = s[1] /\ s[1] \in Alert
    OBVIOUS
  <1>2. Head(s) \in Elems(s)
    BY <1>1 DEF Elems
  <1>3. Elems(Tail(s)) \subseteq Elems(s)
    BY <1>1 DEF Elems
  <1>4. Distinct(s) => Distinct(Tail(s))
    BY <1>1 DEF Distinct
  <1>5. Distinct(s) => Head(s) \notin Elems(Tail(s))
    BY <1>1 DEF Distinct, Elems
  <1> QED BY <1>1, <1>2, <1>3, <1>4, <1>5

(* Adding an alert to an incident that does not have it adds one.          *)
LEMMA AddedOne ==
    ASSUME NEW S \in SUBSET Alert, NEW a \in Alert, a \notin S
    PROVE  /\ Cardinality(S) \in Nat /\ Cardinality(S \cup {a}) = Cardinality(S) + 1
           /\ S # {} => Cardinality(S) # 0
  <1>1. IsFiniteSet(Alert)
    <2>1. MaxAlerts \in Int
      BY PipelineAssumption
    <2> QED BY <2>1, FS_Interval DEF Alert
  <1>2. IsFiniteSet(S)
    BY <1>1, FS_Subset
  <1> QED BY <1>2, FS_AddElement, FS_CardinalityType, FS_EmptySet

-----------------------------------------------------------------------------
(* The invariant holds initially and every step preserves it.              *)

LEMMA InitInv == Init => IInv
  <1> SUFFICES ASSUME Init PROVE IInv
    OBVIOUS
  <1> USE DEF RuleIdle, CorrIdle, TaskIdle, RequestNew
  <1>1. TypeOK
    BY ConstantFacts DEF Init, TypeOK, RuleState, CorrState, TaskState, RequestState
  <1>2. FlowInv
    BY DEF Init, FlowInv, Distinct, Elems, Waiting, Unlinked
  <1>3. CopyInv
    BY DEF Init, CopyInv, StampIsTrue
  <1>4. \A i \in Incident : Linked(i) = {}
    BY DEF Init, Linked
  <1>5. IncidentInv
    BY <1>4 DEF Init, IncidentInv, LinksAgree, Existing
  <1>6. AnnounceInv
    BY DEF Init, AnnounceInv, Announced, Existing
  <1>7. TimeInv
    BY DEF Init, TimeInv, Existing
  <1> QED BY <1>1, <1>2, <1>3, <1>5, <1>6, <1>7 DEF IInv

(* What each part of the invariant depends on.                             *)
LEMMA FlowFrame ==
    ASSUME FlowInv, UNCHANGED <<alerts, links, created, enrichment, rule, corr>>
    PROVE  FlowInv'
  BY DEF FlowInv, Waiting, Unlinked, Elems, Distinct

LEMMA CopyFrame ==
    ASSUME CopyInv, UNCHANGED <<alerts, links, corr, ti, request>>
    PROVE  CopyInv'
  BY DEF CopyInv, StampIsTrue, Held, Sound

LEMMA IncidentFrame ==
    ASSUME IncidentInv, UNCHANGED <<incidents, links, corr>>
    PROVE  IncidentInv'
  <1>1. Existing' = Existing /\ \A i : Linked(i)' = Linked(i)
    BY DEF Existing, Linked
  <1>2. LinksAgree'
    BY <1>1 DEF IncidentInv, LinksAgree
  <1>3. \A i \in Existing' : (Linked(i) # {})'
    BY <1>1 DEF IncidentInv
  <1>4. (corr.pc \in {"add", "update"} => Counted(corr.inc, Linked(corr.incident)))'
    BY <1>1 DEF IncidentInv, Counted
  <1> QED BY <1>1, <1>2, <1>3, <1>4 DEF IncidentInv, Counted

LEMMA AnnounceFrame ==
    ASSUME AnnounceInv, UNCHANGED <<incidents, announced, corr>>, faults' = 0 => faults = 0
    PROVE  AnnounceInv'
  <1>1. Existing' = Existing /\ (IsNew' <=> IsNew) /\ \A i : Announced(i)' <=> Announced(i)
    BY DEF Existing, IsNew, Announced
  <1> QED BY <1>1 DEF AnnounceInv

LEMMA TimeFrame ==
    ASSUME TimeInv, UNCHANGED <<incidents, corr, clock>>
    PROVE  TimeInv'
  <1>1. Existing' = Existing
    BY DEF Existing
  <1> QED BY <1>1 DEF TimeInv

(* A rule match raises a new alert: no topic, task or incident has it.     *)
LEMMA CreateAlertStep ==
    ASSUME NEW a \in Alert, NEW k \in Key, NEW s \in Severity,
           NEW t \in {"anomaly", "surveillance"}, IInv, _create_alert(a, k, s, t)
    PROVE  IInv'
  <1> USE ConstantFacts DEF IInv, RuleIdle, topics
  <1> DEFINE row == [sev |-> Capped(s, t), status |-> "open", ti |-> FALSE, chain |-> None]
  <1>1. /\ alerts[a] = None /\ alerts' = [alerts EXCEPT ![a] = row]
        /\ UNCHANGED <<incidents, links, created, enrichment, announced, corr, ti, request, clock, faults>>
    BY DEF _create_alert, Fresh
  <1>2. row \in AlertRow /\ row.chain = None
    BY DEF AlertRow, Capped
  <1> HIDE DEF row
  <1>3. TypeOK'
    <2>1. alerts' \in [Alert -> AlertRow \cup {None}]
      BY <1>1, <1>2 DEF TypeOK
    <2>2. rule' \in RuleState
      BY DEF _create_alert, RuleState
    <2>3. cooldown' \in [Key -> (0 - Cooldown)..MaxTime]
      BY DEF _create_alert, TypeOK
    <2> QED BY <1>1, <2>1, <2>2, <2>3 DEF TypeOK
  <1>4. a \notin Elems(created) /\ corr.id # a /\ a \notin Elems(enrichment) /\ Unlinked(a)
    BY <1>1 DEF FlowInv
  <1>5. FlowInv'
    <2>1. \A b \in Alert : alerts'[b] = None => alerts[b] = None
      BY <1>1, <1>2 DEF TypeOK
    <2>2. \A b \in Alert : Unlinked(b)' <=> Unlinked(b)
      BY <1>1 DEF Unlinked
    <2>3. rule' = RuleIdle \/ rule' = [pc |-> "created", id |-> a]
      BY DEF _create_alert
    <2>4. \A b \in Alert : Waiting(b)' => Waiting(b) \/ b = a
      BY <1>1, <2>3 DEF Waiting
    <2>5. Elems(created) \subseteq Alert /\ Elems(enrichment) \subseteq Alert
      BY ElemsType DEF TypeOK
    <2>6. alerts'[a] # None
      BY <1>1, <1>2 DEF TypeOK
    <2> QED BY <1>1, <1>4, <2>1, <2>2, <2>3, <2>4, <2>5, <2>6 DEF FlowInv
  <1>6. CopyInv'
    BY <1>1, <1>2 DEF TypeOK, CopyInv, StampIsTrue, Held, Sound
  <1>7. IncidentInv' /\ AnnounceInv' /\ TimeInv'
    BY <1>1, IncidentFrame, AnnounceFrame, TimeFrame
  <1> QED BY <1>3, <1>5, <1>6, <1>7

(* Steps that change nothing but the rule worker's cooldown.               *)
LEMMA CreateAlertErrorStep ==
    ASSUME NEW k \in Key, IInv, CreateAlertError(k)
    PROVE  IInv'
  <1> USE ConstantFacts DEF IInv
  <1>1. /\ UNCHANGED <<alerts, incidents, links, created, enrichment, announced, rule, corr, ti, request, clock>>
        /\ cooldown' = [cooldown EXCEPT ![k] = clock]
        /\ faults \in Nat /\ faults' = faults + 1 /\ faults' \in 0..MaxFaults
    <2>1. CreateAlertError(k)
      OBVIOUS
    <2>2. faults \in 0..MaxFaults /\ MaxFaults \in Nat
      BY DEF TypeOK
    <2>3. faults < MaxFaults /\ faults' = faults + 1
      BY ONLY <2>1 DEF CreateAlertError, Fault
    <2>4. faults \in Nat /\ faults' \in 0..MaxFaults
      BY ONLY <2>2, <2>3
    <2> QED BY ONLY <2>1, <2>3, <2>4 DEF CreateAlertError, tables, topics
  <1>2. TypeOK'
    <2>1. cooldown \in [Key -> (0 - Cooldown)..MaxTime] /\ clock \in 0..MaxTime
      BY DEF TypeOK
    <2>2. clock \in (0 - Cooldown)..MaxTime
      BY <2>1
    <2>3. cooldown' \in [Key -> (0 - Cooldown)..MaxTime]
      BY ONLY <1>1, <2>1, <2>2
    <2>4. TypeOK
      OBVIOUS
    <2> QED BY ONLY <1>1, <2>3, <2>4 DEF TypeOK
  <1>3. FlowInv' /\ CopyInv'
    BY <1>1, FlowFrame, CopyFrame
  <1>4. IncidentInv' /\ AnnounceInv' /\ TimeInv'
    BY <1>1, IncidentFrame, AnnounceFrame, TimeFrame
  <1> QED BY <1>2, <1>3, <1>4

(* The alert being published is on no topic yet.                           *)
LEMMA PublishCreatedStep ==
    ASSUME IInv, PublishCreated
    PROVE  IInv'
  <1> USE ConstantFacts DEF IInv
  <1>1. /\ UNCHANGED <<alerts, incidents, links, enrichment, announced, cooldown, corr, ti, request, clock>>
        /\ rule.pc = "created" /\ rule' = [rule EXCEPT !.pc = "enrichment"]
        /\ created' \in {created, Append(created, rule.id)}
        /\ faults' \in 0..MaxFaults /\ (faults' = 0 => faults = 0)
    <2>1. faults \in Nat /\ faults' \in {faults, faults + 1} /\ (faults' = faults \/ faults < MaxFaults)
      BY DEF PublishCreated, Fault, TypeOK
    <2>2. faults' \in 0..MaxFaults /\ (faults' = 0 => faults = 0)
      <3>1. faults \in 0..MaxFaults /\ MaxFaults \in Nat
        BY DEF TypeOK
      <3> QED BY ONLY <2>1, <3>1
    <2>3. /\ UNCHANGED <<tables, enrichment, announced, cooldown, corr, ti, request, clock>>
          /\ rule.pc = "created" /\ rule' = [rule EXCEPT !.pc = "enrichment"]
          /\ created' \in {created, Append(created, rule.id)}
      <3>1. PublishCreated
        OBVIOUS
      <3> QED BY ONLY <3>1 DEF PublishCreated, Fault
    <2> QED BY ONLY <2>2, <2>3 DEF tables
  <1>2. rule.id \in Alert /\ rule.id \notin Elems(created) /\ corr.id # rule.id
    BY <1>1 DEF FlowInv
  <1>3. /\ created' \in Seq(Alert) /\ Elems(created') \subseteq Elems(created) \cup {rule.id}
        /\ Distinct(created')
    <2>1. CASE created' = created
      BY <2>1 DEF TypeOK, FlowInv
    <2>2. CASE created' = Append(created, rule.id)
      BY <1>2, <2>2, AppendFacts DEF TypeOK, FlowInv
    <2> QED BY <1>1, <2>1, <2>2
  <1>4. TypeOK'
    <2>1. rule' \in RuleState
      BY <1>1 DEF TypeOK, RuleState
    <2> QED BY <1>1, <1>3, <2>1 DEF TypeOK
  <1>5. rule'.pc = "enrichment" /\ rule'.id = rule.id
    BY <1>1 DEF TypeOK, RuleState
  <1>6. FlowInv'
    BY <1>1, <1>2, <1>3, <1>5 DEF FlowInv, Waiting, Unlinked, Elems, Distinct
  <1>7. CopyInv'
    BY <1>1, CopyFrame
  <1>8. IncidentInv' /\ AnnounceInv' /\ TimeInv'
    BY <1>1, IncidentFrame, AnnounceFrame, TimeFrame
  <1> QED BY <1>4, <1>6, <1>7, <1>8

LEMMA PublishEnrichmentStep ==
    ASSUME IInv, PublishEnrichment
    PROVE  IInv'
  <1> USE ConstantFacts DEF IInv
  <1>1. /\ UNCHANGED <<alerts, incidents, links, created, announced, cooldown, corr, ti, request, clock, faults>>
        /\ rule.pc = "enrichment" /\ rule' = RuleIdle
        /\ enrichment' \in {enrichment, Append(enrichment, rule.id)}
    BY DEF PublishEnrichment, tables
  <1>2. rule.id \in Alert /\ alerts[rule.id] # None
    BY <1>1 DEF FlowInv
  <1>3. enrichment' \in Seq(Alert) /\ Elems(enrichment') \subseteq Elems(enrichment) \cup {rule.id}
    <2>1. CASE enrichment' = enrichment
      BY <2>1 DEF TypeOK
    <2>2. CASE enrichment' = Append(enrichment, rule.id)
      BY <1>2, <2>2, AppendFacts DEF TypeOK
    <2> QED BY <1>1, <2>1, <2>2
  <1>4. TypeOK'
    BY <1>1, <1>3 DEF TypeOK, RuleState, RuleIdle
  <1>5. FlowInv'
    <2>1. FlowInv
      OBVIOUS
    <2>2. rule'.pc = "idle"
      BY <1>1 DEF RuleIdle
    <2>3. \A a \in Alert : Waiting(a)' => Waiting(a)
      BY ONLY <1>1, <2>2 DEF Waiting, Elems
    <2>4. \A a \in Alert : Unlinked(a)' <=> Unlinked(a)
      BY ONLY <1>1 DEF Unlinked
    <2>5. \A a \in Alert : alerts'[a] = None \/ Waiting(a)' => Unlinked(a)'
      BY ONLY <1>1, <2>1, <2>3, <2>4 DEF FlowInv
    <2>6. \A a \in Elems(enrichment') : alerts'[a] # None
      BY ONLY <1>1, <1>2, <1>3, <2>1 DEF FlowInv
    <2>7. Distinct(created)' /\ Elems(created)' = Elems(created)
      BY ONLY <1>1, <2>1 DEF FlowInv, Distinct, Elems
    <2>8. Elems(enrichment)' = Elems(enrichment')
      BY ONLY DEF Elems
    <2> QED BY ONLY <1>1, <2>1, <2>2, <2>5, <2>6, <2>7, <2>8 DEF FlowInv
  <1>6. CopyInv'
    BY <1>1, CopyFrame
  <1>7. IncidentInv' /\ AnnounceInv' /\ TimeInv'
    BY <1>1, IncidentFrame, AnnounceFrame, TimeFrame
  <1> QED BY <1>4, <1>5, <1>6, <1>7

-----------------------------------------------------------------------------
(* The correlation worker.                                                 *)

LEMMA CorrIdleFacts ==
    /\ CorrIdle \in CorrState /\ CorrIdle.pc = "idle" /\ CorrIdle.id = None /\ CorrIdle.before = None
  BY ConstantFacts DEF CorrIdle, CorrState

(* The worker turns to the next message, or the server restarts: what is   *)
(* no longer on its way needs nothing.                                     *)
LEMMA FlowShrinks ==
    ASSUME IInv, UNCHANGED <<alerts, links>>, corr' = CorrIdle, rule' \in {rule, RuleIdle},
           Elems(created') \subseteq Elems(created), Distinct(created'),
           Elems(enrichment') \subseteq Elems(enrichment)
    PROVE  FlowInv'
  <1> USE ConstantFacts DEF IInv
  <1>1. corr'.pc = "idle" /\ corr'.id = None
    BY CorrIdleFacts
  <1>2. Elems(created) \subseteq Alert /\ (rule'.pc # "idle" => rule' = rule)
    BY ElemsType DEF TypeOK, RuleIdle
  <1>3. \A a \in Alert : (Waiting(a)' => Waiting(a)) /\ (Unlinked(a)' <=> Unlinked(a))
    BY <1>1, <1>2 DEF Waiting, Unlinked
  <1> QED BY <1>1, <1>2, <1>3 DEF FlowInv

LEMMA IncidentIdle ==
    ASSUME IncidentInv, UNCHANGED <<incidents, links>>, corr' = CorrIdle
    PROVE  IncidentInv'
  <1>1. Existing' = Existing /\ \A i : Linked(i)' = Linked(i)
    BY DEF Existing, Linked
  <1>2. LinksAgree'
    BY <1>1 DEF IncidentInv, LinksAgree
  <1> QED BY <1>1, <1>2, CorrIdleFacts DEF IncidentInv

LEMMA TimeIdle ==
    ASSUME TimeInv, UNCHANGED <<incidents, clock>>, corr' = CorrIdle
    PROVE  TimeInv'
  <1>1. Existing' = Existing
    BY DEF Existing
  <1> QED BY <1>1, CorrIdleFacts DEF TimeInv

(* After a fault nothing is claimed of the incidents not yet announced.    *)
LEMMA AnnounceFault ==
    ASSUME AnnounceInv, UNCHANGED <<incidents, announced>>, corr' = CorrIdle, faults' # 0
    PROVE  AnnounceInv'
  <1>1. Existing' = Existing
    BY DEF Existing
  <1> QED BY <1>1, CorrIdleFacts DEF AnnounceInv

LEMMA FaultFacts ==
    ASSUME TypeOK, Fault
    PROVE  faults' \in 0..MaxFaults /\ faults' # 0
  BY ConstantFacts DEF TypeOK, Fault

LEMMA CorrErrorStep ==
    ASSUME IInv, CorrError
    PROVE  IInv'
  <1> USE DEF IInv
  <1>1. /\ UNCHANGED <<alerts, incidents, links, created, enrichment, announced, cooldown, rule, ti, request, clock>>
        /\ corr' = CorrIdle /\ Fault
    BY DEF CorrError, tables, topics
  <1>2. TypeOK'
    BY <1>1, CorrIdleFacts, FaultFacts DEF TypeOK
  <1>3. FlowInv'
    BY <1>1, FlowShrinks DEF FlowInv
  <1>4. CopyInv'
    BY <1>1, CorrIdleFacts DEF CopyInv, StampIsTrue, Held, Sound
  <1> QED BY <1>1, <1>2, <1>3, <1>4, IncidentIdle, TimeIdle, AnnounceFault, FaultFacts

(* A message is taken: its alert is on the topic no more, and since no     *)
(* incident has it, its chain is still empty.                              *)
LEMMA LoadStep ==
    ASSUME IInv, Load
    PROVE  IInv'
  <1> USE ConstantFacts DEF IInv
  <1> DEFINE a == Head(created)
  <1>1. /\ UNCHANGED <<alerts, incidents, links, enrichment, announced, cooldown, rule, ti, request, clock>>
        /\ corr.pc = "idle" /\ created # <<>> /\ created' = Tail(created)
    BY DEF Load, tables
  <1>2. /\ created' \in Seq(Alert) /\ Elems(created') \subseteq Elems(created) /\ Distinct(created')
        /\ a \in Alert /\ a \in Elems(created) /\ a \notin Elems(created')
    BY <1>1, TailFacts DEF TypeOK, FlowInv
  <1> HIDE DEF a
  <1>3. alerts[a] \in AlertRow /\ alerts[a].chain \in Incident \cup {None}
    BY <1>2 DEF FlowInv, TypeOK, AlertRow
  <1>4. Unlinked(a)
    BY <1>2 DEF FlowInv, Waiting
  <1>5. alerts[a].chain = None
    BY <1>2, <1>3, <1>4 DEF CopyInv, StampIsTrue, Unlinked
  <1>6. CASE /\ faults' = faults
             /\ corr' = [CorrIdle EXCEPT !.pc = "find", !.id = a, !.row = alerts[a], !.at = clock,
                                         !.before = None]
    <2>1. /\ corr' \in CorrState /\ corr'.pc = "find" /\ corr'.id = a /\ corr'.row = alerts[a]
          /\ corr'.at = clock /\ corr'.before = None
      BY <1>2, <1>3, <1>6 DEF TypeOK, CorrState, CorrIdle
    <2>2. TypeOK'
      BY <1>1, <1>2, <1>6, <2>1 DEF TypeOK
    <2>3. FlowInv'
      <3>1. \A b \in Alert : (Waiting(b)' => Waiting(b)) /\ (Unlinked(b)' <=> Unlinked(b))
        BY <1>1, <1>2, <2>1 DEF Waiting, Unlinked
      <3>2. rule.pc = "created" => rule.id # a
        BY <1>2 DEF FlowInv
      <3> QED BY <1>1, <1>2, <2>1, <3>1, <3>2 DEF FlowInv
    <2>4. CopyInv'
      BY <1>1, <1>2, <1>3, <1>5, <2>1 DEF CopyInv, FlowInv, StampIsTrue, Held, Sound
    <2>5. Existing' = Existing /\ \A i : Linked(i)' = Linked(i)
      BY <1>1 DEF Existing, Linked
    <2>6. IncidentInv'
      BY <1>1, <2>1, <2>5 DEF IncidentInv, LinksAgree
    <2>7. AnnounceInv'
      BY <1>1, <1>6, <2>1, <2>5 DEF AnnounceInv, Announced
    <2>8. TimeInv'
      BY <1>1, <2>1, <2>5 DEF TimeInv, TypeOK
    <2> QED BY <2>2, <2>3, <2>4, <2>6, <2>7, <2>8
  <1>7. CASE corr' = corr /\ (faults' = faults \/ Fault)
    <2>1. faults' \in 0..MaxFaults /\ (faults' = 0 => faults = 0)
      BY <1>7, FaultFacts DEF TypeOK
    <2>2. TypeOK'
      BY <1>1, <1>2, <1>7, <2>1 DEF TypeOK
    <2>3. FlowInv'
      <3>1. \A b \in Alert : (Waiting(b)' => Waiting(b)) /\ (Unlinked(b)' <=> Unlinked(b))
        BY <1>1, <1>2, <1>7 DEF Waiting, Unlinked
      <3> QED BY <1>1, <1>2, <1>7, <3>1 DEF FlowInv
    <2> QED BY <1>1, <1>7, <2>1, <2>2, <2>3, CopyFrame, IncidentFrame, AnnounceFrame, TimeFrame
  <1>8. \/ /\ faults' = faults
           /\ corr' = [CorrIdle EXCEPT !.pc = "find", !.id = a, !.row = alerts[a], !.at = clock,
                                       !.before = None]
        \/ corr' = corr /\ (faults' = faults \/ Fault)
    BY <1>5 DEF Load, a
  <1> QED BY <1>6, <1>7, <1>8

(* The incident found is open and recent, and is held as the table has it. *)
LEMMA FindStep ==
    ASSUME IInv, Find
    PROVE  IInv'
  <1> USE ConstantFacts DEF IInv
  <1>1. /\ UNCHANGED <<alerts, incidents, links, created, enrichment, announced, cooldown, rule, ti, request, clock, faults>>
        /\ corr.pc = "find"
    BY DEF Find, tables, topics
  <1>2. Existing' = Existing /\ \A i : Linked(i)' = Linked(i)
    BY <1>1 DEF Existing, Linked
  <1>3. ASSUME NEW i \in Candidates, NEW l \in {"same_host", "temporal", "user_activity"},
               corr' = [corr EXCEPT !.pc = "add", !.incident = i, !.inc = incidents[i], !.linker = l]
        PROVE  IInv'
    <2>1. /\ i \in Existing /\ incidents[i] \in IncidentRow /\ incidents[i].status = "open"
          /\ incidents[i].created >= clock - MaxWindow
      BY DEF Candidates, Existing, TypeOK
    <2>2. /\ corr' \in CorrState /\ corr'.pc = "add" /\ corr'.id = corr.id /\ corr'.row = corr.row
          /\ corr'.at = corr.at /\ corr'.before = corr.before
          /\ corr'.incident = i /\ corr'.inc = incidents[i]
      BY <1>3, <2>1 DEF TypeOK, CorrState, Existing
    <2>3. TypeOK'
      BY <1>1, <2>2 DEF TypeOK
    <2>4. FlowInv'
      <3>1. \A b \in Alert : (Waiting(b)' => Waiting(b)) /\ (Unlinked(b)' <=> Unlinked(b))
        BY <1>1, <2>2 DEF Waiting, Unlinked
      <3> QED BY <1>1, <2>2, <3>1 DEF FlowInv
    <2>5. CopyInv'
      BY <1>1, <2>2 DEF CopyInv, StampIsTrue, Held, Sound
    <2>6. IncidentInv'
      BY <1>1, <1>2, <2>1, <2>2 DEF IncidentInv, LinksAgree, Counted
    <2>7. AnnounceInv'
      BY <1>1, <1>2, <2>2 DEF AnnounceInv, Announced
    <2>8. TimeInv'
      <3>1. /\ incidents[i].created \in Int /\ corr.at \in Int /\ clock \in Int
            /\ corr.at <= clock /\ clock <= corr.at + 1
        <4>1. incidents[i].created \in 0..MaxTime
          BY ONLY <2>1 DEF IncidentRow
        <4>2. corr \in CorrState /\ clock \in 0..MaxTime /\ TimeInv /\ corr.pc = "find" /\ MaxTime \in Nat
          BY <1>1 DEF TypeOK
        <4>3. corr.at \in 0..MaxTime
          BY ONLY <4>2 DEF CorrState
        <4>4. corr.at <= clock /\ clock <= corr.at + 1
          BY ONLY <4>2 DEF TimeInv
        <4> QED BY ONLY <4>1, <4>2, <4>3, <4>4
      <3> QED BY <1>1, <1>2, <2>1, <2>2, <3>1 DEF TimeInv
    <2> QED BY <2>3, <2>4, <2>5, <2>6, <2>7, <2>8
  <1>4. CASE corr' = [corr EXCEPT !.pc = "create"]
    <2>2. /\ corr' \in CorrState /\ corr'.pc = "create" /\ corr'.id = corr.id /\ corr'.row = corr.row
          /\ corr'.at = corr.at /\ corr'.before = corr.before
      BY <1>4 DEF TypeOK, CorrState
    <2>3. TypeOK'
      BY <1>1, <2>2 DEF TypeOK
    <2>4. FlowInv'
      <3>1. \A b \in Alert : (Waiting(b)' => Waiting(b)) /\ (Unlinked(b)' <=> Unlinked(b))
        BY <1>1, <2>2 DEF Waiting, Unlinked
      <3> QED BY <1>1, <2>2, <3>1 DEF FlowInv
    <2>5. CopyInv'
      BY <1>1, <2>2 DEF CopyInv, StampIsTrue, Held, Sound
    <2>6. IncidentInv'
      BY <1>1, <1>2, <2>2 DEF IncidentInv, LinksAgree
    <2>7. AnnounceInv'
      BY <1>1, <1>2, <2>2 DEF AnnounceInv, Announced
    <2>8. TimeInv'
      BY <1>1, <1>2, <2>2 DEF TimeInv
    <2> QED BY <2>3, <2>4, <2>5, <2>6, <2>7, <2>8
  <1> QED BY <1>3, <1>4 DEF Find

(* Linking an alert no incident has to one incident, in the link table and *)
(* in the incident's row, keeps the two in agreement.                      *)
LEMMA LinkFacts ==
    ASSUME IInv, NEW i \in Incident, NEW a \in Alert, Unlinked(a),
           links' = links \cup {<<i, a>>}
    PROVE  /\ Linked(i)' = Linked(i) \cup {a} /\ a \notin Linked(i) /\ Linked(i) \in SUBSET Alert
           /\ \A j \in Incident \ {i} : Linked(j)' = Linked(j)
           /\ \A b \in Alert \ {a} : Unlinked(b) => Unlinked(b)'
           /\ (\A j, l \in Incident : j # l => Linked(j) \cap Linked(l) = {})'
  <1>1. Linked(i)' = Linked(i) \cup {a} /\ Linked(i) \in SUBSET Alert
    BY DEF Linked
  <1>2. \A j \in Incident \ {i} : Linked(j)' = Linked(j)
    BY DEF Linked
  <1>3. \A j \in Incident : a \notin Linked(j)
    BY DEF Linked, Unlinked
  <1>4. \A b \in Alert \ {a} : Unlinked(b) => Unlinked(b)'
    BY DEF Unlinked
  <1>5. \A j, l \in Incident : j # l => Linked(j) \cap Linked(l) = {}
    BY DEF IInv, IncidentInv, LinksAgree
  <1>6. \A j \in Incident : Linked(j)' = IF j = i THEN Linked(i) \cup {a} ELSE Linked(j)
    BY <1>1, <1>2
  <1>7. \A j, l \in Incident : j # l => Linked(j)' \cap Linked(l)' = {}
    <2> SUFFICES ASSUME NEW j \in Incident, NEW l \in Incident, j # l
                 PROVE  Linked(j)' \cap Linked(l)' = {}
      OBVIOUS
    <2>1. Linked(j) \cap Linked(l) = {} /\ a \notin Linked(j) /\ a \notin Linked(l)
      BY <1>3, <1>5
    <2> QED BY <1>6, <2>1
  <1> QED BY <1>1, <1>2, <1>3, <1>4, <1>7

(* add_alert: the incident gains the alert; with SameHostLinker the copy   *)
(* the worker holds gains it as well, so that both count the same.         *)
LEMMA WithAlertFacts ==
    ASSUME NEW row \in IncidentRow, NEW a \in Alert, Cardinality(row.ids \cup {a}) \in Nat
    PROVE  LET new == WithAlert(row, a)
           IN  /\ new \in IncidentRow /\ new.ids = row.ids \cup {a}
               /\ new.count = Cardinality(row.ids \cup {a}) /\ new.status = row.status
               /\ new.created = row.created /\ new.updated = row.updated
  BY DEF WithAlert, IncidentRow

Joined(row, s, t, c, S) == [row EXCEPT !.sev = s, !.updated = t, !.count = c, !.ids = S]

LEMMA HeldWithAlert ==
    ASSUME NEW row \in IncidentRow, NEW s \in Severity, NEW t \in 0..MaxTime,
           NEW c \in Nat, NEW S \in SUBSET Alert
    PROVE  /\ Joined(row, s, t, c, S) \in IncidentRow
           /\ Joined(row, s, t, c, S).ids = S /\ Joined(row, s, t, c, S).count = c
           /\ Joined(row, s, t, c, S).status = row.status
           /\ Joined(row, s, t, c, S).created = row.created /\ Joined(row, s, t, c, S).updated = t
  <1> DEFINE r1 == [row EXCEPT !.sev = s]
             r2 == [r1 EXCEPT !.updated = t]
             r3 == [r2 EXCEPT !.count = c]
             r4 == [r3 EXCEPT !.ids = S]
  <1>1. r1 \in IncidentRow /\ r1.status = row.status /\ r1.created = row.created
    BY DEF IncidentRow
  <1> HIDE DEF r1
  <1>2. r2 \in IncidentRow /\ r2.status = row.status /\ r2.created = row.created /\ r2.updated = t
    BY <1>1 DEF IncidentRow
  <1> HIDE DEF r2
  <1>3. /\ r3 \in IncidentRow /\ r3.status = row.status /\ r3.created = row.created
        /\ r3.updated = t /\ r3.count = c
    BY <1>2 DEF IncidentRow
  <1> HIDE DEF r3
  <1>4. /\ r4 \in IncidentRow /\ r4.status = row.status /\ r4.created = row.created
        /\ r4.updated = t /\ r4.count = c /\ r4.ids = S
    BY <1>3 DEF IncidentRow
  <1>5. r4 = Joined(row, s, t, c, S)
    BY DEF r1, r2, r3, Joined
  <1> QED BY <1>4, <1>5

LEMMA AddAlertStep ==
    ASSUME IInv, AddAlert, NEW i, i = corr.incident, NEW a, a = corr.id
    PROVE  IInv'
  <1> USE ConstantFacts DEF IInv
  <1> DEFINE new == WithAlert(incidents[i], a)
             held == [corr EXCEPT !.pc = "update",
                        !.inc.sev = Higher(@, corr.row.sev), !.inc.updated = clock,
                        !.inc.count = @ + 1, !.inc.ids = @ \cup {corr.id}]
  <1>1. /\ UNCHANGED <<alerts, created, enrichment, announced, cooldown, rule, ti, request, clock, faults>>
        /\ corr.pc = "add" /\ links' = links \cup {<<i, a>>}
        /\ incidents' = [incidents EXCEPT ![i] = new]
        /\ corr' = CorrIdle \/ corr' = held
    BY DEF AddAlert, topics
  <1>2. /\ i \in Incident /\ i \in Existing /\ a \in Alert /\ alerts[a] # None /\ Unlinked(a)
        /\ incidents[i] \in IncidentRow /\ corr.inc \in IncidentRow /\ corr.row \in AlertRow
        /\ incidents[i].status = "open" /\ incidents[i].created >= corr.at - MaxWindow
    BY <1>1 DEF FlowInv, Waiting, IncidentInv, Existing, CopyInv, Held, TimeInv, TypeOK
  <1>3. /\ Linked(i)' = Linked(i) \cup {a} /\ a \notin Linked(i) /\ Linked(i) \in SUBSET Alert
        /\ \A j \in Incident \ {i} : Linked(j)' = Linked(j)
        /\ \A b \in Alert \ {a} : Unlinked(b) => Unlinked(b)'
        /\ (\A j, l \in Incident : j # l => Linked(j) \cap Linked(l) = {})'
    BY <1>1, <1>2, LinkFacts
  <1>4. /\ Cardinality(Linked(i)) \in Nat /\ Cardinality(Linked(i)) # 0
        /\ Cardinality(Linked(i) \cup {a}) = Cardinality(Linked(i)) + 1
    BY <1>2, <1>3, AddedOne DEF IncidentInv
  <1>5. /\ incidents[i].ids = Linked(i) /\ incidents[i].count = Cardinality(Linked(i))
        /\ corr.inc.ids = Linked(i) /\ corr.inc.count = Cardinality(Linked(i))
    BY <1>1, <1>2 DEF IncidentInv, LinksAgree, Counted
  <1>6. /\ new \in IncidentRow /\ new.ids = Linked(i) \cup {a}
        /\ new.count = Cardinality(Linked(i) \cup {a}) /\ new.status = "open"
        /\ new.created = incidents[i].created /\ new.updated = incidents[i].updated
    BY <1>2, <1>3, <1>4, <1>5, WithAlertFacts
  <1>7. /\ incidents' \in [Incident -> IncidentRow \cup {None}] /\ incidents'[i] = new
        /\ \A j \in Incident \ {i} : incidents'[j] = incidents[j]
    BY <1>1, <1>2, <1>6 DEF TypeOK
  <1>8. Existing' = Existing
    BY <1>2, <1>6, <1>7 DEF Existing
  <1> HIDE DEF new
  <1>9. corr' = held => /\ corr' \in CorrState /\ corr'.pc = "update" /\ corr'.id = a
                        /\ corr'.row = corr.row /\ corr'.at = corr.at /\ corr'.incident = i
                        /\ corr'.before = corr.before
                        /\ corr'.inc \in IncidentRow /\ corr'.inc.ids = Linked(i) \cup {a}
                        /\ corr'.inc.count = Cardinality(Linked(i)) + 1
                        /\ corr'.inc.status = corr.inc.status
                        /\ corr'.inc.created = corr.inc.created /\ corr'.inc.updated = clock
    <2> SUFFICES ASSUME corr' = held PROVE corr' \in CorrState /\ corr'.pc = "update" /\ corr'.id = a
                        /\ corr'.row = corr.row /\ corr'.at = corr.at /\ corr'.incident = i
                        /\ corr'.before = corr.before
                        /\ corr'.inc \in IncidentRow /\ corr'.inc.ids = Linked(i) \cup {a}
                        /\ corr'.inc.count = Cardinality(Linked(i)) + 1
                        /\ corr'.inc.status = corr.inc.status
                        /\ corr'.inc.created = corr.inc.created /\ corr'.inc.updated = clock
      OBVIOUS
    <2>1. Higher(corr.inc.sev, corr.row.sev) \in Severity
      BY <1>2 DEF Higher, IncidentRow, AlertRow
    <2> DEFINE inc == Joined(corr.inc, Higher(corr.inc.sev, corr.row.sev), clock,
                             corr.inc.count + 1, corr.inc.ids \cup {a})
    <2>2. /\ inc \in IncidentRow /\ inc.ids = Linked(i) \cup {a}
          /\ inc.count = Cardinality(Linked(i)) + 1 /\ inc.status = corr.inc.status
          /\ inc.created = corr.inc.created /\ inc.updated = clock
      <3>1. clock \in 0..MaxTime
        BY DEF TypeOK
      <3>2. corr.inc.count + 1 \in Nat /\ corr.inc.ids \cup {a} \in SUBSET Alert
        BY <1>2, <1>3, <1>4, <1>5
      <3>3. /\ inc \in IncidentRow /\ inc.ids = corr.inc.ids \cup {a}
            /\ inc.count = corr.inc.count + 1 /\ inc.status = corr.inc.status
            /\ inc.created = corr.inc.created /\ inc.updated = clock
        BY <1>2, <2>1, <3>1, <3>2, HeldWithAlert
      <3> QED BY <1>5, <3>3
    <2>3. corr' = [corr EXCEPT !.pc = "update", !.inc = inc]
      BY <1>2 DEF TypeOK, CorrState, IncidentRow, Joined
    <2> HIDE DEF inc, held
    <2>4. /\ corr' \in CorrState /\ corr'.pc = "update" /\ corr'.id = corr.id /\ corr'.inc = inc
          /\ corr'.row = corr.row /\ corr'.at = corr.at /\ corr'.incident = corr.incident
          /\ corr'.before = corr.before
      BY <2>2, <2>3 DEF TypeOK, CorrState
    <2> QED BY <2>2, <2>4
  <1> HIDE DEF held
  <1>10. corr'.pc = "idle" \/ corr' = held
    BY <1>1, CorrIdleFacts
  <1>11. TypeOK'
    <2>1. TypeOK /\ i \in Incident
      BY <1>2 DEF Existing
    <2>2. corr' \in CorrState
      BY <1>1, <1>9, CorrIdleFacts
    <2>3. links' \subseteq Incident \X Alert
      BY ONLY <1>1, <1>2, <2>1 DEF TypeOK
    <2>4. incidents' \in [Incident -> IncidentRow \cup {None}]
      BY ONLY <1>1, <1>7, <2>1 DEF TypeOK
    <2> QED BY ONLY <1>1, <2>1, <2>2, <2>3, <2>4 DEF TypeOK
  <1>12. FlowInv'
    <2>1. \A b \in Alert : Waiting(b)' => Waiting(b) /\ b # a
      BY <1>1, <1>2, <1>9, <1>10 DEF Waiting, FlowInv
    <2>2. \A b \in Alert : alerts'[b] = None \/ Waiting(b)' => Unlinked(b)'
      BY <1>1, <1>2, <1>3, <2>1 DEF FlowInv
    <2>3. \A b \in Elems(created') : corr'.id # b /\ alerts'[b] # None
      BY <1>1, <1>2, <1>9, CorrIdleFacts, ElemsType DEF FlowInv, TypeOK
    <2> QED BY <1>1, <1>2, <1>9, <1>10, <2>2, <2>3, CorrIdleFacts DEF FlowInv
  <1>13. CopyInv'
    BY <1>1, <1>2, <1>9, <1>10 DEF CopyInv, StampIsTrue, Held, Sound
  <1>14. IncidentInv'
    <2>1. LinksAgree'
      <3>1. \A j \in Incident : incidents'[j] = None => Linked(j)' = {}
        BY <1>3, <1>6, <1>7 DEF IncidentInv, LinksAgree
      <3>2. \A j \in Existing : /\ incidents'[j].ids = Linked(j)'
                                /\ incidents'[j].count = Cardinality(Linked(j)')
        <4> TAKE j \in Existing
        <4>1. CASE j = i
          BY <1>3, <1>6, <1>7, <4>1
        <4>2. CASE j # i
          <5>1. Linked(j)' = Linked(j) /\ incidents'[j] = incidents[j]
            BY <1>3, <1>7, <4>2 DEF Existing
          <5> QED BY <5>1 DEF IncidentInv, LinksAgree
        <4> QED BY <4>1, <4>2
      <3> QED BY <1>3, <1>8, <3>1, <3>2 DEF LinksAgree
    <2>2. (\A j \in Existing : Linked(j) # {})'
      BY <1>2, <1>3, <1>8 DEF IncidentInv, Existing
    <2> QED BY <1>1, <1>2, <1>3, <1>4, <1>8, <1>9, <1>10, <2>1, <2>2 DEF IncidentInv, Counted
  <1>15. AnnounceInv'
    BY <1>1, <1>4, <1>8, <1>9, <1>10, CorrIdleFacts DEF AnnounceInv, Announced
  <1>16. TimeInv'
    <2>1. /\ corr.inc.created \in Int /\ corr.inc.updated \in Int /\ clock \in Int
          /\ corr.inc.updated <= clock
      <3>1. corr.inc \in IncidentRow /\ clock \in 0..MaxTime /\ MaxTime \in Nat
        BY <1>2 DEF TypeOK
      <3>2. corr.inc.created \in 0..MaxTime /\ corr.inc.updated \in 0..MaxTime
        BY ONLY <3>1 DEF IncidentRow
      <3>3. TimeInv /\ corr.pc = "add"
        BY <1>1, <1>2
      <3>4. corr.inc.updated <= clock
        BY ONLY <3>3 DEF TimeInv
      <3> QED BY ONLY <3>1, <3>2, <3>4
    <2> QED BY <1>1, <1>2, <1>6, <1>7, <1>8, <1>9, <1>10, <2>1 DEF TimeInv, Existing
  <1> QED BY <1>11, <1>12, <1>13, <1>14, <1>15, <1>16

(* The copy written back is the table's row with the alert already added.  *)
LEMMA UpdateIncidentStep ==
    ASSUME IInv, UpdateIncident, NEW i, i = corr.incident
    PROVE  IInv'
  <1> USE ConstantFacts DEF IInv
  <1>1. /\ UNCHANGED <<alerts, links, created, enrichment, announced, cooldown, rule, ti, request, clock, faults>>
        /\ corr.pc = "update" /\ incidents' = [incidents EXCEPT ![i] = corr.inc]
        /\ corr' = [corr EXCEPT !.pc = "stamp"]
    BY DEF UpdateIncident, topics
  <1>2. /\ corr' \in CorrState /\ corr'.pc = "stamp" /\ corr'.id = corr.id /\ corr'.row = corr.row
        /\ corr'.at = corr.at /\ corr'.before = corr.before
        /\ corr'.incident = i /\ corr'.inc = corr.inc
    BY <1>1 DEF TypeOK, CorrState
  <1>3. /\ i \in Incident /\ i \in Existing /\ corr.inc \in IncidentRow /\ <<i, corr.id>> \in links
        /\ corr.inc.ids = Linked(i) /\ corr.inc.count = Cardinality(Linked(i))
    BY <1>1 DEF IncidentInv, Existing, Counted
  <1>4. /\ incidents' \in [Incident -> IncidentRow \cup {None}] /\ incidents'[i] = corr.inc
        /\ \A j \in Incident \ {i} : incidents'[j] = incidents[j]
    BY <1>1, <1>3 DEF TypeOK
  <1>5. Existing' = Existing /\ \A j : Linked(j)' = Linked(j)
    BY <1>1, <1>3, <1>4 DEF Existing, Linked
  <1>6. TypeOK'
    BY <1>1, <1>2, <1>4 DEF TypeOK
  <1>7. FlowInv'
    <2>1. \A b \in Alert : (Waiting(b)' => Waiting(b)) /\ (Unlinked(b)' <=> Unlinked(b))
      BY <1>1, <1>2 DEF Waiting, Unlinked
    <2> QED BY <1>1, <1>2, <2>1 DEF FlowInv
  <1>8. CopyInv'
    BY <1>1, <1>2 DEF CopyInv, StampIsTrue, Held, Sound
  <1>9. IncidentInv'
    <2>1. LinksAgree'
      BY <1>3, <1>4, <1>5 DEF IncidentInv, LinksAgree, Existing
    <2> QED BY <1>1, <1>2, <1>3, <1>5, <2>1 DEF IncidentInv
  <1>10. AnnounceInv'
    BY <1>1, <1>2, <1>5 DEF AnnounceInv, Announced, IsNew
  <1>11. TimeInv'
    BY <1>1, <1>2, <1>3, <1>4, <1>5 DEF TimeInv, Existing
  <1> QED BY <1>6, <1>7, <1>8, <1>9, <1>10, <1>11

(* A new incident has one alert and has not been announced.                *)
LEMMA CreateIncidentStep ==
    ASSUME IInv, NEW i \in Incident, CreateIncident(i), NEW a, a = corr.id
    PROVE  IInv'
  <1> USE ConstantFacts DEF IInv
  <1> DEFINE row == [sev |-> corr.row.sev, status |-> "open", created |-> clock,
                     updated |-> clock, count |-> 1, ids |-> {a}]
  <1>1. /\ UNCHANGED <<alerts, created, enrichment, announced, cooldown, rule, ti, request, clock, faults>>
        /\ corr.pc = "create" /\ incidents[i] = None
        /\ incidents' = [incidents EXCEPT ![i] = row] /\ links' = links \cup {<<i, a>>}
        /\ corr' = [corr EXCEPT !.pc = "stamp", !.incident = i, !.inc = row]
    BY DEF CreateIncident, Fresh, topics
  <1>2. a \in Alert /\ alerts[a] # None /\ Unlinked(a) /\ corr.row \in AlertRow
    BY <1>1 DEF FlowInv, Waiting, CopyInv, Held
  <1>3. /\ row \in IncidentRow /\ row.ids = {a} /\ row.count = 1
        /\ row.created = clock /\ row.updated = clock
    BY <1>2 DEF TypeOK, IncidentRow, AlertRow
  <1> HIDE DEF row
  <1>4. /\ corr' \in CorrState /\ corr'.pc = "stamp" /\ corr'.id = a /\ corr'.row = corr.row
        /\ corr'.at = corr.at /\ corr'.before = corr.before
        /\ corr'.incident = i /\ corr'.inc = row
    <2>1. corr \in CorrState
      BY DEF TypeOK
    <2> QED BY ONLY <1>1, <1>3, <2>1, i \in Incident, a = corr.id DEF CorrState
  <1>5. /\ Linked(i)' = Linked(i) \cup {a}
        /\ \A j \in Incident \ {i} : Linked(j)' = Linked(j)
        /\ \A b \in Alert \ {a} : Unlinked(b) => Unlinked(b)'
        /\ (\A j, l \in Incident : j # l => Linked(j) \cap Linked(l) = {})'
    BY <1>1, <1>2, LinkFacts
  <1>6. Linked(i)' = {a} /\ Cardinality({a}) = 1
    BY <1>1, <1>5, FS_Singleton DEF IncidentInv, LinksAgree
  <1>7. /\ incidents' \in [Incident -> IncidentRow \cup {None}] /\ incidents'[i] = row
        /\ \A j \in Incident \ {i} : incidents'[j] = incidents[j]
    BY <1>1, <1>3 DEF TypeOK
  <1>8. Existing' = Existing \cup {i} /\ i \notin Existing /\ Existing \subseteq Incident
    BY <1>1, <1>3, <1>7 DEF Existing
  <1>9. TypeOK'
    BY <1>1, <1>2, <1>4, <1>7 DEF TypeOK
  <1>10. FlowInv'
    <2>1. \A b \in Alert : Waiting(b)' => Waiting(b) /\ b # a
      BY <1>1, <1>2, <1>4 DEF Waiting, FlowInv
    <2>2. \A b \in Alert : alerts'[b] = None \/ Waiting(b)' => Unlinked(b)'
      BY <1>1, <1>2, <1>5, <2>1 DEF FlowInv
    <2> QED BY <1>1, <1>2, <1>4, <2>2 DEF FlowInv
  <1>11. CopyInv'
    BY <1>1, <1>2, <1>4 DEF CopyInv, StampIsTrue, Held, Sound
  <1>12. IncidentInv'
    <2>1. LinksAgree'
      <3>1. \A j \in Incident : incidents'[j] = None => Linked(j)' = {}
        BY <1>3, <1>5, <1>7 DEF IncidentInv, LinksAgree
      <3>2. \A j \in Existing \cup {i} : /\ incidents'[j].ids = Linked(j)'
                                         /\ incidents'[j].count = Cardinality(Linked(j)')
        <4> TAKE j \in Existing \cup {i}
        <4>1. CASE j = i
          BY <1>3, <1>6, <1>7, <4>1
        <4>2. CASE j # i
          <5>1. j \in Existing /\ Linked(j)' = Linked(j) /\ incidents'[j] = incidents[j]
            BY <1>5, <1>7, <1>8, <4>2
          <5> QED BY <5>1 DEF IncidentInv, LinksAgree
        <4> QED BY <4>1, <4>2
      <3> QED BY <1>5, <1>8, <3>1, <3>2 DEF LinksAgree
    <2>2. \A j \in Existing \cup {i} : Linked(j)' # {}
      BY <1>5, <1>6, <1>8 DEF IncidentInv
    <2> QED BY <1>1, <1>3, <1>4, <1>8, <2>1, <2>2 DEF IncidentInv
  <1>13. AnnounceInv'
    <2>1. \A j : Announced(j)' <=> Announced(j)
      BY <1>1 DEF Announced
    <2>2. ~Announced(i) /\ IsNew'
      BY <1>3, <1>4, <1>8 DEF Announced, AnnounceInv, IsNew
    <2>3. faults' = 0 => \A j \in Existing : Announced(j)
      BY <1>1 DEF AnnounceInv
    <2> QED BY <1>1, <1>4, <1>8, <2>1, <2>2, <2>3 DEF AnnounceInv
  <1>14. TimeInv'
    <2>1. clock \in Int
      BY DEF TypeOK
    <2> QED BY <1>1, <1>3, <1>4, <1>7, <1>8, <2>1 DEF TimeInv
  <1> QED BY <1>9, <1>10, <1>11, <1>12, <1>13, <1>14

(* The chain written names the incident that has the alert.                *)
LEMMA StampStep ==
    ASSUME IInv, Stamp, NEW a, a = corr.id
    PROVE  IInv'
  <1> USE ConstantFacts DEF IInv
  <1> DEFINE row == [corr.row EXCEPT !.chain = corr.incident]
  <1>1. /\ UNCHANGED <<incidents, links, created, enrichment, announced, cooldown, rule, ti, request, clock, faults>>
        /\ corr.pc = "stamp" /\ alerts' = [alerts EXCEPT ![a] = row]
        /\ corr' = [corr EXCEPT !.pc = "publish"]
    BY DEF Stamp, topics
  <1>2. /\ a \in Alert /\ alerts[a] # None /\ corr.row \in AlertRow
        /\ corr.incident \in Incident /\ <<corr.incident, a>> \in links
    BY <1>1 DEF CopyInv, Held, IncidentInv, Existing
  <1>3. row \in AlertRow /\ row.chain = corr.incident
    BY <1>2 DEF AlertRow
  <1> HIDE DEF row
  <1>4. /\ corr' \in CorrState /\ corr'.pc = "publish" /\ corr'.id = a /\ corr'.row = corr.row
        /\ corr'.at = corr.at /\ corr'.before = corr.before
        /\ corr'.incident = corr.incident /\ corr'.inc = corr.inc
    BY <1>1 DEF TypeOK, CorrState
  <1>5. /\ alerts' \in [Alert -> AlertRow \cup {None}] /\ alerts'[a] = row
        /\ \A b \in Alert : b # a => alerts'[b] = alerts[b]
        /\ \A b \in Alert : alerts'[b] = None <=> alerts[b] = None
    BY <1>1, <1>2, <1>3 DEF TypeOK
  <1>6. TypeOK'
    BY <1>1, <1>4, <1>5 DEF TypeOK
  <1>7. FlowInv'
    <2>1. \A b \in Alert : (Waiting(b)' => Waiting(b)) /\ (Unlinked(b)' <=> Unlinked(b))
      BY <1>1, <1>4 DEF Waiting, Unlinked
    <2>2. Elems(created) \subseteq Alert /\ Elems(enrichment) \subseteq Alert
      BY ElemsType DEF TypeOK
    <2> QED BY <1>1, <1>2, <1>4, <1>5, <2>1, <2>2 DEF FlowInv
  <1>8. CopyInv'
    BY <1>1, <1>2, <1>3, <1>4, <1>5 DEF CopyInv, StampIsTrue, Held, Sound
  <1>9. Existing' = Existing /\ \A j : Linked(j)' = Linked(j)
    BY <1>1 DEF Existing, Linked
  <1>10. IncidentInv'
    <2>1. LinksAgree'
      BY <1>1, <1>9 DEF IncidentInv, LinksAgree
    <2> QED BY <1>1, <1>4, <1>9, <2>1 DEF IncidentInv
  <1>11. AnnounceInv'
    BY <1>1, <1>4, <1>9 DEF AnnounceInv, Announced, IsNew
  <1>12. TimeInv'
    BY <1>1, <1>4, <1>9 DEF TimeInv
  <1> QED BY <1>6, <1>7, <1>8, <1>10, <1>11, <1>12

(* Only the alert that created the incident announces it: an alert is      *)
(* loaded before it has a chain, so "escalated" never holds.               *)
LEMMA PublishStep ==
    ASSUME IInv, Publish, NEW i, i = corr.incident
    PROVE  IInv'
  <1> USE ConstantFacts DEF IInv
  <1> DEFINE m == [incident |-> i, trigger |-> corr.id]
  <1>1. /\ UNCHANGED <<alerts, incidents, links, created, enrichment, cooldown, rule, ti, request, clock, faults>>
        /\ corr.pc = "publish" /\ corr' = CorrIdle
        /\ announced' = IF IsNew THEN announced \cup {m} ELSE announced
    BY DEF Publish, Escalated, AnnounceInv, tables
  <1>2. i \in Existing /\ i \in Incident /\ corr.id \in Alert
    BY <1>1 DEF IncidentInv, FlowInv, Existing
  <1>3. m \in [incident : Incident, trigger : Alert] /\ m.incident = i
    BY <1>2
  <1> HIDE DEF m
  <1>4. TypeOK'
    BY <1>1, <1>3, CorrIdleFacts DEF TypeOK
  <1>5. FlowInv'
    BY <1>1, FlowShrinks DEF FlowInv
  <1>6. CopyInv'
    BY <1>1, CorrIdleFacts DEF CopyInv, StampIsTrue, Held, Sound
  <1>7. Existing' = Existing
    BY <1>1 DEF Existing
  <1>8. AnnounceInv'
    <2>1. CASE IsNew
      <3>1. announced' = announced \cup {m} /\ ~Announced(i)
        BY <1>1, <2>1 DEF AnnounceInv
      <3>2. \A n \in announced : n.incident # i
        BY <3>1 DEF Announced
      <3>3. \A j : Announced(j)' <=> Announced(j) \/ j = i
        BY <1>3, <3>1 DEF Announced
      <3> QED BY <1>1, <1>2, <1>3, <1>7, <3>1, <3>2, <3>3, CorrIdleFacts DEF AnnounceInv
    <2>2. CASE ~IsNew
      BY <1>1, <1>7, <2>2, CorrIdleFacts DEF AnnounceInv, Announced
    <2> QED BY <2>1, <2>2
  <1> QED BY <1>1, <1>4, <1>5, <1>6, <1>8, IncidentIdle, TimeIdle

(* An incident the worker is about to write back is younger than the       *)
(* auto-close time: it was created within MaxWindow of a tick ago.         *)
LEMMA HeldIsYoung ==
    ASSUME IInv, corr.pc \in {"add", "update"}
    PROVE  ~(incidents[corr.incident].updated < clock - AutoClose)
  <1>1. /\ incidents[corr.incident].created \in Int /\ incidents[corr.incident].updated \in Int
        /\ corr.at \in Int /\ clock \in Int /\ AutoClose \in Int /\ MaxWindow \in Int
        /\ MaxWindow + 1 <= AutoClose
    <2>1. incidents[corr.incident] \in IncidentRow
      <3>1. corr.incident \in Existing
        BY DEF IInv, IncidentInv
      <3>2. incidents \in [Incident -> IncidentRow \cup {None}]
        BY DEF IInv, TypeOK
      <3> QED BY <3>1, <3>2 DEF Existing
    <2>2. /\ incidents[corr.incident].created \in Int
          /\ incidents[corr.incident].updated \in Int
      BY <2>1, ConstantFacts DEF IncidentRow
    <2>3. corr.at \in Int /\ clock \in Int
      <3>1. corr \in CorrState /\ clock \in 0..MaxTime
        BY DEF IInv, TypeOK
      <3> QED BY <3>1, ConstantFacts DEF CorrState
    <2> QED BY <2>2, <2>3, ConstantFacts
  <1>2. /\ incidents[corr.incident].created <= incidents[corr.incident].updated
        /\ incidents[corr.incident].created >= corr.at - MaxWindow
        /\ clock <= corr.at + 1
    BY DEF IInv, TimeInv, IncidentInv
  <1> QED BY <1>1, <1>2

(* What the auto-close does to each row.                                   *)
LEMMA CloseFacts ==
    ASSUME IInv, close_stale
    PROVE  /\ incidents' \in [Incident -> IncidentRow \cup {None}]
           /\ \A j \in Incident : incidents[j] = None => incidents'[j] = None
           /\ \A j \in Existing :
                /\ incidents'[j] \in IncidentRow
                /\ incidents'[j].ids = incidents[j].ids /\ incidents'[j].count = incidents[j].count
                /\ incidents'[j].created = incidents[j].created
                /\ incidents'[j].updated = incidents[j].updated
                /\ incidents'[j] = incidents[j] \/ incidents'[j].status = "resolved"
                /\ ~(incidents[j].updated < clock - AutoClose) => incidents'[j] = incidents[j]
           /\ UNCHANGED <<alerts, links, created, enrichment, announced, cooldown, rule, corr, ti, request, clock, faults>>
  <1> DEFINE Stale(row) == row # None /\ row.status = "open" /\ row.updated < clock - AutoClose
  <1>1. /\ incidents' = [j \in Incident |-> IF Stale(incidents[j])
                                            THEN [incidents[j] EXCEPT !.status = "resolved"]
                                            ELSE incidents[j]]
        /\ UNCHANGED <<alerts, links, created, enrichment, announced, cooldown, rule, corr, ti, request, clock, faults>>
    BY DEF close_stale, CloseOlderThan, topics, tasks
  <1>2. \A j \in Incident : incidents[j] \in IncidentRow \cup {None}
    BY DEF IInv, TypeOK
  <1>3. \A j \in Incident : ~Stale(incidents[j]) => incidents'[j] = incidents[j]
    BY <1>1
  <1>4. ASSUME NEW j \in Incident, Stale(incidents[j])
        PROVE  /\ incidents'[j] \in IncidentRow
               /\ incidents'[j].ids = incidents[j].ids /\ incidents'[j].count = incidents[j].count
               /\ incidents'[j].created = incidents[j].created
               /\ incidents'[j].updated = incidents[j].updated
               /\ incidents'[j].status = "resolved"
    <2>1. incidents[j] \in IncidentRow
      BY <1>2, <1>4
    <2>2. incidents'[j] = [incidents[j] EXCEPT !.status = "resolved"]
      BY <1>1, <1>4
    <2> QED BY <2>1, <2>2 DEF IncidentRow
  <1>5. \A j \in Incident : incidents'[j] \in IncidentRow \cup {None}
    BY <1>2, <1>3, <1>4
  <1>6. incidents' \in [Incident -> IncidentRow \cup {None}]
    BY <1>1, <1>5
  <1>7. \A j \in Existing : j \in Incident /\ incidents[j] # None /\ incidents[j] \in IncidentRow
    BY <1>2 DEF Existing
  <1>8. ASSUME NEW j \in Existing
        PROVE  /\ incidents'[j] \in IncidentRow
               /\ incidents'[j].ids = incidents[j].ids /\ incidents'[j].count = incidents[j].count
               /\ incidents'[j].created = incidents[j].created
               /\ incidents'[j].updated = incidents[j].updated
               /\ incidents'[j] = incidents[j] \/ incidents'[j].status = "resolved"
               /\ ~(incidents[j].updated < clock - AutoClose) => incidents'[j] = incidents[j]
    <2>1. CASE Stale(incidents[j])
      BY <1>4, <1>7, <2>1
    <2>2. CASE ~Stale(incidents[j])
      <3>1. incidents'[j] = incidents[j]
        BY <1>3, <1>7, <2>2
      <3> QED BY <1>7, <3>1
    <2> QED BY <2>1, <2>2
  <1>9. \A j \in Incident : incidents[j] = None => incidents'[j] = None
    BY <1>3
  <1> HIDE DEF Stale
  <1> QED BY <1>1, <1>6, <1>8, <1>9

LEMMA CloseStep ==
    ASSUME IInv, close_stale
    PROVE  IInv'
  <1> USE ConstantFacts, CloseFacts DEF IInv
  <1>1. Existing' = Existing /\ \A j : Linked(j)' = Linked(j)
    BY DEF Existing, Linked
  <1>2. TypeOK'
    BY DEF TypeOK
  <1>3. IncidentInv'
    <2>1. LinksAgree'
      BY <1>1 DEF IncidentInv, LinksAgree, Existing
    <2> QED BY <1>1, <2>1 DEF IncidentInv, Counted
  <1>4. AnnounceInv'
    BY <1>1 DEF AnnounceInv, Announced, IsNew
  <1>5. TimeInv'
    BY <1>1, HeldIsYoung DEF TimeInv, IncidentInv
  <1> QED BY <1>2, <1>3, <1>4, <1>5, FlowFrame, CopyFrame

-----------------------------------------------------------------------------
(* The TI worker and analysts.                                             *)

(* The row read has a sound chain, and links are never removed.            *)
LEMMA RowIsHeld ==
    ASSUME IInv, NEW a \in Alert, alerts[a] # None
    PROVE  Held(a, alerts[a])
  BY DEF IInv, TypeOK, CopyInv, StampIsTrue, Held, Sound

LEMMA LookupStep ==
    ASSUME IInv, Lookup
    PROVE  IInv'
  <1> USE ConstantFacts DEF IInv
  <1> DEFINE a == Head(enrichment)
  <1>1. /\ UNCHANGED <<alerts, incidents, links, created, announced, cooldown, rule, corr, request, clock, faults>>
        /\ enrichment # <<>> /\ enrichment' = Tail(enrichment)
        /\ ti' = TaskIdle \/ ti' = [id |-> a, row |-> alerts[a]]
    BY DEF Lookup, tables
  <1>2. /\ enrichment' \in Seq(Alert) /\ Elems(enrichment') \subseteq Elems(enrichment)
        /\ a \in Alert /\ a \in Elems(enrichment)
    BY <1>1, TailFacts DEF TypeOK
  <1> HIDE DEF a
  <1>3. alerts[a] # None /\ alerts[a] \in AlertRow
    BY <1>2 DEF FlowInv, TypeOK
  <1>4. ti' \in TaskState /\ (ti' # TaskIdle => ti'.id = a /\ ti'.row = alerts[a])
    BY <1>1, <1>2, <1>3 DEF TaskState, TaskIdle
  <1>5. TypeOK'
    BY <1>1, <1>2, <1>4 DEF TypeOK
  <1>6. FlowInv'
    <2>1. \A b \in Alert : (Waiting(b)' <=> Waiting(b)) /\ (Unlinked(b)' <=> Unlinked(b))
      BY <1>1 DEF Waiting, Unlinked
    <2> QED BY <1>1, <1>2, <2>1 DEF FlowInv
  <1>7. CopyInv'
    BY <1>1, <1>2, <1>3, <1>4, RowIsHeld DEF CopyInv, StampIsTrue, Held, Sound
  <1> QED BY <1>1, <1>5, <1>6, <1>7, IncidentFrame, AnnounceFrame, TimeFrame

(* A held row is written back: the alert exists and its chain is sound.    *)
LEMMA WriteBack ==
    ASSUME IInv, NEW a \in Alert, NEW row \in AlertRow, Sound(a, row), alerts[a] # None,
           alerts' = [alerts EXCEPT ![a] = row],
           UNCHANGED <<incidents, links, created, enrichment, announced, rule, corr, clock>>,
           faults' = faults
    PROVE  /\ alerts' \in [Alert -> AlertRow \cup {None}]
           /\ \A b \in Alert : alerts'[b] = None <=> alerts[b] = None
           /\ StampIsTrue' /\ FlowInv' /\ IncidentInv' /\ AnnounceInv' /\ TimeInv'
  <1> USE ConstantFacts DEF IInv
  <1>1. /\ alerts' \in [Alert -> AlertRow \cup {None}] /\ alerts'[a] = row
        /\ \A b \in Alert : b # a => alerts'[b] = alerts[b]
        /\ \A b \in Alert : alerts'[b] = None <=> alerts[b] = None
    BY DEF TypeOK
  <1>2. FlowInv'
    <2>1. \A b \in Alert : (Waiting(b)' <=> Waiting(b)) /\ (Unlinked(b)' <=> Unlinked(b))
      BY DEF Waiting, Unlinked
    <2>2. Elems(created) \subseteq Alert /\ Elems(enrichment) \subseteq Alert
      BY ElemsType DEF TypeOK
    <2> QED BY <1>1, <2>1, <2>2 DEF FlowInv
  <1>3. StampIsTrue'
    BY <1>1 DEF CopyInv, StampIsTrue, Sound
  <1> QED BY <1>1, <1>2, <1>3, IncidentFrame, AnnounceFrame, TimeFrame

LEMMA UpdateTiStep ==
    ASSUME IInv, UpdateTi, NEW a, a = ti.id, NEW row, row = [ti.row EXCEPT !.ti = TRUE]
    PROVE  IInv'
  <1> USE ConstantFacts DEF IInv
  <1>1. /\ UNCHANGED <<incidents, links, created, enrichment, announced, cooldown, rule, corr, request, clock>>
        /\ ti # TaskIdle /\ ti' = TaskIdle
    BY DEF UpdateTi, topics
  <1>2. TaskIdle \in TaskState
    BY DEF TaskIdle, TaskState
  <1>3. CASE alerts' = [alerts EXCEPT ![a] = row] /\ faults' = faults
    <2>1. a \in Alert /\ ti.row \in AlertRow /\ alerts[a] # None /\ Sound(a, ti.row)
      BY <1>1 DEF CopyInv, Held
    <2>2. row \in AlertRow /\ row.chain = ti.row.chain
      BY <2>1 DEF AlertRow
    <2>3. Sound(a, row)
      BY <2>1, <2>2 DEF Sound
    <2>4. /\ alerts' \in [Alert -> AlertRow \cup {None}]
          /\ \A b \in Alert : alerts'[b] = None <=> alerts[b] = None
          /\ StampIsTrue' /\ FlowInv' /\ IncidentInv' /\ AnnounceInv' /\ TimeInv'
      BY <1>1, <1>3, <2>1, <2>2, <2>3, WriteBack
    <2>5. TypeOK'
      BY <1>1, <1>2, <1>3, <2>4 DEF TypeOK
    <2>6. CopyInv'
      BY <1>1, <2>4 DEF CopyInv, Held, Sound
    <2> QED BY <2>4, <2>5, <2>6
  <1>4. CASE Fault /\ alerts' = alerts
    <2>1. faults' \in 0..MaxFaults /\ faults' # 0
      BY <1>4, FaultFacts
    <2>2. TypeOK'
      BY <1>1, <1>2, <1>4, <2>1 DEF TypeOK
    <2>3. CopyInv'
      BY <1>1, <1>4 DEF CopyInv, StampIsTrue, Held, Sound
    <2> QED BY <1>1, <1>4, <2>1, <2>2, <2>3, FlowFrame, IncidentFrame, AnnounceFrame, TimeFrame
  <1> QED BY <1>3, <1>4 DEF UpdateTi

LEMMA GetAlertStep ==
    ASSUME IInv, NEW n \in Request, NEW a \in Alert, NEW s \in Status, GetAlert(n, a, s)
    PROVE  IInv'
  <1> USE ConstantFacts DEF IInv
  <1> DEFINE row == [alerts[a] EXCEPT !.status = s]
  <1>1. /\ UNCHANGED <<alerts, incidents, links, created, enrichment, announced, cooldown, rule, corr, ti, clock, faults>>
        /\ alerts[a] # None
        /\ request' = [request EXCEPT ![n] = [pc |-> "held", id |-> a, row |-> row]]
    BY DEF GetAlert, tables, topics
  <1>2. alerts[a] \in AlertRow /\ Held(a, alerts[a])
    BY <1>1, RowIsHeld DEF Held
  <1>3. row \in AlertRow /\ row.chain = alerts[a].chain
    BY <1>2 DEF AlertRow
  <1> HIDE DEF row
  <1>4. /\ request' \in [Request -> RequestState]
        /\ \A p \in Request : request'[p] = request[p]
                                 \/ (request'[p].id = a /\ request'[p].row = row)
    BY <1>1, <1>3 DEF TypeOK, RequestState
  <1>5. TypeOK'
    BY <1>1, <1>4 DEF TypeOK
  <1>6. CopyInv'
    BY <1>1, <1>2, <1>3, <1>4 DEF CopyInv, StampIsTrue, Held, Sound
  <1> QED BY <1>1, <1>5, <1>6, FlowFrame, IncidentFrame, AnnounceFrame, TimeFrame

LEMMA UpdateAlertStep ==
    ASSUME IInv, NEW n \in Request, UpdateAlert(n), NEW a, a = request[n].id,
           NEW row, row = request[n].row
    PROVE  IInv'
  <1> USE ConstantFacts DEF IInv
  <1>1. /\ UNCHANGED <<incidents, links, created, enrichment, announced, cooldown, rule, corr, ti, clock, faults>>
        /\ request[n].pc = "held" /\ alerts' = [alerts EXCEPT ![a] = row]
        /\ request' = [request EXCEPT ![n] = RequestDone]
    BY DEF UpdateAlert, topics
  <1>2. a \in Alert /\ row \in AlertRow /\ alerts[a] # None /\ Sound(a, row)
    BY <1>1 DEF CopyInv, Held
  <1>3. /\ alerts' \in [Alert -> AlertRow \cup {None}]
        /\ \A b \in Alert : alerts'[b] = None <=> alerts[b] = None
        /\ StampIsTrue' /\ FlowInv' /\ IncidentInv' /\ AnnounceInv' /\ TimeInv'
    BY <1>1, <1>2, WriteBack
  <1>4. /\ request' \in [Request -> RequestState]
        /\ \A p \in Request : request'[p].pc = "held" => request'[p] = request[p]
    BY <1>1 DEF TypeOK, RequestState, RequestDone
  <1>5. TypeOK'
    BY <1>1, <1>3, <1>4 DEF TypeOK
  <1>6. CopyInv'
    BY <1>1, <1>3, <1>4 DEF CopyInv, Held, Sound
  <1> QED BY <1>3, <1>5, <1>6

-----------------------------------------------------------------------------
(* Time, crashes and the whole specification.                              *)

LEMMA TickStep ==
    ASSUME IInv, Tick
    PROVE  IInv'
  <1> USE ConstantFacts DEF IInv
  <1>1. /\ UNCHANGED <<alerts, incidents, links, created, enrichment, announced, cooldown, rule, corr, ti, request, faults>>
        /\ clock < MaxTime /\ (corr.pc = "idle" \/ corr.at = clock) /\ clock' = clock + 1
    BY DEF Tick, tables, topics, tasks
  <1>2. clock \in Nat /\ clock' \in 0..MaxTime
    BY <1>1 DEF TypeOK
  <1>3. TypeOK'
    BY <1>1, <1>2 DEF TypeOK
  <1>4. Existing' = Existing
    BY <1>1 DEF Existing
  <1>5. \A i \in Existing : incidents[i].updated \in Int
    BY DEF Existing, TypeOK, IncidentRow
  <1>6. corr.at \in Int /\ (corr.pc \in {"add", "update"} => corr.inc.updated \in Int)
    BY DEF TypeOK, CorrState, IncidentInv, IncidentRow
  <1>7. TimeInv'
    BY <1>1, <1>2, <1>4, <1>5, <1>6 DEF TimeInv
  <1> QED BY <1>1, <1>3, <1>7, FlowFrame, CopyFrame, IncidentFrame, AnnounceFrame

LEMMA CrashStep ==
    ASSUME IInv, Crash
    PROVE  IInv'
  <1> USE ConstantFacts DEF IInv
  <1>1. /\ UNCHANGED <<alerts, incidents, links, announced, clock>> /\ Fault
        /\ cooldown' = [k \in Key |-> 0 - Cooldown]
        /\ rule' = RuleIdle /\ corr' = CorrIdle /\ ti' = TaskIdle
        /\ request' = [n \in Request |-> IF request[n].pc = "held" THEN RequestDone ELSE request[n]]
    BY DEF Crash, tables
  <1>2. created' \in Seq(Alert) /\ Elems(created') \subseteq Elems(created) /\ Distinct(created')
    <2>1. PICK n \in 0..Len(created) : created' = SubSeq(created, n + 1, Len(created))
      BY DEF Crash
    <2> QED BY <2>1, SuffixFacts DEF TypeOK, FlowInv
  <1>3. enrichment' \in Seq(Alert) /\ Elems(enrichment') \subseteq Elems(enrichment)
    <2>1. PICK n \in 0..Len(enrichment) : enrichment' = SubSeq(enrichment, n + 1, Len(enrichment))
      BY DEF Crash
    <2> QED BY <2>1, SuffixFacts DEF TypeOK
  <1>4. /\ request' \in [Request -> RequestState]
        /\ \A n \in Request : request'[n].pc # "held"
    BY <1>1 DEF TypeOK, RequestState, RequestDone
  <1>5. RuleIdle \in RuleState /\ TaskIdle \in TaskState
    BY DEF RuleIdle, RuleState, TaskIdle, TaskState
  <1>6. cooldown' \in [Key -> (0 - Cooldown)..MaxTime]
    BY <1>1
  <1>7. TypeOK'
    BY <1>1, <1>2, <1>3, <1>4, <1>5, <1>6, CorrIdleFacts, FaultFacts DEF TypeOK
  <1>8. FlowInv'
    BY <1>1, <1>2, <1>3, FlowShrinks
  <1>9. CopyInv'
    BY <1>1, <1>4, CorrIdleFacts DEF CopyInv, StampIsTrue
  <1> QED BY <1>1, <1>7, <1>8, <1>9, IncidentIdle, TimeIdle, AnnounceFault, FaultFacts

LEMMA StepInv == IInv /\ [Next]_vars => IInv'
  <1> SUFFICES ASSUME IInv, [Next]_vars PROVE IInv'
    OBVIOUS
  <1>1. ASSUME NEW a \in Alert, NEW k \in Key, NEW s \in Severity,
               NEW t \in {"anomaly", "surveillance"}, _create_alert(a, k, s, t)
        PROVE  IInv'
    BY <1>1, CreateAlertStep
  <1>2. ASSUME NEW k \in Key, CreateAlertError(k) PROVE IInv'
    BY <1>2, CreateAlertErrorStep
  <1>3. CASE Rules
    BY <1>3, PublishCreatedStep, PublishEnrichmentStep DEF Rules
  <1>4. CASE Correlate
    <2>1. CASE Load
      BY <2>1, LoadStep
    <2>2. CASE Find
      BY <2>2, FindStep
    <2>3. CASE AddAlert
      BY <2>3, AddAlertStep
    <2>4. CASE UpdateIncident
      BY <2>4, UpdateIncidentStep
    <2>5. CASE Stamp
      BY <2>5, StampStep
    <2>6. CASE Publish
      BY <2>6, PublishStep
    <2>7. CASE CorrError
      BY <2>7, CorrErrorStep
    <2>8. ASSUME NEW i \in Incident, CreateIncident(i) PROVE IInv'
      BY <2>8, CreateIncidentStep
    <2> QED BY <1>4, <2>1, <2>2, <2>3, <2>4, <2>5, <2>6, <2>7, <2>8 DEF Correlate
  <1>5. CASE close_stale
    BY <1>5, CloseStep
  <1>6. CASE Lookup
    BY <1>6, LookupStep
  <1>7. CASE UpdateTi
    BY <1>7, UpdateTiStep
  <1>8. ASSUME NEW n \in Request, NEW a \in Alert, NEW s \in Status, GetAlert(n, a, s) PROVE IInv'
    BY <1>8, GetAlertStep
  <1>9. ASSUME NEW n \in Request, UpdateAlert(n) PROVE IInv'
    BY <1>9, UpdateAlertStep
  <1>10. CASE Tick
    BY <1>10, TickStep
  <1>11. CASE Crash
    BY <1>11, CrashStep
  <1>12. CASE UNCHANGED vars
    <2>1. UNCHANGED <<alerts, incidents, links, created, enrichment, announced, cooldown, rule, corr, ti, request, clock, faults>>
      BY <1>12 DEF vars, tables, topics, tasks
    <2>2. TypeOK'
      BY <2>1 DEF IInv, TypeOK
    <2> QED BY <2>1, <2>2, FlowFrame, CopyFrame, IncidentFrame, AnnounceFrame, TimeFrame DEF IInv
  <1> QED BY <1>1, <1>2, <1>3, <1>4, <1>5, <1>6, <1>7, <1>8, <1>9, <1>10, <1>11, <1>12 DEF Next

LEMMA Invariance == Spec => []IInv
  BY InitInv, StepInv, PTL DEF Spec

(* TypeOK: rows, topics and what the tasks hold have their types, in       *)
(* particular no task writes to or publishes an alert that does not exist. *)
THEOREM TypeCorrect == Spec => []TypeOK
  <1>1. IInv => TypeOK
    BY DEF IInv
  <1> QED BY <1>1, Invariance, PTL

(* The incident's list, its count and the link table always agree, and no  *)
(* alert is in two incidents: SQLIncidentRepository's "divergence risk".   *)
THEOREM LinksAlwaysAgree == Spec => []LinksAgree
  <1>1. IInv => LinksAgree
    BY DEF IInv, IncidentInv
  <1> QED BY <1>1, Invariance, PTL

(* However the tasks' whole-row writes interleave, an alert's chain names  *)
(* an incident that contains it.                                           *)
THEOREM StampIsAlwaysTrue == Spec => []StampIsTrue
  <1>1. IInv => StampIsTrue
    BY DEF IInv, CopyInv
  <1> QED BY <1>1, Invariance, PTL

(* CorrelationWorker._process never announces an incident a second time    *)
(* for a trigger of the same severity.                                     *)
THEOREM NoDuplicates == Spec => []NoDuplicateAnnouncement
  <1>1. IInv => NoDuplicateAnnouncement
    BY DEF IInv, AnnounceInv, NoDuplicateAnnouncement
  <1> QED BY <1>1, Invariance, PTL

(* Without a failing call every incident has been announced whenever the   *)
(* worker is between two alerts.                                           *)
THEOREM AllAnnounced == Spec => []EveryIncidentAnnounced
  <1>1. IInv => EveryIncidentAnnounced
    BY DEF IInv, AnnounceInv, Announced, EveryIncidentAnnounced
  <1> QED BY <1>1, Invariance, PTL

(* No write of an incident read earlier opens it again after the           *)
(* auto-close, as long as the windows leave a tick to handle an alert.     *)
THEOREM ResolvedForGood == Spec => NeverReopened
  <1> DEFINE A == \A i \in Existing : incidents[i].status = "resolved" =>
                     incidents'[i] # None /\ incidents'[i].status = "resolved"
  <1>1. IInv /\ [Next]_vars => [A]_vars
    <2> SUFFICES ASSUME IInv, Next, NEW i \in Existing, incidents[i].status = "resolved"
                 PROVE  incidents'[i] # None /\ incidents'[i].status = "resolved"
      OBVIOUS
    <2>1. i \in Incident /\ incidents[i] # None /\ incidents[i] \in IncidentRow
      BY DEF Existing, IInv, TypeOK
    <2>2. CASE incidents'[i] = incidents[i]
      BY <2>1, <2>2
    <2>3. CASE AddAlert
      <3>1. incidents' = [incidents EXCEPT ![corr.incident] = WithAlert(@, corr.id)]
            /\ corr.pc = "add"
        BY <2>3 DEF AddAlert
      <3>2. corr.incident # i
        BY <3>1 DEF IInv, TimeInv
      <3> QED BY <2>1, <2>2, <3>1, <3>2 DEF IInv, TypeOK
    <2>4. CASE UpdateIncident
      <3>1. incidents' = [incidents EXCEPT ![corr.incident] = corr.inc] /\ corr.pc = "update"
        BY <2>4 DEF UpdateIncident
      <3>2. corr.incident # i
        BY <3>1 DEF IInv, TimeInv
      <3> QED BY <2>1, <2>2, <3>1, <3>2 DEF IInv, TypeOK
    <2>5. ASSUME NEW j \in Incident, CreateIncident(j)
          PROVE  incidents'[i] = incidents[i]
      <3>1. j # i
        BY <2>1, <2>5 DEF CreateIncident, Fresh
      <3> QED BY <2>1, <2>5, <3>1 DEF CreateIncident, IInv, TypeOK
    <2>6. CASE close_stale
      <3>1. incidents'[i] \in IncidentRow
            /\ (incidents'[i] = incidents[i] \/ incidents'[i].status = "resolved")
        BY <2>6, CloseFacts
      <3> QED BY <2>1, <3>1, ConstantFacts
    <2>7. \/ UNCHANGED incidents \/ AddAlert \/ UpdateIncident \/ close_stale
          \/ \E j \in Incident : CreateIncident(j)
      BY DEF Next, Rules, Correlate, _create_alert, CreateAlertError, PublishCreated,
             PublishEnrichment, Load, Find, Stamp, Publish, CorrError, Lookup, UpdateTi,
             GetAlert, UpdateAlert, Tick, Crash, tables
    <2> QED BY <2>2, <2>3, <2>4, <2>5, <2>6, <2>7
  <1> QED BY <1>1, Invariance, PTL DEF Spec, NeverReopened

-----------------------------------------------------------------------------
(***************************************************************************)
(* Threat intelligence, for any number of lookups and indicators, and any  *)
(* limits.                                                                 *)
(***************************************************************************)

Stages == {"pending", "in_flight"} \cup Results
CallingType(r) ==
    \E i \in Indicators :
       r \in [pc : {"calling"}, ind : {i}, start : Nat,
              call : [Asked(i) -> Stages], tries : [Asked(i) -> Nat]]
LookupType ==
    /\ lookup = [l \in Lookups |-> lookup[l]]
    /\ \A l \in Lookups : lookup[l] = Idle \/ CallingType(lookup[l])

BreakerType == [state : {"closed", "open", "half_open"}, failures : Nat, opened_at : Nat, probe : BOOLEAN]

(* The slot is taken in a half-open circuit only, which every call that    *)
(* ends leaves or frees.                                                   *)
ProbeInv ==
    /\ breaker \in [Providers -> BreakerType]
    /\ \A p \in Providers : breaker[p].probe => breaker[p].state = "half_open"

BreakerInv == now \in Nat /\ LookupType /\ ProbeInv /\ ProbeSlotNotLeaked

LEMMA BreakerInit == TInit => BreakerInv
  BY ThreatIntelAssumption DEF TInit, BreakerInv, LookupType, ProbeInv, BreakerType, Closed, Idle, ProbeSlotNotLeaked, Providers

(* Moving one call of one lookup leaves every other call where it is.      *)
LEMMA MoveCalls ==
    ASSUME LookupType, NEW l \in Lookups, NEW p, NEW was \in Stages, NEW stage \in Stages,
           Calling(l, p, was), Move(l, p, stage)
    PROVE  /\ LookupType'
           /\ Calling(l, p, stage)'
           /\ \A m \in Lookups : \A q, s : m # l \/ q # p => (Calling(m, q, s)' <=> Calling(m, q, s))
  <1>1. CallingType(lookup[l])
    BY DEF Calling, LookupType, Idle
  <1>2. PICK i \in Indicators :
           lookup[l] \in [pc : {"calling"}, ind : {i}, start : Nat,
                          call : [Asked(i) -> Stages], tries : [Asked(i) -> Nat]]
    BY <1>1 DEF CallingType
  <1> DEFINE c == [lookup[l].call EXCEPT ![p] = stage]
  <1>3. lookup' = [lookup EXCEPT ![l] = [lookup[l] EXCEPT !.call = c]]
    BY DEF Move
  <1>4. p \in Asked(i) /\ c \in [Asked(i) -> Stages] /\ c[p] = stage
        /\ \A q \in DOMAIN c : q # p => c[q] = lookup[l].call[q]
    BY <1>2 DEF Calling
  <1>5. lookup'[l] = [lookup[l] EXCEPT !.call = c] /\ lookup'[l].call = c /\ lookup'[l].pc = "calling"
        /\ lookup'[l] \in [pc : {"calling"}, ind : {i}, start : Nat,
                           call : [Asked(i) -> Stages], tries : [Asked(i) -> Nat]]
    BY <1>2, <1>3, <1>4 DEF LookupType
  <1>6. \A m \in Lookups : m # l => lookup'[m] = lookup[m]
    BY <1>3 DEF LookupType
  <1>7. LookupType'
    <2>1. lookup' = [m \in Lookups |-> lookup'[m]]
      BY <1>3 DEF LookupType
    <2> QED BY <1>5, <1>6, <2>1 DEF LookupType, CallingType
  <1>8. Calling(l, p, stage)'
    BY <1>2, <1>4, <1>5 DEF Calling
  <1>9. ASSUME NEW m \in Lookups, NEW q, NEW s, m # l \/ q # p
        PROVE  Calling(m, q, s)' <=> Calling(m, q, s)
    <2>1. CASE m # l
      BY <1>6, <2>1 DEF Calling
    <2>2. CASE m = l /\ q # p
      BY <1>2, <1>4, <1>5, <2>2 DEF Calling
    <2> QED BY <1>9, <2>1, <2>2
  <1> QED BY <1>7, <1>8, <1>9

(* A call moves and its breaker with it: the slot is free afterwards, or    *)
(* the call that has it is in flight.                                      *)
LEMMA CallMoves ==
    ASSUME BreakerInv, NEW l \in Lookups, NEW p \in Providers, NEW was \in Stages, NEW stage \in Stages,
           Calling(l, p, was), Move(l, p, stage), NEW b \in BreakerType,
           breaker' = [breaker EXCEPT ![p] = b], UNCHANGED now,
           b.probe => b.state = "half_open" /\ stage = "in_flight"
    PROVE  BreakerInv'
  <1> USE DEF BreakerInv
  <1>1. /\ LookupType' /\ Calling(l, p, stage)'
        /\ \A m \in Lookups : \A q, s : m # l \/ q # p => (Calling(m, q, s)' <=> Calling(m, q, s))
    BY MoveCalls
  <1>2. ProbeInv'
    BY DEF ProbeInv
  <1>3. ASSUME NEW q \in Providers, breaker'[q].probe
        PROVE  \E m \in Lookups : Calling(m, q, "in_flight")'
    <2>1. CASE q = p
      BY <1>1, <1>3, <2>1 DEF ProbeInv
    <2>2. CASE q # p
      BY <1>1, <1>3, <2>2 DEF ProbeInv, ProbeSlotNotLeaked
    <2> QED BY <2>1, <2>2
  <1> QED BY <1>1, <1>2, <1>3 DEF ProbeSlotNotLeaked

\* A call that stays where it is leaves the breakers as they are.
LEMMA CallsStay ==
    ASSUME BreakerInv, LookupType', UNCHANGED breaker, now' \in Nat,
           \A l \in Lookups, p \in Providers : Calling(l, p, "in_flight") => Calling(l, p, "in_flight")'
    PROVE  BreakerInv'
  BY DEF BreakerInv, ProbeInv, ProbeSlotNotLeaked

LEMMA EnterKeeps ==
    ASSUME BreakerInv, NEW l \in Lookups, NEW p \in Providers, EnterBreaker(l, p)
    PROVE  BreakerInv'
  <1> USE DEF BreakerInv
  <1>1. breaker[p] \in BreakerType /\ Calling(l, p, "pending") /\ UNCHANGED now
    BY DEF EnterBreaker, ProbeInv
  <1>2. CASE Admits(breaker[p])
    <2>1. Move(l, p, "in_flight") /\ breaker' = [breaker EXCEPT ![p] = Entered(breaker[p])]
      BY <1>2 DEF EnterBreaker
    <2>2. Noticed(breaker[p]) \in BreakerType
          /\ (Noticed(breaker[p]).probe => Noticed(breaker[p]).state = "half_open")
      BY <1>1 DEF Noticed, ProbeInv, BreakerType
    <2>3. Entered(breaker[p]) \in BreakerType
          /\ (Entered(breaker[p]).probe => Entered(breaker[p]).state = "half_open")
      BY <2>2 DEF Entered, BreakerType
    <2> HIDE DEF BreakerInv
    <2> QED BY <1>1, <2>1, <2>3, CallMoves DEF Stages
  <1>3. CASE ~ Admits(breaker[p])
    <2>1. Move(l, p, "lost") /\ UNCHANGED breaker
      BY <1>3 DEF EnterBreaker
    <2>2. /\ LookupType' /\ Calling(l, p, "lost")'
          /\ \A m \in Lookups : \A q, s : m # l \/ q # p => (Calling(m, q, s)' <=> Calling(m, q, s))
      BY <1>1, <2>1, MoveCalls DEF Stages, Results
    <2>3. ~ Calling(l, p, "in_flight")
      BY <1>1 DEF Calling
    <2> QED BY <1>1, <2>1, <2>2, <2>3, CallsStay
  <1> QED BY <1>2, <1>3

LEMMA ReturnKeeps ==
    ASSUME BreakerInv, NEW l \in Lookups, NEW p \in Providers, NEW result \in Results,
           CallReturns(l, p, result) \/ CallRaises(l, p)
    PROVE  BreakerInv'
  <1>1. breaker[p] \in BreakerType
    BY DEF BreakerInv, ProbeInv
  <1>2. CASE CallReturns(l, p, result)
    <2>1. Succeeded(breaker[p]) \in BreakerType /\ ~ Succeeded(breaker[p]).probe
      BY <1>1 DEF Succeeded, BreakerType
    <2> QED BY <1>2, <2>1, CallMoves DEF CallReturns, Stages
  <1>3. CASE CallRaises(l, p)
    <2>1. Failed(breaker[p]) \in BreakerType /\ ~ Failed(breaker[p]).probe
      BY <1>1 DEF Failed, BreakerType, BreakerInv
    <2> QED BY <1>3, <2>1, CallMoves DEF CallRaises, Stages, Results
  <1> QED BY <1>2, <1>3

LEMMA RetryKeeps ==
    ASSUME BreakerInv, NEW l \in Lookups, NEW p \in Providers, RetryLater(l, p)
    PROVE  BreakerInv'
  <1> USE DEF BreakerInv
  <1> DEFINE t == [lookup[l].tries EXCEPT ![p] = @ + 1]
  <1>1. PICK i \in Indicators :
           lookup[l] \in [pc : {"calling"}, ind : {i}, start : Nat,
                          call : [Asked(i) -> Stages], tries : [Asked(i) -> Nat]]
    BY DEF RetryLater, Calling, LookupType, Idle, CallingType
  <1>2. lookup' = [lookup EXCEPT ![l] = [lookup[l] EXCEPT !.tries = t]] /\ UNCHANGED <<now, breaker>>
    BY DEF RetryLater
  <1>3. t \in [Asked(i) -> Nat]
    <2>1. lookup[l].tries \in [Asked(i) -> Nat] /\ lookup[l].call \in [Asked(i) -> Stages]
      BY <1>1
    <2>2. p \in Asked(i)
      BY <2>1 DEF RetryLater, Calling
    <2> QED BY <2>1, <2>2
  <1>4. /\ lookup'[l] \in [pc : {"calling"}, ind : {i}, start : Nat,
                           call : [Asked(i) -> Stages], tries : [Asked(i) -> Nat]]
        /\ lookup'[l].call = lookup[l].call /\ lookup'[l].pc = lookup[l].pc
    BY <1>1, <1>2, <1>3 DEF LookupType
  <1>5. lookup' = [m \in Lookups |-> lookup'[m]] /\ \A m \in Lookups : m # l => lookup'[m] = lookup[m]
    BY <1>2 DEF LookupType
  <1>6. LookupType'
    BY <1>4, <1>5 DEF LookupType, CallingType
  <1>7. \A m \in Lookups, q \in Providers : Calling(m, q, "in_flight") => Calling(m, q, "in_flight")'
    BY <1>4, <1>5 DEF Calling
  <1> QED BY <1>2, <1>6, <1>7, CallsStay

LEMMA LookupKeeps ==
    ASSUME BreakerInv, NEW l \in Lookups, NEW i \in Indicators, ClientLookup(l, i)
    PROVE  BreakerInv'
  <1> USE DEF BreakerInv
  <1>1. CASE Hit(l, i)
    BY <1>1, CallsStay DEF Hit, LookupType, Calling
  <1>2. CASE Miss(l, i)
    <2> DEFINE new == [pc |-> "calling", ind |-> i, start |-> now,
                       call |-> [p \in Asked(i) |-> "pending"],
                       tries |-> [p \in Asked(i) |-> 0]]
    <2>1. lookup' = [lookup EXCEPT ![l] = new] /\ UNCHANGED <<now, breaker>> /\ lookup[l].pc = "idle"
      BY <1>2 DEF Miss
    <2>2. CallingType(new)
      BY DEF CallingType, Stages
    <2> HIDE DEF new
    <2>3. LookupType'
      BY <2>1, <2>2 DEF LookupType, CallingType
    <2>4. \A m \in Lookups, q \in Providers : Calling(m, q, "in_flight") => Calling(m, q, "in_flight")'
      BY <2>1 DEF Calling, LookupType
    <2> QED BY <2>1, <2>3, <2>4, CallsStay
  <1> QED BY <1>1, <1>2 DEF ClientLookup

LEMMA ConcludeKeeps ==
    ASSUME BreakerInv, NEW l \in Lookups, Complete(l) \/ TimedOut(l)
    PROVE  BreakerInv'
  <1> USE DEF BreakerInv
  <1>1. lookup' = [lookup EXCEPT ![l] = Idle] /\ UNCHANGED now /\ lookup[l].pc = "calling"
    BY DEF Complete, TimedOut, Conclude, Late
  <1>2. LookupType'
    BY <1>1 DEF LookupType, CallingType
  <1>3. \A m \in Lookups, q \in Providers :
           m # l /\ Calling(m, q, "in_flight") => Calling(m, q, "in_flight")'
    BY <1>1 DEF Calling, LookupType
  <1>4. CASE Complete(l)
    <2>1. \A q \in Providers : ~ Calling(l, q, "in_flight")
      BY <1>4 DEF Complete, Calling, Results
    <2> QED BY <1>1, <1>2, <1>3, <1>4, <2>1, CallsStay DEF Complete
  <1>5. CASE TimedOut(l)
    <2>1. breaker' = [p \in Providers |->
                        IF Calling(l, p, "in_flight") THEN Cancelled(breaker[p]) ELSE breaker[p]]
      BY <1>5 DEF TimedOut
    <2>2. \A p \in Providers : Cancelled(breaker[p]) \in BreakerType /\ ~ Cancelled(breaker[p]).probe
      BY DEF ProbeInv, BreakerType, Cancelled
    <2>3. ProbeInv'
      BY <2>1, <2>2 DEF ProbeInv
    <2>4. ProbeSlotNotLeaked'
      BY <1>3, <2>1, <2>2 DEF ProbeSlotNotLeaked
    <2> QED BY <1>1, <1>2, <2>3, <2>4
  <1> QED BY <1>4, <1>5

LEMMA BreakerNext ==
    ASSUME BreakerInv, [TNext]_tiVars
    PROVE  BreakerInv'
  <1>1. CASE TTick
    BY <1>1, CallsStay DEF TTick, BreakerInv, LookupType, Calling
  <1>2. CASE UNCHANGED tiVars
    BY <1>2 DEF tiVars, BreakerInv, LookupType, ProbeInv, ProbeSlotNotLeaked, Calling
  <1>3. ASSUME NEW l \in Lookups, NEW i \in Indicators, ApiLookup(l, i) \/ WorkerLookup(l, i)
        PROVE  BreakerInv'
    BY <1>3, LookupKeeps DEF ApiLookup, WorkerLookup
  <1>4. ASSUME NEW l \in Lookups, NEW p \in Providers, CallRaises(l, p)
        PROVE  BreakerInv'
    BY <1>4, ReturnKeeps DEF Results
  <1> QED BY <1>1, <1>2, <1>3, <1>4, EnterKeeps, ReturnKeeps, RetryKeeps, ConcludeKeeps DEF TNext

\* The probe slot of a half-open circuit is never leaked: it is taken only
\* while a call to the provider is in flight, whatever number of lookups end,
\* fail or are cancelled around it (breaker.py, the finally clause of call).
THEOREM ProbeSlotFreed == TSpec => []ProbeSlotNotLeaked
  <1>1. TInit => BreakerInv
    BY BreakerInit
  <1>2. BreakerInv /\ [TNext]_tiVars => BreakerInv'
    BY BreakerNext
  <1>3. BreakerInv => ProbeSlotNotLeaked
    BY DEF BreakerInv
  <1> QED BY <1>1, <1>2, <1>3, PTL DEF TSpec

(***************************************************************************)
(* The cache.                                                              *)
(***************************************************************************)

TheReport == [ind : Indicators, malicious : BOOLEAN, ti_unavailable : BOOLEAN,
              queried_at : Nat, failed : SUBSET Providers]
CacheEntry == [key : Indicators, expires_at : Nat, report : TheReport]
Lifetime(report) == IF report.ti_unavailable THEN ShortTTL ELSE TTL

(* What the cache may hold: entries of what was reported before, that live *)
(* for the lifetime of their reports, one for each indicator.              *)
Stored(s) ==
    /\ s \in Seq(CacheEntry)
    /\ \A k \in 1 .. Len(s) : /\ s[k].report.queried_at <= now
                              /\ s[k].expires_at = s[k].report.queried_at + Lifetime(s[k].report)
    /\ \A j, k \in 1 .. Len(s) : s[j].key = s[k].key => j = k

AnswerInv ==
    \/ answer = NoAnswer
    \/ \E t \in Nat, r \in TheReport :
          /\ answer = [got |-> TRUE, at |-> t, report |-> r]
          /\ t - r.queried_at <= Lifetime(r)

CacheInv == now \in Nat /\ LookupType /\ Stored(store) /\ Len(store) <= MaxSize /\ AnswerInv

LEMMA CacheInit == TInit => CacheInv
  BY ThreatIntelAssumption DEF TInit, CacheInv, LookupType, Idle, Stored, AnswerInv

LEMMA CacheImplied == CacheInv => CacheSound
  <1> SUFFICES ASSUME CacheInv PROVE CacheSound
    OBVIOUS
  <1>1. answer.got => answer.at - answer.report.queried_at <= Lifetime(answer.report)
    BY DEF CacheInv, AnswerInv, NoAnswer
  <1>2. DOMAIN store = 1 .. Len(store)
    BY DEF CacheInv, Stored
  <1> QED BY <1>1, <1>2 DEF CacheInv, Stored, CacheSound, Lifetime

\* Deleting an entry, wherever it is, and evicting the oldest one.
LEMMA Deleted ==
    ASSUME Stored(store), NEW j \in 1 .. Len(store)
    PROVE  /\ Stored(RemoveAt(store, j)) /\ Len(RemoveAt(store, j)) = Len(store) - 1
           /\ \A k \in 1 .. Len(store) - 1 :
                 RemoveAt(store, j)[k] = store[IF k < j THEN k ELSE k + 1]
  <1> DEFINE a == SubSeq(store, 1, j - 1)
             b == SubSeq(store, j + 1, Len(store))
             t == RemoveAt(store, j)
  <1>1. store \in Seq(CacheEntry) /\ Len(store) \in Nat /\ j \in Nat
    BY DEF Stored
  <1>2. /\ a \in Seq(CacheEntry) /\ Len(a) = j - 1
        /\ \A k \in 1 .. j - 1 : a[k] = store[k]
    <2>1. \A k \in 1 .. j - 1 : store[k] \in CacheEntry
      BY <1>1
    <2> QED BY <1>1, <2>1, SubSeqProperties
  <1>3. /\ b \in Seq(CacheEntry) /\ Len(b) = Len(store) - j
        /\ \A k \in 1 .. Len(store) - j : b[k] = store[j + k]
    <2>1. \A k \in j + 1 .. Len(store) : store[k] \in CacheEntry
      BY <1>1
    <2>2. /\ b \in Seq(CacheEntry)
          /\ Len(b) = IF j + 1 <= Len(store) THEN Len(store) - (j + 1) + 1 ELSE 0
          /\ \A k \in 1 .. Len(store) - (j + 1) + 1 : b[k] = store[j + 1 + k - 1]
      BY <1>1, <2>1, SubSeqProperties
    <2> QED BY <1>1, <2>2
  <1>4. t = a \o b
    BY DEF RemoveAt
  <1> HIDE DEF a, b, t
  <1>5. /\ t \in Seq(CacheEntry) /\ Len(t) = Len(store) - 1
        /\ \A k \in 1 .. Len(store) - 1 : t[k] = IF k <= Len(a) THEN a[k] ELSE b[k - Len(a)]
    <2>1. /\ a \o b \in Seq(CacheEntry) /\ Len(a \o b) = Len(a) + Len(b)
          /\ \A k \in 1 .. Len(a) + Len(b) : (a \o b)[k] = IF k <= Len(a) THEN a[k] ELSE b[k - Len(a)]
      BY <1>2, <1>3, ConcatProperties
    <2>2. Len(a) + Len(b) = Len(store) - 1
      BY <1>1, <1>2, <1>3
    <2> QED BY <1>4, <2>1, <2>2
  <1>6. \A k \in 1 .. Len(store) - 1 : t[k] = store[IF k < j THEN k ELSE k + 1]
    BY <1>1, <1>2, <1>3, <1>5
  <1>7. Stored(t)
    <2> DEFINE from(k) == IF k < j THEN k ELSE k + 1
    <2>1. \A k \in 1 .. Len(t) : from(k) \in 1 .. Len(store) /\ t[k] = store[from(k)]
      BY <1>1, <1>5, <1>6
    <2>2. \A k, m \in 1 .. Len(t) : from(k) = from(m) => k = m
      BY <1>1, <1>5
    <2> HIDE DEF from
    <2>3. Stored(store)
      OBVIOUS
    <2>4. ASSUME NEW k \in 1 .. Len(t)
          PROVE  /\ t[k].report.queried_at <= now
                 /\ t[k].expires_at = t[k].report.queried_at + Lifetime(t[k].report)
      <3>1. PICK m \in 1 .. Len(store) : t[k] = store[m]
        BY ONLY <2>1, k \in 1 .. Len(t)
      <3> QED BY ONLY <2>3, <3>1 DEF Stored
    <2>5. ASSUME NEW k \in 1 .. Len(t), NEW m \in 1 .. Len(t), t[k].key = t[m].key
          PROVE  k = m
      <3>1. from(k) \in 1 .. Len(store) /\ from(m) \in 1 .. Len(store)
        BY <2>1, <2>5
      <3>2. store[from(k)].key = store[from(m)].key
        BY ONLY <2>1, <2>5, k \in 1 .. Len(t), m \in 1 .. Len(t)
      <3>3. from(k) = from(m)
        BY ONLY <2>3, <3>1, <3>2 DEF Stored
      <3> QED BY <2>2, <2>5, <3>3
    <2> QED BY ONLY <1>5, <2>4, <2>5 DEF Stored
  <1> QED BY <1>5, <1>6, <1>7 DEF t

LEMMA PlaceExists ==
    ASSUME Stored(store), NEW i, i \in Keys
    PROVE  PlaceOf(i) \in 1 .. Len(store) /\ store[PlaceOf(i)].key = i
  BY DEF Stored, Keys, PlaceOf

\* What is left without an indicator: nothing of it, and all that fits.
LEMMA WithoutKey ==
    ASSUME Stored(store), NEW i
    PROVE  /\ Stored(Without(i)) /\ Len(Without(i)) <= Len(store)
           /\ i \in Keys => Len(Without(i)) = Len(store) - 1
           /\ \A k \in 1 .. Len(Without(i)) : Without(i)[k].key # i
  <1>1. CASE i \in Keys
    <2> DEFINE j == PlaceOf(i)
    <2>1. j \in 1 .. Len(store) /\ store[j].key = i
      BY <1>1, PlaceExists
    <2>2. Without(i) = RemoveAt(store, j)
      BY <1>1 DEF Without
    <2> HIDE DEF j
    <2>3. /\ Stored(Without(i)) /\ Len(Without(i)) = Len(store) - 1
          /\ \A k \in 1 .. Len(store) - 1 : Without(i)[k] = store[IF k < j THEN k ELSE k + 1]
      BY <2>1, <2>2, Deleted
    <2>4. Len(store) \in Nat /\ \A m, n \in 1 .. Len(store) : store[m].key = store[n].key => m = n
      BY DEF Stored
    <2>5. ASSUME NEW k \in 1 .. Len(Without(i))
          PROVE  Without(i)[k].key # i
      BY <2>1, <2>3, <2>4
    <2> QED BY <2>3, <2>4, <2>5
  <1>2. CASE i \notin Keys
    BY <1>2 DEF Without, Keys, Stored
  <1> QED BY <1>1, <1>2

\* A new entry at the end, for an indicator that is not there.
LEMMA Appended ==
    ASSUME NEW s, Stored(s), NEW e \in CacheEntry, e.report.queried_at <= now,
           e.expires_at = e.report.queried_at + Lifetime(e.report),
           \A k \in 1 .. Len(s) : s[k].key # e.key
    PROVE  Stored(Append(s, e)) /\ Len(Append(s, e)) = Len(s) + 1
  <1>1. s \in Seq(CacheEntry) /\ Len(s) \in Nat
    BY DEF Stored
  <1>2. /\ Append(s, e) \in Seq(CacheEntry) /\ Len(Append(s, e)) = Len(s) + 1
        /\ \A k \in 1 .. Len(s) : Append(s, e)[k] = s[k]
        /\ Append(s, e)[Len(s) + 1] = e
    BY <1>1, AppendProperties
  <1> HIDE DEF Stored
  <1> QED BY <1>1, <1>2 DEF Stored

LEMMA GetKeeps ==
    ASSUME CacheInv, NEW i \in Indicators, CacheGet(i), UNCHANGED now
    PROVE  /\ Stored(store)' /\ Len(store') <= MaxSize
           /\ Live(i) => /\ EntryOf(i) \in CacheEntry
                         /\ now - EntryOf(i).report.queried_at <= Lifetime(EntryOf(i).report)
  <1> DEFINE w == Without(i)
  <1>1. Stored(store) /\ store \in Seq(CacheEntry) /\ Len(store) \in Nat /\ Len(store) <= MaxSize
        /\ now \in Nat /\ MaxSize \in Nat
    BY ThreatIntelAssumption DEF CacheInv, Stored
  <1>2. /\ Stored(w) /\ Len(w) \in Nat /\ Len(w) <= Len(store)
        /\ i \in Keys => Len(w) = Len(store) - 1
        /\ \A k \in 1 .. Len(w) : w[k].key # i
    <2>1. Stored(w)
      BY <1>1, WithoutKey
    <2> QED BY <1>1, <2>1, WithoutKey DEF Stored
  <1> HIDE DEF w
  <1>3. CASE Live(i)
    <2>1. i \in Keys /\ now <= EntryOf(i).expires_at /\ store' = Append(w, EntryOf(i))
      BY <1>3 DEF CacheGet, Live, w
    <2>2. PlaceOf(i) \in 1 .. Len(store) /\ EntryOf(i).key = i /\ EntryOf(i) = store[PlaceOf(i)]
      BY <1>1, <2>1, PlaceExists DEF EntryOf
    <2>3. /\ EntryOf(i) \in CacheEntry /\ EntryOf(i).report.queried_at <= now
          /\ EntryOf(i).expires_at = EntryOf(i).report.queried_at + Lifetime(EntryOf(i).report)
      BY <1>1, <2>2 DEF Stored
    <2>4. Stored(store') /\ Len(store') = Len(w) + 1
      BY <1>2, <2>1, <2>2, <2>3, Appended
    <2>5. EntryOf(i).report.queried_at \in Nat /\ Lifetime(EntryOf(i).report) \in Nat
      BY <2>3, ThreatIntelAssumption DEF CacheEntry, TheReport, Lifetime
    <2>6. now - EntryOf(i).report.queried_at <= Lifetime(EntryOf(i).report)
      BY <1>1, <2>1, <2>3, <2>5
    <2>7. Len(store') <= MaxSize
      BY <1>1, <1>2, <2>1, <2>4
    <2> QED BY <2>3, <2>4, <2>6, <2>7 DEF Stored
  <1>4. CASE ~ Live(i)
    <2>1. store' = store \/ store' = w
      BY <1>4 DEF CacheGet, w
    <2>2. Stored(store') /\ Len(store') <= MaxSize
      BY <1>1, <1>2, <2>1
    <2> QED BY <1>4, <2>2 DEF Stored
  <1> QED BY <1>3, <1>4

LEMMA SetKeeps ==
    ASSUME CacheInv, NEW i \in Indicators, NEW r \in TheReport, r.queried_at = now,
           CacheSet(i, r, Lifetime(r)), UNCHANGED now
    PROVE  Stored(store)' /\ Len(store') <= MaxSize
  <1> DEFINE room == IF i \in Keys \/ Len(store) < MaxSize THEN Without(i) ELSE Tail(store)
             e == [key |-> i, expires_at |-> now + Lifetime(r), report |-> r]
  <1>1. Stored(store) /\ store \in Seq(CacheEntry) /\ Len(store) \in Nat /\ Len(store) <= MaxSize
        /\ now \in Nat /\ MaxSize \in Nat /\ MaxSize > 0
    <2>1. MaxSize \in Nat \ {0}
      BY ThreatIntelAssumption
    <2>2. MaxSize \in Nat /\ MaxSize > 0
      BY <2>1
    <2> QED BY <2>2 DEF CacheInv, Stored
  <1>2. Stored(room) /\ Len(room) < MaxSize /\ \A k \in 1 .. Len(room) : room[k].key # i
    <2>1. CASE i \in Keys \/ Len(store) < MaxSize
      <3>1. Stored(Without(i)) /\ Len(Without(i)) \in Nat /\ Len(Without(i)) < MaxSize
        <4>1. Stored(Without(i))
          BY <1>1, WithoutKey
        <4>2. Len(Without(i)) \in Nat
          BY <4>1 DEF Stored
        <4> QED BY <1>1, <2>1, <4>1, <4>2, WithoutKey
      <3> QED BY <1>1, <2>1, <3>1, WithoutKey
    <2>2. CASE i \notin Keys /\ ~ (Len(store) < MaxSize)
      <3>1. store # << >>
        BY <1>1, <2>2
      <3>2. /\ Tail(store) \in Seq(CacheEntry) /\ Len(Tail(store)) = Len(store) - 1
            /\ \A k \in 1 .. Len(Tail(store)) : Tail(store)[k] = store[k + 1]
        BY <1>1, <3>1, HeadTailProperties
      <3>3. Stored(Tail(store))
        BY <1>1, <3>2 DEF Stored
      <3>4. \A k \in 1 .. Len(store) : store[k].key # i
        BY <1>1, <2>2 DEF Keys
      <3> QED BY <1>1, <2>2, <3>2, <3>3, <3>4
    <2> QED BY <2>1, <2>2
  <1>3. store' = Append(room, e)
    BY DEF CacheSet
  <1> HIDE DEF room
  <1>4. e \in CacheEntry
    <2>1. Lifetime(r) \in Nat
      BY ThreatIntelAssumption DEF Lifetime
    <2> QED BY <1>1, <2>1 DEF CacheEntry
  <1>5. Stored(store') /\ Len(store') = Len(room) + 1
    <2>1. e.key = i /\ e.report = r /\ e.expires_at = now + Lifetime(r)
      OBVIOUS
    <2> HIDE DEF e
    <2>2. e.report.queried_at <= now /\ e.expires_at = e.report.queried_at + Lifetime(e.report)
      BY <1>1, <2>1
    <2>3. \A k \in 1 .. Len(room) : room[k].key # e.key
      BY <1>2, <2>1
    <2> QED BY <1>2, <1>3, <1>4, <2>2, <2>3, Appended
  <1>6. Len(room) \in Nat
    BY <1>2 DEF Stored
  <1> QED BY <1>1, <1>2, <1>5, <1>6 DEF Stored

LEMMA ConcludeAnswers ==
    ASSUME CacheInv, NEW l \in Lookups, Complete(l) \/ TimedOut(l)
    PROVE  Stored(store)' /\ Len(store') <= MaxSize /\ AnswerInv'
  <1>1. PICK reports \in SUBSET Providers, lost \in SUBSET Providers, timedOut \in BOOLEAN :
           Conclude(l, reports, lost, timedOut)
    <2>1. lookup[l].pc = "calling"
      BY DEF Complete, TimedOut, Late
    <2>2. PICK i \in Indicators :
             lookup[l] \in [pc : {"calling"}, ind : {i}, start : Nat,
                            call : [Asked(i) -> Stages], tries : [Asked(i) -> Nat]]
      BY <2>1 DEF CacheInv, LookupType, Idle, CallingType
    <2>3. Asked(i) \subseteq Providers /\ Asked(lookup[l].ind) \subseteq Providers
      BY DEF Asked, Providers
    <2>4. DOMAIN lookup[l].call = Asked(i)
      BY <2>2
    <2>5. With(l, "report") \subseteq Providers /\ With(l, "lost") \subseteq Providers
      BY <2>3, <2>4 DEF With
    <2> QED BY <2>3, <2>5 DEF Complete, TimedOut
  <1> DEFINE i == lookup[l].ind
             r == Aggregate(i, reports, timedOut /\ reports = {}, lost)
  <1>2. i \in Indicators /\ UNCHANGED now /\ now \in Nat
    <2>1. lookup[l].pc = "calling"
      BY DEF Complete, TimedOut, Late
    <2>2. CallingType(lookup[l])
      BY <2>1 DEF CacheInv, LookupType, Idle
    <2>3. i \in Indicators
      BY <2>2 DEF CallingType
    <2> QED BY <2>3 DEF CacheInv, Complete, TimedOut
  <1>3. r \in TheReport /\ r.queried_at = now
    BY <1>2 DEF Aggregate, Report, TheReport
  <1>4. CacheSet(i, r, Lifetime(r)) /\ answer' = [got |-> TRUE, at |-> now, report |-> r]
    BY <1>1 DEF Conclude, Give, Lifetime
  <1> HIDE DEF r, i
  <1>5. Stored(store)' /\ Len(store') <= MaxSize
    BY <1>2, <1>3, <1>4, SetKeeps
  <1>6. Lifetime(r) \in Nat /\ now - r.queried_at <= Lifetime(r)
    BY <1>2, <1>3, ThreatIntelAssumption DEF Lifetime
  <1>7. AnswerInv'
    BY <1>2, <1>3, <1>4, <1>6 DEF AnswerInv, Lifetime
  <1> QED BY <1>5, <1>7

LEMMA LookupAnswers ==
    ASSUME CacheInv, NEW l \in Lookups, NEW i \in Indicators, ClientLookup(l, i)
    PROVE  Stored(store)' /\ Len(store') <= MaxSize /\ AnswerInv'
  <1>1. CacheGet(i) /\ UNCHANGED now
    BY DEF ClientLookup, Hit, Miss
  <1>2. /\ Stored(store)' /\ Len(store') <= MaxSize
        /\ Live(i) => /\ EntryOf(i) \in CacheEntry
                      /\ now - EntryOf(i).report.queried_at <= Lifetime(EntryOf(i).report)
    BY <1>1, GetKeeps
  <1>3. CASE Hit(l, i)
    <2>1. Live(i) /\ answer' = [got |-> TRUE, at |-> now, report |-> EntryOf(i).report]
      BY <1>3 DEF Hit, Give
    <2>2. EntryOf(i).report \in TheReport /\ now \in Nat
      BY <1>2, <2>1 DEF CacheEntry, CacheInv
    <2> QED BY <1>2, <2>1, <2>2 DEF AnswerInv, Lifetime
  <1>4. CASE Miss(l, i)
    BY <1>2, <1>4 DEF Miss, AnswerInv, CacheInv, Lifetime
  <1> QED BY <1>3, <1>4 DEF ClientLookup

LEMMA CacheNext ==
    ASSUME CacheInv, BreakerInv, BreakerInv', [TNext]_tiVars
    PROVE  CacheInv'
  <1>1. now' \in Nat /\ LookupType'
    BY DEF BreakerInv
  <1>2. CASE UNCHANGED <<now, store, answer>>
    BY <1>1, <1>2 DEF CacheInv, Stored, AnswerInv, Lifetime
  <1>3. CASE TTick
    <2>1. now' = now + 1 /\ now \in Nat /\ UNCHANGED <<store, answer>>
      BY <1>3 DEF TTick, CacheInv
    <2>2. Stored(store)'
      <3>1. \A k \in 1 .. Len(store) : store[k].report.queried_at \in Nat
        <4>1. \A k \in 1 .. Len(store) : store[k] \in CacheEntry
          BY DEF CacheInv, Stored
        <4> QED BY <4>1 DEF CacheEntry, TheReport
      <3> QED BY <2>1, <3>1 DEF CacheInv, Stored, Lifetime
    <2> QED BY <1>1, <2>1, <2>2 DEF CacheInv, AnswerInv, Lifetime
  <1>4. ASSUME NEW l \in Lookups, NEW i \in Indicators, ApiLookup(l, i) \/ WorkerLookup(l, i)
        PROVE  CacheInv'
    BY <1>1, <1>4, LookupAnswers DEF ApiLookup, WorkerLookup, CacheInv
  <1>5. ASSUME NEW l \in Lookups, Complete(l) \/ TimedOut(l)
        PROVE  CacheInv'
    BY <1>1, <1>5, ConcludeAnswers DEF CacheInv
  <1>6. ASSUME NEW l \in Lookups, NEW p \in Providers, NEW result \in Results,
               EnterBreaker(l, p) \/ RetryLater(l, p) \/ CallRaises(l, p) \/ CallReturns(l, p, result)
        PROVE  CacheInv'
    BY <1>2, <1>6 DEF EnterBreaker, RetryLater, CallRaises, CallReturns
  <1>7. \E result \in Results : TRUE
    BY DEF Results
  <1> QED BY <1>2, <1>3, <1>4, <1>5, <1>6, <1>7 DEF TNext, tiVars

\* The cache keeps its limit and one entry per indicator, and no caller is
\* given a report older than the lifetime it was stored for, for any number of
\* overlapping lookups and any limits (cache.py, client.py, lookup).
THEOREM CacheIsSound == TSpec => []CacheSound
  <1>1. TInit => CacheInv /\ BreakerInv
    BY CacheInit, BreakerInit
  <1>2. CacheInv /\ BreakerInv /\ [TNext]_tiVars => CacheInv' /\ BreakerInv'
    BY CacheNext, BreakerNext
  <1>3. CacheInv => CacheSound
    BY CacheImplied
  <1> QED BY <1>1, <1>2, <1>3, PTL DEF TSpec


=============================================================================
