--------------------------- MODULE AlertPipeline ---------------------------
(***************************************************************************)
(* From a rule match to an incident on the decision worker's topic: the    *)
(* RuleWorker, the CorrelationWorker with its engine, linkers and stale-   *)
(* incident loop, the TIWorker and analysts of the REST API, for one host  *)
(* and one server. They share the tables alerts, incidents and             *)
(* incident_alerts; each reads a row, awaits, and writes all its columns   *)
(* back. A step is what a task does between two awaits.                    *)
(***************************************************************************)
EXTENDS Integers, Sequences, FiniteSets

CONSTANTS
    MaxAlerts,        \* alerts the rules raise
    Key,              \* (rule_id, entity_id)
    Severity,         \* 0 low, 1 medium, 2 high, 3 critical
    Status,           \* statuses an analyst sets
    Request,          \* requests of analysts
    None,
    Cooldown,         \* _ALERT_COOLDOWN_S
    TemporalWindow,   \* TemporalLinker's timeframe (60 s)
    Window,           \* correlation_window_seconds (300 s)
    AutoClose,        \* auto_close_after_seconds (1800 s)
    MaxTime,          \* bound on the clock
    MaxFaults         \* bound on failing calls and crashes

Alert == 1..MaxAlerts
Incident == 1..MaxAlerts   \* an incident is created for an alert
MaxWindow == 2 * Window    \* CorrelationEngine._max_timeframe: UserActivityLinker's
Medium == 1

AlertRow == [sev : Severity, status : Status \cup {"open"}, ti : BOOLEAN, chain : Incident \cup {None}]
IncidentRow == [sev : Severity, status : {"open", "resolved"}, created : 0..MaxTime,
                updated : 0..MaxTime, count : Nat, ids : SUBSET Alert]

\* An alert is handled within a tick, so an incident found open is not stale before
\* it is written back.
ASSUME PipelineAssumption ==
    /\ {MaxAlerts, Cooldown, TemporalWindow, Window, AutoClose, MaxTime, MaxFaults} \subseteq Nat
    /\ TemporalWindow <= Window /\ MaxWindow + 1 <= AutoClose
    /\ Severity \subseteq 0..3 /\ Medium \in Severity /\ None \notin Alert \cup Severity \cup AlertRow /\ None \notin IncidentRow

VARIABLES
    alerts, incidents,   \* the tables, None where there is no row
    links,               \* incident_alerts
    created, enrichment, \* the topics alerts:created and alerts:enrichment
    announced,           \* messages on analysis:correlated
    cooldown,            \* RuleWorker._alert_cooldowns
    rule,                \* the alert RuleWorker is publishing, and where it is
    corr,                \* CorrelationWorker: where it is, its alert and incident
    ti,                  \* TIWorker: where it is, its alert
    request,             \* the alert an analyst's request holds, and where it is
    clock, faults

tables == <<alerts, incidents, links>>
topics == <<created, enrichment, announced>>
tasks == <<cooldown, rule, corr, ti, request>>
vars == <<tables, topics, tasks, clock, faults>>

RuleIdle == [pc |-> "idle", id |-> None]
CorrIdle == [pc |-> "idle", id |-> None, row |-> None, at |-> 0,
             incident |-> None, inc |-> None, linker |-> None, before |-> None]
TaskIdle == [id |-> None, row |-> None]
RequestNew == [pc |-> "new", id |-> None, row |-> None]
RequestDone == [pc |-> "done", id |-> None, row |-> None]

RuleState == [pc : {"idle", "created", "enrichment"}, id : Alert \cup {None}]
CorrState == [pc : {"idle", "find", "add", "create", "update", "stamp", "publish"},
              id : Alert \cup {None}, row : AlertRow \cup {None}, at : 0..MaxTime,
              incident : Incident \cup {None}, inc : IncidentRow \cup {None},
              linker : {"same_host", "temporal", "user_activity", None},
              before : Severity \cup {None}]
TaskState == [id : Alert \cup {None}, row : AlertRow \cup {None}]
RequestState == [pc : {"new", "held", "done"}, id : Alert \cup {None}, row : AlertRow \cup {None}]

TypeOK ==
    /\ alerts \in [Alert -> AlertRow \cup {None}]
    /\ incidents \in [Incident -> IncidentRow \cup {None}]
    /\ links \subseteq Incident \X Alert
    /\ created \in Seq(Alert) /\ enrichment \in Seq(Alert)
    /\ announced \subseteq [incident : Incident, trigger : Alert]
    /\ cooldown \in [Key -> (0 - Cooldown)..MaxTime]
    /\ rule \in RuleState /\ corr \in CorrState /\ ti \in TaskState
    /\ request \in [Request -> RequestState]
    /\ clock \in 0..MaxTime /\ faults \in 0..MaxFaults

Init ==
    /\ alerts = [a \in Alert |-> None] /\ incidents = [i \in Incident |-> None]
    /\ links = {} /\ created = <<>> /\ enrichment = <<>> /\ announced = {}
    /\ cooldown = [k \in Key |-> 0 - Cooldown]
    /\ rule = RuleIdle /\ corr = CorrIdle /\ ti = TaskIdle
    /\ request = [n \in Request |-> RequestNew]
    /\ clock = 0 /\ faults = 0

Fault == faults < MaxFaults /\ faults' = faults + 1

\* uuid4(): the next unused identifier
Fresh(id, table) == table[id] = None /\ \A j \in 1..(id - 1) : table[j] # None

-----------------------------------------------------------------------------
(* RuleWorker.                                                             *)

\* "Surveillance rules are capped at medium"
Capped(sev, kind) == IF kind = "surveillance" /\ sev > Medium THEN Medium ELSE sev

Cool(k) == clock - cooldown[k] >= Cooldown

\* _create_alert of a match that is published and not in its cooldown
_create_alert(a, k, sev, kind) ==
    /\ rule.pc = "idle" /\ Cool(k) /\ Fresh(a, alerts)
    /\ cooldown' = [cooldown EXCEPT ![k] = clock]
    /\ alerts' = [alerts EXCEPT ![a] =
          [sev |-> Capped(sev, kind), status |-> "open", ti |-> FALSE, chain |-> None]]
    /\ rule' = IF kind = "surveillance" THEN RuleIdle ELSE [pc |-> "created", id |-> a]
    /\ UNCHANGED <<incidents, links, topics, corr, ti, request, clock, faults>>

\* The row cannot be inserted: the alert is gone, the cooldown runs
CreateAlertError(k) ==
    /\ rule.pc = "idle" /\ Cool(k) /\ Fault
    /\ cooldown' = [cooldown EXCEPT ![k] = clock]
    /\ UNCHANGED <<tables, topics, rule, corr, ti, request, clock>>

\* A publish that fails is logged
PublishCreated ==
    /\ rule.pc = "created" /\ rule' = [rule EXCEPT !.pc = "enrichment"]
    /\ \/ created' = Append(created, rule.id) /\ UNCHANGED faults
       \/ Fault /\ UNCHANGED created
    /\ UNCHANGED <<tables, enrichment, announced, cooldown, corr, ti, request, clock>>

\* Only an event with addresses is enriched
PublishEnrichment ==
    /\ rule.pc = "enrichment" /\ rule' = RuleIdle
    /\ enrichment' \in {enrichment, Append(enrichment, rule.id)}
    /\ UNCHANGED <<tables, created, announced, cooldown, corr, ti, request, clock, faults>>

-----------------------------------------------------------------------------
(* CorrelationWorker._process and CorrelationEngine.process_alert.         *)

\* Mutant of CorrError: an error of the engine does not end _process
CorrErrorGoesOn ==
    /\ corr.pc \in {"find", "add", "create", "update", "stamp", "publish"} /\ Fault
    /\ corr' = IF corr.pc = "add" THEN [corr EXCEPT !.pc = "stamp"] ELSE CorrIdle
    /\ UNCHANGED <<tables, topics, cooldown, rule, ti, request, clock>>

\* Any error on the way is logged and ends _process
CorrError ==
    /\ corr.pc \in {"find", "add", "create", "update", "stamp", "publish"} /\ Fault
    /\ corr' = CorrIdle
    /\ UNCHANGED <<tables, topics, cooldown, rule, ti, request, clock>>

\* A message is taken and the alert loaded; below min_severity nothing follows
Load ==
    /\ corr.pc = "idle" /\ created # <<>>
    /\ created' = Tail(created)
    /\ LET a == Head(created)
           chain == alerts[a].chain
       IN \/ /\ alerts[a].sev >= Medium
             /\ corr' = [CorrIdle EXCEPT !.pc = "find", !.id = a, !.row = alerts[a], !.at = clock,
                            !.before = IF chain = None THEN None ELSE incidents[chain].sev]
             /\ UNCHANGED faults
          \/ alerts[a].sev < Medium /\ UNCHANGED <<corr, faults>>
          \/ Fault /\ UNCHANGED corr
    /\ UNCHANGED <<tables, enrichment, announced, cooldown, rule, ti, request, clock>>

\* find_open_incidents_for_host: created since the largest timeframe
Candidates ==
    {i \in Incident : incidents[i] # None /\ incidents[i].status = "open"
                      /\ incidents[i].created >= clock - MaxWindow}

\* Linkers' scores above zero. PidLineageLinker looks for "host:pid" in rule names.
SameHost(i) == incidents[i].updated >= clock - Window
Temporal(i) == incidents[i].created >= clock - TemporalWindow

\* The best (linker, incident) pair depends on techniques and process names as well,
\* so any linker that scores may win; without a score there is a new incident.
Find ==
    /\ corr.pc = "find"
    /\ \/ \E i \in Candidates, l \in {"same_host", "temporal", "user_activity"} :
             /\ l = "same_host" => SameHost(i)
             /\ l = "temporal" => Temporal(i)
             /\ corr' = [corr EXCEPT !.pc = "add", !.incident = i, !.inc = incidents[i],
                                     !.linker = l]
       \/ /\ \A i \in Candidates : ~SameHost(i) /\ ~Temporal(i)
          /\ corr' = [corr EXCEPT !.pc = "create"]
    /\ UNCHANGED <<tables, topics, cooldown, rule, ti, request, clock, faults>>

Higher(s, t) == IF s >= t THEN s ELSE t

\* Mutant of WithAlert: the count is not kept with the list
WithAlertUncounted(row, a) == [row EXCEPT !.ids = @ \cup {a}]
\* SQLIncidentRepository.add_alert on the incident's row
WithAlert(row, a) ==
    [row EXCEPT !.ids = @ \cup {a}, !.count = Cardinality(row.ids \cup {a})]

\* add_alert commits; then max_severity, which only SameHostLinker has: for another
\* linker the AttributeError ends _process.
AddAlert ==
    /\ corr.pc = "add"
    /\ links' = links \cup {<<corr.incident, corr.id>>}
    /\ incidents' = [incidents EXCEPT ![corr.incident] = WithAlert(@, corr.id)]
    /\ corr' = IF corr.linker # "same_host" THEN CorrIdle
               ELSE [corr EXCEPT !.pc = "update",
                        !.inc.sev = Higher(@, corr.row.sev), !.inc.updated = clock,
                        !.inc.count = @ + 1, !.inc.ids = @ \cup {corr.id}]
    /\ UNCHANGED <<alerts, topics, cooldown, rule, ti, request, clock, faults>>

\* SQLIncidentRepository.update writes every column
UpdateIncident ==
    /\ corr.pc = "update"
    /\ incidents' = [incidents EXCEPT ![corr.incident] = corr.inc]
    /\ corr' = [corr EXCEPT !.pc = "stamp"]
    /\ UNCHANGED <<alerts, links, topics, cooldown, rule, ti, request, clock, faults>>

CreateIncident(i) ==
    /\ corr.pc = "create" /\ Fresh(i, incidents)
    /\ LET row == [sev |-> corr.row.sev, status |-> "open", created |-> clock,
                   updated |-> clock, count |-> 1, ids |-> {corr.id}]
       IN /\ incidents' = [incidents EXCEPT ![i] = row]
          /\ corr' = [corr EXCEPT !.pc = "stamp", !.incident = i, !.inc = row]
    /\ links' = links \cup {<<i, corr.id>>}
    /\ UNCHANGED <<alerts, topics, cooldown, rule, ti, request, clock, faults>>

\* The alert as loaded is written back with its incident
Stamp ==
    /\ corr.pc = "stamp"
    /\ alerts' = [alerts EXCEPT ![corr.id] = [corr.row EXCEPT !.chain = corr.incident]]
    /\ corr' = [corr EXCEPT !.pc = "publish"]
    /\ UNCHANGED <<incidents, links, topics, cooldown, rule, ti, request, clock, faults>>

\* Mutant of IsNew: every correlated alert announces its incident
IsNewAlways == TRUE
\* Mutant of IsNew: the count before the alert was added
IsNewOffByOne == corr.inc.count = 0
IsNew == corr.inc.count = 1
Escalated == corr.before # None /\ corr.inc.sev > corr.before

Publish ==
    /\ corr.pc = "publish" /\ corr' = CorrIdle
    /\ announced' = IF IsNew \/ Escalated
                    THEN announced \cup {[incident |-> corr.incident, trigger |-> corr.id]}
                    ELSE announced
    /\ UNCHANGED <<tables, created, enrichment, cooldown, rule, ti, request, clock, faults>>

CloseOlderThan(age) ==
    LET Stale(row) == row # None /\ row.status = "open" /\ row.updated < clock - age
    IN /\ \E i \in Incident : Stale(incidents[i])
       /\ incidents' = [i \in Incident |-> IF Stale(incidents[i])
                                           THEN [incidents[i] EXCEPT !.status = "resolved"]
                                           ELSE incidents[i]]
       /\ UNCHANGED <<alerts, links, topics, tasks, clock, faults>>

\* Mutant of close_stale: the linkers' window instead of the auto-close time
close_staleWindow == CloseOlderThan(Window)
\* _stale_incidents_loop
close_stale == CloseOlderThan(AutoClose)

-----------------------------------------------------------------------------
(* TIWorker: the lookup, and for a malicious address get and update.       *)

Lookup ==
    /\ ti = TaskIdle /\ enrichment # <<>>
    /\ enrichment' = Tail(enrichment)
    /\ ti' \in {TaskIdle, [id |-> Head(enrichment), row |-> alerts[Head(enrichment)]]}
    /\ UNCHANGED <<tables, created, announced, cooldown, rule, corr, request, clock, faults>>

UpdateTi ==
    /\ ti # TaskIdle /\ ti' = TaskIdle
    /\ \/ alerts' = [alerts EXCEPT ![ti.id] = [ti.row EXCEPT !.ti = TRUE]] /\ UNCHANGED faults
       \/ Fault /\ UNCHANGED alerts
    /\ UNCHANGED <<incidents, links, topics, cooldown, rule, corr, request, clock>>

(* PATCH, acknowledge and false-positive of the alerts router.             *)

GetAlert(n, a, s) ==
    /\ request[n].pc = "new" /\ alerts[a] # None
    /\ request' = [request EXCEPT ![n] =
          [pc |-> "held", id |-> a, row |-> [alerts[a] EXCEPT !.status = s]]]
    /\ UNCHANGED <<tables, topics, cooldown, rule, corr, ti, clock, faults>>

UpdateAlert(n) ==
    /\ request[n].pc = "held"
    /\ alerts' = [alerts EXCEPT ![request[n].id] = request[n].row]
    /\ request' = [request EXCEPT ![n] = RequestDone]
    /\ UNCHANGED <<incidents, links, topics, cooldown, rule, corr, ti, clock, faults>>

-----------------------------------------------------------------------------
(* Time and crashes.                                                       *)

Tick ==
    /\ clock < MaxTime /\ (corr.pc = "idle" \/ corr.at = clock)
    /\ clock' = clock + 1
    /\ UNCHANGED <<tables, topics, tasks, faults>>

\* The server restarts: what its tasks held and the messages they had read are gone;
\* the bus does not deliver them again.
Crash ==
    /\ Fault
    /\ \E n \in 0..Len(created) : created' = SubSeq(created, n + 1, Len(created))
    /\ \E n \in 0..Len(enrichment) : enrichment' = SubSeq(enrichment, n + 1, Len(enrichment))
    /\ cooldown' = [k \in Key |-> 0 - Cooldown]
    /\ rule' = RuleIdle /\ corr' = CorrIdle /\ ti' = TaskIdle
    /\ request' = [n \in Request |-> IF request[n].pc = "held" THEN RequestDone ELSE request[n]]
    /\ UNCHANGED <<tables, announced, clock>>

Rules == PublishCreated \/ PublishEnrichment
Correlate ==
    \/ Load \/ Find \/ AddAlert \/ UpdateIncident \/ Stamp \/ Publish \/ CorrError
    \/ \E i \in Incident : CreateIncident(i)

Next ==
    \/ \E a \in Alert, k \in Key, s \in Severity, t \in {"anomaly", "surveillance"} :
          _create_alert(a, k, s, t)
    \/ \E k \in Key : CreateAlertError(k)
    \/ Rules \/ Correlate \/ close_stale
    \/ Lookup \/ UpdateTi
    \/ \E n \in Request, a \in Alert, s \in Status : GetAlert(n, a, s)
    \/ \E n \in Request : UpdateAlert(n)
    \/ Tick \/ Crash

Spec == Init /\ [][Next]_vars

-----------------------------------------------------------------------------
(* Properties.                                                             *)

Linked(i) == {a \in Alert : <<i, a>> \in links}
Existing == {i \in Incident : incidents[i] # None}

(* SQLIncidentRepository.update, "divergence risk": with one correlation   *)
(* worker the two representations of an incident's alerts never diverge,   *)
(* whichever of its transactions fails and wherever the server stops, and  *)
(* no alert is in two incidents.                                           *)
LinksAgree ==
    /\ \A i \in Incident : incidents[i] = None => Linked(i) = {}
    /\ \A i \in Existing : incidents[i].ids = Linked(i) /\ incidents[i].count = Cardinality(Linked(i))
    /\ \A i, j \in Incident : i # j => Linked(i) \cap Linked(j) = {}

(* "stamps alert.incident_chain_id with the resulting incident's ID":      *)
(* although three tasks write back whole rows they read earlier, an        *)
(* alert's chain names no incident that does not contain the alert.        *)
StampIsTrue == \A a \in Alert : alerts[a] # None /\ alerts[a].chain # None =>
                   <<alerts[a].chain, a>> \in links

(* The auto-close and an alert being linked write the same status column:  *)
(* an incident once resolved is never opened again by a row read before.   *)
NeverReopened ==
    [][\A i \in Existing : incidents[i].status = "resolved" =>
          incidents'[i] # None /\ incidents'[i].status = "resolved"]_vars

(* "preventing duplicate ISOLATE commands for non-escalating updates": two *)
(* announcements of an incident have triggers of different severity.       *)
NoDuplicateAnnouncement ==
    \A m, n \in announced : m.incident = n.incident /\ m # n =>
        alerts[m.trigger].sev # alerts[n.trigger].sev

(* The DecisionWorker hears of every incident: unless a call failed, each  *)
(* incident has been announced when the worker turns to the next alert,    *)
(* although later alerts that join it are not announced.                   *)
EveryIncidentAnnounced ==
    faults = 0 /\ corr.pc = "idle" =>
        \A i \in Existing : \E m \in announced : m.incident = i

(* "This ensures the pipeline is re-triggered on severity escalation":     *)
(* once an alert has been handled without an error, its incident has been  *)
(* announced with the highest severity of its alerts.                      *)
EscalationAnnounced ==
    faults = 0 /\ corr.pc = "idle" =>
        \A i \in Existing : \E m \in announced :
            m.incident = i /\ \A a \in Linked(i) : alerts[a].sev <= alerts[m.trigger].sev
=============================================================================
