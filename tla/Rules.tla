------------------------------- MODULE Rules -------------------------------
(***************************************************************************)
(* Detection rules: the YAML files and the two engines that load them, the *)
(* evaluation of events with its temporal windows, and the administrators' *)
(* rule table with its change history (server/oseye/rule_engine/*.py,      *)
(* workers/rule_worker.py, api/routers/rules.py, cli/cmd_rules.py,         *)
(* storage/repositories/rules.py).                                         *)
(*                                                                         *)
(* The rule table has no effect on the evaluation: the API says so.  The   *)
(* server builds one engine for the API and the rule worker builds         *)
(* another.  Nobody starts the file watcher of the first, and the second   *)
(* is built without one, so the only reload is the endpoint's, which       *)
(* reaches the API's engine.                                               *)
(***************************************************************************)
EXTENDS Integers, Sequences, FiniteSets, SequencesExt, FiniteSetsExt

CONSTANTS
    RuleFiles,      \* the rule definitions somebody may write to a file
    InitialRules,   \* source -> the definitions on disk at first
    Events,         \* the normalized events
    MaxTTL,         \* _MAX_TTL
    MaxWindow,      \* _MAX_WINDOW_ENTRIES
    PurgeEvery,     \* records between two purges (500 in the code)
    Admins,         \* clients of the rule table
    RowIds,         \* identifiers of rows of the rule table
    Contents,       \* values of a column
    MaxNow,         \* bound on the clock
    MaxOps          \* bound on the events, requests, edits and restarts

None    == -1                       \* an optional number that is absent
Sources == {"builtin", "custom"}

\* A source holds one definition of an id: the one that is read last.  The
\* seconds of a count_events call are within MaxTTL, so that a purge by another
\* rule's record, before or after the call, leaves what the call counts; a
\* condition makes one call at most.
ASSUME RulesAssumption ==
    /\ MaxTTL \in Nat /\ MaxWindow \in Nat \ {0} /\ PurgeEvery \in Nat \ {0}
    /\ MaxNow \in Nat /\ MaxOps \in Nat
    /\ \A d \in RuleFiles : d.timeframe \in Nat \cup {None} /\ d.threshold \in Nat \cup {None}
    /\ \A d \in RuleFiles : d.call.decides \subseteq d.call.reached /\ d.call.seconds \in 0 .. MaxTTL
    /\ InitialRules \in [Sources -> SUBSET RuleFiles]
    /\ \A s \in Sources : \A c, d \in InitialRules[s] : c.id = d.id => c = d

Engines == {"api", "worker"}
Columns == {"yaml_content", "profile_id"}

VARIABLES
    disk,         \* source -> rule definitions in its directory
    loaded,       \* engine -> RuleEngine._rules
    windows,      \* _temporal_windows
    recordCount,  \* _record_count
    history,      \* ghost: the events evaluated since the start
    fired,        \* rules that fired on the last of them
    rows,         \* the rule table
    log,          \* the change log
    born,         \* ghost: the profile a row was created with, which the log does not say
    request,      \* admin -> the write it has under way
    now, ops

engineVars == <<disk, loaded>>
windowVars == <<windows, recordCount, history, fired>>
tableVars  == <<rows, log, born, request>>
ruleVars == <<engineVars, windowVars, tableVars, now, ops>>

Op == ops < MaxOps /\ ops' = ops + 1

-----------------------------------------------------------------------------
(* Parser and engines.                                                     *)

\* _parse_rule: what makes a definition acceptable.
WellFormed(d) ==
    /\ d.severity \in {"info", "low", "medium", "high", "critical"}
    /\ d.condition \cup d.call.decides # {}
    /\ d.timeframe = None \/ d.timeframe > 0
    /\ d.threshold = None \/ d.threshold >= 1

\* load_rules_from_dir and load_rules_from_file: a definition that does not
\* parse is skipped, the others are kept.
FromDir(defs) == {d \in defs : WellFormed(d)}

\* load_all_rules: a custom rule replaces the builtin rule of the same id.
LoadAll(files) ==
    LET custom == FromDir(files["custom"])
    IN  custom \cup {d \in FromDir(files["builtin"]) : \A c \in custom : c.id # d.id}

RuleIds    == {d.id : d \in RuleFiles}
\* _build_entity_key and _stable_entity_key.
EntityKey(d, ev) == IF d.entity_key = "hostname" THEN <<ev.hostname>> ELSE <<ev.hostname, ev.pid>>
WindowKeys == {<<d.id, EntityKey(d, ev)>> : d \in RuleFiles, ev \in Events}
NoWindows  == [k \in WindowKeys |-> <<>>]     \* an empty window is a missing key

NoRequest == [op |-> "none"]

RInit ==
    /\ disk = InitialRules
    /\ loaded = [e \in Engines |-> LoadAll(InitialRules)]
    /\ windows = NoWindows /\ recordCount = 0
    /\ history = <<>> /\ fired = {}
    /\ rows = <<>> /\ log = <<>> /\ born = <<>>
    /\ request = [a \in Admins |-> NoRequest]
    /\ now = MaxTTL /\ ops = 0

\* Somebody writes a custom rule to a file, in the place of one with the
\* same id; builtin rules come with the release.
WriteRule(d) ==
    /\ Op
    /\ disk' = [disk EXCEPT !["custom"] = {x \in @ : x.id # d.id} \cup {d}]
    /\ UNCHANGED <<loaded, now>> /\ UNCHANGED windowVars /\ UNCHANGED tableVars

\* RuleEngine.reload.
Reload(engine) == loaded' = [loaded EXCEPT ![engine] = LoadAll(disk)]

\* The reload endpoint, on the event loop from beginning to end.
ReloadRules ==
    /\ Op
    /\ Reload("api")
    /\ UNCHANGED <<disk, now>> /\ UNCHANGED windowVars /\ UNCHANGED tableVars

\* The server starts again: both engines load the files, the windows are empty.
RestartServer ==
    /\ Op
    /\ loaded' = [e \in Engines |-> LoadAll(disk)]
    /\ windows' = NoWindows /\ recordCount' = 0
    /\ history' = <<>> /\ fired' = {}
    /\ request' = [a \in Admins |-> NoRequest]
    /\ UNCHANGED <<disk, rows, log, born, now>>

-----------------------------------------------------------------------------
(* Evaluation.                                                             *)

\* The index by category holds the enabled rules only.
Candidate(d, ev) == d.enabled /\ (d.categories = {} \/ ev.category \in d.categories)

Applies(d, ev) == Candidate(d, ev) /\ (d.platforms = {} \/ ev.os \in d.platforms)

\* _eval_expr: a condition is the set of the kinds of event that satisfy it.
\* It may also call count_events(filter, seconds), for the kinds where the
\* evaluation reaches the call; on those that the call decides, it holds when
\* the number returned is one that passes.
NoCall == [reached |-> {}, decides |-> {}, of |-> {}, seconds |-> 0, passes |-> {}]
Satisfies(d, kind, n) == kind \in d.condition \/ (kind \in d.call.decides /\ n \in d.call.passes)

Matches(d, ev, n) == Applies(d, ev) /\ Satisfies(d, ev.kind, n)

\* The loop that pops entries from the left while they are older.
Leading(w, cutoff)  == {j \in DOMAIN w : \A i \in 1 .. j : w[i].ts < cutoff}
NotOlder(w, cutoff) == SubSeq(w, Cardinality(Leading(w, cutoff)) + 1, Len(w))

Newest(w) == IF Len(w) > MaxWindow THEN SubSeq(w, Len(w) - MaxWindow + 1, Len(w)) ELSE w

\* record_event_for_temporal: append to a deque of bounded length and prune.
Recorded(w, ev) == NotOlder(Newest(Append(w, [ts |-> now, kind |-> ev.kind])), now - MaxTTL)

\* count_events counts what the rule's own window holds for the entity, and
\* prunes that window by the seconds of the call, before the event is recorded.
Key(d, ev)    == <<d.id, EntityKey(d, ev)>>
Looked(d, ev) == LET w == windows[Key(d, ev)]
                 IN  IF Applies(d, ev) /\ ev.kind \in d.call.reached
                     THEN NotOlder(w, now - d.call.seconds) ELSE w
Found(d, ev)  == Cardinality({i \in DOMAIN Looked(d, ev) : Looked(d, ev)[i].kind \in d.call.of})

\* _count_events_in_window prunes by the rule's timeframe and counts the
\* entries that satisfy the condition, where a call now returns 0.
Pruned(w, d)    == NotOlder(w, now - d.timeframe)
CountIn(w, d)   == Cardinality({i \in DOMAIN w : Satisfies(d, w[i].kind, 0)})
Threshold(d)    == IF d.threshold = None THEN 1 ELSE d.threshold

\* Mutant of Stale: one old entry is enough
StaleAny(w) == \E i \in DOMAIN w : w[i].ts < now - MaxTTL

\* _purge_old_windows and purge_stale_windows: the keys whose entries are all
\* older than the limit.
Stale(w)    == \A i \in DOMAIN w : w[i].ts < now - MaxTTL
Purged(ws)  == [k \in WindowKeys |-> IF Stale(ws[k]) THEN <<>> ELSE ws[k]]

\* RuleEngine.evaluate on the rule worker's engine, every rule on its own
\* windows: the rules whose condition holds, those of them that record the
\* event, and the windows after it.
MatchingRules(ev) == {d \in loaded["worker"] : Matches(d, ev, Found(d, ev))}
Temporal(ev) == {d \in MatchingRules(ev) : d.timeframe # None}
After(ev) ==
    [k \in WindowKeys |->
        IF \E d \in loaded["worker"] : k = Key(d, ev)
        THEN LET d == CHOOSE x \in loaded["worker"] : x.id = k[1]
             IN  IF d \in Temporal(ev) THEN Pruned(Recorded(Looked(d, ev), ev), d) ELSE Looked(d, ev)
        ELSE windows[k]]

Evaluate(ev) ==
    LET count == recordCount + Cardinality(Temporal(ev))
    IN  /\ Op
        /\ windows' = IF count \div PurgeEvery > recordCount \div PurgeEvery
                      THEN Purged(After(ev)) ELSE After(ev)
        /\ recordCount' = count % PurgeEvery
        /\ fired' = {d.id : d \in {x \in MatchingRules(ev) :
                        x.timeframe = None \/ CountIn(After(ev)[Key(x, ev)], x) >= Threshold(x)}}
        /\ history' = Append(history, [ts |-> now, ev |-> ev])
        /\ UNCHANGED now /\ UNCHANGED engineVars /\ UNCHANGED tableVars

\* The worker's purge task, every ten minutes.
PeriodicPurge ==
    /\ Purged(windows) # windows
    /\ windows' = Purged(windows)
    /\ UNCHANGED <<recordCount, history, fired, now, ops>>
    /\ UNCHANGED engineVars /\ UNCHANGED tableVars

Tick ==
    /\ now < MaxTTL + MaxNow /\ now' = now + 1
    /\ UNCHANGED ops /\ UNCHANGED engineVars /\ UNCHANGED windowVars /\ UNCHANGED tableVars

-----------------------------------------------------------------------------
(* The rule table.  A write reads the row and writes it in two round trips *)
(* to the database; two of them may overlap.                               *)

Logged(entry) == log' = Append(log, entry)

NewRow(values) == [values |-> values, version |-> 1]

\* SQLRuleRepository.create: the row and its first log entry in one
\* transaction; the entry has the content and no other column.
InsertRule(id, values) ==
    /\ rows' = [x \in DOMAIN rows \cup {id} |-> IF x = id THEN NewRow(values) ELSE rows[x]]
    /\ born' = [x \in DOMAIN born \cup {id} |-> IF x = id THEN values["profile_id"] ELSE born[x]]
    /\ Logged([id |-> id, change |-> "created", version |-> 1, diff |-> <<>>,
               yaml |-> values["yaml_content"]])

\* create_rule: a fresh identifier.
CreateRule(id, values) ==
    /\ Op
    /\ id \notin DOMAIN rows /\ \A i \in DOMAIN log : log[i].id # id
    /\ InsertRule(id, values)
    /\ UNCHANGED <<request, now>> /\ UNCHANGED engineVars /\ UNCHANGED windowVars

\* update and delete begin by reading the row: a missing one is a 404.
BeginUpdate(a, id, fields) ==
    /\ Op
    /\ request[a] = NoRequest /\ id \in DOMAIN rows
    /\ request' = [request EXCEPT ![a] =
                      [op |-> "update", id |-> id, fields |-> fields, seen |-> rows[id]]]
    /\ UNCHANGED <<rows, log, born, now>> /\ UNCHANGED engineVars /\ UNCHANGED windowVars

\* assign_rule_to_profile is an update of profile_id alone.
AssignProfile(a, id, profile) == BeginUpdate(a, id, [c \in {"profile_id"} |-> profile])

BeginDelete(a, id) ==
    /\ Op
    /\ request[a] = NoRequest /\ id \in DOMAIN rows
    /\ request' = [request EXCEPT ![a] = [op |-> "delete", id |-> id, seen |-> rows[id]]]
    /\ UNCHANGED <<rows, log, born, now>> /\ UNCHANGED engineVars /\ UNCHANGED windowVars

\* The columns whose new value differs from the value read: these alone are
\* written, and these are the diff in the log.
Diff(q) == {c \in DOMAIN q.fields : q.fields[c] # q.seen.values[c]}

\* A new name, configuration or content takes the next version.
NewVersion(q) == IF "yaml_content" \in DOMAIN q.fields THEN q.seen.version + 1 ELSE q.seen.version

\* The entry of an update.  Its content is the new one, or the one that was
\* read, which another update may have replaced meanwhile.
LogUpdate(q) ==
    Logged([id |-> q.id, change |-> "updated", version |-> NewVersion(q),
            diff |-> [c \in Diff(q) |-> [from |-> q.seen.values[c], to |-> q.fields[c]]],
            yaml |-> IF "yaml_content" \in DOMAIN q.fields THEN q.fields["yaml_content"]
                     ELSE q.seen.values["yaml_content"]])

\* Mutant of CommitUpdate: the row is written back as it was read, changed or not
CommitUpdateWholeRow(a) ==
    LET q == request[a] IN
    /\ q.op = "update"
    /\ IF q.id \in DOMAIN rows
       THEN /\ rows' = [rows EXCEPT ![q.id] =
                  [values  |-> [c \in Columns |-> IF c \in Diff(q) THEN q.fields[c] ELSE q.seen.values[c]],
                   version |-> NewVersion(q)]]
            /\ LogUpdate(q)
       ELSE UNCHANGED <<rows, log>>
    /\ request' = [request EXCEPT ![a] = NoRequest]
    /\ UNCHANGED <<born, now, ops>> /\ UNCHANGED engineVars /\ UNCHANGED windowVars

CommitUpdate(a) ==
    LET q == request[a] IN
    /\ q.op = "update"
    /\ IF q.id \in DOMAIN rows
       THEN /\ rows' = [rows EXCEPT ![q.id] =
                  [values  |-> [c \in Columns |-> IF c \in Diff(q) THEN q.fields[c] ELSE @.values[c]],
                   version |-> IF NewVersion(q) # q.seen.version THEN NewVersion(q) ELSE @.version]]
            /\ LogUpdate(q)
       ELSE UNCHANGED <<rows, log>>       \* no row matched: rolled back
    /\ request' = [request EXCEPT ![a] = NoRequest]
    /\ UNCHANGED <<born, now, ops>> /\ UNCHANGED engineVars /\ UNCHANGED windowVars

\* The log entry is written even when another delete came first.
CommitDelete(a) ==
    LET q == request[a] IN
    /\ q.op = "delete"
    /\ rows' = [x \in DOMAIN rows \ {q.id} |-> rows[x]]
    /\ Logged([id |-> q.id, change |-> "deleted", version |-> q.seen.version, diff |-> <<>>,
               yaml |-> q.seen.values["yaml_content"]])
    /\ request' = [request EXCEPT ![a] = NoRequest]
    /\ UNCHANGED <<born, now, ops>> /\ UNCHANGED engineVars /\ UNCHANGED windowVars

-----------------------------------------------------------------------------

Values  == [Columns -> Contents]
Updates == UNION {[cs -> Contents] : cs \in (SUBSET Columns) \ {{}}}

\* `oseye-server rules`: create, edit and delete are requests to the same
\* endpoints; edit has no option for the profile.
RulesCli ==
    \E a \in Admins, id \in RowIds :
        \/ \E values \in Values : CreateRule(id, values)
        \/ \E content \in Contents : BeginUpdate(a, id, [c \in {"yaml_content"} |-> content])
        \/ BeginDelete(a, id)

RNext ==
    \/ \E d \in RuleFiles : WriteRule(d)
    \/ ReloadRules
    \/ RestartServer
    \/ \E ev \in Events : Evaluate(ev)
    \/ PeriodicPurge
    \/ Tick
    \/ \E id \in RowIds, values \in Values : CreateRule(id, values)
    \/ \E a \in Admins, id \in RowIds, fields \in Updates : BeginUpdate(a, id, fields)
    \/ \E a \in Admins, id \in RowIds, profile \in Contents : AssignProfile(a, id, profile)
    \/ \E a \in Admins, id \in RowIds : BeginDelete(a, id)
    \/ \E a \in Admins : CommitUpdate(a) \/ CommitDelete(a)
    \/ RulesCli

RSpec == RInit /\ [][RNext]_ruleVars

-----------------------------------------------------------------------------

\* When a rule fires (rule_engine/evaluator.py, evaluate).  A rule whose
\* condition does not call count_events fires on an event exactly when the
\* event matches it and, if the rule has a timeframe, the events of the same
\* entity that match it and were evaluated since the server started, not older
\* than the timeframe, are at least its threshold.  No pruning of a window, no
\* purge, no full window, and no other rule's timeframe or calls change that,
\* for rules whose timeframe and threshold are within the limits of the
\* windows.  A rule that does call count_events prunes its own window by the
\* seconds of the call, and then counts fewer events than its timeframe has;
\* it may miss, but it never fires on too few: of the entity's events in the
\* timeframe at least the threshold satisfy the condition with a count of 0.
TemporalExact ==
    history # <<>> =>
        LET last == Last(history)
            Counted(d) == {i \in DOMAIN history :
                              /\ Matches(d, history[i].ev, 0)
                              /\ EntityKey(d, history[i].ev) = EntityKey(d, last.ev)
                              /\ history[i].ts >= last.ts - d.timeframe}
            Enough(d)  == d.timeframe = None \/ Cardinality(Counted(d)) >= Threshold(d)
        IN  \A d \in loaded["worker"] :
                /\ d.id \in fired => Applies(d, last.ev) /\ Enough(d)
                /\ d.call = NoCall /\ d.timeframe <= MaxTTL /\ d.threshold <= MaxWindow =>
                       (d.id \in fired <=> Matches(d, last.ev, 0) /\ Enough(d))

\* SQLRuleRepository.get_history: the entries of a rule, by their places.
EntriesOf(id) == {i \in DOMAIN log : log[i].id = id}

\* get_rule_history, for deleted rules too: it begins with the newest change,
\* and for a column, with the newest that changed it.  A column that none
\* changed is the one the rule was created with.
History(id)    == log[Max(EntriesOf(id))]
Setters(id, c) == {i \in EntriesOf(id) : c \in DOMAIN log[i].diff}
Creation(id)   == CHOOSE i \in EntriesOf(id) : log[i].change = "created"
ReplayedColumn(id, c) ==
    IF Setters(id, c) # {} THEN log[Max(Setters(id, c))].diff[c].to
    ELSE IF c = "yaml_content" THEN log[Creation(id)].yaml
    ELSE born[id]

\* The history of a rule accounts for the rule, whatever requests overlap:
\* replaying the changes logged for it, from the content of its first entry
\* and the profile it was created with, gives its columns; a rule that is
\* gone has a history that ends with its deletion, and nothing but another
\* deletion follows one (storage/repositories/rules.py).
HistoryReplays ==
    \A id \in RowIds :
        IF id \in DOMAIN rows
        THEN /\ EntriesOf(id) # {} /\ \A i \in EntriesOf(id) : log[i].change # "deleted"
             /\ \A c \in Columns : rows[id].values[c] = ReplayedColumn(id, c)
        ELSE EntriesOf(id) # {} =>
                /\ History(id).change = "deleted"
                /\ \A i, j \in EntriesOf(id) :
                      i < j /\ log[i].change = "deleted" => log[j].change = "deleted"

\* What a comment in main.py says of the rule worker, built without hot
\* reload because the "engine already hot-reloads": the rules the API lists
\* and reloads are the rules that evaluate events.
OneRuleBase == loaded["worker"] = loaded["api"]

=============================================================================
