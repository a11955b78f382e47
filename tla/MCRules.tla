------------------------------ MODULE MCRules ------------------------------
(* A small rule base and its events.                                       *)
EXTENDS Rules

R(id, kinds, tf, n, key) ==
    [id |-> id, severity |-> "high", condition |-> kinds, timeframe |-> tf, threshold |-> n,
     enabled |-> TRUE, categories |-> {"network"}, platforms |-> {"linux"}, entity_key |-> key,
     call |-> NoCall]

Burst  == R("burst", {"connect"}, 1, 2, "")
Slow   == R("slow", {"connect", "scan"}, 2, 3, "hostname")
\* Custom files: "burst" disabled, one the parser refuses, one without a timeframe.
Off    == [Burst EXCEPT !.enabled = FALSE]
Broken == [Burst EXCEPT !.timeframe = 0]
Single == R("burst", {"scan"}, None, None, "")
\* kind == "connect" and count_events("True", 1) < 2, which prunes its window;
\* a rule that fires on a scan and on a connection at the time of one.
Quiet  == [R("quiet", {}, 2, 2, "") EXCEPT !.call =
              [reached |-> {"connect"}, decides |-> {"connect"}, of |-> {"connect", "scan"},
               seconds |-> 1, passes |-> {0, 1}]]
Either == [R("burst", {"scan"}, 2, 1, "hostname") EXCEPT !.call =
              [reached |-> {"connect"}, decides |-> {"connect"}, of |-> {"scan"},
               seconds |-> 0, passes |-> {1, 2, 3}]]

MCRuleFiles == {Burst, Slow, Off, Broken, Single, Quiet, Either}
MCInitial   == [builtin |-> {Burst, Slow, Quiet}, custom |-> {}]

Ev(host, pid, kind) ==
    [hostname |-> host, pid |-> pid, kind |-> kind, category |-> "network", os |-> "linux"]
\* Administrators and contents are only told apart.
Symmetry == Permutations(Admins) \cup Permutations(Contents)

MCEvents == {Ev("h1", 1, "connect"), Ev("h1", 2, "connect"), Ev("h1", 1, "scan")}

=============================================================================
