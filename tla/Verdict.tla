------------------------------ MODULE Verdict ------------------------------
(***************************************************************************)
(* What the human approval of decisions promises, without saying how: a    *)
(* recorded decision gets at most one verdict, from one party, and the     *)
(* KILL_PROCESS command of a decision is sent at most once and only after  *)
(* an operator approved it.                                                *)
(***************************************************************************)
CONSTANTS Decision, Operator, System, NeedsHuman

NoVerdict == [outcome |-> "none"]
VerdictSet == {NoVerdict} \cup [outcome : {"approved"}, by : Operator]
                          \cup [outcome : {"rejected"}, by : Operator \cup System]

VARIABLES verdict, killed

Init == verdict = [d \in Decision |-> NoVerdict] /\ killed = {}

Decide(d) ==
    /\ verdict[d] = NoVerdict
    /\ \E v \in VerdictSet : verdict' = [verdict EXCEPT ![d] = v]
    /\ UNCHANGED killed

Kill(d) ==
    /\ d \in NeedsHuman \ killed /\ verdict[d].outcome = "approved"
    /\ killed' = killed \cup {d}
    /\ UNCHANGED verdict

Next == \E d \in Decision : Decide(d) \/ Kill(d)

Spec == Init /\ [][Next]_<<verdict, killed>>
=============================================================================
