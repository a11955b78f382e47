--------------------------- MODULE HumanApproval ---------------------------
(***************************************************************************)
(* HumanApprovalQueue: operators approve and reject decisions over HTTP    *)
(* while the timeout sweeps of all servers auto-reject expired ones. Every *)
(* await of _update_decision is a step of its own, so all callers          *)
(* interleave; database errors, failed publishes and crashes included.     *)
(***************************************************************************)
EXTENDS Naturals, FiniteSets

CONSTANTS
    Decision,    \* decisions
    NeedsHuman,  \* the ones with requires_human (and hence a timeout_at)
    HasPid,      \* the ones whose trigger alert is found and names a process
    Operator,    \* approve/reject requests, each made once by one operator
    System,      \* timeout sweeps, one per server
    NoDecision,  \* no decision
    Triggers,    \* the immutability triggers of the PostgreSQL backend exist
    MaxFaults    \* bound: errors and crashes

ASSUME ApprovalAssumption ==
    /\ NeedsHuman \subseteq Decision /\ HasPid \subseteq Decision
    /\ Operator \cap System = {} /\ NoDecision \notin Decision /\ Triggers \in BOOLEAN /\ MaxFaults \in Nat

Caller == Operator \cup System

VARIABLES
    present,   \* decisions the worker has inserted
    verdict,   \* human_decision and human_operator of each row
    expired,   \* decisions whose timeout_at has passed
    pc,        \* where each caller is
    target,    \* the decision it is updating
    outcome,   \* the outcome it wants to record
    now,       \* the sweep's clock reading: what had expired then
    todo,      \* pending and timed-out decisions the sweep still has to visit
    killed,    \* decisions KILL_PROCESS was published for
    killedTwice,
    faults

vars == <<present, verdict, expired, pc, target, outcome, now, todo, killed,
          killedTwice, faults>>

NoVerdict == [outcome |-> "none"]
VerdictSet == {NoVerdict} \cup [outcome : {"approved", "rejected"}, by : Caller]

TypeOK ==
    /\ present \subseteq Decision /\ expired \subseteq NeedsHuman
    /\ verdict \in [Decision -> VerdictSet]
    /\ pc \in [Caller -> {"idle", "get", "update", "emit", "pending", "sweep",
                          "ok", "none", "error"}]
    /\ target \in [Caller -> Decision \cup {NoDecision}]
    /\ \A c \in Caller : pc[c] \in {"get", "update", "emit", "ok"} => target[c] \in Decision
    /\ outcome \in [Caller -> {"approved", "rejected"}]
    /\ now \in [System -> SUBSET Decision] /\ todo \in [System -> SUBSET Decision]
    /\ killed \subseteq Decision /\ killedTwice \subseteq Decision /\ faults \in 0..MaxFaults

-----------------------------------------------------------------------------
Init ==
    /\ present = {} /\ expired = {} /\ verdict = [d \in Decision |-> NoVerdict]
    /\ pc = [c \in Caller |-> "idle"]
    /\ target = [c \in Caller |-> NoDecision]
    /\ outcome = [c \in Caller |-> "rejected"]
    /\ now = [w \in System |-> {}] /\ todo = [w \in System |-> {}]
    /\ killed = {} /\ killedTwice = {} /\ faults = 0

Fault == faults < MaxFaults /\ faults' = faults + 1

\* DecisionWorker inserts a decision
Record(d) ==
    /\ d \notin present
    /\ present' = present \cup {d}
    /\ UNCHANGED <<verdict, expired, pc, target, outcome, now, todo, killed, killedTwice, faults>>

\* timeout_at of a recorded decision passes
Timeout(d) ==
    /\ d \in (present \cap NeedsHuman) \ expired
    /\ expired' = expired \cup {d}
    /\ UNCHANGED <<present, verdict, pc, target, outcome, now, todo, killed, killedTwice, faults>>

\* POST /{decision_id}/approve or /reject, for any id
Request(o, d, wanted) ==
    /\ pc[o] = "idle"
    /\ pc' = [pc EXCEPT ![o] = "get"]
    /\ target' = [target EXCEPT ![o] = d] /\ outcome' = [outcome EXCEPT ![o] = wanted]
    /\ UNCHANGED <<present, verdict, expired, now, todo, killed, killedTwice, faults>>

-----------------------------------------------------------------------------
(* _expire_timeout.                                                        *)

SweepStart(w) ==
    /\ pc[w] = "idle"
    /\ now' = [now EXCEPT ![w] = expired]
    /\ pc' = [pc EXCEPT ![w] = "pending"]
    /\ UNCHANGED <<present, verdict, expired, target, outcome, todo, killed, killedTwice, faults>>

\* get_pending(), then the loop's filter timeout_at <= now
GetPending(w) ==
    /\ pc[w] = "pending"
    /\ todo' = [todo EXCEPT ![w] = {d \in present \cap NeedsHuman \cap now[w] :
                                      verdict[d] = NoVerdict}]
    /\ pc' = [pc EXCEPT ![w] = "sweep"]
    /\ UNCHANGED <<present, verdict, expired, target, outcome, now, killed, killedTwice, faults>>

SweepNext(w) ==
    /\ pc[w] = "sweep"
    /\ \/ /\ todo[w] = {} /\ pc' = [pc EXCEPT ![w] = "idle"]
          /\ UNCHANGED <<target, outcome, todo>>
       \/ \E d \in todo[w] :
             /\ pc' = [pc EXCEPT ![w] = "get"] /\ target' = [target EXCEPT ![w] = d]
             /\ outcome' = [outcome EXCEPT ![w] = "rejected"]
             /\ todo' = [todo EXCEPT ![w] = @ \ {d}]
    /\ UNCHANGED <<present, verdict, expired, now, killed, killedTwice, faults>>

-----------------------------------------------------------------------------
(* _update_decision, for an operator and for a sweep.                      *)

\* Where a caller goes when _update_decision returned None
Refused(c) == IF c \in System THEN "sweep" ELSE "none"

\* Mutant of Raised: run() does not catch, the first error ends it for good
SweepDies(c) == "error"

\* Where a caller goes when an error is raised
Raised(c) == IF c \in System THEN "idle" ELSE "error"

(* repo.get and the first check of human_decision.                         *)
GetDecision(c) ==
    /\ pc[c] = "get"
    /\ pc' = [pc EXCEPT ![c] = IF target[c] \in present /\ verdict[target[c]] = NoVerdict
                               THEN "update" ELSE Refused(c)]
    /\ UNCHANGED <<present, verdict, expired, target, outcome, now, todo, killed,
                   killedTwice, faults>>

\* Mutant of RowFree: UPDATE without AND human_decision IS NULL
RowPresent(d) == TRUE

\* The WHERE clause of update_human_decision
RowFree(d) == verdict[d] = NoVerdict

\* Mutant of AfterUpdate: the row count is not looked at
AfterUpdateUnchecked(c, rowcount) ==
    IF c \in System THEN "sweep" ELSE IF outcome[c] = "approved" THEN "emit" ELSE "ok"

\* What follows the UPDATE, by its row count: approve() goes on to the executor
AfterUpdate(c, rowcount) ==
    IF rowcount = 0 THEN Refused(c)
    ELSE IF c \in System THEN "sweep"
    ELSE IF outcome[c] = "approved" THEN "emit" ELSE "ok"

(* UPDATE ... WHERE human_decision IS NULL: one atomic statement.          *)
UpdateDecision(c) ==
    LET d == target[c] IN
    /\ pc[c] = "update" /\ ~(Triggers /\ RowFree(d))
    /\ IF RowFree(d)
       THEN /\ verdict' = [verdict EXCEPT ![d] = [outcome |-> outcome[c], by |-> c]]
            /\ pc' = [pc EXCEPT ![c] = AfterUpdate(c, 1)]
       ELSE pc' = [pc EXCEPT ![c] = AfterUpdate(c, 0)] /\ UNCHANGED verdict
    /\ UNCHANGED <<present, expired, target, outcome, now, todo, killed, killedTwice, faults>>

(* The UPDATE raises: the trigger refuses it, or the database fails before *)
(* or after the commit. A sweep is over when one of its updates raises.    *)
UpdateError(c) ==
    LET d == target[c] IN
    /\ pc[c] = "update"
    /\ \/ Triggers /\ RowFree(d) /\ UNCHANGED <<verdict, faults>>
       \/ Fault /\ UNCHANGED verdict
       \/ ~Triggers /\ RowFree(d) /\ Fault
          /\ verdict' = [verdict EXCEPT ![d] = [outcome |-> outcome[c], by |-> c]]
    /\ pc' = [pc EXCEPT ![c] = Raised(c)]
    /\ UNCHANGED <<present, expired, target, outcome, now, todo, killed, killedTwice>>

\* get or get_pending raises
ReadError(c) ==
    /\ pc[c] \in {"get", "pending"} /\ Fault
    /\ pc' = [pc EXCEPT ![c] = Raised(c)]
    /\ UNCHANGED <<present, verdict, expired, target, outcome, now, todo, killed, killedTwice>>

\* Mutant of Killable: execute_after_approval does not look at requires_human
KillableAny(d) == d \in HasPid

\* execute_after_approval's guards, and a process named by the alert
Killable(d) == d \in NeedsHuman \cap HasPid

(* approve() after the update: load the alert, publish KILL_PROCESS. An    *)
(* error is logged; the operator is answered with the decision anyway.     *)
Emit(o) ==
    LET d == target[o] IN
    /\ pc[o] = "emit"
    /\ \/ /\ Killable(d)
          /\ killedTwice' = killedTwice \cup (killed \cap {d})
          /\ killed' = killed \cup {d} /\ UNCHANGED faults
       \/ ~Killable(d) /\ UNCHANGED <<killed, killedTwice, faults>>
       \/ Fault /\ UNCHANGED <<killed, killedTwice>>
    /\ pc' = [pc EXCEPT ![o] = "ok"]
    /\ UNCHANGED <<present, verdict, expired, target, outcome, now, todo>>

\* The caller's server dies; a sweep starts anew with its server
Crash(c) ==
    /\ pc[c] \in {"get", "update", "emit", "pending", "sweep"} /\ Fault
    /\ pc' = [pc EXCEPT ![c] = Raised(c)]
    /\ UNCHANGED <<present, verdict, expired, target, outcome, now, todo, killed, killedTwice>>

-----------------------------------------------------------------------------
_update_decision(c) == GetDecision(c) \/ UpdateDecision(c) \/ UpdateError(c)
_expire_timeout(w) == SweepStart(w) \/ GetPending(w) \/ SweepNext(w) \/ _update_decision(w)

Next ==
    \/ \E d \in Decision : Record(d) \/ Timeout(d)
    \/ \E o \in Operator, d \in Decision, wanted \in {"approved", "rejected"} :
          Request(o, d, wanted)
    \/ \E w \in System : SweepStart(w) \/ GetPending(w) \/ SweepNext(w)
    \/ \E c \in Caller : _update_decision(c) \/ ReadError(c) \/ Crash(c)
    \/ \E o \in Operator : Emit(o)

Spec == Init /\ [][Next]_vars

(* HumanApprovalQueue.run repeats the sweep every poll_interval seconds    *)
(* and survives its errors, so every step of it that stays possible is     *)
(* taken. Nothing is assumed of the operators.                             *)
FairSpec == Spec /\ \A w \in System : WF_vars(_expire_timeout(w))

-----------------------------------------------------------------------------
(* Properties.                                                             *)

(* F-03: "If two concurrent requests race, only the first one wins": a     *)
(* caller that was told it decided is the one the row names, with its own  *)
(* outcome, whoever raced with it.                                         *)
AnswerIsTruth ==
    \A o \in Operator :
        pc[o] \in {"emit", "ok"} => verdict[target[o]] = [outcome |-> outcome[o], by |-> o]

(* "KILL_PROCESS is only issued here - never autonomously": at most once,  *)
(* for a decision that requires a human and that an operator approved.     *)
KillOnlyApproved ==
    /\ killedTwice = {}
    /\ \A d \in killed : d \in NeedsHuman /\ verdict[d].outcome = "approved"
                         /\ verdict[d].by \in Operator

(* A sweep never rejects a decision before its timeout, however old the    *)
(* list it is working through.                                             *)
NoEarlyExpiry ==
    \A d \in Decision : verdict[d] # NoVerdict /\ verdict[d].by \in System => d \in expired

(* The queue implements Verdict: one verdict per decision for ever, and    *)
(* kills only as Verdict allows.                                           *)
V == INSTANCE Verdict WITH Decision <- Decision, Operator <- Operator, System <- System,
                           NeedsHuman <- NeedsHuman, verdict <- verdict, killed <- killed
ImplementsVerdict == V!Spec

(* "After timeout_at, they are auto-expired": a decision whose timeout     *)
(* passed does not stay undecided, although one failing update ends a      *)
(* whole sweep.                                                            *)
Expires == \A d \in Decision : d \in expired ~> verdict[d] # NoVerdict
=============================================================================
