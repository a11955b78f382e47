------------------------ MODULE HumanApprovalProofs ------------------------
(***************************************************************************)
(* HumanApproval implements Verdict, for any decisions, operators and      *)
(* servers, whatever fails and in whatever order the callers run.          *)
(***************************************************************************)
EXTENDS HumanApproval, TLAPS

(* Sweeps only reject, and only what had expired.                          *)
SweepInv ==
    /\ \A w \in System : /\ outcome[w] = "rejected"
                         /\ pc[w] \in {"idle", "get", "update", "pending", "sweep"}
                         /\ now[w] \subseteq expired /\ todo[w] \subseteq expired
                         /\ pc[w] \in {"get", "update"} => target[w] \in expired
    /\ NoEarlyExpiry

(* Whoever is past the UPDATE won it; a kill belongs to the winner, who    *)
(* has nothing left to do.                                                 *)
WinnerInv ==
    /\ AnswerIsTruth
    /\ \A o \in Operator : pc[o] = "emit" => outcome[o] = "approved"
    /\ \A d \in Decision : verdict[d].outcome = "approved" => verdict[d].by \in Operator
    /\ killedTwice = {} /\ killed \subseteq NeedsHuman
    /\ \A d \in killed : /\ verdict[d].outcome = "approved"
                         /\ pc[verdict[d].by] = "ok"

IInv == TypeOK /\ SweepInv /\ WinnerInv

LEMMA InitIInv == Init => IInv
<1> SUFFICES ASSUME Init PROVE IInv
  OBVIOUS
<1>1. TypeOK
  <2>1. faults \in 0..MaxFaults BY ApprovalAssumption DEF Init
  <2>2. verdict \in [Decision -> VerdictSet] BY DEF Init, VerdictSet
  <2> QED BY <2>1, <2>2 DEF Init, TypeOK
<1>2. SweepInv BY DEF Init, SweepInv, NoEarlyExpiry, Caller
<1>3. WinnerInv BY DEF Init, WinnerInv, AnswerIsTruth, Caller, NoVerdict
<1> QED BY <1>1, <1>2, <1>3 DEF IInv

(* The types, action by action.                                            *)
LEMMA TypeStep == TypeOK /\ [Next]_vars => TypeOK'
<1> SUFFICES ASSUME TypeOK, [Next]_vars PROVE TypeOK'
  OBVIOUS
<1> USE ApprovalAssumption DEF TypeOK, Fault
<1>c. Operator \subseteq Caller /\ System \subseteq Caller BY DEF Caller
<1>1. ASSUME NEW d \in Decision, Record(d) PROVE TypeOK' BY <1>1 DEF Record
<1>2. ASSUME NEW d \in Decision, Timeout(d) PROVE TypeOK' BY <1>2 DEF Timeout
<1>3. ASSUME NEW o \in Operator, NEW d \in Decision, NEW wanted \in {"approved", "rejected"},
             Request(o, d, wanted)
      PROVE TypeOK'
  BY <1>3, <1>c DEF Request
<1>4. ASSUME NEW w \in System, SweepStart(w) PROVE TypeOK' BY <1>4, <1>c DEF SweepStart
<1>5. ASSUME NEW w \in System, GetPending(w) PROVE TypeOK' BY <1>5, <1>c DEF GetPending
<1>6. ASSUME NEW w \in System, SweepNext(w) PROVE TypeOK' BY <1>6, <1>c DEF SweepNext
<1>7. ASSUME NEW c \in Caller, GetDecision(c) PROVE TypeOK'
  BY <1>7 DEF GetDecision, Refused
<1>8. ASSUME NEW c \in Caller, target[c] \in Decision
      PROVE  [verdict EXCEPT ![target[c]] = [outcome |-> outcome[c], by |-> c]]
             \in [Decision -> VerdictSet]
  <2>1. [outcome |-> outcome[c], by |-> c] \in VerdictSet BY DEF VerdictSet
  <2> QED BY <1>8, <2>1
<1>9. ASSUME NEW c \in Caller, UpdateDecision(c) PROVE TypeOK'
  <2>1. target[c] \in Decision BY <1>9 DEF UpdateDecision
  <2>2. verdict' \in [Decision -> VerdictSet] BY <1>8, <1>9, <2>1 DEF UpdateDecision
  <2>3. /\ pc' \in [Caller -> {"idle", "get", "update", "emit", "pending", "sweep",
                               "ok", "none", "error"}]
        /\ \A b \in Caller : b # c => pc'[b] = pc[b]
    BY <1>9 DEF UpdateDecision, AfterUpdate, Refused
  <2> QED BY <1>9, <2>1, <2>2, <2>3 DEF UpdateDecision
<1>10. ASSUME NEW c \in Caller, UpdateError(c) PROVE TypeOK'
  <2>1. target[c] \in Decision BY <1>10 DEF UpdateError
  <2>2. verdict' \in [Decision -> VerdictSet] BY <1>8, <1>10, <2>1 DEF UpdateError
  <2>3. faults' \in 0..MaxFaults BY <1>10 DEF UpdateError
  <2> QED BY <1>10, <2>1, <2>2, <2>3 DEF UpdateError, Raised
<1>11. ASSUME NEW c \in Caller, ReadError(c) PROVE TypeOK' BY <1>11 DEF ReadError, Raised
<1>12. ASSUME NEW c \in Caller, Crash(c) PROVE TypeOK' BY <1>12 DEF Crash, Raised
<1>13. ASSUME NEW o \in Operator, Emit(o) PROVE TypeOK'
  BY <1>13, <1>c DEF Emit, Killable
<1>14. CASE UNCHANGED vars BY <1>14 DEF vars
<1> QED
  BY <1>1, <1>2, <1>3, <1>4, <1>5, <1>6, <1>7, <1>9, <1>10, <1>11, <1>12, <1>13, <1>14
  DEF Next, _update_decision

(* What the UPDATE of caller c does when it takes effect.                  *)
Wins(c) ==
    /\ pc[c] = "update" /\ verdict[target[c]] = NoVerdict
    /\ verdict' = [verdict EXCEPT ![target[c]] = [outcome |-> outcome[c], by |-> c]]

(* Sweeps only reject expired decisions, action by action.                 *)
LEMMA SweepStep == TypeOK /\ SweepInv /\ [Next]_vars => SweepInv'
<1> SUFFICES ASSUME TypeOK, SweepInv, [Next]_vars PROVE SweepInv'
  OBVIOUS
<1> USE ApprovalAssumption DEF TypeOK, SweepInv
<1>c. Operator \subseteq Caller /\ System \subseteq Caller BY DEF Caller
<1>n. \A v \in {"approved", "rejected"}, c \in Caller : [outcome |-> v, by |-> c] # NoVerdict
  BY DEF NoVerdict
<1>1. ASSUME NEW d \in Decision, Record(d) PROVE SweepInv'
  BY <1>1 DEF Record, NoEarlyExpiry
<1>2. ASSUME NEW d \in Decision, Timeout(d) PROVE SweepInv'
  BY <1>2 DEF Timeout, NoEarlyExpiry
<1>3. ASSUME NEW o \in Operator, NEW d \in Decision, NEW wanted \in {"approved", "rejected"},
             Request(o, d, wanted)
      PROVE SweepInv'
  <2>1. \A w \in System : pc'[w] = pc[w] /\ target'[w] = target[w] /\ outcome'[w] = outcome[w]
    BY <1>3, <1>c DEF Request
  <2> QED BY <1>3, <2>1 DEF Request, NoEarlyExpiry
<1>4. ASSUME NEW w \in System, SweepStart(w) PROVE SweepInv'
  BY <1>4, <1>c DEF SweepStart, NoEarlyExpiry
<1>5. ASSUME NEW w \in System, GetPending(w) PROVE SweepInv'
  <2>1. todo'[w] \subseteq now[w] /\ \A x \in System : x # w => todo'[x] = todo[x]
    BY <1>5 DEF GetPending
  <2>2. \A x \in System : todo'[x] \subseteq expired BY <2>1
  <2> QED BY <1>5, <1>c, <2>2 DEF GetPending, NoEarlyExpiry
<1>6. ASSUME NEW w \in System, SweepNext(w) PROVE SweepInv'
  BY <1>6, <1>c DEF SweepNext, NoEarlyExpiry
<1>7. ASSUME NEW c \in Caller, GetDecision(c) PROVE SweepInv'
  <2>1. \A w \in System : pc'[w] \in {pc[w], "update", "sweep"}
                          /\ (pc'[w] = "update" => pc[w] \in {"get", "update"})
    BY <1>7, <1>c DEF GetDecision, Refused
  <2> QED BY <1>7, <2>1 DEF GetDecision, NoEarlyExpiry
<1>8. ASSUME NEW c \in Caller, Wins(c), UNCHANGED expired PROVE NoEarlyExpiry'
  <2>1. target[c] \in Decision BY <1>8 DEF Wins
  <2>2. ASSUME NEW d \in Decision, verdict'[d] # NoVerdict, verdict'[d].by \in System
        PROVE d \in expired
    <3>1. CASE d = target[c]
      <4>1. verdict'[d].by = c BY <1>8, <2>1, <3>1 DEF Wins
      <4> QED BY <4>1, <2>2, <1>8, <3>1 DEF Wins
    <3>2. CASE d # target[c]
      BY <1>8, <2>2, <3>2 DEF Wins, NoEarlyExpiry
    <3> QED BY <3>1, <3>2
  <2> QED BY <2>2, <1>8 DEF NoEarlyExpiry
<1>9. ASSUME NEW c \in Caller, UpdateDecision(c) PROVE SweepInv'
  <2>1. \A w \in System : pc'[w] \in {pc[w], "sweep"}
    BY <1>9, <1>c DEF UpdateDecision, AfterUpdate, Refused
  <2>2. NoEarlyExpiry'
    <3>1. CASE verdict' = verdict BY <1>9, <3>1 DEF UpdateDecision, NoEarlyExpiry
    <3>2. CASE Wins(c) BY <1>8, <1>9, <3>2 DEF UpdateDecision
    <3> QED BY <1>9, <3>1, <3>2 DEF UpdateDecision, RowFree, Wins
  <2> QED BY <1>9, <2>1, <2>2 DEF UpdateDecision
<1>10. ASSUME NEW c \in Caller, UpdateError(c) PROVE SweepInv'
  <2>1. \A w \in System : pc'[w] \in {pc[w], "idle"}
    BY <1>10, <1>c DEF UpdateError, Raised
  <2>2. NoEarlyExpiry'
    <3>1. CASE verdict' = verdict BY <1>10, <3>1 DEF UpdateError, NoEarlyExpiry
    <3>2. CASE Wins(c) BY <1>8, <1>10, <3>2 DEF UpdateError
    <3> QED BY <1>10, <3>1, <3>2 DEF UpdateError, RowFree, Wins
  <2> QED BY <1>10, <2>1, <2>2 DEF UpdateError
<1>11. ASSUME NEW c \in Caller, ReadError(c) PROVE SweepInv'
  BY <1>11, <1>c DEF ReadError, Raised, NoEarlyExpiry
<1>12. ASSUME NEW c \in Caller, Crash(c) PROVE SweepInv'
  BY <1>12, <1>c DEF Crash, Raised, NoEarlyExpiry
<1>13. ASSUME NEW o \in Operator, Emit(o) PROVE SweepInv'
  <2>1. \A w \in System : pc'[w] = pc[w] BY <1>13, <1>c DEF Emit
  <2> QED BY <1>13, <2>1 DEF Emit, NoEarlyExpiry
<1>14. CASE UNCHANGED vars BY <1>14 DEF vars, NoEarlyExpiry
<1> QED
  BY <1>1, <1>2, <1>3, <1>4, <1>5, <1>6, <1>7, <1>9, <1>10, <1>11, <1>12, <1>13, <1>14
  DEF Next, _update_decision

(* A step that changes neither the verdicts nor the kills, and lets nobody *)
(* into the part behind the UPDATE or out of it other than by an error.    *)
LEMMA WinnerFrame ==
  ASSUME TypeOK, WinnerInv, UNCHANGED <<verdict, killed, killedTwice>>,
         \A o \in Operator : pc'[o] \in {"emit", "ok"} =>
             pc'[o] = pc[o] /\ target'[o] = target[o] /\ outcome'[o] = outcome[o],
         \A o \in Operator : pc[o] = "ok" => pc'[o] = "ok"
  PROVE  WinnerInv'
<1>1. AnswerIsTruth' BY DEF WinnerInv, AnswerIsTruth
<1>2. \A d \in killed : verdict[d].by \in Operator BY DEF WinnerInv, TypeOK
<1> QED BY <1>1, <1>2 DEF WinnerInv

(* The UPDATE that takes effect: the row was free, so nobody else had won  *)
(* it and no kill had been sent for it.                                    *)
LEMMA WinnerWins ==
  ASSUME TypeOK, SweepInv, WinnerInv, NEW c \in Caller, Wins(c),
         UNCHANGED <<target, outcome, killed, killedTwice>>,
         \A b \in Caller : b # c => pc'[b] = pc[b],
         c \in Operator /\ pc'[c] = "emit" => outcome[c] = "approved"
  PROVE  WinnerInv'
<1> DEFINE d == target[c]
<1>1. d \in Decision BY DEF Wins, TypeOK
<1>2. verdict'[d] = [outcome |-> outcome[c], by |-> c] /\ \A e \in Decision : e # d => verdict'[e] = verdict[e]
  BY <1>1 DEF Wins, TypeOK
<1>3. d \notin killed
  BY DEF WinnerInv, Wins, NoVerdict
<1>5. Operator \subseteq Caller BY DEF Caller
<1>4. \A o \in Operator : pc[o] \in {"emit", "ok"} => target[o] # d
  <2>1. ASSUME NEW o \in Operator, pc[o] \in {"emit", "ok"} PROVE target[o] # d
    <3>0. verdict[target[o]] = [outcome |-> outcome[o], by |-> o]
      BY <2>1, Zenon DEF WinnerInv, AnswerIsTruth
    <3>1. verdict[target[o]].outcome = outcome[o] BY <3>0
    <3>2. outcome[o] # "none" BY <1>5 DEF TypeOK
    <3>3. verdict[d].outcome = "none" BY DEF Wins, NoVerdict
    <3> QED BY <3>1, <3>2, <3>3
  <2> QED BY <2>1
<1>6. AnswerIsTruth'
  <2>1. ASSUME NEW o \in Operator, pc'[o] \in {"emit", "ok"}
        PROVE verdict'[target[o]] = [outcome |-> outcome[o], by |-> o]
    <3>1. CASE o = c BY <3>1, <1>2
    <3>2. CASE o # c
      <4>1. pc[o] \in {"emit", "ok"} /\ target[o] \in Decision /\ target[o] # d
        BY <1>4, <1>5, <2>1, <3>2 DEF TypeOK
      <4> QED BY <4>1, <1>2 DEF WinnerInv, AnswerIsTruth
    <3> QED BY <3>1, <3>2
  <2> QED BY <2>1 DEF AnswerIsTruth
<1>7. (\A e \in Decision : verdict[e].outcome = "approved" => verdict[e].by \in Operator)'
  <2>1. ASSUME NEW e \in Decision, verdict'[e].outcome = "approved" PROVE verdict'[e].by \in Operator
    <3>1. CASE e = d
      <4>1. outcome[c] = "approved" BY <2>1, <3>1, <1>2
      <4>2. c \in Operator BY <4>1 DEF SweepInv, Caller
      <4> QED BY <4>2, <3>1, <1>2
    <3>2. CASE e # d BY <2>1, <3>2, <1>2 DEF WinnerInv
    <3> QED BY <3>1, <3>2
  <2> QED BY <2>1
<1>8. (\A e \in killed : verdict[e].outcome = "approved" /\ pc[verdict[e].by] = "ok")'
  <2>1. ASSUME NEW e \in killed PROVE verdict'[e].outcome = "approved" /\ pc'[verdict'[e].by] = "ok"
    <3>1. e \in Decision /\ e # d BY <1>3 DEF TypeOK
    <3>2. verdict[e].outcome = "approved" /\ verdict[e].by \in Operator /\ pc[verdict[e].by] = "ok"
      BY <3>1 DEF WinnerInv
    <3>3. verdict[e].by # c BY <3>2 DEF Wins
    <3> QED BY <3>1, <3>2, <3>3, <1>2, <1>5
  <2> QED BY <2>1
<1>9. \A o \in Operator : pc'[o] = "emit" => outcome[o] = "approved"
  BY <1>5 DEF WinnerInv
<1> QED BY <1>6, <1>7, <1>8, <1>9 DEF WinnerInv

(* Winners and kills, action by action.                                    *)
LEMMA WinnerStep == IInv /\ [Next]_vars => WinnerInv'
<1> SUFFICES ASSUME IInv, [Next]_vars PROVE WinnerInv'
  OBVIOUS
<1> USE ApprovalAssumption DEF IInv, Fault
<1>c. Operator \subseteq Caller /\ System \subseteq Caller /\ Operator \cap System = {} BY DEF Caller
<1>1. ASSUME NEW d \in Decision, Record(d) PROVE WinnerInv' BY <1>1, WinnerFrame DEF Record
<1>2. ASSUME NEW d \in Decision, Timeout(d) PROVE WinnerInv' BY <1>2, WinnerFrame DEF Timeout
<1>3. ASSUME NEW o \in Operator, NEW d \in Decision, NEW wanted \in {"approved", "rejected"},
             Request(o, d, wanted)
      PROVE WinnerInv'
  BY <1>3, <1>c, WinnerFrame DEF Request, TypeOK
<1>4. ASSUME NEW w \in System, SweepStart(w) PROVE WinnerInv'
  BY <1>4, <1>c, WinnerFrame DEF SweepStart, TypeOK
<1>5. ASSUME NEW w \in System, GetPending(w) PROVE WinnerInv'
  BY <1>5, <1>c, WinnerFrame DEF GetPending, TypeOK
<1>6. ASSUME NEW w \in System, SweepNext(w) PROVE WinnerInv'
  <2>1. \A o \in Operator : pc'[o] = pc[o] /\ target'[o] = target[o] /\ outcome'[o] = outcome[o]
    BY <1>6, <1>c DEF SweepNext, TypeOK
  <2> QED BY <1>6, <2>1, WinnerFrame DEF SweepNext
<1>7. ASSUME NEW c \in Caller, GetDecision(c) PROVE WinnerInv'
  BY <1>7, <1>c, WinnerFrame DEF GetDecision, Refused, TypeOK
<1>8. ASSUME NEW c \in Caller, UpdateDecision(c) PROVE WinnerInv'
  <2>1. CASE RowFree(target[c])
    <3>1. Wins(c) BY <1>8, <2>1 DEF UpdateDecision, RowFree, Wins
    <3>2. \A b \in Caller : b # c => pc'[b] = pc[b] BY <1>8 DEF UpdateDecision, TypeOK
    <3>3. c \in Operator /\ pc'[c] = "emit" => outcome[c] = "approved"
      BY <1>8, <2>1, <1>c DEF UpdateDecision, AfterUpdate, Refused, TypeOK
    <3> QED BY <1>8, <3>1, <3>2, <3>3, WinnerWins DEF UpdateDecision
  <2>2. CASE ~RowFree(target[c])
    <3>1. \A o \in Operator : pc'[o] = pc[o] \/ (pc[o] = "update" /\ pc'[o] = "none")
      BY <1>8, <2>2, <1>c DEF UpdateDecision, AfterUpdate, Refused, TypeOK
    <3> QED BY <1>8, <2>2, <3>1, WinnerFrame DEF UpdateDecision
  <2> QED BY <2>1, <2>2
<1>9. ASSUME NEW c \in Caller, UpdateError(c) PROVE WinnerInv'
  <2>0. /\ pc[c] = "update" /\ pc' = [pc EXCEPT ![c] = Raised(c)]
        /\ Raised(c) \notin {"emit", "ok"} /\ UNCHANGED <<target, outcome, killed, killedTwice>>
    BY <1>9 DEF UpdateError, Raised
  <2>1. CASE verdict' = verdict BY <2>0, <2>1, <1>c, WinnerFrame DEF TypeOK
  <2>2. CASE Wins(c) BY <2>0, <2>2, <1>c, WinnerWins DEF TypeOK
  <2> QED BY <1>9, <2>1, <2>2 DEF UpdateError, RowFree, Wins
<1>10. ASSUME NEW c \in Caller, ReadError(c) PROVE WinnerInv'
  BY <1>10, <1>c, WinnerFrame DEF ReadError, Raised, TypeOK
<1>11. ASSUME NEW c \in Caller, Crash(c) PROVE WinnerInv'
  BY <1>11, <1>c, WinnerFrame DEF Crash, Raised, TypeOK
<1>12. ASSUME NEW o \in Operator, Emit(o) PROVE WinnerInv'
  <2> DEFINE d == target[o]
  <2>1. /\ d \in Decision /\ pc[o] = "emit" /\ UNCHANGED <<verdict, target, outcome>>
        /\ verdict[d] = [outcome |-> "approved", by |-> o]
    BY <1>12, <1>c DEF Emit, TypeOK, WinnerInv, AnswerIsTruth
  <2>2. pc'[o] = "ok" /\ \A b \in Caller : b # o => pc'[b] = pc[b]
    BY <1>12, <1>c DEF Emit, TypeOK
  <2>3. d \notin killed BY <2>1 DEF WinnerInv
  <2>4. killedTwice' = {} /\ killed' \in {killed, killed \cup {d}}
        /\ (killed' # killed => d \in NeedsHuman)
    BY <1>12, <2>3 DEF Emit, Killable, WinnerInv
  <2>5. AnswerIsTruth' BY <2>1, <2>2, <1>c DEF WinnerInv, AnswerIsTruth
  <2>6. \A e \in killed' : verdict[e].outcome = "approved" /\ pc'[verdict[e].by] = "ok"
    <3>1. ASSUME NEW e \in killed PROVE verdict[e].outcome = "approved" /\ pc'[verdict[e].by] = "ok"
      <4>1. e \in Decision /\ verdict[e].by \in Operator /\ pc[verdict[e].by] = "ok"
            /\ verdict[e].outcome = "approved"
        BY DEF WinnerInv, TypeOK
      <4> QED BY <4>1, <2>2, <1>c
    <3>2. verdict[d].outcome = "approved" /\ pc'[verdict[d].by] = "ok" BY <2>1, <2>2
    <3> QED BY <2>4, <3>1, <3>2
  <2>7. \A b \in Operator : pc'[b] = "emit" => outcome[b] = "approved"
    BY <2>2, <1>c DEF WinnerInv
  <2>8. killed' \subseteq NeedsHuman BY <2>4 DEF WinnerInv
  <2> QED BY <2>1, <2>4, <2>5, <2>6, <2>7, <2>8 DEF WinnerInv
<1>13. CASE UNCHANGED vars BY <1>13, WinnerFrame DEF vars
<1> QED
  BY <1>1, <1>2, <1>3, <1>4, <1>5, <1>6, <1>7, <1>8, <1>9, <1>10, <1>11, <1>12, <1>13
  DEF Next, _update_decision

-----------------------------------------------------------------------------
(* The inductive invariant.                                                *)
THEOREM Invariance == Spec => []IInv
<1>1. IInv /\ [Next]_vars => IInv'
  BY TypeStep, SweepStep, WinnerStep DEF IInv
<1> QED BY InitIInv, <1>1, PTL DEF Spec

(* Every variable of the approval queue keeps its type.                    *)
THEOREM TypeCorrect == Spec => []TypeOK
<1>1. IInv => TypeOK BY DEF IInv
<1> QED BY Invariance, <1>1, PTL

(* An operator is told "decided" only if the row names that operator and   *)
(* that outcome, however many requests and sweeps race.                    *)
THEOREM AnswersAreTrue == Spec => []AnswerIsTruth
<1>1. IInv => AnswerIsTruth BY DEF IInv, WinnerInv
<1> QED BY Invariance, <1>1, PTL

(* KILL_PROCESS goes out at most once per decision and only after an       *)
(* operator's approval.                                                    *)
THEOREM KillsAreApproved == Spec => []KillOnlyApproved
<1>1. IInv => KillOnlyApproved BY DEF IInv, WinnerInv, KillOnlyApproved, TypeOK
<1> QED BY Invariance, <1>1, PTL

(* No decision is auto-rejected before its timeout.                        *)
THEOREM ExpiryIsLate == Spec => []NoEarlyExpiry
<1>1. IInv => NoEarlyExpiry BY DEF IInv, SweepInv
<1> QED BY Invariance, <1>1, PTL

(* The UPDATE that takes effect is a Decide step of Verdict.               *)
LEMMA WinsRefines ==
  ASSUME IInv, NEW c \in Caller, Wins(c), UNCHANGED killed
  PROVE  V!Next
<1>1. target[c] \in Decision BY DEF IInv, TypeOK, Wins
<1>2. [outcome |-> outcome[c], by |-> c] \in V!VerdictSet
  <2>1. CASE c \in System BY <2>1 DEF IInv, SweepInv, V!VerdictSet
  <2>2. CASE c \in Operator
    <3>1. outcome[c] \in {"approved", "rejected"} BY DEF IInv, TypeOK
    <3> QED BY <2>2, <3>1 DEF V!VerdictSet
  <2> QED BY <2>1, <2>2 DEF Caller
<1>3. V!Decide(target[c])
  BY <1>2 DEF Wins, V!Decide, V!NoVerdict, NoVerdict
<1> QED BY <1>1, <1>3 DEF V!Next

(* Publishing a kill is a Kill step of Verdict: the emitter holds the      *)
(* approval and nobody has sent the kill before.                           *)
LEMMA EmitRefines ==
  ASSUME IInv, NEW o \in Operator, Emit(o)
  PROVE  V!Next \/ UNCHANGED <<verdict, killed>>
<1> DEFINE d == target[o]
<1>1. /\ d \in Decision /\ UNCHANGED verdict /\ pc[o] = "emit"
      /\ verdict[d] = [outcome |-> "approved", by |-> o]
  BY DEF IInv, Emit, TypeOK, WinnerInv, AnswerIsTruth, Caller
<1>2. d \notin killed BY <1>1 DEF IInv, WinnerInv
<1>3. CASE killed' = killed BY <1>1, <1>3
<1>4. CASE killed' = killed \cup {d} /\ Killable(d)
  BY <1>1, <1>2, <1>4 DEF V!Next, V!Kill, Killable
<1> QED BY <1>3, <1>4 DEF Emit

(* The approval queue implements Verdict: every step decides one undecided *)
(* row, sends one approved kill, or changes neither.                       *)
THEOREM Refinement == Spec => ImplementsVerdict
<1>1. Init => V!Init BY DEF Init, V!Init, V!NoVerdict, NoVerdict
<1>2. IInv /\ [Next]_vars => [V!Next]_<<verdict, killed>>
  <2> SUFFICES ASSUME IInv, [Next]_vars PROVE V!Next \/ UNCHANGED <<verdict, killed>>
    OBVIOUS
  <2>1. ASSUME NEW c \in Caller, UpdateDecision(c)
        PROVE V!Next \/ UNCHANGED <<verdict, killed>>
    BY <2>1, WinsRefines DEF UpdateDecision, RowFree, Wins
  <2>2. ASSUME NEW c \in Caller, UpdateError(c)
        PROVE V!Next \/ UNCHANGED <<verdict, killed>>
    BY <2>2, WinsRefines DEF UpdateError, RowFree, Wins
  <2>3. ASSUME NEW o \in Operator, Emit(o) PROVE V!Next \/ UNCHANGED <<verdict, killed>>
    BY <2>3, EmitRefines
  <2> QED
    BY <2>1, <2>2, <2>3
    DEF Next, vars, _update_decision, Record, Timeout, Request, SweepStart, GetPending,
        SweepNext, GetDecision, ReadError, Crash
<1> QED BY Invariance, <1>1, <1>2, PTL DEF Spec, V!Spec, ImplementsVerdict
=============================================================================
