--------------------------- MODULE EventStoreProofs ---------------------------
(***************************************************************************)
(* From a batch to the events table, for any number of agents, batches,    *)
(* events, retries and faults, and for every size of read and batch; then, *)
(* from RowType on, the rules those events are matched against.            *)
(***************************************************************************)
EXTENDS EventStore, Rules, FiniteSetTheorems, SequenceTheorems, TLAPS

-----------------------------------------------------------------------------
(* Types: what travels is an event the validator and the conversion let    *)
(* through.                                                                *)

Event == (UNION {ToSet(b) : b \in Batches}) \ (Incomplete \cup Malformed \cup Health)

BusType ==
    /\ jobs \in Seq(Seq(Event)) /\ stream \in Seq(Event)
    /\ cursor \in [Groups -> Nat] /\ inbox \in [Groups -> Seq(Nat)]
WriterType ==
    /\ batch \in Seq(Event) /\ flight \in [Flushers -> Seq(Event)]
    /\ dropping \subseteq Flushers
    /\ table \subseteq Event /\ dead \subseteq Event /\ accepted \subseteq Event
TypeOK == BusType /\ WriterType

-----------------------------------------------------------------------------
(* The inductive invariants.                                               *)

(* The entries a worker has not been given yet are the last ones its group *)
(* has read, in the order of the stream.                                   *)
InboxInv ==
    \A g \in Groups :
        /\ cursor[g] <= Len(stream) /\ Len(inbox[g]) <= cursor[g]
        /\ \A k \in DOMAIN inbox[g] : inbox[g][k] = cursor[g] - Len(inbox[g]) + k

(* What is anywhere on the way was let through.                            *)
Published == {stream[i] : i \in DOMAIN stream}
OriginInv ==
    /\ Scheduled \cup Published \cup ToSet(batch) \cup InFlight \subseteq accepted
    /\ table \cup dead \subseteq accepted

(* What was let through is on its way or was lost, before the stream and   *)
(* behind it.                                                              *)
SentInv  == accepted \subseteq Scheduled \cup Published \cup lost
GivenInv ==
    \A i \in Given :
        \/ stream[i] \in table \cup ToSet(batch) \cup InFlight \cup dead
        \/ stream[i] \in lost \/ i \in lost

IInv == TypeOK /\ InboxInv /\ OriginInv /\ SentInv /\ GivenInv

-----------------------------------------------------------------------------
(* The operators.                                                          *)

LEMMA AppendFacts ==
    ASSUME NEW S, NEW s \in Seq(S), NEW e \in S
    PROVE  Append(s, e) \in Seq(S) /\ ToSet(Append(s, e)) = ToSet(s) \cup {e}
  <1>1. /\ Append(s, e) \in Seq(S) /\ DOMAIN Append(s, e) = DOMAIN s \cup {Len(s) + 1}
        /\ \A i \in DOMAIN s : Append(s, e)[i] = s[i]
        /\ Append(s, e)[Len(s) + 1] = e
    OBVIOUS
  <1> QED BY <1>1 DEF ToSet

LEMMA ConcatFacts ==
    ASSUME NEW S, NEW s \in Seq(S), NEW t \in Seq(S)
    PROVE  s \o t \in Seq(S) /\ ToSet(s \o t) = ToSet(s) \cup ToSet(t)
  <1>0. Len(s) \in Nat /\ Len(t) \in Nat /\ DOMAIN s = 1 .. Len(s) /\ DOMAIN t = 1 .. Len(t)
    OBVIOUS
  <1>1. /\ s \o t \in Seq(S) /\ DOMAIN (s \o t) = 1 .. Len(s) + Len(t)
        /\ \A i \in 1 .. Len(s) : (s \o t)[i] = s[i]
        /\ \A i \in 1 .. Len(t) : (s \o t)[Len(s) + i] = t[i]
    OBVIOUS
  <1>2. ASSUME NEW i \in DOMAIN (s \o t) PROVE (s \o t)[i] \in ToSet(s) \cup ToSet(t)
    <2>1. CASE i \in 1 .. Len(s)
      BY <1>0, <1>1, <2>1 DEF ToSet
    <2>2. CASE i \in Len(s) + 1 .. Len(s) + Len(t)
      <3>1. i - Len(s) \in 1 .. Len(t) /\ i = Len(s) + (i - Len(s))
        BY <1>0, <2>2
      <3> QED BY <1>0, <1>1, <3>1 DEF ToSet
    <2> QED BY <1>0, <1>1, <2>1, <2>2
  <1>3. ASSUME NEW i \in DOMAIN s PROVE s[i] \in ToSet(s \o t)
    <2>1. i \in DOMAIN (s \o t) /\ (s \o t)[i] = s[i]
      BY <1>0, <1>1
    <2> QED BY <2>1 DEF ToSet
  <1>4. ASSUME NEW i \in DOMAIN t PROVE t[i] \in ToSet(s \o t)
    <2>1. Len(s) + i \in DOMAIN (s \o t) /\ (s \o t)[Len(s) + i] = t[i]
      BY <1>0, <1>1
    <2> QED BY <2>1 DEF ToSet
  <1> QED BY <1>1, <1>2, <1>3, <1>4 DEF ToSet

\* The two parts of a sequence cut after its n-th element.
LEMMA CutFacts ==
    ASSUME NEW S, NEW s \in Seq(S), NEW n \in 0 .. Len(s)
    PROVE  /\ SubSeq(s, 1, n) \in Seq(S) /\ Len(SubSeq(s, 1, n)) = n
           /\ DOMAIN SubSeq(s, 1, n) = 1 .. n
           /\ \A i \in 1 .. n : SubSeq(s, 1, n)[i] = s[i]
           /\ SubSeq(s, n + 1, Len(s)) \in Seq(S) /\ Len(SubSeq(s, n + 1, Len(s))) = Len(s) - n
           /\ DOMAIN SubSeq(s, n + 1, Len(s)) = 1 .. Len(s) - n
           /\ \A i \in 1 .. Len(s) - n : SubSeq(s, n + 1, Len(s))[i] = s[n + i]
  <1>0. Len(s) \in Nat /\ n \in Nat
    OBVIOUS
  <1>1. /\ SubSeq(s, 1, n) \in Seq(S) /\ Len(SubSeq(s, 1, n)) = n
        /\ DOMAIN SubSeq(s, 1, n) = 1 .. n
        /\ \A i \in 1 .. n : SubSeq(s, 1, n)[i] = s[i]
    OBVIOUS
  <1>2. /\ SubSeq(s, n + 1, Len(s)) \in Seq(S) /\ Len(SubSeq(s, n + 1, Len(s))) = Len(s) - n
        /\ DOMAIN SubSeq(s, n + 1, Len(s)) = 1 .. Len(s) - n
    BY <1>0
  <1>3. \A i \in 1 .. Len(s) - n : SubSeq(s, n + 1, Len(s))[i] = s[n + i]
    BY <1>0
  <1> QED BY <1>1, <1>2, <1>3

LEMMA SplitFacts ==
    ASSUME NEW S, NEW s \in Seq(S), NEW n \in 0 .. Len(s)
    PROVE  /\ SubSeq(s, 1, n) \in Seq(S) /\ SubSeq(s, n + 1, Len(s)) \in Seq(S)
           /\ ToSet(SubSeq(s, 1, n)) \cup ToSet(SubSeq(s, n + 1, Len(s))) = ToSet(s)
  <1>0. Len(s) \in Nat /\ DOMAIN s = 1 .. Len(s) /\ n \in Nat
    OBVIOUS
  <1>1. /\ SubSeq(s, 1, n) \in Seq(S) /\ DOMAIN SubSeq(s, 1, n) = 1 .. n
        /\ \A i \in 1 .. n : SubSeq(s, 1, n)[i] = s[i]
    BY CutFacts
  <1>2. /\ SubSeq(s, n + 1, Len(s)) \in Seq(S) /\ DOMAIN SubSeq(s, n + 1, Len(s)) = 1 .. Len(s) - n
        /\ \A i \in 1 .. Len(s) - n : SubSeq(s, n + 1, Len(s))[i] = s[n + i]
    BY CutFacts
  <1>3. ASSUME NEW i \in DOMAIN s PROVE s[i] \in ToSet(SubSeq(s, 1, n)) \cup ToSet(SubSeq(s, n + 1, Len(s)))
    <2>1. CASE i \in 1 .. n
      BY <1>1, <2>1 DEF ToSet
    <2>2. CASE i \in n + 1 .. Len(s)
      <3>1. i - n \in 1 .. Len(s) - n /\ i = n + (i - n)
        BY <1>0, <2>2
      <3> QED BY <1>2, <3>1 DEF ToSet
    <2> QED BY <1>0, <2>1, <2>2
  <1>4. ASSUME NEW i \in 1 .. n PROVE SubSeq(s, 1, n)[i] \in ToSet(s)
    BY <1>0, <1>1 DEF ToSet
  <1>5. ASSUME NEW i \in 1 .. Len(s) - n PROVE SubSeq(s, n + 1, Len(s))[i] \in ToSet(s)
    <2>1. n + i \in DOMAIN s
      BY <1>0
    <2> QED BY <1>2, <2>1 DEF ToSet
  <1>6. ToSet(s) \subseteq ToSet(SubSeq(s, 1, n)) \cup ToSet(SubSeq(s, n + 1, Len(s)))
    BY <1>3 DEF ToSet
  <1>7. ToSet(SubSeq(s, 1, n)) \subseteq ToSet(s)
    BY <1>1, <1>4 DEF ToSet
  <1>8. ToSet(SubSeq(s, n + 1, Len(s))) \subseteq ToSet(s)
    BY <1>2, <1>5 DEF ToSet
  <1>9. SubSeq(s, 1, n) \in Seq(S) /\ SubSeq(s, n + 1, Len(s)) \in Seq(S)
    BY <1>1, <1>2
  <1> QED BY ONLY <1>6, <1>7, <1>8, <1>9

\* Of the jobs of the event loop one is taken away, whichever it is.
LEMMA RemoveFacts ==
    ASSUME NEW S, NEW s \in Seq(S), NEW k \in 1 .. Len(s)
    PROVE  /\ RemoveAt(s, k) \in Seq(S)
           /\ \A i \in DOMAIN s : i # k => \E j \in DOMAIN RemoveAt(s, k) : RemoveAt(s, k)[j] = s[i]
           /\ \A j \in DOMAIN RemoveAt(s, k) : \E i \in DOMAIN s : RemoveAt(s, k)[j] = s[i]
  <1>0. Len(s) \in Nat /\ DOMAIN s = 1 .. Len(s) /\ k \in 1 .. Len(s)
    OBVIOUS
  <1>a. k - 1 \in 0 .. Len(s) /\ k \in 0 .. Len(s) /\ k \in Nat
    BY <1>0
  <1>f. PICK n \in 0 .. Len(s) : n = k - 1
    BY <1>a
  <1>g. /\ SubSeq(s, 1, n) \in Seq(S) /\ Len(SubSeq(s, 1, n)) = n
        /\ \A i \in 1 .. n : SubSeq(s, 1, n)[i] = s[i]
    BY CutFacts
  <1>1. PICK u \in Seq(S) : u = SubSeq(s, 1, k - 1) /\ Len(u) = k - 1 /\ \A i \in 1 .. k - 1 : u[i] = s[i]
    BY <1>f, <1>g
  <1>h. /\ SubSeq(s, k + 1, Len(s)) \in Seq(S) /\ Len(SubSeq(s, k + 1, Len(s))) = Len(s) - k
        /\ \A i \in 1 .. Len(s) - k : SubSeq(s, k + 1, Len(s))[i] = s[k + i]
    BY <1>a, CutFacts
  <1>2. PICK v \in Seq(S) : /\ v = SubSeq(s, k + 1, Len(s)) /\ Len(v) = Len(s) - k
                            /\ \A i \in 1 .. Len(s) - k : v[i] = s[k + i]
    BY <1>h
  <1>b. RemoveAt(s, k) = u \o v
    BY <1>1, <1>2 DEF RemoveAt
  <1>c. u \o v \in Seq(S) /\ Len(u \o v) = Len(u) + Len(v)
    BY ConcatProperties
  <1>d. \A i \in 1 .. Len(u) + Len(v) : (u \o v)[i] = IF i <= Len(u) THEN u[i] ELSE v[i - Len(u)]
    BY ConcatProperties
  <1>e. PICK r \in Seq(S) : r = u \o v
    BY <1>c
  <1>3. /\ DOMAIN r = 1 .. Len(s) - 1
        /\ \A i \in 1 .. k - 1 : r[i] = u[i]
        /\ \A i \in 1 .. Len(s) - k : r[k - 1 + i] = v[i]
    <2>1. PICK m \in Nat : m = Len(s)
      BY <1>0
    <2>2. Len(u) = k - 1 /\ Len(v) = m - k /\ k \in 1 .. m
      BY <1>0, <1>1, <1>2, <2>1
    <2>3. DOMAIN r = 1 .. m - 1
      <3>1. DOMAIN r = 1 .. Len(r) /\ Len(r) = Len(u) + Len(v)
        BY <1>c, <1>e
      <3>2. Len(u) + Len(v) = m - 1
        BY <2>2
      <3> QED BY <3>1, <3>2
    <2>4. \A i \in 1 .. m - 1 : r[i] = IF i <= k - 1 THEN u[i] ELSE v[i - (k - 1)]
      <3>1. 1 .. Len(u) + Len(v) = 1 .. m - 1 /\ Len(u) = k - 1
        BY ONLY <2>2
      <3> QED BY ONLY <1>d, <1>e, <3>1
    <2>5. \A i \in 1 .. m - k : k - 1 + i \in 1 .. m - 1 /\ (k - 1 + i) - (k - 1) = i /\ ~ (k - 1 + i <= k - 1)
      BY <2>2
    <2>6. \A i \in 1 .. k - 1 : i \in 1 .. m - 1 /\ i <= k - 1
      BY <2>2
    <2> QED BY <2>1, <2>3, <2>4, <2>5, <2>6
  <1>4. ASSUME NEW i \in 1 .. Len(s), i # k PROVE \E j \in DOMAIN r : r[j] = s[i]
    <2>1. CASE i \in 1 .. k - 1
      <3>1. i \in DOMAIN r /\ r[i] = s[i]
        BY <1>0, <1>1, <1>3, <2>1
      <3> QED BY <3>1
    <2>2. CASE i \in k + 1 .. Len(s)
      <3>a. i \in Int /\ k \in Int /\ 1 <= k /\ k + 1 <= i /\ i <= Len(s) /\ Len(s) \in Int
        BY <1>0, <2>2
      <3>b. i - 1 \in 1 .. Len(s) - 1
        BY <3>a
      <3>c. i - k \in 1 .. Len(s) - k /\ i = k + (i - k) /\ i - 1 = k - 1 + (i - k)
        BY <3>a
      <3>1. i - k \in 1 .. Len(s) - k /\ i - 1 \in DOMAIN r /\ i = k + (i - k) /\ i - 1 = k - 1 + (i - k)
        BY <1>3, <3>b, <3>c
      <3>2. r[i - 1] = s[i]
        <4>1. r[k - 1 + (i - k)] = v[i - k] /\ v[i - k] = s[k + (i - k)]
          BY ONLY <1>2, <1>3, <3>1
        <4> QED BY ONLY <3>1, <4>1
      <3> QED BY <3>1, <3>2
    <2> QED BY <1>0, <1>4, <2>1, <2>2
  <1>5. ASSUME NEW j \in DOMAIN r PROVE \E i \in DOMAIN s : r[j] = s[i]
    <2>1. CASE j \in 1 .. k - 1
      BY <1>0, <1>1, <1>3, <2>1
    <2>2. CASE j \in k .. Len(s) - 1
      <3>1. j - (k - 1) \in 1 .. Len(s) - k /\ j = k - 1 + (j - (k - 1)) /\ k + (j - (k - 1)) \in DOMAIN s
        BY <1>0, <2>2
      <3>2. r[j] = s[k + (j - (k - 1))]
        BY <1>2, <1>3, <3>1
      <3> QED BY <3>1, <3>2
    <2>3. j \in 1 .. Len(s) - 1
      BY <1>3
    <2> QED BY <1>0, <2>1, <2>2, <2>3
  <1>6. \A i \in DOMAIN s : i # k => \E j \in DOMAIN r : r[j] = s[i]
    BY <1>0, <1>4
  <1>7. \A j \in DOMAIN r : \E i \in DOMAIN s : r[j] = s[i]
    BY <1>5
  <1>8. RemoveAt(s, k) = r
    BY <1>b, <1>e
  <1> QED BY ONLY <1>6, <1>7, <1>8, r \in Seq(S)

\* In a finite set of indices there is one for every rank.
LEMMA RankFacts ==
    ASSUME NEW S \in SUBSET Nat, IsFiniteSet(S), NEW k \in 1 .. Cardinality(S)
    PROVE  \E i \in S : Cardinality({j \in S : j <= i}) = k
  <1> DEFINE Up(i) == {j \in S : j <= i}
             n == Cardinality(S)
  <1>1. \A i \in S : Up(i) \subseteq S /\ i \in Up(i)
    OBVIOUS
  <1>2. ASSUME NEW i \in S, NEW j \in S, i < j PROVE Up(i) \subseteq Up(j) /\ j \notin Up(i)
    <2>1. \A e \in S : e <= i => e <= j
      BY <1>2
    <2>2. ~ (j <= i)
      BY <1>2
    <2> QED BY <2>1, <2>2
  <1> HIDE DEF Up
  <1>3. n \in Nat /\ \A i \in S : IsFiniteSet(Up(i)) /\ Cardinality(Up(i)) \in Nat /\ Cardinality(Up(i)) <= n
    BY <1>1, FS_Subset, FS_CardinalityType
  <1>4. \A i \in S : Cardinality(Up(i)) # 0
    BY <1>1, <1>3, FS_EmptySet
  <1>5. \A i, j \in S : i < j => Cardinality(Up(i)) # Cardinality(Up(j))
    <2>1. ASSUME NEW i \in S, NEW j \in S, i < j PROVE Cardinality(Up(i)) # Cardinality(Up(j))
      <3>1. Up(i) \in SUBSET Up(j) /\ Up(i) # Up(j)
        BY <1>1, <1>2, <2>1
      <3> QED BY <1>3, <3>1, FS_Subset
    <2> QED BY <2>1
  <1>6. PICK f : f = [i \in S |-> Cardinality(Up(i))]
    OBVIOUS
  <1>7. f \in [S -> 1 .. n]
    BY <1>3, <1>4, <1>6
  <1>8. \A i, j \in S : f[i] = f[j] => i = j
    BY <1>5, <1>6
  <1>9. f \in Injection(S, 1 .. n)
    BY <1>7, <1>8 DEF Injection, IsInjective
  <1>10. IsFiniteSet(1 .. n) /\ Cardinality(1 .. n) = n
    BY <1>3, FS_Interval
  <1>11. f \in Surjection(S, 1 .. n)
    BY <1>9, <1>10, FS_Injection
  <1>12. \E i \in S : f[i] = k
    BY <1>11 DEF Surjection
  <1> QED BY <1>6, <1>12 DEF Up

\* The payloads of a batch are events that were let through.
LEMMA PayloadFacts ==
    ASSUME NEW cn \in Agents, NEW b \in Batches
    PROVE  Payloads(cn, b) \in Seq(Event)
  <1>1. b \in Seq(ToSet(b))
    BY IngestAssumption
  <1>2. DOMAIN b = 1 .. Len(b) /\ Len(b) \in Nat
    BY <1>1
  <1> DEFINE I == Converted(cn, b)
  <1>3. I \subseteq DOMAIN b
    BY DEF Converted, Kept
  <1>4. ASSUME NEW i \in I PROVE b[i] \in Event
    <2>1. i \in DOMAIN b \ RejectedIndices(cn, b) /\ b[i] \notin Health /\ b[i] \notin Malformed
      BY DEF Converted, Kept, Parses
    <2>2. b[i] \notin Incomplete
      BY <2>1 DEF RejectedIndices
    <2>3. b[i] \in ToSet(b)
      BY <2>1 DEF ToSet
    <2>4. b[i] \in UNION {ToSet(c) : c \in Batches}
      BY <2>3
    <2> QED BY <2>1, <2>2, <2>4 DEF Event
  <1> HIDE DEF I
  <1>5. I \in SUBSET Nat /\ IsFiniteSet(I) /\ Cardinality(I) \in Nat
    <2>1. IsFiniteSet(1 .. Len(b))
      BY <1>2, FS_Interval
    <2> QED BY <1>2, <1>3, <2>1, FS_Subset, FS_CardinalityType
  <1> DEFINE Nth(k) == CHOOSE i \in I : Cardinality({j \in I : j <= i}) = k
  <1>6. ASSUME NEW k \in 1 .. Cardinality(I) PROVE Nth(k) \in I
    <2>1. \E i \in I : Cardinality({j \in I : j <= i}) = k
      BY <1>5, RankFacts
    <2> QED BY <2>1
  <1>7. Payloads(cn, b) = [k \in 1 .. Cardinality(I) |-> b[Nth(k)]]
    BY DEF Payloads, I
  <1> HIDE DEF Nth
  <1>8. \A k \in 1 .. Cardinality(I) : b[Nth(k)] \in Event
    BY <1>4, <1>6
  <1> QED BY <1>5, <1>7, <1>8

\* A flusher is handed t.
LEMMA FlightFacts ==
    ASSUME WriterType, NEW f \in Flushers, NEW t, flight' = [flight EXCEPT ![f] = t]
    PROVE  /\ InFlight' \subseteq InFlight \cup ToSet(t)
           /\ InFlight \subseteq InFlight' \cup ToSet(flight[f])
           /\ ToSet(t) \subseteq InFlight'
           /\ ToSet(flight[f]) \subseteq InFlight
  <1>1. \A g \in Flushers : flight'[g] = IF g = f THEN t ELSE flight[g]
    BY DEF WriterType
  <1> QED BY <1>1 DEF InFlight

-----------------------------------------------------------------------------
(* What the steps do.                                                      *)

\* The publishing side: jobs become entries of the stream, or are lost.
LEMMA ReceiveFacts ==
    ASSUME TypeOK, NEW cn \in Agents, NEW b \in Batches, Receive(cn, b)
    PROVE  /\ jobs' \in Seq(Seq(Event)) /\ accepted' \subseteq Event /\ accepted \subseteq accepted'
           /\ Scheduled' \subseteq Scheduled \cup accepted' /\ Scheduled \subseteq Scheduled'
           /\ accepted' \subseteq accepted \cup Scheduled'
  <1>0. jobs \in Seq(Seq(Event)) /\ accepted \subseteq Event
    BY DEF TypeOK, BusType, WriterType
  <1>1. PICK p \in Seq(Event) : p = Payloads(cn, b)
    BY PayloadFacts
  <1>2. CASE UNCHANGED <<jobs, accepted>>
    BY <1>0, <1>2 DEF Scheduled
  <1>3. ToSet(p) \subseteq Event /\ (p = <<>> => ToSet(p) = {})
    BY DEF ToSet
  <1>4. CASE UNCHANGED jobs /\ p = <<>> /\ accepted' = accepted \cup ToSet(p)
    BY <1>0, <1>3, <1>4 DEF Scheduled
  <1>5. CASE jobs' = Append(jobs, p) /\ accepted' = accepted \cup ToSet(p)
    <2>1. /\ jobs' \in Seq(Seq(Event)) /\ DOMAIN jobs' = DOMAIN jobs \cup {Len(jobs) + 1}
          /\ \A i \in DOMAIN jobs : jobs'[i] = jobs[i]
          /\ jobs'[Len(jobs) + 1] = p
      BY <1>0, <1>5
    <2>2. Scheduled' = Scheduled \cup ToSet(p)
      BY <2>1 DEF Scheduled
    <2> QED BY <1>0, <1>3, <1>5, <2>1, <2>2
  <1>6. \/ UNCHANGED <<jobs, accepted>>
        \/ /\ jobs' = IF p = <<>> THEN jobs ELSE Append(jobs, p)
           /\ accepted' = accepted \cup ToSet(p)
    BY <1>1 DEF Receive, IngestEvents, IngestBatch, IngestRaises, IngestAborted, ingestVars
  <1> QED BY <1>2, <1>4, <1>5, <1>6

\* The stream grows by t, which is part of a job that ends.
LEMMA PublishFacts ==
    ASSUME TypeOK, NEW k \in DOMAIN jobs, NEW t \in Seq(Event), ToSet(t) \subseteq ToSet(jobs[k]),
           stream' = stream \o t, jobs' = RemoveAt(jobs, k)
    PROVE  /\ jobs' \in Seq(Seq(Event)) /\ stream' \in Seq(Event)
           /\ Published' = Published \cup ToSet(t)
           /\ Scheduled \subseteq Scheduled' \cup ToSet(jobs[k]) /\ Scheduled' \subseteq Scheduled
           /\ ToSet(jobs[k]) \subseteq Scheduled
           /\ Len(stream) <= Len(stream') /\ \A i \in DOMAIN stream : stream'[i] = stream[i]
  <1>0. jobs \in Seq(Seq(Event)) /\ stream \in Seq(Event) /\ k \in 1 .. Len(jobs)
    BY DEF TypeOK, BusType
  <1>1. /\ jobs' \in Seq(Seq(Event))
        /\ \A i \in DOMAIN jobs : i # k => \E j \in DOMAIN jobs' : jobs'[j] = jobs[i]
        /\ \A j \in DOMAIN jobs' : \E i \in DOMAIN jobs : jobs'[j] = jobs[i]
    BY <1>0, RemoveFacts
  <1>2. stream' \in Seq(Event) /\ ToSet(stream') = ToSet(stream) \cup ToSet(t)
    BY <1>0, ConcatFacts
  <1>3. Published = ToSet(stream) /\ Published' = ToSet(stream')
    BY DEF Published, ToSet
  <1>4. Len(stream) <= Len(stream') /\ \A i \in DOMAIN stream : stream'[i] = stream[i]
    BY <1>0
  <1>5. Scheduled \subseteq Scheduled' \cup ToSet(jobs[k]) /\ Scheduled' \subseteq Scheduled /\ ToSet(jobs[k]) \subseteq Scheduled
    BY <1>1 DEF Scheduled
  <1> QED BY <1>1, <1>2, <1>3, <1>4, <1>5

\* Before the stream: what was let through and what is on its way there.
Upstream ==
    /\ jobs' \in Seq(Seq(Event)) /\ stream' \in Seq(Event)
    /\ accepted' \subseteq Event /\ accepted \subseteq accepted'
    /\ Scheduled' \cup Published' \subseteq Scheduled \cup Published \cup accepted'
    /\ accepted' \subseteq accepted \cup Scheduled' \cup Published' \cup lost'
    /\ Scheduled \cup Published \subseteq Scheduled' \cup Published' \cup lost'
    /\ Len(stream) <= Len(stream') /\ \A i \in DOMAIN stream : stream'[i] = stream[i]

\* Behind the stream: what the storage writer holds or has got rid of.
Written == table \cup ToSet(batch) \cup InFlight \cup dead
Downstream ==
    /\ batch' \in Seq(Event) /\ flight' \in [Flushers -> Seq(Event)] /\ dropping' \subseteq Flushers
    /\ table' \subseteq Event /\ dead' \subseteq Event
    /\ Written' \subseteq Written \cup Published /\ Written \subseteq Written' \cup lost'
    /\ lost \subseteq lost'

\* Between them: the entries the writer is given.
Handing ==
    /\ cursor' \in [Groups -> Nat] /\ inbox' \in [Groups -> Seq(Nat)]
    /\ InboxInv'
    /\ \A i \in Given' : i \in Given \/ i \in lost' \/ (i \in DOMAIN stream /\ stream[i] \in Written')

LEMMA UpKept ==
    ASSUME TypeOK, UNCHANGED <<jobs, stream, accepted>>
    PROVE  Upstream
  <1>1. Scheduled' = Scheduled /\ Published' = Published
    BY DEF Scheduled, Published
  <1>2. jobs \in Seq(Seq(Event)) /\ stream \in Seq(Event) /\ accepted \subseteq Event
    BY DEF TypeOK, BusType, WriterType
  <1>3. Len(stream) \in Nat
    BY <1>2
  <1> QED BY <1>1, <1>2, <1>3 DEF Upstream

LEMMA DownKept ==
    ASSUME TypeOK, UNCHANGED <<batch, flight, dropping, table, dead>>, lost \subseteq lost'
    PROVE  Downstream
  <1>1. Written' = Written
    BY DEF Written, InFlight
  <1> QED BY <1>1 DEF Downstream, TypeOK, WriterType

LEMMA HandKept ==
    ASSUME TypeOK, InboxInv, UNCHANGED <<cursor, inbox>>, stream' \in Seq(Event), Len(stream) <= Len(stream')
    PROVE  Handing
  <1>0. cursor \in [Groups -> Nat] /\ inbox \in [Groups -> Seq(Nat)] /\ stream \in Seq(Event)
    BY DEF TypeOK, BusType
  <1>1. Given' = Given
    BY DEF Given
  <1>2. ASSUME NEW g \in Groups PROVE cursor[g] <= Len(stream')
    <2>1. cursor[g] \in Nat /\ cursor[g] <= Len(stream) /\ Len(stream) \in Nat /\ Len(stream') \in Nat
      BY <1>0 DEF InboxInv
    <2> QED BY <2>1
  <1>3. InboxInv'
    BY <1>2 DEF InboxInv
  <1> QED BY <1>0, <1>1, <1>3 DEF Handing

\* The three parts together preserve the inductive invariant.
LEMMA FlowStep ==
    ASSUME IInv, Upstream, Downstream, Handing
    PROVE  IInv'
  <1>1. TypeOK'
    BY DEF Upstream, Downstream, Handing, TypeOK, BusType, WriterType
  <1>2. InboxInv'
    BY DEF Handing
  <1>3. OriginInv'
    <2>1. Scheduled \cup Published \cup Written \subseteq accepted
      BY DEF IInv, OriginInv, Written
    <2>2. Scheduled' \cup Published' \cup Written' \subseteq accepted'
      BY <2>1 DEF Upstream, Downstream
    <2> QED BY <2>2 DEF OriginInv, Written
  <1>4. SentInv'
    <2>1. accepted \subseteq Scheduled \cup Published \cup lost
      BY DEF IInv, SentInv
    <2> QED BY <2>1 DEF Upstream, Downstream, SentInv
  <1>5. GivenInv'
    <2>0. stream \in Seq(Event) /\ cursor["storage"] \in Nat /\ inbox["storage"] \in Seq(Nat)
          /\ cursor["storage"] <= Len(stream)
      BY DEF IInv, TypeOK, BusType, InboxInv, Groups
    <2>1. \A i \in Given : i \in DOMAIN stream
      BY <2>0 DEF Given
    <2>2. ASSUME NEW i \in Given PROVE stream'[i] \in Written' \/ stream'[i] \in lost' \/ i \in lost'
      <3>1. stream'[i] = stream[i]
        BY <2>1 DEF Upstream
      <3>2. stream[i] \in Written \/ stream[i] \in lost \/ i \in lost
        BY DEF IInv, GivenInv, Written
      <3> QED BY <3>1, <3>2 DEF Downstream
    <2>3. ASSUME NEW i \in DOMAIN stream, stream[i] \in Written' PROVE stream'[i] \in Written'
      BY <2>3 DEF Upstream
    <2> QED BY <2>2, <2>3 DEF GivenInv, Written, Handing
  <1> QED BY <1>1, <1>2, <1>3, <1>4, <1>5 DEF IInv

LEMMA LenStream ==
    ASSUME TypeOK
    PROVE  stream \in Seq(Event) /\ Len(stream) \in Nat /\ Len(stream) <= Len(stream)
  BY DEF TypeOK, BusType

LEMMA ReceiveStep ==
    ASSUME IInv, NEW cn \in Agents, NEW b \in Batches, Receive(cn, b)
    PROVE  IInv'
  <1>0. TypeOK /\ InboxInv
    BY DEF IInv
  <1>1. UNCHANGED <<stream, cursor, inbox, batch, flight, dropping, table, dead, lost>>
    BY DEF Receive, busVars, writerVars
  <1>2. Published' = Published
    BY <1>1 DEF Published
  <1>3. Upstream
    BY <1>0, <1>1, <1>2, ReceiveFacts, LenStream DEF Upstream
  <1>4. Downstream
    BY <1>0, <1>1, DownKept
  <1>5. Handing
    BY <1>0, <1>1, HandKept, LenStream
  <1> QED BY <1>3, <1>4, <1>5, FlowStep

LEMMA PublishStep ==
    ASSUME IInv, NEW k \in DOMAIN jobs,
           PublishBatch(k) \/ \E n \in 0 .. Len(jobs[k]) - 1 : PublishFails(k, n)
    PROVE  IInv'
  <1>0. TypeOK /\ InboxInv /\ Scheduled \subseteq accepted /\ accepted \subseteq Event
    BY DEF IInv, OriginInv, TypeOK, WriterType
  <1>1. PICK job \in Seq(Event) : job = jobs[k]
    BY <1>0 DEF TypeOK, BusType
  <1>2. UNCHANGED <<accepted, cursor, inbox, batch, flight, dropping, table, dead>> /\ jobs' = RemoveAt(jobs, k)
    BY DEF PublishBatch, PublishFails, writerVars
  <1>3. \E t \in Seq(Event) : /\ stream' = stream \o t /\ ToSet(t) \subseteq ToSet(job)
                              /\ ToSet(job) \subseteq ToSet(t) \cup lost' /\ lost \subseteq lost'
    <2>1. CASE PublishBatch(k)
      BY <1>1, <2>1 DEF PublishBatch, writerVars
    <2>2. ASSUME NEW n \in 0 .. Len(jobs[k]) - 1, PublishFails(k, n)
          PROVE  \E t \in Seq(Event) : /\ stream' = stream \o t /\ ToSet(t) \subseteq ToSet(job)
                                       /\ ToSet(job) \subseteq ToSet(t) \cup lost' /\ lost \subseteq lost'
      <3>1. n \in 0 .. Len(job)
        BY <1>1
      <3>2. /\ SubSeq(job, 1, n) \in Seq(Event)
            /\ ToSet(SubSeq(job, 1, n)) \cup ToSet(SubSeq(job, n + 1, Len(job))) = ToSet(job)
        BY <3>1, SplitFacts
      <3>3. /\ stream' = stream \o SubSeq(job, 1, n)
            /\ lost' = lost \cup ToSet(SubSeq(job, n + 1, Len(job)))
        BY <1>1, <2>2 DEF PublishFails
      <3> QED BY <3>2, <3>3
    <2> QED BY <2>1, <2>2
  <1>4. PICK t \in Seq(Event) : /\ stream' = stream \o t /\ ToSet(t) \subseteq ToSet(job)
                                /\ ToSet(job) \subseteq ToSet(t) \cup lost' /\ lost \subseteq lost'
    BY <1>3
  <1>5. /\ jobs' \in Seq(Seq(Event)) /\ stream' \in Seq(Event)
        /\ Published' = Published \cup ToSet(t)
        /\ Scheduled \subseteq Scheduled' \cup ToSet(job) /\ Scheduled' \subseteq Scheduled
        /\ ToSet(job) \subseteq Scheduled
        /\ Len(stream) <= Len(stream') /\ \A i \in DOMAIN stream : stream'[i] = stream[i]
    BY <1>0, <1>1, <1>2, <1>4, PublishFacts
  <1>6. Upstream
    BY <1>0, <1>2, <1>4, <1>5 DEF Upstream
  <1>7. Downstream
    BY <1>0, <1>2, <1>4, DownKept
  <1>8. Handing
    BY <1>0, <1>2, <1>5, HandKept
  <1> QED BY <1>6, <1>7, <1>8, FlowStep

-----------------------------------------------------------------------------
(* The consumer groups.                                                    *)

LEMMA InboxFacts ==
    ASSUME TypeOK, InboxInv, NEW g \in Groups
    PROVE  /\ cursor[g] \in Nat /\ inbox[g] \in Seq(Nat) /\ Len(inbox[g]) \in Nat
           /\ cursor[g] <= Len(stream) /\ Len(inbox[g]) <= cursor[g] /\ Len(stream) \in Nat
           /\ \A k \in 1 .. Len(inbox[g]) : inbox[g][k] = cursor[g] - Len(inbox[g]) + k
  <1>1. cursor[g] \in Nat /\ inbox[g] \in Seq(Nat) /\ stream \in Seq(Event)
    BY DEF TypeOK, BusType
  <1>2. DOMAIN inbox[g] = 1 .. Len(inbox[g]) /\ Len(inbox[g]) \in Nat /\ Len(stream) \in Nat
    BY <1>1
  <1> QED BY <1>1, <1>2 DEF InboxInv

LEMMA TakeFacts ==
    ASSUME TypeOK, InboxInv, NEW g \in Groups, Ready(g), Take(g)
    PROVE  \E n \in Nat : cursor[g] < n /\ n <= Len(stream) /\ cursor' = [cursor EXCEPT ![g] = n]
  <1>1. cursor[g] \in Nat /\ Len(stream) \in Nat /\ cursor[g] < Len(stream)
    BY InboxFacts DEF Ready
  <1>2. ReadBatch \in Nat /\ ReadBatch # 0
    BY EventStoreAssumption
  <1>3. PICK n : n = IF cursor[g] + ReadBatch < Len(stream) THEN cursor[g] + ReadBatch ELSE Len(stream)
    OBVIOUS
  <1>4. n \in Nat /\ cursor[g] < n /\ n <= Len(stream)
    BY <1>1, <1>2, <1>3
  <1>5. cursor' = [cursor EXCEPT ![g] = n]
    BY <1>3 DEF Take
  <1> QED BY <1>4, <1>5

\* The state of the groups after a step of one of them.
LEMMA GroupStep ==
    ASSUME TypeOK, InboxInv, UNCHANGED stream, NEW g \in Groups, NEW n \in Nat, NEW q \in Seq(Nat),
           cursor' = [cursor EXCEPT ![g] = n], inbox' = [inbox EXCEPT ![g] = q],
           n <= Len(stream), Len(q) <= n, \A k \in 1 .. Len(q) : q[k] = n - Len(q) + k
    PROVE  cursor' \in [Groups -> Nat] /\ inbox' \in [Groups -> Seq(Nat)] /\ InboxInv'
  <1>0. cursor \in [Groups -> Nat] /\ inbox \in [Groups -> Seq(Nat)]
    BY DEF TypeOK, BusType
  <1>1. cursor' \in [Groups -> Nat] /\ inbox' \in [Groups -> Seq(Nat)]
    BY <1>0
  <1>2. ASSUME NEW h \in Groups
        PROVE  /\ cursor'[h] <= Len(stream') /\ Len(inbox'[h]) <= cursor'[h]
               /\ \A k \in DOMAIN inbox'[h] : inbox'[h][k] = cursor'[h] - Len(inbox'[h]) + k
    <2>1. CASE h = g
      <3>1. cursor'[h] = n /\ inbox'[h] = q /\ DOMAIN q = 1 .. Len(q)
        BY <1>0, <2>1
      <3> QED BY <3>1
    <2>2. CASE h # g
      <3>1. cursor'[h] = cursor[h] /\ inbox'[h] = inbox[h]
        BY <1>0, <2>2
      <3> QED BY <3>1 DEF InboxInv
    <2> QED BY <2>1, <2>2
  <1> QED BY <1>1, <1>2 DEF InboxInv

LEMMA ReadStep ==
    ASSUME IInv, NEW g \in Groups, Read(g)
    PROVE  IInv'
  <1>0. TypeOK /\ InboxInv
    BY DEF IInv
  <1>1. /\ UNCHANGED <<jobs, stream, accepted, batch, flight, dropping, table, dead, lost>>
        /\ Ready(g) /\ Take(g)
    BY DEF Read, writerVars, ingestVars
  <1>2. PICK n \in Nat : cursor[g] < n /\ n <= Len(stream) /\ cursor' = [cursor EXCEPT ![g] = n]
    BY <1>0, <1>1, TakeFacts
  <1>3. cursor'[g] = n /\ cursor[g] \in Nat /\ n - cursor[g] \in Nat
    BY <1>0, <1>2 DEF TypeOK, BusType
  <1>4. PICK q : q = [i \in 1 .. n - cursor[g] |-> cursor[g] + i]
    OBVIOUS
  <1>5. q \in Seq(Nat) /\ Len(q) = n - cursor[g] /\ Len(q) <= n
    <2>1. \A i \in 1 .. n - cursor[g] : cursor[g] + i \in Nat
      BY <1>3
    <2> QED BY <1>3, <1>4, <2>1
  <1>6. \A k \in 1 .. Len(q) : q[k] = n - Len(q) + k
    BY <1>3, <1>4, <1>5
  <1>7. inbox' = [inbox EXCEPT ![g] = q]
    BY <1>3, <1>4 DEF Read
  <1>8. cursor' \in [Groups -> Nat] /\ inbox' \in [Groups -> Seq(Nat)] /\ InboxInv'
    BY <1>0, <1>1, <1>2, <1>5, <1>6, <1>7, GroupStep
  <1>9. Given' = Given
    <2>0. cursor \in [Groups -> Nat] /\ inbox \in [Groups -> Seq(Nat)]
      BY <1>0 DEF TypeOK, BusType
    <2>1. CASE g = "storage"
      <3>1. inbox[g] = <<>> /\ Len(inbox[g]) = 0 /\ inbox'[g] = q
        BY <1>1, <1>7, <2>0 DEF Ready
      <3>2. cursor'[g] - Len(inbox'[g]) = cursor[g] - Len(inbox[g])
        BY <1>3, <1>5, <3>1
      <3> QED BY <2>1, <3>2 DEF Given
    <2>2. CASE g # "storage"
      <3>1. cursor'["storage"] = cursor["storage"] /\ inbox'["storage"] = inbox["storage"]
        BY <1>2, <1>7, <2>0, <2>2 DEF Groups
      <3> QED BY <3>1 DEF Given
    <2> QED BY <2>1, <2>2
  <1>10. Handing
    BY <1>8, <1>9 DEF Handing
  <1>11. Upstream /\ Downstream
    BY <1>0, <1>1, UpKept, DownKept
  <1> QED BY <1>10, <1>11, FlowStep

LEMMA ReplyLostStep ==
    ASSUME IInv, NEW g \in Groups, ReplyLost(g)
    PROVE  IInv'
  <1>0. TypeOK /\ InboxInv
    BY DEF IInv
  <1>1. /\ UNCHANGED <<jobs, stream, accepted, inbox, batch, flight, dropping, table, dead>>
        /\ Ready(g) /\ Take(g)
        /\ lost' = lost \cup (IF g = "storage" THEN cursor[g] + 1 .. cursor'[g] ELSE {})
    BY DEF ReplyLost, ingestVars
  <1>2. PICK n \in Nat : cursor[g] < n /\ n <= Len(stream) /\ cursor' = [cursor EXCEPT ![g] = n]
    BY <1>0, <1>1, TakeFacts
  <1>a. cursor \in [Groups -> Nat] /\ inbox \in [Groups -> Seq(Nat)]
    BY <1>0 DEF TypeOK, BusType
  <1>3. cursor'[g] = n /\ cursor[g] \in Nat
    BY <1>2, <1>a
  <1>b. <<>> \in Seq(Nat)
    OBVIOUS
  <1>4. PICK q \in Seq(Nat) : q = <<>>
    BY <1>b
  <1>5. inbox' = [inbox EXCEPT ![g] = q] /\ Len(q) = 0 /\ inbox[g] = q
    BY <1>1, <1>4, <1>a DEF Ready
  <1>6. cursor' \in [Groups -> Nat] /\ inbox' \in [Groups -> Seq(Nat)] /\ InboxInv'
    <2>1. \A k \in 1 .. Len(q) : q[k] = n - Len(q) + k
      BY <1>5
    <2>2. Len(q) <= n
      BY <1>5
    <2> QED BY <1>0, <1>1, <1>2, <1>5, <2>1, <2>2, GroupStep
  <1>7. \A i \in Given' : i \in Given \/ i \in lost'
    <2>1. CASE g = "storage"
      <3>1. Given' = 1 .. n /\ Given = 1 .. cursor[g]
        BY <1>1, <1>3, <1>5, <2>1 DEF Given
      <3> QED BY <1>1, <1>2, <1>3, <2>1, <3>1
    <2>2. CASE g # "storage"
      <3>1. cursor'["storage"] = cursor["storage"]
        BY <1>2, <1>a, <2>2 DEF Groups
      <3> QED BY <1>1, <3>1 DEF Given
    <2> QED BY <2>1, <2>2
  <1>8. Handing
    BY <1>6, <1>7 DEF Handing
  <1>9. lost \subseteq lost'
    BY <1>1
  <1>10. Upstream /\ Downstream
    BY <1>0, <1>1, <1>9, UpKept, DownKept
  <1> QED BY <1>8, <1>10, FlowStep

\* One entry is handed out, the next of the stream for its group.
LEMMA HandedFacts ==
    ASSUME TypeOK, InboxInv, UNCHANGED <<stream, cursor>>, NEW g \in Groups, inbox[g] # <<>>,
           inbox' = [inbox EXCEPT ![g] = Tail(@)]
    PROVE  /\ cursor' \in [Groups -> Nat] /\ inbox' \in [Groups -> Seq(Nat)] /\ InboxInv'
           /\ Head(inbox[g]) = cursor[g] - Len(inbox[g]) + 1
           /\ Head(inbox[g]) \in DOMAIN stream
           /\ Len(inbox'[g]) = Len(inbox[g]) - 1
  <1>0. cursor \in [Groups -> Nat] /\ inbox \in [Groups -> Seq(Nat)]
    BY DEF TypeOK, BusType
  <1>1. PICK n \in Nat : n = cursor[g] /\ n <= Len(stream) /\ Len(stream) \in Nat
    BY InboxFacts
  <1>2. PICK p \in Seq(Nat) : p = inbox[g]
    BY <1>0
  <1>3. PICK m \in Nat : m = Len(p) /\ m <= n /\ 1 <= m
    <2>1. Len(p) \in Nat /\ Len(p) <= n /\ Len(p) # 0
      BY <1>1, <1>2, InboxFacts
    <2> QED BY <2>1
  <1>4. \A k \in 1 .. m : p[k] = n - m + k
    BY <1>1, <1>2, <1>3, InboxFacts
  <1>5. Tail(p) \in Seq(Nat) /\ Len(Tail(p)) = m - 1 /\ \A k \in 1 .. m - 1 : Tail(p)[k] = p[k + 1]
    BY <1>2, <1>3
  <1>6. PICK q \in Seq(Nat) : q = Tail(p) /\ Len(q) = m - 1 /\ \A k \in 1 .. m - 1 : q[k] = p[k + 1]
    BY <1>5
  <1>7. \A k \in 1 .. Len(q) : q[k] = n - Len(q) + k
    <2>1. ASSUME NEW k \in 1 .. m - 1 PROVE q[k] = n - (m - 1) + k
      <3>1. k + 1 \in 1 .. m
        BY <1>3
      <3>2. q[k] = n - m + (k + 1)
        BY <1>4, <1>6, <3>1
      <3> QED BY <1>3, <3>2
    <2> QED BY <1>6, <2>1
  <1>8. cursor' = [cursor EXCEPT ![g] = n] /\ inbox' = [inbox EXCEPT ![g] = q]
    BY <1>0, <1>1, <1>2, <1>6
  <1>9. cursor' \in [Groups -> Nat] /\ inbox' \in [Groups -> Seq(Nat)] /\ InboxInv'
    <2>1. Len(q) <= n
      BY <1>3, <1>6
    <2> QED BY <1>1, <1>7, <1>8, <2>1, GroupStep
  <1>10. Head(p) = p[1] /\ p[1] = n - m + 1 /\ p[1] \in 1 .. Len(stream)
    BY <1>1, <1>3, <1>4
  <1>11. DOMAIN stream = 1 .. Len(stream)
    BY DEF TypeOK, BusType
  <1>12. inbox'[g] = q
    BY <1>0, <1>8
  <1> QED BY <1>1, <1>2, <1>3, <1>6, <1>9, <1>10, <1>11, <1>12

LEMMA ScoreStep ==
    ASSUME IInv, NEW acked \in BOOLEAN, Score(acked)
    PROVE  IInv'
  <1>0. TypeOK /\ InboxInv
    BY DEF IInv
  <1>1. /\ UNCHANGED <<jobs, stream, cursor, accepted, batch, flight, dropping, table, dead, lost>>
        /\ inbox["ml"] # <<>> /\ inbox' = [inbox EXCEPT !["ml"] = Tail(@)]
    BY DEF Score, Handed, writerVars, ingestVars
  <1>2. cursor' \in [Groups -> Nat] /\ inbox' \in [Groups -> Seq(Nat)] /\ InboxInv'
    <2>1. "ml" \in Groups
      BY DEF Groups
    <2> QED BY <1>0, <1>1, <2>1, HandedFacts
  <1>3. Given' = Given
    <2>1. inbox'["storage"] = inbox["storage"]
      BY <1>0, <1>1 DEF TypeOK, BusType, Groups
    <2> QED BY <1>1, <2>1 DEF Given
  <1>4. Handing
    BY <1>2, <1>3 DEF Handing
  <1>5. Upstream /\ Downstream
    BY <1>0, <1>1, UpKept, DownKept
  <1> QED BY <1>4, <1>5, FlowStep

LEMMA ConsumeStep ==
    ASSUME IInv, NEW acked \in BOOLEAN, Consume(acked)
    PROVE  IInv'
  <1>0. TypeOK /\ InboxInv /\ WriterType
    BY DEF IInv, TypeOK
  <1>1. /\ UNCHANGED <<jobs, stream, cursor, accepted, dropping, table, dead, lost>>
        /\ inbox["storage"] # <<>> /\ inbox' = [inbox EXCEPT !["storage"] = Tail(@)]
        /\ flight["main"] = NoFlight
    BY DEF Consume, Handed, ingestVars
  <1>2. PICK h : h = Head(inbox["storage"])
    OBVIOUS
  <1>3. /\ cursor' \in [Groups -> Nat] /\ inbox' \in [Groups -> Seq(Nat)] /\ InboxInv'
        /\ h = cursor["storage"] - Len(inbox["storage"]) + 1 /\ h \in DOMAIN stream
        /\ Len(inbox'["storage"]) = Len(inbox["storage"]) - 1
    <2>1. "storage" \in Groups
      BY DEF Groups
    <2> QED BY <1>0, <1>1, <1>2, <2>1, HandedFacts
  <1>4. PICK e \in Event : e = stream[h] /\ e \in Published
    BY <1>0, <1>3 DEF TypeOK, BusType, Published
  <1>5. PICK grown \in Seq(Event) : grown = Append(batch, e) /\ ToSet(grown) = ToSet(batch) \cup {e}
    <2>1. batch \in Seq(Event)
      BY <1>0 DEF WriterType
    <2>2. Append(batch, e) \in Seq(Event) /\ ToSet(Append(batch, e)) = ToSet(batch) \cup {e}
      BY ONLY <2>1, e \in Event, AppendFacts
    <2> QED BY ONLY <2>2
  <1>6. /\ batch' \in Seq(Event) /\ flight' \in [Flushers -> Seq(Event)]
        /\ ToSet(batch') \cup InFlight' = ToSet(batch) \cup InFlight \cup {e}
    <2>0. ToSet(<<>>) = {} /\ <<>> \in Seq(Event) /\ "main" \in Flushers
      BY DEF ToSet, Flushers
    <2>1. CASE batch' = <<>> /\ flight' = [flight EXCEPT !["main"] = grown]
      <3>1. flight' \in [Flushers -> Seq(Event)]
        BY <1>0, <2>1 DEF WriterType
      <3>2. /\ InFlight' \subseteq InFlight \cup ToSet(grown)
            /\ InFlight \subseteq InFlight' \cup ToSet(flight["main"])
            /\ ToSet(grown) \subseteq InFlight'
        BY <1>0, <2>0, <2>1, FlightFacts
      <3>3. ToSet(flight["main"]) = {}
        BY <1>1, <2>0 DEF NoFlight
      <3> QED BY <1>5, <2>0, <2>1, <3>1, <3>2, <3>3
    <2>2. CASE batch' = grown /\ UNCHANGED flight
      <3>1. InFlight' = InFlight
        BY <2>2 DEF InFlight
      <3> QED BY <1>0, <1>5, <2>2, <3>1 DEF WriterType
    <2> QED BY <1>2, <1>4, <1>5, <2>1, <2>2 DEF Consume
  <1>7. Downstream
    BY <1>0, <1>1, <1>4, <1>6 DEF Downstream, Written, WriterType
  <1>8. \A i \in Given' : i \in Given \/ i = h
    <2>1. cursor["storage"] \in Nat /\ Len(inbox["storage"]) \in Nat
      BY <1>0, InboxFacts DEF Groups
    <2>2. Given' = 1 .. h /\ Given = 1 .. h - 1 /\ h \in Int
      BY <1>1, <1>3, <2>1 DEF Given
    <2> QED BY <2>2
  <1>9. Handing
    BY <1>3, <1>4, <1>6, <1>8 DEF Handing, Written
  <1> QED BY <1>0, <1>1, <1>7, <1>9, UpKept, FlowStep

-----------------------------------------------------------------------------
(* The storage writer.                                                     *)

\* A step of the writer between the stream and the table.
LEMMA WriterStep ==
    ASSUME IInv, UNCHANGED <<jobs, stream, cursor, inbox, accepted>>,
           batch' \in Seq(Event), flight' \in [Flushers -> Seq(Event)], dropping' \subseteq Flushers,
           Written' \subseteq Written, Written \subseteq Written' \cup lost', lost \subseteq lost'
    PROVE  IInv'
  <1>0. TypeOK /\ InboxInv /\ OriginInv /\ accepted \subseteq Event
    BY DEF IInv, TypeOK, WriterType
  <1>1. Written \subseteq Event
    BY <1>0 DEF OriginInv, Written
  <1>2. table' \subseteq Event /\ dead' \subseteq Event
    BY <1>1 DEF Written
  <1>3. Downstream
    BY <1>2 DEF Downstream
  <1>4. Upstream
    BY <1>0, UpKept
  <1>5. Handing
    BY <1>0, LenStream, HandKept
  <1> QED BY <1>3, <1>4, <1>5, FlowStep

LEMMA NoFlightFacts == NoFlight \in Seq(Event) /\ ToSet(NoFlight) = {}
  BY DEF NoFlight, ToSet

LEMMA FlushStep ==
    ASSUME IInv, NEW f \in Flushers,
           FlushDone(f) \/ FlushFails(f) \/ \E published \in BOOLEAN : DeadLetter(f, published)
    PROVE  IInv'
  <1>0. TypeOK /\ WriterType
    BY DEF IInv, TypeOK
  <1>1. UNCHANGED <<jobs, stream, cursor, inbox, accepted>>
    BY DEF FlushDone, FlushFails, DeadLetter, busVars, ingestVars
  <1>2. PICK taken \in Seq(Event) : taken = flight[f]
    BY <1>0 DEF WriterType
  <1>3. ASSUME flight' = [flight EXCEPT ![f] = NoFlight]
        PROVE  /\ flight' \in [Flushers -> Seq(Event)] /\ InFlight' \subseteq InFlight
               /\ InFlight \subseteq InFlight' \cup ToSet(taken) /\ ToSet(taken) \subseteq InFlight
    BY <1>0, <1>2, <1>3, FlightFacts, NoFlightFacts DEF WriterType
  <1>4. CASE FlushDone(f)
    <2>1. /\ flight' = [flight EXCEPT ![f] = NoFlight] /\ table' = table \cup ToSet(taken)
          /\ UNCHANGED <<batch, dropping, dead, lost>>
      BY <1>2, <1>4 DEF FlushDone, InsertBatch, Rows
    <2>2. Written' \subseteq Written /\ Written \subseteq Written' \cup lost'
      BY <1>3, <2>1 DEF Written
    <2> QED BY <1>0, <1>1, <1>3, <2>1, <2>2, WriterStep DEF WriterType
  <1>5. CASE FlushFails(f)
    <2>0. UNCHANGED <<table, dead, lost>>
      BY <1>5 DEF FlushFails
    <2>1. CASE dropping' = dropping \cup {f} /\ UNCHANGED <<batch, flight>>
      <3>1. Written' = Written
        BY <2>0, <2>1 DEF Written, InFlight
      <3> QED BY <1>0, <1>1, <2>0, <2>1, <3>1, WriterStep DEF WriterType
    <2>2. CASE /\ batch' = taken \o batch /\ flight' = [flight EXCEPT ![f] = NoFlight]
               /\ UNCHANGED dropping
      <3>1. batch' \in Seq(Event) /\ ToSet(batch') = ToSet(taken) \cup ToSet(batch)
        BY <1>0, <2>2, ConcatFacts DEF WriterType
      <3>2. Written' \subseteq Written /\ Written \subseteq Written' \cup lost'
        BY <1>3, <2>0, <2>2, <3>1 DEF Written
      <3> QED BY <1>0, <1>1, <1>3, <2>0, <2>2, <3>1, <3>2, WriterStep DEF WriterType
    <2> QED BY <1>2, <1>5, <2>1, <2>2 DEF FlushFails, Requeued
  <1>6. ASSUME NEW published \in BOOLEAN, DeadLetter(f, published) PROVE IInv'
    <2>1. /\ flight' = [flight EXCEPT ![f] = NoFlight] /\ dropping' = dropping \ {f}
          /\ UNCHANGED <<batch, table>>
          /\ \/ dead' = dead \cup ToSet(taken) /\ UNCHANGED lost
             \/ lost' = lost \cup ToSet(taken) /\ UNCHANGED dead
      BY <1>2, <1>6 DEF DeadLetter
    <2>2. Written' \subseteq Written /\ Written \subseteq Written' \cup lost' /\ lost \subseteq lost'
      BY <1>3, <2>1 DEF Written
    <2> QED BY <1>0, <1>1, <1>3, <2>1, <2>2, WriterStep DEF WriterType
  <1> QED BY <1>4, <1>5, <1>6

LEMMA TimerStep ==
    ASSUME IInv, TimerFlush
    PROVE  IInv'
  <1>0. TypeOK /\ WriterType
    BY DEF IInv, TypeOK
  <1>1. /\ UNCHANGED <<jobs, stream, cursor, inbox, accepted, dropping, table, dead, lost>>
        /\ flight["timer"] = NoFlight /\ flight' = [flight EXCEPT !["timer"] = batch] /\ batch' = NoFlight
    BY DEF TimerFlush, busVars, ingestVars, NoFlight
  <1>2. /\ InFlight' \subseteq InFlight \cup ToSet(batch)
        /\ InFlight \subseteq InFlight' \cup ToSet(flight["timer"])
        /\ ToSet(batch) \subseteq InFlight'
    BY <1>0, <1>1, FlightFacts DEF Flushers
  <1>3. flight' \in [Flushers -> Seq(Event)] /\ batch' \in Seq(Event)
    BY <1>0, <1>1, NoFlightFacts DEF WriterType
  <1>4. Written' \subseteq Written /\ Written \subseteq Written' \cup lost'
    BY <1>1, <1>2, NoFlightFacts DEF Written
  <1> QED BY <1>0, <1>1, <1>3, <1>4, WriterStep DEF WriterType

\* The process ends: what was in memory is stored or lost.
LEMMA EndStep ==
    ASSUME IInv, Crash \/ \E committed, flushed \in BOOLEAN : Stop(committed, flushed)
    PROVE  IInv'
  <1>0. TypeOK /\ WriterType /\ BusType /\ InboxInv /\ OriginInv
    BY DEF IInv, TypeOK
  <1>1. MemoryGone
    BY DEF Crash, Stop
  <1>2. /\ table \subseteq table' /\ table' \subseteq table \cup InFlight \cup ToSet(batch)
        /\ InFlight \cup ToSet(batch) \subseteq table' \cup lost'
        /\ Unread \cup Scheduled \subseteq lost' /\ lost \subseteq lost'
    <2>1. CASE Crash
      BY <2>1 DEF Crash
    <2>2. ASSUME NEW committed \in BOOLEAN, NEW flushed \in BOOLEAN, Stop(committed, flushed)
          PROVE  /\ table \subseteq table' /\ table' \subseteq table \cup InFlight \cup ToSet(batch)
                 /\ InFlight \cup ToSet(batch) \subseteq table' \cup lost'
                 /\ Unread \cup Scheduled \subseteq lost' /\ lost \subseteq lost'
      BY <2>2 DEF Stop
    <2> QED BY <2>1, <2>2
  <1>3. /\ batch' = NoFlight /\ flight' = [f \in Flushers |-> NoFlight] /\ dropping' = {}
        /\ inbox' = [g \in Groups |-> <<>>] /\ jobs' = <<>>
        /\ UNCHANGED <<stream, cursor, accepted, dead>>
    BY <1>1 DEF MemoryGone, NoFlight
  <1>4. flight' \in [Flushers -> Seq(Event)] /\ batch' \in Seq(Event) /\ ToSet(batch') = {} /\ InFlight' = {}
    BY <1>3, NoFlightFacts DEF InFlight
  <1>5. Downstream
    <2>1. Written \subseteq Event
      BY <1>0 DEF OriginInv, Written, WriterType
    <2>2. Written' \subseteq Written /\ Written \subseteq Written' \cup lost'
      BY <1>2, <1>3, <1>4 DEF Written
    <2>3. table' \subseteq Event /\ dead' \subseteq Event
      BY <2>1, <2>2 DEF Written
    <2> QED BY <1>2, <1>3, <1>4, <2>2, <2>3 DEF Downstream
  <1>6. Upstream
    <2>1. jobs' \in Seq(Seq(Event)) /\ Scheduled' = {}
      BY <1>3 DEF Scheduled
    <2>2. Published' = Published
      BY <1>3 DEF Published
    <2> QED BY <1>0, <1>2, <1>3, <2>1, <2>2, LenStream DEF Upstream, BusType, WriterType
  <1>7. Handing
    <2>1. <<>> \in Seq(Nat) /\ Len(<<>>) = 0 /\ DOMAIN <<>> = {}
      OBVIOUS
    <2>2. cursor' \in [Groups -> Nat] /\ inbox' \in [Groups -> Seq(Nat)]
      BY <1>0, <1>3, <2>1 DEF BusType
    <2>3. InboxInv'
      <3>1. ASSUME NEW g \in Groups
            PROVE  /\ cursor'[g] <= Len(stream') /\ Len(inbox'[g]) <= cursor'[g] /\ DOMAIN inbox'[g] = {}
        <4>1. cursor[g] \in Nat /\ cursor[g] <= Len(stream)
          BY <1>0, InboxFacts
        <4> QED BY <1>3, <2>1, <4>1
      <3> QED BY <3>1 DEF InboxInv
    <2>4. ASSUME NEW i \in Given' PROVE i \in Given \/ i \in lost'
      <3>1. PICK p \in Seq(Nat) : p = inbox["storage"]
        BY <1>0 DEF BusType, Groups
      <3>2. PICK n \in Nat : n = cursor["storage"] /\ Len(p) \in Nat /\ Len(p) <= n
        BY <1>0, <3>1, InboxFacts DEF Groups
      <3>3. \A k \in 1 .. Len(p) : p[k] = n - Len(p) + k
        BY <1>0, <3>1, <3>2, InboxFacts DEF Groups
      <3>4. i \in 1 .. n /\ Given = 1 .. n - Len(p)
        <4>1. inbox'["storage"] = <<>> /\ cursor'["storage"] = n
          BY <1>3, <3>2 DEF Groups
        <4> QED BY <2>1, <3>1, <3>2, <4>1 DEF Given
      <3>5. CASE i \in n - Len(p) + 1 .. n
        <4>1. i - (n - Len(p)) \in 1 .. Len(p) /\ n - Len(p) + (i - (n - Len(p))) = i
          <5>1. PICK m \in Nat : m = Len(p)
            BY <3>2
          <5>2. i \in n - m + 1 .. n
            BY <3>5, <5>1
          <5>3. i - (n - m) \in 1 .. m /\ n - m + (i - (n - m)) = i
            BY ONLY n \in Nat, m \in Nat, <5>2
          <5> QED BY <5>1, <5>3
        <4>2. p[i - (n - Len(p))] = i
          BY <3>3, <4>1
        <4>3. i \in ToSet(p)
          BY <4>1, <4>2 DEF ToSet
        <4> QED BY <1>2, <3>1, <4>3 DEF Unread
      <3> QED BY <3>2, <3>4, <3>5
    <2> QED BY <2>2, <2>3, <2>4 DEF Handing
  <1> QED BY <1>5, <1>6, <1>7, FlowStep

LEMMA RestartStep ==
    ASSUME IInv, Restart \/ UNCHANGED vars
    PROVE  IInv'
  <1>1. UNCHANGED <<jobs, stream, cursor, inbox, accepted, batch, flight, dropping, table, dead, lost>>
    BY DEF Restart, vars, busVars, writerVars, ingestVars
  <1>2. TypeOK /\ InboxInv
    BY DEF IInv
  <1>3. Upstream /\ Downstream
    BY <1>1, <1>2, UpKept, DownKept
  <1>4. Handing
    BY <1>1, <1>2, LenStream, HandKept
  <1> QED BY <1>3, <1>4, FlowStep

-----------------------------------------------------------------------------

LEMMA InitInv == Init => IInv
  <1> SUFFICES ASSUME Init PROVE IInv
    OBVIOUS
  <1>0. <<>> \in Seq(Nat) /\ <<>> \in Seq(Event) /\ <<>> \in Seq(Seq(Event)) /\ Len(<<>>) = 0 /\ DOMAIN <<>> = {}
    OBVIOUS
  <1>1. /\ jobs = <<>> /\ stream = <<>> /\ accepted = {} /\ table = {} /\ dead = {} /\ dropping = {}
        /\ batch = <<>> /\ flight = [f \in Flushers |-> <<>>]
        /\ cursor = [g \in Groups |-> 0] /\ inbox = [g \in Groups |-> <<>>]
    BY DEF Init, IngestInit, NoFlight
  <1>2. TypeOK
    BY <1>0, <1>1 DEF TypeOK, BusType, WriterType
  <1>3. InboxInv
    BY <1>0, <1>1 DEF InboxInv
  <1>4. OriginInv /\ SentInv
    <2>1. Scheduled = {} /\ Published = {} /\ ToSet(batch) = {} /\ InFlight = {}
      BY <1>0, <1>1 DEF Scheduled, Published, ToSet, InFlight
    <2> QED BY <1>1, <2>1 DEF OriginInv, SentInv
  <1>5. GivenInv
    <2>1. Given = {}
      BY <1>0, <1>1 DEF Given, Groups
    <2> QED BY <2>1 DEF GivenInv
  <1> QED BY <1>2, <1>3, <1>4, <1>5 DEF IInv

\* Every reachable state satisfies the inductive invariant.
THEOREM Invariance == Spec => []IInv
  <1>1. IInv /\ [Next]_vars => IInv'
    BY ReceiveStep, PublishStep, ReadStep, ReplyLostStep, ScoreStep, ConsumeStep, FlushStep,
       TimerStep, EndStep, RestartStep DEF Next
  <1> QED BY <1>1, InitInv, PTL DEF Spec

\* Jobs, stream, batch, inserts under way, table and dead-letter topic hold
\* complete and well-formed events only, and the groups of the stream keep
\* natural positions.
THEOREM TypeCorrect == Spec => []TypeOK
  <1>1. IInv => TypeOK
    BY DEF IInv
  <1> QED BY <1>1, Invariance, PTL

\* NoEventLost for any number of agents, batches, failing inserts and faults
\* and for every batch and read size: the batch a flush takes out, puts back
\* or sends to the dead-letter topic never drops or invents an event, however
\* main loop and timer overlap (storage_writer.py, redis_bus.py).
THEOREM NothingLost == Spec => []NoEventLost
  <1>1. IInv => NoEventLost
    BY DEF IInv, OriginInv, SentInv, GivenInv, Published, NoEventLost, TypeOK, WriterType, Event
  <1> QED BY <1>1, Invariance, PTL

-----------------------------------------------------------------------------
(***************************************************************************)
(* The rule table and its history, for any number of administrators, rows  *)
(* and contents.                                                           *)
(***************************************************************************)

RowType  == [values : [Columns -> Contents], version : Nat]
DiffType == UNION {[cs -> Contents] : cs \in SUBSET Columns}
ChangeType == UNION {[cs -> [from : Contents, to : Contents]] : cs \in SUBSET Columns}
LogType  == [id : RowIds, change : {"created", "updated", "deleted"}, version : Nat,
             diff : ChangeType, yaml : Contents]
WriteType ==
    {NoRequest} \cup [op : {"update"}, id : RowIds, fields : DiffType, seen : RowType]
                \cup [op : {"delete"}, id : RowIds, seen : RowType]

TableType ==
    /\ DOMAIN rows \subseteq RowIds /\ \A id \in DOMAIN rows : rows[id] \in RowType
    /\ DOMAIN rows \subseteq DOMAIN born
    /\ log \in Seq(LogType) /\ request \in [Admins -> WriteType]

(* HistoryReplays with its newest entries and its first one named, which   *)
(* is inductive.                                                           *)
Newer(S, i) == i \in S /\ \A j \in S : j <= i
First(id, i) ==
    /\ i \in EntriesOf(id) /\ log[i].change = "created"
    /\ \A j \in EntriesOf(id) : log[j].change = "created" => j = i
Replays(id) ==
    /\ id \in DOMAIN rows =>
          /\ \A i \in EntriesOf(id) : log[i].change # "deleted"
          /\ \A c \in Columns : Setters(id, c) # {} => \E i \in Setters(id, c) :
                Newer(Setters(id, c), i) /\ log[i].diff[c].to = rows[id].values[c]
          /\ \E i \in EntriesOf(id) :
                /\ First(id, i)
                /\ Setters(id, "yaml_content") = {} => rows[id].values["yaml_content"] = log[i].yaml
          /\ Setters(id, "profile_id") = {} => rows[id].values["profile_id"] = born[id]
    /\ id \notin DOMAIN rows /\ EntriesOf(id) # {} =>
          /\ \E i \in EntriesOf(id) : Newer(EntriesOf(id), i) /\ log[i].change = "deleted"
          /\ \A i, j \in EntriesOf(id) : i < j /\ log[i].change = "deleted" => log[j].change = "deleted"

TableInv == TableType /\ \A id \in RowIds : Replays(id)

LEMMA MaxIsNewest ==
    ASSUME NEW S \in SUBSET Int, NEW i, Newer(S, i)
    PROVE  Max(S) = i
  <1>1. i \in S /\ i \in Int /\ \A y \in S : y \in Int /\ i >= y
    BY DEF Newer
  <1>2. \A x \in S : (\A y \in S : x >= y) => x = i
    BY <1>1
  <1> QED BY <1>1, <1>2 DEF Max

LEMMA TableImplied == TableInv => HistoryReplays
  <1> SUFFICES ASSUME TableInv, NEW id \in RowIds
               PROVE  IF id \in DOMAIN rows
                      THEN /\ EntriesOf(id) # {} /\ \A i \in EntriesOf(id) : log[i].change # "deleted"
                           /\ \A c \in Columns : rows[id].values[c] = ReplayedColumn(id, c)
                      ELSE EntriesOf(id) # {} =>
                              /\ History(id).change = "deleted"
                              /\ \A i, j \in EntriesOf(id) :
                                    i < j /\ log[i].change = "deleted" => log[j].change = "deleted"
    BY DEF HistoryReplays
  <1>1. EntriesOf(id) \subseteq Int /\ \A c : Setters(id, c) \subseteq Int
    BY DEF TableInv, TableType, EntriesOf, Setters
  <1>2. Replays(id)
    BY DEF TableInv
  <1>3. ASSUME id \in DOMAIN rows, NEW c \in Columns
        PROVE  rows[id].values[c] = ReplayedColumn(id, c)
    <2>1. CASE Setters(id, c) # {}
      <3>1. PICK i \in Setters(id, c) : Newer(Setters(id, c), i) /\ log[i].diff[c].to = rows[id].values[c]
        BY <1>2, <1>3, <2>1 DEF Replays
      <3>2. Max(Setters(id, c)) = i
        BY <1>1, <3>1, MaxIsNewest
      <3> QED BY <2>1, <3>1, <3>2 DEF ReplayedColumn
    <2>2. CASE Setters(id, c) = {} /\ c = "yaml_content"
      <3>1. PICK i : First(id, i) /\ rows[id].values["yaml_content"] = log[i].yaml
        BY <1>2, <1>3, <2>2 DEF Replays
      <3>2. Creation(id) = i
        BY <3>1 DEF First, Creation
      <3> QED BY <2>2, <3>1, <3>2 DEF ReplayedColumn
    <2>3. CASE Setters(id, c) = {} /\ c = "profile_id"
      BY <1>2, <1>3, <2>3 DEF Replays, ReplayedColumn
    <2> QED BY <2>1, <2>2, <2>3 DEF Columns
  <1>4. ASSUME id \in DOMAIN rows
        PROVE  EntriesOf(id) # {} /\ \A i \in EntriesOf(id) : log[i].change # "deleted"
    BY <1>2, <1>4 DEF Replays
  <1>5. ASSUME id \notin DOMAIN rows, EntriesOf(id) # {}
        PROVE  /\ History(id).change = "deleted"
               /\ \A i, j \in EntriesOf(id) :
                     i < j /\ log[i].change = "deleted" => log[j].change = "deleted"
    <2>1. PICK i \in EntriesOf(id) : Newer(EntriesOf(id), i) /\ log[i].change = "deleted"
      BY <1>2, <1>5 DEF Replays
    <2>2. Max(EntriesOf(id)) = i
      BY <1>1, <2>1, MaxIsNewest
    <2> QED BY <1>2, <1>5, <2>1, <2>2 DEF Replays, History
  <1> QED BY <1>3, <1>4, <1>5

LEMMA TableInit == RInit => TableInv
  BY DEF RInit, TableInv, TableType, Replays, EntriesOf, Setters, WriteType

\* What one more entry in the log does to the entries of every rule.
LEMMA LogGrows ==
    ASSUME TableType, NEW e \in LogType, log' = Append(log, e)
    PROVE  /\ log' \in Seq(LogType) /\ Len(log) \in Nat
           /\ log'[Len(log) + 1] = e /\ \A i \in 1 .. Len(log) : log'[i] = log[i]
           /\ \A id : EntriesOf(id) \subseteq 1 .. Len(log)
           /\ \A id : EntriesOf(id)' = IF e.id = id THEN EntriesOf(id) \cup {Len(log) + 1}
                                       ELSE EntriesOf(id)
           /\ \A id, c : Setters(id, c)' = IF e.id = id /\ c \in DOMAIN e.diff
                                           THEN Setters(id, c) \cup {Len(log) + 1}
                                           ELSE Setters(id, c)
  <1>1. log \in Seq(LogType) /\ Len(log) \in Nat /\ DOMAIN log = 1 .. Len(log)
    BY DEF TableType
  <1>2. /\ log' \in Seq(LogType) /\ Len(log') = Len(log) + 1 /\ log'[Len(log) + 1] = e
        /\ \A i \in 1 .. Len(log) : log'[i] = log[i]
    BY <1>1, AppendProperties
  <1>3. DOMAIN log' = 1 .. Len(log) + 1
    BY <1>1, <1>2
  <1>4. \A id : EntriesOf(id)' = IF e.id = id THEN EntriesOf(id) \cup {Len(log) + 1} ELSE EntriesOf(id)
    BY <1>1, <1>2, <1>3 DEF EntriesOf
  <1>5. \A id : EntriesOf(id) \subseteq 1 .. Len(log)
    BY <1>1 DEF EntriesOf
  <1>6. \A id, c : Setters(id, c)' = IF e.id = id /\ c \in DOMAIN e.diff
                                     THEN Setters(id, c) \cup {Len(log) + 1} ELSE Setters(id, c)
    BY <1>1, <1>2, <1>4, <1>5 DEF Setters
  <1> QED BY <1>1, <1>2, <1>4, <1>5, <1>6

\* A write of one rule leaves the others and their entries as they are.
LEMMA WriteKeeps ==
    ASSUME TableInv, NEW e \in LogType, log' = Append(log, e), NEW id \in RowIds, e.id = id,
           DOMAIN rows' \subseteq RowIds, DOMAIN rows' \subseteq DOMAIN born',
           \A x \in RowIds : x # id =>
              /\ x \in DOMAIN rows' <=> x \in DOMAIN rows
              /\ x \in DOMAIN rows => rows'[x] = rows[x] /\ born'[x] = born[x],
           id \in DOMAIN rows' => rows'[id] \in RowType,
           request' \in [Admins -> WriteType], Replays(id)'
    PROVE  TableInv'
  <1>1. TableType
    BY DEF TableInv
  <1>2. TableType'
    <2>1. log' \in Seq(LogType)
      BY <1>1, LogGrows
    <2> QED BY <1>1, <2>1 DEF TableType
  <1>3. ASSUME NEW x \in RowIds, x # id
        PROVE  Replays(x)'
    <2>1. /\ EntriesOf(x)' = EntriesOf(x) /\ EntriesOf(x) \subseteq 1 .. Len(log)
          /\ \A c : Setters(x, c)' = Setters(x, c)
          /\ \A i \in 1 .. Len(log) : log'[i] = log[i]
      BY <1>1, <1>3, LogGrows
    <2>2. \A c : Setters(x, c) \subseteq 1 .. Len(log)
      BY <2>1 DEF Setters
    <2>3. Replays(x)
      BY DEF TableInv
    <2>4. \A i \in EntriesOf(x) : log'[i] = log[i]
      BY <2>1
    <2>5. \A c : \A i \in Setters(x, c) : log'[i] = log[i]
      BY <2>1, <2>2
    <2>6. \A i : First(x, i)' <=> First(x, i)
      BY <2>1, <2>4 DEF First
    <2> HIDE DEF First
    <2>7. ASSUME x \in DOMAIN rows
          PROVE  Replays(x)'
      <3>1. x \in DOMAIN rows' /\ rows'[x] = rows[x] /\ born'[x] = born[x]
        BY <1>3, <2>7
      <3>2. \A i \in EntriesOf(x)' : log'[i].change # "deleted"
        BY <2>1, <2>3, <2>4, <2>7 DEF Replays
      <3>3. \A c \in Columns : Setters(x, c)' # {} => \E i \in Setters(x, c)' :
                Newer(Setters(x, c)', i) /\ log'[i].diff[c].to = rows'[x].values[c]
        <4> TAKE c \in Columns
        <4> HAVE Setters(x, c)' # {}
        <4>1. PICK i \in Setters(x, c) :
                 (\A j \in Setters(x, c) : j <= i) /\ log[i].diff[c].to = rows[x].values[c]
          BY <2>1, <2>3, <2>7 DEF Replays, Newer
        <4>2. log'[i] = log[i] /\ Setters(x, c)' = Setters(x, c)
          BY <2>1, <2>5
        <4> QED BY <3>1, <4>1, <4>2 DEF Newer
      <3>4. PICK i \in EntriesOf(x) :
               /\ First(x, i)
               /\ Setters(x, "yaml_content") = {} => rows[x].values["yaml_content"] = log[i].yaml
        BY <2>3, <2>7 DEF Replays
      <3>5. /\ i \in EntriesOf(x)' /\ First(x, i)'
            /\ Setters(x, "yaml_content")' = {} => rows'[x].values["yaml_content"] = log'[i].yaml
        BY <2>1, <2>4, <2>6, <3>1, <3>4
      <3>6. Setters(x, "profile_id")' = {} => rows'[x].values["profile_id"] = born'[x]
        BY <2>1, <2>3, <2>7, <3>1 DEF Replays
      <3> HIDE DEF Newer
      <3> QED BY <3>1, <3>2, <3>3, <3>5, <3>6 DEF Replays
    <2>8. ASSUME x \notin DOMAIN rows
          PROVE  Replays(x)'
      BY <1>3, <2>1, <2>3, <2>4, <2>8 DEF Replays, Newer
    <2> QED BY <2>7, <2>8
  <1> QED BY <1>2, <1>3 DEF TableInv

LEMMA CreateReplays ==
    ASSUME TableInv, NEW id \in RowIds, NEW values \in Values, CreateRule(id, values)
    PROVE  TableInv'
  <1> DEFINE e == [id |-> id, change |-> "created", version |-> 1, diff |-> <<>>,
                   yaml |-> values["yaml_content"]]
  <1>1. /\ id \notin DOMAIN rows /\ \A i \in DOMAIN log : log[i].id # id
        /\ log' = Append(log, e) /\ UNCHANGED request
        /\ rows' = [x \in DOMAIN rows \cup {id} |-> IF x = id THEN NewRow(values) ELSE rows[x]]
        /\ born' = [x \in DOMAIN born \cup {id} |-> IF x = id THEN values["profile_id"] ELSE born[x]]
    BY DEF CreateRule, InsertRule, Logged
  <1>2. e \in LogType /\ NewRow(values) \in RowType
    <2>1. << >> \in ChangeType /\ values["yaml_content"] \in Contents
      <3>1. << >> \in [{} -> [from : Contents, to : Contents]]
        OBVIOUS
      <3>2. << >> \in ChangeType
        BY <3>1 DEF ChangeType
      <3> QED BY <3>2 DEF Values, Columns
    <2> QED BY <2>1 DEF LogType, NewRow, RowType, Values
  <1>9. e.id = id /\ e.change = "created" /\ e.yaml = values["yaml_content"] /\ DOMAIN e.diff = {}
    OBVIOUS
  <1> HIDE DEF e
  <1>3. TableType
    BY DEF TableInv
  <1>12. PICK n : n = Len(log) + 1
    OBVIOUS
  <1>4. /\ EntriesOf(id)' = {n} /\ log'[n] = e
        /\ \A c \in Columns : Setters(id, c)' = {}
    <2>1. EntriesOf(id) = {} /\ \A c : Setters(id, c) = {}
      BY <1>1 DEF EntriesOf, Setters
    <2> QED BY <1>1, <1>2, <1>3, <1>9, <1>12, <2>1, LogGrows
  <1>5. rows'[id].values = values /\ born'[id] = values["profile_id"]
        /\ id \in DOMAIN rows'
    BY <1>1 DEF NewRow
  <1>10. First(id, n)'
    BY <1>4, <1>9 DEF First
  <1>11. Replays(id)'
    <2> HIDE DEF First
    <2> QED BY <1>4, <1>5, <1>9, <1>10 DEF Replays, Columns
  <1>6. request' \in [Admins -> WriteType] /\ DOMAIN rows' \subseteq RowIds
        /\ DOMAIN rows' \subseteq DOMAIN born'
    BY <1>1, <1>3 DEF TableType
  <1>7. rows'[id] \in RowType
    BY <1>1, <1>2
  <1>8. \A x \in RowIds : x # id =>
              /\ x \in DOMAIN rows' <=> x \in DOMAIN rows
              /\ x \in DOMAIN rows => rows'[x] = rows[x] /\ born'[x] = born[x]
    BY <1>1, <1>3 DEF TableType
  <1> QED BY <1>1, <1>2, <1>6, <1>7, <1>8, <1>9, <1>11, WriteKeeps

LEMMA TableStays ==
    ASSUME TableInv, UNCHANGED <<rows, log, born>>, request' \in [Admins -> WriteType]
    PROVE  TableInv'
  <1>1. TableType'
    BY DEF TableInv, TableType
  <1>2. \A x : EntriesOf(x)' = EntriesOf(x) /\ \A c : Setters(x, c)' = Setters(x, c)
    BY DEF EntriesOf, Setters
  <1>3. ASSUME NEW x \in RowIds
        PROVE  Replays(x)'
    <2>1. Replays(x)
      BY DEF TableInv
    <2>2. \A i : First(x, i)' <=> First(x, i)
      BY <1>2 DEF First
    <2> QED BY <1>2, <2>1, <2>2 DEF Replays, Newer
  <1> QED BY <1>1, <1>3 DEF TableInv

LEMMA BeginReplays ==
    ASSUME TableInv, NEW a \in Admins, NEW id \in RowIds,
           (\E fields \in DiffType : BeginUpdate(a, id, fields)) \/ BeginDelete(a, id)
    PROVE  TableInv'
  <1>1. id \in DOMAIN rows /\ rows[id] \in RowType /\ UNCHANGED <<rows, log, born>>
    BY DEF BeginUpdate, BeginDelete, TableInv, TableType
  <1>2. PICK q \in WriteType : request' = [request EXCEPT ![a] = q]
    BY <1>1 DEF BeginUpdate, BeginDelete, WriteType
  <1>3. request' \in [Admins -> WriteType]
    BY <1>2 DEF TableInv, TableType
  <1> QED BY <1>1, <1>3, TableStays

LEMMA RequestEnds ==
    ASSUME TableInv, NEW a \in Admins, request' = [request EXCEPT ![a] = NoRequest]
    PROVE  request' \in [Admins -> WriteType]
  BY DEF TableInv, TableType, WriteType

LEMMA UpdateReplays ==
    ASSUME TableInv, NEW a \in Admins, CommitUpdate(a)
    PROVE  TableInv'
  <1>0. PICK q, id : q = request[a] /\ id = q.id
    OBVIOUS
  <1> DEFINE r  == [values  |-> [c \in Columns |-> IF c \in Diff(q) THEN q.fields[c] ELSE rows[id].values[c]],
                    version |-> IF NewVersion(q) # q.seen.version THEN NewVersion(q) ELSE rows[id].version]
  <1>1. request' = [request EXCEPT ![a] = NoRequest] /\ q.op = "update"
    BY <1>0 DEF CommitUpdate
  <1>2. q \in [op : {"update"}, id : RowIds, fields : DiffType, seen : RowType]
    BY <1>0, <1>1 DEF TableInv, TableType, WriteType, NoRequest
  <1>3. PICK cs \in SUBSET Columns : q.fields \in [cs -> Contents]
    BY <1>2 DEF DiffType
  <1>4. id \in RowIds /\ q.seen \in RowType
    BY <1>0, <1>2
  <1>5. NewVersion(q) \in Nat /\ Diff(q) \subseteq cs
    <2>1. q.seen.version \in Nat
      BY <1>4 DEF RowType
    <2> QED BY <1>3, <2>1 DEF NewVersion, Diff
  <1>6. CASE id \in DOMAIN rows
    <2>1. PICK e : /\ rows' = [rows EXCEPT ![id] = r] /\ log' = Append(log, e)
                   /\ e = [id |-> id, change |-> "updated", version |-> NewVersion(q),
                           diff |-> [c \in Diff(q) |-> [from |-> q.seen.values[c], to |-> q.fields[c]]],
                           yaml |-> IF "yaml_content" \in DOMAIN q.fields THEN q.fields["yaml_content"]
                                    ELSE q.seen.values["yaml_content"]]
      BY <1>0, <1>6 DEF CommitUpdate, LogUpdate, Logged
    <2>16. born' = born
      BY DEF CommitUpdate
    <2>2. rows[id] \in RowType
      BY <1>6 DEF TableInv, TableType
    <2>3. r \in RowType
      BY <1>3, <1>5, <2>2 DEF RowType
    <2>4. e \in LogType
      <3>1. \A c \in Columns : q.seen.values[c] \in Contents
        BY <1>4 DEF RowType
      <3>2. [c \in Diff(q) |-> [from |-> q.seen.values[c], to |-> q.fields[c]]]
               \in [Diff(q) -> [from : Contents, to : Contents]]
        BY <1>3, <1>5, <3>1
      <3>3. e.diff \in ChangeType
        BY <1>3, <1>5, <2>1, <3>2 DEF ChangeType
      <3>4. e.yaml \in Contents
        BY <1>3, <2>1, <3>1 DEF Columns
      <3> QED BY <1>4, <1>5, <2>1, <3>3, <3>4 DEF LogType
    <2>5. /\ e.id = id /\ e.change = "updated" /\ DOMAIN e.diff = Diff(q)
          /\ \A c \in Diff(q) : e.diff[c].to = q.fields[c]
      BY <2>1
    <2>6. \A c \in Columns : r.values[c] = IF c \in Diff(q) THEN q.fields[c] ELSE rows[id].values[c]
      OBVIOUS
    <2> HIDE DEF r
    <2>7. TableType
      BY DEF TableInv
    <2>8. /\ EntriesOf(id)' = EntriesOf(id) \cup {Len(log) + 1} /\ Len(log) \in Nat
          /\ log'[Len(log) + 1] = e /\ EntriesOf(id) \subseteq 1 .. Len(log)
          /\ \A i \in 1 .. Len(log) : log'[i] = log[i]
          /\ \A c : Setters(id, c)' = IF c \in Diff(q) THEN Setters(id, c) \cup {Len(log) + 1}
                                      ELSE Setters(id, c)
      BY <2>1, <2>4, <2>5, <2>7, LogGrows
    <2>9. Replays(id)
      BY <1>4 DEF TableInv
    <2>10. rows'[id] = r /\ DOMAIN rows' = DOMAIN rows
      BY <1>6, <2>1
    <2>17. \A c : Setters(id, c) \subseteq 1 .. Len(log)
      BY <2>8 DEF Setters
    <2>18. \A c \in Columns : Setters(id, c)' = {} =>
              c \notin Diff(q) /\ Setters(id, c) = {} /\ rows'[id].values[c] = rows[id].values[c]
      BY <2>6, <2>8, <2>10
    <2>11. ASSUME NEW c \in Columns, Setters(id, c)' # {}
           PROVE  \E i \in Setters(id, c)' :
                     Newer(Setters(id, c)', i) /\ log'[i].diff[c].to = rows'[id].values[c]
      <3>1. CASE c \in Diff(q)
        BY <2>5, <2>6, <2>8, <2>10, <2>17, <3>1 DEF Newer
      <3>2. CASE c \notin Diff(q)
        <4>1. Setters(id, c)' = Setters(id, c) /\ rows'[id].values[c] = rows[id].values[c]
          BY <2>6, <2>8, <2>10, <3>2
        <4>2. PICK i \in Setters(id, c) : Newer(Setters(id, c), i) /\ log[i].diff[c].to = rows[id].values[c]
          BY <1>6, <2>9, <2>11, <4>1 DEF Replays
        <4> QED BY <2>8, <2>17, <4>1, <4>2 DEF Newer
      <3> QED BY <3>1, <3>2
    <2>12. \A i \in EntriesOf(id)' : log'[i].change # "deleted"
      BY <1>6, <2>5, <2>8, <2>9 DEF Replays
    <2>19. \E i \in EntriesOf(id)' :
              /\ First(id, i)'
              /\ Setters(id, "yaml_content")' = {} => rows'[id].values["yaml_content"] = log'[i].yaml
      <3>1. PICK i \in EntriesOf(id) :
              /\ First(id, i)
              /\ Setters(id, "yaml_content") = {} => rows[id].values["yaml_content"] = log[i].yaml
        BY <1>6, <2>9 DEF Replays
      <3>2. First(id, i)' /\ i \in EntriesOf(id)' /\ log'[i] = log[i]
        BY <2>5, <2>8, <3>1 DEF First
      <3> QED BY <2>18, <3>1, <3>2 DEF Columns
    <2>20. Setters(id, "profile_id")' = {} => rows'[id].values["profile_id"] = born'[id]
      BY <1>6, <2>9, <2>16, <2>18 DEF Replays, Columns
    <2>13. Replays(id)'
      <3> HIDE DEF Newer, First
      <3> QED BY <1>6, <2>10, <2>11, <2>12, <2>19, <2>20 DEF Replays
    <2>14. request' \in [Admins -> WriteType]
      BY <1>1, RequestEnds
    <2>15. /\ DOMAIN rows' \subseteq RowIds /\ DOMAIN rows' \subseteq DOMAIN born'
           /\ \A x \in RowIds : x # id =>
                /\ x \in DOMAIN rows' <=> x \in DOMAIN rows
                /\ x \in DOMAIN rows => rows'[x] = rows[x] /\ born'[x] = born[x]
      BY <2>1, <2>7, <2>16 DEF TableType
    <2> QED BY <1>4, <2>1, <2>3, <2>4, <2>5, <2>10, <2>13, <2>14, <2>15, WriteKeeps
  <1>7. CASE id \notin DOMAIN rows
    <2>1. UNCHANGED <<rows, log, born>>
      BY <1>0, <1>7 DEF CommitUpdate
    <2>2. request' \in [Admins -> WriteType]
      BY <1>1, RequestEnds
    <2> QED BY <2>1, <2>2, TableStays
  <1> QED BY <1>6, <1>7

LEMMA DeleteReplays ==
    ASSUME TableInv, NEW a \in Admins, CommitDelete(a)
    PROVE  TableInv'
  <1>0. PICK q, id : q = request[a] /\ id = q.id
    OBVIOUS
  <1>1. PICK e :
        /\ e = [id |-> id, change |-> "deleted", version |-> q.seen.version, diff |-> <<>>,
                yaml |-> q.seen.values["yaml_content"]]
        /\ request' = [request EXCEPT ![a] = NoRequest] /\ q.op = "delete"
        /\ rows' = [x \in DOMAIN rows \ {id} |-> rows[x]] /\ log' = Append(log, e)
    BY <1>0 DEF CommitDelete, Logged
  <1>2. id \in RowIds /\ q.seen \in RowType
    BY <1>0, <1>1 DEF TableInv, TableType, WriteType, NoRequest
  <1>3. e \in LogType
    <2>1. << >> \in [{} -> [from : Contents, to : Contents]]
      OBVIOUS
    <2>2. << >> \in ChangeType
      BY <2>1 DEF ChangeType
    <2>3. q.seen.version \in Nat /\ q.seen.values["yaml_content"] \in Contents
      BY <1>2 DEF RowType, Columns
    <2> QED BY <1>1, <1>2, <2>2, <2>3 DEF LogType
  <1>4. e.id = id /\ e.change = "deleted"
    BY <1>1
  <1>5. TableType
    BY DEF TableInv
  <1>6. /\ EntriesOf(id)' = EntriesOf(id) \cup {Len(log) + 1} /\ Len(log) \in Nat
        /\ log'[Len(log) + 1] = e /\ EntriesOf(id) \subseteq 1 .. Len(log)
        /\ \A i \in 1 .. Len(log) : log'[i] = log[i]
    BY <1>1, <1>3, <1>4, <1>5, LogGrows
  <1>7. Replays(id)
    BY <1>2 DEF TableInv
  <1>13. born' = born
    BY DEF CommitDelete
  <1>8. /\ id \notin DOMAIN rows' /\ DOMAIN rows' \subseteq RowIds /\ DOMAIN rows' \subseteq DOMAIN born'
        /\ \A x \in RowIds : x # id =>
              /\ x \in DOMAIN rows' <=> x \in DOMAIN rows
              /\ x \in DOMAIN rows => rows'[x] = rows[x] /\ born'[x] = born[x]
    BY <1>1, <1>5, <1>13 DEF TableType
  <1>9. \A i, j \in EntriesOf(id)' : i < j /\ log'[i].change = "deleted" => log'[j].change = "deleted"
    BY <1>4, <1>6, <1>7 DEF Replays
  <1>10. Newer(EntriesOf(id)', Len(log) + 1)
    BY <1>6 DEF Newer
  <1>11. Replays(id)'
    <2> HIDE DEF Newer
    <2> QED BY <1>4, <1>6, <1>8, <1>9, <1>10 DEF Replays
  <1>12. request' \in [Admins -> WriteType]
    BY <1>1, RequestEnds
  <1> QED BY <1>1, <1>2, <1>3, <1>4, <1>8, <1>11, <1>12, WriteKeeps

LEMMA TableNext ==
    ASSUME TableInv, [RNext]_ruleVars
    PROVE  TableInv'
  <1>1. ASSUME UNCHANGED tableVars
        PROVE  TableInv'
    BY <1>1, TableStays DEF tableVars, TableInv, TableType
  <1>2. CASE RestartServer
    <2>1. UNCHANGED <<rows, log, born>> /\ request' = [a \in Admins |-> NoRequest]
      BY <1>2 DEF RestartServer
    <2> QED BY <2>1, TableStays DEF WriteType
  <1>3. Updates \subseteq DiffType
    BY DEF Updates, DiffType
  <1>4. \A profile \in Contents : [c \in {"profile_id"} |-> profile] \in DiffType
    <2> TAKE profile \in Contents
    <2>1. {"profile_id"} \in SUBSET Columns
      BY DEF Columns
    <2>2. [c \in {"profile_id"} |-> profile] \in [{"profile_id"} -> Contents]
      OBVIOUS
    <2> QED BY <2>1, <2>2 DEF DiffType
  <1>5. \A content \in Contents : [c \in {"yaml_content"} |-> content] \in DiffType
    <2> TAKE content \in Contents
    <2>1. {"yaml_content"} \in SUBSET Columns
      BY DEF Columns
    <2>2. [c \in {"yaml_content"} |-> content] \in [{"yaml_content"} -> Contents]
      OBVIOUS
    <2> QED BY <2>1, <2>2 DEF DiffType
  <1>6. CASE RulesCli
    BY <1>5, <1>6, CreateReplays, BeginReplays DEF RulesCli
  <1>7. ASSUME NEW a \in Admins, NEW id \in RowIds, NEW profile \in Contents, AssignProfile(a, id, profile)
        PROVE  TableInv'
    BY <1>4, <1>7, BeginReplays DEF AssignProfile
  <1>8. ASSUME NEW a \in Admins, NEW id \in RowIds, NEW fields \in Updates, BeginUpdate(a, id, fields)
        PROVE  TableInv'
    BY <1>3, <1>8, BeginReplays
  <1>9. CASE \/ \E d \in RuleFiles : WriteRule(d)
             \/ ReloadRules \/ \E ev \in Events : Evaluate(ev)
             \/ PeriodicPurge \/ Tick \/ UNCHANGED ruleVars
    BY <1>1, <1>9 DEF WriteRule, ReloadRules, Evaluate, PeriodicPurge, Tick, ruleVars
  <1> QED BY <1>2, <1>6, <1>7, <1>8, <1>9, CreateReplays, BeginReplays, UpdateReplays, DeleteReplays DEF RNext

\* The history of a rule accounts for the rule, for any number of overlapping
\* requests, rows and contents: replaying the changes logged for it gives its
\* columns, and a history that has a deletion ends with deletions
\* (storage/repositories/rules.py, update and delete).
THEOREM HistoryIsKept == RSpec => []HistoryReplays
  <1>1. RInit => TableInv
    BY TableInit
  <1>2. TableInv /\ [RNext]_ruleVars => TableInv'
    BY TableNext
  <1>3. TableInv => HistoryReplays
    BY TableImplied
  <1> QED BY <1>1, <1>2, <1>3, PTL DEF RSpec

(***************************************************************************)
(* Temporal windows.  A window holds events of the history that its rule   *)
(* may record for its key, in order; and of those it must record, what it  *)
(* does not hold is older than the timeframe or did not fit.               *)
(***************************************************************************)

WindowType  == Seq([ts : Nat, kind : {ev.kind : ev \in Events}])
HistoryType == Seq([ts : Nat, ev : Events])

Ordered(h, t) ==
    /\ \A i, j \in 1 .. Len(h) : i <= j => h[i].ts <= h[j].ts
    /\ \A i \in 1 .. Len(h) : h[i].ts <= t

Matching(h, E) == {i \in 1 .. Len(h) : h[i].ev \in E}

\* f tells where in the history every entry of the window comes from.
Embeds(f, w, h, may) ==
    /\ f \in [1 .. Len(w) -> Matching(h, may)]
    /\ \A i, j \in 1 .. Len(w) : i < j => f[i] < f[j]
    /\ \A j \in 1 .. Len(w) : w[j].ts = h[f[j]].ts /\ w[j].kind = h[f[j]].ev.kind

Complete(f, w, h, t, tf, must) ==
    \A i \in Matching(h, must) :
        \/ \E j \in 1 .. Len(w) : f[j] = i
        \/ /\ \A j \in 1 .. Len(w) : i < f[j]
           /\ h[i].ts >= t - tf => Len(w) >= MaxWindow

Follows(w, h, t, tf, may, must) == \E f : Embeds(f, w, h, may) /\ Complete(f, w, h, t, tf, must)

\* Where nothing must be recorded, time and timeframe do not matter.
LEMMA NoneMissing ==
    ASSUME NEW w, NEW h, NEW t, NEW u, NEW tf, NEW tg, NEW may, Follows(w, h, t, tf, may, {})
    PROVE  Follows(w, h, u, tg, may, {})
  BY DEF Follows, Complete, Matching

LEMMA RangeSize ==
    ASSUME NEW n \in Nat
    PROVE  IsFiniteSet(1 .. n) /\ Cardinality(1 .. n) = n
  BY FS_Interval

\* A finite set of numbers that goes down to one, as a range.
LEMMA DownwardClosed ==
    ASSUME NEW n \in Nat, NEW D \in SUBSET (1 .. n), \A x \in D : 1 .. x \subseteq D
    PROVE  Cardinality(D) \in 0 .. n /\ D = 1 .. Cardinality(D)
  <1> DEFINE m == Cardinality(D)
  <1>1. /\ IsFiniteSet(1 .. n) /\ Cardinality(1 .. n) = n
    BY FS_Interval
  <1>2. /\ IsFiniteSet(D) /\ m \in Nat /\ m <= n
    <2>1. IsFiniteSet(D) /\ Cardinality(D) <= Cardinality(1 .. n)
      BY <1>1, FS_Subset
    <2>2. Cardinality(D) \in Nat
      BY <2>1, FS_CardinalityType
    <2> QED BY <1>1, <2>1, <2>2
  <1>3. IsFiniteSet(1 .. m) /\ Cardinality(1 .. m) = m
    BY <1>2, FS_Interval
  <1>4. ASSUME NEW x \in D
        PROVE  x \in 1 .. m
    <2>1. x \in Nat /\ x >= 1 /\ IsFiniteSet(1 .. x) /\ Cardinality(1 .. x) = x
      BY FS_Interval
    <2>2. x <= m
      BY <1>2, <2>1, FS_Subset
    <2> QED BY <1>2, <2>1, <2>2
  <1>5. D \subseteq 1 .. m
    BY <1>4
  <1>6. D = 1 .. m
    BY <1>3, <1>5, FS_Subset
  <1> QED BY <1>2, <1>6

\* The end of a window, from entry m + 1 on.
LEMMA EndOfWindow ==
    ASSUME NEW w \in WindowType, NEW m \in 0 .. Len(w)
    PROVE  /\ Len(w) \in Nat
           /\ SubSeq(w, m + 1, Len(w)) \in WindowType
           /\ Len(SubSeq(w, m + 1, Len(w))) = Len(w) - m
           /\ \A j \in 1 .. Len(w) - m : SubSeq(w, m + 1, Len(w))[j] = w[m + j]
  <1> DEFINE S == [ts : Nat, kind : {ev.kind : ev \in Events}]
  <1>1. w \in Seq(S) /\ Len(w) \in Nat /\ m \in Nat
    BY DEF WindowType
  <1> HIDE DEF S
  <1>2. \A j \in m + 1 .. Len(w) : w[j] \in S
    BY <1>1
  <1>3. /\ SubSeq(w, m + 1, Len(w)) \in Seq(S)
        /\ Len(SubSeq(w, m + 1, Len(w))) = IF m + 1 <= Len(w) THEN Len(w) - (m + 1) + 1 ELSE 0
        /\ \A j \in 1 .. Len(w) - (m + 1) + 1 : SubSeq(w, m + 1, Len(w))[j] = w[(m + 1) + j - 1]
    BY <1>1, <1>2, SubSeqProperties
  <1>4. Len(SubSeq(w, m + 1, Len(w))) = Len(w) - m
    BY <1>1, <1>3
  <1>5. ASSUME NEW j \in 1 .. Len(w) - m
        PROVE  SubSeq(w, m + 1, Len(w))[j] = w[m + j]
    <2>1. (m + 1) + j - 1 = m + j /\ j \in 1 .. Len(w) - (m + 1) + 1
      BY <1>1
    <2> QED BY <1>3, <2>1
  <1> QED BY <1>1, <1>3, <1>4, <1>5 DEF S, WindowType

LEMMA WindowEntries ==
    ASSUME NEW w \in WindowType
    PROVE  /\ Len(w) \in Nat /\ DOMAIN w = 1 .. Len(w)
           /\ \A j \in 1 .. Len(w) : w[j].ts \in Nat
  <1> DEFINE S == [ts : Nat, kind : {ev.kind : ev \in Events}]
  <1>1. w \in Seq(S)
    BY DEF WindowType
  <1>2. \A x \in S : x.ts \in Nat
    OBVIOUS
  <1> HIDE DEF S
  <1> QED BY <1>1, <1>2

\* Pruning takes away the leading old entries, and nothing old is left in a
\* window in order.
LEMMA Cut ==
    ASSUME NEW w \in WindowType, NEW c \in Int
    PROVE  LET m == Cardinality(Leading(w, c))
           IN  /\ m \in 0 .. Len(w) /\ \A j \in 1 .. m : w[j].ts < c
               /\ m < Len(w) => w[m + 1].ts >= c
  <1> DEFINE m == Cardinality(Leading(w, c))
  <1>1. Len(w) \in Nat /\ DOMAIN w = 1 .. Len(w) /\ \A j \in 1 .. Len(w) : w[j].ts \in Nat
    BY WindowEntries
  <1>2. Leading(w, c) \in SUBSET (1 .. Len(w)) /\ \A x \in Leading(w, c) : 1 .. x \subseteq Leading(w, c)
    <2>1. Leading(w, c) \in SUBSET (1 .. Len(w))
      BY <1>1 DEF Leading
    <2>2. ASSUME NEW x \in Leading(w, c), NEW y \in 1 .. x
          PROVE  y \in Leading(w, c)
      <3>1. x \in 1 .. Len(w) /\ \A j \in 1 .. x : w[j].ts < c
        BY <1>1, <2>2 DEF Leading
      <3>2. y \in 1 .. Len(w) /\ \A j \in 1 .. y : j \in 1 .. x
        BY ONLY <1>1, <3>1, y \in 1 .. x
      <3> QED BY <1>1, <3>1, <3>2 DEF Leading
    <2> QED BY <2>1, <2>2
  <1>3. m \in 0 .. Len(w) /\ Leading(w, c) = 1 .. m
    BY <1>1, <1>2, DownwardClosed
  <1> HIDE DEF m
  <1>4. \A j \in 1 .. m : w[j].ts < c
    BY <1>1, <1>3 DEF Leading
  <1>5. ASSUME m < Len(w)
        PROVE  w[m + 1].ts >= c
    <2>1. m + 1 \notin Leading(w, c) /\ m + 1 \in 1 .. Len(w)
      BY <1>1, <1>3, <1>5
    <2>2. \A i \in 1 .. m + 1 : i \in 1 .. m \/ i = m + 1
      BY <1>1, <1>3
    <2>3. ~ (w[m + 1].ts < c)
      BY <1>1, <1>4, <2>1, <2>2 DEF Leading
    <2> QED BY <1>1, <2>1, <2>3
  <1> QED BY <1>3, <1>4, <1>5 DEF m

\* The times of a history are numbers, in order.
LEMMA HistoryEntries ==
    ASSUME NEW h \in HistoryType
    PROVE  /\ Len(h) \in Nat
           /\ \A i \in 1 .. Len(h) : h[i].ts \in Nat /\ h[i].ev \in Events
  <1> DEFINE S == [ts : Nat, ev : Events]
  <1>1. h \in Seq(S)
    BY DEF HistoryType
  <1>2. \A x \in S : x.ts \in Nat /\ x.ev \in Events
    OBVIOUS
  <1> HIDE DEF S
  <1> QED BY <1>1, <1>2

\* Taking old entries from the front of a window loses nothing that counts.
LEMMA DropFollows ==
    ASSUME NEW w \in WindowType, NEW h \in HistoryType, NEW t \in Nat, NEW tf \in Int, NEW may, NEW must,
           Ordered(h, t), Follows(w, h, t, tf, may, must),
           NEW m \in 0 .. Len(w), \A j \in 1 .. m : w[j].ts < t - tf
    PROVE  Follows(SubSeq(w, m + 1, Len(w)), h, t, tf, may, must)
  <1> DEFINE v == SubSeq(w, m + 1, Len(w))
             M == Matching(h, may)
             K == Matching(h, must)
  <1>1. PICK f : Embeds(f, w, h, may) /\ Complete(f, w, h, t, tf, must)
    BY DEF Follows
  <1> DEFINE g == [j \in 1 .. Len(v) |-> f[m + j]]
  <1>2. /\ Len(w) \in Nat /\ m \in Nat /\ Len(v) = Len(w) - m
        /\ \A j \in 1 .. Len(v) : v[j] = w[m + j]
    BY EndOfWindow
  <1>3. /\ Len(h) \in Nat /\ \A i \in 1 .. Len(h) : h[i].ts \in Nat
    BY HistoryEntries
  <1>4. M \subseteq 1 .. Len(h) /\ K \subseteq 1 .. Len(h)
    BY DEF Matching
  <1> HIDE DEF v, M, K
  <1>5. /\ f \in [1 .. Len(w) -> M]
        /\ \A i, j \in 1 .. Len(w) : i < j => f[i] < f[j]
        /\ \A j \in 1 .. Len(w) : w[j].ts = h[f[j]].ts /\ w[j].kind = h[f[j]].ev.kind
    BY <1>1 DEF Embeds, M
  <1>6. \A j \in 1 .. Len(v) : m + j \in 1 .. Len(w) /\ g[j] = f[m + j]
    BY <1>2
  <1>7. Embeds(g, v, h, may)
    <2>1. g \in [1 .. Len(v) -> M]
      BY <1>5, <1>6
    <2>2. ASSUME NEW i \in 1 .. Len(v), NEW j \in 1 .. Len(v), i < j
          PROVE  g[i] < g[j]
      BY <1>2, <1>5, <1>6, <2>2
    <2>3. \A j \in 1 .. Len(v) : v[j].ts = h[g[j]].ts /\ v[j].kind = h[g[j]].ev.kind
      BY <1>2, <1>5, <1>6
    <2> QED BY <2>1, <2>2, <2>3 DEF Embeds, M
  <1>8. ASSUME NEW i \in K, ~ \E j \in 1 .. Len(v) : g[j] = i
        PROVE  (\A j \in 1 .. Len(v) : i < g[j]) /\ (h[i].ts >= t - tf => Len(v) >= MaxWindow)
    <2>1. i \in 1 .. Len(h)
      BY <1>4
    <2>2. CASE \E j \in 1 .. Len(w) : f[j] = i
      <3>1. PICK j \in 1 .. Len(w) : f[j] = i
        BY <2>2
      <3>2. j \in 1 .. m
        <4>1. ASSUME j > m
              PROVE  FALSE
          <5>1. j - m \in 1 .. Len(v) /\ m + (j - m) = j
            BY <1>2, <4>1
          <5> QED BY <1>6, <1>8, <3>1, <5>1
        <4> QED BY <1>2, <4>1
      <3>3. h[i].ts < t - tf
        BY <1>5, <3>1, <3>2
      <3>4. \A k \in 1 .. Len(v) : i < g[k]
        BY <1>2, <1>5, <1>6, <3>1, <3>2
      <3> QED BY <1>3, <2>1, <3>3, <3>4
    <2>3. CASE ~ \E j \in 1 .. Len(w) : f[j] = i
      <3>1. (\A j \in 1 .. Len(w) : i < f[j]) /\ (h[i].ts >= t - tf => Len(w) >= MaxWindow)
        BY <1>1, <2>3 DEF Complete, K
      <3>2. \A j \in 1 .. Len(v) : i < g[j]
        BY <1>6, <3>1
      <3>3. CASE m = 0
        BY <1>2, <3>1, <3>2, <3>3
      <3>4. CASE m # 0
        <4>1. 1 \in 1 .. m /\ 1 \in 1 .. Len(w)
          BY <1>2, <3>4
        <4>2. f[1] \in 1 .. Len(h) /\ h[f[1]].ts < t - tf /\ i < f[1]
          BY <1>4, <1>5, <3>1, <4>1
        <4>3. h[i].ts <= h[f[1]].ts
          BY <2>1, <4>2 DEF Ordered
        <4> QED BY <1>3, <2>1, <3>2, <4>2, <4>3
      <3> QED BY <3>3, <3>4
    <2> QED BY <2>2, <2>3
  <1>9. Complete(g, v, h, t, tf, must)
    BY <1>8 DEF Complete, K
  <1> QED BY <1>7, <1>9 DEF Follows, v

\* What pruning a window leaves.
LEMMA PruneFollows ==
    ASSUME NEW w \in WindowType, NEW h \in HistoryType, NEW t \in Nat, NEW tf \in Int, NEW may, NEW must,
           Ordered(h, t), Follows(w, h, t, tf, may, must),
           NEW c \in Int, c <= t - tf
    PROVE  /\ NotOlder(w, c) \in WindowType /\ Len(NotOlder(w, c)) \in Nat
           /\ Len(NotOlder(w, c)) <= Len(w)
           /\ Follows(NotOlder(w, c), h, t, tf, may, must)
           /\ \A j \in 1 .. Len(NotOlder(w, c)) : NotOlder(w, c)[j].ts >= c
  <1> DEFINE m == Cardinality(Leading(w, c))
             v == SubSeq(w, m + 1, Len(w))
  <1>1. /\ m \in 0 .. Len(w) /\ \A j \in 1 .. m : w[j].ts < c
        /\ m < Len(w) => w[m + 1].ts >= c
    BY Cut
  <1> HIDE DEF m
  <1>2. /\ Len(w) \in Nat /\ m \in Nat /\ v \in WindowType /\ Len(v) = Len(w) - m
        /\ \A j \in 1 .. Len(v) : v[j] = w[m + j]
    <2>1. Len(w) \in Nat /\ m \in Nat
      BY <1>1, WindowEntries
    <2>2. /\ v \in WindowType /\ Len(v) = Len(w) - m
          /\ \A j \in 1 .. Len(w) - m : v[j] = w[m + j]
      BY <1>1, EndOfWindow
    <2> QED BY <2>1, <2>2
  <1>3. \A j \in 1 .. Len(w) : w[j].ts \in Nat
    BY WindowEntries
  <1>4. \A j \in 1 .. m : w[j].ts < t - tf
    BY <1>1, <1>2, <1>3
  <1>5. Follows(v, h, t, tf, may, must)
    BY <1>1, <1>4, DropFollows
  <1>6. PICK f : Embeds(f, w, h, may)
    BY DEF Follows
  <1> HIDE DEF v
  <1>7. ASSUME NEW j \in 1 .. Len(v)
        PROVE  v[j].ts >= c
    <2>1. m < Len(w) /\ m + 1 \in 1 .. Len(w) /\ m + j \in 1 .. Len(w) /\ m + 1 <= m + j
      BY <1>2
    <2>2. \A i \in 1 .. Len(w) : f[i] \in 1 .. Len(h) /\ f[i] \in Nat /\ w[i].ts = h[f[i]].ts
      BY <1>6 DEF Embeds, Matching
    <2>3. m + 1 < m + j => f[m + 1] < f[m + j]
      BY <1>6, <2>1 DEF Embeds
    <2>4. f[m + 1] <= f[m + j]
      BY <1>2, <2>1, <2>2, <2>3
    <2>5. h[f[m + 1]].ts <= h[f[m + j]].ts
      BY <2>1, <2>2, <2>4 DEF Ordered
    <2>6. w[m + 1].ts <= w[m + j].ts
      BY <2>1, <2>2, <2>5
    <2> QED BY <1>1, <1>2, <1>3, <2>1, <2>6
  <1>8. NotOlder(w, c) = v
    BY DEF NotOlder, v, m
  <1> QED BY <1>2, <1>5, <1>7, <1>8

\* One more event in the history.
LEMMA HistoryGrows ==
    ASSUME NEW h \in HistoryType, NEW t \in Nat, NEW ev \in Events, Ordered(h, t), NEW E
    PROVE  LET g == Append(h, [ts |-> t, ev |-> ev])
           IN  /\ g \in HistoryType /\ Len(g) = Len(h) + 1 /\ Ordered(g, t)
               /\ \A i \in 1 .. Len(h) : g[i] = h[i]
               /\ g[Len(h) + 1] = [ts |-> t, ev |-> ev]
               /\ Matching(g, E) = Matching(h, E) \cup (IF ev \in E THEN {Len(h) + 1} ELSE {})
  <1> DEFINE S == [ts : Nat, ev : Events]
             e == [ts |-> t, ev |-> ev]
             g == Append(h, e)
  <1>1. h \in Seq(S) /\ e \in S /\ e.ts = t /\ e.ev = ev
    BY DEF HistoryType
  <1>2. Len(h) \in Nat /\ \A i \in 1 .. Len(h) : h[i].ts \in Nat
    BY HistoryEntries
  <1> HIDE DEF S, e
  <1>3. /\ g \in Seq(S) /\ Len(g) = Len(h) + 1 /\ g[Len(h) + 1] = e
        /\ \A i \in 1 .. Len(h) : g[i] = h[i]
    BY <1>1
  <1> HIDE DEF g
  <1>4. Ordered(g, t)
    <2>1. ASSUME NEW i \in 1 .. Len(g), NEW j \in 1 .. Len(g), i <= j
          PROVE  g[i].ts <= g[j].ts
      <3>1. CASE j = Len(h) + 1
        <4>1. CASE i = Len(h) + 1
          BY <1>1, <1>3, <3>1, <4>1
        <4>2. CASE i \in 1 .. Len(h)
          BY <1>1, <1>3, <3>1, <4>2 DEF Ordered
        <4> QED BY <1>2, <1>3, <4>1, <4>2
      <3>2. CASE j \in 1 .. Len(h)
        <4>1. i \in 1 .. Len(h)
          BY <1>2, <2>1, <3>2
        <4> QED BY <1>3, <2>1, <3>2, <4>1 DEF Ordered
      <3> QED BY <1>2, <1>3, <3>1, <3>2
    <2>2. ASSUME NEW i \in 1 .. Len(g)
          PROVE  g[i].ts <= t
      <3>1. CASE i = Len(h) + 1
        BY <1>1, <1>3, <3>1
      <3>2. CASE i \in 1 .. Len(h)
        BY <1>3, <3>2 DEF Ordered
      <3> QED BY <1>2, <1>3, <3>1, <3>2
    <2> QED BY <2>1, <2>2 DEF Ordered
  <1>5. \A i : i \in 1 .. Len(g) <=> i \in 1 .. Len(h) \/ i = Len(h) + 1
    BY <1>2, <1>3
  <1>6. Matching(g, E) = Matching(h, E) \cup (IF ev \in E THEN {Len(h) + 1} ELSE {})
    BY <1>1, <1>3, <1>5 DEF Matching
  <1> QED BY <1>3, <1>4, <1>6 DEF S, e, g, HistoryType

\* An event that is not recorded and need not be.
LEMMA SkipFollows ==
    ASSUME NEW w \in WindowType, NEW h \in HistoryType, NEW t \in Nat, NEW tf \in Int, NEW may, NEW must,
           Ordered(h, t), Follows(w, h, t, tf, may, must),
           NEW ev \in Events, ev \notin must
    PROVE  Follows(w, Append(h, [ts |-> t, ev |-> ev]), t, tf, may, must)
  <1> DEFINE g == Append(h, [ts |-> t, ev |-> ev])
  <1>1. PICK f : Embeds(f, w, h, may) /\ Complete(f, w, h, t, tf, must)
    BY DEF Follows
  <1>2. /\ \A i \in 1 .. Len(h) : g[i] = h[i]
        /\ \A E : Matching(g, E) = Matching(h, E) \cup (IF ev \in E THEN {Len(h) + 1} ELSE {})
    BY HistoryGrows
  <1> HIDE DEF g
  <1>3. /\ Matching(g, must) = Matching(h, must) /\ Matching(h, must) \subseteq 1 .. Len(h)
        /\ Matching(h, may) \subseteq Matching(g, may) /\ Matching(h, may) \subseteq 1 .. Len(h)
    <2>1. Matching(h, must) \subseteq 1 .. Len(h) /\ Matching(h, may) \subseteq 1 .. Len(h)
      BY DEF Matching
    <2>2. Matching(g, must) = Matching(h, must) \cup (IF ev \in must THEN {Len(h) + 1} ELSE {})
      BY <1>2
    <2>3. Matching(h, may) \subseteq Matching(g, may)
      BY <1>2
    <2> QED BY <2>1, <2>2, <2>3
  <1>4. Embeds(f, w, g, may)
    <2>1. \A j \in 1 .. Len(w) : g[f[j]] = h[f[j]]
      BY <1>1, <1>2, <1>3 DEF Embeds
    <2>2. f \in [1 .. Len(w) -> Matching(g, may)]
      BY <1>1, <1>3 DEF Embeds
    <2> QED BY <1>1, <2>1, <2>2 DEF Embeds
  <1>5. Complete(f, w, g, t, tf, must)
    <2>1. \A i \in Matching(h, must) : g[i] = h[i]
      BY <1>2, <1>3
    <2> QED BY <1>1, <1>3, <2>1 DEF Complete
  <1> QED BY <1>4, <1>5 DEF Follows, g

\* The end of a window of bounded length, as a shift.
LEMMA NewestShift ==
    ASSUME NEW w \in WindowType, Len(w) <= MaxWindow, NEW e \in [ts : Nat, kind : {ev.kind : ev \in Events}]
    PROVE  LET v == Newest(Append(w, e))
           IN  \E s \in {0, 1} :
                 /\ v \in WindowType /\ Len(v) = Len(w) + 1 - s /\ Len(v) <= MaxWindow
                 /\ s = 1 => Len(v) >= MaxWindow /\ 1 \in 1 .. Len(w)
                 /\ \A j \in 1 .. Len(v) : v[j] = IF s + j = Len(w) + 1 THEN e ELSE w[s + j]
  <1> DEFINE S == [ts : Nat, kind : {ev.kind : ev \in Events}]
             u == Append(w, e)
             v == Newest(u)
  <1>1. w \in Seq(S) /\ e \in S /\ Len(w) \in Nat /\ MaxWindow \in Nat \ {0}
    BY RulesAssumption DEF WindowType
  <1> HIDE DEF S
  <1>2. /\ u \in Seq(S) /\ Len(u) = Len(w) + 1
        /\ \A j \in 1 .. Len(u) : u[j] = IF j = Len(w) + 1 THEN e ELSE w[j]
    BY <1>1
  <1>3. u \in WindowType
    BY <1>2 DEF S, WindowType
  <1> HIDE DEF u
  <1>4. CASE Len(w) < MaxWindow
    <2>1. v = u
      BY <1>1, <1>2, <1>4 DEF Newest
    <2> QED BY <1>1, <1>2, <1>3, <1>4, <2>1 DEF u
  <1>5. CASE Len(w) = MaxWindow
    <2>1. v = SubSeq(u, 1 + 1, Len(u))
      <3>1. Len(u) > MaxWindow /\ Len(u) - MaxWindow + 1 = 1 + 1
        BY <1>1, <1>2, <1>5
      <3> QED BY <3>1 DEF Newest
    <2>2. 1 \in 0 .. Len(u)
      BY <1>1, <1>2
    <2>3. /\ v \in WindowType /\ Len(v) = Len(u) - 1
          /\ \A j \in 1 .. Len(u) - 1 : v[j] = u[1 + j]
      BY <1>3, <2>1, <2>2, EndOfWindow
    <2>4. Len(v) = Len(w) + 1 - 1 /\ Len(v) <= MaxWindow /\ Len(v) >= MaxWindow /\ 1 \in 1 .. Len(w)
      BY <1>1, <1>2, <1>5, <2>3
    <2> HIDE DEF v
    <2>5. ASSUME NEW j \in 1 .. Len(v)
          PROVE  v[j] = IF 1 + j = Len(w) + 1 THEN e ELSE w[1 + j]
      <3>1. j \in 1 .. Len(u) - 1 /\ 1 + j \in 1 .. Len(u)
        BY <1>1, <1>2, <2>4
      <3> QED BY <1>2, <2>3, <3>1
    <2> QED BY <2>3, <2>4, <2>5 DEF v, u
  <1> QED BY <1>1, <1>4, <1>5

\* An event that may be recorded, recorded in a window of bounded length.
LEMMA AddFollows ==
    ASSUME NEW w \in WindowType, NEW h \in HistoryType, NEW t \in Nat, NEW tf \in Int, NEW may, NEW must,
           Len(w) <= MaxWindow, Ordered(h, t), Follows(w, h, t, tf, may, must),
           NEW ev \in may, ev \in Events
    PROVE  LET v == Newest(Append(w, [ts |-> t, kind |-> ev.kind]))
           IN  /\ v \in WindowType /\ Len(v) <= MaxWindow
               /\ Follows(v, Append(h, [ts |-> t, ev |-> ev]), t, tf, may, must)
  <1> DEFINE g == Append(h, [ts |-> t, ev |-> ev])
             e == [ts |-> t, kind |-> ev.kind]
             v == Newest(Append(w, e))
             n == Len(h) + 1
             M == Matching(h, may)
             N == Matching(g, may)
             K == Matching(g, must)
  <1>1. PICK f : Embeds(f, w, h, may) /\ Complete(f, w, h, t, tf, must)
    BY DEF Follows
  <1>2. /\ g[n] = [ts |-> t, ev |-> ev]
        /\ \A i \in 1 .. Len(h) : g[i] = h[i]
        /\ N = M \cup {n} /\ K \subseteq Matching(h, must) \cup {n}
    <2>1. (\A i \in 1 .. Len(h) : g[i] = h[i]) /\ g[n] = [ts |-> t, ev |-> ev]
      BY HistoryGrows
    <2>2. \A E : Matching(g, E) = Matching(h, E) \cup (IF ev \in E THEN {n} ELSE {})
      BY HistoryGrows
    <2>3. N = M \cup (IF ev \in may THEN {n} ELSE {}) /\ K = Matching(h, must) \cup (IF ev \in must THEN {n} ELSE {})
      BY <2>2
    <2> HIDE DEF g, N, M, K, n
    <2> QED BY <2>1, <2>3
  <1>3. e \in [ts : Nat, kind : {x.kind : x \in Events}] /\ e.ts = t /\ e.kind = ev.kind
    OBVIOUS
  <1> HIDE DEF e
  <1>4. PICK s \in {0, 1} :
          /\ v \in WindowType /\ Len(v) = Len(w) + 1 - s /\ Len(v) <= MaxWindow
          /\ s = 1 => Len(v) >= MaxWindow /\ 1 \in 1 .. Len(w)
          /\ \A j \in 1 .. Len(v) : v[j] = IF s + j = Len(w) + 1 THEN e ELSE w[s + j]
    BY <1>3, NewestShift
  <1>5. Len(w) \in Nat /\ Len(h) \in Nat /\ M \subseteq 1 .. Len(h) /\ n = Len(h) + 1
        /\ Matching(h, must) \subseteq 1 .. Len(h)
    BY WindowEntries, HistoryEntries DEF Matching
  <1> HIDE DEF g, v, n, N, M, K
  <1>6. /\ f \in [1 .. Len(w) -> M]
        /\ \A i, j \in 1 .. Len(w) : i < j => f[i] < f[j]
        /\ \A j \in 1 .. Len(w) : w[j].ts = h[f[j]].ts /\ w[j].kind = h[f[j]].ev.kind
    BY <1>1 DEF Embeds, M
  <1> DEFINE q == [j \in 1 .. Len(v) |-> IF s + j = Len(w) + 1 THEN n ELSE f[s + j]]
  <1>7. ASSUME NEW j \in 1 .. Len(v)
        PROVE  \/ s + j = Len(w) + 1 /\ q[j] = n /\ v[j] = e
               \/ /\ s + j \in 1 .. Len(w) /\ s + j # Len(w) + 1
                  /\ q[j] = f[s + j] /\ v[j] = w[s + j]
    BY <1>4, <1>5
  <1>11. q \in [1 .. Len(v) -> {n} \cup M]
    BY <1>6, <1>7
  <1> HIDE DEF q
  <1>8. Embeds(q, v, g, may)
    <2>1. q \in [1 .. Len(v) -> N]
      BY <1>2, <1>11
    <2>2. ASSUME NEW i \in 1 .. Len(v), NEW j \in 1 .. Len(v), i < j
          PROVE  q[i] < q[j]
      <3>4. s + i \in 1 .. Len(w) /\ s + i # Len(w) + 1
        BY <1>4, <1>5, <2>2
      <3>1. s + i \in 1 .. Len(w) /\ q[i] = f[s + i] /\ f[s + i] \in 1 .. Len(h)
        BY <1>5, <1>6, <1>7, <3>4
      <3>2. CASE s + j = Len(w) + 1
        BY <1>5, <1>7, <3>1, <3>2
      <3>3. CASE s + j \in 1 .. Len(w)
        <4>1. q[j] = f[s + j] /\ s + i < s + j /\ s + i \in 1 .. Len(w)
          BY <1>4, <1>5, <1>7, <2>2, <3>1, <3>3
        <4>2. f[s + i] < f[s + j]
          BY ONLY <1>6, <3>3, <4>1
        <4> QED BY ONLY <3>1, <4>1, <4>2
      <3> QED BY <1>7, <3>2, <3>3
    <2>3. ASSUME NEW j \in 1 .. Len(v)
          PROVE  v[j].ts = g[q[j]].ts /\ v[j].kind = g[q[j]].ev.kind
      <3>1. CASE s + j = Len(w) + 1
        BY <1>2, <1>3, <1>7, <3>1, <1>5
      <3>2. CASE s + j \in 1 .. Len(w)
        <4>1. q[j] = f[s + j] /\ v[j] = w[s + j]
          BY <1>5, <1>7, <3>2
        <4>2. f[s + j] \in 1 .. Len(h)
          BY <1>5, <1>6, <3>2
        <4> QED BY <1>2, <1>6, <3>2, <4>1, <4>2
      <3> QED BY <1>7, <3>1, <3>2
    <2> QED BY <2>1, <2>2, <2>3 DEF Embeds, N
  <1>9. ASSUME NEW i \in K, ~ \E j \in 1 .. Len(v) : q[j] = i
        PROVE  (\A j \in 1 .. Len(v) : i < q[j]) /\ (g[i].ts >= t - tf => Len(v) >= MaxWindow)
    <2>1. Len(w) + 1 - s \in 1 .. Len(v) /\ s + (Len(w) + 1 - s) = Len(w) + 1
      BY <1>4, <1>5
    <2>6. q[Len(w) + 1 - s] = n
      BY <1>5, <1>7, <2>1
    <2>2. i # n
      BY <1>9, <2>1, <2>6
    <2>3. i \in Matching(h, must) /\ i \in 1 .. Len(h) /\ g[i] = h[i]
      BY <1>2, <1>5, <2>2
    <2>4. CASE \E j \in 1 .. Len(w) : f[j] = i
      <3>1. PICK j \in 1 .. Len(w) : f[j] = i
        BY <2>4
      <3>2. s = 1 /\ j = 1
        <4>1. ASSUME j > s
              PROVE  FALSE
          <5>1. j - s \in 1 .. Len(v) /\ s + (j - s) = j /\ j # Len(w) + 1
            BY <1>4, <1>5, <4>1
          <5>2. q[j - s] = f[j]
            BY <1>5, <1>7, <5>1
          <5> QED BY <1>9, <3>1, <5>1, <5>2
        <4> QED BY <1>5, <4>1
      <3>3. ASSUME NEW k \in 1 .. Len(v)
            PROVE  i < q[k]
        <4>1. CASE s + k = Len(w) + 1
          BY <1>5, <1>7, <2>3, <4>1
        <4>2. CASE s + k \in 1 .. Len(w)
          BY <1>5, <1>6, <1>7, <3>1, <3>2, <4>2
        <4> QED BY <1>7, <4>1, <4>2
      <3> QED BY <1>4, <3>2, <3>3
    <2>5. CASE ~ \E j \in 1 .. Len(w) : f[j] = i
      <3>1. (\A j \in 1 .. Len(w) : i < f[j]) /\ (h[i].ts >= t - tf => Len(w) >= MaxWindow)
        BY <1>1, <2>3, <2>5 DEF Complete
      <3>2. ASSUME NEW k \in 1 .. Len(v)
            PROVE  i < q[k]
        <4>1. CASE s + k = Len(w) + 1
          BY <1>5, <1>7, <2>3, <4>1
        <4>2. CASE s + k \in 1 .. Len(w)
          BY <1>7, <3>1, <4>2
        <4> QED BY <1>7, <4>1, <4>2
      <3>3. Len(w) >= MaxWindow => Len(v) >= MaxWindow
        BY <1>4, <1>5, RulesAssumption
      <3> QED BY <2>3, <3>1, <3>2, <3>3
    <2> QED BY <2>4, <2>5
  <1>10. Complete(q, v, g, t, tf, must)
    BY <1>9 DEF Complete, K
  <1> QED BY <1>4, <1>8, <1>10 DEF Follows, e, g, v

\* Time goes on.
LEMMA LaterFollows ==
    ASSUME NEW w, NEW h \in HistoryType, NEW t \in Nat, NEW tf \in Int, NEW may, NEW must,
           Ordered(h, t), Follows(w, h, t, tf, may, must), NEW u \in Nat, t <= u
    PROVE  Ordered(h, u) /\ Follows(w, h, u, tf, may, must)
  <1>1. PICK f : Embeds(f, w, h, may) /\ Complete(f, w, h, t, tf, must)
    BY DEF Follows
  <1>2. /\ Len(h) \in Nat /\ \A i \in 1 .. Len(h) : h[i].ts \in Nat
    BY HistoryEntries
  <1>3. \A i \in Matching(h, must) : i \in 1 .. Len(h) /\ (h[i].ts >= u - tf => h[i].ts >= t - tf)
    BY <1>2 DEF Matching
  <1>4. Complete(f, w, h, u, tf, must)
    BY <1>1, <1>3 DEF Complete
  <1>5. Ordered(h, u)
    BY <1>2 DEF Ordered
  <1> QED BY <1>1, <1>4, <1>5 DEF Follows

\* A purge takes whole windows.
LEMMA PurgeFollows ==
    ASSUME NEW w \in WindowType, NEW h \in HistoryType, NEW t \in Nat, NEW tf \in Int, NEW may, NEW must,
           Ordered(h, t), Follows(w, h, t, tf, may, must),
           \A j \in DOMAIN w : w[j].ts < t - MaxTTL, tf <= MaxTTL \/ must = {}
    PROVE  Follows(<< >>, h, t, tf, may, must)
  <1>1. /\ Len(w) \in Nat /\ DOMAIN w = 1 .. Len(w) /\ MaxTTL \in Nat
        /\ \A j \in 1 .. Len(w) : w[j].ts \in Nat
    BY WindowEntries, RulesAssumption
  <1>2. PICK tg \in Int : tg <= MaxTTL /\ Follows(w, h, t, tg, may, must) /\ (tg = tf \/ must = {})
    <2>1. CASE tf <= MaxTTL
      BY <2>1
    <2>2. CASE must = {}
      <3>1. Follows(w, h, t, MaxTTL, may, {})
        BY <2>2, NoneMissing
      <3>2. MaxTTL \in Int /\ MaxTTL <= MaxTTL
        BY <1>1
      <3> QED BY <2>2, <3>1, <3>2
    <2> QED BY <2>1, <2>2
  <1>3. Len(w) \in 0 .. Len(w) /\ \A j \in 1 .. Len(w) : w[j].ts < t - tg
    BY <1>1, <1>2
  <1>4. Follows(SubSeq(w, Len(w) + 1, Len(w)), h, t, tg, may, must)
    BY <1>2, <1>3, DropFollows
  <1>5. SubSeq(w, Len(w) + 1, Len(w)) \in WindowType /\ Len(SubSeq(w, Len(w) + 1, Len(w))) = 0
    BY <1>1, <1>3, EndOfWindow
  <1>6. SubSeq(w, Len(w) + 1, Len(w)) = << >>
    BY <1>5, EmptySeq DEF WindowType
  <1>7. Follows(<< >>, h, t, tg, may, must)
    BY <1>4, <1>6
  <1> QED BY <1>2, <1>7, NoneMissing

LEMMA NotOlderType ==
    ASSUME NEW w \in WindowType, NEW c \in Int
    PROVE  /\ NotOlder(w, c) \in WindowType /\ Len(NotOlder(w, c)) \in Nat
           /\ Len(NotOlder(w, c)) <= Len(w)
  <1> DEFINE m == Cardinality(Leading(w, c))
  <1>1. m \in 0 .. Len(w) /\ Len(w) \in Nat
    BY Cut, WindowEntries
  <1> HIDE DEF m
  <1>2. /\ SubSeq(w, m + 1, Len(w)) \in WindowType
        /\ Len(SubSeq(w, m + 1, Len(w))) = Len(w) - m
    BY <1>1, EndOfWindow
  <1> QED BY <1>1, <1>2 DEF NotOlder, m

\* Pruning to any time, where nothing is missed that must be there.
LEMMA PruneWindow ==
    ASSUME NEW w \in WindowType, NEW h \in HistoryType, NEW t \in Nat, NEW tf \in Int, NEW may, NEW must,
           Ordered(h, t), Follows(w, h, t, tf, may, must),
           NEW c \in Int, c <= t - tf \/ must = {}
    PROVE  /\ NotOlder(w, c) \in WindowType /\ Len(NotOlder(w, c)) \in Nat
           /\ Len(NotOlder(w, c)) <= Len(w)
           /\ Follows(NotOlder(w, c), h, t, tf, may, must)
           /\ \A j \in 1 .. Len(NotOlder(w, c)) : NotOlder(w, c)[j].ts >= c
  <1>1. CASE c <= t - tf
    BY <1>1, PruneFollows
  <1>2. CASE must = {}
    <2> DEFINE tg == t - c
    <2>1. tg \in Int /\ c <= t - tg
      OBVIOUS
    <2> HIDE DEF tg
    <2>2. Follows(w, h, t, tg, may, {})
      BY <1>2, NoneMissing
    <2>3. /\ NotOlder(w, c) \in WindowType /\ Len(NotOlder(w, c)) \in Nat
          /\ Len(NotOlder(w, c)) <= Len(w)
          /\ Follows(NotOlder(w, c), h, t, tg, may, {})
          /\ \A j \in 1 .. Len(NotOlder(w, c)) : NotOlder(w, c)[j].ts >= c
      BY <2>1, <2>2, PruneFollows
    <2>4. Follows(NotOlder(w, c), h, t, tf, may, {})
      BY <2>3, NoneMissing
    <2> QED BY <1>2, <2>3, <2>4
  <1> QED BY <1>1, <1>2

\* The events of the history that count for a rule.
Counts(h, may, d, c) == {i \in Matching(h, may) : Satisfies(d, h[i].ev.kind, 0) /\ h[i].ts >= c}

\* Every entry that counts is an event of the history that does.
LEMMA CountBound ==
    ASSUME NEW w \in WindowType, NEW h \in HistoryType, NEW c \in Int, NEW may, NEW d,
           NEW f, Embeds(f, w, h, may), \A j \in 1 .. Len(w) : w[j].ts >= c
    PROVE  LET C == Counts(h, may, d, c)
           IN  /\ IsFiniteSet(C) /\ Cardinality(C) \in Nat /\ CountIn(w, d) \in Nat
               /\ CountIn(w, d) <= Cardinality(C)
               /\ (\A i \in C : \E j \in 1 .. Len(w) : f[j] = i) => CountIn(w, d) = Cardinality(C)
  <1> DEFINE C == {i \in Matching(h, may) : Satisfies(d, h[i].ev.kind, 0) /\ h[i].ts >= c}
             S == {j \in DOMAIN w : Satisfies(d, w[j].kind, 0)}
             g == [j \in S |-> f[j]]
  <1>1. Len(w) \in Nat /\ DOMAIN w = 1 .. Len(w) /\ Len(h) \in Nat
    BY WindowEntries, HistoryEntries
  <1>2. /\ f \in [1 .. Len(w) -> Matching(h, may)]
        /\ \A i, j \in 1 .. Len(w) : i < j => f[i] < f[j]
        /\ \A j \in 1 .. Len(w) : w[j].ts = h[f[j]].ts /\ w[j].kind = h[f[j]].ev.kind
    BY DEF Embeds
  <1>3. S \subseteq 1 .. Len(w) /\ C \subseteq 1 .. Len(h)
    BY <1>1 DEF Matching
  <1>4. CountIn(w, d) = Cardinality(S)
    BY DEF CountIn
  <1>5. g \in [S -> C]
    BY <1>1, <1>2
  <1>6. ASSUME \A i \in C : \E j \in 1 .. Len(w) : f[j] = i
        PROVE  \A i \in C : \E j \in S : g[j] = i
    <2> TAKE i \in C
    <2>1. PICK j \in 1 .. Len(w) : f[j] = i
      BY <1>6
    <2>2. w[j].kind = h[i].ev.kind
      BY <1>2, <2>1
    <2>3. j \in S
      BY <1>1, <2>2
    <2> QED BY <2>1, <2>3
  <1>7. \A i, j \in S : g[i] = g[j] => i = j
    <2>1. \A i \in S : g[i] \in Int /\ g[i] = f[i] /\ i \in 1 .. Len(w)
      BY <1>3, <1>5
    <2> QED BY <1>1, <1>2, <2>1
  <1> HIDE DEF S, C, g
  <1>8. IsFiniteSet(C) /\ IsFiniteSet(S) /\ Cardinality(C) \in Nat /\ Cardinality(S) \in Nat
    <2>1. IsFiniteSet(1 .. Len(h)) /\ IsFiniteSet(1 .. Len(w))
      BY <1>1, RangeSize
    <2>2. IsFiniteSet(C) /\ IsFiniteSet(S)
      BY <1>3, <2>1, FS_Subset
    <2> QED BY <2>2, FS_CardinalityType
  <1>9. g \in Injection(S, C)
    BY <1>5, <1>7 DEF Injection, IsInjective
  <1>10. /\ Cardinality(S) <= Cardinality(C)
         /\ g \in Surjection(S, C) => Cardinality(S) = Cardinality(C)
    BY <1>8, <1>9, FS_Injection
  <1>11. ASSUME \A i \in C : \E j \in 1 .. Len(w) : f[j] = i
         PROVE  Cardinality(S) = Cardinality(C)
    BY <1>5, <1>6, <1>10, <1>11 DEF Surjection
  <1>12. C = Counts(h, may, d, c)
    BY DEF C, Counts
  <1> QED BY <1>4, <1>8, <1>10, <1>11, <1>12

\* A window that follows the history, where all that may be recorded must be
\* and counts, has enough entries when the history has enough: it holds them
\* all, or it is full.
LEMMA CountExact ==
    ASSUME NEW w \in WindowType, NEW h \in HistoryType, NEW t \in Nat, NEW tf \in Int, NEW may, NEW d,
           Threshold(d) \in Nat, Threshold(d) <= MaxWindow,
           Follows(w, h, t, tf, may, may), \A ev \in may : Satisfies(d, ev.kind, 0),
           \A j \in 1 .. Len(w) : w[j].ts >= t - tf
    PROVE  CountIn(w, d) >= Threshold(d) <=>
               Cardinality(Counts(h, may, d, t - tf)) >= Threshold(d)
  <1> DEFINE C == Counts(h, may, d, t - tf)
  <1>1. PICK f : Embeds(f, w, h, may) /\ Complete(f, w, h, t, tf, may)
    BY DEF Follows
  <1>2. Len(w) \in Nat /\ DOMAIN w = 1 .. Len(w)
    BY WindowEntries
  <1>3. /\ Cardinality(C) \in Nat /\ CountIn(w, d) \in Nat /\ CountIn(w, d) <= Cardinality(C)
        /\ (\A i \in C : \E j \in 1 .. Len(w) : f[j] = i) => CountIn(w, d) = Cardinality(C)
    <2>1. PICK c \in Int : c = t - tf
      OBVIOUS
    <2>2. \A j \in 1 .. Len(w) : w[j].ts >= c
      BY <2>1
    <2> HIDE DEF C
    <2>3. C = Counts(h, may, d, c)
      BY <2>1 DEF C
    <2> QED BY <1>1, <2>2, <2>3, CountBound
  <1>4. {j \in DOMAIN w : Satisfies(d, w[j].kind, 0)} = 1 .. Len(w)
    <2>1. ASSUME NEW j \in 1 .. Len(w)
          PROVE  Satisfies(d, w[j].kind, 0)
      <3>1. w[j].kind = h[f[j]].ev.kind /\ h[f[j]].ev \in may
        BY <1>1 DEF Embeds, Matching
      <3> QED BY <3>1
    <2> QED BY <1>2, <2>1
  <1>5. CountIn(w, d) = Len(w)
    BY <1>2, <1>4, RangeSize DEF CountIn
  <1>6. CASE \A i \in C : \E j \in 1 .. Len(w) : f[j] = i
    BY <1>3, <1>6 DEF C
  <1>7. CASE ~ \A i \in C : \E j \in 1 .. Len(w) : f[j] = i
    <2>1. PICK i \in C : ~ \E j \in 1 .. Len(w) : f[j] = i
      BY <1>7
    <2>2. i \in Matching(h, may) /\ h[i].ts >= t - tf
      BY DEF C, Counts
    <2> HIDE DEF C
    <2>3. Len(w) >= MaxWindow
      BY <1>1, <2>1, <2>2 DEF Complete
    <2>4. Len(w) >= Threshold(d) /\ Cardinality(C) >= Threshold(d)
      BY <1>2, <1>3, <1>5, <2>3, RulesAssumption
    <2> QED BY <1>5, <2>4 DEF C
  <1> QED BY <1>6, <1>7

-----------------------------------------------------------------------------
(* The windows of the rule worker's engine.                                *)

OneOfEachId(defs) == \A c, d \in defs : c.id = d.id => c = d

RuleBaseType ==
    /\ disk \in [Sources -> SUBSET RuleFiles] /\ \A s \in Sources : OneOfEachId(disk[s])
    /\ loaded["worker"] \in SUBSET {d \in RuleFiles : WellFormed(d)}
    /\ OneOfEachId(loaded["worker"])

WindowsType ==
    /\ windows \in [WindowKeys -> WindowType]
    /\ \A k \in WindowKeys : Len(windows[k]) <= MaxWindow
    /\ now \in Nat /\ history \in HistoryType /\ Ordered(history, now)

\* The events that may be in a window, and those that must be: all that match,
\* for a rule that does not call count_events and whose timeframe the windows
\* are kept for.
MayRecord(d, key) ==
    {ev \in Events : /\ Applies(d, ev) /\ EntityKey(d, ev) = key
                     /\ d.call = NoCall => ev.kind \in d.condition}
MustRecord(d, key) == {ev \in MayRecord(d, key) : d.call = NoCall /\ d.timeframe <= MaxTTL}

WindowFollows(w, h, t, d, key) == Follows(w, h, t, d.timeframe, MayRecord(d, key), MustRecord(d, key))

TemporalRules == {d \in loaded["worker"] : d.timeframe # None}
WindowsFollow ==
    \A d \in TemporalRules, ev \in Events :
        WindowFollows(windows[Key(d, ev)], history, now, d, EntityKey(d, ev))

WindowInv == RuleBaseType /\ WindowsType /\ WindowsFollow /\ TemporalExact

LEMMA EmptyWindow == << >> \in WindowType /\ Len(<< >>) = 0
  BY EmptySeq DEF WindowType

LEMMA EmptyFollows ==
    ASSUME NEW t, NEW d, NEW key
    PROVE  WindowFollows(<< >>, << >>, t, d, key) /\ << >> \in HistoryType /\ Ordered(<< >>, t)
  <1>1. << >> \in HistoryType /\ Len(<< >>) = 0 /\ 1 .. Len(<< >>) = {}
    BY EmptySeq DEF HistoryType
  <1>2. \A E : Matching(<< >>, E) = {}
    BY <1>1 DEF Matching
  <1>3. Embeds([j \in {} |-> 0], << >>, << >>, MayRecord(d, key))
    BY <1>1 DEF Embeds
  <1>4. Complete([j \in {} |-> 0], << >>, << >>, t, d.timeframe, MustRecord(d, key))
    BY <1>2 DEF Complete
  <1> QED BY <1>1, <1>3, <1>4 DEF WindowFollows, Follows, Ordered

\* What the worker loads is acceptable, one definition of an id.
LEMMA LoadedRules ==
    ASSUME NEW files \in [Sources -> SUBSET RuleFiles], \A s \in Sources : OneOfEachId(files[s])
    PROVE  LoadAll(files) \in SUBSET {d \in RuleFiles : WellFormed(d)} /\ OneOfEachId(LoadAll(files))
  <1>1. /\ "custom" \in Sources /\ "builtin" \in Sources
        /\ files["custom"] \subseteq RuleFiles /\ files["builtin"] \subseteq RuleFiles
    BY DEF Sources
  <1>2. OneOfEachId(files["custom"]) /\ OneOfEachId(files["builtin"])
    BY <1>1
  <1> QED BY <1>1, <1>2 DEF LoadAll, FromDir, OneOfEachId

LEMMA KeyOfWindow ==
    ASSUME NEW d \in RuleFiles, NEW ev \in Events
    PROVE  Key(d, ev) \in WindowKeys /\ Key(d, ev)[1] = d.id /\ Key(d, ev)[2] = EntityKey(d, ev)
  BY DEF WindowKeys, Key

\* A server that starts has nothing to remember.
LEMMA WindowsStart ==
    ASSUME RuleBaseType', now' \in Nat, windows' = NoWindows, history' = << >>
    PROVE  WindowsType' /\ WindowsFollow' /\ TemporalExact'
  <1>1. windows' \in [WindowKeys -> WindowType] /\ \A k \in WindowKeys : Len(windows'[k]) <= MaxWindow
    BY EmptyWindow, RulesAssumption DEF NoWindows
  <1>2. WindowsType'
    BY <1>1, EmptyFollows DEF WindowsType
  <1>3. WindowsFollow'
    <2>1. SUFFICES ASSUME NEW d \in TemporalRules', NEW ev \in Events
                   PROVE  WindowFollows(windows'[Key(d, ev)], history', now', d, EntityKey(d, ev))
      BY DEF WindowsFollow
    <2>2. d \in RuleFiles
      BY DEF TemporalRules, RuleBaseType
    <2>3. windows'[Key(d, ev)] = << >>
      BY <2>2, KeyOfWindow DEF NoWindows
    <2> QED BY <2>3, EmptyFollows
  <1> QED BY <1>2, <1>3 DEF TemporalExact

\* What the lemmas above need of a loaded rule.
LEMMA LoadedRule ==
    ASSUME RuleBaseType, NEW d \in loaded["worker"]
    PROVE  /\ d \in RuleFiles
           /\ d.timeframe \in Int /\ (d.timeframe # None => d.timeframe \in Nat)
           /\ d.call.seconds \in Nat
           /\ Threshold(d) \in Nat
           /\ d.threshold <= MaxWindow => Threshold(d) <= MaxWindow
           /\ \A c \in loaded["worker"] : c.id = d.id => c = d
  <1>1. d \in RuleFiles /\ WellFormed(d)
    BY DEF RuleBaseType
  <1>2. d.timeframe \in Nat \cup {None} /\ d.threshold \in Nat \cup {None} /\ d.call.seconds \in Nat
    BY <1>1, RulesAssumption
  <1>3. Threshold(d) \in Nat /\ (d.threshold <= MaxWindow => Threshold(d) <= MaxWindow)
    BY <1>2, RulesAssumption DEF Threshold
  <1>4. \A c \in loaded["worker"] : c.id = d.id => c = d
    BY DEF RuleBaseType, OneOfEachId
  <1>5. d.timeframe \in Int /\ (d.timeframe # None => d.timeframe \in Nat)
    BY <1>2 DEF None
  <1> QED BY <1>1, <1>2, <1>3, <1>4, <1>5

\* A rule that does not call count_events: its condition needs no number.
LEMMA NoCallFacts ==
    ASSUME NEW d, d.call = NoCall
    PROVE  /\ \A kind, n : Satisfies(d, kind, n) <=> kind \in d.condition
           /\ \A ev : Looked(d, ev) = windows[Key(d, ev)]
  <1>1. d.call.decides = {} /\ d.call.reached = {}
    BY DEF NoCall
  <1> QED BY <1>1 DEF Satisfies, Looked

\* A purge, of the endpoint's count or of the worker's task.
LEMMA PurgedFollows ==
    ASSUME RuleBaseType, NEW ws \in [WindowKeys -> WindowType], NEW h \in HistoryType,
           \A k \in WindowKeys : Len(ws[k]) <= MaxWindow,
           now \in Nat, Ordered(h, now),
           \A d \in TemporalRules, ev \in Events :
               WindowFollows(ws[Key(d, ev)], h, now, d, EntityKey(d, ev))
    PROVE  /\ Purged(ws) \in [WindowKeys -> WindowType]
           /\ \A k \in WindowKeys : Len(Purged(ws)[k]) <= MaxWindow
           /\ \A d \in TemporalRules, ev \in Events :
                 WindowFollows(Purged(ws)[Key(d, ev)], h, now, d, EntityKey(d, ev))
  <1>1. \A k \in WindowKeys : Purged(ws)[k] = IF Stale(ws[k]) THEN << >> ELSE ws[k]
    BY DEF Purged
  <1>2. /\ Purged(ws) \in [WindowKeys -> WindowType]
        /\ \A k \in WindowKeys : Len(Purged(ws)[k]) <= MaxWindow
    BY <1>1, EmptyWindow, RulesAssumption DEF Purged
  <1>3. ASSUME NEW d \in TemporalRules, NEW ev \in Events
        PROVE  WindowFollows(Purged(ws)[Key(d, ev)], h, now, d, EntityKey(d, ev))
    <2> DEFINE key == EntityKey(d, ev)
               k == Key(d, ev)
    <2>1. d \in RuleFiles /\ d.timeframe \in Int
      BY LoadedRule DEF TemporalRules
    <2>2. k \in WindowKeys /\ WindowFollows(ws[k], h, now, d, key)
      BY <2>1, KeyOfWindow
    <2> HIDE DEF k, key
    <2>3. CASE Stale(ws[k])
      <3>1. \A j \in DOMAIN ws[k] : ws[k][j].ts < now - MaxTTL
        BY <2>3 DEF Stale
      <3>2. d.timeframe <= MaxTTL \/ MustRecord(d, key) = {}
        BY DEF MustRecord
      <3>3. Follows(<< >>, h, now, d.timeframe, MayRecord(d, key), MustRecord(d, key))
        BY <2>1, <2>2, <3>1, <3>2, PurgeFollows DEF WindowFollows
      <3> QED BY <1>1, <2>2, <2>3, <3>3 DEF WindowFollows, k, key
    <2>4. CASE ~ Stale(ws[k])
      BY <1>1, <2>2, <2>4 DEF k, key
    <2> QED BY <2>3, <2>4
  <1> QED BY <1>2, <1>3

\* What a call of count_events leaves of a window, if the condition reaches it.
LEMMA LookedFollows ==
    ASSUME RuleBaseType, NEW d \in loaded["worker"], NEW ev \in Events, now \in Nat,
           windows[Key(d, ev)] \in WindowType, Len(windows[Key(d, ev)]) <= MaxWindow
    PROVE  /\ Looked(d, ev) \in WindowType /\ Len(Looked(d, ev)) <= MaxWindow
           /\ \A h \in HistoryType :
                 Ordered(h, now) /\ WindowFollows(windows[Key(d, ev)], h, now, d, EntityKey(d, ev)) =>
                    WindowFollows(Looked(d, ev), h, now, d, EntityKey(d, ev))
  <1> DEFINE w == windows[Key(d, ev)]
             c == now - d.call.seconds
             key == EntityKey(d, ev)
  <1>1. d.call.seconds \in Nat /\ c \in Int /\ d.timeframe \in Int /\ Len(w) \in Nat
    BY LoadedRule, WindowEntries
  <1>2. Looked(d, ev) = w \/ (Looked(d, ev) = NotOlder(w, c) /\ d.call.reached # {})
    BY DEF Looked
  <1> HIDE DEF w, c, key
  <1>3. CASE Looked(d, ev) = w
    BY <1>3 DEF w
  <1>4. CASE Looked(d, ev) = NotOlder(w, c) /\ d.call.reached # {}
    <2>1. w \in WindowType /\ Len(w) <= MaxWindow
      BY DEF w
    <2>2. NotOlder(w, c) \in WindowType /\ Len(NotOlder(w, c)) \in Nat /\ Len(NotOlder(w, c)) <= Len(w)
      BY <1>1, <2>1, NotOlderType
    <2>3. Len(NotOlder(w, c)) <= MaxWindow
      BY <1>1, <2>1, <2>2, RulesAssumption
    <2>4. MustRecord(d, key) = {}
      <3>1. d.call # NoCall
        BY <1>4 DEF NoCall
      <3> QED BY <3>1 DEF MustRecord
    <2>5. ASSUME NEW h \in HistoryType, Ordered(h, now), WindowFollows(w, h, now, d, key)
          PROVE  WindowFollows(NotOlder(w, c), h, now, d, key)
      BY <1>1, <2>1, <2>4, <2>5, PruneWindow DEF WindowFollows
    <2> QED BY <1>4, <2>2, <2>3, <2>5 DEF w, key
  <1> QED BY <1>2, <1>3, <1>4

\* An event recorded in a window of its rule, and pruned.
LEMMA RecordedFollows ==
    ASSUME NEW w \in WindowType, NEW h \in HistoryType, now \in Nat, NEW d, NEW ev \in Events, NEW key,
           d.timeframe \in Int, ev \in MayRecord(d, key),
           Len(w) <= MaxWindow, Ordered(h, now), WindowFollows(w, h, now, d, key)
    PROVE  LET v == Pruned(Recorded(w, ev), d)
           IN  /\ WindowFollows(v, Append(h, [ts |-> now, ev |-> ev]), now, d, key)
               /\ \A j \in 1 .. Len(v) : v[j].ts >= now - d.timeframe
  <1> DEFINE may == MayRecord(d, key)
             must == MustRecord(d, key)
             g == Append(h, [ts |-> now, ev |-> ev])
             u == Newest(Append(w, [ts |-> now, kind |-> ev.kind]))
             r == NotOlder(u, now - MaxTTL)
  <1>6. Follows(w, h, now, d.timeframe, may, must) /\ ev \in may
    BY DEF WindowFollows
  <1>7. d.timeframe <= MaxTTL \/ must = {}
    BY DEF MustRecord
  <1> HIDE DEF may, must
  <1>1. u \in WindowType /\ Follows(u, g, now, d.timeframe, may, must)
    BY <1>6, AddFollows
  <1>2. g \in HistoryType /\ Ordered(g, now)
    BY HistoryGrows
  <1> HIDE DEF u, g
  <1>3. /\ now - MaxTTL \in Int /\ (d.timeframe <= MaxTTL => now - MaxTTL <= now - d.timeframe)
        /\ now - d.timeframe \in Int /\ now - d.timeframe <= now - d.timeframe
    BY RulesAssumption
  <1>4. r \in WindowType /\ Follows(r, g, now, d.timeframe, may, must)
    BY <1>1, <1>2, <1>3, <1>7, PruneWindow
  <1> HIDE DEF r
  <1>5. /\ Follows(NotOlder(r, now - d.timeframe), g, now, d.timeframe, may, must)
        /\ \A j \in 1 .. Len(NotOlder(r, now - d.timeframe)) :
              NotOlder(r, now - d.timeframe)[j].ts >= now - d.timeframe
    BY <1>2, <1>3, <1>4, PruneWindow
  <1> QED BY <1>5 DEF WindowFollows, Pruned, Recorded, may, must, g, u, r

LEMMA RecordedType ==
    ASSUME NEW w \in WindowType, Len(w) <= MaxWindow, now \in Nat, NEW d, NEW ev \in Events,
           d.timeframe \in Int
    PROVE  Pruned(Recorded(w, ev), d) \in WindowType /\ Len(Pruned(Recorded(w, ev), d)) <= MaxWindow
  <1> DEFINE u == Newest(Append(w, [ts |-> now, kind |-> ev.kind]))
             r == NotOlder(u, now - MaxTTL)
             v == NotOlder(r, now - d.timeframe)
  <1>1. [ts |-> now, kind |-> ev.kind] \in [ts : Nat, kind : {x.kind : x \in Events}]
    OBVIOUS
  <1>2. u \in WindowType /\ Len(u) <= MaxWindow
    BY <1>1, NewestShift
  <1> HIDE DEF u
  <1>3. now - MaxTTL \in Int /\ now - d.timeframe \in Int
    BY RulesAssumption
  <1>4. r \in WindowType /\ Len(r) \in Nat /\ Len(r) <= Len(u)
    BY <1>2, <1>3, NotOlderType
  <1> HIDE DEF r
  <1>5. v \in WindowType /\ Len(v) \in Nat /\ Len(v) <= Len(r)
    BY <1>3, <1>4, NotOlderType
  <1> HIDE DEF v
  <1>6. Len(u) \in Nat
    BY <1>2, WindowEntries
  <1>7. Len(v) <= MaxWindow
    BY <1>2, <1>4, <1>5, <1>6, RulesAssumption
  <1> QED BY <1>5, <1>7 DEF Pruned, Recorded, u, r, v

LEMMA EvaluateEffect ==
    ASSUME NEW ev, Evaluate(ev)
    PROVE  /\ windows' = Purged(After(ev)) \/ windows' = After(ev)
           /\ history' = Append(history, [ts |-> now, ev |-> ev]) /\ now' = now
           /\ disk' = disk /\ loaded' = loaded
           /\ \A id : id \in fired' <=>
                 \E x \in loaded["worker"] :
                     /\ id = x.id /\ Matches(x, ev, Found(x, ev))
                     /\ x.timeframe = None \/ CountIn(After(ev)[Key(x, ev)], x) >= Threshold(x)
  <1>1. /\ windows' = Purged(After(ev)) \/ windows' = After(ev)
        /\ fired' = {d.id : d \in {x \in MatchingRules(ev) :
                        x.timeframe = None \/ CountIn(After(ev)[Key(x, ev)], x) >= Threshold(x)}}
        /\ history' = Append(history, [ts |-> now, ev |-> ev]) /\ now' = now
        /\ disk' = disk /\ loaded' = loaded
    BY DEF Evaluate, engineVars
  <1>2. \A id : id \in fired' <=>
           \E x \in loaded["worker"] :
               /\ id = x.id /\ Matches(x, ev, Found(x, ev))
               /\ x.timeframe = None \/ CountIn(After(ev)[Key(x, ev)], x) >= Threshold(x)
    BY <1>1, Zenon DEF MatchingRules
  <1> QED BY <1>1, <1>2

\* The windows the event touches are those of the rules loaded, for its entity.
LEMMA AfterWindows ==
    ASSUME WindowInv, NEW ev \in Events
    PROVE  /\ \A d \in loaded["worker"] :
                 After(ev)[Key(d, ev)] = IF d \in Temporal(ev) THEN Pruned(Recorded(Looked(d, ev), ev), d)
                                         ELSE Looked(d, ev)
           /\ \A k \in WindowKeys : (\A d \in loaded["worker"] : k # Key(d, ev)) => After(ev)[k] = windows[k]
           /\ After(ev) \in [WindowKeys -> WindowType]
           /\ \A k \in WindowKeys : Len(After(ev)[k]) <= MaxWindow
  <1>0. RuleBaseType /\ WindowsType /\ now \in Nat
    BY DEF WindowInv, WindowsType
  <1>1. ASSUME NEW d \in loaded["worker"]
        PROVE  After(ev)[Key(d, ev)] = IF d \in Temporal(ev) THEN Pruned(Recorded(Looked(d, ev), ev), d)
                                       ELSE Looked(d, ev)
    <2>1. d \in RuleFiles /\ \A c \in loaded["worker"] : c.id = d.id => c = d
      BY <1>0, LoadedRule
    <2>2. Key(d, ev) \in WindowKeys /\ Key(d, ev)[1] = d.id
      BY <2>1, KeyOfWindow
    <2>3. (CHOOSE x \in loaded["worker"] : x.id = Key(d, ev)[1]) = d
      BY <2>1, <2>2
    <2> HIDE DEF Temporal
    <2> QED BY <2>2, <2>3, Zenon DEF After
  <1>2. \A k \in WindowKeys : (\A d \in loaded["worker"] : k # Key(d, ev)) => After(ev)[k] = windows[k]
    BY DEF After
  <1>3. ASSUME NEW k \in WindowKeys
        PROVE  After(ev)[k] \in WindowType /\ Len(After(ev)[k]) <= MaxWindow
    <2>1. windows[k] \in WindowType /\ Len(windows[k]) <= MaxWindow
      BY <1>0 DEF WindowsType
    <2>2. CASE \E d \in loaded["worker"] : k = Key(d, ev)
      <3>1. PICK d \in loaded["worker"] : k = Key(d, ev)
        BY <2>2
      <3>2. d.timeframe \in Int
        BY <1>0, LoadedRule
      <3>3. Looked(d, ev) \in WindowType /\ Len(Looked(d, ev)) <= MaxWindow
        BY <1>0, <2>1, <3>1, LookedFollows
      <3>4. /\ Pruned(Recorded(Looked(d, ev), ev), d) \in WindowType
            /\ Len(Pruned(Recorded(Looked(d, ev), ev), d)) <= MaxWindow
        BY <1>0, <3>2, <3>3, RecordedType
      <3> QED BY <1>1, <3>1, <3>3, <3>4
    <2>3. CASE \A d \in loaded["worker"] : k # Key(d, ev)
      BY <1>2, <2>1, <2>3
    <2> QED BY <2>2, <2>3
  <1>4. After(ev) \in [WindowKeys -> WindowType]
    BY <1>3 DEF After
  <1> QED BY <1>1, <1>2, <1>3, <1>4

\* What the condition of a rule says of an event, and what its window gets.
LEMMA RecordsOwn ==
    ASSUME RuleBaseType, NEW ev \in Events, NEW d \in loaded["worker"]
    PROVE  /\ d \in Temporal(ev) => ev \in MayRecord(d, EntityKey(d, ev))
           /\ d.timeframe # None /\ d \notin Temporal(ev) => ev \notin MustRecord(d, EntityKey(d, ev))
           /\ \A key : key # EntityKey(d, ev) => ev \notin MustRecord(d, key)
           /\ d \in Temporal(ev) <=> d.timeframe # None /\ Matches(d, ev, Found(d, ev))
  <1>1. d \in Temporal(ev) <=> d.timeframe # None /\ Matches(d, ev, Found(d, ev))
    BY DEF Temporal, MatchingRules
  <1>2. d.call = NoCall => (Satisfies(d, ev.kind, Found(d, ev)) <=> ev.kind \in d.condition)
    BY NoCallFacts
  <1> QED BY <1>1, <1>2 DEF MayRecord, MustRecord, Matches

LEMMA AfterFollows ==
    ASSUME WindowInv, NEW ev \in Events, NEW d \in TemporalRules, NEW x \in Events
    PROVE  WindowFollows(After(ev)[Key(d, x)], Append(history, [ts |-> now, ev |-> ev]),
                         now, d, EntityKey(d, x))
  <1> DEFINE key == EntityKey(d, x)
             k == Key(d, x)
             g == Append(history, [ts |-> now, ev |-> ev])
  <1>1. RuleBaseType /\ d \in loaded["worker"] /\ d.timeframe # None
    BY DEF TemporalRules, WindowInv
  <1>2. d \in RuleFiles /\ d.timeframe \in Int /\ \A c \in loaded["worker"] : c.id = d.id => c = d
    BY <1>1, LoadedRule
  <1>3. /\ k \in WindowKeys /\ windows[k] \in WindowType /\ Len(windows[k]) <= MaxWindow
        /\ WindowFollows(windows[k], history, now, d, key) /\ k = Key(d, x)
    BY <1>2, KeyOfWindow DEF WindowInv, WindowsType, WindowsFollow
  <1>4. now \in Nat /\ history \in HistoryType /\ Ordered(history, now)
    BY DEF WindowInv, WindowsType
  <1>5. \A w \in WindowType : WindowFollows(w, history, now, d, key) /\ ev \notin MustRecord(d, key)
           => WindowFollows(w, g, now, d, key)
    BY <1>2, <1>4, SkipFollows DEF WindowFollows
  <1> HIDE DEF g
  <1>6. CASE EntityKey(d, ev) = key
    <2>1. k = Key(d, ev)
      BY <1>6 DEF Key
    <2> DEFINE w == Looked(d, ev)
    <2>2. /\ w \in WindowType /\ Len(w) <= MaxWindow /\ WindowFollows(w, history, now, d, key)
      BY <1>1, <1>3, <1>4, <1>6, <2>1, LookedFollows
    <2>3. After(ev)[k] = IF d \in Temporal(ev) THEN Pruned(Recorded(w, ev), d) ELSE w
      BY <1>1, <2>1, AfterWindows
    <2> HIDE DEF w
    <2>4. CASE d \in Temporal(ev)
      <3>1. ev \in MayRecord(d, key)
        BY <1>1, <1>6, <2>4, RecordsOwn
      <3>2. WindowFollows(Pruned(Recorded(w, ev), d), g, now, d, key)
        BY <1>2, <1>4, <2>2, <3>1, RecordedFollows DEF g
      <3> QED BY <2>3, <2>4, <3>2 DEF g
    <2>5. CASE d \notin Temporal(ev)
      <3>1. ev \notin MustRecord(d, key)
        BY <1>1, <1>6, <2>5, RecordsOwn
      <3>2. WindowFollows(w, g, now, d, key)
        BY <1>5, <2>2, <3>1
      <3> QED BY <2>3, <2>5, <3>2 DEF g
    <2> QED BY <2>4, <2>5 DEF g
  <1>7. CASE EntityKey(d, ev) # key
    <2>1. ASSUME NEW c \in loaded["worker"], k = Key(c, ev)
          PROVE  FALSE
      <3>1. c.id = d.id /\ EntityKey(c, ev) = key
        BY <2>1 DEF Key
      <3> QED BY <1>2, <1>7, <3>1
    <2>2. After(ev)[k] = windows[k]
      BY <1>3, <2>1, AfterWindows
    <2>3. ev \notin MustRecord(d, key)
      BY <1>1, <1>7, RecordsOwn
    <2>4. WindowFollows(windows[k], g, now, d, key)
      BY <1>3, <1>5, <2>3
    <2> QED BY <2>2, <2>4 DEF g
  <1> QED BY <1>6, <1>7

Counting(h, d, key) == Counts(h, MayRecord(d, key), d, now - d.timeframe)

\* The windows after an event: what is in them is in the timeframe.
LEMMA AfterCounts ==
    ASSUME WindowInv, NEW ev \in Events, NEW d \in Temporal(ev)
    PROVE  LET h == Append(history, [ts |-> now, ev |-> ev])
               w == After(ev)[Key(d, ev)]
               C == Counting(h, d, EntityKey(d, ev))
           IN  /\ Cardinality(C) \in Nat /\ CountIn(w, d) \in Nat /\ CountIn(w, d) <= Cardinality(C)
               /\ d.call = NoCall /\ d.timeframe <= MaxTTL /\ d.threshold <= MaxWindow =>
                     (CountIn(w, d) >= Threshold(d) <=> Cardinality(C) >= Threshold(d))
  <1> DEFINE key == EntityKey(d, ev)
             h == Append(history, [ts |-> now, ev |-> ev])
             w == After(ev)[Key(d, ev)]
             may == MayRecord(d, key)
  <1>1. RuleBaseType /\ d \in loaded["worker"] /\ d.timeframe # None /\ d \in TemporalRules
    BY DEF WindowInv, Temporal, MatchingRules, TemporalRules
  <1>2. /\ d \in RuleFiles /\ d.timeframe \in Int /\ Threshold(d) \in Nat
        /\ d.threshold <= MaxWindow => Threshold(d) <= MaxWindow
    BY <1>1, LoadedRule
  <1>3. now \in Nat /\ history \in HistoryType /\ Ordered(history, now) /\ h \in HistoryType
    BY HistoryGrows DEF WindowInv, WindowsType
  <1>4. Key(d, ev) \in WindowKeys /\ w \in WindowType
    BY <1>2, KeyOfWindow, AfterWindows
  <1>5. Follows(w, h, now, d.timeframe, may, MustRecord(d, key))
    BY <1>1, AfterFollows DEF WindowFollows
  <1>6. \A j \in 1 .. Len(w) : w[j].ts >= now - d.timeframe
    <2> DEFINE v == Looked(d, ev)
    <2>1. /\ windows[Key(d, ev)] \in WindowType /\ Len(windows[Key(d, ev)]) <= MaxWindow
          /\ WindowFollows(windows[Key(d, ev)], history, now, d, key)
      BY <1>1, <1>4 DEF WindowInv, WindowsType, WindowsFollow
    <2>2. v \in WindowType /\ Len(v) <= MaxWindow /\ WindowFollows(v, history, now, d, key)
      BY <1>1, <1>3, <2>1, LookedFollows
    <2>3. w = Pruned(Recorded(v, ev), d)
      BY <1>1, AfterWindows
    <2>4. ev \in MayRecord(d, key)
      BY <1>1, RecordsOwn
    <2> HIDE DEF v, w
    <2> QED BY <1>2, <1>3, <2>2, <2>3, <2>4, RecordedFollows
  <1> HIDE DEF h, w, may, key
  <1>7. PICK f : Embeds(f, w, h, may)
    BY <1>5 DEF Follows
  <1>8. Counting(h, d, key) = Counts(h, may, d, now - d.timeframe)
    BY DEF Counting, may
  <1>9. /\ Cardinality(Counting(h, d, key)) \in Nat /\ CountIn(w, d) \in Nat
        /\ CountIn(w, d) <= Cardinality(Counting(h, d, key))
    <2>1. PICK c \in Int : c = now - d.timeframe
      BY <1>2, <1>3
    <2>2. \A j \in 1 .. Len(w) : w[j].ts >= c
      BY <1>6, <2>1
    <2>3. Counting(h, d, key) = Counts(h, may, d, c)
      BY <1>8, <2>1
    <2> QED BY <1>3, <1>4, <1>7, <2>2, <2>3, CountBound
  <1>10. ASSUME d.call = NoCall, d.timeframe <= MaxTTL, d.threshold <= MaxWindow
         PROVE  CountIn(w, d) >= Threshold(d) <=> Cardinality(Counting(h, d, key)) >= Threshold(d)
    <2>1. MustRecord(d, key) = may
      BY <1>10 DEF MustRecord, may
    <2>2. \A e \in may : Satisfies(d, e.kind, 0)
      BY <1>10, NoCallFacts DEF may, MayRecord
    <2>3. Follows(w, h, now, d.timeframe, may, may)
      BY <1>5, <2>1
    <2>4. Threshold(d) \in Nat /\ Threshold(d) <= MaxWindow
      BY <1>2, <1>10
    <2> QED BY <1>2, <1>3, <1>4, <1>6, <1>8, <2>2, <2>3, <2>4, CountExact
  <1> QED BY <1>9, <1>10 DEF h, w, key

\* A rule fires when enough events of the history call for it.
LEMMA FiresExactly ==
    ASSUME WindowInv, NEW ev \in Events, Evaluate(ev), NEW d \in loaded["worker"]
    PROVE  LET C == Counting(history', d, EntityKey(d, ev))
           IN  /\ d.id \in fired' =>
                     Applies(d, ev) /\ (d.timeframe = None \/ Cardinality(C) >= Threshold(d))
               /\ d.call = NoCall /\ d.timeframe <= MaxTTL /\ d.threshold <= MaxWindow =>
                     (d.id \in fired' <=>
                         Matches(d, ev, 0) /\ (d.timeframe = None \/ Cardinality(C) >= Threshold(d)))
  <1> DEFINE C == Counting(history', d, EntityKey(d, ev))
             w == After(ev)[Key(d, ev)]
             M == Matches(d, ev, Found(d, ev))
  <1>1. RuleBaseType /\ d.timeframe \in Int /\ Threshold(d) \in Nat
        /\ \A c \in loaded["worker"] : c.id = d.id => c = d
    BY LoadedRule DEF WindowInv
  <1>2. d.id \in fired' <=> M /\ (d.timeframe = None \/ CountIn(w, d) >= Threshold(d))
    <2>1. d.id \in fired' <=>
             \E x \in loaded["worker"] :
                 /\ d.id = x.id /\ Matches(x, ev, Found(x, ev))
                 /\ x.timeframe = None \/ CountIn(After(ev)[Key(x, ev)], x) >= Threshold(x)
      BY EvaluateEffect
    <2> QED BY <1>1, <2>1, Zenon
  <1>3. history' = Append(history, [ts |-> now, ev |-> ev])
    BY EvaluateEffect
  <1>4. M => Applies(d, ev)
    BY DEF Matches
  <1>5. d.call = NoCall => (M <=> Matches(d, ev, 0))
    BY NoCallFacts DEF Matches
  <1>6. ASSUME M, d.timeframe # None
        PROVE  /\ Cardinality(C) \in Nat /\ CountIn(w, d) \in Nat /\ CountIn(w, d) <= Cardinality(C)
               /\ d.call = NoCall /\ d.timeframe <= MaxTTL /\ d.threshold <= MaxWindow =>
                     (CountIn(w, d) >= Threshold(d) <=> Cardinality(C) >= Threshold(d))
    <2>1. d \in Temporal(ev)
      BY <1>1, <1>6, RecordsOwn
    <2> QED BY <1>3, <2>1, AfterCounts
  <1> HIDE DEF C, w, M
  <1>7. M /\ d.timeframe # None /\ CountIn(w, d) >= Threshold(d) => Cardinality(C) >= Threshold(d)
    BY <1>1, <1>6
  <1> QED BY <1>2, <1>4, <1>5, <1>6, <1>7 DEF C

LEMMA EvaluateKeeps ==
    ASSUME WindowInv, NEW ev \in Events, Evaluate(ev)
    PROVE  WindowInv'
  <1> DEFINE g == Append(history, [ts |-> now, ev |-> ev])
  <1>1. /\ windows' = Purged(After(ev)) \/ windows' = After(ev)
        /\ history' = g /\ now' = now /\ disk' = disk /\ loaded' = loaded
    BY EvaluateEffect
  <1>2. now \in Nat /\ history \in HistoryType /\ Ordered(history, now) /\ RuleBaseType
    BY DEF WindowInv, WindowsType
  <1>3. /\ g \in HistoryType /\ Ordered(g, now) /\ Len(g) = Len(history) + 1
        /\ g[Len(history) + 1] = [ts |-> now, ev |-> ev]
    BY <1>2, HistoryGrows
  <1> HIDE DEF g
  <1>4. RuleBaseType'
    BY <1>1, <1>2 DEF RuleBaseType
  <1>5. /\ After(ev) \in [WindowKeys -> WindowType]
        /\ \A k \in WindowKeys : Len(After(ev)[k]) <= MaxWindow
        /\ \A d \in TemporalRules, x \in Events :
              WindowFollows(After(ev)[Key(d, x)], g, now, d, EntityKey(d, x))
    BY AfterWindows, AfterFollows DEF g
  <1>6. /\ Purged(After(ev)) \in [WindowKeys -> WindowType]
        /\ \A k \in WindowKeys : Len(Purged(After(ev))[k]) <= MaxWindow
        /\ \A d \in TemporalRules, x \in Events :
              WindowFollows(Purged(After(ev))[Key(d, x)], g, now, d, EntityKey(d, x))
    BY <1>2, <1>3, <1>5, PurgedFollows
  <1>7. /\ windows' \in [WindowKeys -> WindowType]
        /\ \A k \in WindowKeys : Len(windows'[k]) <= MaxWindow
        /\ \A d \in TemporalRules, x \in Events :
              WindowFollows(windows'[Key(d, x)], g, now, d, EntityKey(d, x))
    BY <1>1, <1>5, <1>6
  <1>8. WindowsType'
    BY <1>1, <1>2, <1>3, <1>7 DEF WindowsType
  <1>9. WindowsFollow'
    <2>1. TemporalRules' = TemporalRules
      BY <1>1 DEF TemporalRules
    <2> QED BY <1>1, <1>7, <2>1 DEF WindowsFollow
  <1>10. TemporalExact'
    <2>1. Len(history') = Len(history) + 1 /\ Last(history') = [ts |-> now, ev |-> ev]
      BY <1>1, <1>3 DEF Last
    <2>2. Last(history').ev = ev /\ Last(history').ts = now
      BY <2>1
    <2>3. DOMAIN history' = 1 .. Len(history') /\ \A i \in 1 .. Len(history') : history'[i].ev \in Events
      <3>1. \A i \in 1 .. Len(g) : g[i].ev \in Events
        BY <1>3, HistoryEntries
      <3>2. DOMAIN g = 1 .. Len(g)
        BY <1>3 DEF HistoryType
      <3> QED BY <1>1, <3>1, <3>2
    <2>4. ASSUME NEW d \in loaded'["worker"]
          PROVE  LET C == {i \in DOMAIN history' :
                              /\ Matches(d, history'[i].ev, 0)
                              /\ EntityKey(d, history'[i].ev) = EntityKey(d, ev)
                              /\ history'[i].ts >= now - d.timeframe}
                 IN  /\ d.id \in fired' =>
                           Applies(d, ev) /\ (d.timeframe = None \/ Cardinality(C) >= Threshold(d))
                     /\ d.call = NoCall /\ d.timeframe <= MaxTTL /\ d.threshold <= MaxWindow =>
                           (d.id \in fired' <=>
                               Matches(d, ev, 0) /\ (d.timeframe = None \/ Cardinality(C) >= Threshold(d)))
      <3>1. Counting(history', d, EntityKey(d, ev)) =
               {i \in DOMAIN history' :
                   /\ Matches(d, history'[i].ev, 0)
                   /\ EntityKey(d, history'[i].ev) = EntityKey(d, ev)
                   /\ history'[i].ts >= now - d.timeframe}
        <4>1. ASSUME NEW i \in 1 .. Len(history')
              PROVE  /\ history'[i].ev \in MayRecord(d, EntityKey(d, ev)) /\ Satisfies(d, history'[i].ev.kind, 0)
                     <=> /\ Matches(d, history'[i].ev, 0)
                         /\ EntityKey(d, history'[i].ev) = EntityKey(d, ev)
          <5>1. d.call = NoCall =>
                   (Satisfies(d, history'[i].ev.kind, 0) <=> history'[i].ev.kind \in d.condition)
            BY NoCallFacts
          <5> QED BY <2>3, <5>1 DEF MayRecord, Matches
        <4> QED BY <2>3, <4>1 DEF Counting, Counts, Matching
      <3> QED BY <1>1, <3>1, FiresExactly
    <2> QED BY <2>2, <2>4 DEF TemporalExact
  <1> QED BY <1>4, <1>8, <1>9, <1>10 DEF WindowInv

LEMMA WindowsNext ==
    ASSUME WindowInv, [RNext]_ruleVars
    PROVE  WindowInv'
  <1>1. RuleBaseType /\ WindowsType /\ WindowsFollow /\ TemporalExact
    BY DEF WindowInv
  <1>2. ASSUME RuleBaseType', UNCHANGED <<loaded["worker"], windows, history, fired, now>>
        PROVE  WindowInv'
    <2>1. WindowsType' /\ TemporalRules' = TemporalRules
      BY <1>1, <1>2 DEF WindowsType, TemporalRules
    <2>2. WindowsFollow'
      BY <1>1, <1>2, <2>1 DEF WindowsFollow
    <2>3. TemporalExact'
      BY <1>1, <1>2 DEF TemporalExact
    <2> QED BY <1>2, <2>1, <2>2, <2>3 DEF WindowInv
  <1>3. ASSUME NEW d \in RuleFiles, WriteRule(d)
        PROVE  WindowInv'
    <2>1. disk' = [disk EXCEPT !["custom"] = {x \in @ : x.id # d.id} \cup {d}] /\ loaded' = loaded
      BY <1>3 DEF WriteRule
    <2>2. disk' \in [Sources -> SUBSET RuleFiles]
      BY <1>1, <2>1 DEF RuleBaseType
    <2>3. ASSUME NEW s \in Sources
          PROVE  OneOfEachId(disk'[s])
      <3>1. OneOfEachId(disk[s])
        BY <1>1 DEF RuleBaseType
      <3>2. CASE s = "custom"
        <4>1. disk'[s] = {x \in disk[s] : x.id # d.id} \cup {d}
          BY <1>1, <2>1, <3>2 DEF RuleBaseType
        <4> QED BY <3>1, <4>1 DEF OneOfEachId
      <3>3. CASE s # "custom"
        BY <1>1, <2>1, <3>1, <3>3 DEF RuleBaseType
      <3> QED BY <3>2, <3>3
    <2>4. RuleBaseType'
      BY <1>1, <2>1, <2>2, <2>3 DEF RuleBaseType
    <2> QED BY <1>2, <1>3, <2>1, <2>4 DEF WriteRule, windowVars
  <1>4. CASE ReloadRules
    <2>1. disk' = disk /\ loaded' = [loaded EXCEPT !["api"] = LoadAll(disk)]
      BY <1>4 DEF ReloadRules, Reload
    <2>2. loaded'["worker"] = loaded["worker"]
      BY <2>1
    <2>3. RuleBaseType'
      BY <1>1, <2>1, <2>2 DEF RuleBaseType
    <2> QED BY <1>2, <1>4, <2>2, <2>3 DEF ReloadRules, windowVars
  <1>5. CASE RestartServer
    <2>1. /\ disk' = disk /\ loaded'["worker"] = LoadAll(disk) /\ now' = now
          /\ windows' = NoWindows /\ history' = << >>
      BY <1>5 DEF RestartServer, Engines
    <2>2. RuleBaseType'
      BY <1>1, <2>1, LoadedRules DEF RuleBaseType
    <2>3. now' \in Nat
      BY <1>1, <2>1 DEF WindowsType
    <2> QED BY <2>1, <2>2, <2>3, WindowsStart DEF WindowInv
  <1>6. ASSUME NEW ev \in Events, Evaluate(ev)
        PROVE  WindowInv'
    BY <1>6, EvaluateKeeps
  <1>7. CASE PeriodicPurge
    <2>1. windows' = Purged(windows) /\ UNCHANGED <<disk, loaded, history, fired, now>>
      BY <1>7 DEF PeriodicPurge, engineVars
    <2>2. /\ windows \in [WindowKeys -> WindowType] /\ history \in HistoryType
          /\ \A k \in WindowKeys : Len(windows[k]) <= MaxWindow
          /\ now \in Nat /\ Ordered(history, now)
      BY <1>1 DEF WindowsType
    <2>3. /\ Purged(windows) \in [WindowKeys -> WindowType]
          /\ \A k \in WindowKeys : Len(Purged(windows)[k]) <= MaxWindow
          /\ \A d \in TemporalRules, ev \in Events :
                WindowFollows(Purged(windows)[Key(d, ev)], history, now, d, EntityKey(d, ev))
      BY <1>1, <2>2, PurgedFollows DEF WindowsFollow
    <2>4. RuleBaseType' /\ TemporalRules' = TemporalRules
      BY <1>1, <2>1 DEF RuleBaseType, TemporalRules
    <2>5. WindowsType'
      BY <2>1, <2>2, <2>3 DEF WindowsType
    <2>6. WindowsFollow'
      BY <2>1, <2>3, <2>4 DEF WindowsFollow
    <2>7. TemporalExact'
      BY <1>1, <2>1 DEF TemporalExact
    <2> QED BY <2>4, <2>5, <2>6, <2>7 DEF WindowInv
  <1>8. CASE Tick
    <2>1. now' = now + 1 /\ UNCHANGED <<disk, loaded, windows, history, fired>>
      BY <1>8 DEF Tick, engineVars, windowVars
    <2>2. /\ now \in Nat /\ history \in HistoryType /\ Ordered(history, now)
          /\ now' \in Nat /\ now <= now'
      BY <1>1, <2>1 DEF WindowsType
    <2>3. RuleBaseType' /\ TemporalRules' = TemporalRules
      BY <1>1, <2>1 DEF RuleBaseType, TemporalRules
    <2>4. Ordered(history, now')
      <3>1. \A i \in 1 .. Len(history) : history[i].ts \in Nat
        BY <2>2, HistoryEntries
      <3> QED BY <2>2, <3>1 DEF Ordered
    <2>5. WindowsType'
      BY <1>1, <2>1, <2>2, <2>4 DEF WindowsType
    <2>6. ASSUME NEW d \in TemporalRules, NEW ev \in Events
          PROVE  WindowFollows(windows[Key(d, ev)], history, now', d, EntityKey(d, ev))
      <3>1. d.timeframe \in Int
        BY <1>1, LoadedRule DEF TemporalRules
      <3>2. WindowFollows(windows[Key(d, ev)], history, now, d, EntityKey(d, ev))
        BY <1>1 DEF WindowsFollow
      <3> QED BY <2>2, <3>1, <3>2, LaterFollows DEF WindowFollows
    <2>7. WindowsFollow'
      BY <2>1, <2>3, <2>6 DEF WindowsFollow
    <2>8. TemporalExact'
      BY <1>1, <2>1 DEF TemporalExact
    <2> QED BY <2>3, <2>5, <2>7, <2>8 DEF WindowInv
  <1>9. CASE UNCHANGED <<engineVars, windowVars, now>>
    <2>1. RuleBaseType'
      BY <1>1, <1>9 DEF RuleBaseType, engineVars
    <2> QED BY <1>2, <1>9, <2>1 DEF engineVars, windowVars
  <1>10. CASE \/ \E id \in RowIds, values \in Values : CreateRule(id, values)
              \/ \E a \in Admins, id \in RowIds, fields \in Updates : BeginUpdate(a, id, fields)
              \/ \E a \in Admins, id \in RowIds, profile \in Contents : AssignProfile(a, id, profile)
              \/ \E a \in Admins, id \in RowIds : BeginDelete(a, id)
              \/ \E a \in Admins : CommitUpdate(a) \/ CommitDelete(a)
              \/ RulesCli
    BY <1>9, <1>10 DEF RulesCli, AssignProfile, CreateRule, BeginUpdate, BeginDelete, CommitUpdate, CommitDelete
  <1> QED BY <1>3, <1>4, <1>5, <1>6, <1>7, <1>8, <1>9, <1>10 DEF RNext, ruleVars

\* A rule without a count_events call fires exactly when enough events of the
\* history call for it, and one with a call never on fewer, for any rule base,
\* any length of window and any order of events, purges and restarts
\* (rule_engine/evaluator.py, evaluate and _count_events_in_window).
THEOREM TemporalRulesFire == RSpec => []TemporalExact
  <1>1. RInit => WindowInv
    <2> SUFFICES ASSUME RInit
                 PROVE  WindowInv
      OBVIOUS
    <2>1. /\ disk \in [Sources -> SUBSET RuleFiles] /\ \A s \in Sources : OneOfEachId(disk[s])
          /\ loaded["worker"] = LoadAll(disk)
      BY RulesAssumption DEF RInit, OneOfEachId, Engines
    <2>2. RuleBaseType
      BY <2>1, LoadedRules DEF RuleBaseType
    <2>3. /\ windows \in [WindowKeys -> WindowType]
          /\ \A k \in WindowKeys : Len(windows[k]) <= MaxWindow
      BY EmptyWindow, RulesAssumption DEF RInit, NoWindows
    <2>4. now \in Nat /\ history \in HistoryType /\ Ordered(history, now)
      BY EmptyFollows, RulesAssumption DEF RInit
    <2>5. ASSUME NEW d \in TemporalRules, NEW ev \in Events
          PROVE  WindowFollows(windows[Key(d, ev)], history, now, d, EntityKey(d, ev))
      <3>1. d \in RuleFiles
        BY <2>2 DEF TemporalRules, RuleBaseType
      <3>2. windows[Key(d, ev)] = << >> /\ history = << >>
        BY <3>1, KeyOfWindow DEF RInit, NoWindows
      <3> QED BY <3>2, EmptyFollows
    <2> QED BY <2>2, <2>3, <2>4, <2>5 DEF RInit, WindowInv, WindowsType, WindowsFollow, TemporalExact
  <1>2. WindowInv /\ [RNext]_ruleVars => WindowInv'
    BY WindowsNext
  <1>3. WindowInv => TemporalExact
    BY DEF WindowInv
  <1> QED BY <1>1, <1>2, <1>3, PTL DEF RSpec


=============================================================================
