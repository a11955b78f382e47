---------------------------- MODULE EventMerger ----------------------------
(***************************************************************************)
(* The agent's event path from the collectors to the batcher:              *)
(* CollectorManager's fan-in channel, EventMerger.Run, the fanout          *)
(* goroutine of main() and the batcher as its consumer, with the bounded   *)
(* Go channels between them, and main()'s shutdown sequence.               *)
(*                                                                         *)
(* An activity of the host (a connection, a process start, ...) is seen by *)
(* one or two collectors; what a collector reports of it is an             *)
(* observation. mergeKey maps the activity to its group key.               *)
(***************************************************************************)
EXTENDS Naturals, Sequences, FiniteSets, Functions

CONSTANTS
    Activity,    \* what happens on the host
    Key,         \* fingerprints
    KeyOf,       \* the fingerprint of an activity
    SeenBy,      \* the collectors that report an activity
    None,
    InCap,       \* capacity of the manager's channel (fanInBufSize)
    OutCap,      \* capacity of the merger's channel (512)
    BatcherCap   \* capacity of batcherCh (fanInBufSize)

Source == {"ebpf", "netlink", "auditd", "other"}

ASSUME MergerAssumption ==
    /\ None \notin Activity \cup Key
    /\ KeyOf \in [Activity -> Key] /\ SeenBy \in [Activity -> SUBSET Source]
    /\ {InCap, OutCap, BatcherCap} \subseteq Nat \ {0}

\* src: the activity whose local address enriched the event
Event == [of : Activity, via : Source, src : Activity \cup {None}]
NoEvent == [of |-> None, via |-> "none", src |-> None]

VARIABLES
    unseen,     \* observations the collectors have not reported yet
    collecting, \* collector goroutines are collecting
    in,         \* CollectorManager.out
    groups,     \* EventMerger.groups, the primary of each
    merger,     \* where EventMerger.Run is
    todo,       \* events it has to emit before it goes on
    out,        \* EventMerger.out, closed when merger = "done"
    fanout,     \* where the fanout goroutine is
    held,       \* the event it holds
    batcherCh,  \* closed when fanout = "done"
    batcher, main,
    cancelled,  \* ctx is done
    \* History; no step reads it.
    delivered,  \* events the batcher received
    twice,      \* ... a second time
    absorbed,   \* observations merged into another event
    dropped     \* events given up because a channel was full or ctx done

mvars == <<groups, merger, todo>>
hvars == <<absorbed, dropped>>
dvars == <<delivered, twice>>
mergerVars == <<unseen, collecting, in, mvars, out, fanout, held, batcherCh, batcher, main, cancelled, dvars, hvars>>

Observation == {[of |-> a, via |-> v, src |-> None] : a \in Activity, v \in Source}

MergerTypeOK ==
    /\ unseen \subseteq Observation /\ collecting \in BOOLEAN
    /\ in \in Seq(Event) /\ Len(in) <= InCap
    /\ groups \in [Key -> Event \cup {NoEvent}]
    /\ merger \in {"select", "emit", "flush", "done"} /\ todo \subseteq Event
    /\ out \in Seq(Event) /\ Len(out) <= OutCap
    /\ fanout \in {"range", "send", "done"} /\ held \in Event \cup {NoEvent}
    /\ batcherCh \in Seq(Event) /\ Len(batcherCh) <= BatcherCap
    /\ batcher \in {"run", "done"} /\ main \in {"run", "stopped"}
    /\ cancelled \in BOOLEAN /\ delivered \subseteq Event /\ twice \subseteq Event
    /\ absorbed \subseteq Event /\ dropped \subseteq Event

MInit ==
    /\ unseen = {o \in Observation : o.via \in SeenBy[o.of]} /\ collecting = TRUE
    /\ in = <<>> /\ groups = [k \in Key |-> NoEvent]
    /\ merger = "select" /\ todo = {} /\ out = <<>>
    /\ fanout = "range" /\ held = NoEvent /\ batcherCh = <<>>
    /\ batcher = "run" /\ main = "run" /\ cancelled = FALSE
    /\ delivered = {} /\ twice = {} /\ absorbed = {} /\ dropped = {}

-----------------------------------------------------------------------------
(* Collectors and the manager's channel, closed once all have exited.      *)

Collect(o) ==
    /\ o \in unseen /\ collecting /\ Len(in) < InCap
    /\ unseen' = unseen \ {o} /\ in' = Append(in, o)
    /\ UNCHANGED <<collecting, mvars, out, fanout, held, batcherCh, batcher, main,
                   cancelled, dvars, hvars>>

\* The last collector returns, because ctx is done or because it failed. One that
\* fails before only reports nothing more.
CollectorsExit ==
    /\ collecting
    /\ collecting' = FALSE
    /\ UNCHANGED <<unseen, in, mvars, out, fanout, held, batcherCh, batcher, main,
                   cancelled, dvars, hvars>>

-----------------------------------------------------------------------------
(* EventMerger.                                                            *)

\* The non-blocking send of flushGroup and flushAll
TrySend(e) ==
    IF Len(out) < OutCap THEN out' = Append(out, e) /\ UNCHANGED dropped
    ELSE dropped' = dropped \cup {e} /\ UNCHANGED out

Mergeable(o) == o.via # "other"

\* Mutant of Promote: the enrichment collected so far is forgotten
PromoteBare(old, o) == o

\* The eBPF event takes over the address a netlink event carried or contributed
Promote(old, o) ==
    [o EXCEPT !.src = IF old.src # None THEN old.src
                      ELSE IF old.via = "netlink" THEN old.of ELSE None]

\* rolePrimary: promote over a lower priority, else flush the group and start anew
IngestPrimary(o, k) ==
    /\ IF groups[k].via # "ebpf"
       THEN /\ groups' = [groups EXCEPT ![k] = Promote(groups[k], o)]
            /\ absorbed' = absorbed \cup {[groups[k] EXCEPT !.src = None]}
            /\ UNCHANGED <<dropped, out>>
       ELSE groups' = [groups EXCEPT ![k] = o] /\ TrySend(groups[k]) /\ UNCHANGED absorbed

\* roleNetlinkSecondary enriches the primary, roleAuditdSecondary is a duplicate
IngestSecondary(o, k) ==
    /\ groups' = [groups EXCEPT ![k].src = IF o.via = "netlink" THEN o.of ELSE @]
    /\ absorbed' = absorbed \cup {o}
    /\ UNCHANGED <<dropped, out>>

ingest ==
    /\ merger = "select" /\ in # <<>>
    /\ in' = Tail(in)
    /\ LET o == Head(in)
           k == KeyOf[o.of]
       IN \/ /\ ~Mergeable(o)
             /\ todo' = {o} /\ merger' = "emit"
             /\ UNCHANGED <<groups, out, hvars>>
          \/ /\ Mergeable(o) /\ groups[k] = NoEvent
             /\ groups' = [groups EXCEPT ![k] = o]
             /\ UNCHANGED <<merger, todo, out, hvars>>
          \/ /\ Mergeable(o) /\ groups[k] # NoEvent
             /\ IF o.via = "ebpf" THEN IngestPrimary(o, k) ELSE IngestSecondary(o, k)
             /\ UNCHANGED <<merger, todo>>
    /\ UNCHANGED <<unseen, collecting, fanout, held, batcherCh, batcher, main,
                   cancelled, dvars>>

\* Groups whose window of 300 ms may be over when the ticker fires
Expired(S) == S # {} /\ \A k \in S : groups[k] # NoEvent

\* Mutant of flushExpired: the groups are not deleted from the map
flushExpiredKeeps(S) ==
    /\ merger = "select" /\ Expired(S)
    /\ todo' = {groups[k] : k \in S} /\ merger' = "emit"
    /\ UNCHANGED <<unseen, collecting, in, groups, out, fanout, held, batcherCh, batcher,
                   main, cancelled, dvars, hvars>>

\* The ticker fires: every expired group leaves the map and is emitted, in map order
flushExpired(S) ==
    /\ merger = "select" /\ Expired(S)
    /\ todo' = {groups[k] : k \in S} /\ merger' = "emit"
    /\ groups' = [k \in Key |-> IF k \in S THEN NoEvent ELSE groups[k]]
    /\ UNCHANGED <<unseen, collecting, in, out, fanout, held, batcherCh, batcher, main, cancelled, dvars, hvars>>

\* m.out <- ev blocks while the channel is full
emit ==
    /\ merger = "emit" /\ Len(out) < OutCap
    /\ \E e \in todo :
          /\ out' = Append(out, e) /\ todo' = todo \ {e}
          /\ merger' = IF todo = {e} THEN "select" ELSE "emit"
    /\ UNCHANGED <<unseen, collecting, in, groups, fanout, held, batcherCh, batcher,
                   main, cancelled, dvars, hvars>>

\* Run returns: its input is closed and empty, or ctx is done
MergerReturn ==
    /\ merger = "select" /\ (cancelled \/ (~collecting /\ in = <<>>))
    /\ merger' = "flush"
    /\ UNCHANGED <<unseen, collecting, in, groups, todo, out, fanout, held, batcherCh,
                   batcher, main, cancelled, dvars, hvars>>

\* The deferred flushAll, which ends by closing the channel
flushAll ==
    /\ merger = "flush"
    /\ \/ \E k \in Key :
             /\ groups[k] # NoEvent /\ TrySend(groups[k])
             /\ groups' = [groups EXCEPT ![k] = NoEvent]
             /\ UNCHANGED <<merger, absorbed>>
       \/ /\ \A k \in Key : groups[k] = NoEvent
          /\ merger' = "done" /\ UNCHANGED <<groups, out, hvars>>
    /\ UNCHANGED <<unseen, collecting, in, todo, fanout, held, batcherCh, batcher, main,
                   cancelled, dvars>>

-----------------------------------------------------------------------------
(* Goroutines of main().                                                   *)

\* Mutant of FanoutRange: the goroutine ends when there is nothing to read
FanoutRangeOnce ==
    /\ fanout = "range"
    /\ \/ out # <<>> /\ held' = Head(out) /\ out' = Tail(out) /\ fanout' = "send"
       \/ out = <<>> /\ fanout' = "done" /\ UNCHANGED <<held, out>>
    /\ UNCHANGED <<unseen, collecting, in, mvars, batcherCh, batcher, main, cancelled, dvars,
                   hvars>>

FanoutRange ==
    /\ fanout = "range"
    /\ \/ out # <<>> /\ held' = Head(out) /\ out' = Tail(out) /\ fanout' = "send"
       \/ out = <<>> /\ merger = "done" /\ fanout' = "done" /\ UNCHANGED <<held, out>>
    /\ UNCHANGED <<unseen, collecting, in, mvars, batcherCh, batcher, main, cancelled,
                   dvars, hvars>>

FanoutSend ==
    /\ fanout = "send" /\ held' = NoEvent
    /\ \/ /\ Len(batcherCh) < BatcherCap /\ batcherCh' = Append(batcherCh, held)
          /\ fanout' = "range" /\ UNCHANGED dropped
       \/ /\ cancelled /\ fanout' = "done"
          /\ dropped' = dropped \cup {held} /\ UNCHANGED batcherCh
    /\ UNCHANGED <<unseen, collecting, in, mvars, out, batcher, main, cancelled,
                   dvars, absorbed>>

\* Batcher.Run takes an event; what it does with it is in AgentDelivery
BatcherReceive ==
    /\ batcher = "run" /\ batcherCh # <<>>
    /\ batcherCh' = Tail(batcherCh)
    /\ delivered' = delivered \cup {Head(batcherCh)}
    /\ twice' = twice \cup (delivered \cap {Head(batcherCh)})
    /\ UNCHANGED <<unseen, collecting, in, mvars, out, fanout, held, batcher, main,
                   cancelled, hvars>>

BatcherReturn ==
    /\ batcher = "run" /\ (cancelled \/ (fanout = "done" /\ batcherCh = <<>>))
    /\ batcher' = "done"
    /\ UNCHANGED <<unseen, collecting, in, mvars, out, fanout, held, batcherCh, main,
                   cancelled, dvars, hvars>>

Shutdown ==
    /\ ~cancelled /\ cancelled' = TRUE
    /\ UNCHANGED <<unseen, collecting, in, mvars, out, fanout, held, batcherCh, batcher, main, dvars, hvars>>

\* mgr.Stop(), batcherWg.Wait(), then the drain of AgentDelivery
MainReturn ==
    /\ main = "run" /\ cancelled /\ ~collecting
    /\ merger = "done" /\ fanout = "done" /\ batcher = "done"
    /\ main' = "stopped"
    /\ UNCHANGED <<unseen, collecting, in, mvars, out, fanout, held, batcherCh, batcher, cancelled, dvars, hvars>>

-----------------------------------------------------------------------------
MNext ==
    \/ \E o \in unseen : Collect(o)
    \/ CollectorsExit
    \/ \E S \in SUBSET Key : flushExpired(S)
    \/ ingest \/ emit \/ MergerReturn \/ flushAll
    \/ FanoutRange \/ FanoutSend
    \/ BatcherReceive \/ BatcherReturn \/ Shutdown \/ MainReturn

MSpec == MInit /\ [][MNext]_mergerVars

(* The Go scheduler runs every goroutine, a select that stays ready in a   *)
(* case takes it, time passes until every group has expired, and a batch   *)
(* is sent or buffered in bounded time. A collector returns when ctx is    *)
(* done; nothing makes it report.                                          *)
FairSpec ==
    /\ MSpec
    /\ WF_mergerVars(ingest \/ emit \/ flushAll) /\ WF_mergerVars(MergerReturn)
    /\ WF_mergerVars(flushExpired({k \in Key : groups[k] # NoEvent}))
    /\ WF_mergerVars(FanoutRange \/ FanoutSend)
    /\ WF_mergerVars(BatcherReceive) /\ WF_mergerVars(BatcherReturn)
    /\ WF_mergerVars(cancelled /\ CollectorsExit) /\ WF_mergerVars(MainReturn)

-----------------------------------------------------------------------------
(* Properties.                                                             *)

Grouped == {groups[k] : k \in Key} \ {NoEvent}
\* The events between the merger's output and the batcher, oldest first
Line == batcherCh \o (IF fanout = "send" THEN <<held>> ELSE <<>>) \o out
Surviving == delivered \cup Range(Line) \cup todo \cup Grouped
SameReport(a, b) == a.of = b.of /\ a.via = b.via
\* Observations the merger has received
Taken == {o \in Observation : o.via \in SeenBy[o.of] /\ o \notin unseen /\ o \notin Range(in)}

(* "On flush it emits one enriched event per group": every observation the *)
(* merger received is in exactly one place: on its way, in its group,      *)
(* merged into another event, or given up on a full channel or at          *)
(* shutdown. None is duplicated and none vanishes.                         *)
OneEventPerGroup ==
    twice = {} /\ \A o \in Taken :
        LET At(S) == IF \E e \in S : SameReport(e, o) THEN 1 ELSE 0
            Times == Cardinality({i \in DOMAIN Line : SameReport(Line[i], o)})
        IN Times + At(delivered) + At(todo) + At(Grouped) + At(absorbed) + At(dropped) = 1

(* "eBPF has the PID; netlink has src_ip/src_port. The merger combines     *)
(* them": a netlink report that is merged away leaves its kind of          *)
(* information behind, whichever of the two came first: an event with the  *)
(* same key that has a local address.                                      *)
AddressSurvives ==
    \A o \in absorbed : o.via = "netlink" =>
        \E e \in Surviving \cup dropped :
            /\ KeyOf[e.of] = KeyOf[o.of] /\ (e.src # None \/ e.via = "netlink")
            /\ e.src # None => KeyOf[e.src] = KeyOf[e.of]

(* While the agent runs, the path drains: once the collectors pause, every *)
(* event received has reached the batcher or was dropped on a full         *)
(* channel. No group stays behind in the merger and no goroutine waits for *)
(* another for ever, although every channel on the way can fill up.        *)
PathDrains == []<>(cancelled \/ (in = <<>> /\ Surviving \subseteq delivered))

(* emit: "without blocking"; flushAll: "it always terminates even if the   *)
(* consumer has exited": after the signal main() gets past batcherWg.Wait  *)
(* and reaches the drain of the offline buffer.                            *)
ShutdownReachesDrain == cancelled ~> main = "stopped"
=============================================================================
