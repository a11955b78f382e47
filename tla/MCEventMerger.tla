--------------------------- MODULE MCEventMerger ---------------------------
(* Two connections to one destination, a process start and an event that  *)
(* is not merged.                                                          *)
EXTENDS EventMerger, TLC

CONSTANTS c1, c2, p, x, net, proc

MCKeyOf == (c1 :> net) @@ (c2 :> net) @@ (p :> proc) @@ (x :> proc)
MCSeenBy == (c1 :> {"ebpf", "netlink"}) @@ (c2 :> {"ebpf"})
            @@ (p :> {"ebpf", "auditd"}) @@ (x :> {"other"})
=============================================================================
