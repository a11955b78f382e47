----------------------------- MODULE MCLiveFeed -----------------------------
(* LiveFeed for TLC: the environment knows only the user "admin", the admin *)
(* role of the other user is watched, connections are interchangeable.      *)
EXTENDS LiveFeed

MCEnvUsers == [u \in Users |-> IF u = "admin" THEN {"admin", "analyst"} ELSE {}]
MCFiles    == { [u \in Users |-> {}],
                [u \in Users |-> {"admin", "analyst"}] }
MCProbe    == [user |-> "eve", role |-> "admin"]
Symmetry   == Permutations(Sockets)
=============================================================================
