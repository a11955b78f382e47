---------------------------- MODULE MCEventStore ----------------------------
(***************************************************************************)
(* A small instance of EventStore: an ordinary event, one the database     *)
(* refuses, one that lacks a field, one UniversalEvent refuses and a       *)
(* health snapshot.                                                        *)
(***************************************************************************)
EXTENDS EventStore

MCBatches == {<<1001, 1002>>, <<1003>>, <<1005, 1004>>, <<1001, 1003, 1001>>}

=============================================================================
