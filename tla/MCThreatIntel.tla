---------------------------- MODULE MCThreatIntel ----------------------------
(* An instance of ThreatIntel: AbuseIPDB knows the address, VirusTotal finds *)
(* it just below its threshold and the hash exactly at it, and an address of *)
(* the private network is asked about too.                                   *)
EXTENDS ThreatIntel

MCConfidence == [i \in Indicators |-> IF i = "addr" THEN 1 ELSE 0]
MCStats == [i \in Indicators |-> IF i = "hash"
                THEN [malicious |-> 1, suspicious |-> 0, harmless |-> 9]
                ELSE [malicious |-> 0, suspicious |-> 1, harmless |-> 5]]

=============================================================================
