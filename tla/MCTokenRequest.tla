--------------------------- MODULE MCTokenRequest ---------------------------
(* Instances of TokenRequest for TLC.                                        *)
EXTENDS TokenRequest

CONSTANTS a, b, t1

TwoNames == {a, b}
OneTarget == {t1}

(* A request moved between two instances, or recreated.                      *)
Retargets == [names |-> TwoNames, inst |-> 1, tr |-> 2, sec |-> 0, fault |-> 0]

(* One instance; Secrets meddled with, and restarts or failed calls *)
(* in between, also while the instance moves.                                *)
Meddling == [names |-> {a}, inst |-> 2, tr |-> 1, sec |-> 1, fault |-> 0]
Faults == [names |-> {a}, inst |-> 1, tr |-> 1, sec |-> 1, fault |-> 1]

Moves == [names |-> {a}, inst |-> 2, tr |-> 1, sec |-> 0, fault |-> 1]

RetargetsAndFaults == {Retargets, Meddling, Faults, Moves}
=============================================================================
