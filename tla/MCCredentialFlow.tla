-------------------------- MODULE MCCredentialFlow --------------------------
(* Instances of CredentialFlow for TLC.                                      *)
EXTENDS CredentialFlow

CONSTANTS a, b, t1, t2

TwoNames == {a, b}
TwoTargets == {t1, t2}

(* One instance changed three times, or a request retargeted while one of    *)
(* two instances changes.                                                    *)
Changes == [names |-> {a}, inst |-> 3, tr |-> 0, sec |-> 0, fault |-> 0]
Retargets == [names |-> TwoNames, inst |-> 1, tr |-> 1, sec |-> 0, fault |-> 0]
ChangesAndRetargets == {Changes, Retargets}
=============================================================================
