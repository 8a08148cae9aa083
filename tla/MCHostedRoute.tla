--------------------------- MODULE MCHostedRoute ---------------------------
(* Instances of HostedRoute for TLC.                                         *)
EXTENDS HostedRoute, TLC

CONSTANTS a, b

TwoNames == {a, b}

(* One name and more changes, or two names and fewer.                        *)
SomeBudgets == {[names |-> {a}, edits |-> 2, faults |-> 1],
                [names |-> {a, b}, edits |-> 1, faults |-> 0],
                [names |-> {a, b}, edits |-> 0, faults |-> 2]}
NoEdits == {[names |-> {a}, edits |-> 0, faults |-> 0]}

Entry(n, mode, slug) == [uid |-> <<n, 1>>, name |-> n, mode |-> mode, slug |-> slug]
Policy(es) == [cutover |-> 1, entries |-> [u \in {e.uid : e \in es} |->
                 CHOOSE e \in es : e.uid = u]]

(* Tenants of the earlier version chose x and xy; a policy may keep one of   *)
(* them; a may also be told to derive its slug.                              *)
ReviewA == Policy({Entry(a, "legacy", <<"x">>)})
ReviewB == Policy({Entry(a, "derive", <<>>), Entry(b, "legacy", <<"x", "y">>)})
TwoPolicies == {ReviewA, ReviewB}

(* Ingresses of others: a parent path on a wildcard host, the same path on   *)
(* another host.                                                             *)
SomeRoutes == {[default |-> FALSE, host |-> "wildcard", path |-> <<>>],
               [default |-> FALSE, host |-> "elsewhere", path |-> <<"x">>]}
NoRoutes == {}
=============================================================================
