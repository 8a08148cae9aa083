----------------------------- MODULE MCOperator -----------------------------
(* Instances of Operator for TLC.                                            *)
EXTENDS Operator

CONSTANTS q1, q2

TwoRequests == {q1, q2}

Legacy1(uid, name, slug) == [uid |-> uid, name |-> name, mode |-> "legacy", slug |-> slug]

(* Entries that clash in one way or another, and some that never do.         *)
Entries ==
  {Legacy1("u", "a", <<"x">>), Legacy1("v", "b", <<"x", "y">>),
   Legacy1("v", "a", <<"z">>), Legacy1("w", "c", <<"l">>),
   Legacy1("w", "c", <<"l", "m", "z">>),
   [uid |-> "w", name |-> "c", mode |-> "derive", slug |-> <<>>],
   [uid |-> "u", name |-> "d", mode |-> "derive", slug |-> <<"x">>],
   [uid |-> "u", name |-> "d", mode |-> "other", slug |-> <<>>]}

FilesUpTo(n) == UNION {[1 .. k -> Entries] : k \in 0 .. n}

NoCeilings == [c \in Ceilings |-> 0]
Ceiling(c, v) == [NoCeilings EXCEPT ![c] = v]
BoundaryCeilings ==
  {Ceiling("cpuMilli", 16001), Ceiling("contextSize", -1), Ceiling("memoryMiB", 65536)}

AskCpu(m, r, l) ==
  [model |-> m, override |-> [Unset EXCEPT !["cpuRequest"] = r, !["cpuLimit"] = l]]
Default == AskCpu("qwen3-4b", 0, 0)
Raised == AskCpu("qwen3-4b", 1000, 1800)
Unlimited == AskCpu("tinyllama", 0, 0)

(* Every file, with settings that are rejected; ceilings at and beyond their *)
(* maximum; and edits between settings that are admitted and rejected.       *)
SomeInputs ==
  [entries : FilesUpTo(3) \cup {None}, ceilings : {NoCeilings}, specs : {{Raised}}]
  \cup [entries : {<<>>}, ceilings : BoundaryCeilings, specs : {{Default}}]
  \cup [entries : {<<>>}, ceilings : {NoCeilings, Ceiling("cpuMilli", 1000)},
        specs : {{Default, Raised, Unlimited}}]
=============================================================================
