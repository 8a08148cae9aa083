--------------------------- MODULE ModelSettings ---------------------------
(***************************************************************************)
(* The settings of a model server and the provider's ceilings on them.     *)
(*                                                                         *)
(* A model has six settings; 0 is one that is not set.  An instance        *)
(* overrides the CPU and the memory pair, the context size and the slots,  *)
(* or leaves them (0) as the model has them.                               *)
(***************************************************************************)
EXTENDS Integers

Resources == {"cpuRequest", "cpuLimit", "memoryRequest", "memoryLimit"}
Settings == Resources \cup {"ctxSize", "parallel"}

Unset == [f \in Settings |-> 0]

(* resolveModel: one of the models has settings of its own.                 *)
ResolveModel(model) ==
  IF model = "qwen3-4b"
  THEN [Unset EXCEPT !["cpuRequest"] = 500, !["cpuLimit"] = 1800,
                     !["memoryRequest"] = 4096, !["memoryLimit"] = 7168,
                     !["ctxSize"] = 8192]
  ELSE Unset

(* modelForInstance; the API server admits no override that is 0 or half a  *)
(* pair.                                                                    *)
ModelForInstance(spec) ==
  [f \in Settings |->
     IF spec.override[f] # 0 THEN spec.override[f] ELSE ResolveModel(spec.model)[f]]

(* The ceiling that holds for a setting, as the provider names it.          *)
CeilingOf(f) ==
  CASE f \in {"cpuRequest", "cpuLimit"} -> "cpuMilli"
    [] f \in {"memoryRequest", "memoryLimit"} -> "memoryMiB"
    [] f = "ctxSize" -> "contextSize"
    [] f = "parallel" -> "parallelSlots"

Ceilings == {CeilingOf(f) : f \in Settings}

Maximum(c) ==
  CASE c = "cpuMilli" -> 16000 [] c = "memoryMiB" -> 65536
    [] c = "contextSize" -> 131072 [] c = "parallelSlots" -> 16

(* Validate *)
Validate(ceilings) == \A c \in Ceilings : ceilings[c] \in 0 .. Maximum(c)

(* The slots the server has when it is told nothing.                        *)
ServerDefault(f) == IF f = "parallel" THEN 4 ELSE 0
Effective(m, f) == IF m[f] = 0 THEN ServerDefault(f) ELSE m[f]

(* check: a ceiling of 0 keeps what the model has.                          *)
Check(ceilings, spec) ==
  /\ Validate(ceilings)
  /\ \A f \in Settings :
       LET max == IF ceilings[CeilingOf(f)] = 0
                  THEN Effective(ResolveModel(spec.model), f)
                  ELSE ceilings[CeilingOf(f)]
       IN Effective(ModelForInstance(spec), f) <= max
=============================================================================
