--------------------------- MODULE OperatorProofs ---------------------------
(* Proofs about Operator: what the exit of the process says, which policy    *)
(* files it accepts, that the slugs of an accepted policy never overlap,     *)
(* which settings reach a workload, and its type correctness.                *)
EXTENDS Operator, SlugsProofs, TLAPS

-----------------------------------------------------------------------------
(* The end of the process.                                                   *)

(* A pass or an edit concerns nothing but the settings.                      *)
LEMMA PassFrame ==
  ASSUME NEW x, EditSpec(x) \/ Pass
  PROVE  unchangedByPass
BY ZenonT(30) DEF EditSpec, Pass, CheckSettings, ReconcileModel, PassFails, EndPass

Returned == {"returned", "wait", "report", "cancel", "done"}
Reported == {"cancel", "done"}

(* Nothing of runOperator has happened before it is called, and it returns   *)
(* once the auth server has reported.                                        *)
MainInv ==
  /\ pc \in {"parse", "ceilings", "manager", "await", "exit"}
  /\ auth \in {"off", "listen", "serve"} \cup Returned
  /\ pc \in {"parse", "ceilings"} => auth = "off"
  /\ Alive => auth # "off"
  /\ auth = "off" =>
       /\ hook = "off" /\ serveErr = None /\ chan = None /\ ~closing
       /\ req = [q \in Requests |-> "none"]
  /\ pc = "exit" /\ auth # "off" =>
       chan # None /\ code = IF managerErr = "error" \/ chan = "error" THEN 1 ELSE 0

(* What the auth goroutine and the shutdown callback know of each other.     *)
AuthInv ==
  /\ hook \in {"off", "armed", "shutdown", "done", "disarmed"}
  /\ serveErr \in {None, "closed", "failed"}
  /\ (auth \in Returned <=> serveErr # None)
  /\ closing \in BOOLEAN /\ (closing <=> hook \in {"shutdown", "done"})
  /\ closing => cancelled
  /\ serveErr = "closed" => closing
  /\ hook = "disarmed" => serveErr = "failed"
  /\ auth \in {"report"} \cup Reported => hook \in {"done", "disarmed"}
  /\ chan # None => auth \in Reported
  /\ auth \in Reported => (chan = "error" <=> serveErr = "failed") /\ chan # None

(* No request comes in or stays once the callback has finished.              *)
RequestInv ==
  /\ req \in [Requests -> {"none", "active", "answered", "cut"}]
  /\ hook = "done" => Active = {}

ProcessInv == MainInv /\ AuthInv /\ RequestInv

(* Before anything is started.                                               *)
LEMMA InitProcess == Init => ProcessInv
<1> SUFFICES ASSUME Init PROVE ProcessInv
  OBVIOUS
<1>1. MainInv
  BY DEF Init, MainInv, Alive
<1>2. AuthInv
  BY OperatorAssumption, ZenonT(30) DEF Init, AuthInv, Returned, Reported
<1>3. RequestInv
  BY DEF Init, RequestInv
<1> QED
  BY <1>1, <1>2, <1>3 DEF ProcessInv

process == <<auth, serveErr, chan, hook, closing>>

(* Every goroutine keeps what the others know.                               *)
LEMMA StepProcess == ProcessInv /\ [Next]_vars => ProcessInv'
<1> SUFFICES ASSUME ProcessInv, [Next]_vars PROVE ProcessInv'
  OBVIOUS
<1>n. None \notin {"ok", "error", "failed", "closed"}
  BY OperatorAssumption
<1>i. MainInv /\ AuthInv /\ RequestInv
  BY DEF ProcessInv
<1>u. ASSUME UNCHANGED <<process, cancelled>> PROVE AuthInv'
  BY <1>i, <1>u DEF AuthInv, process, Returned, Reported
<1>v. ASSUME UNCHANGED process, cancelled' = TRUE PROVE AuthInv'
  BY <1>i, <1>v DEF AuthInv, process, Returned, Reported
<1>q. ASSUME UNCHANGED <<req, hook>> PROVE RequestInv'
  BY <1>i, <1>q DEF RequestInv, Active
<1>1. CASE UNCHANGED vars
  <2>1. UNCHANGED <<process, cancelled>> /\ UNCHANGED <<req, pc, code, managerErr>>
    BY <1>1 DEF vars, server, process
  <2>2. MainInv'
    BY <1>i, <2>1 DEF MainInv, Alive, Returned, process
  <2> QED
    BY <1>u, <1>q, <2>1, <2>2 DEF ProcessInv, process
<1>2. CASE LoadFails \/ ParseEntry \/ ParseEnds
  <2>1. /\ UNCHANGED <<process, cancelled>> /\ UNCHANGED <<req, managerErr>>
        /\ pc = "parse" /\ pc' \in {"parse", "ceilings", "exit"}
    BY <1>2 DEF LoadFails, ParseEntry, ParseEnds, Exit, server, process
  <2>2. MainInv'
    BY <1>i, <2>1 DEF MainInv, Alive, process
  <2> QED
    BY <1>u, <1>q, <2>1, <2>2 DEF ProcessInv, process
<1>3. CASE ValidateCeilings
  <2>0. pc = "ceilings" /\ auth = "off"
    BY <1>3, <1>i DEF ValidateCeilings, MainInv
  <2>1. CASE Validate(input.ceilings)
    <3>1. /\ pc' = "manager" /\ auth' = "listen" /\ hook' = "armed"
          /\ UNCHANGED <<cancelled, managerErr, serveErr, chan, closing, req>>
      BY <1>3, <2>1 DEF ValidateCeilings, RunOperator
    <3>2. hook = "off" /\ serveErr = None /\ chan = None /\ ~closing
      BY <1>i, <2>0 DEF MainInv
    <3>3. MainInv'
      BY <3>1 DEF MainInv, Alive
    <3>4. AuthInv'
      BY <1>n, <1>i, <3>1, <3>2 DEF AuthInv, Returned, Reported
    <3>5. RequestInv'
      BY <1>i, <3>1 DEF RequestInv
    <3> QED
      BY <3>3, <3>4, <3>5 DEF ProcessInv
  <2>2. CASE ~Validate(input.ceilings)
    <3>1. pc' = "exit" /\ UNCHANGED <<process, cancelled>> /\ UNCHANGED <<req, managerErr>>
      BY <1>3, <2>2 DEF ValidateCeilings, Exit, server, process
    <3>2. MainInv'
      BY <1>i, <2>0, <3>1 DEF MainInv, Alive, process
    <3> QED
      BY <1>u, <1>q, <3>1, <3>2 DEF ProcessInv, process
  <2> QED
    BY <2>1, <2>2
<1>4. CASE ManagerLeads \/ ManagerStops \/ ManagerFails \/ Signal
  <2>1. /\ UNCHANGED process /\ UNCHANGED req /\ cancelled' \in {cancelled, TRUE}
        /\ Alive /\ pc' \in {"manager", "await"}
    BY <1>4, ZenonT(30) DEF ManagerLeads, ManagerStops, ManagerFails, ManagerReturns, Signal, server, process,
       Alive
  <2>2. MainInv'
    BY <1>i, <2>1 DEF MainInv, Alive, Returned, process
  <2>3. AuthInv'
    BY <1>u, <1>v, <2>1, ZenonT(30)
  <2> QED
    BY <1>q, <2>1, <2>2, <2>3 DEF ProcessInv, process
<1>5. CASE ReceiveAuthStopped
  <2>1. /\ UNCHANGED <<process, cancelled>> /\ UNCHANGED <<req, managerErr>>
        /\ pc = "await" /\ pc' = "exit" /\ chan # None
        /\ code' = IF managerErr = "error" \/ chan = "error" THEN 1 ELSE 0
    BY <1>5 DEF ReceiveAuthStopped, Exit, server, process
  <2>2. MainInv'
    BY <1>i, <2>1 DEF MainInv, Alive, Returned, process
  <2> QED
    BY <1>u, <1>q, <2>1, <2>2 DEF ProcessInv, process
<1>6. CASE ListenAndServe \/ ListenerFails \/ ServeReturns \/ AwaitShutdown
  <2>1. /\ UNCHANGED <<pc, code, cancelled, managerErr, chan, hook, closing, req>> /\ Alive
        /\ \/ auth = "listen" /\ auth' = "serve" /\ serveErr' = None /\ ~closing
           \/ auth \in {"listen", "serve"} /\ auth' = "returned" /\ serveErr' = "closed" /\ closing
           \/ auth \in {"listen", "serve"} /\ auth' = "returned" /\ serveErr' = "failed"
           \/ auth = "wait" /\ auth' = "report" /\ serveErr' = serveErr /\ hook = "done"
    BY <1>6 DEF ListenAndServe, ListenerFails, ServeReturns, AwaitShutdown, Serving
  <2>2. MainInv'
    BY <1>i, <2>1 DEF MainInv, Alive, Returned
  <2>3. AuthInv'
    BY <1>n, <1>i, <2>1 DEF AuthInv, Returned, Reported
  <2> QED
    BY <1>q, <2>1, <2>2, <2>3 DEF ProcessInv
<1>7. CASE StopShutdown
  <2>1. /\ UNCHANGED <<pc, code, cancelled, managerErr, serveErr, chan, closing, req>> /\ Alive
        /\ auth = "returned"
        /\ \/ hook = "armed" /\ hook' = "disarmed" /\ auth' = "report"
           \/ auth' = "wait" /\ hook' = hook
    BY <1>7 DEF StopShutdown
  <2>2. MainInv'
    BY <1>i, <2>1 DEF MainInv, Alive, Returned
  <2>3. AuthInv'
    BY <1>n, <1>i, <2>1 DEF AuthInv, Returned, Reported
  <2>4. RequestInv'
    BY <1>i, <2>1 DEF RequestInv, Active
  <2> QED
    BY <2>2, <2>3, <2>4 DEF ProcessInv
<1>8. CASE SendAuthStopped
  <2>1. /\ UNCHANGED <<pc, code, cancelled, managerErr, serveErr, hook, closing, req>> /\ Alive
        /\ auth = "report" /\ auth' = "cancel" /\ chan' = AuthErr
    BY <1>8 DEF SendAuthStopped, Report
  <2>2. AuthErr \in {"ok", "error"} /\ (AuthErr = "error" <=> serveErr = "failed")
    BY <1>i, <2>1 DEF AuthErr, AuthInv, Returned
  <2>3. MainInv'
    BY <1>i, <2>1, <2>2 DEF MainInv, Alive, Returned
  <2>4. AuthInv'
    BY <1>n, <1>i, <2>1, <2>2 DEF AuthInv, Returned, Reported
  <2> QED
    BY <1>q, <2>1, <2>3, <2>4 DEF ProcessInv
<1>9. CASE CancelRuntime
  <2>1. /\ UNCHANGED <<pc, code, managerErr, serveErr, chan, hook, closing, req>> /\ Alive
        /\ auth = "cancel" /\ auth' = "done" /\ cancelled'
    BY <1>9 DEF CancelRuntime
  <2>2. MainInv'
    BY <1>i, <2>1 DEF MainInv, Alive, Returned
  <2>3. AuthInv'
    BY <1>i, <2>1 DEF AuthInv, Returned, Reported
  <2> QED
    BY <1>q, <2>1, <2>2, <2>3 DEF ProcessInv
<1>10. CASE BeginShutdown \/ EndShutdown \/ ShutdownTimesOut
  <2>1. /\ UNCHANGED <<pc, code, cancelled, managerErr, auth, serveErr, chan>> /\ Alive
        /\ \/ hook = "armed" /\ cancelled /\ closing' = TRUE /\ hook' = "shutdown" /\ req' = req
           \/ hook = "shutdown" /\ closing' = closing /\ hook' = "done"
    BY <1>10 DEF BeginShutdown, EndShutdown, ShutdownTimesOut, Hook
  <2>2. MainInv'
    BY <1>i, <2>1 DEF MainInv, Alive, Returned
  <2>3. AuthInv'
    <3>1. ASSUME hook = "armed", cancelled, closing' = TRUE, hook' = "shutdown" PROVE AuthInv'
      BY <1>i, <2>1, <3>1 DEF AuthInv, Returned, Reported
    <3>2. ASSUME hook = "shutdown", closing' = closing, hook' = "done" PROVE AuthInv'
      BY <1>i, <2>1, <3>2 DEF AuthInv, Returned, Reported
    <3> QED
      BY <2>1, <3>1, <3>2, ZenonT(30)
  <2>4. ASSUME BeginShutdown PROVE RequestInv'
    BY <1>i, <2>4 DEF BeginShutdown, Hook, RequestInv
  <2>5. ASSUME EndShutdown PROVE RequestInv'
    BY <1>i, <2>5 DEF EndShutdown, Hook, RequestInv, Active
  <2>6. ASSUME ShutdownTimesOut PROVE RequestInv'
    <3>1. req' = [q \in Requests |-> IF req[q] = "active" THEN "cut" ELSE req[q]]
      BY <2>6 DEF ShutdownTimesOut, Active
    <3> QED
      BY <1>i, <3>1 DEF RequestInv, Active
  <2> QED
    BY <1>10, <2>2, <2>3, <2>4, <2>5, <2>6 DEF ProcessInv
<1>11. ASSUME NEW q \in Requests, Arrive(q) \/ Answer(q) PROVE ProcessInv'
  <2>1. /\ UNCHANGED <<process, cancelled>> /\ UNCHANGED <<pc, code, managerErr>> /\ Alive
        /\ \/ ~closing /\ req' = [req EXCEPT ![q] = "active"]
           \/ req' = [req EXCEPT ![q] = "answered"]
    BY <1>11 DEF Arrive, Answer, Request, process
  <2>2. MainInv'
    BY <1>i, <2>1 DEF MainInv, Alive, Returned, process
  <2>3. RequestInv'
    BY <1>i, <2>1 DEF RequestInv, AuthInv, Active, process
  <2> QED
    BY <1>u, <2>1, <2>2, <2>3 DEF ProcessInv
<1>12. ASSUME NEW x, EditSpec(x) \/ Pass PROVE ProcessInv'
  <2>1. UNCHANGED <<process, cancelled>> /\ UNCHANGED <<req, pc, code, managerErr>>
    BY <1>12, PassFrame DEF unchangedByPass, server, process
  <2>2. MainInv'
    BY <1>i, <2>1 DEF MainInv, Alive, Returned, process
  <2> QED
    BY <1>u, <1>q, <2>1, <2>2 DEF ProcessInv, process
<1> QED
  BY <1>1, <1>2, <1>3, <1>4, <1>5, <1>6, <1>7, <1>8, <1>9, <1>10, <1>11, <1>12
  DEF Next, Main, Auth, Callback

(* The process invariant holds throughout.                                   *)
LEMMA ProcessInductive == Spec => []ProcessInv
BY InitProcess, StepProcess, PTL DEF Spec

(* However the manager, the auth server, the signal and the failures         *)
(* interleave, the exit code is 1 exactly if one of the two has failed.      *)
THEOREM ExitCodeIsRight == Spec => []ExitCodeTells
<1>1. ProcessInv => ExitCodeTells
  BY OperatorAssumption DEF ProcessInv, MainInv, AuthInv, ExitCodeTells, Reported
<1> QED
  BY <1>1, ProcessInductive, PTL

(* The process exits with its shutdown callback finished, and unless the     *)
(* listener has failed with no request under way.                            *)
THEOREM CleanupBeforeExit == Spec => []ExitAfterCleanup
<1>1. ProcessInv => ExitAfterCleanup
  BY OperatorAssumption DEF ProcessInv, MainInv, AuthInv, RequestInv, ExitAfterCleanup, Reported, Returned
<1> QED
  BY <1>1, ProcessInductive, PTL

-----------------------------------------------------------------------------
(* The policy file.                                                          *)

Entries(n) == 1 .. n - 1     \* those read before entry n

Entry(i) == input.entries[i]

(* What Parse's loop has made of the entries before parser.next.             *)
LoopInv ==
  /\ parser.next \in Nat \ {0} /\ parser.next <= Len(input.entries) + 1
  /\ \A i \in Entries(parser.next) :
       /\ ValidEntry(Entry(i))
       /\ Entry(i).uid \in DOMAIN parser.entries /\ parser.entries[Entry(i).uid] = Entry(i)
       /\ Entry(i).name \in parser.names
       /\ Entry(i).mode = "legacy" => Entry(i).slug \in parser.slugs
  /\ \A i, j \in Entries(parser.next) : i # j => Unambiguous(Entry(i), Entry(j))
  /\ \A u \in DOMAIN parser.entries : \E i \in Entries(parser.next) : Entry(i).uid = u
  /\ \A m \in parser.names : \E i \in Entries(parser.next) : Entry(i).name = m
  /\ \A s \in parser.slugs :
       \E i \in Entries(parser.next) : Entry(i).mode = "legacy" /\ Entry(i).slug = s

Good ==
  /\ input.entries # None
  /\ \A i \in DOMAIN input.entries : ValidEntry(Entry(i))
  /\ \A i, j \in DOMAIN input.entries : i # j => Unambiguous(Entry(i), Entry(j))

ParseInv ==
  /\ input \in Inputs
  /\ pc = "parse" /\ input.entries # None => LoopInv
  /\ Accepted => /\ input.entries # None /\ LoopInv
                 /\ parser.next = Len(input.entries) + 1
  /\ pc = "exit" /\ auth = "off" => ~Good \/ ~Validate(input.ceilings)

(* The entries of an input are a sequence.                                   *)
LEMMA InputType ==
  ASSUME input \in Inputs, input.entries # None
  PROVE  /\ Len(input.entries) \in Nat /\ DOMAIN input.entries = 1 .. Len(input.entries)
         /\ \A i \in DOMAIN input.entries : Entry(i).slug \in Seq(STRING)
BY OperatorAssumption DEF Entry

(* Nothing is read yet.                                                      *)
LEMMA InitParse == Init => ParseInv
<1> SUFFICES ASSUME Init PROVE ParseInv
  OBVIOUS
<1>0. input \in Inputs /\ pc = "parse"
  BY DEF Init
<1>1. ASSUME input.entries # None PROVE LoopInv
  <2>1. /\ parser.next = 1 /\ parser.entries = <<>> /\ parser.names = {} /\ parser.slugs = {}
    BY DEF Init, NoPolicy
  <2>2. Entries(1) = {} /\ DOMAIN parser.entries = {}
    BY <2>1 DEF Entries
  <2>3. Len(input.entries) \in Nat
    BY <1>0, <1>1, InputType
  <2> QED
    BY <2>1, <2>2, <2>3 DEF LoopInv
<1> QED
  BY <1>0, <1>1 DEF ParseInv, Accepted

(* An entry that clashes is ambiguous with an earlier one, and one that does *)
(* not is with none.                                                         *)
LEMMA ClashExact ==
  ASSUME LoopInv, NEW e
  PROVE  Clash(parser, e) <=> \E i \in Entries(parser.next) : ~Unambiguous(Entry(i), e)
<1>1. ASSUME Clash(parser, e) PROVE \E i \in Entries(parser.next) : ~Unambiguous(Entry(i), e)
  BY <1>1 DEF Clash, Unambiguous, LoopInv
<1>2. ASSUME NEW i \in Entries(parser.next), ~Unambiguous(Entry(i), e) PROVE Clash(parser, e)
  BY <1>2 DEF Clash, Unambiguous, LoopInv
<1> QED
  BY <1>1, <1>2

(* Unambiguous does not depend on the order.                                 *)
LEMMA UnambiguousSymmetric == \A e, f : Unambiguous(e, f) <=> Unambiguous(f, e)
BY DEF Unambiguous, Overlap

(* A valid entry that does not clash is added.                               *)
LEMMA AddEntry ==
  ASSUME input \in Inputs, input.entries # None, LoopInv, parser.next <= Len(input.entries),
         ValidEntry(Entry(parser.next)), ~Clash(parser, Entry(parser.next)),
         parser' = With(parser, Entry(parser.next)), UNCHANGED input
  PROVE  LoopInv'
<1> DEFINE n == parser.next
           e == Entry(n)
<1>0. n \in Nat \ {0} /\ Len(input.entries) \in Nat
  BY InputType DEF LoopInv
<1>1. /\ parser'.next = n + 1 /\ DOMAIN parser'.entries = DOMAIN parser.entries \cup {e.uid}
      /\ \A u \in DOMAIN parser.entries \cup {e.uid} :
           parser'.entries[u] = IF u = e.uid THEN e ELSE parser.entries[u]
      /\ parser'.names = parser.names \cup {e.name}
      /\ parser'.slugs = parser.slugs \cup (IF e.mode = "legacy" THEN {e.slug} ELSE {})
  BY DEF With
<1>2. Entries(n + 1) = Entries(n) \cup {n} /\ n \notin Entries(n)
  BY <1>0 DEF Entries
<1>3. \A i \in Entries(n) : Unambiguous(Entry(i), e) /\ Entry(i).uid # e.uid
  BY ClashExact DEF Unambiguous
<1>4. \A i : Entry(i)' = Entry(i)
  BY DEF Entry
<1>5. parser'.next \in Nat \ {0} /\ parser'.next <= Len(input'.entries) + 1
  BY <1>0, <1>1
<1>6. \A i \in Entries(n + 1) :
        /\ ValidEntry(Entry(i))
        /\ Entry(i).uid \in DOMAIN parser'.entries /\ parser'.entries[Entry(i).uid] = Entry(i)
        /\ Entry(i).name \in parser'.names
        /\ Entry(i).mode = "legacy" => Entry(i).slug \in parser'.slugs
  <2>1. ASSUME NEW i \in Entries(n)
        PROVE  /\ ValidEntry(Entry(i))
               /\ Entry(i).uid \in DOMAIN parser'.entries /\ parser'.entries[Entry(i).uid] = Entry(i)
               /\ Entry(i).name \in parser'.names
               /\ Entry(i).mode = "legacy" => Entry(i).slug \in parser'.slugs
    BY <1>1, <1>3 DEF LoopInv
  <2>2. /\ ValidEntry(e) /\ e.uid \in DOMAIN parser'.entries /\ parser'.entries[e.uid] = e
        /\ e.name \in parser'.names /\ (e.mode = "legacy" => e.slug \in parser'.slugs)
    BY <1>1
  <2> QED
    BY <1>2, <2>1, <2>2
<1>7. \A i, j \in Entries(n + 1) : i # j => Unambiguous(Entry(i), Entry(j))
  BY <1>2, <1>3, UnambiguousSymmetric DEF LoopInv
<1>8. \A u \in DOMAIN parser'.entries : \E i \in Entries(n + 1) : Entry(i).uid = u
  BY <1>1, <1>2 DEF LoopInv
<1>9. \A m \in parser'.names : \E i \in Entries(n + 1) : Entry(i).name = m
  BY <1>1, <1>2 DEF LoopInv
<1>10. \A s \in parser'.slugs :
         \E i \in Entries(n + 1) : Entry(i).mode = "legacy" /\ Entry(i).slug = s
  BY <1>1, <1>2 DEF LoopInv
<1> QED
  BY <1>1, <1>4, <1>5, <1>6, <1>7, <1>8, <1>9, <1>10, ZenonT(30) DEF LoopInv

(* A rejected entry makes the file a bad one.                                *)
LEMMA RejectEntry ==
  ASSUME input \in Inputs, input.entries # None, LoopInv, parser.next <= Len(input.entries),
         ~ValidEntry(Entry(parser.next)) \/ Clash(parser, Entry(parser.next))
  PROVE  ~Good
<1>1. /\ parser.next \in DOMAIN input.entries
      /\ \A i \in Entries(parser.next) : i \in DOMAIN input.entries /\ i # parser.next
  BY InputType DEF LoopInv, Entries
<1> QED
  BY <1>1, ClashExact DEF Good

(* Every step keeps what Parse knows; after Parse nothing changes it.        *)
LEMMA StepParse == ProcessInv /\ ParseInv /\ [Next]_vars => ParseInv'
<1> SUFFICES ASSUME ProcessInv, ParseInv, [Next]_vars PROVE ParseInv'
  OBVIOUS
<1>q. ASSUME UNCHANGED <<parsing>>,
             /\ pc' = "parse" => pc = "parse"
             /\ Accepted' => Accepted
             /\ pc' = "exit" /\ auth' = "off" => pc = "exit" /\ auth = "off"
      PROVE  ParseInv'
  <2>1. UNCHANGED <<input, parser>>
    BY <1>q DEF parsing
  <2>2. LoopInv' <=> LoopInv
    BY <2>1 DEF LoopInv, Entry, Entries
  <2>3. Good' <=> Good
    BY <2>1 DEF Good, Entry
  <2> QED
    BY <1>q, <2>1, <2>2, <2>3 DEF ParseInv
<1>1. CASE UNCHANGED vars
  BY <1>1, <1>q DEF vars, Accepted, server
<1>2. CASE LoadFails
  <2>1. ~Good' /\ pc' = "exit" /\ input' = input
    BY <1>2 DEF LoadFails, Exit, Good, parsing
  <2> QED
    BY <2>1 DEF ParseInv, Accepted
<1>3. CASE ParseEntry
  <2>0. /\ pc = "parse" /\ input.entries # None /\ parser.next <= Len(input.entries)
        /\ input \in Inputs /\ LoopInv /\ UNCHANGED input
    BY <1>3 DEF ParseEntry, ParseInv
  <2>1. CASE ~ValidEntry(Entry(parser.next)) \/ Clash(parser, Entry(parser.next))
    <3>1. pc' = "exit" /\ ~Good
      BY <1>3, <2>0, <2>1, RejectEntry DEF ParseEntry, Exit, Entry
    <3>2. ~Good'
      BY <2>0, <3>1 DEF Good, Entry
    <3> QED
      BY <2>0, <3>1, <3>2 DEF ParseInv, Accepted
  <2>2. CASE ~(~ValidEntry(Entry(parser.next)) \/ Clash(parser, Entry(parser.next)))
    <3>1. parser' = With(parser, Entry(parser.next)) /\ pc' = "parse"
      BY <1>3, <2>0, <2>2 DEF ParseEntry, Entry
    <3>2. LoopInv'
      BY <2>0, <2>2, <3>1, AddEntry
    <3> QED
      BY <2>0, <3>1, <3>2 DEF ParseInv, Accepted
  <2> QED
    BY <2>1, <2>2
<1>4. CASE ParseEnds
  <2>0. /\ pc = "parse" /\ pc' = "ceilings" /\ UNCHANGED <<input, parser>>
        /\ input \in Inputs /\ input.entries # None /\ LoopInv
    BY <1>4 DEF ParseEnds, ParseInv, parsing
  <2>1. parser.next = Len(input.entries) + 1
    BY <1>4, <2>0, InputType DEF ParseEnds, LoopInv
  <2>2. LoopInv'
    BY <2>0, ZenonT(30) DEF LoopInv, Entry, Entries
  <2> QED
    BY <2>0, <2>1, <2>2 DEF ParseInv, Accepted
<1>5. CASE ValidateCeilings
  <2>1. CASE Validate(input.ceilings)
    BY <1>5, <2>1, <1>q DEF ValidateCeilings, RunOperator, Accepted
  <2>2. CASE ~Validate(input.ceilings)
    BY <1>5, <2>2 DEF ValidateCeilings, Exit, ParseInv, Accepted, parsing
  <2> QED
    BY <2>1, <2>2
<1>6. CASE \/ ManagerLeads \/ ManagerStops \/ ManagerFails \/ Signal
  BY <1>6, <1>q DEF ManagerLeads, ManagerStops, ManagerFails, ManagerReturns, Signal,
     Accepted, Alive
<1>7. CASE ReceiveAuthStopped
  <2>1. auth # "off" /\ auth' = auth
    BY <1>7 DEF ReceiveAuthStopped, ProcessInv, MainInv, Alive, server
  <2> QED
    BY <1>7, <2>1, <1>q DEF ReceiveAuthStopped, Exit, Accepted
<1>8. CASE Auth \/ ListenerFails
  <2>1. UNCHANGED <<parsing, pc>> /\ Alive
    BY <1>8 DEF Auth, ListenAndServe, ListenerFails, ServeReturns, StopShutdown, AwaitShutdown,
       SendAuthStopped, Report, CancelRuntime, Serving
  <2> QED
    BY <2>1, <1>q DEF Accepted, Alive
<1>9. CASE Callback
  BY <1>9, <1>q DEF Callback, BeginShutdown, EndShutdown, ShutdownTimesOut, Hook, Accepted
<1>10. ASSUME NEW q \in Requests, Arrive(q) \/ Answer(q) PROVE ParseInv'
  BY <1>10, <1>q DEF Arrive, Answer, Request, Accepted
<1>11. ASSUME NEW x, EditSpec(x) \/ Pass PROVE ParseInv'
  BY <1>11, <1>q, PassFrame DEF unchangedByPass, Accepted, server
<1> QED
  BY <1>1, <1>2, <1>3, <1>4, <1>5, <1>6, <1>7, <1>8, <1>9, <1>10, <1>11 DEF Next, Main

(* The loop invariant holds throughout.                                      *)
LEMMA ParseInductive == Spec => []ParseInv
BY InitParse, StepParse, ProcessInductive, InitProcess, StepProcess, PTL DEF Spec

(* For files of any length and entries in any order, Parse accepts exactly   *)
(* the files whose entries are valid and pairwise unambiguous, and keeps     *)
(* every entry.                                                              *)
THEOREM ParseIsExact == Spec => []ParsedExactly
<1>1. ParseInv => ParsedExactly
  <2> SUFFICES ASSUME ParseInv PROVE ParsedExactly
    OBVIOUS
  <2>1. ASSUME Accepted
        PROVE  /\ Good
               /\ \A i \in DOMAIN input.entries :
                    Entry(i).uid \in DOMAIN parser.entries /\ parser.entries[Entry(i).uid] = Entry(i)
    <3>1. input.entries # None /\ LoopInv /\ parser.next = Len(input.entries) + 1 /\ input \in Inputs
      BY <2>1 DEF ParseInv
    <3>2. DOMAIN input.entries = Entries(parser.next)
      BY <3>1, InputType DEF Entries
    <3> QED
      BY <3>1, <3>2 DEF Good, LoopInv
  <2> QED
    BY <2>1 DEF ParsedExactly, ParseInv, Good, Entry
<1> QED
  BY <1>1, ParseInductive, PTL

-----------------------------------------------------------------------------
(* Under the policy of a running operator two instances never have           *)
(* overlapping slugs, whatever the policy file, the names and the ages.      *)
THEOREM SlugsNeverOverlap == Spec => []SlugsDisjoint
<1>1. ParseInv => SlugsDisjoint
  <2> SUFFICES ASSUME ParseInv, Alive, NEW o \in Objects, NEW p \in Objects, o.uid # p.uid,
                      Select(Policy, o) # Refused, Select(Policy, p) # Refused
               PROVE  ~Overlap(Select(Policy, o).slug, Select(Policy, p).slug)
    BY DEF SlugsDisjoint
  <2>0. input \in Inputs /\ input.entries # None /\ LoopInv
    BY DEF ParseInv, Alive, Accepted
  <2>1. ASSUME NEW u \in DOMAIN parser.entries
        PROVE  \E i \in Entries(parser.next) : Entry(i).uid = u /\ parser.entries[u] = Entry(i)
    BY <2>0 DEF LoopInv
  <2>2. \A i \in Entries(parser.next) : i \in DOMAIN input.entries
    BY <2>0, InputType DEF LoopInv, Entries
  <2>3. ASSUME NEW u \in DOMAIN parser.entries
        PROVE  /\ parser.entries[u].uid = u /\ ValidEntry(parser.entries[u])
               /\ parser.entries[u].slug \in Seq(STRING)
    <3>1. PICK i \in Entries(parser.next) : Entry(i).uid = u /\ parser.entries[u] = Entry(i)
      BY <2>1
    <3>2. ValidEntry(Entry(i)) /\ Entry(i).slug \in Seq(STRING)
      BY <2>0, <2>2, InputType DEF LoopInv
    <3> QED
      BY <3>1, <3>2
  <2>4. ASSUME NEW u \in DOMAIN parser.entries, NEW v \in DOMAIN parser.entries, u # v
        PROVE  Unambiguous(parser.entries[u], parser.entries[v])
    <3>1. PICK i \in Entries(parser.next) : Entry(i).uid = u /\ parser.entries[u] = Entry(i)
      BY <2>1
    <3>2. PICK j \in Entries(parser.next) : Entry(j).uid = v /\ parser.entries[v] = Entry(j)
      BY <2>1
    <3>3. Unambiguous(Entry(i), Entry(j))
      BY <2>0, <2>4, <3>1, <3>2 DEF LoopInv
    <3> QED
      BY <3>1, <3>2, <3>3
  <2>5. Policy.entries = parser.entries
    BY DEF Policy
  <2>6. WellFormed(Policy)
    BY <2>3, <2>4, <2>5 DEF WellFormed
  <2> QED
    BY <2>3, <2>5, <2>6, SelectedDisjoint
<1> QED
  BY <1>1, ParseInductive, PTL

-----------------------------------------------------------------------------
(* The settings of a workload.                                               *)

(* Only passes and edits change them.                                        *)
LEMMA ModelSteps ==
  ASSUME [Next]_vars
  PROVE  /\ UNCHANGED input
         /\ UNCHANGED model \/ Pass \/ \E x \in input.specs : EditSpec(x)
<1>1. CASE Pass \/ \E x \in input.specs : EditSpec(x)
  BY <1>1, PassFrame DEF unchangedByPass, parsing
<1>2. CASE ~Pass /\ ~\E x \in input.specs : EditSpec(x)
  BY <1>2, ZenonT(30) DEF vars, parsing, Next, Main, Auth, Callback, LoadFails, ParseEntry,
     ParseEnds, ValidateCeilings, RunOperator, ManagerLeads, ManagerStops, ManagerFails,
     ManagerReturns, Signal, ReceiveAuthStopped, ListenAndServe, ListenerFails, ServeReturns,
     StopShutdown, AwaitShutdown, SendAuthStopped, Report, CancelRuntime, Serving,
     BeginShutdown, EndShutdown, ShutdownTimesOut, Hook, Arrive, Answer, Request
<1> QED
  BY <1>1, <1>2

(* A tenant asks for what there is, and what a pass goes on with was admitted. *)
PassInv ==
  /\ input \in Inputs /\ spec \in input.specs /\ queued \in BOOLEAN
  /\ copy = None \/ (copy \in input.specs /\ Check(input.ceilings, copy))

LEMMA InitPass == Init => PassInv
BY ZenonT(30) DEF Init, PassInv

LEMMA PassSteps == PassInv /\ [Next]_vars => PassInv'
<1> SUFFICES ASSUME PassInv, [Next]_vars PROVE PassInv'
  OBVIOUS
<1>1. CASE UNCHANGED model
  BY <1>1, ModelSteps, ZenonT(30) DEF model, PassInv
<1>2. CASE Pass
  BY <1>2, ModelSteps, ZenonT(30)
  DEF Pass, CheckSettings, ReconcileModel, PassFails, EndPass, PassInv
<1>3. CASE \E x \in input.specs : EditSpec(x)
  BY <1>3, ModelSteps, ZenonT(30) DEF EditSpec, PassInv
<1> QED
  BY <1>1, <1>2, <1>3, ModelSteps

(* Only what check has admitted is deployed, whatever is edited meanwhile,   *)
(* for every configuration of the ceilings and every set of settings.        *)
THEOREM CeilingsHold == Spec => OnlyCheckedApplied
<1> DEFINE Allowed == applied' # applied =>
             \E x \in input.specs : Check(input.ceilings, x) /\ applied' = Deployed(x)
<1>1. PassInv /\ [Next]_vars => [Allowed]_vars
  <2> SUFFICES ASSUME PassInv, Next PROVE Allowed
    OBVIOUS
  <2>1. UNCHANGED applied \/ ReconcileModel
    BY ModelSteps, ZenonT(30) DEF model, Pass, CheckSettings, PassFails, EditSpec
  <2>2. CASE ReconcileModel
    BY <2>2, ZenonT(30) DEF ReconcileModel, PassInv
  <2> QED
    BY <2>1, <2>2
<1> QED
  BY <1>1, InitPass, PassSteps, PTL DEF Spec, OnlyCheckedApplied

-----------------------------------------------------------------------------
(* Types.                                                                    *)

(* What no other invariant says of the types: the parser advances, the       *)
(* process has an exit code once it has exited, and a workload has settings. *)
TypeInv ==
  /\ parser.next \in Nat
  /\ code \in {None, 0, 1} /\ (code # None) = (pc = "exit")
  /\ cancelled \in BOOLEAN /\ leading \in BOOLEAN
  /\ managerErr \in {None, "ok", "error"} /\ chan \in {None, "ok", "error"}
  /\ applied = None \/ applied.settings \in [Settings -> Nat]

(* The settings of a model server are numbers, whatever is asked for.        *)
LEMMA ModelType ==
  ASSUME NEW x, x.override \in [Settings -> Nat]
  PROVE  ModelForInstance(x) \in [Settings -> Nat]
<1>1. ResolveModel(x.model) \in [Settings -> Nat]
  BY DEF ResolveModel, Unset, Settings, Resources
<1> QED
  BY <1>1 DEF ModelForInstance

(* Every step keeps them.                                                    *)
LEMMA StepTypes ==
  ASSUME TypeInv, PassInv, pc \in {"parse", "ceilings", "manager", "await", "exit"},
         [Next]_vars
  PROVE  TypeInv'
<1>n. None \notin {0, 1}
  BY OperatorAssumption
<1>1. parser'.next \in Nat
  <2>1. CASE UNCHANGED parser
    BY <2>1 DEF TypeInv
  <2>2. CASE \E e : parser' = With(parser, e)
    BY <2>2 DEF TypeInv, With
  <2>3. UNCHANGED parser \/ \E e : parser' = With(parser, e)
    BY ZenonT(30) DEF vars, parsing, Next, Main, Auth, Callback, LoadFails, ParseEntry,
       ParseEnds, ValidateCeilings, RunOperator, ManagerLeads, ManagerStops, ManagerFails,
       ManagerReturns, Signal, ReceiveAuthStopped, ListenAndServe, ListenerFails,
       ServeReturns, StopShutdown, AwaitShutdown, SendAuthStopped, Report, CancelRuntime,
       Serving, BeginShutdown, EndShutdown, ShutdownTimesOut, Hook, Arrive, Answer, Request,
       EditSpec, Pass, CheckSettings, ReconcileModel, PassFails, EndPass, unchangedByPass
  <2> QED
    BY <2>1, <2>2, <2>3
<1>2. code' \in {None, 0, 1} /\ (code' # None) = (pc' = "exit")
  <2>1. \/ UNCHANGED <<code, pc>>
        \/ UNCHANGED code /\ pc \in {"parse", "ceilings", "manager"}
             /\ pc' \in {"ceilings", "manager", "await"}
        \/ Exit(0) \/ Exit(1)
    BY ZenonT(30) DEF vars, Next, Main, Auth, Callback, LoadFails, ParseEntry,
       ParseEnds, ValidateCeilings, RunOperator, ManagerLeads, ManagerStops, ManagerFails,
       ManagerReturns, Signal, ReceiveAuthStopped, ListenAndServe, ListenerFails,
       ServeReturns, StopShutdown, AwaitShutdown, SendAuthStopped, Report, CancelRuntime,
       Serving, BeginShutdown, EndShutdown, ShutdownTimesOut, Hook, Arrive, Answer, Request,
       EditSpec, Pass, CheckSettings, ReconcileModel, PassFails, EndPass, unchangedByPass
  <2>2. CASE UNCHANGED <<code, pc>>
    BY <2>2 DEF TypeInv
  <2>3. CASE UNCHANGED code /\ pc # "exit" /\ pc' # "exit"
    BY <2>3 DEF TypeInv
  <2>4. CASE Exit(0) \/ Exit(1)
    BY <1>n, <2>4 DEF Exit
  <2> QED
    BY <2>1, <2>2, <2>3, <2>4
<1>3. /\ cancelled' \in {cancelled, TRUE} /\ leading' \in {leading, TRUE, FALSE}
      /\ managerErr' \in {managerErr, "ok", "error"} /\ chan' \in {chan, "ok", "error"}
  BY ZenonT(30) DEF vars, server, Next, Main, Auth, Callback, LoadFails, ParseEntry,
     ParseEnds, ValidateCeilings, RunOperator, ManagerLeads, ManagerStops, ManagerFails,
     ManagerReturns, Signal, ReceiveAuthStopped, ListenAndServe, ListenerFails,
     ServeReturns, StopShutdown, AwaitShutdown, SendAuthStopped, Report, AuthErr,
     CancelRuntime, Serving, BeginShutdown, EndShutdown, ShutdownTimesOut, Hook, Arrive,
     Answer, Request, EditSpec, Pass, CheckSettings, ReconcileModel, PassFails, EndPass,
     unchangedByPass
<1>4. applied' = None \/ applied'.settings \in [Settings -> Nat]
  <2>1. UNCHANGED applied \/ ReconcileModel
    BY ModelSteps, ZenonT(30) DEF model, Pass, CheckSettings, PassFails, EditSpec
  <2>2. CASE ReconcileModel
    <3>1. copy.override \in [Settings -> Nat]
      BY <2>2, OperatorAssumption DEF PassInv, ReconcileModel
    <3>2. applied'.settings = ModelForInstance(copy)
      BY <2>2 DEF ReconcileModel, Deployed
    <3> QED
      BY <3>1, <3>2, ModelType
  <2> QED
    BY <2>1, <2>2 DEF TypeInv
<1> QED
  BY <1>1, <1>2, <1>3, <1>4, ZenonT(30) DEF TypeInv

(* The process has an exit code exactly when it has exited, and everything   *)
(* else is of its type, whatever the goroutines do.                          *)
THEOREM OperatorTypes == Spec => []TypeOK
<1>1. Init => TypeInv /\ PassInv
  <2> SUFFICES ASSUME Init PROVE TypeInv /\ PassInv
    OBVIOUS
  <2>1. parser.next \in Nat
    BY DEF Init, NoPolicy
  <2>3. applied = None \/ applied.settings \in [Settings -> Nat]
    <3>1. \A x \in input.specs : Deployed(x).settings \in [Settings -> Nat]
      BY OperatorAssumption, ModelType DEF Init, Deployed
    <3> QED
      BY <3>1 DEF Init
  <2>2. pc # "exit"
    BY DEF Init
  <2> QED
    BY <2>1, <2>2, <2>3, InitPass, ZenonT(30) DEF Init, TypeInv
<1>2. ProcessInv => pc \in {"parse", "ceilings", "manager", "await", "exit"}
  BY ZenonT(30) DEF ProcessInv, MainInv
<1>3. ProcessInv /\ TypeInv /\ PassInv /\ [Next]_vars => TypeInv'
  BY <1>2, StepTypes
<1>4. ProcessInv /\ TypeInv /\ PassInv => TypeOK
  <2> SUFFICES ASSUME ProcessInv, TypeInv, PassInv PROVE TypeOK
    OBVIOUS
  <2>1. /\ auth \in {"off", "listen", "serve"} \cup Returned /\ closing \in BOOLEAN
        /\ serveErr \in {None, "closed", "failed"}
        /\ hook \in {"off", "armed", "shutdown", "done", "disarmed"}
        /\ req \in [Requests -> {"none", "active", "answered", "cut"}]
    BY ZenonT(30) DEF ProcessInv, MainInv, AuthInv, RequestInv
  <2>2. auth \in {"off", "listen", "serve", "returned", "wait", "report", "cancel", "done"}
    BY <2>1 DEF Returned
  <2> QED
    BY <1>2, <2>1, <2>2, ZenonT(30) DEF TypeOK, TypeInv, PassInv
<1> QED
  BY <1>1, <1>3, <1>4, PassSteps, ProcessInductive, PTL DEF Spec
=============================================================================
