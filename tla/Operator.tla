------------------------------ MODULE Operator ------------------------------
(***************************************************************************)
(* A replica of the operator process, from its start to its exit.          *)
(*                                                                         *)
(* main reads the slug policy entry by entry, checks the provider's        *)
(* ceilings and calls runOperator, which runs the manager in the main      *)
(* goroutine and the auth server in one of its own.  The auth server has a *)
(* shutdown callback that the cancellation of the runtime context starts.  *)
(* Each step is one that another goroutine can observe: a return from a    *)
(* Start function, a channel operation, a cancellation.                    *)
(*                                                                         *)
(* The manager, the HTTP server and the lease are libraries; they are      *)
(* modelled from how runOperator and Server.Start use them.  The lease may *)
(* be withheld for ever: it is what other replicas hold.                   *)
(***************************************************************************)
EXTENDS Slugs, ModelSettings

CONSTANTS Inputs,      \* the policy file, ceilings and settings a replica meets
          Requests     \* requests to the auth server

ASSUME OperatorAssumption ==
  /\ \A in \in Inputs :
       /\ in.entries # None =>
            /\ Len(in.entries) \in Nat /\ DOMAIN in.entries = 1 .. Len(in.entries)
            /\ \A i \in DOMAIN in.entries : in.entries[i].slug \in Seq(STRING)
       /\ in.ceilings \in [Ceilings -> Int]
       /\ \A x \in in.specs : x.override \in [Settings -> Nat]
  /\ None \notin {"ok", "error", "failed", "closed"} /\ None \notin {0, 1}

VARIABLES input,       \* the entries of the file, the ceilings, tenants' settings
          parser,      \* Parse's position, and the policy made so far
          pc, code,    \* the main goroutine and the exit code
          cancelled,   \* runtimeCtx.Err() # nil
          leading, managerErr,
          auth, serveErr, chan,   \* the auth goroutine and its channel
          hook,        \* the shutdown callback
          closing,     \* the HTTP server's shutdown flag
          req,         \* the requests
          spec, applied,  \* an instance's settings, as asked and as deployed
          copy, queued    \* what the pass under way has read; a pass is due

parsing == <<input, parser>>
server == <<auth, serveErr, chan, hook, closing, req>>
model == <<spec, applied, copy, queued>>
vars == <<parsing, pc, code, cancelled, leading, managerErr, server, model>>

Alive == pc \in {"manager", "await"}

TypeOK ==
  /\ input \in Inputs
  /\ parser.next \in Nat
  /\ pc \in {"parse", "ceilings", "manager", "await", "exit"}
  /\ code \in {None, 0, 1} /\ (code # None) = (pc = "exit")
  /\ cancelled \in BOOLEAN /\ leading \in BOOLEAN /\ closing \in BOOLEAN
  /\ managerErr \in {None, "ok", "error"}
  /\ auth \in {"off", "listen", "serve", "returned", "wait", "report", "cancel", "done"}
  /\ serveErr \in {None, "closed", "failed"} /\ chan \in {None, "ok", "error"}
  /\ hook \in {"off", "armed", "shutdown", "done", "disarmed"}
  /\ req \in [Requests -> {"none", "active", "answered", "cut"}]
  /\ spec \in input.specs /\ copy \in input.specs \cup {None} /\ queued \in BOOLEAN
  /\ applied = None \/ applied.settings \in [Settings -> Nat]
-----------------------------------------------------------------------------
(* main, up to runOperator.                                                 *)

Exit(c) == pc' = "exit" /\ code' = c

NoPolicy == [next |-> 1, entries |-> <<>>, names |-> {}, slugs |-> {}]

(* Mutant: a slug may extend an earlier one.                                *)
ClashOneWay(p, e) ==
  \/ e.uid \in DOMAIN p.entries \/ e.name \in p.names
  \/ e.mode = "legacy" /\ \E s \in p.slugs : StartsWith(s, e.slug)

(* The entry names an instance or takes a path that an earlier one has.     *)
Clash(p, e) ==
  \/ e.uid \in DOMAIN p.entries \/ e.name \in p.names
  \/ e.mode = "legacy" /\ \E s \in p.slugs : Overlap(s, e.slug)

With(p, e) ==
  [next |-> p.next + 1,
   entries |-> [u \in DOMAIN p.entries \cup {e.uid} |->
                  IF u = e.uid THEN e ELSE p.entries[u]],
   names |-> p.names \cup {e.name},
   slugs |-> p.slugs \cup (IF e.mode = "legacy" THEN {e.slug} ELSE {})]

(* The file is missing, or is not one JSON document with a cutover time.    *)
LoadFails ==
  /\ pc = "parse" /\ input.entries = None
  /\ Exit(1)
  /\ UNCHANGED <<parsing, cancelled, leading, managerErr, server, model>>

ParseEntry ==
  /\ pc = "parse" /\ input.entries # None /\ parser.next <= Len(input.entries)
  /\ LET e == input.entries[parser.next]
     IN IF ~ValidEntry(e) \/ Clash(parser, e)
        THEN Exit(1) /\ UNCHANGED parser
        ELSE parser' = With(parser, e) /\ UNCHANGED <<pc, code>>
  /\ UNCHANGED <<input, cancelled, leading, managerErr, server, model>>

ParseEnds ==
  /\ pc = "parse" /\ input.entries # None /\ parser.next > Len(input.entries)
  /\ pc' = "ceilings"
  /\ UNCHANGED <<parsing, code, cancelled, leading, managerErr, server, model>>

RunOperator ==
  /\ pc' = "manager" /\ auth' = "listen" /\ hook' = "armed"
  /\ UNCHANGED <<parsing, cancelled, leading, managerErr, serveErr, chan,
                 closing, req, model>>

(* Mutant: invalid ceilings are reported and the operator runs.             *)
ReportCeilings ==
  /\ pc = "ceilings"
  /\ code' = IF Validate(input.ceilings) THEN None ELSE 1
  /\ RunOperator

ValidateCeilings ==
  /\ pc = "ceilings"
  /\ IF Validate(input.ceilings) THEN RunOperator /\ UNCHANGED code
     ELSE /\ Exit(1)
          /\ UNCHANGED <<parsing, cancelled, leading, managerErr, server, model>>
-----------------------------------------------------------------------------
(* runOperator: the manager, the signal, the end.                           *)

ManagerLeads ==
  /\ pc = "manager" /\ ~leading /\ ~cancelled
  /\ leading' = TRUE
  /\ UNCHANGED <<parsing, pc, code, cancelled, managerErr, server, model>>

ManagerReturns(err) ==
  /\ pc = "manager"
  /\ pc' = "await" /\ managerErr' = err /\ cancelled' = TRUE /\ leading' = FALSE
  /\ UNCHANGED <<parsing, code, server, model>>

ManagerStops == cancelled /\ ManagerReturns("ok")
ManagerFails == ManagerReturns("error")

Signal ==
  /\ Alive /\ ~cancelled
  /\ cancelled' = TRUE
  /\ UNCHANGED <<parsing, pc, code, leading, managerErr, server, model>>

ReceiveAuthStopped ==
  /\ pc = "await" /\ chan # None
  /\ Exit(IF managerErr = "error" \/ chan = "error" THEN 1 ELSE 0)
  /\ UNCHANGED <<parsing, cancelled, leading, managerErr, server, model>>
-----------------------------------------------------------------------------
(* The auth goroutine and Server.Start.                                     *)

Serving(next, err) ==
  /\ auth' = next /\ serveErr' = err
  /\ UNCHANGED <<parsing, pc, code, cancelled, leading, managerErr, chan, hook,
                 closing, req, model>>

(* Mutant: the server is started with the leader's controllers.             *)
ListenWhenLeading ==
  /\ Alive /\ auth = "listen" /\ leading
  /\ IF closing THEN Serving("returned", "closed") ELSE Serving("serve", None)

ListenAndServe ==
  /\ Alive /\ auth = "listen"
  /\ IF closing THEN Serving("returned", "closed") ELSE Serving("serve", None)

ListenerFails ==
  /\ Alive /\ auth \in {"listen", "serve"} /\ ~closing
  /\ Serving("returned", "failed")

ServeReturns ==
  /\ Alive /\ auth = "serve" /\ closing
  /\ Serving("returned", "closed")

(* Mutant: Start does not wait for the callback.                            *)
StopShutdownOnly ==
  /\ Alive /\ auth = "returned"
  /\ auth' = "report" /\ hook' = IF hook = "armed" THEN "disarmed" ELSE hook
  /\ UNCHANGED <<parsing, pc, code, cancelled, leading, managerErr, serveErr,
                 chan, closing, req, model>>

StopShutdown ==
  /\ Alive /\ auth = "returned"
  /\ IF hook = "armed" THEN hook' = "disarmed" /\ auth' = "report"
     ELSE auth' = "wait" /\ UNCHANGED hook
  /\ UNCHANGED <<parsing, pc, code, cancelled, leading, managerErr, serveErr,
                 chan, closing, req, model>>

AwaitShutdown ==
  /\ Alive /\ auth = "wait" /\ hook = "done"
  /\ Serving("report", serveErr)

Report(err) ==
  /\ Alive /\ auth = "report"
  /\ chan' = err /\ auth' = "cancel"
  /\ UNCHANGED <<parsing, pc, code, cancelled, leading, managerErr, serveErr,
                 hook, closing, req, model>>

AuthErr == IF serveErr = "failed" \/ ~cancelled THEN "error" ELSE "ok"

(* Mutants: after a cancellation every error counts as its consequence; the *)
(* channel has no buffer.                                                   *)
SendUnlessCancelled == Report(IF cancelled THEN "ok" ELSE AuthErr)
SendUnbuffered == pc = "await" /\ Report(AuthErr)

SendAuthStopped == Report(AuthErr)

CancelRuntime ==
  /\ Alive /\ auth = "cancel"
  /\ auth' = "done" /\ cancelled' = TRUE
  /\ UNCHANGED <<parsing, pc, code, leading, managerErr, serveErr, chan, hook,
                 closing, req, model>>
-----------------------------------------------------------------------------
(* The shutdown callback and the requests.                                  *)

Hook(step) ==
  /\ hook' = step
  /\ UNCHANGED <<parsing, pc, code, cancelled, leading, managerErr, auth,
                 serveErr, chan, model>>

BeginShutdown ==
  /\ Alive /\ hook = "armed" /\ cancelled
  /\ closing' = TRUE
  /\ Hook("shutdown") /\ UNCHANGED req

Active == {q \in Requests : req[q] = "active"}

(* Shutdown ends when no request is active, or Close cuts them off.         *)
EndShutdown ==
  /\ Alive /\ hook = "shutdown" /\ Active = {}
  /\ Hook("done") /\ UNCHANGED <<closing, req>>

ShutdownTimesOut ==
  /\ Alive /\ hook = "shutdown" /\ Active # {}
  /\ req' = [q \in Requests |-> IF q \in Active THEN "cut" ELSE req[q]]
  /\ Hook("done") /\ UNCHANGED closing

Request(q, step) ==
  /\ req' = [req EXCEPT ![q] = step]
  /\ UNCHANGED <<parsing, pc, code, cancelled, leading, managerErr, auth,
                 serveErr, chan, hook, closing, model>>

Arrive(q) ==
  /\ Alive /\ auth = "serve" /\ ~closing /\ req[q] = "none"
  /\ Request(q, "active")

Answer(q) ==
  /\ Alive /\ req[q] = "active"
  /\ Request(q, "answered")
-----------------------------------------------------------------------------
(* A tenant's settings of a model server, under the provider's ceilings.    *)

unchangedByPass == UNCHANGED <<parsing, pc, code, cancelled, leading, managerErr, server>>

Deployed(x) == [model |-> x.model, settings |-> ModelForInstance(x)]

EditSpec(x) ==
  /\ leading /\ spec # x
  /\ spec' = x /\ queued' = TRUE
  /\ UNCHANGED <<applied, copy>> /\ unchangedByPass

(* Reconcile reads the instance and checks its settings.  Rejected ones end *)
(* the pass; unless the status write fails it is not repeated, and only the *)
(* next edit starts another.                                                *)
CheckSettings ==
  /\ leading /\ queued /\ copy = None
  /\ \/ Check(input.ceilings, spec) /\ copy' = spec /\ queued' = FALSE
     \/ ~Check(input.ceilings, spec) /\ UNCHANGED copy /\ queued' \in BOOLEAN
  /\ UNCHANGED <<spec, applied>> /\ unchangedByPass

EndPass == copy' = None /\ queued' = TRUE /\ UNCHANGED spec /\ unchangedByPass

(* Mutant: the workload is written from the instance as it is by then.      *)
ApplyLatest ==
  /\ leading /\ copy # None
  /\ applied' = Deployed(spec) /\ EndPass

(* The workload is written several calls later, from the copy that was      *)
(* checked.  The next pass follows after 30 seconds.                        *)
ReconcileModel ==
  /\ leading /\ copy # None
  /\ applied' = Deployed(copy) /\ EndPass

(* Mutant: a pass that fails is not repeated.                               *)
PassFailsQuietly ==
  /\ leading /\ copy # None
  /\ copy' = None /\ UNCHANGED <<spec, applied, queued>> /\ unchangedByPass

(* A call in between fails, or conflicts with an edit.                      *)
PassFails ==
  /\ leading /\ copy # None
  /\ UNCHANGED applied /\ EndPass
-----------------------------------------------------------------------------
Init ==
  /\ input \in Inputs /\ parser = NoPolicy
  /\ pc = "parse" /\ code = None
  /\ cancelled = FALSE /\ leading = FALSE /\ managerErr = None
  /\ auth = "off" /\ serveErr = None /\ chan = None
  /\ hook = "off" /\ closing = FALSE
  /\ req = [q \in Requests |-> "none"]
  /\ spec \in input.specs
  /\ applied \in {None} \cup {Deployed(x) : x \in input.specs}
  /\ copy = None /\ queued = TRUE

Main == LoadFails \/ ParseEntry \/ ParseEnds \/ ValidateCeilings \/ ReceiveAuthStopped
Auth == \/ ListenAndServe \/ ServeReturns \/ StopShutdown \/ AwaitShutdown
        \/ SendAuthStopped \/ CancelRuntime
Callback == BeginShutdown \/ EndShutdown \/ ShutdownTimesOut
Pass == CheckSettings \/ ReconcileModel \/ PassFails

Next ==
  \/ Main \/ Auth \/ Callback \/ ManagerStops
  \/ ManagerLeads \/ ManagerFails \/ ListenerFails \/ Signal
  \/ \E q \in Requests : Arrive(q) \/ Answer(q)
  \/ Pass \/ \E x \in input.specs : EditSpec(x)

Spec == Init /\ [][Next]_vars

(* Goroutines run, a cancelled manager returns, and a pass that is due and  *)
(* repeated whenever it fails does not fail for ever.  Nothing is assumed   *)
(* of the lease, of requests or of other failures.                          *)
Fairness ==
  /\ WF_vars(Main) /\ WF_vars(Auth) /\ WF_vars(Callback) /\ WF_vars(ManagerStops)
  /\ WF_vars(CheckSettings) /\ SF_vars(ReconcileModel)

FairSpec == Spec /\ Fairness
-----------------------------------------------------------------------------
(* Properties.                                                              *)

Accepted == pc \in {"ceilings", "manager", "await"}

(* Parse accepts exactly the files whose entries are valid and pairwise     *)
(* unambiguous, so the order of the entries does not matter, and what it    *)
(* accepts is a well-formed policy with all of the entries.                 *)
ParsedExactly ==
  LET es == input.entries
      good == /\ es # None
              /\ \A i \in DOMAIN es : ValidEntry(es[i])
              /\ \A i, j \in DOMAIN es : i # j => Unambiguous(es[i], es[j])
  IN /\ Accepted => good
     /\ Accepted => \A i \in DOMAIN es :
          es[i].uid \in DOMAIN parser.entries /\ parser.entries[es[i].uid] = es[i]
     /\ pc = "exit" /\ auth = "off" => ~good \/ ~Validate(input.ceilings)

(* With the policy that a running operator uses, two instances never have   *)
(* overlapping slugs, whatever their names and ages, mapped or not.         *)
Policy == [cutover |-> 1, entries |-> parser.entries]
Objects == [uid : {e.uid : e \in {parser.entries[u] : u \in DOMAIN parser.entries}}
                  \cup {"new1", "new2"},
            name : parser.names \cup {"new"}, created : {1, 2}]
SlugsDisjoint ==
  Alive => \A o, p \in Objects :
    \/ o.uid = p.uid \/ Select(Policy, o) = Refused \/ Select(Policy, p) = Refused
    \/ ~Overlap(Select(Policy, o).slug, Select(Policy, p).slug)

(* "Finish their bounded cleanup before returning": when the process exits  *)
(* after runOperator, the shutdown callback is not half-way and no request  *)
(* is left without an answer or a closed connection, unless the listener    *)
(* itself has failed.                                                       *)
ExitAfterCleanup ==
  pc = "exit" /\ auth # "off" =>
    hook # "shutdown" /\ (serveErr = "failed" \/ Active = {})

(* The exit code tells whether the manager or the listener has failed, in   *)
(* whatever order the two goroutines, the signal and the failures come.     *)
ExitCodeTells ==
  pc = "exit" /\ auth # "off" =>
    (code = 1) = (managerErr = "error" \/ serveErr = "failed")

(* "Either service stopping cancels the other": a signal, the end of the    *)
(* manager or the end of the auth server ends the process, however slow the *)
(* requests are.                                                            *)
StopsTogether ==
  (Alive /\ (cancelled \/ managerErr # None \/ serveErr # None)) ~> (pc = "exit")

(* "Auth must run on every replica, independently of manager leader         *)
(* election": a replica serves, also one that never leads, unless it is     *)
(* stopped or the listener fails.                                           *)
AuthOnEveryReplica ==
  (pc = "manager") ~> (auth = "serve" \/ serveErr = "failed" \/ cancelled)

(* "Reject tenant settings before any local or remote workload changes": a  *)
(* workload, also one that an earlier process left with higher settings,    *)
(* changes only to settings that were asked for together and that check     *)
(* admits, although the tenant goes on editing between the check and the    *)
(* write.                                                                   *)
OnlyCheckedApplied ==
  [][applied' # applied =>
       \E x \in input.specs : Check(input.ceilings, x) /\ applied' = Deployed(x)]_vars

(* Admitted settings that the tenant leaves alone are deployed while the    *)
(* replica leads, although rejected ones are not looked at again: no edit   *)
(* is lost that falls into a pass, and no failed pass is the last one.      *)
AdmittedIsApplied ==
  \A x \in UNION {in.specs : in \in Inputs} :
    []<>(leading /\ spec = x /\ Check(input.ceilings, x) => applied = Deployed(x))
=============================================================================
