--------------------------- MODULE CredentialFlow ---------------------------
(***************************************************************************)
(* Where the keys of TokenRequest are accepted.                            *)
(*                                                                         *)
(* Hosted instances: Traefik asks the auth server, which reads the         *)
(* instance, the token Secret and the owning request from the API server   *)
(* in three separate calls; auth is one such request in flight.            *)
(*                                                                         *)
(* BYOC instances: the LLMInstance controller copies the keys it finds in  *)
(* its cache into a key file on the customer cluster, where the model      *)
(* server accepts them; keyfile[n] is that file, empty when it holds only  *)
(* the bootstrap key that nobody is given.                                 *)
(*                                                                         *)
(* An audience is a pair of a target (None for hosted) and an instance UID.*)
(***************************************************************************)
EXTENDS TokenRequest

VARIABLES
  auth,      \* the authorization request in flight
  keyfile,   \* the api-key file of every instance on its active target
  accepted   \* history: pairs of a key and an audience that accepted it

flow == <<auth, keyfile, accepted>>
allVars == <<inst, tr, sec, cInst, cTr, cSec, queued, w, mint, budget, auth, keyfile, accepted>>

NoAuth == [pc |-> "idle", uid |-> None, key |-> 0, owner |-> 0]

FlowTypeOK ==
  /\ TypeOK
  /\ auth \in [pc : {"idle", "list", "owner"}, uid : Uids \cup {None}, key : Nat, owner : Nat]
  /\ keyfile \in [Names -> SUBSET Nat]
  /\ accepted \in SUBSET (Nat \X Bindings)

-----------------------------------------------------------------------------
(* The auth server.  A request that is denied leaves no trace.             *)

(* authorize's tests of the instance, at the UID the route is bound to.      *)
AuthorizesInstance(i) == i.exists /\ ~i.deleting /\ ~IsByoc(i)

(* Mutant: the binding annotations are not compared.                        *)
MatchesByLabels(u, k, s) ==
  s.exists /\ s.slug = u /\ s.key = k /\ s.owner # 0 /\ s.label = u[1]

(* The list by slug label, the key comparison and ownsToken up to the Get.   *)
MatchesSecret(u, k, s) ==
  /\ s.exists /\ s.slug = u /\ s.key = k
  /\ s.owner # 0 /\ s.label = u[1] /\ s.iuid = u /\ s.target = None

(* The rest of ownsToken: the owner still requests this instance.            *)
MatchesOwner(u, owner, t) ==
  /\ t.exists /\ t.uid = owner /\ ~t.deleting /\ t.name = u[1]
  /\ t.secret /\ t.observed = t.gen

Authorize(n, k) ==
  /\ auth.pc = "idle"
  /\ AuthorizesInstance(inst[n])
  /\ auth' = [NoAuth EXCEPT !.pc = "list", !.uid = inst[n].uid, !.key = k]
  /\ UNCHANGED <<vars, keyfile, accepted>>

ListSecrets ==
  /\ auth.pc = "list"
  /\ auth' = IF MatchesSecret(auth.uid, auth.key, sec)
             THEN [auth EXCEPT !.pc = "owner", !.owner = sec.owner] ELSE NoAuth
  /\ UNCHANGED <<vars, keyfile, accepted>>

OwnsToken ==
  /\ auth.pc = "owner"
  /\ accepted' = IF MatchesOwner(auth.uid, auth.owner, tr)
                 THEN accepted \cup {<<auth.key, <<None, auth.uid>>>>} ELSE accepted
  /\ auth' = NoAuth
  /\ UNCHANGED <<vars, keyfile>>

-----------------------------------------------------------------------------
(* The key file.                                                           *)

DesiredAPIKeyFile(i, s, t) ==
  IF /\ s.exists /\ s.owner # 0 /\ s.label = NameOf(i)
     /\ t.exists /\ t.uid = s.owner /\ t.name = NameOf(i) /\ ~t.deleting /\ t.secret
     /\ i.target # None /\ s.target = i.target /\ s.iuid = i.uid
  THEN {s.key} ELSE {}

(* reconcileBYOCWorkload, as far as keys go.  Only this controller's single  *)
(* worker moves the active target, so target and UID are those it read at    *)
(* the start; the spec may have been edited since, so it is not a guard.     *)
ReconcileBYOCKeySecret(n) ==
  /\ inst[n].exists /\ inst[n].active /\ inst[n].target # None
  /\ LET keys == DesiredAPIKeyFile(inst[n], cSec, cTr)
     IN /\ keyfile' = [keyfile EXCEPT ![n] = keys]
        /\ accepted' = accepted \cup (keys \X {Binding(inst[n])})
  /\ UNCHANGED <<vars, auth>>

(* Mutant: the remote file survives.                                         *)
KeepsRemoteFile == keyfile' = keyfile

(* cleanupBYOCObjects deletes the file before the status forgets the target  *)
(* and before the instance loses its finalizer.                              *)
CleanupBYOCObjects ==
  keyfile' = [n \in Names |-> IF inst'[n].active THEN keyfile[n] ELSE {}]

-----------------------------------------------------------------------------
FlowInit == Init /\ auth = NoAuth /\ keyfile = [n \in Names |-> {}] /\ accepted = {}

FlowNext ==
  \/ Next /\ CleanupBYOCObjects /\ UNCHANGED <<auth, accepted>>
  \/ \E n \in Names : ReconcileBYOCKeySecret(n) \/ \E k \in Keys : Authorize(n, k)
  \/ ListSecrets \/ OwnsToken

FlowSpec == FlowInit /\ [][FlowNext]_allVars

(* The key file is rewritten only by passes that get as far as it.  One that *)
(* stops before (kubeconfig not readable, settings rejected, certificate or  *)
(* LoadBalancer not ready) writes a status that is not Ready, and need not   *)
(* be repeated.  So fairness is claimed for instances that stay Ready: their *)
(* passes reach the file, and are repeated every 30 seconds.  For the rest,  *)
(* the worker goes on and some cache that is behind catches up.              *)
FlowFairness ==
  /\ WF_allVars(Controller /\ CleanupBYOCObjects /\ UNCHANGED <<auth, accepted>>)
  /\ WF_allVars(/\ SyncTr \/ SyncSec \/ SyncInst \/ CollectSecret
                /\ CleanupBYOCObjects /\ UNCHANGED <<auth, accepted>>)
  /\ WF_allVars(\E n \in Names :
                  /\ inst[n].byoc /\ inst[n].ready /\ ~inst[n].deleting
                  /\ ReconcileBYOCKeySecret(n))

FairFlowSpec == FlowSpec /\ FlowFairness

-----------------------------------------------------------------------------
(* No key is ever accepted by two audiences: a cluster that retained a key   *)
(* has no access to its replacement, a recreated instance of the same name   *)
(* does not accept the old one's keys, and a legacy key is adopted at most   *)
(* once, although the three reads of the auth server, the caches of both     *)
(* controllers and the rotation all see different moments.                   *)
OneAudiencePerKey ==
  \A p, q \in accepted : p[1] = q[1] => p[2] = q[2]

(* An audience accepts a key only if the key was generated for it, or is a   *)
(* legacy hosted key.                                                        *)
AcceptedAsMinted ==
  \A p \in accepted :
    /\ p[1] \in Keys
    /\ mint[p[1]] = p[2] \/ (mint[p[1]] = Legacy /\ p[2][1] = None)

(* The keys on a customer cluster were generated for that cluster and that   *)
(* instance, at every moment while the target is active.                     *)
KeyFileIsForTarget ==
  \A n \in Names : \A k \in keyfile[n] :
    inst[n].active /\ k \in Keys /\ mint[k] = <<inst[n].target, inst[n].uid>>

(* What was accepted, and what the auth server has still to look up the      *)
(* owner for.                                                                *)
Vouched == accepted \cup
  (IF auth.pc = "owner" THEN {<<auth.key, <<None, auth.uid>>>>} ELSE {})

(* The inductive invariant behind these three.  A key is vouched for by the  *)
(* audience that its Secret named when it was read.  For a legacy key the    *)
(* history does not name one, so the Secret has to: while it holds the key   *)
(* it names the audience that the key was once vouched for.                  *)
FlowInv ==
  /\ FlowTypeOK /\ TokenInv /\ KeyFileIsForTarget
  /\ \A n \in Names : inst[n].active => inst[n].target # None
  /\ auth.pc # "idle" => auth.uid \in Uids
  /\ \A p \in Vouched :
       /\ p[1] \in Keys
       /\ mint[p[1]] = p[2] \/ (mint[p[1]] = Legacy /\ p[2][1] = None)
       /\ mint[p[1]] = Legacy /\ sec.exists /\ sec.owner # 0 /\ sec.key = p[1] =>
            sec.iuid = p[2][2]
  /\ \A p, q \in Vouched : p[1] = q[1] => p[2] = q[2]

(* The file of an instance that serves from its target is up to date.        *)
FilesSettled ==
  \A n \in Names :
    /\ inst[n].exists /\ inst[n].byoc /\ inst[n].active /\ inst[n].target # None
    /\ inst[n].ready /\ ~inst[n].deleting
    => keyfile[n] = DesiredAPIKeyFile(inst[n], sec, tr)

PublishedKeyAccepted ==
  tr.exists /\ ~(sec.exists /\ sec.owner = 0) =>
    LET i == inst[tr.name]
    IN i.exists /\ Serving(i) =>
         IF i.byoc THEN sec.key \in keyfile[tr.name]
         ELSE /\ AuthorizesInstance(i) /\ MatchesSecret(i.uid, sec.key, sec)
              /\ MatchesOwner(i.uid, sec.owner, tr)

(* Once users and instances stop changing, the key that the Secret publishes *)
(* is accepted where its URL leads (by the auth server's own tests, or in    *)
(* the remote key file), and the file of a Ready instance holds no withdrawn *)
(* key.                                                                      *)
PublishedKeysWork == <>[](FilesSettled /\ PublishedKeyAccepted)
=============================================================================
