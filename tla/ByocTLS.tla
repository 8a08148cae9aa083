------------------------------ MODULE ByocTLS ------------------------------
(***************************************************************************)
(* The managed certificate of one BYOC target: its request, issuance,      *)
(* delivery to the customer cluster, renewal, and removal.                 *)
(*                                                                         *)
(* The operator keeps a Certificate object in its own cluster.  Gardener's *)
(* cert-management (external) issues for it and writes the source Secret.  *)
(* The operator validates that Secret, keeps a copy of it (last-valid) and *)
(* delivers it to the customer cluster (dest).  Key pairs are numbered in  *)
(* the order of issuance and the first expired of them are not usable any  *)
(* more; 0 is no key pair.  Certificates are read from the API server, the *)
(* two Secrets of the operator's cluster through an informer cache.        *)
(*                                                                         *)
(* want says what a pass of the instance controller is to do: serve, for a *)
(* target the instance asks for, or clean, after a move or a deletion.     *)
(***************************************************************************)
EXTENDS Naturals

CONSTANTS CacheLag,    \* whether the Secret cache may lag behind its writers
          MaxSerial,   \* bound on the key pairs issued
          MaxTurns,    \* bound on changes of want
          MaxFaults    \* bound on restarts, failed calls and failed issuance

ASSUME TLSAssumption ==
  /\ CacheLag \in BOOLEAN
  /\ MaxSerial \in Nat \ {0} /\ MaxTurns \in Nat /\ MaxFaults \in Nat

VARIABLES
  cert,             \* the Certificate
  source, last,     \* the issued Secret and the last-valid copy
  cSource, cLast,   \* the cache's view of the two
  dest,             \* key pair of the Secret on the customer cluster
  job,              \* cert-management's reconciliation of the Certificate
  issued, expired,  \* the newest key pair; the newest one past its margin
  want, done,       \* the wanted mode; cleanup has reported success
  live,             \* the key pair whose endpoint is advertised
  w, spent          \* the worker; how much of the bounds has been used

objects == <<cert, source, last, dest>>
views == <<cSource, cLast>>
vars == <<cert, source, last, cSource, cLast, dest, job, issued, expired,
          want, done, live, w, spent>>

Serials == 0 .. MaxSerial

(* state: its existence.  uid: which Certificate of this name it is.        *)
(* bound: spec.secretLabels carries its UID.  ready: status is Ready for    *)
(* the current generation.                                                  *)
Certificates == [state : {"absent", "present", "deleting"},
                 uid : 0 .. MaxTurns + 1, bound : BOOLEAN, ready : BOOLEAN,
                 revoked : BOOLEAN]
(* uid: the Certificate UID label, 0 when it has none.                      *)
Sources == [serial : Serials, uid : 0 .. MaxTurns + 1]
Jobs == [state : {"none", "started", "written"}, bound : BOOLEAN,
         serial : Serials]
Workers == [pc : {"idle", "certificate", "create", "bind", "deliver",
                  "protect", "send", "publish", "clean", "stopIssuing",
                  "cleanSecrets", "cleanRemote"},
            clean : BOOLEAN, fresh : BOOLEAN, data : Serials]

TLSTypeOK ==
  /\ cert \in Certificates /\ source \in Sources /\ cSource \in Sources
  /\ last \in Serials /\ cLast \in Serials /\ dest \in Serials
  /\ job \in Jobs /\ issued \in Serials /\ expired \in Serials
  /\ want \in {"serve", "clean"} /\ live \in Serials
  /\ done \in BOOLEAN
  /\ w \in Workers
  /\ spent \in [turns : 0 .. MaxTurns, faults : 0 .. MaxFaults]

NoSource == [serial |-> 0, uid |-> 0]
NoCert(u) == [state |-> "absent", uid |-> u, bound |-> FALSE,
              ready |-> FALSE, revoked |-> FALSE]
NoJob == [state |-> "none", bound |-> FALSE, serial |-> 0]
Idle == [pc |-> "idle", clean |-> FALSE, fresh |-> FALSE, data |-> 0]

Exists(s) == s.serial # 0
Usable(n) == n > expired          \* validateBYOCTLSMaterial
Go(step) == w' = [w EXCEPT !.pc = step]

(* Every way a serving pass ends without a valid key pair withdraws the     *)
(* endpoint (the status writes of reconcileBYOC).                           *)
GiveUp ==
  /\ w' = Idle
  /\ live' = IF w.clean THEN live ELSE 0
  /\ UNCHANGED <<objects, views, done>>

(* The cache's view after source or last becomes x.                         *)
Seen(view, x) == IF CacheLag THEN view ELSE x

unchangedElsewhere == UNCHANGED <<job, issued, expired, want, spent>>

-----------------------------------------------------------------------------
(* reconcileBYOCManagedCertificate, also called by cleanup.                 *)

StartPass ==
  /\ w.pc = "idle" /\ ~(want = "clean" /\ done)
  /\ w' = [Idle EXCEPT !.clean = (want = "clean"),
             !.pc = IF want = "clean" THEN "clean" ELSE "certificate"]
  /\ live' = IF want = "clean" THEN 0 ELSE live
  /\ done' = FALSE
  /\ UNCHANGED <<objects, views>> /\ unchangedElsewhere

(* requireBYOCSourceSecret, and the one exception to it: the first issuance *)
(* before the UID label has been requested.                                 *)
Bound == cSource.uid = cert.uid
FirstIssuance == ~cert.bound /\ cSource.uid = 0

(* Mutant: the Certificate is created again until it is ready.              *)
RecreateCertificate ==
  /\ w.pc = "certificate"
  /\ Go(IF cert.ready THEN "deliver" ELSE "create")
  /\ UNCHANGED <<objects, views, done, live>> /\ unchangedElsewhere

ReconcileCertificate ==
  /\ w.pc = "certificate"
  /\ \/ /\ cert.state = "absent"
        /\ IF Exists(cSource) \/ cLast # 0 THEN GiveUp
           ELSE Go("create") /\ UNCHANGED <<objects, views, done, live>>
     \/ /\ cert.state = "deleting" /\ GiveUp
     \/ /\ cert.state = "present"
        /\ IF Exists(cSource) /\ ~Bound /\ ~FirstIssuance THEN GiveUp
           ELSE /\ w' = IF cert.bound /\ w.clean THEN Idle
                        ELSE [w EXCEPT !.fresh = TRUE, !.pc =
                                IF cert.bound THEN "deliver" ELSE "bind"]
                /\ UNCHANGED <<objects, views, done, live>>
  /\ unchangedElsewhere

(* Create answers with the assigned UID; the same call then goes on to add  *)
(* it to secretLabels, unless a Secret of the name shows up that is not the *)
(* first issuance.                                                          *)
CreateCertificate ==
  /\ w.pc = "create"
  /\ cert' = [NoCert(cert.uid + 1) EXCEPT !.state = "present"]
  /\ IF Exists(cSource) /\ cSource.uid # 0
     THEN w' = Idle /\ live' = 0
     ELSE w' = [w EXCEPT !.pc = "bind", !.fresh = TRUE] /\ UNCHANGED live
  /\ UNCHANGED <<source, last, views, dest, done>> /\ unchangedElsewhere

(* Mutant: the UID label is never requested.                                *)
BindNothing ==
  /\ w.pc = "bind"
  /\ IF w.clean THEN w' = Idle ELSE Go("deliver")
  /\ UNCHANGED <<objects, views, done, live>> /\ unchangedElsewhere

BindCertificate ==
  /\ w.pc = "bind"
  /\ IF ~w.fresh THEN GiveUp
     ELSE /\ cert' = [cert EXCEPT !.bound = TRUE, !.ready = FALSE]
          /\ IF w.clean THEN w' = Idle ELSE Go("deliver")
          /\ UNCHANGED <<source, last, views, dest, done, live>>
  /\ unchangedElsewhere

-----------------------------------------------------------------------------
(* reconcileBYOCTLSSecret.                                                  *)

(* The issued key pair if the Certificate is ready and the pair usable,     *)
(* otherwise the last valid one.                                            *)
Deliver ==
  /\ w.pc = "deliver"
  /\ LET fromSource == Exists(cSource) /\ cert.ready /\ Usable(cSource.serial)
     IN IF \/ cert.state # "present" \/ ~cert.bound \/ cert.revoked
           \/ Exists(cSource) /\ ~Bound
           \/ ~fromSource /\ (cLast = 0 \/ ~Usable(cLast))
        THEN GiveUp
        ELSE /\ w' = [w EXCEPT !.pc = IF fromSource THEN "protect" ELSE "send",
                        !.data = IF fromSource THEN cSource.serial ELSE cLast]
             /\ UNCHANGED <<objects, views, done, live>>
  /\ unchangedElsewhere

(* Mutant: the key pair is delivered without keeping a copy.                *)
SendUnprotected ==
  /\ w.pc = "protect"
  /\ Go("send")
  /\ UNCHANGED <<objects, views, done, live>> /\ unchangedElsewhere

(* writeBYOCTLSSecret on the last-valid Secret: a create or an update based *)
(* on an outdated copy is refused.                                          *)
ProtectCopy ==
  /\ w.pc = "protect"
  /\ IF cLast # w.data /\ cLast # last THEN GiveUp
     ELSE /\ last' = IF cLast = w.data THEN last ELSE w.data
          /\ cLast' = Seen(cLast, last')
          /\ Go("send")
          /\ UNCHANGED <<cert, source, cSource, dest, done, live>>
  /\ unchangedElsewhere

SendToCluster ==
  /\ w.pc = "send"
  /\ dest' = w.data
  /\ Go("publish")
  /\ UNCHANGED <<cert, source, last, views, done, live>> /\ unchangedElsewhere

(* The probe requires the endpoint to serve the delivered key pair.         *)
Publish ==
  /\ w.pc = "publish"
  /\ live' = w.data
  /\ w' = Idle
  /\ UNCHANGED <<objects, views, done>> /\ unchangedElsewhere

-----------------------------------------------------------------------------
(* cleanupBYOCManagedTLS and cleanupBYOCRemoteTLS.                          *)

(* Mutant: a Certificate being deleted counts as gone.                      *)
CleanupWithoutWaiting ==
  /\ w.pc = "clean"
  /\ w' = [w EXCEPT !.fresh = TRUE,
             !.pc = IF cert.state = "present" THEN "stopIssuing" ELSE "cleanSecrets"]
  /\ UNCHANGED <<objects, views, done, live>> /\ unchangedElsewhere

CleanupCertificate ==
  /\ w.pc = "clean"
  /\ w' = CASE cert.state = "absent" -> [w EXCEPT !.pc = "cleanSecrets"]
            [] cert.state = "deleting" -> Idle
            [] OTHER -> [w EXCEPT !.fresh = TRUE, !.pc =
                           IF Exists(cSource) /\ ~Bound
                           THEN "certificate" ELSE "stopIssuing"]
  /\ UNCHANGED <<objects, views, done, live>> /\ unchangedElsewhere

DeleteCertificate ==
  /\ w.pc = "stopIssuing"
  /\ cert' = IF w.fresh THEN [cert EXCEPT !.state = "deleting"] ELSE cert
  /\ w' = Idle
  /\ UNCHANGED <<source, last, views, dest, done, live>> /\ unchangedElsewhere

(* The Certificate is gone: its Secrets go as the cache shows them, each    *)
(* under a precondition on the version seen.  An issued Secret without the  *)
(* UID label cannot be told from a foreign one and stops the cleanup.       *)
CleanupSecrets ==
  /\ w.pc = "cleanSecrets"
  /\ \/ /\ Exists(cSource) /\ cSource.uid = 0
        /\ GiveUp
     \/ /\ Exists(cSource) => cSource.uid # 0
        /\ source' = IF cSource = source THEN NoSource ELSE source
        /\ last' = IF cLast = last /\ (Exists(cSource) => source' = NoSource)
                   THEN 0 ELSE last
        /\ cSource' = Seen(cSource, source') /\ cLast' = Seen(cLast, last')
        /\ IF Exists(cSource) \/ cLast # 0 THEN w' = Idle ELSE Go("cleanRemote")
        /\ UNCHANGED <<cert, dest, done, live>>
  /\ unchangedElsewhere

(* The delivered Secret is deleted and waited for; after that the caller    *)
(* forgets the target.                                                      *)
CleanupRemote ==
  /\ w.pc = "cleanRemote"
  /\ dest' = 0
  /\ done' = (dest = 0)
  /\ w' = Idle
  /\ UNCHANGED <<cert, source, last, views, live>> /\ unchangedElsewhere

Controller ==
  \/ StartPass \/ ReconcileCertificate \/ CreateCertificate \/ BindCertificate
  \/ Deliver \/ ProtectCopy \/ SendToCluster \/ Publish
  \/ CleanupCertificate \/ DeleteCertificate \/ CleanupSecrets \/ CleanupRemote

-----------------------------------------------------------------------------
(* cert-management (external): one reconciliation at a time, which takes    *)
(* the labels it will write when it starts and may still write the Secret   *)
(* after the Certificate has been marked for deletion.                      *)

unchangedByIssuer == UNCHANGED <<last, cLast, dest, expired, want, done, live>>

(* A label change keeps a usable key pair; renewal issues the next one.     *)
NextSerial(n) ==
  \/ ~cert.ready /\ Exists(source) /\ Usable(source.serial) /\ n = source.serial
  \/ n = issued + 1
  \/ n = MaxSerial /\ issued = MaxSerial /\ ~Exists(source)

StartIssuing ==
  /\ cert.state = "present" /\ job.state = "none"
  /\ \E n \in Serials \ {0} :
       /\ NextSerial(n)
       /\ job' = [state |-> "started", bound |-> cert.bound, serial |-> n]
  /\ cert' = [cert EXCEPT !.ready = FALSE]
  /\ w' = [w EXCEPT !.fresh = FALSE]
  /\ UNCHANGED <<source, cSource, issued, spent>> /\ unchangedByIssuer

WriteSource ==
  /\ job.state = "started"
  /\ source' = [serial |-> job.serial, uid |-> IF job.bound THEN cert.uid ELSE 0]
  /\ cSource' = Seen(cSource, source')
  /\ issued' = IF job.serial > issued THEN job.serial ELSE issued
  /\ job' = [job EXCEPT !.state = "written"]
  /\ UNCHANGED <<cert, w, spent>> /\ unchangedByIssuer

FinishIssuing ==
  /\ job.state = "written"
  /\ cert' = [cert EXCEPT !.ready = (cert.bound = job.bound)]
  /\ job' = NoJob
  /\ w' = [w EXCEPT !.fresh = FALSE]
  /\ UNCHANGED <<source, cSource, issued, spent>> /\ unchangedByIssuer

RemoveCertificate ==
  /\ cert.state = "deleting" /\ job.state = "none"
  /\ cert' = NoCert(cert.uid)
  /\ UNCHANGED <<source, cSource, job, issued, w, spent>> /\ unchangedByIssuer

SpendFault ==
  /\ spent.faults < MaxFaults
  /\ spent' = [spent EXCEPT !.faults = @ + 1]

IssuingFails ==
  /\ job.state = "started" /\ SpendFault
  /\ job' = NoJob
  /\ UNCHANGED <<cert, source, cSource, issued, w>> /\ unchangedByIssuer

Revoke ==
  /\ cert.state = "present" /\ ~cert.revoked /\ SpendFault
  /\ cert' = [cert EXCEPT !.revoked = TRUE]
  /\ w' = [w EXCEPT !.fresh = FALSE]
  /\ UNCHANGED <<source, cSource, job, issued>> /\ unchangedByIssuer

-----------------------------------------------------------------------------
(* Time, the caches, the wishes of the user, and failures.                  *)

Age ==
  /\ expired < issued /\ expired + 1 < MaxSerial
  /\ expired' = expired + 1
  /\ UNCHANGED <<objects, views, job, issued, want, done, live, w, spent>>

SyncSource ==
  /\ cSource # source
  /\ cSource' = source
  /\ UNCHANGED <<objects, cLast, done, live, w>> /\ unchangedElsewhere

SyncLast ==
  /\ cLast # last
  /\ cLast' = last
  /\ UNCHANGED <<objects, cSource, done, live, w>> /\ unchangedElsewhere

Turn ==
  /\ spent.turns < MaxTurns
  /\ spent' = [spent EXCEPT !.turns = @ + 1]
  /\ want' = IF want = "serve" THEN "clean" ELSE "serve"
  /\ UNCHANGED <<objects, views, job, issued, expired, done, live, w>>

Restart ==
  /\ w.pc # "idle" /\ SpendFault
  /\ w' = Idle
  /\ UNCHANGED <<objects, views, job, issued, expired, want, done, live>>

CallFails ==
  /\ w.pc # "idle" /\ SpendFault
  /\ GiveUp
  /\ UNCHANGED <<job, issued, expired, want>>

Issuer == StartIssuing \/ WriteSource \/ FinishIssuing \/ RemoveCertificate

Environment ==
  \/ Issuer \/ IssuingFails \/ Revoke \/ Age
  \/ SyncSource \/ SyncLast \/ Turn \/ Restart \/ CallFails

Init ==
  /\ cert = NoCert(0) /\ source = NoSource /\ cSource = NoSource
  /\ last = 0 /\ cLast = 0 /\ dest = 0
  /\ job = NoJob /\ issued = 0 /\ expired = 0
  /\ want = "serve" /\ done = FALSE /\ live = 0
  /\ w = Idle /\ spent = [turns |-> 0, faults |-> 0]

Next == Controller \/ Environment

Spec == Init /\ [][Next]_vars

(* Passes are repeated after every error and every 30 seconds; caches catch *)
(* up; cert-management issues and finalizes.                                *)
Fairness ==
  /\ WF_vars(Controller) /\ WF_vars(SyncSource) /\ WF_vars(SyncLast)
  /\ WF_vars(Issuer)

FairSpec == Spec /\ Fairness

-----------------------------------------------------------------------------
(* Properties.                                                              *)

(* When the cleanup has been reported, and the instance therefore forgets   *)
(* the target, issuance is over: the Certificate is gone, no issuance that  *)
(* was under way can write its Secret again, and nothing is left on the     *)
(* customer cluster.                                                        *)
CleanupEndsIssuance ==
  done /\ want = "clean" =>
    cert.state = "absent" /\ job.state = "none" /\ dest = 0

(* "It waits for Certificate and Secret deletion as well": then no issued   *)
(* or copied key pair is left either.  cleanupBYOCManagedTLS looks for the  *)
(* Secrets in a cache, so this holds only if the cache does not lag.        *)
CleanupIsComplete ==
  done /\ want = "clean" =>
    /\ cert.state = "absent" /\ job.state = "none" /\ dest = 0
    /\ ~Exists(source) /\ last = 0

(* "A protected MSP cache retains a valid serving pair during issuance      *)
(* failures": no key pair reaches the customer cluster before the           *)
(* last-valid Secret holds it or a newer one.                               *)
ProtectedBeforeSent ==
  [][dest' # dest /\ dest' # 0 /\ cert.state = "present" => last >= dest']_vars

(* What a proof of these needs to know.                                     *)

(* A Certificate is created only while a target is wanted, and deleted only *)
(* by a pass that started to clean: there is at most one for every turn.    *)
TurnInv ==
  /\ cert.uid <= spent.turns + 1
  /\ cert.state # "present" \/ want = "clean" \/ (w.pc # "idle" /\ w.clean) =>
       cert.uid <= spent.turns
  /\ cert.state # "present" /\ want = "clean" /\ w.pc # "idle" /\ ~w.clean =>
       cert.uid < spent.turns
  /\ w.pc = "create" => ~w.clean /\ cert.state = "absent"
  /\ w.pc \in {"clean", "stopIssuing"} => w.clean
  /\ w.pc = "stopIssuing" \/ (w.pc = "certificate" /\ w.clean) =>
       cert.state = "present"

(* Nothing is issued for a Certificate that is gone, and from the moment    *)
(* the cleanup finds it gone it stays so until the next pass begins.  With  *)
(* a cache that does not lag, its Secrets are gone, too.                    *)
Synced == CacheLag \/ (cSource = source /\ cLast = last)
Emptied == CacheLag \/ (~Exists(source) /\ last = 0)

GoneInv ==
  /\ cert.state = "absent" => job.state = "none"
  /\ w.pc \in {"cleanSecrets", "cleanRemote"} => cert.state = "absent"
  /\ w.pc = "cleanRemote" => Emptied
  /\ done => w.pc = "idle" /\ cert.state = "absent" /\ dest = 0 /\ Emptied

(* The newest key pair that is kept or about to be.                         *)
Newest == IF w.pc = "protect" THEN w.data ELSE last

(* It is no newer than the one in any view of the issued Secret, and what   *)
(* is issued next is no older; while there is a Certificate the cache shows *)
(* no copy newer than the one that is kept.                                 *)
SerialInv ==
  /\ source.serial <= issued /\ cSource.serial <= issued
  /\ last <= Newest /\ Newest <= issued
  /\ Exists(source) => Newest <= source.serial /\ cSource.serial <= source.serial
  /\ Exists(cSource) => Newest <= cSource.serial
  /\ job.state = "started" =>
       /\ Newest <= job.serial
       /\ source.serial <= job.serial /\ cSource.serial <= job.serial
  /\ cert.state # "absent" \/ w.pc = "create" => cLast <= last
  /\ w.pc = "send" /\ cert.state = "present" => w.data <= last

(* These together are inductive: the Certificate UIDs stay in bounds, a     *)
(* cleanup that reports success has ended issuance, and a key pair about to *)
(* be sent is protected.                                                    *)
TLSInv == TLSTypeOK /\ TurnInv /\ GoneInv /\ SerialInv /\ Synced

(* "It lets a deletion retry identify and remove the source after the       *)
(* Certificate is gone, including when deletion races the first issuance":  *)
(* an issued Secret that outlives its Certificate carries the UID label.    *)
SourceIdentifiable ==
  cert.state = "absent" /\ Exists(source) => source.uid # 0

(* Where the code stops for an operator to step in: an issued Secret it     *)
(* cannot identify, or, after a cleanup that was called off half way,       *)
(* Secrets that occupy the names a new Certificate would write.             *)
Unidentifiable == cert.state = "absent" /\ Exists(source) /\ source.uid = 0
Occupied == cert.state = "absent" /\ (Exists(source) \/ last # 0)

TLSSettled ==
  \/ want = "clean" /\ (done \/ Unidentifiable)
  \/ want = "serve" /\ live = 0 /\ (cert.revoked \/ Occupied)
  \/ want = "serve" /\ live = source.serial /\ dest = live /\ last = live
       /\ Usable(live)

(* Issuance, renewal, expiry and failures of either side end with the       *)
(* newest key pair delivered, kept and advertised, or with everything       *)
(* removed, except where the code stops for an operator.                    *)
TLSConverges == <>[]TLSSettled

=============================================================================
