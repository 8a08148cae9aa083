---------------------------- MODULE ByocTLSProofs ----------------------------
(* Proofs about ByocTLS: what a finished cleanup has left behind, and that   *)
(* no key pair is sent to a customer cluster before it is protected.         *)
EXTENDS ByocTLS, TLAPS

-----------------------------------------------------------------------------
(* Types.                                                                    *)

(* The fields of the records, with the numbers among them as numbers.        *)
LEMMA Fields ==
  ASSUME TLSTypeOK
  PROVE  /\ cert.uid \in Nat /\ spent.turns \in Nat
         /\ source.serial \in Nat /\ cSource.serial \in Nat /\ job.serial \in Nat
         /\ last \in Nat /\ cLast \in Nat /\ issued \in Nat /\ expired \in Nat
         /\ w.data \in Nat
<1>1. cert.uid \in Nat /\ spent.turns \in Nat
  BY TLSAssumption DEF TLSTypeOK, Certificates
<1>2. source.serial \in Nat /\ cSource.serial \in Nat
  BY TLSAssumption DEF TLSTypeOK, Sources, Serials
<1>3. job.serial \in Nat /\ w.data \in Nat
  BY TLSAssumption DEF TLSTypeOK, Jobs, Workers, Serials
<1>4. last \in Nat /\ cLast \in Nat /\ issued \in Nat /\ expired \in Nat
  BY TLSAssumption DEF TLSTypeOK, Serials
<1> QED
  BY <1>1, <1>2, <1>3, <1>4

(* A view shows the old value or the new one.                                *)
LEMMA Views ==
  ASSUME NEW a, NEW b
  PROVE  Seen(a, b) \in {a, b}
BY DEF Seen

(* The values that the steps write are of their types.                       *)
LEMMA Values ==
  /\ NoSource \in Sources /\ NoJob \in Jobs /\ Idle \in Workers
  /\ 0 \in Serials /\ \A n \in Serials : n \in Nat /\ n <= MaxSerial
  /\ \A u \in 0 .. MaxTurns + 1 : NoCert(u) \in Certificates
BY TLSAssumption
   DEF NoSource, Sources, NoJob, Jobs, Idle, Workers, Serials, NoCert, Certificates

(* Every step of the worker leaves it a worker.                              *)
LEMMA Moves ==
  ASSUME TLSTypeOK,
         NEW p \in {"idle", "certificate", "create", "bind", "deliver",
                    "protect", "send", "publish", "clean", "stopIssuing",
                    "cleanSecrets", "cleanRemote"},
         NEW f \in BOOLEAN, NEW n \in Serials
  PROVE  /\ [w EXCEPT !.pc = p] \in Workers
         /\ [w EXCEPT !.fresh = f] \in Workers
         /\ [w EXCEPT !.fresh = f, !.pc = p] \in Workers
         /\ [w EXCEPT !.pc = p, !.fresh = f] \in Workers
         /\ [w EXCEPT !.pc = p, !.data = n] \in Workers
         /\ [Idle EXCEPT !.clean = f, !.pc = p] \in Workers
<1> DEFINE P == {"idle", "certificate", "create", "bind", "deliver",
                 "protect", "send", "publish", "clean", "stopIssuing",
                 "cleanSecrets", "cleanRemote"}
           W == [pc : P, clean : BOOLEAN, fresh : BOOLEAN, data : Serials]
<1>1. Workers = W /\ w \in W /\ p \in P /\ Idle \in W
  BY Values, ZenonT(30) DEF TLSTypeOK, Workers
<1> HIDE DEF P
<1>2. [w EXCEPT !.pc = p] \in W
  BY <1>1
<1>3. [w EXCEPT !.fresh = f] \in W
  BY <1>1
<1>4. [w EXCEPT !.fresh = f, !.pc = p] \in W
  BY <1>1, ZenonT(30)
<1>5. [w EXCEPT !.pc = p, !.fresh = f] \in W
  BY <1>1, ZenonT(30)
<1>6. [w EXCEPT !.pc = p, !.data = n] \in W
  BY <1>1, ZenonT(30)
<1>7. [Idle EXCEPT !.clean = f, !.pc = p] \in W
  BY <1>1, ZenonT(30)
<1> HIDE DEF W
<1> QED
  BY <1>1, <1>2, <1>3, <1>4, <1>5, <1>6, <1>7, ZenonT(30)

(* And so does every change of the Certificate that leaves it its name.      *)
LEMMA Marks ==
  ASSUME TLSTypeOK, NEW b \in BOOLEAN, NEW c \in BOOLEAN
  PROVE  /\ [cert EXCEPT !.bound = b, !.ready = c] \in Certificates
         /\ [cert EXCEPT !.ready = b] \in Certificates
         /\ [cert EXCEPT !.revoked = b] \in Certificates
         /\ [cert EXCEPT !.state = "deleting"] \in Certificates
BY ZenonT(30) DEF TLSTypeOK, Certificates

(* A step of the controller keeps the types; the number of Certificates is   *)
(* within its bound because one is created only where there is none.         *)
LEMMA ControllerTypes ==
  ASSUME TLSInv, Controller
  PROVE  TLSTypeOK'
<1> USE Values
<1>0. TLSTypeOK
  BY DEF TLSInv
<1>1. unchangedElsewhere
  BY ZenonT(30) DEF Controller, StartPass, ReconcileCertificate, CreateCertificate,
     BindCertificate, Deliver, ProtectCopy, SendToCluster, Publish,
     CleanupCertificate, DeleteCertificate, CleanupSecrets, CleanupRemote
<1>2. /\ job' \in Jobs /\ issued' \in Serials /\ expired' \in Serials
      /\ want' \in {"serve", "clean"}
      /\ spent' \in [turns : 0 .. MaxTurns, faults : 0 .. MaxFaults]
  BY <1>0, <1>1, ZenonT(30) DEF TLSTypeOK, unchangedElsewhere
<1> DEFINE Rest == /\ cert' \in Certificates /\ source' \in Sources
                   /\ cSource' \in Sources
                   /\ last' \in Serials /\ cLast' \in Serials /\ dest' \in Serials
                   /\ live' \in Serials /\ done' \in BOOLEAN
                   /\ w' \in Workers
           Same == /\ cert \in Certificates /\ source \in Sources
                   /\ cSource \in Sources
                   /\ last \in Serials /\ cLast \in Serials /\ dest \in Serials
                   /\ live \in Serials /\ done \in BOOLEAN
                   /\ w \in Workers
<1>3. Same
  BY <1>0, ZenonT(30) DEF TLSTypeOK
<1>4. /\ w.clean \in BOOLEAN /\ cSource.serial \in Serials /\ w.data \in Serials
  BY <1>3 DEF Workers, Sources
<1>5. ASSUME GiveUp PROVE Rest
  BY <1>3, <1>5, ZenonT(30) DEF GiveUp, objects, views
<1>6. ASSUME UNCHANGED <<objects, views, done, live>>, w' \in Workers
      PROVE  Rest
  BY <1>3, <1>6, ZenonT(30) DEF objects, views
<1> SUFFICES Rest
  BY <1>2, ZenonT(30) DEF TLSTypeOK
<1>7. CASE StartPass
  <2>1. w' \in Workers
    BY <1>0, <1>7, Moves, ZenonT(30) DEF StartPass
  <2> QED
    BY <1>3, <1>7, <2>1, ZenonT(30) DEF StartPass, objects, views
<1>8. CASE ReconcileCertificate
  <2>1. CASE GiveUp
    BY <1>5, <2>1
  <2>2. CASE ~GiveUp
    <3>1. UNCHANGED <<objects, views, done, live>>
      BY <1>8, <2>2, ZenonT(30) DEF ReconcileCertificate
    <3>2. \/ Go("create")
          \/ w' = Idle
          \/ w' = [w EXCEPT !.fresh = TRUE, !.pc = "deliver"]
          \/ w' = [w EXCEPT !.fresh = TRUE, !.pc = "bind"]
      BY <1>8, <2>2, ZenonT(30) DEF ReconcileCertificate
    <3>3. w' \in Workers
      BY <1>0, <3>2, Moves, ZenonT(30) DEF Go
    <3> QED
      BY <1>6, <3>1, <3>3
  <2> QED
    BY <2>1, <2>2
<1>9. CASE CreateCertificate
  <2>1. cert.uid + 1 \in 0 .. MaxTurns + 1
    <3>1. w.pc = "create" /\ cert.state = "absent" /\ cert.uid <= spent.turns
      BY <1>9, ZenonT(30) DEF CreateCertificate, TLSInv, TurnInv
    <3>2. spent.turns \in 0 .. MaxTurns
      BY <1>0 DEF TLSTypeOK
    <3> QED
      BY <1>0, <3>1, <3>2, Fields, TLSAssumption
  <2>2. cert' \in Certificates
    <3>1. NoCert(cert.uid + 1) \in Certificates
      BY <2>1
    <3> QED
      BY <1>9, <3>1 DEF CreateCertificate, Certificates
  <2>3. w' = Idle \/ w' = [w EXCEPT !.pc = "bind", !.fresh = TRUE]
    BY <1>9, ZenonT(30) DEF CreateCertificate
  <2>4. w' \in Workers
    BY <1>0, <2>3, Moves, ZenonT(30)
  <2>5. live' = 0 \/ live' = live
    BY <1>9, ZenonT(30) DEF CreateCertificate
  <2> QED
    BY <1>3, <1>9, <2>2, <2>4, <2>5, ZenonT(30) DEF CreateCertificate, views
<1>10. CASE BindCertificate
  <2>1. CASE GiveUp
    BY <1>5, <2>1
  <2>2. CASE ~GiveUp
    <3>1. /\ cert' = [cert EXCEPT !.bound = TRUE, !.ready = FALSE]
          /\ w' = Idle \/ Go("deliver")
          /\ UNCHANGED <<source, last, views, dest, done, live>>
      BY <1>10, <2>2, ZenonT(30) DEF BindCertificate
    <3>2. w' \in Workers
      BY <1>0, <3>1, Moves, ZenonT(30) DEF Go
    <3>3. cert' \in Certificates
      BY <1>0, <3>1, Marks, ZenonT(30)
    <3> QED
      BY <1>3, <3>1, <3>2, <3>3, ZenonT(30) DEF views
  <2> QED
    BY <2>1, <2>2
<1>11. CASE Deliver
  <2>1. CASE GiveUp
    BY <1>5, <2>1
  <2>2. CASE ~GiveUp
    <3>1. /\ UNCHANGED <<objects, views, done, live>>
          /\ \E p \in {"protect", "send"}, n \in {cSource.serial, cLast} :
               w' = [w EXCEPT !.pc = p, !.data = n]
      BY <1>11, <2>2, ZenonT(30) DEF Deliver
    <3>2. PICK p \in {"protect", "send"}, n \in {cSource.serial, cLast} :
            w' = [w EXCEPT !.pc = p, !.data = n]
      BY <3>1, ZenonT(30)
    <3>3. n \in Serials
      BY <1>3, <1>4, ZenonT(30)
    <3>4. w' \in Workers
      BY <1>0, <3>2, <3>3, Moves, ZenonT(30)
    <3> QED
      BY <1>6, <3>1, <3>4
  <2> QED
    BY <2>1, <2>2
<1>12. CASE ProtectCopy
  <2>1. CASE GiveUp
    BY <1>5, <2>1
  <2>2. CASE ~GiveUp
    <3>1. /\ last' = last \/ last' = w.data
          /\ cLast' = Seen(cLast, last')
          /\ Go("send")
          /\ UNCHANGED <<cert, source, cSource, dest, done, live>>
      BY <1>12, <2>2, ZenonT(30) DEF ProtectCopy
    <3>2. w' \in Workers
      BY <1>0, <3>1, Moves, ZenonT(30) DEF Go
    <3>3. last' \in Serials
      BY <1>3, <1>4, <3>1, ZenonT(30)
    <3>4. cLast' \in Serials
      BY <1>3, <3>1, <3>3, Views, ZenonT(30)
    <3> QED
      BY <1>3, <3>1, <3>2, <3>3, <3>4, ZenonT(30)
  <2> QED
    BY <2>1, <2>2
<1>13. CASE SendToCluster
  <2>1. w' \in Workers
    BY <1>0, <1>13, Moves, ZenonT(30) DEF SendToCluster, Go
  <2> QED
    BY <1>3, <1>4, <1>13, <2>1, ZenonT(30) DEF SendToCluster, views
<1>14. CASE Publish
  BY <1>3, <1>4, <1>14, ZenonT(30) DEF Publish, objects, views
<1>15. CASE CleanupCertificate
  <2>1. \/ w' = Idle
        \/ \E p \in {"cleanSecrets", "certificate", "stopIssuing"} :
             w' = [w EXCEPT !.pc = p] \/ w' = [w EXCEPT !.fresh = TRUE, !.pc = p]
    BY <1>15, ZenonT(30) DEF CleanupCertificate
  <2>2. w' \in Workers
    BY <1>0, <2>1, Moves, ZenonT(30)
  <2>3. UNCHANGED <<objects, views, done, live>>
    BY <1>15, ZenonT(30) DEF CleanupCertificate
  <2> QED
    BY <1>6, <2>2, <2>3
<1>16. CASE DeleteCertificate
  <2>1. cert' = cert \/ cert' = [cert EXCEPT !.state = "deleting"]
    BY <1>16, ZenonT(30) DEF DeleteCertificate
  <2>2. cert' \in Certificates
    BY <1>0, <1>3, <2>1, Marks, ZenonT(30)
  <2> QED
    BY <1>3, <1>16, <2>2, ZenonT(30) DEF DeleteCertificate, views
<1>17. CASE CleanupSecrets
  <2>1. CASE GiveUp
    BY <1>5, <2>1
  <2>2. CASE ~GiveUp
    <3>1. /\ source' = NoSource \/ source' = source
          /\ last' = 0 \/ last' = last
          /\ cSource' = Seen(cSource, source') /\ cLast' = Seen(cLast, last')
          /\ w' = Idle \/ Go("cleanRemote")
          /\ UNCHANGED <<cert, dest, done, live>>
      BY <1>17, <2>2, ZenonT(30) DEF CleanupSecrets
    <3>2. w' \in Workers
      BY <1>0, <3>1, Moves, ZenonT(30) DEF Go
    <3>3. source' \in Sources /\ last' \in Serials
      BY <1>3, <3>1, ZenonT(30)
    <3>4. cSource' \in Sources /\ cLast' \in Serials
      BY <1>3, <3>1, <3>3, Views, ZenonT(30)
    <3> QED
      BY <1>3, <3>1, <3>2, <3>3, <3>4, ZenonT(30)
  <2> QED
    BY <2>1, <2>2
<1>18. CASE CleanupRemote
  <2>1. done' \in BOOLEAN
    BY <1>18 DEF CleanupRemote
  <2> QED
    BY <1>3, <1>18, <2>1, ZenonT(30) DEF CleanupRemote, views
<1> QED
  BY <1>7, <1>8, <1>9, <1>10, <1>11, <1>12, <1>13, <1>14, <1>15, <1>16, <1>17,
     <1>18, ZenonT(30) DEF Controller

(* A step of cert-management, of time, of the caches or of the user, and a   *)
(* failure, keep the types.                                                  *)
LEMMA EnvironmentTypes ==
  ASSUME TLSTypeOK, Environment
  PROVE  TLSTypeOK'
<1> USE Values
<1> DEFINE Same == /\ cert \in Certificates /\ source \in Sources
                   /\ cSource \in Sources
                   /\ last \in Serials /\ cLast \in Serials /\ dest \in Serials
                   /\ job \in Jobs /\ issued \in Serials /\ expired \in Serials
                   /\ want \in {"serve", "clean"} /\ live \in Serials
                   /\ done \in BOOLEAN
                   /\ w \in Workers
                   /\ spent \in [turns : 0 .. MaxTurns, faults : 0 .. MaxFaults]
<1>1. Same
  BY ZenonT(30) DEF TLSTypeOK
<1>2. [w EXCEPT !.fresh = FALSE] \in Workers
  BY <1>1, Moves, ZenonT(30)
<1>3. ASSUME SpendFault
      PROVE  spent' \in [turns : 0 .. MaxTurns, faults : 0 .. MaxFaults]
  BY <1>1, <1>3, TLSAssumption DEF SpendFault
<1>4. cert.uid \in 0 .. MaxTurns + 1 /\ job.serial \in Serials /\ job.bound \in BOOLEAN
  BY <1>1 DEF Certificates, Jobs
<1>5. CASE StartIssuing
  <2>1. PICK n \in Serials :
          job' = [state |-> "started", bound |-> cert.bound, serial |-> n]
    BY <1>5, ZenonT(30) DEF StartIssuing
  <2>2. job' \in Jobs
    BY <1>1, <2>1 DEF Jobs, Certificates
  <2>3. cert' \in Certificates
    BY <1>5, Marks, ZenonT(30) DEF StartIssuing
  <2> QED
    BY <1>1, <1>2, <1>5, <2>2, <2>3, ZenonT(30)
       DEF StartIssuing, unchangedByIssuer, TLSTypeOK
<1>6. CASE WriteSource
  <2>1. source' \in Sources
    <3>1. 0 \in 0 .. MaxTurns + 1
      BY TLSAssumption
    <3> DEFINE u == IF job.bound THEN cert.uid ELSE 0
    <3>2. u \in 0 .. MaxTurns + 1
      BY <1>4, <3>1, ZenonT(30)
    <3>3. source' = [serial |-> job.serial, uid |-> u]
      BY <1>6, ZenonT(30) DEF WriteSource
    <3> HIDE DEF u
    <3> QED
      BY <1>4, <3>2, <3>3 DEF Sources
  <2>2. cSource' \in Sources
    BY <1>1, <1>6, <2>1, Views, ZenonT(30) DEF WriteSource
  <2>3. job' \in Jobs
    BY <1>1, <1>6 DEF WriteSource, Jobs
  <2>4. issued' \in Serials
    BY <1>1, <1>4, <1>6, ZenonT(30) DEF WriteSource
  <2> QED
    BY <1>1, <1>6, <2>1, <2>2, <2>3, <2>4, ZenonT(30)
       DEF WriteSource, unchangedByIssuer, TLSTypeOK
<1>7. CASE FinishIssuing
  <2>1. cert' \in Certificates
    <3>1. (cert.bound = job.bound) \in BOOLEAN
      OBVIOUS
    <3> QED
      BY <1>7, <3>1, Marks, ZenonT(30) DEF FinishIssuing
  <2> QED
    BY <1>1, <1>2, <1>7, <2>1, ZenonT(30)
       DEF FinishIssuing, unchangedByIssuer, TLSTypeOK
<1>8. CASE RemoveCertificate
  BY <1>1, <1>4, <1>8, ZenonT(30) DEF RemoveCertificate, unchangedByIssuer, TLSTypeOK
<1>9. CASE IssuingFails
  BY <1>1, <1>3, <1>9, ZenonT(30) DEF IssuingFails, unchangedByIssuer, TLSTypeOK
<1>10. CASE Revoke
  <2>1. cert' \in Certificates
    BY <1>10, Marks, ZenonT(30) DEF Revoke
  <2> QED
    BY <1>1, <1>2, <1>3, <1>10, <2>1, ZenonT(30) DEF Revoke, unchangedByIssuer, TLSTypeOK
<1>11. CASE Age
  <2>1. expired' \in Serials
    BY <1>1, <1>11, TLSAssumption DEF Age, Serials
  <2> QED
    BY <1>1, <1>11, <2>1, ZenonT(30) DEF Age, objects, views, TLSTypeOK
<1>12. CASE SyncSource
  BY <1>1, <1>12, ZenonT(30) DEF SyncSource, objects, unchangedElsewhere, TLSTypeOK
<1>13. CASE SyncLast
  BY <1>1, <1>13, ZenonT(30) DEF SyncLast, objects, unchangedElsewhere, TLSTypeOK
<1>14. CASE Turn
  <2>1. spent' \in [turns : 0 .. MaxTurns, faults : 0 .. MaxFaults]
    BY <1>1, <1>14, TLSAssumption DEF Turn
  <2>2. want' \in {"serve", "clean"}
    BY <1>14 DEF Turn
  <2> QED
    BY <1>1, <1>14, <2>1, <2>2, ZenonT(30) DEF Turn, objects, views, TLSTypeOK
<1>15. CASE Restart
  BY <1>1, <1>3, <1>15, ZenonT(30) DEF Restart, objects, views, TLSTypeOK
<1>16. CASE CallFails
  BY <1>1, <1>3, <1>16, ZenonT(30) DEF CallFails, GiveUp, objects, views, TLSTypeOK
<1> QED
  BY <1>5, <1>6, <1>7, <1>8, <1>9, <1>10, <1>11, <1>12, <1>13, <1>14, <1>15,
     <1>16, ZenonT(30) DEF Environment, Issuer

-----------------------------------------------------------------------------
(* The steps.                                                                *)

(* Where the worker may go without having found anything out.                *)
Free == {"idle", "bind", "deliver", "publish"}

(* A step that leaves the objects and what the cache shows of them as they   *)
(* are, ends an issuance at most, and takes the worker nowhere special.      *)
LEMMA Undisturbed ==
  ASSUME TLSInv,
         UNCHANGED <<source, last, cSource, cLast, dest, issued, want, done>>,
         cert'.state = cert.state, cert'.uid = cert.uid,
         spent'.turns = spent.turns,
         job' = job \/ job'.state = "none",
         \/ w'.pc = w.pc /\ w'.clean = w.clean /\ w'.data = w.data
         \/ w'.pc = "idle"
         \/ w.pc # "idle" /\ w'.clean = w.clean /\ w'.pc \in Free
  PROVE  TurnInv' /\ GoneInv' /\ SerialInv'
<1>1. TurnInv /\ GoneInv /\ SerialInv
  BY DEF TLSInv
<1>2. /\ last \in Nat /\ issued \in Nat /\ source.serial \in Nat
      /\ cSource.serial \in Nat /\ w.data \in Nat /\ job.serial \in Nat
  BY Fields, ZenonT(30) DEF TLSInv
<1>3. TurnInv'
  <2>1. w'.pc # "idle" => w.pc # "idle" /\ w'.clean = w.clean
    BY DEF Free
  <2>2. w'.pc \in {"create", "certificate", "clean", "stopIssuing"} => w'.pc = w.pc
    BY DEF Free
  <2> QED
    BY <1>1, <2>1, <2>2, ZenonT(30) DEF TurnInv
<1>4. GoneInv'
  <2>1. w'.pc \in {"cleanSecrets", "cleanRemote"} => w'.pc = w.pc
    BY DEF Free
  <2>2. w.pc = "idle" => w'.pc = "idle"
    OBVIOUS
  <2>3. Emptied' = Emptied
    BY DEF Emptied, Exists
  <2> QED
    BY <1>1, <2>1, <2>2, <2>3, ZenonT(30) DEF GoneInv
<1>5. SerialInv'
  <2>1. w'.pc \in {"create", "send", "protect"} => w'.pc = w.pc /\ w'.data = w.data
    BY DEF Free
  <2>2. Newest' \in {Newest, last} /\ last <= Newest' /\ Newest' <= Newest
    BY <1>1, <1>2, <2>1 DEF Newest, SerialInv
  <2>3. Newest' \in Nat /\ Newest \in Nat
    BY <1>2, <2>2 DEF Newest
  <2>4. Exists(source)' = Exists(source) /\ Exists(cSource)' = Exists(cSource)
    BY DEF Exists
  <2>5. job'.state = "started" => job.state = "started" /\ job'.serial = job.serial
    OBVIOUS
  <2>6. ASSUME NEW n \in Nat, Newest <= n PROVE Newest' <= n
    BY <2>2, <2>3, <2>6
  <2> QED
    BY <1>1, <1>2, <2>1, <2>2, <2>4, <2>5, <2>6, ZenonT(30) DEF SerialInv
<1> QED
  BY <1>3, <1>4, <1>5

(* A step that touches only the worker.                                      *)
LEMMA Elsewhere ==
  ASSUME TLSInv, UNCHANGED <<objects, views, done>>, unchangedElsewhere,
         \/ w'.pc = w.pc /\ w'.clean = w.clean /\ w'.data = w.data
         \/ w'.pc = "idle"
         \/ w.pc # "idle" /\ w'.clean = w.clean /\ w'.pc \in Free
  PROVE  TurnInv' /\ GoneInv' /\ SerialInv'
BY Undisturbed DEF objects, views, unchangedElsewhere

(* Giving up leaves everything as it is.                                     *)
LEMMA GiveUpKeeps ==
  ASSUME TLSInv, GiveUp, unchangedElsewhere
  PROVE  TurnInv' /\ GoneInv' /\ SerialInv'
<1>1. w'.pc = "idle"
  BY DEF GiveUp, Idle
<1> QED
  BY <1>1, Elsewhere, ZenonT(30) DEF GiveUp

(* The fields of a worker that has taken a step.                             *)
LEMMA Went ==
  ASSUME w \in Workers, NEW p, Go(p) \/ w' = [w EXCEPT !.fresh = TRUE, !.pc = p]
  PROVE  w'.pc = p /\ w'.clean = w.clean /\ w'.data = w.data
BY ZenonT(30) DEF Go, Workers

(* A pass begins, and forgets an earlier report of success.                  *)
LEMMA StartPassKeeps ==
  ASSUME TLSInv, StartPass
  PROVE  TurnInv' /\ GoneInv' /\ SerialInv'
<1>1. TurnInv /\ GoneInv /\ SerialInv
  BY DEF TLSInv
<1>2. /\ want = "clean" => w'.pc = "clean" /\ w'.clean = TRUE
      /\ want # "clean" => w'.pc = "certificate" /\ w'.clean = FALSE
  BY ZenonT(30) DEF StartPass, Idle
<1>3. w'.pc \in {"clean", "certificate"} /\ w.pc = "idle"
  BY <1>2 DEF StartPass
<1>4. /\ done' = FALSE
      /\ UNCHANGED <<cert, source, last, dest, cSource, cLast, job, issued, want, spent>>
  BY ZenonT(30) DEF StartPass, objects, views, unchangedElsewhere
<1>5. TurnInv'
  BY <1>1, <1>2, <1>4 DEF TurnInv
<1>6. GoneInv'
  BY <1>1, <1>3, <1>4 DEF GoneInv
<1>7. SerialInv'
  <2>1. Newest = last /\ Newest' = last
    BY <1>3, <1>4 DEF Newest
  <2> QED
    BY <1>1, <1>3, <1>4, <2>1 DEF SerialInv, Exists
<1> QED
  BY <1>5, <1>6, <1>7

(* One is asked for only where there is none and no copy is in sight.        *)
LEMMA ReconcileCertificateKeeps ==
  ASSUME TLSInv, ReconcileCertificate
  PROVE  TurnInv' /\ GoneInv' /\ SerialInv'
<1>1. TurnInv /\ GoneInv /\ SerialInv /\ w \in Workers
  BY DEF TLSInv, TLSTypeOK
<1>2. unchangedElsewhere /\ w.pc = "certificate"
  BY ZenonT(30) DEF ReconcileCertificate
<1>3. CASE GiveUp
  BY <1>2, <1>3, GiveUpKeeps
<1>4. CASE ~GiveUp /\ cert.state = "absent"
  <2>1. /\ cLast = 0 /\ Go("create")
        /\ UNCHANGED <<objects, views, done, live>>
    BY <1>4, ZenonT(30) DEF ReconcileCertificate
  <2>2. w'.pc = "create" /\ w'.clean = w.clean
    BY <1>1, <2>1, Went, ZenonT(30)
  <2>3. UNCHANGED <<cert, source, last, dest, cSource, cLast, job, issued, want, done, spent>>
    BY <1>2, <2>1, ZenonT(30) DEF objects, views, unchangedElsewhere
  <2>4. ~w.clean
    BY <1>1, <1>2, <1>4 DEF TurnInv
  <2>5. TurnInv'
    BY <1>1, <1>2, <1>4, <2>2, <2>3, <2>4 DEF TurnInv
  <2>6. GoneInv'
    BY <1>1, <1>2, <2>2, <2>3 DEF GoneInv, Emptied
  <2>7. SerialInv'
    <3>1. Newest = last /\ Newest' = last
      BY <1>2, <2>2, <2>3 DEF Newest
    <3>2. cLast <= last
      BY <2>1, Fields DEF TLSInv
    <3> QED
      BY <1>1, <2>2, <2>3, <3>1, <3>2 DEF SerialInv, Exists
  <2> QED
    BY <2>5, <2>6, <2>7
<1>5. CASE ~GiveUp /\ cert.state # "absent"
  <2>1. /\ UNCHANGED <<objects, views, done, live>>
        /\ \/ w' = Idle
           \/ w' = [w EXCEPT !.fresh = TRUE, !.pc = "deliver"]
           \/ w' = [w EXCEPT !.fresh = TRUE, !.pc = "bind"]
    BY <1>5, ZenonT(30) DEF ReconcileCertificate
  <2>2. w'.pc = "idle" \/ (w'.clean = w.clean /\ w'.pc \in Free)
    <3>1. Idle.pc = "idle" /\ "deliver" \in Free /\ "bind" \in Free
      BY DEF Idle, Free
    <3> QED
      BY <1>1, <2>1, <3>1, Went, ZenonT(30)
  <2>3. w.pc # "idle"
    BY <1>2
  <2> QED
    BY <1>2, <2>1, <2>2, <2>3, Elsewhere, ZenonT(30)
<1> QED
  BY <1>3, <1>4, <1>5

(* A new Certificate has the next UID, which a turn has paid for.            *)
LEMMA CreateCertificateKeeps ==
  ASSUME TLSInv, CreateCertificate
  PROVE  TurnInv' /\ GoneInv' /\ SerialInv'
<1>1. TurnInv /\ GoneInv /\ SerialInv /\ w \in Workers
  BY DEF TLSInv, TLSTypeOK
<1>2. cert'.state = "present" /\ cert'.uid = cert.uid + 1
  <2>1. cert' = [NoCert(cert.uid + 1) EXCEPT !.state = "present"]
    BY ZenonT(30) DEF CreateCertificate
  <2> QED
    BY <2>1 DEF NoCert
<1>3. \/ w'.pc = "idle"
      \/ w'.pc = "bind" /\ w'.clean = w.clean
  <2>1. w' = Idle \/ w' = [w EXCEPT !.pc = "bind", !.fresh = TRUE]
    BY ZenonT(30) DEF CreateCertificate
  <2>2. CASE w' = Idle
    BY <2>2 DEF Idle
  <2>3. CASE w' = [w EXCEPT !.pc = "bind", !.fresh = TRUE]
    BY <1>1, <2>3 DEF Workers
  <2> QED
    BY <2>1, <2>2, <2>3
<1>4. UNCHANGED <<source, last, cSource, cLast, dest, job, issued, want, done,
                  spent>>
  BY ZenonT(30) DEF CreateCertificate, views, unchangedElsewhere
<1>5. w.pc = "create" /\ ~w.clean /\ cert.state = "absent" /\ job.state = "none"
  BY <1>1 DEF CreateCertificate, TurnInv, GoneInv
<1>6. cert.uid \in Nat /\ spent.turns \in Nat
  BY Fields, ZenonT(30) DEF TLSInv
<1>7. TurnInv'
  <2>1. cert.uid <= spent.turns /\ (want = "clean" => cert.uid < spent.turns)
    BY <1>1, <1>5 DEF TurnInv
  <2>2. w'.pc # "idle" => ~w'.clean
    BY <1>3, <1>5, ZenonT(30)
  <2>3. w'.pc \notin {"create", "certificate", "clean", "stopIssuing"}
    BY <1>3
  <2>4. cert'.uid <= spent'.turns + 1 /\ (want' = "clean" => cert'.uid <= spent'.turns)
    BY <1>2, <1>4, <1>6, <2>1
  <2> QED
    BY <1>2, <2>2, <2>3, <2>4, ZenonT(30) DEF TurnInv
<1>8. GoneInv'
  <2>1. ~done
    BY <1>1, <1>5 DEF GoneInv
  <2> QED
    BY <1>2, <1>3, <1>4, <2>1 DEF GoneInv
<1>9. SerialInv'
  <2>1. Newest = last /\ Newest' = last
    BY <1>3, <1>4, <1>5 DEF Newest
  <2> QED
    BY <1>1, <1>3, <1>4, <1>5, <2>1 DEF SerialInv, Exists
<1> QED
  BY <1>7, <1>8, <1>9

(* The label is asked for.                                                   *)
LEMMA BindCertificateKeeps ==
  ASSUME TLSInv, BindCertificate
  PROVE  TurnInv' /\ GoneInv' /\ SerialInv'
<1>1. w \in Workers /\ cert \in Certificates
  BY DEF TLSInv, TLSTypeOK
<1>2. unchangedElsewhere /\ w.pc = "bind"
  BY ZenonT(30) DEF BindCertificate
<1>3. CASE GiveUp
  BY <1>2, <1>3, GiveUpKeeps
<1>4. CASE ~GiveUp
  <2>1. /\ cert' = [cert EXCEPT !.bound = TRUE, !.ready = FALSE]
        /\ w' = Idle \/ Go("deliver")
        /\ UNCHANGED <<source, last, cSource, cLast, dest, done>>
    BY <1>4, ZenonT(30) DEF BindCertificate, views
  <2>2. cert'.state = cert.state /\ cert'.uid = cert.uid
    BY <1>1, <2>1 DEF Certificates
  <2>3. w'.pc = "idle" \/ (w'.clean = w.clean /\ w'.pc \in Free)
    <3>1. Idle.pc = "idle" /\ "deliver" \in Free
      BY DEF Idle, Free
    <3> QED
      BY <1>1, <2>1, <3>1, Went, ZenonT(30)
  <2>4. w.pc # "idle" /\ UNCHANGED <<issued, want>> /\ job' = job /\ spent' = spent
    BY <1>2 DEF unchangedElsewhere
  <2> QED
    BY <2>1, <2>2, <2>3, <2>4, Undisturbed
<1> QED
  BY <1>3, <1>4

(* The pair taken from the issued Secret is no older than the kept one; one  *)
(* taken from the copy is kept.                                              *)
LEMMA DeliverKeeps ==
  ASSUME TLSInv, Deliver
  PROVE  TurnInv' /\ GoneInv' /\ SerialInv'
<1>1. TurnInv /\ GoneInv /\ SerialInv /\ w \in Workers
  BY DEF TLSInv, TLSTypeOK
<1>2. unchangedElsewhere /\ w.pc = "deliver"
  BY ZenonT(30) DEF Deliver
<1>3. CASE GiveUp
  BY <1>2, <1>3, GiveUpKeeps
<1>4. CASE ~GiveUp
  <2>1. /\ cert.state = "present"
        /\ UNCHANGED <<objects, views, done, live>>
        /\ \/ Exists(cSource) /\ w' = [w EXCEPT !.pc = "protect", !.data = cSource.serial]
           \/ w' = [w EXCEPT !.pc = "send", !.data = cLast]
    BY <1>4, ZenonT(30) DEF Deliver
  <2>2. /\ w'.clean = w.clean
        /\ \/ Exists(cSource) /\ w'.pc = "protect" /\ w'.data = cSource.serial
           \/ w'.pc = "send" /\ w'.data = cLast
    BY <1>1, <2>1, ZenonT(30) DEF Workers
  <2>3. UNCHANGED <<cert, source, last, dest, cSource, cLast, job, issued, want, done, spent>>
    BY <1>2, <2>1, ZenonT(30) DEF objects, views, unchangedElsewhere
  <2>4. TurnInv'
    BY <1>1, <1>2, <2>2, <2>3 DEF TurnInv
  <2>5. GoneInv'
    BY <1>1, <1>2, <2>2, <2>3 DEF GoneInv, Emptied
  <2>6. SerialInv'
    <3>1. Newest = last /\ last <= Newest
      BY <1>1, <1>2 DEF Newest, SerialInv
    <3>2. CASE w'.pc = "protect"
      <4>1. Newest' = cSource.serial /\ Exists(cSource)
        BY <2>2, <3>2 DEF Newest
      <4>2. cSource.serial <= cSource.serial
        BY Fields DEF TLSInv
      <4> QED
        BY <1>1, <2>1, <2>3, <3>1, <3>2, <4>1, <4>2 DEF SerialInv, Exists
    <3>3. CASE w'.pc = "send"
      <4>1. Newest' = last /\ w'.data = cLast
        BY <2>2, <2>3, <3>3 DEF Newest
      <4> QED
        BY <1>1, <2>1, <2>3, <3>1, <3>3, <4>1 DEF SerialInv, Exists
    <3> QED
      BY <2>2, <3>2, <3>3
  <2> QED
    BY <2>4, <2>5, <2>6
<1> QED
  BY <1>3, <1>4

(* The copy is the pair about to be sent, or the cache shows that it was.    *)
LEMMA ProtectCopyKeeps ==
  ASSUME TLSInv, ProtectCopy
  PROVE  TurnInv' /\ GoneInv' /\ SerialInv'
<1>1. TurnInv /\ GoneInv /\ SerialInv /\ w \in Workers
  BY DEF TLSInv, TLSTypeOK
<1>2. unchangedElsewhere /\ w.pc = "protect"
  BY ZenonT(30) DEF ProtectCopy
<1>3. CASE GiveUp
  BY <1>2, <1>3, GiveUpKeeps
<1>4. CASE ~GiveUp
  <2>1. /\ \/ cLast = w.data /\ last' = last
           \/ cLast = last /\ last' = w.data
        /\ cLast' = Seen(cLast, last') /\ Go("send")
        /\ UNCHANGED <<cert, source, cSource, dest, done, live>>
    BY <1>4, ZenonT(30) DEF ProtectCopy
  <2>2. w'.pc = "send" /\ w'.clean = w.clean /\ w'.data = w.data
    BY <1>1, <2>1, Went, ZenonT(30)
  <2>3. UNCHANGED <<cert, source, cSource, dest, job, issued, want, done, spent>>
    BY <1>2, <2>1, ZenonT(30) DEF unchangedElsewhere
  <2>4. cLast' = cLast \/ cLast' = last'
    BY <2>1, Views
  <2>5. TurnInv'
    BY <1>1, <1>2, <2>2, <2>3 DEF TurnInv
  <2>6. GoneInv'
    BY <1>1, <1>2, <2>2, <2>3 DEF GoneInv
  <2>7. SerialInv'
    <3>1. Newest = w.data /\ Newest' = last' /\ last <= w.data
      BY <1>1, <1>2, <2>2 DEF Newest, SerialInv
    <3>2. /\ last \in Nat /\ w.data \in Nat /\ cLast \in Nat
          /\ source.serial \in Nat /\ cSource.serial \in Nat /\ job.serial \in Nat
          /\ issued \in Nat
      BY Fields, ZenonT(30) DEF TLSInv
    <3>3. last' \in Nat /\ last' <= last' /\ last' <= w.data
      BY <2>1, <3>1, <3>2
    <3>4. ASSUME NEW n \in Nat, Newest <= n PROVE Newest' <= n
      BY <3>1, <3>2, <3>3, <3>4
    <3>5. cert.state # "absent" => cLast' <= last' /\ w.data <= last'
      <4>1. cert.state # "absent" => cLast <= last
        BY <1>1 DEF SerialInv
      <4> QED
        BY <2>1, <2>4, <3>1, <3>2, <4>1
    <3>6. Exists(source)' = Exists(source) /\ Exists(cSource)' = Exists(cSource)
      BY <2>3 DEF Exists
    <3>7. w'.pc # "create" /\ (cert.state = "present" => cert.state # "absent")
      BY <2>2
    <3> QED
      BY <1>1, <2>2, <2>3, <3>1, <3>2, <3>3, <3>4, <3>5, <3>6, <3>7, ZenonT(30)
         DEF SerialInv
  <2> QED
    BY <2>5, <2>6, <2>7
<1> QED
  BY <1>3, <1>4

(* The pair reaches the cluster.                                             *)
LEMMA SendToClusterKeeps ==
  ASSUME TLSInv, SendToCluster
  PROVE  TurnInv' /\ GoneInv' /\ SerialInv'
<1>1. TurnInv /\ GoneInv /\ SerialInv /\ w \in Workers
  BY DEF TLSInv, TLSTypeOK
<1>2. w.pc = "send" /\ w'.pc = "publish" /\ w'.clean = w.clean
  BY <1>1, Went, ZenonT(30) DEF SendToCluster
<1>3. UNCHANGED <<cert, source, last, cSource, cLast, job, issued, want, done,
                  spent>>
  BY ZenonT(30) DEF SendToCluster, views, unchangedElsewhere
<1>4. TurnInv'
  BY <1>1, <1>2, <1>3 DEF TurnInv
<1>5. GoneInv'
  BY <1>1, <1>2, <1>3 DEF GoneInv
<1>6. SerialInv'
  <2>1. Newest = last /\ Newest' = last
    BY <1>2, <1>3 DEF Newest
  <2> QED
    BY <1>1, <1>2, <1>3, <2>1 DEF SerialInv, Exists
<1> QED
  BY <1>4, <1>5, <1>6

(* The endpoint is advertised and the pass is over.                          *)
LEMMA PublishKeeps ==
  ASSUME TLSInv, Publish
  PROVE  TurnInv' /\ GoneInv' /\ SerialInv'
<1>1. w'.pc = "idle"
  BY DEF Publish, Idle
<1> QED
  BY <1>1, Elsewhere, ZenonT(30) DEF Publish

(* The cleanup looks for the Certificate.                                    *)
LEMMA CleanupCertificateKeeps ==
  ASSUME TLSInv, CleanupCertificate
  PROVE  TurnInv' /\ GoneInv' /\ SerialInv'
<1>1. TurnInv /\ GoneInv /\ SerialInv /\ w \in Workers /\ cert \in Certificates
  BY DEF TLSInv, TLSTypeOK
<1>2. /\ w.pc = "clean" /\ unchangedElsewhere
      /\ UNCHANGED <<objects, views, done, live>>
  BY ZenonT(30) DEF CleanupCertificate
<1>3. CASE w' = Idle
  <2>1. w'.pc = "idle"
    BY <1>3 DEF Idle
  <2> QED
    BY <1>2, <2>1, Elsewhere, ZenonT(30)
<1>4. CASE w' # Idle
  <2>1. /\ w'.clean = w.clean
        /\ \/ cert.state = "absent" /\ w'.pc = "cleanSecrets"
           \/ cert.state = "present" /\ w'.pc \in {"certificate", "stopIssuing"}
    <3>1. cert.state \in {"absent", "present", "deleting"}
      BY <1>1 DEF Certificates
    <3>2. \/ cert.state = "absent" /\ w' = [w EXCEPT !.pc = "cleanSecrets"]
          \/ /\ cert.state = "present"
             /\ \/ w' = [w EXCEPT !.fresh = TRUE, !.pc = "certificate"]
                \/ w' = [w EXCEPT !.fresh = TRUE, !.pc = "stopIssuing"]
      BY <1>4, <3>1, ZenonT(30) DEF CleanupCertificate
    <3> QED
      BY <1>1, <3>2, Went, ZenonT(30) DEF Go
  <2>2. UNCHANGED <<cert, source, last, dest, cSource, cLast, job, issued, want, done, spent>>
    BY <1>2, ZenonT(30) DEF objects, views, unchangedElsewhere
  <2>3. w.clean
    BY <1>1, <1>2 DEF TurnInv
  <2>4. TurnInv'
    BY <1>1, <1>2, <2>1, <2>2, <2>3 DEF TurnInv
  <2>5. GoneInv'
    BY <1>1, <1>2, <2>1, <2>2 DEF GoneInv
  <2>6. SerialInv'
    <3>1. Newest = last /\ Newest' = last
      BY <1>2, <2>1, <2>2 DEF Newest
    <3> QED
      BY <1>1, <2>1, <2>2, <3>1 DEF SerialInv, Exists
  <2> QED
    BY <2>4, <2>5, <2>6
<1> QED
  BY <1>3, <1>4

(* A Certificate is marked for deletion by a pass that cleans.               *)
LEMMA DeleteCertificateKeeps ==
  ASSUME TLSInv, DeleteCertificate
  PROVE  TurnInv' /\ GoneInv' /\ SerialInv'
<1>1. TurnInv /\ GoneInv /\ SerialInv /\ cert \in Certificates
  BY DEF TLSInv, TLSTypeOK
<1>2. w.pc = "stopIssuing" /\ w.clean /\ cert.state = "present"
  BY <1>1 DEF DeleteCertificate, TurnInv
<1>3. cert'.uid = cert.uid /\ cert'.state \in {"present", "deleting"}
  <2>1. cert' = cert \/ cert' = [cert EXCEPT !.state = "deleting"]
    BY ZenonT(30) DEF DeleteCertificate
  <2> QED
    BY <1>1, <1>2, <2>1 DEF Certificates
<1>4. w'.pc = "idle"
  BY DEF DeleteCertificate, Idle
<1>5. UNCHANGED <<source, last, cSource, cLast, dest, job, issued, want, done,
                  spent>>
  BY ZenonT(30) DEF DeleteCertificate, views, unchangedElsewhere
<1>6. TurnInv'
  <2>1. cert.uid <= spent.turns
    BY <1>1, <1>2 DEF TurnInv
  <2> QED
    BY <1>1, <1>3, <1>4, <1>5, <2>1 DEF TurnInv
<1>7. GoneInv'
  BY <1>1, <1>2, <1>3, <1>4, <1>5 DEF GoneInv
<1>8. SerialInv'
  <2>1. Newest = last /\ Newest' = last
    BY <1>2, <1>4, <1>5 DEF Newest
  <2> QED
    BY <1>1, <1>2, <1>4, <1>5, <2>1 DEF SerialInv, Exists
<1> QED
  BY <1>6, <1>7, <1>8

(* The Secrets go; a cleanup that saw neither of them and overlooked neither *)
(* leaves neither.                                                           *)
LEMMA CleanupSecretsKeeps ==
  ASSUME TLSInv, CleanupSecrets
  PROVE  TurnInv' /\ GoneInv' /\ SerialInv'
<1>1. TurnInv /\ GoneInv /\ SerialInv /\ w \in Workers
  BY DEF TLSInv, TLSTypeOK
<1>2. unchangedElsewhere /\ w.pc = "cleanSecrets"
  BY ZenonT(30) DEF CleanupSecrets
<1>3. CASE GiveUp
  BY <1>2, <1>3, GiveUpKeeps
<1>4. CASE ~GiveUp
  <2>1. /\ source' = IF cSource = source THEN NoSource ELSE source
        /\ last' = IF cLast = last /\ (Exists(cSource) => source' = NoSource)
                   THEN 0 ELSE last
        /\ cSource' = Seen(cSource, source') /\ cLast' = Seen(cLast, last')
        /\ IF Exists(cSource) \/ cLast # 0 THEN w' = Idle ELSE Go("cleanRemote")
        /\ UNCHANGED <<cert, dest, done, live>>
    BY <1>4, ZenonT(30) DEF CleanupSecrets
  <2>2. cert.state = "absent" /\ job.state = "none" /\ ~done
    BY <1>1, <1>2 DEF GoneInv
  <2>3. \/ w'.pc = "idle"
        \/ /\ w'.pc = "cleanRemote" /\ w'.clean = w.clean
           /\ ~Exists(cSource) /\ cLast = 0
    <3>1. CASE w' = Idle
      BY <3>1 DEF Idle
    <3>2. CASE Go("cleanRemote") /\ ~Exists(cSource) /\ cLast = 0
      BY <1>1, <3>2, Went, ZenonT(30)
    <3> QED
      BY <2>1, <3>1, <3>2, ZenonT(30)
  <2>4. UNCHANGED <<cert, dest, done, job, issued, want, spent>>
    BY <1>2, <2>1, ZenonT(30) DEF unchangedElsewhere
  <2>5. TurnInv'
    BY <1>1, <1>2, <2>2, <2>3, <2>4 DEF TurnInv
  <2>6. ~Exists(cSource) /\ cLast = 0 => Emptied'
    <3> SUFFICES ASSUME ~Exists(cSource), cLast = 0, ~CacheLag
                 PROVE  ~Exists(source)' /\ last' = 0
      BY ZenonT(30) DEF Emptied
    <3>1. cSource = source /\ cLast = last
      BY ZenonT(30) DEF TLSInv, Synced
    <3>2. source' = NoSource /\ last' = 0
      BY <2>1, <3>1, ZenonT(30)
    <3> QED
      BY <3>2 DEF NoSource, Exists
  <2>7. GoneInv'
    BY <2>2, <2>3, <2>4, <2>6, <1>1 DEF GoneInv
  <2>8. SerialInv'
    <3>1. /\ last \in Nat /\ issued \in Nat
          /\ source.serial \in Nat /\ cSource.serial \in Nat
      BY Fields, ZenonT(30) DEF TLSInv
    <3>2. /\ Newest = last /\ Newest' = last'
      BY <1>2, <2>3 DEF Newest
    <3>3. last' \in {0, last} /\ last' \in Nat /\ last' <= last
      BY <2>1, <3>1
    <3>4. source'.serial \in {0, source.serial}
      BY <2>1, ZenonT(30) DEF NoSource
    <3>5. cSource'.serial \in {cSource.serial, source'.serial}
      BY <2>1, Views, ZenonT(30)
    <3>6. w'.pc \notin {"create", "send"} /\ job'.state # "started" /\ cert'.state = "absent"
      BY <2>2, <2>3, <2>4
    <3> QED
      BY <1>1, <2>4, <3>1, <3>2, <3>3, <3>4, <3>5, <3>6 DEF SerialInv, Exists
  <2> QED
    BY <2>5, <2>7, <2>8
<1> QED
  BY <1>3, <1>4

(* The delivered Secret goes, and success is reported when it was gone.      *)
LEMMA CleanupRemoteKeeps ==
  ASSUME TLSInv, CleanupRemote
  PROVE  TurnInv' /\ GoneInv' /\ SerialInv'
<1>1. TurnInv /\ GoneInv /\ SerialInv
  BY DEF TLSInv
<1>2. w.pc = "cleanRemote" /\ dest' = 0
  BY DEF CleanupRemote
<1>3. w'.pc = "idle"
  BY DEF CleanupRemote, Idle
<1>4. UNCHANGED <<cert, source, last, cSource, cLast, job, issued, want, spent>>
  BY ZenonT(30) DEF CleanupRemote, views, unchangedElsewhere
<1>5. TurnInv'
  BY <1>1, <1>3, <1>4 DEF TurnInv
<1>6. GoneInv'
  <2>1. cert.state = "absent" /\ job.state = "none" /\ Emptied
    BY <1>1, <1>2 DEF GoneInv
  <2>2. Emptied'
    BY <1>4, <2>1 DEF Emptied, Exists
  <2> QED
    BY <1>2, <1>3, <1>4, <2>1, <2>2 DEF GoneInv
<1>7. SerialInv'
  <2>1. Newest = last /\ Newest' = last
    BY <1>2, <1>3, <1>4 DEF Newest
  <2> QED
    BY <1>1, <1>3, <1>4, <2>1 DEF SerialInv, Exists
<1> QED
  BY <1>5, <1>6, <1>7

(* What is issued next is no older than anything seen or kept.               *)
LEMMA StartIssuingKeeps ==
  ASSUME TLSInv, StartIssuing
  PROVE  TurnInv' /\ GoneInv' /\ SerialInv'
<1>1. TurnInv /\ GoneInv /\ SerialInv /\ w \in Workers /\ cert \in Certificates
  BY DEF TLSInv, TLSTypeOK
<1>2. PICK n \in Serials :
        /\ NextSerial(n)
        /\ job' = [state |-> "started", bound |-> cert.bound, serial |-> n]
  BY ZenonT(30) DEF StartIssuing
<1>3. cert.state = "present"
  BY ZenonT(30) DEF StartIssuing
<1>4. cert'.state = cert.state /\ cert'.uid = cert.uid
  <2>1. cert' = [cert EXCEPT !.ready = FALSE]
    BY ZenonT(30) DEF StartIssuing
  <2> QED
    BY <1>1, <2>1 DEF Certificates
<1>5. w'.pc = w.pc /\ w'.clean = w.clean /\ w'.data = w.data
  <2>1. w' = [w EXCEPT !.fresh = FALSE]
    BY ZenonT(30) DEF StartIssuing
  <2> QED
    BY <1>1, <2>1 DEF Workers
<1>6. UNCHANGED <<source, last, cSource, cLast, dest, issued, want, done, spent>>
  BY ZenonT(30) DEF StartIssuing, unchangedByIssuer
<1>7. TurnInv'
  BY <1>1, <1>4, <1>5, <1>6, ZenonT(30) DEF TurnInv
<1>8. GoneInv'
  <2>1. cert'.state # "absent" /\ cert.state # "absent"
    BY <1>3, <1>4
  <2> QED
    BY <1>1, <1>5, <1>6, <2>1, ZenonT(30) DEF GoneInv
<1>9. SerialInv'
  <2>1. /\ last \in Nat /\ issued \in Nat /\ w.data \in Nat
        /\ source.serial \in Nat /\ cSource.serial \in Nat
        /\ issued \in Serials
    BY Fields, ZenonT(30) DEF TLSInv, TLSTypeOK
  <2>2. Newest' = Newest /\ Newest \in Nat
    BY <1>5, <1>6, <2>1 DEF Newest
  <2>3. job'.serial = n /\ n \in Nat /\ n <= MaxSerial
    BY <1>2, Values
  <2>4. n = issued + 1 \/ n = MaxSerial \/ (Exists(source) /\ n = source.serial)
    BY <1>2, ZenonT(30) DEF NextSerial
  <2>5. issued <= MaxSerial /\ MaxSerial \in Nat
    BY <2>1, Values, TLSAssumption
  <2>6. Newest <= n /\ source.serial <= n /\ cSource.serial <= n
    <3>1. ASSUME NEW m \in Nat, m <= issued, n # source.serial \/ ~Exists(source)
          PROVE  m <= n
      BY <2>1, <2>3, <2>4, <2>5, <3>1
    <3>2. CASE n # source.serial \/ ~Exists(source)
      BY <1>1, <2>1, <2>2, <3>1, <3>2, ZenonT(30) DEF SerialInv
    <3>3. CASE n = source.serial /\ Exists(source)
      BY <1>1, <2>1, <3>3 DEF SerialInv
    <3> QED
      BY <3>2, <3>3
  <2>7. Exists(source)' = Exists(source) /\ Exists(cSource)' = Exists(cSource)
    BY <1>6 DEF Exists
  <2> QED
    BY <1>1, <1>4, <1>5, <1>6, <2>2, <2>3, <2>6, <2>7, ZenonT(30) DEF SerialInv
<1> QED
  BY <1>7, <1>8, <1>9

(* The issued Secret is written.                                             *)
LEMMA WriteSourceKeeps ==
  ASSUME TLSInv, WriteSource
  PROVE  TurnInv' /\ GoneInv' /\ SerialInv'
<1>1. TurnInv /\ GoneInv /\ SerialInv /\ job \in Jobs
  BY DEF TLSInv, TLSTypeOK
<1>2. job.state = "started" /\ job'.state = "written"
  BY <1>1 DEF WriteSource, Jobs
<1>3. UNCHANGED <<cert, w, spent, last, cLast, dest, want, done>>
  BY ZenonT(30) DEF WriteSource, unchangedByIssuer
<1>4. cert.state # "absent"
  BY <1>1, <1>2 DEF GoneInv
<1>5. TurnInv'
  BY <1>1, <1>3, ZenonT(30) DEF TurnInv
<1>6. GoneInv'
  BY <1>1, <1>3, <1>4 DEF GoneInv
<1>7. SerialInv'
  <2>1. /\ last \in Nat /\ issued \in Nat /\ w.data \in Nat /\ job.serial \in Nat
        /\ source.serial \in Nat /\ cSource.serial \in Nat
    BY Fields, ZenonT(30) DEF TLSInv
  <2>2. Newest' = Newest /\ Newest \in Nat
    BY <1>3, <2>1 DEF Newest
  <2>3. source'.serial = job.serial
    BY ZenonT(30) DEF WriteSource
  <2>4. cSource' = cSource \/ cSource'.serial = job.serial
    BY <2>3, Views, ZenonT(30) DEF WriteSource
  <2>5. issued' \in Nat /\ job.serial <= issued' /\ issued <= issued'
    BY <2>1 DEF WriteSource
  <2>6. Newest <= job.serial /\ source.serial <= job.serial /\ cSource.serial <= job.serial
    BY <1>1, <1>2 DEF SerialInv
  <2>7. Newest <= issued' /\ cSource'.serial <= job.serial /\ cSource'.serial <= issued'
    BY <2>1, <2>2, <2>4, <2>5, <2>6
  <2>8. Exists(cSource)' => Newest <= cSource'.serial
    BY <1>1, <2>4, <2>6 DEF SerialInv, Exists
  <2>9. last <= Newest /\ job'.state # "started"
    BY <1>1, <1>2 DEF SerialInv
  <2> QED
    BY <1>1, <1>3, <2>2, <2>3, <2>5, <2>6, <2>7, <2>8, <2>9, ZenonT(30) DEF SerialInv
<1> QED
  BY <1>5, <1>6, <1>7

(* A Certificate that is being deleted goes once nothing is issued for it.   *)
LEMMA RemoveCertificateKeeps ==
  ASSUME TLSInv, RemoveCertificate
  PROVE  TurnInv' /\ GoneInv' /\ SerialInv'
<1>1. TurnInv /\ GoneInv /\ SerialInv
  BY DEF TLSInv
<1>2. /\ cert.state = "deleting" /\ job.state = "none"
      /\ cert'.state = "absent" /\ cert'.uid = cert.uid
  BY DEF RemoveCertificate, NoCert
<1>3. UNCHANGED <<source, last, cSource, cLast, dest, job, issued, want, done, w,
                  spent>>
  BY ZenonT(30) DEF RemoveCertificate, unchangedByIssuer
<1>4. TurnInv'
  BY <1>1, <1>2, <1>3 DEF TurnInv
<1>5. GoneInv'
  BY <1>1, <1>2, <1>3 DEF GoneInv
<1>6. SerialInv'
  <2>1. Newest' = Newest
    BY <1>3 DEF Newest
  <2> QED
    BY <1>1, <1>2, <1>3, <2>1 DEF SerialInv, Exists
<1> QED
  BY <1>4, <1>5, <1>6

(* The cache catches up.                                                     *)
LEMMA SyncKeeps ==
  ASSUME TLSInv, SyncSource \/ SyncLast
  PROVE  TurnInv' /\ GoneInv' /\ SerialInv'
<1>1. TurnInv /\ GoneInv /\ SerialInv
  BY DEF TLSInv
<1>2. UNCHANGED <<cert, source, last, dest, job, issued, want, done, w, spent>>
  BY ZenonT(30) DEF SyncSource, SyncLast, objects, unchangedElsewhere
<1>3. TurnInv'
  BY <1>1, <1>2, ZenonT(30) DEF TurnInv
<1>4. GoneInv'
  <2>1. Emptied' = Emptied
    BY <1>2 DEF Emptied, Exists
  <2> QED
    BY <1>1, <1>2, <2>1, ZenonT(30) DEF GoneInv
<1>5. SerialInv'
  <2>1. cSource' \in {cSource, source} /\ cLast' \in {cLast, last}
    BY ZenonT(30) DEF SyncSource, SyncLast
  <2>2. Newest' = Newest
    BY <1>2 DEF Newest
  <2>3. source.serial <= source.serial /\ last <= last
    BY Fields DEF TLSInv
  <2> QED
    BY <1>1, <1>2, <2>1, <2>2, <2>3 DEF SerialInv, Exists
<1> QED
  BY <1>3, <1>4, <1>5

(* The user changes their mind, which pays for one Certificate.              *)
LEMMA TurnKeeps ==
  ASSUME TLSInv, Turn
  PROVE  TurnInv' /\ GoneInv' /\ SerialInv'
<1>1. TurnInv /\ GoneInv /\ SerialInv
  BY DEF TLSInv
<1>2. UNCHANGED <<cert, source, last, cSource, cLast, dest, job, issued, done, w>>
  BY ZenonT(30) DEF Turn, objects, views
<1>3. spent'.turns = spent.turns + 1
  BY DEF TLSInv, TLSTypeOK, Turn
<1>4. cert.uid \in Nat /\ spent.turns \in Nat
  BY Fields, ZenonT(30) DEF TLSInv
<1>5. TurnInv'
  <2>1. cert.uid <= spent'.turns /\ cert.uid <= spent'.turns + 1
    BY <1>1, <1>3, <1>4 DEF TurnInv
  <2>2. cert.state # "present" => cert.uid < spent'.turns
    BY <1>1, <1>3, <1>4 DEF TurnInv
  <2> QED
    BY <1>1, <1>2, <2>1, <2>2, ZenonT(30) DEF TurnInv
<1>6. GoneInv'
  <2>1. Emptied' = Emptied
    BY <1>2 DEF Emptied, Exists
  <2> QED
    BY <1>1, <1>2, <2>1, ZenonT(30) DEF GoneInv
<1>7. SerialInv'
  <2>1. Newest' = Newest
    BY <1>2 DEF Newest
  <2> QED
    BY <1>1, <1>2, <2>1 DEF SerialInv, Exists
<1> QED
  BY <1>5, <1>6, <1>7

(* A fault costs no turn.                                                    *)
LEMMA FaultTurns ==
  ASSUME TLSTypeOK, SpendFault
  PROVE  spent'.turns = spent.turns
BY DEF TLSTypeOK, SpendFault

(* The end of an issuance, and failures of either side.                      *)
LEMMA RestKeeps ==
  ASSUME TLSInv,
         \/ FinishIssuing \/ IssuingFails \/ Revoke \/ Age \/ Restart \/ CallFails
  PROVE  TurnInv' /\ GoneInv' /\ SerialInv'
<1>1. TLSTypeOK /\ w \in Workers /\ cert \in Certificates
  BY DEF TLSInv, TLSTypeOK
<1>2. UNCHANGED <<source, last, cSource, cLast, dest, issued, want, done>>
  BY ZenonT(30) DEF FinishIssuing, IssuingFails, Revoke, Age, Restart, CallFails,
     GiveUp, unchangedByIssuer, objects, views
<1>3. cert'.state = cert.state /\ cert'.uid = cert.uid
  <2>1. \/ cert' = cert
        \/ cert' = [cert EXCEPT !.ready = (cert.bound = job.bound)]
        \/ cert' = [cert EXCEPT !.revoked = TRUE]
    BY ZenonT(30) DEF FinishIssuing, IssuingFails, Revoke, Age, Restart, CallFails,
       GiveUp, objects
  <2> QED
    BY <1>1, <2>1 DEF Certificates
<1>4. spent'.turns = spent.turns
  <2>1. spent' = spent \/ SpendFault
    BY ZenonT(30) DEF FinishIssuing, IssuingFails, Revoke, Age, Restart, CallFails
  <2> QED
    BY <1>1, <2>1, FaultTurns
<1>5. job' = job \/ job'.state = "none"
  <2>1. job' = job \/ job' = NoJob
    BY ZenonT(30) DEF FinishIssuing, IssuingFails, Revoke, Age, Restart, CallFails
  <2> QED
    BY <2>1 DEF NoJob
<1>6. \/ w'.pc = w.pc /\ w'.clean = w.clean /\ w'.data = w.data
      \/ w'.pc = "idle"
  <2>1. w' = w \/ w' = Idle \/ w' = [w EXCEPT !.fresh = FALSE]
    BY ZenonT(30) DEF FinishIssuing, IssuingFails, Revoke, Age, Restart, CallFails, GiveUp
  <2>2. CASE w' = Idle
    BY <2>2 DEF Idle
  <2>3. CASE w' = [w EXCEPT !.fresh = FALSE]
    BY <1>1, <2>3 DEF Workers
  <2> QED
    BY <2>1, <2>2, <2>3
<1> QED
  BY <1>2, <1>3, <1>4, <1>5, <1>6, Undisturbed, ZenonT(30)

-----------------------------------------------------------------------------
(* The invariant and what follows from it.                                   *)

(* Before anything is asked for.                                             *)
LEMMA InitTLS == Init => TLSInv
<1> SUFFICES ASSUME Init PROVE TLSInv
  OBVIOUS
<1>1. TLSTypeOK
  <2>1. 0 \in 0 .. MaxTurns + 1
    BY TLSAssumption
  <2>2. NoCert(0) \in Certificates
    BY <2>1, Values, ZenonT(30)
  <2>3. spent \in [turns : 0 .. MaxTurns, faults : 0 .. MaxFaults]
    BY TLSAssumption DEF Init
  <2>4. want \in {"serve", "clean"} /\ done \in BOOLEAN
    BY ZenonT(30) DEF Init
  <2> QED
    BY <2>2, <2>3, <2>4, Values, ZenonT(30) DEF Init, TLSTypeOK
<1>2. /\ cert.state = "absent" /\ cert.uid = 0 /\ w.pc = "idle" /\ job.state = "none"
      /\ source.serial = 0 /\ cSource.serial = 0 /\ spent.turns = 0
      /\ last = 0 /\ cLast = 0 /\ issued = 0 /\ ~done /\ want = "serve"
  BY DEF Init, NoCert, Idle, NoJob, NoSource
<1>3. TurnInv
  BY <1>2 DEF TurnInv
<1>4. GoneInv
  BY <1>2 DEF GoneInv
<1>5. SerialInv
  BY <1>2 DEF SerialInv, Newest, Exists
<1>6. Synced
  BY DEF Init, Synced
<1> QED
  BY <1>1, <1>3, <1>4, <1>5, <1>6 DEF TLSInv

(* A cache that does not lag shows every write to a Secret at once.          *)
LEMMA SyncedKeeps ==
  ASSUME Synced, [Next]_vars
  PROVE  Synced'
<1> SUFFICES ASSUME ~CacheLag
             PROVE  cSource' = source' /\ cLast' = last'
  BY ZenonT(30) DEF Synced
<1>1. cSource = source /\ cLast = last
  BY ZenonT(30) DEF Synced
<1>2. \A v, x : Seen(v, x) = x
  BY DEF Seen
<1>3. CASE UNCHANGED <<source, last, cSource, cLast>>
  BY <1>1, <1>3
<1>4. CASE ProtectCopy
  BY <1>1, <1>2, <1>4, ZenonT(30) DEF ProtectCopy, GiveUp, objects, views
<1>5. CASE CleanupSecrets
  BY <1>1, <1>2, <1>5, ZenonT(30) DEF CleanupSecrets, GiveUp, objects, views
<1>6. CASE WriteSource
  BY <1>1, <1>2, <1>6, ZenonT(30) DEF WriteSource, unchangedByIssuer
<1>7. CASE SyncSource \/ SyncLast
  BY <1>1, <1>7, ZenonT(30) DEF SyncSource, SyncLast, objects
<1>8. \/ UNCHANGED <<source, last, cSource, cLast>>
      \/ ProtectCopy \/ CleanupSecrets \/ WriteSource \/ SyncSource \/ SyncLast
  <2>1. CASE Controller
    BY <2>1, ZenonT(30) DEF Controller, StartPass, ReconcileCertificate,
       CreateCertificate, BindCertificate, Deliver, SendToCluster, Publish, GiveUp,
       CleanupCertificate, DeleteCertificate, CleanupRemote, objects, views
  <2>2. CASE Environment
    BY <2>2, ZenonT(30) DEF Environment, Issuer, StartIssuing, FinishIssuing,
       RemoveCertificate, IssuingFails, Revoke, Age, Turn, Restart, CallFails, GiveUp,
       unchangedByIssuer, objects, views
  <2>3. CASE UNCHANGED vars
    BY <2>3, ZenonT(30) DEF vars
  <2> QED
    BY <2>1, <2>2, <2>3 DEF Next
<1> QED
  BY <1>3, <1>4, <1>5, <1>6, <1>7, <1>8

(* Every step keeps the invariant.                                           *)
LEMMA NextTLS == TLSInv /\ [Next]_vars => TLSInv'
<1> SUFFICES ASSUME TLSInv, [Next]_vars PROVE TLSInv'
  OBVIOUS
<1>0. Synced'
  BY SyncedKeeps DEF TLSInv
<1>1. CASE Controller
  <2>1. TLSTypeOK'
    BY <1>1, ControllerTypes
  <2>2. TurnInv' /\ GoneInv' /\ SerialInv'
    <3>1. CASE StartPass
      BY <3>1, StartPassKeeps
    <3>2. CASE ReconcileCertificate
      BY <3>2, ReconcileCertificateKeeps
    <3>3. CASE CreateCertificate
      BY <3>3, CreateCertificateKeeps
    <3>4. CASE BindCertificate
      BY <3>4, BindCertificateKeeps
    <3>5. CASE Deliver
      BY <3>5, DeliverKeeps
    <3>6. CASE ProtectCopy
      BY <3>6, ProtectCopyKeeps
    <3>7. CASE SendToCluster
      BY <3>7, SendToClusterKeeps
    <3>8. CASE Publish
      BY <3>8, PublishKeeps
    <3>9. CASE CleanupCertificate
      BY <3>9, CleanupCertificateKeeps
    <3>10. CASE DeleteCertificate
      BY <3>10, DeleteCertificateKeeps
    <3>11. CASE CleanupSecrets
      BY <3>11, CleanupSecretsKeeps
    <3>12. CASE CleanupRemote
      BY <3>12, CleanupRemoteKeeps
    <3> QED
      BY <1>1, <3>1, <3>2, <3>3, <3>4, <3>5, <3>6, <3>7, <3>8, <3>9, <3>10, <3>11,
         <3>12, ZenonT(30) DEF Controller
  <2> QED
    BY <1>0, <2>1, <2>2 DEF TLSInv
<1>2. CASE Environment
  <2>1. TLSTypeOK'
    BY <1>2, EnvironmentTypes DEF TLSInv
  <2>2. TurnInv' /\ GoneInv' /\ SerialInv'
    <3>1. CASE StartIssuing
      BY <3>1, StartIssuingKeeps
    <3>2. CASE WriteSource
      BY <3>2, WriteSourceKeeps
    <3>3. CASE RemoveCertificate
      BY <3>3, RemoveCertificateKeeps
    <3>4. CASE SyncSource \/ SyncLast
      BY <3>4, SyncKeeps
    <3>5. CASE Turn
      BY <3>5, TurnKeeps
    <3>6. CASE FinishIssuing \/ IssuingFails \/ Revoke \/ Age \/ Restart \/ CallFails
      BY <3>6, RestKeeps
    <3> QED
      BY <1>2, <3>1, <3>2, <3>3, <3>4, <3>5, <3>6, ZenonT(30) DEF Environment, Issuer
  <2> QED
    BY <1>0, <2>1, <2>2 DEF TLSInv
<1>3. CASE UNCHANGED vars
  <2>1. TLSTypeOK'
    BY <1>3, ZenonT(30) DEF vars, TLSInv, TLSTypeOK
  <2>2. TurnInv' /\ GoneInv' /\ SerialInv'
    BY <1>3, Undisturbed DEF vars
  <2> QED
    BY <1>0, <2>1, <2>2 DEF TLSInv
<1> QED
  BY <1>1, <1>2, <1>3 DEF Next

(* Whatever the controller, cert-management, the caches and failures do, the *)
(* inductive invariant holds.                                                *)
THEOREM TLSInvariance == Spec => []TLSInv
<1> QED
  BY InitTLS, NextTLS, PTL DEF Spec

(* The records of the operator, of cert-management and of the two clusters   *)
(* stay what they are; the UIDs of Certificates in particular stay bounded   *)
(* by the turns of the user.                                                 *)
THEOREM TLSTypes == Spec => []TLSTypeOK
<1>1. TLSInv => TLSTypeOK
  BY DEF TLSInv
<1> QED
  BY <1>1, TLSInvariance, PTL

(* When cleanupBYOCManagedTLS and cleanupBYOCRemoteTLS have reported         *)
(* success, no Certificate, no issuance that could still write a Secret and  *)
(* no delivered Secret is left.                                              *)
THEOREM CleanupStopsIssuance == Spec => []CleanupEndsIssuance
<1>1. TLSInv => CleanupEndsIssuance
  BY ZenonT(30) DEF TLSInv, GoneInv, CleanupEndsIssuance
<1> QED
  BY <1>1, TLSInvariance, PTL

(* If the cache the Secrets are read from never lags, no issued or copied    *)
(* key pair is left either: the lag is all that keeps the cleanup from       *)
(* waiting for the Secrets as it is said to.                                 *)
THEOREM CleanupCompletes ==
  ASSUME ~CacheLag
  PROVE  Spec => []CleanupIsComplete
<1>1. TLSInv => CleanupIsComplete
  BY ZenonT(30) DEF TLSInv, GoneInv, Emptied, CleanupIsComplete
<1> QED
  BY <1>1, TLSInvariance, PTL

(* No key pair reaches the customer cluster before the last-valid Secret     *)
(* holds it or a newer one, however far the cache lags behind.               *)
THEOREM SentOnlyProtected == Spec => ProtectedBeforeSent
<1>1. TLSInv /\ [Next]_vars =>
        [dest' # dest /\ dest' # 0 /\ cert.state = "present" => last >= dest']_vars
  <2> SUFFICES ASSUME TLSInv, Next, dest' # dest, dest' # 0, cert.state = "present"
               PROVE  last >= dest'
    BY ZenonT(30) DEF vars
  <2>1. SendToCluster \/ CleanupRemote
    <3>1. CASE Controller
      BY <3>1, ZenonT(30) DEF Controller, StartPass, ReconcileCertificate,
         CreateCertificate, BindCertificate, Deliver, ProtectCopy, Publish, GiveUp,
         CleanupCertificate, DeleteCertificate, CleanupSecrets, objects
    <3>2. CASE Environment
      BY <3>2, ZenonT(30) DEF Environment, Issuer, StartIssuing, WriteSource,
         FinishIssuing, RemoveCertificate, IssuingFails, Revoke, Age, SyncSource,
         SyncLast, Turn, Restart, CallFails, GiveUp, unchangedByIssuer, objects
    <3> QED
      BY <3>1, <3>2 DEF Next
  <2>2. w.pc = "send" /\ dest' = w.data
    BY <2>1, ZenonT(30) DEF SendToCluster, CleanupRemote
  <2>3. w.data <= last
    BY <2>2, ZenonT(30) DEF TLSInv, SerialInv
  <2> QED
    BY <2>2, <2>3, Fields DEF TLSInv
<1> QED
  BY <1>1, TLSInvariance, PTL DEF Spec, ProtectedBeforeSent
=============================================================================
