------------------------------- MODULE Slugs -------------------------------
(***************************************************************************)
(* Slugs, and the policy that assigns them to instances.                   *)
(*                                                                         *)
(* A slug is a sequence of symbols, so that one may be a prefix of another *)
(* as strings may.  A derived slug is a digest of the instance's UID after *)
(* a reserved prefix; digests of different UIDs are different and of equal *)
(* length, so the UID itself stands for the digest.                        *)
(*                                                                         *)
(* A policy has a cutover time and a function from UIDs to reviewed        *)
(* entries.  The pair of namespace and name is one name here.              *)
(***************************************************************************)
EXTENDS Naturals, Sequences

CONSTANT None     \* the empty string

(* strings.HasPrefix.                                                       *)
StartsWith(s, t) == Len(t) <= Len(s) /\ SubSeq(s, 1, Len(t)) = t
Overlap(s, t) == StartsWith(s, t) \/ StartsWith(t, s)

Reserved == <<"l", "m">>     \* "llm-"

Derived(uid) == [slug |-> Append(Reserved, uid), source |-> "derived"]
Legacy(slug) == [slug |-> slug, source |-> "legacy"]
Refused == [slug |-> None, source |-> None]

(* Mutant: a legacy slug may be a prefix of the reserved one.               *)
ValidEntryOneWay(e) ==
  /\ e.uid # None /\ e.name # None
  /\ \/ e.mode = "legacy" /\ e.slug # <<>> /\ ~StartsWith(e.slug, Reserved)
     \/ e.mode = "derive" /\ e.slug = <<>>

ValidEntry(e) ==
  /\ e.uid # None /\ e.name # None
  /\ \/ e.mode = "legacy" /\ e.slug # <<>> /\ ~Overlap(e.slug, Reserved)
     \/ e.mode = "derive" /\ e.slug = <<>>

(* Policy.Select for an object with a UID, a name and a creation time.      *)
Select(p, o) ==
  IF o.uid \in DOMAIN p.entries
  THEN LET e == p.entries[o.uid]
       IN IF e.name # o.name THEN Refused
          ELSE IF e.mode = "legacy" THEN Legacy(e.slug) ELSE Derived(o.uid)
  ELSE IF o.created <= p.cutover THEN Refused ELSE Derived(o.uid)

(* What the entries of a policy must satisfy together.                      *)
Unambiguous(e, f) ==
  /\ e.uid # f.uid /\ e.name # f.name
  /\ e.mode = "legacy" /\ f.mode = "legacy" => ~Overlap(e.slug, f.slug)

WellFormed(p) ==
  /\ \A u \in DOMAIN p.entries : p.entries[u].uid = u /\ ValidEntry(p.entries[u])
  /\ \A u, v \in DOMAIN p.entries :
       u # v => Unambiguous(p.entries[u], p.entries[v])
=============================================================================
