---------------------------- MODULE SlugsProofs ----------------------------
(* Proofs about Slugs: a well-formed policy gives no two instances slugs     *)
(* that overlap as paths.                                                    *)
EXTENDS Slugs, SequenceTheorems, TLAPS

(* A prefix agrees with the sequence wherever it is defined.                 *)
LEMMA PrefixPointwise ==
  ASSUME NEW S, NEW T, NEW s \in Seq(S), NEW t \in Seq(T)
  PROVE  StartsWith(t, s) <=> Len(s) <= Len(t) /\ \A i \in 1 .. Len(s) : s[i] = t[i]
<1>0. Len(s) \in Nat /\ Len(t) \in Nat
  OBVIOUS
<1>1. ASSUME Len(s) <= Len(t)
      PROVE  /\ Len(SubSeq(t, 1, Len(s))) = Len(s)
             /\ \A i \in 1 .. Len(s) : SubSeq(t, 1, Len(s))[i] = t[i]
             /\ SubSeq(t, 1, Len(s)) \in Seq(T)
  BY <1>0, <1>1
<1>2. ASSUME Len(s) <= Len(t), \A i \in 1 .. Len(s) : s[i] = t[i]
      PROVE  SubSeq(t, 1, Len(s)) = s
  BY <1>0, <1>1, <1>2
<1> QED
  BY <1>1, <1>2 DEF StartsWith

(* The reserved prefix, as a sequence.                                       *)
LEMMA ReservedShape ==
  ASSUME NEW S, {"l", "m"} \subseteq S
  PROVE  Reserved \in Seq(S) /\ Len(Reserved) = 2 /\ Reserved[1] = "l" /\ Reserved[2] = "m"
<1>1. Len(Reserved) = 2 /\ Reserved[1] = "l" /\ Reserved[2] = "m"
  BY DEF Reserved
<1>2. Reserved \in [1 .. 2 -> S]
  BY DEF Reserved
<1>3. Reserved \in Seq(S)
  BY <1>2, SeqDef, ZenonT(30)
<1> QED
  BY <1>1, <1>3

(* A sequence with one more element.                                         *)
LEMMA Appended ==
  ASSUME NEW S, NEW s \in Seq(S), NEW u \in S
  PROVE  /\ Append(s, u) \in Seq(S) /\ Len(Append(s, u)) = Len(s) + 1
         /\ \A i \in 1 .. Len(s) : Append(s, u)[i] = s[i]
         /\ Append(s, u)[Len(s) + 1] = u
OBVIOUS

(* A derived slug is the reserved prefix and one more symbol.                *)
LEMMA DerivedShape ==
  \A u : LET d == Derived(u).slug
         IN /\ d \in Seq({"l", "m", u}) /\ Len(d) = 3
            /\ d[1] = "l" /\ d[2] = "m" /\ d[3] = u
<1> TAKE u
<1> DEFINE S == {"l", "m", u}
<1>1. {"l", "m"} \subseteq S /\ u \in S
  OBVIOUS
<1> HIDE DEF S
<1>2. Reserved \in Seq(S) /\ Len(Reserved) = 2 /\ Reserved[1] = "l" /\ Reserved[2] = "m"
  BY <1>1, ReservedShape
<1> DEFINE d == Append(Reserved, u)
<1>3. /\ d \in Seq(S) /\ Len(d) = Len(Reserved) + 1
      /\ \A i \in 1 .. Len(Reserved) : d[i] = Reserved[i]
      /\ d[Len(Reserved) + 1] = u
  BY <1>1, <1>2, Appended, ZenonT(30)
<1> HIDE DEF d
<1>4. Len(Reserved) + 1 = 3 /\ 1 \in 1 .. Len(Reserved) /\ 2 \in 1 .. Len(Reserved)
  BY <1>2
<1>5. Len(d) = 3 /\ d[1] = "l" /\ d[2] = "m" /\ d[3] = u
  BY <1>2, <1>3, <1>4
<1>6. Derived(u).slug = d
  BY DEF Derived, d
<1> QED
  BY <1>3, <1>5, <1>6 DEF S

(* Derived slugs of different UIDs do not overlap.                           *)
LEMMA DerivedDisjoint ==
  ASSUME NEW u, NEW v, u # v
  PROVE  ~Overlap(Derived(u).slug, Derived(v).slug)
<1> DEFINE d == Derived(u).slug
           e == Derived(v).slug
<1>1. /\ d \in Seq({"l", "m", u}) /\ Len(d) = 3 /\ d[3] = u
      /\ e \in Seq({"l", "m", v}) /\ Len(e) = 3 /\ e[3] = v
  BY DerivedShape
<1> HIDE DEF d, e
<1>2. ~StartsWith(e, d) /\ ~StartsWith(d, e)
  <2>1. 3 \in 1 .. Len(d) /\ 3 \in 1 .. Len(e)
    BY <1>1
  <2>2. StartsWith(e, d) => d[3] = e[3]
    BY <1>1, <2>1, PrefixPointwise
  <2>3. StartsWith(d, e) => d[3] = e[3]
    BY <1>1, <2>1, PrefixPointwise
  <2> QED
    BY <1>1, <2>2, <2>3
<1>3. ~Overlap(d, e)
  BY <1>2 DEF Overlap
<1> QED
  BY <1>3 DEF d, e

(* A slug apart from the reserved prefix is apart from every derived slug.   *)
LEMMA LegacyDisjoint ==
  ASSUME NEW s \in Seq(STRING), ~Overlap(s, Reserved), NEW u
  PROVE  ~Overlap(s, Derived(u).slug)
<1> DEFINE d == Derived(u).slug
<1>d. d \in Seq({"l", "m", u}) /\ Len(d) = 3 /\ d[1] = "l" /\ d[2] = "m"
  BY DerivedShape
<1> HIDE DEF d
<1>r. Reserved \in Seq({"l", "m"}) /\ Len(Reserved) = 2 /\ Reserved[1] = "l" /\ Reserved[2] = "m"
  BY ReservedShape
<1>n. Len(s) \in Nat
  OBVIOUS
<1>1. ~StartsWith(Reserved, s) /\ ~StartsWith(s, Reserved)
  BY DEF Overlap
<1>2. ASSUME Len(s) <= 2, \A i \in 1 .. Len(s) : s[i] = Reserved[i] PROVE FALSE
  BY <1>1, <1>2, <1>r, PrefixPointwise
<1>3. ASSUME 2 <= Len(s), s[1] = "l", s[2] = "m" PROVE FALSE
  <2>1. \A i \in 1 .. 2 : Reserved[i] = s[i]
    <3> SUFFICES ASSUME NEW i \in 1 .. 2 PROVE Reserved[i] = s[i]
      OBVIOUS
    <3>1. i = 1 \/ i = 2
      OBVIOUS
    <3> QED
      BY <1>3, <1>r, <3>1
  <2> QED
    BY <1>1, <1>3, <1>r, <2>1, PrefixPointwise
<1>4. ASSUME StartsWith(d, s) PROVE FALSE
  <2>1. Len(s) <= 3 /\ \A i \in 1 .. Len(s) : s[i] = d[i]
    BY <1>4, <1>d, PrefixPointwise
  <2>2. CASE Len(s) <= 2
    <3>1. ASSUME NEW i \in 1 .. Len(s) PROVE s[i] = Reserved[i]
      <4>1. i = 1 \/ i = 2
        BY <2>2, <1>n
      <4> QED
        BY <2>1, <4>1, <1>d, <1>r
    <3> QED
      BY <1>2, <2>2, <3>1
  <2>3. CASE Len(s) > 2
    <3>1. 1 \in 1 .. Len(s) /\ 2 \in 1 .. Len(s)
      BY <2>3, <1>n
    <3>2. s[1] = "l" /\ s[2] = "m"
      BY <2>1, <3>1, <1>d
    <3> QED
      BY <1>3, <1>n, <2>3, <3>2
  <2> QED
    BY <1>n, <2>2, <2>3
<1>5. ASSUME StartsWith(s, d) PROVE FALSE
  <2>1. 3 <= Len(s) /\ \A i \in 1 .. 3 : d[i] = s[i]
    BY <1>5, <1>d, PrefixPointwise
  <2>2. 1 \in 1 .. 3 /\ 2 \in 1 .. 3
    OBVIOUS
  <2>3. s[1] = "l" /\ s[2] = "m" /\ 2 <= Len(s)
    BY <1>d, <1>n, <2>1, <2>2
  <2> QED
    BY <1>3, <2>3
<1>6. ~Overlap(s, d)
  BY <1>4, <1>5 DEF Overlap
<1> QED
  BY <1>6 DEF d

(* What a policy selects for an object.                                      *)
LEMMA Selected ==
  ASSUME NEW p, NEW o
  PROVE  \/ Select(p, o) = Refused
         \/ Select(p, o) = Derived(o.uid)
         \/ /\ o.uid \in DOMAIN p.entries /\ p.entries[o.uid].mode = "legacy"
            /\ Select(p, o) = Legacy(p.entries[o.uid].slug)
BY DEF Select

(* Policy.Select never gives two instances slugs of which one is a prefix of *)
(* the other, whatever the policy reviews, and whatever their names and      *)
(* ages: the entries are apart from each other and from the reserved prefix, *)
(* and digests of different UIDs differ.                                     *)
THEOREM SelectedDisjoint ==
  ASSUME NEW p, WellFormed(p), \A u \in DOMAIN p.entries : p.entries[u].slug \in Seq(STRING),
         NEW o, NEW q, o.uid # q.uid, Select(p, o) # Refused, Select(p, q) # Refused
  PROVE  ~Overlap(Select(p, o).slug, Select(p, q).slug)
<1>1. \A u \in DOMAIN p.entries : p.entries[u].mode = "legacy" =>
        p.entries[u].slug \in Seq(STRING) /\ ~Overlap(p.entries[u].slug, Reserved)
  BY DEF WellFormed, ValidEntry
<1>2. \A u, v \in DOMAIN p.entries :
        u # v /\ p.entries[u].mode = "legacy" /\ p.entries[v].mode = "legacy" =>
          ~Overlap(p.entries[u].slug, p.entries[v].slug)
  BY DEF WellFormed, Unambiguous
<1>3. \A s : Legacy(s).slug = s
  BY DEF Legacy
<1>4. \A s, t : Overlap(s, t) <=> Overlap(t, s)
  BY DEF Overlap
<1>5. CASE Select(p, o) = Derived(o.uid) /\ Select(p, q) = Derived(q.uid)
  BY <1>5, DerivedDisjoint
<1>6. CASE /\ q.uid \in DOMAIN p.entries /\ p.entries[q.uid].mode = "legacy"
           /\ Select(p, q) = Legacy(p.entries[q.uid].slug)
           /\ Select(p, o) = Derived(o.uid)
  BY <1>1, <1>3, <1>4, <1>6, LegacyDisjoint
<1>7. CASE /\ o.uid \in DOMAIN p.entries /\ p.entries[o.uid].mode = "legacy"
           /\ Select(p, o) = Legacy(p.entries[o.uid].slug)
           /\ Select(p, q) = Derived(q.uid)
  BY <1>1, <1>3, <1>7, LegacyDisjoint
<1>8. CASE /\ o.uid \in DOMAIN p.entries /\ p.entries[o.uid].mode = "legacy"
           /\ Select(p, o) = Legacy(p.entries[o.uid].slug)
           /\ q.uid \in DOMAIN p.entries /\ p.entries[q.uid].mode = "legacy"
           /\ Select(p, q) = Legacy(p.entries[q.uid].slug)
  BY <1>2, <1>3, <1>8
<1> QED
  BY Selected, <1>5, <1>6, <1>7, <1>8
=============================================================================
