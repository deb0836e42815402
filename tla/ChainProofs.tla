---------------------------- MODULE ChainProofs ----------------------------
(***************************************************************************)
(* What a chain that validates proves, in every tree of zones, whatever    *)
(* the resolvers leave out of their answers, and that what the zones do    *)
(* publish arrives.                                                        *)
(***************************************************************************)
EXTENDS ChainCourier, SequenceTheorems, WellFoundedInduction, TLAPS

-----------------------------------------------------------------------------
\* Names and zones.

\* A prefix agrees label by label.
LEMMA PrefixIs ==
    ASSUME NEW s \in Name, NEW t \in Name
    PROVE  IsPrefix(s, t) <=> Len(s) <= Len(t) /\ \A i \in 1..Len(s) : s[i] = t[i]
<1> DEFINE front == SubSeq(t, 1, Len(s))
<1>1. SubSeq(s, 1, Len(s)) = s
  BY DEF Name
<1>2. CASE Len(s) <= Len(t)
  <2>1. front \in Name /\ Len(front) = Len(s) /\ \A i \in 1..Len(s) : front[i] = t[i]
    BY <1>2 DEF Name
  <2>2. s = front <=> \A i \in 1..Len(s) : s[i] = front[i]
    BY <2>1 DEF Name
  <2> HIDE DEF front
  <2>3. IsPrefix(s, t) <=> s = front
    BY <1>1, <1>2 DEF IsPrefix, front
  <2> QED  BY <1>2, <2>1, <2>2, <2>3
<1>3. CASE ~(Len(s) <= Len(t))
  BY <1>3 DEF IsPrefix
<1> QED  BY <1>2, <1>3

\* The root is above every name.
LEMMA RootAbove ==
    ASSUME NEW n \in Name
    PROVE  Root \in Name /\ IsPrefix(Root, n)
<1>1. Root \in Name /\ Len(Root) = 0
  BY DEF Root, Name
<1>2. Len(n) \in Nat
  BY DEF Name
<1> QED  BY <1>1, <1>2, PrefixIs

\* Of two prefixes of one name the shorter is a prefix of the other.
LEMMA PrefixesNest ==
    ASSUME NEW s \in Name, NEW t \in Name, NEW n \in Name,
           IsPrefix(s, n), IsPrefix(t, n), Len(s) <= Len(t)
    PROVE  IsPrefix(s, t)
<1>1. /\ \A i \in 1..Len(s) : s[i] = n[i]
      /\ \A i \in 1..Len(t) : t[i] = n[i]
  BY PrefixIs
<1>2. \A i \in 1..Len(s) : i \in 1..Len(t)
  BY DEF Name
<1> QED  BY <1>1, <1>2, PrefixIs

\* A prefix of a name other than the name itself is one of the name above it.
LEMMA PrefixOfFront ==
    ASSUME NEW s \in Name, NEW n \in Name, n # Root, IsPrefix(s, n), s # n
    PROVE  Front(n) \in Name /\ IsPrefix(s, Front(n))
<1>1. Len(n) \in Nat \ {0} /\ Len(s) \in Nat
  BY DEF Name, Root
<1>2. Len(s) <= Len(n) /\ \A i \in 1..Len(s) : s[i] = n[i]
  BY PrefixIs
<1>3. Len(s) # Len(n)
  <2> SUFFICES ASSUME Len(s) = Len(n)  PROVE FALSE
    OBVIOUS
  <2> QED  BY <1>2 DEF Name
<1>4. Front(n) \in Name /\ Len(Front(n)) = Len(n) - 1
      /\ \A i \in 1..(Len(n) - 1) : Front(n)[i] = n[i]
  <2> DEFINE m == Len(n) - 1
  <2>1. m \in Nat /\ 1 \in Int /\ \A i \in 1..m : n[i] \in STRING
    BY <1>1 DEF Name
  <2> HIDE DEF m
  <2>2. /\ SubSeq(n, 1, m) \in Seq(STRING)
        /\ Len(SubSeq(n, 1, m)) = IF 1 <= m THEN m - 1 + 1 ELSE 0
        /\ \A i \in 1..(m - 1 + 1) : SubSeq(n, 1, m)[i] = n[1 + i - 1]
    BY <2>1, SubSeqProperties
  <2>3. Len(SubSeq(n, 1, m)) = m
    BY <2>1, <2>2
  <2>4. \A i \in 1..m : SubSeq(n, 1, m)[i] = n[i]
    BY <2>1, <2>2
  <2> QED  BY <2>2, <2>3, <2>4 DEF Name, Front, m
<1>5. \A i \in 1..Len(s) : i \in 1..(Len(n) - 1)
  BY <1>1, <1>2, <1>3
<1> QED  BY <1>1, <1>2, <1>3, <1>4, <1>5, PrefixIs

\* A set of naturals that has one has a greatest, if it is bounded.
LEMMA BoundedHasGreatest ==
    ASSUME NEW S \in SUBSET Nat, NEW bound \in Nat, S # {}, \A x \in S : x <= bound
    PROVE  \E x \in S : \A y \in S : y <= x
<1> DEFINE T == {bound - x : x \in S}
<1>1. T \in SUBSET Nat /\ T # {}
  OBVIOUS
<1>2. PICK m \in T : \A k \in T : ~(<<k, m>> \in OpToRel(<, Nat))
  BY <1>1, NatLessThanWellFounded, WFMin
<1>3. \A k \in T : m <= k
  <2>1. \A k \in T : ~(k < m)
    BY <1>1, <1>2 DEF OpToRel
  <2> QED  BY <1>1, <2>1
<1>4. PICK x \in S : m = bound - x
  OBVIOUS
<1>5. \A y \in S : bound - x <= bound - y
  BY <1>3, <1>4
<1> QED  BY <1>5

\* Every name is in a zone: the deepest cut above or at it.
LEMMA ZoneIs ==
    ASSUME NEW w \in Worlds, NEW n \in Name
    PROVE  /\ ZoneOf(w, n) \in DOMAIN w.cut /\ IsPrefix(ZoneOf(w, n), n)
           /\ \A y \in DOMAIN w.cut : IsPrefix(y, n) => Len(y) <= Len(ZoneOf(w, n))
<1> DEFINE Above == {z \in DOMAIN w.cut : IsPrefix(z, n)}
           lengths == {Len(z) : z \in Above}
<1>1. DOMAIN w.cut \subseteq Name /\ Root \in DOMAIN w.cut
  BY CourierAssumption
<1>2. Root \in Above
  BY <1>1, RootAbove
<1>3. Len(n) \in Nat /\ \A z \in Above : Len(z) \in Nat /\ Len(z) <= Len(n)
  BY <1>1, PrefixIs DEF Name
<1>4. lengths \in SUBSET Nat /\ lengths # {} /\ \A x \in lengths : x <= Len(n)
  BY <1>2, <1>3
<1>5. PICK x \in lengths : \A y \in lengths : y <= x
  BY <1>3, <1>4, BoundedHasGreatest
<1>6. \E z \in DOMAIN w.cut :
         /\ IsPrefix(z, n)
         /\ \A y \in DOMAIN w.cut : IsPrefix(y, n) => Len(y) <= Len(z)
  BY <1>5
<1> QED  BY <1>6 DEF ZoneOf

\* Every cut above a name in a zone is that zone or above it.
LEMMA CutsAbove ==
    ASSUME NEW w \in Worlds, NEW n \in Name, NEW y \in DOMAIN w.cut, IsPrefix(y, n)
    PROVE  IsPrefix(y, ZoneOf(w, n))
<1>1. DOMAIN w.cut \subseteq Name
  BY CourierAssumption
<1>2. /\ ZoneOf(w, n) \in DOMAIN w.cut /\ IsPrefix(ZoneOf(w, n), n)
      /\ Len(y) <= Len(ZoneOf(w, n))
  BY ZoneIs
<1> QED  BY <1>1, <1>2, PrefixesNest

-----------------------------------------------------------------------------
\* The path of aliases.

Onward(w, n) == IF n \in DOMAIN w.alias THEN w.alias[n] ELSE n

\* at lists the names that a path from n visits in m hops.
Visits(w, n, m, at) == at = [i \in 0..m |-> IF i = 0 THEN n ELSE Onward(w, at[i - 1])]

LEMMA PathExists ==
    ASSUME NEW w, NEW n, NEW m \in Nat
    PROVE  \E at : Visits(w, n, m, at)
<1> DEFINE Listed(k) == \E at : Visits(w, n, k, at)
           Bad == {k \in Nat : ~Listed(k)}
<1>1. Listed(0)
  <2> DEFINE at == [i \in 0..0 |-> n]
  <2>1. \A i \in 0..0 : i = 0
    OBVIOUS
  <2>2. Visits(w, n, 0, at)
    BY <2>1 DEF Visits
  <2> HIDE DEF at
  <2> QED  BY <2>2
<1>2. ASSUME NEW k \in Nat \ {0}, Listed(k - 1)
      PROVE  Listed(k)
  <2>1. PICK before : Visits(w, n, k - 1, before)
    BY <1>2
  <2> DEFINE at == [i \in 0..k |-> IF i = k THEN Onward(w, before[k - 1]) ELSE before[i]]
             turn(i) == IF i = 0 THEN n ELSE Onward(w, at[i - 1])
  <2>2. \A i \in 0..(k-1) : before[i] = IF i = 0 THEN n ELSE Onward(w, before[i - 1])
    BY <2>1 DEF Visits
  <2>3. \A i \in 0..k : at[i] = turn(i)
    <3>1. \A i \in 0..k : i = k \/ i \in 0..(k-1)
      OBVIOUS
    <3>2. at[k - 1] = before[k - 1] /\ at[k] = Onward(w, before[k - 1])
      OBVIOUS
    <3>3. \A i \in 0..(k-1) : at[i] = before[i] /\ (i # 0 => at[i - 1] = before[i - 1])
      OBVIOUS
    <3> HIDE DEF at
    <3> QED  BY <2>2, <3>1, <3>2, <3>3
  <2>4. at = [i \in 0..k |-> turn(i)]
    <3>1. at = [i \in 0..k |-> at[i]]
      OBVIOUS
    <3> HIDE DEF at
    <3> QED  BY <2>3, <3>1
  <2> HIDE DEF at
  <2>5. Visits(w, n, k, at)
    BY <2>4 DEF Visits
  <2> QED  BY <2>5
<1> HIDE DEF Listed
<1>3. Bad = {}
  <2> SUFFICES ASSUME Bad # {}  PROVE FALSE
    OBVIOUS
  <2>1. PICK k \in Bad : \A j \in Bad : ~(<<j, k>> \in OpToRel(<, Nat))
    BY NatLessThanWellFounded, WFMin
  <2>2. \A j \in Bad : ~(j < k)
    BY <2>1 DEF OpToRel
  <2>3. k \in Nat \ {0} /\ k - 1 \in Nat /\ k - 1 < k
    BY <1>1
  <2> QED  BY <1>2, <2>2, <2>3
<1> QED  BY <1>3 DEF Listed

LEMMA VisitedIs ==
    ASSUME NEW w, NEW n, NEW hops \in Nat
    PROVE  /\ DOMAIN Visited(w, n, hops) = 0..hops
           /\ Visited(w, n, hops)[0] = n
           /\ \A i \in 1..hops : Visited(w, n, hops)[i] = Onward(w, Visited(w, n, hops)[i - 1])
<1>1. \E at : Visits(w, n, hops, at)
  BY PathExists
<1>2. Visits(w, n, hops, Visited(w, n, hops))
  BY <1>1 DEF Visits, Visited, Onward
<1> QED  BY <1>2 DEF Visits

\* A path that comes to a name that is no alias stays there.
LEMMA PathEnds ==
    ASSUME NEW w, NEW n, NEW hops \in Nat, NEW k \in 0..hops,
           Visited(w, n, hops)[k] \notin DOMAIN w.alias
    PROVE  \A i \in k..hops : Visited(w, n, hops)[i] = Visited(w, n, hops)[k]
<1> DEFINE at == Visited(w, n, hops)
           Bad == {i \in k..hops : at[i] # at[k]}
<1>1. \A i \in 1..hops : at[i] = Onward(w, at[i - 1])
  BY VisitedIs
<1> HIDE DEF at
<1>2. Bad = {}
  <2> SUFFICES ASSUME Bad # {}  PROVE FALSE
    OBVIOUS
  <2>0. Bad \subseteq Nat
    OBVIOUS
  <2>1. PICK i \in Bad : \A j \in Bad : ~(<<j, i>> \in OpToRel(<, Nat))
    BY <2>0, NatLessThanWellFounded, WFMin
  <2>2. \A j \in Bad : ~(j < i)
    BY <2>0, <2>1 DEF OpToRel
  <2>3. i # k /\ i - 1 \in k..hops /\ i \in 1..hops /\ i - 1 < i
    OBVIOUS
  <2>4. at[i - 1] = at[k]
    BY <2>2, <2>3
  <2>5. at[i] = at[k]
    BY <1>1, <2>3, <2>4 DEF Onward, at
  <2> QED  BY <2>5
<1> QED  BY <1>2 DEF at

-----------------------------------------------------------------------------
\* What a resolver can answer of a world, at any stage of its key rolls: nothing but
\* RRsets that are there, signed by the zone that they are in.

Rtypes == {"DNSKEY", "DS", "CNAME", "TXT"}

Said(w) ==
    UNION {UNION {UNION {Rrsets(w, st, n, rtype) : rtype \in Rtypes} :
                  n \in DOMAIN w.cut \cup DOMAIN w.alias \cup w.txt} :
           st \in [DOMAIN w.cut -> Stages]}

LEMMA SaidIs ==
    ASSUME NEW w \in Worlds, NEW r \in Said(w)
    PROVE  /\ r.owner \in Name /\ r.rtype \in Rtypes
           /\ r.rtype = "DNSKEY" => r.owner \in Signing(w)
           /\ r.rtype = "DS" => r.owner \in Delegated(w)
           /\ r.rtype = "CNAME" => r.owner \in DOMAIN w.alias /\ r.data = w.alias[r.owner]
           /\ r.rtype = "TXT" => r.owner \in w.txt
           /\ r.expanded <=> r.owner \in w.wild
           /\ DOMAIN r.signatures \subseteq Nat
           /\ \A i \in DOMAIN r.signatures :
                 /\ r.signatures[i].signer = SigningZone(w, r.owner, r.rtype)
                 /\ r.signatures[i].signer \in DOMAIN w.cut
                 /\ \E k \in Keys : r.signatures[i].window = w.window[r.signatures[i].signer][k]
<1>1. PICK st \in [DOMAIN w.cut -> Stages], n \in DOMAIN w.cut \cup DOMAIN w.alias \cup w.txt,
           rtype \in Rtypes : r \in Rrsets(w, st, n, rtype)
  BY DEF Said
<1>2. n \in Name
  BY CourierAssumption
<1>3. PICK d \in Data(w, st, n, rtype) :
         r = [owner |-> n, rtype |-> rtype, data |-> d, expanded |-> n \in w.wild,
              signatures |-> Signatures(w, st, SigningZone(w, n, rtype))]
  BY <1>1 DEF Rrsets
<1>4. /\ r.owner = n /\ r.rtype = rtype /\ r.data = d /\ r.expanded = (n \in w.wild)
      /\ r.signatures = Signatures(w, st, SigningZone(w, n, rtype))
  BY <1>3
<1>5. /\ rtype = "DNSKEY" => n \in Signing(w)
      /\ rtype = "DS" => n \in Delegated(w)
      /\ rtype = "CNAME" => n \in DOMAIN w.alias /\ d = w.alias[n]
      /\ rtype = "TXT" => n \in w.txt
  BY <1>3 DEF Data, Rtypes
<1>6. SigningZone(w, n, rtype) \in DOMAIN w.cut
  <2>1. CASE rtype = "DS"
    <3>1. n # Root /\ n \in DOMAIN w.cut
      BY <1>5, <2>1 DEF Delegated
    <3>2. IsPrefix(Root, n) /\ Root \in Name
      BY <1>2, RootAbove
    <3>3. Front(n) \in Name
      BY <1>2, <3>1, <3>2, PrefixOfFront
    <3> QED  BY <2>1, <3>3, ZoneIs DEF SigningZone
  <2>2. CASE rtype # "DS"
    BY <1>2, <2>2, ZoneIs DEF SigningZone
  <2> QED  BY <2>1, <2>2
<1>7. ASSUME NEW z \in DOMAIN w.cut, NEW i \in DOMAIN Signatures(w, st, z)
      PROVE  /\ Signatures(w, st, z)[i].signer = z
             /\ \E k \in Keys : Signatures(w, st, z)[i].window = w.window[z][k]
  <2>1. w.cut[z].signed
    BY <1>7 DEF Signatures
  <2>2. st[z] \in Stages
    OBVIOUS
  <2>3. \A j \in 1..Len(KeysAt(st[z])) : KeysAt(st[z])[j] \in Keys
    BY <2>2 DEF Stages, KeysAt, Keys
  <2>4. /\ i \in 1..Len(KeysAt(st[z]))
        /\ Signatures(w, st, z)[i] = [signer |-> z, key |-> KeysAt(st[z])[i],
                                      window |-> w.window[z][KeysAt(st[z])[i]]]
    BY <1>7, <2>1 DEF Signatures
  <2> QED  BY <2>3, <2>4
<1>8. ASSUME NEW i \in DOMAIN r.signatures
      PROVE  /\ r.signatures[i].signer = SigningZone(w, n, rtype)
             /\ \E k \in Keys : r.signatures[i].window = w.window[r.signatures[i].signer][k]
  <2> DEFINE z == SigningZone(w, n, rtype)
  <2>1. r.signatures = Signatures(w, st, z) /\ z \in DOMAIN w.cut
    BY <1>4, <1>6
  <2> HIDE DEF z
  <2>2. /\ r.signatures[i].signer = z
        /\ \E k \in Keys : r.signatures[i].window = w.window[z][k]
    BY <1>7, <2>1
  <2> QED  BY <2>2 DEF z
<1>9. r.expanded <=> r.owner \in w.wild
  BY <1>4
<1>10. DOMAIN r.signatures \subseteq Nat
  <2> DEFINE z == SigningZone(w, n, rtype)
  <2>1. st[z] \in Stages
    BY <1>6
  <2>2. Len(KeysAt(st[z])) \in Nat
    BY <2>1 DEF Stages, KeysAt
  <2>3. DOMAIN Signatures(w, st, z) \subseteq Nat
    <3> HIDE DEF z
    <3> QED  BY <2>2 DEF Signatures
  <2> QED  BY <1>4, <2>3
<1> QED  BY <1>2, <1>4, <1>5, <1>6, <1>8, <1>9, <1>10

-----------------------------------------------------------------------------
\* The validator's walk.

Way(w) == Visited(w, Owner, MaxHops)

\* Every zone above or at a name signs, and is securely delegated.
Trusted(w, n) ==
    \A z \in DOMAIN w.cut : IsPrefix(z, n) => w.cut[z].signed /\ (z # Root => w.cut[z].ds)

Shaped(v) ==
    v = [zone |-> v.zone, keys |-> v.keys, rootKeys |-> v.rootKeys, target |-> v.target,
         pending |-> v.pending, hops |-> v.hops, window |-> v.window, verdict |-> v.verdict]

\* A walk stands in a zone that is trusted, on the way of the owner's aliases, and all
\* that it has passed there is trusted. A delegation pending is one of that zone.
Guided(w, v) ==
    /\ v.zone \in DOMAIN w.cut /\ Trusted(w, v.zone)
    /\ v.hops \in 0..MaxHops /\ v.target = Way(w)[v.hops]
    /\ \A i \in 0..MaxHops : i < v.hops => Trusted(w, Way(w)[i])
    /\ v.pending # <<>> =>
          /\ v.pending[1] \in Said(w) /\ v.pending[1].rtype = "DS"
          /\ ZoneOf(w, Front(v.pending[1].owner)) = v.zone

Arrived(w, v) == v.target \in w.txt \ w.wild /\ Trusted(w, v.target)

Sound(w, v) ==
    /\ Shaped(v)
    /\ v.verdict \in {"Walking", "Proven"} => Guided(w, v)
    /\ v.verdict = "Proven" => Arrived(w, v)

\* Only the window may differ.
StaysPut(u, v) ==
    /\ u.zone = v.zone /\ u.keys = v.keys /\ u.rootKeys = v.rootKeys
    /\ u.target = v.target /\ u.pending = v.pending /\ u.hops = v.hops

\* A link verified leaves the walk where it is, and its zone has signed it.
LEMMA VerifiedIs ==
    ASSUME NEW v, Shaped(v), Walks(v), NEW link
    PROVE  /\ Shaped(Verified(v, link)) /\ Verified(v, link).verdict # "Proven"
           /\ Walks(Verified(v, link)) =>
                 /\ StaysPut(Verified(v, link), v)
                 /\ \E i \in DOMAIN link.signatures : link.signatures[i].signer = v.zone
<1> DEFINE i0 == CHOOSE i \in Usable(v, link) : \A j \in Usable(v, link) : i <= j
           used == link.signatures[i0].window
           joint == <<Later(v.window[1], used[1]), Earlier(v.window[2], used[2])>>
<1>1. \A verdict : /\ Shaped(Ended(v, verdict)) /\ Ended(v, verdict).verdict = verdict
  BY DEF Shaped, Ended
<1>2. ASSUME NEW win, NEW u, u = [v EXCEPT !.window = win]
      PROVE  Shaped(u) /\ u.verdict = "Walking" /\ StaysPut(u, v)
  BY <1>2 DEF Shaped, Walks, StaysPut
<1>3. CASE Usable(v, link) = {}
  BY <1>1, <1>3 DEF Verified, Walks
<1>4. CASE Usable(v, link) # {}
  <2>1. \E i \in DOMAIN link.signatures : link.signatures[i].signer = v.zone
    BY <1>4 DEF Usable
  <2>2. Verified(v, link) = IF joint[2] < joint[1] THEN Ended(v, "EmptyWindow")
                            ELSE [v EXCEPT !.window = joint]
    BY <1>4 DEF Verified
  <2> HIDE DEF joint
  <2>3. CASE joint[2] < joint[1]
    <3>1. Verified(v, link) = Ended(v, "EmptyWindow")
      BY <2>2, <2>3
    <3> QED  BY <1>1, <3>1 DEF Walks
  <2>4. CASE ~(joint[2] < joint[1])
    <3>1. Verified(v, link) = [v EXCEPT !.window = joint]
      BY <2>2, <2>4
    <3>2. /\ Shaped(Verified(v, link)) /\ Verified(v, link).verdict = "Walking"
          /\ StaysPut(Verified(v, link), v)
      BY <1>2, <3>1
    <3> QED  BY <2>1, <3>1, <3>2
  <2> QED  BY <2>3, <2>4
<1> QED  BY <1>3, <1>4

\* The keys of the root are those of a trusted zone.
LEMMA RootTrusted ==
    ASSUME NEW w \in Worlds
    PROVE  Root \in DOMAIN w.cut /\ Trusted(w, Root)
<1>1. Root \in DOMAIN w.cut /\ w.cut[Root].signed /\ DOMAIN w.cut \subseteq Name
  BY CourierAssumption
<1>2. ASSUME NEW z \in DOMAIN w.cut, IsPrefix(z, Root)  PROVE z = Root
  <2>1. z \in Seq(STRING) /\ Root \in Name /\ z \in Name
    BY <1>1 DEF Name
  <2>2. Len(z) <= Len(Root)
    BY <1>2, <2>1, PrefixIs
  <2>3. Len(z) = 0
    BY <2>1, <2>2 DEF Root
  <2> QED  BY <2>1, <2>3 DEF Root
<1> QED  BY <1>1, <1>2 DEF Trusted

\* What a trusted zone has signed of its own records is all trusted.
LEMMA TrustedBelow ==
    ASSUME NEW w \in Worlds, NEW n \in Name, Trusted(w, ZoneOf(w, n))
    PROVE  Trusted(w, n)
BY CutsAbove DEF Trusted

\* So is the zone that it securely delegates to, once that zone has signed.
LEMMA TrustedChild ==
    ASSUME NEW w \in Worlds, NEW n \in Delegated(w), n \in Signing(w),
           Trusted(w, ZoneOf(w, Front(n)))
    PROVE  Trusted(w, n)
<1>1. n \in DOMAIN w.cut /\ n # Root /\ w.cut[n].ds /\ w.cut[n].signed
  BY DEF Delegated, Signing
<1>2. DOMAIN w.cut \subseteq Name
  BY CourierAssumption
<1>3. ASSUME NEW z \in DOMAIN w.cut, IsPrefix(z, n), z # n
      PROVE  w.cut[z].signed /\ (z # Root => w.cut[z].ds)
  <2>1. Front(n) \in Name /\ IsPrefix(z, Front(n))
    BY <1>1, <1>2, <1>3, PrefixOfFront
  <2>2. IsPrefix(z, ZoneOf(w, Front(n)))
    BY <2>1, CutsAbove
  <2> QED  BY <2>2 DEF Trusted
<1> QED  BY <1>1, <1>3 DEF Trusted

\* A delegation: the zone says who holds the zone below.
LEMMA DelegationGuided ==
    ASSUME NEW w \in Worlds, NEW v, Shaped(v), Guided(w, v), Walks(v),
           NEW link \in Said(w), link.rtype = "DS"
    PROVE  Sound(w, Delegation(v, link))
<1> DEFINE here == Verified(v, link)
           next == [here EXCEPT !.pending = <<link>>]
<1>1. CASE ~IsStrictPrefix(v.zone, link.owner)
  BY <1>1 DEF Delegation, Sound, Ended, Shaped
<1>2. CASE IsStrictPrefix(v.zone, link.owner)
  <2>1. Delegation(v, link) = next
    BY <1>2 DEF Delegation
  <2>2. Shaped(here) /\ here.verdict # "Proven"
    BY VerifiedIs
  <2> HIDE DEF here
  <2>3. /\ Shaped(next) /\ next.verdict = here.verdict /\ next.zone = here.zone
        /\ next.target = here.target /\ next.hops = here.hops /\ next.pending[1] = link
    BY <2>2 DEF Shaped
  <2> HIDE DEF next
  <2>4. CASE ~Walks(here)
    BY <2>1, <2>2, <2>3, <2>4 DEF Sound, Walks
  <2>5. CASE Walks(here)
    <3>1. StaysPut(here, v)
      BY <2>5, VerifiedIs DEF here
    <3>2. PICK i \in DOMAIN link.signatures : link.signatures[i].signer = v.zone
      BY <2>5, VerifiedIs DEF here
    <3>3. ZoneOf(w, Front(link.owner)) = v.zone
      BY <3>2, SaidIs DEF SigningZone
    <3>5. /\ next.zone = v.zone /\ next.target = v.target /\ next.hops = v.hops
          /\ next.pending[1] = link /\ next.verdict = "Walking"
      BY <2>3, <2>5, <3>1 DEF StaysPut, Walks
    <3>6. Guided(w, next)
      BY <3>3, <3>5 DEF Guided
    <3> QED  BY <2>1, <2>3, <3>5, <3>6 DEF Sound
  <2> QED  BY <2>4, <2>5
<1> QED  BY <1>1, <1>2

\* The keys of the zone below, which agree with the delegation and sign themselves.
LEMMA DescendGuided ==
    ASSUME NEW w \in Worlds, NEW v, Shaped(v), Guided(w, v), Walks(v), v.pending # <<>>,
           NEW link \in Said(w)
    PROVE  Sound(w, Descend(v, link))
<1> DEFINE child == [v EXCEPT !.zone = link.owner, !.keys = link.data, !.pending = <<>>]
           next == Verified(child, link)
<1>1. CASE link.rtype # "DNSKEY" \/ link.owner # v.pending[1].owner
  BY <1>1 DEF Descend, Sound, Ended, Shaped
<1>2. CASE link.rtype = "DNSKEY" /\ link.owner = v.pending[1].owner
           /\ link.data \cap v.pending[1].data = {}
  BY <1>2 DEF Descend, Sound, Ended, Shaped
<1>3. CASE link.rtype = "DNSKEY" /\ link.owner = v.pending[1].owner
           /\ link.data \cap v.pending[1].data # {}
  <2>1. Descend(v, link) = next
    BY <1>3 DEF Descend
  <2>3. /\ Shaped(child) /\ Walks(child) /\ child.zone = link.owner /\ child.target = v.target
        /\ child.hops = v.hops /\ child.pending = <<>>
    <3>1. ASSUME NEW c, c = [v EXCEPT !.zone = link.owner, !.keys = link.data, !.pending = <<>>]
          PROVE  /\ Shaped(c) /\ c.verdict = v.verdict /\ c.zone = link.owner
                 /\ c.target = v.target /\ c.hops = v.hops /\ c.pending = <<>>
      BY <3>1 DEF Shaped
    <3> QED  BY <3>1 DEF Walks
  <2> HIDE DEF child
  <2>4. Shaped(next) /\ next.verdict # "Proven"
    BY <2>3, VerifiedIs
  <2>5. link.owner \in Signing(w) /\ link.owner \in Delegated(w)
    BY <1>3, SaidIs DEF Guided
  <2>6. link.owner \in DOMAIN w.cut /\ Trusted(w, link.owner)
    BY <1>3, <2>5, TrustedChild DEF Guided, Delegated
  <2>7. CASE ~Walks(next)
    BY <2>1, <2>4, <2>7 DEF Sound, Walks
  <2>8. CASE Walks(next)
    <3>1. StaysPut(next, child)
      BY <2>3, <2>8, VerifiedIs
    <3> HIDE DEF next
    <3>3. /\ next.zone = link.owner /\ next.target = v.target /\ next.hops = v.hops
          /\ next.pending = <<>> /\ next.verdict = "Walking"
      BY <2>3, <2>8, <3>1 DEF StaysPut, Walks
    <3>4. Guided(w, next)
      BY <2>6, <3>3 DEF Guided
    <3> QED  BY <2>1, <2>4, <3>3, <3>4 DEF Sound, next
  <2> QED  BY <2>7, <2>8
<1> QED  BY <1>1, <1>2, <1>3

\* What a verified link of the current zone is about is all trusted.
LEMMA SignedIsTrusted ==
    ASSUME NEW w \in Worlds, NEW v, Guided(w, v), NEW link \in Said(w), link.rtype # "DS",
           \E i \in DOMAIN link.signatures : link.signatures[i].signer = v.zone
    PROVE  Trusted(w, link.owner)
<1>1. link.owner \in Name /\ ZoneOf(w, link.owner) = v.zone
  BY SaidIs DEF SigningZone
<1> QED  BY <1>1, TrustedBelow DEF Guided

\* An alias: one hop further on the way.
LEMMA FollowGuided ==
    ASSUME NEW w \in Worlds, NEW v, Shaped(v), Guided(w, v), Walks(v), v.pending = <<>>,
           NEW link \in Said(w), link.rtype = "CNAME"
    PROVE  Sound(w, FollowCname(v, link))
<1> DEFINE seen == Verified(v, link)
           here == [seen EXCEPT !.target = link.data, !.hops = @ + 1]
           root == [here EXCEPT !.zone = Root, !.keys = v.rootKeys]
           next == FollowCname(v, link)
<1>1. CASE v.hops >= MaxHops \/ link.owner # v.target
  BY <1>1 DEF FollowCname, Sound, Ended, Shaped
<1>2. CASE ~(v.hops >= MaxHops) /\ link.owner = v.target
  <2>1. next = here \/ next = root
    BY <1>2 DEF FollowCname
  <2>2. Shaped(seen) /\ seen.verdict # "Proven"
    BY VerifiedIs
  <2> HIDE DEF seen, next
  <2>3. /\ Shaped(here) /\ here.verdict = seen.verdict /\ here.zone = seen.zone
        /\ here.target = link.data /\ here.hops = seen.hops + 1 /\ here.pending = seen.pending
    <3>1. ASSUME NEW c, c = [seen EXCEPT !.target = link.data, !.hops = @ + 1]
          PROVE  /\ Shaped(c) /\ c.verdict = seen.verdict /\ c.zone = seen.zone
                 /\ c.target = link.data /\ c.hops = seen.hops + 1 /\ c.pending = seen.pending
      BY <2>2, <3>1 DEF Shaped
    <3> QED  BY <3>1
  <2> HIDE DEF here
  <2>6. /\ Shaped(root) /\ root.verdict = here.verdict /\ root.zone = Root
        /\ root.target = here.target /\ root.hops = here.hops /\ root.pending = here.pending
    <3>1. ASSUME NEW c, c = [here EXCEPT !.zone = Root, !.keys = v.rootKeys]
          PROVE  /\ Shaped(c) /\ c.verdict = here.verdict /\ c.zone = Root
                 /\ c.target = here.target /\ c.hops = here.hops /\ c.pending = here.pending
      BY <2>3, <3>1 DEF Shaped
    <3> QED  BY <3>1
  <2> HIDE DEF root
  <2>4. CASE ~Walks(seen)
    BY <2>1, <2>2, <2>3, <2>4, <2>6 DEF Sound, Walks, next
  <2>5. CASE Walks(seen)
    <3>1. /\ StaysPut(seen, v)
          /\ \E i \in DOMAIN link.signatures : link.signatures[i].signer = v.zone
      BY <2>5, VerifiedIs DEF seen
    <3>2. Trusted(w, v.target)
      BY <1>2, <3>1, SignedIsTrusted
    <3>3. v.hops + 1 \in 1..MaxHops /\ v.hops \in 0..MaxHops /\ MaxHops \in Nat
      BY <1>2, ValidatorAssumption DEF Guided
    <3>4. link.data = Way(w)[v.hops + 1]
      <4>1. v.target \in DOMAIN w.alias /\ link.data = w.alias[v.target]
        BY <1>2, SaidIs
      <4>2. Way(w)[v.hops + 1] = Onward(w, Way(w)[v.hops + 1 - 1])
        BY <3>3, VisitedIs DEF Way
      <4>3. v.hops + 1 - 1 = v.hops /\ v.target = Way(w)[v.hops]
        BY <3>3 DEF Guided
      <4> QED  BY <4>1, <4>2, <4>3 DEF Onward
    <3>5. \A i \in 0..MaxHops : i < v.hops + 1 => Trusted(w, Way(w)[i])
      <4>1. \A i \in 0..MaxHops : i < v.hops + 1 => i < v.hops \/ i = v.hops
        BY <3>3
      <4> QED  BY <3>2, <4>1 DEF Guided
    <3>8. /\ next.zone \in {v.zone, Root} /\ next.target = link.data /\ next.hops = v.hops + 1
          /\ next.pending = <<>> /\ next.verdict = "Walking" /\ Shaped(next)
      BY <2>1, <2>3, <2>5, <2>6, <3>1 DEF Walks, StaysPut
    <3>9. next.zone \in DOMAIN w.cut /\ Trusted(w, next.zone)
      BY <3>8, RootTrusted DEF Guided
    <3>10. next.hops \in 0..MaxHops
      BY <3>3, <3>8
    <3>11. Guided(w, next)
      BY <3>4, <3>5, <3>8, <3>9, <3>10 DEF Guided
    <3> QED  BY <3>8, <3>11 DEF Sound, next
  <2> QED  BY <2>4, <2>5
<1> QED  BY <1>1, <1>2, ValidatorAssumption DEF Guided

\* The leaf.
LEMMA FinishGuided ==
    ASSUME NEW w \in Worlds, NEW v, Shaped(v), Guided(w, v), Walks(v), v.pending = <<>>,
           NEW link \in Said(w), link.rtype = "TXT"
    PROVE  Sound(w, FinishBinding(v, link))
<1> DEFINE here == Verified(v, link)
           next == FinishBinding(v, link)
<1>1. CASE link.owner # v.target
  BY <1>1 DEF FinishBinding, Sound, Ended, Shaped
<1>2. CASE link.owner = v.target
  <2>1. Shaped(here) /\ here.verdict # "Proven"
    BY VerifiedIs
  <2>2. CASE ~Walks(here)
    <3>1. next = here
      BY <1>2, <2>2 DEF FinishBinding
    <3> HIDE DEF here, next
    <3> QED  BY <2>1, <2>2, <3>1 DEF Sound, Walks, next
  <2>3. CASE Walks(here) /\ link.expanded
    <3>1. next = Ended(v, "WildcardExpansion")
      BY <1>2, <2>3, Zenon DEF FinishBinding
    <3> HIDE DEF next
    <3> QED  BY <3>1 DEF Sound, Ended, Shaped, next
  <2>4. CASE Walks(here) /\ ~link.expanded
    <3>1. next = Ended(here, "Proven")
      BY <1>2, <2>4, Zenon DEF FinishBinding
    <3>2. /\ StaysPut(here, v)
          /\ \E i \in DOMAIN link.signatures : link.signatures[i].signer = v.zone
      BY <2>4, VerifiedIs
    <3>3. Trusted(w, v.target)
      BY <1>2, <3>2, SignedIsTrusted
    <3>4. v.target \in w.txt \ w.wild
      BY <1>2, <2>4, SaidIs
    <3> HIDE DEF here, next
    <3>6. /\ next.zone = v.zone /\ next.target = v.target /\ next.hops = v.hops
          /\ next.pending = v.pending /\ next.verdict = "Proven" /\ Shaped(next)
      BY <2>1, <3>1, <3>2 DEF Shaped, Ended, StaysPut
    <3>7. Guided(w, next)
      BY <3>6 DEF Guided
    <3> QED  BY <3>3, <3>4, <3>6, <3>7 DEF Sound, Arrived, next
  <2> QED  BY <2>2, <2>3, <2>4
<1> QED  BY <1>1, <1>2

\* One step of the walk.
LEMMA StepsSound ==
    ASSUME NEW w \in Worlds, NEW v, Sound(w, v), NEW link \in Said(w)
    PROVE  Sound(w, Step(v, link))
<1>1. CASE ~Walks(v)
  BY <1>1 DEF Step
<1>2. CASE Walks(v)
  <2>1. Shaped(v) /\ Guided(w, v)
    BY <1>2 DEF Sound, Walks
  <2>2. CASE v.pending # <<>>
    BY <1>2, <2>1, <2>2, DescendGuided DEF Step
  <2>3. CASE v.pending = <<>>
    <3>1. link.rtype \in {"DNSKEY", "DS", "CNAME", "TXT"}
      BY SaidIs DEF Rtypes
    <3>2. CASE link.rtype = "DS"
      BY <1>2, <2>1, <2>3, <3>2, DelegationGuided DEF Step
    <3>3. CASE link.rtype = "CNAME"
      BY <1>2, <2>1, <2>3, <3>3, FollowGuided DEF Step
    <3>4. CASE link.rtype = "TXT"
      BY <1>2, <2>1, <2>3, <3>4, FinishGuided DEF Step
    <3>5. CASE link.rtype = "DNSKEY"
      <4>1. Step(v, link) = Ended(v, "UnexpectedLink")
        BY <1>2, <2>3, <3>5 DEF Step
      <4> QED  BY <2>1, <4>1 DEF Sound, Ended, Shaped
    <3> QED  BY <3>1, <3>2, <3>3, <3>4, <3>5
  <2> QED  BY <2>2, <2>3
<1> QED  BY <1>1, <1>2

-----------------------------------------------------------------------------
\* The whole chain, as a fold over its links.

WalkStep(p, v, link) == Step(v, link)

SoundSoFar(p, list, k, v) == Sound(p, v)

Walking == INSTANCE Folding WITH Step <- WalkStep, Holds <- SoundSoFar

\* The walk begins in the root, which is trusted, at the owner.
LEMMA EnterSound ==
    ASSUME NEW w \in Worlds, NEW link \in Said(w)
    PROVE  Sound(w, EnterAnchored(Owner, link))
<1> DEFINE start == [zone |-> Root, keys |-> link.data, rootKeys |-> link.data,
                     target |-> Owner, pending |-> <<>>, hops |-> 0,
                     window |-> <<0, Horizon>>, verdict |-> "Walking"]
           next == Verified(start, link)
<1>1. /\ Shaped(start) /\ Walks(start) /\ start.zone = Root /\ start.target = Owner
      /\ start.hops = 0 /\ start.pending = <<>>
  BY DEF Shaped, Walks
<1>2. EnterAnchored(Owner, link) = Ended(start, "Unanchored") \/ EnterAnchored(Owner, link) = next
  BY DEF EnterAnchored
<1> HIDE DEF start
<1>3. Sound(w, Ended(start, "Unanchored"))
  BY <1>1 DEF Sound, Ended, Shaped
<1>4. Shaped(next) /\ next.verdict # "Proven"
  BY <1>1, VerifiedIs
<1>5. CASE Walks(next)
  <2>1. StaysPut(next, start)
    BY <1>1, <1>5, VerifiedIs
  <2> HIDE DEF next
  <2>2. next.zone = Root /\ next.target = Owner /\ next.hops = 0 /\ next.pending = <<>>
    BY <1>1, <2>1 DEF StaysPut
  <2>3. 0 \in 0..MaxHops /\ Way(w)[0] = Owner
    BY ValidatorAssumption, VisitedIs DEF Way
  <2>4. \A i \in 0..MaxHops : ~(i < 0)
    OBVIOUS
  <2>5. Guided(w, next)
    BY <2>2, <2>3, <2>4, RootTrusted DEF Guided
  <2> QED  BY <1>2, <1>3, <1>4, <2>5 DEF Sound
<1>6. CASE ~Walks(next)
  <2> HIDE DEF next
  <2> QED  BY <1>2, <1>3, <1>4, <1>6 DEF Sound, Walks
<1> QED  BY <1>5, <1>6

\* A proven walk has arrived at the end of the owner's aliases, over trusted zones only.
LEMMA ProvenIsArrived ==
    ASSUME NEW w \in Worlds, NEW chain \in Seq(Said(w)),
           Validate(Owner, chain).verdict = "Proven"
    PROVE  Guided(w, Validate(Owner, chain)) /\ Arrived(w, Validate(Owner, chain))
<1> DEFINE first == EnterAnchored(Owner, Head(chain))
           list == Tail(chain)
           n == Len(list)
           end == Walking!Run(w, first, list)[DOMAIN list]
<1>1. chain # <<>>
  <2> SUFFICES ASSUME chain = <<>>  PROVE FALSE
    OBVIOUS
  <2>1. Validate(Owner, chain) = [verdict |-> "Empty"]
    BY DEF Validate, Refused
  <2> QED  BY <2>1
<1>2. Head(chain) \in Said(w) /\ list \in Seq(Said(w))
  BY <1>1
<1>3. FoldLeft(Step, first, list) = end
  BY Zenon DEF FoldLeft, MapThenFoldSet, Max, WalkStep, Walking!Run, Walking!Runs,
               Walking!Greatest
<1>4. SoundSoFar(w, list, 0, first)
  BY <1>2, EnterSound DEF SoundSoFar
<1> HIDE DEF first
<1>5. n \in Nat /\ DOMAIN list = 1..n
  BY <1>2
<1>6. ASSUME NEW k \in 1..n, NEW v, SoundSoFar(w, list, k - 1, v)
      PROVE  SoundSoFar(w, list, k, WalkStep(w, v, list[k]))
  <2>1. list[k] \in Said(w)
    BY <1>2, <1>5
  <2> HIDE DEF list
  <2> QED  BY <1>6, <2>1, StepsSound DEF SoundSoFar, WalkStep
<1>7. SoundSoFar(w, list, n, end)
  <2> HIDE DEF end, n, list
  <2> QED  BY <1>4, <1>5, <1>6, Walking!Kept DEF end
<1> HIDE DEF end, n
<1>8. Sound(w, end)
  BY <1>7 DEF SoundSoFar
<1>9. Validate(Owner, chain) = end
  <2>1. \/ Validate(Owner, chain) \in {Refused("Empty"), Refused("Parse"), Refused("UnexpectedLink")}
        \/ Walks(end) /\ Validate(Owner, chain) = Ended(end, "MissingLeaf")
        \/ Validate(Owner, chain) = end
    BY <1>3 DEF Validate, first
  <2>2. \A why \in {"Empty", "Parse", "UnexpectedLink"} : Refused(why).verdict # "Proven"
    BY DEF Refused
  <2>3. Walks(end) => Ended(end, "MissingLeaf").verdict = "MissingLeaf"
    BY <1>8 DEF Sound, Ended, Shaped
  <2> QED  BY <2>1, <2>2, <2>3
<1> QED  BY <1>8, <1>9 DEF Sound

-----------------------------------------------------------------------------
\* The window of a walk.

Timed(v) == v.window \in Nat \X Nat /\ v.window[1] <= v.window[2]

Tighter(u, v) == v.window[1] <= u.window[1] /\ u.window[2] <= v.window[2]

\* One of the link's signatures is in force at every moment of the walk's window.
Covers(link, v) ==
    \E j \in DOMAIN link.signatures :
        LET win == link.signatures[j].window
        IN  win[1] <= v.window[1] /\ v.window[2] <= win[2]

\* What a verified link covers it goes on covering as the window gets tighter.
LEMMA CoversOn ==
    ASSUME NEW w \in Worlds, NEW link \in Said(w), NEW u, NEW v, Timed(u), Timed(v),
           Tighter(u, v), Covers(link, v)
    PROVE  Covers(link, u)
<1>1. PICK j \in DOMAIN link.signatures :
         LET win == link.signatures[j].window
         IN  win[1] <= v.window[1] /\ v.window[2] <= win[2]
  BY DEF Covers
<1> DEFINE win == link.signatures[j].window
<1>2. win \in Nat \X Nat
  <2>1. link.signatures[j].signer \in DOMAIN w.cut
        /\ \E k \in Keys : win = w.window[link.signatures[j].signer][k]
    BY SaidIs
  <2> QED  BY <2>1, CourierAssumption
<1>3. win[1] \in Nat /\ win[2] \in Nat /\ win[1] <= v.window[1] /\ v.window[2] <= win[2]
  BY <1>1, <1>2
<1> HIDE DEF win
<1>4. win[1] <= u.window[1] /\ u.window[2] <= win[2]
  BY <1>3 DEF Timed, Tighter
<1> QED  BY <1>4 DEF Covers, win

LEMMA VerifiedTightens ==
    ASSUME NEW w \in Worlds, NEW v, Shaped(v), Walks(v), Timed(v), NEW link \in Said(w),
           Walks(Verified(v, link))
    PROVE  /\ Timed(Verified(v, link)) /\ Tighter(Verified(v, link), v)
           /\ Covers(link, Verified(v, link))
<1> DEFINE i0 == CHOOSE i \in Usable(v, link) : \A j \in Usable(v, link) : i <= j
           used == link.signatures[i0].window
           joint == <<Later(v.window[1], used[1]), Earlier(v.window[2], used[2])>>
           next == Verified(v, link)
<1>1. \A verdict : Ended(v, verdict).verdict = verdict
  BY DEF Shaped, Ended
<1>2. Usable(v, link) # {}
  BY <1>1 DEF Verified, Walks
<1>3. /\ ~(joint[2] < joint[1]) /\ next = [v EXCEPT !.window = joint]
  BY <1>1, <1>2 DEF Verified, Walks
<1>4. i0 \in DOMAIN link.signatures
  <2>1. \A i \in Usable(v, link) : i \in DOMAIN link.signatures
    BY DEF Usable
  <2>2. \E i \in Usable(v, link) : \A j \in Usable(v, link) : i <= j
    <3>2. Usable(v, link) \in SUBSET Nat
      BY SaidIs DEF Usable
    <3>3. PICK m \in Usable(v, link) :
             \A k \in Usable(v, link) : ~(<<k, m>> \in OpToRel(<, Nat))
      BY <1>2, <3>2, NatLessThanWellFounded, WFMin
    <3>4. \A k \in Usable(v, link) : ~(k < m)
      BY <3>2, <3>3 DEF OpToRel
    <3> QED  BY <3>2, <3>4
  <2> QED  BY <2>1, <2>2
<1> HIDE DEF i0
<1>5. used \in Nat \X Nat
  <2>1. link.signatures[i0].signer \in DOMAIN w.cut
        /\ \E k \in Keys : used = w.window[link.signatures[i0].signer][k]
    BY <1>4, SaidIs
  <2> QED  BY <2>1, CourierAssumption
<1>6. ASSUME NEW a \in Nat, NEW b \in Nat
      PROVE  /\ Later(a, b) \in Nat /\ a <= Later(a, b) /\ b <= Later(a, b)
             /\ Earlier(a, b) \in Nat /\ Earlier(a, b) <= a /\ Earlier(a, b) <= b
  BY DEF Later, Earlier
<1>7. /\ joint[1] \in Nat /\ v.window[1] <= joint[1] /\ used[1] <= joint[1]
      /\ joint[2] \in Nat /\ joint[2] <= v.window[2] /\ joint[2] <= used[2]
      /\ joint \in Nat \X Nat
  <2> HIDE DEF used
  <2>1. used[1] \in Nat /\ used[2] \in Nat /\ v.window[1] \in Nat /\ v.window[2] \in Nat
    BY <1>5 DEF Timed
  <2> QED  BY <1>6, <2>1
<1> HIDE DEF joint
<1>8. next.window = joint
  BY <1>3 DEF Shaped
<1> HIDE DEF next
<1>9. Timed(next) /\ Tighter(next, v)
  BY <1>3, <1>7, <1>8 DEF Timed, Tighter
<1>10. Covers(link, next)
  BY <1>4, <1>7, <1>8 DEF Covers
<1> QED  BY <1>9, <1>10 DEF next

\* One step of the walk that does not end it in an error.
LEMMA StepTightens ==
    ASSUME NEW w \in Worlds, NEW v, Shaped(v), Walks(v), Timed(v), NEW link \in Said(w),
           Step(v, link).verdict \in {"Walking", "Proven"}
    PROVE  LET u == Step(v, link)
           IN  /\ Timed(u) /\ Tighter(u, v) /\ Covers(link, u)
               /\ u.verdict = "Proven" => link.rtype = "TXT"
<1> DEFINE u == Step(v, link)
           seen == Verified(v, link)
<1>1. \A c, verdict : Shaped(c) => Ended(c, verdict).verdict = verdict
                                   /\ Ended(c, verdict).window = c.window
  BY DEF Shaped, Ended
<1>2. ASSUME NEW c, Timed(c), Tighter(c, v), Covers(link, c), u.window = c.window
      PROVE  Timed(u) /\ Tighter(u, v) /\ Covers(link, u)
  BY <1>2 DEF Timed, Tighter, Covers
<1>3. Walks(seen) => Timed(seen) /\ Tighter(seen, v) /\ Covers(link, seen)
  BY VerifiedTightens
<1>4. Shaped(seen) /\ seen.verdict # "Proven"
  BY VerifiedIs
<1>5. CASE v.pending # <<>>
  <2> DEFINE child == [v EXCEPT !.zone = link.owner, !.keys = link.data, !.pending = <<>>]
             next == Verified(child, link)
  <2>1. \/ u = Ended(v, "UnexpectedLink") \/ u = Ended(v, "DsMismatch") \/ u = next
    BY <1>5 DEF Step, Descend
  <2>2. /\ Ended(v, "UnexpectedLink").verdict = "UnexpectedLink"
        /\ Ended(v, "DsMismatch").verdict = "DsMismatch"
    BY <1>1
  <2>3. u = next
    BY <2>1, <2>2
  <2>4. Shaped(child) /\ Walks(child) /\ child.window = v.window
    <3>1. ASSUME NEW c, c = [v EXCEPT !.zone = link.owner, !.keys = link.data, !.pending = <<>>]
          PROVE  Shaped(c) /\ c.verdict = v.verdict /\ c.window = v.window
      BY <3>1 DEF Shaped
    <3> QED  BY <3>1 DEF Walks
  <2> HIDE DEF child, u
  <2>5. next.verdict # "Proven"
    BY <2>4, VerifiedIs
  <2>6. u.verdict = "Walking" /\ Walks(next)
    BY <2>3, <2>5 DEF Walks, u
  <2>7. Timed(child)
    BY <2>4 DEF Timed
  <2>8. Timed(next) /\ Tighter(next, child) /\ Covers(link, next)
    BY <2>4, <2>6, <2>7, VerifiedTightens
  <2>9. Tighter(next, v)
    BY <2>4, <2>8 DEF Tighter
  <2> HIDE DEF next
  <2>10. Timed(u) /\ Tighter(u, v) /\ Covers(link, u)
    BY <2>3, <2>8, <2>9
  <2> QED  BY <2>6, <2>10 DEF u
<1>6. CASE v.pending = <<>>
  <2>0. link.rtype \in {"DNSKEY", "DS", "CNAME", "TXT"}
    BY SaidIs DEF Rtypes
  <2>1. CASE link.rtype = "DS"
    <3>1. u = Delegation(v, link)
      BY <1>6, <2>1 DEF Step
    <3>2. \/ u = Ended(v, "NotDescending") \/ u = [seen EXCEPT !.pending = <<link>>]
      BY <3>1 DEF Delegation
    <3>3. Ended(v, "NotDescending").verdict = "NotDescending"
      BY <1>1
    <3>4. ASSUME NEW c, c = [seen EXCEPT !.pending = <<link>>]
          PROVE  c.verdict = seen.verdict /\ c.window = seen.window
      BY <1>4, <3>4 DEF Shaped
    <3> HIDE DEF seen, u
    <3>5. u.verdict = seen.verdict /\ u.window = seen.window
      <4>1. u.verdict \in {"Walking", "Proven"}
        BY DEF u
      <4> QED  BY <3>2, <3>3, <3>4, <4>1
    <3>6. u.verdict = "Walking" /\ Walks(seen)
      BY <1>4, <3>5 DEF Walks, u
    <3> QED  BY <1>2, <1>3, <3>5, <3>6 DEF u
  <2>2. CASE link.rtype = "CNAME"
    <3> DEFINE here == [seen EXCEPT !.target = link.data, !.hops = @ + 1]
               root == [here EXCEPT !.zone = Root, !.keys = v.rootKeys]
    <3>1. u = FollowCname(v, link)
      BY <1>6, <2>2 DEF Step
    <3>2. u \in {Ended(v, "TooManyCnames"), Ended(v, "WrongOwner"), here, root}
      BY <3>1 DEF FollowCname
    <3>3. /\ Ended(v, "TooManyCnames").verdict = "TooManyCnames"
          /\ Ended(v, "WrongOwner").verdict = "WrongOwner"
      BY <1>1
    <3>4. ASSUME NEW c, c = [seen EXCEPT !.target = link.data, !.hops = @ + 1]
          PROVE  Shaped(c) /\ c.verdict = seen.verdict /\ c.window = seen.window
      BY <1>4, <3>4 DEF Shaped
    <3>5. Shaped(here) /\ here.verdict = seen.verdict /\ here.window = seen.window
      BY <3>4
    <3> HIDE DEF here
    <3>6. ASSUME NEW c, c = [here EXCEPT !.zone = Root, !.keys = v.rootKeys]
          PROVE  c.verdict = seen.verdict /\ c.window = seen.window
      BY <3>5, <3>6 DEF Shaped
    <3>7. root.verdict = seen.verdict /\ root.window = seen.window
      BY <3>6
    <3> HIDE DEF root, seen, u
    <3>8. u.verdict = seen.verdict /\ u.window = seen.window
      <4>1. u.verdict \in {"Walking", "Proven"}
        BY DEF u
      <4> QED  BY <3>2, <3>3, <3>5, <3>7, <4>1
    <3>9. u.verdict = "Walking" /\ Walks(seen)
      BY <1>4, <3>8 DEF Walks, u
    <3> QED  BY <1>2, <1>3, <3>8, <3>9 DEF u
  <2>3. CASE link.rtype = "TXT"
    <3>1. u = FinishBinding(v, link)
      BY <1>6, <2>3 DEF Step
    <3>2. \/ u = Ended(v, "WrongOwner") \/ u = Ended(v, "WildcardExpansion")
          \/ ~Walks(seen) /\ u = seen
          \/ Walks(seen) /\ u = Ended(seen, "Proven")
      BY <3>1, Zenon DEF FinishBinding
    <3>3. /\ Ended(v, "WrongOwner").verdict = "WrongOwner"
          /\ Ended(v, "WildcardExpansion").verdict = "WildcardExpansion"
          /\ Ended(seen, "Proven").window = seen.window
      BY <1>1, <1>4
    <3> HIDE DEF seen, u
    <3>4. Walks(seen) /\ u.window = seen.window
      <4>1. u.verdict \in {"Walking", "Proven"}
        BY DEF u
      <4> QED  BY <1>4, <3>2, <3>3, <4>1 DEF Walks
    <3> QED  BY <1>2, <1>3, <2>3, <3>4 DEF u
  <2>4. CASE link.rtype = "DNSKEY"
    <3>1. u = Ended(v, "UnexpectedLink")
      BY <1>6, <2>4 DEF Step
    <3> QED  BY <1>1, <3>1
  <2> QED  BY <2>0, <2>1, <2>2, <2>3, <2>4
<1> QED  BY <1>5, <1>6

\* The walk starts at all times, and the root's link narrows that.
LEMMA EnterTightens ==
    ASSUME NEW w \in Worlds, NEW link \in Said(w)
    PROVE  LET first == EnterAnchored(Owner, link)
           IN  /\ first.verdict # "Proven"
               /\ Walks(first) => Timed(first) /\ Covers(link, first)
<1> DEFINE start == [zone |-> Root, keys |-> link.data, rootKeys |-> link.data,
                     target |-> Owner, pending |-> <<>>, hops |-> 0,
                     window |-> <<0, Horizon>>, verdict |-> "Walking"]
           next == Verified(start, link)
<1>1. Shaped(start) /\ Walks(start) /\ Timed(start)
  BY ValidatorAssumption DEF Shaped, Walks, Timed
<1>2. EnterAnchored(Owner, link) = Ended(start, "Unanchored") \/ EnterAnchored(Owner, link) = next
  BY DEF EnterAnchored
<1> HIDE DEF start
<1>3. Ended(start, "Unanchored").verdict = "Unanchored"
  BY <1>1 DEF Ended, Shaped
<1>4. next.verdict # "Proven" /\ (Walks(next) => Timed(next) /\ Covers(link, next))
  BY <1>1, VerifiedIs, VerifiedTightens
<1> HIDE DEF next
<1> QED  BY <1>2, <1>3, <1>4 DEF Walks

\* p: the world and the root's link. What the walk has consumed it covers: all so far, or
\* up to the leaf that it has proven.
CoveredSoFar(p, list, k, v) ==
    /\ Sound(p.world, v)
    /\ v.verdict \in {"Walking", "Proven"} =>
          /\ Timed(v) /\ Covers(p.head, v)
          /\ \E m \in 0..k :
                /\ \A i \in 1..m : Covers(list[i], v)
                /\ v.verdict = "Walking" => m = k
                /\ v.verdict = "Proven" => m > 0 /\ list[m].rtype = "TXT"

CoveringWalk == INSTANCE Folding WITH Step <- WalkStep, Holds <- CoveredSoFar

\* At every moment of a proof's window each link of the chain has a signature in force.
LEMMA ProvenIsJoint ==
    ASSUME NEW w \in Worlds, NEW chain \in Seq(Said(w)),
           Validate(Owner, chain).verdict = "Proven",
           \A i \in DOMAIN chain : chain[i].rtype = "TXT" => i = Len(chain)
    PROVE  /\ Timed(Validate(Owner, chain))
           /\ \A i \in DOMAIN chain : Covers(chain[i], Validate(Owner, chain))
<1> DEFINE first == EnterAnchored(Owner, Head(chain))
           list == Tail(chain)
           n == Len(list)
           p == [world |-> w, head |-> Head(chain)]
           end == CoveringWalk!Run(p, first, list)[DOMAIN list]
<1>1. chain # <<>>
  <2> SUFFICES ASSUME chain = <<>>  PROVE FALSE
    OBVIOUS
  <2>1. Validate(Owner, chain) = [verdict |-> "Empty"]
    BY DEF Validate, Refused
  <2> QED  BY <2>1
<1>2. /\ Head(chain) \in Said(w) /\ list \in Seq(Said(w)) /\ Head(chain) = chain[1]
      /\ n \in Nat /\ DOMAIN list = 1..n /\ Len(chain) = n + 1 /\ DOMAIN chain = 1..(n + 1)
      /\ \A i \in 1..n : list[i] = chain[i + 1]
  BY <1>1
<1>3. FoldLeft(Step, first, list) = end
  BY Zenon DEF FoldLeft, MapThenFoldSet, Max, WalkStep, CoveringWalk!Run, CoveringWalk!Runs,
               CoveringWalk!Greatest
<1>4. p.world = w /\ p.head = Head(chain)
  OBVIOUS
<1> HIDE DEF p
<1>5. CoveredSoFar(p, list, 0, first)
  <2>1. Sound(w, first)
    BY <1>2, EnterSound
  <2>2. first.verdict # "Proven" /\ (Walks(first) => Timed(first) /\ Covers(Head(chain), first))
    BY <1>2, EnterTightens
  <2> HIDE DEF first, list
  <2>3. 0 \in 0..0 /\ \A i \in 1..0 : Covers(list[i], first)
    OBVIOUS
  <2> QED  BY <1>4, <2>1, <2>2, <2>3 DEF CoveredSoFar, Walks
<1> HIDE DEF first
<1>6. ASSUME NEW k \in 1..n, NEW v, CoveredSoFar(p, list, k - 1, v)
      PROVE  CoveredSoFar(p, list, k, WalkStep(p, v, list[k]))
  <2> DEFINE link == list[k]
             u == Step(v, link)
  <2>1. link \in Said(w) /\ k \in Nat
    BY <1>2
  <2>2. Sound(w, v)
    BY <1>4, <1>6 DEF CoveredSoFar
  <2> HIDE DEF list, n
  <2>3. Sound(w, u)
    BY <2>1, <2>2, StepsSound
  <2>4. CASE ~Walks(v)
    <3>1. u = v
      BY <2>4 DEF Step
    <3>2. \A m \in 0..(k - 1) : m \in 0..k
      BY <2>1
    <3> HIDE DEF u
    <3> QED  BY <1>6, <2>4, <3>1, <3>2 DEF CoveredSoFar, WalkStep, Walks, u
  <2>5. CASE Walks(v) /\ u.verdict \notin {"Walking", "Proven"}
    BY <1>4, <2>3, <2>5 DEF CoveredSoFar, WalkStep
  <2>6. CASE Walks(v) /\ u.verdict \in {"Walking", "Proven"}
    <3>1. Timed(v) /\ Covers(Head(chain), v) /\ \A i \in 1..(k - 1) : Covers(list[i], v)
      BY <1>4, <1>6, <2>6 DEF CoveredSoFar, Walks
    <3>2. Shaped(v)
      BY <2>2 DEF Sound
    <3>3. /\ Timed(u) /\ Tighter(u, v) /\ Covers(link, u)
          /\ u.verdict = "Proven" => link.rtype = "TXT"
      BY <2>1, <2>6, <3>1, <3>2, StepTightens
    <3>4. \A i \in 1..(k - 1) : list[i] \in Said(w)
      BY <1>2
    <3> HIDE DEF u, link
    <3>5. Covers(Head(chain), u) /\ \A i \in 1..(k - 1) : Covers(list[i], u)
      BY <1>2, <3>1, <3>3, <3>4, CoversOn
    <3>6. \A i \in 1..k : i \in 1..(k - 1) \/ i = k
      BY <2>1
    <3>7. \A i \in 1..k : Covers(list[i], u)
      BY <3>3, <3>5, <3>6 DEF link
    <3>8. k \in 0..k /\ k > 0
      BY <2>1
    <3>9. CoveredSoFar(p, list, k, u)
      BY <1>4, <2>3, <3>3, <3>5, <3>7, <3>8 DEF CoveredSoFar, link
    <3> QED  BY <3>9 DEF WalkStep, u, link
  <2> QED  BY <2>4, <2>5, <2>6
<1>7. CoveredSoFar(p, list, n, end)
  <2>1. n \in Nat /\ DOMAIN list = 1..n
    BY <1>2
  <2> HIDE DEF end, n, list
  <2> QED  BY <1>5, <1>6, <2>1, CoveringWalk!Kept DEF end
<1> HIDE DEF end
<1>8. Sound(w, end)
  BY <1>4, <1>7 DEF CoveredSoFar
<1>9. Validate(Owner, chain) = end
  <2>1. \/ Validate(Owner, chain) \in {Refused("Empty"), Refused("Parse"), Refused("UnexpectedLink")}
        \/ Walks(end) /\ Validate(Owner, chain) = Ended(end, "MissingLeaf")
        \/ Validate(Owner, chain) = end
    BY <1>3 DEF Validate, first
  <2>2. \A why \in {"Empty", "Parse", "UnexpectedLink"} : Refused(why).verdict # "Proven"
    BY DEF Refused
  <2>3. Walks(end) => Ended(end, "MissingLeaf").verdict = "MissingLeaf"
    BY <1>8 DEF Sound, Ended, Shaped
  <2> QED  BY <2>1, <2>2, <2>3
<1>10. PICK m \in 1..n : list[m].rtype = "TXT" /\ \A i \in 1..m : Covers(list[i], end)
  <2> HIDE DEF list, n
  <2> QED  BY <1>2, <1>7, <1>9 DEF CoveredSoFar
<1>11. m = n
  <2>1. chain[m + 1].rtype = "TXT" /\ m + 1 \in DOMAIN chain
    BY <1>2, <1>10
  <2>2. m + 1 = n + 1
    BY <1>2, <2>1
  <2> HIDE DEF n
  <2> QED  BY <1>2, <2>2
<1>12. ASSUME NEW i \in DOMAIN chain  PROVE Covers(chain[i], end)
  <2>1. CASE i = 1
    BY <1>2, <1>4, <1>7, <1>9, <2>1 DEF CoveredSoFar
  <2>2. CASE i # 1
    <3>1. i - 1 \in 1..n /\ chain[i] = list[i - 1]
      BY <1>2, <2>2
    <3> HIDE DEF list, n
    <3> QED  BY <1>10, <1>11, <3>1
  <2> QED  BY <2>1, <2>2
<1> QED  BY <1>7, <1>9, <1>12 DEF CoveredSoFar

-----------------------------------------------------------------------------
\* The builder: what it frames, a resolver said, and a leaf only at the end.

BuilderShaped(b) ==
    b = [phase |-> b.phase, links |-> b.links, zone |-> b.zone, name |-> b.name,
         depth |-> b.depth, deepest |-> b.deepest, walking |-> b.walking,
         answers |-> b.answers, current |-> b.current, remaining |-> b.remaining]

\* An answer may leave signatures out, but says nothing else.
Honest(w, answers) ==
    \A r \in answers : /\ r \in Said(w) \/ r.signatures = <<>>
                       /\ r.rtype = "CNAME" =>
                             /\ r.owner \in DOMAIN w.alias /\ r.data = w.alias[r.owner]
                             /\ r.data \in Name

Keeps(w, b) ==
    /\ BuilderShaped(b)
    /\ b.links \in Seq(Said(w)) /\ Honest(w, b.answers) /\ b.remaining \in Nat

Leafless(b) == \A i \in DOMAIN b.links : b.links[i].rtype # "TXT"
LeafLast(b) == \A i \in DOMAIN b.links : b.links[i].rtype = "TXT" => i = Len(b.links)

\* What becomes of a builder that awaits an answer or walks: one of these phases, or it
\* has failed.
Becomes(w, b, phases) ==
    /\ Keeps(w, b) /\ LeafLast(b)
    /\ b.phase \in phases \cup BuildErrors
    /\ b.phase \notin BuildErrors \cup {"Done"} => Leafless(b)

Asking == {"RootKeys", "Ds", "Dnskey", "Leaf"}

\* Framing appends a record of the kind asked for, or stops.
LEMMA FramedKeeps ==
    ASSUME NEW w, NEW b, Keeps(w, b), Leafless(b), NEW answers, Honest(w, answers),
           NEW owner, NEW rtype
    PROVE  LET f == Framed(b, answers, owner, rtype)
           IN  /\ Keeps(w, f) /\ f.remaining = b.remaining /\ LeafLast(f)
               /\ f.phase = b.phase \/ f.phase \in BuildErrors
               /\ rtype # "TXT" => Leafless(f)
<1> DEFINE f == Framed(b, answers, owner, rtype)
           signed == {r \in Held(answers, owner, rtype) : r.signatures # <<>>}
           r0 == CHOOSE r \in signed : TRUE
<1>1. ASSUME NEW phase \in BuildErrors, f = Stopped(b, phase)
      PROVE  /\ Keeps(w, f) /\ f.remaining = b.remaining /\ Leafless(f) /\ LeafLast(f)
             /\ f.phase = phase
  <2> HIDE DEF f
  <2>1. /\ BuilderShaped(f) /\ f.links = b.links /\ f.answers = b.answers
        /\ f.remaining = b.remaining /\ f.phase = phase
    BY <1>1 DEF Stopped, Keeps, BuilderShaped
  <2> QED  BY <2>1 DEF Keeps, Leafless, LeafLast
<1>2. CASE signed = {}
  <2>1. f = Stopped(b, "MissingRrset")
    BY <1>2 DEF Framed
  <2> QED  BY <1>1, <2>1 DEF BuildErrors
<1>3. CASE signed # {} /\ Len(b.links) >= MaxLinks
  <2>1. f = Stopped(b, "OversizeChain")
    BY <1>3 DEF Framed
  <2> QED  BY <1>1, <2>1 DEF BuildErrors
<1>4. CASE signed # {} /\ ~(Len(b.links) >= MaxLinks)
  <2>1. f = [b EXCEPT !.links = Append(@, r0)]
    BY <1>4 DEF Framed
  <2>2. r0 \in signed
    BY <1>4
  <2>3. r0 \in Said(w) /\ r0.rtype = rtype
    BY <2>2 DEF Honest, Held
  <2> HIDE DEF f, r0
  <2>4. /\ BuilderShaped(f) /\ f.links = Append(b.links, r0) /\ f.answers = b.answers
        /\ f.remaining = b.remaining /\ f.phase = b.phase
    BY <2>1 DEF Keeps, BuilderShaped
  <2>5. /\ b.links \in Seq(Said(w)) /\ Append(b.links, r0) \in Seq(Said(w))
        /\ Len(Append(b.links, r0)) = Len(b.links) + 1
        /\ DOMAIN b.links = 1..Len(b.links)
        /\ DOMAIN Append(b.links, r0) = 1..(Len(b.links) + 1)
        /\ Append(b.links, r0)[Len(b.links) + 1] = r0
        /\ \A i \in 1..Len(b.links) : Append(b.links, r0)[i] = b.links[i]
    BY <2>3 DEF Keeps
  <2>6. \A i \in 1..(Len(b.links) + 1) : i \in 1..Len(b.links) \/ i = Len(b.links) + 1
    BY <2>5
  <2>7. LeafLast(f)
    BY <2>4, <2>5, <2>6 DEF LeafLast, Leafless
  <2>8. rtype # "TXT" => Leafless(f)
    BY <2>3, <2>4, <2>5, <2>6 DEF Leafless
  <2> QED  BY <2>4, <2>5, <2>7, <2>8 DEF Keeps, f
<1> QED  BY <1>1, <1>2, <1>3, <1>4

\* What moves the builder on and frames nothing.
LEMMA MovesKeep ==
    ASSUME NEW w, NEW b, Keeps(w, b), Leafless(b)
    PROVE  /\ \A name, depth, base :
                 /\ Keeps(w, DescendInto(b, name, depth, base))
                 /\ Leafless(DescendInto(b, name, depth, base))
                 /\ DescendInto(b, name, depth, base).phase = "Ds"
                 /\ DescendInto(b, name, depth, base).remaining = b.remaining
           /\ Keeps(w, NextCut(b)) /\ Leafless(NextCut(b))
           /\ NextCut(b).phase \in {"Ds", "Walking", "Leaf"}
           /\ \A phase : /\ Keeps(w, Stopped(b, phase)) /\ Leafless(Stopped(b, phase))
                         /\ Stopped(b, phase).phase = phase
                         /\ Stopped(b, phase).remaining = b.remaining
<1>1. ASSUME NEW c, BuilderShaped(c), c.links = b.links, c.answers = b.answers,
             c.remaining = b.remaining
      PROVE  Keeps(w, c) /\ Leafless(c)
  BY <1>1 DEF Keeps, Leafless
<1>2. ASSUME NEW name, NEW depth, NEW base
      PROVE  LET c == DescendInto(b, name, depth, base)
             IN  /\ BuilderShaped(c) /\ c.links = b.links /\ c.answers = b.answers
                 /\ c.remaining = b.remaining /\ c.phase = "Ds"
  <2>1. ASSUME NEW c, c = [b EXCEPT !.phase = "Ds", !.name = name, !.depth = depth, !.deepest = base]
        PROVE  /\ BuilderShaped(c) /\ c.links = b.links /\ c.answers = b.answers
               /\ c.remaining = b.remaining /\ c.phase = "Ds"
    BY <2>1 DEF Keeps, BuilderShaped
  <2> QED  BY <2>1 DEF DescendInto
<1>3. /\ BuilderShaped(NextCut(b)) /\ NextCut(b).links = b.links /\ NextCut(b).answers = b.answers
      /\ NextCut(b).remaining = b.remaining /\ NextCut(b).phase \in {"Ds", "Walking", "Leaf"}
  <2>1. ASSUME NEW c, c = [b EXCEPT !.phase = "Ds", !.depth = @ + 1]
        PROVE  /\ BuilderShaped(c) /\ c.links = b.links /\ c.answers = b.answers
               /\ c.remaining = b.remaining /\ c.phase = "Ds"
    BY <2>1 DEF Keeps, BuilderShaped
  <2>2. ASSUME NEW c, NEW phase, c = [b EXCEPT !.phase = phase, !.zone = b.deepest]
        PROVE  /\ BuilderShaped(c) /\ c.links = b.links /\ c.answers = b.answers
               /\ c.remaining = b.remaining /\ c.phase = phase
    BY <2>2 DEF Keeps, BuilderShaped
  <2>3. \/ NextCut(b) = [b EXCEPT !.phase = "Ds", !.depth = @ + 1]
        \/ NextCut(b) = [b EXCEPT !.phase = "Walking", !.zone = b.deepest]
        \/ NextCut(b) = [b EXCEPT !.phase = "Leaf", !.zone = b.deepest]
    BY DEF NextCut
  <2>4. CASE NextCut(b) = [b EXCEPT !.phase = "Ds", !.depth = @ + 1]
    BY <2>1, <2>4
  <2>5. CASE NextCut(b) = [b EXCEPT !.phase = "Walking", !.zone = b.deepest]
    BY <2>2, <2>5
  <2>6. CASE NextCut(b) = [b EXCEPT !.phase = "Leaf", !.zone = b.deepest]
    BY <2>2, <2>6
  <2> QED  BY <2>3, <2>4, <2>5, <2>6
<1>4. ASSUME NEW phase
      PROVE  LET c == Stopped(b, phase)
             IN  /\ BuilderShaped(c) /\ c.links = b.links /\ c.answers = b.answers
                 /\ c.remaining = b.remaining /\ c.phase = phase
  BY DEF Stopped, Keeps, BuilderShaped
<1> QED  BY <1>1, <1>2, <1>3, <1>4

\* The answers about zones: the builder goes on with the next suffix.
LEMMA ZoneAnswersKeep ==
    ASSUME NEW w, NEW b, Keeps(w, b), Leafless(b), NEW answers, Honest(w, answers)
    PROVE  /\ b.phase = "RootKeys" => Becomes(w, AnswerRootKeys(b, answers), {"Ds"})
           /\ b.phase = "Ds" => Becomes(w, AnswerDs(b, answers), {"Ds", "Dnskey", "Walking", "Leaf"})
           /\ b.phase = "Dnskey" => Becomes(w, AnswerDnskey(b, answers), {"Ds", "Walking", "Leaf"})
<1>1. ASSUME NEW c, Keeps(w, c), Leafless(c), NEW phases, c.phase \in phases \cup BuildErrors
      PROVE  Becomes(w, c, phases)
  BY <1>1 DEF Becomes, LeafLast, Leafless
<1>2. \A owner : \A rtype \in {"DNSKEY", "DS"} :
         LET f == Framed(b, answers, owner, rtype)
         IN  Keeps(w, f) /\ Leafless(f) /\ (f.phase = b.phase \/ f.phase \in BuildErrors)
  BY FramedKeeps
<1>3. ASSUME b.phase = "RootKeys"  PROVE Becomes(w, AnswerRootKeys(b, answers), {"Ds"})
  <2> DEFINE f == Framed(b, answers, Root, "DNSKEY")
  <2>1. Keeps(w, f) /\ Leafless(f) /\ (f.phase = b.phase \/ f.phase \in BuildErrors)
    BY <1>2
  <2>2. AnswerRootKeys(b, answers) = IF Going(f) THEN DescendInto(f, Owner, 1, Root) ELSE f
    BY DEF AnswerRootKeys
  <2> HIDE DEF f
  <2>3. CASE Going(f)
    <3>1. /\ Keeps(w, DescendInto(f, Owner, 1, Root)) /\ Leafless(DescendInto(f, Owner, 1, Root))
          /\ DescendInto(f, Owner, 1, Root).phase = "Ds"
      BY <2>1, MovesKeep
    <3> QED  BY <1>1, <2>2, <2>3, <3>1
  <2>4. CASE ~Going(f)
    BY <1>1, <2>1, <2>2, <2>4 DEF Going
  <2> QED  BY <2>3, <2>4
<1>4. ASSUME b.phase = "Ds"
      PROVE  Becomes(w, AnswerDs(b, answers), {"Ds", "Dnskey", "Walking", "Leaf"})
  <2> DEFINE zone == TrimTo(b.name, b.depth)
             f == Framed(b, answers, zone, "DS")
             g == [f EXCEPT !.phase = "Dnskey"]
  <2>1. Keeps(w, f) /\ Leafless(f) /\ (f.phase = b.phase \/ f.phase \in BuildErrors)
    BY <1>2
  <2>2. \/ AnswerDs(b, answers) = NextCut(b)
        \/ AnswerDs(b, answers) = g
        \/ ~Going(f) /\ AnswerDs(b, answers) = f
    BY DEF AnswerDs
  <2> HIDE DEF f
  <2>3. Keeps(w, g) /\ Leafless(g) /\ g.phase = "Dnskey"
    <3>1. g = Stopped(f, "Dnskey")
      BY DEF Stopped
    <3> QED  BY <2>1, <3>1, MovesKeep
  <2> HIDE DEF g
  <2>4. Keeps(w, NextCut(b)) /\ Leafless(NextCut(b)) /\ NextCut(b).phase \in {"Ds", "Walking", "Leaf"}
    BY MovesKeep
  <2>5. CASE AnswerDs(b, answers) = NextCut(b)
    BY <1>1, <2>4, <2>5
  <2>6. CASE AnswerDs(b, answers) = g
    BY <1>1, <2>3, <2>6
  <2>7. CASE ~Going(f) /\ AnswerDs(b, answers) = f
    BY <1>1, <2>1, <2>7 DEF Going
  <2> QED  BY <2>2, <2>5, <2>6, <2>7
<1>5. ASSUME b.phase = "Dnskey"
      PROVE  Becomes(w, AnswerDnskey(b, answers), {"Ds", "Walking", "Leaf"})
  <2> DEFINE zone == TrimTo(b.name, b.depth)
             f == Framed(b, answers, zone, "DNSKEY")
             g == [f EXCEPT !.deepest = zone]
  <2>1. Keeps(w, f) /\ Leafless(f) /\ (f.phase = b.phase \/ f.phase \in BuildErrors)
    BY <1>2
  <2>2. AnswerDnskey(b, answers) = IF Going(f) THEN NextCut(g) ELSE f
    BY DEF AnswerDnskey
  <2> HIDE DEF f, zone
  <2>3. Keeps(w, g) /\ Leafless(g)
    <3>1. BuilderShaped(g) /\ g.links = f.links /\ g.answers = f.answers /\ g.remaining = f.remaining
      BY <2>1 DEF Keeps, BuilderShaped
    <3> QED  BY <2>1, <3>1 DEF Keeps, Leafless
  <2> HIDE DEF g
  <2>4. Keeps(w, NextCut(g)) /\ Leafless(NextCut(g)) /\ NextCut(g).phase \in {"Ds", "Walking", "Leaf"}
    BY <2>3, MovesKeep
  <2>5. CASE Going(f)
    BY <1>1, <2>2, <2>4, <2>5
  <2>6. CASE ~Going(f)
    BY <1>1, <2>1, <2>2, <2>6 DEF Going
  <2> QED  BY <2>5, <2>6
<1> QED  BY <1>3, <1>4, <1>5

\* One turn of the walk along the leaf's answer takes one from what remains, or ends it.
LEMMA TurnKeeps ==
    ASSUME NEW w, NEW b, Keeps(w, b), Leafless(b), b.phase = "Walking", NEW i
    PROVE  /\ Becomes(w, Turn(b, i), {"Walking", "Ds", "Done"})
           /\ Turn(b, i).phase = "Walking" =>
                 b.remaining # 0 /\ Turn(b, i).remaining = b.remaining - 1
<1>1. ASSUME NEW c, Keeps(w, c), Leafless(c), NEW phases, c.phase \in phases \cup BuildErrors
      PROVE  Becomes(w, c, phases)
  BY <1>1 DEF Becomes, LeafLast, Leafless
<1>4. ASSUME NEW c, Keeps(w, c), Leafless(c)
      PROVE  \A phase : /\ Keeps(w, Stopped(c, phase)) /\ Leafless(Stopped(c, phase))
                        /\ Stopped(c, phase).phase = phase
  BY <1>4, MovesKeep
<1>5. ASSUME NEW c, Keeps(w, c), Leafless(c), NEW name, NEW depth, NEW z
      PROVE  LET d == DescendInto(c, name, depth, z)
             IN  Keeps(w, d) /\ Leafless(d) /\ d.phase = "Ds"
  <2>1. Keeps(w, DescendInto(c, name, depth, z))
    BY <1>5, MovesKeep
  <2>2. Leafless(DescendInto(c, name, depth, z))
    BY <1>5, MovesKeep
  <2>3. DescendInto(c, name, depth, z).phase = "Ds"
    BY <1>5, MovesKeep
  <2> QED  BY <2>1, <2>2, <2>3
<1>2. CASE b.remaining = 0
  <2>1. Turn(b, i) = Stopped(b, "TooManyCnames")
    BY <1>2 DEF Turn
  <2>2. /\ Keeps(w, Stopped(b, "TooManyCnames")) /\ Leafless(Stopped(b, "TooManyCnames"))
        /\ Stopped(b, "TooManyCnames").phase = "TooManyCnames"
    BY MovesKeep
  <2> QED  BY <1>1, <2>1, <2>2 DEF BuildErrors
<1>3. CASE b.remaining # 0
  <2> DEFINE here == [b EXCEPT !.remaining = @ - 1]
             f == Framed(here, b.answers, b.current, "TXT")
  <2>1. /\ BuilderShaped(here) /\ here.links = b.links /\ here.answers = b.answers
        /\ here.remaining = b.remaining - 1 /\ here.phase = "Walking"
    BY DEF Keeps, BuilderShaped
  <2>2. \/ Going(f) /\ Turn(b, i) = Stopped(f, "Done")
        \/ ~Going(f) /\ Turn(b, i) = f
        \/ Turn(b, i) = Stopped(here, "MissingRrset")
        \/ Turn(b, i) = FollowAlias(here)
    BY <1>3 DEF Turn
  <2> HIDE DEF here
  <2>3. Keeps(w, here) /\ Leafless(here) /\ here.remaining = b.remaining - 1
    <3>1. b.remaining - 1 \in Nat
      BY <1>3 DEF Keeps
    <3> QED  BY <2>1, <3>1 DEF Keeps, Leafless
  <2>4. /\ Keeps(w, f) /\ LeafLast(f) /\ (f.phase = "Walking" \/ f.phase \in BuildErrors)
    BY <2>1, <2>3, FramedKeeps DEF Keeps
  <2> HIDE DEF f
  <2>5. CASE Going(f) /\ Turn(b, i) = Stopped(f, "Done")
    <3>1. ASSUME NEW c, c = Stopped(f, "Done")
          PROVE  /\ BuilderShaped(c) /\ c.links = f.links /\ c.answers = f.answers
                 /\ c.remaining = f.remaining /\ c.phase = "Done"
      BY <2>4, <3>1 DEF Stopped, Keeps, BuilderShaped
    <3> QED  BY <2>4, <2>5, <3>1 DEF Becomes, Keeps, LeafLast
  <2>6. CASE ~Going(f) /\ Turn(b, i) = f
    BY <2>4, <2>6 DEF Becomes, Going, BuildErrors
  <2>7. CASE Turn(b, i) = Stopped(here, "MissingRrset")
    <3>0. \A phase : /\ Keeps(w, Stopped(here, phase)) /\ Leafless(Stopped(here, phase))
                     /\ Stopped(here, phase).phase = phase
      BY <2>3, <1>4
    <3>1. /\ Keeps(w, Stopped(here, "MissingRrset")) /\ Leafless(Stopped(here, "MissingRrset"))
          /\ Stopped(here, "MissingRrset").phase = "MissingRrset"
      BY <3>0
    <3> QED  BY <1>1, <2>7, <3>1 DEF BuildErrors
  <2>8. CASE Turn(b, i) = FollowAlias(here)
    <3> DEFINE g == Framed(here, here.answers, here.current, "CNAME")
               target == (CHOOSE r \in Held(here.answers, here.current, "CNAME") : TRUE).data
               base == IF IsPrefix(here.zone, target) THEN here.zone ELSE Root
               next == [g EXCEPT !.current = target]
    <3>1. /\ Keeps(w, g) /\ Leafless(g) /\ g.remaining = here.remaining
          /\ g.phase = "Walking" \/ g.phase \in BuildErrors
      BY <2>1, <2>3, FramedKeeps DEF Keeps
    <3>2. \/ ~Going(g) /\ FollowAlias(here) = g
          \/ Going(g) /\ FollowAlias(here) = DescendInto(next, target, Len(base) + 1, base)
          \/ Going(g) /\ FollowAlias(here) = next
      BY DEF FollowAlias
    <3> HIDE DEF g, target, base
    <3>3. /\ BuilderShaped(next) /\ next.links = g.links /\ next.answers = g.answers
          /\ next.remaining = g.remaining /\ next.phase = g.phase
      BY <3>1 DEF Keeps, BuilderShaped
    <3> HIDE DEF next
    <3>4. Keeps(w, next) /\ Leafless(next)
      BY <3>1, <3>3 DEF Keeps, Leafless
    <3>5. CASE ~Going(g) /\ FollowAlias(here) = g
      <4>1. Turn(b, i) = g /\ g.phase \in BuildErrors
        BY <2>8, <3>1, <3>5 DEF Going
      <4> QED  BY <1>1, <3>1, <4>1 DEF BuildErrors
    <3>6. CASE Going(g) /\ FollowAlias(here) = DescendInto(next, target, Len(base) + 1, base)
      <4> DEFINE d == DescendInto(next, target, Len(base) + 1, base)
      <4>0. \A name, depth, z : /\ Keeps(w, DescendInto(next, name, depth, z))
                                /\ Leafless(DescendInto(next, name, depth, z))
                                /\ DescendInto(next, name, depth, z).phase = "Ds"
        BY <3>4, <1>5
      <4>1. Keeps(w, d) /\ Leafless(d) /\ d.phase = "Ds"
        BY <4>0, Zenon
      <4>2. Turn(b, i) = d
        BY <2>8, <3>6
      <4> HIDE DEF d
      <4> QED  BY <1>1, <4>1, <4>2
    <3>7. CASE Going(g) /\ FollowAlias(here) = next
      <4>1. Turn(b, i) = next /\ next.phase = "Walking" /\ next.remaining = b.remaining - 1
        BY <2>3, <2>8, <3>1, <3>3, <3>7 DEF Going
      <4> QED  BY <1>1, <1>3, <3>4, <4>1
    <3> QED  BY <3>2, <3>5, <3>6, <3>7
  <2> QED  BY <2>2, <2>5, <2>6, <2>7, <2>8
<1> QED  BY <1>2, <1>3

-----------------------------------------------------------------------------
\* The loop of turns, as a fold. p: the world, and the turns there were.

TurnStep(p, b, i) == Turn(b, i)

TurnsSoFar(p, list, k, b) ==
    /\ Becomes(p.world, b, {"Walking", "Ds", "Done"})
    /\ b.phase = "Walking" => b.remaining = p.turns - k

Turning == INSTANCE Folding WITH Step <- TurnStep, Holds <- TurnsSoFar

\* The loop leaves a builder that awaits the next answer or is over: it has one turn for
\* each that remains, and one more to find that none does.
LEMMA AdvanceKeeps ==
    ASSUME NEW w, NEW b, Becomes(w, b, {"Walking", "Ds", "Dnskey", "Leaf"}),
           b.remaining \in Nat
    PROVE  Becomes(w, Advance(b), Asking \cup {"Done"})
<1> DEFINE n == b.remaining + 1
           list == [i \in 1..n |-> i]
           p == [world |-> w, turns |-> b.remaining]
           end == Turning!Run(p, b, list)[DOMAIN list]
<1>1. CASE b.phase # "Walking"
  BY <1>1 DEF Advance, Becomes, Asking
<1>2. CASE b.phase = "Walking"
  <2>1. FoldLeft(Turn, b, list) = end
    BY Zenon DEF FoldLeft, MapThenFoldSet, Max, TurnStep, Turning!Run, Turning!Runs,
                 Turning!Greatest
  <2>2. Advance(b) = end
    BY <1>2, <2>1 DEF Advance
  <2>3. p.world = w /\ p.turns = b.remaining
    OBVIOUS
  <2>4. n \in Nat /\ DOMAIN list = 1..n /\ p.turns = n - 1 /\ b.remaining = p.turns - 0
    OBVIOUS
  <2> HIDE DEF n, list, p
  <2>5. Becomes(w, b, {"Walking", "Ds", "Done"})
    BY <1>2 DEF Becomes
  <2>6. TurnsSoFar(p, list, 0, b)
    BY <2>3, <2>4, <2>5 DEF TurnsSoFar
  <2>7. ASSUME NEW k \in 1..n, NEW c, TurnsSoFar(p, list, k - 1, c)
        PROVE  TurnsSoFar(p, list, k, TurnStep(p, c, list[k]))
    <3> DEFINE i == list[k]
    <3>1. Becomes(w, c, {"Walking", "Ds", "Done"})
      BY <2>3, <2>7 DEF TurnsSoFar
    <3>2. CASE c.phase # "Walking"
      <4>1. Turn(c, i) = c
        BY <3>2 DEF Turn
      <4> QED  BY <2>3, <3>1, <3>2, <4>1 DEF TurnsSoFar, TurnStep
    <3>3. CASE c.phase = "Walking"
      <4>1. Keeps(w, c) /\ Leafless(c)
        BY <3>1, <3>3 DEF Becomes, BuildErrors
      <4>2. c.remaining = p.turns - (k - 1)
        BY <2>7, <3>3 DEF TurnsSoFar
      <4> HIDE DEF i
      <4>3. /\ Becomes(w, Turn(c, i), {"Walking", "Ds", "Done"})
            /\ Turn(c, i).phase = "Walking" => Turn(c, i).remaining = c.remaining - 1
        BY <3>3, <4>1, TurnKeeps
      <4>4. p.turns \in Int /\ c.remaining - 1 = p.turns - k
        BY <2>4, <4>2
      <4> QED  BY <2>3, <4>3, <4>4 DEF TurnsSoFar, TurnStep, i
    <3> QED  BY <3>2, <3>3
  <2>8. TurnsSoFar(p, list, n, end)
    <3> HIDE DEF end
    <3> QED  BY <2>4, <2>6, <2>7, Turning!Kept DEF end
  <2> HIDE DEF end
  <2>9. Becomes(w, end, {"Walking", "Ds", "Done"}) /\ (end.phase = "Walking" => end.remaining = -1)
    BY <2>3, <2>4, <2>8 DEF TurnsSoFar
  <2>10. end.phase # "Walking"
    <3>1. end.remaining \in Nat
      BY <2>9 DEF Becomes, Keeps
    <3> QED  BY <2>9, <3>1
  <2> QED  BY <2>2, <2>9, <2>10 DEF Becomes, Asking
<1> QED  BY <1>1, <1>2

\* Whatever a builder that awaits an answer is told by a resolver, it awaits the next one,
\* has framed a chain of what was said, or has failed.
LEMMA AnsweredKeeps ==
    ASSUME NEW w, NEW b, Keeps(w, b), Leafless(b), b.phase \in Asking,
           NEW answers, Honest(w, answers)
    PROVE  Becomes(w, Answered(b, answers), Asking \cup {"Done"})
<1> DEFINE wide == {"Walking", "Ds", "Dnskey", "Leaf"}
<1>1. ASSUME NEW c, NEW phases \in SUBSET wide, Becomes(w, c, phases)
      PROVE  Becomes(w, Advance(c), Asking \cup {"Done"})
  <2>1. Becomes(w, c, wide) /\ c.remaining \in Nat
    BY <1>1 DEF Becomes, Keeps
  <2> QED  BY <2>1, AdvanceKeeps
<1>2. CASE b.phase = "RootKeys"
  <2>1. Answered(b, answers) = Advance(AnswerRootKeys(b, answers))
    BY <1>2 DEF Answered
  <2> QED  BY <1>1, <1>2, <2>1, ZoneAnswersKeep
<1>3. CASE b.phase = "Ds"
  <2>1. Answered(b, answers) = Advance(AnswerDs(b, answers))
    BY <1>3 DEF Answered
  <2> QED  BY <1>1, <1>3, <2>1, ZoneAnswersKeep
<1>4. CASE b.phase = "Dnskey"
  <2>1. Answered(b, answers) = Advance(AnswerDnskey(b, answers))
    BY <1>4 DEF Answered
  <2> QED  BY <1>1, <1>4, <2>1, ZoneAnswersKeep
<1>5. CASE b.phase = "Leaf"
  <2> DEFINE c == AnswerLeaf(b, answers)
  <2>1. Answered(b, answers) = Advance(c)
    BY <1>5 DEF Answered
  <2>2. ASSUME NEW d, d = [b EXCEPT !.phase = "Walking", !.answers = answers, !.walking = TRUE]
        PROVE  /\ BuilderShaped(d) /\ d.links = b.links /\ d.answers = answers
               /\ d.remaining = b.remaining /\ d.phase = "Walking"
    BY <2>2 DEF Keeps, BuilderShaped
  <2>3. /\ BuilderShaped(c) /\ c.links = b.links /\ c.answers = answers
        /\ c.remaining = b.remaining /\ c.phase = "Walking"
    BY <2>2 DEF AnswerLeaf
  <2> HIDE DEF c
  <2>4. Becomes(w, c, {"Walking"})
    BY <2>3 DEF Becomes, Keeps, Leafless, LeafLast
  <2> QED  BY <1>1, <2>1, <2>4
<1> QED  BY <1>2, <1>3, <1>4, <1>5 DEF Asking

-----------------------------------------------------------------------------
\* What resolvers answer was said of the world; a degraded answer is still honest.

Strippable(r) ==
    /\ [r EXCEPT !.signatures = <<>>].signatures = <<>>
    /\ [r EXCEPT !.signatures = <<>>].rtype = r.rtype
    /\ [r EXCEPT !.signatures = <<>>].owner = r.owner
    /\ [r EXCEPT !.signatures = <<>>].data = r.data

LEMMA SaidOf ==
    ASSUME NEW w \in Worlds, NEW st \in [DOMAIN w.cut -> Stages],
           NEW n, NEW rtype \in Rtypes, NEW r \in Rrsets(w, st, n, rtype)
    PROVE  r \in Said(w) /\ Strippable(r)
<1>1. PICK d \in Data(w, st, n, rtype) :
         r = [owner |-> n, rtype |-> rtype, data |-> d, expanded |-> n \in w.wild,
              signatures |-> Signatures(w, st, SigningZone(w, n, rtype))]
  BY DEF Rrsets
<1>2. n \in DOMAIN w.cut \cup DOMAIN w.alias \cup w.txt
  BY DEF Data, Rtypes, Signing, Delegated
<1>3. r \in Said(w)
  <2> HIDE DEF Rtypes
  <2> QED  BY <1>2 DEF Said
<1>4. Strippable(r)
  BY <1>1 DEF Strippable
<1> QED  BY <1>3, <1>4

LEMMA AnswersAreSaid ==
    ASSUME NEW w \in Worlds, NEW st \in [DOMAIN w.cut -> Stages],
           NEW question, question.rtype \in Rtypes, NEW hops
    PROVE  \A r \in Answer(w, st, question, hops) : r \in Said(w) /\ Strippable(r)
<1>1. CASE question.rtype = "TXT"
  <2> DEFINE names == Range(Visited(w, question.name, hops))
  <2>1. ASSUME NEW r \in Answer(w, st, question, hops)
        PROVE  \E n \in names : \E rtype \in Rtypes : r \in Rrsets(w, st, n, rtype)
    <3> HIDE DEF names
    <3>1. PICK n \in names : r \in Rrsets(w, st, n, "CNAME") \cup Rrsets(w, st, n, "TXT")
      <4> USE DEF names
      <4> QED  BY <1>1 DEF Answer
    <3> QED  BY <3>1 DEF Rtypes
  <2> QED  BY <2>1, SaidOf
<1>2. CASE question.rtype # "TXT"
  <2>1. Answer(w, st, question, hops) = Rrsets(w, st, question.name, question.rtype)
    BY <1>2 DEF Answer
  <2> QED  BY <2>1, SaidOf
<1> QED  BY <1>1, <1>2

LEMMA DegradedIsHonest ==
    ASSUME NEW w \in Worlds, NEW answer, \A r \in answer : r \in Said(w) /\ Strippable(r)
    PROVE  Honest(w, answer) /\ \A less \in Degraded(answer) : Honest(w, less)
<1>1. ASSUME NEW r \in answer, r.rtype = "CNAME"
      PROVE  r.owner \in DOMAIN w.alias /\ r.data = w.alias[r.owner] /\ r.data \in Name
  <2>1. r.owner \in DOMAIN w.alias /\ r.data = w.alias[r.owner]
    BY <1>1, SaidIs
  <2> QED  BY <2>1, CourierAssumption
<1>2. Honest(w, answer) /\ \A r \in answer : Honest(w, answer \ {r})
  BY <1>1 DEF Honest
<1>3. Honest(w, {[r EXCEPT !.signatures = <<>>] : r \in answer})
  <2> DEFINE bare(r) == [r EXCEPT !.signatures = <<>>]
  <2>1. ASSUME NEW r \in answer
        PROVE  /\ bare(r).signatures = <<>>
               /\ bare(r).rtype = "CNAME" =>
                     /\ bare(r).owner \in DOMAIN w.alias /\ bare(r).data = w.alias[bare(r).owner]
                     /\ bare(r).data \in Name
    <3>1. /\ bare(r).signatures = <<>> /\ bare(r).rtype = r.rtype
          /\ bare(r).owner = r.owner /\ bare(r).data = r.data
      BY DEF Strippable
    <3> HIDE DEF bare
    <3> QED  BY <1>1, <3>1
  <2> HIDE DEF bare
  <2>2. Honest(w, {bare(r) : r \in answer})
    BY <2>1 DEF Honest
  <2> QED  BY <2>2 DEF bare
<1> QED  BY <1>2, <1>3 DEF Degraded

-----------------------------------------------------------------------------
\* The fetch.

\* Whatever is framed was said, and an unfinished fetch awaits an answer, without a leaf.
FetchInv ==
    /\ world \in Worlds /\ stage \in [DOMAIN world.cut -> Stages]
    /\ Keeps(world, builder) /\ LeafLast(builder)
    /\ result = "None" => builder.phase \in Asking /\ Leafless(builder)

LEMMA StartKeeps ==
    ASSUME NEW w
    PROVE  /\ Keeps(w, StartBuilder) /\ LeafLast(StartBuilder) /\ Leafless(StartBuilder)
           /\ StartBuilder.phase \in Asking
<1>1. StartBuilder.links = <<>> /\ StartBuilder.answers = {} /\ StartBuilder.remaining \in Nat
      /\ StartBuilder.phase = "RootKeys" /\ BuilderShaped(StartBuilder)
  BY ValidatorAssumption DEF StartBuilder, BuilderShaped
<1> QED  BY <1>1 DEF Keeps, LeafLast, Leafless, Asking, Honest

LEMMA FetchInit == Init => FetchInv
<1> SUFFICES ASSUME Init  PROVE FetchInv
  OBVIOUS
<1>1. world \in Worlds /\ stage \in [DOMAIN world.cut -> Stages]
  BY CourierAssumption DEF Init
<1> QED  BY <1>1, StartKeeps DEF Init, FetchInv

\* An upstream that fails: the next one starts over, or the fetch has failed.
LEMMA FailOverKeeps ==
    ASSUME FetchInv, result = "None", UNCHANGED <<world, stage>>,
           NEW last, Keeps(world, last), LeafLast(last), FailOver(last)
    PROVE  FetchInv'
<1>1. world' = world /\ stage' = stage
  OBVIOUS
<1>2. CASE builder' = StartBuilder
  BY <1>1, <1>2, StartKeeps DEF FetchInv
<1>3. CASE result' = "Failed" /\ builder' = last
  BY <1>1, <1>3 DEF FetchInv
<1> QED  BY <1>2, <1>3 DEF FailOver

LEMMA TakeKeeps ==
    ASSUME FetchInv, result = "None", UNCHANGED <<world, stage>>,
           NEW next, Becomes(world, next, Asking \cup {"Done"}), Take(next)
    PROVE  FetchInv'
<1>1. Keeps(world, next) /\ LeafLast(next)
  BY DEF Becomes
<1>2. CASE ~Going(next)
  BY <1>1, <1>2, FailOverKeeps DEF Take
<1>3. CASE Going(next)
  <2>1. /\ builder' = next
        /\ result' = IF next.phase = "Done" THEN "Framed" ELSE result
        /\ world' = world /\ stage' = stage
    BY <1>3 DEF Take
  <2>2. next.phase # "Done" => next.phase \in Asking /\ Leafless(next)
    BY <1>3 DEF Going, Becomes
  <2> QED  BY <1>1, <2>1, <2>2 DEF FetchInv
<1> QED  BY <1>2, <1>3

LEMMA FetchStep == FetchInv /\ [Next]_vars => FetchInv'
<1> SUFFICES ASSUME FetchInv, [Next]_vars  PROVE FetchInv'
  OBVIOUS
<1>1. ASSUME result = "None", UNCHANGED <<world, stage>>,
             NEW answers, answers = WholeAnswer \/ answers \in Degraded(WholeAnswer)
      PROVE  Becomes(world, Answered(builder, answers), Asking \cup {"Done"})
  <2>1. Keeps(world, builder) /\ Leafless(builder) /\ builder.phase \in Asking
    BY <1>1 DEF FetchInv
  <2>2. Question(builder).rtype \in Rtypes
    BY <2>1 DEF Question, Rtypes, Asking
  <2>3. \A r \in WholeAnswer : r \in Said(world) /\ Strippable(r)
    BY <2>2, AnswersAreSaid DEF FetchInv, WholeAnswer
  <2>4. Honest(world, answers)
    BY <1>1, <2>3, DegradedIsHonest DEF FetchInv
  <2> QED  BY <2>1, <2>4, AnsweredKeeps
<1>2. CASE Respond
  BY <1>1, <1>2, TakeKeeps DEF Respond
<1>3. CASE RespondDegraded
  <2>1. PICK next \in {Answered(builder, answers) : answers \in Degraded(WholeAnswer)} : Take(next)
    BY <1>3 DEF RespondDegraded
  <2>2. result = "None" /\ UNCHANGED <<world, stage>>
    BY <1>3 DEF RespondDegraded
  <2> QED  BY <1>1, <2>1, <2>2, TakeKeeps
<1>4. CASE QueryFails
  <2>1. /\ result = "None" /\ UNCHANGED <<world, stage>>
        /\ FailOver(Stopped(builder, "QueryFailed"))
    BY <1>4 DEF QueryFails
  <2>2. Keeps(world, builder) /\ Leafless(builder)
    BY <2>1 DEF FetchInv
  <2>3. Keeps(world, Stopped(builder, "QueryFailed")) /\ Leafless(Stopped(builder, "QueryFailed"))
    BY <2>2, MovesKeep
  <2> QED  BY <2>1, <2>3, FailOverKeeps DEF LeafLast, Leafless
<1>5. CASE \E z \in DOMAIN stage : Roll(z)
  <2>1. PICK z \in DOMAIN stage : Roll(z)
    BY <1>5
  <2>2. stage' \in [DOMAIN world.cut -> Stages]
    BY <2>1 DEF Roll, FetchInv, Stages
  <2> QED  BY <2>1, <2>2 DEF Roll, FetchInv
<1>6. CASE UNCHANGED vars
  BY <1>6 DEF vars, FetchInv
<1> QED  BY <1>2, <1>3, <1>4, <1>5, <1>6 DEF Next

THEOREM FetchInvariant == Spec => []FetchInv
BY FetchInit, FetchStep, PTL DEF Spec

\* No chain proves what the zones do not say, in any tree of zones, with any number of
\* upstreams, whatever they leave out or strip, and wherever the zones are in rolling
\* their keys: the walk has passed the owner's aliases in order, a leaf is no alias, and
\* every zone above what it passed is signed and securely delegated.
THEOREM NoBindingIsFalse == Spec => []NoFalseBinding
<1>1. FetchInv => NoFalseBinding
  <2> SUFFICES ASSUME FetchInv, Proven  PROVE Secure /\ Proof.target = Leaf
    BY DEF NoFalseBinding
  <2> DEFINE w == world
             v == Proof
             h == v.hops
  <2>1. w \in Worlds /\ builder.links \in Seq(Said(w))
    BY DEF FetchInv, Keeps
  <2>2. Guided(w, v) /\ Arrived(w, v)
    BY <2>1, ProvenIsArrived DEF Proven, Proof
  <2> HIDE DEF v
  <2>3. /\ h \in 0..MaxHops /\ MaxHops \in Nat /\ v.target = Way(w)[h]
        /\ v.target \in w.txt \ w.wild
    BY <2>2, ValidatorAssumption DEF Guided, Arrived
  <2>4. v.target \notin DOMAIN w.alias
    BY <2>1, <2>3, CourierAssumption
  <2>5. \A i \in h..MaxHops : Way(w)[i] = v.target
    BY <2>3, <2>4, PathEnds DEF Way
  <2>6. Leaf = v.target
    BY <2>3, <2>5 DEF Leaf, Path, Way
  <2>7. ASSUME NEW z \in Covering  PROVE w.cut[z].signed /\ (z # Root => w.cut[z].ds)
    <3>1. DOMAIN Path = 0..MaxHops
      BY <2>3, VisitedIs DEF Path
    <3>2. PICK i \in 0..MaxHops : IsPrefix(z, Path[i])
      BY <3>1 DEF Covering, Range
    <3>3. Path[i] = Way(w)[i]
      BY DEF Path, Way
    <3>4. Trusted(w, Path[i])
      <4>1. CASE i < h
        BY <2>2, <3>3, <4>1 DEF Guided
      <4>2. CASE ~(i < h)
        <5>1. i \in h..MaxHops
          BY <2>3, <4>2
        <5> QED  BY <2>2, <2>5, <3>3, <5>1 DEF Arrived
      <4> QED  BY <4>1, <4>2
    <3>5. z \in DOMAIN w.cut
      BY <2>7 DEF Covering
    <3> QED  BY <3>2, <3>4, <3>5 DEF Trusted
  <2> QED  BY <2>3, <2>6, <2>7 DEF Secure, v
<1> QED  BY <1>1, FetchInvariant, PTL

\* The window of a proof is joint, across both branches of every alias: each link that
\* narrows it has a signature in force throughout what is left of it, and the leaf is the
\* last of them.
THEOREM WindowsAreJoint == Spec => []WindowIsJoint
<1>1. FetchInv => WindowIsJoint
  <2> SUFFICES ASSUME FetchInv, Proven  PROVE WindowIsJoint
    BY DEF WindowIsJoint
  <2> DEFINE v == Proof
  <2>1. world \in Worlds /\ builder.links \in Seq(Said(world))
    BY DEF FetchInv, Keeps
  <2>2. \A i \in DOMAIN builder.links : builder.links[i].rtype = "TXT" => i = Len(builder.links)
    BY DEF FetchInv, LeafLast
  <2>3. Timed(v) /\ \A i \in DOMAIN builder.links : Covers(builder.links[i], v)
    BY <2>1, <2>2, ProvenIsJoint DEF Proven, Proof
  <2> HIDE DEF v
  <2> QED  BY <2>3 DEF Timed, Covers, WindowIsJoint, v
<1> QED  BY <1>1, FetchInvariant, PTL

-----------------------------------------------------------------------------
\* The variant: how the builder gets nearer to the end of a fetch.

\* The descent is inside the name at hand.
Aimed(b) ==
    /\ b.name \in Name /\ b.depth \in 1..Len(b.name)
    /\ b.zone \in Name /\ b.deepest \in Name

\* Only what is framed and what is awaited may differ.
SameAim(c, b) ==
    /\ c.zone = b.zone /\ c.name = b.name /\ c.depth = b.depth /\ c.deepest = b.deepest
    /\ c.walking = b.walking /\ c.answers = b.answers /\ c.remaining = b.remaining

Turns(b) == IF b.phase = "RootKeys" THEN 3
            ELSE IF b.phase = "Leaf" THEN 1
            ELSE IF b.walking THEN 0 ELSE 2

\* Effort's components but the first, compared.
Nearer(c, b) ==
    \/ Turns(c) < Turns(b)
    \/ /\ Turns(c) = Turns(b)
       /\ \/ c.remaining < b.remaining
          \/ /\ c.remaining = b.remaining
             /\ \/ Len(c.name) - c.depth < Len(b.name) - b.depth
                \/ /\ Len(c.name) - c.depth = Len(b.name) - b.depth
                   /\ c.phase # "Ds" /\ b.phase = "Ds"

LEMMA FramedAims ==
    ASSUME NEW b, BuilderShaped(b), NEW answers, NEW owner, NEW rtype
    PROVE  LET f == Framed(b, answers, owner, rtype)
           IN  /\ BuilderShaped(f) /\ SameAim(f, b)
               /\ f.phase = b.phase \/ f.phase \in BuildErrors
<1> DEFINE f == Framed(b, answers, owner, rtype)
           signed == {r \in Held(answers, owner, rtype) : r.signatures # <<>>}
           r0 == CHOOSE r \in signed : TRUE
<1>1. ASSUME NEW phase, NEW c, c = [b EXCEPT !.phase = phase]
      PROVE  BuilderShaped(c) /\ SameAim(c, b) /\ c.phase = phase
  BY <1>1 DEF BuilderShaped, SameAim
<1>2. ASSUME NEW links, NEW c, c = [b EXCEPT !.links = links]
      PROVE  BuilderShaped(c) /\ SameAim(c, b) /\ c.phase = b.phase
  BY <1>2 DEF BuilderShaped, SameAim
<1>3. \/ f = [b EXCEPT !.phase = "MissingRrset"]
      \/ f = [b EXCEPT !.phase = "OversizeChain"]
      \/ f = [b EXCEPT !.links = Append(b.links, r0)]
  BY DEF Framed, Stopped
<1> HIDE DEF f, r0
<1>4. CASE f = [b EXCEPT !.phase = "MissingRrset"]
  BY <1>1, <1>4 DEF BuildErrors, f
<1>5. CASE f = [b EXCEPT !.phase = "OversizeChain"]
  BY <1>1, <1>5 DEF BuildErrors, f
<1>6. CASE f = [b EXCEPT !.links = Append(b.links, r0)]
  BY <1>2, <1>6 DEF f
<1> QED  BY <1>3, <1>4, <1>5, <1>6

LEMMA StoppedAims ==
    ASSUME NEW b, BuilderShaped(b), NEW phase
    PROVE  /\ BuilderShaped(Stopped(b, phase)) /\ SameAim(Stopped(b, phase), b)
           /\ Stopped(b, phase).phase = phase
BY DEF BuilderShaped, SameAim, Stopped

LEMMA DescendAims ==
    ASSUME NEW b, BuilderShaped(b), Aimed(b), NEW name \in Name, NEW base \in Name,
           NEW depth \in 1..Len(name)
    PROVE  LET c == DescendInto(b, name, depth, base)
           IN  /\ BuilderShaped(c) /\ Aimed(c) /\ c.phase = "Ds"
               /\ c.walking = b.walking /\ c.answers = b.answers /\ c.remaining = b.remaining
<1>1. ASSUME NEW c, c = [b EXCEPT !.phase = "Ds", !.name = name, !.depth = depth, !.deepest = base]
      PROVE  /\ BuilderShaped(c) /\ c.phase = "Ds" /\ c.name = name /\ c.depth = depth
             /\ c.deepest = base /\ c.zone = b.zone
             /\ c.walking = b.walking /\ c.answers = b.answers /\ c.remaining = b.remaining
  BY <1>1 DEF BuilderShaped
<1>2. ASSUME NEW c, c = DescendInto(b, name, depth, base)
      PROVE  /\ BuilderShaped(c) /\ Aimed(c) /\ c.phase = "Ds"
             /\ c.walking = b.walking /\ c.answers = b.answers /\ c.remaining = b.remaining
  <2>1. /\ BuilderShaped(c) /\ c.phase = "Ds" /\ c.name = name /\ c.depth = depth
        /\ c.deepest = base /\ c.zone = b.zone
        /\ c.walking = b.walking /\ c.answers = b.answers /\ c.remaining = b.remaining
    BY <1>1, <1>2 DEF DescendInto
  <2> QED  BY <2>1 DEF Aimed
<1> QED  BY <1>2

\* The next suffix, the leaf, or the rest of the walk.
LEMMA NextCutAims ==
    ASSUME NEW b, BuilderShaped(b), Aimed(b)
    PROVE  LET c == NextCut(b)
           IN  /\ BuilderShaped(c) /\ Aimed(c)
               /\ c.walking = b.walking /\ c.answers = b.answers /\ c.remaining = b.remaining
               /\ \/ c.phase = "Ds" /\ Len(c.name) - c.depth < Len(b.name) - b.depth
                  \/ c.phase = "Walking" /\ b.walking
                  \/ c.phase = "Leaf" /\ ~b.walking
<1> DEFINE c == NextCut(b)
<1>0. Len(b.name) \in Nat
  BY DEF Aimed, Name
<1>1. CASE b.depth < Len(b.name)
  <2>1. c = [b EXCEPT !.phase = "Ds", !.depth = b.depth + 1]
    BY <1>1 DEF NextCut
  <2> HIDE DEF c
  <2>2. /\ BuilderShaped(c) /\ c.phase = "Ds" /\ c.name = b.name /\ c.depth = b.depth + 1
        /\ c.deepest = b.deepest /\ c.zone = b.zone
        /\ c.walking = b.walking /\ c.answers = b.answers /\ c.remaining = b.remaining
    BY <2>1 DEF BuilderShaped
  <2>3. b.depth + 1 \in 1..Len(b.name) /\ Len(b.name) - (b.depth + 1) < Len(b.name) - b.depth
    BY <1>0, <1>1 DEF Aimed
  <2> QED  BY <2>2, <2>3 DEF Aimed, c
<1>2. CASE ~(b.depth < Len(b.name))
  <2> DEFINE phase == IF b.walking THEN "Walking" ELSE "Leaf"
  <2>1. c = [b EXCEPT !.phase = phase, !.zone = b.deepest]
    BY <1>2 DEF NextCut
  <2>2. (b.walking /\ phase = "Walking") \/ (~b.walking /\ phase = "Leaf")
    <3>1. CASE b.walking
      BY <3>1
    <3>2. CASE ~b.walking
      BY <3>2
    <3> QED  BY <3>1, <3>2
  <2> HIDE DEF c, phase
  <2>3. /\ BuilderShaped(c) /\ c.phase = phase /\ c.name = b.name /\ c.depth = b.depth
        /\ c.deepest = b.deepest /\ c.zone = b.deepest
        /\ c.walking = b.walking /\ c.answers = b.answers /\ c.remaining = b.remaining
    BY <2>1 DEF BuilderShaped
  <2> QED  BY <2>2, <2>3 DEF Aimed, c
<1> QED  BY <1>1, <1>2

\* A turn of the walk that goes on has taken one from what remains.
LEMMA TurnAims ==
    ASSUME NEW w, NEW b, Keeps(w, b), Aimed(b), b.phase = "Walking", NEW i
    PROVE  LET c == Turn(b, i)
           IN  /\ Aimed(c) /\ c.walking = b.walking
               /\ c.phase \in {"Walking", "Ds"} => c.remaining = b.remaining - 1
<1> DEFINE c == Turn(b, i)
<1>1. ASSUME NEW d, NEW e, SameAim(d, e), Aimed(e)
      PROVE  Aimed(d) /\ d.walking = e.walking /\ d.remaining = e.remaining
  BY <1>1 DEF SameAim, Aimed
<1>2. BuilderShaped(b)
  BY DEF Keeps
<1>3. CASE b.remaining = 0
  <2>1. c = Stopped(b, "TooManyCnames")
    BY <1>3 DEF Turn
  <2>2. SameAim(Stopped(b, "TooManyCnames"), b) /\ Stopped(b, "TooManyCnames").phase = "TooManyCnames"
    BY <1>2, StoppedAims
  <2> HIDE DEF c
  <2>3. SameAim(c, b) /\ c.phase = "TooManyCnames"
    BY <2>1, <2>2
  <2> QED  BY <1>1, <2>3 DEF c
<1>4. CASE b.remaining # 0
  <2> DEFINE here == [b EXCEPT !.remaining = @ - 1]
             f == Framed(here, b.answers, b.current, "TXT")
  <2>1. /\ BuilderShaped(here) /\ here.name = b.name /\ here.depth = b.depth
        /\ here.zone = b.zone /\ here.deepest = b.deepest /\ here.walking = b.walking
        /\ here.answers = b.answers /\ here.remaining = b.remaining - 1 /\ here.phase = "Walking"
    BY <1>2 DEF BuilderShaped
  <2>2. \/ Going(f) /\ c = Stopped(f, "Done")
        \/ ~Going(f) /\ c = f
        \/ c = Stopped(here, "MissingRrset")
        \/ Held(b.answers, b.current, "CNAME") # {} /\ c = FollowAlias(here)
    BY <1>4 DEF Turn
  <2>3. here.current = b.current
    BY <1>2 DEF BuilderShaped
  <2> HIDE DEF here
  <2>4. Aimed(here)
    BY <2>1 DEF Aimed
  <2>5. BuilderShaped(f) /\ SameAim(f, here) /\ (f.phase = "Walking" \/ f.phase \in BuildErrors)
    BY <2>1, FramedAims
  <2> HIDE DEF f, c
  <2>6. CASE Going(f) /\ c = Stopped(f, "Done")
    <3>1. SameAim(c, f) /\ c.phase = "Done"
      BY <2>5, <2>6, StoppedAims
    <3>2. SameAim(c, here)
      BY <2>5, <3>1 DEF SameAim
    <3> QED  BY <1>1, <2>1, <2>4, <3>1, <3>2 DEF c
  <2>7. CASE ~Going(f) /\ c = f
    <3>1. SameAim(c, here) /\ c.phase \in BuildErrors
      BY <2>5, <2>7 DEF Going
    <3>2. Aimed(c) /\ c.walking = here.walking
      BY <1>1, <2>4, <3>1
    <3> QED  BY <2>1, <3>1, <3>2 DEF c, BuildErrors
  <2>8. CASE c = Stopped(here, "MissingRrset")
    <3>1. SameAim(c, here) /\ c.phase = "MissingRrset"
      BY <2>1, <2>8, StoppedAims
    <3> QED  BY <1>1, <2>1, <2>4, <3>1 DEF c
  <2>9. CASE Held(b.answers, b.current, "CNAME") # {} /\ c = FollowAlias(here)
    <3> DEFINE g == Framed(here, here.answers, here.current, "CNAME")
               r0 == CHOOSE r \in Held(here.answers, here.current, "CNAME") : TRUE
               target == r0.data
               base == IF IsPrefix(here.zone, target) THEN here.zone ELSE Root
               next == [g EXCEPT !.current = target]
    <3>1. BuilderShaped(g) /\ SameAim(g, here) /\ (g.phase = "Walking" \/ g.phase \in BuildErrors)
      BY <2>1, FramedAims
    <3>2. \/ ~Going(g) /\ c = g
          \/ Len(base) < Len(target) /\ c = DescendInto(next, target, Len(base) + 1, base)
          \/ c = next
      BY <2>9 DEF FollowAlias
    <3>3. target \in Name
      <4>1. r0 \in Held(here.answers, here.current, "CNAME")
        BY <2>1, <2>3, <2>9
      <4> HIDE DEF r0
      <4>2. r0 \in b.answers /\ r0.rtype = "CNAME"
        BY <2>1, <4>1 DEF Held
      <4> QED  BY <4>2 DEF Keeps, Honest
    <3>4. base \in Name
      <4>1. here.zone \in Name /\ Root \in Name
        BY <2>4 DEF Aimed, Root, Name
      <4> QED  BY <4>1
    <3> HIDE DEF g, r0, target, base
    <3>5. BuilderShaped(next) /\ SameAim(next, g) /\ next.phase = g.phase
      BY <3>1 DEF BuilderShaped, SameAim
    <3> HIDE DEF next
    <3>6. SameAim(next, here)
      BY <3>1, <3>5 DEF SameAim
    <3>7. Aimed(next) /\ next.walking = here.walking /\ next.remaining = here.remaining
      BY <1>1, <2>4, <3>6
    <3>8. CASE ~Going(g) /\ c = g
      <4>1. Aimed(c) /\ c.walking = here.walking /\ c.phase \in BuildErrors
        BY <1>1, <2>4, <3>1, <3>8 DEF Going
      <4> QED  BY <2>1, <4>1 DEF c, BuildErrors
    <3>9. CASE Len(base) < Len(target) /\ c = DescendInto(next, target, Len(base) + 1, base)
      <4> DEFINE d == Len(base) + 1
      <4>1. d \in 1..Len(target)
        BY <3>3, <3>4, <3>9 DEF Name
      <4> HIDE DEF d
      <4>2. c = DescendInto(next, target, d, base)
        BY <3>9 DEF d
      <4>3. Aimed(c) /\ c.walking = next.walking /\ c.remaining = next.remaining
        BY <3>3, <3>4, <3>5, <3>7, <4>1, <4>2, DescendAims
      <4> QED  BY <2>1, <3>7, <4>3 DEF c
    <3>10. CASE c = next
      BY <2>1, <3>7, <3>10 DEF c
    <3> QED  BY <3>2, <3>8, <3>9, <3>10
  <2> QED  BY <2>2, <2>6, <2>7, <2>8, <2>9
<1> QED  BY <1>3, <1>4

\* p: the world, the turns there were, and whether the builder is on the leaf's walk.
AimsSoFar(p, list, k, b) ==
    /\ TurnsSoFar(p, list, k, b)
    /\ Aimed(b) /\ b.walking = p.walking
    /\ b.phase = "Ds" => b.remaining < p.turns

Aiming == INSTANCE Folding WITH Step <- TurnStep, Holds <- AimsSoFar

\* The loop, if it leaves a builder that asks about another zone, has taken a turn.
LEMMA AdvanceAims ==
    ASSUME NEW w, NEW b, Becomes(w, b, {"Walking"}), Aimed(b), b.phase = "Walking"
    PROVE  LET c == Advance(b)
           IN  /\ Aimed(c) /\ c.walking = b.walking
               /\ c.phase \in {"Ds", "Done"} \cup BuildErrors
               /\ c.phase = "Ds" => c.remaining < b.remaining
<1> DEFINE n == b.remaining + 1
           list == [i \in 1..n |-> i]
           p == [world |-> w, turns |-> b.remaining, walking |-> b.walking]
           end == Aiming!Run(p, b, list)[DOMAIN list]
<1>0. b.remaining \in Nat
  BY DEF Becomes, Keeps
<1>1. FoldLeft(Turn, b, list) = end
  BY Zenon DEF FoldLeft, MapThenFoldSet, Max, TurnStep, Aiming!Run, Aiming!Runs, Aiming!Greatest
<1>2. Advance(b) = end
  BY <1>1 DEF Advance
<1>3. p.world = w /\ p.turns = b.remaining /\ p.walking = b.walking
  OBVIOUS
<1>4. n \in Nat /\ n > 0 /\ DOMAIN list = 1..n /\ p.turns = n - 1 /\ b.remaining = p.turns - 0
  BY <1>0
<1> HIDE DEF n, list, p
<1>5. AimsSoFar(p, list, 0, b)
  <2>1. Becomes(w, b, {"Walking", "Ds", "Done"})
    BY DEF Becomes
  <2> QED  BY <1>3, <1>4, <2>1 DEF AimsSoFar, TurnsSoFar
<1>6. ASSUME NEW k \in 1..n, NEW c, AimsSoFar(p, list, k - 1, c)
      PROVE  AimsSoFar(p, list, k, TurnStep(p, c, list[k]))
  <2> DEFINE i == list[k]
             d == Turn(c, i)
  <2>1. /\ Becomes(w, c, {"Walking", "Ds", "Done"}) /\ Aimed(c) /\ c.walking = p.walking
        /\ c.phase = "Ds" => c.remaining < p.turns
        /\ c.phase = "Walking" => c.remaining = p.turns - (k - 1)
    BY <1>3, <1>6 DEF AimsSoFar, TurnsSoFar
  <2> HIDE DEF i
  <2>2. CASE c.phase # "Walking"
    <3>1. d = c
      BY <2>2 DEF Turn
    <3> QED  BY <1>3, <2>1, <2>2, <3>1 DEF AimsSoFar, TurnsSoFar, TurnStep, i
  <2>3. CASE c.phase = "Walking"
    <3>1. Keeps(w, c) /\ Leafless(c)
      BY <2>1, <2>3 DEF Becomes, BuildErrors
    <3>2. /\ Becomes(w, d, {"Walking", "Ds", "Done"})
          /\ d.phase = "Walking" => d.remaining = c.remaining - 1
      BY <2>3, <3>1, TurnKeeps
    <3>3. /\ Aimed(d) /\ d.walking = c.walking
          /\ d.phase \in {"Walking", "Ds"} => d.remaining = c.remaining - 1
      BY <2>1, <2>3, <3>1, TurnAims
    <3>4. p.turns \in Int /\ c.remaining - 1 < p.turns
      BY <1>4, <2>1, <2>3
    <3> HIDE DEF d
    <3> QED  BY <1>3, <2>1, <2>3, <3>2, <3>3, <3>4 DEF AimsSoFar, TurnsSoFar, TurnStep, d, i
  <2> QED  BY <2>2, <2>3
<1>7. AimsSoFar(p, list, n, end)
  <2> HIDE DEF end
  <2> QED  BY <1>4, <1>5, <1>6, Aiming!Kept DEF end
<1> HIDE DEF end
<1>8. /\ Aimed(end) /\ end.walking = b.walking
      /\ end.phase = "Ds" => end.remaining < b.remaining
      /\ end.phase \in {"Walking", "Ds", "Done"} \cup BuildErrors
  BY <1>3, <1>7 DEF AimsSoFar, TurnsSoFar, Becomes
<1>9. end.phase # "Walking"
  <2>1. Becomes(w, b, {"Walking", "Ds", "Dnskey", "Leaf"})
    BY DEF Becomes
  <2>2. Becomes(w, end, Asking \cup {"Done"})
    BY <1>0, <1>2, <2>1, AdvanceKeeps
  <2> QED  BY <2>2 DEF Becomes, Asking, BuildErrors
<1> QED  BY <1>2, <1>8, <1>9

\* Every answer brings the builder nearer to the end of its fetch, or ends it.
LEMMA AnsweredNearer ==
    ASSUME NEW w \in Worlds, NEW b, Keeps(w, b), Leafless(b), Aimed(b), b.phase \in Asking,
           NEW answers, Honest(w, answers), Answered(b, answers).phase \in Asking
    PROVE  Aimed(Answered(b, answers)) /\ Nearer(Answered(b, answers), b)
<1> DEFINE c == Answered(b, answers)
<1>1. BuilderShaped(b) /\ b.remaining \in Nat /\ Len(b.name) \in Nat /\ b.depth \in Nat
  BY DEF Keeps, Aimed, Name
<1>2. \A x : x.phase # "Walking" => Advance(x) = x
  BY DEF Advance
<1>3. ASSUME NEW x, Aimed(x), x.walking = b.walking, x.remaining = b.remaining,
             NEW phases, Becomes(w, x, phases), b.phase \in {"Ds", "Dnskey"}, c = Advance(x),
             \/ x.phase = "Ds" /\ Len(x.name) - x.depth < Len(b.name) - b.depth
             \/ x.phase = "Walking" /\ b.walking
             \/ x.phase = "Leaf" /\ ~b.walking
      PROVE  Aimed(c) /\ Nearer(c, b)
  <2>1. CASE x.phase = "Ds" /\ Len(x.name) - x.depth < Len(b.name) - b.depth
    <3>1. c = x
      BY <1>2, <1>3, <2>1
    <3>2. Turns(x) = Turns(b)
      BY <1>3, <2>1 DEF Turns
    <3> QED  BY <1>3, <2>1, <3>1, <3>2 DEF Nearer
  <2>2. CASE x.phase = "Walking" /\ b.walking
    <3>1. Becomes(w, x, {"Walking"})
      BY <1>3, <2>2 DEF Becomes
    <3>2. /\ Aimed(c) /\ c.walking = x.walking /\ c.phase \in {"Ds", "Done"} \cup BuildErrors
          /\ c.phase = "Ds" => c.remaining < x.remaining
      BY <1>3, <2>2, <3>1, AdvanceAims
    <3> HIDE DEF c
    <3>3. c.phase = "Ds"
      BY <3>2 DEF Asking, BuildErrors, c
    <3>4. Turns(c) = Turns(b)
      BY <1>3, <3>2, <3>3 DEF Turns
    <3> QED  BY <1>3, <3>2, <3>3, <3>4 DEF Nearer
  <2>3. CASE x.phase = "Leaf" /\ ~b.walking
    <3>1. c = x
      BY <1>2, <1>3, <2>3
    <3>2. Turns(x) = 1 /\ Turns(b) = 2
      BY <1>3, <2>3 DEF Turns
    <3> QED  BY <1>3, <3>1, <3>2 DEF Nearer
  <2> QED  BY <1>3, <2>1, <2>2, <2>3
<1>4. CASE b.phase = "RootKeys"
  <2> DEFINE f == Framed(b, answers, Root, "DNSKEY")
             x == DescendInto(f, Owner, 1, Root)
  <2>1. BuilderShaped(f) /\ SameAim(f, b) /\ (f.phase = b.phase \/ f.phase \in BuildErrors)
    BY <1>1, FramedAims
  <2>2. c = IF Going(f) THEN Advance(x) ELSE Advance(f)
    BY <1>4 DEF Answered, AnswerRootKeys
  <2> HIDE DEF f
  <2>3. Aimed(f)
    BY <2>1 DEF SameAim, Aimed
  <2>4. Owner \in Name /\ Root \in Name /\ 1 \in 1..Len(Owner)
    BY CourierAssumption DEF Name, Root
  <2>5. Aimed(x) /\ x.phase = "Ds"
    BY <2>1, <2>3, <2>4, DescendAims
  <2> HIDE DEF x, c
  <2>6. Going(f)
    <3>1. ~Going(f) => f.phase \in BuildErrors /\ c = f
      BY <1>2, <2>2 DEF Going, BuildErrors
    <3> QED  BY <3>1 DEF Asking, BuildErrors, c
  <2>7. c = x
    BY <1>2, <2>2, <2>5, <2>6
  <2>8. Turns(x) \in {0, 2} /\ Turns(b) = 3
    BY <1>4, <2>5 DEF Turns
  <2> QED  BY <2>5, <2>7, <2>8 DEF Nearer, c
<1>5. CASE b.phase = "Ds"
  <2> DEFINE zone == TrimTo(b.name, b.depth)
             f == Framed(b, answers, zone, "DS")
             g == [f EXCEPT !.phase = "Dnskey"]
  <2>1. BuilderShaped(f) /\ SameAim(f, b) /\ (f.phase = b.phase \/ f.phase \in BuildErrors)
    BY <1>1, FramedAims
  <2>2. \/ AnswerDs(b, answers) = NextCut(b)
        \/ AnswerDs(b, answers) = g
        \/ ~Going(f) /\ AnswerDs(b, answers) = f
    BY DEF AnswerDs
  <2>3. c = Advance(AnswerDs(b, answers))
    BY <1>5 DEF Answered
  <2> HIDE DEF f
  <2>4. SameAim(g, f) /\ g.phase = "Dnskey"
    <3>1. g = Stopped(f, "Dnskey")
      BY DEF Stopped
    <3> QED  BY <2>1, <3>1, StoppedAims
  <2> HIDE DEF g, c
  <2>5. CASE AnswerDs(b, answers) = NextCut(b)
    <3> DEFINE x == NextCut(b)
    <3>1. /\ Aimed(x) /\ x.walking = b.walking /\ x.remaining = b.remaining
          /\ \/ x.phase = "Ds" /\ Len(x.name) - x.depth < Len(b.name) - b.depth
             \/ x.phase = "Walking" /\ b.walking
             \/ x.phase = "Leaf" /\ ~b.walking
      BY <1>1, NextCutAims
    <3>2. Becomes(w, x, {"Ds", "Dnskey", "Walking", "Leaf"})
      BY <1>5, <2>5, ZoneAnswersKeep
    <3>3. c = Advance(x)
      BY <2>3, <2>5
    <3> HIDE DEF x
    <3> QED  BY <1>3, <1>5, <3>1, <3>2, <3>3 DEF c
  <2>6. CASE AnswerDs(b, answers) = g
    <3>1. c = g
      BY <1>2, <2>3, <2>4, <2>6
    <3>2. SameAim(g, b)
      BY <2>1, <2>4 DEF SameAim
    <3>3. Turns(g) = Turns(b) /\ Aimed(g)
      BY <1>5, <2>4, <3>2 DEF Turns, SameAim, Aimed
    <3> QED  BY <1>5, <2>4, <3>1, <3>2, <3>3 DEF Nearer, SameAim, c
  <2>7. CASE ~Going(f) /\ AnswerDs(b, answers) = f
    <3>1. f.phase \in BuildErrors /\ c = f
      BY <1>2, <2>3, <2>7 DEF Going, BuildErrors
    <3> QED  BY <3>1 DEF Asking, BuildErrors, c
  <2> QED  BY <2>2, <2>5, <2>6, <2>7 DEF c
<1>6. CASE b.phase = "Dnskey"
  <2> DEFINE zone == TrimTo(b.name, b.depth)
             f == Framed(b, answers, zone, "DNSKEY")
             g == [f EXCEPT !.deepest = zone]
             x == NextCut(g)
  <2>1. BuilderShaped(f) /\ SameAim(f, b) /\ (f.phase = b.phase \/ f.phase \in BuildErrors)
    BY <1>1, FramedAims
  <2>2. AnswerDnskey(b, answers) = IF Going(f) THEN x ELSE f
    BY DEF AnswerDnskey
  <2>3. c = Advance(AnswerDnskey(b, answers))
    BY <1>6 DEF Answered
  <2>4. zone \in Name
    <3>1. b.name \in Seq(STRING) /\ b.depth \in 1..Len(b.name)
      BY DEF Aimed, Name
    <3> QED  BY <3>1 DEF TrimTo, Name
  <2> HIDE DEF f, zone, c
  <2>5. /\ BuilderShaped(g) /\ Aimed(g) /\ g.walking = b.walking /\ g.remaining = b.remaining
        /\ g.name = b.name /\ g.depth = b.depth
    <3>1. /\ BuilderShaped(g) /\ g.deepest = zone /\ g.zone = f.zone /\ g.name = f.name
          /\ g.depth = f.depth /\ g.walking = f.walking /\ g.remaining = f.remaining
      BY <2>1 DEF BuilderShaped
    <3> HIDE DEF g
    <3> QED  BY <2>1, <2>4, <3>1 DEF SameAim, Aimed
  <2> HIDE DEF g
  <2>6. /\ Aimed(x) /\ x.walking = g.walking /\ x.remaining = g.remaining
        /\ \/ x.phase = "Ds" /\ Len(x.name) - x.depth < Len(g.name) - g.depth
           \/ x.phase = "Walking" /\ g.walking
           \/ x.phase = "Leaf" /\ ~g.walking
    BY <2>5, NextCutAims
  <2> HIDE DEF x
  <2>7. CASE Going(f)
    <3>1. Becomes(w, x, {"Ds", "Walking", "Leaf"}) /\ c = Advance(x)
      BY <1>6, <2>2, <2>3, <2>7, ZoneAnswersKeep
    <3> QED  BY <1>3, <1>6, <2>5, <2>6, <3>1 DEF c
  <2>8. CASE ~Going(f)
    <3>1. f.phase \in BuildErrors /\ c = f
      BY <1>2, <2>2, <2>3, <2>8 DEF Going, BuildErrors
    <3> QED  BY <3>1 DEF Asking, BuildErrors, c
  <2> QED  BY <2>7, <2>8 DEF c
<1>7. CASE b.phase = "Leaf"
  <2> DEFINE x == AnswerLeaf(b, answers)
  <2>1. c = Advance(x)
    BY <1>7 DEF Answered
  <2>2. ASSUME NEW d, d = [b EXCEPT !.phase = "Walking", !.answers = answers, !.walking = TRUE]
        PROVE  /\ BuilderShaped(d) /\ d.links = b.links /\ d.answers = answers
               /\ d.remaining = b.remaining /\ d.phase = "Walking" /\ d.walking = TRUE
               /\ d.name = b.name /\ d.depth = b.depth /\ d.zone = b.zone
               /\ d.deepest = b.deepest
    BY <1>1, <2>2 DEF BuilderShaped
  <2>3. /\ BuilderShaped(x) /\ x.links = b.links /\ x.answers = answers
        /\ x.remaining = b.remaining /\ x.phase = "Walking" /\ x.walking = TRUE
        /\ x.name = b.name /\ x.depth = b.depth /\ x.zone = b.zone /\ x.deepest = b.deepest
    BY <2>2 DEF AnswerLeaf
  <2> HIDE DEF x, c
  <2>4. Becomes(w, x, {"Walking"}) /\ Aimed(x)
    BY <2>3 DEF Becomes, Keeps, Leafless, LeafLast, Aimed
  <2>5. /\ Aimed(c) /\ c.walking = x.walking /\ c.phase \in {"Ds", "Done"} \cup BuildErrors
    BY <2>1, <2>3, <2>4, AdvanceAims
  <2>6. c.phase = "Ds"
    BY <2>5 DEF Asking, BuildErrors, c
  <2>7. Turns(c) = 0 /\ Turns(b) = 1
    BY <1>7, <2>3, <2>5, <2>6 DEF Turns
  <2> QED  BY <2>5, <2>7 DEF Nearer, c
<1> QED  BY <1>4, <1>5, <1>6, <1>7 DEF Asking

EffortOf(u, b) ==
    <<Upstreams - u, Turns(b), b.remaining, Len(b.name) - b.depth,
      IF b.phase = "Ds" THEN 1 ELSE 0>>

\* An unfinished fetch awaits an answer about a suffix of the name at hand.
AimInv ==
    /\ FetchInv
    /\ upstream \in Int /\ rolls \in Int
    /\ result = "None" => Aimed(builder)

LEMMA LessByUpstream ==
    ASSUME NEW u \in Int, NEW b, NEW c
    PROVE  Less(EffortOf(u + 1, c), EffortOf(u, b))
<1> DEFINE x == EffortOf(u + 1, c)
           y == EffortOf(u, b)
<1>1. DOMAIN x = 1..5 /\ x[1] = Upstreams - (u + 1) /\ y[1] = Upstreams - u
  BY DEF EffortOf
<1> HIDE DEF x, y
<1>2. x[1] < y[1]
  BY <1>1, CourierAssumption
<1> QED  BY <1>1, <1>2 DEF Less, x, y

LEMMA LessByAnswer ==
    ASSUME NEW u, NEW b, NEW c, Nearer(c, b)
    PROVE  Less(EffortOf(u, c), EffortOf(u, b))
<1> DEFINE x == EffortOf(u, c)
           y == EffortOf(u, b)
<1>1. /\ DOMAIN x = 1..5 /\ x[1] = y[1]
      /\ x[2] = Turns(c) /\ y[2] = Turns(b)
      /\ x[3] = c.remaining /\ y[3] = b.remaining
      /\ x[4] = Len(c.name) - c.depth /\ y[4] = Len(b.name) - b.depth
      /\ c.phase # "Ds" => x[5] = 0
      /\ b.phase = "Ds" => y[5] = 1
  BY DEF EffortOf
<1> HIDE DEF x, y
<1>2. ASSUME NEW i \in 1..5, x[i] < y[i], \A j \in 1..(i - 1) : x[j] = y[j]
      PROVE  Less(x, y)
  BY <1>1, <1>2 DEF Less
<1>3. CASE Turns(c) < Turns(b)
  <2>1. x[2] < y[2] /\ \A j \in 1..(2 - 1) : x[j] = y[j]
    BY <1>1, <1>3
  <2> QED  BY <1>2, <2>1 DEF x, y
<1>4. CASE Turns(c) = Turns(b) /\ c.remaining < b.remaining
  <2>1. x[3] < y[3] /\ \A j \in 1..(3 - 1) : x[j] = y[j]
    BY <1>1, <1>4
  <2> QED  BY <1>2, <2>1 DEF x, y
<1>5. CASE /\ Turns(c) = Turns(b) /\ c.remaining = b.remaining
           /\ Len(c.name) - c.depth < Len(b.name) - b.depth
  <2>1. x[4] < y[4] /\ \A j \in 1..(4 - 1) : x[j] = y[j]
    BY <1>1, <1>5
  <2> QED  BY <1>2, <2>1 DEF x, y
<1>6. CASE /\ Turns(c) = Turns(b) /\ c.remaining = b.remaining
           /\ Len(c.name) - c.depth = Len(b.name) - b.depth
           /\ c.phase # "Ds" /\ b.phase = "Ds"
  <2>1. x[5] < y[5] /\ \A j \in 1..(5 - 1) : x[j] = y[j]
    BY <1>1, <1>6
  <2> QED  BY <1>2, <2>1 DEF x, y
<1> QED  BY <1>3, <1>4, <1>5, <1>6 DEF Nearer

LEMMA StartAims == Aimed(StartBuilder)
<1>1. Owner \in Name /\ Root \in Name /\ 1 \in 1..Len(Owner)
  BY CourierAssumption DEF Name, Root
<1> QED  BY <1>1 DEF StartBuilder, Aimed

LEMMA AimInit == Init => AimInv
BY FetchInit, StartAims DEF Init, AimInv

\* One step of the fetch that does not end it.
LEMMA AimStep ==
    ASSUME AimInv, [Next]_vars
    PROVE  /\ AimInv'
           /\ \/ UNCHANGED vars \/ result' # "None" \/ rolls' # rolls
              \/ Less(EffortOf(upstream', builder'), EffortOf(upstream, builder))
<1> DEFINE Ahead == \/ UNCHANGED vars \/ result' # "None" \/ rolls' # rolls
                    \/ Less(EffortOf(upstream', builder'), EffortOf(upstream, builder))
<1>0. FetchInv'
  BY FetchStep DEF AimInv
<1>1. ASSUME NEW last, FailOver(last), rolls' = rolls
      PROVE  AimInv' /\ Ahead
  <2>1. CASE upstream < Upstreams
    <3>1. upstream' = upstream + 1 /\ builder' = StartBuilder
      BY <1>1, <2>1 DEF FailOver
    <3>2. AimInv'
      BY <1>0, <1>1, <3>1, StartAims DEF AimInv
    <3> QED  BY <3>1, <3>2, LessByUpstream DEF AimInv
  <2>2. CASE ~(upstream < Upstreams)
    <3>1. result' = "Failed" /\ upstream' = upstream
      BY <1>1, <2>2 DEF FailOver
    <3> QED  BY <1>0, <1>1, <3>1 DEF AimInv
  <2> QED  BY <2>1, <2>2
<1>2. ASSUME result = "None", rolls' = rolls,
             NEW answers, answers = WholeAnswer \/ answers \in Degraded(WholeAnswer),
             Take(Answered(builder, answers))
      PROVE  AimInv' /\ Ahead
  <2> DEFINE next == Answered(builder, answers)
  <2>1. /\ world \in Worlds /\ Keeps(world, builder) /\ Leafless(builder)
        /\ builder.phase \in Asking /\ Aimed(builder)
    BY <1>2 DEF AimInv, FetchInv
  <2>2. Honest(world, answers)
    <3>1. Question(builder).rtype \in Rtypes
      BY <2>1 DEF Question, Rtypes, Asking
    <3>2. \A r \in WholeAnswer : r \in Said(world) /\ Strippable(r)
      BY <3>1, AnswersAreSaid DEF AimInv, FetchInv, WholeAnswer
    <3> QED  BY <1>2, <2>1, <3>2, DegradedIsHonest
  <2>3. Becomes(world, next, Asking \cup {"Done"})
    BY <2>1, <2>2, AnsweredKeeps
  <2>4. next.phase \in Asking => Aimed(next) /\ Nearer(next, builder)
    BY <2>1, <2>2, AnsweredNearer
  <2> HIDE DEF next
  <2>5. CASE ~Going(next)
    BY <1>1, <1>2, <2>5 DEF Take, next
  <2>6. CASE Going(next)
    <3>1. /\ builder' = next /\ upstream' = upstream
          /\ result' = IF next.phase = "Done" THEN "Framed" ELSE result
      BY <1>2, <2>6 DEF Take, next
    <3>2. CASE next.phase = "Done"
      BY <1>0, <1>2, <3>1, <3>2 DEF AimInv
    <3>3. CASE next.phase # "Done"
      <4>1. Aimed(next) /\ Nearer(next, builder)
        BY <2>3, <2>4, <2>6, <3>3 DEF Becomes, Going
      <4> QED  BY <1>0, <1>2, <3>1, <4>1, LessByAnswer DEF AimInv
    <3> QED  BY <3>2, <3>3
  <2> QED  BY <2>5, <2>6
<1>3. CASE Respond
  <2>1. result = "None" /\ rolls' = rolls /\ Take(Answered(builder, WholeAnswer))
    BY <1>3 DEF Respond
  <2> QED  BY <1>2, <2>1
<1>4. CASE RespondDegraded
  <2>1. PICK answers \in Degraded(WholeAnswer) : Take(Answered(builder, answers))
    BY <1>4 DEF RespondDegraded
  <2>2. result = "None" /\ rolls' = rolls
    BY <1>4 DEF RespondDegraded
  <2> QED  BY <1>2, <2>1, <2>2
<1>5. CASE QueryFails
  BY <1>1, <1>5 DEF QueryFails
<1>6. CASE \E z \in DOMAIN stage : Roll(z)
  <2>1. rolls' = rolls + 1 /\ UNCHANGED <<upstream, builder, result>>
    BY <1>6 DEF Roll
  <2> QED  BY <1>0, <2>1 DEF AimInv
<1>7. CASE UNCHANGED vars
  BY <1>0, <1>7 DEF AimInv, vars
<1> QED  BY <1>3, <1>4, <1>5, <1>6, <1>7 DEF Next

\* Fetches end: each answer, timeout or refusal brings a fetch that it does not end nearer
\* to its end, for every tree of zones, loops of aliases among them, whatever is left out
\* of the answers. A failure uses an upstream up; the walk to the leaf never comes back from
\* it; each turn of the walk takes one of the hops; a descent goes one label further.
THEOREM AnswersCount == Spec => EveryAnswerCounts
<1>1. AimInv /\ [Next]_vars => AimInv'
  BY AimStep
<1>2. AimInv /\ [Next]_vars => [result' = "None" /\ UNCHANGED rolls => Less(Effort', Effort)]_vars
  <2> SUFFICES ASSUME AimInv, [Next]_vars, ~UNCHANGED vars, result' = "None", rolls' = rolls
               PROVE  Less(Effort', Effort)
    OBVIOUS
  <2>1. Less(EffortOf(upstream', builder'), EffortOf(upstream, builder))
    BY AimStep
  <2>2. Effort = EffortOf(upstream, builder) /\ Effort' = EffortOf(upstream', builder')
    BY DEF Effort, EffortOf, Turns
  <2> QED  BY <2>1, <2>2
<1> QED  BY AimInit, <1>1, <1>2, PTL DEF Spec, EveryAnswerCounts

-----------------------------------------------------------------------------
\* The shape of what is framed: the validator's walk follows the builder, link by link.

\* p: the function that the fold over a longer list evaluates.
TracedSoFar(p, list, k, v) == v = p[1..k]

Tracing == INSTANCE Folding WITH Step <- WalkStep, Holds <- TracedSoFar

\* The walk over a list of links, from where it stands.
Folded(v, list) == FoldLeft(Step, v, list)

\* What a fold evaluates, whatever p is.
LEMMA FoldTraced ==
    ASSUME NEW p, NEW base, NEW seq
    PROVE  Folded(base, seq) = Tracing!Run(p, base, seq)[DOMAIN seq]
BY Zenon DEF Folded, FoldLeft, MapThenFoldSet, Max, WalkStep, Tracing!Run, Tracing!Runs, Tracing!Greatest

\* A walk over one link more goes one step further.
LEMMA FoldOn ==
    ASSUME NEW base, NEW S, NEW list \in Seq(S), NEW r \in S
    PROVE  /\ Folded(base, <<>>) = base
           /\ Folded(base, Append(list, r)) = Step(Folded(base, list), r)
<1> DEFINE n == Len(list)
           long == Append(list, r)
           none == <<>>
           run == Tracing!Run("", base, long)
<1>1. /\ n \in Nat /\ n + 1 \in Nat /\ DOMAIN list = 1..n /\ DOMAIN long = 1..(n + 1)
      /\ long[n + 1] = r /\ \A k \in 1..n : long[k] = list[k]
  OBVIOUS
<1>2. ASSUME NEW seq, NEW p
      PROVE  Folded(base, seq) = Tracing!Run(p, base, seq)[DOMAIN seq]
  BY FoldTraced
<1> HIDE DEF n, long
<1>3. Tracing!Runs("", base, long, DOMAIN long, run)
  BY <1>1, Tracing!RunExists
<1> HIDE DEF run
<1>4. run[1..0] = base
  <2> DEFINE D == DOMAIN long
  <2>1. {} \in SUBSET D
    OBVIOUS
  <2>2. run[{}] = base
    <3> HIDE DEF D
    <3> QED  BY <1>3, <2>1 DEF Tracing!Runs, D
  <2>3. 1..0 = {}
    OBVIOUS
  <2> QED  BY <2>2, <2>3
<1>5. ASSUME NEW m \in 1..(n + 1)
      PROVE  run[1..m] = Step(run[1..(m-1)], long[m])
  <2>0. n \in Nat /\ DOMAIN long = 1..(n + 1)
    BY <1>1
  <2>1. m \in 1..m /\ 1..m # {} /\ 1..m \in SUBSET (1..(n + 1)) /\ (1..m) \ {m} = 1..(m-1)
    <3>1. m \in Nat /\ m >= 1 /\ m <= n + 1
      BY <2>0
    <3>2. m \in 1..m /\ \A x \in 1..m : x \in 1..(n + 1)
      BY <2>0, <3>1
    <3>3. (1..m) \ {m} = 1..(m-1)
      BY <3>1
    <3> QED  BY <3>2, <3>3
  <2>2. Tracing!Greatest(1..m) = m
    BY <2>1, Tracing!GreatestIs
  <2>3. run[1..m] = WalkStep("", run[(1..m) \ {Tracing!Greatest(1..m)}], long[Tracing!Greatest(1..m)])
    BY <1>3, <2>0, <2>1 DEF Tracing!Runs
  <2> QED  BY <2>1, <2>2, <2>3 DEF WalkStep
<1>6. Folded(base, list) = run[1..n]
  <2> DEFINE end == Tracing!Run(run, base, list)[DOMAIN list]
  <2>1. TracedSoFar(run, list, 0, base)
    BY <1>4 DEF TracedSoFar
  <2>2. ASSUME NEW k \in 1..n, NEW v, TracedSoFar(run, list, k - 1, v)
        PROVE  TracedSoFar(run, list, k, WalkStep(run, v, list[k]))
    <3>1. k \in 1..(n + 1) /\ long[k] = list[k]
      BY <1>1
    <3> QED  BY <1>5, <2>2, <3>1 DEF TracedSoFar, WalkStep
  <2>3. TracedSoFar(run, list, n, end)
    <3> HIDE DEF end
    <3> QED  BY <1>1, <2>1, <2>2, Tracing!Kept DEF end
  <2>4. Folded(base, list) = end
    BY <1>2
  <2> QED  BY <2>3, <2>4 DEF TracedSoFar
<1>7. Folded(base, long) = run[1..(n + 1)]
  <2>1. Folded(base, long) = run[DOMAIN long]
    BY <1>2 DEF run
  <2> QED  BY <1>1, <2>1
<1>8. run[1..(n + 1)] = Step(run[1..n], r)
  <2>1. n + 1 \in 1..(n + 1) /\ (n + 1) - 1 = n
    BY <1>1
  <2> QED  BY <1>1, <1>5, <2>1
<1>9. Folded(base, none) = base
  <2> DEFINE q == [s \in {{}} |-> base]
             end == Tracing!Run(q, base, none)[DOMAIN none]
  <2>1. 0 \in Nat /\ DOMAIN none = 1..0 /\ 1..0 = {} /\ q[1..0] = base
    OBVIOUS
  <2> HIDE DEF q, none
  <2>2. TracedSoFar(q, none, 0, base)
    BY <2>1 DEF TracedSoFar
  <2>3. \A k \in 1..0 : FALSE
    OBVIOUS
  <2>4. TracedSoFar(q, none, 0, end)
    <3> HIDE DEF end
    <3> QED  BY <2>1, <2>2, <2>3, Tracing!Kept DEF end
  <2>5. Folded(base, none) = end
    BY <1>2
  <2> QED  BY <2>1, <2>4, <2>5 DEF TracedSoFar
<1> QED  BY <1>6, <1>7, <1>8, <1>9 DEF long

\* Where the validator stands after a chain, its last word aside.
Walked(links) == Folded(EnterAnchored(Owner, Head(links)), Tail(links))

LEMMA WalkedOn ==
    ASSUME NEW S, NEW links \in Seq(S), NEW r \in S
    PROVE  /\ Append(links, r) \in Seq(S) /\ Append(links, r) # <<>>
           /\ Len(Append(links, r)) = Len(links) + 1
           /\ links = <<>> => /\ Head(Append(links, r)) = r
                              /\ Walked(Append(links, r)) = EnterAnchored(Owner, r)
           /\ links # <<>> => /\ Head(Append(links, r)) = Head(links)
                              /\ Walked(Append(links, r)) = Step(Walked(links), r)
<1> DEFINE longer == Append(links, r)
<1>1. /\ longer \in Seq(S) /\ longer # <<>> /\ Len(longer) = Len(links) + 1
      /\ Head(longer) = longer[1]
  OBVIOUS
<1>2. ASSUME links = <<>>
      PROVE  Head(longer) = r /\ Tail(longer) = <<>>
  BY <1>2
<1>3. ASSUME links # <<>>
      PROVE  /\ Head(longer) = Head(links) /\ Tail(longer) = Append(Tail(links), r)
             /\ Tail(links) \in Seq(S)
  <2>1. Len(links) \in Nat /\ Len(links) >= 1 /\ Tail(links) \in Seq(S)
    BY <1>3
  <2>2. Head(longer) = Head(links)
    BY <1>1, <2>1
  <2>3. /\ Tail(longer) \in Seq(S) /\ Append(Tail(links), r) \in Seq(S)
        /\ Len(Tail(longer)) = Len(links) /\ Len(Append(Tail(links), r)) = Len(links)
    BY <1>1, <2>1
  <2>4. \A i \in 1..Len(links) : Tail(longer)[i] = Append(Tail(links), r)[i]
    BY <2>1
  <2>5. Tail(longer) = Append(Tail(links), r)
    <3> HIDE DEF longer
    <3> QED  BY <2>3, <2>4, SeqEqual
  <2> QED  BY <2>1, <2>2, <2>5
<1>4. links = <<>> => Walked(longer) = EnterAnchored(Owner, r)
  <2>1. \A base : Folded(base, <<>>) = base
    BY FoldOn
  <2> HIDE DEF longer
  <2> QED  BY <1>2, <2>1 DEF Walked
<1>5. links # <<>> => Walked(longer) = Step(Walked(links), r)
  <2>1. SUFFICES ASSUME links # <<>>  PROVE Walked(longer) = Step(Walked(links), r)
    OBVIOUS
  <2> DEFINE base == EnterAnchored(Owner, Head(links))
  <2>2. Walked(longer) = Folded(base, Append(Tail(links), r))
    <3> HIDE DEF longer
    <3> QED  BY <1>3, <2>1 DEF Walked
  <2>3. Walked(links) = Folded(base, Tail(links))
    BY DEF Walked
  <2> DEFINE list == Tail(links)
  <2>4. list \in Seq(S)
    BY <1>3, <2>1
  <2> HIDE DEF base, list
  <2>5. Folded(base, Append(list, r)) = Step(Folded(base, list), r)
    BY <2>4, FoldOn
  <2> QED  BY <2>2, <2>3, <2>5 DEF list
<1> QED  BY <1>1, <1>2, <1>3, <1>4, <1>5

-----------------------------------------------------------------------------
\* What a step of the walk may object to: a signature, a window, a delegation, a leaf that
\* was synthesized.
Objections == {"NoUsableSignature", "EmptyWindow", "DsMismatch", "WildcardExpansion"}

Objected(v) == v.verdict \in Objections

LEMMA VerifiedOrObjected ==
    ASSUME NEW v, Shaped(v), Walks(v), NEW link
    PROVE  LET u == Verified(v, link)
           IN  Shaped(u) /\ (Objected(u) \/ (Walks(u) /\ StaysPut(u, v)))
<1> DEFINE i0 == CHOOSE i \in Usable(v, link) : \A j \in Usable(v, link) : i <= j
           used == link.signatures[i0].window
           joint == <<Later(v.window[1], used[1]), Earlier(v.window[2], used[2])>>
           u == Verified(v, link)
<1>1. \/ u = [v EXCEPT !.verdict = "NoUsableSignature"]
      \/ u = [v EXCEPT !.verdict = "EmptyWindow"]
      \/ u = [v EXCEPT !.window = joint]
  BY DEF Verified, Ended
<1> HIDE DEF u, joint
<1>2. CASE u = [v EXCEPT !.verdict = "NoUsableSignature"]
  BY <1>2 DEF Shaped, Objected, Objections, u
<1>3. CASE u = [v EXCEPT !.verdict = "EmptyWindow"]
  BY <1>3 DEF Shaped, Objected, Objections, u
<1>4. CASE u = [v EXCEPT !.window = joint]
  BY <1>4 DEF Shaped, Walks, StaysPut, u
<1> QED  BY <1>1, <1>2, <1>3, <1>4

\* The root's keys: the walk begins there, at the owner, unless none of them is an anchor.
LEMMA EnterStep ==
    ASSUME NEW link, link.owner = Root
    PROVE  LET u == EnterAnchored(Owner, link)
           IN  \/ u.verdict = "Unanchored" /\ link.data \cap Anchors = {}
               \/ Objected(u)
               \/ /\ Shaped(u) /\ Walks(u) /\ u.zone = Root /\ u.target = Owner
                  /\ u.hops = 0 /\ u.pending = <<>>
<1> DEFINE start == [zone |-> Root, keys |-> link.data, rootKeys |-> link.data,
                     target |-> Owner, pending |-> <<>>, hops |-> 0,
                     window |-> <<0, Horizon>>, verdict |-> "Walking"]
           u == EnterAnchored(Owner, link)
           next == Verified(start, link)
<1>1. /\ Shaped(start) /\ Walks(start) /\ start.zone = Root /\ start.target = Owner
      /\ start.hops = 0 /\ start.pending = <<>>
  BY DEF Shaped, Walks
<1>2. \/ link.data \cap Anchors = {} /\ u = Ended(start, "Unanchored")
      \/ u = next
  BY DEF EnterAnchored
<1> HIDE DEF start, u
<1>3. Ended(start, "Unanchored").verdict = "Unanchored"
  BY <1>1 DEF Ended, Shaped
<1>4. Shaped(next) /\ (Objected(next) \/ (Walks(next) /\ StaysPut(next, start)))
  BY <1>1, VerifiedOrObjected
<1> HIDE DEF next
<1>5. CASE u = next
  BY <1>1, <1>4, <1>5 DEF StaysPut, u
<1> QED  BY <1>2, <1>3, <1>5 DEF u

\* A delegation below the zone at hand, and the keys under it.
LEMMA DelegationStep ==
    ASSUME NEW v, Shaped(v), Walks(v), v.pending = <<>>,
           NEW link, link.rtype = "DS", IsStrictPrefix(v.zone, link.owner)
    PROVE  LET u == Step(v, link)
           IN  \/ Objected(u)
               \/ /\ Shaped(u) /\ Walks(u) /\ u.zone = v.zone /\ u.target = v.target
                  /\ u.hops = v.hops /\ u.pending = <<link>>
<1> DEFINE here == Verified(v, link)
           u == Step(v, link)
<1>1. u = [here EXCEPT !.pending = <<link>>]
  BY DEF Step, Delegation
<1>2. Shaped(here) /\ (Objected(here) \/ (Walks(here) /\ StaysPut(here, v)))
  BY VerifiedOrObjected
<1> HIDE DEF here, u
<1>3. /\ Shaped(u) /\ u.zone = here.zone /\ u.target = here.target /\ u.hops = here.hops
      /\ u.pending = <<link>> /\ u.verdict = here.verdict
  BY <1>1, <1>2 DEF Shaped
<1> QED  BY <1>2, <1>3 DEF Objected, Walks, StaysPut, u

LEMMA DescendStep ==
    ASSUME NEW v, Shaped(v), Walks(v), v.pending # <<>>,
           NEW link, link.rtype = "DNSKEY", link.owner = v.pending[1].owner
    PROVE  LET u == Step(v, link)
           IN  \/ Objected(u)
               \/ /\ Shaped(u) /\ Walks(u) /\ u.zone = link.owner /\ u.target = v.target
                  /\ u.hops = v.hops /\ u.pending = <<>>
<1> DEFINE u == Step(v, link)
<1>0. ASSUME NEW child, child = [v EXCEPT !.zone = link.owner, !.keys = link.data, !.pending = <<>>]
      PROVE  /\ Shaped(child) /\ Walks(child) /\ child.zone = link.owner /\ child.target = v.target
             /\ child.hops = v.hops /\ child.pending = <<>>
  BY <1>0 DEF Shaped, Walks
<1>2. PICK child : child = [v EXCEPT !.zone = link.owner, !.keys = link.data, !.pending = <<>>]
  OBVIOUS
<1>1. u = Ended(v, "DsMismatch") \/ u = Verified(child, link)
  BY <1>2 DEF Step, Descend
<1> HIDE DEF u
<1>3. CASE u = Ended(v, "DsMismatch")
  <2>1. u.verdict = "DsMismatch"
    BY <1>3 DEF Ended, Shaped
  <2> QED  BY <2>1 DEF Objected, Objections, u
<1>4. CASE u = Verified(child, link)
  <2>1. Shaped(u) /\ (Objected(u) \/ (Walks(u) /\ StaysPut(u, child)))
    BY <1>0, <1>2, <1>4, VerifiedOrObjected
  <2> QED  BY <1>0, <1>2, <2>1 DEF StaysPut, u
<1> QED  BY <1>1, <1>3, <1>4

\* An alias of the name at hand, while hops are left, is followed.
LEMMA AliasStep ==
    ASSUME NEW v, Shaped(v), Walks(v), v.pending = <<>>,
           NEW link, link.rtype = "CNAME", link.owner = v.target,
           v.hops \in Nat, v.hops < MaxHops
    PROVE  LET u == Step(v, link)
           IN  \/ Objected(u)
               \/ /\ Shaped(u) /\ Walks(u) /\ u.target = link.data /\ u.hops = v.hops + 1
                  /\ u.zone = (IF IsPrefix(v.zone, link.data) THEN v.zone ELSE Root)
                  /\ u.pending = <<>>
<1> DEFINE u == Step(v, link)
<1>0. ~(v.hops >= MaxHops)
  BY ValidatorAssumption
<1>2. PICK first : first = Verified(v, link)
  OBVIOUS
<1>7. PICK here : here = [first EXCEPT !.target = link.data, !.hops = first.hops + 1]
  OBVIOUS
<1>8. PICK again : again = [here EXCEPT !.zone = Root, !.keys = v.rootKeys]
  OBVIOUS
<1>1. u = IF IsPrefix(v.zone, link.data) THEN here ELSE again
  BY <1>0, <1>2, <1>7, <1>8 DEF Step, FollowCname
<1>9. Shaped(first) /\ (Objected(first) \/ (Walks(first) /\ StaysPut(first, v)))
  BY <1>2, VerifiedOrObjected
<1> HIDE DEF u
<1>3. /\ Shaped(here) /\ here.target = link.data /\ here.hops = first.hops + 1
      /\ here.zone = first.zone /\ here.pending = first.pending /\ here.verdict = first.verdict
  BY <1>7, <1>9 DEF Shaped
<1>4. /\ Shaped(again) /\ again.target = here.target /\ again.hops = here.hops
      /\ again.zone = Root /\ again.pending = here.pending /\ again.verdict = here.verdict
  BY <1>3, <1>8 DEF Shaped
<1>5. CASE Objected(first)
  <2>1. u.verdict = first.verdict
    BY <1>1, <1>3, <1>4
  <2> QED  BY <1>5, <2>1 DEF Objected, u
<1>6. CASE Walks(first) /\ StaysPut(first, v)
  <2>1. first.hops = v.hops /\ first.zone = v.zone /\ first.pending = <<>>
    BY <1>6 DEF StaysPut
  <2>2. CASE IsPrefix(v.zone, link.data)
    BY <1>1, <1>3, <1>6, <2>1, <2>2 DEF Walks, u
  <2>3. CASE ~IsPrefix(v.zone, link.data)
    BY <1>1, <1>3, <1>4, <1>6, <2>1, <2>3 DEF Walks, u
  <2> QED  BY <2>2, <2>3
<1> QED  BY <1>5, <1>6, <1>9

\* The leaf ends the walk.
LEMMA LeafStep ==
    ASSUME NEW v, Shaped(v), Walks(v), v.pending = <<>>,
           NEW link, link.rtype = "TXT", link.owner = v.target
    PROVE  Step(v, link).verdict \in Objections \cup {"Proven"}
<1> DEFINE here == Verified(v, link)
           u == Step(v, link)
<1>1. \/ ~Walks(here) /\ u = here
      \/ u = Ended(v, "WildcardExpansion")
      \/ u = Ended(here, "Proven")
  BY DEF Step, FinishBinding
<1>2. Shaped(here) /\ (Objected(here) \/ Walks(here))
  BY VerifiedOrObjected
<1> HIDE DEF here, u
<1>3. CASE ~Walks(here) /\ u = here
  BY <1>2, <1>3 DEF Objected, u
<1>4. CASE u = Ended(v, "WildcardExpansion")
  <2>1. u.verdict = "WildcardExpansion"
    BY <1>4 DEF Ended, Shaped
  <2> QED  BY <2>1 DEF Objections, u
<1>5. CASE u = Ended(here, "Proven")
  <2>1. u.verdict = "Proven"
    BY <1>2, <1>5 DEF Ended, Shaped
  <2> QED  BY <2>1 DEF u
<1> QED  BY <1>1, <1>3, <1>4, <1>5

-----------------------------------------------------------------------------
\* The walk so far stands where the builder does, along the same aliases, and has the
\* delegation pending whose keys the builder awaits. (An alias may lead to the root itself,
\* into which nothing is to descend.)
Stands(b, v) ==
    /\ Shaped(v) /\ Walks(v)
    /\ v.target = b.current /\ v.hops \in Nat /\ v.hops + b.remaining = MaxHops + 1
    /\ b.phase \in {"Ds", "Dnskey"} => v.zone = b.deepest
    /\ b.phase \in {"Leaf", "Walking"} => v.zone = b.zone \/ (v.zone = Root /\ b.current = Root)
    /\ b.phase # "Dnskey" => v.pending = <<>>
    /\ b.phase = "Dnskey" => v.pending # <<>> /\ v.pending[1].owner = TrimTo(b.name, b.depth)

\* The walk has ended with an objection, or never begun for want of an anchor.
Excused(links) ==
    \/ Objected(Walked(links))
    \/ Walked(links).verdict = "Unanchored" /\ Head(links).data \cap Anchors = {}

\* A builder with no turn left is going to fail; the validator may have gone before it.
Follows(b) == b.remaining = 0 \/ Excused(b.links) \/ Stands(b, Walked(b.links))

InShape(b) ==
    /\ Len(b.links) <= MaxLinks
    /\ \A i \in DOMAIN b.links : b.links[i].signatures # <<>>
    /\ b.phase = "RootKeys" => b.links = <<>> /\ b.current = Owner /\ b.remaining = MaxHops + 1
    /\ b.phase \in {"Ds", "Dnskey"} => Len(b.deepest) < b.depth /\ IsPrefix(b.deepest, b.name)
    /\ b.phase \in {"Ds", "Dnskey", "Leaf", "Walking", "Done"} =>
          b.links # <<>> /\ Head(b.links).rtype = "DNSKEY"
    /\ b.phase \in {"Ds", "Dnskey", "Leaf", "Walking"} => Follows(b)
    /\ b.phase = "Done" => Excused(b.links) \/ Walked(b.links).verdict = "Proven"

\* A link framed beyond the first is one more step; what ended the walk stays.
LEMMA FramesOn ==
    ASSUME NEW S, NEW links \in Seq(S), links # <<>>, NEW r \in S,
           Len(links) < MaxLinks, \A i \in DOMAIN links : links[i].signatures # <<>>,
           r.signatures # <<>>, Head(links).rtype = "DNSKEY"
    PROVE  LET longer == Append(links, r)
           IN  /\ longer # <<>> /\ Len(longer) <= MaxLinks /\ Head(longer).rtype = "DNSKEY"
               /\ \A i \in DOMAIN longer : longer[i].signatures # <<>>
               /\ Walked(longer) = Step(Walked(links), r)
               /\ Excused(links) => Excused(longer)
<1> DEFINE longer == Append(links, r)
<1>1. /\ longer # <<>> /\ Len(longer) = Len(links) + 1 /\ Head(longer) = Head(links)
      /\ Walked(longer) = Step(Walked(links), r)
  BY WalkedOn
<1>2. \A i \in DOMAIN longer : longer[i].signatures # <<>>
  <2>1. /\ DOMAIN links = 1..Len(links) /\ DOMAIN longer = 1..(Len(links) + 1)
        /\ Len(links) \in Nat /\ longer[Len(links) + 1] = r
        /\ \A i \in 1..Len(links) : longer[i] = links[i]
    OBVIOUS
  <2> HIDE DEF longer
  <2>2. \A i \in 1..(Len(links) + 1) : i \in 1..Len(links) \/ i = Len(links) + 1
    BY <2>1
  <2> QED  BY <2>1, <2>2
<1>3. Excused(links) => Excused(longer)
  <2>1. \A v : Objected(v) \/ v.verdict = "Unanchored" => ~Walks(v)
    BY DEF Objected, Objections, Walks
  <2>2. Excused(links) => Walked(longer) = Walked(links)
    BY <1>1, <2>1 DEF Excused, Step
  <2> HIDE DEF longer
  <2> QED  BY <1>1, <2>2 DEF Excused
<1>4. Len(longer) <= MaxLinks
  <2>1. Len(links) \in Nat
    OBVIOUS
  <2> HIDE DEF longer
  <2> QED  BY <1>1, <2>1, CourierAssumption
<1> QED  BY <1>1, <1>2, <1>3, <1>4

Like(c, b) == SameAim(c, b) /\ c.current = b.current

\* Framing appends a record of the kind asked for that has signatures, or stops.
LEMMA FramedIs ==
    ASSUME NEW w, NEW b, Keeps(w, b), b.phase \notin BuildErrors,
           NEW answers, Honest(w, answers), NEW owner, NEW rtype
    PROVE  LET f == Framed(b, answers, owner, rtype)
           IN  /\ BuilderShaped(f) /\ Like(f, b)
               /\ \/ f.phase \in BuildErrors /\ f.links = b.links
                  \/ /\ f.phase = b.phase /\ Going(f) /\ Len(b.links) < MaxLinks
                     /\ \E r \in Said(w) :
                           /\ r \in Held(answers, owner, rtype) /\ r.signatures # <<>>
                           /\ f.links = Append(b.links, r)
<1> DEFINE f == Framed(b, answers, owner, rtype)
           signed == {r \in Held(answers, owner, rtype) : r.signatures # <<>>}
           r0 == CHOOSE r \in signed : TRUE
<1>1. \/ f = [b EXCEPT !.phase = "MissingRrset"]
      \/ f = [b EXCEPT !.phase = "OversizeChain"]
      \/ signed # {} /\ ~(Len(b.links) >= MaxLinks) /\ f = [b EXCEPT !.links = Append(b.links, r0)]
  BY DEF Framed, Stopped
<1>2. signed # {} => r0 \in signed
  OBVIOUS
<1>3. BuilderShaped(b) /\ b.links \in Seq(Said(w))
  BY DEF Keeps
<1> HIDE DEF f, r0
<1>4. CASE f = [b EXCEPT !.phase = "MissingRrset"]
  BY <1>3, <1>4 DEF BuilderShaped, Like, SameAim, BuildErrors, f
<1>5. CASE f = [b EXCEPT !.phase = "OversizeChain"]
  BY <1>3, <1>5 DEF BuilderShaped, Like, SameAim, BuildErrors, f
<1>6. CASE /\ signed # {} /\ ~(Len(b.links) >= MaxLinks)
           /\ f = [b EXCEPT !.links = Append(b.links, r0)]
  <2>1. r0 \in Held(answers, owner, rtype) /\ r0.signatures # <<>> /\ r0 \in Said(w)
    BY <1>2, <1>6 DEF Honest, Held
  <2>2. /\ BuilderShaped(f) /\ Like(f, b) /\ f.phase = b.phase /\ f.links = Append(b.links, r0)
    BY <1>3, <1>6 DEF BuilderShaped, Like, SameAim
  <2>3. Len(b.links) < MaxLinks
    BY <1>3, <1>6, CourierAssumption
  <2> QED  BY <2>1, <2>2, <2>3 DEF Going, f
<1> QED  BY <1>1, <1>4, <1>5, <1>6

\* What is over needs only links within bounds.
LEMMA OverInShape ==
    ASSUME NEW b, InShape(b), NEW c, c.links = b.links,
           c.phase \in BuildErrors \cup {"QueryFailed"}
    PROVE  InShape(c)
BY DEF InShape, BuildErrors

Linked(b) ==
    /\ Len(b.links) <= MaxLinks /\ \A i \in DOMAIN b.links : b.links[i].signatures # <<>>
    /\ b.links # <<>> /\ Head(b.links).rtype = "DNSKEY"

\* Between two questions of a descent.
AtDeepest(b, v) ==
    /\ Shaped(v) /\ Walks(v)
    /\ v.target = b.current /\ v.hops \in Nat /\ v.hops + b.remaining = MaxHops + 1
    /\ v.zone = b.deepest /\ v.pending = <<>>

LEMMA DescendIs ==
    ASSUME NEW b, BuilderShaped(b), NEW name, NEW depth, NEW base
    PROVE  LET c == DescendInto(b, name, depth, base)
           IN  /\ BuilderShaped(c) /\ c.phase = "Ds"
               /\ c.name = name /\ c.depth = depth /\ c.deepest = base
               /\ c.links = b.links /\ c.current = b.current /\ c.remaining = b.remaining
<1>1. ASSUME NEW c, c = [b EXCEPT !.phase = "Ds", !.name = name, !.depth = depth, !.deepest = base]
      PROVE  /\ BuilderShaped(c) /\ c.phase = "Ds"
             /\ c.name = name /\ c.depth = depth /\ c.deepest = base
             /\ c.links = b.links /\ c.current = b.current /\ c.remaining = b.remaining
  BY <1>1 DEF BuilderShaped
<1> QED  BY <1>1 DEF DescendInto

LEMMA NextCutIs ==
    ASSUME NEW b, BuilderShaped(b)
    PROVE  LET c == NextCut(b)
           IN  /\ c.links = b.links /\ c.current = b.current /\ c.remaining = b.remaining
               /\ c.name = b.name /\ c.deepest = b.deepest
               /\ \/ b.depth < Len(b.name) /\ c.phase = "Ds" /\ c.depth = b.depth + 1
                  \/ c.phase \in {"Walking", "Leaf"} /\ c.zone = b.deepest
<1> DEFINE c == NextCut(b)
<1>1. CASE b.depth < Len(b.name)
  <2>1. c = [b EXCEPT !.phase = "Ds", !.depth = b.depth + 1]
    BY <1>1 DEF NextCut
  <2> HIDE DEF c
  <2> QED  BY <1>1, <2>1 DEF BuilderShaped, c
<1>2. CASE ~(b.depth < Len(b.name))
  <2>1. \E phase \in {"Walking", "Leaf"} : c = [b EXCEPT !.phase = phase, !.zone = b.deepest]
    BY <1>2 DEF NextCut
  <2> HIDE DEF c
  <2> QED  BY <2>1 DEF BuilderShaped, c
<1> QED  BY <1>1, <1>2

LEMMA CutInShape ==
    ASSUME NEW b, BuilderShaped(b), Aimed(b), Linked(b),
           Len(b.deepest) <= b.depth, IsPrefix(b.deepest, b.name),
           b.remaining = 0 \/ Excused(b.links) \/ AtDeepest(b, Walked(b.links))
    PROVE  InShape(NextCut(b))
<1> DEFINE c == NextCut(b)
           v == Walked(b.links)
<1>1. /\ c.links = b.links /\ c.current = b.current /\ c.remaining = b.remaining
      /\ c.name = b.name /\ c.deepest = b.deepest
      /\ \/ c.phase = "Ds" /\ c.depth = b.depth + 1
         \/ c.phase \in {"Walking", "Leaf"} /\ c.zone = b.deepest
  BY NextCutIs
<1> HIDE DEF c, v
<1>2. AtDeepest(b, v) => Stands(c, v)
  BY <1>1 DEF AtDeepest, Stands
<1>3. Follows(c)
  BY <1>1, <1>2 DEF Follows, v
<1>4. c.phase = "Ds" => Len(c.deepest) < c.depth /\ IsPrefix(c.deepest, c.name)
  <2>1. b.depth \in Nat /\ Len(b.deepest) \in Nat
    BY DEF Aimed, Name
  <2> QED  BY <1>1, <2>1
<1> QED  BY <1>1, <1>3, <1>4 DEF InShape, Linked, c

\* A suffix of a name that has a number of labels is below every shorter one.
LEMMA TrimIs ==
    ASSUME NEW name \in Name, NEW depth \in 1..Len(name)
    PROVE  /\ TrimTo(name, depth) \in Name /\ Len(TrimTo(name, depth)) = depth
           /\ IsPrefix(TrimTo(name, depth), name)
           /\ \A base \in Name : IsPrefix(base, name) /\ Len(base) < depth =>
                 IsStrictPrefix(base, TrimTo(name, depth))
<1> DEFINE zone == TrimTo(name, depth)
<1>1. zone \in Name /\ Len(zone) = depth /\ \A i \in 1..depth : zone[i] = name[i]
  BY DEF TrimTo, Name
<1> HIDE DEF zone
<1>2. IsPrefix(zone, name)
  BY <1>1, PrefixIs
<1>3. ASSUME NEW base \in Name, IsPrefix(base, name), Len(base) < depth
      PROVE  IsStrictPrefix(base, zone)
  <2>1. Len(base) \in Nat
    BY DEF Name
  <2>2. Len(base) <= Len(zone) /\ base # zone
    BY <1>1, <1>3, <2>1
  <2>3. IsPrefix(base, zone)
    BY <1>1, <1>2, <1>3, <2>2, PrefixesNest
  <2> QED  BY <2>2, <2>3 DEF IsStrictPrefix
<1> QED  BY <1>1, <1>2, <1>3 DEF zone

\* What the builder makes of an answer about a zone, the validator can walk.
LEMMA RootAnswerInShape ==
    ASSUME NEW w \in Worlds, NEW b, Keeps(w, b), InShape(b), b.phase = "RootKeys",
           NEW answers, Honest(w, answers)
    PROVE  InShape(AnswerRootKeys(b, answers))
<1> DEFINE f == Framed(b, answers, Root, "DNSKEY")
           c == DescendInto(f, Owner, 1, Root)
<1>1. /\ BuilderShaped(f) /\ Like(f, b)
      /\ \/ f.phase \in BuildErrors /\ f.links = b.links
         \/ /\ f.phase = b.phase /\ Going(f) /\ Len(b.links) < MaxLinks
            /\ \E r \in Said(w) :
                  /\ r \in Held(answers, Root, "DNSKEY") /\ r.signatures # <<>>
                  /\ f.links = Append(b.links, r)
  BY FramedIs DEF BuildErrors
<1>2. AnswerRootKeys(b, answers) = IF Going(f) THEN c ELSE f
  BY DEF AnswerRootKeys
<1> HIDE DEF f
<1>3. CASE f.phase \in BuildErrors /\ f.links = b.links
  <2>1. ~Going(f)
    BY <1>3 DEF Going
  <2> QED  BY <1>2, <1>3, <2>1, OverInShape
<1>4. CASE /\ f.phase = b.phase /\ Going(f) /\ Len(b.links) < MaxLinks
           /\ \E r \in Said(w) :
                 /\ r \in Held(answers, Root, "DNSKEY") /\ r.signatures # <<>>
                 /\ f.links = Append(b.links, r)
  <2>1. PICK r \in Said(w) : /\ r.owner = Root /\ r.rtype = "DNSKEY" /\ r.signatures # <<>>
                             /\ f.links = Append(b.links, r)
    BY <1>4 DEF Held
  <2>2. b.links = <<>> /\ b.current = Owner /\ b.remaining = MaxHops + 1
    BY DEF InShape
  <2>3. /\ c.phase = "Ds" /\ c.name = Owner /\ c.depth = 1 /\ c.deepest = Root
        /\ c.links = f.links /\ c.current = Owner /\ c.remaining = MaxHops + 1
    <3>1. /\ c.phase = "Ds" /\ c.name = Owner /\ c.depth = 1 /\ c.deepest = Root
          /\ c.links = f.links /\ c.current = f.current /\ c.remaining = f.remaining
      BY <1>1, DescendIs
    <3> HIDE DEF c
    <3> QED  BY <1>1, <2>2, <3>1 DEF Like, SameAim
  <2> HIDE DEF c
  <2>4. c.links = <<r>> /\ Len(c.links) = 1 /\ c.links # <<>> /\ Head(c.links) = r
    <3>1. c.links = Append(<<>>, r)
      BY <2>1, <2>2, <2>3
    <3>2. Append(<<>>, r) = <<r>>
      OBVIOUS
    <3> QED  BY <3>1, <3>2
  <2>5. Len(c.links) <= MaxLinks
    <3>1. Len(b.links) = 0
      BY <2>2
    <3> QED  BY <1>4, <2>4, <3>1, CourierAssumption
  <2>6. Walked(c.links) = EnterAnchored(Owner, r)
    <3>1. <<>> \in Seq(Said(w))
      OBVIOUS
    <3> QED  BY <2>1, <2>2, <2>3, <3>1, WalkedOn
  <2>7. Follows(c)
    <3> DEFINE u == Walked(c.links)
    <3>1. \/ u.verdict = "Unanchored" /\ r.data \cap Anchors = {}
          \/ Objected(u)
          \/ /\ Shaped(u) /\ Walks(u) /\ u.zone = Root /\ u.target = Owner
             /\ u.hops = 0 /\ u.pending = <<>>
      BY <2>1, <2>6, EnterStep
    <3> HIDE DEF u
    <3>2. CASE (u.verdict = "Unanchored" /\ r.data \cap Anchors = {}) \/ Objected(u)
      BY <2>4, <3>2 DEF Follows, Excused, u
    <3>3. CASE /\ Shaped(u) /\ Walks(u) /\ u.zone = Root /\ u.target = Owner
               /\ u.hops = 0 /\ u.pending = <<>>
      <4>1. u.hops \in Nat /\ u.hops + c.remaining = MaxHops + 1
        BY <2>3, <3>3, ValidatorAssumption
      <4>2. Stands(c, u)
        BY <2>3, <3>3, <4>1 DEF Stands
      <4> QED  BY <4>2 DEF Follows, u
    <3> QED  BY <3>1, <3>2, <3>3
  <2>8. Len(c.deepest) < c.depth /\ IsPrefix(c.deepest, c.name)
    <3>1. IsPrefix(Root, Owner) /\ Len(Root) = 0
      BY RootAbove, CourierAssumption DEF Root
    <3> QED  BY <2>3, <3>1
  <2>9. \A i \in DOMAIN c.links : c.links[i].signatures # <<>>
    BY <2>1, <2>4
  <2>10. InShape(c)
    BY <2>1, <2>3, <2>4, <2>5, <2>7, <2>8, <2>9 DEF InShape
  <2> QED  BY <1>2, <1>4, <2>10
<1> QED  BY <1>1, <1>3, <1>4

LEMMA DsAnswerInShape ==
    ASSUME NEW w \in Worlds, NEW b, Keeps(w, b), Aimed(b), InShape(b), b.phase = "Ds",
           NEW answers, Honest(w, answers)
    PROVE  InShape(AnswerDs(b, answers))
<1> DEFINE zone == TrimTo(b.name, b.depth)
           f == Framed(b, answers, zone, "DS")
           c == Stopped(f, "Dnskey")
           v == Walked(b.links)
<1>1. /\ BuilderShaped(b) /\ b.links \in Seq(Said(w)) /\ Linked(b) /\ Follows(b)
      /\ Len(b.deepest) < b.depth /\ IsPrefix(b.deepest, b.name)
  BY DEF Keeps, InShape, Linked
<1>2. \/ AnswerDs(b, answers) = NextCut(b)
      \/ Going(f) /\ AnswerDs(b, answers) = c
      \/ ~Going(f) /\ AnswerDs(b, answers) = f
  BY DEF AnswerDs, Stopped
<1>3. /\ BuilderShaped(f) /\ Like(f, b)
      /\ \/ f.phase \in BuildErrors /\ f.links = b.links
         \/ /\ f.phase = b.phase /\ Going(f) /\ Len(b.links) < MaxLinks
            /\ \E r \in Said(w) :
                  /\ r \in Held(answers, zone, "DS") /\ r.signatures # <<>>
                  /\ f.links = Append(b.links, r)
  <2> HIDE DEF zone
  <2> QED  BY FramedIs DEF BuildErrors
<1> HIDE DEF f
<1>4. CASE AnswerDs(b, answers) = NextCut(b)
  <2>1. Stands(b, v) => AtDeepest(b, v)
    BY DEF Stands, AtDeepest
  <2>2. b.remaining = 0 \/ Excused(b.links) \/ AtDeepest(b, v)
    BY <1>1, <2>1 DEF Follows
  <2>3. Len(b.deepest) <= b.depth
    BY <1>1 DEF Aimed, Name
  <2> QED  BY <1>1, <1>4, <2>2, <2>3, CutInShape
<1>5. CASE ~Going(f) /\ AnswerDs(b, answers) = f
  BY <1>3, <1>5, OverInShape DEF Going
<1>6. CASE Going(f) /\ AnswerDs(b, answers) = c
  <2>1. PICK r \in Said(w) : /\ r.owner = zone /\ r.rtype = "DS" /\ r.signatures # <<>>
                             /\ f.links = Append(b.links, r) /\ Len(b.links) < MaxLinks
    <3> HIDE DEF zone
    <3> QED  BY <1>3, <1>6 DEF Held, Going
  <2>2. /\ c.phase = "Dnskey" /\ c.links = f.links /\ c.name = b.name /\ c.depth = b.depth
        /\ c.deepest = b.deepest /\ c.current = b.current /\ c.remaining = b.remaining
    BY <1>3 DEF Stopped, BuilderShaped, Like, SameAim
  <2> HIDE DEF c
  <2>3. /\ c.links # <<>> /\ Len(c.links) <= MaxLinks /\ Head(c.links).rtype = "DNSKEY"
        /\ \A i \in DOMAIN c.links : c.links[i].signatures # <<>>
        /\ Walked(c.links) = Step(v, r)
        /\ Excused(b.links) => Excused(c.links)
    BY <1>1, <2>1, <2>2, FramesOn DEF Linked
  <2>4. Stands(b, v) => Objected(Step(v, r)) \/ Stands(c, Step(v, r))
    <3>1. SUFFICES ASSUME Stands(b, v)
                   PROVE  Objected(Step(v, r)) \/ Stands(c, Step(v, r))
      OBVIOUS
    <3>2. /\ Shaped(v) /\ Walks(v) /\ v.zone = b.deepest /\ v.pending = <<>>
          /\ v.target = b.current /\ v.hops \in Nat /\ v.hops + b.remaining = MaxHops + 1
      BY <3>1 DEF Stands
    <3> HIDE DEF v
    <3>3. IsStrictPrefix(v.zone, r.owner)
      BY <1>1, <2>1, <3>2, TrimIs DEF Aimed
    <3> DEFINE u == Step(v, r)
    <3>4. \/ Objected(u)
          \/ /\ Shaped(u) /\ Walks(u) /\ u.zone = v.zone /\ u.target = v.target
             /\ u.hops = v.hops /\ u.pending = <<r>>
      BY <2>1, <3>2, <3>3, DelegationStep
    <3> HIDE DEF u, zone
    <3>5. CASE /\ Shaped(u) /\ Walks(u) /\ u.zone = v.zone /\ u.target = v.target
               /\ u.hops = v.hops /\ u.pending = <<r>>
      <4>1. u.pending # <<>> /\ u.pending[1] = r
        BY <3>5
      <4>2. r.owner = TrimTo(c.name, c.depth)
        BY <2>1, <2>2 DEF zone
      <4>3. Stands(c, u)
        BY <2>2, <3>2, <3>5, <4>1, <4>2 DEF Stands
      <4> QED  BY <4>3 DEF u
    <3> QED  BY <3>4, <3>5 DEF u
  <2>5. Follows(c)
    BY <1>1, <2>2, <2>3, <2>4 DEF Follows, Excused
  <2>6. InShape(c)
    BY <1>1, <2>2, <2>3, <2>5 DEF InShape
  <2> QED  BY <1>6, <2>6
<1> QED  BY <1>2, <1>4, <1>5, <1>6

LEMMA KeysAnswerInShape ==
    ASSUME NEW w \in Worlds, NEW b, Keeps(w, b), Aimed(b), InShape(b), b.phase = "Dnskey",
           NEW answers, Honest(w, answers)
    PROVE  InShape(AnswerDnskey(b, answers))
<1> DEFINE zone == TrimTo(b.name, b.depth)
           f == Framed(b, answers, zone, "DNSKEY")
           v == Walked(b.links)
<1>1. /\ BuilderShaped(b) /\ b.links \in Seq(Said(w)) /\ Linked(b) /\ Follows(b)
  BY DEF Keeps, InShape, Linked
<1>2. \/ Going(f) /\ AnswerDnskey(b, answers) = NextCut([f EXCEPT !.deepest = zone])
      \/ ~Going(f) /\ AnswerDnskey(b, answers) = f
  BY DEF AnswerDnskey
<1>3. /\ BuilderShaped(f) /\ Like(f, b)
      /\ \/ f.phase \in BuildErrors /\ f.links = b.links
         \/ /\ f.phase = b.phase /\ Going(f) /\ Len(b.links) < MaxLinks
            /\ \E r \in Said(w) :
                  /\ r \in Held(answers, zone, "DNSKEY") /\ r.signatures # <<>>
                  /\ f.links = Append(b.links, r)
  <2> HIDE DEF zone
  <2> QED  BY FramedIs DEF BuildErrors
<1>4. zone \in Name /\ Len(zone) = b.depth /\ IsPrefix(zone, b.name)
  BY TrimIs DEF Aimed
<1> HIDE DEF f
<1>5. CASE ~Going(f) /\ AnswerDnskey(b, answers) = f
  BY <1>3, <1>5, OverInShape DEF Going
<1>6. CASE Going(f) /\ AnswerDnskey(b, answers) = NextCut([f EXCEPT !.deepest = zone])
  <2>0. zone = TrimTo(b.name, b.depth)
    OBVIOUS
  <2> HIDE DEF zone
  <2>1. PICK r \in Said(w) : /\ r.owner = zone /\ r.rtype = "DNSKEY" /\ r.signatures # <<>>
                             /\ f.links = Append(b.links, r) /\ Len(b.links) < MaxLinks
    BY <1>3, <1>6 DEF Held, Going
  <2>2. PICK c : c = [f EXCEPT !.deepest = zone]
    OBVIOUS
  <2>3. /\ BuilderShaped(c) /\ c.phase = f.phase /\ c.links = f.links /\ c.name = b.name
        /\ c.depth = b.depth /\ c.deepest = zone /\ c.zone = b.zone /\ c.current = b.current
        /\ c.remaining = b.remaining
    BY <1>3, <2>2 DEF BuilderShaped, Like, SameAim
  <2>4. /\ c.links # <<>> /\ Len(c.links) <= MaxLinks /\ Head(c.links).rtype = "DNSKEY"
        /\ \A i \in DOMAIN c.links : c.links[i].signatures # <<>>
        /\ Walked(c.links) = Step(v, r)
        /\ Excused(b.links) => Excused(c.links)
    BY <1>1, <2>1, <2>3, FramesOn DEF Linked
  <2>5. Stands(b, v) => Objected(Step(v, r)) \/ AtDeepest(c, Step(v, r))
    <3>1. SUFFICES ASSUME Stands(b, v)
                   PROVE  Objected(Step(v, r)) \/ AtDeepest(c, Step(v, r))
      OBVIOUS
    <3>2. /\ Shaped(v) /\ Walks(v) /\ v.pending # <<>> /\ v.pending[1].owner = zone
          /\ v.target = b.current /\ v.hops \in Nat /\ v.hops + b.remaining = MaxHops + 1
      BY <2>0, <3>1 DEF Stands
    <3> HIDE DEF v
    <3> DEFINE u == Step(v, r)
    <3>3. \/ Objected(u)
          \/ /\ Shaped(u) /\ Walks(u) /\ u.zone = r.owner /\ u.target = v.target
             /\ u.hops = v.hops /\ u.pending = <<>>
      BY <2>1, <3>2, DescendStep
    <3> HIDE DEF u
    <3>4. CASE /\ Shaped(u) /\ Walks(u) /\ u.zone = r.owner /\ u.target = v.target
               /\ u.hops = v.hops /\ u.pending = <<>>
      <4>1. AtDeepest(c, u)
        BY <2>1, <2>3, <3>2, <3>4 DEF AtDeepest
      <4> QED  BY <4>1 DEF u
    <3> QED  BY <3>3, <3>4 DEF u
  <2>6. c.remaining = 0 \/ Excused(c.links) \/ AtDeepest(c, Walked(c.links))
    BY <1>1, <2>3, <2>4, <2>5 DEF Follows, Excused
  <2>7. Aimed(c) /\ Len(c.deepest) <= c.depth /\ IsPrefix(c.deepest, c.name)
    BY <1>4, <2>3 DEF Aimed
  <2>8. InShape(NextCut(c))
    BY <2>3, <2>4, <2>6, <2>7, CutInShape DEF Linked
  <2> QED  BY <1>6, <2>2, <2>8
<1> QED  BY <1>2, <1>5, <1>6

LEMMA LeafAnswerInShape ==
    ASSUME NEW b, BuilderShaped(b), InShape(b), b.phase = "Leaf", NEW answers
    PROVE  InShape(AnswerLeaf(b, answers))
<1>1. ASSUME NEW c, c = [b EXCEPT !.phase = "Walking", !.answers = answers, !.walking = TRUE]
      PROVE  /\ c.phase = "Walking" /\ c.links = b.links /\ c.zone = b.zone
             /\ c.current = b.current /\ c.remaining = b.remaining
  BY <1>1 DEF BuilderShaped
<1>2. ASSUME NEW c, c = AnswerLeaf(b, answers)
      PROVE  InShape(c)
  <2>1. /\ c.phase = "Walking" /\ c.links = b.links /\ c.zone = b.zone
        /\ c.current = b.current /\ c.remaining = b.remaining
    BY <1>1, <1>2 DEF AnswerLeaf
  <2>2. \A v : Stands(b, v) => Stands(c, v)
    BY <2>1 DEF Stands
  <2>3. Follows(b) => Follows(c)
    BY <2>1, <2>2 DEF Follows
  <2> QED  BY <2>1, <2>3 DEF InShape
<1> QED  BY <1>2

\* The walk is at the name at hand, in the zone at hand.
AtName(b, v) ==
    /\ Shaped(v) /\ Walks(v) /\ v.pending = <<>> /\ v.target = b.current /\ v.hops \in Nat
    /\ v.zone = b.zone \/ (v.zone = Root /\ b.current = Root)

\* An alias, with its turn taken: both go on from the same zone.
LEMMA AliasInShape ==
    ASSUME NEW w \in Worlds, NEW b, Keeps(w, b), Aimed(b), Linked(b), b.phase = "Walking",
           Held(b.answers, b.current, "CNAME") # {},
           \/ b.remaining = 0 \/ Excused(b.links)
           \/ AtName(b, Walked(b.links)) /\ Walked(b.links).hops + b.remaining = MaxHops
    PROVE  InShape(FollowAlias(b))
<1> DEFINE f == Framed(b, b.answers, b.current, "CNAME")
           r0 == CHOOSE r \in Held(b.answers, b.current, "CNAME") : TRUE
           target == r0.data
           base == IF IsPrefix(b.zone, target) THEN b.zone ELSE Root
           next == [f EXCEPT !.current = target]
           v == Walked(b.links)
<1>1. /\ b.current \in DOMAIN w.alias /\ target = w.alias[b.current] /\ target \in Name
  <2>1. r0 \in Held(b.answers, b.current, "CNAME")
    OBVIOUS
  <2> HIDE DEF r0
  <2>2. r0 \in b.answers /\ r0.owner = b.current /\ r0.rtype = "CNAME"
    BY <2>1 DEF Held
  <2> QED  BY <2>2 DEF Keeps, Honest
<1>2. b.current # Root
  BY <1>1, CourierAssumption
<1>3. base \in Name /\ IsPrefix(base, target) /\ Len(base) \in Nat /\ Len(target) \in Nat
  <2>1. Root \in Name /\ IsPrefix(Root, target)
    BY <1>1, RootAbove
  <2> QED  BY <1>1, <2>1 DEF Aimed, Name
<1>4. \/ ~Going(f) /\ FollowAlias(b) = f
      \/ Going(f) /\ Len(base) < Len(target)
           /\ FollowAlias(b) = DescendInto(next, target, Len(base) + 1, base)
      \/ Going(f) /\ ~(Len(base) < Len(target)) /\ FollowAlias(b) = next
  BY DEF FollowAlias
<1>5. /\ BuilderShaped(f) /\ Like(f, b)
      /\ \/ f.phase \in BuildErrors /\ f.links = b.links
         \/ /\ f.phase = b.phase /\ Going(f) /\ Len(b.links) < MaxLinks
            /\ \E r \in Said(w) :
                  /\ r \in Held(b.answers, b.current, "CNAME") /\ r.signatures # <<>>
                  /\ f.links = Append(b.links, r)
  BY FramedIs DEF BuildErrors, Keeps
<1> HIDE DEF f, r0, target
<1>6. CASE ~Going(f) /\ FollowAlias(b) = f
  <2>1. f.phase \in BuildErrors /\ f.links = b.links
    BY <1>5, <1>6
  <2>2. InShape(f)
    BY <2>1 DEF InShape, Linked, BuildErrors
  <2> QED  BY <1>6, <2>2
<1>7. CASE Going(f)
  <2>1. PICK r \in Said(w) : /\ r.owner = b.current /\ r.rtype = "CNAME" /\ r.signatures # <<>>
                             /\ r.data = target
                             /\ f.links = Append(b.links, r) /\ Len(b.links) < MaxLinks
    <3>1. PICK r \in Said(w) :
             /\ r \in Held(b.answers, b.current, "CNAME") /\ r.signatures # <<>>
             /\ f.links = Append(b.links, r) /\ Len(b.links) < MaxLinks
      BY <1>5, <1>7 DEF Going
    <3>2. r \in b.answers /\ r.owner = b.current /\ r.rtype = "CNAME"
      BY <3>1 DEF Held
    <3>3. r.data = target
      BY <1>1, <3>2 DEF Keeps, Honest
    <3> QED  BY <3>1, <3>2, <3>3
  <2>2. /\ BuilderShaped(next) /\ next.phase = "Walking" /\ next.links = f.links
        /\ next.zone = b.zone /\ next.current = target /\ next.remaining = b.remaining
    BY <1>5, <1>7 DEF BuilderShaped, Like, SameAim, Going
  <2> HIDE DEF next
  <2>3. /\ next.links # <<>> /\ Len(next.links) <= MaxLinks /\ Head(next.links).rtype = "DNSKEY"
        /\ \A i \in DOMAIN next.links : next.links[i].signatures # <<>>
        /\ Walked(next.links) = Step(v, r)
        /\ Excused(b.links) => Excused(next.links)
    BY <2>1, <2>2, FramesOn DEF Linked, Keeps
  <2> DEFINE u == Step(v, r)
  <2>4. \/ b.remaining = 0 \/ Excused(next.links)
        \/ /\ Shaped(u) /\ Walks(u) /\ u.target = target /\ u.zone = base /\ u.pending = <<>>
           /\ u.hops \in Nat /\ u.hops + b.remaining = MaxHops + 1
    <3>1. SUFFICES ASSUME b.remaining # 0, AtName(b, v), v.hops + b.remaining = MaxHops
                   PROVE  \/ Objected(u)
                          \/ /\ Shaped(u) /\ Walks(u) /\ u.target = target /\ u.zone = base
                             /\ u.pending = <<>>
                             /\ u.hops \in Nat /\ u.hops + b.remaining = MaxHops + 1
      <4> HIDE DEF u
      <4> QED  BY <2>3 DEF Excused, u
    <3>2. /\ Shaped(v) /\ Walks(v) /\ v.pending = <<>> /\ v.target = r.owner /\ v.hops \in Nat
          /\ v.zone = b.zone
      BY <1>2, <2>1, <3>1 DEF AtName
    <3>3. v.hops < MaxHops
      <4>1. b.remaining \in Nat
        BY DEF Keeps
      <4> HIDE DEF v
      <4> QED  BY <3>1, <3>2, <4>1, ValidatorAssumption
    <3> HIDE DEF v
    <3>4. \/ Objected(u)
          \/ /\ Shaped(u) /\ Walks(u) /\ u.target = r.data /\ u.hops = v.hops + 1
             /\ u.zone = (IF IsPrefix(v.zone, r.data) THEN v.zone ELSE Root)
             /\ u.pending = <<>>
      BY <2>1, <3>2, <3>3, AliasStep
    <3>5. b.remaining \in Nat
      BY DEF Keeps
    <3> HIDE DEF u
    <3> QED  BY <2>1, <3>1, <3>2, <3>4, <3>5, ValidatorAssumption
  <2> HIDE DEF u
  <2>5. Walked(next.links) = u
    BY <2>3 DEF u
  <2>6. CASE /\ Len(base) < Len(target)
             /\ FollowAlias(b) = DescendInto(next, target, Len(base) + 1, base)
    <3> DEFINE c == DescendInto(next, target, Len(base) + 1, base)
    <3> HIDE DEF base
    <3>1. /\ BuilderShaped(c) /\ c.phase = "Ds"
          /\ c.name = target /\ c.depth = Len(base) + 1 /\ c.deepest = base
          /\ c.links = next.links /\ c.current = next.current /\ c.remaining = next.remaining
      BY <2>2, DescendIs
    <3> HIDE DEF c
    <3>2. \/ b.remaining = 0 \/ Excused(c.links) \/ Stands(c, u)
      BY <2>2, <2>4, <3>1 DEF Stands
    <3>3. Follows(c)
      BY <2>2, <2>5, <3>1, <3>2 DEF Follows
    <3>4. Len(c.deepest) < c.depth /\ IsPrefix(c.deepest, c.name)
      BY <1>3, <3>1
    <3>5. InShape(c)
      BY <2>3, <3>1, <3>3, <3>4 DEF InShape
    <3> QED  BY <2>6, <3>5 DEF c
  <2>7. CASE ~(Len(base) < Len(target)) /\ FollowAlias(b) = next
    <3>1. base = b.zone \/ (base = Root /\ target = Root)
      <4>1. Len(base) <= Len(target)
        BY <1>1, <1>3, PrefixIs
      <4>2. base = Root => target = Root
        <5>1. Len(Root) = 0
          BY DEF Root
        <5>2. base = Root => Len(target) = 0
          <6> HIDE DEF base
          <6> QED  BY <1>3, <2>7, <4>1, <5>1
        <5>3. Len(target) = 0 => target = Root
          BY <1>1 DEF Name, Root
        <5> QED  BY <5>2, <5>3
      <4> QED  BY <4>2
    <3> HIDE DEF base
    <3>2. \/ b.remaining = 0 \/ Excused(next.links) \/ Stands(next, u)
      BY <2>2, <2>4, <3>1 DEF Stands
    <3>3. Follows(next)
      BY <2>2, <2>5, <3>2 DEF Follows
    <3>4. InShape(next)
      BY <2>2, <2>3, <3>3 DEF InShape
    <3> QED  BY <2>7, <3>4
  <2> QED  BY <1>4, <1>7, <2>6, <2>7
<1> QED  BY <1>4, <1>6, <1>7

LEMMA TurnInShape ==
    ASSUME NEW w \in Worlds, NEW b, Keeps(w, b), Aimed(b), InShape(b), b.phase = "Walking", NEW i
    PROVE  InShape(Turn(b, i))
<1> DEFINE here == [b EXCEPT !.remaining = @ - 1]
           f == Framed(here, b.answers, b.current, "TXT")
           v == Walked(b.links)
<1>1. BuilderShaped(b) /\ b.remaining \in Nat /\ Linked(b) /\ Follows(b) /\ b.links \in Seq(Said(w))
  BY DEF Keeps, InShape, Linked
<1>2. CASE b.remaining = 0
  <2>1. Turn(b, i) = Stopped(b, "TooManyCnames")
    BY <1>2 DEF Turn
  <2>2. /\ Stopped(b, "TooManyCnames").links = b.links
        /\ Stopped(b, "TooManyCnames").phase \in BuildErrors
    BY <1>1 DEF Stopped, BuilderShaped, BuildErrors
  <2> QED  BY <2>1, <2>2, OverInShape
<1>3. CASE b.remaining # 0
  <2>1. /\ BuilderShaped(here) /\ here.links = b.links /\ here.answers = b.answers
        /\ here.name = b.name /\ here.depth = b.depth /\ here.zone = b.zone
        /\ here.deepest = b.deepest /\ here.current = b.current
        /\ here.remaining = b.remaining - 1 /\ here.phase = "Walking"
    BY <1>1 DEF BuilderShaped
  <2>2. \/ Going(f) /\ Turn(b, i) = Stopped(f, "Done")
        \/ ~Going(f) /\ Turn(b, i) = f
        \/ Turn(b, i) = Stopped(here, "MissingRrset")
        \/ Held(b.answers, b.current, "CNAME") # {} /\ Turn(b, i) = FollowAlias(here)
    BY <1>3 DEF Turn
  <2> HIDE DEF here
  <2>3. Keeps(w, here) /\ Aimed(here) /\ Linked(here)
    <3>1. b.remaining - 1 \in Nat
      BY <1>1, <1>3
    <3> QED  BY <1>1, <2>1, <3>1 DEF Keeps, Aimed, Linked
  <2>4. Excused(b.links) \/ Stands(b, v)
    BY <1>1, <1>3 DEF Follows
  <2>5. /\ BuilderShaped(f)
        /\ \/ f.phase \in BuildErrors /\ f.links = b.links
           \/ /\ Going(f) /\ Len(b.links) < MaxLinks
              /\ \E r \in Said(w) :
                    /\ r \in Held(b.answers, b.current, "TXT") /\ r.signatures # <<>>
                    /\ f.links = Append(b.links, r)
    <3>1. Keeps(w, here) /\ here.phase \notin BuildErrors /\ Honest(w, b.answers)
      BY <2>1, <2>3 DEF BuildErrors, Keeps
    <3>2. /\ BuilderShaped(f)
          /\ \/ f.phase \in BuildErrors /\ f.links = here.links
             \/ /\ Going(f) /\ Len(here.links) < MaxLinks
                /\ \E r \in Said(w) :
                      /\ r \in Held(b.answers, b.current, "TXT") /\ r.signatures # <<>>
                      /\ f.links = Append(here.links, r)
      BY <3>1, FramedIs
    <3> HIDE DEF f
    <3> QED  BY <2>1, <3>2
  <2> HIDE DEF f
  <2>6. CASE ~Going(f) /\ Turn(b, i) = f
    BY <2>5, <2>6, OverInShape
  <2>7. CASE Turn(b, i) = Stopped(here, "MissingRrset")
    <3>1. /\ Stopped(here, "MissingRrset").links = b.links
          /\ Stopped(here, "MissingRrset").phase \in BuildErrors
      BY <2>1 DEF Stopped, BuilderShaped, BuildErrors
    <3> QED  BY <2>7, <3>1, OverInShape
  <2>8. CASE Going(f) /\ Turn(b, i) = Stopped(f, "Done")
    <3>1. PICK r \in Said(w) : /\ r.owner = b.current /\ r.rtype = "TXT" /\ r.signatures # <<>>
                               /\ f.links = Append(b.links, r) /\ Len(b.links) < MaxLinks
      BY <2>5, <2>8 DEF Held, Going
    <3>2. PICK c : c = Stopped(f, "Done")
      OBVIOUS
    <3>3. c.phase = "Done" /\ c.links = Append(b.links, r)
      BY <2>5, <3>1, <3>2 DEF Stopped, BuilderShaped
    <3>4. /\ c.links # <<>> /\ Len(c.links) <= MaxLinks /\ Head(c.links).rtype = "DNSKEY"
          /\ \A j \in DOMAIN c.links : c.links[j].signatures # <<>>
          /\ Walked(c.links) = Step(v, r)
          /\ Excused(b.links) => Excused(c.links)
      BY <1>1, <3>1, <3>3, FramesOn DEF Linked
    <3>5. Stands(b, v) => Step(v, r).verdict \in Objections \cup {"Proven"}
      <4>1. Stands(b, v) => Shaped(v) /\ Walks(v) /\ v.pending = <<>> /\ v.target = r.owner
        BY <3>1 DEF Stands
      <4> HIDE DEF v
      <4> QED  BY <3>1, <4>1, LeafStep
    <3>6. Excused(c.links) \/ Walked(c.links).verdict = "Proven"
      BY <2>4, <3>4, <3>5 DEF Excused, Objected
    <3>7. InShape(c)
      BY <3>3, <3>4, <3>6 DEF InShape
    <3> QED  BY <2>8, <3>2, <3>7
  <2>9. CASE Held(b.answers, b.current, "CNAME") # {} /\ Turn(b, i) = FollowAlias(here)
    <3>1. Stands(b, v) => AtName(here, v) /\ v.hops + here.remaining = MaxHops
      <4> HIDE DEF v
      <4> QED  BY <1>1, <2>1, ValidatorAssumption DEF Stands, AtName
    <3>2. \/ here.remaining = 0 \/ Excused(here.links)
          \/ AtName(here, Walked(here.links)) /\ Walked(here.links).hops + here.remaining = MaxHops
      BY <2>1, <2>4, <3>1
    <3> QED  BY <2>1, <2>3, <2>9, <3>2, AliasInShape
  <2> QED  BY <2>2, <2>6, <2>7, <2>8, <2>9
<1> QED  BY <1>2, <1>3

\* p: the world.
ShapesSoFar(p, list, k, b) ==
    Becomes(p, b, {"Walking", "Ds", "Done"}) /\ Aimed(b) /\ InShape(b)

Shaping == INSTANCE Folding WITH Step <- TurnStep, Holds <- ShapesSoFar

LEMMA AdvanceInShape ==
    ASSUME NEW w \in Worlds, NEW b, Becomes(w, b, {"Walking"}), Aimed(b), InShape(b),
           b.phase = "Walking"
    PROVE  InShape(Advance(b))
<1> DEFINE n == b.remaining + 1
           list == [i \in 1..n |-> i]
           end == Shaping!Run(w, b, list)[DOMAIN list]
<1>0. b.remaining \in Nat
  BY DEF Becomes, Keeps
<1>1. FoldLeft(Turn, b, list) = end
  BY Zenon DEF FoldLeft, MapThenFoldSet, Max, TurnStep, Shaping!Run, Shaping!Runs, Shaping!Greatest
<1>2. Advance(b) = end
  BY <1>1 DEF Advance
<1>3. n \in Nat /\ DOMAIN list = 1..n
  BY <1>0
<1> HIDE DEF n, list
<1>4. ShapesSoFar(w, list, 0, b)
  BY DEF ShapesSoFar, Becomes
<1>5. ASSUME NEW k \in 1..n, NEW c, ShapesSoFar(w, list, k - 1, c)
      PROVE  ShapesSoFar(w, list, k, TurnStep(w, c, list[k]))
  <2> DEFINE i == list[k]
             d == Turn(c, i)
  <2>1. Becomes(w, c, {"Walking", "Ds", "Done"}) /\ Aimed(c) /\ InShape(c)
    BY <1>5 DEF ShapesSoFar
  <2> HIDE DEF i
  <2>2. CASE c.phase # "Walking"
    <3>1. d = c
      BY <2>2 DEF Turn
    <3> QED  BY <2>1, <3>1 DEF ShapesSoFar, TurnStep, i
  <2>3. CASE c.phase = "Walking"
    <3>1. Keeps(w, c) /\ Leafless(c)
      BY <2>1, <2>3 DEF Becomes, BuildErrors
    <3>2. Becomes(w, d, {"Walking", "Ds", "Done"})
      BY <2>3, <3>1, TurnKeeps
    <3>3. Aimed(d)
      BY <2>1, <2>3, <3>1, TurnAims
    <3>4. InShape(d)
      BY <2>1, <2>3, <3>1, TurnInShape
    <3> HIDE DEF d
    <3> QED  BY <3>2, <3>3, <3>4 DEF ShapesSoFar, TurnStep, d, i
  <2> QED  BY <2>2, <2>3
<1>6. ShapesSoFar(w, list, n, end)
  <2> HIDE DEF end
  <2> QED  BY <1>3, <1>4, <1>5, Shaping!Kept DEF end
<1> QED  BY <1>2, <1>6 DEF ShapesSoFar

\* The answers about zones keep the descent inside the name at hand.
LEMMA ZoneAnswersAim ==
    ASSUME NEW b, BuilderShaped(b), Aimed(b), NEW answers
    PROVE  Aimed(AnswerDs(b, answers)) /\ Aimed(AnswerDnskey(b, answers))
<1> DEFINE zone == TrimTo(b.name, b.depth)
           f(rtype) == Framed(b, answers, zone, rtype)
<1>1. ASSUME NEW c, SameAim(c, b)
      PROVE  Aimed(c)
  BY <1>1 DEF SameAim, Aimed
<1>2. \A rtype : BuilderShaped(f(rtype)) /\ SameAim(f(rtype), b)
  BY FramedAims
<1>3. zone \in Name
  BY TrimIs DEF Aimed
<1>4. Aimed(AnswerDs(b, answers))
  <2> DEFINE g == f("DS")
             c == Stopped(g, "Dnskey")
  <2>1. \/ AnswerDs(b, answers) = NextCut(b)
        \/ AnswerDs(b, answers) = c
        \/ AnswerDs(b, answers) = g
    BY DEF AnswerDs, Stopped
  <2>2. BuilderShaped(g) /\ SameAim(g, b)
    BY <1>2
  <2> HIDE DEF g
  <2>3. SameAim(c, b)
    <3>1. SameAim(c, g)
      BY <2>2, StoppedAims
    <3> QED  BY <2>2, <3>1 DEF SameAim
  <2>4. Aimed(NextCut(b)) /\ Aimed(c) /\ Aimed(g)
    BY <1>1, <2>2, <2>3, NextCutAims
  <2> QED  BY <2>1, <2>4
<1>5. Aimed(AnswerDnskey(b, answers))
  <2> DEFINE g == f("DNSKEY")
  <2>1. AnswerDnskey(b, answers) \in {g, NextCut([g EXCEPT !.deepest = zone])}
    BY DEF AnswerDnskey
  <2>2. BuilderShaped(g) /\ SameAim(g, b)
    BY <1>2
  <2> HIDE DEF g, zone
  <2>3. PICK c : c = [g EXCEPT !.deepest = zone]
    OBVIOUS
  <2>4. BuilderShaped(c) /\ Aimed(c)
    BY <1>3, <2>2, <2>3 DEF BuilderShaped, SameAim, Aimed
  <2>5. Aimed(NextCut(c)) /\ Aimed(g)
    BY <1>1, <2>2, <2>4, NextCutAims
  <2> QED  BY <2>1, <2>3, <2>5
<1> QED  BY <1>4, <1>5

\* Whatever a builder is answered, the validator's walk follows it.
LEMMA AnsweredInShape ==
    ASSUME NEW w \in Worlds, NEW b, Keeps(w, b), Leafless(b), Aimed(b), InShape(b),
           b.phase \in Asking, NEW answers, Honest(w, answers)
    PROVE  InShape(Answered(b, answers))
<1>1. ASSUME NEW c, InShape(c), NEW phases, Becomes(w, c, phases), c.phase = "Walking" => Aimed(c)
      PROVE  InShape(Advance(c))
  <2>1. CASE c.phase # "Walking"
    BY <1>1, <2>1 DEF Advance
  <2>2. CASE c.phase = "Walking"
    <3>1. Becomes(w, c, {"Walking"})
      BY <1>1, <2>2 DEF Becomes
    <3> QED  BY <1>1, <2>2, <3>1, AdvanceInShape
  <2> QED  BY <2>1, <2>2
<1>2. BuilderShaped(b)
  BY DEF Keeps
<1>3. CASE b.phase = "RootKeys"
  <2>1. Answered(b, answers) = Advance(AnswerRootKeys(b, answers))
    BY <1>3 DEF Answered
  <2>2. Becomes(w, AnswerRootKeys(b, answers), {"Ds"}) /\ InShape(AnswerRootKeys(b, answers))
    BY <1>3, ZoneAnswersKeep, RootAnswerInShape
  <2>3. AnswerRootKeys(b, answers).phase # "Walking"
    BY <2>2 DEF Becomes, BuildErrors
  <2> QED  BY <1>1, <2>1, <2>2, <2>3
<1>4. CASE b.phase = "Ds"
  <2>1. Answered(b, answers) = Advance(AnswerDs(b, answers))
    BY <1>4 DEF Answered
  <2>2. /\ Becomes(w, AnswerDs(b, answers), {"Ds", "Dnskey", "Walking", "Leaf"})
        /\ InShape(AnswerDs(b, answers)) /\ Aimed(AnswerDs(b, answers))
    BY <1>2, <1>4, ZoneAnswersKeep, DsAnswerInShape, ZoneAnswersAim
  <2> QED  BY <1>1, <2>1, <2>2
<1>5. CASE b.phase = "Dnskey"
  <2>1. Answered(b, answers) = Advance(AnswerDnskey(b, answers))
    BY <1>5 DEF Answered
  <2>2. /\ Becomes(w, AnswerDnskey(b, answers), {"Ds", "Walking", "Leaf"})
        /\ InShape(AnswerDnskey(b, answers)) /\ Aimed(AnswerDnskey(b, answers))
    BY <1>2, <1>5, ZoneAnswersKeep, KeysAnswerInShape, ZoneAnswersAim
  <2> QED  BY <1>1, <2>1, <2>2
<1>6. CASE b.phase = "Leaf"
  <2>1. Answered(b, answers) = Advance(AnswerLeaf(b, answers))
    BY <1>6 DEF Answered
  <2>2. PICK c : c = AnswerLeaf(b, answers)
    OBVIOUS
  <2>3. /\ BuilderShaped(c) /\ c.links = b.links /\ c.answers = answers
        /\ c.remaining = b.remaining /\ c.phase = "Walking" /\ c.name = b.name
        /\ c.depth = b.depth /\ c.zone = b.zone /\ c.deepest = b.deepest
    BY <1>2, <2>2 DEF AnswerLeaf, BuilderShaped
  <2>4. Becomes(w, c, {"Walking"}) /\ Aimed(c)
    BY <2>3 DEF Becomes, Keeps, Leafless, LeafLast, Aimed
  <2>5. InShape(c)
    BY <1>2, <1>6, <2>2, LeafAnswerInShape
  <2> QED  BY <1>1, <2>1, <2>2, <2>4, <2>5
<1> QED  BY <1>3, <1>4, <1>5, <1>6 DEF Asking

\* The validator's walk over what the builder has framed follows the builder, and what is
\* framed at last is walked to its end.
ShapeInv ==
    /\ AimInv
    /\ InShape(builder)
    /\ result = "Framed" => builder.phase = "Done"

LEMMA StartInShape == InShape(StartBuilder)
<1>1. /\ StartBuilder.phase = "RootKeys" /\ StartBuilder.links = <<>>
      /\ StartBuilder.current = Owner /\ StartBuilder.remaining = MaxHops + 1
  BY DEF StartBuilder
<1>2. Len(<<>>) = 0 /\ DOMAIN <<>> = {}
  OBVIOUS
<1> QED  BY <1>1, <1>2, CourierAssumption DEF InShape

LEMMA ShapeInit == Init => ShapeInv
BY AimInit, StartInShape DEF Init, ShapeInv

LEMMA ShapeStep == ShapeInv /\ [Next]_vars => ShapeInv'
<1> SUFFICES ASSUME ShapeInv, [Next]_vars  PROVE ShapeInv'
  OBVIOUS
<1>0. AimInv'
  BY AimStep DEF ShapeInv
<1>1. ASSUME NEW last, FailOver(last), InShape(last), result = "None"
      PROVE  ShapeInv'
  <2>1. CASE upstream < Upstreams
    <3>1. builder' = StartBuilder /\ result' = result
      BY <1>1, <2>1 DEF FailOver
    <3> QED  BY <1>0, <1>1, <3>1, StartInShape DEF ShapeInv
  <2>2. CASE ~(upstream < Upstreams)
    <3>1. builder' = last /\ result' = "Failed"
      BY <1>1, <2>2 DEF FailOver
    <3> QED  BY <1>0, <1>1, <3>1 DEF ShapeInv
  <2> QED  BY <2>1, <2>2
<1>2. ASSUME result = "None",
             NEW answers, answers = WholeAnswer \/ answers \in Degraded(WholeAnswer),
             Take(Answered(builder, answers))
      PROVE  ShapeInv'
  <2> DEFINE next == Answered(builder, answers)
  <2>1. /\ world \in Worlds /\ Keeps(world, builder) /\ Leafless(builder)
        /\ builder.phase \in Asking /\ Aimed(builder) /\ InShape(builder)
    BY <1>2 DEF ShapeInv, AimInv, FetchInv
  <2>2. Honest(world, answers)
    <3>1. Question(builder).rtype \in Rtypes
      BY <2>1 DEF Question, Rtypes, Asking
    <3>2. \A r \in WholeAnswer : r \in Said(world) /\ Strippable(r)
      BY <3>1, AnswersAreSaid DEF ShapeInv, AimInv, FetchInv, WholeAnswer
    <3> QED  BY <1>2, <2>1, <3>2, DegradedIsHonest
  <2>3. InShape(next)
    BY <2>1, <2>2, AnsweredInShape
  <2> HIDE DEF next
  <2>4. CASE ~Going(next)
    BY <1>1, <1>2, <2>3, <2>4 DEF Take, next
  <2>5. CASE Going(next)
    <3>1. builder' = next /\ result' = IF next.phase = "Done" THEN "Framed" ELSE result
      BY <1>2, <2>5 DEF Take, next
    <3> QED  BY <1>0, <1>2, <2>3, <3>1 DEF ShapeInv
  <2> QED  BY <2>4, <2>5
<1>3. CASE Respond
  <2>1. result = "None" /\ Take(Answered(builder, WholeAnswer))
    BY <1>3 DEF Respond
  <2> QED  BY <1>2, <2>1
<1>4. CASE RespondDegraded
  <2>1. PICK answers \in Degraded(WholeAnswer) : Take(Answered(builder, answers))
    BY <1>4 DEF RespondDegraded
  <2>2. result = "None"
    BY <1>4 DEF RespondDegraded
  <2> QED  BY <1>2, <2>1, <2>2
<1>5. CASE QueryFails
  <2>1. result = "None" /\ FailOver(Stopped(builder, "QueryFailed"))
    BY <1>5 DEF QueryFails
  <2>2. /\ Stopped(builder, "QueryFailed").links = builder.links
        /\ Stopped(builder, "QueryFailed").phase = "QueryFailed"
    BY DEF Stopped, ShapeInv, AimInv, FetchInv, Keeps, BuilderShaped
  <2>3. InShape(Stopped(builder, "QueryFailed"))
    BY <2>2, OverInShape DEF ShapeInv
  <2> QED  BY <1>1, <2>1, <2>3
<1>6. CASE \E z \in DOMAIN stage : Roll(z)
  <2>1. UNCHANGED <<builder, result>>
    BY <1>6 DEF Roll
  <2> QED  BY <1>0, <2>1 DEF ShapeInv
<1>7. CASE UNCHANGED vars
  BY <1>0, <1>7 DEF ShapeInv, vars
<1> QED  BY <1>3, <1>4, <1>5, <1>6, <1>7 DEF Next

\* Builder and validator agree: whatever resolvers leave out or strip, whenever zones roll
\* their keys, along every alias and at the hop bound, a chain that is framed is within the
\* cap and one that the validator can walk to its end, unless a signature, a window, a
\* delegation or a synthesized leaf is wrong, or the root's keys are no longer anchors.
THEOREM FramesHaveShape == Spec => []FramedHasShape
<1>1. ShapeInv => FramedHasShape
  <2> SUFFICES ASSUME ShapeInv  PROVE FramedHasShape
    OBVIOUS
  <2>1. Len(builder.links) <= MaxLinks
    BY DEF ShapeInv, InShape
  <2>2. ASSUME result = "Framed"
        PROVE  \/ Proof.verdict \in {"Proven", "NoUsableSignature", "EmptyWindow", "DsMismatch",
                                     "WildcardExpansion"}
               \/ Proof.verdict = "Unanchored" /\ Head(builder.links).data \cap Anchors = {}
    <3> DEFINE v == Walked(builder.links)
    <3>1. /\ builder.links # <<>> /\ Head(builder.links).rtype = "DNSKEY"
          /\ \A i \in DOMAIN builder.links : builder.links[i].signatures # <<>>
          /\ Excused(builder.links) \/ v.verdict = "Proven"
      BY <2>2 DEF ShapeInv, InShape
    <3>2. Proof = IF Walks(v) THEN Ended(v, "MissingLeaf") ELSE v
      BY <3>1 DEF Proof, Validate, Walked, Folded
    <3>3. \/ Objected(v) \/ v.verdict = "Proven"
          \/ v.verdict = "Unanchored" /\ Head(builder.links).data \cap Anchors = {}
      BY <3>1 DEF Excused
    <3> HIDE DEF v
    <3> QED  BY <3>2, <3>3 DEF Objected, Objections, Walks
  <2> QED  BY <2>1, <2>2 DEF FramedHasShape
<1> QED  BY <1>1, ShapeInit, ShapeStep, PTL DEF Spec

-----------------------------------------------------------------------------
\* What is published arrives.

LEMMA PrefixOn ==
    ASSUME NEW s \in Name, NEW t \in Name, NEW n \in Name, IsPrefix(s, t), IsPrefix(t, n)
    PROVE  IsPrefix(s, n) /\ Len(s) <= Len(t) /\ Len(t) <= Len(n)
<1>1. /\ Len(s) <= Len(t) /\ \A i \in 1..Len(s) : s[i] = t[i]
      /\ Len(t) <= Len(n) /\ \A i \in 1..Len(t) : t[i] = n[i]
      /\ Len(s) \in Nat /\ Len(t) \in Nat /\ Len(n) \in Nat
  BY PrefixIs DEF Name
<1>2. \A i \in 1..Len(s) : i \in 1..Len(t)
  BY <1>1
<1>3. Len(s) <= Len(n) /\ \A i \in 1..Len(s) : s[i] = n[i]
  BY <1>1, <1>2
<1> QED  BY <1>1, <1>3, PrefixIs

\* Two prefixes of one name that are as long are the same.
LEMMA PrefixesOfALength ==
    ASSUME NEW s \in Name, NEW t \in Name, NEW n \in Name,
           IsPrefix(s, n), IsPrefix(t, n), Len(s) = Len(t)
    PROVE  s = t
<1>1. /\ \A i \in 1..Len(s) : s[i] = n[i]
      /\ \A i \in 1..Len(t) : t[i] = n[i]
  BY PrefixIs
<1>2. \A i \in 1..Len(s) : s[i] = t[i]
  BY <1>1
<1> QED  BY <1>2, SeqEqual DEF Name

LEMMA FrontIs ==
    ASSUME NEW n \in Name, n # Root
    PROVE  Front(n) \in Name /\ Len(Front(n)) = Len(n) - 1 /\ IsPrefix(Front(n), n)
<1>1. Len(n) \in Nat \ {0} /\ Len(n) - 1 \in Nat
  BY DEF Name, Root
<1>2. /\ Front(n) \in Name /\ Len(Front(n)) = Len(n) - 1
      /\ \A i \in 1..(Len(n) - 1) : Front(n)[i] = n[i]
  <2> DEFINE m == Len(n) - 1
             front == SubSeq(n, 1, m)
  <2>1. m \in Nat /\ m <= Len(n)
    BY <1>1
  <2> HIDE DEF m
  <2>2. front \in Name /\ Len(front) = m /\ \A i \in 1..m : front[i] = n[i]
    BY <2>1 DEF Name
  <2>3. Front(n) = front
    BY DEF Front, m
  <2> QED  BY <2>2, <2>3 DEF m
<1> DEFINE s == Front(n)
<1> HIDE DEF s
<1>3. s \in Name /\ Len(s) <= Len(n) /\ \A i \in 1..Len(s) : s[i] = n[i]
  <2>1. s \in Name /\ Len(s) = Len(n) - 1 /\ \A i \in 1..(Len(n) - 1) : s[i] = n[i]
    BY <1>2 DEF s
  <2> QED  BY <1>1, <2>1
<1>4. IsPrefix(s, n)
  BY <1>3, PrefixIs
<1> QED  BY <1>2, <1>4 DEF s

\* The deepest cut at or above a name is its zone.
LEMMA ZoneIsDeepest ==
    ASSUME NEW w \in Worlds, NEW n \in Name, NEW z \in DOMAIN w.cut, IsPrefix(z, n),
           \A y \in DOMAIN w.cut : IsPrefix(y, n) => Len(y) <= Len(z)
    PROVE  ZoneOf(w, n) = z
<1>1. DOMAIN w.cut \subseteq Name
  BY CourierAssumption
<1>2. /\ ZoneOf(w, n) \in DOMAIN w.cut /\ IsPrefix(ZoneOf(w, n), n)
      /\ Len(z) <= Len(ZoneOf(w, n))
  BY ZoneIs
<1>3. Len(ZoneOf(w, n)) = Len(z)
  <2>1. Len(ZoneOf(w, n)) \in Nat /\ Len(z) \in Nat
    BY <1>1, <1>2 DEF Name
  <2> QED  BY <1>2, <2>1
<1> QED  BY <1>1, <1>2, <1>3, PrefixesOfALength

\* Paths of different lengths agree as far as both go.
LEMMA PathsAgree ==
    ASSUME NEW w, NEW n, NEW hops \in Nat
    PROVE  \A i \in 0..hops : Visited(w, n, hops + 1)[i] = Visited(w, n, hops)[i]
<1> DEFINE at == Visited(w, n, hops)
           on == Visited(w, n, hops + 1)
           Bad == {i \in 0..hops : on[i] # at[i]}
<1>1. /\ at[0] = n /\ \A i \in 1..hops : at[i] = Onward(w, at[i - 1])
      /\ on[0] = n /\ \A i \in 1..(hops + 1) : on[i] = Onward(w, on[i - 1])
  <2>1. at[0] = n /\ \A i \in 1..hops : at[i] = Onward(w, at[i - 1])
    BY VisitedIs
  <2>2. hops + 1 \in Nat
    OBVIOUS
  <2>3. on[0] = n /\ \A i \in 1..(hops + 1) : on[i] = Onward(w, on[i - 1])
    <3> HIDE DEF at
    <3> QED  BY <2>2, VisitedIs
  <2> QED  BY <2>1, <2>3
<1> HIDE DEF at, on
<1>2. Bad = {}
  <2> SUFFICES ASSUME Bad # {}  PROVE FALSE
    OBVIOUS
  <2>0. Bad \subseteq Nat
    OBVIOUS
  <2>1. PICK i \in Bad : \A j \in Bad : ~(<<j, i>> \in OpToRel(<, Nat))
    BY <2>0, NatLessThanWellFounded, WFMin
  <2>2. \A j \in Bad : ~(j < i)
    BY <2>0, <2>1 DEF OpToRel
  <2>3. i # 0
    BY <1>1
  <2>4. i - 1 \in 0..hops /\ i \in 1..hops /\ i \in 1..(hops + 1) /\ i - 1 < i
    BY <2>3
  <2>5. on[i - 1] = at[i - 1]
    BY <2>2, <2>4
  <2>6. on[i] = at[i]
    BY <1>1, <2>4, <2>5
  <2> QED  BY <2>6
<1> QED  BY <1>2 DEF at, on

-----------------------------------------------------------------------------
\* What zones sign within one step of a roll.

After(st) == IF st = "Old" THEN "Rolling" ELSE "New"

\* At most one step on from where the zones began, an anchor among the root's keys.
Near(w) ==
    {st \in [DOMAIN w.cut -> Stages] :
        /\ \A z \in DOMAIN w.cut : st[z] \in {w.stage[z], After(w.stage[z])}
        /\ ToSet(KeysAt(st[Root])) \cap Anchors # {}}

KeySet(st, z) == ToSet(KeysAt(st[z]))

LEMMA KeysAre ==
    ASSUME NEW st \in Stages
    PROVE  /\ st = "Old" => ToSet(KeysAt(st)) = {1} /\ KeysAt(st) = <<1>>
           /\ st = "Rolling" => ToSet(KeysAt(st)) = {1, 2} /\ KeysAt(st) = <<1, 2>>
           /\ st = "New" => ToSet(KeysAt(st)) = {2} /\ KeysAt(st) = <<2>>
<1>1. /\ st = "Old" => KeysAt(st) = <<1>>
      /\ st = "Rolling" => KeysAt(st) = <<1, 2>>
      /\ st = "New" => KeysAt(st) = <<2>>
  BY DEF KeysAt
<1>2. ToSet(<<1>>) = {1} /\ ToSet(<<2>>) = {2} /\ ToSet(<<1, 2>>) = {1, 2}
  <2>1. \A s : ToSet(s) = {s[i] : i \in DOMAIN s}
    BY DEF ToSet
  <2> QED  BY <2>1
<1> QED  BY <1>1, <1>2

\* The list of a zone's keys names each of them.
LEMMA KeyLists ==
    ASSUME NEW st \in Stages
    PROVE  /\ \A k \in ToSet(KeysAt(st)) : \E i \in 1..Len(KeysAt(st)) : KeysAt(st)[i] = k
           /\ \A i \in 1..Len(KeysAt(st)) : KeysAt(st)[i] \in Keys
           /\ Len(KeysAt(st)) \in Nat \ {0}
<1> DEFINE list == KeysAt(st)
           keys == ToSet(list)
<1>1. st = "Old" \/ st = "Rolling" \/ st = "New"
  BY DEF Stages
<1>2. /\ st = "Old" => list = <<1>> /\ keys = {1}
      /\ st = "New" => list = <<2>> /\ keys = {2}
      /\ st = "Rolling" => list = <<1, 2>> /\ keys = {1, 2}
  BY KeysAre
<1> HIDE DEF list, keys
<1>3. /\ \A k \in keys : \E i \in 1..Len(list) : list[i] = k
      /\ \A i \in 1..Len(list) : list[i] \in Keys
      /\ Len(list) \in Nat \ {0}
  <2>1. CASE st = "Old"
    <3>1. Len(list) = 1 /\ list[1] = 1 /\ keys = {1}
      BY <1>2, <2>1
    <3> QED  BY <3>1 DEF Keys
  <2>2. CASE st = "New"
    <3>1. Len(list) = 1 /\ list[1] = 2 /\ keys = {2}
      BY <1>2, <2>2
    <3> QED  BY <3>1 DEF Keys
  <2>3. CASE st = "Rolling"
    <3>1. Len(list) = 2 /\ list[1] = 1 /\ list[2] = 2 /\ keys = {1, 2}
      BY <1>2, <2>3
    <3>2. \A i \in 1..2 : i = 1 \/ i = 2
      OBVIOUS
    <3> QED  BY <3>1, <3>2 DEF Keys
  <2> QED  BY <1>1, <2>1, <2>2, <2>3
<1> QED  BY <1>3 DEF list, keys

\* Before and after one step, a zone's keys have one in common, and each of them signs.
LEMMA KeysMeet ==
    ASSUME NEW w \in Worlds, NEW z \in DOMAIN w.cut, NEW a \in Near(w), NEW b \in Near(w)
    PROVE  /\ KeySet(a, z) \cap KeySet(b, z) # {}
           /\ KeySet(a, z) \subseteq Keys
           /\ \A k \in KeySet(a, z) : \E i \in 1..Len(KeysAt(a[z])) : KeysAt(a[z])[i] = k
           /\ \A i \in 1..Len(KeysAt(a[z])) : KeysAt(a[z])[i] \in Keys
           /\ Len(KeysAt(a[z])) \in Nat \ {0}
<1>1. /\ w.stage[z] \in Stages /\ a[z] \in Stages /\ b[z] \in Stages
      /\ a[z] \in {w.stage[z], After(w.stage[z])} /\ b[z] \in {w.stage[z], After(w.stage[z])}
  BY CourierAssumption DEF Near
<1>2. KeySet(a, z) \cap KeySet(b, z) # {} /\ KeySet(a, z) \subseteq Keys
  BY <1>1, KeysAre DEF KeySet, After, Stages, Keys
<1>3. /\ \A k \in KeySet(a, z) : \E i \in 1..Len(KeysAt(a[z])) : KeysAt(a[z])[i] = k
      /\ \A i \in 1..Len(KeysAt(a[z])) : KeysAt(a[z])[i] \in Keys
      /\ Len(KeysAt(a[z])) \in Nat \ {0}
  BY <1>1, KeyLists DEF KeySet
<1> QED  BY <1>2, <1>3

\* What there is to be said, and what it says.
LEMMA GivenIs ==
    ASSUME NEW w \in Worlds, NEW st, NEW n, NEW rtype \in Rtypes, NEW r \in Rrsets(w, st, n, rtype)
    PROVE  /\ r.owner = n /\ r.rtype = rtype /\ (r.expanded <=> n \in w.wild)
           /\ r.signatures = Signatures(w, st, SigningZone(w, n, rtype))
           /\ rtype = "DNSKEY" => n \in Signing(w) /\ r.data = KeySet(st, n)
           /\ rtype = "DS" => n \in Delegated(w) /\ r.data = KeySet(st, n)
           /\ rtype = "CNAME" => n \in DOMAIN w.alias /\ r.data = w.alias[n]
           /\ rtype = "TXT" => n \in w.txt
<1>1. PICK d \in Data(w, st, n, rtype) :
         r = [owner |-> n, rtype |-> rtype, data |-> d, expanded |-> n \in w.wild,
              signatures |-> Signatures(w, st, SigningZone(w, n, rtype))]
  BY DEF Rrsets
<1>2. /\ r.owner = n /\ r.rtype = rtype /\ r.data = d /\ r.expanded = (n \in w.wild)
      /\ r.signatures = Signatures(w, st, SigningZone(w, n, rtype))
  BY <1>1
<1>3. /\ rtype = "DNSKEY" => n \in Signing(w) /\ d = KeySet(st, n)
      /\ rtype = "DS" => n \in Delegated(w) /\ d = KeySet(st, n)
      /\ rtype = "CNAME" => n \in DOMAIN w.alias /\ d = w.alias[n]
      /\ rtype = "TXT" => n \in w.txt
  BY <1>1 DEF Data, Rtypes, KeySet
<1> QED  BY <1>2, <1>3

LEMMA GivenWhen ==
    ASSUME NEW w, NEW st, NEW n
    PROVE  /\ n \in Signing(w) => Rrsets(w, st, n, "DNSKEY") # {}
           /\ n \in Delegated(w) => Rrsets(w, st, n, "DS") # {}
           /\ n \in DOMAIN w.alias => Rrsets(w, st, n, "CNAME") # {}
           /\ n \in w.txt => Rrsets(w, st, n, "TXT") # {}
<1>1. ASSUME NEW rtype, Data(w, st, n, rtype) # {}
      PROVE  Rrsets(w, st, n, rtype) # {}
  BY <1>1 DEF Rrsets
<1>2. n \in Signing(w) => Data(w, st, n, "DNSKEY") # {}
  BY DEF Data
<1>3. n \in Delegated(w) => Data(w, st, n, "DS") # {}
  BY DEF Data
<1>4. n \in DOMAIN w.alias => Data(w, st, n, "CNAME") # {}
  BY DEF Data
<1>5. n \in w.txt => Data(w, st, n, "TXT") # {}
  BY DEF Data
<1> QED  BY <1>1, <1>2, <1>3, <1>4, <1>5

-----------------------------------------------------------------------------
\* A walk at a moment t at which every window on the way is open.

Lasts(w, t, z) == \A k \in Keys : w.window[z][k][1] <= t /\ t <= w.window[z][k][2]

\* At a moment t the zones above a name are signed, delegated, and their windows open.
Clear(w, t, n) ==
    \A z \in DOMAIN w.cut : IsPrefix(z, n) =>
        /\ w.cut[z].signed /\ (z # Root => w.cut[z].ds)
        /\ Lasts(w, t, z)

\* The walk goes on, with keys that its zone and the root had just now.
Lit(w, t, v) ==
    /\ Shaped(v) /\ Walks(v)
    /\ v.zone \in DOMAIN w.cut /\ w.cut[v.zone].signed /\ Lasts(w, t, v.zone)
    /\ \E st \in Near(w) : v.keys = KeySet(st, v.zone)
    /\ \E st \in Near(w) : v.rootKeys = KeySet(st, Root)
    /\ v.window \in Nat \X Nat /\ v.window[1] <= t /\ t <= v.window[2]

\* What the zone at hand has signed just now verifies.
LEMMA GivenVerifies ==
    ASSUME NEW w \in Worlds, NEW t \in Nat, NEW v, Lit(w, t, v),
           NEW st \in Near(w), NEW link, link.signatures = Signatures(w, st, v.zone)
    PROVE  Lit(w, t, Verified(v, link)) /\ StaysPut(Verified(v, link), v)
<1> DEFINE z == v.zone
           ks == KeysAt(st[z])
           i0 == CHOOSE i \in Usable(v, link) : \A j \in Usable(v, link) : i <= j
           used == link.signatures[i0].window
           joint == <<Later(v.window[1], used[1]), Earlier(v.window[2], used[2])>>
           u == Verified(v, link)
<1>1. /\ Shaped(v) /\ Walks(v) /\ z \in DOMAIN w.cut /\ w.cut[z].signed /\ Lasts(w, t, z)
      /\ v.window \in Nat \X Nat /\ v.window[1] <= t /\ t <= v.window[2]
  BY DEF Lit
<1>2. PICK was \in Near(w) : v.keys = KeySet(was, z)
  BY DEF Lit
<1>3. /\ KeySet(st, z) \cap KeySet(was, z) # {}
      /\ \A k \in KeySet(st, z) : \E i \in 1..Len(ks) : ks[i] = k
      /\ \A i \in 1..Len(ks) : ks[i] \in Keys
      /\ Len(ks) \in Nat
  <2> HIDE DEF z
  <2>1. /\ KeySet(st, z) \cap KeySet(was, z) # {}
        /\ \A k \in KeySet(st, z) : \E i \in 1..Len(KeysAt(st[z])) : KeysAt(st[z])[i] = k
        /\ \A i \in 1..Len(KeysAt(st[z])) : KeysAt(st[z])[i] \in Keys
        /\ Len(KeysAt(st[z])) \in Nat \ {0}
    BY <1>1, KeysMeet
  <2> QED  BY <2>1
<1> HIDE DEF ks, z
<1>4. /\ DOMAIN link.signatures = 1..Len(ks)
      /\ \A i \in 1..Len(ks) : /\ link.signatures[i].signer = z /\ link.signatures[i].key = ks[i]
                               /\ link.signatures[i].window = w.window[z][ks[i]]
  <2>1. link.signatures = [i \in 1..Len(ks) |->
                              [signer |-> z, key |-> ks[i], window |-> w.window[z][ks[i]]]]
    BY <1>1 DEF Signatures, ks, z
  <2> QED  BY <2>1
<1>5. Usable(v, link) \in SUBSET Nat /\ Usable(v, link) # {}
  <2>1. PICK k \in KeySet(st, z) : k \in v.keys
    BY <1>2, <1>3
  <2>2. PICK i \in 1..Len(ks) : ks[i] = k
    BY <1>3
  <2>3. i \in Usable(v, link)
    <3>1. /\ i \in DOMAIN link.signatures /\ link.signatures[i].signer = z
          /\ link.signatures[i].key \in v.keys
      BY <1>4, <2>1, <2>2
    <3> QED  BY <3>1 DEF Usable, z
  <2> QED  BY <1>3, <1>4, <2>3 DEF Usable
<1>6. i0 \in Usable(v, link)
  <2> DEFINE S == Usable(v, link)
  <2>0. S \in SUBSET Nat /\ S # {}
    BY <1>5
  <2> HIDE DEF S
  <2>1. PICK m \in S : \A k \in S : ~(<<k, m>> \in OpToRel(<, Nat))
    BY <2>0, NatLessThanWellFounded, WFMin
  <2>2. \A j \in S : ~(j < m)
    BY <2>0, <2>1 DEF OpToRel
  <2>3. m \in Nat /\ \A j \in S : j \in Nat
    BY <2>0
  <2>4. \A j \in S : m <= j
    BY <2>2, <2>3
  <2> QED  BY <2>4 DEF S
<1>7. used \in Nat \X Nat /\ used[1] <= t /\ t <= used[2]
  <2>1. i0 \in 1..Len(ks)
    BY <1>4, <1>6 DEF Usable
  <2> HIDE DEF i0
  <2>2. used = w.window[z][ks[i0]] /\ ks[i0] \in Keys
    BY <1>3, <1>4, <2>1
  <2>3. w.window[z][ks[i0]] \in Nat \X Nat
    BY <1>1, <2>2, CourierAssumption
  <2> HIDE DEF used
  <2> QED  BY <1>1, <2>2, <2>3 DEF Lasts
<1>8. u = IF joint[2] < joint[1] THEN Ended(v, "EmptyWindow") ELSE [v EXCEPT !.window = joint]
  BY <1>5 DEF Verified
<1> HIDE DEF used, u
<1>9. joint \in Nat \X Nat /\ joint[1] <= t /\ t <= joint[2]
  <2>1. \A a, b \in Nat : /\ Later(a, b) \in Nat /\ (a <= t /\ b <= t => Later(a, b) <= t)
                          /\ Earlier(a, b) \in Nat /\ (t <= a /\ t <= b => t <= Earlier(a, b))
    BY DEF Later, Earlier
  <2>2. /\ v.window[1] \in Nat /\ v.window[2] \in Nat /\ used[1] \in Nat /\ used[2] \in Nat
    BY <1>1, <1>7
  <2> QED  BY <1>1, <1>7, <2>1, <2>2
<1> HIDE DEF joint
<1>10. u = [v EXCEPT !.window = joint]
  <2>1. ~(joint[2] < joint[1])
    BY <1>9
  <2> QED  BY <1>8, <2>1
<1>11. Shaped(u) /\ Walks(u) /\ StaysPut(u, v) /\ u.window = joint
  BY <1>1, <1>10 DEF Shaped, Walks, StaysPut
<1> QED  BY <1>9, <1>11 DEF Lit, StaysPut, u

\* The four kinds of step, along what zones have said just now.

LEMMA EnterLit ==
    ASSUME NEW w \in Worlds, NEW t \in Nat, t <= Horizon, Clear(w, t, Root),
           NEW st \in Near(w), NEW link \in Rrsets(w, st, Root, "DNSKEY")
    PROVE  Lit(w, t, EnterAnchored(Owner, link))
<1> DEFINE start == [zone |-> Root, keys |-> link.data, rootKeys |-> link.data,
                     target |-> Owner, pending |-> <<>>, hops |-> 0,
                     window |-> <<0, Horizon>>, verdict |-> "Walking"]
<1>1. /\ Root \in DOMAIN w.cut /\ w.cut[Root].signed /\ Root \in Name /\ IsPrefix(Root, Root)
  BY RootAbove, CourierAssumption
<1>2. ZoneOf(w, Root) = Root
  <2>1. \A y \in DOMAIN w.cut : IsPrefix(y, Root) => Len(y) <= Len(Root)
    BY <1>1, PrefixIs, CourierAssumption
  <2> QED  BY <1>1, <2>1, ZoneIsDeepest
<1>3. /\ link.owner = Root /\ link.data = KeySet(st, Root)
      /\ link.signatures = Signatures(w, st, SigningZone(w, Root, "DNSKEY"))
  BY GivenIs DEF Rtypes
<1>4. link.signatures = Signatures(w, st, Root)
  BY <1>2, <1>3 DEF SigningZone
<1>5. link.data \cap Anchors # {}
  BY <1>3 DEF Near, KeySet
<1>6. EnterAnchored(Owner, link) = Verified(start, link)
  BY <1>3, <1>5 DEF EnterAnchored
<1>7. /\ Shaped(start) /\ Walks(start) /\ start.zone = Root /\ start.keys = KeySet(st, Root)
      /\ start.rootKeys = KeySet(st, Root)
      /\ start.window \in Nat \X Nat /\ start.window[1] = 0 /\ start.window[2] = Horizon
  BY <1>3, ValidatorAssumption DEF Shaped, Walks
<1> HIDE DEF start
<1>8. Lit(w, t, start)
  BY <1>1, <1>7 DEF Lit, Clear
<1>9. link.signatures = Signatures(w, st, start.zone)
  BY <1>4, <1>7
<1> QED  BY <1>6, <1>8, <1>9, GivenVerifies

LEMMA DelegationLit ==
    ASSUME NEW w \in Worlds, NEW t \in Nat, NEW v, Lit(w, t, v), v.pending = <<>>,
           NEW n, NEW st \in Near(w), NEW link \in Rrsets(w, st, n, "DS"),
           IsStrictPrefix(v.zone, n), ZoneOf(w, Front(n)) = v.zone
    PROVE  LET u == Step(v, link)
           IN  Lit(w, t, u) /\ u.pending = <<link>>
<1> DEFINE here == Verified(v, link)
           u == Step(v, link)
<1>1. /\ link.owner = n /\ link.rtype = "DS"
      /\ link.signatures = Signatures(w, st, SigningZone(w, n, "DS"))
  BY GivenIs DEF Rtypes
<1>2. link.signatures = Signatures(w, st, v.zone)
  BY <1>1 DEF SigningZone
<1>3. Walks(v)
  BY DEF Lit
<1>4. u = [here EXCEPT !.pending = <<link>>]
  BY <1>1, <1>3 DEF Step, Delegation
<1>5. Lit(w, t, here)
  BY <1>2, GivenVerifies
<1> HIDE DEF here, u
<1>6. /\ Shaped(u) /\ u.zone = here.zone /\ u.keys = here.keys /\ u.rootKeys = here.rootKeys
      /\ u.window = here.window /\ u.verdict = here.verdict /\ u.pending = <<link>>
  BY <1>4, <1>5 DEF Lit, Shaped
<1> QED  BY <1>5, <1>6 DEF Lit, Walks, u

LEMMA DescendLit ==
    ASSUME NEW w \in Worlds, NEW t \in Nat, NEW v, Lit(w, t, v), v.pending # <<>>,
           NEW n \in Name, Clear(w, t, n), n \in DOMAIN w.cut,
           NEW st \in Near(w), NEW link \in Rrsets(w, st, n, "DNSKEY"),
           v.pending[1].owner = n, NEW old \in Near(w), v.pending[1].data = KeySet(old, n)
    PROVE  Lit(w, t, Step(v, link))
<1> DEFINE u == Step(v, link)
<1>1. /\ link.owner = n /\ link.rtype = "DNSKEY" /\ link.data = KeySet(st, n)
      /\ link.signatures = Signatures(w, st, SigningZone(w, n, "DNSKEY"))
  BY GivenIs DEF Rtypes
<1>2. IsPrefix(n, n)
  BY PrefixIs DEF Name
<1>3. ZoneOf(w, n) = n
  <2>1. \A y \in DOMAIN w.cut : IsPrefix(y, n) => Len(y) <= Len(n)
    BY PrefixIs, CourierAssumption
  <2> QED  BY <1>2, <2>1, ZoneIsDeepest
<1>4. link.signatures = Signatures(w, st, n)
  BY <1>1, <1>3 DEF SigningZone
<1>5. link.data \cap v.pending[1].data # {}
  BY <1>1, KeysMeet
<1>6. PICK child : child = [v EXCEPT !.zone = link.owner, !.keys = link.data, !.pending = <<>>]
  OBVIOUS
<1>7. u = Verified(child, link)
  BY <1>1, <1>5, <1>6 DEF Step, Descend, Lit
<1>8. /\ Shaped(child) /\ child.zone = n /\ child.keys = KeySet(st, n)
      /\ child.rootKeys = v.rootKeys /\ child.window = v.window /\ child.verdict = v.verdict
  BY <1>1, <1>6 DEF Lit, Shaped
<1>9. w.cut[n].signed /\ Lasts(w, t, n)
  BY <1>2 DEF Clear
<1>10. Lit(w, t, child)
  BY <1>8, <1>9 DEF Lit, Walks
<1>11. link.signatures = Signatures(w, st, child.zone)
  BY <1>4, <1>8
<1> HIDE DEF u
<1> QED  BY <1>7, <1>10, <1>11, GivenVerifies DEF u

LEMMA AliasLit ==
    ASSUME NEW w \in Worlds, NEW t \in Nat, NEW v, Lit(w, t, v), v.pending = <<>>,
           NEW n, NEW st \in Near(w), NEW link \in Rrsets(w, st, n, "CNAME"),
           v.target = n, ZoneOf(w, n) = v.zone, Clear(w, t, Root),
           v.hops \in Nat, v.hops < MaxHops
    PROVE  Lit(w, t, Step(v, link))
<1> DEFINE u == Step(v, link)
<1>0. ~(v.hops >= MaxHops)
  BY ValidatorAssumption
<1>1. /\ link.owner = n /\ link.rtype = "CNAME"
      /\ link.signatures = Signatures(w, st, SigningZone(w, n, "CNAME"))
  BY GivenIs DEF Rtypes
<1>2. link.signatures = Signatures(w, st, v.zone)
  BY <1>1 DEF SigningZone
<1>3. PICK first : first = Verified(v, link)
  OBVIOUS
<1>4. PICK here : here = [first EXCEPT !.target = link.data, !.hops = first.hops + 1]
  OBVIOUS
<1>5. PICK again : again = [here EXCEPT !.zone = Root, !.keys = v.rootKeys]
  OBVIOUS
<1>6. Walks(v)
  BY DEF Lit
<1>7. u = IF IsPrefix(v.zone, link.data) THEN here ELSE again
  BY <1>0, <1>1, <1>3, <1>4, <1>5, <1>6 DEF Step, FollowCname
<1>8. Lit(w, t, first) /\ StaysPut(first, v)
  BY <1>2, <1>3, GivenVerifies
<1> HIDE DEF u
<1>9. /\ Shaped(here) /\ here.zone = first.zone /\ here.keys = first.keys
      /\ here.rootKeys = first.rootKeys /\ here.window = first.window
      /\ here.verdict = first.verdict
  BY <1>4, <1>8 DEF Lit, Shaped
<1>10. /\ Shaped(again) /\ again.zone = Root /\ again.keys = v.rootKeys
       /\ again.rootKeys = first.rootKeys /\ again.window = first.window
       /\ again.verdict = first.verdict
  BY <1>5, <1>9 DEF Shaped
<1>11. Lit(w, t, here)
  BY <1>8, <1>9 DEF Lit, Walks
<1>12. Lit(w, t, again)
  <2>1. Root \in DOMAIN w.cut /\ w.cut[Root].signed /\ IsPrefix(Root, Root)
    BY RootAbove, CourierAssumption
  <2>2. Lasts(w, t, Root)
    BY <2>1 DEF Clear
  <2>3. again.rootKeys = v.rootKeys
    BY <1>8, <1>10 DEF StaysPut
  <2> QED  BY <1>8, <1>10, <2>1, <2>2, <2>3 DEF Lit, Walks
<1> QED  BY <1>7, <1>11, <1>12 DEF u

LEMMA LeafProven ==
    ASSUME NEW w \in Worlds, NEW t \in Nat, NEW v, Lit(w, t, v), v.pending = <<>>,
           NEW n, NEW st \in Near(w), NEW link \in Rrsets(w, st, n, "TXT"),
           v.target = n, ZoneOf(w, n) = v.zone, n \notin w.wild
    PROVE  Step(v, link).verdict = "Proven"
<1>1. /\ link.owner = n /\ link.rtype = "TXT" /\ ~link.expanded
      /\ link.signatures = Signatures(w, st, SigningZone(w, n, "TXT"))
  BY GivenIs DEF Rtypes
<1>2. link.signatures = Signatures(w, st, v.zone)
  BY <1>1 DEF SigningZone
<1>3. PICK here : here = Verified(v, link)
  OBVIOUS
<1>4. Lit(w, t, here)
  BY <1>2, <1>3, GivenVerifies
<1>5. Walks(v) /\ Walks(here) /\ Shaped(here)
  BY <1>4 DEF Lit
<1>6. Step(v, link) = Ended(here, "Proven")
  BY <1>1, <1>3, <1>5 DEF Step, FinishBinding
<1> QED  BY <1>5, <1>6 DEF Ended, Shaped

-----------------------------------------------------------------------------
\* The builder, answered in full.

\* At a moment t all that the owner's aliases pass is in force.
Published(w, t) ==
    /\ t \in 0..Horizon
    /\ Way(w)[MaxHops] \in w.txt \ w.wild
    /\ \A i \in 0..MaxHops : Clear(w, t, Way(w)[i])

LeafQuestion == [name |-> Owner, rtype |-> "TXT"]

\* No cut that is shorter than a depth is deeper than the deepest one found.
Probing(w, name, depth, deepest) ==
    \A y \in DOMAIN w.cut : IsPrefix(y, name) /\ Len(y) < depth => Len(y) <= Len(deepest)

\* Where the builder is on the owner's path.
OnPath(w, b) ==
    /\ b.current \in Name /\ b.remaining \in 1..(MaxHops + 1)
    /\ b.current = Way(w)[MaxHops + 1 - b.remaining]

Answering(w, b) == \E st \in Near(w) : b.answers = Answer(w, st, LeafQuestion, MaxHops + 1)

\* The builder has not failed, and the walk over what it has framed goes on or has proven.
Bright(w, t, b) ==
    /\ b.phase \in Asking \cup {"Walking", "Done"}
    /\ b.phase = "Done" => Walked(b.links).verdict = "Proven"
    /\ b.phase # "Done" => OnPath(w, b)
    /\ b.phase \in {"Ds", "Dnskey"} => b.name = b.current /\ Probing(w, b.name, b.depth, b.deepest)
    /\ b.phase \in {"Ds", "Dnskey", "Leaf", "Walking"} => Lit(w, t, Walked(b.links))
    /\ b.phase = "Dnskey" =>
          /\ TrimTo(b.name, b.depth) \in DOMAIN w.cut
          /\ \E st \in Near(w) : Walked(b.links).pending[1].data = KeySet(st, TrimTo(b.name, b.depth))
    /\ b.phase \in {"Leaf", "Walking"} => Walked(b.links).zone = ZoneOf(w, b.current)
    /\ b.walking \/ b.phase = "Walking" => Answering(w, b)

LEMMA LitStands ==
    ASSUME NEW w, NEW t, NEW b, InShape(b), Lit(w, t, Walked(b.links)), b.remaining # 0,
           b.phase \in {"Ds", "Dnskey", "Leaf", "Walking"}
    PROVE  Stands(b, Walked(b.links))
<1> DEFINE v == Walked(b.links)
<1>1. Follows(b) /\ Walks(v)
  BY DEF InShape, Lit
<1>2. ~Objected(v) /\ v.verdict # "Unanchored"
  <2> HIDE DEF v
  <2> QED  BY <1>1 DEF Walks, Objected, Objections
<1> QED  BY <1>1, <1>2 DEF Follows, Excused

\* On the path, what is above the name at hand is in force.
LEMMA PathIsClear ==
    ASSUME NEW w \in Worlds, NEW t, Published(w, t)
    PROVE  /\ Clear(w, t, Root)
           /\ \A b : OnPath(w, b) => Clear(w, t, b.current)
<1>1. \A b : OnPath(w, b) => Clear(w, t, b.current)
  <2> TAKE b
  <2> SUFFICES ASSUME OnPath(w, b)  PROVE Clear(w, t, b.current)
    OBVIOUS
  <2>1. MaxHops + 1 - b.remaining \in 0..MaxHops
    BY ValidatorAssumption DEF OnPath
  <2> QED  BY <2>1 DEF OnPath, Published
<1>2. Clear(w, t, Owner)
  <2>1. Way(w)[0] = Owner
    BY VisitedIs, ValidatorAssumption DEF Way
  <2>2. 0 \in 0..MaxHops
    BY ValidatorAssumption
  <2> QED  BY <2>1, <2>2 DEF Published
<1>3. Clear(w, t, Root)
  <2>1. Root \in Name /\ Owner \in Name /\ IsPrefix(Root, Owner) /\ DOMAIN w.cut \subseteq Name
    BY RootAbove, CourierAssumption
  <2>2. \A z \in DOMAIN w.cut : IsPrefix(z, Root) => IsPrefix(z, Owner)
    BY <2>1, PrefixOn
  <2> QED  BY <1>2, <2>2 DEF Clear
<1> QED  BY <1>1, <1>3

\* A record that is there, of a signed zone, is framed unless the chain is at its cap.
LEMMA FramedGiven ==
    ASSUME NEW w \in Worlds, NEW b, Keeps(w, b), b.phase \notin BuildErrors,
           NEW answers, Honest(w, answers), NEW st \in Near(w), NEW n, NEW rtype \in Rtypes,
           Held(answers, n, rtype) = Rrsets(w, st, n, rtype), Rrsets(w, st, n, rtype) # {},
           SigningZone(w, n, rtype) \in DOMAIN w.cut, w.cut[SigningZone(w, n, rtype)].signed
    PROVE  LET f == Framed(b, answers, n, rtype)
           IN  /\ BuilderShaped(f) /\ Like(f, b)
               /\ \/ f.phase = "OversizeChain" /\ ~Going(f)
                  \/ /\ f.phase = b.phase /\ Going(f) /\ Len(b.links) < MaxLinks
                     /\ \E r \in Rrsets(w, st, n, rtype) :
                           /\ r \in Said(w) /\ r.signatures # <<>>
                           /\ f.links = Append(b.links, r)
<1> DEFINE f == Framed(b, answers, n, rtype)
           signed == {r \in Held(answers, n, rtype) : r.signatures # <<>>}
           z == SigningZone(w, n, rtype)
<1>1. /\ BuilderShaped(f) /\ Like(f, b)
      /\ \/ f.phase \in BuildErrors /\ f.links = b.links
         \/ /\ f.phase = b.phase /\ Going(f) /\ Len(b.links) < MaxLinks
            /\ \E r \in Said(w) :
                  /\ r \in Held(answers, n, rtype) /\ r.signatures # <<>>
                  /\ f.links = Append(b.links, r)
  <2> HIDE DEF f
  <2> QED  BY FramedIs DEF f, BuildErrors
<1>2. signed # {}
  <2>1. PICK r \in Rrsets(w, st, n, rtype) : TRUE
    OBVIOUS
  <2>2. r.signatures = Signatures(w, st, z)
    BY GivenIs
  <2>3. z \in DOMAIN w.cut /\ w.cut[z].signed
    OBVIOUS
  <2> HIDE DEF z
  <2>4. Len(KeysAt(st[z])) \in Nat \ {0}
    BY <2>3, KeysMeet
  <2>5. DOMAIN r.signatures = 1..Len(KeysAt(st[z]))
    BY <2>2, <2>3 DEF Signatures
  <2>6. r.signatures # <<>>
    <3>1. 1 \in DOMAIN r.signatures /\ DOMAIN <<>> = {}
      BY <2>4, <2>5
    <3> QED  BY <3>1
  <2> QED  BY <2>6
<1>3. f.phase \in {"OversizeChain", b.phase}
  <2>1. \/ f = [b EXCEPT !.phase = "OversizeChain"]
        \/ f = [b EXCEPT !.links = Append(b.links, CHOOSE r \in signed : TRUE)]
    BY <1>2 DEF Framed, Stopped
  <2>2. BuilderShaped(b)
    BY DEF Keeps
  <2> HIDE DEF f
  <2> QED  BY <2>1, <2>2 DEF BuilderShaped
<1> HIDE DEF f
<1> QED  BY <1>1, <1>3 DEF Going, BuildErrors, f

\* What a zone answers of itself is what there is.
LEMMA ZoneAnswerIs ==
    ASSUME NEW w \in Worlds, NEW st, NEW n, NEW rtype \in {"DNSKEY", "DS"}, NEW hops
    PROVE  LET answers == Answer(w, st, [name |-> n, rtype |-> rtype], hops)
           IN  /\ answers = Rrsets(w, st, n, rtype)
               /\ Held(answers, n, rtype) = Rrsets(w, st, n, rtype)
<1>1. Answer(w, st, [name |-> n, rtype |-> rtype], hops) = Rrsets(w, st, n, rtype)
  BY DEF Answer
<1>2. \A r \in Rrsets(w, st, n, rtype) : r.owner = n /\ r.rtype = rtype
  BY GivenIs DEF Rtypes
<1> QED  BY <1>1, <1>2 DEF Held

\* The next suffix, or the end of a descent, where the deepest cut is the name's zone.
LEMMA CutBright ==
    ASSUME NEW w \in Worlds, NEW t, NEW b, BuilderShaped(b), Aimed(b), OnPath(w, b),
           b.name = b.current, Probing(w, b.name, b.depth + 1, b.deepest),
           IsPrefix(b.deepest, b.name), Lit(w, t, Walked(b.links)),
           Walked(b.links).zone = b.deepest, b.walking => Answering(w, b)
    PROVE  Bright(w, t, NextCut(b))
<1> DEFINE c == NextCut(b)
           v == Walked(b.links)
<1>1. /\ c.links = b.links /\ c.current = b.current /\ c.remaining = b.remaining
      /\ c.name = b.name /\ c.deepest = b.deepest
      /\ \/ b.depth < Len(b.name) /\ c.phase = "Ds" /\ c.depth = b.depth + 1
         \/ c.phase \in {"Walking", "Leaf"} /\ c.zone = b.deepest
  BY NextCutIs
<1>2. /\ c.walking = b.walking /\ c.answers = b.answers
      /\ c.phase = "Walking" => b.walking
  BY NextCutAims
<1>5. c.phase # "Ds" => ~(b.depth < Len(b.name))
  <2>1. b.depth < Len(b.name) => c = [b EXCEPT !.phase = "Ds", !.depth = b.depth + 1]
    BY DEF NextCut
  <2>2. ASSUME NEW d, d = [b EXCEPT !.phase = "Ds", !.depth = b.depth + 1]  PROVE d.phase = "Ds"
    BY <2>2 DEF BuilderShaped
  <2> HIDE DEF c
  <2> QED  BY <2>1, <2>2
<1> HIDE DEF c, v
<1>3. ~(b.depth < Len(b.name)) => ZoneOf(w, b.current) = b.deepest
  <2> SUFFICES ASSUME ~(b.depth < Len(b.name))  PROVE ZoneOf(w, b.current) = b.deepest
    OBVIOUS
  <2>1. \A y \in DOMAIN w.cut : IsPrefix(y, b.name) => Len(y) < b.depth + 1
    <3>1. DOMAIN w.cut \subseteq Name /\ b.name \in Name /\ b.depth = Len(b.name) /\ b.depth \in Nat
      BY CourierAssumption DEF Aimed, Name
    <3>2. \A y \in Name : Len(y) \in Nat
      BY DEF Name
    <3>3. \A y \in DOMAIN w.cut : IsPrefix(y, b.name) => Len(y) <= Len(b.name)
      BY <3>1, PrefixIs
    <3> QED  BY <3>1, <3>2, <3>3
  <2>2. \A y \in DOMAIN w.cut : IsPrefix(y, b.name) => Len(y) <= Len(b.deepest)
    BY <2>1 DEF Probing
  <2>3. b.deepest \in DOMAIN w.cut /\ b.name \in Name
    BY DEF Lit, Aimed
  <2> QED  BY <2>2, <2>3, ZoneIsDeepest
<1>4. OnPath(w, c) /\ (b.walking => Answering(w, c))
  BY <1>1, <1>2 DEF OnPath, Answering
<1>6. c.phase \in {"Ds", "Walking", "Leaf"} /\ (c.walking => Answering(w, c))
  BY <1>1, <1>2, <1>4
<1>7. c.phase = "Ds" => c.name = c.current /\ Probing(w, c.name, c.depth, c.deepest)
  BY <1>1
<1>8. Lit(w, t, Walked(c.links))
  BY <1>1
<1>9. c.phase \in {"Leaf", "Walking"} => Walked(c.links).zone = ZoneOf(w, c.current)
  BY <1>1, <1>3, <1>5
<1>10. c.phase = "Walking" => Answering(w, c)
  BY <1>2, <1>4
<1> QED  BY <1>4, <1>6, <1>7, <1>8, <1>9, <1>10 DEF Bright, Asking, c

\* What is answered in full about zones lets the builder go on, unless the chain is at its cap.
LEMMA DsBright ==
    ASSUME NEW w \in Worlds, NEW t \in Nat, Published(w, t),
           NEW b, Keeps(w, b), Aimed(b), InShape(b), Bright(w, t, b), b.phase = "Ds",
           NEW st \in Near(w), NEW hops, NEW answers, Honest(w, answers),
           answers = Answer(w, st, Question(b), hops)
    PROVE  Bright(w, t, AnswerDs(b, answers)) \/ AnswerDs(b, answers).phase = "OversizeChain"
<1> DEFINE zone == TrimTo(b.name, b.depth)
           f == Framed(b, answers, zone, "DS")
           c == Stopped(f, "Dnskey")
           v == Walked(b.links)
<1>1. /\ BuilderShaped(b) /\ b.links \in Seq(Said(w)) /\ Linked(b)
      /\ Len(b.deepest) < b.depth /\ IsPrefix(b.deepest, b.name)
      /\ OnPath(w, b) /\ b.remaining # 0 /\ b.name = b.current
      /\ Probing(w, b.name, b.depth, b.deepest)
      /\ Lit(w, t, v) /\ (b.walking => Answering(w, b))
  BY ValidatorAssumption DEF Keeps, InShape, Linked, Bright, OnPath
<1>2. v.zone = b.deepest /\ v.pending = <<>>
  <2>1. Stands(b, v)
    BY <1>1, LitStands
  <2> QED  BY <2>1 DEF Stands
<1>3. /\ zone \in Name /\ Len(zone) = b.depth /\ IsPrefix(zone, b.name)
      /\ IsStrictPrefix(b.deepest, zone) /\ zone # Root
      /\ b.deepest \in Name /\ b.name \in Name /\ b.depth \in Nat \ {0} /\ b.deepest # zone
  <2>1. b.deepest \in Name /\ b.name \in Name /\ b.depth \in 1..Len(b.name) /\ Len(b.name) \in Nat
    BY DEF Aimed, Name
  <2>2. /\ zone \in Name /\ Len(zone) = b.depth /\ IsPrefix(zone, b.name)
        /\ IsStrictPrefix(b.deepest, zone)
    BY <1>1, <2>1, TrimIs
  <2> HIDE DEF zone
  <2>3. zone # Root
    BY <2>1, <2>2 DEF Root
  <2> QED  BY <2>1, <2>2, <2>3 DEF IsStrictPrefix
<1>4. DOMAIN w.cut \subseteq Name /\ b.deepest \in DOMAIN w.cut /\ w.cut[b.deepest].signed
  BY <1>1, <1>2, CourierAssumption DEF Lit
<1>5. Held(answers, zone, "DS") = Rrsets(w, st, zone, "DS")
  <2>1. Question(b) = [name |-> zone, rtype |-> "DS"]
    BY DEF Question
  <2> HIDE DEF zone
  <2> QED  BY <2>1, ZoneAnswerIs
<1> HIDE DEF zone, f, v
<1>6. CASE Held(answers, zone, "DS") = {}
  <2>1. AnswerDs(b, answers) = NextCut(b)
    BY <1>6 DEF AnswerDs, zone
  <2>2. zone \notin DOMAIN w.cut
    <3> SUFFICES ASSUME zone \in DOMAIN w.cut  PROVE FALSE
      OBVIOUS
    <3>1. Clear(w, t, b.name)
      BY <1>1, PathIsClear
    <3>2. zone \in Delegated(w)
      BY <1>3, <3>1 DEF Clear, Delegated
    <3> QED  BY <1>5, <1>6, <3>2, GivenWhen
  <2>3. Probing(w, b.name, b.depth + 1, b.deepest)
    <3> SUFFICES ASSUME NEW y \in DOMAIN w.cut, IsPrefix(y, b.name), Len(y) < b.depth + 1
                 PROVE  Len(y) <= Len(b.deepest)
      BY DEF Probing
    <3>1. y \in Name /\ Len(y) \in Nat
      BY <1>4 DEF Name
    <3>2. Len(y) # b.depth
      BY <1>3, <2>2, <3>1, PrefixesOfALength
    <3>3. Len(y) < b.depth
      BY <1>3, <3>1, <3>2
    <3> QED  BY <1>1, <3>3 DEF Probing
  <2>4. Bright(w, t, NextCut(b))
    BY <1>1, <1>2, <2>3, CutBright DEF v
  <2> QED  BY <2>1, <2>4
<1>7. CASE Held(answers, zone, "DS") # {}
  <2>1. zone \in DOMAIN w.cut /\ \A r \in Rrsets(w, st, zone, "DS") : r.data = KeySet(st, zone)
    <3>1. \A r \in Rrsets(w, st, zone, "DS") : zone \in Delegated(w) /\ r.data = KeySet(st, zone)
      BY GivenIs DEF Rtypes
    <3> QED  BY <1>5, <1>7, <3>1 DEF Delegated
  <2>2. ZoneOf(w, Front(zone)) = b.deepest
    <3>1. Front(zone) \in Name /\ Len(Front(zone)) = Len(zone) - 1 /\ IsPrefix(Front(zone), zone)
      BY <1>3, FrontIs
    <3>2. IsPrefix(b.deepest, Front(zone))
      BY <1>3, PrefixOfFront DEF IsStrictPrefix
    <3>3. ASSUME NEW y \in DOMAIN w.cut, IsPrefix(y, Front(zone))
          PROVE  Len(y) <= Len(b.deepest)
      <4>1. y \in Name /\ Len(y) \in Nat
        BY <1>4 DEF Name
      <4>2. IsPrefix(y, zone) /\ Len(y) <= Len(Front(zone))
        BY <3>1, <3>3, <4>1, <1>3, PrefixOn
      <4>3. IsPrefix(y, b.name)
        BY <1>3, <4>1, <4>2, PrefixOn
      <4>4. Len(y) < b.depth
        BY <1>3, <3>1, <4>1, <4>2
      <4> QED  BY <1>1, <4>3, <4>4 DEF Probing
    <3> QED  BY <1>4, <3>1, <3>2, <3>3, ZoneIsDeepest
  <2>3. SigningZone(w, zone, "DS") = b.deepest
    BY <2>2 DEF SigningZone
  <2>4. /\ BuilderShaped(f) /\ Like(f, b)
        /\ \/ f.phase = "OversizeChain" /\ ~Going(f)
           \/ /\ f.phase = b.phase /\ Going(f) /\ Len(b.links) < MaxLinks
              /\ \E r \in Rrsets(w, st, zone, "DS") :
                    /\ r \in Said(w) /\ r.signatures # <<>>
                    /\ f.links = Append(b.links, r)
    <3>1. /\ b.phase \notin BuildErrors /\ "DS" \in Rtypes
          /\ SigningZone(w, zone, "DS") \in DOMAIN w.cut /\ w.cut[SigningZone(w, zone, "DS")].signed
          /\ Rrsets(w, st, zone, "DS") # {}
      BY <1>4, <1>5, <1>7, <2>3 DEF BuildErrors, Rtypes
    <3> QED  BY <1>5, <3>1, FramedGiven DEF f
  <2>5. AnswerDs(b, answers) = IF Going(f) THEN c ELSE f
    BY <1>7 DEF AnswerDs, Stopped, zone, f
  <2>6. CASE ~Going(f)
    BY <2>4, <2>5, <2>6
  <2>7. CASE Going(f)
    <3>1. PICK r \in Rrsets(w, st, zone, "DS") :
             r \in Said(w) /\ r.signatures # <<>> /\ f.links = Append(b.links, r) /\ Len(b.links) < MaxLinks
      BY <2>4, <2>7
    <3>2. /\ c.phase = "Dnskey" /\ c.links = f.links /\ c.name = b.name /\ c.depth = b.depth
          /\ c.deepest = b.deepest /\ c.current = b.current /\ c.remaining = b.remaining
          /\ c.walking = b.walking /\ c.answers = b.answers
      BY <2>4 DEF Stopped, BuilderShaped, Like, SameAim
    <3> HIDE DEF c
    <3>3. Walked(c.links) = Step(v, r)
      BY <1>1, <3>1, <3>2, FramesOn DEF Linked, v
    <3>4. Lit(w, t, Step(v, r)) /\ Step(v, r).pending = <<r>>
      <4>1. IsStrictPrefix(v.zone, zone) /\ ZoneOf(w, Front(zone)) = v.zone
        BY <1>2, <1>3, <2>2
      <4> QED  BY <1>1, <1>2, <4>1, DelegationLit DEF v
    <3>5. /\ OnPath(w, c) /\ c.name = c.current /\ Probing(w, c.name, c.depth, c.deepest)
          /\ (c.walking => Answering(w, c))
      BY <1>1, <3>2 DEF OnPath, Answering
    <3>6. /\ TrimTo(c.name, c.depth) \in DOMAIN w.cut
          /\ Walked(c.links).pending[1].data = KeySet(st, TrimTo(c.name, c.depth))
      <4>1. TrimTo(c.name, c.depth) = zone
        BY <3>2 DEF zone
      <4>2. Walked(c.links).pending[1] = r
        BY <3>3, <3>4
      <4> QED  BY <2>1, <4>1, <4>2
    <3>7. Bright(w, t, c)
      BY <3>2, <3>3, <3>4, <3>5, <3>6 DEF Bright, Asking
    <3> QED  BY <2>5, <2>7, <3>7
  <2> QED  BY <2>6, <2>7
<1> QED  BY <1>6, <1>7

LEMMA KeysBright ==
    ASSUME NEW w \in Worlds, NEW t \in Nat, Published(w, t),
           NEW b, Keeps(w, b), Aimed(b), InShape(b), Bright(w, t, b), b.phase = "Dnskey",
           NEW st \in Near(w), NEW hops, NEW answers, Honest(w, answers),
           answers = Answer(w, st, Question(b), hops)
    PROVE  \/ Bright(w, t, AnswerDnskey(b, answers))
           \/ AnswerDnskey(b, answers).phase = "OversizeChain"
<1> DEFINE zone == TrimTo(b.name, b.depth)
           f == Framed(b, answers, zone, "DNSKEY")
           v == Walked(b.links)
<1>1. /\ BuilderShaped(b) /\ b.links \in Seq(Said(w)) /\ Linked(b)
      /\ OnPath(w, b) /\ b.remaining # 0 /\ b.name = b.current
      /\ Probing(w, b.name, b.depth, b.deepest)
      /\ Lit(w, t, v) /\ (b.walking => Answering(w, b)) /\ zone \in DOMAIN w.cut
  BY ValidatorAssumption DEF Keeps, InShape, Linked, Bright, OnPath
<1>2. PICK old \in Near(w) : v.pending[1].data = KeySet(old, zone)
  BY DEF Bright
<1>3. v.pending # <<>> /\ v.pending[1].owner = zone
  <2>1. Stands(b, v)
    BY <1>1, LitStands
  <2> QED  BY <2>1 DEF Stands
<1>4. /\ zone \in Name /\ Len(zone) = b.depth /\ IsPrefix(zone, b.name)
      /\ b.name \in Name /\ b.depth \in 1..Len(b.name) /\ b.depth \in Nat
  <2>1. b.name \in Name /\ b.depth \in 1..Len(b.name) /\ Len(b.name) \in Nat
    BY DEF Aimed, Name
  <2> QED  BY <2>1, TrimIs
<1>5. Held(answers, zone, "DNSKEY") = Rrsets(w, st, zone, "DNSKEY")
  <2>1. Question(b) = [name |-> zone, rtype |-> "DNSKEY"]
    BY DEF Question
  <2> HIDE DEF zone
  <2> QED  BY <2>1, ZoneAnswerIs
<1>0. f = Framed(b, answers, zone, "DNSKEY") /\ zone = TrimTo(b.name, b.depth)
  OBVIOUS
<1>15. AnswerDnskey(b, answers) = IF Going(f) THEN NextCut([f EXCEPT !.deepest = zone]) ELSE f
  BY DEF AnswerDnskey
<1> HIDE DEF zone, f, v
<1>6. DOMAIN w.cut \subseteq Name
  BY CourierAssumption
<1>7. Clear(w, t, b.name)
  BY <1>1, PathIsClear
<1>8. w.cut[zone].signed /\ Rrsets(w, st, zone, "DNSKEY") # {}
  <2>1. w.cut[zone].signed
    BY <1>1, <1>4, <1>7 DEF Clear
  <2> QED  BY <1>1, <2>1, GivenWhen DEF Signing
<1>9. SigningZone(w, zone, "DNSKEY") = zone
  <2>1. IsPrefix(zone, zone)
    BY <1>4, PrefixIs DEF Name
  <2>2. \A y \in DOMAIN w.cut : IsPrefix(y, zone) => Len(y) <= Len(zone)
    BY <1>4, <1>6, PrefixIs
  <2> QED  BY <1>1, <1>4, <2>1, <2>2, ZoneIsDeepest DEF SigningZone
<1>10. /\ BuilderShaped(f) /\ Like(f, b)
       /\ \/ f.phase = "OversizeChain" /\ ~Going(f)
          \/ /\ f.phase = b.phase /\ Going(f) /\ Len(b.links) < MaxLinks
             /\ \E r \in Rrsets(w, st, zone, "DNSKEY") :
                   /\ r \in Said(w) /\ r.signatures # <<>>
                   /\ f.links = Append(b.links, r)
  <2>1. b.phase \notin BuildErrors /\ "DNSKEY" \in Rtypes
    BY DEF BuildErrors, Rtypes
  <2> QED  BY <1>0, <1>1, <1>5, <1>8, <1>9, <2>1, FramedGiven
<1>11. CASE ~Going(f)
  BY <1>10, <1>11, <1>15
<1>12. CASE Going(f)
  <2>1. PICK r \in Rrsets(w, st, zone, "DNSKEY") :
           r \in Said(w) /\ r.signatures # <<>> /\ f.links = Append(b.links, r) /\ Len(b.links) < MaxLinks
    BY <1>10, <1>12
  <2>2. PICK c : c = [f EXCEPT !.deepest = zone]
    OBVIOUS
  <2>3. /\ BuilderShaped(c) /\ c.links = f.links /\ c.name = b.name
        /\ c.depth = b.depth /\ c.deepest = zone /\ c.zone = b.zone /\ c.current = b.current
        /\ c.remaining = b.remaining /\ c.walking = b.walking /\ c.answers = b.answers
    BY <1>10, <2>2 DEF BuilderShaped, Like, SameAim
  <2>4. Walked(c.links) = Step(v, r)
    BY <1>1, <2>1, <2>3, FramesOn DEF Linked, v
  <2>5. Clear(w, t, zone)
    <3>1. \A y \in DOMAIN w.cut : IsPrefix(y, zone) => IsPrefix(y, b.name)
      BY <1>4, <1>6, PrefixOn
    <3> QED  BY <1>7, <3>1 DEF Clear
  <2>6. Lit(w, t, Step(v, r))
    BY <1>1, <1>2, <1>3, <1>4, <2>5, DescendLit
  <2>7. Step(v, r).zone = zone
    <3>1. r.owner = zone /\ r.rtype = "DNSKEY"
      BY GivenIs DEF Rtypes
    <3>2. Shaped(v) /\ Walks(v)
      BY <1>1 DEF Lit
    <3>3. ~Objected(Step(v, r))
      BY <2>6 DEF Lit, Walks, Objected, Objections
    <3> QED  BY <1>3, <3>1, <3>2, <3>3, DescendStep
  <2>8. Probing(w, c.name, c.depth + 1, c.deepest)
    <3> SUFFICES ASSUME NEW y \in DOMAIN w.cut, Len(y) < c.depth + 1
                 PROVE  Len(y) <= Len(c.deepest)
      BY DEF Probing
    <3>1. Len(y) \in Nat
      BY <1>6 DEF Name
    <3> QED  BY <1>4, <2>3, <3>1
  <2>9. Aimed(c) /\ OnPath(w, c) /\ c.name = c.current /\ IsPrefix(c.deepest, c.name)
        /\ (c.walking => Answering(w, c))
    BY <1>1, <1>4, <2>3 DEF Aimed, OnPath, Answering
  <2>10. Bright(w, t, NextCut(c))
    BY <2>3, <2>4, <2>6, <2>7, <2>8, <2>9, CutBright
  <2> QED  BY <1>12, <1>15, <2>2, <2>10
<1> QED  BY <1>11, <1>12

LEMMA RootBright ==
    ASSUME NEW w \in Worlds, NEW t \in Nat, Published(w, t),
           NEW b, Keeps(w, b), InShape(b), Bright(w, t, b), b.phase = "RootKeys",
           NEW st \in Near(w), NEW hops, NEW answers, Honest(w, answers),
           answers = Answer(w, st, Question(b), hops)
    PROVE  \/ Bright(w, t, AnswerRootKeys(b, answers))
           \/ AnswerRootKeys(b, answers).phase = "OversizeChain"
<1> DEFINE f == Framed(b, answers, Root, "DNSKEY")
           c == DescendInto(f, Owner, 1, Root)
<1>1. /\ BuilderShaped(b) /\ b.links = <<>> /\ b.current = Owner /\ b.remaining = MaxHops + 1
      /\ OnPath(w, b) /\ (b.walking => Answering(w, b))
  BY DEF Keeps, InShape, Bright
<1>2. /\ Root \in Name /\ IsPrefix(Root, Root) /\ Root \in DOMAIN w.cut /\ w.cut[Root].signed
      /\ DOMAIN w.cut \subseteq Name
  BY RootAbove, CourierAssumption
<1>3. Held(answers, Root, "DNSKEY") = Rrsets(w, st, Root, "DNSKEY")
  <2>1. Question(b) = [name |-> Root, rtype |-> "DNSKEY"]
    BY DEF Question
  <2> QED  BY <2>1, ZoneAnswerIs
<1>4. SigningZone(w, Root, "DNSKEY") = Root
  <2>1. \A y \in DOMAIN w.cut : IsPrefix(y, Root) => Len(y) <= Len(Root)
    BY <1>2, PrefixIs
  <2> QED  BY <1>2, <2>1, ZoneIsDeepest DEF SigningZone
<1>5. Rrsets(w, st, Root, "DNSKEY") # {}
  BY <1>2, GivenWhen DEF Signing
<1>6. AnswerRootKeys(b, answers) = IF Going(f) THEN c ELSE f
  BY DEF AnswerRootKeys
<1>7. /\ BuilderShaped(f) /\ Like(f, b)
      /\ \/ f.phase = "OversizeChain" /\ ~Going(f)
         \/ /\ f.phase = b.phase /\ Going(f) /\ Len(b.links) < MaxLinks
            /\ \E r \in Rrsets(w, st, Root, "DNSKEY") :
                  /\ r \in Said(w) /\ r.signatures # <<>>
                  /\ f.links = Append(b.links, r)
  <2>1. b.phase \notin BuildErrors /\ "DNSKEY" \in Rtypes
    BY DEF BuildErrors, Rtypes
  <2> QED  BY <1>2, <1>3, <1>4, <1>5, <2>1, FramedGiven
<1> HIDE DEF f
<1>8. CASE ~Going(f)
  BY <1>6, <1>7, <1>8
<1>9. CASE Going(f)
  <2>1. PICK r \in Rrsets(w, st, Root, "DNSKEY") : r \in Said(w) /\ f.links = Append(b.links, r)
    BY <1>7, <1>9
  <2>2. /\ c.phase = "Ds" /\ c.name = Owner /\ c.depth = 1 /\ c.deepest = Root
        /\ c.links = f.links /\ c.current = Owner /\ c.remaining = b.remaining
        /\ c.walking = b.walking /\ c.answers = b.answers
    <3>1. ASSUME NEW d, d = [f EXCEPT !.phase = "Ds", !.name = Owner, !.depth = 1, !.deepest = Root]
          PROVE  /\ d.phase = "Ds" /\ d.name = Owner /\ d.depth = 1 /\ d.deepest = Root
                 /\ d.links = f.links /\ d.current = f.current /\ d.remaining = f.remaining
                 /\ d.walking = f.walking /\ d.answers = f.answers
      BY <1>7, <3>1 DEF BuilderShaped
    <3>2. /\ c.phase = "Ds" /\ c.name = Owner /\ c.depth = 1 /\ c.deepest = Root
          /\ c.links = f.links /\ c.current = f.current /\ c.remaining = f.remaining
          /\ c.walking = f.walking /\ c.answers = f.answers
      BY <3>1 DEF DescendInto
    <3> HIDE DEF c
    <3> QED  BY <1>1, <1>7, <3>2 DEF Like, SameAim
  <2> HIDE DEF c
  <2>3. Walked(c.links) = EnterAnchored(Owner, r)
    <3>1. <<>> \in Seq(Said(w))
      OBVIOUS
    <3> QED  BY <1>1, <2>1, <2>2, <3>1, WalkedOn
  <2>4. Lit(w, t, Walked(c.links))
    <3>1. t <= Horizon
      BY ValidatorAssumption DEF Published
    <3> QED  BY <2>3, <3>1, PathIsClear, EnterLit
  <2>5. Probing(w, c.name, c.depth, c.deepest)
    <3>1. Len(Root) = 0 /\ \A y \in DOMAIN w.cut : Len(y) \in Nat
      BY <1>2 DEF Root, Name
    <3>2. \A y \in DOMAIN w.cut : Len(y) < 1 => Len(y) <= Len(Root)
      BY <3>1
    <3> QED  BY <2>2, <3>2 DEF Probing
  <2>6. OnPath(w, c) /\ (c.walking => Answering(w, c))
    BY <1>1, <2>2 DEF OnPath, Answering
  <2>7. Bright(w, t, c)
    BY <2>2, <2>4, <2>5, <2>6 DEF Bright, Asking
  <2> QED  BY <1>6, <1>9, <2>7
<1> QED  BY <1>8, <1>9

LEMMA LeafBright ==
    ASSUME NEW w \in Worlds, NEW t, NEW b, BuilderShaped(b), Bright(w, t, b), b.phase = "Leaf",
           NEW st \in Near(w), NEW answers, answers = Answer(w, st, Question(b), MaxHops + 1)
    PROVE  Bright(w, t, AnswerLeaf(b, answers))
<1>1. PICK c : c = AnswerLeaf(b, answers)
  OBVIOUS
<1>2. /\ c.phase = "Walking" /\ c.links = b.links /\ c.current = b.current
      /\ c.remaining = b.remaining /\ c.answers = answers
  BY <1>1 DEF AnswerLeaf, BuilderShaped
<1>3. Answering(w, c)
  <2>1. Question(b) = LeafQuestion
    BY DEF Question, LeafQuestion
  <2> QED  BY <1>2, <2>1 DEF Answering
<1>4. OnPath(w, c)
  BY <1>2 DEF Bright, OnPath
<1>5. Bright(w, t, c)
  BY <1>2, <1>3, <1>4 DEF Bright
<1> QED  BY <1>1, <1>5

\* The leaf's answer holds all that there is at the names on the path.
LEMMA WholeHolds ==
    ASSUME NEW w \in Worlds, NEW st, NEW k \in 0..MaxHops, NEW rtype \in {"CNAME", "TXT"}
    PROVE  LET n == Way(w)[k]
           IN  Held(Answer(w, st, LeafQuestion, MaxHops + 1), n, rtype) = Rrsets(w, st, n, rtype)
<1> DEFINE n == Way(w)[k]
           on == Visited(w, Owner, MaxHops + 1)
           answers == Answer(w, st, LeafQuestion, MaxHops + 1)
           At(m) == Rrsets(w, st, m, "CNAME") \cup Rrsets(w, st, m, "TXT")
<1>1. answers = UNION {At(m) : m \in Range(on)}
  BY DEF Answer, LeafQuestion
<1>2. n \in Range(on)
  <2>1. DOMAIN on = 0..(MaxHops + 1) /\ on[k] = n
    <3>1. MaxHops \in Nat /\ MaxHops + 1 \in Nat
      BY ValidatorAssumption
    <3> QED  BY <3>1, VisitedIs, PathsAgree DEF Way
  <2>2. k \in 0..(MaxHops + 1)
    BY ValidatorAssumption
  <2> HIDE DEF on, n
  <2> QED  BY <2>1, <2>2 DEF Range
<1>3. \A m : \A r \in At(m) : r.owner = m
  BY GivenIs DEF Rtypes
<1>4. \A m : /\ \A r \in Rrsets(w, st, m, "CNAME") : r.rtype = "CNAME"
             /\ \A r \in Rrsets(w, st, m, "TXT") : r.rtype = "TXT"
  BY GivenIs DEF Rtypes
<1> HIDE DEF n, on, answers
<1>5. Held(answers, n, rtype) \subseteq Rrsets(w, st, n, rtype)
  BY <1>1, <1>3, <1>4 DEF Held
<1>6. Rrsets(w, st, n, rtype) \subseteq Held(answers, n, rtype)
  BY <1>1, <1>2, <1>3, <1>4 DEF Held
<1> QED  BY <1>5, <1>6 DEF n, answers

\* An alias, with its turn taken.
LEMMA AliasBright ==
    ASSUME NEW w \in Worlds, NEW t \in Nat, Published(w, t),
           NEW b, Keeps(w, b), Aimed(b), Linked(b), b.phase = "Walking", Answering(w, b),
           Lit(w, t, Walked(b.links)), AtName(b, Walked(b.links)),
           Walked(b.links).hops + b.remaining = MaxHops,
           b.current = Way(w)[Walked(b.links).hops], b.current \in Name,
           Walked(b.links).zone = ZoneOf(w, b.current),
           Held(b.answers, b.current, "CNAME") # {}
    PROVE  Bright(w, t, FollowAlias(b)) \/ FollowAlias(b).phase = "OversizeChain"
<1> DEFINE f == Framed(b, b.answers, b.current, "CNAME")
           r0 == CHOOSE r \in Held(b.answers, b.current, "CNAME") : TRUE
           target == r0.data
           base == IF IsPrefix(b.zone, target) THEN b.zone ELSE Root
           next == [f EXCEPT !.current = target]
           v == Walked(b.links)
<1>0. f = Framed(b, b.answers, b.current, "CNAME") /\ v = Walked(b.links)
  OBVIOUS
<1>1. /\ BuilderShaped(b) /\ b.links \in Seq(Said(w)) /\ b.remaining \in Nat
      /\ Honest(w, b.answers) /\ v.hops \in Nat /\ MaxHops \in Nat /\ v.hops \in 0..MaxHops
  <2>1. v.hops \in Nat /\ b.remaining \in Nat
    BY DEF AtName, Keeps
  <2> HIDE DEF v
  <2>2. v.hops + b.remaining = MaxHops
    BY DEF v
  <2>3. v.hops \in 0..MaxHops
    BY <2>1, <2>2, ValidatorAssumption
  <2> QED  BY <2>1, <2>3, ValidatorAssumption DEF Keeps
<1>2. PICK st \in Near(w) : b.answers = Answer(w, st, LeafQuestion, MaxHops + 1)
  BY DEF Answering
<1>3. Held(b.answers, b.current, "CNAME") = Rrsets(w, st, b.current, "CNAME")
  BY <1>1, <1>2, WholeHolds
<1>4. /\ b.current \in DOMAIN w.alias /\ target = w.alias[b.current] /\ target \in Name
      /\ b.current # Root
  <2>1. r0 \in Rrsets(w, st, b.current, "CNAME")
    BY <1>3
  <2> HIDE DEF r0
  <2>2. b.current \in DOMAIN w.alias /\ r0.data = w.alias[b.current]
    BY <2>1, GivenIs DEF Rtypes
  <2> QED  BY <2>2, CourierAssumption
<1>5. /\ v.hops + 1 \in 0..MaxHops /\ v.hops < MaxHops /\ Way(w)[v.hops + 1] = target
  <2>1. Way(w)[MaxHops] \notin DOMAIN w.alias
    BY CourierAssumption DEF Published
  <2>2. v.hops # MaxHops
    BY <1>4, <2>1
  <2> HIDE DEF v
  <2>3. v.hops + 1 \in 1..MaxHops /\ v.hops < MaxHops /\ v.hops + 1 - 1 = v.hops
    BY <1>1, <2>2
  <2>4. Way(w)[v.hops + 1] = Onward(w, Way(w)[v.hops])
    <3>1. \A i \in 1..MaxHops : \A j : i - 1 = j => Way(w)[i] = Onward(w, Way(w)[j])
      BY <1>1, VisitedIs DEF Way
    <3>2. PICK i \in 1..MaxHops, j \in Nat : i = v.hops + 1 /\ j = v.hops
      BY <1>1, <2>3
    <3>3. i - 1 = j
      BY <1>1, <3>2
    <3>4. Way(w)[i] = Onward(w, Way(w)[j])
      BY <3>1, <3>3, Zenon
    <3> QED  BY <3>2, <3>4
  <2> QED  BY <1>4, <2>3, <2>4 DEF Onward, v
<1> HIDE DEF v
<1>6. /\ v.zone = b.zone /\ v.pending = <<>> /\ v.target = b.current /\ Shaped(v) /\ Walks(v)
      /\ v.zone \in DOMAIN w.cut /\ w.cut[v.zone].signed /\ Lit(w, t, v)
      /\ SigningZone(w, b.current, "CNAME") = v.zone
  BY <1>4 DEF AtName, Lit, SigningZone, v
<1>7. base \in Name /\ IsPrefix(base, target) /\ Len(base) \in Nat /\ Len(target) \in Nat
  <2>1. Root \in Name /\ IsPrefix(Root, target)
    BY <1>4, RootAbove
  <2> QED  BY <1>4, <2>1 DEF Aimed, Name
<1>8. \/ ~Going(f) /\ FollowAlias(b) = f
      \/ Going(f) /\ Len(base) < Len(target)
           /\ FollowAlias(b) = DescendInto(next, target, Len(base) + 1, base)
      \/ Going(f) /\ ~(Len(base) < Len(target)) /\ FollowAlias(b) = next
  BY DEF FollowAlias
<1> HIDE DEF f
<1>9. /\ BuilderShaped(f) /\ Like(f, b)
      /\ \/ f.phase = "OversizeChain" /\ ~Going(f)
         \/ /\ f.phase = b.phase /\ Going(f) /\ Len(b.links) < MaxLinks
            /\ \E r \in Rrsets(w, st, b.current, "CNAME") :
                  /\ r \in Said(w) /\ r.signatures # <<>>
                  /\ f.links = Append(b.links, r)
  <2>1. b.phase \notin BuildErrors /\ "CNAME" \in Rtypes
    BY DEF BuildErrors, Rtypes
  <2>2. Rrsets(w, st, b.current, "CNAME") # {}
    BY <1>3
  <2> QED  BY <1>0, <1>1, <1>3, <1>6, <2>1, <2>2, FramedGiven
<1>14. base = IF IsPrefix(v.zone, target) THEN v.zone ELSE Root
  BY <1>6
<1> HIDE DEF r0, target, base
<1>10. CASE ~Going(f)
  BY <1>8, <1>9, <1>10
<1>11. CASE Going(f)
  <2>1. PICK r \in Rrsets(w, st, b.current, "CNAME") :
           r \in Said(w) /\ r.signatures # <<>> /\ f.links = Append(b.links, r) /\ Len(b.links) < MaxLinks
    BY <1>9, <1>11
  <2>2. /\ BuilderShaped(next) /\ next.phase = "Walking" /\ next.links = f.links
        /\ next.zone = b.zone /\ next.current = target /\ next.remaining = b.remaining
        /\ next.walking = b.walking /\ next.answers = b.answers
    BY <1>9, <1>11 DEF BuilderShaped, Like, SameAim, Going
  <2> HIDE DEF next
  <2>3. Walked(next.links) = Step(v, r)
    BY <1>1, <2>1, <2>2, FramesOn DEF Linked, v
  <2>4. Lit(w, t, Step(v, r))
    BY <1>1, <1>5, <1>6, PathIsClear, AliasLit DEF v
  <2>5. Step(v, r).zone = base
    <3>1. r.owner = v.target /\ r.rtype = "CNAME" /\ r.data = target
      BY <1>4, <1>6, GivenIs DEF Rtypes
    <3>2. ~Objected(Step(v, r))
      BY <2>4 DEF Lit, Walks, Objected, Objections
    <3>3. Step(v, r).zone = (IF IsPrefix(v.zone, r.data) THEN v.zone ELSE Root)
      BY <1>1, <1>5, <1>6, <3>1, <3>2, AliasStep
    <3> QED  BY <1>14, <3>1, <3>3
  <2>6. OnPath(w, next) /\ Answering(w, next)
    <3>1. v.hops + b.remaining = MaxHops
      BY DEF v
    <3>2. MaxHops + 1 - b.remaining = v.hops + 1 /\ b.remaining \in 1..(MaxHops + 1)
      BY <1>1, <1>5, <3>1
    <3> QED  BY <1>4, <1>5, <2>2, <3>2 DEF OnPath, Answering
  <2>7. CASE /\ Len(base) < Len(target)
             /\ FollowAlias(b) = DescendInto(next, target, Len(base) + 1, base)
    <3>1. PICK c : c = DescendInto(next, target, Len(base) + 1, base)
      OBVIOUS
    <3>2. /\ c.phase = "Ds" /\ c.name = target /\ c.depth = Len(base) + 1 /\ c.deepest = base
          /\ c.links = next.links /\ c.current = next.current /\ c.remaining = next.remaining
          /\ c.answers = next.answers
      BY <2>2, <3>1 DEF DescendInto, BuilderShaped
    <3>3. Probing(w, c.name, c.depth, c.deepest)
      <4>1. \A y \in DOMAIN w.cut : Len(y) \in Nat
        BY CourierAssumption DEF Name
      <4> QED  BY <1>7, <3>2, <4>1 DEF Probing
    <3>4. OnPath(w, c) /\ Answering(w, c) /\ c.name = c.current
      BY <2>2, <2>6, <3>2 DEF OnPath, Answering
    <3>5. Bright(w, t, c)
      BY <2>3, <2>4, <3>2, <3>3, <3>4 DEF Bright, Asking
    <3> QED  BY <2>7, <3>1, <3>5
  <2>8. CASE ~(Len(base) < Len(target)) /\ FollowAlias(b) = next
    <3>1. IsPrefix(target, target) /\ Len(base) <= Len(target)
      BY <1>4, <1>7, PrefixIs
    <3>2. Len(base) = Len(target)
      BY <1>7, <2>8, <3>1
    <3>3. base = target
      BY <1>4, <1>7, <3>1, <3>2, PrefixesOfALength
    <3>4. target \in DOMAIN w.cut
      BY <2>4, <2>5, <3>3 DEF Lit
    <3>5. \A y \in DOMAIN w.cut : IsPrefix(y, target) => Len(y) <= Len(target)
      BY <1>4, PrefixIs, CourierAssumption
    <3>6. ZoneOf(w, target) = target
      BY <1>4, <3>1, <3>4, <3>5, ZoneIsDeepest
    <3>7. Walked(next.links).zone = ZoneOf(w, next.current)
      BY <2>2, <2>3, <2>5, <3>3, <3>6
    <3>8. Bright(w, t, next)
      BY <2>2, <2>3, <2>4, <2>6, <3>7 DEF Bright
    <3> QED  BY <2>8, <3>8
  <2> QED  BY <1>8, <1>11, <2>7, <2>8
<1> QED  BY <1>10, <1>11

LEMMA TurnBright ==
    ASSUME NEW w \in Worlds, NEW t \in Nat, Published(w, t),
           NEW b, Keeps(w, b), Aimed(b), InShape(b), Bright(w, t, b), b.phase = "Walking", NEW i
    PROVE  Bright(w, t, Turn(b, i)) \/ Turn(b, i).phase = "OversizeChain"
<1> DEFINE here == [b EXCEPT !.remaining = @ - 1]
           f == Framed(here, b.answers, b.current, "TXT")
           v == Walked(b.links)
<1>1. /\ BuilderShaped(b) /\ b.links \in Seq(Said(w)) /\ Honest(w, b.answers) /\ Linked(b)
      /\ b.remaining \in Nat /\ b.remaining # 0 /\ MaxHops \in Nat /\ b.remaining <= MaxHops + 1
      /\ b.current \in Name /\ b.current = Way(w)[MaxHops + 1 - b.remaining]
      /\ Lit(w, t, v) /\ Answering(w, b) /\ v.zone = ZoneOf(w, b.current)
  BY ValidatorAssumption DEF Keeps, InShape, Linked, Bright, OnPath
<1>2. /\ v.target = b.current /\ v.hops \in Nat /\ v.hops + b.remaining = MaxHops + 1
      /\ v.pending = <<>> /\ Shaped(v) /\ Walks(v)
      /\ v.zone = b.zone \/ (v.zone = Root /\ b.current = Root)
  <2>1. Stands(b, v)
    BY <1>1, LitStands
  <2> HIDE DEF v
  <2> QED  BY <2>1 DEF Stands
<1>0. v = Walked(b.links)
  OBVIOUS
<1> HIDE DEF v
<1>3. /\ v.hops = MaxHops + 1 - b.remaining /\ v.hops \in 0..MaxHops
      /\ b.current = Way(w)[v.hops]
  <2>1. v.hops = MaxHops + 1 - b.remaining /\ v.hops \in 0..MaxHops
    BY <1>1, <1>2
  <2> QED  BY <1>1, <2>1
<1>4. PICK st \in Near(w) : b.answers = Answer(w, st, LeafQuestion, MaxHops + 1)
  BY <1>1 DEF Answering
<1>5. /\ Held(b.answers, b.current, "CNAME") = Rrsets(w, st, b.current, "CNAME")
      /\ Held(b.answers, b.current, "TXT") = Rrsets(w, st, b.current, "TXT")
  BY <1>3, <1>4, WholeHolds
\* Off the aliases, the path is at its end.
<1>6. b.current \notin DOMAIN w.alias => b.current \in w.txt \ w.wild
  <2> SUFFICES ASSUME b.current \notin DOMAIN w.alias  PROVE b.current \in w.txt \ w.wild
    OBVIOUS
  <2>1. \A k \in (v.hops)..MaxHops : Way(w)[k] = Way(w)[v.hops]
    BY <1>1, <1>3, PathEnds DEF Way
  <2>2. MaxHops \in (v.hops)..MaxHops
    BY <1>1, <1>3
  <2> QED  BY <1>3, <2>1, <2>2 DEF Published
<1>7. \/ Going(f) /\ Held(b.answers, b.current, "TXT") # {} /\ Turn(b, i) = Stopped(f, "Done")
      \/ ~Going(f) /\ Held(b.answers, b.current, "TXT") # {} /\ Turn(b, i) = f
      \/ Held(b.answers, b.current, "TXT") = {} /\ Held(b.answers, b.current, "CNAME") = {}
      \/ Held(b.answers, b.current, "CNAME") # {} /\ Turn(b, i) = FollowAlias(here)
  BY <1>1 DEF Turn
<1>8. /\ BuilderShaped(here) /\ here.links = b.links /\ here.answers = b.answers
      /\ here.name = b.name /\ here.depth = b.depth /\ here.zone = b.zone
      /\ here.deepest = b.deepest /\ here.current = b.current /\ here.walking = b.walking
      /\ here.remaining = b.remaining - 1 /\ here.phase = "Walking"
  BY <1>1 DEF BuilderShaped
<1>9. f = Framed(here, b.answers, b.current, "TXT")
  OBVIOUS
<1> HIDE DEF here, f
<1>10. Keeps(w, here) /\ Aimed(here) /\ Linked(here) /\ Answering(w, here)
  <2>1. b.remaining - 1 \in Nat
    BY <1>1
  <2> QED  BY <1>1, <1>8, <2>1 DEF Keeps, Aimed, Linked, Answering
<1>11. CASE Held(b.answers, b.current, "TXT") # {} /\ (Going(f) \/ Turn(b, i) = f)
  <2>1. b.current \in w.txt /\ b.current \notin DOMAIN w.alias
    <3>1. b.current \in w.txt
      BY <1>5, <1>11, GivenIs DEF Rtypes
    <3> QED  BY <3>1, CourierAssumption
  <2>2. b.current \notin w.wild
    BY <1>6, <2>1
  <2>3. /\ SigningZone(w, b.current, "TXT") = v.zone /\ v.zone \in DOMAIN w.cut
        /\ w.cut[v.zone].signed
    BY <1>1 DEF SigningZone, Lit
  <2>4. /\ BuilderShaped(f) /\ Like(f, here)
        /\ \/ f.phase = "OversizeChain" /\ ~Going(f)
           \/ /\ f.phase = here.phase /\ Going(f) /\ Len(here.links) < MaxLinks
              /\ \E r \in Rrsets(w, st, b.current, "TXT") :
                    /\ r \in Said(w) /\ r.signatures # <<>>
                    /\ f.links = Append(here.links, r)
    <3>1. here.phase \notin BuildErrors /\ "TXT" \in Rtypes
      BY <1>8 DEF BuildErrors, Rtypes
    <3>2. Rrsets(w, st, b.current, "TXT") # {}
      BY <1>5, <1>11
    <3> QED  BY <1>1, <1>5, <1>9, <1>10, <2>3, <3>1, <3>2, FramedGiven
  <2>5. CASE ~Going(f)
    BY <1>11, <2>4, <2>5
  <2>6. CASE Going(f) /\ Turn(b, i) = Stopped(f, "Done")
    <3>1. PICK r \in Rrsets(w, st, b.current, "TXT") :
             /\ r \in Said(w) /\ r.signatures # <<>>
             /\ f.links = Append(b.links, r) /\ Len(b.links) < MaxLinks
      BY <1>8, <2>4, <2>6
    <3>2. PICK c : c = Stopped(f, "Done")
      OBVIOUS
    <3>3. c.phase = "Done" /\ c.links = Append(b.links, r) /\ c.answers = b.answers
      BY <1>8, <2>4, <3>1, <3>2 DEF Stopped, BuilderShaped, Like, SameAim
    <3>4. Walked(c.links) = Step(v, r)
      BY <1>0, <1>1, <3>1, <3>3, FramesOn DEF Linked
    <3>5. Step(v, r).verdict = "Proven"
      BY <1>1, <1>2, <2>2, LeafProven
    <3>6. Answering(w, c)
      BY <1>1, <3>3 DEF Answering
    <3>7. Bright(w, t, c)
      BY <3>3, <3>4, <3>5, <3>6 DEF Bright
    <3> QED  BY <2>6, <3>2, <3>7
  <2>7. CASE Going(f) /\ Turn(b, i) # Stopped(f, "Done")
    <3>1. Turn(b, i) = IF Going(f) THEN Stopped(f, "Done") ELSE f
      BY <1>1, <1>11 DEF Turn, f, here
    <3> QED  BY <2>7, <3>1
  <2> QED  BY <2>5, <2>6, <2>7
<1>12. CASE Held(b.answers, b.current, "TXT") = {} /\ Held(b.answers, b.current, "CNAME") = {}
  <2>1. b.current \notin DOMAIN w.alias /\ b.current \notin w.txt
    BY <1>5, <1>12, GivenWhen
  <2> QED  BY <1>6, <2>1
<1>13. CASE Held(b.answers, b.current, "CNAME") # {} /\ Turn(b, i) = FollowAlias(here)
  <2>1. AtName(here, v)
    BY <1>2, <1>8 DEF AtName
  <2>2. v.hops + here.remaining = MaxHops
    BY <1>1, <1>2, <1>8
  <2>3. Bright(w, t, FollowAlias(here)) \/ FollowAlias(here).phase = "OversizeChain"
    BY <1>0, <1>1, <1>3, <1>8, <1>10, <1>13, <2>1, <2>2, AliasBright
  <2> QED  BY <1>13, <2>3
<1> QED  BY <1>7, <1>11, <1>12, <1>13

Arriving(w, t, b) == Bright(w, t, b) \/ b.phase = "OversizeChain"

\* p: the world and the moment.
ArrivesSoFar(p, list, k, b) ==
    /\ Becomes(p.world, b, {"Walking", "Ds", "Done"}) /\ Aimed(b) /\ InShape(b)
    /\ Arriving(p.world, p.moment, b)

Arrival == INSTANCE Folding WITH Step <- TurnStep, Holds <- ArrivesSoFar

LEMMA AdvanceArrives ==
    ASSUME NEW w \in Worlds, NEW t \in Nat, Published(w, t),
           NEW b, Becomes(w, b, {"Walking"}), Aimed(b), InShape(b), b.phase = "Walking",
           Bright(w, t, b)
    PROVE  Arriving(w, t, Advance(b))
<1> DEFINE n == b.remaining + 1
           list == [i \in 1..n |-> i]
           p == [world |-> w, moment |-> t]
           end == Arrival!Run(p, b, list)[DOMAIN list]
<1>0. b.remaining \in Nat
  BY DEF Becomes, Keeps
<1>1. FoldLeft(Turn, b, list) = end
  BY Zenon DEF FoldLeft, MapThenFoldSet, Max, TurnStep, Arrival!Run, Arrival!Runs, Arrival!Greatest
<1>2. Advance(b) = end
  BY <1>1 DEF Advance
<1>3. n \in Nat /\ DOMAIN list = 1..n
  BY <1>0
<1>6. p.world = w /\ p.moment = t
  OBVIOUS
<1> HIDE DEF n, list, p
<1>4. ArrivesSoFar(p, list, 0, b)
  BY <1>6 DEF ArrivesSoFar, Becomes, Arriving
<1>5. ASSUME NEW k \in 1..n, NEW c, ArrivesSoFar(p, list, k - 1, c)
      PROVE  ArrivesSoFar(p, list, k, TurnStep(p, c, list[k]))
  <2> DEFINE i == list[k]
             d == Turn(c, i)
  <2>1. Becomes(w, c, {"Walking", "Ds", "Done"}) /\ Aimed(c) /\ InShape(c) /\ Arriving(w, t, c)
    BY <1>5, <1>6 DEF ArrivesSoFar
  <2> HIDE DEF i
  <2>2. CASE c.phase # "Walking"
    <3>1. d = c
      BY <2>2 DEF Turn
    <3> QED  BY <1>6, <2>1, <3>1 DEF ArrivesSoFar, TurnStep, i
  <2>3. CASE c.phase = "Walking"
    <3>1. Keeps(w, c) /\ Leafless(c) /\ Bright(w, t, c)
      BY <2>1, <2>3 DEF Becomes, BuildErrors, Arriving
    <3>2. Becomes(w, d, {"Walking", "Ds", "Done"})
      BY <2>3, <3>1, TurnKeeps
    <3>3. Aimed(d)
      BY <2>1, <2>3, <3>1, TurnAims
    <3>4. InShape(d)
      BY <2>1, <2>3, <3>1, TurnInShape
    <3>5. Arriving(w, t, d)
      BY <2>1, <2>3, <3>1, TurnBright DEF Arriving
    <3> HIDE DEF d
    <3> QED  BY <1>6, <3>2, <3>3, <3>4, <3>5 DEF ArrivesSoFar, TurnStep, d, i
  <2> QED  BY <2>2, <2>3
<1>7. ArrivesSoFar(p, list, n, end)
  <2> HIDE DEF end
  <2> QED  BY <1>3, <1>4, <1>5, Arrival!Kept DEF end
<1> QED  BY <1>2, <1>6, <1>7 DEF ArrivesSoFar

\* A builder that is answered in full goes on towards a chain that validates.
LEMMA AnsweredArrives ==
    ASSUME NEW w \in Worlds, NEW t \in Nat, Published(w, t),
           NEW b, Keeps(w, b), Leafless(b), Aimed(b), InShape(b), Bright(w, t, b),
           b.phase \in Asking, NEW st \in Near(w),
           NEW answers, answers = Answer(w, st, Question(b), MaxHops + 1), Honest(w, answers)
    PROVE  Arriving(w, t, Answered(b, answers))
<1>1. ASSUME NEW c, InShape(c), NEW phases, Becomes(w, c, phases), c.phase = "Walking" => Aimed(c),
             Arriving(w, t, c)
      PROVE  Arriving(w, t, Advance(c))
  <2>1. CASE c.phase # "Walking"
    BY <1>1, <2>1 DEF Advance
  <2>2. CASE c.phase = "Walking"
    <3>1. Becomes(w, c, {"Walking"}) /\ Bright(w, t, c)
      BY <1>1, <2>2 DEF Becomes, Arriving
    <3> QED  BY <1>1, <2>2, <3>1, AdvanceArrives
  <2> QED  BY <2>1, <2>2
<1>2. BuilderShaped(b)
  BY DEF Keeps
<1>3. CASE b.phase = "RootKeys"
  <2>1. Answered(b, answers) = Advance(AnswerRootKeys(b, answers))
    BY <1>3 DEF Answered
  <2>2. Becomes(w, AnswerRootKeys(b, answers), {"Ds"}) /\ InShape(AnswerRootKeys(b, answers))
    BY <1>3, ZoneAnswersKeep, RootAnswerInShape
  <2>3. AnswerRootKeys(b, answers).phase # "Walking"
    BY <2>2 DEF Becomes, BuildErrors
  <2>4. Arriving(w, t, AnswerRootKeys(b, answers))
    BY <1>3, RootBright DEF Arriving
  <2> QED  BY <1>1, <2>1, <2>2, <2>3, <2>4
<1>4. CASE b.phase = "Ds"
  <2>1. Answered(b, answers) = Advance(AnswerDs(b, answers))
    BY <1>4 DEF Answered
  <2>2. /\ Becomes(w, AnswerDs(b, answers), {"Ds", "Dnskey", "Walking", "Leaf"})
        /\ InShape(AnswerDs(b, answers)) /\ Aimed(AnswerDs(b, answers))
    BY <1>2, <1>4, ZoneAnswersKeep, DsAnswerInShape, ZoneAnswersAim
  <2>3. Arriving(w, t, AnswerDs(b, answers))
    BY <1>4, DsBright DEF Arriving
  <2> QED  BY <1>1, <2>1, <2>2, <2>3
<1>5. CASE b.phase = "Dnskey"
  <2>1. Answered(b, answers) = Advance(AnswerDnskey(b, answers))
    BY <1>5 DEF Answered
  <2>2. /\ Becomes(w, AnswerDnskey(b, answers), {"Ds", "Walking", "Leaf"})
        /\ InShape(AnswerDnskey(b, answers)) /\ Aimed(AnswerDnskey(b, answers))
    BY <1>2, <1>5, ZoneAnswersKeep, KeysAnswerInShape, ZoneAnswersAim
  <2>3. Arriving(w, t, AnswerDnskey(b, answers))
    BY <1>5, KeysBright DEF Arriving
  <2> QED  BY <1>1, <2>1, <2>2, <2>3
<1>6. CASE b.phase = "Leaf"
  <2>1. Answered(b, answers) = Advance(AnswerLeaf(b, answers))
    BY <1>6 DEF Answered
  <2>2. PICK c : c = AnswerLeaf(b, answers)
    OBVIOUS
  <2>3. /\ BuilderShaped(c) /\ c.links = b.links /\ c.answers = answers
        /\ c.remaining = b.remaining /\ c.phase = "Walking" /\ c.name = b.name
        /\ c.depth = b.depth /\ c.zone = b.zone /\ c.deepest = b.deepest
    BY <1>2, <2>2 DEF AnswerLeaf, BuilderShaped
  <2>4. Becomes(w, c, {"Walking"}) /\ Aimed(c)
    BY <2>3 DEF Becomes, Keeps, Leafless, LeafLast, Aimed
  <2>5. InShape(c) /\ Arriving(w, t, c)
    BY <1>2, <1>6, <2>2, LeafAnswerInShape, LeafBright DEF Arriving
  <2> QED  BY <1>1, <2>1, <2>2, <2>4, <2>5
<1> QED  BY <1>3, <1>4, <1>5, <1>6 DEF Asking

-----------------------------------------------------------------------------
\* The fetch of what is published.

\* While no zone rolled the whole way, every upstream that was left was in trouble, and
\* one that was not has brought the builder on.
Served(t) ==
    Published(world, t) /\ Anchored /\ RolledOnce =>
        /\ 1..(upstream - 1) \subseteq spoiled
        /\ result = "Failed" => 1..Upstreams \subseteq spoiled
        /\ result # "Failed" /\ upstream \notin spoiled => Bright(world, t, builder)

StagesRise ==
    \A z \in DOMAIN world.cut : stage[z] \in {world.stage[z], After(world.stage[z]), "New"}

ArriveInv ==
    /\ ShapeInv /\ StagesRise
    /\ upstream \in 1..Upstreams /\ spoiled \subseteq 1..Upstreams
    /\ \A t \in Nat : Served(t)

\* A builder that begins is bright.
LEMMA StartBright ==
    ASSUME NEW w, NEW t
    PROVE  Bright(w, t, StartBuilder)
<1>1. /\ StartBuilder.phase = "RootKeys" /\ StartBuilder.current = Owner
      /\ StartBuilder.remaining = MaxHops + 1 /\ ~StartBuilder.walking
  BY DEF StartBuilder
<1>2. Way(w)[0] = Owner /\ MaxHops + 1 - (MaxHops + 1) = 0 /\ MaxHops + 1 \in 1..(MaxHops + 1)
  BY VisitedIs, ValidatorAssumption DEF Way
<1>3. OnPath(w, StartBuilder)
  BY <1>1, <1>2, CourierAssumption DEF OnPath
<1> QED  BY <1>1, <1>3 DEF Bright, Asking

LEMMA ArriveInit == Init => ArriveInv
<1> SUFFICES ASSUME Init  PROVE ArriveInv
  OBVIOUS
<1>1. ShapeInv
  BY ShapeInit
<1>2. StagesRise
  BY DEF Init, StagesRise
<1>3. upstream = 1 /\ spoiled = {} /\ result = "None" /\ builder = StartBuilder
  BY DEF Init
<1>4. upstream \in 1..Upstreams /\ 1..(upstream - 1) = {}
  BY <1>3, CourierAssumption
<1>5. \A t \in Nat : Served(t)
  BY <1>3, <1>4, StartBright DEF Served
<1> QED  BY <1>1, <1>2, <1>3, <1>4, <1>5 DEF ArriveInv

LEMMA ArriveStep == ArriveInv /\ [Next]_vars => ArriveInv'
<1> SUFFICES ASSUME ArriveInv, [Next]_vars  PROVE ArriveInv'
  OBVIOUS
<1>0. ShapeInv'
  BY ShapeStep DEF ArriveInv
<1>u. /\ upstream \in Nat \ {0} /\ Upstreams \in Nat \ {0} /\ upstream <= Upstreams
      /\ upstream \in 1..Upstreams /\ spoiled \subseteq 1..Upstreams
  BY CourierAssumption DEF ArriveInv
\* Whoever fails was in trouble.
<1>1. ASSUME NEW last, FailOver(last), result = "None", spoiled' = spoiled \cup {upstream},
             UNCHANGED <<world, stage>>
      PROVE  ArriveInv'
  <2>1. StagesRise'
    BY <1>1 DEF ArriveInv, StagesRise
  <2>2. spoiled' \subseteq 1..Upstreams
    BY <1>1, <1>u
  <2>3. CASE upstream < Upstreams
    <3>1. upstream' = upstream + 1 /\ builder' = StartBuilder /\ result' = "None"
      BY <1>1, <2>3 DEF FailOver
    <3>2. upstream' \in 1..Upstreams /\ 1..(upstream' - 1) = 1..(upstream - 1) \cup {upstream}
      BY <1>u, <2>3, <3>1
    <3>3. ASSUME NEW t \in Nat  PROVE Served(t)'
      <4> SUFFICES ASSUME Published(world', t), Anchored', RolledOnce'
                   PROVE  /\ 1..(upstream' - 1) \subseteq spoiled'
                          /\ Bright(world', t, builder')
        BY <3>1 DEF Served
      <4>1. Published(world, t) /\ Anchored /\ RolledOnce
        BY <1>1 DEF Anchored, RolledOnce
      <4>2. 1..(upstream - 1) \subseteq spoiled
        BY <4>1 DEF ArriveInv, Served
      <4> QED  BY <1>1, <3>1, <3>2, <4>2, StartBright
    <3> QED  BY <1>0, <2>1, <2>2, <3>2, <3>3 DEF ArriveInv
  <2>4. CASE ~(upstream < Upstreams)
    <3>1. upstream' = upstream /\ result' = "Failed" /\ upstream = Upstreams
      BY <1>1, <1>u, <2>4 DEF FailOver
    <3>2. 1..Upstreams = 1..(upstream - 1) \cup {upstream}
      BY <1>u, <3>1
    <3>3. ASSUME NEW t \in Nat  PROVE Served(t)'
      <4> SUFFICES ASSUME Published(world', t), Anchored', RolledOnce'
                   PROVE  /\ 1..(upstream' - 1) \subseteq spoiled'
                          /\ 1..Upstreams \subseteq spoiled'
        BY <3>1 DEF Served
      <4>1. Published(world, t) /\ Anchored /\ RolledOnce
        BY <1>1 DEF Anchored, RolledOnce
      <4>2. 1..(upstream - 1) \subseteq spoiled
        BY <4>1 DEF ArriveInv, Served
      <4> QED  BY <1>1, <3>1, <3>2, <4>2
    <3> QED  BY <1>0, <1>u, <2>1, <2>2, <3>1, <3>3 DEF ArriveInv
  <2> QED  BY <2>3, <2>4
\* Whoever goes on was in trouble, or has brought the builder on.
<1>2. ASSUME NEW next, Going(next), Take(next), result = "None",
             spoiled \subseteq spoiled', spoiled' \subseteq 1..Upstreams,
             UNCHANGED <<world, stage>>,
             \A t \in Nat : Published(world, t) /\ Anchored /\ RolledOnce /\ upstream \notin spoiled' =>
                               Bright(world, t, next)
      PROVE  ArriveInv'
  <2>1. StagesRise'
    BY <1>2 DEF ArriveInv, StagesRise
  <2>2. builder' = next /\ result' \in {"None", "Framed"} /\ upstream' = upstream
    BY <1>2 DEF Take
  <2>3. ASSUME NEW t \in Nat  PROVE Served(t)'
    <3> SUFFICES ASSUME Published(world', t), Anchored', RolledOnce'
                 PROVE  /\ 1..(upstream' - 1) \subseteq spoiled'
                        /\ upstream' \notin spoiled' => Bright(world', t, builder')
      BY <2>2 DEF Served
    <3>1. Published(world, t) /\ Anchored /\ RolledOnce
      BY <1>2 DEF Anchored, RolledOnce
    <3>2. 1..(upstream - 1) \subseteq spoiled
      BY <3>1 DEF ArriveInv, Served
    <3> QED  BY <1>2, <2>2, <3>1, <3>2
  <2> QED  BY <1>0, <1>2, <1>u, <2>1, <2>2, <2>3 DEF ArriveInv
<1>3. CASE Respond
  <2> DEFINE next == Answered(builder, WholeAnswer)
  <2>1. /\ result = "None" /\ Take(next) /\ UNCHANGED <<world, stage>>
        /\ spoiled' = spoiled \cup {u \in {upstream} : next.phase = "OversizeChain"}
    BY <1>3 DEF Respond
  <2>2. /\ world \in Worlds /\ Keeps(world, builder) /\ Leafless(builder)
        /\ builder.phase \in Asking /\ Aimed(builder) /\ InShape(builder)
        /\ stage \in [DOMAIN world.cut -> Stages]
    BY <2>1 DEF ArriveInv, ShapeInv, AimInv, FetchInv
  <2>3. Honest(world, WholeAnswer)
    <3>1. Question(builder).rtype \in Rtypes
      BY <2>2 DEF Question, Rtypes, Asking
    <3>2. \A r \in WholeAnswer : r \in Said(world) /\ Strippable(r)
      BY <2>2, <3>1, AnswersAreSaid DEF WholeAnswer
    <3> QED  BY <2>2, <3>2, DegradedIsHonest
  <2>4. ASSUME NEW t \in Nat, Published(world, t), Anchored, RolledOnce, upstream \notin spoiled
        PROVE  Arriving(world, t, next)
    <3>1. Bright(world, t, builder)
      BY <2>1, <2>4 DEF ArriveInv, Served
    <3>2. stage \in Near(world)
      BY <2>2, <2>4 DEF Near, Anchored, RolledOnce, After, Stages, ArriveInv, StagesRise
    <3>3. WholeAnswer = Answer(world, stage, Question(builder), MaxHops + 1)
      BY DEF WholeAnswer
    <3> QED  BY <2>2, <2>3, <2>4, <3>1, <3>2, <3>3, AnsweredArrives
  <2> HIDE DEF next
  <2>5. CASE next.phase = "OversizeChain"
    <3>1. ~Going(next) /\ spoiled' = spoiled \cup {upstream}
      BY <2>1, <2>5 DEF Going, BuildErrors
    <3> QED  BY <1>1, <2>1, <3>1 DEF Take
  <2>6. CASE next.phase # "OversizeChain"
    <3>1. spoiled' = spoiled
      BY <2>1, <2>6
    <3>2. \A t \in Nat : Published(world, t) /\ Anchored /\ RolledOnce /\ upstream \notin spoiled =>
                            Bright(world, t, next)
      BY <2>4, <2>6 DEF Arriving
    <3>3. CASE Going(next)
      BY <1>2, <1>u, <2>1, <3>1, <3>2, <3>3
    <3>4. CASE ~Going(next)
      <4>1. \A t : ~Bright(world, t, next)
        BY <3>4 DEF Going, Bright, BuildErrors, Asking
      <4>2. upstream \in spoiled \/ \A t \in Nat : ~(Published(world, t) /\ Anchored /\ RolledOnce)
        BY <3>2, <4>1
      <4>3. FailOver(next)
        BY <2>1, <3>4 DEF Take
      <4>4. CASE upstream \in spoiled
        <5>1. spoiled' = spoiled \cup {upstream}
          BY <3>1, <4>4
        <5> QED  BY <1>1, <2>1, <4>3, <5>1
      <4>5. CASE \A t \in Nat : ~(Published(world, t) /\ Anchored /\ RolledOnce)
        <5>1. \A t \in Nat : ~(Published(world', t) /\ Anchored' /\ RolledOnce')
          BY <2>1, <4>5 DEF Anchored, RolledOnce
        <5>2. \A t \in Nat : Served(t)'
          BY <5>1 DEF Served
        <5>3. StagesRise'
          BY <2>1 DEF ArriveInv, StagesRise
        <5>4. upstream' \in 1..Upstreams
          BY <1>u, <4>3 DEF FailOver
        <5> QED  BY <1>0, <1>u, <3>1, <5>2, <5>3, <5>4 DEF ArriveInv
      <4> QED  BY <4>2, <4>4, <4>5
    <3> QED  BY <3>3, <3>4
  <2> QED  BY <2>5, <2>6
<1>4. CASE RespondDegraded
  <2>1. PICK next : Take(next)
    BY <1>4 DEF RespondDegraded
  <2>2. /\ result = "None" /\ spoiled' = spoiled \cup {upstream} /\ UNCHANGED <<world, stage>>
    BY <1>4 DEF RespondDegraded
  <2>3. CASE Going(next)
    <3>1. /\ spoiled \subseteq spoiled' /\ spoiled' \subseteq 1..Upstreams /\ upstream \in spoiled'
      BY <1>u, <2>2
    <3> QED  BY <1>2, <2>1, <2>2, <2>3, <3>1
  <2>4. CASE ~Going(next)
    BY <1>1, <2>1, <2>2, <2>4 DEF Take
  <2> QED  BY <2>3, <2>4
<1>5. CASE QueryFails
  BY <1>1, <1>5 DEF QueryFails
<1>6. CASE \E z \in DOMAIN stage : Roll(z)
  <2>1. PICK z \in DOMAIN stage : Roll(z)
    BY <1>6
  <2>2. /\ UNCHANGED <<world, upstream, builder, result, spoiled>> /\ stage[z] # "New"
        /\ stage' = [stage EXCEPT ![z] = IF @ = "Old" THEN "Rolling" ELSE "New"]
    BY <2>1 DEF Roll
  <2>3. /\ stage \in [DOMAIN world.cut -> Stages] /\ world.stage \in [DOMAIN world.cut -> Stages]
        /\ Root \in DOMAIN world.cut
    BY CourierAssumption DEF ArriveInv, ShapeInv, AimInv, FetchInv
  <2>4. ASSUME NEW y \in DOMAIN world.cut
        PROVE  /\ stage'[y] \in {world.stage[y], After(world.stage[y]), "New"}
               /\ \/ stage'[y] = stage[y]
                  \/ stage[y] = world.stage[y]
                  \/ stage'[y] = "New" /\ world.stage[y] = "Old"
    <3>1. stage[y] \in {world.stage[y], After(world.stage[y]), "New"}
      BY DEF ArriveInv, StagesRise
    <3>2. stage[y] \in Stages /\ world.stage[y] \in Stages
      BY <2>3
    <3>3. CASE y # z
      BY <2>2, <2>3, <3>1, <3>3
    <3>4. CASE y = z
      <4>1. stage'[y] = (IF stage[y] = "Old" THEN "Rolling" ELSE "New") /\ stage[y] # "New"
        BY <2>2, <2>3, <3>4
      <4> QED  BY <3>1, <3>2, <4>1 DEF After, Stages
    <3> QED  BY <3>3, <3>4
  <2>5. StagesRise'
    BY <2>2, <2>4 DEF StagesRise
  <2>6. ASSUME NEW t \in Nat  PROVE Served(t)'
    <3> SUFFICES ASSUME Published(world', t), Anchored', RolledOnce'
                 PROVE  /\ 1..(upstream' - 1) \subseteq spoiled'
                        /\ result' = "Failed" => 1..Upstreams \subseteq spoiled'
                        /\ result' # "Failed" /\ upstream' \notin spoiled' =>
                              Bright(world', t, builder')
      BY DEF Served
    <3>1. Published(world, t) /\ Anchored /\ RolledOnce
      <4>1. RolledOnce
        BY <2>2, <2>3, <2>4 DEF RolledOnce, StagesRise, Stages
      <4>2. Anchored
        BY <2>2, <2>3, <2>4 DEF Anchored, RolledOnce
      <4> QED  BY <2>2, <4>1, <4>2
    <3>2. Served(t)
      BY DEF ArriveInv
    <3> QED  BY <2>2, <3>1, <3>2 DEF Served
  <2> QED  BY <1>0, <1>u, <2>2, <2>5, <2>6 DEF ArriveInv
<1>7. CASE UNCHANGED vars
  <2>1. UNCHANGED <<world, stage, upstream, builder, result, spoiled>>
    BY <1>7 DEF vars
  <2>2. ASSUME NEW t \in Nat  PROVE Served(t)'
    <3>1. Served(t)
      BY DEF ArriveInv
    <3> QED  BY <2>1, <3>1 DEF Served, Anchored, RolledOnce
  <2>3. StagesRise'
    BY <2>1 DEF ArriveInv, StagesRise
  <2> QED  BY <1>0, <1>u, <2>1, <2>2, <2>3 DEF ArriveInv
<1> QED  BY <1>3, <1>4, <1>5, <1>6, <1>7 DEF Next

\* What the zones publish of an owner at one moment arrives: the chain framed from whole
\* answers, over aliases, deeper cuts, re-entry at the root and one step of each zone's
\* key roll in between, is one that validates, and a fetch fails only when every upstream
\* was in trouble.
THEOREM PublishedArrives == Spec => []PublishedBindingArrives
<1>1. ArriveInv => PublishedBindingArrives
  <2> SUFFICES ASSUME ArriveInv, Secure, Joint, Anchored, RolledOnce
               PROVE  /\ result = "Framed" /\ upstream \notin spoiled => Proven
                      /\ result = "Failed" => spoiled = 1..Upstreams
    BY DEF PublishedBindingArrives
  <2>1. PICK t \in 0..Horizon : \A win \in Windows : win[1] <= t /\ t <= win[2]
    BY DEF Joint
  <2>2. world \in Worlds
    BY DEF ArriveInv, ShapeInv, AimInv, FetchInv
  <2>3. ASSUME NEW i \in 0..MaxHops  PROVE Clear(world, t, Way(world)[i])
    <3> SUFFICES ASSUME NEW z \in DOMAIN world.cut, IsPrefix(z, Way(world)[i])
                 PROVE  /\ world.cut[z].signed /\ (z # Root => world.cut[z].ds)
                        /\ Lasts(world, t, z)
      BY DEF Clear
    <3>1. Way(world)[i] \in Range(Path)
      <4>1. DOMAIN Way(world) = 0..MaxHops
        BY VisitedIs, ValidatorAssumption DEF Way
      <4> QED  BY <4>1 DEF Range, Path, Way
    <3>2. z \in Covering
      BY <3>1 DEF Covering
    <3>3. \A k \in Keys : world.window[z][k] \in Windows
      BY <3>2 DEF Windows
    <3> QED  BY <2>1, <3>2, <3>3 DEF Secure, Lasts
  <2>4. Published(world, t) /\ t \in Nat
    <3>1. Leaf = Way(world)[MaxHops]
      BY DEF Leaf, Path, Way
    <3>2. t \in Nat
      BY ValidatorAssumption
    <3> QED  BY <2>3, <3>1, <3>2 DEF Published, Secure
  <2>5. /\ result = "Failed" => 1..Upstreams \subseteq spoiled
        /\ result # "Failed" /\ upstream \notin spoiled => Bright(world, t, builder)
    BY <2>4 DEF ArriveInv, Served
  <2>6. ASSUME result = "Framed", upstream \notin spoiled  PROVE Proven
    <3> DEFINE v == Walked(builder.links)
    <3>1. builder.phase = "Done" /\ Bright(world, t, builder)
      BY <2>5, <2>6 DEF ArriveInv, ShapeInv
    <3>2. v.verdict = "Proven"
      BY <3>1 DEF Bright
    <3>3. /\ builder.links # <<>> /\ Head(builder.links).rtype = "DNSKEY"
          /\ \A i \in DOMAIN builder.links : builder.links[i].signatures # <<>>
      BY <3>1 DEF ArriveInv, ShapeInv, InShape
    <3>4. Proof = IF Walks(v) THEN Ended(v, "MissingLeaf") ELSE v
      BY <3>3 DEF Proof, Validate, Walked, Folded
    <3> HIDE DEF v
    <3> QED  BY <2>6, <3>2, <3>4 DEF Proven, Walks
  <2> QED  BY <2>5, <2>6 DEF ArriveInv
<1> QED  BY <1>1, ArriveInit, ArriveStep, PTL DEF Spec
=============================================================================
