-------------------------- MODULE Governance_proofs --------------------------
(***************************************************************************)
(* What holds of governance whatever there is to decide and however many   *)
(* act at once: of publishes, rollbacks and edits (ReleaseManifest), of    *)
(* reviews and review batches (ProposalReview), and of the validation that *)
(* precedes them (ProposalValidation).                                     *)
(*                                                                         *)
(* For ReleaseManifest the key is that a manifest never loses a pin: what  *)
(* the newest release that pins an identity says of it, as the queries     *)
(* ask, is what the newest release says.  For ProposalReview it is that a  *)
(* transaction looks again at the state of each proposal it decides on.    *)
(* For ProposalValidation it is that nothing validation has completed is   *)
(* undone, so that what the handler of a lost attempt saw stays true.      *)
(***************************************************************************)
EXTENDS ReleaseManifest, ProposalReview, ProposalValidation, TLAPS

PinsOf(S) == UNION {[T -> Nat] : T \in SUBSET S}
Release == [assets: PinsOf(Asset), objects: PinsOf(Object),
            origin: Proposal \union {NoProposalID}, undoes: Nat]

Tables ==
    /\ revisions \in [Asset -> Seq(Value)]
    /\ current \in [Asset -> Nat]
    /\ version \in [Object -> Nat]
    /\ content \in [Object -> Value]
    /\ proposal \in [Proposal -> Proposed]
    /\ releases \in Seq(Release) /\ Len(releases) <= MaxReleases
    /\ rolling \in [Operator -> 0..Len(releases)]
    /\ appends \in 0..MaxAppends
    /\ contentBefore \in Seq([Object -> Value]) /\ Len(contentBefore) = Len(releases)

\* An asset is at one of its revisions, and no two are alike.
HasRevisions(a) == IsInjective(revisions[a]) /\ current[a] \in DOMAIN revisions[a]

\* A proposal has the shape of its target, and a base that exists; what was
\* released is a revision.
States == {"in_review", "released"}
Drafted(p) ==
    /\ Target[p] \in Asset =>
        proposal[p] \in {NoProposal} \union [state: States, base: DOMAIN revisions[Target[p]], after: Value]
    /\ Target[p] \in Object =>
        proposal[p] \in {NoProposal} \union [state: States, before: Value, after: Value]
    /\ proposal[p].state = "released" /\ Target[p] \in Asset =>
        proposal[p].after \in Range(revisions[Target[p]])

\* A manifest pins what exists, and all that the ones before it pin; it was
\* made by a released proposal or by the rollback of the one right before it.
Manifest(k) ==
    /\ IsManifest(releases[k])
    /\ \A j \in 1..k : /\ DOMAIN releases[j].assets \subseteq DOMAIN releases[k].assets
                       /\ DOMAIN releases[j].objects \subseteq DOMAIN releases[k].objects
    /\ HasOrigin(k) =>
        /\ proposal[releases[k].origin].state = "released"
        /\ Target[releases[k].origin] \in DOMAIN releases[k].assets \union DOMAIN releases[k].objects
    /\ releases[k].undoes # 0 => k > 1 /\ releases[k].undoes = k - 1 /\ PriorStateKnown(k - 1)

\* A release changes the content of what its rollback would restore.
Keeps(k) == \A o \in Object \ RestoredObjects(k) : ContentAfter(k)[o] = contentBefore[k][o]

Inv ==
    /\ Tables
    /\ \A a \in Asset : HasRevisions(a)
    /\ \A p \in Proposal : Drafted(p)
    /\ \A k \in DOMAIN releases : Manifest(k) /\ Keeps(k)
    /\ \A op \in Operator : rolling[op] # 0 => PriorStateKnown(rolling[op])

-----------------------------------------------------------------------------
(* Pins.                                                                   *)

LEMMA OverDomain == \A f, g : DOMAIN Over(f, g) = DOMAIN f \union DOMAIN g
  BY DEF Over

LEMMA OverFirst == ASSUME NEW f, NEW g, NEW x \in DOMAIN f PROVE Over(f, g)[x] = f[x]
  BY DEF Over

LEMMA OverSecond == ASSUME NEW f, NEW g, NEW x \in DOMAIN g \ DOMAIN f PROVE Over(f, g)[x] = g[x]
  BY DEF Over

LEMMA PinsAre ==
    ASSUME NEW S, NEW f \in PinsOf(S)
    PROVE  DOMAIN f \in SUBSET S /\ f \in [DOMAIN f -> Nat]
<1>1. PICK T \in SUBSET S : f \in [T -> Nat]
  BY DEF PinsOf
<1> QED BY <1>1

LEMMA ArePins == ASSUME NEW S, NEW T \in SUBSET S, NEW f \in [T -> Nat] PROVE f \in PinsOf(S)
  BY DEF PinsOf

LEMMA PinIsPins == ASSUME NEW S, NEW x \in S, NEW n \in Nat PROVE Pin(x, n) \in PinsOf(S)
<1>1. Pin(x, n) \in [{x} -> Nat] /\ {x} \in SUBSET S
  BY DEF Pin
<1> QED BY <1>1, ArePins

LEMMA NoPinsArePins == ASSUME NEW S PROVE NoPins \in PinsOf(S)
<1>1. NoPins \in [{} -> Nat] /\ {} \in SUBSET S
  BY DEF NoPins
<1> QED BY <1>1, ArePins

LEMMA OverIsPins ==
    ASSUME NEW S, NEW f \in PinsOf(S), NEW g \in PinsOf(S)
    PROVE  Over(f, g) \in PinsOf(S)
<1>1. /\ DOMAIN f \in SUBSET S /\ f \in [DOMAIN f -> Nat]
      /\ DOMAIN g \in SUBSET S /\ g \in [DOMAIN g -> Nat]
  BY PinsAre
<1>2. Over(f, g) \in [DOMAIN f \union DOMAIN g -> Nat]
  BY <1>1 DEF Over
<1>3. DOMAIN f \union DOMAIN g \in SUBSET S
  BY <1>1
<1> QED BY <1>2, <1>3, ArePins

LEMMA NewestIs ==
    ASSUME NEW S \in SUBSET Nat, NEW n \in S, \A j \in S : j <= n
    PROVE  Newest(S) = n
<1>1. Newest(S) \in S /\ \A j \in S : j <= Newest(S)
  BY DEF Newest
<1>2. Newest(S) \in Nat /\ n \in Nat /\ Newest(S) <= n /\ n <= Newest(S)
  BY <1>1
<1> QED BY <1>2

LEMMA InRelease ==
    ASSUME Inv, NEW k \in DOMAIN releases
    PROVE  /\ k \in 1..Len(releases) /\ Len(releases) \in Nat
           /\ releases[k] \in Release
           /\ DOMAIN releases[k].assets \subseteq Asset /\ DOMAIN releases[k].objects \subseteq Object
<1>1. k \in 1..Len(releases) /\ Len(releases) \in Nat /\ releases[k] \in Release
  BY DEF Inv, Tables
<1>2. releases[k].assets \in PinsOf(Asset) /\ releases[k].objects \in PinsOf(Object)
  BY <1>1 DEF Release
<1> QED BY <1>1, <1>2, PinsAre

\* The queries for the newest pin of each identity give the newest manifest.
LEMMA LatestPins ==
    ASSUME Inv
    PROVE  /\ LatestAssetPins \in PinsOf(Asset) /\ LatestObjectPins \in PinsOf(Object)
           /\ Len(releases) = 0 => DOMAIN LatestAssetPins = {} /\ DOMAIN LatestObjectPins = {}
           /\ Len(releases) # 0 =>
                /\ DOMAIN LatestAssetPins = DOMAIN releases[Len(releases)].assets
                /\ DOMAIN LatestObjectPins = DOMAIN releases[Len(releases)].objects
                /\ \A a \in DOMAIN LatestAssetPins : LatestAssetPins[a] = releases[Len(releases)].assets[a]
                /\ \A o \in DOMAIN LatestObjectPins : LatestObjectPins[o] = releases[Len(releases)].objects[o]
<1> DEFINE n == Len(releases)
           A(a) == {k \in DOMAIN releases : PinsAsset(k, a)}
           O(o) == {k \in DOMAIN releases : PinsObject(k, o)}
<1>1. n \in Nat /\ DOMAIN releases = 1..n
  BY DEF Inv, Tables
<1>2. DOMAIN LatestAssetPins = {a \in Asset : A(a) # {}} /\ DOMAIN LatestObjectPins = {o \in Object : O(o) # {}}
  BY DEF LatestAssetPins, LatestObjectPins
<1>3. /\ \A a \in DOMAIN LatestAssetPins : LatestAssetPins[a] = releases[Newest(A(a))].assets[a]
      /\ \A o \in DOMAIN LatestObjectPins : LatestObjectPins[o] = releases[Newest(O(o))].objects[o]
  BY DEF LatestAssetPins, LatestObjectPins
<1>4. CASE n = 0
  <2>1. DOMAIN LatestAssetPins = {} /\ DOMAIN LatestObjectPins = {}
    BY <1>1, <1>2, <1>4
  <2>2. LatestAssetPins \in [{} -> Nat] /\ LatestObjectPins \in [{} -> Nat]
    BY <2>1 DEF LatestAssetPins, LatestObjectPins
  <2> QED BY <1>4, <2>1, <2>2, ArePins
<1>5. CASE n # 0
  <2>1. n \in DOMAIN releases /\ Manifest(n)
    BY <1>1, <1>5 DEF Inv
  <2>2. \A k \in DOMAIN releases : /\ DOMAIN releases[k].assets \subseteq DOMAIN releases[n].assets
                                   /\ DOMAIN releases[k].objects \subseteq DOMAIN releases[n].objects
    BY <1>1, <2>1 DEF Manifest
  <2>3. DOMAIN LatestAssetPins = DOMAIN releases[n].assets /\ DOMAIN LatestObjectPins = DOMAIN releases[n].objects
    BY <1>2, <2>1, <2>2, InRelease DEF PinsAsset, PinsObject
  <2>4. ASSUME NEW a \in DOMAIN LatestAssetPins PROVE LatestAssetPins[a] = releases[n].assets[a]
    <3>1. n \in A(a) /\ A(a) \in SUBSET Nat /\ \A j \in A(a) : j <= n
      BY <1>1, <2>1, <2>3 DEF PinsAsset
    <3>2. Newest(A(a)) = n
      BY <3>1, NewestIs
    <3> QED BY <1>3, <3>2
  <2>5. ASSUME NEW o \in DOMAIN LatestObjectPins PROVE LatestObjectPins[o] = releases[n].objects[o]
    <3>1. n \in O(o) /\ O(o) \in SUBSET Nat /\ \A j \in O(o) : j <= n
      BY <1>1, <2>1, <2>3 DEF PinsObject
    <3>2. Newest(O(o)) = n
      BY <3>1, NewestIs
    <3> QED BY <1>3, <3>2
  <2>6. releases[n].assets \in PinsOf(Asset) /\ releases[n].objects \in PinsOf(Object)
    BY <2>1, InRelease DEF Release
  <2>7. /\ DOMAIN releases[n].assets \in SUBSET Asset /\ releases[n].assets \in [DOMAIN releases[n].assets -> Nat]
        /\ DOMAIN releases[n].objects \in SUBSET Object /\ releases[n].objects \in [DOMAIN releases[n].objects -> Nat]
    BY <2>6, PinsAre
  <2>8. LatestAssetPins \in [DOMAIN releases[n].assets -> Nat] /\ LatestObjectPins \in [DOMAIN releases[n].objects -> Nat]
    <3>1. LatestAssetPins = [a \in DOMAIN LatestAssetPins |-> LatestAssetPins[a]]
      BY DEF LatestAssetPins
    <3>2. LatestObjectPins = [o \in DOMAIN LatestObjectPins |-> LatestObjectPins[o]]
      BY DEF LatestObjectPins
    <3> QED BY <2>3, <2>4, <2>5, <2>7, <3>1, <3>2
  <2> QED BY <1>5, <2>3, <2>4, <2>5, <2>7, <2>8, ArePins
<1> QED BY <1>4, <1>5

LEMMA PinBeforeIs ==
    ASSUME Inv, NEW t \in DOMAIN releases, NEW a, ReleasesBefore(t, a) # {}
    PROVE  /\ t > 1 /\ t - 1 \in DOMAIN releases /\ a \in DOMAIN releases[t - 1].assets
           /\ PinBefore(t, a) = releases[t - 1].assets[a]
<1>1. PICK k \in DOMAIN releases : k < t /\ a \in DOMAIN releases[k].assets
  BY DEF ReleasesBefore, PinsAsset
<1>2. k \in 1..Len(releases) /\ t \in 1..Len(releases) /\ Len(releases) \in Nat /\ DOMAIN releases = 1..Len(releases)
  BY DEF Inv, Tables
<1>3. t > 1 /\ t - 1 \in DOMAIN releases /\ k \in 1..(t - 1)
  BY <1>1, <1>2
<1>4. Manifest(t - 1)
  BY <1>3 DEF Inv
<1>5. a \in DOMAIN releases[t - 1].assets
  BY <1>1, <1>3, <1>4 DEF Manifest
<1>6. Newest(ReleasesBefore(t, a)) = t - 1
  <2>1. /\ ReleasesBefore(t, a) \in SUBSET Nat /\ t - 1 \in ReleasesBefore(t, a)
        /\ \A j \in ReleasesBefore(t, a) : j <= t - 1
    BY <1>2, <1>3, <1>5 DEF ReleasesBefore, PinsAsset
  <2> QED BY <2>1, NewestIs
<1> QED BY <1>3, <1>5, <1>6 DEF PinBefore

-----------------------------------------------------------------------------
(* What a step keeps.                                                      *)

Evolves ==
    /\ \A a \in Asset : /\ DOMAIN revisions[a] \subseteq DOMAIN revisions'[a]
                        /\ \A r \in DOMAIN revisions[a] : revisions'[a][r] = revisions[a][r]
    /\ \A o \in Object : version'[o] \in Nat /\ version[o] <= version'[o]
    /\ \A p \in Proposal : proposal[p].state = "released" => proposal'[p] = proposal[p]

\* What was released stays as it was.
Remains ==
    /\ Len(releases') \in Nat /\ Len(releases) <= Len(releases') /\ DOMAIN releases' = 1..Len(releases')
    /\ \A k \in DOMAIN releases : /\ releases'[k] = releases[k]
                                  /\ contentBefore'[k] = contentBefore[k]
                                  /\ ContentAfter(k)' = ContentAfter(k)

LEMMA RemainsQuietly ==
    ASSUME Inv, UNCHANGED <<releases, contentBefore, content>>
    PROVE  Remains
  BY DEF Inv, Tables, Remains, ContentAfter

LEMMA RemainsPublished ==
    ASSUME Inv, NEW r \in Release, Publish(r), content' \in [Object -> Value]
    PROVE  LET n == Len(releases) IN
           /\ Remains
           /\ releases' \in Seq(Release) /\ Len(releases') = n + 1 /\ n + 1 <= MaxReleases /\ n \in Nat
           /\ contentBefore' \in Seq([Object -> Value]) /\ Len(contentBefore') = n + 1
           /\ releases'[n + 1] = r /\ contentBefore'[n + 1] = content /\ \A k : k = n + 1 => ContentAfter(k)' = content'
           /\ DOMAIN releases' = DOMAIN releases \union {n + 1}
<1> DEFINE n == Len(releases)
<1>1. /\ releases \in Seq(Release) /\ contentBefore \in Seq([Object -> Value])
      /\ Len(contentBefore) = n /\ content \in [Object -> Value] /\ n \in Nat
  BY DEF Inv, Tables
<1>2. releases' = Append(releases, r) /\ contentBefore' = Append(contentBefore, content) /\ n < MaxReleases
  BY DEF Publish
<1>3. /\ releases' \in Seq(Release) /\ Len(releases') = n + 1
      /\ \A k \in 1..n : releases'[k] = releases[k]
      /\ releases'[n + 1] = r
  BY <1>1, <1>2
<1>4. /\ contentBefore' \in Seq([Object -> Value]) /\ Len(contentBefore') = n + 1
      /\ \A k \in 1..n : contentBefore'[k] = contentBefore[k]
      /\ contentBefore'[n + 1] = content
  BY <1>1, <1>2
<1>5. DOMAIN releases = 1..n /\ DOMAIN releases' = 1..(n + 1)
  BY <1>1, <1>3
<1>6. ASSUME NEW k \in 1..n PROVE ContentAfter(k)' = ContentAfter(k)
  <2>1. ContentAfter(k)' = contentBefore'[k + 1]
    BY <1>1, <1>3 DEF ContentAfter
  <2>2. CASE k = n
    BY <1>4, <2>1, <2>2 DEF ContentAfter
  <2>3. CASE k # n
    <3>1. k + 1 \in 1..n
      BY <1>1, <2>3
    <3> QED BY <1>4, <2>1, <2>3, <3>1 DEF ContentAfter
  <2> QED BY <2>2, <2>3
<1>7. ASSUME NEW k, k = n + 1 PROVE ContentAfter(k)' = content'
  BY <1>3, <1>7 DEF ContentAfter
<1>8. n + 1 <= MaxReleases
  BY <1>1, <1>2, ReleaseAssumption DEF ReleaseAssumption
<1>9. Remains
  BY <1>1, <1>3, <1>4, <1>5, <1>6 DEF Remains
<1> QED BY <1>1, <1>3, <1>4, <1>5, <1>7, <1>8, <1>9

LEMMA PlansRemain ==
    ASSUME Inv, Remains, NEW k \in DOMAIN releases
    PROVE  /\ RestoredAssets(k)' = RestoredAssets(k) /\ RestoredObjects(k)' = RestoredObjects(k)
           /\ HasOrigin(k)' <=> HasOrigin(k)
           /\ \A a : ReleasesBefore(k, a)' = ReleasesBefore(k, a)
           /\ PriorStateKnown(k)' <=> PriorStateKnown(k)
<1>1. k \in 1..Len(releases) /\ Len(releases) \in Nat /\ DOMAIN releases = 1..Len(releases)
  BY DEF Inv, Tables
<1>2. /\ releases'[k] = releases[k]
      /\ HasOrigin(k)' <=> HasOrigin(k)
  BY DEF Remains, HasOrigin
<1>3. RestoredAssets(k)' = RestoredAssets(k) /\ RestoredObjects(k)' = RestoredObjects(k)
  BY <1>2 DEF RestoredAssets, RestoredObjects
<1>4. ASSUME NEW a PROVE ReleasesBefore(k, a)' = ReleasesBefore(k, a)
  <2>1. \A j : j \in DOMAIN releases' /\ j < k <=> j \in DOMAIN releases /\ j < k
    BY <1>1 DEF Remains
  <2>2. \A j \in DOMAIN releases : PinsAsset(j, a)' <=> PinsAsset(j, a)
    BY DEF Remains, PinsAsset
  <2> QED BY <2>1, <2>2 DEF ReleasesBefore
<1> QED BY <1>2, <1>3, <1>4 DEF PriorStateKnown

LEMMA ReleasesStay ==
    ASSUME Inv, Evolves, Remains, NEW k \in DOMAIN releases
    PROVE  Manifest(k)' /\ Keeps(k)'
<1>1. /\ k \in 1..Len(releases) /\ Len(releases) \in Nat /\ DOMAIN releases = 1..Len(releases)
      /\ Manifest(k) /\ Keeps(k)
  BY DEF Inv, Tables
<1>2. \A j \in 1..k : j \in DOMAIN releases /\ releases'[j] = releases[j]
  BY <1>1 DEF Remains
<1>3. releases'[k] = releases[k] /\ contentBefore'[k] = contentBefore[k] /\ ContentAfter(k)' = ContentAfter(k)
  BY DEF Remains
<1>4. IsManifest(releases[k])'
  <2>1. IsManifest(releases[k])
    BY <1>1 DEF Manifest
  <2>2. ASSUME NEW o \in DOMAIN releases[k].objects PROVE releases[k].objects[o] \in 1..version'[o]
    <3>1. /\ version[o] \in Nat /\ version'[o] \in Nat /\ version[o] <= version'[o]
          /\ releases[k].objects[o] \in 1..version[o]
      BY <2>1 DEF IsManifest, Evolves, Inv, Tables
    <3> QED BY <3>1
  <2>3. \A a \in DOMAIN releases[k].assets : releases[k].assets[a] \in DOMAIN revisions'[a]
    BY <2>1 DEF IsManifest, Evolves
  <2> QED BY <1>3, <2>1, <2>2, <2>3 DEF IsManifest
<1>5. HasOrigin(k)' =>
        /\ proposal'[releases'[k].origin].state = "released"
        /\ Target[releases'[k].origin] \in DOMAIN releases'[k].assets \union DOMAIN releases'[k].objects
  <2> SUFFICES ASSUME HasOrigin(k)
               PROVE  /\ proposal'[releases[k].origin].state = "released"
                      /\ Target[releases[k].origin] \in DOMAIN releases[k].assets \union DOMAIN releases[k].objects
    BY <1>3, PlansRemain
  <2>1. releases[k].origin \in Proposal
    BY <1>1 DEF Manifest, IsManifest, HasOrigin
  <2> QED BY <1>1, <2>1 DEF Manifest, Evolves
<1>6. releases'[k].undoes # 0 => k > 1 /\ releases'[k].undoes = k - 1 /\ PriorStateKnown(k - 1)'
  <2> SUFFICES ASSUME releases[k].undoes # 0
               PROVE  k > 1 /\ releases[k].undoes = k - 1 /\ PriorStateKnown(k - 1)'
    BY <1>3
  <2>1. k > 1 /\ releases[k].undoes = k - 1 /\ PriorStateKnown(k - 1)
    BY <1>1 DEF Manifest
  <2>2. k - 1 \in DOMAIN releases
    BY <1>1, <2>1
  <2> QED BY <2>1, <2>2, PlansRemain
<1>7. Manifest(k)'
  <2>1. \A j \in 1..k : /\ DOMAIN releases'[j].assets \subseteq DOMAIN releases'[k].assets
                        /\ DOMAIN releases'[j].objects \subseteq DOMAIN releases'[k].objects
    BY <1>1, <1>2, <1>3 DEF Manifest
  <2> QED BY <1>4, <1>5, <1>6, <2>1 DEF Manifest
<1>8. Keeps(k)'
  BY <1>1, <1>3, PlansRemain DEF Keeps
<1> QED BY <1>7, <1>8

LEMMA DraftStays ==
    ASSUME Inv, Evolves, NEW p \in Proposal, proposal'[p] = proposal[p]
    PROVE  Drafted(p)'
<1>1. Drafted(p)
  BY DEF Inv
<1>2. ASSUME Target[p] \in Asset
      PROVE  /\ DOMAIN revisions[Target[p]] \subseteq DOMAIN revisions'[Target[p]]
             /\ Range(revisions[Target[p]]) \subseteq Range(revisions'[Target[p]])
  BY <1>2 DEF Evolves, Range
<1> QED BY <1>1, <1>2 DEF Drafted

LEMMA RollingStays ==
    ASSUME Inv, Remains, NEW op \in Operator, rolling'[op] \in {0, rolling[op]}
    PROVE  /\ rolling'[op] \in 0..Len(releases')
           /\ rolling'[op] # 0 => PriorStateKnown(rolling[op])' /\ rolling'[op] = rolling[op]
<1>1. rolling[op] \in 0..Len(releases) /\ Len(releases) \in Nat /\ DOMAIN releases = 1..Len(releases)
  BY DEF Inv, Tables
<1>2. rolling[op] # 0 => rolling[op] \in DOMAIN releases /\ PriorStateKnown(rolling[op])
  BY <1>1 DEF Inv
<1>3. ASSUME NEW k, k = rolling[op], k # 0 PROVE PriorStateKnown(k)'
  BY <1>2, <1>3, PlansRemain
<1>4. rolling'[op] \in 0..Len(releases')
  BY <1>1 DEF Remains
<1> QED BY <1>4, <1>3

\* What a newest manifest carries on exists.
LEMMA LatestExist ==
    ASSUME Inv
    PROVE  /\ \A a \in DOMAIN LatestAssetPins : a \in Asset /\ LatestAssetPins[a] \in DOMAIN revisions[a]
           /\ \A o \in DOMAIN LatestObjectPins : o \in Object /\ LatestObjectPins[o] \in 1..version[o]
           /\ \A k \in DOMAIN releases : /\ DOMAIN releases[k].assets \subseteq DOMAIN LatestAssetPins
                                         /\ DOMAIN releases[k].objects \subseteq DOMAIN LatestObjectPins
<1> DEFINE n == Len(releases)
<1>1. n \in Nat /\ DOMAIN releases = 1..n
  BY DEF Inv, Tables
<1>2. CASE n = 0
  BY <1>1, <1>2, LatestPins
<1>3. CASE n # 0
  <2>1. n \in DOMAIN releases /\ Manifest(n) /\ IsManifest(releases[n])
    BY <1>1, <1>3 DEF Inv, Manifest
  <2>2. \A k \in DOMAIN releases : k \in 1..n
    BY <1>1
  <2> QED BY <1>3, <2>1, <2>2, LatestPins DEF IsManifest, Manifest
<1> QED BY <1>2, <1>3

LEMMA NewManifest ==
    ASSUME Inv, Evolves, NEW r \in Release, Publish(r), content' \in [Object -> Value], IsManifest(r)',
           \A k \in DOMAIN releases : /\ DOMAIN releases[k].assets \subseteq DOMAIN r.assets
                                      /\ DOMAIN releases[k].objects \subseteq DOMAIN r.objects,
           r.origin # NoProposalID =>
                /\ proposal'[r.origin].state = "released"
                /\ Target[r.origin] \in DOMAIN r.assets \union DOMAIN r.objects,
           r.undoes # 0 => r.undoes = Len(releases) /\ r.undoes \in DOMAIN releases /\ PriorStateKnown(r.undoes),
           \A o \in Object : content'[o] # content[o] =>
                o \in DOMAIN r.objects /\ (r.origin # NoProposalID => Target[r.origin] = o)
    PROVE  \A k \in DOMAIN releases' : Manifest(k)' /\ Keeps(k)'
<1>1. PICK n \in Nat : n = Len(releases)
  BY DEF Inv, Tables
<1>2. /\ Remains /\ releases'[n + 1] = r /\ contentBefore'[n + 1] = content
      /\ \A k : k = n + 1 => ContentAfter(k)' = content'
      /\ DOMAIN releases' = DOMAIN releases \union {n + 1} /\ DOMAIN releases = 1..n
  <2>1. DOMAIN releases = 1..n
    BY <1>1 DEF Inv, Tables
  <2> QED BY <1>1, <2>1, RemainsPublished
<1>3. \A k \in DOMAIN releases : Manifest(k)' /\ Keeps(k)'
  BY <1>2, ReleasesStay
<1>4. HasOrigin(n + 1)' <=> r.origin # NoProposalID
  BY <1>2 DEF HasOrigin
<1>5. Manifest(n + 1)'
  <2>1. \A j \in 1..(n + 1) : /\ DOMAIN releases'[j].assets \subseteq DOMAIN releases'[n + 1].assets
                              /\ DOMAIN releases'[j].objects \subseteq DOMAIN releases'[n + 1].objects
    <3>1. \A j \in 1..(n + 1) : j \in DOMAIN releases \/ j = n + 1
      BY <1>2
    <3> QED BY <1>2, <3>1 DEF Remains
  <2>2. IsManifest(releases[n + 1])'
    BY <1>2 DEF IsManifest
  <2>3. r.undoes # 0 => n + 1 > 1 /\ r.undoes = n /\ PriorStateKnown(n)'
    BY <1>1, <1>2, PlansRemain
  <2>4. (n + 1) - 1 = n
    OBVIOUS
  <2> QED BY <1>2, <1>4, <2>1, <2>2, <2>3, <2>4 DEF Manifest
<1>6. Keeps(n + 1)'
  <2>1. \A o \in Object : content'[o] # content[o] => o \in RestoredObjects(n + 1)'
    BY <1>2, <1>4 DEF RestoredObjects
  <2>2. ContentAfter(n + 1)' = content'
    BY <1>2
  <2> QED BY <1>2, <2>1, <2>2 DEF Keeps
<1> QED BY <1>2, <1>3, <1>5, <1>6

-----------------------------------------------------------------------------
(* The steps.                                                              *)

LEMMA Appended ==
    ASSUME Inv, NEW a \in Asset, NEW v \in Value, IsNew(a, v),
           revisions' = [revisions EXCEPT ![a] = Append(@, v)],
           current' = [current EXCEPT ![a] = Len(revisions[a]) + 1]
    PROVE  /\ revisions' \in [Asset -> Seq(Value)] /\ current' \in [Asset -> Nat]
           /\ \A b \in Asset : HasRevisions(b)'
           /\ \A b \in Asset : /\ DOMAIN revisions[b] \subseteq DOMAIN revisions'[b]
                               /\ \A r \in DOMAIN revisions[b] : revisions'[b][r] = revisions[b][r]
           /\ \A b \in Asset \ {a} : current'[b] = current[b] /\ revisions'[b] = revisions[b]
           /\ v \in Range(revisions'[a]) /\ v \notin Range(revisions[a])
           /\ current'[a] \in DOMAIN revisions'[a] \ DOMAIN revisions[a]
           /\ current'[a] = Len(revisions[a]) + 1 /\ revisions'[a][current'[a]] = v
<1> DEFINE n == Len(revisions[a])
<1>1. revisions \in [Asset -> Seq(Value)] /\ current \in [Asset -> Nat] /\ revisions[a] \in Seq(Value) /\ n \in Nat
  BY DEF Inv, Tables
<1>2. /\ revisions' \in [Asset -> Seq(Value)] /\ revisions'[a] = Append(revisions[a], v)
      /\ \A b \in Asset \ {a} : revisions'[b] = revisions[b]
  BY <1>1
<1>3. /\ current' \in [Asset -> Nat] /\ current'[a] = n + 1
      /\ \A b \in Asset \ {a} : current'[b] = current[b]
  BY <1>1
<1>4. /\ DOMAIN revisions[a] = 1..n /\ DOMAIN revisions'[a] = 1..(n + 1)
      /\ \A r \in 1..n : revisions'[a][r] = revisions[a][r]
      /\ revisions'[a][n + 1] = v
  BY <1>1, <1>2
<1>5. v \notin Range(revisions[a]) /\ v \in Range(revisions'[a])
  <2>1. n + 1 \in DOMAIN revisions'[a]
    BY <1>1, <1>4
  <2>2. v \in {revisions'[a][r] : r \in DOMAIN revisions'[a]}
    BY <1>4, <2>1
  <2> QED BY <2>2 DEF IsNew, Range
<1>6. n + 1 \in DOMAIN revisions'[a] \ DOMAIN revisions[a] /\ DOMAIN revisions[a] \subseteq DOMAIN revisions'[a]
  BY <1>1, <1>4
<1>7. HasRevisions(a)'
  <2>1. \A r \in 1..n : revisions[a][r] # v
    BY <1>4, <1>5 DEF Range
  <2>2. \A r, s \in 1..n : revisions[a][r] = revisions[a][s] => r = s
    BY <1>4 DEF Inv, HasRevisions, IsInjective
  <2>3. IsInjective(revisions'[a])
    <3>1. \A r \in 1..(n + 1) : r \in 1..n \/ r = n + 1
      BY <1>1
    <3> QED BY <1>4, <2>1, <2>2, <3>1 DEF IsInjective
  <2> QED BY <1>3, <1>6, <2>3 DEF HasRevisions
<1>8. \A b \in Asset \ {a} : HasRevisions(b)'
  BY <1>2, <1>3 DEF Inv, HasRevisions
<1> QED BY <1>2, <1>3, <1>4, <1>5, <1>6, <1>7, <1>8

LEMMA AppendKeeps == ASSUME Inv, NEW a \in Asset, AppendRevision(a) PROVE Inv'
<1>1. PICK v \in Value : IsNew(a, v) /\ revisions' = [revisions EXCEPT ![a] = Append(@, v)]
  BY DEF AppendRevision
<1>2. /\ current' = [current EXCEPT ![a] = Len(revisions[a]) + 1]
      /\ appends < MaxAppends /\ appends' = appends + 1
      /\ UNCHANGED <<version, content, proposal, releases, rolling, contentBefore>>
  BY DEF AppendRevision
<1>3. Evolves
  BY <1>1, <1>2, Appended DEF Evolves, Inv, Tables
<1>4. Remains
  BY <1>2, RemainsQuietly
<1>5. Tables'
  BY <1>1, <1>2, Appended, ReleaseAssumption DEF Inv, Tables, ReleaseAssumption
<1>6. \A b \in Asset : HasRevisions(b)'
  BY <1>1, <1>2, Appended
<1>7. \A p \in Proposal : Drafted(p)'
  BY <1>2, <1>3, DraftStays
<1>8. \A k \in DOMAIN releases' : Manifest(k)' /\ Keeps(k)'
  BY <1>2, <1>3, <1>4, ReleasesStay
<1>9. \A op \in Operator : rolling'[op] # 0 => PriorStateKnown(rolling[op])'
  BY <1>2, <1>4, RollingStays
<1> QED BY <1>5, <1>6, <1>7, <1>8, <1>9 DEF Inv

LEMMA OpenKeeps ==
    ASSUME Inv, NEW p \in Proposal, NEW row, proposal' = [proposal EXCEPT ![p] = row], proposal[p] = NoProposal,
           Target[p] \in Asset => row \in [state: {"in_review"}, base: DOMAIN revisions[Target[p]], after: Value],
           Target[p] \in Object => row \in [state: {"in_review"}, before: Value, after: Value],
           UNCHANGED <<revisions, current, version, content, releases, rolling, appends, contentBefore>>
    PROVE  Inv'
<1>1. Target[p] \in Asset \union Object /\ revisions \in [Asset -> Seq(Value)]
  BY ReleaseAssumption DEF ReleaseAssumption, Inv, Tables
<1>2. row \in Proposed /\ row.state = "in_review"
  BY <1>1 DEF Proposed
<1>3. proposal' \in [Proposal -> Proposed] /\ proposal'[p] = row /\ \A q \in Proposal \ {p} : proposal'[q] = proposal[q]
  BY <1>2 DEF Inv, Tables
<1>4. Evolves
  BY <1>3 DEF Evolves, Inv, Tables, NoProposal
<1>5. Remains
  BY RemainsQuietly
<1>6. Tables'
  BY <1>3 DEF Inv, Tables
<1>7. Drafted(p)'
  BY <1>2, <1>3 DEF Drafted, States
<1>8. \A q \in Proposal : Drafted(q)'
  BY <1>3, <1>4, <1>7, DraftStays
<1>9. \A k \in DOMAIN releases' : Manifest(k)' /\ Keeps(k)'
  BY <1>4, <1>5, ReleasesStay
<1>10. \A op \in Operator : rolling'[op] # 0 => PriorStateKnown(rolling[op])'
  BY <1>5, RollingStays
<1>11. \A b \in Asset : HasRevisions(b)'
  BY DEF Inv, HasRevisions
<1> QED BY <1>6, <1>8, <1>9, <1>10, <1>11 DEF Inv

LEMMA OpenAssetKeeps == ASSUME Inv, NEW p \in Proposal, OpenAssetProposal(p) PROVE Inv'
<1>1. PICK base \in DOMAIN revisions[Target[p]], after \in Value :
        proposal' = [proposal EXCEPT ![p] = [state |-> "in_review", base |-> base, after |-> after]]
  BY DEF OpenAssetProposal
<1>2. Target[p] \in Asset /\ Target[p] \notin Object
  BY ReleaseAssumption DEF OpenAssetProposal, ReleaseAssumption
<1> QED BY <1>1, <1>2, OpenKeeps DEF OpenAssetProposal

LEMMA OpenObjectKeeps == ASSUME Inv, NEW p \in Proposal, OpenObjectProposal(p) PROVE Inv'
<1>1. PICK after \in Value : proposal' = [proposal EXCEPT ![p] =
        [state |-> "in_review", before |-> content[Target[p]], after |-> after]]
  BY DEF OpenObjectProposal
<1>2. Target[p] \in Object /\ Target[p] \notin Asset /\ content[Target[p]] \in Value
  BY ReleaseAssumption DEF OpenObjectProposal, ReleaseAssumption, Inv, Tables
<1> QED BY <1>1, <1>2, OpenKeeps DEF OpenObjectProposal

\* Planning and giving up a rollback.
LEMMA RollingKeeps ==
    ASSUME Inv, NEW op \in Operator, PlanRollback(op) \/ RestoreConflict(op)
    PROVE  Inv'
<1>1. PICK t \in 0..Len(releases) : rolling' = [rolling EXCEPT ![op] = t] /\ (t # 0 => PriorStateKnown(t))
  BY DEF PlanRollback, RestoreConflict, Inv, Tables
<1>2. UNCHANGED <<revisions, current, version, content, proposal, releases, appends, contentBefore>>
  BY DEF PlanRollback, RestoreConflict
<1>3. /\ rolling' \in [Operator -> 0..Len(releases)] /\ rolling'[op] = t
      /\ \A other \in Operator \ {op} : rolling'[other] = rolling[other]
  BY <1>1 DEF Inv, Tables
<1>4. Evolves /\ Remains
  BY <1>2, RemainsQuietly DEF Evolves, Inv, Tables
<1>5. Tables'
  BY <1>2, <1>3 DEF Inv, Tables
<1>6. \A p \in Proposal : Drafted(p)'
  BY <1>2, <1>4, DraftStays
<1>7. \A k \in DOMAIN releases' : Manifest(k)' /\ Keeps(k)'
  BY <1>2, <1>4, ReleasesStay
<1>8. \A other \in Operator : rolling'[other] # 0 => PriorStateKnown(rolling[other])'
  <2>1. t # 0 => PriorStateKnown(t)'
    <3>1. t # 0 => t \in DOMAIN releases
      BY DEF Inv, Tables
    <3> QED BY <1>1, <1>4, <3>1, PlansRemain
  <2>2. \A other \in Operator \ {op} : rolling'[other] # 0 => PriorStateKnown(rolling[other])'
    BY <1>3, <1>4, RollingStays
  <2> QED BY <1>3, <2>1, <2>2
<1>9. \A b \in Asset : HasRevisions(b)'
  BY <1>2 DEF Inv, HasRevisions
<1> QED BY <1>5, <1>6, <1>7, <1>8, <1>9 DEF Inv

LEMMA CarriedAt ==
    ASSUME NEW f, NEW g
    PROVE  /\ DOMAIN Carried(f, g) = DOMAIN f \union DOMAIN g
           /\ \A x \in DOMAIN f : Carried(f, g)[x] = f[x]
           /\ \A x \in DOMAIN g \ DOMAIN f : Carried(f, g)[x] = g[x]
  BY DEF Carried, Over

\* The manifest of a publish: its own pin over those of the newest manifest.
IsPublished(r, p, f, g) ==
    /\ r \in Release /\ r.origin = p /\ r.undoes = 0
    /\ DOMAIN r.assets = DOMAIN f \union DOMAIN LatestAssetPins
    /\ \A a \in DOMAIN f : r.assets[a] = f[a]
    /\ \A a \in DOMAIN LatestAssetPins \ DOMAIN f : r.assets[a] = LatestAssetPins[a]
    /\ DOMAIN r.objects = DOMAIN g \union DOMAIN LatestObjectPins
    /\ \A o \in DOMAIN g : r.objects[o] = g[o]
    /\ \A o \in DOMAIN LatestObjectPins \ DOMAIN g : r.objects[o] = LatestObjectPins[o]

LEMMA CarriedOver ==
    ASSUME Inv, NEW p \in Proposal, NEW f \in PinsOf(Asset), NEW g \in PinsOf(Object)
    PROVE  IsPublished([assets |-> Carried(f, LatestAssetPins), objects |-> Carried(g, LatestObjectPins),
                        origin |-> p, undoes |-> 0], p, f, g)
<1> DEFINE A == Carried(f, LatestAssetPins)
           B == Carried(g, LatestObjectPins)
           r == [assets |-> A, objects |-> B, origin |-> p, undoes |-> 0]
<1>1. A \in PinsOf(Asset) /\ B \in PinsOf(Object)
  BY LatestPins, OverIsPins DEF Carried
<1>2. /\ DOMAIN A = DOMAIN f \union DOMAIN LatestAssetPins
      /\ \A a \in DOMAIN f : A[a] = f[a]
      /\ \A a \in DOMAIN LatestAssetPins \ DOMAIN f : A[a] = LatestAssetPins[a]
  BY CarriedAt, Zenon
<1>3. /\ DOMAIN B = DOMAIN g \union DOMAIN LatestObjectPins
      /\ \A o \in DOMAIN g : B[o] = g[o]
      /\ \A o \in DOMAIN LatestObjectPins \ DOMAIN g : B[o] = LatestObjectPins[o]
  BY CarriedAt, Zenon
<1> HIDE DEF A, B
<1>4. r \in Release /\ r.assets = A /\ r.objects = B /\ r.origin = p /\ r.undoes = 0
  BY <1>1 DEF Release
<1> HIDE DEF r
<1>5. IsPublished(r, p, f, g)
  BY <1>2, <1>3, <1>4 DEF IsPublished
<1> QED BY <1>5 DEF r, A, B

LEMMA AssetPublished ==
    ASSUME Inv, NEW p \in Proposal, PublishAssetRevision(p)
    PROVE  LET a == Target[p]
               next == Len(revisions[a]) + 1 IN
           /\ a \in Asset /\ next \in Nat /\ BaseIsCurrent(p) /\ IsNew(a, proposal[p].after)
           /\ proposal[p] \in [state: {"in_review"}, base: DOMAIN revisions[a], after: Value]
           /\ \E r : IsPublished(r, p, Pin(a, next), NoPins) /\ Publish(r)
           /\ Pin(a, next) \in PinsOf(Asset) /\ DOMAIN Pin(a, next) = {a} /\ Pin(a, next)[a] = next
<1> DEFINE a == Target[p]
           next == Len(revisions[a]) + 1
<1>1. a \in Asset /\ proposal[p].state = "in_review" /\ BaseIsCurrent(p) /\ IsNew(a, proposal[p].after)
  BY DEF PublishAssetRevision
<1>2. next \in Nat
  BY <1>1 DEF Inv, Tables
<1>3. proposal[p] \in [state: {"in_review"}, base: DOMAIN revisions[a], after: Value]
  <2>1. proposal[p] \in {NoProposal} \union [state: States, base: DOMAIN revisions[a], after: Value]
    BY <1>1 DEF Inv, Drafted
  <2>2. proposal[p] # NoProposal
    BY <1>1 DEF NoProposal
  <2> QED BY <1>1, <2>1, <2>2 DEF States
<1>4. Pin(a, next) \in PinsOf(Asset) /\ NoPins \in PinsOf(Object)
  BY <1>1, <1>2, PinIsPins, NoPinsArePins
<1>5. \E r : IsPublished(r, p, Pin(a, next), NoPins) /\ Publish(r)
  <2>1. Publish([assets |-> Carried(Pin(a, next), LatestAssetPins), objects |-> Carried(NoPins, LatestObjectPins),
                 origin |-> p, undoes |-> 0])
    BY Zenon DEF PublishAssetRevision
  <2> HIDE DEF a, next
  <2> QED BY <1>4, <2>1, CarriedOver
<1>6. DOMAIN Pin(a, next) = {a} /\ Pin(a, next)[a] = next
  BY DEF Pin
<1> QED BY <1>1, <1>2, <1>3, <1>4, <1>5, <1>6

LEMMA ObjectPublished ==
    ASSUME Inv, NEW p \in Proposal, PublishGovernedObject(p)
    PROVE  LET o == Target[p]
               next == version[o] + 1 IN
           /\ o \in Object /\ next \in Nat
           /\ proposal[p] \in [state: {"in_review"}, before: Value, after: Value]
           /\ \E r : IsPublished(r, p, NoPins, Pin(o, next)) /\ Publish(r)
           /\ DOMAIN Pin(o, next) = {o} /\ Pin(o, next)[o] = next
<1> DEFINE o == Target[p]
           next == version[o] + 1
<1>1. o \in Object /\ proposal[p].state = "in_review"
  BY DEF PublishGovernedObject
<1>2. next \in Nat
  BY <1>1 DEF Inv, Tables
<1>3. proposal[p] \in [state: {"in_review"}, before: Value, after: Value]
  <2>1. proposal[p] \in {NoProposal} \union [state: States, before: Value, after: Value]
    BY <1>1 DEF Inv, Drafted
  <2>2. proposal[p] # NoProposal
    BY <1>1 DEF NoProposal
  <2> QED BY <1>1, <2>1, <2>2 DEF States
<1>4. Pin(o, next) \in PinsOf(Object) /\ NoPins \in PinsOf(Asset)
  BY <1>1, <1>2, PinIsPins, NoPinsArePins
<1>5. \E r : IsPublished(r, p, NoPins, Pin(o, next)) /\ Publish(r)
  <2>1. Publish([assets |-> Carried(NoPins, LatestAssetPins), objects |-> Carried(Pin(o, next), LatestObjectPins),
                 origin |-> p, undoes |-> 0])
    BY Zenon DEF PublishGovernedObject
  <2> HIDE DEF o, next
  <2> QED BY <1>4, <2>1, CarriedOver
<1>6. DOMAIN Pin(o, next) = {o} /\ Pin(o, next)[o] = next
  BY DEF Pin
<1> QED BY <1>1, <1>2, <1>3, <1>4, <1>5, <1>6

\* The proposal of a publish is marked in its transaction.
LEMMA Marked ==
    ASSUME Inv, NEW p \in Proposal, proposal[p].state = "in_review",
           proposal' = [proposal EXCEPT ![p].state = "released"]
    PROVE  /\ proposal' \in [Proposal -> Proposed] /\ proposal'[p].state = "released"
           /\ proposal[p].state # "released"
           /\ \A q \in Proposal \ {p} : proposal'[q] = proposal[q]
<1>1. proposal \in [Proposal -> Proposed]
  BY DEF Inv, Tables
<1>2. proposal[p] \in Proposed /\ proposal[p] # NoProposal
  BY <1>1 DEF NoProposal
<1>3. CASE proposal[p] \in [state: {"in_review", "released"}, base: Nat, after: Value]
  BY <1>1, <1>3 DEF Proposed
<1>4. CASE proposal[p] \in [state: {"in_review", "released"}, before: Value, after: Value]
  BY <1>1, <1>4 DEF Proposed
<1> QED BY <1>2, <1>3, <1>4 DEF Proposed

LEMMA PublishAssetKeeps == ASSUME Inv, NEW p \in Proposal, PublishAssetRevision(p) PROVE Inv'
<1>1. PICK a \in Asset : a = Target[p]
  BY DEF PublishAssetRevision
<1>2. PICK next \in Nat : next = Len(revisions[a]) + 1
  BY <1>1, AssetPublished
<1>3. PICK v \in Value : v = proposal[p].after
  BY AssetPublished
<1>4. PICK r \in Release : IsPublished(r, p, Pin(a, next), NoPins) /\ Publish(r)
  <2>1. \E r : IsPublished(r, p, Pin(Target[p], Len(revisions[Target[p]]) + 1), NoPins) /\ Publish(r)
    BY AssetPublished
  <2>2. \E r : IsPublished(r, p, Pin(a, next), NoPins) /\ Publish(r)
    BY <1>1, <1>2, <2>1, Zenon
  <2> QED BY <2>2 DEF IsPublished
<1>5. /\ DOMAIN Pin(a, next) = {a} /\ Pin(a, next)[a] = next /\ DOMAIN NoPins = {}
      /\ IsNew(a, v) /\ proposal[p].state = "in_review" /\ a \notin Object
  BY <1>1, <1>2, <1>3, AssetPublished, ReleaseAssumption DEF NoPins, ReleaseAssumption
<1>6. /\ revisions' = [revisions EXCEPT ![a] = Append(@, v)]
      /\ current' = [current EXCEPT ![a] = Len(revisions[a]) + 1]
      /\ proposal' = [proposal EXCEPT ![p].state = "released"]
      /\ UNCHANGED <<version, content, rolling, appends>>
  BY <1>1, <1>2, <1>3 DEF PublishAssetRevision
<1>7. Evolves
  BY <1>5, <1>6, Appended, Marked, SMTT(30) DEF Evolves, Inv, Tables
<1>8. content' \in [Object -> Value] /\ content' = content
  BY <1>6 DEF Inv, Tables
<1>9. Remains
  BY <1>4, <1>8, RemainsPublished
<1>10. Tables'
  <2>1. revisions' \in [Asset -> Seq(Value)] /\ current' \in [Asset -> Nat]
    BY <1>5, <1>6, Appended
  <2>2. proposal' \in [Proposal -> Proposed]
    BY <1>5, <1>6, Marked
  <2>3. /\ releases' \in Seq(Release) /\ Len(releases') <= MaxReleases
        /\ contentBefore' \in Seq([Object -> Value]) /\ Len(contentBefore') = Len(releases')
    BY <1>4, <1>8, RemainsPublished
  <2>4. rolling' \in [Operator -> 0..Len(releases')]
    BY <1>6, <1>9 DEF Inv, Tables, Remains
  <2> QED BY <1>6, <1>8, <2>1, <2>2, <2>3, <2>4 DEF Inv, Tables
<1>11. \A b \in Asset : HasRevisions(b)'
  BY <1>5, <1>6, Appended
<1>12. Drafted(p)'
  <2>1. proposal[p] \in [state: {"in_review"}, base: DOMAIN revisions[a], after: Value]
    BY <1>1, AssetPublished
  <2>2. proposal'[p] = [proposal[p] EXCEPT !.state = "released"]
    BY <1>6 DEF Inv, Tables
  <2>3. proposal'[p] \in [state: States, base: DOMAIN revisions[a], after: Value] /\ proposal'[p].after = v
    BY <1>3, <2>1, <2>2 DEF States
  <2>4. DOMAIN revisions[a] \subseteq DOMAIN revisions'[a] /\ v \in Range(revisions'[a])
    BY <1>5, <1>6, Appended
  <2> QED BY <1>1, <1>5, <2>3, <2>4 DEF Drafted
<1>13. \A q \in Proposal : Drafted(q)'
  BY <1>5, <1>6, <1>7, <1>12, Marked, DraftStays
<1>14. IsManifest(r)'
  <2>1. next \in DOMAIN revisions'[a] /\ \A b \in Asset : DOMAIN revisions[b] \subseteq DOMAIN revisions'[b]
    BY <1>2, <1>5, <1>6, Appended
  <2> QED BY <1>4, <1>5, <1>6, <2>1, LatestExist DEF IsManifest, IsPublished
<1>15. \A k \in DOMAIN releases' : Manifest(k)' /\ Keeps(k)'
  <2>1. /\ \A k \in DOMAIN releases : /\ DOMAIN releases[k].assets \subseteq DOMAIN r.assets
                                      /\ DOMAIN releases[k].objects \subseteq DOMAIN r.objects
        /\ proposal'[r.origin].state = "released" /\ Target[r.origin] \in DOMAIN r.assets
        /\ r.undoes = 0
    BY <1>1, <1>4, <1>5, <1>6, LatestExist, Marked DEF IsPublished
  <2> QED BY <1>4, <1>7, <1>8, <1>14, <2>1, NewManifest
<1>16. \A op \in Operator : rolling'[op] # 0 => PriorStateKnown(rolling[op])'
  BY <1>6, <1>9, RollingStays
<1> QED BY <1>10, <1>11, <1>13, <1>15, <1>16 DEF Inv

LEMMA PublishObjectKeeps == ASSUME Inv, NEW p \in Proposal, PublishGovernedObject(p) PROVE Inv'
<1>1. PICK o \in Object : o = Target[p]
  BY DEF PublishGovernedObject
<1>2. PICK next \in Nat : next = version[o] + 1
  BY <1>1, ObjectPublished
<1>3. PICK r \in Release : IsPublished(r, p, NoPins, Pin(o, next)) /\ Publish(r)
  <2>1. \E r : IsPublished(r, p, NoPins, Pin(Target[p], version[Target[p]] + 1)) /\ Publish(r)
    BY ObjectPublished
  <2>2. \E r : IsPublished(r, p, NoPins, Pin(o, next)) /\ Publish(r)
    BY <1>1, <1>2, <2>1, Zenon
  <2> QED BY <2>2 DEF IsPublished
<1>4. /\ DOMAIN Pin(o, next) = {o} /\ Pin(o, next)[o] = next /\ DOMAIN NoPins = {}
      /\ proposal[p] \in [state: {"in_review"}, before: Value, after: Value] /\ o \notin Asset
  BY <1>1, <1>2, ObjectPublished, ReleaseAssumption DEF NoPins, ReleaseAssumption
<1>5. /\ content' = [content EXCEPT ![o] = proposal[p].after]
      /\ version' = [version EXCEPT ![o] = next]
      /\ proposal' = [proposal EXCEPT ![p].state = "released"]
      /\ UNCHANGED <<revisions, current, rolling, appends>>
  BY <1>1, <1>2 DEF PublishGovernedObject
<1>6. /\ content' \in [Object -> Value] /\ version' \in [Object -> Nat] /\ version'[o] = next
      /\ \A q \in Object \ {o} : content'[q] = content[q] /\ version'[q] = version[q]
  BY <1>2, <1>4, <1>5 DEF Inv, Tables
<1>7. Evolves
  BY <1>2, <1>4, <1>5, <1>6, Marked DEF Evolves, Inv, Tables
<1>8. Remains
  BY <1>3, <1>6, RemainsPublished
<1>9. Tables'
  <2>1. proposal' \in [Proposal -> Proposed]
    BY <1>4, <1>5, Marked
  <2>2. /\ releases' \in Seq(Release) /\ Len(releases') <= MaxReleases
        /\ contentBefore' \in Seq([Object -> Value]) /\ Len(contentBefore') = Len(releases')
    BY <1>3, <1>6, RemainsPublished
  <2>3. rolling' \in [Operator -> 0..Len(releases')]
    BY <1>5, <1>8 DEF Inv, Tables, Remains
  <2> QED BY <1>5, <1>6, <2>1, <2>2, <2>3 DEF Inv, Tables
<1>10. \A b \in Asset : HasRevisions(b)'
  BY <1>5 DEF Inv, HasRevisions
<1>11. Drafted(p)'
  <2>1. proposal'[p] = [proposal[p] EXCEPT !.state = "released"]
    BY <1>5 DEF Inv, Tables
  <2>2. proposal'[p] \in [state: States, before: Value, after: Value]
    BY <1>4, <2>1 DEF States
  <2> QED BY <1>1, <1>4, <2>2 DEF Drafted
<1>12. \A q \in Proposal : Drafted(q)'
  BY <1>4, <1>5, <1>7, <1>11, Marked, DraftStays
<1>13. IsManifest(r)'
  <2>1. \A q \in DOMAIN r.objects : q \in Object /\ r.objects[q] \in 1..version'[q]
    <3>1. o \in DOMAIN r.objects => r.objects[o] \in 1..version'[o]
      BY <1>2, <1>3, <1>4, <1>6 DEF IsPublished, Inv, Tables
    <3>2. \A q \in DOMAIN r.objects \ {o} : q \in Object /\ r.objects[q] \in 1..version[q]
      BY <1>3, <1>4, LatestExist DEF IsPublished
    <3> QED BY <1>6, <3>1, <3>2
  <2>2. \A b \in DOMAIN r.assets : b \in Asset /\ r.assets[b] \in DOMAIN revisions'[b]
    BY <1>3, <1>4, <1>5, LatestExist DEF IsPublished
  <2> QED BY <1>3, <2>1, <2>2 DEF IsManifest, IsPublished
<1>14. \A k \in DOMAIN releases' : Manifest(k)' /\ Keeps(k)'
  <2>1. /\ \A k \in DOMAIN releases : /\ DOMAIN releases[k].assets \subseteq DOMAIN r.assets
                                      /\ DOMAIN releases[k].objects \subseteq DOMAIN r.objects
        /\ proposal'[r.origin].state = "released" /\ Target[r.origin] \in DOMAIN r.objects
        /\ r.undoes = 0
    BY <1>1, <1>3, <1>4, <1>5, LatestExist, Marked DEF IsPublished
  <2>2. \A q \in Object : content'[q] # content[q] => q \in DOMAIN r.objects /\ Target[r.origin] = q
    BY <1>1, <1>3, <1>4, <1>6 DEF IsPublished
  <2> QED BY <1>3, <1>6, <1>7, <1>13, <2>1, <2>2, NewManifest
<1>15. \A op \in Operator : rolling'[op] # 0 => PriorStateKnown(rolling[op])'
  BY <1>5, <1>8, RollingStays
<1> QED BY <1>9, <1>10, <1>12, <1>14, <1>15 DEF Inv

\* What a rollback goes back to exists.
LEMMA RestoredPinExists ==
    ASSUME Inv, NEW t \in DOMAIN releases, PriorStateKnown(t), NEW a \in RestoredAssets(t)
    PROVE  a \in Asset /\ RestoredPin(t, a) \in DOMAIN revisions[a] /\ RestoredPin(t, a) \in Nat
<1>1. a \in Asset /\ a \in DOMAIN releases[t].assets /\ DOMAIN revisions[a] \subseteq Nat /\ Manifest(t)
  <2>1. a \in DOMAIN releases[t].assets /\ a \in Asset
    BY InRelease DEF RestoredAssets
  <2>2. revisions[a] \in Seq(Value)
    BY <2>1 DEF Inv, Tables
  <2> QED BY <2>1, <2>2 DEF Inv
<1>2. CASE ReleasesBefore(t, a) # {}
  <2>1. RestoredPin(t, a) = releases[t - 1].assets[a] /\ t - 1 \in DOMAIN releases /\ a \in DOMAIN releases[t - 1].assets
    BY <1>2, PinBeforeIs DEF RestoredPin
  <2>2. IsManifest(releases[t - 1])
    BY <2>1 DEF Inv, Manifest
  <2> QED BY <1>1, <2>1, <2>2 DEF IsManifest
<1>3. CASE ReleasesBefore(t, a) = {}
  <2>1. HasOrigin(t)
    BY <1>3 DEF PriorStateKnown
  <2>2. Target[releases[t].origin] = a /\ releases[t].origin \in Proposal
        /\ proposal[releases[t].origin].state = "released"
    BY <1>1, <2>1 DEF RestoredAssets, Manifest, IsManifest, HasOrigin
  <2>3. proposal[releases[t].origin].base \in DOMAIN revisions[a]
    BY <1>1, <2>2 DEF Inv, Drafted, NoProposal
  <2> QED BY <1>1, <1>3, <2>3 DEF RestoredPin
<1> QED BY <1>2, <1>3

LEMMA RestoredContentExists ==
    ASSUME Inv, NEW t \in DOMAIN releases, PriorStateKnown(t), NEW o \in RestoredObjects(t)
    PROVE  o \in Object /\ RestoredContent(t) \in Value /\ HasOrigin(t)
<1>1. o \in Object /\ Manifest(t)
  BY InRelease DEF RestoredObjects, Inv
<1>2. HasOrigin(t)
  BY DEF PriorStateKnown
<1>3. Target[releases[t].origin] = o /\ releases[t].origin \in Proposal
      /\ proposal[releases[t].origin].state = "released"
  BY <1>1, <1>2 DEF RestoredObjects, Manifest, IsManifest, HasOrigin
<1>4. proposal[releases[t].origin].before \in Value
  BY <1>1, <1>3 DEF Inv, Drafted, NoProposal
<1> QED BY <1>1, <1>2, <1>4 DEF RestoredContent

\* The manifest of a rollback: what it restores over the newest manifest.
IsRestored(r, t) ==
    /\ r \in Release /\ r.origin = NoProposalID /\ r.undoes = t
    /\ DOMAIN r.assets = DOMAIN releases[t].assets
    /\ \A a \in DOMAIN r.assets :
        r.assets[a] = IF a \in RestoredAssets(t) THEN RestoredPin(t, a) ELSE releases[t].assets[a]
    /\ DOMAIN r.objects = DOMAIN releases[t].objects
    /\ \A o \in DOMAIN r.objects :
        r.objects[o] = IF o \in RestoredObjects(t) THEN version[o] + 1 ELSE releases[t].objects[o]

LEMMA RestoredManifest ==
    ASSUME Inv, NEW t \in DOMAIN releases, PriorStateKnown(t)
    PROVE  IsRestored([assets |-> Over([a \in RestoredAssets(t) |-> RestoredPin(t, a)], releases[t].assets),
                       objects |-> Over([o \in RestoredObjects(t) |-> version[o] + 1], releases[t].objects),
                       origin |-> NoProposalID, undoes |-> t], t)
<1> DEFINE f == [a \in RestoredAssets(t) |-> RestoredPin(t, a)]
           g == [o \in RestoredObjects(t) |-> version[o] + 1]
           A == Over(f, releases[t].assets)
           B == Over(g, releases[t].objects)
           r == [assets |-> A, objects |-> B, origin |-> NoProposalID, undoes |-> t]
<1>1. /\ RestoredAssets(t) \in SUBSET DOMAIN releases[t].assets /\ RestoredObjects(t) \in SUBSET DOMAIN releases[t].objects
      /\ releases[t].assets \in PinsOf(Asset) /\ releases[t].objects \in PinsOf(Object) /\ t \in Nat
      /\ DOMAIN releases[t].assets \subseteq Asset /\ DOMAIN releases[t].objects \subseteq Object
  BY InRelease DEF RestoredAssets, RestoredObjects, Release
<1>2. f \in PinsOf(Asset) /\ g \in PinsOf(Object)
  <2>1. f \in [RestoredAssets(t) -> Nat] /\ RestoredAssets(t) \in SUBSET Asset
    BY <1>1, RestoredPinExists
  <2>2. g \in [RestoredObjects(t) -> Nat] /\ RestoredObjects(t) \in SUBSET Object
    BY <1>1 DEF Inv, Tables
  <2> HIDE DEF f, g
  <2> QED BY <2>1, <2>2, ArePins
<1>3. A \in PinsOf(Asset) /\ B \in PinsOf(Object)
  BY <1>1, <1>2, OverIsPins
<1>4. /\ DOMAIN A = DOMAIN releases[t].assets
      /\ \A a \in DOMAIN A : A[a] = IF a \in RestoredAssets(t) THEN RestoredPin(t, a) ELSE releases[t].assets[a]
  BY <1>1 DEF Over
<1>5. /\ DOMAIN B = DOMAIN releases[t].objects
      /\ \A o \in DOMAIN B : B[o] = IF o \in RestoredObjects(t) THEN version[o] + 1 ELSE releases[t].objects[o]
  BY <1>1 DEF Over
<1> HIDE DEF A, B
<1>6. r \in Release /\ r.assets = A /\ r.objects = B /\ r.origin = NoProposalID /\ r.undoes = t
  BY <1>1, <1>3 DEF Release
<1> HIDE DEF r
<1>7. IsRestored(r, t)
  BY <1>4, <1>5, <1>6 DEF IsRestored
<1> QED BY <1>7 DEF r, A, B

LEMMA Restored ==
    ASSUME Inv, NEW op \in Operator, RestoreRelease(op)
    PROVE  \E t \in DOMAIN releases :
            /\ t = rolling[op] /\ t = Len(releases) /\ PriorStateKnown(t) /\ NotRolledBack(t) /\ NotMoved(t)
            /\ current' \in [Asset -> Nat] /\ version' \in [Object -> Nat] /\ content' \in [Object -> Value]
            /\ \A a \in Asset : current'[a] = IF a \in RestoredAssets(t) THEN RestoredPin(t, a) ELSE current[a]
            /\ \A o \in Object : /\ version'[o] = IF o \in RestoredObjects(t) THEN version[o] + 1 ELSE version[o]
                                 /\ content'[o] = IF o \in RestoredObjects(t) THEN RestoredContent(t) ELSE content[o]
            /\ \E r : IsRestored(r, t) /\ Publish(r)
            /\ rolling' = [rolling EXCEPT ![op] = 0]
            /\ UNCHANGED <<revisions, proposal, appends>>
<1>1. PICK t : t = rolling[op]
  OBVIOUS
<1>2. t \in DOMAIN releases /\ t = Len(releases) /\ PriorStateKnown(t) /\ NotRolledBack(t) /\ NotMoved(t)
  BY <1>1 DEF RestoreRelease, StillRollable, IsLatest, Inv, Tables
<1>3. /\ RestoredAssets(t) \subseteq Asset /\ RestoredObjects(t) \subseteq Object
      /\ current \in [Asset -> Nat] /\ version \in [Object -> Nat] /\ content \in [Object -> Value]
  BY <1>2, InRelease DEF RestoredAssets, RestoredObjects, Inv, Tables
<1>4. /\ current' = Over([a \in RestoredAssets(t) |-> RestoredPin(t, a)], current)
      /\ version' = Over([o \in RestoredObjects(t) |-> version[o] + 1], version)
      /\ content' = Over([o \in RestoredObjects(t) |-> RestoredContent(t)], content)
      /\ Publish([assets |-> Over([a \in RestoredAssets(t) |-> RestoredPin(t, a)], releases[t].assets),
                  objects |-> Over([o \in RestoredObjects(t) |-> version[o] + 1], releases[t].objects),
                  origin |-> NoProposalID, undoes |-> t])
      /\ rolling' = [rolling EXCEPT ![op] = 0]
      /\ UNCHANGED <<revisions, proposal, appends>>
  BY <1>1, Zenon DEF RestoreRelease
<1>5. /\ current' \in [Asset -> Nat]
      /\ \A a \in Asset : current'[a] = IF a \in RestoredAssets(t) THEN RestoredPin(t, a) ELSE current[a]
  BY <1>2, <1>3, <1>4, RestoredPinExists DEF Over
<1>6. /\ version' \in [Object -> Nat]
      /\ \A o \in Object : version'[o] = IF o \in RestoredObjects(t) THEN version[o] + 1 ELSE version[o]
  BY <1>3, <1>4 DEF Over
<1>7. /\ content' \in [Object -> Value]
      /\ \A o \in Object : content'[o] = IF o \in RestoredObjects(t) THEN RestoredContent(t) ELSE content[o]
  BY <1>2, <1>3, <1>4, RestoredContentExists DEF Over
<1>8. \E r : IsRestored(r, t) /\ Publish(r)
  BY <1>2, <1>4, RestoredManifest
<1> QED BY <1>1, <1>2, <1>4, <1>5, <1>6, <1>7, <1>8

LEMMA RestoreKeeps == ASSUME Inv, NEW op \in Operator, RestoreRelease(op) PROVE Inv'
<1>1. PICK t \in DOMAIN releases :
            /\ t = rolling[op] /\ t = Len(releases) /\ PriorStateKnown(t) /\ NotRolledBack(t) /\ NotMoved(t)
            /\ current' \in [Asset -> Nat] /\ version' \in [Object -> Nat] /\ content' \in [Object -> Value]
            /\ \A a \in Asset : current'[a] = IF a \in RestoredAssets(t) THEN RestoredPin(t, a) ELSE current[a]
            /\ \A o \in Object : /\ version'[o] = IF o \in RestoredObjects(t) THEN version[o] + 1 ELSE version[o]
                                 /\ content'[o] = IF o \in RestoredObjects(t) THEN RestoredContent(t) ELSE content[o]
            /\ \E r : IsRestored(r, t) /\ Publish(r)
            /\ rolling' = [rolling EXCEPT ![op] = 0]
            /\ UNCHANGED <<revisions, proposal, appends>>
  BY Restored
<1>2. PICK r \in Release : IsRestored(r, t) /\ Publish(r)
  BY <1>1 DEF IsRestored
<1>3. Manifest(t) /\ IsManifest(releases[t]) /\ t \in 1..Len(releases) /\ Len(releases) \in Nat
  <2>1. Manifest(t)
    BY DEF Inv
  <2>2. IsManifest(releases[t])
    BY <2>1 DEF Manifest
  <2>3. releases \in Seq(Release)
    BY DEF Inv, Tables
  <2> QED BY <2>1, <2>2, <2>3
<1>4. Evolves
  <2>1. \A o \in Object : version[o] \in Nat /\ version'[o] \in {version[o], version[o] + 1}
    BY <1>1 DEF Inv, Tables
  <2>2. \A o \in Object : version'[o] \in Nat /\ version[o] <= version'[o]
    BY <2>1
  <2> QED BY <1>1, <2>2 DEF Evolves
<1>5. Remains
  BY <1>1, <1>2, RemainsPublished
<1>6. /\ rolling' \in [Operator -> 0..Len(releases)] /\ rolling'[op] = 0
      /\ \A other \in Operator \ {op} : rolling'[other] = rolling[other]
  BY <1>1 DEF Inv, Tables
<1>7. Tables'
  <2>1. /\ releases' \in Seq(Release) /\ Len(releases') <= MaxReleases
        /\ contentBefore' \in Seq([Object -> Value]) /\ Len(contentBefore') = Len(releases')
    BY <1>1, <1>2, RemainsPublished
  <2>2. rolling' \in [Operator -> 0..Len(releases')]
    BY <1>3, <1>5, <1>6 DEF Remains
  <2> QED BY <1>1, <2>1, <2>2 DEF Inv, Tables
<1>8. \A a \in Asset : HasRevisions(a)'
  BY <1>1, RestoredPinExists DEF Inv, HasRevisions
<1>9. \A p \in Proposal : Drafted(p)'
  BY <1>1, <1>4, DraftStays
<1>10. IsManifest(r)'
  <2>1. \A a \in DOMAIN r.assets : a \in Asset /\ r.assets[a] \in DOMAIN revisions'[a]
    BY <1>1, <1>2, <1>3, RestoredPinExists DEF IsRestored, IsManifest
  <2>2. \A o \in DOMAIN r.objects : o \in Object /\ r.objects[o] \in 1..version'[o]
    <3> TAKE o \in DOMAIN r.objects
    <3>1. o \in Object /\ releases[t].objects[o] \in 1..version[o] /\ version[o] \in Nat
      BY <1>2, <1>3 DEF IsRestored, IsManifest, Inv, Tables
    <3>2. CASE o \in RestoredObjects(t)
      BY <1>1, <1>2, <3>1, <3>2 DEF IsRestored
    <3>3. CASE o \notin RestoredObjects(t)
      BY <1>1, <1>2, <3>1, <3>3 DEF IsRestored
    <3> QED BY <3>2, <3>3
  <2> QED BY <1>2, <2>1, <2>2 DEF IsManifest, IsRestored
<1>11. \A k \in DOMAIN releases' : Manifest(k)' /\ Keeps(k)'
  <2>1. \A k \in DOMAIN releases : /\ DOMAIN releases[k].assets \subseteq DOMAIN r.assets
                                   /\ DOMAIN releases[k].objects \subseteq DOMAIN r.objects
    <3>1. \A k \in DOMAIN releases : k \in 1..t
      BY <1>1, <1>3 DEF Inv, Tables
    <3> QED BY <1>2, <1>3, <3>1 DEF IsRestored, Manifest
  <2>2. \A o \in Object : content'[o] # content[o] => o \in DOMAIN r.objects
    BY <1>1, <1>2 DEF IsRestored, RestoredObjects
  <2> QED BY <1>1, <1>2, <1>4, <1>10, <2>1, <2>2, NewManifest DEF IsRestored
<1>12. \A other \in Operator : rolling'[other] # 0 => PriorStateKnown(rolling[other])'
  BY <1>5, <1>6, RollingStays
<1> QED BY <1>7, <1>8, <1>9, <1>11, <1>12 DEF Inv

-----------------------------------------------------------------------------
(* The invariant.                                                          *)

LEMMA InvInit == Init => Inv
<1> SUFFICES ASSUME Init PROVE Inv
  OBVIOUS
<1>1. releases = <<>> /\ Len(releases) = 0 /\ DOMAIN releases = {} /\ releases \in Seq(Release)
  BY DEF Init
<1>2. contentBefore \in Seq([Object -> Value]) /\ Len(contentBefore) = 0
  BY DEF Init
<1>3. \A a \in Asset : \E v \in Value : revisions[a] = <<v>>
  BY DEF Init
<1>4. revisions \in [Asset -> Seq(Value)] /\ \A a \in Asset : HasRevisions(a)
  <2>1. ASSUME NEW a \in Asset PROVE revisions[a] \in Seq(Value) /\ DOMAIN revisions[a] = {1}
    <3>1. PICK v \in Value : revisions[a] = <<v>>
      BY <1>3
    <3> QED BY <3>1
  <2>2. revisions \in [Asset -> Seq(Value)]
    BY <2>1 DEF Init
  <2> QED BY <2>1, <2>2 DEF Init, HasRevisions, IsInjective
<1>5. Tables
  BY <1>1, <1>2, <1>4, ReleaseAssumption DEF Init, Tables, Proposed, ReleaseAssumption
<1>6. \A p \in Proposal : Drafted(p)
  BY DEF Init, Drafted, NoProposal
<1> QED BY <1>1, <1>4, <1>5, <1>6 DEF Init, Inv

LEMMA InvNext == ASSUME Inv, [Next]_vars PROVE Inv'
<1>1. CASE UNCHANGED vars
  <2>1. Tables' /\ Evolves
    BY <1>1 DEF vars, Inv, Tables, Evolves
  <2>2. Remains
    BY <1>1, RemainsQuietly DEF vars
  <2>3. \A p \in Proposal : Drafted(p)'
    BY <1>1, <2>1, DraftStays DEF vars
  <2>4. \A k \in DOMAIN releases' : Manifest(k)' /\ Keeps(k)'
    BY <1>1, <2>1, <2>2, ReleasesStay DEF vars
  <2>5. \A op \in Operator : rolling'[op] # 0 => PriorStateKnown(rolling[op])'
    BY <1>1, <2>2, RollingStays DEF vars
  <2>6. \A a \in Asset : HasRevisions(a)'
    BY <1>1 DEF vars, Inv, HasRevisions
  <2> QED BY <2>1, <2>3, <2>4, <2>5, <2>6 DEF Inv
<1>2. CASE Next
  BY <1>2, AppendKeeps, OpenAssetKeeps, OpenObjectKeeps, PublishAssetKeeps, PublishObjectKeeps,
     RollingKeeps, RestoreKeeps DEF Next
<1> QED BY <1>1, <1>2

LEMMA Invariance == Spec => []Inv
  BY InvInit, InvNext, PTL DEF Spec

\* Every table keeps the shape its migrations give it; what is current, and
\* what a manifest pins, exists.
THEOREM Types == Spec => []TypeOK
<1>1. Inv => TypeOK
  BY DEF Inv, Tables, HasRevisions, Manifest, TypeOK
<1> QED BY <1>1, Invariance, PTL

\* A rollback never takes back an edit that no release has published.
THEOREM EditsAreSafe == Spec => UnreleasedEditStays
<1> DEFINE Safe == \A a \in Asset :
                      ~InSomeRelease(a, current[a]) /\ current'[a] # current[a] => current'[a] \notin DOMAIN revisions[a]
<1>1. Inv /\ [Next]_vars => [Safe]_vars
  <2> SUFFICES ASSUME Inv, Next PROVE Safe
    OBVIOUS
  <2>1. ASSUME NEW a \in Asset, AppendRevision(a) PROVE Safe
    BY <2>1, Appended DEF AppendRevision
  <2>2. ASSUME NEW p \in Proposal, PublishAssetRevision(p) PROVE Safe
    <3>1. PICK a \in Asset : a = Target[p]
      BY <2>2 DEF PublishAssetRevision
    <3>2. PICK v \in Value : v = proposal[p].after /\ IsNew(a, v)
      BY <2>2, <3>1, AssetPublished
    <3>3. /\ revisions' = [revisions EXCEPT ![a] = Append(@, v)]
          /\ current' = [current EXCEPT ![a] = Len(revisions[a]) + 1]
      BY <2>2, <3>1, <3>2 DEF PublishAssetRevision
    <3> QED BY <3>2, <3>3, Appended
  <2>3. ASSUME NEW op \in Operator, RestoreRelease(op) PROVE Safe
    <3>1. PICK t \in DOMAIN releases :
            /\ NotMoved(t)
            /\ \A a \in Asset : current'[a] = IF a \in RestoredAssets(t) THEN RestoredPin(t, a) ELSE current[a]
      BY <2>3, Restored
    <3>2. \A a \in RestoredAssets(t) : InSomeRelease(a, current[a])
      BY <3>1 DEF NotMoved, RestoredAssets, InSomeRelease, PinsAsset
    <3> QED BY <3>1, <3>2
  <2>4. ASSUME UNCHANGED current PROVE Safe
    BY <2>4
  <2> QED BY <2>1, <2>2, <2>3, <2>4
      DEF Next, OpenAssetProposal, OpenObjectProposal, PublishGovernedObject, PlanRollback, RestoreConflict
<1>2. Spec => [][Safe]_vars
  BY <1>1, Invariance, PTL DEF Spec
<1> QED BY <1>2 DEF UnreleasedEditStays

-----------------------------------------------------------------------------
(* The newest manifest and what the workspace runs on.                     *)

\* What a new manifest has from the one before, for an asset that stays where
\* it is.
IsCarried(r, b) ==
    /\ current'[b] = current[b] /\ revisions'[b][current[b]] = revisions[b][current[b]]
    /\ Len(releases) # 0 /\ b \in DOMAIN releases[Len(releases)].assets
    /\ r.assets[b] = releases[Len(releases)].assets[b]
    /\ \A p \in Proposal : Target[p] = b /\ proposal'[p].state = "released" => proposal'[p] = proposal[p]

LEMMA CurrentPublished ==
    ASSUME Inv, ManifestIsCurrent, NEW r \in Release, Publish(r), content' \in [Object -> Value],
           \A o \in DOMAIN r.objects : r.objects[o] = version'[o],
           \A b \in DOMAIN r.assets : r.assets[b] = current'[b] \/ IsCarried(r, b)
    PROVE  ManifestIsCurrent'
<1>1. PICK n \in Nat : n = Len(releases)
  BY DEF Inv, Tables
<1>2. /\ Remains /\ Len(releases') = n + 1 /\ releases'[n + 1] = r
      /\ DOMAIN releases' = DOMAIN releases \union {n + 1} /\ DOMAIN releases = 1..n
  <2>1. DOMAIN releases = 1..n
    BY <1>1 DEF Inv, Tables
  <2> QED BY <1>1, <2>1, RemainsPublished
<1>3. ASSUME NEW b \in DOMAIN r.assets, r.assets[b] # current'[b]
      PROVE  ~InSomeRelease(b, current[b])' /\ ~WrittenByRelease(b, current[b])'
  <2>1. IsCarried(r, b)
    BY <1>3
  <2>2. releases # <<>> /\ b \in DOMAIN releases[n].assets /\ releases[n].assets[b] # current[b]
    BY <1>1, <1>3, <2>1 DEF IsCarried
  <2>3. ~InSomeRelease(b, current[b]) /\ ~WrittenByRelease(b, current[b])
    BY <1>1, <2>2 DEF ManifestIsCurrent
  <2>4. ~InSomeRelease(b, current[b])'
    <3>1. \A k \in DOMAIN releases : ~(b \in DOMAIN releases'[k].assets /\ releases'[k].assets[b] = current'[b])
      BY <1>2, <2>1, <2>3 DEF InSomeRelease, PinsAsset, IsCarried, Remains
    <3> QED BY <1>2, <1>3, <3>1 DEF InSomeRelease, PinsAsset
  <2>5. ~WrittenByRelease(b, current[b])'
    BY <2>1, <2>3 DEF WrittenByRelease, IsCarried
  <2> QED BY <2>4, <2>5
<1> QED BY <1>2, <1>3 DEF ManifestIsCurrent

LEMMA CurrentAppended == ASSUME Inv, ManifestIsCurrent, NEW a \in Asset, AppendRevision(a) PROVE ManifestIsCurrent'
<1>1. PICK v \in Value : IsNew(a, v) /\ revisions' = [revisions EXCEPT ![a] = Append(@, v)]
  BY DEF AppendRevision
<1>2. /\ current' = [current EXCEPT ![a] = Len(revisions[a]) + 1]
      /\ UNCHANGED <<version, proposal, releases>>
  BY DEF AppendRevision
<1>3. CASE releases = <<>>
  BY <1>2, <1>3 DEF ManifestIsCurrent
<1>4. CASE releases # <<>>
  <2> DEFINE n == Len(releases)
  <2>1. n \in DOMAIN releases /\ n' = n /\ DOMAIN releases[n].assets \subseteq Asset
    <3>1. n \in DOMAIN releases
      BY <1>4 DEF Inv, Tables
    <3> QED BY <1>2, <3>1, InRelease
  <2>2. ~InSomeRelease(a, current[a])'
    <3>1. \A k \in DOMAIN releases : PinsAsset(k, a) => releases[k].assets[a] \in DOMAIN revisions[a]
      BY DEF Inv, Manifest, IsManifest, PinsAsset
    <3>2. current'[a] \notin DOMAIN revisions[a]
      BY <1>1, <1>2, Appended
    <3> QED BY <1>2, <3>1, <3>2 DEF InSomeRelease, PinsAsset
  <2>3. ~WrittenByRelease(a, current[a])'
    <3>1. \A p \in Proposal : Target[p] = a /\ proposal[p].state = "released" => proposal[p].after \in Range(revisions[a])
      BY DEF Inv, Drafted
    <3>2. v \notin Range(revisions[a]) /\ revisions'[a][current'[a]] = v
      BY <1>1, <1>2, Appended
    <3> QED BY <1>2, <3>1, <3>2 DEF WrittenByRelease
  <2>4. ASSUME NEW b \in Asset \ {a}
        PROVE  /\ current'[b] = current[b]
               /\ InSomeRelease(b, current[b])' <=> InSomeRelease(b, current[b])
               /\ WrittenByRelease(b, current[b])' <=> WrittenByRelease(b, current[b])
    <3>1. current'[b] = current[b] /\ revisions'[b] = revisions[b]
      BY <1>1, <1>2, Appended
    <3> QED BY <1>2, <3>1 DEF InSomeRelease, PinsAsset, WrittenByRelease
  <2>5. ASSUME NEW b \in DOMAIN releases[n].assets
        PROVE  \/ releases[n].assets[b] = current'[b]
               \/ ~InSomeRelease(b, current[b])' /\ ~WrittenByRelease(b, current[b])'
    <3>1. /\ b \in Asset
          /\ \/ releases[n].assets[b] = current[b]
             \/ ~InSomeRelease(b, current[b]) /\ ~WrittenByRelease(b, current[b])
      BY <1>4, <2>1 DEF ManifestIsCurrent
    <3>2. CASE b = a
      BY <2>2, <2>3, <3>2
    <3>3. CASE b # a
      BY <2>4, <3>1, <3>3
    <3> QED BY <3>2, <3>3
  <2> QED BY <1>2, <1>4, <2>1, <2>5 DEF ManifestIsCurrent
<1> QED BY <1>3, <1>4

LEMMA CurrentAssetPublished ==
    ASSUME Inv, ManifestIsCurrent, NEW p \in Proposal, PublishAssetRevision(p)
    PROVE  ManifestIsCurrent'
<1>1. PICK a \in Asset : a = Target[p]
  BY DEF PublishAssetRevision
<1>2. PICK next \in Nat : next = Len(revisions[a]) + 1
  BY <1>1, AssetPublished
<1>3. PICK v \in Value : v = proposal[p].after
  BY AssetPublished
<1>4. PICK r \in Release : IsPublished(r, p, Pin(a, next), NoPins) /\ Publish(r)
  <2>1. \E r : IsPublished(r, p, Pin(Target[p], Len(revisions[Target[p]]) + 1), NoPins) /\ Publish(r)
    BY AssetPublished
  <2>2. \E r : IsPublished(r, p, Pin(a, next), NoPins) /\ Publish(r)
    BY <1>1, <1>2, <2>1, Zenon
  <2> QED BY <2>2 DEF IsPublished
<1>5. /\ DOMAIN Pin(a, next) = {a} /\ Pin(a, next)[a] = next /\ DOMAIN NoPins = {}
      /\ IsNew(a, v) /\ proposal[p].state = "in_review"
  BY <1>1, <1>2, <1>3, AssetPublished DEF NoPins
<1>6. /\ revisions' = [revisions EXCEPT ![a] = Append(@, v)]
      /\ current' = [current EXCEPT ![a] = Len(revisions[a]) + 1]
      /\ proposal' = [proposal EXCEPT ![p].state = "released"]
      /\ UNCHANGED <<version, content>>
  BY <1>1, <1>2, <1>3 DEF PublishAssetRevision
<1>7. content' \in [Object -> Value]
  BY <1>6 DEF Inv, Tables
<1>8. \A o \in DOMAIN r.objects : r.objects[o] = version'[o]
  <2>1. DOMAIN r.objects = DOMAIN LatestObjectPins /\ \A o \in DOMAIN r.objects : r.objects[o] = LatestObjectPins[o]
    BY <1>4, <1>5 DEF IsPublished
  <2>2. \A o \in DOMAIN LatestObjectPins : LatestObjectPins[o] = version[o]
    BY LatestPins DEF ManifestIsCurrent
  <2> QED BY <1>6, <2>1, <2>2
<1>9. ASSUME NEW b \in DOMAIN r.assets PROVE r.assets[b] = current'[b] \/ IsCarried(r, b)
  <2>1. CASE b = a
    BY <1>2, <1>4, <1>5, <1>6, <2>1, Appended, ZenonT(60) DEF IsPublished
  <2>2. CASE b # a
    <3>1. b \in DOMAIN LatestAssetPins /\ b \in Asset /\ r.assets[b] = LatestAssetPins[b]
      BY <1>4, <1>5, <2>2, LatestExist DEF IsPublished
    <3>2. Len(releases) # 0 /\ b \in DOMAIN releases[Len(releases)].assets
          /\ r.assets[b] = releases[Len(releases)].assets[b]
      BY <3>1, LatestPins
    <3>3. current'[b] = current[b] /\ revisions'[b] = revisions[b]
      BY <1>5, <1>6, <2>2, <3>1, Appended
    <3>4. \A q \in Proposal : Target[q] = b => proposal'[q] = proposal[q]
      BY <1>1, <1>5, <1>6, <2>2, Marked
    <3> QED BY <3>2, <3>3, <3>4 DEF IsCarried
  <2> QED BY <2>1, <2>2
<1> QED BY <1>4, <1>7, <1>8, <1>9, CurrentPublished

LEMMA CurrentObjectPublished ==
    ASSUME Inv, ManifestIsCurrent, NEW p \in Proposal, PublishGovernedObject(p)
    PROVE  ManifestIsCurrent'
<1>1. PICK o \in Object : o = Target[p]
  BY DEF PublishGovernedObject
<1>2. PICK next \in Nat : next = version[o] + 1
  BY <1>1, ObjectPublished
<1>3. PICK r \in Release : IsPublished(r, p, NoPins, Pin(o, next)) /\ Publish(r)
  <2>1. \E r : IsPublished(r, p, NoPins, Pin(Target[p], version[Target[p]] + 1)) /\ Publish(r)
    BY ObjectPublished
  <2>2. \E r : IsPublished(r, p, NoPins, Pin(o, next)) /\ Publish(r)
    BY <1>1, <1>2, <2>1, Zenon
  <2> QED BY <2>2 DEF IsPublished
<1>4. /\ DOMAIN Pin(o, next) = {o} /\ Pin(o, next)[o] = next /\ DOMAIN NoPins = {}
      /\ proposal[p] \in [state: {"in_review"}, before: Value, after: Value] /\ o \notin Asset
  BY <1>1, <1>2, ObjectPublished, ReleaseAssumption DEF NoPins, ReleaseAssumption
<1>5. /\ content' = [content EXCEPT ![o] = proposal[p].after]
      /\ version' = [version EXCEPT ![o] = next]
      /\ proposal' = [proposal EXCEPT ![p].state = "released"]
      /\ UNCHANGED <<revisions, current>>
  BY <1>1, <1>2 DEF PublishGovernedObject
<1>6. /\ content' \in [Object -> Value] /\ version'[o] = next
      /\ \A q \in Object \ {o} : version'[q] = version[q]
  BY <1>2, <1>4, <1>5 DEF Inv, Tables
<1>7. ASSUME NEW q \in DOMAIN r.objects PROVE r.objects[q] = version'[q]
  <2>1. \A x \in DOMAIN LatestObjectPins : x \in Object /\ LatestObjectPins[x] = version[x]
    BY LatestPins, LatestExist DEF ManifestIsCurrent
  <2> QED BY <1>3, <1>4, <1>6, <2>1 DEF IsPublished
<1>8. ASSUME NEW b \in DOMAIN r.assets PROVE IsCarried(r, b)
  <2>1. b \in DOMAIN LatestAssetPins /\ b \in Asset /\ r.assets[b] = LatestAssetPins[b]
    BY <1>3, <1>4, LatestExist DEF IsPublished
  <2>2. Len(releases) # 0 /\ b \in DOMAIN releases[Len(releases)].assets
        /\ r.assets[b] = releases[Len(releases)].assets[b]
    BY <2>1, LatestPins
  <2>3. \A q \in Proposal : Target[q] = b => proposal'[q] = proposal[q]
    BY <1>1, <1>4, <1>5, <2>1, Marked
  <2> QED BY <1>5, <2>2, <2>3 DEF IsCarried
<1> QED BY <1>3, <1>6, <1>7, <1>8, CurrentPublished

LEMMA CurrentRestored ==
    ASSUME Inv, ManifestIsCurrent, NEW op \in Operator, RestoreRelease(op)
    PROVE  ManifestIsCurrent'
<1>1. PICK t \in DOMAIN releases :
            /\ t = Len(releases) /\ PriorStateKnown(t)
            /\ content' \in [Object -> Value]
            /\ \A a \in Asset : current'[a] = IF a \in RestoredAssets(t) THEN RestoredPin(t, a) ELSE current[a]
            /\ \A o \in Object : version'[o] = IF o \in RestoredObjects(t) THEN version[o] + 1 ELSE version[o]
            /\ \E r : IsRestored(r, t) /\ Publish(r)
            /\ UNCHANGED <<revisions, proposal>>
  BY Restored
<1>2. PICK r \in Release : IsRestored(r, t) /\ Publish(r)
  BY <1>1 DEF IsRestored
<1>3. releases # <<>> /\ t # 0 /\ DOMAIN releases[t].assets \subseteq Asset /\ DOMAIN releases[t].objects \subseteq Object
  BY InRelease
<1>4. \A o \in DOMAIN r.objects : r.objects[o] = version'[o]
  BY <1>1, <1>2, <1>3 DEF IsRestored, ManifestIsCurrent
<1>5. ASSUME NEW b \in DOMAIN r.assets PROVE r.assets[b] = current'[b] \/ IsCarried(r, b)
  <2>1. b \in Asset /\ b \in DOMAIN releases[t].assets
    BY <1>2, <1>3 DEF IsRestored
  <2>2. CASE b \in RestoredAssets(t)
    BY <1>1, <1>2, <2>1, <2>2 DEF IsRestored
  <2>3. CASE b \notin RestoredAssets(t)
    BY <1>1, <1>2, <1>3, <2>1, <2>3 DEF IsRestored, IsCarried
  <2> QED BY <2>2, <2>3
<1> QED BY <1>1, <1>2, <1>4, <1>5, CurrentPublished

\* The newest manifest pins what the workspace runs on, whatever is published,
\* rolled back and edited in between.
THEOREM NewestManifestIsCurrent == Spec => []ManifestIsCurrent
<1>1. Init => ManifestIsCurrent
  BY DEF Init, ManifestIsCurrent
<1>2. Inv /\ ManifestIsCurrent /\ [Next]_vars => ManifestIsCurrent'
  <2> SUFFICES ASSUME Inv, ManifestIsCurrent, [Next]_vars PROVE ManifestIsCurrent'
    OBVIOUS
  <2>1. ASSUME UNCHANGED <<revisions, current, version, releases>>,
               \A p \in Proposal : proposal'[p].state = "released" => proposal'[p] = proposal[p]
        PROVE  ManifestIsCurrent'
    <3>1. \A a, k : InSomeRelease(a, k)' <=> InSomeRelease(a, k)
      BY <2>1 DEF InSomeRelease, PinsAsset
    <3>2. \A a, k : WrittenByRelease(a, k)' => WrittenByRelease(a, k)
      BY <2>1 DEF WrittenByRelease
    <3> QED BY <2>1, <3>1, <3>2 DEF ManifestIsCurrent
  <2>2. ASSUME NEW p \in Proposal, OpenAssetProposal(p) \/ OpenObjectProposal(p) PROVE ManifestIsCurrent'
    <3>1. PICK row : row.state = "in_review" /\ proposal' = [proposal EXCEPT ![p] = row]
      BY <2>2 DEF OpenAssetProposal, OpenObjectProposal
    <3>2. proposal'[p] = row /\ \A q \in Proposal \ {p} : proposal'[q] = proposal[q]
      BY <3>1 DEF Inv, Tables
    <3> QED BY <2>1, <2>2, <3>1, <3>2 DEF OpenAssetProposal, OpenObjectProposal
  <2>3. ASSUME NEW op \in Operator, PlanRollback(op) \/ RestoreConflict(op) PROVE ManifestIsCurrent'
    BY <2>1, <2>3 DEF PlanRollback, RestoreConflict
  <2>4. CASE UNCHANGED vars
    BY <2>1, <2>4 DEF vars
  <2> QED BY <2>2, <2>3, <2>4, CurrentAppended, CurrentAssetPublished, CurrentObjectPublished, CurrentRestored DEF Next
<1> QED BY <1>1, <1>2, Invariance, PTL DEF Spec

-----------------------------------------------------------------------------
(* What a rollback gives back.                                             *)

LEMMA EvolvesNext == ASSUME Inv, [Next]_vars PROVE Evolves
<1>0. \A o \in Object : version[o] \in Nat
  BY DEF Inv, Tables
<1>1. ASSUME UNCHANGED <<revisions, version, proposal>> PROVE Evolves
  BY <1>0, <1>1 DEF Evolves
<1>2. ASSUME NEW a \in Asset, AppendRevision(a) PROVE Evolves
  BY <1>0, <1>2, Appended DEF AppendRevision, Evolves
<1>3. ASSUME NEW p \in Proposal, OpenAssetProposal(p) \/ OpenObjectProposal(p) PROVE Evolves
  <2>1. /\ proposal[p].state # "released" /\ UNCHANGED <<revisions, version>>
        /\ \E row : proposal' = [proposal EXCEPT ![p] = row]
    BY <1>3 DEF OpenAssetProposal, OpenObjectProposal, NoProposal
  <2>2. \A q \in Proposal \ {p} : proposal'[q] = proposal[q]
    BY <2>1 DEF Inv, Tables
  <2> QED BY <1>0, <2>1, <2>2 DEF Evolves
<1>4. ASSUME NEW p \in Proposal, PublishAssetRevision(p) PROVE Evolves
  <2>1. PICK a \in Asset, v \in Value : a = Target[p] /\ v = proposal[p].after
    BY <1>4, AssetPublished
  <2>2. IsNew(a, v) /\ proposal[p].state = "in_review"
    BY <1>4, <2>1, AssetPublished
  <2>3. /\ revisions' = [revisions EXCEPT ![a] = Append(@, v)]
        /\ current' = [current EXCEPT ![a] = Len(revisions[a]) + 1]
        /\ proposal' = [proposal EXCEPT ![p].state = "released"] /\ UNCHANGED version
    BY <1>4, <2>1 DEF PublishAssetRevision
  <2> QED BY <1>0, <2>2, <2>3, Appended, Marked DEF Evolves
<1>5. ASSUME NEW p \in Proposal, PublishGovernedObject(p) PROVE Evolves
  <2>1. /\ version' = [version EXCEPT ![Target[p]] = version[Target[p]] + 1] /\ Target[p] \in Object
        /\ proposal' = [proposal EXCEPT ![p].state = "released"] /\ UNCHANGED revisions
        /\ proposal[p].state = "in_review"
    BY <1>5 DEF PublishGovernedObject
  <2>2. \A o \in Object : version'[o] \in {version[o], version[o] + 1}
    BY <2>1 DEF Inv, Tables
  <2>3. \A o \in Object : version'[o] \in Nat /\ version[o] <= version'[o]
    BY <1>0, <2>2
  <2> QED BY <2>1, <2>3, Marked DEF Evolves
<1>6. ASSUME NEW op \in Operator, RestoreRelease(op) PROVE Evolves
  <2>1. PICK t \in DOMAIN releases :
          /\ \A o \in Object : version'[o] = IF o \in RestoredObjects(t) THEN version[o] + 1 ELSE version[o]
          /\ UNCHANGED <<revisions, proposal>>
    BY <1>6, Restored
  <2>2. \A o \in Object : version'[o] \in Nat /\ version[o] <= version'[o]
    BY <1>0, <2>1
  <2> QED BY <2>1, <2>2 DEF Evolves
<1>7. ASSUME NEW op \in Operator, PlanRollback(op) \/ RestoreConflict(op) PROVE Evolves
  BY <1>1, <1>7 DEF PlanRollback, RestoreConflict
<1>8. CASE UNCHANGED vars
  BY <1>1, <1>8 DEF vars
<1> QED BY <1>2, <1>3, <1>4, <1>5, <1>6, <1>7, <1>8 DEF Next

\* One rollback, of RollbackRestoresContent.
Restores(k) ==
    releases[k].undoes # 0 =>
        LET t == releases[k].undoes
            stale == {o \in RestoredObjects(t) :
                        proposal[releases[t].origin].before # contentBefore[t][o]}
        IN  /\ t = k - 1
            /\ \A o \in Object \ stale : ContentAfter(k)[o] = contentBefore[t][o]

LEMMA RestoresStays ==
    ASSUME Inv, Evolves, Remains, NEW k \in DOMAIN releases, Restores(k)
    PROVE  Restores(k)'
<1>1. releases'[k] = releases[k] /\ ContentAfter(k)' = ContentAfter(k)
  BY DEF Remains
<1>2. SUFFICES ASSUME releases[k].undoes # 0
               PROVE  Restores(k)'
  BY <1>1 DEF Restores
<1>3. PICK t : t = releases[k].undoes
  OBVIOUS
<1>4. Manifest(k) /\ t = k - 1 /\ t \in DOMAIN releases /\ PriorStateKnown(t) /\ Manifest(t)
  <2>1. Manifest(k) /\ k \in 1..Len(releases) /\ DOMAIN releases = 1..Len(releases)
    BY DEF Inv, Tables
  <2>2. t = k - 1 /\ k > 1 /\ PriorStateKnown(t)
    BY <1>2, <1>3, <2>1 DEF Manifest
  <2>3. t \in DOMAIN releases
    BY <2>1, <2>2
  <2> QED BY <2>1, <2>2, <2>3 DEF Inv
<1>5. /\ releases'[t] = releases[t] /\ contentBefore'[t] = contentBefore[t]
      /\ RestoredObjects(t)' = RestoredObjects(t)
  BY <1>4, PlansRemain DEF Remains
<1>6. \A o \in RestoredObjects(t) : proposal'[releases[t].origin] = proposal[releases[t].origin]
  <2> TAKE o \in RestoredObjects(t)
  <2>1. HasOrigin(t)
    BY <1>4, RestoredContentExists
  <2>2. releases[t].origin \in Proposal /\ proposal[releases[t].origin].state = "released"
    BY <1>4, <2>1 DEF Manifest, IsManifest, HasOrigin
  <2> QED BY <2>2 DEF Evolves
<1> QED BY <1>1, <1>3, <1>5, <1>6 DEF Restores

LEMMA RestoresPublished ==
    ASSUME Inv, [Next]_vars, \A k \in DOMAIN releases : Restores(k),
           NEW r \in Release, Publish(r), content' \in [Object -> Value], r.undoes = 0
    PROVE  \A k \in DOMAIN releases' : Restores(k)'
<1>1. PICK n \in Nat : n = Len(releases)
  BY DEF Inv, Tables
<1>2. Remains /\ releases'[n + 1] = r /\ DOMAIN releases' = DOMAIN releases \union {n + 1}
  BY <1>1, RemainsPublished
<1>3. \A k \in DOMAIN releases : Restores(k)'
  BY <1>2, EvolvesNext, RestoresStays
<1>4. Restores(n + 1)'
  BY <1>2 DEF Restores
<1> QED BY <1>2, <1>3, <1>4

LEMMA RestoresRestored ==
    ASSUME Inv, \A k \in DOMAIN releases : Restores(k), NEW op \in Operator, RestoreRelease(op)
    PROVE  \A k \in DOMAIN releases' : Restores(k)'
<1>1. PICK t \in DOMAIN releases :
            /\ t = Len(releases) /\ PriorStateKnown(t) /\ content' \in [Object -> Value]
            /\ \A o \in Object : content'[o] = IF o \in RestoredObjects(t) THEN RestoredContent(t) ELSE content[o]
            /\ \E r : IsRestored(r, t) /\ Publish(r)
            /\ UNCHANGED proposal
  BY Restored
<1>2. PICK r \in Release : IsRestored(r, t) /\ Publish(r)
  BY <1>1 DEF IsRestored
<1>3. /\ Remains /\ releases'[t + 1] = r /\ DOMAIN releases' = DOMAIN releases \union {t + 1}
      /\ \A k : k = t + 1 => ContentAfter(k)' = content'
  BY <1>1, <1>2, RemainsPublished
<1>4. Evolves /\ t \in Nat
  <2>1. [Next]_vars
    BY DEF Next
  <2> QED BY <2>1, EvolvesNext DEF Inv, Tables
<1>5. \A k \in DOMAIN releases : Restores(k)'
  BY <1>3, <1>4, RestoresStays
<1>6. /\ releases'[t] = releases[t] /\ contentBefore'[t] = contentBefore[t]
      /\ RestoredObjects(t)' = RestoredObjects(t)
  BY <1>3, PlansRemain DEF Remains
<1>7. ASSUME NEW o \in Object,
             o \in RestoredObjects(t) => proposal'[releases'[t].origin].before = contentBefore'[t][o]
      PROVE  content'[o] = contentBefore'[t][o]
  <2>1. CASE o \in RestoredObjects(t)
    BY <1>1, <1>6, <1>7, <2>1 DEF RestoredContent
  <2>2. CASE o \notin RestoredObjects(t)
    <3>1. ContentAfter(t)[o] = contentBefore[t][o] /\ ContentAfter(t) = content
      BY <1>1, <2>2 DEF Inv, Keeps, ContentAfter
    <3> QED BY <1>1, <1>6, <2>2, <3>1
  <2> QED BY <2>1, <2>2
<1>8. Restores(t + 1)'
  <2>1. PICK k : k = t + 1
    OBVIOUS
  <2>2. releases'[k] = r /\ r.undoes = t /\ t = k - 1 /\ ContentAfter(k)' = content'
    BY <1>2, <1>3, <1>4, <2>1 DEF IsRestored
  <2>3. Restores(k)'
    BY <1>6, <1>7, <2>2 DEF Restores
  <2> QED BY <2>1, <2>3
<1> QED BY <1>3, <1>5, <1>8

\* A rollback undoes the release right before it, and gives every object the
\* content it had before that one, if the proposal was drafted on it.
THEOREM RollbacksRestore == Spec => []RollbackRestoresContent
<1> DEFINE Rs == \A k \in DOMAIN releases : Restores(k)
<1>1. Init => Rs
  BY DEF Init
<1>2. Inv /\ Rs /\ [Next]_vars => Rs'
  <2> SUFFICES ASSUME Inv, Rs, [Next]_vars PROVE Rs'
    OBVIOUS
  <2>1. ASSUME UNCHANGED <<releases, contentBefore, content>> PROVE Rs'
    <3>1. Remains
      BY <2>1, RemainsQuietly
    <3> QED BY <2>1, <3>1, EvolvesNext, RestoresStays
  <2>2. ASSUME NEW p \in Proposal, PublishAssetRevision(p) PROVE Rs'
    <3>1. \E r \in Release : Publish(r) /\ r.undoes = 0
      BY <2>2, AssetPublished DEF IsPublished
    <3>2. content' \in [Object -> Value]
      BY <2>2 DEF PublishAssetRevision, Inv, Tables
    <3> QED BY <3>1, <3>2, RestoresPublished
  <2>3. ASSUME NEW p \in Proposal, PublishGovernedObject(p) PROVE Rs'
    <3>1. \E r \in Release : Publish(r) /\ r.undoes = 0
      BY <2>3, ObjectPublished DEF IsPublished
    <3>2. content' = [content EXCEPT ![Target[p]] = proposal[p].after] /\ proposal[p].after \in Value
      BY <2>3, ObjectPublished DEF PublishGovernedObject
    <3>3. content' \in [Object -> Value]
      BY <3>2 DEF Inv, Tables
    <3> QED BY <3>1, <3>3, RestoresPublished
  <2>4. ASSUME NEW op \in Operator, RestoreRelease(op) PROVE Rs'
    BY <2>4, RestoresRestored
  <2>5. CASE UNCHANGED vars
    BY <2>1, <2>5 DEF vars
  <2> QED BY <2>1, <2>2, <2>3, <2>4, <2>5
      DEF Next, AppendRevision, OpenAssetProposal, OpenObjectProposal, PlanRollback, RestoreConflict
<1>3. Rs <=> RollbackRestoresContent
  BY DEF Restores, RollbackRestoresContent
<1> QED BY <1>1, <1>2, <1>3, Invariance, PTL DEF Spec

-----------------------------------------------------------------------------
(* Reviews, review batches and publishes.                                  *)

\* Who is about to record a review of a proposal is not its author.
NotByAuthor(r) == request[r].at \in {"count", "insert"} => request[r].who # Author[request[r].p]

ReviewInv ==
    /\ ReviewTypeOK
    /\ \A r \in Request : NotByAuthor(r)
    /\ BatchSpeaksForItsMembers

ReviewTables == <<state, escalated, routing, reviews, batch, releasedBy, crashes>>

LEMMA ReviewStarts == ReviewInit => ReviewInv
<1> SUFFICES ASSUME ReviewInit PROVE ReviewInv
  OBVIOUS
<1>1. ReviewTypeOK
  <2>1. reviews = <<>> \/ DOMAIN reviews = {}
    BY DEF ReviewInit, EmptyBag, SetToBag
  <2>2. IsABag(reviews) /\ DOMAIN reviews = {}
    BY DEF ReviewInit, EmptyBag, SetToBag, IsABag
  <2>3. batch \in [Batch -> [status: {"none", "open", "confirmed", "rejected"},
                            members: SUBSET Proposal, split: SUBSET Proposal,
                            by: Principal \union {Nobody}]]
    BY DEF ReviewInit, NoBatch
  <2>4. request \in [Request -> Doing]
    BY DEF ReviewInit, Doing
  <2>5. crashes \in 0..MaxCrashes
    BY ReviewAssumption DEF ReviewInit, ReviewAssumption
  <2> QED BY <2>2, <2>3, <2>4, <2>5 DEF ReviewInit, ReviewTypeOK
<1>2. \A r \in Request : NotByAuthor(r)
  BY DEF ReviewInit, NotByAuthor, Idle
<1>3. BatchSpeaksForItsMembers
  BY DEF ReviewInit, NoBatch, BatchSpeaksForItsMembers
<1> QED BY <1>1, <1>2, <1>3 DEF ReviewInv

\* A request that only goes on reading, or ends, disturbs no row.
LEMMA ReviewRequestMoves ==
    ASSUME ReviewInv, NEW r \in Request, NEW doing \in Doing,
           doing.at \in {"count", "insert"} => doing.who # Author[doing.p],
           request' = [request EXCEPT ![r] = doing],
           UNCHANGED <<state, escalated, reviews, batch, releasedBy>>,
           routing' \in [Proposal -> {"batch", "expert"}], crashes' \in 0..MaxCrashes
    PROVE  ReviewInv'
<1>1. ReviewTypeOK'
  BY DEF ReviewInv, ReviewTypeOK
<1>2. ASSUME NEW s \in Request PROVE NotByAuthor(s)'
  BY DEF ReviewInv, ReviewTypeOK, NotByAuthor
<1>3. BatchSpeaksForItsMembers'
  BY DEF ReviewInv, BatchSpeaksForItsMembers, Active, Recorded
<1> QED BY <1>1, <1>2, <1>3 DEF ReviewInv

LEMMA DoingKinds ==
    ASSUME NEW d \in Doing
    PROVE  /\ d.at \in {"count", "insert", "transition"} =>
                d \in [at: {"count", "insert", "transition"}, p: Proposal, who: Principal, verdict: Verdict]
           /\ d.at \in {"insert_members", "commit_batches"} =>
                d \in [at: {"insert_members", "commit_batches"}, members: SUBSET Proposal]
           /\ d.at \in {"refresh", "decide"} =>
                d \in [at: {"refresh", "decide"}, b: Batch, who: Principal, verdict: Verdict]
           /\ d.at = "publish" => d \in [at: {"publish"}, p: Proposal, who: Principal]
  BY DEF Doing, Idle

LEMMA IdleIsDoing == Idle \in Doing /\ Idle.at = "idle"
  BY DEF Idle, Doing

\* The bag of reviews with a set of them added.
LEMMA ReviewsAdded ==
    ASSUME ReviewInv, NEW S \in SUBSET {v \in Review : v.who # Author[v.p]},
           reviews' = reviews (+) SetToBag(S)
    PROVE  /\ DOMAIN reviews' = DOMAIN reviews \union S
           /\ IsABag(reviews')
           /\ DOMAIN reviews' \subseteq {v \in Review : v.who # Author[v.p]}
  BY DEF ReviewInv, ReviewTypeOK, IsABag, SetToBag, (+)

\* What decided batches said they still say, if nothing they speak of goes away.
LEMMA BatchesSpeakOn ==
    ASSUME ReviewInv, DOMAIN reviews \subseteq DOMAIN reviews',
           \A p \in Proposal : state[p] = "rejected" => state'[p] = "rejected",
           NEW b \in Batch, batch'[b] = batch[b], batch[b].status \in {"confirmed", "rejected"}
    PROVE  /\ Active(b)' # {}
           /\ \A p \in Active(b)' :
                /\ \E v \in Recorded(p)' :
                    /\ v.channel = "batch" /\ v.who = batch'[b].by
                    /\ batch'[b].status = Conclusion(v.verdict)
                /\ batch'[b].status = "rejected" => state'[p] = "rejected"
<1>1. /\ Active(b) # {}
      /\ Active(b) \subseteq Proposal
      /\ \A p \in Active(b) :
            /\ \E v \in Recorded(p) :
                /\ v.channel = "batch" /\ v.who = batch[b].by
                /\ batch[b].status = Conclusion(v.verdict)
            /\ batch[b].status = "rejected" => state[p] = "rejected"
  BY DEF ReviewInv, ReviewTypeOK, BatchSpeaksForItsMembers, Active
<1>2. Active(b)' = Active(b)
  BY DEF Active
<1>3. ASSUME NEW p PROVE Recorded(p) \subseteq Recorded(p)'
  BY DEF Recorded
<1> QED BY <1>1, <1>2, <1>3

LEMMA InsertReviewKeeps ==
    ASSUME ReviewInv, NEW r \in Request, InsertReview(r)
    PROVE  ReviewInv'
<1> DEFINE q == request[r]
           v == [p |-> q.p, who |-> q.who, channel |-> "expert", verdict |-> q.verdict]
<1>1. /\ q \in [at: {"count", "insert", "transition"}, p: Proposal, who: Principal, verdict: Verdict]
      /\ q.at = "insert" /\ q.who # Author[q.p]
  <2>1. q \in Doing /\ q.at = "insert" /\ NotByAuthor(r)
    BY DEF ReviewInv, ReviewTypeOK, InsertReview
  <2> QED BY <2>1, DoingKinds DEF NotByAuthor
<1>2. {v} \in SUBSET {w \in Review : w.who # Author[w.p]}
  BY <1>1 DEF Review
<1>3. /\ DOMAIN reviews' = DOMAIN reviews \union {v}
      /\ IsABag(reviews')
      /\ DOMAIN reviews' \subseteq {w \in Review : w.who # Author[w.p]}
  <2>1. reviews' = reviews (+) SetToBag({v})
    BY DEF InsertReview, Record
  <2> QED BY <1>2, <2>1, ReviewsAdded
<1>4. PICK d \in Doing : d.at \notin {"count", "insert"} /\ request' = [request EXCEPT ![r] = d]
  <2>1. CASE q.verdict = "rejected"
    <3>1. [q EXCEPT !.at = "transition"] \in Doing
      BY <1>1 DEF Doing
    <3>2. request' = [request EXCEPT ![r] = [q EXCEPT !.at = "transition"]]
      BY <2>1 DEF InsertReview, Proceed
    <3> QED BY <1>1, <3>1, <3>2
  <2>2. CASE q.verdict # "rejected"
    <3>1. request' = [request EXCEPT ![r] = Idle]
      BY <2>2 DEF InsertReview, Return, Becomes
    <3> QED BY <3>1, IdleIsDoing
  <2> QED BY <2>1, <2>2
<1>5. UNCHANGED <<state, escalated, routing, batch, releasedBy, crashes>>
  BY DEF InsertReview
<1>6. ReviewTypeOK'
  BY <1>3, <1>4, <1>5 DEF ReviewInv, ReviewTypeOK
<1>7. ASSUME NEW s \in Request PROVE NotByAuthor(s)'
  BY <1>4 DEF ReviewInv, ReviewTypeOK, NotByAuthor
<1>8. BatchSpeaksForItsMembers'
  BY <1>3, <1>5, BatchesSpeakOn DEF BatchSpeaksForItsMembers
<1> QED BY <1>6, <1>7, <1>8 DEF ReviewInv

LEMMA RejectionKeeps ==
    ASSUME ReviewInv, NEW r \in Request, Transition(r) \/ PublishRelease(r)
    PROVE  ReviewInv'
<1>1. request[r] \in Doing
  BY DEF ReviewInv, ReviewTypeOK
<1>2. /\ state' \in [Proposal -> {"in_review", "rejected", "released"}]
      /\ \A p \in Proposal : state[p] = "rejected" => state'[p] = "rejected"
      /\ releasedBy' \in [Proposal -> Principal \union {Nobody}]
      /\ request' = [request EXCEPT ![r] = Idle]
      /\ UNCHANGED <<escalated, routing, reviews, batch, crashes>>
  <2>1. CASE Transition(r)
    BY <2>1, <1>1, DoingKinds
    DEF ReviewInv, ReviewTypeOK, Transition, RejectedState, Return, Becomes
  <2>2. CASE PublishRelease(r)
    <3>1. request[r].who \in Principal
      BY <2>2, <1>1, DoingKinds DEF PublishRelease
    <3> QED
      BY <2>2, <3>1
      DEF ReviewInv, ReviewTypeOK, PublishRelease, StillInReview, Return, Becomes
  <2> QED BY <2>1, <2>2
<1>3. ReviewTypeOK'
  BY <1>2, IdleIsDoing DEF ReviewInv, ReviewTypeOK
<1>4. ASSUME NEW s \in Request PROVE NotByAuthor(s)'
  BY <1>2, IdleIsDoing DEF ReviewInv, ReviewTypeOK, NotByAuthor
<1>5. BatchSpeaksForItsMembers'
  BY <1>2, BatchesSpeakOn DEF BatchSpeaksForItsMembers
<1> QED BY <1>3, <1>4, <1>5 DEF ReviewInv

LEMMA CommitBatchesKeeps ==
    ASSUME ReviewInv, NEW r \in Request, CommitBatches(r)
    PROVE  ReviewInv'
<1> DEFINE members == request[r].members
           Free == {b \in Batch : batch[b] = NoBatch}
<1>1. request[r].at = "commit_batches" /\ members \in SUBSET Proposal
  <2>1. request[r] \in Doing /\ request[r].at = "commit_batches"
    BY DEF ReviewInv, ReviewTypeOK, CommitBatches
  <2> QED BY <2>1, DoingKinds
<1>2. PICK of \in Injection(Clusters(members), Free) :
        batch' = [b \in Batch |->
            IF b \in Range(of)
            THEN [NoBatch EXCEPT !.status = "open",
                                        !.members = CHOOSE c \in DOMAIN of : of[c] = b]
            ELSE batch[b]]
  BY DEF CommitBatches
<1>3. /\ of \in [Clusters(members) -> Free]
      /\ Range(of) = {of[c] : c \in DOMAIN of}
  BY DEF Injection, Range
<1>4. ASSUME NEW c \in Clusters(members) PROVE c \subseteq Proposal
  BY <1>1 DEF Clusters
<1>5. ASSUME NEW b \in Batch
      PROVE  /\ batch'[b] \in [status: {"none", "open", "confirmed", "rejected"},
                               members: SUBSET Proposal, split: SUBSET Proposal,
                               by: Principal \union {Nobody}]
             /\ batch'[b].status \in {"confirmed", "rejected"} => batch'[b] = batch[b]
  <2>1. CASE b \in Range(of)
    <3>1. PICK c \in DOMAIN of : of[c] = b
      BY <2>1, <1>3
    <3>2. DEFINE e == CHOOSE x \in DOMAIN of : of[x] = b
    <3>3. e \in Clusters(members)
      BY <3>1, <1>3
    <3>4. e \in SUBSET Proposal
      BY <3>3, <1>4
    <3>5. batch'[b] = [NoBatch EXCEPT !.status = "open", !.members = e]
      BY <1>2, <2>1
    <3> HIDE DEF e
    <3>6. batch'[b] = [status |-> "open", members |-> e, split |-> {}, by |-> Nobody]
      BY <3>5 DEF NoBatch
    <3> QED BY <3>4, <3>6
  <2>2. CASE b \notin Range(of)
    BY <2>2, <1>2 DEF ReviewInv, ReviewTypeOK
  <2> QED BY <2>1, <2>2
<1>6. /\ UNCHANGED <<state, escalated, routing, reviews, releasedBy, crashes>>
      /\ request' = [request EXCEPT ![r] = Idle]
  BY DEF CommitBatches, Return, Becomes
<1>7. ReviewTypeOK'
  <2>1. batch' \in [Batch -> [status: {"none", "open", "confirmed", "rejected"},
                              members: SUBSET Proposal, split: SUBSET Proposal,
                              by: Principal \union {Nobody}]]
    BY <1>2, <1>5
  <2> QED BY <2>1, <1>6, IdleIsDoing DEF ReviewInv, ReviewTypeOK
<1>8. ASSUME NEW s \in Request PROVE NotByAuthor(s)'
  BY <1>6, IdleIsDoing DEF ReviewInv, ReviewTypeOK, NotByAuthor
<1>9. BatchSpeaksForItsMembers'
  BY <1>5, <1>6, BatchesSpeakOn DEF BatchSpeaksForItsMembers
<1> QED BY <1>7, <1>8, <1>9 DEF ReviewInv

LEMMA DecideBatchKeeps ==
    ASSUME ReviewInv, NEW r \in Request, DecideBatch(r)
    PROVE  ReviewInv'
<1> DEFINE q == request[r]
           b == q.b
           applied == batch[b].members \ SplitOut(b)
           S == {[p |-> p, who |-> q.who, channel |-> "batch", verdict |-> q.verdict] : p \in applied}
<1>1. /\ q \in [at: {"refresh", "decide"}, b: Batch, who: Principal, verdict: Verdict]
      /\ q.at = "decide"
  <2>1. q \in Doing /\ q.at = "decide"
    BY DEF ReviewInv, ReviewTypeOK, DecideBatch
  <2> QED BY <2>1, DoingKinds
<1>2. /\ UNCHANGED <<escalated, routing, releasedBy, crashes>>
      /\ request' = [request EXCEPT ![r] = Idle]
  BY DEF DecideBatch, Return, Becomes
<1>3. CASE ~(batch[b].status = "open" /\ applied # {} /\ MayDecide(b, q.who))
  <2>1. UNCHANGED <<reviews, state, batch>>
    BY <1>3 DEF DecideBatch
  <2>2. routing' \in [Proposal -> {"batch", "expert"}] /\ crashes' \in 0..MaxCrashes
    BY <1>2 DEF ReviewInv, ReviewTypeOK
  <2> QED BY <1>2, <2>1, <2>2, IdleIsDoing, ReviewRequestMoves
<1>4. CASE batch[b].status = "open" /\ applied # {} /\ MayDecide(b, q.who)
  <2>1. /\ reviews' = reviews (+) SetToBag(S)
        /\ state' = DecidedState(b, q.verdict)
        /\ batch' = [batch EXCEPT ![b].status = Conclusion(q.verdict),
                                  ![b].split = SplitOut(b),
                                  ![b].by = q.who]
    BY <1>4 DEF DecideBatch
  <2>2. b \in Batch /\ q.who \in Principal /\ q.verdict \in Verdict
    BY <1>1
  <2>3. batch[b] \in [status: {"none", "open", "confirmed", "rejected"},
                      members: SUBSET Proposal, split: SUBSET Proposal,
                      by: Principal \union {Nobody}]
    BY <2>2 DEF ReviewInv, ReviewTypeOK
  <2>4. /\ applied \subseteq Proposal
        /\ SplitOut(b) \in SUBSET Proposal
        /\ \A p \in applied : Author[p] # q.who /\ state[p] = "in_review"
    BY <1>4, <2>3 DEF MayDecide, SplitOut
  <2>5. S \in SUBSET {v \in Review : v.who # Author[v.p]}
    <3> SUFFICES ASSUME NEW p \in applied
                 PROVE  [p |-> p, who |-> q.who, channel |-> "batch", verdict |-> q.verdict]
                          \in {v \in Review : v.who # Author[v.p]}
      OBVIOUS
    <3> QED BY <2>2, <2>4 DEF Review
  <2>6. /\ DOMAIN reviews' = DOMAIN reviews \union S
        /\ IsABag(reviews')
        /\ DOMAIN reviews' \subseteq {v \in Review : v.who # Author[v.p]}
    <3> HIDE DEF S
    <3> QED BY <2>1, <2>5, ReviewsAdded
  <2>7. Conclusion(q.verdict) \in {"confirmed", "rejected"}
    BY DEF Conclusion
  <2>8. batch' \in [Batch -> [status: {"none", "open", "confirmed", "rejected"},
                              members: SUBSET Proposal, split: SUBSET Proposal,
                              by: Principal \union {Nobody}]]
    BY <2>1, <2>2, <2>3, <2>4, <2>7 DEF ReviewInv, ReviewTypeOK
  <2>9. /\ state' \in [Proposal -> {"in_review", "rejected", "released"}]
        /\ \A p \in Proposal : state[p] = "rejected" => state'[p] = "rejected"
        /\ q.verdict = "rejected" => \A p \in applied : state'[p] = "rejected"
    BY <2>1, <2>4 DEF ReviewInv, ReviewTypeOK, DecidedState
  <2>10. ReviewTypeOK'
    BY <1>2, <2>6, <2>8, <2>9, IdleIsDoing DEF ReviewInv, ReviewTypeOK
  <2>11. ASSUME NEW s \in Request PROVE NotByAuthor(s)'
    BY <1>2, IdleIsDoing DEF ReviewInv, ReviewTypeOK, NotByAuthor
  <2>12. BatchSpeaksForItsMembers'
    <3> SUFFICES ASSUME NEW c \in Batch, batch'[c].status \in {"confirmed", "rejected"}
                 PROVE  /\ Active(c)' # {}
                        /\ \A p \in Active(c)' :
                            /\ \E v \in Recorded(p)' :
                                /\ v.channel = "batch" /\ v.who = batch'[c].by
                                /\ batch'[c].status = Conclusion(v.verdict)
                            /\ batch'[c].status = "rejected" => state'[p] = "rejected"
      BY DEF BatchSpeaksForItsMembers
    <3>1. CASE c # b
      <4>1. batch'[c] = batch[c]
        BY <2>1, <2>2, <3>1 DEF ReviewInv, ReviewTypeOK
      <4> QED BY <4>1, <2>6, <2>9, BatchesSpeakOn
    <3>2. CASE c = b
      <4>1. batch'[c] = [batch[c] EXCEPT !.status = Conclusion(q.verdict),
                                         !.split = SplitOut(b), !.by = q.who]
        BY <2>1, <2>2, <3>2 DEF ReviewInv, ReviewTypeOK
      <4>2. /\ batch'[c].status = Conclusion(q.verdict)
            /\ batch'[c].by = q.who
            /\ Active(c)' = applied
        BY <4>1, <2>3, <3>2 DEF Active
      <4>3. ASSUME NEW p \in applied
            PROVE  \E v \in Recorded(p)' :
                     v.channel = "batch" /\ v.who = q.who /\ v.verdict = q.verdict
        <5> DEFINE v == [p |-> p, who |-> q.who, channel |-> "batch", verdict |-> q.verdict]
        <5>1. v \in DOMAIN reviews'
          BY <2>6
        <5>2. v \in Recorded(p)'
          BY <5>1 DEF Recorded
        <5> QED BY <5>2
      <4>4. Conclusion(q.verdict) = "rejected" => q.verdict = "rejected"
        BY DEF Conclusion
      <4> QED BY <1>4, <2>9, <3>2, <4>2, <4>3, <4>4
    <3> QED BY <3>1, <3>2
  <2> QED BY <2>10, <2>11, <2>12 DEF ReviewInv
<1> QED BY <1>3, <1>4

LEMMA ReadingKeeps ==
    ASSUME ReviewInv, NEW r \in Request,
           \/ StartReview(r) \/ CountReviews(r) \/ ListEligible(r)
           \/ InsertMembers(r) \/ StartConfirm(r) \/ RefreshDecisions(r)
           \/ PassGates(r) \/ Crash(r)
    PROVE  ReviewInv'
<1> USE DEF Becomes, Return, Proceed
<1>1. /\ request[r] \in Doing /\ NotByAuthor(r)
      /\ routing \in [Proposal -> {"batch", "expert"}] /\ crashes \in 0..MaxCrashes /\ MaxCrashes \in Nat
  BY ReviewAssumption DEF ReviewInv, ReviewTypeOK, ReviewAssumption
<1>2. UNCHANGED <<state, escalated, reviews, batch, releasedBy>>
  BY DEF StartReview, CountReviews, ListEligible, InsertMembers,
         StartConfirm, RefreshDecisions, PassGates, Crash
<1>3. routing' \in [Proposal -> {"batch", "expert"}]
  BY <1>1
  DEF StartReview, CountReviews, ListEligible, InsertMembers,
      StartConfirm, RefreshDecisions, RefreshedRouting, PassGates, Crash
<1>4. crashes' \in 0..MaxCrashes
  BY <1>1
  DEF StartReview, CountReviews, ListEligible, InsertMembers,
      StartConfirm, RefreshDecisions, PassGates, Crash
<1>5. \E doing \in Doing :
        /\ doing.at \in {"count", "insert"} => doing.who # Author[doing.p]
        /\ request' = [request EXCEPT ![r] = doing]
  <2>1. CASE StartReview(r)
    <3>1. PICK p \in Proposal, who \in Principal, verdict \in Verdict :
            /\ Author[p] # who
            /\ request' = [request EXCEPT ![r] = [at |-> "count", p |-> p, who |-> who, verdict |-> verdict]]
      BY <2>1 DEF StartReview
    <3>2. [at |-> "count", p |-> p, who |-> who, verdict |-> verdict] \in Doing
      BY DEF Doing
    <3> QED BY <3>1, <3>2
  <2>2. CASE CountReviews(r)
    <3>1. request[r] \in [at: {"count", "insert", "transition"}, p: Proposal, who: Principal,
                          verdict: Verdict]
      BY <1>1, <2>2, DoingKinds DEF CountReviews
    <3>2. DEFINE d == [request[r] EXCEPT !.at = "insert"]
    <3>3. /\ d \in Doing /\ d.who = request[r].who /\ d.p = request[r].p
          /\ d.who # Author[d.p]
      BY <1>1, <2>2, <3>1 DEF Doing, CountReviews, NotByAuthor
    <3>4. \/ request' = [request EXCEPT ![r] = d]
          \/ request' = [request EXCEPT ![r] = Idle]
      BY <2>2 DEF CountReviews
    <3> HIDE DEF d
    <3> QED BY <3>3, <3>4, IdleIsDoing
  <2>3. CASE ListEligible(r)
    <3>1. [at |-> "insert_members", members |-> Eligible] \in Doing
      BY DEF Doing, Eligible
    <3> QED BY <2>3, <3>1 DEF ListEligible
  <2>4. CASE InsertMembers(r)
    <3>1. request[r] \in [at: {"insert_members", "commit_batches"}, members: SUBSET Proposal]
      BY <1>1, <2>4, DoingKinds DEF InsertMembers
    <3>2. DEFINE d == [request[r] EXCEPT !.at = "commit_batches"]
    <3>3. d \in Doing /\ d.at = "commit_batches"
      BY <3>1 DEF Doing
    <3>4. \/ request' = [request EXCEPT ![r] = d]
          \/ request' = [request EXCEPT ![r] = Idle]
      BY <2>4 DEF InsertMembers
    <3> HIDE DEF d
    <3> QED BY <3>3, <3>4, IdleIsDoing
  <2>5. CASE StartConfirm(r)
    <3>1. PICK b \in Batch, who \in Principal, verdict \in Verdict :
            request' = [request EXCEPT ![r] = [at |-> "refresh", b |-> b, who |-> who, verdict |-> verdict]]
      BY <2>5 DEF StartConfirm
    <3>2. [at |-> "refresh", b |-> b, who |-> who, verdict |-> verdict] \in Doing
      BY DEF Doing
    <3> QED BY <3>1, <3>2
  <2>6. CASE RefreshDecisions(r)
    <3>1. request[r] \in [at: {"refresh", "decide"}, b: Batch, who: Principal, verdict: Verdict]
      BY <1>1, <2>6, DoingKinds DEF RefreshDecisions
    <3>2. DEFINE d == [request[r] EXCEPT !.at = "decide"]
    <3>3. d \in Doing /\ d.at = "decide"
      BY <3>1 DEF Doing
    <3>4. request' = [request EXCEPT ![r] = d]
      BY <2>6 DEF RefreshDecisions
    <3> HIDE DEF d
    <3> QED BY <3>3, <3>4
  <2>7. CASE PassGates(r)
    <3>1. PICK p \in Proposal, who \in Principal :
            request' = [request EXCEPT ![r] = [at |-> "publish", p |-> p, who |-> who]]
      BY <2>7 DEF PassGates
    <3>2. [at |-> "publish", p |-> p, who |-> who] \in Doing
      BY DEF Doing
    <3> QED BY <3>1, <3>2
  <2>8. CASE Crash(r)
    BY <2>8, IdleIsDoing DEF Crash
  <2> QED BY <2>1, <2>2, <2>3, <2>4, <2>5, <2>6, <2>7, <2>8
<1> QED BY <1>2, <1>3, <1>4, <1>5, ReviewRequestMoves

LEMMA EscalateKeeps == ASSUME ReviewInv, NEW p \in Proposal, Escalate(p) PROVE ReviewInv'
<1>1. ReviewTypeOK'
  BY DEF ReviewInv, ReviewTypeOK, Escalate
<1>2. ASSUME NEW s \in Request PROVE NotByAuthor(s)'
  BY DEF ReviewInv, Escalate, NotByAuthor
<1>3. BatchSpeaksForItsMembers'
  BY DEF ReviewInv, Escalate, BatchSpeaksForItsMembers, Active, Recorded
<1> QED BY <1>1, <1>2, <1>3 DEF ReviewInv

LEMMA ReviewSteps ==
    ASSUME ReviewInv, [ReviewNext]_reviewVars
    PROVE  ReviewInv'
<1>1. CASE UNCHANGED reviewVars
  <2> USE <1>1 DEF reviewVars
  <2>1. ReviewTypeOK'
    BY DEF ReviewInv, ReviewTypeOK
  <2>2. ASSUME NEW s \in Request PROVE NotByAuthor(s)'
    BY DEF ReviewInv, NotByAuthor
  <2>3. BatchSpeaksForItsMembers'
    BY DEF ReviewInv, BatchSpeaksForItsMembers, Active, Recorded
  <2> QED BY <2>1, <2>2, <2>3 DEF ReviewInv
<1>2. ASSUME NEW r \in Request,
             \/ StartReview(r) \/ CountReviews(r) \/ ListEligible(r)
             \/ InsertMembers(r) \/ StartConfirm(r) \/ RefreshDecisions(r)
             \/ PassGates(r) \/ Crash(r)
      PROVE  ReviewInv'
  BY <1>2, ReadingKeeps
<1>3. ASSUME NEW r \in Request, InsertReview(r) PROVE ReviewInv'
  BY <1>3, InsertReviewKeeps
<1>4. ASSUME NEW r \in Request, Transition(r) \/ PublishRelease(r) PROVE ReviewInv'
  BY <1>4, RejectionKeeps
<1>5. ASSUME NEW r \in Request, CommitBatches(r) PROVE ReviewInv'
  BY <1>5, CommitBatchesKeeps
<1>6. ASSUME NEW r \in Request, DecideBatch(r) PROVE ReviewInv'
  BY <1>6, DecideBatchKeeps
<1>7. ASSUME NEW p \in Proposal, Escalate(p) PROVE ReviewInv'
  BY <1>7, EscalateKeeps
<1> QED BY <1>1, <1>2, <1>3, <1>4, <1>5, <1>6, <1>7 DEF ReviewNext

LEMMA ReviewInvariance == ReviewSpec => []ReviewInv
<1>1. ReviewInit => ReviewInv
  BY ReviewStarts
<1>2. ReviewInv /\ [ReviewNext]_reviewVars => ReviewInv'
  BY ReviewSteps
<1> QED BY <1>1, <1>2, PTL DEF ReviewSpec

\* The tables of review keep their types, and nobody has a review of his own
\* proposal, on either channel and whatever was stale when he asked (review.go,
\* reviewbatch.go).
THEOREM ReviewTypes == ReviewSpec => []ReviewTypeOK
<1>1. ReviewInv => ReviewTypeOK
  BY DEF ReviewInv
<1> QED BY <1>1, ReviewInvariance, PTL

\* Each member that a decided batch did not split out has the reviewer's batch
\* review, and is rejected if the batch is, for ever after (ConfirmReviewBatch).
THEOREM BatchesSpeak ==
    ReviewSpec => []BatchSpeaksForItsMembers
<1>1. ReviewInv => BatchSpeaksForItsMembers
  BY DEF ReviewInv
<1> QED BY <1>1, ReviewInvariance, PTL

LEMMA SettledStays ==
    ASSUME ReviewInv, ReviewNext, NEW p \in Proposal, state[p] # "in_review"
    PROVE  state'[p] = state[p]
<1>1. ASSUME NEW r \in Request, Transition(r) PROVE state'[p] = state[p]
  BY <1>1 DEF ReviewInv, ReviewTypeOK, Transition, RejectedState
<1>2. ASSUME NEW r \in Request, PublishRelease(r) PROVE state'[p] = state[p]
  BY <1>2 DEF ReviewInv, ReviewTypeOK, PublishRelease, StillInReview
<1>3. ASSUME NEW r \in Request, DecideBatch(r) PROVE state'[p] = state[p]
  BY <1>3 DEF DecideBatch, DecidedState, SplitOut
<1>4. ASSUME NEW r \in Request,
             \/ StartReview(r) \/ CountReviews(r) \/ InsertReview(r)
             \/ ListEligible(r) \/ InsertMembers(r) \/ CommitBatches(r)
             \/ StartConfirm(r) \/ RefreshDecisions(r)
             \/ PassGates(r) \/ Crash(r)
      PROVE  state'[p] = state[p]
  BY <1>4
  DEF StartReview, CountReviews, InsertReview, ListEligible,
      InsertMembers, CommitBatches, StartConfirm, RefreshDecisions,
      PassGates, Crash
<1>5. ASSUME NEW q \in Proposal, Escalate(q) PROVE state'[p] = state[p]
  BY <1>5 DEF Escalate
<1> QED BY <1>1, <1>2, <1>3, <1>4, <1>5 DEF ReviewNext

\* A proposal once released or rejected stays so, however many reviews, batches
\* and publishes of it run side by side (Transition, DecideBatch, PublishRelease).
THEOREM DecisionsAreFinal ==
    ReviewSpec => DecisionIsFinal
<1>1. ReviewInv /\ [ReviewNext]_reviewVars
        => [\A p \in Proposal : state[p] # "in_review" => state'[p] = state[p]]_reviewVars
  BY SettledStays
<1> QED BY <1>1, ReviewInvariance, PTL DEF ReviewSpec, DecisionIsFinal

-----------------------------------------------------------------------------
(* Validation.                                                             *)

After == {"in_review"} \union Settled
Reviewed == stage \in After
Finished(v) == run[v] \in {"succeeded", "failed"}
Complete == orchestration = "failed" \/ \A v \in Validators : Finished(v)
Blockers == \E v \in Validators : HasBlocker(v)

Validating == {"find", "create", "list", "record", "insert", "check", "finish"}
Degraded == {"record_degradation", "leave_validating", "transition", "ensure_decision", "decide", "failed"}

Handlers == [pc: HandlerSteps, v: Validators, input: Worlds \union {{}}, todo: Seq(Finding),
             sight: [blockers: BOOLEAN, failed: BOOLEAN], degraded: BOOLEAN]

ValidationShapes ==
    /\ stage \in {"draft", "proposed", "validating", "in_review", "released", "rejected"}
    /\ client \in [Client -> {"idle", "submit", "begin", "enqueue"}]
    /\ phase \in [{"validation"} -> Queue!Phases]
    /\ tries \in [{"validation"} -> 0..MaxAttempts]
    /\ exec \in [Attempts -> Handlers]
    /\ overlapped \in BOOLEAN
    /\ run \in [Validators -> {"none", "running", "succeeded", "failed"}]
    /\ DOMAIN results = Validators
    /\ \A v \in Validators : IsABag(results[v]) /\ DOMAIN results[v] \subseteq StoredFinding
    /\ orchestration \in {"none", "running", "failed"}
    /\ decisions \subseteq [blockers: BOOLEAN, failed: BOOLEAN]
    /\ world \in Worlds
    /\ errors \in Nat /\ losses \in Nat

\* A job is there only for a proposal that is being validated, or was.
Submitted ==
    /\ phase.validation # "absent" \/ (\E c \in Client : client[c] = "enqueue") =>
          stage = "validating" \/ Reviewed
    /\ phase.validation = "absent" => tries.validation = 0
    /\ phase.validation = "active" => tries.validation \in Attempts

\* What is so when the handler of an attempt is at e: the validators before its
\* own are done, it leaves when all are, and only the last attempt degrades, once.
Placed(a, e) ==
    /\ a > tries.validation => e.pc = "none"
    /\ e.pc \in Validating => e.input \in Worlds /\ \A u \in Validators : u < e.v => Finished(u)
    /\ e.pc \in {"record", "insert"} => e.todo # <<>>
    /\ e.pc \in {"leave_validating", "transition"} => Complete
    /\ e.pc \in {"ensure_decision", "decide", "ok"} => Reviewed
    /\ e.pc \in {"degrade", "record_degradation"} => e.degraded
    /\ e.degraded => a = MaxAttempts /\ e.pc \in Degraded \union {"degrade"}
    /\ a = MaxAttempts => orchestration = "none" \/ e.pc = "gone" \/ (e.degraded /\ e.pc \in Degraded)

\* The handler that runs alone is that of the last attempt, and what it goes by
\* does not change under it.
Alone(a, e) ==
    ~overlapped =>
        /\ e.pc \notin {"none", "gone"} => a = tries.validation
        /\ e.pc \in Validating => stage = "validating"
        /\ e.pc = "decide" => (e.sight.blockers <=> Blockers)

Decided ==
    /\ decisions # {} => Reviewed
    /\ ~overlapped /\ decisions # {} /\ Blockers => \E d \in decisions : d.blockers

\* Without a fault there is one attempt, which nothing can fail, until the
\* proposal is in review.
Untouched(v) == run[v] = "none" /\ ~HasBlocker(v)
Unfailing(e) ==
    /\ e.pc \in {"load", "leave_validating", "transition"} \union Validating
    /\ e.pc = "load" => \A v \in Validators : Untouched(v)
    /\ e.pc \in Validating => \A u \in Validators : u > e.v => Untouched(u)
    /\ e.pc \in {"find", "create"} => Untouched(e.v)
    /\ e.pc \in Validating \ {"find", "create"} =>
          /\ run[e.v] = "running"
          /\ HasBlocker(e.v) => e.v \in e.input
    /\ e.pc \in {"record", "insert"} =>
          \A i \in DOMAIN e.todo : e.todo[i].kind = "blocker" => e.v \in e.input
Faultless ==
    \/ /\ tries.validation = 0 /\ phase.validation \in {"absent", "waiting"}
       /\ \A v \in Validators : Untouched(v)
    \/ tries.validation = 1 /\ phase.validation = "active" /\ Unfailing(exec[1])

Faults == losses + errors
Survives ==
    MaxAttempts > 1 /\ ~Reviewed =>
        /\ Faults = 0 => Faultless
        /\ \A a \in Attempts : Current(a) /\ a >= 2 /\ ~Running(a) => Faults >= 2
        /\ exec[MaxAttempts].pc = "failed" => Faults >= 2
        /\ phase.validation = "dead" => Faults >= 2

OnRecord ==
    /\ ValidationShapes /\ Submitted /\ Decided
    /\ \A a \in Attempts : Placed(a, exec[a]) /\ Alone(a, exec[a])
    /\ Reviewed => Complete

ValidationInv == OnRecord /\ Survives

-----------------------------------------------------------------------------

LEMMA ValidationParams ==
           /\ NumValidators \in Nat /\ NumValidators >= 1 /\ MaxAttempts \in Nat /\ MaxAttempts >= 1
           /\ Validators = 1..NumValidators /\ Attempts = 1..MaxAttempts
           /\ 1 \in Validators /\ 1 \in Attempts /\ MaxAttempts \in Attempts
           /\ Worlds \subseteq SUBSET Validators
  BY ValidationAssumption DEF ValidationAssumption, Validators, Attempts

\* A finding that is added to a bag of findings.
LEMMA Added ==
    ASSUME NEW B, IsABag(B), NEW f
    PROVE  LET C == B (+) SetToBag({f}) IN
           IsABag(C) /\ DOMAIN C = DOMAIN B \union {f}
  BY DEF IsABag, BagToSet, SetToBag, (+)

\* What is stored of a finding differs from it in the details, and only there.
LEMMA StoredIs ==
    ASSUME NEW f \in Finding
    PROVE  AsStored(f) \in StoredFinding /\ AsStored(f).kind = f.kind /\ AsStored(f).input = f.input
  BY DEF Finding, StoredFinding, AsStored

LEMMA HandlerIs ==
    ASSUME NEW v \in Validators, NEW pc \in HandlerSteps, NEW input \in Worlds \union {{}}
    PROVE  /\ Handler(pc, v, input) \in Handlers
           /\ Handler(pc, v, input).pc = pc /\ Handler(pc, v, input).v = v
           /\ Handler(pc, v, input).input = input /\ ~Handler(pc, v, input).degraded
           /\ Handler(pc, v, input).todo = <<>>
<1>1. NoSight \in [blockers: BOOLEAN, failed: BOOLEAN]
  BY DEF NoSight
<1>2. <<>> \in Seq(Finding)
  OBVIOUS
<1> QED BY <1>1, <1>2 DEF Handler, Handlers

LEMMA ValidationStart == ValidationInit => ValidationInv
<1> SUFFICES ASSUME ValidationInit PROVE ValidationInv
  OBVIOUS
<1> USE ValidationParams DEF ValidationInit
<1>1. phase = [j \in {"validation"} |-> "absent"] /\ tries = [j \in {"validation"} |-> 0]
  BY DEF Queue!ContractInit
<1>2. NotStarted \in Handlers /\ NotStarted.pc = "none" /\ ~NotStarted.degraded
  <2>1. "none" \in HandlerSteps
    BY DEF HandlerSteps
  <2> QED BY <2>1, HandlerIs DEF NotStarted
<1>3. IsABag(EmptyBag) /\ DOMAIN EmptyBag = {}
  BY DEF EmptyBag, IsABag, SetToBag
<1>4. \A v \in Validators : ~HasBlocker(v)
  BY <1>3 DEF HasBlocker
<1>5. ValidationShapes
  <2>1. phase \in [{"validation"} -> Queue!Phases] /\ tries \in [{"validation"} -> 0..MaxAttempts]
    BY <1>1 DEF Queue!Phases
  <2>2. exec \in [Attempts -> Handlers]
    BY <1>2
  <2>3. /\ DOMAIN results = Validators
        /\ \A v \in Validators : IsABag(results[v]) /\ DOMAIN results[v] \subseteq StoredFinding
    BY <1>3
  <2> QED BY <2>1, <2>2, <2>3 DEF ValidationShapes
<1>6. Submitted /\ Decided /\ ~Reviewed
  BY <1>1 DEF Submitted, Decided, Reviewed, After, Settled
<1>7. \A a \in Attempts : exec[a] = NotStarted
  OBVIOUS
<1>8. \A a \in Attempts : Placed(a, exec[a]) /\ Alone(a, exec[a])
  BY <1>2, <1>7 DEF Placed, Alone, Validating
<1>9. Survives
  <2>1. Faultless
    BY <1>1, <1>4 DEF Faultless, Untouched
  <2>2. phase.validation = "absent" /\ exec[MaxAttempts].pc = "none"
    BY <1>1, <1>2, <1>7
  <2> QED BY <2>1, <2>2 DEF Survives, Current
<1> QED BY <1>5, <1>6, <1>8, <1>9 DEF ValidationInv, OnRecord

\* Requests, reviews and the world leave the job and its handlers alone.
LEMMA OutsideKeeps ==
    ASSUME ValidationInv,
           UNCHANGED <<phase, tries, exec, overlapped, run, results, orchestration, decisions,
                       errors, losses>>,
           client' \in [Client -> {"idle", "submit", "begin", "enqueue"}], world' \in Worlds,
           \/ stage' = stage
           \/ stage = "draft" /\ stage' = "proposed"
           \/ stage = "proposed" /\ stage' = "validating"
           \/ stage \in After /\ stage' \in After,
           \A c \in Client : client'[c] = "enqueue" => client[c] = "enqueue" \/ stage' = "validating"
    PROVE  ValidationInv'
<1>1. (Reviewed' <=> Reviewed) /\ (stage = "validating" => stage' = "validating")
  BY DEF Reviewed, After, Settled
<1>2. ValidationShapes'
  BY DEF ValidationInv, OnRecord, ValidationShapes, After, Settled
<1>3. Submitted'
  BY <1>1 DEF ValidationInv, OnRecord, Submitted
<1>4. (Complete' <=> Complete) /\ (Blockers' <=> Blockers) /\ \A v : Finished(v)' <=> Finished(v)
  BY DEF Complete, Blockers, HasBlocker, Finished
<1>5. Decided'
  BY <1>1, <1>4 DEF ValidationInv, OnRecord, Decided
<1>6. ASSUME NEW a \in Attempts PROVE Placed(a, exec[a])' /\ Alone(a, exec[a])'
  <2>1. Placed(a, exec[a]) /\ Alone(a, exec[a])
    BY DEF ValidationInv, OnRecord
  <2>2. Placed(a, exec[a])'
    BY <1>1, <1>4, <2>1 DEF Placed
  <2>3. Alone(a, exec[a])'
    BY <1>1, <1>4, <2>1 DEF Alone
  <2> QED BY <2>2, <2>3
<1>7. Survives'
  <2>1. Faultless' <=> Faultless
    BY DEF Faultless, Untouched, HasBlocker, Unfailing
  <2>2. Faults' = Faults /\ \A a : (Current(a)' <=> Current(a)) /\ (Running(a)' <=> Running(a))
    BY DEF Faults, Current, Running
  <2> QED BY <1>1, <2>1, <2>2 DEF ValidationInv, OnRecord, Survives
<1> QED BY <1>1, <1>2, <1>3, <1>4, <1>5, <1>6, <1>7 DEF ValidationInv, OnRecord

LEMMA RequestsOutside ==
    ASSUME ValidationInv, NEW c \in Client,
           ReadForSubmit(c) \/ Submit(c) \/ BeginValidation(c) \/ AbandonSubmit(c)
    PROVE  ValidationInv'
<1>1. UNCHANGED <<phase, tries, exec, overlapped, run, results, orchestration, decisions,
                  errors, losses, world>>
  BY DEF ReadForSubmit, Submit, BeginValidation, AbandonSubmit, jobVars, runVars, boundVars
<1>2. client \in [Client -> {"idle", "submit", "begin", "enqueue"}] /\ world \in Worlds
  BY DEF ValidationInv, OnRecord, ValidationShapes
<1>3. PICK pc \in {"idle", "submit", "begin", "enqueue"} :
          /\ client' = [client EXCEPT ![c] = pc]
          /\ pc = "enqueue" => stage' = "validating"
          /\ \/ stage' = stage
             \/ stage = "draft" /\ stage' = "proposed"
             \/ stage = "proposed" /\ stage' = "validating"
  BY DEF ReadForSubmit, Submit, BeginValidation, AbandonSubmit, ClientAt
<1> QED BY <1>1, <1>2, <1>3, OutsideKeeps

LEMMA ReviewsOutside ==
    ASSUME ValidationInv, Reject \/ PassGate \/ ReleaseProposal \/ ChangeWorld
    PROVE  ValidationInv'
<1>1. UNCHANGED <<client, phase, tries, exec, overlapped, run, results, orchestration, decisions,
                  errors, losses>>
  BY DEF Reject, PassGate, ReleaseProposal, ChangeWorld, jobVars, runVars, boundVars, proposalVars
<1>2. client \in [Client -> {"idle", "submit", "begin", "enqueue"}] /\ world \in Worlds
  BY DEF ValidationInv, OnRecord, ValidationShapes
<1>3. world' \in Worlds
  BY <1>2 DEF Reject, PassGate, ReleaseProposal, ChangeWorld, boundVars
<1>4. stage' = stage \/ (stage \in After /\ stage' \in After)
  BY DEF Reject, PassGate, ReleaseProposal, ChangeWorld, proposalVars, After, Settled
<1> QED BY <1>1, <1>2, <1>3, <1>4, OutsideKeeps

-----------------------------------------------------------------------------
(* The job and its attempts.                                               *)

LEMMA GoneIs == Gone \in Handlers /\ Gone.pc = "gone" /\ ~Gone.degraded
<1>1. "gone" \in HandlerSteps
  BY DEF HandlerSteps
<1> QED BY <1>1, ValidationParams, HandlerIs DEF Gone

LEMMA ValidationTables ==
    ASSUME ValidationInv
    PROVE  /\ client \in [Client -> {"idle", "submit", "begin", "enqueue"}]
           /\ phase \in [{"validation"} -> Queue!Phases]
           /\ tries \in [{"validation"} -> 0..MaxAttempts]
           /\ exec \in [Attempts -> Handlers]
           /\ world \in Worlds
           /\ errors \in Nat /\ losses \in Nat /\ Faults = losses + errors /\ Faults \in Nat
           /\ tries.validation \in Nat
           /\ \A a \in Attempts : Placed(a, exec[a]) /\ Alone(a, exec[a])
           /\ Survives
<1>1. tries.validation \in 0..MaxAttempts
  BY DEF ValidationInv, OnRecord, ValidationShapes
<1>2. tries.validation \in Nat
  BY <1>1, ValidationParams
<1> QED BY <1>2 DEF ValidationInv, OnRecord, ValidationShapes, Faults

\* A handler runs for an attempt that was started, and without a fault only for
\* the first one, which is current.
LEMMA RunningIs ==
    ASSUME ValidationInv, NEW a \in Attempts, exec[a].pc \notin {"none"}
    PROVE  /\ a <= tries.validation /\ a \in Nat /\ phase.validation # "absent"
           /\ stage = "validating" \/ Reviewed
           /\ MaxAttempts > 1 /\ ~Reviewed /\ Faults = 0 =>
                  /\ a = 1 /\ tries.validation = 1 /\ Unfailing(exec[1])
                  /\ Current(a)
<1>1. a \in Nat /\ a >= 1 /\ tries.validation \in Nat
  BY ValidationParams, ValidationTables
<1>2. a <= tries.validation
  BY <1>1, ValidationTables DEF Placed
<1>3. phase.validation # "absent"
  BY <1>1, <1>2 DEF ValidationInv, OnRecord, Submitted
<1>4. stage = "validating" \/ Reviewed
  BY <1>3 DEF ValidationInv, OnRecord, Submitted
<1>5. MaxAttempts > 1 /\ ~Reviewed /\ Faults = 0 =>
          a = 1 /\ tries.validation = 1 /\ Unfailing(exec[1]) /\ Current(a)
  BY <1>1, <1>2 DEF ValidationInv, Survives, Faultless, Current
<1> QED BY <1>1, <1>2, <1>3, <1>4, <1>5

\* An attempt that ends, by its handler or by its job.
LEMMA EndKeeps ==
    ASSUME ValidationInv,
           UNCHANGED <<stage, client, tries, overlapped, run, results, orchestration, decisions, world>>,
           errors' \in Nat, losses' \in Nat,
           phase' \in [{"validation"} -> Queue!Phases],
           \/ phase' = phase
           \/ /\ phase.validation = "active"
              /\ phase'.validation \in {"waiting", "succeeded", "dead"},
           exec' \in [Attempts -> Handlers],
           \A a \in Attempts : exec'[a] = exec[a] \/ (exec[a].pc # "none" /\ exec'[a] = Gone)
    PROVE  OnRecord'
<1>1. ValidationShapes'
  BY DEF ValidationInv, OnRecord, ValidationShapes
<1>2. Submitted'
  BY DEF ValidationInv, OnRecord, Submitted, Reviewed
<1>3. (Complete' <=> Complete) /\ (Blockers' <=> Blockers) /\ (Reviewed' <=> Reviewed)
      /\ \A v : Finished(v)' <=> Finished(v)
  BY DEF Complete, Blockers, HasBlocker, Finished, Reviewed
<1>4. Decided'
  BY <1>3 DEF ValidationInv, OnRecord, Decided
<1>5. ASSUME NEW a \in Attempts PROVE Placed(a, exec[a])' /\ Alone(a, exec[a])'
  <2>1. Placed(a, exec[a]) /\ Alone(a, exec[a])
    BY ValidationTables
  <2>2. CASE exec'[a] = exec[a]
    <3>1. Placed(a, exec[a])'
      BY <1>3, <2>1, <2>2 DEF Placed
    <3>2. Alone(a, exec[a])'
      BY <1>3, <2>1, <2>2 DEF Alone
    <3> QED BY <3>1, <3>2
  <2>3. CASE exec[a].pc # "none" /\ exec'[a] = Gone
    <3>1. ~(a > tries.validation)
      BY <2>3, RunningIs, ValidationTables
    <3> QED BY <2>3, <3>1, GoneIs DEF Placed, Alone, Validating
  <2> QED BY <2>2, <2>3
<1>6. Reviewed' => Complete'
  BY <1>3 DEF ValidationInv, OnRecord
<1> QED BY <1>1, <1>2, <1>4, <1>5, <1>6 DEF OnRecord

\* What a lost attempt leaves.
LEMMA LostIs ==
    ASSUME ValidationInv, Queue!LoseAttempts({"validation"})
    PROVE  /\ phase' \in [{"validation"} -> Queue!Phases] /\ phase.validation = "active" /\ tries' = tries
           /\ phase'.validation = IF tries.validation = MaxAttempts THEN "dead" ELSE "waiting"
  BY DEF Queue!LoseAttempts, Queue!AfterLostAttempt, Queue!Phases

LEMMA ReturnKeeps == ASSUME ValidationInv, NEW a \in Attempts, HandlerReturns(a) PROVE ValidationInv'
<1> USE ValidationTables
<1>1. /\ exec[a].pc \in {"ok", "failed"} /\ exec' = [exec EXCEPT ![a] = Gone]
      /\ UNCHANGED <<stage, client, tries, overlapped, run, results, orchestration, decisions, world,
                     errors, losses>>
  BY LostIs DEF HandlerReturns, proposalVars, runVars, boundVars, Queue!Succeed
<1>2. \/ ~Current(a) /\ phase' = phase
      \/ /\ Current(a) /\ phase.validation = "active" /\ phase' \in [{"validation"} -> Queue!Phases]
         /\ exec[a].pc = "ok" => phase'.validation = "succeeded"
         /\ exec[a].pc = "failed" =>
               phase'.validation = IF tries.validation = MaxAttempts THEN "dead" ELSE "waiting"
  <2>1. CASE Current(a) /\ exec[a].pc = "ok"
    BY <1>1, <2>1 DEF HandlerReturns, Current, Queue!Succeed, Queue!Phases
  <2>2. CASE Current(a) /\ exec[a].pc = "failed"
    BY <1>1, <2>2, LostIs DEF HandlerReturns, Current
  <2>3. CASE ~Current(a)
    BY <2>3 DEF HandlerReturns
  <2> QED BY <1>1, <2>1, <2>2, <2>3
<1>3. /\ exec' \in [Attempts -> Handlers] /\ exec'[a] = Gone
      /\ \A b \in Attempts \ {a} : exec'[b] = exec[b]
  BY <1>1, GoneIs
<1>4. OnRecord'
  BY <1>1, <1>2, <1>3, EndKeeps
<1>5. Survives'
  <2> SUFFICES ASSUME MaxAttempts > 1, ~Reviewed
               PROVE  /\ (Faults = 0 => Faultless)'
                      /\ \A b \in Attempts : (Current(b) /\ b >= 2 /\ ~Running(b) => Faults >= 2)'
                      /\ (exec[MaxAttempts].pc = "failed" => Faults >= 2)'
                      /\ (phase.validation = "dead" => Faults >= 2)'
    BY <1>1 DEF Survives, Reviewed
  <2>1. Faults' = Faults
    BY <1>1 DEF Faults
  <2>2. Faults # 0
    BY <1>1, RunningIs DEF Unfailing, Validating
  <2>3. exec[a].pc = "failed"
    BY <1>1 DEF Placed
  <2>4. ASSUME NEW b \in Attempts, Current(b)', b >= 2, ~Running(b)' PROVE Faults >= 2
    <3>1. phase' = phase /\ ~Current(a) /\ Current(b)
      BY <1>1, <1>2, <2>3, <2>4 DEF Current
    <3>2. b # a /\ ~Running(b)
      BY <1>3, <2>4, <3>1 DEF Running
    <3> QED BY <2>4, <3>1, <3>2 DEF Survives
  <2>5. exec'[MaxAttempts].pc = "failed" => Faults >= 2
    BY <1>3, GoneIs, ValidationParams DEF Survives
  <2>6. phase'.validation = "dead" => Faults >= 2
    <3>1. CASE phase' = phase
      BY <3>1 DEF Survives
    <3>2. CASE Current(a) /\ tries.validation = MaxAttempts
      BY <2>3, <3>2 DEF Survives, Current
    <3> QED BY <1>2, <2>3, <3>1, <3>2
  <2> QED BY <2>1, <2>2, <2>4, <2>5, <2>6
<1> QED BY <1>4, <1>5 DEF ValidationInv

\* The handler is gone before its job learns of it, or learns it from its job.
LEMMA LostHandlersKeep ==
    ASSUME ValidationInv, NEW a \in Attempts, CrashHandler(a) \/ CancelStalled(a)
    PROVE  ValidationInv'
<1> USE ValidationTables
<1>1. /\ Running(a) /\ exec' = [exec EXCEPT ![a] = Gone]
      /\ UNCHANGED <<stage, client, phase, tries, overlapped, run, results, orchestration, decisions,
                     world, errors>>
      /\ \/ Current(a) /\ losses' = losses + 1
         \/ ~Current(a) /\ losses' = losses
  BY DEF CrashHandler, CancelStalled, proposalVars, jobVars, runVars, boundVars
<1>2. /\ exec' \in [Attempts -> Handlers] /\ exec'[a] = Gone
      /\ \A b \in Attempts \ {a} : exec'[b] = exec[b]
  BY <1>1, GoneIs
<1>3. exec[a].pc # "none" /\ losses' \in Nat /\ errors' \in Nat
  BY <1>1 DEF Running
<1>4. OnRecord'
  BY <1>1, <1>2, <1>3, EndKeeps
<1>5. Survives'
  <2> SUFFICES ASSUME MaxAttempts > 1, ~Reviewed
               PROVE  /\ (Faults = 0 => Faultless)'
                      /\ \A b \in Attempts : (Current(b) /\ b >= 2 /\ ~Running(b) => Faults >= 2)'
                      /\ (exec[MaxAttempts].pc = "failed" => Faults >= 2)'
                      /\ (phase.validation = "dead" => Faults >= 2)'
    BY <1>1 DEF Survives, Reviewed
  <2>1. /\ Faults' = Faults \/ Faults' = Faults + 1
        /\ Current(a) => Faults' = Faults + 1
    BY <1>1 DEF Faults
  <2>2. Faults = 0 => Current(a) /\ a = 1
    BY <1>3, RunningIs
  <2>3. Faults' \in Nat /\ Faults' # 0 /\ Faults' >= Faults
    <3>1. Faults \in Nat
      OBVIOUS
    <3> HIDE ValidationTables
    <3> QED BY <2>1, <2>2, <3>1
  <2>4. ASSUME NEW b \in Attempts, Current(b)', b >= 2, ~Running(b)' PROVE Faults' >= 2
    <3>1. Current(b)
      BY <1>1, <2>4 DEF Current
    <3>2. CASE b = a
      BY <2>1, <2>2, <2>3, <2>4, <3>1, <3>2
    <3>3. CASE b # a
      <4>1. ~Running(b)
        BY <1>2, <2>4, <3>3 DEF Running
      <4> QED BY <2>1, <2>3, <2>4, <3>1, <4>1 DEF Survives
    <3> QED BY <3>2, <3>3
  <2>5. exec'[MaxAttempts].pc = "failed" => Faults' >= 2
    BY <1>2, <2>1, <2>3, GoneIs, ValidationParams DEF Survives
  <2>6. phase'.validation = "dead" => Faults' >= 2
    BY <1>1, <2>1, <2>3 DEF Survives
  <2> QED BY <2>3, <2>4, <2>5, <2>6
<1> QED BY <1>4, <1>5 DEF ValidationInv

LEMMA ReapKeeps == ASSUME ValidationInv, ReapDead \/ ReapStalled PROVE ValidationInv'
<1> USE ValidationTables
<1>1. /\ UNCHANGED <<stage, client, exec, overlapped, run, results, orchestration, decisions, world, errors>>
      /\ Queue!LoseAttempts({"validation"})
  BY DEF ReapDead, ReapStalled, proposalVars, jobVars, runVars, boundVars
<1>2. PICK a \in Attempts : /\ Current(a)
                            /\ \/ ~Running(a) /\ losses' = losses
                               \/ Running(a) /\ losses' = losses + 1
  BY DEF ReapDead, ReapStalled, boundVars
<1>3. /\ phase' \in [{"validation"} -> Queue!Phases] /\ phase.validation = "active" /\ tries' = tries
      /\ phase'.validation = IF tries.validation = MaxAttempts THEN "dead" ELSE "waiting"
  BY <1>1, LostIs
<1>4. losses' \in Nat
  BY <1>2
<1>5. OnRecord'
  BY <1>1, <1>3, <1>4, EndKeeps
<1>6. Survives'
  <2> SUFFICES ASSUME MaxAttempts > 1, ~Reviewed
               PROVE  /\ (Faults = 0 => Faultless)'
                      /\ \A b \in Attempts : (Current(b) /\ b >= 2 /\ ~Running(b) => Faults >= 2)'
                      /\ (exec[MaxAttempts].pc = "failed" => Faults >= 2)'
                      /\ (phase.validation = "dead" => Faults >= 2)'
    BY <1>1 DEF Survives, Reviewed
  <2>1. a = tries.validation /\ a \in Nat /\ a >= 1
    BY <1>2, ValidationParams DEF Current
  <2>2. Faults' = Faults + (losses' - losses) /\ Faults' >= Faults /\ Faults' \in Nat
    BY <1>1, <1>2 DEF Faults
  <2>3. Faults = 0 => a = 1 /\ Running(a)
    BY <1>3, <2>1 DEF Survives, Faultless, Unfailing, Validating, Running
  <2>4. Faults' # 0
    BY <1>2, <2>2, <2>3
  <2>5. \A b \in Attempts : ~Current(b)'
    BY <1>3 DEF Current
  <2>6. exec'[MaxAttempts].pc = "failed" => Faults' >= 2
    BY <1>1, <2>2 DEF Survives
  <2>7. phase'.validation = "dead" => Faults' >= 2
    <3>1. SUFFICES ASSUME a = MaxAttempts PROVE Faults' >= 2
      BY <1>3, <2>1
    <3>2. CASE Running(a)
      BY <1>2, <2>2, <2>3, <3>1, <3>2
    <3>3. CASE ~Running(a)
      <4>1. Faults >= 2
        BY <1>2, <2>1, <3>1, <3>3 DEF Survives
      <4> QED BY <2>2, <4>1
    <3> QED BY <3>2, <3>3
  <2> QED BY <2>4, <2>5, <2>6, <2>7
<1> QED BY <1>5, <1>6 DEF ValidationInv

LEMMA EnqueueKeeps == ASSUME ValidationInv, NEW c \in Client, EnqueueValidation(c) PROVE ValidationInv'
<1> USE ValidationTables
<1>1. /\ client[c] = "enqueue" /\ client' = [client EXCEPT ![c] = "idle"]
      /\ UNCHANGED <<stage, exec, overlapped, run, results, orchestration, decisions, world, errors, losses>>
  BY DEF EnqueueValidation, ClientAt, runVars, boundVars
<1>2. /\ tries' = tries /\ phase' \in [{"validation"} -> Queue!Phases]
      /\ \/ phase' = phase
         \/ phase.validation = "absent" /\ phase'.validation = "waiting"
  BY DEF EnqueueValidation, Queue!Submit, Queue!Phases
<1>3. (Complete' <=> Complete) /\ (Blockers' <=> Blockers) /\ (Reviewed' <=> Reviewed)
      /\ \A v : Finished(v)' <=> Finished(v)
  BY <1>1 DEF Complete, Blockers, HasBlocker, Finished, Reviewed
<1>4. ValidationShapes'
  BY <1>1, <1>2 DEF ValidationInv, OnRecord, ValidationShapes
<1>5. Submitted' /\ Decided'
  <2>1. Submitted'
    BY <1>1, <1>2, <1>3 DEF ValidationInv, OnRecord, Submitted
  <2>2. Decided'
    BY <1>1, <1>3 DEF ValidationInv, OnRecord, Decided
  <2> QED BY <2>1, <2>2
<1>6. ASSUME NEW a \in Attempts PROVE Placed(a, exec[a])' /\ Alone(a, exec[a])'
  <2>1. Placed(a, exec[a])'
    BY <1>1, <1>2, <1>3 DEF Placed
  <2>2. Alone(a, exec[a])'
    BY <1>1, <1>2, <1>3 DEF Alone
  <2> QED BY <2>1, <2>2
<1>7. Survives'
  <2>1. Faultless => Faultless'
    <3>1. \A e : Unfailing(e)' <=> Unfailing(e)
      BY <1>1 DEF Unfailing, Untouched, HasBlocker
    <3> QED BY <1>1, <1>2, <3>1 DEF Faultless, Untouched, HasBlocker
  <2>2. Faults' = Faults /\ \A a : (Current(a)' => Current(a)) /\ (Running(a)' <=> Running(a))
    BY <1>1, <1>2 DEF Faults, Current, Running
  <2> QED BY <1>1, <1>2, <1>3, <2>1, <2>2 DEF Survives
<1>8. Reviewed' => Complete'
  BY <1>3 DEF ValidationInv, OnRecord
<1> QED BY <1>4, <1>5, <1>6, <1>7, <1>8 DEF ValidationInv, OnRecord

LEMMA StartKeeps == ASSUME ValidationInv, StartAttempt PROVE ValidationInv'
<1> USE ValidationTables
<1>1. PICK t : t = tries.validation + 1
  OBVIOUS
<1>2. PICK e : e = Handler("load", 1, {})
  OBVIOUS
<1>3. /\ phase.validation = "waiting" /\ t \in Attempts
      /\ phase' \in [{"validation"} -> Queue!Phases] /\ phase'.validation = "active"
      /\ tries' \in [{"validation"} -> 0..MaxAttempts] /\ tries'.validation = t
  <2>1. tries.validation \in Nat /\ tries.validation < MaxAttempts
    BY DEF StartAttempt, Queue!Attempt
  <2>2. t \in Attempts /\ t \in 0..MaxAttempts
    BY <1>1, <2>1, ValidationParams
  <2> QED BY <1>1, <2>2 DEF StartAttempt, Queue!Attempt, Queue!Phases
<1>4. /\ overlapped' = (overlapped \/ \E a \in Attempts : Running(a))
      /\ UNCHANGED <<stage, client, run, results, orchestration, decisions, world, errors, losses>>
      /\ exec' = [exec EXCEPT ![t] = e]
  BY <1>2, <1>3 DEF StartAttempt, proposalVars, runVars, boundVars
<1>5. e \in Handlers /\ e.pc = "load" /\ ~e.degraded
  <2>1. "load" \in HandlerSteps
    BY DEF HandlerSteps
  <2> QED BY <1>2, <2>1, ValidationParams, HandlerIs
<1>6. /\ exec' \in [Attempts -> Handlers] /\ exec'[t] = e
      /\ \A a \in Attempts \ {t} : exec'[a] = exec[a]
  BY <1>3, <1>4, <1>5
<1>7. exec[t].pc = "none" /\ ~exec[t].degraded
  BY <1>1, <1>3, ValidationParams DEF Placed, Degraded
<1>8. (Complete' <=> Complete) /\ (Blockers' <=> Blockers) /\ (Reviewed' <=> Reviewed)
      /\ \A v : Finished(v)' <=> Finished(v)
  BY <1>4 DEF Complete, Blockers, HasBlocker, Finished, Reviewed
<1>9. ValidationShapes'
  <2>1. overlapped' \in BOOLEAN
    BY <1>4
  <2> QED BY <1>3, <1>4, <1>6, <2>1 DEF ValidationInv, OnRecord, ValidationShapes
<1>10. Submitted' /\ Decided'
  <2>1. Submitted'
    BY <1>3, <1>4, <1>8 DEF ValidationInv, OnRecord, Submitted
  <2>2. Decided'
    BY <1>4, <1>8 DEF ValidationInv, OnRecord, Decided
  <2> QED BY <2>1, <2>2
<1>11. ASSUME NEW a \in Attempts PROVE Placed(a, exec[a])' /\ Alone(a, exec[a])'
  <2>1. CASE a = t
    <3>1. Placed(a, e)'
      <4>1. a = MaxAttempts => orchestration = "none"
        BY <1>7, <2>1 DEF Placed
      <4> QED BY <1>3, <1>4, <1>5, <2>1, <4>1, ValidationParams DEF Placed, Validating
    <3>2. Alone(a, e)'
      BY <1>3, <1>5, <2>1 DEF Alone, Validating
    <3> QED BY <1>6, <2>1, <3>1, <3>2
  <2>2. CASE a # t
    <3>1. a > t => a > tries.validation
      BY <1>1, ValidationParams
    <3>2. Placed(a, exec[a])'
      BY <1>3, <1>4, <1>6, <1>8, <2>2, <3>1 DEF Placed
    <3>3. Alone(a, exec[a])'
      <4>1. CASE Running(a)
        BY <1>4, <4>1 DEF Alone
      <4>2. CASE ~Running(a)
        BY <1>6, <2>2, <4>2 DEF Alone, Running, Validating
      <4> QED BY <4>1, <4>2
    <3> QED BY <3>2, <3>3
  <2> QED BY <2>1, <2>2
<1>12. Reviewed' => Complete'
  BY <1>8 DEF ValidationInv, OnRecord
<1>13. Survives'
  <2> SUFFICES ASSUME MaxAttempts > 1, ~Reviewed
               PROVE  /\ (Faults = 0 => Faultless)'
                      /\ \A b \in Attempts : (Current(b) /\ b >= 2 /\ ~Running(b) => Faults >= 2)'
                      /\ (exec[MaxAttempts].pc = "failed" => Faults >= 2)'
                      /\ (phase.validation = "dead" => Faults >= 2)'
    BY <1>8 DEF Survives
  <2>1. Faults' = Faults
    BY <1>4 DEF Faults
  <2>2. Faults = 0 => Faultless'
    <3> SUFFICES ASSUME Faults = 0 PROVE Faultless'
      OBVIOUS
    <3>1. tries.validation = 0 /\ \A v \in Validators : Untouched(v)
      BY <1>3 DEF Survives, Faultless
    <3>2. t = 1 /\ exec'[1] = e
      BY <1>1, <1>6, <3>1
    <3>3. \A v \in Validators : Untouched(v)'
      BY <1>4, <3>1 DEF Untouched, HasBlocker
    <3>4. Unfailing(e)'
      BY <1>5, <3>3 DEF Unfailing, Validating
    <3> QED BY <1>3, <3>2, <3>4 DEF Faultless
  <2>3. ASSUME NEW b \in Attempts, Current(b)' PROVE Running(b)'
    BY <1>3, <1>5, <1>6, <2>3 DEF Current, Running
  <2>4. exec'[MaxAttempts].pc = "failed" => Faults >= 2
    BY <1>5, <1>6, ValidationParams DEF Survives
  <2>5. phase'.validation # "dead"
    BY <1>3
  <2> QED BY <2>1, <2>2, <2>3, <2>4, <2>5
<1> QED BY <1>9, <1>10, <1>11, <1>12, <1>13 DEF ValidationInv, OnRecord

-----------------------------------------------------------------------------
(* Steps of a handler.                                                     *)

\* What a step of the handler of a, from where it was to e, has to keep.
LEMMA StepKeeps ==
    ASSUME ValidationInv, NEW a \in Attempts, Running(a), NEW e \in Handlers,
           exec' = [exec EXCEPT ![a] = e], e.pc \notin {"none", "gone"},
           UNCHANGED <<client, phase, tries, overlapped, world, losses>>,
           errors' \in {errors, errors + 1},
           stage' \in {"draft", "proposed", "validating", "in_review", "released", "rejected"},
           stage' # stage => stage' = "in_review" /\ Complete,
           run' \in [Validators -> {"none", "running", "succeeded", "failed"}],
           \A v \in Validators : Finished(v) => Finished(v)',
           DOMAIN results' = Validators,
           \A v \in Validators : IsABag(results'[v]) /\ DOMAIN results'[v] \subseteq StoredFinding,
           orchestration' \in {"none", "running", "failed"},
           Complete => Complete',
           a # MaxAttempts => orchestration' = orchestration,
           decisions' \subseteq [blockers: BOOLEAN, failed: BOOLEAN],
           Decided', Placed(a, e)', Alone(a, e)',
           MaxAttempts > 1 /\ ~Reviewed' /\ errors' = errors =>
               /\ Unfailing(exec[a]) => Unfailing(e)'
               /\ a = MaxAttempts => e.pc # "failed",
           MaxAttempts > 1 /\ ~Reviewed' /\ errors' # errors /\ e.pc = "failed" /\ a = MaxAttempts => Faults >= 1
    PROVE  ValidationInv'
<1> USE ValidationTables
<1>1. exec[a].pc # "none" /\ exec[a].pc # "gone"
  BY DEF Running
<1>2. /\ a <= tries.validation /\ a \in Nat /\ phase.validation # "absent"
      /\ stage = "validating" \/ Reviewed
      /\ MaxAttempts > 1 /\ ~Reviewed /\ Faults = 0 =>
             a = 1 /\ tries.validation = 1 /\ Unfailing(exec[1]) /\ Current(a)
  BY <1>1, RunningIs
<1>3. /\ exec' \in [Attempts -> Handlers] /\ exec'[a] = e
      /\ \A b \in Attempts \ {a} : exec'[b] = exec[b]
  OBVIOUS
<1>4. Reviewed => Reviewed'
  BY DEF Reviewed, After
<1>5. stage' # stage => Reviewed'
  BY DEF Reviewed, After
<1>6. ValidationShapes'
  BY <1>3 DEF ValidationInv, OnRecord, ValidationShapes
<1>7. Submitted'
  BY <1>4, <1>5 DEF ValidationInv, OnRecord, Submitted
<1>8. ASSUME NEW b \in Attempts PROVE Placed(b, exec[b])' /\ Alone(b, exec[b])'
  <2>1. CASE b = a
    BY <1>3, <2>1
  <2>2. CASE b # a
    <3>1. Placed(b, exec[b])'
      <4>1. exec'[b] = exec[b] /\ Placed(b, exec[b]) /\ exec[b].v \in Validators
        BY <1>3, <2>2 DEF Handlers
      <4>2. b = MaxAttempts => orchestration' = orchestration
        BY <2>2
      <4> QED BY <1>4, <4>1, <4>2 DEF Placed
    <3>2. Alone(b, exec[b])'
      <4>1. ~overlapped => a = tries.validation
        BY <1>1 DEF Alone
      <4>2. ~overlapped => exec[b].pc \in {"none", "gone"}
        BY <2>2, <4>1 DEF Alone
      <4> QED BY <1>3, <2>2, <4>2 DEF Alone, Validating
    <3> QED BY <3>1, <3>2
  <2> QED BY <2>1, <2>2
<1>9. Reviewed' => Complete'
  BY <1>5 DEF ValidationInv, OnRecord, Reviewed
<1>10. Survives'
  <2> SUFFICES ASSUME MaxAttempts > 1, ~Reviewed'
               PROVE  /\ (Faults = 0 => Faultless)'
                      /\ \A b \in Attempts : (Current(b) /\ b >= 2 /\ ~Running(b) => Faults >= 2)'
                      /\ (exec[MaxAttempts].pc = "failed" => Faults >= 2)'
                      /\ (phase.validation = "dead" => Faults >= 2)'
    BY DEF Survives
  <2>1. ~Reviewed
    BY <1>4
  <2>2. Faults' \in {Faults, Faults + 1} /\ (errors' = errors => Faults' = Faults)
        /\ (errors' # errors => Faults' = Faults + 1)
    BY DEF Faults
  <2>3. Faults' = 0 => Faultless'
    <3> SUFFICES ASSUME Faults' = 0 PROVE Faultless'
      OBVIOUS
    <3>1. Faults = 0 /\ errors' = errors
      BY <2>2
    <3>2. a = 1 /\ tries.validation = 1 /\ Unfailing(exec[a]) /\ phase.validation = "active"
      BY <1>2, <2>1, <3>1 DEF Current
    <3> QED BY <1>3, <3>1, <3>2 DEF Faultless
  <2>4. ASSUME NEW b \in Attempts, Current(b)', b >= 2, ~Running(b)' PROVE Faults' >= 2
    <3>1. b # a /\ Current(b) /\ ~Running(b)
      BY <1>3, <2>4 DEF Current, Running
    <3> QED BY <2>1, <2>2, <2>4, <3>1 DEF Survives
  <2>5. ASSUME exec'[MaxAttempts].pc = "failed" PROVE Faults' >= 2
    <3>1. CASE a = MaxAttempts
      BY <1>3, <2>2, <2>5, <3>1
    <3>2. CASE a # MaxAttempts
      <4>1. exec[MaxAttempts].pc = "failed"
        BY <1>3, <2>5, <3>2, ValidationParams
      <4> QED BY <2>1, <2>2, <4>1 DEF Survives
    <3> QED BY <3>1, <3>2
  <2>6. phase'.validation = "dead" => Faults' >= 2
    BY <2>1, <2>2 DEF Survives
  <2> QED BY <2>3, <2>4, <2>5, <2>6
<1> QED BY <1>6, <1>7, <1>8, <1>9, <1>10 DEF ValidationInv, OnRecord

\* A step that changes nothing but where the handler is.
LEMMA QuietKeeps ==
    ASSUME ValidationInv, NEW a \in Attempts, Running(a), NEW e \in Handlers,
           exec' = [exec EXCEPT ![a] = e], e.pc \notin {"none", "gone"},
           UNCHANGED <<stage, client, phase, tries, overlapped, world, losses, run, results,
                       orchestration, decisions>>,
           errors' \in {errors, errors + 1},
           Placed(a, e), Alone(a, e),
           MaxAttempts > 1 /\ ~Reviewed /\ errors' = errors =>
               /\ Unfailing(exec[a]) => Unfailing(e)
               /\ a = MaxAttempts => e.pc # "failed",
           MaxAttempts > 1 /\ ~Reviewed /\ errors' # errors /\ e.pc = "failed" /\ a = MaxAttempts => Faults >= 1
    PROVE  ValidationInv'
<1>1. (Complete' <=> Complete) /\ (Blockers' <=> Blockers) /\ (Reviewed' <=> Reviewed)
      /\ \A v : (Finished(v)' <=> Finished(v)) /\ (Untouched(v)' <=> Untouched(v))
  BY DEF Complete, Blockers, HasBlocker, Finished, Reviewed, Untouched
<1>2. Placed(a, e)'
  BY <1>1 DEF Placed
<1>3. Alone(a, e)'
  BY <1>1 DEF Alone
<1>4. Decided'
  BY <1>1 DEF ValidationInv, OnRecord, Decided
<1>5. Unfailing(e) => Unfailing(e)'
  BY <1>1 DEF Unfailing, HasBlocker
<1>6. /\ stage \in {"draft", "proposed", "validating", "in_review", "released", "rejected"}
      /\ run \in [Validators -> {"none", "running", "succeeded", "failed"}]
      /\ DOMAIN results = Validators
      /\ \A v \in Validators : IsABag(results[v]) /\ DOMAIN results[v] \subseteq StoredFinding
      /\ orchestration \in {"none", "running", "failed"}
      /\ decisions \subseteq [blockers: BOOLEAN, failed: BOOLEAN]
  BY DEF ValidationInv, OnRecord, ValidationShapes
<1> QED BY <1>1, <1>2, <1>3, <1>4, <1>5, <1>6, StepKeeps

LEMMA RunningTables ==
    ASSUME ValidationInv, NEW a \in Attempts, Running(a)
    PROVE  /\ Placed(a, exec[a]) /\ Alone(a, exec[a]) /\ exec[a] \in Handlers
           /\ exec[a].pc \notin {"none", "gone"}
           /\ ~(a > tries.validation)
           /\ ~overlapped => a = tries.validation
           /\ stage = "validating" \/ Reviewed
           /\ exec[a].pc \notin Degraded => a # MaxAttempts \/ orchestration = "none"
           /\ ~exec[a].degraded => a # MaxAttempts \/ orchestration = "none"
<1>1. exec[a].pc \notin {"none", "gone"}
  BY DEF Running
<1> QED BY <1>1, RunningIs, ValidationTables DEF Placed, Alone

\* A handler that is at another step, and otherwise as it was.
LEMMA ToIs ==
    ASSUME ValidationInv, NEW a \in Attempts, NEW pc \in HandlerSteps,
           NEW e, e = [exec[a] EXCEPT !.pc = pc]
    PROVE  /\ e \in Handlers /\ e.pc = pc /\ e.v = exec[a].v /\ e.input = exec[a].input
           /\ e.todo = exec[a].todo /\ e.sight = exec[a].sight /\ e.degraded = exec[a].degraded
<1>1. exec[a] \in Handlers
  BY ValidationTables
<1> QED BY <1>1 DEF Handlers

LEMMA FailIs ==
    ASSUME ValidationInv, NEW a \in Attempts, Running(a), exec[a].pc \notin {"ok", "failed"}, Fail(a)
    PROVE  \E e \in Handlers :
               /\ exec' = [exec EXCEPT ![a] = e] /\ e.pc \in {"degrade", "failed"}
               /\ Placed(a, e) /\ Alone(a, e)
               /\ a = MaxAttempts /\ e.pc = "failed" => exec[a].degraded
<1> USE RunningTables DEF Degraded
<1>1. CASE a = MaxAttempts /\ ~exec[a].degraded
  <2>1. PICK e : e = [exec[a] EXCEPT !.pc = "degrade", !.degraded = TRUE]
    OBVIOUS
  <2>2. e \in Handlers /\ e.pc = "degrade" /\ e.degraded
    BY <2>1 DEF Handlers, HandlerSteps
  <2>3. exec' = [exec EXCEPT ![a] = e]
    BY <1>1, <2>1 DEF Fail, Degrading
  <2>4. Placed(a, e)
    BY <1>1, <2>2 DEF Placed, Validating
  <2>5. Alone(a, e)
    BY <2>2 DEF Alone, Validating
  <2> QED BY <2>2, <2>3, <2>4, <2>5
<1>2. CASE ~(a = MaxAttempts /\ ~exec[a].degraded)
  <2>1. PICK e : e = [exec[a] EXCEPT !.pc = "failed"]
    OBVIOUS
  <2>2. e \in Handlers /\ e.pc = "failed" /\ e.degraded = exec[a].degraded
    BY <2>1, ToIs DEF HandlerSteps
  <2>3. exec' = [exec EXCEPT ![a] = e]
    BY <1>2, <2>1 DEF Fail, To
  <2>4. Placed(a, e)
    BY <1>2, <2>2 DEF Placed, Validating
  <2>5. Alone(a, e)
    BY <2>2 DEF Alone, Validating
  <2> QED BY <1>2, <2>2, <2>3, <2>4, <2>5
<1> QED BY <1>1, <1>2

LEMMA DoneIs ==
    ASSUME ValidationInv, NEW a \in Attempts, Running(a), Reviewed, Done(a)
    PROVE  \E e \in Handlers :
               /\ exec' = [exec EXCEPT ![a] = e] /\ e.pc \in {"ok", "failed"}
               /\ Placed(a, e) /\ Alone(a, e)
<1> USE RunningTables DEF Degraded
<1>1. PICK pc : pc = IF exec[a].degraded THEN "failed" ELSE "ok"
  OBVIOUS
<1>2. PICK e : e = [exec[a] EXCEPT !.pc = pc]
  OBVIOUS
<1>3. e \in Handlers /\ e.pc = pc /\ e.degraded = exec[a].degraded
  BY <1>1, <1>2, ToIs DEF HandlerSteps
<1>4. exec' = [exec EXCEPT ![a] = e]
  BY <1>1, <1>2 DEF Done, To
<1>5. Placed(a, e)
  <2>1. CASE exec[a].degraded
    BY <1>1, <1>3, <2>1 DEF Placed, Validating
  <2>2. CASE ~exec[a].degraded
    BY <1>1, <1>3, <2>2 DEF Placed, Validating
  <2> QED BY <2>1, <2>2
<1>6. Alone(a, e)
  BY <1>1, <1>3 DEF Alone, Validating
<1> QED BY <1>1, <1>3, <1>4, <1>5, <1>6

\* A handler that fails where nothing can, or has its proposal reviewed, or meets an error.
LEMMA FailKeeps ==
    ASSUME ValidationInv, NEW a \in Attempts, Running(a), exec[a].pc \notin {"ok", "failed"}, Fail(a),
           UNCHANGED <<stage, client, phase, tries, overlapped, world, losses, run, results,
                       orchestration, decisions>>,
           \/ errors' = errors /\ (Reviewed \/ (exec[a].pc \in Validating /\ ~Unfailing(exec[a])))
           \/ errors' = errors + 1
    PROVE  ValidationInv'
<1>1. PICK e \in Handlers :
          /\ exec' = [exec EXCEPT ![a] = e] /\ e.pc \in {"degrade", "failed"}
          /\ Placed(a, e) /\ Alone(a, e)
          /\ a = MaxAttempts /\ e.pc = "failed" => exec[a].degraded
  BY FailIs
<1>2. errors \in Nat /\ Faults \in Nat
  BY ValidationTables
<1>3. exec[a].pc \in Validating => ~exec[a].degraded
  BY RunningTables DEF Placed, Validating, Degraded
<1>4. MaxAttempts > 1 /\ ~Reviewed /\ a = MaxAttempts => Faults >= 1
  BY <1>2, RunningIs DEF Running
<1>5. errors' \in {errors, errors + 1} /\ errors + 1 # errors
  BY <1>2
<1>6. MaxAttempts > 1 /\ ~Reviewed /\ errors' = errors =>
               /\ Unfailing(exec[a]) => Unfailing(e)
               /\ a = MaxAttempts => e.pc # "failed"
  BY <1>1, <1>3, <1>5
<1> QED BY <1>1, <1>4, <1>5, <1>6, QuietKeeps

LEMMA DoneKeeps ==
    ASSUME ValidationInv, NEW a \in Attempts, Running(a), Reviewed, Done(a),
           UNCHANGED <<stage, client, phase, tries, overlapped, world, losses, errors, run, results,
                       orchestration, decisions>>
    PROVE  ValidationInv'
<1>1. PICK e \in Handlers :
          /\ exec' = [exec EXCEPT ![a] = e] /\ e.pc \in {"ok", "failed"}
          /\ Placed(a, e) /\ Alone(a, e)
  BY DoneIs
<1> QED BY <1>1, QuietKeeps

LEMMA InfraErrorKeeps == ASSUME ValidationInv, NEW a \in Attempts, InfraError(a) PROVE ValidationInv'
<1>1. /\ Running(a) /\ exec[a].pc \notin {"ok", "failed"} /\ Fail(a) /\ errors' = errors + 1
      /\ UNCHANGED <<stage, client, phase, tries, overlapped, world, losses, run, results,
                     orchestration, decisions>>
  BY DEF InfraError, Running, proposalVars, jobVars, runVars
<1> QED BY <1>1, FailKeeps

LEMMA LoadKeeps == ASSUME ValidationInv, NEW a \in Attempts, Load(a) PROVE ValidationInv'
<1>1. /\ Running(a) /\ exec[a].pc = "load"
      /\ UNCHANGED <<stage, client, phase, tries, overlapped, world, losses, errors, run, results,
                     orchestration, decisions>>
  BY DEF Load, Running, proposalVars, jobVars, runVars, boundVars
<1> USE RunningTables
<1>2. ~exec[a].degraded
  BY <1>1 DEF Placed, Degraded
<1>3. CASE stage = "in_review"
  <2>1. PICK e : e = [exec[a] EXCEPT !.pc = "ensure_decision"]
    OBVIOUS
  <2>2. e \in Handlers /\ e.pc = "ensure_decision" /\ ~e.degraded
    BY <1>2, <2>1, ToIs DEF HandlerSteps
  <2>3. exec' = [exec EXCEPT ![a] = e] /\ Reviewed
    BY <1>3, <2>1 DEF Load, To, Reviewed, After
  <2>4. Placed(a, e)
    BY <1>1, <1>2, <2>2, <2>3 DEF Placed, Validating
  <2>5. Alone(a, e)
    BY <1>1, <2>2 DEF Alone, Validating
  <2> QED BY <1>1, <2>2, <2>3, <2>4, <2>5, QuietKeeps
<1>4. CASE stage = "validating"
  <2>1. PICK e : e = Handler("find", 1, world)
    OBVIOUS
  <2>2. e \in Handlers /\ e.pc = "find" /\ ~e.degraded /\ e.v = 1 /\ e.input = world /\ world \in Worlds
    <3>1. "find" \in HandlerSteps /\ world \in Worlds
      BY ValidationTables DEF HandlerSteps
    <3> QED BY <2>1, <3>1, ValidationParams, HandlerIs
  <2>3. exec' = [exec EXCEPT ![a] = e]
    BY <1>4, <2>1 DEF Load
  <2>4. Placed(a, e)
    <3>1. \A u \in Validators : ~(u < 1)
      BY ValidationParams
    <3> QED BY <1>1, <1>2, <2>2, <3>1 DEF Placed
  <2>5. Alone(a, e)
    BY <1>1, <1>4, <2>2 DEF Alone
  <2>6. Unfailing(exec[a]) => Unfailing(e)
    <3> SUFFICES ASSUME Unfailing(exec[a]) PROVE Unfailing(e)
      OBVIOUS
    <3>1. \A u \in Validators : Untouched(u)
      BY <1>1 DEF Unfailing
    <3> QED BY <2>2, <3>1, ValidationParams DEF Unfailing, Validating
  <2> QED BY <1>1, <2>2, <2>3, <2>4, <2>5, <2>6, QuietKeeps
<1>5. CASE stage \notin {"in_review", "validating"}
  <2>1. Done(a) /\ Reviewed
    BY <1>1, <1>5 DEF Load
  <2> QED BY <1>1, <2>1, DoneKeeps
<1> QED BY <1>3, <1>4, <1>5

\* The handler is done with its validator.
LEMMA AdvanceIs ==
    ASSUME ValidationInv, NEW a \in Attempts, Running(a), exec[a].pc \in Validating, Advance(a)
    PROVE  \E e \in Handlers :
               /\ exec' = [exec EXCEPT ![a] = e] /\ ~e.degraded /\ e.input = exec[a].input
               /\ \/ e.pc = "find" /\ e.v = exec[a].v + 1
                  \/ e.pc = "leave_validating" /\ exec[a].v = NumValidators
<1> USE RunningTables
<1>1. exec[a].v \in Validators /\ ~exec[a].degraded
  BY DEF Handlers, Placed, Validating, Degraded
<1>2. CASE exec[a].v < NumValidators
  <2>1. PICK e : e = [exec[a] EXCEPT !.v = exec[a].v + 1, !.pc = "find", !.todo = <<>>]
    OBVIOUS
  <2>2. exec[a].v + 1 \in Validators /\ "find" \in HandlerSteps /\ <<>> \in Seq(Finding)
    BY <1>1, <1>2, ValidationParams DEF HandlerSteps
  <2>3. e \in Handlers /\ e.pc = "find" /\ ~e.degraded /\ e.v = exec[a].v + 1 /\ e.input = exec[a].input
    BY <1>1, <2>1, <2>2 DEF Handlers
  <2>4. exec' = [exec EXCEPT ![a] = e]
    BY <1>2, <2>1 DEF Advance
  <2> QED BY <2>3, <2>4
<1>3. CASE ~(exec[a].v < NumValidators)
  <2>1. PICK e : e = [exec[a] EXCEPT !.pc = "leave_validating"]
    OBVIOUS
  <2>2. e \in Handlers /\ e.pc = "leave_validating" /\ ~e.degraded /\ e.input = exec[a].input
    BY <1>1, <2>1, ToIs DEF HandlerSteps
  <2>3. exec' = [exec EXCEPT ![a] = e]
    BY <1>3, <2>1 DEF Advance, To
  <2>4. exec[a].v = NumValidators
    BY <1>1, <1>3, ValidationParams
  <2> QED BY <2>2, <2>3, <2>4
<1> QED BY <1>2, <1>3

\* Where a handler goes on within the loop over the validators.
LEMMA WithinLoop ==
    ASSUME ValidationInv, NEW a \in Attempts, Running(a), exec[a].pc \in Validating,
           NEW e \in Handlers, e.pc \in Validating, e.v = exec[a].v, e.input = exec[a].input,
           e.degraded = exec[a].degraded, e.pc \in {"record", "insert"} => e.todo # <<>>
    PROVE  Placed(a, e) /\ Alone(a, e) /\ ~e.degraded
<1> USE RunningTables
<1>1. ~exec[a].degraded
  BY DEF Placed, Validating, Degraded
<1>2. Placed(a, e)
  BY <1>1 DEF Placed, Validating
<1>3. Alone(a, e)
  BY DEF Alone, Validating
<1> QED BY <1>1, <1>2, <1>3

LEMMA FindRunKeeps == ASSUME ValidationInv, NEW a \in Attempts, FindRun(a) PROVE ValidationInv'
<1> USE RunningTables
<1>1. /\ Running(a) /\ exec[a].pc = "find" /\ exec[a].pc \in Validating
      /\ UNCHANGED <<stage, client, phase, tries, overlapped, world, losses, errors, run, results,
                     orchestration, decisions>>
  BY DEF FindRun, Running, Validating, proposalVars, jobVars, runVars, boundVars
<1>2. exec[a].v \in Validators /\ NumValidators \in Nat
  BY <1>1, ValidationParams DEF Handlers
<1>3. CASE run[exec[a].v] \in {"none", "running"}
  <2>1. PICK pc : pc = IF run[exec[a].v] = "none" THEN "create" ELSE "list"
    OBVIOUS
  <2>2. PICK e : e = [exec[a] EXCEPT !.pc = pc]
    OBVIOUS
  <2>3. /\ e \in Handlers /\ e.pc = pc /\ e.v = exec[a].v /\ e.input = exec[a].input
        /\ e.degraded = exec[a].degraded
    BY <2>1, <2>2, ToIs DEF HandlerSteps
  <2>4. exec' = [exec EXCEPT ![a] = e]
    BY <1>3, <2>1, <2>2 DEF FindRun, To
  <2>5. Placed(a, e) /\ Alone(a, e)
    BY <1>1, <2>1, <2>3, WithinLoop DEF Validating
  <2>6. Unfailing(exec[a]) => Unfailing(e)
    BY <1>1, <2>1, <2>3 DEF Unfailing, Untouched, Validating
  <2> QED BY <1>1, <2>1, <2>3, <2>4, <2>5, <2>6, QuietKeeps
<1>4. CASE run[exec[a].v] \notin {"none", "running"}
  <2>1. Advance(a) /\ Finished(exec[a].v)
    <3>1. run[exec[a].v] \in {"none", "running", "succeeded", "failed"}
      BY <1>2 DEF ValidationInv, OnRecord, ValidationShapes
    <3> QED BY <1>4, <3>1 DEF FindRun, Finished
  <2>2. PICK e \in Handlers :
               /\ exec' = [exec EXCEPT ![a] = e] /\ ~e.degraded /\ e.input = exec[a].input
               /\ \/ e.pc = "find" /\ e.v = exec[a].v + 1
                  \/ e.pc = "leave_validating" /\ exec[a].v = NumValidators
    BY <1>1, <2>1, AdvanceIs
  <2>3. \A u \in Validators : u < exec[a].v + 1 => Finished(u)
    BY <1>1, <1>2, <2>1, ValidationParams DEF Placed
  <2>4. Placed(a, e)
    <3>1. a # MaxAttempts \/ orchestration = "none"
      BY <1>1 DEF Degraded
    <3>2. e.pc = "leave_validating" => Complete
      BY <2>2, <2>3, ValidationParams DEF Complete
    <3>3. e.pc \in Validating => e.input \in Worlds
      BY <1>1, <2>2 DEF Placed
    <3> QED BY <1>1, <2>2, <2>3, <3>1, <3>2, <3>3 DEF Placed, Validating
  <2>5. Alone(a, e)
    BY <1>1, <2>2 DEF Alone, Validating
  <2>6. ~Unfailing(exec[a])
    BY <1>1, <1>4 DEF Unfailing, Untouched
  <2> QED BY <1>1, <2>2, <2>4, <2>5, <2>6, QuietKeeps
<1> QED BY <1>3, <1>4

\* What of the findings is not recorded yet.
LEMMA MissingIs ==
    ASSUME NEW v, NEW input \in Worlds
    PROVE  /\ MissingFindings(v, input) \in Seq(Finding)
           /\ \A i \in DOMAIN MissingFindings(v, input) :
                  MissingFindings(v, input)[i].kind = "blocker" => v \in input
<1>1. PICK b : b = Given("blocker", input)
  OBVIOUS
<1>2. PICK c : c = Given("completed", input)
  OBVIOUS
<1>3. b \in Finding /\ c \in Finding /\ c.kind = "completed"
  BY <1>1, <1>2 DEF Finding, Given, Kinds
<1>4. <<>> \in Seq(Finding) /\ <<b>> \in Seq(Finding) /\ <<c>> \in Seq(Finding)
  BY <1>3
<1>5. PICK p : p = IF v \in input THEN Unrecorded(v, b) ELSE <<>>
  OBVIOUS
<1>6. PICK q : q = Unrecorded(v, c)
  OBVIOUS
<1>7. MissingFindings(v, input) = p \o q
  BY <1>1, <1>2, <1>5, <1>6 DEF MissingFindings
<1>8. p = <<>> \/ (p = <<b>> /\ v \in input)
  BY <1>5 DEF Unrecorded
<1>9. q = <<>> \/ q = <<c>>
  BY <1>6 DEF Unrecorded
<1>10. CASE p = <<>>
  <2>1. p \o q = q
    BY <1>3, <1>9, <1>10
  <2> QED BY <1>3, <1>7, <1>9, <2>1
<1>11. CASE p = <<b>> /\ v \in input
  <2>1. p \in Seq(Finding) /\ q \in Seq(Finding)
    BY <1>4, <1>9, <1>11
  <2>2. p \o q \in Seq(Finding)
    BY <2>1
  <2> QED BY <1>7, <1>11, <2>2
<1> QED BY <1>8, <1>10, <1>11

LEMMA ListResultsKeeps == ASSUME ValidationInv, NEW a \in Attempts, ListResults(a) PROVE ValidationInv'
<1> USE RunningTables
<1>1. /\ Running(a) /\ exec[a].pc = "list" /\ exec[a].pc \in Validating
      /\ UNCHANGED <<stage, client, phase, tries, overlapped, world, losses, errors, run, results,
                     orchestration, decisions>>
  BY DEF ListResults, Running, Validating, proposalVars, jobVars, runVars, boundVars
<1>2. PICK todo : todo = MissingFindings(exec[a].v, exec[a].input)
  OBVIOUS
<1>3. exec[a].input \in Worlds
  BY <1>1 DEF Placed
<1>4. todo \in Seq(Finding) /\ \A i \in DOMAIN todo : todo[i].kind = "blocker" => exec[a].v \in exec[a].input
  BY <1>2, <1>3, MissingIs
<1>5. PICK e : e = [exec[a] EXCEPT !.todo = todo, !.pc = IF todo = <<>> THEN "check" ELSE "record"]
  OBVIOUS
<1>6. /\ e \in Handlers /\ e.v = exec[a].v /\ e.input = exec[a].input /\ e.todo = todo
      /\ e.degraded = exec[a].degraded /\ e.pc = IF todo = <<>> THEN "check" ELSE "record"
  BY <1>1, <1>4, <1>5 DEF Handlers, HandlerSteps
<1>7. exec' = [exec EXCEPT ![a] = e]
  BY <1>2, <1>5 DEF ListResults
<1>8. Placed(a, e) /\ Alone(a, e)
  BY <1>1, <1>6, WithinLoop DEF Validating
<1>9. Unfailing(exec[a]) => Unfailing(e)
  BY <1>1, <1>4, <1>6 DEF Unfailing, Validating
<1> QED BY <1>1, <1>6, <1>7, <1>8, <1>9, QuietKeeps

\* RecordResult and FinishRun fail only on a run that somebody else finished, or
\* that has a blocker which the input has not.
LEMMA ChecksKeep == ASSUME ValidationInv, NEW a \in Attempts, CheckRunning(a) \/ CheckFinish(a) PROVE ValidationInv'
<1> USE RunningTables
<1>1. /\ Running(a) /\ exec[a].pc \in {"record", "check"} /\ exec[a].pc \in Validating
      /\ UNCHANGED <<stage, client, phase, tries, overlapped, world, losses, errors, run, results,
                     orchestration, decisions>>
  BY DEF CheckRunning, CheckFinish, Running, Validating, proposalVars, jobVars, runVars, boundVars
<1>2. \/ Fail(a) /\ ~Unfailing(exec[a])
      \/ To(a, "insert") /\ exec[a].pc = "record"
      \/ To(a, "finish")
  BY DEF CheckRunning, CheckFinish, MayFinish, Outcome, Unfailing, Validating
<1>3. CASE Fail(a) /\ ~Unfailing(exec[a])
  BY <1>1, <1>3, FailKeeps
<1>4. ASSUME NEW pc \in {"insert", "finish"}, To(a, pc), pc = "insert" => exec[a].pc = "record"
      PROVE  ValidationInv'
  <2>1. PICK e : e = [exec[a] EXCEPT !.pc = pc]
    OBVIOUS
  <2>2. /\ e \in Handlers /\ e.pc = pc /\ e.v = exec[a].v /\ e.input = exec[a].input
        /\ e.degraded = exec[a].degraded /\ e.todo = exec[a].todo
    BY <2>1, ToIs DEF HandlerSteps
  <2>3. exec' = [exec EXCEPT ![a] = e]
    BY <1>4, <2>1 DEF To
  <2>4. e.pc \in {"record", "insert"} => e.todo # <<>>
    BY <1>1, <1>4, <2>2 DEF Placed
  <2>5. Placed(a, e) /\ Alone(a, e)
    BY <1>1, <2>2, <2>4, WithinLoop DEF Validating
  <2>6. Unfailing(exec[a]) => Unfailing(e)
    BY <1>1, <1>4, <2>2 DEF Unfailing, Validating
  <2> QED BY <1>1, <2>2, <2>3, <2>5, <2>6, QuietKeeps
<1> QED BY <1>2, <1>3, <1>4

\* A run starts with nothing on record, so that a blocker in it comes later.
LEMMA CreateRunKeeps == ASSUME ValidationInv, NEW a \in Attempts, CreateRun(a) PROVE ValidationInv'
<1> USE RunningTables
<1>1. /\ Running(a) /\ exec[a].pc = "create" /\ exec[a].pc \in Validating
      /\ UNCHANGED <<stage, client, phase, tries, overlapped, world, losses, errors, results,
                     orchestration, decisions>>
  BY DEF CreateRun, Running, Validating, proposalVars, jobVars, boundVars
<1>2. PICK v : v = exec[a].v
  OBVIOUS
<1>3. v \in Validators
  BY <1>1, <1>2 DEF Handlers
<1>4. CASE run[v] # "none"
  <2>1. Fail(a) /\ run' = run /\ ~Unfailing(exec[a])
    BY <1>1, <1>2, <1>4 DEF CreateRun, Unfailing, Untouched
  <2> QED BY <1>1, <2>1, FailKeeps
<1>5. CASE run[v] = "none"
  <2>1. run' = [run EXCEPT ![v] = "running"]
    BY <1>2, <1>5 DEF CreateRun
  <2>2. /\ run \in [Validators -> {"none", "running", "succeeded", "failed"}]
        /\ stage \in {"draft", "proposed", "validating", "in_review", "released", "rejected"}
        /\ DOMAIN results = Validators
        /\ \A u \in Validators : IsABag(results[u]) /\ DOMAIN results[u] \subseteq StoredFinding
        /\ orchestration \in {"none", "running", "failed"}
        /\ decisions \subseteq [blockers: BOOLEAN, failed: BOOLEAN]
    BY DEF ValidationInv, OnRecord, ValidationShapes
  <2>3. /\ run' \in [Validators -> {"none", "running", "succeeded", "failed"}] /\ run'[v] = "running"
        /\ \A u \in Validators \ {v} : run'[u] = run[u]
    BY <1>3, <2>1, <2>2
  <2>4. PICK e : e = [exec[a] EXCEPT !.pc = "list"]
    OBVIOUS
  <2>5. /\ e \in Handlers /\ e.pc = "list" /\ e.v = v /\ e.input = exec[a].input
        /\ e.degraded = exec[a].degraded
    BY <1>2, <2>4, ToIs DEF HandlerSteps
  <2>6. exec' = [exec EXCEPT ![a] = e]
    BY <1>2, <1>5, <2>4 DEF CreateRun, To
  <2>7. Placed(a, e) /\ Alone(a, e) /\ ~e.degraded
    BY <1>1, <1>2, <2>5, WithinLoop DEF Validating
  <2>8. /\ \A u \in Validators : Finished(u) => Finished(u)'
        /\ Blockers' <=> Blockers
        /\ Complete => Complete'
        /\ Reviewed' <=> Reviewed
    <3>1. \A u \in Validators : Finished(u) => Finished(u)'
      BY <1>5, <2>3 DEF Finished
    <3> QED BY <1>1, <3>1 DEF Complete, Blockers, HasBlocker, Reviewed
  <2>9. Placed(a, e)'
    BY <1>1, <1>3, <2>5, <2>7, <2>8, ValidationParams DEF Placed, Validating
  <2>10. Alone(a, e)'
    BY <1>1, <2>5, <2>7 DEF Alone, Validating
  <2>11. Decided'
    BY <1>1, <2>8 DEF ValidationInv, OnRecord, Decided
  <2>12. Unfailing(exec[a]) => Unfailing(e)'
    <3> SUFFICES ASSUME Unfailing(exec[a]) PROVE Unfailing(e)'
      OBVIOUS
    <3>1. \A u \in Validators : (u > v => Untouched(u)) /\ ~HasBlocker(v)
      BY <1>1, <1>2 DEF Unfailing, Untouched
    <3>2. \A u \in Validators : u > v => u # v
      BY <1>3, ValidationParams
    <3>3. \A u \in Validators : u > v => Untouched(u)'
      BY <1>1, <2>3, <3>1, <3>2 DEF Untouched, HasBlocker
    <3>4. ~HasBlocker(v)'
      BY <1>1, <1>3, <3>1 DEF HasBlocker
    <3> QED BY <2>3, <2>5, <3>3, <3>4 DEF Unfailing, Validating
  <2> QED
    BY <1>1, <2>2, <2>3, <2>5, <2>6, <2>8, <2>9, <2>10, <2>11, <2>12, StepKeeps
<1> QED BY <1>4, <1>5

LEMMA ValidationRows ==
    ASSUME ValidationInv
    PROVE  /\ stage \in {"draft", "proposed", "validating", "in_review", "released", "rejected"}
           /\ run \in [Validators -> {"none", "running", "succeeded", "failed"}]
           /\ DOMAIN results = Validators
           /\ \A u \in Validators : IsABag(results[u]) /\ DOMAIN results[u] \subseteq StoredFinding
           /\ orchestration \in {"none", "running", "failed"}
           /\ decisions \subseteq [blockers: BOOLEAN, failed: BOOLEAN]
           /\ Decided
  BY DEF ValidationInv, OnRecord, ValidationShapes

LEMMA InsertResultKeeps == ASSUME ValidationInv, NEW a \in Attempts, InsertResult(a) PROVE ValidationInv'
<1> USE RunningTables, ValidationRows
<1>1. /\ Running(a) /\ exec[a].pc = "insert" /\ exec[a].pc \in Validating
      /\ UNCHANGED <<stage, client, phase, tries, overlapped, world, losses, errors, run,
                     orchestration, decisions>>
  BY DEF InsertResult, Running, Validating, proposalVars, jobVars, boundVars
<1>2. PICK v : v = exec[a].v
  OBVIOUS
<1>3. PICK todo : todo = exec[a].todo
  OBVIOUS
<1>4. v \in Validators /\ todo \in Seq(Finding) /\ todo # <<>> /\ ~exec[a].degraded
  BY <1>1, <1>2, <1>3 DEF Handlers, Placed, Degraded
<1>5. PICK f : f = Head(todo)
  OBVIOUS
<1>6. PICK rest : rest = Tail(todo)
  OBVIOUS
<1>7. /\ f \in Finding /\ f = todo[1] /\ 1 \in DOMAIN todo
      /\ rest \in Seq(Finding) /\ \A i \in DOMAIN rest : i + 1 \in DOMAIN todo /\ rest[i] = todo[i + 1]
  BY <1>4, <1>5, <1>6
<1>7a. AsStored(f) \in StoredFinding /\ AsStored(f).kind = f.kind
  BY <1>7, StoredIs
<1>8. results' = [results EXCEPT ![v] = results[v] (+) SetToBag({AsStored(f)})]
  BY <1>2, <1>3, <1>5 DEF InsertResult
<1>9. PICK more : more = results[v] (+) SetToBag({AsStored(f)})
  OBVIOUS
<1>10. IsABag(more) /\ DOMAIN more = DOMAIN results[v] \union {AsStored(f)}
  BY <1>4, <1>9, Added
<1>11. /\ DOMAIN results' = Validators /\ results'[v] = more
       /\ \A u \in Validators \ {v} : results'[u] = results[u]
  BY <1>4, <1>8, <1>9
<1>12. \A u \in Validators : IsABag(results'[u]) /\ DOMAIN results'[u] \subseteq StoredFinding
  BY <1>4, <1>10, <1>11, <1>7a
<1>13. PICK e : e = [exec[a] EXCEPT !.todo = rest, !.pc = IF rest = <<>> THEN "check" ELSE "record"]
  OBVIOUS
<1>14. /\ e \in Handlers /\ e.v = v /\ e.input = exec[a].input /\ e.todo = rest
       /\ e.degraded = exec[a].degraded /\ e.pc = IF rest = <<>> THEN "check" ELSE "record"
  BY <1>1, <1>2, <1>7, <1>13 DEF Handlers, HandlerSteps
<1>15. exec' = [exec EXCEPT ![a] = e]
  BY <1>3, <1>6, <1>13 DEF InsertResult
<1>16. Placed(a, e) /\ Alone(a, e)
  BY <1>1, <1>2, <1>14, WithinLoop DEF Validating
<1>17. (Complete' <=> Complete) /\ (Reviewed' <=> Reviewed) /\ \A u : Finished(u)' <=> Finished(u)
  BY <1>1 DEF Complete, Finished, Reviewed
<1>18. Placed(a, e)'
  BY <1>1, <1>16, <1>17 DEF Placed
<1>19. Alone(a, e)'
  BY <1>1, <1>14, <1>16 DEF Alone
<1>20. Decided'
  <2>1. ~overlapped => ~Reviewed
    BY <1>1 DEF Alone, Reviewed, After, Settled
  <2> QED BY <1>1, <1>17, <2>1 DEF Decided
<1>21. Unfailing(exec[a]) => Unfailing(e)'
  <2> SUFFICES ASSUME Unfailing(exec[a]) PROVE Unfailing(e)'
    OBVIOUS
  <2>1. /\ run[v] = "running" /\ (HasBlocker(v) => v \in exec[a].input)
        /\ \A i \in DOMAIN todo : todo[i].kind = "blocker" => v \in exec[a].input
        /\ \A u \in Validators : u > v => Untouched(u)
    BY <1>1, <1>2, <1>3 DEF Unfailing, Validating
  <2>2. HasBlocker(v)' => v \in e.input
    BY <1>7, <1>10, <1>11, <1>14, <1>7a, <2>1 DEF HasBlocker
  <2>3. \A i \in DOMAIN rest : rest[i].kind = "blocker" => v \in e.input
    BY <1>7, <1>14, <2>1
  <2>4. \A u \in Validators : u > v => Untouched(u)'
    <3>1. \A u \in Validators : u > v => u # v
      BY <1>4, ValidationParams
    <3> QED BY <1>1, <1>11, <2>1, <3>1 DEF Untouched, HasBlocker
  <2> QED BY <1>1, <1>14, <2>1, <2>2, <2>3, <2>4 DEF Unfailing, Validating
<1> QED
  BY <1>1, <1>4, <1>11, <1>12, <1>14, <1>15, <1>17, <1>18, <1>19, <1>20, <1>21, StepKeeps

LEMMA FinishRunKeeps == ASSUME ValidationInv, NEW a \in Attempts, FinishRun(a) PROVE ValidationInv'
<1> USE RunningTables, ValidationRows
<1>1. /\ Running(a) /\ exec[a].pc = "finish" /\ exec[a].pc \in Validating
      /\ UNCHANGED <<stage, client, phase, tries, overlapped, world, losses, errors, results,
                     orchestration, decisions>>
  BY DEF FinishRun, Running, Validating, proposalVars, jobVars, boundVars
<1>2. PICK v : v = exec[a].v
  OBVIOUS
<1>3. v \in Validators /\ v \in Nat /\ NumValidators \in Nat
  BY <1>1, <1>2, ValidationParams DEF Handlers
<1>4. CASE run[v] # "running"
  <2>1. Fail(a) /\ run' = run /\ ~Unfailing(exec[a])
    BY <1>1, <1>2, <1>4 DEF FinishRun, Unfailing, Validating
  <2> QED BY <1>1, <2>1, FailKeeps
<1>5. CASE run[v] = "running"
  <2>1. PICK outcome \in {"succeeded", "failed"} : run' = [run EXCEPT ![v] = outcome]
    BY <1>2, <1>5 DEF FinishRun, Outcome
  <2>2. /\ run' \in [Validators -> {"none", "running", "succeeded", "failed"}] /\ Finished(v)'
        /\ \A u \in Validators \ {v} : run'[u] = run[u]
    BY <1>3, <2>1 DEF Finished
  <2>3. PICK e \in Handlers :
               /\ exec' = [exec EXCEPT ![a] = e] /\ ~e.degraded /\ e.input = exec[a].input
               /\ \/ e.pc = "find" /\ e.v = v + 1
                  \/ e.pc = "leave_validating" /\ v = NumValidators
    BY <1>1, <1>2, <1>5, AdvanceIs DEF FinishRun
  <2>4. \A u \in Validators : Finished(u) => Finished(u)'
    BY <2>2 DEF Finished
  <2>5. \A u \in Validators : u < v + 1 => Finished(u)'
    <3>1. \A u \in Validators : u < v => Finished(u)
      BY <1>1, <1>2 DEF Placed
    <3>2. \A u \in Validators : u < v + 1 => u = v \/ u < v
      BY <1>3, ValidationParams
    <3> HIDE RunningTables, ValidationRows
    <3> QED BY <2>2, <2>4, <3>1, <3>2
  <2>6. /\ Blockers' <=> Blockers
        /\ Complete => Complete'
        /\ Reviewed' <=> Reviewed
        /\ e.pc = "leave_validating" => Complete'
    <3>1. v = NumValidators => \A u \in Validators : Finished(u)'
      BY <1>3, <2>5, ValidationParams
    <3> QED BY <1>1, <2>3, <2>4, <3>1 DEF Complete, Blockers, HasBlocker, Reviewed
  <2>7. Placed(a, e)'
    <3>1. a # MaxAttempts \/ orchestration = "none"
      BY <1>1 DEF Degraded
    <3>2. e.pc \in Validating => e.input \in Worlds
      BY <1>1, <2>3 DEF Placed
    <3> QED BY <1>1, <2>3, <2>5, <2>6, <3>1, <3>2 DEF Placed, Validating
  <2>8. Alone(a, e)'
    BY <1>1, <2>3 DEF Alone, Validating
  <2>9. Decided'
    BY <1>1, <2>6 DEF Decided
  <2>10. Unfailing(exec[a]) => Unfailing(e)'
    <3> SUFFICES ASSUME Unfailing(exec[a]) PROVE Unfailing(e)'
      OBVIOUS
    <3>1. \A u \in Validators : u > v => Untouched(u)
      BY <1>1, <1>2 DEF Unfailing
    <3>2. \A u \in Validators : u > v => u # v
      BY <1>3, ValidationParams
    <3>3. \A u \in Validators : u > v => Untouched(u)'
      BY <1>1, <2>2, <3>1, <3>2 DEF Untouched, HasBlocker
    <3>4. CASE e.pc = "find" /\ e.v = v + 1
      <4>1. e.v \in Validators /\ e.v > v
        BY <1>3, <3>4, ValidationParams DEF Handlers
      <4>2. \A u \in Validators : u > e.v => u > v
        BY <1>3, <4>1, ValidationParams
      <4> QED BY <3>3, <3>4, <4>1, <4>2 DEF Unfailing, Validating
    <3>5. CASE e.pc = "leave_validating"
      BY <3>5 DEF Unfailing, Validating
    <3> QED BY <2>3, <3>4, <3>5
  <2> QED
    BY <1>1, <2>2, <2>3, <2>4, <2>6, <2>7, <2>8, <2>9, <2>10, StepKeeps
<1> QED BY <1>4, <1>5

LEMMA LeaveValidatingKeeps ==
    ASSUME ValidationInv, NEW a \in Attempts, LeaveValidating(a) PROVE ValidationInv'
<1> USE RunningTables
<1>1. /\ Running(a) /\ exec[a].pc = "leave_validating"
      /\ UNCHANGED <<stage, client, phase, tries, overlapped, world, losses, errors, run, results,
                     orchestration, decisions>>
  BY DEF LeaveValidating, Running, proposalVars, jobVars, runVars, boundVars
<1>2. CASE stage = "validating"
  <2>1. PICK e : e = [exec[a] EXCEPT !.pc = "transition"]
    OBVIOUS
  <2>2. e \in Handlers /\ e.pc = "transition" /\ e.degraded = exec[a].degraded
    BY <2>1, ToIs DEF HandlerSteps
  <2>3. exec' = [exec EXCEPT ![a] = e]
    BY <1>2, <2>1 DEF LeaveValidating, To
  <2>4. Placed(a, e)
    BY <1>1, <2>2 DEF Placed, Validating, Degraded
  <2>5. Alone(a, e)
    BY <1>1, <2>2 DEF Alone, Validating
  <2>6. Unfailing(e)
    BY <2>2 DEF Unfailing, Validating
  <2> QED BY <1>1, <2>2, <2>3, <2>4, <2>5, <2>6, QuietKeeps
<1>3. CASE stage # "validating"
  <2>1. Done(a) /\ Reviewed
    BY <1>1, <1>3 DEF LeaveValidating
  <2> QED BY <1>1, <2>1, DoneKeeps
<1> QED BY <1>2, <1>3

LEMMA ToReviewKeeps == ASSUME ValidationInv, NEW a \in Attempts, ToReview(a) PROVE ValidationInv'
<1> USE RunningTables, ValidationRows
<1>1. /\ Running(a) /\ exec[a].pc = "transition" /\ Complete
      /\ UNCHANGED <<client, phase, tries, overlapped, world, losses, errors, run, results,
                     orchestration, decisions>>
  BY DEF ToReview, Running, jobVars, runVars, boundVars, Placed
<1>2. CASE stage \in {"validating", "in_review"}
  <2>1. PICK e : e = [exec[a] EXCEPT !.pc = "ensure_decision"]
    OBVIOUS
  <2>2. e \in Handlers /\ e.pc = "ensure_decision" /\ e.degraded = exec[a].degraded
    BY <2>1, ToIs DEF HandlerSteps
  <2>3. exec' = [exec EXCEPT ![a] = e] /\ stage' = "in_review"
    BY <1>2, <2>1 DEF ToReview, To
  <2>4. Reviewed' /\ (Complete' <=> Complete) /\ (Blockers' <=> Blockers)
        /\ \A u : Finished(u)' <=> Finished(u)
    BY <1>1, <2>3 DEF Reviewed, After, Complete, Blockers, HasBlocker, Finished
  <2>5. Placed(a, e)'
    BY <1>1, <2>2, <2>4 DEF Placed, Validating, Degraded
  <2>6. Alone(a, e)'
    BY <1>1, <2>2 DEF Alone, Validating
  <2>7. Decided'
    BY <1>1, <2>4 DEF Decided
  <2> QED BY <1>1, <2>2, <2>3, <2>4, <2>5, <2>6, <2>7, StepKeeps
<1>3. CASE stage \notin {"validating", "in_review"}
  <2>1. Done(a) /\ Reviewed /\ stage' = stage
    BY <1>1, <1>3 DEF ToReview
  <2> QED BY <1>1, <2>1, DoneKeeps
<1> QED BY <1>2, <1>3

LEMMA CollectInputsKeeps ==
    ASSUME ValidationInv, NEW a \in Attempts, CollectInputs(a) PROVE ValidationInv'
<1> USE RunningTables
<1>1. /\ Running(a) /\ exec[a].pc = "ensure_decision" /\ Reviewed
      /\ UNCHANGED <<stage, client, phase, tries, overlapped, world, losses, errors, run, results,
                     orchestration, decisions>>
  BY DEF CollectInputs, Running, proposalVars, jobVars, runVars, boundVars, Placed
<1>2. CASE stage = "in_review"
  <2>1. PICK sight : sight = SeenNow
    OBVIOUS
  <2>2. sight \in [blockers: BOOLEAN, failed: BOOLEAN] /\ (sight.blockers <=> Blockers)
    BY <2>1 DEF SeenNow, Blockers
  <2>3. PICK e : e = [exec[a] EXCEPT !.pc = "decide", !.sight = sight]
    OBVIOUS
  <2>4. e \in Handlers /\ e.pc = "decide" /\ e.degraded = exec[a].degraded /\ e.sight = sight
    BY <1>1, <2>2, <2>3 DEF Handlers, HandlerSteps
  <2>5. exec' = [exec EXCEPT ![a] = e]
    BY <1>2, <2>1, <2>3 DEF CollectInputs
  <2>6. Placed(a, e)
    BY <1>1, <2>4 DEF Placed, Validating, Degraded
  <2>7. Alone(a, e)
    BY <1>1, <2>2, <2>4 DEF Alone, Validating
  <2> QED BY <1>1, <2>4, <2>5, <2>6, <2>7, QuietKeeps
<1>3. CASE stage # "in_review"
  BY <1>1, <1>3, DoneKeeps DEF CollectInputs
<1> QED BY <1>2, <1>3

LEMMA DecideKeeps == ASSUME ValidationInv, NEW a \in Attempts, Decide(a) PROVE ValidationInv'
<1> USE RunningTables, ValidationRows
<1>1. /\ Running(a) /\ exec[a].pc = "decide" /\ Reviewed
      /\ UNCHANGED <<stage, client, phase, tries, overlapped, world, losses, errors, run, results,
                     orchestration>>
  BY DEF Decide, Running, proposalVars, jobVars, runVars, boundVars, Placed
<1>2. \/ Fail(a) /\ decisions' = decisions
      \/ Done(a) /\ decisions' = decisions \union {exec[a].sight}
  BY DEF Decide
<1>3. CASE Fail(a) /\ decisions' = decisions
  BY <1>1, <1>3, FailKeeps
<1>4. CASE Done(a) /\ decisions' = decisions \union {exec[a].sight}
  <2>1. PICK e \in Handlers :
               /\ exec' = [exec EXCEPT ![a] = e] /\ e.pc \in {"ok", "failed"}
               /\ Placed(a, e) /\ Alone(a, e)
    BY <1>1, <1>4, DoneIs
  <2>2. exec[a].sight \in [blockers: BOOLEAN, failed: BOOLEAN]
    BY <1>1 DEF Handlers
  <2>3. decisions' \subseteq [blockers: BOOLEAN, failed: BOOLEAN]
    BY <1>4, <2>2
  <2>4. Reviewed' /\ (Complete' <=> Complete) /\ (Blockers' <=> Blockers)
        /\ \A u : Finished(u)' <=> Finished(u)
    BY <1>1 DEF Reviewed, After, Complete, Blockers, HasBlocker, Finished
  <2>5. Placed(a, e)'
    BY <1>1, <2>1, <2>4 DEF Placed
  <2>6. Alone(a, e)'
    BY <1>1, <2>1, <2>4 DEF Alone
  <2>7. ~overlapped => (exec[a].sight.blockers <=> Blockers)
    BY <1>1 DEF Alone
  <2>8. Decided'
    BY <1>1, <1>4, <2>4, <2>7 DEF Decided
  <2> QED BY <1>1, <2>1, <2>3, <2>4, <2>5, <2>6, <2>8, StepKeeps
<1> QED BY <1>2, <1>3, <1>4

LEMMA DegradingKeeps ==
    ASSUME ValidationInv, NEW a \in Attempts, StartDegrading(a) \/ RecordDegradation(a)
    PROVE  ValidationInv'
<1> USE RunningTables, ValidationRows
<1>1. PICK status : status = IF exec[a].pc = "degrade" THEN "running" ELSE "failed"
  OBVIOUS
<1>2. PICK pc : pc = IF exec[a].pc = "degrade" THEN "record_degradation" ELSE "leave_validating"
  OBVIOUS
<1>3. PICK e : e = [exec[a] EXCEPT !.pc = pc]
  OBVIOUS
<1>4. /\ Running(a) /\ exec[a].pc \in {"degrade", "record_degradation"}
      /\ orchestration' = status /\ exec' = [exec EXCEPT ![a] = e]
      /\ UNCHANGED <<stage, client, phase, tries, overlapped, world, losses, errors, run, results,
                     decisions>>
  BY <1>1, <1>2, <1>3
     DEF StartDegrading, RecordDegradation, To, Running, proposalVars, jobVars, boundVars
<1>5. a = MaxAttempts /\ exec[a].degraded
  BY <1>4 DEF Placed
<1>6. e \in Handlers /\ e.pc = pc /\ e.degraded
  BY <1>2, <1>3, <1>5, ToIs DEF HandlerSteps
<1>7. exec[a].pc = "degrade" => orchestration = "none"
  BY <1>4, <1>5 DEF Placed, Degraded
<1>8. /\ \A u : Finished(u)' <=> Finished(u)
      /\ (Blockers' <=> Blockers) /\ (Reviewed' <=> Reviewed)
  BY <1>4 DEF Finished, Blockers, HasBlocker, Reviewed
<1>9. (Complete => Complete') /\ (status = "failed" => Complete')
  BY <1>1, <1>4, <1>7, <1>8 DEF Complete
<1>10. Placed(a, e)'
  BY <1>1, <1>2, <1>4, <1>5, <1>6, <1>9 DEF Placed, Validating, Degraded
<1>11. Alone(a, e)'
  BY <1>2, <1>4, <1>6 DEF Alone, Validating
<1>12. Decided'
  BY <1>4, <1>8 DEF Decided
<1>13. ~Unfailing(exec[a])
  BY <1>4 DEF Unfailing, Validating
<1> QED
  BY <1>1, <1>2, <1>4, <1>6, <1>8, <1>9, <1>10, <1>11, <1>12, <1>13, <1>5, StepKeeps

-----------------------------------------------------------------------------

LEMMA HandlersKeep == ASSUME ValidationInv, NEW a \in Attempts, HandlerStep(a) PROVE ValidationInv'
<1>1. CASE Load(a)
  BY <1>1, LoadKeeps
<1>2. CASE FindRun(a)
  BY <1>2, FindRunKeeps
<1>3. CASE CreateRun(a)
  BY <1>3, CreateRunKeeps
<1>4. CASE ListResults(a)
  BY <1>4, ListResultsKeeps
<1>5. CASE CheckRunning(a) \/ CheckFinish(a)
  BY <1>5, ChecksKeep
<1>6. CASE InsertResult(a)
  BY <1>6, InsertResultKeeps
<1>7. CASE FinishRun(a)
  BY <1>7, FinishRunKeeps
<1>8. CASE LeaveValidating(a)
  BY <1>8, LeaveValidatingKeeps
<1>9. CASE ToReview(a)
  BY <1>9, ToReviewKeeps
<1>10. CASE CollectInputs(a)
  BY <1>10, CollectInputsKeeps
<1>11. CASE Decide(a)
  BY <1>11, DecideKeeps
<1>12. CASE StartDegrading(a) \/ RecordDegradation(a)
  BY <1>12, DegradingKeeps
<1> QED BY <1>1, <1>2, <1>3, <1>4, <1>5, <1>6, <1>7, <1>8, <1>9, <1>10, <1>11, <1>12 DEF HandlerStep

LEMMA ValidationStep == ValidationInv /\ [ValidationNext]_validationVars => ValidationInv'
<1> SUFFICES ASSUME ValidationInv, [ValidationNext]_validationVars PROVE ValidationInv'
  OBVIOUS
<1>1. CASE UNCHANGED validationVars
  BY <1>1, OutsideKeeps, ValidationTables DEF validationVars
<1>2. ASSUME NEW c \in Client,
             ReadForSubmit(c) \/ Submit(c) \/ BeginValidation(c) \/ AbandonSubmit(c)
      PROVE  ValidationInv'
  BY <1>2, RequestsOutside
<1>3. ASSUME NEW c \in Client, EnqueueValidation(c) PROVE ValidationInv'
  BY <1>3, EnqueueKeeps
<1>4. CASE StartAttempt
  BY <1>4, StartKeeps
<1>5. CASE ReapDead \/ ReapStalled
  BY <1>5, ReapKeeps
<1>6. ASSUME NEW a \in Attempts, HandlerStep(a) PROVE ValidationInv'
  BY <1>6, HandlersKeep
<1>7. ASSUME NEW a \in Attempts, HandlerReturns(a) PROVE ValidationInv'
  BY <1>7, ReturnKeeps
<1>8. ASSUME NEW a \in Attempts, InfraError(a) PROVE ValidationInv'
  BY <1>8, InfraErrorKeeps
<1>9. ASSUME NEW a \in Attempts, CrashHandler(a) \/ CancelStalled(a) PROVE ValidationInv'
  BY <1>9, LostHandlersKeep
<1>10. CASE Reject \/ PassGate \/ ReleaseProposal \/ ChangeWorld
  BY <1>10, ReviewsOutside
<1> QED BY <1>1, <1>2, <1>3, <1>4, <1>5, <1>6, <1>7, <1>8, <1>9, <1>10 DEF ValidationNext

LEMMA ValidationInvariance == ValidationSpec => []ValidationInv
<1>1. ValidationInit => ValidationInv
  BY ValidationStart
<1>2. ValidationInv /\ [ValidationNext]_validationVars => ValidationInv'
  BY ValidationStep
<1> QED BY <1>1, <1>2, PTL DEF ValidationSpec

\* The rows of validation and the places of its handlers keep their types, and
\* only the last attempt degrades (validatejob.go).
THEOREM ValidationTypes == ValidationSpec => []ValidationTypeOK
<1>1. ASSUME ValidationInv PROVE ValidationTypeOK
  <2>1. /\ phase.validation \in Queue!Phases /\ tries.validation \in 0..MaxAttempts
        /\ \A a \in Attempts : exec[a] \in Handlers /\ Placed(a, exec[a])
    BY <1>1, ValidationTables
  <2>2. \A a \in Attempts :
            /\ exec[a].pc \in HandlerSteps /\ exec[a].v \in Validators /\ exec[a].todo \in Seq(Finding)
            /\ exec[a].degraded => a = MaxAttempts
    BY <2>1 DEF Handlers, Placed
  <2> QED BY <1>1, <2>1, <2>2 DEF ValidationInv, OnRecord, ValidationShapes, ValidationTypeOK
<1> QED BY <1>1, ValidationInvariance, PTL

\* Nobody reviews a proposal before every validator has finished or a degradation
\* is on record, however many handlers of lost attempts run beside the current
\* one; and the decision that routes a proposal has seen each blocker, as long as
\* no two attempts ran side by side (transitionToReview, EnsureDecisionForProposal).
THEOREM ReviewsFollowValidation == ValidationSpec => []ReviewFollowsValidation
<1>1. ASSUME ValidationInv PROVE ReviewFollowsValidation
  BY <1>1 DEF ValidationInv, OnRecord, Decided, Reviewed, After, Settled, Complete, Finished,
              Blockers, ReviewFollowsValidation
<1> QED BY <1>1, ValidationInvariance, PTL

\* With an attempt to spare, of which the code has two (ValidationJobMaxAttempts),
\* no one error, crash or stall, whenever it strikes, leaves a proposal with a
\* dead job before it is in review.
THEOREM OneFault ==
    ASSUME MaxAttempts > 1
    PROVE  ValidationSpec => []OneFaultIsSurvived
<1>1. ASSUME ValidationInv PROVE OneFaultIsSurvived
  <2>1. Survives /\ Faults = losses + errors /\ Faults \in Nat
    BY <1>1, ValidationTables
  <2>2. CASE Reviewed
    BY <2>2 DEF OneFaultIsSurvived, Reviewed, After, Settled
  <2>3. CASE ~Reviewed
    BY <2>1, <2>3 DEF OneFaultIsSurvived, Survives
  <2> QED BY <2>2, <2>3
<1> QED BY <1>1, ValidationInvariance, PTL

-----------------------------------------------------------------------------

\* What the handler of an attempt has found is on record or yet to be recorded,
\* and all of it on record before it ends the run; and what a handler without a
\* rival will say of its run is what is on record.
Whole(e) ==
    /\ e.pc \in {"record", "insert"} =>
          \A kind \in Kinds : kind = "completed" \/ e.v \in e.input =>
              \/ AsStored(Given(kind, e.input)) \in DOMAIN results[e.v]
              \/ \E i \in DOMAIN e.todo : e.todo[i] = Given(kind, e.input)
    /\ e.pc \in {"check", "finish"} => WholeReport(e.v, e.input)
Reports(e) ==
    /\ e.pc \in Validating \ {"find", "create"} => run[e.v] = "running"
    /\ e.pc = "finish" /\ e.v \notin e.input => ~HasBlocker(e.v)

FindingsInv ==
    /\ RunTellsItsFindings /\ OutcomeIsReproducible
    /\ \A a \in Attempts : Whole(exec[a])
    /\ ~overlapped => \A a \in Attempts : Reports(exec[a])

\* Nothing on record has the bytes of a finding as it is given, so that every
\* attempt has all of its findings to record.
LEMMA MissingAre ==
    ASSUME NEW v \in Validators, NEW input \in Worlds, DOMAIN results[v] \subseteq StoredFinding,
           NEW todo, todo = MissingFindings(v, input)
    PROVE  \A kind \in Kinds : kind = "completed" \/ v \in input =>
               \E i \in DOMAIN todo : todo[i] = Given(kind, input)
<1>1. PICK b : b = Given("blocker", input)
  OBVIOUS
<1>2. PICK c : c = Given("completed", input)
  OBVIOUS
<1>3. b \notin DOMAIN results[v] /\ c \notin DOMAIN results[v]
  BY <1>1, <1>2 DEF Given, StoredFinding
<1>4. Unrecorded(v, b) = <<b>> /\ Unrecorded(v, c) = <<c>>
  BY <1>3 DEF Unrecorded, BagIn, BagToSet
<1>5. CASE v \in input
  <2>1. todo = <<b>> \o <<c>>
    BY <1>1, <1>2, <1>4, <1>5, Zenon DEF MissingFindings
  <2>2. DOMAIN todo = 1..2 /\ todo[1] = b /\ todo[2] = c
    BY <2>1
  <2>3. 1 \in DOMAIN todo /\ 2 \in DOMAIN todo
    BY <2>2
  <2> QED BY <1>1, <1>2, <2>2, <2>3 DEF Kinds
<1>6. CASE v \notin input
  <2>1. todo = <<>> \o <<c>>
    BY <1>2, <1>4, <1>6, Zenon DEF MissingFindings
  <2>2. DOMAIN todo = 1..1 /\ todo[1] = c
    BY <2>1
  <2>3. 1 \in DOMAIN todo
    BY <2>2
  <2> QED BY <1>2, <1>6, <2>2, <2>3 DEF Kinds
<1> QED BY <1>5, <1>6

LEMMA WholeBlocks ==
    ASSUME NEW v, NEW input, WholeReport(v, input), v \in input
    PROVE  HasBlocker(v)
<1>1. AsStored(Given("blocker", input)) \in DOMAIN results[v]
  BY DEF WholeReport, Kinds
<1>2. AsStored(Given("blocker", input)).kind = "blocker"
  BY DEF AsStored, Given
<1> QED BY <1>1, <1>2 DEF HasBlocker

\* A step that writes neither runs nor findings.
LEMMA FindingsKeep ==
    ASSUME ValidationInv, FindingsInv, UNCHANGED <<run, results>>, ~overlapped' => ~overlapped,
           \A a \in Attempts : exec'[a] = exec[a]
                               \/ (Whole(exec'[a]) /\ (~overlapped => Reports(exec'[a])))
    PROVE  FindingsInv'
<1>1. RunTellsItsFindings' /\ OutcomeIsReproducible'
  BY DEF FindingsInv, RunTellsItsFindings, OutcomeIsReproducible, HasBlocker, Outcome, WholeReport
<1>2. ASSUME NEW a \in Attempts PROVE Whole(exec[a])'
  <2>1. Whole(exec'[a])
    BY <1>2 DEF FindingsInv
  <2> QED BY <2>1 DEF Whole, WholeReport
<1>3. ASSUME ~overlapped', NEW a \in Attempts PROVE Reports(exec[a])'
  <2>1. Reports(exec'[a])
    BY <1>3 DEF FindingsInv
  <2> QED BY <2>1 DEF Reports, HasBlocker
<1> QED BY <1>1, <1>2, <1>3 DEF FindingsInv

LEMMA HandlerReports ==
    ASSUME ValidationInv, FindingsInv, UNCHANGED <<run, results, overlapped>>,
           NEW a \in Attempts, NEW e, exec' = [exec EXCEPT ![a] = e],
           Whole(e), ~overlapped => Reports(e)
    PROVE  FindingsInv'
<1>1. exec'[a] = e /\ \A b \in Attempts \ {a} : exec'[b] = exec[b]
  BY ValidationTables
<1> QED BY <1>1, FindingsKeep

QuietSteps == HandlerSteps \ {"list", "record", "insert", "check", "finish"}
LEMMA QuietReports == ASSUME NEW e, e.pc \in QuietSteps PROVE Whole(e) /\ Reports(e)
  BY DEF QuietSteps, Whole, Reports, Validating

LEMMA FailReports ==
    ASSUME ValidationInv, FindingsInv, UNCHANGED <<run, results, overlapped>>,
           NEW a \in Attempts, Running(a), exec[a].pc \notin {"ok", "failed"}, Fail(a)
    PROVE  FindingsInv'
<1>1. PICK e \in Handlers : exec' = [exec EXCEPT ![a] = e] /\ e.pc \in {"degrade", "failed"}
  BY FailIs
<1>2. e.pc \in QuietSteps
  BY <1>1 DEF QuietSteps, HandlerSteps
<1> QED BY <1>1, <1>2, QuietReports, HandlerReports

LEMMA ToReports ==
    ASSUME ValidationInv, FindingsInv, UNCHANGED <<run, results, overlapped>>,
           NEW a \in Attempts, NEW pc \in QuietSteps, To(a, pc)
    PROVE  FindingsInv'
<1>1. PICK e : e = [exec[a] EXCEPT !.pc = pc]
  OBVIOUS
<1>2. e.pc = pc
  BY <1>1, ToIs DEF QuietSteps
<1>3. exec' = [exec EXCEPT ![a] = e]
  BY <1>1 DEF To
<1> QED BY <1>2, <1>3, QuietReports, HandlerReports

LEMMA AloneIs ==
    ASSUME ValidationInv, NEW a \in Attempts, Running(a), ~overlapped, NEW b \in Attempts, b # a
    PROVE  exec[b].pc \in {"none", "gone"}
  BY RunningTables DEF Running

\* Steps of requests, of the job and of others, and handlers that are gone.
LEMMA OthersReport ==
    ASSUME ValidationInv, FindingsInv,
           \/ \E c \in Client : ReadForSubmit(c) \/ Submit(c) \/ BeginValidation(c)
                                \/ EnqueueValidation(c) \/ AbandonSubmit(c)
           \/ ReapDead \/ ReapStalled \/ Reject \/ PassGate \/ ReleaseProposal \/ ChangeWorld
           \/ UNCHANGED validationVars
    PROVE  FindingsInv'
<1>1. UNCHANGED <<exec, run, results, overlapped>>
  BY DEF ReadForSubmit, Submit, BeginValidation, EnqueueValidation, AbandonSubmit,
         ReapDead, ReapStalled, Reject, PassGate, ReleaseProposal, ChangeWorld,
         validationVars, jobVars, runVars
<1> QED BY <1>1, FindingsKeep

LEMMA GoneReports ==
    ASSUME ValidationInv, FindingsInv, NEW a \in Attempts,
           HandlerReturns(a) \/ CrashHandler(a) \/ CancelStalled(a)
    PROVE  FindingsInv'
<1>1. UNCHANGED <<run, results, overlapped>> /\ exec' = [exec EXCEPT ![a] = Gone]
  BY DEF HandlerReturns, CrashHandler, CancelStalled, jobVars, runVars
<1>2. Gone.pc \in QuietSteps
  BY GoneIs DEF QuietSteps, HandlerSteps
<1> QED BY <1>1, <1>2, QuietReports, HandlerReports

LEMMA StartReports == ASSUME ValidationInv, FindingsInv, StartAttempt PROVE FindingsInv'
<1>1. PICK e : e = Handler("load", 1, {})
  OBVIOUS
<1>2. /\ exec' = [exec EXCEPT ![tries'.validation] = e]
      /\ UNCHANGED <<run, results>> /\ overlapped' = (overlapped \/ \E a \in Attempts : Running(a))
  BY <1>1 DEF StartAttempt, runVars
<1>3. e.pc = "load"
  BY <1>1 DEF Handler
<1>4. Whole(e) /\ Reports(e)
  BY <1>3, QuietReports DEF QuietSteps, HandlerSteps
<1>5. \A a \in Attempts : exec'[a] = exec[a] \/ exec'[a] = e
  BY <1>2, ValidationTables
<1> QED BY <1>2, <1>4, <1>5, FindingsKeep

LEMMA InfraErrorReports == ASSUME ValidationInv, FindingsInv, NEW a \in Attempts, InfraError(a) PROVE FindingsInv'
<1>1. /\ Running(a) /\ exec[a].pc \notin {"ok", "failed"} /\ Fail(a)
      /\ UNCHANGED <<run, results, overlapped>>
  BY DEF InfraError, Running, jobVars, runVars
<1> QED BY <1>1, FailReports

\* The handler before and after its loop.
LEMMA OutsideLoopReports ==
    ASSUME ValidationInv, FindingsInv, NEW a \in Attempts,
           \/ Load(a) \/ LeaveValidating(a) \/ ToReview(a) \/ CollectInputs(a) \/ Decide(a)
           \/ StartDegrading(a) \/ RecordDegradation(a)
    PROVE  FindingsInv'
<1>1. /\ UNCHANGED <<run, results, overlapped>>
      /\ Running(a) /\ exec[a].pc \notin {"ok", "failed"}
  BY DEF Load, LeaveValidating, ToReview, CollectInputs, Decide, StartDegrading, RecordDegradation,
         Running, jobVars, runVars
<1>2. \/ \E pc \in QuietSteps : To(a, pc)
      \/ Fail(a)
      \/ exec' = [exec EXCEPT ![a] = Handler("find", 1, world)]
      \/ exec' = [exec EXCEPT ![a].pc = "decide", ![a].sight = SeenNow]
  <2>1. {"ok", "failed", "ensure_decision", "transition", "record_degradation", "leave_validating"}
           \subseteq QuietSteps
    BY DEF QuietSteps, HandlerSteps
  <2>2. Done(a) => To(a, "ok") \/ To(a, "failed")
    BY DEF Done
  <2> QED BY <2>1, <2>2 DEF Load, LeaveValidating, ToReview, CollectInputs, Decide, StartDegrading, RecordDegradation
<1>3. ASSUME NEW pc \in QuietSteps, To(a, pc) PROVE FindingsInv'
  BY <1>1, <1>3, ToReports
<1>4. CASE Fail(a)
  BY <1>1, <1>4, FailReports
<1>5. CASE exec' = [exec EXCEPT ![a] = Handler("find", 1, world)]
  <2>1. PICK e : e = Handler("find", 1, world)
    OBVIOUS
  <2>2. e.pc \in QuietSteps
    BY <2>1 DEF Handler, QuietSteps, HandlerSteps
  <2> QED BY <1>1, <1>5, <2>1, <2>2, QuietReports, HandlerReports
<1>6. CASE exec' = [exec EXCEPT ![a].pc = "decide", ![a].sight = SeenNow]
  <2>1. PICK e : e = [exec[a] EXCEPT !.pc = "decide", !.sight = SeenNow]
    OBVIOUS
  <2>2. e.pc \in QuietSteps
    BY <2>1, ValidationTables DEF Handlers, QuietSteps, HandlerSteps
  <2>3. exec' = [exec EXCEPT ![a] = e]
    BY <1>6, <2>1
  <2> QED BY <1>1, <2>2, <2>3, QuietReports, HandlerReports
<1> QED BY <1>2, <1>3, <1>4, <1>5, <1>6

LEMMA AdvanceReports ==
    ASSUME ValidationInv, NEW a \in Attempts, Running(a), exec[a].pc \in Validating, Advance(a)
    PROVE  \E e : exec' = [exec EXCEPT ![a] = e] /\ Whole(e) /\ Reports(e) /\ e.pc \in QuietSteps
<1>1. PICK e \in Handlers : exec' = [exec EXCEPT ![a] = e] /\ e.pc \in {"find", "leave_validating"}
  BY AdvanceIs
<1>2. e.pc \in QuietSteps
  BY <1>1 DEF QuietSteps, HandlerSteps
<1> QED BY <1>1, <1>2, QuietReports

LEMMA FindRunReports == ASSUME ValidationInv, FindingsInv, NEW a \in Attempts, FindRun(a) PROVE FindingsInv'
<1>1. /\ Running(a) /\ exec[a].pc \in Validating /\ UNCHANGED <<run, results, overlapped>>
  BY DEF FindRun, Running, Validating, jobVars, runVars
<1>2. \/ To(a, "create")
      \/ To(a, "list") /\ run[exec[a].v] = "running"
      \/ Advance(a)
  BY DEF FindRun
<1>3. CASE To(a, "create")
  BY <1>1, <1>3, ToReports DEF QuietSteps, HandlerSteps
<1>4. CASE To(a, "list") /\ run[exec[a].v] = "running"
  <2>1. PICK e : e = [exec[a] EXCEPT !.pc = "list"]
    OBVIOUS
  <2>2. e.pc = "list" /\ e.v = exec[a].v
    BY <2>1, ToIs DEF HandlerSteps
  <2>3. exec' = [exec EXCEPT ![a] = e] /\ Whole(e) /\ Reports(e)
    BY <1>4, <2>1, <2>2 DEF To, Whole, Reports
  <2> QED BY <1>1, <2>3, HandlerReports
<1>5. CASE Advance(a)
  BY <1>1, <1>5, AdvanceReports, HandlerReports
<1> QED BY <1>2, <1>3, <1>4, <1>5

LEMMA ListReports == ASSUME ValidationInv, FindingsInv, NEW a \in Attempts, ListResults(a) PROVE FindingsInv'
<1>1. /\ Running(a) /\ exec[a].pc = "list" /\ exec[a].pc \in Validating
      /\ UNCHANGED <<run, results, overlapped>>
  BY DEF ListResults, Running, Validating, jobVars, runVars
<1>2. PICK todo : todo = MissingFindings(exec[a].v, exec[a].input)
  OBVIOUS
<1>3. PICK e : e = [exec[a] EXCEPT !.todo = todo, !.pc = IF todo = <<>> THEN "check" ELSE "record"]
  OBVIOUS
<1>4. /\ e.v = exec[a].v /\ e.input = exec[a].input /\ e.todo = todo
      /\ e.pc = IF todo = <<>> THEN "check" ELSE "record"
  BY <1>1, <1>3, ValidationTables DEF Handlers
<1>5. exec' = [exec EXCEPT ![a] = e]
  BY <1>2, <1>3 DEF ListResults
<1>6. exec[a].v \in Validators /\ exec[a].input \in Worlds /\ DOMAIN results[exec[a].v] \subseteq StoredFinding
  BY <1>1, ValidationTables, ValidationRows DEF Handlers, Placed
<1>7. \A kind \in Kinds : kind = "completed" \/ e.v \in e.input =>
          \E i \in DOMAIN todo : todo[i] = Given(kind, e.input)
  BY <1>2, <1>4, <1>6, MissingAre
<1>8. todo # <<>>
  BY <1>7 DEF Kinds
<1>9. Whole(e)
  BY <1>4, <1>7, <1>8 DEF Whole
<1>10. ~overlapped => Reports(e)
  BY <1>1, <1>4, <1>8 DEF FindingsInv, Reports, Validating
<1> QED BY <1>1, <1>5, <1>9, <1>10, HandlerReports

LEMMA ChecksReport ==
    ASSUME ValidationInv, FindingsInv, NEW a \in Attempts, CheckRunning(a) \/ CheckFinish(a)
    PROVE  FindingsInv'
<1>1. /\ Running(a) /\ exec[a].pc \in {"record", "check"} /\ UNCHANGED <<run, results, overlapped>>
  BY DEF CheckRunning, CheckFinish, Running, jobVars, runVars
<1>2. PICK v : v = exec[a].v
  OBVIOUS
<1>3. \/ Fail(a)
      \/ To(a, "insert") /\ exec[a].pc = "record"
      \/ To(a, "finish") /\ exec[a].pc = "check" /\ (v \notin exec[a].input => ~HasBlocker(v))
  BY <1>2 DEF CheckRunning, CheckFinish, MayFinish, Outcome
<1>4. CASE Fail(a)
  BY <1>1, <1>4, FailReports
<1>5. ASSUME NEW pc \in {"insert", "finish"}, To(a, pc),
             pc = "insert" => exec[a].pc = "record",
             pc = "finish" => exec[a].pc = "check" /\ (v \notin exec[a].input => ~HasBlocker(v))
      PROVE  FindingsInv'
  <2>1. PICK e : e = [exec[a] EXCEPT !.pc = pc]
    OBVIOUS
  <2>2. e.pc = pc /\ e.v = v /\ e.todo = exec[a].todo /\ e.input = exec[a].input
    BY <1>2, <2>1, ToIs DEF HandlerSteps
  <2>3. exec' = [exec EXCEPT ![a] = e]
    BY <1>5, <2>1 DEF To
  <2>4. Whole(e)
    BY <1>2, <1>5, <2>2 DEF FindingsInv, Whole
  <2>5. ~overlapped => Reports(e)
    BY <1>2, <1>5, <2>2 DEF FindingsInv, Reports, Validating
  <2> QED BY <1>1, <2>3, <2>4, <2>5, HandlerReports
<1> QED BY <1>3, <1>4, <1>5

\* Findings are only ever added.
LEMMA ReportsGrow ==
    ASSUME \A v \in Validators : DOMAIN results[v] \subseteq DOMAIN results'[v]
    PROVE  /\ \A v \in Validators : \A input : WholeReport(v, input) => WholeReport(v, input)'
           /\ \A e \in Handlers : Whole(e) => Whole(e)'
<1>1. \A v \in Validators : \A input : WholeReport(v, input) => WholeReport(v, input)'
  BY DEF WholeReport
<1>2. \A e \in Handlers : e.v \in Validators
  BY DEF Handlers
<1> QED BY <1>1, <1>2 DEF Whole

\* What is to be shown of a step of a handler that writes; one without a rival
\* has to keep its word.
LEMMA WriterReports ==
    ASSUME ValidationInv, FindingsInv, overlapped' = overlapped,
           NEW a \in Attempts, Running(a), NEW e, exec' = [exec EXCEPT ![a] = e],
           \A v \in Validators : DOMAIN results[v] \subseteq DOMAIN results'[v],
           Whole(e)', OutcomeIsReproducible',
           ~overlapped => Reports(e)' /\ RunTellsItsFindings'
    PROVE  FindingsInv'
<1>1. exec'[a] = e /\ \A b \in Attempts \ {a} : exec'[b] = exec[b]
  BY ValidationTables
<1>2. ASSUME ~overlapped, NEW b \in Attempts \ {a} PROVE Reports(exec[b])'
  <2>1. exec'[b].pc \in {"none", "gone"}
    BY <1>1, <1>2, AloneIs
  <2> QED BY <2>1 DEF Reports, Validating
<1>3. ASSUME NEW b \in Attempts \ {a} PROVE Whole(exec[b])'
  <2>1. PICK d : d = exec[b]
    OBVIOUS
  <2>2. d \in Handlers /\ Whole(d)
    BY <2>1, ValidationTables DEF FindingsInv
  <2>3. Whole(d)' /\ exec'[b] = d
    BY <1>1, <2>1, <2>2, ReportsGrow
  <2> QED BY <2>3 DEF Whole, WholeReport
<1>4. Whole(exec[a])'
  BY <1>1 DEF Whole, WholeReport
<1>5. overlapped => RunTellsItsFindings'
  BY DEF RunTellsItsFindings
<1> QED BY <1>1, <1>2, <1>3, <1>4, <1>5 DEF FindingsInv

LEMMA CreateRunReports == ASSUME ValidationInv, FindingsInv, NEW a \in Attempts, CreateRun(a) PROVE FindingsInv'
<1>1. /\ Running(a) /\ exec[a].pc = "create" /\ UNCHANGED <<results, overlapped>>
  BY DEF CreateRun, Running, jobVars
<1>2. PICK v : v = exec[a].v
  OBVIOUS
<1>3. v \in Validators
  BY <1>2, ValidationTables DEF Handlers
<1>4. CASE run[v] # "none"
  BY <1>1, <1>2, <1>4, FailReports DEF CreateRun
<1>5. CASE run[v] = "none"
  <2>1. run' = [run EXCEPT ![v] = "running"] /\ To(a, "list")
    BY <1>2, <1>5 DEF CreateRun
  <2>2. run'[v] = "running" /\ \A u \in Validators \ {v} : run'[u] = run[u]
    BY <1>3, <2>1, ValidationRows
  <2>3. PICK e : e = [exec[a] EXCEPT !.pc = "list"]
    OBVIOUS
  <2>4. e.pc = "list" /\ e.v = v
    BY <1>2, <2>3, ToIs DEF HandlerSteps
  <2>5. exec' = [exec EXCEPT ![a] = e] /\ Whole(e)' /\ Reports(e)'
    BY <2>1, <2>2, <2>3, <2>4 DEF To, Whole, Reports
  <2>6. overlapped \/ RunTellsItsFindings'
    BY <1>1, <2>2 DEF FindingsInv, RunTellsItsFindings, HasBlocker
  <2>7. OutcomeIsReproducible'
    BY <1>1, <2>2 DEF FindingsInv, OutcomeIsReproducible, WholeReport, Outcome
  <2> QED BY <1>1, <2>5, <2>6, <2>7, WriterReports
<1> QED BY <1>4, <1>5

LEMMA InsertReports == ASSUME ValidationInv, FindingsInv, NEW a \in Attempts, InsertResult(a) PROVE FindingsInv'
<1>1. /\ Running(a) /\ exec[a].pc = "insert" /\ UNCHANGED <<run, overlapped>>
  BY DEF InsertResult, Running, jobVars
<1>2. PICK v : v = exec[a].v
  OBVIOUS
<1>3. PICK todo : todo = exec[a].todo
  OBVIOUS
<1>4. v \in Validators /\ todo \in Seq(Finding) /\ todo # <<>>
  BY <1>1, <1>2, <1>3, ValidationTables DEF Handlers, Placed
<1>5. PICK f : f = Head(todo)
  OBVIOUS
<1>6. PICK rest : rest = Tail(todo)
  OBVIOUS
<1>7. /\ f = todo[1] /\ 1 \in DOMAIN todo
      /\ \A i \in DOMAIN rest : i + 1 \in DOMAIN todo /\ rest[i] = todo[i + 1] /\ i + 1 # 1
      /\ \A i \in DOMAIN todo : i = 1 \/ (i - 1 \in DOMAIN rest /\ rest[i - 1] = todo[i])
      /\ \A i, j \in DOMAIN rest : i + 1 = j + 1 => i = j
  BY <1>4, <1>5, <1>6
<1>8. results' = [results EXCEPT ![v] = results[v] (+) SetToBag({AsStored(f)})]
  BY <1>2, <1>3, <1>5 DEF InsertResult
<1>9. PICK more : more = results[v] (+) SetToBag({AsStored(f)})
  OBVIOUS
<1>10. IsABag(results[v]) /\ DOMAIN more = DOMAIN results[v] \union {AsStored(f)}
  BY <1>4, <1>9, ValidationRows, Added
<1>11. results'[v] = more /\ \A u \in Validators \ {v} : results'[u] = results[u]
  BY <1>4, <1>8, <1>9, ValidationRows
<1>12. PICK e : e = [exec[a] EXCEPT !.todo = rest, !.pc = IF rest = <<>> THEN "check" ELSE "record"]
  OBVIOUS
<1>13. /\ e.v = v /\ e.input = exec[a].input /\ e.todo = rest
       /\ e.pc = IF rest = <<>> THEN "check" ELSE "record"
  BY <1>1, <1>2, <1>12, ValidationTables DEF Handlers
<1>14. exec' = [exec EXCEPT ![a] = e]
  BY <1>3, <1>6, <1>12 DEF InsertResult
<1>15. \A u \in Validators : DOMAIN results[u] \subseteq DOMAIN results'[u]
  BY <1>10, <1>11
<1>16. Whole(e)'
  <2>1. \A kind \in Kinds : kind = "completed" \/ v \in e.input =>
            \/ AsStored(Given(kind, e.input)) \in DOMAIN results[v]
            \/ \E i \in DOMAIN todo : todo[i] = Given(kind, e.input)
    BY <1>1, <1>2, <1>3, <1>13 DEF FindingsInv, Whole
  <2>2. \A kind \in Kinds : kind = "completed" \/ v \in e.input =>
            \/ AsStored(Given(kind, e.input)) \in DOMAIN more
            \/ \E i \in DOMAIN rest : rest[i] = Given(kind, e.input)
    <3> SUFFICES ASSUME NEW kind \in Kinds, kind = "completed" \/ v \in e.input,
                        AsStored(Given(kind, e.input)) \notin DOMAIN more
                 PROVE  \E i \in DOMAIN rest : rest[i] = Given(kind, e.input)
      OBVIOUS
    <3>1. PICK i \in DOMAIN todo : todo[i] = Given(kind, e.input)
      BY <1>10, <2>1
    <3>2. i # 1
      BY <1>7, <1>10, <3>1
    <3> QED BY <1>7, <3>1, <3>2
  <2>3. rest = <<>> => \A kind \in Kinds : kind = "completed" \/ v \in e.input =>
            AsStored(Given(kind, e.input)) \in DOMAIN more
    BY <2>2
  <2> QED BY <1>11, <1>13, <2>2, <2>3 DEF Whole, WholeReport
<1>17. OutcomeIsReproducible'
  BY <1>1, <1>15, ReportsGrow DEF FindingsInv, OutcomeIsReproducible, Outcome
<1>18. ASSUME ~overlapped PROVE Reports(e)' /\ RunTellsItsFindings'
  <2>1. run[v] = "running"
    BY <1>1, <1>2, <1>18 DEF FindingsInv, Reports, Validating
  <2>2. RunTellsItsFindings'
    BY <1>1, <1>11, <1>18, <2>1 DEF FindingsInv, RunTellsItsFindings, HasBlocker
  <2>3. Reports(e)'
    BY <1>1, <1>13, <2>1 DEF Reports, Validating
  <2> QED BY <2>2, <2>3
<1> QED BY <1>1, <1>14, <1>15, <1>16, <1>17, <1>18, WriterReports

LEMMA FinishRunReports == ASSUME ValidationInv, FindingsInv, NEW a \in Attempts, FinishRun(a) PROVE FindingsInv'
<1>1. /\ Running(a) /\ exec[a].pc = "finish" /\ exec[a].pc \in Validating /\ UNCHANGED <<results, overlapped>>
  BY DEF FinishRun, Running, Validating, jobVars
<1>2. PICK v : v = exec[a].v
  OBVIOUS
<1>3. v \in Validators
  BY <1>2, ValidationTables DEF Handlers
<1>4. CASE run[v] # "running"
  BY <1>1, <1>2, <1>4, FailReports DEF FinishRun
<1>5. CASE run[v] = "running"
  <2>1. /\ run' = [run EXCEPT ![v] = IF v \in exec[a].input THEN "failed" ELSE "succeeded"]
        /\ Advance(a)
    BY <1>2, <1>5 DEF FinishRun, Outcome
  <2>2. /\ run'[v] = IF v \in exec[a].input THEN "failed" ELSE "succeeded"
        /\ \A u \in Validators \ {v} : run'[u] = run[u]
    BY <1>3, <2>1, ValidationRows
  <2>3. PICK e : exec' = [exec EXCEPT ![a] = e] /\ e.pc \in QuietSteps
    BY <1>1, <2>1, AdvanceReports
  <2>4. Whole(e)' /\ Reports(e)'
    BY <2>3 DEF Whole, Reports, QuietSteps, Validating
  <2>5. WholeReport(v, exec[a].input) /\ exec[a].input \in Worlds
    BY <1>1, <1>2, ValidationTables DEF FindingsInv, Whole, Placed
  <2>6. ~overlapped => (HasBlocker(v) <=> v \in exec[a].input)
    BY <1>1, <1>2, <2>5, WholeBlocks DEF FindingsInv, Reports
  <2>7. overlapped \/ RunTellsItsFindings'
    BY <1>1, <2>2, <2>6 DEF FindingsInv, RunTellsItsFindings, HasBlocker
  <2>8. \A u \in Validators : \A input : WholeReport(u, input) => WholeReport(u, input)'
    BY <1>1, ReportsGrow
  <2>9. OutcomeIsReproducible'
    BY <1>3, <2>2, <2>5, <2>8 DEF FindingsInv, OutcomeIsReproducible, Outcome
  <2> QED BY <1>1, <2>3, <2>4, <2>7, <2>9, WriterReports
<1> QED BY <1>4, <1>5

LEMMA FindingsStart == ValidationInit => FindingsInv
<1> SUFFICES ASSUME ValidationInit PROVE FindingsInv
  OBVIOUS
<1>1. \A v \in Validators : DOMAIN results[v] = {} /\ run[v] = "none"
  BY DEF ValidationInit, EmptyBag, SetToBag
<1>2. \A a \in Attempts : exec[a].pc = "none"
  BY DEF ValidationInit, NotStarted, Handler
<1>3. \A a \in Attempts : Whole(exec[a]) /\ Reports(exec[a])
  BY <1>2, QuietReports DEF QuietSteps, HandlerSteps
<1> QED BY <1>1, <1>3 DEF FindingsInv, OutcomeIsReproducible, RunTellsItsFindings

LEMMA FindingsStep == ValidationInv /\ FindingsInv /\ [ValidationNext]_validationVars => FindingsInv'
<1> SUFFICES ASSUME ValidationInv, FindingsInv, [ValidationNext]_validationVars PROVE FindingsInv'
  OBVIOUS
<1>1. ASSUME NEW a \in Attempts, HandlerStep(a) PROVE FindingsInv'
  <2>1. CASE \/ Load(a) \/ LeaveValidating(a) \/ ToReview(a) \/ CollectInputs(a) \/ Decide(a)
             \/ StartDegrading(a) \/ RecordDegradation(a)
    BY <2>1, OutsideLoopReports
  <2>2. CASE FindRun(a)
    BY <2>2, FindRunReports
  <2>3. CASE CreateRun(a)
    BY <2>3, CreateRunReports
  <2>4. CASE ListResults(a)
    BY <2>4, ListReports
  <2>5. CASE CheckRunning(a) \/ CheckFinish(a)
    BY <2>5, ChecksReport
  <2>6. CASE InsertResult(a)
    BY <2>6, InsertReports
  <2>7. CASE FinishRun(a)
    BY <2>7, FinishRunReports
  <2> QED BY <1>1, <2>1, <2>2, <2>3, <2>4, <2>5, <2>6, <2>7 DEF HandlerStep
<1>2. ASSUME NEW a \in Attempts, HandlerReturns(a) \/ CrashHandler(a) \/ CancelStalled(a) PROVE FindingsInv'
  BY <1>2, GoneReports
<1>3. ASSUME NEW a \in Attempts, InfraError(a) PROVE FindingsInv'
  BY <1>3, InfraErrorReports
<1>4. CASE StartAttempt
  BY <1>4, StartReports
<1>5. CASE \/ \E c \in Client : ReadForSubmit(c) \/ Submit(c) \/ BeginValidation(c)
                                \/ EnqueueValidation(c) \/ AbandonSubmit(c)
           \/ ReapDead \/ ReapStalled \/ Reject \/ PassGate \/ ReleaseProposal \/ ChangeWorld
           \/ UNCHANGED validationVars
  BY <1>5, OthersReport
<1> QED BY <1>1, <1>2, <1>3, <1>4, <1>5 DEF ValidationNext

LEMMA FindingsInvariance == ValidationSpec => []FindingsInv
<1>1. ValidationInit => FindingsInv
  BY FindingsStart
<1>2. ValidationInv /\ FindingsInv /\ [ValidationNext]_validationVars => FindingsInv'
  BY FindingsStep
<1> QED BY <1>1, <1>2, ValidationInvariance, PTL DEF ValidationSpec

\* Whatever attempts are lost, retried or left to run beside each other, and
\* whatever references resolve to in each, a run that ended has all findings of
\* one input on record, and that input yields its outcome (completedFinding).
THEOREM OutcomesAreReproducible == ValidationSpec => []OutcomeIsReproducible
<1>1. FindingsInv => OutcomeIsReproducible
  BY DEF FindingsInv
<1> QED BY <1>1, FindingsInvariance, PTL

\* A run has failed if and only if it has a blocker on record, whichever attempt
\* found it (runValidator, FinishRun), unless two attempts ran side by side.
THEOREM RunsTellTheirFindings == ValidationSpec => []RunTellsItsFindings
<1>1. FindingsInv => RunTellsItsFindings
  BY DEF FindingsInv
<1> QED BY <1>1, FindingsInvariance, PTL

=============================================================================
