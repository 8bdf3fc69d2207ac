------------------------ MODULE AssetLifecycleProofs ------------------------
(***************************************************************************)
(* What AssetLifecycle promises for any assets, codes and users, and for   *)
(* any number of versions and of requests in flight.  The argument is      *)
(* about one version at a time: whichever operation is carried out, a      *)
(* version that was there keeps its place and Advances, and a version that *)
(* was not Begins.                                                         *)
(***************************************************************************)
EXTENDS AssetLifecycle, SequenceTheorems, TLAPS

\* What an operation may make of a version: leave it, archive it while it is
\* open, or decide about it, in the name of another than its submitter.
Archived(v) == [v EXCEPT !.status = "archived"]
Decided(v, status, u) == [v EXCEPT !.status = status, !.reviewer = u]
Advances(v, w) ==
  \/ w = v
  \/ v.status \in {"review", "active"} /\ w = Archived(v)
  \/ /\ v.status = "review"
     /\ \E u \in User \ {v.by}, status \in {"active", "rejected"} : w = Decided(v, status, u)

\* How a version begins.
Begins(w) ==
  \/ w.status = "review" /\ w.reviewer = NoUser
  \/ w.status = "active" /\ w.direct

\* A step that adds versions and lets those there are advance, or drops them all.
Progress ==
  \A i \in Asset : \A k \in DOMAIN versions'[i] :
    IF k \in DOMAIN versions[i] THEN Advances(versions[i][k], versions'[i][k])
    ELSE Begins(versions'[i][k])
Growth == \A i \in Asset : DOMAIN versions[i] \subseteq DOMAIN versions'[i]

\* Nobody has decided about a version that is open for review.
ReviewsAreOpen ==
  \A i \in Asset : \A k \in DOMAIN versions[i] :
    versions[i][k].status = "review" => versions[i][k].reviewer = NoUser

\* A review on PostgreSQL has chosen a version that exists.
ChosenExists ==
  store = "postgresql" =>
    \A p \in pending : p.kind = "review" => p.number \in DOMAIN versions[p.asset]

\* SQLite has no catalogue of its own.
CatalogOfServers == ~OnServer => \A c \in Code : catalog[c] = NoEntry

AssetInv == /\ AssetTypeOK
            /\ ReviewsAreOpen
            /\ ChosenExists
            /\ CatalogOfServers
            /\ ActiveIsVouchedFor
            /\ CatalogFollowsReviews

-----------------------------------------------------------------------------
\* A function on 1..n is a sequence of length n.
LEMMA SequenceOf ==
  ASSUME NEW S, NEW n \in Nat, NEW f \in [1..n -> S]
  PROVE  f \in Seq(S) /\ Len(f) = n /\ DOMAIN f = 1..n
<1>1. f \in Seq(S)
  BY SeqDef
<1>2. Len(f) \in Nat /\ DOMAIN f = 1..Len(f)
  BY <1>1, LenProperties
<1>3. DOMAIN f = 1..n
  OBVIOUS
<1>4. ASSUME NEW m \in Nat, 1..m = 1..n PROVE m = n
  <2>1. m \in 1..m \/ m = 0
    OBVIOUS
  <2>2. n \in 1..n \/ n = 0
    OBVIOUS
  <2> QED BY <1>4, <2>1, <2>2
<1> QED BY <1>1, <1>2, <1>3, <1>4

\* Archiving keeps a history's length and each version's place.
LEMMA ArchiveFacts ==
  ASSUME NEW vs \in Seq(Version), NEW which \in SUBSET {"review", "active"}
  PROVE  /\ Archive(vs, which) \in Seq(Version)
         /\ Len(Archive(vs, which)) = Len(vs)
         /\ DOMAIN Archive(vs, which) = DOMAIN vs
         /\ \A k \in DOMAIN vs :
              /\ Archive(vs, which)[k] =
                   IF vs[k].status \in which THEN Archived(vs[k]) ELSE vs[k]
              /\ Advances(vs[k], Archive(vs, which)[k])
              /\ Archive(vs, which)[k].status \notin which
<1> DEFINE ws == Archive(vs, which)
<1>1. /\ Len(vs) \in Nat
      /\ DOMAIN vs = 1..Len(vs)
      /\ \A k \in DOMAIN vs : vs[k] \in Version
  BY LenProperties, ElementOfSeq
<1>2. ws = [k \in 1..Len(vs) |-> IF vs[k].status \in which THEN Archived(vs[k]) ELSE vs[k]]
  BY <1>1 DEF Archive, Archived
<1>3. \A k \in DOMAIN vs : Archived(vs[k]) \in Version /\ Archived(vs[k]).status = "archived"
  BY <1>1 DEF Archived, Version, Status
<1>4. ws \in [1..Len(vs) -> Version]
  BY <1>1, <1>2, <1>3
<1>5. ws \in Seq(Version) /\ Len(ws) = Len(vs) /\ DOMAIN ws = DOMAIN vs
  <2> HIDE DEF ws
  <2> QED BY <1>1, <1>4, SequenceOf
<1>6. ASSUME NEW k \in DOMAIN vs
      PROVE  /\ ws[k] = IF vs[k].status \in which THEN Archived(vs[k]) ELSE vs[k]
             /\ Advances(vs[k], ws[k])
             /\ ws[k].status \notin which
  <2>1. ws[k] = IF vs[k].status \in which THEN Archived(vs[k]) ELSE vs[k]
    BY <1>1, <1>2
  <2> HIDE DEF ws
  <2> QED BY <1>3, <2>1 DEF Advances
<1> QED BY <1>5, <1>6

\* Deciding about version k of a history.
Decide(vs, k, status, u) == [vs EXCEPT ![k].status = status, ![k].reviewer = u]
LEMMA DecideFacts ==
  ASSUME NEW vs \in Seq(Version), NEW k \in DOMAIN vs, NEW u \in User,
         NEW status \in {"active", "rejected"}
  PROVE  /\ Decide(vs, k, status, u) \in Seq(Version)
         /\ DOMAIN Decide(vs, k, status, u) = DOMAIN vs
         /\ Decide(vs, k, status, u)[k] = Decided(vs[k], status, u)
         /\ \A j \in DOMAIN vs : j # k => Decide(vs, k, status, u)[j] = vs[j]
<1> DEFINE ws == Decide(vs, k, status, u)
<1>1. /\ Len(vs) \in Nat
      /\ DOMAIN vs = 1..Len(vs)
      /\ vs \in [1..Len(vs) -> Version]
  BY LenProperties
<1>2. vs[k] \in Version
  BY <1>1
<1>3. Decided(vs[k], status, u) \in Version
  BY <1>2 DEF Decided, Version, Status
<1>4. ws = [vs EXCEPT ![k] = Decided(vs[k], status, u)]
  BY <1>1, <1>2 DEF Decide, Decided
<1>5. ws \in [1..Len(vs) -> Version]
  BY <1>1, <1>3, <1>4
<1>6. ws \in Seq(Version)
  <2> HIDE DEF ws
  <2> QED BY <1>1, <1>5, SequenceOf
<1> QED BY <1>1, <1>3, <1>4, <1>5, <1>6

-----------------------------------------------------------------------------
\* One version of an asset is active at most, and never an earlier one again
\* where a review chooses its version under the lock.
OneActive == \A i \in Asset : \A j, k \in Actives(i) : j = k
Forward ==
  store # "postgresql" => \A i \in Asset : \A j \in Actives(i), k \in Actives(i)' : j <= k

\* An asset's versions are numbered from 1.
LEMMA Numbered ==
  ASSUME AssetTypeOK, NEW i \in Asset
  PROVE  /\ versions[i] \in Seq(Version)
         /\ Len(versions[i]) \in Nat
         /\ DOMAIN versions[i] = 1..Len(versions[i])
         /\ \A k \in DOMAIN versions[i] : versions[i][k] \in Version
         /\ versions[i] # <<>> => Len(versions[i]) \in DOMAIN versions[i]
<1>1. versions[i] \in Seq(Version)
  BY DEF AssetTypeOK
<1> QED BY <1>1, LenProperties, ElementOfSeq, EmptySeq

\* An upsert adds one version to its asset, and what becomes of the others is
\* that they are archived.
LEMMA UpsertSteps ==
  ASSUME AssetTypeOK, OneActive, NEW i \in Asset, NEW u \in User,
         NEW status \in {"review", "active"}, NEW c \in Code \cup {NoCode},
         NEW dups \in SUBSET (Experience \ {i}), \A j \in dups : Listed(j),
         Upsert(i, u, status, c, dups),
         status = "active" => ~(i \in Topic /\ OnServer)
  PROVE  /\ versions' \in [Asset -> Seq(Version)]
         /\ Progress /\ Growth /\ OneActive' /\ Forward
         /\ UNCHANGED <<store, catalog>>
         /\ \A j \in Topic : OnServer => Actives(j)' = Actives(j)
         /\ row' \in [Asset -> Status \cup {"none"}]
         /\ \A j \in Asset : row'[j] # "none" => versions'[j] # <<>>
<1> DEFINE n == Len(versions[i])
           new == [status |-> status, by |-> u, direct |-> status = "active",
                   reviewer |-> IF status = "active" /\ OnServer THEN u ELSE NoUser,
                   code |-> c]
           old(j) == IF j = i
                     THEN IF status = "active" THEN Archive(versions[i], {"active"}) ELSE versions[i]
                     ELSE IF j \in dups THEN Archive(versions[j], {"review", "active"})
                     ELSE versions[j]
<1>1. /\ versions' = [j \in Asset |-> IF j = i THEN Append(old(i), new) ELSE old(j)]
      /\ row' = [j \in Asset |-> IF j = i THEN status ELSE IF j \in dups THEN "archived" ELSE row[j]]
      /\ catalog' = catalog
      /\ store' = store
  BY DEF Upsert
<1>2. new \in Version /\ Begins(new) /\ new.status = status
  BY DEF Version, Status, Begins
<1> DEFINE Kept(j) ==
             /\ old(j) \in Seq(Version)
             /\ Len(old(j)) = Len(versions[j])
             /\ DOMAIN old(j) = DOMAIN versions[j]
             /\ \A k \in DOMAIN versions[j] :
                  /\ Advances(versions[j][k], old(j)[k])
                  /\ old(j)[k].status = "active" =>
                       versions[j][k].status = "active" /\ ~(j = i /\ status = "active")
<1>3. ASSUME NEW j \in Asset
      PROVE  Kept(j)
  <2>1. \A k \in DOMAIN versions[j] : Advances(versions[j][k], versions[j][k])
    BY DEF Advances
  <2>2. versions[j] \in Seq(Version)
    BY Numbered
  <2>3. ASSUME NEW which \in SUBSET {"review", "active"}, "active" \in which,
               old(j) = Archive(versions[j], which)
        PROVE  Kept(j)
    <3> HIDE DEF old
    <3> QED BY <2>2, <2>3, ArchiveFacts
  <2>4. CASE j = i /\ status = "active"
    BY <2>3, <2>4
  <2>5. CASE j # i /\ j \in dups
    BY <2>3, <2>5
  <2>6. CASE old(j) = versions[j] /\ ~(j = i /\ status = "active")
    <3> HIDE DEF old
    <3> QED BY <2>1, <2>2, <2>6
  <2> QED BY <2>4, <2>5, <2>6
<1>4. \A j \in Topic : OnServer => old(j) = versions[j]
  BY AssetAssumption DEF AssetAssumption
<1> HIDE DEF old, new
<1>5. /\ n \in Nat
      /\ DOMAIN versions[i] = 1..n
      /\ Append(old(i), new) \in Seq(Version)
      /\ DOMAIN Append(old(i), new) = 1..(n + 1)
      /\ Append(old(i), new)[n + 1] = new
      /\ \A k \in 1..n : Append(old(i), new)[k] = old(i)[k]
      /\ Append(old(i), new) # <<>>
  <2>1. Kept(i)
    BY <1>3
  <2>2. n \in Nat /\ DOMAIN versions[i] = 1..n
    BY Numbered
  <2>3. /\ Append(old(i), new) \in Seq(Version)
        /\ Len(Append(old(i), new)) = n + 1
        /\ Append(old(i), new)[n + 1] = new
        /\ \A k \in 1..n : Append(old(i), new)[k] = old(i)[k]
        /\ Append(old(i), new) # <<>>
    BY <1>2, <2>1, AppendProperties
  <2> QED BY <2>2, <2>3, LenProperties
<1>6. versions'[i] = Append(old(i), new) /\ \A j \in Asset \ {i} : versions'[j] = old(j)
  BY <1>1
<1>7. versions' \in [Asset -> Seq(Version)]
  BY <1>1, <1>3, <1>5
<1>8. Growth
  BY <1>3, <1>5, <1>6 DEF Growth
<1>9. Progress
  <2>1. ASSUME NEW j \in Asset, NEW k \in DOMAIN versions'[j]
        PROVE  IF k \in DOMAIN versions[j] THEN Advances(versions[j][k], versions'[j][k])
               ELSE Begins(versions'[j][k])
    <3>1. CASE j # i
      BY <1>3, <1>6, <3>1
    <3>2. CASE j = i /\ k \in 1..n
      BY <1>3, <1>5, <1>6, <3>2
    <3>3. CASE j = i /\ k = n + 1
      BY <1>2, <1>5, <1>6, <3>3
    <3> QED BY <1>5, <1>6, <3>1, <3>2, <3>3
  <2> QED BY <2>1 DEF Progress
<1>10. ASSUME NEW j \in Asset, NEW k \in Actives(j)'
       PROVE  \/ k \in Actives(j) /\ ~(j = i /\ status = "active")
              \/ j = i /\ k = n + 1 /\ status = "active"
  <2>1. k \in DOMAIN versions'[j] /\ versions'[j][k].status = "active"
    BY DEF Actives
  <2>2. CASE j # i
    BY <1>3, <1>6, <2>1, <2>2 DEF Actives
  <2>3. CASE j = i /\ k \in 1..n
    BY <1>3, <1>5, <1>6, <2>1, <2>3 DEF Actives
  <2>4. CASE j = i /\ k = n + 1
    BY <1>2, <1>5, <1>6, <2>1, <2>4
  <2> QED BY <1>5, <1>6, <2>1, <2>2, <2>3, <2>4
<1>11. OneActive'
  BY <1>10 DEF OneActive
<1>12. Forward
  <2>1. ASSUME NEW j \in Asset, NEW k \in Actives(j), NEW m \in Actives(j)'
        PROVE  k <= m
    <3>1. k \in DOMAIN versions[j]
      BY DEF Actives
    <3>2. CASE m \in Actives(j)
      BY <3>1, <3>2, Numbered DEF OneActive
    <3>3. CASE j = i /\ m = n + 1
      BY <1>5, <3>1, <3>3
    <3> QED BY <1>10, <3>2, <3>3
  <2> QED BY <2>1 DEF Forward
<1>13. ASSUME NEW j \in Topic, OnServer
       PROVE  Actives(j)' = Actives(j)
  <2>1. j \in Asset /\ old(j) = versions[j]
    BY <1>4, <1>13 DEF Asset
  <2>2. CASE j # i
    BY <1>6, <2>1, <2>2 DEF Actives
  <2>3. CASE j = i
    <3>1. new.status = "review"
      BY <1>2, <1>13, <2>3
    <3>2. \A k : k \in Actives(i)' <=> k \in Actives(i)
      BY <1>5, <1>6, <2>1, <2>3, <3>1 DEF Actives
    <3>3. /\ \A k \in Actives(i) : k \in Actives(i)'
          /\ \A k \in Actives(i)' : k \in Actives(i)
      BY <3>2
    <3>4. Actives(i)' = Actives(i)
      BY <3>3, Zenon
    <3> QED BY <2>3, <3>4, Zenon
  <2> QED BY <2>2, <2>3
<1>14. /\ row' \in [Asset -> Status \cup {"none"}]
       /\ \A j \in Asset : row'[j] # "none" => versions'[j] # <<>>
  <2>1. row' \in [Asset -> Status \cup {"none"}]
    BY <1>1 DEF AssetTypeOK, Status
  <2>2. ASSUME NEW j \in Asset \ {i}, row'[j] # "none"
        PROVE  versions'[j] # <<>>
    <3>1. row[j] # "none"
      BY <1>1, <2>2 DEF Listed
    <3>2. Len(versions[j]) \in Nat \ {0} /\ Len(versions'[j]) = Len(versions[j])
      BY <1>3, <1>6, <3>1, Numbered, EmptySeq DEF AssetTypeOK
    <3> QED BY <3>2, EmptySeq
  <2> QED BY <1>5, <1>6, <2>1, <2>2
<1> QED BY <1>1, <1>7, <1>8, <1>9, <1>11, <1>12, <1>13, <1>14

\* A review decides about the version it has chosen, in place of the active one
\* when it approves.
LEMMA ReviewSteps ==
  ASSUME AssetTypeOK, OneActive, ChosenExists,
         NEW p \in pending, Review(p), Reviewable(p),
         NEW i, i = p.asset, NEW k, k = Chosen(p)
  PROVE  /\ i \in Asset /\ k \in DOMAIN versions[i]
         /\ versions' \in [Asset -> Seq(Version)]
         /\ Progress /\ Growth /\ OneActive' /\ Forward
         /\ row' \in [Asset -> Status \cup {"none"}]
         /\ \A j \in Asset : row'[j] # "none" => versions'[j] # <<>>
         /\ \A j \in Asset \ {i} : versions'[j] = versions[j]
         /\ p.approve => Actives(i)' = {k} /\ catalog' = PublishedBy(p)
         /\ ~p.approve => Actives(i)' = Actives(i) /\ catalog' = catalog
<1>1. /\ i \in Asset /\ p.user \in User /\ p.kind = "review"
      /\ store' = store
      /\ pending' = pending \ {p}
  BY DEF AssetTypeOK, Pending, Review
<1>2. /\ versions[i] \in Seq(Version)
      /\ Len(versions[i]) \in Nat
      /\ DOMAIN versions[i] = 1..Len(versions[i])
      /\ \A j \in DOMAIN versions[i] : versions[i][j] \in Version
  BY <1>1, Numbered
<1>3. /\ k \in DOMAIN versions[i]
      /\ store # "postgresql" => k = Len(versions[i])
  BY <1>1, Numbered DEF Reviewable, Chosen, ChosenExists
<1>4. versions[i][k].status = "review" /\ p.user \in User \ {versions[i][k].by}
  BY <1>1 DEF Reviewable
<1> DEFINE base == IF p.approve THEN Archive(versions[i], {"active"}) ELSE versions[i]
           status == IF p.approve THEN "active" ELSE "rejected"
           after == Decide(base, k, status, p.user)
<1>5. /\ base \in Seq(Version)
      /\ DOMAIN base = DOMAIN versions[i]
      /\ base[k] = versions[i][k]
      /\ \A j \in DOMAIN versions[i] :
           /\ Advances(versions[i][j], base[j])
           /\ p.approve => base[j].status # "active"
           /\ ~p.approve => base[j] = versions[i][j]
  <2>1. CASE p.approve
    BY <1>2, <1>3, <1>4, <2>1, ArchiveFacts
  <2>2. CASE ~p.approve
    BY <1>2, <1>3, <1>4, <2>2 DEF Advances
  <2> QED BY <2>1, <2>2
<1>6. versions' = [versions EXCEPT ![i] = after] /\ row' = [row EXCEPT ![i] = status]
  BY DEF Review, Decide
<1>7. p.approve => catalog' = PublishedBy(p)
  BY DEF Review
<1>8. ~p.approve => catalog' = catalog
  BY DEF Review
<1> HIDE DEF base
<1>9. /\ after \in Seq(Version)
      /\ DOMAIN after = DOMAIN versions[i]
      /\ after[k] = Decided(versions[i][k], status, p.user)
      /\ \A j \in DOMAIN versions[i] : j # k => after[j] = base[j]
  <2>1. status \in {"active", "rejected"} /\ k \in DOMAIN base /\ p.user \in User
    BY <1>1, <1>3, <1>5
  <2> HIDE DEF status
  <2>2. /\ after \in Seq(Version)
        /\ DOMAIN after = DOMAIN base
        /\ after[k] = Decided(base[k], status, p.user)
        /\ \A j \in DOMAIN base : j # k => after[j] = base[j]
    BY <1>5, <2>1, DecideFacts
  <2> QED BY <1>5, <2>2
<1> HIDE DEF after
<1>10. after[k].status = status
  BY <1>2, <1>3, <1>9 DEF Decided, Version
<1>11. /\ versions' \in [Asset -> Seq(Version)]
       /\ versions'[i] = after
       /\ \A j \in Asset \ {i} : versions'[j] = versions[j]
  BY <1>1, <1>6, <1>9 DEF AssetTypeOK
<1>12. Growth
  BY <1>9, <1>11 DEF Growth
<1>13. Progress
  <2>1. ASSUME NEW j \in Asset, NEW m \in DOMAIN versions'[j]
        PROVE  m \in DOMAIN versions[j] /\ Advances(versions[j][m], versions'[j][m])
    <3>1. CASE j # i
      BY <1>11, <3>1 DEF Advances
    <3>2. CASE j = i /\ m # k
      BY <1>5, <1>9, <1>11, <3>2
    <3>3. CASE j = i /\ m = k
      BY <1>3, <1>4, <1>9, <1>11, <3>3 DEF Advances
    <3> QED BY <3>1, <3>2, <3>3
  <2> QED BY <2>1 DEF Progress
<1>14. ASSUME p.approve PROVE Actives(i)' = {k}
  <2>1. \A j : j \in Actives(i)' <=> j = k
    BY <1>3, <1>5, <1>9, <1>10, <1>11, <1>14 DEF Actives
  <2> QED BY <2>1
<1>15. ASSUME ~p.approve PROVE Actives(i)' = Actives(i)
  <2>1. \A j : j \in Actives(i)' <=> j \in Actives(i)
    BY <1>3, <1>4, <1>5, <1>9, <1>10, <1>11, <1>15 DEF Actives
  <2> QED BY <2>1
<1>16. \A j \in Asset \ {i} : Actives(j)' = Actives(j)
  BY <1>11 DEF Actives
<1>17. OneActive'
  BY <1>14, <1>15, <1>16 DEF OneActive
<1>18. Forward
  <2>1. ASSUME NEW j \in Asset, NEW m \in Actives(j), NEW n \in Actives(j)',
               store # "postgresql"
        PROVE  m <= n
    <3>1. m \in DOMAIN versions[j]
      BY DEF Actives
    <3>2. CASE j = i /\ p.approve
      BY <1>2, <1>3, <1>14, <2>1, <3>1, <3>2
    <3>3. CASE ~(j = i /\ p.approve)
      BY <1>15, <1>16, <3>1, <3>3, Numbered DEF OneActive
    <3> QED BY <3>2, <3>3
  <2> QED BY <2>1 DEF Forward
<1>19. /\ row' \in [Asset -> Status \cup {"none"}]
       /\ \A j \in Asset : row'[j] # "none" => versions'[j] # <<>>
  <2>1. row' \in [Asset -> Status \cup {"none"}]
    BY <1>1, <1>6 DEF AssetTypeOK, Status
  <2>2. versions'[i] # <<>>
    BY <1>3, <1>9, <1>11
  <2> QED BY <1>6, <1>11, <2>1, <2>2 DEF AssetTypeOK
<1> QED
  BY <1>1, <1>3, <1>7, <1>8, <1>11, <1>12, <1>13, <1>14, <1>15, <1>17, <1>18, <1>19

\* Deleting an asset archives its active version on a server, and drops all of
\* them on SQLite.
LEMMA DeletionSteps ==
  ASSUME AssetTypeOK, OneActive, NEW i \in Asset, Retire(i) \/ Remove(i)
  PROVE  /\ versions' \in [Asset -> Seq(Version)]
         /\ Progress /\ (OnServer => Growth) /\ OneActive' /\ Forward
         /\ row' \in [Asset -> Status \cup {"none"}]
         /\ \A j \in Asset : row'[j] # "none" => versions'[j] # <<>>
         /\ \A j \in Asset \ {i} : versions'[j] = versions[j]
         /\ Actives(i)' = {}
         /\ store' = store
<1>1. /\ versions[i] \in Seq(Version)
      /\ Len(versions[i]) \in Nat
      /\ DOMAIN versions[i] = 1..Len(versions[i])
  BY Numbered
<1> DEFINE after == versions'[i]
<1>2. /\ after \in Seq(Version)
      /\ DOMAIN after \subseteq DOMAIN versions[i]
      /\ OnServer => DOMAIN after = DOMAIN versions[i]
      /\ \A k \in DOMAIN after :
           /\ Advances(versions[i][k], after[k])
           /\ after[k].status # "active"
      /\ versions' = [versions EXCEPT ![i] = after]
      /\ store' = store
  <2>1. CASE Retire(i)
    <3>1. versions' = [versions EXCEPT ![i] = Archive(versions[i], {"active"})]
      BY <2>1 DEF Retire
    <3>2. after = Archive(versions[i], {"active"}) /\ store' = store
      BY <2>1, <3>1 DEF AssetTypeOK, Retire
    <3> HIDE DEF after
    <3> QED BY <1>1, <3>1, <3>2, ArchiveFacts
  <2>2. CASE Remove(i)
    <3>1. versions' = [versions EXCEPT ![i] = <<>>] /\ ~OnServer /\ store' = store
      BY <2>2 DEF Remove
    <3>2. after = <<>>
      BY <3>1 DEF AssetTypeOK
    <3>3. DOMAIN after = {}
      BY <3>2
    <3> HIDE DEF after
    <3> QED BY <3>1, <3>2, <3>3, EmptySeq
  <2> QED BY <2>1, <2>2
<1>3. /\ versions' \in [Asset -> Seq(Version)]
      /\ \A j \in Asset \ {i} : versions'[j] = versions[j]
  <2> HIDE DEF after
  <2> QED BY <1>2 DEF AssetTypeOK
<1>4. Progress /\ (OnServer => Growth)
  <2>1. ASSUME NEW j \in Asset, NEW k \in DOMAIN versions'[j]
        PROVE  k \in DOMAIN versions[j] /\ Advances(versions[j][k], versions'[j][k])
    BY <1>2, <1>3 DEF Advances
  <2> QED BY <1>2, <1>3, <2>1 DEF Progress, Growth
<1>5. /\ Actives(i)' = {}
      /\ \A j \in Asset \ {i} : Actives(j)' = Actives(j)
  BY <1>2, <1>3 DEF Actives
<1>6. OneActive'
  BY <1>5 DEF OneActive
<1>7. Forward
  <2>1. ASSUME NEW j \in Asset, NEW m \in Actives(j), NEW n \in Actives(j)'
        PROVE  m <= n
    BY <1>5, Numbered DEF OneActive, Actives
  <2> QED BY <2>1 DEF Forward
<1>8. /\ row' \in [Asset -> Status \cup {"none"}]
      /\ \A j \in Asset : row'[j] # "none" => versions'[j] # <<>>
  <2>1. CASE Retire(i)
    <3>1. row' = [row EXCEPT ![i] = "archived"] /\ row[i] # "none" /\ OnServer
      BY <2>1 DEF Retire, Listed
    <3>2. versions[i] # <<>>
      BY <3>1 DEF AssetTypeOK
    <3>3. Len(versions[i]) \in DOMAIN versions'[i]
      BY <1>2, <3>1, <3>2, Numbered
    <3>4. versions'[i] # <<>>
      BY <3>3
    <3> QED BY <1>3, <3>1, <3>4 DEF AssetTypeOK, Status
  <2>2. CASE Remove(i)
    <3>1. row' = [row EXCEPT ![i] = "none"]
      BY <2>2 DEF Remove
    <3> QED BY <1>3, <3>1 DEF AssetTypeOK, Status
  <2> QED BY <2>1, <2>2
<1> QED BY <1>2, <1>3, <1>4, <1>5, <1>6, <1>7, <1>8

-----------------------------------------------------------------------------
\* What every advance keeps of a version.
LEMMA AdvanceFacts ==
  ASSUME NEW v \in Version, NEW w, Advances(v, w)
  PROVE  /\ w.code = v.code /\ w.by = v.by /\ w.direct = v.direct
         /\ v.reviewer # NoUser => v.status = "review" \/ w.reviewer = v.reviewer
         /\ v.status \in {"rejected", "archived"} => w = v
         /\ w.status = "review" => w = v
         /\ w.status = "active" => w = v \/ Vouched(w)
         /\ v.status = "active" => w.status \in {"active", "archived"}
         /\ v.status # "review" /\ Vouched(v) => Vouched(w)
<1>1. CASE w = v
  BY <1>1 DEF Version, Status
<1>2. CASE v.status \in {"review", "active"} /\ w = Archived(v)
  BY <1>2 DEF Archived, Version, Vouched
<1>3. CASE v.status = "review"
  <2>1. ASSUME NEW u \in User \ {v.by}, NEW status \in {"active", "rejected"},
               w = Decided(v, status, u)
        PROVE  /\ w.code = v.code /\ w.by = v.by /\ w.direct = v.direct
               /\ w.status = status /\ w.reviewer = u
    BY <2>1 DEF Decided, Version
  <2>2. CASE \E u \in User \ {v.by}, status \in {"active", "rejected"} : w = Decided(v, status, u)
    BY <1>3, <2>1, <2>2 DEF Vouched
  <2> QED BY <1>1, <1>2, <1>3, <2>2 DEF Advances
<1> QED BY <1>1, <1>2, <1>3 DEF Advances

\* The invariant, but for the catalogue, follows from how versions advance.
LEMMA ProgressInv ==
  ASSUME AssetInv, versions' \in [Asset -> Seq(Version)],
         Progress, OnServer => Growth, OneActive',
         row' \in [Asset -> Status \cup {"none"}],
         \A i \in Asset : row'[i] # "none" => versions'[i] # <<>>,
         catalog' \in [Code -> Entry \cup {NoEntry}],
         UNCHANGED store, pending' \subseteq Pending,
         store = "postgresql" => \A p \in pending' :
           p \in pending \/ (p.kind = "review" => p.number \in DOMAIN versions[p.asset])
  PROVE  AssetTypeOK' /\ ReviewsAreOpen' /\ ChosenExists' /\ ActiveIsVouchedFor'
<1>1. AssetTypeOK'
  BY DEF AssetInv, AssetTypeOK
<1>2. ASSUME NEW i \in Asset, NEW k \in DOMAIN versions'[i]
      PROVE  /\ versions'[i][k].status = "review" => versions'[i][k].reviewer = NoUser
             /\ versions'[i][k].status = "active" => Vouched(versions'[i][k])
  <2>1. CASE k \in DOMAIN versions[i]
    <3>1. versions[i][k] \in Version /\ Advances(versions[i][k], versions'[i][k])
      BY <2>1, Numbered DEF AssetInv, Progress
    <3>2. /\ versions[i][k].status = "review" => versions[i][k].reviewer = NoUser
          /\ versions[i][k].status = "active" => Vouched(versions[i][k])
      BY <2>1 DEF AssetInv, ReviewsAreOpen, ActiveIsVouchedFor, Actives
    <3> QED BY <3>1, <3>2, AdvanceFacts
  <2>2. CASE k \notin DOMAIN versions[i]
    BY <2>2 DEF Progress, Begins, Vouched
  <2> QED BY <2>1, <2>2
<1>3. ReviewsAreOpen'
  BY <1>2 DEF ReviewsAreOpen
<1>4. ActiveIsVouchedFor'
  BY <1>2 DEF ActiveIsVouchedFor, OneActive, Actives, Vouched
<1>5. ChosenExists'
  <2>1. ASSUME store = "postgresql", NEW p \in pending', p.kind = "review"
        PROVE  p.number \in DOMAIN versions[p.asset] /\ p.asset \in Asset
    BY <2>1 DEF AssetInv, ChosenExists, Pending
  <2> QED BY <2>1 DEF ChosenExists, Growth, OnServer
<1> QED BY <1>1, <1>3, <1>4, <1>5

\* The entry of a code stays good for as long as it stays.
EntryHolds(c) ==
  LET e == catalog[c] IN
  e # NoEntry => /\ e.number \in DOMAIN versions[e.asset]
                 /\ LET v == versions[e.asset][e.number] IN
                      v.code = c /\ v.status \in {"active", "archived"} /\ Vouched(v)

\* A code that is neither changed nor shared shows the active version.
CodeFollows(c) ==
  LET e == catalog[c] IN
  OnServer => \A i \in Topic : Keeps(i, c) =>
    IF Actives(i) = {} THEN e = NoEntry
    ELSE e # NoEntry /\ e.asset = i /\ e.number \in Actives(i)

LEMMA CatalogParts == CatalogFollowsReviews <=> \A c \in Code : EntryHolds(c) /\ CodeFollows(c)
BY DEF CatalogFollowsReviews, EntryHolds, CodeFollows

LEMMA EntryKept ==
  ASSUME AssetInv, Progress, OnServer => Growth, NEW c \in Code, catalog'[c] = catalog[c]
  PROVE  EntryHolds(c)'
<1> DEFINE e == catalog[c]
<1>1. SUFFICES ASSUME e # NoEntry
               PROVE  /\ e.number \in DOMAIN versions'[e.asset]
                      /\ LET v == versions'[e.asset][e.number] IN
                           v.code = c /\ v.status \in {"active", "archived"} /\ Vouched(v)
  BY DEF EntryHolds, Vouched
<1>2. OnServer /\ e.asset \in Asset
  BY <1>1 DEF AssetInv, CatalogOfServers, AssetTypeOK, Entry, Asset
<1>3. /\ e.number \in DOMAIN versions[e.asset]
      /\ LET v == versions[e.asset][e.number] IN
           v.code = c /\ v.status \in {"active", "archived"} /\ Vouched(v)
  BY <1>1, CatalogParts DEF AssetInv, EntryHolds
<1>4. e.number \in DOMAIN versions'[e.asset]
  BY <1>2, <1>3 DEF Growth
<1>5. /\ versions[e.asset][e.number] \in Version
      /\ Advances(versions[e.asset][e.number], versions'[e.asset][e.number])
  BY <1>2, <1>3, <1>4, Numbered DEF AssetInv, Progress
<1> HIDE DEF e
<1> QED BY <1>3, <1>4, <1>5, AdvanceFacts

\* Codes are never changed in a version, so one that is kept clear of was before.
LEMMA KeptBefore ==
  ASSUME AssetTypeOK, Progress, Growth, NEW i \in Topic, NEW c \in Code, Keeps(i, c)'
  PROVE  Keeps(i, c)
<1>1. ASSUME NEW j \in Topic, NEW k \in DOMAIN versions[j]
      PROVE  versions[j][k].code = c <=> j = i
  <2>1. j \in Asset
    BY DEF Asset
  <2>2. k \in DOMAIN versions'[j]
    BY <2>1 DEF Growth
  <2>3. versions'[j][k].code = c <=> j = i
    BY <2>2 DEF Keeps
  <2>4. versions[j][k] \in Version /\ Advances(versions[j][k], versions'[j][k])
    BY <2>1, <2>2, Numbered DEF Progress
  <2> QED BY <2>3, <2>4, AdvanceFacts
<1> QED BY <1>1 DEF Keeps

LEMMA CodeKept ==
  ASSUME AssetInv, Progress, OnServer => Growth, UNCHANGED store,
         NEW c \in Code, catalog'[c] = catalog[c],
         OnServer => \A i \in Topic : Keeps(i, c) => Actives(i)' = Actives(i)
  PROVE  CodeFollows(c)'
<1>1. SUFFICES ASSUME OnServer, NEW i \in Topic, Keeps(i, c)'
               PROVE  IF Actives(i)' = {} THEN catalog'[c] = NoEntry
                      ELSE /\ catalog'[c] # NoEntry
                           /\ catalog'[c].asset = i
                           /\ catalog'[c].number \in Actives(i)'
  BY DEF CodeFollows, OnServer
<1>2. Keeps(i, c)
  BY <1>1, KeptBefore DEF AssetInv
<1> QED BY <1>1, <1>2, CatalogParts DEF AssetInv, CodeFollows

\* So the catalogue follows while it stays and so does what is active of topics.
LEMMA CatalogKept ==
  ASSUME AssetInv, Progress, OnServer => Growth, UNCHANGED <<store, catalog>>,
         OnServer => \A i \in Topic : Actives(i)' = Actives(i)
  PROVE  CatalogFollowsReviews' /\ CatalogOfServers'
<1>1. \A c \in Code : EntryHolds(c)' /\ CodeFollows(c)'
  BY EntryKept, CodeKept
<1>2. CatalogFollowsReviews'
  BY <1>1 DEF CatalogFollowsReviews, EntryHolds, CodeFollows
<1>3. CatalogOfServers'
  BY DEF AssetInv, CatalogOfServers, OnServer
<1> QED BY <1>2, <1>3

\* Where one code is set, the others follow while the actives of the topics that
\* keep them do.
LEMMA CatalogSet ==
  ASSUME AssetInv, AssetTypeOK', ActiveIsVouchedFor', Progress, Growth, UNCHANGED store,
         OnServer, NEW i \in Topic, NEW k \in DOMAIN versions[i],
         NEW entry \in Entry \cup {NoEntry},
         catalog' = [catalog EXCEPT ![versions[i][k].code] = entry],
         \/ entry = [asset |-> i, number |-> k] /\ Actives(i)' = {k}
         \/ entry = NoEntry /\ Actives(i)' = {},
         \A j \in Asset \ {i} : versions'[j] = versions[j]
  PROVE  CatalogFollowsReviews' /\ CatalogOfServers'
<1> DEFINE cc == versions[i][k].code
<1>1. /\ i \in Asset /\ k \in Nat
      /\ versions[i][k] \in Version
      /\ k \in DOMAIN versions'[i]
      /\ Advances(versions[i][k], versions'[i][k])
  BY Numbered DEF AssetInv, Asset, Progress, Growth
<1>2. versions'[i][k].code = cc
  BY <1>1, AdvanceFacts
<1>3. \A j \in Topic \ {i} : Actives(j)' = Actives(j)
  BY DEF Asset, Actives
<1>4. catalog \in [Code -> Entry \cup {NoEntry}]
  BY DEF AssetInv, AssetTypeOK
<1>5. ASSUME NEW c \in Code, c # cc
      PROVE  EntryHolds(c)' /\ CodeFollows(c)'
  <2>1. catalog'[c] = catalog[c]
    BY <1>4, <1>5
  <2>2. ASSUME NEW j \in Topic, Keeps(j, c) PROVE j # i
    BY <1>5, <2>2 DEF Keeps
  <2> QED BY <1>3, <2>1, <2>2, EntryKept, CodeKept
<1>6. ASSUME NEW c \in Code, c = cc
      PROVE  EntryHolds(c)' /\ CodeFollows(c)'
  <2>1. catalog'[c] = entry
    BY <1>4, <1>6
  <2>2. ASSUME entry # NoEntry
        PROVE  /\ entry = [asset |-> i, number |-> k] /\ Actives(i)' = {k}
               /\ versions'[i][k].status = "active" /\ Vouched(versions'[i][k])
    <3>1. entry = [asset |-> i, number |-> k] /\ Actives(i)' = {k}
      BY <2>2
    <3>2. k \in Actives(i)'
      BY <3>1
    <3> QED BY <1>1, <3>1, <3>2 DEF ActiveIsVouchedFor, Actives, Vouched
  <2>3. EntryHolds(c)'
    <3> DEFINE v == versions'[entry.asset][entry.number]
    <3>1. ASSUME entry # NoEntry
          PROVE  entry.asset = i /\ entry.number = k
      BY <2>2, <3>1
    <3>2. ASSUME entry # NoEntry
          PROVE  /\ entry.number \in DOMAIN versions'[entry.asset]
                 /\ v.code = c /\ v.status \in {"active", "archived"} /\ Vouched(v)
      BY <1>1, <1>2, <1>6, <2>2, <3>1, <3>2
    <3> QED BY <2>1, <3>2 DEF EntryHolds, Vouched
  <2>4. ASSUME NEW j \in Topic, Keeps(j, c)' PROVE j = i
    BY <1>1, <1>2, <1>6, <2>4, KeptBefore DEF AssetInv, Keeps
  <2>5. [asset |-> i, number |-> k] # NoEntry
    BY <1>1, AssetAssumption DEF AssetAssumption
  <2>6. CodeFollows(c)'
    BY <2>1, <2>4, <2>5 DEF CodeFollows
  <2> QED BY <2>3, <2>6
<1>7. ASSUME NEW c \in Code
      PROVE  EntryHolds(c)' /\ CodeFollows(c)'
  BY <1>5, <1>6
<1>8. CatalogFollowsReviews'
  BY <1>7 DEF CatalogFollowsReviews, EntryHolds, CodeFollows
<1> QED BY <1>8 DEF CatalogOfServers, OnServer

-----------------------------------------------------------------------------
LEMMA AssetInitInv == AssetInit => AssetInv
<1>1. SUFFICES ASSUME AssetInit PROVE AssetInv
  OBVIOUS
<1>2. /\ store \in {"postgresql", "mysql", "sqlite"}
      /\ row = [i \in Asset |-> "none"]
      /\ versions = [i \in Asset |-> <<>>]
      /\ catalog = [c \in Code |-> NoEntry]
      /\ pending = {}
  BY <1>1 DEF AssetInit
<1>3. \A i \in Asset : DOMAIN versions[i] = {} /\ Actives(i) = {}
  BY <1>2 DEF Actives
<1>4. AssetTypeOK
  <2>1. versions \in [Asset -> Seq(Version)]
    BY <1>2, EmptySeq
  <2> QED BY <1>2, <2>1 DEF AssetTypeOK
<1>5. ReviewsAreOpen /\ ChosenExists /\ CatalogOfServers /\ ActiveIsVouchedFor
  BY <1>2, <1>3 DEF ReviewsAreOpen, ChosenExists, CatalogOfServers, ActiveIsVouchedFor
<1>6. CatalogFollowsReviews
  BY <1>2, <1>3 DEF CatalogFollowsReviews, Asset
<1> QED BY <1>4, <1>5, <1>6 DEF AssetInv

\* A save, a seed or a proposal.
LEMMA UpsertInv ==
  ASSUME AssetInv, NEW i \in Asset, NEW u \in User,
         NEW status \in {"review", "active"}, NEW c \in Code \cup {NoCode},
         NEW dups \in SUBSET (Experience \ {i}), \A j \in dups : Listed(j),
         Upsert(i, u, status, c, dups),
         status = "active" => ~(i \in Topic /\ OnServer),
         pending' \subseteq pending
  PROVE  AssetInv' /\ Progress /\ Forward
<1>1. AssetTypeOK /\ OneActive
  BY DEF AssetInv, ActiveIsVouchedFor, OneActive
<1>2. /\ versions' \in [Asset -> Seq(Version)]
      /\ Progress /\ Growth /\ OneActive' /\ Forward
      /\ UNCHANGED <<store, catalog>>
      /\ \A j \in Topic : OnServer => Actives(j)' = Actives(j)
      /\ row' \in [Asset -> Status \cup {"none"}]
      /\ \A j \in Asset : row'[j] # "none" => versions'[j] # <<>>
  BY <1>1, UpsertSteps
<1>3. /\ catalog' \in [Code -> Entry \cup {NoEntry}]
      /\ pending' \subseteq Pending
      /\ \A p \in pending' : p \in pending
  BY <1>1, <1>2 DEF AssetTypeOK
<1>4. AssetTypeOK' /\ ReviewsAreOpen' /\ ChosenExists' /\ ActiveIsVouchedFor'
  BY <1>2, <1>3, ProgressInv
<1>5. CatalogFollowsReviews' /\ CatalogOfServers'
  BY <1>2, CatalogKept
<1> QED BY <1>2, <1>4, <1>5 DEF AssetInv

\* A step that leaves items and versions alone.
LEMMA IdleInv ==
  ASSUME AssetInv, UNCHANGED <<store, row, versions, catalog>>, pending' \subseteq Pending,
         store = "postgresql" => \A p \in pending' :
           p \in pending \/ (p.kind = "review" => p.number \in DOMAIN versions[p.asset])
  PROVE  AssetInv' /\ Progress /\ Forward
<1>1. AssetTypeOK /\ OneActive
  BY DEF AssetInv, ActiveIsVouchedFor, OneActive
<1>2. /\ Growth /\ OneActive' /\ \A i \in Asset : Actives(i)' = Actives(i)
      /\ \A i \in Topic : Actives(i)' = Actives(i)
  BY <1>1 DEF Growth, OneActive, Actives, Asset
<1>3. Progress
  BY DEF Progress, Advances
<1>4. Forward
  BY <1>1, <1>2, Numbered DEF Forward, OneActive, Actives
<1>5. AssetTypeOK' /\ ReviewsAreOpen' /\ ChosenExists' /\ ActiveIsVouchedFor'
  <2>1. /\ versions' \in [Asset -> Seq(Version)]
        /\ row' \in [Asset -> Status \cup {"none"}]
        /\ \A i \in Asset : row'[i] # "none" => versions'[i] # <<>>
        /\ catalog' \in [Code -> Entry \cup {NoEntry}]
    BY <1>1 DEF AssetTypeOK
  <2> QED BY <1>2, <1>3, <2>1, ProgressInv
<1>6. CatalogFollowsReviews' /\ CatalogOfServers'
  BY <1>2, <1>3, CatalogKept
<1> QED BY <1>3, <1>4, <1>5, <1>6 DEF AssetInv

LEMMA ReviewInv ==
  ASSUME AssetInv, NEW p \in pending, Review(p)
  PROVE  AssetInv' /\ Progress /\ Forward
<1>1. /\ AssetTypeOK /\ OneActive /\ ChosenExists
      /\ pending' \subseteq pending /\ UNCHANGED store
  BY DEF AssetInv, ActiveIsVouchedFor, OneActive, Review
<1>2. pending' \subseteq Pending /\ \A q \in pending' : q \in pending
  BY <1>1 DEF AssetTypeOK
<1>3. CASE ~Reviewable(p)
  <2>1. UNCHANGED <<store, row, versions, catalog>>
    BY <1>3 DEF Review
  <2> QED BY <1>2, <2>1, IdleInv
<1>4. CASE Reviewable(p)
  <2> DEFINE i == p.asset
             k == Chosen(p)
  <2>1. /\ i \in Asset /\ k \in DOMAIN versions[i]
        /\ versions' \in [Asset -> Seq(Version)]
        /\ Progress /\ Growth /\ OneActive' /\ Forward
        /\ row' \in [Asset -> Status \cup {"none"}]
        /\ \A j \in Asset : row'[j] # "none" => versions'[j] # <<>>
        /\ \A j \in Asset \ {i} : versions'[j] = versions[j]
        /\ p.approve => Actives(i)' = {k} /\ catalog' = PublishedBy(p)
        /\ ~p.approve => Actives(i)' = Actives(i) /\ catalog' = catalog
    BY <1>1, <1>4, ReviewSteps
  <2> HIDE DEF i, k
  <2>2. k \in Nat
    BY <1>1, <2>1, Numbered
  <2>3. CASE p.approve /\ i \in Topic /\ OnServer
    <3> DEFINE entry == [asset |-> i, number |-> k]
    <3>1. entry \in Entry
      BY <2>2, <2>3 DEF Entry
    <3>2. catalog' = [catalog EXCEPT ![versions[i][k].code] = entry]
      BY <2>1, <2>3 DEF PublishedBy, i, k
    <3>3. catalog' \in [Code -> Entry \cup {NoEntry}]
      BY <1>1, <3>1, <3>2 DEF AssetTypeOK
    <3>4. AssetTypeOK' /\ ReviewsAreOpen' /\ ChosenExists' /\ ActiveIsVouchedFor'
      BY <1>1, <1>2, <2>1, <3>3, ProgressInv
    <3> HIDE DEF entry
    <3>5. CatalogFollowsReviews' /\ CatalogOfServers'
      BY <1>1, <2>1, <2>3, <3>1, <3>2, <3>4, CatalogSet DEF entry
    <3> QED BY <2>1, <3>4, <3>5 DEF AssetInv
  <2>4. CASE ~(p.approve /\ i \in Topic /\ OnServer)
    <3>1. catalog' = catalog
      BY <2>1, <2>4 DEF PublishedBy, i
    <3>2. catalog' \in [Code -> Entry \cup {NoEntry}]
      BY <1>1, <3>1 DEF AssetTypeOK
    <3>3. AssetTypeOK' /\ ReviewsAreOpen' /\ ChosenExists' /\ ActiveIsVouchedFor'
      BY <1>1, <1>2, <2>1, <3>2, ProgressInv
    <3>4. OnServer => \A j \in Topic : Actives(j)' = Actives(j)
      BY <2>1, <2>4 DEF Asset, Actives
    <3>5. CatalogFollowsReviews' /\ CatalogOfServers'
      BY <1>1, <2>1, <3>1, <3>4, CatalogKept
    <3> QED BY <2>1, <3>3, <3>5 DEF AssetInv
  <2> QED BY <2>3, <2>4
<1> QED BY <1>3, <1>4

LEMMA DeletionInv ==
  ASSUME AssetInv, NEW i \in Asset, Retire(i) \/ Remove(i)
  PROVE  AssetInv' /\ Progress /\ Forward
<1>1. AssetTypeOK /\ OneActive
  BY DEF AssetInv, ActiveIsVouchedFor, OneActive
<1>2. /\ pending' = pending /\ pending' \subseteq Pending
      /\ \A q \in pending' : q \in pending
  BY <1>1 DEF Retire, Remove, AssetTypeOK
<1>3. /\ versions' \in [Asset -> Seq(Version)]
      /\ Progress /\ (OnServer => Growth) /\ OneActive' /\ Forward
      /\ row' \in [Asset -> Status \cup {"none"}]
      /\ \A j \in Asset : row'[j] # "none" => versions'[j] # <<>>
      /\ \A j \in Asset \ {i} : versions'[j] = versions[j]
      /\ Actives(i)' = {}
      /\ store' = store
  BY <1>1, DeletionSteps
<1>4. CASE Retire(i) /\ i \in Topic
  <2> DEFINE k == Len(versions[i])
  <2>1. OnServer /\ catalog' = [catalog EXCEPT ![versions[i][k].code] = NoEntry] /\ Listed(i)
    BY <1>4 DEF Retire
  <2>2. k \in DOMAIN versions[i]
    BY <1>1, <2>1, Numbered DEF AssetTypeOK, Listed
  <2>3. catalog' \in [Code -> Entry \cup {NoEntry}]
    BY <1>1, <2>1 DEF AssetTypeOK
  <2>4. AssetTypeOK' /\ ReviewsAreOpen' /\ ChosenExists' /\ ActiveIsVouchedFor'
    BY <1>2, <1>3, <2>3, ProgressInv
  <2> HIDE DEF k
  <2>5. CatalogFollowsReviews' /\ CatalogOfServers'
    BY <1>3, <1>4, <2>1, <2>2, <2>4, CatalogSet
  <2> QED BY <1>3, <2>4, <2>5 DEF AssetInv
<1>5. CASE ~(Retire(i) /\ i \in Topic)
  <2>1. catalog' = catalog /\ (OnServer => i \notin Topic)
    BY <1>5 DEF Retire, Remove
  <2>2. catalog' \in [Code -> Entry \cup {NoEntry}]
    BY <1>1, <2>1 DEF AssetTypeOK
  <2>3. AssetTypeOK' /\ ReviewsAreOpen' /\ ChosenExists' /\ ActiveIsVouchedFor'
    BY <1>2, <1>3, <2>2, ProgressInv
  <2>4. OnServer => \A j \in Topic : Actives(j)' = Actives(j)
    BY <1>3, <2>1 DEF Asset, Actives
  <2>5. CatalogFollowsReviews' /\ CatalogOfServers'
    BY <1>3, <2>1, <2>4, CatalogKept
  <2> QED BY <1>3, <2>3, <2>5 DEF AssetInv
<1> QED BY <1>4, <1>5

LEMMA AssetStep ==
  ASSUME AssetInv, [AssetNext]_assetVars
  PROVE  AssetInv' /\ Progress /\ Forward
<1>1. pending \subseteq Pending
  BY DEF AssetInv, AssetTypeOK
<1>2. ASSUME NEW i \in Asset, NEW u \in User, Save(i, u)
      PROVE  AssetInv' /\ Progress /\ Forward
  <2>1. PICK c \in Codes(i), dups \in SUBSET Duplicates(i) :
          Upsert(i, u, IF i \in Skill THEN "active" ELSE "review", c, dups) /\ pending' = pending
    BY <1>2 DEF Save
  <2>2. /\ c \in Code \cup {NoCode} /\ dups \in SUBSET (Experience \ {i})
        /\ \A j \in dups : Listed(j)
    BY DEF Codes, Duplicates
  <2>3. i \in Skill => i \notin Topic
    BY AssetAssumption DEF AssetAssumption
  <2>4. CASE i \in Skill
    BY <2>1, <2>2, <2>3, <2>4, UpsertInv
  <2>5. CASE i \notin Skill
    BY <2>1, <2>2, <2>5, UpsertInv
  <2> QED BY <2>4, <2>5
<1>3. ASSUME NEW i \in Asset, NEW u \in User, Seed(i, u)
      PROVE  AssetInv' /\ Progress /\ Forward
  <2>1. PICK c \in Codes(i), dups \in SUBSET Duplicates(i) :
          /\ i \in Topic => ~OnServer
          /\ Upsert(i, u, "active", c, dups)
          /\ pending' = pending
    BY <1>3 DEF Seed
  <2>2. /\ c \in Code \cup {NoCode} /\ dups \in SUBSET (Experience \ {i})
        /\ \A j \in dups : Listed(j)
    BY DEF Codes, Duplicates
  <2> QED BY <2>1, <2>2, UpsertInv
<1>4. ASSUME NEW i \in Asset, NEW u \in User, Consider(i, u)
      PROVE  AssetInv' /\ Progress /\ Forward
  <2> DEFINE p == [kind |-> "proposal", asset |-> i, number |-> 0, user |-> u, approve |-> FALSE]
  <2>1. pending' = pending \cup {p} /\ UNCHANGED <<store, row, versions, catalog>>
    BY <1>4 DEF Consider
  <2>2. p \in Pending /\ p.kind = "proposal"
    BY DEF Pending
  <2> HIDE DEF p
  <2> QED BY <1>1, <2>1, <2>2, IdleInv
<1>5. ASSUME NEW i \in Asset, NEW u \in User, NEW d \in BOOLEAN, BeginReview(i, u, d)
      PROVE  AssetInv' /\ Progress /\ Forward
  <2> DEFINE p == [kind |-> "review", asset |-> i,
                   number |-> IF store = "postgresql" THEN Len(versions[i]) ELSE 0,
                   user |-> u, approve |-> d]
  <2>1. /\ pending' = pending \cup {p} /\ UNCHANGED <<store, row, versions, catalog>>
        /\ versions[i] # <<>>
    BY <1>5 DEF BeginReview
  <2>2. Len(versions[i]) \in DOMAIN versions[i] /\ Len(versions[i]) \in Nat
    BY <2>1, Numbered DEF AssetInv
  <2>3. /\ p \in Pending
        /\ store = "postgresql" => p.number \in DOMAIN versions[p.asset]
    BY <2>2 DEF Pending
  <2> HIDE DEF p
  <2> QED BY <1>1, <2>1, <2>3, IdleInv
<1>6. ASSUME NEW p \in pending, Propose(p)
      PROVE  AssetInv' /\ Progress /\ Forward
  <2>1. p.asset \in Asset /\ p.user \in User
    BY <1>1 DEF Pending
  <2>2. Upsert(p.asset, p.user, "review", NoCode, {}) /\ pending' = pending \ {p}
    BY <1>6 DEF Propose
  <2>3. pending' \subseteq pending
    BY <2>2
  <2>4. /\ {} \in SUBSET (Experience \ {p.asset}) /\ \A j \in {} : Listed(j)
        /\ NoCode \in Code \cup {NoCode} /\ "review" \in {"review", "active"}
        /\ "review" # "active"
    OBVIOUS
  <2> QED BY <2>1, <2>2, <2>3, <2>4, UpsertInv, Zenon
<1>7. CASE UNCHANGED assetVars
  <2>1. UNCHANGED <<store, row, versions, catalog>> /\ pending' = pending
    BY <1>7 DEF assetVars
  <2> QED BY <1>1, <2>1, IdleInv
<1>8. CASE AssetNext
  BY <1>2, <1>3, <1>4, <1>5, <1>6, <1>8, ReviewInv, DeletionInv DEF AssetNext
<1> QED BY <1>7, <1>8

\* Whatever is saved, seeded, learned, reviewed and deleted in whatever order,
\* each of the invariant's parts holds (upsert_item, review_item, delete_item).
THEOREM AssetInvariance == AssetSpec => []AssetInv
<1>1. AssetInv /\ [AssetNext]_assetVars => AssetInv'
  BY AssetStep
<1> QED BY <1>1, AssetInitInv, PTL DEF AssetSpec

\* Nothing of an asset is in effect but what was published directly or approved
\* by somebody other than its submitter, and one version of it at most.
THEOREM ActiveVouched == AssetSpec => []ActiveIsVouchedFor
<1>1. AssetInv => ActiveIsVouchedFor
  BY DEF AssetInv
<1> QED BY <1>1, AssetInvariance, PTL

\* The catalogue queries run from shows decided content only, and the active
\* version of a topic table that keeps its code to itself.
THEOREM CatalogFollows == AssetSpec => []CatalogFollowsReviews
<1>1. AssetInv => CatalogFollowsReviews
  BY DEF AssetInv
<1> QED BY <1>1, AssetInvariance, PTL

\* Where a review chooses its version under the lock, an earlier version is
\* never put back in place of the active one.
THEOREM VersionsForward == AssetSpec => VersionsMoveForward
<1>1. AssetInv /\ [AssetNext]_assetVars =>
        [store # "postgresql" =>
           \A i \in Asset : \A j \in Actives(i), k \in Actives(i)' : j <= k]_assetVars
  BY AssetStep DEF Forward
<1> QED BY <1>1, AssetInvariance, PTL DEF AssetSpec, VersionsMoveForward

\* A version that was rejected or archived never returns, and who decided about
\* a version stays on record.
DecisionsStay ==
  \A i \in Asset : \A k \in DOMAIN versions[i] \cap DOMAIN versions'[i] :
    LET v == versions[i][k]  w == versions'[i][k] IN
    /\ v.status \in {"rejected", "archived"} => w = v
    /\ v.reviewer # NoUser => w.reviewer = v.reviewer

LEMMA ProgressStays ==
  ASSUME AssetInv, Progress
  PROVE  DecisionsStay
<1>1. ASSUME NEW i \in Asset, NEW k \in DOMAIN versions[i] \cap DOMAIN versions'[i]
      PROVE  LET v == versions[i][k]  w == versions'[i][k] IN
             /\ v.status \in {"rejected", "archived"} => w = v
             /\ v.reviewer # NoUser => w.reviewer = v.reviewer
  <2>1. versions[i][k] \in Version /\ Advances(versions[i][k], versions'[i][k])
    BY Numbered DEF AssetInv, Progress
  <2>2. versions[i][k].status = "review" => versions[i][k].reviewer = NoUser
    BY DEF AssetInv, ReviewsAreOpen
  <2> QED BY <2>1, <2>2, AdvanceFacts
<1> QED BY <1>1 DEF DecisionsStay

\* In no behaviour is a decision about a version undone (review_item).
THEOREM DecisionsKept == AssetSpec => DecisionsStand
<1>1. AssetInv /\ [AssetNext]_assetVars => [DecisionsStay]_assetVars
  BY AssetStep, ProgressStays
<1> QED BY <1>1, AssetInvariance, PTL DEF AssetSpec, DecisionsStand, DecisionsStay

-----------------------------------------------------------------------------
\* OnlyActiveIsServed does not hold: the content handed out of an item is that of
\* its latest version while the active one may be an earlier one.  How much of it
\* the item's row can be asked about: where reviews choose under the lock, the
\* status a listed item shows is that of the version whose content it shows.
RowTells ==
  store # "postgresql" => \A i \in Asset : Listed(i) => Latest(i) = row[i]

\* An upsert gives the new version and the row one status; whatever else it
\* touches it hides.
LEMMA UpsertTells ==
  ASSUME AssetTypeOK, RowTells, NEW i \in Asset, NEW u \in User,
         NEW status \in {"review", "active"}, NEW c \in Code \cup {NoCode},
         NEW dups \in SUBSET (Experience \ {i}),
         Upsert(i, u, status, c, dups)
  PROVE  RowTells'
<1> DEFINE base == IF status = "active" THEN Archive(versions[i], {"active"}) ELSE versions[i]
           new == [status |-> status, by |-> u, direct |-> status = "active",
                   reviewer |-> IF status = "active" /\ OnServer THEN u ELSE NoUser,
                   code |-> c]
<1>1. /\ store' = store
      /\ versions'[i] = Append(base, new)
      /\ row'[i] = status
      /\ \A j \in dups : row'[j] = "archived"
      /\ \A j \in Asset \ ({i} \cup dups) : versions'[j] = versions[j] /\ row'[j] = row[j]
  BY DEF Upsert, Asset, AssetTypeOK
<1>2. base \in Seq(Version)
  BY Numbered, ArchiveFacts
<1>3. new \in Version /\ new.status = status
  BY DEF Version, Status
<1> HIDE DEF base, new
<1>4. versions'[i][Len(versions'[i])].status = row'[i]
  <2>1. Append(base, new)[Len(Append(base, new))] = new
    BY <1>2, <1>3, AppendProperties
  <2> QED BY <1>1, <1>3, <2>1
<1>5. ASSUME store # "postgresql", NEW j \in Asset, row'[j] \notin {"none", "archived"}
      PROVE  versions'[j][Len(versions'[j])].status = row'[j]
  <2>1. CASE j = i
    BY <1>4, <2>1
  <2>2. CASE j # i
    <3>1. versions'[j] = versions[j] /\ row'[j] = row[j]
      BY <1>1, <1>5, <2>2
    <3> QED BY <1>5, <3>1 DEF RowTells, Listed, Latest
  <2> QED BY <2>1, <2>2
<1> QED BY <1>1, <1>5 DEF RowTells, Listed, Latest

\* A review that chooses under the lock decides about the latest version, and
\* the row takes its decision.
LEMMA ReviewTells ==
  ASSUME AssetTypeOK, RowTells, OneActive, ChosenExists, NEW p \in pending, Review(p)
  PROVE  RowTells'
<1>1. CASE ~Reviewable(p)
  <2>1. UNCHANGED <<store, row, versions>>
    BY <1>1 DEF Review
  <2> QED BY <2>1 DEF RowTells, Listed, Latest
<1>2. CASE Reviewable(p) /\ store # "postgresql"
  <2> DEFINE i == p.asset
             k == Len(versions[i])
             status == IF p.approve THEN "active" ELSE "rejected"
             base == IF p.approve THEN Archive(versions[i], {"active"}) ELSE versions[i]
             after == Decide(base, k, status, p.user)
  <2>1. Chosen(p) = k /\ i \in Asset /\ p.user \in User /\ store' = store
    BY <1>2 DEF Chosen, AssetTypeOK, Pending, Review
  <2>2. /\ versions[i] \in Seq(Version)
        /\ k \in DOMAIN versions[i] /\ DOMAIN versions[i] = 1..k /\ k \in Nat
    BY <1>2, <2>1, Numbered DEF Reviewable
  <2>3. versions' = [versions EXCEPT ![i] = after] /\ row' = [row EXCEPT ![i] = status]
    BY <1>2, <2>1 DEF Review, Decide
  <2>4. base \in Seq(Version) /\ DOMAIN base = DOMAIN versions[i]
    BY <2>2, ArchiveFacts
  <2>5. status \in {"active", "rejected"}
    OBVIOUS
  <2> HIDE DEF base, status
  <2>6. /\ after \in Seq(Version) /\ DOMAIN after = DOMAIN versions[i]
        /\ after[k] = Decided(base[k], status, p.user)
    BY <2>1, <2>2, <2>4, <2>5, DecideFacts
  <2>7. Decided(base[k], status, p.user).status = status
    <3>1. base[k] \in Version
      BY <2>2, <2>4, ElementOfSeq
    <3> QED BY <3>1 DEF Decided, Version
  <2> HIDE DEF after
  <2>8. Len(after) = k
    BY <2>2, <2>6, LenProperties
  <2>9. /\ versions'[i] = after /\ row'[i] = status
        /\ \A j \in Asset \ {i} : versions'[j] = versions[j] /\ row'[j] = row[j]
    BY <2>1, <2>3 DEF AssetTypeOK
  <2>10. after[Len(after)].status = status
    BY <2>6, <2>7, <2>8
  <2> HIDE DEF i, k
  <2>11. ASSUME NEW j \in Asset, row'[j] \notin {"none", "archived"}
         PROVE  versions'[j][Len(versions'[j])].status = row'[j]
    <3>1. CASE j = i
      BY <2>9, <2>10, <3>1
    <3>2. CASE j # i
      BY <1>2, <2>9, <2>11, <3>2 DEF RowTells, Listed, Latest
    <3> QED BY <3>1, <3>2
  <2> QED BY <2>11 DEF RowTells, Listed, Latest
<1>3. CASE store = "postgresql"
  BY <1>3 DEF Review, RowTells
<1> QED BY <1>1, <1>2, <1>3

\* A deletion hides what it touches.
LEMMA DeletionTells ==
  ASSUME AssetTypeOK, RowTells, NEW i \in Asset, Retire(i) \/ Remove(i)
  PROVE  RowTells'
<1>1. /\ store' = store
      /\ row'[i] \in {"none", "archived"}
      /\ \A j \in Asset \ {i} : versions'[j] = versions[j] /\ row'[j] = row[j]
  BY DEF Retire, Remove, AssetTypeOK
<1> QED BY <1>1 DEF RowTells, Listed, Latest

LEMMA RowTellsStep ==
  ASSUME AssetInv, RowTells, [AssetNext]_assetVars
  PROVE  RowTells'
<1>1. AssetTypeOK /\ OneActive /\ ChosenExists /\ pending \subseteq Pending
  BY DEF AssetInv, AssetTypeOK, ActiveIsVouchedFor, OneActive
<1>2. ASSUME NEW i \in Asset, NEW u \in User, Save(i, u) \/ Seed(i, u)
      PROVE  RowTells'
  <2>1. PICK status \in {"review", "active"}, c \in Codes(i), dups \in SUBSET Duplicates(i) :
          Upsert(i, u, status, c, dups)
    BY <1>2 DEF Save, Seed
  <2>2. c \in Code \cup {NoCode} /\ dups \in SUBSET (Experience \ {i})
    BY DEF Codes, Duplicates
  <2> QED BY <1>1, <2>1, <2>2, UpsertTells
<1>3. ASSUME NEW p \in pending, Propose(p)
      PROVE  RowTells'
  <2>1. p.asset \in Asset /\ p.user \in User
    BY <1>1 DEF Pending
  <2>2. Upsert(p.asset, p.user, "review", NoCode, {})
    BY <1>3 DEF Propose
  <2>3. /\ "review" \in {"review", "active"} /\ NoCode \in Code \cup {NoCode}
        /\ {} \in SUBSET (Experience \ {p.asset})
    OBVIOUS
  <2> QED BY <1>1, <2>1, <2>2, <2>3, UpsertTells, Zenon
<1>4. ASSUME UNCHANGED <<store, row, versions>>
      PROVE  RowTells'
  BY <1>4 DEF RowTells, Listed, Latest
<1>5. ASSUME NEW i \in Asset, NEW u \in User,
             Consider(i, u) \/ \E d \in BOOLEAN : BeginReview(i, u, d)
      PROVE  RowTells'
  BY <1>4, <1>5 DEF Consider, BeginReview
<1>6. CASE UNCHANGED assetVars
  BY <1>4, <1>6 DEF assetVars
<1>7. CASE AssetNext
  BY <1>1, <1>2, <1>3, <1>5, <1>7, ReviewTells, DeletionTells DEF AssetNext
<1> QED BY <1>6, <1>7

\* On MySQL and SQLite a listed item shows the status of its latest version, and
\* one that shows itself active is handed out with the content of its active
\* version.  On PostgreSQL, where the approval of a version chosen by snapshot
\* may make the row active over a later draft, no row can be asked (review_item,
\* list_published_bundle).
THEOREM ListedStatusIsTheLatest ==
  AssetSpec => [](store # "postgresql" =>
                    \A i \in Asset :
                      /\ Listed(i) => Latest(i) = row[i]
                      /\ row[i] = "active" => Served(i) \subseteq Actives(i))
<1>1. AssetInit => RowTells
  BY DEF AssetInit, RowTells, Listed
<1>2. AssetInv /\ RowTells /\ [AssetNext]_assetVars => RowTells'
  BY RowTellsStep
<1>3. ASSUME AssetInv, RowTells, store # "postgresql", NEW i \in Asset
      PROVE  /\ Listed(i) => Latest(i) = row[i]
             /\ row[i] = "active" => Served(i) \subseteq Actives(i)
  <2>1. Listed(i) => Latest(i) = row[i]
    BY <1>3 DEF RowTells
  <2>2. ASSUME row[i] = "active" PROVE Len(versions[i]) \in Actives(i)
    <3>1. Listed(i) /\ versions[i] # <<>>
      BY <1>3, <2>2 DEF Listed, AssetInv, AssetTypeOK
    <3>2. Len(versions[i]) \in DOMAIN versions[i]
      BY <1>3, <3>1, Numbered DEF AssetInv
    <3> QED BY <2>1, <2>2, <3>1, <3>2 DEF Latest, Actives
  <2>3. row[i] = "active" => Served(i) \subseteq Actives(i)
    BY <2>2 DEF Served
  <2> QED BY <2>1, <2>3
<1>4. AssetInv /\ RowTells =>
        (store # "postgresql" =>
           \A i \in Asset :
             /\ Listed(i) => Latest(i) = row[i]
             /\ row[i] = "active" => Served(i) \subseteq Actives(i))
  BY <1>3
<1> QED BY <1>1, <1>2, <1>4, AssetInvariance, PTL DEF AssetSpec
=============================================================================
