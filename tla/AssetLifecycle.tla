--------------------------- MODULE AssetLifecycle ---------------------------
(***************************************************************************)
(* The data assets of one tenant: items, their numbered versions, and the  *)
(* catalogue of published topic tables.  A version is submitted for review *)
(* or, for runtime configuration and defaults, published at once; the      *)
(* latest version is approved or rejected by another user.                 *)
(*                                                                         *)
(* A server's upsert, review and deletion each lock the item.  A review on *)
(* PostgreSQL chooses the latest version by the snapshot its SELECT began  *)
(* with and waits for the lock afterwards; MySQL's locking read and the    *)
(* SQLite twin, whose connection one thread uses at a time, choose when    *)
(* they have the lock.  Automatic learning reads the assets first and      *)
(* submits its proposal in a transaction of its own.                       *)
(*                                                                         *)
(* The content of a version is told by its number; an item's row holds the *)
(* content of its latest version, which every upsert writes to both.       *)
(***************************************************************************)
EXTENDS Users, Integers, Sequences, FiniteSets, Functions

CONSTANTS
  Skill,        \* RUNTIME_CONFIGURATION_ASSET_TYPES: saved without a review
  Topic,        \* topic tables
  Experience,   \* analysis experiences, merged with their like
  Code,         \* codes of topic tables
  NoCode, NoEntry,
  MaxVersions,  \* bound: versions there are at a time
  MaxBegun      \* bound: versions and requests there are when a request begins

Asset == Skill \cup Topic \cup Experience

ASSUME AssetAssumption ==
  /\ Skill \cap Topic = {}
  /\ Experience \cap (Skill \cup Topic) = {}
  /\ NoEntry \notin [asset : Topic, number : Nat]

VARIABLES
  store,     \* "postgresql", "mysql" or "sqlite"
  row,       \* status of each item's row; "none" without a row
  versions,  \* its versions, numbered from 1
  catalog,   \* platform_topic_tables: the version published under a code
  pending    \* reviews and learned proposals that have read and not yet written

assetVars == <<store, row, versions, catalog, pending>>

OnServer == store # "sqlite"
Status == {"review", "active", "rejected", "archived"}
Version == [status : Status, by : User, direct : BOOLEAN,
            reviewer : User \cup {NoUser}, code : Code \cup {NoCode}]
Entry == [asset : Topic, number : Nat]
Pending == [kind : {"review", "proposal"}, asset : Asset, number : Nat, user : User,
            approve : BOOLEAN]

AssetTypeOK ==
  /\ store \in {"postgresql", "mysql", "sqlite"}
  /\ row \in [Asset -> Status \cup {"none"}]
  /\ versions \in [Asset -> Seq(Version)]
  /\ \A i \in Asset : row[i] # "none" => versions[i] # <<>>
  /\ catalog \in [Code -> Entry \cup {NoEntry}]
  /\ pending \subseteq Pending

AssetInit ==
  /\ store \in {"postgresql", "mysql", "sqlite"}
  /\ row = [i \in Asset |-> "none"]
  /\ versions = [i \in Asset |-> <<>>]
  /\ catalog = [c \in Code |-> NoEntry]
  /\ pending = {}

\* Whether list_bundle and get_item show the item, and the status they give it.
Listed(i) == row[i] \notin {"none", "archived"}
Latest(i) == versions[i][Len(versions[i])].status
Actives(i) == {k \in DOMAIN versions[i] : versions[i][k].status = "active"}

Archive(vs, which) ==
  [k \in DOMAIN vs |-> IF vs[k].status \in which THEN [vs[k] EXCEPT !.status = "archived"] ELSE vs[k]]

\* The items an upsert of i may find to be duplicates of it (prepare_asset_fusion):
\* experiences with the topic and action of i.  The list is read before the
\* transaction, so i may have left it since and duplicates may be missed.
Duplicates(i) == IF i \in Experience THEN {j \in Experience \ {i} : Listed(j)} ELSE {}

VersionCount == FoldFunction(+, 0, [i \in Asset |-> Len(versions[i])])

\* upsert_item: u submits content with code c as the next version of i, for
\* review or as the active version; duplicates of i are archived with all that
\* is open of them.
Upsert(i, u, status, c, dups) ==
  /\ VersionCount < MaxVersions
  /\ versions' = [j \in Asset |->
       IF j = i
       THEN Append(IF status = "active" THEN Archive(versions[i], {"active"}) ELSE versions[i],
                   [status |-> status, by |-> u, direct |-> status = "active",
                    reviewer |-> IF status = "active" /\ OnServer THEN u ELSE NoUser,
                    code |-> c])
       ELSE IF j \in dups THEN Archive(versions[j], {"review", "active"}) ELSE versions[j]]
  /\ row' = [j \in Asset |-> IF j = i THEN status ELSE IF j \in dups THEN "archived" ELSE row[j]]
  /\ catalog' = IF status = "active" /\ i \in Topic /\ OnServer
                THEN [catalog EXCEPT ![c] = [asset |-> i, number |-> Len(versions[i]) + 1]]
                ELSE catalog
  /\ UNCHANGED store

Codes(i) == IF i \in Topic THEN Code ELSE {NoCode}

\* A maintainer saves an asset.
Save(i, u) ==
  \E c \in Codes(i), dups \in SUBSET Duplicates(i) :
    /\ Upsert(i, u, IF i \in Skill THEN "active" ELSE "review", c, dups)
    /\ UNCHANGED pending

\* The platform's catalogue is put in place for a tenant: skills and
\* experiences that are missing or not active, and on SQLite the default topic
\* tables as well, also those whose metadata the code has changed.
Seed(i, u) ==
  \E c \in Codes(i), dups \in SUBSET Duplicates(i) :
    /\ i \in Topic => ~OnServer
    /\ i \notin Topic => ~(Listed(i) /\ Latest(i) = "active")
    /\ Upsert(i, u, "active", c, dups)
    /\ UNCHANGED pending

\* Learning from u's work reads a skill, of which no version may be waiting ...
Consider(i, u) ==
  /\ i \in Skill
  /\ ~(Listed(i) /\ Latest(i) = "review")
  /\ VersionCount + Cardinality(pending) < MaxBegun
  /\ pending' = pending \cup
       {[kind |-> "proposal", asset |-> i, number |-> 0, user |-> u, approve |-> FALSE]}
  /\ UNCHANGED <<store, row, versions, catalog>>

\* ... and proposes a new or improved one for review, in u's name.
Propose(p) ==
  /\ p \in pending
  /\ p.kind = "proposal"
  /\ Upsert(p.asset, p.user, "review", NoCode, {})
  /\ pending' = pending \ {p}

\* A request to review i begins: on PostgreSQL its SELECT chooses the version.
\* One that names the version it has seen (expected_version) is refused, and
\* changes nothing, when that is not the one chosen; nor does one that finds
\* nothing to decide.
BeginReview(i, u, d) ==
  /\ versions[i] # <<>>
  /\ Latest(i) = "review"
  /\ VersionCount + Cardinality(pending) < MaxBegun
  /\ pending' = pending \cup
       {[kind |-> "review", asset |-> i,
        number |-> IF store = "postgresql" THEN Len(versions[i]) ELSE 0,
        user |-> u, approve |-> d]}
  /\ UNCHANGED <<store, row, versions, catalog>>

\* As Chosen, with the versions in ascending order.
ChosenFirst(p) == 1

\* The version a review is about once it has its lock.
Chosen(p) == IF store = "postgresql" THEN p.number ELSE Len(versions[p.asset])

\* As Reviewable, without the four eyes.
ReviewableByAnyone(p) ==
  /\ versions[p.asset] # <<>>
  /\ versions[p.asset][Chosen(p)].status = "review"
  /\ ~OnServer => row[p.asset] = "review"

\* As Reviewable, for a version in any status.
ReviewableAgain(p) ==
  /\ versions[p.asset] # <<>>
  /\ versions[p.asset][Chosen(p)].by # p.user

Reviewable(p) ==
  /\ versions[p.asset] # <<>>
  /\ versions[p.asset][Chosen(p)].status = "review"
  /\ ~OnServer => row[p.asset] = "review"
  /\ versions[p.asset][Chosen(p)].by # p.user

\* As PublishedBy, with the code and the number of the item's row.
PublishedFromRow(p) ==
  LET i == p.asset IN
  IF i \in Topic /\ OnServer
  THEN [catalog EXCEPT ![versions[i][Len(versions[i])].code] =
          [asset |-> i, number |-> Len(versions[i])]]
  ELSE catalog

\* The catalogue after an approval (_publish_topic_table).
PublishedBy(p) ==
  LET i == p.asset IN
  IF i \in Topic /\ OnServer
  THEN [catalog EXCEPT ![versions[i][Chosen(p)].code] = [asset |-> i, number |-> Chosen(p)]]
  ELSE catalog

\* review_item: the chosen version becomes active in place of the one that was,
\* or is rejected; the item's row takes the decision's status either way.
Review(p) ==
  LET i == p.asset
      k == Chosen(p)
      Decided(vs, status) == [vs EXCEPT ![k].status = status, ![k].reviewer = p.user]
  IN
  /\ p \in pending
  /\ p.kind = "review"
  /\ pending' = pending \ {p}
  /\ \/ /\ ~Reviewable(p)
        /\ UNCHANGED <<row, versions, catalog>>
     \/ /\ Reviewable(p)
        /\ p.approve
        /\ versions' = [versions EXCEPT ![i] = Decided(Archive(@, {"active"}), "active")]
        /\ row' = [row EXCEPT ![i] = "active"]
        /\ catalog' = PublishedBy(p)
     \/ /\ Reviewable(p)
        /\ ~p.approve
        /\ versions' = [versions EXCEPT ![i] = Decided(@, "rejected")]
        /\ row' = [row EXCEPT ![i] = "rejected"]
        /\ UNCHANGED catalog
  /\ UNCHANGED store

\* delete_item on a server: a version under review stays, and the topic table
\* is looked for by the code of the item's row.
Retire(i) ==
  /\ OnServer
  /\ Listed(i)
  /\ row' = [row EXCEPT ![i] = "archived"]
  /\ versions' = [versions EXCEPT ![i] = Archive(@, {"active"})]
  /\ catalog' = IF i \in Topic
                THEN [catalog EXCEPT ![versions[i][Len(versions[i])].code] = NoEntry]
                ELSE catalog
  /\ UNCHANGED <<store, pending>>

\* delete_item on SQLite: the row goes, and its versions with it (ON DELETE CASCADE).
Remove(i) ==
  /\ ~OnServer
  /\ row[i] # "none"
  /\ row' = [row EXCEPT ![i] = "none"]
  /\ versions' = [versions EXCEPT ![i] = <<>>]
  /\ UNCHANGED <<store, catalog, pending>>

AssetNext ==
  \/ \E i \in Asset :
       \/ \E u \in User :
            \/ Save(i, u)
            \/ Seed(i, u)
            \/ Consider(i, u)
            \/ \E d \in BOOLEAN : BeginReview(i, u, d)
       \/ Retire(i)
       \/ Remove(i)
  \/ \E p \in pending : Propose(p) \/ Review(p)

AssetSpec == AssetInit /\ [][AssetNext]_assetVars

-----------------------------------------------------------------------------
\* What is in effect of an asset is one version at most, and nobody's draft takes
\* effect on its own: whatever is saved, seeded, learned and approved in whatever
\* order, the active version was published directly, as configuration or default,
\* or approved by somebody other than its submitter; a learned proposal only ever
\* by approval (upsert_item and review_item).
Vouched(v) == v.direct \/ v.reviewer \in User \ {v.by}
ActiveIsVouchedFor ==
  \A i \in Asset : \A j, k \in Actives(i) : j = k /\ Vouched(versions[i][k])

\* All topic tables but i keep clear of code c, and i has no other.
Keeps(i, c) ==
  \A j \in Topic : \A k \in DOMAIN versions[j] : (versions[j][k].code = c) <=> (j = i)

\* The catalogue queries run from shows decided content only: the entry of a
\* code is a version with that code that was approved or published directly;
\* and while codes are neither changed nor shared it is the active version,
\* there exactly as long as there is one.
CatalogFollowsReviews ==
  \A c \in Code :
    LET e == catalog[c] IN
    /\ e # NoEntry =>
         /\ e.number \in DOMAIN versions[e.asset]
         /\ LET v == versions[e.asset][e.number] IN
              v.code = c /\ v.status \in {"active", "archived"} /\ Vouched(v)
    /\ OnServer => \A i \in Topic : Keeps(i, c) =>
         IF Actives(i) = {} THEN e = NoEntry
         ELSE e # NoEntry /\ e.asset = i /\ e.number \in Actives(i)

\* Where a review chooses its version under the lock, the active version is
\* never replaced by an earlier one.  On PostgreSQL it may be, by the approval
\* of a version chosen before a later one was published.
VersionsMoveForward ==
  [][store # "postgresql" =>
       \A i \in Asset : \A j \in Actives(i), k \in Actives(i)' : j <= k]_assetVars

\* A version that was rejected or archived never returns, and who decided about
\* a version stays on record, for as long as the version exists.
DecisionsStand ==
  [][\A i \in Asset : \A k \in DOMAIN versions[i] \cap DOMAIN versions'[i] :
       LET v == versions[i][k]  w == versions'[i][k] IN
       /\ v.status \in {"rejected", "archived"} => w = v
       /\ v.reviewer # NoUser => w.reviewer = v.reviewer]_assetVars

\* What list_published_bundle hands out of an asset with an active version: on
\* a server the content of the item's row, on SQLite that of the version.
Served(i) == IF OnServer THEN {Len(versions[i])} ELSE Actives(i)

\* "Only active Skills enter the next analysis" (hermes_learning_extension.md).
\* What is handed out as published is the content of an active version.
OnlyActiveIsServed == \A i \in Asset : Actives(i) # {} => Served(i) \subseteq Actives(i)
=============================================================================
