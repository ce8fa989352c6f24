------------------------------- MODULE Registry -------------------------------
(***************************************************************************)
(* The portfolio registry (backend/app/routers/portfolio_registry.py): a   *)
(* tenant's sites and assets.  Handlers run in the threadpool.  A creation *)
(* looks for what its row would clash with and inserts at its commit: no   *)
(* lock and no unique key stands between.  A patch checks nothing.         *)
(*                                                                         *)
(* Abstractions: a name is a value; ratings and battery specifications are *)
(* in module Planning, here a specification is sound or not; the portfolio *)
(* row a first site makes is a count.                                      *)
(***************************************************************************)
EXTENDS Integers, FiniteSets

CONSTANTS Entries,      \* the asset rows that may be made
          SiteRows,     \* the site rows that may be made
          Labels,       \* names
          AssetKinds    \* asset_type

ASSUME RegistryAssumption ==
  /\ "grid_interconnection" \in AssetKinds /\ "battery" \in AssetKinds
  /\ Entries \intersect SiteRows = {}

VARIABLES asset,        \* Asset rows, with what the insert had seen
          site,         \* Site rows, likewise
          portfolios,   \* number of Portfolio rows
          drafting,     \* creations between check and commit
          touched       \* history: assets renamed or brought back by a patch

registryVars == <<asset, site, portfolios, drafting, touched>>

Blank == [state |-> "none", kind |-> "none", name |-> "none", saw |-> {}]

RegistryInit ==
  /\ asset = [e \in Entries |-> Blank] /\ site = [s \in SiteRows |-> Blank]
  /\ portfolios = 0
  /\ drafting = [x \in Entries \union SiteRows |-> [on |-> FALSE]]
  /\ touched = {}

InService == {e \in Entries : asset[e].state = "active"}
Known == {s \in SiteRows : site[s].state = "active"}

(* Mutant: the second grid interconnection is not looked for.              *)
MayCreateAnyGrid(kind, name, spec) ==
  /\ spec = IF kind = "battery" THEN "sound" ELSE "none"
  /\ \A e \in InService : asset[e].name # name

(* create_asset: every refusal.  The specification of a battery is sound   *)
(* when its state-of-charge limits are in order and its power is within the *)
(* rated capacity; any other kind of asset has none.                       *)
MayCreate(kind, name, spec) ==
  /\ spec = IF kind = "battery" THEN "sound" ELSE "none"
  /\ \A e \in InService : asset[e].name # name
  /\ kind = "grid_interconnection" =>
       \A e \in InService : asset[e].kind # "grid_interconnection"

DraftAsset(e) ==
  /\ asset[e].state = "none" /\ ~drafting[e].on
  /\ \E s \in Known, kind \in AssetKinds, name \in Labels, spec \in {"none", "sound", "unsound"} :
       /\ MayCreate(kind, name, spec)
       /\ drafting' = [drafting EXCEPT ![e] =
            [on |-> TRUE, row |-> [state |-> "active", kind |-> kind, name |-> name,
                                   saw |-> InService]]]
  /\ UNCHANGED <<asset, site, portfolios, touched>>

CommitAsset(e) ==
  /\ drafting[e].on
  /\ asset' = [asset EXCEPT ![e] = drafting[e].row]
  /\ drafting' = [drafting EXCEPT ![e] = [on |-> FALSE]]
  /\ UNCHANGED <<site, portfolios, touched>>

(* create_site: the first one makes the portfolio.                         *)
DraftSite(s) ==
  /\ site[s].state = "none" /\ ~drafting[s].on
  /\ \E name \in Labels :
       /\ \A k \in Known : site[k].name # name
       /\ drafting' = [drafting EXCEPT ![s] =
            [on |-> TRUE, first |-> portfolios = 0,
             row |-> [state |-> "active", kind |-> "site", name |-> name, saw |-> Known]]]
  /\ UNCHANGED <<asset, site, portfolios, touched>>

CommitSite(s) ==
  /\ drafting[s].on
  /\ site' = [site EXCEPT ![s] = drafting[s].row]
  /\ portfolios' = portfolios + IF drafting[s].first THEN 1 ELSE 0
  /\ drafting' = [drafting EXCEPT ![s] = [on |-> FALSE]]
  /\ UNCHANGED <<asset, touched>>

(* The commit fails or the process dies.                                   *)
DraftLost(x) ==
  /\ drafting[x].on
  /\ drafting' = [drafting EXCEPT ![x] = [on |-> FALSE]]
  /\ UNCHANGED <<asset, site, portfolios, touched>>

(* update_asset: rename, retire, bring back.                               *)
PatchAsset(e) ==
  /\ asset[e].state # "none"
  /\ \/ /\ \E name \in Labels \ {asset[e].name} : asset' = [asset EXCEPT ![e].name = name]
        /\ touched' = touched \union {e}
     \/ /\ asset[e].state = "active"
        /\ asset' = [asset EXCEPT ![e].state = "retired"]
        /\ UNCHANGED touched
     \/ /\ asset[e].state = "retired"
        /\ asset' = [asset EXCEPT ![e].state = "active"]
        /\ touched' = touched \union {e}
  /\ UNCHANGED <<site, portfolios, drafting>>

RegistryNext ==
  \/ \E e \in Entries : DraftAsset(e) \/ CommitAsset(e) \/ PatchAsset(e)
  \/ \E s \in SiteRows : DraftSite(s) \/ CommitSite(s)
  \/ \E x \in Entries \union SiteRows : DraftLost(x)

RegistrySpec == RegistryInit /\ [][RegistryNext]_registryVars

-----------------------------------------------------------------------------
Overlapped(rows, a, b) == a \notin rows[b].saw /\ b \notin rows[a].saw

(* create_asset: "the optimizer plans against exactly one grid             *)
(* interconnection", and it takes whichever of them comes first.  Two that *)
(* are in service together, or two assets in service of one name, mean that *)
(* one of the two was brought back or renamed by a patch, or that their    *)
(* creations overlapped; two sites of one name, or two portfolios, that the *)
(* creations of two sites did.                                             *)
OneGrid ==
  /\ \A a, b \in InService :
       (a # b /\ ( \/ asset[a].name = asset[b].name
                   \/ asset[a].kind = "grid_interconnection" /\ asset[b].kind = asset[a].kind))
         => a \in touched \/ b \in touched \/ Overlapped(asset, a, b)
  /\ \A s, t \in Known : (s # t /\ site[s].name = site[t].name) => Overlapped(site, s, t)
  /\ portfolios > 1 => \E s, t \in Known : s # t /\ Overlapped(site, s, t)
=============================================================================
