------------------------------- MODULE Assets -------------------------------
(***************************************************************************)
(* The asset register: assets with their place, parent and type, the       *)
(* places (dbo.Locations), the types, and the on-site verification stamp.  *)
(*                                                                         *)
(* Every write is one transaction that locks its OWN row (UPDLOCK), reads  *)
(* the rows it refers to without a lock, and then writes.  A call is       *)
(* therefore two steps here, Begin (the reads and the checks) and Commit   *)
(* (the write); AtOnce is a call that met no other.  What a call read of   *)
(* its own row is still true when it writes; what it read of another row   *)
(* need not be.                                                            *)
(*                                                                         *)
(* A call changes one field.  Names, makes, serials and notes are left     *)
(* out: the place and the type stand for the fields that identify an asset.*)
(* So are asset tags: a tag that is taken only refuses the call, before    *)
(* the write or by the unique index.                                       *)
(***************************************************************************)
EXTENDS Naturals, FiniteSets

CONSTANTS
    AssetIds,       \* rows of dbo.Assets
    Places,         \* rows of dbo.Locations of the building
    Categories,     \* ASSET_CATEGORIES
    Clerks          \* callers inside a transaction

ASSUME AssetsConstants == Categories # {}

VARIABLES
    assets,         \* asset -> its row
    places,         \* place -> "none", "on" (active) or "off"
    kind,           \* the asset type: its category and whether it is active
    calls           \* clerk -> the call between its reads and its write

assetVars == <<assets, places, kind, calls>>

Unset == "none"
NoAsset == [state |-> Unset, place |-> Unset, parent |-> Unset,
            cat |-> CHOOSE c \in Categories : TRUE, typed |-> FALSE,
            seen |-> {}]
NoCall == [op |-> Unset, of |-> Unset, to |-> Unset, stamp |-> Unset]

LiveAsset(a) == assets[a].state = "live"

\* VERIFICATION_IDENTITY_FIELDS: what a verification vouches for.
Identity(row) == <<row.place, row.cat, row.typed>>

AssetsInit ==
    /\ assets = [a \in AssetIds |-> NoAsset]
    /\ places = [p \in Places |-> Unset]
    /\ kind = [cat |-> CHOOSE c \in Categories : TRUE, active |-> TRUE]
    /\ calls = [k \in Clerks |-> NoCall]

-----------------------------------------------------------------------------
(* The calls, as [op, of, to]: the operation, the row it locks and the new *)
(* value.  stamp is decided at the read.                                   *)

Call(op, of, to) == [op |-> op, of |-> of, to |-> to, stamp |-> Unset]

Upserts ==
    {Call("create", a, p) : a \in AssetIds, p \in Places \union {Unset}}
    \union {Call("place", a, p) : a \in AssetIds, p \in Places \union {Unset}}
    \union {Call("parent", a, b) : a \in AssetIds, b \in AssetIds \union {Unset}}
    \union {Call("type", a, t) : a \in AssetIds, t \in {"on", "off"}}
    \union {Call("category", a, c) : a \in AssetIds, c \in Categories}
    \union {Call("confirm", a, Unset) : a \in AssetIds}
Others ==
    {Call(op, a, Unset) : op \in {"archive", "restore", "verify"},
                           a \in AssetIds}
    \union {Call("active", p, b) : p \in Places, b \in {"on", "off"}}
    \union {Call("move", "type", c) : c \in Categories}
    \union {Call("retire", "type", b) : b \in {"on", "off"}}

\* fetchAsset, fetchLocation and fetchAssetType with forUpdate.
UnlockedAlways(c) == TRUE
Unlocked(c) == \A k \in Clerks : calls[k].of # c.of

-----------------------------------------------------------------------------
(* What the checks of a call require of the rows as it reads them.         *)

(* assetParentWouldCycle: the walk up from the new parent, here over as    *)
(* many generations as there are assets.                                   *)
Ancestors(a) ==
    LET up[n \in 0 .. Cardinality(AssetIds)] ==
          IF n = 0 THEN {a}
          ELSE up[n - 1] \union {assets[b].parent : b \in up[n - 1] \ {Unset}}
    IN up[Cardinality(AssetIds)] \ {Unset}

\* checkReferences: the place is active.
PlaceFits(p) == p # Unset => places[p] = "on"

\* The parent is live, is not the asset and is not below it.
ParentFits(a, b) ==
    b # Unset => /\ b # a /\ LiveAsset(b)
                  /\ a \notin Ancestors(b)

\* The type is of the asset's category, and active when newly chosen.
TypeFits(a, typed, cat) ==
    typed => /\ kind.cat = cat
             /\ ~assets[a].typed => kind.active

UpsertFits(c) ==
    LET row == assets[c.of]
    IN CASE c.op = "create" -> row.state = Unset /\ PlaceFits(c.to)
         [] c.op = "place" -> c.to # row.place => PlaceFits(c.to)
         [] c.op = "parent" -> c.to # row.parent => ParentFits(c.of, c.to)
         [] c.op = "type" -> TypeFits(c.of, c.to = "on", row.cat)
         [] c.op = "category" -> c.to # row.cat => TypeFits(c.of, row.typed, c.to)
         [] OTHER -> TRUE

\* archiveRow: no live component hangs off the asset.
NoLiveComponent(a) ==
    \A b \in AssetIds : LiveAsset(b) => assets[b].parent # a

\* restoreBlocker: its parent is live and its place active.
RestoreFits(a) ==
    /\ assets[a].parent # Unset => LiveAsset(assets[a].parent)
    /\ PlaceFits(assets[a].place)

(* updateLocation: a place in use by a live asset stays active.  A place   *)
(* is created active, without a parent.                                    *)
PlaceIsFree(p) == \A a \in AssetIds : LiveAsset(a) => assets[a].place # p

\* updateAssetType: a type in use, by any asset, keeps its category.
TypeIsFree == \A a \in AssetIds : ~assets[a].typed

FieldsFit(c) ==
    CASE c.op = "archive" -> LiveAsset(c.of) /\ NoLiveComponent(c.of)
      [] c.op = "restore" -> assets[c.of].state = "archived" /\ RestoreFits(c.of)
      [] c.op = "verify" -> LiveAsset(c.of)
      [] c.op = "active" -> /\ places[c.of] # c.to
                           /\ c.to = "off" => /\ places[c.of] = "on"
                                              /\ PlaceIsFree(c.of)
      [] c.op = "move" -> kind.cat # c.to /\ TypeIsFree
      [] c.op = "retire" -> kind.active # (c.to = "on")
      [] c.op = "create" -> UpsertFits(c)
      [] OTHER -> LiveAsset(c.of) /\ UpsertFits(c)

-----------------------------------------------------------------------------
(* What a call writes.                                                     *)

\* The row an upsert leaves, before its verification stamp.
Changed(row, c) ==
    CASE c.op = "create" -> [NoAsset EXCEPT !.state = "live", !.place = c.to]
      [] c.op = "place" -> [row EXCEPT !.place = c.to]
      [] c.op = "parent" -> [row EXCEPT !.parent = c.to]
      [] c.op = "type" -> [row EXCEPT !.typed = (c.to = "on")]
      [] c.op = "category" -> [row EXCEPT !.cat = c.to]
      [] OTHER -> row

(* resolveVerification, from the row as read: the caller vouches for it;   *)
(* a verified asset whose identity moves is verified no more; else the     *)
(* columns are not written.                                                *)
ResolveVerification(c) ==
    LET row == assets[c.of]
    IN IF c.op = "confirm" THEN "stamp"
       ELSE IF row.seen # {} /\ Identity(Changed(row, c)) # Identity(row)
              THEN "clear" ELSE "keep"

Stamped(row, stamp) ==
    CASE stamp = "stamp" -> [row EXCEPT !.seen = {Identity(row)}]
      [] stamp = "clear" -> [row EXCEPT !.seen = {}]
      [] OTHER -> row

ResolvedFields(c) ==
    IF c.op \in {"place", "parent", "type", "category", "confirm"}
      THEN [c EXCEPT !.stamp = ResolveVerification(c)] ELSE c

\* The write of a call that has passed its checks.
Write(c) ==
    LET row == assets[c.of]
    IN CASE c.op \in {"create", "place", "parent", "type", "category", "confirm"} ->
              /\ assets' = [assets EXCEPT ![c.of] = Stamped(Changed(row, c), c.stamp)]
              /\ UNCHANGED <<places, kind>>
         [] c.op = "verify" ->
              /\ assets' = [assets EXCEPT ![c.of] = Stamped(row, "stamp")]
              /\ UNCHANGED <<places, kind>>
         [] c.op \in {"archive", "restore"} ->
              /\ assets' = [assets EXCEPT ![c.of].state =
                              IF c.op = "archive" THEN "archived" ELSE "live"]
              /\ UNCHANGED <<places, kind>>
         [] c.op = "active" ->
              /\ places' = [places EXCEPT ![c.of] = c.to]
              /\ UNCHANGED <<assets, kind>>
         [] c.op = "move" ->
              /\ kind' = [kind EXCEPT !.cat = c.to]
              /\ UNCHANGED <<assets, places>>
         [] c.op = "retire" ->
              /\ kind' = [kind EXCEPT !.active = (c.to = "on")]
              /\ UNCHANGED <<assets, places>>

Begin(k, c) ==
    /\ calls[k] = NoCall
    /\ Unlocked(c) /\ FieldsFit(c)
    /\ calls' = [calls EXCEPT ![k] = ResolvedFields(c)]
    /\ UNCHANGED <<assets, places, kind>>

Commit(k) ==
    /\ calls[k] # NoCall
    /\ Write(calls[k])
    /\ calls' = [calls EXCEPT ![k] = NoCall]

\* The commit, or a statement before it, fails: nothing is left.
GiveUp(k) ==
    /\ calls[k] # NoCall
    /\ calls' = [calls EXCEPT ![k] = NoCall]
    /\ UNCHANGED <<assets, places, kind>>

AtOnce(c) ==
    /\ Unlocked(c) /\ FieldsFit(c)
    /\ Write(ResolvedFields(c))
    /\ UNCHANGED calls

AssetsNext ==
    \/ \E k \in Clerks : Commit(k) \/ GiveUp(k)
    \/ \E c \in Upserts \union Others :
         AtOnce(c) \/ \E k \in Clerks : Begin(k, c)

AssetsSpec == AssetsInit /\ [][AssetsNext]_assetVars

-----------------------------------------------------------------------------
(* A verified asset is the thing somebody vouched for: its place, category *)
(* and type are those of the stamp, even when an edit that read the row    *)
(* unverified and a verification of the same row overlap.                  *)
VerifiedIsAsSeen ==
    \A a \in AssetIds : assets[a].seen \subseteq {Identity(assets[a])}
=============================================================================
