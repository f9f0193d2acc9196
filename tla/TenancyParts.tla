---------------------------- MODULE TenancyParts ----------------------------
(***************************************************************************)
(* What a tenancy is made of besides its schedule: the areas and car parks *)
(* it holds, its notes, its archiving and the deletion of a draft.  An     *)
(* area is a row of dbo.TenantOccupancies at one cell of the building, and *)
(* every write of it adds a row to its history; car parks are read and     *)
(* then written outside any transaction.  Rents, sizes and the text of     *)
(* notes are left out; the schedule is TenancySchedule's.                  *)
(***************************************************************************)
EXTENDS Naturals, FiniteSets

CONSTANTS
  Lessees,        \* rows of dbo.Tenants that can be made
  NoLessee,
  AreaRows,       \* ids of dbo.TenantOccupancies that clients can make up
  Cells, NoCell,  \* building, level and area
  Bays,           \* building and identifier of a car park
  BayEditors,     \* requests that write a car park: bounds the run
  Notes           \* bounds the run

ASSUME PartsConstants == NoLessee \notin Lessees /\ NoCell \notin Cells

VARIABLES
  lessees,     \* [Lessees -> [there, archived, content]]
  areas,       \* [AreaRows -> [cell, holder, archived]]
  areaLog,     \* dbo.TenantOccupancyHistory: area and tenant
  bays,        \* [Bays -> [there, holder, archived]]
  bayCalls,    \* [BayEditors -> [step, bay, found]]
  leaseNotes   \* [Notes -> [on, archived]]

partVars == <<lessees, areas, areaLog, bays, bayCalls, leaseNotes>>

NoPerson == [there |-> FALSE, archived |-> FALSE, content |-> FALSE]
NoArea == [cell |-> NoCell, holder |-> NoLessee, archived |-> FALSE]
NoBay == [there |-> FALSE, holder |-> NoLessee, archived |-> FALSE]
NoNote == [on |-> NoLessee, archived |-> FALSE]

PartsInit ==
  /\ lessees = [t \in Lessees |-> NoPerson]
  /\ areas = [o \in AreaRows |-> NoArea] /\ areaLog = {}
  /\ bays = [b \in Bays |-> NoBay]
  /\ bayCalls = [e \in BayEditors |-> [step |-> "idle", bay |-> CHOOSE b \in Bays : TRUE, found |-> FALSE]]
  /\ leaseNotes = [n \in Notes |-> NoNote]

---------------------------------------------------------------------------
(* Tenancies. *)

UpsertTenant(t) ==
  /\ ~lessees[t].there
  /\ lessees' = [lessees EXCEPT ![t].there = TRUE]
  /\ UNCHANGED <<areas, areaLog, bays, bayCalls, leaseNotes>>
\* The rest of the row: terms, rents, contacts, and whatever else points at the tenancy.
FillIn(t) ==
  /\ lessees[t].there /\ ~lessees[t].content
  /\ lessees' = [lessees EXCEPT ![t].content = TRUE]
  /\ UNCHANGED <<areas, areaLog, bays, bayCalls, leaseNotes>>
SetArchived(t) ==
  /\ lessees[t].there
  /\ lessees' = [lessees EXCEPT ![t].archived = ~@]
  /\ UNCHANGED <<areas, areaLog, bays, bayCalls, leaseNotes>>

DraftContents(t) == lessees[t].content
HoldsNow(t) ==
  \/ \E o \in AreaRows : areas[o].holder = t
  \/ \E n \in Notes : leaseNotes[n].on = t
  \/ \E b \in Bays : bays[b].holder = t
\* What the deletion counts, all of it under range locks.
RefusedByContents(t) == DraftContents(t) \/ \E n \in Notes : leaseNotes[n].on = t
DraftDeletionRefusal(t) == DraftContents(t) \/ HoldsNow(t) \/ \E o \in AreaRows : <<o, t>> \in areaLog
\* The keys of areas and notes cascade, and an area takes its whole history with it.
DeleteTenancyDraft(t) ==
  /\ lessees[t].there /\ ~DraftDeletionRefusal(t)
  /\ lessees' = [lessees EXCEPT ![t] = NoPerson]
  /\ areas' = [o \in AreaRows |-> IF areas[o].holder = t THEN NoArea ELSE areas[o]]
  /\ areaLog' = {h \in areaLog : areas[h[1]].holder # t}
  /\ leaseNotes' = [n \in Notes |-> IF leaseNotes[n].on = t THEN NoNote ELSE leaseNotes[n]]
  /\ UNCHANGED <<bays, bayCalls>>

---------------------------------------------------------------------------
(* Areas: locked by id or cell, and taken from another tenancy only by naming it. *)

AtCell(o, c) == {x \in AreaRows \ {o} : areas[x].cell = c}
Found(o, c) == {x \in {o} : areas[x] # NoArea} \cup AtCell(o, c)
MayTake(x, t, from) == areas[x].holder = t \/ areas[x].holder = from
Remembered(x, t) == areaLog \cup {<<x, t>>}
UpsertOccupancy(o, c, t, from) ==
  /\ lessees[t].there
  /\ \A x \in Found(o, c) : ~areas[x].archived
  /\ Cardinality(Found(o, c)) <= 1
  /\ \A x \in Found(o, c) : MayTake(x, t, from)
  /\ LET x == IF Found(o, c) = {} THEN o ELSE CHOOSE y \in Found(o, c) : TRUE IN
     /\ areas' = [areas EXCEPT ![x] = [cell |-> c, holder |-> t, archived |-> FALSE]]
     /\ areaLog' = Remembered(x, t)
  /\ UNCHANGED <<lessees, bays, bayCalls, leaseNotes>>

\* All of the ids or none.
SetAreasArchived(O, archive) ==
  /\ O # {} /\ \A o \in O : areas[o] # NoArea /\ areas[o].archived # archive
  /\ areas' = [o \in AreaRows |-> IF o \in O THEN [areas[o] EXCEPT !.archived = archive] ELSE areas[o]]
  /\ UNCHANGED <<lessees, areaLog, bays, bayCalls, leaseNotes>>
SetBaysArchived(B, archive) ==
  /\ B # {} /\ \A b \in B : bays[b].there /\ bays[b].archived # archive
  /\ bays' = [b \in Bays |-> IF b \in B THEN [bays[b] EXCEPT !.archived = archive] ELSE bays[b]]
  /\ UNCHANGED <<lessees, areas, areaLog, bayCalls, leaseNotes>>

---------------------------------------------------------------------------
(* Car parks: a read, then a write that goes by what was read. *)

ReadBay(e, b) ==
  /\ bayCalls[e].step = "idle" /\ ~bays[b].archived
  /\ bayCalls' = [bayCalls EXCEPT ![e] = [step |-> "read", bay |-> b, found |-> bays[b].there]]
  /\ UNCHANGED <<lessees, areas, areaLog, bays, leaseNotes>>
\* An insert meets UX_Carparks_BuildingIdentifier.  Nothing looks at the tenant: the
\* column has no foreign key.
WriteFits(e) == bayCalls[e].found = bays[bayCalls[e].bay].there
UpsertCarparkRow(e, t) ==
  /\ bayCalls[e].step = "read" /\ WriteFits(e)
  /\ bays' = [bays EXCEPT ![bayCalls[e].bay] = [@ EXCEPT !.there = TRUE, !.holder = t]]
  /\ bayCalls' = [bayCalls EXCEPT ![e].step = "done"]
  /\ UNCHANGED <<lessees, areas, areaLog, leaseNotes>>
UpsertCarparkFails(e) ==
  /\ bayCalls[e].step = "read" /\ ~WriteFits(e)
  /\ bayCalls' = [bayCalls EXCEPT ![e].step = "done"]
  /\ UNCHANGED <<lessees, areas, areaLog, bays, leaseNotes>>

---------------------------------------------------------------------------
(* Notes. *)

CreateTenantNote(n, t) ==
  /\ leaseNotes[n] = NoNote /\ lessees[t].there
  /\ leaseNotes' = [leaseNotes EXCEPT ![n].on = t]
  /\ UNCHANGED <<lessees, areas, areaLog, bays, bayCalls>>
SetTenantNoteArchived(n) ==
  /\ leaseNotes[n] # NoNote
  /\ leaseNotes' = [leaseNotes EXCEPT ![n].archived = ~@]
  /\ UNCHANGED <<lessees, areas, areaLog, bays, bayCalls>>

PartsNext ==
  \/ \E t \in Lessees : UpsertTenant(t) \/ FillIn(t) \/ SetArchived(t) \/ DeleteTenancyDraft(t)
  \/ \E o \in AreaRows, c \in Cells, t \in Lessees, from \in Lessees \cup {NoLessee} : UpsertOccupancy(o, c, t, from)
  \/ \E archive \in BOOLEAN : \/ \E O \in SUBSET AreaRows : SetAreasArchived(O, archive)
                              \/ \E B \in SUBSET Bays : SetBaysArchived(B, archive)
  \/ \E e \in BayEditors : \/ \E b \in Bays : ReadBay(e, b)
                           \/ \E t \in Lessees \cup {NoLessee} : UpsertCarparkRow(e, t)
                           \/ UpsertCarparkFails(e)
  \/ \E n \in Notes : SetTenantNoteArchived(n) \/ \E t \in Lessees : CreateTenantNote(n, t)

PartsSpec == PartsInit /\ [][PartsNext]_partVars

---------------------------------------------------------------------------
(* "Archive it instead": who has held an area stays on record.  No area moved *)
(* on, archived or restored, and no draft deleted afterwards, takes a line    *)
(* out of the history, although deleting a tenancy cascades into its areas    *)
(* and with each area into the lines of everyone who held it before.          *)
HoldingsAreRemembered == [][areaLog \subseteq areaLog']_partVars
=============================================================================
