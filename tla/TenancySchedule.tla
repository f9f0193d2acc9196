-------------------------- MODULE TenancySchedule --------------------------
(***************************************************************************)
(* One tenancy of the register, dbo.Tenants: its schedule lists, its       *)
(* terms, the sign-off, the rent reliefs a director ratified, the info     *)
(* sheet, and the three version counters that keep people who edit it from *)
(* writing over each other.  A page is opened from the process's cache of  *)
(* the register (ten minutes, tenant-register-cache.ts) or from the rows,  *)
(* and saved whenever its reader gets to it.                               *)
(*                                                                         *)
(* Every save is one transaction that locks the tenant row, and drops the  *)
(* cached page of the process it ran in; the caches of other processes     *)
(* keep theirs, and a read that began before the save may fill the cache   *)
(* after it.  What a field holds is the number of the save that wrote it.  *)
(***************************************************************************)
EXTENDS Naturals, FiniteSets

CONSTANTS
  Editors, Reliefs, NoPage,
  ReliefSpan,  \* [Reliefs -> [from, to, scope]]: days, and the charges relieved
  LastDays,    \* the expiry dates a lease can be given
  MaxSaves     \* saves of the row: bounds the run

\* Days are numbers.
ASSUME TsConstants == \A r \in Reliefs : ReliefSpan[r].from \in Nat /\ ReliefSpan[r].to \in Nat

ScheduleColumns == {"ScheduledRateSteps", "CarparkScheduleGroups", "MiscFees", "Incentives"}
\* what a sign-off vouches for: the lists and the terms
Vouched == ScheduleColumns \cup {"terms"}
Fields == Vouched \cup {"contact", "leaseAdministration", "infoSheet"}

VARIABLES
  tenancy,   \* the row: [vals, sv, rv, iv, signed, ratified, expiry, open]
  signedAs,  \* what the lists and the terms were when it was signed (history)
  page,      \* [Editors -> what they have open, or NoPage]
  cached,    \* what the cache holds of it
  reading,   \* what a read that is under way has read
  changes,   \* [Reliefs -> the state of its request]
  blind      \* versioned saves that replaced what their page did not show (history)

tsVars == <<tenancy, signedAs, page, cached, reading, changes, blind>>

NewTenancy(d) == [vals |-> [f \in Fields |-> 0], sv |-> 0, rv |-> 0, iv |-> 0, signed |-> FALSE,
                  ratified |-> {}, expiry |-> d, open |-> TRUE]
TsInit ==
  /\ \E d \in LastDays : tenancy = NewTenancy(d)
  /\ signedAs = NoPage /\ page = [u \in Editors |-> NoPage]
  /\ cached = NoPage /\ reading = NoPage
  /\ changes = [r \in Reliefs |-> "none"] /\ blind = {}

(* ---- reading: getRegisterTenant and the cache ---- *)

Shown == [vals |-> tenancy.vals, sv |-> tenancy.sv, rv |-> tenancy.rv, iv |-> tenancy.iv]
OpenCached(u) ==
  /\ cached # NoPage /\ page' = [page EXCEPT ![u] = cached]
  /\ UNCHANGED <<tenancy, signedAs, cached, reading, changes, blind>>
ReadStarts ==
  /\ cached = NoPage /\ reading = NoPage /\ reading' = Shown
  /\ UNCHANGED <<tenancy, signedAs, page, cached, changes, blind>>
\* setCachedTenantDetail, after everything else was read
ReadEnds(u) ==
  /\ reading # NoPage
  /\ cached' = reading /\ page' = [page EXCEPT ![u] = reading] /\ reading' = NoPage
  /\ UNCHANGED <<tenancy, signedAs, changes, blind>>
CacheExpires ==
  /\ cached # NoPage /\ cached' = NoPage
  /\ UNCHANGED <<tenancy, signedAs, page, reading, changes, blind>>
\* invalidateTenantAndBuilding, in the process that saved
Invalidated == cached' \in {NoPage, cached}

(* ---- saving ---- *)

Readers == {u \in Editors : page[u] # NoPage}
\* conflictResponse otherwise: the version a save carries, unless its caller sent none.
AnyVersion(u) == TRUE
SameSchedule(u) == page[u].sv = tenancy.sv
SameRow(u) == page[u].rv = tenancy.rv
SameSheet(u) == page[u].iv = tenancy.iv

Written(f, t) == [t EXCEPT !.vals[f] = t.rv + 1, !.rv = @ + 1]
\* A manual edit of what was signed off takes the sign-off away (it needs a reason).
ClearsSignOff(t) == [t EXCEPT !.signed = FALSE]
Saved(u, f, versioned, t) ==
  /\ tenancy.rv < MaxSaves /\ tenancy' = t
  /\ signedAs' = IF t.signed THEN signedAs ELSE NoPage
  /\ blind' = blind \cup (IF versioned /\ page[u].vals[f] # tenancy.vals[f] THEN {<<u, f>>} ELSE {})
  /\ page' = [page EXCEPT ![u] = NoPage] /\ Invalidated
  /\ UNCHANGED <<reading, changes>>

\* runScheduleWrite: one list of the schedule
RunScheduleWrite(u, column, versioned) ==
  /\ versioned => SameSchedule(u)
  /\ Saved(u, column, versioned, ClearsSignOff([Written(column, tenancy) EXCEPT !.sv = @ + 1]))
EditRateSteps(u, v) == RunScheduleWrite(u, "ScheduledRateSteps", v)
EditIncentives(u, v) == RunScheduleWrite(u, "Incentives", v)
EditCarparkGroups(u, v) == RunScheduleWrite(u, "CarparkScheduleGroups", v)
EditMiscFees(u, v) == RunScheduleWrite(u, "MiscFees", v)
\* upsertMiscFeeHandler when only the category differs: the sign-off stays (keepsSignOff).
RecategoriseFee(u) ==
  /\ SameSchedule(u) /\ tenancy.rv < MaxSaves
  /\ tenancy' = [tenancy EXCEPT !.sv = @ + 1, !.rv = @ + 1]
  /\ page' = [page EXCEPT ![u] = NoPage] /\ Invalidated
  /\ UNCHANGED <<signedAs, reading, changes, blind>>

\* updateRegisterTenantRow: terms move the schedule's version too, contact details do not.
UpdateTerms(u, expiry, versioned) ==
  /\ versioned => SameRow(u)
  /\ Saved(u, "terms", versioned, ClearsSignOff([Written("terms", tenancy) EXCEPT !.sv = @ + 1, !.expiry = expiry]))
UpdateContact(u, versioned) ==
  /\ versioned => SameRow(u)
  /\ Saved(u, "contact", versioned, Written("contact", tenancy))
UpsertLeaseAdministration(u, versioned) ==
  /\ versioned => SameRow(u)
  /\ Saved(u, "leaseAdministration", versioned, Written("leaseAdministration", tenancy))
\* writeInfoSheet: the version is not optional
WriteInfoSheet(u) ==
  /\ SameSheet(u)
  /\ Saved(u, "infoSheet", TRUE, [Written("infoSheet", tenancy) EXCEPT !.iv = @ + 1])
EditInfoSheetSection(u) == WriteInfoSheet(u)
EditInfoSheetRow(u) == WriteInfoSheet(u)

(* ---- sign-off ---- *)

\* An archived tenancy is refused.
LockForSignOff == tenancy.open
SignOff(u) ==
  /\ SameSchedule(u) /\ LockForSignOff /\ ~tenancy.signed /\ tenancy.rv < MaxSaves
  /\ tenancy' = [tenancy EXCEPT !.signed = TRUE, !.rv = @ + 1]
  /\ signedAs' = [f \in Vouched |-> tenancy.vals[f]]
  /\ page' = [page EXCEPT ![u] = NoPage] /\ Invalidated
  /\ UNCHANGED <<reading, changes, blind>>
RevokeSignOff ==
  /\ tenancy.signed /\ LockForSignOff /\ tenancy.rv < MaxSaves
  /\ tenancy' = [tenancy EXCEPT !.signed = FALSE, !.rv = @ + 1] /\ signedAs' = NoPage
  /\ Invalidated
  /\ UNCHANGED <<page, reading, changes, blind>>
\* archiveTenant, or the tenancy is set to vacated
CloseTenancy ==
  /\ tenancy.open /\ tenancy.rv < MaxSaves /\ tenancy' = [tenancy EXCEPT !.open = FALSE, !.rv = @ + 1]
  /\ Invalidated
  /\ UNCHANGED <<signedAs, page, reading, changes, blind>>

(* ---- rent reliefs ---- *)

ReliefsOverlap(a, b) == a.from <= b.to /\ b.from <= a.to /\ a.scope \cap b.scope # {}
\* checkRelief: inside the lease, over none ratified and none of those waiting
CheckRelief(r, waiting) ==
  /\ ReliefSpan[r].to <= tenancy.expiry
  /\ \A o \in (tenancy.ratified \cup waiting) \ {r} : ~ReliefsOverlap(ReliefSpan[r], ReliefSpan[o])
PendingReliefs == {r \in Reliefs : changes[r] = "pending"}

RequestScheduleChange(u, r) ==
  /\ changes[r] = "none" /\ tenancy.open
  /\ SameSchedule(u) /\ CheckRelief(r, PendingReliefs)
  /\ changes' = [changes EXCEPT ![r] = "pending"] /\ Invalidated
  /\ UNCHANGED <<tenancy, signedAs, page, reading, blind>>
\* appendRelief and writeReliefs
WithRelief(r) == [tenancy EXCEPT !.ratified = @ \cup {r}, !.sv = @ + 1, !.rv = @ + 1]
\* ratifyScheduleChange: the overlay joins the schedule; a sign-off stands.
RatifyScheduleChange(u, r) ==
  /\ changes[r] = "pending" /\ tenancy.open
  /\ SameSchedule(u) /\ tenancy.rv < MaxSaves
  /\ r \notin tenancy.ratified /\ CheckRelief(r, {})
  /\ tenancy' = WithRelief(r)
  /\ changes' = [changes EXCEPT ![r] = "ratified"] /\ Invalidated
  /\ UNCHANGED <<signedAs, page, reading, blind>>
RejectScheduleChange(r) ==
  /\ changes[r] = "pending" /\ changes' = [changes EXCEPT ![r] = "rejected"] /\ Invalidated
  /\ UNCHANGED <<tenancy, signedAs, page, reading, blind>>
WithdrawScheduleChange(r) ==
  /\ changes[r] = "pending" /\ changes' = [changes EXCEPT ![r] = "withdrawn"] /\ Invalidated
  /\ UNCHANGED <<tenancy, signedAs, page, reading, blind>>

TsNext ==
  \/ ReadStarts \/ CacheExpires \/ \E u \in Editors : OpenCached(u) \/ ReadEnds(u)
  \/ \E u \in Readers, v \in BOOLEAN :
       \/ EditRateSteps(u, v) \/ EditIncentives(u, v) \/ EditCarparkGroups(u, v) \/ EditMiscFees(u, v)
       \/ UpdateContact(u, v) \/ UpsertLeaseAdministration(u, v)
       \/ \E d \in LastDays : UpdateTerms(u, d, v)
  \/ \E u \in Readers : RecategoriseFee(u) \/ EditInfoSheetSection(u) \/ EditInfoSheetRow(u) \/ SignOff(u)
  \/ RevokeSignOff \/ CloseTenancy
  \/ \E r \in Reliefs : RejectScheduleChange(r) \/ WithdrawScheduleChange(r)
  \/ \E u \in Readers, r \in Reliefs : RequestScheduleChange(u, r) \/ RatifyScheduleChange(u, r)

TsSpec == TsInit /\ [][TsNext]_tsVars

(* ---- properties ---- *)

(* A save that says which version it was made from replaces only what its   *)
(* page showed, whichever of the three versions guards the field, however   *)
(* old the cached page was and whoever saved meanwhile (the 409 of          *)
(* conflictResponse: "changed ... since you opened it").                    *)
NoBlindSave == blind = {}

(* While a schedule is signed off, its lists and terms are those that were  *)
(* signed: every edit of them takes the sign-off with it in the same        *)
(* transaction, and nobody signs a schedule other than the one they saw.    *)
SignedIsWhatStands == tenancy.signed => signedAs = [f \in Vouched |-> tenancy.vals[f]]

(* No charge is relieved twice on one day: what two people ask for and two  *)
(* directors ratify, each from a page of its own, never overlaps.           *)
ReliefsKeepApart ==
  \A a, b \in tenancy.ratified : a = b \/ ReliefSpan[a].to < ReliefSpan[b].from
    \/ ReliefSpan[b].to < ReliefSpan[a].from \/ ReliefSpan[a].scope \cap ReliefSpan[b].scope = {}

(* What the schedule says is what somebody meant: nothing saved blind,      *)
(* nothing signed unseen, no relief on top of another.                      *)
ScheduleIsMeant == NoBlindSave /\ SignedIsWhatStands /\ ReliefsKeepApart
=============================================================================
