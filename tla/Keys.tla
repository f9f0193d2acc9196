------------------------------- MODULE Keys -------------------------------
(***************************************************************************)
(* The key register: src/functions/keys.ts over dbo.Keys, KeyCheckouts and *)
(* KeyCheckoutBatches.  Every write to a key and its checkouts locks the   *)
(* keys first, in order of their ids, in one transaction, and is one       *)
(* action.  A report of loss and a delete close the open checkouts at one  *)
(* moment, which restoreKey goes by: moments are numbers.  A key is told   *)
(* by its number in its building (UQ_Keys_Building_KeyNumber), which the   *)
(* register never changes.  Levels, photos and places are left out, and    *)
(* so is the Planner task of a lost key (Planner: KeyConds).               *)
(***************************************************************************)
EXTENDS Naturals, FiniteSets

CONSTANTS
  RegKeys,     \* building and number
  Codes,       \* items of type code: shared, not handed over
  Outs,        \* rows of dbo.KeyCheckouts that can be made: bounds the run
  Sigs, NoSig, \* signatures somebody has uploaded
  NoKey,
  MaxMoments   \* reports, deletes and check-ins: bounds the run

ASSUME KeysConstants == Codes \subseteq RegKeys /\ MaxMoments \in Nat /\ NoKey \notin RegKeys

VARIABLES
  regKeys,   \* [RegKeys -> row of dbo.Keys]
  outs,      \* [Outs -> row of dbo.KeyCheckouts with its batch's signature]
  keyForm,   \* the key somebody has open for editing, as it was read
  moment     \* the database's clock

keyVars == <<regKeys, outs, keyForm, moment>>

NoRegKey == [there |-> FALSE, lost |-> FALSE, deleted |-> FALSE, lostAt |-> 0, deletedAt |-> 0, version |-> 0]
NoOut == [key |-> NoKey, sig |-> NoSig, inAt |-> 0, photo |-> FALSE]
NoForm == [key |-> NoKey, version |-> 0]

KeysInit ==
  /\ regKeys = [k \in RegKeys |-> NoRegKey]
  /\ outs = [o \in Outs |-> NoOut]
  /\ keyForm = NoForm /\ moment = 0

OpenOuts(k) == {o \in Outs : outs[o].key = k /\ outs[o].inAt = 0}
Holders(k) == {o \in OpenOuts(k) : regKeys[k].there /\ ~regKeys[k].deleted}
Bump(row) == [row EXCEPT !.version = 1 - @]   \* a rowversion differs from the one before
Ticks == moment < MaxMoments /\ moment' = moment + 1
Closed(k) == [o \in Outs |-> IF o \in OpenOuts(k) THEN [outs[o] EXCEPT !.inAt = moment'] ELSE outs[o]]

CreateKey(k) ==
  /\ ~regKeys[k].there
  /\ regKeys' = [regKeys EXCEPT ![k] = [NoRegKey EXCEPT !.there = TRUE]]
  /\ UNCHANGED <<outs, keyForm, moment>>

\* A row of the sheet whose number is taken is skipped; the others are inserted one by one.
BulkImportKeys ==
  /\ \E K \in SUBSET RegKeys :
       /\ \E k \in K : ~regKeys[k].there
       /\ regKeys' = [k \in RegKeys |-> IF k \in K /\ ~regKeys[k].there
                                        THEN [NoRegKey EXCEPT !.there = TRUE] ELSE regKeys[k]]
  /\ UNCHANGED <<outs, keyForm, moment>>

ReadKey(k) ==
  /\ regKeys[k].there /\ keyForm = NoForm
  /\ keyForm' = [key |-> k, version |-> regKeys[k].version]
  /\ UNCHANGED <<regKeys, outs, moment>>
UpdateKey(k) ==
  /\ keyForm.key = k /\ keyForm.version = regKeys[k].version
  /\ regKeys' = [regKeys EXCEPT ![k] = Bump(@)]
  /\ keyForm' = NoForm
  /\ UNCHANGED <<outs, moment>>
UpdateKeyStale(k) ==
  /\ keyForm.key = k /\ keyForm.version # regKeys[k].version
  /\ keyForm' = NoForm
  /\ UNCHANGED <<regKeys, outs, moment>>

ReportKeyLost(k) ==
  /\ regKeys[k].there /\ ~regKeys[k].lost /\ Ticks
  /\ outs' = Closed(k)
  /\ regKeys' = [regKeys EXCEPT ![k] = Bump([@ EXCEPT !.lost = TRUE, !.lostAt = moment'])]
  /\ UNCHANGED keyForm

DeleteKey(k) ==
  /\ regKeys[k].there /\ ~regKeys[k].deleted /\ Ticks
  /\ outs' = Closed(k)
  /\ regKeys' = [regKeys EXCEPT ![k] = Bump([@ EXCEPT !.deleted = TRUE, !.deletedAt = moment'])]
  /\ UNCHANGED keyForm

ReopensByStatus(k, out) ==
  /\ out.inAt # 0 /\ ~out.photo
  /\ out.inAt = IF regKeys[k].deleted THEN regKeys[k].deletedAt ELSE regKeys[k].lostAt
Reopens(k, out) ==
  /\ out.inAt # 0 /\ ~out.photo
  /\ \/ regKeys[k].lost /\ out.inAt = regKeys[k].lostAt
     \/ regKeys[k].deleted /\ out.inAt = regKeys[k].deletedAt
RestoreKey(k) ==
  /\ regKeys[k].lost \/ regKeys[k].deleted
  /\ outs' = [o \in Outs |-> IF outs[o].key = k /\ Reopens(k, outs[o])
                             THEN [outs[o] EXCEPT !.inAt = 0] ELSE outs[o]]
  /\ regKeys' = [regKeys EXCEPT ![k] = Bump([@ EXCEPT !.lost = FALSE, !.deleted = FALSE])]
  /\ UNCHANGED <<keyForm, moment>>

\* checkSignature and UX_KeyCheckoutBatches_SignatureAttachmentId.
SignatureFree(s) == s = NoSig \/ \A o \in Outs : outs[o].sig # s
CanGoOut(k) ==
  /\ regKeys[k].there /\ ~regKeys[k].deleted /\ ~regKeys[k].lost
  /\ k \in Codes \/ OpenOuts(k) = {}
CheckoutKeys ==
  \E K \in (SUBSET RegKeys) \ {{}}, s \in Sigs \cup {NoSig} :
    \E f \in [K -> {o \in Outs : outs[o] = NoOut}] :
      /\ \A k \in K : CanGoOut(k)
      /\ \A k, l \in K : f[k] = f[l] => k = l
      /\ SignatureFree(s)
      /\ outs' = [o \in Outs |-> IF \E k \in K : f[k] = o
                   THEN [NoOut EXCEPT !.key = CHOOSE k \in K : f[k] = o, !.sig = s] ELSE outs[o]]
      /\ regKeys' \in {[k \in RegKeys |-> IF k \in K THEN Bump(regKeys[k]) ELSE regKeys[k]], regKeys}
      /\ UNCHANGED <<keyForm, moment>>

\* Only what is still open is closed, and a repeat closes nothing.
CheckinKeys ==
  \E O \in SUBSET {o \in Outs : outs[o].key # NoKey} :
    LET shut == {o \in O : outs[o].inAt = 0} IN
    /\ shut # {} /\ Ticks
    /\ outs' = [o \in Outs |-> IF o \in shut THEN [outs[o] EXCEPT !.inAt = moment', !.photo = TRUE] ELSE outs[o]]
    /\ regKeys' \in {[k \in RegKeys |-> IF \E o \in shut : outs[o].key = k THEN Bump(regKeys[k]) ELSE regKeys[k]],
                     regKeys}
    /\ UNCHANGED keyForm

KeysNext ==
  \/ \E k \in RegKeys : CreateKey(k) \/ ReadKey(k) \/ UpdateKey(k) \/ UpdateKeyStale(k)
                        \/ ReportKeyLost(k) \/ DeleteKey(k) \/ RestoreKey(k)
  \/ BulkImportKeys \/ CheckoutKeys \/ CheckinKeys

KeysSpec == KeysInit /\ [][KeysNext]_keyVars

\* A physical key is never out to two people, and nobody who has one is forgotten:
\* a checkout that ended without a check-in photo is of a key that is lost or deleted
\* still, however reports, deletes, restores and check-ins followed each other
\* (restoreKey, checkoutKeys).
HoldersOnRecord ==
  /\ \A k \in RegKeys \ Codes : Cardinality(Holders(k)) <= 1
  /\ \A o \in Outs : LET k == outs[o].key IN
       outs[o].inAt # 0 /\ ~outs[o].photo => regKeys[k].lost \/ regKeys[k].deleted
=============================================================================
