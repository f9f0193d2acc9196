----------------------------- MODULE Desk_proofs -----------------------------
(***************************************************************************)
(* What the registers of the office guarantee for any rows and any number   *)
(* of people: Keys, Assets, Procedures, TenancySchedule, AbsenceCover and   *)
(* DecisionTimes in turn. They share no state.                              *)
(***************************************************************************)
EXTENDS AbsenceCover, TenancySchedule, Keys, DecisionTimes, Assets, Procedures,
        FiniteSetTheorems, NaturalsInduction, WellFoundedInduction, TLAPS

-----------------------------------------------------------------------------
(* Keys: who has what.                                                     *)

KeyRow == [there : BOOLEAN, lost : BOOLEAN, deleted : BOOLEAN,
           lostAt : Nat, deletedAt : Nat, version : {0, 1}]

OutRow == [key : RegKeys \cup {NoKey}, sig : Sigs \cup {NoSig}, inAt : Nat, photo : BOOLEAN]

KeysTypeOK ==
  /\ regKeys \in [RegKeys -> KeyRow] /\ outs \in [Outs -> OutRow]
  /\ moment \in Nat

\* A checkout that is not one is open to nobody; a photo closes a checkout for good.
OutRowsAreWhole(o) ==
  /\ outs[o].key = NoKey => outs[o].inAt = 0 /\ ~outs[o].photo
  /\ outs[o].photo => outs[o].inAt # 0

\* What a restore goes by: a checkout closed without a check-in was closed at the moment the
\* key was lost or deleted, and the key is that still.
ClosedByTheReport(o) ==
  LET k == regKeys[outs[o].key] IN
  outs[o].inAt # 0 /\ ~outs[o].photo =>
    \/ k.lost /\ outs[o].inAt = k.lostAt
    \/ k.deleted /\ outs[o].inAt = k.deletedAt

\* A key that is lost or deleted is open to nobody.
GoneIsNotOut(k) ==
  regKeys[k].lost \/ regKeys[k].deleted => \A o \in Outs : outs[o].key = k => outs[o].inAt # 0

\* A physical key was taken back from everybody but one.
TakenByOne(k) ==
  k \notin Codes => \A o, p \in {x \in Outs : outs[x].key = k /\ ~outs[x].photo} : o = p

\* Only a key that was made is lost or deleted.
MadeOnce(k) == regKeys[k].lost \/ regKeys[k].deleted => regKeys[k].there

KeysInv ==
  /\ KeysTypeOK
  /\ \A o \in Outs : OutRowsAreWhole(o) /\ ClosedByTheReport(o)
  /\ \A k \in RegKeys : GoneIsNotOut(k) /\ TakenByOne(k) /\ MadeOnce(k)

LEMMA KeysAgree == KeysInv => HoldersOnRecord
<1> SUFFICES ASSUME KeysInv PROVE HoldersOnRecord
  OBVIOUS
<1>1. ASSUME NEW k \in RegKeys \ Codes PROVE Cardinality(Holders(k)) <= 1
  <2>1. \A o, p \in Holders(k) : o = p
    BY DEF Holders, OpenOuts, KeysInv, TakenByOne, OutRowsAreWhole
  <2>2. CASE Holders(k) = {}
    BY <2>2, FS_EmptySet
  <2>3. ASSUME NEW o \in Holders(k) PROVE Cardinality(Holders(k)) <= 1
    <3>1. Holders(k) = {o}
      BY <2>1
    <3> QED
      BY <3>1, FS_Singleton
  <2> QED
    BY <2>2, <2>3
<1>2. \A o \in Outs : outs[o].inAt # 0 /\ ~outs[o].photo
                        => regKeys[outs[o].key].lost \/ regKeys[outs[o].key].deleted
  BY DEF KeysInv, ClosedByTheReport
<1> QED
  BY <1>1, <1>2 DEF HoldersOnRecord

LEMMA NothingIsOut ==
  /\ NoRegKey \in KeyRow /\ ~NoRegKey.lost /\ ~NoRegKey.deleted
  /\ NoOut \in OutRow /\ NoOut.key = NoKey /\ NoOut.inAt = 0 /\ ~NoOut.photo
  BY DEF NoRegKey, KeyRow, NoOut, OutRow

LEMMA KeysStart == KeysInit => KeysInv
<1> SUFFICES ASSUME KeysInit PROVE KeysInv
  OBVIOUS
<1>1. KeysTypeOK
  BY NothingIsOut DEF KeysInit, KeysTypeOK
<1>2. \A o \in Outs : outs[o] = NoOut
  BY DEF KeysInit
<1>3. \A o \in Outs : OutRowsAreWhole(o) /\ ClosedByTheReport(o)
  BY <1>2, NothingIsOut DEF OutRowsAreWhole, ClosedByTheReport
<1>4. ASSUME NEW k \in RegKeys PROVE GoneIsNotOut(k) /\ TakenByOne(k) /\ MadeOnce(k)
  <2>1. ~regKeys[k].lost /\ ~regKeys[k].deleted
    BY NothingIsOut DEF KeysInit
  <2>2. \A o \in Outs : outs[o].key # k
    BY <1>2, NothingIsOut, KeysConstants
  <2>3. TakenByOne(k)
    BY <1>1, <2>2 DEF TakenByOne, KeysTypeOK, OutRow
  <2> QED
    BY <2>1, <2>3 DEF GoneIsNotOut, MadeOnce
<1> QED
  BY <1>1, <1>3, <1>4 DEF KeysInv

LEMMA KeyRows ==
  ASSUME NEW row \in KeyRow
  PROVE  /\ Bump(row) \in KeyRow
         /\ Bump(row).lost = row.lost /\ Bump(row).deleted = row.deleted
         /\ Bump(row).lostAt = row.lostAt /\ Bump(row).deletedAt = row.deletedAt
  BY DEF Bump, KeyRow

\* A row made or changed, but as lost and as deleted as it was.
SameFate(row, next) ==
  /\ next.lost = row.lost /\ next.deleted = row.deleted
  /\ row.lost => next.lostAt = row.lostAt
  /\ row.deleted => next.deletedAt = row.deletedAt

\* Steps that write no checkout and do not move a key between kept, lost and deleted.
LEMMA KeysAlone ==
  ASSUME KeysInv, outs' = outs, moment' = moment, regKeys' \in [RegKeys -> KeyRow],
         \A k \in RegKeys : SameFate(regKeys[k], regKeys'[k]) /\ MadeOnce(k)'
  PROVE  KeysInv'
<1>1. KeysTypeOK'
  BY DEF KeysInv, KeysTypeOK
<1>2. ASSUME NEW o \in Outs PROVE (OutRowsAreWhole(o) /\ ClosedByTheReport(o))'
  <2>1. OutRowsAreWhole(o)'
    BY DEF KeysInv, OutRowsAreWhole
  <2>2. CASE outs[o].key = NoKey
    BY <2>1, <2>2 DEF OutRowsAreWhole, ClosedByTheReport
  <2>3. CASE outs[o].key \in RegKeys
    BY <2>1, <2>3 DEF KeysInv, ClosedByTheReport, SameFate
  <2>4. outs[o] \in OutRow
    BY DEF KeysInv, KeysTypeOK
  <2> QED
    BY <2>2, <2>3, <2>1, <2>4 DEF OutRow
<1>3. \A k \in RegKeys : (GoneIsNotOut(k) /\ TakenByOne(k))'
  BY DEF KeysInv, GoneIsNotOut, TakenByOne, SameFate
<1> QED
  BY <1>1, <1>2, <1>3 DEF KeysInv

\* A key is made once, and nobody can have it before.
LEMMA KeysAreMade ==
  ASSUME KeysInv, (\E k \in RegKeys : CreateKey(k)) \/ BulkImportKeys PROVE KeysInv'
<1> DEFINE made == [NoRegKey EXCEPT !.there = TRUE]
<1>1. made \in KeyRow /\ made.lost = FALSE /\ made.deleted = FALSE
  BY DEF NoRegKey, KeyRow
<1>2. outs' = outs /\ moment' = moment
  BY DEF CreateKey, BulkImportKeys
<1>3. PICK K \in SUBSET RegKeys :
        regKeys' = [k \in RegKeys |-> IF k \in K /\ ~regKeys[k].there THEN made ELSE regKeys[k]]
  <2>1. ASSUME NEW k \in RegKeys, CreateKey(k)
        PROVE  regKeys' = [l \in RegKeys |-> IF l \in {k} /\ ~regKeys[l].there THEN made ELSE regKeys[l]]
    BY <2>1 DEF CreateKey, KeysInv, KeysTypeOK
  <2>2. CASE BulkImportKeys
    BY <2>2 DEF BulkImportKeys
  <2> QED
    BY <2>1, <2>2
<1>4. \A k \in RegKeys : ~regKeys[k].there => SameFate(regKeys[k], made)
  BY <1>1 DEF KeysInv, KeysTypeOK, KeyRow, MadeOnce, SameFate
<1>5. made.there = TRUE
  BY DEF NoRegKey
<1> HIDE DEF made
<1>6. regKeys' \in [RegKeys -> KeyRow]
  BY <1>1, <1>3 DEF KeysInv, KeysTypeOK
<1>7. \A k \in RegKeys : SameFate(regKeys[k], regKeys'[k])
  BY <1>3, <1>4 DEF SameFate
<1>8. \A k \in RegKeys : MadeOnce(k)'
  BY <1>3, <1>5 DEF KeysInv, MadeOnce
<1> QED
  BY <1>2, <1>6, <1>7, <1>8, KeysAlone

LEMMA ReadersAndEdits ==
  ASSUME KeysInv, NEW k \in RegKeys, ReadKey(k) \/ UpdateKey(k) \/ UpdateKeyStale(k) PROVE KeysInv'
<1>0. outs' = outs /\ moment' = moment
  BY DEF ReadKey, UpdateKey, UpdateKeyStale
<1>1. CASE regKeys' = regKeys
  BY <1>0, <1>1, KeysAlone DEF KeysInv, KeysTypeOK, SameFate, MadeOnce
<1>2. CASE regKeys' = [regKeys EXCEPT ![k] = Bump(@)]
  <2>1. regKeys[k] \in KeyRow
    BY DEF KeysInv, KeysTypeOK
  <2>2. Bump(regKeys[k]) \in KeyRow /\ SameFate(regKeys[k], Bump(regKeys[k]))
        /\ Bump(regKeys[k]).there = regKeys[k].there
    BY <1>2, <2>1 DEF Bump, KeyRow, SameFate
  <2>3. regKeys' = [regKeys EXCEPT ![k] = Bump(regKeys[k])]
    BY <1>2
  <2>4. regKeys' \in [RegKeys -> KeyRow]
    BY <2>2, <2>3 DEF KeysInv, KeysTypeOK
  <2>5. \A l \in RegKeys : SameFate(regKeys[l], regKeys'[l]) /\ MadeOnce(l)'
    BY <2>2, <2>3 DEF KeysInv, KeysTypeOK, SameFate, MadeOnce
  <2> QED
    BY <1>0, <2>4, <2>5, KeysAlone
<1> QED
  BY <1>1, <1>2 DEF ReadKey, UpdateKey, UpdateKeyStale

\* A step that writes one key and when its checkouts ended.
LEMMA OneKey ==
  ASSUME KeysInv, NEW k \in RegKeys, NEW row \in KeyRow,
         regKeys' = [regKeys EXCEPT ![k] = row],
         moment' \in Nat, outs' \in [Outs -> OutRow],
         \A o \in Outs : outs'[o].key = outs[o].key /\ outs'[o].photo = outs[o].photo,
         \A o \in Outs : outs[o].key # k => outs'[o] = outs[o],
         \A o \in Outs : outs[o].key = k => (OutRowsAreWhole(o) /\ ClosedByTheReport(o))',
         row.lost \/ row.deleted => /\ row.there
                                    /\ \A o \in Outs : outs[o].key = k => outs'[o].inAt # 0
  PROVE  KeysInv'
<1>1. KeysTypeOK'
  BY DEF KeysInv, KeysTypeOK
<1>2. regKeys'[k] = row /\ \A l \in RegKeys : l # k => regKeys'[l] = regKeys[l]
  BY DEF KeysInv, KeysTypeOK
<1>3. ASSUME NEW o \in Outs PROVE (OutRowsAreWhole(o) /\ ClosedByTheReport(o))'
  <2>1. CASE outs[o].key = k
    BY <2>1
  <2>2. CASE outs[o].key = NoKey
    <3>1. outs'[o] = outs[o] /\ outs[o].inAt = 0
      BY <2>2, KeysConstants DEF KeysInv, OutRowsAreWhole
    <3> QED
      BY <3>1 DEF KeysInv, OutRowsAreWhole, ClosedByTheReport
  <2>3. CASE outs[o].key \in RegKeys \ {k}
    <3>1. outs'[o] = outs[o] /\ regKeys'[outs'[o].key] = regKeys[outs[o].key]
      BY <1>2, <2>3
    <3>2. OutRowsAreWhole(o) /\ ClosedByTheReport(o)
      BY DEF KeysInv
    <3> QED
      BY <3>1, <3>2 DEF OutRowsAreWhole, ClosedByTheReport
  <2>4. outs[o].key \in RegKeys \cup {NoKey}
    BY DEF KeysInv, KeysTypeOK, OutRow
  <2> QED
    BY <2>1, <2>2, <2>3, <2>4
<1>4. ASSUME NEW l \in RegKeys PROVE (GoneIsNotOut(l) /\ TakenByOne(l) /\ MadeOnce(l))'
  <2>1. TakenByOne(l)'
    BY DEF KeysInv, TakenByOne
  <2>2. CASE l = k
    BY <1>2, <2>1, <2>2 DEF GoneIsNotOut, MadeOnce
  <2>3. CASE l # k
    <3>1. regKeys'[l] = regKeys[l] /\ GoneIsNotOut(l) /\ MadeOnce(l)
      BY <1>2, <2>3 DEF KeysInv
    <3> QED
      BY <2>1, <2>3, <3>1 DEF GoneIsNotOut, MadeOnce
  <2> QED
    BY <2>2, <2>3
<1> QED
  BY <1>1, <1>3, <1>4 DEF KeysInv

\* Both close every open checkout at the moment the row says.
LEMMA ReportsAndDeletes ==
  ASSUME KeysInv, NEW k \in RegKeys, ReportKeyLost(k) \/ DeleteKey(k) PROVE KeysInv'
<1>1. regKeys[k] \in KeyRow /\ moment' \in Nat \ {0} /\ regKeys[k].there
  BY DEF KeysInv, KeysTypeOK, ReportKeyLost, DeleteKey, Ticks
<1>2. PICK row \in KeyRow :
        /\ regKeys' = [regKeys EXCEPT ![k] = row] /\ row.there
        /\ \/ /\ ~regKeys[k].lost /\ row.lost /\ row.lostAt = moment'
              /\ row.deleted = regKeys[k].deleted /\ row.deletedAt = regKeys[k].deletedAt
           \/ /\ ~regKeys[k].deleted /\ row.deleted /\ row.deletedAt = moment'
              /\ row.lost = regKeys[k].lost /\ row.lostAt = regKeys[k].lostAt
  <2> DEFINE lost == [regKeys[k] EXCEPT !.lost = TRUE, !.lostAt = moment']
             gone == [regKeys[k] EXCEPT !.deleted = TRUE, !.deletedAt = moment']
  <2>1. /\ lost \in KeyRow /\ lost.there /\ lost.lost /\ lost.lostAt = moment'
        /\ lost.deleted = regKeys[k].deleted /\ lost.deletedAt = regKeys[k].deletedAt
    BY <1>1 DEF KeyRow
  <2>2. /\ gone \in KeyRow /\ gone.there /\ gone.deleted /\ gone.deletedAt = moment'
        /\ gone.lost = regKeys[k].lost /\ gone.lostAt = regKeys[k].lostAt
    BY <1>1 DEF KeyRow
  <2>3. Bump(lost).there = lost.there /\ Bump(gone).there = gone.there
    BY <2>1, <2>2 DEF Bump, KeyRow
  <2>4. ReportKeyLost(k) => ~regKeys[k].lost /\ regKeys' = [regKeys EXCEPT ![k] = Bump(lost)]
    BY DEF ReportKeyLost
  <2>5. DeleteKey(k) => ~regKeys[k].deleted /\ regKeys' = [regKeys EXCEPT ![k] = Bump(gone)]
    BY DEF DeleteKey
  <2> HIDE DEF lost, gone
  <2>6. CASE ReportKeyLost(k)
    <3>1. /\ Bump(lost) \in KeyRow /\ Bump(lost).there /\ Bump(lost).lost /\ Bump(lost).lostAt = moment'
          /\ Bump(lost).deleted = regKeys[k].deleted /\ Bump(lost).deletedAt = regKeys[k].deletedAt
      BY <2>1, <2>3, KeyRows
    <3> QED
      BY <2>4, <2>6, <3>1
  <2>7. CASE DeleteKey(k)
    <3>1. /\ Bump(gone) \in KeyRow /\ Bump(gone).there /\ Bump(gone).deleted /\ Bump(gone).deletedAt = moment'
          /\ Bump(gone).lost = regKeys[k].lost /\ Bump(gone).lostAt = regKeys[k].lostAt
      BY <2>2, <2>3, KeyRows
    <3> QED
      BY <2>5, <2>7, <3>1
  <2> QED
    BY <2>6, <2>7
<1>3. /\ outs' = [o \in Outs |-> IF o \in OpenOuts(k) THEN [outs[o] EXCEPT !.inAt = moment'] ELSE outs[o]]
  BY DEF ReportKeyLost, DeleteKey, Closed
<1>4. ASSUME NEW o \in Outs
      PROVE  /\ outs'[o] \in OutRow /\ outs'[o].key = outs[o].key /\ outs'[o].photo = outs[o].photo
             /\ outs[o].key # k => outs'[o] = outs[o]
             /\ outs[o].key = k => outs'[o].inAt = IF outs[o].inAt = 0 THEN moment' ELSE outs[o].inAt
  <2>1. outs[o] \in OutRow
    BY DEF KeysInv, KeysTypeOK
  <2>2. /\ [outs[o] EXCEPT !.inAt = moment'] \in OutRow
        /\ [outs[o] EXCEPT !.inAt = moment'].key = outs[o].key
        /\ [outs[o] EXCEPT !.inAt = moment'].photo = outs[o].photo
        /\ [outs[o] EXCEPT !.inAt = moment'].inAt = moment'
    BY <1>1, <2>1 DEF OutRow
  <2> QED
    BY <1>3, <2>1, <2>2 DEF OpenOuts
<1>5. outs' \in [Outs -> OutRow]
  BY <1>3, <1>4
<1>6. ASSUME NEW o \in Outs, outs[o].key = k PROVE (OutRowsAreWhole(o) /\ ClosedByTheReport(o))'
  <2>1. outs'[o].inAt # 0 /\ outs'[o].key = k /\ k # NoKey
    BY <1>1, <1>4, <1>6, KeysConstants
  <2>2. regKeys'[k] = row
    BY <1>2 DEF KeysInv, KeysTypeOK
  <2>3. CASE outs[o].inAt = 0
    BY <1>2, <1>4, <1>6, <2>1, <2>2, <2>3 DEF OutRowsAreWhole, ClosedByTheReport
  <2>4. CASE outs[o].inAt # 0
    <3>1. outs'[o].inAt = outs[o].inAt /\ outs'[o].photo = outs[o].photo /\ ClosedByTheReport(o)
      BY <1>4, <1>6, <2>4 DEF KeysInv
    <3> QED
      BY <1>2, <1>6, <2>1, <2>2, <3>1 DEF OutRowsAreWhole, ClosedByTheReport
  <2> QED
    BY <2>3, <2>4
<1>7. \A o \in Outs : outs[o].key = k => outs'[o].inAt # 0
  BY <1>1, <1>4
<1> QED
  BY <1>1, <1>2, <1>4, <1>5, <1>6, <1>7, OneKey

\* Every checkout a report or a delete closed is open again, and no other.
LEMMA Restores ==
  ASSUME KeysInv, NEW k \in RegKeys, RestoreKey(k) PROVE KeysInv'
<1> DEFINE kept == [regKeys[k] EXCEPT !.lost = FALSE, !.deleted = FALSE]
           row == Bump(kept)
<1>1. regKeys[k] \in KeyRow /\ moment' \in Nat
  BY DEF KeysInv, KeysTypeOK, RestoreKey
<1>2. kept \in KeyRow /\ ~kept.lost /\ ~kept.deleted
  BY <1>1 DEF KeyRow
<1>3. row \in KeyRow /\ ~row.lost /\ ~row.deleted
  BY <1>2, KeyRows
<1>4. /\ regKeys' = [regKeys EXCEPT ![k] = row]
      /\ outs' = [o \in Outs |-> IF outs[o].key = k /\ Reopens(k, outs[o])
                                 THEN [outs[o] EXCEPT !.inAt = 0] ELSE outs[o]]
  BY DEF RestoreKey
<1> HIDE DEF row
<1>5. ASSUME NEW o \in Outs
      PROVE  /\ outs'[o] \in OutRow /\ outs'[o].key = outs[o].key /\ outs'[o].photo = outs[o].photo
             /\ outs[o].key # k => outs'[o] = outs[o]
             /\ outs[o].key = k => outs'[o].inAt = IF Reopens(k, outs[o]) THEN 0 ELSE outs[o].inAt
  <2>1. outs[o] \in OutRow
    BY DEF KeysInv, KeysTypeOK
  <2>2. /\ [outs[o] EXCEPT !.inAt = 0] \in OutRow
        /\ [outs[o] EXCEPT !.inAt = 0].key = outs[o].key
        /\ [outs[o] EXCEPT !.inAt = 0].photo = outs[o].photo
        /\ [outs[o] EXCEPT !.inAt = 0].inAt = 0
    BY <2>1 DEF OutRow
  <2> QED
    BY <1>4, <2>1, <2>2
<1>6. outs' \in [Outs -> OutRow]
  BY <1>4, <1>5
<1>7. ASSUME NEW o \in Outs, outs[o].key = k PROVE (OutRowsAreWhole(o) /\ ClosedByTheReport(o))'
  <2>1. outs'[o].key = k /\ k # NoKey /\ OutRowsAreWhole(o) /\ ClosedByTheReport(o)
    BY <1>5, <1>7, KeysConstants DEF KeysInv
  <2>2. CASE ~outs[o].photo
    <3>1. outs[o].inAt = 0 \/ Reopens(k, outs[o])
      BY <1>7, <2>1, <2>2 DEF ClosedByTheReport, Reopens
    <3>2. outs'[o].inAt = 0 /\ outs'[o].photo = outs[o].photo
      BY <1>5, <1>7, <3>1
    <3> QED
      BY <2>1, <2>2, <3>2 DEF OutRowsAreWhole, ClosedByTheReport
  <2>3. CASE outs[o].photo
    <3>1. outs'[o].inAt = outs[o].inAt /\ outs'[o].photo = outs[o].photo
      BY <1>5, <1>7, <2>3 DEF Reopens
    <3> QED
      BY <2>1, <2>3, <3>1 DEF OutRowsAreWhole, ClosedByTheReport
  <2> QED
    BY <2>2, <2>3
<1> QED
  BY <1>1, <1>3, <1>4, <1>5, <1>6, <1>7, OneKey

LEMMA SomeBumped ==
  ASSUME KeysInv, NEW B,
         \/ regKeys' = [k \in RegKeys |-> IF k \in B THEN Bump(regKeys[k]) ELSE regKeys[k]]
         \/ regKeys' = regKeys
  PROVE  /\ regKeys' \in [RegKeys -> KeyRow]
         /\ \A k \in RegKeys : SameFate(regKeys[k], regKeys'[k]) /\ MadeOnce(k)'
<1>1. ASSUME NEW k \in RegKeys
      PROVE  /\ regKeys'[k] \in KeyRow
             /\ SameFate(regKeys[k], regKeys'[k])
             /\ regKeys'[k].there = regKeys[k].there
  <2>1. regKeys[k] \in KeyRow
    BY DEF KeysInv, KeysTypeOK
  <2>2. /\ Bump(regKeys[k]) \in KeyRow /\ SameFate(regKeys[k], Bump(regKeys[k]))
        /\ Bump(regKeys[k]).there = regKeys[k].there
    BY <2>1 DEF Bump, KeyRow, SameFate
  <2>3. regKeys'[k] \in {Bump(regKeys[k]), regKeys[k]}
    OBVIOUS
  <2>4. SameFate(regKeys[k], regKeys[k])
    BY DEF SameFate
  <2> QED
    BY <2>1, <2>2, <2>3, <2>4
<1>2. regKeys' \in [RegKeys -> KeyRow]
  BY <1>1 DEF KeysInv, KeysTypeOK
<1>3. \A k \in RegKeys : MadeOnce(k)'
  BY <1>1 DEF KeysInv, MadeOnce, SameFate
<1> QED
  BY <1>1, <1>2, <1>3

\* A check-in closes with a photo what was open.
LEMMA CheckinsKeep == ASSUME KeysInv, CheckinKeys PROVE KeysInv'
<1>1. PICK O \in SUBSET {o \in Outs : outs[o].key # NoKey} :
        LET shut == {o \in O : outs[o].inAt = 0} IN
        /\ Ticks
        /\ outs' = [o \in Outs |-> IF o \in shut THEN [outs[o] EXCEPT !.inAt = moment', !.photo = TRUE] ELSE outs[o]]
        /\ regKeys' \in {[k \in RegKeys |-> IF \E o \in shut : outs[o].key = k THEN Bump(regKeys[k]) ELSE regKeys[k]],
                         regKeys}
  BY DEF CheckinKeys
<1> DEFINE shut == {o \in O : outs[o].inAt = 0}
           B == {k \in RegKeys : \E o \in shut : outs[o].key = k}
<1>2. \/ regKeys' = [k \in RegKeys |-> IF k \in B THEN Bump(regKeys[k]) ELSE regKeys[k]]
      \/ regKeys' = regKeys
  BY <1>1
<1>3. outs' = [o \in Outs |-> IF o \in shut THEN [outs[o] EXCEPT !.inAt = moment', !.photo = TRUE] ELSE outs[o]]
  BY <1>1
<1>4. \A o \in shut : outs[o].key # NoKey /\ outs[o].inAt = 0
  <2>1. O \subseteq {o \in Outs : outs[o].key # NoKey}
    BY <1>1
  <2> QED
    BY <2>1
<1>5. moment' \in Nat \ {0}
  <2>1. Ticks
    BY <1>1
  <2>2. moment \in Nat
    BY DEF KeysInv, KeysTypeOK
  <2> QED
    BY <2>1, <2>2 DEF Ticks
<1> HIDE DEF shut, B
<1>6. /\ regKeys' \in [RegKeys -> KeyRow]
      /\ \A k \in RegKeys : SameFate(regKeys[k], regKeys'[k]) /\ MadeOnce(k)'
  BY <1>2, SomeBumped
<1>7. ASSUME NEW o \in Outs
      PROVE  /\ outs'[o] \in OutRow /\ outs'[o].key = outs[o].key
             /\ \/ outs'[o] = outs[o]
                \/ outs'[o].inAt # 0 /\ outs'[o].photo /\ outs[o].key # NoKey
  <2>1. outs[o] \in OutRow
    BY DEF KeysInv, KeysTypeOK
  <2> DEFINE shutRow == [outs[o] EXCEPT !.inAt = moment', !.photo = TRUE]
  <2>2. shutRow \in OutRow /\ shutRow.key = outs[o].key /\ shutRow.inAt # 0 /\ shutRow.photo
    BY <1>5, <2>1 DEF OutRow
  <2>3. outs'[o] = IF o \in shut THEN shutRow ELSE outs[o]
    BY <1>3
  <2> HIDE DEF shutRow
  <2> QED
    BY <1>4, <2>1, <2>2, <2>3
<1>8. KeysTypeOK'
  <2>1. outs' \in [Outs -> OutRow]
    BY <1>3, <1>7
  <2> QED
    BY <1>5, <1>6, <2>1 DEF KeysTypeOK
<1>9. ASSUME NEW o \in Outs PROVE (OutRowsAreWhole(o) /\ ClosedByTheReport(o))'
  <2>1. CASE outs'[o].photo
    BY <1>7, <2>1 DEF KeysInv, OutRowsAreWhole, ClosedByTheReport
  <2>2. CASE ~outs'[o].photo
    <3>1. outs'[o] = outs[o] /\ OutRowsAreWhole(o) /\ ClosedByTheReport(o)
      BY <1>7, <2>2 DEF KeysInv
    <3>2. outs[o].key \in RegKeys \cup {NoKey}
      BY DEF KeysInv, KeysTypeOK, OutRow
    <3>3. OutRowsAreWhole(o)'
      BY <3>1 DEF OutRowsAreWhole
    <3>4. outs[o].key \in RegKeys => ClosedByTheReport(o)'
      BY <1>6, <3>1 DEF ClosedByTheReport, SameFate
    <3>5. outs[o].key = NoKey => ClosedByTheReport(o)'
      BY <3>1 DEF ClosedByTheReport, OutRowsAreWhole
    <3> QED
      BY <3>2, <3>3, <3>4, <3>5
  <2> QED
    BY <2>1, <2>2
<1>10. ASSUME NEW k \in RegKeys PROVE (GoneIsNotOut(k) /\ TakenByOne(k) /\ MadeOnce(k))'
  <2>1. GoneIsNotOut(k) /\ TakenByOne(k)
    BY DEF KeysInv
  <2>2. GoneIsNotOut(k)'
    BY <1>6, <1>7, <2>1 DEF GoneIsNotOut, SameFate
  <2>3. {x \in Outs : outs'[x].key = k /\ ~outs'[x].photo} \subseteq {x \in Outs : outs[x].key = k /\ ~outs[x].photo}
    BY <1>7
  <2>4. TakenByOne(k)'
    BY <2>1, <2>3 DEF TakenByOne
  <2> QED
    BY <1>6, <2>2, <2>4
<1> QED
  BY <1>8, <1>9, <1>10 DEF KeysInv

\* A checkout takes a row that was none, for a key that is kept and nobody else's.
LEMMA CheckoutsKeep == ASSUME KeysInv, CheckoutKeys PROVE KeysInv'
<1>1. PICK K \in (SUBSET RegKeys) \ {{}}, s \in Sigs \cup {NoSig} :
        \E f \in [K -> {o \in Outs : outs[o] = NoOut}] :
          /\ \A k \in K : CanGoOut(k)
          /\ \A k, l \in K : f[k] = f[l] => k = l
          /\ SignatureFree(s)
          /\ outs' = [o \in Outs |-> IF \E k \in K : f[k] = o
                       THEN [NoOut EXCEPT !.key = CHOOSE k \in K : f[k] = o, !.sig = s] ELSE outs[o]]
          /\ regKeys' \in {[k \in RegKeys |-> IF k \in K THEN Bump(regKeys[k]) ELSE regKeys[k]], regKeys}
          /\ UNCHANGED <<keyForm, moment>>
  BY DEF CheckoutKeys
<1>2. PICK f \in [K -> {o \in Outs : outs[o] = NoOut}] :
          /\ \A k \in K : CanGoOut(k)
          /\ \A k, l \in K : f[k] = f[l] => k = l
          /\ SignatureFree(s)
          /\ outs' = [o \in Outs |-> IF \E k \in K : f[k] = o
                       THEN [NoOut EXCEPT !.key = CHOOSE k \in K : f[k] = o, !.sig = s] ELSE outs[o]]
          /\ regKeys' \in {[k \in RegKeys |-> IF k \in K THEN Bump(regKeys[k]) ELSE regKeys[k]], regKeys}
          /\ UNCHANGED <<keyForm, moment>>
  BY <1>1
<1>3. /\ regKeys' \in [RegKeys -> KeyRow]
      /\ \A k \in RegKeys : SameFate(regKeys[k], regKeys'[k]) /\ MadeOnce(k)'
  <2>1. \/ regKeys' = [k \in RegKeys |-> IF k \in K THEN Bump(regKeys[k]) ELSE regKeys[k]]
        \/ regKeys' = regKeys
    BY <1>2
  <2> QED
    BY <2>1, SomeBumped
<1>4. ASSUME NEW o \in Outs, NEW k \in K, f[k] = o
      PROVE  /\ outs'[o] \in OutRow /\ outs'[o].key = k /\ outs'[o].inAt = 0 /\ ~outs'[o].photo
             /\ outs[o] = NoOut
  <2>1. (CHOOSE l \in K : f[l] = o) = k
    BY <1>2, <1>4
  <2>2. outs'[o] = [NoOut EXCEPT !.key = k, !.sig = s]
    BY <1>2, <1>4, <2>1
  <2> QED
    BY <1>4, <2>2, NothingIsOut DEF OutRow
<1>5. ASSUME NEW o \in Outs, ~\E k \in K : f[k] = o PROVE outs'[o] = outs[o] /\ outs[o] \in OutRow
  BY <1>2, <1>5 DEF KeysInv, KeysTypeOK
<1>6. KeysTypeOK'
  <2>1. \A o \in Outs : outs'[o] \in OutRow
    BY <1>4, <1>5
  <2>2. outs' \in [Outs -> OutRow]
    BY <1>2, <2>1
  <2> QED
    BY <1>2, <1>3, <2>2 DEF KeysInv, KeysTypeOK
<1>7. ASSUME NEW o \in Outs PROVE (OutRowsAreWhole(o) /\ ClosedByTheReport(o))'
  <2>1. ASSUME NEW k \in K, f[k] = o PROVE (OutRowsAreWhole(o) /\ ClosedByTheReport(o))'
    BY <1>4, <2>1, KeysConstants DEF OutRowsAreWhole, ClosedByTheReport
  <2>2. CASE ~\E k \in K : f[k] = o
    <3>1. outs'[o] = outs[o] /\ OutRowsAreWhole(o) /\ ClosedByTheReport(o)
      BY <1>5, <2>2 DEF KeysInv
    <3>2. outs[o].key \in RegKeys \cup {NoKey}
      BY DEF KeysInv, KeysTypeOK, OutRow
    <3>3. OutRowsAreWhole(o)'
      BY <3>1 DEF OutRowsAreWhole
    <3>4. outs[o].key \in RegKeys => ClosedByTheReport(o)'
      BY <1>3, <3>1 DEF ClosedByTheReport, SameFate
    <3>5. outs[o].key = NoKey => ClosedByTheReport(o)'
      BY <3>1 DEF ClosedByTheReport, OutRowsAreWhole
    <3> QED
      BY <3>2, <3>3, <3>4, <3>5
  <2> QED
    BY <2>1, <2>2
<1>8. ASSUME NEW k \in RegKeys PROVE (GoneIsNotOut(k) /\ TakenByOne(k) /\ MadeOnce(k))'
  <2>1. GoneIsNotOut(k) /\ TakenByOne(k)
    BY DEF KeysInv
  <2>2. CASE k \in K
    <3>1. CanGoOut(k) /\ ~regKeys[k].lost /\ ~regKeys[k].deleted
      BY <1>2, <2>2 DEF CanGoOut
    <3>2. ~regKeys'[k].lost /\ ~regKeys'[k].deleted
      BY <1>3, <3>1 DEF SameFate
    <3>3. ASSUME k \notin Codes, NEW o \in Outs, outs'[o].key = k, ~outs'[o].photo PROVE o = f[k]
      <4>1. CASE \E l \in K : f[l] = o
        BY <1>4, <3>3, <4>1
      <4>2. CASE ~\E l \in K : f[l] = o
        <5>1. outs[o].key = k /\ ~outs[o].photo /\ outs[o].inAt # 0
          BY <1>5, <3>1, <3>3, <4>2 DEF CanGoOut, OpenOuts
        <5> QED
          BY <3>1, <5>1 DEF KeysInv, ClosedByTheReport
      <4> QED
        BY <4>1, <4>2
    <3>4. TakenByOne(k)'
      BY <3>3 DEF TakenByOne
    <3> QED
      BY <1>3, <3>2, <3>4 DEF GoneIsNotOut
  <2>3. CASE k \notin K
    <3>1. ASSUME NEW o \in Outs, outs'[o].key = k PROVE outs'[o] = outs[o]
      BY <1>4, <1>5, <2>3, <3>1
    <3>2. GoneIsNotOut(k)'
      BY <1>3, <2>1, <3>1 DEF GoneIsNotOut, SameFate
    <3>3. {x \in Outs : outs'[x].key = k /\ ~outs'[x].photo} \subseteq {x \in Outs : outs[x].key = k /\ ~outs[x].photo}
      BY <3>1
    <3>4. TakenByOne(k)'
      BY <2>1, <3>3 DEF TakenByOne
    <3> QED
      BY <1>3, <3>2, <3>4
  <2> QED
    BY <2>2, <2>3
<1> QED
  BY <1>6, <1>7, <1>8 DEF KeysInv

LEMMA KeysStep == KeysInv /\ [KeysNext]_keyVars => KeysInv'
<1> SUFFICES ASSUME KeysInv, [KeysNext]_keyVars PROVE KeysInv'
  OBVIOUS
<1>1. CASE UNCHANGED keyVars
  BY <1>1 DEF keyVars, KeysInv, KeysTypeOK, OutRowsAreWhole, ClosedByTheReport, GoneIsNotOut, TakenByOne, MadeOnce
<1> QED
  BY <1>1, KeysAreMade, ReadersAndEdits, ReportsAndDeletes, Restores, CheckoutsKeep, CheckinsKeep DEF KeysNext

(* A physical key is never out to two people, and a checkout that ended without  *)
(* a check-in is of a key that is lost or deleted still, for any keys, people and *)
(* order of reports, deletes, restores and check-ins (checkoutKeys, restoreKey). *)
THEOREM HoldersStayOnRecord == KeysSpec => []HoldersOnRecord
  BY KeysStart, KeysStep, KeysAgree, PTL DEF KeysSpec

-----------------------------------------------------------------------------
(* Assets: what a verification vouches for.                                *)

AssetRow == [state : {Unset, "live", "archived"}, place : Places \cup {Unset},
             parent : AssetIds \cup {Unset}, cat : Categories, typed : BOOLEAN,
             seen : SUBSET ((Places \cup {Unset}) \X Categories \X BOOLEAN)]

Edits == {"create", "place", "parent", "type", "category", "confirm"}

\* A call that is one of those made, whatever it has decided of the stamp.
IsMade(c) == \E d \in Upserts \cup Others : c.op = d.op /\ c.of = d.of /\ c.to = d.to

\* What a call decided of the row it locked is still so.
StampFits(c) ==
  /\ c.op \in Edits \ {"create"} => c.stamp = ResolveVerification(c)
  /\ c.op = "create" => c.stamp = Unset

\* Two calls under way have locked two rows.
CallsHoldTheirRows ==
  /\ calls = [k \in Clerks |-> calls[k]]
  /\ \A j, k \in Clerks : j # k /\ calls[j] # NoCall /\ calls[k] # NoCall => calls[j].of # calls[k].of
  /\ \A k \in Clerks : calls[k] # NoCall => IsMade(calls[k]) /\ StampFits(calls[k])

AssetsInv ==
  /\ assets \in [AssetIds -> AssetRow]
  /\ CallsHoldTheirRows /\ VerifiedIsAsSeen

LEMMA NoAssetIsARow == NoAsset \in AssetRow /\ NoAsset.seen = {}
  BY AssetsConstants DEF NoAsset, AssetRow

LEMMA AssetsStart == AssetsInit => AssetsInv
<1> SUFFICES ASSUME AssetsInit PROVE AssetsInv
  OBVIOUS
<1>1. assets \in [AssetIds -> AssetRow] /\ VerifiedIsAsSeen
  BY NoAssetIsARow DEF AssetsInit, VerifiedIsAsSeen
<1>2. CallsHoldTheirRows
  BY DEF AssetsInit, CallsHoldTheirRows
<1> QED
  BY <1>1, <1>2 DEF AssetsInv

\* What the operation of a call says of the row it locks and the value it brings.
LEMMA CallsAreOfRows ==
  ASSUME NEW c, IsMade(c)
  PROVE  /\ c.op \in Edits \cup {"verify", "archive", "restore", "active", "move", "retire"}
         /\ c.op \in Edits \cup {"verify", "archive", "restore"} => c.of \in AssetIds
         /\ c.op \in {"create", "place"} => c.to \in Places \cup {Unset}
         /\ c.op = "parent" => c.to \in AssetIds \cup {Unset}
         /\ c.op = "category" => c.to \in Categories
<1>1. PICK d \in Upserts \cup Others : c.op = d.op /\ c.of = d.of /\ c.to = d.to
  BY DEF IsMade
<1>2. CASE d \in Upserts
  BY <1>1, <1>2 DEF Upserts, Call, Edits
<1>3. CASE d \in Others
  BY <1>1, <1>3 DEF Others, Call, Edits
<1> QED
  BY <1>2, <1>3

\* The row a call leaves.
Outcome(c) ==
  CASE c.op \in Edits -> Stamped(Changed(assets[c.of], c), c.stamp)
    [] c.op = "verify" -> Stamped(assets[c.of], "stamp")
    [] OTHER -> [assets[c.of] EXCEPT !.state = IF c.op = "archive" THEN "archived" ELSE "live"]

LEMMA OneRowIsWritten ==
  ASSUME NEW c, IsMade(c), Write(c), assets \in [AssetIds -> AssetRow]
  PROVE  \/ c.of \in AssetIds /\ assets' = [assets EXCEPT ![c.of] = Outcome(c)]
            /\ c.op \in Edits \cup {"verify", "archive", "restore"}
         \/ assets' = assets
<1>1. CASE c.op \in Edits
  BY <1>1, CallsAreOfRows DEF Write, Outcome, Edits
<1>2. CASE c.op = "verify"
  BY <1>2, CallsAreOfRows DEF Write, Outcome, Edits
<1>3. CASE c.op \in {"archive", "restore"}
  <2>1. c.of \in AssetIds /\ assets' = [assets EXCEPT ![c.of].state = IF c.op = "archive" THEN "archived" ELSE "live"]
    BY <1>3, CallsAreOfRows DEF Write
  <2>2. Outcome(c) = [assets[c.of] EXCEPT !.state = IF c.op = "archive" THEN "archived" ELSE "live"]
    BY <1>3 DEF Outcome, Edits
  <2> QED
    BY <1>3, <2>1, <2>2
<1>4. CASE c.op \in {"active", "move", "retire"}
  BY <1>4 DEF Write
<1> QED
  BY <1>1, <1>2, <1>3, <1>4, CallsAreOfRows

LEMMA AStampIsTheRow ==
  ASSUME NEW row \in AssetRow, NEW stamp
  PROVE  /\ Stamped(row, stamp) \in AssetRow
         /\ stamp = "stamp" => Stamped(row, stamp).seen = {Identity(Stamped(row, stamp))}
         /\ stamp = "clear" => Stamped(row, stamp).seen = {}
         /\ stamp \notin {"stamp", "clear"} => Stamped(row, stamp) = row
<1>1. Identity(row) \in (Places \cup {Unset}) \X Categories \X BOOLEAN
  BY DEF Identity, AssetRow
<1>2. [row EXCEPT !.seen = {Identity(row)}] \in AssetRow /\ [row EXCEPT !.seen = {}] \in AssetRow
  BY <1>1 DEF AssetRow
<1>3. Identity([row EXCEPT !.seen = {Identity(row)}]) = Identity(row)
  BY DEF Identity, AssetRow
<1>4. /\ [row EXCEPT !.seen = {Identity(row)}].seen = {Identity(row)}
      /\ [row EXCEPT !.seen = {}].seen = {}
  BY DEF AssetRow
<1>5. CASE stamp = "stamp"
  BY <1>2, <1>3, <1>4, <1>5 DEF Stamped
<1>6. CASE stamp = "clear"
  BY <1>2, <1>4, <1>6 DEF Stamped
<1>7. CASE stamp \notin {"stamp", "clear"}
  BY <1>7 DEF Stamped
<1> QED
  BY <1>5, <1>6, <1>7

LEMMA AChangeIsOfOneField ==
  ASSUME NEW row \in AssetRow, NEW c, IsMade(c), c.op \in Edits
  PROVE  /\ Changed(row, c) \in AssetRow
         /\ Changed(row, c).seen = IF c.op = "create" THEN {} ELSE row.seen
<1>1. CASE c.op = "create"
  <2>1. c.to \in Places \cup {Unset} /\ Changed(row, c) = [NoAsset EXCEPT !.state = "live", !.place = c.to]
    BY <1>1, CallsAreOfRows DEF Changed
  <2> QED
    BY <1>1, <2>1, NoAssetIsARow DEF AssetRow
<1>2. CASE c.op = "place"
  <2>1. c.to \in Places \cup {Unset} /\ Changed(row, c) = [row EXCEPT !.place = c.to]
    BY <1>2, CallsAreOfRows DEF Changed
  <2> QED
    BY <1>2, <2>1 DEF AssetRow
<1>3. CASE c.op = "parent"
  <2>1. c.to \in AssetIds \cup {Unset} /\ Changed(row, c) = [row EXCEPT !.parent = c.to]
    BY <1>3, CallsAreOfRows DEF Changed
  <2> QED
    BY <1>3, <2>1 DEF AssetRow
<1>4. CASE c.op = "type"
  <2>1. (c.to = "on") \in BOOLEAN /\ Changed(row, c) = [row EXCEPT !.typed = (c.to = "on")]
    BY <1>4 DEF Changed
  <2> QED
    BY <1>4, <2>1 DEF AssetRow
<1>5. CASE c.op = "category"
  <2>1. c.to \in Categories /\ Changed(row, c) = [row EXCEPT !.cat = c.to]
    BY <1>5, CallsAreOfRows DEF Changed
  <2> QED
    BY <1>5, <2>1 DEF AssetRow
<1>6. CASE c.op = "confirm"
  BY <1>6 DEF Changed
<1> QED
  BY <1>1, <1>2, <1>3, <1>4, <1>5, <1>6 DEF Edits

LEMMA OutcomesAreAsSeen ==
  ASSUME AssetsInv, NEW c, IsMade(c), StampFits(c), c.of \in AssetIds,
         c.op \in Edits \cup {"verify", "archive", "restore"}
  PROVE  Outcome(c) \in AssetRow /\ Outcome(c).seen \subseteq {Identity(Outcome(c))}
<1> DEFINE row == assets[c.of]
           new == Changed(row, c)
<1>1. row \in AssetRow /\ row.seen \subseteq {Identity(row)}
  BY DEF AssetsInv, VerifiedIsAsSeen
<1>2. CASE c.op \in Edits
  <2>1. new \in AssetRow /\ new.seen = IF c.op = "create" THEN {} ELSE row.seen
    BY <1>1, <1>2, AChangeIsOfOneField
  <2>2. Outcome(c) = Stamped(new, c.stamp)
    BY <1>2 DEF Outcome, Edits
  <2>3. CASE c.op = "create"
    <3>1. c.stamp \notin {"stamp", "clear"}
      <4>1. c.stamp = "none"
        BY <2>3 DEF StampFits, Unset
      <4> QED
        BY <4>1
    <3> QED
      BY <2>1, <2>2, <2>3, <3>1, AStampIsTheRow
  <2>4. CASE c.op # "create"
    <3>1. c.stamp = ResolveVerification(c) /\ new.seen = row.seen
      BY <1>2, <2>1, <2>4 DEF StampFits
    <3>2. c.stamp \in {"stamp", "clear"} \/ row.seen = {} \/ Identity(new) = Identity(row)
      BY <3>1 DEF ResolveVerification
    <3> HIDE DEF new
    <3>3. Stamped(new, c.stamp) \in AssetRow
      BY <2>1, AStampIsTheRow
    <3>4. CASE c.stamp \in {"stamp", "clear"}
      BY <2>1, <2>2, <3>3, <3>4, AStampIsTheRow
    <3>5. CASE c.stamp \notin {"stamp", "clear"}
      BY <1>1, <2>1, <2>2, <3>1, <3>2, <3>5, AStampIsTheRow
    <3> QED
      BY <3>4, <3>5
  <2> QED
    BY <2>3, <2>4
<1>3. CASE c.op = "verify"
  <2>1. Outcome(c) = Stamped(row, "stamp")
    BY <1>3 DEF Outcome, Edits
  <2> QED
    BY <1>1, <2>1, AStampIsTheRow
<1>4. CASE c.op \in {"archive", "restore"}
  <2> DEFINE s == IF c.op = "archive" THEN "archived" ELSE "live"
  <2>1. Outcome(c) = [row EXCEPT !.state = s]
    BY <1>4 DEF Outcome, Edits
  <2>2. s \in {"archived", "live"}
    OBVIOUS
  <2> HIDE DEF s
  <2>3. [row EXCEPT !.state = s] \in AssetRow /\ [row EXCEPT !.state = s].seen = row.seen
    BY <1>1, <2>2 DEF AssetRow
  <2>4. Identity([row EXCEPT !.state = s]) = Identity(row)
    BY <1>1 DEF Identity, AssetRow
  <2> QED
    BY <1>1, <2>1, <2>3, <2>4
<1> QED
  BY <1>2, <1>3, <1>4

\* A call's decision stands while nobody writes the row it holds.
LEMMA DecisionsStand ==
  ASSUME NEW c, NEW d, c.op = d.op, c.of = d.of, c.to = d.to, assets'[d.of] = assets[c.of]
  PROVE  ResolveVerification(d)' = ResolveVerification(c)
  BY DEF ResolveVerification, Changed

\* A write of a call that holds its row leaves the row as seen and the other calls' rows alone.
LEMMA WritesKeep ==
  ASSUME AssetsInv, NEW c, IsMade(c), StampFits(c), Write(c)
  PROVE  /\ assets' \in [AssetIds -> AssetRow] /\ VerifiedIsAsSeen'
         /\ \A d : d # c.of => assets'[d] = assets[d]
<1>1. CASE assets' = assets
  BY <1>1 DEF AssetsInv, VerifiedIsAsSeen
<1>2. CASE c.of \in AssetIds /\ assets' = [assets EXCEPT ![c.of] = Outcome(c)]
           /\ c.op \in Edits \cup {"verify", "archive", "restore"}
  <2>1. Outcome(c) \in AssetRow /\ Outcome(c).seen \subseteq {Identity(Outcome(c))}
    BY <1>2, OutcomesAreAsSeen
  <2>2. assets' \in [AssetIds -> AssetRow]
    BY <1>2, <2>1 DEF AssetsInv
  <2>3. ASSUME NEW a \in AssetIds PROVE assets'[a].seen \subseteq {Identity(assets'[a])}
    <3>1. CASE a = c.of
      BY <1>2, <2>1, <3>1 DEF AssetsInv
    <3>2. CASE a # c.of
      BY <1>2, <3>2 DEF AssetsInv, VerifiedIsAsSeen
    <3> QED
      BY <3>1, <3>2
  <2>4. VerifiedIsAsSeen'
    BY <2>3 DEF VerifiedIsAsSeen
  <2>5. \A d : d # c.of => assets'[d] = assets[d]
    BY <1>2 DEF AssetsInv
  <2> QED
    BY <2>2, <2>4, <2>5
<1> QED
  BY <1>1, <1>2, OneRowIsWritten DEF AssetsInv

\* A call that begins, or runs at once, has decided its stamp on the row it reads.
LEMMA ResolvedIsMade ==
  ASSUME NEW c \in Upserts \cup Others
  PROVE  /\ IsMade(ResolvedFields(c)) /\ StampFits(ResolvedFields(c))
         /\ ResolvedFields(c).of = c.of
<1>1. c.stamp = Unset /\ IsMade(c) /\ c = [op |-> c.op, of |-> c.of, to |-> c.to, stamp |-> Unset]
  BY DEF Upserts, Others, Call, IsMade
<1>2. CASE c.op \in Edits \ {"create"}
  <2>1. ResolvedFields(c) = [c EXCEPT !.stamp = ResolveVerification(c)]
    BY <1>2 DEF ResolvedFields, Edits
  <2> DEFINE d == [c EXCEPT !.stamp = ResolveVerification(c)]
  <2>2. d.op = c.op /\ d.of = c.of /\ d.to = c.to /\ d.stamp = ResolveVerification(c)
    BY <1>1
  <2>3. ResolveVerification(d) = ResolveVerification(c)
    BY <2>2 DEF ResolveVerification, Changed
  <2> HIDE DEF d
  <2>4. IsMade(d) /\ StampFits(d)
    BY <1>1, <1>2, <2>2, <2>3 DEF IsMade, StampFits
  <2> QED
    BY <2>1, <2>2, <2>4 DEF d
<1>3. CASE c.op \notin Edits \ {"create"}
  <2>1. ResolvedFields(c) = c
    BY <1>3 DEF ResolvedFields, Edits
  <2> QED
    BY <1>1, <1>3, <2>1 DEF StampFits
<1> QED
  BY <1>2, <1>3

LEMMA BeginsKeep ==
  ASSUME AssetsInv, NEW k \in Clerks, NEW c \in Upserts \cup Others, Begin(k, c) PROVE AssetsInv'
<1> DEFINE d == ResolvedFields(c)
<1>1. IsMade(d) /\ StampFits(d) /\ d.of = c.of
  BY ResolvedIsMade
<1>2. calls' = [calls EXCEPT ![k] = d] /\ assets' = assets /\ \A j \in Clerks : calls[j].of # d.of
  BY <1>1 DEF Begin, Unlocked
<1> HIDE DEF d
<1>3. calls = [j \in Clerks |-> calls[j]]
  BY DEF AssetsInv, CallsHoldTheirRows
<1>4. calls'[k] = d /\ \A j \in Clerks : j # k => calls'[j] = calls[j]
  BY <1>2, <1>3
<1>5. calls' = [j \in Clerks |-> calls'[j]]
  BY <1>2, <1>3
<1>6. \A i, j \in Clerks : i # j /\ calls'[i] # NoCall /\ calls'[j] # NoCall => calls'[i].of # calls'[j].of
  BY <1>2, <1>4 DEF AssetsInv, CallsHoldTheirRows
<1>7. ASSUME NEW j \in Clerks, calls'[j] # NoCall
      PROVE  IsMade(calls'[j]) /\ StampFits(calls[j])'
  <2>1. IsMade(calls'[j]) /\ StampFits(calls'[j])
    BY <1>1, <1>4, <1>7 DEF AssetsInv, CallsHoldTheirRows
  <2>2. ResolveVerification(calls[j])' = ResolveVerification(calls'[j])
    BY <1>2 DEF ResolveVerification
  <2> QED
    BY <2>1, <2>2 DEF StampFits
<1>8. \A j \in Clerks : calls'[j] # NoCall => IsMade(calls[j])' /\ StampFits(calls[j])'
  BY <1>7 DEF IsMade
<1>9. CallsHoldTheirRows'
  BY <1>5, <1>6, <1>8 DEF CallsHoldTheirRows
<1> QED
  BY <1>2, <1>9 DEF AssetsInv, VerifiedIsAsSeen

\* Calls that remain under way still hold their rows.
LEMMA CallsStand ==
  ASSUME AssetsInv, NEW k, calls' = [calls EXCEPT ![k] = NoCall] \/ calls' = calls,
         \A j \in Clerks : calls'[j] # NoCall => assets'[calls[j].of] = assets[calls[j].of]
  PROVE  CallsHoldTheirRows'
<1>1. calls = [j \in Clerks |-> calls[j]]
  BY DEF AssetsInv, CallsHoldTheirRows
<1>2. calls' = [j \in Clerks |-> calls'[j]] /\ \A j \in Clerks : calls'[j] # NoCall => calls'[j] = calls[j]
  BY <1>1
<1>3. \A i, j \in Clerks : i # j /\ calls'[i] # NoCall /\ calls'[j] # NoCall => calls'[i].of # calls'[j].of
  BY <1>2 DEF AssetsInv, CallsHoldTheirRows
<1>4. ASSUME NEW j \in Clerks, calls'[j] # NoCall PROVE IsMade(calls[j])' /\ StampFits(calls[j])'
  <2>1. calls'[j] = calls[j] /\ IsMade(calls[j]) /\ StampFits(calls[j])
    BY <1>2, <1>4 DEF AssetsInv, CallsHoldTheirRows
  <2>2. ResolveVerification(calls[j])' = ResolveVerification(calls[j])
    BY <1>4, <2>1, DecisionsStand
  <2> QED
    BY <2>1, <2>2 DEF StampFits, IsMade
<1> QED
  BY <1>2, <1>3, <1>4 DEF CallsHoldTheirRows

LEMMA AssetsStep == AssetsInv /\ [AssetsNext]_assetVars => AssetsInv'
<1> SUFFICES ASSUME AssetsInv, [AssetsNext]_assetVars PROVE AssetsInv'
  OBVIOUS
<1>1. ASSUME NEW k \in Clerks, Commit(k) PROVE AssetsInv'
  <2>1. /\ IsMade(calls[k]) /\ StampFits(calls[k]) /\ Write(calls[k])
        /\ calls' = [calls EXCEPT ![k] = NoCall]
    BY <1>1 DEF Commit, AssetsInv, CallsHoldTheirRows
  <2>2. /\ assets' \in [AssetIds -> AssetRow] /\ VerifiedIsAsSeen'
        /\ \A d : d # calls[k].of => assets'[d] = assets[d]
    BY <2>1, WritesKeep
  <2>3. \A j \in Clerks : calls'[j] # NoCall => j # k /\ calls[j] # NoCall
    BY <2>1 DEF AssetsInv, CallsHoldTheirRows
  <2>4. \A j \in Clerks : calls'[j] # NoCall => assets'[calls[j].of] = assets[calls[j].of]
    BY <1>1, <2>2, <2>3 DEF AssetsInv, CallsHoldTheirRows, Commit
  <2> QED
    BY <2>1, <2>2, <2>4, CallsStand DEF AssetsInv
<1>2. ASSUME NEW k \in Clerks, GiveUp(k) PROVE AssetsInv'
  BY <1>2, CallsStand DEF GiveUp, AssetsInv, VerifiedIsAsSeen
<1>3. ASSUME NEW c \in Upserts \cup Others, AtOnce(c) PROVE AssetsInv'
  <2> DEFINE d == ResolvedFields(c)
  <2>1. IsMade(d) /\ StampFits(d) /\ d.of = c.of
    BY ResolvedIsMade
  <2>2. Write(d) /\ calls' = calls /\ \A j \in Clerks : calls[j].of # d.of
    BY <1>3, <2>1 DEF AtOnce, Unlocked
  <2> HIDE DEF d
  <2>3. /\ assets' \in [AssetIds -> AssetRow] /\ VerifiedIsAsSeen'
        /\ \A b : b # d.of => assets'[b] = assets[b]
    BY <2>1, <2>2, WritesKeep
  <2> QED
    BY <2>2, <2>3, CallsStand DEF AssetsInv
<1>4. ASSUME NEW k \in Clerks, NEW c \in Upserts \cup Others, Begin(k, c) PROVE AssetsInv'
  BY <1>4, BeginsKeep
<1>5. CASE UNCHANGED assetVars
  BY <1>5, CallsStand DEF assetVars, AssetsInv, VerifiedIsAsSeen
<1> QED
  BY <1>1, <1>2, <1>3, <1>4, <1>5 DEF AssetsNext

(* A verified asset is the thing somebody vouched for, for any assets, places     *)
(* and callers: an edit that read the row before a verification of it commits is *)
(* kept out by the row's lock (resolveVerification, fetchAsset with forUpdate).  *)
THEOREM VerifiedStaysAsSeen == AssetsSpec => []VerifiedIsAsSeen
<1>1. AssetsInv => VerifiedIsAsSeen
  BY DEF AssetsInv
<1> QED
  BY <1>1, AssetsStart, AssetsStep, PTL DEF AssetsSpec

-----------------------------------------------------------------------------
(* Procedures: a version in force.                                         *)

EditionRow == [status : {"draft", "published", "archived"}, blank : BOOLEAN, at : Nat,
               asked : Writers \cup {NoSheet}]

DocumentRow == [made : BOOLEAN, audience : Audiences, authority : Authorities, policy : Nat]

\* A document that was not made has no editions.
ProceduresInv ==
  /\ document \in DocumentRow
  /\ editions \in Seq(EditionRow) /\ second \in Nat
  /\ editions # << >> => document.made
  /\ asking \in [Writers -> {NoSheet} \cup [edition : Nat, approver : Writers]]

LEMMA ProceduresStart == ProceduresInit => ProceduresInv
  BY ProceduresAssumption DEF ProceduresInit, ProceduresInv, DocumentRow, Authorities

\* Every edition keeps its number; what it says may change.
LEMMA EditionsRewritten ==
  ASSUME ProceduresInv, editions' = [v \in DOMAIN editions |-> editions'[v]],
         \A v \in DOMAIN editions : editions'[v] \in EditionRow
  PROVE  editions' \in Seq(EditionRow) /\ DOMAIN editions' = DOMAIN editions
         /\ (editions' # << >> => editions # << >>)
<1>1. DOMAIN editions = 1..Len(editions) /\ Len(editions) \in Nat
  BY DEF ProceduresInv
<1>2. editions' \in [1..Len(editions) -> EditionRow]
  BY <1>1
<1>3. editions' \in Seq(EditionRow) /\ Len(editions') = Len(editions)
  BY <1>1, <1>2
<1> QED
  BY <1>1, <1>3 DEF ProceduresInv

LEMMA SavesKeep ==
  ASSUME ProceduresInv, NEW p \in Writers, NEW audience \in Audiences, NEW blank \in BOOLEAN,
         NEW token \in BOOLEAN, SaveProcedureDraft(p, audience, blank, token)
  PROVE  ProceduresInv' /\ (InForce # {} => InForce' # {})
<1> DEFINE text == [status |-> "draft", blank |-> blank, at |-> second, asked |-> NoSheet]
<1>1. text \in EditionRow /\ text.status = "draft"
  BY DEF ProceduresInv, EditionRow
<1>2. document' \in DocumentRow /\ document'.made
  BY DEF SaveProcedureDraft, MakeDocument, ProceduresInv, DocumentRow
<1>3. second' = second /\ asking' = asking
  BY DEF SaveProcedureDraft
<1>4. CASE OpenDrafts = {}
  <2>1. editions' = Append(editions, text)
    BY <1>4 DEF SaveProcedureDraft, WriteDraft
  <2> HIDE DEF text
  <2>2. editions' \in Seq(EditionRow) /\ \A v \in DOMAIN editions : v \in DOMAIN editions' /\ editions'[v] = editions[v]
    BY <1>1, <2>1 DEF ProceduresInv
  <2>3. InForce \subseteq InForce'
    BY <2>2 DEF InForce
  <2> QED
    BY <1>2, <1>3, <2>2, <2>3 DEF ProceduresInv
<1>5. CASE OpenDrafts # {}
  <2>1. editions' = [v \in DOMAIN editions |-> IF v \in OpenDrafts THEN text ELSE editions[v]]
    BY <1>5 DEF SaveProcedureDraft, WriteDraft
  <2> HIDE DEF text
  <2>2. \A v \in DOMAIN editions : editions[v] \in EditionRow
    BY DEF ProceduresInv
  <2>3. editions' \in Seq(EditionRow) /\ DOMAIN editions' = DOMAIN editions
    BY <1>1, <2>1, <2>2, EditionsRewritten
  <2>4. InForce \subseteq InForce'
    BY <2>1, <2>3 DEF InForce, OpenDrafts
  <2> QED
    BY <1>2, <1>3, <2>3, <2>4 DEF ProceduresInv
<1> QED
  BY <1>4, <1>5

LEMMA AsksKeep ==
  ASSUME ProceduresInv, NEW p \in Writers,
         AskWrites(p) \/ \E approver \in Writers : AskReads(p, approver)
  PROVE  ProceduresInv' /\ (InForce # {} => InForce' # {})
<1>1. CASE AskWrites(p)
  <2> DEFINE v == asking[p].edition
             row == [editions[v] EXCEPT !.asked = asking[p].approver]
  <2>1. asking[p] \in [edition : Nat, approver : Writers]
    BY <1>1 DEF ProceduresInv, AskWrites
  <2>2. asking' = [asking EXCEPT ![p] = NoSheet] /\ document' = document /\ second' = second
    BY <1>1 DEF AskWrites
  <2>3. CASE v \in OpenDrafts
    <3>1. v \in DOMAIN editions /\ editions[v] \in EditionRow
      BY <2>3 DEF OpenDrafts, ProceduresInv
    <3>2. row \in EditionRow /\ row.status = editions[v].status
      BY <2>1, <3>1 DEF EditionRow
    <3>3. editions' = [editions EXCEPT ![v] = row]
      BY <1>1, <2>3 DEF AskWrites, StillADraft
    <3> HIDE DEF row, v
    <3>4. editions' \in Seq(EditionRow) /\ DOMAIN editions' = DOMAIN editions /\ editions # << >>
      BY <3>1, <3>2, <3>3 DEF ProceduresInv
    <3>5. InForce \subseteq InForce'
      BY <3>1, <3>2, <3>3, <3>4 DEF InForce
    <3> QED
      BY <2>2, <3>4, <3>5 DEF ProceduresInv
  <2>4. CASE v \notin OpenDrafts
    BY <1>1, <2>2, <2>4 DEF AskWrites, StillADraft, ProceduresInv, InForce
  <2> QED
    BY <2>3, <2>4
<1>2. ASSUME NEW approver \in Writers, AskReads(p, approver)
      PROVE  ProceduresInv' /\ (InForce # {} => InForce' # {})
  <2>1. /\ editions' = editions /\ document' = document /\ second' = second
        /\ asking' = [asking EXCEPT ![p] = [edition |-> sheets[p].edition, approver |-> approver]]
        /\ sheets[p].edition \in OpenDrafts
    BY <1>2 DEF AskReads, StillADraft
  <2>2. sheets[p].edition \in Nat
    BY <2>1 DEF OpenDrafts, ProceduresInv
  <2> QED
    BY <2>1, <2>2 DEF ProceduresInv, InForce
<1> QED
  BY <1>1, <1>2

\* The draft is in force before the transaction that retires the incumbent ends.
LEMMA PublishKeeps ==
  ASSUME ProceduresInv, NEW p \in Writers, PublishProcedure(p)
  PROVE  ProceduresInv' /\ InForce' # {}
<1> DEFINE v == sheets[p].edition
           next(w) == IF w \in InForce THEN [editions[w] EXCEPT !.status = "archived"]
                      ELSE IF w = v /\ w \in OpenDrafts THEN [editions[w] EXCEPT !.status = "published"]
                      ELSE editions[w]
<1>1. v \in OpenDrafts /\ editions' = [w \in DOMAIN editions |-> next(w)]
  BY DEF PublishProcedure, DraftThere
<1>2. document' = document /\ second' = second /\ asking' = asking
  BY DEF PublishProcedure
<1>3. \A w \in DOMAIN editions : editions[w] \in EditionRow
  BY DEF ProceduresInv
<1>4. \A row \in EditionRow : /\ [row EXCEPT !.status = "archived"] \in EditionRow
                              /\ [row EXCEPT !.status = "published"] \in EditionRow
                              /\ [row EXCEPT !.status = "published"].status = "published"
  BY DEF EditionRow
<1>5. \A w \in DOMAIN editions : next(w) \in EditionRow
  BY <1>3, <1>4
<1>6. v \in DOMAIN editions /\ v \notin InForce
  BY <1>1 DEF OpenDrafts, InForce
<1>7. next(v).status = "published"
  BY <1>1, <1>3, <1>4, <1>6
<1> HIDE DEF next, v
<1>8. /\ editions' \in Seq(EditionRow) /\ DOMAIN editions' = DOMAIN editions
      /\ editions' # << >> => editions # << >>
  BY <1>1, <1>5, EditionsRewritten
<1>9. v \in InForce'
  BY <1>1, <1>6, <1>7, <1>8 DEF InForce
<1> QED
  BY <1>2, <1>8, <1>9 DEF ProceduresInv

LEMMA ProceduresStep ==
  ProceduresInv /\ [ProceduresNext]_procedureVars => ProceduresInv' /\ (InForce # {} => InForce' # {})
<1> DEFINE Kept == ProceduresInv' /\ (InForce # {} => InForce' # {})
<1> SUFFICES ASSUME ProceduresInv, [ProceduresNext]_procedureVars PROVE Kept
  OBVIOUS
<1>1. ASSUME UNCHANGED <<editions, second, asking>>, document' \in DocumentRow, document'.made = document.made
      PROVE  Kept
  BY <1>1 DEF ProceduresInv, InForce
<1>2. ASSUME NEW p \in Writers, GetProcedures(p) PROVE Kept
  BY <1>1, <1>2 DEF GetProcedures, ProceduresInv
<1>3. ASSUME NEW p \in Writers, NEW authority \in Authorities, SetProcedureEndorsement(p, authority) PROVE Kept
  <2>1. document' \in DocumentRow /\ document'.made = document.made
    <3>1. document' = [document EXCEPT !.authority = authority, !.policy = document.policy + 1]
      BY <1>3 DEF SetProcedureEndorsement
    <3>2. document \in DocumentRow
      BY DEF ProceduresInv
    <3>3. document.policy + 1 \in Nat
      BY <3>2 DEF DocumentRow
    <3> QED
      BY <3>1, <3>2, <3>3 DEF DocumentRow
  <2> QED
    BY <1>1, <1>3, <2>1 DEF SetProcedureEndorsement
<1>4. ASSUME NEW audience \in Audiences, NEW status \in {"draft", "published", "archived"},
             InsertSeedEntry(audience, status)
      PROVE  Kept
  <2> DEFINE row == [status |-> status, blank |-> FALSE, at |-> second, asked |-> NoSheet]
  <2>1. row \in EditionRow
    BY DEF ProceduresInv, EditionRow
  <2>2. editions' = <<row>> /\ second' = second /\ asking' = asking /\ ~document.made
    BY <1>4 DEF InsertSeedEntry
  <2>3. document' \in DocumentRow /\ document'.made
    BY <1>4 DEF InsertSeedEntry, ProceduresInv, DocumentRow
  <2> HIDE DEF row
  <2>4. InForce = {}
    BY <2>2 DEF ProceduresInv, InForce
  <2> QED
    BY <2>1, <2>2, <2>3, <2>4 DEF ProceduresInv
<1>5. CASE SecondPasses
  BY <1>5 DEF SecondPasses, ProceduresInv, InForce
<1>6. CASE UNCHANGED procedureVars
  BY <1>1, <1>6 DEF procedureVars, ProceduresInv
<1> QED
  BY <1>2, <1>3, <1>4, <1>5, <1>6, SavesKeep, AsksKeep, PublishKeeps DEF ProceduresNext

(* Once a version of a procedure is in force some version always is, for any     *)
(* people, roles and old screens: publishing retires the incumbent only with the *)
(* draft it has read under lock (publishProcedure).                              *)
THEOREM ProceduresStayInForce == ProceduresSpec => StaysInForce
<1>1. ProceduresSpec => []ProceduresInv
  BY ProceduresStart, ProceduresStep, PTL DEF ProceduresSpec
<1>2. ProceduresInv /\ [ProceduresNext]_procedureVars => [InForce # {} => InForce' # {}]_procedureVars
  BY ProceduresStep
<1> QED
  BY <1>1, <1>2, PTL DEF ProceduresSpec, StaysInForce

-----------------------------------------------------------------------------
(* TenancySchedule: what a page shows, what was signed, what is relieved.   *)

Shows == [vals : [Fields -> Nat], sv : Nat, rv : Nat, iv : Nat]

TenancyRow == [vals : [Fields -> Nat], sv : Nat, rv : Nat, iv : Nat, signed : BOOLEAN,
               ratified : SUBSET Reliefs, expiry : LastDays, open : BOOLEAN]

\* A page is the row as it was: of no later version, and the same where its version is.
IsOld(shown) ==
  /\ shown \in Shows
  /\ shown.sv <= tenancy.sv /\ shown.rv <= tenancy.rv /\ shown.iv <= tenancy.iv
  /\ shown.rv = tenancy.rv => shown.vals = tenancy.vals
  /\ shown.sv = tenancy.sv => \A f \in Vouched : shown.vals[f] = tenancy.vals[f]
  /\ shown.iv = tenancy.iv => shown.vals["infoSheet"] = tenancy.vals["infoSheet"]

PagesAreOld ==
  /\ \A u \in Editors : page[u] # NoPage => IsOld(page[u])
  /\ cached # NoPage => IsOld(cached)
  /\ reading # NoPage => IsOld(reading)

TsInv ==
  /\ tenancy \in TenancyRow /\ page = [u \in Editors |-> page[u]]
  /\ PagesAreOld /\ NoBlindSave /\ SignedIsWhatStands /\ ReliefsKeepApart

LEMMA TsStart == TsInit => TsInv
<1> SUFFICES ASSUME TsInit PROVE TsInv
  OBVIOUS
<1>1. PICK d \in LastDays : tenancy = NewTenancy(d)
  BY DEF TsInit
<1>2. tenancy \in TenancyRow /\ ~tenancy.signed /\ tenancy.ratified = {}
  BY <1>1 DEF NewTenancy, TenancyRow
<1> QED
  BY <1>2 DEF TsInit, TsInv, PagesAreOld, NoBlindSave, SignedIsWhatStands, ReliefsKeepApart

LEMMA FieldsAreKnown == Vouched \subseteq Fields /\ {"contact", "leaseAdministration", "infoSheet"} \subseteq Fields \ Vouched
  BY DEF Fields, Vouched, ScheduleColumns

\* A row that moves on leaves old pages old.
MovesOn(next) ==
  /\ next \in TenancyRow
  /\ tenancy.sv <= next.sv /\ tenancy.rv <= next.rv /\ tenancy.iv <= next.iv
  /\ next.rv = tenancy.rv => next.vals = tenancy.vals
  /\ next.sv = tenancy.sv => \A f \in Vouched : next.vals[f] = tenancy.vals[f]
  /\ next.iv = tenancy.iv => next.vals["infoSheet"] = tenancy.vals["infoSheet"]

LEMMA OldStaysOld ==
  ASSUME TsInv, NEW shown, IsOld(shown), MovesOn(tenancy')
  PROVE  IsOld(shown)'
BY DEF IsOld, MovesOn, TsInv, TenancyRow, Shows

LEMMA PagesKeep ==
  ASSUME TsInv, MovesOn(tenancy'),
         \A u \in Editors : page'[u] = page[u] \/ page'[u] = NoPage,
         cached' = cached \/ cached' = NoPage, reading' = reading \/ reading' = NoPage
  PROVE  PagesAreOld'
<1>1. ASSUME NEW u \in Editors, page'[u] # NoPage PROVE IsOld(page[u])'
  <2>1. page'[u] = page[u] /\ IsOld(page[u])
    BY <1>1 DEF TsInv, PagesAreOld
  <2>2. IsOld(page'[u])
    BY <2>1
  <2>3. IsOld(page[u])'
    BY <2>1, OldStaysOld DEF IsOld
  <2> QED
    BY <2>3
<1>2. ASSUME cached' # NoPage PROVE IsOld(cached)'
  <2>1. cached' = cached /\ IsOld(cached)
    BY <1>2 DEF TsInv, PagesAreOld
  <2> QED
    BY <2>1, OldStaysOld DEF IsOld
<1>3. ASSUME reading' # NoPage PROVE IsOld(reading)'
  <2>1. reading' = reading /\ IsOld(reading)
    BY <1>3 DEF TsInv, PagesAreOld
  <2> QED
    BY <2>1, OldStaysOld DEF IsOld
<1> QED
  BY <1>1, <1>2, <1>3 DEF PagesAreOld

LEMMA SavedKeeps ==
  ASSUME TsInv, NEW u \in Readers, NEW f \in Fields, NEW versioned \in BOOLEAN, NEW t, MovesOn(t),
         t.ratified = tenancy.ratified,
         versioned => page[u].vals[f] = tenancy.vals[f],
         t.signed => tenancy.signed /\ \A g \in Vouched : t.vals[g] = tenancy.vals[g],
         Saved(u, f, versioned, t)
  PROVE  TsInv'
<1>1. /\ tenancy' = t /\ page' = [page EXCEPT ![u] = NoPage] /\ reading' = reading
      /\ cached' = cached \/ cached' = NoPage
      /\ signedAs' = IF t.signed THEN signedAs ELSE NoPage
  BY DEF Saved, Invalidated
<1>2. page' = [w \in Editors |-> page'[w]] /\ \A w \in Editors : page'[w] = page[w] \/ page'[w] = NoPage
  BY <1>1 DEF TsInv
<1>3. blind' = {}
  BY DEF Saved, TsInv, NoBlindSave
<1>4. MovesOn(tenancy')
  BY <1>1
<1>5. PagesAreOld'
  BY <1>1, <1>2, <1>4, PagesKeep
<1>6. SignedIsWhatStands'
  <2>1. ASSUME t.signed PROVE signedAs' = [g \in Vouched |-> t.vals[g]]
    BY <1>1, <2>1 DEF TsInv, SignedIsWhatStands
  <2> QED
    BY <1>1, <2>1 DEF SignedIsWhatStands
<1>7. ReliefsKeepApart'
  BY <1>1 DEF TsInv, ReliefsKeepApart
<1> QED
  BY <1>1, <1>2, <1>3, <1>4, <1>5, <1>6, <1>7 DEF TsInv, NoBlindSave, MovesOn

LEMMA WrittenIsTheNextSave ==
  ASSUME TsInv, NEW f \in Fields
  PROVE  LET t == Written(f, tenancy) IN
         /\ t \in TenancyRow /\ t.rv = tenancy.rv + 1
         /\ t.sv = tenancy.sv /\ t.iv = tenancy.iv /\ t.signed = tenancy.signed
         /\ t.ratified = tenancy.ratified
         /\ \A g \in Fields : g # f => t.vals[g] = tenancy.vals[g]
<1> DEFINE v == [tenancy.vals EXCEPT ![f] = tenancy.rv + 1]
           n == tenancy.rv + 1
           t == [tenancy EXCEPT !.vals = v, !.rv = n]
<1>1. tenancy \in TenancyRow
  BY DEF TsInv
<1>2. tenancy.vals \in [Fields -> Nat] /\ n \in Nat
  BY <1>1 DEF TenancyRow
<1>3. v \in [Fields -> Nat] /\ \A g \in Fields : g # f => v[g] = tenancy.vals[g]
  BY <1>2
<1>4. Written(f, tenancy) = t
  BY <1>1 DEF Written, TenancyRow
<1> HIDE DEF v, n
<1>5. /\ t \in TenancyRow /\ t.rv = n /\ t.vals = v
      /\ t.sv = tenancy.sv /\ t.iv = tenancy.iv /\ t.signed = tenancy.signed
      /\ t.ratified = tenancy.ratified
  BY <1>1, <1>2, <1>3 DEF TenancyRow
<1> HIDE DEF t
<1> QED
  BY <1>3, <1>4, <1>5 DEF n

LEMMA SignOffsAreCleared ==
  ASSUME NEW t \in TenancyRow
  PROVE  /\ ClearsSignOff(t) \in TenancyRow /\ ~ClearsSignOff(t).signed
         /\ ClearsSignOff(t).sv = t.sv /\ ClearsSignOff(t).rv = t.rv /\ ClearsSignOff(t).iv = t.iv
         /\ ClearsSignOff(t).vals = t.vals /\ ClearsSignOff(t).ratified = t.ratified
  BY DEF ClearsSignOff, TenancyRow

LEMMA ScheduleWritesKeep ==
  ASSUME TsInv, NEW u \in Readers, NEW c \in ScheduleColumns, NEW versioned \in BOOLEAN,
         RunScheduleWrite(u, c, versioned)
  PROVE  TsInv'
<1> DEFINE w == Written(c, tenancy)
           m == [w EXCEPT !.sv = @ + 1]
           t == ClearsSignOff(m)
<1>1. c \in Fields /\ c # "infoSheet" /\ c \in Vouched
  BY DEF Fields, Vouched, ScheduleColumns
<1>2. /\ w \in TenancyRow /\ w.rv = tenancy.rv + 1 /\ w.sv = tenancy.sv /\ w.iv = tenancy.iv
      /\ w.ratified = tenancy.ratified /\ w.vals["infoSheet"] = tenancy.vals["infoSheet"]
  BY <1>1, WrittenIsTheNextSave, FieldsAreKnown
<1>3. tenancy \in TenancyRow
  BY DEF TsInv
<1> HIDE DEF w
<1>4. /\ t \in TenancyRow /\ ~t.signed /\ t.sv = w.sv + 1 /\ t.rv = w.rv /\ t.iv = w.iv
      /\ t.vals = w.vals /\ t.ratified = w.ratified
  <2>1. w.sv + 1 \in Nat
    BY <1>2 DEF TenancyRow
  <2>2. /\ m \in TenancyRow /\ m.sv = w.sv + 1 /\ m.rv = w.rv /\ m.iv = w.iv
        /\ m.vals = w.vals /\ m.ratified = w.ratified
    BY <1>2, <2>1 DEF TenancyRow
  <2> HIDE DEF m
  <2> QED
    BY <2>2, SignOffsAreCleared
<1>5. (versioned => SameSchedule(u)) /\ Saved(u, c, versioned, t)
  BY DEF RunScheduleWrite, w
<1> HIDE DEF t
<1>6. MovesOn(t)
  BY <1>2, <1>3, <1>4 DEF MovesOn, TenancyRow
<1>7. versioned => page[u].vals[c] = tenancy.vals[c]
  BY <1>1, <1>5 DEF SameSchedule, TsInv, PagesAreOld, IsOld, Readers
<1> QED
  BY <1>1, <1>2, <1>4, <1>5, <1>6, <1>7, SavedKeeps

LEMMA TermsKeep ==
  ASSUME TsInv, NEW u \in Readers, NEW d \in LastDays, NEW versioned \in BOOLEAN,
         UpdateTerms(u, d, versioned)
  PROVE  TsInv'
<1> DEFINE w == Written("terms", tenancy)
           m == [w EXCEPT !.sv = @ + 1, !.expiry = d]
           t == ClearsSignOff(m)
<1>1. "terms" \in Fields /\ "terms" \in Vouched
  BY DEF Fields, Vouched, ScheduleColumns
<1>2. /\ w \in TenancyRow /\ w.rv = tenancy.rv + 1 /\ w.sv = tenancy.sv /\ w.iv = tenancy.iv
      /\ w.ratified = tenancy.ratified /\ w.vals["infoSheet"] = tenancy.vals["infoSheet"]
  BY <1>1, WrittenIsTheNextSave, FieldsAreKnown
<1>3. tenancy \in TenancyRow
  BY DEF TsInv
<1> HIDE DEF w
<1>4. /\ t \in TenancyRow /\ ~t.signed /\ t.sv = w.sv + 1 /\ t.rv = w.rv /\ t.iv = w.iv
      /\ t.vals = w.vals /\ t.ratified = w.ratified
  <2>1. w.sv + 1 \in Nat
    BY <1>2 DEF TenancyRow
  <2>2. /\ m \in TenancyRow /\ m.sv = w.sv + 1 /\ m.rv = w.rv /\ m.iv = w.iv
        /\ m.vals = w.vals /\ m.ratified = w.ratified
    BY <1>2, <2>1 DEF TenancyRow
  <2> HIDE DEF m
  <2> QED
    BY <2>2, SignOffsAreCleared
<1>5. (versioned => SameRow(u)) /\ Saved(u, "terms", versioned, t)
  BY DEF UpdateTerms, w
<1> HIDE DEF t
<1>6. MovesOn(t)
  BY <1>2, <1>3, <1>4 DEF MovesOn, TenancyRow
<1>7. versioned => page[u].vals["terms"] = tenancy.vals["terms"]
  BY <1>1, <1>5 DEF SameRow, TsInv, PagesAreOld, IsOld, Readers
<1> QED
  BY <1>1, <1>2, <1>4, <1>5, <1>6, <1>7, SavedKeeps

\* Contacts, lease administration and the sheet leave a sign-off, and what it vouches for, alone.
LEMMA DetailsKeep ==
  ASSUME TsInv, NEW u \in Readers, NEW versioned \in BOOLEAN,
         UpdateContact(u, versioned) \/ UpsertLeaseAdministration(u, versioned)
  PROVE  TsInv'
<1>1. PICK f \in {"contact", "leaseAdministration"} :
        (versioned => SameRow(u)) /\ Saved(u, f, versioned, Written(f, tenancy))
  BY DEF UpdateContact, UpsertLeaseAdministration
<1> DEFINE w == Written(f, tenancy)
<1>2. f \in Fields \ Vouched /\ f # "infoSheet"
  BY FieldsAreKnown
<1>3. /\ w \in TenancyRow /\ w.rv = tenancy.rv + 1 /\ w.sv = tenancy.sv /\ w.iv = tenancy.iv
      /\ w.signed = tenancy.signed /\ w.ratified = tenancy.ratified
      /\ \A g \in Fields : g # f => w.vals[g] = tenancy.vals[g]
  BY <1>2, WrittenIsTheNextSave
<1>4. tenancy \in TenancyRow
  BY DEF TsInv
<1>5. Saved(u, f, versioned, w) /\ (versioned => SameRow(u))
  BY <1>1
<1> HIDE DEF w
<1>6. (\A g \in Vouched : w.vals[g] = tenancy.vals[g]) /\ w.vals["infoSheet"] = tenancy.vals["infoSheet"]
  BY <1>2, <1>3, FieldsAreKnown
<1>7. MovesOn(w)
  BY <1>3, <1>4, <1>6 DEF MovesOn, TenancyRow
<1>8. versioned => page[u].vals[f] = tenancy.vals[f]
  BY <1>2, <1>5 DEF SameRow, TsInv, PagesAreOld, IsOld, Readers
<1> QED
  BY <1>2, <1>3, <1>5, <1>6, <1>7, <1>8, SavedKeeps

LEMMA SheetsKeep ==
  ASSUME TsInv, NEW u \in Readers, WriteInfoSheet(u) PROVE TsInv'
<1> DEFINE w == Written("infoSheet", tenancy)
           t == [w EXCEPT !.iv = @ + 1]
<1>1. "infoSheet" \in Fields \ Vouched
  BY FieldsAreKnown
<1>2. /\ w \in TenancyRow /\ w.rv = tenancy.rv + 1 /\ w.sv = tenancy.sv /\ w.iv = tenancy.iv
      /\ w.signed = tenancy.signed /\ w.ratified = tenancy.ratified
      /\ \A g \in Fields : g # "infoSheet" => w.vals[g] = tenancy.vals[g]
  BY <1>1, WrittenIsTheNextSave
<1>3. tenancy \in TenancyRow
  BY DEF TsInv
<1> HIDE DEF w
<1>4. /\ t \in TenancyRow /\ t.iv = w.iv + 1 /\ t.rv = w.rv /\ t.sv = w.sv
      /\ t.vals = w.vals /\ t.ratified = w.ratified /\ t.signed = w.signed
  BY <1>2 DEF TenancyRow
<1>5. SameSheet(u) /\ Saved(u, "infoSheet", TRUE, t)
  BY DEF WriteInfoSheet, w
<1> HIDE DEF t
<1>6. \A g \in Vouched : t.vals[g] = tenancy.vals[g]
  BY <1>1, <1>2, <1>4, FieldsAreKnown
<1>7. MovesOn(t)
  BY <1>2, <1>3, <1>4, <1>6 DEF MovesOn, TenancyRow
<1>8. page[u].vals["infoSheet"] = tenancy.vals["infoSheet"]
  BY <1>5 DEF SameSheet, TsInv, PagesAreOld, IsOld, Readers
<1>9. t.signed => tenancy.signed
  BY <1>2, <1>4
<1>10. t.ratified = tenancy.ratified
  BY <1>2, <1>4
<1> QED
  BY <1>1, <1>5, <1>6, <1>7, <1>8, <1>9, <1>10, SavedKeeps

\* The pages a step opens are old ones, those it leaves stay so.
LEMMA ReadingKeeps ==
  ASSUME TsInv, tenancy' = tenancy, signedAs' = signedAs, blind' = blind,
         page' = [u \in Editors |-> page'[u]],
         \A u \in Editors : page'[u] \in {page[u], NoPage, cached, reading},
         cached' \in {cached, NoPage, reading}, reading' \in {reading, NoPage, Shown}
  PROVE  TsInv'
<1>1. IsOld(Shown)
  BY DEF Shown, IsOld, Shows, TsInv, TenancyRow
<1>2. \A x : x # NoPage /\ x \in {cached, reading, Shown} => IsOld(x)
  BY <1>1 DEF TsInv, PagesAreOld
<1>3. \A u \in Editors : page'[u] # NoPage => IsOld(page'[u])
  BY <1>2 DEF TsInv, PagesAreOld
<1>4. \A x : IsOld(x) => x \in Shows
                         /\ x.sv <= tenancy'.sv /\ x.rv <= tenancy'.rv /\ x.iv <= tenancy'.iv
                         /\ (x.rv = tenancy'.rv => x.vals = tenancy'.vals)
                         /\ (x.sv = tenancy'.sv => \A f \in Vouched : x.vals[f] = tenancy'.vals[f])
                         /\ (x.iv = tenancy'.iv => x.vals["infoSheet"] = tenancy'.vals["infoSheet"])
  BY DEF IsOld
<1>5. \A u \in Editors : page'[u] # NoPage => IsOld(page[u])'
  BY <1>3, <1>4 DEF IsOld
<1>6. (cached' # NoPage => IsOld(cached)') /\ (reading' # NoPage => IsOld(reading)')
  <2>1. (cached' # NoPage => IsOld(cached')) /\ (reading' # NoPage => IsOld(reading'))
    BY <1>2
  <2> QED
    BY <1>4, <2>1 DEF IsOld
<1> QED
  BY <1>5, <1>6 DEF TsInv, PagesAreOld, NoBlindSave, SignedIsWhatStands, ReliefsKeepApart

\* The row moves on in another way than by a save of a field.
LEMMA RowKeeps ==
  ASSUME TsInv, MovesOn(tenancy'), blind' = blind, reading' = reading, cached' \in {NoPage, cached},
         \/ page' = page
         \/ \E u : page' = [page EXCEPT ![u] = NoPage],
         SignedIsWhatStands', ReliefsKeepApart'
  PROVE  TsInv'
<1>1. page' = [u \in Editors |-> page'[u]] /\ \A u \in Editors : page'[u] = page[u] \/ page'[u] = NoPage
  BY DEF TsInv
<1>2. PagesAreOld'
  BY <1>1, PagesKeep
<1> QED
  BY <1>1, <1>2 DEF TsInv, NoBlindSave, MovesOn

LEMMA SameTermsMoveOn ==
  ASSUME TsInv, NEW s \in {0, 1}, NEW n \in {0, 1}, NEW next \in TenancyRow, next.vals = tenancy.vals,
         next.sv = tenancy.sv + s, next.rv = tenancy.rv + n, next.iv = tenancy.iv
  PROVE  MovesOn(next)
  BY DEF MovesOn, TsInv, TenancyRow

LEMMA RecategoriseKeeps == ASSUME TsInv, NEW u, RecategoriseFee(u) PROVE TsInv'
<1> DEFINE n == tenancy.rv + 1
           m == tenancy.sv + 1
           t == [tenancy EXCEPT !.sv = m, !.rv = n]
<1>1. tenancy \in TenancyRow /\ n \in Nat /\ m \in Nat
  BY DEF TsInv, TenancyRow
<1>2. /\ tenancy' = t /\ signedAs' = signedAs /\ blind' = blind /\ reading' = reading
      /\ cached' \in {NoPage, cached} /\ page' = [page EXCEPT ![u] = NoPage]
  BY DEF RecategoriseFee, Invalidated
<1> HIDE DEF n, m
<1>3. /\ t \in TenancyRow /\ t.vals = tenancy.vals /\ t.sv = m /\ t.rv = n /\ t.iv = tenancy.iv
      /\ t.signed = tenancy.signed /\ t.ratified = tenancy.ratified
  BY <1>1 DEF TenancyRow
<1> HIDE DEF t
<1>4. MovesOn(t)
  BY <1>3, SameTermsMoveOn DEF n, m
<1>5. SignedIsWhatStands' /\ ReliefsKeepApart'
  BY <1>2, <1>3 DEF TsInv, SignedIsWhatStands, ReliefsKeepApart
<1> QED
  BY <1>2, <1>4, <1>5, RowKeeps

\* Signing, revoking and closing move the row's version only.
LEMMA SignOffsKeep ==
  ASSUME TsInv, RevokeSignOff \/ CloseTenancy \/ \E u : SignOff(u) PROVE TsInv'
<1> DEFINE n == tenancy.rv + 1
<1>1. tenancy \in TenancyRow /\ n \in Nat
  BY DEF TsInv, TenancyRow
<1>2. /\ blind' = blind /\ reading' = reading /\ cached' \in {NoPage, cached}
      /\ (page' = page \/ \E u : page' = [page EXCEPT ![u] = NoPage])
  BY DEF RevokeSignOff, CloseTenancy, SignOff, Invalidated
<1>3. PICK b \in BOOLEAN, o \in BOOLEAN :
        /\ tenancy' = [tenancy EXCEPT !.signed = b, !.open = o, !.rv = n]
        /\ \/ b /\ signedAs' = [f \in Vouched |-> tenancy.vals[f]]
           \/ ~b
           \/ b = tenancy.signed /\ signedAs' = signedAs
  <2>1. tenancy.open \in BOOLEAN /\ tenancy.signed \in BOOLEAN
    BY <1>1 DEF TenancyRow
  <2>2. CASE RevokeSignOff
    <3>1. tenancy' = [tenancy EXCEPT !.signed = FALSE, !.open = tenancy.open, !.rv = n]
      BY <1>1, <2>2 DEF RevokeSignOff, TenancyRow
    <3> QED
      BY <2>1, <3>1
  <2>3. CASE CloseTenancy
    <3>1. tenancy' = [tenancy EXCEPT !.signed = tenancy.signed, !.open = FALSE, !.rv = n]
          /\ signedAs' = signedAs
      BY <1>1, <2>3 DEF CloseTenancy, TenancyRow
    <3> QED
      BY <2>1, <3>1
  <2>4. ASSUME NEW u, SignOff(u)
        PROVE  tenancy' = [tenancy EXCEPT !.signed = TRUE, !.open = tenancy.open, !.rv = n]
               /\ signedAs' = [f \in Vouched |-> tenancy.vals[f]]
    BY <1>1, <2>4 DEF SignOff, TenancyRow
  <2> QED
    BY <2>1, <2>2, <2>3, <2>4
<1> DEFINE t == [tenancy EXCEPT !.signed = b, !.open = o, !.rv = n]
<1> HIDE DEF n
<1>4. /\ t \in TenancyRow /\ t.vals = tenancy.vals /\ t.sv = tenancy.sv /\ t.rv = n /\ t.iv = tenancy.iv
      /\ t.signed = b /\ t.ratified = tenancy.ratified
  BY <1>1 DEF TenancyRow
<1>5. tenancy' = t
  BY <1>3
<1> HIDE DEF t
<1>6. MovesOn(t)
  <2>1. t.sv = tenancy.sv + 0
    BY <1>1, <1>4 DEF TenancyRow
  <2> QED
    BY <1>4, <2>1, SameTermsMoveOn DEF n
<1>7. SignedIsWhatStands'
  BY <1>3, <1>4, <1>5 DEF TsInv, SignedIsWhatStands
<1>8. ReliefsKeepApart'
  BY <1>4, <1>5 DEF TsInv, ReliefsKeepApart
<1> QED
  BY <1>2, <1>5, <1>6, <1>7, <1>8, RowKeeps

\* A relief joins the schedule only clear of those already there.
LEMMA RatifyKeeps ==
  ASSUME TsInv, NEW u, NEW r \in Reliefs, RatifyScheduleChange(u, r) PROVE TsInv'
<1> DEFINE n == tenancy.rv + 1
           m == tenancy.sv + 1
           R == tenancy.ratified \cup {r}
           t == [tenancy EXCEPT !.ratified = R, !.sv = m, !.rv = n]
<1>1. tenancy \in TenancyRow /\ n \in Nat /\ m \in Nat /\ R \in SUBSET Reliefs
  BY DEF TsInv, TenancyRow
<1>2. /\ tenancy' = t /\ signedAs' = signedAs /\ blind' = blind /\ reading' = reading
      /\ cached' \in {NoPage, cached} /\ page' = page
      /\ CheckRelief(r, {})
  BY DEF RatifyScheduleChange, WithRelief, Invalidated
<1> HIDE DEF n, m
<1>3. /\ t \in TenancyRow /\ t.vals = tenancy.vals /\ t.sv = m /\ t.rv = n /\ t.iv = tenancy.iv
      /\ t.signed = tenancy.signed /\ t.ratified = R
  BY <1>1 DEF TenancyRow
<1> HIDE DEF t
<1>4. MovesOn(t)
  BY <1>3, SameTermsMoveOn DEF n, m
<1>5. ASSUME NEW o \in tenancy.ratified, o # r
      PROVE  \/ ReliefSpan[r].to < ReliefSpan[o].from \/ ReliefSpan[o].to < ReliefSpan[r].from
             \/ ReliefSpan[r].scope \cap ReliefSpan[o].scope = {}
  <2>1. ~ReliefsOverlap(ReliefSpan[r], ReliefSpan[o])
    BY <1>2, <1>5 DEF CheckRelief
  <2>2. o \in Reliefs
    BY <1>1 DEF TenancyRow
  <2> QED
    BY <2>1, <2>2, TsConstants DEF ReliefsOverlap
<1>6. ReliefsKeepApart'
  <2> SUFFICES ASSUME NEW a \in R, NEW b \in R, a # b
               PROVE  \/ ReliefSpan[a].to < ReliefSpan[b].from \/ ReliefSpan[b].to < ReliefSpan[a].from
                      \/ ReliefSpan[a].scope \cap ReliefSpan[b].scope = {}
    BY <1>2, <1>3 DEF ReliefsKeepApart
  <2>1. CASE a \in tenancy.ratified /\ b \in tenancy.ratified
    BY <2>1 DEF TsInv, ReliefsKeepApart
  <2>2. CASE a = r
    BY <1>5, <2>2
  <2>3. CASE b = r
    BY <1>5, <2>3
  <2> QED
    BY <2>1, <2>2, <2>3
<1>7. SignedIsWhatStands'
  BY <1>2, <1>3 DEF TsInv, SignedIsWhatStands
<1> QED
  BY <1>2, <1>4, <1>6, <1>7, RowKeeps

LEMMA TsStep == TsInv /\ [TsNext]_tsVars => TsInv'
<1> SUFFICES ASSUME TsInv, [TsNext]_tsVars PROVE TsInv'
  OBVIOUS
<1>0. page = [w \in Editors |-> page[w]]
  BY DEF TsInv
<1>1. CASE ReadStarts \/ CacheExpires \/ UNCHANGED tsVars
  BY <1>0, <1>1, ReadingKeeps DEF ReadStarts, CacheExpires, tsVars
<1>2. ASSUME NEW u \in Editors, OpenCached(u) \/ ReadEnds(u) PROVE TsInv'
  <2>1. page' = [page EXCEPT ![u] = cached] \/ page' = [page EXCEPT ![u] = reading]
    BY <1>2 DEF OpenCached, ReadEnds
  <2>2. page' = [w \in Editors |-> page'[w]] /\ \A w \in Editors : page'[w] \in {page[w], NoPage, cached, reading}
    BY <1>0, <2>1
  <2> QED
    BY <1>2, <2>2, ReadingKeeps DEF OpenCached, ReadEnds
<1>3. ASSUME NEW r \in Reliefs, \/ RejectScheduleChange(r) \/ WithdrawScheduleChange(r)
                                \/ \E u \in Readers : RequestScheduleChange(u, r)
      PROVE  TsInv'
  BY <1>0, <1>3, ReadingKeeps
     DEF RejectScheduleChange, WithdrawScheduleChange, RequestScheduleChange, Invalidated
<1>4. ASSUME NEW u \in Readers, NEW v \in BOOLEAN,
             EditRateSteps(u, v) \/ EditIncentives(u, v) \/ EditCarparkGroups(u, v) \/ EditMiscFees(u, v)
      PROVE  TsInv'
  BY <1>4, ScheduleWritesKeep DEF EditRateSteps, EditIncentives, EditCarparkGroups, EditMiscFees, ScheduleColumns
<1> QED
  BY <1>1, <1>2, <1>3, <1>4, TermsKeep, DetailsKeep, SheetsKeep, RecategoriseKeeps, SignOffsKeep, RatifyKeeps
     DEF TsNext, EditInfoSheetSection, EditInfoSheetRow

(* What a schedule says is what somebody meant, for any editors, caches and       *)
(* reliefs: no versioned save replaces what its page did not show, a sign-off is  *)
(* of what stands, and no relief lies on another (conflictResponse, signOff,      *)
(* checkRelief).                                                                  *)
THEOREM ScheduleStaysMeant == TsSpec => []ScheduleIsMeant
<1>1. TsInv => ScheduleIsMeant
  BY DEF TsInv, ScheduleIsMeant
<1> QED
  BY <1>1, TsStart, TsStep, PTL DEF TsSpec

-----------------------------------------------------------------------------
(* AbsenceCover: who was asked and who has the work.                        *)

WorkRow == [open : BOOLEAN, holder : Staff \cup {Nobody}, asked : SUBSET Staff, ver : Nat]

\* An entry of a run: of an item, from somebody to somebody. One that moves a question is to
\* somebody not asked, unless the question has changed since it was read.
EntryIsSound(e) ==
  /\ e.item \in Items /\ e.from \in Staff /\ e.to \in Staff \cup {Nobody}
  /\ e.item \in Questions => /\ e.ver \in Nat /\ e.ver <= work[e.item].ver
                             /\ e.act = "moved" /\ e.ver = work[e.item].ver
                                  => e.to \in Staff \ work[e.item].asked
  /\ e.act = "moved" => e.to \in Staff

\* A move on record of a question is to somebody it was not first put to.
MoveIsSound(row) ==
  /\ row.item \in Items /\ row.from \in Staff /\ row.to \in Staff
  /\ row.item \in Questions => row.to \notin AskedFirst[row.item]

AcInv ==
  /\ work \in [Items -> WorkRow] /\ told = [i \in Items |-> told[i]]
  /\ plans = [r \in {"timer", "desk"} |-> plans[r]]
  /\ \A r \in {"timer", "desk"} : \A e \in plans[r] : EntryIsSound(e)
  /\ \A row \in moves : MoveIsSound(row)
  /\ AskedStayAsked /\ LogTellsTheHolder

LEMMA AcStart == AcInit => AcInv
<1> SUFFICES ASSUME AcInit PROVE AcInv
  OBVIOUS
<1>1. work \in [Items -> WorkRow]
  BY DEF AcInit, WorkRow
<1>2. AskedStayAsked /\ LogTellsTheHolder
  BY DEF AcInit, AskedStayAsked, LogTellsTheHolder, Items
<1> QED
  BY <1>1, <1>2 DEF AcInit, AcInv

\* Work moves on: what is asked of a question changes only with its version.
WorkMovesOn ==
  /\ work' \in [Items -> WorkRow]
  /\ \A q \in Questions : \/ work'[q].ver = work[q].ver /\ work'[q].asked = work[q].asked
                          \/ work'[q].ver = work[q].ver + 1 /\ AskedFirst[q] \subseteq work'[q].asked

LEMMA EntriesStand ==
  ASSUME AcInv, WorkMovesOn
  PROVE  /\ AskedStayAsked'
         /\ \A e : EntryIsSound(e) => EntryIsSound(e)'
<1>1. \A q \in Questions : work[q] \in WorkRow /\ work'[q] \in WorkRow
  BY DEF AcInv, WorkMovesOn, Items
<1>2. AskedStayAsked'
  BY DEF AcInv, AskedStayAsked, WorkMovesOn
<1>3. ASSUME NEW e, EntryIsSound(e) PROVE EntryIsSound(e)'
  <2>1. CASE e.item \in Questions
    <3>1. /\ e.ver \in Nat /\ e.ver <= work[e.item].ver
          /\ work[e.item].ver \in Nat /\ work'[e.item].ver \in Nat
          /\ e.act = "moved" /\ e.ver = work[e.item].ver => e.to \in Staff \ work[e.item].asked
      BY <1>1, <1>3, <2>1 DEF EntryIsSound, WorkRow
    <3>2. CASE work'[e.item].ver = work[e.item].ver /\ work'[e.item].asked = work[e.item].asked
      BY <1>3, <3>1, <3>2 DEF EntryIsSound
    <3>3. CASE work'[e.item].ver = work[e.item].ver + 1
      <4>1. e.ver <= work'[e.item].ver /\ e.ver # work'[e.item].ver
        BY <3>1, <3>3
      <4> QED
        BY <1>3, <3>1, <4>1 DEF EntryIsSound
    <3> QED
      BY <2>1, <3>2, <3>3 DEF WorkMovesOn
  <2>2. CASE e.item \notin Questions
    BY <1>3, <2>2 DEF EntryIsSound
  <2> QED
    BY <2>1, <2>2
<1> QED
  BY <1>2, <1>3

\* Moving an item, and moving it back.
LEMMA AMoveOfWork ==
  ASSUME AcInv, NEW i \in Items, NEW from, NEW to \in Staff, NEW takeBack \in BOOLEAN,
         i \in Questions /\ takeBack => from \notin AskedFirst[i],
         work' = MovedWork(i, from, to, takeBack)
  PROVE  /\ WorkMovesOn
         /\ \A j \in CoverJobs : work'[j].holder = IF j = i THEN to ELSE work[j].holder
<1>1. work[i] \in WorkRow /\ work \in [Items -> WorkRow]
  BY DEF AcInv
<1>2. CASE i \in CoverJobs
  <2> DEFINE w == [work[i] EXCEPT !.holder = to]
  <2>1. w \in WorkRow /\ w.holder = to
    BY <1>1 DEF WorkRow
  <2>2. work' = [work EXCEPT ![i] = w]
    BY <1>2 DEF MovedWork
  <2>3. i \notin Questions
    BY <1>2, CoverConstants
  <2> HIDE DEF w
  <2> QED
    BY <1>1, <2>1, <2>2, <2>3 DEF WorkMovesOn, Items
<1>3. CASE i \in Questions
  <2> DEFINE a == (IF takeBack THEN work[i].asked \ {from} ELSE work[i].asked) \cup {to}
             v == work[i].ver + 1
             w == [work[i] EXCEPT !.asked = a, !.ver = v]
  <2>1. i \notin CoverJobs /\ AskedFirst[i] \subseteq work[i].asked
    BY <1>3, CoverConstants DEF AcInv, AskedStayAsked
  <2>2. a \in SUBSET Staff /\ v \in Nat /\ AskedFirst[i] \subseteq a
    BY <1>1, <1>3, <2>1 DEF WorkRow
  <2>3. work' = [work EXCEPT ![i] = w]
    BY <2>1 DEF MovedWork
  <2> HIDE DEF a
  <2>4. w \in WorkRow /\ w.asked = a /\ w.ver = work[i].ver + 1
    BY <1>1, <2>2 DEF WorkRow
  <2> HIDE DEF w, v
  <2> QED
    BY <1>1, <2>1, <2>2, <2>3, <2>4 DEF WorkMovesOn, Items
<1> QED
  BY <1>2, <1>3 DEF Items

\* Who is read to be stranded is away, and nobody away is chosen.
LEMMA PlansAreSound ==
  ASSUME AcInv, NEW x \in ToPlan
  PROVE  /\ x[1] \in Items /\ x[2] \in Staff
         /\ \A c \in Eligible(x[1], x[2]) : c \in Staff /\ (x[1] \in Questions => c \notin work[x[1]].asked)
<1>1. \/ x \in CoverJobs \X Away
      \/ x \in Questions \X Away /\ AllAreAway(x[1])
  BY DEF ToPlan, Stranded
<1>2. x[1] \in Items /\ x[2] \in Staff
  BY <1>1 DEF Items, Away
<1>3. ASSUME NEW c \in Eligible(x[1], x[2]) PROVE c \in Staff \ Away
  BY <1>3 DEF Eligible
<1>4. ASSUME x[1] \in Questions PROVE work[x[1]].asked \subseteq Away
  BY <1>1, <1>4, CoverConstants DEF AllAreAway
<1> QED
  BY <1>2, <1>3, <1>4

LEMMA EntriesAreSound ==
  ASSUME AcInv, NEW x \in ToPlan, NEW e \in Entries(x[1], x[2]) PROVE EntryIsSound(e)
<1> DEFINE i == x[1]
           p == x[2]
<1>1. i \in Items /\ p \in Staff
  BY PlansAreSound
<1>2. i \in Questions => work[i].ver \in Nat
  BY <1>1 DEF AcInv, WorkRow
<1>3. ASSUME NEW c \in Resolved(i, p), NEW a \in {"moved", "suggested"},
             e = [item |-> i, from |-> p, to |-> c, ref |-> away[p], ver |-> work[i].ver, act |-> a]
      PROVE  EntryIsSound(e)
  <2>1. c \in Eligible(i, p)
    BY DEF Resolved
  <2>2. c \in Staff /\ (i \in Questions => c \notin work[i].asked)
    BY <2>1, PlansAreSound
  <2>3. e.item = i /\ e.from = p /\ e.to = c /\ e.ver = work[i].ver
    BY <1>3
  <2> HIDE DEF i, p
  <2> QED
    BY <1>1, <1>2, <2>2, <2>3 DEF EntryIsSound
<1>4. ASSUME e = [item |-> i, from |-> p, to |-> Nobody, ref |-> away[p], ver |-> work[i].ver, act |-> "suggested"]
      PROVE  EntryIsSound(e)
  <2>1. e.item = i /\ e.from = p /\ e.to = Nobody /\ e.ver = work[i].ver /\ e.act = "suggested"
    BY <1>4
  <2> HIDE DEF i, p
  <2> QED
    BY <1>1, <1>2, <2>1 DEF EntryIsSound
<1>5. \/ \E c \in Resolved(i, p), a \in {"moved", "suggested"} :
           e = [item |-> i, from |-> p, to |-> c, ref |-> away[p], ver |-> work[i].ver, act |-> a]
      \/ e = [item |-> i, from |-> p, to |-> Nobody, ref |-> away[p], ver |-> work[i].ver, act |-> "suggested"]
  BY DEF Entries, DecideMove
<1> QED
  BY <1>3, <1>4, <1>5
\* Whatever becomes of the work, a run's entries stay sound as long as it makes no others.
LEMMA WorkKeeps ==
  ASSUME AcInv, WorkMovesOn, told' = [i \in Items |-> told'[i]], LogTellsTheHolder',
         plans' = [r \in {"timer", "desk"} |-> plans'[r]],
         \A r \in {"timer", "desk"} : \A e \in plans'[r] : EntryIsSound(e),
         \A row \in moves' : MoveIsSound(row)
  PROVE  AcInv'
<1>1. AskedStayAsked' /\ \A e : EntryIsSound(e) => EntryIsSound(e)'
  BY EntriesStand
<1>2. work' \in [Items -> WorkRow]
  BY DEF WorkMovesOn
<1>3. \A row \in moves' : MoveIsSound(row)'
  BY DEF MoveIsSound
<1>4. \A r \in {"timer", "desk"} : \A e \in plans'[r] : EntryIsSound(e)'
  BY <1>1
<1> QED
  BY <1>1, <1>2, <1>3, <1>4 DEF AcInv

\* Nothing happens to the work.
LEMMA WorkStands == ASSUME AcInv, UNCHANGED work PROVE WorkMovesOn
BY DEF AcInv, WorkMovesOn

\* What an applied entry leaves of the plans.
LEMMA PlansShrink ==
  ASSUME AcInv, NEW r \in {"timer", "desk"}, NEW e, Applied(r, e)
  PROVE  /\ plans' = [s \in {"timer", "desk"} |-> plans'[s]]
         /\ \A s \in {"timer", "desk"} : \A x \in plans'[s] : EntryIsSound(x)
<1> DEFINE rest == plans[r] \ {e}
<1>1. plans = [s \in {"timer", "desk"} |-> plans[s]] /\ \A s \in {"timer", "desk"} : \A x \in plans[s] : EntryIsSound(x)
  BY DEF AcInv
<1>2. \A x \in rest : EntryIsSound(x)
  BY <1>1
<1>3. plans' = [plans EXCEPT ![r] = rest]
  BY DEF Applied
<1> HIDE DEF rest
<1>4. plans' = [s \in {"timer", "desk"} |-> IF s = r THEN rest ELSE plans[s]]
  BY <1>1, <1>3
<1> QED
  BY <1>1, <1>2, <1>4

\* What a run loads.
LEMMA LoadsKeep ==
  ASSUME AcInv, NEW r \in {"timer", "desk"}, NEW S, \A e \in S : EntryIsSound(e),
         plans' = [plans EXCEPT ![r] = S], UNCHANGED <<work, byHand, moves, told>>
  PROVE  AcInv'
<1>1. plans = [s \in {"timer", "desk"} |-> plans[s]]
  BY DEF AcInv
<1>2. plans' = [s \in {"timer", "desk"} |-> IF s = r THEN S ELSE plans[s]]
  BY <1>1
<1>3. /\ plans' = [s \in {"timer", "desk"} |-> plans'[s]]
      /\ \A s \in {"timer", "desk"} : \A e \in plans'[s] : EntryIsSound(e)
  BY <1>2 DEF AcInv
<1>4. /\ told' = [i \in Items |-> told'[i]] /\ LogTellsTheHolder'
      /\ \A row \in moves' : MoveIsSound(row)
  BY DEF AcInv, LogTellsTheHolder
<1> QED
  BY <1>3, <1>4, WorkStands, WorkKeeps

LEMMA TimerLoadsKeeps == ASSUME AcInv, TimerLoads PROVE AcInv'
<1>1. PICK S \in PlanOver(ToPlan) : plans' = [plans EXCEPT !["timer"] = S]
  BY DEF TimerLoads
<1>2. S \subseteq UNION {Entries(x[1], x[2]) : x \in ToPlan}
  BY DEF PlanOver
<1>3. \A e \in S : \E x \in ToPlan : e \in Entries(x[1], x[2])
  BY <1>2
<1>4. \A e \in S : EntryIsSound(e)
  BY <1>3, EntriesAreSound
<1> QED
  BY <1>1, <1>4, LoadsKeep DEF TimerLoads

LEMMA DeskLoadsKeeps == ASSUME AcInv, NEW i \in Items, DeskLoads(i) PROVE AcInv'
<1>1. PICK p \in Away : /\ <<i, p>> \in ToPlan
       /\ \E act \in {"kept", "moved"} : \E c \in IF act = "kept" THEN {Nobody} ELSE Eligible(i, p) :
            plans' = [plans EXCEPT !["desk"] =
              {[item |-> i, from |-> p, to |-> c, ref |-> away[p], ver |-> work[i].ver, act |-> act]}]
  BY DEF DeskLoads
<1>2. PICK act \in {"kept", "moved"} : \E c \in IF act = "kept" THEN {Nobody} ELSE Eligible(i, p) :
            plans' = [plans EXCEPT !["desk"] =
              {[item |-> i, from |-> p, to |-> c, ref |-> away[p], ver |-> work[i].ver, act |-> act]}]
  BY <1>1
<1>3. PICK c \in IF act = "kept" THEN {Nobody} ELSE Eligible(i, p) :
            plans' = [plans EXCEPT !["desk"] =
              {[item |-> i, from |-> p, to |-> c, ref |-> away[p], ver |-> work[i].ver, act |-> act]}]
  BY <1>2
<1> DEFINE e == [item |-> i, from |-> p, to |-> c, ref |-> away[p], ver |-> work[i].ver, act |-> act]
<1>4. <<i, p>>[1] = i /\ <<i, p>>[2] = p
  OBVIOUS
<1>5. p \in Staff /\ \A d \in Eligible(i, p) : d \in Staff /\ (i \in Questions => d \notin work[i].asked)
  BY <1>1, <1>4, PlansAreSound
<1>6. work[i].ver \in Nat
  BY DEF AcInv, WorkRow
<1>7. (act = "kept" /\ c = Nobody) \/ (act = "moved" /\ c \in Eligible(i, p))
  BY <1>2, <1>3
<1>8. e.item = i /\ e.from = p /\ e.to = c /\ e.ver = work[i].ver /\ e.act = act
  OBVIOUS
<1>9. plans' = [plans EXCEPT !["desk"] = {e}]
  BY <1>3
<1> HIDE DEF e
<1>10. EntryIsSound(e)
  BY <1>5, <1>6, <1>7, <1>8 DEF EntryIsSound
<1> QED
  BY ZenonT(60), <1>9, <1>10, LoadsKeep DEF DeskLoads

\* A move, its row and who it is told of agree.
LEMMA MoveKeeps ==
  ASSUME AcInv, NEW i \in Items, NEW to \in Staff, WorkMovesOn,
         \A j \in CoverJobs : work'[j].holder = IF j = i THEN to ELSE work[j].holder,
         byHand' = byHand \ {i}, told' = [told EXCEPT ![i] = to],
         plans' = [r \in {"timer", "desk"} |-> plans'[r]],
         \A r \in {"timer", "desk"} : \A e \in plans'[r] : EntryIsSound(e),
         \A row \in moves' : MoveIsSound(row)
  PROVE  AcInv'
<1>1. told = [j \in Items |-> told[j]] /\ LogTellsTheHolder
  BY DEF AcInv
<1>2. told' = [j \in Items |-> IF j = i THEN to ELSE told[j]]
  BY <1>1
<1>3. \A j \in CoverJobs : told'[j] = IF j = i THEN to ELSE told[j]
  BY <1>2 DEF Items
<1>4. LogTellsTheHolder'
  BY <1>1, <1>3 DEF LogTellsTheHolder
<1>5. told' = [j \in Items |-> told'[j]]
  BY <1>2
<1> QED
  BY <1>4, <1>5, WorkKeeps

LEMMA ApplyMoveKeeps ==
  ASSUME AcInv, NEW r \in {"timer", "desk"}, NEW e, ApplyMove(r, e) PROVE AcInv'
<1>1. /\ e \in plans[r] /\ e.act = "moved" /\ CanMove(e.item, e.from, e.ver)
      /\ work' = MovedWork(e.item, e.from, e.to, FALSE)
      /\ byHand' = byHand \ {e.item} /\ told' = [told EXCEPT ![e.item] = e.to]
      /\ moves' = moves \cup {Row(e, "moved")} /\ Applied(r, e)
  BY DEF ApplyMove
<1>2. EntryIsSound(e)
  BY <1>1 DEF AcInv
<1>3. e.item \in Items /\ e.to \in Staff /\ e.from \in Staff
  BY <1>1, <1>2 DEF EntryIsSound
<1>4. ASSUME e.item \in Questions PROVE e.to \notin AskedFirst[e.item]
  <2>1. work[e.item].ver = e.ver
    BY <1>1, <1>4, CoverConstants DEF CanMove
  <2>2. e.to \notin work[e.item].asked
    BY <1>1, <1>2, <1>4, <2>1 DEF EntryIsSound
  <2> QED
    BY <1>4, <2>2 DEF AcInv, AskedStayAsked
<1>5. MoveIsSound(Row(e, "moved"))
  <2>1. Row(e, "moved").item = e.item /\ Row(e, "moved").from = e.from /\ Row(e, "moved").to = e.to
    BY DEF Row
  <2> QED
    BY <1>3, <1>4, <2>1 DEF MoveIsSound
<1>6. \A row \in moves' : MoveIsSound(row)
  BY <1>1, <1>5 DEF AcInv
<1>7. /\ WorkMovesOn
      /\ \A j \in CoverJobs : work'[j].holder = IF j = e.item THEN e.to ELSE work[j].holder
  BY <1>1, <1>3, AMoveOfWork
<1> QED
  BY <1>1, <1>3, <1>6, <1>7, PlansShrink, MoveKeeps

LEMMA TakeBackKeeps ==
  ASSUME AcInv, NEW row \in moves, TakeBack(row) PROVE AcInv'
<1>1. /\ work' = MovedWork(row.item, row.to, row.from, TRUE)
      /\ byHand' = byHand \ {row.item} /\ told' = [told EXCEPT ![row.item] = row.from]
      /\ moves' = moves \ {row} /\ plans' = plans
  BY DEF TakeBack
<1>2. /\ row.item \in Items /\ row.from \in Staff /\ row.to \in Staff
      /\ row.item \in Questions => row.to \notin AskedFirst[row.item]
  BY DEF AcInv, MoveIsSound
<1>3. /\ WorkMovesOn
      /\ \A j \in CoverJobs : work'[j].holder = IF j = row.item THEN row.from ELSE work[j].holder
  BY <1>1, <1>2, AMoveOfWork
<1>4. \A s \in moves' : MoveIsSound(s)
  BY <1>1 DEF AcInv
<1>5. plans' = [r \in {"timer", "desk"} |-> plans'[r]] /\ \A r \in {"timer", "desk"} : \A e \in plans'[r] : EntryIsSound(e)
  BY <1>1 DEF AcInv
<1> QED
  BY <1>1, <1>2, <1>3, <1>4, <1>5, MoveKeeps

\* Steps that move no work: what is refused, what is only noted, who is away.
LEMMA NotesKeep ==
  ASSUME AcInv, UNCHANGED <<work, byHand, moves, told>>,
         plans' = [r \in {"timer", "desk"} |-> plans'[r]],
         \A r \in {"timer", "desk"} : \A e \in plans'[r] : EntryIsSound(e)
  PROVE  AcInv'
<1>1. /\ told' = [i \in Items |-> told'[i]] /\ LogTellsTheHolder'
      /\ \A row \in moves' : MoveIsSound(row)
  BY DEF AcInv, LogTellsTheHolder
<1> QED
  BY <1>1, WorkStands, WorkKeeps

LEMMA AbsencesKeep == ASSUME AcInv, UNCHANGED <<work, byHand, moves, told, plans>> PROVE AcInv'
<1>1. plans' = [r \in {"timer", "desk"} |-> plans'[r]] /\ \A r \in {"timer", "desk"} : \A e \in plans'[r] : EntryIsSound(e)
  BY DEF AcInv
<1> QED
  BY <1>1, NotesKeep

LEMMA ReassignKeeps ==
  ASSUME AcInv, NEW j \in CoverJobs, NEW to \in Staff, Reassign(j, to) PROVE AcInv'
<1> DEFINE w == [work[j] EXCEPT !.holder = to]
<1>1. j \in Items /\ j \notin Questions /\ work[j] \in WorkRow /\ work \in [Items -> WorkRow]
  BY CoverConstants DEF AcInv, Items
<1>2. w \in WorkRow
  BY <1>1 DEF WorkRow
<1>3. work' = [work EXCEPT ![j] = w] /\ byHand' = byHand \cup {j} /\ UNCHANGED <<moves, told, plans>>
  BY DEF Reassign
<1> HIDE DEF w
<1>4. WorkMovesOn
  BY <1>1, <1>2, <1>3 DEF WorkMovesOn, Items
<1>5. \A k \in CoverJobs \ byHand' : work'[k] = work[k] /\ k \notin byHand
  BY <1>1, <1>3 DEF Items
<1>6. /\ LogTellsTheHolder' /\ told' = [i \in Items |-> told'[i]]
      /\ plans' = [r \in {"timer", "desk"} |-> plans'[r]]
      /\ \A r \in {"timer", "desk"} : \A e \in plans'[r] : EntryIsSound(e)
      /\ \A row \in moves' : MoveIsSound(row)
  BY <1>3, <1>5 DEF LogTellsTheHolder, AcInv
<1> QED
  BY <1>4, <1>6, WorkKeeps

LEMMA FinishKeeps == ASSUME AcInv, NEW i \in Items, Finish(i) PROVE AcInv'
<1> DEFINE w == [work[i] EXCEPT !.open = FALSE]
<1>1. work[i] \in WorkRow /\ work \in [Items -> WorkRow]
  BY DEF AcInv
<1>2. w \in WorkRow /\ w.ver = work[i].ver /\ w.asked = work[i].asked /\ w.holder = work[i].holder
  BY <1>1 DEF WorkRow
<1>3. work' = [work EXCEPT ![i] = w] /\ UNCHANGED <<byHand, moves, told, plans>>
  BY DEF Finish
<1> HIDE DEF w
<1>4. WorkMovesOn
  BY <1>1, <1>2, <1>3 DEF WorkMovesOn, Items
<1>5. \A k \in CoverJobs : work'[k].holder = work[k].holder
  BY <1>1, <1>2, <1>3 DEF Items
<1>6. /\ LogTellsTheHolder' /\ told' = [k \in Items |-> told'[k]]
      /\ plans' = [r \in {"timer", "desk"} |-> plans'[r]]
      /\ \A r \in {"timer", "desk"} : \A e \in plans'[r] : EntryIsSound(e)
      /\ \A row \in moves' : MoveIsSound(row)
  BY <1>3, <1>5 DEF LogTellsTheHolder, AcInv
<1> QED
  BY <1>4, <1>6, WorkKeeps

LEMMA AcStep == AcInv /\ [AcNext]_acVars => AcInv'
<1> SUFFICES ASSUME AcInv, [AcNext]_acVars PROVE AcInv'
  OBVIOUS
<1>1. ASSUME NEW p \in Staff, LeaveStarts(p) \/ GoesQuiet(p) \/ Returns(p) PROVE AcInv'
  BY <1>1, AbsencesKeep DEF LeaveStarts, GoesQuiet, Returns
<1>2. ASSUME NEW p \in Staff, NEW d \in Staff, Nominate(p, d) \/ ArchiveNomination(p, d) PROVE AcInv'
  BY <1>2, AbsencesKeep DEF Nominate, ArchiveNomination
<1>3. ASSUME NEW r \in {"timer", "desk"}, NEW e, ApplyRefused(r, e) \/ ApplyNote(r, e) PROVE AcInv'
  BY <1>3, PlansShrink, NotesKeep DEF ApplyRefused, ApplyNote, NoRow
<1>4. CASE UNCHANGED acVars
  BY <1>4, AbsencesKeep DEF acVars
<1> QED
  BY <1>1, <1>2, <1>3, <1>4, TimerLoadsKeeps, DeskLoadsKeeps, ApplyMoveKeeps, TakeBackKeeps,
     ReassignKeeps, FinishKeeps DEF AcNext

(* Cover keeps the record straight, for any staff, work and nominations: everybody a  *)
(* question was first put to can still answer it, and the last move recorded for a    *)
(* job says who has it unless it was reassigned by hand (moveJob, moveDecision,       *)
(* takeBackItem).                                                                     *)
THEOREM CoverStaysOnRecord == AcSpec => []CoverIsOnRecord
<1>1. AcInv => CoverIsOnRecord
  BY DEF AcInv, CoverIsOnRecord
<1> QED
  BY <1>1, AcStart, AcStep, PTL DEF AcSpec

-----------------------------------------------------------------------------
(* DecisionTimes: working days, working hours and what is due in them.      *)

(* A set of numbers that is not empty has a smallest one. *)
LEMMA SmallestNumber ==
  ASSUME NEW S \in SUBSET Nat, S # {}
  PROVE  \E n \in S : \A m \in S : n <= m
<1> DEFINE Less == {ss \in Nat \X Nat : ss[1] < ss[2]}
<1>1. IsWellFoundedOn(Less, Nat)
  BY NatLessThanWellFounded DEF OpToRel
<1>2. \E x \in S : \A y \in S : ~(<<y, x>> \in Less)
  <2> HIDE DEF Less
  <2> QED
    BY <1>1, WFMin
<1>3. PICK x \in S : \A y \in S : ~(y < x)
  BY <1>2
<1>4. \A y \in S : x <= y
  BY <1>3
<1> QED
  BY <1>4

(* A moment is so many half hours into its day. *)
LEMMA MomentInItsDay ==
  ASSUME NEW t \in Int
  PROVE  DayOf(t) \in Int /\ t % DAY \in 0..47 /\ t = DAY * DayOf(t) + (t % DAY)
BY DEF DayOf, DAY

(* The half hours of day d are those of no other. *)
LEMMA HourOfDay ==
  ASSUME NEW d \in Int, NEW k \in 0..47
  PROVE  DayOf(d * DAY + k) = d /\ (d * DAY + k) % DAY = k
BY DEF DayOf, DAY

(* The week has a day of work in any three. *)
LEMMA WeekendsAreShort ==
  ASSUME NEW d \in Int
  PROVE  (d + 4) % 7 \in 1..5 \/ (d + 2 + 4) % 7 \in 1..5
OBVIOUS

LEMMA WeekendsAreShortBack ==
  ASSUME NEW d \in Int
  PROVE  (d + 4) % 7 \in 1..5 \/ (d - 2 + 4) % 7 \in 1..5
OBVIOUS
(* A search that finds a working day finds the first one on its way. *)
LEMMA SearchFindsFirst ==
  ASSUME NEW d \in Int, NEW s \in {1, -1}, NEW H,
         \E k \in 0..MAX_SKIPPED_DAYS : IsWorkDay(d + s * k, H)
  PROVE  /\ Skipped(d, s, H) \in 0..MAX_SKIPPED_DAYS
         /\ IsWorkDay(d + s * Skipped(d, s, H), H)
         /\ \A j \in 0..(Skipped(d, s, H) - 1) : ~IsWorkDay(d + s * j, H)
<1> DEFINE Works(k) == IsWorkDay(d + s * k, H)
           S == {k \in 0..MAX_SKIPPED_DAYS : Works(k)}
<1>1. S \in SUBSET Nat /\ S # {}
  OBVIOUS
<1>2. PICK n \in S : \A m \in S : n <= m
  <2> HIDE DEF S
  <2> QED
    BY <1>1, SmallestNumber
<1>3. n \in 0..MAX_SKIPPED_DAYS /\ Works(n)
  OBVIOUS
<1>4. \A j \in 0..(n - 1) : ~Works(j)
  <2> SUFFICES ASSUME NEW j \in 0..(n - 1), Works(j) PROVE FALSE
    OBVIOUS
  <2>1. j \in 0..MAX_SKIPPED_DAYS /\ ~(n <= j)
    BY <1>3 DEF MAX_SKIPPED_DAYS
  <2> HIDE DEF Works
  <2> QED
    BY <1>2, <2>1
<1>5. \E k \in 0..MAX_SKIPPED_DAYS : Works(k) /\ \A j \in 0..(k - 1) : ~Works(j)
  <2> HIDE DEF Works
  <2> QED
    BY <1>3, <1>4
<1>6. Skipped(d, s, H) = CHOOSE k \in 0..MAX_SKIPPED_DAYS : Works(k) /\ \A j \in 0..(k - 1) : ~Works(j)
  BY DEF Skipped
<1>7. /\ Skipped(d, s, H) \in 0..MAX_SKIPPED_DAYS
      /\ Works(Skipped(d, s, H)) /\ \A j \in 0..(Skipped(d, s, H) - 1) : ~Works(j)
  <2> HIDE DEF Works
  <2> QED
    BY <1>5, <1>6
<1> QED
  BY <1>7

(* From any day a working day comes, and came, before a search gives up. *)
LEMMA WorkComes ==
  ASSUME NEW H \in HolidaySets, NEW d \in Int
  PROVE  /\ \E k \in 0..MAX_SKIPPED_DAYS : IsWorkDay(d + k, H)
         /\ \E k \in 0..MAX_SKIPPED_DAYS : IsWorkDay(d - k, H)
<1>1. PICK a \in {0, 2} : (d + a + 4) % 7 \in 1..5
  <2>1. d + 0 + 4 = d + 4
    OBVIOUS
  <2> QED
    BY <2>1, WeekendsAreShort
<1>2. PICK b \in {0, 2} : (d - b + 4) % 7 \in 1..5
  <2>1. d - 0 + 4 = d + 4
    OBVIOUS
  <2> QED
    BY <2>1, WeekendsAreShortBack
<1>3. \E k \in 0..MAX_SKIPPED_DAYS : IsWorkDay(d + k, H)
  <2>1. CASE d + a \notin H
    <3>1. IsWorkDay(d + a, H) /\ a \in 0..MAX_SKIPPED_DAYS
      BY <1>1, <2>1 DEF IsWorkDay, MAX_SKIPPED_DAYS
    <3> QED
      BY <3>1
  <2>2. CASE d + a \in H
    <3>1. PICK k \in 1..(MAX_SKIPPED_DAYS - 7) : IsWorkDay(d + a + k, H)
      BY <2>2, CalendarAssumption
    <3>2. d + (a + k) = d + a + k /\ a + k \in 0..MAX_SKIPPED_DAYS
      BY DEF MAX_SKIPPED_DAYS
    <3> QED
      BY <3>1, <3>2
  <2> QED
    BY <2>1, <2>2
<1>4. \E k \in 0..MAX_SKIPPED_DAYS : IsWorkDay(d - k, H)
  <2>1. CASE d - b \notin H
    <3>1. IsWorkDay(d - b, H) /\ b \in 0..MAX_SKIPPED_DAYS
      BY <1>2, <2>1 DEF IsWorkDay, MAX_SKIPPED_DAYS
    <3> QED
      BY <3>1
  <2>2. CASE d - b \in H
    <3>1. PICK k \in 1..(MAX_SKIPPED_DAYS - 7) : IsWorkDay(d - b - k, H)
      BY <2>2, CalendarAssumption
    <3>2. d - (b + k) = d - b - k /\ b + k \in 0..MAX_SKIPPED_DAYS
      BY DEF MAX_SKIPPED_DAYS
    <3> QED
      BY <3>1, <3>2
  <2> QED
    BY <2>1, <2>2
<1> QED
  BY <1>3, <1>4

(* The next working day is no earlier, and nobody works before it. *)
LEMMA NextDay ==
  ASSUME NEW H \in HolidaySets, NEW d \in Int
  PROVE  /\ NextWorkDay(d, H) \in Int /\ NextWorkDay(d, H) >= d
         /\ IsWorkDay(NextWorkDay(d, H), H)
         /\ \A m \in d..(NextWorkDay(d, H) - 1) : ~IsWorkDay(m, H)
<1> DEFINE n == Skipped(d, 1, H)
<1>1. \A k \in Int : d + 1 * k = d + k
  OBVIOUS
<1>2. \E k \in 0..MAX_SKIPPED_DAYS : IsWorkDay(d + 1 * k, H)
  <2>1. PICK k \in 0..MAX_SKIPPED_DAYS : IsWorkDay(d + k, H)
    BY WorkComes
  <2>2. d + 1 * k = d + k
    BY DEF MAX_SKIPPED_DAYS
  <2> QED
    BY <2>1, <2>2
<1>3. n \in 0..MAX_SKIPPED_DAYS /\ IsWorkDay(d + 1 * n, H) /\ \A j \in 0..(n - 1) : ~IsWorkDay(d + 1 * j, H)
  BY <1>2, SearchFindsFirst
<1> HIDE DEF n
<1>4. n \in Nat /\ IsWorkDay(d + n, H) /\ \A j \in 0..(n - 1) : ~IsWorkDay(d + j, H)
  BY <1>1, <1>3
<1>5. ASSUME NEW m \in d..(d + n - 1) PROVE ~IsWorkDay(m, H)
  <2>1. m - d \in 0..(n - 1) /\ d + (m - d) = m
    BY <1>4
  <2> QED
    BY <1>4, <2>1
<1>6. NextWorkDay(d, H) = d + n
  BY DEF NextWorkDay, n
<1> QED
  BY <1>4, <1>5, <1>6

(* The working day before is no later. *)
LEMMA DayBefore ==
  ASSUME NEW H \in HolidaySets, NEW d \in Int
  PROVE  PrevWorkDay(d, H) \in Int /\ PrevWorkDay(d, H) <= d /\ IsWorkDay(PrevWorkDay(d, H), H)
<1> DEFINE n == Skipped(d, -1, H)
<1>1. \A k \in Int : d + (-1) * k = d - k
  OBVIOUS
<1>2. \E k \in 0..MAX_SKIPPED_DAYS : IsWorkDay(d + (-1) * k, H)
  <2>1. PICK k \in 0..MAX_SKIPPED_DAYS : IsWorkDay(d - k, H)
    BY WorkComes
  <2>2. d + (-1) * k = d - k
    BY DEF MAX_SKIPPED_DAYS
  <2> QED
    BY <2>1, <2>2
<1>3. n \in 0..MAX_SKIPPED_DAYS /\ IsWorkDay(d + (-1) * n, H)
  BY <1>2, SearchFindsFirst
<1> HIDE DEF n
<1>4. n \in Nat /\ IsWorkDay(d - n, H)
  BY <1>1, <1>3
<1>6. PrevWorkDay(d, H) = d - n
  BY DEF PrevWorkDay, n
<1> QED
  BY <1>4, <1>6

(* The bounds of a working day, and the hours in it. *)
LEMMA HoursOfWork ==
  ASSUME NEW d \in Int, NEW H, IsWorkDay(d, H)
  PROVE  /\ \A t \in DayStart(d)..(DayEnd(d) - 1) : AtWork(t, H) /\ DayOf(t) = d
         /\ DayOf(DayStart(d)) = d /\ DayOf(DayEnd(d)) = d
<1>1. \A k \in 0..47 : DayOf(d * DAY + k) = d /\ (d * DAY + k) % DAY = k
  BY HourOfDay
<1>2. ASSUME NEW t \in DayStart(d)..(DayEnd(d) - 1) PROVE AtWork(t, H) /\ DayOf(t) = d
  <2>1. t - d * DAY \in 17..33 /\ d * DAY + (t - d * DAY) = t
    BY DEF DayStart, DayEnd, START, END, DAY
  <2>2. DayOf(t) = d /\ t % DAY = t - d * DAY
    BY <1>1, <2>1
  <2> QED
    BY <2>1, <2>2 DEF AtWork, START, END
<1>3. DayOf(DayStart(d)) = d /\ DayOf(DayEnd(d)) = d
  BY <1>1 DEF DayStart, DayEnd, START, END
<1> QED
  BY <1>2, <1>3

(* A moment at work is in a working day, between its bounds. *)
LEMMA AtWorkInItsDay ==
  ASSUME NEW t \in Int, NEW H, AtWork(t, H)
  PROVE  /\ DayOf(t) \in Int /\ IsWorkDay(DayOf(t), H)
         /\ DayStart(DayOf(t)) <= t /\ t < DayEnd(DayOf(t))
<1>1. DayOf(t) \in Int /\ t % DAY \in 0..47 /\ t = DAY * DayOf(t) + (t % DAY)
  BY MomentInItsDay
<1> QED
  BY <1>1 DEF AtWork, DayStart, DayEnd, START, END, DAY

(* The days follow one another. *)
LEMMA DaysInOrder ==
  ASSUME NEW d \in Int, NEW e \in Int
  PROVE  /\ DayStart(d) \in Int /\ DayEnd(d) \in Int
         /\ DayStart(d) < DayEnd(d)
         /\ d < e => DayEnd(d) < DayStart(e)
         /\ d <= e => DayStart(d) <= DayStart(e) /\ DayEnd(d) <= DayEnd(e)
         /\ d < e <=> d + 1 <= e
BY DEF DayStart, DayEnd, START, END, DAY

(* Every moment is before the working hours of the days after its own. *)
LEMMA MomentBeforeNextDay ==
  ASSUME NEW t \in Int, NEW d \in Int, d >= DayOf(t) + 1
  PROVE  t < DayStart(d)
<1>1. DayOf(t) \in Int /\ t % DAY \in 0..47 /\ t = DAY * DayOf(t) + (t % DAY)
  BY MomentInItsDay
<1> QED
  BY <1>1 DEF DayStart, START, DAY

(* The next moment at work is at work, no earlier, and nobody works till then. *)
LEMMA NextAtWorkIsNext ==
  ASSUME NEW H \in HolidaySets, NEW t \in Int
  PROVE  /\ NextAtWork(t, H) \in Int /\ NextAtWork(t, H) >= t
         /\ AtWork(NextAtWork(t, H), H)
         /\ \A m \in t..(NextAtWork(t, H) - 1) : ~AtWork(m, H)
<1>1. DayOf(t) \in Int /\ t % DAY \in 0..47 /\ t = DAY * DayOf(t) + (t % DAY)
  BY MomentInItsDay
<1>2. CASE AtWork(t, H)
  BY <1>2 DEF NextAtWork
<1>3. CASE IsWorkDay(DayOf(t), H) /\ t % DAY < START
  <2> DEFINE n == DayStart(DayOf(t))
  <2>1. NextAtWork(t, H) = n
    BY <1>1, <1>3 DEF NextAtWork, AtWork, START
  <2>2. n \in Int /\ n >= t /\ AtWork(n, H)
    <3>1. n \in DayStart(DayOf(t))..(DayEnd(DayOf(t)) - 1)
      BY <1>1 DEF DayStart, DayEnd, START, END, DAY
    <3>2. AtWork(n, H)
      BY <1>1, <1>3, <3>1, HoursOfWork
    <3> QED
      BY <1>1, <1>3, <3>2 DEF DayStart, START, DAY
  <2>3. ASSUME NEW m \in t..(n - 1), AtWork(m, H) PROVE FALSE
    <3>1. m \in Int /\ DayOf(m) \in Int /\ DayStart(DayOf(m)) <= m /\ m < DayEnd(DayOf(m))
      BY <2>2, <2>3, AtWorkInItsDay
    <3> QED
      BY <1>1, <2>3, <3>1 DEF DayStart, DayEnd, START, END, DAY
  <2> QED
    BY <2>1, <2>2, <2>3
<1>4. CASE ~AtWork(t, H) /\ ~(IsWorkDay(DayOf(t), H) /\ t % DAY < START)
  <2> DEFINE e == NextWorkDay(DayOf(t) + 1, H)
             n == DayStart(e)
  <2>1. NextAtWork(t, H) = n
    BY <1>4 DEF NextAtWork
  <2>2. /\ e \in Int /\ e >= DayOf(t) + 1 /\ IsWorkDay(e, H)
        /\ \A m \in (DayOf(t) + 1)..(e - 1) : ~IsWorkDay(m, H)
    BY <1>1, NextDay
  <2> HIDE DEF e
  <2>3. n \in Int /\ t < n /\ AtWork(n, H)
    <3>1. n \in DayStart(e)..(DayEnd(e) - 1)
      BY <2>2 DEF DayStart, DayEnd, START, END, DAY
    <3>2. AtWork(n, H)
      BY <2>2, <3>1, HoursOfWork
    <3> QED
      BY <1>1, <2>2, <3>2 DEF DayStart, START, DAY
  <2>4. ASSUME NEW m \in t..(n - 1), AtWork(m, H) PROVE FALSE
    <3>1. /\ m \in Int /\ DayOf(m) \in Int /\ IsWorkDay(DayOf(m), H)
          /\ DayStart(DayOf(m)) <= m /\ m < DayEnd(DayOf(m))
      BY <2>3, <2>4, AtWorkInItsDay
    <3>2. DayOf(m) < e
      <4>1. ~(e <= DayOf(m))
        BY <2>2, <2>4, <3>1 DEF DayStart, DAY, START
      <4> QED
        BY <2>2, <3>1, <4>1
    <3>3. DayOf(m) >= DayOf(t)
      BY <1>1, <2>4, <3>1 DEF DayEnd, DAY, END
    <3>4. DayOf(m) = DayOf(t)
      BY <1>1, <2>2, <3>1, <3>2, <3>3
    <3>5. t % DAY >= START /\ t % DAY < END
      <4>1. t % DAY >= START
        BY <1>1, <1>4, <3>1, <3>4 DEF START
      <4> QED
        BY <1>1, <2>4, <3>1, <3>4, <4>1 DEF DayEnd, DAY, END
    <3> QED
      BY <1>4, <3>1, <3>4, <3>5 DEF AtWork
  <2> QED
    BY <2>1, <2>2, <2>3, <2>4
<1> QED
  BY <1>2, <1>3, <1>4

\* A request that can be scheduled: a fixed date is a working day not over yet.
Sound(a, H) ==
  /\ a \in [tier : {"emergency", "urgent", "soon", "routine", "fixed"}, auto : BOOLEAN,
            weeks : Weeks \cup {0}, date : Int, now : Nat]
  /\ a.tier = "routine" => a.weeks \in Weeks
  /\ a.tier = "fixed" => IsWorkDay(a.date, H) /\ DayEnd(a.date) > a.now

\* RemindersComeInTime, of the schedule p of the request a.
InTime(a, p, H) ==
  /\ \A r \in p.remind : r > a.now /\ r <= p.due /\ AtWork(r, H)
  /\ p.escalate # NoTime => p.escalate >= p.due
  /\ p.due # NoTime => p.due > a.now /\ IsWorkDay(DayOf(p.due), H)

(* A schedule whose deadline closes a working day still to come, and whose     *)
(* reminders open working days up to it, is in time.                          *)
LEMMA TimedInTime ==
  ASSUME NEW H \in HolidaySets, NEW a, a.now \in Nat, NEW due \in Int, IsWorkDay(due, H),
         DayEnd(due) > a.now, NEW days \in SUBSET Int,
         \A d \in days : d <= due /\ IsWorkDay(d, H)
  PROVE  InTime(a, Timed(a.now, due, {DayStart(d) : d \in days}, DayEnd(due)), H)
<1> DEFINE p == Timed(a.now, due, {DayStart(d) : d \in days}, DayEnd(due))
<1>1. p.due = DayEnd(due) /\ p.escalate = DayEnd(due) /\ p.remind = {r \in {DayStart(d) : d \in days} : r > a.now}
  BY DEF Timed
<1>2. DayEnd(due) \in Int /\ DayOf(DayEnd(due)) = due
  BY DaysInOrder, HoursOfWork
<1>3. ASSUME NEW d \in days PROVE DayStart(d) <= DayEnd(due) /\ AtWork(DayStart(d), H)
  <2>1. d \in Int /\ d <= due /\ IsWorkDay(d, H)
    BY <1>3
  <2>2. DayStart(d) \in Int /\ DayEnd(d) \in Int /\ DayStart(d) < DayEnd(d) /\ DayStart(d) <= DayStart(due)
        /\ DayStart(due) < DayEnd(due) /\ DayStart(due) \in Int
    BY <2>1, DaysInOrder
  <2>3. AtWork(DayStart(d), H)
    BY <2>1, <2>2, HoursOfWork
  <2> QED
    BY <1>2, <2>2, <2>3
<1> HIDE DEF p
<1>4. \A r \in p.remind : r > a.now /\ r <= p.due /\ AtWork(r, H)
  BY <1>1, <1>3
<1>5. InTime(a, p, H)
  BY <1>1, <1>2, <1>4 DEF InTime
<1> QED
  BY <1>5 DEF p

(* The day a deadline falls on so many days ahead is not over yet. *)
LEMMA AheadIsNotOver ==
  ASSUME NEW t \in Int, NEW d \in Int, d > DayOf(t)
  PROVE  DayEnd(d) > t
<1>1. DayOf(t) \in Int
  BY MomentInItsDay
<1>2. t < DayStart(d)
  BY <1>1, MomentBeforeNextDay
<1> QED
  BY <1>2, DaysInOrder

LEMMA UrgentInTime ==
  ASSUME NEW H \in HolidaySets, NEW a, a.now \in Nat, NEW auto
  PROVE  InTime(a, Urgent(a.now, auto, H), H)
<1> DEFINE now == a.now
           due == NextWorkDay(DayOf(now) + 1, H)
           mark == now + DAY
           inDay == mark >= DayStart(due) /\ mark < DayEnd(due)
           up == IF auto THEN NextAtWork(DayEnd(due) + 24, H) ELSE NoTime
           p == Urgent(now, auto, H)
<1>1. DayOf(now) \in Int /\ mark \in Int
  <2>1. now \in Int /\ now + 48 \in Int
    OBVIOUS
  <2> QED
    BY <2>1, MomentInItsDay DEF DAY
<1>2. due \in Int /\ due > DayOf(now) /\ IsWorkDay(due, H)
  BY <1>1, NextDay
<1>3. p = Timed(now, due, {IF inDay THEN mark ELSE DayStart(due)}, up)
  BY DEF Urgent
<1> HIDE DEF due, mark
<1>4. DayStart(due) \in Int /\ DayEnd(due) \in Int /\ DayStart(due) < DayEnd(due)
  BY <1>2, DaysInOrder
<1>5. DayEnd(due) > now
  BY <1>2, AheadIsNotOver
<1>6. DayOf(DayEnd(due)) = due /\ \A t \in DayStart(due)..(DayEnd(due) - 1) : AtWork(t, H)
  BY <1>2, HoursOfWork
<1>7. up # NoTime => up >= DayEnd(due)
  <2>1. NextAtWork(DayEnd(due) + 24, H) \in Int /\ NextAtWork(DayEnd(due) + 24, H) >= DayEnd(due) + 24
    BY <1>4, NextAtWorkIsNext
  <2> QED
    BY <1>4, <2>1
<1> HIDE DEF up
<1>8. \A r \in {IF inDay THEN mark ELSE DayStart(due)} : r <= DayEnd(due) /\ AtWork(r, H)
  BY <1>1, <1>4, <1>6
<1>9. /\ p.due = DayEnd(due) /\ p.escalate = up
      /\ p.remind \subseteq {IF inDay THEN mark ELSE DayStart(due)}
      /\ \A r \in p.remind : r > now
  <2> HIDE DEF p, inDay
  <2> QED
    BY <1>3 DEF Timed
<1> QED
  BY <1>2, <1>5, <1>6, <1>7, <1>8, <1>9 DEF InTime

LEMMA InDaysInTime ==
  ASSUME NEW H \in HolidaySets, NEW a, a.now \in Nat, NEW days \in Nat \ {0}, NEW before \in Nat
  PROVE  InTime(a, InDays(a.now, days, before, H), H)
<1> DEFINE due == NextWorkDay(DayOf(a.now) + days, H)
           day == PrevWorkDay(due - before, H)
<1>1. DayOf(a.now) \in Int
  BY MomentInItsDay
<1>2. due \in Int /\ due > DayOf(a.now) /\ IsWorkDay(due, H)
  <2>1. DayOf(a.now) + days \in Int /\ DayOf(a.now) + days > DayOf(a.now)
    BY <1>1
  <2> QED
    BY <1>1, <2>1, NextDay
<1>3. InDays(a.now, days, before, H) = Timed(a.now, due, {DayStart(day)}, DayEnd(due))
  BY DEF InDays
<1> HIDE DEF due
<1>4. day \in Int /\ day <= due /\ IsWorkDay(day, H)
  <2>1. due - before \in Int /\ due - before <= due
    BY <1>2
  <2> QED
    BY <1>2, <2>1, DayBefore
<1> HIDE DEF day
<1>5. {DayStart(day)} = {DayStart(d) : d \in {day}}
  OBVIOUS
<1>6. DayEnd(due) > a.now
  BY <1>2, AheadIsNotOver
<1>7. InTime(a, Timed(a.now, due, {DayStart(d) : d \in {day}}, DayEnd(due)), H)
  BY <1>2, <1>4, <1>6, TimedInTime
<1> QED
  BY <1>3, <1>5, <1>7

LEMMA FixedInTime ==
  ASSUME NEW H \in HolidaySets, NEW a, a.now \in Nat, NEW date \in Int,
         IsWorkDay(date, H), DayEnd(date) > a.now
  PROVE  InTime(a, Fixed(a.now, date, H), H)
<1> DEFINE days == {PrevWorkDay(date - b, H) : b \in {4, 2, 1}} \cup {date}
<1>1. \A b \in {4, 2, 1} : /\ PrevWorkDay(date - b, H) \in Int /\ PrevWorkDay(date - b, H) <= date
                           /\ IsWorkDay(PrevWorkDay(date - b, H), H)
  <2>1. \A b \in {4, 2, 1} : date - b \in Int /\ date - b <= date
    OBVIOUS
  <2>2. ASSUME NEW b \in {4, 2, 1}
        PROVE  /\ PrevWorkDay(date - b, H) \in Int /\ PrevWorkDay(date - b, H) <= date
               /\ IsWorkDay(PrevWorkDay(date - b, H), H)
    BY <2>1, DayBefore
  <2> QED
    BY <2>2
<1>2. days \in SUBSET Int /\ \A d \in days : d <= date /\ IsWorkDay(d, H)
  BY <1>1
<1>3. {DayStart(PrevWorkDay(date - b, H)) : b \in {4, 2, 1}} \cup {DayStart(date)} = {DayStart(d) : d \in days}
  OBVIOUS
<1>4. Fixed(a.now, date, H) = Timed(a.now, date, {DayStart(d) : d \in days}, DayEnd(date))
  BY <1>3 DEF Fixed
<1> HIDE DEF days
<1>5. InTime(a, Timed(a.now, date, {DayStart(d) : d \in days}, DayEnd(date)), H)
  BY <1>2, TimedInTime
<1> QED
  BY <1>4, <1>5

(* Every schedule of a sound request is in time. *)
LEMMA ScheduleInTime ==
  ASSUME NEW H \in HolidaySets, NEW a, Sound(a, H)
  PROVE  InTime(a, ScheduleFor(a, H), H)
<1>1. a.now \in Nat /\ a.tier \in {"emergency", "urgent", "soon", "routine", "fixed"}
  BY DEF Sound
<1>2. CASE a.tier = "emergency"
  <2> DEFINE p == ScheduleFor(a, H)
  <2>1. p = [due |-> NoTime, remind |-> {}, escalate |-> NoTime]
    BY <1>2 DEF ScheduleFor
  <2> QED
    BY <2>1 DEF InTime
<1>3. CASE a.tier = "urgent"
  <2>1. ScheduleFor(a, H) = Urgent(a.now, a.auto, H)
    BY <1>3 DEF ScheduleFor
  <2> QED
    BY <1>1, <2>1, UrgentInTime
<1>4. CASE a.tier = "soon"
  <2>1. ScheduleFor(a, H) = InDays(a.now, 7, 1, H)
    BY <1>4 DEF ScheduleFor
  <2>2. 7 \in Nat \ {0} /\ 1 \in Nat
    OBVIOUS
  <2> QED
    BY <1>1, <2>1, <2>2, InDaysInTime
<1>5. CASE a.tier = "routine"
  <2>1. ScheduleFor(a, H) = InDays(a.now, 7 * a.weeks, 7, H)
    BY <1>5 DEF ScheduleFor
  <2>2. 7 * a.weeks \in Nat \ {0} /\ 7 \in Nat
    <3>1. a.weeks \in Weeks
      BY <1>5 DEF Sound
    <3>2. a.weeks \in Nat /\ a.weeks # 0
      BY <3>1, TimesAssumption
    <3> QED
      BY <3>2
  <2> QED
    BY <1>1, <2>1, <2>2, InDaysInTime
<1>6. CASE a.tier = "fixed"
  <2>1. ScheduleFor(a, H) = Fixed(a.now, a.date, H)
    BY <1>6 DEF ScheduleFor
  <2>2. a.date \in Int /\ IsWorkDay(a.date, H) /\ DayEnd(a.date) > a.now
    BY <1>6 DEF Sound
  <2> QED
    BY <1>1, <2>1, <2>2, FixedInTime
<1> QED
  BY <1>1, <1>2, <1>3, <1>4, <1>5, <1>6

\* f spends the hours as addBusinessHours does.
IsSpend(f, halves, H) ==
  f = [left \in 0..halves |->
        [at \in WorkTimes(H) |-> IF Fits(left, Room(at)) THEN at + left
                                ELSE f[left - Room(at)][NextMorning(at, H)]]]

\* n working half hours lie from t to u, and u closes the last of them.
Worked(t, n, u, H) ==
  /\ u \in Int
  /\ Cardinality({m \in t..(u - 1) : AtWork(m, H)}) = n
  /\ IsWorkDay(DayOf(u), H) /\ AtWork(u - 1, H)

(* A moment at work leaves room in its day; the next morning is at work. *)
LEMMA RoomIsLeft ==
  ASSUME NEW H \in HolidaySets, NEW at \in WorkTimes(H)
  PROVE  /\ at \in Int /\ AtWork(at, H) /\ Room(at) \in Nat \ {0}
         /\ NextMorning(at, H) \in WorkTimes(H)
         /\ DayEnd(DayOf(at)) < NextMorning(at, H)
         /\ \A m \in DayEnd(DayOf(at))..(NextMorning(at, H) - 1) : ~AtWork(m, H)
<1> DEFINE d == DayOf(at)
           e == NextWorkDay(d + 1, H)
           b == NextMorning(at, H)
<1>1. at \in Int /\ AtWork(at, H)
  BY DEF WorkTimes
<1>2. d \in Int /\ IsWorkDay(d, H) /\ DayStart(d) <= at /\ at < DayEnd(d)
  BY <1>1, AtWorkInItsDay
<1>3. e \in Int /\ e >= d + 1 /\ IsWorkDay(e, H) /\ \A m \in (d + 1)..(e - 1) : ~IsWorkDay(m, H)
  <2>1. d + 1 \in Int
    BY <1>2
  <2> QED
    BY <2>1, NextDay
<1>4. b = DayStart(e)
  BY DEF NextMorning
<1>5. Room(at) = DayEnd(d) - at
  BY DEF Room
<1> HIDE DEF d, e, b
<1>6. DayEnd(d) \in Int /\ b \in Int /\ DayEnd(d) < b /\ b < DayEnd(e)
  BY <1>2, <1>3, <1>4, DaysInOrder
<1>7. AtWork(b, H)
  <2>1. DayEnd(e) \in Int
    BY <1>3, DaysInOrder
  <2>2. b \in DayStart(e)..(DayEnd(e) - 1)
    BY <1>4, <1>6, <2>1
  <2> QED
    BY <1>3, <2>2, HoursOfWork
<1>8. ASSUME NEW m \in DayEnd(d)..(b - 1), AtWork(m, H) PROVE FALSE
  <2>1. /\ m \in Int /\ DayOf(m) \in Int /\ IsWorkDay(DayOf(m), H)
        /\ DayStart(DayOf(m)) <= m /\ m < DayEnd(DayOf(m))
    BY <1>6, <1>8, AtWorkInItsDay
  <2>2. /\ DayStart(e) \in Int /\ DayEnd(d) \in Int /\ DayStart(DayOf(m)) \in Int /\ DayEnd(DayOf(m)) \in Int
        /\ e <= DayOf(m) => DayStart(e) <= DayStart(DayOf(m))
        /\ DayOf(m) <= d => DayEnd(DayOf(m)) <= DayEnd(d)
    BY <1>2, <1>3, <2>1, DaysInOrder
  <2>3. m < DayStart(e) /\ DayEnd(d) <= m
    BY <1>4, <1>6
  <2>4. ~(e <= DayOf(m)) /\ ~(DayOf(m) <= d)
    BY <2>1, <2>2, <2>3
  <2> QED
    BY <1>2, <1>3, <2>1, <2>4
<1> QED
  BY <1>1, <1>2, <1>5, <1>6, <1>7, <1>8 DEF WorkTimes, d, b

(* Some function spends the hours so. *)
LEMMA SpendExists ==
  ASSUME NEW H \in HolidaySets, NEW halves \in Nat
  PROVE  \E f : IsSpend(f, halves, H)
<1> DEFINE S == {n \in Nat : ~\E f : IsSpend(f, n, H)}
<1> SUFFICES ASSUME S # {} PROVE FALSE
  OBVIOUS
<1>1. PICK n \in S : \A m \in S : n <= m
  <2>1. S \in SUBSET Nat
    OBVIOUS
  <2> HIDE DEF S
  <2> QED
    BY <2>1, SmallestNumber
<1>2. n \in Nat /\ ~\E f : IsSpend(f, n, H)
  OBVIOUS
<1>3. \E f : n # 0 => IsSpend(f, n - 1, H)
  <2>1. CASE n = 0
    BY <2>1
  <2>2. CASE n # 0
    <3>1. n - 1 \in Nat /\ ~(n <= n - 1)
      BY <1>2, <2>2
    <3>2. n - 1 \notin S
      BY <1>1, <3>1
    <3> QED
      BY <3>1, <3>2
  <2> QED
    BY <2>1, <2>2
<1>4. PICK f : n # 0 => IsSpend(f, n - 1, H)
  BY <1>3
<1> DEFINE row(g, left) == [at \in WorkTimes(H) |-> IF Fits(left, Room(at)) THEN at + left
                                                    ELSE g[left - Room(at)][NextMorning(at, H)]]
           g == [left \in 0..n |-> row(f, left)]
<1>5. ASSUME NEW left \in 0..n, left # n PROVE f[left] = row(f, left)
  <2>1. n # 0 /\ left \in 0..(n - 1)
    BY <1>2, <1>5
  <2>2. f = [l \in 0..(n - 1) |-> row(f, l)]
    BY <1>4, <2>1 DEF IsSpend
  <2> HIDE DEF row
  <2> QED
    BY <2>1, <2>2
<1>6. ASSUME NEW left \in 0..n, NEW at \in WorkTimes(H), ~Fits(left, Room(at))
      PROVE  g[left - Room(at)] = f[left - Room(at)]
  <2>1. Room(at) \in Nat \ {0}
    BY RoomIsLeft
  <2>2. left - Room(at) \in 0..n /\ left - Room(at) # n
    BY <1>2, <1>6, <2>1 DEF Fits
  <2> HIDE DEF row
  <2> QED
    BY <1>5, <2>2
<1>7. ASSUME NEW left \in 0..n PROVE row(f, left) = row(g, left)
  <2> HIDE DEF g
  <2> QED
    BY <1>6
<1>8. g = [left \in 0..n |-> row(g, left)]
  <2>1. \A left \in 0..n : row(f, left) = row(g, left)
    BY <1>7
  <2>2. g = [left \in 0..n |-> row(f, left)]
    OBVIOUS
  <2> HIDE DEF row, g
  <2> QED
    BY <2>1, <2>2
<1>9. IsSpend(g, n, H)
  <2> HIDE DEF g
  <2> QED
    BY <1>8 DEF IsSpend
<1> QED
  BY <1>2, <1>9

(* What is spent of a day that has the room is worked in that day. *)
LEMMA SpentInItsDay ==
  ASSUME NEW H \in HolidaySets, NEW at \in WorkTimes(H), NEW n \in Nat \ {0}, n <= Room(at)
  PROVE  Worked(at, n, at + n, H)
<1> DEFINE d == DayOf(at)
           u == at + n
<1>1. at \in Int /\ AtWork(at, H) /\ Room(at) \in Nat \ {0}
  BY RoomIsLeft
<1>2. d \in Int /\ IsWorkDay(d, H) /\ DayStart(d) <= at /\ at < DayEnd(d)
  BY <1>1, AtWorkInItsDay
<1>3. DayStart(d) \in Int /\ DayEnd(d) \in Int
  BY <1>2, DaysInOrder
<1>4. u \in Int /\ u <= DayEnd(d) /\ u > at
  BY <1>1, <1>3 DEF Room
<1> HIDE DEF d, u
<1>5. \A m \in at..(u - 1) : AtWork(m, H)
  <2>1. \A m \in at..(u - 1) : m \in DayStart(d)..(DayEnd(d) - 1)
    BY <1>1, <1>2, <1>3, <1>4
  <2> QED
    BY <1>2, <2>1, HoursOfWork
<1>6. {m \in at..(u - 1) : AtWork(m, H)} = at..(u - 1)
  BY <1>5
<1>7. Cardinality(at..(u - 1)) = n
  <2>1. u - 1 \in Int /\ ~(at > u - 1) /\ (u - 1) - at + 1 = n
    BY <1>1, <1>4 DEF u
  <2> QED
    BY <1>1, <2>1, FS_Interval
<1>8. DayOf(u) = d
  <2>1. u = DayEnd(d) \/ u \in DayStart(d)..(DayEnd(d) - 1)
    BY <1>1, <1>2, <1>3, <1>4
  <2> QED
    BY <1>2, <2>1, HoursOfWork
<1>9. AtWork(u - 1, H)
  <2>1. u - 1 \in at..(u - 1)
    BY <1>1, <1>4
  <2> QED
    BY <1>5, <2>1
<1>10. Worked(at, n, u, H)
  BY <1>2, <1>4, <1>6, <1>7, <1>8, <1>9 DEF Worked
<1> QED
  BY <1>10 DEF u

(* Nobody works between the moments t and b: what is worked from b is worked   *)
(* from t, on top of what is worked before t.                                  *)
LEMMA WorkAddsUp ==
  ASSUME NEW H, NEW s \in Int, NEW t \in Int, NEW b \in Int, NEW n \in Nat, NEW k \in Nat \ {0}, NEW u,
         s <= t, t <= b,
         Cardinality({m \in s..(t - 1) : AtWork(m, H)}) = n,
         \A m \in t..(b - 1) : ~AtWork(m, H),
         Worked(b, k, u, H)
  PROVE  Worked(s, n + k, u, H)
<1> DEFINE A == {m \in s..(t - 1) : AtWork(m, H)}
           B == {m \in b..(u - 1) : AtWork(m, H)}
           C == {m \in s..(u - 1) : AtWork(m, H)}
<1>1. u \in Int /\ Cardinality(B) = k /\ IsWorkDay(DayOf(u), H) /\ AtWork(u - 1, H)
  BY DEF Worked
<1>2. IsFiniteSet(A) /\ IsFiniteSet(B)
  <2>1. IsFiniteSet(s..(t - 1)) /\ IsFiniteSet(b..(u - 1))
    BY <1>1, FS_Interval
  <2>2. A \subseteq s..(t - 1) /\ B \subseteq b..(u - 1)
    OBVIOUS
  <2> HIDE DEF A, B
  <2> QED
    BY <2>1, <2>2, FS_Subset
<1>3. b < u
  <2>1. CASE u <= b
    <3>1. B = {}
      BY <1>1, <2>1
    <3>2. Cardinality(B) = 0
      BY <3>1, FS_EmptySet
    <3> QED
      BY <1>1, <3>2
  <2> QED
    BY <1>1, <2>1
<1>4. C = A \cup B /\ A \cap B = {}
  <2>1. \A m \in C : m \in A \cup B
    <3> SUFFICES ASSUME NEW m \in s..(u - 1), AtWork(m, H) PROVE m \in A \cup B
      OBVIOUS
    <3>1. m \notin t..(b - 1)
      OBVIOUS
    <3>2. m \in s..(t - 1) \/ m \in b..(u - 1)
      BY <1>1, <3>1
    <3> QED
      BY <3>2
  <2>2. \A m \in A \cup B : m \in C
    BY <1>1, <1>3
  <2>3. A \cap B = {}
    BY <1>1
  <2> HIDE DEF A, B, C
  <2> QED
    BY <2>1, <2>2, <2>3
<1>5. Cardinality(A \cup B) = Cardinality(A) + Cardinality(B) - Cardinality(A \cap B)
  <2> HIDE DEF A, B
  <2> QED
    BY <1>2, FS_Union
<1>6. Cardinality(C) = n + k
  <2>1. Cardinality(A) = n
    OBVIOUS
  <2>2. Cardinality(A \cap B) = 0
    BY <1>4, FS_EmptySet
  <2> HIDE DEF A, B, C
  <2> QED
    BY <1>1, <1>4, <1>5, <2>1, <2>2
<1> QED
  BY <1>1, <1>6 DEF Worked

(* Every spending from a moment at work has worked what it spent. *)
LEMMA SpendWorks ==
  ASSUME NEW H \in HolidaySets, NEW halves \in Nat, NEW f, IsSpend(f, halves, H),
         NEW left \in 1..halves, NEW at \in WorkTimes(H)
  PROVE  Worked(at, left, f[left][at], H)
<1> DEFINE Wrong(n) == \E a \in WorkTimes(H) : ~Worked(a, n, f[n][a], H)
           S == {n \in 1..halves : Wrong(n)}
<1> SUFFICES ASSUME S # {} PROVE FALSE
  OBVIOUS
<1>1. PICK n \in S : \A m \in S : n <= m
  <2>1. S \in SUBSET Nat
    OBVIOUS
  <2> HIDE DEF S
  <2> QED
    BY <2>1, SmallestNumber
<1>2. n \in 1..halves /\ Wrong(n)
  OBVIOUS
<1>3. PICK a \in WorkTimes(H) : ~Worked(a, n, f[n][a], H)
  BY <1>2
<1>4. f[n][a] = IF Fits(n, Room(a)) THEN a + n ELSE f[n - Room(a)][NextMorning(a, H)]
  <2> DEFINE row(l) == [x \in WorkTimes(H) |-> IF Fits(l, Room(x)) THEN x + l
                                              ELSE f[l - Room(x)][NextMorning(x, H)]]
  <2>1. f = [l \in 0..halves |-> row(l)]
    BY DEF IsSpend
  <2>2. f[n] = row(n)
    <3> HIDE DEF row
    <3> QED
      BY <1>2, <2>1
  <2> QED
    BY <2>2
<1> DEFINE room == Room(a)
           b == NextMorning(a, H)
           e == DayEnd(DayOf(a))
<1>5. /\ a \in Int /\ room \in Nat \ {0} /\ b \in WorkTimes(H) /\ e < b /\ room = e - a
      /\ \A m \in e..(b - 1) : ~AtWork(m, H)
  BY RoomIsLeft DEF Room
<1>6. b \in Int /\ e \in Int
  <2>1. DayOf(a) \in Int
    BY <1>5, MomentInItsDay
  <2> QED
    BY <1>5, <2>1, DaysInOrder DEF WorkTimes
<1>7. CASE n <= room
  <2>1. f[n][a] = a + n
    BY <1>4, <1>7 DEF Fits
  <2>2. n \in Nat \ {0}
    BY <1>2
  <2> QED
    BY <1>3, <1>7, <2>1, <2>2, SpentInItsDay
<1>8. CASE ~(n <= room)
  <2>1. f[n][a] = f[n - room][b]
    BY <1>4, <1>8 DEF Fits
  <2>2. n - room \in 1..halves /\ ~(n <= n - room) /\ n - room \in Nat \ {0}
    BY <1>2, <1>5, <1>8
  <2>3. ~Wrong(n - room)
    <3>1. n - room \notin S
      BY <1>1, <2>2
    <3> QED
      BY <2>2, <3>1
  <2>4. Worked(b, n - room, f[n - room][b], H)
    BY <1>5, <2>3
  <2>5. Worked(a, room, a + room, H)
    BY <1>5, SpentInItsDay
  <2>6. Cardinality({m \in a..(e - 1) : AtWork(m, H)}) = room
    <3>1. a + room = e
      BY <1>5, <1>6
    <3> QED
      BY <2>5, <3>1 DEF Worked
  <2>7. a <= e /\ e <= b
    BY <1>5, <1>6
  <2> HIDE DEF room, b, e
  <2>8. Worked(a, room + (n - room), f[n - room][b], H)
    BY <1>5, <1>6, <2>2, <2>4, <2>6, <2>7, WorkAddsUp
  <2>9. room + (n - room) = n
    BY <1>2, <1>5
  <2> QED
    BY <1>3, <2>1, <2>8, <2>9
<1> QED
  BY <1>7, <1>8

(* addBusinessHours adds the working half hours it is asked for. *)
LEMMA AddedAreWorked ==
  ASSUME NEW H \in HolidaySets, NEW t \in Int, NEW n \in Nat \ {0}
  PROVE  Worked(t, n, AddHours(t, n, H), H)
<1> DEFINE f == CHOOSE f : IsSpend(f, n, H)
           from == NextAtWork(t, H)
<1>1. IsSpend(f, n, H)
  BY SpendExists
<1>2. AddHours(t, n, H) = f[n][from]
  BY DEF AddHours, IsSpend
<1>3. /\ from \in Int /\ t <= from /\ AtWork(from, H)
      /\ \A m \in t..(from - 1) : ~AtWork(m, H)
  BY NextAtWorkIsNext
<1> HIDE DEF f, from
<1>4. Worked(from, n, f[n][from], H)
  BY <1>1, <1>3, SpendWorks DEF WorkTimes
<1>5. Cardinality({m \in t..(t - 1) : AtWork(m, H)}) = 0
  <2>1. {m \in t..(t - 1) : AtWork(m, H)} = {}
    OBVIOUS
  <2> QED
    BY <2>1, FS_EmptySet
<1>6. Worked(t, 0 + n, f[n][from], H)
  <2> DEFINE u == f[n][from]
  <2>1. 0 \in Nat /\ t <= t /\ Worked(from, n, u, H)
    BY <1>4
  <2> HIDE DEF u
  <2>2. Worked(t, 0 + n, u, H)
    BY <1>3, <1>5, <2>1, WorkAddsUp
  <2> QED
    BY <2>2 DEF u
<1>7. 0 + n = n
  OBVIOUS
<1> QED
  BY <1>2, <1>6, <1>7

\* The schedule is that of a sound request, and the wait that of the policies' clock.
TimesInv ==
  /\ hols \in HolidaySets
  /\ Sound(asked, hols) /\ plan = ScheduleFor(asked, hols)
  /\ waits.from \in Nat /\ waits.hours \in Nat
  /\ waits = [from |-> waits.from, hours |-> waits.hours,
              until |-> AddHours(waits.from, 2 * waits.hours, hols)]

LEMMA TimesStart == DtInit => TimesInv
<1> SUFFICES ASSUME DtInit PROVE TimesInv
  OBVIOUS
<1>1. PICK now \in Moments :
        /\ asked \in Requests(now, hols)
        /\ waits \in {[from |-> now, hours |-> h, until |-> AddHours(now, 2 * h, hols)] : h \in Hours}
  BY DEF DtInit
<1>2. hols \in HolidaySets /\ plan = ScheduleFor(asked, hols) /\ now \in Nat
  BY TimesAssumption DEF DtInit
<1>3. /\ waits.from \in Nat /\ waits.hours \in Nat
      /\ waits = [from |-> waits.from, hours |-> waits.hours,
                  until |-> AddHours(waits.from, 2 * waits.hours, hols)]
  BY <1>1, <1>2, TimesAssumption
<1>4. Sound(asked, hols)
  <2>1. /\ asked \in [tier : {"emergency", "urgent", "soon", "routine", "fixed"}, auto : BOOLEAN,
                      weeks : Weeks \cup {0}, date : {NoTime} \cup {DayOf(m) : m \in Moments}, now : {now}]
        /\ asked.tier = "routine" <=> asked.weeks # 0
        /\ asked.tier = "fixed" => FixedAllowed(now, asked.date, hols)
    BY <1>1 DEF Requests
  <2>2. \A m \in Moments : DayOf(m) \in Int
    BY TimesAssumption, MomentInItsDay
  <2>3. asked.date \in Int
    BY <2>1, <2>2 DEF NoTime
  <2>4. asked.now = now
    BY <2>1
  <2> QED
    BY <1>2, <2>1, <2>3, <2>4 DEF Sound, FixedAllowed
<1> QED
  BY <1>2, <1>3, <1>4 DEF TimesInv

(* What follows a sound request is sound. *)
LEMMA FollowUpIsSound ==
  ASSUME NEW H, NEW a, Sound(a, H), NEW now \in Nat, NEW purpose
  PROVE  Sound(FollowUp(a, purpose, now, H), H)
<1>1. \A auto \in BOOLEAN : Sound(UrgentAsk(now, auto), H)
  BY DEF Sound, UrgentAsk, NoTime
<1>2. a.auto \in BOOLEAN
  BY DEF Sound
<1>3. CASE a.tier \in {"soon", "routine"}
  <2>1. FollowUp(a, purpose, now, H) = [a EXCEPT !.now = now]
    BY <1>3 DEF FollowUp
  <2> QED
    BY <1>3, <2>1 DEF Sound
<1>4. CASE a.tier = "urgent"
  <2>1. FollowUp(a, purpose, now, H) = UrgentAsk(now, purpose = "next_step" \/ a.auto)
    BY <1>4 DEF FollowUp
  <2>2. (purpose = "next_step" \/ a.auto) \in BOOLEAN
    BY <1>2
  <2> QED
    BY <1>1, <2>1, <2>2
<1>5. CASE a.tier = "emergency"
  <2>1. FollowUp(a, purpose, now, H) = UrgentAsk(now, TRUE)
    BY <1>5 DEF FollowUp
  <2> QED
    BY <1>1, <2>1
<1>6. CASE a.tier = "fixed"
  <2>1. CASE IsWorkDay(a.date, H) /\ DayEnd(a.date) > now
    <3>1. FollowUp(a, purpose, now, H) = [a EXCEPT !.now = now]
      BY <1>6, <2>1 DEF FollowUp
    <3> QED
      BY <1>6, <2>1, <3>1 DEF Sound
  <2>2. CASE ~(IsWorkDay(a.date, H) /\ DayEnd(a.date) > now)
    <3>1. FollowUp(a, purpose, now, H) = UrgentAsk(now, TRUE)
      BY <1>6, <2>2 DEF FollowUp
    <3> QED
      BY <1>1, <3>1
  <2> QED
    BY <2>1, <2>2
<1>7. a.tier \in {"emergency", "urgent", "soon", "routine", "fixed"}
  BY DEF Sound
<1> QED
  BY <1>3, <1>4, <1>5, <1>6, <1>7

LEMMA TimesStep == TimesInv /\ [DtNext]_dtVars => TimesInv'
<1> SUFFICES ASSUME TimesInv, [DtNext]_dtVars PROVE TimesInv'
  OBVIOUS
<1>1. CASE DtNext
  <2>1. PICK now \in Moments, purpose \in {"next_step", "reask"} : Follow(now, purpose)
    BY <1>1 DEF DtNext
  <2>2. now \in Nat
    BY TimesAssumption
  <2>3. hols' = hols /\ asked' = FollowUp(asked, purpose, now, hols) /\ plan' = ScheduleFor(asked', hols)
        /\ waits' = [waits EXCEPT !.from = now, !.until = AddHours(now, 2 * waits.hours, hols)]
    BY <2>1 DEF Follow
  <2>4. Sound(asked', hols)
    BY <2>2, <2>3, FollowUpIsSound DEF TimesInv
  <2> QED
    BY <2>2, <2>3, <2>4 DEF TimesInv
<1>2. CASE UNCHANGED dtVars
  BY <1>2 DEF dtVars, TimesInv
<1> QED
  BY <1>1, <1>2

LEMMA TimesGivesHours == TimesInv => WorkingHoursAreKept
<1> SUFFICES ASSUME TimesInv PROVE WorkingHoursAreKept
  OBVIOUS
<1>1. RemindersComeInTime
  <2>1. InTime(asked, plan, hols)
    BY ScheduleInTime DEF TimesInv
  <2> QED
    BY <2>1 DEF InTime, RemindersComeInTime
<1>2. AddedHoursAreWorked
  <2> SUFFICES ASSUME waits.hours > 0 PROVE AddedHoursAreWorked
    BY DEF AddedHoursAreWorked
  <2>1. waits.from \in Int /\ 2 * waits.hours \in Nat \ {0} /\ hols \in HolidaySets
    BY DEF TimesInv
  <2>2. Worked(waits.from, 2 * waits.hours, AddHours(waits.from, 2 * waits.hours, hols), hols)
    BY <2>1, AddedAreWorked
  <2>3. Worked(waits.from, 2 * waits.hours, waits.until, hols)
    BY <2>2 DEF TimesInv
  <2> QED
    BY <2>3 DEF Worked, AddedHoursAreWorked
<1> QED
  BY <1>1, <1>2 DEF WorkingHoursAreKept

(* Whatever the holidays, as long as they end, and whatever is asked, put off   *)
(* and asked again: reminders come in working hours before the deadline, nothing *)
(* moves up early, and a wait is exactly as many working hours as its policy     *)
(* gives (tiers.ts and followUp.ts over businessTime.ts).                        *)
THEOREM WorkingHoursHold == DtSpec => []WorkingHoursAreKept
<1> QED
  BY TimesStart, TimesStep, TimesGivesHours, PTL DEF DtSpec

=============================================================================
