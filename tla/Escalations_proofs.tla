------------------------- MODULE Escalations_proofs -------------------------
(***************************************************************************)
(* Escalations, for every set of keys, requests, levels and rows: its       *)
(* variables keep their types, it implements EscalationChains, and so every *)
(* subject and policy has one live row, chains are whole, and ended rows    *)
(* are final; its rows fit their subjects, and what was closed stays so.    *)
(***************************************************************************)
EXTENDS Escalations, TLAPS, WellFoundedInduction

-----------------------------------------------------------------------------
(* Facts about the helpers. *)

(* The row a step takes first is one of the rows it listed. *)
LEMMA LowestIn ==
  ASSUME NEW S \in SUBSET Nat, S # {}
  PROVE  Lowest(S) \in S /\ \A j \in S : Lowest(S) <= j
  <1> DEFINE R == {ss \in Nat \X Nat : ss[1] < ss[2]}
  <1>1. IsWellFoundedOn(R, Nat)
    <2>1. R = OpToRel(<, Nat)
      BY Zenon DEF OpToRel
    <2> QED
      BY NatLessThanWellFounded, <2>1, Zenon
  <1>2. \A a, b \in Nat : a < b => <<a, b>> \in R
    <2> TAKE a, b \in Nat
    <2> HAVE a < b
    <2>1. <<a, b>> \in Nat \X Nat /\ <<a, b>>[1] = a /\ <<a, b>>[2] = b
      OBVIOUS
    <2> QED
      BY <2>1
  <1> HIDE DEF R
  <1>3. PICK i \in S : \A j \in S : ~(<<j, i>> \in R)
    BY <1>1, WFMin, Zenon
  <1>4. \A j \in S : i <= j
    <2> SUFFICES ASSUME NEW j \in S, ~(i <= j) PROVE FALSE
      OBVIOUS
    <2>1. i \in Nat /\ j \in Nat
      OBVIOUS
    <2>2. j < i
      BY <2>1
    <2>3. <<j, i>> \in R
      BY <1>2, <2>1, <2>2, Zenon
    <2> QED
      BY <2>3, <1>3, Zenon
  <1> QED
    BY <1>4 DEF Lowest

(* resolveTarget answers with a level of the ladder, no lower than it was asked for *)
(* unless that was beyond the top.                                                  *)
LEMMA TargetIsALevel ==
  ASSUME TypeOK, NEW from \in Nat
  PROVE  /\ TargetLevel(from) \in Levels
         /\ Staffed(from) # {} => TargetLevel(from) >= from
         /\ Staffed(from) = {} => TargetLevel(from) = Top
  <1>1. staffed \subseteq Levels /\ Levels \subseteq Nat /\ Top \in Levels
    BY ConstantsAssumption DEF TypeOK, Levels
  <1>2. Staffed(from) \subseteq Levels /\ Staffed(from) \in SUBSET Nat
    BY <1>1 DEF Staffed
  <1>3. ASSUME Staffed(from) # {} PROVE Lowest(Staffed(from)) \in Staffed(from)
    BY <1>2, <1>3, LowestIn
  <1> QED
    BY <1>1, <1>2, <1>3 DEF TargetLevel, Staffed

LEMMA RowTypes ==
  /\ UnusedRow \in Row
  /\ \A r \in Row : Rest(r) \in Row
  /\ \A k \in Keys \cup {NoKey}, l \in Levels, f \in BOOLEAN, q \in Ids \cup {NoRow} :
       NewRow(k, l, f, q) \in Row
  <1>1. MaxAttempts \in Nat /\ 0 \in 0..MaxAttempts /\ 1 \in Levels
    BY ConstantsAssumption DEF Levels
  <1>2. ASSUME NEW k \in Keys \cup {NoKey}, NEW l \in Levels, NEW f \in BOOLEAN,
               NEW q \in Ids \cup {NoRow}
        PROVE  NewRow(k, l, f, q) \in Row
    BY <1>1 DEF NewRow, Row, Statuses, Codes, SweepCodes
  <1>3. ASSUME NEW r \in Row PROVE Rest(r) \in Row
    BY <1>1 DEF Rest, Row
  <1>4. UnusedRow \in Row
    <2>1. NewRow(NoKey, 1, FALSE, NoRow) \in Row
      BY <1>1, <1>2
    <2>2. [NewRow(NoKey, 1, FALSE, NoRow) EXCEPT !.status = "unused"] \in Row
      BY <2>1 DEF Row
    <2> QED
      BY <2>2, <1>3 DEF UnusedRow
  <1> QED
    BY <1>2, <1>3, <1>4

LEMMA WorkTypes ==
  /\ Idle \in Work
  /\ TypeOK => \A k \in Keys \cup {NoKey} : Planned(k) \in Work
  /\ TypeOK => \A i \in Ids, from \in Nat, code \in Codes :
                 rows[i].status \in Statuses => Moving(i, from, code) \in Work
  <1>1. Idle \in Work
    BY ConstantsAssumption DEF Idle, Work, Codes, SweepCodes, Statuses, Levels
  <1>2. ASSUME TypeOK, NEW k \in Keys \cup {NoKey} PROVE Planned(k) \in Work
    <2>1. TargetLevel(1) \in Levels
      BY <1>2, TargetIsALevel
    <2> QED
      BY <1>1, <2>1 DEF Planned, Work
  <1>3. ASSUME TypeOK, NEW i \in Ids, NEW from \in Nat, NEW code \in Codes,
               rows[i].status \in Statuses
        PROVE  Moving(i, from, code) \in Work
    <2>1. TargetLevel(from) \in Levels
      BY <1>3, TargetIsALevel
    <2>2. rows[i] \in Row /\ rows[i].key \in Keys \cup {NoKey}
      BY <1>3 DEF TypeOK, Row
    <2> QED
      BY <1>1, <1>3, <2>1, <2>2 DEF Moving, Work
  <1> QED
    BY <1>1, <1>2, <1>3

LEMMA FlagType ==
  ASSUME TypeOK, NEW r, NEW s PROVE FlagAfter(r, s) \in [Jobs -> BOOLEAN]
  BY DEF FlagAfter, TypeOK

LEMMA ChangedRowTypes ==
  ASSUME NEW r \in Row
  PROVE  /\ \A status \in Statuses, code \in Codes, claim \in BOOLEAN :
              Closed(r, status, code, claim) \in Row
         /\ Acknowledged(r) \in Row
         /\ \A code \in Codes : Superseded(r, code) \in Row
  <1>1. Rest(r) \in Row
    BY RowTypes
  <1>2. ASSUME NEW status \in Statuses, NEW code \in Codes, NEW claim \in BOOLEAN
        PROVE  Closed(r, status, code, claim) \in Row
    <2>1. (r.claimed \/ claim) \in BOOLEAN
      OBVIOUS
    <2> QED
      BY ZenonT(60), <1>1, <2>1 DEF Closed, Row
  <1>3. Acknowledged(r) \in Row
    BY <1>1 DEF Acknowledged, Row, Statuses
  <1>4. ASSUME NEW code \in Codes PROVE Superseded(r, code) \in Row
    BY <1>1 DEF Superseded, Row, Statuses
  <1> QED
    BY <1>2, <1>3, <1>4

LEMMA RecordedType ==
  ASSUME NEW r \in Row, NEW state \in {"none", "pending", "sent", "failed"}, NEW n \in Nat, NEW still
  PROVE  Recorded(r, state, n, still) \in Row
  <1>1. (r.mail /\ still) \in BOOLEAN
    OBVIOUS
  <1>2. Tell(r, still) \in Row
    BY ZenonT(60), <1>1 DEF Tell, Row
  <1>3. AttemptsAfter(r, n) \in 0..MaxAttempts
    BY ConstantsAssumption DEF AttemptsAfter, Row
  <1>4. \A t \in Row : [t EXCEPT !.notif = state, !.attempts = AttemptsAfter(r, n),
                                  !.waited = FALSE] \in Row
    BY <1>3 DEF Row
  <1> QED
    BY <1>2, <1>4 DEF Recorded

LEMMA EndRowTypes ==
  ASSUME TypeOK, NEW p \in Procs, NEW i \in Ids, NEW status \in Statuses, NEW code \in Codes,
         NEW claim \in BOOLEAN, EndRow(p, i, status, code, claim)
  PROVE  /\ rows' \in [Ids -> Row] /\ flag' \in [Jobs -> BOOLEAN]
         /\ chased' \in [Keys -> BOOLEAN] /\ fresh' \in [Procs -> SUBSET Ids]
  <1>1. rows \in [Ids -> Row] /\ Closed(rows[i], status, code, claim) \in Row
    BY ChangedRowTypes DEF TypeOK
  <1>2. rows' \in [Ids -> Row]
    BY <1>1 DEF EndRow
  <1>3. flag' \in [Jobs -> BOOLEAN]
    BY FlagType DEF EndRow
  <1>4. chased' \in [Keys -> BOOLEAN]
    BY DEF EndRow, TypeOK
  <1>5. fresh' \in [Procs -> SUBSET Ids]
    BY DEF EndRow, Touched, TypeOK
  <1> QED
    BY <1>2, <1>3, <1>4, <1>5

LEMMA InsertRowTypes ==
  ASSUME TypeOK, Room, NEW k \in Keys \cup {NoKey}, NEW level \in Levels, NEW flagged \in BOOLEAN,
         NEW parent \in Ids \cup {NoRow}, NEW base \in [Ids -> Row],
         InsertRow(k, level, flagged, parent, base)
  PROVE  /\ rows' \in [Ids -> Row] /\ nextId' \in 1..(MaxRows + 1) /\ nextId \in Ids
         /\ flag' \in [Jobs -> BOOLEAN] /\ handled' \in [Keys -> BOOLEAN]
  <1>1. NewRow(k, level, flagged, parent) \in Row
    BY RowTypes
  <1>2. rows' \in [Ids -> Row]
    BY <1>1 DEF InsertRow
  <1>3. nextId' \in 1..(MaxRows + 1) /\ nextId \in Ids
    BY ConstantsAssumption DEF InsertRow, Room, TypeOK, Ids
  <1>4. flag' \in [Jobs -> BOOLEAN]
    BY FlagType DEF InsertRow
  <1>5. handled' \in [Keys -> BOOLEAN]
    <2>1. (Policy(k) \in SweepPolicies) \in BOOLEAN
      OBVIOUS
    <2>2. handled' = [handled EXCEPT ![k] = (Policy(k) \in SweepPolicies)]
      BY DEF InsertRow
    <2> QED
      BY <2>1, <2>2 DEF TypeOK
  <1> QED
    BY <1>2, <1>3, <1>4, <1>5

LEMMA TouchedType ==
  ASSUME TypeOK, NEW i PROVE Touched(i) \in [Procs -> SUBSET Ids]
  BY DEF Touched, TypeOK

LEMMA ListedTypes ==
  \A step : Listed(step) \in SUBSET Ids /\ Wanted(step) \in SUBSET Keys
  BY DEF Listed, Wanted, AllLive, LiveRows, SweepHealthRows, KeysOf

-----------------------------------------------------------------------------
(* Type correctness, one lemma per group of actions. *)

(* raise, and what a person does to a row they have loaded. *)
LEMMA RequestTypes ==
  ASSUME TypeOK, NEW p \in Requests
  PROVE  /\ \A k \in Keys : RequestRaise(p, k) => TypeOK'
         /\ \A i \in Ids : Load(p, i) => TypeOK'
         /\ Acknowledge(p) \/ Resolve(p) \/ Withdraw(p) \/ PushUp(p) \/ GiveUp(p) => TypeOK'
  <1>0. p \in Procs /\ rows \in [Ids -> Row] /\ fresh[p] \subseteq Ids /\ Idle \in Work
    BY WorkTypes DEF Procs, TypeOK
  <1>1. ASSUME NEW k \in Keys, RequestRaise(p, k) PROVE TypeOK'
    <2>1. Planned(k) \in Work
      BY WorkTypes
    <2> QED
      BY <1>1, <2>1 DEF RequestRaise, Become, TypeOK, world
  <1>2. ASSUME NEW i \in Ids, Load(p, i) PROVE TypeOK'
    <2>1. [Idle EXCEPT !.pc = "loaded", !.id = i, !.key = rows[i].key] \in Work
      BY <1>0 DEF Work, Row
    <2>2. work' \in [Procs -> Work]
      BY <1>2, <2>1 DEF Load, Become, TypeOK
    <2>3. fresh' \in [Procs -> SUBSET Ids]
      BY <1>2 DEF Load, TypeOK
    <2> QED
      BY <1>2, <2>2, <2>3 DEF Load, TypeOK, world
  <1>3. ASSUME Acknowledge(p) PROVE TypeOK'
    <2> DEFINE i == work[p].id
    <2>1. i \in Ids
      BY <1>0, <1>3 DEF Acknowledge, Unchanged
    <2>2. rows' \in [Ids -> Row]
      BY <1>0, <1>3, <2>1, ChangedRowTypes DEF Acknowledge
    <2>3. flag' \in [Jobs -> BOOLEAN]
      BY <1>3, FlagType DEF Acknowledge
    <2>4. fresh' \in [Procs -> SUBSET Ids]
      BY <1>3, TouchedType DEF Acknowledge
    <2>5. work' \in [Procs -> Work]
      BY <1>0, <1>3 DEF Acknowledge, Finish, Become, TypeOK
    <2> QED
      BY <1>3, <2>2, <2>3, <2>4, <2>5 DEF Acknowledge, TypeOK, world
  <1>4. ASSUME Resolve(p) \/ Withdraw(p) PROVE TypeOK'
    <2> DEFINE i == work[p].id
    <2>1. i \in Ids
      BY <1>0, <1>4 DEF Resolve, Withdraw, Unchanged
    <2>2. \E status \in Statuses, code \in Codes, claim \in BOOLEAN :
            EndRow(p, i, status, code, claim)
      BY <1>4 DEF Resolve, Withdraw, Statuses, Codes
    <2>3. /\ rows' \in [Ids -> Row] /\ flag' \in [Jobs -> BOOLEAN]
          /\ chased' \in [Keys -> BOOLEAN] /\ fresh' \in [Procs -> SUBSET Ids]
      BY <1>0, <2>1, <2>2, EndRowTypes
    <2>4. work' \in [Procs -> Work]
      BY <1>0, <1>4 DEF Resolve, Withdraw, Finish, Become, TypeOK
    <2> QED
      BY <1>4, <2>3, <2>4 DEF Resolve, Withdraw, TypeOK, world
  <1>5. ASSUME PushUp(p) PROVE TypeOK'
    <2> DEFINE i == work[p].id
    <2>1. i \in Ids /\ rows[i] \in Row /\ rows[i].status \in Statuses
      BY <1>0, <1>5 DEF PushUp, CanMove, Unchanged, Live, LiveStatuses, Statuses
    <2>2. rows[i].level + 1 \in Nat /\ "escalated" \in Codes
      BY <2>1, ConstantsAssumption DEF Row, Levels, Codes
    <2>3. Moving(i, rows[i].level + 1, "escalated") \in Work
      BY <2>1, <2>2, WorkTypes
    <2> QED
      BY <1>5, <2>3 DEF PushUp, Become, TypeOK, world
  <1>6. ASSUME GiveUp(p) PROVE TypeOK'
    BY <1>0, <1>6 DEF GiveUp, Finish, Become, TypeOK, world
  <1> QED
    BY <1>1, <1>2, <1>3, <1>4, <1>5, <1>6

(* The writes a request and the sweep make alike, and the email after them. *)
LEMMA ProcTypes ==
  ASSUME TypeOK, NEW p \in Procs, ProcStep(p)
  PROVE  TypeOK'
  <1>0. /\ rows \in [Ids -> Row] /\ fresh[p] \subseteq Ids /\ Idle \in Work /\ work[p] \in Work
        /\ work \in [Procs -> Work]
    BY WorkTypes DEF TypeOK
  <1>1. /\ work[p].id \in Ids \cup {NoRow} /\ work[p].key \in Keys \cup {NoKey}
        /\ work[p].level \in Levels /\ work[p].flagged \in BOOLEAN /\ work[p].code \in Codes
    BY <1>0 DEF Work
  <1>2. ASSUME rows' \in [Ids -> Row], nextId \in Ids, StartSend(p, nextId)
        PROVE  work' \in [Procs -> Work]
    <2>1. [Idle EXCEPT !.pc = "sending", !.id = nextId, !.key = rows'[nextId].key] \in Work
      BY <1>0, <1>2 DEF Work, Row
    <2> QED
      BY <1>0, <1>2, <2>1 DEF StartSend, Become
  <1>3. CASE WriteRaise(p)
    <2>1. CASE LiveRows(work[p].key) = {} /\ Room
      <3>1. /\ InsertRow(work[p].key, work[p].level, work[p].flagged, NoRow, rows)
            /\ StartSend(p, nextId)
        BY <1>3, <2>1 DEF WriteRaise
      <3>2. /\ rows' \in [Ids -> Row] /\ nextId' \in 1..(MaxRows + 1) /\ nextId \in Ids
            /\ flag' \in [Jobs -> BOOLEAN] /\ handled' \in [Keys -> BOOLEAN]
        BY <1>0, <1>1, <2>1, <3>1, InsertRowTypes
      <3>3. work' \in [Procs -> Work]
        BY <1>2, <3>1, <3>2
      <3> QED
        BY <1>3, <3>2, <3>3 DEF WriteRaise, TypeOK, world
    <2>2. CASE ~(LiveRows(work[p].key) = {} /\ Room)
      BY <1>0, <1>3, <2>2 DEF WriteRaise, Finish, Become, TypeOK, world
    <2> QED
      BY <2>1, <2>2
  <1>4. CASE Supersede(p)
    <2> DEFINE i == work[p].id
    <2>1. CASE StillHolds(p, i) /\ Room
      <3>1. i \in Ids
        BY <1>0, <2>1 DEF StillHolds, Unchanged
      <3>2. [rows EXCEPT ![i] = Superseded(rows[i], work[p].code)] \in [Ids -> Row]
        BY <1>0, <1>1, <3>1, ChangedRowTypes
      <3>3. rows[i].key \in Keys \cup {NoKey}
        BY <1>0, <3>1 DEF Row
      <3>4. /\ InsertRow(rows[i].key, work[p].level, work[p].flagged, i,
                         [rows EXCEPT ![i] = Superseded(rows[i], work[p].code)])
            /\ StartSend(p, nextId) /\ fresh' = Touched(i)
        BY <1>4, <2>1 DEF Supersede
      <3>5. /\ rows' \in [Ids -> Row] /\ nextId' \in 1..(MaxRows + 1) /\ nextId \in Ids
            /\ flag' \in [Jobs -> BOOLEAN] /\ handled' \in [Keys -> BOOLEAN]
        BY <1>1, <2>1, <3>1, <3>2, <3>3, <3>4, InsertRowTypes
      <3>6. work' \in [Procs -> Work]
        BY <1>2, <3>4, <3>5
      <3>7. fresh' \in [Procs -> SUBSET Ids]
        BY <3>4, TouchedType
      <3> QED
        BY <1>4, <3>5, <3>6, <3>7 DEF Supersede, TypeOK, world
    <2>2. CASE ~(StillHolds(p, i) /\ Room)
      BY <1>0, <1>4, <2>2 DEF Supersede, Finish, Become, TypeOK, world
    <2> QED
      BY <2>1, <2>2
  <1>5. CASE Notify(p)
    <2> DEFINE i == work[p].id
    <2>1. PICK outcome \in Outcomes(p) :
            /\ rows' = [rows EXCEPT ![i] = Recorded(rows[i], outcome[1], Counted(p, outcome),
                                                    Subject(rows[i].key) \in late[p])]
            /\ Become(p, IF outcome[1] = "sent" THEN [work[p] EXCEPT !.pc = "flagging"] ELSE Idle)
            /\ sweep' = [sweep EXCEPT !.errs = RunErred(p, outcome)]
      BY <1>5 DEF Notify
    <2>2. outcome[1] \in {"none", "pending", "sent", "failed"} /\ Counted(p, outcome) \in Nat
      BY ConstantsAssumption DEF Outcomes, Tries, Counted
    <2>3. ASSUME i \in Ids
          PROVE  Recorded(rows[i], outcome[1], Counted(p, outcome), Subject(rows[i].key) \in late[p])
                   \in Row
      BY <1>0, <2>2, <2>3, RecordedType
    <2>4. rows' \in [Ids -> Row]
      BY <1>0, <2>1, <2>3
    <2>5. work' \in [Procs -> Work]
      <3>1. [work[p] EXCEPT !.pc = "flagging"] \in Work
        BY <1>0 DEF Work
      <3> QED
        BY <1>0, <2>1, <3>1 DEF Become
    <2>6. sweep' \in Run
      <3>1. RunErred(p, outcome) \in BOOLEAN
        BY DEF RunErred
      <3> QED
        BY <2>1, <3>1 DEF TypeOK, Run
    <2>7. fresh' \in [Procs -> SUBSET Ids] /\ late' \in [Procs -> SUBSET Jobs]
      BY <1>5, TouchedType DEF Notify, ClockDone, TypeOK
    <2> QED
      BY <1>5, <2>4, <2>5, <2>6, <2>7 DEF Notify, TypeOK, world
  <1>6. CASE FlagSubject(p)
    <2>1. flag' \in [Jobs -> BOOLEAN]
      BY <1>6, FlagType DEF FlagSubject
    <2> QED
      BY <1>0, <1>6, <2>1 DEF FlagSubject, Finish, Become, TypeOK, world
  <1> QED
    BY <1>3, <1>4, <1>5, <1>6 DEF ProcStep

(* The domains that raise and end their own escalations. *)
LEMMA DomainTypes ==
  ASSUME TypeOK, NEW p \in Requests
  PROVE  /\ \A k \in Keys : AskWithin(p, k) \/ AskThenRaise(p, k) \/ DecideThenConclude(p, k) => TypeOK'
         /\ \A i \in Ids : AnswerWithin(p, i) => TypeOK'
         /\ RaiseAsked(p) \/ ConcludeList(p) \/ ConcludeRow(p) => TypeOK'
  <1>0. /\ p \in Procs /\ rows \in [Ids -> Row] /\ Idle \in Work /\ work \in [Procs -> Work]
        /\ work[p] \in Work
    BY WorkTypes DEF Procs, TypeOK
  <1>1. ASSUME NEW k \in Keys, AskWithin(p, k) PROVE TypeOK'
    <2>1. TargetLevel(1) \in Levels /\ (Staffed(1) = {}) \in BOOLEAN
      BY TargetIsALevel
    <2>2. /\ rows' \in [Ids -> Row] /\ nextId' \in 1..(MaxRows + 1) /\ nextId \in Ids
          /\ flag' \in [Jobs -> BOOLEAN] /\ handled' \in [Keys -> BOOLEAN]
      BY <1>0, <1>1, <2>1, InsertRowTypes DEF AskWithin
    <2>3. [Idle EXCEPT !.pc = "sending", !.id = nextId, !.key = rows'[nextId].key] \in Work
      BY <1>0, <2>2 DEF Work, Row
    <2>4. work' \in [Procs -> Work]
      BY <1>0, <1>1, <2>3 DEF AskWithin, StartSend, Become
    <2>5. active' \in [Keys -> BOOLEAN]
      BY <1>1 DEF AskWithin, TypeOK
    <2> QED
      BY <1>1, <2>2, <2>4, <2>5 DEF AskWithin, TypeOK, world
  <1>2. ASSUME NEW k \in Keys, AskThenRaise(p, k) PROVE TypeOK'
    <2>1. [Idle EXCEPT !.pc = "asked", !.key = k] \in Work
      BY <1>0 DEF Work
    <2>2. work' \in [Procs -> Work]
      BY <1>0, <1>2, <2>1 DEF AskThenRaise, Become
    <2>3. active' \in [Keys -> BOOLEAN]
      BY <1>2 DEF AskThenRaise, TypeOK
    <2> QED
      BY <1>2, <2>2, <2>3 DEF AskThenRaise, TypeOK, world
  <1>3. ASSUME NEW k \in Keys, DecideThenConclude(p, k) PROVE TypeOK'
    <2>1. [Idle EXCEPT !.pc = "deciding", !.key = k] \in Work
      BY <1>0 DEF Work
    <2>2. work' \in [Procs -> Work]
      BY <1>0, <1>3, <2>1 DEF DecideThenConclude, Become
    <2>3. active' \in [Keys -> BOOLEAN] /\ decided' \subseteq Keys
      BY <1>3 DEF DecideThenConclude, TypeOK
    <2> QED
      BY <1>3, <2>2, <2>3 DEF DecideThenConclude, TypeOK, world
  <1>4. ASSUME NEW i \in Ids, AnswerWithin(p, i) PROVE TypeOK'
    <2>1. \E status \in Statuses : EndRow(p, i, status, "decided", FALSE)
      BY <1>4 DEF AnswerWithin, Statuses
    <2>2. /\ rows' \in [Ids -> Row] /\ flag' \in [Jobs -> BOOLEAN]
          /\ chased' \in [Keys -> BOOLEAN] /\ fresh' \in [Procs -> SUBSET Ids]
      BY <1>0, <2>1, EndRowTypes DEF Codes
    <2>3. active' \in [Keys -> BOOLEAN]
      BY <1>4 DEF AnswerWithin, TypeOK
    <2> QED
      BY <1>4, <2>2, <2>3 DEF AnswerWithin, TypeOK, world
  <1>5. ASSUME RaiseAsked(p) PROVE TypeOK'
    <2>1. Planned(work[p].key) \in Work
      BY <1>0, WorkTypes DEF Work
    <2> QED
      BY <1>0, <1>5, <2>1 DEF RaiseAsked, Become, TypeOK, world
  <1>6. ASSUME ConcludeList(p) PROVE TypeOK'
    <2> DEFINE found == LiveRows(work[p].key)
    <2>1. ASSUME found # {}
          PROVE  [work[p] EXCEPT !.pc = "concluding", !.id = Lowest(found),
                                 !.seen = rows[Lowest(found)].status] \in Work
      <3>1. found \in SUBSET Nat /\ found \subseteq Ids
        BY DEF LiveRows, Ids
      <3>2. Lowest(found) \in found
        BY <2>1, <3>1, LowestIn
      <3>3. Lowest(found) \in Ids /\ rows[Lowest(found)].status \in Statuses
        BY <3>1, <3>2 DEF LiveRows, Live, LiveStatuses, Statuses
      <3> QED
        BY <1>0, <3>3 DEF Work
    <2>2. work' \in [Procs -> Work]
      BY <1>0, <1>6, <2>1 DEF ConcludeList, Become
    <2> QED
      BY <1>6, <2>2 DEF ConcludeList, TypeOK, world
  <1>7. ASSUME ConcludeRow(p) PROVE TypeOK'
    <2> DEFINE i == work[p].id
    <2>1. work' \in [Procs -> Work]
      BY <1>0, <1>7 DEF ConcludeRow, Finish, Become
    <2>2. ASSUME NEW status \in {"resolved", "withdrawn"}, EndRow(p, i, status, "decided", FALSE)
          PROVE  /\ rows' \in [Ids -> Row] /\ flag' \in [Jobs -> BOOLEAN]
                 /\ chased' \in [Keys -> BOOLEAN] /\ fresh' \in [Procs -> SUBSET Ids]
      <3>1. CASE i \in Ids
        BY <1>0, <2>2, <3>1, EndRowTypes DEF Codes, Statuses
      <3>2. CASE i \notin Ids
        <4>1. rows' = rows
          BY <1>0, <2>2, <3>2 DEF EndRow
        <4> QED
          BY <1>0, <2>2, <4>1, FlagType, TouchedType DEF EndRow, TypeOK
      <3> QED
        BY <3>1, <3>2
    <2>3. /\ rows' \in [Ids -> Row] /\ flag' \in [Jobs -> BOOLEAN]
          /\ chased' \in [Keys -> BOOLEAN] /\ fresh' \in [Procs -> SUBSET Ids]
      BY <1>7, <2>2 DEF ConcludeRow, TypeOK
    <2> QED
      BY <1>7, <2>1, <2>3 DEF ConcludeRow, TypeOK, world
  <1> QED
    BY <1>1, <1>2, <1>3, <1>4, <1>5, <1>6, <1>7

(* Faults: lost bookkeeping and crashes. *)
LEMMA FaultTypes == ASSUME TypeOK, FaultStep PROVE TypeOK'
  <1>0. Idle \in Work /\ Sweep \in Procs /\ Requests \subseteq Procs /\ NoRun \in Run
    BY WorkTypes, ConstantsAssumption DEF Procs, NoRun, Run, NotRunning, ReportStep
  <1>1. faults' \in 0..MaxFaults
    BY ConstantsAssumption DEF FaultStep, LoseBookkeeping, CrashRequest, CrashSweep, Fault, TypeOK
  <1>2. ASSUME NEW p \in Procs, LoseBookkeeping(p) PROVE TypeOK'
    BY <1>0, <1>1, <1>2 DEF LoseBookkeeping, ClockDone, Finish, Become, Fault, TypeOK
  <1>3. ASSUME NEW p \in Requests, CrashRequest(p) PROVE TypeOK'
    BY <1>0, <1>1, <1>3 DEF CrashRequest, Forget, Finish, Become, Fault, TypeOK
  <1>4. ASSUME CrashSweep PROVE TypeOK'
    BY <1>0, <1>1, <1>4 DEF CrashSweep, Forget, Finish, Become, Fault, TypeOK
  <1> QED
    BY <1>2, <1>3, <1>4 DEF FaultStep

(* The sweep's run. *)
LEMMA SweepTypes == ASSUME TypeOK, SweepStep PROVE TypeOK'
  <1>0. /\ Idle \in Work /\ Sweep \in Procs /\ NoRun \in Run /\ work \in [Procs -> Work]
        /\ sweep \in Run /\ rows \in [Ids -> Row] /\ fresh \in [Procs -> SUBSET Ids]
    BY WorkTypes, ConstantsAssumption DEF Procs, NoRun, Run, NotRunning, ReportStep, TypeOK
  <1>1. /\ sweep.todo \subseteq Ids /\ sweep.todo \in SUBSET Nat /\ sweep.wanted \subseteq Keys
        /\ sweep.left \in 0..MaxActions /\ MaxActions \in Nat
    BY <1>0, ConstantsAssumption DEF Run, Ids
  <1>2. ASSUME sweep.todo # {} PROVE Lowest(sweep.todo) \in Ids
    BY <1>1, <1>2, LowestIn
  <1>3. ASSUME NEW step \in NotRunning..ReportStep, NEW run \in Run, BeginStep(step, run)
        PROVE  sweep' \in Run /\ fresh' \in [Procs -> SUBSET Ids]
    <2>1. Listed(step) \in SUBSET Ids /\ Wanted(step) \in SUBSET Keys
      BY ListedTypes
    <2> QED
      BY <1>0, <1>3, <2>1 DEF BeginStep, Run
  <1>4. CASE SweepBegin
    <2>1. [NoRun EXCEPT !.left = MaxActions] \in Run /\ ClearStep \in NotRunning..ReportStep
      BY <1>0, <1>1 DEF Run, ClearStep, NotRunning, ReportStep
    <2> QED
      BY <1>3, <1>4, <2>1 DEF SweepBegin, TypeOK, world
  <1>5. CASE SweepNextStep
    <2>1. sweep.step + 1 \in NotRunning..ReportStep
      BY <1>5 DEF SweepNextStep, ClearStep, HealthStep, NotRunning, ReportStep
    <2> QED
      BY <1>0, <1>3, <1>5, <2>1 DEF SweepNextStep, TypeOK, world
  <1>6. CASE SweepEnd
    BY <1>0, <1>6 DEF SweepEnd, Forget, Finish, Become, TypeOK, world
  <1>7. CASE SweepOutOfActions
    BY <1>0, <1>7 DEF SweepOutOfActions, TypeOK, Run, world
  <1>8. ASSUME NEW i \in Ids, AutoResolve(i)
        PROVE  /\ rows' \in [Ids -> Row] /\ flag' \in [Jobs -> BOOLEAN]
               /\ chased' \in [Keys -> BOOLEAN] /\ fresh' \in [Procs -> SUBSET Ids]
    <2>1. CASE Unchanged(Sweep, i) /\ Live(rows[i])
      <3>1. \E status \in Statuses, code \in Codes, claim \in BOOLEAN :
              EndRow(Sweep, i, status, code, claim)
        BY <1>8, <2>1 DEF AutoResolve, Statuses, Codes
      <3> QED
        BY <1>0, <3>1, EndRowTypes
    <2>2. CASE ~(Unchanged(Sweep, i) /\ Live(rows[i]))
      BY <1>0, <1>8, <2>2 DEF AutoResolve, TypeOK
    <2> QED
      BY <2>1, <2>2
  <1>9. ASSUME NEW i, Take(i) PROVE sweep' \in Run
    <2>1. sweep.left - 1 \in 0..MaxActions /\ sweep.todo \ {i} \in SUBSET Ids
      BY <1>1, <1>9 DEF Take
    <2>2. sweep' = [sweep EXCEPT !.todo = sweep.todo \ {i}, !.left = sweep.left - 1]
      BY <1>9 DEF Take
    <2> QED
      BY <1>0, <2>1, <2>2 DEF Run
  <1>10. CASE SweepClear
    BY <1>2, <1>8, <1>9, <1>10 DEF SweepClear, AutoResolve, TypeOK, world
  <1>11. CASE SweepStillHolds
    BY <1>0, <1>11 DEF SweepStillHolds, TypeOK, Run, world
  <1>12. CASE SweepReport
    <2>1. sweep' \in Run
      BY <1>0, <1>12 DEF SweepReport, Run
    <2> QED
      BY <1>2, <1>8, <1>12, <2>1 DEF SweepReport, AutoResolve, TypeOK, world
  <1>13. ASSUME NEW step, NEW from \in Nat, NEW repeat, NEW code \in Codes,
                SweepMove(step, from, repeat, code)
         PROVE  TypeOK'
    <2> DEFINE i == Lowest(sweep.todo)
    <2>1. i \in Ids /\ sweep' \in Run
      BY <1>2, <1>9, <1>13 DEF SweepMove
    <2>2. ASSUME rows[i].status = "open" PROVE Moving(i, from, code) \in Work
      BY <2>1, <2>2, WorkTypes DEF Statuses
    <2>3. work' \in [Procs -> Work]
      BY <1>0, <1>13, <2>2 DEF SweepMove, Become
    <2> QED
      BY <1>13, <2>1, <2>3 DEF SweepMove, TypeOK, world
  <1>14. ASSUME sweep.todo # {}
         PROVE  rows[Lowest(sweep.todo)].level \in Nat /\ rows[Lowest(sweep.todo)].level + 1 \in Nat
    BY <1>0, <1>2, <1>14, ConstantsAssumption DEF Row, Levels
  <1>15. CASE SweepOverdue
    <2>1. sweep.todo # {} /\ {"sla_breach", "reminder"} \subseteq Codes
      BY <1>15 DEF SweepOverdue, Codes, SweepCodes
    <2>2. \/ SweepMove(OverdueStep, rows[Lowest(sweep.todo)].level + 1, FALSE, "sla_breach")
          \/ SweepMove(OverdueStep, rows[Lowest(sweep.todo)].level, TRUE, "reminder")
      BY <1>15 DEF SweepOverdue
    <2> QED
      BY <1>13, <1>14, <2>1, <2>2
  <1>16. CASE SweepFollow
    BY <1>13, <1>14, <1>16 DEF SweepFollow, SweepMove, Codes, SweepCodes
  <1>17. ASSUME NEW step, NEW code \in Codes, SweepSend(step, code), sweep' \in Run PROVE TypeOK'
    <2> DEFINE i == Lowest(sweep.todo)
    <2>1. i \in Ids /\ rows[i].key \in Keys \cup {NoKey}
      BY <1>0, <1>2, <1>17 DEF SweepSend, Row
    <2>2. [Idle EXCEPT !.pc = "sending", !.id = i, !.key = rows[i].key, !.code = code] \in Work
      BY <1>0, <2>1 DEF Work
    <2>3. work' \in [Procs -> Work]
      BY <1>0, <1>17, <2>2 DEF SweepSend, Become
    <2> QED
      BY <1>17, <2>3 DEF SweepSend, TypeOK, world
  <1>18. CASE SweepRemind
    BY <1>9, <1>17, <1>18 DEF SweepRemind, Codes, SweepCodes
  <1>19. CASE SweepRetry
    <2>1. sweep' \in Run
      BY <1>0, <1>19 DEF SweepRetry, Run
    <2> QED
      BY <1>17, <1>19, <2>1 DEF SweepRetry, Codes
  <1>20. ASSUME NEW k \in Keys, SweepRaise(k) PROVE TypeOK'
    <2>1. sweep' \in Run
      <3> DEFINE left == IF sweep.step \in PacedSteps THEN sweep.left - 1 ELSE sweep.left
      <3>1. left \in 0..MaxActions /\ sweep.wanted \ {k} \in SUBSET Keys
        BY <1>1, <1>20 DEF SweepRaise
      <3>2. sweep' = [sweep EXCEPT !.wanted = sweep.wanted \ {k}, !.left = left]
        BY <1>20 DEF SweepRaise
      <3> QED
        BY <1>0, <3>1, <3>2 DEF Run
    <2>2. Planned(k) \in Work
      BY WorkTypes
    <2>3. work' \in [Procs -> Work]
      BY <1>0, <1>20, <2>2 DEF SweepRaise, Become
    <2> QED
      BY <1>20, <2>1, <2>3 DEF SweepRaise, TypeOK, world
  <1> QED
    BY <1>4, <1>5, <1>6, <1>7, <1>10, <1>11, <1>12, <1>15, <1>16, <1>18, <1>19, <1>20 DEF SweepStep

(* Time, email, conditions, the directory and the settings. *)
LEMMA WorldTypes == ASSUME TypeOK, WorldStep PROVE TypeOK'
  <1>0. rows \in [Ids -> Row]
    BY DEF TypeOK
  <1>1. ASSUME NEW i \in Ids, DuePasses(i) \/ BackoffPasses(i) \/ ReminderPasses(i) PROVE TypeOK'
    <2>1. /\ [rows[i] EXCEPT !.overdue = TRUE] \in Row /\ [rows[i] EXCEPT !.waited = TRUE] \in Row
          /\ [rows[i] EXCEPT !.remind = TRUE] \in Row
      BY ZenonT(60), <1>0 DEF Row
    <2>2. \E past \in Row : TimePasses(i, past)
      BY <1>1, <2>1 DEF DuePasses, BackoffPasses, ReminderPasses
    <2> QED
      BY <1>0, <2>2 DEF TimePasses, TypeOK, world
  <1>2. ASSUME NEW j \in Mailed, EmailArrives(j) PROVE TypeOK'
    <2>1. \A r \in Row : MailComes(r, j) \in Row
      <3> SUFFICES ASSUME NEW r \in Row PROVE MailComes(r, j) \in Row
        OBVIOUS
      <3>1. (r.mail \/ (Restartable(r) /\ Subject(r.key) = j)) \in BOOLEAN
        OBVIOUS
      <3> QED
        BY <3>1 DEF MailComes, Row
    <2>3. rows' \in [Ids -> Row]
      BY <1>0, <1>2, <2>1 DEF EmailArrives
    <2>4. chased' \in [Keys -> BOOLEAN]
      BY <1>2 DEF EmailArrives, TypeOK
    <2>5. late' \in [Procs -> SUBSET Jobs]
      BY <1>2, ConstantsAssumption DEF EmailArrives, TypeOK
    <2> QED
      BY <1>2, <2>3, <2>4, <2>5 DEF EmailArrives, TypeOK, world
  <1>3. ASSUME NEW k \in Keys, ConditionHolds(k) \/ ConditionClears(k) PROVE TypeOK'
    BY <1>3 DEF ConditionHolds, ConditionClears, TypeOK, world
  <1>4. CASE DirectoryChanges \/ SettingsChange
    BY <1>4 DEF DirectoryChanges, SettingsChange, TypeOK
  <1> QED
    BY <1>1, <1>2, <1>3, <1>4 DEF WorldStep

LEMMA InitTypes == Init => TypeOK
  <1> SUFFICES ASSUME Init PROVE TypeOK
    OBVIOUS
  <1>1. UnusedRow \in Row /\ Idle \in Work
    BY RowTypes, WorkTypes
  <1>2. NoRun \in Run
    BY ConstantsAssumption DEF NoRun, Run, NotRunning, ReportStep
  <1> QED
    BY <1>1, <1>2, ConstantsAssumption DEF Init, TypeOK

LEMMA NextTypes == TypeOK /\ [Next]_vars => TypeOK'
  <1> SUFFICES ASSUME TypeOK, [Next]_vars PROVE TypeOK'
    OBVIOUS
  <1>1. CASE UNCHANGED vars
    BY <1>1 DEF vars, TypeOK
  <1>2. ASSUME NEW p \in Requests, RequestStep(p) PROVE TypeOK'
    BY <1>2, RequestTypes, DomainTypes DEF RequestStep
  <1> QED
    BY <1>1, <1>2, ProcTypes, SweepTypes, FaultTypes, WorldTypes DEF Next

(* Every variable of the engine, its callers and its sweep keeps its type: no step    *)
(* reads a row, a level or a run that does not exist.                                *)
THEOREM TypeCorrect == Spec => []TypeOK
  BY InitTypes, NextTypes, PTL DEF Spec

-----------------------------------------------------------------------------
(* Escalations implements EscalationChains.  The inductive invariant says, of a      *)
(* process between two of its steps, what the step it is about to take needs: a row   *)
(* to insert has a real key, and a row to move is one that exists, to a level no lower *)
(* than its own, for a reason of the caller's kind.                                   *)

CP == INSTANCE EscalationChains_proofs WITH chain <- cores

WorkOK(p, w) ==
  /\ w.pc \in {"asked", "raising"} => w.key \in Keys
  /\ w.pc = "concluding" => w.id \in Ids
  /\ w.pc = "moving" => /\ w.id \in Ids /\ rows[w.id].status # "unused"
                        /\ w.level >= rows[w.id].level
                        /\ w.code \in SweepCodes \cup {"escalated"}
                        /\ p # Sweep => w.code = "escalated"
WorkInv == \A p \in Procs : WorkOK(p, work[p])
IInv == TypeOK /\ WorkInv /\ CP!ChainInv

LEMMA ChainsAssume == CP!ChainAssumption
  BY ConstantsAssumption DEF CP!ChainAssumption

(* What each change of a row does to the part of it that EscalationChains keeps. *)
LEMMA CoreOf ==
  ASSUME NEW r \in Row
  PROVE  /\ \A status, code, claim :
              Core(Closed(r, status, code, claim)) =
                CP!Changed(Core(r), status, r.claimed \/ claim, code)
         /\ Core(Acknowledged(r)) = CP!Changed(Core(r), "acknowledged", TRUE, r.code)
         /\ \A code : Core(Superseded(r, code)) = CP!Changed(Core(r), "superseded", r.claimed, code)
         /\ \A state, n, still : Core(Recorded(r, state, n, still)) = Core(r)
         /\ \A j : Core(MailComes(r, j)) = Core(r)
         /\ Core([r EXCEPT !.overdue = TRUE]) = Core(r)
         /\ Core([r EXCEPT !.waited = TRUE]) = Core(r)
         /\ Core([r EXCEPT !.remind = TRUE]) = Core(r)
  <1>1. /\ Core([r EXCEPT !.overdue = TRUE]) = Core(r)
        /\ Core([r EXCEPT !.waited = TRUE]) = Core(r)
        /\ Core([r EXCEPT !.remind = TRUE]) = Core(r)
    BY DEF Core, Row
  <1>2. \A j : Core(MailComes(r, j)) = Core(r)
    BY DEF Core, MailComes, Row
  <1>3. ASSUME NEW state, NEW n, NEW still PROVE Core(Recorded(r, state, n, still)) = Core(r)
    BY DEF Core, Recorded, Tell, Row
  <1>4. /\ Rest(r).key = r.key /\ Rest(r).status = r.status /\ Rest(r).level = r.level
        /\ Rest(r).parent = r.parent /\ Rest(r).claimed = r.claimed /\ Rest(r).code = r.code
        /\ Rest(r) \in Row
    BY ZenonT(60), RowTypes DEF Rest, Row
  <1>5. Core(Acknowledged(r)) = CP!Changed(Core(r), "acknowledged", TRUE, r.code)
    <2> DEFINE a == Acknowledged(r)
    <2>1. /\ a.key = r.key /\ a.status = "acknowledged" /\ a.level = r.level
          /\ a.parent = r.parent /\ a.claimed = TRUE /\ a.code = r.code
      BY <1>4 DEF Acknowledged, Row
    <2> HIDE DEF a
    <2>2. Core(a) = CP!Changed(Core(r), "acknowledged", TRUE, r.code)
      BY <2>1 DEF Core, CP!Changed
    <2> QED
      BY <2>2 DEF a
  <1>6. ASSUME NEW code
        PROVE  Core(Superseded(r, code)) = CP!Changed(Core(r), "superseded", r.claimed, code)
    <2> DEFINE a == Superseded(r, code)
    <2>1. /\ a.key = r.key /\ a.status = "superseded" /\ a.level = r.level
          /\ a.parent = r.parent /\ a.claimed = r.claimed /\ a.code = code
      BY <1>4 DEF Superseded, Row
    <2> HIDE DEF a
    <2>2. Core(a) = CP!Changed(Core(r), "superseded", r.claimed, code)
      BY <2>1 DEF Core, CP!Changed
    <2> QED
      BY <2>2 DEF a
  <1>7. ASSUME NEW status, NEW code, NEW claim
        PROVE  Core(Closed(r, status, code, claim)) =
                 CP!Changed(Core(r), status, r.claimed \/ claim, code)
    <2> DEFINE a == Closed(r, status, code, claim)
               c == r.claimed \/ claim
    <2>1. a = [Rest(r) EXCEPT !.status = status, !.code = code, !.claimed = c]
      BY Zenon DEF Closed
    <2> HIDE DEF a, c
    <2>2. /\ a.key = r.key /\ a.status = status /\ a.level = r.level
          /\ a.parent = r.parent /\ a.claimed = c /\ a.code = code
      BY <1>4, <2>1 DEF Row
    <2>3. Core(a) = CP!Changed(Core(r), status, c, code)
      BY <2>2 DEF Core, CP!Changed
    <2> QED
      BY <2>3, Zenon DEF a, c
  <1> QED
    BY <1>1, <1>2, <1>3, <1>5, <1>6, <1>7

LEMMA CoresOf ==
  ASSUME TypeOK
  PROVE  /\ cores \in [Ids -> CP!Entry]
         /\ \A i \in Ids : cores[i] = Core(rows[i])
         /\ CP!Ids = Ids /\ CP!Levels = Levels /\ CP!LiveStatuses = LiveStatuses
         /\ CP!SweepCodes = SweepCodes /\ CP!NoRow = NoRow
  <1>1. /\ CP!Ids = Ids /\ CP!Levels = Levels /\ CP!LiveStatuses = LiveStatuses
        /\ CP!SweepCodes = SweepCodes /\ CP!NoRow = NoRow
    BY DEF CP!Ids, Ids, CP!Levels, Levels, CP!LiveStatuses, LiveStatuses, CP!SweepCodes,
           SweepCodes, CP!NoRow, NoRow
  <1>2. \A r \in Row : Core(r) \in CP!Entry
    BY <1>1 DEF Core, Row, CP!Entry, Statuses, Codes, LiveStatuses, SweepCodes,
                CP!EndedStatuses, CP!MoveCodes, CP!CloseCodes
  <1> QED
    BY <1>1, <1>2 DEF cores, TypeOK

(* Ending a live row is a Close, whoever ends it. *)
LEMMA EndRowCloses ==
  ASSUME TypeOK, NEW p, NEW i \in Ids, Live(rows[i]), NEW status \in {"resolved", "withdrawn"},
         NEW code \in CP!CloseCodes, NEW claim \in BOOLEAN,
         EndRow(p, i, status, code, claim), nextId' = nextId
  PROVE  CP!Next
  <1>1. rows \in [Ids -> Row] /\ rows[i] \in Row
    BY DEF TypeOK
  <1>2. Core(Closed(rows[i], status, code, claim)) =
          CP!Changed(Core(rows[i]), status, rows[i].claimed \/ claim, code)
    <2>1. \A s, c, b : Core(Closed(rows[i], s, c, b)) =
                         CP!Changed(Core(rows[i]), s, rows[i].claimed \/ b, c)
      BY <1>1, CoreOf, Zenon
    <2> QED
      BY <2>1, Zenon
  <1>3. /\ rows'[i] = Closed(rows[i], status, code, claim)
        /\ \A j \in Ids \ {i} : rows'[j] = rows[j]
    BY <1>1 DEF EndRow
  <1>4. cores' = [cores EXCEPT ![i] = CP!Changed(cores[i], status, rows[i].claimed \/ claim, code)]
    BY <1>2, <1>3 DEF cores
  <1>5. cores[i].claimed = rows[i].claimed /\ cores[i].status = rows[i].status
    BY DEF cores, Core
  <1>6. CP!Close(i, status, code, claim)
    BY <1>4, <1>5 DEF CP!Close, CP!IsLive, Live, LiveStatuses, CP!LiveStatuses
  <1> QED
    BY <1>6, CoresOf DEF CP!Next

(* Inserting a row for a key with nothing live is a Raise. *)
LEMMA InsertRaises ==
  ASSUME TypeOK, Room, NEW k \in Keys, NEW level \in Levels, NEW flagged, LiveRows(k) = {},
         InsertRow(k, level, flagged, NoRow, rows)
  PROVE  CP!Next
  <1>1. rows \in [Ids -> Row] /\ nextId \in Ids
    BY ConstantsAssumption DEF TypeOK, Room, Ids
  <1>2. /\ rows'[nextId] = NewRow(k, level, flagged, NoRow)
        /\ \A j \in Ids \ {nextId} : rows'[j] = rows[j]
    BY <1>1 DEF InsertRow
  <1>3. Core(NewRow(k, level, flagged, NoRow)) = CP!Fresh(k, level, NoRow)
    BY DEF Core, NewRow, CP!Fresh
  <1>4. cores' = [cores EXCEPT ![nextId] = CP!Fresh(k, level, NoRow)]
    BY <1>1, <1>2, <1>3 DEF cores
  <1>5. CP!LiveFor(k) = {}
    BY CoresOf DEF CP!LiveFor, LiveRows, CP!IsLive, Live, LiveStatuses, cores, Core
  <1>6. CP!Raise(k, level)
    BY <1>1, <1>4, <1>5, CoresOf DEF CP!Raise, InsertRow
  <1> QED
    BY <1>6, CoresOf DEF CP!Next

(* escalateFurther's transaction is a MoveUp. *)
LEMMA InsertMovesUp ==
  ASSUME TypeOK, Room, NEW i \in Ids, Live(rows[i]), NEW level \in Levels, NEW flagged,
         NEW code \in SweepCodes \cup {"escalated"}, level >= rows[i].level,
         code \in SweepCodes => ~rows[i].claimed,
         rows[nextId].status = "unused",
         InsertRow(rows[i].key, level, flagged, i, [rows EXCEPT ![i] = Superseded(rows[i], code)])
  PROVE  CP!Next
  <1>1. rows \in [Ids -> Row] /\ nextId \in Ids /\ rows[i] \in Row /\ i # nextId
    BY ConstantsAssumption DEF TypeOK, Room, Ids, Live, LiveStatuses
  <1>2. /\ rows'[nextId] = NewRow(rows[i].key, level, flagged, i)
        /\ rows'[i] = Superseded(rows[i], code)
        /\ \A j \in Ids \ {nextId, i} : rows'[j] = rows[j]
    BY <1>1 DEF InsertRow
  <1>3. Core(NewRow(rows[i].key, level, flagged, i)) = CP!Fresh(rows[i].key, level, i)
    BY DEF Core, NewRow, CP!Fresh
  <1>4. Core(Superseded(rows[i], code)) = CP!Changed(Core(rows[i]), "superseded", rows[i].claimed, code)
    BY <1>1, CoreOf
  <1>5. /\ cores[i].claimed = rows[i].claimed /\ cores[i].status = rows[i].status
        /\ cores[i].key = rows[i].key /\ cores[i].level = rows[i].level
    BY DEF cores, Core
  <1>6. cores' = [cores EXCEPT ![i] = CP!Changed(cores[i], "superseded", cores[i].claimed, code),
                               ![nextId] = CP!Fresh(cores[i].key, level, i)]
    BY <1>1, <1>2, <1>3, <1>4, <1>5 DEF cores
  <1>7. CP!MoveUp(i, level, code)
    BY <1>1, <1>5, <1>6, CoresOf DEF CP!MoveUp, CP!IsLive, Live, InsertRow
  <1> QED
    BY <1>7, CoresOf DEF CP!Next, CP!MoveCodes

(* A step that leaves every row's core alone is no step of EscalationChains. *)
LEMMA SameCores ==
  ASSUME nextId' = nextId, \A i \in Ids : Core(rows'[i]) = Core(rows[i])
  PROVE  UNCHANGED CP!vars
  BY DEF CP!vars, cores

(* What ChainInv says of the concrete rows. *)
LEMMA InvOfRows ==
  ASSUME IInv
  PROVE  /\ nextId \in Ids => rows[nextId].status = "unused"
         /\ \A i \in Ids : rows[i].status = "open" => ~rows[i].claimed
  <1>1. \A i \in Ids : cores[i].status = rows[i].status /\ cores[i].claimed = rows[i].claimed
    BY DEF cores, Core
  <1>2. CP!Contiguous /\ CP!ClaimsOnRecord /\ CP!Ids = Ids
    BY CoresOf DEF IInv, CP!ChainInv
  <1> QED
    BY <1>1, <1>2 DEF CP!Contiguous, CP!ClaimsOnRecord, Ids

(* Every step of Escalations is a step of EscalationChains, or none. *)
LEMMA StepImplements == IInv /\ [Next]_vars => [CP!Next]_(CP!vars)
  <1> SUFFICES ASSUME IInv, Next PROVE CP!Next \/ UNCHANGED CP!vars
    <2>1. ASSUME UNCHANGED vars PROVE UNCHANGED CP!vars
      BY <2>1 DEF vars, CP!vars, cores
    <2> QED
      BY <2>1
  <1>0. /\ TypeOK /\ rows \in [Ids -> Row] /\ work \in [Procs -> Work] /\ fresh \in [Procs -> SUBSET Ids]
        /\ Requests \subseteq Procs /\ Sweep \in Procs /\ WorkInv
    BY DEF IInv, TypeOK, Procs
  <1>1. ASSUME nextId' = nextId, rows' = rows PROVE UNCHANGED CP!vars
    BY <1>1, SameCores
  <1>2. ASSUME NEW p \in Requests, RequestStep(p) PROVE CP!Next \/ UNCHANGED CP!vars
    <2> DEFINE i == work[p].id
    <2>0. p \in Procs /\ fresh[p] \subseteq Ids /\ work[p] \in Work /\ WorkOK(p, work[p])
      BY <1>0 DEF WorkInv
    <2>1. ASSUME NEW k \in Keys, RequestRaise(p, k) \/ AskThenRaise(p, k) \/ DecideThenConclude(p, k)
          PROVE  UNCHANGED CP!vars
      BY <1>1, <2>1 DEF RequestRaise, AskThenRaise, DecideThenConclude
    <2>2. ASSUME NEW k \in Keys, AskWithin(p, k) PROVE CP!Next
      <3>1. TargetLevel(1) \in Levels
        BY <1>0, TargetIsALevel
      <3> QED
        BY <1>0, <2>2, <3>1, InsertRaises DEF AskWithin
    <2>3. ASSUME NEW j \in Ids, Load(p, j) PROVE UNCHANGED CP!vars
      BY <1>1, <2>3 DEF Load
    <2>4. ASSUME NEW j \in Ids, AnswerWithin(p, j) PROVE CP!Next
      BY <1>0, <2>4, EndRowCloses DEF AnswerWithin, CP!CloseCodes
    <2>5. ASSUME Acknowledge(p) PROVE CP!Next
      <3>1. i \in Ids /\ rows[i] \in Row /\ rows[i].status = "open" /\ nextId' = nextId
        BY <1>0, <2>0, <2>5 DEF Acknowledge, Unchanged
      <3>2. rows'[i] = Acknowledged(rows[i]) /\ \A j \in Ids \ {i} : rows'[j] = rows[j]
        BY <1>0, <2>5, <3>1 DEF Acknowledge
      <3>3. Core(Acknowledged(rows[i])) = CP!Changed(Core(rows[i]), "acknowledged", TRUE, rows[i].code)
        BY <3>1, CoreOf
      <3>4. cores[i].status = rows[i].status /\ cores[i].code = rows[i].code
        BY <3>1 DEF cores, Core
      <3>5. cores' = [cores EXCEPT ![i] = CP!Changed(cores[i], "acknowledged", TRUE, cores[i].code)]
        BY <3>1, <3>2, <3>3, <3>4 DEF cores
      <3>6. CP!Claim(i)
        BY <3>1, <3>4, <3>5 DEF CP!Claim
      <3> QED
        BY <1>0, <3>1, <3>6, CoresOf DEF CP!Next
    <2>6. ASSUME Resolve(p) PROVE CP!Next
      <3>1. i \in Ids /\ Live(rows[i]) /\ nextId' = nextId
        BY <2>0, <2>6 DEF Resolve, Unchanged
      <3> QED
        BY <1>0, <2>6, <3>1, EndRowCloses DEF Resolve, CP!CloseCodes
    <2>7. ASSUME Withdraw(p) PROVE CP!Next
      <3>1. i \in Ids /\ Live(rows[i]) /\ nextId' = nextId
        BY <2>0, <2>7 DEF Withdraw, Unchanged, Live, LiveStatuses
      <3> QED
        BY <1>0, <2>7, <3>1, EndRowCloses DEF Withdraw, CP!CloseCodes
    <2>8. ASSUME PushUp(p) \/ GiveUp(p) \/ RaiseAsked(p) \/ ConcludeList(p) PROVE UNCHANGED CP!vars
      BY <1>1, <2>8 DEF PushUp, GiveUp, RaiseAsked, ConcludeList
    <2>9. ASSUME ConcludeRow(p) PROVE CP!Next \/ UNCHANGED CP!vars
      <3>1. i \in Ids /\ nextId' = nextId
        BY <2>0, <2>9 DEF ConcludeRow, WorkOK
      <3>2. CASE Live(rows[i])
        BY <1>0, <2>9, <3>1, <3>2, EndRowCloses DEF ConcludeRow, CP!CloseCodes
      <3>3. CASE ~Live(rows[i])
        BY <1>1, <2>9, <3>1, <3>3 DEF ConcludeRow
      <3> QED
        BY <3>2, <3>3
    <2> QED
      BY <1>2, <2>1, <2>2, <2>3, <2>4, <2>5, <2>6, <2>7, <2>8, <2>9 DEF RequestStep
  <1>3. ASSUME NEW p \in Procs, ProcStep(p) PROVE CP!Next \/ UNCHANGED CP!vars
    <2> DEFINE i == work[p].id
    <2>0. /\ fresh[p] \subseteq Ids /\ work[p] \in Work /\ WorkOK(p, work[p])
          /\ work[p].level \in Levels /\ work[p].code \in Codes
      BY <1>0 DEF WorkInv, Work
    <2>1. ASSUME WriteRaise(p) PROVE CP!Next \/ UNCHANGED CP!vars
      <3>1. work[p].key \in Keys
        BY <2>0, <2>1 DEF WriteRaise, WorkOK
      <3>2. CASE LiveRows(work[p].key) = {} /\ Room
        BY <1>0, <2>0, <2>1, <3>1, <3>2, InsertRaises DEF WriteRaise
      <3>3. CASE ~(LiveRows(work[p].key) = {} /\ Room)
        BY <1>1, <2>1, <3>3 DEF WriteRaise
      <3> QED
        BY <3>2, <3>3
    <2>2. ASSUME Supersede(p) PROVE CP!Next \/ UNCHANGED CP!vars
      <3>1. CASE StillHolds(p, i) /\ Room
        <4>1. /\ i \in Ids /\ Live(rows[i])
              /\ p = Sweep => rows[i].status = "open"
          BY <2>0, <3>1 DEF StillHolds, Unchanged, Live, LiveStatuses
        <4>2. /\ work[p].level >= rows[i].level /\ work[p].code \in SweepCodes \cup {"escalated"}
              /\ p # Sweep => work[p].code = "escalated"
          BY <2>0, <2>2 DEF Supersede, WorkOK
        <4>3. work[p].code \in SweepCodes => ~rows[i].claimed
          BY <4>1, <4>2, InvOfRows DEF SweepCodes
        <4>4. nextId \in Ids /\ rows[nextId].status = "unused"
          BY <1>0, <3>1, InvOfRows, ConstantsAssumption DEF TypeOK, Room, Ids
        <4>5. InsertRow(rows[i].key, work[p].level, work[p].flagged, i,
                        [rows EXCEPT ![i] = Superseded(rows[i], work[p].code)])
          BY <2>2, <3>1 DEF Supersede
        <4> QED
          BY <1>0, <2>0, <3>1, <4>1, <4>2, <4>3, <4>4, <4>5, InsertMovesUp
      <3>2. CASE ~(StillHolds(p, i) /\ Room)
        BY <1>1, <2>2, <3>2 DEF Supersede
      <3> QED
        BY <3>1, <3>2
    <2>3. ASSUME Notify(p) PROVE UNCHANGED CP!vars
      <3>1. \A j \in Ids : Core(rows'[j]) = Core(rows[j])
        <4>1. PICK outcome \in Outcomes(p) :
                rows' = [rows EXCEPT ![i] = Recorded(rows[i], outcome[1], Counted(p, outcome),
                                                     Subject(rows[i].key) \in late[p])]
          BY <2>3 DEF Notify
        <4>2. \A j \in Ids \ {i} : rows'[j] = rows[j]
          BY <1>0, <4>1
        <4>3. ASSUME i \in Ids PROVE Core(rows'[i]) = Core(rows[i])
          <5>1. rows'[i] = Recorded(rows[i], outcome[1], Counted(p, outcome),
                                    Subject(rows[i].key) \in late[p])
            BY <1>0, <4>1, <4>3
          <5>2. \A state, n, still : Core(Recorded(rows[i], state, n, still)) = Core(rows[i])
            BY <1>0, <4>3, CoreOf
          <5> QED
            BY <5>1, <5>2, Zenon
        <4> QED
          BY <4>2, <4>3
      <3> QED
        BY <2>3, <3>1, SameCores DEF Notify
    <2>4. ASSUME FlagSubject(p) PROVE UNCHANGED CP!vars
      BY <1>1, <2>4 DEF FlagSubject
    <2> QED
      BY <1>3, <2>1, <2>2, <2>3, <2>4 DEF ProcStep
  <1>4. ASSUME SweepStep PROVE CP!Next \/ UNCHANGED CP!vars
    <2>1. ASSUME NEW i \in Ids, AutoResolve(i) PROVE CP!Next \/ UNCHANGED CP!vars
      <3>1. CASE Unchanged(Sweep, i) /\ Live(rows[i])
        <4>1. PICK status \in {"resolved", "withdrawn"} :
                EndRow(Sweep, i, status, "condition_cleared", FALSE)
          BY <2>1, <3>1 DEF AutoResolve
        <4> QED
          BY <1>0, <2>1, <3>1, <4>1, EndRowCloses DEF AutoResolve, CP!CloseCodes
      <3>2. CASE ~(Unchanged(Sweep, i) /\ Live(rows[i]))
        BY <1>1, <2>1, <3>2 DEF AutoResolve
      <3> QED
        BY <3>1, <3>2
    <2>2. ASSUME sweep.todo # {} PROVE Lowest(sweep.todo) \in Ids
      <3>1. sweep.todo \in SUBSET Nat /\ sweep.todo \subseteq Ids
        BY <1>0 DEF TypeOK, Run, Ids
      <3> QED
        BY <2>2, <3>1, LowestIn
    <2>3. CASE SweepClear \/ SweepReport
      BY <2>1, <2>2, <2>3 DEF SweepClear, SweepReport
    <2>4. ASSUME SweepOverdue PROVE rows' = rows /\ nextId' = nextId
      BY <2>4 DEF SweepOverdue, SweepMove
    <2> QED
      BY <1>1, <1>4, <2>3, <2>4
      DEF SweepStep, SweepBegin, SweepNextStep, SweepEnd, SweepOutOfActions, SweepStillHolds,
          SweepRemind, SweepRetry, SweepSend, SweepFollow, SweepMove, SweepRaise
  <1>5. ASSUME FaultStep PROVE UNCHANGED CP!vars
    BY <1>1, <1>5 DEF FaultStep, LoseBookkeeping, CrashRequest, CrashSweep, Fault
  <1>6. ASSUME WorldStep PROVE UNCHANGED CP!vars
    <2>1. ASSUME NEW i \in Ids, DuePasses(i) \/ BackoffPasses(i) \/ ReminderPasses(i)
          PROVE  UNCHANGED CP!vars
      <3>1. /\ nextId' = nextId /\ \A j \in Ids \ {i} : rows'[j] = rows[j]
            /\ \/ rows'[i] = [rows[i] EXCEPT !.overdue = TRUE]
               \/ rows'[i] = [rows[i] EXCEPT !.waited = TRUE]
               \/ rows'[i] = [rows[i] EXCEPT !.remind = TRUE]
        BY <1>0, <2>1 DEF DuePasses, BackoffPasses, ReminderPasses, TimePasses
      <3>2. Core(rows'[i]) = Core(rows[i])
        BY <1>0, <3>1, CoreOf
      <3> QED
        BY <3>1, <3>2, SameCores
    <2>2. ASSUME NEW j \in Mailed, EmailArrives(j) PROVE UNCHANGED CP!vars
      BY <1>0, <2>2, CoreOf, SameCores DEF EmailArrives
    <2> QED
      BY <1>1, <1>6, <2>1, <2>2
      DEF WorldStep, ConditionHolds, ConditionClears, DirectoryChanges, SettingsChange
  <1> QED
    BY <1>2, <1>3, <1>4, <1>5, <1>6 DEF Next

(* What a process is in the middle of stays sound while others change the rows. *)
LEMMA WorkStays ==
  ASSUME IInv, [CP!Next]_(CP!vars), TypeOK',
         \A q \in Procs : work'[q] = work[q] \/ WorkOK(q, work'[q])
  PROVE  WorkInv'
  <1>1. \A e \in Ids : rows[e].status # "unused" =>
                         rows'[e].status # "unused" /\ rows'[e].level = rows[e].level
    <2>1. \A e \in Ids : /\ cores[e].status = rows[e].status /\ cores[e].level = rows[e].level
                         /\ cores'[e].status = rows'[e].status /\ cores'[e].level = rows'[e].level
      BY DEF cores, Core
    <2>2. \A e \in CP!Ids : cores[e].status # "unused" =>
            /\ cores'[e].status # "unused" /\ cores'[e].level = cores[e].level
            /\ cores'[e].key = cores[e].key
      BY CP!RowsStay DEF IInv
    <2> QED
      BY <2>1, <2>2 DEF CP!Ids, Ids
  <1> SUFFICES ASSUME NEW q \in Procs PROVE WorkOK(q, work[q])'
    BY DEF WorkInv
  <1>2. WorkOK(q, work'[q])
    BY DEF IInv, WorkInv
  <1> QED
    BY <1>1, <1>2 DEF WorkOK

(* Every step leaves every process with sound work. *)
LEMMA StepWork == IInv /\ Next => \A q \in Procs : work'[q] = work[q] \/ WorkOK(q, work'[q])
  <1> SUFFICES ASSUME IInv, Next PROVE \A q \in Procs : work'[q] = work[q] \/ WorkOK(q, work'[q])
    OBVIOUS
  <1> DEFINE Sound == \A q \in Procs : work'[q] = work[q] \/ WorkOK(q, work'[q])
  <1>0. /\ TypeOK /\ rows \in [Ids -> Row] /\ work \in [Procs -> Work] /\ fresh \in [Procs -> SUBSET Ids]
        /\ Requests \subseteq Procs /\ Sweep \in Procs /\ Sweep \notin Requests
    BY ConstantsAssumption DEF IInv, TypeOK, Procs
  <1>1. ASSUME work' = work PROVE Sound
    BY <1>1
  <1>2. ASSUME NEW p \in Procs, NEW w \in {work'[p]}, work' = [work EXCEPT ![p] = w], WorkOK(p, w)
        PROVE  Sound
    BY <1>0, <1>2
  <1>3. ASSUME NEW w, w.pc \notin {"asked", "raising", "concluding", "moving"}, NEW p
        PROVE  WorkOK(p, w)
    BY <1>3 DEF WorkOK
  <1> HIDE DEF Sound
  <1>4. \A p : WorkOK(p, Idle)
    BY <1>3 DEF Idle
  <1>5. ASSUME NEW p, NEW k \in Keys PROVE WorkOK(p, Planned(k))
    BY DEF Planned, Idle, WorkOK
  <1>6. ASSUME NEW p, NEW i \in Ids, Live(rows[i]), NEW from \in Nat, from >= rows[i].level,
               NEW code \in SweepCodes \cup {"escalated"}, p # Sweep => code = "escalated"
        PROVE  WorkOK(p, Moving(i, from, code))
    <2>1. rows[i].level \in Levels /\ Levels \subseteq Nat /\ rows[i].status # "unused"
      BY <1>0, <1>6, ConstantsAssumption DEF Row, Levels, Live, LiveStatuses
    <2>2. TargetLevel(from) \in Levels /\ TargetLevel(from) >= rows[i].level
      BY <1>0, <1>6, <2>1, TargetIsALevel, ConstantsAssumption DEF Levels
    <2> QED
      BY <1>6, <2>1, <2>2 DEF Moving, Idle, WorkOK
  <1>7. ASSUME NEW p \in Procs, NEW w \in {work'[p]}, Become(p, w), WorkOK(p, w) PROVE Sound
    BY <1>2, <1>7 DEF Become
  <1>8. ASSUME NEW p \in Procs, Finish(p) PROVE Sound
    <2>1. work'[p] = Idle
      BY <1>0, <1>8 DEF Finish, Become
    <2> QED
      BY <1>4, <1>7, <1>8, <2>1 DEF Finish
  <1>9. ASSUME NEW p \in Procs, NEW i, StartSend(p, i) PROVE Sound
    <2>1. work'[p] = [Idle EXCEPT !.pc = "sending", !.id = i, !.key = rows'[i].key]
      BY <1>0, <1>9 DEF StartSend, Become
    <2>2. WorkOK(p, work'[p])
      BY <2>1 DEF Idle, WorkOK
    <2> QED
      BY <1>7, <1>9, <2>1, <2>2 DEF StartSend
  <1>10. ASSUME NEW p \in Requests, RequestStep(p) PROVE Sound
    <2>0. p \in Procs /\ p # Sweep /\ work[p] \in Work /\ WorkOK(p, work[p]) /\ fresh[p] \subseteq Ids
      BY <1>0 DEF IInv, WorkInv
    <2> DEFINE i == work[p].id
    <2>1. ASSUME NEW k \in Keys, RequestRaise(p, k) PROVE Sound
      <3>1. Become(p, Planned(k)) /\ work'[p] = Planned(k)
        BY <1>0, <2>0, <2>1 DEF RequestRaise, Become
      <3> QED
        BY <1>5, <1>7, <2>0, <3>1
    <2>2. ASSUME NEW k \in Keys, AskWithin(p, k) PROVE Sound
      BY <1>9, <2>0, <2>2 DEF AskWithin
    <2>3. ASSUME NEW k \in Keys, AskThenRaise(p, k) PROVE Sound
      <3> DEFINE w == [Idle EXCEPT !.pc = "asked", !.key = k]
      <3>1. Become(p, w) /\ work'[p] = w
        BY <1>0, <2>0, <2>3 DEF AskThenRaise, Become
      <3>2. WorkOK(p, w)
        BY DEF Idle, WorkOK
      <3> QED
        BY <1>7, <2>0, <3>1, <3>2
    <2>4. ASSUME NEW k \in Keys, DecideThenConclude(p, k) PROVE Sound
      <3> DEFINE w == [Idle EXCEPT !.pc = "deciding", !.key = k]
      <3>1. Become(p, w) /\ work'[p] = w
        BY <1>0, <2>0, <2>4 DEF DecideThenConclude, Become
      <3>2. WorkOK(p, w)
        BY DEF Idle, WorkOK
      <3> QED
        BY <1>7, <2>0, <3>1, <3>2
    <2>5. ASSUME NEW j \in Ids, Load(p, j) PROVE Sound
      <3> DEFINE w == [Idle EXCEPT !.pc = "loaded", !.id = j, !.key = rows[j].key]
      <3>1. Become(p, w) /\ work'[p] = w
        BY <1>0, <2>0, <2>5 DEF Load, Become
      <3>2. WorkOK(p, w)
        BY DEF Idle, WorkOK
      <3> QED
        BY <1>7, <2>0, <3>1, <3>2
    <2>6. ASSUME NEW j \in Ids, AnswerWithin(p, j) PROVE Sound
      BY <1>1, <2>6 DEF AnswerWithin
    <2>7. ASSUME Acknowledge(p) \/ Resolve(p) \/ Withdraw(p) \/ GiveUp(p) \/ ConcludeRow(p) PROVE Sound
      BY <1>8, <2>0, <2>7 DEF Acknowledge, Resolve, Withdraw, GiveUp, ConcludeRow
    <2>8. ASSUME PushUp(p) PROVE Sound
      <3> DEFINE w == Moving(i, rows[i].level + 1, "escalated")
      <3>1. Become(p, w) /\ work'[p] = w /\ i \in Ids /\ Live(rows[i])
        BY <1>0, <2>0, <2>8 DEF PushUp, Become, CanMove, Unchanged
      <3>2. rows[i].level \in Nat
        BY <1>0, <3>1, ConstantsAssumption DEF Row, Levels
      <3>3. WorkOK(p, w)
        BY <1>6, <3>1, <3>2
      <3> QED
        BY <1>7, <2>0, <3>1, <3>3
    <2>9. ASSUME RaiseAsked(p) PROVE Sound
      <3>1. work[p].key \in Keys
        BY <2>0, <2>9 DEF RaiseAsked, WorkOK
      <3>2. work'[p] \in {Planned(work[p].key), Idle} /\ Become(p, work'[p])
        BY <1>0, <2>0, <2>9 DEF RaiseAsked, Become
      <3> QED
        BY <1>4, <1>5, <1>7, <2>0, <3>1, <3>2
    <2>10. ASSUME ConcludeList(p) PROVE Sound
      <3> DEFINE found == LiveRows(work[p].key)
                 w == [work[p] EXCEPT !.pc = "concluding", !.id = Lowest(found),
                                      !.seen = rows[Lowest(found)].status]
      <3>1. work'[p] = (IF found = {} THEN Idle ELSE w) /\ Become(p, work'[p])
        BY <1>0, <2>0, <2>10 DEF ConcludeList, Become
      <3>2. ASSUME found # {} PROVE WorkOK(p, w)
        <4>1. found \in SUBSET Nat /\ found \subseteq Ids
          BY DEF LiveRows, Ids
        <4>2. Lowest(found) \in Ids
          BY <3>2, <4>1, LowestIn
        <4>3. w.pc = "concluding" /\ w.id = Lowest(found)
          BY <2>0 DEF Work
        <4> QED
          BY <4>2, <4>3 DEF WorkOK
      <3> QED
        BY <1>4, <1>7, <2>0, <3>1, <3>2
    <2> QED
      BY <1>10, <2>1, <2>2, <2>3, <2>4, <2>5, <2>6, <2>7, <2>8, <2>9, <2>10 DEF RequestStep
  <1>11. ASSUME NEW p \in Procs, ProcStep(p) PROVE Sound
    <2>1. ASSUME Notify(p) PROVE Sound
      <3> DEFINE w == [work[p] EXCEPT !.pc = "flagging"]
      <3>1. work'[p] \in {w, Idle} /\ Become(p, work'[p])
        BY <1>0, <2>1 DEF Notify, Become
      <3>2. w.pc = "flagging"
        BY <1>0 DEF Work
      <3>3. WorkOK(p, w)
        BY <3>2 DEF WorkOK
      <3> QED
        BY <1>4, <1>7, <3>1, <3>3
    <2>2. ASSUME WriteRaise(p) \/ Supersede(p) \/ FlagSubject(p) PROVE Sound
      BY <1>8, <1>9, <2>2 DEF WriteRaise, Supersede, FlagSubject
    <2> QED
      BY <1>11, <2>1, <2>2 DEF ProcStep
  <1>12. ASSUME SweepStep PROVE Sound
    <2> DEFINE i == Lowest(sweep.todo)
    <2>1. ASSUME sweep.todo # {} PROVE i \in Ids /\ rows[i].level \in Nat
      <3>1. sweep.todo \in SUBSET Nat /\ sweep.todo \subseteq Ids
        BY <1>0 DEF TypeOK, Run, Ids
      <3> QED
        BY <1>0, <2>1, <3>1, LowestIn, ConstantsAssumption DEF Row, Levels
    <2>2. ASSUME NEW step, NEW from \in {rows[i].level, rows[i].level + 1}, NEW repeat,
                 NEW code \in SweepCodes, SweepMove(step, from, repeat, code)
          PROVE  Sound
      <3>1. i \in Ids /\ from \in Nat /\ from >= rows[i].level
        BY <2>1, <2>2 DEF SweepMove
      <3>2. Become(Sweep, work'[Sweep]) /\ \/ work'[Sweep] = Idle
                                           \/ work'[Sweep] = Moving(i, from, code) /\ Live(rows[i])
        BY <1>0, <2>2 DEF SweepMove, Become, Live, LiveStatuses
      <3>3. ASSUME Live(rows[i]) PROVE WorkOK(Sweep, Moving(i, from, code))
        BY <1>6, <3>1, <3>3
      <3> QED
        BY <1>0, <1>4, <1>7, <3>2, <3>3
    <2>3. CASE SweepOverdue
      BY <2>2, <2>3 DEF SweepOverdue, SweepCodes
    <2>4. CASE SweepFollow
      BY <2>2, <2>4 DEF SweepFollow, SweepCodes
    <2>5. ASSUME NEW step, NEW code, SweepSend(step, code) PROVE Sound
      <3> DEFINE w == [Idle EXCEPT !.pc = "sending", !.id = i, !.key = rows[i].key, !.code = code]
      <3>1. Become(Sweep, w) /\ work'[Sweep] = w
        BY <1>0, <2>5 DEF SweepSend, Become
      <3>2. WorkOK(Sweep, w)
        BY DEF Idle, WorkOK
      <3> QED
        BY <1>0, <1>7, <3>1, <3>2
    <2>6. ASSUME NEW k \in Keys, SweepRaise(k) PROVE Sound
      <3>1. Become(Sweep, work'[Sweep]) /\ work'[Sweep] \in {Planned(k), Idle}
        BY <1>0, <2>6 DEF SweepRaise, Become
      <3> QED
        BY <1>0, <1>4, <1>5, <1>7, <3>1
    <2>7. CASE SweepEnd
      BY <1>0, <1>8, <2>7 DEF SweepEnd, Forget
    <2>8. CASE SweepClear \/ SweepReport
      BY <1>1, <2>8 DEF SweepClear, SweepReport, AutoResolve
    <2> QED
      BY <1>1, <1>12, <2>3, <2>4, <2>5, <2>6, <2>7, <2>8
      DEF SweepStep, SweepBegin, SweepNextStep, SweepOutOfActions, SweepStillHolds, SweepRemind, SweepRetry
  <1>13. ASSUME FaultStep PROVE Sound
    BY <1>0, <1>8, <1>13 DEF FaultStep, LoseBookkeeping, CrashRequest, CrashSweep, Forget
  <1>14. ASSUME WorldStep PROVE Sound
    BY <1>1, <1>14 DEF WorldStep, DuePasses, BackoffPasses, ReminderPasses, TimePasses, EmailArrives,
                       ConditionHolds, ConditionClears, DirectoryChanges, SettingsChange
  <1>15. Sound
    BY <1>10, <1>11, <1>12, <1>13, <1>14 DEF Next
  <1> QED
    BY <1>15 DEF Sound

LEMMA InitIInv == Init => IInv /\ CP!Init
  <1> SUFFICES ASSUME Init PROVE IInv /\ CP!Init
    OBVIOUS
  <1>1. TypeOK
    BY InitTypes
  <1>2. CP!Init
    <2>1. Core(UnusedRow) = CP!Unused
      BY DEF Core, UnusedRow, Rest, NewRow, CP!Unused, CP!NoRow, NoRow
    <2>2. cores = [i \in CP!Ids |-> CP!Unused]
      BY <2>1 DEF Init, cores, CP!Ids, Ids
    <2> QED
      BY <2>2 DEF CP!Init, Init
  <1>3. CP!ChainInv
    BY <1>2, ChainsAssume, CP!InitChainInv
  <1>4. WorkInv
    BY DEF Init, WorkInv, WorkOK, Idle
  <1> QED
    BY <1>1, <1>2, <1>3, <1>4 DEF IInv

LEMMA NextIInv == IInv /\ [Next]_vars => IInv'
  <1> SUFFICES ASSUME IInv, [Next]_vars PROVE IInv'
    OBVIOUS
  <1>1. [CP!Next]_(CP!vars)
    BY StepImplements
  <1>2. TypeOK'
    BY NextTypes DEF IInv
  <1>3. CP!ChainInv'
    BY <1>1, ChainsAssume, CP!NextKeeps DEF IInv
  <1>4. WorkInv'
    <2>1. CASE UNCHANGED vars
      BY <1>1, <1>2, <2>1, WorkStays DEF vars
    <2>2. CASE Next
      BY <1>1, <1>2, <2>2, StepWork, WorkStays
    <2> QED
      BY <2>1, <2>2
  <1> QED
    BY <1>2, <1>3, <1>4 DEF IInv

LEMMA AlwaysIInv == Spec => []IInv
  BY InitIInv, NextIInv, PTL DEF Spec

(* Chains and CP are the same instance, with and without its theorems. *)
LEMMA SameInstance ==
  /\ CP!Spec => Chains!Spec
  /\ CP!ChainInv => Chains!ChainsWhole /\ Chains!ClaimStopsTheClock
  /\ CP!EndedIsFinal => Chains!EndedIsFinal
  <1>1. /\ CP!Ids = Chains!Ids /\ CP!Levels = Chains!Levels /\ CP!LiveStatuses = Chains!LiveStatuses
        /\ CP!SweepCodes = Chains!SweepCodes /\ CP!MoveCodes = Chains!MoveCodes
        /\ CP!CloseCodes = Chains!CloseCodes /\ CP!EndedStatuses = Chains!EndedStatuses
        /\ CP!NoRow = Chains!NoRow /\ CP!Unused = Chains!Unused
    BY DEF CP!Ids, Chains!Ids, CP!Levels, Chains!Levels, CP!LiveStatuses, Chains!LiveStatuses,
           CP!SweepCodes, Chains!SweepCodes, CP!MoveCodes, Chains!MoveCodes, CP!CloseCodes,
           Chains!CloseCodes, CP!EndedStatuses, Chains!EndedStatuses, CP!NoRow, Chains!NoRow,
           CP!Unused, Chains!Unused
  <1>2. CP!Init => Chains!Init
    BY <1>1 DEF CP!Init, Chains!Init
  <1>3. [CP!Next]_(CP!vars) => [Chains!Next]_(Chains!vars)
    <2>1. \A k, level : CP!Raise(k, level) => Chains!Raise(k, level)
      BY <1>1 DEF CP!Raise, Chains!Raise, CP!Fresh, Chains!Fresh, CP!LiveFor, Chains!LiveFor,
                  CP!IsLive, Chains!IsLive
    <2>2. \A i : CP!Claim(i) => Chains!Claim(i)
      BY DEF CP!Claim, Chains!Claim, CP!Changed, Chains!Changed
    <2>3. \A i, status, code, claimed :
            CP!Close(i, status, code, claimed) => Chains!Close(i, status, code, claimed)
      BY <1>1 DEF CP!Close, Chains!Close, CP!Changed, Chains!Changed, CP!IsLive, Chains!IsLive
    <2>4. \A i, level, code : CP!MoveUp(i, level, code) => Chains!MoveUp(i, level, code)
      BY <1>1 DEF CP!MoveUp, Chains!MoveUp, CP!Fresh, Chains!Fresh, CP!Changed, Chains!Changed,
                  CP!IsLive, Chains!IsLive
    <2>5. CP!Next => Chains!Next
      BY <1>1, <2>1, <2>2, <2>3, <2>4 DEF CP!Next, Chains!Next
    <2> QED
      BY <2>5 DEF CP!vars, Chains!vars
  <1>4. CP!Spec => Chains!Spec
    BY <1>2, <1>3, PTL DEF CP!Spec, Chains!Spec
  <1>5. CP!ChainInv => Chains!ChainsWhole /\ Chains!ClaimStopsTheClock
    BY <1>1 DEF CP!ChainInv, CP!OneLive, CP!Succession, CP!ClaimStopsTheClock, Chains!ChainsWhole,
                Chains!OneLive, Chains!Succession, Chains!ClaimStopsTheClock, CP!IsLive,
                Chains!IsLive, CP!Children, Chains!Children
  <1>6. CP!EndedIsFinal => Chains!EndedIsFinal
    <2>1. [\A i \in CP!Ids : cores[i].status \in CP!EndedStatuses => cores'[i] = cores[i]]_(CP!vars)
            => [\A i \in Chains!Ids : cores[i].status \in Chains!EndedStatuses
                                        => cores'[i] = cores[i]]_(Chains!vars)
      BY <1>1 DEF CP!vars, Chains!vars
    <2> QED
      BY <2>1, PTL DEF CP!EndedIsFinal, Chains!EndedIsFinal
  <1> QED
    BY <1>4, <1>5, <1>6

(* Whatever requests, sweep, email and crashes interleave, the table changes only as   *)
(* raise, acknowledge, resolve, withdraw and escalateFurther promise.                  *)
THEOREM EngineImplementsChains == Spec => ImplementsChains
  <1>1. Spec => CP!Spec
    BY InitIInv, AlwaysIInv, StepImplements, PTL DEF Spec, CP!Spec
  <1> QED
    BY <1>1, SameInstance, PTL DEF ImplementsChains

(* One live row for each subject and policy, and every superseded row has exactly one  *)
(* successor, of its key and no lower: escalateFurther, raise and the unique index.    *)
THEOREM ChainsAreWhole == Spec => []ChainsWhole
  <1>1. IInv => ChainsWhole
    BY SameInstance DEF IInv, ChainsWhole
  <1> QED
    BY <1>1, AlwaysIInv, PTL

(* The sweep's clock never takes a row from somebody who acknowledged it (onlyIfOpen).  *)
THEOREM ClaimedRowsKeepTheirOwner == Spec => []ClaimStopsTheClock
  <1>1. IInv => ClaimStopsTheClock
    BY SameInstance DEF IInv, ClaimStopsTheClock
  <1> QED
    BY <1>1, AlwaysIInv, PTL

(* No late request, sweep step or bookkeeping write changes a row that has ended.       *)
THEOREM EndedRowsStayEnded == Spec => EndedIsFinal
  <1>1. Spec => CP!Spec
    BY InitIInv, AlwaysIInv, StepImplements, PTL DEF Spec, CP!Spec
  <1>2. CP!Spec => CP!EndedIsFinal
    BY ChainsAssume, CP!EndedRowsAreFinal
  <1> QED
    BY <1>1, <1>2, SameInstance, PTL DEF EndedIsFinal

-----------------------------------------------------------------------------
(* The rows and what they are about.                                         *)

\* What a step leaves of row i, as far as its subject is concerned.
Kin(a, b) == a.key = b.key /\ a.parent = b.parent
Alike(i) == Kin(rows'[i], rows[i]) /\ rows'[i].status = rows[i].status

LEMMA KinOf ==
  ASSUME NEW r \in Row
  PROVE  /\ \A status, code, claim : /\ Kin(Closed(r, status, code, claim), r)
                                     /\ Closed(r, status, code, claim).status = status
         /\ Kin(Acknowledged(r), r) /\ Acknowledged(r).status = "acknowledged"
         /\ \A code : Kin(Superseded(r, code), r) /\ Superseded(r, code).status = "superseded"
  <1>1. \A a, b, status, claimed, code : Core(a) = CP!Changed(Core(b), status, claimed, code) =>
          Kin(a, b) /\ a.status = status
    <2> SUFFICES ASSUME NEW a, NEW b, NEW status, NEW claimed, NEW code,
                        Core(a) = CP!Changed(Core(b), status, claimed, code)
                 PROVE  Kin(a, b) /\ a.status = status
      OBVIOUS
    <2>1. /\ Core(a).key = a.key /\ Core(a).parent = a.parent /\ Core(a).status = a.status
          /\ Core(b).key = b.key /\ Core(b).parent = b.parent
      BY DEF Core
    <2>2. /\ CP!Changed(Core(b), status, claimed, code).key = Core(b).key
          /\ CP!Changed(Core(b), status, claimed, code).parent = Core(b).parent
          /\ CP!Changed(Core(b), status, claimed, code).status = status
      BY DEF CP!Changed
    <2> QED
      BY <2>1, <2>2 DEF Kin
  <1>2. ASSUME NEW status, NEW code, NEW claim
        PROVE  Kin(Closed(r, status, code, claim), r) /\ Closed(r, status, code, claim).status = status
    <2>1. \A s, c, b : Core(Closed(r, s, c, b)) = CP!Changed(Core(r), s, r.claimed \/ b, c)
      BY CoreOf, Zenon
    <2>2. Core(Closed(r, status, code, claim)) = CP!Changed(Core(r), status, r.claimed \/ claim, code)
      BY <2>1, Zenon
    <2> QED
      BY <1>1, <2>2, Zenon
  <1>3. Kin(Acknowledged(r), r) /\ Acknowledged(r).status = "acknowledged"
    <2>1. Core(Acknowledged(r)) = CP!Changed(Core(r), "acknowledged", TRUE, r.code)
      BY CoreOf, Zenon
    <2> QED
      BY <1>1, <2>1, Zenon
  <1>4. ASSUME NEW code PROVE Kin(Superseded(r, code), r) /\ Superseded(r, code).status = "superseded"
    <2>1. Core(Superseded(r, code)) = CP!Changed(Core(r), "superseded", r.claimed, code)
      BY CoreOf, Zenon
    <2> QED
      BY <1>1, <2>1, Zenon
  <1> QED
    BY <1>2, <1>3, <1>4

LEMMA AlikeByCore == ASSUME NEW i, Core(rows'[i]) = Core(rows[i]) PROVE Alike(i)
  <1>1. \A r : Core(r).key = r.key /\ Core(r).parent = r.parent /\ Core(r).status = r.status
    BY DEF Core
  <1>2. /\ Core(rows'[i]).key = rows'[i].key /\ Core(rows'[i]).parent = rows'[i].parent
        /\ Core(rows'[i]).status = rows'[i].status
    BY <1>1
  <1> QED
    BY <1>1, <1>2 DEF Alike, Kin

(* A flag that is brought in step with the rows of one subject is right for all. *)
LEMMA FlagKept ==
  ASSUME FlagMeansWaiting, NEW s, flag' = FlagAfter(rows', s),
         \A j \in Ids : rows[j].status = "open" /\ Subject(rows[j].key) # s => Alike(j)
  PROVE  FlagMeansWaiting'
  <1> SUFFICES ASSUME NEW j \in Jobs, flag'[j] PROVE Waiting(rows', j) # {}
    BY DEF FlagMeansWaiting, Waiting
  <1>1. CASE j = s
    BY <1>1 DEF FlagAfter
  <1>2. CASE j # s
    <2>1. flag[j]
      BY <1>2 DEF FlagAfter
    <2>2. PICK i \in Ids : i \in Waiting(rows, j)
      BY <2>1 DEF FlagMeansWaiting, Waiting
    <2>3. Alike(i)
      BY <1>2, <2>2 DEF Waiting
    <2>4. i \in Waiting(rows', j)
      BY <2>2, <2>3 DEF Waiting, Alike, Kin
    <2> QED
      BY <2>4
  <1> QED
    BY <1>1, <1>2

LEMMA FlagStays ==
  ASSUME FlagMeansWaiting, flag' = flag, \A j \in Ids : Alike(j)
  PROVE  FlagMeansWaiting'
  <1> SUFFICES ASSUME NEW j \in Jobs, flag[j] PROVE Waiting(rows', j) # {}
    BY DEF FlagMeansWaiting, Waiting
  <1>1. PICK i \in Ids : i \in Waiting(rows, j)
    BY DEF FlagMeansWaiting, Waiting
  <1>2. i \in Waiting(rows', j)
    BY <1>1 DEF Waiting, Alike, Kin
  <1> QED
    BY <1>2

\* Nothing is live for a swept key and nobody has dealt with its condition since.
MayRaise(k) == /\ LiveRows(k) = {}
               /\ ~handled[k] \/ (Policy(k) = "stalled" /\ chased[k])
\* The sweep has just taken k and raised it.
JustRaised(k) == work[Sweep].key = k /\ k \notin sweep.wanted /\ work'[Sweep].pc # "raising" /\ sweep' = sweep

(* What a step does to the rows, to the questions and to the raising of swept keys: *)
(* nothing, or it claims a row, ends one, moves one up or raises one.               *)
OthersAlike(S) == \A j \in Ids \ S : Alike(j)
IntoStep(i) == flag' = FlagAfter(rows', Subject(rows[i].key))

Quiet ==
  /\ \A j \in Ids : Alike(j)
  /\ flag' = flag \/ \E s : flag' = FlagAfter(rows', s)
  /\ \A k \in KeysOf({"decision_pending"}) : active'[k] = active[k]
  /\ \A k \in Keys : (handled'[k] => handled[k]) /\ (chased[k] => chased'[k])
  /\ decided \subseteq decided'
Claims(i) ==
  /\ Live(rows[i]) /\ OthersAlike({i})
  /\ Kin(rows'[i], rows[i]) /\ rows'[i].status = "acknowledged"
  /\ IntoStep(i) /\ UNCHANGED <<active, handled, chased, decided>>
Ends(i) ==
  /\ Live(rows[i]) /\ OthersAlike({i})
  /\ Kin(rows'[i], rows[i]) /\ rows'[i].status \in {"resolved", "withdrawn"}
  /\ Policy(rows[i].key) = "ratification" => rows[i].key \in decided
  /\ IntoStep(i)
  /\ \A k \in KeysOf({"decision_pending"}) : active'[k] = (k # rows[i].key /\ active[k])
  /\ \A k \in Keys \ {rows[i].key} : chased'[k] = chased[k]
  /\ UNCHANGED <<handled, decided>>
NewPlace(k) ==
  /\ nextId \in Ids /\ rows[nextId].status = "unused"
  /\ rows'[nextId].key = k /\ rows'[nextId].status = "open"
  /\ \A h \in Keys \ {k} : handled'[h] = handled[h]
MovesUp(i) ==
  /\ Live(rows[i]) /\ OthersAlike({i, nextId}) /\ i # nextId
  /\ Kin(rows'[i], rows[i]) /\ rows'[i].status = "superseded"
  /\ NewPlace(rows[i].key)
  /\ IntoStep(i) /\ UNCHANGED <<active, chased, decided>>
Raises(k) ==
  /\ LiveRows(k) = {} /\ OthersAlike({nextId})
  /\ NewPlace(k)
  /\ flag' = FlagAfter(rows', Subject(k))
  /\ \A h \in KeysOf({"decision_pending"}) : active'[h] = (h = k \/ active[h])
  /\ Policy(k) \in SweepPolicies => MayRaise(k) /\ JustRaised(k)
  /\ UNCHANGED <<chased, decided>>

\* What every one of them keeps.
StepIsFit ==
  /\ RowsFitTheirSubject'
  /\ \A k \in KeysOf(SweepPolicies) : LiveRows(k) = {} /\ LiveRows(k)' # {} => MayRaise(k)
  /\ \A k \in KeysOf(SweepPolicies) : MayRaise(k) => MayRaise(k)' \/ JustRaised(k)
  /\ \A i \in Ids : rows[i].status # "unused" => rows'[i].key = rows[i].key /\ rows'[i].status # "unused"
  /\ decided \subseteq decided'

LEMMA OneLiveRow ==
  ASSUME IInv, NEW i \in Ids, NEW j \in Ids, Live(rows[i]), Live(rows[j]), rows[i].key = rows[j].key
  PROVE  i = j
  <1>1. CP!OneLive /\ CP!Ids = Ids
    BY CoresOf DEF IInv, CP!ChainInv
  <1>2. /\ cores[i].status = rows[i].status /\ cores[j].status = rows[j].status
        /\ cores[i].key = rows[i].key /\ cores[j].key = rows[j].key
    BY DEF cores, Core
  <1> QED
    BY <1>1, <1>2 DEF CP!OneLive, CP!IsLive, CP!LiveStatuses, Live, LiveStatuses

(* The conjuncts of StepIsFit from what happened to the rows. *)
LEMMA QuestionKept ==
  ASSUME QuestionIsChased,
         \A k \in KeysOf({"decision_pending"}) : active[k] = active'[k] /\ (LiveRows(k) # {} <=> LiveRows(k)' # {})
  PROVE  QuestionIsChased'
  BY DEF QuestionIsChased

LEMMA QuietIsFit == ASSUME IInv, RowsFitTheirSubject, Quiet PROVE StepIsFit
  <1>1. \A j \in Ids : /\ rows'[j].key = rows[j].key /\ rows'[j].parent = rows[j].parent
                       /\ rows'[j].status = rows[j].status
    BY DEF Quiet, Alike, Kin
  <1>2. \A k : LiveRows(k)' = LiveRows(k)
    BY <1>1 DEF LiveRows, Live
  <1>3. FlagMeansWaiting'
    BY FlagStays, FlagKept DEF Quiet, RowsFitTheirSubject
  <1>4. QuestionIsChased'
    BY <1>2, QuestionKept DEF Quiet, RowsFitTheirSubject
  <1>5. OnlyADecisionEndsIt'
    BY <1>1 DEF Quiet, RowsFitTheirSubject, OnlyADecisionEndsIt
  <1>6. \A k \in KeysOf(SweepPolicies) : MayRaise(k) => MayRaise(k)'
    BY <1>2 DEF Quiet, MayRaise, KeysOf
  <1> QED
    BY <1>1, <1>2, <1>3, <1>4, <1>5, <1>6 DEF StepIsFit, RowsFitTheirSubject, Quiet

LEMMA ClaimsIsFit == ASSUME IInv, RowsFitTheirSubject, NEW i \in Ids, Claims(i) PROVE StepIsFit
  <1>1. /\ rows'[i].key = rows[i].key /\ rows'[i].status = "acknowledged" /\ Live(rows[i])
        /\ rows[i].status # "unused"
        /\ \A j \in Ids \ {i} : Alike(j)
        /\ \A j \in Ids \ {i} : rows'[j].key = rows[j].key /\ rows'[j].status = rows[j].status
    BY DEF Claims, OthersAlike, Alike, Kin, Live, LiveStatuses
  <1>2. \A j \in Ids : rows'[j].key = rows[j].key /\ (Live(rows'[j]) <=> Live(rows[j]))
    BY <1>1 DEF Live, LiveStatuses
  <1>3. \A k : LiveRows(k)' = LiveRows(k)
    BY <1>2 DEF LiveRows, Live
  <1>4. FlagMeansWaiting'
    BY <1>1, FlagKept DEF Claims, IntoStep, RowsFitTheirSubject
  <1>5. QuestionIsChased'
    BY <1>3, QuestionKept DEF Claims, RowsFitTheirSubject
  <1>6. OnlyADecisionEndsIt'
    BY <1>1, <1>2 DEF Claims, RowsFitTheirSubject, OnlyADecisionEndsIt
  <1>7. \A k \in KeysOf(SweepPolicies) : MayRaise(k) => MayRaise(k)'
    BY <1>3 DEF Claims, MayRaise
  <1>8. \A j \in Ids : rows[j].status # "unused" => rows'[j].key = rows[j].key /\ rows'[j].status # "unused"
    BY <1>1
  <1> QED
    BY <1>3, <1>4, <1>5, <1>6, <1>7, <1>8 DEF StepIsFit, RowsFitTheirSubject, Claims

LEMMA EndsIsFit == ASSUME IInv, RowsFitTheirSubject, NEW i \in Ids, Ends(i) PROVE StepIsFit
  <1>1. /\ rows'[i].key = rows[i].key /\ rows'[i].status \in {"resolved", "withdrawn"} /\ Live(rows[i])
        /\ rows[i].status # "unused" /\ ~Live(rows'[i])
        /\ \A j \in Ids \ {i} : Alike(j)
        /\ \A j \in Ids \ {i} : rows'[j].key = rows[j].key /\ rows'[j].status = rows[j].status
    BY DEF Ends, OthersAlike, Alike, Kin, Live, LiveStatuses
  <1>2. \A k : LiveRows(k)' = LiveRows(k) \ {i}
    BY <1>1 DEF LiveRows, Live
  <1>3. LiveRows(rows[i].key) = {i}
    BY <1>1, OneLiveRow DEF LiveRows
  <1>4. FlagMeansWaiting'
    BY <1>1, FlagKept DEF Ends, IntoStep, RowsFitTheirSubject
  <1>5. QuestionIsChased'
    <2> SUFFICES ASSUME NEW k \in KeysOf({"decision_pending"}) PROVE active'[k] <=> LiveRows(k)' # {}
      BY DEF QuestionIsChased
    <2>1. active[k] <=> LiveRows(k) # {}
      BY DEF RowsFitTheirSubject, QuestionIsChased
    <2>2. CASE k = rows[i].key
      BY <1>2, <1>3, <2>2 DEF Ends
    <2>3. CASE k # rows[i].key
      <3>1. i \notin LiveRows(k)
        BY <2>3 DEF LiveRows
      <3> QED
        BY <1>2, <2>1, <2>3, <3>1 DEF Ends
    <2> QED
      BY <2>2, <2>3
  <1>6. OnlyADecisionEndsIt'
    BY <1>1 DEF Ends, RowsFitTheirSubject, OnlyADecisionEndsIt
  <1>7. \A k \in KeysOf(SweepPolicies) : MayRaise(k) => MayRaise(k)'
    BY <1>2, <1>3 DEF Ends, MayRaise, KeysOf
  <1>8. \A j \in Ids : rows[j].status # "unused" => rows'[j].key = rows[j].key /\ rows'[j].status # "unused"
    BY <1>1
  <1> QED
    BY <1>2, <1>4, <1>5, <1>6, <1>7, <1>8 DEF StepIsFit, RowsFitTheirSubject, Ends

LEMMA MovesUpIsFit == ASSUME IInv, RowsFitTheirSubject, NEW i \in Ids, MovesUp(i) PROVE StepIsFit
  <1>1. /\ rows'[i].key = rows[i].key /\ rows'[i].status = "superseded" /\ Live(rows[i])
        /\ rows[i].status # "unused" /\ ~Live(rows'[i]) /\ nextId \in Ids /\ i # nextId
        /\ rows'[nextId].key = rows[i].key /\ rows'[nextId].status = "open" /\ Live(rows'[nextId])
        /\ rows[nextId].status = "unused" /\ ~Live(rows[nextId])
        /\ \A j \in Ids \ {i, nextId} : Alike(j)
        /\ \A j \in Ids \ {i, nextId} : rows'[j].key = rows[j].key /\ rows'[j].status = rows[j].status
    BY DEF MovesUp, NewPlace, OthersAlike, Alike, Kin, Live, LiveStatuses
  <1>2. \A k : k # rows[i].key => LiveRows(k)' = LiveRows(k)
    BY <1>1 DEF LiveRows, Live
  <1>3. \A k : k = rows[i].key => i \in LiveRows(k) /\ nextId \in LiveRows(k)'
    BY <1>1 DEF LiveRows, Live
  <1>4. FlagMeansWaiting'
    BY <1>1, FlagKept DEF MovesUp, IntoStep, RowsFitTheirSubject
  <1>5. \A k : LiveRows(k) # {} <=> LiveRows(k)' # {}
    BY <1>2, <1>3
  <1>6. QuestionIsChased'
    BY <1>5, QuestionKept DEF MovesUp, RowsFitTheirSubject
  <1>7. OnlyADecisionEndsIt'
    BY <1>1 DEF MovesUp, RowsFitTheirSubject, OnlyADecisionEndsIt
  <1>8. \A k \in KeysOf(SweepPolicies) : MayRaise(k) => MayRaise(k)'
    BY <1>2, <1>3 DEF MovesUp, NewPlace, MayRaise, KeysOf
  <1>9. \A j \in Ids : rows[j].status # "unused" => rows'[j].key = rows[j].key /\ rows'[j].status # "unused"
    BY <1>1
  <1> QED
    BY <1>4, <1>5, <1>6, <1>7, <1>8, <1>9 DEF StepIsFit, RowsFitTheirSubject, MovesUp

LEMMA RaisesIsFit == ASSUME IInv, RowsFitTheirSubject, NEW k \in Keys, Raises(k) PROVE StepIsFit
  <1>1. /\ nextId \in Ids /\ rows'[nextId].key = k /\ rows'[nextId].status = "open" /\ Live(rows'[nextId])
        /\ rows[nextId].status = "unused" /\ ~Live(rows[nextId])
        /\ \A j \in Ids \ {nextId} : Alike(j)
        /\ \A j \in Ids \ {nextId} : rows'[j].key = rows[j].key /\ rows'[j].status = rows[j].status
    BY DEF Raises, NewPlace, OthersAlike, Alike, Kin, Live, LiveStatuses
  <1>2. \A h : h # k => LiveRows(h)' = LiveRows(h)
    BY <1>1 DEF LiveRows, Live
  <1>3. nextId \in LiveRows(k)'
    BY <1>1 DEF LiveRows, Live
  <1>4. FlagMeansWaiting'
    BY <1>1, FlagKept DEF Raises, RowsFitTheirSubject
  <1>5. QuestionIsChased'
    BY <1>2, <1>3 DEF Raises, RowsFitTheirSubject, QuestionIsChased
  <1>6. OnlyADecisionEndsIt'
    BY <1>1 DEF Raises, RowsFitTheirSubject, OnlyADecisionEndsIt
  <1>7. \A h \in KeysOf(SweepPolicies) : MayRaise(h) => MayRaise(h)' \/ JustRaised(h)
    BY <1>2 DEF Raises, NewPlace, MayRaise, KeysOf
  <1>8. \A h \in KeysOf(SweepPolicies) : LiveRows(h) = {} /\ LiveRows(h)' # {} => MayRaise(h)
    BY <1>2 DEF Raises, KeysOf
  <1>9. \A j \in Ids : rows[j].status # "unused" => rows'[j].key = rows[j].key /\ rows'[j].status # "unused"
    BY <1>1
  <1> QED
    BY <1>4, <1>5, <1>6, <1>7, <1>8, <1>9 DEF StepIsFit, RowsFitTheirSubject, Raises

(* What the processes are about to do fits the rows.  A change that is to be raised or *)
(* concluded is a schedule change, concluded once it is decided and on its own row; a  *)
(* swept key is raised by the sweep, while nobody has dealt with it; and what the      *)
(* sweep listed to clear or to report on is an attention row.                          *)
PlanOK(p, w) ==
  /\ w.pc = "asked" => Policy(w.key) = "ratification"
  /\ w.pc = "raising" => Policy(w.key) \notin WithinPolicies
  /\ w.pc = "raising" /\ Policy(w.key) \in SweepPolicies =>
       p = Sweep /\ MayRaise(w.key) /\ w.key \notin sweep.wanted
  /\ w.pc \in {"deciding", "concluding"} => Policy(w.key) = "ratification" /\ w.key \in decided
  /\ w.pc = "concluding" => rows[w.id].key = w.key /\ rows[w.id].status # "unused"
WantedOK == \A k \in sweep.wanted : /\ Policy(k) \in SweepPolicies \cup {"health"}
                                    /\ Policy(k) \in SweepPolicies => MayRaise(k)
TodoOK == sweep.step \in {ClearStep, ReportStep} =>
            \A i \in sweep.todo : rows[i].status # "unused" /\ IsAttention(rows[i].key)
PlansOK == \A p \in Procs : PlanOK(p, work[p])
DInv == IInv /\ RowsFitTheirSubject /\ PlansOK /\ WantedOK /\ TodoOK

Effect == Quiet \/ (\E i \in Ids : Claims(i) \/ Ends(i) \/ MovesUp(i)) \/ \E k \in Keys : Raises(k)

LEMMA EffectIsFit == ASSUME IInv, RowsFitTheirSubject, Effect PROVE StepIsFit
  BY QuietIsFit, ClaimsIsFit, EndsIsFit, MovesUpIsFit, RaisesIsFit DEF Effect

(* How the three transactions of the table look from here. *)
LEMMA EndRowEnds ==
  ASSUME TypeOK, NEW p, NEW i \in Ids, Live(rows[i]), NEW status \in {"resolved", "withdrawn"},
         NEW code, NEW claim, EndRow(p, i, status, code, claim), UNCHANGED <<handled, decided>>,
         Policy(rows[i].key) = "ratification" => rows[i].key \in decided,
         \/ Policy(rows[i].key) # "decision_pending" /\ active' = active
         \/ active' = [active EXCEPT ![rows[i].key] = FALSE]
  PROVE  Ends(i)
  <1>1. rows \in [Ids -> Row] /\ rows[i] \in Row /\ active \in [Keys -> BOOLEAN] /\ chased \in [Keys -> BOOLEAN]
    BY DEF TypeOK
  <1>2. /\ rows'[i] = Closed(rows[i], status, code, claim)
        /\ \A j \in Ids \ {i} : rows'[j] = rows[j]
    BY <1>1 DEF EndRow
  <1>3. Kin(rows'[i], rows[i]) /\ rows'[i].status = status
    <2>1. \A s, c, b : Kin(Closed(rows[i], s, c, b), rows[i]) /\ Closed(rows[i], s, c, b).status = s
      BY <1>1, KinOf, Zenon
    <2>2. Kin(Closed(rows[i], status, code, claim), rows[i]) /\ Closed(rows[i], status, code, claim).status = status
      BY <2>1, Zenon
    <2>3. rows'[i] = Closed(rows[i], status, code, claim)
      BY <1>2, Zenon
    <2> QED
      BY <2>2, <2>3, Zenon
  <1>4. OthersAlike({i})
    BY <1>2 DEF OthersAlike, Alike, Kin
  <1>5. \A k \in KeysOf({"decision_pending"}) : active'[k] = (k # rows[i].key /\ active[k])
    BY <1>1 DEF KeysOf
  <1>6. \A k \in Keys \ {rows[i].key} : chased'[k] = chased[k]
    BY <1>1 DEF EndRow
  <1>7. IntoStep(i)
    BY DEF EndRow, IntoStep
  <1> QED
    BY <1>3, <1>4, <1>5, <1>6, <1>7 DEF Ends

LEMMA FreeId == ASSUME IInv, Room PROVE nextId \in Ids /\ rows[nextId].status = "unused"
  <1>1. nextId \in Ids
    BY ConstantsAssumption DEF IInv, TypeOK, Room, Ids
  <1> QED
    BY <1>1, InvOfRows

LEMMA InsertedRaises ==
  ASSUME IInv, Room, NEW k \in Keys, NEW level, NEW flagged, LiveRows(k) = {},
         InsertRow(k, level, flagged, NoRow, rows), UNCHANGED <<chased, decided>>,
         \/ Policy(k) \notin WithinPolicies /\ active' = active
         \/ active' = [active EXCEPT ![k] = TRUE],
         Policy(k) \in SweepPolicies => MayRaise(k) /\ JustRaised(k)
  PROVE  Raises(k)
  <1>1. /\ rows \in [Ids -> Row] /\ nextId \in Ids /\ rows[nextId].status = "unused"
        /\ active \in [Keys -> BOOLEAN] /\ handled \in [Keys -> BOOLEAN]
    BY FreeId DEF IInv, TypeOK
  <1>2. /\ rows'[nextId] = NewRow(k, level, flagged, NoRow)
        /\ \A j \in Ids \ {nextId} : rows'[j] = rows[j]
    BY <1>1 DEF InsertRow
  <1>3. rows'[nextId].key = k /\ rows'[nextId].status = "open"
    BY <1>2 DEF NewRow
  <1>4. OthersAlike({nextId})
    BY <1>2 DEF OthersAlike, Alike, Kin
  <1>5. \A h \in KeysOf({"decision_pending"}) : active'[h] = (h = k \/ active[h])
    BY <1>1 DEF KeysOf, WithinPolicies
  <1>6. \A h \in Keys \ {k} : handled'[h] = handled[h]
    BY <1>1 DEF InsertRow
  <1>7. NewPlace(k)
    BY <1>1, <1>3, <1>6 DEF NewPlace
  <1> QED
    BY <1>4, <1>5, <1>7 DEF Raises, InsertRow

LEMMA InsertedMovesUp ==
  ASSUME IInv, Room, NEW i \in Ids, Live(rows[i]), NEW level, NEW flagged, NEW code,
         InsertRow(rows[i].key, level, flagged, i, [rows EXCEPT ![i] = Superseded(rows[i], code)]),
         UNCHANGED <<active, chased, decided>>
  PROVE  MovesUp(i)
  <1>1. /\ rows \in [Ids -> Row] /\ rows[i] \in Row /\ nextId \in Ids /\ rows[nextId].status = "unused"
        /\ i # nextId /\ handled \in [Keys -> BOOLEAN]
    BY FreeId DEF IInv, TypeOK, Live, LiveStatuses
  <1>2. /\ rows'[nextId] = NewRow(rows[i].key, level, flagged, i)
        /\ rows'[i] = Superseded(rows[i], code)
        /\ \A j \in Ids \ {i, nextId} : rows'[j] = rows[j]
    BY <1>1 DEF InsertRow
  <1>3. rows'[nextId].key = rows[i].key /\ rows'[nextId].status = "open"
    BY <1>2 DEF NewRow
  <1>4. Kin(rows'[i], rows[i]) /\ rows'[i].status = "superseded"
    BY <1>1, <1>2, KinOf
  <1>5. OthersAlike({i, nextId})
    BY <1>2 DEF OthersAlike, Alike, Kin
  <1>6. \A h \in Keys \ {rows[i].key} : handled'[h] = handled[h]
    BY <1>1 DEF InsertRow
  <1>7. NewPlace(rows[i].key)
    BY <1>1, <1>3, <1>6 DEF NewPlace
  <1>8. IntoStep(i)
    BY DEF InsertRow, IntoStep
  <1> QED
    BY <1>1, <1>4, <1>5, <1>7, <1>8 DEF MovesUp

LEMMA StillIsQuiet ==
  ASSUME UNCHANGED <<rows, flag, handled, chased, active>>, decided \subseteq decided'
  PROVE  Effect
  BY DEF Effect, Quiet, Alike, Kin

LEMMA RequestEffect == ASSUME DInv, NEW p \in Requests, RequestStep(p) PROVE Effect
  <1> DEFINE i == work[p].id
  <1>0. /\ IInv /\ TypeOK /\ rows \in [Ids -> Row] /\ active \in [Keys -> BOOLEAN] /\ p \in Procs
        /\ fresh[p] \subseteq Ids /\ WorkOK(p, work[p]) /\ PlanOK(p, work[p])
    BY DEF DInv, PlansOK, IInv, WorkInv, TypeOK, Procs
  <1>1. ASSUME NEW k \in Keys, RequestRaise(p, k) PROVE Effect
    BY <1>1, StillIsQuiet DEF RequestRaise
  <1>2. ASSUME NEW k \in Keys, AskWithin(p, k) PROVE Effect
    <2>1. Policy(k) \notin SweepPolicies
      BY <1>2 DEF AskWithin, KeysOf, WithinPolicies, SweepPolicies
    <2>2. Raises(k)
      BY <1>0, <1>2, <2>1, InsertedRaises DEF AskWithin
    <2> QED
      BY <2>2 DEF Effect
  <1>3. ASSUME NEW k \in Keys, AskThenRaise(p, k) \/ DecideThenConclude(p, k) PROVE Effect
    <2>1. \A h \in KeysOf({"decision_pending"}) : active'[h] = active[h]
      BY <1>0, <1>3 DEF AskThenRaise, DecideThenConclude, KeysOf
    <2> QED
      BY <1>3, <2>1 DEF AskThenRaise, DecideThenConclude, Effect, Quiet, Alike, Kin
  <1>4. ASSUME NEW j \in Ids, Load(p, j) PROVE Effect
    BY <1>4, StillIsQuiet DEF Load
  <1>5. ASSUME NEW j \in Ids, AnswerWithin(p, j) PROVE Effect
    <2>1. Policy(rows[j].key) # "ratification"
      BY <1>5 DEF AnswerWithin, DomainEnds, WithinPolicies
    <2>2. Ends(j)
      BY <1>0, <1>5, <2>1, EndRowEnds DEF AnswerWithin
    <2> QED
      BY <2>2 DEF Effect
  <1>6. ASSUME Acknowledge(p) PROVE Effect
    <2>1. i \in Ids /\ rows[i] \in Row /\ Live(rows[i])
      BY <1>0, <1>6 DEF Acknowledge, Unchanged, Live, LiveStatuses
    <2>2. rows'[i] = Acknowledged(rows[i]) /\ \A j \in Ids \ {i} : rows'[j] = rows[j]
      BY <1>0, <1>6, <2>1 DEF Acknowledge
    <2>3. Kin(rows'[i], rows[i]) /\ rows'[i].status = "acknowledged"
      BY <2>1, <2>2, KinOf
    <2>4. OthersAlike({i})
      BY <2>2 DEF OthersAlike, Alike, Kin
    <2>5. Claims(i)
      BY <1>6, <2>1, <2>3, <2>4 DEF Acknowledge, Claims, IntoStep
    <2> QED
      BY <2>1, <2>5 DEF Effect
  <1>7. ASSUME Resolve(p) \/ Withdraw(p) PROVE Effect
    <2>1. i \in Ids /\ Live(rows[i])
      BY <1>0, <1>7 DEF Resolve, Withdraw, Unchanged, Live, LiveStatuses
    <2>2. Policy(rows[i].key) \notin {"ratification", "decision_pending"}
      BY <1>7 DEF Resolve, Withdraw, DomainEnds, WithinPolicies, IsAttention, AuthorityPolicies
    <2>3. PICK status \in {"resolved", "withdrawn"}, code \in Codes, claim \in BOOLEAN :
            EndRow(p, i, status, code, claim)
      BY <1>7 DEF Resolve, Withdraw, Codes
    <2>4. UNCHANGED <<handled, decided, active>>
      BY <1>7 DEF Resolve, Withdraw
    <2>5. Ends(i)
      BY <1>0, <2>1, <2>2, <2>3, <2>4, EndRowEnds
    <2> QED
      BY <2>1, <2>5 DEF Effect
  <1>8. ASSUME PushUp(p) \/ GiveUp(p) \/ RaiseAsked(p) \/ ConcludeList(p) PROVE Effect
    BY <1>8, StillIsQuiet DEF PushUp, GiveUp, RaiseAsked, ConcludeList
  <1>9. ASSUME ConcludeRow(p) PROVE Effect
    <2>1. /\ i \in Ids /\ Policy(rows[i].key) = "ratification" /\ rows[i].key \in decided
          /\ UNCHANGED <<handled, decided, active>>
      BY <1>0, <1>9 DEF ConcludeRow, WorkOK, PlanOK
    <2>2. CASE Live(rows[i])
      <3>1. PICK status \in {"resolved", "withdrawn"} : EndRow(p, i, status, "decided", FALSE)
        BY <1>9, <2>2 DEF ConcludeRow
      <3>2. Ends(i)
        BY <1>0, <2>1, <2>2, <3>1, EndRowEnds
      <3> QED
        BY <2>1, <3>2 DEF Effect
    <2>3. CASE ~Live(rows[i])
      BY <1>9, <2>1, <2>3, StillIsQuiet DEF ConcludeRow
    <2> QED
      BY <2>2, <2>3
  <1> QED
    BY <1>1, <1>2, <1>3, <1>4, <1>5, <1>6, <1>7, <1>8, <1>9 DEF RequestStep

LEMMA ProcEffect == ASSUME DInv, NEW p \in Procs, ProcStep(p) PROVE Effect
  <1> DEFINE i == work[p].id
  <1>0. /\ IInv /\ TypeOK /\ rows \in [Ids -> Row] /\ work \in [Procs -> Work]
        /\ fresh[p] \subseteq Ids /\ WorkOK(p, work[p]) /\ PlanOK(p, work[p])
    BY DEF DInv, PlansOK, IInv, WorkInv, TypeOK
  <1>1. CASE WriteRaise(p)
    <2>1. work[p].key \in Keys /\ Policy(work[p].key) \notin WithinPolicies
      BY <1>0, <1>1 DEF WriteRaise, WorkOK, PlanOK
    <2>2. CASE LiveRows(work[p].key) = {} /\ Room
      <3>1. InsertRow(work[p].key, work[p].level, work[p].flagged, NoRow, rows) /\ StartSend(p, nextId)
        BY <1>1, <2>2 DEF WriteRaise
      <3>2. work'[p].pc = "sending" /\ sweep' = sweep
        BY <1>0, <1>1, <3>1 DEF WriteRaise, StartSend, Become, Idle
      <3>3. Policy(work[p].key) \in SweepPolicies => MayRaise(work[p].key) /\ JustRaised(work[p].key)
        BY <1>0, <1>1, <3>2 DEF WriteRaise, PlanOK, JustRaised
      <3>4. Raises(work[p].key)
        BY <1>0, <1>1, <2>1, <2>2, <3>1, <3>3, InsertedRaises DEF WriteRaise
      <3> QED
        BY <2>1, <3>4 DEF Effect
    <2>3. CASE ~(LiveRows(work[p].key) = {} /\ Room)
      BY <1>1, <2>3, StillIsQuiet DEF WriteRaise
    <2> QED
      BY <2>2, <2>3
  <1>2. CASE Supersede(p)
    <2>1. CASE StillHolds(p, i) /\ Room
      <3>1. i \in Ids /\ Live(rows[i])
        BY <1>0, <2>1 DEF StillHolds, Unchanged, Live, LiveStatuses
      <3>2. MovesUp(i)
        BY <1>0, <1>2, <2>1, <3>1, InsertedMovesUp DEF Supersede
      <3> QED
        BY <3>1, <3>2 DEF Effect
    <2>2. CASE ~(StillHolds(p, i) /\ Room)
      BY <1>2, <2>2, StillIsQuiet DEF Supersede
    <2> QED
      BY <2>1, <2>2
  <1>3. CASE Notify(p)
    <2>1. PICK outcome \in Outcomes(p) :
            rows' = [rows EXCEPT ![i] = Recorded(rows[i], outcome[1], Counted(p, outcome),
                                                 Subject(rows[i].key) \in late[p])]
      BY <1>3 DEF Notify
    <2>2. \A j \in Ids \ {i} : rows'[j] = rows[j]
      BY <1>0, <2>1
    <2>3. ASSUME i \in Ids PROVE Core(rows'[i]) = Core(rows[i])
      <3>1. rows'[i] = Recorded(rows[i], outcome[1], Counted(p, outcome), Subject(rows[i].key) \in late[p])
        BY <1>0, <2>1, <2>3
      <3>2. \A state, n, still : Core(Recorded(rows[i], state, n, still)) = Core(rows[i])
        BY <1>0, <2>3, CoreOf
      <3> QED
        BY <3>1, <3>2, Zenon
    <2>4. \A j \in Ids : Alike(j)
      BY <2>2, <2>3, AlikeByCore DEF Alike, Kin
    <2> QED
      BY <1>3, <2>4 DEF Notify, Effect, Quiet
  <1>4. CASE FlagSubject(p)
    BY <1>4 DEF FlagSubject, Effect, Quiet, Alike, Kin
  <1> QED
    BY <1>1, <1>2, <1>3, <1>4 DEF ProcStep

LEMMA SweepEffect == ASSUME DInv, SweepStep PROVE Effect
  <1> DEFINE i == Lowest(sweep.todo)
  <1>0. IInv /\ TypeOK /\ TodoOK
    BY DEF DInv, IInv
  <1>1. CASE SweepClear \/ SweepReport
    <2>1. i \in sweep.todo /\ i \in Ids
      <3>1. sweep.todo \in SUBSET Nat /\ sweep.todo \subseteq Ids /\ sweep.todo # {}
        BY <1>0, <1>1 DEF TypeOK, Run, Ids, SweepClear, SweepReport
      <3> QED
        BY <3>1, LowestIn
    <2>2. Policy(rows[i].key) \notin {"ratification", "decision_pending"}
      BY <1>0, <1>1, <2>1 DEF TodoOK, SweepClear, SweepReport, Doing, IsAttention, AuthorityPolicies
    <2>3. AutoResolve(i)
      BY <1>1 DEF SweepClear, SweepReport
    <2>4. CASE Unchanged(Sweep, i) /\ Live(rows[i])
      <3>1. PICK status \in {"resolved", "withdrawn"} : EndRow(Sweep, i, status, "condition_cleared", FALSE)
        BY <2>3, <2>4 DEF AutoResolve
      <3>2. Ends(i)
        BY <1>0, <2>1, <2>2, <2>3, <2>4, <3>1, EndRowEnds DEF AutoResolve
      <3> QED
        BY <2>1, <3>2 DEF Effect
    <2>5. CASE ~(Unchanged(Sweep, i) /\ Live(rows[i]))
      BY <2>3, <2>5, StillIsQuiet DEF AutoResolve
    <2> QED
      BY <2>4, <2>5
  <1>2. CASE SweepOverdue
    BY <1>2, StillIsQuiet DEF SweepOverdue, SweepMove
  <1> QED
    BY <1>1, <1>2, StillIsQuiet
    DEF SweepStep, SweepBegin, SweepNextStep, SweepEnd, SweepOutOfActions, SweepStillHolds,
        SweepRemind, SweepRetry, SweepSend, SweepFollow, SweepMove, SweepRaise

LEMMA WorldEffect == ASSUME DInv, FaultStep \/ WorldStep PROVE Effect
  <1>0. TypeOK /\ rows \in [Ids -> Row]
    BY DEF DInv, IInv, TypeOK
  <1>1. CASE FaultStep
    BY <1>1, StillIsQuiet DEF FaultStep, LoseBookkeeping, CrashRequest, CrashSweep, Fault
  <1>2. ASSUME NEW i \in Ids, DuePasses(i) \/ BackoffPasses(i) \/ ReminderPasses(i) PROVE Effect
    <2>1. /\ \A j \in Ids \ {i} : rows'[j] = rows[j]
          /\ \/ rows'[i] = [rows[i] EXCEPT !.overdue = TRUE]
             \/ rows'[i] = [rows[i] EXCEPT !.waited = TRUE]
             \/ rows'[i] = [rows[i] EXCEPT !.remind = TRUE]
      BY <1>0, <1>2 DEF DuePasses, BackoffPasses, ReminderPasses, TimePasses
    <2>2. Core(rows'[i]) = Core(rows[i])
      BY <1>0, <2>1, CoreOf
    <2>3. \A j \in Ids : Alike(j)
      BY <2>1, <2>2, AlikeByCore DEF Alike, Kin
    <2> QED
      BY <1>2, <2>3 DEF DuePasses, BackoffPasses, ReminderPasses, TimePasses, Effect, Quiet
  <1>3. ASSUME NEW j \in Mailed, EmailArrives(j) PROVE Effect
    <2>1. \A i \in Ids : Alike(i)
      BY <1>0, <1>3, CoreOf, AlikeByCore DEF EmailArrives
    <2>2. \A k \in Keys : chased[k] => chased'[k]
      BY <1>3 DEF EmailArrives
    <2> QED
      BY <1>3, <2>1, <2>2 DEF EmailArrives, Effect, Quiet
  <1>4. ASSUME NEW k \in Keys, ConditionHolds(k) \/ ConditionClears(k) PROVE Effect
    <2>1. \A h \in KeysOf({"decision_pending"}) : active'[h] = active[h]
      BY <1>0, <1>4 DEF ConditionHolds, ConditionClears, ConditionKeys, IsAttention, AuthorityPolicies, KeysOf, TypeOK
    <2>2. \A h \in Keys : handled'[h] => handled[h]
      BY <1>0, <1>4 DEF ConditionHolds, ConditionClears, TypeOK
    <2> QED
      BY <1>4, <2>1, <2>2 DEF ConditionHolds, ConditionClears, Effect, Quiet, Alike, Kin
  <1>5. CASE DirectoryChanges \/ SettingsChange
    BY <1>5, StillIsQuiet DEF DirectoryChanges, SettingsChange
  <1>6. ASSUME WorldStep PROVE Effect
    BY <1>2, <1>3, <1>4, <1>5, <1>6 DEF WorldStep
  <1> QED
    BY <1>1, <1>6

LEMMA StepEffect == ASSUME DInv, Next PROVE Effect
  BY RequestEffect, ProcEffect, SweepEffect, WorldEffect DEF Next

(* What a process sets out to do is sound when it does. *)
NewPlan(q, w) ==
  /\ w.pc = "asked" => Policy(w.key) = "ratification"
  /\ w.pc = "raising" => Policy(w.key) \notin WithinPolicies
  /\ w.pc = "raising" /\ Policy(w.key) \in SweepPolicies =>
       q = Sweep /\ MayRaise(w.key) /\ w.key \notin sweep'.wanted /\ UNCHANGED <<rows, handled, chased>>
  /\ w.pc \in {"deciding", "concluding"} => Policy(w.key) = "ratification" /\ w.key \in decided'
  /\ w.pc = "concluding" => rows[w.id].key = w.key /\ rows[w.id].status # "unused"

LEMMA StepPlans == ASSUME DInv, Next PROVE \A q \in Procs : work'[q] = work[q] \/ NewPlan(q, work'[q])
  <1> DEFINE Sound == \A q \in Procs : work'[q] = work[q] \/ NewPlan(q, work'[q])
  <1>0. /\ TypeOK /\ rows \in [Ids -> Row] /\ work \in [Procs -> Work]
        /\ Requests \subseteq Procs /\ Sweep \in Procs /\ Sweep \notin Requests
        /\ \A q \in Procs : PlanOK(q, work[q]) /\ WorkOK(q, work[q])
        /\ WantedOK
    BY ConstantsAssumption DEF DInv, PlansOK, IInv, WorkInv, TypeOK, Procs
  <1>1. ASSUME work' = work PROVE Sound
    BY <1>1
  <1>2. ASSUME NEW p \in Procs, NEW w \in {work'[p]}, work' = [work EXCEPT ![p] = w], NewPlan(p, w)
        PROVE  Sound
    BY <1>0, <1>2
  <1>3. ASSUME NEW w, w.pc \notin {"asked", "raising", "deciding", "concluding"}, NEW p
        PROVE  NewPlan(p, w)
    BY <1>3 DEF NewPlan
  <1> HIDE DEF Sound
  <1>4. \A p : NewPlan(p, Idle)
    BY <1>3 DEF Idle
  <1>5. ASSUME NEW p \in Procs, NEW w \in {work'[p]}, Become(p, w), NewPlan(p, w) PROVE Sound
    BY <1>2, <1>5 DEF Become
  <1>6. ASSUME NEW p \in Procs, Finish(p) PROVE Sound
    <2>1. work'[p] = Idle
      BY <1>0, <1>6 DEF Finish, Become
    <2> QED
      BY <1>4, <1>5, <1>6, <2>1 DEF Finish
  <1>7. ASSUME NEW p \in Procs, NEW i, StartSend(p, i) PROVE Sound
    <2>1. work'[p] = [Idle EXCEPT !.pc = "sending", !.id = i, !.key = rows'[i].key]
      BY <1>0, <1>7 DEF StartSend, Become
    <2>2. work'[p].pc = "sending"
      BY <2>1 DEF Idle
    <2> QED
      BY <1>3, <1>5, <1>7, <2>1, <2>2 DEF StartSend
  <1>8. ASSUME NEW p \in Procs, NEW w \in {work'[p]}, Become(p, w),
               w.pc \notin {"asked", "raising", "deciding", "concluding"}
        PROVE  Sound
    BY <1>3, <1>5, <1>8
  <1>9. ASSUME NEW p, NEW k \in Keys, Policy(k) \notin WithinPolicies,
               Policy(k) \in SweepPolicies => /\ p = Sweep /\ MayRaise(k) /\ k \notin sweep'.wanted
                                              /\ UNCHANGED <<rows, handled, chased>>
        PROVE  NewPlan(p, Planned(k))
    <2>1. Planned(k).pc = "raising" /\ Planned(k).key = k
      BY DEF Planned, Idle
    <2> QED
      BY <1>9, <2>1 DEF NewPlan
  <1>10. ASSUME NEW p \in Requests, RequestStep(p) PROVE Sound
    <2>0. p \in Procs /\ p # Sweep /\ work[p] \in Work /\ PlanOK(p, work[p]) /\ WorkOK(p, work[p])
      BY <1>0
    <2> DEFINE i == work[p].id
    <2>1. ASSUME NEW k \in Keys, RequestRaise(p, k) PROVE Sound
      <3>1. Become(p, Planned(k)) /\ work'[p] = Planned(k)
        BY <1>0, <2>0, <2>1 DEF RequestRaise, Become
      <3>2. Policy(k) \notin WithinPolicies \cup SweepPolicies
        BY <2>1 DEF RequestRaise, KeysOf, WithinPolicies, SweepPolicies, OwnPolicies, UrgentPolicies
      <3> QED
        BY <1>5, <1>9, <2>0, <3>1, <3>2
    <2>2. ASSUME NEW k \in Keys, AskWithin(p, k) PROVE Sound
      BY <1>7, <2>0, <2>2 DEF AskWithin
    <2>3. ASSUME NEW k \in Keys, AskThenRaise(p, k) PROVE Sound
      <3> DEFINE w == [Idle EXCEPT !.pc = "asked", !.key = k]
      <3>1. Become(p, w) /\ work'[p] = w
        BY <1>0, <2>0, <2>3 DEF AskThenRaise, Become
      <3>2. NewPlan(p, w)
        BY <2>3 DEF Idle, NewPlan, AskThenRaise, KeysOf
      <3> QED
        BY <1>5, <2>0, <3>1, <3>2
    <2>4. ASSUME NEW k \in Keys, DecideThenConclude(p, k) PROVE Sound
      <3> DEFINE w == [Idle EXCEPT !.pc = "deciding", !.key = k]
      <3>1. Become(p, w) /\ work'[p] = w
        BY <1>0, <2>0, <2>4 DEF DecideThenConclude, Become
      <3>2. NewPlan(p, w)
        BY <2>4 DEF Idle, NewPlan, DecideThenConclude, KeysOf
      <3> QED
        BY <1>5, <2>0, <3>1, <3>2
    <2>5. ASSUME NEW j \in Ids, Load(p, j) PROVE Sound
      <3> DEFINE w == [Idle EXCEPT !.pc = "loaded", !.id = j, !.key = rows[j].key]
      <3>1. Become(p, w) /\ work'[p] = w /\ w.pc = "loaded"
        BY <1>0, <2>0, <2>5 DEF Load, Become, Idle
      <3> QED
        BY <1>8, <2>0, <3>1
    <2>6. ASSUME NEW j \in Ids, AnswerWithin(p, j) PROVE Sound
      BY <1>1, <2>6 DEF AnswerWithin
    <2>7. ASSUME Acknowledge(p) \/ Resolve(p) \/ Withdraw(p) \/ GiveUp(p) \/ ConcludeRow(p) PROVE Sound
      BY <1>6, <2>0, <2>7 DEF Acknowledge, Resolve, Withdraw, GiveUp, ConcludeRow
    <2>8. ASSUME PushUp(p) PROVE Sound
      <3> DEFINE w == Moving(i, rows[i].level + 1, "escalated")
      <3>1. Become(p, w) /\ work'[p] = w /\ w.pc = "moving"
        BY <1>0, <2>0, <2>8 DEF PushUp, Become, Moving, Idle
      <3> QED
        BY <1>8, <2>0, <3>1
    <2>9. ASSUME RaiseAsked(p) PROVE Sound
      <3>1. work[p].key \in Keys /\ Policy(work[p].key) \notin WithinPolicies \cup SweepPolicies
        BY <2>0, <2>9 DEF RaiseAsked, WorkOK, PlanOK, WithinPolicies, SweepPolicies
      <3>2. work'[p] \in {Planned(work[p].key), Idle} /\ Become(p, work'[p])
        BY <1>0, <2>0, <2>9 DEF RaiseAsked, Become
      <3>3. NewPlan(p, Planned(work[p].key))
        BY <1>9, <3>1
      <3> QED
        BY <1>4, <1>5, <2>0, <3>2, <3>3
    <2>10. ASSUME ConcludeList(p) PROVE Sound
      <3> DEFINE found == LiveRows(work[p].key)
                 w == [work[p] EXCEPT !.pc = "concluding", !.id = Lowest(found),
                                      !.seen = rows[Lowest(found)].status]
      <3>1. /\ work'[p] = (IF found = {} THEN Idle ELSE w) /\ Become(p, work'[p])
            /\ Policy(work[p].key) = "ratification" /\ work[p].key \in decided'
        BY <1>0, <2>0, <2>10 DEF ConcludeList, Become, PlanOK
      <3>2. ASSUME found # {} PROVE NewPlan(p, w)
        <4>1. found \in SUBSET Nat /\ found \subseteq Ids
          BY DEF LiveRows, Ids
        <4>2. Lowest(found) \in found
          BY <3>2, <4>1, LowestIn
        <4>3. w.pc = "concluding" /\ w.id = Lowest(found) /\ w.key = work[p].key
          BY <2>0 DEF Work
        <4>4. rows[Lowest(found)].key = work[p].key /\ rows[Lowest(found)].status # "unused"
          BY <4>2 DEF LiveRows, Live, LiveStatuses
        <4> QED
          BY <3>1, <4>3, <4>4 DEF NewPlan
      <3> QED
        BY <1>4, <1>5, <2>0, <3>1, <3>2
    <2> QED
      BY <1>10, <2>1, <2>2, <2>3, <2>4, <2>5, <2>6, <2>7, <2>8, <2>9, <2>10 DEF RequestStep
  <1>11. ASSUME NEW p \in Procs, ProcStep(p) PROVE Sound
    <2>1. ASSUME Notify(p) PROVE Sound
      <3> DEFINE w == [work[p] EXCEPT !.pc = "flagging"]
      <3>1. work'[p] \in {w, Idle} /\ Become(p, work'[p])
        BY <1>0, <2>1 DEF Notify, Become
      <3>2. w.pc = "flagging" /\ Idle.pc = "idle"
        BY <1>0 DEF Work, Idle
      <3> QED
        BY <1>8, <3>1, <3>2
    <2>2. ASSUME WriteRaise(p) \/ Supersede(p) \/ FlagSubject(p) PROVE Sound
      BY <1>6, <1>7, <2>2 DEF WriteRaise, Supersede, FlagSubject
    <2> QED
      BY <1>11, <2>1, <2>2 DEF ProcStep
  <1>12. ASSUME SweepStep PROVE Sound
    <2> DEFINE i == Lowest(sweep.todo)
    <2>2. ASSUME NEW step, NEW from, NEW repeat, NEW code, SweepMove(step, from, repeat, code) PROVE Sound
      <3>1. Become(Sweep, work'[Sweep]) /\ work'[Sweep] \in {Idle, Moving(i, from, code)}
        BY <1>0, <2>2 DEF SweepMove, Become
      <3>2. Moving(i, from, code).pc = "moving" /\ Idle.pc = "idle"
        BY DEF Moving, Idle
      <3> QED
        BY <1>0, <1>8, <3>1, <3>2
    <2>3. CASE SweepOverdue
      BY <2>2, <2>3 DEF SweepOverdue
    <2>4. CASE SweepFollow
      BY <2>2, <2>4 DEF SweepFollow
    <2>5. ASSUME NEW step, NEW code, SweepSend(step, code) PROVE Sound
      <3> DEFINE w == [Idle EXCEPT !.pc = "sending", !.id = i, !.key = rows[i].key, !.code = code]
      <3>1. Become(Sweep, w) /\ work'[Sweep] = w
        BY <1>0, <2>5 DEF SweepSend, Become
      <3>2. w.pc = "sending"
        BY DEF Idle
      <3> HIDE DEF w
      <3>3. Become(Sweep, work'[Sweep]) /\ work'[Sweep].pc = "sending"
        BY <3>1, <3>2
      <3> QED
        BY <1>0, <1>8, <3>3
    <2>6. ASSUME NEW k \in Keys, SweepRaise(k) PROVE Sound
      <3>1. Become(Sweep, work'[Sweep]) /\ work'[Sweep] \in {Planned(k), Idle}
        BY <1>0, <2>6 DEF SweepRaise, Become
      <3>2. k \notin sweep'.wanted /\ UNCHANGED <<rows, handled, chased>>
        BY <1>0, <2>6 DEF SweepRaise, TypeOK, Run
      <3>3. /\ Policy(k) \notin WithinPolicies
            /\ Policy(k) \in SweepPolicies => MayRaise(k)
        BY <1>0, <2>6 DEF SweepRaise, WantedOK, WithinPolicies, SweepPolicies
      <3>4. NewPlan(Sweep, Planned(k))
        BY <1>9, <3>2, <3>3
      <3> QED
        BY <1>0, <1>4, <1>5, <3>1, <3>4
    <2>7. CASE SweepEnd
      BY <1>0, <1>6, <2>7 DEF SweepEnd, Forget
    <2>8. CASE SweepClear \/ SweepReport
      BY <1>1, <2>8 DEF SweepClear, SweepReport, AutoResolve
    <2> QED
      BY <1>1, <1>12, <2>3, <2>4, <2>5, <2>6, <2>7, <2>8
      DEF SweepStep, SweepBegin, SweepNextStep, SweepOutOfActions, SweepStillHolds, SweepRemind, SweepRetry
  <1>13. ASSUME FaultStep PROVE Sound
    BY <1>0, <1>6, <1>13 DEF FaultStep, LoseBookkeeping, CrashRequest, CrashSweep, Forget
  <1>14. ASSUME WorldStep PROVE Sound
    BY <1>1, <1>14 DEF WorldStep, DuePasses, BackoffPasses, ReminderPasses, TimePasses, EmailArrives,
                       ConditionHolds, ConditionClears, DirectoryChanges, SettingsChange
  <1>15. Sound
    BY <1>10, <1>11, <1>12, <1>13, <1>14 DEF Next
  <1> QED
    BY <1>15 DEF Sound

(* A run takes things off its lists, or begins a step and makes them anew. *)
LEMMA StepLists ==
  ASSUME DInv, Next
  PROVE  \/ /\ sweep'.wanted \subseteq sweep.wanted /\ sweep'.todo \subseteq sweep.todo
            /\ sweep'.step = sweep.step \/ sweep'.todo = {}
         \/ /\ UNCHANGED <<rows, handled, chased>> /\ work[Sweep].pc = "idle"
            /\ sweep'.wanted = Wanted(sweep'.step) /\ sweep'.todo = Listed(sweep'.step)
  <1> DEFINE Fewer == /\ sweep'.wanted \subseteq sweep.wanted /\ sweep'.todo \subseteq sweep.todo
                      /\ sweep'.step = sweep.step \/ sweep'.todo = {}
             Anew == /\ UNCHANGED <<rows, handled, chased>> /\ work[Sweep].pc = "idle"
                     /\ sweep'.wanted = Wanted(sweep'.step) /\ sweep'.todo = Listed(sweep'.step)
  <1>0. sweep \in Run
    BY DEF DInv, IInv, TypeOK
  <1>1. ASSUME sweep' = sweep PROVE Fewer
    BY <1>1
  <1>2. ASSUME sweep' = NoRun PROVE Fewer
    BY <1>2 DEF NoRun
  <1>3. ASSUME NEW step, NEW run \in {sweep, [NoRun EXCEPT !.left = MaxActions]}, BeginStep(step, run)
        PROVE  sweep'.step = step /\ sweep'.wanted = Wanted(step) /\ sweep'.todo = Listed(step)
    BY <1>0, <1>3 DEF BeginStep, Run, NoRun
  <1>4. ASSUME NEW todo \in SUBSET sweep.todo, NEW wanted \in SUBSET sweep.wanted, NEW left, NEW errs,
               sweep' = [sweep EXCEPT !.todo = todo, !.wanted = wanted, !.left = left, !.errs = errs]
        PROVE  Fewer
    BY <1>0, <1>4 DEF Run
  <1>5. CASE SweepBegin \/ SweepNextStep
    <2>1. PICK run \in {sweep, [NoRun EXCEPT !.left = MaxActions]} : \E step : BeginStep(step, run)
      BY <1>5 DEF SweepBegin, SweepNextStep
    <2>2. PICK step : BeginStep(step, run)
      BY <2>1
    <2>3. sweep'.step = step /\ sweep'.wanted = Wanted(step) /\ sweep'.todo = Listed(step)
      BY <1>3, <2>2
    <2> QED
      BY <1>5, <2>3 DEF SweepBegin, SweepNextStep, Doing
  <1>6. ASSUME SweepEnd \/ CrashSweep PROVE Fewer
    BY <1>2, <1>6 DEF SweepEnd, CrashSweep
  <1>7. ASSUME NEW i, \/ Take(i)
                      \/ sweep' = [sweep EXCEPT !.todo = @ \ {i}]
        PROVE  Fewer
    BY <1>0, <1>7 DEF Take, Run
  <1>8. CASE \/ SweepClear \/ SweepStillHolds \/ SweepReport \/ SweepFollow
             \/ SweepOverdue \/ SweepRemind \/ SweepRetry
    BY <1>7, <1>8 DEF SweepClear, SweepStillHolds, SweepReport, SweepOverdue, SweepFollow, SweepMove,
                      SweepRemind, SweepRetry
  <1>9. CASE SweepOutOfActions
    BY <1>0, <1>9 DEF SweepOutOfActions, Run
  <1>10. ASSUME NEW k \in Keys, SweepRaise(k) PROVE Fewer
    BY <1>0, <1>10 DEF SweepRaise, Run
  <1>11. ASSUME NEW p \in Procs, Notify(p) PROVE Fewer
    BY <1>0, <1>11 DEF Notify, Run
  <1>12. CASE SweepStep
    BY <1>5, <1>6, <1>8, <1>9, <1>10, <1>12 DEF SweepStep
  <1>13. ASSUME NEW p \in Requests, RequestStep(p) PROVE sweep' = sweep
    BY <1>13 DEF RequestStep, RequestRaise, AskWithin, AskThenRaise, DecideThenConclude, Load, AnswerWithin,
                 Acknowledge, Resolve, Withdraw, PushUp, GiveUp, RaiseAsked, ConcludeList, ConcludeRow
  <1>14. ASSUME NEW p \in Procs, ProcStep(p) PROVE Fewer
    BY <1>1, <1>11, <1>14 DEF ProcStep, WriteRaise, Supersede, FlagSubject
  <1>15. ASSUME FaultStep PROVE Fewer
    <2>1. sweep' = sweep \/ CrashSweep
      BY <1>15 DEF FaultStep, LoseBookkeeping, CrashRequest
    <2> QED
      BY <1>1, <1>6, <2>1
  <1>16. ASSUME WorldStep PROVE sweep' = sweep
    BY <1>16 DEF WorldStep, DuePasses, BackoffPasses, ReminderPasses, TimePasses, EmailArrives,
                 ConditionHolds, ConditionClears, DirectoryChanges, SettingsChange
  <1> QED
    BY <1>1, <1>12, <1>13, <1>14, <1>15, <1>16 DEF Next

LEMMA ListsAreFit ==
  /\ \A step \in {ClearStep, ReportStep} : \A i \in Listed(step) :
       rows[i].status # "unused" /\ IsAttention(rows[i].key)
  /\ \A step : \A k \in Wanted(step) : /\ Policy(k) \in SweepPolicies \cup {"health"}
                                       /\ Policy(k) \in SweepPolicies => MayRaise(k)
  <1>1. ASSUME NEW i \in Listed(ClearStep) PROVE rows[i].status # "unused" /\ IsAttention(rows[i].key)
    BY <1>1 DEF Listed, ClearStep, OverdueStep, RemindStep, FollowStep, RetryStep, ReportStep, AllLive,
                Live, LiveStatuses
  <1>2. ASSUME NEW i \in Listed(ReportStep) PROVE rows[i].status # "unused" /\ IsAttention(rows[i].key)
    <2>1. i \in SweepHealthRows
      BY <1>2 DEF Listed, ClearStep, OverdueStep, RemindStep, FollowStep, RetryStep, ReportStep
    <2>2. rows[i].key = <<"sweep_run", "health">> /\ rows[i].status # "unused"
      BY <2>1 DEF SweepHealthRows, LiveRows, Live, LiveStatuses
    <2> QED
      BY <2>2 DEF IsAttention, Policy, AuthorityPolicies
  <1>3. ASSUME NEW step, NEW k \in Wanted(step)
        PROVE  /\ Policy(k) \in SweepPolicies \cup {"health"}
               /\ Policy(k) \in SweepPolicies => MayRaise(k)
    <2>1. \/ k \in KeysOf(SweepPolicies) /\ ToRaise(k)
          \/ k \in KeysOf({"health"})
      BY <1>3 DEF Wanted
    <2> QED
      BY <2>1 DEF KeysOf, ToRaise, MayRaise, SweepPolicies
  <1> QED
    BY <1>1, <1>2, <1>3

(* The invariant is kept by every step, and a step raises no swept key that was dealt with. *)
LEMMA NextDInv ==
  DInv /\ [Next]_vars =>
    /\ DInv'
    /\ \A k \in KeysOf(SweepPolicies) : LiveRows(k) = {} /\ LiveRows(k)' # {} => MayRaise(k)
  <1> SUFFICES ASSUME DInv, [Next]_vars
               PROVE  /\ DInv'
                      /\ \A k \in KeysOf(SweepPolicies) :
                           LiveRows(k) = {} /\ LiveRows(k)' # {} => MayRaise(k)
    OBVIOUS
  <1>1. IInv'
    BY NextIInv DEF DInv
  <1>2. CASE UNCHANGED vars
    <2>1. UNCHANGED <<rows, flag, active, decided, handled, chased, work, sweep>>
      BY <1>2 DEF vars
    <2>2. RowsFitTheirSubject'
      BY <2>1 DEF DInv, RowsFitTheirSubject, FlagMeansWaiting, Waiting, QuestionIsChased, OnlyADecisionEndsIt,
                  LiveRows, Live
    <2>3. PlansOK' /\ WantedOK' /\ TodoOK'
      BY <2>1 DEF DInv, PlansOK, PlanOK, WantedOK, TodoOK, MayRaise, LiveRows, Live
    <2>4. \A k : LiveRows(k)' = LiveRows(k)
      BY <2>1 DEF LiveRows, Live
    <2> QED
      BY <1>1, <2>2, <2>3, <2>4 DEF DInv
  <1>3. CASE Next
    <2>1. StepIsFit
      BY <1>3, StepEffect, EffectIsFit DEF DInv
    <2>2. \A k : MayRaise(k) /\ UNCHANGED <<rows, handled, chased>> => MayRaise(k)'
      BY DEF MayRaise, LiveRows, Live
    <2>3. ASSUME NEW p \in Procs PROVE PlanOK(p, work[p])'
      <3>1. PICK w : w = work'[p]
        OBVIOUS
      <3>2. w = work[p] \/ NewPlan(p, w)
        BY <1>3, <3>1, StepPlans
      <3>3. w.pc = "raising" => w.key \in Keys
        <4>1. WorkOK(p, work[p])'
          BY <1>1 DEF IInv, WorkInv
        <4> QED
          BY <3>1, <4>1 DEF WorkOK
      <3>4. /\ w.pc = "asked" => Policy(w.key) = "ratification"
            /\ w.pc = "raising" => Policy(w.key) \notin WithinPolicies
            /\ w.pc \in {"deciding", "concluding"} => Policy(w.key) = "ratification" /\ w.key \in decided'
        BY <2>1, <3>2 DEF DInv, PlansOK, PlanOK, NewPlan, StepIsFit
      <3>5. w.pc = "raising" /\ Policy(w.key) \in SweepPolicies =>
              p = Sweep /\ MayRaise(w.key)' /\ w.key \notin sweep'.wanted
        <4> SUFFICES ASSUME w.pc = "raising", Policy(w.key) \in SweepPolicies
                     PROVE  p = Sweep /\ MayRaise(w.key)' /\ w.key \notin sweep'.wanted
          OBVIOUS
        <4>1. CASE NewPlan(p, w)
          BY <2>2, <4>1 DEF NewPlan
        <4>2. CASE w = work[p]
          <5>1. p = Sweep /\ MayRaise(w.key) /\ w.key \notin sweep.wanted
            BY <4>2 DEF DInv, PlansOK, PlanOK
          <5>2. MayRaise(w.key)'
            BY <2>1, <3>1, <3>3, <4>2, <5>1 DEF StepIsFit, KeysOf, JustRaised
          <5>3. sweep'.wanted \subseteq sweep.wanted
            BY <1>3, <4>2, <5>1, StepLists
          <5> QED
            BY <5>1, <5>2, <5>3
        <4> QED
          BY <3>2, <4>1, <4>2
      <3>6. w.pc = "concluding" => rows'[w.id].key = w.key /\ rows'[w.id].status # "unused"
        <4> SUFFICES ASSUME w.pc = "concluding"
                     PROVE  rows'[w.id].key = w.key /\ rows'[w.id].status # "unused"
          OBVIOUS
        <4>1. WorkOK(p, work[p])'
          BY <1>1 DEF IInv, WorkInv
        <4>2. w.id \in Ids
          BY <3>1, <4>1 DEF WorkOK
        <4>3. rows[w.id].key = w.key /\ rows[w.id].status # "unused"
          BY <3>2 DEF NewPlan, DInv, PlansOK, PlanOK
        <4> QED
          BY <2>1, <4>2, <4>3 DEF StepIsFit
      <3>7. MayRaise(w.key)' => MayRaise(work[p].key)'
        BY <3>1 DEF MayRaise, LiveRows, Live
      <3> QED
        BY <3>1, <3>4, <3>5, <3>6, <3>7 DEF PlanOK
    <2>4. WantedOK'
      <3> SUFFICES ASSUME NEW k \in sweep'.wanted
                   PROVE  /\ Policy(k) \in SweepPolicies \cup {"health"}
                          /\ Policy(k) \in SweepPolicies => MayRaise(k)'
        BY DEF WantedOK
      <3>1. k \in Keys
        BY <1>1 DEF IInv, TypeOK, Run
      <3>2. CASE k \in sweep.wanted
        BY <2>1, <3>1, <3>2 DEF DInv, WantedOK, StepIsFit, JustRaised, KeysOf
      <3>3. CASE sweep'.wanted = Wanted(sweep'.step) /\ UNCHANGED <<rows, handled, chased>>
        <4>1. PICK step : step = sweep'.step
          OBVIOUS
        <4>2. k \in Wanted(step)
          BY <3>3, <4>1
        <4> QED
          BY <2>2, <3>3, <4>2, ListsAreFit
      <3> QED
        BY <1>3, <3>2, <3>3, StepLists
    <2>5. TodoOK'
      <3> SUFFICES ASSUME sweep'.step \in {ClearStep, ReportStep}, NEW i \in sweep'.todo
                   PROVE  rows'[i].status # "unused" /\ IsAttention(rows'[i].key)
        BY DEF TodoOK
      <3>1. i \in Ids
        BY <1>1 DEF IInv, TypeOK, Run
      <3>2. rows[i].status # "unused" /\ IsAttention(rows[i].key)
        <4>1. PICK step : step = sweep'.step
          OBVIOUS
        <4>2. ASSUME sweep'.todo = Listed(sweep'.step) PROVE i \in Listed(step)
          BY <4>1, <4>2
        <4>3. ASSUME i \in sweep.todo, sweep.step \in {ClearStep, ReportStep}
              PROVE  rows[i].status # "unused" /\ IsAttention(rows[i].key)
          BY <4>3 DEF DInv, TodoOK
        <4> QED
          BY <1>3, <4>1, <4>2, <4>3, StepLists, ListsAreFit
      <3> QED
        BY <2>1, <3>1, <3>2 DEF StepIsFit
    <2> QED
      BY <1>1, <2>1, <2>3, <2>4, <2>5 DEF DInv, PlansOK, StepIsFit
  <1> QED
    BY <1>2, <1>3

LEMMA InitDInv == Init => DInv
  <1> SUFFICES ASSUME Init PROVE DInv
    OBVIOUS
  <1>1. \A i \in Ids : rows[i].status = "unused"
    BY DEF Init, UnusedRow, Rest, NewRow
  <1>2. IInv
    BY InitIInv
  <1>3. RowsFitTheirSubject
    BY <1>1 DEF Init, RowsFitTheirSubject, FlagMeansWaiting, QuestionIsChased, OnlyADecisionEndsIt,
                LiveRows, Live, LiveStatuses, KeysOf
  <1>4. PlansOK /\ WantedOK /\ TodoOK
    BY DEF Init, PlansOK, PlanOK, WantedOK, TodoOK, Idle, NoRun
  <1> QED
    BY <1>2, <1>3, <1>4 DEF DInv

LEMMA AlwaysDInv == Spec => []DInv
  BY InitDInv, NextDInv, PTL DEF Spec

(* The job's flag, the pending question and the schedule change agree with the rows,    *)
(* whatever order requests, sweep, email and crashes come in (onChange, raiseWithin,    *)
(* resolveWithin, concludeForSubject).                                                  *)
THEOREM RowsStayFit == Spec => []RowsFitTheirSubject
  <1>1. DInv => RowsFitTheirSubject
    BY DEF DInv
  <1> QED
    BY <1>1, AlwaysDInv, PTL

(* What a person closed is not raised by the sweep again while the condition it was     *)
(* raised for goes on and no mail has come, however old the run's list is.              *)
THEOREM ClosedRowsStayClosed == Spec => ClosedStaysClosed
  <1>1. DInv /\ [Next]_vars =>
          [\A k \in KeysOf(SweepPolicies) :
             LiveRows(k) = {} /\ LiveRows(k)' # {} =>
               ~handled[k] \/ (Policy(k) = "stalled" /\ chased[k])]_vars
    BY NextDInv DEF MayRaise
  <1> QED
    BY <1>1, AlwaysDInv, PTL DEF Spec, ClosedStaysClosed
=============================================================================
