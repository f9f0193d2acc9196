---------------------------- MODULE Inspections ----------------------------
(***************************************************************************)
(* Building inspections: src/functions/inspections.ts over                 *)
(* dbo.Inspections, their levels, rooms, findings (points), the log of     *)
(* applied operations, the removal ledger and the jobs raised.             *)
(*                                                                         *)
(* Phones queue operations and send them until they are answered, so an    *)
(* operation arrives any number of times: it is told by its content, which *)
(* stands for the id the phone gave it.  A batch is its operations one by  *)
(* one, each under its own savepoint.  applyInspectionOps, mergeInspections *)
(* and the second half of raiseJobsFromInspection lock the inspection and  *)
(* are one action; deleteInspection and raiseJobsFromInspection decide on  *)
(* what they read before, unlocked, and are two.  Titles, contributors,    *)
(* sort order and who may act are left out; baseRevision is optional and a *)
(* phone that omits it is never refused for it.                            *)
(***************************************************************************)
EXTENDS Naturals, FiniteSets

CONSTANTS
  Insps,       \* inspections that can be made
  LevelNames, Rooms, Findings, Nowhere,
  MaxJobs, MaxQueued  \* jobs looked at per finding, operations of the phones: bound the run

ASSUME InspConstants == Nowhere \notin Insps \cup Rooms \cup (Insps \X LevelNames) /\ MaxJobs \in Nat \ {0, 1}

VARIABLES
  insp,      \* [Insps -> [status, into]]
  levels,    \* {<<inspection, name>>}
  rooms,     \* [Rooms -> <<inspection, name>> or Nowhere]
  finds,     \* [Findings -> [room, photo]]
  oplog,     \* dbo.InspectionOperationLog: {<<operation, inspection>>}
  queued,    \* what phones have sent so far, and may send again
  recorded,  \* findings the removal ledger names
  wiped,     \* findings deleted with the inspection they were in (history)
  links,     \* dbo.InspectionRaisedJobs: {<<inspection, finding>>}
  made,      \* [Findings -> jobs made from it so far]
  desk       \* the delete or the raise somebody is in the middle of

inspVars == <<insp, levels, rooms, finds, oplog, queued, recorded, wiped, links, made, desk>>

NoInsp == [status |-> "none", into |-> Nowhere]
NoFind == [room |-> Nowhere, photo |-> FALSE]
DeskIdle == [pc |-> "idle", insp |-> Nowhere, index |-> {}]

InspInit ==
  /\ insp = [i \in Insps |-> NoInsp]
  /\ levels = {} /\ rooms = [r \in Rooms |-> Nowhere] /\ finds = [p \in Findings |-> NoFind]
  /\ oplog = {} /\ queued = {} /\ recorded = {} /\ wiped = {} /\ links = {}
  /\ made = [p \in Findings |-> 0] /\ desk = DeskIdle

Is(i, status) == insp[i].status = status
RoomsOn(L) == {r \in Rooms : rooms[r] \in L}
RoomsOf(i) == RoomsOn({l \in levels : l[1] = i})
FindsIn(R) == {p \in Findings : finds[p].room \in R}
\* loadInspection, getInspections
FindsOf(i) == FindsIn(RoomsOf(i))

CreateInspection(i) ==
  /\ Is(i, "none")
  /\ insp' = [insp EXCEPT ![i] = [NoInsp EXCEPT !.status = "draft"]]
  /\ UNCHANGED <<levels, rooms, finds, oplog, queued, recorded, wiped, links, made, desk>>

(* ---- applyInspectionOps and applyOne ---- *)

Seen(op, i) == <<op, i>> \in oplog
Applies(op, i) ==
  /\ Is(i, "draft") /\ ~Seen(op, i) /\ Cardinality(queued) < MaxQueued
  /\ oplog' = oplog \cup {<<op, i>>} /\ queued' = queued \cup {<<op, i>>}
\* The id of a room or a finding is made by the phone, for the inspection it is in.
NewHere(op, i) == \A j \in Insps \ {i} : <<op, j>> \notin queued
\* recordInspectionRemoval: what is removed is written whole to the decision ledger.
InLedger(P) == recorded \cup P
\* Deleting a room takes its findings along; what went is in the ledger first.
Drop(R) ==
  /\ rooms' = [r \in Rooms |-> IF r \in R THEN Nowhere ELSE rooms[r]]
  /\ finds' = [p \in Findings |-> IF p \in FindsIn(R) THEN NoFind ELSE finds[p]]
  /\ recorded' = InLedger(FindsIn(R))
OpFrame == UNCHANGED <<insp, wiped, links, made, desk>>

AddLevel(i, n) ==
  /\ Applies(<<"addLevel", n>>, i) /\ <<i, n>> \notin levels
  /\ levels' = levels \cup {<<i, n>>}
  /\ UNCHANGED <<rooms, finds, recorded>> /\ OpFrame

RemoveLevel(i, n) ==
  /\ Applies(<<"removeLevel", n>>, i) /\ <<i, n>> \in levels
  /\ levels' = levels \ {<<i, n>>}
  /\ Drop(RoomsOn({<<i, n>>})) /\ OpFrame

\* A level, room or finding that is not of this inspection is not found.
AddRoom(i, n, r) ==
  /\ Applies(<<"addRoom", r>>, i) /\ <<i, n>> \in levels
  /\ NewHere(<<"addRoom", r>>, i)
  /\ rooms' = [rooms EXCEPT ![r] = <<i, n>>]
  /\ UNCHANGED <<levels, finds, recorded>> /\ OpFrame

RemoveRoom(i, r) ==
  /\ Applies(<<"removeRoom", r>>, i) /\ r \in RoomsOf(i)
  /\ Drop({r}) /\ UNCHANGED levels /\ OpFrame

AddPoint(i, r, p) ==
  /\ Applies(<<"addPoint", p>>, i) /\ r \in RoomsOf(i)
  /\ NewHere(<<"addPoint", p>>, i)
  /\ finds' = [finds EXCEPT ![p] = [NoFind EXCEPT !.room = r]]
  /\ UNCHANGED <<levels, rooms, recorded>> /\ OpFrame

RemovePoint(i, p) ==
  /\ Applies(<<"removePoint", p>>, i) /\ p \in FindsOf(i)
  /\ finds' = [finds EXCEPT ![p] = NoFind]
  /\ recorded' = InLedger({p})
  /\ UNCHANGED <<levels, rooms>> /\ OpFrame

\* updatePoint, updateRoom and updateInspection change text only; a photo is a fact of its finding.
AddAttachment(i, p) ==
  /\ Applies(<<"addAttachment", p>>, i) /\ p \in FindsOf(i)
  /\ finds' = [finds EXCEPT ![p].photo = TRUE]
  /\ UNCHANGED <<levels, rooms, recorded>> /\ OpFrame
RemoveAttachment(i, p) ==
  /\ Applies(<<"removeAttachment", p>>, i) /\ p \in FindsOf(i)
  /\ finds' = [finds EXCEPT ![p].photo = FALSE]
  /\ UNCHANGED <<levels, rooms, recorded>> /\ OpFrame

\* The findings move to the keeper before the other rooms of its level go.
MovedNone(keeper, R) == finds
Moved(keeper, R) == [p \in Findings |-> IF p \in FindsIn(R) THEN [finds[p] EXCEPT !.room = keeper] ELSE finds[p]]
LinkRooms(i, keeper, others) ==
  LET R == {r \in others : rooms[r] = rooms[keeper]}
      now == Moved(keeper, R)
  IN /\ keeper \in RoomsOf(i) /\ keeper \notin others /\ others # {}
     /\ Applies(<<"linkRooms", keeper, others>>, i)
     /\ rooms' = [r \in Rooms |-> IF r \in R THEN Nowhere ELSE rooms[r]]
     /\ finds' = [p \in Findings |-> IF now[p].room \in R THEN NoFind ELSE now[p]]
     /\ UNCHANGED <<levels, recorded>> /\ OpFrame

(* ---- the life of an inspection ---- *)

CompleteInspection(i) ==
  /\ Is(i, "draft")
  /\ insp' = [insp EXCEPT ![i].status = "complete"]
  /\ UNCHANGED <<levels, rooms, finds, oplog, queued, recorded, wiped, links, made, desk>>

RevertInspection(i) ==
  /\ Is(i, "complete")
  /\ insp' = [insp EXCEPT ![i].status = "draft"]
  /\ UNCHANGED <<levels, rooms, finds, oplog, queued, recorded, wiped, links, made, desk>>

\* Levels of one name become one; rooms move, and what was raised from a source moves too.
MergedLevels(S, t) == {l \in levels : l[1] \notin S} \cup {<<t, l[2]>> : l \in {k \in levels : k[1] \in S}}
MovedLinks(S, t) == {k \in links : k[1] \notin S} \cup {<<t, k[2]>> : k \in {m \in links : m[1] \in S}}
MergeInspections(S, t) ==
  /\ Is(t, "none") /\ Cardinality(S) >= 2 /\ \A i \in S : Is(i, "draft")
  /\ insp' = [i \in Insps |-> IF i = t THEN [NoInsp EXCEPT !.status = "draft"]
                              ELSE IF i \in S THEN [status |-> "merged", into |-> t] ELSE insp[i]]
  /\ levels' = MergedLevels(S, t) /\ links' = MovedLinks(S, t)
  /\ rooms' = [r \in Rooms |-> IF r \in UNION {RoomsOf(i) : i \in S} THEN <<t, rooms[r][2]>> ELSE rooms[r]]
  /\ UNCHANGED <<finds, oplog, queued, recorded, wiped, made, desk>>

DeleteReads(i) ==
  /\ desk = DeskIdle /\ Is(i, "draft")
  /\ desk' = [DeskIdle EXCEPT !.pc = "delete", !.insp = i]
  /\ UNCHANGED <<insp, levels, rooms, finds, oplog, queued, recorded, wiped, links, made>>

\* Whatever its status is by now.  The foreign keys cascade to levels, rooms and findings.
DeleteInspection ==
  LET i == desk.insp
      R == RoomsOf(i)
  IN /\ desk.pc = "delete"
     /\ insp' = [j \in Insps |-> IF j = i THEN [NoInsp EXCEPT !.status = "gone"]
                                 ELSE IF insp[j].into = i THEN [NoInsp EXCEPT !.status = "draft"] ELSE insp[j]]
     /\ levels' = {l \in levels : l[1] # i}
     /\ rooms' = [r \in Rooms |-> IF r \in R THEN Nowhere ELSE rooms[r]]
     /\ finds' = [p \in Findings |-> IF p \in FindsIn(R) THEN NoFind ELSE finds[p]]
     /\ wiped' = wiped \cup FindsIn(R)
     /\ oplog' = {e \in oplog : e[2] # i}
     /\ links' = {k \in links : k[1] # i}
     /\ desk' = DeskIdle
     /\ UNCHANGED <<queued, recorded, made>>

\* buildPointIndex over what was loaded.
RaiseReads(i) ==
  /\ desk = DeskIdle /\ Is(i, "complete") /\ FindsOf(i) # {}
  /\ desk' = [pc |-> "raise", insp |-> i, index |-> FindsOf(i)]
  /\ UNCHANGED <<insp, levels, rooms, finds, oplog, queued, recorded, wiped, links, made>>

\* The findings of one request, in jobs per finding, per room or as grouped by hand.
RaisedHere(i) == {k[2] : k \in {l \in links : l[1] = i}}
RaiseJobsFromInspection ==
  LET i == desk.insp IN
  /\ desk.pc = "raise" /\ desk' = DeskIdle
  /\ \/ /\ Is(i, "complete")
        /\ \E P \in (SUBSET desk.index) \ {{}} :
             LET new == P \ RaisedHere(i) IN
             /\ \A p \in new : made[p] < MaxJobs
             /\ links' = links \cup {<<i, p>> : p \in new}
             /\ made' = [p \in Findings |-> IF p \in new THEN made[p] + 1 ELSE made[p]]
     \/ ~Is(i, "complete") /\ UNCHANGED <<links, made>>
  /\ UNCHANGED <<insp, levels, rooms, finds, oplog, queued, recorded, wiped>>

InspNext ==
  \/ \E i \in Insps : \/ CreateInspection(i) \/ CompleteInspection(i) \/ RevertInspection(i)
                      \/ DeleteReads(i) \/ RaiseReads(i)
  \/ \E i \in Insps, n \in LevelNames : \/ AddLevel(i, n) \/ RemoveLevel(i, n)
                                        \/ \E r \in Rooms : AddRoom(i, n, r)
  \/ \E i \in Insps, r \in Rooms : \/ RemoveRoom(i, r)
                                   \/ \E p \in Findings : AddPoint(i, r, p)
                                   \/ \E others \in SUBSET Rooms : LinkRooms(i, r, others)
  \/ \E i \in Insps, p \in Findings : RemovePoint(i, p) \/ AddAttachment(i, p) \/ RemoveAttachment(i, p)
  \/ \E S \in SUBSET Insps, t \in Insps : MergeInspections(S, t)
  \/ DeleteInspection \/ RaiseJobsFromInspection

InspSpec == InspInit /\ [][InspNext]_inspVars

(* ---- properties ---- *)

\* Replayed, linked, merged, reverted and completed again, a finding that was taken
\* down is where somebody can find it: in its inspection, or in the ledger of removals
\* (applyOne, mergeInspections), and one that is on record is raised as one job at most
\* (raiseJobsFromInspection, which decides under the lock).
FindingsAreKept ==
  \A p \in Findings :
    /\ (\E i \in Insps : <<<<"addPoint", p>>, i>> \in queued) =>
         finds[p].room # Nowhere \/ p \in recorded \cup wiped
    /\ finds[p].room # Nowhere => made[p] <= 1
=============================================================================
