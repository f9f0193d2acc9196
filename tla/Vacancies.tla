----------------------------- MODULE Vacancies -----------------------------
(***************************************************************************)
(* Advertised vacancies: src/functions/vacancies.ts over dbo.Vacancies,    *)
(* the public image container and the WordPress site they are shown on.    *)
(*                                                                         *)
(* No handler holds a transaction or a lock: each reads the row, calls out *)
(* to WordPress or to blob storage, and writes the row by its id, and any  *)
(* of those calls can fail.  Two handlers may be anywhere in between; a    *)
(* vacancy two of them were on at once is marked crossed, and what such    *)
(* crossings can leave behind is not promised.  Text, image order and the  *)
(* building's own picture are left out; so are the rate limits.            *)
(***************************************************************************)
EXTENDS Naturals, FiniteSets

CONSTANTS Vacs, Pics, VacReqs,
  MaxPosts  \* posts made on the site: bounds the run

ASSUME VacConstants == MaxPosts \in Nat

VARIABLES
  vacs,       \* dbo.Vacancies: [Vacs -> [status, post, images, slot]]
  wp,         \* the site: [Posts -> [status, vac]]
  blobs,      \* pictures in the container
  vreqs,      \* [VacReqs -> the handler there, what it read and how far it is]
  crossed,    \* vacancies two handlers were on at once (history)
  unrecorded  \* posts whose publish never got to write them down (history)

vacVars == <<vacs, wp, blobs, vreqs, crossed, unrecorded>>

Posts == 1..MaxPosts
NoPost == 0
NoVac == [status |-> "none", post |-> NoPost, images |-> {}, slot |-> {}]
NoReq == [op |-> "none", step |-> "none", vac |-> {}, seen |-> NoVac, post |-> NoPost, pic |-> {}]

VacInit ==
  /\ vacs = [v \in Vacs |-> NoVac]
  /\ wp = [p \in Posts |-> [status |-> "none", vac |-> {}]]
  /\ blobs = {} /\ crossed = {} /\ unrecorded = {}
  /\ vreqs = [q \in VacReqs |-> NoReq]

HasRow(v) == vacs[v].status \in {"draft", "published"}
VacOf(q) == CHOOSE v \in Vacs : vreqs[q].vac = {v}
At(q, op, step) == vreqs[q].op = op /\ vreqs[q].step = step
Answer(q) == vreqs' = [vreqs EXCEPT ![q] = NoReq]
GoTo(q, step) == vreqs' = [vreqs EXCEPT ![q].step = step]
\* A blob's name is made for it: a name is looked at again only when nothing holds it.
Lists(row) == row.images \cup row.slot
Free(pic) ==
  /\ pic \notin blobs /\ \A v \in Vacs : pic \notin Lists(vacs[v])
  /\ \A q \in VacReqs : pic \notin vreqs[q].pic \cup Lists(vreqs[q].seen)

\* A deleted id is not given out again.
CreateVacancy(v) ==
  /\ vacs[v].status = "none"
  /\ vacs' = [vacs EXCEPT ![v].status = "draft"]
  /\ UNCHANGED <<wp, blobs, vreqs, crossed, unrecorded>>

OnSite == {"publish", "unpublish", "delete"}
\* A handler's first statement reads the row (an upload reads none) and 404s without one.
FirstStep(op) == CASE op \in {"publish", "upload"} -> "callOut"
                   [] op \in {"unpublish", "delete"} -> "unpublish"
                   [] op \in {"dropImage", "reorder"} -> "write"
                   [] op \in {"setSlot", "clearSlot"} -> "dropBlob"
Start(q, v, op, pic) ==
  /\ vreqs[q] = NoReq /\ HasRow(v)
  /\ op \in {"upload", "setSlot"} => Free(pic)
  /\ op = "dropImage" => pic \in vacs[v].images
  /\ op = "clearSlot" => vacs[v].slot = {pic}
  /\ vreqs' = [vreqs EXCEPT ![q] = [op |-> op, step |-> FirstStep(op), vac |-> {v},
                                    seen |-> IF op \in {"publish", "unpublish", "upload"} THEN NoVac ELSE vacs[v],
                                    post |-> IF op \in OnSite THEN vacs[v].post ELSE NoPost,
                                    pic |-> IF op \in OnSite \cup {"reorder"} THEN {} ELSE {pic}]]
  /\ crossed' = IF \E r \in VacReqs \ {q} : vreqs[r].vac = {v} THEN crossed \cup {v} ELSE crossed
  /\ UNCHANGED <<vacs, wp, blobs, unrecorded>>

(* ---- publish and unpublish ---- *)

\* WordPress: a PUT to the post the row named, or a POST that makes one; no answer is a failure.
CallPublish(q) ==
  \E p \in Posts :
    /\ At(q, "publish", "callOut")
    /\ IF vreqs[q].post # NoPost THEN p = vreqs[q].post
       ELSE wp[p].status = "none" /\ \A r \in Posts : r < p => wp[r].status # "none"
    /\ wp' = [wp EXCEPT ![p] = [status |-> "live", vac |-> vreqs[q].vac]]
    /\ \/ /\ vreqs' = [vreqs EXCEPT ![q].step = "write", ![q].post = p]
          /\ UNCHANGED unrecorded
       \/ /\ Answer(q)
          /\ unrecorded' = unrecorded \cup {p}
    /\ UNCHANGED <<vacs, blobs, crossed>>

\* The row takes the post's id only when it is still there.
WritePublished(q) ==
  LET v == VacOf(q) IN
  /\ At(q, "publish", "write") /\ HasRow(v)
  /\ vacs' = [vacs EXCEPT ![v].status = "published", ![v].post = vreqs[q].post]
  /\ Answer(q)
  /\ UNCHANGED <<wp, blobs, crossed, unrecorded>>

\* unpublishFromWordPress: the post becomes a draft (a 404 or 410 will do), or the handler answers 502.
NextStep(q) == IF vreqs[q].op = "unpublish" THEN "write" ELSE "erase"
CallUnpublish(q) ==
  LET p == vreqs[q].post IN
  /\ vreqs[q].step = "unpublish"
  /\ wp' = IF p = NoPost THEN wp ELSE [wp EXCEPT ![p].status = "draft"]
  /\ GoTo(q, NextStep(q))
  /\ UNCHANGED <<vacs, blobs, crossed, unrecorded>>
GoesOn(q) == vreqs[q].step = "unpublish" /\ GoTo(q, NextStep(q))
GivesUp(q) == vreqs[q].step = "unpublish" /\ vreqs[q].post # NoPost /\ Answer(q)
UnpublishFails(q) ==
  /\ GivesUp(q)
  /\ UNCHANGED <<vacs, wp, blobs, crossed, unrecorded>>

WriteUnpublished(q) ==
  LET v == VacOf(q) IN
  /\ At(q, "unpublish", "write") /\ HasRow(v)
  /\ vacs' = [vacs EXCEPT ![v].status = "draft", ![v].post = NoPost]
  /\ Answer(q)
  /\ UNCHANGED <<wp, blobs, crossed, unrecorded>>

\* The row goes first and its pictures after it, as they were when the row was read.
EraseRow(q) ==
  LET v == VacOf(q) IN
  /\ At(q, "delete", "erase")
  /\ vacs' = [vacs EXCEPT ![v] = [NoVac EXCEPT !.status = "deleted"]]
  /\ blobs' \in {blobs \ B : B \in SUBSET Lists(vreqs[q].seen)}
  /\ Answer(q)
  /\ UNCHANGED <<wp, crossed, unrecorded>>

(* ---- pictures ---- *)

\* The picture is in the container before the row lists it.
UploadBlob(q) ==
  /\ At(q, "upload", "callOut") \/ At(q, "setSlot", "callOut")
  /\ blobs' = blobs \cup vreqs[q].pic
  /\ GoTo(q, "write")
  /\ UNCHANGED <<vacs, wp, crossed, unrecorded>>
AppendImage(q) ==
  LET v == VacOf(q) IN
  /\ At(q, "upload", "write") /\ HasRow(v)
  /\ vacs' = [vacs EXCEPT ![v].images = @ \cup vreqs[q].pic]
  /\ Answer(q)
  /\ UNCHANGED <<wp, blobs, crossed, unrecorded>>

\* The whole list goes back as it was read, less the picture, and then the blob (an error there is dropped).
RowFirst(q) == /\ vacs' = [vacs EXCEPT ![VacOf(q)].images = vreqs[q].seen.images \ vreqs[q].pic]
               /\ blobs' \in {blobs, blobs \ vreqs[q].pic}
DropImage(q) ==
  /\ At(q, "dropImage", "write") /\ HasRow(VacOf(q))
  /\ RowFirst(q) /\ Answer(q)
  /\ UNCHANGED <<wp, crossed, unrecorded>>
\* The list sent must be the list read, in another order.
Reorder(q) ==
  LET v == VacOf(q) IN
  /\ At(q, "reorder", "write") /\ HasRow(v)
  /\ vacs' = [vacs EXCEPT ![v].images = vreqs[q].seen.images]
  /\ Answer(q)
  /\ UNCHANGED <<wp, blobs, crossed, unrecorded>>

\* A slot's old picture goes before the new one is there, and before the row is written.
DropSlotBlob(q) ==
  /\ vreqs[q].step = "dropBlob"
  /\ blobs' \in {blobs, blobs \ vreqs[q].seen.slot}
  /\ GoTo(q, IF vreqs[q].op = "setSlot" THEN "callOut" ELSE "write")
  /\ UNCHANGED <<vacs, wp, crossed, unrecorded>>
WriteSlot(q) ==
  LET v == VacOf(q) IN
  /\ At(q, "setSlot", "write") \/ At(q, "clearSlot", "write")
  /\ HasRow(v)
  /\ vacs' = [vacs EXCEPT ![v].slot = IF vreqs[q].op = "setSlot" THEN vreqs[q].pic ELSE {}]
  /\ Answer(q)
  /\ UNCHANGED <<wp, blobs, crossed, unrecorded>>

\* A statement fails or finds no row: the handler answers 404 or 500 and what it did before stays.
Fails(q) ==
  /\ vreqs[q].step \in {"write", "erase", "callOut"}
  /\ Answer(q)
  /\ unrecorded' = IF At(q, "publish", "write") THEN unrecorded \cup {vreqs[q].post} ELSE unrecorded
  /\ UNCHANGED <<vacs, wp, blobs, crossed>>

VacNext ==
  \/ \E v \in Vacs : CreateVacancy(v)
  \/ \E q \in VacReqs :
       \/ \E v \in Vacs, pic \in Pics : \E op \in {"publish", "upload", "unpublish", "delete", "dropImage",
                                                   "reorder", "setSlot", "clearSlot"} : Start(q, v, op, pic)
       \/ CallPublish(q) \/ WritePublished(q)
       \/ CallUnpublish(q) \/ UnpublishFails(q) \/ WriteUnpublished(q) \/ EraseRow(q)
       \/ UploadBlob(q) \/ AppendImage(q) \/ DropImage(q) \/ Reorder(q)
       \/ DropSlotBlob(q) \/ WriteSlot(q) \/ Fails(q)

VacSpec == VacInit /\ [][VacNext]_vacVars

(* ---- properties ---- *)

(* "Nothing was deleted; try again": unless two handlers crossed on it, a   *)
(* post that is live on the site is the one its vacancy's row names, or one *)
(* whose publish is still to write it down or failed to.  So no sequence of *)
(* publishing, unpublishing and deleting, each failing where it may, leaves *)
(* an advertisement nobody can take down from here.                         *)
LivePostIsNamed ==
  \A p \in Posts, v \in Vacs \ crossed :
    wp[p] = [status |-> "live", vac |-> {v}] /\ p \notin unrecorded =>
      \/ vacs[v].post = p
      \/ \E q \in VacReqs : At(q, "publish", "write") /\ vreqs[q].post = p

(* Unless two handlers crossed on it, a picture a vacancy lists is in the   *)
(* container, wherever an upload or a removal was cut short.                *)
ListedIsStored == \A v \in Vacs \ crossed : vacs[v].images \subseteq blobs

(* A vacancy's row tells of what is outside the database: its post and its  *)
(* pictures.                                                                *)
OutsideIsKnown == LivePostIsNamed /\ ListedIsStored
=============================================================================
