------------------------------ MODULE MCProperty ------------------------------
(* Rent reviews, vacancies, inspections, attachments and the parts of a       *)
(* tenancy: registers that share no state, so each behaviour exercises one of    *)
(* them (scene) and leaves the others as they started.                           *)
EXTENDS RentReviews, Vacancies, Inspections, Files, TenancyParts, TLC

CONSTANTS acct, dir, x1, x2, y1, y2

VARIABLE scene

MCRank == [u \in Users |-> IF u = dir THEN 3 ELSE 1]
MCRates == {-1, 1}
MCBases == {[ratchet |-> TRUE, departs |-> TRUE]}
MCOut == {1}

(* The parts take their identifiers from the same two pairs of values: one
   permutation serves every part at once. *)
PropertySymmetry == Permutations({x1, x2}) \cup Permutations({y1, y2})

(* The index is read for a lease that follows it only; elsewhere its being
   published is left out. *)
IndexMatters == lease = "cpi" \/ published = 0

propertyVars == <<scene, rentVars, vacVars, inspVars, fileVars, partVars>>

PropertyInit ==
  /\ scene \in {"rent", "vacancy", "inspection", "files", "parts"}
  /\ scene # "rent" => lease = "cpi"
  /\ RentInit /\ VacInit /\ InspInit /\ FilesInit /\ PartsInit

PropertyNext ==
  \/ /\ scene = "rent" /\ RentNext
     /\ UNCHANGED <<scene, vacVars, inspVars, fileVars, partVars>>
  \/ /\ scene = "vacancy" /\ VacNext
     /\ UNCHANGED <<scene, rentVars, inspVars, fileVars, partVars>>
  \/ /\ scene = "inspection" /\ InspNext
     /\ UNCHANGED <<scene, rentVars, vacVars, fileVars, partVars>>
  \/ /\ scene = "files" /\ FilesNext
     /\ UNCHANGED <<scene, rentVars, vacVars, inspVars, partVars>>
  \/ /\ scene = "parts" /\ PartsNext
     /\ UNCHANGED <<scene, rentVars, vacVars, inspVars, fileVars>>

PropertySpec == PropertyInit /\ [][PropertyNext]_propertyVars
=============================================================================
