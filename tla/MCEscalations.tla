--------------------------- MODULE MCEscalations ---------------------------
(* Small instances of Escalations for TLC. *)
EXTENDS Escalations, FiniteSets, TLC

CONSTANTS j1, r1, r2

OneJob == {j1}
TwoRequests == {r1, r2}
OneRequest == {r1}
RequestSymmetry == Permutations({r1, r2})

\* The ladder has two levels: both staffed, or the first one empty.
FullStaffing == {{1, 2}}
TwoStaffings == {{1, 2}, {2}}
SoleLevel == {{1}}

ManualKeys  == {<<j1, "manual">>}
StalledKeys == {<<j1, "stalled">>}
JobKeys     == {<<j1, "manual">>, <<j1, "decision_pending">>}
ChangeKeys  == {<<"change", "ratification">>}
AuthorityKeys == ChangeKeys \cup {<<j1, "next_step">>}
RunKeys     == {<<j1, "decision_pending">>, <<"sweep_run", "health">>}
HealthKeys  == {<<j1, "critical">>} \cup (SystemSubjects \X {"health"})

\* Bound: which keys are exercised together, and what the directory looks like
\* meanwhile; the email settings stay.  A behaviour stays within a scene.
Scene(keys, staffings) == [keys |-> keys, staffings |-> staffings]
SceneKeys == JobKeys \cup StalledKeys \cup AuthorityKeys \cup RunKeys
Scenes == {Scene(JobKeys, FullStaffing), Scene(StalledKeys, FullStaffing),
           Scene(RunKeys, FullStaffing), Scene(ChangeKeys, TwoStaffings),
           Scene({<<j1, "next_step">>}, TwoStaffings)}
Touches(k) ==
  \/ active[k] \/ handled[k] \/ chased[k] \/ k \in decided
  \/ \E i \in Ids : rows[i].key = k
  \/ \E p \in Procs : work[p].key = k
WithinAScene ==
  /\ configured
  /\ \E s \in Scenes : {k \in Keys : Touches(k)} \subseteq s.keys /\ staffed \in s.staffings
=============================================================================
