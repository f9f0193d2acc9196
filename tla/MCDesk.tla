-------------------------------- MODULE MCDesk --------------------------------
(* Absence cover, the tenancy schedule, the key register, the working-hours      *)
(* arithmetic of decision times, the asset register and the procedures library:  *)
(* parts that share no state, so each behaviour exercises one of them (scene)    *)
(* and leaves the others as they started.                                        *)
EXTENDS AbsenceCover, TenancySchedule, Keys, DecisionTimes, Assets, Procedures, TLC

CONSTANTS s1, s2, s3, d1

VARIABLE scene

MCAsked == [q \in Questions |-> {s1, s2}]
MCRaised == [q \in Questions |-> s3]
MCRoleOf == [p \in Writers |-> IF p = d1 THEN "director" ELSE "facilities_manager"]
MCPairs == {<<s1, s3>>, <<s2, s3>>}
MCSpans == [r \in Reliefs |-> IF r = "r1" THEN [from |-> 1, to |-> 2, scope |-> {"rent"}]
                                          ELSE [from |-> 2, to |-> 3, scope |-> {"rent", "fees"}]]
(* Half hours of eight days around a weekend, at the edges of the working day. *)
MCMoments == {d * 48 + s : d \in 50..57, s \in {0, 16, 17, 33, 34, 47}}
MCHolidays == {{}, {53, 56}, {50, 51, 54, 57, 58, 61}, {56, 57, 58, 59, 60, 61, 62, 63}}

DeskSymmetry == Permutations({s1, s2})

deskVars == <<scene, acVars, tsVars, keyVars, dtVars, assetVars, procedureVars>>

(* Where a behaviour does not exercise a part, one of its initial states is enough. *)
OneOpen == Cardinality({i \in Items : work[i].open}) = 1
CoverRests == \A i \in Items : ~work[i].open /\ work[i].holder \in {s3, Nobody}
TenancyRests == tenancy.expiry = 2
TimesRest == hols = {} /\ asked = CHOOSE r \in Requests(48 * 50, {}) : TRUE

DeskInit ==
  /\ scene \in {"cover", "tenancy", "keys", "times", "assets", "procedures"}
  /\ AcInit /\ TsInit /\ KeysInit /\ AssetsInit /\ ProceduresInit
  /\ IF scene = "cover" THEN OneOpen /\ \A j \in CoverJobs : work[j].holder \in {s1, s2} ELSE CoverRests
  /\ scene # "tenancy" => TenancyRests
  /\ scene # "times" => TimesRest /\ waits = [from |-> 48 * 50, hours |-> 0, until |-> AddHours(48 * 50, 0, {})]
  /\ DtInit

DeskNext ==
  \/ /\ scene = "cover" /\ AcNext
     /\ UNCHANGED <<scene, tsVars, keyVars, dtVars, assetVars, procedureVars>>
  \/ /\ scene = "tenancy" /\ TsNext
     /\ UNCHANGED <<scene, acVars, keyVars, dtVars, assetVars, procedureVars>>
  \/ /\ scene = "keys" /\ KeysNext
     /\ UNCHANGED <<scene, acVars, tsVars, dtVars, assetVars, procedureVars>>
  \/ /\ scene = "times" /\ DtNext
     /\ UNCHANGED <<scene, acVars, tsVars, keyVars, assetVars, procedureVars>>
  \/ /\ scene = "assets" /\ AssetsNext
     /\ UNCHANGED <<scene, acVars, tsVars, keyVars, dtVars, procedureVars>>
  \/ /\ scene = "procedures" /\ ProceduresNext
     /\ UNCHANGED <<scene, acVars, tsVars, keyVars, dtVars, assetVars>>

DeskSpec == DeskInit /\ [][DeskNext]_deskVars
=============================================================================
