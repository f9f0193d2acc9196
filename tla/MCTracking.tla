------------------------------ MODULE MCTracking ------------------------------
(* The parts of the system that promise that something is eventually taken up:  *)
(* the lease event generator, the Planner synchronisation and the deferral       *)
(* sweep.  They share no state, so each behaviour exercises one of them (scene)  *)
(* while the others stay where they started.                                     *)
EXTENDS LeaseEvents, Planner, JobDecisions, TLC

CONSTANTS mgr, dir, p1, p2

VARIABLE scene

trackingVars == <<scene, leaseVars, plannerVars, jdVars>>

LeaseScene(A) == scene = "lease" /\ A /\ UNCHANGED <<scene, plannerVars, jdVars>>
PlannerScene(A) == scene = "planner" /\ A /\ UNCHANGED <<scene, leaseVars, jdVars>>
DecisionScene(A) == scene = "decisions" /\ A /\ UNCHANGED <<scene, leaseVars, plannerVars>>

TrackingInit ==
  /\ scene \in {"lease", "planner", "decisions"}
  /\ LeaseInit /\ PlannerInit /\ JdInit

TrackingNext ==
  LeaseScene(LeaseNext) \/ PlannerScene(PlannerNext) \/ DecisionScene(JdNext)

(* Each part's own fairness, of its own steps only.  A behaviour stays in its    *)
(* scene, so one condition on the disjunction of the parts' steps is one          *)
(* condition for each part.                                                      *)
TimerStep == LeaseScene(GenStep) \/ DecisionScene(Sweep) \/ PlannerScene(NightStep)

TrackingSpec ==
  /\ TrackingInit /\ [][TrackingNext]_trackingVars
  /\ WF_trackingVars(TimerStep)
  /\ \A p \in Syncs \cup {Night} : WF_trackingVars(PlannerScene(ReconcileStep(p)))
  /\ \A c \in Conds : WF_trackingVars(PlannerScene(DuePasses(c)))
=============================================================================
