------------------------------- MODULE MCTimers -------------------------------
(* Two workers a timer starts again and again: the send queue's, whose runs may  *)
(* overlap, and the facilities scheduler.  They share no state, so each           *)
(* behaviour exercises one of them (scene).                                      *)
EXTENDS MCCommsQueue, Services

VARIABLE scene

timerVars == <<scene, vars, serviceVars>>

SendScene(A) == scene = "send" /\ A /\ UNCHANGED <<scene, serviceVars>>
ServiceScene(A) == scene = "services" /\ A /\ UNCHANGED <<scene, vars>>

TimersInit ==
  /\ scene \in {"send", "services"}
  /\ Init /\ ServicesInit
  /\ scene # "send" => refused = {}

(* Each worker's own fairness, of its own steps only. *)
TimersSpec ==
  /\ TimersInit /\ [][SendScene(Next) \/ ServiceScene(ServicesNext)]_timerVars
  /\ \A w \in Workers : /\ WF_timerVars(SendScene(RunStep(w)))
                        /\ WF_timerVars(SendScene(RunStarts(w, "live")))
  /\ \A r \in Rcpts : /\ WF_timerVars(SendScene(StalePasses(r)))
                      /\ WF_timerVars(SendScene(MinutePasses(r)))
                      /\ WF_timerVars(SendScene(WaitPasses(r)))
  /\ WF_timerVars(ServiceScene(SchedulerStep))
=============================================================================
