---------------------------- MODULE JobDecisions ----------------------------
(***************************************************************************)
(* Decisions asked for on an administration job: src/jobDecisions over     *)
(* dbo.JobDecisionRequests and dbo.JobDecisions, with the two escalations  *)
(* that chase a question and a next step.  The module is one job; its      *)
(* requests and decisions are numbered in the order they were made.        *)
(*                                                                         *)
(* Asking, answering, completing a step and asking again each lock the job *)
(* first and are one action; taking back locks the request.  The sweep     *)
(* lists the deferrals whose day has come before it takes them one by one. *)
(* A request sent with an old row version is refused and is no action.     *)
(* Texts, due times (a deferral's day is a flag) and reassigning the job   *)
(* are left out.                                                           *)
(***************************************************************************)
EXTENDS Naturals, FiniteSets, Sequences

CONSTANTS
  People, Makers,  \* who works here; who can hold a role that may decide
  MaxAsks          \* questions put on the job: bounds the run

ASSUME DecisionConstants == Makers \subseteq People /\ MaxAsks \in Nat

VARIABLES
  open,      \* the job is neither Done nor archived
  byStep,    \* a completed next step closed it, and nobody has reopened it
  asks,      \* [state, asker, role, asked] in order of RequestId
  decs,      \* [ask, outcome, step, due, reask] in order of DecisionId
  chase,     \* a live decision_pending escalation
  stepChase, \* the decision a live next_step escalation is about, or 0
  listed,    \* the deferrals the running sweep listed
  holders    \* active people who hold a role that may decide

jdVars == <<open, byStep, asks, decs, chase, stepChase, listed, holders>>

JdInit ==
  /\ open = TRUE /\ byStep = FALSE /\ asks = <<>> /\ decs = <<>>
  /\ chase = FALSE /\ stepChase = 0 /\ listed = {} /\ holders = Makers

Pending == {a \in DOMAIN asks : asks[a].state = "pending"}
OpenSteps == {d \in DOMAIN decs : decs[d].step = "open"}
\* hasLaterRequest
LaterAsk(d) == Len(asks) > decs[d].ask
\* hasScheduledReask, and the condition of dueDeferrals but for the day
Deferred(d) == decs[d].outcome = "defer" /\ decs[d].reask = 0
Scheduled(d) == Deferred(d) /\ ~LaterAsk(d)

(* ---- asking, taking back ---- *)

\* resolveDecisionMakers: named people must all be askable, a role is whoever else holds it.
CanBeAsked(asker, role, named) ==
  /\ named # {} /\ named \subseteq holders \ {asker}
  /\ role => named = holders \ {asker}
NewAsk(asker, role, named) == [state |-> "pending", asker |-> asker, role |-> role, asked |-> named]

RequestDecision(asker, role, named) ==
  /\ Len(asks) < MaxAsks
  /\ open /\ CanBeAsked(asker, role, named)
  /\ Pending = {} /\ ~chase
  /\ asks' = Append(asks, NewAsk(asker, role, named))
  /\ chase' = TRUE
  /\ UNCHANGED <<open, byStep, decs, stepChase, listed, holders>>

\* The asker or an administrator; the escalation is withdrawn with it.
WithdrawDecision(a) ==
  /\ a \in Pending
  /\ asks' = [asks EXCEPT ![a].state = "withdrawn"]
  /\ chase' = FALSE
  /\ UNCHANGED <<open, byStep, decs, stepChase, listed, holders>>

(* ---- answering ---- *)

\* responderStanding: never the asker; a role is who holds it now, named people are the ones asked.
MayAnswer(p, a) ==
  /\ p # asks[a].asker
  /\ IF asks[a].role THEN p \in holders ELSE p \in asks[a].asked

\* Denying a request is handled as approving it is.
Outcomes == {"approve", "revise", "defer"}
\* replaceOpenSteps: a new next step closes the older ones and the chase about them.
ChaseEnds(hasStep) == IF hasStep THEN 0 ELSE stepChase
Replaced == [d \in DOMAIN decs |-> IF d \in OpenSteps THEN [decs[d] EXCEPT !.step = "replaced"] ELSE decs[d]]

\* Approving and revising hand on a step, deferring may; the chase of a step is
\* raised unless its policy is switched off.
RespondDecision(p, a, outcome, hasStep, chased) ==
  LET new == [ask |-> a, outcome |-> outcome, step |-> IF hasStep THEN "open" ELSE "none",
              due |-> FALSE, reask |-> 0]
      left == ChaseEnds(hasStep)
  IN /\ a \in Pending /\ open /\ MayAnswer(p, a)
     /\ outcome # "defer" => hasStep
     /\ decs' = Append(IF hasStep THEN Replaced ELSE decs, new)
     /\ asks' = [asks EXCEPT ![a].state = "answered"]
     /\ chase' = FALSE
     /\ hasStep /\ chased => left = 0   \* raiseWithin finds no other live row
     /\ stepChase' = IF hasStep /\ chased THEN Len(decs') ELSE left
     /\ UNCHANGED <<open, byStep, listed, holders>>

(* ---- completing the next step ---- *)

\* What keeps the job open: a question, another step, or a question that is to come back.
WaitsNoReask == Pending # {} \/ Cardinality(OpenSteps) > 1
Waits == Pending # {} \/ Cardinality(OpenSteps) > 1 \/ \E d \in DOMAIN decs : Scheduled(d)

\* closeInternalJobWithin may refuse (the job's own rules) or find the job changed.
Closes(refused) == open /\ ~Waits /\ ~refused
CompleteNextStep(d, refused) ==
  LET closes == decs[d].outcome = "approve" /\ Closes(refused)
  IN /\ d \in OpenSteps
     /\ decs' = [decs EXCEPT ![d].step = "done"]
     /\ stepChase' = IF stepChase = d THEN 0 ELSE stepChase
     /\ open' = (open /\ ~closes)
     /\ byStep' = (byStep \/ closes)
     /\ UNCHANGED <<asks, chase, listed, holders>>

\* The job screen closes and reopens a job whatever it waits for.
CloseJob == open /\ open' = FALSE /\ UNCHANGED <<byStep, asks, decs, chase, stepChase, listed, holders>>
ReopenJob == ~open /\ open' = TRUE /\ byStep' = FALSE /\ UNCHANGED <<asks, decs, chase, stepChase, listed, holders>>

(* ---- asking again: the sweep's reaskDeferred ---- *)

DayComes(d) ==
  /\ Deferred(d) /\ ~decs[d].due
  /\ decs' = [decs EXCEPT ![d].due = TRUE]
  /\ UNCHANGED <<open, byStep, asks, chase, stepChase, listed, holders>>

DueWhenSettled == {d \in DOMAIN decs : Scheduled(d) /\ decs[d].due /\ open /\ OpenSteps = {}}
DueDeferrals == {d \in DOMAIN decs : Scheduled(d) /\ decs[d].due /\ open}
ListDeferrals ==
  /\ listed = {} /\ DueDeferrals # {}
  /\ listed' = DueDeferrals
  /\ UNCHANGED <<open, byStep, asks, decs, chase, stepChase, holders>>

\* reaskMakers: the role, or those of the people who can still be asked.
Askable(a) == IF asks[a].role THEN holders \ {asks[a].asker} ELSE asks[a].asked \cap holders
CanAskAgain(a) == Askable(a) # {}

\* Under the job's lock everything is looked at again; the unique index and the live chase
\* stop what would be a second question.
StillReask(d) == Deferred(d) /\ open /\ ~LaterAsk(d)
ReaskDeferral(d) ==
  LET a == decs[d].ask
      go == StillReask(d) /\ CanAskAgain(a) /\ Pending = {} /\ ~chase /\ Len(asks) < MaxAsks
  IN /\ d \in listed
     /\ listed' = listed \ {d}
     /\ IF go
        THEN /\ asks' = Append(asks, NewAsk(asks[a].asker, asks[a].role, Askable(a)))
             /\ decs' = [decs EXCEPT ![d].reask = Len(asks) + 1]
             /\ chase' = TRUE
        ELSE UNCHANGED <<asks, decs, chase>>
     /\ UNCHANGED <<open, byStep, stepChase, holders>>

\* Accounts and roles come and go (updateUser, archiveUser).
RoleChanges(p) ==
  /\ holders' = IF p \in holders THEN holders \ {p} ELSE holders \cup {p}
  /\ UNCHANGED <<open, byStep, asks, decs, chase, stepChase, listed>>

Sweep == ListDeferrals \/ \E d \in listed : ReaskDeferral(d)
JdNext ==
  \/ \E p \in People, role \in BOOLEAN, named \in SUBSET Makers : RequestDecision(p, role, named)
  \/ \E a \in DOMAIN asks :
       \/ WithdrawDecision(a)
       \/ \E p \in People, outcome \in Outcomes, hasStep, chased \in BOOLEAN :
            RespondDecision(p, a, outcome, hasStep, chased)
  \/ \E d \in DOMAIN decs : DayComes(d) \/ \E refused \in BOOLEAN : CompleteNextStep(d, refused)
  \/ CloseJob \/ ReopenJob \/ Sweep
  \/ \E p \in Makers : RoleChanges(p)

JdSpec == JdInit /\ [][JdNext]_jdVars /\ WF_jdVars(Sweep)

(* ---- properties ---- *)

(* A job that a completed next step closed has nothing left to answer or to *)
(* do: no question waits on it, no step is open, and none will be asked     *)
(* again, until somebody reopens it (completeNextStep, and every handler    *)
(* that refuses a closed job).                                              *)
ClosedByStepIsQuiet ==
  byStep => Pending = {} /\ OpenSteps = {} /\ ~\E d \in DOMAIN decs : Scheduled(d)

(* What the live next-step escalation is about is a step that is still      *)
(* open, the newest one: a step done or replaced is not chased any more.    *)
StepChaseIsOpen == stepChase # 0 => stepChase \in OpenSteps /\ \A d \in OpenSteps : d <= stepChase

(* A deferred question comes back once, as the very next question on the    *)
(* job: a sweep that listed it before somebody asked anew asks nothing.     *)
ComesBackOnce ==
  \A d \in DOMAIN decs : decs[d].reask # 0 => decs[d].reask = decs[d].ask + 1

(* A deferred question whose day has come is asked again, unless somebody   *)
(* asks first, the job is closed or nobody can be asked any more.           *)
DeferralComesBack ==
  \A n \in 1..(MaxAsks - 1) :
    (/\ n \in DOMAIN decs /\ Scheduled(n) /\ decs[n].due /\ open
     /\ CanAskAgain(decs[n].ask) /\ Len(asks) < MaxAsks) ~>
      (n \in DOMAIN decs /\ (~open \/ LaterAsk(n) \/ ~CanAskAgain(decs[n].ask)))

(* No question or chase outlives what it is about, and none is put twice.   *)
NothingAskedInVain == ClosedByStepIsQuiet /\ StepChaseIsOpen /\ ComesBackOnce
=============================================================================
